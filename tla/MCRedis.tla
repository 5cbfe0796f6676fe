------------------------------- MODULE MCRedis -------------------------------
(* Clients of a redis:// rule.                                              *)
EXTENDS Redis

FakeWord == <<TokenByte("f")>>
RealWord == <<TokenByte("s"), TokenByte("s"), TokenByte("s")>>
Upstream == <<TokenByte("r"), TokenByte("r")>>
Guest    == <<TokenByte("u")>>
Version  == <<TokenByte("3")>>
Name     == <<TokenByte("n")>>

\* Longer than a command may be.
Long     == [i \in 1..19 |-> TokenByte("g")]

MCPairs == <<[needle |-> FakeWord, replacement |-> RealWord], [needle |-> Guest, replacement |-> <<TokenByte("v")>>]>>

Array(tokens)  == [form |-> "array", tokens |-> tokens]
Inline(tokens) == [form |-> "inline", tokens |-> tokens]

MCCommands ==
  { Array(<<AUTH, FakeWord>>), Array(<<AUTH, Guest, FakeWord>>), Array(<<AUTH, Guest, Guest>>), Array(<<AUTH>>),
    Array(<<HELLO, Version, AUTH, Guest, FakeWord>>), Array(<<HELLO, Version>>), Array(<<HELLO, Version, AUTH, Guest>>),
    Array(<< <<TokenByte("g")>>, <<LineEnd>> >>), Array(<< <<TokenByte("g")>>, FakeWord, <<>> >>),
    Inline(<<AUTH, FakeWord>>), Inline(<<AUTH, Guest, FakeWord>>), Inline(<<AUTH, FakeWord, FakeWord, FakeWord>>),
    Inline(<<HELLO, Version, AUTH, Guest, FakeWord>>), Inline(<< <<TokenByte("g")>>, FakeWord>>),
    Inline(<<AUTH, <<TokenByte("T")>>, FakeWord>>), Inline(<<HELLO, Version, AUTH, Guest>>), Array(<<HELLO, Version, AUTH>>),
    Array(<<HELLO, Version, Name, AUTH, Guest, FakeWord>>), Array(<<Long>>) }
=============================================================================
