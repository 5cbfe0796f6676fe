---------------------------- MODULE HttpMessages ----------------------------
(***************************************************************************)
(* HTTP/1 messages as the two peers of a relay see them: what one of them  *)
(* writes, and what the other reads back.  Nothing here is code of the     *)
(* proxy: it is the environment of http/machine.rs and the reference its   *)
(* output is compared with.                                                *)
(*                                                                         *)
(* A stream is a sequence of atoms [k, v, n].  A text the machine never    *)
(* looks into (a header block, a chunk size, a trailer field) is one atom; *)
(* CR, LF and payload bytes are atoms of their own, so that an arrival may *)
(* be cut wherever the framing parser can tell the difference.             *)
(***************************************************************************)
EXTENDS Needle

CONSTANT Connections   \* by name: one direction of a connection, see HttpWire

VARIABLE conn          \* the one at hand, chosen once

\* "down": requests on their way out; "up": responses.
Dir   == Connections[conn].dir
\* <<[needle, replacement], ...>> over payload atoms.
Pairs == Connections[conn].pairs

Atom(k, v, n) == [k |-> k, v |-> v, n |-> n]
CR      == Atom("cr", 0, 0)
LF      == Atom("lf", 0, 0)
CRLF    == <<CR, LF>>
Byte(x) == Atom("byte", x, 0)
Size(n) == Atom("size", n, 0)      \* a chunk-size text
Junk    == Atom("junk", 0, 0)      \* a text that is neither size nor CRLF
Field   == Atom("trail", 0, 0)     \* a trailer field
Long(i) == Atom("long", i, 0)      \* a text longer than MAX_HEAD_BYTES

(* A message is described by                                               *)
(*   framing  "none", "fixed", "chunked", or "broken" (ambiguous)          *)
(*   chunks   its payload, chunk by chunk                                  *)
(*   enc      it has a content-encoding: the payload is opaque             *)
(*   class    "final", "interim" (1xx) or "empty" (204, 205, 304)          *)
(*   head     it is a HEAD request, or the answer to one                   *)
(*   secret   its header block holds a needle                              *)
(*   trailer  "no", "yes" or "long"                                        *)
(*   text     its header block: "ok", "unparsed", "binary" or "long"       *)
(*   tear     where its chunked framing is violated: "no", "size", "end"   *)
HasBody(d)  == d.class = "final" /\ ~(Dir = "up" /\ d.head)
Declared(d) == FlattenSeq(d.chunks)
Payload(d)  == IF HasBody(d) THEN Declared(d) ELSE <<>>

HeadBlock(d, i) ==
  (IF d.text = "long" THEN <<Long(i)>> ELSE <<>>)
    \o <<Atom("head", i, Len(Declared(d)))>> \o CRLF \o CRLF

Trailer(d, i) == CASE d.trailer = "no"   -> <<>>
                   [] d.trailer = "yes"  -> <<Field>> \o CRLF
                   [] d.trailer = "long" -> <<Field>> \o CRLF \o <<Long(i)>> \o CRLF

Chunk(d, j) ==
  <<Size(Len(d.chunks[j]))>> \o CRLF \o d.chunks[j]
    \o (IF d.tear = "end" /\ j = 1 THEN <<CR, Junk>> ELSE CRLF)

BodyWire(d, i) ==
  IF ~HasBody(d) THEN <<>>
  ELSE IF d.framing = "chunked"
  THEN FlattenSeq([j \in DOMAIN d.chunks |-> Chunk(d, j)])
         \o (IF d.tear = "size" THEN <<Junk>> \o CRLF ELSE <<>>)
         \o <<Size(0)>> \o CRLF \o Trailer(d, i) \o CRLF
  ELSE Payload(d)

MessageWire(d, i) == HeadBlock(d, i) \o BodyWire(d, i)

\* Everything the writing peer sends for these messages.
Wire(msgs) == FlattenSeq([i \in DOMAIN msgs |-> MessageWire(msgs[i], i)])

-----------------------------------------------------------------------------
(* What the reading peer should see of message i, and a strict reader.     *)

Msg(i)  == Atom("msg", i, 0)
Over(i) == Atom("over", i, 0)

CloseDelimited(d) == Dir = "up" /\ HasBody(d) /\ d.framing = "none"

Seen(d, i) ==
  <<Msg(i)>>
    \o (IF d.enc THEN Payload(d) ELSE ReplaceIn(Payload(d), Pairs))
    \o (IF HasBody(d) THEN SelectSeq(Trailer(d, i), LAMBDA a : a \notin {CR, LF}) ELSE <<>>)
    \o (IF CloseDelimited(d) THEN <<>> ELSE <<Over(i)>>)

SeenAll(msgs) == FlattenSeq([i \in DOMAIN msgs |-> Seen(msgs[i], i)])

IsPayload(a) == a.k \in {"byte", "signed"}

\* A payload byte without a plugin's signature; the byte a plugin adds is none.
Plain(a) == IF a.k = "signed"
            THEN (IF a.v = 0 THEN <<>> ELSE <<Byte(a.v)>>)
            ELSE <<a>>

\* The reader: atoms it must see next (todo), where it is (st), the message it
\* is in (cur), payload bytes left of the body or chunk (left), what it got.
Reader0 == [todo |-> <<>>, st |-> "start", cur |-> 0, left |-> 0, got |-> <<>>]

Settle(r) ==
  CASE r.todo = <<>> /\ r.st = "fixed" /\ r.left = 0 ->
         [r EXCEPT !.st = "start", !.got = Append(@, Over(r.cur))]
    [] r.todo = <<>> /\ r.st = "chunk" /\ r.left = 0 ->
         [r EXCEPT !.st = "size", !.todo = CRLF]
    [] OTHER -> r

ReadHead(msgs, r, a) ==
  LET d  == msgs[a.v]
      st == IF ~HasBody(d) THEN "fixed"
            ELSE CASE d.framing = "chunked" -> "size"
                   [] CloseDelimited(d)     -> "stream"
                   [] OTHER                 -> "fixed"
  IN  [r EXCEPT !.todo = CRLF \o CRLF, !.cur = a.v, !.st = st,
                !.left = IF HasBody(d) /\ d.framing = "fixed" THEN a.n ELSE 0,
                !.got = Append(@, Msg(a.v))]

Read(msgs, r, a) ==
  CASE r.todo # <<>> /\ a = Head(r.todo) -> Settle([r EXCEPT !.todo = Tail(@)])
    [] r.todo # <<>> /\ a # Head(r.todo) -> [r EXCEPT !.st = "bad", !.todo = <<>>]
    [] r.todo = <<>> /\ r.st = "start" /\ a.k \in {"head", "swap"} -> ReadHead(msgs, r, a)
    [] r.todo = <<>> /\ r.st \in {"fixed", "chunk"} /\ IsPayload(a) ->
         Settle([r EXCEPT !.left = @ - 1, !.got = @ \o Plain(a)])
    [] r.todo = <<>> /\ r.st = "stream" /\ IsPayload(a) -> [r EXCEPT !.got = @ \o Plain(a)]
    [] r.todo = <<>> /\ r.st = "size" /\ a.k = "size" ->
         [r EXCEPT !.st = IF a.v = 0 THEN "trailers" ELSE "chunk", !.left = a.v, !.todo = CRLF]
    [] r.todo = <<>> /\ r.st = "trailers" /\ a.k \in {"trail", "long"} ->
         [r EXCEPT !.todo = CRLF, !.got = Append(@, a)]
    [] r.todo = <<>> /\ r.st = "trailers" /\ a = CR ->
         [r EXCEPT !.todo = <<LF>>, !.st = "fixed", !.left = 0]
    [] OTHER -> [r EXCEPT !.st = "bad"]

\* What the reading peer made of a stream.
Reads(msgs, atoms) == FoldLeft(LAMBDA r, a : Read(msgs, r, a), Reader0, atoms)
=============================================================================
