----------------------------- MODULE MCHttpWire -----------------------------
(* Small connections for HttpWire: payload letters, pairs, and the messages *)
(* each run lets a peer choose from.                                       *)
EXTENDS HttpWire

P == Byte(1)
Q == Byte(2)
O == Byte(3)
FreshToken == Byte(8)
DecoyToken == Byte(9)

\* The needle PQ, swapped for something as long or for something longer.
EqualPair == <<[needle |-> <<P, Q>>, replacement |-> <<Byte(6), Byte(7)>>]>>
DriftPair == <<[needle |-> <<P, Q>>, replacement |-> <<Byte(6), Byte(7), Byte(6)>>]>>

Base == [framing |-> "none", chunks |-> <<>>, enc |-> FALSE, class |-> "final", head |-> FALSE,
         secret |-> FALSE, trailer |-> "no", text |-> "ok", tear |-> "no"]
Fixed(body)     == [Base EXCEPT !.framing = "fixed", !.chunks = <<body>>]
Chunked(chunks) == [Base EXCEPT !.framing = "chunked", !.chunks = chunks]

\* Requests that any client sends.
Requests ==
  { Base, [Base EXCEPT !.head = TRUE], [Base EXCEPT !.secret = TRUE],
    Fixed(<<>>), Fixed(<<P, Q>>), Fixed(<<P, O>>), [Fixed(<<P, Q>>) EXCEPT !.enc = TRUE],
    Chunked(<<>>), Chunked(<< <<P>>, <<Q>> >>), [Chunked(<< <<O, P>> >>) EXCEPT !.trailer = "yes"] }

\* Responses of a server that frames what it sends.
Responses ==
  { Fixed(<<>>), Fixed(<<P, Q>>), Fixed(<<P, O>>), [Fixed(<<O, P>>) EXCEPT !.enc = TRUE],
    [Fixed(<<P, Q>>) EXCEPT !.enc = TRUE], [Fixed(<<O>>) EXCEPT !.head = TRUE],
    [Base EXCEPT !.class = "interim"], [Base EXCEPT !.class = "empty"],
    [Base EXCEPT !.class = "empty", !.head = TRUE],
    [Base EXCEPT !.chunks = << <<P, Q, P>> >>, !.secret = TRUE],
    Chunked(<< <<P>>, <<Q>> >>), [Chunked(<< <<O, P>> >>) EXCEPT !.trailer = "yes"] }

\* What no parser can frame, with nothing for the scan to find in the wrong place.
Unframable ==
  { [Base EXCEPT !.text = "binary"], [Base EXCEPT !.text = "unparsed"],
    [Fixed(<<O, P>>) EXCEPT !.text = "long"], [Fixed(<<P, O>>) EXCEPT !.framing = "broken"],
    [Fixed(<<P, Q>>) EXCEPT !.framing = "broken"] }
Torn ==
  { [Chunked(<< <<P>>, <<Q>> >>) EXCEPT !.tear = "end"], [Chunked(<< <<P, Q, O>> >>) EXCEPT !.tear = "size"],
    [Chunked(<< <<O>> >>) EXCEPT !.trailer = "long"] }
Opaque    == {[Chunked(<< <<P, Q>> >>) EXCEPT !.enc = TRUE], [Fixed(<<P, Q>>) EXCEPT !.enc = TRUE]}
HookedUp  == Unframable \cup Torn \cup Opaque \cup
             {Fixed(<<P, Q>>), Base, Chunked(<< <<P>>, <<Q>> >>),
              [Chunked(<< <<O>> >>) EXCEPT !.trailer = "yes"]}
Untrusted == Unframable \cup Torn \cup Opaque \cup {Fixed(<<P, O>>)}
Plaintext == {m \in Unframable : m.chunks # << <<P, Q>> >>} \cup
             {Fixed(<<P, O>>), Chunked(<< <<O>>, <<P>> >>), [Chunked(<< <<O, P>> >>) EXCEPT !.trailer = "yes"],
              [Chunked(<< <<O>> >>) EXCEPT !.tear = "size"]}

\* Answers to pipelined requests, none of them a HEAD.
Pipeline == { Fixed(<<P, O>>), [Base EXCEPT !.class = "interim"], [Base EXCEPT !.class = "empty"],
              Chunked(<< <<P>>, <<Q>> >>), [Base EXCEPT !.chunks = << <<O, P>> >>] }

\* A token issuer.
Tokens == { Fixed(<<FreshToken>>), Fixed(<<O, FreshToken, P, Q>>), Chunked(<< <<O>>, <<FreshToken>> >>),
            [Base EXCEPT !.class = "empty"], [Fixed(<<FreshToken>>) EXCEPT !.head = TRUE],
            Chunked(<< <<FreshToken, O, O>>, <<O, O>> >>) }

\* A compressed chunked response and one behind it.
Compressed == {[Chunked(<< <<O>> >>) EXCEPT !.enc = TRUE], Fixed(<<O>>)}

Conn(dir, pairs, catalog) ==
  [dir |-> dir, pairs |-> pairs, catalog |-> catalog, hooked |-> FALSE, minting |-> FALSE,
   pipelined |-> FALSE, truncated |-> FALSE]

\* Peers that frame what they send.
FramedConnections ==
  [ requests  |-> Conn("down", DriftPair, Requests),
    responses |-> Conn("up", DriftPair, Responses),
    pipelined |-> [Conn("up", EqualPair, Pipeline) EXCEPT !.pipelined = TRUE],
    tokens    |-> [Conn("up", DriftPair, Tokens) EXCEPT !.minting = TRUE, !.truncated = TRUE] ]

\* Peers that do not, connections that end anywhere, and a plugin.
DegradedConnections ==
  [ hooked    |-> [Conn("up", EqualPair, HookedUp) EXCEPT !.hooked = TRUE],
    untrusted |-> [Conn("up", EqualPair, Untrusted) EXCEPT !.truncated = TRUE],
    plaintext |-> [Conn("down", EqualPair, Plaintext) EXCEPT !.truncated = TRUE] ]

AllConnections == FramedConnections @@ DegradedConnections

CompressedConnections == [ compressed |-> Conn("up", EqualPair, Compressed) ]
=============================================================================
