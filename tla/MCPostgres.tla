----------------------------- MODULE MCPostgres -----------------------------
(* Guests of a postgres:// rule: the orders in which clients negotiate, and *)
(* openings that are no greeting.                                           *)
EXTENDS Postgres

Request(code) == [kind |-> "request", code |-> code]
ClientHello(name) == [kind |-> "hello", name |-> name]
Greeting   == [kind |-> "startup"]
Data(bytes) == [kind |-> "data", bytes |-> bytes]

P == Byte(1)
Q == Byte(2)

\* A password both sides spell with as many bytes, and one they do not.
MCPairs == <<[needle |-> <<P, Q>>, replacement |-> <<Byte(6), Byte(7)>>],
             [needle |-> <<Byte(3)>>, replacement |-> <<Byte(8), Byte(8)>>]>>

Query == Data(<<P, Q, Byte(3)>>)

MCScripts ==
  { <<Greeting, Query>>, <<Request("gss"), Greeting, Query>>,
    <<Request("ssl"), ClientHello("host"), Greeting, Query>>,
    <<Request("gss"), Request("ssl"), ClientHello("host"), Greeting>>,
    <<ClientHello("host"), Request("ssl"), Greeting>>, <<ClientHello("other"), Greeting>>,
    <<ClientHello("none"), Request("gss"), Request("ssl"), Greeting>>,
    <<Request("ssl"), Greeting>>, <<Request("odd")>>, <<[kind |-> "junk"], Query>>,
    <<[kind |-> "badlen"]>>, <<ClientHello("host"), [kind |-> "junk"]>>,
    <<ClientHello("host"), Request("odd")>>, <<ClientHello("host"), Data(<<P, Q, P>>)>> }
=============================================================================
