------------------------------ MODULE Postgres ------------------------------
(***************************************************************************)
(* One connection of a postgres:// rule, from the guest's first byte to    *)
(* the relay: the serve arm (transports/postgres/mod.rs), the negotiation  *)
(* helpers and the request direction's wire machine (postgres/machine.rs), *)
(* and the TLS opening they share with other transports (connection.rs).   *)
(*                                                                         *)
(* Bytes are atoms of the size the code looks at: a length word, a code    *)
(* word (the two together are the 8 bytes of a negotiation request), the   *)
(* parts of a startup message, a payload byte.  What follows the guest's   *)
(* ClientHello travels inside TLS and cannot be read before the handshake. *)
(***************************************************************************)
EXTENDS Raw

CONSTANTS Scripts,      \* what guests send: a set of sequences of messages
          Pairs,        \* credential pairs of the rule
          MaxGreeting   \* MAX_GREETING

VARIABLES
  scope,      \* the rule: ssl mode, direct negotiation, trust anchor, user rewrite
  host,       \* the connection's authority is known
  cert,       \* what the server's certificate is worth
  script, pos,      \* what the guest sends, and how much of it was read
  phase,      \* where serve is
  buf,        \* read and not yet consumed: the opening's buffer, the guest head
  guestTls,   \* the guest leg is TLS
  accepted,   \* the server accepted TLS
  wire,       \* struct Postgres
  answers,    \* negotiation answers the guest got
  toServer,   \* what the request direction emitted
  \* history, for the properties only
  fed,        \* everything the wire machine was fed
  dropped,    \* bytes behind the startup message were dropped
  forgot      \* the raw wire dropped held bytes

opening == <<buf, guestTls, accepted, answers>>
rule    == <<scope, host, cert, script>>
machine == <<wire, toServer, fed, dropped, forgot>>
vars    == <<rule, pos, phase, opening, machine>>

-----------------------------------------------------------------------------
(* Messages as atoms.                                                      *)

LenWord(n)  == <<"len", n>>
Code(c)     == <<"code", c>>
TlsRecord   == <<"tls", "record">>
Hello(name) == <<"hello", name>>
Protocol    == <<"startup", "protocol">>
User(u)     == <<"user", u>>
End         == <<"startup", "end">>
Byte(b)     == <<"byte", b>>

NegotiationLen == 2

\* An upstream user is spelled at another length than the guest's.
Spelling(u) == IF u = "guest" THEN <<User("guest")>> ELSE <<User("up"), User("stream")>>
Startup(u)  == LET body == <<Protocol>> \o Spelling(u) \o <<End>> IN <<LenWord(Len(body) + 1)>> \o body

\* What a guest sends; data has at least one byte.
Messages ==
       [kind : {"request"}, code : {"ssl", "gss", "odd"}]
  \cup [kind : {"hello"}, name : {"host", "other", "none"}]
  \cup [kind : {"startup", "junk", "badlen"}]
  \cup [kind : {"data"}, bytes : Seq({"byte"} \X Nat) \ {<<>>}]

ASSUME ScriptsAssumption == Scripts \subseteq Seq(Messages) /\ MaxGreeting \in Nat

Wire(m) ==
  CASE m.kind = "request" -> <<LenWord(2), Code(m.code)>>   \* ssl, gss, or neither
    [] m.kind = "hello"   -> <<TlsRecord, Hello(m.name)>>
    [] m.kind = "startup" -> Startup("guest")
    [] m.kind = "junk"    -> <<LenWord(3), Code("odd"), Byte(0)>>
    [] m.kind = "badlen"  -> <<LenWord(0), Code("odd")>>
    [] m.kind = "data"    -> m.bytes

Stream == FlattenSeq([i \in DOMAIN script |-> Wire(script[i])])

\* The atoms the guest sends in the clear: up to its ClientHello.
ClearLen == LET hellos == {i \in DOMAIN Stream : Stream[i][1] = "hello"} IN
            IF hellos = {} THEN Len(Stream) ELSE Min(hellos)

IsRequest(s, c) == Len(s) >= NegotiationLen /\ s[1] = LenWord(2) /\ s[2] = Code(c)

-----------------------------------------------------------------------------

SslModes == {"disable", "allow", "prefer", "require", "verify-ca", "verify-full"}
Verifies == {"verify-ca", "verify-full"}

\* PostgresScope::from_strings refuses a verifying mode without an anchor.
Scopes == {s \in [ssl : SslModes, direct : BOOLEAN, anchored : BOOLEAN, rewrite : BOOLEAN] :
             s.ssl \in Verifies => s.anchored}

Init ==
  /\ scope \in Scopes
  /\ host \in BOOLEAN
  /\ cert \in {"good", "other name", "untrusted"}
  /\ script \in Scripts /\ pos = 0
  /\ phase = "opening"
  /\ buf = <<>> /\ guestTls = FALSE /\ accepted = FALSE /\ answers = <<>>
  /\ wire = [state |-> "Greeting", buf |-> <<>>, held |-> <<>>, closed |-> FALSE]
  /\ toServer = <<>> /\ fed = <<>> /\ dropped = FALSE /\ forgot = FALSE

Goto(p) == phase' = p

\* serve returns, with or without an error: both sockets are closed.
Close == Goto("closed")

\* The guest's next bytes, at most up to limit, join buf.
ReadMore(limit) ==
  /\ \E n \in 1..(limit - pos) :
       /\ buf' = buf \o SubSeq(Stream, pos + 1, pos + n)
       /\ pos' = pos + n
  /\ UNCHANGED <<rule, phase, guestTls, accepted, answers, machine>>

Answer(a) == answers' = Append(answers, a)

-----------------------------------------------------------------------------
(* read_guest_opening                                                      *)

OpensTls(b)  == b # <<>> /\ b[1] = TlsRecord
Undecided(b) == ~OpensTls(b) /\ Len(b) < NegotiationLen

OpeningRead == phase = "opening" /\ Undecided(buf) /\ ReadMore(ClearLen)

\* Mutant: the reads have no deadline.
OpeningOver_NoBudget == FALSE

\* The guest closed, failed, or used up the pre-auth budget.
OpeningOver ==
  /\ phase = "opening" /\ Undecided(buf)
  /\ Close
  /\ UNCHANGED <<rule, pos, opening, machine>>

\* A ClientHello with no request at all.
OpeningDirect ==
  /\ phase = "opening" /\ OpensTls(buf)
  /\ Goto("hello")
  /\ UNCHANGED <<rule, pos, opening, machine>>

\* Mutant: the request stays in the buffer and is read as the hello.
OpeningSsl_Kept ==
  /\ phase = "opening" /\ IsRequest(buf, "ssl")
  /\ \/ Answer("S") /\ Goto("hello")
     \/ Close /\ UNCHANGED answers
  /\ UNCHANGED <<rule, pos, buf, guestTls, accepted, machine>>

\* An SSLRequest is answered S (or the write fails).
OpeningSsl ==
  /\ phase = "opening" /\ IsRequest(buf, "ssl")
  /\ \/ Answer("S") /\ buf' = Rest(buf, NegotiationLen) /\ Goto("hello")
     \/ Close /\ UNCHANGED <<answers, buf>>
  /\ UNCHANGED <<rule, pos, guestTls, accepted, machine>>

\* A GSSENC request is answered N; libpq asks for SSL next.
OpeningGss ==
  /\ phase = "opening" /\ IsRequest(buf, "gss")
  /\ \/ Answer("N") /\ buf' = Rest(buf, NegotiationLen) /\ UNCHANGED phase
     \/ Close /\ UNCHANGED <<answers, buf>>
  /\ UNCHANGED <<rule, pos, guestTls, accepted, machine>>

\* Any other eight bytes are a message, for the wire machine to judge.
OpeningCleartext ==
  /\ phase = "opening" /\ ~OpensTls(buf) /\ Len(buf) >= NegotiationLen
  /\ ~IsRequest(buf, "ssl") /\ ~IsRequest(buf, "gss")
  /\ Goto("dial")
  /\ UNCHANGED <<rule, pos, opening, machine>>

-----------------------------------------------------------------------------
(* guest_tls_opening                                                       *)

HelloComplete == Len(buf) >= 2 /\ buf[1] = TlsRecord /\ buf[2][1] = "hello"
HelloName     == IF HelloComplete THEN buf[2][2] ELSE "none"

HelloRead ==
  /\ phase = "hello" /\ ~HelloComplete
  /\ buf = <<>> \/ OpensTls(buf)
  /\ ReadMore(ClearLen)

\* What is no TLS record, or nothing at all, closes.
HelloOver ==
  /\ phase = "hello" /\ ~OpensTls(buf)
  /\ Close
  /\ UNCHANGED <<rule, pos, opening, machine>>

\* A complete hello, or a record that never became one (end, budget): the
\* authority and the SNI must agree, there must be a name to mint for, and the
\* burst guard must allow it.
HelloTaken ==
  /\ phase = "hello" /\ OpensTls(buf)
  /\ \/ /\ host => HelloName # "other"
        /\ host \/ HelloName # "none"
        /\ guestTls' = TRUE
        /\ Goto("dial")
     \/ Close /\ UNCHANGED guestTls
  /\ UNCHANGED <<rule, pos, buf, accepted, answers, machine>>

-----------------------------------------------------------------------------
(* The upstream leg, and both handshakes                                   *)

Dial ==
  /\ phase = "dial"
  /\ Goto("ask") \/ Close
  /\ UNCHANGED <<rule, pos, opening, machine>>

AsksTls == scope.ssl \in {"prefer", "require"} \cup Verifies \/ (scope.ssl = "allow" /\ guestTls)

\* Mutant: a refusal is only fatal to the verifying modes.
Needed_OnlyVerifying == scope.ssl \in Verifies
Needed == scope.ssl \in {"require"} \cup Verifies

\* request_upstream_tls, and what its answer means to the mode.
Ask ==
  /\ phase = "ask"
  /\ \/ \E yes \in IF ~AsksTls THEN {FALSE} ELSE IF scope.direct THEN {TRUE} ELSE BOOLEAN :
          /\ accepted' = yes
          /\ IF Needed /\ ~yes THEN Close ELSE Goto("legs")
     \* no answer within the budget, or the socket failed
     \/ AsksTls /\ ~scope.direct /\ Close /\ UNCHANGED accepted
  /\ UNCHANGED <<rule, pos, buf, guestTls, answers, machine>>

\* EgressCertVerifier: the chain if there is an anchor, the name for verify-full.
Trusted ==
  scope.anchored => /\ cert # "untrusted"
                    /\ scope.ssl = "verify-full" => cert = "good"

\* accept_guest, which replays the hello, and connect_server.  Either may fail.
Legs ==
  /\ phase = "legs"
  /\ \/ /\ accepted => Trusted
        /\ buf' = IF guestTls THEN <<>> ELSE buf
        /\ pos' = IF guestTls THEN ClearLen ELSE pos
        /\ Goto("relay")
     \/ Close /\ UNCHANGED <<buf, pos>>
  /\ UNCHANGED <<rule, guestTls, accepted, answers, machine>>

-----------------------------------------------------------------------------
(* The request direction's wire machine                                    *)

EqualPairs == RawPairs(Pairs)

\* refuse_negotiation, in the loop of feed_greeting: how many requests lead.
Requests(b) ==
  Max({k \in 0..(Len(b) \div NegotiationLen) :
         \A i \in 0..(k - 1) : LET at == Rest(b, i * NegotiationLen) IN
                               IsRequest(at, "ssl") \/ IsRequest(at, "gss")})

\* greeting_len: a length word out of range latches closed, too few bytes hold.
Declared(b)   == CASE b = <<>> -> NegotiationLen
                   [] b # <<>> /\ b[1][1] = "len" -> b[1][2]
                   [] b # <<>> /\ b[1][1] # "len" -> 0
Malformed(b)  == Declared(b) \notin NegotiationLen..MaxGreeting
Incomplete(b) == ~Malformed(b) /\ Len(b) < Declared(b)

\* Startup::decode_body (pgwire); an unknown 8-byte request is no startup.
ReadStartup(msg) == Len(msg) > NegotiationLen /\ msg[2] = Protocol

\* Mutant: the user is replaced and the length word kept.
RewriteStartupUser_NoReframe(msg) ==
  FlattenSeq([i \in DOMAIN msg |-> IF msg[i] = User("guest") THEN Spelling("upstream") ELSE <<msg[i]>>])

\* rewrite_startup_user: splice the value, then restate the length.
RewriteStartupUser(msg) ==
  LET spliced == FlattenSeq([i \in DOMAIN msg |->
                   IF msg[i] = User("guest") THEN Spelling("upstream") ELSE <<msg[i]>>])
  IN  <<LenWord(Len(spliced))>> \o Tail(spliced)

\* inner_feed
InnerFeed(chunk) ==
  LET r == RawFeed(EqualPairs, wire.held, chunk) IN
  /\ toServer' = toServer \o r.out
  /\ wire' = [wire EXCEPT !.state = "Relay", !.buf = <<>>, !.held = r.held]
  /\ forgot' = (forgot \/ Forgets(EqualPairs, wire.held, chunk))

Latch(b) == wire' = [wire EXCEPT !.buf = b, !.closed = TRUE] /\ UNCHANGED <<toServer, forgot, dropped>>

Replies(k) == answers' = answers \o [i \in 1..k |-> "N"]

\* feed_greeting.  The state is Relay when take_rest looks for what followed
\* the startup message, and finds no buffer.
FeedGreeting(chunk) ==
  LET full == wire.buf \o chunk
      k    == Requests(full)
      b    == Rest(full, k * NegotiationLen)
      msg  == Prefix(b, Declared(b))
  IN  IF Len(full) > MaxGreeting THEN Latch(full) /\ Replies(0)
      ELSE /\ Replies(k)
           /\ \/ /\ Incomplete(b)
                 /\ wire' = [wire EXCEPT !.buf = b]
                 /\ UNCHANGED <<toServer, forgot, dropped>>
              \/ /\ ~Incomplete(b)
                 /\ Malformed(b) \/ ~ReadStartup(msg)
                 /\ Latch(IF Malformed(b) \/ Len(msg) = NegotiationLen THEN b ELSE Rest(b, Len(msg)))
              \/ /\ ~Incomplete(b) /\ ~Malformed(b) /\ ReadStartup(msg)
                 /\ InnerFeed(IF scope.rewrite THEN RewriteStartupUser(msg) ELSE msg)
                 /\ dropped' = (Len(b) > Len(msg))

Feed(chunk) ==
  /\ fed' = fed \o chunk
  /\ IF wire.state = "Relay" THEN InnerFeed(chunk) /\ UNCHANGED <<dropped, answers>>
     ELSE FeedGreeting(chunk)

\* Mutant: the head is replayed again and again.
RelayFeed_Replays ==
  /\ phase = "relay" /\ ~wire.closed
  /\ buf # <<>> /\ Feed(buf)
  /\ UNCHANGED <<rule, pos, phase, buf, guestTls, accepted>>

\* The relay reads: first the replayed head, whole, then the guest.
RelayFeed ==
  /\ phase = "relay" /\ ~wire.closed
  /\ \/ buf # <<>> /\ Feed(buf) /\ buf' = <<>> /\ UNCHANGED pos
     \/ /\ buf = <<>>
        /\ \E n \in 1..(Len(Stream) - pos) :
             Feed(SubSeq(Stream, pos + 1, pos + n)) /\ pos' = pos + n
        /\ UNCHANGED buf
  /\ UNCHANGED <<rule, phase, guestTls, accepted>>

\* The relay ends: on Close, or at the guest's end, which flushes the raw wire.
RelayEnd ==
  /\ phase = "relay" /\ buf = <<>>
  /\ Close
  /\ IF wire.closed THEN UNCHANGED machine
     ELSE /\ LET r == RawFeed(EqualPairs, wire.held, <<>>) IN
             /\ toServer' = toServer \o r.out /\ wire' = [wire EXCEPT !.held = r.held]
          /\ UNCHANGED <<fed, dropped, forgot>>
  /\ UNCHANGED <<rule, pos, opening>>

Closed == phase = "closed" /\ UNCHANGED vars

-----------------------------------------------------------------------------

Serve == \/ OpeningDirect \/ OpeningSsl \/ OpeningGss \/ OpeningCleartext \/ OpeningOver
         \/ HelloOver \/ HelloTaken \/ Dial \/ Ask

Next == Serve \/ OpeningRead \/ HelloRead \/ Legs \/ RelayFeed \/ RelayEnd \/ Closed

Spec == Init /\ [][Next]_vars

\* Each await of the opening and of the upstream negotiation has a budget; the
\* two handshakes and the relay's reads have none.
FairSpec == Spec /\ WF_vars(Serve)

-----------------------------------------------------------------------------
(* Properties.                                                             *)

TypeOK ==
  /\ scope \in Scopes /\ script \in Scripts /\ pos \in 0..Len(Stream)
  /\ phase \in {"opening", "hello", "dial", "ask", "legs", "relay", "closed"}
  /\ Len(buf) + Len(fed) <= pos
  /\ wire.state \in {"Greeting", "Relay"} /\ Len(wire.buf) <= MaxGreeting + Len(Stream)
  /\ wire.state = "Relay" => wire.buf = <<>>
  /\ Len(wire.held) <= MaxTailSize(EqualPairs)

\* The server reads one well-framed startup message, under the rule's user, and
\* behind it what the guest sent, swapped, however the opening was negotiated
\* and cut; and nothing if what the guest opened with is no startup message.
\* (Left out: bytes in the same arrival as the startup message, and held bytes
\* the raw wire drops.)
ServerReads ==
  LET b    == Rest(fed, Requests(fed) * NegotiationLen)
      mine == Startup("guest")
      own  == Startup(IF scope.rewrite THEN "upstream" ELSE "guest")
  IN  /\ TypeOK
      /\ toServer # <<>> => IsPrefix(own, toServer)
      /\ phase = "relay" /\ ~wire.closed /\ ~dropped /\ ~forgot =>
           toServer \o wire.held = IF IsPrefix(mine, b)
                                   THEN own \o ReplaceIn(Rest(b, Len(mine)), EqualPairs) ELSE <<>>

\* "Remove pipelined bytes past the greeting for in-order relay": bytes that
\* arrive together with the startup message reach the server as well.
PipelinedRelayed ==
  (phase = "relay" /\ wire.state = "Relay" /\ ~forgot)
    => Len(toServer) + Len(wire.held) >= Len(fed) - Requests(fed) * NegotiationLen

\* Every negotiation request that was consumed is answered once and in order:
\* S to an SSLRequest in the clear, and then the guest leg is TLS; N to GSSENC
\* and to any request inside TLS.
RequestsAnswered ==
  LET ends(i)  == Len(FlattenSeq([j \in 1..i |-> Wire(script[j])]))
      taken    == pos - Len(buf) - Len(wire.buf)
      asked    == {i \in DOMAIN script : /\ script[i].kind = "request" /\ script[i].code # "odd"
                                         /\ ends(i) <= taken
                                         /\ \A j \in 1..i : script[j].kind \in {"request", "hello"}}
      answer(i) == IF script[i].code = "ssl" /\ ends(i) <= ClearLen THEN "S" ELSE "N"
  IN  phase \notin {"closed"} /\ ~wire.closed =>
        /\ Len(answers) = Cardinality(asked)
        /\ \A i \in asked : answers[Cardinality({j \in asked : j <= i})] = answer(i)
        /\ phase = "relay" /\ (\E n \in DOMAIN answers : answers[n] = "S") => guestTls

\* The relay runs over a server leg the mode permits: never in the clear where
\* TLS is required, never over a certificate the mode or a named anchor rejects,
\* never with TLS the rule or the guest did not ask for.
NoDowngrade ==
  phase = "relay" =>
    /\ scope.ssl \in {"require", "verify-ca", "verify-full"} => accepted
    /\ accepted /\ (scope.anchored \/ scope.ssl = "verify-ca") => cert # "untrusted"
    /\ scope.ssl = "verify-full" => cert = "good"
    /\ scope.ssl = "disable" => ~accepted
    /\ scope.ssl = "allow" /\ accepted => guestTls

\* A guest that drips or stalls in its opening, and a server that never answers
\* the TLS request, do not hold the connection.
OpeningSettles == phase \in {"opening", "hello", "dial", "ask"} ~> phase \in {"legs", "closed"}
=============================================================================
