------------------------------ MODULE Dispatch ------------------------------
(***************************************************************************)
(* One connection at a time through the proxy, from the bytes a guest      *)
(* opens with to the pair of machines (or the plain copy) that serves it:  *)
(* lib.rs (explicit listener and captured streams), identity.rs (which arm *)
(* serves a destination, and the name a stream shows), connection.rs (the  *)
(* opening of a guest's TLS, its replay, the client-certificate policy)    *)
(* and the serve arm of each transport.  What outlives a connection is     *)
(* here too: the cached leaf configurations of the database transports.    *)
(*                                                                         *)
(* A byte stream is a sequence of segments.  A read returns any number of  *)
(* the segments that are left, so openings arrive split and coalesced.     *)
(***************************************************************************)
EXTENDS Integers, Sequences, FiniteSets, SequencesExt

CONSTANTS
  Grants,      \* ResolvedConfig.grants, in order
  Opens,       \* what guests do: [via, name, port, script, cert]
  MaxHead,     \* MAX_HEAD, in segments
  MaxHello,    \* MAX_HELLO, in segments
  Validity,    \* LEAF_VALIDITY_HOURS, in ticks
  MaxConns,    \* bound: connections in a behaviour
  MaxTime      \* bound: ticks of the clock

VARIABLES
  open,        \* the connection being served: an element of Opens
  pc,          \* where its task is
  buf, rest,   \* read and not handed on; not read yet
  stream,      \* CandidateParams: [host, raw, dial, port], and the arm's scope
  up,          \* the upstream socket: where it was dialled, or Nowhere
  fed,         \* segments handed to the far side's machine or copied
  pair,        \* the machines: [scheme, host, port]; of a copy, the name shown
  tls,         \* the guest's leg: [leaf, sni, demand, expires]
  leaves,      \* RedisTransport.leaves: key -> [expires, demand]
  conns, now

vars == <<open, pc, buf, rest, stream, up, fed, pair, tls, leaves, conns, now>>

NoName == ""
Nowhere == [name |-> NoName, port |-> 0]
NoPair == [scheme |-> "none", host |-> NoName, port |-> 0]
NoTls == [leaf |-> NoName, sni |-> NoName, demand |-> FALSE, expires |-> 0]
NoGrant == [kind |-> "none"]
NoScope == [scheme |-> "none"]

---------------------------------------------------------------------------
(* Segments. *)

Part(f) == [f |-> f, end |-> FALSE]
Hello(sni) == [f |-> "tls", end |-> TRUE, sni |-> sni]
Request(method, target, host) == [f |-> "http", end |-> TRUE, method |-> method, target |-> target, host |-> host]
Banner == [f |-> "ssh", end |-> TRUE]
Data(n) == [f |-> "data", end |-> TRUE, n |-> n]

First(s, f) == SelectInSeq(s, LAMBDA x : x.f = f /\ x.end)
Opened(s, f) == s # <<>> /\ s[1].f = f
Completed(s, f) == Opened(s, f) /\ First(s, f) # 0

(* A guest of the explicit listener asks for the peer its first head names. *)
ASSUME OpensAssumption ==
  \A o \in Opens :
    /\ o.via \in {"explicit", "captured"} /\ o.script \in Seq(Range(o.script))
    /\ o.via = "explicit" /\ First(o.script, "http") # 0
         => o.script[First(o.script, "http")].target.name = o.name

(* An ssh rule holds ssh entries only; a token rule may hold one behind its *)
(* first entry (GrantCollector::collect); a database rule is its far end.   *)
ASSUME GrantsAssumption ==
  /\ Grants \in Seq(Range(Grants))
  /\ \A g \in Range(Grants) :
       \/ /\ g.kind \in {"token", "ssh"} /\ g.allow \in Seq(Range(g.allow))
          /\ \A e \in Range(g.allow) : e.scheme \in IF g.kind = "ssh" THEN {"ssh"} ELSE {"https", "http", "tcp", "ssh"}
          /\ \A e \in Range(g.allow) : e.mtls \in BOOLEAN
       \/ /\ g.kind \in {"postgres", "redis"} /\ g.mtls \in BOOLEAN
          /\ g.down = [name |-> g.down.name, port |-> g.down.port]

(* parse_authority goes through an http URL, whose port() is empty for 80: *)
(* an explicit :80 counts as no port at all.                               *)
parse_authority(a, default) ==
  LET port == IF a.port \in {0, 80} THEN default ELSE a.port
  IN  IF a.name \in {"bad", NoName} \/ port = 0 THEN Nowhere ELSE [name |-> a.name, port |-> port]

(* A CONNECT that forgets what was pipelined behind it. *)
head_tail_dropped(s) == <<>>
head_tail(s) == SubSeq(s, First(s, "http") + 1, Len(s))

---------------------------------------------------------------------------
(* Grants: which scope covers a destination.  A host nobody has read yet   *)
(* (NoName) is covered by any host of the port.                            *)

HostMatches(pat, host) == host = NoName \/ pat \in {"*", host}

(* Only the entry a rule states first is looked at. *)
EndpointIndexOfFirst(g, scheme, host, port) ==
  SelectInSeq(SubSeq(g.allow, 1, 1), LAMBDA e : e.scheme = scheme /\ e.port = port /\ HostMatches(e.host, host))
EndpointIndex(g, scheme, host, port) ==
  SelectInSeq(g.allow, LAMBDA e : e.scheme = scheme /\ e.port = port /\ HostMatches(e.host, host))
endpoint(g, scheme, host, port) == IF g.kind = "token" THEN EndpointIndex(g, scheme, host, port) ELSE 0
ssh(g, host, port) == IF g.kind = "ssh" THEN EndpointIndex(g, "ssh", host, port) ELSE 0

(* The host is not compared, as for a captured stream. *)
database_by_port(g, kind, host, port) == g.kind = kind /\ g.down.port = port
database(g, kind, host, port) == g.kind = kind /\ g.down.port = port /\ host \in {NoName, g.down.name}

FindGrant(Test(_)) == LET i == SelectInSeq(Grants, Test) IN IF i = 0 THEN NoGrant ELSE Grants[i]

ScopeOf(scheme, host, port) ==
  LET g == FindGrant(LAMBDA x : endpoint(x, scheme, host, port) # 0)
  IN  IF g = NoGrant THEN NoScope ELSE g.allow[endpoint(g, scheme, host, port)]

(* The arms, in the order that breaks a tie. *)
Arms == <<"postgres", "redis", "ssh", "tls", "plain", "raw">>
SchemeOf == [tls |-> "https", plain |-> "http", raw |-> "tcp"]
Covered(g, arm, host, port) ==
  CASE arm \in {"postgres", "redis"} -> database(g, arm, host, port)
    [] arm = "ssh" -> ssh(g, host, port) # 0
    [] OTHER -> endpoint(g, SchemeOf[arm], host, port) # 0
expect(host, port) ==
  LET i == SelectInSeq(Arms, LAMBDA arm : \E j \in DOMAIN Grants : Covered(Grants[j], arm, host, port))
  IN  IF i = 0 THEN "splice" ELSE Arms[i]
(* The arms of an endpoint carry no scope: theirs is found by the name. *)
ScopeFor(arm, host, port) ==
  IF arm \in {"postgres", "redis", "ssh"} THEN FindGrant(LAMBDA g : Covered(g, arm, host, port)) ELSE NoGrant

(* ProxyState::new: the bundles that get a relay of their own. *)
entry_anchors == UNION {{g.allow[i].root : i \in DOMAIN g.allow} : g \in {Grants[i] : i \in {j \in DOMAIN Grants : Grants[j].kind = "token"}}}
extra_relays == entry_anchors \ {NoName}

---------------------------------------------------------------------------
(* What a task does to its variables. *)

Idle == /\ open = Nowhere /\ pc = "idle" /\ buf = <<>> /\ rest = <<>>
        /\ stream = Nowhere /\ up = Nowhere /\ fed = <<>> /\ pair = NoPair /\ tls = NoTls
Init == Idle /\ leaves = <<>> /\ conns = 0 /\ now = 0

Goto(p) == pc' = p
Close == /\ Goto("closed")
         /\ UNCHANGED <<open, buf, rest, stream, up, fed, pair, tls, leaves, conns, now>>
(* A read: any of the segments left.  Its end and its failure are Hangup. *)
Take(n) == /\ n \in 1..Len(rest)
           /\ buf' = buf \o SubSeq(rest, 1, n)
           /\ rest' = SubSeq(rest, n + 1, Len(rest))
           /\ UNCHANGED <<open, stream, up, fed, pair, tls, leaves, conns, now>>
(* dial_marked: ten seconds for the name and every address it has. *)
Dials(to, next) ==
  \/ /\ up' = to /\ Goto(next)
     /\ UNCHANGED <<open, buf, rest, stream, fed, pair, tls, leaves, conns, now>>
  \/ Close
(* Both machines built for one endpoint; what was read is replayed first. *)
Serve(scheme, host, port) ==
  /\ pair' = [scheme |-> scheme, host |-> host, port |-> port]
  /\ fed' = buf /\ buf' = <<>>
  /\ Goto("pump")
Copy(shown) == /\ fed' = buf /\ buf' = <<>> /\ Goto("copy")
               /\ pair' = [NoPair EXCEPT !.host = shown]

Candidate(host, raw, dial, port) ==
  \E arm \in {expect(host, port)} :
    stream' = [host |-> host, raw |-> raw, dial |-> dial, port |-> port, arm |-> arm, scope |-> ScopeFor(arm, host, port)]
Dest == [name |-> stream.dial, port |-> stream.port]

---------------------------------------------------------------------------
(* The explicit listener. *)

(* A captured stream arrives with its destination and nothing read. *)
Accept(o) ==
  /\ pc = "idle" /\ conns < MaxConns
  /\ conns' = conns + 1
  /\ open' = o /\ rest' = o.script
  /\ IF o.via = "explicit"
       THEN UNCHANGED stream /\ Goto("head")
       ELSE Candidate(NoName, o.name, o.name, o.port) /\ Goto("arm")
  /\ UNCHANGED <<buf, up, fed, pair, tls, leaves, now>>

ReadHead == /\ pc = "head"
            /\ First(buf, "http") = 0 /\ Len(buf) <= MaxHead
            /\ \E n \in 1..Len(rest) : Take(n)
            /\ UNCHANGED pc

(* Over the cap without a whole head, or not an HTTP head: closed without  *)
(* an answer.                                                              *)
RefuseHead == /\ pc = "head"
              /\ First(buf, "http") # 0 \/ Len(buf) > MaxHead
              /\ ~Completed(buf, "http")
              /\ Close

Connect ==
  /\ pc = "head" /\ Completed(buf, "http")
  /\ \E head \in {buf[First(buf, "http")]} : \E to \in {parse_authority(head.target, 0)} :
         /\ head.method = "CONNECT"
         /\ IF to = Nowhere THEN Close
            ELSE /\ buf' = head_tail(buf)
                 /\ Candidate(to.name, to.name, to.name, to.port)
                 /\ Goto("arm")          \* 200 OK is written here, or after the dial of a splice
                 /\ UNCHANGED <<open, rest, up, fed, pair, tls, leaves, conns, now>>

forward_arm ==
  /\ pc = "head" /\ Completed(buf, "http")
  /\ \E head \in {buf[First(buf, "http")]} : \E to \in {parse_authority(head.target, 80)} :
         /\ head.method # "CONNECT"
         /\ IF head.target.name = NoName \/ to = Nowhere THEN Close
            ELSE \/ /\ up' = to
                    /\ stream' = [host |-> to.name, raw |-> to.name, dial |-> to.name, port |-> to.port, arm |-> "forward", scope |-> NoGrant]
                    /\ IF ScopeOf("http", to.name, to.port) # NoScope
                         THEN Serve("http", to.name, to.port)
                         ELSE Copy(to.name)
                    /\ UNCHANGED <<open, rest, tls, leaves, conns, now>>
                 \/ Close

---------------------------------------------------------------------------
(* Reading the name a stream shows. *)

HelloBusy == ~Completed(buf, "tls") /\ Len(buf) <= MaxHello
(* The first byte is looked at after a read, and what was handed in with   *)
(* the connection is looked at with the first read that follows it.        *)
ReadHello == /\ pc = "hello" /\ HelloBusy
             /\ \E n \in 1..Len(rest) :
                  /\ Take(n)
                  /\ Goto(IF Opened(buf \o SubSeq(rest, 1, n), "tls") THEN "hello" ELSE "closed")

Sni == IF Completed(buf, "tls") THEN buf[First(buf, "tls")].sni ELSE NoName
(* The hello is over, named or not: completed, past the cap, or the budget *)
(* or the stream ended after the bytes of a TLS record.                    *)
HelloOver == ~HelloBusy
(* The name the guest put in its hello is not held against the authority. *)
NameUnchecked(host, sni) == TRUE
NameAllowed(host, sni) == NoName \in {host, sni} \/ sni = host

(* The policy the relay enforces: a guest certificate in mtls mode; the    *)
(* entry's own identity goes to a server that asks for one.                *)
client_auth_policy(scope) == scope.mtls

(* HttpsTransport::serve once the hello is read. *)
https_serve ==
  LET host == stream.host
      identity == IF host # NoName THEN host ELSE Sni
      scope == ScopeOf("https", identity, stream.port)
  IN  IF ~NameAllowed(host, Sni) THEN Close
      ELSE IF identity = NoName \/ scope = NoScope
        THEN /\ Goto("splice")
             /\ UNCHANGED <<open, buf, rest, stream, up, fed, pair, tls, leaves, conns, now>>
      ELSE \/ Close                                   \* the burst guard, or a client identity that does not load
           \/ /\ scope.root \in extra_relays \cup {NoName}
              /\ stream' = [stream EXCEPT !.scope = scope]
              /\ tls' = [leaf |-> identity, sni |-> Sni, demand |-> client_auth_policy(scope), expires |-> now + Validity]
              /\ Goto("dial")
              /\ UNCHANGED <<open, buf, rest, up, fed, pair, leaves, conns, now>>

(* guest_tls_opening: the leaf carries the guest's own SNI, the authority  *)
(* picks the grants when there is one.                                     *)
guest_tls_opening ==
  LET host == stream.host
      server_name == IF host # NoName THEN host ELSE Sni
      identity == IF Sni # NoName THEN Sni ELSE server_name
  IN  IF ~NameAllowed(host, Sni) \/ identity = NoName THEN Close
      ELSE \/ Close                                   \* the burst guard
           \/ /\ stream' = [stream EXCEPT !.host = server_name]
              /\ tls' = [NoTls EXCEPT !.leaf = identity, !.sni = Sni]
              /\ Goto("dial")
              /\ UNCHANGED <<open, buf, rest, up, fed, pair, leaves, conns, now>>

HelloDone(over) ==
  /\ pc = "hello" /\ over
  /\ IF ~Opened(buf, "tls") THEN Close
     ELSE IF stream.arm = "tls" THEN https_serve ELSE guest_tls_opening

HeadNamed == /\ Completed(buf, "http")
             /\ parse_authority(buf[First(buf, "http")].host, stream.port) # Nowhere
HeadBusy == ~HeadNamed /\ Len(buf) <= MaxHead
ReadHttpHead == pc = "http" /\ HeadBusy /\ (\E n \in 1..Len(rest) : Take(n)) /\ UNCHANGED pc
RefuseHttpHead == pc = "http" /\ ~HeadNamed /\ ~HeadBusy /\ Close

(* A host no http scope names falls to the raw scopes of the destination. *)
http_serve ==
  /\ pc = "http" /\ HeadNamed
  /\ LET to == parse_authority(buf[First(buf, "http")].host, stream.port)
         named == ScopeOf("http", to.name, to.port) # NoScope
     IN  \/ /\ up' = Dest
            /\ Serve(IF named THEN "http" ELSE "tcp", IF named THEN to.name ELSE stream.raw, IF named THEN to.port ELSE stream.port)
            /\ UNCHANGED <<open, rest, stream, tls, leaves, conns, now>>
         \/ Close

(* Eight bytes settle whether a stream is SSH. *)
BannerBusy == buf = <<>> \/ (Opened(buf, "ssh") /\ \A i \in DOMAIN buf : ~buf[i].end)
ReadBanner == pc = "banner" /\ BannerBusy /\ (\E n \in 1..Len(rest) : Take(n)) /\ UNCHANGED pc
ssh_serve == /\ pc = "banner" /\ ~BannerBusy
             /\ IF ~Completed(buf, "ssh")
                  THEN Goto("splice") /\ UNCHANGED <<open, buf, rest, stream, up, fed, pair, tls, leaves, conns, now>>
                  ELSE /\ Serve("ssh", IF stream.host # NoName THEN stream.host ELSE stream.dial, stream.port)
                       /\ UNCHANGED <<open, rest, stream, up, tls, leaves, conns, now>>

(* The opening of a Postgres guest, whose steps are Postgres.tla's: it     *)
(* either asks for TLS or speaks first in cleartext.                       *)
ReadPgOpening == pc = "opening" /\ buf = <<>> /\ (\E n \in 1..Len(rest) : Take(n)) /\ UNCHANGED pc
PgOpening == /\ pc = "opening" /\ buf # <<>>
             /\ Goto(IF Opened(buf, "tls") THEN "hello" ELSE "dial")
             /\ UNCHANGED <<open, buf, rest, stream, up, fed, pair, tls, leaves, conns, now>>

---------------------------------------------------------------------------
(* Expect::serve and the arms. *)

ExpectServe ==
  /\ pc = "arm"
  /\ \/ stream.arm = "splice" /\ Goto("splice")
     \/ stream.arm = "raw" /\ Goto("dial")
     \/ stream.arm = "plain" /\ Goto("http")
     \/ stream.arm = "tls" /\ Goto("hello")
     \/ stream.arm = "postgres" /\ Goto("opening")
     \/ stream.arm = "ssh" /\ Goto("banner")
     \* A cleartext scope does not serve a hello that came with the connection.
     \/ stream.arm = "redis" /\ Goto(IF stream.scope.downTls THEN "hello" ELSE IF Opened(buf, "tls") THEN "closed" ELSE "dial")
  /\ UNCHANGED <<open, buf, rest, stream, up, fed, pair, tls, leaves, conns, now>>

splice == pc = "splice" /\ Dials(Dest, "copying")
SpliceReplay == pc = "copying" /\ Copy(Sni) /\ UNCHANGED <<open, rest, stream, up, tls, leaves, conns, now>>

(* The connection string of the real secret states the far end. *)
FarEnd == stream.scope.up
IsDatabase == stream.arm \in {"redis", "postgres"}
Dial == pc = "dial" /\ Dials(IF IsDatabase THEN FarEnd ELSE Dest, "legs")

(* One cache slot for both shapes of a name's leaf. *)
LeafKeyShared(name, mtls) == <<name>>
LeafKey(name, mtls) == IF mtls THEN <<name, "mtls">> ELSE <<name>>
(* leaf, leaf_mtls: minted on first use and kept. *)
leaf(name, mtls) ==
  IF LeafKey(name, mtls) \in DOMAIN leaves THEN leaves[LeafKey(name, mtls)]
  ELSE [expires |-> now + Validity, demand |-> mtls]

(* accept_guest: the guest's handshake, before the server's. *)
AcceptGuest ==
  /\ pc = "legs" /\ IsDatabase /\ tls.leaf # NoName /\ tls.expires = 0
  /\ LET shown == leaf(tls.leaf, stream.scope.mtls)
         key == LeafKey(tls.leaf, stream.scope.mtls)
     IN  /\ leaves' = [k \in DOMAIN leaves \cup {key} |-> IF k = key THEN shown ELSE leaves[k]]
         /\ tls' = [tls EXCEPT !.demand = shown.demand, !.expires = shown.expires]
         /\ Goto(IF shown.demand /\ open.cert # "ours" THEN "closed" ELSE "legs")
  /\ UNCHANGED <<open, buf, rest, stream, up, fed, pair, conns, now>>

LegsKept == UNCHANGED <<open, rest, stream, up, tls, leaves, conns, now>>
Refused == Goto("closed") /\ UNCHANGED <<fed, buf, pair>>

(* Opaque bytes: nothing is read before the machines. *)
tcp_serve == /\ pc = "legs" /\ stream.arm = "raw"
             /\ Serve("tcp", stream.raw, stream.port)
             /\ LegsKept

(* The MITM relay handshakes the server under the identity, then the guest *)
(* under the policy, and the protocol both agreed on picks the framing.    *)
MitmRelay == /\ pc = "legs" /\ stream.arm = "tls"
             /\ IF tls.demand /\ open.cert # "ours" THEN Refused
                ELSE Serve("https", tls.leaf, stream.port) \/ Refused
             /\ LegsKept

(* connect_server: anchors that do not load, or a server that is not the   *)
(* one the real string names.                                              *)
ConnectServer == pc = "legs" /\ IsDatabase /\ stream.scope.upTls /\ Refused /\ LegsKept

(* Both legs are settled; the wire machine works on plaintext whichever    *)
(* way either arrived.                                                     *)
DatabaseRelay == /\ pc = "legs" /\ IsDatabase
                 /\ tls.leaf = NoName \/ tls.expires # 0
                 /\ Serve(stream.arm, IF stream.host # NoName THEN stream.host ELSE stream.raw, stream.port)
                 /\ LegsKept

(* The rest of the stream follows what was replayed. *)
Flow == /\ pc \in {"pump", "copy"} /\ rest # <<>>
        /\ fed' = fed \o rest /\ rest' = <<>>
        /\ UNCHANGED <<open, pc, buf, stream, up, pair, tls, leaves, conns, now>>

---------------------------------------------------------------------------
(* The budget of the readers, the guest's end of stream, the clock. *)

Waiting == \/ pc = "head" /\ First(buf, "http") = 0 /\ Len(buf) <= MaxHead
           \/ pc = "hello" /\ HelloBusy
           \/ pc = "http" /\ HeadBusy
           \/ pc = "banner" /\ BannerBusy
           \/ pc = "opening" /\ buf = <<>>
Abandon == IF pc = "hello" THEN HelloDone(TRUE) ELSE Close
(* The budget counted from the last read: a dripping guest keeps its task. *)
DeadlineRearmed == Waiting /\ rest = <<>> /\ Abandon
(* One total budget: reads do not re-arm it. *)
Deadline == Waiting /\ Abandon
(* The guest's end of stream, or a read that failed. *)
Hangup == Waiting /\ (Abandon \/ Close)
Ends == /\ pc \in {"pump", "copy", "closed"}
        /\ conns < MaxConns
        /\ open' = Nowhere /\ pc' = "idle" /\ buf' = <<>> /\ rest' = <<>>
        /\ stream' = Nowhere /\ up' = Nowhere /\ fed' = <<>> /\ pair' = NoPair /\ tls' = NoTls
        /\ UNCHANGED <<leaves, conns, now>>
Tick == /\ pc = "idle" /\ now < MaxTime /\ now' = now + 1
        /\ UNCHANGED <<open, pc, buf, rest, stream, up, fed, pair, tls, leaves, conns>>

Reads == ReadHead \/ ReadHello \/ ReadHttpHead \/ ReadBanner \/ ReadPgOpening
Decides == RefuseHead \/ Connect \/ forward_arm \/ HelloDone(HelloOver) \/ RefuseHttpHead \/ http_serve \/ ssh_serve \/ PgOpening
Settling == ExpectServe \/ splice \/ SpliceReplay \/ Dial \/ AcceptGuest \/ tcp_serve \/ MitmRelay \/ ConnectServer \/ DatabaseRelay
Next == (\E o \in Opens : Accept(o)) \/ Reads \/ Decides \/ Settling \/ Flow \/ Deadline \/ Hangup \/ Ends \/ Tick
(* The executor polls the task of a connection whenever it can go on or    *)
(* its timer has fired; it does not make the guest send.                   *)
Polled == Decides \/ Settling \/ Deadline
Spec == Init /\ [][Next]_vars /\ WF_vars(Polled)

---------------------------------------------------------------------------
(* What the guest sent to the far side: all it sent, but for the CONNECT   *)
(* head, which is the proxy's own.                                         *)
Payload ==
  LET i == First(open.script, "http")
  IN  IF open.via = "explicit" /\ stream.arm # "forward" THEN SubSeq(open.script, i + 1, Len(open.script)) ELSE open.script

(* However an opening was split between reads, and whatever was pipelined  *)
(* behind the CONNECT head: what the readers took off the stream reaches   *)
(* the machines or the copy once, in order and before the rest             *)
(* (head_tail, Prefixed, splice's replay, relay_guarded's first bytes).    *)
StreamKept == pc \in {"pump", "copy"} => fed \o rest = Payload

(* Behind a terminated TLS leg, the name the guest's leaf carries is the   *)
(* name that picked the secrets, and neither differs from the authority    *)
(* or the SNI the guest had stated within the budget (https serve,         *)
(* guest_tls_opening).                                                     *)
NamedAlike ==
  pc = "pump" /\ tls.leaf # NoName =>
    /\ pair.host = tls.leaf
    /\ tls.sni \in {NoName, pair.host}
    /\ open.via = "explicit" => pair.host = open.name

(* An ssh entry among a token rule's names no peer: no arm serves it.      *)
Names(g, schemes, name, port) ==
  IF g.kind \in {"token", "ssh"}
    THEN \E i \in DOMAIN g.allow : /\ g.allow[i].scheme \in schemes /\ (g.allow[i].scheme = "ssh" => g.kind = "ssh")
                                   /\ g.allow[i].port = port /\ g.allow[i].host \in {name, "*"}
    ELSE g.kind \in schemes /\ g.down = [name |-> name, port |-> port]
AllSchemes == {"https", "http", "tcp", "ssh", "postgres", "redis"}

(* Bytes are copied unseen only where no grant could have been served: a   *)
(* CONNECT or a forwarded request names its peer, so no grant at all names *)
(* it (a stream on an ssh rule's port that opens as something else is      *)
(* copied, also where an endpoint rule names the port as well), and a      *)
(* captured TLS stream is copied only when no https grant names the SNI it *)
(* had shown when its budget ended (expect, HttpsTransport::serve,         *)
(* SshTransport::serve).                                                   *)
Claimed(arm) == IF arm = "forward" THEN {"http"} ELSE IF arm = "ssh" THEN {"postgres", "redis"} ELSE AllSchemes
CopiedUncovered ==
  pc = "copy" =>
    \A i \in DOMAIN Grants :
      IF open.via = "explicit" THEN ~Names(Grants[i], Claimed(stream.arm), stream.dial, stream.port)
      ELSE stream.arm = "tls" /\ pair.host # NoName => ~Names(Grants[i], {"https"}, pair.host, stream.port)

(* A scope whose guests must show a certificate serves no guest without    *)
(* one, whatever other scopes of the same name were served before it       *)
(* (leaf, leaf_mtls and their one cache; client_auth_policy).              *)
MtlsAdmits ==
  pc = "pump" /\ tls.leaf # NoName /\ stream.scope.mtls => open.cert = "ours"

(* The password a database machine puts in is that of the server it dialled *)
(* (expect picks the scope by name and port, Redis::new and Postgres::new  *)
(* pick the grant again).  A captured stream is left out: see SwapsCaptured. *)
OwnServer ==
  pc = "pump" /\ stream.arm \in {"redis", "postgres"} /\ open.via = "explicit" =>
    LET live == {i \in DOMAIN Grants : Names(Grants[i], {stream.arm}, pair.host, pair.port)}
    IN  live # {} /\ \A i \in live : Grants[i].up = up

(* Whoever is served with a secret is the guest the scope admits, and the   *)
(* secret is that of the name it was promised and of the server dialled.    *)
RightParty == NamedAlike /\ MtlsAdmits /\ OwnServer

Unserved == {"head", "arm", "hello", "http", "banner", "opening", "splice", "copying", "dial", "legs"}
(* A guest that stalls, or that drips forever, does not hold its task      *)
(* before it is served: one budget covers each opening.                    *)
Settles == [](pc \in Unserved => <>(pc \in {"pump", "copy", "closed"}))

(* "transparent capture knows the port before it knows the host": the arm  *)
(* of a captured database stream swaps its password all the same.          *)
SwapsCaptured ==
  pc = "pump" /\ stream.arm \in {"redis", "postgres"} =>
    \E i \in DOMAIN Grants : Names(Grants[i], {stream.arm}, pair.host, pair.port)

(* "An expired leaf rotates on the next lookup." *)
LeafFresh == pc = "pump" /\ tls.leaf # NoName => now < tls.expires
=============================================================================
