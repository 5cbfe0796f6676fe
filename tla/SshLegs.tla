------------------------------- MODULE SshLegs -------------------------------
(***************************************************************************)
(* The two legs of an ssh connection (transports/ssh/legs.rs) over the key *)
(* files of KeyFiles.  The guest's session ends at hodor, under hodor's    *)
(* own host key, and only the decoy key gets in; hodor dials the server    *)
(* once per guest connection, checks its host key against its own          *)
(* known_hosts, presents the real identity, and bridges the guest's        *)
(* channel request for request.                                            *)
(*                                                                         *)
(* A connection is a task whose job is "host": it loads the host key, then *)
(* lives through the steps below.  The guest, the server and russh are     *)
(* modelled from how legs.rs uses them.                                    *)
(***************************************************************************)
EXTENDS KeyFiles, Sequences, SequencesExt

CONSTANTS Names,        \* the servers, each on a port of its own
          Users,        \* the user names of a guest
          HostKeys,     \* the keys a server may present
          GuestScript,  \* what the guest sends on its channel, in order
          ServerScript, \* what the server sends on its channel, in order
          MaxDials,     \* bound on the connections that dial at one time
          MaxOpen,      \* bound on the channels bridged at one time
          MaxRekeys     \* bound on the host key changes of a behaviour

ASSUME TasksAssumption == IsFiniteSet(Tasks)
(* A server has a host key, and no key is the mark of a name without one.  *)
ASSUME HostKeysAssumption == HostKeys # {} /\ "" \notin HostKeys

(* The messages that are passed on.  Forwarding of ports, of the agent and  *)
(* of X11 is left where it is, and so is what the server says of its       *)
(* window and its signals.                                                 *)
Forwarded == {"exec", "data", "signal", "eof", "close"}
Returned == {"success", "data", "exit", "eof", "close"}
Words == Forwarded \cup Returned \cup {"forward", "window"}
ASSUME ScriptsAssumption == GuestScript \in Seq(Words) /\ ServerScript \in Seq(Words)

VARIABLES cached,   \* the keys the transport has loaded, or NoKey
          leg,      \* per connection: the guest leg and the dial
          bridge,   \* per connection: its session channel
          pins,     \* hodor's known_hosts: lines, and whether it is being written
          server,   \* the host key of each server now, and the first one accepted
          rekeys

legVars == <<cached, leg, bridge, pins, server, rekeys>>
vars == <<keyVars, legVars>>

Conns == {t \in Tasks : job[t] = "host"}

(* A guest that has shown no key yet, and no session to the server.  proven *)
(* is the key the guest signed with, the truth user is checked against.    *)
NewLeg(n) == [at |-> "auth", name |-> n, user |-> "", proven |-> <<>>, tried |-> FALSE,
              seen |-> "", text |-> {}, as |-> ""]

(* What each end has sent and has been given; up and down are the two     *)
(* pumps, lost a server that is gone.                                      *)
NewBridge == [open |-> FALSE, guest |-> <<>>, toServer |-> <<>>, server |-> <<>>, toGuest |-> <<>>,
              up |-> FALSE, down |-> FALSE, read |-> 0, written |-> 0, lost |-> FALSE]

LegInit ==
  /\ cached = NoKey
  /\ \E names \in [Tasks -> Names] : leg = [t \in Tasks |-> NewLeg(names[t])]
  /\ bridge = [t \in Tasks |-> NewBridge]
  /\ pins = [lines |-> {}, whole |-> TRUE]
  /\ server = [now |-> [n \in Names |-> CHOOSE k \in HostKeys : TRUE], first |-> [n \in Names |-> ""]]
  /\ rekeys = 0

Leg(c, e) == leg' = [leg EXCEPT ![c] = e]
(* An error of a leg ends the guest's session.                             *)
Ended(l) == [NewLeg(l.name) EXCEPT !.at = "ended"]
Step(c, s) == Leg(c, IF s = "ended" THEN Ended(leg[c]) ELSE [leg[c] EXCEPT !.at = s])
OnlyLeg == UNCHANGED <<keyVars, cached, bridge, pins, server, rekeys>>

(* SshTransport::legs: the keys are loaded once per process, and shared.   *)
LegsCached(c) ==
  /\ at[c] = "start" /\ cached # NoKey
  /\ Take(c, "host", cached, "ready")
  /\ UNCHANGED <<job, tries, files, runs, legVars>>

(* The other keys of the triple are read after the host key: an identity   *)
(* or a decoy that cannot be read ends the connection, and nothing is      *)
(* cached.                                                                 *)
LegsLoaded(c) ==
  /\ at[c] = "ready" /\ leg[c].at = "auth" /\ cached = NoKey
  /\ \/ cached' = got[c] /\ UNCHANGED leg
     \/ Step(c, "ended") /\ UNCHANGED cached
  /\ UNCHANGED <<keyVars, bridge, pins, server, rekeys>>

-----------------------------------------------------------------------------
(* The guest leg.                                                          *)

Serving(c, s) == at[c] = "ready" /\ cached # NoKey /\ leg[c].at = s

(* The offer already names the session's user and lets it in.              *)
auth_offered_admits(c, u, k) ==
  /\ Serving(c, "auth")
  /\ Leg(c, [leg[c] EXCEPT !.tried = TRUE, !.user = IF k = "decoy" THEN u ELSE @,
                           !.at = IF k = "decoy" THEN "open" ELSE @])
  /\ OnlyLeg

(* An offer is only answered: the guest learns whether the key would do.   *)
auth_publickey_offered(c, u, k) ==
  /\ Serving(c, "auth")
  /\ Leg(c, [leg[c] EXCEPT !.tried = TRUE])
  /\ OnlyLeg

(* A signed request: the decoy key admits, under the user it names.  A     *)
(* rejected guest may try another.                                         *)
auth_publickey(c, u, k) ==
  /\ Serving(c, "auth")
  /\ Leg(c, IF k = "decoy"
            THEN [leg[c] EXCEPT !.user = u, !.proven = <<u, k>>, !.tried = FALSE, !.at = "open"]
            ELSE [leg[c] EXCEPT !.tried = TRUE])
  /\ OnlyLeg

auth_password(c) ==
  /\ Serving(c, "auth")
  /\ Leg(c, [leg[c] EXCEPT !.tried = TRUE])
  /\ OnlyLeg

Dialling == {"dial", "verify", "read", "truncate", "record", "identify"}

(* The first channel of a connection dials; the guest's session waits.     *)
channel_open_session(c) ==
  /\ Serving(c, "open") /\ ~bridge[c].open
  /\ Cardinality({d \in Conns : leg[d].at \in Dialling}) < MaxDials
  /\ Step(c, IF leg[c].as = "" THEN "dial" ELSE "channel")
  /\ OnlyLeg

-----------------------------------------------------------------------------
(* The dial: connect, check the host key, authenticate.  The budget covers *)
(* all of it, and runs out only while it waits: reading and writing        *)
(* known_hosts does not.                                                   *)

Connect(c) ==
  /\ Serving(c, "dial")
  /\ Leg(c, [leg[c] EXCEPT !.at = "verify", !.seen = server.now[leg[c].name]])
  /\ OnlyLeg

(* The keys known_hosts pins for the server, as russh reads the file.      *)
pinned_host_keys(n) == {l[2] : l \in {x \in pins.lines : x[1] = n}}

Accepted(c, n, k) == server' = [server EXCEPT !.first[n] = IF @ = "" THEN k ELSE @]

(* A key that is not pinned is recorded, whatever is pinned already.       *)
verify_server_key_adding(c) ==
  /\ Serving(c, "verify")
  /\ LET n == leg[c].name  k == leg[c].seen  pinned == pinned_host_keys(n)
     IN  /\ Step(c, IF k \in pinned THEN "identify" ELSE "read")
         /\ IF k \in pinned THEN Accepted(c, n, k) ELSE UNCHANGED server
  /\ UNCHANGED <<keyVars, cached, bridge, pins, rekeys>>

(* No pin: the key is recorded, by a read of the whole file and a write of *)
(* it that truncates first.  A pin: one of them must be the key shown.     *)
verify_server_key(c) ==
  /\ Serving(c, "verify")
  /\ LET n == leg[c].name  k == leg[c].seen  pinned == pinned_host_keys(n)
     IN  /\ Step(c, IF pinned = {} THEN "read" ELSE IF k \in pinned THEN "identify" ELSE "ended")
         /\ IF k \in pinned THEN Accepted(c, n, k) ELSE UNCHANGED server
  /\ UNCHANGED <<keyVars, cached, bridge, pins, rekeys>>

append_known_host(c) ==
  \/ /\ Serving(c, "read")
     /\ Leg(c, [leg[c] EXCEPT !.at = "truncate", !.text = pins.lines])
     /\ OnlyLeg
  \/ /\ Serving(c, "truncate")
     /\ pins' = [lines |-> {}, whole |-> FALSE]
     /\ Step(c, "record")
     /\ UNCHANGED <<keyVars, cached, bridge, server, rekeys>>
  \/ /\ Serving(c, "record")
     /\ pins' = [lines |-> leg[c].text \cup {<<leg[c].name, leg[c].seen>>}, whole |-> TRUE]
     /\ Accepted(c, leg[c].name, leg[c].seen)
     /\ Leg(c, [leg[c] EXCEPT !.at = "identify", !.text = {}])
     /\ UNCHANGED <<keyVars, cached, bridge, rekeys>>

(* The real identity, under the user the guest signed in as.  A server     *)
(* that refuses it ends the session.                                       *)
Authenticate(c) ==
  /\ Serving(c, "identify")
  /\ \/ Leg(c, [leg[c] EXCEPT !.at = "channel", !.as = leg[c].user, !.seen = ""])
     \/ Step(c, "ended")
  /\ OnlyLeg

(* The handshake budget runs out, or the server is gone.                   *)
Elapsed(c) ==
  /\ \E s \in {"dial", "verify", "identify", "channel"} : Serving(c, s)
  /\ Step(c, "ended")
  /\ OnlyLeg

OpenRemote(c) ==
  /\ Serving(c, "channel")
  /\ Cardinality({d \in Conns : bridge[d].open}) < MaxOpen
  /\ bridge' = [bridge EXCEPT ![c] = [NewBridge EXCEPT !.open = TRUE, !.up = TRUE, !.down = TRUE]]
  /\ Step(c, "open")
  /\ UNCHANGED <<keyVars, cached, pins, server, rekeys>>

-----------------------------------------------------------------------------
(* The bridge.                                                             *)

Bridge(c, b) == bridge' = [bridge EXCEPT ![c] = b] /\ UNCHANGED <<keyVars, cached, leg, pins, server, rekeys>>

GuestSends(c) ==
  LET b == bridge[c]
  IN  /\ b.open /\ Len(b.guest) < Len(GuestScript) /\ ~Contains(b.toGuest, "close")
      /\ Bridge(c, [b EXCEPT !.guest = Append(@, GuestScript[Len(@) + 1])])

(* Nothing follows a close on a channel.                                   *)
ServerSends(c) ==
  LET b == bridge[c]
  IN  /\ b.open /\ Len(b.server) < Len(ServerScript) /\ ~b.lost /\ ~Contains(b.server, "close")
      /\ Bridge(c, [b EXCEPT !.server = Append(@, ServerScript[Len(@) + 1])])

(* The server's session ends without a word: the channel reads no more.    *)
ServerLost(c) ==
  /\ bridge[c].open /\ ~bridge[c].lost /\ ~Contains(bridge[c].server, "close")
  /\ Bridge(c, [bridge[c] EXCEPT !.lost = TRUE])

(* One message of the guest's.  Its close ends the pump, and so does a     *)
(* write that fails once the server is gone.                               *)
forward_guest_message(c) ==
  LET b == bridge[c]  i == b.read + 1
  IN  /\ b.up /\ i <= Len(b.guest)
      /\ Bridge(c, [b EXCEPT !.read = i,
                             !.toServer = IF b.guest[i] \in Forwarded /\ ~b.lost THEN Append(@, b.guest[i]) ELSE @,
                             !.up = b.guest[i] # "close" /\ ~(b.lost /\ b.guest[i] \in Forwarded)])

(* End of the pump back to the guest: it closes the guest's channel, then  *)
(* the server's.                                                           *)
Closed(b) == [b EXCEPT !.down = FALSE,
                       !.toGuest = IF Contains(@, "close") THEN @ ELSE Append(@, "close"),
                       !.toServer = IF Contains(@, "close") \/ b.lost THEN @ ELSE Append(@, "close")]

(* The server's end of file taken for the end of the channel.              *)
PumpBackToEof(c) ==
  LET b == bridge[c]  i == b.written + 1
  IN  /\ b.down /\ i <= Len(b.server)
      /\ LET m == b.server[i]
             fed == [b EXCEPT !.written = i, !.toGuest = IF m \in Returned THEN Append(@, m) ELSE @]
         IN  Bridge(c, IF m \in {"eof", "close"} THEN Closed(fed) ELSE fed)

(* The loop spawned by channel_open_session.                               *)
PumpBack(c) ==
  LET b == bridge[c]  i == b.written + 1
  IN  /\ b.down /\ i <= Len(b.server)
      /\ LET m == b.server[i]
             fed == [b EXCEPT !.written = i, !.toGuest = IF m \in Returned THEN Append(@, m) ELSE @]
         IN  Bridge(c, IF m = "close" THEN Closed(fed) ELSE fed)

(* A lost channel that just stops the loop.                                *)
PumpForgets(c) ==
  LET b == bridge[c]
  IN  /\ b.down /\ b.lost /\ b.written = Len(b.server)
      /\ Bridge(c, [b EXCEPT !.down = FALSE])

(* The server's channel reads no more: however it ended, the guest's       *)
(* channel ends too.                                                       *)
PumpEnds(c) ==
  LET b == bridge[c]
  IN  /\ b.down /\ b.lost /\ b.written = Len(b.server)
      /\ Bridge(c, Closed(b))

-----------------------------------------------------------------------------
(* The server is given a new host key.                                     *)
Rekey(n) ==
  /\ rekeys < MaxRekeys
  /\ rekeys' = rekeys + 1
  /\ \E k \in HostKeys \ {server.now[n]} : server' = [server EXCEPT !.now[n] = k]
  /\ UNCHANGED <<keyVars, cached, leg, bridge, pins>>

(* A crash takes the process: a connection starts over, and with it the    *)
(* cache of its keys and the connections beside it.  One that catches a    *)
(* dial between the truncation and the write of known_hosts loses every    *)
(* pin: it is taken only when Interrupted names that file.                 *)
Restart(t) ==
  /\ job[t] = "host" /\ (\E c \in Conns : leg[c].at = "record") => "known_hosts" \in Interrupted
  /\ Crash(t)
  /\ IF job[t] = "host"
     THEN /\ cached' = NoKey
          /\ leg' = [c \in Tasks |-> IF c \in Conns \ {t} /\ at[c] = "ready"
                                     THEN Ended(leg[c]) ELSE NewLeg(leg[c].name)]
          /\ bridge' = [c \in Tasks |-> IF c \in Conns THEN NewBridge ELSE bridge[c]]
     ELSE UNCHANGED <<cached, leg, bridge>>
  /\ UNCHANGED <<pins, server, rekeys>>

Pumps(c) == forward_guest_message(c) \/ PumpBack(c) \/ PumpEnds(c)

ConnStep(c) ==
  \/ LegsCached(c) \/ LegsLoaded(c)
  \/ \E u \in Users, k \in {"decoy", "other"} : auth_publickey_offered(c, u, k) \/ auth_publickey(c, u, k)
  \/ auth_password(c) \/ channel_open_session(c) \/ Connect(c) \/ verify_server_key(c)
  \/ append_known_host(c) \/ Authenticate(c) \/ Elapsed(c) \/ OpenRemote(c)
  \/ GuestSends(c) \/ ServerSends(c) \/ ServerLost(c)
  \/ Pumps(c)

Next ==
  \/ \E t \in Tasks : (KeyStep(t) /\ UNCHANGED legVars) \/ Restart(t)
  \/ \E c \in Conns : ConnStep(c)
  \/ \E n \in Names : Rekey(n)

Init == KeyInit /\ LegInit

(* The runtime polls a task that can go on: the two pumps of a channel.    *)
Spec == Init /\ [][Next]_vars /\ WF_vars(\E c \in Conns : Pumps(c))

-----------------------------------------------------------------------------
(* hodor presents the real identity only for a guest that has signed with  *)
(* the decoy key, and as the user of that signature: whatever the guest    *)
(* offered before, and under whatever name (auth_publickey and             *)
(* dial_upstream, legs.rs).                                                *)
IdentityEarned == \A c \in Conns : leg[c].as # "" => leg[c].proven = <<leg[c].as, "decoy">>

(* q is what is passed on of the first n messages of s, in their order.     *)
Due(s, n) == {i \in 1..n : s[i] \in Returned}
Told(q, s, n) ==
  Len(q) = Cardinality(Due(s, n)) /\ \A i \in Due(s, n) : q[Cardinality(Due(s, i))] = s[i]

(* Until its channel is closed the guest has a beginning of what the       *)
(* server sent, in order.  When it is closed it has all of it, the output  *)
(* after an end of file and the exit status included, and then the close:  *)
(* the server's own, or one for a server that is gone (the pump of         *)
(* channel_open_session, legs.rs).                                         *)
GuestTold ==
  \A c \in Conns :
    LET b == bridge[c]
        relayed == IF Contains(b.server, "close") THEN b.toGuest ELSE Front(b.toGuest)
    IN  /\ ~Contains(b.toGuest, "close") => \E n \in 0..Len(b.server) : Told(b.toGuest, b.server, n)
        /\ Contains(b.toGuest, "close") => Told(relayed, b.server, Len(b.server))

(* "However the upstream channel ended, the guest channel ends too": once  *)
(* the server has closed, or is gone, the guest's channel is closed unless *)
(* the process is killed first (channel_open_session, legs.rs).            *)
EndsTogether ==
  \A c \in Tasks : (bridge[c].open /\ (bridge[c].lost \/ Contains(bridge[c].server, "close")))
                   ~> (~bridge[c].open \/ Contains(bridge[c].toGuest, "close"))

(* "A first-seen key is recorded, a changed key on a known host fails":    *)
(* every session that goes on to present the identity was shown the key    *)
(* first accepted for the server (verify_server_key, legs.rs).             *)
ChangedKeyFails ==
  \A c \in Conns : leg[c].at = "identify" => leg[c].seen = server.first[leg[c].name]

(* Every holder of a key file sees one key, and a start repairs the split   *)
(* files a killed one left (KeyFiles).                                      *)
KeyFilesKept == OneAuthority /\ HostKeyKept /\ SplitRepaired

(* Both ends have proven themselves before the real identity is used.       *)
BothProven == IdentityEarned /\ ChangedKeyFails
=============================================================================
