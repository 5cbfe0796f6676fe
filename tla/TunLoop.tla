------------------------------ MODULE TunLoop ------------------------------
(***************************************************************************)
(* The TUN backend's loop and its TCP tracker: guest segments go through   *)
(* the userspace stack into one socket per connection, and the tracker     *)
(* shuttles bytes between the sockets and the connection tasks' channels.  *)
(*                                                                         *)
(* One turn of the loop is one step: a packet or the timer, then poll,     *)
(* relay, take_new, cleanup and the flush of what poll had sent.  The      *)
(* socket (smoltcp, external) delivers in order; what it has sent when the *)
(* loop polls reaches the guest, at the pace of the guest's window.        *)
(* Units of a direction are numbered in the order they were sent.          *)
(***************************************************************************)
EXTENDS Naturals, Sequences, FiniteSets, SequencesExt

CONSTANTS Conns,          \* the guest's (src, dst) pairs
          MAX_TCP_CONNS,
          CHANNEL_CAP,
          BufCap,         \* units a socket buffer holds
          GuestUnits,     \* bound: units the guest sends on each connection
          TaskUnits,      \* bound: units the task sends on each connection
          UdpKeys,        \* the guest's UDP (src, dst) pairs
          MAX_UDP_SESSIONS

ASSUME BuffersAssumption == BufCap \in Nat /\ CHANNEL_CAP \in Nat

VARIABLES socks,          \* tracked connections: the socket and the tracker's record
          ends,           \* the two ends of each connection: the guest and the task
          udp,            \* UDP sessions: live or not, queued datagrams
          turned          \* history: the pair turned away by the last UDP step

tunVars == <<socks, ends, udp, turned>>

(***************************************************************************)
(* A socket's state: listen, syn (SYN received), est, cwait (the guest's   *)
(* FIN came first), fwait (ours did), last (both, ours unanswered), closed;*)
(* "none" when the tracker has no entry.  FIN and data the guest has been  *)
(* given count as received by it.                                          *)
(***************************************************************************)
NoConn == [st |-> "none", rx |-> <<>>, tx |-> <<>>, spawned |-> FALSE,
           to_proxy |-> TRUE, chan |-> <<>>, back |-> <<>>,
           read_pending |-> <<>>, write_pending |-> <<>>]
NoEnds == [sent |-> 0, fin |-> FALSE, got |-> <<>>, told |-> "new",
           task |-> "none", read |-> <<>>, eof |-> FALSE, wrote |-> 0]

NoSession == [st |-> "none", queue |-> 0]

TunInit ==
  /\ socks = [c \in Conns |-> NoConn] /\ ends = [c \in Conns |-> NoEnds]
  /\ udp = [k \in UdpKeys |-> NoSession] /\ turned = {}

Tracked == {c \in Conns : socks[c].st # "none"}

CanRecv(s) == s.rx # <<>>

(***************************************************************************)
(* relay, task to socket.  A channel message is a unit, or Abort, which is *)
(* the task's last; the channel is disconnected once it is empty and the   *)
(* task has ended.                                                         *)
(***************************************************************************)
Abort == 0

Room(s) == IF s.st \in {"est", "cwait"} THEN BufCap - Len(s.tx) ELSE 0
AbortLast(back) == back # <<>> /\ back[Len(back)] = Abort
Units(back) == IF AbortLast(back) THEN SubSeq(back, 1, Len(back) - 1) ELSE back

\* try_recv until a unit does not fit, which becomes write_pending.
Drain(s) ==
  LET data == Units(s.back)
      fits == Room(s)
  IN  IF s.write_pending # <<>> THEN s
      ELSE [s EXCEPT !.tx = @ \o SubSeq(data, 1, IF fits < Len(data) THEN fits ELSE Len(data)),
                     !.write_pending = SubSeq(data, fits + 1, IF fits < Len(data) THEN fits + 1 ELSE 0),
                     !.back = SubSeq(@, (IF fits < Len(data) THEN fits + 1 ELSE Len(data)) + 1, Len(@))]

FinishPending(s) ==
  IF s.write_pending # <<>> /\ Room(s) > 0
  THEN [s EXCEPT !.tx = @ \o s.write_pending, !.write_pending = <<>>] ELSE s

Aborts(s) == s.write_pending = <<>> /\ s.back # <<>> /\ Head(s.back) = Abort
TaskGoneAfterFin(s, task) == s.st = "cwait" /\ s.back = <<>> /\ task \in {"done", "failed"}
TaskGone(s, task) == s.write_pending = <<>> /\ s.back = <<>> /\ task \in {"done", "failed"}

Closed(s) == [s EXCEPT !.st = CASE s.st = "est" -> "fwait" [] s.st = "cwait" -> "last" [] OTHER -> s.st]

(***************************************************************************)
(* relay, socket to task, with the FIN last.                               *)
(***************************************************************************)
\* recv_slice and try_send until a unit does not fit, which becomes read_pending.
Fill(s) ==
  LET fits == CHANNEL_CAP - Len(s.chan)
      taken == IF fits < Len(s.rx) THEN fits ELSE Len(s.rx)
      over == IF fits < Len(s.rx) THEN 1 ELSE 0
  IN  IF s.read_pending # <<>> THEN s
      ELSE [s EXCEPT !.chan = @ \o SubSeq(s.rx, 1, taken),
                     !.read_pending = SubSeq(s.rx, taken + 1, taken + over),
                     !.rx = SubSeq(@, taken + over + 1, Len(@))]

RetryPending(s) ==
  IF s.read_pending # <<>> /\ Len(s.chan) < CHANNEL_CAP
  THEN [s EXCEPT !.chan = @ \o s.read_pending, !.read_pending = <<>>] ELSE s

EofEarly(s) ==
  IF s.st = "cwait" /\ ~CanRecv(s) THEN [s EXCEPT !.to_proxy = FALSE] ELSE s
Eof(s) ==
  IF s.st = "cwait" /\ s.read_pending = <<>> /\ ~CanRecv(s) THEN [s EXCEPT !.to_proxy = FALSE] ELSE s

take_new(s) ==
  IF ~s.spawned /\ s.st \in {"est", "cwait"} THEN [s EXCEPT !.spawned = TRUE] ELSE s

\* The turn's end: sockets that are closed by now leave the tracker.  A reset that
\* abort() asked for in relay would have been sent by the next poll.
cleanup(s) ==
  IF s.st = "closed" THEN [NoConn EXCEPT !.chan = s.chan, !.to_proxy = FALSE] ELSE s

(***************************************************************************)
(* iface.poll: what the guest's window lets through reaches the guest, and *)
(* a FIN once the data before it has.                                      *)
(***************************************************************************)
Poll(s, e, n) ==
  LET k == IF n < Len(s.tx) THEN n ELSE Len(s.tx)
      t == [s EXCEPT !.tx = SubSeq(@, k + 1, Len(@))]
      told == IF t.tx = <<>> /\ s.st \in {"fwait", "last"} /\ e.told = "open" THEN "fin" ELSE e.told
  IN  <<[t EXCEPT !.st = IF told = "fin" /\ (s.st = "last" \/ (s.st = "fwait" /\ e.fin)) THEN "closed" ELSE s.st],
        [e EXCEPT !.got = @ \o SubSeq(s.tx, 1, k), !.told = told]>>

(***************************************************************************)
(* A turn.  relay skips sockets that are closed or have no task; for each  *)
(* of the others it drains the task's channel, then aborts, or closes once *)
(* the task is gone, or writes what was pending and reads (while the       *)
(* sender to the task is held).  take_new and cleanup follow.              *)
(***************************************************************************)
Sent(s, task) ==
  CASE Aborts(s) -> [s EXCEPT !.st = "closed", !.tx = <<>>]
    [] ~Aborts(s) /\ TaskGone(s, task) -> Closed(s)
    [] OTHER -> FinishPending(s)
Reads(s, task) == ~Aborts(s) /\ ~TaskGone(s, task) /\ s.to_proxy

ToTask(W, reads) ==
  \E R \in {[d \in Conns |-> IF d \in reads THEN RetryPending(W[d]) ELSE W[d]]} :
  \E F \in {[d \in Conns |-> IF d \in reads THEN Fill(R[d]) ELSE R[d]]} :
     socks' = [d \in Conns |-> cleanup(take_new(IF d \in reads THEN Eof(F[d]) ELSE F[d]))]

relay(S, E) ==
  \E on \in {{d \in Conns : S[d].spawned /\ S[d].st # "closed"}} :
  \E D \in {[d \in Conns |-> IF d \in on THEN Drain(S[d]) ELSE S[d]]} :
  \E W \in {[d \in Conns |-> IF d \in on THEN Sent(D[d], E[d].task) ELSE D[d]]} :
  \E reads \in {{d \in on : Reads(D[d], E[d].task)}} : ToTask(W, reads)

Turn(S, E, c, n) ==
  \E p \in {Poll(S[c], E[c], n)} :
  \E S1 \in {[S EXCEPT ![c] = p[1]]} : \E E1 \in {[E EXCEPT ![c] = p[2]]} :
     /\ relay(S1, E1)
     /\ ends' = [d \in Conns |-> IF ~S1[d].spawned /\ take_new(S1[d]).spawned
                                 THEN [E1[d] EXCEPT !.task = "run"] ELSE E1[d]]
     /\ UNCHANGED <<udp, turned>>

(***************************************************************************)
(* The guest's segments, one a turn.                                       *)
(***************************************************************************)
\* ingress: a SYN of a pair the tracker does not hold makes a socket, unless it is at
\* its cap; without a socket the stack answers with a reset.
Syn(c) ==
  /\ ends[c].told = "new" /\ socks[c].st \in {"none", "listen"}
  /\ LET made == socks[c].st = "listen" \/ Cardinality(Tracked) < MAX_TCP_CONNS
     IN  Turn([socks EXCEPT ![c].st = IF made THEN "syn" ELSE @],
              [ends EXCEPT ![c].told = IF made THEN "open" ELSE "rst"], c, 0)

HandshakeAck(c) == socks[c].st = "syn" /\ ends[c].told = "open" /\ Turn([socks EXCEPT ![c].st = "est"], ends, c, 0)

GuestData(c) ==
  /\ socks[c].st \in {"est", "fwait"} /\ ~ends[c].fin
  /\ ends[c].told \in {"open", "fin"} /\ ends[c].sent < GuestUnits[c]
  /\ Len(socks[c].rx) < BufCap
  /\ Turn([socks EXCEPT ![c].rx = Append(@, ends[c].sent + 1)],
          [ends EXCEPT ![c].sent = @ + 1], c, 0)

GuestFin(c) ==
  /\ socks[c].st \in {"est", "fwait"} /\ ~ends[c].fin /\ ends[c].told \in {"open", "fin"}
  /\ Turn([socks EXCEPT ![c].st = IF @ = "est" THEN "cwait" ELSE @],
          [ends EXCEPT ![c].fin = TRUE], c, 0)

\* In SYN-RECEIVED a reset returns the socket to LISTEN; later it closes the socket.
GuestRst(c) ==
  /\ socks[c].st \notin {"none", "listen", "closed"} /\ ends[c].told \in {"open", "fin"}
  /\ Turn([socks EXCEPT ![c].st = IF @ = "syn" THEN "listen" ELSE "closed"],
          [ends EXCEPT ![c].told = "gone"], c, 0)

\* A segment of a connection the tracker has dropped: untracked segments earn a reset.
LateSegment(c) ==
  /\ socks[c].st = "none" /\ ends[c].told = "open" /\ ends[c].sent < GuestUnits[c] /\ ~ends[c].fin
  /\ Turn(socks, [ends EXCEPT ![c].sent = @ + 1, ![c].told = "rst"], c, 0)

\* A turn without a segment: the guest's acknowledgements, or the timer.
Timer(c) == socks[c].st # "none" /\ \E n \in 1..BufCap : Turn(socks, ends, c, n)

(***************************************************************************)
(* The connection's task, over ChanStream.                                 *)
(***************************************************************************)
poll_read(c) ==
  /\ ends[c].task = "run" /\ socks[c].chan # <<>>
  /\ ends' = [ends EXCEPT ![c].read = Append(@, Head(socks[c].chan))]
  /\ socks' = [socks EXCEPT ![c].chan = Tail(@)]
  /\ UNCHANGED <<udp, turned>>

poll_read_eof(c) ==
  /\ ends[c].task = "run" /\ socks[c].chan = <<>> /\ ~socks[c].to_proxy
  /\ ~ends[c].eof
  /\ ends' = [ends EXCEPT ![c].eof = TRUE]
  /\ UNCHANGED <<socks, udp, turned>>

poll_write(c) ==
  /\ ends[c].task = "run" /\ socks[c].st # "none" /\ Len(socks[c].back) < CHANNEL_CAP
  /\ ends[c].wrote < TaskUnits[c]
  /\ ends' = [ends EXCEPT ![c].wrote = @ + 1]
  /\ socks' = [socks EXCEPT ![c].back = Append(@, ends[c].wrote + 1)]
  /\ UNCHANGED <<udp, turned>>

\* serve_transparent_stream returns; both senders and the receiver drop.
TaskDone(c) ==
  /\ ends[c].task = "run"
  /\ ends' = [ends EXCEPT ![c].task = "done"]
  /\ UNCHANGED <<socks, udp, turned>>

TaskFails(c) ==
  /\ ends[c].task = "run"
  /\ socks[c].st = "none" \/ Len(socks[c].back) < CHANNEL_CAP
  /\ ends' = [ends EXCEPT ![c].task = "failed"]
  /\ socks' = IF socks[c].st = "none" THEN socks ELSE [socks EXCEPT ![c].back = Append(@, Abort)]
  /\ UNCHANGED <<udp, turned>>

(***************************************************************************)
(* UDP, outside the stack.  QUIC (443) never gets here.                    *)
(***************************************************************************)
Sessions(U) == {k \in UdpKeys : U[k].st # "none"}
retain_none(U) == U
retain(U) == [k \in UdpKeys |-> IF U[k].st = "closed" THEN NoSession ELSE U[k]]
AtCap(U) == Cardinality(Sessions(U)) >= MAX_UDP_SESSIONS

forward_udp(k) ==
  LET live == udp[k].st = "live"
      U == IF live THEN udp ELSE [udp EXCEPT ![k] = NoSession]
      V == IF AtCap(U) THEN retain(U) ELSE U
  IN  /\ udp' = CASE live -> [udp EXCEPT ![k].queue = IF @ < CHANNEL_CAP THEN @ + 1 ELSE @]
                  [] ~live /\ AtCap(V) -> V
                  [] ~live /\ ~AtCap(V) -> [V EXCEPT ![k] = [st |-> "live", queue |-> 1]]
      /\ turned' = IF ~live /\ AtCap(V) THEN {k} ELSE {}
      /\ UNCHANGED <<socks, ends>>

\* The session task sends a query on, or ends: idle, or its socket failed.
udp_session_task(k) ==
  /\ udp[k].st = "live"
  /\ udp' = IF udp[k].queue > 0 THEN [udp EXCEPT ![k].queue = @ - 1]
            ELSE [udp EXCEPT ![k] = [st |-> "closed", queue |-> 0]]
  /\ turned' = {} /\ UNCHANGED <<socks, ends>>

udp_session_fails(k) ==
  /\ udp[k].st = "live"
  /\ udp' = [udp EXCEPT ![k] = [st |-> "closed", queue |-> 0]]
  /\ turned' = {} /\ UNCHANGED <<socks, ends>>

TurnStep(c) ==
  Syn(c) \/ HandshakeAck(c) \/ GuestData(c) \/ GuestFin(c) \/ GuestRst(c) \/ LateSegment(c) \/ Timer(c)

TaskStep(c) == poll_read(c) \/ poll_read_eof(c) \/ poll_write(c) \/ TaskDone(c) \/ TaskFails(c)

UdpStep(k) == forward_udp(k) \/ udp_session_task(k) \/ udp_session_fails(k)

(***************************************************************************)
(* Through full channels, partial writes and either side closing first,    *)
(* the task reads what the guest sent in its order and sees EOF only after *)
(* the last of it, and the guest gets what the task wrote in its order and *)
(* sees a FIN only after the last of it.                                   *)
(***************************************************************************)
Upto(n) == [i \in 1..n |-> i]
TunStream ==
  \A c \in Conns :
     LET e == ends[c]
     IN  /\ IsPrefix(e.read, Upto(e.sent)) /\ IsPrefix(e.got, Upto(e.wrote))
         /\ e.eof /\ e.told # "gone" => e.fin /\ Len(e.read) = e.sent
         /\ e.told = "fin" => e.task = "done" /\ Len(e.got) = e.wrote

(***************************************************************************)
(* "Dial/TLS failure: RST so the guest fails fast instead of hanging"      *)
(* (tun_conn_task): a guest whose task failed hears of it, without having  *)
(* to send another segment.                                                *)
(***************************************************************************)
FailsFast == \A c \in Conns : ends[c].task = "failed" ~> ends[c].told # "open"

(***************************************************************************)
(* A new guest pair is turned away at the session limit only while every   *)
(* session counted there is alive: sessions that timed out free the table. *)
(***************************************************************************)
UdpAdmitted ==
  turned # {} => AtCap(udp) /\ \A k \in Sessions(udp) : udp[k].st = "live"

(***************************************************************************)
(* The loop's two promises to the guest: its streams are kept, and its     *)
(* datagrams are not turned away for the sake of dead sessions.            *)
(***************************************************************************)
TunServes == TunStream /\ UdpAdmitted
=============================================================================
