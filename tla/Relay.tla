------------------------------- MODULE Relay -------------------------------
(***************************************************************************)
(* The bidirectional pump every intercepted connection ends up in          *)
(* (crates/hodor-proxy/src/relay.rs).  Two futures run inside one task     *)
(* (tokio::join!), so they interleave only where one of them awaits:       *)
(*                                                                         *)
(*   request pump   guest  -> downstream machine -> upstream socket        *)
(*   response pump  upstream socket -> upstream machine -> guest           *)
(*                                                                         *)
(* They are joined by an unbounded FIFO channel (request -> response) and  *)
(* a oneshot completion signal (response -> request).  The wire machines   *)
(* are generic (trait Wire): here a feed may answer anything the trait     *)
(* allows.  Bytes are abstracted to the number of the request chunk they   *)
(* come from: an upstream chunk carries the number of the newest request   *)
(* chunk whose bytes the upstream can have read when it sent the chunk.    *)
(***************************************************************************)
EXTENDS Naturals, Sequences

CONSTANTS MaxFeeds,     \* bound: chunks read from the guest
          MaxSends      \* bound: chunks sent by the upstream

ASSUME BoundsAssumption == MaxFeeds \in Nat /\ MaxSends \in Nat

VARIABLES
  reqPc,      \* where the request pump is
  reqOn,      \* what it works on: the replayed first bytes, a chunk, the FIN
  fed,        \* feeds of the downstream machine that have completed
  written,    \* newest request chunk handed to a write towards the upstream
  chan,       \* the mpsc channel: Seq of ToResponse
  txOpen,     \* the sender half is alive (pump_requests has not returned)
  done,       \* the oneshot: pending, ready, or already polled to completion
  upQ,        \* chunks the upstream sent that were not read yet
  sent,       \* chunks the upstream sent
  respPc,     \* where the response pump is
  open,       \* requests_open
  cur,        \* the upstream chunk in hand
  \* history, for the properties only
  queued,     \* messages ever queued on the channel, the terminal one excepted
  applied,    \* messages the response pump carried out
  fedTag,     \* newest request chunk a chunk given to the upstream machine answers
  endedBy     \* why the response pump left its loop

reqVars  == <<reqPc, reqOn, fed, written>>
respVars == <<respPc, open, cur, applied, fedTag, endedBy>>
envVars  == <<upQ, sent>>
vars     == <<reqVars, chan, txOpen, done, envVars, respVars, queued>>

Reply(k)      == [kind |-> "reply", id |-> k]
PeerNote(k)   == [kind |-> "note", id |-> k]
RequestsEnded == [kind |-> "ended", id |-> 0]
ToResponse    == [kind : {"reply", "note", "ended"}, id : Nat]

Data(t) == [fin |-> FALSE, tag |-> t]
Fin     == [fin |-> TRUE, tag |-> 0]
Chunk   == [fin : BOOLEAN, tag : Nat]

ReqEnded  == reqPc \in {"ok", "err"}
RespEnded == respPc \in {"ok", "err"}
\* A panic in either pump unwinds the one task both run in.
Alive     == reqPc # "panic"

TypeOK ==
  /\ reqPc \in {"select", "feed", "write", "flush", "shutdown", "ok", "err", "panic"}
  /\ reqOn \in {"first", "chunk", "eof"}
  /\ fed \in Nat /\ written \in Nat /\ sent \in Nat /\ fedTag \in Nat
  /\ chan \in Seq(ToResponse)
  /\ txOpen \in BOOLEAN /\ open \in BOOLEAN
  /\ done \in {"pending", "ready", "consumed"}
  /\ upQ \in Seq(Chunk) /\ cur \in Chunk
  /\ respPc \in {"select", "reply", "drain", "drainReply", "feed", "write",
                 "finish", "ok", "err"}
  /\ queued \subseteq ToResponse /\ applied \subseteq ToResponse
  /\ endedBy \in {"none", "requests", "fin", "close", "error"}

Init ==
  \* first may be empty: then the pump starts in its loop.
  /\ \/ reqPc = "feed" /\ reqOn = "first"
     \/ reqPc = "select" /\ reqOn = "chunk"
  /\ fed = 0 /\ written = 0
  /\ chan = <<>> /\ txOpen = TRUE /\ done = "pending"
  /\ upQ = <<>> /\ sent = 0
  /\ respPc = "select" /\ open = TRUE /\ cur = Data(0)
  /\ queued = {} /\ applied = {} /\ fedTag = 0 /\ endedBy = "none"

-----------------------------------------------------------------------------
(* The request pump.                                                       *)

\* The receiver half is dropped when pump_responses returns: a later send
\* fails and the message is dropped.
Send(msgs) == chan' = IF RespEnded THEN chan ELSE chan \o msgs

\* The sender half is dropped when pump_requests returns.
Return(pc) == reqPc' = pc /\ txOpen' = FALSE

\* select! picked the guest read: a chunk, or the FIN (a FIN without
\* close_notify, rustls' UnexpectedEof, counts as one).
ReqRead ==
  /\ reqPc = "select"
  /\ \/ fed < MaxFeeds /\ reqOn' = "chunk"
     \/ reqOn' = "eof"
  /\ reqPc' = "feed"
  /\ UNCHANGED <<fed, written, chan, txOpen, done, envVars, respVars, queued>>

\* The guest read failed: terminal intent, then the error.
ReqReadErr ==
  /\ reqPc = "select"
  /\ Send(<<RequestsEnded>>)
  /\ Return("err")
  /\ UNCHANGED <<reqOn, fed, written, done, envVars, respVars, queued>>

\* hand_over: what a feed can leave to hand over, the reply first and the
\* framing fact second.
HandOver(k) == {reply \o note : reply \in {<<>>, <<Reply(k)>>}, note \in {<<>>, <<PeerNote(k)>>}}

\* downstream.feed returned: hand_over, then act on Close, Hold or Emit.  At
\* the FIN only Emit matters.  Bytes of an Emit may reach the upstream from
\* here on, whatever becomes of the write.
ReqFed ==
  /\ reqPc = "feed"
  /\ fed' = fed + 1
  /\ \E out \in {"close", "hold", "emit"}, msgs \in HandOver(fed + 1) :
       /\ queued' = queued \cup {msgs[i] : i \in DOMAIN msgs}
       /\ \/ /\ out = "close" /\ reqOn # "eof"
             /\ Send(msgs \o <<RequestsEnded>>)
             /\ Return("ok")
             /\ UNCHANGED written
          \/ /\ out = "hold" \/ (out = "close" /\ reqOn = "eof")
             /\ Send(msgs)
             /\ reqPc' = IF reqOn = "eof" THEN "shutdown" ELSE "select"
             /\ UNCHANGED <<written, txOpen>>
          \/ /\ out = "emit"
             /\ Send(msgs)
             /\ written' = fed + 1
             /\ reqPc' = "write"
             /\ UNCHANGED txOpen
  /\ UNCHANGED <<reqOn, done, envVars, respVars>>

\* What follows a write that returned Ok: Some(()) and None are not told apart.
AfterWrite ==
  reqPc' = CASE reqOn = "first" -> "flush"
             [] reqOn = "chunk" -> "select"
             [] reqOn = "eof"   -> "shutdown"

\* write_or_stopped: the write completed.
ReqWritten ==
  /\ reqPc = "write"
  /\ AfterWrite
  /\ UNCHANGED <<reqOn, fed, written, chan, txOpen, done, envVars, respVars, queued>>

\* Mutant: a failed write unwinds without a word.
ReqWriteErr_Silent ==
  /\ reqPc = "write"
  /\ Return("err")
  /\ UNCHANGED <<chan, reqOn, fed, written, done, envVars, respVars, queued>>

\* write_or_stopped: the write failed; request_*_error queues the terminal
\* intent and `?` unwinds the pump.
ReqWriteErr ==
  /\ reqPc = "write"
  /\ Send(<<RequestsEnded>>)
  /\ Return("err")
  /\ UNCHANGED <<reqOn, fed, written, done, envVars, respVars, queued>>

\* Mutant: the write is awaited without watching the completion signal.
ReqStopped_Unwatched == FALSE

\* write_or_stopped: the completion signal came first.  The receiver is now
\* polled to completion; the callers go on as after a finished write.
ReqStopped ==
  /\ reqPc = "write" /\ done = "ready"
  /\ done' = "consumed"
  /\ AfterWrite
  /\ UNCHANGED <<reqOn, fed, written, chan, txOpen, envVars, respVars, queued>>

\* select! picked the completion signal.
ReqDone ==
  /\ reqPc = "select" /\ done = "ready"
  /\ done' = "consumed"
  /\ Return("ok")
  /\ UNCHANGED <<reqOn, fed, written, chan, envVars, respVars, queued>>

\* Polling a oneshot receiver that already completed panics.
ReqRepoll ==
  /\ reqPc \in {"select", "write"} /\ done = "consumed"
  /\ reqPc' = "panic"
  /\ UNCHANGED <<reqOn, fed, written, chan, txOpen, done, envVars, respVars, queued>>

\* pump_first flushes after its write; a failure unwinds with no message.
ReqFlush ==
  /\ reqPc = "flush"
  /\ \/ reqPc' = "select" /\ reqOn' = "chunk" /\ UNCHANGED txOpen
     \/ Return("err") /\ UNCHANGED reqOn
  /\ UNCHANGED <<fed, written, chan, done, envVars, respVars, queued>>

\* After the FIN: shut the upstream's write side, ignoring a failure.
ReqShutdown ==
  /\ reqPc = "shutdown"
  /\ Return("ok")
  /\ UNCHANGED <<reqOn, fed, written, chan, done, envVars, respVars, queued>>

-----------------------------------------------------------------------------
(* The upstream, as the proxy sees it.                                     *)

FinSent == \E i \in DOMAIN upQ : upQ[i].fin

\* The upstream sends data whenever it likes, then perhaps its FIN.
UpstreamSends ==
  /\ ~FinSent /\ ~cur.fin
  /\ \/ sent < MaxSends /\ upQ' = Append(upQ, Data(written)) /\ sent' = sent + 1
     \/ upQ' = Append(upQ, Fin) /\ UNCHANGED sent
  /\ UNCHANGED <<reqVars, chan, txOpen, done, respVars, queued>>

-----------------------------------------------------------------------------
(* The response pump.                                                      *)

\* The response pump can take its step from here.
At(pcs) == respPc \in pcs /\ Alive

\* break: responses_done.send(()), then the final flush and shutdown if the
\* loop ended with Ok, a plain return otherwise.
Break(why, pc) ==
  /\ endedBy' = why
  /\ respPc' = pc
  /\ done' = "ready"

\* `?`: the pump returns at once.  Dropping the oneshot's sender completes
\* the receiver just the same.
Unwind == Break("error", "err")

\* Mutant: the terminal intent overtakes what was queued before it, as with a
\* channel of its own that select! prefers.
Apply_Overtaking(awaiting) ==
  LET msg == Head(chan) IN
  /\ chan # <<>>
  /\ \/ /\ \E i \in DOMAIN chan : chan[i] = RequestsEnded
        /\ chan' = <<>>
        /\ Break("requests", "finish")
        /\ UNCHANGED applied
     \/ /\ msg.kind = "note"
        /\ chan' = Tail(chan)
        /\ applied' = applied \cup {msg}
        /\ UNCHANGED <<respPc, done, endedBy>>
     \/ /\ msg.kind = "reply"
        /\ respPc' = awaiting
        /\ UNCHANGED <<chan, applied, done, endedBy>>

\* Mutant: the terminal intent falls through to apply_message, which ignores it.
Apply_Ignoring(awaiting) ==
  LET msg == Head(chan) IN
  /\ chan # <<>>
  /\ \/ /\ msg.kind # "reply"
        /\ chan' = Tail(chan)
        /\ applied' = applied \cup {msg}
        /\ UNCHANGED <<respPc, done, endedBy>>
     \/ /\ msg.kind = "reply"
        /\ respPc' = awaiting
        /\ UNCHANGED <<chan, applied, done, endedBy>>

\* Carry out the message at the head of the channel.  A reply is written to
\* the guest and flushed (await); a framing fact is applied in place; the
\* terminal intent ends the loop.
Apply(awaiting) ==
  LET msg == Head(chan) IN
  /\ chan # <<>>
  /\ \/ /\ msg.kind = "ended"
        /\ chan' = Tail(chan)
        /\ Break("requests", "finish")
        /\ UNCHANGED applied
     \/ /\ msg.kind = "note"
        /\ chan' = Tail(chan)
        /\ applied' = applied \cup {msg}
        /\ UNCHANGED <<respPc, done, endedBy>>
     \/ /\ msg.kind = "reply"
        /\ respPc' = awaiting
        /\ UNCHANGED <<chan, applied, done, endedBy>>

\* select! picked requests.recv().
RespRecv ==
  /\ At({"select"}) /\ open
  /\ Apply("reply")
  /\ UNCHANGED <<reqVars, txOpen, envVars, open, cur, fedTag, queued>>

\* recv() returned None: the sender is gone and the channel is empty.
RespClosed ==
  /\ At({"select"}) /\ open
  /\ chan = <<>> /\ ~txOpen
  /\ open' = FALSE
  /\ UNCHANGED <<reqVars, chan, txOpen, done, envVars, respPc, cur, applied,
                 fedTag, endedBy, queued>>

\* The reply at the head of the channel went out, or its write failed.  (The
\* code takes it off the channel before writing; nobody can tell.)
RespReply ==
  /\ At({"reply", "drainReply"})
  /\ \/ /\ applied' = applied \cup {Head(chan)}
        /\ respPc' = IF respPc = "reply" THEN "select" ELSE "drain"
        /\ UNCHANGED <<done, endedBy>>
     \/ Unwind /\ UNCHANGED applied
  /\ chan' = Tail(chan)
  /\ UNCHANGED <<reqVars, txOpen, envVars, open, cur, fedTag, queued>>

\* select! picked the upstream read: data or the FIN.
RespRead ==
  /\ At({"select"}) /\ upQ # <<>>
  /\ cur' = Head(upQ) /\ upQ' = Tail(upQ)
  /\ respPc' = "drain"
  /\ UNCHANGED <<reqVars, chan, txOpen, done, sent, open, applied, fedTag,
                 endedBy, queued>>

\* The upstream read failed.
RespReadErr ==
  /\ At({"select"})
  /\ Unwind
  /\ UNCHANGED <<reqVars, chan, txOpen, envVars, open, cur, applied, fedTag, queued>>

\* drain_requests, one message of its loop.
RespDrain ==
  /\ At({"drain"})
  /\ Apply("drainReply")
  /\ UNCHANGED <<reqVars, txOpen, envVars, open, cur, fedTag, queued>>

\* Mutant: upstream data is handled without draining the channel first.
RespFeed_NoDrain ==
  /\ At({"drain"})
  /\ respPc' = "feed"
  /\ fedTag' = IF cur.tag > fedTag THEN cur.tag ELSE fedTag
  /\ UNCHANGED <<reqVars, chan, txOpen, done, envVars, open, cur, applied,
                 endedBy, queued>>

\* Mutant: only the FIN skips the drain.
RespFeed_NoDrainAtFin ==
  /\ At({"drain"}) /\ (chan = <<>> \/ cur.fin)
  /\ respPc' = "feed"
  /\ fedTag' = IF cur.tag > fedTag THEN cur.tag ELSE fedTag
  /\ UNCHANGED <<reqVars, chan, txOpen, done, envVars, open, cur, applied,
                 endedBy, queued>>

\* try_recv found nothing: the chunk goes to the upstream machine.
RespFeed ==
  /\ At({"drain"}) /\ chan = <<>>
  /\ respPc' = "feed"
  /\ fedTag' = IF cur.tag > fedTag THEN cur.tag ELSE fedTag
  /\ UNCHANGED <<reqVars, chan, txOpen, done, envVars, open, cur, applied,
                 endedBy, queued>>

\* Mutant: a Hold at the FIN goes back to the loop, as for data.
RespFed_HoldAtFin ==
  /\ At({"feed"})
  /\ \/ respPc' = "write" /\ UNCHANGED <<done, endedBy>>
     \/ Break("close", "finish")
     \/ respPc' = "select" /\ UNCHANGED <<done, endedBy>>
  /\ UNCHANGED <<reqVars, chan, txOpen, envVars, open, cur, applied, fedTag, queued>>

\* upstream.feed returned.  At the FIN, Close and Hold end the loop alike.
RespFed ==
  /\ At({"feed"})
  /\ \/ respPc' = "write" /\ UNCHANGED <<done, endedBy>>               \* Emit
     \/ cur.fin /\ Break("fin", "finish")                              \* Close, Hold
     \/ ~cur.fin /\ Break("close", "finish")                           \* Close
     \/ ~cur.fin /\ respPc' = "select" /\ UNCHANGED <<done, endedBy>>  \* Hold
  /\ UNCHANGED <<reqVars, chan, txOpen, envVars, open, cur, applied, fedTag, queued>>

\* guest.write_all and flush: completed, or failed.
RespWrite ==
  /\ At({"write"})
  /\ \/ cur.fin /\ Break("fin", "finish")
     \/ ~cur.fin /\ respPc' = "select" /\ UNCHANGED <<done, endedBy>>
     \/ Unwind
  /\ UNCHANGED <<reqVars, chan, txOpen, envVars, open, cur, applied, fedTag, queued>>

\* The final flush may fail; a failed shutdown is ignored.
RespFinish ==
  /\ At({"finish"})
  /\ respPc' \in {"ok", "err"}
  /\ UNCHANGED <<reqVars, chan, txOpen, done, envVars, open, cur, applied,
                 fedTag, endedBy, queued>>

-----------------------------------------------------------------------------

\* Both pumps are over, or the task is.
Finished == (ReqEnded /\ RespEnded) \/ ~Alive

Terminated == Finished /\ UNCHANGED vars

Requests  == ReqRead \/ ReqReadErr \/ ReqFed \/ ReqWritten \/ ReqWriteErr
             \/ ReqStopped \/ ReqDone \/ ReqRepoll \/ ReqFlush \/ ReqShutdown
Responses == RespRecv \/ RespClosed \/ RespReply \/ RespRead \/ RespDrain
             \/ RespFeed \/ RespFed \/ RespWrite \/ RespFinish

Next == Requests \/ Responses \/ RespReadErr \/ UpstreamSends \/ Terminated

Spec == Init /\ [][Next]_vars

\* The runtime polls a pump that can go on.  Nothing makes the guest send, the
\* upstream take the bytes of a write, or a read of either fail; the guest
\* takes its bytes, and a flush, a shutdown and a feed return.
Fairness ==
  /\ WF_vars(ReqFed \/ ReqStopped \/ ReqDone \/ ReqRepoll \/ ReqFlush \/ ReqShutdown)
  /\ WF_vars(Responses)

FairSpec == Spec /\ Fairness

-----------------------------------------------------------------------------
(* Properties.                                                             *)

\* Every protocol reply and framing fact of request chunk k has been carried
\* out before any upstream bytes that may answer chunk k are given to the
\* upstream machine, however the two pumps interleave: a HEAD is known before
\* its response is framed, a negotiation reply precedes the server's answer.
FactsBeforeAnswers == \A m \in queued : m.id <= fedTag => m \in applied

\* When the response pump ends because the request direction said so, every
\* reply and framing fact queued before that has been carried out.
TerminalHonoredInOrder == endedBy = "requests" => queued \subseteq applied

\* The strengthening of FactsBeforeAnswers and TerminalHonoredInOrder that is
\* preserved by every step.
InChan(m) == \E i \in DOMAIN chan : chan[i] = m

Looping == respPc \notin {"finish", "ok", "err"}

RelayInv ==
  /\ written <= fed /\ fedTag <= written /\ cur.tag <= written
  /\ \A i \in DOMAIN upQ : upQ[i].tag <= written
  /\ \A m \in queued : m.id \in 1..fed /\ m.kind # "ended"
  \* nothing queued is lost while the response pump loops
  /\ Looping => endedBy = "none" /\ \A m \in queued : m \in applied \/ InChan(m)
  /\ respPc \in {"reply", "drainReply"} => chan # <<>>
  \* the terminal intent is the last message ever sent
  /\ \A i \in DOMAIN chan : chan[i].kind = "ended" => i = Len(chan) /\ ReqEnded
  /\ endedBy = "requests" => ReqEnded
  /\ FactsBeforeAnswers
  /\ TerminalHonoredInOrder

\* The relay implements Handover: through its channel, the drain before each
\* feed and every way either pump can end, the response side learns only what
\* it was told, answers only with all of that carried out, and honours the
\* request side's end last.
H == INSTANCE Handover
       WITH told <- queued, known <- applied, asked <- fed, answered <- fedTag, ended <- endedBy
ImplementsHandover == H!Spec

\* At the moment upstream data or the upstream's FIN is handed to the upstream
\* machine nothing is left on the channel: all that was queued is carried out,
\* and the request direction has not announced the relay's end.
DrainedBeforeFeed ==
  [][respPc # "feed" /\ respPc' = "feed" => queued \subseteq applied /\ endedBy = "none"
                                           /\ chan = <<>>]_vars

\* The relay ends, whatever the guest does, once its response direction is over
\* (even with a write pending that the upstream never takes), once the request
\* direction has announced its end, and once the upstream has sent its FIN.
RelayEnds == (RespEnded \/ InChan(RequestsEnded) \/ FinSent) ~> Finished

\* The request pump never polls the completion signal again after it fired
\* ("write that abandons the direction when the response direction ended").
NeverRepolled == Alive

\* A request pump that unwinds with an error has told the response pump so,
\* unless that one had already left its loop ("the response pump must learn the
\* relay ended even when the request pump unwinds early").  The flush that
\* follows the replayed first bytes is the one exit that tells nobody.
EarlyUnwindAnnounced ==
  (reqPc = "err" /\ reqOn # "first") => endedBy # "none" \/ InChan(RequestsEnded)
=============================================================================
