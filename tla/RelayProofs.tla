---------------------------- MODULE RelayProofs ----------------------------
(***************************************************************************)
(* Proofs about Relay, for any number of chunks in either direction.       *)
(***************************************************************************)
EXTENDS Relay, TLAPS

\* The elements of a concatenation.
LEMMA ConcatElements ==
  ASSUME NEW S, NEW s \in Seq(S), NEW t \in Seq(S)
  PROVE  /\ s \o t \in Seq(S)
         /\ Len(s \o t) = Len(s) + Len(t)
         /\ \A i \in DOMAIN s : i \in DOMAIN (s \o t) /\ (s \o t)[i] = s[i]
         /\ \A i \in DOMAIN t : Len(s) + i \in DOMAIN (s \o t) /\ (s \o t)[Len(s) + i] = t[i]
         /\ \A i \in DOMAIN (s \o t) : \/ i \in DOMAIN s /\ (s \o t)[i] = s[i]
                                       \/ i - Len(s) \in DOMAIN t /\ (s \o t)[i] = t[i - Len(s)]
  OBVIOUS

\* What hand_over queues for a chunk: messages of that chunk, none terminal.
LEMMA HandOverType ==
  ASSUME NEW k \in Nat, NEW msgs \in HandOver(k)
  PROVE  /\ msgs \in Seq(ToResponse)
         /\ \A i \in DOMAIN msgs : msgs[i].id = k /\ msgs[i].kind # "ended"
<1>1. PICK a \in {<<>>, <<Reply(k)>>}, b \in {<<>>, <<PeerNote(k)>>} : msgs = a \o b
  BY DEF HandOver
<1>2. Reply(k) \in ToResponse /\ PeerNote(k) \in ToResponse
  BY DEF Reply, PeerNote, ToResponse
<1>3. /\ a \in Seq(ToResponse)
      /\ \A i \in DOMAIN a : a[i].id = k /\ a[i].kind # "ended"
  <2>1. CASE a = <<>>
    BY <2>1
  <2>2. CASE a = <<Reply(k)>>
    BY <1>2, <2>2 DEF Reply
  <2>3. QED
    BY <2>1, <2>2
<1>4. /\ b \in Seq(ToResponse)
      /\ \A i \in DOMAIN b : b[i].id = k /\ b[i].kind # "ended"
  <2>1. CASE b = <<>>
    BY <2>1
  <2>2. CASE b = <<PeerNote(k)>>
    BY <1>2, <2>2 DEF PeerNote
  <2>3. QED
    BY <2>1, <2>2
<1>5. QED
  BY <1>1, <1>3, <1>4, ConcatElements

\* The elements of a non-empty sequence: its head, and those of its tail.
LEMMA TailElements ==
  ASSUME NEW S, NEW s \in Seq(S), s # <<>>
  PROVE  /\ Head(s) \in S /\ Head(s) = s[1] /\ 1 \in DOMAIN s
         /\ Tail(s) \in Seq(S) /\ Len(Tail(s)) = Len(s) - 1
         /\ \A i \in DOMAIN Tail(s) : i + 1 \in DOMAIN s /\ Tail(s)[i] = s[i + 1]
         /\ \A i \in DOMAIN s : i = 1 \/ (i - 1 \in DOMAIN Tail(s) /\ Tail(s)[i - 1] = s[i])
  OBVIOUS

\* Sending keeps the channel a sequence of messages.
LEMMA SendType ==
  ASSUME TypeOK, NEW msgs \in Seq(ToResponse), Send(msgs)
  PROVE  chan' \in Seq(ToResponse)
  BY ConcatElements DEF Send, TypeOK

\* The terminal message is a message.
LEMMA EndedType == RequestsEnded \in ToResponse /\ <<RequestsEnded>> \in Seq(ToResponse)
  BY DEF RequestsEnded, ToResponse

-----------------------------------------------------------------------------
(* Type correctness.                                                       *)

\* relay_guarded starts with its types.
LEMMA InitType == Init => TypeOK
  BY DEF Init, TypeOK, Data, Chunk

\* Every step of the request pump keeps the types.
LEMMA RequestsType ==
  ASSUME TypeOK, Requests
  PROVE  TypeOK'
<1> USE DEF TypeOK, reqVars, respVars, envVars, Return
<1>1. CASE ReqRead
  BY <1>1 DEF ReqRead
<1>2. CASE ReqReadErr
  BY <1>2, SendType, EndedType DEF ReqReadErr
<1>3. CASE ReqFed
  <2>1. PICK msgs \in HandOver(fed + 1) :
          /\ queued' = queued \cup {msgs[i] : i \in DOMAIN msgs}
          /\ Send(msgs) \/ Send(msgs \o <<RequestsEnded>>)
          /\ written' \in {written, fed + 1}
          /\ txOpen' \in BOOLEAN
          /\ reqPc' \in {"ok", "shutdown", "select", "write"}
    BY <1>3 DEF ReqFed
  <2>2. msgs \in Seq(ToResponse)
    BY HandOverType
  <2>3. msgs \o <<RequestsEnded>> \in Seq(ToResponse)
    BY <2>2, EndedType, ConcatElements
  <2>4. chan' \in Seq(ToResponse)
    BY <2>1, <2>2, <2>3, SendType
  <2>5. queued' \subseteq ToResponse
    BY <2>1, <2>2
  <2>6. QED
    BY <1>3, <2>1, <2>4, <2>5 DEF ReqFed
<1>4. CASE ReqWritten
  BY <1>4 DEF ReqWritten, AfterWrite
<1>5. CASE ReqWriteErr
  BY <1>5, SendType, EndedType DEF ReqWriteErr
<1>6. CASE ReqStopped
  BY <1>6 DEF ReqStopped, AfterWrite
<1>7. CASE ReqDone
  BY <1>7 DEF ReqDone
<1>8. CASE ReqRepoll
  BY <1>8 DEF ReqRepoll
<1>9. CASE ReqFlush
  BY <1>9 DEF ReqFlush
<1>10. CASE ReqShutdown
  BY <1>10 DEF ReqShutdown
<1>11. QED
  BY <1>1, <1>2, <1>3, <1>4, <1>5, <1>6, <1>7, <1>8, <1>9, <1>10 DEF Requests

\* Carrying out the message at the head of the channel keeps the types of
\* what it changes.
LEMMA ApplyType ==
  ASSUME TypeOK, NEW awaiting \in {"reply", "drainReply"}, Apply(awaiting)
  PROVE  /\ chan' \in Seq(ToResponse)
         /\ applied' \subseteq ToResponse
         /\ respPc' \in {respPc, awaiting, "finish"}
         /\ done' \in {done, "ready"}
         /\ endedBy' \in {endedBy, "requests"}
<1>1. Head(chan) \in ToResponse /\ Tail(chan) \in Seq(ToResponse)
  BY TailElements DEF Apply, TypeOK
<1>2. CASE Head(chan).kind = "ended"
  BY <1>1, <1>2 DEF Apply, Break, TypeOK
<1>3. CASE Head(chan).kind # "ended"
  BY <1>1, <1>3 DEF Apply, Break, TypeOK
<1>4. QED
  BY <1>2, <1>3

\* Every step of the response pump keeps the types.
LEMMA ResponsesType ==
  ASSUME TypeOK, RelayInv, Responses \/ RespReadErr
  PROVE  TypeOK'
<1> USE DEF reqVars, respVars, envVars
<1>1. CASE RespRecv
  BY <1>1, ApplyType DEF RespRecv, TypeOK
<1>2. CASE RespClosed
  BY <1>2, ZenonT(30) DEF RespClosed, TypeOK
<1>3. CASE RespReply
  <2>1. Head(chan) \in ToResponse /\ Tail(chan) \in Seq(ToResponse)
    BY <1>3, TailElements DEF RespReply, At, RelayInv, TypeOK
  <2>2. QED
    BY <1>3, <2>1 DEF RespReply, Unwind, Break, TypeOK
<1>4. CASE RespRead
  <2>1. Head(upQ) \in Chunk /\ Tail(upQ) \in Seq(Chunk)
    BY <1>4, TailElements DEF RespRead, TypeOK
  <2>2. QED
    BY <1>4, <2>1 DEF RespRead, TypeOK
<1>5. CASE RespReadErr
  BY <1>5 DEF RespReadErr, Unwind, Break, TypeOK
<1>6. CASE RespDrain
  BY <1>6, ApplyType DEF RespDrain, TypeOK
<1>7. CASE RespFeed
  BY <1>7 DEF RespFeed, TypeOK, Chunk
<1>8. CASE RespFed
  BY <1>8 DEF RespFed, Break, TypeOK
<1>9. CASE RespWrite
  BY <1>9 DEF RespWrite, Unwind, Break, TypeOK
<1>10. CASE RespFinish
  BY <1>10 DEF RespFinish, TypeOK
<1>11. QED
  BY <1>1, <1>2, <1>3, <1>4, <1>5, <1>6, <1>7, <1>8, <1>9, <1>10 DEF Responses

\* What the upstream sends keeps the types.
LEMMA UpstreamType ==
  ASSUME TypeOK, UpstreamSends
  PROVE  TypeOK'
<1>1. Data(written) \in Chunk /\ Fin \in Chunk
  BY DEF TypeOK, Data, Fin, Chunk
<1>2. upQ' \in Seq(Chunk)
  <2>1. upQ' = Append(upQ, Data(written)) \/ upQ' = Append(upQ, Fin)
    BY DEF UpstreamSends
  <2>2. QED
    BY ONLY <1>1, <2>1, upQ \in Seq(Chunk), TypeOK, SMTT(30) DEF TypeOK
<1>3. QED
  BY <1>2 DEF UpstreamSends, TypeOK, reqVars, respVars

-----------------------------------------------------------------------------
(* The inductive invariant.                                                *)

\* relay_guarded starts with nothing queued and nothing fed.
LEMMA InitInv == Init => RelayInv
  BY DEF Init, RelayInv, Data, InChan, Looping, FactsBeforeAnswers, TerminalHonoredInOrder,
         TypeOK

\* A request pump step that queues nothing and starts no write.
LEMMA QuietRequestInv ==
  ASSUME TypeOK, RelayInv, UNCHANGED <<fed, written, chan, envVars, respVars, queued>>,
         ReqEnded => ReqEnded'
  PROVE  RelayInv'
  BY DEF RelayInv, InChan, Looping, FactsBeforeAnswers, TerminalHonoredInOrder, envVars,
         respVars, TypeOK

\* A request pump step that sends msgs, records them, and if its last message
\* is the terminal one, returns.
LEMMA SendInv ==
  ASSUME TypeOK, RelayInv, ~ReqEnded,
         NEW msgs \in Seq(ToResponse),
         Send(msgs),
         fed' \in Nat, written' \in Nat,
         fed <= fed', written <= written', written' <= fed',
         UNCHANGED <<envVars, respVars>>,
         queued \subseteq queued',
         \A m \in queued' \ queued : /\ m.id = fed' /\ fed' > fed /\ m.kind # "ended"
                                     /\ \E i \in DOMAIN msgs : msgs[i] = m,
         \A i \in DOMAIN msgs : msgs[i].kind = "ended" => i = Len(msgs) /\ ReqEnded'
  PROVE  RelayInv'
<1> USE DEF envVars, respVars
<1>1. /\ written' <= fed' /\ fedTag' <= written' /\ cur'.tag <= written'
      /\ \A i \in DOMAIN upQ' : upQ'[i].tag <= written'
  <2>1. cur \in Chunk /\ cur.tag \in Nat /\ cur.tag <= written /\ fedTag <= written /\ fedTag \in Nat /\ written \in Nat
    BY DEF RelayInv, TypeOK, Chunk
  <2>2. ASSUME NEW i \in DOMAIN upQ PROVE upQ[i].tag \in Nat /\ upQ[i].tag <= written
    <3>1. upQ[i] \in Chunk
      BY DEF TypeOK
    <3>2. QED
      BY <3>1 DEF Chunk, RelayInv
  <2>3. QED
    BY <2>1, <2>2
<1>2. \A m \in queued' : m.id \in 1..fed' /\ m.kind # "ended"
  BY DEF RelayInv, TypeOK, ToResponse
<1>3. Looping' => endedBy' = "none" /\ \A m \in queued' : m \in applied' \/ InChan(m)'
  <2> SUFFICES ASSUME Looping' PROVE endedBy' = "none" /\ \A m \in queued' : m \in applied' \/ InChan(m)'
    OBVIOUS
  <2>1. chan' = chan \o msgs /\ Looping
    BY DEF Looping, Send, RespEnded
  <2>2. \A m : InChan(m) => InChan(m)'
    BY <2>1, ConcatElements DEF InChan, TypeOK
  <2>3. ASSUME NEW m \in queued' \ queued PROVE InChan(m)'
    <3>1. PICK i \in DOMAIN msgs : msgs[i] = m
      OBVIOUS
    <3>2. Len(chan) + i \in DOMAIN (chan \o msgs) /\ (chan \o msgs)[Len(chan) + i] = m
      BY <3>1, ConcatElements DEF TypeOK
    <3>3. QED
      BY <2>1, <3>2 DEF InChan
  <2>4. QED
    BY <2>1, <2>2, <2>3 DEF RelayInv
<1>4. respPc' \in {"reply", "drainReply"} => chan' # <<>>
  <2>1. respPc \in {"reply", "drainReply"} => chan # <<>> /\ chan' = chan \o msgs
    BY DEF RelayInv, Send, RespEnded
  <2>2. QED
    BY <2>1, ConcatElements DEF TypeOK
<1>5. \A i \in DOMAIN chan' : chan'[i].kind = "ended" => i = Len(chan') /\ ReqEnded'
  <2>1. CASE RespEnded
    BY <2>1 DEF Send, RelayInv
  <2>2. CASE ~RespEnded
    <3>1. chan' = chan \o msgs
      BY <2>2 DEF Send
    <3>2. \A i \in DOMAIN chan : chan[i].kind # "ended"
      BY DEF RelayInv
    <3>3. QED
      BY <3>1, <3>2, ConcatElements DEF TypeOK
  <2>3. QED
    BY <2>1, <2>2
<1>6. endedBy' = "requests" => ReqEnded'
  BY DEF RelayInv
<1>7. FactsBeforeAnswers'
  BY DEF RelayInv, FactsBeforeAnswers, TypeOK
<1>8. TerminalHonoredInOrder'
  BY DEF RelayInv, TerminalHonoredInOrder
<1>9. QED
  BY <1>1, <1>2, <1>3, <1>4, <1>5, <1>6, <1>7, <1>8 DEF RelayInv

\* Every step of the request pump preserves the invariant.
LEMMA RequestsInv ==
  ASSUME TypeOK, RelayInv, Requests
  PROVE  RelayInv'
<1>1. ASSUME ~ReqEnded, Send(<<RequestsEnded>>), ReqEnded', UNCHANGED <<fed, written, envVars, respVars, queued>>
      PROVE  RelayInv'
  <2>1. fed' \in Nat /\ written' \in Nat /\ fed <= fed' /\ written <= written' /\ written' <= fed'
    BY <1>1 DEF TypeOK, RelayInv
  <2>2. /\ \A i \in DOMAIN <<RequestsEnded>> : i = Len(<<RequestsEnded>>)
        /\ queued \subseteq queued' /\ queued' \ queued = {}
    BY <1>1
  <2>3. QED
    BY <1>1, <2>1, <2>2, SendInv, EndedType
<1>2. ASSUME reqPc \notin {"ok", "err"}, UNCHANGED <<fed, written, chan, envVars, respVars, queued>>
      PROVE  RelayInv'
  BY <1>2, QuietRequestInv DEF ReqEnded
<1>3. CASE ReqRead
  BY <1>2, <1>3 DEF ReqRead
<1>4. CASE ReqReadErr
  BY <1>1, <1>4 DEF ReqReadErr, ReqEnded, Return
<1>5. CASE ReqFed
  <2>1. PICK msgs \in HandOver(fed + 1) :
          /\ queued' = queued \cup {msgs[i] : i \in DOMAIN msgs}
          /\ Send(msgs) \/ (Send(msgs \o <<RequestsEnded>>) /\ reqPc' = "ok")
          /\ written' \in {written, fed + 1}
    BY <1>5 DEF ReqFed, Return
  <2>2. fed + 1 \in Nat /\ fed \in Nat /\ written \in Nat /\ written <= fed
    BY DEF TypeOK, RelayInv
  <2>3. /\ msgs \in Seq(ToResponse)
        /\ \A i \in DOMAIN msgs : msgs[i].id = fed + 1 /\ msgs[i].kind # "ended"
    BY <2>2, HandOverType
  <2>5. /\ fed' = fed + 1 /\ fed' \in Nat /\ written' \in Nat /\ fed <= fed' /\ written <= written'
        /\ written' <= fed' /\ fed' > fed
        /\ ~ReqEnded
        /\ UNCHANGED <<envVars, respVars>>
    BY <1>5, <2>1, <2>2 DEF ReqFed, ReqEnded
  <2>6. CASE Send(msgs)
    <3>1. \A m \in queued' \ queued : \E i \in DOMAIN msgs : msgs[i] = m
      BY <2>1
    <3>2. QED
      BY <2>1, <2>3, <2>5, <2>6, <3>1, SendInv
  <2>7. CASE Send(msgs \o <<RequestsEnded>>) /\ reqPc' = "ok"
    <3> DEFINE all == msgs \o <<RequestsEnded>>
    <3>1. /\ all \in Seq(ToResponse)
          /\ \A i \in DOMAIN msgs : i \in DOMAIN all /\ all[i] = msgs[i]
          /\ \A i \in DOMAIN all : (i \in DOMAIN msgs /\ all[i] = msgs[i]) \/ i = Len(all)
      <4>1. /\ <<RequestsEnded>> \in Seq(ToResponse)
            /\ DOMAIN <<RequestsEnded>> = {1} /\ Len(<<RequestsEnded>>) = 1
        BY EndedType
      <4>2. /\ msgs \o <<RequestsEnded>> \in Seq(ToResponse)
            /\ Len(msgs \o <<RequestsEnded>>) = Len(msgs) + 1
            /\ \A i \in DOMAIN msgs : /\ i \in DOMAIN (msgs \o <<RequestsEnded>>)
                                      /\ (msgs \o <<RequestsEnded>>)[i] = msgs[i]
        BY <2>3, <4>1, ConcatElements
      <4>3. DOMAIN all = 1..(Len(msgs) + 1) /\ DOMAIN msgs = 1..Len(msgs) /\ Len(msgs) \in Nat
        BY <2>3, <4>2
      <4>4. QED
        BY <4>2, <4>3
    <3>2. Send(all)
      BY <2>7
    <3> HIDE DEF all
    <3>3. \A m \in queued' \ queued : /\ m.id = fed' /\ fed' > fed /\ m.kind # "ended"
                                      /\ \E i \in DOMAIN all : all[i] = m
      BY <2>1, <2>3, <2>5, <3>1
    <3>4. \A i \in DOMAIN all : all[i].kind = "ended" => i = Len(all) /\ ReqEnded'
      BY <2>3, <2>7, <3>1 DEF ReqEnded
    <3>5. queued \subseteq queued'
      BY <2>1
    <3>6. QED
      BY <2>5, <3>1, <3>2, <3>3, <3>4, <3>5, SendInv
  <2>8. QED
    BY <2>1, <2>6, <2>7
<1>6. CASE ReqWritten
  BY <1>2, <1>6 DEF ReqWritten
<1>7. CASE ReqWriteErr
  BY <1>1, <1>7 DEF ReqWriteErr, ReqEnded, Return
<1>8. CASE ReqStopped
  BY <1>2, <1>8 DEF ReqStopped
<1>9. CASE ReqDone
  BY <1>2, <1>9 DEF ReqDone
<1>10. CASE ReqRepoll
  BY <1>2, <1>10 DEF ReqRepoll
<1>11. CASE ReqFlush
  BY <1>2, <1>11 DEF ReqFlush
<1>12. CASE ReqShutdown
  BY <1>2, <1>12 DEF ReqShutdown
<1>13. QED
  BY <1>3, <1>4, <1>5, <1>6, <1>7, <1>8, <1>9, <1>10, <1>11, <1>12 DEF Requests

\* Taking a message off the channel, carried out or terminal.
LEMMA ApplyInv ==
  ASSUME TypeOK, RelayInv, NEW awaiting \in {"reply", "drainReply"}, Looping, Apply(awaiting),
         respPc \notin {"reply", "drainReply"},
         UNCHANGED <<reqVars, envVars, cur, fedTag, queued>>
  PROVE  RelayInv'
<1> USE DEF reqVars, envVars
<1>1. chan # <<>> /\ chan \in Seq(ToResponse)
  BY DEF Apply, TypeOK
<1>2. /\ written' <= fed' /\ fedTag' <= written' /\ cur'.tag <= written'
      /\ \A i \in DOMAIN upQ' : upQ'[i].tag <= written'
      /\ \A m \in queued' : m.id \in 1..fed' /\ m.kind # "ended"
  BY DEF RelayInv
<1>3. CASE Head(chan).kind = "ended"
  <2>1. /\ chan' = Tail(chan) /\ respPc' = "finish" /\ endedBy' = "requests" /\ applied' = applied
    BY <1>3 DEF Apply, Break
  <2>2. Len(chan) = 1 /\ ReqEnded /\ chan' = <<>>
    <3>1. Head(chan) = chan[1] /\ 1 \in DOMAIN chan
      BY <1>1, TailElements
    <3>2. 1 = Len(chan) /\ ReqEnded
      BY <1>3, <3>1 DEF RelayInv
    <3>3. Tail(chan) \in Seq(ToResponse) /\ Len(Tail(chan)) = 0
      BY <1>1, <3>2, TailElements
    <3>4. QED
      BY <2>1, <3>2, <3>3
  <2>3. queued \subseteq applied
    <3>1. \A m \in queued : m \in applied \/ m = Head(chan)
      BY <1>1, <2>2, TailElements DEF RelayInv, InChan
    <3>2. QED
      BY <1>3, <3>1 DEF RelayInv
  <2>4. QED
    BY <1>2, <2>1, <2>2, <2>3 DEF RelayInv, Looping, ReqEnded, FactsBeforeAnswers, TerminalHonoredInOrder
<1>4. CASE Head(chan).kind = "note"
  <2>1. /\ chan' = Tail(chan) /\ applied' = applied \cup {Head(chan)}
        /\ UNCHANGED <<respPc, endedBy>>
    BY <1>4 DEF Apply
  <2>2. \A m : InChan(m) => m = Head(chan) \/ InChan(m)'
    BY <1>1, <2>1, TailElements DEF InChan
  <2>3. \A i \in DOMAIN chan' : chan'[i].kind = "ended" => i = Len(chan') /\ ReqEnded'
    BY <1>1, <2>1, TailElements DEF RelayInv, ReqEnded
  <2>4. QED
    BY <1>2, <2>1, <2>2, <2>3 DEF RelayInv, Looping, ReqEnded, FactsBeforeAnswers, TerminalHonoredInOrder
<1>5. CASE Head(chan).kind = "reply"
  BY <1>1, <1>2, <1>5 DEF Apply, RelayInv, Looping, InChan, ReqEnded, FactsBeforeAnswers, TerminalHonoredInOrder
<1>6. QED
  BY <1>3, <1>4, <1>5 DEF Apply

\* A response pump step that touches neither the channel nor what it carried
\* out, and leaves its loop, if it does, for another reason than a message.
LEMMA QuietResponseInv ==
  ASSUME TypeOK, RelayInv,
         UNCHANGED <<reqVars, chan, applied, fedTag, queued>>,
         cur'.tag <= written, \A i \in DOMAIN upQ' : upQ'[i].tag <= written,
         respPc' \notin {"reply", "drainReply"},
         Looping' => Looping /\ endedBy' = endedBy,
         endedBy' = "requests" => endedBy = "requests"
  PROVE  RelayInv'
  BY DEF RelayInv, InChan, Looping, ReqEnded, FactsBeforeAnswers, TerminalHonoredInOrder, reqVars

\* Every step of the response pump preserves the invariant.
LEMMA ResponsesInv ==
  ASSUME TypeOK, RelayInv, Responses \/ RespReadErr
  PROVE  RelayInv'
<1>0. cur.tag <= written /\ \A i \in DOMAIN upQ : upQ[i].tag <= written
  BY DEF RelayInv
<1>1. CASE RespRecv
  BY <1>1, ApplyInv DEF RespRecv, At, Looping
<1>2. CASE RespClosed
  BY <1>0, <1>2, QuietResponseInv DEF RespClosed, At, Looping, envVars
<1>3. CASE RespReply
  <2>1. chan # <<>> /\ chan \in Seq(ToResponse) /\ Looping
    BY <1>3 DEF RespReply, At, RelayInv, TypeOK, Looping
  <2>2. \A m : InChan(m) => m = Head(chan) \/ InChan(m)'
    BY <1>3, <2>1, TailElements DEF InChan, RespReply
  <2>3. \A i \in DOMAIN chan' : chan'[i].kind = "ended" => i = Len(chan') /\ ReqEnded'
    BY <1>3, <2>1, TailElements DEF RespReply, RelayInv, ReqEnded, reqVars
  <2>4. QED
    BY <1>3, <2>1, <2>2, <2>3 DEF RespReply, At, Unwind, Break, RelayInv, Looping, ReqEnded, reqVars, envVars,
       FactsBeforeAnswers, TerminalHonoredInOrder
<1>4. CASE RespRead
  <2>1. /\ upQ # <<>> /\ upQ \in Seq(Chunk)
        /\ cur' = Head(upQ) /\ upQ' = Tail(upQ)
    BY <1>4 DEF RespRead, TypeOK
  <2>2. cur'.tag <= written /\ \A i \in DOMAIN upQ' : upQ'[i].tag <= written
    BY <1>0, <2>1, TailElements
  <2>3. QED
    BY <1>4, <2>2, QuietResponseInv DEF RespRead, At, Looping
<1>5. CASE RespReadErr
  BY <1>0, <1>5, QuietResponseInv DEF RespReadErr, At, Unwind, Break, Looping, envVars
<1>6. CASE RespDrain
  BY <1>6, ApplyInv DEF RespDrain, At, Looping
<1>7. CASE RespFeed
  <2>1. chan = <<>> /\ Looping /\ Looping' /\ queued \subseteq applied
    BY <1>7 DEF RespFeed, At, Looping, RelayInv, InChan
  <2>2. fedTag' <= written
    BY <1>0, <1>7 DEF RespFeed, RelayInv
  <2>3. QED
    BY <1>0, <1>7, <2>1, <2>2 DEF RespFeed, RelayInv, ReqEnded, reqVars, envVars, FactsBeforeAnswers,
       TerminalHonoredInOrder
<1>8. CASE RespFed
  BY <1>0, <1>8, QuietResponseInv DEF RespFed, At, Break, Looping, envVars
<1>9. CASE RespWrite
  BY <1>0, <1>9, QuietResponseInv DEF RespWrite, At, Unwind, Break, Looping, envVars
<1>10. CASE RespFinish
  BY <1>0, <1>10, QuietResponseInv DEF RespFinish, At, Looping, envVars
<1>11. QED
  BY <1>1, <1>2, <1>3, <1>4, <1>5, <1>6, <1>7, <1>8, <1>9, <1>10 DEF Responses

\* What the upstream sends answers at most what was written to it.
LEMMA UpstreamInv ==
  ASSUME TypeOK, RelayInv, UpstreamSends
  PROVE  RelayInv'
<1>1. \A i \in DOMAIN upQ' : upQ'[i].tag <= written
  <2>1. upQ' = Append(upQ, Data(written)) \/ upQ' = Append(upQ, Fin)
    BY DEF UpstreamSends
  <2>2. Data(written).tag <= written /\ Fin.tag <= written /\ upQ \in Seq(Chunk)
    BY DEF Data, Fin, TypeOK
  <2>3. \A i \in DOMAIN upQ : upQ[i].tag <= written
    BY DEF RelayInv
  <2>4. QED
    BY <2>1, <2>2, <2>3
<1>2. QED
  BY <1>1, QuietResponseInv DEF UpstreamSends, RelayInv, reqVars, respVars, Looping, InChan, ReqEnded,
     FactsBeforeAnswers, TerminalHonoredInOrder

-----------------------------------------------------------------------------
(* The theorems.                                                           *)

\* The types and the strengthened invariant hold in every reachable state of
\* the relay, for any number of chunks in either direction.
THEOREM Invariance == Spec => [](TypeOK /\ RelayInv)
<1>1. Init => TypeOK /\ RelayInv
  BY InitType, InitInv
<1>2. TypeOK /\ RelayInv /\ [Next]_vars => (TypeOK /\ RelayInv)'
  <2> SUFFICES ASSUME TypeOK, RelayInv, [Next]_vars PROVE (TypeOK /\ RelayInv)'
    OBVIOUS
  <2>1. CASE Requests
    BY <2>1, RequestsType, RequestsInv
  <2>2. CASE Responses \/ RespReadErr
    BY <2>2, ResponsesType, ResponsesInv
  <2>3. CASE UpstreamSends
    BY <2>3, UpstreamType, UpstreamInv
  <2>4. CASE UNCHANGED vars
    BY <2>4 DEF vars, reqVars, respVars, envVars, TypeOK, RelayInv, InChan, Looping, ReqEnded,
       FactsBeforeAnswers, TerminalHonoredInOrder
  <2>5. QED
    BY <2>1, <2>2, <2>3, <2>4 DEF Next, Terminated
<1>3. QED
  BY <1>1, <1>2, PTL DEF Spec

\* Type correctness of the relay.
THEOREM TypeCorrect == Spec => []TypeOK
  BY Invariance, PTL

\* Whatever the interleaving, a reply or framing fact of a request is carried
\* out before upstream bytes that may answer it reach the upstream machine.
THEOREM FactsFirst == Spec => []FactsBeforeAnswers
<1>1. TypeOK /\ RelayInv => FactsBeforeAnswers
  BY DEF RelayInv
<1>2. QED
  BY <1>1, Invariance, PTL

\* A relay ended by its request direction has carried out all that was queued.
THEOREM TerminalInOrder == Spec => []TerminalHonoredInOrder
<1>1. TypeOK /\ RelayInv => TerminalHonoredInOrder
  BY DEF RelayInv
<1>2. QED
  BY <1>1, Invariance, PTL

\* No chunk and no FIN is given to the upstream machine while a message, the
\* terminal one included, waits on the channel.
THEOREM DrainedFirst == Spec => DrainedBeforeFeed
<1>1. TypeOK /\ RelayInv /\ [Next]_vars
        => [respPc # "feed" /\ respPc' = "feed" => queued \subseteq applied /\ endedBy = "none"
                                                 /\ chan = <<>>]_vars
  <2> SUFFICES ASSUME TypeOK, RelayInv, Next, respPc # "feed", respPc' = "feed"
               PROVE  queued \subseteq applied /\ endedBy = "none" /\ chan = <<>>
    OBVIOUS
  <2>1. RespFeed
    BY DEF Next, Requests, ReqRead, ReqReadErr, ReqFed, ReqWritten, ReqWriteErr, ReqStopped, ReqDone, ReqRepoll,
       ReqFlush, ReqShutdown, UpstreamSends, Terminated, vars, respVars, Responses, RespRecv, RespClosed, RespReply,
       RespRead, RespReadErr, RespDrain, RespFed, RespWrite, RespFinish, Apply, Unwind, Break
  <2>2. QED
    BY <2>1 DEF RespFeed, At, RelayInv, Looping, InChan
<1>2. QED
  BY <1>1, Invariance, PTL DEF Spec, DrainedBeforeFeed

-----------------------------------------------------------------------------
(* An early unwind of the request pump is announced.                       *)

\* What EarlyUnwindAnnounced needs: a response pump out of its loop has a
\* reason, the message it is writing to the guest is a reply (so taking it off
\* the channel loses no announcement), and only the first bytes are flushed.
UnwindInv ==
  /\ ~Looping => endedBy # "none"
  /\ respPc \in {"reply", "drainReply"} => chan # <<>> /\ Head(chan).kind = "reply"
  /\ reqPc = "flush" => reqOn = "first"
  /\ EarlyUnwindAnnounced

\* Sending appends, or finds the response pump gone.
LEMMA SendKeeps ==
  ASSUME TypeOK, NEW msgs \in Seq(ToResponse), Send(msgs)
  PROVE  /\ \A m : InChan(m) => InChan(m)'
         /\ chan # <<>> => chan' # <<>> /\ Head(chan') = Head(chan)
         /\ ~RespEnded => \A i \in DOMAIN msgs : InChan(msgs[i])'
<1>1. CASE RespEnded
  BY <1>1 DEF Send, InChan
<1>2. CASE ~RespEnded
  <2>1. chan' = chan \o msgs /\ chan \in Seq(ToResponse)
    BY <1>2 DEF Send, TypeOK
  <2>2. /\ Len(chan') = Len(chan) + Len(msgs)
        /\ \A i \in DOMAIN chan : i \in DOMAIN chan' /\ chan'[i] = chan[i]
        /\ \A i \in DOMAIN msgs : Len(chan) + i \in DOMAIN chan' /\ chan'[Len(chan) + i] = msgs[i]
    BY <2>1, ConcatElements
  <2>3. chan # <<>> => chan' # <<>> /\ Head(chan') = Head(chan)
    BY <2>1, <2>2
  <2>4. QED
    BY <2>2, <2>3 DEF InChan
<1>3. QED
  BY <1>1, <1>2

\* A request pump step that announces the end, or does not unwind.
LEMMA UnwindRequests ==
  ASSUME TypeOK, UnwindInv, Requests
  PROVE  UnwindInv'
<1> USE DEF UnwindInv, EarlyUnwindAnnounced, Looping, reqVars, respVars, Return
<1>1. CASE ReqRead
  BY <1>1 DEF ReqRead, InChan
<1>2. CASE ReqReadErr \/ ReqWriteErr
  <2>1. Send(<<RequestsEnded>>) /\ UNCHANGED respVars
    BY <1>2 DEF ReqReadErr, ReqWriteErr
  <2>2. ~RespEnded => InChan(RequestsEnded)'
    <3>1. 1 \in DOMAIN <<RequestsEnded>> /\ <<RequestsEnded>>[1] = RequestsEnded
      OBVIOUS
    <3>2. QED
      BY <2>1, <3>1, EndedType, SendKeeps
  <2>3. chan # <<>> => chan' # <<>> /\ Head(chan') = Head(chan)
    BY <2>1, EndedType, SendKeeps
  <2>4. QED
    BY <1>2, <2>1, <2>2, <2>3 DEF ReqReadErr, ReqWriteErr, RespEnded
<1>3. CASE ReqFed
  <2>1. PICK msgs \in HandOver(fed + 1) : Send(msgs) \/ Send(msgs \o <<RequestsEnded>>)
    BY <1>3 DEF ReqFed
  <2>2. msgs \in Seq(ToResponse) /\ msgs \o <<RequestsEnded>> \in Seq(ToResponse)
    BY EndedType, HandOverType, ConcatElements DEF TypeOK
  <2>3. chan # <<>> => chan' # <<>> /\ Head(chan') = Head(chan)
    BY <2>1, <2>2, SendKeeps
  <2>4. reqPc' \in {"ok", "shutdown", "select", "write"} /\ UNCHANGED respVars
    BY <1>3 DEF ReqFed
  <2>5. QED
    BY <2>3, <2>4
<1>4. CASE ReqWritten
  BY <1>4 DEF ReqWritten, AfterWrite, TypeOK
<1>5. CASE ReqStopped
  BY <1>5 DEF ReqStopped, AfterWrite, TypeOK
<1>6. CASE ReqDone \/ ReqRepoll \/ ReqShutdown
  BY <1>6 DEF ReqDone, ReqRepoll, ReqShutdown
<1>7. CASE ReqFlush
  BY <1>7 DEF ReqFlush
<1>8. QED
  BY <1>1, <1>2, <1>3, <1>4, <1>5, <1>6, <1>7 DEF Requests

\* Taking another message off the channel leaves the announcement in it.
LEMMA TailKeeps ==
  ASSUME chan \in Seq(ToResponse), chan # <<>>, Head(chan).kind # "ended", chan' = Tail(chan),
         InChan(RequestsEnded)
  PROVE  InChan(RequestsEnded)'
<1>1. PICK i \in DOMAIN chan : chan[i] = RequestsEnded
  BY DEF InChan
<1>2. Head(chan) = chan[1] /\ (i = 1 \/ (i - 1 \in DOMAIN Tail(chan) /\ Tail(chan)[i - 1] = chan[i]))
  BY TailElements
<1>3. i # 1
  BY <1>1, <1>2 DEF RequestsEnded
<1>4. QED
  BY <1>1, <1>2, <1>3 DEF InChan

\* Carrying out a message loses no announcement but the one it honours.
LEMMA UnwindApply ==
  ASSUME TypeOK, UnwindInv, NEW awaiting \in {"reply", "drainReply"}, Apply(awaiting),
         Looping, UNCHANGED reqVars
  PROVE  UnwindInv'
<1>1. chan # <<>> /\ chan \in Seq(ToResponse)
  BY DEF Apply, TypeOK
<1>2. CASE Head(chan).kind = "ended"
  BY <1>2 DEF Apply, Break, UnwindInv, EarlyUnwindAnnounced, reqVars
<1>3. CASE Head(chan).kind = "note"
  <2>1. chan' = Tail(chan) /\ UNCHANGED <<respPc, endedBy>>
    BY <1>3 DEF Apply
  <2>2. InChan(RequestsEnded) => InChan(RequestsEnded)'
    BY <1>1, <1>3, <2>1, TailKeeps
  <2>3. respPc \notin {"reply", "drainReply"}
    BY <1>3 DEF UnwindInv
  <2>4. QED
    BY <2>1, <2>2, <2>3 DEF UnwindInv, EarlyUnwindAnnounced, reqVars, Looping
<1>4. CASE Head(chan).kind = "reply"
  BY <1>1, <1>4 DEF Apply, UnwindInv, EarlyUnwindAnnounced, reqVars, InChan, Looping
<1>5. Head(chan) \in ToResponse
  BY <1>1, TailElements
<1>6. QED
  BY <1>2, <1>3, <1>4, <1>5 DEF ToResponse

\* No step of the response pump takes an announcement off the channel unheard.
LEMMA UnwindResponses ==
  ASSUME TypeOK, UnwindInv, Responses \/ RespReadErr
  PROVE  UnwindInv'
<1>1. CASE RespRecv \/ RespDrain
  BY <1>1, UnwindApply DEF RespRecv, RespDrain, At, Looping
<1>2. CASE RespReply
  <2>1. chan # <<>> /\ chan \in Seq(ToResponse) /\ Head(chan).kind = "reply" /\ chan' = Tail(chan)
    BY <1>2 DEF RespReply, At, UnwindInv, TypeOK
  <2>2. InChan(RequestsEnded) => InChan(RequestsEnded)'
    BY <2>1, TailKeeps
  <2>3. QED
    BY <1>2, <2>2 DEF RespReply, At, Unwind, Break, UnwindInv, EarlyUnwindAnnounced, reqVars, Looping
<1>3. CASE RespClosed \/ RespRead \/ RespFeed \/ RespFed \/ RespWrite \/ RespFinish \/ RespReadErr
  <2>1. UNCHANGED <<reqVars, chan>> /\ respPc' \notin {"reply", "drainReply"}
    BY <1>3 DEF RespClosed, RespRead, RespFeed, RespFed, RespWrite, RespFinish, RespReadErr, At, Unwind, Break
  <2>2. endedBy' # "none" \/ (endedBy' = endedBy /\ (~Looping' => ~Looping))
    BY <1>3 DEF RespClosed, RespRead, RespFeed, RespFed, RespWrite, RespFinish, RespReadErr, At, Unwind, Break,
       Looping
  <2>3. QED
    BY <2>1, <2>2 DEF UnwindInv, EarlyUnwindAnnounced, InChan, reqVars, Looping
<1>4. QED
  BY <1>1, <1>2, <1>3 DEF Responses

\* UnwindInv is an invariant.
THEOREM UnwindInvariance == Spec => []UnwindInv
<1>1. Init => UnwindInv
  BY DEF Init, UnwindInv, EarlyUnwindAnnounced, Looping
<1>2. TypeOK /\ UnwindInv /\ [Next]_vars => UnwindInv'
  <2> SUFFICES ASSUME TypeOK, UnwindInv, [Next]_vars PROVE UnwindInv'
    OBVIOUS
  <2>1. CASE UpstreamSends \/ UNCHANGED vars
    BY <2>1 DEF UpstreamSends, vars, reqVars, respVars, UnwindInv, EarlyUnwindAnnounced, InChan, Looping
  <2>2. QED
    BY <2>1, UnwindRequests, UnwindResponses DEF Next, Terminated
<1>3. QED
  BY <1>1, <1>2, TypeCorrect, PTL DEF Spec

\* For any number of chunks: a request pump that unwinds with an error, the
\* flush of the replayed bytes excepted, has told the response pump, or that
\* one had already left its loop.
THEOREM UnwindAnnounced == Spec => []EarlyUnwindAnnounced
<1>1. UnwindInv => EarlyUnwindAnnounced
  BY DEF UnwindInv
<1>2. QED
  BY <1>1, UnwindInvariance, PTL

-----------------------------------------------------------------------------
(* The relay implements Handover.                                          *)

\* What the refinement needs beyond RelayInv: all that is on the channel, the
\* terminal message excepted, was told.
ChanTold == \A i \in DOMAIN chan : chan[i].kind = "ended" \/ chan[i] \in queued

\* Sending told messages, and perhaps the terminal one, keeps ChanTold.
LEMMA SendTold ==
  ASSUME TypeOK, ChanTold, NEW msgs \in Seq(ToResponse), Send(msgs),
         queued \subseteq queued',
         \A i \in DOMAIN msgs : msgs[i].kind = "ended" \/ msgs[i] \in queued'
  PROVE  ChanTold'
<1>1. CASE RespEnded
  BY <1>1 DEF Send, ChanTold
<1>2. CASE ~RespEnded
  <2>1. chan' = chan \o msgs /\ chan \in Seq(ToResponse)
    BY <1>2 DEF Send, TypeOK
  <2>2. \A i \in DOMAIN chan' : \/ i \in DOMAIN chan /\ chan'[i] = chan[i]
                                \/ \E j \in DOMAIN msgs : chan'[i] = msgs[j]
    BY <2>1, ConcatElements
  <2>3. QED
    BY <2>2 DEF ChanTold
<1>3. QED
  BY <1>1, <1>2

\* A feed of the downstream machine tells facts of its own chunk only, all of
\* which it queues.
LEMMA FedTells ==
  ASSUME TypeOK, ChanTold, RelayInv, ReqFed
  PROVE  ChanTold' /\ H!Tell
<1>1. PICK msgs \in HandOver(fed + 1) :
        /\ queued' = queued \cup {msgs[i] : i \in DOMAIN msgs}
        /\ Send(msgs) \/ Send(msgs \o <<RequestsEnded>>)
  BY DEF ReqFed
<1>2. fed + 1 \in Nat /\ fed' = fed + 1 /\ UNCHANGED respVars
  BY DEF ReqFed, TypeOK
<1>3. /\ msgs \in Seq(ToResponse)
      /\ \A i \in DOMAIN msgs : msgs[i].id = fed + 1 /\ msgs[i].kind # "ended"
  BY <1>2, HandOverType
<1>4. \A i \in DOMAIN msgs : msgs[i] \in queued'
  BY <1>1
<1>5. ChanTold'
  <2>1. CASE Send(msgs)
    BY <1>1, <1>3, <1>4, <2>1, SendTold
  <2>2. CASE Send(msgs \o <<RequestsEnded>>)
    <3>1. msgs \o <<RequestsEnded>> \in Seq(ToResponse)
      BY <1>3, EndedType, ConcatElements
    <3>2. \A i \in DOMAIN (msgs \o <<RequestsEnded>>) :
             \/ i \in DOMAIN msgs /\ (msgs \o <<RequestsEnded>>)[i] = msgs[i]
             \/ (msgs \o <<RequestsEnded>>)[i] = RequestsEnded
      BY <1>3, EndedType, ConcatElements
    <3>3. \A i \in DOMAIN (msgs \o <<RequestsEnded>>) :
             \/ (msgs \o <<RequestsEnded>>)[i].kind = "ended"
             \/ (msgs \o <<RequestsEnded>>)[i] \in queued'
      BY <1>4, <3>2 DEF RequestsEnded
    <3>4. QED
      BY <1>1, <2>2, <3>1, <3>3, SendTold
  <2>3. QED
    BY <1>1, <2>1, <2>2
<1>6. {msgs[i] : i \in DOMAIN msgs} \in SUBSET H!FactsOf(fed + 1)
  <2> SUFFICES ASSUME NEW i \in DOMAIN msgs PROVE msgs[i] \in H!FactsOf(fed + 1)
    OBVIOUS
  <2>1. msgs[i] \in ToResponse /\ msgs[i].id = fed + 1 /\ msgs[i].kind # "ended"
    BY <1>3
  <2>2. QED
    BY <2>1 DEF ToResponse, H!FactsOf
<1>7. endedBy # "requests"
  BY DEF RelayInv, ReqFed, ReqEnded
<1>8. QED
  BY <1>1, <1>2, <1>5, <1>6, <1>7 DEF H!Tell, respVars

\* The other steps of the request pump change nothing Handover sees.
LEMMA RequestsTold ==
  ASSUME TypeOK, ChanTold, RelayInv, Requests
  PROVE  ChanTold' /\ [H!Next]_H!hvars
<1>1. CASE ReqFed
  BY <1>1, FedTells DEF H!Next
<1>2. CASE ReqReadErr \/ ReqWriteErr
  <2>1. Send(<<RequestsEnded>>) /\ UNCHANGED <<fed, queued, respVars>>
    BY <1>2 DEF ReqReadErr, ReqWriteErr
  <2>2. \A i \in DOMAIN <<RequestsEnded>> : <<RequestsEnded>>[i].kind = "ended"
    BY DEF RequestsEnded
  <2>3. ChanTold'
    BY <2>1, <2>2, EndedType, SendTold
  <2>4. QED
    BY <2>1, <2>3 DEF H!hvars, respVars
<1>3. CASE ReqRead \/ ReqWritten \/ ReqStopped \/ ReqDone \/ ReqRepoll \/ ReqFlush \/ ReqShutdown
  <2>1. UNCHANGED <<fed, queued, chan, respVars>>
    BY <1>3 DEF ReqRead, ReqWritten, ReqStopped, ReqDone, ReqRepoll, ReqFlush, ReqShutdown
  <2>2. QED
    BY <2>1 DEF H!hvars, respVars, ChanTold
<1>4. QED
  BY <1>1, <1>2, <1>3 DEF Requests

\* Carrying out a message learns a told fact, or ends the response side.
LEMMA ApplyLearns ==
  ASSUME TypeOK, ChanTold, RelayInv, RelayInv', Looping,
         NEW awaiting \in {"reply", "drainReply"}, Apply(awaiting),
         UNCHANGED <<fed, queued, fedTag>>
  PROVE  ChanTold' /\ [H!Next]_H!hvars
<1>1. chan # <<>> /\ chan \in Seq(ToResponse) /\ endedBy = "none"
  BY DEF Apply, TypeOK, RelayInv
<1>2. Head(chan) = chan[1] /\ 1 \in DOMAIN chan
  BY <1>1, TailElements
<1>3. chan' \in {chan, Tail(chan)}
  BY DEF Apply
<1>4. ChanTold'
  <2>1. CASE chan' = chan
    BY <2>1 DEF ChanTold
  <2>2. CASE chan' = Tail(chan)
    <3>1. \A i \in DOMAIN chan' : i + 1 \in DOMAIN chan /\ chan'[i] = chan[i + 1]
      BY <1>1, <2>2, TailElements
    <3>2. QED
      BY <3>1 DEF ChanTold
  <2>3. QED
    BY <1>3, <2>1, <2>2
<1>5. CASE Head(chan).kind = "ended"
  <2>1. endedBy' = "requests" /\ UNCHANGED applied
    BY <1>5 DEF Apply, Break
  <2>2. queued \subseteq applied
    BY <2>1 DEF RelayInv, TerminalHonoredInOrder
  <2>3. QED
    BY <1>1, <1>4, <2>1, <2>2 DEF H!Next, H!End
<1>6. CASE Head(chan).kind = "note"
  <2>1. applied' = applied \cup {Head(chan)} /\ UNCHANGED endedBy
    BY <1>6 DEF Apply
  <2>2. Head(chan) \in queued
    BY <1>2, <1>6 DEF ChanTold
  <2>3. QED
    BY <1>1, <1>4, <2>1, <2>2 DEF H!Next, H!Learn
<1>7. CASE Head(chan).kind = "reply"
  <2>1. UNCHANGED <<applied, endedBy>>
    BY <1>7 DEF Apply
  <2>2. QED
    BY <1>4, <2>1 DEF H!hvars
<1>8. QED
  BY <1>5, <1>6, <1>7 DEF Apply

\* Every step of the response pump is a step of Handover or none.
LEMMA ResponsesTold ==
  ASSUME TypeOK, TypeOK', ChanTold, RelayInv, RelayInv', UnwindInv, Responses \/ RespReadErr
  PROVE  ChanTold' /\ [H!Next]_H!hvars
<1> USE DEF reqVars, envVars
<1>1. CASE RespRecv \/ RespDrain
  BY <1>1, ApplyLearns DEF RespRecv, RespDrain, At, Looping
<1>2. CASE RespReply
  <2>1. chan # <<>> /\ chan \in Seq(ToResponse) /\ Head(chan).kind = "reply" /\ chan' = Tail(chan)
    BY <1>2 DEF RespReply, At, UnwindInv, TypeOK
  <2>2. Head(chan) \in queued
    BY <2>1, TailElements DEF ChanTold
  <2>3. ChanTold'
    <3>1. \A i \in DOMAIN chan' : i + 1 \in DOMAIN chan /\ chan'[i] = chan[i + 1]
      BY <2>1, TailElements
    <3>2. QED
      BY <1>2, <3>1 DEF ChanTold, RespReply
  <2>4. endedBy = "none"
    BY <1>2 DEF RespReply, At, RelayInv, Looping
  <2>5. CASE applied' = applied \cup {Head(chan)} /\ endedBy' = endedBy
    BY <1>2, <2>2, <2>3, <2>4, <2>5 DEF RespReply, H!Next, H!Learn
  <2>6. CASE applied' = applied /\ endedBy' = "error"
    BY <1>2, <2>3, <2>4, <2>6 DEF RespReply, H!Next, H!End
  <2>7. QED
    BY <1>2, <2>5, <2>6 DEF RespReply, Unwind, Break
<1>3. CASE RespFeed
  <2>1. endedBy = "none" /\ queued \subseteq applied
    BY <1>3 DEF RespFeed, At, RelayInv, Looping, InChan
  <2>2. fedTag' \in fedTag..fed
    BY <1>3 DEF RespFeed, RelayInv, TypeOK, Chunk
  <2>3. QED
    BY <1>3, <2>1, <2>2 DEF RespFeed, ChanTold, H!Next, H!Answer
<1>4. CASE RespClosed \/ RespRead \/ RespFed \/ RespWrite \/ RespFinish \/ RespReadErr
  <2>1. UNCHANGED <<queued, applied, fed, fedTag, chan>>
    BY <1>4 DEF RespClosed, RespRead, RespFed, RespWrite, RespFinish, RespReadErr
  <2>2. \/ endedBy' = endedBy
        \/ Looping /\ endedBy' \in {"fin", "close", "error"}
    BY <1>4 DEF RespClosed, RespRead, RespFed, RespWrite, RespFinish, RespReadErr, At, Unwind, Break, Looping
  <2>3. CASE endedBy' = endedBy
    BY <2>1, <2>3 DEF ChanTold, H!hvars
  <2>4. CASE Looping /\ endedBy' \in {"fin", "close", "error"}
    BY <2>1, <2>4 DEF ChanTold, RelayInv, H!Next, H!End
  <2>5. QED
    BY <2>2, <2>3, <2>4
<1>5. QED
  BY <1>1, <1>2, <1>3, <1>4 DEF Responses

\* For any number of chunks in either direction the relay implements Handover:
\* its two pumps, their channel and their early ends are a single side that
\* tells and a single side that answers with all it was told carried out.
THEOREM RelayImplementsHandover == Spec => ImplementsHandover
<1>1. Init => H!Init /\ ChanTold
  BY DEF Init, H!Init, ChanTold
<1>2. TypeOK /\ TypeOK' /\ RelayInv /\ RelayInv' /\ UnwindInv /\ ChanTold /\ [Next]_vars
        => ChanTold' /\ [H!Next]_H!hvars
  <2> SUFFICES ASSUME TypeOK, TypeOK', RelayInv, RelayInv', UnwindInv, ChanTold, [Next]_vars
               PROVE  ChanTold' /\ [H!Next]_H!hvars
    OBVIOUS
  <2>1. CASE UpstreamSends \/ UNCHANGED vars
    BY <2>1 DEF UpstreamSends, vars, reqVars, respVars, ChanTold, H!hvars
  <2>2. QED
    BY <2>1, RequestsTold, ResponsesTold DEF Next, Terminated
<1>3. QED
  BY <1>1, <1>2, Invariance, UnwindInvariance, PTL DEF Spec, ImplementsHandover, H!Spec
=============================================================================
