----------------------------- MODULE Handover ------------------------------
(***************************************************************************)
(* What the relay promises the two machines it joins, without its pumps,   *)
(* its channel and its awaits: the request side tells facts about each     *)
(* request chunk, the response side learns them, and upstream bytes that   *)
(* may answer the first n chunks are handed on only by a side that knows   *)
(* all it was told.                                                        *)
(***************************************************************************)
EXTENDS Naturals

VARIABLES told,      \* facts the request side has told
          known,     \* facts the response side has carried out
          asked,     \* request chunks so far
          answered,  \* newest chunk that bytes handed on may answer
          ended      \* why the response side ended, or "none"

hvars == <<told, known, asked, answered, ended>>

FactsOf(k) == [kind : {"reply", "note"}, id : {k}]

Init == told = {} /\ known = {} /\ asked = 0 /\ answered = 0 /\ ended = "none"

\* A request side that asked for the end tells nothing more.
Tell ==
  /\ ended # "requests"
  /\ \E F \in SUBSET FactsOf(asked + 1) : told' = told \cup F
  /\ asked' = asked + 1
  /\ UNCHANGED <<known, answered, ended>>

Learn ==
  /\ ended = "none"
  /\ \E m \in told : known' = known \cup {m}
  /\ UNCHANGED <<told, asked, answered, ended>>

Answer ==
  /\ ended = "none" /\ told \subseteq known
  /\ answered' \in answered..asked
  /\ UNCHANGED <<told, known, asked, ended>>

\* An end asked for by the request side comes after all it had told.
End ==
  /\ ended = "none"
  /\ ended' \in {"requests", "fin", "close", "error"}
  /\ ended' = "requests" => told \subseteq known
  /\ UNCHANGED <<told, known, asked, answered>>

Next == Tell \/ Learn \/ Answer \/ End

Spec == Init /\ [][Next]_hvars
=============================================================================
