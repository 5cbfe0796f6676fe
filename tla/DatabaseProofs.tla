--------------------------- MODULE DatabaseProofs ---------------------------
(***************************************************************************)
(* Proofs about Postgres, for any guest, any credential pairs and any cap  *)
(* on the greeting, and about Redis: its cap, and what the server reads of *)
(* array commands, however they are cut.                                   *)
(***************************************************************************)
EXTENDS Postgres, Redis, SequenceTheorems, NaturalsInduction, WellFoundedInduction, FiniteSetTheorems, TLAPS

\* What request_upstream_tls had been told when the answer was judged.
Asked == (Needed => accepted) /\ (accepted => AsksTls)

Legged == /\ phase \in {"legs", "relay"} => Asked
          /\ phase = "relay" => (accepted => Trusted)

NegInv == scope \in Scopes /\ Legged

-----------------------------------------------------------------------------

\* Steps before the server was asked, and steps that close, owe nothing.
LEMMA NotYet ==
  ASSUME NegInv, scope' = scope, phase' \notin {"legs", "relay"}
  PROVE  NegInv'
  BY DEF NegInv, Legged

\* The server's answer is judged by the mode.
LEMMA AskInv ==
  ASSUME NegInv, Ask
  PROVE  NegInv'
<1>1. scope' = scope /\ guestTls' = guestTls /\ cert' = cert
  BY DEF Ask, rule
<1>2. CASE phase' \notin {"legs", "relay"}
  BY <1>1, <1>2, NotYet
<1>3. CASE phase' \in {"legs", "relay"}
  <2>1. PICK yes \in IF ~AsksTls THEN {FALSE} ELSE IF scope.direct THEN {TRUE} ELSE BOOLEAN :
          accepted' = yes /\ IF Needed /\ ~yes THEN Close ELSE Goto("legs")
    BY <1>3 DEF Ask, Close, Goto
  <2>2. phase' = "legs" /\ (Needed => yes) /\ accepted' = yes
    BY <1>3, <2>1 DEF Close, Goto
  <2>3. yes => AsksTls
    BY <2>1
  <2>4. Asked'
    BY <1>1, <2>2, <2>3 DEF Asked, Needed, AsksTls
  <2>5. QED
    BY <1>1, <2>2, <2>4 DEF NegInv, Legged
<1>4. QED
  BY <1>2, <1>3

\* The server's certificate is judged in its handshake.
LEMMA LegsInv ==
  ASSUME NegInv, Legs
  PROVE  NegInv'
<1>1. scope' = scope /\ cert' = cert /\ guestTls' = guestTls /\ accepted' = accepted /\ phase = "legs"
  BY DEF Legs, rule
<1>2. phase' = "closed" \/ (phase' = "relay" /\ (accepted => Trusted))
  BY DEF Legs, Close, Goto
<1>3. Asked' /\ (Trusted => Trusted')
  BY <1>1 DEF NegInv, Legged, Asked, Needed, AsksTls, Trusted
<1>4. QED
  BY <1>1, <1>2, <1>3 DEF NegInv, Legged

\* What the relay does leaves both legs as they are.
LEMMA LegsFixed ==
  ASSUME NegInv, UNCHANGED <<scope, cert, guestTls, accepted, phase>>
  PROVE  NegInv'
  BY DEF NegInv, Legged, Asked, Needed, AsksTls, Trusted

\* The invariant of the server's leg, step by step.
LEMMA NegKept ==
  ASSUME NegInv, [Next]_vars
  PROVE  NegInv'
<1>1. CASE UNCHANGED vars
  BY <1>1, LegsFixed DEF vars, rule, opening
<1>2. CASE OpeningRead \/ HelloRead
  <2>1. UNCHANGED <<scope, cert, guestTls, accepted, phase>>
    BY <1>2 DEF OpeningRead, HelloRead, ReadMore, rule
  <2>2. QED
    BY <2>1, LegsFixed
<1>3. CASE OpeningDirect \/ OpeningSsl \/ OpeningGss \/ OpeningCleartext \/ OpeningOver
  <2>1. scope' = scope /\ phase' \notin {"legs", "relay"}
    BY <1>3 DEF OpeningDirect, OpeningSsl, OpeningGss, OpeningCleartext, OpeningOver, rule, Goto, Close
  <2>2. QED
    BY <2>1, NotYet
<1>4. CASE HelloOver \/ HelloTaken \/ Dial
  <2>1. scope' = scope /\ phase' \notin {"legs", "relay"}
    BY <1>4 DEF HelloOver, HelloTaken, Dial, rule, Goto, Close
  <2>2. QED
    BY <2>1, NotYet
<1>5. CASE RelayFeed
  <2>1. UNCHANGED <<scope, cert, guestTls, accepted, phase>>
    BY <1>5 DEF RelayFeed, rule
  <2>2. QED
    BY <2>1, LegsFixed
<1>6. CASE RelayEnd
  <2>1. scope' = scope /\ phase' = "closed"
    BY <1>6 DEF RelayEnd, rule, Close, Goto
  <2>2. QED
    BY <2>1, NotYet
<1>7. CASE Closed
  BY <1>1, <1>7 DEF Closed
<1>8. QED
  BY <1>1, <1>2, <1>3, <1>4, <1>5, <1>6, <1>7, AskInv, LegsInv DEF Next, Serve

\* The invariant gives the property: a verifying mode has an anchor.
LEMMA NegMeans ==
  ASSUME NegInv
  PROVE  NoDowngrade
<1> SUFFICES ASSUME phase = "relay" PROVE NoDowngrade
  BY DEF NoDowngrade
<1>1. /\ Needed => accepted /\ (accepted => AsksTls) /\ (accepted => Trusted)
  BY DEF NegInv, Legged, Asked
<1>2. /\ accepted => AsksTls
      /\ accepted => Trusted
  BY DEF NegInv, Legged, Asked
<1>3. scope.ssl \in Verifies => scope.anchored
  BY DEF NegInv, Scopes
<1>4. QED
  BY <1>1, <1>2, <1>3 DEF NoDowngrade, Needed, AsksTls, Trusted, Verifies

(***************************************************************************)
(* The relay of a postgres:// connection runs over a server leg the rule's *)
(* sslmode permits, whatever the guest sent, however its opening was cut   *)
(* and whatever the server answered or showed (serve, request_upstream_tls *)
(* and EgressCertVerifier): never in the clear where TLS is required,      *)
(* never over a certificate the mode or an anchor rejects, never with TLS  *)
(* nobody asked for.                                                       *)
(***************************************************************************)
THEOREM NeverDowngraded == Spec => []NoDowngrade
<1>1. Init => NegInv
  BY DEF Init, NegInv, Legged
<1>2. NegInv /\ [Next]_vars => NegInv'
  BY NegKept
<1>3. NegInv => NoDowngrade
  BY NegMeans
<1>4. QED
  BY <1>1, <1>2, <1>3, PTL DEF Spec
-----------------------------------------------------------------------------
(* The guest's leg.                                                        *)

SaidS == \E n \in DOMAIN answers : answers[n] = "S"

\* An SSLRequest in the clear that was answered S commits the guest's leg to
\* TLS: no dial, no question to the server and no handshake of a connection
\* whose guest was told S and whose leg is not TLS (read_guest_opening,
\* guest_tls_opening).
TlsCommitted == phase \in {"dial", "ask", "legs"} /\ SaidS => guestTls

CommitInv ==
  /\ phase \in {"opening", "hello", "dial", "ask", "legs"} => answers \in Seq({"S", "N"})
  /\ phase \in {"opening", "dial", "ask", "legs"} /\ SaidS => guestTls

\* An N says no S, and either letter is an answer.
LEMMA Answered ==
  ASSUME NEW s \in Seq({"S", "N"})
  PROVE  /\ Append(s, "S") \in Seq({"S", "N"}) /\ Append(s, "N") \in Seq({"S", "N"})
         /\ (\E n \in DOMAIN Append(s, "N") : Append(s, "N")[n] = "S") => \E n \in DOMAIN s : s[n] = "S"
  OBVIOUS

\* A step that answers nothing and does not leave the hello for the dial in the clear.
LEMMA Unanswered ==
  ASSUME CommitInv, UNCHANGED answers, guestTls => guestTls',
         \/ phase' = phase
         \/ phase \in {"opening", "hello"} /\ phase' = "hello"
         \/ phase \in {"opening", "dial", "ask"} /\ phase' \in {"dial", "ask", "legs"}
         \/ phase = "hello" /\ phase' = "dial" /\ guestTls'
         \/ phase' \in {"relay", "closed"}
  PROVE  CommitInv'
  BY DEF CommitInv, SaidS

\* The invariant of the guest's leg, step by step.
LEMMA CommitKept ==
  ASSUME CommitInv, [Next]_vars
  PROVE  CommitInv'
<1>1. CASE UNCHANGED vars
  BY <1>1, Unanswered DEF vars, opening
<1>2. CASE OpeningRead \/ HelloRead
  BY <1>2, Unanswered DEF OpeningRead, HelloRead, ReadMore
<1>3. CASE OpeningDirect \/ OpeningCleartext \/ OpeningOver
  BY <1>3, Unanswered DEF OpeningDirect, OpeningCleartext, OpeningOver, opening, Goto, Close
<1>4. CASE OpeningSsl
  <2>1. CASE phase' = "hello" /\ answers' = Append(answers, "S")
    BY <1>4, <2>1, Answered DEF OpeningSsl, CommitInv
  <2>2. CASE phase' = "closed"
    BY <2>2 DEF CommitInv
  <2>3. QED
    BY <1>4, <2>1, <2>2 DEF OpeningSsl, Answer, Goto, Close
<1>5. CASE OpeningGss
  <2>1. CASE phase' = "opening" /\ answers' = Append(answers, "N")
    <3>1. answers \in Seq({"S", "N"}) /\ guestTls' = guestTls /\ (SaidS => guestTls)
      BY <1>5 DEF OpeningGss, CommitInv
    <3>2. answers' \in Seq({"S", "N"}) /\ (SaidS' => SaidS)
      BY <2>1, <3>1, Answered DEF SaidS
    <3>3. QED
      BY <2>1, <3>1, <3>2 DEF CommitInv
  <2>2. CASE phase' = "closed"
    BY <2>2 DEF CommitInv
  <2>3. QED
    BY <1>5, <2>1, <2>2 DEF OpeningGss, Answer, Goto, Close
<1>6. CASE HelloOver \/ HelloTaken
  BY <1>6, Unanswered DEF HelloOver, HelloTaken, opening, Goto, Close
<1>7. CASE Dial
  BY <1>7, Unanswered DEF Dial, opening, Goto, Close
<1>8. CASE Ask
  BY <1>8, Unanswered DEF Ask, Goto, Close
<1>9. CASE Legs
  BY <1>9, Unanswered DEF Legs, Goto, Close
<1>10. CASE RelayFeed
  <2>1. phase' = "relay"
    BY <1>10 DEF RelayFeed
  <2>2. QED
    BY <2>1 DEF CommitInv
<1>11. CASE RelayEnd
  <2>1. phase' = "closed"
    BY <1>11 DEF RelayEnd, Close, Goto
  <2>2. QED
    BY <2>1 DEF CommitInv
<1>12. CASE Closed
  BY <1>1, <1>12 DEF Closed
<1>13. QED
  BY <1>1, <1>2, <1>3, <1>4, <1>5, <1>6, <1>7, <1>8, <1>9, <1>10, <1>11, <1>12 DEF Next, Serve

(***************************************************************************)
(* A guest that was told S is served over TLS or not at all, whatever it   *)
(* sent after its request.                                                 *)
(***************************************************************************)
THEOREM TlsAsAnswered == Spec => []TlsCommitted
<1>1. Init => CommitInv
  <2>1. ASSUME Init PROVE answers \in Seq({"S", "N"}) /\ ~SaidS
    <3>1. answers = <<>>
      BY <2>1 DEF Init
    <3>2. QED
      BY <3>1 DEF SaidS
  <2>2. QED
    BY <2>1 DEF CommitInv
<1>2. CommitInv /\ [Next]_vars => CommitInv'
  BY CommitKept
<1>3. CommitInv => TlsCommitted
  BY DEF CommitInv, TlsCommitted
<1>4. QED
  BY <1>1, <1>2, <1>3, PTL DEF Spec
-----------------------------------------------------------------------------
(* How each request of the guest is answered.                              *)


-----------------------------------------------------------------------------
(* Numbers, and functions defined from the bottom up.                      *)

\* A set of numbers that is not empty has a least one.
LEMMA LeastExists ==
  ASSUME NEW I \in SUBSET Nat, I # {}
  PROVE  \E x \in I : \A y \in I : x <= y
<1>1. \E x \in I : \A y \in I : <<y, x>> \notin OpToRel(<, Nat)
  BY NatLessThanWellFounded, WFMin
<1>2. OpToRel(<, Nat) = {ss \in Nat \X Nat : ss[1] < ss[2]}
  BY Zenon DEF OpToRel
<1>3. \A x, y \in Nat : <<y, x>> \in {ss \in Nat \X Nat : ss[1] < ss[2]} \/ x <= y
  OBVIOUS
<1>4. \E x \in I : \A y \in I : <<y, x>> \notin {ss \in Nat \X Nat : ss[1] < ss[2]}
  BY <1>1, <1>2, Zenon
<1>5. QED
  BY <1>3, <1>4

\* A set that holds 0 and every successor up to N holds 0..N.
LEMMA Upward ==
  ASSUME NEW N \in Nat, NEW K, 0 \in K, \A k \in 0..N : k < N /\ k \in K => k + 1 \in K
  PROVE  0..N \subseteq K
<1> DEFINE I == {k \in 0..N : k \notin K}
<1>1. SUFFICES ASSUME I # {} PROVE FALSE
  OBVIOUS
<1>2. PICK x \in I : \A y \in I : x <= y
  <2>1. I \in SUBSET Nat
    OBVIOUS
  <2>2. QED
    BY <1>1, <2>1, LeastExists
<1>3. x # 0 /\ x \in 0..N
  BY <1>2
<1>4. x - 1 \in 0..N /\ x - 1 < N /\ x - 1 \notin I
  BY <1>2, <1>3
<1>5. x - 1 + 1 \in K
  BY <1>4
<1>6. QED
  BY <1>3, <1>5


\* A set of numbers below a bound that is not empty has a greatest one.
LEMMA GreatestExists ==
  ASSUME NEW N \in Nat, NEW I \in SUBSET (0..N), I # {}
  PROVE  Max(I) \in I /\ \A y \in I : y <= Max(I)
<1> DEFINE J == {N - y : y \in I}
<1>1. J \in SUBSET Nat /\ J # {}
  OBVIOUS
<1>2. PICK z \in J : \A y \in J : z <= y
  BY <1>1, LeastExists
<1>3. PICK x \in I : z = N - x
  BY <1>2
<1>4. ASSUME NEW y \in I PROVE y <= x
  <2>1. N - y \in J
    OBVIOUS
  <2>2. z <= N - y
    BY <1>2, <2>1
  <2>3. QED
    BY <1>3, <2>2
<1>5. \E m \in I : \A y \in I : m >= y
  <2>1. \A y \in I : x >= y
    BY <1>3, <1>4
  <2>2. QED
    BY <1>3, <2>1
<1>6. Max(I) \in I /\ \A y \in I : Max(I) >= y
  BY <1>5 DEF Max
<1>7. QED
  BY <1>6

\* The least of a set of numbers.
LEMMA MinIs ==
  ASSUME NEW I \in SUBSET Nat, I # {}
  PROVE  Min(I) \in I /\ \A y \in I : Min(I) <= y
<1>1. \E x \in I : \A y \in I : x <= y
  BY LeastExists
<1>2. QED
  BY <1>1 DEF Min

Steps(N, D, base, G) == N \in Nat /\ base \in D /\ G \in [1..N -> [D -> D]]

Climb(N, base, G, f) == f[0] = base /\ \A i \in 1..N : f[i] = G[i][f[i - 1]]

\* There is a function that starts at base and whose every value is computed
\* from the one before it.
LEMMA Climbs ==
  ASSUME NEW N, NEW D, NEW base, NEW G, Steps(N, D, base, G)
  PROVE  \E f \in [0..N -> D] : Climb(N, base, G, f)
<1> USE DEF Steps, Climb
<1> DEFINE Part(k) == \E f \in [0..k -> D] : f[0] = base /\ \A i \in 1..k : f[i] = G[i][f[i - 1]]
           K == {k \in 0..N : Part(k)}
<1>1. 0 \in K
  <2>1. [j \in 0..0 |-> base] \in [0..0 -> D] /\ [j \in 0..0 |-> base][0] = base
    OBVIOUS
  <2>2. \A i \in 1..0 : FALSE
    OBVIOUS
  <2>3. Part(0)
    BY <2>1, <2>2
  <2>4. QED
    BY <2>3
<1>2. ASSUME NEW k \in 0..N, k < N, k \in K PROVE k + 1 \in K
  <2>1. PICK f \in [0..k -> D] : f[0] = base /\ \A i \in 1..k : f[i] = G[i][f[i - 1]]
    BY <1>2
  <2> DEFINE g == [j \in 0..(k + 1) |-> IF j = k + 1 THEN G[k + 1][f[k]] ELSE f[j]]
  <2>2. G[k + 1][f[k]] \in D
    <3>1. k + 1 \in 1..N /\ k \in 0..k
      BY <1>2
    <3>2. QED
      BY <2>1, <3>1
  <2>3. g \in [0..(k + 1) -> D]
    <3>1. \A j \in 0..(k + 1) : j = k + 1 \/ j \in 0..k
      BY <1>2
    <3>2. QED
      BY <2>1, <2>2, <3>1
  <2>4. g[0] = base
    BY <1>2, <2>1
  <2>5. ASSUME NEW i \in 1..(k + 1) PROVE g[i] = G[i][g[i - 1]]
    <3>1. i - 1 \in 0..k /\ i - 1 \in 0..(k + 1) /\ i - 1 # k + 1 /\ i \in 0..(k + 1)
      BY <1>2
    <3>2. g[i - 1] = f[i - 1]
      BY <3>1
    <3>3. CASE i = k + 1
      <4>1. i - 1 = k
        BY <3>3, <1>2
      <4>2. QED
        BY <3>1, <3>2, <3>3, <4>1
    <3>4. CASE i # k + 1
      <4>1. i \in 1..k /\ g[i] = f[i]
        BY <3>4, <1>2, <3>1
      <4>2. QED
        BY <2>1, <3>2, <4>1
    <3>5. QED
      BY <3>3, <3>4
  <2>6. Part(k + 1)
    BY <2>3, <2>4, <2>5
  <2>7. k + 1 \in 0..N
    BY <1>2
  <2>8. QED
    BY <2>6, <2>7
<1> HIDE DEF Part
<1>3. 0..N \subseteq K
  <2> HIDE DEF K
  <2>1. QED
    BY <1>1, <1>2, Upward
<1>4. N \in 0..N
  OBVIOUS
<1>5. Part(N)
  BY <1>3, <1>4
<1>6. QED
  BY <1>5 DEF Part

-----------------------------------------------------------------------------
(* FlattenSeq                                                              *)

Adds(q, N, g) == g[0] = <<>> /\ \A i \in 1..N : g[i] = g[i - 1] \o q[i]

\* There are partial sums.
LEMMA SumsExist ==
  ASSUME NEW S, NEW N \in Nat, NEW q \in [1..N -> Seq(S)]
  PROVE  \E g \in [0..N -> Seq(S)] : Adds(q, N, g)
<1> DEFINE G == [i \in 1..N |-> [s \in Seq(S) |-> s \o q[i]]]
<1>1. G \in [1..N -> [Seq(S) -> Seq(S)]]
  OBVIOUS
<1>2. Steps(N, Seq(S), <<>>, G)
  BY <1>1 DEF Steps
<1>3. PICK g \in [0..N -> Seq(S)] : g[0] = <<>> /\ \A i \in 1..N : g[i] = G[i][g[i - 1]]
  <2> HIDE DEF G
  <2>1. \E f \in [0..N -> Seq(S)] : Climb(N, <<>>, G, f)
    BY <1>2, Climbs
  <2>2. QED
    BY <2>1 DEF Climb
<1>4. ASSUME NEW i \in 1..N PROVE g[i] = g[i - 1] \o q[i]
  <2>1. i - 1 \in 0..N
    OBVIOUS
  <2>2. g[i - 1] \in Seq(S)
    BY <2>1
  <2>3. QED
    BY <1>3, <2>2
<1>5. QED
  BY <1>3, <1>4 DEF Adds

IsSums(q, N, f) == \A i \in 2..N : f[i] = f[i - 1] \o q[i]

\* Partial sums are determined.
LEMMA SumsAgree ==
  ASSUME NEW M \in Nat, NEW q, NEW e, NEW f, IsSums(q, M, e), IsSums(q, M, f), e[1] = f[1]
  PROVE  \A i \in 1..M : e[i] = f[i]
<1> DEFINE K == {k \in 0..M : k = 0 \/ e[k] = f[k]}
<1>1. 0 \in K
  OBVIOUS
<1>2. ASSUME NEW k \in 0..M, k < M, k \in K PROVE k + 1 \in K
  <2>1. k + 1 \in 0..M
    BY <1>2
  <2>2. CASE k = 0
    BY <1>2, <2>1, <2>2
  <2>3. CASE k # 0
    <3>1. k + 1 \in 2..M /\ k + 1 - 1 = k
      BY <1>2, <2>3
    <3>2. PICK x \in 2..M : x = k + 1
      BY <3>1
    <3>3. e[x] = e[x - 1] \o q[x] /\ f[x] = f[x - 1] \o q[x]
      BY DEF IsSums
    <3>4. x - 1 = k
      BY <3>2
    <3>5. e[k] = f[k]
      BY <1>2, <2>3
    <3>6. QED
      BY <2>1, <3>2, <3>3, <3>4, <3>5
  <2>4. QED
    BY <2>2, <2>3
<1>3. 0..M \subseteq K
  <2> HIDE DEF K
  <2>1. QED
    BY <1>1, <1>2, Upward
<1>4. \A i \in 1..M : i \in 0..M /\ i # 0
  OBVIOUS
<1>5. QED
  BY <1>3, <1>4

Sums(q, N, f) == [i \in 1..N |-> IF i = 1 THEN q[i] ELSE f[i - 1] \o q[i]]

SumsOf(q, N) == CHOOSE f : f = Sums(q, N, f)

\* The function that FlattenSeq defines is one of partial sums.
LEMMA FlattenFrom ==
  ASSUME NEW S, NEW N \in Nat, N > 0, NEW q \in [1..N -> Seq(S)]
  PROVE  /\ SumsOf(q, N) \in [1..N -> Seq(S)]
         /\ SumsOf(q, N)[1] = q[1]
         /\ IsSums(q, N, SumsOf(q, N))
<1>1. PICK g \in [0..N -> Seq(S)] : Adds(q, N, g)
  BY SumsExist
<1> DEFINE h == [i \in 1..N |-> g[i]]
           f == SumsOf(q, N)
<1>2. g[1] = q[1]
  <2>1. 1 \in 1..N /\ q[1] \in Seq(S)
    OBVIOUS
  <2>2. PICK i \in 1..N : i = 1
    BY <2>1
  <2>3. g[i] = g[i - 1] \o q[i] /\ g[0] = <<>>
    BY <1>1, Zenon DEF Adds
  <2>4. i - 1 = 0
    BY <2>2
  <2>5. g[1] = <<>> \o q[1]
    BY <2>2, <2>3, <2>4, Zenon
  <2>6. <<>> \o q[1] = q[1]
    BY <2>1
  <2>7. QED
    BY <2>5, <2>6
<1>3. \A i \in 2..N : i \in 1..N /\ i - 1 \in 1..N /\ i # 1
  OBVIOUS
<1>4. \A i \in 1..N : h[i] = IF i = 1 THEN q[i] ELSE h[i - 1] \o q[i]
  <2>1. SUFFICES ASSUME NEW i \in 1..N, i # 1 PROVE h[i] = h[i - 1] \o q[i]
    BY <1>2
  <2>2. i - 1 \in 1..N
    BY <2>1
  <2>3. g[i] = g[i - 1] \o q[i]
    BY <1>1 DEF Adds
  <2>4. QED
    BY <2>2, <2>3
<1>5. h = Sums(q, N, h)
  BY <1>4 DEF Sums
<1>6. f = Sums(q, N, f)
  <2> HIDE DEF h
  <2>1. QED
    BY <1>5 DEF SumsOf
<1> HIDE DEF f
<1>7. \A i \in 1..N : f[i] = IF i = 1 THEN q[i] ELSE f[i - 1] \o q[i]
  BY <1>6 DEF Sums
<1>8. f[1] = q[1] /\ IsSums(q, N, f)
  <2>1. ASSUME NEW i \in 2..N PROVE f[i] = f[i - 1] \o q[i]
    <3>1. i \in 1..N /\ i # 1
      BY <1>3
    <3>2. QED
      BY <1>7, <3>1
  <2>2. f[1] = q[1]
    BY <1>7
  <2>3. QED
    BY <2>1, <2>2 DEF IsSums
<1>9. IsSums(q, N, h)
  <2>1. ASSUME NEW i \in 2..N PROVE h[i] = h[i - 1] \o q[i]
    <3>1. i \in 1..N /\ i # 1
      BY <1>3
    <3> HIDE DEF h
    <3>2. QED
      BY <1>4, <3>1
  <2> HIDE DEF h
  <2>2. QED
    BY <2>1 DEF IsSums
<1>10. h[1] = q[1]
  BY <1>2
<1>11. \A i \in 1..N : f[i] = h[i]
  <2> HIDE DEF h
  <2>1. f[1] = h[1]
    BY <1>8, <1>10
  <2>2. QED
    BY <1>8, <1>9, <2>1, SumsAgree
<1>12. \A i \in 1..N : h[i] \in Seq(S)
  OBVIOUS
<1>13. f \in [1..N -> Seq(S)]
  <2> HIDE DEF h
  <2>1. f = [i \in 1..N |-> f[i]]
    BY <1>6 DEF Sums
  <2>2. \A i \in 1..N : f[i] \in Seq(S)
    BY <1>11, <1>12
  <2>3. QED
    BY <2>1, <2>2
<1>14. QED
  BY <1>8, <1>13 DEF f

\* FlattenSeq of nothing.
LEMMA FlattenNone ==
  ASSUME NEW q \in [1..0 -> {}]
  PROVE  FlattenSeq(q) = <<>>
<1>1. q = <<>> /\ Len(q) = 0
  OBVIOUS
<1>2. QED
  BY <1>1 DEF FlattenSeq

\* FlattenSeq of sequences over S is one over S, and ends with the last of them.
LEMMA FlattenIs ==
  ASSUME NEW S, NEW N \in Nat, N > 0, NEW q \in [1..N -> Seq(S)]
  PROVE  /\ FlattenSeq(q) \in Seq(S)
         /\ FlattenSeq(q) = FlattenSeq([i \in 1..(N - 1) |-> q[i]]) \o q[N]
<1> DEFINE f == SumsOf(q, N)
           p == [i \in 1..(N - 1) |-> q[i]]
           e == SumsOf(p, N - 1)
<1>1. f \in [1..N -> Seq(S)] /\ f[1] = q[1] /\ IsSums(q, N, f)
  BY FlattenFrom
<1>2. FlattenSeq(q) = f[N]
  <2>1. Len(q) = N /\ N # 0
    OBVIOUS
  <2>2. QED
    BY <2>1 DEF FlattenSeq, SumsOf, Sums
<1> HIDE DEF f
<1>3. FlattenSeq(q) \in Seq(S)
  BY <1>1, <1>2
<1>4. CASE N = 1
  <2>1. p \in [1..0 -> {}]
    BY <1>4
  <2>2. FlattenSeq(p) = <<>>
    BY <2>1, FlattenNone
  <2>3. f[1] = <<>> \o q[1]
    BY <1>1, <1>4
  <2>4. QED
    BY <1>2, <1>3, <1>4, <2>2, <2>3
<1>5. CASE N # 1
  <2>1. N - 1 \in Nat /\ N - 1 > 0
    BY <1>5
  <2>2. p \in [1..(N - 1) -> Seq(S)] /\ Len(p) = N - 1
    BY <2>1
  <2>3. \A i \in 1..(N - 1) : p[i] = q[i]
    OBVIOUS
  <2> HIDE DEF p
  <2>4. e \in [1..(N - 1) -> Seq(S)] /\ e[1] = p[1] /\ IsSums(p, N - 1, e)
    <3>1. PICK M \in Nat : M = N - 1
      BY <2>1
    <3>2. QED
      BY <2>1, <2>2, <3>1, FlattenFrom
  <2>5. FlattenSeq(p) = e[N - 1]
    BY <2>1, <2>2 DEF FlattenSeq, SumsOf, Sums
  <2> HIDE DEF e
  <2>6. \A i \in 2..(N - 1) : i \in 1..(N - 1) /\ i \in 2..N
    BY <2>1
  <2>7. IsSums(q, N - 1, e) /\ IsSums(q, N - 1, f)
    BY <1>1, <2>3, <2>4, <2>6 DEF IsSums
  <2>8. e[1] = f[1]
    BY <1>1, <2>1, <2>3, <2>4
  <2>9. \A i \in 1..(N - 1) : e[i] = f[i]
    BY <2>1, <2>7, <2>8, SumsAgree
  <2>10. e[N - 1] = f[N - 1] /\ N \in 2..N
    BY <2>1, <2>9
  <2>11. f[N] = f[N - 1] \o q[N]
    BY <1>1, <2>10 DEF IsSums
  <2>12. QED
    BY <1>2, <1>3, <2>5, <2>10, <2>11 DEF p
<1>6. QED
  BY <1>4, <1>5
-----------------------------------------------------------------------------
(* The atoms of a script.                                                  *)

Values == Nat \cup {"ssl", "gss", "odd", "record", "host", "other", "none", "protocol", "end", "guest"}

Atoms == {"len", "code", "tls", "hello", "startup", "user", "byte"} \X Values

Refusable(m) == m.kind = "request" /\ m.code \in {"ssl", "gss"}

\* Sequences with the same elements.
LEMMA Same ==
  ASSUME NEW A, NEW s \in Seq(A), NEW t \in Seq(A), Len(s) = Len(t), \A i \in 1..Len(s) : s[i] = t[i]
  PROVE  s = t
  OBVIOUS

\* Sequences written atom by atom.
LEMMA Triple ==
  ASSUME NEW A, NEW x \in A, NEW y \in A, NEW z \in A
  PROVE  <<x>> \o <<y>> \o <<z>> = <<x, y, z>>
<1> DEFINE s == <<x>> \o <<y>> \o <<z>>
           t == <<x, y, z>>
<1>1. s \in Seq(A) /\ Len(s) = 3 /\ s[1] = x /\ s[2] = y /\ s[3] = z
  OBVIOUS
<1>2. t \in Seq(A) /\ Len(t) = 3 /\ t[1] = x /\ t[2] = y /\ t[3] = z
  OBVIOUS
<1>3. \A i \in 1..3 : i = 1 \/ i = 2 \/ i = 3
  OBVIOUS
<1> HIDE DEF s, t
<1>4. s = t
  BY <1>1, <1>2, <1>3, Same
<1>5. QED
  BY <1>4, Zenon DEF s, t

\* Sequences written atom by atom.
LEMMA Quadruple ==
  ASSUME NEW A, NEW w \in A, NEW x \in A, NEW y \in A, NEW z \in A
  PROVE  <<w>> \o <<x, y, z>> = <<w, x, y, z>>
<1> DEFINE s == <<w>> \o <<x, y, z>>
           t == <<w, x, y, z>>
<1>1. s \in Seq(A) /\ Len(s) = 4 /\ s[1] = w /\ s[2] = x /\ s[3] = y /\ s[4] = z
  OBVIOUS
<1>2. t \in Seq(A) /\ Len(t) = 4 /\ t[1] = w /\ t[2] = x /\ t[3] = y /\ t[4] = z
  OBVIOUS
<1>3. \A i \in 1..4 : i = 1 \/ i = 2 \/ i = 3 \/ i = 4
  OBVIOUS
<1> HIDE DEF s, t
<1>4. s = t
  BY <1>1, <1>2, <1>3, Same
<1>5. QED
  BY <1>4, Zenon DEF s, t

\* A sequence over fewer atoms.
LEMMA Wider ==
  ASSUME NEW A, NEW B, A \subseteq B, NEW s \in Seq(A)
  PROVE  s \in Seq(B) /\ \A i \in 1..Len(s) : s[i] \in A
  OBVIOUS

\* Sequences of four atoms.
LEMMA FourAtoms ==
  ASSUME NEW A, NEW w \in A, NEW x \in A, NEW y \in A, NEW z \in A
  PROVE  /\ <<w, x, y, z>> \in Seq(A) /\ Len(<<w, x, y, z>>) = 4
         /\ <<w, x, y, z>>[1] = w /\ <<w, x, y, z>>[2] = x
  OBVIOUS

\* A payload byte is an atom.
LEMMA ByteIs ==
  ASSUME NEW x \in {"byte"} \X Nat
  PROVE  x[1] = "byte" /\ x \in Atoms
  BY DEF Atoms, Values

\* What each message looks like from its first two atoms.
LEMMA WireIs ==
  ASSUME NEW m \in Messages
  PROVE  /\ Wire(m) \in Seq(Atoms) /\ Len(Wire(m)) > 0
         /\ m.kind = "request" => /\ m.code \in {"ssl", "gss", "odd"} /\ Len(Wire(m)) = 2
                                  /\ Wire(m)[1] = LenWord(2) /\ Wire(m)[2] = Code(m.code)
         /\ m.kind = "hello" => /\ Len(Wire(m)) = 2 /\ Wire(m)[1] = TlsRecord /\ Wire(m)[2][1] = "hello"
         /\ Wire(m)[1] = TlsRecord => m.kind = "hello"
         /\ Wire(m)[1] = LenWord(2) => m.kind = "request"
         /\ Wire(m)[1][1] = "len" => Len(Wire(m)) >= 2
         /\ Wire(m)[1][1] = "len" /\ Wire(m)[2] = Protocol => m.kind = "startup"
<1> USE DEF Wire, LenWord, Code, TlsRecord, Protocol
<1>1. CASE m.kind = "request"
  <2>1. m.code \in {"ssl", "gss", "odd"}
    BY <1>1 DEF Messages
  <2>2. Wire(m) = <<LenWord(2), Code(m.code)>>
    BY <1>1
  <2>3. LenWord(2) \in Atoms /\ Code(m.code) \in Atoms
    BY <2>1 DEF Atoms, Values
  <2>4. QED
    BY <1>1, <2>1, <2>2, <2>3
<1>2. CASE m.kind = "hello"
  <2>1. m.name \in {"host", "other", "none"}
    BY <1>2 DEF Messages
  <2>2. Wire(m) = <<TlsRecord, Hello(m.name)>>
    BY <1>2
  <2>3. TlsRecord \in Atoms /\ Hello(m.name) \in Atoms
    BY <2>1 DEF Atoms, Values, Hello
  <2>4. QED
    BY <1>2, <2>2, <2>3 DEF Hello
<1>3. CASE m.kind = "startup"
  <2>1. Spelling("guest") = <<User("guest")>>
    BY DEF Spelling
  <2>2. LenWord(4) \in Atoms /\ Protocol \in Atoms /\ User("guest") \in Atoms /\ End \in Atoms
    BY DEF Atoms, Values, User, End
  <2> HIDE DEF LenWord, Protocol
  <2>3. <<Protocol>> \o <<User("guest")>> \o <<End>> = <<Protocol, User("guest"), End>>
    BY <2>2, Triple
  <2>4. Len(<<Protocol, User("guest"), End>>) + 1 = 4
    OBVIOUS
  <2>5. Startup("guest") = <<LenWord(4)>> \o <<Protocol, User("guest"), End>>
    BY <2>1, <2>3, <2>4, Zenon DEF Startup
  <2>6. <<LenWord(4)>> \o <<Protocol, User("guest"), End>> = <<LenWord(4), Protocol, User("guest"), End>>
    BY <2>2, Quadruple
  <2>7. Wire(m) = <<LenWord(4), Protocol, User("guest"), End>>
    <3>1. Wire(m) = Startup("guest")
      BY <1>3
    <3>2. QED
      BY <2>5, <2>6, <3>1, Zenon
  <2>8. /\ Wire(m) \in Seq(Atoms) /\ Len(Wire(m)) = 4
        /\ Wire(m)[1] = LenWord(4) /\ Wire(m)[2] = Protocol
    <3> HIDE DEF Wire
    <3>1. QED
      BY <2>2, <2>7
  <2>9. QED
    <3> HIDE DEF Wire
    <3>1. QED
      BY <1>3, <2>8 DEF LenWord, Protocol
<1>4. CASE m.kind = "junk"
  <2>1. Wire(m) = <<LenWord(3), Code("odd"), Byte(0)>>
    BY <1>4
  <2>2. {LenWord(3), Code("odd"), Byte(0)} \subseteq Atoms
    BY DEF Atoms, Values, Byte
  <2>3. QED
    BY <1>4, <2>1, <2>2
<1>5. CASE m.kind = "badlen"
  <2>1. Wire(m) = <<LenWord(0), Code("odd")>>
    BY <1>5
  <2>2. {LenWord(0), Code("odd")} \subseteq Atoms
    BY DEF Atoms, Values
  <2>3. QED
    BY <1>5, <2>1, <2>2
<1>6. CASE m.kind = "data"
  <2>1. m.bytes \in Seq({"byte"} \X Nat) /\ m.bytes # <<>>
    BY <1>6 DEF Messages
  <2>2. Wire(m) = m.bytes
    BY <1>6
  <2> HIDE DEF Wire
  <2>3. PICK B : B = {"byte"} \X Nat
    OBVIOUS
  <2>4. \A x \in B : x[1] = "byte" /\ x \in Atoms
    BY <2>3, ByteIs
  <2>5. Wire(m) \in Seq(B) /\ Len(Wire(m)) > 0
    <3>1. m.bytes \in Seq(B) /\ m.bytes # <<>>
      BY <2>1, <2>3, Zenon
    <3>2. QED
      BY <2>2, <3>1
  <2>6. Wire(m) \in Seq(Atoms) /\ Wire(m)[1] \in B
    BY <2>4, <2>5
  <2>7. Wire(m)[1][1] = "byte"
    BY <2>4, <2>6
  <2>8. QED
    BY <1>6, <2>5, <2>6, <2>7
<1>7. m.kind \in {"request", "hello", "startup", "junk", "badlen", "data"}
  BY DEF Messages
<1>8. QED
  BY <1>1, <1>2, <1>3, <1>4, <1>5, <1>6, <1>7

\* The atoms of the first i messages, and where message i ends.
Upto(s, i) == FlattenSeq([j \in 1..i |-> Wire(s[j])])
At(s, i)   == Len(Upto(s, i))

\* Upto grows by one message at a time.
LEMMA UptoIs ==
  ASSUME NEW s \in Seq(Messages)
  PROVE  /\ Upto(s, 0) = <<>>
         /\ \A i \in 0..Len(s) : Upto(s, i) \in Seq(Atoms)
         /\ \A i \in 1..Len(s) : Upto(s, i) = Upto(s, i - 1) \o Wire(s[i])
<1>1. Upto(s, 0) = <<>>
  <2>1. [j \in 1..0 |-> Wire(s[j])] \in [1..0 -> {}]
    OBVIOUS
  <2>2. QED
    BY <2>1, FlattenNone DEF Upto
<1>2. ASSUME NEW i \in 1..Len(s)
      PROVE  Upto(s, i) \in Seq(Atoms) /\ Upto(s, i) = Upto(s, i - 1) \o Wire(s[i])
  <2> DEFINE q == [j \in 1..i |-> Wire(s[j])]
  <2>1. \A j \in 1..i : s[j] \in Messages
    OBVIOUS
  <2>2. \A j \in 1..i : Wire(s[j]) \in Seq(Atoms)
    BY <2>1, WireIs
  <2>3. q \in [1..i -> Seq(Atoms)]
    BY <2>2
  <2>4. i \in Nat /\ i > 0
    OBVIOUS
  <2>5. [j \in 1..(i - 1) |-> q[j]] = [j \in 1..(i - 1) |-> Wire(s[j])] /\ q[i] = Wire(s[i])
    BY <2>4
  <2>6. FlattenSeq(q) \in Seq(Atoms) /\ FlattenSeq(q) = FlattenSeq([j \in 1..(i - 1) |-> q[j]]) \o q[i]
    <3> HIDE DEF q
    <3>1. QED
      BY <2>3, <2>4, FlattenIs
  <2>7. QED
    BY <2>5, <2>6 DEF Upto
<1>3. \A i \in 0..Len(s) : i = 0 \/ i \in 1..Len(s)
  OBVIOUS
<1>4. <<>> \in Seq(Atoms)
  OBVIOUS
<1>5. QED
  BY <1>1, <1>2, <1>3, <1>4

\* A message keeps its place in everything that is longer.
LEMMA Laid ==
  ASSUME NEW s \in Seq(Messages), NEW i \in 1..Len(s)
  PROVE  /\ At(s, i - 1) \in Nat /\ At(s, i) = At(s, i - 1) + Len(Wire(s[i]))
         /\ \A j \in i..Len(s) :
              /\ At(s, j) \in Nat /\ At(s, j) >= At(s, i) + (j - i)
              /\ \A p \in 1..Len(Wire(s[i])) : Upto(s, j)[At(s, i - 1) + p] = Wire(s[i])[p]
<1> DEFINE n == Len(Wire(s[i]))
           a == At(s, i - 1)
           Kept(j) == /\ At(s, j) \in Nat /\ At(s, j) >= At(s, i) + (j - i)
                      /\ \A p \in 1..n : Upto(s, j)[a + p] = Wire(s[i])[p]
           K == {k \in 0..(Len(s) - i) : Kept(i + k)}
<1>1. Wire(s[i]) \in Seq(Atoms) /\ n \in Nat /\ n > 0
  BY WireIs
<1>2. Upto(s, i - 1) \in Seq(Atoms) /\ Upto(s, i) = Upto(s, i - 1) \o Wire(s[i]) /\ a \in Nat
  BY UptoIs DEF At
<1>3. At(s, i) = a + n
  BY <1>1, <1>2 DEF At
<1>4. Kept(i)
  <2>1. ASSUME NEW p \in 1..n PROVE Upto(s, i)[a + p] = Wire(s[i])[p]
    BY <1>1, <1>2 DEF At
  <2>2. At(s, i) >= At(s, i) + (i - i)
    BY <1>1, <1>2, <1>3
  <2>3. At(s, i) \in Nat
    BY <1>1, <1>2, <1>3
  <2> HIDE DEF n, a
  <2>4. QED
    BY <2>1, <2>2, <2>3
<1>5. 0 \in K
  <2>1. i + 0 = i /\ 0 \in 0..(Len(s) - i)
    OBVIOUS
  <2> HIDE DEF Kept
  <2>2. QED
    BY <1>4, <2>1
<1>6. ASSUME NEW k \in 0..(Len(s) - i), k < Len(s) - i, k \in K PROVE k + 1 \in K
  <2>1. /\ i + k \in 0..Len(s) /\ i + (k + 1) \in 1..Len(s) /\ i + (k + 1) - 1 = i + k
        /\ k + 1 \in 0..(Len(s) - i)
    BY <1>6
  <2>2. PICK j \in 1..Len(s) : j = i + (k + 1)
    BY <2>1
  <2>3. j - 1 = i + k /\ Kept(j - 1)
    BY <1>6, <2>1, <2>2
  <2>4. /\ Upto(s, j - 1) \in Seq(Atoms) /\ Upto(s, j) = Upto(s, j - 1) \o Wire(s[j])
        /\ Wire(s[j]) \in Seq(Atoms) /\ Len(Wire(s[j])) > 0
    <3>1. s[j] \in Messages /\ j - 1 \in 0..Len(s)
      BY <2>1, <2>2
    <3>2. QED
      BY <3>1, UptoIs, WireIs
  <2>5. At(s, j) = At(s, j - 1) + Len(Wire(s[j])) /\ At(s, j) \in Nat
    BY <2>4 DEF At
  <2>6. At(s, j) >= At(s, i) + (j - i)
    <3>1. At(s, j - 1) \in Nat /\ At(s, j - 1) >= At(s, i) + ((j - 1) - i) /\ At(s, i) \in Nat
      BY <1>1, <1>2, <1>3, <2>3
    <3>2. Len(Wire(s[j])) \in Nat
      BY <2>4
    <3>3. QED
      BY <2>4, <2>5, <3>1, <3>2
  <2>7. ASSUME NEW p \in 1..n PROVE Upto(s, j)[a + p] = Wire(s[i])[p]
    <3>1. a + p \in 1..Len(Upto(s, j - 1))
      <4>1. At(s, j - 1) \in Nat /\ At(s, j - 1) >= (a + n) + ((j - 1) - i) /\ (j - 1) - i \in Nat
        BY <1>3, <1>6, <2>3
      <4>2. At(s, j - 1) = Len(Upto(s, j - 1))
        BY DEF At
      <4>3. QED
        BY <1>1, <1>2, <4>1, <4>2, SMTT(30)
    <3>2. Upto(s, j)[a + p] = Upto(s, j - 1)[a + p]
      BY <2>4, <3>1
    <3>3. QED
      BY <2>3, <3>2
  <2>8. Kept(j)
    BY <2>5, <2>6, <2>7
  <2> HIDE DEF Kept
  <2>9. QED
    BY <2>1, <2>2, <2>8
<1> HIDE DEF Kept
<1>7. Len(s) - i \in Nat
  OBVIOUS
<1>8. 0..(Len(s) - i) \subseteq K
  <2> HIDE DEF K
  <2>1. QED
    BY <1>5, <1>6, <1>7, Upward
<1>9. ASSUME NEW j \in i..Len(s) PROVE Kept(j)
  <2>1. j - i \in 0..(Len(s) - i) /\ i + (j - i) = j
    OBVIOUS
  <2>2. j - i \in K
    BY <1>8, <2>1
  <2>3. QED
    BY <2>1, <2>2
<1>10. QED
  BY <1>2, <1>3, <1>9 DEF Kept

-----------------------------------------------------------------------------
(* Windows on the stream.                                                  *)

Str(s) == Upto(s, Len(s))

(* w is the atoms of the stream behind place a, up to place q.             *)
Win(w, s, a, q) ==
  /\ a \in Nat /\ q \in Nat /\ a <= q /\ q <= Len(Str(s))
  /\ w \in Seq(Atoms) /\ Len(w) = q - a
  /\ \A p \in 1..(q - a) : w[p] = Str(s)[a + p]

\* The whole stream, and the places of the messages in it.
LEMMA StreamIs ==
  ASSUME NEW s \in Seq(Messages)
  PROVE  /\ Str(s) \in Seq(Atoms) /\ Len(Str(s)) \in Nat /\ At(s, 0) = 0 /\ At(s, Len(s)) = Len(Str(s))
         /\ \A i \in 0..Len(s) : At(s, i) \in Nat
<1>1. Len(s) \in 0..Len(s)
  OBVIOUS
<1>2. Str(s) \in Seq(Atoms) /\ Upto(s, 0) = <<>> /\ \A i \in 0..Len(s) : Upto(s, i) \in Seq(Atoms)
  BY <1>1, UptoIs DEF Str
<1>3. QED
  BY <1>2 DEF At, Str

\* Messages follow one another.
LEMMA Later ==
  ASSUME NEW s \in Seq(Messages), NEW i \in 0..Len(s), NEW j \in 0..Len(s)
  PROVE  At(s, i) <= At(s, j) <=> i <= j
<1>1. ASSUME NEW a \in 0..Len(s), NEW b \in 0..Len(s), a < b PROVE At(s, a) < At(s, b)
  <2>1. PICK m \in 1..Len(s) : m = a + 1
    BY <1>1
  <2>2. m - 1 = a /\ b \in m..Len(s)
    BY <1>1, <2>1
  <2>3. /\ At(s, a) \in Nat /\ At(s, m) = At(s, a) + Len(Wire(s[m]))
        /\ At(s, b) \in Nat /\ At(s, b) >= At(s, m) + (b - m)
    BY <2>2, Laid
  <2>4. Len(Wire(s[m])) > 0 /\ Len(Wire(s[m])) \in Nat
    <3>1. s[m] \in Messages
      OBVIOUS
    <3>2. Wire(s[m]) \in Seq(Atoms) /\ Len(Wire(s[m])) > 0
      BY <3>1, WireIs
    <3>3. QED
      BY <3>2
  <2>5. QED
    BY <2>2, <2>3, <2>4
<1>2. At(s, i) \in Nat /\ At(s, j) \in Nat
  BY StreamIs
<1>3. CASE i < j
  BY <1>1, <1>2, <1>3
<1>4. CASE j < i
  <2>1. At(s, j) < At(s, i)
    BY <1>1, <1>4
  <2>2. QED
    BY <1>2, <1>4, <2>1
<1>5. CASE i = j
  BY <1>2, <1>5
<1>6. i < j \/ j < i \/ i = j
  OBVIOUS
<1>7. QED
  BY <1>3, <1>4, <1>5, <1>6, Zenon

\* A part of a sequence.
LEMMA SubIs ==
  ASSUME NEW S, NEW s \in Seq(S), NEW a \in Nat \ {0}, NEW b \in Nat, b <= Len(s), a <= b + 1
  PROVE  /\ SubSeq(s, a, b) \in Seq(S) /\ Len(SubSeq(s, a, b)) = b - a + 1
         /\ \A i \in 1..(b - a + 1) : SubSeq(s, a, b)[i] = s[a + i - 1]
<1>1. \A i \in a..b : s[i] \in S
  BY ElementOfSeq
<1>2. QED
  BY <1>1, SubSeqProperties

\* What is read next is a window.
LEMMA WinRead ==
  ASSUME NEW s \in Seq(Messages), NEW q \in Nat, NEW n \in Nat \ {0}, q + n <= Len(Str(s))
  PROVE  Win(SubSeq(Str(s), q + 1, q + n), s, q, q + n)
<1> DEFINE v == SubSeq(Str(s), q + 1, q + n)
<1>1. Str(s) \in Seq(Atoms) /\ Len(Str(s)) \in Nat
  BY StreamIs
<1>2. /\ v \in Seq(Atoms) /\ Len(v) = (q + n) - (q + 1) + 1
      /\ \A i \in 1..((q + n) - (q + 1) + 1) : v[i] = Str(s)[(q + 1) + i - 1]
  <2>1. q + 1 \in Nat \ {0} /\ q + n \in Nat /\ q + 1 <= q + n + 1
    OBVIOUS
  <2>2. QED
    BY <1>1, <2>1, SubIs
<1>3. (q + n) - (q + 1) + 1 = (q + n) - q
  OBVIOUS
<1>4. \A i \in 1..((q + n) - q) : (q + 1) + i - 1 = q + i
  OBVIOUS
<1> HIDE DEF v
<1>5. Len(v) = (q + n) - q /\ \A i \in 1..((q + n) - q) : v[i] = Str(s)[q + i]
  BY <1>2, <1>3, <1>4
<1>6. Win(v, s, q, q + n)
  BY <1>1, <1>2, <1>5 DEF Win
<1>7. QED
  BY <1>6 DEF v

\* Windows join.
LEMMA WinJoin ==
  ASSUME NEW s \in Seq(Messages), NEW u, NEW v, NEW a, NEW m, NEW q, Win(u, s, a, m), Win(v, s, m, q)
  PROVE  Win(u \o v, s, a, q)
<1>1. /\ a \in Nat /\ m \in Nat /\ q \in Nat /\ a <= m /\ m <= q /\ q <= Len(Str(s)) /\ a <= q
      /\ u \in Seq(Atoms) /\ v \in Seq(Atoms) /\ Len(u) = m - a /\ Len(v) = q - m
  BY DEF Win
<1>2. u \o v \in Seq(Atoms) /\ Len(u \o v) = Len(u) + Len(v)
  BY <1>1, ConcatProperties
<1>3. Len(u) + Len(v) = q - a
  BY <1>1
<1>4. ASSUME NEW p \in 1..(q - a) PROVE (u \o v)[p] = Str(s)[a + p]
  <2>1. p \in 1..(Len(u) + Len(v))
    BY <1>3
  <2>2. (u \o v)[p] = IF p <= Len(u) THEN u[p] ELSE v[p - Len(u)]
    BY <1>1, <2>1, ConcatProperties
  <2>3. CASE p <= m - a
    <3>1. p \in 1..(m - a)
      BY <1>1, <2>3
    <3>2. QED
      BY <1>1, <2>2, <2>3, <3>1 DEF Win
  <2>4. CASE ~(p <= m - a)
    <3>1. p - (m - a) \in 1..(q - m) /\ m + (p - (m - a)) = a + p
      BY <1>1, <2>4
    <3>2. v[p - (m - a)] = Str(s)[m + (p - (m - a))]
      BY <3>1 DEF Win
    <3>3. QED
      BY <1>1, <2>2, <2>4, <3>1, <3>2
  <2>5. QED
    BY <2>3, <2>4
<1>5. QED
  BY <1>1, <1>2, <1>3, <1>4 DEF Win

\* What is left of a window.
LEMMA WinRest ==
  ASSUME NEW s \in Seq(Messages), NEW w, NEW a, NEW q, Win(w, s, a, q), NEW k \in 0..(q - a)
  PROVE  Win(Rest(w, k), s, a + k, q)
<1>1. /\ a \in Nat /\ q \in Nat /\ a <= q /\ q <= Len(Str(s)) /\ w \in Seq(Atoms) /\ Len(w) = q - a
      /\ k \in Nat /\ k <= q - a
  BY DEF Win
<1> DEFINE v == Rest(w, k)
<1>2. /\ v \in Seq(Atoms) /\ Len(v) = Len(w) - (k + 1) + 1
      /\ \A i \in 1..(Len(w) - (k + 1) + 1) : v[i] = w[(k + 1) + i - 1]
  <2>1. k + 1 \in Nat \ {0} /\ Len(w) \in Nat /\ Len(w) <= Len(w) /\ k + 1 <= Len(w) + 1
    BY <1>1
  <2>2. QED
    BY <1>1, <2>1, SubIs DEF Rest
<1> HIDE DEF v
<1>3. Len(w) - (k + 1) + 1 = q - (a + k) /\ a + k \in Nat /\ a + k <= q
  BY <1>1
<1>4. ASSUME NEW p \in 1..(q - (a + k)) PROVE v[p] = Str(s)[(a + k) + p]
  <2>1. (k + 1) + p - 1 = k + p /\ k + p \in 1..(q - a) /\ a + (k + p) = (a + k) + p
    BY <1>1
  <2>2. v[p] = w[k + p]
    BY <1>2, <1>3, <2>1
  <2>3. w[k + p] = Str(s)[a + (k + p)]
    BY <2>1 DEF Win
  <2>4. QED
    BY <2>1, <2>2, <2>3
<1>5. Win(v, s, a + k, q)
  BY <1>1, <1>2, <1>3, <1>4 DEF Win
<1>6. QED
  BY <1>5 DEF v

\* An empty window.
LEMMA WinNone ==
  ASSUME NEW s \in Seq(Messages), NEW a \in Nat, a <= Len(Str(s))
  PROVE  Win(<<>>, s, a, a)
<1>1. a - a = 0 /\ <<>> \in Seq(Atoms) /\ Len(<<>>) = 0 /\ \A p \in 1..0 : FALSE
  OBVIOUS
<1>2. QED
  BY <1>1 DEF Win

\* The atoms a window begins with are those of the message it begins at.
LEMMA HeadAtoms ==
  ASSUME NEW s \in Seq(Messages), NEW c \in 0..Len(s), NEW w, NEW q, Win(w, s, At(s, c), q), w # <<>>
  PROVE  /\ c + 1 \in 1..Len(s) /\ s[c + 1] \in Messages /\ Len(w) \in Nat /\ Len(w) > 0
         /\ At(s, c + 1) = At(s, c) + Len(Wire(s[c + 1])) /\ q = At(s, c) + Len(w)
         /\ w[1] = Wire(s[c + 1])[1]
         /\ Len(w) >= 2 /\ Len(Wire(s[c + 1])) >= 2 => w[2] = Wire(s[c + 1])[2]
<1> DEFINE a == At(s, c)
<1>1. /\ a \in Nat /\ q \in Nat /\ a <= q /\ q <= Len(Str(s)) /\ w \in Seq(Atoms) /\ Len(w) = q - a
  BY DEF Win
<1>2. Len(w) > 0 /\ Len(w) \in Nat
  BY <1>1
<1>3. c # Len(s)
  <2>1. At(s, Len(s)) = Len(Str(s))
    BY StreamIs
  <2>2. QED
    BY <1>1, <1>2, <2>1
<1>4. PICK m \in 1..Len(s) : m = c + 1
  BY <1>3
<1>5. m - 1 = c /\ s[m] \in Messages /\ Len(s) \in m..Len(s)
  BY <1>4
<1>6. /\ At(s, m) = At(s, m - 1) + Len(Wire(s[m]))
      /\ \A p \in 1..Len(Wire(s[m])) : Upto(s, Len(s))[At(s, m - 1) + p] = Wire(s[m])[p]
  BY <1>5, Laid
<1>7. Wire(s[m]) \in Seq(Atoms) /\ Len(Wire(s[m])) > 0
  BY <1>5, WireIs
<1>8. \A p \in 1..Len(w) : w[p] = Str(s)[a + p]
  BY <1>1 DEF Win
<1> HIDE DEF a
<1>9. \A p \in 1..Len(Wire(s[m])) : Str(s)[a + p] = Wire(s[m])[p]
  BY <1>5, <1>6 DEF Str, a
<1>10. w[1] = Wire(s[m])[1]
  <2>1. 1 \in 1..Len(w) /\ 1 \in 1..Len(Wire(s[m]))
    BY <1>2, <1>7
  <2>2. QED
    BY <1>8, <1>9, <2>1
<1>11. ASSUME Len(w) >= 2, Len(Wire(s[m])) >= 2 PROVE w[2] = Wire(s[m])[2]
  <2>1. 2 \in 1..Len(w) /\ 2 \in 1..Len(Wire(s[m]))
    BY <1>2, <1>7, <1>11
  <2>2. QED
    BY <1>8, <1>9, <2>1
<1>12. q = a + Len(w)
  BY <1>1 DEF a
<1>13. QED
  BY <1>2, <1>4, <1>5, <1>6, <1>10, <1>11, <1>12 DEF a

\* A window that begins at a message tells what the message is.
LEMMA HeadIs ==
  ASSUME NEW s \in Seq(Messages), NEW c \in 0..Len(s), NEW w, NEW q, Win(w, s, At(s, c), q), w # <<>>
  PROVE  /\ w[1] = TlsRecord <=> s[c + 1].kind = "hello"
         /\ \A x \in {"ssl", "gss"} : IsRequest(w, x) =>
               s[c + 1].kind = "request" /\ s[c + 1].code = x /\ At(s, c + 1) = At(s, c) + 2
         /\ Len(w) >= 2 /\ Refusable(s[c + 1]) => IsRequest(w, "ssl") \/ IsRequest(w, "gss")
         /\ Len(w) >= 2 /\ w[1][1] = "len" /\ w[2] = Protocol => s[c + 1].kind = "startup"
<1> DEFINE m == s[c + 1]
<1>1. /\ m \in Messages /\ Len(w) \in Nat /\ Len(w) > 0
      /\ At(s, c + 1) = At(s, c) + Len(Wire(m)) /\ w[1] = Wire(m)[1]
      /\ Len(w) >= 2 /\ Len(Wire(m)) >= 2 => w[2] = Wire(m)[2]
  BY HeadAtoms
<1>2. /\ Wire(m) \in Seq(Atoms) /\ Len(Wire(m)) > 0
      /\ m.kind = "request" => /\ m.code \in {"ssl", "gss", "odd"} /\ Len(Wire(m)) = 2
                               /\ Wire(m)[1] = LenWord(2) /\ Wire(m)[2] = Code(m.code)
      /\ m.kind = "hello" => /\ Len(Wire(m)) = 2 /\ Wire(m)[1] = TlsRecord /\ Wire(m)[2][1] = "hello"
      /\ Wire(m)[1] = TlsRecord => m.kind = "hello"
      /\ Wire(m)[1] = LenWord(2) => m.kind = "request"
      /\ Wire(m)[1][1] = "len" => Len(Wire(m)) >= 2
      /\ Wire(m)[1][1] = "len" /\ Wire(m)[2] = Protocol => m.kind = "startup"
  BY <1>1, WireIs
<1> HIDE DEF m
<1>3. w[1] = TlsRecord <=> m.kind = "hello"
  BY <1>1, <1>2
<1>4. ASSUME NEW x \in {"ssl", "gss"}, IsRequest(w, x)
      PROVE  m.kind = "request" /\ m.code = x /\ At(s, c + 1) = At(s, c) + 2
  <2>1. Len(w) >= 2 /\ w[1] = LenWord(2) /\ w[2] = Code(x)
    BY <1>4 DEF IsRequest, NegotiationLen
  <2>2. m.kind = "request" /\ Len(Wire(m)) = 2 /\ Wire(m)[2] = Code(m.code)
    BY <1>1, <1>2, <2>1
  <2>3. Code(m.code) = Code(x)
    BY <1>1, <2>1, <2>2
  <2>4. m.code = x
    BY <2>3 DEF Code
  <2>5. QED
    BY <1>1, <2>2, <2>4
<1>5. ASSUME Len(w) >= 2, Refusable(m) PROVE IsRequest(w, "ssl") \/ IsRequest(w, "gss")
  <2>1. m.kind = "request" /\ m.code \in {"ssl", "gss"}
    BY <1>5 DEF Refusable
  <2>2. w[1] = LenWord(2) /\ w[2] = Code(m.code)
    <3>1. Wire(m)[1] = LenWord(2) /\ Wire(m)[2] = Code(m.code) /\ Len(Wire(m)) = 2
      BY <1>2, <2>1, Zenon
    <3>2. Len(Wire(m)) >= 2
      BY <3>1
    <3>3. w[1] = Wire(m)[1] /\ w[2] = Wire(m)[2]
      BY <1>1, <1>5, <3>2, Zenon
    <3>4. QED
      BY <3>1, <3>3, Zenon
  <2>3. QED
    BY <1>5, <2>1, <2>2 DEF IsRequest, NegotiationLen
<1>6. ASSUME Len(w) >= 2, w[1][1] = "len", w[2] = Protocol PROVE m.kind = "startup"
  <2>1. Wire(m)[1][1] = "len"
    BY <1>1, <1>6
  <2>2. Len(Wire(m)) >= 2
    BY <1>2, <2>1
  <2>3. Wire(m)[2] = Protocol
    BY <1>1, <1>6, <2>2
  <2>4. QED
    BY <1>2, <2>1, <2>3
<1>7. QED
  BY <1>3, <1>4, <1>5, <1>6 DEF m

\* The requests that lead a window are messages of the script.
LEMMA Walk ==
  ASSUME NEW s \in Seq(Messages), NEW c \in 0..Len(s), NEW w, NEW q, Win(w, s, At(s, c), q),
         NEW k, k = Requests(w)
  PROVE  /\ k \in Nat /\ c + k \in 0..Len(s) /\ Win(Rest(w, k * NegotiationLen), s, At(s, c + k), q)
         /\ \A j \in (c + 1)..(c + k) : Refusable(s[j])
<1> DEFINE a == At(s, c)
           Leads(i) == LET at == Rest(w, i * NegotiationLen) IN IsRequest(at, "ssl") \/ IsRequest(at, "gss")
           N == Len(w) \div NegotiationLen
           I == {j \in 0..N : \A i \in 0..(j - 1) : Leads(i)}
<1>1. /\ a \in Nat /\ q \in Nat /\ a <= q /\ q <= Len(Str(s)) /\ w \in Seq(Atoms) /\ Len(w) = q - a
      /\ Len(w) \in Nat
  BY DEF Win
<1>2. N \in Nat /\ \A j \in 0..N : 2 * j <= Len(w)
  BY <1>1 DEF NegotiationLen
<1>3. 0 \in I
  <2>1. \A i \in 0..(0 - 1) : FALSE
    OBVIOUS
  <2>2. 0 \in 0..N
    BY <1>2
  <2> HIDE DEF Leads, N
  <2>3. QED
    BY <2>1, <2>2
<1>4. k = Max(I)
  BY DEF Requests
<1>5. k \in I
  <2>1. I \in SUBSET (0..N) /\ I # {}
    BY <1>3
  <2> HIDE DEF I, N
  <2>2. QED
    BY <1>2, <1>4, <2>1, GreatestExists
<1>6. k \in Nat /\ 2 * k <= q - a /\ \A i \in 0..(k - 1) : Leads(i)
  <2> HIDE DEF Leads, N
  <2>1. k \in 0..N /\ \A i \in 0..(k - 1) : Leads(i)
    BY <1>5
  <2>2. QED
    BY <1>1, <1>2, <2>1
<1> HIDE DEF I, N
<1> DEFINE Met(i) == /\ c + i \in 0..Len(s) /\ At(s, c + i) = a + 2 * i
                     /\ \A j \in (c + 1)..(c + i) : Refusable(s[j])
           K == {i \in 0..k : Met(i)}
<1>7. 0 \in K
  <2>1. c + 0 = c /\ a + 2 * 0 = a /\ 0 \in 0..k /\ \A j \in (c + 1)..(c + 0) : FALSE
    BY <1>1, <1>6
  <2>2. QED
    BY <2>1
<1>8. ASSUME NEW i \in 0..k, i < k, i \in K PROVE i + 1 \in K
  <2>1. c + i \in 0..Len(s) /\ At(s, c + i) = a + 2 * i /\ \A j \in (c + 1)..(c + i) : Refusable(s[j])
    BY <1>8
  <2>2. PICK d \in 0..Len(s) : d = c + i
    BY <2>1
  <2>3. i \in 0..(k - 1) /\ 2 * i \in 0..(q - a) /\ i + 1 \in 0..k
    BY <1>1, <1>6, <1>8
  <2> DEFINE v == Rest(w, i * NegotiationLen)
  <2>4. IsRequest(v, "ssl") \/ IsRequest(v, "gss")
    BY <1>6, <2>3
  <2>5. i * NegotiationLen = 2 * i
    BY <2>3 DEF NegotiationLen
  <2>6. Win(v, s, At(s, d), q)
    <3>1. Win(Rest(w, 2 * i), s, a + 2 * i, q)
      BY <2>3, WinRest
    <3>2. QED
      BY <2>1, <2>2, <2>5, <3>1
  <2> HIDE DEF v
  <2>7. v # <<>>
    BY <2>4, <2>6 DEF IsRequest, NegotiationLen, Win
  <2>8. d + 1 \in 1..Len(s)
    BY <2>6, <2>7, HeadAtoms
  <2>9. s[d + 1].kind = "request" /\ s[d + 1].code \in {"ssl", "gss"} /\ At(s, d + 1) = At(s, d) + 2
    BY <2>4, <2>6, <2>7, HeadIs
  <2>10. c + (i + 1) = d + 1 /\ a + 2 * (i + 1) = a + 2 * i + 2
    BY <1>1, <2>2
  <2>11. ASSUME NEW j \in (c + 1)..(c + (i + 1)) PROVE Refusable(s[j])
    <3>1. j = d + 1 \/ j \in (c + 1)..(c + i)
      BY <2>2, <2>10
    <3>2. QED
      BY <2>1, <2>9, <3>1 DEF Refusable
  <2>12. c + (i + 1) \in 0..Len(s) /\ At(s, c + (i + 1)) = a + 2 * (i + 1)
    <3>1. At(s, c + (i + 1)) = At(s, d + 1) /\ At(s, d) = a + 2 * i
      BY <2>1, <2>2, <2>10
    <3>2. QED
      BY <2>8, <2>9, <2>10, <3>1
  <2>13. QED
    BY <2>3, <2>11, <2>12
<1> HIDE DEF Met
<1>9. 0..k \subseteq K
  <2> HIDE DEF K
  <2>1. QED
    BY <1>6, <1>7, <1>8, Upward
<1>10. Met(k)
  BY <1>6, <1>9
<1>11. Win(Rest(w, 2 * k), s, a + 2 * k, q)
  BY <1>6, WinRest
<1>12. k * NegotiationLen = 2 * k
  BY <1>6 DEF NegotiationLen
<1>13. QED
  BY <1>6, <1>10, <1>11, <1>12 DEF Met

(* ClearLen, of a script.                                                  *)
Hellos(s) == {i \in DOMAIN Str(s) : Str(s)[i][1] = "hello"}
Clear(s)  == IF Hellos(s) = {} THEN Len(Str(s)) ELSE Min(Hellos(s))

\* The definitions above are the module's.
LEMMA OfScript ==
  ASSUME script \in Seq(Messages)
  PROVE  Stream = Str(script) /\ ClearLen = Clear(script)
<1>1. DOMAIN script = 1..Len(script)
  OBVIOUS
<1>2. Stream = Str(script)
  BY <1>1 DEF Stream, Str, Upto
<1>3. QED
  BY <1>2 DEF ClearLen, Clear, Hellos

\* What is sent in the clear is a part of the stream.
LEMMA ClearIs ==
  ASSUME NEW s \in Seq(Messages)
  PROVE  /\ Clear(s) \in Nat /\ Clear(s) <= Len(Str(s))
         /\ \A i \in Hellos(s) : Clear(s) <= i
         /\ Clear(s) = Len(Str(s)) \/ Str(s)[Clear(s)][1] = "hello"
<1>1. Str(s) \in Seq(Atoms) /\ Len(Str(s)) \in Nat /\ DOMAIN Str(s) = 1..Len(Str(s))
  <2>1. Str(s) \in Seq(Atoms)
    BY StreamIs
  <2>2. QED
    BY <2>1
<1>2. CASE Hellos(s) = {}
  BY <1>1, <1>2 DEF Clear
<1>3. CASE Hellos(s) # {}
  <2>1. Hellos(s) \in SUBSET Nat /\ \A i \in Hellos(s) : i <= Len(Str(s)) /\ Str(s)[i][1] = "hello"
    BY <1>1 DEF Hellos
  <2>2. Clear(s) \in Hellos(s) /\ \A i \in Hellos(s) : Clear(s) <= i
    BY <1>3, <2>1, MinIs DEF Clear
  <2>3. QED
    BY <1>1, <2>1, <2>2
<1>4. QED
  BY <1>2, <1>3

\* A hello that was begun in the clear is the first one: the clear ends with it.
LEMMA ClearAtHello ==
  ASSUME NEW s \in Seq(Messages), NEW c \in 0..Len(s), NEW w, NEW q, Win(w, s, At(s, c), q), w # <<>>,
         w[1] = TlsRecord, q <= Clear(s)
  PROVE  c + 1 \in 1..Len(s) /\ Clear(s) = At(s, c + 1)
<1> DEFINE a == At(s, c)
<1>1. /\ c + 1 \in 1..Len(s) /\ s[c + 1] \in Messages /\ At(s, c + 1) = a + Len(Wire(s[c + 1]))
      /\ q = a + Len(w) /\ Len(w) > 0 /\ Len(w) \in Nat /\ a \in Nat
  <2>1. a \in Nat
    BY DEF Win
  <2>2. QED
    BY <2>1, HeadAtoms
<1>2. s[c + 1].kind = "hello"
  BY HeadIs
<1>3. Len(Wire(s[c + 1])) = 2 /\ Wire(s[c + 1])[1] = TlsRecord /\ Wire(s[c + 1])[2][1] = "hello"
  BY <1>1, <1>2, WireIs
<1>4. PICK m \in 1..Len(s) : m = c + 1
  BY <1>1
<1>5. m - 1 = c /\ Len(s) \in m..Len(s)
  BY <1>4
<1>6. \A p \in 1..Len(Wire(s[m])) : Upto(s, Len(s))[At(s, m - 1) + p] = Wire(s[m])[p]
  BY <1>5, Laid
<1>7. Str(s)[a + 1] = TlsRecord /\ Str(s)[a + 2][1] = "hello"
  <2>1. 1 \in 1..Len(Wire(s[m])) /\ 2 \in 1..Len(Wire(s[m]))
    BY <1>3, <1>4
  <2>2. QED
    BY <1>3, <1>4, <1>5, <1>6, <2>1 DEF Str
<1>8. Str(s)[a + 1][1] # "hello"
  BY <1>7 DEF TlsRecord
<1>9. At(s, c + 1) = a + 2
  BY <1>1, <1>3
<1>10. a + 2 \in 1..Len(Str(s))
  <2>1. At(s, c + 1) <= At(s, Len(s))
    <3>1. c + 1 \in 0..Len(s) /\ Len(s) \in 0..Len(s) /\ c + 1 <= Len(s)
      BY <1>1
    <3>2. QED
      BY <3>1, Later
  <2>2. At(s, Len(s)) = Len(Str(s)) /\ Len(Str(s)) \in Nat
    BY StreamIs
  <2>3. QED
    BY <1>1, <1>9, <2>1, <2>2
<1>11. a + 2 \in Hellos(s)
  <2>1. Str(s) \in Seq(Atoms)
    BY StreamIs
  <2>2. DOMAIN Str(s) = 1..Len(Str(s))
    BY <2>1
  <2>3. QED
    BY <1>7, <1>10, <2>2 DEF Hellos
<1>12. Clear(s) <= a + 2 /\ a + 1 <= Clear(s) /\ Clear(s) \in Nat
  BY <1>1, <1>11, ClearIs
<1>13. Clear(s) # a + 1
  <2>1. Clear(s) = Len(Str(s)) \/ Str(s)[Clear(s)][1] = "hello"
    BY ClearIs
  <2>2. a + 1 # Len(Str(s))
    BY <1>1, <1>10
  <2>3. QED
    BY <1>8, <2>1, <2>2, Zenon
<1>14. QED
  BY <1>1, <1>9, <1>12, <1>13

-----------------------------------------------------------------------------
(* The answers.                                                            *)

Letters == {"S", "N"}

(* The answer that request j is due.                                       *)
Letter(s, j) == IF s[j].code = "ssl" /\ At(s, j) <= Clear(s) THEN "S" ELSE "N"

(* The place of message j among those that are not the hello, h.           *)
Rank(j, h) == IF h # 0 /\ h < j THEN j - 1 ELSE j

(* The answers to the first c messages, of which h is the hello, if any.   *)
Told(s, c, h, a) ==
  /\ a \in Seq(Letters) /\ Len(a) = (IF h = 0 THEN c ELSE c - 1)
  /\ \A j \in 1..c : j # h => Refusable(s[j]) /\ a[Rank(j, h)] = Letter(s, j)

\* Nothing was asked yet.
LEMMA ToldNone ==
  ASSUME NEW s
  PROVE  Told(s, 0, 0, <<>>)
  BY DEF Told

\* One more request is answered before the hello.
LEMMA ToldNext ==
  ASSUME NEW s, NEW c \in Nat, NEW a, Told(s, c, 0, a), Refusable(s[c + 1]), NEW x, x = Letter(s, c + 1)
  PROVE  Told(s, c + 1, 0, Append(a, x))
<1> DEFINE b == Append(a, x)
<1>1. a \in Seq(Letters) /\ Len(a) = c /\ x \in Letters
  BY DEF Told, Letter, Letters
<1>2. /\ b \in Seq(Letters) /\ Len(b) = c + 1 /\ b[c + 1] = x
      /\ \A i \in 1..c : b[i] = a[i]
  BY <1>1, AppendProperties
<1> HIDE DEF b
<1>3. ASSUME NEW j \in 1..(c + 1), j # 0 PROVE Refusable(s[j]) /\ b[Rank(j, 0)] = Letter(s, j)
  <2>1. Rank(j, 0) = j
    BY DEF Rank
  <2>2. CASE j = c + 1
    BY <1>2, <2>1, <2>2
  <2>3. CASE j # c + 1
    <3>1. j \in 1..c
      BY <2>3
    <3>2. Refusable(s[j]) /\ a[j] = Letter(s, j)
      BY <1>3, <2>1, <3>1 DEF Told
    <3>3. QED
      BY <1>2, <2>1, <3>1, <3>2
  <2>4. QED
    BY <2>2, <2>3
<1>4. Told(s, c + 1, 0, b)
  BY <1>2, <1>3 DEF Told
<1>5. QED
  BY <1>4 DEF b

\* The hello is no request.
LEMMA ToldHello ==
  ASSUME NEW s, NEW c \in Nat, NEW a, Told(s, c, 0, a)
  PROVE  Told(s, c + 1, c + 1, a)
<1>1. a \in Seq(Letters) /\ Len(a) = c + 1 - 1 /\ c + 1 # 0
  BY DEF Told
<1>2. ASSUME NEW j \in 1..(c + 1), j # c + 1 PROVE Refusable(s[j]) /\ a[Rank(j, c + 1)] = Letter(s, j)
  <2>1. j \in 1..c /\ j # 0 /\ Rank(j, c + 1) = j /\ Rank(j, 0) = j
    BY <1>2 DEF Rank
  <2>2. Refusable(s[j]) /\ a[Rank(j, 0)] = Letter(s, j)
    BY <2>1 DEF Told
  <2>3. QED
    BY <2>1, <2>2
<1>3. QED
  BY <1>1, <1>2 DEF Told

\* Requests inside TLS are all refused.
LEMMA ToldMore ==
  ASSUME NEW s, NEW c \in Nat, NEW h \in 1..c, NEW a, Told(s, c, h, a), NEW k \in Nat,
         \A j \in (c + 1)..(c + k) : Refusable(s[j]) /\ Letter(s, j) = "N"
  PROVE  Told(s, c + k, h, a \o [i \in 1..k |-> "N"])
<1> DEFINE n == [i \in 1..k |-> "N"]
<1>1. a \in Seq(Letters) /\ Len(a) = c - 1 /\ h # 0
  BY DEF Told
<1>2. n \in Seq(Letters) /\ Len(n) = k /\ \A i \in 1..k : n[i] = "N"
  <2>1. n \in [1..k -> Letters]
    BY DEF Letters
  <2>2. n \in Seq(Letters)
    BY <2>1, SeqDef
  <2>3. QED
    BY <2>1, <2>2
<1> HIDE DEF n
<1> DEFINE b == a \o n
<1>3. /\ b \in Seq(Letters) /\ Len(b) = Len(a) + Len(n)
      /\ \A i \in 1..(Len(a) + Len(n)) : b[i] = IF i <= Len(a) THEN a[i] ELSE n[i - Len(a)]
  BY <1>1, <1>2, ConcatProperties
<1> HIDE DEF b
<1>4. Len(b) = c + k - 1 /\ Len(a) + Len(n) = c + k - 1
  BY <1>1, <1>2, <1>3
<1>5. ASSUME NEW j \in 1..(c + k), j # h PROVE Refusable(s[j]) /\ b[Rank(j, h)] = Letter(s, j)
  <2>1. Rank(j, h) \in 1..(c + k - 1)
    BY <1>5 DEF Rank
  <2>2. CASE j <= c
    <3>1. j \in 1..c /\ Rank(j, h) <= c - 1
      BY <1>5, <2>2 DEF Rank
    <3>2. Refusable(s[j]) /\ a[Rank(j, h)] = Letter(s, j)
      BY <1>5, <3>1 DEF Told
    <3>3. QED
      BY <1>1, <1>3, <1>4, <2>1, <3>1, <3>2
  <2>3. CASE j > c
    <3>1. j \in (c + 1)..(c + k) /\ Rank(j, h) = j - 1 /\ ~(j - 1 <= c - 1) /\ (j - 1) - (c - 1) \in 1..k
      BY <1>5, <2>3 DEF Rank
    <3>2. b[j - 1] = n[(j - 1) - (c - 1)]
      BY <1>1, <1>3, <1>4, <2>1, <3>1
    <3>3. b[j - 1] = "N"
      BY <1>2, <3>1, <3>2
    <3>4. QED
      BY <3>1, <3>3
  <2>4. QED
    BY <2>2, <2>3
<1>6. Told(s, c + k, h, b)
  BY <1>1, <1>3, <1>4, <1>5 DEF Told
<1>7. QED
  BY <1>6 DEF b, n

\* No request, no answer.
LEMMA ToldSame ==
  ASSUME NEW a \in Seq(Letters), NEW k, k = 0
  PROVE  a \o [i \in 1..k |-> "N"] = a
<1>1. [i \in 1..k |-> "N"] = <<>>
  OBVIOUS
<1>2. QED
  BY <1>1, ConcatEmptySeq

\* How many messages are not the hello.
LEMMA OtherThan ==
  ASSUME NEW c \in Nat, NEW h \in Nat
  PROVE  Cardinality((1..c) \ {h}) = IF h # 0 /\ h <= c THEN c - 1 ELSE c
<1>1. IsFiniteSet(1..c) /\ Cardinality(1..c) = c
  <2>1. /\ IsFiniteSet(1..c)
        /\ Cardinality(1..c) = IF 1 > c THEN 0 ELSE c - 1 + 1
    BY FS_Interval
  <2>2. QED
    BY <2>1
<1>2. CASE h \in 1..c
  <2>1. Cardinality((1..c) \ {h}) = Cardinality(1..c) - 1
    BY <1>1, <1>2, FS_RemoveElement
  <2>2. QED
    BY <1>1, <1>2, <2>1
<1>3. CASE h \notin 1..c
  <2>1. (1..c) \ {h} = 1..c
    BY <1>3
  <2>2. ~(h # 0 /\ h <= c)
    BY <1>3
  <2>3. QED
    BY <1>1, <2>1, <2>2
<1>4. QED
  BY <1>2, <1>3

(* The requests of s that end at or before place t, up to the first        *)
(* message that is neither a request nor a hello.                          *)
Due(s, t) == {i \in DOMAIN s : /\ s[i].kind = "request" /\ s[i].code # "odd" /\ At(s, i) <= t
                               /\ \A j \in 1..i : s[j].kind \in {"request", "hello"}}

\* They are the first c messages, but for the hello.
LEMMA DueIs ==
  ASSUME NEW s \in Seq(Messages), NEW c \in 0..Len(s), NEW h \in 0..c, NEW a, Told(s, c, h, a),
         h # 0 => s[h].kind = "hello", NEW t \in Nat, At(s, c) <= t,
         t = At(s, c) \/ (c + 1 \in 1..Len(s) /\ s[c + 1].kind = "startup")
  PROVE  Due(s, t) = (1..c) \ {h}
<1>1. DOMAIN s = 1..Len(s) /\ Len(s) \in Nat
  OBVIOUS
<1>2. ASSUME NEW i \in Due(s, t) PROVE i \in (1..c) \ {h}
  <2>1. /\ i \in 1..Len(s) /\ s[i].kind = "request" /\ At(s, i) <= t
        /\ \A j \in 1..i : s[j].kind \in {"request", "hello"}
    BY <1>1, <1>2 DEF Due
  <2>2. i # h
    BY <2>1
  <2>3. i <= c
    <3>1. CASE t = At(s, c)
      <4>1. i \in 0..Len(s) /\ At(s, i) <= At(s, c)
        BY <2>1, <3>1
      <4>2. QED
        BY <4>1, Later
    <3>2. CASE c + 1 \in 1..Len(s) /\ s[c + 1].kind = "startup"
      <4>1. SUFFICES ASSUME ~(i <= c) PROVE FALSE
        OBVIOUS
      <4>2. c + 1 \in 1..i
        BY <2>1, <4>1
      <4>3. QED
        BY <2>1, <3>2, <4>2
    <3>3. QED
      BY <3>1, <3>2
  <2>4. QED
    BY <2>1, <2>2, <2>3
<1>3. ASSUME NEW i \in (1..c) \ {h} PROVE i \in Due(s, t)
  <2>1. i \in 1..c /\ i # h /\ i \in 1..Len(s) /\ i <= c /\ i \in 0..Len(s)
    BY <1>1
  <2>2. \A j \in 1..c : j # h => s[j].kind = "request" /\ s[j].code \in {"ssl", "gss"}
    BY DEF Told, Refusable
  <2>3. s[i].kind = "request" /\ s[i].code # "odd"
    BY <2>1, <2>2
  <2>4. At(s, i) <= t
    <3>1. At(s, i) <= At(s, c)
      BY <2>1, Later
    <3>2. At(s, i) \in Nat /\ At(s, c) \in Nat
      BY <2>1, StreamIs
    <3>3. QED
      BY <3>1, <3>2
  <2>5. ASSUME NEW j \in 1..i PROVE s[j].kind \in {"request", "hello"}
    <3>1. j \in 1..c /\ (j = h => h # 0)
      BY <2>1
    <3>2. QED
      BY <2>2, <3>1
  <2>6. QED
    BY <1>1, <2>1, <2>3, <2>4, <2>5 DEF Due
<1>4. QED
  BY <1>2, <1>3

\* The answers are the letters due, in order.
LEMMA DueAnswered ==
  ASSUME NEW s \in Seq(Messages), NEW c \in 0..Len(s), NEW h \in 0..c, NEW a, Told(s, c, h, a),
         h # 0 => s[h].kind = "hello", NEW t \in Nat, At(s, c) <= t,
         t = At(s, c) \/ (c + 1 \in 1..Len(s) /\ s[c + 1].kind = "startup")
  PROVE  /\ Len(a) = Cardinality(Due(s, t))
         /\ \A i \in Due(s, t) : a[Cardinality({j \in Due(s, t) : j <= i})] = Letter(s, i)
<1>1. Due(s, t) = (1..c) \ {h}
  BY DueIs
<1>2. c \in Nat /\ h \in Nat /\ Len(a) = (IF h = 0 THEN c ELSE c - 1)
  BY DEF Told
<1>3. Cardinality((1..c) \ {h}) = IF h # 0 /\ h <= c THEN c - 1 ELSE c
  BY <1>2, OtherThan
<1>4. ASSUME NEW i \in (1..c) \ {h}
      PROVE  a[Cardinality({j \in (1..c) \ {h} : j <= i})] = Letter(s, i)
  <2>1. {j \in (1..c) \ {h} : j <= i} = (1..i) \ {h}
    BY <1>2
  <2>2. i \in Nat /\ i \in 1..c /\ i # h
    BY <1>2
  <2>3. Cardinality((1..i) \ {h}) = IF h # 0 /\ h <= i THEN i - 1 ELSE i
    BY <1>2, <2>2, OtherThan
  <2>4. Cardinality((1..i) \ {h}) = Rank(i, h)
    BY <1>2, <2>2, <2>3 DEF Rank
  <2>5. a[Rank(i, h)] = Letter(s, i)
    BY <2>2 DEF Told
  <2>6. QED
    BY <2>1, <2>4, <2>5
<1>5. Len(a) = Cardinality((1..c) \ {h})
  BY <1>2, <1>3
<1>6. QED
  BY <1>1, <1>4, <1>5, Zenon

-----------------------------------------------------------------------------
(* The inductive invariant.                                                *)

Early == {"opening", "hello", "dial", "ask", "legs"}

NewWire == [state |-> "Greeting", buf |-> <<>>, held |-> <<>>, closed |-> FALSE]

WireShape(w) == w = [state |-> w.state, buf |-> w.buf, held |-> w.held, closed |-> w.closed]

(* A guest that goes on in the clear: told N so far, and not asking.       *)
Plain(s, c) == c + 1 \in 1..Len(s) /\ ~Refusable(s[c + 1]) /\ \A j \in 1..c : s[j].code = "gss"

(* The guest's first c messages are consumed, and the buffer starts behind *)
(* them.                                                                   *)
Opened(c) ==
  /\ Win(buf, script, At(script, c), pos) /\ pos <= Clear(script) /\ Told(script, c, 0, answers)
  /\ phase = "opening" => ~guestTls /\ \A j \in 1..c : script[j].code = "gss"
  /\ phase \in {"dial", "ask", "legs"} => IF guestTls THEN OpensTls(buf) ELSE Plain(script, c)

Greeting(c) ==
  /\ wire.buf \in Seq(Atoms) /\ buf \in Seq(Atoms)
  /\ Win(wire.buf \o buf, script, At(script, c), pos)

Relaying(c) ==
  /\ wire.state = "Relay" /\ wire.buf = <<>> /\ buf = <<>>
  /\ c + 1 \in 1..Len(script) /\ script[c + 1].kind = "startup"
  /\ pos \in Nat /\ At(script, c) <= pos

(* The wire machine consumed the first c messages, of which h was the      *)
(* hello, if there was one.                                                *)
Relayed(c, h) ==
  /\ Told(script, c, h, answers)
  /\ h # 0 => guestTls /\ script[h].kind = "hello" /\ Clear(script) = At(script, h)
  /\ h = 0 => Plain(script, c)
  /\ IF wire.state = "Greeting" THEN Greeting(c) ELSE Relaying(c)

GuestInv ==
  /\ script \in Seq(Messages) /\ phase \in Early \cup {"relay", "closed"}
  /\ phase \in Early => wire = NewWire /\ \E c \in 0..Len(script) : Opened(c)
  /\ phase = "relay" /\ ~wire.closed =>
       WireShape(wire) /\ \E c \in 0..Len(script) : \E h \in 0..c : Relayed(c, h)

\* What was consumed, in the terms of the property.
LEMMA GuestMeans ==
  ASSUME GuestInv
  PROVE  RequestsAnswered
<1> DEFINE taken == pos - Len(buf) - Len(wire.buf)
           Right(t) == /\ Len(answers) = Cardinality(Due(script, t))
                       /\ \A i \in Due(script, t) :
                            answers[Cardinality({j \in Due(script, t) : j <= i})] = Letter(script, i)
           Said == \E n \in DOMAIN answers : answers[n] = "S"
<1>1. script \in Seq(Messages) /\ Stream = Str(script) /\ ClearLen = Clear(script)
  BY OfScript DEF GuestInv
<1>2. ASSUME phase \in Early PROVE Right(taken) /\ phase # "relay"
  <2>1. PICK c \in 0..Len(script) : Opened(c)
    BY <1>2 DEF GuestInv
  <2>2. wire.buf = <<>> /\ Len(wire.buf) = 0
    BY <1>2 DEF GuestInv, NewWire
  <2>3. /\ Told(script, c, 0, answers) /\ At(script, c) \in Nat /\ pos \in Nat
        /\ Len(buf) = pos - At(script, c)
    BY <2>1 DEF Opened, Win
  <2>4. taken = At(script, c)
    BY <2>2, <2>3
  <2> HIDE DEF taken
  <2>5. PICK h \in 0..c : h = 0
    OBVIOUS
  <2>6. PICK t \in Nat : t = At(script, c)
    BY <2>3
  <2>7. Right(t)
    BY <1>1, <2>3, <2>5, <2>6, DueAnswered
  <2>8. QED
    BY <1>2, <2>4, <2>6, <2>7 DEF Early
<1>3. ASSUME phase = "relay", ~wire.closed PROVE Right(taken) /\ (Said => guestTls)
  <2>1. PICK c \in 0..Len(script) : \E h \in 0..c : Relayed(c, h)
    BY <1>3 DEF GuestInv
  <2>2. PICK h \in 0..c : Relayed(c, h)
    BY <2>1
  <2>3. Told(script, c, h, answers) /\ (h # 0 => script[h].kind = "hello") /\ At(script, c) \in Nat
    BY <1>1, <2>2, StreamIs DEF Relayed
  <2>4. /\ taken \in Nat /\ At(script, c) <= taken
        /\ taken = At(script, c) \/ (c + 1 \in 1..Len(script) /\ script[c + 1].kind = "startup")
    <3>1. CASE wire.state = "Greeting"
      <4>1. /\ wire.buf \in Seq(Atoms) /\ buf \in Seq(Atoms) /\ pos \in Nat
            /\ Len(wire.buf \o buf) = pos - At(script, c)
        BY <2>2, <3>1 DEF Relayed, Greeting, Win
      <4>2. Len(wire.buf \o buf) = Len(wire.buf) + Len(buf)
        BY <4>1, ConcatProperties
      <4>3. Len(wire.buf) \in Nat /\ Len(buf) \in Nat
        BY <4>1
      <4>4. pos - Len(buf) - Len(wire.buf) = At(script, c)
        <5>1. PICK x \in Nat, y \in Nat, z \in Nat, p \in Nat :
                x = Len(wire.buf) /\ y = Len(buf) /\ z = At(script, c) /\ p = pos
          BY <2>3, <4>1, <4>3
        <5>2. x + y = p - z
          BY <4>1, <4>2, <5>1, Zenon
        <5>3. p - y - x = z
          BY <5>2
        <5>4. QED
          BY <5>1, <5>3, Zenon
      <4>5. taken = At(script, c)
        BY <4>4
      <4> HIDE DEF taken
      <4>6. QED
        BY <2>3, <4>5
    <3>2. CASE wire.state # "Greeting"
      <4>1. Relaying(c)
        BY <2>2, <3>2 DEF Relayed
      <4>2. wire.buf = <<>> /\ buf = <<>> /\ pos \in Nat /\ At(script, c) <= pos
        BY <4>1 DEF Relaying
      <4>3. taken = pos
        BY <4>2
      <4>4. QED
        BY <4>1, <4>2, <4>3 DEF Relaying
    <3>3. QED
      BY <3>1, <3>2
  <2> HIDE DEF taken
  <2>5. Right(taken)
    BY <1>1, <2>3, <2>4, DueAnswered
  <2>6. ASSUME Said PROVE guestTls
    <3>1. CASE h # 0
      BY <2>2, <3>1 DEF Relayed
    <3>2. CASE h = 0
      <4>1. answers \in Seq(Letters) /\ Len(answers) = c
        BY <2>3, <3>2 DEF Told
      <4>2. PICK n \in 1..c : answers[n] = "S"
        BY <2>6, <4>1
      <4>3. answers[Rank(n, h)] = Letter(script, n) /\ Rank(n, h) = n
        BY <2>3, <3>2 DEF Told, Rank
      <4>4. script[n].code = "gss"
        BY <2>2, <3>2 DEF Relayed, Plain
      <4>5. QED
        BY <4>2, <4>3, <4>4 DEF Letter
    <3>3. QED
      BY <3>1, <3>2
  <2>7. QED
    BY <2>5, <2>6
<1>4. SUFFICES ASSUME phase # "closed", ~wire.closed PROVE Right(taken) /\ (phase = "relay" /\ Said => guestTls)
  <2>1. Due(script, taken) = {i \in DOMAIN script :
                                /\ script[i].kind = "request" /\ script[i].code # "odd"
                                /\ Len(FlattenSeq([j \in 1..i |-> Wire(script[j])])) <= taken
                                /\ \A j \in 1..i : script[j].kind \in {"request", "hello"}}
    BY DEF Due, At, Upto
  <2>2. \A i : Letter(script, i) = IF script[i].code = "ssl" /\ Len(FlattenSeq([j \in 1..i |-> Wire(script[j])])) <= ClearLen
                                   THEN "S" ELSE "N"
    BY <1>1 DEF Letter, At, Upto
  <2>3. QED
    BY <1>4, <2>1, <2>2 DEF RequestsAnswered
<1>5. QED
  BY <1>2, <1>3, <1>4 DEF GuestInv

\* The invariant, of a state whose script is unchanged.
LEMMA EarlyInv ==
  ASSUME script \in Seq(Messages), script' = script, phase' \in Early, wire' = NewWire,
         NEW c \in 0..Len(script), Opened(c)'
  PROVE  GuestInv'
<1>1. c \in 0..Len(script')
  OBVIOUS
<1>2. QED
  BY <1>1 DEF GuestInv, Early

\* serve returns.
LEMMA ClosedInv ==
  ASSUME script \in Seq(Messages), script' = script, phase' = "closed"
  PROVE  GuestInv'
  BY DEF GuestInv, Early

\* The opening starts at the first byte.
LEMMA GuestInit ==
  ASSUME Init
  PROVE  GuestInv
<1>1. /\ script \in Seq(Messages) /\ phase = "opening" /\ wire = NewWire /\ buf = <<>> /\ pos = 0
      /\ answers = <<>> /\ guestTls = FALSE
  BY ScriptsAssumption DEF Init, NewWire
<1>2. At(script, 0) = 0 /\ Len(Str(script)) \in Nat /\ Clear(script) \in Nat
  BY <1>1, StreamIs, ClearIs
<1>3. Win(<<>>, script, 0, 0)
  BY <1>1, <1>2, WinNone
<1>4. Told(script, 0, 0, <<>>)
  BY ToldNone
<1>5. Opened(0)
  BY <1>1, <1>2, <1>3, <1>4 DEF Opened
<1>6. 0 \in 0..Len(script)
  BY <1>1
<1>7. QED
  BY <1>1, <1>5, <1>6 DEF GuestInv, Early

\* A read of the opening, or of the hello.
LEMMA ReadKept ==
  ASSUME GuestInv, phase \in {"opening", "hello"}, ReadMore(ClearLen)
  PROVE  GuestInv'
<1>1. script \in Seq(Messages) /\ Stream = Str(script) /\ ClearLen = Clear(script)
  BY OfScript DEF GuestInv
<1>2. PICK c \in 0..Len(script) : Opened(c)
  BY DEF GuestInv, Early
<1>3. wire = NewWire /\ UNCHANGED <<script, phase, guestTls, answers, wire>>
  BY DEF GuestInv, Early, ReadMore, rule, machine
<1>4. PICK n \in 1..(Clear(script) - pos) :
         buf' = buf \o SubSeq(Str(script), pos + 1, pos + n) /\ pos' = pos + n
  BY <1>1 DEF ReadMore
<1>5. Win(buf, script, At(script, c), pos) /\ pos \in Nat /\ Clear(script) \in Nat /\ Clear(script) <= Len(Str(script))
      /\ Len(Str(script)) \in Nat
  BY <1>1, <1>2, ClearIs, StreamIs DEF Opened, Win
<1>6. n \in Nat \ {0} /\ pos + n <= Clear(script) /\ pos + n <= Len(Str(script))
  BY <1>5
<1>7. Win(SubSeq(Str(script), pos + 1, pos + n), script, pos, pos + n)
  BY <1>1, <1>5, <1>6, WinRead
<1>8. Win(buf', script, At(script, c), pos')
  BY <1>1, <1>4, <1>5, <1>7, WinJoin
<1>9. Opened(c)'
  <2>1. Told(script, c, 0, answers) /\ (phase = "opening" => ~guestTls /\ \A j \in 1..c : script[j].code = "gss")
    BY <1>2 DEF Opened
  <2>2. QED
    BY <1>3, <1>4, <1>6, <1>8, <2>1 DEF Opened
<1>10. QED
  BY <1>1, <1>3, <1>9, EarlyInv DEF Early

\* A request of the opening is consumed, and answered what it is due.
LEMMA AnswerKept ==
  ASSUME GuestInv, phase = "opening", NEW x \in {"ssl", "gss"}, IsRequest(buf, x),
         answers' = Append(answers, IF x = "ssl" THEN "S" ELSE "N"), buf' = Rest(buf, NegotiationLen),
         phase' = (IF x = "ssl" THEN "hello" ELSE "opening"), UNCHANGED <<script, pos, guestTls, wire>>
  PROVE  GuestInv'
<1>1. script \in Seq(Messages) /\ wire = NewWire
  BY DEF GuestInv, Early
<1>2. PICK c \in 0..Len(script) : Opened(c)
  BY DEF GuestInv, Early
<1>3. /\ Win(buf, script, At(script, c), pos) /\ pos <= Clear(script) /\ Told(script, c, 0, answers)
      /\ ~guestTls /\ \A j \in 1..c : script[j].code = "gss"
  BY <1>2 DEF Opened
<1>4. Len(buf) >= 2 /\ buf # <<>> /\ Len(buf) = pos - At(script, c) /\ pos \in Nat /\ At(script, c) \in Nat
  BY <1>3 DEF IsRequest, NegotiationLen, Win
<1>5. c + 1 \in 1..Len(script) /\ c \in Nat
  BY <1>1, <1>3, <1>4, HeadAtoms
<1>6. script[c + 1].kind = "request" /\ script[c + 1].code = x /\ At(script, c + 1) = At(script, c) + 2
  BY <1>1, <1>3, <1>4, HeadIs
<1>7. Win(Rest(buf, 2), script, At(script, c) + 2, pos)
  <2>1. 2 \in 0..(pos - At(script, c))
    BY <1>4
  <2>2. QED
    BY <1>1, <1>3, <2>1, WinRest
<1>8. Win(buf', script, At(script, c + 1), pos)
  BY <1>6, <1>7 DEF NegotiationLen
<1>9. Letter(script, c + 1) = IF x = "ssl" THEN "S" ELSE "N"
  <2>1. Clear(script) \in Nat
    BY <1>1, ClearIs
  <2>2. At(script, c + 1) <= Clear(script)
    BY <1>3, <1>4, <1>6, <2>1
  <2>3. QED
    BY <1>6, <2>2 DEF Letter
<1>10. Told(script, c + 1, 0, answers')
  BY <1>3, <1>5, <1>6, <1>9, ToldNext DEF Refusable
<1>11. ASSUME phase' = "opening" PROVE \A j \in 1..(c + 1) : script[j].code = "gss"
  <2>1. x = "gss"
    BY <1>11
  <2>2. \A j \in 1..(c + 1) : j \in 1..c \/ j = c + 1
    BY <1>5
  <2>3. QED
    BY <1>3, <1>6, <2>1, <2>2
<1>12. Opened(c + 1)'
  BY <1>3, <1>8, <1>10, <1>11 DEF Opened
<1>13. PICK d \in 0..Len(script) : d = c + 1
  BY <1>5
<1>14. Opened(d)'
  BY <1>12, <1>13
<1>15. QED
  BY <1>1, <1>14, EarlyInv DEF Early

\* From the opening or the hello to the dial, and on to the handshakes.
LEMMA OnwardKept ==
  ASSUME GuestInv, phase \in Early, phase' \in {"hello", "dial", "ask", "legs"},
         UNCHANGED <<script, pos, buf, answers, wire>>,
         phase' = "hello" => phase = "opening",
         phase \in {"dial", "ask", "legs"} => phase' # "hello" /\ guestTls' = guestTls,
         phase = "hello" => phase' = "dial" /\ OpensTls(buf) /\ guestTls',
         phase = "opening" /\ phase' # "hello" =>
            /\ Len(buf) >= NegotiationLen /\ ~IsRequest(buf, "ssl") /\ ~IsRequest(buf, "gss")
            /\ guestTls' = guestTls
  PROVE  GuestInv'
<1>1. script \in Seq(Messages) /\ wire = NewWire
  BY DEF GuestInv
<1>2. PICK c \in 0..Len(script) : Opened(c)
  BY DEF GuestInv
<1>3. /\ Win(buf, script, At(script, c), pos) /\ pos <= Clear(script) /\ Told(script, c, 0, answers)
  BY <1>2 DEF Opened
<1>4. ASSUME phase' \in {"dial", "ask", "legs"} PROVE IF guestTls' THEN OpensTls(buf) ELSE Plain(script, c)
  <2>1. CASE phase \in {"dial", "ask", "legs"}
    BY <1>2, <2>1 DEF Opened
  <2>2. CASE phase = "hello"
    BY <2>2
  <2>3. CASE phase = "opening"
    <3>1. /\ ~guestTls' /\ \A j \in 1..c : script[j].code = "gss"
          /\ Len(buf) >= 2 /\ ~IsRequest(buf, "ssl") /\ ~IsRequest(buf, "gss")
      BY <1>2, <1>4, <2>3 DEF Opened, NegotiationLen
    <3>2. buf # <<>>
      BY <3>1
    <3>3. c + 1 \in 1..Len(script)
      BY <1>1, <1>3, <3>2, HeadAtoms
    <3>4. ~Refusable(script[c + 1])
      BY <1>1, <1>3, <3>1, <3>2, HeadIs
    <3>5. QED
      BY <3>1, <3>3, <3>4 DEF Plain
  <2>4. QED
    BY <2>1, <2>2, <2>3 DEF Early
<1>5. Opened(c)'
  <2>1. OpensTls(buf)' <=> OpensTls(buf)
    BY DEF OpensTls
  <2>2. QED
    BY <1>3, <1>4, <2>1 DEF Opened
<1>6. QED
  BY <1>1, <1>5, EarlyInv DEF Early

\* The relay's part of the invariant.
LEMMA RelayInv ==
  ASSUME script \in Seq(Messages), script' = script, phase' = "relay", WireShape(wire'),
         NEW c \in 0..Len(script), NEW h \in 0..c, Relayed(c, h)'
  PROVE  GuestInv'
<1>1. c \in 0..Len(script') /\ WireShape(wire)'
  BY DEF WireShape
<1>2. QED
  BY <1>1 DEF GuestInv, Early

\* A machine that latched closed owes nothing.
LEMMA LatchInv ==
  ASSUME script \in Seq(Messages), script' = script, phase' = "relay", wire'.closed
  PROVE  GuestInv'
  BY DEF GuestInv, Early

\* The handshakes: what the guest sent in the clear ends with its hello.
LEMMA HandshakesKept ==
  ASSUME GuestInv, Legs
  PROVE  GuestInv'
<1>1. /\ script \in Seq(Messages) /\ wire = NewWire /\ ClearLen = Clear(script)
      /\ UNCHANGED <<script, guestTls, answers, wire>> /\ phase = "legs"
  BY OfScript DEF GuestInv, Early, Legs, rule, machine
<1>2. CASE phase' = "closed"
  BY <1>1, <1>2, ClosedInv
<1>3. CASE phase' = "relay" /\ buf' = (IF guestTls THEN <<>> ELSE buf) /\ pos' = (IF guestTls THEN Clear(script) ELSE pos)
  <2>1. PICK c \in 0..Len(script) : Opened(c)
    BY <1>1 DEF GuestInv, Early
  <2>2. /\ Win(buf, script, At(script, c), pos) /\ pos <= Clear(script) /\ Told(script, c, 0, answers)
        /\ IF guestTls THEN OpensTls(buf) ELSE Plain(script, c)
    BY <1>1, <2>1 DEF Opened
  <2>3. WireShape(wire') /\ wire'.state = "Greeting" /\ wire'.buf = <<>> /\ <<>> \in Seq(Atoms)
    BY <1>1 DEF NewWire, WireShape
  <2>4. CASE guestTls
    <3>1. buf # <<>> /\ buf[1] = TlsRecord /\ buf' = <<>> /\ pos' = Clear(script)
      BY <1>3, <2>2, <2>4 DEF OpensTls
    <3>2. c + 1 \in 1..Len(script) /\ Clear(script) = At(script, c + 1)
      BY <1>1, <2>2, <3>1, ClearAtHello
    <3>3. script[c + 1].kind = "hello"
      BY <1>1, <2>2, <3>1, HeadIs
    <3>4. Told(script, c + 1, c + 1, answers)
      <4>1. c \in Nat
        OBVIOUS
      <4>2. QED
        BY <2>2, <4>1, ToldHello
    <3>5. PICK d \in 0..Len(script) : d = c + 1
      BY <3>2
    <3>6. Win(<<>>, script, Clear(script), Clear(script))
      BY <1>1, ClearIs, WinNone
    <3>7. <<>> \o <<>> = <<>>
      OBVIOUS
    <3>8. Greeting(d)'
      BY <1>1, <2>3, <3>1, <3>2, <3>5, <3>6, <3>7 DEF Greeting
    <3>9. Relayed(d, d)'
      BY <1>1, <2>3, <2>4, <3>2, <3>3, <3>4, <3>5, <3>8 DEF Relayed
    <3>10. d \in 0..d
      OBVIOUS
    <3>11. QED
      BY <1>1, <1>3, <2>3, <3>9, <3>10, RelayInv
  <2>5. CASE ~guestTls
    <3>1. buf' = buf /\ pos' = pos /\ Plain(script, c) /\ buf \in Seq(Atoms)
      BY <1>3, <2>2, <2>5 DEF Win
    <3>2. <<>> \o buf = buf
      BY <3>1, ConcatEmptySeq
    <3>3. Greeting(c)'
      BY <1>1, <2>2, <2>3, <3>1, <3>2 DEF Greeting
    <3>4. Relayed(c, 0)'
      BY <1>1, <2>2, <2>3, <3>1, <3>3 DEF Relayed
    <3>5. 0 \in 0..c
      OBVIOUS
    <3>6. QED
      BY <1>1, <1>3, <2>3, <3>4, <3>5, RelayInv
  <2>6. QED
    BY <2>4, <2>5
<1>4. QED
  BY <1>1, <1>2, <1>3 DEF Legs, Close, Goto

\* The answers to the requests that lead what was fed.
LEMMA RepliesTell ==
  ASSUME script \in Seq(Messages), NEW c \in 0..Len(script), NEW h \in 0..c, Relayed(c, h), NEW k \in Nat,
         c + k \in 0..Len(script), \A j \in (c + 1)..(c + k) : Refusable(script[j]), Replies(k)
  PROVE  /\ h = 0 => k = 0
         /\ Told(script, c + k, h, answers')
<1>1. /\ Told(script, c, h, answers) /\ answers \in Seq(Letters)
      /\ h # 0 => Clear(script) = At(script, h)
      /\ h = 0 => Plain(script, c)
  BY DEF Relayed, Told
<1>2. ASSUME h = 0 PROVE k = 0
  <2>1. SUFFICES ASSUME k # 0 PROVE FALSE
    OBVIOUS
  <2>2. c + 1 \in (c + 1)..(c + k)
    BY <2>1
  <2>3. QED
    BY <1>1, <1>2, <2>2 DEF Plain
<1>3. answers' = answers \o [i \in 1..k |-> "N"]
  BY DEF Replies
<1>4. CASE h = 0
  <2>1. answers' = answers
    BY <1>1, <1>2, <1>3, <1>4, ToldSame
  <2>2. c + k = c
    BY <1>2, <1>4
  <2>3. QED
    BY <1>1, <1>2, <1>4, <2>1, <2>2
<1>5. CASE h # 0
  <2>1. ASSUME NEW j \in (c + 1)..(c + k) PROVE Letter(script, j) = "N"
    <3>1. j \in 0..Len(script) /\ h \in 0..Len(script) /\ ~(j <= h)
      OBVIOUS
    <3>2. ~(At(script, j) <= At(script, h))
      BY <3>1, Later
    <3>3. QED
      BY <1>1, <1>5, <3>2 DEF Letter
  <2>2. h \in 1..c /\ c \in Nat
    BY <1>5
  <2>3. Told(script, c + k, h, answers \o [i \in 1..k |-> "N"])
    BY <1>1, <2>1, <2>2, ToldMore
  <2>4. QED
    BY <1>3, <1>5, <2>3
<1>6. QED
  BY <1>2, <1>4, <1>5

\* A startup message is recognised by its first two atoms.
LEMMA StartupSeen ==
  ASSUME NEW b \in Seq(Atoms), ~Incomplete(b), ~Malformed(b), ReadStartup(Prefix(b, Declared(b)))
  PROVE  b # <<>> /\ Len(b) >= 2 /\ b[1][1] = "len" /\ b[2] = Protocol
<1> DEFINE d == Declared(b)
<1>1. d \in 2..MaxGreeting /\ ~(Len(b) < d) /\ MaxGreeting \in Nat
  BY ScriptsAssumption DEF Malformed, Incomplete, NegotiationLen
<1>2. Len(b) \in Nat /\ d \in Nat /\ 2 <= d /\ d <= Len(b)
  BY <1>1
<1>3. b # <<>> /\ Len(b) >= 2
  BY <1>2
<1>4. b[1][1] = "len"
  BY <1>1, <1>3 DEF Declared
<1> HIDE DEF d
<1>5. SubSeq(b, 1, d)[2] = b[2]
  <2>1. /\ \A i \in 1..(d - 1 + 1) : SubSeq(b, 1, d)[i] = b[1 + i - 1]
    <3>1. 1 \in Nat \ {0} /\ 1 <= d + 1
      BY <1>2
    <3>2. QED
      BY <1>2, <3>1, SubIs
  <2>2. PICK i \in 1..(d - 1 + 1) : i = 2
    BY <1>2
  <2>3. SubSeq(b, 1, d)[i] = b[1 + i - 1]
    BY <2>1
  <2>4. 1 + i - 1 = i
    OBVIOUS
  <2>5. QED
    BY <2>2, <2>3, <2>4, Zenon
<1>6. b[2] = Protocol
  BY <1>5 DEF ReadStartup, Prefix, d
<1>7. QED
  BY <1>3, <1>4, <1>6

\* feed_greeting: every request that leads what is buffered is refused.
LEMMA GreetingKept ==
  ASSUME script \in Seq(Messages), NEW c \in 0..Len(script), NEW h \in 0..c, Relayed(c, h), WireShape(wire),
         ~wire.closed, wire.state = "Greeting", NEW chunk, FeedGreeting(chunk),
         Win(wire.buf \o chunk, script, At(script, c), pos'), buf' = <<>>,
         UNCHANGED <<script, phase, guestTls>>, phase = "relay"
  PROVE  GuestInv'
<1> DEFINE full == wire.buf \o chunk
           k == Requests(full)
           b == Rest(full, k * NegotiationLen)
           msg == Prefix(b, Declared(b))
           fed1 == IF scope.rewrite THEN RewriteStartupUser(msg) ELSE msg
<1>1. /\ k \in Nat /\ c + k \in 0..Len(script) /\ Win(b, script, At(script, c + k), pos')
      /\ \A j \in (c + 1)..(c + k) : Refusable(script[j])
  <2> HIDE DEF full
  <2>1. QED
    BY Walk DEF full
<1>2. \/ wire' = [wire EXCEPT !.buf = full, !.closed = TRUE]
      \/ \E x : wire' = [wire EXCEPT !.buf = x, !.closed = TRUE]
      \/ Replies(k) /\ Incomplete(b) /\ wire' = [wire EXCEPT !.buf = b]
      \/ Replies(k) /\ ~Incomplete(b) /\ ~Malformed(b) /\ ReadStartup(msg) /\ InnerFeed(fed1)
  <2> HIDE DEF full, k, b, msg, fed1
  <2>1. FeedGreeting(chunk) =
          IF Len(full) > MaxGreeting THEN Latch(full) /\ Replies(0)
          ELSE /\ Replies(k)
               /\ \/ /\ Incomplete(b)
                     /\ wire' = [wire EXCEPT !.buf = b]
                     /\ UNCHANGED <<toServer, forgot, dropped>>
                  \/ /\ ~Incomplete(b)
                     /\ Malformed(b) \/ ~ReadStartup(msg)
                     /\ Latch(IF Malformed(b) \/ Len(msg) = NegotiationLen THEN b ELSE Rest(b, Len(msg)))
                  \/ /\ ~Incomplete(b) /\ ~Malformed(b) /\ ReadStartup(msg)
                     /\ InnerFeed(fed1)
                     /\ dropped' = (Len(b) > Len(msg))
    BY DEF FeedGreeting, full, k, b, msg, fed1
  <2>2. QED
    BY <2>1 DEF Latch
<1>3. CASE \E x : wire' = [wire EXCEPT !.buf = x, !.closed = TRUE]
  <2>1. wire'.closed
    BY <1>3 DEF WireShape
  <2>2. QED
    BY <2>1, LatchInv
<1> HIDE DEF full, k, b, msg, fed1
<1>4. ASSUME Replies(k) PROVE (h = 0 => k = 0) /\ Told(script, c + k, h, answers')
  BY <1>1, <1>4, RepliesTell
<1>5. PICK d \in 0..Len(script) : d = c + k
  BY <1>1
<1>6. h \in 0..d /\ b \in Seq(Atoms) /\ Win(b, script, At(script, d), pos')
  BY <1>1, <1>5 DEF Win
<1>7. ASSUME Replies(k)
      PROVE  (IF wire'.state = "Greeting" THEN Greeting(d)' ELSE Relaying(d)') => Relayed(d, h)'
  <2>1. Told(script, d, h, answers') /\ (h = 0 => d = c)
    BY <1>4, <1>5, <1>7
  <2>2. /\ h # 0 => guestTls /\ script[h].kind = "hello" /\ Clear(script) = At(script, h)
        /\ h = 0 => Plain(script, d)
    BY <2>1 DEF Relayed
  <2>3. QED
    BY <2>1, <2>2 DEF Relayed
<1>8. CASE Replies(k) /\ wire' = [wire EXCEPT !.buf = b]
  <2>1. wire'.buf = b /\ wire'.state = "Greeting" /\ WireShape(wire')
    BY <1>8 DEF WireShape
  <2>2. b \o <<>> = b /\ <<>> \in Seq(Atoms)
    BY <1>6, ConcatEmptySeq
  <2>3. Greeting(d)'
    BY <1>6, <2>1, <2>2 DEF Greeting
  <2>4. Relayed(d, h)'
    <3>1. (IF wire'.state = "Greeting" THEN Greeting(d)' ELSE Relaying(d)') => Relayed(d, h)'
      BY <1>7, <1>8
    <3>2. QED
      BY <2>1, <2>3, <3>1
  <2>5. QED
    BY <1>6, <2>1, <2>4, RelayInv
<1>9. CASE Replies(k) /\ ~Incomplete(b) /\ ~Malformed(b) /\ ReadStartup(msg) /\ InnerFeed(fed1)
  <2>1. wire'.buf = <<>> /\ wire'.state = "Relay" /\ WireShape(wire')
    BY <1>9 DEF InnerFeed, WireShape
  <2>2. b # <<>> /\ Len(b) >= 2 /\ b[1][1] = "len" /\ b[2] = Protocol
    BY <1>6, <1>9, StartupSeen DEF msg
  <2>3. d + 1 \in 1..Len(script) /\ script[d + 1].kind = "startup"
    BY <1>6, <2>2, HeadAtoms, HeadIs
  <2>4. pos' \in Nat /\ At(script, d) <= pos'
    BY <1>6 DEF Win
  <2>5. Relaying(d)'
    BY <2>1, <2>3, <2>4 DEF Relaying
  <2>6. Relayed(d, h)'
    <3>1. (IF wire'.state = "Greeting" THEN Greeting(d)' ELSE Relaying(d)') => Relayed(d, h)'
      BY <1>7, <1>9
    <3>2. QED
      BY <2>1, <2>5, <3>1
  <2>7. QED
    BY <1>6, <2>1, <2>6, RelayInv
<1>10. QED
  BY <1>2, <1>3, <1>8, <1>9

\* The relay reads what is replayed first, then the guest.
LEMMA FeedKept ==
  ASSUME GuestInv, RelayFeed
  PROVE  GuestInv'
<1>1. /\ script \in Seq(Messages) /\ Stream = Str(script) /\ phase = "relay" /\ ~wire.closed
      /\ UNCHANGED <<script, phase, guestTls, scope>>
  BY OfScript DEF GuestInv, RelayFeed, rule
<1>2. WireShape(wire) /\ \E c \in 0..Len(script) : \E h \in 0..c : Relayed(c, h)
  BY <1>1 DEF GuestInv
<1>3. PICK c \in 0..Len(script) : \E h \in 0..c : Relayed(c, h)
  BY <1>2
<1>4. PICK h \in 0..c : Relayed(c, h)
  BY <1>3
<1>5. Str(script) \in Seq(Atoms) /\ Len(Str(script)) \in Nat /\ At(script, c) \in Nat
  BY <1>1, StreamIs
<1>6. PICK chunk : /\ Feed(chunk) /\ buf' = <<>>
                   /\ \/ chunk = buf /\ pos' = pos
                      \/ /\ buf = <<>>
                         /\ \E n \in 1..(Len(Str(script)) - pos) :
                              chunk = SubSeq(Str(script), pos + 1, pos + n) /\ pos' = pos + n
  BY <1>1 DEF RelayFeed
<1>7. CASE wire.state = "Greeting"
  <2>1. /\ wire.buf \in Seq(Atoms) /\ buf \in Seq(Atoms)
        /\ Win(wire.buf \o buf, script, At(script, c), pos)
    BY <1>4, <1>7 DEF Relayed, Greeting
  <2>2. Win(wire.buf \o chunk, script, At(script, c), pos')
    <3>1. CASE chunk = buf /\ pos' = pos
      BY <2>1, <3>1
    <3>2. ASSUME buf = <<>>, NEW n \in 1..(Len(Str(script)) - pos),
                 chunk = SubSeq(Str(script), pos + 1, pos + n), pos' = pos + n
          PROVE  Win(wire.buf \o chunk, script, At(script, c), pos')
      <4>1. pos \in Nat
        BY <2>1 DEF Win
      <4>2. n \in Nat \ {0} /\ pos + n <= Len(Str(script))
        BY <1>5, <4>1
      <4>3. Win(chunk, script, pos, pos + n)
        BY <1>1, <3>2, <4>1, <4>2, WinRead
      <4>4. wire.buf \o buf = wire.buf
        BY <2>1, <3>2, ConcatEmptySeq
      <4>5. Win(wire.buf, script, At(script, c), pos)
        BY <2>1, <4>4
      <4>6. QED
        BY <1>1, <3>2, <4>3, <4>5, WinJoin
    <3>3. QED
      BY <1>6, <3>1, <3>2
  <2>3. FeedGreeting(chunk)
    BY <1>6, <1>7 DEF Feed
  <2>4. QED
    BY <1>1, <1>2, <1>4, <1>6, <1>7, <2>2, <2>3, GreetingKept
<1>8. CASE wire.state # "Greeting"
  <2>1. Relaying(c)
    BY <1>4, <1>8 DEF Relayed
  <2>2. InnerFeed(chunk) /\ UNCHANGED answers /\ wire.state = "Relay"
    BY <1>6, <2>1 DEF Feed, Relaying
  <2>3. wire'.buf = <<>> /\ wire'.state = "Relay" /\ WireShape(wire')
    BY <1>2, <2>2 DEF InnerFeed, WireShape
  <2>4. pos' \in Nat /\ At(script, c) <= pos'
    <3>1. pos \in Nat /\ At(script, c) <= pos
      BY <2>1 DEF Relaying
    <3>2. pos' = pos \/ \E n \in 1..(Len(Str(script)) - pos) : pos' = pos + n
      BY <1>6
    <3>3. QED
      BY <1>5, <3>1, <3>2
  <2>5. Relaying(c)'
    BY <1>1, <1>6, <2>1, <2>3, <2>4 DEF Relaying
  <2>6. /\ Told(script, c, h, answers)
        /\ h # 0 => guestTls /\ script[h].kind = "hello" /\ Clear(script) = At(script, h)
        /\ h = 0 => Plain(script, c)
    BY <1>4 DEF Relayed
  <2>7. Relayed(c, h)'
    BY <1>1, <2>2, <2>3, <2>5, <2>6 DEF Relayed
  <2>8. QED
    BY <1>1, <2>3, <2>7, RelayInv
<1>9. QED
  BY <1>7, <1>8

\* The invariant of the guest's messages, step by step.
LEMMA GuestKept ==
  ASSUME GuestInv, [Next]_vars
  PROVE  GuestInv'
<1>0. script \in Seq(Messages)
  BY DEF GuestInv
<1>1. CASE UNCHANGED vars
  <2>1. UNCHANGED <<script, phase, buf, pos, answers, guestTls, wire>>
    BY <1>1 DEF vars, rule, opening, machine
  <2>2. QED
    BY <2>1 DEF GuestInv, Opened, Relayed, Greeting, Relaying, OpensTls
<1>2. CASE OpeningRead \/ HelloRead
  BY <1>2, ReadKept DEF OpeningRead, HelloRead
<1>3. CASE OpeningSsl \/ OpeningGss
  <2>1. UNCHANGED <<script, pos, guestTls, wire>> /\ phase = "opening"
    BY <1>3 DEF OpeningSsl, OpeningGss, rule, machine
  <2>2. CASE phase' = "closed"
    BY <1>0, <2>1, <2>2, ClosedInv
  <2>3. CASE phase' # "closed" /\ OpeningSsl
    <3>1. /\ IsRequest(buf, "ssl") /\ answers' = Append(answers, "S") /\ buf' = Rest(buf, NegotiationLen)
          /\ phase' = "hello"
      BY <2>3 DEF OpeningSsl, Answer, Goto, Close
    <3>2. PICK x \in {"ssl", "gss"} : x = "ssl"
      OBVIOUS
    <3>3. /\ IsRequest(buf, x) /\ answers' = Append(answers, IF x = "ssl" THEN "S" ELSE "N")
          /\ phase' = (IF x = "ssl" THEN "hello" ELSE "opening")
      BY <3>1, <3>2
    <3>4. QED
      BY <2>1, <3>1, <3>3, AnswerKept
  <2>4. CASE phase' # "closed" /\ OpeningGss
    <3>1. /\ IsRequest(buf, "gss") /\ answers' = Append(answers, "N") /\ buf' = Rest(buf, NegotiationLen)
          /\ phase' = "opening"
      BY <2>4 DEF OpeningGss, Answer, Goto, Close
    <3>2. PICK x \in {"ssl", "gss"} : x = "gss"
      OBVIOUS
    <3>3. /\ IsRequest(buf, x) /\ answers' = Append(answers, IF x = "ssl" THEN "S" ELSE "N")
          /\ phase' = (IF x = "ssl" THEN "hello" ELSE "opening")
      BY <3>1, <3>2
    <3>4. QED
      BY <2>1, <3>1, <3>3, AnswerKept
  <2>5. QED
    BY <1>3, <2>2, <2>3, <2>4
<1>4. CASE OpeningDirect \/ OpeningCleartext \/ HelloTaken \/ Dial \/ Ask \/ OpeningOver \/ HelloOver
  <2>1. UNCHANGED <<script, pos, buf, answers, wire>> /\ phase \in Early
    BY <1>4 DEF OpeningDirect, OpeningCleartext, HelloTaken, Dial, Ask, OpeningOver, HelloOver,
                rule, opening, machine, Early
  <2>2. CASE phase' = "closed"
    BY <1>0, <2>1, <2>2, ClosedInv
  <2>3. CASE OpeningDirect
    BY <2>1, <2>3, OnwardKept DEF OpeningDirect, opening, Goto
  <2>4. CASE OpeningCleartext
    BY <2>1, <2>4, OnwardKept DEF OpeningCleartext, opening, Goto
  <2>5. CASE HelloTaken /\ phase' # "closed"
    BY <2>1, <2>5, OnwardKept DEF HelloTaken, Goto, Close
  <2>6. CASE Dial /\ phase' # "closed"
    BY <2>1, <2>6, OnwardKept DEF Dial, opening, Goto, Close
  <2>7. CASE Ask /\ phase' # "closed"
    <3>1. phase = "ask" /\ phase' = "legs" /\ guestTls' = guestTls
      BY <2>7 DEF Ask, Goto, Close
    <3>2. QED
      BY <2>1, <3>1, OnwardKept
  <2>8. (OpeningOver \/ HelloOver) => phase' = "closed"
    BY DEF OpeningOver, HelloOver, Goto, Close
  <2>9. QED
    BY <1>4, <2>2, <2>3, <2>4, <2>5, <2>6, <2>7, <2>8
<1>5. CASE RelayEnd
  <2>1. script' = script /\ phase' = "closed"
    BY <1>5 DEF RelayEnd, rule, Close, Goto
  <2>2. QED
    BY <1>0, <2>1, ClosedInv
<1>6. CASE Closed
  BY <1>1, <1>6 DEF Closed
<1>7. QED
  BY <1>1, <1>2, <1>3, <1>4, <1>5, <1>6, HandshakesKept, FeedKept DEF Next, Serve

(***************************************************************************)
(* Whatever a guest sends and however it is cut into reads, each request   *)
(* that was consumed has been answered once and in order: S to an          *)
(* SSLRequest in the clear, N to GSSENC and to anything inside TLS         *)
(* (read_guest_opening, refuse_negotiation); and a guest that was told S   *)
(* is relayed over TLS only.                                               *)
(***************************************************************************)
THEOREM EachRequestAnswered == Spec => []RequestsAnswered
<1>1. Init => GuestInv
  BY GuestInit
<1>2. GuestInv /\ [Next]_vars => GuestInv'
  BY GuestKept
<1>3. GuestInv => RequestsAnswered
  BY GuestMeans
<1>4. QED
  BY <1>1, <1>2, <1>3, PTL DEF Spec
-----------------------------------------------------------------------------
(* The redis:// transport.                                                 *)

\* A guest that drips one endless command does not grow the buffer: between two
\* reads the machine holds at most the cap, or has latched closed, whatever was
\* sent and however it was cut (feed, redis/machine.rs).
THEOREM DripsBounded == RedisSpec => []BufferBounded
<1>1. RedisInit => BufferBounded
  BY CommandsAssumption DEF RedisInit, BufferBounded
<1>2. BufferBounded /\ [RedisNext]_redisVars => BufferBounded'
  BY CommandsAssumption DEF BufferBounded, RedisNext, redisVars, Arrive, TooLong, BadArity, TakeCommand,
     Return, GuestEnd, Done, LatchClosed, OverCap
<1>3. QED
  BY <1>1, <1>2, PTL DEF RedisSpec

-----------------------------------------------------------------------------
(* Sequences put together from parts.                                      *)

(* The first i of the parts q together, and where they end.                *)
Cat(q, i)  == FlattenSeq([j \in 1..i |-> q[j]])
Edge(q, i) == Len(Cat(q, i))

\* Cat grows by one part at a time.
LEMMA CatIs ==
  ASSUME NEW S, NEW N \in Nat, NEW q \in [1..N -> Seq(S)]
  PROVE  /\ Cat(q, 0) = <<>> /\ Edge(q, 0) = 0
         /\ \A i \in 0..N : Cat(q, i) \in Seq(S) /\ Edge(q, i) \in Nat
         /\ \A i \in 1..N : /\ Cat(q, i) = Cat(q, i - 1) \o q[i] /\ q[i] \in Seq(S)
                            /\ Edge(q, i) = Edge(q, i - 1) + Len(q[i])
<1>1. Cat(q, 0) = <<>>
  <2>1. [j \in 1..0 |-> q[j]] \in [1..0 -> {}]
    OBVIOUS
  <2>2. QED
    BY <2>1, FlattenNone DEF Cat
<1>2. ASSUME NEW i \in 1..N
      PROVE  Cat(q, i) \in Seq(S) /\ Cat(q, i) = Cat(q, i - 1) \o q[i]
  <2> DEFINE p == [j \in 1..i |-> q[j]]
  <2>1. p \in [1..i -> Seq(S)] /\ i \in Nat /\ i > 0
    OBVIOUS
  <2>2. [j \in 1..(i - 1) |-> p[j]] = [j \in 1..(i - 1) |-> q[j]] /\ p[i] = q[i]
    BY <2>1
  <2>3. FlattenSeq(p) \in Seq(S) /\ FlattenSeq(p) = FlattenSeq([j \in 1..(i - 1) |-> p[j]]) \o p[i]
    <3> HIDE DEF p
    <3>1. QED
      BY <2>1, FlattenIs
  <2>4. QED
    BY <2>2, <2>3 DEF Cat
<1>3. \A i \in 0..N : i = 0 \/ i \in 1..N
  OBVIOUS
<1>4. ASSUME NEW i \in 0..N PROVE Cat(q, i) \in Seq(S)
  <2>1. CASE i = 0
    <3>1. <<>> \in Seq(S)
      OBVIOUS
    <3>2. QED
      BY <1>1, <2>1, <3>1
  <2>2. CASE i \in 1..N
    BY <1>2, <2>2
  <2>3. QED
    BY <1>3, <2>1, <2>2
<1>5. ASSUME NEW i \in 1..N PROVE Edge(q, i) = Edge(q, i - 1) + Len(q[i])
  <2>1. i - 1 \in 0..N /\ q[i] \in Seq(S)
    OBVIOUS
  <2>2. Cat(q, i - 1) \in Seq(S) /\ Cat(q, i) = Cat(q, i - 1) \o q[i]
    BY <1>2, <1>4, <2>1
  <2>3. QED
    BY <2>1, <2>2 DEF Edge
<1>6. Edge(q, 0) = 0 /\ \A i \in 0..N : Edge(q, i) \in Nat
  BY <1>1, <1>4 DEF Edge
<1>7. QED
  BY <1>1, <1>2, <1>4, <1>5, <1>6

\* The same for one part.
LEMMA CatNext ==
  ASSUME NEW S, NEW N \in Nat, NEW q \in [1..N -> Seq(S)], NEW i \in 1..N
  PROVE  /\ Cat(q, i) = Cat(q, i - 1) \o q[i] /\ q[i] \in Seq(S)
         /\ Edge(q, i) = Edge(q, i - 1) + Len(q[i])
<1>1. \A k \in 1..N : /\ Cat(q, k) = Cat(q, k - 1) \o q[k] /\ q[k] \in Seq(S)
                      /\ Edge(q, k) = Edge(q, k - 1) + Len(q[k])
  BY CatIs
<1>2. QED
  BY <1>1

(* The i-th of N parts follows those before it.                            *)
Grows(S, N, q, i) == i \in 1..N /\ q[i] \in Seq(S) /\ Cat(q, i) = Cat(q, i - 1) \o q[i]

\* Every part does.
LEMMA CatGrows ==
  ASSUME NEW S, NEW N \in Nat, NEW q \in [1..N -> Seq(S)], NEW i \in 1..N
  PROVE  Grows(S, N, q, i)
  BY CatNext DEF Grows

\* Concatenation is associative.
LEMMA Assoc ==
  ASSUME NEW S, NEW u \in Seq(S), NEW v \in Seq(S), NEW x \in Seq(S)
  PROVE  (u \o v) \o x = u \o (v \o x)
  OBVIOUS

(* A beginning, and a pair of them with the same rest.                     *)
Begins(S, u, w) == \E v \in Seq(S) : w = u \o v
BothBegin(S, u, w, x, y) == \E v \in Seq(S) : w = u \o v /\ y = x \o v

\* Parts that agree from i on have the same rest behind the first i.
LEMMA CatSplit ==
  ASSUME NEW S, NEW N \in Nat, NEW p \in [1..N -> Seq(S)], NEW q \in [1..N -> Seq(S)], NEW i \in 0..N,
         \A j \in (i + 1)..N : p[j] = q[j]
  PROVE  BothBegin(S, Cat(p, i), Cat(p, N), Cat(q, i), Cat(q, N))
<1>1. N - i \in Nat
  OBVIOUS
<1>2. Cat(p, i) \in Seq(S) /\ Cat(q, i) \in Seq(S)
  BY CatIs
<1>3. ASSUME NEW j \in 1..N
      PROVE  Cat(p, j) = Cat(p, j - 1) \o p[j] /\ Cat(q, j) = Cat(q, j - 1) \o q[j] /\ p[j] \in Seq(S)
  <2>1. Cat(p, j) = Cat(p, j - 1) \o p[j] /\ p[j] \in Seq(S)
    BY CatNext
  <2>2. Cat(q, j) = Cat(q, j - 1) \o q[j]
    BY CatNext
  <2>3. QED
    BY <2>1, <2>2
<1> DEFINE Share(j) == \E v \in Seq(S) : Cat(p, j) = Cat(p, i) \o v /\ Cat(q, j) = Cat(q, i) \o v
<1>4. Share(i)
  <2>1. Cat(p, i) = Cat(p, i) \o <<>> /\ Cat(q, i) = Cat(q, i) \o <<>> /\ <<>> \in Seq(S)
    BY <1>2
  <2>2. QED
    BY <2>1
<1>5. ASSUME NEW j \in 1..N, j > i, Share(j - 1) PROVE Share(j)
  <2>1. PICK v \in Seq(S) : Cat(p, j - 1) = Cat(p, i) \o v /\ Cat(q, j - 1) = Cat(q, i) \o v
    BY <1>5
  <2>2. p[j] = q[j]
    BY <1>5
  <2>3. v \o p[j] \in Seq(S) /\ p[j] \in Seq(S)
    BY <1>3
  <2>4. (Cat(p, i) \o v) \o p[j] = Cat(p, i) \o (v \o p[j]) /\ (Cat(q, i) \o v) \o p[j] = Cat(q, i) \o (v \o p[j])
    <3>1. \A u \in Seq(S) : (u \o v) \o p[j] = u \o (v \o p[j])
      BY <2>3, Assoc
    <3>2. QED
      BY <1>2, <3>1
  <2>5. Cat(p, j) = Cat(p, i) \o (v \o p[j]) /\ Cat(q, j) = Cat(q, i) \o (v \o p[j])
    BY <1>3, <2>1, <2>2, <2>4
  <2>6. QED
    BY <2>3, <2>5
<1> HIDE DEF Share
<1> DEFINE K == {k \in 0..(N - i) : Share(i + k)}
<1>6. 0 \in K
  BY <1>1, <1>4
<1>7. ASSUME NEW k \in 0..(N - i), k < N - i, k \in K PROVE k + 1 \in K
  <2>1. PICK j \in 1..N : j = i + (k + 1)
    BY <1>1, <1>7
  <2>2. j - 1 = i + k /\ j > i /\ k + 1 \in 0..(N - i)
    BY <1>1, <1>7, <2>1
  <2>3. Share(j - 1)
    BY <1>7, <2>2
  <2>4. QED
    BY <1>5, <2>1, <2>2, <2>3
<1>8. N - i \in K
  <2>1. 0..(N - i) \subseteq K
    <3> HIDE DEF K
    <3>1. QED
      BY <1>1, <1>6, <1>7, Upward
  <2>2. N - i \in 0..(N - i)
    BY <1>1
  <2>3. QED
    BY <2>1, <2>2
<1>9. i + (N - i) = N
  OBVIOUS
<1>10. Share(N)
  BY <1>8, <1>9
<1>11. QED
  BY <1>10 DEF Share, BothBegin

\* The whole is the parts up to i and a rest.
LEMMA CatRest ==
  ASSUME NEW S, NEW N \in Nat, NEW q \in [1..N -> Seq(S)], NEW i \in 0..N
  PROVE  Begins(S, Cat(q, i), Cat(q, N))
<1>1. \A j \in (i + 1)..N : q[j] = q[j]
  OBVIOUS
<1>2. BothBegin(S, Cat(q, i), Cat(q, N), Cat(q, i), Cat(q, N))
  BY <1>1, CatSplit
<1>3. QED
  BY <1>2 DEF BothBegin, Begins

(* The atoms of w are in s from place e on.                                *)
Placed(w, s, e) == \A p \in 1..Len(w) : s[e + p] = w[p]

\* What is placed there is what is cut out there.
LEMMA CutPlaced ==
  ASSUME NEW S, NEW s \in Seq(S), NEW w \in Seq(S), NEW a \in Nat, a + Len(w) <= Len(s), Placed(w, s, a)
  PROVE  SubSeq(s, a + 1, a + Len(w)) = w
<1> DEFINE b == a + Len(w)
           v == SubSeq(s, a + 1, b)
<1>1. Len(w) \in Nat /\ b \in Nat /\ b <= Len(s) /\ a + 1 \in Nat \ {0} /\ a + 1 <= b + 1 /\ b - (a + 1) + 1 = Len(w)
  OBVIOUS
<1> HIDE DEF b
<1>2. /\ v \in Seq(S) /\ Len(v) = b - (a + 1) + 1
      /\ \A i \in 1..(b - (a + 1) + 1) : v[i] = s[(a + 1) + i - 1]
  BY <1>1, SubIs
<1>3. \A i \in 1..Len(w) : (a + 1) + i - 1 = a + i
  BY <1>1
<1> HIDE DEF v
<1>4. Len(v) = Len(w) /\ \A i \in 1..Len(v) : v[i] = w[i]
  <2>1. Len(v) = Len(w)
    BY <1>1, <1>2
  <2>2. ASSUME NEW i \in 1..Len(w) PROVE v[i] = w[i]
    <3>1. v[i] = s[(a + 1) + i - 1]
      BY <1>1, <1>2
    <3>2. s[a + i] = w[i]
      BY DEF Placed
    <3>3. QED
      BY <1>3, <3>1, <3>2
  <2>3. QED
    BY <2>1, <2>2
<1>5. v = w
  BY <1>2, <1>4, SeqEqual
<1>6. QED
  BY <1>5 DEF v, b

\* A part keeps its place in everything that is longer.
LEMMA CatLaid ==
  ASSUME NEW S, NEW N \in Nat, NEW q \in [1..N -> Seq(S)], NEW i \in 1..N
  PROVE  /\ Edge(q, i) <= Edge(q, N)
         /\ Placed(q[i], Cat(q, N), Edge(q, i - 1))
<1>1. i \in 0..N /\ i - 1 \in 0..N
  OBVIOUS
<1>2. PICK v \in Seq(S) : Cat(q, N) = Cat(q, i) \o v
  <2>1. Begins(S, Cat(q, i), Cat(q, N))
    BY <1>1, CatRest
  <2>2. QED
    BY <2>1 DEF Begins
<1>3. Cat(q, i - 1) \in Seq(S) /\ Cat(q, i) \in Seq(S)
  BY <1>1, CatIs
<1>4. Cat(q, i) = Cat(q, i - 1) \o q[i] /\ q[i] \in Seq(S)
  BY CatNext
<1>5. Edge(q, i) <= Edge(q, N)
  BY <1>2, <1>3 DEF Edge
<1>6. ASSUME NEW p \in 1..Len(q[i]) PROVE Cat(q, N)[Edge(q, i - 1) + p] = q[i][p]
  <2> DEFINE u == Cat(q, i - 1)
             x == q[i]
  <2>1. u \in Seq(S) /\ x \in Seq(S) /\ Cat(q, N) = (u \o x) \o v /\ p \in 1..Len(x)
    BY <1>2, <1>3, <1>4
  <2> HIDE DEF u, x
  <2>2. ((u \o x) \o v)[Len(u) + p] = x[p]
    BY <2>1
  <2>3. QED
    BY <2>1, <2>2 DEF Edge, u, x
<1>7. QED
  BY <1>5, <1>6 DEF Placed

\* The first parts are the same whatever follows them.
LEMMA CatSame ==
  ASSUME NEW p, NEW q, NEW i, \A j \in 1..i : p[j] = q[j]
  PROVE  Cat(p, i) = Cat(q, i) /\ Edge(p, i) = Edge(q, i)
<1>1. [j \in 1..i |-> p[j]] = [j \in 1..i |-> q[j]]
  OBVIOUS
<1>2. QED
  BY <1>1 DEF Cat, Edge

\* Edges go up.
LEMMA EdgesUp ==
  ASSUME NEW S, NEW N \in Nat, NEW q \in [1..N -> Seq(S)], NEW i \in 0..N, NEW j \in 0..N, i <= j
  PROVE  Edge(q, i) <= Edge(q, j)
<1>1. PICK p \in [1..j -> Seq(S)] : \A k \in 1..j : p[k] = q[k]
  <2>1. [k \in 1..j |-> q[k]] \in [1..j -> Seq(S)]
    OBVIOUS
  <2>2. QED
    BY <2>1
<1>2. \A k \in 1..i : p[k] = q[k]
  BY <1>1
<1>3. Edge(p, i) = Edge(q, i) /\ Edge(p, j) = Edge(q, j)
  BY <1>1, <1>2, CatSame
<1>4. i \in 0..j /\ j \in Nat
  OBVIOUS
<1>5. PICK v \in Seq(S) : Cat(p, j) = Cat(p, i) \o v
  <2>1. Begins(S, Cat(p, i), Cat(p, j))
    BY <1>4, CatRest
  <2>2. QED
    BY <2>1 DEF Begins
<1>6. Cat(p, i) \in Seq(S)
  BY <1>4, CatIs
<1>7. Edge(p, i) <= Edge(p, j)
  BY <1>5, <1>6 DEF Edge
<1>8. QED
  BY <1>3, <1>7

-----------------------------------------------------------------------------
(* Array commands on the wire.                                             *)

Tokens    == Seq(Seq(RedisAtoms))
Arg(w)    == <<Bulk(Len(w))>> \o w \o <<LineEnd>>
ArgSeq(t) == [i \in 1..Len(t) |-> Arg(t[i])]
ArgEdge(t, k) == Edge(ArgSeq(t), k)
FrameOf(t) == <<Count(Len(t))>> \o Cat(ArgSeq(t), Len(t))

\* The lines of a frame are atoms.
LEMMA LinesAre ==
  ASSUME NEW n \in Nat
  PROVE  /\ Count(n) \in RedisAtoms /\ Bulk(n) \in RedisAtoms /\ LineEnd \in RedisAtoms
         /\ Count(n)[1] = "count" /\ Count(n)[2] = n /\ Bulk(n)[1] = "bulk" /\ Bulk(n)[2] = n
<1>2. <<"count", n>> \in {"count", "bulk"} \X Nat /\ <<"bulk", n>> \in {"count", "bulk"} \X Nat
  OBVIOUS
<1>4. Count(n) \in RedisAtoms /\ Bulk(n) \in RedisAtoms /\ LineEnd \in RedisAtoms
  BY <1>2 DEF Count, Bulk, RedisAtoms
<1>5. Count(n)[1] = "count" /\ Count(n)[2] = n /\ Bulk(n)[1] = "bulk" /\ Bulk(n)[2] = n
  BY DEF Count, Bulk
<1>6. QED
  BY <1>4, <1>5

\* An argument: its length, its bytes, a line end.
LEMMA ArgIs ==
  ASSUME NEW w \in Seq(RedisAtoms)
  PROVE  /\ Arg(w) \in Seq(RedisAtoms) /\ Len(Arg(w)) = Len(w) + 2
         /\ Arg(w)[1] = Bulk(Len(w)) /\ Arg(w)[Len(w) + 2] = LineEnd
         /\ \A i \in 1..Len(w) : Arg(w)[i + 1] = w[i]
<1>1. Bulk(Len(w)) \in RedisAtoms /\ LineEnd \in RedisAtoms
  BY LinesAre
<1>2. QED
  BY <1>1 DEF Arg

\* The parts of a frame and where they are.
LEMMA FrameParts ==
  ASSUME NEW t \in Tokens
  PROVE  /\ ArgSeq(t) \in [1..Len(t) -> Seq(RedisAtoms)] /\ Len(t) \in Nat
         /\ ArgEdge(t, 0) = 0 /\ \A k \in 0..Len(t) : ArgEdge(t, k) \in Nat
         /\ Cat(ArgSeq(t), Len(t)) \in Seq(RedisAtoms)
         /\ \A k \in 1..Len(t) : t[k] \in Seq(RedisAtoms) /\ ArgEdge(t, k) = ArgEdge(t, k - 1) + Len(t[k]) + 2
<1>1. Len(t) \in Nat /\ \A k \in 1..Len(t) : t[k] \in Seq(RedisAtoms)
  BY DEF Tokens
<1>2. ArgSeq(t) \in [1..Len(t) -> Seq(RedisAtoms)] /\ \A k \in 1..Len(t) : ArgSeq(t)[k] = Arg(t[k])
  BY <1>1, ArgIs DEF ArgSeq
<1>3. /\ ArgEdge(t, 0) = 0
      /\ \A i \in 0..Len(t) : Cat(ArgSeq(t), i) \in Seq(RedisAtoms) /\ ArgEdge(t, i) \in Nat
      /\ \A i \in 1..Len(t) : ArgEdge(t, i) = ArgEdge(t, i - 1) + Len(ArgSeq(t)[i])
  BY <1>1, <1>2, CatIs DEF ArgEdge
<1>4. Len(t) \in 0..Len(t)
  BY <1>1
<1>5. ASSUME NEW k \in 1..Len(t) PROVE ArgEdge(t, k) = ArgEdge(t, k - 1) + Len(t[k]) + 2
  <2>1. Len(Arg(t[k])) = Len(t[k]) + 2 /\ Len(t[k]) \in Nat
    BY <1>1, ArgIs
  <2>2. k - 1 \in 0..Len(t)
    OBVIOUS
  <2>3. ArgEdge(t, k - 1) \in Nat /\ ArgEdge(t, k) = ArgEdge(t, k - 1) + (Len(t[k]) + 2)
    BY <1>2, <1>3, <2>1, <2>2
  <2>4. QED
    BY <2>1, <2>3
<1>6. QED
  BY <1>1, <1>2, <1>3, <1>4, <1>5

\* A frame begins with the count of its arguments.
LEMMA FrameHead ==
  ASSUME NEW t \in Tokens
  PROVE  /\ FrameOf(t) \in Seq(RedisAtoms) /\ Len(FrameOf(t)) = 1 + ArgEdge(t, Len(t))
         /\ FrameOf(t)[1] = Count(Len(t))
         /\ \A i \in 1..ArgEdge(t, Len(t)) : FrameOf(t)[1 + i] = Cat(ArgSeq(t), Len(t))[i]
<1>1. Len(t) \in Nat /\ Cat(ArgSeq(t), Len(t)) \in Seq(RedisAtoms)
  BY FrameParts
<1>2. Count(Len(t)) \in RedisAtoms
  BY <1>1, LinesAre
<1>3. QED
  BY <1>1, <1>2 DEF FrameOf, ArgEdge, Edge

\* The atoms of its k-th argument.
LEMMA FrameArg ==
  ASSUME NEW t \in Tokens, NEW k \in 1..Len(t)
  PROVE  /\ ArgEdge(t, k - 1) \in Nat /\ ArgEdge(t, k) \in Nat /\ ArgEdge(t, k) <= ArgEdge(t, Len(t))
         /\ t[k] \in Seq(RedisAtoms) /\ ArgEdge(t, k) = ArgEdge(t, k - 1) + Len(t[k]) + 2
         /\ FrameOf(t)[ArgEdge(t, k - 1) + 2] = Bulk(Len(t[k]))
         /\ FrameOf(t)[ArgEdge(t, k) + 1] = LineEnd
         /\ \A i \in 1..Len(t[k]) : FrameOf(t)[ArgEdge(t, k - 1) + 2 + i] = t[k][i]
<1> DEFINE e == ArgEdge(t, k - 1)
           n == Len(t)
           F == FrameOf(t)
           w == t[k]
<1>1. k \in 0..n /\ k - 1 \in 0..n
  BY DEF Tokens
<1>2. /\ e \in Nat /\ ArgEdge(t, k) \in Nat /\ w \in Seq(RedisAtoms) /\ ArgEdge(t, k) = e + Len(w) + 2
      /\ ArgSeq(t) \in [1..n -> Seq(RedisAtoms)] /\ n \in Nat /\ ArgEdge(t, n) \in Nat
  BY <1>1, FrameParts
<1>3. ArgSeq(t)[k] = Arg(w)
  BY DEF ArgSeq
<1>4. /\ ArgEdge(t, k) <= ArgEdge(t, n)
      /\ \A p \in 1..Len(ArgSeq(t)[k]) : Cat(ArgSeq(t), n)[e + p] = ArgSeq(t)[k][p]
  <2>1. Edge(ArgSeq(t), k) <= Edge(ArgSeq(t), n) /\ Placed(ArgSeq(t)[k], Cat(ArgSeq(t), n), Edge(ArgSeq(t), k - 1))
    BY <1>2, CatLaid
  <2>2. QED
    BY <2>1 DEF ArgEdge, Placed
<1>5. /\ Len(Arg(w)) = Len(w) + 2 /\ Len(w) \in Nat
      /\ Arg(w)[1] = Bulk(Len(w)) /\ Arg(w)[Len(w) + 2] = LineEnd
      /\ \A i \in 1..Len(w) : Arg(w)[i + 1] = w[i]
  <2> HIDE DEF w
  <2>1. w \in Seq(RedisAtoms)
    BY <1>2
  <2>2. QED
    BY <2>1, ArgIs
<1>6. \A i \in 1..ArgEdge(t, n) : F[1 + i] = Cat(ArgSeq(t), n)[i]
  BY FrameHead
<1> HIDE DEF e, n, F, w
<1>7. ASSUME NEW p \in 1..(Len(w) + 2) PROVE F[1 + (e + p)] = Arg(w)[p]
  <2>1. e + p \in 1..ArgEdge(t, n)
    BY <1>2, <1>4, <1>5
  <2>2. F[1 + (e + p)] = Cat(ArgSeq(t), n)[e + p]
    BY <1>6, <2>1
  <2>3. Cat(ArgSeq(t), n)[e + p] = Arg(w)[p]
    BY <1>3, <1>4, <1>5
  <2>4. QED
    BY <2>2, <2>3
<1>8. F[e + 2] = Bulk(Len(w))
  <2>1. 1 \in 1..(Len(w) + 2) /\ 1 + (e + 1) = e + 2
    BY <1>2, <1>5
  <2>2. QED
    BY <1>5, <1>7, <2>1
<1>9. F[ArgEdge(t, k) + 1] = LineEnd
  <2>1. Len(w) + 2 \in 1..(Len(w) + 2) /\ 1 + (e + (Len(w) + 2)) = ArgEdge(t, k) + 1
    BY <1>2, <1>5
  <2>2. QED
    BY <1>5, <1>7, <2>1
<1>10. ASSUME NEW i \in 1..Len(w) PROVE F[e + 2 + i] = w[i]
  <2>1. i + 1 \in 1..(Len(w) + 2) /\ 1 + (e + (i + 1)) = e + 2 + i
    BY <1>2, <1>5
  <2>2. QED
    BY <1>5, <1>7, <2>1
<1>11. QED
  BY <1>2, <1>4, <1>8, <1>9, <1>10 DEF e, n, F, w

-----------------------------------------------------------------------------
(* take_array on a buffer that begins like a frame.                        *)

Agrees(b, f) == \A i \in 1..Len(b) : i <= Len(f) => b[i] = f[i]
Reach(b, t, k) == IF 1 + ArgEdge(t, k) <= Len(b) THEN 1 + ArgEdge(t, k) ELSE 0

\* One turn of take_array, and the function its turns compute.
NextEnd(b, p) ==
  IF p = 0 \/ p >= Len(b) \/ b[p + 1][1] # "bulk" THEN 0
  ELSE IF p + b[p + 1][2] + 2 > Len(b) \/ b[p + b[p + 1][2] + 2] # LineEnd THEN 0
  ELSE p + b[p + 1][2] + 2
EndsFrom(b, f) == [k \in 0..b[1][2] |-> IF k = 0 THEN 1 ELSE NextEnd(b, f[k - 1])]

\* A buffer that begins like a frame begins with its count.
LEMMA HeadAgrees ==
  ASSUME NEW t \in Tokens, NEW b \in Seq(RedisAtoms), b # <<>>, Agrees(b, FrameOf(t))
  PROVE  b[1] = Count(Len(t)) /\ b[1][1] = "count" /\ b[1][2] = Len(t) /\ Len(b) \in Nat /\ Len(b) > 0
<1>1. Len(b) \in Nat /\ Len(b) > 0
  OBVIOUS
<1>2. Len(t) \in Nat /\ Len(t) \in 0..Len(t) /\ ArgEdge(t, Len(t)) \in Nat
  <2>1. Len(t) \in Nat /\ \A k \in 0..Len(t) : ArgEdge(t, k) \in Nat
    BY FrameParts
  <2>2. QED
    BY <2>1
<1>3. 1 <= Len(FrameOf(t)) /\ FrameOf(t)[1] = Count(Len(t))
  BY <1>2, FrameHead
<1>4. b[1] = Count(Len(t))
  <2>1. 1 \in 1..Len(b)
    BY <1>1
  <2>2. QED
    BY <1>3, <2>1 DEF Agrees
<1>5. QED
  BY <1>1, <1>2, <1>4, LinesAre

\* A turn goes from the end of an argument to that of the next.
LEMMA TurnIs ==
  ASSUME NEW t \in Tokens, NEW b \in Seq(RedisAtoms), b # <<>>, Agrees(b, FrameOf(t)), NEW k \in 1..Len(t)
  PROVE  NextEnd(b, Reach(b, t, k - 1)) = Reach(b, t, k)
<1> DEFINE e == ArgEdge(t, k - 1)
           d == ArgEdge(t, k)
           l == Len(t[k])
           F == FrameOf(t)
<1>1. /\ e \in Nat /\ d \in Nat /\ d <= ArgEdge(t, Len(t)) /\ d = e + l + 2 /\ t[k] \in Seq(RedisAtoms)
      /\ F[e + 2] = Bulk(l) /\ F[d + 1] = LineEnd
  BY FrameArg
<1>2. l \in Nat /\ Bulk(l)[1] = "bulk" /\ Bulk(l)[2] = l
  <2>1. l \in Nat
    BY <1>1
  <2>2. QED
    BY <2>1, LinesAre
<1>3. Len(F) = 1 + ArgEdge(t, Len(t)) /\ ArgEdge(t, Len(t)) \in Nat
  <2>1. Len(t) \in 0..Len(t) /\ \A j \in 0..Len(t) : ArgEdge(t, j) \in Nat
    BY FrameParts
  <2>2. QED
    BY <2>1, FrameHead
<1>4. Len(b) \in Nat /\ \A i \in 1..Len(b) : i <= Len(F) => b[i] = F[i]
  BY DEF Agrees
<1>5. Reach(b, t, k - 1) = (IF 1 + e <= Len(b) THEN 1 + e ELSE 0) /\ Reach(b, t, k) = (IF 1 + d <= Len(b) THEN 1 + d ELSE 0)
  BY DEF Reach
<1> HIDE DEF e, d, l, F
<1>6. CASE ~(1 + e < Len(b))
  <2>1. ~(1 + d <= Len(b))
    BY <1>1, <1>2, <1>4, <1>6
  <2>2. NextEnd(b, 1 + e) = 0 /\ NextEnd(b, 0) = 0
    BY <1>1, <1>4, <1>6 DEF NextEnd
  <2>3. QED
    BY <1>5, <2>1, <2>2
<1>7. CASE 1 + e < Len(b)
  <2>1. e + 2 \in 1..Len(b) /\ e + 2 <= Len(F) /\ (1 + e) + 1 = e + 2 /\ 1 + e <= Len(b)
    <3>1. e \in Nat /\ Len(b) \in Nat /\ l \in Nat /\ d = e + l + 2 /\ d <= ArgEdge(t, Len(t))
      BY <1>1, <1>2, <1>4
    <3>2. e + 2 <= Len(F)
      BY <1>3, <3>1
    <3>3. QED
      BY <1>7, <3>1, <3>2
  <2>2. b[(1 + e) + 1] = Bulk(l)
    BY <1>1, <1>4, <2>1
  <2>3. (1 + e) + l + 2 = 1 + d
    BY <1>1, <1>2
  <2>4. NextEnd(b, 1 + e) = IF 1 + d > Len(b) \/ b[1 + d] # LineEnd THEN 0 ELSE 1 + d
    <3>1. b[(1 + e) + 1][1] = "bulk" /\ b[(1 + e) + 1][2] = l
      BY <1>2, <2>2
    <3>2. 1 + e # 0 /\ ~(1 + e >= Len(b))
      BY <1>1, <1>4, <1>7
    <3> DEFINE x == b[(1 + e) + 1]
    <3>3. NextEnd(b, 1 + e) = IF 1 + e = 0 \/ 1 + e >= Len(b) \/ x[1] # "bulk" THEN 0
                              ELSE IF (1 + e) + x[2] + 2 > Len(b) \/ b[(1 + e) + x[2] + 2] # LineEnd THEN 0
                              ELSE (1 + e) + x[2] + 2
      BY DEF NextEnd
    <3>4. QED
      BY <2>3, <3>1, <3>2, <3>3
  <2>5. CASE 1 + d > Len(b)
    BY <1>1, <1>4, <1>5, <2>1, <2>4, <2>5
  <2>6. CASE 1 + d <= Len(b)
    <3>1. 1 + d \in 1..Len(b) /\ 1 + d <= Len(F) /\ 1 + d = d + 1 /\ ~(1 + d > Len(b))
      BY <1>1, <1>3, <1>4, <2>6
    <3>2. b[1 + d] = LineEnd
      BY <1>1, <1>4, <3>1
    <3>3. QED
      BY <1>5, <2>1, <2>4, <2>6, <3>1, <3>2
  <2>7. QED
    BY <1>1, <1>4, <2>5, <2>6
<1>8. QED
  BY <1>6, <1>7

\* take_array finds the ends of the arguments that are there.
LEMMA ArgEndsAre ==
  ASSUME NEW t \in Tokens, NEW b \in Seq(RedisAtoms), b # <<>>, Agrees(b, FrameOf(t))
  PROVE  \A k \in 0..Len(t) : ArgEnds(b)[k] = Reach(b, t, k)
<1> DEFINE n == Len(t)
           g == [k \in 0..n |-> Reach(b, t, k)]
           h == ArgEnds(b)
<1>1. n \in Nat /\ b[1][2] = n /\ Len(b) \in Nat /\ Len(b) > 0 /\ ArgEdge(t, 0) = 0
  BY HeadAgrees, FrameParts
<1>2. Reach(b, t, 0) = 1
  BY <1>1 DEF Reach
<1>3. \A k \in 1..n : NextEnd(b, Reach(b, t, k - 1)) = Reach(b, t, k)
  BY TurnIs
<1>4. h = CHOOSE f : f = EndsFrom(b, f)
  BY DEF ArgEnds, EndsFrom, NextEnd
<1> HIDE DEF n, h
<1>5. g = EndsFrom(b, g)
  <2>1. ASSUME NEW k \in 0..n PROVE g[k] = IF k = 0 THEN 1 ELSE NextEnd(b, g[k - 1])
    <3>1. CASE k = 0
      BY <1>1, <1>2, <3>1
    <3>2. CASE k # 0
      <4>1. k \in 1..n /\ k - 1 \in 0..n
        BY <1>1, <3>2
      <4>2. g[k - 1] = Reach(b, t, k - 1) /\ g[k] = Reach(b, t, k)
        BY <4>1
      <4>3. QED
        BY <1>3, <3>2, <4>1, <4>2
    <3>3. QED
      BY <3>1, <3>2
  <2>2. g = [k \in 0..n |-> IF k = 0 THEN 1 ELSE NextEnd(b, g[k - 1])]
    BY <2>1
  <2>3. QED
    BY <1>1, <2>2 DEF EndsFrom
<1> HIDE DEF g
<1>6. h = EndsFrom(b, h)
  BY <1>4, <1>5
<1>7. \A k \in 0..n : h[k] = IF k = 0 THEN 1 ELSE NextEnd(b, h[k - 1])
  <2>1. h = [k \in 0..n |-> IF k = 0 THEN 1 ELSE NextEnd(b, h[k - 1])]
    BY <1>1, <1>6 DEF EndsFrom
  <2>2. QED
    BY <2>1
<1> DEFINE K == {k \in 0..n : h[k] = Reach(b, t, k)}
<1>8. 0 \in K
  BY <1>1, <1>2, <1>7
<1>9. ASSUME NEW k \in 0..n, k < n, k \in K PROVE k + 1 \in K
  <2>1. PICK j \in 1..n : j = k + 1
    BY <1>1, <1>9
  <2>2. j - 1 = k /\ j # 0 /\ j \in 0..n
    BY <2>1
  <2>3. h[j] = NextEnd(b, h[j - 1])
    BY <1>7, <2>2
  <2>4. h[j - 1] = Reach(b, t, j - 1)
    BY <1>9, <2>2
  <2>5. h[j] = Reach(b, t, j)
    BY <1>3, <2>3, <2>4
  <2>6. QED
    BY <2>1, <2>2, <2>5
<1>10. 0..n \subseteq K
  <2> HIDE DEF K
  <2>1. QED
    BY <1>1, <1>8, <1>9, Upward
<1>11. QED
  BY <1>10 DEF n, h

\* take_command takes a frame when it is there, and nothing before.
LEMMA TakenIs ==
  ASSUME NEW t \in Tokens, NEW b \in Seq(RedisAtoms), b # <<>>, Agrees(b, FrameOf(t))
  PROVE  /\ IsArray(b) /\ Len(FrameOf(t)) \in Nat
         /\ CommandLen(b) = IF Len(FrameOf(t)) <= Len(b) THEN Len(FrameOf(t)) ELSE 0
<1>1. b[1][1] = "count" /\ b[1][2] = Len(t)
  BY HeadAgrees
<1>2. IsArray(b)
  BY <1>1 DEF IsArray
<1>3. Len(t) \in 0..Len(t) /\ ArgEdge(t, Len(t)) \in Nat
  <2>1. Len(t) \in Nat /\ \A k \in 0..Len(t) : ArgEdge(t, k) \in Nat
    BY FrameParts
  <2>2. QED
    BY <2>1
<1>4. ArgEnds(b)[Len(t)] = Reach(b, t, Len(t))
  BY <1>3, ArgEndsAre
<1>5. Len(FrameOf(t)) = 1 + ArgEdge(t, Len(t))
  BY FrameHead
<1>6. CommandLen(b) = Reach(b, t, Len(t))
  BY <1>1, <1>2, <1>4 DEF CommandLen
<1>7. QED
  BY <1>2, <1>3, <1>5, <1>6 DEF Reach

\* An empty buffer holds no command.
LEMMA NoneTaken == CommandLen(<<>>) = 0
  BY DEF CommandLen, IsArray, InlineEnd

(* Where the k-th token of a frame is.                                     *)
Place(t, k) == <<ArgEdge(t, k - 1) + 3, ArgEdge(t, k - 1) + 2 + Len(t[k])>>

\* The arguments that are found in a frame are its tokens.
LEMMA ArgsAre ==
  ASSUME NEW t \in Tokens
  PROVE  /\ IsArray(FrameOf(t)) /\ Len(Args(FrameOf(t))) = Len(t)
         /\ \A k \in 1..Len(t) : Args(FrameOf(t))[k] = Place(t, k) /\ Token(FrameOf(t), Args(FrameOf(t))[k]) = t[k]
<1> DEFINE F == FrameOf(t)
           n == Len(t)
<1>1. F \in Seq(RedisAtoms) /\ Len(F) = 1 + ArgEdge(t, n) /\ n \in Nat /\ ArgEdge(t, n) \in Nat
  <2>1. n \in Nat /\ \A k \in 0..n : ArgEdge(t, k) \in Nat
    BY FrameParts
  <2>2. n \in 0..n
    BY <2>1
  <2>3. F \in Seq(RedisAtoms) /\ Len(F) = 1 + ArgEdge(t, n)
    BY FrameHead
  <2>4. QED
    BY <2>1, <2>2, <2>3
<1>2. F # <<>> /\ Agrees(F, F)
  BY <1>1 DEF Agrees
<1>3. F[1][1] = "count" /\ F[1][2] = n /\ \A k \in 0..n : ArgEnds(F)[k] = Reach(F, t, k)
  <2>1. F[1][1] = "count" /\ F[1][2] = n
    BY <1>1, <1>2, HeadAgrees
  <2>2. \A k \in 0..n : ArgEnds(F)[k] = Reach(F, t, k)
    BY <1>1, <1>2, ArgEndsAre
  <2>3. QED
    BY <2>1, <2>2
<1>4. IsArray(F)
  BY <1>2, <1>3 DEF IsArray
<1>5. Args(F) = [k \in 1..n |-> <<ArgEnds(F)[k - 1] + 2, ArgEnds(F)[k - 1] + 1 + F[ArgEnds(F)[k - 1] + 1][2]>>]
  BY <1>3, <1>4 DEF Args
<1>6. Len(Args(F)) = n
  <2> HIDE DEF n, F
  <2>1. QED
    BY <1>1, <1>5
<1>7. ASSUME NEW k \in 1..n PROVE Args(F)[k] = Place(t, k) /\ Token(F, Place(t, k)) = t[k]
  <2> DEFINE e == ArgEdge(t, k - 1)
             w == t[k]
  <2>1. /\ e \in Nat /\ ArgEdge(t, k) = e + Len(w) + 2 /\ ArgEdge(t, k) <= ArgEdge(t, n)
        /\ w \in Seq(RedisAtoms) /\ F[e + 2] = Bulk(Len(w))
        /\ \A i \in 1..Len(w) : F[e + 2 + i] = w[i]
    BY FrameArg
  <2>2. Len(w) \in Nat
    BY <2>1
  <2>3. F[(1 + e) + 1][2] = Len(w)
    <3>1. (1 + e) + 1 = e + 2
      BY <2>1
    <3>2. Bulk(Len(w))[2] = Len(w)
      BY <2>2, LinesAre
    <3>3. QED
      BY <2>1, <3>1, <3>2
  <2>4. ArgEnds(F)[k - 1] = 1 + e
    <3>1. k - 1 \in 0..n
      BY <1>1
    <3>2. 1 + e <= Len(F)
      BY <1>1, <2>1, <2>2
    <3>3. Reach(F, t, k - 1) = 1 + e
      BY <3>2 DEF Reach
    <3>4. QED
      BY <1>3, <3>1, <3>3
  <2>5. Args(F)[k] = <<(1 + e) + 2, (1 + e) + 1 + Len(w)>>
    <3> HIDE DEF e, w
    <3>1. QED
      BY <1>5, <2>3, <2>4
  <2>6. Args(F)[k] = Place(t, k)
    <3>1. (1 + e) + 2 = e + 3 /\ (1 + e) + 1 + Len(w) = e + 2 + Len(w)
      BY <2>1, <2>2
    <3>2. QED
      BY <2>5, <3>1 DEF Place
  <2>7. SubSeq(F, e + 3, e + 2 + Len(w)) = w
    <3>1. /\ e + 2 \in Nat /\ (e + 2) + Len(w) <= Len(F) /\ (e + 2) + 1 = e + 3
      BY <1>1, <2>1, <2>2
    <3>2. Placed(w, F, e + 2)
      BY <2>1 DEF Placed
    <3> HIDE DEF e, w, F
    <3>3. SubSeq(F, (e + 2) + 1, (e + 2) + Len(w)) = w
      BY <1>1, <2>1, <3>1, <3>2, CutPlaced
    <3>4. QED
      BY <3>1, <3>3
  <2>8. Token(F, Place(t, k)) = w
    <3>1. Place(t, k)[1] = e + 3 /\ Place(t, k)[2] = e + 2 + Len(w)
      BY DEF Place
    <3>2. QED
      BY <2>7, <3>1 DEF Token
  <2>9. QED
    BY <2>6, <2>8
<1>8. QED
  BY <1>4, <1>6, <1>7

-----------------------------------------------------------------------------
(* swap_token.                                                             *)

\* The atoms of a frame around one of its arguments: h, then x, the argument w,
\* and the rest v.
Around(g, h, x, w, v) ==
  /\ g \in Seq(RedisAtoms) /\ Len(g) = Len(x) + 3 + Len(w) + Len(v)
  /\ g[1] = h /\ Placed(x, g, 1) /\ g[Len(x) + 2] = Bulk(Len(w)) /\ Placed(w, g, Len(x) + 2)
  /\ g[Len(x) + Len(w) + 3] = LineEnd /\ Placed(v, g, Len(x) + Len(w) + 3)

\* The elements of a concatenation.
LEMMA Joined ==
  ASSUME NEW S, NEW u \in Seq(S), NEW v \in Seq(S)
  PROVE  /\ u \o v \in Seq(S) /\ Len(u \o v) = Len(u) + Len(v)
         /\ Placed(u, u \o v, 0) /\ Placed(v, u \o v, Len(u))
  BY DEF Placed

\* They are what is put together from them.
LEMMA AroundIs ==
  ASSUME NEW h \in RedisAtoms, NEW x \in Seq(RedisAtoms), NEW w \in Seq(RedisAtoms), NEW v \in Seq(RedisAtoms)
  PROVE  Around(<<h>> \o ((x \o Arg(w)) \o v), h, x, w, v)
<1> DEFINE a == Arg(w)
           y == x \o a
           z == y \o v
           g == <<h>> \o z
<1>1. /\ a \in Seq(RedisAtoms) /\ Len(a) = Len(w) + 2 /\ a[1] = Bulk(Len(w)) /\ a[Len(w) + 2] = LineEnd
      /\ \A i \in 1..Len(w) : a[i + 1] = w[i]
  BY ArgIs
<1>2. Len(x) \in Nat /\ Len(w) \in Nat /\ Len(v) \in Nat
  OBVIOUS
<1> HIDE DEF a
<1>3. /\ y \in Seq(RedisAtoms) /\ Len(y) = Len(x) + Len(a)
      /\ \A i \in 1..Len(x) : y[i] = x[i]
      /\ \A i \in 1..Len(a) : y[Len(x) + i] = a[i]
  <2>1. y \in Seq(RedisAtoms) /\ Len(y) = Len(x) + Len(a) /\ Placed(x, y, 0) /\ Placed(a, y, Len(x))
    BY <1>1, Joined
  <2> HIDE DEF y
  <2>2. \A i \in 1..Len(x) : y[i] = x[i]
    BY <1>2, <2>1 DEF Placed
  <2>3. QED
    BY <2>1, <2>2 DEF Placed
<1> HIDE DEF y
<1>4. /\ z \in Seq(RedisAtoms) /\ Len(z) = Len(y) + Len(v)
      /\ \A i \in 1..Len(y) : z[i] = y[i]
      /\ \A i \in 1..Len(v) : z[Len(y) + i] = v[i]
  <2>1. z \in Seq(RedisAtoms) /\ Len(z) = Len(y) + Len(v) /\ Placed(y, z, 0) /\ Placed(v, z, Len(y))
    BY <1>3, Joined
  <2> HIDE DEF z
  <2>2. \A i \in 1..Len(y) : z[i] = y[i]
    BY <1>3, <2>1 DEF Placed
  <2>3. QED
    BY <2>1, <2>2 DEF Placed
<1> HIDE DEF z
<1>5. /\ g \in Seq(RedisAtoms) /\ Len(g) = 1 + Len(z) /\ g[1] = h
      /\ \A i \in 1..Len(z) : g[1 + i] = z[i]
  BY <1>4
<1> HIDE DEF g
<1>6. Len(y) = Len(x) + (Len(w) + 2) /\ Len(z) = Len(x) + (Len(w) + 2) + Len(v)
  BY <1>1, <1>3, <1>4
<1>7. Placed(x, g, 1)
  <2>1. ASSUME NEW i \in 1..Len(x) PROVE g[1 + i] = x[i]
    <3>1. i \in 1..Len(y) /\ i \in 1..Len(z)
      BY <1>2, <1>6
    <3>2. QED
      BY <1>3, <1>4, <1>5, <3>1
  <2>2. QED
    BY <2>1 DEF Placed
<1>8. ASSUME NEW i \in 1..(Len(w) + 2) PROVE g[1 + (Len(x) + i)] = a[i]
  <2>1. Len(x) + i \in 1..Len(y) /\ Len(x) + i \in 1..Len(z)
    BY <1>2, <1>6
  <2>2. y[Len(x) + i] = a[i]
    BY <1>1, <1>3
  <2>3. QED
    BY <1>4, <1>5, <2>1, <2>2
<1>9. g[Len(x) + 2] = Bulk(Len(w))
  <2>1. 1 \in 1..(Len(w) + 2) /\ 1 + (Len(x) + 1) = Len(x) + 2
    BY <1>2
  <2>2. QED
    BY <1>1, <1>8, <2>1
<1>10. Placed(w, g, Len(x) + 2)
  <2>1. ASSUME NEW i \in 1..Len(w) PROVE g[(Len(x) + 2) + i] = w[i]
    <3>1. i + 1 \in 1..(Len(w) + 2) /\ 1 + (Len(x) + (i + 1)) = (Len(x) + 2) + i
      BY <1>2
    <3>2. QED
      BY <1>1, <1>8, <3>1
  <2>2. QED
    BY <2>1 DEF Placed
<1>11. g[Len(x) + Len(w) + 3] = LineEnd
  <2>1. Len(w) + 2 \in 1..(Len(w) + 2) /\ 1 + (Len(x) + (Len(w) + 2)) = Len(x) + Len(w) + 3
    BY <1>2
  <2>2. QED
    BY <1>1, <1>8, <2>1
<1>12. Placed(v, g, Len(x) + Len(w) + 3)
  <2>1. ASSUME NEW i \in 1..Len(v) PROVE g[(Len(x) + Len(w) + 3) + i] = v[i]
    <3>1. Len(y) + i \in 1..Len(z) /\ 1 + (Len(y) + i) = (Len(x) + Len(w) + 3) + i
      BY <1>2, <1>6
    <3>2. QED
      BY <1>4, <1>5, <3>1
  <2>2. QED
    BY <2>1 DEF Placed
<1>13. Len(g) = Len(x) + 3 + Len(w) + Len(v)
  BY <1>2, <1>5, <1>6
<1>14. Around(g, h, x, w, v)
  BY <1>5, <1>7, <1>9, <1>10, <1>11, <1>12, <1>13 DEF Around
<1>15. QED
  BY <1>14 DEF g, z, y, a

\* A place in a frame is in one of its parts.
LEMMA PlacesOf ==
  ASSUME NEW a \in Nat, NEW b \in Nat, NEW i \in Nat, i >= 1
  PROVE  \/ i = 1 \/ i = a + 2 \/ i = a + b + 3
         \/ i > 1 /\ i < a + 2
         \/ i > a + 2 /\ i < a + b + 3
         \/ i > a + b + 3
  OBVIOUS

\* They determine the frame.
LEMMA AroundSame ==
  ASSUME NEW h, NEW x \in Seq(RedisAtoms), NEW w \in Seq(RedisAtoms), NEW v \in Seq(RedisAtoms),
         NEW f, NEW g, Around(f, h, x, w, v), Around(g, h, x, w, v)
  PROVE  f = g
<1> USE DEF Around
<1>1. Len(x) \in Nat /\ Len(w) \in Nat /\ Len(v) \in Nat /\ Len(f) = Len(g) /\ f \in Seq(RedisAtoms) /\ g \in Seq(RedisAtoms)
  OBVIOUS
<1>2. ASSUME NEW i \in 1..Len(f) PROVE f[i] = g[i]
  <2>1. i \in 1..(Len(x) + 3 + Len(w) + Len(v))
    OBVIOUS
  <2>2. CASE i = 1 \/ i = Len(x) + 2 \/ i = Len(x) + Len(w) + 3
    BY <2>2
  <2>3. CASE i > 1 /\ i < Len(x) + 2
    <3>1. i - 1 \in 1..Len(x) /\ 1 + (i - 1) = i
      BY <1>1, <2>1, <2>3
    <3>2. f[1 + (i - 1)] = x[i - 1] /\ g[1 + (i - 1)] = x[i - 1]
      BY <3>1 DEF Placed
    <3>3. QED
      BY <3>1, <3>2
  <2>4. CASE i > Len(x) + 2 /\ i < Len(x) + Len(w) + 3
    <3>1. i - (Len(x) + 2) \in 1..Len(w) /\ (Len(x) + 2) + (i - (Len(x) + 2)) = i
      BY <1>1, <2>1, <2>4
    <3>2. PICK j \in 1..Len(w) : (Len(x) + 2) + j = i
      BY <3>1
    <3>3. f[(Len(x) + 2) + j] = w[j] /\ g[(Len(x) + 2) + j] = w[j]
      BY DEF Placed
    <3>4. QED
      BY <3>2, <3>3
  <2>5. CASE i > Len(x) + Len(w) + 3
    <3>1. i - (Len(x) + Len(w) + 3) \in 1..Len(v) /\ (Len(x) + Len(w) + 3) + (i - (Len(x) + Len(w) + 3)) = i
      BY <1>1, <2>1, <2>5
    <3>2. PICK j \in 1..Len(v) : (Len(x) + Len(w) + 3) + j = i
      BY <3>1
    <3>3. f[(Len(x) + Len(w) + 3) + j] = v[j] /\ g[(Len(x) + Len(w) + 3) + j] = v[j]
      BY DEF Placed
    <3>4. QED
      BY <3>2, <3>3
  <2>6. \/ i = 1 \/ i = Len(x) + 2 \/ i = Len(x) + Len(w) + 3
        \/ i > 1 /\ i < Len(x) + 2
        \/ i > Len(x) + 2 /\ i < Len(x) + Len(w) + 3
        \/ i > Len(x) + Len(w) + 3
    <3>1. i \in Nat /\ i >= 1
      BY <2>1
    <3>2. QED
      BY <1>1, <3>1, PlacesOf
  <2>7. QED
    BY <2>2, <2>3, <2>4, <2>5, <2>6
<1>3. QED
  BY <1>1, <1>2, SeqEqual

\* A swap replaces the argument and leaves the rest.
LEMMA SwapAround ==
  ASSUME NEW h, NEW x \in Seq(RedisAtoms), NEW w \in Seq(RedisAtoms), NEW v \in Seq(RedisAtoms),
         NEW f, Around(f, h, x, w, v), NEW body \in Seq(RedisAtoms)
  PROVE  Around(SwapToken(f, <<Len(x) + 3, Len(x) + 2 + Len(w)>>, body), h, x, body, v)
<1> DEFINE e == Len(x)
           m == e + 2 + Len(w)
           P == SubSeq(f, 1, e + 2)
           T == SubSeq(f, m + 1, Len(f))
           Y == P \o body
           Z == Y \o T
           R == [Z EXCEPT ![e + 2] = Bulk(Len(body))]
<1>1. e \in Nat /\ Len(w) \in Nat /\ Len(v) \in Nat /\ Len(body) \in Nat /\ m \in Nat
  OBVIOUS
<1>2. f \in Seq(RedisAtoms) /\ Len(f) = e + 3 + Len(w) + Len(v) /\ Len(f) \in Nat
  BY DEF Around
<1>3. /\ f[1] = h /\ Placed(x, f, 1) /\ f[e + Len(w) + 3] = LineEnd /\ Placed(v, f, e + Len(w) + 3)
  BY DEF Around
<1>4. SwapToken(f, <<e + 3, m>>, body) = R
  <2>1. (e + 3) - 1 = e + 2
    BY <1>1
  <2>2. QED
    BY <2>1 DEF SwapToken, Splice, Prefix, Rest
<1> HIDE DEF e, m
<1>5. P \in Seq(RedisAtoms) /\ Len(P) = e + 2 /\ \A i \in 1..(e + 2) : P[i] = f[i]
  <2>1. 1 \in Nat \ {0} /\ e + 2 \in Nat /\ e + 2 <= Len(f) /\ 1 <= (e + 2) + 1 /\ (e + 2) - 1 + 1 = e + 2
    BY <1>1, <1>2
  <2>2. \A i \in 1..(e + 2) : 1 + i - 1 = i
    BY <1>1
  <2>3. /\ P \in Seq(RedisAtoms) /\ Len(P) = (e + 2) - 1 + 1
        /\ \A i \in 1..((e + 2) - 1 + 1) : P[i] = f[1 + i - 1]
    BY <1>2, <2>1, SubIs
  <2>4. QED
    BY <2>1, <2>2, <2>3
<1>6. T \in Seq(RedisAtoms) /\ Len(T) = 1 + Len(v) /\ \A i \in 1..(1 + Len(v)) : T[i] = f[m + i]
  <2>1. m + 1 \in Nat \ {0} /\ Len(f) <= Len(f) /\ m + 1 <= Len(f) + 1 /\ Len(f) - (m + 1) + 1 = 1 + Len(v)
    BY <1>1, <1>2 DEF m
  <2>2. \A i \in 1..(1 + Len(v)) : (m + 1) + i - 1 = m + i
    BY <1>1
  <2>3. /\ T \in Seq(RedisAtoms) /\ Len(T) = Len(f) - (m + 1) + 1
        /\ \A i \in 1..(Len(f) - (m + 1) + 1) : T[i] = f[(m + 1) + i - 1]
    <3>1. ASSUME NEW a \in Nat \ {0}, NEW b \in Nat, b <= Len(f), a <= b + 1
          PROVE  /\ SubSeq(f, a, b) \in Seq(RedisAtoms) /\ Len(SubSeq(f, a, b)) = b - a + 1
                 /\ \A i \in 1..(b - a + 1) : SubSeq(f, a, b)[i] = f[a + i - 1]
      BY <1>2, <3>1, SubIs
    <3>2. Len(f) \in Nat
      BY <1>2
    <3>3. QED
      BY <2>1, <3>1, <3>2
  <2>4. QED
    BY <2>1, <2>2, <2>3
<1> HIDE DEF P, T
<1>7. Y \in Seq(RedisAtoms) /\ Len(Y) = Len(P) + Len(body) /\ Placed(P, Y, 0) /\ Placed(body, Y, Len(P))
  BY <1>5, Joined
<1> HIDE DEF Y
<1>8. Z \in Seq(RedisAtoms) /\ Len(Z) = Len(Y) + Len(T) /\ Placed(Y, Z, 0) /\ Placed(T, Z, Len(Y))
  BY <1>6, <1>7, Joined
<1> HIDE DEF Z
<1>9. Len(Y) = e + 2 + Len(body) /\ Len(Z) = e + 3 + Len(body) + Len(v)
  BY <1>1, <1>5, <1>6, <1>7, <1>8
<1>10. ASSUME NEW i \in 1..(e + 2) PROVE Z[i] = f[i]
  <2>1. i \in 1..Len(P) /\ i \in 1..Len(Y) /\ 0 + i = i
    BY <1>1, <1>5, <1>9
  <2>2. Y[0 + i] = P[i] /\ Z[0 + i] = Y[i]
    BY <1>7, <1>8, <2>1 DEF Placed
  <2>3. QED
    BY <1>5, <2>1, <2>2
<1>11. ASSUME NEW i \in 1..Len(body) PROVE Z[(e + 2) + i] = body[i]
  <2>1. (e + 2) + i \in 1..Len(Y) /\ 0 + ((e + 2) + i) = (e + 2) + i
    BY <1>1, <1>9
  <2>2. Y[Len(P) + i] = body[i]
    BY <1>7 DEF Placed
  <2>3. Z[0 + ((e + 2) + i)] = Y[(e + 2) + i]
    BY <1>8, <2>1 DEF Placed
  <2>4. QED
    BY <1>5, <2>1, <2>2, <2>3
<1>12. ASSUME NEW i \in 1..(1 + Len(v)) PROVE Z[(e + 2 + Len(body)) + i] = f[m + i]
  <2>1. i \in 1..Len(T)
    BY <1>6
  <2>2. Z[Len(Y) + i] = T[i]
    BY <1>8, <2>1 DEF Placed
  <2>3. QED
    BY <1>6, <1>9, <2>2
<1>13. /\ R \in Seq(RedisAtoms) /\ Len(R) = Len(Z)
       /\ \A j \in 1..Len(Z) : R[j] = IF j = e + 2 THEN Bulk(Len(body)) ELSE Z[j]
  <2>1. e + 2 \in 1..Len(Z) /\ Bulk(Len(body)) \in RedisAtoms
    BY <1>1, <1>9, LinesAre
  <2>2. QED
    BY <1>8, <2>1, ExceptSeq
<1> HIDE DEF R
<1>14. Len(R) = e + 3 + Len(body) + Len(v) /\ R[e + 2] = Bulk(Len(body))
  <2>1. e + 2 \in 1..Len(Z)
    BY <1>1, <1>9
  <2>2. QED
    BY <1>9, <1>13, <2>1
<1>15. ASSUME NEW j \in 1..Len(Z), j # e + 2 PROVE R[j] = Z[j]
  BY <1>13, <1>15
<1>16. R[1] = h
  <2>1. 1 \in 1..Len(Z) /\ 1 # e + 2 /\ 1 \in 1..(e + 2)
    BY <1>1, <1>9
  <2>2. QED
    BY <1>3, <1>10, <1>15, <2>1
<1>17. Placed(x, R, 1)
  <2>1. ASSUME NEW i \in 1..Len(x) PROVE R[1 + i] = x[i]
    <3>1. 1 + i \in 1..Len(Z) /\ 1 + i # e + 2 /\ 1 + i \in 1..(e + 2)
      BY <1>1, <1>9 DEF e
    <3>2. f[1 + i] = x[i]
      BY <1>3 DEF Placed
    <3>3. QED
      BY <1>10, <1>15, <3>1, <3>2
  <2>2. QED
    BY <2>1 DEF Placed
<1>18. Placed(body, R, e + 2)
  <2>1. ASSUME NEW i \in 1..Len(body) PROVE R[(e + 2) + i] = body[i]
    <3>1. (e + 2) + i \in 1..Len(Z) /\ (e + 2) + i # e + 2
      BY <1>1, <1>9
    <3>2. QED
      BY <1>11, <1>15, <3>1
  <2>2. QED
    BY <2>1 DEF Placed
<1>19. ASSUME NEW i \in 1..(1 + Len(v)) PROVE R[(e + 2 + Len(body)) + i] = f[m + i]
  <2>1. (e + 2 + Len(body)) + i \in 1..Len(Z) /\ (e + 2 + Len(body)) + i # e + 2
    BY <1>1, <1>9
  <2>2. QED
    BY <1>12, <1>15, <2>1
<1>20. R[e + Len(body) + 3] = LineEnd
  <2>1. 1 \in 1..(1 + Len(v)) /\ (e + 2 + Len(body)) + 1 = e + Len(body) + 3 /\ m + 1 = e + Len(w) + 3
    BY <1>1 DEF m
  <2>2. QED
    BY <1>3, <1>19, <2>1
<1>21. Placed(v, R, e + Len(body) + 3)
  <2>1. ASSUME NEW i \in 1..Len(v) PROVE R[(e + Len(body) + 3) + i] = v[i]
    <3>1. 1 + i \in 1..(1 + Len(v)) /\ (e + 2 + Len(body)) + (1 + i) = (e + Len(body) + 3) + i
          /\ m + (1 + i) = (e + Len(w) + 3) + i
      BY <1>1 DEF m
    <3>2. f[(e + Len(w) + 3) + i] = v[i]
      BY <1>3 DEF Placed
    <3>3. QED
      BY <1>19, <3>1, <3>2
  <2>2. QED
    BY <2>1 DEF Placed
<1>22. Around(R, h, x, body, v)
  BY <1>13, <1>14, <1>16, <1>17, <1>18, <1>20, <1>21 DEF Around, e
<1>23. QED
  BY <1>4, <1>22 DEF e, m

\* swap_token restates the length with the token.
LEMMA SwapIs ==
  ASSUME NEW t \in Tokens, NEW k \in 1..Len(t), NEW body \in Seq(RedisAtoms)
  PROVE  /\ SwapToken(FrameOf(t), Place(t, k), body) = FrameOf([t EXCEPT ![k] = body])
         /\ [t EXCEPT ![k] = body] \in Tokens
<1> DEFINE s == [t EXCEPT ![k] = body]
           n == Len(t)
           p == ArgSeq(t)
           q == ArgSeq(s)
<1>1. /\ s \in Tokens /\ Len(s) = n /\ n \in Nat /\ k \in 1..n /\ s[k] = body /\ t[k] \in Seq(RedisAtoms)
      /\ \A j \in 1..n : j # k => s[j] = t[j]
  BY DEF Tokens
<1> HIDE DEF s
<1>2. /\ p \in [1..n -> Seq(RedisAtoms)] /\ q \in [1..n -> Seq(RedisAtoms)]
  <2>1. q \in [1..Len(s) -> Seq(RedisAtoms)]
    BY <1>1, FrameParts
  <2>2. QED
    BY <1>1, <2>1, FrameParts
<1>3. p[k] = Arg(t[k]) /\ q[k] = Arg(body) /\ \A j \in 1..n : j # k => p[j] = q[j]
  BY <1>1 DEF ArgSeq
<1> HIDE DEF n, p, q
<1>4. k \in 0..n /\ k - 1 \in 0..n
  BY <1>1
<1>5. Cat(q, k - 1) = Cat(p, k - 1)
  <2>1. \A j \in 1..(k - 1) : q[j] = p[j]
    BY <1>1, <1>3
  <2>2. QED
    BY <2>1, CatSame
<1>6. PICK v \in Seq(RedisAtoms) : Cat(p, n) = Cat(p, k) \o v /\ Cat(q, n) = Cat(q, k) \o v
  <2>1. \A j \in (k + 1)..n : p[j] = q[j]
    BY <1>1, <1>3
  <2>2. BothBegin(RedisAtoms, Cat(p, k), Cat(p, n), Cat(q, k), Cat(q, n))
    BY <1>1, <1>2, <1>4, <2>1, CatSplit
  <2>3. QED
    BY <2>2 DEF BothBegin
<1> DEFINE x == Cat(p, k - 1)
<1>7. Cat(p, k) = x \o Arg(t[k]) /\ Cat(q, k) = x \o Arg(body)
  <2>1. Grows(RedisAtoms, n, p, k)
    BY <1>1, <1>2, CatGrows
  <2>2. Grows(RedisAtoms, n, q, k)
    BY <1>1, <1>2, CatGrows
  <2>3. QED
    BY <1>3, <1>5, <2>1, <2>2 DEF Grows
<1>8. x \in Seq(RedisAtoms)
  <2>1. \A i \in 0..n : Cat(p, i) \in Seq(RedisAtoms)
    BY <1>1, <1>2, CatIs
  <2>2. QED
    BY <1>4, <2>1
<1>9. Len(x) = ArgEdge(t, k - 1)
  BY DEF ArgEdge, Edge, p
<1> HIDE DEF x
<1>10. FrameOf(t) = <<Count(n)>> \o ((x \o Arg(t[k])) \o v) /\ FrameOf(s) = <<Count(n)>> \o ((x \o Arg(body)) \o v)
  BY <1>1, <1>6, <1>7 DEF FrameOf, n, p, q
<1>11. Count(n) \in RedisAtoms
  BY <1>1, LinesAre
<1>12. Around(FrameOf(t), Count(n), x, t[k], v)
  BY <1>1, <1>8, <1>10, <1>11, AroundIs
<1>13. Around(FrameOf(s), Count(n), x, body, v)
  BY <1>8, <1>10, <1>11, AroundIs
<1>14. Around(SwapToken(FrameOf(t), <<Len(x) + 3, Len(x) + 2 + Len(t[k])>>, body), Count(n), x, body, v)
  BY <1>1, <1>8, <1>12, SwapAround
<1>15. Place(t, k) = <<Len(x) + 3, Len(x) + 2 + Len(t[k])>>
  BY <1>9 DEF Place
<1>16. Around(SwapToken(FrameOf(t), Place(t, k), body), Count(n), x, body, v)
  BY <1>14, <1>15
<1>17. SwapToken(FrameOf(t), Place(t, k), body) = FrameOf(s)
  BY <1>8, <1>13, <1>16, AroundSame
<1>18. QED
  BY <1>1, <1>17 DEF s

-----------------------------------------------------------------------------
(* rewrite_command on a frame.                                             *)

(* A command's user and password, whether it breaks its arity, and what it *)
(* becomes, by its tokens (as in Meant and Refused).                       *)
CredUser(t) == IF t[1] = AUTH THEN (IF Len(t) = 3 THEN 2 ELSE 0)
               ELSE IF Option(t) # 0 /\ Option(t) + 2 <= Len(t) THEN Option(t) + 1 ELSE 0
CredPass(t) == IF t[1] = AUTH /\ Len(t) = 2 THEN 2 ELSE IF CredUser(t) # 0 THEN CredUser(t) + 1 ELSE 0
Breaks(t) == \/ t[1] = AUTH /\ Len(t) \notin 2..3
             \/ Option(t) # 0 /\ Option(t) + 1 = Len(t)
MeantTokens(t) == [i \in DOMAIN t |-> IF i = CredPass(t) /\ t[i] = Fake THEN Real
                                      ELSE IF i = CredUser(t) /\ renames THEN UpUser ELSE t[i]]

(* What a guest sends: a verb, and after HELLO a version.                  *)
Sendable(t) == t \in Tokens /\ t # <<>> /\ (t[1] = HELLO /\ Len(t) > 1 => t[2] # AUTH)

\* The two verbs differ.
LEMMA VerbsDiffer == AUTH # HELLO
  BY DEF AUTH, HELLO

\* The option of a HELLO is among its arguments.
LEMMA OptionIs ==
  ASSUME NEW t, Sendable(t), NEW B, B = {k \in 2..Len(t) : t[k] = AUTH}
  PROVE  /\ Len(t) \in Nat /\ Len(t) > 0
         /\ t[1] # HELLO => Option(t) = 0
         /\ t[1] = HELLO /\ B = {} => Option(t) = 0
         /\ t[1] = HELLO /\ B # {} => Option(t) = Min(B) /\ Option(t) \in 3..Len(t)
<1>1. Len(t) \in Nat /\ Len(t) > 0
  BY DEF Sendable, Tokens
<1> DEFINE at == {k \in 3..Len(t) : t[1] = HELLO /\ t[k] = AUTH}
<1>2. Option(t) = IF at = {} THEN 0 ELSE Min(at)
  BY DEF Option
<1>3. CASE t[1] # HELLO
  <2>1. at = {}
    BY <1>3
  <2>2. QED
    BY <1>1, <1>2, <1>3, <2>1
<1>4. CASE t[1] = HELLO
  <2>1. Len(t) > 1 => t[2] # AUTH
    BY <1>4 DEF Sendable
  <2>2. at = B
    BY <1>1, <1>4, <2>1
  <2>3. B # {} => Min(at) \in at
    <3>1. at \in SUBSET Nat
      OBVIOUS
    <3> HIDE DEF at
    <3>2. QED
      BY <2>2, <3>1, MinIs
  <2>4. QED
    BY <1>1, <1>2, <1>4, <2>2, <2>3
<1>5. QED
  BY <1>3, <1>4

\* The credentials that are found in a frame are those of its tokens.
LEMMA CredIs ==
  ASSUME NEW t, Sendable(t)
  PROVE  Credentials(FrameOf(t)) = IF Breaks(t) THEN [user |-> 0, pass |-> -1]
                                   ELSE [user |-> CredUser(t), pass |-> CredPass(t)]
<1> DEFINE F == FrameOf(t)
           n == Len(t)
           B == {k \in 2..n : t[k] = AUTH}
<1>1. t \in Tokens
  BY DEF Sendable
<1>2. IsArray(F) /\ Len(Args(F)) = n /\ \A k \in 1..n : Token(F, Args(F)[k]) = t[k]
  BY <1>1, ArgsAre
<1>3. /\ n \in Nat /\ n > 0
      /\ t[1] # HELLO => Option(t) = 0
      /\ t[1] = HELLO /\ B = {} => Option(t) = 0
      /\ t[1] = HELLO /\ B # {} => Option(t) = Min(B) /\ Option(t) \in 3..n
  <2> HIDE DEF B
  <2>1. B = {k \in 2..Len(t) : t[k] = AUTH}
    BY DEF B
  <2>2. QED
    BY <2>1, OptionIs
<1> HIDE DEF F, n
<1>4. {k \in 2..n : k <= n /\ Token(F, Args(F)[k]) = AUTH} = B
  BY <1>2, <1>3
<1>5. (1 <= n /\ Token(F, Args(F)[1]) = AUTH <=> t[1] = AUTH) /\ (1 <= n /\ Token(F, Args(F)[1]) = HELLO <=> t[1] = HELLO)
  BY <1>2, <1>3
<1>6. Credentials(F) =
        IF 1 <= n /\ Token(F, Args(F)[1]) = AUTH
        THEN IF n \notin 2..3 THEN [user |-> 0, pass |-> -1]
             ELSE [user |-> IF n = 3 THEN 2 ELSE 0, pass |-> n]
        ELSE IF ~(1 <= n /\ Token(F, Args(F)[1]) = HELLO) \/ B = {} \/ Min(B) = n
        THEN [user |-> 0, pass |-> 0]
        ELSE IF Min(B) + 2 > n THEN [user |-> 0, pass |-> -1]
        ELSE [user |-> Min(B) + 1, pass |-> Min(B) + 2]
  BY <1>2, <1>4 DEF Credentials
<1> HIDE DEF B
<1>7. CASE t[1] = AUTH
  <2>1. Option(t) = 0
    BY <1>3, <1>7, VerbsDiffer
  <2>2. Credentials(F) = IF n \notin 2..3 THEN [user |-> 0, pass |-> -1]
                         ELSE [user |-> IF n = 3 THEN 2 ELSE 0, pass |-> n]
    BY <1>5, <1>6, <1>7
  <2>3. CASE n = 2
    BY <1>7, <2>1, <2>2, <2>3 DEF Breaks, CredUser, CredPass, n, F
  <2>4. CASE n = 3
    BY <1>7, <2>1, <2>2, <2>4 DEF Breaks, CredUser, CredPass, n, F
  <2>5. CASE n \notin 2..3
    BY <1>3, <1>7, <2>1, <2>2, <2>5 DEF Breaks, n, F
  <2>6. QED
    BY <1>3, <2>3, <2>4, <2>5
<1>8. CASE t[1] # AUTH
  <2>1. Breaks(t) <=> Option(t) # 0 /\ Option(t) + 1 = n
    BY <1>8 DEF Breaks, n
  <2>2. /\ CredUser(t) = IF Option(t) # 0 /\ Option(t) + 2 <= n THEN Option(t) + 1 ELSE 0
        /\ CredPass(t) = IF CredUser(t) # 0 THEN CredUser(t) + 1 ELSE 0
    BY <1>8 DEF CredUser, CredPass, n
  <2>3. Credentials(F) = IF t[1] # HELLO \/ B = {} \/ Min(B) = n THEN [user |-> 0, pass |-> 0]
                         ELSE IF Min(B) + 2 > n THEN [user |-> 0, pass |-> -1]
                         ELSE [user |-> Min(B) + 1, pass |-> Min(B) + 2]
    BY <1>5, <1>6, <1>8
  <2>4. CASE t[1] # HELLO \/ B = {}
    BY <1>3, <2>1, <2>2, <2>3, <2>4 DEF F
  <2>5. CASE t[1] = HELLO /\ B # {}
    <3>1. Option(t) = Min(B) /\ Option(t) \in 3..n
      BY <1>3, <2>5
    <3>2. CASE Option(t) = n
      BY <1>3, <2>1, <2>2, <2>3, <2>5, <3>1, <3>2 DEF F
    <3>3. CASE Option(t) + 1 = n
      BY <1>3, <2>1, <2>2, <2>3, <2>5, <3>1, <3>3 DEF F
    <3>4. CASE Option(t) + 2 <= n
      BY <1>3, <2>1, <2>2, <2>3, <2>5, <3>1, <3>4 DEF F
    <3>5. QED
      BY <1>3, <3>1, <3>2, <3>3, <3>4
  <2>6. QED
    BY <2>4, <2>5
<1>9. QED
  BY <1>7, <1>8

\* A token's place depends on the tokens before it and on its own length.
LEMMA PlaceSame ==
  ASSUME NEW s \in Tokens, NEW t \in Tokens, Len(s) = Len(t), NEW k \in 1..Len(t), \A j \in 1..k : s[j] = t[j]
  PROVE  Place(s, k) = Place(t, k)
<1>1. Len(t) \in Nat
  BY DEF Tokens
<1>2. \A j \in 1..(k - 1) : ArgSeq(s)[j] = ArgSeq(t)[j]
  BY <1>1 DEF ArgSeq
<1>3. Edge(ArgSeq(s), k - 1) = Edge(ArgSeq(t), k - 1)
  BY <1>2, CatSame
<1>4. s[k] = t[k]
  OBVIOUS
<1>5. QED
  BY <1>3, <1>4 DEF Place, ArgEdge

\* The credentials are tokens of the command, the user before the password.
LEMMA CredAt ==
  ASSUME NEW t, Sendable(t), ~Breaks(t)
  PROVE  /\ Len(t) \in Nat /\ CredPass(t) \in 0..Len(t)
         /\ CredUser(t) # 0 => CredUser(t) \in 1..Len(t) /\ CredPass(t) = CredUser(t) + 1
<1> DEFINE B == {k \in 2..Len(t) : t[k] = AUTH}
<1>1. Len(t) \in Nat /\ (Option(t) = 0 \/ Option(t) \in 3..Len(t))
  <2> HIDE DEF B
  <2>1. B = {k \in 2..Len(t) : t[k] = AUTH}
    BY DEF B
  <2>2. /\ Len(t) \in Nat
        /\ t[1] # HELLO => Option(t) = 0
        /\ t[1] = HELLO /\ B = {} => Option(t) = 0
        /\ t[1] = HELLO /\ B # {} => Option(t) = Min(B) /\ Option(t) \in 3..Len(t)
    BY <2>1, OptionIs
  <2>3. QED
    BY <2>2
<1>2. CASE t[1] = AUTH
  <2>1. Len(t) \in 2..3
    BY <1>2 DEF Breaks
  <2>2. CredUser(t) = IF Len(t) = 3 THEN 2 ELSE 0
    BY <1>2 DEF CredUser
  <2>3. CredPass(t) = IF Len(t) = 2 THEN 2 ELSE IF CredUser(t) # 0 THEN CredUser(t) + 1 ELSE 0
    BY <1>2 DEF CredPass
  <2>4. QED
    BY <1>1, <2>1, <2>2, <2>3
<1>3. CASE t[1] # AUTH
  <2>1. CredUser(t) = IF Option(t) # 0 /\ Option(t) + 2 <= Len(t) THEN Option(t) + 1 ELSE 0
    BY <1>3 DEF CredUser
  <2>2. CredPass(t) = IF CredUser(t) # 0 THEN CredUser(t) + 1 ELSE 0
    BY <1>3 DEF CredPass
  <2>3. QED
    BY <1>1, <2>1, <2>2
<1>4. QED
  BY <1>2, <1>3

\* A command that keeps its arity is rewritten to what it means.
LEMMA RewriteIs ==
  ASSUME NEW t, Sendable(t), ~Breaks(t), CommandsAssumption
  PROVE  Rewrite(FrameOf(t)) = FrameOf(MeantTokens(t)) /\ MeantTokens(t) \in Tokens /\ Len(MeantTokens(t)) = Len(t)
<1> DEFINE F == FrameOf(t)
           n == Len(t)
           p == CredPass(t)
           u == CredUser(t)
           c == Credentials(F)
           m == MeantTokens(t)
<1>1. t \in Tokens /\ n \in Nat /\ DOMAIN t = 1..n
  BY DEF Sendable, Tokens
<1>2. Real \in Seq(RedisAtoms) /\ UpUser \in Seq(RedisAtoms)
  BY DEF CommandsAssumption
<1>3. p \in 0..n /\ (u # 0 => u \in 1..n /\ p = u + 1)
  BY CredAt
<1>4. c.pass = p /\ c.user = u
  BY CredIs
<1>5. IsArray(F) /\ \A k \in 1..n : Args(F)[k] = Place(t, k) /\ Token(F, Args(F)[k]) = t[k]
  BY <1>1, ArgsAre
<1>6. m = [i \in 1..n |-> IF i = p /\ t[i] = Fake THEN Real ELSE IF i = u /\ renames THEN UpUser ELSE t[i]]
  BY <1>1 DEF MeantTokens
<1>7. m \in Tokens /\ Len(m) = n
  <2>1. \A i \in 1..n : t[i] \in Seq(RedisAtoms)
    BY <1>1 DEF Tokens
  <2> HIDE DEF n, p, u, m
  <2>2. m \in [1..n -> Seq(RedisAtoms)]
    BY <1>2, <1>6, <2>1
  <2>3. QED
    BY <1>1, <2>2 DEF Tokens
<1>8. t = [i \in 1..n |-> t[i]]
  BY <1>1 DEF Tokens
<1> DEFINE s == IF t[p] = Fake THEN [t EXCEPT ![p] = Real] ELSE t
           swapped == IF Token(F, Args(F)[p]) = Fake THEN SwapToken(F, Args(F)[p], Real) ELSE F
           r == IF u # 0 /\ renames THEN [s EXCEPT ![u] = UpUser] ELSE s
<1>9. CASE p = 0
  <2>1. u = 0
    BY <1>3, <1>9
  <2>2. m = t
    <3> HIDE DEF n, p, u, m
    <3>1. \A i \in 1..n : i # p /\ i # u
      BY <1>1, <1>9, <2>1
    <3>2. QED
      BY <1>6, <1>8, <3>1
  <2>3. Rewrite(F) = F
    BY <1>4, <1>9 DEF Rewrite
  <2>4. QED
    BY <1>7, <2>2, <2>3
<1>10. CASE p # 0
  <2>1. p \in 1..n
    BY <1>1, <1>3, <1>10
  <2>2. Rewrite(F) = IF u # 0 /\ renames THEN SwapToken(swapped, Args(F)[u], UpUser) ELSE swapped
    BY <1>4, <1>5, <1>10 DEF Rewrite, RewriteArray
  <2>3. Args(F)[p] = Place(t, p) /\ Token(F, Args(F)[p]) = t[p]
    BY <1>5, <2>1
  <2>4. swapped = FrameOf(s) /\ s \in Tokens
    <3>1. SwapToken(F, Place(t, p), Real) = FrameOf([t EXCEPT ![p] = Real]) /\ [t EXCEPT ![p] = Real] \in Tokens
      BY <1>1, <1>2, <2>1, SwapIs
    <3>2. QED
      BY <1>1, <2>3, <3>1
  <2>5. Len(s) = n /\ \A j \in 1..n : s[j] = IF j = p /\ t[p] = Fake THEN Real ELSE t[j]
    BY <1>1, <2>1 DEF Tokens
  <2>6. Rewrite(F) = FrameOf(r) /\ r \in Tokens
    <3>1. CASE u # 0 /\ renames
      <4>1. u \in 1..n /\ p = u + 1
        BY <1>3, <3>1
      <4>2. u \in 1..Len(s)
        BY <2>5, <4>1
      <4>3. Place(s, u) = Place(t, u)
        <5>1. \A j \in 1..u : s[j] = t[j]
          BY <1>1, <2>5, <4>1
        <5> HIDE DEF s, u
        <5>2. QED
          BY <1>1, <2>4, <2>5, <4>1, <5>1, PlaceSame
      <4>4. Args(F)[u] = Place(s, u)
        BY <1>5, <4>1, <4>3
      <4>5. SwapToken(FrameOf(s), Place(s, u), UpUser) = FrameOf([s EXCEPT ![u] = UpUser]) /\ [s EXCEPT ![u] = UpUser] \in Tokens
        <5> HIDE DEF s, u
        <5>1. QED
          BY <1>2, <2>4, <4>2, SwapIs
      <4>6. QED
        <5> HIDE DEF s, swapped, u
        <5>1. QED
          BY <2>2, <2>4, <3>1, <4>4, <4>5
    <3>2. CASE ~(u # 0 /\ renames)
      BY <2>2, <2>4, <3>2
    <3>3. QED
      BY <3>1, <3>2
  <2>7. r = m
    <3>1. DOMAIN s = 1..n
      BY <2>4, <2>5 DEF Tokens
    <3>2. r = [i \in 1..n |-> IF i = u /\ renames THEN UpUser ELSE s[i]]
      <4>1. s = [i \in 1..n |-> s[i]]
        <5> HIDE DEF s, u, n
        <5>1. QED
          BY <2>4, <3>1 DEF Tokens
      <4> HIDE DEF s, u, n
      <4>2. CASE u # 0 /\ renames
        <5>1. r = [s EXCEPT ![u] = UpUser]
          BY <4>2
        <5>2. [s EXCEPT ![u] = UpUser] = [i \in 1..n |-> IF i = u THEN UpUser ELSE s[i]]
          BY <3>1, <4>1
        <5>3. QED
          BY <4>2, <5>1, <5>2
      <4>3. CASE ~(u # 0 /\ renames)
        <5>1. \A i \in 1..n : ~(i = u /\ renames)
          BY <1>1, <4>3
        <5>2. r = s
          BY <4>3
        <5> HIDE DEF r
        <5>3. QED
          BY <4>1, <5>1, <5>2
      <4>4. QED
        BY <4>2, <4>3
    <3> HIDE DEF s, u, n, p, m, r
    <3>3. ASSUME NEW i \in 1..n PROVE (IF i = u /\ renames THEN UpUser ELSE s[i])
                                      = (IF i = p /\ t[i] = Fake THEN Real ELSE IF i = u /\ renames THEN UpUser ELSE t[i])
      <4>1. i = u => i # p
        BY <1>1, <1>3
      <4>2. s[i] = IF i = p /\ t[p] = Fake THEN Real ELSE t[i]
        BY <2>5
      <4>3. QED
        BY <4>1, <4>2
    <3>4. QED
      BY <1>6, <3>2, <3>3
  <2>8. QED
    BY <1>7, <2>6, <2>7
<1>11. QED
  BY <1>9, <1>10

-----------------------------------------------------------------------------
(* The commands of a connection.                                           *)

Arrays == \A c \in Commands : c.form = "array"

\* What a command means is a command, whatever its arity.
LEMMA MeantIs ==
  ASSUME NEW t \in Tokens, CommandsAssumption
  PROVE  MeantTokens(t) \in Tokens
<1>1. Real \in Seq(RedisAtoms) /\ UpUser \in Seq(RedisAtoms)
  BY DEF CommandsAssumption
<1>2. Len(t) \in Nat /\ DOMAIN t = 1..Len(t) /\ \A i \in 1..Len(t) : t[i] \in Seq(RedisAtoms)
  BY DEF Tokens
<1>3. MeantTokens(t) \in [1..Len(t) -> Seq(RedisAtoms)]
  BY <1>1, <1>2 DEF MeantTokens
<1>4. \A n \in Nat : \A f \in [1..n -> Seq(RedisAtoms)] : f \in Seq(Seq(RedisAtoms))
  OBVIOUS
<1>5. QED
  BY <1>2, <1>3, <1>4 DEF Tokens

\* The frame of an array command.
LEMMA FrameOfArray ==
  ASSUME NEW c, c.form = "array", c.tokens \in Tokens
  PROVE  Frame(c) = FrameOf(c.tokens)
<1> DEFINE t == c.tokens
<1>1. Len(t) \in Nat /\ DOMAIN t = 1..Len(t)
  BY DEF Tokens
<1>2. [i \in DOMAIN t |-> <<Bulk(Len(t[i]))>> \o t[i] \o <<LineEnd>>] = [j \in 1..Len(t) |-> ArgSeq(t)[j]]
  BY <1>1 DEF ArgSeq, Arg
<1>3. QED
  BY <1>2 DEF Frame, FrameOf, Cat

\* A command that a guest may send.
LEMMA CommandIs ==
  ASSUME CommandsAssumption, Arrays, NEW c \in Commands
  PROVE  /\ Sendable(c.tokens) /\ c.tokens \in Tokens /\ Frame(c) = FrameOf(c.tokens)
         /\ Frame(c) \in Seq(RedisAtoms) /\ Len(Frame(c)) \in Nat /\ Len(Frame(c)) > 0
         /\ Refused(c) <=> Breaks(c.tokens) \/ Len(Frame(c)) > MaxCommand
         /\ Frame(Meant(c)) = FrameOf(MeantTokens(c.tokens)) /\ Frame(Meant(c)) \in Seq(RedisAtoms)
<1> DEFINE t == c.tokens
<1>1. c \in [form : {"array", "inline"}, tokens : Tokens] /\ c.form = "array" /\ t # <<>> /\ t \in Tokens
      /\ (t[1] = HELLO /\ Len(t) > 1 => t[2] # AUTH)
  BY DEF CommandsAssumption, Arrays, Tokens
<1>2. Sendable(t)
  BY <1>1 DEF Sendable
<1>3. Frame(c) = FrameOf(t)
  BY <1>1, FrameOfArray
<1>4. Frame(c) \in Seq(RedisAtoms) /\ Len(Frame(c)) \in Nat /\ Len(Frame(c)) > 0
  <2>1. Len(t) \in 0..Len(t) /\ \A k \in 0..Len(t) : ArgEdge(t, k) \in Nat
    BY <1>1, FrameParts
  <2>2. FrameOf(t) \in Seq(RedisAtoms) /\ Len(FrameOf(t)) = 1 + ArgEdge(t, Len(t))
    BY <1>1, FrameHead
  <2>3. ArgEdge(t, Len(t)) \in Nat
    BY <2>1
  <2> HIDE DEF t
  <2>4. QED
    BY <1>3, <2>2, <2>3
<1>5. Refused(c) <=> Breaks(t) \/ Len(Frame(c)) > MaxCommand
  BY <1>1 DEF Refused, Breaks
<1>6. Meant(c).form = "array" /\ Meant(c).tokens = MeantTokens(t)
  <2>1. Meant(c) = [c EXCEPT !.tokens = MeantTokens(t)]
    BY DEF Meant, MeantTokens, CredUser, CredPass
  <2>2. QED
    BY <1>1, <2>1
<1>7. MeantTokens(t) \in Tokens
  BY <1>1, MeantIs
<1>8. Frame(Meant(c)) = FrameOf(MeantTokens(t))
  BY <1>6, <1>7, FrameOfArray
<1>9. FrameOf(MeantTokens(t)) \in Seq(RedisAtoms)
  BY <1>7, FrameHead
<1>10. QED
  BY <1>1, <1>2, <1>3, <1>4, <1>5, <1>8, <1>9

(* The frames the guest sends, and what they mean.                         *)
Sent == [i \in 1..Len(cmds) |-> Frame(cmds[i])]
Wanted == [i \in 1..Len(cmds) |-> Frame(Meant(cmds[i]))]

\* They are sequences of atoms, and the stream is the frames together.
LEMMA SentIs ==
  ASSUME CommandsAssumption, Arrays, cmds \in Seq(Commands)
  PROVE  /\ Len(cmds) \in Nat /\ DOMAIN cmds = 1..Len(cmds)
         /\ Sent \in [1..Len(cmds) -> Seq(RedisAtoms)] /\ Wanted \in [1..Len(cmds) -> Seq(RedisAtoms)]
         /\ CommandStream = Cat(Sent, Len(cmds))
<1>1. Len(cmds) \in Nat /\ DOMAIN cmds = 1..Len(cmds) /\ \A i \in 1..Len(cmds) : cmds[i] \in Commands
  OBVIOUS
<1>2. \A i \in 1..Len(cmds) : Frame(cmds[i]) \in Seq(RedisAtoms) /\ Frame(Meant(cmds[i])) \in Seq(RedisAtoms)
  BY <1>1, CommandIs
<1>3. [i \in DOMAIN cmds |-> Frame(cmds[i])] = [j \in 1..Len(cmds) |-> Sent[j]]
  BY <1>1 DEF Sent
<1>4. QED
  BY <1>1, <1>2, <1>3 DEF Sent, Wanted, CommandStream, Cat

(* The buffer: what arrived behind the first c commands.                   *)
Window(c, a) == SubSeq(CommandStream, Edge(Sent, c) + 1, a)
Within(c, a) == c \in 0..Len(cmds) /\ a \in Nat /\ Edge(Sent, c) <= a /\ a <= Edge(Sent, Len(cmds))

\* What a window holds.
LEMMA WindowIs ==
  ASSUME CommandsAssumption, Arrays, cmds \in Seq(Commands), NEW c, NEW a, Within(c, a)
  PROVE  /\ CommandStream \in Seq(RedisAtoms) /\ Len(CommandStream) = Edge(Sent, Len(cmds)) /\ Edge(Sent, c) \in Nat
         /\ Window(c, a) \in Seq(RedisAtoms) /\ Len(Window(c, a)) = a - Edge(Sent, c)
         /\ Placed(Window(c, a), CommandStream, Edge(Sent, c))
<1> DEFINE e == Edge(Sent, c)
           s == CommandStream
           N == Len(cmds)
<1>1. N \in Nat /\ Sent \in [1..N -> Seq(RedisAtoms)] /\ s = Cat(Sent, N)
  BY SentIs
<1>2. \A i \in 0..N : Cat(Sent, i) \in Seq(RedisAtoms) /\ Edge(Sent, i) \in Nat
  <2> HIDE DEF N
  <2>1. QED
    BY <1>1, CatIs
<1>3. c \in 0..N /\ a \in Nat /\ e <= a /\ a <= Edge(Sent, N)
  BY DEF Within
<1>4. s \in Seq(RedisAtoms) /\ Len(s) = Edge(Sent, N) /\ e \in Nat
  <2>1. N \in 0..N
    BY <1>1
  <2>2. QED
    BY <1>1, <1>2, <1>3, <2>1 DEF Edge
<1> HIDE DEF e, s, N
<1>5. e + 1 \in Nat \ {0} /\ a <= Len(s) /\ e + 1 <= a + 1 /\ a - (e + 1) + 1 = a - e
  BY <1>3, <1>4
<1> DEFINE v == SubSeq(s, e + 1, a)
<1>6. /\ v \in Seq(RedisAtoms) /\ Len(v) = a - (e + 1) + 1
      /\ \A i \in 1..(a - (e + 1) + 1) : v[i] = s[(e + 1) + i - 1]
  BY <1>3, <1>4, <1>5, SubIs
<1> HIDE DEF v
<1>7. Placed(v, s, e)
  <2>1. ASSUME NEW i \in 1..Len(v) PROVE s[e + i] = v[i]
    <3>1. (e + 1) + i - 1 = e + i
      BY <1>3, <1>4
    <3>2. v[i] = s[(e + 1) + i - 1]
      BY <1>5, <1>6
    <3>3. QED
      BY <3>1, <3>2
  <2>2. QED
    BY <2>1 DEF Placed
<1>8. v = Window(c, a)
  BY DEF v, s, e, Window
<1>9. QED
  BY <1>4, <1>5, <1>6, <1>7, <1>8 DEF e, s, N

\* Behind the last command there is nothing.
LEMMA LastWindow ==
  ASSUME CommandsAssumption, Arrays, cmds \in Seq(Commands), NEW a, Within(Len(cmds), a)
  PROVE  Window(Len(cmds), a) = <<>>
<1>1. /\ Window(Len(cmds), a) \in Seq(RedisAtoms) /\ Len(Window(Len(cmds), a)) = a - Edge(Sent, Len(cmds))
      /\ Edge(Sent, Len(cmds)) \in Nat
  BY WindowIs
<1>2. a \in Nat /\ a = Edge(Sent, Len(cmds))
  BY <1>1 DEF Within
<1>3. QED
  BY <1>1, <1>2

\* The next command and its place.
LEMMA NextIs ==
  ASSUME CommandsAssumption, Arrays, cmds \in Seq(Commands), NEW c \in 0..Len(cmds), c < Len(cmds)
  PROVE  /\ c + 1 \in 1..Len(cmds) /\ cmds[c + 1] \in Commands /\ Sent[c + 1] = Frame(cmds[c + 1])
         /\ Wanted[c + 1] = Frame(Meant(cmds[c + 1]))
         /\ Edge(Sent, c + 1) = Edge(Sent, c) + Len(Frame(cmds[c + 1])) /\ Edge(Sent, c) \in Nat
         /\ Edge(Sent, c + 1) <= Edge(Sent, Len(cmds))
         /\ Placed(Frame(cmds[c + 1]), CommandStream, Edge(Sent, c))
<1> DEFINE N == Len(cmds)
<1>1. N \in Nat /\ Sent \in [1..N -> Seq(RedisAtoms)] /\ CommandStream = Cat(Sent, N)
  BY SentIs
<1>2. PICK k \in 1..N : k = c + 1
  BY <1>1
<1>3. k - 1 = c /\ k - 1 \in 0..N
  BY <1>1, <1>2
<1>4. cmds[k] \in Commands /\ Sent[k] = Frame(cmds[k]) /\ Wanted[k] = Frame(Meant(cmds[k]))
  BY DEF Sent, Wanted
<1> HIDE DEF N
<1>5. Edge(Sent, k) <= Edge(Sent, N) /\ Placed(Sent[k], Cat(Sent, N), Edge(Sent, k - 1))
  BY <1>1, CatLaid
<1>6. /\ \A i \in 0..N : Edge(Sent, i) \in Nat
      /\ \A i \in 1..N : Edge(Sent, i) = Edge(Sent, i - 1) + Len(Sent[i])
  <2>1. \A i \in 0..N : Cat(Sent, i) \in Seq(RedisAtoms) /\ Edge(Sent, i) \in Nat
    BY <1>1, CatIs
  <2>2. ASSUME NEW i \in 1..N PROVE Edge(Sent, i) = Edge(Sent, i - 1) + Len(Sent[i])
    <3>1. Grows(RedisAtoms, N, Sent, i)
      BY <1>1, CatGrows
    <3>2. i - 1 \in 0..N
      BY <1>1
    <3>3. Cat(Sent, i - 1) \in Seq(RedisAtoms)
      BY <2>1, <3>2
    <3>4. QED
      BY <3>1, <3>3 DEF Grows, Edge
  <2>3. QED
    BY <2>1, <2>2
<1>7. Edge(Sent, k) = Edge(Sent, k - 1) + Len(Sent[k]) /\ Edge(Sent, k - 1) \in Nat
  BY <1>3, <1>6
<1>8. QED
  BY <1>1, <1>2, <1>3, <1>4, <1>5, <1>7 DEF N

\* Two sequences with the same place agree.
LEMMA AgreesAt ==
  ASSUME NEW S, NEW b \in Seq(S), NEW f \in Seq(S), NEW s, NEW e, Placed(b, s, e), Placed(f, s, e)
  PROVE  Agrees(b, f)
<1>1. ASSUME NEW i \in 1..Len(b), i <= Len(f) PROVE b[i] = f[i]
  <2>1. i \in 1..Len(f)
    BY <1>1
  <2>2. s[e + i] = b[i] /\ s[e + i] = f[i]
    BY <2>1 DEF Placed
  <2>3. QED
    BY <2>2
<1>2. QED
  BY <1>1 DEF Agrees

\* Of two that agree, the shorter is a prefix.
LEMMA PrefixAgrees ==
  ASSUME NEW S, NEW b \in Seq(S), NEW f \in Seq(S), Agrees(b, f), Len(f) <= Len(b)
  PROVE  Prefix(b, Len(f)) = f
<1>1. Placed(f, b, 0)
  BY DEF Placed, Agrees
<1>2. Len(f) \in Nat /\ 0 + Len(f) = Len(f) /\ 0 + 1 = 1 /\ 0 \in Nat
  OBVIOUS
<1>3. SubSeq(b, 0 + 1, 0 + Len(f)) = f
  BY <1>1, <1>2, CutPlaced
<1>4. QED
  BY <1>2, <1>3 DEF Prefix

\* take_command on the buffer: the next command, when all of it is there.
LEMMA TakesNext ==
  ASSUME CommandsAssumption, Arrays, cmds \in Seq(Commands), NEW c, NEW a, Within(c, a), c < Len(cmds)
  PROVE  /\ CommandLen(Window(c, a)) = IF Edge(Sent, c + 1) <= a THEN Len(Frame(cmds[c + 1])) ELSE 0
         /\ Edge(Sent, c + 1) <= a =>
              /\ Prefix(Window(c, a), Len(Frame(cmds[c + 1]))) = Frame(cmds[c + 1])
              /\ Len(Frame(cmds[c + 1])) <= Len(Window(c, a))
<1> DEFINE b == Window(c, a)
           F == Frame(cmds[c + 1])
           t == cmds[c + 1].tokens
           e == Edge(Sent, c)
<1>1. c \in 0..Len(cmds) /\ a \in Nat /\ e <= a
  BY DEF Within
<1>2. b \in Seq(RedisAtoms) /\ Len(b) = a - e /\ e \in Nat /\ Placed(b, CommandStream, e)
  BY WindowIs
<1>3. cmds[c + 1] \in Commands /\ Edge(Sent, c + 1) = e + Len(F) /\ Placed(F, CommandStream, e)
  BY <1>1, NextIs
<1>4. t \in Tokens /\ F = FrameOf(t) /\ F \in Seq(RedisAtoms) /\ Len(F) \in Nat /\ Len(F) > 0
  BY <1>3, CommandIs
<1> HIDE DEF b, F, t, e
<1>5. Agrees(b, F)
  BY <1>2, <1>3, <1>4, AgreesAt
<1>6. Edge(Sent, c + 1) <= a <=> Len(F) <= Len(b)
  <2>1. a \in Nat /\ e \in Nat /\ Len(F) \in Nat /\ Len(b) = a - e /\ Edge(Sent, c + 1) = e + Len(F)
    BY <1>1, <1>2, <1>3, <1>4
  <2>2. QED
    BY <2>1
<1>7. CommandLen(b) = IF Len(F) <= Len(b) THEN Len(F) ELSE 0
  <2>1. CASE b = <<>>
    <3>1. ~(Len(F) <= Len(b))
      BY <1>4, <2>1
    <3>2. QED
      BY <2>1, <3>1, NoneTaken
  <2>2. CASE b # <<>>
    BY <1>2, <1>4, <1>5, <2>2, TakenIs
  <2>3. QED
    BY <2>1, <2>2
<1>8. Len(F) <= Len(b) => Prefix(b, Len(F)) = F
  BY <1>2, <1>4, <1>5, PrefixAgrees
<1>9. QED
  BY <1>6, <1>7, <1>8 DEF b, F

\* The rest of the buffer is what arrived behind it.
LEMMA RestOfWindow ==
  ASSUME CommandsAssumption, Arrays, cmds \in Seq(Commands), NEW c, NEW a, Within(c, a), c < Len(cmds),
         Edge(Sent, c + 1) <= a
  PROVE  Within(c + 1, a) /\ Rest(Window(c, a), Len(Frame(cmds[c + 1]))) = Window(c + 1, a)
<1> DEFINE b == Window(c, a)
           k == Len(Frame(cmds[c + 1]))
           e == Edge(Sent, c)
           d == Edge(Sent, c + 1)
           s == CommandStream
           r == Window(c + 1, a)
<1>1. c \in 0..Len(cmds) /\ a \in Nat /\ e <= a /\ a <= Edge(Sent, Len(cmds))
  BY DEF Within
<1>2. c + 1 \in 1..Len(cmds) /\ d = e + k /\ e \in Nat /\ cmds[c + 1] \in Commands
  BY <1>1, NextIs
<1>3. k \in Nat
  <2>1. Len(Frame(cmds[c + 1])) \in Nat
    BY <1>2, CommandIs
  <2>2. QED
    BY <2>1
<1>4. c + 1 \in 0..Len(cmds)
  BY <1>2
<1>5. Within(c + 1, a)
  BY <1>1, <1>4 DEF Within
<1>6. b \in Seq(RedisAtoms) /\ Len(b) = a - e /\ Placed(b, s, e)
  BY WindowIs
<1>7. r \in Seq(RedisAtoms) /\ Len(r) = a - d /\ Placed(r, s, d)
  BY <1>5, WindowIs
<1>8. d <= a
  OBVIOUS
<1> HIDE DEF b, k, e, d, s, r
<1>9. k + Len(r) = Len(b) /\ Len(r) \in Nat
  <2>1. a \in Nat /\ e \in Nat /\ k \in Nat /\ d = e + k /\ Len(b) = a - e /\ Len(r) = a - d /\ d <= a
    BY <1>1, <1>2, <1>3, <1>6, <1>7, <1>8
  <2>2. QED
    BY <2>1
<1>10. Placed(r, b, k)
  <2>1. ASSUME NEW i \in 1..Len(r) PROVE b[k + i] = r[i]
    <3>1. k + i \in 1..Len(b) /\ e + (k + i) = d + i
      <4>1. e \in Nat /\ k \in Nat /\ d = e + k /\ k + Len(r) = Len(b) /\ Len(r) \in Nat
        BY <1>2, <1>3, <1>9
      <4>2. QED
        BY <4>1
    <3>2. s[e + (k + i)] = b[k + i]
      BY <1>6, <3>1 DEF Placed
    <3>3. s[d + i] = r[i]
      BY <1>7 DEF Placed
    <3>4. QED
      BY <3>1, <3>2, <3>3
  <2>2. QED
    BY <2>1 DEF Placed
<1>11. SubSeq(b, k + 1, k + Len(r)) = r
  <2>1. k + Len(r) <= Len(b)
    BY <1>9
  <2>2. QED
    BY <1>3, <1>6, <1>7, <1>10, <2>1, CutPlaced
<1>12. Rest(b, k) = r
  BY <1>9, <1>11 DEF Rest
<1>13. QED
  BY <1>5, <1>12 DEF b, k, r

-----------------------------------------------------------------------------
(* What the server reads.                                                  *)

(* c commands were taken off the buffer, none of them refused, and d of    *)
(* them were emitted as they are meant; between two reads these are the    *)
(* same, and the next command is not complete.                             *)
Stage(c, d) ==
  /\ d \in 0..c /\ Within(c, arrivedLen) /\ \A i \in 1..c : ~Refused(cmds[i])
  /\ out = Cat(Wanted, d) /\ batch \in Seq(RedisAtoms)
  /\ ~ended => legBuf = Window(c, arrivedLen) /\ flushed = <<>>
  /\ busy => out \o batch = Cat(Wanted, c) /\ ~closed /\ ~ended
  /\ ~busy /\ ~closed => d = c /\ (c < Len(cmds) => arrivedLen < Edge(Sent, c + 1))
  /\ arrivedLen = Edge(Sent, Len(cmds)) => flushed = <<>>

RedisInv == cmds \in Seq(Commands) /\ \E c, d \in Nat : Stage(c, d)

\* The guest's commands and the rule stay what they are.
LEMMA ScriptFixed ==
  ASSUME [RedisNext]_redisVars
  PROVE  cmds' = cmds /\ renames' = renames
  BY DEF RedisNext, redisVars, Arrive, TooLong, BadArity, TakeCommand, Return, GuestEnd, Done, LatchClosed

\* And with them what is sent and meant.
LEMMA SentFixed ==
  ASSUME cmds' = cmds, renames' = renames
  PROVE  /\ Sent' = Sent /\ Wanted' = Wanted /\ CommandStream' = CommandStream
         /\ \A i : Refused(cmds[i])' <=> Refused(cmds[i])
<1>1. Sent' = Sent /\ CommandStream' = CommandStream
  BY DEF Sent, CommandStream
<1>2. Wanted' = Wanted
  BY DEF Wanted, Meant
<1>3. QED
  BY <1>1, <1>2

\* The parts of a stage.
LEMMA StageIs ==
  ASSUME CommandsAssumption, Arrays, cmds \in Seq(Commands), NEW c \in Nat, NEW d \in Nat, Stage(c, d)
  PROVE  /\ Len(cmds) \in Nat /\ c \in 0..Len(cmds) /\ d \in 0..c /\ d \in 0..Len(cmds)
         /\ arrivedLen \in Nat /\ Within(c, arrivedLen) /\ Edge(Sent, c) \in Nat /\ Edge(Sent, Len(cmds)) \in Nat
         /\ \A i \in 0..Len(cmds) : Cat(Wanted, i) \in Seq(RedisAtoms)
         /\ out \in Seq(RedisAtoms)
<1>1. Len(cmds) \in Nat /\ Sent \in [1..Len(cmds) -> Seq(RedisAtoms)] /\ Wanted \in [1..Len(cmds) -> Seq(RedisAtoms)]
  BY SentIs
<1>2. c \in 0..Len(cmds) /\ d \in 0..c /\ arrivedLen \in Nat /\ Within(c, arrivedLen)
  BY DEF Stage, Within
<1>3. d \in 0..Len(cmds) /\ Len(cmds) \in 0..Len(cmds)
  BY <1>1, <1>2
<1>4. \A i \in 0..Len(cmds) : Cat(Sent, i) \in Seq(RedisAtoms) /\ Edge(Sent, i) \in Nat
  BY <1>1, CatIs
<1>5. \A i \in 0..Len(cmds) : Cat(Wanted, i) \in Seq(RedisAtoms)
  BY <1>1, CatIs
<1>6. out = Cat(Wanted, d)
  BY DEF Stage
<1>7. QED
  BY <1>1, <1>2, <1>3, <1>4, <1>5, <1>6

\* A read adds to the buffer.
LEMMA ArriveKept ==
  ASSUME CommandsAssumption, Arrays, cmds \in Seq(Commands), NEW c \in Nat, NEW d \in Nat, Stage(c, d), Arrive
  PROVE  Stage(c, c)'
<1> DEFINE s == CommandStream
           a == arrivedLen
           e == Edge(Sent, c)
<1>1. cmds' = cmds /\ renames' = renames /\ ~busy /\ ~closed /\ ~ended
  BY DEF Arrive
<1>2. Sent' = Sent /\ Wanted' = Wanted /\ CommandStream' = s /\ \A i : Refused(cmds[i])' <=> Refused(cmds[i])
  BY <1>1, SentFixed
<1>3. /\ Len(cmds) \in Nat /\ c \in 0..Len(cmds) /\ a \in Nat /\ e \in Nat /\ Edge(Sent, Len(cmds)) \in Nat
      /\ Within(c, a) /\ \A i \in 0..Len(cmds) : Cat(Wanted, i) \in Seq(RedisAtoms)
  BY StageIs
<1>4. s \in Seq(RedisAtoms) /\ Len(s) = Edge(Sent, Len(cmds)) /\ e <= a /\ a <= Len(s)
  <2>1. s \in Seq(RedisAtoms) /\ Len(s) = Edge(Sent, Len(cmds))
    BY <1>3, WindowIs
  <2>2. QED
    BY <1>3, <2>1 DEF Within
<1>5. d = c /\ legBuf = SubSeq(s, e + 1, a) /\ out = Cat(Wanted, c) /\ flushed = <<>>
  BY <1>1 DEF Stage, Window
<1>6. PICK n \in 1..Min({MaxRead, Len(s) - a}) :
        legBuf' = legBuf \o SubSeq(s, a + 1, a + n) /\ arrivedLen' = a + n
  BY DEF Arrive
<1>7. busy' = TRUE /\ batch' = <<>> /\ closed' = closed /\ ended' = ended /\ out' = out /\ flushed' = flushed
  BY DEF Arrive
<1> HIDE DEF s, a, e
<1>8. n \in Nat /\ n <= Len(s) - a
  <2>1. Len(s) - a \in Nat /\ MaxRead \in Nat
    BY <1>3, <1>4 DEF CommandsAssumption
  <2>2. Min({MaxRead, Len(s) - a}) \in {MaxRead, Len(s) - a} /\ \A y \in {MaxRead, Len(s) - a} : Min({MaxRead, Len(s) - a}) <= y
    <3>1. {MaxRead, Len(s) - a} \in SUBSET Nat /\ {MaxRead, Len(s) - a} # {}
      BY <2>1
    <3>2. QED
      BY <3>1, MinIs
  <2>3. QED
    BY <2>1, <2>2
<1>9. legBuf' = SubSeq(s, e + 1, a + n)
  <2>1. e + 1 \in 1..(Len(s) + 1) /\ a \in ((e + 1) - 1)..Len(s) /\ a + n \in a..Len(s)
    <3>1. e \in Nat /\ a \in Nat /\ n \in Nat /\ Len(s) \in Nat /\ e <= a /\ a <= Len(s) /\ n <= Len(s) - a
      BY <1>3, <1>4, <1>8
    <3>2. QED
      BY <3>1
  <2>2. SubSeq(s, e + 1, a) \o SubSeq(s, a + 1, a + n) = SubSeq(s, e + 1, a + n)
    BY <1>4, <2>1, ConcatAdjacentSubSeq
  <2>3. QED
    BY <1>5, <1>6, <2>2
<1>10. Within(c, arrivedLen)'
  <2>1. a + n \in Nat /\ e <= a + n /\ a + n <= Edge(Sent, Len(cmds))
    BY <1>3, <1>4, <1>8
  <2>2. QED
    BY <1>1, <1>2, <1>3, <1>6, <2>1 DEF Within, e
<1>11. legBuf' = Window(c, arrivedLen)'
  BY <1>2, <1>6, <1>9 DEF Window, e
<1>12. out' \o batch' = Cat(Wanted, c)'
  <2>1. Cat(Wanted, c) \in Seq(RedisAtoms)
    BY <1>3
  <2>2. Cat(Wanted, c) \o <<>> = Cat(Wanted, c)
    BY <2>1
  <2>3. QED
    BY <1>2, <1>5, <1>7, <2>2
<1>13. \A i \in 1..c : ~Refused(cmds[i])'
  BY <1>2 DEF Stage
<1>14. c \in 0..c /\ <<>> \in Seq(RedisAtoms)
  OBVIOUS
<1>15. QED
  BY <1>1, <1>2, <1>5, <1>7, <1>10, <1>11, <1>12, <1>13, <1>14 DEF Stage

\* Closing leaves what was emitted.
LEMMA LatchKept ==
  ASSUME NEW c \in Nat, NEW d \in Nat, Stage(c, d), LatchClosed
  PROVE  Stage(c, d)'
<1>1. cmds' = cmds /\ renames' = renames /\ closed' = TRUE /\ busy' = FALSE
      /\ arrivedLen' = arrivedLen /\ legBuf' = legBuf /\ batch' = batch /\ ended' = ended /\ out' = out /\ flushed' = flushed
  BY DEF LatchClosed
<1>2. Sent' = Sent /\ Wanted' = Wanted /\ CommandStream' = CommandStream /\ \A i : Refused(cmds[i])' <=> Refused(cmds[i])
  BY <1>1, SentFixed
<1>3. QED
  BY <1>1, <1>2 DEF Stage, Within, Window

\* Nothing changes.
LEMMA StillKept ==
  ASSUME NEW c \in Nat, NEW d \in Nat, Stage(c, d), UNCHANGED redisVars
  PROVE  Stage(c, d)'
<1>1. cmds' = cmds /\ renames' = renames /\ closed' = closed /\ busy' = busy
      /\ arrivedLen' = arrivedLen /\ legBuf' = legBuf /\ batch' = batch /\ ended' = ended /\ out' = out /\ flushed' = flushed
  BY DEF redisVars
<1>2. Sent' = Sent /\ Wanted' = Wanted /\ CommandStream' = CommandStream /\ \A i : Refused(cmds[i])' <=> Refused(cmds[i])
  BY <1>1, SentFixed
<1>3. QED
  BY <1>1, <1>2 DEF Stage, Within, Window

\* A stage without all the guest's bytes read has another command to come, which
\* is taken when it is complete.
LEMMA CommandTaken ==
  ASSUME CommandsAssumption, Arrays, cmds \in Seq(Commands), NEW c \in Nat, NEW d \in Nat, Stage(c, d), ~ended,
         CommandLen(legBuf) > 0
  PROVE  c < Len(cmds) /\ Edge(Sent, c + 1) <= arrivedLen /\ CommandLen(legBuf) = Len(Frame(cmds[c + 1]))
<1>1. legBuf = Window(c, arrivedLen) /\ Within(c, arrivedLen) /\ c \in 0..Len(cmds) /\ Len(cmds) \in Nat
  BY StageIs DEF Stage
<1>2. c < Len(cmds)
  <2>1. SUFFICES ASSUME c = Len(cmds) PROVE FALSE
    BY <1>1
  <2>2. legBuf = <<>>
    BY <1>1, <2>1, LastWindow
  <2>3. QED
    BY <2>2, NoneTaken
<1>3. CommandLen(legBuf) = IF Edge(Sent, c + 1) <= arrivedLen THEN Len(Frame(cmds[c + 1])) ELSE 0
  BY <1>1, <1>2, TakesNext
<1>4. QED
  BY <1>2, <1>3

(* Two ways of putting three sequences together.                           *)
Regroups(u, v, x) == (u \o v) \o x = u \o (v \o x)

\* They are the same.
LEMMA AtomsRegroup ==
  ASSUME NEW u \in Seq(RedisAtoms), NEW v \in Seq(RedisAtoms), NEW x \in Seq(RedisAtoms)
  PROVE  Regroups(u, v, x)
  BY Assoc DEF Regroups

\* A command that is taken is collected as it is meant.
LEMMA TakeKept ==
  ASSUME CommandsAssumption, Arrays, cmds \in Seq(Commands), NEW c \in Nat, NEW d \in Nat, Stage(c, d), TakeCommand
  PROVE  Stage(c + 1, d)'
<1> DEFINE F == Frame(cmds[c + 1])
           t == cmds[c + 1].tokens
           k == c + 1
<1>1. busy /\ ~closed /\ ~ended /\ out \o batch = Cat(Wanted, c) /\ batch \in Seq(RedisAtoms)
      /\ legBuf = Window(c, arrivedLen) /\ flushed = <<>>
  BY DEF Stage, TakeCommand
<1>2. cmds' = cmds /\ renames' = renames /\ arrivedLen' = arrivedLen /\ closed' = closed /\ busy' = busy /\ ended' = ended
      /\ out' = out /\ flushed' = flushed
  BY DEF TakeCommand
<1>3. Sent' = Sent /\ Wanted' = Wanted /\ CommandStream' = CommandStream /\ \A i : Refused(cmds[i])' <=> Refused(cmds[i])
  BY <1>2, SentFixed
<1>4. CommandLen(legBuf) > 0 /\ Len(legBuf) <= MaxCommand
  <2>1. Len(legBuf) \in Nat /\ MaxCommand \in Nat
    <3>1. legBuf \in Seq(RedisAtoms)
      BY <1>1, StageIs, WindowIs
    <3>2. QED
      BY <3>1 DEF CommandsAssumption
  <2>2. QED
    BY <2>1 DEF TakeCommand, OverCap
<1>5. c < Len(cmds) /\ Edge(Sent, k) <= arrivedLen /\ CommandLen(legBuf) = Len(F)
  BY <1>1, <1>4, CommandTaken
<1>6. /\ Len(cmds) \in Nat /\ c \in 0..Len(cmds) /\ d \in 0..c /\ Within(c, arrivedLen) /\ out \in Seq(RedisAtoms)
  BY StageIs
<1>7. Prefix(legBuf, Len(F)) = F /\ Len(F) <= Len(legBuf)
  BY <1>1, <1>5, <1>6, TakesNext
<1>8. Within(k, arrivedLen) /\ Rest(legBuf, Len(F)) = Window(k, arrivedLen)
  BY <1>1, <1>5, <1>6, RestOfWindow
<1>9. /\ k \in 1..Len(cmds) /\ cmds[k] \in Commands /\ Wanted[k] = Frame(Meant(cmds[k]))
  BY <1>5, <1>6, NextIs
<1>10. /\ Sendable(t) /\ t \in Tokens /\ F = FrameOf(t) /\ Len(F) \in Nat
       /\ Refused(cmds[k]) <=> Breaks(t) \/ Len(F) > MaxCommand
       /\ Frame(Meant(cmds[k])) = FrameOf(MeantTokens(t)) /\ Frame(Meant(cmds[k])) \in Seq(RedisAtoms)
  BY <1>9, CommandIs
<1>11. Credentials(F).pass # -1 /\ batch' = batch \o Rewrite(F) /\ legBuf' = Rest(legBuf, Len(F))
  <2> HIDE DEF F
  <2>1. QED
    BY <1>5, <1>7 DEF TakeCommand
<1>12. ~Breaks(t)
  <2>1. Credentials(F) = IF Breaks(t) THEN [user |-> 0, pass |-> -1] ELSE [user |-> CredUser(t), pass |-> CredPass(t)]
    BY <1>10, CredIs
  <2>2. QED
    BY <1>11, <2>1
<1>13. Rewrite(F) = Wanted[k]
  <2>1. Rewrite(FrameOf(t)) = FrameOf(MeantTokens(t))
    BY <1>10, <1>12, RewriteIs
  <2>2. QED
    BY <1>9, <1>10, <2>1
<1> HIDE DEF F, t, k
<1>14. ~Refused(cmds[k])
  <2>1. Len(legBuf) \in Nat /\ MaxCommand \in Nat
    <3>1. legBuf \in Seq(RedisAtoms)
      BY <1>1, <1>6, WindowIs
    <3>2. QED
      BY <3>1 DEF CommandsAssumption
  <2>2. ~(Len(F) > MaxCommand)
    BY <1>4, <1>7, <1>10, <2>1
  <2>3. QED
    BY <1>10, <1>12, <2>2
<1>15. k - 1 = c /\ d \in 0..k /\ \A i \in 1..k : i = k \/ i \in 1..c
  BY <1>6 DEF k
<1>16. Cat(Wanted, k) = Cat(Wanted, c) \o Wanted[k] /\ Wanted[k] \in Seq(RedisAtoms)
  <2>1. Wanted \in [1..Len(cmds) -> Seq(RedisAtoms)]
    BY SentIs
  <2>2. Grows(RedisAtoms, Len(cmds), Wanted, k)
    BY <1>6, <1>9, <2>1, CatGrows
  <2>3. QED
    BY <1>15, <2>2 DEF Grows
<1>17. out' \o batch' = Cat(Wanted, k)'
  <2>1. (out \o batch) \o Wanted[k] = out \o (batch \o Wanted[k])
    <3>1. out \in Seq(RedisAtoms) /\ batch \in Seq(RedisAtoms) /\ Wanted[k] \in Seq(RedisAtoms)
      BY <1>1, <1>6, <1>16
    <3>2. Regroups(out, batch, Wanted[k])
      BY <3>1, AtomsRegroup
    <3>3. QED
      BY <3>2, Zenon DEF Regroups
  <2>2. QED
    BY <1>1, <1>2, <1>3, <1>11, <1>13, <1>16, <2>1
<1>18. batch' \in Seq(RedisAtoms)
  BY <1>1, <1>11, <1>13, <1>16
<1>19. \A i \in 1..k : ~Refused(cmds[i])'
  <2>1. \A i \in 1..c : ~Refused(cmds[i])
    BY DEF Stage
  <2>2. QED
    BY <1>3, <1>14, <1>15, <2>1
<1>20. Within(k, arrivedLen)' /\ legBuf' = Window(k, arrivedLen)'
  BY <1>2, <1>3, <1>8, <1>11 DEF Within, Window
<1>21. out' = Cat(Wanted, d)'
  <2>1. out = Cat(Wanted, d)
    BY DEF Stage
  <2>2. QED
    BY <1>2, <1>3, <2>1
<1>22. Stage(k, d)'
  BY <1>1, <1>2, <1>15, <1>17, <1>18, <1>19, <1>20, <1>21 DEF Stage
<1>23. QED
  BY <1>22 DEF k

\* What was collected is emitted when no command is left that is complete.
LEMMA ReturnKept ==
  ASSUME CommandsAssumption, Arrays, cmds \in Seq(Commands), NEW c \in Nat, NEW d \in Nat, Stage(c, d), Return
  PROVE  Stage(c, c)'
<1>1. busy /\ ~closed /\ ~ended /\ out \o batch = Cat(Wanted, c) /\ batch \in Seq(RedisAtoms)
      /\ legBuf = Window(c, arrivedLen) /\ flushed = <<>>
  BY DEF Stage, Return
<1>2. cmds' = cmds /\ renames' = renames /\ arrivedLen' = arrivedLen /\ legBuf' = legBuf /\ closed' = closed
      /\ batch' = batch /\ ended' = ended /\ flushed' = flushed /\ busy' = FALSE /\ out' = out \o batch
      /\ CommandLen(legBuf) = 0
  BY DEF Return
<1>3. Sent' = Sent /\ Wanted' = Wanted /\ CommandStream' = CommandStream /\ \A i : Refused(cmds[i])' <=> Refused(cmds[i])
  BY <1>2, SentFixed
<1>4. Within(c, arrivedLen) /\ c \in 0..Len(cmds) /\ arrivedLen \in Nat
  BY StageIs
<1>5. ASSUME c < Len(cmds) PROVE arrivedLen < Edge(Sent, c + 1)
  <2>1. CommandLen(legBuf) = IF Edge(Sent, c + 1) <= arrivedLen THEN Len(Frame(cmds[c + 1])) ELSE 0
    BY <1>1, <1>4, <1>5, TakesNext
  <2>2. cmds[c + 1] \in Commands /\ Edge(Sent, c + 1) = Edge(Sent, c) + Len(Frame(cmds[c + 1])) /\ Edge(Sent, c) \in Nat
    BY <1>4, <1>5, NextIs
  <2>3. Len(Frame(cmds[c + 1])) \in Nat /\ Len(Frame(cmds[c + 1])) > 0
    BY <2>2, CommandIs
  <2>4. Edge(Sent, c + 1) \in Nat
    <3>1. \A x, y \in Nat : x + y \in Nat
      OBVIOUS
    <3>2. QED
      BY <2>2, <2>3, <3>1
  <2>5. ~(Edge(Sent, c + 1) <= arrivedLen)
    BY <1>2, <2>1, <2>3
  <2>6. QED
    BY <1>4, <2>4, <2>5
<1>6. Within(c, arrivedLen)' /\ legBuf' = Window(c, arrivedLen)'
  BY <1>1, <1>2, <1>3, <1>4 DEF Within, Window
<1>7. \A i \in 1..c : ~Refused(cmds[i])'
  BY <1>3 DEF Stage
<1>8. c \in 0..c
  OBVIOUS
<1>9. QED
  BY <1>1, <1>2, <1>3, <1>5, <1>6, <1>7, <1>8 DEF Stage

\* At the end of a stream that was read in full there is nothing left to emit.
LEMMA EndKept ==
  ASSUME CommandsAssumption, Arrays, cmds \in Seq(Commands), NEW c \in Nat, NEW d \in Nat, Stage(c, d), GuestEnd
  PROVE  Stage(c, d)'
<1>1. ~busy /\ ~closed /\ ~ended /\ legBuf = Window(c, arrivedLen) /\ (c < Len(cmds) => arrivedLen < Edge(Sent, c + 1))
  BY DEF Stage, GuestEnd
<1>2. cmds' = cmds /\ renames' = renames /\ arrivedLen' = arrivedLen /\ closed' = closed /\ busy' = busy /\ batch' = batch
      /\ out' = out /\ ended' = TRUE /\ flushed' = RawFeed(RawPairs(RulePairs), <<>>, legBuf).out
  BY DEF GuestEnd
<1>3. Sent' = Sent /\ Wanted' = Wanted /\ CommandStream' = CommandStream /\ \A i : Refused(cmds[i])' <=> Refused(cmds[i])
  BY <1>2, SentFixed
<1>4. Within(c, arrivedLen) /\ c \in 0..Len(cmds) /\ arrivedLen \in Nat /\ Len(cmds) \in Nat /\ Edge(Sent, Len(cmds)) \in Nat
  BY StageIs
<1>5. ASSUME arrivedLen = Edge(Sent, Len(cmds)) PROVE flushed' = <<>>
  <2>1. c = Len(cmds)
    <3>1. SUFFICES ASSUME c < Len(cmds) PROVE FALSE
      BY <1>4
    <3>2. Edge(Sent, c + 1) = Edge(Sent, c) + Len(Frame(cmds[c + 1])) /\ Edge(Sent, c) \in Nat
          /\ Edge(Sent, c + 1) <= Edge(Sent, Len(cmds)) /\ cmds[c + 1] \in Commands
      BY <1>4, <3>1, NextIs
    <3>3. Len(Frame(cmds[c + 1])) \in Nat
      BY <3>2, CommandIs
    <3>4. Edge(Sent, c + 1) \in Nat
      <4>1. \A x, y \in Nat : x + y \in Nat
        OBVIOUS
      <4>2. QED
        BY <3>2, <3>3, <4>1
    <3>5. QED
      BY <1>1, <1>4, <1>5, <3>1, <3>2, <3>4
  <2>2. legBuf = <<>>
    BY <1>1, <1>4, <2>1, LastWindow
  <2>3. QED
    BY <1>2, <2>2 DEF RawFeed
<1>6. QED
  BY <1>1, <1>2, <1>3, <1>5 DEF Stage, Within

\* Every step keeps it.
LEMMA RedisKept ==
  ASSUME CommandsAssumption, Arrays, RedisInv, [RedisNext]_redisVars
  PROVE  RedisInv'
<1>1. cmds \in Seq(Commands)
  BY DEF RedisInv
<1>2. PICK c \in Nat, d \in Nat : Stage(c, d)
  BY DEF RedisInv
<1>3. c + 1 \in Nat
  OBVIOUS
<1>4. \E x, y \in Nat : Stage(x, y)'
  <2>1. CASE Arrive
    <3>1. Stage(c, c)'
      BY <1>1, <1>2, <2>1, ArriveKept
    <3>2. QED
      BY <3>1
  <2>2. CASE TooLong \/ BadArity
    <3>1. LatchClosed
      BY <2>2 DEF TooLong, BadArity
    <3>2. Stage(c, d)'
      BY <1>2, <3>1, LatchKept
    <3>3. QED
      BY <3>2
  <2>3. CASE TakeCommand
    <3>1. Stage(c + 1, d)'
      BY <1>1, <1>2, <2>3, TakeKept
    <3>2. QED
      BY <1>3, <3>1
  <2>4. CASE Return
    <3>1. Stage(c, c)'
      BY <1>1, <1>2, <2>4, ReturnKept
    <3>2. QED
      BY <3>1
  <2>5. CASE GuestEnd
    <3>1. Stage(c, d)'
      BY <1>1, <1>2, <2>5, EndKept
    <3>2. QED
      BY <3>1
  <2>6. CASE Done \/ UNCHANGED redisVars
    <3>1. UNCHANGED redisVars
      BY <2>6 DEF Done
    <3>2. Stage(c, d)'
      BY <1>2, <3>1, StillKept
    <3>3. QED
      BY <3>2
  <2>7. QED
    BY <2>1, <2>2, <2>3, <2>4, <2>5, <2>6 DEF RedisNext
<1>5. (cmds \in Seq(Commands))'
  BY <1>1, ScriptFixed
<1>6. QED
  BY <1>4, <1>5 DEF RedisInv

\* It holds before the first read.
LEMMA RedisStart ==
  ASSUME CommandsAssumption, Arrays, RedisInit
  PROVE  RedisInv
<1>1. cmds \in Seq(Commands)
  <2>1. cmds \in UNION {[1..m -> Commands] : m \in 0..MaxCommands}
    BY DEF RedisInit, SeqOf
  <2>2. PICK m \in 0..MaxCommands : cmds \in [1..m -> Commands]
    BY <2>1
  <2>3. m \in Nat
    OBVIOUS
  <2>4. QED
    BY <2>2, <2>3
<1>2. Len(cmds) \in Nat /\ Sent \in [1..Len(cmds) -> Seq(RedisAtoms)] /\ Wanted \in [1..Len(cmds) -> Seq(RedisAtoms)]
  BY <1>1, SentIs
<1>3. Edge(Sent, 0) = 0 /\ \A i \in 0..Len(cmds) : Cat(Sent, i) \in Seq(RedisAtoms) /\ Edge(Sent, i) \in Nat
  BY <1>2, CatIs
<1>4. Cat(Wanted, 0) = <<>>
  BY <1>2, CatIs
<1>5. Len(cmds) \in 0..Len(cmds) /\ 0 \in 0..Len(cmds)
  BY <1>2
<1>6. Edge(Sent, Len(cmds)) \in Nat
  BY <1>3, <1>5
<1>7. Within(0, 0)
  BY <1>3, <1>5, <1>6 DEF Within
<1>8. Window(0, 0) = <<>>
  <2>1. Window(0, 0) \in Seq(RedisAtoms) /\ Len(Window(0, 0)) = 0 - Edge(Sent, 0)
    BY <1>1, <1>7, WindowIs
  <2>2. QED
    BY <1>3, <2>1
<1>9. ASSUME 0 < Len(cmds) PROVE 0 < Edge(Sent, 0 + 1)
  <2>1. cmds[0 + 1] \in Commands /\ Edge(Sent, 0 + 1) = Edge(Sent, 0) + Len(Frame(cmds[0 + 1]))
    BY <1>1, <1>5, <1>9, NextIs
  <2>2. Len(Frame(cmds[0 + 1])) \in Nat /\ Len(Frame(cmds[0 + 1])) > 0
    BY <2>1, CommandIs
  <2>3. QED
    BY <1>3, <2>1, <2>2
<1>10. /\ arrivedLen = 0 /\ legBuf = <<>> /\ closed = FALSE /\ busy = FALSE /\ batch = <<>> /\ ended = FALSE
       /\ out = <<>> /\ flushed = <<>>
  BY DEF RedisInit
<1>11. 0 \in 0..0 /\ <<>> \in Seq(RedisAtoms) /\ \A i \in 1..0 : FALSE
  OBVIOUS
<1>12. Stage(0, 0)
  BY <1>4, <1>7, <1>8, <1>9, <1>10, <1>11 DEF Stage
<1>13. QED
  BY <1>1, <1>12 DEF RedisInv

\* The commands that arrived are those that end within what was read.
LEMMA ArrivedIs ==
  ASSUME CommandsAssumption, Arrays, cmds \in Seq(Commands), NEW c, NEW a, Within(c, a),
         c < Len(cmds) => a < Edge(Sent, c + 1)
  PROVE  Cardinality({i \in DOMAIN cmds : Len(FlattenSeq([j \in 1..i |-> Frame(cmds[j])])) <= a}) = c
<1> DEFINE N == Len(cmds)
<1>1. N \in Nat /\ DOMAIN cmds = 1..N /\ Sent \in [1..N -> Seq(RedisAtoms)]
  BY SentIs
<1>2. c \in 0..N /\ a \in Nat /\ Edge(Sent, c) <= a
  BY DEF Within
<1>3. ASSUME NEW i \in 1..N PROVE Len(FlattenSeq([j \in 1..i |-> Frame(cmds[j])])) = Edge(Sent, i)
  <2>1. [j \in 1..i |-> Frame(cmds[j])] = [j \in 1..i |-> Sent[j]]
    <3>1. \A j \in 1..N : Sent[j] = Frame(cmds[j])
      BY DEF Sent
    <3>2. \A j \in 1..i : j \in 1..N
      BY <1>1
    <3>3. QED
      BY <3>1, <3>2
  <2>2. QED
    BY <2>1 DEF Edge, Cat
<1>4. \A i \in 0..N : Edge(Sent, i) \in Nat
  <2> HIDE DEF N
  <2>1. \A i \in 0..N : Cat(Sent, i) \in Seq(RedisAtoms) /\ Edge(Sent, i) \in Nat
    BY <1>1, CatIs
  <2>2. QED
    BY <2>1
<1>5. ASSUME NEW i \in 1..N PROVE Edge(Sent, i) <= a <=> i <= c
  <2>1. i \in 0..N /\ Edge(Sent, i) \in Nat
    BY <1>1, <1>4
  <2>2. CASE i <= c
    <3>1. Edge(Sent, i) <= Edge(Sent, c)
      <4> HIDE DEF N
      <4>1. QED
        BY <1>1, <1>2, <2>1, <2>2, EdgesUp
    <3>2. QED
      BY <1>2, <1>4, <2>1, <2>2, <3>1
  <2>3. CASE ~(i <= c)
    <3>1. c + 1 \in 0..N /\ c + 1 <= i /\ c < N
      <4>1. N \in Nat /\ c \in 0..N
        BY <1>1, <1>2
      <4> HIDE DEF N
      <4>2. i \in 1..N
        BY DEF N
      <4>3. QED
        BY <2>3, <4>1, <4>2
    <3>2. a < Edge(Sent, c + 1) /\ Edge(Sent, c + 1) \in Nat
      BY <1>4, <3>1
    <3>3. Edge(Sent, c + 1) <= Edge(Sent, i)
      <4> HIDE DEF N
      <4>1. QED
        BY <1>1, <2>1, <3>1, EdgesUp
    <3>4. QED
      BY <1>2, <2>1, <2>3, <3>2, <3>3
  <2>4. QED
    BY <2>2, <2>3
<1>6. {i \in DOMAIN cmds : Len(FlattenSeq([j \in 1..i |-> Frame(cmds[j])])) <= a} = 1..c
  <2>1. \A i \in 1..N : Len(FlattenSeq([j \in 1..i |-> Frame(cmds[j])])) <= a <=> i <= c
    BY <1>3, <1>5
  <2>2. {i \in 1..N : i <= c} = 1..c
    BY <1>1, <1>2
  <2>3. {i \in DOMAIN cmds : Len(FlattenSeq([j \in 1..i |-> Frame(cmds[j])])) <= a} = {i \in 1..N : i <= c}
    BY <1>1, <2>1
  <2>4. QED
    BY <2>2, <2>3
<1>7. Cardinality(1..c) = c
  <2>1. 1 \in Int /\ c \in Int /\ c \in Nat
    BY <1>2
  <2>2. Cardinality(1..c) = IF 1 > c THEN 0 ELSE c - 1 + 1
    BY <2>1, FS_Interval
  <2>3. QED
    BY <2>1, <2>2
<1>8. QED
  BY <1>6, <1>7

\* What was emitted is what the commands up to the first refused one mean.
LEMMA RedisMeans ==
  ASSUME CommandsAssumption, Arrays, RedisInv
  PROVE  CommandsRead
<1> DEFINE N == Len(cmds)
           upTo(n) == FlattenSeq([i \in 1..n |-> Frame(Meant(cmds[i]))])
           arrived == Cardinality({i \in DOMAIN cmds : Len(FlattenSeq([j \in 1..i |-> Frame(cmds[j])])) <= arrivedLen})
           refused == {i \in DOMAIN cmds : Refused(cmds[i])}
           last    == IF refused = {} THEN N ELSE Min(refused) - 1
<1>1. cmds \in Seq(Commands)
  BY DEF RedisInv
<1>2. PICK c \in Nat, d \in Nat : Stage(c, d)
  BY DEF RedisInv
<1>3. N \in Nat /\ DOMAIN cmds = 1..N /\ Wanted \in [1..N -> Seq(RedisAtoms)] /\ CommandStream = Cat(Sent, N)
  BY <1>1, SentIs
<1>4. /\ c \in 0..N /\ d \in 0..c /\ d \in 0..N /\ Within(c, arrivedLen) /\ out = Cat(Wanted, d)
      /\ \A i \in 0..N : Cat(Wanted, i) \in Seq(RedisAtoms)
  <2>1. out = Cat(Wanted, d)
    BY <1>2 DEF Stage
  <2>2. QED
    BY <1>1, <1>2, <2>1, StageIs
<1>5. \A i \in 1..c : ~Refused(cmds[i])
  BY <1>2 DEF Stage
<1>6. last \in 0..N /\ c <= last
  <2>1. refused \in SUBSET (1..N) /\ \A i \in refused : Refused(cmds[i])
    BY <1>3
  <2> HIDE DEF refused
  <2>2. CASE refused = {}
    BY <1>3, <1>4, <2>2
  <2>3. CASE refused # {}
    <3>1. refused \in SUBSET Nat
      BY <2>1
    <3>2. Min(refused) \in refused
      BY <2>3, <3>1, MinIs
    <3>3. Min(refused) \in 1..N /\ Min(refused) \notin 1..c
      BY <1>5, <2>1, <3>2
    <3>4. QED
      BY <1>3, <1>4, <2>3, <3>3
  <2>4. QED
    BY <2>2, <2>3
<1>7. ASSUME NEW n \in 0..N PROVE upTo(n) = Cat(Wanted, n)
  <2>1. [i \in 1..n |-> Frame(Meant(cmds[i]))] = [i \in 1..n |-> Wanted[i]]
    BY <1>3 DEF Wanted
  <2>2. QED
    BY <2>1 DEF Cat
<1>8. ~busy /\ ~closed => arrived <= last /\ out = upTo(arrived)
  <2>1. SUFFICES ASSUME ~busy, ~closed PROVE arrived <= last /\ out = upTo(arrived)
    OBVIOUS
  <2>2. d = c /\ (c < Len(cmds) => arrivedLen < Edge(Sent, c + 1))
    BY <1>2, <2>1 DEF Stage
  <2>3. arrived = c
    BY <1>1, <1>4, <2>2, ArrivedIs
  <2> HIDE DEF arrived, upTo, last
  <2>4. QED
    BY <1>4, <1>6, <1>7, <2>2, <2>3
<1>9. arrivedLen = Len(CommandStream) => flushed = <<>>
  <2>1. Len(CommandStream) = Edge(Sent, N)
    BY <1>3 DEF Edge
  <2>2. QED
    BY <1>2, <2>1 DEF Stage
<1>10. IsPrefix(out, upTo(last))
  <2> HIDE DEF last, N, refused
  <2>1. d <= last /\ d \in 0..last /\ last \in Nat
    BY <1>3, <1>4, <1>6
  <2>2. PICK w \in [1..last -> Seq(RedisAtoms)] : \A j \in 1..last : w[j] = Wanted[j]
    <3>1. [j \in 1..last |-> Wanted[j]] \in [1..last -> Seq(RedisAtoms)]
      BY <1>3, <1>6
    <3>2. QED
      BY <3>1
  <2>3. Cat(w, d) = Cat(Wanted, d) /\ Cat(w, last) = Cat(Wanted, last)
    <3>1. [j \in 1..d |-> w[j]] = [j \in 1..d |-> Wanted[j]]
      BY <2>1, <2>2
    <3>2. [j \in 1..last |-> w[j]] = [j \in 1..last |-> Wanted[j]]
      BY <2>2
    <3>3. QED
      BY <3>1, <3>2 DEF Cat
  <2>4. Begins(RedisAtoms, Cat(w, d), Cat(w, last))
    BY <2>1, CatRest
  <2>5. PICK v \in Seq(RedisAtoms) : Cat(Wanted, last) = out \o v
    BY <1>4, <2>3, <2>4 DEF Begins
  <2>6. out \in Seq(RedisAtoms) /\ upTo(last) = out \o v
    BY <1>4, <1>6, <1>7, <2>5
  <2> HIDE DEF upTo
  <2>7. IsPrefix(out, out \o v)
    <3>1. Len(out) <= Len(out \o v)
      BY <2>6
    <3>2. SubSeq(out, 1, Len(out)) = SubSeq(out \o v, 1, Len(out))
      BY <2>6
    <3>3. QED
      BY <3>1, <3>2 DEF IsPrefix
  <2>8. QED
    BY <2>6, <2>7
<1>11. QED
  BY <1>8, <1>9, <1>10 DEF CommandsRead

\* The server reads the guest's array commands in order and whole, each with its
\* credentials and only these replaced and all lengths restated, each as soon as
\* it is complete and none from a refused one on, for any commands and however
\* they are cut (feed_downstream, take_array, rewrite_array, redis/machine.rs).
THEOREM ArraysRead ==
  ASSUME \A c \in Commands : c.form = "array"
  PROVE  RedisSpec => []CommandsRead
<1>1. Arrays
  BY DEF Arrays
<1>2. RedisInit => RedisInv
  BY <1>1, CommandsAssumption, RedisStart
<1>3. RedisInv /\ [RedisNext]_redisVars => RedisInv'
  BY <1>1, CommandsAssumption, RedisKept
<1>4. RedisInv => CommandsRead
  BY <1>1, CommandsAssumption, RedisMeans
<1>5. QED
  BY <1>2, <1>3, <1>4, PTL DEF RedisSpec
=============================================================================
