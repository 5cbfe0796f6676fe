----------------------------- MODULE WireProofs -----------------------------
(***************************************************************************)
(* Proofs about Windows, for every alphabet, every stream and every way of *)
(* cutting it into arrivals, and about the latch of HttpWire.              *)
(*                                                                         *)
(* The recursive functions of Needle are handled in three steps: that they *)
(* exist (Recursion), the equations they satisfy (ReplaceIs, EndsAre), and *)
(* what follows by induction from the end of the sequence (Downward).      *)
(***************************************************************************)
EXTENDS Windows, SequenceTheorems, NaturalsInduction, WellFoundedInduction, TLAPS

-----------------------------------------------------------------------------
(* Induction over a range of positions.                                    *)

\* A set of numbers that is not empty has a least one.
LEMMA LeastExists ==
  ASSUME NEW I \in SUBSET Nat, I # {}
  PROVE  \E x \in I : \A y \in I : x <= y
<1>1. \E x \in I : \A y \in I : <<y, x>> \notin OpToRel(<, Nat)
  BY NatLessThanWellFounded, WFMin
<1>2. OpToRel(<, Nat) = {ss \in Nat \X Nat : ss[1] < ss[2]}
  BY Zenon DEF OpToRel
<1>3. \A x, y \in Nat : <<y, x>> \in {ss \in Nat \X Nat : ss[1] < ss[2]} \/ x <= y
  OBVIOUS
<1>4. \E x \in I : \A y \in I : <<y, x>> \notin {ss \in Nat \X Nat : ss[1] < ss[2]}
  BY <1>1, <1>2, Zenon
<1>5. QED
  BY <1>3, <1>4

\* A set that holds 0 and every successor up to N holds 0..N.
LEMMA Upward ==
  ASSUME NEW N \in Nat, NEW K, 0 \in K, \A k \in 0..N : k < N /\ k \in K => k + 1 \in K
  PROVE  0..N \subseteq K
<1> DEFINE I == {k \in 0..N : k \notin K}
<1>1. SUFFICES ASSUME I # {} PROVE FALSE
  OBVIOUS
<1>2. PICK x \in I : \A y \in I : x <= y
  <2>1. I \in SUBSET Nat
    OBVIOUS
  <2>2. QED
    BY <1>1, <2>1, LeastExists
<1>3. x # 0 /\ x \in 0..N
  BY <1>2
<1>4. x - 1 \in 0..N /\ x - 1 < N /\ x - 1 \notin I
  BY <1>2, <1>3
<1>5. x - 1 + 1 \in K
  BY <1>4
<1>6. QED
  BY <1>3, <1>5

\* A set that holds N and, with everything above a position, the position,
\* holds 1..N.
LEMMA Downward ==
  ASSUME NEW N \in Nat, NEW K, \A i \in 1..N : (\A j \in 1..N : j > i => j \in K) => i \in K
  PROVE  1..N \subseteq K
<1> DEFINE I == {k \in 0..N : k < N /\ N - k \notin K}
<1>1. SUFFICES ASSUME I # {} PROVE FALSE
  <2>1. SUFFICES ASSUME NEW i \in 1..N, i \notin K PROVE N - i \in I
    BY <1>1
  <2>2. N - i \in 0..N /\ N - i < N /\ N - (N - i) = i
    OBVIOUS
  <2>3. QED
    BY <2>1, <2>2
<1>2. PICK x \in I : \A y \in I : x <= y
  <2>1. I \in SUBSET Nat
    OBVIOUS
  <2>2. QED
    BY <1>1, <2>1, LeastExists
<1>3. x \in 0..N /\ x < N /\ N - x \notin K
  BY <1>2
<1>4. N - x \in 1..N
  BY <1>3
<1>5. ASSUME NEW j \in 1..N, j > N - x PROVE j \in K
  <2>1. N - j \in 0..N /\ N - j < N /\ N - j < x /\ N - (N - j) = j
    BY <1>3, <1>5
  <2>2. N - j \notin I
    BY <1>2, <1>3, <2>1
  <2>3. QED
    BY <2>1, <2>2
<1>6. QED
  BY <1>3, <1>4, <1>5

\* A set of numbers with a bound has a greatest one, which Max picks.
LEMMA GreatestIs ==
  ASSUME NEW N \in Nat, NEW I \in SUBSET (0..N), I # {}
  PROVE  Max(I) \in I /\ \A y \in I : y <= Max(I)
<1> DEFINE J == {k \in 0..N : N - k \in I}
<1>1. J # {} /\ J \in SUBSET Nat
  <2>1. PICK y \in I : TRUE
    OBVIOUS
  <2>2. y \in 0..N /\ N - y \in 0..N /\ N - (N - y) = y
    OBVIOUS
  <2>3. N - y \in J
    BY <2>1, <2>2
  <2>4. J \subseteq 0..N
    OBVIOUS
  <2>5. J # {}
    BY <2>3
  <2>6. QED
    BY <2>4, <2>5
<1>2. PICK x \in J : \A y \in J : x <= y
  BY <1>1, LeastExists
<1>3. N - x \in I /\ x \in 0..N
  BY <1>2
<1>4. ASSUME NEW y \in I PROVE y <= N - x
  <2>1. y \in 0..N /\ N - y \in 0..N /\ N - (N - y) = y
    OBVIOUS
  <2>2. x <= N - y
    BY <1>2, <2>1
  <2>3. QED
    BY <1>3, <2>1, <2>2
<1>5. \E z \in I : \A y \in I : z >= y
  BY <1>3, <1>4
<1>6. Max(I) \in I /\ \A y \in I : Max(I) >= y
  BY <1>5 DEF Max
<1>7. QED
  BY <1>6

\* The lesser of two numbers.
LEMMA MinIs ==
  ASSUME NEW a \in Nat, NEW b \in Nat
  PROVE  Min({a, b}) = IF a <= b THEN a ELSE b
<1>1. \E x \in {a, b} : \A y \in {a, b} : x <= y
  OBVIOUS
<1>2. Min({a, b}) \in {a, b} /\ \A y \in {a, b} : Min({a, b}) <= y
  BY <1>1 DEF Min
<1>3. QED
  BY <1>2

(* What defines a function on 1..(N + 1) from its values further on: its    *)
(* value at the end, the next position, and what is made of the value there. *)
Recursive(N, D, base, G, nx) ==
  /\ N \in Nat /\ base \in D /\ G \in [1..N -> [D -> D]]
  /\ nx \in [1..N -> 1..(N + 1)] /\ \A i \in 1..N : nx[i] > i

\* A function that is defined from its values further on exists.
LEMMA Recursion ==
  ASSUME NEW N, NEW D, NEW base, NEW G, NEW nx, Recursive(N, D, base, G, nx)
  PROVE  \E f \in [1..(N + 1) -> D] :
           f[N + 1] = base /\ \A i \in 1..N : f[i] = G[i][f[nx[i]]]
<1> USE DEF Recursive
<1> DEFINE Part(k) == \E f \in [(N + 1 - k)..(N + 1) -> D] :
             f[N + 1] = base /\ \A i \in (N + 1 - k)..N : f[i] = G[i][f[nx[i]]]
           K == {k \in 0..N : Part(k)}
<1>1. 0 \in K
  <2>1. [j \in (N + 1)..(N + 1) |-> base] \in [(N + 1)..(N + 1) -> D]
    OBVIOUS
  <2>2. [j \in (N + 1)..(N + 1) |-> base][N + 1] = base
    OBVIOUS
  <2>3. \A i \in (N + 1)..N : FALSE
    OBVIOUS
  <2>4. Part(0)
    <3>1. N + 1 - 0 = N + 1
      OBVIOUS
    <3>2. QED
      BY <2>1, <2>2, <2>3, <3>1
  <2>5. QED
    BY <2>4
<1>2. ASSUME NEW k \in 0..N, k < N, k \in K PROVE k + 1 \in K
  <2>1. PICK f \in [(N + 1 - k)..(N + 1) -> D] :
             f[N + 1] = base /\ \A i \in (N + 1 - k)..N : f[i] = G[i][f[nx[i]]]
    BY <1>2
  <2> DEFINE m == N - k
             g == [j \in m..(N + 1) |-> IF j = m THEN G[m][f[nx[m]]] ELSE f[j]]
  <2>2. m \in 1..N /\ m = N + 1 - (k + 1) /\ N + 1 - k = m + 1
    BY <1>2
  <2>3. nx[m] \in (m + 1)..(N + 1)
    BY <2>2
  <2>4. G[m][f[nx[m]]] \in D
    BY <2>1, <2>2, <2>3
  <2>5. \A j \in (m + 1)..(N + 1) : f[j] \in D
    BY <2>1, <2>2
  <2>6. g \in [m..(N + 1) -> D]
    <3> HIDE DEF m
    <3>1. \A j \in m..(N + 1) : (IF j = m THEN G[m][f[nx[m]]] ELSE f[j]) \in D
      BY <2>2, <2>4, <2>5
    <3>2. QED
      BY <3>1
  <2>7. \A j \in m..(N + 1) : j # m => g[j] = f[j]
    OBVIOUS
  <2>8. g[m] = G[m][f[nx[m]]]
    BY <2>2
  <2> HIDE DEF g, m
  <2>9. g[N + 1] = base
    BY <2>1, <2>2, <2>7
  <2>10. ASSUME NEW i \in m..N PROVE g[i] = G[i][g[nx[i]]]
    <3>1. i \in 1..N /\ nx[i] \in (i + 1)..(N + 1)
      BY <2>2
    <3>2. nx[i] \in m..(N + 1) /\ nx[i] # m
      BY <2>2, <3>1
    <3>3. g[nx[i]] = f[nx[i]]
      BY <2>7, <3>2
    <3>4. CASE i = m
      BY <2>8, <3>3, <3>4
    <3>5. CASE i # m
      <4>1. i \in (N + 1 - k)..N /\ i \in m..(N + 1)
        BY <2>2, <3>5
      <4>2. g[i] = f[i]
        BY <2>7, <3>5, <4>1
      <4>3. f[i] = G[i][f[nx[i]]]
        BY <2>1, <4>1
      <4>4. QED
        BY <3>3, <4>2, <4>3
    <3>6. QED
      BY <3>4, <3>5
  <2>11. Part(k + 1)
    <3>1. N + 1 - (k + 1) = m
      BY <2>2
    <3>2. QED
      BY <2>6, <2>9, <2>10, <3>1
  <2>12. k + 1 \in 0..N
    BY <1>2
  <2>13. QED
    BY <2>11, <2>12
<1>3. 0..N \subseteq K
  <2> HIDE DEF K
  <2> QED
    BY <1>1, <1>2, Upward
<1>4. Part(N)
  BY <1>3
<1>5. N + 1 - N = 1
  OBVIOUS
<1>6. QED
  BY <1>4, <1>5

-----------------------------------------------------------------------------
(* Sequences, position by position.                                        *)

(* Concatenation groups either way.                                        *)
Assoc(S, s, t, u) == (s \o t) \o u = s \o (t \o u)

\* Concatenation is associative.
LEMMA AssocIs ==
  ASSUME NEW S, NEW s \in Seq(S), NEW t \in Seq(S), NEW u \in Seq(S)
  PROVE  Assoc(S, s, t, u)
BY ConcatAssociative DEF Assoc

\* A part of a sequence.
LEMMA SubIs ==
  ASSUME NEW S, NEW s \in Seq(S), NEW a \in Nat \ {0}, NEW b \in Nat, b <= Len(s), a <= b + 1
  PROVE  /\ SubSeq(s, a, b) \in Seq(S) /\ Len(SubSeq(s, a, b)) = b - a + 1
         /\ \A i \in 1..(b - a + 1) : SubSeq(s, a, b)[i] = s[a + i - 1]
<1>1. \A i \in a..b : s[i] \in S
  BY ElementOfSeq
<1>2. QED
  BY <1>1, SubSeqProperties

\* The first k of a sequence, and the others.
LEMMA CutIs ==
  ASSUME NEW S, NEW s \in Seq(S), NEW k \in 0..Len(s)
  PROVE  /\ Prefix(s, k) \in Seq(S) /\ Len(Prefix(s, k)) = k
         /\ \A i \in 1..k : Prefix(s, k)[i] = s[i]
         /\ Rest(s, k) \in Seq(S) /\ Len(Rest(s, k)) = Len(s) - k
         /\ \A i \in 1..(Len(s) - k) : Rest(s, k)[i] = s[k + i]
         /\ Prefix(s, k) \o Rest(s, k) = s
<1>1. Len(s) \in Nat
  OBVIOUS
<1>2. /\ Prefix(s, k) \in Seq(S) /\ Len(Prefix(s, k)) = k
      /\ \A i \in 1..k : Prefix(s, k)[i] = s[i]
  <2>1. /\ SubSeq(s, 1, k) \in Seq(S) /\ Len(SubSeq(s, 1, k)) = k - 1 + 1
        /\ \A i \in 1..(k - 1 + 1) : SubSeq(s, 1, k)[i] = s[1 + i - 1]
    <3>1. 1 \in Nat \ {0} /\ k \in Nat /\ k <= Len(s) /\ 1 <= k + 1
      BY <1>1
    <3>2. QED
      BY <3>1, SubIs
  <2>2. QED
    BY <1>1, <2>1 DEF Prefix
<1>3. /\ Rest(s, k) \in Seq(S) /\ Len(Rest(s, k)) = Len(s) - k
      /\ \A i \in 1..(Len(s) - k) : Rest(s, k)[i] = s[k + i]
  <2>1. /\ SubSeq(s, k + 1, Len(s)) \in Seq(S)
        /\ Len(SubSeq(s, k + 1, Len(s))) = Len(s) - (k + 1) + 1
        /\ \A i \in 1..(Len(s) - (k + 1) + 1) : SubSeq(s, k + 1, Len(s))[i] = s[k + 1 + i - 1]
    <3>1. k + 1 \in Nat \ {0} /\ k + 1 <= Len(s) + 1
      BY <1>1
    <3>2. QED
      BY <1>1, <3>1, SubIs
  <2>2. QED
    BY <1>1, <2>1 DEF Rest
<1>4. Prefix(s, k) \o Rest(s, k) = s
  <2>1. /\ Prefix(s, k) \o Rest(s, k) \in Seq(S)
        /\ Len(Prefix(s, k) \o Rest(s, k)) = k + (Len(s) - k)
        /\ \A i \in 1..(k + (Len(s) - k)) :
             (Prefix(s, k) \o Rest(s, k))[i] =
               IF i <= k THEN Prefix(s, k)[i] ELSE Rest(s, k)[i - k]
    BY <1>2, <1>3, ConcatProperties
  <2>2. k + (Len(s) - k) = Len(s)
    BY <1>1
  <2>3. ASSUME NEW i \in 1..Len(s) PROVE (Prefix(s, k) \o Rest(s, k))[i] = s[i]
    <3>1. CASE i <= k
      BY <1>2, <2>1, <2>2, <3>1
    <3>2. CASE i > k
      <4>1. i - k \in 1..(Len(s) - k) /\ k + (i - k) = i
        BY <1>1, <3>2
      <4>2. (Prefix(s, k) \o Rest(s, k))[i] = Rest(s, k)[i - k]
        BY <1>1, <2>1, <2>2, <3>2
      <4>3. QED
        BY <1>3, <4>1, <4>2
    <3>3. i <= k \/ i > k
      BY <1>1
    <3>4. QED
      BY <3>1, <3>2, <3>3, Zenon
  <2>4. QED
    BY <2>1, <2>2, <2>3, SeqEqual
<1>5. QED
  BY <1>2, <1>3, <1>4

\* Cutting a concatenation inside its first part.
LEMMA CutCat ==
  ASSUME NEW S, NEW s \in Seq(S), NEW t \in Seq(S), NEW k \in 0..Len(s)
  PROVE  /\ Prefix(s \o t, k) = Prefix(s, k)
         /\ Rest(s \o t, k) = Rest(s, k) \o t
<1>1. /\ s \o t \in Seq(S) /\ Len(s \o t) = Len(s) + Len(t)
      /\ \A i \in 1..(Len(s) + Len(t)) : (s \o t)[i] = IF i <= Len(s) THEN s[i] ELSE t[i - Len(s)]
  BY ConcatProperties
<1>2. Len(s) \in Nat /\ Len(t) \in Nat /\ k \in 0..Len(s \o t)
  BY <1>1
<1>3. /\ Prefix(s, k) \in Seq(S) /\ Len(Prefix(s, k)) = k
      /\ \A i \in 1..k : Prefix(s, k)[i] = s[i]
      /\ Rest(s, k) \in Seq(S) /\ Len(Rest(s, k)) = Len(s) - k
      /\ \A i \in 1..(Len(s) - k) : Rest(s, k)[i] = s[k + i]
  BY CutIs
<1>4. /\ Prefix(s \o t, k) \in Seq(S) /\ Len(Prefix(s \o t, k)) = k
      /\ \A i \in 1..k : Prefix(s \o t, k)[i] = (s \o t)[i]
      /\ Rest(s \o t, k) \in Seq(S) /\ Len(Rest(s \o t, k)) = Len(s \o t) - k
      /\ \A i \in 1..(Len(s \o t) - k) : Rest(s \o t, k)[i] = (s \o t)[k + i]
  BY <1>1, <1>2, CutIs
<1>5. Prefix(s \o t, k) = Prefix(s, k)
  <2>1. \A i \in 1..k : Prefix(s \o t, k)[i] = Prefix(s, k)[i]
    BY <1>1, <1>2, <1>3, <1>4
  <2>2. QED
    BY <1>3, <1>4, <2>1, SeqEqual
<1>6. Rest(s \o t, k) = Rest(s, k) \o t
  <2>1. /\ Rest(s, k) \o t \in Seq(S) /\ Len(Rest(s, k) \o t) = Len(s) - k + Len(t)
        /\ \A i \in 1..(Len(s) - k + Len(t)) :
             (Rest(s, k) \o t)[i] = IF i <= Len(s) - k THEN Rest(s, k)[i] ELSE t[i - (Len(s) - k)]
    <3>1. /\ Rest(s, k) \o t \in Seq(S) /\ Len(Rest(s, k) \o t) = Len(Rest(s, k)) + Len(t)
          /\ \A i \in 1..(Len(Rest(s, k)) + Len(t)) :
               (Rest(s, k) \o t)[i] =
                 IF i <= Len(Rest(s, k)) THEN Rest(s, k)[i] ELSE t[i - Len(Rest(s, k))]
      BY <1>3, ConcatProperties
    <3>2. QED
      BY <1>3, <3>1
  <2>2. Len(s \o t) - k = Len(s) - k + Len(t)
    BY <1>1, <1>2
  <2>3. ASSUME NEW i \in 1..(Len(s) - k + Len(t)) PROVE Rest(s \o t, k)[i] = (Rest(s, k) \o t)[i]
    <3>1. Rest(s \o t, k)[i] = (s \o t)[k + i]
      BY <1>4, <2>2
    <3>2. k + i \in 1..(Len(s) + Len(t)) /\ i \in Nat
      BY <1>2
    <3>3. CASE i <= Len(s) - k
      <4>1. k + i <= Len(s) /\ i \in 1..(Len(s) - k)
        BY <1>2, <3>2, <3>3
      <4>2. QED
        BY <1>1, <1>3, <2>1, <3>1, <3>2, <3>3, <4>1
    <3>4. CASE i > Len(s) - k
      <4>1. ~(k + i <= Len(s)) /\ k + i - Len(s) = i - (Len(s) - k) /\ ~(i <= Len(s) - k)
        BY <1>2, <3>2, <3>4
      <4>2. (s \o t)[k + i] = t[k + i - Len(s)]
        BY <1>1, <3>2, <4>1
      <4>3. (Rest(s, k) \o t)[i] = t[i - (Len(s) - k)]
        BY <2>1, <4>1
      <4>4. QED
        BY <3>1, <4>1, <4>2, <4>3
    <3>5. i <= Len(s) - k \/ i > Len(s) - k
      BY <1>2, <3>2
    <3>6. QED
      BY <3>3, <3>4, <3>5, Zenon
  <2>4. QED
    BY <1>4, <2>1, <2>2, <2>3, SeqEqual, SMTT(30)
<1>7. QED
  BY <1>5, <1>6

\* A match, byte by byte.
LEMMA MatchIs ==
  ASSUME NEW S, NEW h \in Seq(S), NEW n \in Seq(S), NEW i \in Nat \ {0}
  PROVE  MatchAt(h, n, i) <=> /\ i + Len(n) - 1 <= Len(h)
                              /\ \A k \in 1..Len(n) : h[i + k - 1] = n[k]
<1>1. Len(h) \in Nat /\ Len(n) \in Nat
  OBVIOUS
<1>2. SUFFICES ASSUME i + Len(n) - 1 <= Len(h)
      PROVE  SubSeq(h, i, i + Len(n) - 1) = n <=> \A k \in 1..Len(n) : h[i + k - 1] = n[k]
  BY DEF MatchAt
<1> DEFINE w == SubSeq(h, i, i + Len(n) - 1)
<1>3. /\ w \in Seq(S) /\ Len(w) = (i + Len(n) - 1) - i + 1
      /\ \A k \in 1..((i + Len(n) - 1) - i + 1) : w[k] = h[i + k - 1]
  <2>1. i + Len(n) - 1 \in Nat /\ i <= i + Len(n) - 1 + 1
    BY <1>1
  <2>2. QED
    BY <1>2, <2>1, SubIs
<1>4. (i + Len(n) - 1) - i + 1 = Len(n)
  BY <1>1
<1> HIDE DEF w
<1>5. ASSUME w = n PROVE \A k \in 1..Len(n) : h[i + k - 1] = n[k]
  BY <1>3, <1>4, <1>5
<1>6. ASSUME \A k \in 1..Len(n) : h[i + k - 1] = n[k] PROVE w = n
  <2>1. \A k \in 1..Len(w) : w[k] = n[k]
    BY <1>3, <1>4, <1>6
  <2>2. QED
    BY <1>3, <1>4, <2>1, SeqEqual
<1>7. QED
  BY <1>5, <1>6 DEF w

\* A match in a part is one in the whole, as far along as the part starts.
LEMMA MatchShifts ==
  ASSUME NEW S, NEW h \in Seq(S), NEW n \in Seq(S), NEW g \in Seq(S), NEW d \in Nat,
         NEW i \in Nat \ {0}, d + Len(g) <= Len(h), i + Len(n) - 1 <= Len(g),
         \A k \in 1..Len(g) : g[k] = h[d + k]
  PROVE  MatchAt(g, n, i) <=> MatchAt(h, n, d + i)
<1>1. Len(h) \in Nat /\ Len(n) \in Nat /\ Len(g) \in Nat /\ d + i \in Nat \ {0}
  OBVIOUS
<1>2. MatchAt(g, n, i) <=> \A k \in 1..Len(n) : g[i + k - 1] = n[k]
  BY MatchIs
<1>3. d + i + Len(n) - 1 <= Len(h)
  BY <1>1
<1>4. MatchAt(h, n, d + i) <=> \A k \in 1..Len(n) : h[d + i + k - 1] = n[k]
  BY <1>1, <1>3, MatchIs
<1>5. ASSUME NEW k \in 1..Len(n) PROVE g[i + k - 1] = h[d + i + k - 1]
  <2>1. i + k - 1 \in 1..Len(g) /\ d + (i + k - 1) = d + i + k - 1
    BY <1>1
  <2>2. QED
    BY <2>1
<1>6. QED
  BY <1>2, <1>4, <1>5

-----------------------------------------------------------------------------
(* The substitution and the ends of its matches.                           *)

(* What the recursive function of ReplaceBytes satisfies.                  *)
IsReplacing(f, h, n, r) ==
  f = [i \in 1..(Len(h) + 1) |->
         IF i > Len(h) THEN <<>>
         ELSE IF MatchAt(h, n, i) THEN r \o f[i + Len(n)]
         ELSE <<h[i]>> \o f[i + 1]]

(* What the recursive function of MatchEnds satisfies.                     *)
IsEnding(f, h, n) ==
  f = [i \in 1..(Len(h) + 1) |->
         IF i > Len(h) THEN {}
         ELSE IF MatchAt(h, n, i) THEN {i + Len(n) - 1} \cup f[i + Len(n)]
         ELSE f[i + 1]]

\* ReplaceBytes is well defined.
LEMMA ReplaceIs ==
  ASSUME NEW S, NEW h \in Seq(S), NEW n \in Seq(S), NEW r \in Seq(S), n # <<>>
  PROVE  \E f : IsReplacing(f, h, n, r) /\ ReplaceBytes(h, n, r) = f[1]
<1> DEFINE N  == Len(h)
           nx == [i \in 1..N |-> IF MatchAt(h, n, i) THEN i + Len(n) ELSE i + 1]
           G  == [i \in 1..N |-> IF MatchAt(h, n, i) THEN [x \in Seq(S) |-> r \o x]
                                 ELSE [x \in Seq(S) |-> <<h[i]>> \o x]]
<1>1. N \in Nat /\ Len(n) \in Nat \ {0}
  BY EmptySeq
<1>2. nx \in [1..N -> 1..(N + 1)] /\ \A i \in 1..N : nx[i] > i
  <2>1. ASSUME NEW i \in 1..N
        PROVE  /\ (IF MatchAt(h, n, i) THEN i + Len(n) ELSE i + 1) \in 1..(N + 1)
               /\ (IF MatchAt(h, n, i) THEN i + Len(n) ELSE i + 1) > i
    BY <1>1 DEF MatchAt
  <2>2. QED
    BY <2>1
<1>3. G \in [1..N -> [Seq(S) -> Seq(S)]]
  <2>1. ASSUME NEW i \in 1..N, NEW x \in Seq(S) PROVE r \o x \in Seq(S) /\ <<h[i]>> \o x \in Seq(S)
    <3>1. h[i] \in S /\ <<h[i]>> \in Seq(S)
      BY ElementOfSeq
    <3>2. QED
      BY <3>1, ConcatProperties
  <2>2. ASSUME NEW i \in 1..N
        PROVE  /\ [x \in Seq(S) |-> r \o x] \in [Seq(S) -> Seq(S)]
               /\ [x \in Seq(S) |-> <<h[i]>> \o x] \in [Seq(S) -> Seq(S)]
    BY <2>1
  <2>3. QED
    BY <2>2
<1>4. <<>> \in Seq(S)
  OBVIOUS
<1>5. PICK f \in [1..(N + 1) -> Seq(S)] : f[N + 1] = <<>> /\ \A i \in 1..N : f[i] = G[i][f[nx[i]]]
  <2> HIDE DEF G, nx, N
  <2> DEFINE D == Seq(S)
             base == <<>>
  <2>1. base \in D /\ G \in [1..N -> [D -> D]]
    BY <1>3, <1>4
  <2> HIDE DEF D, base
  <2>2. \E f \in [1..(N + 1) -> D] : f[N + 1] = base /\ \A i \in 1..N : f[i] = G[i][f[nx[i]]]
    <3>1. Recursive(N, D, base, G, nx)
      BY <1>1, <1>2, <2>1 DEF Recursive
    <3>2. QED
      BY <3>1, Recursion
  <2>3. QED
    BY <2>2 DEF D, base
<1>6. ASSUME NEW i \in 1..(N + 1)
      PROVE  f[i] = IF i > N THEN <<>>
                    ELSE IF MatchAt(h, n, i) THEN r \o f[i + Len(n)] ELSE <<h[i]>> \o f[i + 1]
  <2>1. CASE i > N
    <3>1. i = N + 1
      BY <1>1, <2>1
    <3>2. QED
      BY <1>5, <2>1, <3>1
  <2>2. CASE i \in 1..N
    <3>1. f[i] = G[i][f[nx[i]]] /\ f[nx[i]] \in Seq(S)
      BY <1>2, <1>5, <2>2
    <3>2. CASE MatchAt(h, n, i)
      <4>1. nx[i] = i + Len(n) /\ G[i] = [x \in Seq(S) |-> r \o x]
        BY <2>2, <3>2
      <4>2. f[i] = r \o f[i + Len(n)]
        BY <3>1, <4>1
      <4>3. QED
        BY <1>1, <2>2, <3>2, <4>2
    <3>3. CASE ~MatchAt(h, n, i)
      <4>1. nx[i] = i + 1 /\ G[i] = [x \in Seq(S) |-> <<h[i]>> \o x]
        BY <2>2, <3>3
      <4>2. f[i] = <<h[i]>> \o f[i + 1]
        BY <3>1, <4>1
      <4>3. QED
        BY <1>1, <2>2, <3>3, <4>2
    <3>4. QED
      BY <3>2, <3>3
  <2>3. i > N \/ i \in 1..N
    BY <1>1
  <2>4. QED
    BY <2>1, <2>2, <2>3, Zenon
<1>7. IsReplacing(f, h, n, r)
  BY <1>5, <1>6 DEF IsReplacing
<1>8. \E g : IsReplacing(g, h, n, r)
  BY <1>7
<1> DEFINE F == CHOOSE g : IsReplacing(g, h, n, r)
<1>9. IsReplacing(F, h, n, r)
  BY <1>8
<1>10. ReplaceBytes(h, n, r) = F[1]
  BY DEF ReplaceBytes, IsReplacing
<1>11. QED
  BY <1>9, <1>10

\* The value of the substitution from a position on.
LEMMA ReplacingAt ==
  ASSUME NEW S, NEW h \in Seq(S), NEW n \in Seq(S), NEW r \in Seq(S), n # <<>>,
         NEW f, IsReplacing(f, h, n, r)
  PROVE  /\ f[Len(h) + 1] = <<>>
         /\ \A i \in 1..Len(h) : /\ MatchAt(h, n, i) => f[i] = r \o f[i + Len(n)]
                                 /\ ~MatchAt(h, n, i) => f[i] = <<h[i]>> \o f[i + 1]
         /\ \A i \in 1..(Len(h) + 1) : f[i] \in Seq(S)
<1>1. Len(h) \in Nat /\ Len(n) \in Nat \ {0}
  BY EmptySeq
<1>2. \A i \in 1..(Len(h) + 1) :
        f[i] = IF i > Len(h) THEN <<>>
               ELSE IF MatchAt(h, n, i) THEN r \o f[i + Len(n)]
               ELSE <<h[i]>> \o f[i + 1]
  BY Zenon DEF IsReplacing
<1>3. f[Len(h) + 1] = <<>>
  <2>1. Len(h) + 1 \in 1..(Len(h) + 1) /\ Len(h) + 1 > Len(h)
    BY <1>1
  <2>2. QED
    BY <1>2, <2>1, Zenon
<1>4. \A i \in 1..Len(h) : /\ MatchAt(h, n, i) => f[i] = r \o f[i + Len(n)]
                           /\ ~MatchAt(h, n, i) => f[i] = <<h[i]>> \o f[i + 1]
  <2>1. \A i \in 1..Len(h) : i \in 1..(Len(h) + 1) /\ ~(i > Len(h))
    BY <1>1
  <2>2. QED
    BY <1>2, <2>1
<1>5. 1..(Len(h) + 1) \subseteq {i \in 1..(Len(h) + 1) : f[i] \in Seq(S)}
  <2> DEFINE K == {i \in 1..(Len(h) + 1) : f[i] \in Seq(S)}
             M == Len(h) + 1
  <2>1. ASSUME NEW i \in 1..M, \A j \in 1..M : j > i => j \in K PROVE i \in K
    <3>1. CASE i = M
      <4>1. <<>> \in Seq(S)
        OBVIOUS
      <4>2. QED
        BY <1>3, <3>1, <4>1
    <3>2. CASE i # M /\ MatchAt(h, n, i)
      <4>1. i \in 1..Len(h) /\ i + Len(n) \in 1..M /\ i + Len(n) > i
        BY <1>1, <3>2 DEF MatchAt
      <4>2. f[i + Len(n)] \in Seq(S)
        BY <2>1, <4>1
      <4>3. QED
        BY <1>4, <3>2, <4>1, <4>2, ConcatProperties, ZenonT(30)
    <3>3. CASE i # M /\ ~MatchAt(h, n, i)
      <4>1. i \in 1..Len(h) /\ i + 1 \in 1..M /\ i + 1 > i
        BY <1>1, <3>3
      <4>2. f[i + 1] \in Seq(S) /\ <<h[i]>> \in Seq(S)
        BY <2>1, <4>1, ElementOfSeq
      <4>3. QED
        BY <1>4, <3>3, <4>1, <4>2, ConcatProperties, ZenonT(30)
    <3>4. QED
      BY <3>1, <3>2, <3>3
  <2>2. M \in Nat
    BY <1>1
  <2>3. 1..M \subseteq K
    <3> HIDE DEF K, M
    <3> QED
      BY <2>1, <2>2, Downward
  <2>4. QED
    BY <2>3
<1>6. QED
  BY <1>3, <1>4, <1>5

\* MatchEnds is well defined.
LEMMA EndsAre ==
  ASSUME NEW S, NEW h \in Seq(S), NEW n \in Seq(S), n # <<>>
  PROVE  \E f : IsEnding(f, h, n) /\ MatchEnds(h, n) = f[1]
<1> DEFINE N  == Len(h)
           D  == SUBSET Nat
           nx == [i \in 1..N |-> IF MatchAt(h, n, i) THEN i + Len(n) ELSE i + 1]
           G  == [i \in 1..N |-> IF MatchAt(h, n, i) THEN [x \in D |-> {i + Len(n) - 1} \cup x]
                                 ELSE [x \in D |-> x]]
<1>1. N \in Nat /\ Len(n) \in Nat \ {0}
  BY EmptySeq
<1>2. nx \in [1..N -> 1..(N + 1)] /\ \A i \in 1..N : nx[i] > i
  <2>1. ASSUME NEW i \in 1..N
        PROVE  /\ (IF MatchAt(h, n, i) THEN i + Len(n) ELSE i + 1) \in 1..(N + 1)
               /\ (IF MatchAt(h, n, i) THEN i + Len(n) ELSE i + 1) > i
    BY <1>1 DEF MatchAt
  <2>2. QED
    BY <2>1
<1>3. G \in [1..N -> [D -> D]]
  <2>1. ASSUME NEW i \in 1..N, NEW x \in D PROVE {i + Len(n) - 1} \cup x \in D
    <3>1. i + Len(n) - 1 \in Nat
      BY <1>1
    <3>2. QED
      BY <3>1
  <2>2. ASSUME NEW i \in 1..N
        PROVE  /\ [x \in D |-> {i + Len(n) - 1} \cup x] \in [D -> D]
               /\ [x \in D |-> x] \in [D -> D]
    <3> HIDE DEF D
    <3> QED
      BY <2>1
  <2>3. QED
    <3> HIDE DEF D
    <3> QED
      BY <2>2
<1>4. {} \in D
  OBVIOUS
<1>5. PICK f \in [1..(N + 1) -> D] : f[N + 1] = {} /\ \A i \in 1..N : f[i] = G[i][f[nx[i]]]
  <2> HIDE DEF G, nx, N, D
  <2> DEFINE base == {}
  <2>1. base \in D
    BY <1>4
  <2> HIDE DEF base
  <2>2. \E f \in [1..(N + 1) -> D] : f[N + 1] = base /\ \A i \in 1..N : f[i] = G[i][f[nx[i]]]
    <3>1. Recursive(N, D, base, G, nx)
      BY <1>1, <1>2, <1>3, <2>1 DEF Recursive
    <3>2. QED
      BY <3>1, Recursion
  <2>3. QED
    BY <2>2 DEF base
<1> HIDE DEF D
<1>6. ASSUME NEW i \in 1..(N + 1)
      PROVE  f[i] = IF i > N THEN {}
                    ELSE IF MatchAt(h, n, i) THEN {i + Len(n) - 1} \cup f[i + Len(n)] ELSE f[i + 1]
  <2>1. CASE i > N
    <3>1. i = N + 1
      BY <1>1, <2>1
    <3>2. QED
      BY <1>5, <2>1, <3>1
  <2>2. CASE i \in 1..N
    <3>1. f[i] = G[i][f[nx[i]]] /\ f[nx[i]] \in D
      BY <1>2, <1>5, <2>2
    <3>2. CASE MatchAt(h, n, i)
      <4>1. nx[i] = i + Len(n) /\ G[i] = [x \in D |-> {i + Len(n) - 1} \cup x]
        BY <2>2, <3>2
      <4>2. f[i] = {i + Len(n) - 1} \cup f[i + Len(n)]
        BY <3>1, <4>1
      <4>3. QED
        BY <1>1, <2>2, <3>2, <4>2
    <3>3. CASE ~MatchAt(h, n, i)
      <4>1. nx[i] = i + 1 /\ G[i] = [x \in D |-> x]
        BY <2>2, <3>3
      <4>2. f[i] = f[i + 1]
        BY <3>1, <4>1
      <4>3. QED
        BY <1>1, <2>2, <3>3, <4>2
    <3>4. QED
      BY <3>2, <3>3
  <2>3. i > N \/ i \in 1..N
    BY <1>1
  <2>4. QED
    BY <2>1, <2>2, <2>3, Zenon
<1>7. IsEnding(f, h, n)
  BY <1>5, <1>6 DEF IsEnding
<1>8. \E g : IsEnding(g, h, n)
  BY <1>7
<1> DEFINE F == CHOOSE g : IsEnding(g, h, n)
<1>9. IsEnding(F, h, n)
  BY <1>8
<1>10. MatchEnds(h, n) = F[1]
  BY DEF MatchEnds, IsEnding
<1>11. QED
  BY <1>9, <1>10

\* The ends from a position on: those of matches that start there or later, and
\* none only if there is no such match.
LEMMA EndingAt ==
  ASSUME NEW S, NEW h \in Seq(S), NEW n \in Seq(S), n # <<>>, NEW f, IsEnding(f, h, n)
  PROVE  /\ f[Len(h) + 1] = {}
         /\ \A i \in 1..Len(h) : /\ MatchAt(h, n, i) => f[i] = {i + Len(n) - 1} \cup f[i + Len(n)]
                                 /\ ~MatchAt(h, n, i) => f[i] = f[i + 1]
         /\ \A i \in 1..(Len(h) + 1) : \A e \in f[i] : e \in Nat /\ i + Len(n) - 1 <= e /\ e <= Len(h)
<1>1. Len(h) \in Nat /\ Len(n) \in Nat \ {0}
  BY EmptySeq
<1>2. \A i \in 1..(Len(h) + 1) :
        f[i] = IF i > Len(h) THEN {}
               ELSE IF MatchAt(h, n, i) THEN {i + Len(n) - 1} \cup f[i + Len(n)]
               ELSE f[i + 1]
  BY Zenon DEF IsEnding
<1>3. f[Len(h) + 1] = {}
  <2>1. Len(h) + 1 \in 1..(Len(h) + 1) /\ Len(h) + 1 > Len(h)
    BY <1>1
  <2>2. QED
    BY <1>2, <2>1, Zenon
<1>4. \A i \in 1..Len(h) : /\ MatchAt(h, n, i) => f[i] = {i + Len(n) - 1} \cup f[i + Len(n)]
                           /\ ~MatchAt(h, n, i) => f[i] = f[i + 1]
  <2>1. \A i \in 1..Len(h) : i \in 1..(Len(h) + 1) /\ ~(i > Len(h))
    BY <1>1
  <2>2. QED
    BY <1>2, <2>1
<1> DEFINE Within(i) == \A e \in f[i] : e \in Nat /\ i + Len(n) - 1 <= e /\ e <= Len(h)
           K == {i \in 1..(Len(h) + 1) : Within(i)}
           M == Len(h) + 1
<1>5. ASSUME NEW i \in 1..M, \A j \in 1..M : j > i => j \in K PROVE i \in K
  <2>1. CASE i = M
    BY <1>3, <2>1
  <2>2. CASE i # M /\ MatchAt(h, n, i)
    <3>1. i \in 1..Len(h) /\ i + Len(n) \in 1..M /\ i + Len(n) > i /\ i + Len(n) - 1 <= Len(h)
      BY <1>1, <2>2 DEF MatchAt
    <3>2. Within(i + Len(n))
      BY <1>5, <3>1
    <3>3. f[i] = {i + Len(n) - 1} \cup f[i + Len(n)]
      BY <1>4, <2>2, <3>1
    <3>4. ASSUME NEW e \in f[i] PROVE e \in Nat /\ i + Len(n) - 1 <= e /\ e <= Len(h)
      <4>1. CASE e = i + Len(n) - 1
        BY <1>1, <3>1, <4>1
      <4>2. CASE e \in f[i + Len(n)]
        <5>1. e \in Nat /\ i + Len(n) + Len(n) - 1 <= e /\ e <= Len(h)
          BY <3>2, <4>2
        <5>2. QED
          BY <1>1, <3>1, <5>1
      <4>3. QED
        BY <3>3, <4>1, <4>2
    <3>5. QED
      BY <3>4
  <2>3. CASE i # M /\ ~MatchAt(h, n, i)
    <3>1. i \in 1..Len(h) /\ i + 1 \in 1..M /\ i + 1 > i
      BY <1>1, <2>3
    <3>2. Within(i + 1)
      BY <1>5, <3>1
    <3>3. f[i] = f[i + 1]
      BY <1>4, <2>3, <3>1
    <3>4. ASSUME NEW e \in f[i] PROVE e \in Nat /\ i + Len(n) - 1 <= e /\ e <= Len(h)
      <4>1. e \in Nat /\ i + 1 + Len(n) - 1 <= e /\ e <= Len(h)
        BY <3>2, <3>3
      <4>2. QED
        BY <1>1, <3>1, <4>1
    <3>5. QED
      BY <3>4
  <2>4. QED
    BY <2>1, <2>2, <2>3
<1>6. M \in Nat
  BY <1>1
<1>7. 1..M \subseteq K
  <2> HIDE DEF K, M
  <2> QED
    BY <1>5, <1>6, Downward
<1>8. QED
  BY <1>3, <1>4, <1>7

\* Without a match the substitution changes nothing.
LEMMA NoMatchSame ==
  ASSUME NEW S, NEW h \in Seq(S), NEW n \in Seq(S), NEW r \in Seq(S), n # <<>>,
         \A j \in 1..Len(h) : ~MatchAt(h, n, j)
  PROVE  ReplaceBytes(h, n, r) = h
<1>1. Len(h) \in Nat
  OBVIOUS
<1>2. PICK f : IsReplacing(f, h, n, r) /\ ReplaceBytes(h, n, r) = f[1]
  BY ReplaceIs
<1>3. /\ f[Len(h) + 1] = <<>>
      /\ \A i \in 1..Len(h) : f[i] = <<h[i]>> \o f[i + 1]
  BY <1>2, ReplacingAt
<1> DEFINE K == {i \in 1..(Len(h) + 1) : f[i] = SubSeq(h, i, Len(h))}
           M == Len(h) + 1
<1>4. ASSUME NEW i \in 1..M, \A j \in 1..M : j > i => j \in K PROVE i \in K
  <2>1. CASE i = M
    <3>1. SubSeq(h, M, Len(h)) = <<>>
      BY <1>1, SubSeqEmpty
    <3>2. QED
      BY <1>3, <2>1, <3>1
  <2>2. CASE i # M
    <3>1. i \in 1..Len(h) /\ i + 1 \in 1..M /\ i + 1 > i /\ Len(h) \in i..Len(h)
      BY <1>1, <2>2
    <3>2. f[i + 1] = SubSeq(h, i + 1, Len(h))
      BY <1>4, <3>1
    <3>3. SubSeq(h, i, Len(h)) = <<h[i]>> \o SubSeq(h, i + 1, Len(h))
      BY <3>1, SubSeqRecursiveFirst
    <3>4. QED
      BY <1>3, <3>1, <3>2, <3>3
  <2>3. QED
    BY <2>1, <2>2
<1>5. M \in Nat /\ 1 \in 1..M
  BY <1>1
<1>6. 1..M \subseteq K
  <2> HIDE DEF K, M
  <2> QED
    BY <1>4, <1>5, Downward
<1>7. f[1] = SubSeq(h, 1, Len(h))
  BY <1>5, <1>6
<1>8. QED
  BY <1>2, <1>7, SubSeqFull

\* The substitution from a position on is that of the rest.
LEMMA RestSame ==
  ASSUME NEW S, NEW h \in Seq(S), NEW n \in Seq(S), NEW r \in Seq(S), n # <<>>,
         NEW m \in 0..Len(h), NEW f, IsReplacing(f, h, n, r)
  PROVE  f[m + 1] = ReplaceBytes(Rest(h, m), n, r)
<1> DEFINE t == Rest(h, m)
<1>1. /\ t \in Seq(S) /\ Len(t) = Len(h) - m /\ Len(h) \in Nat
      /\ \A i \in 1..(Len(h) - m) : t[i] = h[m + i]
  <2>1. Len(h) \in Nat
    OBVIOUS
  <2>2. /\ Rest(h, m) \in Seq(S) /\ Len(Rest(h, m)) = Len(h) - m
        /\ \A i \in 1..(Len(h) - m) : Rest(h, m)[i] = h[m + i]
    BY CutIs
  <2>3. QED
    BY <2>1, <2>2
<1> HIDE DEF t
<1>a. t \in Seq(S)
  BY <1>1
<1>2. PICK g : IsReplacing(g, t, n, r) /\ ReplaceBytes(t, n, r) = g[1]
  BY <1>1, ReplaceIs
<1>3. Len(n) \in Nat \ {0} /\ Len(t) \in Nat
  BY <1>1, EmptySeq
<1>4. /\ f[Len(h) + 1] = <<>>
      /\ \A i \in 1..Len(h) : /\ MatchAt(h, n, i) => f[i] = r \o f[i + Len(n)]
                              /\ ~MatchAt(h, n, i) => f[i] = <<h[i]>> \o f[i + 1]
  BY ReplacingAt
<1>5. /\ g[Len(t) + 1] = <<>>
      /\ \A i \in 1..Len(t) : /\ MatchAt(t, n, i) => g[i] = r \o g[i + Len(n)]
                              /\ ~MatchAt(t, n, i) => g[i] = <<t[i]>> \o g[i + 1]
  <2>1. /\ g[Len(t) + 1] = <<>>
        /\ \A i \in 1..Len(t) : /\ MatchAt(t, n, i) => g[i] = r \o g[i + Len(n)]
                                /\ ~MatchAt(t, n, i) => g[i] = <<t[i]>> \o g[i + 1]
        /\ \A i \in 1..(Len(t) + 1) : g[i] \in Seq(S)
    BY <1>a, <1>2, ReplacingAt, Zenon
  <2>2. QED
    BY <2>1
<1> DEFINE K == {i \in 1..(Len(t) + 1) : f[m + i] = g[i]}
           M == Len(t) + 1
<1>6. ASSUME NEW i \in 1..M, \A j \in 1..M : j > i => j \in K PROVE i \in K
  <2>1. CASE i = M
    <3>1. m + i = Len(h) + 1 /\ i = Len(t) + 1
      BY <1>1, <2>1
    <3>2. f[m + i] = g[i]
      BY <1>4, <1>5, <3>1
    <3>3. QED
      BY <3>2
  <2>2. CASE i # M
    <3>1. i \in 1..Len(t) /\ m + i \in 1..Len(h) /\ i \in Nat \ {0} /\ m \in Nat /\ m + i \in Nat \ {0}
      BY <1>1, <1>3, <2>2
    <3>2. MatchAt(t, n, i) <=> MatchAt(h, n, m + i)
      <4>1. CASE i + Len(n) - 1 <= Len(t)
        <5>1. m + Len(t) <= Len(h) /\ \A k \in 1..Len(t) : t[k] = h[m + k]
          BY <1>1
        <5>2. QED
          BY <1>1, <3>1, <4>1, <5>1, MatchShifts
      <4>2. CASE ~(i + Len(n) - 1 <= Len(t))
        <5>1. ~(m + i + Len(n) - 1 <= Len(h))
          BY <1>1, <1>3, <3>1, <4>2
        <5>2. QED
          BY <4>2, <5>1 DEF MatchAt
      <4>3. QED
        BY <4>1, <4>2
    <3>3. CASE MatchAt(t, n, i)
      <4>1. i + Len(n) \in 1..M /\ i + Len(n) > i
        BY <1>3, <3>1, <3>3 DEF MatchAt
      <4>2. f[m + (i + Len(n))] = g[i + Len(n)] /\ m + (i + Len(n)) = m + i + Len(n)
        BY <1>3, <1>6, <3>1, <4>1
      <4>3. f[m + i] = g[i]
        BY <1>4, <1>5, <3>1, <3>2, <3>3, <4>2
      <4>4. QED
        BY <4>3
    <3>4. CASE ~MatchAt(t, n, i)
      <4>1. i + 1 \in 1..M /\ i + 1 > i
        BY <1>3, <3>1
      <4>2. f[m + (i + 1)] = g[i + 1] /\ m + (i + 1) = m + i + 1
        BY <1>6, <3>1, <4>1
      <4>3. t[i] = h[m + i]
        BY <1>1, <3>1
      <4>4. f[m + i] = g[i]
        BY <1>4, <1>5, <3>1, <3>2, <3>4, <4>2, <4>3
      <4>5. QED
        BY <4>4
    <3>5. QED
      BY <3>3, <3>4
  <2>3. QED
    BY <2>1, <2>2
<1>7. M \in Nat /\ 1 \in 1..M
  BY <1>3
<1>8. 1..M \subseteq K
  <2> HIDE DEF K, M
  <2> QED
    BY <1>6, <1>7, Downward
<1>9. f[m + 1] = g[1]
  BY <1>7, <1>8
<1>10. QED
  BY <1>2, <1>9 DEF t

(* A cut of what has arrived that no match will straddle: past every match *)
(* that is complete, and either the end of one, or before every suffix     *)
(* that is the beginning of the needle.                                    *)
SafeCut(c, n, m) ==
  /\ m \in 0..Len(c)
  /\ MatchEnds(c, n) \subseteq 0..m
  /\ \/ m \in MatchEnds(c, n)
     \/ \A k \in 1..(Len(n) - 1) :
          k <= Len(c) /\ (\A j \in 1..k : c[Len(c) - k + j] = n[j]) => m + k <= Len(c)

(* A substitution done in two parts.                                       *)
Splits(S, c, x, n, r, m) ==
  ReplaceBytes(c \o x, n, r) = ReplaceBytes(Prefix(c, m), n, r) \o ReplaceBytes(Rest(c, m) \o x, n, r)

\* The substitution of what has arrived and of anything that may follow it is,
\* at a safe cut, that of what is before it and that of what is after it.
LEMMA CutSame ==
  ASSUME NEW S, NEW c \in Seq(S), NEW x \in Seq(S), NEW n \in Seq(S), NEW r \in Seq(S), n # <<>>,
         NEW m, SafeCut(c, n, m)
  PROVE  Splits(S, c, x, n, r, m)
<1> DEFINE h == c \o x
           d == Prefix(c, m)
<1>1. /\ h \in Seq(S) /\ Len(h) = Len(c) + Len(x)
      /\ \A i \in 1..Len(c) : h[i] = c[i]
  BY ConcatProperties
<1>2. /\ Len(c) \in Nat /\ Len(x) \in Nat /\ Len(n) \in Nat \ {0} /\ m \in 0..Len(c) /\ m \in 0..Len(h)
      /\ m \in Nat
  BY <1>1, EmptySeq DEF SafeCut
<1>3. /\ d \in Seq(S) /\ Len(d) = m /\ \A i \in 1..m : d[i] = c[i]
  BY <1>2, CutIs
<1>4. Rest(h, m) = Rest(c, m) \o x
  BY <1>2, CutCat
<1> HIDE DEF h, d
<1>a. h \in Seq(S) /\ d \in Seq(S) /\ m \in 0..Len(h)
  BY <1>1, <1>2, <1>3
<1>5. PICK f : IsReplacing(f, h, n, r) /\ ReplaceBytes(h, n, r) = f[1]
  BY <1>1, ReplaceIs
<1>6. PICK g : IsReplacing(g, d, n, r) /\ ReplaceBytes(d, n, r) = g[1]
  BY <1>3, ReplaceIs
<1>7. PICK e : IsEnding(e, c, n) /\ MatchEnds(c, n) = e[1]
  BY EndsAre
<1>8. /\ \A i \in 1..Len(h) : /\ MatchAt(h, n, i) => f[i] = r \o f[i + Len(n)]
                              /\ ~MatchAt(h, n, i) => f[i] = <<h[i]>> \o f[i + 1]
      /\ \A i \in 1..(Len(h) + 1) : f[i] \in Seq(S)
  <2>1. /\ f[Len(h) + 1] = <<>>
        /\ \A i \in 1..Len(h) : /\ MatchAt(h, n, i) => f[i] = r \o f[i + Len(n)]
                                /\ ~MatchAt(h, n, i) => f[i] = <<h[i]>> \o f[i + 1]
        /\ \A i \in 1..(Len(h) + 1) : f[i] \in Seq(S)
    BY <1>a, <1>5, ReplacingAt, Zenon
  <2>2. QED
    BY <2>1
<1>9. /\ g[Len(d) + 1] = <<>>
      /\ \A i \in 1..Len(d) : /\ MatchAt(d, n, i) => g[i] = r \o g[i + Len(n)]
                              /\ ~MatchAt(d, n, i) => g[i] = <<d[i]>> \o g[i + 1]
      /\ \A i \in 1..(Len(d) + 1) : g[i] \in Seq(S)
  BY <1>a, <1>6, ReplacingAt, Zenon
<1>10. /\ \A i \in 1..Len(c) : /\ MatchAt(c, n, i) => e[i] = {i + Len(n) - 1} \cup e[i + Len(n)]
                               /\ ~MatchAt(c, n, i) => e[i] = e[i + 1]
       /\ \A i \in 1..(Len(c) + 1) : \A z \in e[i] : z \in Nat /\ i + Len(n) - 1 <= z /\ z <= Len(c)
  BY <1>7, EndingAt
<1> DEFINE Short == \A k \in 1..(Len(n) - 1) :
             k <= Len(c) /\ (\A j \in 1..k : c[Len(c) - k + j] = n[j]) => m + k <= Len(c)
           Reached(i) == e[i] \subseteq 0..m /\ (m \in e[i] \/ Short \/ i = m + 1)
           M == m + 1
           K == {i \in 1..M : Reached(i) => f[i] = g[i] \o f[M]}
<1>11. f[M] \in Seq(S)
  BY <1>2, <1>8
<1>12. ASSUME NEW i \in 1..M, \A j \in 1..M : j > i => j \in K, Reached(i)
       PROVE  f[i] = g[i] \o f[M]
  <2>1. CASE i = M
    <3>1. g[i] = <<>>
      BY <1>3, <1>9, <2>1
    <3>2. QED
      BY <1>11, <2>1, <3>1, ConcatEmptySeq
  <2>2. CASE i # M
    <3>1. /\ i \in 1..m /\ i \in 1..Len(c) /\ i \in 1..Len(h) /\ i \in Nat \ {0} /\ i \in 1..Len(d)
          /\ i \in 1..(Len(c) + 1)
      BY <1>1, <1>2, <1>3, <2>2
    <3>2. CASE MatchAt(h, n, i)
      <4>1. i + Len(n) - 1 <= Len(c)
        <5>1. SUFFICES ASSUME i + Len(n) - 1 > Len(c) PROVE FALSE
          BY <1>2, <3>1
        <5>2. m \notin e[i]
          BY <1>2, <1>10, <3>1, <5>1
        <5>3. Short
          BY <1>12, <2>2, <5>2
        <5> DEFINE k == Len(c) - i + 1
        <5>4. /\ k \in 1..(Len(n) - 1) /\ k <= Len(c) /\ k \in Nat /\ m + k > Len(c)
          BY <1>2, <3>1, <5>1
        <5>5. ASSUME NEW j \in 1..k PROVE c[Len(c) - k + j] = n[j]
          <6>1. Len(c) - k + j = i + j - 1 /\ i + j - 1 \in 1..Len(c) /\ j \in 1..Len(n)
            BY <1>2, <3>1, <5>1, <5>4
          <6>2. h[i + j - 1] = n[j]
            BY <1>1, <3>1, <3>2, <6>1, MatchIs
          <6>3. QED
            BY <1>1, <6>1, <6>2
        <5> HIDE DEF k
        <5>6. m + k <= Len(c)
          BY <5>3, <5>4, <5>5
        <5>7. QED
          BY <1>2, <5>4, <5>6
      <4>2. MatchAt(c, n, i)
        <5>1. \A k \in 1..Len(c) : c[k] = h[0 + k]
          BY <1>1
        <5>2. 0 + Len(c) <= Len(h) /\ 0 + i = i
          BY <1>1, <1>2, <3>1
        <5>3. MatchAt(c, n, i) <=> MatchAt(h, n, 0 + i)
          BY <1>1, <3>1, <4>1, <5>1, <5>2, MatchShifts
        <5>4. QED
          BY <3>2, <5>2, <5>3
      <4>3. e[i] = {i + Len(n) - 1} \cup e[i + Len(n)]
        BY <1>10, <3>1, <4>2
      <4>4. i + Len(n) - 1 <= m
        BY <1>12, <4>3
      <4>5. MatchAt(d, n, i)
        <5>1. \A k \in 1..Len(d) : d[k] = c[0 + k]
          BY <1>2, <1>3
        <5>2. 0 + Len(d) <= Len(c) /\ 0 + i = i /\ i + Len(n) - 1 <= Len(d)
          BY <1>2, <1>3, <3>1, <4>4
        <5>3. MatchAt(d, n, i) <=> MatchAt(c, n, 0 + i)
          BY <1>3, <3>1, <5>1, <5>2, MatchShifts
        <5>4. QED
          BY <4>2, <5>2, <5>3
      <4>6. i + Len(n) \in 1..M /\ i + Len(n) > i /\ (m = i + Len(n) - 1 => i + Len(n) = m + 1)
        BY <1>2, <3>1, <4>4
      <4>7. Reached(i + Len(n))
        <5>1. e[i + Len(n)] \subseteq 0..m
          BY <1>12, <4>3
        <5>2. m \in e[i + Len(n)] \/ Short \/ i + Len(n) = m + 1
          BY <1>12, <2>2, <4>3, <4>6
        <5>3. QED
          BY <5>1, <5>2
      <4>8. f[i + Len(n)] = g[i + Len(n)] \o f[M]
        BY <1>12, <4>6, <4>7
      <4>9. g[i + Len(n)] \in Seq(S)
        BY <1>3, <1>9, <4>6
      <4>10. f[i] = r \o f[i + Len(n)] /\ g[i] = r \o g[i + Len(n)]
        BY <1>8, <1>9, <3>1, <3>2, <4>5
      <4>11. r \o (g[i + Len(n)] \o f[M]) = (r \o g[i + Len(n)]) \o f[M]
        <5>1. Assoc(S, r, g[i + Len(n)], f[M])
          BY <1>11, <4>9, AssocIs
        <5>2. QED
          BY <5>1, Zenon DEF Assoc
      <4>12. QED
        BY <4>8, <4>10, <4>11
    <3>3. CASE ~MatchAt(h, n, i)
      <4>1. ~MatchAt(c, n, i)
        <5>1. SUFFICES ASSUME MatchAt(c, n, i) PROVE FALSE
          OBVIOUS
        <5>2. \A k \in 1..Len(c) : c[k] = h[0 + k]
          BY <1>1
        <5>3. 0 + Len(c) <= Len(h) /\ 0 + i = i /\ i + Len(n) - 1 <= Len(c)
          BY <1>1, <1>2, <3>1, <5>1 DEF MatchAt
        <5>4. MatchAt(c, n, i) <=> MatchAt(h, n, 0 + i)
          BY <1>1, <3>1, <5>2, <5>3, MatchShifts
        <5>5. QED
          BY <3>3, <5>1, <5>3, <5>4
      <4>2. ~MatchAt(d, n, i)
        <5>1. SUFFICES ASSUME MatchAt(d, n, i) PROVE FALSE
          OBVIOUS
        <5>2. \A k \in 1..Len(d) : d[k] = c[0 + k]
          BY <1>2, <1>3
        <5>3. 0 + Len(d) <= Len(c) /\ 0 + i = i /\ i + Len(n) - 1 <= Len(d)
          BY <1>2, <1>3, <3>1, <5>1 DEF MatchAt
        <5>4. MatchAt(d, n, i) <=> MatchAt(c, n, 0 + i)
          BY <1>3, <3>1, <5>2, <5>3, MatchShifts
        <5>5. QED
          BY <4>1, <5>1, <5>3, <5>4
      <4>3. e[i] = e[i + 1]
        BY <1>10, <3>1, <4>1
      <4>4. i + 1 \in 1..M /\ i + 1 > i
        BY <1>2, <3>1
      <4>5. Reached(i + 1)
        BY <1>12, <2>2, <4>3
      <4>6. f[i + 1] = g[i + 1] \o f[M]
        BY <1>12, <4>4, <4>5
      <4>7. g[i + 1] \in Seq(S) /\ <<h[i]>> \in Seq(S) /\ h[i] = d[i]
        <5>1. g[i + 1] \in Seq(S)
          BY <1>3, <1>9, <4>4
        <5>2. h[i] \in S
          BY <1>a, <3>1, ElementOfSeq
        <5>3. h[i] = d[i]
          BY <1>1, <1>3, <3>1
        <5>4. QED
          BY <5>1, <5>2, <5>3
      <4>8. f[i] = <<h[i]>> \o f[i + 1] /\ g[i] = <<d[i]>> \o g[i + 1]
        BY <1>8, <1>9, <3>1, <3>3, <4>2
      <4>9. <<h[i]>> \o (g[i + 1] \o f[M]) = (<<h[i]>> \o g[i + 1]) \o f[M]
        <5>1. Assoc(S, <<h[i]>>, g[i + 1], f[M])
          BY <1>11, <4>7, AssocIs
        <5>2. QED
          BY <5>1, Zenon DEF Assoc
      <4>10. QED
        BY <4>6, <4>7, <4>8, <4>9
    <3>4. QED
      BY <3>2, <3>3
  <2>3. QED
    BY <2>1, <2>2
<1>13. M \in Nat /\ 1 \in 1..M
  BY <1>2
<1>14. 1..M \subseteq K
  <2>1. ASSUME NEW i \in 1..M, \A j \in 1..M : j > i => j \in K PROVE i \in K
    BY <1>12, <2>1
  <2> HIDE DEF K, M
  <2>2. QED
    BY <1>13, <2>1, Downward
<1>15. Reached(1)
  BY <1>7 DEF SafeCut
<1>16. f[1] = g[1] \o f[M]
  BY <1>13, <1>14, <1>15
<1>17. f[M] = ReplaceBytes(Rest(c, m) \o x, n, r)
  <2>1. f[m + 1] = ReplaceBytes(Rest(h, m), n, r)
    BY <1>a, <1>5, RestSame
  <2>2. QED
    BY <1>4, <2>1
<1>18. QED
  BY <1>5, <1>6, <1>16, <1>17 DEF h, d, Splits

-----------------------------------------------------------------------------
(* The pairs and the windows they ask for.                                 *)

(* A pair as the engine is given it: bytes, and a needle that is not empty. *)
GoodPair == {p \in [needle : Seq(Nat), replacement : Seq(Nat)] : p.needle # <<>>}

GoodPairs(pairs) == pairs \in Seq(GoodPair)

\* A pair of a list of pairs.
LEMMA PairIs ==
  ASSUME NEW pairs, GoodPairs(pairs)
  PROVE  /\ Len(pairs) \in Nat /\ DOMAIN pairs = 1..Len(pairs)
         /\ \A i \in 1..Len(pairs) :
              /\ pairs[i].needle \in Seq(Nat) /\ pairs[i].replacement \in Seq(Nat)
              /\ pairs[i].needle # <<>> /\ Len(pairs[i].needle) \in Nat \ {0}
<1>1. pairs \in Seq(GoodPair)
  BY DEF GoodPairs
<1>2. Len(pairs) \in Nat /\ DOMAIN pairs = 1..Len(pairs)
  BY <1>1, LenProperties
<1>3. ASSUME NEW i \in 1..Len(pairs)
      PROVE  /\ pairs[i].needle \in Seq(Nat) /\ pairs[i].replacement \in Seq(Nat)
             /\ pairs[i].needle # <<>> /\ Len(pairs[i].needle) \in Nat \ {0}
  <2>1. pairs[i] \in GoodPair
    BY <1>1, ElementOfSeq
  <2>2. pairs[i].needle \in Seq(Nat) /\ pairs[i].replacement \in Seq(Nat) /\ pairs[i].needle # <<>>
    BY <2>1 DEF GoodPair
  <2>3. QED
    BY <2>2, EmptySeq
<1>4. QED
  BY <1>2, <1>3

\* The window is the longest needle less one.
LEMMA TailSizeIs ==
  ASSUME NEW pairs, GoodPairs(pairs)
  PROVE  /\ MaxTailSize(pairs) \in Nat
         /\ \A i \in 1..Len(pairs) : Len(pairs[i].needle) - 1 <= MaxTailSize(pairs)
         /\ \/ MaxTailSize(pairs) = 0
            \/ \E i \in 1..Len(pairs) : MaxTailSize(pairs) = Len(pairs[i].needle) - 1
<1> DEFINE N == Len(pairs)
           L(i) == Len(pairs[i].needle) - 1
           Bounded(k) == \E b \in Nat : \A i \in 1..k : L(i) <= b
           K == {k \in 0..N : Bounded(k)}
           I == {0} \cup {L(i) : i \in DOMAIN pairs}
<1>1. N \in Nat /\ DOMAIN pairs = 1..N /\ \A i \in 1..N : L(i) \in Nat
  BY PairIs
<1> HIDE DEF L, N
<1>2. 0 \in K
  <2>1. \A i \in 1..0 : L(i) <= 0
    OBVIOUS
  <2>2. QED
    BY <1>1, <2>1
<1>3. ASSUME NEW k \in 0..N, k < N, k \in K PROVE k + 1 \in K
  <2>1. PICK b \in Nat : \A i \in 1..k : L(i) <= b
    BY <1>3
  <2>2. k + 1 \in 1..N /\ k + 1 \in 0..N /\ L(k + 1) \in Nat
    BY <1>1, <1>3
  <2>3. b + L(k + 1) \in Nat
    BY <2>2
  <2>4. ASSUME NEW i \in 1..(k + 1) PROVE L(i) <= b + L(k + 1)
    <3>1. CASE i = k + 1
      BY <2>2, <3>1
    <3>2. CASE i # k + 1
      <4>1. i \in 1..k /\ i \in 1..N
        BY <1>1, <2>2, <3>2
      <4>2. L(i) <= b /\ L(i) \in Nat
        BY <1>1, <2>1, <4>1
      <4>3. QED
        BY <2>2, <4>2
    <3>3. QED
      BY <3>1, <3>2
  <2>5. Bounded(k + 1)
    BY <2>3, <2>4
  <2>6. QED
    BY <2>2, <2>5
<1>4. 0..N \subseteq K
  <2> HIDE DEF K
  <2> QED
    BY <1>1, <1>2, <1>3, Upward
<1>5. PICK b \in Nat : \A i \in 1..N : L(i) <= b
  <2>1. N \in 0..N
    BY <1>1
  <2>2. N \in K
    BY <1>4, <2>1
  <2>3. QED
    BY <2>2
<1>6. I \in SUBSET (0..b) /\ I # {}
  <2>1. \A i \in DOMAIN pairs : L(i) \in 0..b
    BY <1>1, <1>5
  <2>2. QED
    BY <2>1
<1>7. MaxTailSize(pairs) = Max(I)
  BY DEF MaxTailSize, L
<1>8. Max(I) \in I /\ \A y \in I : y <= Max(I)
  <2> HIDE DEF I
  <2> QED
    BY <1>6, GreatestIs
<1>9. \A i \in 1..N : L(i) <= Max(I)
  BY <1>1, <1>8
<1>10. Max(I) \in Nat /\ (Max(I) = 0 \/ \E i \in 1..N : Max(I) = L(i))
  <2>1. Max(I) \in 0..b
    BY <1>6, <1>8
  <2>2. Max(I) = 0 \/ \E i \in DOMAIN pairs : Max(I) = L(i)
    BY <1>8
  <2>3. \A z \in 0..b : z \in Nat
    OBVIOUS
  <2>4. QED
    BY <1>1, <2>1, <2>2, <2>3, Zenon
<1>11. QED
  BY <1>7, <1>9, <1>10 DEF L, N

(* What is held of some bytes for the sake of one of the pairs: a suffix   *)
(* that is a proper beginning of its needle.                               *)
Grows(data, pairs, bound, keep) ==
  /\ keep \in 1..bound /\ keep <= Len(data)
  /\ \E i \in DOMAIN pairs :
       /\ Len(pairs[i].needle) > keep
       /\ SubSeq(pairs[i].needle, 1, keep) = SubSeq(data, Len(data) - keep + 1, Len(data))

\* The hold-back is the longest such suffix.
LEMMA KeepIs ==
  ASSUME NEW data \in Seq(Nat), NEW pairs, GoodPairs(pairs), NEW bound \in Nat
  PROVE  LET keep == NeedlePrefixSuffixLen(data, pairs, bound) IN
         /\ keep \in 0..bound /\ keep <= Len(data)
         /\ keep = 0 \/ Grows(data, pairs, bound, keep)
         /\ \A k \in Nat : Grows(data, pairs, bound, k) => k <= keep
<1> DEFINE b == Min({bound, Len(data)})
           I == {0} \cup {keep \in 1..b : Grows(data, pairs, bound, keep)}
           I0 == {0} \cup {keep \in 1..b :
                    \E i \in DOMAIN pairs :
                      /\ Len(pairs[i].needle) > keep
                      /\ SubSeq(pairs[i].needle, 1, keep) = SubSeq(data, Len(data) - keep + 1, Len(data))}
<1>1. Len(data) \in Nat
  OBVIOUS
<1>2. b = (IF bound <= Len(data) THEN bound ELSE Len(data)) /\ b \in Nat
  BY <1>1, MinIs
<1> HIDE DEF b
<1>3. I = I0
  <2>1. \A k \in 1..b : k \in 1..bound /\ k <= Len(data)
    BY <1>1, <1>2
  <2>2. QED
    BY <2>1 DEF Grows
<1>4. NeedlePrefixSuffixLen(data, pairs, bound) = Max(I)
  BY <1>3 DEF NeedlePrefixSuffixLen, b
<1>5. I \in SUBSET (0..b) /\ I # {}
  BY <1>2
<1>6. Max(I) \in I /\ \A y \in I : y <= Max(I)
  <2> HIDE DEF I
  <2> QED
    BY <1>2, <1>5, GreatestIs
<1>7. Max(I) \in 0..bound /\ Max(I) <= Len(data)
  BY <1>1, <1>2, <1>5, <1>6
<1>8. Max(I) = 0 \/ Grows(data, pairs, bound, Max(I))
  BY <1>6
<1>9. ASSUME NEW k \in Nat, Grows(data, pairs, bound, k) PROVE k <= Max(I)
  <2>1. k \in 1..bound /\ k <= Len(data)
    BY <1>9 DEF Grows
  <2>2. k \in 1..b
    BY <1>1, <1>2, <2>1
  <2>3. k \in I
    BY <1>9, <2>2
  <2>4. QED
    BY <1>6, <2>3
<1> HIDE DEF I
<1>10. QED
  BY <1>4, <1>7, <1>8, <1>9

\* The bytes that are a beginning of the needle, one by one.
LEMMA GrowsIs ==
  ASSUME NEW data \in Seq(Nat), NEW n \in Seq(Nat), NEW k \in Nat \ {0}, k <= Len(data), Len(n) > k
  PROVE  SubSeq(n, 1, k) = SubSeq(data, Len(data) - k + 1, Len(data))
           <=> \A j \in 1..k : data[Len(data) - k + j] = n[j]
<1> DEFINE u == SubSeq(n, 1, k)
           v == SubSeq(data, Len(data) - k + 1, Len(data))
<1>1. Len(data) \in Nat /\ Len(n) \in Nat
  OBVIOUS
<1>2. /\ u \in Seq(Nat) /\ Len(u) = k - 1 + 1
      /\ \A i \in 1..(k - 1 + 1) : u[i] = n[1 + i - 1]
  <2>1. 1 \in Nat \ {0} /\ k \in Nat /\ k <= Len(n) /\ 1 <= k + 1
    BY <1>1
  <2>2. QED
    BY <2>1, SubIs
<1>3. /\ v \in Seq(Nat) /\ Len(v) = Len(data) - (Len(data) - k + 1) + 1
      /\ \A i \in 1..(Len(data) - (Len(data) - k + 1) + 1) : v[i] = data[Len(data) - k + 1 + i - 1]
  <2>1. Len(data) - k + 1 \in Nat \ {0} /\ Len(data) <= Len(data) /\ Len(data) - k + 1 <= Len(data) + 1
    BY <1>1
  <2>2. QED
    BY <1>1, <2>1, SubIs, SMTT(30)
<1> HIDE DEF u, v
<1>4. Len(u) = k /\ \A i \in 1..k : u[i] = n[i]
  BY <1>2
<1>5. Len(v) = k /\ \A i \in 1..k : v[i] = data[Len(data) - k + i]
  BY <1>1, <1>3
<1>6. ASSUME u = v PROVE \A j \in 1..k : data[Len(data) - k + j] = n[j]
  BY <1>4, <1>5, <1>6
<1>7. ASSUME \A j \in 1..k : data[Len(data) - k + j] = n[j] PROVE u = v
  <2>1. \A j \in 1..Len(u) : u[j] = v[j]
    BY <1>4, <1>5, <1>7
  <2>2. QED
    BY <1>2, <1>3, <1>4, <1>5, <2>1, SeqEqual
<1>8. QED
  BY <1>6, <1>7 DEF u, v

\* How much is emitted: at least all but the hold-back, and past every match.
LEMMA EmitIs ==
  ASSUME NEW data \in Seq(Nat), NEW pairs, GoodPairs(pairs), NEW bound \in Nat
  PROVE  LET keep == NeedlePrefixSuffixLen(data, pairs, bound)
             m    == NeedleSafeEmitLen(data, pairs, bound)
         IN  /\ m \in 0..Len(data) /\ Len(data) - keep <= m
             /\ \A i \in 1..Len(pairs) : MatchEnds(data, pairs[i].needle) \subseteq 0..m
             /\ \/ m = Len(data) - keep
                \/ \E i \in 1..Len(pairs) : m \in MatchEnds(data, pairs[i].needle)
<1> DEFINE keep == NeedlePrefixSuffixLen(data, pairs, bound)
           I == {Len(data) - keep} \cup UNION {MatchEnds(data, pairs[i].needle) : i \in DOMAIN pairs}
<1>1. keep \in Nat /\ keep <= Len(data) /\ Len(data) \in Nat
  BY KeepIs
<1>2. NeedleSafeEmitLen(data, pairs, bound) = Max(I)
  BY DEF NeedleSafeEmitLen
<1> HIDE DEF keep
<1>3. Len(pairs) \in Nat /\ DOMAIN pairs = 1..Len(pairs)
  BY PairIs
<1>4. ASSUME NEW i \in 1..Len(pairs)
      PROVE  MatchEnds(data, pairs[i].needle) \subseteq 0..Len(data)
  <2>1. pairs[i].needle \in Seq(Nat) /\ pairs[i].needle # <<>> /\ Len(pairs[i].needle) \in Nat
    BY PairIs
  <2> DEFINE n == pairs[i].needle
  <2>2. n \in Seq(Nat) /\ n # <<>>
    BY <2>1
  <2> HIDE DEF n
  <2>3. PICK e : IsEnding(e, data, n) /\ MatchEnds(data, n) = e[1]
    BY <2>2, EndsAre
  <2>4. \A j \in 1..(Len(data) + 1) : \A z \in e[j] : z \in Nat /\ j + Len(n) - 1 <= z /\ z <= Len(data)
    BY <2>2, <2>3, EndingAt
  <2>5. 1 \in 1..(Len(data) + 1)
    BY <1>1
  <2>6. \A z \in e[1] : z \in Nat /\ z <= Len(data)
    BY <2>4, <2>5
  <2>7. MatchEnds(data, n) \subseteq 0..Len(data)
    BY <1>1, <2>3, <2>6
  <2>8. QED
    BY <2>7 DEF n
<1>5. I \in SUBSET (0..Len(data)) /\ I # {}
  <2>1. Len(data) - keep \in 0..Len(data)
    BY <1>1
  <2>2. QED
    BY <1>3, <1>4, <2>1
<1>6. Max(I) \in I /\ \A y \in I : y <= Max(I)
  <2> HIDE DEF I
  <2> QED
    BY <1>1, <1>5, GreatestIs
<1>7. Max(I) \in 0..Len(data) /\ Len(data) - keep <= Max(I)
  BY <1>5, <1>6
<1>8. ASSUME NEW i \in 1..Len(pairs), NEW z \in MatchEnds(data, pairs[i].needle)
      PROVE  z \in 0..Max(I)
  <2>1. z \in I
    BY <1>3
  <2>2. z <= Max(I) /\ z \in 0..Len(data)
    BY <1>4, <1>6, <2>1
  <2>3. QED
    BY <1>1, <1>7, <2>2
<1>9. Max(I) = Len(data) - keep \/ \E i \in 1..Len(pairs) : Max(I) \in MatchEnds(data, pairs[i].needle)
  BY <1>3, <1>6
<1> HIDE DEF I
<1>10. QED
  BY <1>2, <1>7, <1>8, <1>9 DEF keep

\* What is not emitted is within the window.
LEMMA HeldFits ==
  ASSUME NEW data \in Seq(Nat), NEW pairs, GoodPairs(pairs), NEW bound \in Nat
  PROVE  LET m == NeedleSafeEmitLen(data, pairs, bound) IN
         m \in 0..Len(data) /\ Len(data) - m <= bound
<1> DEFINE keep == NeedlePrefixSuffixLen(data, pairs, bound)
           m    == NeedleSafeEmitLen(data, pairs, bound)
<1>1. keep \in 0..bound
  BY KeepIs
<1>2. m \in 0..Len(data) /\ Len(data) - keep <= m /\ Len(data) \in Nat
  BY EmitIs
<1> HIDE DEF keep, m
<1>3. Len(data) - m <= bound
  BY <1>1, <1>2
<1>4. QED
  BY <1>2, <1>3 DEF m

\* With one pair, the emitted length is a safe cut.
LEMMA EmitIsSafe ==
  ASSUME NEW data \in Seq(Nat), NEW pairs, GoodPairs(pairs), Len(pairs) = 1
  PROVE  SafeCut(data, pairs[1].needle, NeedleSafeEmitLen(data, pairs, MaxTailSize(pairs)))
<1> DEFINE n == pairs[1].needle
           bound == MaxTailSize(pairs)
           keep == NeedlePrefixSuffixLen(data, pairs, bound)
           m    == NeedleSafeEmitLen(data, pairs, bound)
<1>1. n \in Seq(Nat) /\ Len(n) \in Nat \ {0} /\ DOMAIN pairs = 1..1 /\ 1 \in 1..Len(pairs)
  <2>1. 1 \in 1..Len(pairs)
    OBVIOUS
  <2>2. QED
    BY <2>1, PairIs
<1>2. bound \in Nat /\ Len(n) - 1 <= bound
  BY <1>1, TailSizeIs
<1> HIDE DEF bound
<1>3. /\ keep \in 0..bound /\ keep <= Len(data)
      /\ \A k \in Nat : Grows(data, pairs, bound, k) => k <= keep
  BY <1>2, KeepIs
<1>4. /\ m \in 0..Len(data) /\ Len(data) - keep <= m /\ Len(data) \in Nat
      /\ MatchEnds(data, n) \subseteq 0..m
      /\ m = Len(data) - keep \/ m \in MatchEnds(data, n)
  <2>1. /\ m \in 0..Len(data) /\ Len(data) - keep <= m
        /\ \A i \in 1..Len(pairs) : MatchEnds(data, pairs[i].needle) \subseteq 0..m
        /\ \/ m = Len(data) - keep
           \/ \E i \in 1..Len(pairs) : m \in MatchEnds(data, pairs[i].needle)
    BY <1>2, EmitIs
  <2>2. \A i \in 1..Len(pairs) : i = 1
    OBVIOUS
  <2>3. QED
    BY <1>1, <2>1, <2>2
<1> HIDE DEF keep, m, n
<1>5. ASSUME m = Len(data) - keep,
             NEW k \in 1..(Len(n) - 1), k <= Len(data), \A j \in 1..k : data[Len(data) - k + j] = n[j]
      PROVE  m + k <= Len(data)
  <2>1. k \in Nat \ {0} /\ Len(n) > k /\ k \in 1..bound
    BY <1>1, <1>2
  <2>2. SubSeq(n, 1, k) = SubSeq(data, Len(data) - k + 1, Len(data))
    BY <1>1, <1>5, <2>1, GrowsIs
  <2>3. Grows(data, pairs, bound, k)
    BY <1>1, <1>5, <2>1, <2>2 DEF Grows, n
  <2>4. k <= keep
    BY <1>3, <2>1, <2>3
  <2>5. QED
    BY <1>3, <1>4, <1>5, <2>1, <2>4
<1>6. SafeCut(data, n, m)
  BY <1>4, <1>5 DEF SafeCut
<1>7. QED
  BY <1>6 DEF n, m, bound

\* A pass per pair: with one pair, one pass.
LEMMA OnePass ==
  ASSUME NEW data, NEW pairs, Len(pairs) = 1
  PROVE  ReplaceIn(data, pairs) = ReplaceBytes(data, pairs[1].needle, pairs[1].replacement)
<1> DEFINE Is(g) == g = [k \in 0..Len(pairs) |->
                           IF k = 0 THEN data
                           ELSE ReplaceBytes(g[k - 1], pairs[k].needle, pairs[k].replacement)]
           P == ReplaceBytes(data, pairs[1].needle, pairs[1].replacement)
           f == [k \in 0..1 |-> IF k = 0 THEN data ELSE P]
<1> HIDE DEF P
<1>1. f[0] = data /\ f[1] = P
  OBVIOUS
<1>2. Is(f)
  <2>1. ASSUME NEW k \in 0..1
        PROVE  f[k] = IF k = 0 THEN data
                      ELSE ReplaceBytes(f[k - 1], pairs[k].needle, pairs[k].replacement)
    <3>1. CASE k = 0
      BY <1>1, <3>1
    <3>2. CASE k = 1
      <4>1. k - 1 = 0 /\ k # 0
        BY <3>2
      <4>2. f[k] = P /\ f[k - 1] = data
        BY <1>1, <3>2, <4>1
      <4>3. P = ReplaceBytes(f[k - 1], pairs[k].needle, pairs[k].replacement)
        BY <3>2, <4>2, Zenon DEF P
      <4>4. QED
        BY <4>1, <4>2, <4>3
    <3>3. QED
      BY <3>1, <3>2
  <2> DEFINE E(k) == IF k = 0 THEN data
                     ELSE ReplaceBytes(f[k - 1], pairs[k].needle, pairs[k].replacement)
  <2>2. \A k \in 0..1 : f[k] = E(k)
    BY <2>1
  <2>3. f = [k \in 0..1 |-> f[k]]
    OBVIOUS
  <2> HIDE DEF f, E
  <2>4. f = [k \in 0..1 |-> E(k)]
    BY <2>2, <2>3
  <2>5. QED
    BY <2>4 DEF E
<1>3. \E g : Is(g)
  BY <1>2
<1> DEFINE F == CHOOSE g : Is(g)
<1>4. Is(F)
  BY <1>3
<1>5. ReplaceIn(data, pairs) = F[1]
  BY DEF ReplaceIn
<1> HIDE DEF F
<1>6. F[0] = data
  BY <1>4
<1>7. F[1] = ReplaceBytes(F[1 - 1], pairs[1].needle, pairs[1].replacement)
  BY <1>4
<1>8. 1 - 1 = 0
  OBVIOUS
<1>9. QED
  BY <1>5, <1>6, <1>7, <1>8

\* With no pair, no pass.
LEMMA NoPass ==
  ASSUME NEW data, NEW pairs, Len(pairs) = 0
  PROVE  ReplaceIn(data, pairs) = data
<1> DEFINE Is(g) == g = [k \in 0..Len(pairs) |->
                           IF k = 0 THEN data
                           ELSE ReplaceBytes(g[k - 1], pairs[k].needle, pairs[k].replacement)]
           f == [k \in 0..0 |-> data]
<1>1. Is(f)
  OBVIOUS
<1>2. \E g : Is(g)
  BY <1>1
<1> DEFINE F == CHOOSE g : Is(g)
<1>3. Is(F)
  BY <1>2
<1>4. ReplaceIn(data, pairs) = F[0]
  BY DEF ReplaceIn
<1> HIDE DEF F
<1>5. F[0] = data
  BY <1>3
<1>6. QED
  BY <1>4, <1>5

(* What the recursive function of RawPairs satisfies.                      *)
IsKeeping(f, pairs) ==
  f = [k \in 1..(Len(pairs) + 1) |->
         IF k > Len(pairs) THEN <<>>
         ELSE IF Len(pairs[k].needle) = Len(pairs[k].replacement) THEN <<pairs[k]>> \o f[k + 1]
         ELSE f[k + 1]]

\* RawPairs is well defined and keeps pairs.
LEMMA RawPairsAre ==
  ASSUME NEW pairs, GoodPairs(pairs)
  PROVE  /\ GoodPairs(RawPairs(pairs))
         /\ Len(pairs) = 1 => \/ Len(RawPairs(pairs)) = 0
                              \/ Len(RawPairs(pairs)) = 1 /\ RawPairs(pairs)[1] = pairs[1]
<1> DEFINE N == Len(pairs)
           Eq(k) == Len(pairs[k].needle) = Len(pairs[k].replacement)
           D == Seq(GoodPair)
           base == <<>>
           nx == [k \in 1..N |-> k + 1]
           G == [k \in 1..N |-> IF Eq(k) THEN [x \in D |-> <<pairs[k]>> \o x] ELSE [x \in D |-> x]]
<1>1. N \in Nat /\ pairs \in Seq(GoodPair)
  BY PairIs DEF GoodPairs
<1>2. \A k \in 1..N : <<pairs[k]>> \in D /\ pairs[k] \in GoodPair
  BY <1>1, ElementOfSeq
<1>3. ASSUME NEW k \in 1..N, NEW x \in D PROVE <<pairs[k]>> \o x \in D
  BY <1>2, ConcatProperties
<1>4. base \in D
  OBVIOUS
<1> HIDE DEF D, Eq, N
<1>5. Recursive(N, D, base, G, nx)
  <2>1. nx \in [1..N -> 1..(N + 1)] /\ \A i \in 1..N : nx[i] > i
    BY <1>1
  <2>2. ASSUME NEW k \in 1..N
        PROVE  /\ [x \in D |-> <<pairs[k]>> \o x] \in [D -> D]
               /\ [x \in D |-> x] \in [D -> D]
    BY <1>3
  <2>3. G \in [1..N -> [D -> D]]
    BY <2>2
  <2> HIDE DEF nx, G, base
  <2>4. QED
    BY <1>1, <1>4, <2>1, <2>3 DEF Recursive
<1>6. PICK f \in [1..(N + 1) -> D] : f[N + 1] = base /\ \A i \in 1..N : f[i] = G[i][f[nx[i]]]
  <2> HIDE DEF nx, G, base
  <2> QED
    BY <1>5, Recursion
<1>7. ASSUME NEW k \in 1..(N + 1)
      PROVE  f[k] = IF k > N THEN <<>> ELSE IF Eq(k) THEN <<pairs[k]>> \o f[k + 1] ELSE f[k + 1]
  <2>1. CASE k > N
    <3>1. k = N + 1
      BY <1>1, <2>1
    <3>2. QED
      BY <1>6, <2>1, <3>1
  <2>2. CASE k \in 1..N
    <3>1. nx[k] = k + 1 /\ k + 1 \in 1..(N + 1) /\ f[k + 1] \in D /\ ~(k > N)
      BY <1>1, <1>6, <2>2
    <3>2. f[k] = G[k][f[k + 1]]
      BY <1>6, <2>2, <3>1
    <3>3. CASE Eq(k)
      <4>1. G[k] = [x \in D |-> <<pairs[k]>> \o x]
        BY <2>2, <3>3
      <4>2. QED
        BY <3>1, <3>2, <3>3, <4>1
    <3>4. CASE ~Eq(k)
      <4>1. G[k] = [x \in D |-> x]
        BY <2>2, <3>4
      <4>2. QED
        BY <3>1, <3>2, <3>4, <4>1
    <3>5. QED
      BY <3>3, <3>4
  <2>3. k > N \/ k \in 1..N
    BY <1>1
  <2>4. QED
    BY <2>1, <2>2, <2>3, Zenon
<1>8. IsKeeping(f, pairs)
  <2>1. f = [k \in 1..(N + 1) |-> f[k]]
    BY <1>6
  <2>2. QED
    BY <1>7, <2>1 DEF IsKeeping, N, Eq
<1>9. \E g : IsKeeping(g, pairs)
  BY <1>8
<1> DEFINE F == CHOOSE g : IsKeeping(g, pairs)
<1>10. IsKeeping(F, pairs)
  BY <1>9
<1>11. RawPairs(pairs) = F[1]
  BY DEF RawPairs, IsKeeping
<1> HIDE DEF F
<1>12. \A k \in 1..(N + 1) :
         F[k] = IF k > N THEN <<>> ELSE IF Eq(k) THEN <<pairs[k]>> \o F[k + 1] ELSE F[k + 1]
  BY <1>10, Zenon DEF IsKeeping, N, Eq
<1> DEFINE K == {k \in 1..(N + 1) : F[k] \in D}
           M == N + 1
<1>13. ASSUME NEW i \in 1..M, \A j \in 1..M : j > i => j \in K PROVE i \in K
  <2>1. CASE i > N
    BY <1>4, <1>12, <2>1
  <2>2. CASE i \in 1..N
    <3>1. ~(i > N) /\ i + 1 \in 1..M /\ i + 1 > i
      BY <1>1, <2>2
    <3>2. F[i + 1] \in D
      BY <1>13, <3>1
    <3>3. F[i] = <<pairs[i]>> \o F[i + 1] \/ F[i] = F[i + 1]
      BY <1>12, <3>1
    <3>4. QED
      BY <1>3, <2>2, <3>2, <3>3
  <2>3. i > N \/ i \in 1..N
    BY <1>1
  <2>4. QED
    BY <2>1, <2>2, <2>3, Zenon
<1>14. M \in Nat /\ 1 \in 1..M
  BY <1>1
<1>15. 1..M \subseteq K
  <2> HIDE DEF K, M
  <2> QED
    BY <1>13, <1>14, Downward
<1>16. GoodPairs(RawPairs(pairs))
  BY <1>11, <1>14, <1>15 DEF GoodPairs, D
<1>17. ASSUME N = 1
       PROVE  \/ Len(RawPairs(pairs)) = 0
              \/ Len(RawPairs(pairs)) = 1 /\ RawPairs(pairs)[1] = pairs[1]
  <2>1. F[2] = <<>>
    <3>1. 2 \in 1..(N + 1) /\ 2 > N
      BY <1>17
    <3>2. QED
      BY <1>12, <3>1, Zenon
  <2>2. F[1] = IF Eq(1) THEN <<pairs[1]>> \o F[2] ELSE F[2]
    <3>1. 1 \in 1..(N + 1) /\ ~(1 > N) /\ 1 + 1 = 2
      BY <1>17
    <3>2. F[1] = IF Eq(1) THEN <<pairs[1]>> \o F[1 + 1] ELSE F[1 + 1]
      BY <1>12, <3>1, Zenon
    <3>3. QED
      BY <3>1, <3>2
  <2>3. <<pairs[1]>> \o <<>> = <<pairs[1]>>
    <3>1. <<pairs[1]>> \in Seq(GoodPair)
      BY <1>2, <1>17 DEF D
    <3>2. QED
      BY <3>1, ConcatEmptySeq
  <2>4. F[1] = <<>> \/ F[1] = <<pairs[1]>>
    BY <2>1, <2>2, <2>3
  <2>5. Len(<<>>) = 0 /\ Len(<<pairs[1]>>) = 1 /\ <<pairs[1]>>[1] = pairs[1]
    OBVIOUS
  <2>6. QED
    BY <1>11, <2>4, <2>5, Zenon
<1>18. QED
  BY <1>16, <1>17 DEF N

\* A suffix, position by position.
LEMMA SuffixIs ==
  ASSUME NEW S, NEW s \in Seq(S), NEW t \in Seq(S), Len(s) <= Len(t),
         \A i \in 1..Len(s) : s[i] = t[Len(t) - Len(s) + i]
  PROVE  IsSuffix(s, t)
<1> DEFINE rs == Reverse(s)
           rt == Reverse(t)
<1>1. Len(s) \in Nat /\ Len(t) \in Nat
  OBVIOUS
<1>2. /\ rs \in Seq(S) /\ Len(rs) = Len(s) /\ \A i \in 1..Len(s) : rs[i] = s[Len(s) - i + 1]
  <2>1. \A i \in 1..Len(s) : s[Len(s) - i + 1] \in S
    <3>1. \A i \in 1..Len(s) : Len(s) - i + 1 \in 1..Len(s)
      BY <1>1
    <3>2. QED
      BY <3>1, ElementOfSeq
  <2>2. rs = [i \in 1..Len(s) |-> s[Len(s) - i + 1]]
    BY DEF Reverse
  <2>3. rs \in [1..Len(s) -> S]
    BY <2>1, <2>2
  <2>4. rs \in Seq(S)
    BY <1>1, <2>3, SeqDef
  <2>5. Len(rs) = Len(s)
    BY <1>1, <2>3, <2>4
  <2>6. QED
    BY <2>2, <2>4, <2>5
<1>3. /\ rt \in Seq(S) /\ Len(rt) = Len(t) /\ \A i \in 1..Len(t) : rt[i] = t[Len(t) - i + 1]
  <2>1. \A i \in 1..Len(t) : t[Len(t) - i + 1] \in S
    <3>1. \A i \in 1..Len(t) : Len(t) - i + 1 \in 1..Len(t)
      BY <1>1
    <3>2. QED
      BY <3>1, ElementOfSeq
  <2>2. rt = [i \in 1..Len(t) |-> t[Len(t) - i + 1]]
    BY DEF Reverse
  <2>3. rt \in [1..Len(t) -> S]
    BY <2>1, <2>2
  <2>4. rt \in Seq(S)
    BY <1>1, <2>3, SeqDef
  <2>5. Len(rt) = Len(t)
    BY <1>1, <2>3, <2>4
  <2>6. QED
    BY <2>2, <2>4, <2>5
<1> HIDE DEF rs, rt
<1>4. /\ SubSeq(rs, 1, Len(s)) \in Seq(S) /\ Len(SubSeq(rs, 1, Len(s))) = Len(s) - 1 + 1
      /\ \A i \in 1..(Len(s) - 1 + 1) : SubSeq(rs, 1, Len(s))[i] = rs[1 + i - 1]
  <2>1. 1 \in Nat \ {0} /\ Len(s) <= Len(rs) /\ 1 <= Len(s) + 1
    BY <1>1, <1>2
  <2>2. QED
    BY <1>1, <1>2, <2>1, SubIs
<1>5. /\ SubSeq(rt, 1, Len(s)) \in Seq(S) /\ Len(SubSeq(rt, 1, Len(s))) = Len(s) - 1 + 1
      /\ \A i \in 1..(Len(s) - 1 + 1) : SubSeq(rt, 1, Len(s))[i] = rt[1 + i - 1]
  <2>1. 1 \in Nat \ {0} /\ Len(s) <= Len(rt) /\ 1 <= Len(s) + 1
    BY <1>1, <1>3
  <2>2. QED
    BY <1>1, <1>3, <2>1, SubIs
<1>6. ASSUME NEW i \in 1..Len(s) PROVE rs[i] = rt[i]
  <2>1. Len(s) - i + 1 \in 1..Len(s) /\ i \in 1..Len(t) /\ Len(t) - Len(s) + (Len(s) - i + 1) = Len(t) - i + 1
    BY <1>1
  <2>2. s[Len(s) - i + 1] = t[Len(t) - Len(s) + (Len(s) - i + 1)]
    BY <2>1
  <2>3. QED
    BY <1>2, <1>3, <2>1, <2>2
<1>7. SubSeq(rs, 1, Len(s)) = SubSeq(rt, 1, Len(s))
  <2>1. Len(s) - 1 + 1 = Len(s) /\ \A i \in 1..Len(s) : 1 + i - 1 = i
    BY <1>1
  <2>2. \A i \in 1..Len(s) : SubSeq(rs, 1, Len(s))[i] = SubSeq(rt, 1, Len(s))[i]
    BY <1>4, <1>5, <1>6, <2>1
  <2>3. QED
    BY <1>4, <1>5, <2>1, <2>2, SeqEqual
<1>8. IsPrefix(rs, rt)
  BY <1>2, <1>3, <1>7 DEF IsPrefix
<1>9. QED
  BY <1>8 DEF IsSuffix, rs, rt

\* Without a match there is no end of one.
LEMMA NoMatchNoEnd ==
  ASSUME NEW S, NEW h \in Seq(S), NEW n \in Seq(S), n # <<>>, \A j \in 1..Len(h) : ~MatchAt(h, n, j)
  PROVE  MatchEnds(h, n) = {}
<1>1. Len(h) \in Nat
  OBVIOUS
<1>2. PICK f : IsEnding(f, h, n) /\ MatchEnds(h, n) = f[1]
  BY EndsAre
<1>3. f[Len(h) + 1] = {} /\ \A i \in 1..Len(h) : f[i] = f[i + 1]
  BY <1>2, EndingAt
<1> DEFINE K == {i \in 1..(Len(h) + 1) : f[i] = {}}
           M == Len(h) + 1
<1>4. ASSUME NEW i \in 1..M, \A j \in 1..M : j > i => j \in K PROVE i \in K
  <2>1. CASE i = M
    BY <1>3, <2>1
  <2>2. CASE i # M
    <3>1. i \in 1..Len(h) /\ i + 1 \in 1..M /\ i + 1 > i
      BY <1>1, <2>2
    <3>2. f[i + 1] = {}
      BY <1>4, <3>1
    <3>3. QED
      BY <1>3, <3>1, <3>2
  <2>3. QED
    BY <2>1, <2>2
<1>5. M \in Nat /\ 1 \in 1..M
  BY <1>1
<1>6. 1..M \subseteq K
  <2> HIDE DEF K, M
  <2> QED
    BY <1>4, <1>5, Downward
<1>7. QED
  BY <1>2, <1>5, <1>6

-----------------------------------------------------------------------------
(* The substitution with at most one pair.                                 *)

(* At most one pair.                                                       *)
Single(pairs) == GoodPairs(pairs) /\ Len(pairs) \in {0, 1}

\* The substitution gives bytes.
LEMMA ReplaceType ==
  ASSUME NEW pairs, Single(pairs), NEW h \in Seq(Nat)
  PROVE  ReplaceIn(h, pairs) \in Seq(Nat)
<1>1. CASE Len(pairs) = 0
  BY <1>1, NoPass
<1>2. CASE Len(pairs) = 1
  <2> DEFINE n == pairs[1].needle
             r == pairs[1].replacement
  <2>1. 1 \in 1..Len(pairs) /\ GoodPairs(pairs)
    BY <1>2 DEF Single
  <2>2. n \in Seq(Nat) /\ r \in Seq(Nat) /\ n # <<>>
    BY <2>1, PairIs
  <2>3. ReplaceIn(h, pairs) = ReplaceBytes(h, n, r)
    BY <1>2, OnePass
  <2> HIDE DEF n, r
  <2>4. PICK f : IsReplacing(f, h, n, r) /\ ReplaceBytes(h, n, r) = f[1]
    BY <2>2, ReplaceIs
  <2>5. \A i \in 1..(Len(h) + 1) : f[i] \in Seq(Nat)
    BY <2>2, <2>4, ReplacingAt
  <2>6. 1 \in 1..(Len(h) + 1)
    OBVIOUS
  <2>7. QED
    BY <2>3, <2>4, <2>5, <2>6
<1>3. QED
  BY <1>1, <1>2 DEF Single

\* Without a match of the pair the substitution changes nothing.
LEMMA ReplaceNothing ==
  ASSUME NEW pairs, Single(pairs), NEW h \in Seq(Nat),
         \A i \in 1..Len(pairs) : \A j \in 1..Len(h) : ~MatchAt(h, pairs[i].needle, j)
  PROVE  ReplaceIn(h, pairs) = h
<1>1. CASE Len(pairs) = 0
  BY <1>1, NoPass
<1>2. CASE Len(pairs) = 1
  <2> DEFINE n == pairs[1].needle
             r == pairs[1].replacement
  <2>1. 1 \in 1..Len(pairs) /\ GoodPairs(pairs)
    BY <1>2 DEF Single
  <2>2. n \in Seq(Nat) /\ r \in Seq(Nat) /\ n # <<>>
    BY <2>1, PairIs
  <2>3. ReplaceIn(h, pairs) = ReplaceBytes(h, n, r)
    BY <1>2, OnePass
  <2>4. \A j \in 1..Len(h) : ~MatchAt(h, n, j)
    BY <2>1
  <2> HIDE DEF n, r
  <2>5. ReplaceBytes(h, n, r) = h
    BY <2>2, <2>4, NoMatchSame
  <2>6. QED
    BY <2>3, <2>5
<1>3. QED
  BY <1>1, <1>2 DEF Single

\* What fits the window holds no match.
LEMMA WindowHasNoMatch ==
  ASSUME NEW pairs, Single(pairs), NEW h \in Seq(Nat), Len(h) <= MaxTailSize(pairs)
  PROVE  \A i \in 1..Len(pairs) : \A j \in 1..Len(h) : ~MatchAt(h, pairs[i].needle, j)
<1>1. SUFFICES ASSUME NEW i \in 1..Len(pairs), NEW j \in 1..Len(h), MatchAt(h, pairs[i].needle, j)
      PROVE  FALSE
  OBVIOUS
<1>2. Len(pairs) = 1 /\ i = 1 /\ GoodPairs(pairs) /\ 1 \in 1..Len(pairs)
  <2>1. Len(pairs) # 0 /\ Len(pairs) \in {0, 1} /\ GoodPairs(pairs)
    BY <1>1 DEF Single
  <2>2. Len(pairs) = 1
    BY <2>1
  <2>3. QED
    BY <1>1, <2>1, <2>2
<1> DEFINE n == pairs[1].needle
<1>3. Len(n) \in Nat \ {0}
  BY <1>2, PairIs
<1>4. MaxTailSize(pairs) = Len(n) - 1
  <2>1. /\ MaxTailSize(pairs) \in Nat /\ Len(n) - 1 <= MaxTailSize(pairs)
        /\ \/ MaxTailSize(pairs) = 0
           \/ \E k \in 1..Len(pairs) : MaxTailSize(pairs) = Len(pairs[k].needle) - 1
    BY <1>2, TailSizeIs
  <2>2. \A k \in 1..Len(pairs) : k = 1
    BY <1>2
  <2>3. MaxTailSize(pairs) = 0 \/ MaxTailSize(pairs) = Len(n) - 1
    BY <2>1, <2>2
  <2> HIDE DEF n
  <2>4. QED
    BY <1>3, <2>1, <2>3
<1>5. j + Len(n) - 1 <= Len(h)
  BY <1>1, <1>2 DEF MatchAt
<1> HIDE DEF n
<1>6. Len(h) \in Nat
  OBVIOUS
<1>7. QED
  BY <1>3, <1>4, <1>5, <1>6

\* So the substitution changes nothing of what fits the window.
LEMMA WindowIsSame ==
  ASSUME NEW pairs, Single(pairs), NEW h \in Seq(Nat), Len(h) <= MaxTailSize(pairs)
  PROVE  ReplaceIn(h, pairs) = h
BY WindowHasNoMatch, ReplaceNothing

(* What was emitted, with what will be made of what is held and of what    *)
(* follows, is what is made of all that arrived and of what follows.       *)
Flows(s, o, h, pairs) ==
  \A x \in Seq(Nat) : ReplaceIn(s \o x, pairs) = o \o ReplaceIn(h \o x, pairs)

(* The same with the pass of every pair.                                   *)
SplitsIn(c, x, pairs, m) ==
  ReplaceIn(c \o x, pairs) = ReplaceIn(Prefix(c, m), pairs) \o ReplaceIn(Rest(c, m) \o x, pairs)

\* The cut at the emitted length.
LEMMA EmitCut ==
  ASSUME NEW pairs, Single(pairs), NEW c \in Seq(Nat), NEW x \in Seq(Nat), NEW m,
         m = NeedleSafeEmitLen(c, pairs, MaxTailSize(pairs))
  PROVE  /\ m \in 0..Len(c)
         /\ SplitsIn(c, x, pairs, m)
<1>1. GoodPairs(pairs) /\ MaxTailSize(pairs) \in Nat
  BY TailSizeIs DEF Single
<1>2. m \in 0..Len(c)
  BY <1>1, HeldFits
<1>3. /\ Prefix(c, m) \in Seq(Nat) /\ Rest(c, m) \in Seq(Nat) /\ Prefix(c, m) \o Rest(c, m) = c
  BY <1>2, CutIs
<1>4. CASE Len(pairs) = 0
  <2>1. \A s : ReplaceIn(s, pairs) = s
    BY <1>4, NoPass
  <2>2. Assoc(Nat, Prefix(c, m), Rest(c, m), x)
    BY <1>3, AssocIs
  <2>3. c \o x = Prefix(c, m) \o (Rest(c, m) \o x)
    BY <1>3, <2>2, Zenon DEF Assoc
  <2>4. SplitsIn(c, x, pairs, m)
    BY <2>1, <2>3, Zenon DEF SplitsIn
  <2>5. QED
    BY <1>2, <2>4
<1>5. CASE Len(pairs) = 1
  <2> DEFINE n == pairs[1].needle
             r == pairs[1].replacement
  <2>1. 1 \in 1..Len(pairs)
    BY <1>5
  <2>2. n \in Seq(Nat) /\ r \in Seq(Nat) /\ n # <<>>
    BY <1>1, <2>1, PairIs
  <2>3. \A s : ReplaceIn(s, pairs) = ReplaceBytes(s, n, r)
    BY <1>5, OnePass
  <2>4. SafeCut(c, n, m)
    BY <1>1, <1>5, EmitIsSafe
  <2> HIDE DEF n, r
  <2>5. Splits(Nat, c, x, n, r, m)
    BY <2>2, <2>4, CutSame
  <2>6. SplitsIn(c, x, pairs, m)
    <3>1. /\ ReplaceIn(c \o x, pairs) = ReplaceBytes(c \o x, n, r)
          /\ ReplaceIn(Prefix(c, m), pairs) = ReplaceBytes(Prefix(c, m), n, r)
          /\ ReplaceIn(Rest(c, m) \o x, pairs) = ReplaceBytes(Rest(c, m) \o x, n, r)
      BY <2>3, Zenon
    <3>2. QED
      BY <2>5, <3>1, Zenon DEF Splits, SplitsIn
  <2>7. QED
    BY <1>2, <2>6
<1>6. QED
  BY <1>4, <1>5 DEF Single

\* An arrival keeps the flow.
LEMMA FlowsOn ==
  ASSUME NEW pairs, Single(pairs), NEW s \in Seq(Nat), NEW o \in Seq(Nat), NEW h \in Seq(Nat),
         NEW d \in Seq(Nat), Flows(s, o, h, pairs),
         NEW m, m = NeedleSafeEmitLen(h \o d, pairs, MaxTailSize(pairs))
  PROVE  /\ o \o ReplaceIn(Prefix(h \o d, m), pairs) \in Seq(Nat)
         /\ Flows(s \o d, o \o ReplaceIn(Prefix(h \o d, m), pairs), Rest(h \o d, m), pairs)
<1> DEFINE c == h \o d
           a == ReplaceIn(Prefix(c, m), pairs)
<1>1. c \in Seq(Nat)
  BY ConcatProperties
<1>2. m = NeedleSafeEmitLen(c, pairs, MaxTailSize(pairs))
  OBVIOUS
<1> HIDE DEF c
<1>3. m \in 0..Len(c)
  <2>1. <<>> \in Seq(Nat)
    OBVIOUS
  <2>2. QED
    BY <1>1, <1>2, <2>1, EmitCut
<1>4. Prefix(c, m) \in Seq(Nat) /\ Rest(c, m) \in Seq(Nat)
  BY <1>1, <1>3, CutIs
<1>5. a \in Seq(Nat)
  BY <1>4, ReplaceType
<1>6. ASSUME NEW x \in Seq(Nat)
      PROVE  ReplaceIn((s \o d) \o x, pairs) = (o \o a) \o ReplaceIn(Rest(c, m) \o x, pairs)
  <2> DEFINE b == ReplaceIn(Rest(c, m) \o x, pairs)
  <2>1. d \o x \in Seq(Nat) /\ Rest(c, m) \o x \in Seq(Nat)
    BY <1>4, ConcatProperties
  <2>2. b \in Seq(Nat)
    BY <2>1, ReplaceType
  <2>3. Assoc(Nat, s, d, x) /\ Assoc(Nat, h, d, x) /\ Assoc(Nat, o, a, b)
    <3> HIDE DEF a, b
    <3> QED
      BY <1>5, <2>2, AssocIs
  <2>4. ReplaceIn(s \o (d \o x), pairs) = o \o ReplaceIn(h \o (d \o x), pairs)
    BY <2>1 DEF Flows
  <2>5. h \o (d \o x) = c \o x
    BY <2>3, Zenon DEF Assoc, c
  <2>6. ReplaceIn(c \o x, pairs) = a \o b
    <3>1. SplitsIn(c, x, pairs, m)
      BY <1>1, <1>2, EmitCut
    <3>2. QED
      BY <3>1, Zenon DEF SplitsIn
  <2> HIDE DEF a, b
  <2>7. (s \o d) \o x = s \o (d \o x) /\ (o \o a) \o b = o \o (a \o b)
    BY <2>3, Zenon DEF Assoc
  <2>8. ReplaceIn((s \o d) \o x, pairs) = (o \o a) \o b
    BY <2>4, <2>5, <2>6, <2>7, Zenon
  <2>9. QED
    BY <2>8 DEF b
<1>7. o \o a \in Seq(Nat)
  <2> HIDE DEF a
  <2> QED
    BY <1>5, ConcatProperties
<1>8. Flows(s \o d, o \o a, Rest(c, m), pairs)
  <2> HIDE DEF a
  <2> QED
    BY <1>6, Zenon DEF Flows
<1>9. QED
  BY <1>7, <1>8 DEF c

\* With nothing to follow.
LEMMA FlowsNow ==
  ASSUME NEW pairs, Single(pairs), NEW s \in Seq(Nat), NEW o, NEW h \in Seq(Nat), Flows(s, o, h, pairs)
  PROVE  /\ o \o ReplaceIn(h, pairs) = ReplaceIn(s, pairs)
         /\ Len(h) <= MaxTailSize(pairs) => o \o h = ReplaceIn(s, pairs)
<1>1. <<>> \in Seq(Nat)
  OBVIOUS
<1>2. s \o <<>> = s /\ h \o <<>> = h
  BY ConcatEmptySeq
<1>3. ReplaceIn(s \o <<>>, pairs) = o \o ReplaceIn(h \o <<>>, pairs)
  BY <1>1, Zenon DEF Flows
<1>4. o \o ReplaceIn(h, pairs) = ReplaceIn(s, pairs)
  BY <1>2, <1>3, Zenon
<1>5. ASSUME Len(h) <= MaxTailSize(pairs) PROVE o \o h = ReplaceIn(s, pairs)
  <2>1. ReplaceIn(h, pairs) = h
    BY <1>5, WindowIsSame
  <2>2. QED
    BY <1>4, <2>1
<1>6. QED
  BY <1>4, <1>5

\* A feed that drops nothing is the substitution of held and chunk together.
LEMMA FeedIs ==
  ASSUME NEW pairs, Single(pairs), NEW h \in Seq(Nat), NEW d \in Seq(Nat), d # <<>>,
         ~Forgets(pairs, h, d), NEW m, m = NeedleSafeEmitLen(h \o d, pairs, MaxTailSize(pairs))
  PROVE  /\ RawFeed(pairs, h, d).out = ReplaceIn(Prefix(h \o d, m), pairs)
         /\ RawFeed(pairs, h, d).held = Rest(h \o d, m)
<1>1. CASE Hit(pairs, h, d)
  BY <1>1 DEF RawFeed, FeedHit
<1>2. CASE ~Hit(pairs, h, d)
  <2>1. h = <<>> /\ h \o d = d
    BY <1>2, ConcatEmptySeq DEF Forgets
  <2> DEFINE hold == NeedlePrefixSuffixLen(d, pairs, MaxTailSize(pairs))
             emitLen == IF Len(d) > hold THEN Len(d) - hold ELSE 0
             bound == MaxTailSize(pairs)
  <2>2. GoodPairs(pairs) /\ bound \in Nat /\ DOMAIN pairs = 1..Len(pairs)
    BY TailSizeIs, PairIs DEF Single
  <2>3. RawFeed(pairs, h, d) =
          [out |-> Prefix(d, emitLen), held |-> IF hold > 0 THEN Rest(d, emitLen) ELSE <<>>]
    BY <1>2, <2>1 DEF RawFeed, FeedMiss
  <2>4. \A i \in 1..Len(pairs) : \A j \in 1..Len(d) : ~MatchAt(d, pairs[i].needle, j)
    <3>1. ASSUME NEW i \in 1..Len(pairs), NEW j \in 1..Len(d), MatchAt(d, pairs[i].needle, j) PROVE FALSE
      <4>1. Len(pairs[i].needle) \in Nat \ {0}
        BY <2>2, PairIs
      <4>2. j + Len(pairs[i].needle) - 1 > 0
        BY <4>1
      <4>3. FindNewMatch(d, pairs[i].needle, 0)
        BY <3>1, <4>2 DEF FindNewMatch
      <4>4. QED
        BY <1>2, <2>2, <4>3 DEF Hit
    <3>2. QED
      BY <3>1
  <2>5. ASSUME NEW i \in 1..Len(pairs) PROVE MatchEnds(d, pairs[i].needle) = {}
    <3>1. pairs[i].needle \in Seq(Nat) /\ pairs[i].needle # <<>>
      BY <2>2, PairIs
    <3>2. \A j \in 1..Len(d) : ~MatchAt(d, pairs[i].needle, j)
      BY <2>4
    <3> DEFINE n == pairs[i].needle
    <3> HIDE DEF n
    <3>3. MatchEnds(d, n) = {}
      BY <3>1, <3>2, NoMatchNoEnd DEF n
    <3>4. QED
      BY <3>3 DEF n
  <2>6. hold \in Nat /\ hold <= Len(d) /\ Len(d) \in Nat
    BY <2>2, KeepIs
  <2>7. m = Len(d) - hold /\ m \in 0..Len(d)
    <3>1. m = NeedleSafeEmitLen(d, pairs, bound)
      BY <2>1
    <3>2. /\ m \in 0..Len(d)
          /\ m = Len(d) - hold \/ \E i \in 1..Len(pairs) : m \in MatchEnds(d, pairs[i].needle)
      BY <2>2, <3>1, EmitIs
    <3>3. QED
      BY <2>5, <3>2
  <2> HIDE DEF hold
  <2>8. emitLen = m
    BY <2>6, <2>7
  <2>9. Rest(d, m) = IF hold > 0 THEN Rest(d, emitLen) ELSE <<>>
    <3>1. CASE hold > 0
      BY <2>8, <3>1
    <3>2. CASE hold = 0
      <4>1. m = Len(d)
        BY <2>6, <2>7, <3>2
      <4>2. Rest(d, m) \in Seq(Nat) /\ Len(Rest(d, m)) = 0
        <5>1. Rest(d, m) \in Seq(Nat) /\ Len(Rest(d, m)) = Len(d) - m
          BY <2>7, CutIs
        <5>2. QED
          BY <2>6, <4>1, <5>1
      <4>3. Rest(d, m) = <<>>
        BY <4>2, EmptySeq
      <4>4. QED
        BY <3>2, <4>3
    <3>3. QED
      BY <2>6, <3>1, <3>2
  <2>10. ReplaceIn(Prefix(d, m), pairs) = Prefix(d, m)
    <3> DEFINE p == Prefix(d, m)
    <3>1. p \in Seq(Nat) /\ Len(p) = m /\ \A k \in 1..m : p[k] = d[k]
      BY <2>7, CutIs
    <3> HIDE DEF p
    <3>2. ASSUME NEW i \in 1..Len(pairs), NEW j \in 1..Len(p), MatchAt(p, pairs[i].needle, j) PROVE FALSE
      <4> DEFINE n == pairs[i].needle
      <4>1. n \in Seq(Nat) /\ Len(n) \in Nat \ {0}
        BY <2>2, PairIs
      <4>2. j + Len(n) - 1 <= Len(p)
        BY <3>2 DEF MatchAt
      <4> HIDE DEF n
      <4>3. /\ j \in Nat \ {0} /\ 0 + Len(p) <= Len(d) /\ \A k \in 1..Len(p) : p[k] = d[0 + k]
        BY <2>6, <2>7, <3>1
      <4>4. MatchAt(p, n, j) <=> MatchAt(d, n, 0 + j)
        BY <3>1, <4>1, <4>2, <4>3, MatchShifts
      <4>5. 0 + j = j /\ j \in 1..Len(d)
        BY <2>6, <2>7, <3>1
      <4>6. MatchAt(d, n, j)
        BY <3>2, <4>4, <4>5 DEF n
      <4>7. QED
        BY <2>4, <4>5, <4>6 DEF n
    <3>3. ReplaceIn(p, pairs) = p
      BY <3>1, <3>2, ReplaceNothing
    <3>4. QED
      BY <3>3 DEF p
  <2> HIDE DEF emitLen
  <2>11. RawFeed(pairs, h, d).out = Prefix(d, emitLen)
    BY <2>3
  <2>12. RawFeed(pairs, h, d).held = Rest(d, m)
    BY <2>3, <2>9
  <2>13. QED
    BY <2>1, <2>8, <2>10, <2>11, <2>12
<1>3. QED
  BY <1>1, <1>2

-----------------------------------------------------------------------------
(* The constants and the arrivals.                                         *)

\* The pairs are pairs, and so are the ones the raw wire keeps.
LEMMA PairsAre ==
  /\ GoodPairs(Pairs) /\ TailSize \in Nat /\ DOMAIN Pairs = 1..Len(Pairs)
  /\ GoodPairs(EqualPairs) /\ MaxTailSize(EqualPairs) \in Nat
<1>1. GoodPairs(Pairs)
  <2>1. Len(Pairs) \in Nat /\ DOMAIN Pairs = 1..Len(Pairs)
    BY PairsAssumption, LenProperties
  <2>2. ASSUME NEW i \in 1..Len(Pairs) PROVE Pairs[i] \in GoodPair
    <3>1. Pairs[i] \in [needle : Seq(Nat), replacement : Seq(Nat)]
      BY PairsAssumption, ElementOfSeq
    <3>2. Pairs[i].needle # <<>>
      BY PairsAssumption, <2>1
    <3>3. QED
      BY <3>1, <3>2 DEF GoodPair
  <2>3. Pairs \in [1..Len(Pairs) -> GoodPair]
    <3>1. Pairs \in [1..Len(Pairs) -> [needle : Seq(Nat), replacement : Seq(Nat)]]
      BY PairsAssumption, LenProperties
    <3>2. QED
      BY <2>2, <3>1
  <2>4. QED
    BY <2>1, <2>3, SeqDef DEF GoodPairs
<1>2. TailSize \in Nat /\ DOMAIN Pairs = 1..Len(Pairs)
  BY <1>1, TailSizeIs, PairIs DEF TailSize
<1>3. GoodPairs(EqualPairs)
  BY <1>1, RawPairsAre DEF EqualPairs
<1>4. MaxTailSize(EqualPairs) \in Nat
  BY <1>3, TailSizeIs
<1>5. QED
  BY <1>1, <1>2, <1>3, <1>4

\* Bytes are numbers.
LEMMA BytesAreNat ==
  ASSUME NEW s \in Seq(Bytes)
  PROVE  s \in Seq(Nat) /\ Len(s) \in Nat
<1>1. s \in Seq(Nat)
  BY BytesAssumption, SeqMonotonic
<1>2. QED
  BY <1>1

\* An arrival is a sequence of at least one byte.
LEMMA ArrivalIs ==
  ASSUME NEW data \in SeqOf(Bytes, MaxArrival) \ {<<>>}
  PROVE  data \in Seq(Bytes) /\ data # <<>> /\ Len(data) \in Nat \ {0}
<1>1. PICK m \in 0..MaxArrival : data \in [1..m -> Bytes]
  BY DEF SeqOf
<1>2. m \in Nat
  BY BoundsAssumption
<1>3. data \in Seq(Bytes)
  BY <1>1, <1>2, SeqDef
<1>4. QED
  BY <1>3, EmptySeq

\* Counting from the end of the bytes, of what is held and of what is kept.
LEMMA CountBack ==
  ASSUME NEW all \in Nat, NEW cut \in Nat, NEW kept \in Nat, NEW keep \in Nat, NEW j \in 1..kept,
         cut <= all, kept = all - cut, kept <= keep
  PROVE  /\ keep - kept + j \in 1..keep /\ all - keep + (keep - kept + j) = cut + j
         /\ j \in 1..(all - cut)
  OBVIOUS

\* The part of some bytes that is held is within the window, and the end of a
\* beginning of a needle.
LEMMA HoldIs ==
  ASSUME NEW c \in Seq(Bytes), NEW pairs, GoodPairs(pairs), NEW m,
         m = NeedleSafeEmitLen(c, pairs, MaxTailSize(pairs))
  PROVE  /\ m \in 0..Len(c) /\ Rest(c, m) \in Seq(Bytes) /\ Len(Rest(c, m)) <= MaxTailSize(pairs)
         /\ Rest(c, m) # <<>> =>
              \E i \in DOMAIN pairs : \E k \in 1..(Len(pairs[i].needle) - 1) :
                 IsSuffix(Rest(c, m), SubSeq(pairs[i].needle, 1, k))
<1> DEFINE bound == MaxTailSize(pairs)
           keep == NeedlePrefixSuffixLen(c, pairs, bound)
           h == Rest(c, m)
<1>1. bound \in Nat /\ c \in Seq(Nat) /\ Len(c) \in Nat
  BY TailSizeIs, BytesAreNat
<1>2. m = NeedleSafeEmitLen(c, pairs, bound)
  OBVIOUS
<1> HIDE DEF bound
<1>3. m \in 0..Len(c) /\ Len(c) - m <= bound
  BY <1>1, <1>2, HeldFits
<1>4. h \in Seq(Bytes) /\ Len(h) = Len(c) - m /\ \A i \in 1..(Len(c) - m) : h[i] = c[m + i]
  BY <1>3, CutIs
<1>5. h \in Seq(Nat)
  BY <1>4, BytesAreNat
<1>6. ASSUME h # <<>>
      PROVE  \E i \in DOMAIN pairs : \E k \in 1..(Len(pairs[i].needle) - 1) :
                IsSuffix(h, SubSeq(pairs[i].needle, 1, k))
  <2> HIDE DEF h
  <2>1. Len(h) \in Nat \ {0}
    BY <1>4, <1>6, EmptySeq
  <2>2. /\ keep \in 0..bound /\ keep <= Len(c)
        /\ keep = 0 \/ Grows(c, pairs, bound, keep)
    BY <1>1, KeepIs
  <2>3. Len(c) - keep <= m
    BY <1>1, <1>2, EmitIs
  <2> HIDE DEF keep
  <2>4. keep \in Nat /\ keep # 0 /\ Len(h) <= keep
    BY <1>1, <1>3, <1>4, <2>1, <2>2, <2>3
  <2>5. PICK i \in DOMAIN pairs :
          /\ Len(pairs[i].needle) > keep
          /\ SubSeq(pairs[i].needle, 1, keep) = SubSeq(c, Len(c) - keep + 1, Len(c))
    BY <2>2, <2>4 DEF Grows
  <2> DEFINE v == SubSeq(c, Len(c) - keep + 1, Len(c))
  <2>6. /\ v \in Seq(Nat) /\ Len(v) = Len(c) - (Len(c) - keep + 1) + 1
        /\ \A j \in 1..(Len(c) - (Len(c) - keep + 1) + 1) : v[j] = c[Len(c) - keep + 1 + j - 1]
    <3>1. Len(c) - keep + 1 \in Nat \ {0} /\ Len(c) - keep + 1 <= Len(c) + 1 /\ Len(c) <= Len(c)
      BY <1>1, <2>2, <2>4
    <3>2. QED
      BY <1>1, <3>1, SubIs
  <2> HIDE DEF v
  <2>7. Len(v) = keep /\ \A j \in 1..keep : v[j] = c[Len(c) - keep + j]
    <3>1. Len(c) - (Len(c) - keep + 1) + 1 = keep
      BY <1>1, <2>4
    <3>2. \A j \in 1..keep : Len(c) - keep + 1 + j - 1 = Len(c) - keep + j
      BY <1>1, <2>4
    <3>3. QED
      BY <2>6, <3>1, <3>2
  <2>8. ASSUME NEW j \in 1..Len(h) PROVE h[j] = v[Len(v) - Len(h) + j]
    <3>1. /\ keep - Len(h) + j \in 1..keep /\ Len(c) - keep + (keep - Len(h) + j) = m + j
          /\ j \in 1..(Len(c) - m)
      <4>1. /\ Len(c) \in Nat /\ m \in Nat /\ m <= Len(c) /\ Len(h) \in Nat /\ j \in 1..Len(h)
            /\ Len(h) = Len(c) - m /\ keep \in Nat /\ Len(h) <= keep
        BY <1>1, <1>3, <1>4, <2>1, <2>4
      <4>2. QED
        BY <4>1, CountBack, SMTT(30)
    <3>2. v[keep - Len(h) + j] = c[Len(c) - keep + (keep - Len(h) + j)]
      BY <2>7, <3>1
    <3>3. QED
      BY <1>4, <2>7, <3>1, <3>2 DEF h
  <2>9. IsSuffix(h, v)
    BY <1>5, <2>4, <2>6, <2>7, <2>8, SuffixIs
  <2>10. keep \in 1..(Len(pairs[i].needle) - 1)
    <3>1. Len(pairs[i].needle) \in Nat
      BY PairIs
    <3>2. QED
      BY <2>4, <2>5, <3>1
  <2>11. IsSuffix(h, SubSeq(pairs[i].needle, 1, keep))
    BY <2>5, <2>9 DEF v
  <2>12. QED
    BY <2>10, <2>11
<1>7. Len(h) <= bound
  BY <1>3, <1>4
<1>8. QED
  BY <1>3, <1>4, <1>6, <1>7 DEF bound

\* What the raw wire holds is within its window.
LEMMA FeedFits ==
  ASSUME NEW pairs, GoodPairs(pairs), NEW h \in Seq(Bytes), NEW d \in Seq(Bytes)
  PROVE  /\ RawFeed(pairs, h, d).held \in Seq(Bytes)
         /\ Len(RawFeed(pairs, h, d).held) <= MaxTailSize(pairs)
<1>1. MaxTailSize(pairs) \in Nat /\ <<>> \in Seq(Bytes) /\ Len(<<>>) = 0
  BY TailSizeIs, EmptySeq
<1>2. CASE d = <<>>
  BY <1>1, <1>2 DEF RawFeed
<1>3. CASE d # <<>> /\ Hit(pairs, h, d)
  <2> DEFINE c == h \o d
             m == NeedleSafeEmitLen(c, pairs, MaxTailSize(pairs))
  <2>1. c \in Seq(Bytes)
    BY ConcatProperties
  <2>2. RawFeed(pairs, h, d).held = Rest(c, m)
    BY <1>3 DEF RawFeed, FeedHit
  <2> HIDE DEF c
  <2>3. Rest(c, m) \in Seq(Bytes) /\ Len(Rest(c, m)) <= MaxTailSize(pairs)
    BY <2>1, HoldIs
  <2>4. QED
    BY <2>2, <2>3
<1>4. CASE d # <<>> /\ ~Hit(pairs, h, d)
  <2> DEFINE w == Prefix(d, Min({MaxTailSize(pairs), Len(d)}))
             probed == IF h = <<>> THEN d ELSE h \o w
             hold == NeedlePrefixSuffixLen(probed, pairs, MaxTailSize(pairs))
             emitLen == IF Len(d) > hold THEN Len(d) - hold ELSE 0
  <2>1. RawFeed(pairs, h, d).held = IF hold > 0 THEN Rest(d, emitLen) ELSE <<>>
    BY <1>4 DEF RawFeed, FeedMiss, ProbeWindow
  <2>2. Len(d) \in Nat
    OBVIOUS
  <2>3. w \in Seq(Bytes)
    <3> DEFINE k == Min({MaxTailSize(pairs), Len(d)})
    <3>1. k \in 0..Len(d)
      BY <1>1, <2>2, MinIs
    <3> HIDE DEF k
    <3>2. QED
      BY <3>1, CutIs DEF k
  <2> HIDE DEF w
  <2>4. h \o w \in Seq(Bytes)
    BY <2>3, ConcatProperties
  <2>5. probed \in Seq(Nat)
    BY <2>4, BytesAreNat
  <2> HIDE DEF probed
  <2>6. hold \in 0..MaxTailSize(pairs)
    BY <1>1, <2>5, KeepIs
  <2> HIDE DEF hold
  <2>7. emitLen \in 0..Len(d) /\ Len(d) - emitLen <= hold
    BY <1>1, <2>2, <2>6
  <2> HIDE DEF emitLen
  <2>8. Rest(d, emitLen) \in Seq(Bytes) /\ Len(Rest(d, emitLen)) = Len(d) - emitLen
    BY <2>7, CutIs
  <2>9. Len(Rest(d, emitLen)) <= MaxTailSize(pairs)
    BY <1>1, <2>2, <2>6, <2>7, <2>8
  <2>10. QED
    BY <1>1, <2>1, <2>8, <2>9
<1>5. QED
  BY <1>2, <1>3, <1>4

\* What scan keeps for the next arrival: its last bytes, as many as fit.
LEMMA NextTailIs ==
  ASSUME NEW d \in Seq(Bytes)
  PROVE  /\ NextTail(d) \in Seq(Bytes) /\ Len(NextTail(d)) <= TailSize
         /\ Len(NextTail(d)) <= Len(d) /\ (Len(d) >= TailSize => Len(NextTail(d)) = TailSize)
         /\ \A i \in 1..Len(NextTail(d)) : NextTail(d)[i] = d[Len(d) - Len(NextTail(d)) + i]
<1> DEFINE keep == Min({TailSize, Len(d)})
<1>1. Len(d) \in Nat /\ TailSize \in Nat
  BY PairsAre
<1>2. keep = IF TailSize <= Len(d) THEN TailSize ELSE Len(d)
  BY <1>1, MinIs
<1>3. NextTail(d) = Rest(d, Len(d) - keep)
  BY DEF NextTail
<1> HIDE DEF keep
<1>4. Len(d) - keep \in 0..Len(d) /\ Len(d) - (Len(d) - keep) = keep
  BY <1>1, <1>2
<1>5. /\ NextTail(d) \in Seq(Bytes) /\ Len(NextTail(d)) = Len(d) - (Len(d) - keep)
      /\ \A i \in 1..(Len(d) - (Len(d) - keep)) : NextTail(d)[i] = d[Len(d) - keep + i]
  BY <1>3, <1>4, CutIs, ZenonT(30)
<1>6. Len(NextTail(d)) = keep
  BY <1>4, <1>5
<1>7. \A i \in 1..Len(NextTail(d)) : NextTail(d)[i] = d[Len(d) - Len(NextTail(d)) + i]
  BY <1>4, <1>5, <1>6
<1>8. Len(NextTail(d)) <= TailSize /\ Len(NextTail(d)) <= Len(d) /\ (Len(d) >= TailSize => Len(NextTail(d)) = TailSize)
  BY <1>1, <1>2, <1>6
<1>9. QED
  BY <1>5, <1>7, <1>8

-----------------------------------------------------------------------------
(* The bounds on what is held, with any pairs.                             *)

(* The types, the bounds, and what is held.                                *)
Bounded == TypeOK /\ HeldMayGrow

\* At the start nothing is held.
LEMMA BoundedInit == Init => Bounded
<1>1. SUFFICES ASSUME Init PROVE Bounded
  OBVIOUS
<1>2. <<>> \in Seq(Bytes) /\ Len(<<>>) = 0
  BY EmptySeq
<1>3. TypeOK
  <2>1. 0 <= TailSize /\ 0 <= MaxTailSize(EqualPairs)
    BY PairsAre
  <2>2. QED
    BY <1>1, <1>2, <2>1 DEF Init, TypeOK
<1>4. HeldMayGrow
  BY <1>1 DEF Init, HeldMayGrow
<1>5. QED
  BY <1>3, <1>4 DEF Bounded

\* Every step keeps the bounds.
LEMMA BoundedKept == Bounded /\ [Next]_vars => Bounded'
<1>1. SUFFICES ASSUME Bounded, [Next]_vars PROVE Bounded'
  OBVIOUS
<1>2. /\ stream \in Seq(Bytes) /\ eof \in BOOLEAN
      /\ held \in Seq(Bytes) /\ Len(held) <= TailSize
      /\ tail \in Seq(Bytes) /\ Len(tail) <= TailSize /\ hits \subseteq DOMAIN Pairs
      /\ rawHeld \in Seq(Bytes) /\ Len(rawHeld) <= MaxTailSize(EqualPairs)
  BY <1>1 DEF Bounded, TypeOK
<1>3. CASE Arrive
  <2>1. PICK data \in SeqOf(Bytes, MaxArrival) \ {<<>>} :
          /\ stream' = stream \o data
          /\ SwapRegion(data, FALSE) /\ ScanWithTail(data) /\ Feed(data)
    BY <1>3 DEF Arrive
  <2>2. ~eof /\ eof' = eof
    BY <1>3 DEF Arrive
  <2>3. data \in Seq(Bytes)
    BY ArrivalIs
  <2> DEFINE c == held \o data
             m == NeedleSafeEmitLen(c, Pairs, TailSize)
  <2>4. c \in Seq(Bytes) /\ stream \o data \in Seq(Bytes)
    BY <1>2, <2>3, ConcatProperties
  <2>5. held' = Rest(c, m)
    BY <2>1 DEF SwapRegion
  <2> HIDE DEF c
  <2>6. /\ Rest(c, m) \in Seq(Bytes) /\ Len(Rest(c, m)) <= TailSize
        /\ Rest(c, m) # <<>> =>
             \E i \in DOMAIN Pairs : \E k \in 1..(Len(Pairs[i].needle) - 1) :
                IsSuffix(Rest(c, m), SubSeq(Pairs[i].needle, 1, k))
    BY <2>4, PairsAre, HoldIs DEF TailSize
  <2> HIDE DEF m
  <2>7. tail' \in Seq(Bytes) /\ Len(tail') <= TailSize
    BY <2>1, <2>3, NextTailIs DEF ScanWithTail
  <2>8. hits' \subseteq DOMAIN Pairs
    BY <1>2, <2>1 DEF ScanWithTail, NewHits
  <2>9. rawHeld' \in Seq(Bytes) /\ Len(rawHeld') <= MaxTailSize(EqualPairs)
    <3>1. rawHeld' = RawFeed(EqualPairs, rawHeld, data).held
      BY <2>1 DEF Feed
    <3>2. QED
      BY <1>2, <2>3, <3>1, PairsAre, FeedFits
  <2>10. TypeOK'
    BY <1>2, <2>1, <2>2, <2>4, <2>5, <2>6, <2>7, <2>8, <2>9 DEF TypeOK
  <2>11. HeldMayGrow'
    BY <2>2, <2>5, <2>6 DEF HeldMayGrow
  <2>12. QED
    BY <2>10, <2>11 DEF Bounded
<1>4. CASE End
  <2>1. /\ eof' = TRUE /\ SwapRegion(<<>>, TRUE) /\ Feed(<<>>)
        /\ UNCHANGED <<stream, tail, hits, shortest>>
    BY <1>4 DEF End
  <2>2. held' = <<>>
    <3> DEFINE c == held \o <<>>
    <3>1. c \in Seq(Bytes)
      BY <1>2, ConcatEmptySeq
    <3>2. held' = Rest(c, Len(c))
      BY <2>1 DEF SwapRegion
    <3> HIDE DEF c
    <3>3. Len(c) \in 0..Len(c) /\ Len(c) \in Nat
      BY <3>1
    <3>4. Rest(c, Len(c)) \in Seq(Bytes) /\ Len(Rest(c, Len(c))) = Len(c) - Len(c)
      BY <3>1, <3>3, CutIs
    <3>5. QED
      BY <3>2, <3>3, <3>4, EmptySeq
  <2>3. rawHeld' \in Seq(Bytes) /\ Len(rawHeld') <= MaxTailSize(EqualPairs)
    <3>1. rawHeld' = RawFeed(EqualPairs, rawHeld, <<>>).held
      BY <2>1 DEF Feed
    <3>2. <<>> \in Seq(Bytes)
      OBVIOUS
    <3>3. QED
      BY <1>2, <3>1, <3>2, PairsAre, FeedFits
  <2>4. <<>> \in Seq(Bytes) /\ Len(<<>>) = 0 /\ TailSize \in Nat
    BY PairsAre
  <2>5. TypeOK'
    BY <1>2, <2>1, <2>2, <2>3, <2>4 DEF TypeOK
  <2>6. HeldMayGrow'
    BY <2>2 DEF HeldMayGrow
  <2>7. QED
    BY <2>5, <2>6 DEF Bounded
<1>5. CASE UNCHANGED vars
  BY <1>1, <1>5 DEF vars, Bounded, TypeOK, HeldMayGrow
<1>6. QED
  BY <1>1, <1>3, <1>4, <1>5 DEF Next, Ended

\* However many pairs there are and however the stream is cut, swap_region, the
\* scan and the raw wire hold no more than the longest needle less one;
\* swap_region holds only the end of the beginning of a needle, and nothing once
\* the stream has ended.
THEOREM WindowsBounded == Spec => [](TypeOK /\ HeldMayGrow)
<1>1. Init => Bounded
  BY BoundedInit
<1>2. Bounded /\ [Next]_vars => Bounded'
  BY BoundedKept
<1>3. Bounded => TypeOK /\ HeldMayGrow
  BY DEF Bounded
<1>4. QED
  BY <1>1, <1>2, <1>3, PTL DEF Spec

-----------------------------------------------------------------------------
(* scan_with_tail reports what is there, with any pairs.                   *)

(* One sequence is a part of another, from a position on.                  *)
Part(g, h, o) == o + Len(g) <= Len(h) /\ \A k \in 1..Len(g) : g[k] = h[o + k]

\* A match in a part is one in the whole.
LEMMA PartMatch ==
  ASSUME NEW h \in Seq(Nat), NEW n \in Seq(Nat), NEW g \in Seq(Nat), NEW o \in Nat, Part(g, h, o),
         NEW i \in Nat \ {0}, i + Len(n) - 1 <= Len(g)
  PROVE  MatchAt(g, n, i) <=> MatchAt(h, n, o + i)
BY MatchShifts DEF Part

\* The two parts of a concatenation.
LEMMA CatParts ==
  ASSUME NEW s \in Seq(Nat), NEW d \in Seq(Nat)
  PROVE  /\ s \o d \in Seq(Nat) /\ Len(s \o d) = Len(s) + Len(d)
         /\ Part(s, s \o d, 0) /\ Part(d, s \o d, Len(s))
<1>1. /\ s \o d \in Seq(Nat) /\ Len(s \o d) = Len(s) + Len(d)
      /\ \A i \in 1..(Len(s) + Len(d)) : (s \o d)[i] = IF i <= Len(s) THEN s[i] ELSE d[i - Len(s)]
  BY ConcatProperties
<1>2. Len(s) \in Nat /\ Len(d) \in Nat
  OBVIOUS
<1>3. Part(s, s \o d, 0)
  BY <1>1, <1>2 DEF Part
<1>4. ASSUME NEW k \in 1..Len(d) PROVE d[k] = (s \o d)[Len(s) + k]
  <2>1. Len(s) + k \in 1..(Len(s) + Len(d)) /\ ~(Len(s) + k <= Len(s)) /\ Len(s) + k - Len(s) = k
    BY <1>2
  <2>2. QED
    BY <1>1, <2>1
<1>5. Len(s) + Len(d) <= Len(s \o d)
  BY <1>1, <1>2
<1>6. Part(d, s \o d, Len(s))
  BY <1>4, <1>5 DEF Part
<1>7. QED
  BY <1>1, <1>3, <1>6

(* The window over the tail and the first bytes of the arrival.            *)
WindowOf(t, d, z) == t \o Prefix(d, z)

\* The window over the tail and the beginning of the arrival is a part of the
\* stream.
LEMMA WindowIs ==
  ASSUME NEW s \in Seq(Nat), NEW t \in Seq(Nat), NEW d \in Seq(Nat), NEW z \in 0..Len(d),
         NEW o \in Nat, Len(s) = o + Len(t), Part(t, s, o)
  PROVE  /\ WindowOf(t, d, z) \in Seq(Nat) /\ Len(WindowOf(t, d, z)) = Len(t) + z
         /\ Part(WindowOf(t, d, z), s \o d, o)
<1> DEFINE p == Prefix(d, z)
           w == t \o p
           h == s \o d
<1>1. Len(s) \in Nat /\ Len(t) \in Nat /\ Len(d) \in Nat /\ z \in Nat
  OBVIOUS
<1>2. p \in Seq(Nat) /\ Len(p) = z /\ \A i \in 1..z : p[i] = d[i]
  BY CutIs
<1>3. Len(h) = Len(s) + Len(d) /\ Part(s, h, 0) /\ Part(d, h, Len(s))
  BY CatParts
<1> HIDE DEF p
<1>4. w \in Seq(Nat) /\ Len(w) = Len(t) + Len(p) /\ Part(t, w, 0) /\ Part(p, w, Len(t))
  BY <1>2, CatParts
<1> HIDE DEF w, h
<1>5. Len(w) = Len(t) + z
  BY <1>2, <1>4
<1>6. ASSUME NEW k \in 1..Len(w) PROVE w[k] = h[o + k]
  <2>1. CASE k \in 1..Len(t)
    <3>1. w[0 + k] = t[k] /\ t[k] = s[o + k]
      BY <1>4, <2>1 DEF Part
    <3>2. o + k \in 1..Len(s) /\ 0 + k = k /\ 0 + (o + k) = o + k
      BY <1>1, <2>1
    <3>3. s[o + k] = h[0 + (o + k)]
      BY <1>3, <3>2 DEF Part
    <3>4. QED
      BY <3>1, <3>2, <3>3
  <2>2. CASE k > Len(t)
    <3>1. /\ k - Len(t) \in 1..Len(p) /\ k - Len(t) \in 1..z /\ k - Len(t) \in 1..Len(d)
          /\ Len(t) + (k - Len(t)) = k /\ Len(s) + (k - Len(t)) = o + k
      BY <1>1, <1>2, <1>5, <2>2
    <3>2. p[k - Len(t)] = w[Len(t) + (k - Len(t))]
      BY <1>4, <3>1 DEF Part
    <3>3. d[k - Len(t)] = h[Len(s) + (k - Len(t))]
      BY <1>3, <3>1 DEF Part
    <3>4. p[k - Len(t)] = d[k - Len(t)]
      BY <1>2, <3>1
    <3>5. QED
      BY <3>1, <3>2, <3>3, <3>4
  <2>3. k \in 1..Len(t) \/ k > Len(t)
    BY <1>1, <1>5
  <2>4. QED
    BY <2>1, <2>2, <2>3, Zenon
<1>7. o + Len(w) <= Len(h)
  BY <1>1, <1>3, <1>5
<1>8. Part(w, h, o)
  BY <1>6, <1>7 DEF Part
<1>9. QED
  BY <1>4, <1>5, <1>8 DEF w, h, p, WindowOf

\* What is seen in the arrival and in the window is in the stream, and all of
\* it is seen when the tail is as long as it may be.
LEMMA ScanSees ==
  ASSUME NEW h \in Seq(Nat), NEW s \in Seq(Nat), NEW d \in Seq(Nat), NEW w \in Seq(Nat),
         NEW n \in Seq(Nat), Len(n) \in Nat \ {0}, NEW size \in Nat, Len(n) - 1 <= size,
         NEW o \in Nat, NEW a \in Nat, Len(s) = o + a, Len(h) = Len(s) + Len(d),
         Len(w) = a + (IF size <= Len(d) THEN size ELSE Len(d)),
         Part(s, h, 0), Part(d, h, Len(s)), Part(w, h, o)
  PROVE  /\ Occurs(s, n) => Occurs(h, n)
         /\ FindNewMatch(d, n, 0) => Occurs(h, n)
         /\ FindCrossing(w, n, a) => Occurs(h, n)
         /\ Occurs(h, n) /\ (Len(s) = 0 \/ a = size) =>
              \/ Occurs(s, n)
              \/ FindNewMatch(d, n, 0)
              \/ a # 0 /\ FindCrossing(w, n, a)
<1> DEFINE lh == Len(h)
           ls == Len(s)
           ld == Len(d)
           lw == Len(w)
           ln == Len(n)
<1>1. /\ lh \in Nat /\ ls \in Nat /\ ld \in Nat /\ lw \in Nat /\ ln \in Nat \ {0}
      /\ ls = o + a /\ lh = ls + ld /\ ln - 1 <= size
      /\ (size <= ld => lw = a + size) /\ (size > ld => lw = a + ld)
  OBVIOUS
<1>2. ASSUME NEW j \in Nat \ {0}, j + ln - 1 <= ls PROVE MatchAt(s, n, j) <=> MatchAt(h, n, j)
  <2>1. MatchAt(s, n, j) <=> MatchAt(h, n, 0 + j)
    BY <1>2, PartMatch
  <2>2. QED
    BY <2>1
<1>3. ASSUME NEW j \in Nat \ {0}, j + ln - 1 <= ld PROVE MatchAt(d, n, j) <=> MatchAt(h, n, ls + j)
  BY <1>1, <1>3, PartMatch
<1>4. ASSUME NEW j \in Nat \ {0}, j + ln - 1 <= lw PROVE MatchAt(w, n, j) <=> MatchAt(h, n, o + j)
  BY <1>4, PartMatch
<1>5. /\ \A j : MatchAt(s, n, j) => j + ln - 1 <= ls
      /\ \A j : MatchAt(d, n, j) => j + ln - 1 <= ld
      /\ \A j : MatchAt(w, n, j) => j + ln - 1 <= lw
      /\ \A j : MatchAt(h, n, j) => j + ln - 1 <= lh
  BY DEF MatchAt
<1>6. /\ Occurs(s, n) <=> \E j \in 1..ls : MatchAt(s, n, j)
      /\ Occurs(h, n) <=> \E j \in 1..lh : MatchAt(h, n, j)
      /\ FindNewMatch(d, n, 0) <=> \E j \in 1..ld : MatchAt(d, n, j) /\ j + ln - 1 > 0
  BY DEF Occurs, FindNewMatch
<1> HIDE DEF lh, ls, ld, lw, ln
<1>7. ASSUME Occurs(s, n) PROVE Occurs(h, n)
  <2>1. PICK j \in 1..ls : MatchAt(s, n, j)
    BY <1>6, <1>7
  <2>2. j \in Nat \ {0} /\ j + ln - 1 <= ls /\ j \in 1..lh
    BY <1>1, <1>5, <2>1
  <2>3. QED
    BY <1>2, <1>6, <2>1, <2>2
<1>8. ASSUME FindNewMatch(d, n, 0) PROVE Occurs(h, n)
  <2>1. PICK j \in 1..ld : MatchAt(d, n, j)
    BY <1>6, <1>8
  <2>2. j \in Nat \ {0} /\ j + ln - 1 <= ld /\ ls + j \in 1..lh
    BY <1>1, <1>5, <2>1
  <2>3. QED
    BY <1>3, <1>6, <2>1, <2>2
<1>9. ASSUME FindCrossing(w, n, a) PROVE Occurs(h, n)
  <2>1. PICK j \in 1..a : MatchAt(w, n, j)
    BY <1>9 DEF FindCrossing
  <2>2. j \in Nat \ {0} /\ j + ln - 1 <= lw /\ o + j \in 1..lh
    BY <1>1, <1>5, <2>1
  <2>3. QED
    BY <1>4, <1>6, <2>1, <2>2
<1>10. ASSUME Occurs(h, n), ls = 0 \/ a = size
       PROVE  \/ Occurs(s, n)
              \/ FindNewMatch(d, n, 0)
              \/ a # 0 /\ FindCrossing(w, n, a)
  <2>1. PICK j \in 1..lh : MatchAt(h, n, j)
    BY <1>6, <1>10
  <2>2. j \in Nat \ {0} /\ j + ln - 1 <= lh
    BY <1>5, <2>1
  <2>3. CASE j + ln - 1 <= ls
    <3>1. j \in 1..ls
      BY <1>1, <2>2, <2>3
    <3>2. QED
      BY <1>2, <1>6, <2>1, <2>2, <2>3, <3>1
  <2>4. CASE j > ls
    <3>1. j - ls \in Nat \ {0} /\ j - ls + ln - 1 <= ld /\ ls + (j - ls) = j
      BY <1>1, <2>2, <2>4
    <3>2. MatchAt(d, n, j - ls)
      BY <1>3, <2>1, <3>1
    <3>3. j - ls \in 1..ld /\ j - ls + ln - 1 > 0
      BY <1>1, <3>1
    <3>4. QED
      BY <1>6, <3>2, <3>3
  <2>5. CASE j <= ls /\ j + ln - 1 > ls
    <3>1. a = size
      BY <1>1, <1>10, <2>2, <2>5
    <3>2. j - o \in Nat \ {0} /\ j - o \in 1..a /\ o + (j - o) = j /\ a # 0
      <4>1. ln - 1 <= a /\ j <= o + a /\ j + ln - 1 > o + a
        BY <1>1, <2>5, <3>1
      <4>2. j > o
        BY <1>1, <2>2, <4>1
      <4>3. QED
        BY <2>2, <4>1, <4>2
    <3>3. j - o + ln - 1 <= lw
      <4>1. /\ j \in Nat /\ o \in Nat /\ a \in Nat /\ size \in Nat /\ ln \in Nat
            /\ lw \in Nat /\ ld \in Nat
        BY <1>1, <2>2
      <4>2. j <= o + a /\ ln - 1 <= size /\ j + ln - 1 <= o + a + ld
        BY <1>1, <2>2, <2>5
      <4>3. CASE lw = a + size
        BY <4>1, <4>2, <4>3
      <4>4. CASE lw = a + ld
        BY <4>1, <4>2, <4>4
      <4>5. lw = a + size \/ lw = a + ld
        <5>1. size <= ld \/ size > ld
          BY <4>1
        <5>2. QED
          BY <1>1, <5>1
      <4>6. QED
        BY <4>3, <4>4, <4>5, Zenon
    <3>4. MatchAt(w, n, j - o)
      BY <1>4, <2>1, <3>2, <3>3
    <3>5. QED
      BY <3>2, <3>4 DEF FindCrossing
  <2>6. \/ j + ln - 1 <= ls
        \/ j > ls
        \/ j <= ls /\ j + ln - 1 > ls
    BY <1>1, <2>2
  <2>7. QED
    BY <2>3, <2>4, <2>5, <2>6, Zenon
<1>11. QED
  BY <1>7, <1>8, <1>9, <1>10 DEF ls

(* The tail is the end of the stream, as long as it may be when every      *)
(* arrival was that long.                                                  *)
TailInv ==
  /\ shortest \in Nat
  /\ Len(tail) <= Len(stream)
  /\ \A i \in 1..Len(tail) : tail[i] = stream[Len(stream) - Len(tail) + i]
  /\ stream # <<>> /\ shortest >= TailSize => Len(tail) = TailSize

(* The inductive invariant of the scan.                                    *)
ScanInv == Bounded /\ TailInv /\ ScanExact

\* At the start there is nothing to report.
LEMMA ScanInit == Init => ScanInv
<1>1. SUFFICES ASSUME Init PROVE ScanInv
  OBVIOUS
<1>2. Bounded
  BY <1>1, BoundedInit
<1>3. stream = <<>> /\ tail = <<>> /\ hits = {} /\ shortest = MaxStream /\ Len(<<>>) = 0
  BY <1>1 DEF Init
<1>4. TailInv
  <2>1. \A i \in 1..0 : FALSE
    OBVIOUS
  <2>2. QED
    BY <1>3, <2>1, BoundsAssumption DEF TailInv
<1>5. ScanExact
  <2>1. \A n : ~Occurs(<<>>, n)
    BY DEF Occurs
  <2>2. QED
    BY <1>3, <2>1 DEF ScanExact, ScanSound, ScanComplete
<1>6. QED
  BY <1>2, <1>4, <1>5 DEF ScanInv

\* An arrival is scanned together with the tail of the stream.
LEMMA ScanArrives ==
  ASSUME ScanInv, Arrive, Bounded'
  PROVE  ScanInv'
<1>1. PICK data \in SeqOf(Bytes, MaxArrival) \ {<<>>} :
        /\ stream' = stream \o data
        /\ shortest' = Min({shortest, Len(data)})
        /\ ScanWithTail(data)
  BY DEF Arrive
<1>2. /\ data \in Seq(Bytes) /\ Len(data) \in Nat \ {0} /\ data \in Seq(Nat)
      /\ stream \in Seq(Bytes) /\ stream \in Seq(Nat) /\ Len(stream) \in Nat
      /\ tail \in Seq(Bytes) /\ tail \in Seq(Nat) /\ Len(tail) \in Nat
      /\ hits \subseteq DOMAIN Pairs /\ TailSize \in Nat
  BY ArrivalIs, BytesAreNat, PairsAre DEF ScanInv, Bounded, TypeOK
<1>3. /\ shortest \in Nat /\ Len(tail) <= Len(stream)
      /\ \A i \in 1..Len(tail) : tail[i] = stream[Len(stream) - Len(tail) + i]
      /\ stream # <<>> /\ shortest >= TailSize => Len(tail) = TailSize
  BY DEF ScanInv, TailInv
<1>4. /\ shortest' \in Nat /\ shortest' <= shortest /\ shortest' <= Len(data)
  <2>1. Min({shortest, Len(data)}) = IF shortest <= Len(data) THEN shortest ELSE Len(data)
    BY <1>2, <1>3, MinIs
  <2>2. QED
    BY <1>1, <1>2, <1>3, <2>1
<1>5. tail' = NextTail(data) /\ hits' = hits \cup NewHits(data)
  BY <1>1 DEF ScanWithTail
<1>6. /\ stream' \in Seq(Bytes) /\ Len(stream') = Len(stream) + Len(data)
      /\ \A i \in 1..(Len(stream) + Len(data)) :
           stream'[i] = IF i <= Len(stream) THEN stream[i] ELSE data[i - Len(stream)]
  BY <1>1, <1>2, ConcatProperties
<1>7. /\ tail' \in Seq(Bytes) /\ Len(tail') <= Len(data) /\ (Len(data) >= TailSize => Len(tail') = TailSize)
      /\ Len(tail') \in Nat
      /\ \A i \in 1..Len(tail') : tail'[i] = data[Len(data) - Len(tail') + i]
  <2>1. /\ NextTail(data) \in Seq(Bytes)
        /\ Len(NextTail(data)) <= Len(data) /\ (Len(data) >= TailSize => Len(NextTail(data)) = TailSize)
        /\ \A i \in 1..Len(NextTail(data)) : NextTail(data)[i] = data[Len(data) - Len(NextTail(data)) + i]
    BY <1>2, NextTailIs
  <2>2. Len(NextTail(data)) \in Nat
    BY <2>1
  <2>3. QED
    BY <1>5, <2>1, <2>2
<1>8. TailInv'
  <2>1. Len(tail') <= Len(stream')
    BY <1>2, <1>6, <1>7
  <2>2. ASSUME NEW i \in 1..Len(tail') PROVE tail'[i] = stream'[Len(stream') - Len(tail') + i]
    <3> DEFINE q == Len(stream') - Len(tail') + i
    <3>1. /\ q \in 1..(Len(stream) + Len(data)) /\ ~(q <= Len(stream))
          /\ q - Len(stream) = Len(data) - Len(tail') + i
      BY <1>2, <1>6, <1>7
    <3> HIDE DEF q
    <3>2. stream'[q] = data[q - Len(stream)]
      BY <1>6, <3>1
    <3>3. stream'[q] = tail'[i]
      BY <1>7, <3>1, <3>2
    <3>4. QED
      BY <3>3 DEF q
  <2>3. shortest' >= TailSize => Len(tail') = TailSize
    BY <1>2, <1>4, <1>7
  <2>4. QED
    BY <1>4, <2>1, <2>2, <2>3 DEF TailInv
<1> DEFINE w == tail \o Prefix(data, Min({TailSize, Len(data)}))
           New(i) == FindNewMatch(data, Pairs[i].needle, 0)
           Crosses(i) == tail # <<>> /\ FindCrossing(w, Pairs[i].needle, Len(tail))
<1>9. NewHits(data) = {i \in DOMAIN Pairs : New(i) \/ Crosses(i)}
  BY DEF NewHits
<1>10. ASSUME NEW i \in DOMAIN Pairs
       PROVE  /\ Occurs(stream, Pairs[i].needle) => Occurs(stream', Pairs[i].needle)
              /\ New(i) => Occurs(stream', Pairs[i].needle)
              /\ Crosses(i) => Occurs(stream', Pairs[i].needle)
              /\ Occurs(stream', Pairs[i].needle) /\ (stream = <<>> \/ Len(tail) = TailSize) =>
                   Occurs(stream, Pairs[i].needle) \/ New(i) \/ Crosses(i)
  <2> DEFINE n == Pairs[i].needle
  <2>1. i \in 1..Len(Pairs) /\ GoodPairs(Pairs)
    BY PairsAre
  <2>2. n \in Seq(Nat) /\ n # <<>> /\ Len(n) - 1 <= TailSize
    BY <2>1, PairIs, TailSizeIs DEF TailSize
  <2> HIDE DEF n
  <2> DEFINE z == Min({TailSize, Len(data)})
             o == Len(stream) - Len(tail)
             h == stream \o data
  <2>3. z = (IF TailSize <= Len(data) THEN TailSize ELSE Len(data)) /\ z \in 0..Len(data)
    <3>1. z = IF TailSize <= Len(data) THEN TailSize ELSE Len(data)
      BY <1>2, MinIs
    <3> HIDE DEF z
    <3>2. QED
      BY <1>2, <3>1
  <2> HIDE DEF z
  <2>4. o \in Nat /\ Len(stream) = o + Len(tail)
    BY <1>2, <1>3
  <2>5. Part(tail, stream, o)
    BY <1>2, <1>3, <2>4 DEF Part
  <2> HIDE DEF o
  <2>6. w = tail \o Prefix(data, z)
    BY DEF z
  <2>7. h \in Seq(Nat) /\ Len(h) = Len(stream) + Len(data) /\ Part(stream, h, 0) /\ Part(data, h, Len(stream))
    BY <1>2, CatParts
  <2>8. w \in Seq(Nat) /\ Len(w) = Len(tail) + z /\ Part(w, h, o)
    <3> HIDE DEF w
    <3>a. /\ stream \in Seq(Nat) /\ tail \in Seq(Nat) /\ data \in Seq(Nat) /\ z \in 0..Len(data)
          /\ o \in Nat /\ Len(stream) = o + Len(tail) /\ Part(tail, stream, o)
      BY <1>2, <2>3, <2>4, <2>5
    <3>1. /\ WindowOf(tail, data, z) \in Seq(Nat) /\ Len(WindowOf(tail, data, z)) = Len(tail) + z
          /\ Part(WindowOf(tail, data, z), stream \o data, o)
      BY <3>a, WindowIs, Zenon
    <3>2. QED
      BY <2>6, <3>1 DEF WindowOf
  <2> HIDE DEF h, w
  <2>9. Len(w) = Len(tail) + (IF TailSize <= Len(data) THEN TailSize ELSE Len(data)) /\ Len(n) \in Nat \ {0}
    BY <2>2, <2>3, <2>8, EmptySeq
  <2>10. /\ Occurs(stream, n) => Occurs(h, n)
         /\ FindNewMatch(data, n, 0) => Occurs(h, n)
         /\ FindCrossing(w, n, Len(tail)) => Occurs(h, n)
         /\ Occurs(h, n) /\ (Len(stream) = 0 \/ Len(tail) = TailSize) =>
              \/ Occurs(stream, n)
              \/ FindNewMatch(data, n, 0)
              \/ Len(tail) # 0 /\ FindCrossing(w, n, Len(tail))
    BY <1>2, <2>2, <2>4, <2>7, <2>8, <2>9, ScanSees
  <2>11. (stream = <<>> => Len(stream) = 0) /\ (tail = <<>> => Len(tail) = 0)
    OBVIOUS
  <2>12. h = stream'
    BY <1>1 DEF h
  <2>13. QED
    BY <2>10, <2>11, <2>12, Zenon DEF n
<1> HIDE DEF New, Crosses
<1>11. ScanSound'
  <2>1. \A i \in hits : Occurs(stream, Pairs[i].needle)
    BY DEF ScanInv, ScanExact, ScanSound
  <2>2. ASSUME NEW i \in hits' PROVE Occurs(stream', Pairs[i].needle)
    <3>1. i \in DOMAIN Pairs /\ (i \in hits \/ New(i) \/ Crosses(i))
      BY <1>2, <1>5, <1>9
    <3>2. QED
      BY <1>10, <2>1, <3>1
  <2>3. QED
    BY <2>2 DEF ScanSound
<1>12. ScanComplete'
  <2>1. SUFFICES ASSUME shortest' >= TailSize, NEW i \in DOMAIN Pairs, Occurs(stream', Pairs[i].needle)
        PROVE  i \in hits'
    BY DEF ScanComplete, TailSize, MaxTailSize
  <2>2. shortest >= TailSize
    BY <1>2, <1>3, <1>4, <2>1
  <2>3. stream = <<>> \/ Len(tail) = TailSize
    BY <1>3, <2>2
  <2>4. Occurs(stream, Pairs[i].needle) \/ New(i) \/ Crosses(i)
    BY <1>10, <2>1, <2>3
  <2>5. Occurs(stream, Pairs[i].needle) => i \in hits
    BY <2>2 DEF ScanInv, ScanExact, ScanComplete
  <2>6. QED
    BY <1>5, <1>9, <2>4, <2>5
<1>13. QED
  BY <1>8, <1>11, <1>12 DEF ScanInv, ScanExact

\* Every step keeps the invariant of the scan.
LEMMA ScanKept == ScanInv /\ [Next]_vars => ScanInv'
<1>1. SUFFICES ASSUME ScanInv, [Next]_vars PROVE ScanInv'
  OBVIOUS
<1>2. Bounded'
  BY <1>1, BoundedKept DEF ScanInv
<1>3. CASE Arrive
  BY <1>1, <1>2, <1>3, ScanArrives
<1>4. CASE UNCHANGED <<stream, tail, hits, shortest>>
  <2>1. TailInv'
    BY <1>1, <1>4 DEF ScanInv, TailInv
  <2>2. ScanExact'
    BY <1>1, <1>4 DEF ScanInv, ScanExact, ScanSound, ScanComplete
  <2>3. QED
    BY <1>2, <2>1, <2>2 DEF ScanInv
<1>5. QED
  BY <1>1, <1>3, <1>4 DEF Next, End, Ended, vars

\* However the stream is cut into arrivals, scan_with_tail reports only needles
\* that are in it, and every one of them as long as no arrival was shorter than
\* the tail it keeps: for any pairs and any stream.
THEOREM ScanIsExact == Spec => []ScanExact
<1>1. Init => ScanInv
  BY ScanInit
<1>2. ScanInv /\ [Next]_vars => ScanInv'
  BY ScanKept
<1>3. ScanInv => ScanExact
  BY DEF ScanInv
<1>4. QED
  BY <1>1, <1>2, <1>3, PTL DEF Spec

-----------------------------------------------------------------------------
(* The substitutions, with one pair.                                       *)

(* What swap_region emitted flows on into what it holds.                   *)
SwapInv ==
  /\ out \in Seq(Nat)
  /\ ~eof => Flows(stream, out, held, Pairs)
  /\ eof => out = ReplaceIn(stream, Pairs)

(* So does the raw wire, until it drops what it held.                      *)
RawInv ==
  ~forgot =>
    /\ rawOut \in Seq(Nat)
    /\ ~eof => Flows(stream, rawOut, rawHeld, EqualPairs)
    /\ eof => rawHeld = <<>> /\ rawOut = ReplaceIn(stream, EqualPairs)

(* The inductive invariant of the substitutions.                           *)
FaithInv == Bounded /\ SwapInv /\ RawInv

\* With one pair, the raw wire keeps it or has none.
LEMMA PairsAreSingle ==
  ASSUME Len(Pairs) = 1
  PROVE  Single(Pairs) /\ Single(EqualPairs)
<1>1. GoodPairs(Pairs) /\ GoodPairs(EqualPairs)
  BY PairsAre
<1>2. Len(EqualPairs) \in {0, 1}
  BY <1>1, RawPairsAre DEF EqualPairs
<1>3. QED
  BY <1>1, <1>2 DEF Single

\* At the start nothing was emitted and nothing is held.
LEMMA FaithInit ==
  ASSUME Len(Pairs) = 1, Init
  PROVE  FaithInv
<1>1. <<>> \in Seq(Nat)
  OBVIOUS
<1>2. ASSUME NEW pairs, Single(pairs) PROVE Flows(<<>>, <<>>, <<>>, pairs)
  <2>1. ASSUME NEW x \in Seq(Nat)
        PROVE  ReplaceIn(<<>> \o x, pairs) = <<>> \o ReplaceIn(<<>> \o x, pairs)
    <3> DEFINE y == ReplaceIn(<<>> \o x, pairs)
    <3>1. <<>> \o x \in Seq(Nat)
      BY ConcatEmptySeq
    <3>2. y \in Seq(Nat)
      BY <1>2, <3>1, ReplaceType
    <3> HIDE DEF y
    <3>3. y = <<>> \o y
      BY <3>2, ConcatEmptySeq
    <3>4. QED
      BY <3>3 DEF y
  <2>2. QED
    BY <2>1, Zenon DEF Flows
<1>3. SwapInv
  BY <1>1, <1>2, PairsAreSingle DEF SwapInv, Init
<1>4. RawInv
  BY <1>1, <1>2, PairsAreSingle DEF RawInv, Init
<1>5. QED
  BY <1>3, <1>4, BoundedInit DEF FaithInv

\* Every step keeps the flow of swap_region.
LEMMA SwapKept ==
  ASSUME Len(Pairs) = 1, Bounded, SwapInv, [Next]_vars
  PROVE  SwapInv'
<1>1. Single(Pairs)
  BY PairsAreSingle
<1>2. /\ held \in Seq(Bytes) /\ stream \in Seq(Bytes) /\ held \in Seq(Nat) /\ stream \in Seq(Nat)
      /\ out \in Seq(Nat)
  BY BytesAreNat DEF Bounded, TypeOK, SwapInv
<1>3. CASE Arrive
  <2>1. PICK data \in SeqOf(Bytes, MaxArrival) \ {<<>>} :
          stream' = stream \o data /\ SwapRegion(data, FALSE)
    BY <1>3 DEF Arrive
  <2>2. ~eof /\ eof' = eof /\ Flows(stream, out, held, Pairs)
    BY <1>3 DEF Arrive, SwapInv
  <2>3. data \in Seq(Nat)
    BY ArrivalIs, BytesAreNat
  <2> DEFINE m == NeedleSafeEmitLen(held \o data, Pairs, MaxTailSize(Pairs))
  <2>4. out' = out \o ReplaceIn(Prefix(held \o data, m), Pairs) /\ held' = Rest(held \o data, m)
    BY <2>1 DEF SwapRegion, TailSize
  <2>5. /\ out \o ReplaceIn(Prefix(held \o data, m), Pairs) \in Seq(Nat)
        /\ Flows(stream \o data, out \o ReplaceIn(Prefix(held \o data, m), Pairs), Rest(held \o data, m), Pairs)
    BY <1>1, <1>2, <2>2, <2>3, FlowsOn
  <2> HIDE DEF m
  <2>6. out' \in Seq(Nat) /\ Flows(stream', out', held', Pairs)
    BY <2>1, <2>4, <2>5, Zenon
  <2>7. QED
    BY <2>2, <2>6 DEF SwapInv
<1>4. CASE End
  <2>1. ~eof /\ eof' = TRUE /\ stream' = stream /\ SwapRegion(<<>>, TRUE) /\ Flows(stream, out, held, Pairs)
    BY <1>4 DEF End, SwapInv
  <2>2. held \o <<>> = held
    BY <1>2, ConcatEmptySeq
  <2>3. Prefix(held, Len(held)) = held
    BY <1>2, SubSeqFull DEF Prefix
  <2>4. out' = out \o ReplaceIn(Prefix(held \o <<>>, Len(held \o <<>>)), Pairs)
    BY <2>1 DEF SwapRegion
  <2>5. out' = out \o ReplaceIn(held, Pairs)
    BY <2>2, <2>3, <2>4
  <2>6. out \o ReplaceIn(held, Pairs) = ReplaceIn(stream, Pairs)
    BY <1>1, <1>2, <2>1, FlowsNow
  <2>7. ReplaceIn(stream, Pairs) \in Seq(Nat)
    BY <1>1, <1>2, ReplaceType
  <2>8. QED
    BY <2>1, <2>5, <2>6, <2>7 DEF SwapInv
<1>5. CASE UNCHANGED vars
  BY <1>5 DEF vars, SwapInv, Flows
<1>6. QED
  BY <1>3, <1>4, <1>5 DEF Next, Ended

\* Every step keeps the flow of the raw wire, or drops what it held.
LEMMA RawKept ==
  ASSUME Len(Pairs) = 1, Bounded, RawInv, [Next]_vars
  PROVE  RawInv'
<1>1. Single(EqualPairs)
  BY PairsAreSingle
<1>2. /\ rawHeld \in Seq(Bytes) /\ stream \in Seq(Bytes) /\ rawHeld \in Seq(Nat) /\ stream \in Seq(Nat)
      /\ Len(rawHeld) <= MaxTailSize(EqualPairs)
  BY BytesAreNat DEF Bounded, TypeOK
<1>3. SUFFICES ASSUME ~forgot' PROVE RawInv'
  BY DEF RawInv
<1>4. CASE Arrive
  <2>1. PICK data \in SeqOf(Bytes, MaxArrival) \ {<<>>} : stream' = stream \o data /\ Feed(data)
    BY <1>4 DEF Arrive
  <2>2. ~forgot /\ ~Forgets(EqualPairs, rawHeld, data)
    BY <1>3, <2>1 DEF Feed
  <2>3. ~eof /\ eof' = eof /\ rawOut \in Seq(Nat) /\ Flows(stream, rawOut, rawHeld, EqualPairs)
    BY <1>4, <2>2 DEF Arrive, RawInv
  <2>4. data \in Seq(Nat) /\ data # <<>>
    BY ArrivalIs, BytesAreNat
  <2> DEFINE m == NeedleSafeEmitLen(rawHeld \o data, EqualPairs, MaxTailSize(EqualPairs))
             r == RawFeed(EqualPairs, rawHeld, data)
  <2>5. rawOut' = rawOut \o r.out /\ rawHeld' = r.held
    BY <2>1 DEF Feed
  <2>6. r.out = ReplaceIn(Prefix(rawHeld \o data, m), EqualPairs) /\ r.held = Rest(rawHeld \o data, m)
    BY <1>1, <1>2, <2>2, <2>4, FeedIs
  <2>7. /\ rawOut \o ReplaceIn(Prefix(rawHeld \o data, m), EqualPairs) \in Seq(Nat)
        /\ Flows(stream \o data, rawOut \o ReplaceIn(Prefix(rawHeld \o data, m), EqualPairs),
                 Rest(rawHeld \o data, m), EqualPairs)
    BY <1>1, <1>2, <2>3, <2>4, FlowsOn
  <2> HIDE DEF m, r
  <2>8. rawOut' \in Seq(Nat) /\ Flows(stream', rawOut', rawHeld', EqualPairs)
    BY <2>1, <2>5, <2>6, <2>7, Zenon
  <2>9. QED
    BY <2>3, <2>8 DEF RawInv
<1>5. CASE End
  <2>1. ~eof /\ eof' = TRUE /\ stream' = stream /\ Feed(<<>>)
    BY <1>5 DEF End
  <2>2. ~forgot
    BY <1>3, <2>1 DEF Feed
  <2>3. rawOut \in Seq(Nat) /\ Flows(stream, rawOut, rawHeld, EqualPairs)
    BY <2>1, <2>2 DEF RawInv
  <2>4. rawOut' = rawOut \o rawHeld /\ rawHeld' = <<>>
    BY <2>1 DEF Feed, RawFeed
  <2>5. rawOut \o rawHeld = ReplaceIn(stream, EqualPairs)
    BY <1>1, <1>2, <2>3, FlowsNow
  <2>6. ReplaceIn(stream, EqualPairs) \in Seq(Nat)
    BY <1>1, <1>2, ReplaceType
  <2>7. QED
    BY <2>1, <2>4, <2>5, <2>6 DEF RawInv
<1>6. CASE UNCHANGED vars
  BY <1>6 DEF vars, RawInv, Flows
<1>7. QED
  BY <1>4, <1>5, <1>6 DEF Next, Ended

\* What flows on is what the property says.
LEMMA FaithIs ==
  ASSUME Len(Pairs) = 1, FaithInv
  PROVE  Faithful
<1>1. /\ stream \in Seq(Nat) /\ held \in Seq(Nat) /\ Len(held) <= TailSize
      /\ rawHeld \in Seq(Nat) /\ Len(rawHeld) <= MaxTailSize(EqualPairs)
  BY BytesAreNat DEF FaithInv, Bounded, TypeOK
<1>2. Single(Pairs) /\ Single(EqualPairs)
  BY PairsAreSingle
<1>3. StreamFaithful
  <2>1. CASE ~eof
    <3>1. Flows(stream, out, held, Pairs)
      BY <2>1 DEF FaithInv, SwapInv
    <3>2. out \o held = ReplaceIn(stream, Pairs)
      BY <1>1, <1>2, <3>1, FlowsNow DEF TailSize
    <3>3. QED
      BY <3>2 DEF StreamFaithful
  <2>2. CASE eof
    <3>1. held = <<>> /\ out = ReplaceIn(stream, Pairs) /\ out \in Seq(Nat)
      BY <2>2 DEF FaithInv, SwapInv, Bounded, HeldMayGrow
    <3>2. out \o <<>> = out
      BY <3>1, ConcatEmptySeq
    <3>3. QED
      BY <3>1, <3>2 DEF StreamFaithful
  <2>3. QED
    BY <2>1, <2>2
<1>4. RawFaithful
  <2>1. SUFFICES ASSUME ~forgot PROVE rawOut \o rawHeld = ReplaceIn(stream, EqualPairs)
    BY DEF RawFaithful
  <2>2. CASE ~eof
    <3>1. Flows(stream, rawOut, rawHeld, EqualPairs)
      BY <2>1, <2>2 DEF FaithInv, RawInv
    <3>2. QED
      BY <1>1, <1>2, <3>1, FlowsNow
  <2>3. CASE eof
    <3>1. rawHeld = <<>> /\ rawOut = ReplaceIn(stream, EqualPairs) /\ rawOut \in Seq(Nat)
      BY <2>1, <2>3 DEF FaithInv, RawInv
    <3>2. rawOut \o <<>> = rawOut
      BY <3>1, ConcatEmptySeq
    <3>3. QED
      BY <3>1, <3>2
  <2>4. QED
    BY <2>2, <2>3
<1>5. QED
  BY <1>3, <1>4 DEF Faithful, FaithInv, Bounded

\* With one secret to swap, for any needle (one that overlaps itself too), any
\* replacement and any stream cut into any arrivals: what swap_region emitted
\* and holds is together what one substitution of the whole stream gives, within
\* its window, and so for the raw wire until a chunk makes it drop what it held.
THEOREM OnePairFaithful ==
  ASSUME Len(Pairs) = 1
  PROVE  Spec => []Faithful
<1>1. Init => FaithInv
  BY FaithInit
<1>2. FaithInv /\ [Next]_vars => FaithInv'
  BY BoundedKept, SwapKept, RawKept DEF FaithInv
<1>3. FaithInv => Faithful
  BY FaithIs
<1>4. QED
  BY <1>1, <1>2, <1>3, PTL DEF Spec

-----------------------------------------------------------------------------
(* The HTTP/1 wire behind a plugin.                                        *)

CONSTANTS Connections, MaxMessages, MintCap, Fresh, Decoy
VARIABLES conn, msgs, pos, asked, phase, rest, hout, delivered, w

Http == INSTANCE HttpWire WITH out <- hout

Fields == {"state", "headBuf", "rawHeld", "lineBuf", "trailerBuf", "chunkPhase", "dataRemaining",
           "scanTail", "fixedRemaining", "bodyMode", "scanRemaining", "headRequests", "suppressBody",
           "mustClose", "mintHead", "mintBody", "mintRemaining"}

\* A value of struct Http, one that does not frame what it forwards, and one
\* whose framing broke inside this feed.
IsHttp(x) == x = [f \in Fields |-> x[f]]
Off(x)    == \/ x.state \in {"Scan", "Drain", "Opaque"}
             \/ x.state = "Chunked" /\ (x.bodyMode = "ScanOnly" \/ x.chunkPhase = "Broken")
Broke(x)  == x.state = "Chunked" /\ x.chunkPhase = "Broken"

\* With a plugin attached, a machine off its framing has latched or is about to
\* in the same feed, and one that has latched is not fed again.
HookInv ==
  /\ IsHttp(w)
  /\ Http!Hooked /\ phase \in {"idle", "busy"} =>
       /\ w.mustClose \/ ~Off(w) \/ (phase = "busy" /\ Broke(w))
       /\ phase = "idle" => ~w.mustClose

\* y is x as far as the latch goes.
Keeps(x, y) ==
  /\ IsHttp(y)
  /\ y.state = x.state /\ y.bodyMode = x.bodyMode /\ y.chunkPhase = x.chunkPhase
  /\ x.mustClose => y.mustClose

\* fail_closed_on_degrade latches, and changes nothing else.
LEMMA DegradeIs ==
  ASSUME NEW x, IsHttp(x)
  PROVE  Keeps(x, Http!FailClosedOnDegrade(x)) /\ (Http!Hooked => Http!FailClosedOnDegrade(x).mustClose)
  BY DEF IsHttp, Keeps, Fields, Http!FailClosedOnDegrade

\* scan_chunk and the scan of what is forwarded keep the state and the latch.
LEMMA ScanIs ==
  ASSUME NEW x, IsHttp(x), NEW d
  PROVE  Keeps(x, Http!ScanChunk(x, d)) /\ Keeps(x, Http!ForwardScanned(x, d))
<1>1. Keeps(x, Http!ScanChunk(x, d))
  BY DEF IsHttp, Keeps, Fields, Http!ScanChunk
<1>2. ASSUME NEW y, Keeps(x, y), NEW h
      PROVE  Keeps(x, [y EXCEPT !.mustClose = @ \/ h])
  BY <1>2 DEF IsHttp, Keeps, Fields
<1>3. QED
  BY <1>1, <1>2 DEF Http!ForwardScanned

\* A step inside a feed that latches, or that stays on the framing it is on.
LEMMA Inside ==
  ASSUME HookInv, phase = "busy", UNCHANGED <<conn, phase>>, IsHttp(w'),
         Http!Hooked => w'.mustClose \/ ~Off(w') \/ Broke(w')
  PROVE  HookInv'
  BY DEF HookInv, Http!Hooked, Off, Broke, IsHttp

\* State::Head: what cannot be framed latches, the rest enters a framed state.
LEMMA HeadKept ==
  ASSUME HookInv, Http!HeadPark \/ Http!HeadOversize \/ Http!HeadBinary \/ Http!HeadUnparsed
  PROVE  HookInv'
<1> USE DEF Http!Busy, Http!Framed, Http!HeadReady
<1>1. phase = "busy" /\ UNCHANGED <<conn, phase>> /\ w.state = "Head" /\ IsHttp(w)
  BY DEF HookInv, Http!HeadPark, Http!HeadOversize, Http!HeadBinary, Http!HeadUnparsed
<1>2. CASE Http!HeadPark
  <2>1. IsHttp(w') /\ w'.state = "Head"
    BY <1>1, <1>2 DEF Http!HeadPark, IsHttp, Fields
  <2>2. QED
    BY <1>1, <2>1, Inside DEF Off
<1>3. ASSUME NEW x, IsHttp(x), w' = Http!FailClosedOnDegrade(x)
      PROVE  HookInv'
  BY <1>1, <1>3, DegradeIs, Inside DEF Keeps
<1>4. CASE Http!HeadOversize
  <2> DEFINE x == [Http!ScanChunk(w, Http!Buffered) EXCEPT !.headBuf = <<>>, !.state = "Drain"]
  <2>1. IsHttp(x)
    <3>1. IsHttp(Http!ScanChunk(w, Http!Buffered))
      BY <1>1, ScanIs DEF Keeps
    <3>2. QED
      BY <3>1 DEF IsHttp, Fields
  <2>2. w' = Http!FailClosedOnDegrade(x)
    BY <1>4 DEF Http!HeadOversize
  <2>3. QED
    BY <1>3, <2>1, <2>2
<1>5. IsHttp(Http!Unbuffered)
  BY <1>1 DEF IsHttp, Fields, Http!Unbuffered
<1>6. CASE Http!HeadBinary
  <2> DEFINE x == [Http!ScanChunk(Http!Unbuffered, Http!Block) EXCEPT !.state = "Opaque"]
  <2>1. IsHttp(x)
    <3>1. IsHttp(Http!ScanChunk(Http!Unbuffered, Http!Block))
      BY <1>5, ScanIs DEF Keeps
    <3>2. QED
      BY <3>1 DEF IsHttp, Fields
  <2>2. w' = Http!FailClosedOnDegrade(x)
    BY <1>6 DEF Http!HeadBinary
  <2>3. QED
    BY <1>3, <2>1, <2>2
<1>7. CASE Http!HeadUnparsed
  <2> DEFINE x == [Http!Unbuffered EXCEPT !.state = "Opaque"]
  <2>1. IsHttp(x)
    BY <1>5 DEF IsHttp, Fields
  <2>2. w' = Http!FailClosedOnDegrade(x)
    BY <1>7 DEF Http!HeadUnparsed
  <2>3. QED
    BY <1>3, <2>1, <2>2
<1>8. QED
  BY <1>2, <1>4, <1>6, <1>7

\* enter_framing_state leaves a plugin's connection framed, or latches.
LEMMA FramingIs ==
  ASSUME NEW x, IsHttp(x), x.state = "Head", NEW d
  PROVE  LET y == Http!EnterFramingState(x, d)
         IN  IsHttp(y) /\ (Http!Hooked => y.mustClose \/ ~Off(y))
<1> DEFINE Good(y) == IsHttp(y) /\ (Http!Hooked => y.mustClose \/ ~Off(y))
<1>1. ASSUME NEW y, IsHttp(y) PROVE Good(Http!FailClosedOnDegrade(y))
  BY <1>1, DegradeIs DEF Keeps
<1>2. Good(x)
  BY DEF Off
<1>3. Good(Http!EnterChunked(x, d))
  <2> DEFINE y == [x EXCEPT !.bodyMode = IF d.enc THEN "ScanOnly" ELSE "Substitute",
                            !.lineBuf = <<>>, !.trailerBuf = <<>>, !.dataRemaining = 0,
                            !.chunkPhase = "SizeLine", !.state = "Chunked"]
  <2>1. IsHttp(y)
    BY DEF IsHttp, Fields
  <2>2. ~d.enc => y.bodyMode = "Substitute" /\ y.chunkPhase = "SizeLine" /\ y.state = "Chunked"
    BY DEF IsHttp, Fields
  <2>3. CASE d.enc
    <3>1. Http!EnterChunked(x, d) = Http!FailClosedOnDegrade(y)
      BY <2>3 DEF Http!EnterChunked
    <3>2. Good(Http!FailClosedOnDegrade(y))
      BY <1>1, <2>1
    <3>3. QED
      BY <3>1, <3>2
  <2>4. CASE ~d.enc
    <3>1. Http!EnterChunked(x, d) = y
      BY <2>4 DEF Http!EnterChunked
    <3>2. ~Off(y)
      BY <2>2, <2>4 DEF Off
    <3>3. QED
      BY <2>1, <3>1, <3>2
  <2>5. QED
    BY <2>3, <2>4
<1>4. Good(Http!EnterFixed(x, d))
  <2> DEFINE n == Len(Http!Declared(d))
             y == [x EXCEPT !.scanRemaining = n, !.state = "Scan"]
             z == [x EXCEPT !.fixedRemaining = n, !.state = "Fixed"]
  <2>1. IsHttp(y) /\ IsHttp(z) /\ z.state = "Fixed"
    BY DEF IsHttp, Fields
  <2>2. Good(Http!FailClosedOnDegrade(y)) /\ Good(z)
    BY <1>1, <2>1 DEF Off
  <2>3. Http!EnterFixed(x, d) \in {x, Http!FailClosedOnDegrade(y), z}
    BY DEF Http!EnterFixed
  <2>4. QED
    BY <1>2, <2>2, <2>3
<1>5. Good(Http!EnterUnframed(x))
  <2> DEFINE y == [x EXCEPT !.state = "Opaque"]
             z == [x EXCEPT !.state = "CloseDelimited"]
  <2>1. IsHttp(y) /\ IsHttp(z) /\ z.state = "CloseDelimited"
    BY DEF IsHttp, Fields
  <2>2. Good(Http!FailClosedOnDegrade(y)) /\ Good(z)
    BY <1>1, <2>1 DEF Off
  <2>3. Http!EnterUnframed(x) \in {x, Http!FailClosedOnDegrade(y), z}
    BY DEF Http!EnterUnframed
  <2>4. QED
    BY <1>2, <2>2, <2>3
<1>6. Good(Http!FailClosedOnDegrade([x EXCEPT !.state = "Opaque"]))
  <2>1. IsHttp([x EXCEPT !.state = "Opaque"])
    BY DEF IsHttp, Fields
  <2>2. QED
    BY <1>1, <2>1
<1>7. QED
  BY <1>3, <1>4, <1>5, <1>6 DEF Http!EnterFramingState

\* process_head of a head that parses.
LEMMA ParsedKept ==
  ASSUME HookInv, Http!HeadRefused \/ Http!HeadBodiless \/ Http!HeadFramed \/ Http!HeadMint
  PROVE  HookInv'
<1> USE DEF Http!Busy, Http!Framed, Http!HeadReady, Http!HeadParsed
<1>1. phase = "busy" /\ UNCHANGED <<conn, phase>> /\ w.state = "Head" /\ IsHttp(w)
  BY DEF HookInv, Http!HeadRefused, Http!HeadBodiless, Http!HeadFramed, Http!HeadMint
<1>2. IsHttp(Http!Unbuffered) /\ Http!Unbuffered.state = "Head"
  BY <1>1 DEF IsHttp, Fields, Http!Unbuffered
<1>3. CASE Http!HeadRefused
  <2>1. PICK opaque \in BOOLEAN :
          w' = [Http!Unbuffered EXCEPT !.mustClose = TRUE, !.state = IF opaque THEN "Opaque" ELSE @]
    BY <1>3 DEF Http!HeadRefused
  <2>2. IsHttp(w') /\ w'.mustClose
    BY <1>2, <2>1 DEF IsHttp, Fields
  <2>3. QED
    BY <1>1, <2>2, Inside
<1>4. CASE Http!HeadBodiless
  <2>1. PICK n : w' = [Http!Unbuffered EXCEPT !.suppressBody = n]
    BY <1>4 DEF Http!HeadBodiless
  <2>2. IsHttp(w') /\ w'.state = "Head"
    BY <1>2, <2>1 DEF IsHttp, Fields
  <2>3. QED
    BY <1>1, <2>2, Inside DEF Off
<1>5. CASE Http!HeadFramed
  <2>1. PICK n, d : w' = Http!EnterFramingState([Http!Unbuffered EXCEPT !.headRequests = n], d)
    BY <1>5 DEF Http!HeadFramed
  <2>2. IsHttp([Http!Unbuffered EXCEPT !.headRequests = n]) /\ [Http!Unbuffered EXCEPT !.headRequests = n].state = "Head"
    BY <1>2 DEF IsHttp, Fields
  <2>3. QED
    BY <1>1, <2>1, <2>2, FramingIs, Inside
<1>6. CASE Http!HeadMint
  <2>1. PICK n, h : w' = [Http!Unbuffered EXCEPT !.mintRemaining = n, !.mintHead = h, !.mintBody = <<>>, !.state = "MintBody"]
    BY <1>6 DEF Http!HeadMint
  <2>2. IsHttp(w') /\ w'.state = "MintBody"
    BY <1>2, <2>1 DEF IsHttp, Fields
  <2>3. QED
    BY <1>1, <2>2, Inside DEF Off
<1>7. QED
  BY <1>3, <1>4, <1>5, <1>6

\* A machine that does not leave its state keeps what the invariant says of it.
LEMMA SameKept ==
  ASSUME HookInv, phase = "busy", UNCHANGED <<conn, phase>>, Keeps(w, w')
  PROVE  HookInv'
<1>1. IsHttp(w')
  BY DEF Keeps
<1>2. Http!Hooked => w'.mustClose \/ ~Off(w') \/ Broke(w')
  BY DEF HookInv, Keeps, Off, Broke
<1>3. QED
  BY <1>1, <1>2, Inside

\* The states behind a head that are not chunked.
LEMMA BodyKept ==
  ASSUME HookInv, Http!StepFixed \/ Http!StepScan \/ Http!StepDrain \/ Http!StepOpaque \/ Http!StepClose
  PROVE  HookInv'
<1> USE DEF Http!Busy, Http!Framed
<1>1. phase = "busy" /\ UNCHANGED <<conn, phase>> /\ IsHttp(w)
  BY DEF HookInv, Http!StepFixed, Http!StepScan, Http!StepDrain, Http!StepOpaque, Http!StepClose
<1>2. CASE Http!StepFixed
  <2> DEFINE take == Http!Min({w.fixedRemaining, Len(rest)})
             sw   == Http!SwapRegion(Http!Prefix(rest, take), take = w.fixedRemaining)
             x    == [w EXCEPT !.fixedRemaining = @ - take, !.rawHeld = sw.held]
  <2>1. \/ w' = [x EXCEPT !.mustClose = TRUE]
        \/ w' = [x EXCEPT !.state = IF take = w.fixedRemaining THEN "Head" ELSE @]
    BY <1>2 DEF Http!StepFixed
  <2>2. w.state = "Fixed"
    BY <1>2 DEF Http!StepFixed
  <2>3. IsHttp(w') /\ w'.state \in {"Head", "Fixed"}
    BY <1>1, <2>1, <2>2 DEF IsHttp, Fields
  <2>4. QED
    BY <1>1, <2>3, Inside DEF Off
<1>3. Http!Hooked /\ w.state \in {"Scan", "Drain", "Opaque"} => w.mustClose
  BY <1>1 DEF HookInv, Off, Broke
<1>4. CASE Http!StepScan
  <2>1. PICK d, n, s : w' = [Http!ForwardScanned(w, d) EXCEPT !.scanRemaining = n, !.state = s]
    BY <1>4 DEF Http!StepScan
  <2>2. Keeps(w, Http!ForwardScanned(w, d))
    BY <1>1, ScanIs
  <2>3. IsHttp(w') /\ (w.mustClose => w'.mustClose)
    BY <2>1, <2>2 DEF Keeps, IsHttp, Fields
  <2>4. QED
    BY <1>1, <1>3, <1>4, <2>3, Inside DEF Http!StepScan
<1>5. CASE Http!StepDrain
  <2>1. PICK d : \/ w' = Http!FailClosedOnDegrade([Http!ForwardScanned(w, d) EXCEPT !.state = "Opaque"])
                 \/ w' = [Http!ForwardScanned(w, d) EXCEPT !.state = "Head"]
    BY <1>5 DEF Http!StepDrain
  <2>2. Keeps(w, Http!ForwardScanned(w, d))
    BY <1>1, ScanIs
  <2>3. \A s \in {"Opaque", "Head"} : LET y == [Http!ForwardScanned(w, d) EXCEPT !.state = s]
                                     IN  IsHttp(y) /\ (w.mustClose => y.mustClose)
    BY <2>2 DEF Keeps, IsHttp, Fields
  <2>4. IsHttp(w') /\ (w.mustClose => w'.mustClose)
    BY <2>1, <2>3, DegradeIs DEF Keeps
  <2>5. QED
    BY <1>1, <1>3, <1>5, <2>4, Inside DEF Http!StepDrain
<1>6. CASE Http!StepOpaque
  <2>1. Keeps(w, Http!ForwardScanned(w, rest))
    BY <1>1, ScanIs
  <2>2. Keeps(Http!ForwardScanned(w, rest), w')
    BY <1>6, <2>1, DegradeIs DEF Keeps, Http!StepOpaque
  <2>3. Keeps(w, w')
    BY <2>1, <2>2 DEF Keeps
  <2>4. QED
    BY <1>1, <2>3, SameKept
<1>7. CASE Http!StepClose
  <2>1. PICK h, v : w' = [w EXCEPT !.rawHeld = h, !.mustClose = @ \/ v]
    BY <1>7 DEF Http!StepClose
  <2>2. Keeps(w, w')
    BY <1>1, <2>1 DEF Keeps, IsHttp, Fields
  <2>3. QED
    BY <1>1, <2>2, SameKept
<1>8. QED
  BY <1>2, <1>4, <1>5, <1>6, <1>7

\* The lines of a chunked body: sizes, the terminal chunk, the trailers.
LEMMA LinesKept ==
  ASSUME HookInv, \/ Http!LinePark \/ Http!ChunkSize \/ Http!ChunkJunk \/ Http!TerminalScanOnly
                  \/ Http!TerminalChunk \/ Http!TrailerField \/ Http!TrailersEnd
  PROVE  HookInv'
<1> USE DEF Http!Busy, Http!Framed, Http!InChunk, Http!SizeLine
<1>1. /\ phase = "busy" /\ UNCHANGED <<conn, phase>> /\ IsHttp(w)
      /\ w.state = "Chunked" /\ w.chunkPhase \in {"SizeLine", "Trailers"}
  BY DEF HookInv, Http!LinePark, Http!ChunkSize, Http!ChunkJunk, Http!TerminalScanOnly, Http!TerminalChunk,
     Http!TrailerField, Http!TrailersEnd
<1>2. Http!Hooked => w.mustClose \/ w.bodyMode # "ScanOnly"
  BY <1>1 DEF HookInv, Off, Broke
<1>3. ASSUME NEW l, NEW d, w' = [Http!ForwardScanned(w, d) EXCEPT !.lineBuf = l, !.chunkPhase = "Broken"]
      PROVE  HookInv'
  <2>1. Keeps(w, Http!ForwardScanned(w, d))
    BY <1>1, ScanIs
  <2>2. IsHttp(w') /\ Broke(w')
    BY <1>1, <1>3, <2>1 DEF Keeps, IsHttp, Fields, Broke
  <2>3. QED
    BY <1>1, <2>2, Inside
<1>4. ASSUME IsHttp(w'), w'.mustClose PROVE HookInv'
  BY <1>1, <1>4, Inside
<1>5. ASSUME IsHttp(w'), w'.state = "Chunked", w'.chunkPhase # "Broken", w'.bodyMode = w.bodyMode,
             w.mustClose => w'.mustClose
      PROVE  HookInv'
  BY <1>1, <1>2, <1>5, Inside DEF Off
<1>6. CASE Http!LinePark
  <2>1. PICK b : \/ w' = [Http!ForwardScanned(w, b) EXCEPT !.lineBuf = <<>>, !.chunkPhase = "Broken"]
                 \/ w' = [w EXCEPT !.lineBuf = b]
    BY <1>6 DEF Http!LinePark
  <2>2. CASE w' = [w EXCEPT !.lineBuf = b]
    <3>1. Keeps(w, w')
      BY <1>1, <2>2 DEF Keeps, IsHttp, Fields
    <3>2. QED
      BY <1>1, <3>1, SameKept
  <2>3. QED
    BY <1>3, <2>1, <2>2
<1>7. CASE Http!ChunkSize
  <2>1. PICK n : w' = [w EXCEPT !.lineBuf = <<>>, !.dataRemaining = n, !.chunkPhase = "Data"]
    BY <1>7 DEF Http!ChunkSize
  <2>2. QED
    BY <1>1, <1>5, <2>1 DEF IsHttp, Fields
<1>8. CASE Http!ChunkJunk
  BY <1>3, <1>8 DEF Http!ChunkJunk
<1>9. CASE w' = Http!FinishChunkedMessage(w)
  <2>1. IsHttp(w') /\ w'.state = "Head"
    BY <1>1, <1>9 DEF Http!FinishChunkedMessage, IsHttp, Fields
  <2>2. QED
    BY <1>1, <2>1, Inside DEF Off
<1>10. CASE Http!TerminalScanOnly
  BY <1>9, <1>10 DEF Http!TerminalScanOnly
<1>11. CASE Http!TerminalChunk
  <2>1. PICK h : \/ w' = [[w EXCEPT !.lineBuf = <<>>, !.rawHeld = h] EXCEPT !.mustClose = TRUE]
                 \/ w' = [[w EXCEPT !.lineBuf = <<>>, !.rawHeld = h] EXCEPT !.chunkPhase = "Trailers"]
    BY <1>11 DEF Http!TerminalChunk
  <2>2. CASE w' = [[w EXCEPT !.lineBuf = <<>>, !.rawHeld = h] EXCEPT !.mustClose = TRUE]
    BY <1>1, <1>4, <2>2 DEF IsHttp, Fields
  <2>3. CASE w' = [[w EXCEPT !.lineBuf = <<>>, !.rawHeld = h] EXCEPT !.chunkPhase = "Trailers"]
    BY <1>1, <1>5, <2>3 DEF IsHttp, Fields
  <2>4. QED
    BY <2>1, <2>2, <2>3
<1>12. CASE Http!TrailerField
  <2>1. PICK t : w' = [w EXCEPT !.lineBuf = <<>>, !.trailerBuf = t]
    BY <1>12 DEF Http!TrailerField
  <2>2. QED
    BY <1>1, <1>5, <2>1 DEF IsHttp, Fields
<1>13. CASE Http!TrailersEnd
  <2>1. \/ w' = [w EXCEPT !.mustClose = TRUE, !.lineBuf = <<>>, !.trailerBuf = <<>>]
        \/ w' = Http!FinishChunkedMessage(w)
    BY <1>13 DEF Http!TrailersEnd
  <2>2. CASE w' = [w EXCEPT !.mustClose = TRUE, !.lineBuf = <<>>, !.trailerBuf = <<>>]
    BY <1>1, <1>4, <2>2 DEF IsHttp, Fields
  <2>3. QED
    BY <1>9, <2>1, <2>2
<1>14. QED
  BY <1>6, <1>7, <1>8, <1>10, <1>11, <1>12, <1>13

\* The data of a chunked body and what ends a chunk.
LEMMA ChunksKept ==
  ASSUME HookInv, \/ Http!ChunkData \/ Http!AfterDataCrlf \/ Http!AfterDataHalf
                  \/ Http!AfterDataJunk \/ Http!ChunkBroken
  PROVE  HookInv'
<1> USE DEF Http!Busy, Http!Framed, Http!InChunk
<1>1. phase = "busy" /\ UNCHANGED <<conn, phase>> /\ IsHttp(w) /\ w.state = "Chunked"
  BY DEF HookInv, Http!ChunkData, Http!AfterDataCrlf, Http!AfterDataHalf, Http!AfterDataJunk, Http!ChunkBroken
<1>2. w.chunkPhase # "Broken" => (Http!Hooked => w.mustClose \/ w.bodyMode # "ScanOnly")
  BY <1>1 DEF HookInv, Off, Broke
<1>3. ASSUME NEW l, NEW d, w' = [Http!ForwardScanned(w, d) EXCEPT !.lineBuf = l, !.chunkPhase = "Broken"]
      PROVE  HookInv'
  <2>1. Keeps(w, Http!ForwardScanned(w, d))
    BY <1>1, ScanIs
  <2>2. IsHttp(w') /\ Broke(w')
    BY <1>1, <1>3, <2>1 DEF Keeps, IsHttp, Fields, Broke
  <2>3. QED
    BY <1>1, <2>2, Inside
<1>4. ASSUME IsHttp(w'), w'.mustClose PROVE HookInv'
  BY <1>1, <1>4, Inside
<1>5. ASSUME w.chunkPhase # "Broken", IsHttp(w'), w'.state = "Chunked", w'.chunkPhase # "Broken",
             w'.bodyMode = w.bodyMode, w.mustClose => w'.mustClose
      PROVE  HookInv'
  BY <1>1, <1>2, <1>5, Inside DEF Off
<1>6. CASE Http!ChunkData
  <2> DEFINE take == Http!Min({w.dataRemaining, Len(rest)})
             s    == Http!SwapRegion(Http!Prefix(rest, take), FALSE)
             x    == [w EXCEPT !.dataRemaining = @ - take]
             next == IF take = w.dataRemaining THEN "AfterData" ELSE "Data"
  <2>1. w.chunkPhase = "Data"
    BY <1>6 DEF Http!ChunkData
  <2>2. \/ w' = [Http!ForwardScanned(x, Http!Prefix(rest, take)) EXCEPT !.chunkPhase = next]
        \/ w' = [x EXCEPT !.rawHeld = s.held, !.mustClose = TRUE]
        \/ w' = [x EXCEPT !.rawHeld = s.held, !.chunkPhase = next]
    BY <1>6 DEF Http!ChunkData
  <2>3. Keeps(w, x)
    BY <1>1 DEF Keeps, IsHttp, Fields
  <2>4. next # "Broken"
    OBVIOUS
  <2>5. CASE w' = [Http!ForwardScanned(x, Http!Prefix(rest, take)) EXCEPT !.chunkPhase = next]
    <3>1. Keeps(x, Http!ForwardScanned(x, Http!Prefix(rest, take)))
      BY <2>3, ScanIs DEF Keeps
    <3> HIDE DEF take, x, next
    <3>2. /\ IsHttp(w') /\ w'.state = "Chunked" /\ w'.chunkPhase = next /\ w'.bodyMode = w.bodyMode
          /\ w.mustClose => w'.mustClose
      BY <1>1, <2>3, <2>5, <3>1 DEF Keeps, IsHttp, Fields
    <3>3. QED
      BY <1>5, <2>1, <2>4, <3>2
  <2>6. CASE w' = [x EXCEPT !.rawHeld = s.held, !.mustClose = TRUE]
    <3> HIDE DEF x, s
    <3>1. IsHttp(w') /\ w'.mustClose
      BY <2>3, <2>6 DEF Keeps, IsHttp, Fields
    <3>2. QED
      BY <1>4, <3>1
  <2>7. CASE w' = [x EXCEPT !.rawHeld = s.held, !.chunkPhase = next]
    <3> HIDE DEF x, s, next
    <3>1. /\ IsHttp(w') /\ w'.state = "Chunked" /\ w'.chunkPhase = next /\ w'.bodyMode = w.bodyMode
          /\ w.mustClose => w'.mustClose
      BY <1>1, <2>3, <2>7 DEF Keeps, IsHttp, Fields
    <3>2. QED
      BY <1>5, <2>1, <2>4, <3>1
  <2>8. QED
    BY <2>2, <2>5, <2>6, <2>7
<1>7. CASE Http!AfterDataCrlf \/ Http!AfterDataHalf
  <2>1. w.chunkPhase = "AfterData"
    BY <1>7 DEF Http!AfterDataCrlf, Http!AfterDataHalf
  <2>2. PICK l : \/ w' = [w EXCEPT !.lineBuf = l, !.chunkPhase = "SizeLine"]
                 \/ w' = [w EXCEPT !.lineBuf = l]
    BY <1>7 DEF Http!AfterDataCrlf, Http!AfterDataHalf
  <2>3. /\ IsHttp(w') /\ w'.state = "Chunked" /\ w'.chunkPhase # "Broken" /\ w'.bodyMode = w.bodyMode
        /\ w.mustClose => w'.mustClose
    BY <1>1, <2>1, <2>2 DEF IsHttp, Fields
  <2>4. QED
    BY <1>5, <2>1, <2>3
<1>8. CASE Http!AfterDataJunk
  <2>1. PICK d : \/ w' = [Http!ForwardScanned(w, d) EXCEPT !.chunkPhase = "Broken"]
                 \/ w' = [Http!ForwardScanned(w, d) EXCEPT !.lineBuf = <<>>, !.chunkPhase = "Broken"]
    BY <1>8 DEF Http!AfterDataJunk
  <2>2. Keeps(w, Http!ForwardScanned(w, d))
    BY <1>1, ScanIs
  <2>3. IsHttp(w') /\ Broke(w')
    BY <1>1, <2>1, <2>2 DEF Keeps, IsHttp, Fields, Broke
  <2>4. QED
    BY <1>1, <2>3, Inside
<1>9. CASE Http!ChunkBroken
  <2>1. Keeps(w, Http!ForwardScanned(w, rest))
    BY <1>1, ScanIs
  <2>2. IsHttp([Http!ForwardScanned(w, rest) EXCEPT !.state = "Opaque"])
    BY <2>1 DEF Keeps, IsHttp, Fields
  <2>3. IsHttp(w') /\ (Http!Hooked => w'.mustClose)
    BY <1>9, <2>2, DegradeIs DEF Http!ChunkBroken, Keeps
  <2>4. QED
    BY <1>1, <2>3, Inside
<1>10. QED
  BY <1>6, <1>7, <1>8, <1>9

\* A token response that is being collected is framed.
LEMMA MintKept ==
  ASSUME HookInv, Http!MintFixed \/ Http!MintChunked
  PROVE  HookInv'
<1> USE DEF Http!Busy, Http!Framed
<1>1. phase = "busy" /\ UNCHANGED <<conn, phase>> /\ IsHttp(w) /\ w.state = "MintBody"
  BY DEF HookInv, Http!MintFixed, Http!MintChunked
<1>2. PICK b, n : \/ w' = Http!Minted(w)
                  \/ w' = [Http!Minted(w) EXCEPT !.mustClose = TRUE]
                  \/ w' = [w EXCEPT !.mintBody = b, !.mintRemaining = n]
                  \/ w' = [w EXCEPT !.mintBody = b, !.mustClose = TRUE]
                  \/ w' = [w EXCEPT !.mintBody = b]
  BY DEF Http!MintFixed, Http!MintChunked
<1>3. IsHttp(Http!Minted(w)) /\ Http!Minted(w).state = "Head"
  BY <1>1 DEF Http!Minted, IsHttp, Fields
<1>4. IsHttp(w') /\ w'.state \in {"Head", "MintBody"}
  BY <1>1, <1>2, <1>3 DEF IsHttp, Fields
<1>5. QED
  BY <1>1, <1>4, Inside DEF Off

\* The end of the stream leaves a value of the struct behind.
LEMMA FlushKept ==
  ASSUME HookInv, Http!FlushHeld
  PROVE  HookInv'
<1> DEFINE x == [w EXCEPT !.headBuf = <<>>, !.state = "Opaque", !.lineBuf = <<>>, !.trailerBuf = <<>>]
<1>1. IsHttp(x)
  BY DEF HookInv, IsHttp, Fields
<1>2. w' = x \/ Http!FlushSwap(x) \/ Http!FlushMint(x)
  BY DEF Http!FlushHeld
<1>3. phase' = "eof"
  BY DEF Http!FlushHeld
<1> HIDE DEF x
<1>4. CASE Http!FlushSwap(x)
  <2>1. PICK d : w' = [x EXCEPT !.rawHeld = <<>>, !.mustClose = @ \/ d]
    BY <1>4 DEF Http!FlushSwap
  <2>2. QED
    BY <1>1, <1>3, <2>1 DEF HookInv, IsHttp, Fields
<1>5. CASE Http!FlushMint(x)
  <2> DEFINE y == [x EXCEPT !.mintHead = <<>>, !.mintBody = <<>>]
  <2>1. w' = y \/ w' = [y EXCEPT !.mustClose = TRUE]
    BY <1>5 DEF Http!FlushMint
  <2>2. QED
    BY <1>1, <1>3, <2>1 DEF HookInv, IsHttp, Fields
<1>6. QED
  BY <1>1, <1>2, <1>3, <1>4, <1>5 DEF HookInv

\* The invariant of the latch, step by step.
LEMMA HookKept ==
  ASSUME HookInv, [Http!Next]_(Http!vars)
  PROVE  HookInv'
<1>1. CASE UNCHANGED Http!vars
  BY <1>1 DEF Http!vars, HookInv, Http!Hooked, Off, Broke, IsHttp
<1>2. CASE Http!ApplyPeerNote
  <2>1. PICK n : w' = [w EXCEPT !.suppressBody = n]
    BY <1>2 DEF Http!ApplyPeerNote
  <2>2. phase = "idle" /\ UNCHANGED <<conn, phase>>
    BY <1>2 DEF Http!ApplyPeerNote
  <2>3. /\ IsHttp(w') /\ w'.state = w.state /\ w'.bodyMode = w.bodyMode /\ w'.chunkPhase = w.chunkPhase
        /\ w'.mustClose = w.mustClose
    BY <2>1 DEF HookInv, IsHttp, Fields
  <2>4. QED
    BY <2>2, <2>3 DEF HookInv, Http!Hooked, Off, Broke
<1>3. CASE Http!Feed
  BY <1>3 DEF Http!Feed, HookInv, Http!Hooked, Off, Broke, IsHttp
<1>4. CASE Http!Return
  <2>1. /\ phase = "busy" /\ ~Broke(w) /\ UNCHANGED <<conn, w>>
        /\ phase' = IF w.mustClose THEN "closed" ELSE "idle"
    BY <1>4 DEF Http!Return, Broke
  <2>2. QED
    BY <2>1 DEF HookInv, Http!Hooked, Off, Broke, IsHttp
<1>5. CASE Http!Ended
  BY <1>1, <1>5 DEF Http!Ended
<1>6. QED
  BY <1>1, <1>2, <1>3, <1>4, <1>5, FlushKept, HeadKept, ParsedKept, BodyKept, LinesKept, ChunksKept, MintKept
  DEF Http!Next

\* Behind a plugin, whatever the peer sends and however it is cut: between two
\* arrivals the connection is closed or on the framed path, where every region
\* is shown to the plugin; an overlong, unreadable or ambiguous head, an encoded
\* body and a broken chunk close it (fail_closed_on_degrade, http/machine.rs).
THEOREM HookedIsFramed == Http!Spec => []Http!HookFramed
<1>1. Http!Init => HookInv
  BY DEF Http!Init, Http!Http0, HookInv, IsHttp, Fields, Off
<1>2. HookInv /\ [Http!Next]_(Http!vars) => HookInv'
  BY HookKept
<1>3. HookInv => Http!HookFramed
  BY DEF HookInv, Http!HookFramed, Http!Unframed, Http!ScanOnly, Off
<1>4. QED
  BY <1>1, <1>2, <1>3, PTL DEF Http!Spec

=============================================================================
