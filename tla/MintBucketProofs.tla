--------------------------- MODULE MintBucketProofs ---------------------------
(***************************************************************************)
(* CountAccounts and EpochBudget for any number of callers, any burst and  *)
(* any counter width that holds a burst and one call per caller.           *)
(*                                                                         *)
(* Neither is inductive: whether fetch_add approves depends on the count   *)
(* as a machine integer, so the proof must know that it wraps at most once *)
(* below zero.  That follows from bounding both kinds of pending           *)
(* decrements by the number of callers: each caller holds at most one, and *)
(* those of earlier epochs can be given back only once.                    *)
(***************************************************************************)
EXTENDS MintBucket, FiniteSetTheorems, TLAPS

Current == {c \in Callers : pc[c] = "sub" /\ addedIn[c] = epoch}
Stale   == {c \in Callers : pc[c] = "sub" /\ addedIn[c] # epoch}

\* What the count stands for, before it wraps.
Balance == approved + owing - repaid

Pending ==
  /\ \A c \in Callers : addedIn[c] <= epoch
  /\ owing = Cardinality(Current)
  /\ repaid + Cardinality(Stale) <= Cardinality(Callers)

Wrapped == count = IF Balance < 0 THEN Balance + Modulus ELSE Balance

BucketInv == TypeOK /\ Pending /\ Wrapped /\ EpochBudget

\* The counter holds a burst, one call per caller and one more.
LEMMA Width ==
  /\ Cardinality(Callers) \in Nat
  /\ Modulus \in Nat /\ Modulus > Burst + Cardinality(Callers) + 1 /\ Modulus > 2
<1>1. Cardinality(Callers) \in Nat
  BY BucketAssumption, FS_CardinalityType
<1> QED
  BY <1>1, BucketAssumption

\* Facts about the number of callers and of pending decrements.
LEMMA Sizes ==
  ASSUME TypeOK
  PROVE  /\ Cardinality(Callers) \in Nat
         /\ Cardinality(Current) \in 0..Cardinality(Callers)
         /\ Cardinality(Stale) \in 0..Cardinality(Callers)
<1>1. IsFiniteSet(Callers) /\ Current \subseteq Callers /\ Stale \subseteq Callers
  BY BucketAssumption DEF Current, Stale
<1>2. Cardinality(Callers) \in Nat
  BY <1>1, FS_CardinalityType
<1>3. \A S \in SUBSET Callers : IsFiniteSet(S) /\ Cardinality(S) <= Cardinality(Callers)
  BY <1>1, FS_Subset
<1>4. \A S \in SUBSET Callers : Cardinality(S) \in Nat
  BY <1>3, FS_CardinalityType
<1> QED
  BY <1>1, <1>2, <1>3, <1>4

\* MintBucket::new starts with an empty count and nothing pending.
LEMMA InitInv == Init => BucketInv
<1> SUFFICES ASSUME Init PROVE BucketInv
  OBVIOUS
<1>1. TypeOK
  BY BucketAssumption, Width DEF Init, TypeOK
<1>2. Current = {} /\ Stale = {}
  BY DEF Init, Current, Stale
<1>3. Cardinality(Current) = 0 /\ Cardinality(Stale) = 0
  BY <1>2, FS_EmptySet
<1>4. Pending
  BY <1>1, <1>3, Sizes DEF Init, Pending
<1> QED
  BY <1>1, <1>4, BucketAssumption, Width DEF BucketInv, Init, Wrapped, Balance, EpochBudget

\* Every step keeps the types.
LEMMA StepType == TypeOK /\ [Next]_vars => TypeOK'
<1> SUFFICES ASSUME TypeOK, [Next]_vars PROVE TypeOK'
  OBVIOUS
<1> USE BucketAssumption, Width DEF TypeOK
<1>1. ASSUME NEW c \in Callers, Call(c) PROVE TypeOK'
  BY <1>1 DEF Call, Goto, hist
<1>2. ASSUME NEW c \in Callers, Load(c) PROVE TypeOK'
  BY <1>2 DEF Load, Goto, hist
<1>3. ASSUME NEW c \in Callers, CompareExchange(c) PROVE TypeOK'
  BY <1>3 DEF CompareExchange, Goto
<1>4. ASSUME NEW c \in Callers, Store(c) PROVE TypeOK'
  BY <1>4 DEF Store, Goto
<1>5. ASSUME NEW c \in Callers, FetchAdd(c) PROVE TypeOK'
  <2>1. Inc(count) \in 0..(Modulus - 1)
    BY DEF Inc
  <2> QED
    BY <1>5, <2>1 DEF FetchAdd, Goto
<1>6. ASSUME NEW c \in Callers, FetchSub(c) PROVE TypeOK'
  <2>1. Dec(count) \in 0..(Modulus - 1)
    BY DEF Dec
  <2> QED
    BY <1>6, <2>1 DEF FetchSub, Goto
<1>7. CASE Tick
  BY <1>7 DEF Tick, code, hist
<1>8. CASE Idle \/ UNCHANGED vars
  BY <1>8 DEF Idle, vars, code, hist
<1> QED
  BY <1>1, <1>2, <1>3, <1>4, <1>5, <1>6, <1>7, <1>8 DEF Next, Step

\* The steps that touch neither the count nor a pending decrement.
LEMMA QuietInv ==
  ASSUME BucketInv, TypeOK',
         UNCHANGED <<count, hist>>,
         \A c \in Callers : pc'[c] = "sub" <=> pc[c] = "sub"
  PROVE  BucketInv'
<1>1. Current' = Current /\ Stale' = Stale
  BY DEF Current, Stale, hist
<1> QED
  BY <1>1 DEF BucketInv, Pending, Wrapped, Balance, EpochBudget, hist

\* A rollover turns every pending decrement into a stale one.
LEMMA StoreInv ==
  ASSUME BucketInv, TypeOK', NEW c \in Callers, Store(c)
  PROVE  BucketInv'
<1> USE BucketAssumption, Width
<1>1. TypeOK
  BY DEF BucketInv
<1>2. Current' = {}
  BY <1>1 DEF BucketInv, Pending, TypeOK, Store, Current
<1>3. Cardinality(Current') = 0
  BY <1>2, FS_EmptySet
<1>4. Stale' \subseteq Callers
  BY DEF Stale
<1>5. Cardinality(Stale') <= Cardinality(Callers) /\ Cardinality(Stale') \in Nat
  BY <1>4, FS_Subset, FS_CardinalityType
<1>6. Pending'
  BY <1>1, <1>3, <1>5, Sizes DEF BucketInv, Pending, Store, TypeOK
<1> QED
  BY <1>6 DEF BucketInv, Wrapped, Balance, EpochBudget, Store

\* fetch_add: an approval, or one more decrement owed in this epoch.
LEMMA FetchAddInv ==
  ASSUME BucketInv, TypeOK', NEW c \in Callers, FetchAdd(c)
  PROVE  BucketInv'
<1> USE BucketAssumption, Width
<1>1. TypeOK /\ Pending /\ Wrapped /\ EpochBudget
  BY DEF BucketInv
<1>2. c \notin Current /\ c \notin Stale
  BY DEF FetchAdd, Current, Stale
<1>3. Stale' = Stale
  BY <1>1, <1>2 DEF FetchAdd, Goto, Stale, TypeOK
<1>4. IsFiniteSet(Current)
  BY FS_Subset DEF Current
<1>5. CASE count < Burst
  <2>1. Current' = Current
    BY <1>1, <1>2, <1>5 DEF FetchAdd, Goto, Current, TypeOK
  <2>2. UNCHANGED <<owing, repaid, epoch>> /\ approved' = approved + 1 /\ count' = Inc(count)
    BY <1>1, <1>5 DEF FetchAdd, TypeOK
  <2>3. Pending'
    BY <1>1, <1>3, <2>1, <2>2 DEF FetchAdd, Pending, TypeOK
  <2>4. Balance \in Int /\ Balance >= 0 /\ Balance = count /\ owing >= 0
    <3>1. owing >= 0
      BY <1>1, Sizes DEF Pending
    <3>2. repaid <= Cardinality(Callers) /\ Cardinality(Callers) \in Nat
      BY <1>1, Sizes DEF Pending, TypeOK
    <3> QED
      BY <1>1, <1>5, <3>1, <3>2 DEF Wrapped, Balance, TypeOK
  <2>5. Wrapped'
    BY <1>1, <1>5, <2>2, <2>4 DEF Wrapped, Balance, TypeOK, Inc
  <2>6. EpochBudget'
    BY <1>1, <1>5, <2>2, <2>4 DEF EpochBudget, Balance, TypeOK
  <2> QED
    BY <2>3, <2>5, <2>6 DEF BucketInv
<1>6. CASE count >= Burst
  <2>1. Current' = Current \cup {c}
    BY <1>1, <1>2, <1>6 DEF FetchAdd, Goto, Current, TypeOK
  <2>2. Cardinality(Current') = Cardinality(Current) + 1
    BY <1>2, <1>4, <2>1, FS_AddElement
  <2>3. UNCHANGED <<approved, repaid, epoch>> /\ owing' = owing + 1 /\ count' = Inc(count)
    BY <1>1, <1>6 DEF FetchAdd, TypeOK
  <2>4. Pending'
    BY <1>1, <1>3, <2>2, <2>3 DEF FetchAdd, Pending, TypeOK
  <2>5. Wrapped'
    <3>1. owing \in 0..Cardinality(Callers) /\ repaid <= Cardinality(Callers) /\ Cardinality(Callers) \in Nat
      BY <1>1, Sizes DEF Pending, TypeOK
    <3>2. approved <= Burst + repaid
      BY <1>1 DEF EpochBudget
    <3> QED
      BY <1>1, <2>3, <3>1, <3>2 DEF Wrapped, Balance, TypeOK, Inc
  <2>6. EpochBudget'
    BY <1>1, <2>3 DEF EpochBudget
  <2> QED
    BY <2>4, <2>5, <2>6 DEF BucketInv
<1> QED
  BY <1>1, <1>5, <1>6 DEF TypeOK

\* fetch_sub: pays a decrement of this epoch, or a stale one.
LEMMA FetchSubInv ==
  ASSUME BucketInv, TypeOK', NEW c \in Callers, FetchSub(c)
  PROVE  BucketInv'
<1> USE BucketAssumption, Width
<1>1. TypeOK /\ Pending /\ Wrapped /\ EpochBudget
  BY DEF BucketInv
<1>2. IsFiniteSet(Current) /\ IsFiniteSet(Stale)
  BY FS_Subset DEF Current, Stale
<1>3. /\ owing \in 0..Cardinality(Callers) /\ Cardinality(Callers) \in Nat
      /\ repaid + Cardinality(Stale) <= Cardinality(Callers) /\ Cardinality(Stale) \in Nat
      /\ approved <= Burst + repaid
  BY <1>1, Sizes DEF Pending, EpochBudget
<1>4. CASE addedIn[c] = epoch
  <2>1. Current' = Current \ {c} /\ Stale' = Stale /\ c \in Current
    BY <1>1, <1>4 DEF FetchSub, Goto, Current, Stale, TypeOK
  <2>2. Cardinality(Current') = Cardinality(Current) - 1
    BY <1>2, <2>1, FS_RemoveElement
  <2>3. UNCHANGED <<approved, repaid, epoch, addedIn>> /\ owing' = owing - 1 /\ count' = Dec(count)
    BY <1>4 DEF FetchSub
  <2>4. Pending'
    BY <1>1, <2>1, <2>2, <2>3 DEF Pending
  <2>5. Wrapped'
    BY <1>1, <1>3, <2>3 DEF Wrapped, Balance, TypeOK, Dec
  <2> QED
    BY <1>1, <2>3, <2>4, <2>5 DEF BucketInv, EpochBudget
<1>5. CASE addedIn[c] # epoch
  <2>1. Stale' = Stale \ {c} /\ Current' = Current /\ c \in Stale
    BY <1>1, <1>5 DEF FetchSub, Goto, Current, Stale, TypeOK
  <2>2. Cardinality(Stale') = Cardinality(Stale) - 1
    BY <1>2, <2>1, FS_RemoveElement
  <2>3. UNCHANGED <<approved, owing, epoch, addedIn>> /\ repaid' = repaid + 1 /\ count' = Dec(count)
    BY <1>5 DEF FetchSub
  <2>4. Pending'
    BY <1>1, <1>3, <2>1, <2>2, <2>3 DEF Pending, TypeOK
  <2>5. Wrapped'
    BY <1>1, <1>3, <2>3 DEF Wrapped, Balance, TypeOK, Dec
  <2>6. EpochBudget'
    BY <1>1, <2>3 DEF EpochBudget, TypeOK
  <2> QED
    BY <2>4, <2>5, <2>6 DEF BucketInv
<1> QED
  BY <1>4, <1>5

\* Every atomic operation of allow, and the clock, keep the invariant.
LEMMA StepInv == BucketInv /\ [Next]_vars => BucketInv'
<1> SUFFICES ASSUME BucketInv, [Next]_vars PROVE BucketInv'
  OBVIOUS
<1>1. TypeOK /\ TypeOK'
  BY StepType DEF BucketInv
<1>2. ASSUME NEW c \in Callers, Call(c) PROVE BucketInv'
  <2>1. \A d \in Callers : pc'[d] = "sub" <=> pc[d] = "sub"
    BY <1>1, <1>2 DEF Call, Goto, TypeOK
  <2> QED
    BY <1>1, <1>2, <2>1, QuietInv DEF Call
<1>3. ASSUME NEW c \in Callers, Load(c) PROVE BucketInv'
  <2>1. \A d \in Callers : pc'[d] = "sub" <=> pc[d] = "sub"
    BY <1>1, <1>3 DEF Load, Goto, TypeOK
  <2> QED
    BY <1>1, <1>3, <2>1, QuietInv DEF Load
<1>4. ASSUME NEW c \in Callers, CompareExchange(c) PROVE BucketInv'
  <2>1. \A d \in Callers : pc'[d] = "sub" <=> pc[d] = "sub"
    BY <1>1, <1>4 DEF CompareExchange, Goto, TypeOK
  <2>2. UNCHANGED <<count, hist>>
    BY <1>4 DEF CompareExchange, hist
  <2> QED
    BY <1>1, <2>1, <2>2, QuietInv
<1>5. CASE Tick \/ Idle \/ UNCHANGED vars
  <2>1. UNCHANGED <<count, pc, hist>>
    BY <1>5 DEF Tick, Idle, vars, code, hist
  <2> QED
    BY <1>1, <2>1, QuietInv
<1> QED
  BY <1>1, <1>2, <1>3, <1>4, <1>5, StoreInv, FetchAddInv, FetchSubInv DEF Next, Step

\* The inductive invariant: the count wraps at most once below zero, because
\* no more decrements are pending or late than there are callers.
THEOREM BucketInvariance == Spec => []BucketInv
<1>1. Init => BucketInv
  BY InitInv
<1>2. BucketInv /\ [Next]_vars => BucketInv'
  BY StepInv
<1> QED
  BY <1>1, <1>2, PTL DEF Spec

\* For every number of callers, burst and window: between two rollovers
\* `allow` approves at most a burst beyond what late decrements gave back.
THEOREM BudgetKept == Spec => []EpochBudget
<1>1. BucketInv => EpochBudget
  BY DEF BucketInv
<1> QED
  BY <1>1, BucketInvariance, PTL

\* For every number of callers: the count, read as a machine integer, is the
\* approvals of the epoch plus the decrements owed less those paid late.
THEOREM CountKept == Spec => []CountAccounts
<1>1. ASSUME BucketInv PROVE CountAccounts
  <2>1. count - Balance = 0 \/ count - Balance = Modulus
    BY <1>1, Width DEF BucketInv, Wrapped, Balance, TypeOK
  <2>2. 0 % Modulus = 0 /\ Modulus % Modulus = 0
    <3>1. Modulus \in Nat \ {0}
      BY Width
    <3> QED
      BY <3>1
  <2> QED
    BY <2>1, <2>2 DEF CountAccounts, Balance
<1> QED
  BY <1>1, BucketInvariance, PTL

\* For every number of callers: each variable keeps its type, the count that of
\* an unsigned machine integer.
THEOREM TypeKept == Spec => []TypeOK
<1>1. BucketInv => TypeOK
  BY DEF BucketInv
<1> QED
  BY <1>1, BucketInvariance, PTL

\* For every number of callers: the accounts are kept.
THEOREM AccountsKept == Spec => []Accounted
  BY TypeKept, BudgetKept, CountKept, PTL DEF Accounted
===============================================================================
