----------------------------- MODULE MintBucket -----------------------------
(***************************************************************************)
(* The issuance burst guard (crates/hodor-proxy/src/mint.rs, MintBucket):  *)
(* at most Burst fresh leaves per Window, kept in two atomics and no lock. *)
(* One atomic operation of `allow` is one step; any number of connections  *)
(* call it at once.  The count is an unsigned machine integer: it wraps.   *)
(***************************************************************************)
EXTENDS Integers, FiniteSets

CONSTANTS Callers,      \* the tasks that may call allow at the same time
          Burst,        \* MINT_BURST
          Window,       \* MINT_WINDOW_SECS
          Modulus,      \* 2^width of the count
          MaxClock,     \* bound: wall clock values 0..MaxClock
          MaxCalls      \* bound: calls of allow

ASSUME BucketAssumption ==
  /\ IsFiniteSet(Callers)
  /\ Burst \in Nat \ {0} /\ Window \in Nat \ {0}
  /\ MaxClock \in Nat /\ MaxCalls \in Nat
  /\ Modulus \in Nat /\ Burst + Cardinality(Callers) + 1 < Modulus

VARIABLES
  clock,        \* SystemTime::now(); it may jump backwards
  window,       \* AtomicU64: when the current window started
  count,        \* AtomicUsize: leaves minted in it
  pc, now, start,   \* per caller: next operation, and its two locals
  calls,        \* calls of allow so far
  \* history, for the properties only.  A store of the count opens an epoch.
  epoch, addedIn,   \* stores so far, and the epoch of a caller's last fetch_add
  approved,     \* calls the current epoch approved
  owing,        \* fetch_adds of this epoch still to be undone
  repaid        \* undoings of earlier epochs' fetch_adds that hit this epoch

code == <<window, count, pc, now, start>>
hist == <<epoch, addedIn, approved, owing, repaid>>
vars == <<clock, code, calls, hist>>

TypeOK ==
  /\ clock \in 0..MaxClock /\ window \in 0..MaxClock
  /\ count \in 0..(Modulus - 1)
  /\ pc \in [Callers -> {"idle", "load", "cas", "store", "add", "sub"}]
  /\ now \in [Callers -> 0..MaxClock] /\ start \in [Callers -> 0..MaxClock]
  /\ calls \in 0..MaxCalls
  /\ epoch \in Nat /\ addedIn \in [Callers -> Nat]
  /\ approved \in Nat /\ owing \in Int /\ repaid \in Nat

Init ==
  /\ clock \in 0..MaxClock
  /\ window = clock /\ count = 0
  /\ pc = [c \in Callers |-> "idle"]
  /\ now = [c \in Callers |-> 0] /\ start = [c \in Callers |-> 0]
  /\ calls = 0
  /\ epoch = 0 /\ addedIn = [c \in Callers |-> 0]
  /\ approved = 0 /\ owing = 0 /\ repaid = 0

Goto(c, to) == pc' = [pc EXCEPT ![c] = to]

\* saturating_sub: a clock that went backwards gives age 0.
Age(c) == IF now[c] > start'[c] THEN now[c] - start'[c] ELSE 0

\* Unsigned wrap-around of fetch_add and fetch_sub by one.
Inc(n) == IF n = Modulus - 1 THEN 0 ELSE n + 1
Dec(n) == IF n = 0 THEN Modulus - 1 ELSE n - 1

\* let now = epoch_secs()
Call(c) ==
  /\ pc[c] = "idle" /\ calls < MaxCalls
  /\ now' = [now EXCEPT ![c] = clock]
  /\ calls' = calls + 1
  /\ Goto(c, "load")
  /\ UNCHANGED <<clock, window, count, start, hist>>

\* Mutant: after a lost compare_exchange the loop reuses the old start.
Load_Stale(c) ==
  /\ pc[c] = "load"
  /\ start' = [start EXCEPT ![c] = IF start[c] # 0 THEN start[c] ELSE window]
  /\ Goto(c, IF Age(c) >= Window THEN "cas" ELSE "add")
  /\ UNCHANGED <<clock, window, count, now, calls, hist>>

\* let start = self.window.load(..), and the test of its age
Load(c) ==
  /\ pc[c] = "load"
  /\ start' = [start EXCEPT ![c] = window]
  /\ Goto(c, IF Age(c) >= Window THEN "cas" ELSE "add")
  /\ UNCHANGED <<clock, window, count, now, calls, hist>>

\* self.window.compare_exchange(start, now, ..); a loser goes round again
CompareExchange(c) ==
  /\ pc[c] = "cas"
  /\ \/ /\ window = start[c]
        /\ window' = now[c]
        /\ Goto(c, "store")
     \/ /\ window # start[c]
        /\ Goto(c, "load")
        /\ UNCHANGED window
  /\ UNCHANGED <<clock, count, now, start, calls, epoch, addedIn, approved, owing, repaid>>

\* Mutant: the rollover resets the count but does not spend its own approval.
Store_Unspent(c) ==
  /\ pc[c] = "store"
  /\ count' = 0
  /\ Goto(c, "idle")
  /\ epoch' = epoch + 1
  /\ approved' = 1 /\ owing' = 0 /\ repaid' = 0
  /\ UNCHANGED <<clock, window, now, start, calls, addedIn>>

\* self.count.store(1, ..); return true
Store(c) ==
  /\ pc[c] = "store"
  /\ count' = 1
  /\ Goto(c, "idle")
  /\ epoch' = epoch + 1
  /\ approved' = 1 /\ owing' = 0 /\ repaid' = 0
  /\ UNCHANGED <<clock, window, now, start, calls, addedIn>>

\* Mutant: an off-by-one in the comparison with MINT_BURST.
FetchAdd_OffByOne(c) ==
  /\ pc[c] = "add"
  /\ count' = Inc(count)
  /\ addedIn' = [addedIn EXCEPT ![c] = epoch]
  /\ \/ /\ count <= Burst
        /\ approved' = approved + 1
        /\ Goto(c, "idle")
        /\ UNCHANGED owing
     \/ /\ count > Burst
        /\ owing' = owing + 1
        /\ Goto(c, "sub")
        /\ UNCHANGED approved
  /\ UNCHANGED <<clock, window, now, start, calls, epoch, repaid>>

\* if self.count.fetch_add(1, ..) < MINT_BURST { return true; }
FetchAdd(c) ==
  /\ pc[c] = "add"
  /\ count' = Inc(count)
  /\ addedIn' = [addedIn EXCEPT ![c] = epoch]
  /\ \/ /\ count < Burst
        /\ approved' = approved + 1
        /\ Goto(c, "idle")
        /\ UNCHANGED owing
     \/ /\ count >= Burst
        /\ owing' = owing + 1
        /\ Goto(c, "sub")
        /\ UNCHANGED approved
  /\ UNCHANGED <<clock, window, now, start, calls, epoch, repaid>>

\* self.count.fetch_sub(1, ..); return false
FetchSub(c) ==
  /\ pc[c] = "sub"
  /\ count' = Dec(count)
  /\ IF addedIn[c] = epoch
     THEN owing' = owing - 1 /\ UNCHANGED repaid
     ELSE repaid' = repaid + 1 /\ UNCHANGED owing
  /\ Goto(c, "idle")
  /\ UNCHANGED <<clock, window, now, start, calls, epoch, addedIn, approved>>

\* Wall clock time: it moves on, or is set back.
Tick ==
  /\ clock' \in 0..MaxClock
  /\ clock' # clock
  /\ UNCHANGED <<code, calls, hist>>

Idle == /\ calls = MaxCalls /\ \A c \in Callers : pc[c] = "idle"
        /\ UNCHANGED vars

Step(c) == Load(c) \/ CompareExchange(c) \/ Store(c) \/ FetchAdd(c) \/ FetchSub(c)

Next == (\E c \in Callers : Call(c) \/ Step(c)) \/ Tick \/ Idle

Spec == Init /\ [][Next]_vars

FairSpec == Spec /\ \A c \in Callers : WF_vars(Step(c))

-----------------------------------------------------------------------------
(* Properties.                                                             *)

\* The count is what this epoch approved, plus the refused increments not yet
\* given back, less the ones earlier epochs gave back late: "every true
\* already spent the budget it approved".
CountAccounts == (count - (approved + owing - repaid)) % Modulus = 0

\* Between two stores of the count, at most Burst calls are approved beyond
\* the increments of earlier epochs that were given back late.
EpochBudget == approved <= Burst + repaid

\* The bucket's accounts: the count stays a machine integer, is right, and keeps
\* each epoch to its budget.
Accounted == TypeOK /\ CountAccounts /\ EpochBudget

\* A call of allow returns: the compare-exchange loop goes round again only
\* because another caller rolled the window.
CallsReturn == \A c \in Callers : pc[c] # "idle" ~> pc[c] = "idle"
=============================================================================
