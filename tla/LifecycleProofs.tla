--------------------------- MODULE LifecycleProofs ---------------------------
(***************************************************************************)
(* Proofs about Lifecycle, for any machines, configs, commands and states  *)
(* on disk, any number of commands and edits, and a kill between any two   *)
(* steps.                                                                  *)
(***************************************************************************)
EXTENDS Lifecycle, TLAPS

Words == {"prepare", "decide", "rewrites", "ambient", "grants", "assemble", "compose", "digest", "support", "build", "up",
          "record", "exec", "down", "prune", "claim", "entry", "insert", "verify", "list"}

(* The step that comes right before another.                               *)
Before == [rewrites |-> "decide", ambient |-> "rewrites", grants |-> "ambient", assemble |-> "grants",
           compose |-> "assemble", digest |-> "compose", build |-> "support", up |-> "build"]
Follows == {"rewrites", "ambient", "grants", "assemble", "compose", "digest", "build", "up"}

(* A list of steps, and what is left of one: each of these follows its     *)
(* own step, a current stack is passed over whole, and a claim is checked  *)
(* before it is inserted.                                                  *)
Listed(s) ==
  /\ s \in Seq(Words)
  /\ \A i \in 2..Len(s) : s[i] \in Follows => s[i - 1] = Before[s[i]]
  /\ \A i \in 1..Len(s) : s[i] = "decide" => i + 6 <= Len(s) /\ (i + 7 <= Len(s) => s[i + 7] \notin Follows)
  /\ \A i \in 2..Len(s) : s[i] # "claim"
  /\ \A i \in 1..Len(s) : s[i] = "insert" => \A j \in (i + 1)..Len(s) : s[j] # "insert"

Lacks(s, word) == \A i \in 1..Len(s) : s[i] # word

IsGen(g) == g = [cfg |-> g.cfg, backend |-> g.backend, out |-> g.out, stack |-> g.stack, build |-> g.build]

DiskOK(d) == IsDisk(d) /\ (d.compose # <<>> => d.compose[1].hodor.backend # "none")
Maps == /\ disk = [w \in Workspaces |-> disk[w]] /\ cfg = [w \in Workspaces |-> cfg[w]]
        /\ torn = [w \in Workspaces |-> torn[w]] /\ \A w \in Workspaces : DiskOK(disk[w])

StepsInv ==
  /\ Listed(pc) /\ IsGen(gen)
  /\ pc # <<>> => cmd \in Commands
  /\ Lacks(pc, "decide") \/ cmd.name \in {"init", "agent", "expose"}
  /\ Maps

(* A digest is written only behind the stack it vouches for.               *)
CutInv == Retried /\ (At("digest") => torn[W] = "no")

(* The stack in the making is of the backend that was kept or asked for.   *)
Making == {"rewrites", "ambient", "grants", "assemble", "compose"}
BackendInv ==
  /\ \A s \in Making : At(s) => gen.backend = KeptBackend(disk[W], cmd.backend) /\ cmd.name \in {"init", "agent", "expose"}
  /\ At("compose") => gen.stack # <<>> /\ gen.stack[1].hodor.backend = gen.backend

(* docker is not called before the file it mounts is there.                *)
BypassInv ==
  /\ BypassIsFile
  /\ (At("build") \/ At("up")) /\ generated_backend(disk[W]) = "ebpf" => disk[W].bypass # "none"

(* A claim that was checked stays this workspace's to insert.              *)
ClaimInv ==
  Lacks(pc, "insert") \/ ~Lacks(pc, "claim") \/ check_claim(claims, W, cmd.publish, cmd.port)

Inv == StepsInv /\ CutInv /\ BackendInv /\ BypassInv /\ ClaimInv

-----------------------------------------------------------------------------
(* The lists of steps.                                                     *)

Part(s) == Listed(s) /\ s # <<>> /\ s[1] \notin Follows

\* Elements of a concatenation.
LEMMA CatIs ==
  ASSUME NEW S, NEW a \in Seq(S), NEW b \in Seq(S)
  PROVE  /\ a \o b \in Seq(S) /\ Len(a \o b) = Len(a) + Len(b)
         /\ \A i \in 1..Len(a) : (a \o b)[i] = a[i]
         /\ \A i \in (Len(a) + 1)..(Len(a) + Len(b)) : (a \o b)[i] = b[i - Len(a)]
  OBVIOUS

\* The steps of one command followed by those of another.
LEMMA JoinIs ==
  ASSUME NEW a, NEW b, Part(a), Part(b), Lacks(b, "claim"), Lacks(a, "insert")
  PROVE  /\ Part(a \o b) /\ (a \o b)[1] = a[1]
         /\ Lacks(a, "claim") => Lacks(a \o b, "claim")
         /\ Lacks(b, "insert") => Lacks(a \o b, "insert")
<1> DEFINE c == a \o b
<1> DEFINE m == Len(a)
<1> DEFINE n == Len(b)
<1>1. a \in Seq(Words) /\ b \in Seq(Words) /\ a # <<>> /\ b # <<>>
  BY DEF Part, Listed
<1>2. m \in Nat /\ n \in Nat /\ m >= 1 /\ n >= 1
  BY <1>1
<1>3. c \in Seq(Words) /\ Len(c) = m + n
  BY <1>1, CatIs
<1>4. \A i \in 1..m : c[i] = a[i]
  BY <1>1, CatIs
<1>5. \A i \in (m + 1)..(m + n) : c[i] = b[i - m] /\ i - m \in 1..n
  <2>1. \A i \in (m + 1)..(m + n) : c[i] = b[i - m]
    BY <1>1, CatIs
  <2>2. \A i \in (m + 1)..(m + n) : i - m \in 1..n
    BY <1>2
  <2>3. QED
    BY <2>1, <2>2
<1>6. /\ \A i \in 2..m : a[i] \in Follows => a[i - 1] = Before[a[i]]
      /\ \A i \in 1..m : a[i] = "decide" => i + 6 <= m /\ (i + 7 <= m => a[i + 7] \notin Follows)
      /\ \A i \in 2..m : a[i] # "claim"
      /\ \A i \in 1..m : a[i] # "insert"
  BY DEF Part, Listed, Lacks
<1>7. /\ \A i \in 2..n : b[i] \in Follows => b[i - 1] = Before[b[i]]
      /\ \A i \in 1..n : b[i] = "decide" => i + 6 <= n /\ (i + 7 <= n => b[i + 7] \notin Follows)
      /\ \A i \in 1..n : b[i] # "claim"
      /\ \A i \in 1..n : b[i] = "insert" => \A j \in (i + 1)..n : b[j] # "insert"
      /\ b[1] \notin Follows
  BY DEF Part, Listed, Lacks
<1> HIDE DEF c, m, n
<1>8. ASSUME NEW i \in 2..Len(c), c[i] \in Follows PROVE c[i - 1] = Before[c[i]]
  <2>1. CASE i <= m
    BY <1>2, <1>3, <1>4, <1>6, <1>8, <2>1
  <2>2. CASE i = m + 1
    <3>1. c[i] = b[1]
      BY <1>2, <1>5, <2>2
    <3>2. QED
      BY <1>7, <1>8, <3>1
  <2>3. CASE i > m + 1
    <3>1. i - m \in 2..n /\ c[i] = b[i - m] /\ i - 1 \in (m + 1)..(m + n) /\ (i - 1) - m = (i - m) - 1
      BY <1>2, <1>3, <1>5, <2>3
    <3>2. c[i - 1] = b[(i - m) - 1]
      BY <1>5, <3>1
    <3>3. QED
      BY <1>7, <1>8, <3>1, <3>2
  <2>4. i <= m \/ i = m + 1 \/ i > m + 1
    BY <1>2
  <2>5. QED
    BY <2>1, <2>2, <2>3, <2>4, Zenon
<1>9. ASSUME NEW i \in 1..Len(c), c[i] = "decide"
      PROVE  i + 6 <= Len(c) /\ (i + 7 <= Len(c) => c[i + 7] \notin Follows)
  <2>1. CASE i <= m
    <3>1. a[i] = "decide" /\ i \in 1..m
      BY <1>2, <1>4, <1>9, <2>1
    <3>2. i + 6 <= m
      BY <1>6, <3>1
    <3>3. CASE i + 7 <= m
      <4>1. c[i + 7] = a[i + 7]
        BY <1>2, <1>4, <3>1, <3>3
      <4>2. QED
        BY <1>2, <1>3, <1>6, <3>1, <3>2, <3>3, <4>1
    <3>4. CASE i + 7 = m + 1
      <4>1. c[i + 7] = b[1]
        BY <1>2, <1>5, <3>4
      <4>2. QED
        BY <1>2, <1>3, <1>7, <3>2, <4>1
    <3>5. i + 7 <= m \/ i + 7 = m + 1
      BY <1>2, <3>2
    <3>6. QED
      BY <3>3, <3>4, <3>5
  <2>2. CASE i > m
    <3>1. i - m \in 1..n /\ b[i - m] = "decide"
      BY <1>2, <1>3, <1>5, <1>9, <2>2
    <3>2. (i - m) + 6 <= n /\ ((i - m) + 7 <= n => b[(i - m) + 7] \notin Follows)
      BY <1>7, <3>1
    <3>3. i + 6 <= Len(c)
      BY <1>2, <1>3, <3>2
    <3>4. ASSUME i + 7 <= Len(c) PROVE c[i + 7] = b[(i - m) + 7] /\ (i - m) + 7 <= n
      <4>1. i + 7 \in (m + 1)..(m + n) /\ (i + 7) - m = (i - m) + 7
        BY <1>2, <1>3, <2>2, <3>4
      <4>2. QED
        BY <1>2, <1>3, <1>5, <3>4, <4>1
    <3>5. QED
      BY <3>2, <3>3, <3>4
  <2>3. i <= m \/ i > m
    BY <1>2
  <2>4. QED
    BY <2>1, <2>2, <2>3, Zenon
<1>10. \A i \in 1..Len(c) : (i <= m /\ c[i] = a[i] /\ i \in 1..m) \/ (i > m /\ c[i] = b[i - m] /\ i - m \in 1..n)
  BY <1>2, <1>3, <1>4, <1>5
<1>11. \A i \in 2..Len(c) : c[i] # "claim"
  <2>1. ASSUME NEW i \in 2..Len(c) PROVE c[i] # "claim"
    <3>1. i \in 1..Len(c) /\ (i <= m => i \in 2..m)
      BY <1>2, <1>3
    <3>2. QED
      BY <1>6, <1>7, <1>10, <3>1
  <2>2. QED
    BY <2>1
<1>12. ASSUME NEW i \in 1..Len(c), c[i] = "insert", NEW j \in (i + 1)..Len(c) PROVE c[j] # "insert"
  <2>1. i - m \in 1..n /\ b[i - m] = "insert" /\ i > m
    BY <1>6, <1>10, <1>12
  <2>2. j \in 1..Len(c) /\ j > m /\ j - m \in ((i - m) + 1)..n
    BY <1>2, <1>3, <2>1
  <2>3. c[j] = b[j - m]
    BY <1>2, <1>10, <2>2, SMTT(30)
  <2>4. QED
    BY <1>7, <2>1, <2>2, <2>3
<1>13. Listed(c)
  BY <1>3, <1>8, <1>9, <1>11, <1>12 DEF Listed
<1>14. c[1] = a[1] /\ c # <<>>
  BY <1>2, <1>3, <1>4
<1>15. Part(c)
  BY <1>13, <1>14 DEF Part
<1>16. (Lacks(a, "claim") => Lacks(c, "claim")) /\ (Lacks(b, "insert") => Lacks(c, "insert"))
  BY <1>6, <1>7, <1>10, SMTT(30) DEF Lacks, m, n
<1>17. QED
  BY <1>14, <1>15, <1>16 DEF c

\* What every list of steps has, and what only some of them hold.
LEMMA StepsListed ==
  ASSUME NEW c
  PROVE  /\ Listed(StepsOf(c)) /\ StepsOf(c) # <<>> /\ StepsOf(c)[1] \notin Follows \cup {"decide"}
         /\ Lacks(StepsOf(c), "insert") \/ StepsOf(c)[1] = "claim"
         /\ Lacks(StepsOf(c), "decide") \/ c.name \in {"init", "agent", "expose"}
<1> DEFINE s == StepsOf(c)
<1> DEFINE P(t) == Part(t) /\ t[1] # "decide" /\ (Lacks(t, "insert") \/ t[1] = "claim")
<1>0. \A t : P(t) => Listed(t) /\ t # <<>> /\ t[1] \notin Follows \cup {"decide"} /\ (Lacks(t, "insert") \/ t[1] = "claim")
  BY DEF Part
<1>1. Part(InitSteps) /\ Lacks(InitSteps, "insert") /\ Lacks(InitSteps, "claim") /\ InitSteps[1] = "prepare"
  BY DEF Part, Lacks, Listed, InitSteps, Follows, Before, Words
<1>2. Part(UpSteps) /\ Lacks(UpSteps, "insert") /\ Lacks(UpSteps, "claim") /\ UpSteps[1] = "support" /\ Lacks(UpSteps, "decide")
  BY DEF Part, Lacks, Listed, UpSteps, Follows, Before, Words
<1>3. Part(<<"exec">>) /\ Lacks(<<"exec">>, "insert") /\ Lacks(<<"exec">>, "claim")
  BY DEF Part, Lacks, Listed, Follows, Before, Words
<1>4. Part(<<"down">>) /\ Lacks(<<"down">>, "insert") /\ Lacks(<<"down">>, "claim")
  BY DEF Part, Lacks, Listed, Follows, Before, Words
<1>5. Part(<<"claim", "entry">>) /\ Lacks(<<"claim", "entry">>, "insert")
  BY DEF Part, Lacks, Listed, Follows, Before, Words
<1>6. Part(<<"insert", "verify">>) /\ Lacks(<<"insert", "verify">>, "claim")
  BY DEF Part, Lacks, Listed, Follows, Before, Words
<1>7. Part(<<"down", "prune">>) /\ Lacks(<<"down", "prune">>, "insert") /\ Lacks(<<"down", "prune">>, "decide")
  BY DEF Part, Lacks, Listed, Follows, Before, Words
<1>8. Part(<<"list">>) /\ Lacks(<<"list">>, "insert") /\ Lacks(<<"list">>, "decide")
  BY DEF Part, Lacks, Listed, Follows, Before, Words
<1>9. CASE c.name = "init"
  <2>1. s = InitSteps
    BY <1>9 DEF StepsOf
  <2>2. QED
    BY <1>0, <1>1, <1>9, <2>1
<1>10. CASE c.name = "up"
  <2>1. s = UpSteps
    BY <1>10 DEF StepsOf
  <2>2. QED
    BY <1>0, <1>2, <2>1
<1>11. CASE c.name = "agent"
  <2> DEFINE a == InitSteps \o UpSteps
  <2> DEFINE b == a \o <<"exec">>
  <2>1. Part(a) /\ Lacks(a, "insert") /\ a[1] = "prepare"
    BY <1>1, <1>2, JoinIs
  <2> HIDE DEF a
  <2>2. Part(b) /\ Lacks(b, "insert") /\ b[1] = "prepare"
    BY <1>3, <2>1, JoinIs
  <2>3. b \o <<>> = b
    BY <2>2 DEF Part, Listed
  <2> HIDE DEF b
  <2>4. Part(b \o <<"down">>) /\ Lacks(b \o <<"down">>, "insert") /\ (b \o <<"down">>)[1] = "prepare"
    BY <1>4, <2>2, JoinIs
  <2>5. s = b \/ s = b \o <<"down">>
    <3>1. s = b \o (IF c.rm THEN <<"down">> ELSE <<>>)
      BY <1>11 DEF StepsOf, a, b
    <3>2. QED
      BY <2>3, <3>1
  <2>6. QED
    BY <1>0, <1>11, <2>2, <2>4, <2>5
<1>12. CASE c.name = "expose"
  <2> DEFINE a == <<"claim", "entry">> \o InitSteps
  <2> DEFINE b == a \o UpSteps
  <2> DEFINE d == b \o <<"insert", "verify">>
  <2>1. Part(a) /\ Lacks(a, "insert") /\ a[1] = "claim"
    BY <1>1, <1>5, JoinIs
  <2> HIDE DEF a
  <2>2. Part(b) /\ Lacks(b, "insert") /\ b[1] = "claim"
    BY <1>2, <2>1, JoinIs
  <2> HIDE DEF b
  <2>3. Part(d) /\ d[1] = "claim"
    BY <1>6, <2>2, JoinIs
  <2> HIDE DEF d
  <2>4. s = d
    BY <1>12 DEF StepsOf, a, b, d
  <2>5. QED
    BY <1>0, <1>12, <2>3, <2>4
<1>13. CASE c.name = "down"
  <2>1. s = <<"down", "prune">>
    BY <1>13 DEF StepsOf
  <2>2. QED
    BY <1>0, <1>7, <2>1
<1>14. CASE c.name \notin {"init", "up", "agent", "down", "expose"}
  <2>1. s = <<"list">>
    BY <1>14 DEF StepsOf
  <2>2. QED
    BY <1>0, <1>8, <2>1
<1>15. QED
  BY <1>9, <1>10, <1>11, <1>12, <1>13, <1>14

-----------------------------------------------------------------------------
(* What is left of a list.                                                 *)

\* A list from its n-th step on is a list, without a claim; what it holds, the whole list holds.
LEMMA RestIs ==
  ASSUME NEW s, Listed(s), NEW t \in Seq(Words), NEW n \in Nat, n >= 1,
         Len(t) + n = Len(s), \A i \in 1..Len(t) : t[i] = s[i + n]
  PROVE  /\ Listed(t) /\ Lacks(t, "claim")
         /\ \A word : Lacks(s, word) => Lacks(t, word)
<1>1. s \in Seq(Words) /\ Len(s) \in Nat /\ Len(t) \in Nat
  BY DEF Listed
<1>2. /\ \A i \in 2..Len(s) : s[i] \in Follows => s[i - 1] = Before[s[i]]
      /\ \A i \in 1..Len(s) : s[i] = "decide" => i + 6 <= Len(s) /\ (i + 7 <= Len(s) => s[i + 7] \notin Follows)
      /\ \A i \in 2..Len(s) : s[i] # "claim"
      /\ \A i \in 1..Len(s) : s[i] = "insert" => \A j \in (i + 1)..Len(s) : s[j] # "insert"
  BY DEF Listed
<1>3. \A i \in 1..Len(t) : i + n \in 2..Len(s) /\ i + n \in 1..Len(s) /\ t[i] = s[i + n]
  BY <1>1
<1>4. ASSUME NEW i \in 2..Len(t), t[i] \in Follows PROVE t[i - 1] = Before[t[i]]
  <2>1. i \in 1..Len(t) /\ i - 1 \in 1..Len(t) /\ (i - 1) + n = (i + n) - 1
    BY <1>1
  <2>2. t[i] = s[i + n] /\ t[i - 1] = s[(i + n) - 1] /\ i + n \in 2..Len(s)
    BY <1>3, <2>1
  <2>3. QED
    BY <1>2, <1>4, <2>2
<1>5. ASSUME NEW i \in 1..Len(t), t[i] = "decide"
      PROVE  i + 6 <= Len(t) /\ (i + 7 <= Len(t) => t[i + 7] \notin Follows)
  <2>1. i + n \in 1..Len(s) /\ s[i + n] = "decide"
    BY <1>3, <1>5
  <2>2. (i + n) + 6 <= Len(s) /\ ((i + n) + 7 <= Len(s) => s[(i + n) + 7] \notin Follows)
    BY <1>2, <2>1
  <2>3. i + 6 <= Len(t)
    BY <1>1, <2>2
  <2>4. ASSUME i + 7 <= Len(t) PROVE t[i + 7] = s[(i + n) + 7] /\ (i + n) + 7 <= Len(s)
    <3>1. i + 7 \in 1..Len(t) /\ (i + 7) + n = (i + n) + 7
      BY <1>1, <2>4
    <3>2. QED
      BY <1>1, <1>3, <2>4, <3>1
  <2>5. QED
    BY <2>2, <2>3, <2>4
<1>6. \A i \in 1..Len(t) : t[i] # "claim"
  BY <1>2, <1>3
<1>7. ASSUME NEW i \in 1..Len(t), t[i] = "insert", NEW j \in (i + 1)..Len(t) PROVE t[j] # "insert"
  <2>1. j \in 1..Len(t) /\ j + n \in ((i + n) + 1)..Len(s)
    BY <1>1
  <2>2. s[i + n] = "insert" /\ i + n \in 1..Len(s) /\ t[j] = s[j + n]
    BY <1>3, <1>7, <2>1
  <2>3. QED
    BY <1>2, <2>1, <2>2
<1>8. \A i \in 2..Len(t) : t[i] # "claim"
  BY <1>1, <1>6
<1>9. Listed(t)
  BY <1>4, <1>5, <1>7, <1>8 DEF Listed
<1>10. QED
  BY <1>3, <1>6, <1>9 DEF Lacks

\* One step further.
LEMMA TailIs ==
  ASSUME NEW s, Listed(s), s # <<>>
  PROVE  /\ Listed(Tail(s)) /\ Lacks(Tail(s), "claim")
         /\ \A word : Lacks(s, word) => Lacks(Tail(s), word)
         /\ Tail(s) # <<>> /\ Head(Tail(s)) \in Follows => Head(s) = Before[Head(Tail(s))]
         /\ Head(s) = "insert" => Lacks(Tail(s), "insert")
<1> DEFINE t == Tail(s)
<1>1. s \in Seq(Words) /\ Len(s) \in Nat /\ Len(s) >= 1 /\ Head(s) = s[1]
  BY DEF Listed
<1>2. t \in Seq(Words) /\ Len(t) + 1 = Len(s) /\ \A i \in 1..Len(t) : t[i] = s[i + 1]
  BY <1>1
<1>3. t # <<>> => Head(t) = s[2] /\ 2 \in 2..Len(s)
  BY <1>1, <1>2
<1> HIDE DEF t
<1>4. Listed(t) /\ Lacks(t, "claim") /\ \A word : Lacks(s, word) => Lacks(t, word)
  BY <1>2, RestIs
<1>5. t # <<>> /\ Head(t) \in Follows => Head(s) = Before[Head(t)]
  BY <1>1, <1>3 DEF Listed
<1>6. ASSUME Head(s) = "insert" PROVE Lacks(t, "insert")
  <2>1. \A j \in 2..Len(s) : s[j] # "insert"
    BY <1>1, <1>6 DEF Listed
  <2>2. \A i \in 1..Len(t) : i + 1 \in 2..Len(s)
    BY <1>1, <1>2
  <2>3. QED
    BY <1>2, <2>1, <2>2 DEF Lacks
<1>7. QED
  BY <1>4, <1>5, <1>6 DEF t

\* Past the steps that a current stack does not need.
LEMMA SkipIs ==
  ASSUME NEW s, Listed(s), s # <<>>, Head(s) = "decide"
  PROVE  LET t == SubSeq(s, 8, Len(s)) IN
         /\ Listed(t) /\ Lacks(t, "claim")
         /\ \A word : Lacks(s, word) => Lacks(t, word)
         /\ t # <<>> => Head(t) \notin Follows
<1> DEFINE t == SubSeq(s, 8, Len(s))
<1>1. s \in Seq(Words) /\ Len(s) \in Nat /\ Len(s) >= 1 /\ s[1] = "decide"
  BY DEF Listed
<1>2. Len(s) >= 7 /\ (8 <= Len(s) => s[8] \notin Follows)
  BY <1>1 DEF Listed
<1>3. t \in Seq(Words) /\ Len(t) + 7 = Len(s)
  <2>1. Len(t) = Len(s) - 7
    <3>1. CASE Len(s) >= 8
      BY <1>1, <3>1
    <3>2. CASE Len(s) = 7
      BY <1>1, <3>2
    <3>3. Len(s) \in Nat /\ Len(s) >= 7
      BY <1>1, <1>2
    <3>4. \A n \in Nat : n >= 7 => n >= 8 \/ n = 7
      OBVIOUS
    <3>5. QED
      BY <3>1, <3>2, <3>3, <3>4, Zenon
  <2>2. \A i \in 8..Len(s) : s[i] \in Words
    BY <1>1
  <2>3. t \in Seq(Words)
    BY <1>1, <2>2
  <2>4. QED
    BY <1>1, <2>1, <2>3
<1>4. \A i \in 1..Len(t) : t[i] = s[i + 7]
  BY <1>1, <1>2, <1>3
<1> HIDE DEF t
<1>5. Listed(t) /\ Lacks(t, "claim") /\ \A word : Lacks(s, word) => Lacks(t, word)
  BY <1>3, <1>4, RestIs
<1>6. t # <<>> => Head(t) = s[8] /\ 8 <= Len(s)
  BY <1>1, <1>3, <1>4
<1>7. QED
  BY <1>2, <1>5, <1>6 DEF t

\* A command that ran out or was cut short has nothing left.
LEMMA NothingLeft == Listed(<<>>) /\ \A word : Lacks(<<>>, word)
  BY DEF Listed, Lacks

-----------------------------------------------------------------------------
(* The steps of a command.                                                 *)

(* The stack, its digest and the mounted file are as they were.            *)
Same(e, d) == IsDisk(e) /\ e.compose = d.compose /\ e.digest = d.digest /\ e.bypass = d.bypass

\* A generated state in which another file was written.
LEMMA FieldIs ==
  ASSUME NEW d, IsDisk(d), NEW v, NEW e,
         \/ e = [d EXCEPT !.files = v] \/ e = [d EXCEPT !.layer = v] \/ e = [d EXCEPT !.build = v]
         \/ e = [d EXCEPT !.mise = v] \/ e = [d EXCEPT !.support = v]
  PROVE  Same(e, d)
<1>1. CASE e = [d EXCEPT !.files = v]
  BY <1>1 DEF IsDisk, Same
<1>2. CASE e = [d EXCEPT !.layer = v]
  BY <1>2 DEF IsDisk, Same
<1>3. CASE e = [d EXCEPT !.build = v]
  BY <1>3 DEF IsDisk, Same
<1>4. CASE e = [d EXCEPT !.mise = v]
  BY <1>4 DEF IsDisk, Same
<1>5. CASE e = [d EXCEPT !.support = v]
  BY <1>5 DEF IsDisk, Same
<1>6. QED
  BY <1>1, <1>2, <1>3, <1>4, <1>5, Zenon

\* Another bypass file.
LEMMA BypassIs ==
  ASSUME NEW d, IsDisk(d), NEW v, NEW e, e = [d EXCEPT !.bypass = v]
  PROVE  IsDisk(e) /\ e.compose = d.compose /\ e.digest = d.digest /\ e.bypass = v
  BY DEF IsDisk

\* Another stack.
LEMMA StackIs ==
  ASSUME NEW d, IsDisk(d), NEW v, NEW e, e = [d EXCEPT !.compose = v]
  PROVE  IsDisk(e) /\ e.compose = v /\ e.bypass = d.bypass
  BY DEF IsDisk

\* Another digest.
LEMMA DigestIs ==
  ASSUME NEW d, IsDisk(d), NEW v, NEW e, e = [d EXCEPT !.digest = v]
  PROVE  IsDisk(e) /\ e.compose = d.compose /\ e.bypass = d.bypass
  BY DEF IsDisk

(* No stack on disk is written.                                            *)
StackSame == \A w \in Workspaces : disk'[w].compose = disk[w].compose

\* What a step that goes on, or gives up, leaves of the list.
LEMMA Moved ==
  ASSUME Listed(pc), pc # <<>>, pc' = Tail(pc) \/ pc' = <<>>
  PROVE  /\ Listed(pc') /\ Lacks(pc', "claim")
         /\ \A word : Lacks(pc, word) => Lacks(pc', word)
         /\ \A word \in Follows : At(word)' => At(Before[word])
         /\ At("insert") => Lacks(pc', "insert")
<1>1. CASE pc' = <<>>
  BY <1>1, NothingLeft DEF At
<1>2. CASE pc' = Tail(pc)
  <2>1. /\ Listed(pc') /\ Lacks(pc', "claim")
        /\ \A word : Lacks(pc, word) => Lacks(pc', word)
        /\ pc' # <<>> /\ Head(pc') \in Follows => Head(pc) = Before[Head(pc')]
        /\ Head(pc) = "insert" => Lacks(pc', "insert")
    BY <1>2, TailIs
  <2>2. QED
    BY <2>1 DEF At
<1>3. QED
  BY <1>1, <1>2

\* A state written for the workspace of the command.
LEMMA DiskSet ==
  ASSUME StepsInv, pc # <<>>, NEW d, DiskOK(d), SetDisk(d)
  PROVE  /\ W \in Workspaces /\ disk'[W] = d
         /\ \A w \in Workspaces : w # W => disk'[w] = disk[w]
         /\ disk' = [w \in Workspaces |-> disk'[w]] /\ \A w \in Workspaces : DiskOK(disk'[w])
<1>1. W \in Workspaces
  BY CommandsAssumption DEF StepsInv, W
<1>2. disk = [w \in Workspaces |-> disk[w]] /\ \A w \in Workspaces : DiskOK(disk[w])
  BY DEF StepsInv, Maps
<1>3. disk' = [disk EXCEPT ![W] = d]
  BY DEF SetDisk
<1>4. disk'[W] = d /\ \A w \in Workspaces : w # W => disk'[w] = disk[w]
  BY <1>1, <1>2, <1>3
<1>5. disk' = [w \in Workspaces |-> disk'[w]]
  BY <1>1, <1>2, <1>3
<1>6. QED
  BY <1>1, <1>2, <1>4, <1>5

\* The list, the command and the maps behind a step.
LEMMA StepsKept ==
  ASSUME StepsInv, pc # <<>>, pc' = Tail(pc) \/ pc' = <<>>, cmd' = cmd, IsGen(gen'), Maps'
  PROVE  StepsInv'
<1>1. Listed(pc') /\ (Lacks(pc, "decide") => Lacks(pc', "decide"))
  BY Moved DEF StepsInv
<1>2. QED
  BY <1>1 DEF StepsInv

\* A step that writes neither the stack nor its digest leaves a cut generation stale.
LEMMA CutKept ==
  ASSUME StepsInv, CutInv, pc # <<>>, pc' = Tail(pc) \/ pc' = <<>>, ~At("compose"), cmd' = cmd, cfg' = cfg, torn' = torn,
         \A w \in Workspaces : disk'[w].compose = disk[w].compose /\ disk'[w].digest = disk[w].digest
  PROVE  CutInv'
<1>1. At("digest")' => At("compose")
  BY Moved DEF StepsInv, Follows, Before
<1>2. Retried'
  BY DEF CutInv, Retried, stack_is_stale, config_digest
<1>3. QED
  BY <1>1, <1>2 DEF CutInv

\* Only five steps lead into a generation.
LEMMA BackendLeft ==
  ASSUME StepsInv, pc # <<>>, pc' = Tail(pc) \/ pc' = <<>>,
         Head(pc) \notin {"decide", "rewrites", "ambient", "grants", "assemble"}
  PROVE  BackendInv'
<1>1. \A word \in Making : ~At(word)'
  BY Moved DEF StepsInv, Follows, Before, Making, At
<1>2. QED
  BY <1>1 DEF BackendInv, Making

\* Within one, the backend stays.
LEMMA BackendCarried ==
  ASSUME StepsInv, BackendInv, pc # <<>>, Head(pc) \in {"rewrites", "ambient", "grants"}, cmd' = cmd,
         pc' = <<>> \/ (pc' = Tail(pc) /\ gen'.backend = gen.backend),
         generated_backend(disk[W])' = generated_backend(disk[W])
  PROVE  BackendInv'
<1>1. CASE pc' = <<>>
  BY <1>1 DEF BackendInv, At
<1>2. CASE pc' = Tail(pc) /\ gen'.backend = gen.backend
  <2>1. \A word \in Making : At(word)' => At(Before[word])
    BY <1>2, Moved DEF StepsInv, Follows, Making
  <2>2. ~At("compose")'
    BY <2>1 DEF At, Before, Making
  <2>3. \E s \in Making : At(s)
    BY DEF At, Making
  <2>4. gen.backend = KeptBackend(disk[W], cmd.backend) /\ cmd.name \in {"init", "agent", "expose"}
    BY <2>3 DEF BackendInv
  <2>5. KeptBackend(disk[W], cmd.backend)' = KeptBackend(disk[W], cmd.backend)
    BY DEF KeptBackend
  <2>6. QED
    BY <1>2, <2>2, <2>4, <2>5 DEF BackendInv
<1>3. QED
  BY <1>1, <1>2

\* The mounted file, where docker is not the next call.
LEMMA BypassLeft ==
  ASSUME StepsInv, BypassInv, pc # <<>>, pc' = Tail(pc) \/ pc' = <<>>, Head(pc) \notin {"support", "build"},
         \A w \in Workspaces : disk'[w].bypass # "directory"
  PROVE  BypassInv'
<1>1. ~At("build")' /\ ~At("up")'
  BY Moved DEF StepsInv, Follows, Before, At
<1>2. QED
  BY <1>1 DEF BypassInv, BypassIsFile

\* A claim behind a step that made none.
LEMMA ClaimKept ==
  ASSUME StepsInv, ClaimInv, pc # <<>>, pc' = Tail(pc) \/ pc' = <<>>, ~At("claim"), cmd' = cmd,
         check_claim(claims, W, cmd.publish, cmd.port) => check_claim(claims', W, cmd.publish, cmd.port)
  PROVE  ClaimInv'
<1>1. Lacks(pc, "claim")
  <2>1. pc \in Seq(Words) /\ \A i \in 2..Len(pc) : pc[i] # "claim"
    BY DEF StepsInv, Listed
  <2>2. pc[1] # "claim"
    BY <2>1 DEF At
  <2>3. \A i \in 1..Len(pc) : i = 1 \/ i \in 2..Len(pc)
    BY <2>1
  <2>4. QED
    BY <2>1, <2>2, <2>3 DEF Lacks
<1>2. Lacks(pc, "insert") => Lacks(pc', "insert")
  BY Moved DEF StepsInv
<1>3. QED
  BY <1>1, <1>2 DEF ClaimInv, W

\* A step that leaves the disk, the config and the generation alone.
LEMMA OnlyMoved ==
  ASSUME Inv, pc # <<>>, pc' = Tail(pc) \/ pc' = <<>>, UNCHANGED <<cfg, disk, cmd, gen, torn>>,
         Head(pc) \notin {"decide", "rewrites", "ambient", "grants", "assemble", "compose", "support", "build"}
  PROVE  StepsInv' /\ CutInv' /\ BackendInv' /\ BypassInv'
<1>1. StepsInv'
  BY StepsKept DEF Inv, StepsInv, Maps
<1>2. CutInv'
  BY CutKept DEF Inv, At
<1>3. BackendInv'
  BY BackendLeft DEF Inv
<1>4. BypassInv'
  BY BypassLeft DEF Inv, BypassInv, BypassIsFile
<1>5. QED
  BY <1>1, <1>2, <1>3, <1>4

\* A step that writes files of the workspace, but not the stack or its digest.
LEMMA FilesWritten ==
  ASSUME Inv, pc # <<>>, pc' = Tail(pc) \/ pc' = <<>>, UNCHANGED <<cfg, cmd, torn>>, IsGen(gen'),
         NEW d, SetDisk(d), IsDisk(d), d.compose = disk[W].compose, d.digest = disk[W].digest, d.bypass # "directory",
         Head(pc) # "compose"
  PROVE  /\ StepsInv' /\ CutInv' /\ StackSame /\ W \in Workspaces /\ disk'[W] = d
         /\ \A w \in Workspaces : disk'[w].bypass # "directory"
         /\ generated_backend(disk[W])' = generated_backend(disk[W])
<1>1. W \in Workspaces /\ DiskOK(disk[W])
  BY CommandsAssumption DEF Inv, StepsInv, Maps, W
<1>2. DiskOK(d)
  BY <1>1 DEF DiskOK
<1>3. /\ disk'[W] = d /\ \A w \in Workspaces : w # W => disk'[w] = disk[w]
      /\ disk' = [w \in Workspaces |-> disk'[w]] /\ \A w \in Workspaces : DiskOK(disk'[w])
  BY <1>2, DiskSet DEF Inv
<1>4. Maps'
  BY <1>3 DEF Inv, StepsInv, Maps
<1>5. StepsInv'
  BY <1>4, StepsKept DEF Inv
<1>6. CutInv'
  BY <1>3, CutKept DEF Inv, At
<1>7. \A w \in Workspaces : disk'[w].bypass # "directory"
  BY <1>3 DEF Inv, BypassInv, BypassIsFile
<1>8. generated_backend(disk[W])' = generated_backend(disk[W])
  BY <1>3 DEF generated_backend, W
<1>9. StackSame
  BY <1>3 DEF StackSame
<1>10. QED
  BY <1>1, <1>3, <1>5, <1>6, <1>7, <1>8, <1>9

\* The claims behind a step that does not touch them.
LEMMA ClaimsSame ==
  ASSUME Inv, pc # <<>>, pc' = Tail(pc) \/ pc' = <<>>, UNCHANGED <<cmd, claims>>, Head(pc) # "claim"
  PROVE  ClaimInv'
  BY ClaimKept DEF Inv, At

\* The support files are not the stack, its digest or the bypass file.
LEMMA SupportIs ==
  ASSUME NEW d, IsDisk(d)
  PROVE  Same(prepare_support_files(d), d)
<1>1. PICK v : v = TRUE
  OBVIOUS
<1>2. PICK e : e = [d EXCEPT !.support = v]
  OBVIOUS
<1>3. Same(e, d)
  BY <1>2, FieldIs, Zenon
<1>4. e = prepare_support_files(d)
  BY <1>1, <1>2, Zenon DEF prepare_support_files
<1>5. QED
  BY <1>3, <1>4, Zenon

\* Nor is the agent's mise file.
LEMMA MiseIs ==
  ASSUME NEW d, IsDisk(d), NEW c, NEW h
  PROVE  Same(ensure_mise_agent(d, c, h), d)
<1> DEFINE v == rewrite_mise_toml(h.mise.values, h.home, h.container)
<1> DEFINE writes == c.home /\ {"mise.toml", "mise.local.toml"} \subseteq h.mise.files /\ d.mise = <<>>
<1>1. ensure_mise_agent(d, c, h) = IF writes THEN [d EXCEPT !.mise = v] ELSE d
  BY Zenon DEF ensure_mise_agent
<1> HIDE DEF v, writes
<1>2. ensure_mise_agent(d, c, h) = [d EXCEPT !.mise = v] \/ ensure_mise_agent(d, c, h) = d
  BY <1>1, Zenon
<1>3. Same(d, d)
  BY DEF Same
<1>4. QED
  BY <1>2, <1>3, FieldIs, Zenon

\* The bypass file, once ensured, is one.
LEMMA EnsureIs ==
  ASSUME NEW d, IsDisk(d), d.bypass # "directory"
  PROVE  LET e == ensure_bypass_file(d) IN
         IsDisk(e) /\ e.compose = d.compose /\ e.digest = d.digest /\ e.bypass \notin {"directory", "none"}
<1> DEFINE e == ensure_bypass_file(d)
<1>1. e = (IF d.bypass = "none" THEN [d EXCEPT !.bypass = "file"] ELSE d)
  BY DEF ensure_bypass_file
<1> HIDE DEF e
<1>2. CASE d.bypass = "none"
  <2>1. e = [d EXCEPT !.bypass = "file"]
    BY <1>1, <1>2
  <2>2. IsDisk(e) /\ e.compose = d.compose /\ e.digest = d.digest /\ e.bypass = "file"
    BY <2>1, BypassIs
  <2>3. QED
    BY <2>2 DEF e
<1>3. CASE d.bypass # "none"
  BY <1>1, <1>3 DEF e
<1>4. QED
  BY <1>2, <1>3

\* prepare_workspace's files.
LEMMA PrepareKeeps == ASSUME Inv, Prepare PROVE Inv' /\ StackSame
<1> DEFINE e == IF resolve_backend(cmd.backend) = "ebpf" THEN ensure_bypass_file(disk[W]) ELSE disk[W]
<1> DEFINE f == prepare_support_files(e)
<1> DEFINE g == ensure_mise_agent(f, cfg[W], host)
<1> DEFINE d == IF cfg[W].valid THEN g ELSE e
<1>1. /\ pc # <<>> /\ Head(pc) = "prepare" /\ (pc' = Tail(pc) \/ pc' = <<>>) /\ SetDisk(d)
      /\ UNCHANGED <<cfg, cmd, torn, gen, claims>>
  BY DEF Prepare, At, Step, World
<1>2. W \in Workspaces /\ IsDisk(disk[W]) /\ disk[W].bypass # "directory" /\ IsGen(gen)
  BY <1>1, CommandsAssumption DEF Inv, StepsInv, Maps, DiskOK, W, BypassInv, BypassIsFile
<1>3. IsDisk(e) /\ e.compose = disk[W].compose /\ e.digest = disk[W].digest /\ e.bypass # "directory"
  BY <1>2, EnsureIs
<1> HIDE DEF e
<1>4. IsDisk(f) /\ f.compose = disk[W].compose /\ f.digest = disk[W].digest /\ f.bypass # "directory"
  BY <1>3, SupportIs DEF Same
<1> HIDE DEF f
<1>5. IsDisk(g) /\ g.compose = disk[W].compose /\ g.digest = disk[W].digest /\ g.bypass # "directory"
  BY <1>4, MiseIs DEF Same
<1> HIDE DEF g
<1>6. IsDisk(d) /\ d.compose = disk[W].compose /\ d.digest = disk[W].digest /\ d.bypass # "directory"
  BY <1>3, <1>5
<1> HIDE DEF d
<1>7. StepsInv' /\ CutInv' /\ StackSame /\ \A w \in Workspaces : disk'[w].bypass # "directory"
  BY <1>1, <1>2, <1>6, FilesWritten
<1>8. BackendInv'
  BY <1>1, BackendLeft DEF Inv
<1>9. BypassInv'
  BY <1>1, <1>7, BypassLeft DEF Inv
<1>10. ClaimInv'
  BY <1>1, ClaimsSame
<1>11. QED
  BY <1>7, <1>8, <1>9, <1>10 DEF Inv

\* A stack taken for current is passed over; another is begun, and stale until it is whole.
LEMMA DecideKeeps == ASSUME Inv, Decide PROVE Inv'
<1> DEFINE current == disk[W].compose # <<>> /\ ~stack_is_stale(disk[W], cfg[W])
<1>1. /\ At("decide") /\ pc # <<>> /\ Head(pc) = "decide" /\ UNCHANGED <<cfg, disk, cmd, claims>>
      /\ pc' = (IF current THEN SubSeq(pc, 8, Len(pc)) ELSE Tail(pc))
      /\ gen' = (IF current THEN NoGen ELSE [NoGen EXCEPT !.backend = KeptBackend(disk[W], cmd.backend)])
      /\ torn' = (IF current THEN torn ELSE [torn EXCEPT ![W] = "cut"])
  BY DEF Decide, At, World
<1>2. W \in Workspaces /\ cmd \in Commands /\ Maps /\ Listed(pc) /\ pc \in Seq(Words)
  BY <1>1, CommandsAssumption DEF Inv, StepsInv, W, Listed
<1>3. cmd.name \in {"init", "agent", "expose"}
  <2>1. 1 \in 1..Len(pc) /\ pc[1] = "decide"
    BY <1>1, <1>2
  <2>2. QED
    BY <2>1 DEF Inv, StepsInv, Lacks
<1>4. IsGen(gen') /\ (~current => gen'.backend = KeptBackend(disk[W], cmd.backend))
  BY <1>1 DEF NoGen, IsGen
<1>5. Maps'
  BY <1>1, <1>2 DEF Maps
<1>6. /\ Listed(pc') /\ (Lacks(pc, "insert") => Lacks(pc', "insert"))
      /\ \A word \in Follows : At(word)' => word = "rewrites" /\ ~current
  <2>1. CASE current
    <3>1. /\ Listed(pc') /\ (Lacks(pc, "insert") => Lacks(pc', "insert"))
          /\ pc' # <<>> => Head(pc') \notin Follows
      BY <1>1, <1>2, <2>1, SkipIs
    <3>2. QED
      BY <3>1 DEF At
  <2>2. CASE ~current
    <3>1. Listed(pc') /\ (Lacks(pc, "insert") => Lacks(pc', "insert")) /\ \A word \in Follows : At(word)' => At(Before[word])
      BY <1>1, <1>2, <2>2, Moved
    <3>2. \A word \in Follows : Before[word] = "decide" => word = "rewrites"
      BY DEF Follows, Before
    <3>3. QED
      BY <1>1, <2>2, <3>1, <3>2 DEF At
  <2>3. QED
    BY <2>1, <2>2
<1>7. StepsInv'
  BY <1>1, <1>2, <1>3, <1>4, <1>5, <1>6 DEF StepsInv
<1>8. CutInv'
  <2>1. Retried'
    <3>1. ASSUME NEW w \in Workspaces, torn'[w] = "cut" PROVE disk[w].compose = <<>> \/ stack_is_stale(disk[w], cfg[w])
      <4>1. CASE current \/ w # W
        <5>1. torn[w] = "cut"
          BY <1>1, <1>2, <3>1, <4>1 DEF Maps
        <5>2. QED
          BY <5>1 DEF Inv, CutInv, Retried
      <4>2. CASE ~current /\ w = W
        BY <4>2
      <4>3. QED
        BY <4>1, <4>2
    <3>2. QED
      BY <1>1, <3>1 DEF Retried, stack_is_stale, config_digest
  <2>2. ~At("digest")'
    BY <1>6 DEF Follows
  <2>3. QED
    BY <2>1, <2>2 DEF CutInv
<1>9. BackendInv'
  <2>1. \A s \in Making : At(s)' => s = "rewrites" /\ ~current
    BY <1>6 DEF Follows, Making
  <2>2. KeptBackend(disk[W], cmd.backend)' = KeptBackend(disk[W], cmd.backend) /\ cmd'.name = cmd.name
    BY <1>1 DEF KeptBackend, generated_backend, W
  <2>3. ~At("compose")'
    BY <2>1 DEF Making
  <2> HIDE DEF current
  <2>4. QED
    BY <1>3, <1>4, <2>1, <2>2, <2>3 DEF BackendInv
<1>10. BypassInv'
  <2>1. ~At("build")' /\ ~At("up")'
    BY <1>6 DEF Follows
  <2>2. QED
    BY <1>1, <2>1 DEF Inv, BypassInv, BypassIsFile
<1>11. ClaimInv'
  <2>1. Lacks(pc, "claim")
    <3>1. \A i \in 2..Len(pc) : pc[i] # "claim"
      BY <1>2 DEF Listed
    <3>2. pc[1] # "claim" /\ \A i \in 1..Len(pc) : i = 1 \/ i \in 2..Len(pc)
      BY <1>1, <1>2
    <3>3. QED
      BY <3>1, <3>2 DEF Lacks
  <2>2. QED
    BY <1>1, <1>6, <2>1 DEF Inv, ClaimInv, check_claim, W
<1>12. QED
  BY <1>7, <1>8, <1>9, <1>10, <1>11 DEF Inv

\* The steps that write twins and grants.
LEMMA WritesKeeps == ASSUME Inv, Rewrites \/ Ambient \/ Grants PROVE Inv' /\ StackSame
<1>1. /\ pc # <<>> /\ Head(pc) \in {"rewrites", "ambient", "grants"} /\ UNCHANGED <<cfg, cmd, torn, claims>>
      /\ pc' = Tail(pc) \/ pc' = <<>>
  BY DEF Rewrites, Ambient, Grants, At, Step, World
<1>2. W \in Workspaces /\ IsDisk(disk[W]) /\ disk[W].bypass # "directory" /\ IsGen(gen) /\ cmd \in Commands
  BY <1>1, CommandsAssumption DEF Inv, StepsInv, Maps, DiskOK, W, BypassInv, BypassIsFile
<1>3. /\ IsGen(gen') /\ (pc' = <<>> \/ (pc' = Tail(pc) /\ gen'.backend = gen.backend))
  <2>1. CASE Rewrites
    <3> DEFINE out == IF resolve(host, cfg[W]).ok /\ secrets(host, cfg[W]) THEN write_rewrites(host, cfg[W])
                      ELSE [Collector EXCEPT !.ok = FALSE]
    <3>1. /\ pc' = (IF out.ok THEN Tail(pc) ELSE <<>>)
          /\ gen' = (IF out.ok THEN [gen EXCEPT !.cfg = <<cfg[W]>>, !.out = out] ELSE NoGen)
      BY <2>1, Zenon DEF Rewrites, Step
    <3> HIDE DEF out
    <3>2. PICK e : e = [gen EXCEPT !.cfg = <<cfg[W]>>, !.out = out]
      OBVIOUS
    <3> HIDE DEF out
    <3>7. IsGen(e) /\ e.backend = gen.backend
      BY <1>2, <3>2 DEF IsGen
    <3>3. IsGen(NoGen)
      BY DEF IsGen, NoGen
    <3>4. CASE out.ok
      BY <3>1, <3>2, <3>7, <3>4, Zenon
    <3>5. CASE ~out.ok
      <4>1. gen' = NoGen /\ pc' = <<>>
        BY <3>1, <3>5, Zenon
      <4>2. QED
        BY <3>3, <4>1, Zenon
    <3>6. QED
      BY <3>4, <3>5
  <2>2. CASE Ambient
    <3> DEFINE out == derive_sources(host, gen.cfg[1])
    <3>1. /\ pc' = Tail(pc)
          /\ gen' = [gen EXCEPT !.out.files = out.files @@ @, !.out.mounts = @ \o out.mounts,
                                !.out.grants = @ \o out.grants]
      BY <2>2 DEF Ambient, Step
    <3> HIDE DEF out
    <3>2. IsGen(gen') /\ gen'.backend = gen.backend
      BY <1>2, <3>1 DEF IsGen
    <3>3. QED
      BY <3>1, <3>2
  <2>3. CASE Grants
    BY <1>2, <2>3 DEF Grants, Step
  <2>4. QED
    BY <2>1, <2>2, <2>3
<1>4. PICK d : SetDisk(d) /\ \E v : d = [disk[W] EXCEPT !.files = v] \/ d = [disk[W] EXCEPT !.layer = v]
  <2>1. CASE Rewrites
    BY <2>1, Zenon DEF Rewrites
  <2>2. CASE Ambient
    BY <2>2, Zenon DEF Ambient
  <2>3. CASE Grants
    BY <2>3, Zenon DEF Grants
  <2>4. QED
    BY <2>1, <2>2, <2>3
<1>5. IsDisk(d) /\ d.compose = disk[W].compose /\ d.digest = disk[W].digest /\ d.bypass # "directory"
  <2>1. IsDisk(d) /\ d.compose = disk[W].compose /\ d.digest = disk[W].digest /\ d.bypass = disk[W].bypass
    <3>1. PICK v : d = [disk[W] EXCEPT !.files = v] \/ d = [disk[W] EXCEPT !.layer = v]
      BY <1>4
    <3>2. QED
      BY <1>2, <3>1, FieldIs DEF Same
  <2>2. QED
    BY <1>2, <2>1
<1>6. /\ StepsInv' /\ CutInv' /\ StackSame /\ \A w \in Workspaces : disk'[w].bypass # "directory"
      /\ generated_backend(disk[W])' = generated_backend(disk[W])
  BY <1>1, <1>3, <1>4, <1>5, FilesWritten
<1>7. BackendInv'
  BY <1>1, <1>3, <1>6, BackendCarried DEF Inv
<1>8. BypassInv'
  BY <1>1, <1>6, BypassLeft DEF Inv
<1>9. ClaimInv'
  BY <1>1, ClaimsSame
<1>10. QED
  BY <1>6, <1>7, <1>8, <1>9 DEF Inv

\* The service that captures is of the backend asked for.
LEMMA AssembledBackend ==
  ASSUME NEW h, NEW c, NEW b, NEW fm, NEW ad, Assemble(h, c, b, fm, ad).ok
  PROVE  Assemble(h, c, b, fm, ad).v.hodor.backend = b
<1>1. Assemble(h, c, b, fm, ad) = Failed \/ \E m, g : \E a :
        Assemble(h, c, b, fm, ad) = Done([shape |-> StackShape, cfg |-> c, hodor |-> hodor_service(h, c, b, m, g),
                                          agent |-> a, fwd |-> fwd_service])
  BY Zenon DEF Assemble
<1>2. Failed.ok = FALSE
  BY DEF Failed
<1>3. PICK m, g, a : Assemble(h, c, b, fm, ad) =
        Done([shape |-> StackShape, cfg |-> c, hodor |-> hodor_service(h, c, b, m, g), agent |-> a, fwd |-> fwd_service])
  BY <1>1, <1>2
<1>4. hodor_service(h, c, b, m, g).backend = b
  BY DEF hodor_service
<1>5. QED
  BY <1>3, <1>4 DEF Done

\* The stack in the making.
LEMMA AssembleKeeps == ASSUME Inv, DoAssemble PROVE Inv'
<1> DEFINE s == Assemble(host, gen.cfg[1], gen.backend, gen.out.mounts, gen.out.grants)
<1>1. /\ At("assemble") /\ pc # <<>> /\ Head(pc) = "assemble" /\ UNCHANGED <<cfg, disk, cmd, torn, claims>>
      /\ pc' = (IF s.ok THEN Tail(pc) ELSE <<>>)
      /\ gen' = (IF s.ok THEN [gen EXCEPT !.stack = <<s.v>>] ELSE NoGen)
  BY Zenon DEF DoAssemble, At, Step
<1>2. s.ok => s.v.hodor.backend = gen.backend
  BY AssembledBackend
<1> HIDE DEF s
<1>3. IsGen(gen) /\ IsGen(gen') /\ (s.ok => gen'.backend = gen.backend /\ gen'.stack = <<s.v>>)
  BY <1>1 DEF Inv, StepsInv, IsGen, NoGen
<1>4. pc' = Tail(pc) \/ pc' = <<>>
  BY <1>1
<1>5. StepsInv'
  BY <1>1, <1>3, <1>4, StepsKept DEF Inv, StepsInv, Maps
<1>6. CutInv'
  BY <1>1, <1>4, CutKept DEF Inv, At
<1>7. BackendInv'
  <2>1. CASE ~s.ok
    BY <1>1, <2>1 DEF BackendInv, At
  <2>2. CASE s.ok
    <3>1. \A word \in Making : At(word)' => At(Before[word])
      BY <1>1, <1>4, Moved DEF Inv, StepsInv, Follows, Making
    <3>2. \A word \in Making : At(word)' => word = "compose"
      BY <1>1, <3>1 DEF At, Before, Making
    <3>3. gen.backend = KeptBackend(disk[W], cmd.backend) /\ cmd.name \in {"init", "agent", "expose"}
      BY <1>1 DEF Inv, BackendInv, Making
    <3>4. KeptBackend(disk[W], cmd.backend)' = KeptBackend(disk[W], cmd.backend) /\ cmd'.name = cmd.name
      BY <1>1 DEF KeptBackend, generated_backend, W
    <3>5. gen'.stack # <<>> /\ gen'.stack[1].hodor.backend = gen'.backend
      BY <1>2, <1>3, <2>2
    <3>6. gen'.backend = gen.backend
      BY <1>3, <2>2
    <3>7. QED
      BY <3>3, <3>4, <3>5, <3>6 DEF BackendInv
  <2>3. QED
    BY <2>1, <2>2
<1>8. BypassInv'
  BY <1>1, <1>4, BypassLeft DEF Inv, BypassInv, BypassIsFile
<1>9. ClaimInv'
  BY <1>1, <1>4, ClaimsSame
<1>10. QED
  BY <1>5, <1>6, <1>7, <1>8, <1>9 DEF Inv

\* The stack that is written names the backend that was kept or asked for.
LEMMA ComposeBackend ==
  ASSUME Inv, WriteCompose
  PROVE  /\ gen.stack # <<>> /\ W \in Workspaces /\ cmd \in Commands
         /\ gen.stack[1].hodor.backend = KeptBackend(disk[W], cmd.backend)
         /\ KeptBackend(disk[W], cmd.backend) # "none"
         /\ cmd.name \in {"init", "agent", "expose"}
<1>1. At("compose") /\ pc # <<>>
  BY DEF WriteCompose, At
<1>2. W \in Workspaces /\ cmd \in Commands
  BY <1>1, CommandsAssumption DEF Inv, StepsInv, W
<1>3. /\ gen.stack # <<>> /\ gen.stack[1].hodor.backend = gen.backend
      /\ gen.backend = KeptBackend(disk[W], cmd.backend) /\ cmd.name \in {"init", "agent", "expose"}
  BY <1>1 DEF Inv, BackendInv, Making
<1>4. cmd.backend # "none"
  BY <1>2, <1>3, CommandsAssumption
<1>5. KeptBackend(disk[W], cmd.backend) # "none"
  BY <1>4 DEF KeptBackend, resolve_backend
<1>6. QED
  BY <1>2, <1>3, <1>5

\* With it, the generation is whole.
LEMMA ComposeKeeps == ASSUME Inv, WriteCompose PROVE Inv'
<1> DEFINE d == [disk[W] EXCEPT !.compose = gen.stack]
<1>1. /\ pc # <<>> /\ Head(pc) = "compose" /\ pc' = Tail(pc) /\ SetDisk(d) /\ UNCHANGED <<cfg, cmd, gen, claims>>
      /\ torn' = [torn EXCEPT ![W] = "no"]
  BY DEF WriteCompose, At, Step, World
<1>2. W \in Workspaces /\ IsDisk(disk[W]) /\ disk[W].bypass # "directory" /\ Maps
  BY <1>1, CommandsAssumption DEF Inv, StepsInv, Maps, DiskOK, W, BypassInv, BypassIsFile
<1>3. IsDisk(d) /\ d.compose = gen.stack /\ d.bypass # "directory"
  <2>1. IsDisk(d) /\ d.compose = gen.stack /\ d.bypass = disk[W].bypass
    BY <1>2, StackIs
  <2>2. QED
    BY <1>2, <2>1, Zenon
<1> HIDE DEF d
<1>4. DiskOK(d)
  BY <1>3, ComposeBackend DEF DiskOK
<1>5. /\ disk'[W] = d /\ \A w \in Workspaces : w # W => disk'[w] = disk[w]
      /\ disk' = [w \in Workspaces |-> disk'[w]] /\ \A w \in Workspaces : DiskOK(disk'[w])
  BY <1>1, <1>4, DiskSet DEF Inv
<1>6. Maps' /\ torn'[W] = "no" /\ \A w \in Workspaces : w # W => torn'[w] = torn[w]
  BY <1>1, <1>2, <1>5 DEF Maps
<1>7. StepsInv'
  BY <1>1, <1>6, StepsKept DEF Inv, StepsInv
<1>8. CutInv'
  BY <1>1, <1>5, <1>6 DEF Inv, CutInv, Retried, stack_is_stale, config_digest, W
<1>9. BackendInv'
  BY <1>1, BackendLeft DEF Inv
<1>10. \A w \in Workspaces : disk'[w].bypass # "directory"
  BY <1>3, <1>5 DEF Inv, BypassInv, BypassIsFile
<1>11. BypassInv'
  BY <1>1, <1>10, BypassLeft DEF Inv
<1>12. ClaimInv'
  BY <1>1, ClaimsSame
<1>13. QED
  BY <1>7, <1>8, <1>9, <1>11, <1>12 DEF Inv

\* The digest is written behind a stack that is whole.
LEMMA DigestKeeps == ASSUME Inv, WriteDigest PROVE Inv' /\ StackSame
<1> DEFINE d == [disk[W] EXCEPT !.digest = <<config_digest(cfg[W])>>]
<1>1. /\ At("digest") /\ pc # <<>> /\ Head(pc) = "digest" /\ pc' = Tail(pc) /\ SetDisk(d)
      /\ UNCHANGED <<cfg, cmd, gen, torn, claims>>
  BY DEF WriteDigest, At, Step, World
<1>2. W \in Workspaces /\ IsDisk(disk[W]) /\ DiskOK(disk[W]) /\ disk[W].bypass # "directory" /\ Maps
  BY <1>1, CommandsAssumption DEF Inv, StepsInv, Maps, DiskOK, W, BypassInv, BypassIsFile
<1>3. IsDisk(d) /\ d.compose = disk[W].compose /\ d.bypass # "directory"
  <2>1. IsDisk(d) /\ d.compose = disk[W].compose /\ d.bypass = disk[W].bypass
    BY <1>2, DigestIs, Zenon
  <2>2. QED
    BY <1>2, <2>1, Zenon
<1> HIDE DEF d
<1>4. DiskOK(d)
  BY <1>2, <1>3 DEF DiskOK
<1>5. /\ disk'[W] = d /\ \A w \in Workspaces : w # W => disk'[w] = disk[w]
      /\ disk' = [w \in Workspaces |-> disk'[w]] /\ \A w \in Workspaces : DiskOK(disk'[w])
  BY <1>1, <1>4, DiskSet DEF Inv
<1>6. Maps'
  BY <1>1, <1>2, <1>5 DEF Maps
<1>7. StepsInv'
  BY <1>1, <1>6, StepsKept DEF Inv, StepsInv
<1>8. torn[W] = "no"
  BY <1>1 DEF Inv, CutInv
<1>9. Retried'
  BY <1>1, <1>5, <1>8 DEF Inv, CutInv, Retried, stack_is_stale, config_digest
<1>10. ~At("digest")'
  BY <1>1, Moved DEF Inv, StepsInv, Follows, Before, At
<1>11. BackendInv'
  BY <1>1, BackendLeft DEF Inv
<1>12. \A w \in Workspaces : disk'[w].bypass # "directory"
  BY <1>3, <1>5 DEF Inv, BypassInv, BypassIsFile
<1>13. BypassInv'
  BY <1>1, <1>12, BypassLeft DEF Inv
<1>14. ClaimInv'
  BY <1>1, ClaimsSame
<1>15. StackSame
  BY <1>3, <1>5 DEF StackSame
<1>16. QED
  BY <1>7, <1>9, <1>10, <1>11, <1>13, <1>14, <1>15 DEF Inv, CutInv

\* The files `up` makes before it calls docker.
LEMMA SupportKeeps == ASSUME Inv, Support PROVE Inv' /\ StackSame
<1> DEFINE e == prepare_support_files(disk[W])
<1> DEFINE d == IF generated_backend(e) = "ebpf" THEN ensure_bypass_file(e) ELSE e
<1>1. /\ pc # <<>> /\ Head(pc) = "support" /\ pc' = Tail(pc) /\ SetDisk(d) /\ UNCHANGED <<cfg, cmd, torn, claims>>
      /\ gen' = NoGen
  BY DEF Support, At, Step, World
<1>2. W \in Workspaces /\ IsDisk(disk[W]) /\ disk[W].bypass # "directory"
  BY <1>1, CommandsAssumption DEF Inv, StepsInv, Maps, DiskOK, W, BypassInv, BypassIsFile
<1>3. IsGen(gen')
  BY <1>1 DEF IsGen, NoGen
<1>4. IsDisk(e) /\ e.compose = disk[W].compose /\ e.digest = disk[W].digest /\ e.bypass # "directory"
  BY <1>2, SupportIs DEF Same
<1> HIDE DEF e
<1>5. /\ IsDisk(d) /\ d.compose = disk[W].compose /\ d.digest = disk[W].digest /\ d.bypass # "directory"
      /\ generated_backend(d) = "ebpf" => d.bypass # "none"
  BY <1>4, EnsureIs DEF generated_backend
<1> HIDE DEF d
<1>6. StepsInv' /\ CutInv' /\ StackSame /\ disk'[W] = d /\ \A w \in Workspaces : disk'[w].bypass # "directory"
  BY <1>1, <1>2, <1>3, <1>5, FilesWritten
<1>7. BackendInv'
  BY <1>1, BackendLeft DEF Inv
<1>8. BypassInv'
  BY <1>1, <1>5, <1>6 DEF BypassInv, BypassIsFile, W
<1>9. ClaimInv'
  BY <1>1, ClaimsSame
<1>10. QED
  BY <1>6, <1>7, <1>8, <1>9 DEF Inv

\* Whether to build.
LEMMA BuildKeeps == ASSUME Inv, Build PROVE Inv'
<1>1. /\ At("build") /\ pc # <<>> /\ Head(pc) = "build" /\ (pc' = Tail(pc) \/ pc' = <<>>)
      /\ UNCHANGED <<cfg, disk, cmd, torn, claims>>
      /\ \E v : gen' = [gen EXCEPT !.build = v]
  BY Zenon DEF Build, At, Step, World
<1>2. IsGen(gen')
  BY <1>1 DEF Inv, StepsInv, IsGen
<1>3. StepsInv'
  BY <1>1, <1>2, StepsKept DEF Inv, StepsInv, Maps
<1>4. CutInv'
  BY <1>1, CutKept DEF Inv, At
<1>5. BackendInv'
  BY <1>1, BackendLeft DEF Inv
<1>6. BypassInv'
  BY <1>1 DEF Inv, BypassInv, BypassIsFile, generated_backend, W
<1>7. ClaimInv'
  BY <1>1, ClaimsSame
<1>8. QED
  BY <1>3, <1>4, <1>5, <1>6, <1>7 DEF Inv

\* docker compose up: the file that an eBPF stack mounts is there.
LEMMA UpKeeps == ASSUME Inv, ComposeUp PROVE Inv' /\ StackSame
<1>1. /\ At("up") /\ pc # <<>> /\ Head(pc) = "up" /\ (pc' = Tail(pc) \/ pc' = <<>>)
      /\ UNCHANGED <<cfg, cmd, gen, torn, claims>>
  BY DEF ComposeUp, At, Step, World
<1>2. W \in Workspaces /\ IsDisk(disk[W]) /\ disk[W].bypass # "directory" /\ IsGen(gen')
  BY <1>1, CommandsAssumption DEF Inv, StepsInv, Maps, DiskOK, W, BypassInv, BypassIsFile
<1>3. SetDisk(disk[W])
  <2> DEFINE ok == /\ disk[W].compose # <<>>
                   /\ \A w \in Workspaces \ {W} : Published(w) \cap {p.host : p \in disk[W].compose[1].hodor.ports} = {}
  <2>1. SetDisk(IF ok /\ disk[W].compose[1].hodor.backend = "ebpf" /\ disk[W].bypass = "none"
                THEN [disk[W] EXCEPT !.bypass = "directory"] ELSE disk[W])
    BY Zenon DEF ComposeUp
  <2>2. ok => disk[W].compose # <<>>
    OBVIOUS
  <2> HIDE DEF ok
  <2>3. ok /\ disk[W].compose[1].hodor.backend = "ebpf" => disk[W].bypass # "none"
    BY <1>1, <2>2 DEF Inv, BypassInv, generated_backend
  <2>4. QED
    BY <2>1, <2>3, Zenon
<1>4. StepsInv' /\ CutInv' /\ StackSame /\ \A w \in Workspaces : disk'[w].bypass # "directory"
  BY <1>1, <1>2, <1>3, FilesWritten
<1>5. BackendInv'
  BY <1>1, BackendLeft DEF Inv
<1>6. BypassInv'
  BY <1>1, <1>4, BypassLeft DEF Inv
<1>7. ClaimInv'
  BY <1>1, ClaimsSame
<1>8. QED
  BY <1>4, <1>5, <1>6, <1>7 DEF Inv

\* The build digest.
LEMMA RecordKeeps == ASSUME Inv, Record PROVE Inv' /\ StackSame
<1>1. /\ pc # <<>> /\ Head(pc) = "record" /\ pc' = Tail(pc) /\ UNCHANGED <<cfg, cmd, gen, torn, claims>>
  BY DEF Record, At, Step, World
<1>2. W \in Workspaces /\ IsDisk(disk[W]) /\ disk[W].bypass # "directory" /\ IsGen(gen')
  BY <1>1, CommandsAssumption DEF Inv, StepsInv, Maps, DiskOK, W, BypassInv, BypassIsFile
<1>3. PICK v : SetDisk([disk[W] EXCEPT !.build = v])
  BY Zenon DEF Record
<1>4. PICK d : d = [disk[W] EXCEPT !.build = v]
  OBVIOUS
<1>5. SetDisk(d)
  BY <1>3, <1>4, Zenon
<1>6. IsDisk(d) /\ d.compose = disk[W].compose /\ d.digest = disk[W].digest /\ d.bypass # "directory"
  BY <1>2, <1>4, FieldIs DEF Same
<1>7. StepsInv' /\ CutInv' /\ StackSame /\ \A w \in Workspaces : disk'[w].bypass # "directory"
  BY <1>1, <1>2, <1>5, <1>6, FilesWritten
<1>8. BackendInv'
  BY <1>1, BackendLeft DEF Inv
<1>9. BypassInv'
  BY <1>1, <1>7, BypassLeft DEF Inv
<1>10. ClaimInv'
  BY <1>1, ClaimsSame
<1>11. QED
  BY <1>7, <1>8, <1>9, <1>10 DEF Inv

\* The steps that change neither disk nor config.
LEMMA PassingKeeps == ASSUME Inv, Exec \/ Down \/ Prune \/ Claim \/ Insert \/ Verify \/ List PROVE Inv'
<1>1. /\ pc # <<>> /\ (pc' = Tail(pc) \/ pc' = <<>>) /\ UNCHANGED <<cfg, disk, cmd, gen, torn>>
      /\ Head(pc) \in {"exec", "down", "prune", "claim", "insert", "verify", "list"}
  BY DEF Exec, Down, Prune, Claim, Insert, Verify, List, At, Step, World
<1>2. StepsInv' /\ CutInv' /\ BackendInv' /\ BypassInv'
  BY <1>1, OnlyMoved
<1>3. ClaimInv'
  <2>1. CASE Exec \/ Down \/ Verify \/ List
    <3>1. claims' = claims /\ Head(pc) # "claim"
      BY <2>1 DEF Exec, Down, Verify, List, At
    <3>2. QED
      BY <1>1, <3>1, ClaimsSame
  <2>2. CASE Prune
    <3>1. ~At("claim") /\ claims' = prune_workspace(claims, W)
      BY <2>2 DEF Prune, At
    <3>2. check_claim(claims, W, cmd.publish, cmd.port) => check_claim(claims', W, cmd.publish, cmd.port)
      BY <3>1 DEF prune_workspace, check_claim
    <3>3. QED
      BY <1>1, <3>1, <3>2, ClaimKept DEF Inv
  <2>3. CASE Claim
    <3>1. CASE check_claim(claims, W, cmd.publish, cmd.port)
      BY <1>1, <2>3, <3>1 DEF Claim, ClaimInv, check_claim, W
    <3>2. CASE ~check_claim(claims, W, cmd.publish, cmd.port)
      <4>1. pc' = <<>>
        BY <2>3, <3>2 DEF Claim, Step
      <4>2. QED
        BY <4>1, NothingLeft DEF ClaimInv
    <3>3. QED
      BY <3>1, <3>2
  <2>4. CASE Insert
    <3>1. At("insert")
      BY <2>4 DEF Insert
    <3>2. Lacks(pc', "insert")
      BY <1>1, <3>1, Moved DEF Inv, StepsInv
    <3>3. QED
      BY <3>2 DEF ClaimInv
  <2>5. QED
    BY <2>1, <2>2, <2>3, <2>4
<1>4. QED
  BY <1>2, <1>3 DEF Inv

\* expose writes its entry into the config.
LEMMA EntryKeeps == ASSUME Inv, Entry PROVE Inv'
<1>1. PICK c : /\ cfg' = [cfg EXCEPT ![W] = c] /\ torn' = TornBy(W, c) /\ pc # <<>> /\ Head(pc) = "entry" /\ pc' = Tail(pc)
               /\ UNCHANGED <<disk, cmd, gen, claims>>
  BY Zenon DEF Entry, At, Step
<1>2. W \in Workspaces /\ Maps
  BY <1>1, CommandsAssumption DEF Inv, StepsInv, W
<1>3. Maps' /\ \A w \in Workspaces : torn'[w] = "cut" => torn[w] = "cut" /\ cfg'[w] = cfg[w]
  BY <1>1, <1>2 DEF Maps, TornBy
<1>4. StepsInv'
  BY <1>1, <1>3, StepsKept DEF Inv, StepsInv
<1>5. Retried'
  BY <1>1, <1>3 DEF Inv, CutInv, Retried, stack_is_stale, config_digest
<1>6. ~At("digest")'
  BY <1>1, Moved DEF Inv, StepsInv, Follows, Before, At
<1>7. BackendInv'
  BY <1>1, BackendLeft DEF Inv
<1>8. BypassInv'
  BY <1>1, BypassLeft DEF Inv, BypassInv, BypassIsFile
<1>9. ClaimInv'
  BY <1>1, ClaimsSame
<1>10. QED
  BY <1>4, <1>5, <1>6, <1>7, <1>8, <1>9 DEF Inv, CutInv

\* A command begins.
LEMMA BeginKeeps == ASSUME Inv, Begin PROVE Inv'
<1>1. PICK c \in Commands : cmd' = c /\ pc' = StepsOf(c) /\ gen' = NoGen /\ UNCHANGED <<cfg, disk, torn, claims>>
  BY DEF Begin, World
<1>2. /\ Listed(pc') /\ pc' # <<>> /\ pc'[1] \notin Follows \cup {"decide"}
      /\ Lacks(pc', "insert") \/ pc'[1] = "claim"
      /\ Lacks(pc', "decide") \/ cmd'.name \in {"init", "agent", "expose"}
  BY <1>1, StepsListed
<1>3. pc' \in Seq(Words) /\ Head(pc') = pc'[1] /\ 1 \in 1..Len(pc')
  BY <1>2 DEF Listed
<1>4. \A word \in Follows : ~At(word)'
  BY <1>2, <1>3 DEF At
<1>5. StepsInv'
  <2>1. IsGen(gen') /\ Maps'
    BY <1>1 DEF IsGen, NoGen, Inv, StepsInv, Maps
  <2>2. QED
    BY <1>1, <1>2, <2>1 DEF StepsInv
<1>6. CutInv'
  BY <1>1, <1>4 DEF Inv, CutInv, Retried, stack_is_stale, config_digest, Follows
<1>7. BackendInv'
  BY <1>4 DEF BackendInv, Making, Follows
<1>8. BypassInv'
  BY <1>1, <1>4 DEF Inv, BypassInv, BypassIsFile, Follows
<1>9. ClaimInv'
  BY <1>2, <1>3 DEF ClaimInv, Lacks
<1>10. QED
  BY <1>5, <1>6, <1>7, <1>8, <1>9 DEF Inv

\* The process is killed.
LEMMA KilledKeeps == ASSUME Inv, Killed PROVE Inv'
<1>1. pc # <<>> /\ pc' = <<>> /\ UNCHANGED <<cfg, disk, cmd, gen, torn, claims>>
  BY DEF Killed, World
<1>2. StepsInv'
  BY <1>1, NothingLeft DEF Inv, StepsInv, Maps
<1>3. CutInv' /\ BackendInv' /\ BypassInv'
  BY <1>1 DEF Inv, CutInv, BackendInv, BypassInv, BypassIsFile, Retried, stack_is_stale, config_digest, At
<1>4. ClaimInv'
  BY <1>1, NothingLeft DEF ClaimInv
<1>5. QED
  BY <1>2, <1>3, <1>4 DEF Inv

\* Between two steps the user saves another config, or changes the build context.
LEMMA EditsKeep == ASSUME Inv, EditConfig \/ EditContext \/ UNCHANGED vars PROVE Inv'
<1>1. UNCHANGED <<disk, cmd, pc, gen, claims>>
  BY DEF EditConfig, EditContext, vars
<1>2. /\ Maps'
      /\ \A w \in Workspaces : torn'[w] = "cut" => torn[w] = "cut" /\ cfg'[w] = cfg[w]
      /\ \A w \in Workspaces : torn[w] = "no" => torn'[w] = "no"
  <2>1. Maps
    BY DEF Inv, StepsInv
  <2>2. CASE EditConfig
    <3>1. PICK w \in Workspaces : \E c \in EditedTo[w] : cfg' = [cfg EXCEPT ![w] = c] /\ torn' = TornBy(w, c)
      BY <2>2 DEF EditConfig
    <3>2. QED
      BY <1>1, <2>1, <3>1 DEF Maps, TornBy
  <2>3. CASE EditContext \/ UNCHANGED vars
    BY <2>1, <2>3 DEF EditContext, vars, Maps
  <2>4. QED
    BY <2>2, <2>3
<1>3. StepsInv'
  BY <1>1, <1>2 DEF Inv, StepsInv
<1>4. CutInv'
  <2>1. Retried'
    BY <1>1, <1>2 DEF Inv, CutInv, Retried, stack_is_stale, config_digest
  <2>2. At("digest")' => torn'[W] = "no" /\ W' = W
    <3>1. ASSUME At("digest") PROVE W \in Workspaces /\ torn[W] = "no"
      BY <3>1, CommandsAssumption DEF At, Inv, StepsInv, CutInv, W
    <3>2. QED
      BY <1>1, <1>2, <3>1 DEF At, W
  <2>3. QED
    BY <2>1, <2>2 DEF CutInv, W
<1>5. BackendInv'
  BY <1>1 DEF Inv, BackendInv, At, W, KeptBackend, generated_backend
<1>6. BypassInv'
  BY <1>1 DEF Inv, BypassInv, BypassIsFile, At, W, generated_backend
<1>7. ClaimInv'
  BY <1>1 DEF Inv, ClaimInv, W
<1>8. QED
  BY <1>3, <1>4, <1>5, <1>6, <1>7 DEF Inv

-----------------------------------------------------------------------------
(* The theorems.                                                           *)

\* A workspace as it is found.
LEMMA InitIsInv == Init => Inv
<1> SUFFICES ASSUME Init PROVE Inv
  OBVIOUS
<1>1. pc = <<>> /\ gen = NoGen /\ disk \in Disks /\ cfg \in Configs /\ torn = [w \in Workspaces |-> "no"]
  BY DEF Init
<1>2. /\ disk = [w \in Workspaces |-> disk[w]]
      /\ \A w \in Workspaces : DiskOK(disk[w]) /\ disk[w].bypass \in {"none", "file"}
  BY <1>1, DisksAssumption DEF DiskOK
<1>3. cfg = [w \in Workspaces |-> cfg[w]]
  BY <1>1, ConfigsAssumption
<1>4. IsGen(gen)
  BY <1>1 DEF IsGen, NoGen
<1>5. StepsInv
  BY <1>1, <1>2, <1>3, <1>4, NothingLeft DEF StepsInv, Maps
<1>6. CutInv /\ BackendInv /\ BypassInv
  BY <1>1, <1>2 DEF CutInv, Retried, BackendInv, BypassInv, BypassIsFile, At
<1>7. ClaimInv
  BY <1>1, NothingLeft DEF ClaimInv
<1>8. QED
  BY <1>5, <1>6, <1>7 DEF Inv

\* Each step keeps the invariant.
LEMMA NextKeeps == Inv /\ [Next]_vars => Inv'
<1> SUFFICES ASSUME Inv, [Next]_vars PROVE Inv'
  OBVIOUS
<1>1. \/ Begin \/ Prepare \/ Decide \/ (Rewrites \/ Ambient \/ Grants) \/ DoAssemble \/ WriteCompose
      \/ WriteDigest \/ Support \/ Build \/ ComposeUp \/ Record
      \/ (Exec \/ Down \/ Prune \/ Claim \/ Insert \/ Verify \/ List) \/ Entry \/ Killed
      \/ (EditConfig \/ EditContext \/ UNCHANGED vars)
  BY DEF Next
<1>2. QED
  BY <1>1, BeginKeeps, PrepareKeeps, DecideKeeps, WritesKeeps, AssembleKeeps, ComposeKeeps, DigestKeeps, SupportKeeps,
     BuildKeeps, UpKeeps, RecordKeeps, PassingKeeps, EntryKeeps, KilledKeeps, EditsKeep, Zenon

\* It always holds.
LEMMA AlwaysInv == Spec => []Inv
  BY InitIsInv, NextKeeps, PTL DEF Spec

\* Whatever commands were killed, failed or raced an editor: until the config changes, an unfinished
\* generation is not taken for current, and docker never makes a directory of the file hodor mounts.
THEOREM CutIsRetried == Spec => []Recovered
<1>1. Inv => Recovered
  BY DEF Inv, CutInv, BypassInv, Recovered
<1>2. QED
  BY <1>1, AlwaysInv, PTL

\* A stack's backend changes only by an init that names it; a host port passes to another workspace only
\* after the first gave it up.
THEOREM AskedFor == Spec => OnlyAsAsked
<1> DEFINE Backend == \A w \in Workspaces :
              disk[w].compose # <<>> /\ generated_backend(disk'[w]) # generated_backend(disk[w])
                => cmd.name = "init" /\ cmd.backend = generated_backend(disk'[w])
<1> DEFINE Owner == \A p \in DOMAIN claims : p \in DOMAIN claims' => claims'[p].ws = claims[p].ws
<1>1. ASSUME Inv, [Next]_vars PROVE [Backend]_vars
  <2>1. CASE WriteCompose
    <3>1. /\ gen.stack # <<>> /\ W \in Workspaces /\ cmd \in Commands
          /\ gen.stack[1].hodor.backend = KeptBackend(disk[W], cmd.backend)
          /\ cmd.name \in {"init", "agent", "expose"}
      BY <1>1, <2>1, ComposeBackend
    <3>2. DiskOK(disk[W]) /\ IsDisk(disk[W])
      BY <1>1, <3>1 DEF Inv, StepsInv, Maps, DiskOK
    <3>3. PICK d : d = [disk[W] EXCEPT !.compose = gen.stack]
      OBVIOUS
    <3>4. disk' = [disk EXCEPT ![W] = d]
      BY <2>1, <3>3, Zenon DEF WriteCompose, SetDisk
    <3>5. d.compose = gen.stack
      BY <3>2, <3>3, StackIs
    <3>6. disk'[W] = d /\ \A w \in Workspaces : w # W => disk'[w] = disk[w]
      BY <1>1, <3>1, <3>4 DEF Inv, StepsInv, Maps
    <3>7. generated_backend(disk'[W]) = KeptBackend(disk[W], cmd.backend)
      BY <3>1, <3>5, <3>6 DEF generated_backend
    <3>8. ASSUME disk[W].compose # <<>>, KeptBackend(disk[W], cmd.backend) # generated_backend(disk[W])
          PROVE  cmd.name = "init" /\ cmd.backend = KeptBackend(disk[W], cmd.backend)
      <4>1. generated_backend(disk[W]) # "none"
        BY <3>2, <3>8 DEF DiskOK, generated_backend
      <4>2. cmd.backend # "unnamed"
        BY <3>8, <4>1 DEF KeptBackend
      <4>3. cmd.name = "init"
        BY <3>1, <4>2, CommandsAssumption
      <4>4. QED
        BY <4>2, <4>3 DEF KeptBackend, resolve_backend
    <3>9. QED
      BY <3>6, <3>7, <3>8
  <2>2. CASE ~WriteCompose
    <3>1. \/ Prepare \/ (Rewrites \/ Ambient \/ Grants) \/ WriteDigest \/ Support \/ ComposeUp \/ Record
          \/ disk' = disk
      BY <1>1, <2>2 DEF Next, vars, Begin, Decide, DoAssemble, Build, Exec, Down, Prune, Claim, Insert, Entry, Verify,
         List, Killed, EditConfig, EditContext
    <3>2. disk' = disk => StackSame
      BY DEF StackSame
    <3>3. StackSame
      BY <1>1, <3>1, <3>2, PrepareKeeps, WritesKeeps, DigestKeeps, SupportKeeps, UpKeeps, RecordKeeps, Zenon
    <3>4. QED
      BY <3>3 DEF StackSame, generated_backend
  <2>3. QED
    BY <2>1, <2>2
<1>2. ASSUME Inv, [Next]_vars PROVE [Owner]_vars
  <2>1. CASE Insert
    <3>1. At("insert") /\ pc # <<>>
      BY <2>1 DEF Insert, At
    <3>2. ~Lacks(pc, "insert") /\ Lacks(pc, "claim")
      <4>1. pc \in Seq(Words) /\ pc[1] = "insert" /\ 1 \in 1..Len(pc) /\ \A i \in 2..Len(pc) : pc[i] # "claim"
        BY <1>2, <3>1 DEF Inv, StepsInv, Listed, At
      <4>2. \A i \in 1..Len(pc) : i = 1 \/ i \in 2..Len(pc)
        BY <4>1
      <4>3. QED
        BY <4>1, <4>2 DEF Lacks
    <3>3. check_claim(claims, W, cmd.publish, cmd.port)
      BY <1>2, <3>2 DEF Inv, ClaimInv
    <3>4. \A p \in DOMAIN claims : claims'[p] = IF p = cmd.publish THEN [ws |-> W, port |-> cmd.port] ELSE claims[p]
      BY <2>1 DEF Insert
    <3>5. QED
      BY <3>3, <3>4 DEF check_claim
  <2>2. CASE Prune
    BY <2>2 DEF Prune, prune_workspace
  <2>3. CASE ~Insert /\ ~Prune
    <3>1. claims' = claims
      BY <1>2, <2>3 DEF Next, vars, Begin, Prepare, Decide, Rewrites, Ambient, Grants, DoAssemble, WriteCompose,
         WriteDigest, Support, Build, ComposeUp, Record, Exec, Down, Claim, Entry, Verify, List, Killed, EditConfig, EditContext
    <3>2. QED
      BY <3>1
  <2>4. QED
    BY <2>1, <2>2, <2>3
<1>3. Spec => [][Backend]_vars /\ [][Owner]_vars
  BY <1>1, <1>2, AlwaysInv, PTL DEF Spec
<1>4. QED
  BY <1>3 DEF OnlyAsAsked, BackendKept, ClaimNotStolen
=============================================================================
