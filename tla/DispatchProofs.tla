--------------------------- MODULE DispatchProofs ---------------------------
(***************************************************************************)
(* Proofs about Dispatch, for any rules, any guests, any caps on what is   *)
(* read before a connection is settled, and any number of connections.     *)
(***************************************************************************)
EXTENDS Dispatch, FiniteSetTheorems, NaturalsInduction, WellFoundedInduction, TLAPS

Segs == UNION {Range(o.script) : o \in Opens}

Readers == {"arm", "hello", "http", "banner", "opening", "splice", "copying"}
Mid == Readers \cup {"dial", "legs"}
Served == {"pump", "copy"}
Databases == {"redis", "postgres"}

IsStream(s) == s = [host |-> s.host, raw |-> s.raw, dial |-> s.dial, port |-> s.port, arm |-> s.arm, scope |-> s.scope]
IsTls(t) == t = [leaf |-> t.leaf, sni |-> t.sni, demand |-> t.demand, expires |-> t.expires]

(* What the readers hold and what is left is what the far side is owed.    *)
BytesInv ==
  /\ buf \in Seq(Segs) /\ rest \in Seq(Segs) /\ fed \in Seq(Segs)
  /\ pc \in {"idle", "head", "closed"} \cup Mid \cup Served
  /\ pc \in {"idle"} => buf = <<>>
  /\ pc \in {"head"} \cup Mid \cup Served => open \in Opens
  /\ pc = "head" => open.via = "explicit" /\ buf \o rest = open.script
  /\ pc \in Mid => IsStream(stream) /\ stream.arm # "forward" /\ buf \o rest = Payload
  /\ pc \in Served => fed \o rest = Payload

(* Whom a stream is for.                                                   *)
Stated ==
  /\ stream.arm = "splice" \/ \E i \in DOMAIN Arms : stream.arm = Arms[i]
  /\ open.via = "explicit" => /\ stream.host = open.name /\ stream.dial = open.name /\ stream.host # NoName
                              /\ stream.arm = expect(open.name, stream.port)
  /\ open.via # "explicit" /\ stream.arm = "tls" => stream.host = NoName
  /\ stream.arm \in Databases =>
       \E i \in DOMAIN Grants :
          /\ stream.scope = Grants[i] /\ Grants[i].kind = stream.arm
          /\ open.via = "explicit" => Grants[i].down = [name |-> open.name, port |-> stream.port]

(* The guest's leg, from its hello to its handshake.                       *)
Terminated ==
  /\ IsTls(tls)
  /\ stream.arm = "raw" => tls.leaf = NoName
  /\ stream.arm = "tls" => tls.leaf # NoName /\ tls.demand = stream.scope.mtls
  /\ tls.leaf # NoName =>
       /\ tls.sni \in {NoName, tls.leaf}
       /\ open.via = "explicit" => tls.leaf = open.name
       /\ stream.arm \in Databases => /\ stream.host = tls.leaf
                                      /\ tls.expires # 0 /\ stream.scope.mtls => open.cert = "ours"

PartyInv ==
  /\ pc \in {"idle", "head"} \cup Readers => tls = NoTls
  /\ pc \in Mid => Stated
  /\ pc = "http" => stream.arm = "plain"
  /\ pc = "banner" => stream.arm = "ssh"
  /\ pc = "opening" => stream.arm = "postgres"
  /\ pc = "hello" => stream.arm \in {"tls"} \cup Databases
  /\ pc \in {"splice", "copying"} => stream.arm \in {"splice", "tls", "ssh"}
  /\ pc \in {"dial", "legs"} => stream.arm \in {"raw", "tls"} \cup Databases /\ Terminated
  /\ pc = "legs" /\ stream.arm \in Databases => up = stream.scope.up
  /\ pc = "copy" => stream.arm \in {"splice", "tls", "ssh", "forward"}

(* A cached leaf that demands a certificate is under a key of its own.     *)
LeavesInv == \A k \in DOMAIN leaves : Len(k) = 2 => leaves[k].demand = TRUE

(* A terminated stream is copied only after its name was looked up.        *)
CopyInv ==
  /\ pc \in {"splice", "copying"} /\ stream.arm = "tls" =>
        open.via # "explicit" /\ (Sni # NoName => ScopeOf("https", Sni, stream.port) = NoScope)


-----------------------------------------------------------------------------
(* The first of a sequence.                                                *)

\* A set of positions that is not empty has a first one.
LEMMA LeastIs ==
  ASSUME NEW I \in SUBSET Nat, I # {}
  PROVE  Min(I) \in I /\ \A j \in I : Min(I) <= j
<1>1. \E x \in I : \A y \in I : <<y, x>> \notin OpToRel(<, Nat)
  BY NatLessThanWellFounded, WFMin
<1>2. OpToRel(<, Nat) = {ss \in Nat \X Nat : ss[1] < ss[2]}
  BY Zenon DEF OpToRel
<1>3. \A x, y \in Nat : <<y, x>> \in {ss \in Nat \X Nat : ss[1] < ss[2]} \/ x <= y
  OBVIOUS
<1>4. \E x \in I : \A y \in I : <<y, x>> \notin {ss \in Nat \X Nat : ss[1] < ss[2]}
  BY <1>1, <1>2, Zenon
<1>5. \E x \in I : \A y \in I : x <= y
  BY <1>3, <1>4
<1>6. QED
  BY <1>5 DEF Min

\* Where the first complete segment of a kind is.
LEMMA FirstIs ==
  ASSUME NEW S, NEW s \in Seq(S), NEW f
  PROVE  /\ First(s, f) \in 0..Len(s)
         /\ First(s, f) = 0 => \A i \in 1..Len(s) : ~(s[i].f = f /\ s[i].end)
         /\ First(s, f) # 0 => /\ s[First(s, f)].f = f /\ s[First(s, f)].end
                               /\ \A i \in 1..Len(s) : s[i].f = f /\ s[i].end => First(s, f) <= i
<1> DEFINE I == {i \in 1..Len(s) : s[i].f = f /\ s[i].end}
<1>1. First(s, f) = IF I # {} THEN Min(I) ELSE 0
  BY DEF First, SelectInSeq
<1>2. CASE I = {}
  <2>1. \A i \in 1..Len(s) : ~(s[i].f = f /\ s[i].end)
    BY <1>2
  <2>2. QED
    BY <1>1, <1>2, <2>1
<1>3. CASE I # {}
  <2>1. I \in SUBSET Nat
    OBVIOUS
  <2>2. Min(I) \in I /\ \A j \in I : Min(I) <= j
    BY <1>3, <2>1, LeastIs
  <2>3. First(s, f) = Min(I)
    BY <1>1, <1>3
  <2>4. First(s, f) \in I /\ \A j \in I : First(s, f) <= j
    BY <2>2, <2>3
  <2>5. QED
    BY <2>4
<1>4. QED
  BY <1>2, <1>3

\* The entry of a rule that covers a destination.
LEMMA EndpointIs ==
  ASSUME NEW g, NEW S, g.allow \in Seq(S), NEW scheme, NEW host, NEW port
  PROVE  LET n == EndpointIndex(g, scheme, host, port)
             hit(i) == g.allow[i].scheme = scheme /\ g.allow[i].port = port /\ HostMatches(g.allow[i].host, host)
         IN  /\ n \in 0..Len(g.allow)
             /\ n = 0 => \A i \in 1..Len(g.allow) : ~hit(i)
             /\ n # 0 => hit(n)
<1> DEFINE hit(i) == g.allow[i].scheme = scheme /\ g.allow[i].port = port /\ HostMatches(g.allow[i].host, host)
<1> DEFINE I == {i \in 1..Len(g.allow) : hit(i)}
<1>1. EndpointIndex(g, scheme, host, port) = IF I # {} THEN Min(I) ELSE 0
  BY DEF EndpointIndex, SelectInSeq
<1>2. CASE I = {}
  <2>1. \A i \in 1..Len(g.allow) : ~hit(i)
    BY <1>2
  <2>2. QED
    BY <1>1, <1>2, <2>1
<1>3. CASE I # {}
  <2>1. I \in SUBSET Nat
    OBVIOUS
  <2>2. Min(I) \in I
    BY <1>3, <2>1, LeastIs
  <2>3. EndpointIndex(g, scheme, host, port) \in I
    BY <1>1, <1>3, <2>2
  <2>4. QED
    BY <2>3
<1>4. QED
  BY <1>2, <1>3

\* The grant an endpoint arm finds.
LEMMA ScopeIs ==
  ASSUME NEW scheme, NEW host, NEW port
  PROVE  \/ /\ ScopeOf(scheme, host, port) = NoScope
            /\ \A i \in DOMAIN Grants : endpoint(Grants[i], scheme, host, port) = 0
         \/ \E i \in DOMAIN Grants :
              /\ endpoint(Grants[i], scheme, host, port) # 0
              /\ ScopeOf(scheme, host, port) = Grants[i].allow[endpoint(Grants[i], scheme, host, port)]
<1> DEFINE I == {i \in 1..Len(Grants) : endpoint(Grants[i], scheme, host, port) # 0}
<1> DEFINE g == IF I # {} THEN Grants[Min(I)] ELSE NoGrant
<1>0. Grants \in Seq(Range(Grants)) /\ DOMAIN Grants = 1..Len(Grants) /\ Len(Grants) \in Nat
  BY GrantsAssumption
<1>1. ScopeOf(scheme, host, port) =
        IF (IF (IF I # {} THEN Min(I) ELSE 0) = 0 THEN NoGrant ELSE Grants[IF I # {} THEN Min(I) ELSE 0]) = NoGrant
        THEN NoScope
        ELSE LET h == IF (IF I # {} THEN Min(I) ELSE 0) = 0 THEN NoGrant ELSE Grants[IF I # {} THEN Min(I) ELSE 0]
             IN  h.allow[endpoint(h, scheme, host, port)]
  BY DEF ScopeOf, FindGrant, SelectInSeq
<1>2. CASE I = {}
  <2>1. ScopeOf(scheme, host, port) = NoScope
    BY <1>1, <1>2
  <2>2. \A i \in DOMAIN Grants : endpoint(Grants[i], scheme, host, port) = 0
    BY <1>0, <1>2
  <2>3. QED
    BY <2>1, <2>2
<1>3. CASE I # {}
  <2>1. I \in SUBSET Nat
    OBVIOUS
  <2>2. Min(I) \in I
    BY <1>3, <2>1, LeastIs
  <2>3. Min(I) # 0 /\ Min(I) \in DOMAIN Grants /\ endpoint(Grants[Min(I)], scheme, host, port) # 0
    BY <1>0, <2>2
  <2>4. Grants[Min(I)].kind = "token"
    BY <2>3 DEF endpoint
  <2>5. Grants[Min(I)] # NoGrant
    BY <2>4 DEF NoGrant
  <2>6. QED
    BY <1>1, <1>3, <2>3, <2>5
<1>4. QED
  BY <1>2, <1>3

\* The rule of a database arm.
LEMMA RuleIs ==
  ASSUME NEW arm, NEW host, NEW port
  PROVE  LET r == FindGrant(LAMBDA g : Covered(g, arm, host, port)) IN
         \/ r = NoGrant /\ \A i \in DOMAIN Grants : ~Covered(Grants[i], arm, host, port)
         \/ \E i \in DOMAIN Grants : r = Grants[i] /\ Covered(Grants[i], arm, host, port)
<1> DEFINE I == {i \in 1..Len(Grants) : Covered(Grants[i], arm, host, port)}
<1> DEFINE r == FindGrant(LAMBDA g : Covered(g, arm, host, port))
<1>0. Grants \in Seq(Range(Grants)) /\ DOMAIN Grants = 1..Len(Grants) /\ Len(Grants) \in Nat
  BY GrantsAssumption
<1>1. r = IF (IF I # {} THEN Min(I) ELSE 0) = 0 THEN NoGrant ELSE Grants[IF I # {} THEN Min(I) ELSE 0]
  BY DEF FindGrant, SelectInSeq
<1>2. CASE I = {}
  <2>1. r = NoGrant
    BY <1>1, <1>2
  <2>2. \A i \in DOMAIN Grants : ~Covered(Grants[i], arm, host, port)
    BY <1>0, <1>2
  <2>3. QED
    BY <2>1, <2>2
<1>3. CASE I # {}
  <2>1. I \in SUBSET Nat
    OBVIOUS
  <2>2. Min(I) \in I
    BY <1>3, <2>1, LeastIs
  <2>3. Min(I) # 0 /\ Min(I) \in DOMAIN Grants /\ Covered(Grants[Min(I)], arm, host, port)
    BY <1>0, <2>2
  <2>4. r = Grants[Min(I)]
    BY <1>1, <1>3, <2>3
  <2>5. QED
    BY <2>3, <2>4
<1>4. QED
  BY <1>2, <1>3

\* The arm of a destination: the first in order that a rule covers.
LEMMA ExpectIs ==
  ASSUME NEW host, NEW port
  PROVE  LET hit(arm) == \E j \in DOMAIN Grants : Covered(Grants[j], arm, host, port)
             e == expect(host, port)
         IN  \/ e = "splice" /\ \A i \in DOMAIN Arms : ~hit(Arms[i])
             \/ \E i \in DOMAIN Arms : e = Arms[i] /\ hit(Arms[i]) /\ \A j \in DOMAIN Arms : j < i => ~hit(Arms[j])
<1> DEFINE hit(arm) == \E j \in DOMAIN Grants : Covered(Grants[j], arm, host, port)
<1> DEFINE I == {i \in 1..Len(Arms) : hit(Arms[i])}
<1>0. DOMAIN Arms = 1..Len(Arms) /\ Len(Arms) \in Nat
  BY DEF Arms
<1>1. expect(host, port) = IF (IF I # {} THEN Min(I) ELSE 0) = 0 THEN "splice" ELSE Arms[IF I # {} THEN Min(I) ELSE 0]
  BY DEF expect, SelectInSeq
<1> HIDE DEF hit
<1>2. CASE I = {}
  <2>1. expect(host, port) = "splice"
    BY <1>1, <1>2
  <2>2. \A i \in DOMAIN Arms : ~hit(Arms[i])
    BY <1>0, <1>2
  <2>3. QED
    BY <2>1, <2>2 DEF hit
<1>3. CASE I # {}
  <2>1. I \in SUBSET Nat
    OBVIOUS
  <2>2. Min(I) \in I /\ \A j \in I : Min(I) <= j
    BY <1>3, <2>1, LeastIs
  <2>3. Min(I) # 0 /\ Min(I) \in DOMAIN Arms /\ hit(Arms[Min(I)])
    BY <1>0, <2>2
  <2>4. expect(host, port) = Arms[Min(I)]
    BY <1>1, <1>3, <2>3
  <2>5. ASSUME NEW j \in DOMAIN Arms, j < Min(I) PROVE ~hit(Arms[j])
    <3>1. j \notin I
      BY <1>0, <2>2, <2>5
    <3>2. QED
      BY <1>0, <3>1
  <2>6. QED
    BY <2>3, <2>4, <2>5 DEF hit
<1>4. QED
  BY <1>2, <1>3

-----------------------------------------------------------------------------
(* Streams cut in two.                                                     *)

\* Elements of a concatenation and of a part.
LEMMA CatIs ==
  ASSUME NEW S, NEW a \in Seq(S), NEW b \in Seq(S)
  PROVE  /\ a \o b \in Seq(S) /\ Len(a \o b) = Len(a) + Len(b)
         /\ \A i \in 1..Len(a) : (a \o b)[i] = a[i]
         /\ \A i \in (Len(a) + 1)..(Len(a) + Len(b)) : (a \o b)[i] = b[i - Len(a)]
  OBVIOUS
\* The first n.
LEMMA FrontIs ==
  ASSUME NEW S, NEW a \in Seq(S), NEW n \in 0..Len(a)
  PROVE  /\ SubSeq(a, 1, n) \in Seq(S) /\ Len(SubSeq(a, 1, n)) = n
         /\ \A i \in 1..n : SubSeq(a, 1, n)[i] = a[i]
  OBVIOUS
\* What is behind the first n.
LEMMA BehindIs ==
  ASSUME NEW S, NEW a \in Seq(S), NEW n \in 0..Len(a)
  PROVE  /\ SubSeq(a, n + 1, Len(a)) \in Seq(S) /\ Len(SubSeq(a, n + 1, Len(a))) = Len(a) - n
         /\ \A i \in 1..(Len(a) - n) : SubSeq(a, n + 1, Len(a))[i] = a[n + i]
  OBVIOUS
\* Two sequences of the same length and elements.
LEMMA SameSeq ==
  ASSUME NEW S, NEW a \in Seq(S), NEW b \in Seq(S), Len(a) = Len(b), \A i \in 1..Len(a) : a[i] = b[i]
  PROVE  a = b
  OBVIOUS

Parted(S, a, s, n) ==
  /\ a \o SubSeq(s, 1, n) \in Seq(S) /\ SubSeq(s, n + 1, Len(s)) \in Seq(S)
  /\ (a \o SubSeq(s, 1, n)) \o SubSeq(s, n + 1, Len(s)) = a \o s
\* A read takes a part, and leaves the rest.
LEMMA Cut ==
  ASSUME NEW S, NEW a \in Seq(S), NEW s \in Seq(S), NEW n \in 0..Len(s)
  PROVE  Parted(S, a, s, n)
<1> DEFINE p == SubSeq(s, 1, n)
<1> DEFINE q == SubSeq(s, n + 1, Len(s))
<1>0. Len(s) \in Nat /\ Len(a) \in Nat /\ n \in Nat /\ n <= Len(s)
  OBVIOUS
<1>1. p \in Seq(S) /\ Len(p) = n /\ \A i \in 1..n : p[i] = s[i]
  BY FrontIs
<1>2. q \in Seq(S) /\ Len(q) = Len(s) - n /\ \A i \in 1..(Len(s) - n) : q[i] = s[n + i]
  BY BehindIs
<1> HIDE DEF p, q
<1>3. a \o p \in Seq(S) /\ (a \o p) \o q \in Seq(S) /\ a \o s \in Seq(S)
  BY <1>1, <1>2
<1>4. Len((a \o p) \o q) = Len(a) + Len(s) /\ Len(a \o s) = Len(a) + Len(s)
  BY <1>1, <1>2, <1>3
<1>5. ASSUME NEW i \in 1..(Len(a) + Len(s)) PROVE ((a \o p) \o q)[i] = (a \o s)[i]
  <2>1. CASE i <= Len(a)
    BY <1>1, <1>2, <1>3, <2>1
  <2>2. CASE i > Len(a) /\ i <= Len(a) + n
    BY <1>1, <1>2, <1>3, <2>2
  <2>3. CASE i > Len(a) + n
    <3>1. ((a \o p) \o q)[i] = q[i - (Len(a) + n)]
      BY <1>1, <1>2, <1>3, <2>3
    <3>2. i - (Len(a) + n) \in 1..(Len(s) - n) /\ n + (i - (Len(a) + n)) = i - Len(a)
      BY <1>0, <2>3
    <3>3. q[i - (Len(a) + n)] = s[n + (i - (Len(a) + n))]
      BY <1>2, <3>2
    <3>4. (a \o s)[i] = s[i - Len(a)]
      BY <2>3
    <3>5. QED
      BY <3>1, <3>2, <3>3, <3>4
  <2>4. i <= Len(a) \/ (i > Len(a) /\ i <= Len(a) + n) \/ i > Len(a) + n
    BY <1>0
  <2>5. QED
    BY <2>1, <2>2, <2>3, <2>4, Zenon
<1>6. (a \o p) \o q = a \o s
  BY <1>3, <1>4, <1>5, SameSeq
<1>7. QED
  BY <1>1, <1>2, <1>3, <1>6 DEF p, q, Parted

Behind(S, a, b, n) ==
  /\ SubSeq(a, n + 1, Len(a)) \in Seq(S)
  /\ SubSeq(a, n + 1, Len(a)) \o b = SubSeq(a \o b, n + 1, Len(a \o b))
\* What is behind a position of the first part.
LEMMA TailOfCat ==
  ASSUME NEW S, NEW a \in Seq(S), NEW b \in Seq(S), NEW n \in 0..Len(a)
  PROVE  Behind(S, a, b, n)
<1> DEFINE q == SubSeq(a, n + 1, Len(a))
<1> DEFINE c == a \o b
<1> DEFINE r == SubSeq(c, n + 1, Len(c))
<1>0. c \in Seq(S) /\ Len(c) = Len(a) + Len(b) /\ Len(a) \in Nat /\ Len(b) \in Nat /\ n \in Nat /\ n <= Len(a)
  OBVIOUS
<1>1. q \in Seq(S) /\ Len(q) = Len(a) - n /\ \A i \in 1..(Len(a) - n) : q[i] = a[n + i]
  BY BehindIs
<1>2. r \in Seq(S) /\ Len(r) = Len(c) - n /\ \A i \in 1..(Len(c) - n) : r[i] = c[n + i]
  <2> HIDE DEF c
  <2>1. n \in 0..Len(c)
    BY <1>0
  <2>2. QED
    BY <1>0, <2>1, BehindIs
<1> HIDE DEF q, r
<1>3. q \o b \in Seq(S) /\ Len(q \o b) = Len(a) - n + Len(b)
  <2>1. q \o b \in Seq(S) /\ Len(q \o b) = Len(q) + Len(b)
    BY <1>1, CatIs
  <2>2. QED
    BY <1>1, <2>1
<1>4. ASSUME NEW i \in 1..(Len(a) - n + Len(b)) PROVE (q \o b)[i] = r[i]
  <2>1. r[i] = c[n + i]
    BY <1>0, <1>2
  <2>2. CASE i <= Len(a) - n
    BY <1>1, <2>1, <2>2
  <2>3. CASE i > Len(a) - n
    <3>1. (q \o b)[i] = b[i - (Len(a) - n)]
      BY <1>1, <2>3
    <3>2. c[n + i] = b[n + i - Len(a)]
      BY <2>3
    <3>3. QED
      BY <2>1, <3>1, <3>2
  <2>4. i <= Len(a) - n \/ i > Len(a) - n
    BY <1>0
  <2>5. QED
    BY <2>2, <2>3, <2>4, Zenon
<1>5. Len(q \o b) = Len(r) /\ \A i \in 1..Len(q \o b) : (q \o b)[i] = r[i]
  BY <1>0, <1>2, <1>3, <1>4
<1>6. q \o b = r
  BY <1>2, <1>3, <1>5, SameSeq
<1>7. QED
  BY <1>1, <1>6 DEF q, r, Behind

\* The first complete segment of what was read is that of the stream.
LEMMA FirstOfCat ==
  ASSUME NEW S, NEW a \in Seq(S), NEW b \in Seq(S), NEW f, First(a, f) # 0
  PROVE  First(a \o b, f) = First(a, f) /\ (a \o b)[First(a \o b, f)] = a[First(a, f)]
<1> DEFINE c == a \o b
<1> DEFINE m == First(a, f)
<1> DEFINE n == First(c, f)
<1>1. c \in Seq(S) /\ Len(c) = Len(a) + Len(b) /\ \A i \in 1..Len(a) : c[i] = a[i]
  OBVIOUS
<1> HIDE DEF c
<1>2. m \in 1..Len(a) /\ a[m].f = f /\ a[m].end /\ \A i \in 1..Len(a) : a[i].f = f /\ a[i].end => m <= i
  BY FirstIs
<1>3. /\ n \in 0..Len(c)
      /\ n = 0 => \A i \in 1..Len(c) : ~(c[i].f = f /\ c[i].end)
      /\ n # 0 => c[n].f = f /\ c[n].end /\ \A i \in 1..Len(c) : c[i].f = f /\ c[i].end => n <= i
  BY <1>1, FirstIs
<1> HIDE DEF m, n
<1>4. m \in 1..Len(c) /\ c[m] = a[m]
  BY <1>1, <1>2
<1>5. n # 0 /\ n <= m
  BY <1>2, <1>3, <1>4
<1>6. n \in 1..Len(a) /\ c[n] = a[n]
  BY <1>1, <1>2, <1>3, <1>5
<1>7. m <= n
  BY <1>2, <1>3, <1>5, <1>6
<1>8. n = m
  BY <1>2, <1>3, <1>5, <1>7
<1>9. QED
  BY <1>4, <1>8 DEF c, m, n

-----------------------------------------------------------------------------
(* What the rules say of a name.                                           *)

\* A rule is one of the two kinds.
LEMMA RuleKinds ==
  ASSUME NEW i \in DOMAIN Grants
  PROVE  LET g == Grants[i] IN
         \/ /\ g.kind \in {"token", "ssh"} /\ g.allow \in Seq(Range(g.allow)) /\ DOMAIN g.allow = 1..Len(g.allow)
            /\ \A j \in 1..Len(g.allow) : /\ g.allow[j].mtls \in BOOLEAN
                                          /\ g.kind = "ssh" => g.allow[j].scheme = "ssh"
                                          /\ g.kind = "token" => g.allow[j].scheme \in {"https", "http", "tcp", "ssh"}
         \/ /\ g.kind \in {"postgres", "redis"} /\ g.mtls \in BOOLEAN
            /\ g.down = [name |-> g.down.name, port |-> g.down.port]
<1> DEFINE g == Grants[i]
<1>1. g \in Range(Grants)
  BY DEF Range
<1>2. CASE g.kind \in {"token", "ssh"}
  <2>1. /\ g.allow \in Seq(Range(g.allow))
        /\ \A e \in Range(g.allow) : e.scheme \in IF g.kind = "ssh" THEN {"ssh"} ELSE {"https", "http", "tcp", "ssh"}
        /\ \A e \in Range(g.allow) : e.mtls \in BOOLEAN
    BY <1>1, <1>2, GrantsAssumption
  <2>2. DOMAIN g.allow = 1..Len(g.allow)
    BY <2>1
  <2>3. \A j \in 1..Len(g.allow) : g.allow[j] \in Range(g.allow)
    BY <2>2 DEF Range
  <2>4. QED
    BY <1>2, <2>1, <2>2, <2>3
<1>3. CASE g.kind \notin {"token", "ssh"}
  BY <1>1, <1>3, GrantsAssumption
<1>4. QED
  BY <1>2, <1>3

\* The scope of an endpoint arm is an entry.
LEMMA ScopeReal ==
  ASSUME NEW scheme, NEW host, NEW port, NEW i \in DOMAIN Grants,
         endpoint(Grants[i], scheme, host, port) # 0
  PROVE  LET e == Grants[i].allow[endpoint(Grants[i], scheme, host, port)]
         IN  e # NoScope /\ e.mtls \in BOOLEAN /\ e.scheme = scheme
<1> DEFINE g == Grants[i]
<1> DEFINE n == endpoint(g, scheme, host, port)
<1>1. g.kind = "token" /\ n = EndpointIndex(g, scheme, host, port)
  BY DEF endpoint
<1>2. /\ g.allow \in Seq(Range(g.allow))
      /\ \A j \in 1..Len(g.allow) : g.allow[j].mtls \in BOOLEAN /\ g.allow[j].scheme \in {"https", "http", "tcp", "ssh"}
  BY <1>1, RuleKinds
<1>3. n \in 1..Len(g.allow) /\ g.allow[n].scheme = scheme
  BY <1>1, <1>2, EndpointIs
<1>4. g.allow[n].scheme # "none"
  BY <1>2, <1>3
<1>5. QED
  BY <1>2, <1>3, <1>4 DEF NoScope

\* A destination of the TLS arm whose name is known has an https scope.
LEMMA TlsNamed ==
  ASSUME NEW host, NEW port, expect(host, port) = "tls"
  PROVE  ScopeOf("https", host, port) # NoScope
<1>1. \E j \in DOMAIN Grants : Covered(Grants[j], "tls", host, port)
  <2>1. \E i \in DOMAIN Arms : expect(host, port) = Arms[i] /\ \E j \in DOMAIN Grants : Covered(Grants[j], Arms[i], host, port)
    BY ExpectIs
  <2>2. QED
    BY <2>1
<1>2. \E j \in DOMAIN Grants : endpoint(Grants[j], "https", host, port) # 0
  BY <1>1 DEF Covered, SchemeOf
<1>3. QED
  BY <1>2, ScopeIs, ScopeReal

\* No scope of an endpoint's scheme: no rule names it.
LEMMA NoScopeNoName ==
  ASSUME NEW scheme \in {"https", "http"}, NEW host, host # NoName, NEW port, ScopeOf(scheme, host, port) = NoScope,
         NEW i \in DOMAIN Grants
  PROVE  ~Names(Grants[i], {scheme}, host, port)
<1> DEFINE g == Grants[i]
<1>1. endpoint(g, scheme, host, port) = 0
  BY ScopeIs, ScopeReal
<1>2. CASE g.kind = "token"
  <2>1. EndpointIndex(g, scheme, host, port) = 0 /\ g.allow \in Seq(Range(g.allow)) /\ DOMAIN g.allow = 1..Len(g.allow)
    BY <1>1, <1>2, RuleKinds DEF endpoint
  <2>2. \A j \in 1..Len(g.allow) : ~(g.allow[j].scheme = scheme /\ g.allow[j].port = port /\ HostMatches(g.allow[j].host, host))
    BY <2>1, EndpointIs
  <2>3. QED
    BY <1>2, <2>1, <2>2 DEF Names, HostMatches
<1>3. CASE g.kind = "ssh"
  <2>1. DOMAIN g.allow = 1..Len(g.allow) /\ \A j \in 1..Len(g.allow) : g.allow[j].scheme = "ssh"
    BY <1>3, RuleKinds
  <2>2. QED
    BY <1>3, <2>1 DEF Names
<1>4. CASE g.kind \in {"postgres", "redis"}
  BY <1>4 DEF Names
<1>5. QED
  BY <1>2, <1>3, <1>4, RuleKinds

\* A rule that names a destination covers it for one of the arms.
LEMMA NamedCovered ==
  ASSUME NEW i \in DOMAIN Grants, NEW host, host # NoName, NEW port, Names(Grants[i], AllSchemes, host, port)
  PROVE  /\ \E arm \in {"postgres", "redis", "ssh", "tls", "plain", "raw"} : Covered(Grants[i], arm, host, port)
         /\ \A arm \in {"postgres", "redis"} : Grants[i].kind = arm => Covered(Grants[i], arm, host, port)
<1> DEFINE g == Grants[i]
<1>1. CASE g.kind \in {"token", "ssh"}
  <2>1. PICK j \in DOMAIN g.allow : /\ g.allow[j].port = port /\ g.allow[j].host \in {host, "*"}
                                    /\ g.allow[j].scheme = "ssh" => g.kind = "ssh"
    BY <1>1 DEF Names
  <2>2. /\ g.allow \in Seq(Range(g.allow)) /\ j \in 1..Len(g.allow)
        /\ g.kind = "ssh" => g.allow[j].scheme = "ssh"
        /\ g.kind = "token" => g.allow[j].scheme \in {"https", "http", "tcp"}
    BY <1>1, <2>1, RuleKinds
  <2>3. EndpointIndex(g, g.allow[j].scheme, host, port) # 0
    <3>1. HostMatches(g.allow[j].host, host)
      BY <2>1 DEF HostMatches
    <3>2. QED
      BY <2>1, <2>2, <3>1, EndpointIs
  <2>4. CASE g.kind = "ssh"
    <3>1. ssh(g, host, port) # 0
      BY <2>2, <2>3, <2>4 DEF ssh
    <3>2. Covered(g, "ssh", host, port)
      BY <3>1 DEF Covered
    <3>3. QED
      BY <2>4, <3>2
  <2>5. CASE g.kind = "token"
    <3>1. endpoint(g, g.allow[j].scheme, host, port) # 0
      BY <2>3, <2>5 DEF endpoint
    <3>2. /\ g.allow[j].scheme = "https" => Covered(g, "tls", host, port)
          /\ g.allow[j].scheme = "http" => Covered(g, "plain", host, port)
          /\ g.allow[j].scheme = "tcp" => Covered(g, "raw", host, port)
      BY <3>1 DEF Covered, SchemeOf
    <3>3. QED
      BY <2>1, <2>2, <2>5, <3>2
  <2>6. QED
    BY <1>1, <2>4, <2>5
<1>2. CASE g.kind \in {"postgres", "redis"}
  <2>1. g.down = [name |-> host, port |-> port]
    BY <1>2 DEF Names
  <2>2. database(g, g.kind, host, port)
    BY <2>1 DEF database
  <2>3. \A arm \in {"postgres", "redis"} : Covered(g, arm, host, port) = database(g, arm, host, port)
    BY DEF Covered
  <2>4. QED
    BY <1>2, <2>2, <2>3
<1>3. QED
  BY <1>1, <1>2, RuleKinds

\* A destination of no arm is named by no rule; one of the ssh arm by no database rule.
LEMMA SpliceNoName ==
  ASSUME NEW host, host # NoName, NEW port, NEW i \in DOMAIN Grants
  PROVE  /\ expect(host, port) = "splice" => ~Names(Grants[i], AllSchemes, host, port)
         /\ expect(host, port) = "ssh" => ~Names(Grants[i], {"postgres", "redis"}, host, port)
<1> DEFINE hit(arm) == \E j \in DOMAIN Grants : Covered(Grants[j], arm, host, port)
<1>0. Arms[1] = "postgres" /\ Arms[2] = "redis" /\ Arms[3] = "ssh" /\ Arms[4] = "tls" /\ Arms[5] = "plain" /\ Arms[6] = "raw" /\ DOMAIN Arms = 1..6
  BY DEF Arms
<1>1. \/ expect(host, port) = "splice" /\ \A k \in DOMAIN Arms : ~hit(Arms[k])
      \/ \E k \in DOMAIN Arms : expect(host, port) = Arms[k] /\ hit(Arms[k]) /\ \A j \in DOMAIN Arms : j < k => ~hit(Arms[j])
  BY ExpectIs
<1>2. \A arm : ~hit(arm) => ~Covered(Grants[i], arm, host, port)
  OBVIOUS
<1> HIDE DEF hit
<1>3. CASE expect(host, port) = "splice"
  <2>1. \A k \in DOMAIN Arms : ~hit(Arms[k])
    BY <1>0, <1>1, <1>3
  <2>2. \A arm \in {"postgres", "redis", "ssh", "tls", "plain", "raw"} : ~hit(arm)
    BY <1>0, <2>1
  <2>3. QED
    BY <1>2, <1>3, <2>2, NamedCovered
<1>4. CASE expect(host, port) = "ssh"
  <2>1. ~hit("postgres") /\ ~hit("redis")
    BY <1>0, <1>1, <1>4
  <2>2. ASSUME Names(Grants[i], {"postgres", "redis"}, host, port) PROVE FALSE
    <3>1. Grants[i].kind \in {"postgres", "redis"}
      BY <2>2, RuleKinds DEF Names
    <3>2. Names(Grants[i], AllSchemes, host, port)
      BY <2>2, <3>1 DEF Names, AllSchemes
    <3>3. Covered(Grants[i], Grants[i].kind, host, port)
      BY <3>1, <3>2, NamedCovered
    <3>4. QED
      BY <1>2, <2>1, <3>1, <3>3
  <2>3. QED
    BY <1>4, <2>2
<1>5. QED
  BY <1>3, <1>4

\* What a candidate stream is given: an arm of the list or none, and the rule of a database arm.
LEMMA CandidateIs ==
  ASSUME NEW host, NEW port
  PROVE  LET arm == expect(host, port) IN
         /\ arm \in {"postgres", "redis", "ssh", "tls", "plain", "raw", "splice"}
         /\ arm \in {"postgres", "redis"} =>
              \E i \in DOMAIN Grants : /\ ScopeFor(arm, host, port) = Grants[i] /\ Grants[i].kind = arm
                                       /\ host # NoName => Grants[i].down = [name |-> host, port |-> port]
<1> DEFINE arm == expect(host, port)
<1>0. Arms[1] = "postgres" /\ Arms[2] = "redis" /\ Arms[3] = "ssh" /\ Arms[4] = "tls" /\ Arms[5] = "plain" /\ Arms[6] = "raw" /\ DOMAIN Arms = 1..6
  BY DEF Arms
<1>1. \/ arm = "splice"
      \/ \E k \in DOMAIN Arms : arm = Arms[k] /\ \E j \in DOMAIN Grants : Covered(Grants[j], Arms[k], host, port)
  BY ExpectIs
<1> HIDE DEF arm
<1>2. arm \in {"postgres", "redis", "ssh", "tls", "plain", "raw", "splice"}
  BY <1>0, <1>1
<1>3. ASSUME arm \in {"postgres", "redis"}
      PROVE  \E i \in DOMAIN Grants : /\ ScopeFor(arm, host, port) = Grants[i] /\ Grants[i].kind = arm
                                      /\ host # NoName => Grants[i].down = [name |-> host, port |-> port]
  <2>1. \E j \in DOMAIN Grants : Covered(Grants[j], arm, host, port)
    BY <1>1, <1>3
  <2>2. PICK i \in DOMAIN Grants : /\ FindGrant(LAMBDA g : Covered(g, arm, host, port)) = Grants[i]
                                   /\ Covered(Grants[i], arm, host, port)
    BY <2>1, RuleIs
  <2>3. ScopeFor(arm, host, port) = Grants[i]
    BY <1>3, <2>2 DEF ScopeFor
  <2>4. database(Grants[i], arm, host, port)
    BY <1>3, <2>2 DEF Covered
  <2>5. Grants[i].down = [name |-> Grants[i].down.name, port |-> Grants[i].down.port]
    BY <1>3, <2>4, RuleKinds DEF database
  <2>6. QED
    BY <2>3, <2>4, <2>5 DEF database
<1>4. QED
  BY <1>2, <1>3 DEF arm

-----------------------------------------------------------------------------
(* What was read and what is left, step by step.                           *)

\* A step of a settling connection that hands nothing on and reads nothing.
LEMMA MovesKeep ==
  ASSUME BytesInv, pc \in Mid, pc' \in Mid \cup {"closed"}, open' = open, buf' = buf, rest' = rest, fed' = fed,
         IsStream(stream'), stream'.arm = stream.arm
  PROVE  BytesInv'
<1>1. Payload' = Payload
  BY DEF Payload
<1>2. buf \in Seq(Segs) /\ rest \in Seq(Segs) /\ fed \in Seq(Segs) /\ open \in Opens /\ stream.arm # "forward" /\ buf \o rest = Payload
  BY DEF BytesInv
<1>3. pc' \notin {"idle", "head"} \cup Served
  BY DEF Mid, Readers, Served
<1>4. QED
  BY <1>1, <1>2, <1>3 DEF BytesInv

\* A connection that is given up.
LEMMA ClosedKeep ==
  ASSUME BytesInv, pc' = "closed", buf' = buf, rest' = rest, fed' = fed
  PROVE  BytesInv'
<1>1. pc' \notin {"idle", "head"} \cup Mid \cup Served
  BY DEF Mid, Readers, Served
<1>2. buf \in Seq(Segs) /\ rest \in Seq(Segs) /\ fed \in Seq(Segs)
  BY DEF BytesInv
<1>3. QED
  BY <1>1, <1>2 DEF BytesInv

\* A read.
LEMMA ReadsKeep ==
  ASSUME BytesInv, pc \in {"head"} \cup Mid, pc' \in {pc, "closed"}, NEW n, Take(n)
  PROVE  BytesInv'
<1>0. /\ buf \in Seq(Segs) /\ rest \in Seq(Segs) /\ fed \in Seq(Segs) /\ open \in Opens
      /\ pc = "head" => open.via = "explicit" /\ buf \o rest = open.script
      /\ pc \in Mid => IsStream(stream) /\ stream.arm # "forward" /\ buf \o rest = Payload
  BY DEF BytesInv
<1>1. Len(rest) \in Nat /\ n \in 0..Len(rest)
  BY <1>0 DEF Take
<1>2. buf' \in Seq(Segs) /\ rest' \in Seq(Segs) /\ buf' \o rest' = buf \o rest
  <2>1. /\ buf \o SubSeq(rest, 1, n) \in Seq(Segs) /\ SubSeq(rest, n + 1, Len(rest)) \in Seq(Segs)
        /\ (buf \o SubSeq(rest, 1, n)) \o SubSeq(rest, n + 1, Len(rest)) = buf \o rest
    <3>1. buf \in Seq(Segs) /\ rest \in Seq(Segs) /\ n \in 0..Len(rest)
      BY <1>0, <1>1
    <3>2. Parted(Segs, buf, rest, n)
      BY <3>1, Cut
    <3>3. QED
      BY <3>2 DEF Parted
  <2>2. buf' = buf \o SubSeq(rest, 1, n) /\ rest' = SubSeq(rest, n + 1, Len(rest))
    BY DEF Take
  <2>3. QED
    BY <2>1, <2>2, Zenon
<1>3. open' = open /\ stream' = stream /\ fed' = fed /\ Payload' = Payload
  BY DEF Take, Payload
<1>4. pc' \notin {"idle"} \cup Served /\ pc' \in {"head", "closed"} \cup Mid
  BY DEF Mid, Readers, Served
<1>5. (pc' \in Mid => pc \in Mid) /\ (pc' = "head" => pc = "head") /\ (pc' \in {"head"} \cup Mid => pc' = pc)
  BY DEF Mid, Readers
<1>6. QED
  BY <1>0, <1>2, <1>3, <1>4, <1>5 DEF BytesInv

\* What was read is handed on first.
LEMMA ServedKeep ==
  ASSUME BytesInv, pc \in Mid, pc' \in Served, open' = open, rest' = rest, stream'.arm = stream.arm,
         fed' = buf, buf' = <<>>
  PROVE  BytesInv'
<1>1. Payload' = Payload
  BY DEF Payload
<1>2. buf \in Seq(Segs) /\ rest \in Seq(Segs) /\ open \in Opens /\ buf \o rest = Payload
  BY DEF BytesInv
<1>3. pc' \notin {"idle", "head"} \cup Mid /\ pc' \in {"idle", "head", "closed"} \cup Mid \cup Served
  BY DEF Mid, Readers, Served
<1>4. <<>> \in Seq(Segs)
  OBVIOUS
<1>5. QED
  BY <1>1, <1>2, <1>3, <1>4 DEF BytesInv

\* A scope or a host put into a stream.
LEMMA StreamIs ==
  ASSUME IsStream(stream), NEW x
  PROVE  /\ IsStream([stream EXCEPT !.scope = x]) /\ [stream EXCEPT !.scope = x].arm = stream.arm
         /\ [stream EXCEPT !.scope = x].host = stream.host /\ [stream EXCEPT !.scope = x].dial = stream.dial
         /\ [stream EXCEPT !.scope = x].port = stream.port /\ [stream EXCEPT !.scope = x].scope = x
         /\ IsStream([stream EXCEPT !.host = x]) /\ [stream EXCEPT !.host = x].arm = stream.arm
         /\ [stream EXCEPT !.host = x].host = x /\ [stream EXCEPT !.host = x].dial = stream.dial
         /\ [stream EXCEPT !.host = x].port = stream.port /\ [stream EXCEPT !.host = x].scope = stream.scope
<1> DEFINE h == stream.host
<1> DEFINE r == stream.raw
<1> DEFINE d == stream.dial
<1> DEFINE p == stream.port
<1> DEFINE a == stream.arm
<1> DEFINE c == stream.scope
<1>1. stream = [host |-> h, raw |-> r, dial |-> d, port |-> p, arm |-> a, scope |-> c]
  BY DEF IsStream
<1> HIDE DEF h, r, d, p, a, c
<1>2. [stream EXCEPT !.scope = x] = [host |-> h, raw |-> r, dial |-> d, port |-> p, arm |-> a, scope |-> x]
  BY <1>1
<1>3. [stream EXCEPT !.host = x] = [host |-> x, raw |-> r, dial |-> d, port |-> p, arm |-> a, scope |-> c]
  BY <1>1
<1>4. QED
  BY <1>1, <1>2, <1>3 DEF IsStream

\* What a candidate stream looks like.
LEMMA CandidateHas ==
  ASSUME NEW host, NEW raw, NEW dial, NEW port, Candidate(host, raw, dial, port)
  PROVE  /\ IsStream(stream') /\ stream'.arm = expect(host, port) /\ stream'.arm # "forward"
         /\ stream'.host = host /\ stream'.raw = raw /\ stream'.dial = dial /\ stream'.port = port
         /\ stream'.scope = ScopeFor(expect(host, port), host, port)
<1>1. stream' = [host |-> host, raw |-> raw, dial |-> dial, port |-> port, arm |-> expect(host, port),
                 scope |-> ScopeFor(expect(host, port), host, port)]
  BY DEF Candidate
<1>2. expect(host, port) \in {"postgres", "redis", "ssh", "tls", "plain", "raw", "splice"}
  BY CandidateIs
<1>3. QED
  BY <1>1, <1>2 DEF IsStream

\* The script of a guest is made of its segments.
LEMMA ScriptIs ==
  ASSUME NEW o \in Opens
  PROVE  o.script \in Seq(Segs) /\ o.via \in {"explicit", "captured"}
<1>1. o.script \in Seq(Range(o.script)) /\ o.via \in {"explicit", "captured"}
  BY OpensAssumption
<1>2. Range(o.script) \subseteq Segs
  BY DEF Segs
<1> DEFINE s == o.script
<1> DEFINE R == Range(o.script)
<1>3. s \in Seq(R) /\ R \subseteq Segs
  BY <1>1, <1>2
<1> HIDE DEF s, R
<1>4. s \in Seq(Segs)
  BY <1>3
<1>5. QED
  BY <1>1, <1>4 DEF s

\* Nothing has been read in the initial state.
LEMMA BytesInit ==
  ASSUME Init
  PROVE  BytesInv
<1>1. pc = "idle" /\ buf = <<>> /\ rest = <<>> /\ fed = <<>>
  BY DEF Init, Idle
<1>2. "idle" \notin Mid \cup Served
  BY DEF Mid, Readers, Served
<1>3. <<>> \in Seq(Segs)
  OBVIOUS
<1>4. QED
  BY <1>1, <1>2, <1>3 DEF BytesInv

\* A connection starts with the whole of its script to read.
LEMMA AcceptBytes ==
  ASSUME BytesInv, NEW o \in Opens, Accept(o)
  PROVE  BytesInv'
<1>1. /\ buf = <<>> /\ buf' = buf /\ rest' = o.script /\ open' = o /\ fed' = fed /\ fed \in Seq(Segs)
  BY DEF BytesInv, Accept
<1>2. o.script \in Seq(Segs) /\ <<>> \in Seq(Segs)
  BY ScriptIs
<1>3. <<>> \o o.script = o.script
  BY <1>2
<1>4. CASE o.via = "explicit"
  <2>1. pc' = "head"
    BY <1>4 DEF Accept, Goto
  <2>2. "head" \notin Mid \cup Served
    BY DEF Mid, Readers, Served
  <2>3. QED
    BY <1>1, <1>2, <1>3, <1>4, <2>1, <2>2 DEF BytesInv
<1>5. CASE o.via # "explicit"
  <2>1. pc' = "arm" /\ Candidate(NoName, o.name, o.name, o.port)
    BY <1>5 DEF Accept, Goto
  <2>2. IsStream(stream') /\ stream'.arm # "forward"
    BY <2>1, CandidateHas
  <2>3. Payload' = o.script
    BY <1>1, <1>5 DEF Payload
  <2>4. "arm" \in Mid /\ "arm" \notin Served
    BY DEF Mid, Readers, Served
  <2>5. QED
    BY <1>1, <1>2, <1>3, <2>1, <2>2, <2>3, <2>4 DEF BytesInv
<1>6. QED
  BY <1>4, <1>5

\* What was pipelined behind the CONNECT head stays first.
LEMMA ConnectBytes ==
  ASSUME BytesInv, Connect
  PROVE  BytesInv'
<1> DEFINE i == First(buf, "http")
<1> DEFINE to == parse_authority(buf[i].target, 0)
<1>1. pc = "head" /\ i # 0 /\ open \in Opens /\ open.via = "explicit" /\ buf \o rest = open.script
  BY DEF BytesInv, Connect, Completed
<1>2. buf \in Seq(Segs) /\ rest \in Seq(Segs) /\ fed \in Seq(Segs)
  BY DEF BytesInv
<1>3. CASE to = Nowhere
  BY <1>3, ClosedKeep DEF Connect, Close, Goto
<1>4. CASE to # Nowhere
  <2>1. /\ buf' = SubSeq(buf, i + 1, Len(buf)) /\ Candidate(to.name, to.name, to.name, to.port) /\ pc' = "arm"
        /\ open' = open /\ rest' = rest /\ fed' = fed
    BY <1>4 DEF Connect, Goto, head_tail
  <2>2. IsStream(stream') /\ stream'.arm # "forward"
    BY <2>1, CandidateHas
  <2>3. First(open.script, "http") = i
    <3>1. First(buf \o rest, "http") = First(buf, "http")
      BY <1>1, <1>2, FirstOfCat
    <3>2. QED
      BY <1>1, <3>1
  <2>4. Payload' = SubSeq(open.script, i + 1, Len(open.script))
    BY <1>1, <2>1, <2>2, <2>3 DEF Payload
  <2>5. i \in 0..Len(buf)
    BY <1>2, FirstIs
  <2>6. buf' \in Seq(Segs) /\ buf' \o rest = SubSeq(buf \o rest, i + 1, Len(buf \o rest))
    <3> HIDE DEF i
    <3>1. Behind(Segs, buf, rest, i)
      BY <1>2, <2>5, TailOfCat
    <3>2. QED
      BY <2>1, <3>1 DEF Behind
  <2>7. "arm" \in Mid /\ "arm" \notin Served
    BY DEF Mid, Readers, Served
  <2>8. QED
    BY <1>1, <1>2, <2>1, <2>2, <2>4, <2>6, <2>7 DEF BytesInv
<1>5. QED
  BY <1>3, <1>4

\* A forwarded request is handed on with its head.
LEMMA ForwardBytes ==
  ASSUME BytesInv, forward_arm
  PROVE  BytesInv'
<1>1. pc = "head" /\ open \in Opens /\ open.via = "explicit" /\ buf \o rest = open.script
  BY DEF BytesInv, forward_arm
<1>2. buf \in Seq(Segs) /\ rest \in Seq(Segs)
  BY DEF BytesInv
<1>3. CASE Close
  BY <1>3, ClosedKeep DEF Close, Goto
<1>4. CASE ~Close
  <2>1. stream'.arm = "forward" /\ fed' = buf /\ buf' = <<>> /\ pc' \in Served /\ open' = open /\ rest' = rest
    BY <1>4 DEF forward_arm, Serve, Copy, Goto, Served
  <2>2. Payload' = open.script
    BY <2>1 DEF Payload
  <2>3. pc' \notin {"idle", "head"} \cup Mid
    BY <2>1 DEF Mid, Readers, Served
  <2>4. <<>> \in Seq(Segs)
    OBVIOUS
  <2>5. QED
    BY <1>1, <1>2, <2>1, <2>2, <2>3, <2>4 DEF BytesInv
<1>5. QED
  BY <1>3, <1>4

\* The rest follows.
LEMMA FlowBytes ==
  ASSUME BytesInv, Flow
  PROVE  BytesInv'
<1>1. pc \in Served /\ pc' = pc /\ buf' = buf /\ fed' = fed \o rest /\ rest' = <<>> /\ open' = open /\ stream' = stream
  BY DEF Flow, Served
<1>2. buf \in Seq(Segs) /\ rest \in Seq(Segs) /\ fed \in Seq(Segs) /\ open \in Opens /\ fed \o rest = Payload
  BY <1>1 DEF BytesInv
<1>3. Payload' = Payload
  BY <1>1 DEF Payload
<1>4. fed \o rest \in Seq(Segs) /\ <<>> \in Seq(Segs)
  <2>1. rest \in Seq(Segs) /\ fed \in Seq(Segs)
    BY <1>2
  <2>2. QED
    BY <2>1
<1> DEFINE x == fed \o rest
<1>5. x \o <<>> = x
  <2> HIDE DEF x
  <2>1. x \in Seq(Segs)
    BY <1>4 DEF x
  <2>2. QED
    BY <2>1
<1>6. pc \notin {"idle", "head"} \cup Mid /\ pc \in {"idle", "head", "closed"} \cup Mid \cup Served
  BY <1>1 DEF Mid, Readers, Served
<1>7. QED
  BY <1>1, <1>2, <1>3, <1>4, <1>5, <1>6 DEF BytesInv

\* A hello that is over hands nothing on.
LEMMA HelloBytes ==
  ASSUME BytesInv, NEW over, HelloDone(over)
  PROVE  BytesInv'
<1>1. pc = "hello" /\ pc \in Mid
  BY DEF HelloDone, Mid, Readers
<1>2. IsStream(stream)
  BY <1>1 DEF BytesInv
<1>3. CASE Close
  BY <1>3, ClosedKeep DEF Close, Goto
<1>4. CASE ~Close
  <2>1. https_serve \/ guest_tls_opening
    BY <1>4 DEF HelloDone
  <2>2. open' = open /\ buf' = buf /\ rest' = rest /\ fed' = fed
    BY <1>4, <2>1 DEF https_serve, guest_tls_opening
  <2>3. pc' \in Mid
    BY <1>4, <2>1 DEF https_serve, guest_tls_opening, Goto, Mid, Readers
  <2>4. stream' = stream \/ (\E x : stream' = [stream EXCEPT !.scope = x]) \/ (\E x : stream' = [stream EXCEPT !.host = x])
    BY <1>4, <2>1 DEF https_serve, guest_tls_opening
  <2>5. IsStream(stream') /\ stream'.arm = stream.arm
    <3>1. CASE stream' = stream
      BY <1>2, <3>1 DEF IsStream
    <3>2. ASSUME NEW x, stream' = [stream EXCEPT !.scope = x] PROVE IsStream(stream') /\ stream'.arm = stream.arm
      <4>1. IsStream([stream EXCEPT !.scope = x]) /\ [stream EXCEPT !.scope = x].arm = stream.arm
        BY <1>2, StreamIs
      <4>2. QED
        BY <3>2, <4>1, Zenon DEF IsStream
    <3>3. ASSUME NEW x, stream' = [stream EXCEPT !.host = x] PROVE IsStream(stream') /\ stream'.arm = stream.arm
      <4>1. IsStream([stream EXCEPT !.host = x]) /\ [stream EXCEPT !.host = x].arm = stream.arm
        BY <1>2, StreamIs
      <4>2. QED
        BY <3>3, <4>1, Zenon DEF IsStream
    <3>4. QED
      BY <2>4, <3>1, <3>2, <3>3
  <2>6. QED
    BY <1>1, <2>2, <2>3, <2>5, MovesKeep
<1>5. QED
  BY <1>3, <1>4

\* Every step keeps what the far side is owed.
LEMMA BytesStep ==
  ASSUME BytesInv, [Next]_vars
  PROVE  BytesInv'
<1>0. BytesInv => (Close => BytesInv')
  BY ClosedKeep DEF Close, Goto
<1>1. ASSUME NEW o \in Opens, Accept(o) PROVE BytesInv'
  BY <1>1, AcceptBytes
<1>2. CASE Reads
  <2>1. PICK n : Take(n) /\ pc \in {"head"} \cup Mid /\ pc' \in {pc, "closed"}
    BY <1>2 DEF Reads, ReadHead, ReadHello, ReadHttpHead, ReadBanner, ReadPgOpening, Goto, Mid, Readers
  <2>2. QED
    BY <2>1, ReadsKeep
<1>3. CASE Connect
  BY <1>3, ConnectBytes
<1>4. CASE forward_arm
  BY <1>4, ForwardBytes
<1>5. CASE HelloDone(HelloOver)
  BY <1>5, HelloBytes
<1>6. CASE RefuseHead \/ RefuseHttpHead
  BY <1>0, <1>6 DEF RefuseHead, RefuseHttpHead
<1>7. CASE http_serve
  <2>1. CASE Close
    BY <1>0, <2>1
  <2>2. CASE ~Close
    <3>1. /\ pc \in Mid /\ pc' \in Served /\ open' = open /\ rest' = rest /\ stream'.arm = stream.arm
          /\ fed' = buf /\ buf' = <<>>
      BY <1>7, <2>2 DEF http_serve, Serve, Goto, Mid, Readers, Served
    <3>2. QED
      BY <3>1, ServedKeep
  <2>3. QED
    BY <2>1, <2>2
<1>8. CASE SpliceReplay \/ tcp_serve \/ DatabaseRelay
  <2>1. /\ pc \in Mid /\ pc' \in Served /\ open' = open /\ rest' = rest /\ stream'.arm = stream.arm
        /\ fed' = buf /\ buf' = <<>>
    BY <1>8 DEF SpliceReplay, tcp_serve, DatabaseRelay, LegsKept, Serve, Copy, Goto, Mid, Readers, Served
  <2>2. QED
    BY <2>1, ServedKeep
<1>9. CASE MitmRelay \/ ConnectServer
  <2>1. /\ pc \in Mid /\ open' = open /\ rest' = rest /\ stream' = stream
        /\ \/ pc' \in Served /\ fed' = buf /\ buf' = <<>>
           \/ pc' = "closed" /\ fed' = fed /\ buf' = buf
    BY <1>9 DEF MitmRelay, ConnectServer, LegsKept, Refused, Serve, Goto, Mid, Readers, Served
  <2>2. QED
    BY <2>1, ServedKeep, ClosedKeep
<1>10. CASE PgOpening \/ ExpectServe \/ AcceptGuest
  <2>1. /\ pc \in Mid /\ pc' \in Mid \cup {"closed"} /\ open' = open /\ buf' = buf /\ rest' = rest /\ fed' = fed
        /\ stream' = stream
    BY <1>10 DEF PgOpening, ExpectServe, AcceptGuest, Goto, Mid, Readers
  <2>2. IsStream(stream') /\ stream'.arm = stream.arm
    BY <2>1 DEF BytesInv, IsStream
  <2>3. QED
    BY <2>1, <2>2, MovesKeep
<1>11. CASE splice \/ Dial
  <2>1. /\ pc \in Mid /\ pc' \in Mid \cup {"closed"} /\ open' = open /\ buf' = buf /\ rest' = rest /\ fed' = fed
        /\ stream' = stream
    BY <1>11 DEF splice, Dial, Dials, Close, Goto, Mid, Readers
  <2>2. IsStream(stream') /\ stream'.arm = stream.arm
    BY <2>1 DEF BytesInv, IsStream
  <2>3. QED
    BY <2>1, <2>2, MovesKeep
<1>12. CASE ssh_serve
  <2>1. /\ pc \in Mid /\ open' = open /\ rest' = rest /\ stream' = stream
        /\ \/ pc' \in Served /\ fed' = buf /\ buf' = <<>>
           \/ pc' \in Mid /\ fed' = fed /\ buf' = buf
    BY <1>12 DEF ssh_serve, Serve, Goto, Mid, Readers, Served
  <2>2. IsStream(stream') /\ stream'.arm = stream.arm
    BY <2>1 DEF BytesInv, IsStream
  <2>3. QED
    BY <2>1, <2>2, ServedKeep, MovesKeep
<1>13. CASE Flow
  BY <1>13, FlowBytes
<1>14. CASE Deadline \/ Hangup
  BY <1>0, <1>14, HelloBytes DEF Deadline, Hangup, Abandon
<1>15. CASE Ends
  <2>1. pc' = "idle" /\ buf' = <<>> /\ rest' = <<>> /\ fed' = <<>>
    BY <1>15 DEF Ends
  <2>2. "idle" \notin Mid \cup Served /\ <<>> \in Seq(Segs)
    BY DEF Mid, Readers, Served
  <2>3. QED
    BY <2>1, <2>2 DEF BytesInv
<1>16. CASE Tick \/ UNCHANGED vars
  <2>1. open' = open /\ pc' = pc /\ buf' = buf /\ rest' = rest /\ fed' = fed /\ stream' = stream
    BY <1>16 DEF Tick, vars
  <2>2. Payload' = Payload /\ (IsStream(stream))' = IsStream(stream)
    BY <2>1 DEF Payload, IsStream
  <2>3. QED
    BY <2>1, <2>2 DEF BytesInv
<1>17. QED
  BY <1>1, <1>2, <1>3, <1>4, <1>5, <1>6, <1>7, <1>8, <1>9, <1>10, <1>11, <1>12, <1>13, <1>14, <1>15, <1>16
     DEF Next, Decides, Settling

(* Theorem: the far side gets what the guest sent, once and in order, for  *)
(* any script of any guest and however the reads of its opening cut it     *)
(* (head_tail, Prefixed, splice's replay, relay_guarded's first bytes).    *)
THEOREM StreamsKept == Spec => []StreamKept
<1>1. Init => BytesInv
  BY BytesInit
<1>2. BytesInv /\ [Next]_vars => BytesInv'
  BY BytesStep
<1>3. BytesInv => StreamKept
  BY DEF BytesInv, StreamKept, Served
<1>4. QED
  BY <1>1, <1>2, <1>3, PTL DEF Spec

-----------------------------------------------------------------------------
(* Whom a connection is for, step by step.                                 *)

Party == PartyInv /\ LeavesInv /\ CopyInv
Early == {"head", "arm", "hello", "http", "banner", "opening"}

\* A connection that is given up.
LEMMA ClosedParty ==
  ASSUME pc' = "closed", LeavesInv'
  PROVE  Party'
<1>1. pc' \notin {"idle", "head", "pump", "copy"} \cup Mid
  BY DEF Mid, Readers
<1>2. PartyInv'
  BY <1>1 DEF PartyInv, Mid, Readers
<1>3. CopyInv'
  BY <1>1 DEF CopyInv, Mid, Readers
<1>4. QED
  BY <1>2, <1>3 DEF Party

\* A step that closes the connection.
LEMMA CloseParty ==
  ASSUME Party, Close
  PROVE  Party'
<1>1. pc' = "closed" /\ LeavesInv'
  BY DEF Party, LeavesInv, Close, Goto
<1>2. QED
  BY <1>1, ClosedParty

\* A read, or a tick of the clock.
LEMMA StayParty ==
  ASSUME Party, pc' = pc, pc \in {"idle"} \cup Early, open' = open, stream' = stream, tls' = tls, leaves' = leaves
  PROVE  Party'
<1>1. Stated' = Stated
  BY DEF Stated
<1>2. pc \notin {"splice", "copying", "dial", "legs", "copy"}
  BY DEF Early
<1>3. PartyInv'
  BY <1>1, <1>2 DEF Party, PartyInv
<1>4. CopyInv' /\ LeavesInv'
  BY <1>2 DEF Party, CopyInv, LeavesInv
<1>5. QED
  BY <1>3, <1>4 DEF Party

\* A stream that has just been given its arm.
LEMMA ArmParty ==
  ASSUME LeavesInv, pc' = "arm", tls' = NoTls, leaves' = leaves,
         NEW host, NEW raw, NEW dial, NEW port, Candidate(host, raw, dial, port),
         open'.via = "explicit" => host = open'.name /\ dial = host /\ host # NoName,
         open'.via # "explicit" => host = NoName
  PROVE  Party'
<1>1. /\ stream'.arm = expect(host, port) /\ stream'.host = host /\ stream'.dial = dial /\ stream'.port = port
      /\ stream'.scope = ScopeFor(expect(host, port), host, port)
  BY CandidateHas
<1> DEFINE arm == expect(host, port)
<1>2. /\ arm \in {"postgres", "redis", "ssh", "tls", "plain", "raw", "splice"}
      /\ arm \in {"postgres", "redis"} =>
           \E i \in DOMAIN Grants : /\ ScopeFor(arm, host, port) = Grants[i] /\ Grants[i].kind = arm
                                    /\ host # NoName => Grants[i].down = [name |-> host, port |-> port]
  BY CandidateIs
<1> HIDE DEF arm
<1>3. arm = "splice" \/ \E i \in DOMAIN Arms : arm = Arms[i]
  <2>1. Arms[1] = "postgres" /\ Arms[2] = "redis" /\ Arms[3] = "ssh" /\ Arms[4] = "tls" /\ Arms[5] = "plain" /\ Arms[6] = "raw" /\ DOMAIN Arms = 1..6
    BY DEF Arms
  <2>2. QED
    BY <1>2, <2>1
<1>4. Stated'
  <2>1. stream'.arm \in Databases =>
          \E i \in DOMAIN Grants : /\ stream'.scope = Grants[i] /\ Grants[i].kind = stream'.arm
                                   /\ open'.via = "explicit" => Grants[i].down = [name |-> open'.name, port |-> stream'.port]
    BY <1>1, <1>2 DEF Databases, arm
  <2>2. stream'.arm = "splice" \/ \E i \in DOMAIN Arms : stream'.arm = Arms[i]
    BY <1>1, <1>3 DEF arm
  <2>3. QED
    BY <1>1, <2>1, <2>2 DEF Stated
<1>5. PartyInv'
  BY <1>4 DEF PartyInv
<1>6. CopyInv' /\ LeavesInv'
  BY DEF CopyInv, LeavesInv
<1>7. QED
  BY <1>5, <1>6 DEF Party

\* A connection that starts.
LEMMA AcceptParty ==
  ASSUME Party, NEW o \in Opens, Accept(o)
  PROVE  Party'
<1>1. pc = "idle" /\ tls' = tls /\ tls = NoTls /\ leaves' = leaves /\ open' = o
  BY DEF Accept, Party, PartyInv
<1>2. CASE o.via = "explicit"
  <2>1. pc' = "head"
    BY <1>2 DEF Accept, Goto
  <2>2. PartyInv' /\ CopyInv' /\ LeavesInv'
    BY <1>1, <2>1 DEF Party, PartyInv, CopyInv, LeavesInv, Mid, Readers
  <2>3. QED
    BY <2>2 DEF Party
<1>3. CASE o.via # "explicit"
  <2>1. pc' = "arm" /\ Candidate(NoName, o.name, o.name, o.port)
    BY <1>3 DEF Accept, Goto
  <2>2. LeavesInv /\ tls' = NoTls
    BY <1>1 DEF Party
  <2>3. QED
    BY <1>1, <1>3, <2>1, <2>2, ArmParty
<1>4. QED
  BY <1>2, <1>3

\* The authority of a CONNECT is the peer the guest asked for.
LEMMA ConnectParty ==
  ASSUME BytesInv, Party, Connect
  PROVE  Party'
<1> DEFINE i == First(buf, "http")
<1> DEFINE to == parse_authority(buf[i].target, 0)
<1>1. /\ pc = "head" /\ i # 0 /\ open \in Opens /\ open.via = "explicit" /\ buf \o rest = open.script
      /\ buf \in Seq(Segs) /\ rest \in Seq(Segs) /\ tls = NoTls /\ LeavesInv
  BY DEF BytesInv, Connect, Completed, Party, PartyInv
<1>2. CASE to = Nowhere
  BY <1>2, CloseParty DEF Connect
<1>3. CASE to # Nowhere
  <2>1. /\ Candidate(to.name, to.name, to.name, to.port) /\ pc' = "arm"
        /\ open' = open /\ tls' = tls /\ leaves' = leaves
    BY <1>3 DEF Connect, Goto
  <2>2. to.name = buf[i].target.name /\ to.name # NoName
    BY <1>3 DEF parse_authority
  <2>3. First(open.script, "http") = i /\ open.script[i] = buf[i]
    <3>1. First(buf \o rest, "http") = First(buf, "http") /\ (buf \o rest)[First(buf \o rest, "http")] = buf[First(buf, "http")]
      BY <1>1, FirstOfCat
    <3>2. QED
      BY <1>1, <3>1
  <2>4. open.script[i].target.name = open.name
    BY <1>1, <2>3, OpensAssumption
  <2>5. to.name = open'.name /\ open'.via = "explicit"
    BY <1>1, <2>1, <2>2, <2>3, <2>4
  <2> HIDE DEF to
  <2>6. QED
    BY <1>1, <2>1, <2>2, <2>5, ArmParty
<1>4. QED
  BY <1>2, <1>3

\* A forwarded request is settled at once.
LEMMA ForwardParty ==
  ASSUME Party, forward_arm
  PROVE  Party'
<1>1. CASE Close
  BY <1>1, CloseParty
<1>2. CASE ~Close
  <2>1. stream'.arm = "forward" /\ pc' \in {"pump", "copy"} /\ leaves' = leaves
    BY <1>2 DEF forward_arm, Serve, Copy, Goto
  <2>2. PartyInv' /\ CopyInv' /\ LeavesInv'
    BY <2>1 DEF Party, PartyInv, CopyInv, LeavesInv, Mid, Readers
  <2>3. QED
    BY <2>2 DEF Party
<1>3. QED
  BY <1>1, <1>2

\* A named stream of the TLS arm is not spliced, and a terminated leg shows the name that picked the scope.
LEMMA HttpsParty ==
  ASSUME BytesInv, Party, pc = "hello", stream.arm = "tls", https_serve
  PROVE  Party'
<1> DEFINE host == stream.host
<1> DEFINE identity == IF host # NoName THEN host ELSE Sni
<1> DEFINE scope == ScopeOf("https", identity, stream.port)
<1>1. IsStream(stream) /\ Stated /\ tls = NoTls /\ LeavesInv
  BY DEF BytesInv, Party, PartyInv, Mid, Readers
<1>2. CASE Close
  BY <1>2, CloseParty
<1>3. CASE ~Close
  <2>1. NameAllowed(host, Sni)
    BY <1>3 DEF https_serve
  <2>2. CASE identity = NoName \/ scope = NoScope
    <3>1. pc' = "splice" /\ UNCHANGED <<open, buf, rest, stream, up, fed, pair, tls, leaves, conns, now>>
      BY <1>3, <2>1, <2>2 DEF https_serve, Goto
    <3>2. Stated' /\ tls' = NoTls
      BY <1>1, <3>1 DEF Stated
    <3>3. open.via # "explicit"
      <4>1. SUFFICES ASSUME open.via = "explicit" PROVE FALSE
        OBVIOUS
      <4>2. host = open.name /\ host # NoName /\ expect(host, stream.port) = "tls"
        BY <1>1, <4>1 DEF Stated
      <4>3. ScopeOf("https", host, stream.port) # NoScope
        BY <4>2, TlsNamed
      <4>4. QED
        BY <2>2, <4>2, <4>3
    <3>4. host = NoName
      BY <1>1, <3>3 DEF Stated
    <3>5. Sni # NoName => ScopeOf("https", Sni, stream.port) = NoScope
      BY <2>2, <3>4
    <3>6. Sni' = Sni
      BY <3>1 DEF Sni, Completed, Opened
    <3>7. CopyInv'
      BY <3>1, <3>3, <3>5, <3>6 DEF CopyInv
    <3>8. PartyInv' /\ LeavesInv'
      BY <1>1, <3>1, <3>2 DEF PartyInv, LeavesInv
    <3>9. QED
      BY <3>7, <3>8 DEF Party
  <2>3. CASE ~(identity = NoName \/ scope = NoScope)
    <3>1. /\ stream' = [stream EXCEPT !.scope = scope]
          /\ tls' = [leaf |-> identity, sni |-> Sni, demand |-> client_auth_policy(scope), expires |-> now + Validity]
          /\ pc' = "dial" /\ open' = open /\ leaves' = leaves
      BY <1>3, <2>1, <2>3 DEF https_serve, Goto
    <3>2. /\ stream'.arm = "tls" /\ stream'.host = host /\ stream'.dial = stream.dial
          /\ stream'.port = stream.port /\ stream'.scope = scope
      <4> DEFINE x == scope
      <4> HIDE DEF x
      <4>1. stream' = [stream EXCEPT !.scope = x]
        BY <3>1 DEF x
      <4>2. stream'.arm = "tls" /\ stream'.host = host /\ stream'.dial = stream.dial /\ stream'.port = stream.port /\ stream'.scope = x
        BY <1>1, <4>1, StreamIs
      <4>3. QED
        BY <4>2 DEF x
    <3>3. IsTls(tls') /\ tls'.leaf = identity /\ tls'.sni = Sni /\ tls'.demand = scope.mtls
      BY <3>1 DEF IsTls, client_auth_policy
    <3>4. Stated'
      BY <1>1, <3>1, <3>2 DEF Stated, Databases
    <3>5. identity # NoName /\ Sni \in {NoName, identity}
      BY <2>1, <2>3 DEF NameAllowed
    <3>6. open.via = "explicit" => identity = open.name
      BY <1>1 DEF Stated
    <3>7. Terminated'
      BY <3>1, <3>2, <3>3, <3>5, <3>6 DEF Terminated, Databases
    <3>8. PartyInv'
      BY <3>1, <3>2, <3>4, <3>7 DEF PartyInv, Databases, Readers
    <3>9. CopyInv' /\ LeavesInv'
      BY <1>1, <3>1 DEF CopyInv, LeavesInv
    <3>10. QED
      BY <3>8, <3>9 DEF Party
  <2>4. QED
    BY <2>2, <2>3
<1>4. QED
  BY <1>2, <1>3

\* The leaf of a database's guest carries the name that picks its rule.
LEMMA OpeningParty ==
  ASSUME BytesInv, Party, pc = "hello", stream.arm # "tls", guest_tls_opening
  PROVE  Party'
<1> DEFINE host == stream.host
<1> DEFINE server_name == IF host # NoName THEN host ELSE Sni
<1> DEFINE identity == IF Sni # NoName THEN Sni ELSE server_name
<1>1. IsStream(stream) /\ Stated /\ stream.arm \in Databases /\ LeavesInv
  BY DEF BytesInv, Party, PartyInv, Mid, Readers
<1>2. CASE Close
  BY <1>2, CloseParty
<1>3. CASE ~Close
  <2>1. /\ NameAllowed(host, Sni) /\ identity # NoName
        /\ stream' = [stream EXCEPT !.host = server_name]
        /\ tls' = [NoTls EXCEPT !.leaf = identity, !.sni = Sni]
        /\ pc' = "dial" /\ open' = open /\ leaves' = leaves
    BY <1>3 DEF guest_tls_opening, Goto
  <2>2. /\ stream'.arm = stream.arm /\ stream'.host = server_name /\ stream'.dial = stream.dial
        /\ stream'.port = stream.port /\ stream'.scope = stream.scope
    <3> DEFINE x == server_name
    <3> HIDE DEF x
    <3>1. stream' = [stream EXCEPT !.host = x]
      BY <2>1 DEF x
    <3>2. stream'.arm = stream.arm /\ stream'.host = x /\ stream'.dial = stream.dial /\ stream'.port = stream.port /\ stream'.scope = stream.scope
      BY <1>1, <3>1, StreamIs
    <3>3. QED
      BY <3>2 DEF x
  <2>3. tls' = [leaf |-> identity, sni |-> Sni, demand |-> FALSE, expires |-> 0]
    BY <2>1 DEF NoTls
  <2>4. IsTls(tls') /\ tls'.leaf = identity /\ tls'.sni = Sni /\ tls'.expires = 0
    BY <2>3 DEF IsTls
  <2>5. identity = server_name /\ Sni \in {NoName, identity}
    BY <2>1 DEF NameAllowed
  <2>6. open.via = "explicit" => server_name = open.name
    BY <1>1 DEF Stated
  <2>7. Stated'
    BY <1>1, <2>1, <2>2, <2>6 DEF Stated, Databases
  <2>8. Terminated'
    BY <1>1, <2>1, <2>2, <2>4, <2>5, <2>6 DEF Terminated, Databases
  <2>9. PartyInv'
    BY <1>1, <2>1, <2>2, <2>7, <2>8 DEF PartyInv, Readers, Databases
  <2>10. CopyInv' /\ LeavesInv'
    BY <1>1, <2>1 DEF CopyInv, LeavesInv
  <2>11. QED
    BY <2>9, <2>10 DEF Party
<1>4. QED
  BY <1>2, <1>3

\* A hello that is over.
LEMMA HelloParty ==
  ASSUME BytesInv, Party, NEW over, HelloDone(over)
  PROVE  Party'
<1>1. pc = "hello" /\ (Close \/ (stream.arm = "tls" /\ https_serve) \/ (stream.arm # "tls" /\ guest_tls_opening))
  BY DEF HelloDone
<1>2. QED
  BY <1>1, CloseParty, HttpsParty, OpeningParty

\* A connection that is served is no longer settling.
LEMMA ServedParty ==
  ASSUME Party, pc' = "pump", leaves' = leaves
  PROVE  Party'
<1>1. PartyInv' /\ CopyInv' /\ LeavesInv'
  BY DEF Party, PartyInv, CopyInv, LeavesInv, Mid, Readers
<1>2. QED
  BY <1>1 DEF Party

\* A settling connection moves on to its next reader, to a splice or to a dial, its leg not yet opened.
LEMMA NextParty ==
  ASSUME Party, pc \in {"arm", "opening", "banner"}, open' = open, buf' = buf, stream' = stream, tls' = tls, leaves' = leaves,
         \/ pc' = "http" /\ stream.arm = "plain"
         \/ pc' = "banner" /\ stream.arm = "ssh"
         \/ pc' = "opening" /\ stream.arm = "postgres"
         \/ pc' = "hello" /\ stream.arm \in {"tls"} \cup Databases
         \/ pc' = "splice" /\ stream.arm \in {"splice", "ssh"}
         \/ pc' = "dial" /\ stream.arm \in {"raw"} \cup Databases
         \/ pc' = "closed"
  PROVE  Party'
<1>1. Stated /\ tls = NoTls /\ LeavesInv
  BY DEF Party, PartyInv, Mid, Readers
<1>2. Stated'
  BY <1>1 DEF Stated
<1>3. tls' = NoTls /\ LeavesInv'
  BY <1>1 DEF LeavesInv
<1>4. Terminated' \/ stream.arm = "tls"
  BY <1>3 DEF Terminated, IsTls, NoTls
<1>5. PartyInv'
  BY <1>2, <1>3, <1>4 DEF PartyInv, Readers, Mid, Databases
<1>6. CopyInv'
  BY DEF CopyInv
<1>7. QED
  BY <1>3, <1>5, <1>6 DEF Party

\* The arm picked by the port and the name, and the openings of ssh and Postgres.
LEMMA ArmsParty ==
  ASSUME Party, ExpectServe \/ PgOpening \/ ssh_serve
  PROVE  Party'
<1>1. CASE ExpectServe
  <2>1. pc = "arm" /\ open' = open /\ buf' = buf /\ stream' = stream /\ tls' = tls /\ leaves' = leaves
    BY <1>1 DEF ExpectServe
  <2>2. \/ pc' = "http" /\ stream.arm = "plain"
        \/ pc' = "banner" /\ stream.arm = "ssh"
        \/ pc' = "opening" /\ stream.arm = "postgres"
        \/ pc' = "hello" /\ stream.arm \in {"tls"} \cup Databases
        \/ pc' = "splice" /\ stream.arm \in {"splice", "ssh"}
        \/ pc' = "dial" /\ stream.arm \in {"raw"} \cup Databases
        \/ pc' = "closed"
    BY <1>1 DEF ExpectServe, Goto, Databases
  <2>3. QED
    BY <2>1, <2>2, NextParty
<1>2. CASE PgOpening
  <2>1. pc = "opening" /\ open' = open /\ buf' = buf /\ stream' = stream /\ tls' = tls /\ leaves' = leaves /\ stream.arm = "postgres"
    BY <1>2 DEF PgOpening, Party, PartyInv
  <2>2. pc' \in {"hello", "dial"}
    BY <1>2 DEF PgOpening, Goto
  <2>3. QED
    BY <2>1, <2>2, NextParty DEF Databases
<1>3. CASE ssh_serve
  <2>1. pc = "banner" /\ stream.arm = "ssh" /\ leaves' = leaves
    BY <1>3 DEF ssh_serve, Party, PartyInv
  <2>2. \/ pc' = "splice" /\ open' = open /\ buf' = buf /\ stream' = stream /\ tls' = tls
        \/ pc' = "pump"
    BY <1>3 DEF ssh_serve, Serve, Goto
  <2>3. QED
    BY <2>1, <2>2, NextParty, ServedParty
<1>4. QED
  BY <1>1, <1>2, <1>3

\* The dials, and the replay of a splice.
LEMMA DialParty ==
  ASSUME Party, splice \/ SpliceReplay \/ Dial
  PROVE  Party'
<1>1. CASE Close
  BY <1>1, CloseParty
<1>2. CASE ~Close /\ splice
  <2>1. pc = "splice" /\ pc' = "copying" /\ open' = open /\ buf' = buf /\ stream' = stream /\ tls' = tls /\ leaves' = leaves
    BY <1>2 DEF splice, Dials, Goto
  <2>2. Stated' = Stated /\ Sni' = Sni
    BY <2>1 DEF Stated, Sni, Completed, Opened
  <2>3. PartyInv' /\ LeavesInv'
    BY <2>1, <2>2 DEF Party, PartyInv, LeavesInv, Mid, Readers
  <2>4. CopyInv'
    BY <2>1, <2>2 DEF Party, CopyInv
  <2>5. QED
    BY <2>3, <2>4 DEF Party
<1>3. CASE SpliceReplay
  <2>1. pc = "copying" /\ pc' = "copy" /\ stream' = stream /\ leaves' = leaves
    BY <1>3 DEF SpliceReplay, Copy, Goto
  <2>2. PartyInv' /\ LeavesInv' /\ CopyInv'
    BY <2>1 DEF Party, PartyInv, CopyInv, LeavesInv, Mid, Readers
  <2>3. QED
    BY <2>2 DEF Party
<1>4. CASE ~Close /\ Dial
  <2>1. /\ pc = "dial" /\ pc' = "legs" /\ open' = open /\ stream' = stream /\ tls' = tls /\ leaves' = leaves
        /\ stream.arm \in Databases => up' = stream.scope.up
    BY <1>4 DEF Dial, Dials, Goto, IsDatabase, FarEnd, Databases
  <2>2. Stated' = Stated /\ Terminated' = Terminated
    BY <2>1 DEF Stated, Terminated, IsTls
  <2>3. PartyInv' /\ LeavesInv'
    BY <2>1, <2>2 DEF Party, PartyInv, LeavesInv, Mid, Readers
  <2>4. CopyInv'
    BY <2>1 DEF CopyInv
  <2>5. QED
    BY <2>3, <2>4 DEF Party
<1>5. QED
  BY <1>1, <1>2, <1>3, <1>4

\* A leaf that demands a certificate is the one shown under a rule that demands it.
LEMMA GuestParty ==
  ASSUME Party, AcceptGuest
  PROVE  Party'
<1> DEFINE mtls == stream.scope.mtls
<1> DEFINE shown == leaf(tls.leaf, mtls)
<1> DEFINE key == LeafKey(tls.leaf, mtls)
<1>1. /\ pc = "legs" /\ stream.arm \in Databases /\ tls.leaf # NoName
      /\ open' = open /\ stream' = stream /\ up' = up
      /\ leaves' = [k \in DOMAIN leaves \cup {key} |-> IF k = key THEN shown ELSE leaves[k]]
      /\ tls' = [tls EXCEPT !.demand = shown.demand, !.expires = shown.expires]
      /\ pc' = IF shown.demand /\ open.cert # "ours" THEN "closed" ELSE "legs"
  BY DEF AcceptGuest, IsDatabase, Databases, Goto
<1>2. Stated /\ Terminated /\ LeavesInv /\ up = stream.scope.up
  BY <1>1 DEF Party, PartyInv, Mid, Readers
<1>3. mtls \in BOOLEAN
  BY <1>1, <1>2, RuleKinds DEF Stated, Databases
<1>4. mtls => shown.demand = TRUE
  <2>1. CASE key \in DOMAIN leaves
    <3>1. shown = leaves[key]
      BY <2>1 DEF leaf
    <3>2. mtls => Len(key) = 2
      BY DEF LeafKey
    <3>3. QED
      BY <1>2, <2>1, <3>1, <3>2 DEF LeavesInv
  <2>2. CASE key \notin DOMAIN leaves
    BY <1>3, <2>2 DEF leaf
  <2>3. QED
    BY <2>1, <2>2
<1>5. Len(key) = 2 => mtls
  BY <1>3 DEF LeafKey
<1>6. LeavesInv'
  <2> DEFINE D == DOMAIN leaves \cup {key}
  <2> HIDE DEF shown, key, mtls
  <2>1. DOMAIN leaves' = DOMAIN leaves \cup {key}
    BY <1>1
  <2>2. ASSUME NEW k \in DOMAIN leaves', Len(k) = 2 PROVE leaves'[k].demand = TRUE
    <3>1. leaves'[k] = IF k = key THEN shown ELSE leaves[k]
      BY <1>1, <2>1
    <3>2. CASE k = key
      BY <1>4, <1>5, <2>2, <3>1, <3>2
    <3>3. CASE k # key
      BY <1>2, <2>1, <2>2, <3>1, <3>3 DEF LeavesInv
    <3>4. QED
      BY <3>2, <3>3
  <2>3. QED
    BY <2>2 DEF LeavesInv
<1>7. CASE pc' = "closed"
  BY <1>6, <1>7, ClosedParty
<1>8. CASE pc' # "closed"
  <2>1. pc' = "legs" /\ (mtls => open.cert = "ours")
    BY <1>1, <1>4, <1>8
  <2>2. IsTls(tls') /\ tls'.leaf = tls.leaf /\ tls'.sni = tls.sni
    <3> DEFINE d == shown.demand
    <3> DEFINE e == shown.expires
    <3> HIDE DEF shown
    <3>1. tls' = [tls EXCEPT !.demand = d, !.expires = e]
      BY <1>1
    <3> HIDE DEF d, e
    <3>2. tls = [leaf |-> tls.leaf, sni |-> tls.sni, demand |-> tls.demand, expires |-> tls.expires]
      BY <1>2 DEF Terminated, IsTls
    <3>3. tls' = [leaf |-> tls.leaf, sni |-> tls.sni, demand |-> d, expires |-> e]
      BY <3>1, <3>2
    <3>4. QED
      BY <3>3 DEF IsTls
  <2>3. Stated' = Stated
    BY <1>1 DEF Stated
  <2>4. Terminated'
    BY <1>1, <1>2, <2>1, <2>2 DEF Terminated, Databases
  <2>5. PartyInv'
    BY <1>1, <1>2, <2>1, <2>3, <2>4 DEF PartyInv, Databases, Mid, Readers
  <2>6. CopyInv'
    BY <2>1 DEF CopyInv
  <2>7. QED
    BY <1>6, <2>5, <2>6 DEF Party
<1>9. QED
  BY <1>7, <1>8

\* Every step keeps whom a connection is for.
LEMMA PartyStep ==
  ASSUME BytesInv, Party, [Next]_vars
  PROVE  Party'
<1>1. ASSUME NEW o \in Opens, Accept(o) PROVE Party'
  BY <1>1, AcceptParty
<1>2. CASE Reads
  <2>1. /\ pc \in Early /\ pc' \in {pc, "closed"} /\ open' = open /\ stream' = stream /\ tls' = tls /\ leaves' = leaves
    BY <1>2 DEF Reads, ReadHead, ReadHello, ReadHttpHead, ReadBanner, ReadPgOpening, Take, Goto, Early
  <2>2. LeavesInv'
    BY <2>1 DEF Party, LeavesInv
  <2>3. QED
    BY <2>1, <2>2, StayParty, ClosedParty
<1>3. CASE Connect
  BY <1>3, ConnectParty
<1>4. CASE forward_arm
  BY <1>4, ForwardParty
<1>5. CASE HelloDone(HelloOver)
  BY <1>5, HelloParty
<1>6. CASE RefuseHead \/ RefuseHttpHead
  BY <1>6, CloseParty DEF RefuseHead, RefuseHttpHead
<1>7. CASE http_serve
  <2>1. Close \/ (pc' = "pump" /\ leaves' = leaves)
    BY <1>7 DEF http_serve, Serve, Goto
  <2>2. QED
    BY <2>1, CloseParty, ServedParty
<1>8. CASE tcp_serve \/ DatabaseRelay
  <2>1. pc' = "pump" /\ leaves' = leaves
    BY <1>8 DEF tcp_serve, DatabaseRelay, LegsKept, Serve, Goto
  <2>2. QED
    BY <2>1, ServedParty
<1>9. CASE MitmRelay \/ ConnectServer
  <2>1. pc' \in {"pump", "closed"} /\ leaves' = leaves
    BY <1>9 DEF MitmRelay, ConnectServer, LegsKept, Refused, Serve, Goto
  <2>2. LeavesInv'
    BY <2>1 DEF Party, LeavesInv
  <2>3. QED
    BY <2>1, <2>2, ServedParty, ClosedParty
<1>10. CASE PgOpening \/ ExpectServe \/ ssh_serve
  BY <1>10, ArmsParty
<1>11. CASE splice \/ SpliceReplay \/ Dial
  BY <1>11, DialParty
<1>12. CASE AcceptGuest
  BY <1>12, GuestParty
<1>13. CASE Flow
  <2>1. pc \in {"pump", "copy"} /\ pc' = pc /\ stream' = stream /\ leaves' = leaves
    BY <1>13 DEF Flow
  <2>2. PartyInv' /\ CopyInv' /\ LeavesInv'
    BY <2>1 DEF Party, PartyInv, CopyInv, LeavesInv, Mid, Readers
  <2>3. QED
    BY <2>2 DEF Party
<1>14. CASE Deadline \/ Hangup
  BY <1>14, CloseParty, HelloParty DEF Deadline, Hangup, Abandon
<1>15. CASE Ends
  <2>1. pc' = "idle" /\ tls' = NoTls /\ leaves' = leaves
    BY <1>15 DEF Ends
  <2>2. PartyInv' /\ CopyInv' /\ LeavesInv'
    BY <2>1 DEF Party, PartyInv, CopyInv, LeavesInv, Mid, Readers
  <2>3. QED
    BY <2>2 DEF Party
<1>16. CASE Tick
  BY <1>16, StayParty DEF Tick
<1>17. CASE UNCHANGED vars
  <2>1. /\ open' = open /\ pc' = pc /\ buf' = buf /\ stream' = stream /\ up' = up /\ tls' = tls /\ leaves' = leaves
    BY <1>17 DEF vars
  <2>2. Stated' = Stated /\ Terminated' = Terminated /\ Sni' = Sni
    BY <2>1 DEF Stated, Terminated, IsTls, Sni, Completed, Opened
  <2>3. PartyInv' /\ CopyInv' /\ LeavesInv'
    BY <2>1, <2>2 DEF Party, PartyInv, CopyInv, LeavesInv
  <2>4. QED
    BY <2>3 DEF Party
<1>18. QED
  BY <1>1, <1>2, <1>3, <1>4, <1>5, <1>6, <1>7, <1>8, <1>9, <1>10, <1>11, <1>12, <1>13, <1>14, <1>15, <1>16, <1>17
     DEF Next, Decides, Settling

-----------------------------------------------------------------------------
(* What is copied unseen, and whom the secrets are for.                    *)

\* A connection reaches the copy from a splice or a forwarded request, and the machines from a settled one.
LEMMA ReachesServed ==
  ASSUME [Next]_vars, pc' \in {"pump", "copy"}
  PROVE  \/ pc' = pc /\ open' = open /\ stream' = stream /\ up' = up /\ pair' = pair /\ tls' = tls
         \/ forward_arm /\ ~Close
         \/ pc' = "copy" /\ SpliceReplay
         \/ pc' = "pump" /\ (http_serve \/ ssh_serve \/ tcp_serve \/ MitmRelay \/ DatabaseRelay)
<1>1. CASE (\E o \in Opens : Accept(o)) \/ Reads
  BY <1>1 DEF Accept, Reads, ReadHead, ReadHello, ReadHttpHead, ReadBanner, ReadPgOpening, Goto
<1>2. CASE HelloDone(HelloOver) \/ HelloDone(TRUE)
  BY <1>2 DEF HelloDone, https_serve, guest_tls_opening, Close, Goto
<1>3. CASE RefuseHead \/ RefuseHttpHead \/ Close \/ Connect
  BY <1>3 DEF RefuseHead, RefuseHttpHead, Connect, Close, Goto
<1>4. CASE PgOpening \/ ExpectServe \/ AcceptGuest \/ ConnectServer
  BY <1>4 DEF PgOpening, ExpectServe, AcceptGuest, ConnectServer, Refused, Goto
<1>5. CASE splice \/ Dial
  BY <1>5 DEF splice, Dial, Dials, Close, Goto
<1>6. CASE Deadline \/ Hangup
  BY <1>2, <1>3, <1>6 DEF Deadline, Hangup, Abandon
<1>7. CASE Ends \/ Tick \/ Flow \/ UNCHANGED vars
  BY <1>7 DEF Ends, Tick, Flow, vars
<1>8. CASE SpliceReplay
  BY <1>8 DEF SpliceReplay, Copy, Goto
<1>9. CASE http_serve \/ ssh_serve \/ tcp_serve \/ MitmRelay \/ DatabaseRelay
  <2>1. pc' # "copy"
    BY <1>9 DEF http_serve, ssh_serve, tcp_serve, MitmRelay, DatabaseRelay, Serve, Refused, Close, Goto
  <2>2. QED
    BY <1>9, <2>1
<1>10. CASE forward_arm
  BY <1>3, <1>10
<1>11. QED
  BY <1>1, <1>2, <1>3, <1>4, <1>5, <1>6, <1>7, <1>8, <1>9, <1>10 DEF Next, Decides, Settling

\* A copy starts only where no rule could have been served.
LEMMA CopyStep ==
  ASSUME BytesInv, Party, CopiedUncovered, [Next]_vars
  PROVE  CopiedUncovered'
<1> SUFFICES ASSUME pc' = "copy", NEW i \in DOMAIN Grants
             PROVE  IF open'.via = "explicit" THEN ~Names(Grants[i], Claimed(stream'.arm), stream'.dial, stream'.port)
                    ELSE stream'.arm = "tls" /\ pair'.host # NoName => ~Names(Grants[i], {"https"}, pair'.host, stream'.port)
  BY DEF CopiedUncovered
<1>1. CASE pc' = pc /\ open' = open /\ stream' = stream /\ up' = up /\ pair' = pair /\ tls' = tls
  BY <1>1 DEF CopiedUncovered
<1>2. CASE forward_arm /\ ~Close
  <2> DEFINE to == parse_authority(buf[First(buf, "http")].target, 80)
  <2>1. /\ pc = "head" /\ open' = open /\ to # Nowhere
        /\ stream' = [host |-> to.name, raw |-> to.name, dial |-> to.name, port |-> to.port, arm |-> "forward", scope |-> NoGrant]
        /\ ScopeOf("http", to.name, to.port) = NoScope
    BY <1>2 DEF forward_arm, Serve, Goto
  <2>2. to.name # NoName
    BY <2>1 DEF parse_authority
  <2> HIDE DEF to
  <2>3. open'.via = "explicit" /\ stream'.arm = "forward" /\ stream'.dial = to.name /\ stream'.port = to.port
    BY <2>1 DEF BytesInv
  <2>4. Claimed(stream'.arm) = {"http"}
    BY <2>3 DEF Claimed
  <2>5. ~Names(Grants[i], {"http"}, to.name, to.port)
    BY <2>1, <2>2, NoScopeNoName
  <2>6. QED
    BY <2>3, <2>4, <2>5
<1>3. CASE SpliceReplay
  <2>1. pc = "copying" /\ open' = open /\ stream' = stream /\ pair' = [NoPair EXCEPT !.host = Sni]
    BY <1>3 DEF SpliceReplay, Copy
  <2>2. /\ Stated /\ stream.arm \in {"splice", "tls", "ssh"}
        /\ stream.arm = "tls" => open.via # "explicit" /\ (Sni # NoName => ScopeOf("https", Sni, stream.port) = NoScope)
    BY <2>1 DEF Party, PartyInv, CopyInv, Mid, Readers
  <2>3. CASE open.via = "explicit"
    <3>1. stream.dial = open.name /\ open.name # NoName /\ stream.arm = expect(open.name, stream.port) /\ stream.arm \in {"splice", "ssh"}
      BY <2>2, <2>3 DEF Stated
    <3>2. /\ stream.arm = "splice" => Claimed(stream.arm) = AllSchemes
          /\ stream.arm = "ssh" => Claimed(stream.arm) = {"postgres", "redis"}
      BY DEF Claimed
    <3>3. /\ stream.arm = "splice" => ~Names(Grants[i], AllSchemes, open.name, stream.port)
          /\ stream.arm = "ssh" => ~Names(Grants[i], {"postgres", "redis"}, open.name, stream.port)
      BY <3>1, SpliceNoName
    <3>4. QED
      BY <2>1, <2>3, <3>1, <3>2, <3>3
  <2>4. CASE open.via # "explicit"
    <3>1. pair'.host = Sni
      BY <2>1 DEF NoPair
    <3>2. ASSUME stream.arm = "tls", Sni # NoName PROVE ~Names(Grants[i], {"https"}, Sni, stream.port)
      BY <2>2, <3>2, NoScopeNoName
    <3>3. QED
      BY <2>1, <2>4, <3>1, <3>2
  <2>5. QED
    BY <2>3, <2>4
<1>4. QED
  BY <1>1, <1>2, <1>3, ReachesServed

(* Two database rules of one kind and one guest-side endpoint state the    *)
(* same server.  grants::resolve does not refuse a configuration that      *)
(* breaks it: the first rule is dialled and any of them swaps.             *)
DistinctServers ==
  \A i, j \in DOMAIN Grants :
    Grants[i].kind \in Databases /\ Grants[j].kind = Grants[i].kind /\ Grants[j].down = Grants[i].down
      => Grants[j].up = Grants[i].up

\* A leg with no leaf and no database behind it promises no name.
LEMMA UnnamedRight ==
  ASSUME tls'.leaf = NoName, stream'.arm \notin Databases
  PROVE  RightParty'
  BY DEF RightParty, NamedAlike, MtlsAdmits, OwnServer, Databases

\* The relay of a terminated HTTPS guest.
LEMMA MitmRight ==
  ASSUME Party, MitmRelay, pc' = "pump"
  PROVE  RightParty'
<1>1. /\ pc = "legs" /\ stream.arm = "tls" /\ open' = open /\ stream' = stream /\ tls' = tls
      /\ pair' = [scheme |-> "https", host |-> tls.leaf, port |-> stream.port]
      /\ ~(tls.demand /\ open.cert # "ours")
  BY DEF MitmRelay, LegsKept, Serve, Refused, Goto
<1>2. Terminated
  BY <1>1 DEF Party, PartyInv
<1>3. NamedAlike'
  BY <1>1, <1>2 DEF NamedAlike, Terminated
<1>4. MtlsAdmits'
  BY <1>1, <1>2 DEF MtlsAdmits, Terminated
<1>5. OwnServer'
  BY <1>1 DEF OwnServer
<1>6. QED
  BY <1>3, <1>4, <1>5 DEF RightParty

\* The relay of a database's guest.
LEMMA DatabaseRight ==
  ASSUME DistinctServers, Party, DatabaseRelay
  PROVE  RightParty'
<1> DEFINE shown == IF stream.host # NoName THEN stream.host ELSE stream.raw
<1>1. /\ pc = "legs" /\ stream.arm \in Databases /\ open' = open /\ stream' = stream /\ tls' = tls /\ up' = up
      /\ pair' = [scheme |-> stream.arm, host |-> shown, port |-> stream.port]
      /\ tls.leaf = NoName \/ tls.expires # 0
  BY DEF DatabaseRelay, LegsKept, Serve, IsDatabase, Databases
<1>2. Terminated /\ Stated /\ up = stream.scope.up
  BY <1>1 DEF Party, PartyInv, Mid, Readers
<1>3. tls.leaf # NoName => shown = tls.leaf
  BY <1>1, <1>2 DEF Terminated
<1>4. NamedAlike'
  BY <1>1, <1>2, <1>3 DEF NamedAlike, Terminated
<1>5. MtlsAdmits'
  BY <1>1, <1>2 DEF MtlsAdmits, Terminated
<1>6. OwnServer'
  <2>1. SUFFICES ASSUME open.via = "explicit"
                 PROVE  LET live == {i \in DOMAIN Grants : Names(Grants[i], {stream.arm}, shown, stream.port)}
                        IN  live # {} /\ \A i \in live : Grants[i].up = up
    BY <1>1 DEF OwnServer
  <2>2. shown = open.name
    BY <1>2, <2>1 DEF Stated
  <2>3. PICK i \in DOMAIN Grants : /\ stream.scope = Grants[i] /\ Grants[i].kind = stream.arm
                                   /\ Grants[i].down = [name |-> shown, port |-> stream.port]
    BY <1>1, <1>2, <2>1, <2>2 DEF Stated
  <2>4. Names(Grants[i], {stream.arm}, shown, stream.port)
    BY <1>1, <2>3 DEF Names, Databases
  <2>5. ASSUME NEW j \in DOMAIN Grants, Names(Grants[j], {stream.arm}, shown, stream.port)
        PROVE  Grants[j].up = up
    <3>1. Grants[j].kind \notin {"token", "ssh"}
      <4>1. ASSUME Grants[j].kind \in {"token", "ssh"} PROVE FALSE
        <5>1. PICK n \in DOMAIN Grants[j].allow : Grants[j].allow[n].scheme = stream.arm
          BY <2>5, <4>1 DEF Names
        <5>2. Grants[j].allow[n].scheme \in {"ssh", "https", "http", "tcp"}
          BY <4>1, <5>1, RuleKinds
        <5>3. QED
          BY <1>1, <5>1, <5>2 DEF Databases
      <4>2. QED
        BY <4>1
    <3>2. Grants[j].kind = stream.arm /\ Grants[j].down = [name |-> shown, port |-> stream.port]
      BY <2>5, <3>1 DEF Names
    <3>3. Grants[j].up = Grants[i].up
      BY <1>1, <2>3, <3>2 DEF DistinctServers
    <3>4. QED
      BY <1>2, <2>3, <3>3
  <2>6. QED
    BY <2>4, <2>5
<1>7. QED
  BY <1>4, <1>5, <1>6 DEF RightParty

\* Machines are built only for the right party.
LEMMA RightStep ==
  ASSUME DistinctServers, BytesInv, Party, RightParty, [Next]_vars
  PROVE  RightParty'
<1>1. CASE pc' # "pump"
  BY <1>1 DEF RightParty, NamedAlike, MtlsAdmits, OwnServer
<1>2. CASE pc' = pc /\ open' = open /\ stream' = stream /\ up' = up /\ pair' = pair /\ tls' = tls
  BY <1>2 DEF RightParty, NamedAlike, MtlsAdmits, OwnServer
<1>3. CASE forward_arm /\ ~Close
  <2>1. pc = "head" /\ tls' = tls /\ stream'.arm = "forward"
    BY <1>3 DEF forward_arm
  <2>2. tls'.leaf = NoName
    BY <2>1 DEF Party, PartyInv, NoTls
  <2>3. QED
    BY <2>1, <2>2, UnnamedRight DEF Databases
<1>4. CASE pc' = "pump" /\ (http_serve \/ ssh_serve)
  <2>1. pc \in {"http", "banner"} /\ tls' = tls /\ stream' = stream
    BY <1>4 DEF http_serve, ssh_serve, Close
  <2>2. tls'.leaf = NoName /\ stream.arm \in {"plain", "ssh"}
    BY <2>1 DEF Party, PartyInv, NoTls, Readers
  <2>3. QED
    BY <2>1, <2>2, UnnamedRight DEF Databases
<1>5. CASE tcp_serve
  <2>1. pc = "legs" /\ tls' = tls /\ stream' = stream /\ stream.arm = "raw"
    BY <1>5 DEF tcp_serve, LegsKept
  <2>2. tls'.leaf = NoName
    BY <2>1 DEF Party, PartyInv, Terminated
  <2>3. QED
    BY <2>1, <2>2, UnnamedRight DEF Databases
<1>6. CASE pc' = "pump" /\ MitmRelay
  BY <1>6, MitmRight
<1>7. CASE DatabaseRelay
  BY <1>7, DatabaseRight
<1>8. QED
  BY <1>1, <1>2, <1>3, <1>4, <1>5, <1>6, <1>7, ReachesServed

\* Nobody is served in the initial state.
LEMMA PartyInit ==
  ASSUME Init
  PROVE  Party /\ CopiedUncovered /\ RightParty
<1>1. pc = "idle" /\ tls = NoTls /\ leaves = <<>>
  BY DEF Init, Idle
<1>2. LeavesInv
  BY <1>1 DEF LeavesInv
<1>3. PartyInv /\ CopyInv
  BY <1>1 DEF PartyInv, CopyInv, Mid, Readers
<1>4. CopiedUncovered /\ RightParty
  BY <1>1 DEF CopiedUncovered, RightParty, NamedAlike, MtlsAdmits, OwnServer
<1>5. QED
  BY <1>2, <1>3, <1>4 DEF Party

(* Theorem: for any rules and any guests, bytes are copied unseen only     *)
(* where no rule could have been served (expect, HttpsTransport::serve,    *)
(* SshTransport::serve).                                                   *)
THEOREM CopiesUncovered == Spec => []CopiedUncovered
<1>1. Init => BytesInv /\ Party /\ CopiedUncovered
  BY BytesInit, PartyInit
<1>2. BytesInv /\ Party /\ CopiedUncovered /\ [Next]_vars => (BytesInv /\ Party /\ CopiedUncovered)'
  BY BytesStep, PartyStep, CopyStep
<1>3. QED
  BY <1>1, <1>2, PTL DEF Spec

(* Theorem: where no two database rules of one kind state one guest-side   *)
(* endpoint and two servers, whoever is served with a secret is the guest  *)
(* the scope admits, under the name it was promised, and the server        *)
(* dialled is the secret's own: for any rules, any guests and any leaves   *)
(* cached by connections before (guest_tls_opening, client_auth_policy,    *)
(* leaf, leaf_mtls, expect).                                               *)
THEOREM PartiesRight ==
  ASSUME DistinctServers
  PROVE  Spec => []RightParty
<1>1. Init => BytesInv /\ Party /\ RightParty
  BY BytesInit, PartyInit
<1>2. BytesInv /\ Party /\ RightParty /\ [Next]_vars => (BytesInv /\ Party /\ RightParty)'
  BY DistinctServers, BytesStep, PartyStep, RightStep
<1>3. QED
  BY <1>1, <1>2, PTL DEF Spec
=============================================================================
