--------------------------- MODULE CaptureProofs ---------------------------
(***************************************************************************)
(* Proofs about Capture, for any number of starts, failed requests and     *)
(* kills, and any connections, sockets, ports and bypass lists.            *)
(***************************************************************************)
EXTENDS Capture, FiniteSetTheorems, TLAPS

Names == {"dev", "route_tun", "bypass", "all", "routes_guard", "listener", "marked", "route_local", "heal",
          "nft", "nft_guard", "config", "bpf", "pref200", "flush", "pref100", "del_nft", "close_listener",
          "close_dev", "detach"}

ProcType == [at : {"down", "installing", "up", "undoing"}, backend : Backends, todo : Seq(Names),
             guards : SUBSET Guards, ok : BOOLEAN]
KernelType == [rules : SUBSET {"bypass", "all", "marked"}, default : {"none", "tun", "local"},
               nft : BOOLEAN, dev : BOOLEAN, listener : BOOLEAN, bpf : BOOLEAN]

RulesTypeOK == proc \in ProcType /\ kernel \in KernelType /\ starts \in Nat /\ faults \in Nat

(* Where a start is in its requests, and what the kernel then holds.       *)
TunStarts ==
  /\ proc.guards = {}
  /\ \/ proc.todo = <<"dev", "route_tun", "bypass", "all", "routes_guard">>
     \/ proc.todo = <<"route_tun", "bypass", "all", "routes_guard">>
     \/ proc.todo = <<"bypass", "all", "routes_guard">> /\ kernel.default = "tun"
     \/ proc.todo = <<"all", "routes_guard">> /\ kernel.default = "tun" /\ "bypass" \in kernel.rules
     \/ /\ proc.todo = <<"routes_guard">>
        /\ kernel.default = "tun" /\ {"bypass", "all"} \subseteq kernel.rules

TproxyStarts ==
  \/ /\ proc.guards = {}
     /\ \/ proc.todo = <<"listener", "marked", "route_local", "routes_guard", "heal", "nft", "nft_guard">>
        \/ /\ kernel.listener
           /\ proc.todo = <<"marked", "route_local", "routes_guard", "heal", "nft", "nft_guard">>
        \/ /\ kernel.listener /\ "marked" \in kernel.rules
           /\ proc.todo = <<"route_local", "routes_guard", "heal", "nft", "nft_guard">>
        \/ /\ kernel.listener /\ "marked" \in kernel.rules /\ kernel.default = "local"
           /\ proc.todo = <<"routes_guard", "heal", "nft", "nft_guard">>
  \/ /\ proc.guards = {"routes_guard"}
     /\ kernel.listener /\ "marked" \in kernel.rules /\ kernel.default = "local"
     /\ \/ proc.todo = <<"heal", "nft", "nft_guard">>
        \/ proc.todo = <<"nft", "nft_guard">>
        \/ proc.todo = <<"nft_guard">> /\ kernel.nft

EbpfStarts ==
  /\ proc.guards = {}
  /\ \/ proc.todo = <<"config", "bpf", "listener">>
     \/ proc.todo = <<"bpf", "listener">>
     \/ proc.todo = <<"listener">> /\ kernel.bpf

TunUp ==
  proc.guards = {"routes_guard"} /\ kernel.default = "tun" /\ {"bypass", "all"} \subseteq kernel.rules
TproxyUp ==
  /\ proc.guards = {"routes_guard", "nft_guard"}
  /\ kernel.listener /\ "marked" \in kernel.rules /\ kernel.default = "local" /\ kernel.nft
EbpfUp == kernel.bpf /\ kernel.listener

(* Where an end is in its undos; ok is a clean end after a full start.     *)
No200 == "all" \notin kernel.rules /\ "marked" \notin kernel.rules
TunEnding ==
  \/ proc.guards = {} /\ ~proc.ok /\ proc.todo = <<"close_dev">>
  \/ proc.guards # {} /\ proc.todo = <<"close_dev", "pref200", "flush", "pref100">>
  \/ ~kernel.dev /\ proc.todo = <<"pref200", "flush", "pref100">>
  \/ /\ ~kernel.dev /\ (faults = 0 \/ proc.ok => No200)
     /\ proc.todo = <<"flush", "pref100">>
  \/ /\ ~kernel.dev /\ (faults = 0 \/ proc.ok => No200) /\ (proc.ok => kernel.default = "none")
     /\ proc.todo = <<"pref100">>
TproxyEnding ==
  /\ proc.guards # {} => kernel.listener
  /\ proc.ok => proc.guards = {"routes_guard", "nft_guard"}
  /\ \/ proc.todo = <<"del_nft", "pref200", "flush", "close_listener">>
     \/ (proc.ok => ~kernel.nft) /\ proc.todo = <<"pref200", "flush", "close_listener">>
     \/ (proc.ok => ~kernel.nft /\ No200) /\ proc.todo = <<"flush", "close_listener">>
     \/ (proc.ok => ~kernel.nft /\ No200 /\ kernel.default = "none") /\ proc.todo = <<"close_listener">>
EbpfEnding ==
  \/ proc.todo = <<"close_listener", "detach">>
  \/ ~kernel.listener /\ proc.todo = <<"detach">>

Position ==
  /\ proc.at = "installing" => \/ proc.backend = "tun" /\ TunStarts
                               \/ proc.backend = "tproxy" /\ TproxyStarts
                               \/ proc.backend = "ebpf" /\ EbpfStarts
  /\ proc.at = "up" => \/ proc.backend = "tun" /\ TunUp
                       \/ proc.backend = "tproxy" /\ TproxyUp
                       \/ proc.backend = "ebpf" /\ EbpfUp
  /\ proc.at = "undoing" => \/ proc.backend = "tun" /\ TunEnding
                            \/ proc.backend = "tproxy" /\ TproxyEnding
                            \/ proc.backend = "ebpf" /\ EbpfEnding

(* What a process owns goes with it.                                       *)
Owned ==
  /\ kernel.dev => proc.at # "down" /\ proc.backend = "tun"
  /\ kernel.bpf => proc.at # "down" /\ proc.backend = "ebpf"
  /\ kernel.listener => proc.at # "down" /\ proc.backend # "tun"

(* No capture rule stands without the one that lets hodor's own dials out. *)
BypassFirst == faults = 0 => ("all" \in kernel.rules => "bypass" \in kernel.rules)

(* Only a run before the first can have left the table in nft without a    *)
(* listener.                                                               *)
FirstRun ==
  /\ starts = 0 => kernel = Clean /\ proc.at = "down"
  /\ starts = 1 /\ proc.backend # "tproxy" => ~kernel.nft
  /\ starts = 1 /\ proc.at # "down" /\ ~kernel.listener => ~kernel.nft

(* A clean end has left nothing of its backend's.                          *)
CleanEnd ==
  proc.at = "down" /\ proc.ok =>
     /\ proc.backend = "tun" => kernel.rules = {} /\ kernel.default = "none"
     /\ proc.backend = "tproxy" => ~kernel.nft /\ "marked" \notin kernel.rules /\ kernel.default = "none"

RulesInv == RulesTypeOK /\ Position /\ Owned /\ BypassFirst /\ FirstRun /\ CleanEnd

-----------------------------------------------------------------------------
(* One request, or one undo.                                               *)

\* A start that goes on: the guard is built, and the last request is the end.
LEMMA AdvanceOn ==
  ASSUME NEW p \in ProcType, p.todo # <<>>
  PROVE  /\ Advance(p) \in ProcType /\ Advance(p).backend = p.backend /\ Advance(p).ok = p.ok
         /\ Advance(p).todo = Tail(p.todo)
         /\ Tail(p.todo) = <<>> => Advance(p).at = "up"
         /\ Tail(p.todo) # <<>> => Advance(p).at = p.at
         /\ Head(p.todo) \in Guards => Advance(p).guards = p.guards \cup {Head(p.todo)}
         /\ Head(p.todo) \notin Guards => Advance(p).guards = p.guards
<1> DEFINE g == IF Head(p.todo) \in Guards THEN p.guards \cup {Head(p.todo)} ELSE p.guards
<1> DEFINE q == [p EXCEPT !.todo = Tail(@), !.guards = g]
<1>1. Tail(p.todo) \in Seq(Names) /\ g \in SUBSET Guards
  BY DEF ProcType
<1>2. /\ q \in ProcType /\ q.at = p.at /\ q.backend = p.backend /\ q.ok = p.ok
      /\ q.todo = Tail(p.todo) /\ q.guards = g
  BY <1>1 DEF ProcType
<1>3. Advance(p) = IF q.todo = <<>> THEN [q EXCEPT !.at = "up"] ELSE q
  BY DEF Advance
<1> HIDE DEF q
<1>4. QED
  BY <1>2, <1>3 DEF ProcType

\* An undo that is done, or has failed: the next, or the end.
LEMMA UndoneOn ==
  ASSUME NEW p \in ProcType, p.todo # <<>>
  PROVE  /\ Undone(p) \in ProcType /\ Undone(p).backend = p.backend /\ Undone(p).ok = p.ok
         /\ Tail(p.todo) = <<>> => Undone(p).at = "down"
         /\ Tail(p.todo) # <<>> => /\ Undone(p).at = p.at /\ Undone(p).todo = Tail(p.todo)
                                   /\ Undone(p).guards = p.guards
<1> DEFINE q == [p EXCEPT !.todo = Tail(@)]
<1>1. Tail(p.todo) \in Seq(Names)
  BY DEF ProcType
<1>2. /\ q \in ProcType /\ q.at = p.at /\ q.backend = p.backend /\ q.ok = p.ok
      /\ q.todo = Tail(p.todo) /\ q.guards = p.guards
  BY <1>1 DEF ProcType
<1>3. Undone(p) = IF q.todo = <<>> THEN Down(p.backend, p.ok) ELSE q
  BY DEF Undone
<1>4. p.backend \in Backends /\ p.ok \in BOOLEAN
  BY DEF ProcType
<1>5. /\ Down(p.backend, p.ok) \in ProcType /\ Down(p.backend, p.ok).backend = p.backend
      /\ Down(p.backend, p.ok).ok = p.ok /\ Down(p.backend, p.ok).at = "down"
  BY <1>4 DEF Down, ProcType
<1> HIDE DEF q
<1>6. QED
  BY <1>2, <1>3, <1>5

\* What each request does to the kernel.
LEMMA Requests ==
  ASSUME NEW k \in KernelType
  PROVE  /\ \A s \in {"bypass", "all", "marked"} : /\ Request(k, s) = [k EXCEPT !.rules = @ \cup {s}]
                                                   /\ Request(k, s) \in KernelType
         /\ Request(k, "route_tun") = [k EXCEPT !.default = "tun"] /\ Request(k, "route_tun") \in KernelType
         /\ Request(k, "route_local") = [k EXCEPT !.default = "local"] /\ Request(k, "route_local") \in KernelType
         /\ Request(k, "dev") = [k EXCEPT !.dev = TRUE] /\ Request(k, "dev") \in KernelType
         /\ Request(k, "listener") = [k EXCEPT !.listener = TRUE] /\ Request(k, "listener") \in KernelType
         /\ Request(k, "nft") = [k EXCEPT !.nft = TRUE] /\ Request(k, "nft") \in KernelType
         /\ Request(k, "heal") = [k EXCEPT !.nft = FALSE] /\ Request(k, "heal") \in KernelType
         /\ Request(k, "bpf") = [k EXCEPT !.bpf = TRUE] /\ Request(k, "bpf") \in KernelType
         /\ \A s \in {"config", "routes_guard", "nft_guard"} : Request(k, s) = k
<1>1. \A s \in {"bypass", "all", "marked"} : /\ Request(k, s) = [k EXCEPT !.rules = @ \cup {s}]
                                             /\ Request(k, s) \in KernelType
  BY DEF Request, KernelType
<1>2. /\ Request(k, "route_tun") = [k EXCEPT !.default = "tun"] /\ Request(k, "route_tun") \in KernelType
      /\ Request(k, "route_local") = [k EXCEPT !.default = "local"] /\ Request(k, "route_local") \in KernelType
  BY DEF Request, KernelType
<1>3. /\ Request(k, "dev") = [k EXCEPT !.dev = TRUE] /\ Request(k, "dev") \in KernelType
      /\ Request(k, "listener") = [k EXCEPT !.listener = TRUE] /\ Request(k, "listener") \in KernelType
  BY DEF Request, KernelType
<1>4. /\ Request(k, "nft") = [k EXCEPT !.nft = TRUE] /\ Request(k, "nft") \in KernelType
      /\ Request(k, "heal") = [k EXCEPT !.nft = FALSE] /\ Request(k, "heal") \in KernelType
  BY DEF Request, KernelType
<1>5. Request(k, "bpf") = [k EXCEPT !.bpf = TRUE] /\ Request(k, "bpf") \in KernelType
  BY DEF Request, KernelType
<1>6. \A s \in {"config", "routes_guard", "nft_guard"} : Request(k, s) = k
  BY DEF Request
<1>7. QED
  BY <1>1, <1>2, <1>3, <1>4, <1>5, <1>6

\* The TUN start, request by request.
LEMMA InstallTun ==
  ASSUME RulesInv, Install, proc.backend = "tun"
  PROVE  RulesInv'
<1>0. /\ proc \in ProcType /\ kernel \in KernelType /\ proc.at = "installing" /\ TunStarts
      /\ kernel' = Request(kernel, Head(proc.todo)) /\ proc' = Advance(proc) /\ UNCHANGED <<starts, faults>>
  BY DEF RulesInv, RulesTypeOK, Position, Install
<1>1. CASE proc.todo = <<"dev", "route_tun", "bypass", "all", "routes_guard">>
  <2>1. proc.todo # <<>> /\ Head(proc.todo) = "dev" /\ Tail(proc.todo) = <<"route_tun", "bypass", "all", "routes_guard">> /\ Tail(proc.todo) # <<>>
    BY <1>1
  <2>2. /\ proc' \in ProcType /\ proc'.backend = "tun" /\ proc'.ok = proc.ok
        /\ proc'.todo = <<"route_tun", "bypass", "all", "routes_guard">> /\ proc'.at = "installing" /\ proc'.guards = {}
    <3>1. proc.guards = {}
      BY <1>0, <1>1 DEF TunStarts
    <3>2. QED
      BY <1>0, <2>1, <3>1, AdvanceOn DEF Guards
  <2>3. kernel' \in KernelType /\ kernel' = [kernel EXCEPT !.dev = TRUE]
    BY <1>0, <2>1, Requests
  <2>4. QED
    BY <1>0, <1>1, <2>2, <2>3 DEF RulesInv, RulesTypeOK, ProcType, KernelType, Position, Owned, BypassFirst, FirstRun, CleanEnd, TunStarts, TunUp
<1>2. CASE proc.todo = <<"route_tun", "bypass", "all", "routes_guard">>
  <2>1. proc.todo # <<>> /\ Head(proc.todo) = "route_tun" /\ Tail(proc.todo) = <<"bypass", "all", "routes_guard">> /\ Tail(proc.todo) # <<>>
    BY <1>2
  <2>2. /\ proc' \in ProcType /\ proc'.backend = "tun" /\ proc'.ok = proc.ok
        /\ proc'.todo = <<"bypass", "all", "routes_guard">> /\ proc'.at = "installing" /\ proc'.guards = {}
    <3>1. proc.guards = {}
      BY <1>0, <1>2 DEF TunStarts
    <3>2. QED
      BY <1>0, <2>1, <3>1, AdvanceOn DEF Guards
  <2>3. kernel' \in KernelType /\ kernel' = [kernel EXCEPT !.default = "tun"]
    BY <1>0, <2>1, Requests
  <2>4. QED
    BY <1>0, <1>2, <2>2, <2>3 DEF RulesInv, RulesTypeOK, ProcType, KernelType, Position, Owned, BypassFirst, FirstRun, CleanEnd, TunStarts, TunUp
<1>3. CASE proc.todo = <<"bypass", "all", "routes_guard">>
  <2>1. proc.todo # <<>> /\ Head(proc.todo) = "bypass" /\ Tail(proc.todo) = <<"all", "routes_guard">> /\ Tail(proc.todo) # <<>>
    BY <1>3
  <2>2. /\ proc' \in ProcType /\ proc'.backend = "tun" /\ proc'.ok = proc.ok
        /\ proc'.todo = <<"all", "routes_guard">> /\ proc'.at = "installing" /\ proc'.guards = {}
    <3>1. proc.guards = {}
      BY <1>0, <1>3 DEF TunStarts
    <3>2. QED
      BY <1>0, <2>1, <3>1, AdvanceOn DEF Guards
  <2>3. kernel' \in KernelType /\ kernel' = [kernel EXCEPT !.rules = @ \cup {"bypass"}]
    BY <1>0, <2>1, Requests
  <2>4. QED
    BY <1>0, <1>3, <2>2, <2>3 DEF RulesInv, RulesTypeOK, ProcType, KernelType, Position, Owned, BypassFirst, FirstRun, CleanEnd, TunStarts, TunUp
<1>4. CASE proc.todo = <<"all", "routes_guard">>
  <2>1. proc.todo # <<>> /\ Head(proc.todo) = "all" /\ Tail(proc.todo) = <<"routes_guard">> /\ Tail(proc.todo) # <<>>
    BY <1>4
  <2>2. /\ proc' \in ProcType /\ proc'.backend = "tun" /\ proc'.ok = proc.ok
        /\ proc'.todo = <<"routes_guard">> /\ proc'.at = "installing" /\ proc'.guards = {}
    <3>1. proc.guards = {}
      BY <1>0, <1>4 DEF TunStarts
    <3>2. QED
      BY <1>0, <2>1, <3>1, AdvanceOn DEF Guards
  <2>3. kernel' \in KernelType /\ kernel' = [kernel EXCEPT !.rules = @ \cup {"all"}]
    BY <1>0, <2>1, Requests
  <2>4. QED
    BY <1>0, <1>4, <2>2, <2>3 DEF RulesInv, RulesTypeOK, ProcType, KernelType, Position, Owned, BypassFirst, FirstRun, CleanEnd, TunStarts, TunUp
<1>5. CASE proc.todo = <<"routes_guard">>
  <2>1. proc.todo # <<>> /\ Head(proc.todo) = "routes_guard" /\ Tail(proc.todo) = <<>>
    BY <1>5
  <2>2. /\ proc' \in ProcType /\ proc'.backend = "tun" /\ proc'.ok = proc.ok
        /\ proc'.todo = <<>> /\ proc'.at = "up" /\ proc'.guards = {"routes_guard"}
    <3>1. proc.guards = {}
      BY <1>0, <1>5 DEF TunStarts
    <3>2. QED
      BY <1>0, <2>1, <3>1, AdvanceOn DEF Guards
  <2>3. kernel' \in KernelType /\ kernel' = kernel
    BY <1>0, <2>1, Requests
  <2>4. QED
    BY <1>0, <1>5, <2>2, <2>3 DEF RulesInv, RulesTypeOK, ProcType, KernelType, Position, Owned, BypassFirst, FirstRun, CleanEnd, TunStarts, TunUp
<1>6. QED
  BY <1>0, <1>1, <1>2, <1>3, <1>4, <1>5 DEF TunStarts

\* The tproxy start, request by request.
LEMMA InstallTproxy ==
  ASSUME RulesInv, Install, proc.backend = "tproxy"
  PROVE  RulesInv'
<1>0. /\ proc \in ProcType /\ kernel \in KernelType /\ proc.at = "installing" /\ TproxyStarts
      /\ kernel' = Request(kernel, Head(proc.todo)) /\ proc' = Advance(proc) /\ UNCHANGED <<starts, faults>>
  BY DEF RulesInv, RulesTypeOK, Position, Install
<1>1. CASE proc.todo = <<"listener", "marked", "route_local", "routes_guard", "heal", "nft", "nft_guard">>
  <2>1. proc.todo # <<>> /\ Head(proc.todo) = "listener" /\ Tail(proc.todo) = <<"marked", "route_local", "routes_guard", "heal", "nft", "nft_guard">> /\ Tail(proc.todo) # <<>>
    BY <1>1
  <2>2. /\ proc' \in ProcType /\ proc'.backend = "tproxy" /\ proc'.ok = proc.ok
        /\ proc'.todo = <<"marked", "route_local", "routes_guard", "heal", "nft", "nft_guard">> /\ proc'.at = "installing" /\ proc'.guards = {}
    <3>1. proc.guards = {}
      BY <1>0, <1>1 DEF TproxyStarts
    <3>2. QED
      BY <1>0, <2>1, <3>1, AdvanceOn DEF Guards
  <2>3. kernel' \in KernelType /\ kernel' = [kernel EXCEPT !.listener = TRUE]
    BY <1>0, <2>1, Requests
  <2>4. QED
    BY <1>0, <1>1, <2>2, <2>3 DEF RulesInv, RulesTypeOK, ProcType, KernelType, Position, Owned, BypassFirst, FirstRun, CleanEnd, TproxyStarts, TproxyUp
<1>2. CASE proc.todo = <<"marked", "route_local", "routes_guard", "heal", "nft", "nft_guard">>
  <2>1. proc.todo # <<>> /\ Head(proc.todo) = "marked" /\ Tail(proc.todo) = <<"route_local", "routes_guard", "heal", "nft", "nft_guard">> /\ Tail(proc.todo) # <<>>
    BY <1>2
  <2>2. /\ proc' \in ProcType /\ proc'.backend = "tproxy" /\ proc'.ok = proc.ok
        /\ proc'.todo = <<"route_local", "routes_guard", "heal", "nft", "nft_guard">> /\ proc'.at = "installing" /\ proc'.guards = {}
    <3>1. proc.guards = {}
      BY <1>0, <1>2 DEF TproxyStarts
    <3>2. QED
      BY <1>0, <2>1, <3>1, AdvanceOn DEF Guards
  <2>3. kernel' \in KernelType /\ kernel' = [kernel EXCEPT !.rules = @ \cup {"marked"}]
    BY <1>0, <2>1, Requests
  <2>4. QED
    BY <1>0, <1>2, <2>2, <2>3 DEF RulesInv, RulesTypeOK, ProcType, KernelType, Position, Owned, BypassFirst, FirstRun, CleanEnd, TproxyStarts, TproxyUp
<1>3. CASE proc.todo = <<"route_local", "routes_guard", "heal", "nft", "nft_guard">>
  <2>1. proc.todo # <<>> /\ Head(proc.todo) = "route_local" /\ Tail(proc.todo) = <<"routes_guard", "heal", "nft", "nft_guard">> /\ Tail(proc.todo) # <<>>
    BY <1>3
  <2>2. /\ proc' \in ProcType /\ proc'.backend = "tproxy" /\ proc'.ok = proc.ok
        /\ proc'.todo = <<"routes_guard", "heal", "nft", "nft_guard">> /\ proc'.at = "installing" /\ proc'.guards = {}
    <3>1. proc.guards = {}
      BY <1>0, <1>3 DEF TproxyStarts
    <3>2. QED
      BY <1>0, <2>1, <3>1, AdvanceOn DEF Guards
  <2>3. kernel' \in KernelType /\ kernel' = [kernel EXCEPT !.default = "local"]
    BY <1>0, <2>1, Requests
  <2>4. QED
    BY <1>0, <1>3, <2>2, <2>3 DEF RulesInv, RulesTypeOK, ProcType, KernelType, Position, Owned, BypassFirst, FirstRun, CleanEnd, TproxyStarts, TproxyUp
<1>4. CASE proc.todo = <<"routes_guard", "heal", "nft", "nft_guard">>
  <2>1. proc.todo # <<>> /\ Head(proc.todo) = "routes_guard" /\ Tail(proc.todo) = <<"heal", "nft", "nft_guard">> /\ Tail(proc.todo) # <<>>
    BY <1>4
  <2>2. /\ proc' \in ProcType /\ proc'.backend = "tproxy" /\ proc'.ok = proc.ok
        /\ proc'.todo = <<"heal", "nft", "nft_guard">> /\ proc'.at = "installing" /\ proc'.guards = {"routes_guard"}
    <3>1. proc.guards = {}
      BY <1>0, <1>4 DEF TproxyStarts
    <3>2. QED
      BY <1>0, <2>1, <3>1, AdvanceOn DEF Guards
  <2>3. kernel' \in KernelType /\ kernel' = kernel
    BY <1>0, <2>1, Requests
  <2>4. QED
    BY <1>0, <1>4, <2>2, <2>3 DEF RulesInv, RulesTypeOK, ProcType, KernelType, Position, Owned, BypassFirst, FirstRun, CleanEnd, TproxyStarts, TproxyUp
<1>5. CASE proc.todo = <<"heal", "nft", "nft_guard">>
  <2>1. proc.todo # <<>> /\ Head(proc.todo) = "heal" /\ Tail(proc.todo) = <<"nft", "nft_guard">> /\ Tail(proc.todo) # <<>>
    BY <1>5
  <2>2. /\ proc' \in ProcType /\ proc'.backend = "tproxy" /\ proc'.ok = proc.ok
        /\ proc'.todo = <<"nft", "nft_guard">> /\ proc'.at = "installing" /\ proc'.guards = {"routes_guard"}
    <3>1. proc.guards = {"routes_guard"}
      BY <1>0, <1>5 DEF TproxyStarts
    <3>2. QED
      BY <1>0, <2>1, <3>1, AdvanceOn DEF Guards
  <2>3. kernel' \in KernelType /\ kernel' = [kernel EXCEPT !.nft = FALSE]
    BY <1>0, <2>1, Requests
  <2>4. QED
    BY <1>0, <1>5, <2>2, <2>3 DEF RulesInv, RulesTypeOK, ProcType, KernelType, Position, Owned, BypassFirst, FirstRun, CleanEnd, TproxyStarts, TproxyUp
<1>6. CASE proc.todo = <<"nft", "nft_guard">>
  <2>1. proc.todo # <<>> /\ Head(proc.todo) = "nft" /\ Tail(proc.todo) = <<"nft_guard">> /\ Tail(proc.todo) # <<>>
    BY <1>6
  <2>2. /\ proc' \in ProcType /\ proc'.backend = "tproxy" /\ proc'.ok = proc.ok
        /\ proc'.todo = <<"nft_guard">> /\ proc'.at = "installing" /\ proc'.guards = {"routes_guard"}
    <3>1. proc.guards = {"routes_guard"}
      BY <1>0, <1>6 DEF TproxyStarts
    <3>2. QED
      BY <1>0, <2>1, <3>1, AdvanceOn DEF Guards
  <2>3. kernel' \in KernelType /\ kernel' = [kernel EXCEPT !.nft = TRUE]
    BY <1>0, <2>1, Requests
  <2>4. QED
    BY <1>0, <1>6, <2>2, <2>3 DEF RulesInv, RulesTypeOK, ProcType, KernelType, Position, Owned, BypassFirst, FirstRun, CleanEnd, TproxyStarts, TproxyUp
<1>7. CASE proc.todo = <<"nft_guard">>
  <2>1. proc.todo # <<>> /\ Head(proc.todo) = "nft_guard" /\ Tail(proc.todo) = <<>>
    BY <1>7
  <2>2. /\ proc' \in ProcType /\ proc'.backend = "tproxy" /\ proc'.ok = proc.ok
        /\ proc'.todo = <<>> /\ proc'.at = "up" /\ proc'.guards = {"routes_guard", "nft_guard"}
    <3>1. proc.guards = {"routes_guard"}
      BY <1>0, <1>7 DEF TproxyStarts
    <3>2. QED
      BY <1>0, <2>1, <3>1, AdvanceOn DEF Guards
  <2>3. kernel' \in KernelType /\ kernel' = kernel
    BY <1>0, <2>1, Requests
  <2>4. QED
    BY <1>0, <1>7, <2>2, <2>3 DEF RulesInv, RulesTypeOK, ProcType, KernelType, Position, Owned, BypassFirst, FirstRun, CleanEnd, TproxyStarts, TproxyUp
<1>8. QED
  BY <1>0, <1>1, <1>2, <1>3, <1>4, <1>5, <1>6, <1>7 DEF TproxyStarts

\* The eBPF start, request by request.
LEMMA InstallEbpf ==
  ASSUME RulesInv, Install, proc.backend = "ebpf"
  PROVE  RulesInv'
<1>0. /\ proc \in ProcType /\ kernel \in KernelType /\ proc.at = "installing" /\ EbpfStarts
      /\ kernel' = Request(kernel, Head(proc.todo)) /\ proc' = Advance(proc) /\ UNCHANGED <<starts, faults>>
  BY DEF RulesInv, RulesTypeOK, Position, Install
<1>1. CASE proc.todo = <<"config", "bpf", "listener">>
  <2>1. proc.todo # <<>> /\ Head(proc.todo) = "config" /\ Tail(proc.todo) = <<"bpf", "listener">> /\ Tail(proc.todo) # <<>>
    BY <1>1
  <2>2. /\ proc' \in ProcType /\ proc'.backend = "ebpf" /\ proc'.ok = proc.ok
        /\ proc'.todo = <<"bpf", "listener">> /\ proc'.at = "installing" /\ proc'.guards = {}
    <3>1. proc.guards = {}
      BY <1>0, <1>1 DEF EbpfStarts
    <3>2. QED
      BY <1>0, <2>1, <3>1, AdvanceOn DEF Guards
  <2>3. kernel' \in KernelType /\ kernel' = kernel
    BY <1>0, <2>1, Requests
  <2>4. QED
    BY <1>0, <1>1, <2>2, <2>3 DEF RulesInv, RulesTypeOK, ProcType, KernelType, Position, Owned, BypassFirst, FirstRun, CleanEnd, EbpfStarts, EbpfUp
<1>2. CASE proc.todo = <<"bpf", "listener">>
  <2>1. proc.todo # <<>> /\ Head(proc.todo) = "bpf" /\ Tail(proc.todo) = <<"listener">> /\ Tail(proc.todo) # <<>>
    BY <1>2
  <2>2. /\ proc' \in ProcType /\ proc'.backend = "ebpf" /\ proc'.ok = proc.ok
        /\ proc'.todo = <<"listener">> /\ proc'.at = "installing" /\ proc'.guards = {}
    <3>1. proc.guards = {}
      BY <1>0, <1>2 DEF EbpfStarts
    <3>2. QED
      BY <1>0, <2>1, <3>1, AdvanceOn DEF Guards
  <2>3. kernel' \in KernelType /\ kernel' = [kernel EXCEPT !.bpf = TRUE]
    BY <1>0, <2>1, Requests
  <2>4. QED
    BY <1>0, <1>2, <2>2, <2>3 DEF RulesInv, RulesTypeOK, ProcType, KernelType, Position, Owned, BypassFirst, FirstRun, CleanEnd, EbpfStarts, EbpfUp
<1>3. CASE proc.todo = <<"listener">>
  <2>1. proc.todo # <<>> /\ Head(proc.todo) = "listener" /\ Tail(proc.todo) = <<>>
    BY <1>3
  <2>2. /\ proc' \in ProcType /\ proc'.backend = "ebpf" /\ proc'.ok = proc.ok
        /\ proc'.todo = <<>> /\ proc'.at = "up" /\ proc'.guards = {}
    <3>1. proc.guards = {}
      BY <1>0, <1>3 DEF EbpfStarts
    <3>2. QED
      BY <1>0, <2>1, <3>1, AdvanceOn DEF Guards
  <2>3. kernel' \in KernelType /\ kernel' = [kernel EXCEPT !.listener = TRUE]
    BY <1>0, <2>1, Requests
  <2>4. QED
    BY <1>0, <1>3, <2>2, <2>3 DEF RulesInv, RulesTypeOK, ProcType, KernelType, Position, Owned, BypassFirst, FirstRun, CleanEnd, EbpfStarts, EbpfUp
<1>4. QED
  BY <1>0, <1>1, <1>2, <1>3 DEF EbpfStarts

\* What each undo does to the kernel.
LEMMA Undos ==
  ASSUME NEW k \in KernelType
  PROVE  /\ Undo(k, "pref200") = [k EXCEPT !.rules = @ \ {"all", "marked"}] /\ Undo(k, "pref200") \in KernelType
         /\ Undo(k, "pref100") = [k EXCEPT !.rules = @ \ {"bypass"}] /\ Undo(k, "pref100") \in KernelType
         /\ Undo(k, "flush") = [k EXCEPT !.default = "none"] /\ Undo(k, "flush") \in KernelType
         /\ Undo(k, "del_nft") = [k EXCEPT !.nft = FALSE] /\ Undo(k, "del_nft") \in KernelType
         /\ Undo(k, "close_listener") = [k EXCEPT !.listener = FALSE] /\ Undo(k, "close_listener") \in KernelType
         /\ Undo(k, "detach") = [k EXCEPT !.bpf = FALSE] /\ Undo(k, "detach") \in KernelType
         /\ Undo(k, "close_dev") = NoDev(k)
<1>1. /\ Undo(k, "pref200") = [k EXCEPT !.rules = @ \ {"all", "marked"}] /\ Undo(k, "pref200") \in KernelType
      /\ Undo(k, "pref100") = [k EXCEPT !.rules = @ \ {"bypass"}] /\ Undo(k, "pref100") \in KernelType
  BY DEF Undo, KernelType
<1>2. /\ Undo(k, "flush") = [k EXCEPT !.default = "none"] /\ Undo(k, "flush") \in KernelType
      /\ Undo(k, "del_nft") = [k EXCEPT !.nft = FALSE] /\ Undo(k, "del_nft") \in KernelType
  BY DEF Undo, KernelType
<1>3. /\ Undo(k, "close_listener") = [k EXCEPT !.listener = FALSE] /\ Undo(k, "close_listener") \in KernelType
      /\ Undo(k, "detach") = [k EXCEPT !.bpf = FALSE] /\ Undo(k, "detach") \in KernelType
  BY DEF Undo, KernelType
<1>4. Undo(k, "close_dev") = NoDev(k)
  BY DEF Undo
<1>5. QED
  BY <1>1, <1>2, <1>3, <1>4

\* The device takes the route through it along.
LEMMA NoDevIs ==
  ASSUME NEW k \in KernelType
  PROVE  /\ NoDev(k) \in KernelType /\ ~NoDev(k).dev /\ NoDev(k).default \in {k.default, "none"}
         /\ NoDev(k).rules = k.rules /\ NoDev(k).nft = k.nft
         /\ NoDev(k).listener = k.listener /\ NoDev(k).bpf = k.bpf
<1> DEFINE d == IF k.default = "tun" THEN "none" ELSE k.default
<1>1. d \in {"none", "tun", "local"} /\ d \in {k.default, "none"}
  BY DEF KernelType
<1>2. NoDev(k) = [k EXCEPT !.dev = FALSE, !.default = d]
  BY DEF NoDev
<1> HIDE DEF d
<1>3. QED
  BY <1>1, <1>2 DEF KernelType

\* The end of the TUN backend, undo by undo.
LEMMA UndoTun ==
  ASSUME RulesInv, UndoStep, proc.backend = "tun"
  PROVE  RulesInv'
<1>0. /\ proc \in ProcType /\ kernel \in KernelType /\ proc.at = "undoing" /\ TunEnding
      /\ kernel' = Undo(kernel, Head(proc.todo)) /\ proc' = Undone(proc) /\ UNCHANGED <<starts, faults>>
  BY DEF RulesInv, RulesTypeOK, Position, UndoStep
<1>1. CASE proc.todo = <<"close_dev">>
  <2>1. proc.todo # <<>> /\ Head(proc.todo) = "close_dev" /\ Tail(proc.todo) = <<>>
    BY <1>1
  <2>2. /\ proc' \in ProcType /\ proc'.backend = "tun" /\ proc'.ok = proc.ok
        /\ proc'.at = "down"
    BY <1>0, <2>1, UndoneOn
  <2>3. kernel' \in KernelType /\ ~kernel'.dev /\ kernel'.rules = kernel.rules /\ kernel'.nft = kernel.nft
        /\ kernel'.listener = kernel.listener /\ kernel'.bpf = kernel.bpf
    <3>1. kernel' = NoDev(kernel)
      BY <1>0, <2>1, Undos
    <3>2. QED
      BY <1>0, <3>1, NoDevIs
  <2>4. QED
    BY <1>0, <1>1, <2>2, <2>3 DEF RulesInv, RulesTypeOK, ProcType, KernelType, Position, Owned, BypassFirst, FirstRun, CleanEnd, TunEnding, No200
<1>2. CASE proc.todo = <<"close_dev", "pref200", "flush", "pref100">>
  <2>1. proc.todo # <<>> /\ Head(proc.todo) = "close_dev" /\ Tail(proc.todo) = <<"pref200", "flush", "pref100">> /\ Tail(proc.todo) # <<>>
    BY <1>2
  <2>2. /\ proc' \in ProcType /\ proc'.backend = "tun" /\ proc'.ok = proc.ok
        /\ proc'.at = "undoing" /\ proc'.todo = <<"pref200", "flush", "pref100">> /\ proc'.guards = proc.guards
    BY <1>0, <2>1, UndoneOn
  <2>3. kernel' \in KernelType /\ ~kernel'.dev /\ kernel'.rules = kernel.rules /\ kernel'.nft = kernel.nft
        /\ kernel'.listener = kernel.listener /\ kernel'.bpf = kernel.bpf
    <3>1. kernel' = NoDev(kernel)
      BY <1>0, <2>1, Undos
    <3>2. QED
      BY <1>0, <3>1, NoDevIs
  <2>4. QED
    BY <1>0, <1>2, <2>2, <2>3 DEF RulesInv, RulesTypeOK, ProcType, KernelType, Position, Owned, BypassFirst, FirstRun, CleanEnd, TunEnding, No200
<1>3. CASE proc.todo = <<"pref200", "flush", "pref100">>
  <2>1. proc.todo # <<>> /\ Head(proc.todo) = "pref200" /\ Tail(proc.todo) = <<"flush", "pref100">> /\ Tail(proc.todo) # <<>>
    BY <1>3
  <2>2. /\ proc' \in ProcType /\ proc'.backend = "tun" /\ proc'.ok = proc.ok
        /\ proc'.at = "undoing" /\ proc'.todo = <<"flush", "pref100">> /\ proc'.guards = proc.guards
    BY <1>0, <2>1, UndoneOn
  <2>3. kernel' \in KernelType /\ kernel' = [kernel EXCEPT !.rules = @ \ {"all", "marked"}]
    BY <1>0, <2>1, Undos
  <2>4. QED
    BY <1>0, <1>3, <2>2, <2>3 DEF RulesInv, RulesTypeOK, ProcType, KernelType, Position, Owned, BypassFirst, FirstRun, CleanEnd, TunEnding, No200
<1>4. CASE proc.todo = <<"flush", "pref100">>
  <2>1. proc.todo # <<>> /\ Head(proc.todo) = "flush" /\ Tail(proc.todo) = <<"pref100">> /\ Tail(proc.todo) # <<>>
    BY <1>4
  <2>2. /\ proc' \in ProcType /\ proc'.backend = "tun" /\ proc'.ok = proc.ok
        /\ proc'.at = "undoing" /\ proc'.todo = <<"pref100">> /\ proc'.guards = proc.guards
    BY <1>0, <2>1, UndoneOn
  <2>3. kernel' \in KernelType /\ kernel' = [kernel EXCEPT !.default = "none"]
    BY <1>0, <2>1, Undos
  <2>4. QED
    BY <1>0, <1>4, <2>2, <2>3 DEF RulesInv, RulesTypeOK, ProcType, KernelType, Position, Owned, BypassFirst, FirstRun, CleanEnd, TunEnding, No200
<1>5. CASE proc.todo = <<"pref100">>
  <2>1. proc.todo # <<>> /\ Head(proc.todo) = "pref100" /\ Tail(proc.todo) = <<>>
    BY <1>5
  <2>2. /\ proc' \in ProcType /\ proc'.backend = "tun" /\ proc'.ok = proc.ok
        /\ proc'.at = "down"
    BY <1>0, <2>1, UndoneOn
  <2>3. kernel' \in KernelType /\ kernel' = [kernel EXCEPT !.rules = @ \ {"bypass"}]
    BY <1>0, <2>1, Undos
  <2>4. QED
    BY <1>0, <1>5, <2>2, <2>3 DEF RulesInv, RulesTypeOK, ProcType, KernelType, Position, Owned, BypassFirst, FirstRun, CleanEnd, TunEnding, No200
<1>6. QED
  BY <1>0, <1>1, <1>2, <1>3, <1>4, <1>5 DEF TunEnding

\* The end of the tproxy backend, undo by undo.
LEMMA UndoTproxy ==
  ASSUME RulesInv, UndoStep, proc.backend = "tproxy"
  PROVE  RulesInv'
<1>0. /\ proc \in ProcType /\ kernel \in KernelType /\ proc.at = "undoing" /\ TproxyEnding
      /\ kernel' = Undo(kernel, Head(proc.todo)) /\ proc' = Undone(proc) /\ UNCHANGED <<starts, faults>>
  BY DEF RulesInv, RulesTypeOK, Position, UndoStep
<1>1. CASE proc.todo = <<"del_nft", "pref200", "flush", "close_listener">>
  <2>1. proc.todo # <<>> /\ Head(proc.todo) = "del_nft" /\ Tail(proc.todo) = <<"pref200", "flush", "close_listener">> /\ Tail(proc.todo) # <<>>
    BY <1>1
  <2>2. /\ proc' \in ProcType /\ proc'.backend = "tproxy" /\ proc'.ok = proc.ok
        /\ proc'.at = "undoing" /\ proc'.todo = <<"pref200", "flush", "close_listener">> /\ proc'.guards = proc.guards
    BY <1>0, <2>1, UndoneOn
  <2>3. kernel' \in KernelType /\ kernel' = [kernel EXCEPT !.nft = FALSE]
    BY <1>0, <2>1, Undos
  <2>4. QED
    BY <1>0, <1>1, <2>2, <2>3 DEF RulesInv, RulesTypeOK, ProcType, KernelType, Position, Owned, BypassFirst, FirstRun, CleanEnd, TproxyEnding, No200
<1>2. CASE proc.todo = <<"pref200", "flush", "close_listener">>
  <2>1. proc.todo # <<>> /\ Head(proc.todo) = "pref200" /\ Tail(proc.todo) = <<"flush", "close_listener">> /\ Tail(proc.todo) # <<>>
    BY <1>2
  <2>2. /\ proc' \in ProcType /\ proc'.backend = "tproxy" /\ proc'.ok = proc.ok
        /\ proc'.at = "undoing" /\ proc'.todo = <<"flush", "close_listener">> /\ proc'.guards = proc.guards
    BY <1>0, <2>1, UndoneOn
  <2>3. kernel' \in KernelType /\ kernel' = [kernel EXCEPT !.rules = @ \ {"all", "marked"}]
    BY <1>0, <2>1, Undos
  <2>4. QED
    BY <1>0, <1>2, <2>2, <2>3 DEF RulesInv, RulesTypeOK, ProcType, KernelType, Position, Owned, BypassFirst, FirstRun, CleanEnd, TproxyEnding, No200
<1>3. CASE proc.todo = <<"flush", "close_listener">>
  <2>1. proc.todo # <<>> /\ Head(proc.todo) = "flush" /\ Tail(proc.todo) = <<"close_listener">> /\ Tail(proc.todo) # <<>>
    BY <1>3
  <2>2. /\ proc' \in ProcType /\ proc'.backend = "tproxy" /\ proc'.ok = proc.ok
        /\ proc'.at = "undoing" /\ proc'.todo = <<"close_listener">> /\ proc'.guards = proc.guards
    BY <1>0, <2>1, UndoneOn
  <2>3. kernel' \in KernelType /\ kernel' = [kernel EXCEPT !.default = "none"]
    BY <1>0, <2>1, Undos
  <2>4. QED
    BY <1>0, <1>3, <2>2, <2>3 DEF RulesInv, RulesTypeOK, ProcType, KernelType, Position, Owned, BypassFirst, FirstRun, CleanEnd, TproxyEnding, No200
<1>4. CASE proc.todo = <<"close_listener">>
  <2>1. proc.todo # <<>> /\ Head(proc.todo) = "close_listener" /\ Tail(proc.todo) = <<>>
    BY <1>4
  <2>2. /\ proc' \in ProcType /\ proc'.backend = "tproxy" /\ proc'.ok = proc.ok
        /\ proc'.at = "down"
    BY <1>0, <2>1, UndoneOn
  <2>3. kernel' \in KernelType /\ kernel' = [kernel EXCEPT !.listener = FALSE]
    BY <1>0, <2>1, Undos
  <2>4. QED
    BY <1>0, <1>4, <2>2, <2>3 DEF RulesInv, RulesTypeOK, ProcType, KernelType, Position, Owned, BypassFirst, FirstRun, CleanEnd, TproxyEnding, No200
<1>5. QED
  BY <1>0, <1>1, <1>2, <1>3, <1>4 DEF TproxyEnding

\* The end of the eBPF backend, undo by undo.
LEMMA UndoEbpf ==
  ASSUME RulesInv, UndoStep, proc.backend = "ebpf"
  PROVE  RulesInv'
<1>0. /\ proc \in ProcType /\ kernel \in KernelType /\ proc.at = "undoing" /\ EbpfEnding
      /\ kernel' = Undo(kernel, Head(proc.todo)) /\ proc' = Undone(proc) /\ UNCHANGED <<starts, faults>>
  BY DEF RulesInv, RulesTypeOK, Position, UndoStep
<1>1. CASE proc.todo = <<"close_listener", "detach">>
  <2>1. proc.todo # <<>> /\ Head(proc.todo) = "close_listener" /\ Tail(proc.todo) = <<"detach">> /\ Tail(proc.todo) # <<>>
    BY <1>1
  <2>2. /\ proc' \in ProcType /\ proc'.backend = "ebpf" /\ proc'.ok = proc.ok
        /\ proc'.at = "undoing" /\ proc'.todo = <<"detach">> /\ proc'.guards = proc.guards
    BY <1>0, <2>1, UndoneOn
  <2>3. kernel' \in KernelType /\ kernel' = [kernel EXCEPT !.listener = FALSE]
    BY <1>0, <2>1, Undos
  <2>4. QED
    BY <1>0, <1>1, <2>2, <2>3 DEF RulesInv, RulesTypeOK, ProcType, KernelType, Position, Owned, BypassFirst, FirstRun, CleanEnd, EbpfEnding, No200
<1>2. CASE proc.todo = <<"detach">>
  <2>1. proc.todo # <<>> /\ Head(proc.todo) = "detach" /\ Tail(proc.todo) = <<>>
    BY <1>2
  <2>2. /\ proc' \in ProcType /\ proc'.backend = "ebpf" /\ proc'.ok = proc.ok
        /\ proc'.at = "down"
    BY <1>0, <2>1, UndoneOn
  <2>3. kernel' \in KernelType /\ kernel' = [kernel EXCEPT !.bpf = FALSE]
    BY <1>0, <2>1, Undos
  <2>4. QED
    BY <1>0, <1>2, <2>2, <2>3 DEF RulesInv, RulesTypeOK, ProcType, KernelType, Position, Owned, BypassFirst, FirstRun, CleanEnd, EbpfEnding, No200
<1>3. QED
  BY <1>0, <1>1, <1>2 DEF EbpfEnding

\* An undo that failed: the kernel stays as it was, and the end is not clean.
LEMMA UndoFailsInv ==
  ASSUME RulesInv, UndoFails
  PROVE  RulesInv'
<1>0. /\ proc \in ProcType /\ kernel \in KernelType /\ proc.at = "undoing" /\ Head(proc.todo) \notin Sure
      /\ proc' = [Undone(proc) EXCEPT !.ok = FALSE] /\ UNCHANGED <<kernel, starts>> /\ faults' = faults + 1
  BY DEF RulesInv, RulesTypeOK, UndoFails
<1>1. faults' \in Nat /\ faults' # 0 /\ faults \in Nat
  BY <1>0 DEF RulesInv, RulesTypeOK
<1>2. CASE proc.backend = "tun" /\ proc.todo = <<"pref200", "flush", "pref100">>
  <2>1. proc.todo # <<>> /\ Head(proc.todo) = "pref200" /\ Tail(proc.todo) = <<"flush", "pref100">> /\ Tail(proc.todo) # <<>>
    BY <1>2
  <2>2. /\ proc' \in ProcType /\ proc'.backend = "tun" /\ ~proc'.ok
        /\ proc'.at = "undoing" /\ proc'.todo = <<"flush", "pref100">> /\ proc'.guards = proc.guards
    <3>1. /\ Undone(proc) \in ProcType /\ Undone(proc).backend = "tun"
          /\ Undone(proc).at = "undoing" /\ Undone(proc).todo = <<"flush", "pref100">> /\ Undone(proc).guards = proc.guards
      BY <1>0, <1>2, <2>1, UndoneOn
    <3>2. QED
      BY <1>0, <3>1 DEF ProcType
  <2>3. QED
    BY <1>0, <1>1, <1>2, <2>2 DEF RulesInv, RulesTypeOK, ProcType, KernelType, Position, Owned, BypassFirst, FirstRun, CleanEnd, TunEnding, No200
<1>3. CASE proc.backend = "tun" /\ proc.todo = <<"flush", "pref100">>
  <2>1. proc.todo # <<>> /\ Head(proc.todo) = "flush" /\ Tail(proc.todo) = <<"pref100">> /\ Tail(proc.todo) # <<>>
    BY <1>3
  <2>2. /\ proc' \in ProcType /\ proc'.backend = "tun" /\ ~proc'.ok
        /\ proc'.at = "undoing" /\ proc'.todo = <<"pref100">> /\ proc'.guards = proc.guards
    <3>1. /\ Undone(proc) \in ProcType /\ Undone(proc).backend = "tun"
          /\ Undone(proc).at = "undoing" /\ Undone(proc).todo = <<"pref100">> /\ Undone(proc).guards = proc.guards
      BY <1>0, <1>3, <2>1, UndoneOn
    <3>2. QED
      BY <1>0, <3>1 DEF ProcType
  <2>3. QED
    BY <1>0, <1>1, <1>3, <2>2 DEF RulesInv, RulesTypeOK, ProcType, KernelType, Position, Owned, BypassFirst, FirstRun, CleanEnd, TunEnding, No200
<1>4. CASE proc.backend = "tun" /\ proc.todo = <<"pref100">>
  <2>1. proc.todo # <<>> /\ Head(proc.todo) = "pref100" /\ Tail(proc.todo) = <<>>
    BY <1>4
  <2>2. /\ proc' \in ProcType /\ proc'.backend = "tun" /\ ~proc'.ok
        /\ proc'.at = "down"
    <3>1. /\ Undone(proc) \in ProcType /\ Undone(proc).backend = "tun"
          /\ Undone(proc).at = "down"
      BY <1>0, <1>4, <2>1, UndoneOn
    <3>2. QED
      BY <1>0, <3>1 DEF ProcType
  <2>3. QED
    BY <1>0, <1>1, <1>4, <2>2 DEF RulesInv, RulesTypeOK, ProcType, KernelType, Position, Owned, BypassFirst, FirstRun, CleanEnd, TunEnding, No200
<1>5. CASE proc.backend = "tproxy" /\ proc.todo = <<"del_nft", "pref200", "flush", "close_listener">>
  <2>1. proc.todo # <<>> /\ Head(proc.todo) = "del_nft" /\ Tail(proc.todo) = <<"pref200", "flush", "close_listener">> /\ Tail(proc.todo) # <<>>
    BY <1>5
  <2>2. /\ proc' \in ProcType /\ proc'.backend = "tproxy" /\ ~proc'.ok
        /\ proc'.at = "undoing" /\ proc'.todo = <<"pref200", "flush", "close_listener">> /\ proc'.guards = proc.guards
    <3>1. /\ Undone(proc) \in ProcType /\ Undone(proc).backend = "tproxy"
          /\ Undone(proc).at = "undoing" /\ Undone(proc).todo = <<"pref200", "flush", "close_listener">> /\ Undone(proc).guards = proc.guards
      BY <1>0, <1>5, <2>1, UndoneOn
    <3>2. QED
      BY <1>0, <3>1 DEF ProcType
  <2>3. QED
    BY <1>0, <1>1, <1>5, <2>2 DEF RulesInv, RulesTypeOK, ProcType, KernelType, Position, Owned, BypassFirst, FirstRun, CleanEnd, TproxyEnding, No200
<1>6. CASE proc.backend = "tproxy" /\ proc.todo = <<"pref200", "flush", "close_listener">>
  <2>1. proc.todo # <<>> /\ Head(proc.todo) = "pref200" /\ Tail(proc.todo) = <<"flush", "close_listener">> /\ Tail(proc.todo) # <<>>
    BY <1>6
  <2>2. /\ proc' \in ProcType /\ proc'.backend = "tproxy" /\ ~proc'.ok
        /\ proc'.at = "undoing" /\ proc'.todo = <<"flush", "close_listener">> /\ proc'.guards = proc.guards
    <3>1. /\ Undone(proc) \in ProcType /\ Undone(proc).backend = "tproxy"
          /\ Undone(proc).at = "undoing" /\ Undone(proc).todo = <<"flush", "close_listener">> /\ Undone(proc).guards = proc.guards
      BY <1>0, <1>6, <2>1, UndoneOn
    <3>2. QED
      BY <1>0, <3>1 DEF ProcType
  <2>3. QED
    BY <1>0, <1>1, <1>6, <2>2 DEF RulesInv, RulesTypeOK, ProcType, KernelType, Position, Owned, BypassFirst, FirstRun, CleanEnd, TproxyEnding, No200
<1>7. CASE proc.backend = "tproxy" /\ proc.todo = <<"flush", "close_listener">>
  <2>1. proc.todo # <<>> /\ Head(proc.todo) = "flush" /\ Tail(proc.todo) = <<"close_listener">> /\ Tail(proc.todo) # <<>>
    BY <1>7
  <2>2. /\ proc' \in ProcType /\ proc'.backend = "tproxy" /\ ~proc'.ok
        /\ proc'.at = "undoing" /\ proc'.todo = <<"close_listener">> /\ proc'.guards = proc.guards
    <3>1. /\ Undone(proc) \in ProcType /\ Undone(proc).backend = "tproxy"
          /\ Undone(proc).at = "undoing" /\ Undone(proc).todo = <<"close_listener">> /\ Undone(proc).guards = proc.guards
      BY <1>0, <1>7, <2>1, UndoneOn
    <3>2. QED
      BY <1>0, <3>1 DEF ProcType
  <2>3. QED
    BY <1>0, <1>1, <1>7, <2>2 DEF RulesInv, RulesTypeOK, ProcType, KernelType, Position, Owned, BypassFirst, FirstRun, CleanEnd, TproxyEnding, No200
<1>8. ASSUME proc.todo \in {<<"close_dev">>, <<"close_dev", "pref200", "flush", "pref100">>, <<"close_listener">>, <<"close_listener", "detach">>, <<"detach">>}
     PROVE  FALSE
  BY <1>0, <1>8 DEF Sure
<1>9. QED
  BY <1>0, <1>2, <1>3, <1>4, <1>5, <1>6, <1>7, <1>8 DEF RulesInv, Position, TunEnding, TproxyEnding, EbpfEnding

-----------------------------------------------------------------------------
(* The plans and the drops, written out.                                   *)

\* Elements of a concatenation, and the tuple a sequence of known length is.
LEMMA Concat ==
  ASSUME NEW S, NEW s \in Seq(S), NEW t \in Seq(S)
  PROVE  /\ s \o t \in Seq(S) /\ Len(s \o t) = Len(s) + Len(t)
         /\ \A i \in 1..Len(s) : (s \o t)[i] = s[i]
         /\ \A i \in 1..Len(t) : (s \o t)[Len(s) + i] = t[i]
  OBVIOUS

\* Concatenation of 1 and 1.
LEMMA Cat11 ==
  ASSUME NEW a, NEW b
  PROVE  <<a>> \o <<b>> = <<a, b>>
<1> DEFINE S == {a, b}
<1>1. <<a>> \in Seq(S) /\ <<b>> \in Seq(S) /\ Len(<<a>>) = 1 /\ Len(<<b>>) = 1
  OBVIOUS
<1> DEFINE u == <<a>> \o <<b>>
<1>2. u \in Seq(S) /\ Len(u) = 2
  BY <1>1, Concat
<1>3. u[1] = a
  BY <1>1, Concat
<1>4. u[2] = b
  BY <1>1, Concat
<1> HIDE DEF u
<1>5. u = <<a, b>>
  BY <1>2, <1>3, <1>4
<1>6. QED
  BY <1>5 DEF u

\* Concatenation of 2 and 2.
LEMMA Cat22 ==
  ASSUME NEW a, NEW b, NEW c, NEW d
  PROVE  <<a, b>> \o <<c, d>> = <<a, b, c, d>>
<1> DEFINE S == {a, b, c, d}
<1>1. <<a, b>> \in Seq(S) /\ <<c, d>> \in Seq(S) /\ Len(<<a, b>>) = 2 /\ Len(<<c, d>>) = 2
  OBVIOUS
<1> DEFINE u == <<a, b>> \o <<c, d>>
<1>2. u \in Seq(S) /\ Len(u) = 4
  BY <1>1, Concat
<1>3. u[1] = a /\ u[2] = b
  BY <1>1, Concat
<1>4. u[3] = c /\ u[4] = d
  BY <1>1, Concat
<1> HIDE DEF u
<1>5. u = <<a, b, c, d>>
  BY <1>2, <1>3, <1>4
<1>6. QED
  BY <1>5 DEF u

\* Concatenation of 4 and 1.
LEMMA Cat41 ==
  ASSUME NEW a, NEW b, NEW c, NEW d, NEW e
  PROVE  <<a, b, c, d>> \o <<e>> = <<a, b, c, d, e>>
<1> DEFINE S == {a, b, c, d, e}
<1>1. <<a, b, c, d>> \in Seq(S) /\ <<e>> \in Seq(S) /\ Len(<<a, b, c, d>>) = 4 /\ Len(<<e>>) = 1
  OBVIOUS
<1> DEFINE u == <<a, b, c, d>> \o <<e>>
<1>2. u \in Seq(S) /\ Len(u) = 5
  BY <1>1, Concat
<1>3. u[1] = a /\ u[2] = b /\ u[3] = c /\ u[4] = d
  BY <1>1, Concat
<1>4. u[5] = e
  BY <1>1, Concat
<1> HIDE DEF u
<1>5. u = <<a, b, c, d, e>>
  BY <1>2, <1>3, <1>4
<1>6. QED
  BY <1>5 DEF u

\* Concatenation of 1 and 3.
LEMMA Cat13 ==
  ASSUME NEW a, NEW b, NEW c, NEW d
  PROVE  <<a>> \o <<b, c, d>> = <<a, b, c, d>>
<1> DEFINE S == {a, b, c, d}
<1>1. <<a>> \in Seq(S) /\ <<b, c, d>> \in Seq(S) /\ Len(<<a>>) = 1 /\ Len(<<b, c, d>>) = 3
  OBVIOUS
<1> DEFINE u == <<a>> \o <<b, c, d>>
<1>2. u \in Seq(S) /\ Len(u) = 4
  BY <1>1, Concat
<1>3. u[1] = a
  BY <1>1, Concat
<1>4. u[2] = b /\ u[3] = c /\ u[4] = d
  BY <1>1, Concat
<1> HIDE DEF u
<1>5. u = <<a, b, c, d>>
  BY <1>2, <1>3, <1>4
<1>6. QED
  BY <1>5 DEF u

\* Concatenation of 1 and 2.
LEMMA Cat12 ==
  ASSUME NEW a, NEW b, NEW c
  PROVE  <<a>> \o <<b, c>> = <<a, b, c>>
<1> DEFINE S == {a, b, c}
<1>1. <<a>> \in Seq(S) /\ <<b, c>> \in Seq(S) /\ Len(<<a>>) = 1 /\ Len(<<b, c>>) = 2
  OBVIOUS
<1> DEFINE u == <<a>> \o <<b, c>>
<1>2. u \in Seq(S) /\ Len(u) = 3
  BY <1>1, Concat
<1>3. u[1] = a
  BY <1>1, Concat
<1>4. u[2] = b /\ u[3] = c
  BY <1>1, Concat
<1> HIDE DEF u
<1>5. u = <<a, b, c>>
  BY <1>2, <1>3, <1>4
<1>6. QED
  BY <1>5 DEF u

\* Concatenation of 3 and 1.
LEMMA Cat31 ==
  ASSUME NEW a, NEW b, NEW c, NEW d
  PROVE  <<a, b, c>> \o <<d>> = <<a, b, c, d>>
<1> DEFINE S == {a, b, c, d}
<1>1. <<a, b, c>> \in Seq(S) /\ <<d>> \in Seq(S) /\ Len(<<a, b, c>>) = 3 /\ Len(<<d>>) = 1
  OBVIOUS
<1> DEFINE u == <<a, b, c>> \o <<d>>
<1>2. u \in Seq(S) /\ Len(u) = 4
  BY <1>1, Concat
<1>3. u[1] = a /\ u[2] = b /\ u[3] = c
  BY <1>1, Concat
<1>4. u[4] = d
  BY <1>1, Concat
<1> HIDE DEF u
<1>5. u = <<a, b, c, d>>
  BY <1>2, <1>3, <1>4
<1>6. QED
  BY <1>5 DEF u

\* Concatenation of 2 and 1.
LEMMA Cat21 ==
  ASSUME NEW a, NEW b, NEW c
  PROVE  <<a, b>> \o <<c>> = <<a, b, c>>
<1> DEFINE S == {a, b, c}
<1>1. <<a, b>> \in Seq(S) /\ <<c>> \in Seq(S) /\ Len(<<a, b>>) = 2 /\ Len(<<c>>) = 1
  OBVIOUS
<1> DEFINE u == <<a, b>> \o <<c>>
<1>2. u \in Seq(S) /\ Len(u) = 3
  BY <1>1, Concat
<1>3. u[1] = a /\ u[2] = b
  BY <1>1, Concat
<1>4. u[3] = c
  BY <1>1, Concat
<1> HIDE DEF u
<1>5. u = <<a, b, c>>
  BY <1>2, <1>3, <1>4
<1>6. QED
  BY <1>5 DEF u

\* The requests of each start, in order.
LEMMA Plans ==
  /\ Plan("tun") = <<"dev", "route_tun", "bypass", "all", "routes_guard">>
  /\ Plan("tproxy") = <<"listener", "marked", "route_local", "routes_guard", "heal", "nft", "nft_guard">>
  /\ Plan("ebpf") = <<"config", "bpf", "listener">>
<1>1. Plan("tun") = run_tun /\ Plan("tproxy") = run_tproxy /\ Plan("ebpf") = run_ebpf
  BY DEF Plan
<1>2. <<"dev">> \o <<"route_tun">> = <<"dev", "route_tun">>
  BY Cat11
<1>3. <<"dev", "route_tun">> \o <<"bypass", "all">> = <<"dev", "route_tun", "bypass", "all">>
  BY Cat22
<1>4. <<"dev", "route_tun", "bypass", "all">> \o <<"routes_guard">>
        = <<"dev", "route_tun", "bypass", "all", "routes_guard">>
  BY Cat41
<1>5. run_tun = <<"dev", "route_tun", "bypass", "all", "routes_guard">>
  BY <1>2, <1>3, <1>4 DEF run_tun, capture_routes, capture_rules
<1>6. QED
  BY <1>1, <1>5 DEF run_tproxy, run_ebpf

\* The undos of each end, by the guards that were built.
LEMMA DropsAre ==
  /\ Drops("tun", {}) = <<"close_dev">>
  /\ Drops("tun", {"routes_guard"}) = <<"close_dev", "pref200", "flush", "pref100">>
  /\ Drops("tproxy", {}) = <<"close_listener">>
  /\ Drops("tproxy", {"routes_guard"}) = <<"pref200", "flush", "close_listener">>
  /\ Drops("tproxy", {"routes_guard", "nft_guard"}) = <<"del_nft", "pref200", "flush", "close_listener">>
  /\ \A g : Drops("ebpf", g) = <<"close_listener", "detach">>
<1>1. /\ \A g : Drops("tun", g) = tun_drops(g) /\ Drops("tproxy", g) = tproxy_drops(g)
      /\ \A g : Drops("ebpf", g) = ebpf_drops
  BY DEF Drops
<1>2. tun_drops({}) = <<"close_dev">>
  <2>1. <<"close_dev">> \o <<>> = <<"close_dev">>
    OBVIOUS
  <2>2. QED
    BY <2>1 DEF tun_drops
<1>3. tun_drops({"routes_guard"}) = <<"close_dev", "pref200", "flush", "pref100">>
  <2>1. <<"close_dev">> \o <<"pref200", "flush", "pref100">> = <<"close_dev", "pref200", "flush", "pref100">>
    BY Cat13
  <2>2. QED
    BY <2>1 DEF tun_drops, capture_undos
<1>4. tproxy_drops({}) = <<"close_listener">>
  <2>1. <<>> \o <<>> = <<>> /\ <<>> \o <<"close_listener">> = <<"close_listener">>
    OBVIOUS
  <2>2. QED
    BY <2>1 DEF tproxy_drops
<1>5. tproxy_drops({"routes_guard"}) = <<"pref200", "flush", "close_listener">>
  <2>1. <<>> \o <<"pref200", "flush">> = <<"pref200", "flush">>
    OBVIOUS
  <2>2. <<"pref200", "flush">> \o <<"close_listener">> = <<"pref200", "flush", "close_listener">>
    BY Cat21
  <2>3. QED
    BY <2>1, <2>2 DEF tproxy_drops, proxy_undos
<1>6. tproxy_drops({"routes_guard", "nft_guard"}) = <<"del_nft", "pref200", "flush", "close_listener">>
  <2>1. <<"del_nft">> \o <<"pref200", "flush">> = <<"del_nft", "pref200", "flush">>
    BY Cat12
  <2>2. <<"del_nft", "pref200", "flush">> \o <<"close_listener">> = <<"del_nft", "pref200", "flush", "close_listener">>
    BY Cat31
  <2>3. QED
    BY <2>1, <2>2 DEF tproxy_drops, proxy_undos
<1>7. QED
  BY <1>1, <1>2, <1>3, <1>4, <1>5, <1>6 DEF ebpf_drops

-----------------------------------------------------------------------------
(* The other steps of a process.                                           *)

\* The invariant holds at the start.
LEMMA RulesStart ==
  ASSUME RulesInit
  PROVE  RulesInv
<1>1. proc = [at |-> "down", backend |-> "tun", todo |-> <<>>, guards |-> {}, ok |-> FALSE]
  BY DEF RulesInit, Down
<1>2. <<>> \in Seq(Names) /\ "tun" \in Backends
  BY DEF Backends
<1>3. proc \in ProcType /\ proc.at = "down" /\ proc.backend = "tun" /\ ~proc.ok
  BY <1>1, <1>2 DEF ProcType
<1>4. kernel = [rules |-> {}, default |-> "none", nft |-> FALSE, dev |-> FALSE, listener |-> FALSE, bpf |-> FALSE]
  BY DEF RulesInit, Clean
<1>5. kernel \in KernelType /\ kernel.rules = {} /\ ~kernel.nft /\ ~kernel.dev /\ ~kernel.listener /\ ~kernel.bpf
  BY <1>4 DEF KernelType
<1>6. starts = 0 /\ faults = 0 /\ kernel = Clean
  BY DEF RulesInit
<1>7. RulesTypeOK
  BY <1>3, <1>5, <1>6 DEF RulesTypeOK, ProcType, KernelType
<1>8. Position /\ Owned /\ BypassFirst /\ FirstRun /\ CleanEnd
  BY <1>3, <1>5, <1>6 DEF Position, Owned, BypassFirst, FirstRun, CleanEnd
<1>9. QED
  BY <1>7, <1>8 DEF RulesInv

\* The names of the requests and the undos.
LEMMA NamesAre ==
  /\ "dev" \in Names /\ "route_tun" \in Names /\ "bypass" \in Names /\ "all" \in Names /\ "routes_guard" \in Names
  /\ "listener" \in Names /\ "marked" \in Names /\ "route_local" \in Names /\ "heal" \in Names /\ "nft" \in Names
  /\ "nft_guard" \in Names /\ "config" \in Names /\ "bpf" \in Names /\ "pref200" \in Names /\ "flush" \in Names
  /\ "pref100" \in Names /\ "del_nft" \in Names /\ "close_listener" \in Names /\ "close_dev" \in Names /\ "detach" \in Names
  BY DEF Names

\* The plans and the drops are sequences of names.
LEMMA TodosTyped ==
  /\ <<"dev", "route_tun", "bypass", "all", "routes_guard">> \in Seq(Names)
  /\ <<"listener", "marked", "route_local", "routes_guard", "heal", "nft", "nft_guard">> \in Seq(Names)
  /\ <<"config", "bpf", "listener">> \in Seq(Names)
  /\ <<"close_dev">> \in Seq(Names)
  /\ <<"close_dev", "pref200", "flush", "pref100">> \in Seq(Names)
  /\ <<"close_listener">> \in Seq(Names)
  /\ <<"pref200", "flush", "close_listener">> \in Seq(Names)
  /\ <<"del_nft", "pref200", "flush", "close_listener">> \in Seq(Names)
  /\ <<"close_listener", "detach">> \in Seq(Names)
<1>1. <<"dev", "route_tun", "bypass", "all", "routes_guard">> \in Seq(Names)
  BY NamesAre
<1>2. <<"listener", "marked", "route_local", "routes_guard", "heal", "nft", "nft_guard">> \in Seq(Names)
  BY NamesAre
<1>3. <<"config", "bpf", "listener">> \in Seq(Names)
  BY NamesAre
<1>4. <<"close_dev">> \in Seq(Names)
  BY NamesAre
<1>5. <<"close_dev", "pref200", "flush", "pref100">> \in Seq(Names)
  BY NamesAre
<1>6. <<"close_listener">> \in Seq(Names)
  BY NamesAre
<1>7. <<"pref200", "flush", "close_listener">> \in Seq(Names)
  BY NamesAre
<1>8. <<"del_nft", "pref200", "flush", "close_listener">> \in Seq(Names)
  BY NamesAre
<1>9. <<"close_listener", "detach">> \in Seq(Names)
  BY NamesAre
<1>10. QED
  BY <1>1, <1>2, <1>3, <1>4, <1>5, <1>6, <1>7, <1>8, <1>9

\* A process starts over whatever is in the kernel.
LEMMA StartInv ==
  ASSUME RulesInv, NEW b \in Backends, Start(b)
  PROVE  RulesInv'
<1> DEFINE t == Plan(b)
<1>1. /\ b = "tun" => t = <<"dev", "route_tun", "bypass", "all", "routes_guard">>
      /\ b = "tproxy" => t = <<"listener", "marked", "route_local", "routes_guard", "heal", "nft", "nft_guard">>
      /\ b = "ebpf" => t = <<"config", "bpf", "listener">>
  BY Plans
<1> HIDE DEF t
<1>2. t \in Seq(Names)
  <2>1. CASE b = "tun"
    BY <1>1, <2>1, TodosTyped
  <2>2. CASE b = "tproxy"
    BY <1>1, <2>2, TodosTyped
  <2>3. CASE b = "ebpf"
    BY <1>1, <2>3, TodosTyped
  <2>4. QED
    BY <2>1, <2>2, <2>3 DEF Backends
<1>3. /\ proc' = [at |-> "installing", backend |-> b, todo |-> t, guards |-> {}, ok |-> TRUE]
      /\ proc.at = "down" /\ starts' = starts + 1 /\ kernel' = kernel /\ faults' = faults
  BY DEF Start, t
<1>4. /\ proc' \in ProcType /\ proc'.at = "installing" /\ proc'.backend = b /\ proc'.todo = t
      /\ proc'.guards = {} /\ proc'.ok = TRUE
  BY <1>2, <1>3 DEF ProcType
<1>5. RulesTypeOK' /\ BypassFirst' /\ CleanEnd'
  BY <1>3, <1>4 DEF RulesInv, RulesTypeOK, BypassFirst, CleanEnd, ProcType
<1>6. Position'
  BY <1>1, <1>4 DEF Position, TunStarts, TproxyStarts, EbpfStarts, Backends
<1>7. Owned'
  BY <1>3, <1>4 DEF RulesInv, RulesTypeOK, Owned, KernelType
<1>8. FirstRun'
  BY <1>3, <1>4 DEF RulesInv, RulesTypeOK, FirstRun, Clean
<1>9. QED
  BY <1>5, <1>6, <1>7, <1>8 DEF RulesInv

\* The first undo of an end.
LEMMA UndoingOn ==
  ASSUME NEW p \in ProcType, NEW ok \in BOOLEAN, Drops(p.backend, p.guards) \in Seq(Names)
  PROVE  /\ Undoing(p, ok) \in ProcType /\ Undoing(p, ok).at = "undoing"
         /\ Undoing(p, ok).backend = p.backend /\ Undoing(p, ok).guards = p.guards
         /\ Undoing(p, ok).ok = ok /\ Undoing(p, ok).todo = Drops(p.backend, p.guards)
<1> DEFINE d == Drops(p.backend, p.guards)
<1>1. Undoing(p, ok) = [p EXCEPT !.at = "undoing", !.todo = d, !.ok = ok]
  BY DEF Undoing
<1> HIDE DEF d
<1>2. d \in Seq(Names)
  BY DEF d
<1>3. QED
  BY <1>1, <1>2 DEF ProcType, d

\* The guards a process can have built when it ends.
LEMMA GuardsBuilt ==
  ASSUME RulesInv, proc.at \in {"installing", "up"}
  PROVE  /\ proc.backend = "tun" => \/ proc.guards = {} /\ proc.at = "installing"
                                    \/ proc.guards = {"routes_guard"}
         /\ proc.backend = "tproxy" => \/ proc.guards = {} /\ proc.at = "installing"
                                       \/ /\ proc.guards = {"routes_guard"} /\ proc.at = "installing"
                                          /\ kernel.listener
                                       \/ /\ proc.guards = {"routes_guard", "nft_guard"}
                                          /\ proc.at = "up" /\ kernel.listener
<1>1. proc.backend = "tun" \/ proc.backend = "tproxy" \/ proc.backend = "ebpf"
  BY DEF RulesInv, RulesTypeOK, ProcType, Backends
<1>2. CASE proc.backend = "tun"
  BY <1>2 DEF RulesInv, Position, TunStarts, TunUp
<1>3. CASE proc.backend = "tproxy"
  <2>1. CASE proc.at = "installing"
    BY <1>3, <2>1 DEF RulesInv, Position, TproxyStarts
  <2>2. CASE proc.at = "up"
    BY <1>3, <2>2 DEF RulesInv, Position, TproxyUp
  <2>3. QED
    BY <2>1, <2>2, <1>3
<1>4. QED
  BY <1>1, <1>2, <1>3

\* An end, after a failed request or an interrupt: only one from "up" can be clean.
LEMMA Ends ==
  ASSUME RulesInv, proc.at \in {"installing", "up"}, NEW ok \in BOOLEAN, ok => proc.at = "up",
         proc' = Undoing(proc, ok), kernel' = kernel, starts' = starts,
         faults' \in Nat, faults' = 0 => faults = 0
  PROVE  RulesInv'
<1>0. proc \in ProcType /\ kernel \in KernelType /\ proc.backend \in Backends
  BY DEF RulesInv, RulesTypeOK, ProcType
<1> DEFINE d == Drops(proc.backend, proc.guards)
<1>1. /\ proc.backend = "tun" => \/ proc.guards = {} /\ ~ok /\ d = <<"close_dev">>
                                 \/ proc.guards # {} /\ d = <<"close_dev", "pref200", "flush", "pref100">>
      /\ proc.backend = "tproxy" =>
            \/ proc.guards = {} /\ ~ok /\ d = <<"close_listener">>
            \/ proc.guards = {"routes_guard"} /\ ~ok /\ kernel.listener /\ d = <<"pref200", "flush", "close_listener">>
            \/ /\ proc.guards = {"routes_guard", "nft_guard"} /\ kernel.listener
               /\ d = <<"del_nft", "pref200", "flush", "close_listener">>
      /\ proc.backend = "ebpf" => d = <<"close_listener", "detach">>
  <2>1. CASE proc.backend = "tun"
    <3>1. (proc.guards = {} /\ proc.at = "installing") \/ proc.guards = {"routes_guard"}
      BY <2>1, GuardsBuilt
    <3>2. d = Drops("tun", proc.guards)
      BY <2>1
    <3>3. QED
      BY <2>1, <3>1, <3>2, DropsAre
  <2>2. CASE proc.backend = "tproxy"
    <3>1. \/ proc.guards = {} /\ proc.at = "installing"
          \/ proc.guards = {"routes_guard"} /\ proc.at = "installing" /\ kernel.listener
          \/ proc.guards = {"routes_guard", "nft_guard"} /\ kernel.listener
      BY <2>2, GuardsBuilt
    <3>2. d = Drops("tproxy", proc.guards)
      BY <2>2
    <3>3. QED
      BY <2>2, <3>1, <3>2, DropsAre
  <2>3. CASE proc.backend = "ebpf"
    <3>1. d = Drops("ebpf", proc.guards)
      BY <2>3
    <3>2. QED
      BY <2>3, <3>1, DropsAre
  <2>4. QED
    BY <1>0, <2>1, <2>2, <2>3 DEF Backends
<1> HIDE DEF d
<1>2. d \in Seq(Names)
  <2>1. CASE d = <<"close_dev">> \/ d = <<"close_dev", "pref200", "flush", "pref100">>
    BY <2>1, TodosTyped
  <2>2. CASE d = <<"close_listener">> \/ d = <<"pref200", "flush", "close_listener">>
    BY <2>2, TodosTyped
  <2>3. CASE d = <<"del_nft", "pref200", "flush", "close_listener">> \/ d = <<"close_listener", "detach">>
    BY <2>3, TodosTyped
  <2>4. QED
    BY <1>0, <1>1, <2>1, <2>2, <2>3 DEF Backends
<1>3. /\ proc' \in ProcType /\ proc'.at = "undoing" /\ proc'.backend = proc.backend
      /\ proc'.guards = proc.guards /\ proc'.ok = ok /\ proc'.todo = d
  BY <1>0, <1>2, UndoingOn DEF d
<1>4. RulesTypeOK' /\ CleanEnd'
  BY <1>0, <1>3 DEF RulesInv, RulesTypeOK, CleanEnd, ProcType, KernelType
<1>5. Owned' /\ BypassFirst' /\ FirstRun'
  BY <1>0, <1>3 DEF RulesInv, RulesTypeOK, Owned, BypassFirst, FirstRun
<1>6. Position'
  <2>1. CASE proc.backend = "tun"
    BY <1>1, <1>3, <2>1 DEF Position, TunEnding
  <2>2. CASE proc.backend = "tproxy"
    BY <1>1, <1>3, <2>2 DEF Position, TproxyEnding
  <2>3. CASE proc.backend = "ebpf"
    BY <1>1, <1>3, <2>3 DEF Position, EbpfEnding
  <2>4. QED
    BY <1>0, <2>1, <2>2, <2>3 DEF Backends
<1>7. QED
  BY <1>4, <1>5, <1>6 DEF RulesInv

\* A request that fails ends the process, the healing delete apart.
LEMMA InstallFailsInv ==
  ASSUME RulesInv, InstallFails
  PROVE  RulesInv'
<1>0. /\ proc \in ProcType /\ kernel \in KernelType /\ proc.at = "installing" /\ faults \in Nat
      /\ kernel' = kernel /\ starts' = starts /\ faults' \in {faults, faults + 1}
  BY DEF RulesInv, RulesTypeOK, InstallFails
<1>1. CASE Head(proc.todo) # "heal"
  <2>1. proc' = Undoing(proc, FALSE)
    BY <1>1 DEF InstallFails
  <2>2. faults' \in Nat /\ (faults' = 0 => faults = 0)
    BY <1>0
  <2>3. QED
    BY <1>0, <2>1, <2>2, Ends
<1>2. CASE Head(proc.todo) = "heal"
  <2>1. /\ proc.backend = "tproxy" /\ proc.todo = <<"heal", "nft", "nft_guard">> /\ proc.guards = {"routes_guard"}
        /\ kernel.listener /\ "marked" \in kernel.rules /\ kernel.default = "local"
    BY <1>0, <1>2 DEF RulesInv, Position, TunStarts, TproxyStarts, EbpfStarts
  <2>2. proc.todo # <<>> /\ Tail(proc.todo) = <<"nft", "nft_guard">> /\ Tail(proc.todo) # <<>>
    BY <2>1
  <2>3. proc' = Advance(proc)
    BY <1>2 DEF InstallFails
  <2>4. /\ proc' \in ProcType /\ proc'.backend = "tproxy" /\ proc'.at = "installing"
        /\ proc'.todo = <<"nft", "nft_guard">> /\ proc'.guards = {"routes_guard"}
    BY <1>0, <1>2, <2>1, <2>2, <2>3, AdvanceOn DEF Guards
  <2>5. QED
    BY <1>0, <2>1, <2>4 DEF RulesInv, RulesTypeOK, ProcType, KernelType, Position, Owned, BypassFirst, FirstRun, CleanEnd, TproxyStarts
<1>3. QED
  BY <1>1, <1>2

\* An interrupt: clean if the process was up.
LEMMA InterruptInv ==
  ASSUME RulesInv, Interrupt
  PROVE  RulesInv'
<1>1. /\ proc.at \in {"installing", "up"} /\ proc' = Undoing(proc, proc.at = "up")
      /\ kernel' = kernel /\ starts' = starts /\ faults' = faults
  BY DEF Interrupt
<1>2. faults' \in Nat /\ (faults' = 0 => faults = 0)
  BY <1>1 DEF RulesInv, RulesTypeOK
<1>3. CASE proc.at = "up"
  <2>1. proc' = Undoing(proc, TRUE)
    BY <1>1, <1>3
  <2>2. QED
    BY <1>1, <1>2, <1>3, <2>1, Ends
<1>4. CASE proc.at # "up"
  <2>1. proc' = Undoing(proc, FALSE)
    BY <1>1, <1>4
  <2>2. QED
    BY <1>1, <1>2, <2>1, Ends
<1>5. QED
  BY <1>3, <1>4

\* A kill closes what the process owns, and leaves the rest.
LEMMA KillInv ==
  ASSUME RulesInv, Kill
  PROVE  RulesInv'
<1> DEFINE n == NoDev(kernel)
<1>0. proc \in ProcType /\ kernel \in KernelType /\ proc.at # "down" /\ starts' = starts /\ faults' = faults
  BY DEF RulesInv, RulesTypeOK, Kill
<1>1. /\ n \in KernelType /\ ~n.dev /\ n.rules = kernel.rules /\ n.nft = kernel.nft
  BY <1>0, NoDevIs
<1>2. kernel' = [n EXCEPT !.listener = FALSE, !.bpf = FALSE]
  BY DEF Kill
<1> HIDE DEF n
<1>3. /\ kernel' \in KernelType /\ kernel'.rules = kernel.rules /\ kernel'.nft = kernel.nft
      /\ kernel'.dev = FALSE /\ kernel'.listener = FALSE /\ kernel'.bpf = FALSE
  BY <1>1, <1>2 DEF KernelType
<1>4. proc.backend \in Backends /\ <<>> \in Seq(Names)
  BY <1>0 DEF ProcType
<1>5. proc' = [at |-> "down", backend |-> proc.backend, todo |-> <<>>, guards |-> {}, ok |-> FALSE]
  BY DEF Kill, Down
<1>6. proc' \in ProcType /\ proc'.at = "down" /\ proc'.backend = proc.backend /\ proc'.ok = FALSE
  BY <1>4, <1>5 DEF ProcType
<1>7. QED
  BY <1>0, <1>3, <1>6 DEF RulesInv, RulesTypeOK, ProcType, KernelType, Position, Owned, BypassFirst, FirstRun, CleanEnd

\* Every step of a process keeps the invariant.
LEMMA RulesKept ==
  ASSUME RulesInv, RulesNext
  PROVE  RulesInv'
<1>0. proc.backend \in Backends
  BY DEF RulesInv, RulesTypeOK, ProcType
<1>1. ASSUME NEW b \in Backends, Start(b) PROVE RulesInv'
  BY <1>1, StartInv
<1>2. CASE Install
  BY <1>0, <1>2, InstallTun, InstallTproxy, InstallEbpf DEF Backends
<1>3. CASE UndoStep
  BY <1>0, <1>3, UndoTun, UndoTproxy, UndoEbpf DEF Backends
<1>4. QED
  BY <1>1, <1>2, <1>3, InstallFailsInv, InterruptInv, UndoFailsInv, KillInv DEF RulesNext

-----------------------------------------------------------------------------
(* What the kernel does with a packet, by what the process has installed.  *)

\* Route by its rules: out by the bypass or past table 100, in by the default route of that table.
LEMMA Routes ==
  ASSUME NEW k \in KernelType, NEW m0 \in Nat
  PROVE  LET m == Marked(k, m0) IN
         /\ "bypass" \in k.rules /\ m = FWMARK => Route(k, m0) = "wire"
         /\ ~Table100(k, m) => Route(k, m0) = "wire"
         /\ ("bypass" \notin k.rules \/ m # FWMARK) /\ Table100(k, m) /\ k.default = "tun" => Route(k, m0) = "hodor"
         /\ ("bypass" \notin k.rules \/ m # FWMARK) /\ Table100(k, m) /\ k.default = "local"
               => Route(k, m0) = Local(k, m)
         /\ Route(k, m0) = "lost" => Table100(k, m) /\ k.default = "local" /\ Local(k, m) = "lost"
<1> DEFINE m == Marked(k, m0)
<1>1. Route(k, m0) = IF ("bypass" \in k.rules /\ m = FWMARK) \/ ~Table100(k, m) \/ k.default = "none" THEN "wire"
                     ELSE IF k.default = "tun" THEN "hodor" ELSE Local(k, m)
  BY DEF Route
<1> HIDE DEF m
<1>2. k.default \in {"none", "tun", "local"}
  BY DEF KernelType
<1>3. QED
  BY <1>1, <1>2 DEF m

\* Nothing but the programs of eBPF stands between a guest and the rules.
LEMMA NoPrograms ==
  ASSUME RulesInv, proc.backend # "ebpf"
  PROVE  GuestPath(kernel) = Route(kernel, 0)
<1>1. kernel.bpf = FALSE
  BY DEF RulesInv, RulesTypeOK, KernelType, Owned
<1>2. QED
  BY <1>1 DEF GuestPath

\* The TUN backend: its own dials bear the bypass's mark, the guest's none.
LEMMA SteeredTun ==
  ASSUME RulesInv, proc.backend = "tun", proc.at # "down", ~Foreign(kernel, "tun")
  PROVE  /\ faults = 0 => OwnPath(kernel, "tun") = "wire"
         /\ proc.at = "up" => GuestPath(kernel) = "hodor"
         /\ GuestPath(kernel) # "lost"
<1>0. kernel \in KernelType /\ FWMARK \in Nat /\ 0 \in Nat /\ FWMARK # 0
  BY DEF RulesInv, RulesTypeOK, FWMARK
<1>1. kernel.nft = FALSE /\ "marked" \notin kernel.rules /\ kernel.default # "local"
  BY <1>0 DEF Foreign, KernelType
<1>2. Marked(kernel, FWMARK) = FWMARK /\ Marked(kernel, 0) = 0
  BY <1>1 DEF Marked
<1>3. faults = 0 => OwnPath(kernel, "tun") = "wire"
  <2>1. OwnPath(kernel, "tun") = Route(kernel, FWMARK)
    BY DEF OwnPath, fwmark
  <2>2. "bypass" \in kernel.rules => Route(kernel, FWMARK) = "wire"
    BY <1>0, <1>2, Routes
  <2>3. ~Table100(kernel, FWMARK) => Route(kernel, FWMARK) = "wire"
    BY <1>0, <1>2, Routes
  <2>4. faults = 0 /\ "bypass" \notin kernel.rules => ~Table100(kernel, FWMARK)
    BY <1>1 DEF RulesInv, BypassFirst, Table100
  <2>5. QED
    BY <2>1, <2>2, <2>3, <2>4
<1>4. GuestPath(kernel) = Route(kernel, 0)
  BY NoPrograms
<1>5. proc.at = "up" => Route(kernel, 0) = "hodor"
  <2>1. SUFFICES ASSUME proc.at = "up" PROVE Route(kernel, 0) = "hodor"
    OBVIOUS
  <2>2. kernel.default = "tun" /\ "all" \in kernel.rules
    BY <2>1 DEF RulesInv, Position, TunUp
  <2>3. Table100(kernel, 0)
    BY <2>2 DEF Table100
  <2>4. QED
    BY <1>0, <1>2, <2>2, <2>3, Routes
<1>6. Route(kernel, 0) # "lost"
  BY <1>0, <1>1, Routes
<1>7. QED
  BY <1>3, <1>4, <1>5, <1>6

\* The tproxy backend: its own dials bear a mark no rule names; a guest's go to
\* the listener, and are lost without one only over a killed run's table.
LEMMA SteeredTproxy ==
  ASSUME RulesInv, proc.backend = "tproxy", proc.at # "down", ~Foreign(kernel, "tproxy")
  PROVE  /\ OwnPath(kernel, "tproxy") = "wire"
         /\ proc.at = "up" => GuestPath(kernel) = "hodor"
         /\ GuestPath(kernel) = "lost" => ~kernel.listener /\ starts > 1 /\ "nft_guard" \notin proc.guards
<1>0. /\ kernel \in KernelType /\ FWMARK \in Nat /\ EGRESS_MARK \in Nat /\ 0 \in Nat
      /\ FWMARK # 0 /\ EGRESS_MARK # 0 /\ FWMARK # EGRESS_MARK
  BY DEF RulesInv, RulesTypeOK, FWMARK, EGRESS_MARK
<1>1. "bypass" \notin kernel.rules /\ "all" \notin kernel.rules /\ kernel.default # "tun"
  BY <1>0 DEF Foreign, KernelType
<1>2. /\ Marked(kernel, EGRESS_MARK) = EGRESS_MARK
      /\ kernel.nft => Marked(kernel, 0) = FWMARK
      /\ ~kernel.nft => Marked(kernel, 0) = 0
  BY <1>0 DEF Marked
<1>3. OwnPath(kernel, "tproxy") = "wire"
  <2>1. OwnPath(kernel, "tproxy") = Route(kernel, EGRESS_MARK)
    BY DEF OwnPath, fwmark
  <2>2. ~Table100(kernel, EGRESS_MARK)
    BY <1>0, <1>1 DEF Table100
  <2>3. QED
    BY <1>0, <1>2, <2>1, <2>2, Routes
<1>4. GuestPath(kernel) = Route(kernel, 0)
  BY NoPrograms
<1>5. proc.at = "up" => Route(kernel, 0) = "hodor"
  <2>1. SUFFICES ASSUME proc.at = "up" PROVE Route(kernel, 0) = "hodor"
    OBVIOUS
  <2>2. kernel.listener /\ "marked" \in kernel.rules /\ kernel.default = "local" /\ kernel.nft
    BY <2>1 DEF RulesInv, Position, TproxyUp
  <2>3. Table100(kernel, FWMARK) /\ Local(kernel, FWMARK) = "hodor"
    BY <2>2 DEF Table100, Local
  <2>4. QED
    BY <1>0, <1>1, <1>2, <2>2, <2>3, Routes
<1>6. ASSUME Route(kernel, 0) = "lost"
      PROVE  ~kernel.listener /\ starts > 1 /\ "nft_guard" \notin proc.guards
  <2>1. /\ Table100(kernel, Marked(kernel, 0)) /\ Local(kernel, Marked(kernel, 0)) = "lost"
    BY <1>0, <1>6, Routes
  <2>2. Marked(kernel, 0) = FWMARK /\ kernel.nft
    BY <1>0, <1>1, <1>2, <2>1 DEF Table100
  <2>3. ~kernel.listener
    BY <2>1, <2>2 DEF Local
  <2>4. starts > 1
    <3>1. starts \in Nat /\ starts # 0 /\ starts # 1
      BY <2>2, <2>3 DEF RulesInv, RulesTypeOK, FirstRun
    <3>2. QED
      BY <3>1
  <2>5. "nft_guard" \notin proc.guards
    <3>1. proc.at \in {"installing", "up", "undoing"}
      BY DEF RulesInv, RulesTypeOK, ProcType
    <3>2. CASE proc.at = "installing"
      BY <3>2 DEF RulesInv, Position, TproxyStarts
    <3>3. CASE proc.at = "up"
      BY <2>3, <3>3 DEF RulesInv, Position, TproxyUp
    <3>4. CASE proc.at = "undoing"
      BY <2>3, <3>4 DEF RulesInv, Position, TproxyEnding
    <3>5. QED
      BY <3>1, <3>2, <3>3, <3>4
  <2>6. QED
    BY <2>3, <2>4, <2>5
<1>7. QED
  BY <1>3, <1>4, <1>5, <1>6

\* The eBPF backend: with no rule of another backend every packet goes out; the
\* guest's dials are lost only while the programs are there and the listener is not.
LEMMA SteeredEbpf ==
  ASSUME RulesInv, proc.backend = "ebpf", proc.at # "down", ~Foreign(kernel, "ebpf")
  PROVE  /\ OwnPath(kernel, "ebpf") = "wire"
         /\ proc.at = "up" => GuestPath(kernel) = "hodor"
         /\ GuestPath(kernel) = "lost" => ~kernel.listener
<1>0. kernel \in KernelType /\ 0 \in Nat
  BY DEF RulesInv, RulesTypeOK
<1>1. kernel.rules = {}
  BY DEF Foreign
<1>2. ~Table100(kernel, Marked(kernel, 0))
  BY <1>1 DEF Table100
<1>3. Route(kernel, 0) = "wire"
  BY <1>0, <1>2, Routes
<1>4. OwnPath(kernel, "ebpf") = "wire"
  BY <1>3 DEF OwnPath, fwmark
<1>5. proc.at = "up" => GuestPath(kernel) = "hodor"
  BY DEF RulesInv, Position, EbpfUp, GuestPath
<1>6. GuestPath(kernel) = "lost" => ~kernel.listener
  BY <1>3 DEF GuestPath
<1>7. QED
  BY <1>4, <1>5, <1>6

\* The invariant gives the property.
LEMMA InvSteers ==
  ASSUME RulesInv
  PROVE  Steered
<1>0. proc.backend \in Backends /\ kernel \in KernelType
  BY DEF RulesInv, RulesTypeOK, ProcType
<1>1. OwnDialsOut
  <2>1. SUFFICES ASSUME proc.at # "down", ~Foreign(kernel, proc.backend)
                 PROVE  /\ faults = 0 => OwnPath(kernel, proc.backend) = "wire"
                        /\ proc.at = "up" => GuestPath(kernel) = "hodor"
    BY DEF OwnDialsOut
  <2>2. CASE proc.backend = "tun"
    BY <2>1, <2>2, SteeredTun
  <2>3. CASE proc.backend = "tproxy"
    BY <2>1, <2>3, SteeredTproxy
  <2>4. CASE proc.backend = "ebpf"
    BY <2>1, <2>4, SteeredEbpf
  <2>5. QED
    BY <1>0, <2>2, <2>3, <2>4 DEF Backends
<1>2. NoBlackhole
  <2>1. SUFFICES ASSUME GuestPath(kernel) = "lost", proc.at # "down", ~Foreign(kernel, proc.backend)
                 PROVE  /\ ~kernel.listener
                        /\ proc.backend = "ebpf" \/ (starts > 1 /\ "nft_guard" \notin proc.guards)
    BY DEF NoBlackhole
  <2>2. CASE proc.backend = "tun"
    BY <2>1, <2>2, SteeredTun
  <2>3. CASE proc.backend = "tproxy"
    BY <2>1, <2>3, SteeredTproxy
  <2>4. CASE proc.backend = "ebpf"
    BY <2>1, <2>4, SteeredEbpf
  <2>5. QED
    BY <1>0, <2>2, <2>3, <2>4 DEF Backends
<1>3. HealsItself
  BY <1>0 DEF RulesInv, Owned, CleanEnd, HealsItself, KernelType
<1>4. QED
  BY <1>1, <1>2, <1>3 DEF Steered

-----------------------------------------------------------------------------
(* The composition.                                                        *)

\* A step of a data plane leaves the process and the kernel's rules alone.
LEMMA CaptureKept ==
  ASSUME RulesInv, [CaptureNext]_captureVars
  PROVE  RulesInv'
<1>1. CASE ProcessStep
  BY <1>1, RulesKept DEF ProcessStep
<1>2. CASE UNCHANGED <<proc, kernel, starts, faults>>
  BY <1>2 DEF RulesInv, RulesTypeOK, Position, Owned, BypassFirst, FirstRun, CleanEnd, TunStarts, TproxyStarts,
              EbpfStarts, TunUp, TproxyUp, EbpfUp, TunEnding, TproxyEnding, EbpfEnding, No200
<1>3. CASE TunTcp
  <2>1. UNCHANGED ruleVars
    BY <1>3 DEF TunTcp
  <2>2. QED
    BY <1>2, <2>1 DEF ruleVars
<1>4. CASE TunUdp
  <2>1. UNCHANGED ruleVars
    BY <1>4 DEF TunUdp
  <2>2. QED
    BY <1>2, <2>1 DEF ruleVars
<1>5. CASE EbpfStep
  <2>1. UNCHANGED ruleVars
    BY <1>5 DEF EbpfStep
  <2>2. QED
    BY <1>2, <2>1 DEF ruleVars
<1>6. CASE SidecarStep
  <2>1. UNCHANGED ruleVars
    BY <1>6 DEF SidecarStep
  <2>2. QED
    BY <1>2, <2>1 DEF ruleVars
<1>7. CASE UNCHANGED captureVars
  BY <1>2, <1>7 DEF captureVars
<1>8. QED
  BY <1>1, <1>3, <1>4, <1>5, <1>6, <1>7 DEF CaptureNext

(***************************************************************************)
(* Whatever sequence of starts, kills, interrupts and failed requests has  *)
(* gone before, hodor's own dials leave by the real gateway, the guest's   *)
(* reach hodor once the backend is up, no routing backend loses a guest's  *)
(* traffic after its guards are built, and a run that ended well leaves    *)
(* nothing of its own in the kernel (run_tun, run_tproxy, run_ebpf and the *)
(* guards they drop).                                                      *)
(***************************************************************************)
THEOREM CaptureSteers == CaptureSpec => []Steered
<1>1. CaptureInit => RulesInv
  BY RulesStart DEF CaptureInit
<1>2. RulesInv /\ [CaptureNext]_captureVars => RulesInv'
  BY CaptureKept
<1>3. RulesInv => Steered
  BY InvSteers
<1>4. QED
  BY <1>1, <1>2, <1>3, PTL DEF CaptureSpec

-----------------------------------------------------------------------------
(* The eBPF maps.                                                          *)

SockType == [at : {"new", "dialed", "sent", "served", "closed"}, dst : Dsts \cup {0}, port : Ports \cup {0},
             via : {"none", "hodor", "wire"}, server : Dsts \cup {0}]
Tcp(s) == Proto[s] = "tcp"

(* No entry of t is younger than every entry of s.                         *)
Precedes(lru, t, s) ==
  \A i \in DOMAIN lru : lru[i][1] = t => \E j \in DOMAIN lru : j > i /\ lru[j][1] = s

(* A cookie's entry states what its TCP socket dialed; a port has one      *)
(* holder of a protocol; the filed cookie of a port that has passed to     *)
(* another TCP socket is evicted before that one's.                        *)
EntriesInv ==
  /\ ORIG_DST \in Seq(Sockets \X Dsts)
  /\ \A i \in DOMAIN ORIG_DST : LET s == ORIG_DST[i][1] IN
       Tcp(s) => ORIG_DST[i][2] = sock[s].dst /\ sock[s].at # "new"
HoldersInv ==
  /\ \A s, t \in Sockets : s # t /\ Proto[s] = Proto[t] /\ sock[s].port = sock[t].port => sock[s].port = 0
  /\ \A s \in Sockets : sock[s].at \in {"dialed", "sent", "served"} => sock[s].port \in Ports
FiledInv ==
  /\ FLOW \in [Ports -> Sockets \cup {"none"}]
  /\ \A p \in Ports : FLOW[p] # "none" /\ Tcp(FLOW[p]) => sock[FLOW[p]].at \notin {"new", "dialed"}
AgeInv ==
  \A s \in Sockets : LET t == FLOW[sock[s].port] IN
     Tcp(s) /\ sock[s].at \in {"dialed", "sent"} /\ sock[s].via = "hodor" /\ t \notin {s, "none"} /\ Tcp(t) =>
       IF sock[s].at = "dialed" THEN Precedes(ORIG_DST, t, s) ELSE \A i \in DOMAIN ORIG_DST : ORIG_DST[i][1] # t
EbpfInv ==
  /\ sock \in [Sockets -> SockType] /\ Explicit \subseteq CONFIG
  /\ EntriesInv /\ HoldersInv /\ FiledInv /\ AgeInv /\ RightServer

-----------------------------------------------------------------------------
(* The sidecar.                                                            *)

(* Rows are told apart by their inode, and by address and port.            *)
RowType == [inode : Nat, port : FwdPorts, addr : {"lo4", "lo6", "any"}, owner : {"agent", "hodor"}]
Wanted(p) ==
  \E r \in sidecar.seen : /\ r.port = p /\ r.addr = sidecar.desired[p] /\ r.owner = "agent"
                          /\ \A q \in sidecar.seen : q.port = p => q = r
RowsInv ==
  /\ rows \in SUBSET RowType /\ sidecar.seen \in SUBSET RowType /\ opened \in Nat
  /\ \A r \in rows \cup sidecar.seen : r.inode <= opened
  /\ \A q, r \in rows \cup sidecar.seen : q.inode = r.inode => q = r
  /\ \A q, r \in rows : q.port = r.port /\ q.addr = r.addr => q = r
  /\ \A q, r \in sidecar.seen : q.port = r.port /\ q.addr = r.addr => q = r
  /\ \A r \in sidecar.seen : r.addr = "lo4" \/ (r.addr = "lo6" /\ sidecar.at # "tcp6")
FwdInv ==
  /\ sidecar = [at |-> sidecar.at, binds |-> sidecar.binds, seen |-> sidecar.seen,
                desired |-> sidecar.desired, left |-> sidecar.left]
  /\ forwarders = [p \in FwdPorts |-> forwarders[p]]
  /\ RowsInv
  /\ sidecar.at \in {"reap", "start"} => \A p \in FwdPorts : sidecar.desired[p] # "none" => Wanted(p)
  /\ sidecar.at = "start" => /\ \A p \in FwdPorts : forwarders[p] \in {"none", sidecar.desired[p]}
                             /\ sidecar.left \subseteq FwdPorts
EndsInv == EbpfInv /\ FwdInv

-----------------------------------------------------------------------------
(* The map that evicts the entry used longest ago.                         *)

\* A list without its k-th element.
LEMMA RemovedIs ==
  ASSUME NEW S, NEW l \in Seq(S), NEW k \in DOMAIN l
  PROVE  LET r == RemoveAt(l, k) IN
         /\ r \in Seq(S) /\ Len(r) = Len(l) - 1
         /\ \A i \in 1..(Len(l) - 1) : r[i] = IF i < k THEN l[i] ELSE l[i + 1]
<1> DEFINE a == SubSeq(l, 1, k - 1)
<1> DEFINE b == SubSeq(l, k + 1, Len(l))
<1>1. k \in 1..Len(l) /\ Len(l) \in Nat /\ k \in Nat
  OBVIOUS
<1>2. a \in Seq(S) /\ Len(a) = k - 1 /\ \A i \in 1..(k - 1) : a[i] = l[i]
  BY <1>1
<1>3. b \in Seq(S)
  BY <1>1
<1>4. Len(b) = Len(l) - k
  <2>1. CASE k < Len(l)
    BY <1>1, <2>1
  <2>2. CASE k = Len(l)
    BY <1>1, <2>2
  <2>3. \A n \in Nat : k \in 1..n => k < n \/ k = n
    BY <1>1
  <2>4. QED
    BY <1>1, <2>1, <2>2, <2>3, Zenon
<1>5. \A i \in 1..(Len(l) - k) : b[i] = l[i + k]
  BY <1>1, <1>4
<1> HIDE DEF a, b
<1> DEFINE r == a \o b
<1>6. r \in Seq(S) /\ Len(r) = Len(l) - 1
  BY <1>1, <1>2, <1>3, <1>4
<1>7. \A i \in 1..(k - 1) : r[i] = a[i]
  BY <1>1, <1>2, <1>3
<1>8. \A i \in k..(Len(l) - 1) : r[i] = b[i - (k - 1)]
  BY <1>1, <1>2, <1>3, <1>4
<1> HIDE DEF r
<1>9. ASSUME NEW i \in 1..(Len(l) - 1) PROVE r[i] = IF i < k THEN l[i] ELSE l[i + 1]
  <2>1. CASE i < k
    BY <1>1, <1>2, <1>7, <2>1
  <2>2. CASE ~(i < k)
    <3>1. i \in k..(Len(l) - 1) /\ i - (k - 1) \in 1..(Len(l) - k) /\ (i - (k - 1)) + k = i + 1
      BY <1>1, <2>2
    <3>2. QED
      BY <1>5, <1>8, <2>2, <3>1
  <2>3. QED
    BY <2>1, <2>2
<1>10. RemoveAt(l, k) = r
  BY DEF RemoveAt, r, a, b
<1>11. QED
  BY <1>6, <1>9, <1>10

\* Its elements stay, and so does their order.
LEMMA RemovedKeeps ==
  ASSUME NEW S, NEW l \in Seq(S), NEW k \in DOMAIN l, NEW s, NEW t
  PROVE  LET r == RemoveAt(l, k) IN
         /\ \A i \in DOMAIN r : \E j \in DOMAIN l : r[i] = l[j]
         /\ l[k][1] # s /\ Precedes(l, t, s) => Precedes(r, t, s)
<1> DEFINE r == RemoveAt(l, k)
<1>1. k \in 1..Len(l) /\ Len(l) \in Nat /\ k \in Nat /\ DOMAIN l = 1..Len(l)
  OBVIOUS
<1>2. /\ r \in Seq(S) /\ Len(r) = Len(l) - 1
      /\ \A i \in 1..(Len(l) - 1) : r[i] = IF i < k THEN l[i] ELSE l[i + 1]
  BY RemovedIs
<1> HIDE DEF r
<1>3. DOMAIN r = 1..(Len(l) - 1)
  BY <1>1, <1>2
<1>4. \A i \in DOMAIN r : i \in DOMAIN l /\ i + 1 \in DOMAIN l /\ (r[i] = l[i] \/ r[i] = l[i + 1])
  BY <1>1, <1>2, <1>3
<1>5. ASSUME l[k][1] # s, Precedes(l, t, s), NEW i \in DOMAIN r, r[i][1] = t PROVE \E j \in DOMAIN r : j > i /\ r[j][1] = s
  <2> DEFINE m == IF i < k THEN i ELSE i + 1
  <2>1. m \in DOMAIN l /\ l[m] = r[i] /\ m \in Nat /\ i \in Nat
    BY <1>1, <1>2, <1>3
  <2>2. PICK n \in DOMAIN l : n > m /\ l[n][1] = s
    BY <1>5, <2>1 DEF Precedes
  <2>3. n # k /\ n \in Nat
    BY <1>1, <1>5, <2>2
  <2> DEFINE j == IF n < k THEN n ELSE n - 1
  <2>4. j \in 1..(Len(l) - 1) /\ j > i
    BY <1>1, <1>3, <2>1, <2>2, <2>3
  <2>5. r[j] = l[n]
    <3>1. CASE n < k
      BY <1>2, <2>4, <3>1
    <3>2. CASE ~(n < k)
      <4>1. ~(n - 1 < k) /\ (n - 1) + 1 = n
        BY <1>1, <2>3, <3>2
      <4>2. QED
        BY <1>2, <2>4, <3>2, <4>1
    <3>3. QED
      BY <3>1, <3>2
  <2>6. QED
    BY <1>3, <2>2, <2>4, <2>5
<1>6. QED
  BY <1>4, <1>5 DEF r, Precedes

\* A list without its head.
LEMMA DropKeeps ==
  ASSUME NEW S, NEW l \in Seq(S), l # <<>>, NEW s, NEW t
  PROVE  /\ Tail(l) \in Seq(S)
         /\ \A i \in DOMAIN Tail(l) : \E j \in DOMAIN l : Tail(l)[i] = l[j]
         /\ Precedes(l, t, s) => Precedes(Tail(l), t, s)
<1> DEFINE r == Tail(l)
<1>1. Len(l) \in Nat /\ Len(l) >= 1 /\ DOMAIN l = 1..Len(l)
  OBVIOUS
<1>2. r \in Seq(S) /\ Len(r) = Len(l) - 1 /\ \A i \in 1..(Len(l) - 1) : r[i] = l[i + 1]
  BY <1>1
<1> HIDE DEF r
<1>3. DOMAIN r = 1..(Len(l) - 1)
  BY <1>1, <1>2
<1>4. \A i \in DOMAIN r : i + 1 \in DOMAIN l /\ r[i] = l[i + 1] /\ i \in Nat
  BY <1>1, <1>2, <1>3
<1>5. ASSUME Precedes(l, t, s), NEW i \in DOMAIN r, r[i][1] = t PROVE \E j \in DOMAIN r : j > i /\ r[j][1] = s
  <2>1. PICK n \in DOMAIN l : n > i + 1 /\ l[n][1] = s
    BY <1>4, <1>5 DEF Precedes
  <2>2. n - 1 \in DOMAIN r /\ n - 1 > i /\ (n - 1) + 1 = n
    BY <1>1, <1>3, <1>4, <2>1
  <2>3. r[n - 1][1] = s
    BY <1>4, <2>1, <2>2
  <2>4. QED
    BY <2>2, <2>3
<1>6. QED
  BY <1>2, <1>4, <1>5 DEF r, Precedes

\* An entry added or refreshed: what the map holds, and in which order.
LEMMA InsertIs ==
  ASSUME NEW l \in Seq(Sockets \X Dsts), NEW x \in Sockets, NEW d \in Dsts
  PROVE  LET n == Insert(l, x, d) IN
         /\ n \in Seq(Sockets \X Dsts)
         /\ \A i \in DOMAIN n : n[i] = <<x, d>> \/ \E j \in DOMAIN l : n[i] = l[j]
         /\ \A s \in Sockets, t \in Sockets : s # x /\ t # x /\ Precedes(l, t, s) => Precedes(n, t, s)
         /\ \A t \in Sockets : t # x => Precedes(n, t, x)
<1> DEFINE S == Sockets \X Dsts
<1> DEFINE w == Without(l, x)
<1> DEFINE a == Append(w, <<x, d>>)
<1> DEFINE n == Insert(l, x, d)
<1>1. n = (IF Len(a) > MAX_ENTRIES THEN Tail(a) ELSE a)
  BY DEF Insert
<1>2. w \in Seq(S) /\ (\A i \in DOMAIN w : \E j \in DOMAIN l : w[i] = l[j])
      /\ \A s, t : s # x /\ Precedes(l, t, s) => Precedes(w, t, s)
  <2> DEFINE at == {i \in DOMAIN l : l[i][1] = x}
  <2>1. CASE at = {}
    BY <2>1 DEF Without
  <2>2. CASE at # {}
    <3> DEFINE k == CHOOSE i \in at : TRUE
    <3>1. k \in DOMAIN l /\ l[k][1] = x
      BY <2>2
    <3>2. w = RemoveAt(l, k)
      BY <2>2 DEF Without
    <3> HIDE DEF k, w
    <3>3. w \in Seq(S)
      BY <3>1, <3>2, RemovedIs
    <3>4. /\ \A i \in DOMAIN w : \E j \in DOMAIN l : w[i] = l[j]
          /\ \A s, t : s # x /\ Precedes(l, t, s) => Precedes(w, t, s)
      BY <3>1, <3>2, RemovedKeeps
    <3>5. QED
      BY <3>3, <3>4
  <2>3. QED
    BY <2>1, <2>2
<1> HIDE DEF w
<1>3. /\ a \in Seq(S) /\ a # <<>> /\ DOMAIN a = 1..(Len(w) + 1) /\ Len(w) \in Nat /\ DOMAIN w = 1..Len(w)
      /\ a[Len(w) + 1] = <<x, d>> /\ \A i \in 1..Len(w) : a[i] = w[i]
  <2>1. w \in Seq(S) /\ <<x, d>> \in S
    BY <1>2
  <2>2. a \in Seq(S) /\ Len(a) = Len(w) + 1 /\ Len(w) \in Nat
    BY <2>1
  <2>3. a[Len(w) + 1] = <<x, d>> /\ \A i \in 1..Len(w) : a[i] = w[i]
    BY <2>1
  <2> HIDE DEF a, S
  <2>4. DOMAIN a = 1..(Len(w) + 1) /\ DOMAIN w = 1..Len(w) /\ a # <<>>
    BY <2>1, <2>2
  <2>5. QED
    BY <2>2, <2>3, <2>4
<1> HIDE DEF a
<1>4. \A i \in DOMAIN a : a[i] = <<x, d>> \/ \E j \in DOMAIN l : a[i] = l[j]
  <2>1. \A i \in DOMAIN a : i = Len(w) + 1 \/ i \in DOMAIN w
    BY <1>3
  <2>2. QED
    BY <1>2, <1>3, <2>1
<1>5. ASSUME NEW s, NEW t, t # x, s # x, Precedes(w, t, s) PROVE Precedes(a, t, s)
  <2>1. ASSUME NEW i \in DOMAIN a, a[i][1] = t PROVE \E j \in DOMAIN a : j > i /\ a[j][1] = s
    <3>1. i # Len(w) + 1
      BY <1>3, <1>5, <2>1
    <3>2. i \in DOMAIN w /\ w[i][1] = t
      BY <1>3, <2>1, <3>1
    <3>3. PICK j \in DOMAIN w : j > i /\ w[j][1] = s
      BY <1>5, <3>2 DEF Precedes
    <3>4. QED
      BY <1>3, <3>3
  <2>2. QED
    BY <2>1 DEF Precedes
<1>6. ASSUME NEW t, t # x PROVE Precedes(a, t, x)
  <2>1. ASSUME NEW i \in DOMAIN a, a[i][1] = t PROVE Len(w) + 1 \in DOMAIN a /\ Len(w) + 1 > i /\ a[Len(w) + 1][1] = x
    <3>1. i # Len(w) + 1 /\ a[Len(w) + 1][1] = x
      BY <1>3, <1>6, <2>1
    <3>2. QED
      BY <1>3, <3>1
  <2>2. QED
    BY <2>1 DEF Precedes
<1>7. \A s, t : /\ Tail(a) \in Seq(S) /\ \A i \in DOMAIN Tail(a) : \E j \in DOMAIN a : Tail(a)[i] = a[j]
                /\ Precedes(a, t, s) => Precedes(Tail(a), t, s)
  BY <1>3, DropKeeps
<1>8. n = Tail(a) \/ n = a
  BY <1>1
<1> HIDE DEF n
<1>9. n \in Seq(S) /\ \A i \in DOMAIN n : n[i] = <<x, d>> \/ \E j \in DOMAIN l : n[i] = l[j]
  BY <1>3, <1>4, <1>7, <1>8, ZenonT(30)
<1>10. \A s, t : Precedes(a, t, s) => Precedes(n, t, s)
  BY <1>7, <1>8
<1>11. QED
  BY <1>2, <1>5, <1>6, <1>9, <1>10 DEF n

\* The operator's list is always in the merged one.
LEMMA ExplicitFirst == Explicit \subseteq Merged /\ \A f : Explicit \subseteq build_bypass(Explicit, f)
  BY DEF Merged, build_bypass

\* No socket, no entry.
LEMMA NoSockets ==
  ASSUME sock = [s \in Sockets |-> NoSocket], ORIG_DST = <<>>, FLOW = [p \in Ports |-> "none"], Explicit \subseteq CONFIG
  PROVE  EbpfInv
<1>1. sock \in [Sockets -> SockType] /\ \A s \in Sockets : sock[s] = NoSocket
  BY DEF SockType, NoSocket
<1>2. EntriesInv
  BY DEF EntriesInv
<1>3. HoldersInv
  BY <1>1 DEF HoldersInv, NoSocket
<1>4. FiledInv
  BY DEF FiledInv
<1>5. AgeInv
  BY <1>1 DEF AgeInv, NoSocket
<1>6. RightServer
  BY <1>1 DEF RightServer, NoSocket
<1>7. QED
  BY <1>1, <1>2, <1>3, <1>4, <1>5, <1>6 DEF EbpfInv

\* A dial.
LEMMA DialKeeps ==
  ASSUME EbpfInv, NEW s \in Sockets, NEW d \in Dsts, NEW p \in Ports, connect4(s, d, p)
  PROVE  EbpfInv'
<1>1. PICK via \in IF is_bypassed(d) THEN {"wire"} ELSE {"hodor", "wire"} :
         /\ ORIG_DST' = IF via = "hodor" THEN Insert(ORIG_DST, s, d) ELSE ORIG_DST
         /\ sock' = [sock EXCEPT ![s] = [at |-> "dialed", dst |-> d, port |-> p, via |-> via, server |-> 0]]
  BY DEF connect4
<1>2. /\ Tcp(s) => sock[s].at = "new"
      /\ p \in FreePorts(s) /\ FLOW' = FLOW /\ CONFIG' = CONFIG
  BY DEF connect4, Tcp
<1>3. via \in {"hodor", "wire"} /\ (via = "hodor" => ~is_bypassed(d))
  BY <1>1
<1>4. sock \in [Sockets -> SockType] /\ Explicit \subseteq CONFIG
  BY DEF EbpfInv
<1>5. /\ sock' \in [Sockets -> SockType] /\ \A u \in Sockets : u # s => sock'[u] = sock[u]
      /\ sock'[s].at = "dialed" /\ sock'[s].dst = d /\ sock'[s].port = p /\ sock'[s].via = via /\ sock'[s].server = 0
  BY <1>1, <1>3, <1>4 DEF SockType
<1>6. p # 0 /\ \A u \in Sockets : u # s /\ Proto[u] = Proto[s] => sock[u].port # p
  BY <1>2, PortsAssumption DEF FreePorts
<1>7. /\ ORIG_DST \in Seq(Sockets \X Dsts)
      /\ \A i \in DOMAIN ORIG_DST : Tcp(ORIG_DST[i][1]) =>
           ORIG_DST[i][2] = sock[ORIG_DST[i][1]].dst /\ sock[ORIG_DST[i][1]].at # "new"
  BY DEF EbpfInv, EntriesInv
<1>8. /\ ORIG_DST' \in Seq(Sockets \X Dsts)
      /\ \A i \in DOMAIN ORIG_DST' : ORIG_DST'[i] = <<s, d>> \/ \E j \in DOMAIN ORIG_DST : ORIG_DST'[i] = ORIG_DST[j]
      /\ \A u \in Sockets, t \in Sockets : u # s /\ t # s /\ Precedes(ORIG_DST, t, u) => Precedes(ORIG_DST', t, u)
      /\ via = "hodor" => \A t \in Sockets : t # s => Precedes(ORIG_DST', t, s)
  <2>1. CASE via = "hodor"
    <3>1. ORIG_DST' = Insert(ORIG_DST, s, d)
      BY <1>1, <2>1
    <3>2. QED
      BY <1>7, <3>1, InsertIs
  <2>2. CASE via # "hodor"
    BY <1>1, <1>7, <2>2
  <2>3. QED
    BY <2>1, <2>2
<1>9. EntriesInv'
  <2>1. ASSUME NEW i \in DOMAIN ORIG_DST', Tcp(ORIG_DST'[i][1])
        PROVE  ORIG_DST'[i][2] = sock'[ORIG_DST'[i][1]].dst /\ sock'[ORIG_DST'[i][1]].at # "new"
    <3>1. CASE ORIG_DST'[i] = <<s, d>>
      BY <1>5, <3>1
    <3>2. CASE \E j \in DOMAIN ORIG_DST : ORIG_DST'[i] = ORIG_DST[j]
      <4>1. PICK j \in DOMAIN ORIG_DST : ORIG_DST'[i] = ORIG_DST[j]
        BY <3>2
      <4>2. ORIG_DST[j][1] # s /\ ORIG_DST[j][1] \in Sockets
        BY <1>2, <1>7, <2>1, <4>1
      <4>3. QED
        BY <1>5, <1>7, <2>1, <4>1, <4>2
    <3>3. QED
      BY <1>8, <3>1, <3>2
  <2>2. QED
    BY <1>8, <2>1 DEF EntriesInv, Tcp
<1>10. HoldersInv'
  BY <1>5, <1>6 DEF EbpfInv, HoldersInv
<1>11. FiledInv'
  BY <1>2, <1>5 DEF EbpfInv, FiledInv, Tcp
<1>12. AgeInv'
  <2>1. ASSUME NEW u \in Sockets, Tcp(u), sock'[u].at \in {"dialed", "sent"}, sock'[u].via = "hodor",
               FLOW[sock'[u].port] \notin {u, "none"}, Tcp(FLOW[sock'[u].port])
        PROVE  IF sock'[u].at = "dialed" THEN Precedes(ORIG_DST', FLOW[sock'[u].port], u)
               ELSE \A i \in DOMAIN ORIG_DST' : ORIG_DST'[i][1] # FLOW[sock'[u].port]
    <3>1. sock'[u].port \in Ports /\ FLOW[sock'[u].port] \in Sockets
      BY <1>10, <2>1, <1>2 DEF HoldersInv, EbpfInv, FiledInv
    <3>2. FLOW[sock'[u].port] # s
      BY <1>2, <2>1, <3>1 DEF EbpfInv, FiledInv
    <3>3. CASE u = s
      BY <1>5, <1>8, <2>1, <3>1, <3>2, <3>3
    <3>4. CASE u # s
      <4>1. sock'[u] = sock[u]
        BY <1>5, <3>4
      <4>2. IF sock[u].at = "dialed" THEN Precedes(ORIG_DST, FLOW[sock[u].port], u)
            ELSE \A i \in DOMAIN ORIG_DST : ORIG_DST[i][1] # FLOW[sock[u].port]
        BY <2>1, <4>1 DEF EbpfInv, AgeInv
      <4>3. CASE sock[u].at = "dialed"
        BY <1>8, <3>1, <3>2, <3>4, <4>1, <4>2, <4>3
      <4>4. CASE sock[u].at # "dialed"
        <5>1. \A i \in DOMAIN ORIG_DST' : ORIG_DST'[i][1] # FLOW[sock[u].port]
          BY <1>8, <3>2, <4>1, <4>2, <4>4
        <5>2. QED
          BY <4>1, <4>4, <5>1
      <4>5. QED
        BY <4>3, <4>4
    <3>5. QED
      BY <3>3, <3>4
  <2>2. QED
    BY <1>2, <2>1 DEF AgeInv, Tcp
<1>13. RightServer'
  <2>1. ASSUME NEW u \in Sockets
        PROVE  /\ Proto[u] = "tcp" => sock'[u].server \in {0, sock'[u].dst}
               /\ sock'[u].via = "hodor" => \A c \in Explicit : sock'[u].dst \notin Covers[c]
    <3>1. CASE u = s
      BY <1>3, <1>4, <1>5, <3>1 DEF is_bypassed
    <3>2. CASE u # s
      BY <1>5, <3>2 DEF EbpfInv, RightServer
    <3>3. QED
      BY <3>1, <3>2
  <2>2. QED
    BY <2>1 DEF RightServer
<1>14. QED
  BY <1>2, <1>4, <1>5, <1>9, <1>10, <1>11, <1>12, <1>13 DEF EbpfInv

\* The first packet of a dial: the cookie is filed under its port, and its entry refreshed.
LEMMA EgressKeeps ==
  ASSUME EbpfInv, NEW s \in Sockets, capture_egress(s)
  PROVE  EbpfInv'
<1>1. sock[s].at = "dialed" /\ sock' = [sock EXCEPT ![s].at = "sent"] /\ CONFIG' = CONFIG
  BY DEF capture_egress
<1>2. sock \in [Sockets -> SockType] /\ Explicit \subseteq CONFIG
  BY DEF EbpfInv
<1>3. /\ sock' \in [Sockets -> SockType] /\ \A u \in Sockets : u # s => sock'[u] = sock[u]
      /\ sock'[s].at = "sent" /\ sock'[s].dst = sock[s].dst /\ sock'[s].port = sock[s].port
      /\ sock'[s].via = sock[s].via /\ sock'[s].server = sock[s].server
  BY <1>1, <1>2 DEF SockType
<1>4. sock[s].port \in Ports /\ sock[s].port # 0
  BY <1>1, PortsAssumption DEF EbpfInv, HoldersInv
<1>5. /\ ORIG_DST \in Seq(Sockets \X Dsts)
      /\ \A i \in DOMAIN ORIG_DST : Tcp(ORIG_DST[i][1]) =>
           ORIG_DST[i][2] = sock[ORIG_DST[i][1]].dst /\ sock[ORIG_DST[i][1]].at # "new"
  BY DEF EbpfInv, EntriesInv
<1>6. FLOW \in [Ports -> Sockets \cup {"none"}]
  BY DEF EbpfInv, FiledInv
<1>7. HoldersInv'
  BY <1>1, <1>3 DEF EbpfInv, HoldersInv
<1>8. RightServer'
  BY <1>3 DEF EbpfInv, RightServer
<1>9. CASE Recorded(s) = {}
  <2>1. FLOW' = FLOW /\ ORIG_DST' = ORIG_DST
    BY <1>9 DEF capture_egress
  <2>2. EntriesInv'
    BY <1>3, <1>5, <2>1 DEF EntriesInv, Tcp
  <2>3. FiledInv'
    BY <1>3, <1>6, <2>1 DEF EbpfInv, FiledInv, Tcp
  <2>4. AgeInv'
    <3>1. ASSUME NEW u \in Sockets, Tcp(u), sock'[u].at \in {"dialed", "sent"}, sock'[u].via = "hodor",
                 FLOW[sock'[u].port] \notin {u, "none"}, Tcp(FLOW[sock'[u].port])
          PROVE  IF sock'[u].at = "dialed" THEN Precedes(ORIG_DST, FLOW[sock'[u].port], u)
                 ELSE \A i \in DOMAIN ORIG_DST : ORIG_DST[i][1] # FLOW[sock'[u].port]
      <4>1. CASE u # s
        BY <1>3, <3>1, <4>1 DEF EbpfInv, AgeInv
      <4>2. CASE u = s
        <5>1. Precedes(ORIG_DST, FLOW[sock[s].port], s)
          BY <1>1, <1>3, <3>1, <4>2 DEF EbpfInv, AgeInv
        <5>2. \A i \in DOMAIN ORIG_DST : ORIG_DST[i][1] # s
          BY <1>9 DEF Recorded
        <5>3. \A i \in DOMAIN ORIG_DST : ORIG_DST[i][1] # FLOW[sock[s].port]
          BY <5>1, <5>2 DEF Precedes
        <5>4. QED
          BY <1>3, <4>2, <5>3
      <4>3. QED
        BY <4>1, <4>2
    <3>2. QED
      BY <2>1, <3>1 DEF AgeInv, Tcp
  <2>5. QED
    BY <1>1, <1>2, <1>3, <1>7, <1>8, <2>2, <2>3, <2>4 DEF EbpfInv
<1>10. CASE Recorded(s) # {}
  <2>1. PICK d \in Recorded(s) : ORIG_DST' = Insert(ORIG_DST, s, d)
    BY <1>10 DEF capture_egress
  <2>2. FLOW' = [FLOW EXCEPT ![sock[s].port] = s]
    BY <1>10 DEF capture_egress
  <2>3. PICK k \in DOMAIN ORIG_DST : ORIG_DST[k][1] = s /\ ORIG_DST[k][2] = d
    BY <2>1 DEF Recorded
  <2>4. d \in Dsts /\ (Tcp(s) => d = sock[s].dst)
    BY <1>5, <2>3
  <2>5. /\ ORIG_DST' \in Seq(Sockets \X Dsts)
        /\ \A i \in DOMAIN ORIG_DST' : ORIG_DST'[i] = <<s, d>> \/ \E j \in DOMAIN ORIG_DST : ORIG_DST'[i] = ORIG_DST[j]
        /\ \A u \in Sockets, t \in Sockets : u # s /\ t # s /\ Precedes(ORIG_DST, t, u) => Precedes(ORIG_DST', t, u)
    BY <1>5, <2>1, <2>4, InsertIs
  <2>6. /\ FLOW' \in [Ports -> Sockets \cup {"none"}] /\ FLOW'[sock[s].port] = s
        /\ \A p \in Ports : p # sock[s].port => FLOW'[p] = FLOW[p]
    BY <1>4, <1>6, <2>2
  <2>7. EntriesInv'
    <3>1. ASSUME NEW i \in DOMAIN ORIG_DST', Tcp(ORIG_DST'[i][1])
          PROVE  ORIG_DST'[i][2] = sock'[ORIG_DST'[i][1]].dst /\ sock'[ORIG_DST'[i][1]].at # "new"
      <4>1. CASE ORIG_DST'[i] = <<s, d>>
        BY <1>3, <2>4, <3>1, <4>1
      <4>2. CASE \E j \in DOMAIN ORIG_DST : ORIG_DST'[i] = ORIG_DST[j]
        <5>1. PICK j \in DOMAIN ORIG_DST : ORIG_DST'[i] = ORIG_DST[j]
          BY <4>2
        <5>2. ORIG_DST[j][1] \in Sockets
          BY <1>5
        <5>3. QED
          BY <1>3, <1>5, <3>1, <5>1, <5>2, SMTT(30)
      <4>3. QED
        BY <2>5, <4>1, <4>2
    <3>2. QED
      BY <2>5, <3>1 DEF EntriesInv, Tcp
  <2>8. FiledInv'
    <3>1. ASSUME NEW p \in Ports, FLOW'[p] # "none", Tcp(FLOW'[p]) PROVE sock'[FLOW'[p]].at \notin {"new", "dialed"}
      <4>1. CASE p = sock[s].port
        BY <1>3, <2>6, <4>1
      <4>2. CASE p # sock[s].port
        <5>1. FLOW'[p] = FLOW[p] /\ FLOW[p] \in Sockets
          BY <1>6, <2>6, <3>1, <4>2
        <5>2. QED
          BY <1>3, <3>1, <5>1 DEF EbpfInv, FiledInv
      <4>3. QED
        BY <4>1, <4>2
    <3>2. QED
      BY <2>6, <3>1 DEF FiledInv, Tcp
  <2>9. AgeInv'
    <3>1. ASSUME NEW u \in Sockets, Tcp(u), sock'[u].at \in {"dialed", "sent"}, sock'[u].via = "hodor",
                 FLOW'[sock'[u].port] \notin {u, "none"}, Tcp(FLOW'[sock'[u].port])
          PROVE  IF sock'[u].at = "dialed" THEN Precedes(ORIG_DST', FLOW'[sock'[u].port], u)
                 ELSE \A i \in DOMAIN ORIG_DST' : ORIG_DST'[i][1] # FLOW'[sock'[u].port]
      <4>1. u # s
        BY <1>3, <2>6, <3>1
      <4>2. sock'[u] = sock[u] /\ sock[u].port \in Ports
        BY <1>3, <3>1, <4>1 DEF EbpfInv, HoldersInv
      <4>3. sock[u].port # sock[s].port
        <5>1. CASE Tcp(s)
          BY <1>4, <3>1, <4>1, <5>1 DEF EbpfInv, HoldersInv, Tcp
        <5>2. CASE ~Tcp(s)
          BY <2>6, <3>1, <4>2, <5>2
        <5>3. QED
          BY <5>1, <5>2
      <4>4. FLOW'[sock[u].port] = FLOW[sock[u].port] /\ FLOW[sock[u].port] \in Sockets
        BY <1>6, <2>6, <3>1, <4>2, <4>3
      <4>5. FLOW[sock[u].port] # s
        BY <1>1, <3>1, <4>2, <4>4 DEF EbpfInv, FiledInv
      <4>6. IF sock[u].at = "dialed" THEN Precedes(ORIG_DST, FLOW[sock[u].port], u)
            ELSE \A i \in DOMAIN ORIG_DST : ORIG_DST[i][1] # FLOW[sock[u].port]
        BY <3>1, <4>2, <4>4 DEF EbpfInv, AgeInv
      <4>7. CASE sock[u].at = "dialed"
        BY <2>5, <4>1, <4>2, <4>4, <4>5, <4>6, <4>7
      <4>8. CASE sock[u].at # "dialed"
        <5>1. \A i \in DOMAIN ORIG_DST' : ORIG_DST'[i][1] # FLOW[sock[u].port]
          BY <2>5, <4>5, <4>6, <4>8
        <5>2. QED
          BY <4>2, <4>4, <4>8, <5>1
      <4>9. QED
        BY <4>7, <4>8
    <3>2. QED
      BY <3>1 DEF AgeInv, Tcp
  <2>10. QED
    BY <1>1, <1>2, <1>3, <1>7, <1>8, <2>7, <2>8, <2>9 DEF EbpfInv
<1>11. QED
  BY <1>9, <1>10

\* The listener's look-up: the filed cookie is the peer's own, or nothing is recorded for it.
LEMMA LookupRight ==
  ASSUME EbpfInv, NEW s \in Sockets, tcp_one(s)
  PROVE  original(sock[s].port, "tcp") \in {0, sock[s].dst}
<1>1. sock[s].at = "sent" /\ sock[s].via = "hodor" /\ Tcp(s)
  BY DEF tcp_one, Tcp
<1>2. sock[s].port \in Ports /\ FLOW \in [Ports -> Sockets \cup {"none"}]
  BY <1>1 DEF EbpfInv, HoldersInv, FiledInv
<1> DEFINE t == FLOW[sock[s].port]
<1>3. CASE t = "none" \/ ~Tcp(t)
  BY <1>3 DEF original, Tcp
<1>4. CASE t # "none" /\ t = s
  <2>1. Recorded(s) \subseteq {sock[s].dst}
    BY <1>1 DEF EbpfInv, EntriesInv, Recorded
  <2>2. Found(Recorded(s)) \in {0, sock[s].dst}
    BY <2>1 DEF Found
  <2>3. QED
    BY <1>1, <1>4, <2>2 DEF original, Tcp
<1>5. CASE t \notin {"none", s} /\ Tcp(t)
  <2>1. \A i \in DOMAIN ORIG_DST : ORIG_DST[i][1] # t
    BY <1>1, <1>5 DEF EbpfInv, AgeInv
  <2>2. Recorded(t) = {}
    BY <2>1 DEF Recorded
  <2>3. QED
    BY <1>5, <2>2 DEF original, Found, Tcp
<1>6. QED
  BY <1>3, <1>4, <1>5

\* The look-up, a datagram, a close.
LEMMA ServedKeeps ==
  ASSUME EbpfInv, NEW s \in Sockets, tcp_one(s) \/ udp_one(s) \/ Close(s)
  PROVE  EbpfInv'
<1>1. /\ sock[s].at \in {"sent", "served"} /\ CONFIG' = CONFIG /\ ORIG_DST' = ORIG_DST /\ FLOW' = FLOW
      /\ sock \in [Sockets -> SockType] /\ Explicit \subseteq CONFIG
  BY DEF tcp_one, udp_one, Close, EbpfInv
<1>2. /\ \A u \in Sockets : u # s => sock'[u] = sock[u]
      /\ sock'[s].at \in {"served", "closed"} /\ sock'[s].dst = sock[s].dst /\ sock'[s].via = sock[s].via
      /\ sock'[s].port = sock[s].port \/ (sock'[s].port = 0 /\ sock'[s].at = "closed")
      /\ sock'[s].server = sock[s].server \/ (tcp_one(s) /\ sock'[s].server = original(sock[s].port, "tcp"))
      /\ DOMAIN sock' = Sockets /\ DOMAIN sock'[s] = DOMAIN sock[s]
  <2>1. CASE tcp_one(s)
    BY <1>1, <2>1 DEF tcp_one, SockType
  <2>2. CASE udp_one(s)
    BY <1>1, <2>2 DEF udp_one, SockType
  <2>3. CASE Close(s)
    BY <1>1, <2>3 DEF Close, SockType
  <2>4. QED
    BY <2>1, <2>2, <2>3
<1>3. sock'[s].server \in {sock[s].server, 0, sock[s].dst} /\ (Tcp(s) => sock'[s].server \in {0, sock[s].dst})
  BY <1>2, LookupRight DEF EbpfInv, RightServer, Tcp
<1>4. sock' \in [Sockets -> SockType]
  <2>1. sock[s] \in SockType /\ sock'[s].server \in Dsts \cup {0}
    BY <1>1, <1>3 DEF SockType
  <2>2. CASE tcp_one(s)
    BY <1>1, <1>2, <2>1, <2>2 DEF tcp_one, SockType
  <2>3. CASE udp_one(s)
    BY <1>1, <2>3 DEF udp_one, SockType
  <2>4. CASE Close(s)
    BY <1>1, <2>4, ZenonT(30) DEF Close, SockType
  <2>5. QED
    BY <2>2, <2>3, <2>4
<1>5. EntriesInv'
  BY <1>1, <1>2 DEF EbpfInv, EntriesInv, Tcp
<1>6. HoldersInv'
  BY <1>1, <1>2 DEF EbpfInv, HoldersInv
<1>7. FiledInv'
  BY <1>1, <1>2 DEF EbpfInv, FiledInv, Tcp
<1>8. AgeInv'
  BY <1>1, <1>2 DEF EbpfInv, AgeInv, Tcp
<1>9. RightServer'
  BY <1>2, <1>3 DEF EbpfInv, RightServer, Tcp
<1>10. QED
  BY <1>1, <1>4, <1>5, <1>6, <1>7, <1>8, <1>9 DEF EbpfInv

\* The watcher only writes merged lists.
LEMMA EbpfKeeps ==
  ASSUME EbpfInv, EbpfNext \/ UNCHANGED ebpfVars
  PROVE  EbpfInv'
<1>1. CASE \E s \in Sockets, d \in Dsts, p \in Ports : connect4(s, d, p)
  BY <1>1, DialKeeps
<1>2. CASE \E s \in Sockets : capture_egress(s) \/ tcp_one(s) \/ udp_one(s) \/ Close(s)
  BY <1>2, EgressKeeps, ServedKeeps
<1>3. CASE (\E f \in Files : Rewrite(f)) \/ BypassPoll \/ BypassWriteFails \/ UNCHANGED ebpfVars
  <2>1. UNCHANGED <<sock, ORIG_DST, FLOW>> /\ CONFIG' \in {CONFIG, Merged}
    BY <1>3 DEF Rewrite, BypassPoll, BypassWriteFails, ebpfVars
  <2>2. Explicit \subseteq CONFIG'
    BY <2>1, ExplicitFirst DEF EbpfInv
  <2>3. EntriesInv' /\ HoldersInv' /\ FiledInv' /\ AgeInv' /\ RightServer'
    BY <2>1 DEF EbpfInv, EntriesInv, HoldersInv, FiledInv, AgeInv, RightServer
  <2>4. QED
    BY <2>1, <2>2, <2>3 DEF EbpfInv
<1>4. QED
  BY <1>1, <1>2, <1>3 DEF EbpfNext

-----------------------------------------------------------------------------
(* The sidecar's steps.                                                    *)

SideIs(s) == s = [at |-> s.at, binds |-> s.binds, seen |-> s.seen, desired |-> s.desired, left |-> s.left]

\* A sidecar that forwards nothing and has read nothing.
LEMMA IdleInv ==
  ASSUME rows \in SUBSET RowType, opened \in Nat, \A r \in rows : r.inode <= opened,
         \A q, r \in rows : q.inode = r.inode \/ (q.port = r.port /\ q.addr = r.addr) => q = r,
         NEW at \in {"off", "tcp", "dead"}, NEW binds, sidecar = Idle(at, binds), forwarders = [p \in FwdPorts |-> forwarders[p]]
  PROVE  FwdInv
<1>1. /\ sidecar.at = at /\ sidecar.seen = {}
      /\ sidecar = [at |-> sidecar.at, binds |-> sidecar.binds, seen |-> sidecar.seen,
                    desired |-> sidecar.desired, left |-> sidecar.left]
  BY DEF Idle
<1>2. RowsInv
  BY <1>1 DEF RowsInv
<1>3. QED
  BY <1>1, <1>2 DEF FwdInv

\* Listeners come and go.
LEMMA ListenersKeep ==
  ASSUME FwdInv, NEW p \in FwdPorts, NEW addr \in {"lo4", "lo6", "any"}, NEW owner \in {"agent", "hodor"}, Listen(p, addr, owner)
  PROVE  FwdInv'
<1> DEFINE new == [inode |-> opened + 1, port |-> p, addr |-> addr, owner |-> owner]
<1>1. /\ rows' = rows \cup {new} /\ opened' = opened + 1 /\ UNCHANGED <<sidecar, forwarders>>
      /\ \A r \in rows : r.port = p => r.addr # addr
  BY DEF Listen, Bound
<1>2. opened \in Nat /\ \A r \in rows \cup sidecar.seen : r \in RowType /\ r.inode <= opened
  BY DEF FwdInv, RowsInv
<1>3. new \in RowType /\ new.inode = opened + 1 /\ new.port = p /\ new.addr = addr
  BY <1>2 DEF RowType
<1> HIDE DEF new
<1>4. \A r \in rows \cup sidecar.seen : r.inode # new.inode /\ r.inode <= opened + 1
  BY <1>2, <1>3 DEF RowType
<1>5. RowsInv'
  <2>1. rows' \in SUBSET RowType /\ sidecar'.seen \in SUBSET RowType /\ opened' \in Nat
    BY <1>1, <1>2, <1>3 DEF FwdInv, RowsInv
  <2>2. \A r \in rows' \cup sidecar'.seen : r.inode <= opened'
    BY <1>1, <1>2, <1>3, <1>4
  <2>3. \A q, r \in rows' \cup sidecar'.seen : q.inode = r.inode => q = r
    BY <1>1, <1>4 DEF FwdInv, RowsInv
  <2>4. \A q, r \in rows' : q.port = r.port /\ q.addr = r.addr => q = r
    BY <1>1, <1>3 DEF FwdInv, RowsInv
  <2>5. QED
    BY <1>1, <2>1, <2>2, <2>3, <2>4 DEF FwdInv, RowsInv
<1>6. QED
  BY <1>1, <1>5 DEF FwdInv, Wanted

\* A listener ends, or an accept loop takes a step.
LEMMA FewerRows ==
  ASSUME FwdInv, rows' \subseteq rows, UNCHANGED <<sidecar, forwarders, opened>>
  PROVE  FwdInv'
<1>1. RowsInv'
  BY DEF FwdInv, RowsInv
<1>2. QED
  BY <1>1 DEF FwdInv, Wanted

\* The two tables, one after the other.
LEMMA TablesKeep ==
  ASSUME FwdInv, parse_tcp \/ parse_tcp6
  PROVE  FwdInv'
<1>1. UNCHANGED <<rows, opened, forwarders>>
  BY DEF parse_tcp, parse_tcp6, Sidecar, Quietly
<1>2. SideIs(sidecar) /\ RowsInv
  BY DEF FwdInv, SideIs
<1>3. CASE parse_tcp
  <2>1. sidecar' = [sidecar EXCEPT !.at = "tcp6", !.seen = Loopback("lo4")]
    BY <1>3 DEF parse_tcp, Sidecar
  <2>2. SideIs(sidecar') /\ sidecar'.at = "tcp6" /\ sidecar'.seen = Loopback("lo4")
    BY <1>2, <2>1 DEF SideIs
  <2>3. \A r \in sidecar'.seen : r \in rows /\ r.addr = "lo4"
    BY <2>2 DEF Loopback
  <2>4. RowsInv'
    BY <1>1, <1>2, <2>2, <2>3 DEF RowsInv
  <2>5. QED
    BY <1>1, <2>2, <2>4 DEF FwdInv, SideIs
<1>4. CASE parse_tcp6
  <2>1. sidecar.at = "tcp6" /\ sidecar' = [sidecar EXCEPT !.at = "attribute", !.seen = @ \cup Loopback("lo6")]
    BY <1>4 DEF parse_tcp6, Sidecar
  <2>2. SideIs(sidecar') /\ sidecar'.at = "attribute" /\ sidecar'.seen = sidecar.seen \cup Loopback("lo6")
    BY <1>2, <2>1 DEF SideIs
  <2>3. \A r \in sidecar'.seen : (r \in sidecar.seen /\ r.addr = "lo4") \/ (r \in rows /\ r.addr = "lo6")
    BY <1>2, <2>1, <2>2 DEF Loopback, RowsInv
  <2>4. RowsInv'
    <3>1. sidecar'.seen \subseteq rows \cup sidecar.seen
      BY <2>3
    <3>2. \A q, r \in sidecar'.seen : q.port = r.port /\ q.addr = r.addr => q = r
      BY <1>2, <2>3 DEF RowsInv
    <3>3. \A r \in sidecar'.seen : r.addr = "lo4" \/ r.addr = "lo6"
      BY <2>3
    <3>4. QED
      BY <1>1, <1>2, <2>2, <3>1, <3>2, <3>3 DEF RowsInv
  <2>5. QED
    BY <1>1, <2>2, <2>4 DEF FwdInv, SideIs
<1>5. QED
  BY <1>3, <1>4

\* A port is wanted for one listener, which is the agent's.
LEMMA DesiredKeeps ==
  ASSUME FwdInv, desired_listeners
  PROVE  FwdInv'
<1> DEFINE group(p) == {r \in sidecar.seen : r.port = p}
<1> DEFINE addrs(p) == {r.addr : r \in group(p)}
<1> DEFINE one(p) == Cardinality(addrs(p)) = 1 /\ attributable(CHOOSE r \in group(p) : TRUE)
<1> DEFINE want == [p \in FwdPorts |-> IF one(p) THEN (CHOOSE r \in group(p) : TRUE).addr ELSE "none"]
<1>1. UNCHANGED <<rows, opened, forwarders>> /\ sidecar' = [sidecar EXCEPT !.at = "reap", !.desired = want]
  BY DEF desired_listeners, Sidecar, Quietly
<1>2. SideIs(sidecar) /\ RowsInv
  BY DEF FwdInv, SideIs
<1> HIDE DEF want
<1>3. SideIs(sidecar') /\ sidecar'.at = "reap" /\ sidecar'.seen = sidecar.seen /\ sidecar'.desired = want
  BY <1>1, <1>2 DEF SideIs
<1>4. ASSUME NEW p \in FwdPorts, want[p] # "none"
      PROVE  \E r \in sidecar.seen : /\ r.port = p /\ r.addr = want[p] /\ r.owner = "agent"
                                     /\ \A q \in sidecar.seen : q.port = p => q = r
  <2> DEFINE r == CHOOSE x \in group(p) : TRUE
  <2>1. one(p) /\ want[p] = r.addr
    BY <1>4 DEF want
  <2>2. IsFiniteSet(addrs(p))
    <3>1. addrs(p) \in SUBSET ({"lo4"} \cup {"lo6"})
      BY <1>2 DEF RowsInv
    <3>2. IsFiniteSet({"lo4"})
      BY FS_Singleton
    <3>3. IsFiniteSet({"lo4"} \cup {"lo6"})
      BY <3>2, FS_AddElement
    <3>4. QED
      BY <3>1, <3>3, FS_Subset
  <2>3. PICK a : addrs(p) = {a}
    <3> HIDE DEF addrs, group
    <3>1. QED
      BY <2>1, <2>2, FS_Singleton
  <2>4. group(p) # {} /\ r \in group(p)
    BY <2>3
  <2>5. \A q \in group(p) : q = r
    <3>1. \A q \in group(p) : q.addr = a
      BY <2>3
    <3>2. QED
      BY <1>2, <2>4, <3>1 DEF RowsInv
  <2>6. r.owner = "agent"
    <3>1. PICK x \in rows : x.inode = r.inode /\ x.owner = "agent"
      BY <2>1 DEF attributable
    <3>2. x = r
      BY <1>2, <2>4, <3>1 DEF RowsInv
    <3>3. QED
      BY <3>1, <3>2
  <2>7. QED
    BY <2>1, <2>4, <2>5, <2>6
<1>5. RowsInv'
  BY <1>1, <1>2, <1>3 DEF RowsInv
<1>6. \A p \in FwdPorts : sidecar'.desired[p] # "none" => Wanted(p)'
  BY <1>3, <1>4 DEF Wanted
<1>7. QED
  BY <1>1, <1>3, <1>5, <1>6 DEF FwdInv, SideIs

\* reconcile, and the sleep.
LEMMA ReconcileKeeps ==
  ASSUME FwdInv, Reap \/ (\E p \in FwdPorts : Begin(p)) \/ Sleep
  PROVE  FwdInv'
<1>1. UNCHANGED <<rows, opened>> /\ SideIs(sidecar) /\ RowsInv /\ forwarders = [p \in FwdPorts |-> forwarders[p]]
  BY DEF Reap, Begin, Sleep, Sidecar, FwdInv, SideIs
<1>2. \A p \in FwdPorts : sidecar.desired[p] # "none" => Wanted(p)
  BY DEF Reap, Begin, Sleep, FwdInv
<1>3. CASE Reap
  <2>1. /\ forwarders' = [p \in FwdPorts |-> IF stale(p) THEN "none" ELSE forwarders[p]]
        /\ sidecar' = [sidecar EXCEPT !.at = "start", !.left = {p \in FwdPorts : sidecar.desired[p] # "none"}]
    BY <1>3 DEF Reap, Sidecar
  <2>2. /\ SideIs(sidecar') /\ sidecar'.at = "start" /\ sidecar'.seen = sidecar.seen
        /\ sidecar'.desired = sidecar.desired /\ sidecar'.left \subseteq FwdPorts
    BY <1>1, <2>1 DEF SideIs
  <2>3. \A p \in FwdPorts : forwarders'[p] \in {"none", sidecar'.desired[p]}
    BY <2>1, <2>2 DEF stale
  <2>4. RowsInv' /\ \A p \in FwdPorts : sidecar'.desired[p] # "none" => Wanted(p)'
    BY <1>1, <1>2, <2>2 DEF RowsInv, Wanted
  <2>5. forwarders' = [p \in FwdPorts |-> forwarders'[p]]
    BY <2>1
  <2>6. QED
    BY <2>2, <2>3, <2>4, <2>5 DEF FwdInv, SideIs
<1>4. ASSUME NEW p \in FwdPorts, Begin(p) PROVE FwdInv'
  <2>1. /\ sidecar.at = "start" /\ sidecar' = [sidecar EXCEPT !.left = @ \ {p}]
        /\ forwarders' = forwarders \/ forwarders' = [forwarders EXCEPT ![p] = sidecar.desired[p]]
    BY <1>4 DEF Begin, Sidecar, Quietly
  <2>2. sidecar.left \subseteq FwdPorts /\ \A k \in FwdPorts : forwarders[k] \in {"none", sidecar.desired[k]}
    BY <2>1 DEF FwdInv
  <2>3. /\ SideIs(sidecar') /\ sidecar'.at = "start" /\ sidecar'.seen = sidecar.seen
        /\ sidecar'.desired = sidecar.desired /\ sidecar'.left \subseteq FwdPorts
    BY <1>1, <2>1, <2>2 DEF SideIs
  <2>4. forwarders' = [k \in FwdPorts |-> forwarders'[k]] /\ \A k \in FwdPorts : forwarders'[k] \in {"none", sidecar.desired[k]}
    BY <1>1, <2>1, <2>2
  <2>5. RowsInv' /\ \A k \in FwdPorts : sidecar'.desired[k] # "none" => Wanted(k)'
    BY <1>1, <1>2, <2>3 DEF RowsInv, Wanted
  <2>6. QED
    BY <2>3, <2>4, <2>5 DEF FwdInv, SideIs
<1>5. CASE Sleep
  <2>1. sidecar.at = "start" /\ forwarders' = forwarders /\ sidecar' = [sidecar EXCEPT !.at = "tcp"]
    BY <1>5 DEF Sleep, Sidecar, Quietly
  <2>2. SideIs(sidecar') /\ sidecar'.at = "tcp" /\ sidecar'.seen = sidecar.seen
    BY <1>1, <2>1 DEF SideIs
  <2>3. RowsInv'
    BY <1>1, <2>1, <2>2 DEF RowsInv
  <2>4. QED
    BY <1>1, <2>1, <2>2, <2>3 DEF FwdInv, SideIs
<1>6. QED
  BY <1>3, <1>4, <1>5

\* Every step of the sidecar, the listeners and the accept loops.
LEMMA FwdKeeps ==
  ASSUME FwdInv, FwdNext \/ UNCHANGED fwdVars
  PROVE  FwdInv'
<1>1. CASE \E p \in FwdPorts : (\E addr \in {"lo4", "lo6", "any"} : Listen(p, addr, "agent")) \/ Listen(p, "lo4", "hodor")
  BY <1>1, ListenersKeep
<1>2. CASE \/ (\E r \in rows : Unlisten(r)) \/ (\E a \in acceptors : Accept(a) \/ RelayDone(a))
           \/ AcceptorsRun \/ UNCHANGED fwdVars
  <2>1. rows' \subseteq rows /\ UNCHANGED <<sidecar, forwarders, opened>>
    BY <1>2 DEF Unlisten, Accept, RelayDone, AcceptorsRun, Push, Aborted, Become, fwdVars
  <2>2. QED
    BY <2>1, FewerRows
<1>3. CASE bridge_addresses \/ bridge_missing \/ parse_fails
  <2>1. /\ UNCHANGED <<rows, opened>> /\ \E at \in {"tcp", "dead"} : \E binds : sidecar' = Idle(at, binds)
        /\ forwarders' = forwarders \/ forwarders' = Nothing
    BY <1>3 DEF bridge_addresses, bridge_missing, parse_fails, Sidecar, Quietly
  <2>2. forwarders' = [p \in FwdPorts |-> forwarders'[p]]
    BY <2>1 DEF FwdInv, Nothing
  <2>3. /\ rows' \in SUBSET RowType /\ opened' \in Nat /\ \A r \in rows' : r.inode <= opened'
        /\ \A q, r \in rows' : q.inode = r.inode \/ (q.port = r.port /\ q.addr = r.addr) => q = r
    BY <2>1 DEF FwdInv, RowsInv
  <2>4. PICK at \in {"tcp", "dead"} : \E binds : sidecar' = Idle(at, binds)
    BY <2>1
  <2>5. sidecar'.at = at /\ sidecar'.seen = {} /\ SideIs(sidecar')
    BY <2>4 DEF Idle, SideIs
  <2>6. RowsInv'
    BY <2>3, <2>5 DEF RowsInv
  <2>7. QED
    BY <2>2, <2>5, <2>6 DEF FwdInv, SideIs
<1>4. CASE parse_tcp \/ parse_tcp6
  BY <1>4, TablesKeep
<1>5. CASE desired_listeners
  BY <1>5, DesiredKeeps
<1>6. CASE Reap \/ (\E p \in FwdPorts : Begin(p)) \/ Sleep
  BY <1>6, ReconcileKeeps
<1>7. QED
  BY <1>1, <1>2, <1>3, <1>4, <1>5, <1>6 DEF FwdNext, SidecarPolls

\* The start, and a process that leaves "up".
LEMMA NewPlane ==
  /\ CaptureInit => EndsInv
  /\ NoPlane => EndsInv'
<1>1. ASSUME CaptureInit PROVE EndsInv
  <2>1. EbpfInv
    BY <1>1, NoSockets, ExplicitFirst DEF CaptureInit, EbpfInit
  <2>2. FwdInv
    BY <1>1, IdleInv DEF CaptureInit, FwdInit, Nothing
  <2>3. QED
    BY <2>1, <2>2 DEF EndsInv
<1>2. ASSUME NoPlane PROVE EndsInv'
  <2>1. /\ sock' = [s \in Sockets |-> NoSocket] /\ ORIG_DST' = <<>> /\ FLOW' = [p \in Ports |-> "none"]
        /\ CONFIG' = Merged
    BY <1>2 DEF NoPlane
  <2>2. sock' \in [Sockets -> SockType] /\ \A s \in Sockets : sock'[s] = NoSocket
    BY <2>1 DEF SockType, NoSocket
  <2>3. EbpfInv'
    <3>1. EntriesInv'
      BY <2>1 DEF EntriesInv
    <3>2. HoldersInv'
      BY <2>2 DEF HoldersInv, NoSocket
    <3>3. FiledInv'
      BY <2>1 DEF FiledInv
    <3>4. AgeInv'
      BY <2>2 DEF AgeInv, NoSocket
    <3>5. RightServer'
      BY <2>2 DEF RightServer, NoSocket
    <3>6. (Explicit \subseteq CONFIG)'
      BY <2>1, ExplicitFirst
    <3>7. QED
      BY <2>2, <3>1, <3>2, <3>3, <3>4, <3>5, <3>6 DEF EbpfInv
  <2>4. rows' = {} /\ opened' = 0 /\ sidecar' = Idle("off", {}) /\ forwarders' = [p \in FwdPorts |-> "none"]
    BY <1>2 DEF NoPlane, Nothing
  <2>5. sidecar'.at = "off" /\ sidecar'.seen = {} /\ SideIs(sidecar')
    BY <2>4 DEF Idle, SideIs
  <2>6. RowsInv'
    BY <2>4, <2>5 DEF RowsInv
  <2>7. FwdInv'
    BY <2>4, <2>5, <2>6 DEF FwdInv, SideIs
  <2>8. QED
    BY <2>3, <2>7 DEF EndsInv
<1>3. QED
  BY <1>1, <1>2

\* Each step of the composition.
LEMMA EndsKept ==
  ASSUME EndsInv, [CaptureNext]_captureVars
  PROVE  EndsInv'
<1>1. CASE NoPlane
  BY <1>1, NewPlane
<1>2. CASE (EbpfNext \/ UNCHANGED ebpfVars) /\ (FwdNext \/ UNCHANGED fwdVars)
  BY <1>2, EbpfKeeps, FwdKeeps DEF EndsInv
<1>3. CASE ProcessStep
  BY <1>1, <1>2, <1>3 DEF ProcessStep
<1>4. CASE TunTcp \/ TunUdp \/ EbpfStep \/ SidecarStep
  BY <1>2, <1>4 DEF TunTcp, TunUdp, EbpfStep, SidecarStep
<1>5. CASE UNCHANGED captureVars
  BY <1>2, <1>5 DEF captureVars, ebpfVars, fwdVars
<1>6. QED
  BY <1>3, <1>4, <1>5 DEF CaptureNext

(***************************************************************************)
(* For any sockets, ports, lists, listeners and numbers of them: a TCP     *)
(* connection that eBPF captured is served for the destination its client  *)
(* dialed or closed, whatever was evicted and whoever held its port before *)
(* (capture_egress, original, tcp_one); no destination the operator        *)
(* bypasses is captured; and the sidecar forwards only listeners it read   *)
(* that are the agent's, alone on their port (desired_listeners,           *)
(* reconcile).                                                             *)
(***************************************************************************)
THEOREM EndsRight == CaptureSpec => []RightEnds
<1>1. EndsInv => RightEnds
  <2>1. ASSUME EndsInv PROVE AgentsOnly
    <3>1. ASSUME sidecar.at = "start", NEW p \in FwdPorts, forwarders[p] # "none"
          PROVE  \E r \in sidecar.seen : /\ r.port = p /\ r.addr = forwarders[p] /\ r.owner = "agent"
                                         /\ \A q \in sidecar.seen : q.port = p => q = r
      <4>1. forwarders[p] = sidecar.desired[p]
        BY <2>1, <3>1 DEF EndsInv, FwdInv
      <4>2. Wanted(p)
        BY <2>1, <3>1, <4>1 DEF EndsInv, FwdInv
      <4>3. QED
        BY <4>1, <4>2 DEF Wanted
    <3>2. QED
      BY <3>1 DEF AgentsOnly
  <2>2. QED
    BY <2>1 DEF EndsInv, EbpfInv, RightEnds
<1>2. CaptureInit => EndsInv
  BY NewPlane
<1>3. EndsInv /\ [CaptureNext]_captureVars => EndsInv'
  BY EndsKept
<1>4. QED
  BY <1>1, <1>2, <1>3, PTL DEF CaptureSpec

(***************************************************************************)
(* The TUN loop.  The units of a direction are numbered, so a stretch of a *)
(* stream is a run of consecutive numbers, and what a direction holds is   *)
(* four runs one after the other: what its end has got, what waits there,  *)
(* the unit that did not fit, and what waits behind it.                    *)
(***************************************************************************)
Run(q, a) == \A i \in 1..Len(q) : q[i] = a + i

Flow(a, b, p, q, n, cap) ==
  /\ a \in Seq(Nat) /\ b \in Seq(Nat) /\ p \in Seq(Nat) /\ q \in Seq(Nat)
  /\ n \in Nat /\ Len(p) <= 1 /\ Len(b) <= cap
  /\ Run(a, 0) /\ Run(b, Len(a)) /\ Run(p, Len(a) + Len(b))
  /\ Run(q, Len(a) + Len(b) + Len(p))
  /\ Len(a) + Len(b) + Len(p) + Len(q) = n

TunSock == [st : {"none", "listen", "syn", "est", "cwait", "fwait", "last", "closed"},
            rx : Seq(Nat), tx : Seq(Nat), spawned : BOOLEAN, to_proxy : BOOLEAN,
            chan : Seq(Nat), back : Seq(Nat), read_pending : Seq(Nat), write_pending : Seq(Nat)]
TunEnd == [sent : Nat, fin : BOOLEAN, got : Seq(Nat), told : {"new", "open", "fin", "rst", "gone"},
           task : {"none", "run", "done", "failed"}, read : Seq(Nat), eof : BOOLEAN, wrote : Nat]

(* What the two ends have of the streams once the tracker has let go.      *)
Heard(chan, e) ==
  /\ Run(e.read, 0) /\ Run(chan, Len(e.read)) /\ Len(e.read) + Len(chan) <= e.sent
  /\ Run(e.got, 0) /\ Len(e.got) <= e.wrote

(* What the guest and the task have been told is true.                     *)
Honest(e) ==
  /\ e.told = "fin" => e.task = "done" /\ Len(e.got) = e.wrote
  /\ e.eof /\ e.told # "gone" => e.fin /\ Len(e.read) = e.sent

Streams(s, e) ==
  /\ Flow(e.read, s.chan, s.read_pending, s.rx, e.sent, CHANNEL_CAP)
  /\ Flow(e.got, s.tx, s.write_pending, Units(s.back), e.wrote, BufCap)

(* A tracked connection, in the middle of a turn as well as between them.  *)
Shut(s, e) ==
  /\ s.st \in {"cwait", "last"} => e.fin
  /\ ~s.to_proxy => s.rx = <<>> /\ s.read_pending = <<>> /\ e.fin
  /\ s.st \in {"fwait", "last"} => s.write_pending = <<>> /\ s.back = <<>> /\ e.task = "done"
  /\ s.st = "closed" => e.told = "gone" \/ (e.told = "fin" /\ e.task = "done")
TaskIs(s, e) ==
  /\ AbortLast(s.back) <=> e.task = "failed"
  /\ ~s.spawned => e.task = "none"
  /\ s.st \in {"listen", "syn"} => ~s.spawned
TrackedInv(s, e) == Streams(s, e) /\ Shut(s, e) /\ TaskIs(s, e)

(* One the tracker does not hold, or no longer.                            *)
DroppedInv(s, e) ==
  /\ s.rx = <<>> /\ s.tx = <<>> /\ s.back = <<>> /\ s.read_pending = <<>> /\ s.write_pending = <<>>
  /\ ~s.spawned /\ Heard(s.chan, e)
  /\ e.task = "run" => e.told = "gone"

ConnInv(s, e) ==
  /\ s \in TunSock /\ e \in TunEnd /\ Honest(e)
  /\ s.st # "none" => TrackedInv(s, e)
  /\ s.st = "none" => DroppedInv(s, e)

Fresh(s, e) == e.told = "new" => s = NoConn /\ e = NoEnds

Rested(s, e) == ConnInv(s, e) /\ Fresh(s, e) /\ s.st # "closed"

(* The inductive invariant of the TUN loop's TCP half.                     *)
TcpInv ==
  /\ socks \in [Conns -> TunSock] /\ ends \in [Conns -> TunEnd]
  /\ \A c \in Conns : Rested(socks[c], ends[c])

\* Stretches of a run are runs.
LEMMA RunSub ==
  ASSUME NEW q \in Seq(Nat), NEW a \in Nat, Run(q, a), NEW i \in Nat, NEW j \in Nat, i <= j, j <= Len(q)
  PROVE  /\ SubSeq(q, i + 1, j) \in Seq(Nat) /\ Len(SubSeq(q, i + 1, j)) = j - i
         /\ Run(SubSeq(q, i + 1, j), a + i)
<1>1. SubSeq(q, i + 1, j) \in Seq(Nat) /\ Len(SubSeq(q, i + 1, j)) = j - i
  OBVIOUS
<1>2. ASSUME NEW k \in 1..(j - i) PROVE SubSeq(q, i + 1, j)[k] = a + i + k
  <2>1. SubSeq(q, i + 1, j)[k] = q[i + k]
    OBVIOUS
  <2>2. i + k \in 1..Len(q)
    OBVIOUS
  <2>3. q[i + k] = a + (i + k)
    BY <2>2 DEF Run
  <2>4. QED
    BY <2>1, <2>3
<1>3. QED
  BY <1>1, <1>2 DEF Run

\* The beginning of a run is a run.
LEMMA RunHead ==
  ASSUME NEW q \in Seq(Nat), NEW a \in Nat, Run(q, a), NEW j \in Nat, j <= Len(q)
  PROVE  SubSeq(q, 1, j) \in Seq(Nat) /\ Len(SubSeq(q, 1, j)) = j /\ Run(SubSeq(q, 1, j), a)
<1>1. SubSeq(q, 1, j) \in Seq(Nat) /\ Len(SubSeq(q, 1, j)) = j
  OBVIOUS
<1>2. ASSUME NEW k \in 1..j PROVE SubSeq(q, 1, j)[k] = a + k
  <2>1. SubSeq(q, 1, j)[k] = q[k] /\ k \in 1..Len(q)
    OBVIOUS
  <2>2. QED
    BY <2>1 DEF Run
<1>3. QED
  BY <1>1, <1>2 DEF Run

\* Sums of lengths.
LEMMA FillSums ==
  ASSUME NEW la \in Nat, NEW lb \in Nat, NEW lq \in Nat, NEW n \in Nat, NEW k \in Nat, NEW o \in Nat,
         la + lb + lq = n
  PROVE  /\ la + lb + k = la + (lb + k) /\ k + o - k = o
         /\ la + lb + (k + o) = la + (lb + k) + o
         /\ la + (lb + k) + o + (lq - (k + o)) = n
OBVIOUS

\* A run after a run is a run.
LEMMA RunJoin ==
  ASSUME NEW q \in Seq(Nat), NEW r \in Seq(Nat), NEW a \in Nat, Run(q, a), Run(r, a + Len(q))
  PROVE  q \o r \in Seq(Nat) /\ Len(q \o r) = Len(q) + Len(r) /\ Run(q \o r, a)
<1>1. q \o r \in Seq(Nat) /\ Len(q \o r) = Len(q) + Len(r)
  OBVIOUS
<1>2. ASSUME NEW k \in 1..(Len(q) + Len(r)) PROVE (q \o r)[k] = a + k
  <2>1. CASE k <= Len(q)
    BY <2>1 DEF Run
  <2>2. CASE k > Len(q)
    <3>1. (q \o r)[k] = r[k - Len(q)] /\ k - Len(q) \in 1..Len(r)
      BY <2>2
    <3>2. r[k - Len(q)] = (a + Len(q)) + (k - Len(q))
      BY <3>1 DEF Run
    <3>3. QED
      BY <3>1, <3>2
  <2>3. QED
    BY <2>1, <2>2
<1>3. QED
  BY <1>1, <1>2 DEF Run

\* Nothing is a run, from anywhere.
LEMMA NoRun == <<>> \in Seq(Nat) /\ Len(<<>>) = 0 /\ \A a : Run(<<>>, a)
BY DEF Run

\* Moving what fits: Drain and Fill.
LEMMA FlowFills ==
  ASSUME NEW a, NEW b, NEW p, NEW q, NEW n, NEW cap \in Nat, Flow(a, b, p, q, n, cap), p = <<>>,
         NEW k \in Nat, NEW o \in Nat,
         \/ k = cap - Len(b) /\ k < Len(q) /\ o = 1
         \/ k = Len(q) /\ cap - Len(b) >= Len(q) /\ o = 0
  PROVE  Flow(a, b \o SubSeq(q, 1, k), SubSeq(q, k + 1, k + o), SubSeq(q, k + o + 1, Len(q)), n, cap)
<1> DEFINE la == Len(a)
           lb == Len(b)
           lq == Len(q)
<1>1. /\ a \in Seq(Nat) /\ b \in Seq(Nat) /\ q \in Seq(Nat) /\ n \in Nat
      /\ la \in Nat /\ lb \in Nat /\ lq \in Nat /\ lb <= cap
      /\ Run(a, 0) /\ Run(b, la) /\ Run(q, la + lb) /\ la + lb + lq = n
  BY DEF Flow
<1>2. k <= lq /\ k + o <= lq /\ lb + k <= cap /\ o <= 1 /\ k + o \in Nat /\ la + lb \in Nat /\ k <= k + o
  BY <1>1
<1>3. /\ SubSeq(q, 1, k) \in Seq(Nat) /\ Len(SubSeq(q, 1, k)) = k /\ Run(SubSeq(q, 1, k), la + lb)
  BY <1>1, <1>2, RunHead
<1>4. /\ SubSeq(q, k + 1, k + o) \in Seq(Nat) /\ Len(SubSeq(q, k + 1, k + o)) = k + o - k
      /\ Run(SubSeq(q, k + 1, k + o), la + lb + k)
  BY <1>1, <1>2, RunSub
<1>5. /\ SubSeq(q, (k + o) + 1, lq) \in Seq(Nat) /\ Len(SubSeq(q, (k + o) + 1, lq)) = lq - (k + o)
      /\ Run(SubSeq(q, (k + o) + 1, lq), la + lb + (k + o))
  <2> DEFINE m == k + o
             s == la + lb
  <2>1. m \in Nat /\ m <= lq /\ lq <= Len(q) /\ lq \in Nat /\ q \in Seq(Nat) /\ s \in Nat /\ Run(q, s)
    BY <1>1, <1>2
  <2> HIDE DEF m, s, lq
  <2>2. /\ SubSeq(q, m + 1, lq) \in Seq(Nat) /\ Len(SubSeq(q, m + 1, lq)) = lq - m
        /\ Run(SubSeq(q, m + 1, lq), s + m)
    BY <2>1, RunSub
  <2>3. QED
    BY <2>2 DEF m, s
<1>6. /\ b \o SubSeq(q, 1, k) \in Seq(Nat)
      /\ Len(b \o SubSeq(q, 1, k)) = lb + k /\ Run(b \o SubSeq(q, 1, k), la)
  <2>1. /\ b \o SubSeq(q, 1, k) \in Seq(Nat)
        /\ Len(b \o SubSeq(q, 1, k)) = lb + Len(SubSeq(q, 1, k)) /\ Run(b \o SubSeq(q, 1, k), la)
    BY <1>1, <1>3, RunJoin
  <2>2. QED
    BY <1>3, <2>1
<1>7. /\ la + lb + k = la + (lb + k) /\ k + o - k = o
      /\ la + lb + (k + o) = la + (lb + k) + o
      /\ la + (lb + k) + o + (lq - (k + o)) = n
  <2> HIDE DEF la, lb, lq
  <2>1. QED
    BY <1>1, FillSums
<1> DEFINE b1 == b \o SubSeq(q, 1, k)
           p1 == SubSeq(q, k + 1, k + o)
           q1 == SubSeq(q, (k + o) + 1, lq)
<1>8. /\ b1 \in Seq(Nat) /\ Len(b1) = lb + k /\ Run(b1, la)
      /\ p1 \in Seq(Nat) /\ Len(p1) = o /\ Run(p1, la + Len(b1))
      /\ q1 \in Seq(Nat) /\ Run(q1, la + Len(b1) + Len(p1)) /\ la + Len(b1) + Len(p1) + Len(q1) = n
  BY <1>4, <1>5, <1>6, <1>7, Zenon
<1>9. Len(p1) <= 1 /\ Len(b1) <= cap
  BY <1>2, <1>8
<1>10. Flow(a, b1, p1, q1, n, cap)
  BY <1>1, <1>8, <1>9, Zenon DEF Flow
<1>11. QED
  BY <1>10

\* The unit that did not fit goes: FinishPending and RetryPending.
LEMMA FlowRetries ==
  ASSUME NEW a, NEW b, NEW p, NEW q, NEW n, NEW cap \in Nat, Flow(a, b, p, q, n, cap), Len(b) < cap
  PROVE  Flow(a, b \o p, <<>>, q, n, cap)
<1>1. /\ a \in Seq(Nat) /\ b \in Seq(Nat) /\ p \in Seq(Nat) /\ q \in Seq(Nat) /\ n \in Nat
      /\ Len(a) \in Nat /\ Len(b) \in Nat /\ Len(p) \in Nat /\ Len(q) \in Nat /\ Len(p) <= 1
      /\ Run(a, 0) /\ Run(b, Len(a)) /\ Run(p, Len(a) + Len(b)) /\ Run(q, Len(a) + Len(b) + Len(p))
      /\ Len(a) + Len(b) + Len(p) + Len(q) = n
  BY DEF Flow
<1>2. b \o p \in Seq(Nat) /\ Len(b \o p) = Len(b) + Len(p) /\ Run(b \o p, Len(a))
  BY <1>1, RunJoin
<1>3. /\ Len(a) + Len(b) + Len(p) = Len(a) + Len(b \o p) + 0
      /\ Len(a) + Len(b \o p) + 0 + Len(q) = n
      /\ Len(b \o p) <= cap /\ 0 <= 1
  BY <1>1, <1>2
<1>4. Flow(a, b \o p, <<>>, q, n, cap)
  BY <1>1, <1>2, <1>3, NoRun, Zenon DEF Flow
<1>5. QED
  BY <1>4

\* The far end takes some of what waits for it: Poll and poll_read.
LEMMA FlowTakes ==
  ASSUME NEW a, NEW b, NEW p, NEW q, NEW n, NEW cap \in Nat, Flow(a, b, p, q, n, cap),
         NEW k \in Nat, k <= Len(b)
  PROVE  Flow(a \o SubSeq(b, 1, k), SubSeq(b, k + 1, Len(b)), p, q, n, cap)
<1> DEFINE la == Len(a)
           lb == Len(b)
           a1 == a \o SubSeq(b, 1, k)
           b1 == SubSeq(b, k + 1, lb)
<1>1. /\ a \in Seq(Nat) /\ b \in Seq(Nat) /\ p \in Seq(Nat) /\ q \in Seq(Nat) /\ n \in Nat
      /\ la \in Nat /\ lb \in Nat /\ Len(p) \in Nat /\ Len(q) \in Nat /\ Len(p) <= 1 /\ lb <= cap
      /\ Run(a, 0) /\ Run(b, la) /\ Run(p, la + lb) /\ Run(q, la + lb + Len(p))
      /\ la + lb + Len(p) + Len(q) = n
  BY DEF Flow
<1>3. /\ b1 \in Seq(Nat) /\ Len(b1) = lb - k /\ Run(b1, la + k)
  BY <1>1, RunSub, SMTT(30)
<1>4. 0 + la = la /\ 0 \in Nat
  BY <1>1
<1>5. SubSeq(b, 1, k) \in Seq(Nat) /\ Len(SubSeq(b, 1, k)) = k /\ Run(SubSeq(b, 1, k), la)
  BY <1>1, RunHead
<1>6. a1 \in Seq(Nat) /\ Len(a1) = la + Len(SubSeq(b, 1, k)) /\ Run(a1, 0)
  BY <1>1, <1>4, <1>5, RunJoin
<1>7. Len(a1) = la + k
  BY <1>5, <1>6
<1>8. /\ la + lb = Len(a1) + Len(b1) /\ Len(b1) <= cap /\ Len(a1) + Len(b1) + Len(p) + Len(q) = n
  <2>1. /\ la + lb = (la + k) + (lb - k) /\ lb - k <= cap
        /\ (la + k) + (lb - k) + Len(p) + Len(q) = n
    <3> DEFINE lp == Len(p)
               lq == Len(q)
    <3>1. la \in Nat /\ lb \in Nat /\ lp \in Nat /\ lq \in Nat /\ lb <= cap /\ la + lb + lp + lq = n /\ n \in Nat
      BY <1>1
    <3> HIDE DEF la, lb, lp, lq
    <3>2. /\ la + lb = (la + k) + (lb - k) /\ lb - k <= cap
          /\ (la + k) + (lb - k) + lp + lq = n
      BY <3>1
    <3>3. QED
      BY <3>2 DEF lp, lq
  <2>2. QED
    BY <1>3, <1>7, <2>1, Zenon
<1>9. Flow(a1, b1, p, q, n, cap)
  BY <1>1, <1>3, <1>6, <1>7, <1>8, Zenon DEF Flow
<1>10. QED
  BY <1>9

\* The near end sends the next unit: GuestData and poll_write.
LEMMA FlowGrows ==
  ASSUME NEW a, NEW b, NEW p, NEW q, NEW n, NEW cap \in Nat, Flow(a, b, p, q, n, cap)
  PROVE  Flow(a, b, p, Append(q, n + 1), n + 1, cap)
<1>1. /\ a \in Seq(Nat) /\ b \in Seq(Nat) /\ p \in Seq(Nat) /\ q \in Seq(Nat) /\ n \in Nat
      /\ Len(a) \in Nat /\ Len(b) \in Nat /\ Len(p) \in Nat /\ Len(q) \in Nat
      /\ Len(p) <= 1 /\ Len(b) <= cap
      /\ Run(a, 0) /\ Run(b, Len(a)) /\ Run(p, Len(a) + Len(b)) /\ Run(q, Len(a) + Len(b) + Len(p))
      /\ Len(a) + Len(b) + Len(p) + Len(q) = n
  BY DEF Flow
<1>2. Append(q, n + 1) \in Seq(Nat) /\ Len(Append(q, n + 1)) = Len(q) + 1
  BY <1>1
<1>3. Len(a) + Len(b) + Len(p) + (Len(q) + 1) = n + 1
  <2> DEFINE la == Len(a)
             lb == Len(b)
             lp == Len(p)
             lq == Len(q)
  <2>1. la \in Nat /\ lb \in Nat /\ lp \in Nat /\ lq \in Nat /\ la + lb + lp + lq = n
    BY <1>1
  <2> HIDE DEF la, lb, lp, lq
  <2>2. la + lb + lp + (lq + 1) = n + 1
    BY <2>1
  <2>3. QED
    BY <2>2 DEF la, lb, lp, lq
<1>4. Run(Append(q, n + 1), Len(a) + Len(b) + Len(p))
  <2>1. ASSUME NEW i \in 1..(Len(q) + 1) PROVE Append(q, n + 1)[i] = Len(a) + Len(b) + Len(p) + i
    <3>1. CASE i <= Len(q)
      BY <1>1, <3>1 DEF Run
    <3>2. CASE i = Len(q) + 1
      <4>1. Append(q, n + 1)[i] = n + 1
        BY <1>1, <3>2
      <4>2. Len(a) + Len(b) + Len(p) + (Len(q) + 1) = n + 1
        BY <1>3
      <4>3. QED
        BY <3>2, <4>1, <4>2, Zenon
    <3>3. QED
      BY <1>1, <3>1, <3>2
  <2>2. QED
    BY <1>2, <2>1 DEF Run
<1>5. n + 1 \in Nat /\ Len(a) + Len(b) + Len(p) + Len(Append(q, n + 1)) = n + 1
  BY <1>1, <1>2, <1>3
<1>6. QED
  BY <1>1, <1>2, <1>4, <1>5, Zenon DEF Flow

\* A direction that starts.
LEMMA FlowStarts ==
  ASSUME NEW cap \in Nat
  PROVE  Flow(<<>>, <<>>, <<>>, <<>>, 0, cap)
<1>1. 0 + 0 + 0 + 0 = 0 /\ 0 <= 1 /\ 0 <= cap /\ 0 \in Nat
  OBVIOUS
<1>2. QED
  BY <1>1, NoRun, Zenon DEF Flow

\* What the far end and its buffer hold is a beginning of the stream.
LEMMA FlowBegins ==
  ASSUME NEW a, NEW b, NEW p, NEW q, NEW n, NEW cap \in Nat, Flow(a, b, p, q, n, cap)
  PROVE  Run(a, 0) /\ Run(b, Len(a)) /\ Len(a) + Len(b) <= n /\ Len(a) <= n
BY DEF Flow

\* Only the empty sequence has no elements.
LEMMA EmptySeq ==
  ASSUME NEW q \in Seq(Nat)
  PROVE  Len(q) \in Nat /\ (q = <<>> <=> Len(q) = 0) /\ (q # <<>> <=> Len(q) > 0)
OBVIOUS

\* What has elements is not empty.
LEMMA LongNotEmpty == ASSUME NEW q, NEW m \in Nat, Len(q) = m, m > 0 PROVE q # <<>>
OBVIOUS

\* The length of a beginning.
LEMMA HeadLen ==
  ASSUME NEW q \in Seq(Nat), NEW j \in Nat, j <= Len(q)
  PROVE  SubSeq(q, 1, j) \in Seq(Nat) /\ Len(SubSeq(q, 1, j)) = j
OBVIOUS

\* The rest of a sequence ends as the sequence does.
LEMMA LastOfRest ==
  ASSUME NEW q \in Seq(Nat), NEW j \in Nat, j < Len(q)
  PROVE  /\ SubSeq(q, j + 1, Len(q)) # <<>>
         /\ SubSeq(q, j + 1, Len(q))[Len(SubSeq(q, j + 1, Len(q)))] = q[Len(q)]
<1>1. Len(SubSeq(q, j + 1, Len(q))) = Len(q) - j
  OBVIOUS
<1>2. Len(q) - j \in 1..(Len(q) - j) /\ j + (Len(q) - j) = Len(q) /\ Len(q) - j > 0
  OBVIOUS
<1>3. SubSeq(q, j + 1, Len(q))[Len(q) - j] = q[(j + 1) + (Len(q) - j) - 1]
  BY <1>2
<1>4. (j + 1) + (Len(q) - j) - 1 = Len(q)
  OBVIOUS
<1>5. SubSeq(q, j + 1, Len(q))[Len(SubSeq(q, j + 1, Len(q)))] = q[Len(q)]
  BY <1>1, <1>3, <1>4, Zenon
<1>6. SubSeq(q, j + 1, Len(q)) # <<>>
  BY <1>1, <1>2, LongNotEmpty
<1>7. QED
  BY <1>5, <1>6

\* The units of a channel of which the first are taken.
LEMMA UnitsRest ==
  ASSUME NEW back \in Seq(Nat), NEW j \in Nat, j <= Len(Units(back))
  PROVE  /\ SubSeq(back, j + 1, Len(back)) \in Seq(Nat) /\ Units(back) \in Seq(Nat)
         /\ Units(SubSeq(back, j + 1, Len(back))) = SubSeq(Units(back), j + 1, Len(Units(back)))
         /\ AbortLast(SubSeq(back, j + 1, Len(back))) \in BOOLEAN
         /\ AbortLast(back) => AbortLast(SubSeq(back, j + 1, Len(back)))
<1> DEFINE r == SubSeq(back, j + 1, Len(back))
<1>1. Len(back) \in Nat /\ j <= Len(back) /\ Units(back) \in Seq(Nat)
  BY DEF Units, AbortLast
<1>2. r \in Seq(Nat) /\ Len(r) = Len(back) - j
  BY <1>1
<1>3. CASE AbortLast(back)
  <2>1. Units(back) = SubSeq(back, 1, Len(back) - 1) /\ back # <<>> /\ back[Len(back)] = Abort
    BY <1>3 DEF Units, AbortLast
  <2>2. Len(back) > 0 /\ Len(Units(back)) = Len(back) - 1 /\ j <= Len(back) - 1
    <3>1. Len(back) > 0
      BY <2>1, EmptySeq
    <3>2. Len(SubSeq(back, 1, Len(back) - 1)) = Len(back) - 1
      <4>1. Len(back) - 1 \in Nat /\ Len(back) - 1 <= Len(back)
        BY <1>1, <3>1
      <4>2. QED
        BY <4>1, HeadLen
    <3>3. QED
      BY <1>1, <2>1, <3>1, <3>2
  <2>3. r # <<>> /\ r[Len(r)] = back[Len(back)]
    <3>1. j < Len(back)
      BY <1>1, <2>2
    <3>2. QED
      BY <3>1, LastOfRest
  <2>4. AbortLast(r)
    BY <2>1, <2>3 DEF AbortLast
  <2>5. Units(r) = SubSeq(r, 1, Len(r) - 1)
    BY <2>4 DEF Units
  <2>6. SubSeq(r, 1, Len(r) - 1) = SubSeq(SubSeq(back, 1, Len(back) - 1), j + 1, Len(back) - 1)
    BY <1>1, <1>2, <2>2
  <2>7. QED
    BY <1>1, <1>2, <2>1, <2>2, <2>4, <2>5, <2>6
<1>4. CASE ~AbortLast(back)
  <2>1. Units(back) = back
    BY <1>4 DEF Units
  <2>2. CASE r = <<>>
    BY <1>1, <1>2, <1>4, <2>1, <2>2 DEF Units, AbortLast
  <2>3. CASE r # <<>>
    <3>1. Len(r) > 0 /\ back # <<>> /\ r[Len(r)] = back[Len(back)]
      <4>1. Len(r) > 0
        BY <1>2, <2>3, EmptySeq
      <4>2. j < Len(back)
        BY <1>1, <1>2, <4>1
      <4>3. back # <<>>
        BY <1>1, <4>2, EmptySeq
      <4>4. QED
        BY <1>1, <4>1, <4>2, <4>3, LastOfRest
    <3>2. ~AbortLast(r)
      BY <1>4, <3>1 DEF AbortLast
    <3>3. Units(r) = r
      BY <3>2 DEF Units
    <3>4. QED
      <4>1. Units(r) = SubSeq(Units(back), j + 1, Len(Units(back)))
        BY <2>1, <3>3, Zenon
      <4>2. AbortLast(r) \in BOOLEAN
        BY DEF AbortLast
      <4>3. QED
        BY <1>1, <1>2, <1>4, <4>1, <4>2, Zenon
  <2>4. QED
    BY <2>2, <2>3
<1>5. QED
  BY <1>3, <1>4

\* A channel without Abort has none after some is taken.
LEMMA UnitsRestEnds ==
  ASSUME NEW back \in Seq(Nat), NEW j \in Nat, j <= Len(back), ~AbortLast(back)
  PROVE  ~AbortLast(SubSeq(back, j + 1, Len(back)))
<1> DEFINE r == SubSeq(back, j + 1, Len(back))
<1>1. SUFFICES ASSUME r # <<>> PROVE ~AbortLast(r)
  BY DEF AbortLast
<1>2. r \in Seq(Nat) /\ Len(r) = Len(back) - j
  OBVIOUS
<1>3. Len(r) > 0
  BY <1>1, <1>2, EmptySeq
<1>4. j < Len(back)
  BY <1>2, <1>3
<1>5. r[Len(r)] = back[Len(back)]
  BY <1>4, LastOfRest
<1>6. back # <<>>
  BY <1>4, EmptySeq
<1>7. QED
  BY <1>5, <1>6 DEF AbortLast

(* What a stage leaves alone.                                              *)
SameIn(t, s) ==
  /\ t.rx = s.rx /\ t.chan = s.chan /\ t.read_pending = s.read_pending /\ t.to_proxy = s.to_proxy
SameOut(t, s) == t.tx = s.tx /\ t.back = s.back /\ t.write_pending = s.write_pending
SameSt(t, s) == t.st = s.st /\ t.spawned = s.spawned
SameTo(t, s) == t.to_proxy = s.to_proxy
ChanIs(t, s, x, p) == t = [s EXCEPT !.chan = x, !.read_pending = p]
InIs(t, s, x, p, r) == t = [s EXCEPT !.chan = x, !.read_pending = p, !.rx = r]
TxIs(t, s, x, w) == t = [s EXCEPT !.tx = x, !.write_pending = w]
OutIs(t, s, x, w, b) == t = [s EXCEPT !.tx = x, !.write_pending = w, !.back = b]
StIs(t, s, v) == t = [s EXCEPT !.st = v]
ToIs(t, s) == t = [s EXCEPT !.to_proxy = FALSE]
SpawnIs(t, s) == t = [s EXCEPT !.spawned = TRUE]
AbortIs(t, s) == t = [s EXCEPT !.st = "closed", !.tx = <<>>]
SameSpawned(t, s) == t.spawned = s.spawned

\* A socket with other fields for the task's data.
LEMMA SockOut ==
  ASSUME NEW s \in TunSock, NEW x \in Seq(Nat), NEW w \in Seq(Nat), NEW b \in Seq(Nat),
         NEW t, OutIs(t, s, x, w, b)
  PROVE  /\ t \in TunSock /\ SameIn(t, s) /\ SameSt(t, s)
         /\ t.tx = x /\ t.write_pending = w /\ t.back = b
<1>1. t \in TunSock
  BY DEF OutIs, TunSock
<1>2. SameIn(t, s) /\ SameSt(t, s) /\ t.tx = x /\ t.write_pending = w /\ t.back = b
  BY DEF OutIs, TunSock, SameIn, SameSt
<1>3. QED
  BY <1>1, <1>2

\* The same without a change of the channel.
LEMMA SockTx ==
  ASSUME NEW s \in TunSock, NEW x \in Seq(Nat), NEW w \in Seq(Nat),
         NEW t, TxIs(t, s, x, w)
  PROVE  /\ t \in TunSock /\ SameIn(t, s) /\ SameSt(t, s)
         /\ t.tx = x /\ t.write_pending = w /\ t.back = s.back
<1>1. t \in TunSock
  BY DEF TxIs, TunSock
<1>2. SameIn(t, s) /\ SameSt(t, s) /\ t.tx = x /\ t.write_pending = w /\ t.back = s.back
  BY DEF TxIs, TunSock, SameIn, SameSt
<1>3. QED
  BY <1>1, <1>2

\* A socket with other fields for the guest's data.
LEMMA SockIn ==
  ASSUME NEW s \in TunSock, NEW x \in Seq(Nat), NEW p \in Seq(Nat), NEW r \in Seq(Nat),
         NEW t, InIs(t, s, x, p, r)
  PROVE  /\ t \in TunSock /\ SameOut(t, s) /\ SameSt(t, s) /\ SameTo(t, s)
         /\ t.chan = x /\ t.read_pending = p /\ t.rx = r
<1>1. t \in TunSock
  BY DEF InIs, TunSock
<1>2. SameOut(t, s) /\ SameSt(t, s) /\ SameTo(t, s) /\ t.chan = x /\ t.read_pending = p /\ t.rx = r
  BY DEF InIs, TunSock, SameOut, SameSt, SameTo
<1>3. QED
  BY <1>1, <1>2

\* The same without a change of the receive buffer.
LEMMA SockChan ==
  ASSUME NEW s \in TunSock, NEW x \in Seq(Nat), NEW p \in Seq(Nat),
         NEW t, ChanIs(t, s, x, p)
  PROVE  /\ t \in TunSock /\ SameOut(t, s) /\ SameSt(t, s) /\ SameTo(t, s)
         /\ t.chan = x /\ t.read_pending = p /\ t.rx = s.rx
<1>1. t \in TunSock
  BY DEF ChanIs, TunSock
<1>2. SameOut(t, s) /\ SameSt(t, s) /\ SameTo(t, s) /\ t.chan = x /\ t.read_pending = p /\ t.rx = s.rx
  BY DEF ChanIs, TunSock, SameOut, SameSt, SameTo
<1>3. QED
  BY <1>1, <1>2

\* A socket in another state.
LEMMA SockState ==
  ASSUME NEW s \in TunSock, NEW v \in {"none", "listen", "syn", "est", "cwait", "fwait", "last", "closed"},
         NEW t, StIs(t, s, v)
  PROVE  t \in TunSock /\ SameIn(t, s) /\ SameOut(t, s) /\ t.st = v /\ SameSpawned(t, s)
<1>1. t \in TunSock
  BY DEF TunSock, StIs
<1>2. SameIn(t, s) /\ SameOut(t, s) /\ t.st = v /\ SameSpawned(t, s)
  BY DEF TunSock, StIs, SameIn, SameOut, SameSpawned
<1>3. QED
  BY <1>1, <1>2

\* A socket whose sender to the task is dropped.
LEMMA SockTo ==
  ASSUME NEW s \in TunSock, NEW t, ToIs(t, s)
  PROVE  /\ t \in TunSock /\ SameOut(t, s) /\ SameSt(t, s) /\ ~t.to_proxy
         /\ t.rx = s.rx /\ t.chan = s.chan /\ t.read_pending = s.read_pending
<1>1. t \in TunSock
  BY DEF TunSock, ToIs
<1>2. SameOut(t, s) /\ SameSt(t, s) /\ ~t.to_proxy
  BY DEF TunSock, ToIs, SameOut, SameSt
<1>3. t.rx = s.rx /\ t.chan = s.chan /\ t.read_pending = s.read_pending
  BY DEF TunSock, ToIs
<1>4. QED
  BY <1>1, <1>2, <1>3

\* A socket that gets its task.
LEMMA SockSpawn ==
  ASSUME NEW s \in TunSock, NEW t, SpawnIs(t, s)
  PROVE  t \in TunSock /\ SameIn(t, s) /\ SameOut(t, s) /\ t.st = s.st /\ t.spawned
<1>1. t \in TunSock
  BY DEF TunSock, SpawnIs
<1>2. SameIn(t, s) /\ SameOut(t, s) /\ t.st = s.st /\ t.spawned
  BY DEF TunSock, SpawnIs, SameIn, SameOut
<1>3. QED
  BY <1>1, <1>2

\* A socket that is reset.
LEMMA SockAbort ==
  ASSUME NEW s \in TunSock, NEW t, AbortIs(t, s)
  PROVE  t \in TunSock /\ t.chan = s.chan /\ t.st = "closed"
<1>1. <<>> \in Seq(Nat)
  OBVIOUS
<1>2. t \in TunSock
  BY <1>1 DEF TunSock, AbortIs
<1>3. t.chan = s.chan /\ t.st = "closed"
  BY DEF TunSock, AbortIs
<1>4. QED
  BY <1>2, <1>3

\* A socket's fields are what they should be.
LEMMA SockFields ==
  ASSUME NEW s \in TunSock
  PROVE  /\ s.rx \in Seq(Nat) /\ s.tx \in Seq(Nat) /\ s.chan \in Seq(Nat) /\ s.back \in Seq(Nat)
         /\ s.read_pending \in Seq(Nat) /\ s.write_pending \in Seq(Nat)
         /\ s.spawned \in BOOLEAN /\ s.to_proxy \in BOOLEAN
         /\ s.st \in {"none", "listen", "syn", "est", "cwait", "fwait", "last", "closed"}
BY DEF TunSock

\* A stage that changes only the task's data keeps a tracked connection.
LEMMA OutStage ==
  ASSUME NEW s, NEW t, NEW e, TrackedInv(s, e), SameIn(t, s), SameSt(t, s),
         Flow(e.got, t.tx, t.write_pending, Units(t.back), e.wrote, BufCap),
         AbortLast(t.back) <=> AbortLast(s.back),
         s.st \in {"fwait", "last"} => t.write_pending = <<>> /\ t.back = <<>>
  PROVE  TrackedInv(t, e)
<1>1. Streams(t, e)
  BY DEF TrackedInv, Streams, SameIn
<1>2. Shut(t, e)
  BY Zenon DEF TrackedInv, Shut, SameIn, SameSt
<1>3. TaskIs(t, e)
  BY Zenon DEF TrackedInv, TaskIs, SameSt
<1>4. QED
  BY <1>1, <1>2, <1>3 DEF TrackedInv

\* A stage that changes only the guest's data keeps a tracked connection.
LEMMA InStage ==
  ASSUME NEW s, NEW t, NEW e, TrackedInv(s, e), SameOut(t, s), SameSt(t, s),
         Flow(e.read, t.chan, t.read_pending, t.rx, e.sent, CHANNEL_CAP),
         ~t.to_proxy => t.rx = <<>> /\ t.read_pending = <<>> /\ e.fin
  PROVE  TrackedInv(t, e)
<1>1. Streams(t, e)
  BY DEF TrackedInv, Streams, SameOut
<1>2. Shut(t, e)
  BY Zenon DEF TrackedInv, Shut, SameOut, SameSt
<1>3. TaskIs(t, e)
  BY Zenon DEF TrackedInv, TaskIs, SameOut, SameSt
<1>4. QED
  BY <1>1, <1>2, <1>3 DEF TrackedInv

\* The units in a channel, and where Abort is in it.
LEMMA Mail ==
  ASSUME NEW back \in Seq(Nat)
  PROVE  /\ Units(back) \in Seq(Nat) /\ Len(Units(back)) \in Nat /\ Len(Units(back)) <= Len(back)
         /\ AbortLast(back) <=> Len(Units(back)) < Len(back)
         /\ back = <<>> => Units(back) = <<>>
<1>1. CASE AbortLast(back)
  <2>1. Len(back) > 0 /\ Units(back) = SubSeq(back, 1, Len(back) - 1)
    BY <1>1, EmptySeq DEF AbortLast, Units
  <2>2. Len(back) - 1 \in Nat /\ Len(back) - 1 <= Len(back)
    BY <2>1
  <2>3. Units(back) \in Seq(Nat) /\ Len(Units(back)) = Len(back) - 1
    BY <2>1, <2>2, HeadLen
  <2>4. back # <<>>
    BY <1>1 DEF AbortLast
  <2>5. QED
    BY <1>1, <2>2, <2>3, <2>4
<1>2. CASE ~AbortLast(back)
  <2>1. Units(back) = back
    BY <1>2 DEF Units
  <2>2. QED
    BY <1>2, <2>1
<1>3. QED
  BY <1>1, <1>2

\* A tracked connection's room.
LEMMA RoomIs ==
  ASSUME NEW s \in TunSock, NEW e, TrackedInv(s, e)
  PROVE  /\ Room(s) \in Nat
         /\ s.st \in {"est", "cwait"} => Room(s) = BufCap - Len(s.tx)
         /\ s.st \notin {"est", "cwait"} => Room(s) = 0
         /\ Room(s) > 0 => Len(s.tx) < BufCap
<1>1. s.tx \in Seq(Nat) /\ Len(s.tx) \in Nat /\ Len(s.tx) <= BufCap /\ BufCap \in Nat
  BY BuffersAssumption, SockFields DEF TrackedInv, Streams, Flow
<1>2. BufCap - Len(s.tx) \in Nat
  BY <1>1
<1>3. CASE s.st \in {"est", "cwait"}
  BY <1>1, <1>2, <1>3 DEF Room
<1>4. CASE s.st \notin {"est", "cwait"}
  BY <1>1, <1>4 DEF Room
<1>5. QED
  BY <1>3, <1>4

\* Drain.
LEMMA DrainKeeps ==
  ASSUME NEW s \in TunSock, NEW e, TrackedInv(s, e), s.st \in {"est", "cwait", "fwait", "last"}
  PROVE  /\ Drain(s) \in TunSock /\ TrackedInv(Drain(s), e)
         /\ SameIn(Drain(s), s) /\ SameSt(Drain(s), s)
<1> DEFINE data == Units(s.back)
           fits == Room(s)
           k == IF fits < Len(data) THEN fits ELSE Len(data)
           o == IF fits < Len(data) THEN 1 ELSE 0
           x == s.tx \o SubSeq(data, 1, k)
           w == SubSeq(data, k + 1, k + o)
           b == SubSeq(s.back, k + o + 1, Len(s.back))
           t == [s EXCEPT !.tx = x, !.write_pending = w, !.back = b]
<1>1. CASE s.write_pending # <<>>
  BY <1>1 DEF Drain, SameIn, SameSt
<1>2. CASE s.write_pending = <<>>
  <2>1. /\ s.tx \in Seq(Nat) /\ s.back \in Seq(Nat) /\ data \in Seq(Nat) /\ Len(data) \in Nat
        /\ Len(data) <= Len(s.back)
    BY SockFields, Mail
  <2>2. fits \in Nat /\ BufCap \in Nat /\ Len(s.tx) \in Nat
    BY <2>1, RoomIs, BuffersAssumption
  <2>3. Flow(e.got, s.tx, <<>>, data, e.wrote, BufCap)
    BY <1>2 DEF TrackedInv, Streams
  <2>4. k \in Nat /\ o \in Nat /\ k + o <= Len(data) /\ o <= 1 /\ k + o \in Nat
    BY <2>1, <2>2
  <2>5. s.st \in {"fwait", "last"} => s.back = <<>> /\ data = <<>>
    BY <2>1, Mail DEF TrackedInv, Shut
  <2>6. \/ k = BufCap - Len(s.tx) /\ k < Len(data) /\ o = 1
        \/ k = Len(data) /\ BufCap - Len(s.tx) >= Len(data) /\ o = 0
    <3>1. CASE s.st \in {"est", "cwait"}
      <4>1. fits = BufCap - Len(s.tx)
        BY <3>1, RoomIs
      <4>2. CASE fits < Len(data)
        BY <4>1, <4>2
      <4>3. CASE ~(fits < Len(data))
        <5>1. k = Len(data) /\ o = 0
          BY <4>3
        <5>2. BufCap - Len(s.tx) >= Len(data)
          <6> HIDE DEF fits, data
          <6>1. QED
            BY <2>1, <2>2, <4>1, <4>3
        <5>3. QED
          BY <5>1, <5>2
      <4>4. QED
        BY <4>2, <4>3
    <3>2. CASE s.st \in {"fwait", "last"}
      <4>1. Len(data) = 0
        BY <2>5, <3>2
      <4>2. Len(s.tx) <= BufCap
        BY <2>3 DEF Flow
      <4>3. QED
        BY <2>2, <4>1, <4>2
    <3>3. QED
      BY <3>1, <3>2
  <2> HIDE DEF data, fits, k, o
  <2>7. Flow(e.got, x, w, SubSeq(data, k + o + 1, Len(data)), e.wrote, BufCap)
    BY <2>2, <2>3, <2>4, <2>6, FlowFills
  <2>8. x \in Seq(Nat) /\ w \in Seq(Nat)
    BY <2>7 DEF Flow
  <2>9. /\ b \in Seq(Nat) /\ Units(b) = SubSeq(data, k + o + 1, Len(data))
        /\ AbortLast(b) <=> AbortLast(s.back)
    <3> DEFINE m == k + o
    <3>1. m \in Nat /\ m <= Len(Units(s.back)) /\ m <= Len(s.back) /\ s.back \in Seq(Nat)
      BY <2>1, <2>4 DEF data
    <3> HIDE DEF m
    <3>2. /\ SubSeq(s.back, m + 1, Len(s.back)) \in Seq(Nat)
          /\ Units(SubSeq(s.back, m + 1, Len(s.back))) = SubSeq(Units(s.back), m + 1, Len(Units(s.back)))
          /\ AbortLast(s.back) => AbortLast(SubSeq(s.back, m + 1, Len(s.back)))
      BY <3>1, UnitsRest
    <3>3. ~AbortLast(s.back) => ~AbortLast(SubSeq(s.back, m + 1, Len(s.back)))
      BY <3>1, UnitsRestEnds
    <3>4. QED
      BY <3>2, <3>3 DEF m, data
  <2>10. s.st \in {"fwait", "last"} => w = <<>> /\ b = <<>>
    <3>1. ASSUME s.st \in {"fwait", "last"} PROVE w = <<>> /\ b = <<>>
      <4>1. s.back = <<>> /\ data = <<>>
        BY <2>5, <3>1
      <4>2. k = 0 /\ o = 0
        BY <2>4, <4>1
      <4>3. QED
        BY <4>1, <4>2
    <3>2. QED
      BY <3>1
  <2>11. Drain(s) = t
    <3>1. CASE fits < Len(data)
      <4>1. k = fits /\ o = 1 /\ fits + 1 = k + o
        BY <2>4, <3>1 DEF k, o
      <4>2. QED
        BY <1>2, <3>1, <4>1 DEF Drain, data, fits
    <3>2. CASE ~(fits < Len(data))
      <4>1. k = Len(data) /\ o = 0 /\ k + o = k
        BY <2>4, <3>2 DEF k, o
      <4>2. SubSeq(data, fits + 1, 0) = <<>> /\ SubSeq(data, k + 1, k + o) = <<>>
        BY <2>1, <2>2, <4>1
      <4>3. QED
        BY <1>2, <3>2, <4>1, <4>2 DEF Drain, data, fits
    <3>3. QED
      BY <3>1, <3>2
  <2>12. /\ t \in TunSock /\ SameIn(t, s) /\ SameSt(t, s)
         /\ t.tx = x /\ t.write_pending = w /\ t.back = b
    <3>1. OutIs(t, s, x, w, b)
      BY DEF OutIs
    <3> HIDE DEF x, w, b, t
    <3>2. x \in Seq(Nat) /\ w \in Seq(Nat) /\ b \in Seq(Nat)
      BY <2>8, <2>9
    <3>3. QED
      BY <3>1, <3>2, SockOut
  <2> HIDE DEF x, w, b, t
  <2>13. TrackedInv(t, e)
    BY <2>7, <2>9, <2>10, <2>12, OutStage
  <2>14. QED
    BY <2>11, <2>12, <2>13
<1>3. QED
  BY <1>1, <1>2

\* FinishPending.
LEMMA FinishKeeps ==
  ASSUME NEW s \in TunSock, NEW e, TrackedInv(s, e)
  PROVE  /\ FinishPending(s) \in TunSock /\ TrackedInv(FinishPending(s), e)
         /\ SameIn(FinishPending(s), s) /\ SameSt(FinishPending(s), s)
<1>1. CASE s.write_pending # <<>> /\ Room(s) > 0
  <2> DEFINE x == s.tx \o s.write_pending
             z == <<>>
             t == [s EXCEPT !.tx = x, !.write_pending = z]
  <2>1. FinishPending(s) = t
    BY <1>1 DEF FinishPending
  <2>2. Len(s.tx) < BufCap /\ BufCap \in Nat
    BY <1>1, RoomIs, BuffersAssumption
  <2>3. Flow(e.got, s.tx, s.write_pending, Units(s.back), e.wrote, BufCap)
    BY DEF TrackedInv, Streams
  <2>4. Flow(e.got, x, <<>>, Units(s.back), e.wrote, BufCap)
    BY <2>2, <2>3, FlowRetries
  <2>5. x \in Seq(Nat) /\ z \in Seq(Nat)
    BY <2>4 DEF Flow
  <2>6. TxIs(t, s, x, z)
    BY DEF TxIs
  <2> HIDE DEF t, x
  <2>7. /\ t \in TunSock /\ SameIn(t, s) /\ SameSt(t, s)
        /\ t.tx = x /\ t.write_pending = z /\ t.back = s.back
    <3> HIDE DEF z
    <3>1. QED
      BY <2>5, <2>6, SockTx
  <2>8. s.st \in {"fwait", "last"} => t.back = <<>>
    BY <2>7 DEF TrackedInv, Shut
  <2>9. TrackedInv(t, e)
    BY <2>4, <2>7, <2>8, OutStage
  <2>10. QED
    BY <2>1, <2>7, <2>9
<1>2. CASE ~(s.write_pending # <<>> /\ Room(s) > 0)
  BY <1>2 DEF FinishPending, SameIn, SameSt
<1>3. QED
  BY <1>1, <1>2

\* RetryPending.
LEMMA RetryKeeps ==
  ASSUME NEW s \in TunSock, NEW e, TrackedInv(s, e), s.to_proxy
  PROVE  /\ RetryPending(s) \in TunSock /\ TrackedInv(RetryPending(s), e)
         /\ SameSt(RetryPending(s), s) /\ RetryPending(s).to_proxy
<1>1. CASE s.read_pending # <<>> /\ Len(s.chan) < CHANNEL_CAP
  <2> DEFINE x == s.chan \o s.read_pending
             z == <<>>
             t == [s EXCEPT !.chan = x, !.read_pending = z]
  <2>1. RetryPending(s) = t
    BY <1>1 DEF RetryPending
  <2>2. CHANNEL_CAP \in Nat
    BY BuffersAssumption
  <2>3. Flow(e.read, s.chan, s.read_pending, s.rx, e.sent, CHANNEL_CAP)
    BY DEF TrackedInv, Streams
  <2>4. Flow(e.read, x, <<>>, s.rx, e.sent, CHANNEL_CAP)
    BY <1>1, <2>2, <2>3, FlowRetries
  <2>5. x \in Seq(Nat) /\ z \in Seq(Nat)
    BY <2>4 DEF Flow
  <2>6. ChanIs(t, s, x, z)
    BY DEF ChanIs
  <2> HIDE DEF t, x
  <2>7. /\ t \in TunSock /\ SameOut(t, s) /\ SameSt(t, s) /\ SameTo(t, s)
        /\ t.chan = x /\ t.read_pending = z /\ t.rx = s.rx
    <3> HIDE DEF z
    <3>1. QED
      BY <2>5, <2>6, SockChan
  <2>8. t.to_proxy
    BY <2>7, Zenon DEF SameTo
  <2>9. TrackedInv(t, e)
    BY <2>4, <2>7, <2>8, InStage
  <2>10. QED
    BY <2>1, <2>7, <2>8, <2>9
<1>2. CASE ~(s.read_pending # <<>> /\ Len(s.chan) < CHANNEL_CAP)
  BY <1>2 DEF RetryPending, SameSt
<1>3. QED
  BY <1>1, <1>2

\* Fill.
LEMMA FillKeeps ==
  ASSUME NEW s \in TunSock, NEW e, TrackedInv(s, e), s.to_proxy
  PROVE  /\ Fill(s) \in TunSock /\ TrackedInv(Fill(s), e)
         /\ SameSt(Fill(s), s) /\ Fill(s).to_proxy
<1> DEFINE fits == CHANNEL_CAP - Len(s.chan)
           k == IF fits < Len(s.rx) THEN fits ELSE Len(s.rx)
           o == IF fits < Len(s.rx) THEN 1 ELSE 0
           x == s.chan \o SubSeq(s.rx, 1, k)
           p == SubSeq(s.rx, k + 1, k + o)
           r == SubSeq(s.rx, k + o + 1, Len(s.rx))
           t == [s EXCEPT !.chan = x, !.read_pending = p, !.rx = r]
<1>1. CASE s.read_pending # <<>>
  BY <1>1 DEF Fill, SameSt
<1>2. CASE s.read_pending = <<>>
  <2>1. /\ s.chan \in Seq(Nat) /\ s.rx \in Seq(Nat) /\ Len(s.rx) \in Nat /\ Len(s.chan) \in Nat
        /\ CHANNEL_CAP \in Nat
    BY SockFields, BuffersAssumption
  <2>2. Flow(e.read, s.chan, <<>>, s.rx, e.sent, CHANNEL_CAP)
    BY <1>2 DEF TrackedInv, Streams
  <2>3. Len(s.chan) <= CHANNEL_CAP /\ fits \in Nat
    BY <2>1, <2>2 DEF Flow
  <2>4. /\ k \in Nat /\ o \in Nat
        /\ \/ k = CHANNEL_CAP - Len(s.chan) /\ k < Len(s.rx) /\ o = 1
           \/ k = Len(s.rx) /\ CHANNEL_CAP - Len(s.chan) >= Len(s.rx) /\ o = 0
    <3>1. CASE fits < Len(s.rx)
      BY <2>1, <2>3, <3>1
    <3>2. CASE ~(fits < Len(s.rx))
      <4>1. k = Len(s.rx) /\ o = 0
        BY <3>2
      <4>2. fits >= Len(s.rx)
        <5> HIDE DEF fits
        <5>1. QED
          BY <2>1, <2>3, <3>2
      <4>3. QED
        BY <2>1, <4>1, <4>2
    <3>3. QED
      BY <3>1, <3>2
  <2>5. Fill(s) = t
    BY <1>2 DEF Fill
  <2> HIDE DEF k, o
  <2>6. Flow(e.read, x, p, r, e.sent, CHANNEL_CAP)
    BY <2>1, <2>2, <2>4, FlowFills
  <2>7. x \in Seq(Nat) /\ p \in Seq(Nat) /\ r \in Seq(Nat)
    BY <2>6 DEF Flow
  <2>8. InIs(t, s, x, p, r)
    BY DEF InIs
  <2> HIDE DEF t, x, p, r
  <2>9. /\ t \in TunSock /\ SameOut(t, s) /\ SameSt(t, s) /\ SameTo(t, s)
        /\ t.chan = x /\ t.read_pending = p /\ t.rx = r
    BY <2>7, <2>8, SockIn
  <2>10. t.to_proxy
    BY <2>9, Zenon DEF SameTo
  <2>11. TrackedInv(t, e)
    BY <2>6, <2>9, <2>10, InStage
  <2>12. QED
    BY <2>5, <2>9, <2>10, <2>11
<1>3. QED
  BY <1>1, <1>2

\* Eof.
LEMMA EofKeeps ==
  ASSUME NEW s \in TunSock, NEW e, TrackedInv(s, e)
  PROVE  Eof(s) \in TunSock /\ TrackedInv(Eof(s), e) /\ SameSt(Eof(s), s)
<1>1. CASE s.st = "cwait" /\ s.read_pending = <<>> /\ ~CanRecv(s)
  <2> DEFINE t == [s EXCEPT !.to_proxy = FALSE]
  <2>1. Eof(s) = t
    BY <1>1 DEF Eof
  <2>2. /\ t \in TunSock /\ SameOut(t, s) /\ SameSt(t, s) /\ ~t.to_proxy
        /\ t.rx = s.rx /\ t.chan = s.chan /\ t.read_pending = s.read_pending
    <3>1. ToIs(t, s)
      BY DEF ToIs
    <3> HIDE DEF t
    <3>2. QED
      BY <3>1, SockTo
  <2> HIDE DEF t
  <2>3. t.rx = <<>> /\ t.read_pending = <<>>
    BY <1>1, <2>2 DEF CanRecv
  <2>4. e.fin
    BY <1>1, Zenon DEF TrackedInv, Shut
  <2>5. Flow(e.read, t.chan, t.read_pending, t.rx, e.sent, CHANNEL_CAP)
    BY <2>2 DEF TrackedInv, Streams
  <2>6. TrackedInv(t, e)
    BY <2>2, <2>3, <2>4, <2>5, InStage, Zenon
  <2>7. QED
    BY <2>1, <2>2, <2>6
<1>2. CASE ~(s.st = "cwait" /\ s.read_pending = <<>> /\ ~CanRecv(s))
  BY <1>2 DEF Eof, SameSt
<1>3. QED
  BY <1>1, <1>2

\* close() on a socket whose task is gone.
LEMMA ClosedKeeps ==
  ASSUME NEW s \in TunSock, NEW e, TrackedInv(s, e), s.st \in {"est", "cwait", "fwait", "last"}, s.spawned,
         e.task \in {"done", "failed"}, s.write_pending = <<>>, s.back = <<>>
  PROVE  /\ Closed(s) \in TunSock /\ TrackedInv(Closed(s), e)
         /\ Closed(s).st \in {"fwait", "last"} /\ Closed(s).spawned
<1> DEFINE v == CASE s.st = "est" -> "fwait" [] s.st = "cwait" -> "last" [] OTHER -> s.st
           t == [s EXCEPT !.st = v]
<1>1. e.task = "done"
  <2>1. ~AbortLast(s.back)
    BY DEF AbortLast
  <2>2. QED
    BY <2>1 DEF TrackedInv, TaskIs
<1>2. v \in {"fwait", "last"} /\ (v = "last" <=> s.st \in {"cwait", "last"})
  OBVIOUS
<1>3. Closed(s) = t
  BY DEF Closed
<1> HIDE DEF v
<1>4. t \in TunSock /\ SameIn(t, s) /\ SameOut(t, s) /\ t.st = v /\ SameSpawned(t, s)
  <2>1. StIs(t, s, v)
    BY DEF StIs
  <2>2. v \in {"none", "listen", "syn", "est", "cwait", "fwait", "last", "closed"}
    BY <1>2
  <2> HIDE DEF t
  <2>3. QED
    BY <2>1, <2>2, SockState
<1> HIDE DEF t
<1>5. Streams(t, e)
  BY <1>4 DEF TrackedInv, Streams, SameIn, SameOut
<1>6. Shut(t, e)
  <2>1. t.st \in {"cwait", "last"} => e.fin
    BY <1>2, <1>4, Zenon DEF TrackedInv, Shut
  <2>2. ~t.to_proxy => t.rx = <<>> /\ t.read_pending = <<>> /\ e.fin
    BY <1>4, Zenon DEF TrackedInv, Shut, SameIn
  <2>3. t.write_pending = <<>> /\ t.back = <<>> /\ t.st # "closed"
    BY <1>2, <1>4 DEF SameOut
  <2>4. QED
    BY <1>1, <2>1, <2>2, <2>3 DEF Shut
<1>7. TaskIs(t, e)
  <2>1. t.st \notin {"listen", "syn"} /\ t.back = s.back
    BY <1>2, <1>4 DEF SameOut
  <2>2. QED
    BY <1>4, <2>1, Zenon DEF TrackedInv, TaskIs, SameSpawned
<1>8. t.spawned
  BY <1>4, Zenon DEF SameSpawned
<1>9. QED
  BY <1>2, <1>3, <1>4, <1>5, <1>6, <1>7, <1>8 DEF TrackedInv

(* One connection's part of relay.                                         *)
Relayed(s, task) ==
  LET D == Drain(s)
      W == Sent(D, task)
  IN  IF ~(s.spawned /\ s.st # "closed") THEN s
      ELSE IF Reads(D, task) THEN Eof(Fill(RetryPending(W))) ELSE W

\* Abort is found only where it is the last of the channel, and its sender failed.
LEMMA AbortMeans ==
  ASSUME NEW s \in TunSock, NEW e, TrackedInv(s, e), Aborts(s)
  PROVE  e.task = "failed"
<1>1. s.back \in Seq(Nat) /\ s.back # <<>> /\ Head(s.back) = Abort
  BY SockFields DEF Aborts
<1>2. SUFFICES ASSUME ~AbortLast(s.back) PROVE FALSE
  BY DEF TrackedInv, TaskIs
<1>3. Units(s.back) = s.back /\ Len(s.back) > 0
  BY <1>1, <1>2, EmptySeq DEF Units
<1>4. PICK a \in Nat : Run(s.back, a)
  <2>1. Flow(e.got, s.tx, s.write_pending, s.back, e.wrote, BufCap)
    BY <1>3 DEF TrackedInv, Streams
  <2>2. /\ Run(s.back, Len(e.got) + Len(s.tx) + Len(s.write_pending))
        /\ e.got \in Seq(Nat) /\ s.tx \in Seq(Nat) /\ s.write_pending \in Seq(Nat)
    BY <2>1 DEF Flow
  <2>3. Len(e.got) + Len(s.tx) + Len(s.write_pending) \in Nat
    <3>1. Len(e.got) \in Nat /\ Len(s.tx) \in Nat /\ Len(s.write_pending) \in Nat
      BY <2>2, EmptySeq
    <3>2. \A i, j, k \in Nat : i + j + k \in Nat
      OBVIOUS
    <3>3. QED
      BY <3>1, <3>2
  <2>4. QED
    BY <2>2, <2>3
<1>5. s.back[1] = a + 1
  BY <1>1, <1>3, <1>4 DEF Run
<1>6. s.back[1] = 0
  BY <1>1 DEF Abort
<1>7. QED
  BY <1>5, <1>6

\* relay leaves a connection that has its task tracked as it should be, or resets it after
\* the task failed.
LEMMA RelayedKeeps ==
  ASSUME NEW s \in TunSock, NEW e, TrackedInv(s, e), s.spawned, s.st # "none", s.st # "closed"
  PROVE  LET r == Relayed(s, e.task)
         IN  /\ r \in TunSock
             /\ \/ TrackedInv(r, e) /\ r.spawned /\ r.st \notin {"none", "closed"}
                \/ r.st = "closed" /\ r.chan = s.chan /\ e.task = "failed"
<1> DEFINE D == Drain(s)
           W == FinishPending(D)
           r == Relayed(s, e.task)
<1>1. s.st \in {"est", "cwait", "fwait", "last"}
  <2>1. s.st \notin {"listen", "syn"}
    BY Zenon DEF TrackedInv, TaskIs
  <2>2. QED
    BY <2>1, SockFields
<1>2. D \in TunSock /\ TrackedInv(D, e) /\ SameIn(D, s) /\ SameSt(D, s)
  BY <1>1, DrainKeeps
<1> HIDE DEF D
<1>3. W \in TunSock /\ TrackedInv(W, e) /\ SameIn(W, D) /\ SameSt(W, D)
  BY <1>2, FinishKeeps
<1>4. /\ D.spawned /\ W.spawned
      /\ D.st = s.st /\ W.st = s.st /\ D.chan = s.chan
  <2>1. D.spawned /\ W.spawned
    BY <1>2, <1>3, Zenon DEF SameSt
  <2>2. QED
    BY <1>2, <1>3, <2>1 DEF SameSt, SameIn
<1>5. CASE Aborts(D)
  <2> DEFINE t == [D EXCEPT !.st = "closed", !.tx = <<>>]
  <2>1. r = t
    BY <1>5 DEF Relayed, Sent, Reads, D
  <2>2. AbortIs(t, D)
    BY DEF AbortIs
  <2> HIDE DEF t, r
  <2>3. t \in TunSock /\ t.chan = D.chan /\ t.st = "closed"
    BY <1>2, <2>2, SockAbort
  <2>4. e.task = "failed"
    BY <1>2, <1>5, AbortMeans
  <2>5. QED
    BY <1>4, <2>1, <2>3, <2>4 DEF r
<1>6. CASE ~Aborts(D) /\ TaskGone(D, e.task)
  <2>1. r = Closed(D)
    BY <1>6 DEF Relayed, Sent, Reads, D, W
  <2>2. D.write_pending = <<>> /\ D.back = <<>> /\ e.task \in {"done", "failed"}
    BY <1>6 DEF TaskGone
  <2>3. D.st \in {"est", "cwait", "fwait", "last"}
    BY <1>1, <1>4
  <2> HIDE DEF r
  <2>4. /\ Closed(D) \in TunSock /\ TrackedInv(Closed(D), e)
        /\ Closed(D).st \in {"fwait", "last"} /\ Closed(D).spawned
    BY <1>2, <1>4, <2>2, <2>3, ClosedKeeps
  <2>5. r \in TunSock /\ TrackedInv(r, e) /\ r.spawned /\ r.st \notin {"none", "closed"}
    BY <2>1, <2>4
  <2>6. QED
    BY <2>5 DEF r
<1>7. CASE ~Aborts(D) /\ ~TaskGone(D, e.task) /\ D.to_proxy
  <2> DEFINE R == RetryPending(W)
             F == Fill(R)
  <2>1. r = Eof(F)
    BY <1>7 DEF Relayed, Sent, Reads, D, W
  <2>2. W.to_proxy
    BY <1>3, <1>7, Zenon DEF SameIn
  <2> HIDE DEF W, r
  <2>3. R \in TunSock /\ TrackedInv(R, e) /\ SameSt(R, W) /\ R.to_proxy
    BY <1>3, <2>2, RetryKeeps
  <2> HIDE DEF R
  <2>4. F \in TunSock /\ TrackedInv(F, e) /\ SameSt(F, R) /\ F.to_proxy
    BY <2>3, FillKeeps
  <2> HIDE DEF F
  <2>5. Eof(F) \in TunSock /\ TrackedInv(Eof(F), e) /\ SameSt(Eof(F), F)
    BY <2>4, EofKeeps
  <2>6. Eof(F).spawned /\ Eof(F).st = s.st
    BY <1>4, <2>3, <2>4, <2>5, Zenon DEF SameSt
  <2>7. r \in TunSock /\ TrackedInv(r, e) /\ r.spawned /\ r.st \notin {"none", "closed"}
    BY <2>1, <2>5, <2>6
  <2>8. QED
    BY <2>7 DEF r
<1>8. CASE ~Aborts(D) /\ ~TaskGone(D, e.task) /\ ~D.to_proxy
  <2>1. r = W
    BY <1>8 DEF Relayed, Sent, Reads, D, W
  <2> HIDE DEF W, r
  <2>2. r \in TunSock /\ TrackedInv(r, e) /\ r.spawned /\ r.st \notin {"none", "closed"}
    BY <1>3, <1>4, <2>1
  <2>3. QED
    BY <2>2 DEF r
<1>9. QED
  BY <1>5, <1>6, <1>7, <1>8

(* The two ends, and what a step leaves alone of them.                     *)
SameHeard(f, e) == f.sent = e.sent /\ f.fin = e.fin /\ f.read = e.read /\ f.eof = e.eof
SameSaid(f, e) == f.got = e.got /\ f.wrote = e.wrote
EndTaskIs(f, e, v) == f = [e EXCEPT !.task = v]

\* An end's fields are what they should be.
LEMMA EndFields ==
  ASSUME NEW e \in TunEnd
  PROVE  /\ e.sent \in Nat /\ e.wrote \in Nat /\ e.got \in Seq(Nat) /\ e.read \in Seq(Nat)
         /\ e.fin \in BOOLEAN /\ e.eof \in BOOLEAN
         /\ e.told \in {"new", "open", "fin", "rst", "gone"} /\ e.task \in {"none", "run", "done", "failed"}
BY DEF TunEnd

\* A task that starts or ends.
LEMMA EndTask ==
  ASSUME NEW e \in TunEnd, NEW v \in {"none", "run", "done", "failed"}, NEW f, EndTaskIs(f, e, v)
  PROVE  f \in TunEnd /\ f.task = v /\ f.told = e.told /\ SameHeard(f, e) /\ SameSaid(f, e)
<1>1. f \in TunEnd
  BY DEF TunEnd, EndTaskIs
<1>2. f.task = v /\ f.told = e.told /\ SameHeard(f, e) /\ SameSaid(f, e)
  BY DEF TunEnd, EndTaskIs, SameHeard, SameSaid
<1>3. QED
  BY <1>1, <1>2

DroppedIs(t, chan) == t = [NoConn EXCEPT !.chan = chan, !.to_proxy = FALSE]

\* A connection the tracker drops.
LEMMA DroppedKeeps ==
  ASSUME NEW chan \in Seq(Nat), NEW e \in TunEnd, Honest(e), Heard(chan, e), e.task = "run" => e.told = "gone",
         NEW t, DroppedIs(t, chan)
  PROVE  ConnInv(t, e) /\ t.st = "none"
<1>1. <<>> \in Seq(Nat)
  OBVIOUS
<1>2. t \in TunSock
  BY <1>1 DEF DroppedIs, NoConn, TunSock
<1>3. /\ t.st = "none" /\ t.rx = <<>> /\ t.tx = <<>> /\ t.back = <<>> /\ t.read_pending = <<>>
      /\ t.write_pending = <<>> /\ t.chan = chan
  BY DEF DroppedIs, NoConn
<1>4. ~t.spawned
  BY DEF DroppedIs, NoConn
<1>5. QED
  BY <1>2, <1>3, <1>4 DEF ConnInv, DroppedInv

\* What the ends of a tracked connection have.
LEMMA TrackedHeard ==
  ASSUME NEW s, NEW e, TrackedInv(s, e)
  PROVE  Heard(s.chan, e)
<1>1. /\ Run(e.read, 0) /\ Run(s.chan, Len(e.read)) /\ Len(e.read) + Len(s.chan) <= e.sent
  BY FlowBegins, BuffersAssumption DEF TrackedInv, Streams
<1>2. Run(e.got, 0) /\ Len(e.got) <= e.wrote
  BY FlowBegins, BuffersAssumption DEF TrackedInv, Streams
<1>3. QED
  BY <1>1, <1>2 DEF Heard

\* take_new.
LEMMA SpawnKeeps ==
  ASSUME NEW s, NEW e, ConnInv(s, e), ~s.spawned, s.st \in {"est", "cwait"},
         NEW t, SpawnIs(t, s), NEW f, EndTaskIs(f, e, "run")
  PROVE  ConnInv(t, f)
<1>1. s \in TunSock /\ e \in TunEnd /\ Honest(e) /\ TrackedInv(s, e)
  BY DEF ConnInv
<1>2. t \in TunSock /\ SameIn(t, s) /\ SameOut(t, s) /\ t.st = s.st /\ t.spawned
  BY <1>1, SockSpawn
<1>3. f \in TunEnd /\ f.task = "run" /\ f.told = e.told /\ SameHeard(f, e) /\ SameSaid(f, e)
  BY <1>1, EndTask
<1>4. e.task = "none" /\ ~AbortLast(s.back)
  <2>1. e.task = "none"
    BY <1>1, Zenon DEF TrackedInv, TaskIs
  <2>2. QED
    BY <1>1, <2>1 DEF TrackedInv, TaskIs
<1>5. Streams(t, f)
  BY <1>1, <1>2, <1>3 DEF TrackedInv, Streams, SameIn, SameOut, SameHeard, SameSaid
<1>6. Shut(t, f)
  <2>1. t.st \in {"cwait", "last"} => f.fin
    BY <1>1, <1>2, <1>3, Zenon DEF TrackedInv, Shut, SameHeard
  <2>2. ~t.to_proxy => t.rx = <<>> /\ t.read_pending = <<>> /\ f.fin
    BY <1>1, <1>2, <1>3, Zenon DEF TrackedInv, Shut, SameIn, SameHeard
  <2>3. t.st \notin {"fwait", "last", "closed"}
    BY <1>2
  <2>4. QED
    BY <2>1, <2>2, <2>3 DEF Shut
<1>7. TaskIs(t, f)
  <2>1. t.st \notin {"listen", "syn"} /\ f.task # "failed" /\ ~AbortLast(t.back)
    BY <1>2, <1>3, <1>4 DEF SameOut
  <2>2. QED
    BY <1>2, <2>1 DEF TaskIs
<1>8. Honest(f)
  <2>1. f.told # "fin"
    BY <1>1, <1>3, <1>4 DEF Honest
  <2>2. f.eof /\ f.told # "gone" => f.fin /\ Len(f.read) = f.sent
    BY <1>1, <1>3, Zenon DEF Honest, SameHeard
  <2>3. QED
    BY <2>1, <2>2 DEF Honest
<1>9. t.st # "none"
  BY <1>2
<1>10. QED
  BY <1>2, <1>3, <1>5, <1>6, <1>7, <1>8, <1>9 DEF ConnInv, TrackedInv

(* The rest of a turn, for one connection.                                 *)
Turned(s, e) == cleanup(take_new(Relayed(s, e.task)))
TurnedEnd(s, e) == IF ~s.spawned /\ take_new(s).spawned THEN [e EXCEPT !.task = "run"] ELSE e

\* relay, take_new and cleanup.
LEMMA TurnedKeeps ==
  ASSUME NEW s, NEW e, ConnInv(s, e), Fresh(s, e)
  PROVE  Rested(Turned(s, e), TurnedEnd(s, e))
<1>1. s \in TunSock /\ e \in TunEnd /\ Honest(e)
  BY DEF ConnInv
<1>2. CASE ~s.spawned /\ s.st \notin {"est", "cwait", "closed"}
  <2>1. Relayed(s, e.task) = s
    BY <1>2 DEF Relayed
  <2>2. take_new(s) = s
    BY <1>2 DEF take_new
  <2>3. cleanup(s) = s
    BY <1>2 DEF cleanup
  <2>4. Turned(s, e) = s
    BY <2>1, <2>2, <2>3 DEF Turned
  <2>5. TurnedEnd(s, e) = e
    BY <1>2, <2>2 DEF TurnedEnd
  <2>6. QED
    BY <1>2, <2>4, <2>5 DEF Rested
<1>3. CASE s.st = "closed"
  <2> DEFINE t == [NoConn EXCEPT !.chan = s.chan, !.to_proxy = FALSE]
  <2>1. Relayed(s, e.task) = s
    BY <1>3 DEF Relayed
  <2>2. take_new(s) = s
    BY <1>3 DEF take_new
  <2>3. Turned(s, e) = t
    BY <1>3, <2>1, <2>2 DEF Turned, cleanup
  <2>4. TurnedEnd(s, e) = e
    BY <2>2 DEF TurnedEnd
  <2>5. TrackedInv(s, e) /\ s.chan \in Seq(Nat)
    BY <1>1, <1>3, SockFields DEF ConnInv
  <2>6. Heard(s.chan, e)
    BY <2>5, TrackedHeard
  <2>7. e.told \in {"gone", "fin"} /\ (e.told = "fin" => e.task = "done")
    BY <1>3, <2>5 DEF TrackedInv, Shut
  <2>8. DroppedIs(t, s.chan)
    BY DEF DroppedIs
  <2> HIDE DEF t
  <2>9. ConnInv(t, e) /\ t.st = "none"
    BY <1>1, <2>5, <2>6, <2>7, <2>8, DroppedKeeps
  <2>10. Fresh(t, e)
    BY <2>7 DEF Fresh
  <2>11. QED
    BY <2>3, <2>4, <2>9, <2>10 DEF Rested
<1>4. CASE ~s.spawned /\ s.st \in {"est", "cwait"}
  <2> DEFINE t == [s EXCEPT !.spawned = TRUE]
             f == [e EXCEPT !.task = "run"]
  <2>1. Relayed(s, e.task) = s
    BY <1>4 DEF Relayed
  <2>2. take_new(s) = t
    BY <1>4 DEF take_new
  <2>3. SpawnIs(t, s) /\ EndTaskIs(f, e, "run")
    BY DEF SpawnIs, EndTaskIs
  <2>4. t.st = s.st /\ t.spawned
    <3> HIDE DEF t
    <3>1. QED
      BY <1>1, <2>3, SockSpawn
  <2>5. cleanup(t) = t
    <3> HIDE DEF t
    <3>1. t.st # "closed"
      BY <1>4, <2>4
    <3>2. QED
      BY <3>1 DEF cleanup
  <2>6. Turned(s, e) = t
    BY <2>1, <2>2, <2>5 DEF Turned
  <2>7. TurnedEnd(s, e) = f
    BY <1>4, <2>2, <2>4 DEF TurnedEnd
  <2> HIDE DEF t, f
  <2>8. ConnInv(t, f)
    BY <1>4, <2>3, SpawnKeeps
  <2>9. f.told = e.told
    BY <1>1, <2>3, EndTask
  <2>10. e.told # "new"
    BY <1>4 DEF Fresh, NoConn
  <2>11. Rested(t, f)
    BY <1>4, <2>4, <2>8, <2>9, <2>10 DEF Rested, Fresh
  <2>12. QED
    BY <2>6, <2>7, <2>11
<1>5. CASE s.spawned /\ s.st # "closed"
  <2> DEFINE r == Relayed(s, e.task)
  <2>1. s.st # "none"
    BY <1>5, Zenon DEF ConnInv, DroppedInv
  <2>2. TrackedInv(s, e)
    BY <2>1 DEF ConnInv
  <2>3. /\ r \in TunSock
        /\ \/ TrackedInv(r, e) /\ r.spawned /\ r.st \notin {"none", "closed"}
           \/ r.st = "closed" /\ r.chan = s.chan /\ e.task = "failed"
    BY <1>1, <1>5, <2>1, <2>2, RelayedKeeps
  <2> HIDE DEF r
  <2>4. TurnedEnd(s, e) = e
    BY <1>5 DEF TurnedEnd
  <2>5. CASE TrackedInv(r, e) /\ r.spawned /\ r.st \notin {"none", "closed"}
    <3>1. take_new(r) = r
      BY <2>5 DEF take_new
    <3>2. Turned(s, e) = r
      BY <2>5, <3>1 DEF Turned, cleanup, r
    <3>3. ConnInv(r, e)
      BY <1>1, <2>3, <2>5 DEF ConnInv
    <3>4. e.told # "new"
      BY <2>1 DEF Fresh, NoConn
    <3>5. QED
      BY <2>4, <2>5, <3>2, <3>3, <3>4 DEF Rested, Fresh
  <2>6. CASE r.st = "closed" /\ r.chan = s.chan /\ e.task = "failed"
    <3> DEFINE t == [NoConn EXCEPT !.chan = r.chan, !.to_proxy = FALSE]
    <3>1. take_new(r) = r
      BY <2>6 DEF take_new
    <3>2. Turned(s, e) = t
      BY <2>6, <3>1 DEF Turned, cleanup, r
    <3>3. r.chan \in Seq(Nat) /\ Heard(r.chan, e)
      BY <1>1, <2>2, <2>6, TrackedHeard, SockFields
    <3>4. DroppedIs(t, r.chan)
      BY DEF DroppedIs
    <3> HIDE DEF t
    <3>5. ConnInv(t, e) /\ t.st = "none"
      BY <1>1, <2>6, <3>3, <3>4, DroppedKeeps
    <3>6. e.told # "new"
      BY <2>1 DEF Fresh, NoConn
    <3>7. QED
      BY <2>4, <3>2, <3>5, <3>6 DEF Rested, Fresh
  <2>7. QED
    BY <2>3, <2>5, <2>6
<1>6. s.spawned \/ ~s.spawned
  OBVIOUS
<1>7. QED
  BY <1>2, <1>3, <1>4, <1>5, <1>6

PollSockIs(t, s, x, v) == t = [[s EXCEPT !.tx = x] EXCEPT !.st = v]
PollEndIs(f, e, g, w) == f = [e EXCEPT !.got = g, !.told = w]

\* What poll changes of a socket.
LEMMA SockPoll ==
  ASSUME NEW s \in TunSock, NEW x \in Seq(Nat),
         NEW v \in {"none", "listen", "syn", "est", "cwait", "fwait", "last", "closed"},
         NEW t, PollSockIs(t, s, x, v)
  PROVE  /\ t \in TunSock /\ SameIn(t, s) /\ SameSpawned(t, s) /\ t.st = v /\ t.tx = x
         /\ t.write_pending = s.write_pending /\ t.back = s.back
<1>1. t \in TunSock
  BY DEF TunSock, PollSockIs
<1>2. SameIn(t, s) /\ SameSpawned(t, s) /\ t.st = v /\ t.tx = x
  BY DEF TunSock, PollSockIs, SameIn, SameSpawned
<1>3. t.write_pending = s.write_pending /\ t.back = s.back
  BY DEF TunSock, PollSockIs
<1>4. QED
  BY <1>1, <1>2, <1>3

\* What poll changes of the guest.
LEMMA EndPoll ==
  ASSUME NEW e \in TunEnd, NEW g \in Seq(Nat), NEW w \in {"new", "open", "fin", "rst", "gone"},
         NEW f, PollEndIs(f, e, g, w)
  PROVE  f \in TunEnd /\ f.got = g /\ f.told = w /\ SameHeard(f, e) /\ f.task = e.task /\ f.wrote = e.wrote
<1>1. f \in TunEnd
  BY DEF TunEnd, PollEndIs
<1>2. f.got = g /\ f.told = w /\ SameHeard(f, e) /\ f.task = e.task /\ f.wrote = e.wrote
  BY DEF TunEnd, PollEndIs, SameHeard
<1>3. QED
  BY <1>1, <1>2

(* The parts of Poll.                                                      *)
PolledUnits(s, n) == IF n < Len(s.tx) THEN n ELSE Len(s.tx)
PolledTx(s, n) == SubSeq(s.tx, PolledUnits(s, n) + 1, Len(s.tx))
PolledGot(s, e, n) == e.got \o SubSeq(s.tx, 1, PolledUnits(s, n))
PolledTold(s, e, n) ==
  IF PolledTx(s, n) = <<>> /\ s.st \in {"fwait", "last"} /\ e.told = "open" THEN "fin" ELSE e.told
PolledSt(s, e, n) ==
  IF PolledTold(s, e, n) = "fin" /\ (s.st = "last" \/ (s.st = "fwait" /\ e.fin)) THEN "closed" ELSE s.st
PolledSock(s, e, n) == [[s EXCEPT !.tx = PolledTx(s, n)] EXCEPT !.st = PolledSt(s, e, n)]
PolledEnd(s, e, n) == [e EXCEPT !.got = PolledGot(s, e, n), !.told = PolledTold(s, e, n)]

\* Poll is these.
LEMMA PollIs ==
  ASSUME NEW s \in TunSock, NEW e, NEW n
  PROVE  Poll(s, e, n)[1] = PolledSock(s, e, n) /\ Poll(s, e, n)[2] = PolledEnd(s, e, n)
<1> DEFINE k == IF n < Len(s.tx) THEN n ELSE Len(s.tx)
           x == SubSeq(s.tx, k + 1, Len(s.tx))
           t == [s EXCEPT !.tx = x]
<1>1. t.tx = x
  BY DEF TunSock
<1>2. QED
  BY <1>1 DEF Poll, PolledSock, PolledEnd, PolledSt, PolledTold, PolledGot, PolledTx, PolledUnits

\* poll.
LEMMA PollKeeps ==
  ASSUME NEW s, NEW e, NEW n \in Nat, ConnInv(s, e), e.told # "new"
  PROVE  ConnInv(PolledSock(s, e, n), PolledEnd(s, e, n)) /\ Fresh(PolledSock(s, e, n), PolledEnd(s, e, n))
<1> DEFINE k == PolledUnits(s, n)
           x == PolledTx(s, n)
           g == PolledGot(s, e, n)
           w == PolledTold(s, e, n)
           v == PolledSt(s, e, n)
           t == PolledSock(s, e, n)
           f == PolledEnd(s, e, n)
<1>1. s \in TunSock /\ e \in TunEnd /\ Honest(e)
  BY DEF ConnInv
<1>2. /\ s.tx \in Seq(Nat) /\ Len(s.tx) \in Nat /\ e.got \in Seq(Nat) /\ e.wrote \in Nat
      /\ s.st \in {"none", "listen", "syn", "est", "cwait", "fwait", "last", "closed"}
      /\ e.told \in {"new", "open", "fin", "rst", "gone"}
  BY <1>1, SockFields, EndFields, EmptySeq
<1>3. k \in Nat /\ k <= Len(s.tx)
  BY <1>2 DEF PolledUnits
<1>4. x = SubSeq(s.tx, k + 1, Len(s.tx)) /\ g = e.got \o SubSeq(s.tx, 1, k)
  BY DEF PolledTx, PolledGot
<1>5. x \in Seq(Nat) /\ g \in Seq(Nat) /\ Len(g) = Len(e.got) + k
  <2> HIDE DEF k, x, g
  <2>1. SubSeq(s.tx, 1, k) \in Seq(Nat) /\ Len(SubSeq(s.tx, 1, k)) = k
    BY <1>2, <1>3, HeadLen
  <2>2. SubSeq(s.tx, k + 1, Len(s.tx)) \in Seq(Nat)
    BY <1>2, <1>3
  <2>3. QED
    BY <1>2, <1>4, <2>1, <2>2
<1>6. /\ w \in {"new", "open", "fin", "rst", "gone"} /\ w # "new"
      /\ w = e.told \/ (w = "fin" /\ x = <<>> /\ s.st \in {"fwait", "last"} /\ e.told = "open")
  BY <1>2 DEF PolledTold
<1>7. /\ v \in {"none", "listen", "syn", "est", "cwait", "fwait", "last", "closed"}
      /\ v = s.st \/ (v = "closed" /\ w = "fin" /\ s.st \in {"fwait", "last"})
  <2>1. CASE w = "fin" /\ (s.st = "last" \/ (s.st = "fwait" /\ e.fin))
    BY <2>1 DEF PolledSt
  <2>2. CASE ~(w = "fin" /\ (s.st = "last" \/ (s.st = "fwait" /\ e.fin)))
    BY <1>2, <2>2 DEF PolledSt
  <2>3. QED
    BY <2>1, <2>2
<1>8. PollSockIs(t, s, x, v) /\ PollEndIs(f, e, g, w)
  BY DEF PollSockIs, PollEndIs, PolledSock, PolledEnd
<1> HIDE DEF k, x, g, w, v, t, f
<1>9. /\ t \in TunSock /\ SameIn(t, s) /\ SameSpawned(t, s) /\ t.st = v /\ t.tx = x
      /\ t.write_pending = s.write_pending /\ t.back = s.back
  BY <1>1, <1>5, <1>7, <1>8, SockPoll
<1>10. f \in TunEnd /\ f.got = g /\ f.told = w /\ SameHeard(f, e) /\ f.task = e.task /\ f.wrote = e.wrote
  BY <1>1, <1>5, <1>6, <1>8, EndPoll
<1>11. Fresh(t, f)
  BY <1>6, <1>10 DEF Fresh
<1>12. f.eof /\ f.told # "gone" => f.fin /\ Len(f.read) = f.sent
  <2>1. f.told # "gone" => e.told # "gone"
    BY <1>6, <1>10
  <2>2. QED
    BY <1>1, <1>10, <2>1, Zenon DEF Honest, SameHeard
<1>13. CASE s.st = "none"
  <2>1. DroppedInv(s, e)
    BY <1>13 DEF ConnInv
  <2>2. s.tx = <<>> /\ Len(s.tx) = 0
    BY <2>1 DEF DroppedInv
  <2>3. k = 0
    BY <1>3, <2>2
  <2>4. x = <<>> /\ g = e.got
    <3>1. SubSeq(s.tx, 1, 0) = <<>> /\ SubSeq(s.tx, 0 + 1, Len(s.tx)) = <<>>
      BY <2>2
    <3>2. e.got \o <<>> = e.got
      BY <1>2
    <3>3. QED
      BY <1>4, <2>3, <3>1, <3>2
  <2>5. w = e.told /\ v = "none"
    BY <1>6, <1>7, <1>13
  <2>6. Honest(f)
    BY <1>1, <1>10, <1>12, <2>4, <2>5 DEF Honest
  <2>7. Heard(t.chan, f)
    BY <1>9, <1>10, <2>1, <2>4 DEF DroppedInv, Heard, SameIn, SameHeard
  <2>8. ~t.spawned
    BY <1>9, <2>1, Zenon DEF DroppedInv, SameSpawned
  <2>9. DroppedInv(t, f)
    BY <1>9, <1>10, <2>1, <2>4, <2>5, <2>7, <2>8 DEF DroppedInv, SameIn
  <2>10. QED
    BY <1>9, <1>10, <1>11, <2>5, <2>6, <2>9 DEF ConnInv, t, f
<1>14. CASE s.st # "none"
  <2>1. TrackedInv(s, e)
    BY <1>14 DEF ConnInv
  <2>2. Flow(e.got, s.tx, s.write_pending, Units(s.back), e.wrote, BufCap) /\ BufCap \in Nat
    BY <2>1, BuffersAssumption DEF TrackedInv, Streams
  <2>3. Flow(g, x, s.write_pending, Units(s.back), e.wrote, BufCap)
    BY <1>3, <1>4, <2>2, FlowTakes
  <2>4. Streams(t, f)
    BY <1>9, <1>10, <2>1, <2>3 DEF TrackedInv, Streams, SameIn, SameHeard
  <2>5. Shut(t, f)
    <3>1. t.st \in {"cwait", "last"} => f.fin
      <4>1. t.st \in {"cwait", "last"} => s.st \in {"cwait", "last"}
        BY <1>7, <1>9
      <4>2. QED
        BY <1>10, <2>1, <4>1, Zenon DEF TrackedInv, Shut, SameHeard
    <3>2. ~t.to_proxy => t.rx = <<>> /\ t.read_pending = <<>> /\ f.fin
      BY <1>9, <1>10, <2>1, Zenon DEF TrackedInv, Shut, SameIn, SameHeard
    <3>3. t.st \in {"fwait", "last"} => t.write_pending = <<>> /\ t.back = <<>> /\ f.task = "done"
      BY <1>7, <1>9, <1>10, <2>1 DEF TrackedInv, Shut
    <3>4. t.st = "closed" => f.told = "gone" \/ (f.told = "fin" /\ f.task = "done")
      BY <1>6, <1>7, <1>9, <1>10, <2>1 DEF TrackedInv, Shut
    <3>5. QED
      BY <3>1, <3>2, <3>3, <3>4 DEF Shut
  <2>6. TaskIs(t, f)
    <3>1. t.st \in {"listen", "syn"} => s.st \in {"listen", "syn"}
      BY <1>7, <1>9
    <3>2. QED
      BY <1>9, <1>10, <2>1, <3>1, Zenon DEF TrackedInv, TaskIs, SameSpawned
  <2>7. f.told = "fin" => f.task = "done" /\ Len(f.got) = f.wrote
    <3>1. CASE w = e.told
      <4>1. SUFFICES ASSUME e.told = "fin" PROVE e.task = "done" /\ Len(g) = e.wrote
        BY <1>10, <3>1
      <4>2. e.task = "done" /\ Len(e.got) = e.wrote
        BY <1>1, <4>1 DEF Honest
      <4>3. Len(g) <= e.wrote
        BY <2>2, <2>3, FlowBegins
      <4>4. QED
        BY <1>2, <1>3, <1>5, <4>2, <4>3
    <3>2. CASE w = "fin" /\ x = <<>> /\ s.st \in {"fwait", "last"} /\ e.told = "open"
      <4>1. s.write_pending = <<>> /\ s.back = <<>> /\ e.task = "done"
        BY <2>1, <3>2 DEF TrackedInv, Shut
      <4>2. Units(s.back) = <<>>
        BY <1>1, <4>1, SockFields, Mail
      <4>3. Flow(g, <<>>, <<>>, <<>>, e.wrote, BufCap)
        BY <2>3, <3>2, <4>1, <4>2
      <4>4. Len(g) = e.wrote
        BY <1>2, <1>5, <4>3 DEF Flow
      <4>5. QED
        BY <1>10, <4>1, <4>4
    <3>3. QED
      BY <1>6, <3>1, <3>2
  <2>8. t.st # "none"
    BY <1>7, <1>9, <1>14
  <2>9. QED
    BY <1>9, <1>10, <1>11, <1>12, <2>4, <2>5, <2>6, <2>7, <2>8 DEF ConnInv, TrackedInv, Honest, t, f
<1>15. QED
  BY <1>13, <1>14

\* relay treats each connection by itself.
LEMMA RelayIs ==
  ASSUME NEW S, NEW E, relay(S, E)
  PROVE  socks' = [d \in Conns |-> Turned(S[d], E[d])]
<1> DEFINE on == {d \in Conns : S[d].spawned /\ S[d].st # "closed"}
           D == [d \in Conns |-> IF d \in on THEN Drain(S[d]) ELSE S[d]]
           W == [d \in Conns |-> IF d \in on THEN Sent(D[d], E[d].task) ELSE D[d]]
           reads == {d \in on : Reads(D[d], E[d].task)}
           R == [d \in Conns |-> IF d \in reads THEN RetryPending(W[d]) ELSE W[d]]
           F == [d \in Conns |-> IF d \in reads THEN Fill(R[d]) ELSE R[d]]
<1>1. ToTask(W, reads)
  BY ZenonT(30) DEF relay
<1>2. socks' = [d \in Conns |-> cleanup(take_new(IF d \in reads THEN Eof(F[d]) ELSE F[d]))]
  <2> HIDE DEF W, reads
  <2>1. QED
    BY <1>1 DEF ToTask
<1>3. ASSUME NEW d \in Conns
      PROVE  (IF d \in reads THEN Eof(F[d]) ELSE F[d]) = Relayed(S[d], E[d].task)
  <2>1. CASE d \notin on
    <3>1. d \notin reads /\ D[d] = S[d] /\ W[d] = S[d]
      BY <2>1
    <3> HIDE DEF reads, W
    <3>2. F[d] = S[d]
      BY <3>1
    <3>3. Relayed(S[d], E[d].task) = S[d]
      BY <2>1 DEF Relayed
    <3>4. QED
      BY <3>1, <3>2, <3>3
  <2>2. CASE d \in on
    <3>1. D[d] = Drain(S[d])
      BY <2>2
    <3>2. /\ W[d] = Sent(D[d], E[d].task)
          /\ d \in reads <=> Reads(D[d], E[d].task)
      <4> HIDE DEF D
      <4>1. QED
        BY <2>2
    <3>3. Relayed(S[d], E[d].task) = IF Reads(D[d], E[d].task) THEN Eof(Fill(RetryPending(W[d]))) ELSE W[d]
      <4>1. S[d].spawned /\ S[d].st # "closed"
        BY <2>2
      <4> HIDE DEF D, W
      <4>2. QED
        BY <3>1, <3>2, <4>1 DEF Relayed
    <3> HIDE DEF reads, W
    <3>4. F[d] = IF d \in reads THEN Fill(RetryPending(W[d])) ELSE W[d]
      OBVIOUS
    <3> HIDE DEF F, D
    <3>5. QED
      BY <3>2, <3>3, <3>4
  <2>3. QED
    BY <2>1, <2>2
<1> HIDE DEF reads, F
<1>4. QED
  BY <1>2, <1>3 DEF Turned

Put(S, T, c, t) == S = [T EXCEPT ![c] = t]

\* A turn for a connection whose socket and guest have just changed.
LEMMA TurnKeeps ==
  ASSUME TcpInv, NEW c \in Conns, NEW n \in Nat, NEW t, NEW f, ConnInv(t, f), f.told # "new",
         NEW S, NEW E, Put(S, socks, c, t), Put(E, ends, c, f), Turn(S, E, c, n)
  PROVE  TcpInv' /\ UNCHANGED <<udp, turned>>
<1> DEFINE t1 == PolledSock(t, f, n)
           f1 == PolledEnd(t, f, n)
           S1 == [S EXCEPT ![c] = t1]
           E1 == [E EXCEPT ![c] = f1]
<1>1. t \in TunSock /\ f \in TunEnd
  BY DEF ConnInv
<1>2. /\ S[c] = t /\ E[c] = f
      /\ \A d \in Conns : d # c => S[d] = socks[d] /\ E[d] = ends[d]
      /\ DOMAIN S = Conns /\ DOMAIN E = Conns
  BY DEF Put, TcpInv
<1>3. Poll(S[c], E[c], n)[1] = t1 /\ Poll(S[c], E[c], n)[2] = f1
  BY <1>1, <1>2, PollIs
<1>4. ConnInv(t1, f1) /\ Fresh(t1, f1)
  BY PollKeeps
<1> HIDE DEF t1, f1
<1>5. /\ relay(S1, E1) /\ UNCHANGED <<udp, turned>>
      /\ ends' = [d \in Conns |-> IF ~S1[d].spawned /\ take_new(S1[d]).spawned
                                  THEN [E1[d] EXCEPT !.task = "run"] ELSE E1[d]]
  BY <1>3 DEF Turn
<1>6. ASSUME NEW d \in Conns PROVE ConnInv(S1[d], E1[d]) /\ Fresh(S1[d], E1[d])
  <2>1. CASE d = c
    BY <1>2, <1>4, <2>1
  <2>2. CASE d # c
    <3>1. S1[d] = socks[d] /\ E1[d] = ends[d]
      BY <1>2, <2>2
    <3>2. QED
      BY <3>1 DEF TcpInv, Rested
  <2>3. QED
    BY <2>1, <2>2
<1> HIDE DEF S1, E1
<1>7. socks' = [d \in Conns |-> Turned(S1[d], E1[d])]
  BY <1>5, RelayIs
<1>8. ends' = [d \in Conns |-> TurnedEnd(S1[d], E1[d])]
  BY <1>5 DEF TurnedEnd
<1>9. ASSUME NEW d \in Conns
      PROVE  /\ Rested(Turned(S1[d], E1[d]), TurnedEnd(S1[d], E1[d]))
             /\ Turned(S1[d], E1[d]) \in TunSock /\ TurnedEnd(S1[d], E1[d]) \in TunEnd
  <2>1. Rested(Turned(S1[d], E1[d]), TurnedEnd(S1[d], E1[d]))
    BY <1>6, TurnedKeeps
  <2>2. QED
    BY <2>1 DEF Rested, ConnInv
<1>10. socks' \in [Conns -> TunSock] /\ ends' \in [Conns -> TunEnd]
  BY <1>7, <1>8, <1>9
<1>11. ASSUME NEW d \in Conns PROVE Rested(socks'[d], ends'[d])
  <2>1. socks'[d] = Turned(S1[d], E1[d]) /\ ends'[d] = TurnedEnd(S1[d], E1[d])
    BY <1>7, <1>8
  <2>2. QED
    BY <1>9, <2>1
<1>12. TcpInv'
  BY <1>10, <1>11 DEF TcpInv
<1>13. QED
  BY <1>5, <1>12

FinIs(f, e) == f = [e EXCEPT !.fin = TRUE]
ToldIs(f, e, v) == f = [e EXCEPT !.told = v]
SentIs(f, e) == f = [e EXCEPT !.sent = @ + 1]
LateIs(f, e) == f = [e EXCEPT !.sent = @ + 1, !.told = "rst"]
SameEof(f, e) == f.eof = e.eof
SameFin(f, e) == f.fin = e.fin

\* The guest's end after each of its segments.
LEMMA EndSegments ==
  ASSUME NEW e \in TunEnd, NEW f
  PROVE  /\ FinIs(f, e) => /\ f \in TunEnd /\ f.fin /\ f.told = e.told /\ f.task = e.task /\ f.read = e.read
                           /\ f.sent = e.sent /\ SameSaid(f, e) /\ SameEof(f, e)
         /\ ToldIs(f, e, "gone") => /\ f \in TunEnd /\ f.told = "gone" /\ f.task = e.task
                                    /\ SameHeard(f, e) /\ SameSaid(f, e)
         /\ SentIs(f, e) => /\ f \in TunEnd /\ f.told = e.told /\ f.task = e.task /\ f.read = e.read
                            /\ f.sent = e.sent + 1 /\ SameSaid(f, e) /\ SameEof(f, e) /\ SameFin(f, e)
         /\ LateIs(f, e) => /\ f \in TunEnd /\ f.told = "rst" /\ f.task = e.task /\ f.read = e.read
                            /\ f.sent = e.sent + 1 /\ SameSaid(f, e) /\ SameEof(f, e) /\ SameFin(f, e)
<1>1. e.sent + 1 \in Nat
  BY EndFields
<1>2. /\ FinIs(f, e) => f \in TunEnd
      /\ ToldIs(f, e, "gone") => f \in TunEnd
      /\ SentIs(f, e) => f \in TunEnd
      /\ LateIs(f, e) => f \in TunEnd
  BY <1>1 DEF FinIs, ToldIs, SentIs, LateIs, TunEnd
<1>3. FinIs(f, e) => /\ f.fin /\ f.told = e.told /\ f.task = e.task /\ f.read = e.read
                     /\ f.sent = e.sent /\ SameSaid(f, e) /\ SameEof(f, e)
  BY DEF FinIs, TunEnd, SameSaid, SameEof
<1>4. ToldIs(f, e, "gone") => f.told = "gone" /\ f.task = e.task /\ SameHeard(f, e) /\ SameSaid(f, e)
  BY DEF ToldIs, TunEnd, SameSaid, SameHeard
<1>5. SentIs(f, e) => /\ f.told = e.told /\ f.task = e.task /\ f.read = e.read
                      /\ f.sent = e.sent + 1 /\ SameSaid(f, e) /\ SameEof(f, e) /\ SameFin(f, e)
  BY DEF SentIs, TunEnd, SameSaid, SameEof, SameFin
<1>6. LateIs(f, e) => /\ f.told = "rst" /\ f.task = e.task /\ f.read = e.read
                      /\ f.sent = e.sent + 1 /\ SameSaid(f, e) /\ SameEof(f, e) /\ SameFin(f, e)
  BY DEF LateIs, TunEnd, SameSaid, SameEof, SameFin
<1>7. QED
  BY <1>2, <1>3, <1>4, <1>5, <1>6

\* A tracked socket in another state.
LEMMA StateKeeps ==
  ASSUME NEW s, NEW e, ConnInv(s, e), s.st # "none",
         NEW v \in {"listen", "syn", "est", "cwait", "fwait", "last", "closed"},
         v \in {"listen", "syn"} => s.st \in {"listen", "syn"},
         v \in {"fwait", "last"} => s.st = v,
         NEW t, StIs(t, s, v),
         NEW f \in TunEnd, Honest(f), f.read = e.read, f.sent = e.sent, SameSaid(f, e), f.task = e.task,
         e.fin => f.fin, v \in {"cwait", "last"} => f.fin,
         v = "closed" => f.told = "gone"
  PROVE  ConnInv(t, f)
<1>1. s \in TunSock /\ TrackedInv(s, e)
  BY DEF ConnInv
<1>2. t \in TunSock /\ SameIn(t, s) /\ SameOut(t, s) /\ t.st = v /\ SameSpawned(t, s)
  BY <1>1, SockState
<1>3. Streams(t, f)
  BY <1>1, <1>2 DEF TrackedInv, Streams, SameIn, SameOut, SameSaid
<1>4. Shut(t, f)
  <2>1. ~t.to_proxy => t.rx = <<>> /\ t.read_pending = <<>> /\ f.fin
    BY <1>1, <1>2, Zenon DEF TrackedInv, Shut, SameIn
  <2>2. t.st \in {"fwait", "last"} => t.write_pending = <<>> /\ t.back = <<>> /\ f.task = "done"
    BY <1>1, <1>2 DEF TrackedInv, Shut, SameOut
  <2>3. t.st = "closed" => f.told = "gone"
    BY <1>2
  <2>4. t.st \in {"cwait", "last"} => f.fin
    BY <1>2
  <2>5. QED
    BY <2>1, <2>2, <2>3, <2>4 DEF Shut
<1>5. TaskIs(t, f)
  <2>1. ~t.spawned => f.task = "none"
    BY <1>1, <1>2, Zenon DEF TrackedInv, TaskIs, SameSpawned
  <2>2. t.st \in {"listen", "syn"} => ~t.spawned
    BY <1>1, <1>2, Zenon DEF TrackedInv, TaskIs, SameSpawned
  <2>3. AbortLast(t.back) <=> f.task = "failed"
    BY <1>1, <1>2, Zenon DEF TrackedInv, TaskIs, SameOut
  <2>4. QED
    BY <2>1, <2>2, <2>3 DEF TaskIs
<1>6. t.st # "none"
  BY <1>2
<1>7. QED
  BY <1>2, <1>3, <1>4, <1>5, <1>6 DEF ConnInv, TrackedInv

\* What TcpInv says of one connection.
LEMMA OneConn ==
  ASSUME TcpInv, NEW c \in Conns
  PROVE  /\ socks[c] \in TunSock /\ ends[c] \in TunEnd /\ ConnInv(socks[c], ends[c])
         /\ Honest(ends[c]) /\ socks[c].st # "closed"
         /\ ends[c].told = "new" => socks[c] = NoConn /\ ends[c] = NoEnds
         /\ socks[c].st # "none" => TrackedInv(socks[c], ends[c])
         /\ socks[c].st = "none" => DroppedInv(socks[c], ends[c])
BY DEF TcpInv, Rested, ConnInv, Fresh

\* A SYN.
LEMMA SynKeeps ==
  ASSUME TcpInv, NEW c \in Conns, Syn(c)
  PROVE  TcpInv' /\ UNCHANGED <<udp, turned>>
<1> DEFINE made == socks[c].st = "listen" \/ Cardinality(Tracked) < MAX_TCP_CONNS
           v == IF made THEN "syn" ELSE socks[c].st
           w == IF made THEN "open" ELSE "rst"
           t == [socks[c] EXCEPT !.st = v]
           f == [ends[c] EXCEPT !.told = w]
           S == [socks EXCEPT ![c] = t]
           E == [ends EXCEPT ![c] = f]
<1>1. socks[c] = NoConn /\ ends[c] = NoEnds
  BY OneConn DEF Syn
<1>2. Turn(S, E, c, 0)
  BY DEF Syn
<1>3. Put(S, socks, c, t) /\ Put(E, ends, c, f)
  BY DEF Put
<1>4. <<>> \in Seq(Nat) /\ 0 \in Nat
  OBVIOUS
<1>5. /\ made \in BOOLEAN /\ (made => v = "syn" /\ w = "open") /\ (~made => v = "none" /\ w = "rst")
  BY <1>1 DEF NoConn
<1> HIDE DEF made, v, w
<1>6. StIs(t, NoConn, v) /\ ToldIs(f, NoEnds, w)
  BY <1>1 DEF StIs, ToldIs
<1> HIDE DEF t, f
<1>7. /\ t.st = v /\ t.rx = <<>> /\ t.tx = <<>> /\ t.chan = <<>> /\ t.back = <<>>
      /\ t.read_pending = <<>> /\ t.write_pending = <<>>
      /\ f.sent = 0 /\ f.got = <<>> /\ f.told = w /\ f.task = "none" /\ f.read = <<>> /\ f.wrote = 0
  BY <1>6 DEF StIs, ToldIs, NoConn, NoEnds
<1>8. ~t.spawned /\ t.to_proxy /\ ~f.fin /\ ~f.eof
  BY <1>6 DEF StIs, ToldIs, NoConn, NoEnds
<1>9. t \in TunSock /\ f \in TunEnd
  BY <1>4, <1>5, <1>6 DEF StIs, ToldIs, NoConn, NoEnds, TunSock, TunEnd
<1>10. Honest(f)
  BY <1>5, <1>7, <1>8 DEF Honest
<1>11. CASE made
  <2>1. ~AbortLast(<<>>) /\ Units(<<>>) = <<>>
    BY DEF AbortLast, Units
  <2>2. Streams(t, f)
    BY <1>7, <2>1, FlowStarts, BuffersAssumption DEF Streams
  <2>3. Shut(t, f)
    BY <1>5, <1>7, <1>8, <1>11 DEF Shut
  <2>4. TaskIs(t, f)
    BY <1>7, <1>8, <2>1 DEF TaskIs
  <2>5. t.st # "none"
    BY <1>5, <1>7, <1>11
  <2>6. ConnInv(t, f)
    BY <1>9, <1>10, <2>2, <2>3, <2>4, <2>5 DEF ConnInv, TrackedInv
  <2>7. f.told # "new"
    BY <1>5, <1>7
  <2> HIDE DEF S, E
  <2>8. QED
    BY <1>2, <1>3, <1>4, <2>6, <2>7, TurnKeeps
<1>12. CASE ~made
  <2>1. Heard(t.chan, f)
    BY <1>7, NoRun DEF Heard
  <2>2. DroppedInv(t, f) /\ t.st = "none"
    BY <1>5, <1>7, <1>8, <1>12, <2>1 DEF DroppedInv
  <2>3. ConnInv(t, f) /\ f.told # "new"
    BY <1>5, <1>7, <1>9, <1>10, <2>2 DEF ConnInv
  <2> HIDE DEF S, E
  <2>4. QED
    BY <1>2, <1>3, <1>4, <2>3, TurnKeeps
<1>13. QED
  BY <1>5, <1>11, <1>12

\* The handshake's end, and the guest's FIN and reset.
LEMMA StateSegmentsKeep ==
  ASSUME TcpInv, NEW c \in Conns, HandshakeAck(c) \/ GuestFin(c) \/ GuestRst(c)
  PROVE  TcpInv' /\ UNCHANGED <<udp, turned>>
<1> DEFINE s == socks[c]
           e == ends[c]
<1>1. /\ s \in TunSock /\ e \in TunEnd /\ ConnInv(s, e) /\ Honest(e) /\ s.st # "closed"
      /\ e.told = "new" => s = NoConn
      /\ 0 \in Nat
  BY OneConn
<1>2. s.st # "none" => e.told # "new" /\ TrackedInv(s, e)
  BY OneConn DEF NoConn
<1>3. SameSaid(e, e) /\ Put(ends, ends, c, e)
  BY DEF SameSaid, Put, TcpInv
<1>4. CASE HandshakeAck(c)
  <2> DEFINE t == [s EXCEPT !.st = "est"]
             S == [socks EXCEPT ![c] = t]
  <2>1. s.st = "syn" /\ Turn(S, ends, c, 0)
    BY <1>4 DEF HandshakeAck
  <2>2. StIs(t, s, "est") /\ Put(S, socks, c, t)
    BY DEF StIs, Put
  <2> HIDE DEF t, S, s, e
  <2>3. ConnInv(t, e)
    BY <1>1, <1>3, <2>1, <2>2, StateKeeps
  <2>4. QED
    BY <1>1, <1>2, <1>3, <2>1, <2>2, <2>3, TurnKeeps
<1>5. CASE GuestFin(c)
  <2> DEFINE v == IF s.st = "est" THEN "cwait" ELSE s.st
             t == [s EXCEPT !.st = v]
             S == [socks EXCEPT ![c] = t]
             f == [e EXCEPT !.fin = TRUE]
             E == [ends EXCEPT ![c] = f]
  <2>1. s.st \in {"est", "fwait"} /\ ~e.fin /\ e.told \in {"open", "fin"} /\ Turn(S, E, c, 0)
    BY <1>5 DEF GuestFin
  <2>2. /\ StIs(t, s, v) /\ Put(S, socks, c, t) /\ FinIs(f, e) /\ Put(E, ends, c, f)
    BY DEF StIs, Put, FinIs
  <2>3. v \in {"cwait", "fwait"} /\ (v = "fwait" => s.st = v)
    BY <2>1
  <2> HIDE DEF t, S, s, e, v, f, E
  <2>4. /\ f \in TunEnd /\ f.fin /\ f.told = e.told /\ f.task = e.task /\ f.read = e.read
        /\ f.sent = e.sent /\ SameSaid(f, e) /\ SameEof(f, e)
    BY <1>1, <2>2, EndSegments
  <2>5. Honest(f)
    <3>1. ~e.eof
      BY <1>1, <2>1, Zenon DEF Honest
    <3>2. ~f.eof
      BY <2>4, <3>1, Zenon DEF SameEof
    <3>3. QED
      BY <1>1, <2>4, <3>2 DEF Honest, SameSaid
  <2>6. ConnInv(t, f)
    BY <1>1, <2>1, <2>2, <2>3, <2>4, <2>5, StateKeeps
  <2>7. f.told # "new"
    BY <2>1, <2>4
  <2>8. QED
    BY <1>1, <2>1, <2>2, <2>6, <2>7, TurnKeeps
<1>6. CASE GuestRst(c)
  <2> DEFINE v == IF s.st = "syn" THEN "listen" ELSE "closed"
             t == [s EXCEPT !.st = v]
             S == [socks EXCEPT ![c] = t]
             f == [e EXCEPT !.told = "gone"]
             E == [ends EXCEPT ![c] = f]
  <2>1. s.st \notin {"none", "listen", "closed"} /\ e.told \in {"open", "fin"} /\ Turn(S, E, c, 0)
    BY <1>6 DEF GuestRst
  <2>2. /\ StIs(t, s, v) /\ Put(S, socks, c, t) /\ ToldIs(f, e, "gone") /\ Put(E, ends, c, f)
    BY DEF StIs, Put, ToldIs
  <2>3. v \in {"listen", "closed"} /\ (v = "listen" => s.st = "syn")
    OBVIOUS
  <2> HIDE DEF t, S, s, e, v, f, E
  <2>4. f \in TunEnd /\ f.told = "gone" /\ f.task = e.task /\ SameHeard(f, e) /\ SameSaid(f, e)
    BY <1>1, <2>2, EndSegments
  <2>5. Honest(f) /\ f.read = e.read /\ f.sent = e.sent
    BY <2>4 DEF Honest, SameHeard
  <2>6. e.fin => f.fin
    BY <2>4, Zenon DEF SameHeard
  <2>7. ConnInv(t, f)
    BY <1>1, <2>1, <2>2, <2>3, <2>4, <2>5, <2>6, StateKeeps
  <2>8. QED
    BY <1>1, <2>1, <2>2, <2>4, <2>7, TurnKeeps
<1>7. QED
  BY <1>4, <1>5, <1>6

RxIs(t, s, x) == t = [s EXCEPT !.rx = x]

\* A socket that receives.
LEMMA SockRx ==
  ASSUME NEW s \in TunSock, NEW x \in Seq(Nat), NEW t, RxIs(t, s, x)
  PROVE  /\ t \in TunSock /\ SameOut(t, s) /\ SameSt(t, s) /\ SameTo(t, s)
         /\ t.chan = s.chan /\ t.read_pending = s.read_pending /\ t.rx = x
<1>1. t \in TunSock
  BY DEF TunSock, RxIs
<1>2. SameOut(t, s) /\ SameSt(t, s) /\ SameTo(t, s)
  BY DEF TunSock, RxIs, SameOut, SameSt, SameTo
<1>3. t.chan = s.chan /\ t.read_pending = s.read_pending /\ t.rx = x
  BY DEF TunSock, RxIs
<1>4. QED
  BY <1>1, <1>2, <1>3

\* The guest's data.
LEMMA GuestDataKeeps ==
  ASSUME TcpInv, NEW c \in Conns, GuestData(c)
  PROVE  TcpInv' /\ UNCHANGED <<udp, turned>>
<1> DEFINE s == socks[c]
           e == ends[c]
           x == Append(s.rx, e.sent + 1)
           t == [s EXCEPT !.rx = x]
           S == [socks EXCEPT ![c] = t]
           f == [e EXCEPT !.sent = @ + 1]
           E == [ends EXCEPT ![c] = f]
<1>1. /\ s \in TunSock /\ e \in TunEnd /\ Honest(e) /\ 0 \in Nat
      /\ s.st # "none" => TrackedInv(s, e)
  BY OneConn
<1>2. s.st \in {"est", "fwait"} /\ ~e.fin /\ e.told \in {"open", "fin"} /\ Turn(S, E, c, 0)
  BY DEF GuestData
<1>3. RxIs(t, s, x) /\ Put(S, socks, c, t) /\ SentIs(f, e) /\ Put(E, ends, c, f)
  BY DEF RxIs, Put, SentIs
<1>4. TrackedInv(s, e)
  BY <1>1, <1>2
<1> HIDE DEF s, e, t, S, f, E
<1>5. Flow(e.read, s.chan, s.read_pending, x, e.sent + 1, CHANNEL_CAP)
  <2>1. Flow(e.read, s.chan, s.read_pending, s.rx, e.sent, CHANNEL_CAP)
    BY <1>4 DEF TrackedInv, Streams
  <2>2. QED
    BY <2>1, FlowGrows, BuffersAssumption
<1>6. x \in Seq(Nat)
  BY <1>5 DEF Flow
<1> HIDE DEF x
<1>7. /\ t \in TunSock /\ SameOut(t, s) /\ SameSt(t, s) /\ SameTo(t, s)
      /\ t.chan = s.chan /\ t.read_pending = s.read_pending /\ t.rx = x
  BY <1>1, <1>3, <1>6, SockRx
<1>8. /\ f \in TunEnd /\ f.told = e.told /\ f.task = e.task /\ f.read = e.read
      /\ f.sent = e.sent + 1 /\ SameSaid(f, e) /\ SameEof(f, e) /\ SameFin(f, e)
  BY <1>1, <1>3, EndSegments
<1>9. Honest(f)
  <2>1. ~e.eof
    BY <1>1, <1>2, Zenon DEF Honest
  <2>2. ~f.eof
    BY <1>8, <2>1, Zenon DEF SameEof
  <2>3. QED
    BY <1>1, <1>8, <2>2 DEF Honest, SameSaid
<1>10. Streams(t, f)
  BY <1>4, <1>5, <1>7, <1>8 DEF TrackedInv, Streams, SameOut, SameSaid
<1>11. Shut(t, f)
  <2>1. t.to_proxy
    <3>1. s.to_proxy
      BY <1>2, <1>4, Zenon DEF TrackedInv, Shut
    <3>2. QED
      BY <1>7, <3>1, Zenon DEF SameTo
  <2>2. t.st = s.st
    BY <1>7 DEF SameSt
  <2>3. t.st \in {"fwait", "last"} => t.write_pending = <<>> /\ t.back = <<>> /\ f.task = "done"
    BY <1>4, <1>7, <1>8, <2>2 DEF TrackedInv, Shut, SameOut
  <2>4. t.st \notin {"cwait", "last", "closed"}
    BY <1>2, <2>2
  <2>5. QED
    BY <2>1, <2>3, <2>4 DEF Shut
<1>12. TaskIs(t, f)
  BY <1>4, <1>7, <1>8, Zenon DEF TrackedInv, TaskIs, SameSt, SameOut
<1>13. ConnInv(t, f) /\ f.told # "new"
  <2>1. t.st # "none" /\ f.told # "new"
    BY <1>2, <1>7, <1>8 DEF SameSt
  <2>2. QED
    BY <1>7, <1>8, <1>9, <1>10, <1>11, <1>12, <2>1 DEF ConnInv, TrackedInv
<1>14. QED
  BY <1>1, <1>2, <1>3, <1>13, TurnKeeps

\* A segment the tracker no longer knows, and a turn without one.
LEMMA OtherTurnsKeep ==
  ASSUME TcpInv, NEW c \in Conns, LateSegment(c) \/ Timer(c)
  PROVE  TcpInv' /\ UNCHANGED <<udp, turned>>
<1> DEFINE s == socks[c]
           e == ends[c]
<1>1. /\ s \in TunSock /\ e \in TunEnd /\ Honest(e) /\ 0 \in Nat /\ ConnInv(s, e)
      /\ s.st = "none" => DroppedInv(s, e)
      /\ s.st # "none" => e.told # "new"
  BY OneConn DEF NoConn
<1>2. Put(socks, socks, c, s) /\ Put(ends, ends, c, e)
  BY DEF Put, TcpInv
<1>3. CASE Timer(c)
  <2>1. s.st # "none" /\ \E n \in 1..BufCap : Turn(socks, ends, c, n)
    BY <1>3 DEF Timer
  <2>2. PICK n \in 1..BufCap : Turn(socks, ends, c, n)
    BY <2>1
  <2>3. n \in Nat
    BY <2>2, BuffersAssumption
  <2> HIDE DEF s, e
  <2>4. QED
    BY <1>1, <1>2, <2>1, <2>2, <2>3, TurnKeeps
<1>4. CASE LateSegment(c)
  <2> DEFINE f == [e EXCEPT !.sent = @ + 1, !.told = "rst"]
             E == [ends EXCEPT ![c] = f]
  <2>1. s.st = "none" /\ ~e.fin /\ e.told = "open" /\ Turn(socks, E, c, 0)
    BY <1>4 DEF LateSegment
  <2>2. LateIs(f, e) /\ Put(E, ends, c, f)
    BY DEF LateIs, Put
  <2> HIDE DEF s, e, f, E
  <2>3. /\ f \in TunEnd /\ f.told = "rst" /\ f.task = e.task /\ f.read = e.read
        /\ f.sent = e.sent + 1 /\ SameSaid(f, e) /\ SameEof(f, e) /\ SameFin(f, e)
    BY <1>1, <2>2, EndSegments
  <2>4. ~f.eof
    <3>1. ~e.eof
      BY <1>1, <2>1, Zenon DEF Honest
    <3>2. QED
      BY <2>3, <3>1, Zenon DEF SameEof
  <2>5. Honest(f)
    BY <2>3, <2>4 DEF Honest
  <2>6. DroppedInv(s, e) /\ e.task # "run"
    BY <1>1, <2>1 DEF DroppedInv
  <2>7. Heard(s.chan, f)
    <3>1. e.sent \in Nat /\ Len(e.read) \in Nat /\ Len(s.chan) \in Nat
      BY <1>1, EndFields, SockFields
    <3>2. Len(e.read) + Len(s.chan) <= e.sent + 1
      <4>1. Len(e.read) + Len(s.chan) <= e.sent
        BY <2>6 DEF DroppedInv, Heard
      <4>2. \A i, j, k \in Nat : i + j <= k => i + j <= k + 1
        OBVIOUS
      <4>3. QED
        BY <3>1, <4>1, <4>2
    <3>3. QED
      BY <2>3, <2>6, <3>2 DEF DroppedInv, Heard, SameSaid
  <2>8. DroppedInv(s, f)
    BY <2>3, <2>6, <2>7 DEF DroppedInv
  <2>9. ConnInv(s, f) /\ f.told # "new"
    BY <1>1, <2>1, <2>3, <2>5, <2>8 DEF ConnInv
  <2>10. QED
    BY <1>1, <1>2, <2>1, <2>2, <2>9, TurnKeeps
<1>5. QED
  BY <1>3, <1>4

\* A step of the task at one connection.
LEMMA TaskStepKeeps ==
  ASSUME TcpInv, NEW c \in Conns, NEW t, NEW f, ConnInv(t, f), f.told # "new", t.st # "closed",
         Put(socks', socks, c, t), Put(ends', ends, c, f)
  PROVE  TcpInv'
<1>1. t \in TunSock /\ f \in TunEnd
  BY DEF ConnInv
<1>2. socks' \in [Conns -> TunSock] /\ ends' \in [Conns -> TunEnd]
  BY <1>1 DEF TcpInv, Put
<1>3. ASSUME NEW d \in Conns PROVE Rested(socks'[d], ends'[d])
  <2>1. CASE d = c
    <3>1. socks'[d] = t /\ ends'[d] = f
      BY <2>1 DEF TcpInv, Put
    <3>2. QED
      BY <3>1 DEF Rested, Fresh
  <2>2. CASE d # c
    <3>1. socks'[d] = socks[d] /\ ends'[d] = ends[d]
      BY <2>2 DEF TcpInv, Put
    <3>2. QED
      BY <3>1 DEF TcpInv
  <2>3. QED
    BY <2>1, <2>2
<1>4. QED
  BY <1>2, <1>3 DEF TcpInv

\* What a running task's connection is.
LEMMA Running ==
  ASSUME TcpInv, NEW c \in Conns, ends[c].task = "run"
  PROVE  /\ ends[c].told \notin {"new", "fin"}
         /\ socks[c].st # "none" => /\ ~AbortLast(socks[c].back) /\ socks[c].spawned
                                    /\ socks[c].st \notin {"fwait", "last", "closed"}
         /\ socks[c].st = "none" => ends[c].told = "gone"
<1>1. ends[c].told # "new"
  BY OneConn DEF NoEnds
<1>2. ends[c].told # "fin"
  BY OneConn DEF Honest
<1>3. ASSUME socks[c].st # "none"
      PROVE  ~AbortLast(socks[c].back) /\ socks[c].spawned /\ socks[c].st \notin {"fwait", "last", "closed"}
  <2>1. TrackedInv(socks[c], ends[c])
    BY <1>3, OneConn
  <2>2. socks[c].spawned
    <3>1. ends[c].task # "none"
      OBVIOUS
    <3>2. QED
      BY <2>1, <3>1, Zenon DEF TrackedInv, TaskIs
  <2>3. ~AbortLast(socks[c].back)
    BY <2>1 DEF TrackedInv, TaskIs
  <2>4. socks[c].st \notin {"fwait", "last", "closed"}
    BY <2>1, OneConn DEF TrackedInv, Shut
  <2>5. QED
    BY <2>2, <2>3, <2>4
<1>4. socks[c].st = "none" => ends[c].told = "gone"
  BY OneConn DEF DroppedInv
<1>5. QED
  BY <1>1, <1>2, <1>3, <1>4

\* The task ends, well or not.
LEMMA TaskEndKeeps ==
  ASSUME TcpInv, NEW c \in Conns, ends[c].task = "run", NEW v \in {"done", "failed"},
         NEW t, NEW f, EndTaskIs(f, ends[c], v), t \in TunSock,
         SameIn(t, socks[c]), SameSt(t, socks[c]), t.tx = socks[c].tx,
         t.write_pending = socks[c].write_pending, Units(t.back) = Units(socks[c].back),
         AbortLast(t.back) <=> v = "failed" /\ socks[c].st # "none",
         socks[c].st = "none" => t.back = socks[c].back
  PROVE  ConnInv(t, f) /\ f.told # "new" /\ t.st # "closed"
<1> DEFINE s == socks[c]
           e == ends[c]
<1>1. /\ s \in TunSock /\ e \in TunEnd /\ Honest(e) /\ s.st # "closed"
      /\ s.st # "none" => TrackedInv(s, e)
      /\ s.st = "none" => DroppedInv(s, e)
  BY OneConn
<1>2. /\ e.told \notin {"new", "fin"}
      /\ s.st # "none" => s.spawned /\ s.st \notin {"fwait", "last", "closed"}
  BY Running
<1>3. f \in TunEnd /\ f.task = v /\ f.told = e.told /\ SameHeard(f, e) /\ SameSaid(f, e)
  BY <1>1, EndTask
<1>4. t.st = s.st
  BY DEF SameSt
<1> HIDE DEF s, e
<1>5. Honest(f)
  <2>1. f.eof /\ f.told # "gone" => f.fin /\ Len(f.read) = f.sent
    BY <1>1, <1>3, Zenon DEF Honest, SameHeard
  <2>2. QED
    BY <1>2, <1>3, <2>1 DEF Honest
<1>6. CASE s.st # "none"
  <2>1. TrackedInv(s, e)
    BY <1>1, <1>6
  <2>2. Streams(t, f)
    BY <1>3, <2>1 DEF TrackedInv, Streams, SameIn, SameHeard, SameSaid, s
  <2>3. Shut(t, f)
    <3>1. t.st \in {"cwait", "last"} => f.fin
      BY <1>3, <1>4, <2>1, Zenon DEF TrackedInv, Shut, SameHeard
    <3>2. ~t.to_proxy => t.rx = <<>> /\ t.read_pending = <<>> /\ f.fin
      <4>1. SameIn(t, s)
        BY DEF s
      <4>2. QED
        BY <1>3, <2>1, <4>1, Zenon DEF TrackedInv, Shut, SameIn, SameHeard
    <3>3. t.st \notin {"fwait", "last", "closed"}
      BY <1>2, <1>4, <1>6
    <3>4. QED
      BY <3>1, <3>2, <3>3 DEF Shut
  <2>4. TaskIs(t, f)
    <3>1. t.spawned
      <4>1. SameSt(t, s) /\ s.spawned
        BY <1>2, <1>6 DEF s
      <4>2. QED
        BY <4>1, Zenon DEF SameSt
    <3>2. t.st \notin {"listen", "syn"}
      <4>1. s.spawned
        BY <1>2, <1>6
      <4>2. s.st \notin {"listen", "syn"}
        BY <2>1, <4>1, Zenon DEF TrackedInv, TaskIs
      <4>3. QED
        BY <1>4, <4>2
    <3>3. AbortLast(t.back) <=> f.task = "failed"
      BY <1>3, <1>6 DEF s
    <3>4. QED
      BY <3>1, <3>2, <3>3 DEF TaskIs
  <2>5. QED
    BY <1>1, <1>2, <1>3, <1>4, <1>5, <1>6, <2>2, <2>3, <2>4 DEF ConnInv, TrackedInv
<1>7. CASE s.st = "none"
  <2>1. DroppedInv(s, e)
    BY <1>1, <1>7
  <2>2. SameIn(t, s) /\ t.tx = s.tx /\ t.write_pending = s.write_pending /\ t.back = s.back /\ SameSt(t, s)
    BY <1>7 DEF s
  <2>3. Heard(t.chan, f)
    BY <1>3, <2>1, <2>2 DEF DroppedInv, Heard, SameIn, SameHeard, SameSaid
  <2>4. ~t.spawned
    BY <2>1, <2>2, Zenon DEF DroppedInv, SameSt
  <2>5. DroppedInv(t, f)
    BY <1>3, <2>1, <2>2, <2>3, <2>4 DEF DroppedInv, SameIn
  <2>6. QED
    BY <1>1, <1>2, <1>3, <1>4, <1>5, <1>7, <2>5 DEF ConnInv
<1>8. QED
  BY <1>6, <1>7

BackIs(t, s, b) == t = [s EXCEPT !.back = b]

\* A socket with another channel from the task.
LEMMA SockBack ==
  ASSUME NEW s \in TunSock, NEW b \in Seq(Nat), NEW t, BackIs(t, s, b)
  PROVE  /\ t \in TunSock /\ SameIn(t, s) /\ SameSt(t, s)
         /\ t.tx = s.tx /\ t.write_pending = s.write_pending /\ t.back = b
<1>1. t \in TunSock
  BY DEF TunSock, BackIs
<1>2. SameIn(t, s) /\ SameSt(t, s)
  BY DEF TunSock, BackIs, SameIn, SameSt
<1>3. t.tx = s.tx /\ t.write_pending = s.write_pending /\ t.back = b
  BY DEF TunSock, BackIs
<1>4. QED
  BY <1>1, <1>2, <1>3

\* What the task sends, and its Abort, at the end of its channel.
LEMMA MailGrows ==
  ASSUME NEW back \in Seq(Nat), ~AbortLast(back)
  PROVE  /\ Units(back) = back
         /\ AbortLast(Append(back, Abort)) /\ Units(Append(back, Abort)) = back
         /\ Append(back, Abort) \in Seq(Nat)
         /\ \A n \in Nat : /\ Append(back, n + 1) \in Seq(Nat) /\ ~AbortLast(Append(back, n + 1))
                           /\ Units(Append(back, n + 1)) = Append(back, n + 1)
<1>1. Units(back) = back
  BY DEF Units
<1>2. /\ Append(back, Abort) \in Seq(Nat) /\ Len(Append(back, Abort)) = Len(back) + 1
      /\ Append(back, Abort)[Len(back) + 1] = Abort /\ Append(back, Abort) # <<>>
  BY DEF Abort
<1>3. AbortLast(Append(back, Abort))
  BY <1>2 DEF AbortLast
<1>4. SubSeq(Append(back, Abort), 1, Len(back)) = back
  BY DEF Abort
<1>5. Len(back) + 1 - 1 = Len(back)
  OBVIOUS
<1>6. Units(Append(back, Abort)) = back
  BY <1>2, <1>3, <1>4, <1>5 DEF Units
<1>7. ASSUME NEW n \in Nat
      PROVE  /\ Append(back, n + 1) \in Seq(Nat) /\ ~AbortLast(Append(back, n + 1))
             /\ Units(Append(back, n + 1)) = Append(back, n + 1)
  <2>1. /\ Append(back, n + 1) \in Seq(Nat) /\ Len(Append(back, n + 1)) = Len(back) + 1
        /\ Append(back, n + 1)[Len(back) + 1] = n + 1
    OBVIOUS
  <2>2. ~AbortLast(Append(back, n + 1))
    BY <2>1 DEF AbortLast, Abort
  <2>3. QED
    BY <2>1, <2>2 DEF Units
<1>8. QED
  BY <1>1, <1>2, <1>3, <1>6, <1>7

\* The task returns or fails.
LEMMA TaskEndsKeep ==
  ASSUME TcpInv, NEW c \in Conns, TaskDone(c) \/ TaskFails(c)
  PROVE  TcpInv' /\ UNCHANGED <<udp, turned>>
<1> DEFINE s == socks[c]
           e == ends[c]
<1>1. e.task = "run" /\ UNCHANGED <<udp, turned>>
  BY DEF TaskDone, TaskFails
<1>2. s \in TunSock /\ e \in TunEnd /\ s.back \in Seq(Nat)
  BY OneConn, SockFields
<1>3. Put(socks, socks, c, s) /\ SameIn(s, s) /\ SameSt(s, s)
  BY DEF Put, TcpInv, SameIn, SameSt
<1>4. s.st # "none" => ~AbortLast(s.back)
  BY <1>1, Running
<1>5. s.st = "none" => ~AbortLast(s.back)
  BY OneConn DEF DroppedInv, AbortLast
<1>6. CASE TaskDone(c)
  <2> DEFINE f == [e EXCEPT !.task = "done"]
  <2>1. EndTaskIs(f, e, "done") /\ Put(ends', ends, c, f) /\ Put(socks', socks, c, s)
    BY <1>3, <1>6 DEF TaskDone, EndTaskIs, Put
  <2> HIDE DEF f
  <2>2. ConnInv(s, f) /\ f.told # "new" /\ s.st # "closed"
    BY <1>1, <1>2, <1>3, <1>4, <1>5, <2>1, TaskEndKeeps
  <2>3. QED
    BY <1>1, <2>1, <2>2, TaskStepKeeps
<1>7. CASE TaskFails(c)
  <2> DEFINE f == [e EXCEPT !.task = "failed"]
  <2>1. EndTaskIs(f, e, "failed") /\ Put(ends', ends, c, f)
    BY <1>7 DEF TaskFails, EndTaskIs, Put
  <2> HIDE DEF f
  <2>2. CASE s.st = "none"
    <3>1. Put(socks', socks, c, s)
      BY <1>3, <1>7, <2>2 DEF TaskFails
    <3>2. ConnInv(s, f) /\ f.told # "new" /\ s.st # "closed"
      BY <1>1, <1>2, <1>3, <1>5, <2>1, <2>2, TaskEndKeeps
    <3>3. QED
      BY <1>1, <2>1, <3>1, <3>2, TaskStepKeeps
  <2>3. CASE s.st # "none"
    <3> DEFINE b == Append(s.back, Abort)
               t == [s EXCEPT !.back = b]
    <3>1. BackIs(t, s, b) /\ Put(socks', socks, c, t)
      BY <1>7, <2>3 DEF TaskFails, BackIs, Put
    <3>2. AbortLast(b) /\ Units(b) = Units(s.back) /\ b \in Seq(Nat)
      BY <1>2, <1>4, <2>3, MailGrows
    <3> HIDE DEF b, t
    <3>3. /\ t \in TunSock /\ SameIn(t, s) /\ SameSt(t, s)
          /\ t.tx = s.tx /\ t.write_pending = s.write_pending /\ t.back = b
      BY <1>2, <3>1, <3>2, SockBack
    <3>4. ConnInv(t, f) /\ f.told # "new" /\ t.st # "closed"
      BY <1>1, <2>1, <2>3, <3>2, <3>3, TaskEndKeeps
    <3>5. QED
      BY <1>1, <2>1, <3>1, <3>4, TaskStepKeeps
  <2>4. QED
    BY <2>2, <2>3
<1>8. QED
  BY <1>6, <1>7

EofIs(f, e) == f = [e EXCEPT !.eof = TRUE]
WroteIs(f, e) == f = [e EXCEPT !.wrote = @ + 1]
ReadIs(f, e, x) == f = [e EXCEPT !.read = x]
ChanOnly(t, s, x) == t = [s EXCEPT !.chan = x]

\* The task's end of a connection after a read or a write.
LEMMA EndTaskReads ==
  ASSUME NEW e \in TunEnd, NEW f, NEW x \in Seq(Nat)
  PROVE  /\ EofIs(f, e) => /\ f \in TunEnd /\ f.eof /\ f.told = e.told /\ f.task = e.task /\ f.read = e.read
                           /\ f.sent = e.sent /\ SameSaid(f, e) /\ SameFin(f, e)
         /\ WroteIs(f, e) => /\ f \in TunEnd /\ f.told = e.told /\ f.task = e.task /\ SameHeard(f, e)
                             /\ f.got = e.got /\ f.wrote = e.wrote + 1
         /\ ReadIs(f, e, x) => /\ f \in TunEnd /\ f.told = e.told /\ f.task = e.task /\ f.read = x
                               /\ f.sent = e.sent /\ SameSaid(f, e) /\ SameEof(f, e) /\ SameFin(f, e)
<1>1. e.wrote + 1 \in Nat
  BY EndFields
<1>2. /\ EofIs(f, e) => f \in TunEnd
      /\ WroteIs(f, e) => f \in TunEnd
      /\ ReadIs(f, e, x) => f \in TunEnd
  BY <1>1 DEF EofIs, WroteIs, ReadIs, TunEnd
<1>3. EofIs(f, e) => /\ f.eof /\ f.told = e.told /\ f.task = e.task /\ f.read = e.read
                     /\ f.sent = e.sent /\ SameSaid(f, e) /\ SameFin(f, e)
  BY DEF EofIs, TunEnd, SameSaid, SameFin
<1>4. WroteIs(f, e) => /\ f.told = e.told /\ f.task = e.task /\ SameHeard(f, e)
                       /\ f.got = e.got /\ f.wrote = e.wrote + 1
  BY DEF WroteIs, TunEnd, SameHeard
<1>5. ReadIs(f, e, x) => /\ f.told = e.told /\ f.task = e.task /\ f.read = x
                         /\ f.sent = e.sent /\ SameSaid(f, e) /\ SameEof(f, e) /\ SameFin(f, e)
  BY DEF ReadIs, TunEnd, SameSaid, SameEof, SameFin
<1>6. QED
  BY <1>2, <1>3, <1>4, <1>5

\* A socket with another channel to the task.
LEMMA SockChanOnly ==
  ASSUME NEW s \in TunSock, NEW x \in Seq(Nat), NEW t, ChanOnly(t, s, x)
  PROVE  /\ t \in TunSock /\ SameOut(t, s) /\ SameSt(t, s) /\ SameTo(t, s)
         /\ t.chan = x /\ t.read_pending = s.read_pending /\ t.rx = s.rx
<1>1. t \in TunSock
  BY DEF TunSock, ChanOnly
<1>2. SameOut(t, s) /\ SameSt(t, s) /\ SameTo(t, s)
  BY DEF TunSock, ChanOnly, SameOut, SameSt, SameTo
<1>3. t.chan = x /\ t.read_pending = s.read_pending /\ t.rx = s.rx
  BY DEF TunSock, ChanOnly
<1>4. QED
  BY <1>1, <1>2, <1>3

\* The task writes.
LEMMA WriteKeeps ==
  ASSUME TcpInv, NEW c \in Conns, poll_write(c)
  PROVE  TcpInv' /\ UNCHANGED <<udp, turned>>
<1> DEFINE s == socks[c]
           e == ends[c]
           b == Append(s.back, e.wrote + 1)
           t == [s EXCEPT !.back = b]
           f == [e EXCEPT !.wrote = @ + 1]
<1>1. e.task = "run" /\ s.st # "none" /\ UNCHANGED <<udp, turned>>
  BY DEF poll_write
<1>2. /\ BackIs(t, s, b) /\ Put(socks', socks, c, t)
      /\ WroteIs(f, e) /\ Put(ends', ends, c, f)
  BY DEF poll_write, BackIs, Put, WroteIs
<1>3. /\ s \in TunSock /\ e \in TunEnd /\ Honest(e) /\ TrackedInv(s, e) /\ s.back \in Seq(Nat)
      /\ e.wrote \in Nat
  BY <1>1, OneConn, SockFields, EndFields
<1>4. /\ e.told \notin {"new", "fin"} /\ ~AbortLast(s.back) /\ s.spawned
      /\ s.st \notin {"fwait", "last", "closed"}
  BY <1>1, Running
<1> HIDE DEF s, e
<1>5. b \in Seq(Nat) /\ ~AbortLast(b) /\ Units(b) = b /\ Units(s.back) = s.back
  BY <1>3, <1>4, MailGrows
<1>6. Flow(e.got, s.tx, s.write_pending, b, e.wrote + 1, BufCap)
  <2>1. Flow(e.got, s.tx, s.write_pending, s.back, e.wrote, BufCap)
    BY <1>3, <1>5 DEF TrackedInv, Streams
  <2>2. QED
    BY <2>1, FlowGrows, BuffersAssumption
<1> HIDE DEF b, t, f
<1>7. /\ t \in TunSock /\ SameIn(t, s) /\ SameSt(t, s)
      /\ t.tx = s.tx /\ t.write_pending = s.write_pending /\ t.back = b
  BY <1>2, <1>3, <1>5, SockBack
<1>8. /\ f \in TunEnd /\ f.told = e.told /\ f.task = e.task /\ SameHeard(f, e)
      /\ f.got = e.got /\ f.wrote = e.wrote + 1
  BY <1>2, <1>3, <1>5, EndTaskReads
<1>9. Honest(f)
  <2>1. f.eof /\ f.told # "gone" => f.fin /\ Len(f.read) = f.sent
    BY <1>3, <1>8, Zenon DEF Honest, SameHeard
  <2>2. QED
    BY <1>4, <1>8, <2>1 DEF Honest
<1>10. Streams(t, f)
  BY <1>3, <1>5, <1>6, <1>7, <1>8 DEF TrackedInv, Streams, SameIn, SameHeard
<1>11. Shut(t, f)
  <2>1. t.st \in {"cwait", "last"} => f.fin
    BY <1>3, <1>7, <1>8, Zenon DEF TrackedInv, Shut, SameSt, SameHeard
  <2>2. ~t.to_proxy => t.rx = <<>> /\ t.read_pending = <<>> /\ f.fin
    BY <1>3, <1>7, <1>8, Zenon DEF TrackedInv, Shut, SameIn, SameHeard
  <2>3. t.st \notin {"fwait", "last", "closed"}
    BY <1>4, <1>7 DEF SameSt
  <2>4. QED
    BY <2>1, <2>2, <2>3 DEF Shut
<1>12. TaskIs(t, f)
  <2>1. t.spawned
    BY <1>4, <1>7, Zenon DEF SameSt
  <2>2. s.st \notin {"listen", "syn"}
    BY <1>3, <1>4, Zenon DEF TrackedInv, TaskIs
  <2>3. t.st \notin {"listen", "syn"} /\ f.task # "failed" /\ ~AbortLast(t.back)
    BY <1>1, <1>5, <1>7, <1>8, <2>2 DEF SameSt, e
  <2>4. QED
    BY <2>1, <2>3 DEF TaskIs
<1>13. ConnInv(t, f) /\ f.told # "new" /\ t.st # "closed"
  <2>1. t.st # "none" /\ f.told # "new" /\ t.st # "closed"
    BY <1>1, <1>4, <1>7, <1>8 DEF SameSt, s
  <2>2. QED
    BY <1>7, <1>8, <1>9, <1>10, <1>11, <1>12, <2>1 DEF ConnInv, TrackedInv
<1>14. QED
  BY <1>1, <1>2, <1>13, TaskStepKeeps

\* A sequence after another.
LEMMA OneAfter ==
  ASSUME NEW a \in Seq(Nat), NEW w \in Seq(Nat)
  PROVE  /\ a \o w \in Seq(Nat) /\ Len(a \o w) = Len(a) + Len(w)
         /\ \A i \in 1..Len(a) : (a \o w)[i] = a[i]
         /\ \A i \in 1..Len(w) : (a \o w)[Len(a) + i] = w[i]
<1>1. a \o w \in Seq(Nat) /\ Len(a \o w) = Len(a) + Len(w)
  OBVIOUS
<1>2. \A i \in 1..Len(a) : (a \o w)[i] = a[i]
  OBVIOUS
<1>3. ASSUME NEW i \in 1..Len(w) PROVE (a \o w)[Len(a) + i] = w[i]
  <2>1. (a \o w)[Len(a) + i] = w[(Len(a) + i) - Len(a)]
    OBVIOUS
  <2>2. (Len(a) + i) - Len(a) = i
    OBVIOUS
  <2>3. QED
    BY <2>1, <2>2
<1>4. QED
  BY <1>1, <1>2, <1>3

\* The next unit of a channel.
LEMMA ReadsNext ==
  ASSUME NEW a \in Seq(Nat), NEW b \in Seq(Nat), b # <<>>
  PROVE  /\ Append(a, Head(b)) = a \o SubSeq(b, 1, 1) /\ Tail(b) = SubSeq(b, 1 + 1, Len(b))
         /\ 1 <= Len(b) /\ Len(Tail(b)) = Len(b) - 1 /\ Len(Append(a, Head(b))) = Len(a) + 1
         /\ Append(a, Head(b)) \in Seq(Nat) /\ Tail(b) \in Seq(Nat)
<1>1. 1 <= Len(b)
  OBVIOUS
<1>2. Head(b) = b[1] /\ b[1] \in Nat
  BY <1>1
<1> DEFINE w == SubSeq(b, 1, 1)
<1>3. w \in Seq(Nat) /\ Len(w) = 1 /\ w[1] = b[1]
  BY <1>1
<1> HIDE DEF w
<1>4. /\ a \o w \in Seq(Nat) /\ Len(a \o w) = Len(a) + 1
      /\ \A i \in 1..Len(a) : (a \o w)[i] = a[i]
      /\ (a \o w)[Len(a) + 1] = b[1]
  <2>1. /\ a \o w \in Seq(Nat) /\ Len(a \o w) = Len(a) + Len(w)
        /\ \A i \in 1..Len(a) : (a \o w)[i] = a[i]
        /\ \A i \in 1..Len(w) : (a \o w)[Len(a) + i] = w[i]
    BY <1>3, OneAfter
  <2>2. (a \o w)[Len(a) + 1] = w[1]
    BY <1>3, <2>1
  <2>3. QED
    BY <1>3, <2>1, <2>2
<1>5. Append(a, Head(b)) = a \o SubSeq(b, 1, 1)
  <2>1. /\ Append(a, b[1]) \in Seq(Nat) /\ Len(Append(a, b[1])) = Len(a) + 1
        /\ \A i \in 1..Len(a) : Append(a, b[1])[i] = a[i]
        /\ Append(a, b[1])[Len(a) + 1] = b[1]
    BY <1>2
  <2>2. Append(a, b[1]) = a \o w
    BY <1>4, <2>1
  <2>3. QED
    BY <1>2, <2>2 DEF w
<1>6. Tail(b) = SubSeq(b, 1 + 1, Len(b)) /\ Len(Tail(b)) = Len(b) - 1 /\ Tail(b) \in Seq(Nat)
  BY <1>1
<1>7. Len(Append(a, Head(b))) = Len(a) + 1 /\ Append(a, Head(b)) \in Seq(Nat)
  BY <1>2
<1>8. QED
  BY <1>1, <1>5, <1>6, <1>7

\* The task reads.
LEMMA ReadKeeps ==
  ASSUME TcpInv, NEW c \in Conns, poll_read(c)
  PROVE  TcpInv' /\ UNCHANGED <<udp, turned>>
<1> DEFINE s == socks[c]
           e == ends[c]
           x == Append(e.read, Head(s.chan))
           y == Tail(s.chan)
           t == [s EXCEPT !.chan = y]
           f == [e EXCEPT !.read = x]
<1>1. e.task = "run" /\ s.chan # <<>> /\ UNCHANGED <<udp, turned>>
  BY DEF poll_read
<1>2. /\ ChanOnly(t, s, y) /\ Put(socks', socks, c, t)
      /\ ReadIs(f, e, x) /\ Put(ends', ends, c, f)
  BY DEF poll_read, ChanOnly, Put, ReadIs
<1>3. /\ s \in TunSock /\ e \in TunEnd /\ Honest(e) /\ s.st # "closed"
      /\ s.chan \in Seq(Nat) /\ e.read \in Seq(Nat) /\ e.sent \in Nat
      /\ Len(s.chan) \in Nat /\ Len(e.read) \in Nat
      /\ s.st # "none" => TrackedInv(s, e)
      /\ s.st = "none" => DroppedInv(s, e)
  BY OneConn, SockFields, EndFields
<1>4. e.told \notin {"new", "fin"}
  BY <1>1, Running
<1> HIDE DEF s, e
<1>5. /\ x = e.read \o SubSeq(s.chan, 1, 1) /\ y = SubSeq(s.chan, 1 + 1, Len(s.chan))
      /\ 1 <= Len(s.chan) /\ Len(y) = Len(s.chan) - 1 /\ Len(x) = Len(e.read) + 1
      /\ x \in Seq(Nat) /\ y \in Seq(Nat)
  BY <1>1, <1>3, ReadsNext
<1> HIDE DEF x, y, t, f
<1>6. /\ t \in TunSock /\ SameOut(t, s) /\ SameSt(t, s) /\ SameTo(t, s)
      /\ t.chan = y /\ t.read_pending = s.read_pending /\ t.rx = s.rx
  BY <1>2, <1>3, <1>5, SockChanOnly, ZenonT(30)
<1>7. /\ f \in TunEnd /\ f.told = e.told /\ f.task = e.task /\ f.read = x
      /\ f.sent = e.sent /\ SameSaid(f, e) /\ SameEof(f, e) /\ SameFin(f, e)
  BY <1>2, <1>3, <1>5, EndTaskReads
<1>8. Heard(s.chan, e)
  BY <1>3, TrackedHeard DEF DroppedInv
<1>9. Honest(f)
  <2>1. Len(e.read) # e.sent
    <3>1. Len(e.read) + Len(s.chan) <= e.sent
      BY <1>8 DEF Heard
    <3>2. \A i, j, k \in Nat : i + j <= k /\ 1 <= j => i # k
      OBVIOUS
    <3>3. QED
      BY <1>3, <1>5, <3>1, <3>2
  <2>2. ~(e.eof /\ e.told # "gone")
    BY <1>3, <2>1, Zenon DEF Honest
  <2>3. ~(f.eof /\ f.told # "gone")
    BY <1>7, <2>2, Zenon DEF SameEof
  <2>4. QED
    BY <1>4, <1>7, <2>3 DEF Honest
<1>10. t.st = s.st
  BY <1>6 DEF SameSt
<1>11. CASE s.st # "none"
  <2>1. TrackedInv(s, e)
    BY <1>3, <1>11
  <2>2. Flow(x, y, s.read_pending, s.rx, e.sent, CHANNEL_CAP)
    <3>1. Flow(e.read, s.chan, s.read_pending, s.rx, e.sent, CHANNEL_CAP)
      BY <2>1 DEF TrackedInv, Streams
    <3>2. 1 \in Nat /\ CHANNEL_CAP \in Nat
      BY BuffersAssumption
    <3>3. Flow(e.read \o SubSeq(s.chan, 1, 1), SubSeq(s.chan, 1 + 1, Len(s.chan)), s.read_pending, s.rx,
               e.sent, CHANNEL_CAP)
      BY <1>5, <3>1, <3>2, FlowTakes
    <3>4. QED
      BY <1>5, <3>3
  <2>3. Streams(t, f)
    BY <1>6, <1>7, <2>1, <2>2 DEF TrackedInv, Streams, SameOut, SameSaid
  <2>4. Shut(t, f)
    <3>1. t.st \in {"cwait", "last"} => f.fin
      BY <1>7, <1>10, <2>1, Zenon DEF TrackedInv, Shut, SameFin
    <3>2. ~t.to_proxy => t.rx = <<>> /\ t.read_pending = <<>> /\ f.fin
      BY <1>6, <1>7, <2>1, Zenon DEF TrackedInv, Shut, SameTo, SameFin
    <3>3. t.st \in {"fwait", "last"} => t.write_pending = <<>> /\ t.back = <<>> /\ f.task = "done"
      BY <1>6, <1>7, <1>10, <2>1 DEF TrackedInv, Shut, SameOut
    <3>4. t.st # "closed"
      BY <1>3, <1>10
    <3>5. QED
      BY <3>1, <3>2, <3>3, <3>4 DEF Shut
  <2>5. TaskIs(t, f)
    BY <1>6, <1>7, <2>1, Zenon DEF TrackedInv, TaskIs, SameSt, SameOut
  <2>6. ConnInv(t, f) /\ f.told # "new" /\ t.st # "closed"
    BY <1>3, <1>4, <1>6, <1>7, <1>9, <1>10, <1>11, <2>3, <2>4, <2>5 DEF ConnInv, TrackedInv
  <2>7. QED
    BY <1>1, <1>2, <2>6, TaskStepKeeps
<1>12. CASE s.st = "none"
  <2>1. DroppedInv(s, e)
    BY <1>3, <1>12
  <2>2. Run(e.read, 0) /\ Run(s.chan, Len(e.read)) /\ Len(e.read) + Len(s.chan) <= e.sent
    BY <1>8 DEF Heard
  <2>3. Run(SubSeq(s.chan, 1, 1), Len(e.read)) /\ SubSeq(s.chan, 1, 1) \in Seq(Nat)
    <3>1. 1 \in Nat
      OBVIOUS
    <3>2. QED
      BY <1>3, <1>5, <2>2, <3>1, RunHead
  <2>4. Run(x, 0)
    <3>1. 0 \in Nat /\ 0 + Len(e.read) = Len(e.read)
      BY <1>3
    <3>2. Run(e.read \o SubSeq(s.chan, 1, 1), 0)
      BY <1>3, <2>2, <2>3, <3>1, RunJoin
    <3>3. QED
      BY <1>5, <3>2
  <2>5. Run(y, Len(e.read) + 1)
    <3>1. 1 \in Nat /\ Len(s.chan) <= Len(s.chan)
      BY <1>3
    <3>2. Run(SubSeq(s.chan, 1 + 1, Len(s.chan)), Len(e.read) + 1)
      BY <1>3, <1>5, <2>2, <3>1, RunSub
    <3>3. QED
      BY <1>5, <3>2
  <2>6. Len(x) + Len(y) <= e.sent
    <3>1. (Len(e.read) + 1) + (Len(s.chan) - 1) <= e.sent
      <4>1. \A i, j, k \in Nat : i + j <= k => (i + 1) + (j - 1) <= k
        OBVIOUS
      <4>2. QED
        BY <1>3, <2>2, <4>1
    <3>2. QED
      BY <1>5, <3>1
  <2>7. Heard(t.chan, f)
    BY <1>5, <1>6, <1>7, <1>8, <2>4, <2>5, <2>6 DEF Heard, SameSaid
  <2>8. ~t.spawned
    BY <1>6, <2>1, Zenon DEF DroppedInv, SameSt
  <2>9. DroppedInv(t, f)
    BY <1>6, <1>7, <2>1, <2>7, <2>8 DEF DroppedInv, SameOut
  <2>10. ConnInv(t, f) /\ f.told # "new" /\ t.st # "closed"
    BY <1>3, <1>4, <1>6, <1>7, <1>9, <1>10, <1>12, <2>9 DEF ConnInv
  <2>11. QED
    BY <1>1, <1>2, <2>10, TaskStepKeeps
<1>13. QED
  BY <1>11, <1>12

\* The task reads the end of the stream.
LEMMA EofReadKeeps ==
  ASSUME TcpInv, NEW c \in Conns, poll_read_eof(c)
  PROVE  TcpInv' /\ UNCHANGED <<udp, turned>>
<1> DEFINE s == socks[c]
           e == ends[c]
           f == [e EXCEPT !.eof = TRUE]
<1>1. e.task = "run" /\ s.chan = <<>> /\ ~s.to_proxy /\ UNCHANGED <<udp, turned>>
  BY DEF poll_read_eof
<1>2. Put(socks', socks, c, s) /\ EofIs(f, e) /\ Put(ends', ends, c, f)
  BY DEF poll_read_eof, EofIs, Put, TcpInv
<1>3. /\ s \in TunSock /\ e \in TunEnd /\ Honest(e) /\ s.st # "closed" /\ e.read \in Seq(Nat)
      /\ Len(e.read) \in Nat /\ e.sent \in Nat /\ <<>> \in Seq(Nat)
      /\ s.st # "none" => TrackedInv(s, e)
      /\ s.st = "none" => DroppedInv(s, e) /\ e.told = "gone"
  BY <1>1, OneConn, Running, EndFields
<1>4. e.told \notin {"new", "fin"}
  BY <1>1, Running
<1> HIDE DEF s, e, f
<1>5. /\ f \in TunEnd /\ f.eof /\ f.told = e.told /\ f.task = e.task /\ f.read = e.read
      /\ f.sent = e.sent /\ SameSaid(f, e) /\ SameFin(f, e)
  BY <1>2, <1>3, EndTaskReads
<1>6. CASE s.st # "none"
  <2>1. TrackedInv(s, e)
    BY <1>3, <1>6
  <2>2. s.rx = <<>> /\ s.read_pending = <<>> /\ e.fin
    BY <1>1, <2>1, Zenon DEF TrackedInv, Shut
  <2>3. Flow(e.read, <<>>, <<>>, <<>>, e.sent, CHANNEL_CAP)
    BY <1>1, <2>1, <2>2 DEF TrackedInv, Streams
  <2>4. Len(e.read) = e.sent
    BY <1>3, <2>3 DEF Flow
  <2>5. f.fin
    BY <1>5, <2>2, Zenon DEF SameFin
  <2>6. Honest(f)
    BY <1>4, <1>5, <2>4, <2>5 DEF Honest
  <2>7. Streams(s, f)
    BY <1>5, <2>1 DEF TrackedInv, Streams, SameSaid
  <2>8. Shut(s, f)
    BY <1>5, <2>1, <2>5, Zenon DEF TrackedInv, Shut
  <2>9. TaskIs(s, f)
    BY <1>5, <2>1, Zenon DEF TrackedInv, TaskIs
  <2>10. ConnInv(s, f) /\ f.told # "new" /\ s.st # "closed"
    BY <1>3, <1>4, <1>5, <1>6, <2>6, <2>7, <2>8, <2>9 DEF ConnInv, TrackedInv
  <2>11. QED
    BY <1>1, <1>2, <2>10, TaskStepKeeps
<1>7. CASE s.st = "none"
  <2>1. DroppedInv(s, e) /\ e.told = "gone"
    BY <1>3, <1>7
  <2>2. Honest(f)
    BY <1>4, <1>5, <2>1 DEF Honest
  <2>3. DroppedInv(s, f)
    BY <1>5, <2>1 DEF DroppedInv, Heard, SameSaid
  <2>4. ConnInv(s, f) /\ f.told # "new" /\ s.st # "closed"
    BY <1>3, <1>4, <1>5, <1>7, <2>2, <2>3 DEF ConnInv
  <2>5. QED
    BY <1>1, <1>2, <2>4, TaskStepKeeps
<1>8. QED
  BY <1>6, <1>7

(* The loop's UDP half.                                                    *)
UdpInv ==
  /\ udp \in [UdpKeys -> [st : {"none", "live", "closed"}, queue : Nat]]
  /\ UdpAdmitted

\* The UDP steps.
LEMMA UdpKeeps ==
  ASSUME UdpInv, NEW k \in UdpKeys, UdpStep(k)
  PROVE  UdpInv' /\ UNCHANGED <<socks, ends>>
<1> DEFINE SessionType == [st : {"none", "live", "closed"}, queue : Nat]
<1>1. udp \in [UdpKeys -> SessionType]
  BY DEF UdpInv
<1>2. udp[k].queue \in Nat /\ udp[k].st \in {"none", "live", "closed"} /\ udp[k] \in SessionType
  BY <1>1
<1>3. CASE udp_session_task(k) \/ udp_session_fails(k)
  <2>1. turned' = {} /\ UNCHANGED <<socks, ends>>
    BY <1>3 DEF udp_session_task, udp_session_fails
  <2>2. \/ udp' = [udp EXCEPT ![k] = [st |-> "closed", queue |-> 0]]
        \/ udp[k].queue > 0 /\ udp' = [udp EXCEPT ![k] = [udp[k] EXCEPT !.queue = udp[k].queue - 1]]
    <3>1. CASE udp_session_fails(k)
      BY <3>1 DEF udp_session_fails
    <3>2. CASE udp_session_task(k)
      <4>1. udp' = IF udp[k].queue > 0 THEN [udp EXCEPT ![k].queue = @ - 1]
                   ELSE [udp EXCEPT ![k] = [st |-> "closed", queue |-> 0]]
        BY <3>2 DEF udp_session_task
      <4>2. CASE udp[k].queue > 0
        BY <1>1, <1>2, <4>1, <4>2
      <4>3. CASE ~(udp[k].queue > 0)
        BY <4>1, <4>3
      <4>4. QED
        BY <4>2, <4>3
    <3>3. QED
      BY <1>3, <3>1, <3>2
  <2>3. udp' \in [UdpKeys -> SessionType]
    BY <1>1, <1>2, <2>2
  <2>4. UdpAdmitted'
    BY <2>1 DEF UdpAdmitted
  <2>5. QED
    BY <2>1, <2>3, <2>4 DEF UdpInv
<1>4. CASE forward_udp(k)
  <2> DEFINE live == udp[k].st = "live"
             U == IF live THEN udp ELSE [udp EXCEPT ![k] = NoSession]
             V == IF AtCap(U) THEN retain(U) ELSE U
  <2>1. /\ udp' = CASE live -> [udp EXCEPT ![k].queue = IF @ < CHANNEL_CAP THEN @ + 1 ELSE @]
                    [] ~live /\ AtCap(V) -> V
                    [] ~live /\ ~AtCap(V) -> [V EXCEPT ![k] = [st |-> "live", queue |-> 1]]
        /\ turned' = IF ~live /\ AtCap(V) THEN {k} ELSE {}
        /\ UNCHANGED <<socks, ends>>
    BY <1>4 DEF forward_udp
  <2>2. NoSession \in SessionType /\ [st |-> "live", queue |-> 1] \in SessionType
    BY DEF NoSession
  <2>3. U \in [UdpKeys -> SessionType]
    BY <1>1, <2>2
  <2>4. retain(U) \in [UdpKeys -> SessionType] /\ \A j \in UdpKeys : retain(U)[j].st # "closed"
    <3> HIDE DEF U
    <3>1. retain(U) \in [UdpKeys -> SessionType]
      BY <2>2, <2>3 DEF retain
    <3>2. NoSession.st # "closed"
      BY DEF NoSession
    <3>3. \A j \in UdpKeys : retain(U)[j].st # "closed"
      BY <3>2 DEF retain
    <3>4. QED
      BY <3>1, <3>3
  <2>5. V \in [UdpKeys -> SessionType]
    BY <2>3, <2>4
  <2>6. AtCap(V) => V = retain(U)
    OBVIOUS
  <2> HIDE DEF U, V
  <2>7. CASE live
    <3>1. turned' = {}
      BY <2>1, <2>7
    <3>2. udp' = [udp EXCEPT ![k].queue = IF @ < CHANNEL_CAP THEN @ + 1 ELSE @]
      BY <2>1, <2>7
    <3>3. udp' \in [UdpKeys -> SessionType]
      BY <1>1, <1>2, <3>2
    <3>4. QED
      BY <2>1, <3>1, <3>3 DEF UdpInv, UdpAdmitted
  <2>8. CASE ~live /\ ~AtCap(V)
    <3>1. turned' = {} /\ udp' = [V EXCEPT ![k] = [st |-> "live", queue |-> 1]]
      BY <2>1, <2>8
    <3>2. udp' \in [UdpKeys -> SessionType]
      BY <2>2, <2>5, <3>1
    <3>3. QED
      BY <2>1, <3>1, <3>2 DEF UdpInv, UdpAdmitted
  <2>9. CASE ~live /\ AtCap(V)
    <3>1. udp' = V /\ AtCap(V)
      BY <2>1, <2>9
    <3>2. \A j \in UdpKeys : V[j].st # "closed"
      BY <2>4, <2>6, <2>9
    <3>3. AtCap(V) /\ \A j \in Sessions(V) : V[j].st = "live"
      BY <2>5, <2>9, <3>2 DEF Sessions
    <3>4. UdpAdmitted'
      <4>1. AtCap(udp') /\ \A j \in Sessions(udp') : udp'[j].st = "live"
        BY <3>1, <3>3
      <4>2. QED
        BY <4>1 DEF UdpAdmitted, AtCap, Sessions
    <3>5. QED
      BY <2>1, <2>5, <3>1, <3>4 DEF UdpInv
  <2>10. QED
    BY <2>7, <2>8, <2>9
<1>5. QED
  BY <1>3, <1>4 DEF UdpStep

(* The inductive invariant of the TUN loop.                                *)
TunInv == TcpInv /\ UdpInv

\* A data plane that has not begun.
LEMMA QuietTun ==
  ASSUME NEW S, NEW E, NEW U, S = [c \in Conns |-> NoConn], E = [c \in Conns |-> NoEnds],
         U = [k \in UdpKeys |-> NoSession]
  PROVE  /\ S \in [Conns -> TunSock] /\ E \in [Conns -> TunEnd]
         /\ \A c \in Conns : Rested(S[c], E[c])
         /\ U \in [UdpKeys -> [st : {"none", "live", "closed"}, queue : Nat]]
<1>1. <<>> \in Seq(Nat)
  OBVIOUS
<1>2. NoConn \in TunSock /\ NoEnds \in TunEnd
  BY <1>1 DEF NoConn, NoEnds, TunSock, TunEnd
<1>3. Honest(NoEnds)
  BY DEF Honest, NoEnds
<1>4. Heard(NoConn.chan, NoEnds)
  BY NoRun DEF Heard, NoConn, NoEnds
<1>5. DroppedInv(NoConn, NoEnds) /\ NoConn.st = "none"
  <2>1. ~NoConn.spawned
    BY DEF NoConn
  <2>2. QED
    BY <1>4, <2>1 DEF DroppedInv, NoConn, NoEnds
<1>6. ConnInv(NoConn, NoEnds)
  BY <1>2, <1>3, <1>5 DEF ConnInv
<1>7. Rested(NoConn, NoEnds)
  BY <1>5, <1>6 DEF Rested, Fresh
<1>8. U \in [UdpKeys -> [st : {"none", "live", "closed"}, queue : Nat]]
  BY DEF NoSession
<1>9. \A c \in Conns : S[c] = NoConn /\ E[c] = NoEnds
  OBVIOUS
<1>10. S \in [Conns -> TunSock] /\ E \in [Conns -> TunEnd]
  BY <1>2
<1>11. QED
  BY <1>7, <1>8, <1>9, <1>10

\* The start, and a process that leaves "up".
LEMMA QuietTuns ==
  /\ CaptureInit => TunInv
  /\ NoPlane => TunInv'
<1>1. ASSUME CaptureInit PROVE TunInv
  <2>1. /\ socks = [c \in Conns |-> NoConn] /\ ends = [c \in Conns |-> NoEnds]
        /\ udp = [k \in UdpKeys |-> NoSession] /\ turned = {}
    BY <1>1 DEF CaptureInit, TunInit
  <2>2. QED
    BY <2>1, QuietTun DEF TunInv, TcpInv, UdpInv, UdpAdmitted
<1>2. ASSUME NoPlane PROVE TunInv'
  <2>1. /\ socks' = [c \in Conns |-> NoConn] /\ ends' = [c \in Conns |-> NoEnds]
        /\ udp' = [k \in UdpKeys |-> NoSession] /\ turned' = {}
    BY <1>2 DEF NoPlane
  <2>2. /\ socks' \in [Conns -> TunSock] /\ ends' \in [Conns -> TunEnd]
        /\ \A c \in Conns : Rested(socks'[c], ends'[c])
        /\ udp' \in [UdpKeys -> [st : {"none", "live", "closed"}, queue : Nat]]
    BY <2>1, QuietTun
  <2>3. QED
    BY <2>1, <2>2 DEF TunInv, TcpInv, UdpInv, UdpAdmitted
<1>3. QED
  BY <1>1, <1>2

\* Each step of the composition.
LEMMA TunKept ==
  ASSUME TunInv, [CaptureNext]_captureVars
  PROVE  TunInv'
<1>1. CASE NoPlane
  BY <1>1, QuietTuns
<1>2. CASE UNCHANGED tunVars
  <2>1. TcpInv'
    BY <1>2 DEF TunInv, TcpInv, tunVars
  <2>2. UdpInv'
    BY <1>2 DEF TunInv, UdpInv, UdpAdmitted, AtCap, Sessions, tunVars
  <2>3. QED
    BY <2>1, <2>2 DEF TunInv
<1>3. CASE ProcessStep
  BY <1>1, <1>2, <1>3 DEF ProcessStep
<1>4. CASE TunTcp
  <2>1. PICK c \in Conns : TurnStep(c) \/ TaskStep(c)
    BY <1>4 DEF TunTcp
  <2>2. TcpInv /\ UdpInv
    BY DEF TunInv
  <2>3. TcpInv' /\ UNCHANGED <<udp, turned>>
    <3>1. CASE TurnStep(c)
      BY <2>2, <3>1, SynKeeps, StateSegmentsKeep, GuestDataKeeps, OtherTurnsKeep DEF TurnStep
    <3>2. CASE TaskStep(c)
      BY <2>2, <3>2, ReadKeeps, EofReadKeeps, WriteKeeps, TaskEndsKeep DEF TaskStep
    <3>3. QED
      BY <2>1, <3>1, <3>2
  <2>4. UdpInv'
    BY <2>2, <2>3 DEF UdpInv, UdpAdmitted, AtCap, Sessions
  <2>5. QED
    BY <2>3, <2>4 DEF TunInv
<1>5. CASE TunUdp
  <2>1. PICK k \in UdpKeys : UdpStep(k)
    BY <1>5 DEF TunUdp
  <2>2. UdpInv' /\ UNCHANGED <<socks, ends>>
    BY <2>1, UdpKeeps DEF TunInv
  <2>3. TcpInv'
    BY <2>2 DEF TunInv, TcpInv
  <2>4. QED
    BY <2>2, <2>3 DEF TunInv
<1>6. CASE EbpfStep \/ SidecarStep
  BY <1>2, <1>6 DEF EbpfStep, SidecarStep
<1>7. CASE UNCHANGED captureVars
  BY <1>2, <1>7 DEF captureVars, tunVars
<1>8. QED
  BY <1>3, <1>4, <1>5, <1>6, <1>7 DEF CaptureNext

\* A beginning of a numbered stream is a prefix of it.
LEMMA RunIsPrefix ==
  ASSUME NEW q \in Seq(Nat), NEW n \in Nat, Run(q, 0), Len(q) <= n
  PROVE  IsPrefix(q, Upto(n))
<1>1. Upto(n) \in Seq(Nat) /\ Len(Upto(n)) = n /\ \A i \in 1..n : Upto(n)[i] = i
  BY DEF Upto
<1>2. SubSeq(q, 1, Len(q)) = q
  OBVIOUS
<1>3. /\ SubSeq(Upto(n), 1, Len(q)) \in Seq(Nat) /\ Len(SubSeq(Upto(n), 1, Len(q))) = Len(q)
      /\ \A i \in 1..Len(q) : SubSeq(Upto(n), 1, Len(q))[i] = i
  BY <1>1
<1>4. \A i \in 1..Len(q) : q[i] = i
  BY DEF Run
<1>5. SubSeq(Upto(n), 1, Len(q)) = q
  BY <1>3, <1>4
<1>6. QED
  BY <1>1, <1>2, <1>5 DEF IsPrefix

(***************************************************************************)
(* For any connections, sizes of buffers and channels, and numbers of      *)
(* units: through full channels, partial writes, resets and either side    *)
(* closing first, relay keeps both streams whole and in order and reports  *)
(* their ends only after the last of them (relay, cleanup, ChanStream),    *)
(* and a new datagram pair is turned away only when every session counted  *)
(* is alive (forward_udp).                                                 *)
(***************************************************************************)
THEOREM TunKeepsStreams == CaptureSpec => []TunServes
<1>1. TunInv => TunServes
  <2>1. SUFFICES ASSUME TunInv, NEW c \in Conns
                 PROVE  LET e == ends[c]
                        IN  /\ IsPrefix(e.read, Upto(e.sent)) /\ IsPrefix(e.got, Upto(e.wrote))
                            /\ e.eof /\ e.told # "gone" => e.fin /\ Len(e.read) = e.sent
                            /\ e.told = "fin" => e.task = "done" /\ Len(e.got) = e.wrote
    BY DEF TunServes, TunStream, TunInv, UdpInv
  <2> DEFINE s == socks[c]
             e == ends[c]
  <2>2. TcpInv
    BY <2>1 DEF TunInv
  <2>3. /\ s \in TunSock /\ e \in TunEnd /\ Honest(e)
        /\ s.st # "none" => TrackedInv(s, e)
        /\ s.st = "none" => DroppedInv(s, e)
    BY <2>2, OneConn
  <2> HIDE DEF s, e
  <2>4. Heard(s.chan, e)
    BY <2>3, TrackedHeard DEF DroppedInv
  <2>5. /\ e.read \in Seq(Nat) /\ e.got \in Seq(Nat) /\ e.sent \in Nat /\ e.wrote \in Nat
        /\ Len(e.read) \in Nat /\ Len(s.chan) \in Nat
    BY <2>3, EndFields, SockFields
  <2>6. Run(e.read, 0) /\ Run(e.got, 0) /\ Len(e.read) <= e.sent /\ Len(e.got) <= e.wrote
    <3>1. /\ Run(e.read, 0) /\ Run(e.got, 0) /\ Len(e.got) <= e.wrote
          /\ Len(e.read) + Len(s.chan) <= e.sent
      BY <2>4 DEF Heard
    <3>2. \A i, j, k \in Nat : i + j <= k => i <= k
      OBVIOUS
    <3>3. QED
      BY <2>5, <3>1, <3>2
  <2>7. IsPrefix(e.read, Upto(e.sent)) /\ IsPrefix(e.got, Upto(e.wrote))
    BY <2>5, <2>6, RunIsPrefix
  <2>8. QED
    BY <2>3, <2>7 DEF Honest, e
<1>2. CaptureInit => TunInv
  BY QuietTuns
<1>3. TunInv /\ [CaptureNext]_captureVars => TunInv'
  BY TunKept
<1>4. QED
  BY <1>1, <1>2, <1>3, PTL DEF CaptureSpec

=============================================================================
