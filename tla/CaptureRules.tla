--------------------------- MODULE CaptureRules ----------------------------
(***************************************************************************)
(* What the three capture backends put into the kernel, in which order,    *)
(* and what a kill, a failed request or a clean exit leaves there.         *)
(*                                                                         *)
(* kernel.rules   the fib rules: "bypass" (pref 100, mark 0x88 -> main),   *)
(*                "all" (pref 200, everything -> table 100) and "marked"   *)
(*                (pref 200, mark 0x88 -> table 100)                       *)
(* kernel.default the default route of table 100: none, tun or local       *)
(* kernel.nft     hodor_tproxy's table; kernel.dev hodor0;                 *)
(* kernel.listener the backend's listening socket; kernel.bpf the programs *)
(*                                                                         *)
(* A backend's start is a sequence of requests; the guards it has built    *)
(* when it ends give the sequence of undos.  A request that fails before   *)
(* its guard exists leaves what the earlier ones did.  A rule added twice  *)
(* is one rule here: DelRulePref removes every rule of its preference.     *)
(***************************************************************************)
EXTENDS Naturals, Sequences, FiniteSets

CONSTANTS MaxStarts,    \* bound: processes started one after another
          MaxFaults     \* bound: kernel requests that fail

ASSUME CaptureAssumption == MaxStarts \in Nat /\ MaxFaults \in Nat

VARIABLES proc,     \* the hodor process: at, backend, what is left to do, guards built
          kernel,   \* the network namespace
          starts, faults

ruleVars == <<proc, kernel, starts, faults>>

FWMARK == 136         \* 0x88
EGRESS_MARK == 137    \* 0x89

Backends == {"tun", "tproxy", "ebpf"}
Clean == [rules |-> {}, default |-> "none", nft |-> FALSE, dev |-> FALSE,
          listener |-> FALSE, bpf |-> FALSE]
Down(b, ok) == [at |-> "down", backend |-> b, todo |-> <<>>, guards |-> {}, ok |-> ok]

(***************************************************************************)
(* The start-up sequences.  "guard" steps cannot fail.                     *)
(***************************************************************************)
capture_routes == <<"route_tun">>
capture_rules_swapped == <<"all", "bypass">>
capture_rules == <<"bypass", "all">>
run_tun == <<"dev">> \o capture_routes \o capture_rules \o <<"routes_guard">>
run_tproxy ==
  <<"listener", "marked", "route_local", "routes_guard", "heal", "nft", "nft_guard">>
run_ebpf == <<"config", "bpf", "listener">>

Plan(b) == CASE b = "tun" -> run_tun [] b = "tproxy" -> run_tproxy [] b = "ebpf" -> run_ebpf

Guards == {"routes_guard", "nft_guard"}

\* The requests the kernel refuses whatever else happens: the table is created exclusively.
Refused(k, s) == s = "nft" /\ k.nft

Request(k, s) ==
  CASE s \in {"bypass", "all", "marked"} -> [k EXCEPT !.rules = @ \cup {s}]
    [] s = "route_tun"   -> [k EXCEPT !.default = "tun"]
    [] s = "route_local" -> [k EXCEPT !.default = "local"]
    [] s = "dev"         -> [k EXCEPT !.dev = TRUE]
    [] s = "listener"    -> [k EXCEPT !.listener = TRUE]
    [] s = "nft"         -> [k EXCEPT !.nft = TRUE]
    [] s = "heal"        -> [k EXCEPT !.nft = FALSE]
    [] s = "bpf"         -> [k EXCEPT !.bpf = TRUE]
    [] OTHER             -> k

(***************************************************************************)
(* The ends: guards drop in reverse, each undo on its own.                 *)
(***************************************************************************)
capture_undos_short == <<"pref200", "flush">>
capture_undos == <<"pref200", "flush", "pref100">>
proxy_undos == <<"pref200", "flush">>

tproxy_drops_listener_first(g) ==
  <<"close_listener">> \o (IF "nft_guard" \in g THEN <<"del_nft">> ELSE <<>>)
                       \o (IF "routes_guard" \in g THEN proxy_undos ELSE <<>>)
tproxy_drops(g) ==
  (IF "nft_guard" \in g THEN <<"del_nft">> ELSE <<>>)
    \o (IF "routes_guard" \in g THEN proxy_undos ELSE <<>>) \o <<"close_listener">>
tun_drops(g) == <<"close_dev">> \o (IF "routes_guard" \in g THEN capture_undos ELSE <<>>)
ebpf_drops == <<"close_listener", "detach">>

Drops(b, g) ==
  CASE b = "tun" -> tun_drops(g) [] b = "tproxy" -> tproxy_drops(g) [] b = "ebpf" -> ebpf_drops

NoDev(k) == [k EXCEPT !.dev = FALSE, !.default = IF @ = "tun" THEN "none" ELSE @]

Undo(k, u) ==
  CASE u = "pref200" -> [k EXCEPT !.rules = @ \ {"all", "marked"}]
    [] u = "pref100" -> [k EXCEPT !.rules = @ \ {"bypass"}]
    [] u = "flush"   -> [k EXCEPT !.default = "none"]
    [] u = "del_nft" -> [k EXCEPT !.nft = FALSE]
    [] u = "close_listener" -> [k EXCEPT !.listener = FALSE]
    [] u = "detach"  -> [k EXCEPT !.bpf = FALSE]
    [] u = "close_dev" -> NoDev(k)

\* Undos that are closed by the process itself and so cannot fail.
Sure == {"close_listener", "close_dev", "detach"}

(***************************************************************************)
(* The process.                                                            *)
(***************************************************************************)
RulesInit ==
  /\ proc = Down("tun", FALSE)
  /\ kernel = Clean
  /\ starts = 0 /\ faults = 0

\* The operator picks a backend; the explicit listener is already bound.
Start(b) ==
  /\ proc.at = "down" /\ starts < MaxStarts
  /\ proc' = [at |-> "installing", backend |-> b, todo |-> Plan(b), guards |-> {}, ok |-> TRUE]
  /\ starts' = starts + 1
  /\ UNCHANGED <<kernel, faults>>

Advance(p) ==
  LET s == Head(p.todo)
      q == [p EXCEPT !.todo = Tail(@),
                     !.guards = IF s \in Guards THEN @ \cup {s} ELSE @]
  IN  IF q.todo = <<>> THEN [q EXCEPT !.at = "up"] ELSE q

Undoing(p, ok) == [p EXCEPT !.at = "undoing", !.todo = Drops(p.backend, p.guards), !.ok = ok]

Install ==
  /\ proc.at = "installing"
  /\ ~Refused(kernel, Head(proc.todo))
  /\ kernel' = Request(kernel, Head(proc.todo))
  /\ proc' = Advance(proc)
  /\ UNCHANGED <<starts, faults>>

\* A request fails, or is refused: `?` ends the capture task and with it the process.
\* The healing delete alone is best effort.
InstallFails ==
  /\ proc.at = "installing"
  /\ LET s == Head(proc.todo) IN
       /\ s \notin Guards
       /\ Refused(kernel, s) \/ faults < MaxFaults
       /\ faults' = IF Refused(kernel, s) THEN faults ELSE faults + 1
       /\ proc' = IF s = "heal" THEN Advance(proc) ELSE Undoing(proc, FALSE)
  /\ UNCHANGED <<kernel, starts>>

\* Ctrl-C: with_capture aborts the task, which drops what it holds.
Interrupt ==
  /\ proc.at \in {"installing", "up"}
  /\ proc' = Undoing(proc, proc.at = "up")
  /\ UNCHANGED <<kernel, starts, faults>>

Undone(p) == LET q == [p EXCEPT !.todo = Tail(@)]
             IN  IF q.todo = <<>> THEN Down(p.backend, p.ok) ELSE q

UndoStep ==
  /\ proc.at = "undoing"
  /\ kernel' = Undo(kernel, Head(proc.todo))
  /\ proc' = Undone(proc)
  /\ UNCHANGED <<starts, faults>>

\* A failed or timed-out undo is logged and the next one runs.
UndoFails ==
  /\ proc.at = "undoing" /\ faults < MaxFaults
  /\ Head(proc.todo) \notin Sure
  /\ proc' = [Undone(proc) EXCEPT !.ok = FALSE]
  /\ faults' = faults + 1
  /\ UNCHANGED <<kernel, starts>>

\* SIGKILL, or SIGTERM, which nothing handles: what the process owns closes with it.
Kill ==
  /\ proc.at # "down"
  /\ kernel' = [NoDev(kernel) EXCEPT !.listener = FALSE, !.bpf = FALSE]
  /\ proc' = Down(proc.backend, FALSE)
  /\ UNCHANGED <<starts, faults>>

RulesNext ==
  \/ \E b \in Backends : Start(b)
  \/ Install \/ InstallFails \/ Interrupt \/ UndoStep \/ UndoFails \/ Kill

(***************************************************************************)
(* Where a TCP packet of mark m goes: to hodor, to the wire, or nowhere.   *)
(***************************************************************************)
Marked(k, m) == IF k.nft /\ m \notin {FWMARK, EGRESS_MARK} THEN FWMARK ELSE m

Table100(k, m) == "all" \in k.rules \/ ("marked" \in k.rules /\ m = FWMARK)

Local(k, m) == IF k.nft /\ m = FWMARK /\ k.listener THEN "hodor" ELSE "lost"

Route(k, m0) ==
  LET m == Marked(k, m0)
  IN  IF ("bypass" \in k.rules /\ m = FWMARK) \/ ~Table100(k, m) \/ k.default = "none" THEN "wire"
      ELSE IF k.default = "tun" THEN "hodor" ELSE Local(k, m)

\* connect4 rewrites the guest's dial to the loopback listener, which nft and the
\* rules leave alone.
GuestPath(k) ==
  IF k.bpf THEN IF k.listener THEN "hodor" ELSE "lost" ELSE Route(k, 0)

fwmark(b) == CASE b = "tun" -> FWMARK [] b = "tproxy" -> EGRESS_MARK [] b = "ebpf" -> 0

\* hodor's own dials: the programs skip its process, so only the marks matter.
OwnPath(k, b) == Route(k, fwmark(b))

(***************************************************************************)
(* Residue of the other routing backend, which neither start removes.      *)
(***************************************************************************)
Foreign(k, b) ==
  CASE b = "tun"    -> k.nft \/ "marked" \in k.rules \/ k.default = "local"
    [] b = "tproxy" -> k.rules \cap {"bypass", "all"} # {} \/ k.default = "tun"
    [] b = "ebpf"   -> k.nft \/ k.rules # {} \/ k.default # "none"

(***************************************************************************)
(* With no failed request and nothing left by the other backend, hodor's   *)
(* own upstream dials leave by the real gateway at every moment of a       *)
(* process's life, its start over the residue of a killed run and its      *)
(* teardown included (FWMARK: "marked packets via the real gateway so they *)
(* never loop back into TUN"), and a guest's connection reaches hodor as   *)
(* soon as the backend is up.                                              *)
(***************************************************************************)
OwnDialsOut ==
  proc.at # "down" /\ ~Foreign(kernel, proc.backend) =>
     /\ faults = 0 => OwnPath(kernel, proc.backend) = "wire"
     /\ proc.at = "up" => GuestPath(kernel) = "hodor"

(***************************************************************************)
(* Neither routing backend blackholes the guest while it starts, runs or   *)
(* winds down ("Stale capture routes would blackhole traffic after exit"): *)
(* no traffic is lost once a run has built its own guards, and before that *)
(* only what a killed tproxy run left loses any.  For eBPF alone there is  *)
(* a window: the programs are attached before the listener is bound and    *)
(* stay attached after it has closed.                                      *)
(***************************************************************************)
NoBlackhole ==
  (GuestPath(kernel) = "lost" /\ faults = 0 /\ proc.at # "down" /\ ~Foreign(kernel, proc.backend)) =>
     /\ ~kernel.listener
     /\ proc.backend = "ebpf" \/ (starts > 1 /\ "nft_guard" \notin proc.guards)

(***************************************************************************)
(* A run that ended without a failure leaves none of its own backend's     *)
(* state behind, whatever earlier killed runs of the same backend had left.*)
(***************************************************************************)
HealsItself ==
  (proc.at = "down" /\ proc.ok) =>
     /\ ~kernel.dev /\ ~kernel.listener /\ ~kernel.bpf
     /\ proc.backend = "tun" => kernel.rules = {} /\ kernel.default = "none"
     /\ proc.backend = "tproxy" => ~kernel.nft /\ "marked" \notin kernel.rules
                                   /\ kernel.default = "none"

(***************************************************************************)
(* What a process of either kind puts into the kernel steers the guest's   *)
(* traffic and its own as it should, and goes with it.                     *)
(***************************************************************************)
Steered == OwnDialsOut /\ NoBlackhole /\ HealsItself
=============================================================================
