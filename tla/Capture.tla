------------------------------ MODULE Capture ------------------------------
(***************************************************************************)
(* A hodor process with its capture backend: the start and the end of      *)
(* CaptureRules, and while the backend is up its data plane, the TUN loop  *)
(* of TunLoop or the programs and listener of EbpfMaps (tproxy's accepted  *)
(* streams go straight to the dispatch of module Dispatch).  A process     *)
(* that leaves "up" takes its data plane with it, and, as its container    *)
(* owns the network namespace, the exposure sidecar of Forwards too.       *)
(***************************************************************************)
EXTENDS CaptureRules, TunLoop, EbpfMaps, Forwards

captureVars == <<proc, kernel, starts, faults, socks, ends, udp, turned,
                 sock, ORIG_DST, FLOW, CONFIG, file, watch, rewrites, writeFaults,
                 rows, sidecar, forwarders, acceptors, opened, tableFaults>>

CaptureInit == RulesInit /\ TunInit /\ EbpfInit /\ FwdInit

\* Bound: the data planes are followed in the first process of a behaviour.
Plane(b) == proc.at = "up" /\ proc.backend = b /\ starts = 1 /\ faults = 0

NoPlane ==
  /\ socks' = [c \in Conns |-> NoConn] /\ ends' = [c \in Conns |-> NoEnds]
  /\ udp' = [k \in UdpKeys |-> NoSession] /\ turned' = {}
  /\ sock' = [s \in Sockets |-> NoSocket]
  /\ ORIG_DST' = <<>> /\ FLOW' = [p \in Ports |-> "none"]
  /\ CONFIG' = Merged /\ watch' = NewWatch(Merged)
  /\ rewrites' = 0 /\ writeFaults' = 0 /\ UNCHANGED file
  /\ rows' = {} /\ sidecar' = Idle("off", {}) /\ forwarders' = Nothing /\ acceptors' = {}
  /\ opened' = 0 /\ tableFaults' = 0

\* A step of the process.  run_ebpf reads the bypass file and writes CONFIG as it starts.
ProcessStep ==
  /\ RulesNext
  /\ IF proc.at # "down" /\ proc'.at = "up" THEN UNCHANGED <<tunVars, ebpfVars, fwdVars>> ELSE NoPlane

\* The loop's TCP and UDP halves share no state: they are followed one at a time.
NoTcp == \A c \in Conns : ends[c].told = "new"
NoUdp == Sessions(udp) = {}

TunTcp == /\ Plane("tun") /\ NoUdp
          /\ \E c \in Conns : TurnStep(c) \/ TaskStep(c)
          /\ UNCHANGED <<ruleVars, ebpfVars, fwdVars>>
TunUdp == /\ Plane("tun") /\ NoTcp
          /\ \E k \in UdpKeys : UdpStep(k)
          /\ UNCHANGED <<ruleVars, ebpfVars, fwdVars>>
EbpfStep == Plane("ebpf") /\ EbpfNext /\ UNCHANGED <<ruleVars, tunVars, fwdVars>>

\* The sidecar and the captures share no state: it is followed beside tproxy.
SidecarStep == Plane("tproxy") /\ FwdNext /\ UNCHANGED <<ruleVars, tunVars, ebpfVars>>

CaptureNext == ProcessStep \/ TunTcp \/ TunUdp \/ EbpfStep \/ SidecarStep

(***************************************************************************)
(* The loop turns at least once a second, the watcher and the sidecar poll *)
(* for ever, and the executor runs an accept loop that can go on.          *)
(***************************************************************************)
LoopTurns(c) == Plane("tun") /\ Timer(c) /\ UNCHANGED <<ruleVars, ebpfVars, fwdVars>>
WatcherPolls == Plane("ebpf") /\ BypassPoll /\ UNCHANGED <<ruleVars, tunVars, fwdVars>>
SidecarTurns == Plane("tproxy") /\ SidecarPolls /\ UNCHANGED <<ruleVars, tunVars, ebpfVars>>
AcceptorTurns == Plane("tproxy") /\ AcceptorsRun /\ UNCHANGED <<ruleVars, tunVars, ebpfVars>>

CaptureSpec ==
  /\ CaptureInit /\ [][CaptureNext]_captureVars
  /\ \A c \in Conns : WF_captureVars(LoopTurns(c))
  /\ WF_captureVars(WatcherPolls)
  /\ WF_captureVars(SidecarTurns) /\ WF_captureVars(AcceptorTurns)

(***************************************************************************)
(* A connection task that returned well is followed by the end of the      *)
(* guest's connection, whatever of its bytes still waited in the channel,  *)
(* in write_pending or in the socket when it returned, as long as the      *)
(* process lives.                                                          *)
(***************************************************************************)
TunEnds == \A c \in Conns : ends[c].task = "done" ~> ends[c].told # "open"

(***************************************************************************)
(* A connection ends where it was meant to: a dial that eBPF captured at   *)
(* the server it named, one through the sidecar at a listener of the agent.*)
(***************************************************************************)
RightEnds == RightServer /\ AgentsOnly

(***************************************************************************)
(* What hodor polls is followed: the agent's bypass file by the programs'  *)
(* list, the agent's listeners by the sidecar's forwarders.                *)
(***************************************************************************)
Followed == BypassFollows /\ ForwardsFollow
=============================================================================
