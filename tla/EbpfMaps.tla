----------------------------- MODULE EbpfMaps ------------------------------
(***************************************************************************)
(* The eBPF backend: connect4 remembers a dial's destination under the     *)
(* socket's cookie and rewrites it to the loopback listener, the egress    *)
(* hook files the cookie under the client's local port, and the listener   *)
(* leads the peer it accepts back to the destination.  Beside it the       *)
(* watcher keeps the programs' bypass list in step with the agent's file.  *)
(*                                                                         *)
(* A cookie is the socket itself.  FLOW's key has no protocol, so a TCP    *)
(* and a UDP socket on one local port share an entry.  The kernel gives a  *)
(* port to one socket of a protocol at a time, and does not give a TCP     *)
(* port out again before the connection accepted from it was looked up.    *)
(* The map types evict the entry used longest ago.                         *)
(***************************************************************************)
EXTENDS Integers, Sequences, FiniteSets, SequencesExt

CONSTANTS Sockets, Proto,        \* the guest's sockets and their protocol
          Dsts, Ports,
          Cidrs, Covers,         \* bypass entries, in sort order, and what each covers
          Explicit, Automatic,   \* --ebpf-bypass; own addresses and podman's networks
          Files,                 \* contents the agent gives the bypass file; 0 a bad line
          MAX_BYPASS, MAX_ENTRIES,
          MaxRewrites,           \* bound: rewrites of the file
          MaxWriteFaults         \* bound: CONFIG writes that fail

ASSUME PortsAssumption == 0 \notin Ports

VARIABLES sock,        \* each socket: stage, destination asked for, port, way taken, server
          ORIG_DST,    \* <<cookie, destination>> entries, least recently used first
          FLOW,        \* local port -> cookie
          CONFIG,      \* the bypass list the programs see
          file, watch, rewrites, writeFaults

ebpfVars == <<sock, ORIG_DST, FLOW, CONFIG, file, watch, rewrites, writeFaults>>

(***************************************************************************)
(* The bypass list.                                                        *)
(***************************************************************************)
Least(S, n) == {x \in S : Cardinality({y \in S : y < x}) < n}

parse_bypass_file(raw) == raw \ {0}

build_bypass_even(explicit, lines) == Least(explicit \cup lines \cup Automatic, MAX_BYPASS)
build_bypass(explicit, lines) ==
  LET tier(out, t) == out \cup Least(t \ out, MAX_BYPASS - Cardinality(out))
  IN  tier(tier(explicit, lines), Automatic)

is_bypassed(d) == \E c \in CONFIG : d \in Covers[c]

NoSocket == [at |-> "new", dst |-> 0, port |-> 0, via |-> "none", server |-> 0]
NewWatch(list) == [last |-> list, raw |-> {-1}, failed |-> {-1}]

EbpfInit ==
  /\ sock = [s \in Sockets |-> NoSocket]
  /\ ORIG_DST = <<>>
  /\ FLOW = [p \in Ports |-> "none"]
  /\ file = {}
  /\ CONFIG = build_bypass(Explicit, parse_bypass_file(file))
  /\ watch = NewWatch(CONFIG)
  /\ rewrites = 0 /\ writeFaults = 0

(***************************************************************************)
(* The programs.                                                           *)
(***************************************************************************)
Without(lru, s) == LET at == {i \in DOMAIN lru : lru[i][1] = s}
                   IN  IF at = {} THEN lru ELSE RemoveAt(lru, CHOOSE i \in at : TRUE)
Insert(lru, s, d) == LET l == Append(Without(lru, s), <<s, d>>)
                     IN  IF Len(l) > MAX_ENTRIES THEN Tail(l) ELSE l
Recorded(s) == {ORIG_DST[i][2] : i \in {j \in DOMAIN ORIG_DST : ORIG_DST[j][1] = s}}

FreePorts(s) == {p \in Ports : \A t \in Sockets \ {s} : sock[t].port = p => Proto[t] # Proto[s]}

\* connect4 and redirect: bypassed destinations keep their way, and so does a dial whose
\* entry cannot be stored.  is_proxy and the namespace check turn hodor's own sockets and
\* those of nested containers away before this: they are not among Sockets.

connect4(s, d, p) ==
  /\ sock[s].at = "new" \/ (Proto[s] = "udp" /\ sock[s].at \in {"sent", "served"})
  /\ p \in FreePorts(s) /\ sock[s].port \in {0, p}
  /\ \E via \in IF is_bypassed(d) THEN {"wire"} ELSE {"hodor", "wire"} :
       /\ ORIG_DST' = IF via = "hodor" THEN Insert(ORIG_DST, s, d) ELSE ORIG_DST
       /\ sock' = [sock EXCEPT ![s] =
                      [at |-> "dialed", dst |-> d, port |-> p, via |-> via, server |-> 0]]
  /\ UNCHANGED <<FLOW, CONFIG, file, watch, rewrites, writeFaults>>

capture_egress(s) ==
  /\ sock[s].at = "dialed"
  /\ IF Recorded(s) # {}
     THEN /\ FLOW' = [FLOW EXCEPT ![sock[s].port] = s]
          /\ \E d \in Recorded(s) : ORIG_DST' = Insert(ORIG_DST, s, d)
     ELSE UNCHANGED <<FLOW, ORIG_DST>>
  /\ sock' = [sock EXCEPT ![s].at = "sent"]
  /\ UNCHANGED <<CONFIG, file, watch, rewrites, writeFaults>>

(***************************************************************************)
(* The listener's leg.  0 is "no recorded destination", which closes the   *)
(* connection.                                                             *)
(***************************************************************************)
Found(D) == IF D = {} THEN 0 ELSE CHOOSE d \in D : TRUE
original_any(port, proto) == Found(Recorded(FLOW[port]))
original(port, proto) ==
  LET s == FLOW[port]
  IN  IF s # "none" /\ Proto[s] = proto THEN Found(Recorded(s)) ELSE 0

tcp_one(s) ==
  /\ sock[s].at = "sent" /\ sock[s].via = "hodor" /\ Proto[s] = "tcp"
  /\ sock' = [sock EXCEPT ![s].at = "served", ![s].server = original(sock[s].port, "tcp")]
  /\ UNCHANGED <<ORIG_DST, FLOW, CONFIG, file, watch, rewrites, writeFaults>>

\* A datagram: the relay's upstream socket is bound to 127.0.0.1, so connecting it to a
\* captured destination, which is never a loopback one, is refused and nothing is sent.
udp_one(s) ==
  /\ sock[s].at = "sent" /\ sock[s].via = "hodor" /\ Proto[s] = "udp"
  /\ sock' = [sock EXCEPT ![s].at = "served"]
  /\ UNCHANGED <<ORIG_DST, FLOW, CONFIG, file, watch, rewrites, writeFaults>>

\* The client closes; its entries stay in the maps.  A socket is used again as a new one
\* only in the sense of its own port: cookies never repeat.
Close(s) ==
  /\ sock[s].at = "served" \/ (sock[s].at = "sent" /\ sock[s].via = "wire")
  /\ sock' = [sock EXCEPT ![s].at = "closed", ![s].port = 0]
  /\ UNCHANGED <<ORIG_DST, FLOW, CONFIG, file, watch, rewrites, writeFaults>>

(***************************************************************************)
(* The watcher.                                                            *)
(***************************************************************************)
\* The agent's entrypoint renames a complete list over the file.
Rewrite(f) ==
  /\ rewrites < MaxRewrites /\ f # file
  /\ file' = f /\ rewrites' = rewrites + 1
  /\ UNCHANGED <<sock, ORIG_DST, FLOW, CONFIG, watch, writeFaults>>

Merged == build_bypass(Explicit, parse_bypass_file(file))

Seen(raw) == [watch EXCEPT !.raw = raw]

ChangedSize == Cardinality(file) # Cardinality(watch.raw)
Changed == file # watch.raw

BypassPoll ==
  /\ Changed
  /\ IF Merged = watch.last
     THEN watch' = Seen(file) /\ UNCHANGED CONFIG
     ELSE CONFIG' = Merged /\ watch' = [Seen(file) EXCEPT !.last = Merged]
  /\ UNCHANGED <<sock, ORIG_DST, FLOW, file, rewrites, writeFaults>>

\* The write of the new list fails: the warning says the next poll retries it.
BypassWriteFails ==
  /\ Changed /\ Merged # watch.last /\ writeFaults < MaxWriteFaults
  /\ watch' = [Seen(file) EXCEPT !.failed = file]
  /\ writeFaults' = writeFaults + 1
  /\ UNCHANGED <<sock, ORIG_DST, FLOW, CONFIG, file, rewrites>>

EbpfNext ==
  \/ \E s \in Sockets, d \in Dsts, p \in Ports : connect4(s, d, p)
  \/ \E s \in Sockets : capture_egress(s) \/ tcp_one(s) \/ udp_one(s) \/ Close(s)
  \/ \E f \in Files : Rewrite(f)
  \/ BypassPoll \/ BypassWriteFails

(***************************************************************************)
(* A captured TCP connection is served for the destination its client      *)
(* dialed, or closed: never for another's that shared or held its port     *)
(* ("dialing that destination would misroute the connection").  No dial is *)
(* captured to a destination the operator bypasses by flag, however long   *)
(* the lists beside the flag's are.                                        *)
(***************************************************************************)
RightServer ==
  \A s \in Sockets :
     /\ Proto[s] = "tcp" => sock[s].server \in {0, sock[s].dst}
     /\ sock[s].via = "hodor" => \A c \in Explicit : sock[s].dst \notin Covers[c]

(***************************************************************************)
(* Once the agent's file stays as it is, the programs come to bypass what  *)
(* it lists (below the operator's entries, and as many as fit), unless the *)
(* one write of that list failed.                                          *)
(***************************************************************************)
BypassFollows ==
  \A f \in Files :
     <>[](file = f) => <>[](CONFIG = build_bypass(Explicit, parse_bypass_file(f)) \/ watch.failed = f)
=============================================================================
