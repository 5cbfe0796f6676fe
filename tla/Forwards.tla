------------------------------ MODULE Forwards ------------------------------
(***************************************************************************)
(* The exposure sidecar (src/fwd.rs): in the network namespace that hodor, *)
(* the agent and the sidecar share, every loopback listener of the agent   *)
(* is made reachable on the bridge address.  The sidecar polls the kernel's*)
(* tables, asks which rows the agent's processes hold, stops the forwarders*)
(* whose listener is gone and starts the missing ones; listeners come and  *)
(* go between any two of these steps, and the accept loops run beside it   *)
(* on other threads.                                                       *)
(*                                                                         *)
(* An address is loopback of a family, "lo4" or "lo6", or "any": the       *)
(* wildcard, which shares its port with no other listener.  A row is a     *)
(* listening socket with its inode; the owner is what the sidecar can only *)
(* find out by the inode.                                                  *)
(***************************************************************************)
EXTENDS Naturals, FiniteSets

CONSTANTS FwdPorts,
          MaxListens,     \* bound: listeners opened in a behaviour
          MaxTableFaults  \* bound: reads of the tables that fail

VARIABLES rows,           \* the listening sockets of the namespace, not the sidecar's
          sidecar,        \* at, addresses to bind, rows read, ports wanted, ports left
          forwarders,     \* port -> the forwarder's upstream address, or "none"
          acceptors,      \* the accept loops: [port, up, dropped, at, relay]
          opened, tableFaults

fwdVars == <<rows, sidecar, forwarders, acceptors, opened, tableFaults>>

Family(addr) == IF addr = "lo6" THEN "v6" ELSE "v4"
Nothing == [p \in FwdPorts |-> "none"]
Idle(at, binds) == [at |-> at, binds |-> binds, seen |-> {}, desired |-> Nothing, left |-> {}]

FwdInit ==
  /\ rows = {} /\ sidecar = Idle("off", {}) /\ forwarders = Nothing /\ acceptors = {}
  /\ opened = 0 /\ tableFaults = 0

(***************************************************************************)
(* The agent's processes and hodor's own (owner "hodor"): the kernel gives *)
(* an address and port to one listener at a time.  External.               *)
(***************************************************************************)
Bound(p) == {r \in rows : r.port = p}
Listen(p, addr, owner) ==
  /\ opened < MaxListens /\ opened' = opened + 1
  /\ \A r \in Bound(p) : r.addr # addr /\ "any" \notin {r.addr, addr}
  /\ addr = "any" => ~\E a \in acceptors : a.port = p /\ a.at # "closed"
  /\ rows' = rows \cup {[inode |-> opened + 1, port |-> p, addr |-> addr, owner |-> owner]}
  /\ UNCHANGED <<sidecar, forwarders, acceptors, tableFaults>>
Unlisten(r) ==
  /\ rows' = rows \ {r}
  /\ UNCHANGED <<sidecar, forwarders, acceptors, opened, tableFaults>>

(***************************************************************************)
(* The sidecar.                                                            *)
(***************************************************************************)
Sidecar(s) == sidecar' = s /\ UNCHANGED <<rows, opened, tableFaults>>
Quietly == UNCHANGED <<forwarders, acceptors>>

\* run: the bridge's IPv4 address is required, IPv6 is taken if there is one.
bridge_addresses ==
  /\ sidecar.at = "off"
  /\ \E binds \in {{"v4"}, {"v4", "v6"}} : Sidecar(Idle("tcp", binds)) /\ Quietly
bridge_missing == sidecar.at = "off" /\ Sidecar(Idle("dead", {})) /\ Quietly

\* parse_table: the loopback rows of one family's table.
Loopback(addr) == {r \in rows : r.addr = addr}
parse_tcp ==
  /\ sidecar.at = "tcp"
  /\ Sidecar([sidecar EXCEPT !.at = "tcp6", !.seen = Loopback("lo4")]) /\ Quietly
parse_tcp6 ==
  /\ sidecar.at = "tcp6"
  /\ Sidecar([sidecar EXCEPT !.at = "attribute", !.seen = @ \cup Loopback("lo6")]) /\ Quietly
\* Tables that cannot be read end the sidecar, its listeners and relays with it.
parse_fails ==
  /\ sidecar.at \in {"tcp", "tcp6"} /\ tableFaults < MaxTableFaults
  /\ tableFaults' = tableFaults + 1
  /\ sidecar' = Idle("dead", {}) /\ forwarders' = Nothing /\ acceptors' = {}
  /\ UNCHANGED <<rows, opened>>

\* Mutant of attributable: by the address in place of the socket.
attributable_by_address(row) ==
  \E r \in rows : r.port = row.port /\ r.addr = row.addr /\ r.owner = "agent"
\* Whether a process of the agent holds the socket now.
attributable(row) == \E r \in rows : r.inode = row.inode /\ r.owner = "agent"

desired_listeners ==
  LET group(p) == {r \in sidecar.seen : r.port = p}
      one(p) == /\ Cardinality({r.addr : r \in group(p)}) = 1
                /\ attributable(CHOOSE r \in group(p) : TRUE)
      want == [p \in FwdPorts |-> IF one(p) THEN (CHOOSE r \in group(p) : TRUE).addr ELSE "none"]
  IN /\ sidecar.at = "attribute"
     /\ Sidecar([sidecar EXCEPT !.at = "reap", !.desired = want]) /\ Quietly

\* Drop of a forwarder: its accept loop is aborted, and the relays in its list.
Dropped(a) == [a EXCEPT !.dropped = TRUE, !.relay = IF @ = "listed" THEN "none" ELSE @]
\* Mutant of stale: a listener that moved is not seen as gone.
stale_unmoved(p) == forwarders[p] # "none" /\ sidecar.desired[p] = "none"
stale(p) == forwarders[p] # "none" /\ sidecar.desired[p] # forwarders[p]
\* reconcile, first half: the stale forwarders go.
Reap ==
  /\ sidecar.at = "reap"
  /\ forwarders' = [p \in FwdPorts |-> IF stale(p) THEN "none" ELSE forwarders[p]]
  /\ acceptors' = {IF stale(a.port) /\ ~a.dropped THEN Dropped(a) ELSE a : a \in acceptors}
  /\ Sidecar([sidecar EXCEPT !.at = "start", !.left = {p \in FwdPorts : sidecar.desired[p] # "none"}])

\* The bridge address is free for a port: no accept loop holds it, an aborted
\* one included until its task is gone, and no wildcard does.
Free(p, family) ==
  /\ ~\E a \in acceptors : a.port = p /\ Family(a.up) = family /\ a.at # "closed"
  /\ ~\E r \in Bound(p) : r.addr = "any"
Forwardable(p) ==
  /\ forwarders[p] = "none"
  /\ Family(sidecar.desired[p]) \in sidecar.binds
  /\ Free(p, Family(sidecar.desired[p]))
Accepting(p) == [port |-> p, up |-> sidecar.desired[p], dropped |-> FALSE,
                 at |-> "accept", relay |-> "none"]
\* Mutant of Begin: a port that could not be bound is taken for forwarded.
Begin_Once(p) ==
  /\ sidecar.at = "start" /\ p \in sidecar.left
  /\ forwarders' = [forwarders EXCEPT ![p] = sidecar.desired[p]]
  /\ acceptors' = IF Forwardable(p) THEN acceptors \cup {Accepting(p)} ELSE acceptors
  /\ Sidecar([sidecar EXCEPT !.left = @ \ {p}])
\* reconcile, second half, one port at a time: what cannot be bound waits for
\* the next poll.
Begin(p) ==
  /\ sidecar.at = "start" /\ p \in sidecar.left
  /\ IF Forwardable(p)
       THEN /\ forwarders' = [forwarders EXCEPT ![p] = sidecar.desired[p]]
            /\ acceptors' = acceptors \cup {Accepting(p)}
       ELSE Quietly
  /\ Sidecar([sidecar EXCEPT !.left = @ \ {p}])
Sleep == /\ sidecar.at = "start" /\ sidecar.left = {}
         /\ Sidecar([sidecar EXCEPT !.at = "tcp"]) /\ Quietly

SidecarPolls == \/ bridge_addresses \/ parse_tcp \/ parse_tcp6 \/ desired_listeners \/ Reap
                \/ (\E p \in FwdPorts : Begin(p)) \/ Sleep

(***************************************************************************)
(* An accept loop and, at a time, one of its relays: the relay is spawned  *)
(* first and put into the list afterwards.  An aborted loop ends where it  *)
(* waits.                                                                  *)
(***************************************************************************)
Become(a, b) ==
  /\ acceptors' = (acceptors \ {a}) \cup b
  /\ UNCHANGED <<rows, sidecar, forwarders, opened, tableFaults>>
Accept(a) == /\ a.at = "accept" /\ ~a.dropped /\ a.relay = "none"
             /\ Become(a, {[a EXCEPT !.at = "push", !.relay = "spawned"]})
Push(a) == a.at = "push" /\ Become(a, {[a EXCEPT !.at = "accept", !.relay = IF @ = "spawned" THEN "listed" ELSE @]})
Aborted(a) == a.at = "accept" /\ a.dropped
              /\ Become(a, IF a.relay = "none" THEN {} ELSE {[a EXCEPT !.at = "closed"]})
RelayDone(a) == a.relay # "none"
                /\ Become(a, IF a.at = "closed" THEN {} ELSE {[a EXCEPT !.relay = "none"]})

AcceptorsRun == \E a \in acceptors : Push(a) \/ Aborted(a)

FwdNext ==
  \/ \E p \in FwdPorts : \/ \E addr \in {"lo4", "lo6", "any"} : Listen(p, addr, "agent")
                         \/ Listen(p, "lo4", "hodor")
  \/ \E r \in rows : Unlisten(r)
  \/ SidecarPolls \/ bridge_missing \/ parse_fails
  \/ \E a \in acceptors : Accept(a) \/ RelayDone(a)
  \/ AcceptorsRun

(***************************************************************************)
(* Whatever came and went between the two table reads, the look at the     *)
(* processes and the accept loops, a poll leaves forwarders only for       *)
(* listeners it read that are the agent's, alone on their port: hodor's    *)
(* own and a port two listeners share are "never forwarded".               *)
(***************************************************************************)
AgentsOnly ==
  sidecar.at = "start" =>
    \A p \in FwdPorts : forwarders[p] # "none" =>
      \E r \in sidecar.seen : /\ r.port = p /\ r.addr = forwarders[p] /\ r.owner = "agent"
                              /\ \A q \in sidecar.seen : q.port = p => q = r

Left(p) == ~\E r \in Bound(p) : r.owner = "agent"
Settled(p) ==
  \/ Left(p)
  \/ \E r \in Bound(p) : /\ r.owner = "agent" /\ r.addr # "any" /\ Bound(p) = {r}
                         /\ Family(r.addr) \in sidecar.binds
InStep(p) ==
  LET serving == {a.up : a \in {x \in acceptors : x.port = p /\ ~x.dropped}} IN
  IF Left(p) THEN serving = {} ELSE serving = {r.addr : r \in Bound(p)}

(***************************************************************************)
(* A listener of the agent that stays, alone on its port, comes to be      *)
(* forwarded for good and nothing else with it, also where it moved and    *)
(* the aborted accept loop still held the bridge port at the first try;    *)
(* and a port the agent left comes to have no forwarder, as long as the    *)
(* sidecar runs.                                                           *)
(***************************************************************************)
ForwardsFollow ==
  \A p \in FwdPorts :
     <>[](sidecar.at \notin {"off", "dead"} /\ Settled(p)) => <>[]InStep(p)

(***************************************************************************)
(* "Active relays, aborted on drop": a reaped forwarder leaves no relay.   *)
(***************************************************************************)
RelaysReaped == \A a \in acceptors : a.at = "closed" => a.relay = "none"
=============================================================================
