----------------------------- MODULE MCCapture -----------------------------
(***************************************************************************)
(* One TUN connection with room for a unit in each buffer and channel, and *)
(* a second that finds the tracker full or takes the slot after it; a TCP  *)
(* and a UDP socket of the guest on one port and a TCP socket after them;  *)
(* bypass lists longer than the programs carry; three listeners, one after *)
(* or beside the other, on a port the sidecar may forward.                 *)
(***************************************************************************)
EXTENDS Capture

MCGuestUnits == [c \in Conns |-> IF c = "a" THEN 3 ELSE 0]
MCTaskUnits == [c \in Conns |-> IF c = "a" THEN 2 ELSE 0]
MCProto == [s \in Sockets |-> IF s = "u" THEN "udp" ELSE "tcp"]
MCFiles == {{}, {2, 0}, {1, 3}}
MCCovers == [c \in Cidrs |-> {c}]
=============================================================================
