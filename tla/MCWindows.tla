----------------------------- MODULE MCWindows -----------------------------
(* Two needles: one that overlaps itself, swapped for something as long,   *)
(* and one that repeats a byte, swapped for something shorter.             *)
EXTENDS Windows

MCPairs == <<[needle |-> <<1, 2, 1>>, replacement |-> <<8, 9, 8>>],
             [needle |-> <<3, 3>>, replacement |-> <<7>>]>>
=============================================================================
