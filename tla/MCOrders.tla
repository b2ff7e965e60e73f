------------------------------ MODULE MCOrders ------------------------------
(***************************************************************************)
(* Two instances of Orders.                                                *)
(*                                                                         *)
(* MCOrdersRace: one order without a table and one kitchen line, two       *)
(* requests that can interleave at every database call, a crash.           *)
(*                                                                         *)
(* MCOrdersSerial: one request at a time, next to the jobs left behind and *)
(* the staff at the tables; two orders that can share the table, and two   *)
(* lines made at one station.                                              *)
(***************************************************************************)
EXTENDS Orders, TLC

CONSTANT Kitchen

MCStationOf == [l \in Lines |-> Kitchen]

\* The orders are alike, and so are the two lines of the serial instance.
MCSymmetry == Permutations(Orders) \cup Permutations(Lines)
=============================================================================
