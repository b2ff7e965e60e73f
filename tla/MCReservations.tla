--------------------------- MODULE MCReservations ---------------------------
(***************************************************************************)
(* MCReservations: one reservation, whose two requests can interleave at   *)
(* every database call, with a deposit, two orders and a crash.            *)
(* Reservations meet only in the conflict check, which is advisory:        *)
(* MCReservationsDouble has two of them for one table.                     *)
(***************************************************************************)
EXTENDS Reservations
=============================================================================
