--------------------------- MODULE MCIdempotency ----------------------------
(***************************************************************************)
(* Three requests over one key and two payloads: two of them can race for  *)
(* the insert while the third retries the key or reuses it with another    *)
(* payload, and a fourth comes after everything is finished.  A crash can  *)
(* lose one of them.  Keys never interact, so one is enough.               *)
(***************************************************************************)
EXTENDS Idempotency
=============================================================================
