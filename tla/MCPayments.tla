----------------------------- MODULE MCPayments -----------------------------
(***************************************************************************)
(* One request at a time (the slot r1), or two that interleave; two        *)
(* intents that are alike, a total and amounts that can fall short of each *)
(* other, meet and exceed, webhooks enough to repeat one and to report on  *)
(* both intents.                                                           *)
(***************************************************************************)
EXTENDS Payments, TLC

MCSymmetry == Permutations(Intents)
=============================================================================
