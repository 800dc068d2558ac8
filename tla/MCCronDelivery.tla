--------------------------- MODULE MCCronDelivery ---------------------------
(* Symmetry for TLC: articles are interchangeable. *)
EXTENDS CronDelivery, TLC

Symmetry == Permutations(Articles)
=============================================================================
