---------------------------- MODULE MCNewsPipeline ----------------------------
(* Instances of NewsPipeline for TLC. *)
EXTENDS NewsPipeline, TLC

(* Articles, feeds and runs are interchangeable: no operator orders them.  *)
(* Used in runs that check no liveness property.                           *)
Symmetry == Permutations(Articles) \cup Permutations(Feeds) \cup Permutations(Runs)
===============================================================================
