---------------------------- MODULE Subsequences ----------------------------
(***************************************************************************)
(* SelectSeq for a set of positions, as a fold: the provers know nothing   *)
(* of SelectSeq.                                                           *)
(***************************************************************************)
EXTENDS Integers, Sequences, SequencesExt

KeepStep(kept, next) == IF next[2] THEN Append(kept, next[1]) ELSE kept

(* The elements of s at these positions, in their order. *)
Subsequence(s, positions) ==
    FoldLeft(KeepStep, <<>>, [i \in DOMAIN s |-> <<s[i], i \in positions>>])
=============================================================================
