----------------------------- MODULE AtomicWrites -----------------------------
(***************************************************************************)
(* What transaction() promises its users: a block is stored in one step or *)
(* not at all, whatever the other blocks do, and a block that failed may   *)
(* be tried again.                                                         *)
(***************************************************************************)
CONSTANTS
    Writers,    \* blocks under transaction()
    Rows(_)     \* the rows a block writes

VARIABLES
    stored,     \* rows in the database
    outcome     \* writer -> "none" | "committed" | "failed"

Init ==
    /\ stored = {}
    /\ outcome = [w \in Writers |-> "none"]

Commit(w) ==
    /\ outcome[w] = "none"
    /\ stored' = stored \cup Rows(w)
    /\ outcome' = [outcome EXCEPT ![w] = "committed"]

Retry(w) ==
    /\ outcome[w] = "failed"
    /\ outcome' = [outcome EXCEPT ![w] = "none"]
    /\ UNCHANGED stored

(* Some blocks fail: alone, or together when the process stops. *)
Fail(ws) ==
    /\ \A w \in ws : outcome[w] = "none"
    /\ outcome' = [w \in Writers |-> IF w \in ws THEN "failed" ELSE outcome[w]]
    /\ UNCHANGED stored

Next ==
    \/ \E w \in Writers : Commit(w) \/ Retry(w)
    \/ \E ws \in SUBSET Writers : Fail(ws)

Spec == Init /\ [][Next]_<<stored, outcome>>
=============================================================================
