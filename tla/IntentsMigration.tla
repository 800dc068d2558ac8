--------------------------- MODULE IntentsMigration ---------------------------
(***************************************************************************)
(* ensure_intents_collection (vector_store/intents), which a start awaits  *)
(* before the API is up: the intents are embedded again into a collection  *)
(* with named vectors, and the alias intents_current is moved to it.  Any  *)
(* call may fail, before or after it took effect, and ends the start; the  *)
(* next one finds what is there.                                           *)
(*                                                                         *)
(* Between two starts an operator may go back to the release before, for   *)
(* which the old collection is kept, and users change intents there.       *)
(***************************************************************************)
EXTENDS Integers, FiniteSets

CONSTANTS
    IntentIds,      \* bound: intents
    Texts           \* bound: main texts of an intent

VARIABLES
    intents,    \* rows: intents with their text
    alias,      \* the collection of intents_current: "none" | "legacy" | "mv"
    mv,         \* the points of the named-vector collection, in a set of one, or {}
    start,      \* where a start is
    reused      \* history: an earlier start built what the alias was moved to

migrationVars == <<intents, alias, mv, start, reused>>

Pairs == IntentIds \X Texts
IdsOf(pairs) == {p[1] : p \in pairs}
OneTextEach(pairs) == \A p, q \in pairs : p[1] = q[1] => p = q

MigrationTypeOK ==
    /\ intents \subseteq Pairs /\ OneTextEach(intents)
    /\ alias \in {"none", "legacy", "mv"}
    /\ Cardinality(mv) <= 1 /\ \A points \in mv : points \subseteq Pairs /\ OneTextEach(points)
    /\ start \in {"down", "probe", "delete", "create", "upsert", "flip", "up"}
    /\ reused \in BOOLEAN

(* A new database, or one of the release before. *)
MigrationInit ==
    /\ intents = {} /\ mv = {} /\ reused = FALSE
    /\ alias \in {"none", "legacy"}
    /\ start = "down"

-----------------------------------------------------------------------------
(* The start *)

(* The alias has named vectors already: nothing to do.                     *)
StartsMigrated ==
    /\ start = "down" /\ alias = "mv"
    /\ start' = "up"
    /\ UNCHANGED <<intents, alias, mv, reused>>

(* It has not, or asking for its layout failed, which counts as no.        *)
StartMigration ==
    /\ start = "down"
    /\ start' = "probe"
    /\ UNCHANGED <<intents, alias, mv, reused>>

(* What an earlier start left is used if it has a point of every intent    *)
(* and of no other; a question that fails counts as no.                    *)
(* Mutant: the points are only counted. *)
LeftAsMany(points) == Cardinality(points) = Cardinality(intents)
LeftComplete(points) == IdsOf(points) = IdsOf(intents)

Probe(answered) ==
    /\ start = "probe"
    /\ start' = IF mv = {} THEN "create"
                ELSE IF answered /\ \A points \in mv : LeftComplete(points) THEN "flip"
                ELSE "delete"
    /\ reused' = (reused \/ start' = "flip")
    /\ UNCHANGED <<intents, alias, mv>>

(* What a stage does to the collections, and the stage after it.  An alias *)
(* goes with the collection it names.                                      *)
Effect ==
    /\ mv' = CASE start = "delete" -> {}
               [] start = "create" -> {{}}
               [] start = "upsert" -> {intents}
               [] OTHER -> mv
    /\ alias' = CASE start = "flip" -> "mv"
                  [] start = "delete" /\ alias = "mv" -> "none"
                  [] OTHER -> alias
    /\ reused' = (reused /\ start # "delete")

After == [delete |-> "create", create |-> "upsert", upsert |-> "flip", flip |-> "up"]

StageDone ==
    /\ start \in DOMAIN After
    /\ Effect
    /\ start' = After[start]
    /\ UNCHANGED intents

(* A call fails, or the process stops. *)
StartFails(applied) ==
    /\ start \in DOMAIN After \cup {"probe"}
    /\ IF applied THEN Effect ELSE UNCHANGED <<mv, alias, reused>>
    /\ start' = "down"
    /\ UNCHANGED intents

-----------------------------------------------------------------------------
(* The intents *)

Without(pairs, i) == {p \in pairs : p[1] # i}

(* POST, PUT and DELETE, which change row and point (IntentApi).           *)
Save(i, t) ==
    /\ start = "up"
    /\ intents' = Without(intents, i) \cup {<<i, t>>}
    /\ mv' = {Without(points, i) \cup {<<i, t>>} : points \in mv}
    /\ UNCHANGED <<alias, start, reused>>

Remove(i) ==
    /\ start = "up"
    /\ intents' = Without(intents, i)
    /\ mv' = {Without(points, i) : points \in mv}
    /\ UNCHANGED <<alias, start, reused>>

StopProcess ==
    /\ start = "up"
    /\ start' = "down"
    /\ UNCHANGED <<intents, alias, mv, reused>>

(* The release before runs on its own collection, and changes the rows. *)
GoBack ==
    /\ start = "down" /\ alias # "legacy"
    /\ alias' = "legacy"
    /\ UNCHANGED <<intents, mv, start, reused>>

OldSave(i, t) ==
    /\ start = "down" /\ alias = "legacy"
    /\ intents' = Without(intents, i) \cup {<<i, t>>}
    /\ UNCHANGED <<alias, mv, start, reused>>

OldRemove(i) ==
    /\ start = "down" /\ alias = "legacy"
    /\ intents' = Without(intents, i)
    /\ UNCHANGED <<alias, mv, start, reused>>

MigrationNext ==
    \/ StartsMigrated \/ StartMigration
    \/ \E answered \in BOOLEAN : Probe(answered)
    \/ StageDone
    \/ \E applied \in BOOLEAN : StartFails(applied)
    \/ StopProcess \/ GoBack
    \/ \E i \in IntentIds :
        \/ \E t \in Texts : Save(i, t) \/ OldSave(i, t)
        \/ Remove(i) \/ OldRemove(i)

MigrationSpec == MigrationInit /\ [][MigrationNext]_migrationVars

-----------------------------------------------------------------------------
(* When the API is up, the alias names a collection with a point of every  *)
(* intent and of no other, wherever earlier starts broke off and whatever  *)
(* the release before did in between; and made from the main texts, unless *)
(* an earlier start built it, of which only the ids are compared (ensure_  *)
(* intents_collection "Flip alias only after the new collection holds the  *)
(* expected row count", 'Catches the "count equal but IDs diverged" silent *)
(* inconsistency window').                                                 *)
MigratedWhole ==
    start = "up" =>
        /\ alias = "mv" /\ mv # {}
        /\ \A points \in mv : /\ IdsOf(points) = IdsOf(intents)
                              /\ ~reused => points = intents
=============================================================================
