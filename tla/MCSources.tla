------------------------------ MODULE MCSources ------------------------------
(***************************************************************************)
(* Collection and storage components that share no state with each other,  *)
(* in one run: one of them is chosen at the start and moves, the others    *)
(* stay as they are.                                                       *)
(***************************************************************************)
EXTENDS SharedConn, SourceCursors, FeedJobs, DerivedBackfill, IntentsMigration,
        TLC

VARIABLE moves          \* the component that was chosen

Parts == {"conn", "cursors", "feedJobs", "backfill", "migration"}

SourcesTypeOK ==
    /\ TypeOK /\ CursorTypeOK /\ FeedJobsTypeOK /\ BackfillTypeOK /\ MigrationTypeOK
    /\ moves \in Parts

(* What Init leaves open in a component that does not move is fixed.       *)
SourcesInit ==
    /\ moves \in Parts
    /\ Init /\ FeedJobsInit
    /\ MigrationInit /\ (moves # "migration" => alias = "none")
    /\ BackfillInit /\ (moves # "backfill" => refusing = {})
    /\ CursorInit
    /\ moves # "cursors" =>
          LET f == CHOOSE g \in Feeds : TRUE
          IN  kind = "ledger" /\ polled = {f} /\ of = [a \in News |-> f]

OthersStay ==
    /\ UNCHANGED moves
    /\ moves # "conn" => UNCHANGED vars
    /\ moves # "cursors" => UNCHANGED cursorVars
    /\ moves # "feedJobs" => UNCHANGED feedJobVars
    /\ moves # "backfill" => UNCHANGED backfillVars
    /\ moves # "migration" => UNCHANGED migrationVars

SourcesNext ==
    \/ moves = "conn" /\ Next /\ OthersStay
    \/ moves = "cursors" /\ CursorNext /\ OthersStay
    \/ moves = "feedJobs" /\ FeedJobsNext /\ OthersStay
    \/ moves = "backfill" /\ BackfillNext /\ OthersStay
    \/ moves = "migration" /\ MigrationNext /\ OthersStay

SourcesSpec ==
    SourcesInit
        /\ [][SourcesNext]_<<moves, vars, cursorVars, feedJobVars, backfillVars, migrationVars>>

SourcesSymmetry ==
    Permutations(FeedRequests) \cup Permutations(Configs)
        \cup Permutations(News) \cup Permutations(Feeds)
=============================================================================
