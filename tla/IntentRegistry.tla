----------------------------- MODULE IntentRegistry ----------------------------
(***************************************************************************)
(* Intents as the program keeps them: requests of the API, the deletion of *)
(* a feed that an intent filters on, and restarts.  That a backfill pauses *)
(* the job of its intent is part of CronDelivery.                          *)
(***************************************************************************)
EXTENDS IntentApi

registryVars == <<storeVars, apiVars>>

TypeOK ==
    /\ StoresTypeOK
    /\ ApiTypeOK

Init ==
    /\ StoresInit
    /\ ApiInit

-----------------------------------------------------------------------------
(* remove_feed: the jobs of enabled intents that name the feed are         *)
(* registered again.                                                       *)
FeedRemoved(i) ==
    /\ Exists(i) /\ rows[i].enabled
    /\ jobs' = Registered(jobs, i, rows[i])
    /\ tainted' = IF InFlight(i) = {} THEN tainted ELSE tainted \cup {i}
    /\ UNCHANGED <<rows, points, cache, born, req, strayed, failed>>

(* The process stops and starts: requests are gone, jobs and cache come    *)
(* from the rows that have a point.                                        *)
Crash ==
    /\ req' = [r \in Requests |-> Idle]
    /\ jobs' = JobsAtStartup
    /\ cache' = CacheAtStartup
    /\ tainted' = {i \in Intents : Exists(i) /\ rows[i].enabled /\ points[i] = Nothing}
    /\ strayed' = strayed \cup {i \in Intents : InFlight(i) # {}}
    /\ UNCHANGED <<rows, points, born, failed>>

Next ==
    \/ \E r \in Requests : RequestStep(r)
    \/ \E r \in Requests : RequestArrives(r)
    \/ \E i \in Intents : FeedRemoved(i)
    \/ Crash

Spec == Init /\ [][Next]_registryVars

-----------------------------------------------------------------------------
Quiet(i) == InFlight(i) = {}

HasJobOfRow(i) ==
    IF Exists(i) /\ rows[i].enabled /\ ~IsEvent(rows[i].schedule)
    THEN jobs[i] = rows[i].schedule
    ELSE jobs[i] = Nothing

PointOfRow(i) ==
    points[i] = IF Exists(i) THEN Vectors(rows[i]) ELSE Nothing

HasEntryOfRow(i) ==
    IF Exists(i) /\ rows[i].enabled /\ IsEvent(rows[i].schedule)
    THEN /\ cache[i] # Nothing
         /\ cache[i].schedule = rows[i].schedule
         /\ (i \notin strayed /\ failed[i] = {}) => cache[i] = Entry(Vectors(rows[i]), rows[i])
    ELSE cache[i] = Nothing

(* Once no request of an intent is open, its job, its cache entry and its  *)
(* point are what its row asks for: also after requests that were answered *)
(* with 500 and rolled back, after feed deletions and restarts.            *)
(* Not promised after requests that overlapped or could not finish their   *)
(* bookkeeping; a DELETE that runs alone, or a restart, mends these.  A    *)
(* PUT that failed may leave the point ahead of the row, but only until    *)
(* the same body is put again: "SQLite is the source of truth; a           *)
(* subsequent PUT with a matching body re-syncs" (api/intents.py:332).     *)
StoresFollowRows ==
    \A i \in Intents : Quiet(i) =>
        /\ i \notin tainted => HasJobOfRow(i) /\ HasEntryOfRow(i)
        /\ i \notin strayed /\ failed[i] = {} => PointOfRow(i)

(* No request brings an intent back that was deleted: not the rollback of  *)
(* a PUT that overlapped with the DELETE, nor a retry.                     *)
DeletedStaysDeleted ==
    [][\A i \in born : ~Exists(i) => ~Exists(i)']_registryVars

(* The stores of a deleted intent are empty once its requests are          *)
(* answered, whichever of them overlapped: the writes "stay consistent or  *)
(* roll back together" (docs/modules/api.md:11).  Fails: a PUT that is     *)
(* past its re-read registers the matcher again.                           *)
NoGhostMatcher ==
    \A i \in Intents :
        (Quiet(i) /\ ~Exists(i)) => (points[i] = Nothing /\ cache[i] = Nothing /\ jobs[i] = Nothing)
=============================================================================
