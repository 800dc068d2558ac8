----------------------------- MODULE NewsPipeline -----------------------------
(***************************************************************************)
(* The life of an article: collected, queued, embedded, handed to the      *)
(* event matcher, expired.  Collection passes, the embedder worker and the *)
(* maintenance jobs run on one event loop and interleave at their awaits;  *)
(* the process may stop between any two steps.                             *)
(***************************************************************************)
EXTENDS Collector, Embedder, Retention

CONSTANTS
    Jobs,   \* maintenance jobs registered: subset of {"ttl", "reconcile", "dead_ttl"}
    Ops     \* what happens to the process: subset of {"delete_feed", "prune", "crash"}

ASSUME JobsAssumption == Jobs \subseteq {"ttl", "reconcile", "dead_ttl"}
ASSUME OpsAssumption == Ops \subseteq {"delete_feed", "prune", "crash"}

vars == <<storeVars, collectorVars, embedderVars, retentionVars>>

TypeOK == StoreTypeOK /\ CollectorTypeOK /\ EmbedderTypeOK /\ RetentionTypeOK

Init == StoreInit /\ CollectorInit /\ EmbedderInit /\ RetentionInit

Collect == \E r \in Runs : CollectorStep(r) /\ UNCHANGED <<embedderVars, retentionVars>>

Embed == EmbedderStep /\ UNCHANGED <<collectorVars, retentionVars>>

Expire ==
    /\ "ttl" \in Jobs
    /\ TtlStep
    /\ UNCHANGED <<collectorVars, embedderVars>>

Reconcile ==
    /\ "reconcile" \in Jobs
    /\ RecStep
    /\ UNCHANGED <<collectorVars, embedderVars>>

DropDead ==
    /\ "dead_ttl" \in Jobs
    /\ \E old \in SUBSET Articles : ExpireDead(old)
    /\ UNCHANGED <<collectorVars, embedderVars>>

Prune ==
    /\ "prune" \in Ops
    /\ PruneStep
    /\ UNCHANGED <<collectorVars, embedderVars>>

RemoveFeed ==
    /\ "delete_feed" \in Ops
    /\ \E f \in Feeds : DeleteFeed(f)
    /\ UNCHANGED <<collectorVars, embedderVars, retentionVars>>

(* Ages matter only to a TTL or a prune. *)
Age ==
    /\ "ttl" \in Jobs \/ "prune" \in Ops
    /\ \E m \in Articles : AgePoint(m)
    /\ UNCHANGED <<collectorVars, embedderVars, retentionVars>>

(* The container stops and starts again: every tick in flight is gone, the *)
(* stores keep what was committed.                                         *)
Crash ==
    /\ "crash" \in Ops
    /\ CollectorCrash
    /\ TickEnds
    /\ ttlPc' = "idle" /\ ttlIds' = {} /\ ttlBatch' = {}
    /\ recPc' = "idle" /\ recIds' = {}
    /\ prunePc' = "idle" /\ pruneIds' = {}

Next ==
    \/ Collect \/ Embed \/ Expire \/ Reconcile \/ DropDead \/ Prune
    \/ RemoveFeed \/ Age \/ Crash

Spec == Init /\ [][Next]_vars

-----------------------------------------------------------------------------
(* Safety *)

(* An article a committed insert took in is still queued, or has a point   *)
(* in one of the collections, or is a dead row, or was removed on purpose. *)
(* The worker upserts before it dequeues, demotion copies before it        *)
(* deletes, and the TTL archives before it deletes (embedder/scheduler     *)
(* embedder_worker, qdrant_ttl "no failure point can leave an article in   *)
(* neither store").                                                        *)
NoArticleLost ==
    \A m \in accepted :
        Queued(m) \/ Indexed(m) \/ m \in archive \/ dead[m] # NoRow \/ m \in purged

(* An article that left the queue, and neither died nor was purged, has    *)
(* been handed to the event matcher since it was accepted: crashes and     *)
(* failed deletes repeat the hand-off, they never skip it (embedder_worker *)
(* calls event_match_batch before delete_pending).                         *)
OfferedBeforeDequeued ==
    \A m \in accepted :
        Queued(m) \/ dead[m] # NoRow \/ m \in purged \/ m \in offered

(* A row is demoted to dead_articles only after MAX_ATTEMPTS counted       *)
(* attempts of its own (embedder/scheduler.py MAX_ATTEMPTS: "total         *)
(* embed+upsert attempts before a row is demoted").                        *)
DeadExhausted == \A m \in Articles : dead[m] # NoRow => dead[m].retry = MaxAttempts

(* The ledger row of a queued article exists and names the feed its queue  *)
(* row names, so a later collection pass drops the article as a duplicate  *)
(* and deleting the feed takes both rows (insert_article_pending: "ensures *)
(* feed_items and pending_articles are always consistent").                *)
LedgerMatchesQueue == \A m \in Articles : Queued(m) => feed_items[m] = pending[m].feed

(* A point leaves news_current only when the article is in news_archive    *)
(* already, unless someone purged it (qdrant_ttl: "archive upsert          *)
(* (acknowledged) >= news_current delete").                                *)
ArchivedBeforeDeleted ==
    [][\A m \in Articles : Indexed(m) /\ ~Indexed(m)' => m \in archive \/ m \in purged']_vars

-----------------------------------------------------------------------------
(* Liveness.  The scheduler ticks forever, so a tick that can start does,  *)
(* and a tick in progress moves on; asyncio.Lock is first come first       *)
(* served, so a tick that waits for it gets it (strong fairness).  The     *)
(* embedding service, Qdrant and SQLite may fail again and again, but not  *)
(* at every one of infinitely many tries: for each stage a conclusive      *)
(* outcome is strongly fair.                                               *)

EmbedderFairness ==
    /\ SF_vars(Embed)
    /\ SF_vars((EmbedReturns \/ EmbedFails) /\ UNCHANGED <<collectorVars, retentionVars>>)
    /\ SF_vars((UpsertReturns \/ UpsertFails({}) \/ UpsertFails(batch))
                  /\ UNCHANGED <<collectorVars, retentionVars>>)
    /\ SF_vars(MatchBatch /\ UNCHANGED <<collectorVars, retentionVars>>)
    /\ SF_vars(CountAttempt /\ UNCHANGED <<collectorVars, retentionVars>>)
    /\ SF_vars(DeleteEmbedded /\ UNCHANGED <<collectorVars, retentionVars>>)

(* A pass in progress goes on; it never waits for anything but the lock. *)
CollectorFairness ==
    \A r \in Runs : WF_vars((\/ FetchFails(r) \/ CommitInsert(r) \/ AbortInsert(r)
                              \/ (\E m \in Articles : SkipArticle(r, m))
                              \/ FinishCollect(r))
                             /\ UNCHANGED <<embedderVars, retentionVars>>)

ReconcileFairness ==
    /\ SF_vars(Reconcile)
    /\ SF_vars(RecRetrieve /\ UNCHANGED <<collectorVars, embedderVars>>)
    /\ \A m \in Articles :
          SF_vars((\E chunk \in SUBSET Articles : m \in chunk /\ RecDelete(chunk))
                    /\ UNCHANGED <<collectorVars, embedderVars>>)

FairSpec == Spec /\ EmbedderFairness /\ CollectorFairness /\ ReconcileFairness

(* A row that still has attempts left is embedded, dies, or reaches the    *)
(* attempt limit: transient errors and crashes delay it, nothing starves.  *)
QueueDrains ==
    \A m \in Articles : m \in Pullable ~> m \notin Pullable

(* A fingerprint without a queue row and without a point, left behind by a *)
(* demotion or by a cascade that failed, is eventually dropped or its      *)
(* article comes back (reconcile).                                         *)
OrphansSwept ==
    \A m \in Articles :
        (Known(m) /\ ~Queued(m) /\ ~Indexed(m)) ~> (~Known(m) \/ Queued(m) \/ Indexed(m))
=============================================================================
