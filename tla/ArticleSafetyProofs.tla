-------------------------- MODULE ArticleSafetyProofs --------------------------
(***************************************************************************)
(* The types of the pipeline; no article is lost, none is archived too     *)
(* late, none leaves the queue without the event path having seen it, none *)
(* dies before its time, and the ledger knows what is queued: the proofs,  *)
(* each with the strengthening that makes it inductive, for every set of   *)
(* articles, feeds and passes, every attempt limit, batch size and choice  *)
(* of jobs and operations.                                                 *)
(***************************************************************************)
EXTENDS NewsPipeline, TLAPS

USE AttemptsAssumption, SentinelAssumption

(* A pass that is under way knows its feed. *)
RunsHaveFeeds == \A r \in Runs : runPc[r] # "idle" => runFeed[r] \in Feeds

(* Until its attempt is counted, a row of the tick is below the limit. *)
BelowLimit ==
    embPc \in {"embedding", "upserting", "counting"} =>
        \A m \in batch : Queued(m) => pending[m].retry < MaxAttempts

TypeInv == TypeOK /\ RunsHaveFeeds /\ BelowLimit

(* The rows of the queue, once they are known to be rows. *)
LEMMA QueuedRow ==
    ASSUME StoreTypeOK, NEW m \in Articles, Queued(m)
    PROVE  pending[m] \in Row /\ pending[m].feed \in Feeds /\ pending[m].retry \in 0..MaxAttempts
BY DEF StoreTypeOK, Queued, Row

(* Counting an attempt keeps exactly the queued rows queued. *)
LEMMA CountedRows ==
    ASSUME TypeInv, CountAttempt
    PROVE  /\ pending' \in [Articles -> Row \cup {NoRow}]
           /\ \A m \in Articles : Queued(m)' <=> Queued(m)
<1> DEFINE counted(m) == [pending[m] EXCEPT !.retry = @ + 1]
<1>1. pending \in [Articles -> Row \cup {NoRow}]
    BY DEF TypeInv, TypeOK, StoreTypeOK
<1>2. ASSUME NEW m \in Articles, m \in batch, Queued(m)
      PROVE  counted(m) \in Row
    <2>1. pending[m].retry < MaxAttempts
        BY <1>2 DEF TypeInv, BelowLimit, CountAttempt
    <2> QED BY <1>2, <2>1, QueuedRow DEF Row, TypeInv, TypeOK
<1>3. pending' = [m \in Articles |->
                     IF m \in batch /\ Queued(m) THEN counted(m) ELSE pending[m]]
    BY DEF CountAttempt, IncrementRetry
<1> HIDE DEF counted
<1>4. \A m \in Articles : (m \in batch /\ Queued(m)) => pending'[m] \in Row
    BY <1>2, <1>3
<1>5. \A m \in Articles : ~(m \in batch /\ Queued(m)) => pending'[m] = pending[m]
    BY <1>3
<1> QED BY <1>1, <1>2, <1>3, <1>4, <1>5 DEF Queued

-----------------------------------------------------------------------------
(* Type correctness *)

LEMMA TypeInit == Init => TypeInv
BY DEF Init, StoreInit, CollectorInit, EmbedderInit, RetentionInit, TtlInit, RecInit,
       PruneInit, TypeInv, TypeOK, StoreTypeOK, CollectorTypeOK, EmbedderTypeOK,
       RetentionTypeOK, RunsHaveFeeds, BelowLimit

LEMMA TypeCollect == TypeInv /\ Collect => TypeInv'
<1> SUFFICES ASSUME TypeInv, NEW r \in Runs, CollectorStep(r),
                    UNCHANGED <<embedderVars, retentionVars>>
             PROVE  TypeInv'
    BY DEF Collect
<1> USE DEF TypeInv, TypeOK, CollectorTypeOK, RunsHaveFeeds
<1>0. EmbedderTypeOK' /\ RetentionTypeOK'
    BY DEF EmbedderTypeOK, RetentionTypeOK, embedderVars, retentionVars
<1>1. ASSUME UNCHANGED pending PROVE BelowLimit'
    BY <1>1 DEF BelowLimit, Queued, embedderVars
<1>2. ASSUME UNCHANGED storeVars PROVE StoreTypeOK' /\ BelowLimit'
    BY <1>1, <1>2 DEF StoreTypeOK, storeVars
<1>3. CASE \E f \in Feeds : StartCollect(r, f)
    BY <1>0, <1>2, <1>3 DEF StartCollect
<1>4. CASE FetchFails(r)
    BY <1>0, <1>2, <1>4 DEF FetchFails, Finished
<1>5. CASE \E arts \in SUBSET Articles : FetchReturns(r, arts)
    BY <1>0, <1>2, <1>5 DEF FetchReturns
<1>6. CASE \E m \in Articles : BeginInsert(r, m)
    <2>1. StoreTypeOK'
        BY <1>6 DEF BeginInsert, InsertFingerprint, StoreTypeOK
    <2>2. CollectorTypeOK' /\ RunsHaveFeeds' /\ BelowLimit'
        BY <1>1, <1>6 DEF BeginInsert, InsertFingerprint
    <2> QED BY <1>0, <2>1, <2>2
<1>7. CASE \E m \in Articles : SkipArticle(r, m)
    BY <1>0, <1>2, <1>7 DEF SkipArticle
<1>8. CASE CommitInsert(r)
    <2> PICK m \in inserting[r] : InsertPending(m, runFeed[r])
        BY <1>8 DEF CommitInsert
    <2>1. m \in Articles /\ runFeed[r] \in Feeds
        BY <1>8 DEF CommitInsert
    <2>2. [feed |-> runFeed[r], retry |-> 0] \in Row
        BY <2>1 DEF Row
    <2>3. StoreTypeOK'
        BY <2>1, <2>2 DEF InsertPending, StoreTypeOK
    <2>4. BelowLimit'
        BY <2>1 DEF InsertPending, BelowLimit, Queued, embedderVars, StoreTypeOK, EmbedderTypeOK
    <2>5. CollectorTypeOK' /\ RunsHaveFeeds'
        BY <1>8 DEF CommitInsert, EndInsert
    <2> QED BY <1>0, <2>3, <2>4, <2>5
<1>9. CASE AbortInsert(r)
    <2>1. StoreTypeOK' /\ UNCHANGED pending
        BY <1>9 DEF AbortInsert, RollbackInsert, StoreTypeOK
    <2>2. CollectorTypeOK' /\ RunsHaveFeeds'
        BY <1>9 DEF AbortInsert, EndInsert
    <2> QED BY <1>0, <1>1, <2>1, <2>2
<1>10. CASE FinishCollect(r)
    BY <1>0, <1>2, <1>10 DEF FinishCollect, Finished
<1> QED BY <1>3, <1>4, <1>5, <1>6, <1>7, <1>8, <1>9, <1>10 DEF CollectorStep

LEMMA TypeEmbed == TypeInv /\ Embed => TypeInv'
<1> SUFFICES ASSUME TypeInv, EmbedderStep, UNCHANGED <<collectorVars, retentionVars>>
             PROVE  TypeInv'
    BY DEF Embed
<1> USE DEF TypeInv, TypeOK, EmbedderTypeOK
<1>0. CollectorTypeOK' /\ RetentionTypeOK' /\ RunsHaveFeeds'
    BY DEF CollectorTypeOK, RetentionTypeOK, RunsHaveFeeds, collectorVars, retentionVars
<1>1. ASSUME UNCHANGED storeVars PROVE StoreTypeOK'
    BY <1>1 DEF StoreTypeOK, storeVars
<1>2. ASSUME TickEnds PROVE EmbedderTypeOK' /\ BelowLimit'
    BY <1>2 DEF TickEnds, BelowLimit
<1>3. ASSUME UNCHANGED pending, UNCHANGED batch, embPc = "embedding" \/ embPc = "upserting"
      PROVE  BelowLimit'
    BY <1>3 DEF BelowLimit, Queued
<1>4. CASE \E rows \in SUBSET Articles : PullBatch(rows)
    BY <1>0, <1>1, <1>4 DEF PullBatch, AtLimit, BelowLimit, Pullable, Queued, storeVars
<1>5. CASE EmbedReturns \/ EmbedFails
    BY <1>0, <1>1, <1>3, <1>5 DEF EmbedReturns, EmbedFails, Goto, storeVars
<1>6. CASE UpsertReturns
    <2>1. StoreTypeOK' /\ UNCHANGED pending
        BY <1>6 DEF UpsertReturns, UpsertNews, StoreTypeOK
    <2> QED BY <1>0, <1>6, <2>1 DEF UpsertReturns, Goto, BelowLimit
<1>7. CASE \E applied \in SUBSET Articles : UpsertTransient(applied) \/ UpsertFails(applied)
    <2> PICK applied \in SUBSET Articles : UpsertTransient(applied) \/ UpsertFails(applied)
        BY <1>7
    <2>1. StoreTypeOK' /\ UNCHANGED pending
        BY DEF UpsertTransient, UpsertFails, UpsertRaised, UpsertNews, StoreTypeOK
    <2> QED BY <1>0, <1>2, <1>3, <2>1 DEF UpsertTransient, UpsertFails, Goto
<1>8. CASE CountAttempt
    <2>2. StoreTypeOK'
        BY <1>8, CountedRows DEF CountAttempt, IncrementRetry, StoreTypeOK
    <2> QED BY <1>0, <1>2, <1>8, <2>2 DEF CountAttempt, BelowLimit
<1>9. CASE DemoteExhausted
    <2>1. StoreTypeOK'
        BY <1>9 DEF DemoteExhausted, DemoteToDead, StoreTypeOK, Queued
    <2> QED BY <1>0, <1>2, <1>9, <2>1 DEF DemoteExhausted
<1>10. CASE MatchBatch
    <2>1. StoreTypeOK'
        BY <1>10 DEF MatchBatch, StoreTypeOK
    <2> QED BY <1>0, <1>10, <2>1 DEF MatchBatch, Goto, BelowLimit
<1>11. CASE DeleteEmbedded
    <2>1. StoreTypeOK'
        BY <1>11 DEF DeleteEmbedded, DeletePending, StoreTypeOK
    <2> QED BY <1>0, <1>2, <1>11, <2>1 DEF DeleteEmbedded
<1>12. CASE TickAborts
    BY <1>0, <1>1, <1>2, <1>12 DEF TickAborts
<1> QED BY <1>4, <1>5, <1>6, <1>7, <1>8, <1>9, <1>10, <1>11, <1>12 DEF EmbedderStep

(* What the maintenance jobs do to the stores: they never touch the queue, *)
(* accepted or offered.                                                    *)
JobVars == <<feeds, pending, writer, accepted, offered>>

LEMMA TypeExpire ==
    ASSUME TypeInv, TtlStep PROVE StoreTypeOK' /\ RetentionTypeOK' /\ UNCHANGED JobVars
<1> USE DEF TypeInv, TypeOK, RetentionTypeOK, recVars, pruneVars, JobVars
<1>1. ASSUME UNCHANGED storeVars PROVE StoreTypeOK' /\ UNCHANGED JobVars
    BY <1>1 DEF StoreTypeOK, storeVars
<1>2. CASE \E ids \in SUBSET Articles : TtlScroll(ids)
    BY <1>1, <1>2 DEF TtlScroll
<1>3. CASE \E ids \in SUBSET Articles : \E usable \in SUBSET ids : TtlRetrieve(ids, usable)
    BY <1>1, <1>3 DEF TtlRetrieve
<1>4. CASE TtlArchive
    BY <1>4 DEF TtlArchive, StoreTypeOK
<1>5. CASE TtlDelete
    BY <1>5 DEF TtlDelete, DeleteNews, StoreTypeOK
<1>6. CASE TtlCascade
    BY <1>6 DEF TtlCascade, ForgetFingerprints, StoreTypeOK
<1>7. CASE TtlAbort
    BY <1>1, <1>7 DEF TtlAbort
<1> QED BY <1>2, <1>3, <1>4, <1>5, <1>6, <1>7 DEF TtlStep

LEMMA TypeReconcile ==
    ASSUME TypeInv, RecStep PROVE StoreTypeOK' /\ RetentionTypeOK' /\ UNCHANGED JobVars
<1> USE DEF TypeInv, TypeOK, RetentionTypeOK, ttlVars, pruneVars, JobVars
<1>1. ASSUME UNCHANGED storeVars PROVE StoreTypeOK' /\ UNCHANGED JobVars
    BY <1>1 DEF StoreTypeOK, storeVars
<1>2. CASE RecScan
    BY <1>1, <1>2 DEF RecScan
<1>3. CASE RecRetrieve
    BY <1>1, <1>3 DEF RecRetrieve
<1>4. CASE \E chunk \in SUBSET Articles : RecDelete(chunk)
    BY <1>4 DEF RecDelete, ForgetFingerprints, StoreTypeOK
<1>5. CASE RecAbort
    BY <1>1, <1>5 DEF RecAbort
<1> QED BY <1>2, <1>3, <1>4, <1>5 DEF RecStep

LEMMA TypePrune ==
    ASSUME TypeInv, PruneStep PROVE StoreTypeOK' /\ RetentionTypeOK' /\ UNCHANGED JobVars
<1> USE DEF TypeInv, TypeOK, RetentionTypeOK, ttlVars, recVars, JobVars
<1>1. ASSUME UNCHANGED storeVars PROVE StoreTypeOK' /\ UNCHANGED JobVars
    BY <1>1 DEF StoreTypeOK, storeVars
<1>2. CASE \E ids \in SUBSET Articles : PruneScroll(ids)
    BY <1>1, <1>2 DEF PruneScroll, Aged
<1>3. CASE PruneDelete
    BY <1>3 DEF PruneDelete, DeleteNews, StoreTypeOK
<1>4. CASE PruneCascade
    BY <1>4 DEF PruneCascade, ForgetFingerprints, StoreTypeOK
<1>5. CASE PruneAbort
    BY <1>1, <1>5 DEF PruneAbort
<1> QED BY <1>2, <1>3, <1>4, <1>5 DEF PruneStep

LEMMA TypeDropDead ==
    ASSUME TypeInv, NEW old \in SUBSET Articles, ExpireDead(old)
    PROVE  StoreTypeOK' /\ RetentionTypeOK' /\ UNCHANGED JobVars
BY DEF TypeInv, TypeOK, StoreTypeOK, RetentionTypeOK, ExpireDead, retentionVars, JobVars

LEMMA TypeRemoveFeed == TypeInv /\ RemoveFeed => TypeInv'
<1> SUFFICES ASSUME TypeInv, NEW f \in Feeds, DeleteFeed(f),
                    UNCHANGED <<collectorVars, embedderVars, retentionVars>>
             PROVE  TypeInv'
    BY DEF RemoveFeed
<1> USE DEF TypeInv, TypeOK
<1>1. StoreTypeOK'
    BY DEF DeleteFeed, StoreTypeOK
<1>2. CollectorTypeOK' /\ EmbedderTypeOK' /\ RetentionTypeOK' /\ RunsHaveFeeds'
    BY DEF CollectorTypeOK, EmbedderTypeOK, RetentionTypeOK, RunsHaveFeeds,
           collectorVars, embedderVars, retentionVars
<1>3. BelowLimit'
    BY DEF DeleteFeed, BelowLimit, Queued, embedderVars, EmbedderTypeOK
<1> QED BY <1>1, <1>2, <1>3

LEMMA TypeCrash == TypeInv /\ Crash => TypeInv'
<1> SUFFICES ASSUME TypeInv, Crash PROVE TypeInv'
    OBVIOUS
<1>1. StoreTypeOK'
    BY DEF TypeInv, TypeOK, Crash, CollectorCrash, StoreTypeOK
<1>2. CollectorTypeOK' /\ EmbedderTypeOK' /\ RetentionTypeOK' /\ RunsHaveFeeds' /\ BelowLimit'
    BY DEF Crash, CollectorCrash, TickEnds, CollectorTypeOK, EmbedderTypeOK,
           RetentionTypeOK, RunsHaveFeeds, BelowLimit
<1> QED BY <1>1, <1>2 DEF TypeInv, TypeOK

LEMMA TypeStep == TypeInv /\ [Next]_vars => TypeInv'
<1> SUFFICES ASSUME TypeInv, [Next]_vars PROVE TypeInv'
    OBVIOUS
<1>1. ASSUME UNCHANGED <<collectorVars, embedderVars>>,
             StoreTypeOK' /\ RetentionTypeOK' /\ UNCHANGED JobVars
      PROVE  TypeInv'
    BY <1>1 DEF TypeInv, TypeOK, CollectorTypeOK, EmbedderTypeOK, RunsHaveFeeds, BelowLimit,
                Queued, collectorVars, embedderVars, JobVars
<1>2. CASE Collect
    BY <1>2, TypeCollect
<1>3. CASE Embed
    BY <1>3, TypeEmbed
<1>4. CASE Expire
    BY <1>1, <1>4, TypeExpire DEF Expire
<1>5. CASE Reconcile
    BY <1>1, <1>5, TypeReconcile DEF Reconcile
<1>6. CASE DropDead
    BY <1>1, <1>6, TypeDropDead DEF DropDead
<1>7. CASE Prune
    BY <1>1, <1>7, TypePrune DEF Prune
<1>8. CASE RemoveFeed
    BY <1>8, TypeRemoveFeed
<1>9. CASE Age
    <2>1. StoreTypeOK' /\ RetentionTypeOK' /\ UNCHANGED JobVars
        BY <1>9 DEF Age, AgePoint, TypeInv, TypeOK, StoreTypeOK, RetentionTypeOK,
                    retentionVars, JobVars
    <2> QED BY <1>1, <1>9, <2>1 DEF Age
<1>10. CASE Crash
    BY <1>10, TypeCrash
<1>11. CASE UNCHANGED vars
    BY <1>1, <1>11 DEF vars, storeVars, retentionVars, JobVars, TypeInv, TypeOK, StoreTypeOK,
                       RetentionTypeOK
<1> QED BY <1>2, <1>3, <1>4, <1>5, <1>6, <1>7, <1>8, <1>9, <1>10, <1>11 DEF Next

(* Every variable keeps its type; in particular no retry counter passes    *)
(* MAX_ATTEMPTS, although the tick that counts an attempt works on rows it *)
(* read several awaits earlier (embedder_worker, increment_retry).         *)
THEOREM TypeCorrect == Spec => []TypeOK
<1>1. Spec => []TypeInv
    BY TypeInit, TypeStep, PTL DEF Spec
<1>2. TypeInv => TypeOK
    BY DEF TypeInv
<1> QED BY <1>1, <1>2, PTL

-----------------------------------------------------------------------------
(* No article is lost *)

(* NoArticleLost needs one of two things.  Either no feed is ever deleted, *)
(* so that the rows of a tick stay the rows that were pulled; or points    *)
(* leave news_current only for the archive.  With both a prune and a       *)
(* deleted feed, a tick may dequeue an article that was taken in anew      *)
(* after its point had been pruned.                                        *)
NoStaleDequeue == "delete_feed" \notin Ops \/ ("prune" \notin Ops /\ ArchiveEnabled)

(* While no feed is deleted, the rows of a tick stay in the queue. *)
BatchQueued ==
    "delete_feed" \notin Ops /\ embPc # "idle" => \A m \in batch : Queued(m)

(* After the upsert, every article of the tick is stored outside the       *)
(* queue, or it has been purged and its row has nothing left to announce.  *)
BatchStored ==
    embPc \in {"matching", "deleting"} =>
        \A m \in batch : \/ Indexed(m)
                         \/ m \in archive
                         \/ "delete_feed" \notin Ops /\ m \in purged

(* With archiving on, what the TTL is about to delete is in the archive. *)
TtlBatchArchived == ArchiveEnabled /\ ttlPc = "delete" => ttlBatch \subseteq archive

StoredInv ==
    /\ TypeInv
    /\ BatchQueued
    /\ BatchStored
    /\ TtlBatchArchived
    /\ NoArticleLost

LEMMA StoredInit == Init => StoredInv
<1> SUFFICES ASSUME Init PROVE StoredInv
    OBVIOUS
<1>1. TypeInv
    BY TypeInit
<1>2. accepted = {} /\ embPc = "idle" /\ ttlPc = "idle"
    BY DEF Init, StoreInit, EmbedderInit, RetentionInit, TtlInit
<1> QED BY <1>1, <1>2 DEF StoredInv, BatchQueued, BatchStored, TtlBatchArchived, NoArticleLost

(* The part of the stores the invariant speaks of. *)
articleVars == <<pending, dead, news, archive, purged, accepted>>

LEMMA StoredFrame ==
    ASSUME StoredInv, TypeInv', UNCHANGED articleVars,
           UNCHANGED <<embPc, batch>>, TtlBatchArchived'
    PROVE  StoredInv'
BY DEF StoredInv, BatchQueued, BatchStored, NoArticleLost, Queued, Indexed, articleVars

LEMMA StoredCollect == StoredInv /\ Collect => StoredInv'
<1> SUFFICES ASSUME StoredInv, NEW r \in Runs, CollectorStep(r),
                    UNCHANGED <<embedderVars, retentionVars>>
             PROVE  StoredInv'
    BY DEF Collect
<1>0. TypeInv' /\ UNCHANGED <<embPc, batch>>
    BY TypeStep DEF StoredInv, Next, Collect, embedderVars
<1>1. ASSUME UNCHANGED articleVars PROVE StoredInv'
    BY <1>0, <1>1, StoredFrame DEF articleVars, StoredInv, TtlBatchArchived, retentionVars
<1>2. CASE CommitInsert(r)
    <2> PICK m \in inserting[r] : InsertPending(m, runFeed[r])
        BY <1>2 DEF CommitInsert
    <2> DEFINE row == [feed |-> runFeed[r], retry |-> 0]
    <2>1. m \in Articles /\ row \in Row /\ pending \in [Articles -> Row \cup {NoRow}]
        <3>1. m \in Articles /\ runFeed[r] \in Feeds /\ pending \in [Articles -> Row \cup {NoRow}]
            BY <1>2 DEF CommitInsert, StoredInv, TypeInv, TypeOK, StoreTypeOK, CollectorTypeOK,
                        RunsHaveFeeds
        <3> QED BY <3>1, AttemptsAssumption DEF Row
    <2>0. pending' = [pending EXCEPT ![m] = row]
        BY DEF InsertPending
    <2>2. \A n \in Articles : Queued(n)' <=> Queued(n) \/ n = m
        <3> HIDE DEF row
        <3> QED BY <2>0, <2>1, SentinelAssumption DEF Queued
    <2>3. batch \subseteq Articles /\ accepted \subseteq Articles
        BY DEF StoredInv, TypeInv, TypeOK, StoreTypeOK, EmbedderTypeOK
    <2>4. "delete_feed" \notin Ops /\ embPc # "idle" => m \notin batch
        BY DEF StoredInv, BatchQueued, InsertPending
    <2>5. BatchQueued'
        BY <1>0, <2>2, <2>3 DEF StoredInv, BatchQueued
    <2>6. BatchStored'
        BY <1>0, <2>4 DEF StoredInv, BatchStored, InsertPending, Indexed
    <2>7. NoArticleLost'
        BY <2>1, <2>2, <2>3 DEF StoredInv, NoArticleLost, InsertPending, Indexed
    <2>8. TtlBatchArchived'
        BY DEF StoredInv, TtlBatchArchived, InsertPending, retentionVars
    <2> QED BY <1>0, <2>5, <2>6, <2>7, <2>8 DEF StoredInv
<1>3. CASE ~CommitInsert(r)
    <2>1. UNCHANGED articleVars
        BY <1>3 DEF CollectorStep, StartCollect, FetchFails, FetchReturns, BeginInsert,
                    InsertFingerprint, SkipArticle, AbortInsert, RollbackInsert,
                    FinishCollect, storeVars, articleVars
    <2> QED BY <1>1, <2>1
<1> QED BY <1>2, <1>3

LEMMA StoredEmbed == StoredInv /\ Embed => StoredInv'
<1> SUFFICES ASSUME StoredInv, EmbedderStep, UNCHANGED <<collectorVars, retentionVars>>
             PROVE  StoredInv'
    BY DEF Embed
<1>0. TypeInv'
    BY TypeStep DEF StoredInv, Next, Embed
<1>1. StoreTypeOK /\ EmbedderTypeOK
    BY DEF StoredInv, TypeInv, TypeOK
<1>2. ASSUME UNCHANGED archive PROVE TtlBatchArchived'
    BY <1>2 DEF StoredInv, TtlBatchArchived, retentionVars
<1>3. ASSUME TickEnds PROVE BatchQueued' /\ BatchStored'
    BY <1>3 DEF TickEnds, BatchQueued, BatchStored
<1>4. ASSUME UNCHANGED storeVars PROVE NoArticleLost' /\ UNCHANGED archive
    BY <1>4 DEF StoredInv, NoArticleLost, Queued, Indexed, storeVars
<1>5. CASE \E rows \in SUBSET Articles : PullBatch(rows)
    <2>1. UNCHANGED storeVars /\ BatchStored' /\ BatchQueued'
        BY <1>5 DEF PullBatch, Pullable, BatchQueued, BatchStored, Queued, storeVars
    <2> QED BY <1>0, <1>2, <1>4, <2>1 DEF StoredInv
<1>6. CASE EmbedReturns \/ EmbedFails
    <2>1. UNCHANGED storeVars /\ BatchStored' /\ BatchQueued'
        BY <1>6 DEF EmbedReturns, EmbedFails, Goto, StoredInv, BatchQueued, BatchStored, Queued,
                    storeVars
    <2> QED BY <1>0, <1>2, <1>4, <2>1 DEF StoredInv
<1>7. ASSUME NEW applied \in {{}, batch}, UpsertNews(applied),
             UNCHANGED <<pending, dead, archive, accepted, purged>>
      PROVE  NoArticleLost'
    BY <1>1, <1>7 DEF StoredInv, NoArticleLost, UpsertNews, Queued, Indexed, StoreTypeOK
<1>8. CASE UpsertReturns
    <2>1. BatchStored' /\ BatchQueued'
        BY <1>1, <1>8 DEF UpsertReturns, Goto, UpsertNews, StoredInv, BatchQueued, BatchStored,
                          Queued, Indexed, EmbedderTypeOK
    <2> QED BY <1>0, <1>2, <1>7, <1>8, <2>1 DEF UpsertReturns, StoredInv
<1>9. CASE \E applied \in SUBSET Articles : UpsertTransient(applied) \/ UpsertFails(applied)
    <2> PICK applied \in SUBSET Articles : UpsertTransient(applied) \/ UpsertFails(applied)
        BY <1>9
    <2>1. UpsertRaised(applied)
        BY DEF UpsertTransient, UpsertFails
    <2>2. NoArticleLost' /\ TtlBatchArchived'
        BY <1>2, <1>7, <2>1 DEF UpsertRaised
    <2>3. BatchStored' /\ BatchQueued'
        BY <1>3, <2>1 DEF UpsertTransient, UpsertFails, UpsertRaised, Goto, StoredInv,
                          BatchQueued, BatchStored, Queued
    <2> QED BY <1>0, <2>2, <2>3 DEF StoredInv
<1>10. CASE CountAttempt
    <2>1. \A m \in Articles : Queued(m)' <=> Queued(m)
        BY <1>10, CountedRows DEF StoredInv
    <2>2. NoArticleLost'
        BY <1>1, <1>10, <2>1 DEF CountAttempt, IncrementRetry, StoredInv, NoArticleLost, Indexed,
                                 StoreTypeOK
    <2>3. BatchStored' /\ BatchQueued'
        BY <1>1, <1>10, <1>3, <2>1 DEF CountAttempt, StoredInv, BatchQueued, BatchStored,
                                       EmbedderTypeOK
    <2> QED BY <1>0, <1>2, <1>10, <2>2, <2>3 DEF CountAttempt, IncrementRetry, StoredInv
<1>11. CASE DemoteExhausted
    <2>1. NoArticleLost'
        BY <1>1, <1>11 DEF DemoteExhausted, DemoteToDead, StoredInv, NoArticleLost, Queued,
                           Indexed, StoreTypeOK
    <2> QED BY <1>0, <1>2, <1>3, <1>11, <2>1 DEF DemoteExhausted, DemoteToDead, StoredInv
<1>12. CASE MatchBatch
    <2>1. NoArticleLost' /\ BatchStored' /\ BatchQueued'
        BY <1>12 DEF MatchBatch, Goto, StoredInv, NoArticleLost, BatchQueued, BatchStored,
                     Queued, Indexed
    <2> QED BY <1>0, <1>2, <1>12, <2>1 DEF MatchBatch, StoredInv
<1>13. CASE DeleteEmbedded
    <2>1. NoArticleLost'
        BY <1>1, <1>13 DEF DeleteEmbedded, DeletePending, StoredInv, NoArticleLost, BatchStored,
                           Queued, Indexed, StoreTypeOK
    <2> QED BY <1>0, <1>2, <1>3, <1>13, <2>1 DEF DeleteEmbedded, DeletePending, StoredInv
<1>14. CASE TickAborts
    BY <1>0, <1>2, <1>3, <1>4, <1>14 DEF TickAborts, StoredInv
<1> QED BY <1>5, <1>6, <1>8, <1>9, <1>10, <1>11, <1>12, <1>13, <1>14 DEF EmbedderStep

(* Jobs that leave the queue, the dead rows and accepted alone.            *)
LEMMA StoredJob ==
    ASSUME StoredInv, TypeInv', UNCHANGED <<pending, accepted, embPc, batch>>, TtlBatchArchived',
           archive \subseteq archive', purged \subseteq purged',
           \A m \in Articles : dead[m] # NoRow => dead'[m] # NoRow \/ m \in purged',
           \A m \in Articles : Indexed(m) => Indexed(m)' \/ m \in archive \/ m \in purged',
           NoStaleDequeue,
           ("prune" \notin Ops /\ ArchiveEnabled) =>
               \A m \in Articles : Indexed(m) => Indexed(m)' \/ m \in archive
    PROVE  StoredInv'
<1>1. batch \subseteq Articles /\ accepted \subseteq Articles
    BY DEF StoredInv, TypeInv, TypeOK, StoreTypeOK, EmbedderTypeOK
<1>2. BatchQueued'
    BY DEF StoredInv, BatchQueued, Queued
<1>3. BatchStored'
    BY <1>1 DEF StoredInv, BatchStored, NoStaleDequeue
<1>4. NoArticleLost'
    BY <1>1 DEF StoredInv, NoArticleLost, Queued
<1> QED BY <1>2, <1>3, <1>4 DEF StoredInv

LEMMA StoredExpire == NoStaleDequeue /\ StoredInv /\ Expire => StoredInv'
<1> SUFFICES ASSUME NoStaleDequeue, StoredInv, TtlStep,
                    UNCHANGED <<collectorVars, embedderVars>>, TypeInv'
             PROVE  StoredInv'
    BY TypeStep DEF Expire, Next, StoredInv
<1>0. UNCHANGED <<embPc, batch>>
    BY DEF embedderVars
<1>1. ASSUME UNCHANGED articleVars, TtlBatchArchived' PROVE StoredInv'
    BY <1>0, <1>1, StoredFrame
<1>2. CASE \E ids \in SUBSET Articles : TtlScroll(ids)
    BY <1>1, <1>2 DEF TtlScroll, TtlBatchArchived, articleVars, storeVars
<1>3. CASE \E ids \in SUBSET Articles : \E usable \in SUBSET ids : TtlRetrieve(ids, usable)
    BY <1>1, <1>3 DEF TtlRetrieve, TtlBatchArchived, articleVars, storeVars
<1>4. CASE TtlArchive
    <2>1. TtlBatchArchived' /\ archive \subseteq archive'
        BY <1>4 DEF TtlArchive, TtlBatchArchived
    <2> QED BY <1>0, <1>4, <2>1, StoredJob DEF TtlArchive, Indexed
<1>5. CASE TtlDelete
    <2>1. \A m \in Articles : Indexed(m) =>
              IF ArchiveEnabled THEN Indexed(m)' \/ m \in archive
              ELSE Indexed(m)' \/ m \in purged'
        BY <1>5 DEF TtlDelete, DeleteNews, Indexed, StoredInv, TtlBatchArchived
    <2>2. TtlBatchArchived' /\ purged \subseteq purged'
        BY <1>5 DEF TtlDelete, TtlBatchArchived
    <2> QED BY <1>0, <1>5, <2>1, <2>2, StoredJob DEF TtlDelete
<1>6. CASE TtlCascade
    BY <1>1, <1>6 DEF TtlCascade, ForgetFingerprints, TtlBatchArchived, articleVars
<1>7. CASE TtlAbort
    BY <1>1, <1>7 DEF TtlAbort, TtlBatchArchived, articleVars, storeVars
<1> QED BY <1>2, <1>3, <1>4, <1>5, <1>6, <1>7 DEF TtlStep

LEMMA StoredReconcile == StoredInv /\ Reconcile => StoredInv'
<1> SUFFICES ASSUME StoredInv, RecStep, UNCHANGED <<collectorVars, embedderVars>>, TypeInv'
             PROVE  StoredInv'
    BY TypeStep DEF Reconcile, Next, StoredInv
<1>1. UNCHANGED articleVars /\ UNCHANGED ttlVars
    BY DEF RecStep, RecScan, RecRetrieve, RecDelete, RecAbort, ForgetFingerprints,
           articleVars, storeVars
<1> QED BY <1>1, StoredFrame DEF StoredInv, TtlBatchArchived, ttlVars, articleVars, embedderVars

LEMMA StoredPrune == NoStaleDequeue /\ StoredInv /\ Prune => StoredInv'
<1> SUFFICES ASSUME NoStaleDequeue, "prune" \in Ops, StoredInv, PruneStep,
                    UNCHANGED <<collectorVars, embedderVars>>, TypeInv'
             PROVE  StoredInv'
    BY TypeStep DEF Prune, Next, StoredInv
<1>0. UNCHANGED ttlVars /\ UNCHANGED archive
    BY DEF PruneStep, PruneScroll, PruneDelete, PruneCascade, PruneAbort, ForgetFingerprints,
           storeVars
<1>1. TtlBatchArchived' /\ UNCHANGED <<embPc, batch>>
    BY <1>0 DEF StoredInv, TtlBatchArchived, ttlVars, embedderVars
<1>2. CASE PruneDelete
    <2>1. \A m \in Articles : Indexed(m) => Indexed(m)' \/ m \in purged'
        BY <1>2 DEF PruneDelete, DeleteNews, Indexed
    <2> QED BY <1>1, <1>2, <2>1, StoredJob DEF PruneDelete
<1>3. CASE ~PruneDelete
    <2>1. UNCHANGED articleVars
        BY <1>3 DEF PruneStep, PruneScroll, PruneCascade, PruneAbort, ForgetFingerprints,
                    storeVars, articleVars
    <2> QED BY <1>1, <2>1, StoredFrame
<1> QED BY <1>2, <1>3

LEMMA StoredRemoveFeed == StoredInv /\ RemoveFeed => StoredInv'
<1> SUFFICES ASSUME "delete_feed" \in Ops, StoredInv, NEW f \in Feeds, DeleteFeed(f),
                    UNCHANGED <<collectorVars, embedderVars, retentionVars>>, TypeInv'
             PROVE  StoredInv'
    BY TypeStep DEF RemoveFeed, Next, StoredInv
<1>1. NoArticleLost'
    BY DEF DeleteFeed, StoredInv, TypeInv, TypeOK, StoreTypeOK, NoArticleLost, Queued, Indexed
<1>2. BatchQueued' /\ BatchStored' /\ TtlBatchArchived'
    BY DEF DeleteFeed, StoredInv, BatchQueued, BatchStored, TtlBatchArchived, Indexed,
           embedderVars, retentionVars
<1> QED BY <1>1, <1>2 DEF StoredInv

LEMMA StoredStep == NoStaleDequeue /\ StoredInv /\ [Next]_vars => StoredInv'
<1> SUFFICES ASSUME NoStaleDequeue, StoredInv, [Next]_vars PROVE StoredInv'
    OBVIOUS
<1>0. TypeInv'
    BY TypeStep DEF StoredInv
<1>1. ASSUME UNCHANGED articleVars, UNCHANGED <<embPc, batch, ttlPc, ttlBatch>> PROVE StoredInv'
    BY <1>0, <1>1, StoredFrame DEF StoredInv, TtlBatchArchived, articleVars
<1>2. CASE Collect
    BY <1>2, StoredCollect
<1>3. CASE Embed
    BY <1>3, StoredEmbed
<1>4. CASE Expire
    BY <1>4, StoredExpire
<1>5. CASE Reconcile
    BY <1>5, StoredReconcile
<1>6. CASE DropDead
    <2> PICK old \in SUBSET Articles : ExpireDead(old)
        BY <1>6 DEF DropDead
    <2>1. \A m \in Articles : dead[m] # NoRow => dead'[m] # NoRow \/ m \in purged'
        BY DEF ExpireDead
    <2>2. TtlBatchArchived' /\ UNCHANGED <<embPc, batch>>
        BY <1>6 DEF DropDead, ExpireDead, StoredInv, TtlBatchArchived, retentionVars, embedderVars
    <2> QED BY <1>0, <2>1, <2>2, StoredJob DEF ExpireDead, Indexed
<1>7. CASE Prune
    BY <1>7, StoredPrune
<1>8. CASE RemoveFeed
    BY <1>8, StoredRemoveFeed
<1>9. CASE Age
    <2> PICK m \in Articles : AgePoint(m)
        BY <1>9 DEF Age
    <2>1. \A n \in Articles : Indexed(n) => Indexed(n)'
        BY DEF AgePoint, Indexed, StoredInv, TypeInv, TypeOK, StoreTypeOK
    <2>2. TtlBatchArchived' /\ UNCHANGED <<embPc, batch>>
        BY <1>9 DEF Age, AgePoint, StoredInv, TtlBatchArchived, retentionVars, embedderVars
    <2> QED BY <1>0, <2>1, <2>2, StoredJob DEF AgePoint
<1>10. CASE Crash
    <2>1. NoArticleLost'
        BY <1>10 DEF Crash, CollectorCrash, StoredInv, NoArticleLost, Queued, Indexed
    <2>2. BatchQueued' /\ BatchStored' /\ TtlBatchArchived'
        BY <1>10 DEF Crash, TickEnds, BatchQueued, BatchStored, TtlBatchArchived
    <2> QED BY <1>0, <2>1, <2>2 DEF StoredInv
<1>11. CASE UNCHANGED vars
    BY <1>1, <1>11 DEF vars, storeVars, embedderVars, retentionVars, articleVars
<1> QED BY <1>2, <1>3, <1>4, <1>5, <1>6, <1>7, <1>8, <1>9, <1>10, <1>11 DEF Next

LEMMA StoredAlways == NoStaleDequeue /\ Spec => []StoredInv
<1> SUFFICES ASSUME NoStaleDequeue PROVE Spec => []StoredInv
    BY DEF NoStaleDequeue
<1> QED BY StoredInit, StoredStep, PTL DEF Spec

(* No article a committed insert took in is ever lost: not to a crash, a   *)
(* failed or half-applied call, a retry, a demotion, a deleted feed or a   *)
(* retention job, in any interleaving (embedder_worker, demote_md5s_to_    *)
(* dead, qdrant_ttl), as long as NoStaleDequeue holds.                     *)
THEOREM NoArticleIsLost == NoStaleDequeue /\ Spec => []NoArticleLost
<1>1. StoredInv => NoArticleLost
    BY DEF StoredInv
<1> QED BY <1>1, StoredAlways, PTL

-----------------------------------------------------------------------------
(* Archive before delete *)

LEMMA ArchivedKept ==
    ASSUME TtlBatchArchived, archive \subseteq archive', UNCHANGED <<ttlPc, ttlBatch>>
    PROVE  TtlBatchArchived'
BY DEF TtlBatchArchived

LEMMA ArchivedStep == TtlBatchArchived /\ [Next]_vars => TtlBatchArchived'
<1> SUFFICES ASSUME TtlBatchArchived, [Next]_vars PROVE TtlBatchArchived'
    OBVIOUS
<1>1. CASE Collect
    BY <1>1, ArchivedKept DEF Collect, CollectorStep, StartCollect, FetchFails, FetchReturns,
        BeginInsert, InsertFingerprint, SkipArticle, CommitInsert, InsertPending, AbortInsert,
        RollbackInsert, FinishCollect, storeVars, retentionVars
<1>2. CASE Embed
    BY <1>2, ArchivedKept DEF Embed, EmbedderStep, PullBatch, EmbedReturns, EmbedFails,
        UpsertReturns, UpsertTransient, UpsertFails, UpsertRaised, CountAttempt, IncrementRetry,
        DemoteExhausted, DemoteToDead, MatchBatch, DeleteEmbedded, DeletePending, TickAborts,
        storeVars, retentionVars
<1>3. CASE Expire
    BY <1>3 DEF Expire, TtlStep, TtlScroll, TtlRetrieve, TtlArchive, TtlDelete, TtlCascade,
        TtlAbort, TtlBatchArchived
<1>4. CASE Reconcile \/ Prune \/ DropDead
    BY <1>4, ArchivedKept DEF Reconcile, RecStep, RecScan, RecRetrieve, RecDelete, RecAbort,
        Prune, PruneStep, PruneScroll, PruneDelete, PruneCascade, PruneAbort, DropDead,
        ExpireDead, ForgetFingerprints, storeVars, ttlVars, retentionVars
<1>5. CASE RemoveFeed \/ Age
    BY <1>5, ArchivedKept DEF RemoveFeed, DeleteFeed, Age, AgePoint, retentionVars
<1>6. CASE Crash
    BY <1>6 DEF Crash, TtlBatchArchived
<1>7. CASE UNCHANGED vars
    BY <1>7, ArchivedKept DEF vars, storeVars, retentionVars
<1> QED BY <1>1, <1>2, <1>3, <1>4, <1>5, <1>6, <1>7 DEF Next

(* Whatever the interleaving with the other jobs, a point leaves           *)
(* news_current only once the archive holds it, or because a user or a     *)
(* retention policy without archive removed it (qdrant_ttl).               *)
THEOREM PointsArchivedFirst == Spec => ArchivedBeforeDeleted
<1> DEFINE Leaves == \A m \in Articles : Indexed(m) /\ ~Indexed(m)' => m \in archive \/ m \in purged'
<1>1. TypeInv /\ TtlBatchArchived /\ [Next]_vars => [Leaves]_vars
    <2> SUFFICES ASSUME TypeInv, TtlBatchArchived, Next PROVE Leaves
        OBVIOUS
    <2>1. CASE Collect \/ RemoveFeed \/ Reconcile \/ DropDead \/ Crash
        <3>1. UNCHANGED news
            BY <2>1 DEF Collect, CollectorStep, StartCollect, FetchFails, FetchReturns,
                BeginInsert, InsertFingerprint, SkipArticle, CommitInsert, InsertPending,
                AbortInsert, RollbackInsert, FinishCollect, RemoveFeed, DeleteFeed, Reconcile,
                RecStep, RecScan, RecRetrieve, RecDelete, RecAbort, ForgetFingerprints, DropDead,
                ExpireDead, Crash, CollectorCrash, storeVars
        <3> QED BY <3>1 DEF Indexed
    <2>2. CASE Embed
        <3>1. UNCHANGED news \/ \E s \in SUBSET Articles : UpsertNews(s)
            BY <2>2 DEF Embed, EmbedderStep, PullBatch, EmbedReturns, EmbedFails, UpsertReturns,
                UpsertTransient, UpsertFails, UpsertRaised, CountAttempt, IncrementRetry,
                DemoteExhausted, DemoteToDead, MatchBatch, DeleteEmbedded, DeletePending,
                TickAborts, storeVars, TypeInv, TypeOK, EmbedderTypeOK
        <3> QED BY <3>1 DEF UpsertNews, Indexed
    <2>3. CASE Expire
        BY <2>3 DEF Expire, TtlStep, TtlScroll, TtlRetrieve, TtlArchive, TtlDelete, DeleteNews,
            TtlCascade, TtlAbort, ForgetFingerprints, storeVars, Indexed, TtlBatchArchived
    <2>4. CASE Prune
        BY <2>4 DEF Prune, PruneStep, PruneScroll, PruneDelete, DeleteNews, PruneCascade,
            PruneAbort, ForgetFingerprints, storeVars, Indexed
    <2>5. CASE Age
        BY <2>5 DEF Age, AgePoint, Indexed, TypeInv, TypeOK, StoreTypeOK
    <2> QED BY <2>1, <2>2, <2>3, <2>4, <2>5 DEF Next
<1>2. Spec => [](TypeInv /\ TtlBatchArchived)
    <2>1. Init => TypeInv /\ TtlBatchArchived
        BY TypeInit DEF Init, RetentionInit, TtlInit, TtlBatchArchived
    <2>2. TypeInv /\ TtlBatchArchived /\ [Next]_vars => TypeInv' /\ TtlBatchArchived'
        BY TypeStep, ArchivedStep
    <2> QED BY <2>1, <2>2, PTL DEF Spec
<1>3. Spec => [][Leaves]_vars
    BY <1>1, <1>2, PTL DEF Spec
<1> QED BY <1>3 DEF ArchivedBeforeDeleted

-----------------------------------------------------------------------------
(* Attempts and hand-off.  Both rest on BatchQueued: as long as no feed is *)
(* deleted, nothing replaces a row of the tick behind the worker's back.   *)

NoFeedDeleted == "delete_feed" \notin Ops

(* What md5s_at_limit, computed when the rows were pulled, still says of   *)
(* the rows when it is used.                                               *)
LimitAccurate ==
    /\ embPc \in {"embedding", "upserting", "counting"} =>
          \A m \in atLimit : pending[m].retry + 1 = MaxAttempts
    /\ embPc = "demoting" => \A m \in atLimit : pending[m].retry = MaxAttempts

BatchOffered == embPc = "deleting" => batch \subseteq offered

HandledInv ==
    /\ StoredInv
    /\ LimitAccurate
    /\ BatchOffered
    /\ DeadExhausted
    /\ OfferedBeforeDequeued

LEMMA HandledInit == Init => HandledInv
<1> SUFFICES ASSUME Init PROVE HandledInv
    OBVIOUS
<1>1. accepted = {} /\ embPc = "idle" /\ dead = [m \in Articles |-> NoRow]
    BY DEF Init, StoreInit, EmbedderInit
<1> QED BY <1>1, StoredInit DEF HandledInv, LimitAccurate, BatchOffered, DeadExhausted,
                                OfferedBeforeDequeued

LEMMA HandledFrame ==
    ASSUME HandledInv, StoredInv', UNCHANGED <<pending, accepted, offered, embPc, batch, atLimit>>,
           purged \subseteq purged',
           \A m \in Articles :
               dead'[m] = dead[m] \/ (dead'[m] = NoRow /\ m \in purged')
    PROVE  HandledInv'
<1>1. accepted \subseteq Articles
    BY DEF HandledInv, StoredInv, TypeInv, TypeOK, StoreTypeOK
<1>2. LimitAccurate' /\ BatchOffered'
    BY DEF HandledInv, LimitAccurate, BatchOffered, embedderVars
<1>3. DeadExhausted'
    BY DEF HandledInv, DeadExhausted
<1>4. OfferedBeforeDequeued'
    BY <1>1 DEF HandledInv, OfferedBeforeDequeued, Queued
<1> QED BY <1>2, <1>3, <1>4 DEF HandledInv

LEMMA HandledCollect == NoFeedDeleted /\ HandledInv /\ StoredInv' /\ Collect => HandledInv'
<1> SUFFICES ASSUME NoFeedDeleted, HandledInv, StoredInv', NEW r \in Runs, CollectorStep(r),
                    UNCHANGED <<embedderVars, retentionVars>>
             PROVE  HandledInv'
    BY DEF Collect
<1>1. CASE CommitInsert(r)
    <2> PICK m \in inserting[r] : InsertPending(m, runFeed[r])
        BY <1>1 DEF CommitInsert
    <2> DEFINE row == [feed |-> runFeed[r], retry |-> 0]
    <2>1. /\ m \in Articles /\ pending \in [Articles -> Row \cup {NoRow}]
          /\ batch \subseteq Articles /\ atLimit \subseteq batch
        BY DEF HandledInv, StoredInv, TypeInv, TypeOK, StoreTypeOK, CollectorTypeOK,
               EmbedderTypeOK
    <2>2. pending' = [pending EXCEPT ![m] = row] /\ ~Queued(m) /\ UNCHANGED dead
        BY DEF InsertPending
    <2>3. pending'[m] # NoRow
        <3>1. runFeed[r] \in Feeds
            BY <1>1 DEF CommitInsert, HandledInv, StoredInv, TypeInv, RunsHaveFeeds
        <3>2. row \in Row
            BY <3>1, AttemptsAssumption DEF Row
        <3> HIDE DEF row
        <3> QED BY <2>1, <2>2, <3>2, SentinelAssumption
    <2> HIDE DEF row
    <2>4. embPc # "idle" => m \notin batch
        BY <2>2 DEF HandledInv, StoredInv, BatchQueued, NoFeedDeleted
    <2>5. LimitAccurate'
        BY <2>1, <2>2, <2>4 DEF HandledInv, LimitAccurate, embedderVars
    <2>6. BatchOffered'
        BY <2>4 DEF HandledInv, BatchOffered, InsertPending, embedderVars
    <2>7. DeadExhausted' /\ OfferedBeforeDequeued'
        BY <2>1, <2>2, <2>3 DEF HandledInv, DeadExhausted, OfferedBeforeDequeued, InsertPending,
                                Queued
    <2> QED BY <2>5, <2>6, <2>7 DEF HandledInv
<1>2. CASE ~CommitInsert(r)
    BY <1>2, HandledFrame
        DEF CollectorStep, StartCollect, FetchFails, FetchReturns, BeginInsert,
            InsertFingerprint, SkipArticle, AbortInsert, RollbackInsert, FinishCollect, storeVars,
            embedderVars
<1> QED BY <1>1, <1>2

LEMMA HandledEmbed == NoFeedDeleted /\ HandledInv /\ StoredInv' /\ Embed => HandledInv'
<1> SUFFICES ASSUME NoFeedDeleted, HandledInv, StoredInv', EmbedderStep PROVE HandledInv'
    BY DEF Embed
<1>0. StoreTypeOK /\ EmbedderTypeOK
    BY DEF HandledInv, StoredInv, TypeInv, TypeOK
<1>1. ASSUME TickEnds PROVE LimitAccurate' /\ BatchOffered'
    BY <1>1 DEF TickEnds, LimitAccurate, BatchOffered
<1>2. ASSUME UNCHANGED <<pending, dead, accepted, purged>>, offered \subseteq offered'
      PROVE  DeadExhausted' /\ OfferedBeforeDequeued'
    BY <1>2 DEF HandledInv, DeadExhausted, OfferedBeforeDequeued, Queued
<1>3. CASE \E rows \in SUBSET Articles : PullBatch(rows)
    <2> PICK rows \in SUBSET Articles : PullBatch(rows)
        BY <1>3
    <2>1. \A m \in rows : Queued(m) /\ pending[m].retry < MaxAttempts /\ pending[m].retry \in Nat
        BY <1>0, QueuedRow, AttemptsAssumption DEF PullBatch, Pullable
    <2>2. LimitAccurate' /\ BatchOffered'
        BY <2>1, AttemptsAssumption
            DEF PullBatch, AtLimit, LimitAccurate, BatchOffered, storeVars
    <2> QED BY <1>2, <2>2 DEF PullBatch, storeVars, HandledInv
<1>4. CASE EmbedReturns \/ EmbedFails
    <2>1. LimitAccurate' /\ BatchOffered'
        BY <1>4 DEF EmbedReturns, EmbedFails, Goto, HandledInv, LimitAccurate, BatchOffered,
                    storeVars
    <2> QED BY <1>2, <1>4, <2>1 DEF EmbedReturns, EmbedFails, storeVars, HandledInv
<1>5. CASE UpsertReturns
    BY <1>2, <1>5 DEF UpsertReturns, Goto, HandledInv, LimitAccurate, BatchOffered
<1>6. CASE \E applied \in SUBSET Articles : UpsertTransient(applied) \/ UpsertFails(applied)
    BY <1>1, <1>2, <1>6 DEF UpsertTransient, UpsertFails, UpsertRaised, Goto, HandledInv,
                            LimitAccurate, BatchOffered
<1>7. CASE CountAttempt
    <2>1. embPc' = "demoting" => \A m \in atLimit' : pending'[m].retry = MaxAttempts
        <3> SUFFICES ASSUME embPc' = "demoting", NEW m \in atLimit'
                     PROVE  pending'[m].retry = MaxAttempts
            OBVIOUS
        <3>1. m \in atLimit /\ m \in batch /\ m \in Articles /\ embPc = "counting"
            BY <1>0, <1>7 DEF CountAttempt, TickEnds, EmbedderTypeOK
        <3>2. Queued(m) /\ pending[m].retry + 1 = MaxAttempts /\ pending[m] \in Row
            BY <1>0, <3>1, QueuedRow DEF HandledInv, LimitAccurate, StoredInv, BatchQueued,
                                         NoFeedDeleted
        <3>3. pending'[m] = [pending[m] EXCEPT !.retry = @ + 1]
            BY <1>7, <3>1, <3>2 DEF CountAttempt, IncrementRetry
        <3> QED BY <3>2, <3>3 DEF Row
    <2>2. LimitAccurate' /\ BatchOffered'
        BY <1>7, <2>1 DEF CountAttempt, TickEnds, LimitAccurate, BatchOffered
    <2>3. \A m \in Articles : Queued(m)' <=> Queued(m)
        BY <1>7, CountedRows DEF HandledInv, StoredInv
    <2>4. DeadExhausted' /\ OfferedBeforeDequeued'
        BY <1>0, <1>7, <2>3 DEF CountAttempt, IncrementRetry, HandledInv, DeadExhausted,
                                OfferedBeforeDequeued, StoreTypeOK
    <2> QED BY <2>2, <2>4 DEF HandledInv
<1>8. CASE DemoteExhausted
    <2>1. \A m \in atLimit : pending[m].retry = MaxAttempts
        BY <1>8 DEF DemoteExhausted, HandledInv, LimitAccurate
    <2>2. DeadExhausted' /\ OfferedBeforeDequeued'
        BY <1>0, <1>8, <2>1 DEF DemoteExhausted, DemoteToDead, HandledInv, DeadExhausted,
                                OfferedBeforeDequeued, Queued, StoreTypeOK
    <2> QED BY <1>1, <1>8, <2>2 DEF DemoteExhausted, HandledInv
<1>9. CASE MatchBatch
    <2>1. LimitAccurate' /\ BatchOffered'
        BY <1>9 DEF MatchBatch, Goto, LimitAccurate, BatchOffered
    <2> QED BY <1>2, <1>9, <2>1 DEF MatchBatch, HandledInv
<1>10. CASE DeleteEmbedded
    <2>1. DeadExhausted' /\ OfferedBeforeDequeued'
        BY <1>0, <1>10 DEF DeleteEmbedded, DeletePending, HandledInv, DeadExhausted,
                           OfferedBeforeDequeued, BatchOffered, Queued, StoreTypeOK
    <2> QED BY <1>1, <1>10, <2>1 DEF DeleteEmbedded, HandledInv
<1>11. CASE TickAborts
    BY <1>1, <1>2, <1>11 DEF TickAborts, storeVars, HandledInv
<1> QED BY <1>3, <1>4, <1>5, <1>6, <1>7, <1>8, <1>9, <1>10, <1>11 DEF EmbedderStep

LEMMA HandledStep == NoFeedDeleted /\ HandledInv /\ [Next]_vars => HandledInv'
<1> SUFFICES ASSUME NoFeedDeleted, HandledInv, [Next]_vars PROVE HandledInv'
    OBVIOUS
<1>0. StoredInv'
    BY StoredStep DEF HandledInv, NoFeedDeleted, NoStaleDequeue
<1>1. CASE Collect
    BY <1>0, <1>1, HandledCollect
<1>2. CASE Embed
    BY <1>0, <1>2, HandledEmbed
<1>3. CASE Expire \/ Reconcile \/ Prune
    BY <1>0, <1>3, HandledFrame DEF Expire, TtlStep, TtlScroll, TtlRetrieve, TtlArchive,
        TtlDelete, TtlCascade, TtlAbort, Reconcile, RecStep, RecScan, RecRetrieve, RecDelete,
        RecAbort, Prune, PruneStep, PruneScroll, PruneDelete, PruneCascade, PruneAbort,
        ForgetFingerprints, storeVars, embedderVars
<1>4. CASE DropDead
    <2> PICK old \in SUBSET Articles : ExpireDead(old)
        BY <1>4 DEF DropDead
    <2>1. \A m \in Articles : dead'[m] = dead[m] \/ (dead'[m] = NoRow /\ m \in purged')
        BY DEF ExpireDead
    <2> QED BY <1>0, <1>4, <2>1, HandledFrame DEF DropDead, ExpireDead, embedderVars
<1>5. CASE RemoveFeed
    BY <1>5 DEF RemoveFeed, NoFeedDeleted
<1>6. CASE Age
    BY <1>0, <1>6, HandledFrame DEF Age, AgePoint, embedderVars
<1>7. CASE Crash
    <2>1. LimitAccurate' /\ BatchOffered'
        BY <1>7 DEF Crash, TickEnds, LimitAccurate, BatchOffered
    <2>2. DeadExhausted' /\ OfferedBeforeDequeued'
        BY <1>7 DEF Crash, CollectorCrash, HandledInv, DeadExhausted, OfferedBeforeDequeued, Queued
    <2> QED BY <1>0, <2>1, <2>2 DEF HandledInv
<1>8. CASE UNCHANGED vars
    BY <1>0, <1>8, HandledFrame DEF vars, storeVars, embedderVars
<1> QED BY <1>1, <1>2, <1>3, <1>4, <1>5, <1>6, <1>7, <1>8 DEF Next

LEMMA HandledAlways == NoFeedDeleted /\ Spec => []HandledInv
<1> SUFFICES ASSUME NoFeedDeleted PROVE Spec => []HandledInv
    BY DEF NoFeedDeleted
<1> QED BY HandledInit, HandledStep, PTL DEF Spec

(* An article leaves the queue only after the event path has been offered  *)
(* it, or as a dead row, or because it was purged (embedder_worker).       *)
THEOREM OfferedFirst == NoFeedDeleted /\ Spec => []OfferedBeforeDequeued
<1>1. HandledInv => OfferedBeforeDequeued
    BY DEF HandledInv
<1> QED BY <1>1, HandledAlways, PTL

(* A row dies only after MAX_ATTEMPTS counted attempts of its own, although *)
(* md5s_at_limit is as old as the tick (embedder_worker).                  *)
THEOREM OnlyExhaustedDie == NoFeedDeleted /\ Spec => []DeadExhausted
<1>1. HandledInv => DeadExhausted
    BY DEF HandledInv
<1> QED BY <1>1, HandledAlways, PTL

-----------------------------------------------------------------------------
(* The ledger and the queue agree: feed_items has the row of every queued  *)
(* article.  Proved for the collector, the embedder, feed deletion and     *)
(* crashes; the jobs that delete ledger rows on what they read earlier are *)
(* left out, and with reconcile the property is indeed false.              *)

NoLedgerJobs == "ttl" \notin Jobs /\ "reconcile" \notin Jobs /\ "prune" \notin Ops

(* A pass between its two INSERTs holds the lock and has inserted the      *)
(* ledger row of one article that is not queued.                           *)
Buffering(r) ==
    /\ writer = r
    /\ \E m \in Articles :
          inserting[r] = {m} /\ feed_items[m] = runFeed[r] /\ ~Queued(m)

LockOwned ==
    \A r \in Runs : IF runPc[r] = "buffering" THEN Buffering(r) ELSE inserting[r] = {}

LedgerInv == TypeInv /\ LockOwned /\ LedgerMatchesQueue

LEMMA LedgerInit == Init => LedgerInv
<1> SUFFICES ASSUME Init PROVE LedgerInv
    OBVIOUS
<1>1. /\ pending = [m \in Articles |-> NoRow]
      /\ runPc = [r \in Runs |-> "idle"]
      /\ inserting = [r \in Runs |-> {}]
    BY DEF Init, StoreInit, CollectorInit
<1> QED BY <1>1, TypeInit DEF LedgerInv, LockOwned, LedgerMatchesQueue, Queued

(* A step of anyone else that leaves ledger, queue and lock alone. *)
LEMMA LedgerFrame ==
    ASSUME LedgerInv, TypeInv', UNCHANGED <<feed_items, pending, writer>>,
           UNCHANGED <<runPc, runFeed, inserting>>
    PROVE  LedgerInv'
BY DEF LedgerInv, LockOwned, Buffering, LedgerMatchesQueue, Queued

(* A step of anyone else that takes the lock for a whole transaction. *)
LEMMA LedgerTransaction ==
    ASSUME LedgerInv, TypeInv', LockFree, LedgerMatchesQueue',
           UNCHANGED <<writer, runPc, runFeed, inserting>>
    PROVE  LedgerInv'
<1>1. \A r \in Runs : runPc[r] # "buffering"
    BY SentinelAssumption DEF LedgerInv, LockOwned, Buffering, LockFree
<1> QED BY <1>1 DEF LedgerInv, LockOwned

LEMMA LedgerCollect == LedgerInv /\ TypeInv' /\ Collect => LedgerInv'
<1> SUFFICES ASSUME LedgerInv, TypeInv', NEW r \in Runs, CollectorStep(r),
                    UNCHANGED <<embedderVars, retentionVars>>
             PROVE  LedgerInv'
    BY DEF Collect
<1>0. /\ runPc \in [Runs -> {"idle", "fetching", "inserting", "buffering"}]
      /\ inserting \in [Runs -> SUBSET Articles]
      /\ runFeed \in [Runs -> Feeds \cup {NoFeed}]
      /\ feed_items \in [Articles -> Feeds \cup {NoFeed}]
      /\ pending \in [Articles -> Row \cup {NoRow}]
    BY DEF LedgerInv, TypeInv, TypeOK, CollectorTypeOK, StoreTypeOK
(* A step between transactions, of a pass that is in none. *)
<1>1. ASSUME UNCHANGED storeVars, UNCHANGED inserting,
             runPc[r] # "buffering", runPc'[r] # "buffering",
             \A q \in Runs \ {r} : runPc'[q] = runPc[q] /\ runFeed'[q] = runFeed[q]
      PROVE  LedgerInv'
    BY <1>0, <1>1 DEF LedgerInv, LockOwned, Buffering, LedgerMatchesQueue, Queued, storeVars
<1>2. CASE (\E f \in Feeds : StartCollect(r, f)) \/ FetchFails(r) \/ FinishCollect(r)
    BY <1>0, <1>1, <1>2 DEF StartCollect, FetchFails, FinishCollect, Finished
<1>3. CASE (\E arts \in SUBSET Articles : FetchReturns(r, arts))
           \/ (\E m \in Articles : SkipArticle(r, m))
    BY <1>0, <1>1, <1>3 DEF FetchReturns, SkipArticle
<1>4. CASE \E m \in Articles : BeginInsert(r, m)
    <2> PICK m \in Articles : BeginInsert(r, m)
        BY <1>4
    <2>1. \A q \in Runs : runPc[q] # "buffering"
        BY SentinelAssumption
        DEF BeginInsert, InsertFingerprint, LedgerInv, LockOwned, Buffering, LockFree
    <2>2. ~Queued(m)
        <3> SUFFICES ASSUME Queued(m) PROVE FALSE
            OBVIOUS
        <3>1. feed_items[m] \in Feeds
            BY QueuedRow DEF LedgerInv, LedgerMatchesQueue, TypeInv, TypeOK
        <3> QED BY <3>1, SentinelAssumption DEF BeginInsert, InsertFingerprint, Known
    <2>3. LedgerMatchesQueue'
        BY <1>0, <2>2 DEF BeginInsert, InsertFingerprint, LedgerInv, LedgerMatchesQueue, Queued
    <2>4. LockOwned'
        BY <1>0, <2>1, <2>2
        DEF BeginInsert, InsertFingerprint, LedgerInv, LockOwned, Buffering, Queued
    <2> QED BY <2>3, <2>4 DEF LedgerInv
<1>5. CASE CommitInsert(r) \/ AbortInsert(r)
    <2>1. Buffering(r) /\ runPc[r] = "buffering"
        BY <1>5 DEF CommitInsert, AbortInsert, LedgerInv, LockOwned
    <2>2. \A q \in Runs \ {r} : runPc[q] # "buffering"
        BY <2>1 DEF LedgerInv, LockOwned, Buffering
    <2>3. LockOwned'
        BY <1>0, <1>5, <2>2 DEF CommitInsert, AbortInsert, EndInsert, LedgerInv, LockOwned
    <2> PICK m \in Articles :
            inserting[r] = {m} /\ feed_items[m] = runFeed[r] /\ ~Queued(m)
        BY <2>1 DEF Buffering
    <2>4. CASE CommitInsert(r)
        <3> DEFINE row == [feed |-> runFeed[r], retry |-> 0]
        <3>1. pending' = [pending EXCEPT ![m] = row] /\ UNCHANGED feed_items
            BY <2>4 DEF CommitInsert, InsertPending
        <3>2. row.feed = runFeed[r]
            OBVIOUS
        <3> HIDE DEF row
        <3>3. LedgerMatchesQueue'
            BY <1>0, <3>1, <3>2 DEF LedgerInv, LedgerMatchesQueue, Queued
        <3> QED BY <2>3, <3>3 DEF LedgerInv
    <2>5. CASE AbortInsert(r)
        <3>1. feed_items' = [feed_items EXCEPT ![m] = NoFeed] /\ UNCHANGED pending
            BY <2>5 DEF AbortInsert, RollbackInsert
        <3>2. LedgerMatchesQueue'
            BY <1>0, <3>1 DEF LedgerInv, LedgerMatchesQueue, Queued
        <3> QED BY <2>3, <3>2 DEF LedgerInv
    <2> QED BY <1>5, <2>4, <2>5
<1> QED BY <1>2, <1>3, <1>4, <1>5 DEF CollectorStep

LEMMA LedgerEmbed == LedgerInv /\ TypeInv' /\ Embed => LedgerInv'
<1> SUFFICES ASSUME LedgerInv, TypeInv', EmbedderStep, UNCHANGED <<runPc, runFeed, inserting>>
             PROVE  LedgerInv'
    BY DEF Embed, collectorVars
<1>0. /\ feed_items \in [Articles -> Feeds \cup {NoFeed}]
      /\ pending \in [Articles -> Row \cup {NoRow}]
    BY DEF LedgerInv, TypeInv, TypeOK, StoreTypeOK
<1>1. CASE CountAttempt
    <2>1. \A m \in Articles : Queued(m)' => Queued(m) /\ pending'[m].feed = pending[m].feed
        <3> SUFFICES ASSUME NEW m \in Articles, Queued(m)'
                     PROVE  Queued(m) /\ pending'[m].feed = pending[m].feed
            OBVIOUS
        <3>1. Queued(m)
            BY <1>1, CountedRows DEF LedgerInv
        <3>2. pending[m] \in Row
            BY <3>1, QueuedRow DEF LedgerInv, TypeInv, TypeOK
        <3>3. pending'[m] = pending[m] \/ pending'[m] = [pending[m] EXCEPT !.retry = @ + 1]
            BY <1>1 DEF CountAttempt, IncrementRetry
        <3> QED BY <3>1, <3>2, <3>3 DEF Row
    <2>2. LockFree /\ UNCHANGED <<feed_items, writer>>
        BY <1>1 DEF CountAttempt, IncrementRetry
    <2>3. LedgerMatchesQueue'
        BY <2>1, <2>2 DEF LedgerInv, LedgerMatchesQueue
    <2> QED BY <2>2, <2>3, LedgerTransaction
<1>2. CASE DemoteExhausted \/ DeleteEmbedded
    <2>1. LockFree /\ UNCHANGED <<feed_items, writer>>
        BY <1>2 DEF DemoteExhausted, DemoteToDead, DeleteEmbedded, DeletePending
    <2>2. LedgerMatchesQueue'
        BY <1>0, <1>2 DEF DemoteExhausted, DemoteToDead, DeleteEmbedded, DeletePending,
                          LedgerInv, LedgerMatchesQueue, Queued
    <2> QED BY <2>1, <2>2, LedgerTransaction
<1>3. CASE ~(CountAttempt \/ DemoteExhausted \/ DeleteEmbedded)
    BY <1>3, LedgerFrame DEF EmbedderStep, PullBatch, EmbedReturns, EmbedFails, UpsertReturns,
        UpsertTransient, UpsertFails, UpsertRaised, MatchBatch, TickAborts, storeVars
<1> QED BY <1>1, <1>2, <1>3

LEMMA LedgerStep == NoLedgerJobs /\ LedgerInv /\ [Next]_vars => LedgerInv'
<1> SUFFICES ASSUME NoLedgerJobs, LedgerInv, [Next]_vars PROVE LedgerInv'
    OBVIOUS
<1>0. TypeInv' /\ TypeInv
    BY TypeStep DEF LedgerInv
<1>1. CASE Collect
    BY <1>0, <1>1, LedgerCollect
<1>2. CASE Embed
    BY <1>0, <1>2, LedgerEmbed
<1>3. CASE Expire \/ Reconcile \/ Prune
    BY <1>3 DEF NoLedgerJobs, Expire, Reconcile, Prune
<1>4. CASE DropDead \/ Age
    BY <1>0, <1>4, LedgerFrame DEF DropDead, ExpireDead, Age, AgePoint, collectorVars
<1>5. CASE RemoveFeed
    <2>1. LockFree /\ UNCHANGED <<writer, runPc, runFeed, inserting>>
        BY <1>5 DEF RemoveFeed, DeleteFeed, collectorVars
    <2>2. LedgerMatchesQueue'
        BY <1>0, <1>5 DEF RemoveFeed, DeleteFeed, LedgerInv, LedgerMatchesQueue, Queued,
                          TypeInv, TypeOK, StoreTypeOK
    <2> QED BY <1>0, <2>1, <2>2, LedgerTransaction
<1>6. CASE Crash
    <2>1. LockOwned'
        BY <1>6 DEF Crash, CollectorCrash, LockOwned
    <2>2. \A m \in Articles, r \in Runs : m \in inserting[r] => ~Queued(m)
        BY DEF LedgerInv, LockOwned, Buffering
    <2>3. LedgerMatchesQueue'
        BY <1>0, <1>6, <2>2 DEF Crash, CollectorCrash, LedgerInv, LedgerMatchesQueue, Queued,
                                TypeInv, TypeOK, StoreTypeOK
    <2> QED BY <1>0, <2>1, <2>3 DEF LedgerInv
<1>7. CASE UNCHANGED vars
    BY <1>0, <1>7, LedgerFrame DEF vars, storeVars, collectorVars
<1> QED BY <1>1, <1>2, <1>3, <1>4, <1>5, <1>6, <1>7 DEF Next

(* Collection passes, ticks, feed deletions and crashes keep the ledger    *)
(* and the queue consistent, although a pass writes the two tables in two  *)
(* statements (insert_article_pending).                                    *)
THEOREM LedgerConsistent == NoLedgerJobs /\ Spec => []LedgerMatchesQueue
<1> SUFFICES ASSUME NoLedgerJobs PROVE Spec => []LedgerMatchesQueue
    BY DEF NoLedgerJobs
<1>1. LedgerInv => LedgerMatchesQueue
    BY DEF LedgerInv
<1> QED BY <1>1, LedgerInit, LedgerStep, PTL DEF Spec
=============================================================================
