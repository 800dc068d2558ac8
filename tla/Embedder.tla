------------------------------- MODULE Embedder -------------------------------
(***************************************************************************)
(* embedder/scheduler.embedder_worker, a 30 s job with max_instances=1.    *)
(*                                                                         *)
(* A tick keeps two lists over its awaits: the md5s it pulled and the md5s *)
(* that will have used up their attempts if this tick fails.  Both come    *)
(* from the rows as they were pulled; the rows may change meanwhile.       *)
(***************************************************************************)
EXTENDS ArticleStore

CONSTANT BatchSize      \* BATCH_SIZE

ASSUME BatchAssumption == BatchSize \in Nat \ {0}

VARIABLES
    embPc,      \* the await the tick stands at
    batch,      \* md5s
    atLimit     \* md5s_at_limit

embedderVars == <<embPc, batch, atLimit>>

EmbedderTypeOK ==
    /\ embPc \in {"idle", "embedding", "upserting", "matching", "deleting",
                  "counting", "demoting"}
    /\ batch \subseteq Articles
    /\ atLimit \subseteq batch

EmbedderInit == embPc = "idle" /\ batch = {} /\ atLimit = {}

TickEnds == embPc' = "idle" /\ batch' = {} /\ atLimit' = {}

Goto(from, to) == embPc = from /\ embPc' = to /\ UNCHANGED <<batch, atLimit>>

(* Mutant: one attempt too early. *)
AtLimitEarly(rows) == {m \in rows : pending[m].retry + 2 >= MaxAttempts}

(* md5s_at_limit: this tick's failure would be the last attempt. *)
AtLimit(rows) == {m \in rows : pending[m].retry + 1 >= MaxAttempts}

(* pull_pending_batch: the oldest BatchSize rows below the attempt limit.  *)
(* Which rows are oldest is abstracted; the size is not.                   *)
PullBatch(rows) ==
    /\ embPc = "idle"
    /\ rows \subseteq Pullable
    /\ rows # {}
    /\ \/ Cardinality(rows) = BatchSize
       \/ rows = Pullable /\ Cardinality(rows) <= BatchSize
    /\ batch' = rows
    /\ atLimit' = AtLimit(rows)
    /\ embPc' = "embedding"
    /\ UNCHANGED storeVars

EmbedReturns == Goto("embedding", "upserting") /\ UNCHANGED storeVars

(* Mutant: the except branch does not return. *)
EmbedFailsFallsThrough == Goto("embedding", "matching") /\ UNCHANGED storeVars

EmbedFails == Goto("embedding", "counting") /\ UNCHANGED storeVars

(* Mutant: the rows are dequeued without the event path. *)
UpsertThenDelete ==
    /\ Goto("upserting", "deleting")
    /\ UpsertNews(batch)
    /\ UNCHANGED <<feeds, feed_items, pending, dead, archive, writer,
                   accepted, purged, offered>>

UpsertReturns ==
    /\ Goto("upserting", "matching")
    /\ UpsertNews(batch)
    /\ UNCHANGED <<feeds, feed_items, pending, dead, archive, writer,
                   accepted, purged, offered>>

(* The upsert raised.  Qdrant may have applied it nevertheless: a timeout  *)
(* says nothing about the server.                                          *)
UpsertRaised(applied) ==
    /\ embPc = "upserting"
    /\ applied \in {{}, batch}
    /\ UpsertNews(applied)
    /\ UNCHANGED <<feeds, feed_items, pending, dead, archive, writer,
                   accepted, purged, offered>>

(* ConnectError or TimeoutException: the attempt is not counted. *)
UpsertTransient(applied) == UpsertRaised(applied) /\ TickEnds

UpsertFails(applied) == UpsertRaised(applied) /\ Goto("upserting", "counting")

CountAttempt ==
    /\ embPc = "counting"
    /\ IncrementRetry(batch)
    /\ IF atLimit = {} THEN TickEnds
       ELSE embPc' = "demoting" /\ UNCHANGED <<batch, atLimit>>

DemoteExhausted ==
    /\ embPc = "demoting"
    /\ DemoteToDead(atLimit)
    /\ TickEnds

(* event_match_batch never raises: whatever happened to the hits, the      *)
(* points have been handed to the event path.                              *)
MatchBatch ==
    /\ Goto("matching", "deleting")
    /\ offered' = offered \cup batch
    /\ UNCHANGED <<feeds, feed_items, pending, dead, news, archive, writer,
                   accepted, purged>>

DeleteEmbedded ==
    /\ embPc = "deleting"
    /\ DeletePending(batch)
    /\ TickEnds

(* A transaction of the tick gets the lock and then fails (its BEGIN is    *)
(* refused, its COMMIT fails).  delete_pending's exception is logged; increment_retry's and    *)
(* demote_md5s_to_dead's leave the job.  Either way the tick is over.      *)
TickAborts ==
    /\ embPc \in {"counting", "demoting", "deleting"}
    /\ LockFree
    /\ TickEnds
    /\ UNCHANGED storeVars

EmbedderStep ==
    \/ \E rows \in SUBSET Articles : PullBatch(rows)
    \/ EmbedReturns
    \/ EmbedFails
    \/ UpsertReturns
    \/ \E applied \in SUBSET Articles : UpsertTransient(applied) \/ UpsertFails(applied)
    \/ CountAttempt
    \/ DemoteExhausted
    \/ MatchBatch
    \/ DeleteEmbedded
    \/ TickAborts
=============================================================================
