------------------------------ MODULE Collector ------------------------------
(***************************************************************************)
(* collector/scheduler.collect_feed: one collection pass over a feed, run  *)
(* by the feed's interval job or by POST /feeds/{id}/fire, so several      *)
(* passes, also of the same feed, can be in flight at once.                *)
(*                                                                         *)
(* What the source returns is any set of articles: the published_at        *)
(* watermark and the parser only choose which.                             *)
(***************************************************************************)
EXTENDS ArticleStore

VARIABLES
    runPc,      \* run -> "idle" | "fetching" | "inserting" | "buffering"
    runFeed,    \* run -> the feed it collects, or NoFeed
    todo,       \* run -> fetched articles not processed yet
    inserting   \* run -> the article whose transaction is open

collectorVars == <<runPc, runFeed, todo, inserting>>

CollectorTypeOK ==
    /\ runPc \in [Runs -> {"idle", "fetching", "inserting", "buffering"}]
    /\ runFeed \in [Runs -> Feeds \cup {NoFeed}]
    /\ todo \in [Runs -> SUBSET Articles]
    /\ inserting \in [Runs -> SUBSET Articles]

CollectorInit ==
    /\ runPc = [r \in Runs |-> "idle"]
    /\ runFeed = [r \in Runs |-> NoFeed]
    /\ todo = [r \in Runs |-> {}]
    /\ inserting = [r \in Runs |-> {}]

Finished(r) ==
    /\ runPc' = [runPc EXCEPT ![r] = "idle"]
    /\ runFeed' = [runFeed EXCEPT ![r] = NoFeed]

(* The job fires, or the operator fires the feed: reads last_collected_at  *)
(* and waits for the host limiter and the source.                          *)
StartCollect(r, f) ==
    /\ runPc[r] = "idle"
    /\ f \in feeds
    /\ runPc' = [runPc EXCEPT ![r] = "fetching"]
    /\ runFeed' = [runFeed EXCEPT ![r] = f]
    /\ UNCHANGED <<storeVars, todo, inserting>>

(* FetchError or any other exception: the cursor stays where it is. *)
FetchFails(r) ==
    /\ runPc[r] = "fetching"
    /\ Finished(r)
    /\ UNCHANGED <<storeVars, todo, inserting>>

FetchReturns(r, arts) ==
    /\ runPc[r] = "fetching"
    /\ todo' = [todo EXCEPT ![r] = arts]
    /\ runPc' = [runPc EXCEPT ![r] = "inserting"]
    /\ UNCHANGED <<storeVars, runFeed, inserting>>

(* insert_article_pending, up to the await between its two INSERTs. *)
BeginInsert(r, m) ==
    /\ runPc[r] = "inserting"
    /\ m \in todo[r]
    /\ InsertFingerprint(r, m, runFeed[r])
    /\ todo' = [todo EXCEPT ![r] = @ \ {m}]
    /\ inserting' = [inserting EXCEPT ![r] = {m}]
    /\ runPc' = [runPc EXCEPT ![r] = "buffering"]
    /\ UNCHANGED runFeed

(* The article brings no row: its fingerprint is known (changes() = 0), or *)
(* its transaction failed before the second INSERT (BEGIN refused, feed    *)
(* deleted: foreign key) and the exception was logged and swallowed.       *)
SkipArticle(r, m) ==
    /\ runPc[r] = "inserting"
    /\ m \in todo[r]
    /\ todo' = [todo EXCEPT ![r] = @ \ {m}]
    /\ UNCHANGED <<storeVars, runPc, runFeed, inserting>>

EndInsert(r) ==
    /\ runPc' = [runPc EXCEPT ![r] = "inserting"]
    /\ inserting' = [inserting EXCEPT ![r] = {}]
    /\ UNCHANGED <<runFeed, todo>>

CommitInsert(r) ==
    /\ runPc[r] = "buffering"
    /\ \E m \in inserting[r] : InsertPending(m, runFeed[r])
    /\ EndInsert(r)

AbortInsert(r) ==
    /\ runPc[r] = "buffering"
    /\ \E m \in inserting[r] : RollbackInsert(m)
    /\ EndInsert(r)

(* Every article processed: update_last_collected moves the cursor (the    *)
(* cursor itself is not part of this model).                               *)
FinishCollect(r) ==
    /\ runPc[r] = "inserting"
    /\ todo[r] = {}
    /\ Finished(r)
    /\ UNCHANGED <<storeVars, todo, inserting>>

CollectorStep(r) ==
    \/ \E f \in Feeds : StartCollect(r, f)
    \/ FetchFails(r)
    \/ \E arts \in SUBSET Articles : FetchReturns(r, arts)
    \/ \E m \in Articles : BeginInsert(r, m)
    \/ \E m \in Articles : SkipArticle(r, m)
    \/ CommitInsert(r)
    \/ AbortInsert(r)
    \/ FinishCollect(r)

(* The process stops: passes vanish with the memory of the process, and    *)
(* SQLite rolls an uncommitted transaction back.                           *)
CollectorCrash ==
    /\ runPc' = [r \in Runs |-> "idle"]
    /\ runFeed' = [r \in Runs |-> NoFeed]
    /\ todo' = [r \in Runs |-> {}]
    /\ inserting' = [r \in Runs |-> {}]
    /\ writer' = NoRun
    /\ feed_items' = [m \in Articles |->
                         IF \E r \in Runs : m \in inserting[r] THEN NoFeed ELSE feed_items[m]]
    /\ UNCHANGED <<feeds, pending, dead, news, archive, accepted, purged, offered>>
=============================================================================
