----------------------------- MODULE ArticleStore -----------------------------
(***************************************************************************)
(* The two stores an article lives in, and the statements the program      *)
(* issues on them.                                                         *)
(*                                                                         *)
(* SQLite (one connection shared by every coroutine of the process):       *)
(*   feed_items         the md5 fingerprint ledger that deduplicates       *)
(*   pending_articles   the embedding queue                                *)
(*   dead_articles      rows that exhausted their embedding attempts       *)
(* Qdrant: the hot collection news_current and the permanent news_archive. *)
(*                                                                         *)
(* An article is its md5; url, title, body and vector are abstracted.  A   *)
(* transaction() block is one atomic step that needs the write lock free.  *)
(* insert_article_pending is the exception: it is split in two steps,      *)
(* because every reader shares its connection and therefore sees the row   *)
(* of an INSERT that is not committed yet.                                 *)
(***************************************************************************)
EXTENDS Naturals, FiniteSets

CONSTANTS
    Articles,       \* md5 fingerprints
    Feeds,          \* feed ids; AUTOINCREMENT, so an id is never reused
    Runs,           \* collection passes that can be in flight at once
    MaxAttempts,    \* MAX_ATTEMPTS of the embedder worker
    NoFeed,         \* no feed_items row
    NoRow,          \* no pending_articles / dead_articles row
    NoRun           \* the write lock is free

Row == [feed : Feeds, retry : 0..MaxAttempts]

ASSUME AttemptsAssumption == MaxAttempts \in Nat \ {0}
ASSUME SentinelAssumption == NoFeed \notin Feeds /\ NoRow \notin Row /\ NoRun \notin Runs

VARIABLES
    feeds,          \* ids present in the feeds table
    feed_items,     \* md5 -> owning feed, or NoFeed
    pending,        \* md5 -> [feed, retry_count], or NoRow
    dead,           \* md5 -> the row that was demoted, or NoRow
    news,           \* md5 -> "absent" | "fresh" | "aged" point of news_current
    archive,        \* md5s with a point in news_archive
    writer,         \* holder of _WRITE_LOCK across an await, or NoRun
    (* history, read by no action: *)
    accepted,       \* articles a committed insert_article_pending took in
    purged,         \* articles removed by a user or a retention policy
    offered         \* articles handed to event_match_batch since accepted

storeVars == <<feeds, feed_items, pending, dead, news, archive, writer,
               accepted, purged, offered>>

Queued(m)  == pending[m] # NoRow
Known(m)   == feed_items[m] # NoFeed
Indexed(m) == news[m] # "absent"
LockFree   == writer = NoRun

StoreTypeOK ==
    /\ feeds \subseteq Feeds
    /\ feed_items \in [Articles -> Feeds \cup {NoFeed}]
    /\ pending \in [Articles -> Row \cup {NoRow}]
    /\ dead \in [Articles -> Row \cup {NoRow}]
    /\ news \in [Articles -> {"absent", "fresh", "aged"}]
    /\ archive \subseteq Articles
    /\ writer \in Runs \cup {NoRun}
    /\ accepted \subseteq Articles
    /\ purged \subseteq Articles
    /\ offered \subseteq Articles

(* A deployment whose feeds are configured and that has collected nothing. *)
StoreInit ==
    /\ feeds = Feeds
    /\ feed_items = [m \in Articles |-> NoFeed]
    /\ pending = [m \in Articles |-> NoRow]
    /\ dead = [m \in Articles |-> NoRow]
    /\ news = [m \in Articles |-> "absent"]
    /\ archive = {}
    /\ writer = NoRun
    /\ accepted = {}
    /\ purged = {}
    /\ offered = {}

-----------------------------------------------------------------------------
(* db/articles.py, db/feeds.py *)

(* First half of insert_article_pending, for a fingerprint not in the      *)
(* ledger: BEGIN and INSERT OR IGNORE INTO feed_items.  The foreign key    *)
(* needs the feed.  The lock stays held over the awaits that follow.       *)
InsertFingerprint(r, m, f) ==
    /\ LockFree
    /\ ~Known(m)
    /\ f \in feeds
    /\ feed_items' = [feed_items EXCEPT ![m] = f]
    /\ writer' = r
    /\ UNCHANGED <<feeds, pending, dead, news, archive, accepted, purged, offered>>

(* Second half: INSERT INTO pending_articles and COMMIT. *)
InsertPending(m, f) ==
    /\ ~Queued(m)
    /\ pending' = [pending EXCEPT ![m] = [feed |-> f, retry |-> 0]]
    /\ writer' = NoRun
    /\ accepted' = accepted \cup {m}
    /\ purged' = purged \ {m}
    /\ offered' = offered \ {m}
    /\ UNCHANGED <<feeds, feed_items, dead, news, archive>>

(* Second half, failing: the primary key of pending_articles is taken, or  *)
(* any other database error.  ROLLBACK takes the ledger row back.          *)
RollbackInsert(m) ==
    /\ feed_items' = [feed_items EXCEPT ![m] = NoFeed]
    /\ writer' = NoRun
    /\ UNCHANGED <<feeds, pending, dead, news, archive, accepted, purged, offered>>

(* Mutant: <= for <. *)
PullableOffByOne == {m \in Articles : Queued(m) /\ pending[m].retry <= MaxAttempts}

(* pull_pending_batch selects rows with retry_count < MAX_ATTEMPTS. *)
Pullable == {m \in Articles : Queued(m) /\ pending[m].retry < MaxAttempts}

(* Mutant: the UPDATE matches no row. *)
IncrementRetryMissed(batch) == LockFree /\ batch # {} /\ UNCHANGED storeVars

(* increment_retry: UPDATE ... WHERE md5 IN batch; md5s whose row is gone  *)
(* are not touched.                                                        *)
IncrementRetry(batch) ==
    /\ LockFree
    /\ pending' = [m \in Articles |->
                      IF m \in batch /\ Queued(m)
                      THEN [pending[m] EXCEPT !.retry = @ + 1]
                      ELSE pending[m]]
    /\ UNCHANGED <<feeds, feed_items, dead, news, archive, writer, accepted, purged, offered>>

(* demote_md5s_to_dead: INSERT OR REPLACE INTO dead_articles SELECT ...,   *)
(* then DELETE FROM pending_articles, in one transaction.                  *)
DemoteToDead(batch) ==
    /\ LockFree
    /\ dead' = [m \in Articles |-> IF m \in batch /\ Queued(m) THEN pending[m] ELSE dead[m]]
    /\ pending' = [m \in Articles |-> IF m \in batch THEN NoRow ELSE pending[m]]
    /\ UNCHANGED <<feeds, feed_items, news, archive, writer, accepted, purged, offered>>

(* delete_pending *)
DeletePending(batch) ==
    /\ LockFree
    /\ pending' = [m \in Articles |-> IF m \in batch THEN NoRow ELSE pending[m]]
    /\ UNCHANGED <<feeds, feed_items, dead, news, archive, writer, accepted, purged, offered>>

(* Mutant: pending_articles without ON DELETE CASCADE. *)
DeleteFeedKeepsQueue(f) ==
    /\ LockFree
    /\ f \in feeds
    /\ feeds' = feeds \ {f}
    /\ feed_items' = [m \in Articles |-> IF feed_items[m] = f THEN NoFeed ELSE feed_items[m]]
    /\ UNCHANGED <<pending, dead, news, archive, writer, accepted, purged, offered>>

(* api/feeds.remove_feed: DELETE FROM feeds with ON DELETE CASCADE on      *)
(* feed_items and pending_articles; dead_articles has no foreign key, and  *)
(* the points of news_current stay.                                        *)
DeleteFeed(f) ==
    /\ LockFree
    /\ f \in feeds
    /\ feeds' = feeds \ {f}
    /\ feed_items' = [m \in Articles |-> IF feed_items[m] = f THEN NoFeed ELSE feed_items[m]]
    /\ pending' = [m \in Articles |->
                      IF Queued(m) /\ pending[m].feed = f THEN NoRow ELSE pending[m]]
    /\ purged' = purged \cup {m \in Articles : Queued(m) /\ pending[m].feed = f}
    /\ UNCHANGED <<dead, news, archive, writer, accepted, offered>>

(* DELETE FROM feed_items WHERE md5 IN batch, in its own transaction: the  *)
(* reconcile chunk, and the SQLite cascade after a Qdrant delete.          *)
ForgetFingerprints(batch) ==
    /\ LockFree
    /\ feed_items' = [m \in Articles |-> IF m \in batch THEN NoFeed ELSE feed_items[m]]
    /\ UNCHANGED <<feeds, pending, dead, news, archive, writer, accepted, purged, offered>>

-----------------------------------------------------------------------------
(* vector_store/news.py, Qdrant *)

(* upsert_news_points: ids derive from the md5, so a second upsert of an   *)
(* article overwrites its point and stamps a new ingested_at_ts.           *)
UpsertNews(batch) ==
    news' = [m \in Articles |-> IF m \in batch THEN "fresh" ELSE news[m]]

(* delete points of news_current by id; ids without a point are ignored. *)
DeleteNews(batch) ==
    news' = [m \in Articles |-> IF m \in batch THEN "absent" ELSE news[m]]

(* A day passes for a point.  "aged" points are the only ones a prune      *)
(* (older_than_days >= 1) or the TTL (retention >= 30 days) may select.    *)
AgePoint(m) ==
    /\ news[m] = "fresh"
    /\ news' = [news EXCEPT ![m] = "aged"]
    /\ UNCHANGED <<feeds, feed_items, pending, dead, archive, writer,
                   accepted, purged, offered>>
=============================================================================
