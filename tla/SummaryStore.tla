----------------------------- MODULE SummaryStore -----------------------------
(***************************************************************************)
(* What the scans of one cron intent share: the points of news_current     *)
(* that match it, the dedup log match_seen and the digests in              *)
(* summary_history, with the statements that read and write them.  Time is *)
(* counted in seconds, the resolution of run_at.                           *)
(***************************************************************************)
EXTENDS Integers, FiniteSets

CONSTANTS
    Articles,
    MaxTime,        \* bound of the clock
    Period,         \* between two fire times of the schedule
    Offset,         \* of the fire time within its period
    Lookback,       \* lookback_seconds
    HistorySpan,    \* history_days
    NoTime

ASSUME TimesAssumption ==
    /\ MaxTime \in Nat /\ Lookback \in Nat /\ HistorySpan \in Nat
    /\ Period \in Nat \ {0} /\ Offset \in 0..(Period - 1)
    /\ NoTime \notin Int

VARIABLES
    clock,
    news,       \* ingested_at_ts of the article's point, or NoTime
    seen,       \* match_seen of the intent
    rows,       \* summary_history of the intent
    dropped,    \* history: articles of a digest that was not stored
    evicted     \* history: articles taken out of match_seen again

summaryVars == <<clock, news, seen, rows, dropped, evicted>>

Times == 0..MaxTime

IsFireTime(t) == t % Period = Offset

(* run_at, the fire time the digest answers, and the articles it cites. *)
Row == [at : Int, fire : Int \cup {NoTime}, cites : SUBSET Articles]

SummaryTypeOK ==
    /\ clock \in Times
    /\ news \in [Articles -> Times \cup {NoTime}]
    /\ seen \subseteq Articles
    /\ \A row \in rows : row \in Row
    /\ dropped \subseteq Articles /\ evicted \subseteq Articles

SummaryInit ==
    /\ clock = 0
    /\ news = [a \in Articles |-> NoTime]
    /\ seen = {} /\ rows = {} /\ dropped = {} /\ evicted = {}

(* The query filter of scan_once: ingested_at_ts in [now - lookback, now]. *)
(* Mutant: no upper bound. *)
InWindowOpen(now) == {a \in Articles : news[a] # NoTime /\ news[a] >= now - Lookback}
InWindow(now) == {a \in Articles : news[a] # NoTime /\ news[a] \in (now - Lookback)..now}

(* format_history_text: of the digests of the last history_days up to now, *)
(* the newest.                                                             *)
NewestDigest(now) ==
    LET times == {row.at : row \in rows} \cap (now - HistorySpan)..now
    IN  IF times = {} THEN NoTime ELSE CHOOSE t \in times : \A u \in times : u <= t

(* insert_unseen_returning_new: INSERT OR IGNORE .. RETURNING. *)
(* Mutant: every id is returned. *)
UnseenAll(hits) == hits
Unseen(hits) == hits \ seen

MarkSeen(hits) == seen' = seen \cup hits

RunAtTaken(at) == \E row \in rows : row.at = at

(* delete_summary: the digest and the match_seen rows of its citations, in *)
(* one transaction.                                                        *)
(* Mutant: match_seen is left alone. *)
DeleteRowOnly(row) ==
    /\ row \in rows
    /\ rows' = rows \ {row}
    /\ evicted' = evicted \cup row.cites
    /\ UNCHANGED <<clock, news, seen, dropped>>
DeleteSummary(row) ==
    /\ row \in rows
    /\ rows' = rows \ {row}
    /\ seen' = seen \ row.cites
    /\ evicted' = evicted \cup row.cites
    /\ UNCHANGED <<clock, news, dropped>>

(* match_seen.clear_intent, after a PUT that re-embedded the intent. *)
ClearSeen ==
    /\ seen # {}
    /\ seen' = {}
    /\ evicted' = evicted \cup seen
    /\ UNCHANGED <<clock, news, rows, dropped>>

(* The TTL deletes the point and cascades into match_seen. *)
ExpireArticle(a) ==
    /\ news[a] # NoTime
    /\ news' = [news EXCEPT ![a] = NoTime]
    /\ seen' = seen \ {a}
    /\ evicted' = evicted \cup {a}
    /\ UNCHANGED <<clock, rows, dropped>>

(* The embedder upserts the point. *)
Ingest(a) ==
    /\ news[a] = NoTime
    /\ news' = [news EXCEPT ![a] = clock]
    /\ UNCHANGED <<clock, seen, rows, dropped, evicted>>

ClockTicks ==
    /\ clock < MaxTime
    /\ clock' = clock + 1
    /\ UNCHANGED <<news, seen, rows, dropped, evicted>>
=============================================================================
