---------------------------- MODULE SourceCursors ----------------------------
(***************************************************************************)
(* feeds.last_collected_at and what a collection pass fetches by it, for   *)
(* the three kinds of sources: an RSS feed (collector/rss), one that       *)
(* ignores the watermark, a Wisburg endpoint (collector/wisburg), and the  *)
(* cohort of newsapi feeds that share one master tick (collector/newsapi). *)
(*                                                                         *)
(* A pass fetches, and many awaits later it writes the articles and the    *)
(* cursor (collect_feed, NewsApiMaster.tick); a fire may run beside the    *)
(* scheduled pass.  Sources may show an article some time after its stamp. *)
(* Articles without a stamp, which every source returns, are left out.     *)
(***************************************************************************)
EXTENDS Integers, FiniteSets, FiniteSetsExt

CONSTANTS
    Kinds,          \* of source, among {"rss", "ledger", "wisburg", "newsapi"}
    News,           \* bound: articles
    Feeds,          \* bound: the feeds of one kind
    MaxNow,         \* bound of the clock
    DayLength,
    MaxDelay,       \* bound: an article is shown this long after its stamp
    FireLookback,   \* _FIRE_LOOKBACK_DAYS
    Overlap,        \* _OVERLAP
    MaxWindow,      \* _MAX_WINDOW
    IndexingLag,    \* newsapi_indexing_lag_hours
    PageSize,       \* articlesCount
    MaxPages,       \* newsapi_max_pages, _MAX_PAGES
    Never

ASSUME ClockAssumption ==
    /\ Never \notin Int /\ DayLength \in Nat \ {0}
    /\ {MaxNow, MaxDelay, FireLookback, Overlap, MaxWindow, IndexingLag} \subseteq Nat
ASSUME PagesAssumption ==
    PageSize \in Nat \ {0} /\ MaxPages \in Nat \ {0} /\ IsFiniteSet(News)
ASSUME KindsAssumption == Kinds \subseteq {"rss", "ledger", "wisburg", "newsapi"}

VARIABLES
    kind,       \* of the feeds: chosen at the start
    now,
    stamp,      \* of an article the source shows, or Never
    of,         \* the feed of an article
    cursor,     \* last_collected_at of a feed, or Never for NULL
    polled,     \* feeds that exist and are enabled
    pass,       \* a pass that has fetched: the scheduled one, or a fire
    settled     \* articles in feed_items; history: and those given up

cursorVars == <<kind, now, stamp, of, cursor, polled, pass, settled>>

PassKinds == {"job", "fire"}

(* feeds: those of the pass; saw: what the source showed; has: what it     *)
(* returned; out: what it left out, all three without what is settled; to: *)
(* the cursor it is going to write, Never for the clock.                   *)
NoPass == [feeds |-> {}, saw |-> {}, has |-> {}, out |-> {}, to |-> Never]

Clock == 0..MaxNow
Stamps == (-MaxDelay)..MaxNow

CursorTypeOK ==
    /\ kind \in Kinds /\ now \in Clock
    /\ stamp \in [News -> Stamps \cup {Never}]
    /\ of \in [News -> Feeds]
    /\ cursor \in [Feeds -> Stamps \cup {Never}]
    /\ polled \subseteq Feeds
    /\ \A s \in PassKinds :
          /\ pass[s].feeds \subseteq Feeds
          /\ pass[s].has \cup pass[s].out \subseteq pass[s].saw
          /\ pass[s].saw \subseteq News
          /\ pass[s].to \in Stamps \cup {Never}
    /\ settled \subseteq News

CursorInit ==
    /\ kind \in Kinds
    /\ now = 0
    /\ stamp = [a \in News |-> Never]
    /\ cursor = [f \in Feeds |-> Never]
    /\ \E f \in Feeds :
          /\ polled = {f}
          /\ of \in [News -> IF kind = "newsapi" THEN Feeds ELSE {f}]
    /\ pass = [s \in PassKinds |-> NoPass]
    /\ settled = {}

Day(t) == t \div DayLength
Shown == {a \in News : stamp[a] # Never}
ShownBy(feeds) == {a \in Shown : of[a] \in feeds}

-----------------------------------------------------------------------------
(* What a source returns for a cursor *)

(* collect_feed: the cursor that is passed on. *)
Since(f) == IF kind = "ledger" THEN Never ELSE cursor[f]

(* RSSSource.fetch *)
(* Mutant: the day of the cursor is compared. *)
RssWindowByDay(f) == {a \in ShownBy({f}) : Since(f) = Never \/ Day(stamp[a]) > Day(Since(f))}
RssWindow(f) == {a \in ShownBy({f}) : Since(f) = Never \/ stamp[a] > Since(f)}

(* WisburgSource.fetch: an overlap, a clamp, and a day when there is no    *)
(* cursor.                                                                 *)
WisburgStart(f) ==
    Max({now - MaxWindow, IF Since(f) = Never THEN now - DayLength ELSE Since(f) - Overlap})
WisburgWindow(f) == {a \in ShownBy({f}) : stamp[a] >= WisburgStart(f)}

(* _date_window: whole days. *)
DateStart(feeds) ==
    IF \E f \in feeds : cursor[f] = Never THEN Day(now - DayLength)
    ELSE Day(Min({cursor[f] : f \in feeds}))
NewsapiWindow(feeds) == {a \in ShownBy(feeds) : Day(stamp[a]) >= DateStart(feeds)}

(* _universal_since_for_pagination less the grace; articles above it have  *)
(* to be fetched.                                                          *)
AboveLine(feeds, window) ==
    IF \E f \in feeds : cursor[f] = Never THEN window
    ELSE {a \in window : stamp[a] > Min({cursor[f] : f \in feeds}) - IndexingLag}

(* The page at which the master stops by itself: the first one that is     *)
(* empty, or reaches below the line (_should_stop_paginating).             *)
StopPage(above, window) ==
    IF above # window THEN Cardinality(above) \div PageSize + 1
    ELSE (Cardinality(window) + PageSize - 1) \div PageSize + 1

(* The newest articles of a window, as many as n pages hold. *)
Newest(window, n) ==
    {has \in SUBSET window :
        /\ Cardinality(has) = Min({Cardinality(window), n * PageSize})
        /\ \A a \in has, b \in window \ has : stamp[a] >= stamp[b]}

-----------------------------------------------------------------------------
(* The passes *)

Fetched(s, feeds, has, out, to) ==
    pass' = [pass EXCEPT ![s] =
                [feeds |-> feeds, saw |-> ShownBy(feeds) \ settled,
                 has |-> has \ settled, out |-> out \ settled, to |-> to]]

(* collect_feed up to the answer of an RSS feed.  The one feed of these    *)
(* kinds stays enabled, so a fire of a disabled one is not told apart.     *)
FetchRss(s, f) ==
    /\ kind \in {"rss", "ledger"} /\ pass[s] = NoPass
    /\ f \in polled
    /\ Fetched(s, {f}, RssWindow(f), {}, Never)
    /\ UNCHANGED <<kind, now, stamp, of, cursor, polled, settled>>

(* The list of a Wisburg endpoint up to its cap, and the details, of which *)
(* some are deleted or not ready; nothing older than a week is asked for.  *)
FetchWisburg(s, f) ==
    \E listed \in SUBSET WisburgWindow(f) :
        /\ kind = "wisburg" /\ pass[s] = NoPass
        /\ f \in polled
        /\ Cardinality(listed) = Min({Cardinality(WisburgWindow(f)), PageSize * MaxPages})
        /\ \E skipped \in SUBSET listed :
              Fetched(s, {f}, listed \ skipped,
                      skipped \cup (WisburgWindow(f) \ listed)
                          \cup {a \in ShownBy({f}) :
                                   \/ stamp[a] < now - MaxWindow
                                   \/ Since(f) = Never /\ stamp[a] < now - DayLength},
                      Never)
        /\ UNCHANGED <<kind, now, stamp, of, cursor, polled, settled>>

(* The pages of the master tick: capped, the cursor goes to the newest     *)
(* article, and what lies below is given up, as is what a feed with an old *)
(* cursor has before the first window of another one.                      *)
CapCursor(has) == IF has = {} THEN Never ELSE Max({stamp[a] : a \in has})

FetchNewsapi ==
    LET window == NewsapiWindow(polled)
        stop == StopPage(AboveLine(polled, window), window)
        capped == stop > MaxPages
    IN
    /\ kind = "newsapi" /\ pass["job"] = NoPass
    /\ polled # {}
    /\ \E has \in Newest(window, Min({stop, MaxPages})) :
          Fetched("job", polled, has,
                  (IF capped THEN window \ has ELSE {})
                      \cup {a \in ShownBy(polled) \ window : \E f \in polled : cursor[f] = Never},
                  IF capped THEN CapCursor(has) ELSE Never)
    /\ UNCHANGED <<kind, now, stamp, of, cursor, polled, settled>>

(* A feed fire asks for one page and leaves the cursor alone. *)
FireNewsapi(f) ==
    /\ kind = "newsapi" /\ pass["fire"] = NoPass
    /\ \E has \in Newest({a \in ShownBy({f}) : Day(stamp[a]) >= Day(now - FireLookback)}, 1) :
          settled' = settled \cup has
    /\ UNCHANGED <<kind, now, stamp, of, cursor, polled, pass>>

(* The next pass gets the article, if the source shows it and nothing is   *)
(* capped.                                                                 *)
Within(a, since) ==
    \/ since = Never
    \/ CASE kind = "rss" -> stamp[a] > since
         [] kind = "ledger" -> TRUE
         [] kind = "wisburg" -> stamp[a] >= since - Overlap
         [] kind = "newsapi" -> stamp[a] > since - IndexingLag /\ Day(stamp[a]) >= Day(since)

(* update_last_collected of some feeds, one statement each. *)
Advance(feeds, to) == cursor' = [f \in Feeds |-> IF f \in feeds THEN to ELSE cursor[f]]

(* The inserts, of which some fail and are logged, and the cursors, one    *)
(* after the other: a stop between them leaves the rest of the cohort      *)
(* where it was.  What the source showed meanwhile, or the pass left out,  *)
(* may be behind a cursor that has moved.                                  *)
FinishPass(s, moved) ==
    LET to == IF pass[s].to = Never THEN now ELSE pass[s].to IN
    /\ moved \subseteq pass[s].feeds /\ moved # {}
    /\ Advance(moved, to)
    /\ settled' = settled \cup pass[s].has
          \cup {a \in (pass[s].out \cup (Shown \ pass[s].saw)) \cap ShownBy(moved) : ~Within(a, to)}
    /\ pass' = [pass EXCEPT ![s] = NoPass]
    /\ UNCHANGED <<kind, now, stamp, of, polled>>

(* A fetch that fails changes nothing.  A stop in the middle of the        *)
(* inserts leaves the cursor.                                              *)
PassStops(s, failed) ==
    /\ pass[s] # NoPass /\ failed \subseteq pass[s].has
    /\ settled' = settled \cup (pass[s].has \ failed)
    /\ pass' = [pass EXCEPT ![s] = NoPass]
    /\ UNCHANGED <<kind, now, stamp, of, cursor, polled>>

-----------------------------------------------------------------------------
(* The feeds *)

(* create_feed: a newsapi feed joins the cohort at its newest cursor; what *)
(* is older is not asked for.                                              *)
CreateFeed(f) ==
    LET cohort == {cursor[g] : g \in polled} \ {Never} IN
    /\ kind = "newsapi" /\ f \notin polled /\ cursor[f] = Never
    /\ polled' = polled \cup {f}
    /\ cursor' = [cursor EXCEPT ![f] = IF kind = "newsapi" /\ cohort # {}
                                       THEN Max(cohort) ELSE Never]
    /\ settled' = settled \cup {a \in ShownBy({f}) : ~Within(a, cursor'[f])}
    /\ UNCHANGED <<kind, now, stamp, of, pass>>

(* seed_initial_feeds, and a feed disabled before its first pass: no       *)
(* cursor.                                                                 *)
SeedFeed(f) ==
    /\ kind = "newsapi" /\ f \notin polled /\ cursor[f] = Never
    /\ polled' = polled \cup {f}
    /\ UNCHANGED <<kind, now, stamp, of, cursor, pass, settled>>

(* PATCH of enabled: the cursor stays. *)
EnableFeed(f) ==
    /\ kind = "newsapi" /\ f \notin polled /\ cursor[f] # Never
    /\ polled' = polled \cup {f}
    /\ UNCHANGED <<kind, now, stamp, of, cursor, pass, settled>>

DisableFeed(f) ==
    /\ kind = "newsapi" /\ f \in polled
    /\ polled' = polled \ {f}
    /\ UNCHANGED <<kind, now, stamp, of, cursor, pass, settled>>

-----------------------------------------------------------------------------
(* The source shows an article, late or not.  RSS has no grace: whatever   *)
(* has an older stamp may be behind the cursor.                            *)
TooLate(f, t) ==
    CASE kind = "rss" -> t < now \/ t = cursor[f]
      [] kind = "ledger" -> FALSE
      [] kind = "wisburg" -> now - t > Overlap
      [] kind = "newsapi" -> now - t >= IndexingLag

Show(a, t) ==
    /\ a \notin Shown
    /\ stamp' = [stamp EXCEPT ![a] = t]
    /\ settled' = IF TooLate(of[a], t) THEN settled \cup {a} ELSE settled
    /\ UNCHANGED <<kind, now, of, cursor, polled, pass>>

TimePasses ==
    /\ now < MaxNow
    /\ now' = now + 1
    /\ UNCHANGED <<kind, stamp, of, cursor, polled, pass, settled>>

CursorNext ==
    \/ \E s \in PassKinds :
        \/ \E f \in Feeds : FetchRss(s, f) \/ FetchWisburg(s, f)
        \/ \E moved \in SUBSET pass[s].feeds : FinishPass(s, moved)
        \/ \E failed \in SUBSET pass[s].has : PassStops(s, failed)
    \/ FetchNewsapi
    \/ \E f \in Feeds :
        FireNewsapi(f) \/ CreateFeed(f) \/ SeedFeed(f) \/ EnableFeed(f) \/ DisableFeed(f)
    \/ \E a \in News, t \in (now - MaxDelay)..now : Show(a, t)
    \/ TimePasses

CursorSpec == CursorInit /\ [][CursorNext]_cursorVars

-----------------------------------------------------------------------------
Owed == Shown \ settled

(* newsapi counts in days: before the day of the cursor nothing is asked   *)
(* for, whatever the grace.                                                *)
BeforeItsDay(a) == kind = "newsapi" /\ cursor[of[a]] # Never /\ Day(stamp[a]) < Day(cursor[of[a]])

(* An article a source showed is collected or the next successful pass     *)
(* returns it, whichever passes failed, stopped, overlapped or were capped *)
(* and however feeds come and go, unless it was given up where the code    *)
(* says so: shown later than the grace, shown during a pass that ended     *)
(* beyond it, cut off by the page cap, the clamp or the first window,      *)
(* skipped, or its insert failed (docs/modules/collector.md "articles      *)
(* published during a brief outage are not lost").                         *)
OwedIsReachable == \A a \in Owed : Within(a, cursor[of[a]]) \/ BeforeItsDay(a)

(* The grace reaches back over midnight as well (config.py, newsapi_       *)
(* indexing_lag_hours "catch articles freshly indexed below the cursor").  *)
(* Fails: the window starts with the day of the cursor.                    *)
GraceReachesBack == \A a \in Owed : Within(a, cursor[of[a]])
=============================================================================
