----------------------------- MODULE IntentStores ------------------------------
(***************************************************************************)
(* Where an intent lives: its row with its sub-texts in SQLite, its point  *)
(* in Qdrant, its entry in the in-process event cache and its scheduler    *)
(* job.  Row and sub-texts change under one transaction and are one row    *)
(* here.  The last two stores are memory: a restart rebuilds them.         *)
(*                                                                         *)
(* A row has a main text, at most one sub-text (alt_0), the enabled flag   *)
(* and a schedule; the schedule stands for everything that is copied next  *)
(* to it, threshold and feed filter of a cache entry, time zone of a job.  *)
(***************************************************************************)
EXTENDS Naturals

CONSTANTS
    Intents,        \* ids; AUTOINCREMENT never hands one out twice
    Texts,
    Schedules,
    EventSchedules, \* those with mode "event"; the others are cron schedules
    Nothing         \* no row, no point, no entry, no job, no sub-text

ASSUME EventAssumption == EventSchedules \subseteq Schedules
ASSUME NothingAssumption ==
    Nothing \notin Texts /\ Nothing \notin Schedules /\ Nothing \notin Intents

VARIABLES
    rows,
    points,     \* a point holds one vector per text, identified with the text
    cache,      \* event_intent_cache
    jobs,       \* matcher-intent-{id} in the scheduler
    born        \* ids handed out so far

storeVars == <<rows, points, cache, jobs, born>>

SubTexts == Texts \cup {Nothing}
Row == [main : Texts, alt : SubTexts, enabled : BOOLEAN, schedule : Schedules]
Point == [main : Texts, alt : SubTexts]
CacheEntry == [main : Texts, alt : SubTexts, schedule : Schedules]

ASSUME RecordsAssumption ==
    Nothing \notin Row /\ Nothing \notin Point /\ Nothing \notin CacheEntry

StoresTypeOK ==
    /\ rows \in [Intents -> Row \cup {Nothing}]
    /\ points \in [Intents -> Point \cup {Nothing}]
    /\ cache \in [Intents -> CacheEntry \cup {Nothing}]
    /\ jobs \in [Intents -> Schedules \cup {Nothing}]
    /\ born \subseteq Intents

StoresInit ==
    /\ rows = [i \in Intents |-> Nothing]
    /\ points = [i \in Intents |-> Nothing]
    /\ cache = [i \in Intents |-> Nothing]
    /\ jobs = [i \in Intents |-> Nothing]
    /\ born = {}

Exists(i) == rows[i] # Nothing
IsEvent(schedule) == schedule \in EventSchedules

(* _slot_dict_from_vectors, for the texts of a row *)
Vectors(row) == [main |-> row.main, alt |-> row.alt]

Entry(vectors, row) ==
    [main |-> vectors.main, alt |-> vectors.alt, schedule |-> row.schedule]

(* The upsert replaces the slots it names and keeps the others. *)
Upserted(point, row) ==
    IF point # Nothing /\ row.alt = Nothing THEN [point EXCEPT !.main = row.main]
    ELSE Vectors(row)

(* register_intent_job, a no-op for event intents, with the stores' jobs as *)
(* j: replace_existing drops the old job.                                  *)
Registered(j, i, row) == IF IsEvent(row.schedule) THEN j ELSE [j EXCEPT ![i] = row.schedule]

Unregistered(j, i) == [j EXCEPT ![i] = Nothing]

(* register_all_enabled: enabled cron intents that have a point.           *)
JobsAtStartup ==
    [i \in Intents |->
        IF Exists(i) /\ rows[i].enabled /\ ~IsEvent(rows[i].schedule) /\ points[i] # Nothing
        THEN rows[i].schedule ELSE Nothing]

(* load_event_cache: enabled event intents that have a point.              *)
CacheAtStartup ==
    [i \in Intents |->
        IF Exists(i) /\ rows[i].enabled /\ IsEvent(rows[i].schedule) /\ points[i] # Nothing
        THEN Entry(points[i], rows[i]) ELSE Nothing]
=============================================================================
