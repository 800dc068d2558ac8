---------------------------- MODULE CronDelivery ----------------------------
(***************************************************************************)
(* The four ways a scan of one cron intent becomes a digest, await by      *)
(* await: the scheduled tick (matcher/scan.run_intent_scan), the replay of *)
(* past fire times (matcher/backfill.run_backfill), the fire task          *)
(* (api/fire._fire_run) and the external fire (api/external_fire).  They   *)
(* share match_seen, summary_history, the throttle and the job, and the    *)
(* first two must not take articles from each other twice.                 *)
(***************************************************************************)
EXTENDS SummaryStore

CONSTANTS
    FireRate,   \* _FIRE_RATE_LIMIT_SECONDS
    MaxReplays, \* bound on past_runs
    Mixes,      \* bound: the kinds of scan that occur together in a behaviour
    SkipSeen,   \* schedule.skip_seen
    Requests    \* bound on what users do to the intent and its history

Scans == {"tick", "replay", "fire", "external"}
Marking == {"tick", "replay"}       \* write_match_seen

ASSUME DeliveryAssumption ==
    /\ FireRate \in Nat /\ MaxReplays \in Nat /\ SkipSeen \in BOOLEAN /\ Requests \in Nat
    /\ Mixes \subseteq SUBSET Scans

VARIABLES
    intent,     \* "on" | "off" (not enabled) | "gone"
    active,     \* the kinds of scan that occur in this behaviour, constant
    pc,         \* where a scan awaits
    anchor,     \* its "now"
    cites,      \* the matches it carries
    past,       \* run_at of the newest digest in its prompt, or NoTime
    due,        \* a fire time of the job has come and no tick answered it
    paused,     \* the matcher job
    locked,     \* the backfill lock of the intent
    todo,       \* fire times the replay still has to do
    task,       \* BackfillTask.status
    throttle,   \* seconds until _last_fire_at is FireRate old
    requests    \* how many user requests have been made

scanVars == <<pc, anchor, cites, past>>
replayVars == <<paused, locked, todo, task>>
controlVars ==
    <<intent, active, replayVars, due, throttle, requests>>
vars == <<summaryVars, scanVars, controlVars>>

TypeOK ==
    /\ SummaryTypeOK
    /\ intent \in {"on", "off", "gone"}
    /\ active \subseteq Scans
    /\ pc \in [Scans -> {"idle", "start", "check", "query", "mark", "prompt", "llm"}]
    /\ anchor \in [Scans -> Int]
    /\ cites \in [Scans -> SUBSET Articles]
    /\ past \in [Scans -> Int \cup {NoTime}]
    /\ due \in BOOLEAN /\ throttle \in 0..FireRate
    /\ paused \in BOOLEAN /\ locked \in BOOLEAN
    /\ todo \subseteq Int
    /\ task \in {"none", "running", "done", "error"}
    /\ requests \in 0..Requests

Init ==
    /\ SummaryInit
    /\ intent = "on"
    /\ active \in Mixes
    /\ pc = [s \in Scans |-> "idle"]
    /\ anchor = [s \in Scans |-> 0]
    /\ cites = [s \in Scans |-> {}]
    /\ past = [s \in Scans |-> NoTime]
    /\ due = FALSE /\ throttle = 0
    /\ paused = FALSE /\ locked = FALSE /\ todo = {} /\ task = "none"
    /\ requests = 0

Goto(s, from, to) == pc[s] = from /\ pc' = [pc EXCEPT ![s] = to]

(* What a replay does after one fire time: the next, or its end. *)
Resting(s) == IF s = "replay" THEN "check" ELSE "idle"

(* The scan is over without a digest; lost are the articles it had marked. *)
Finish(s, lost) ==
    /\ pc' = [pc EXCEPT ![s] = Resting(s)]
    /\ anchor' = [anchor EXCEPT ![s] = 0]
    /\ cites' = [cites EXCEPT ![s] = {}]
    /\ past' = [past EXCEPT ![s] = NoTime]
    /\ dropped' = dropped \cup lost

-----------------------------------------------------------------------------
(* scan_once *)

(* run_intent_scan, up to the first query.  coalesce: one tick answers all *)
(* fire times that are due; max_instances: not while one is running.       *)
StartTick ==
    /\ "tick" \in active /\ due /\ ~paused /\ intent # "gone"
    /\ pc["tick"] = "idle"
    /\ due' = FALSE
    /\ IF intent = "on" THEN Goto("tick", "idle", "query") ELSE UNCHANGED pc
    /\ UNCHANGED <<summaryVars, intent, active, anchor, cites, past, replayVars,
                   throttle, requests>>

(* throttle_check with create_task, and check_and_record_fire: the two     *)
(* fire endpoints share one bucket, and read and record it without an      *)
(* await in between.                                                       *)
TakesFire == throttle = 0 /\ throttle' = FireRate

StartFire ==
    /\ "fire" \in active /\ intent # "gone"
    /\ TakesFire
    /\ Goto("fire", "idle", "query")
    /\ UNCHANGED <<summaryVars, intent, active, anchor, cites, past, replayVars, due, requests>>

StartExternal ==
    /\ "external" \in active /\ intent # "gone"
    /\ TakesFire
    /\ Goto("external", "idle", "query")
    /\ UNCHANGED <<summaryVars, intent, active, anchor, cites, past, replayVars, due, requests>>

(* The point of the intent is read, then every slot is queried; a slot may *)
(* fail.  Its "now" is the wall clock, for a replay the past fire time.    *)
Query(s, hits) ==
    /\ pc[s] = "query"
    /\ LET now == IF s = "replay" THEN anchor[s] ELSE clock
       IN  /\ hits \subseteq InWindow(now)
           /\ hits # {}
           /\ anchor' = [anchor EXCEPT ![s] = now]
    /\ cites' = [cites EXCEPT ![s] = hits]
    /\ Goto(s, "query", IF s \in Marking THEN "mark" ELSE "prompt")
    /\ UNCHANGED <<summaryVars, past, controlVars>>

(* No hit, no point, or Qdrant raised. *)
QueryEmpty(s) ==
    /\ pc[s] = "query"
    /\ Finish(s, {})
    /\ UNCHANGED <<clock, news, seen, rows, evicted, controlVars>>

Mark(s) ==
    /\ pc[s] = "mark"
    /\ intent # "gone"
    /\ MarkSeen(cites[s])
    /\ LET new == IF SkipSeen THEN Unseen(cites[s]) ELSE cites[s]
       IN  IF new = {} THEN Finish(s, {})
           ELSE /\ cites' = [cites EXCEPT ![s] = new]
                /\ Goto(s, "mark", "prompt")
                /\ UNCHANGED <<anchor, past, dropped>>
    /\ UNCHANGED <<clock, news, rows, evicted, controlVars>>

(* The foreign key of a deleted intent, or a transaction that fails. *)
MarkFails(s) ==
    /\ pc[s] = "mark"
    /\ Finish(s, {})
    /\ UNCHANGED <<clock, news, seen, rows, evicted, controlVars>>

-----------------------------------------------------------------------------
(* SummaryPipeline.compute_summary *)

(* Context, templates and history; a failed history read leaves {history}  *)
(* empty.                                                                  *)
(* Mutant: "now" is not handed down. *)
PromptNowDropped(s) == clock
PromptNow(s) == IF s = "replay" THEN anchor[s] ELSE clock

Prompt(s) ==
    /\ Goto(s, "prompt", "llm")
    /\ intent # "gone"
    /\ \E read \in {NoTime, NewestDigest(PromptNow(s))} : past' = [past EXCEPT ![s] = read]
    /\ UNCHANGED <<summaryVars, anchor, cites, controlVars>>

(* A template is missing, the prompt does not fit, the intent is gone, or  *)
(* the model raised: None or an exception, and both are swallowed.         *)
SummaryFails(s) ==
    /\ pc[s] \in {"prompt", "llm"}
    /\ Finish(s, IF s \in Marking THEN cites[s] ELSE {})
    /\ UNCHANGED <<clock, news, seen, rows, evicted, controlVars>>

-----------------------------------------------------------------------------
(* _dispatch, and save_summary_or_skip for a replay.  The model returned;  *)
(* on_persist is isolated from the knowledge base and the notification     *)
(* that follow it, which change nothing here.                              *)

(* The fire time a tick or a replay answers. *)
Answers(s) ==
    CASE s = "replay" -> anchor[s]
      [] s = "tick" -> CHOOSE t \in (anchor[s] - Period + 1)..anchor[s] : IsFireTime(t)
      [] OTHER -> NoTime

(* run_at is the past fire time for a replay, for the others the second    *)
(* the digest is stored.                                                   *)
RunAt(s) == IF s = "replay" THEN anchor[s] ELSE clock

NewRow(s) == [at |-> RunAt(s), fire |-> Answers(s), cites |-> cites[s]]

(* on_persist, or the external endpoint when asked to persist. *)
Persist(s) ==
    /\ pc[s] = "llm" /\ s # "replay"
    /\ intent # "gone" /\ ~RunAtTaken(RunAt(s))
    /\ rows' = rows \cup {NewRow(s)}
    /\ Finish(s, {})
    /\ UNCHANGED <<clock, news, seen, evicted, controlVars>>

(* UNIQUE(intent_id, run_at) or the foreign key trips, or the transaction  *)
(* fails; the exception is logged and the digest only sent.                *)
PersistRaises(s) ==
    /\ pc[s] = "llm" /\ s # "replay"
    /\ Finish(s, IF s \in Marking THEN cites[s] ELSE {})
    /\ UNCHANGED <<clock, news, seen, rows, evicted, controlVars>>

(* fire_handle with persist=False. *)
FireNotStored ==
    /\ pc["fire"] = "llm"
    /\ Finish("fire", {})
    /\ UNCHANGED <<clock, news, seen, rows, evicted, controlVars>>

(* The external endpoint answers with the digest and stores nothing. *)
ExternalAnswers ==
    /\ pc["external"] = "llm"
    /\ Finish("external", {})
    /\ UNCHANGED <<clock, news, seen, rows, evicted, controlVars>>

(* save_summary_or_skip: INSERT OR IGNORE. *)
ReplayStores ==
    /\ pc["replay"] = "llm"
    /\ intent # "gone"
    /\ IF RunAtTaken(anchor["replay"])
       THEN UNCHANGED rows /\ Finish("replay", cites["replay"])
       ELSE rows' = rows \cup {NewRow("replay")} /\ Finish("replay", {})
    /\ UNCHANGED <<clock, news, seen, evicted, controlVars>>

-----------------------------------------------------------------------------
(* run_backfill *)

(* past_n_fire_times: the n fire times before the current period. *)
PastFireTimes(n, now) == {((now \div Period) - i) * Period + Offset : i \in 1..n}

Earliest(times) == CHOOSE t \in times : \A u \in times : t <= u

(* probe_oldest_news_ts against the oldest fire time. *)
DeepEnough(times) ==
    LET ingested == {news[a] : a \in Articles} \ {NoTime}
    IN  ingested # {} => Earliest(times) >= Earliest(ingested)

(* post_backfill: try_acquire_intent and create_task, without an await; the *)
(* looks at intent and depth before an await are repeated by run_backfill.  *)
PostBackfill ==
    /\ "replay" \in active /\ ~locked
    /\ locked' = TRUE /\ task' = "running"
    /\ Goto("replay", "idle", "start")
    /\ UNCHANGED <<summaryVars, intent, active, anchor, cites, past, paused, todo,
                   due, throttle, requests>>

(* The finally block: the job goes on, from its next fire time after now,  *)
(* and the lock is given back.                                             *)
(* Mutant: nothing is released on the way out. *)
EndReplayKeepsLock(how, lost) ==
    /\ pc' = [pc EXCEPT !["replay"] = "idle"]
    /\ anchor' = [anchor EXCEPT !["replay"] = 0]
    /\ cites' = [cites EXCEPT !["replay"] = {}]
    /\ past' = [past EXCEPT !["replay"] = NoTime]
    /\ dropped' = dropped \cup lost
    /\ paused' = FALSE /\ due' = FALSE
    /\ locked' = (how = "error") /\ todo' = {} /\ task' = how
    /\ UNCHANGED <<clock, news, seen, rows, evicted, intent, active, throttle, requests>>

EndReplay(how, lost) ==
    /\ pc' = [pc EXCEPT !["replay"] = "idle"]
    /\ anchor' = [anchor EXCEPT !["replay"] = 0]
    /\ cites' = [cites EXCEPT !["replay"] = {}]
    /\ past' = [past EXCEPT !["replay"] = NoTime]
    /\ dropped' = dropped \cup lost
    /\ paused' = FALSE /\ due' = FALSE
    /\ locked' = FALSE /\ todo' = {} /\ task' = how
    /\ UNCHANGED <<clock, news, seen, rows, evicted, intent, active, throttle, requests>>

(* The snapshot is taken and the job is paused. *)
BeginReplay(n) ==
    /\ intent # "gone"
    /\ DeepEnough(PastFireTimes(n, clock))
    /\ Goto("replay", "start", "check")
    /\ todo' = PastFireTimes(n, clock)
    /\ paused' = (intent = "on")
    /\ UNCHANGED <<summaryVars, intent, active, anchor, cites, past, locked, task,
                   due, throttle, requests>>

(* intent_invalid, or qdrant_depth. *)
RefuseReplay(n) ==
    /\ pc["replay"] = "start"
    /\ intent = "gone" \/ ~DeepEnough(PastFireTimes(n, clock))
    /\ EndReplay("error", {})

(* Oldest first, after another look at the intent. *)
NextFireTime ==
    /\ todo # {} /\ intent # "gone"
    /\ Goto("replay", "check", "query")
    /\ anchor' = [anchor EXCEPT !["replay"] = Earliest(todo)]
    /\ todo' = todo \ {Earliest(todo)}
    /\ UNCHANGED <<summaryVars, intent, active, cites, past, paused, locked, task,
                   due, throttle, requests>>

ReplayDone ==
    /\ pc["replay"] = "check"
    /\ intent = "gone" \/ todo = {}
    /\ EndReplay(IF intent = "gone" THEN "error" ELSE "done", {})

(* save_summary_or_skip raises: OR IGNORE does not cover the foreign key.  *)
ReplayAborts ==
    /\ pc["replay"] = "llm"
    /\ EndReplay("error", cites["replay"])

-----------------------------------------------------------------------------
(* Users, retention and the process *)

Request == requests < Requests /\ requests' = requests + 1

(* PUT: the job is registered anew, unpaused, or removed.  A new text      *)
(* clears match_seen.                                                      *)
PutIntent(enabled, newText) ==
    /\ Request
    /\ intent # "gone"
    /\ intent' = IF enabled THEN "on" ELSE "off"
    /\ paused' = FALSE /\ due' = FALSE
    /\ IF newText THEN ClearSeen ELSE UNCHANGED summaryVars
    /\ UNCHANGED <<active, scanVars, locked, todo, task, throttle>>

(* DELETE: the row, its cascades and the job; a held lock stays. *)
DeleteIntent ==
    /\ Request
    /\ intent # "gone"
    /\ intent' = "gone"
    /\ seen' = {} /\ rows' = {} /\ paused' = FALSE
    /\ UNCHANGED <<clock, news, dropped, evicted, active, scanVars, locked, todo, task,
                   due, throttle>>

DeleteHistoryRow ==
    /\ Request
    /\ intent # "gone"
    /\ \E row \in rows : DeleteSummary(row)
    /\ UNCHANGED <<intent, active, scanVars, replayVars, due, throttle>>

Expire ==
    /\ Request
    /\ \E a \in Articles : ExpireArticle(a)
    /\ UNCHANGED <<intent, active, scanVars, replayVars, due, throttle>>

(* A paused job has no next fire time. *)
(* Mutant: the age of the last fire is not compared but counted down. *)
SecondPassesBelowZero ==
    /\ ClockTicks
    /\ due' = (due \/ (intent = "on" /\ ~paused /\ IsFireTime(clock')))
    /\ throttle' = throttle - 1
    /\ UNCHANGED <<intent, active, scanVars, replayVars, requests>>

SecondPasses ==
    /\ ClockTicks
    /\ due' = (due \/ (intent = "on" /\ ~paused /\ IsFireTime(clock')))
    /\ throttle' = IF throttle = 0 THEN 0 ELSE throttle - 1
    /\ UNCHANGED <<intent, active, scanVars, replayVars, requests>>

IngestArticle ==
    /\ \E a \in Articles : Ingest(a)
    /\ UNCHANGED <<intent, active, scanVars, replayVars, due, throttle, requests>>

(* Scans, tasks, locks and the throttle are in memory; jobs are registered *)
(* again, from their next fire time after now.                             *)
Restart ==
    /\ Request
    /\ dropped' = dropped \cup UNION {cites[s] : s \in {r \in Marking :
                                                 pc[r] \in {"prompt", "llm"}}}
    /\ pc' = [s \in Scans |-> "idle"]
    /\ anchor' = [s \in Scans |-> 0]
    /\ cites' = [s \in Scans |-> {}]
    /\ past' = [s \in Scans |-> NoTime]
    /\ due' = FALSE /\ throttle' = 0
    /\ paused' = FALSE /\ locked' = FALSE /\ todo' = {} /\ task' = "none"
    /\ UNCHANGED <<clock, news, seen, rows, evicted, intent, active>>

ScanStep(s) ==
    \/ \E hits \in SUBSET Articles : Query(s, hits)
    \/ QueryEmpty(s)
    \/ Mark(s) \/ MarkFails(s)
    \/ Prompt(s)
    \/ SummaryFails(s)
    \/ Persist(s) \/ PersistRaises(s)

ReplayStep ==
    \/ \E n \in 1..MaxReplays : BeginReplay(n) \/ RefuseReplay(n)
    \/ NextFireTime \/ ReplayStores \/ ReplayDone \/ ReplayAborts

Next ==
    \/ StartTick \/ StartFire \/ StartExternal \/ PostBackfill
    \/ FireNotStored \/ ExternalAnswers
    \/ \E s \in Scans : ScanStep(s)
    \/ ReplayStep
    \/ \E enabled, newText \in BOOLEAN : PutIntent(enabled, newText)
    \/ DeleteIntent \/ DeleteHistoryRow \/ Expire
    \/ SecondPasses \/ IngestArticle \/ Restart

Spec == Init /\ [][Next]_vars

-----------------------------------------------------------------------------
(* Safety *)

Cited == UNION {row.cites : row \in rows}

(* An article match_seen hides from later scans is in a stored digest, or  *)
(* a scan still carries it, or its digest is known to have failed after    *)
(* match_seen was written (scan.py "match_seen already committed; on_match *)
(* failure = silent loss"; delete_summary "Without this cascade, the       *)
(* article stays in match_seen forever").                                  *)
SeenIsAccountedFor ==
    seen \subseteq Cited \cup dropped \cup cites["tick"] \cup cites["replay"]

(* With skip_seen no article is in two digests of ticks and replays,       *)
(* stored or in the making, however they overlap, unless something took it *)
(* out of match_seen in between (scan_once "only truly new (not-yet-seen)  *)
(* matches are returned").                                                 *)
InTheMaking(s) == IF pc[s] \in {"prompt", "llm"} THEN cites[s] ELSE {}

DeliveredOnce ==
    SkipSeen =>
        /\ \A r1, r2 \in {row \in rows : row.fire # NoTime} :
              r1 # r2 => r1.cites \cap r2.cites \subseteq evicted
        /\ \A s \in Marking, r \in {row \in rows : row.fire # NoTime} :
              InTheMaking(s) \cap r.cites \subseteq evicted
        /\ InTheMaking("tick") \cap InTheMaking("replay") \subseteq evicted

(* A digest is of its moment: its prompt contains no digest of a later     *)
(* one, so a replay cannot know what came after its fire time (backfill.py *)
(* "{history} prompt slot for each iteration sees only earlier replays").  *)
HistoryIsPast == \A s \in Scans : past[s] # NoTime => past[s] <= RunAt(s)

(* A digest stored by a replay cites no article that arrived after its     *)
(* fire time (scan_once: "the oldest backfill iteration would scoop up     *)
(* every article .. and starve subsequent iterations").                    *)
ReplayStaysInWindow ==
    \A row \in rows : row.at = row.fire =>
        \A a \in row.cites : news[a] # NoTime /\ a \notin evicted => news[a] <= row.at

(* One digest answers a fire time (save_summary_or_skip: "a normal cron    *)
(* tick or a prior backfill already wrote that fire-time").  Fails: the    *)
(* digest of a tick is stored under the second it was written.             *)
OneDigestPerFireTime ==
    \A r1, r2 \in rows : r1.fire = r2.fire /\ r1.fire # NoTime => r1 = r2

(* The lock is held exactly while a backfill is under way, its task says   *)
(* so, and only then is the job paused: whichever way it ends, a later     *)
(* backfill is not refused and the ticks go on (run_backfill "ALWAYS       *)
(* releases that lock in its finally block, even on exception").           *)
LockFollowsReplay ==
    /\ locked <=> pc["replay"] # "idle"
    /\ locked <=> task = "running"
    /\ paused => locked
=============================================================================
