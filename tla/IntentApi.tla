------------------------------- MODULE IntentApi -------------------------------
(***************************************************************************)
(* api/intents.py: POST, PUT and DELETE of an intent.  Each request is a   *)
(* coroutine that keeps the four stores in step by hand; what it does      *)
(* between two awaits is one step, and other requests run in between.  A   *)
(* call to Qdrant is two steps, its effect and its answer: it may raise    *)
(* before or after it took effect.  Requests is how many are open at once; *)
(* one that was answered makes room for another.                           *)
(***************************************************************************)
EXTENDS IntentStores

CONSTANTS
    Requests,
    Editors,        \* bound: the requests that may be a POST or a PUT
    NewBodies,      \* bodies of POST, members of Row
    Changes,        \* bodies of PUT, members of Change
    NoChange,       \* a field that the body of a PUT leaves out
    Faults          \* what may raise: "qdrant" (and the embedder), "sqlite", "scheduler"

Change == [main : Texts \cup {NoChange}, alt : SubTexts \cup {NoChange},
           enabled : BOOLEAN \cup {NoChange}, schedule : Schedules \cup {NoChange}]

ASSUME EditorsAssumption == Editors \subseteq Requests

ASSUME BodiesAssumption ==
    /\ NewBodies \subseteq Row /\ Changes \subseteq Change
    /\ NoChange \notin Texts \cup {Nothing} \cup BOOLEAN \cup Schedules

VARIABLES
    req,        \* a handler: what it is, where it is, what it has read
    \* History, read by no guard.  An intent is in
    tainted,    \* when its requests overlapped or a failure kept one from
                \* bringing cache and job up to date;
    strayed,    \* when that may have left its point behind as well;
    failed      \* and failed[i] are the bodies of PUTs answered with 500
                \* whose row was restored and which did not succeed since.

history == <<tainted, strayed, failed>>
apiVars == <<req, tainted, strayed, failed>>

Idle == [op |-> "none", pc |-> "idle", intent |-> Nothing, body |-> Nothing,
         old |-> Nothing, new |-> Nothing]

PutPcs == {"write", "reread", "upsert", "trim", "done", "restore", "retrieve"}
PostPcs == {"upsert", "upserted", "unpoint", "unrow"}
DeletePcs == {"point", "row"}

ApiTypeOK ==
    /\ req \in [Requests ->
          [op : {"none", "post", "put", "delete"},
           pc : {"idle"} \cup PutPcs \cup PostPcs \cup DeletePcs,
           intent : Intents \cup {Nothing}, body : Changes \cup {Nothing},
           old : Row \cup {Nothing}, new : Row \cup {Nothing}]]
    /\ tainted \subseteq Intents
    /\ strayed \subseteq Intents
    /\ failed \in [Intents -> SUBSET Changes]

ApiInit ==
    /\ req = [r \in Requests |-> Idle]
    /\ tainted = {}
    /\ strayed = {}
    /\ failed = [i \in Intents |-> {}]

InFlight(i) == {r \in Requests : req[r].intent = i}
At(r, op, pc) == req[r].op = op /\ req[r].pc = pc
Goto(r, pc) == req' = [req EXCEPT ![r].pc = pc] /\ UNCHANGED history

Launch(r, op, pc, i, body, old, new) ==
    /\ req[r] = Idle
    /\ req' = [req EXCEPT ![r] = [op |-> op, pc |-> pc, intent |-> i, body |-> body,
                                  old |-> old, new |-> new]]
    /\ \/ /\ InFlight(i) # {}
          /\ tainted' = tainted \cup {i}
          /\ strayed' = strayed \cup {i}
          /\ UNCHANGED failed
       \/ /\ InFlight(i) = {} /\ op # "delete"
          /\ UNCHANGED history
       \/ /\ InFlight(i) = {} /\ op = "delete"      \* alone, it removes everything
          /\ tainted' = tainted \ {i}
          /\ strayed' = strayed \ {i}
          /\ failed' = [failed EXCEPT ![i] = {}]

(* The answer: taints and strays are {} or the intent.  *)
Answer(r, taints, strays) ==
    /\ req' = [req EXCEPT ![r] = Idle]
    /\ tainted' = tainted \cup taints
    /\ strayed' = strayed \cup strays

Succeed(r) ==
    /\ Answer(r, {}, {})
    /\ failed' = [failed EXCEPT ![req[r].intent] = @ \ {req[r].body}]

Fail(r, taints, strays) == Answer(r, taints, strays) /\ UNCHANGED failed

-----------------------------------------------------------------------------
(* POST *)

(* create_intent: the row is committed before anything else. *)
Post(r, i, body) ==
    /\ i \notin born
    /\ Launch(r, "post", "upsert", i, Nothing, Nothing, body)
    /\ rows' = [rows EXCEPT ![i] = body]
    /\ born' = born \cup {i}
    /\ UNCHANGED <<points, cache, jobs>>

PostUpsert(r) ==
    LET i == req[r].intent IN
    /\ At(r, "post", "upsert")
    /\ points' = [points EXCEPT ![i] = Upserted(points[i], req[r].new)]
    /\ Goto(r, "upserted")
    /\ UNCHANGED <<rows, cache, jobs, born>>

(* Cache entry, job and answer, without an await in between. *)
PostReturns(r) ==
    LET i == req[r].intent
        row == req[r].new
    IN
    /\ At(r, "post", "upserted")
    /\ cache' = IF row.enabled /\ IsEvent(row.schedule)
                THEN [cache EXCEPT ![i] = Entry(Vectors(row), row)] ELSE cache
    /\ jobs' = IF row.enabled THEN Registered(jobs, i, row) ELSE jobs
    /\ Succeed(r)
    /\ UNCHANGED <<rows, points, born>>

(* Embedding or the upsert raises; the upsert may have been applied, but   *)
(* qdrant_written is not set, so the point is not removed.                 *)
PostRaises(r) ==
    LET i == req[r].intent IN
    /\ "qdrant" \in Faults
    /\ At(r, "post", "upsert") \/ At(r, "post", "upserted")
    /\ cache' = IF IsEvent(req[r].new.schedule)
                THEN [cache EXCEPT ![i] = Nothing] ELSE cache
    /\ req' = [req EXCEPT ![r].pc = "unrow"]
    /\ strayed' = strayed \cup {i}
    /\ UNCHANGED <<rows, points, jobs, born, tainted, failed>>

(* The scheduler raises after the upsert: the point is removed as well.    *)
PostJobRaises(r) ==
    /\ "scheduler" \in Faults
    /\ At(r, "post", "upserted")
    /\ req[r].new.enabled /\ ~IsEvent(req[r].new.schedule)
    /\ Goto(r, "unpoint")
    /\ UNCHANGED storeVars

(* delete_intent_point; when it raises, that is logged. *)
PostUnpoint(r, removed) ==
    LET i == req[r].intent IN
    /\ removed \/ "qdrant" \in Faults
    /\ At(r, "post", "unpoint")
    /\ points' = IF removed THEN [points EXCEPT ![i] = Nothing] ELSE points
    /\ strayed' = IF removed THEN strayed ELSE strayed \cup {i}
    /\ req' = [req EXCEPT ![r].pc = "unrow"]
    /\ UNCHANGED <<rows, cache, jobs, born, tainted, failed>>

(* delete_intent; when it raises, that is logged. *)
PostUnrow(r, removed) ==
    LET i == req[r].intent
        left == IF removed THEN {} ELSE {i}
    IN
    /\ removed \/ "sqlite" \in Faults
    /\ At(r, "post", "unrow")
    /\ rows' = IF removed THEN [rows EXCEPT ![i] = Nothing] ELSE rows
    /\ Fail(r, left, left)
    /\ UNCHANGED <<points, cache, jobs, born>>

-----------------------------------------------------------------------------
(* PUT: what it decides from the snapshot and the body *)

(* Mutant: a field that is left out is written as null. *)
GivenOrNull(field, else) == field

Given(field, else) == IF field = NoChange THEN else ELSE field
Differs(field, current) == field # NoChange /\ field # current

TextChanged(r) == Differs(req[r].body.main, req[r].old.main)
SubTextEmbeds(r) == Differs(req[r].body.alt, req[r].old.alt) /\ req[r].body.alt # Nothing

(* Mutant: only the main text counts, as it did before there were sub-texts. *)
NeedsReembedMain(r) == TextChanged(r)

NeedsReembed(r) == TextChanged(r) \/ SubTextEmbeds(r)
EnabledChanged(r) == Differs(req[r].body.enabled, req[r].old.enabled)
ScheduleChanged(r) == Differs(req[r].body.schedule, req[r].old.schedule)
RemovesSlot(r) == req[r].old.alt # Nothing /\ req[r].new.alt = Nothing
Trimmed(vectors, r) ==
    IF RemovesSlot(r) THEN [vectors EXCEPT !.alt = Nothing] ELSE vectors

(* _update_intent_in_txn fills the fields left out from the snapshot; the  *)
(* sub-texts are replaced only when the body has them.                     *)
Updated(row, old, body) ==
    [main |-> Given(body.main, old.main), alt |-> Given(body.alt, row.alt),
     enabled |-> Given(body.enabled, old.enabled),
     schedule |-> Given(body.schedule, old.schedule)]

(* Writing sub-texts of a row that is gone violates their foreign key.     *)
WriteFails(i, body, alt) == ~Exists(i) /\ body.alt # NoChange /\ alt # Nothing

(* Steps 1 and 2: the snapshot; the mode is immutable.  *)
Put(r, i, body) ==
    /\ Exists(i)
    /\ body.schedule # NoChange => IsEvent(body.schedule) = IsEvent(rows[i].schedule)
    /\ Launch(r, "put", "write", i, body, rows[i], Nothing)
    /\ UNCHANGED storeVars

(* One transaction for the row and its sub-texts; the UPDATE may match no  *)
(* row.                                                                    *)
PutWrite(r) ==
    LET i == req[r].intent
        body == req[r].body
    IN
    /\ At(r, "put", "write")
    /\ ~WriteFails(i, body, body.alt)
    /\ rows' = IF Exists(i)
               THEN [rows EXCEPT ![i] = Updated(rows[i], req[r].old, body)] ELSE rows
    /\ Goto(r, "reread")
    /\ UNCHANGED <<points, cache, jobs, born>>

PutWriteFails(r) ==
    /\ At(r, "put", "write")
    /\ "sqlite" \in Faults \/ WriteFails(req[r].intent, req[r].body, req[r].body.alt)
    /\ Fail(r, {}, {})
    /\ UNCHANGED storeVars

PutReread(r) ==
    LET i == req[r].intent IN
    /\ At(r, "put", "reread")
    /\ Exists(i)
    /\ req' = [req EXCEPT ![r].new = rows[i],
                          ![r].pc = IF NeedsReembed(r) THEN "upsert" ELSE "trim"]
    /\ UNCHANGED <<storeVars, history>>

(* "intent vanished mid-update" *)
PutVanished(r) ==
    /\ At(r, "put", "reread")
    /\ ~Exists(req[r].intent)
    /\ Fail(r, {}, {})
    /\ UNCHANGED storeVars

PutUpsert(r) ==
    LET i == req[r].intent IN
    /\ At(r, "put", "upsert")
    /\ points' = [points EXCEPT ![i] = Upserted(points[i], req[r].new)]
    /\ Goto(r, "trim")
    /\ UNCHANGED <<rows, cache, jobs, born>>

(* delete_vectors for the slots the row no longer has; then, after no      *)
(* upsert, the payload, which is not modelled.                             *)
PutTrim(r) ==
    LET i == req[r].intent IN
    /\ At(r, "put", "trim")
    /\ points' = IF points[i] = Nothing THEN points
                 ELSE [points EXCEPT ![i] = Trimmed(points[i], r)]
    /\ Goto(r, "done")
    /\ UNCHANGED <<rows, cache, jobs, born>>

(* Any of these awaits raises, before or after its effect. *)
PutRaises(r) ==
    /\ "qdrant" \in Faults
    /\ At(r, "put", "upsert") \/ At(r, "put", "trim") \/ At(r, "put", "done")
    /\ Goto(r, "restore")
    /\ UNCHANGED storeVars

(* Mutant: the snapshot is written back as an insert-or-replace. *)
PutRestoreReplaces(r) ==
    LET i == req[r].intent IN
    /\ At(r, "put", "restore")
    /\ rows' = [rows EXCEPT ![i] = req[r].old]
    /\ Answer(r, {}, {})
    /\ failed' = [failed EXCEPT ![i] = @ \cup {req[r].body}]
    /\ UNCHANGED <<points, cache, jobs, born>>

(* The snapshot is written back, its sub-texts only if the body had them;  *)
(* the vectors stay as they are.                                           *)
PutRestore(r) ==
    LET i == req[r].intent
        old == req[r].old
        alt == IF req[r].body.alt = NoChange THEN rows[i].alt ELSE old.alt
    IN
    /\ At(r, "put", "restore")
    /\ rows' = IF Exists(i) THEN [rows EXCEPT ![i] = [old EXCEPT !.alt = alt]] ELSE rows
    /\ Answer(r, {}, {})
    /\ failed' = [failed EXCEPT ![i] = @ \cup {req[r].body}]
    /\ UNCHANGED <<points, cache, jobs, born>>

(* The transaction that restores raises: logged as "rollback-failed". *)
PutRestoreFails(r) ==
    LET i == req[r].intent IN
    /\ At(r, "put", "restore")
    /\ "sqlite" \in Faults
    /\ Fail(r, {i}, {i})
    /\ UNCHANGED storeVars

JobsAfterPut(r) ==
    LET i == req[r].intent
        row == req[r].new
    IN
    IF EnabledChanged(r)
    THEN IF row.enabled THEN Registered(jobs, i, row) ELSE Unregistered(jobs, i)
    ELSE IF row.enabled /\ (TextChanged(r) \/ ScheduleChanged(r))
    THEN Registered(jobs, i, row) ELSE jobs

(* The last stretch without an await: the cache entry, the job, the        *)
(* answer.  A job that cannot be registered is logged.                     *)
PutSyncs(r, entries) ==
    /\ cache' = entries
    /\ \/ jobs' = JobsAfterPut(r) /\ Succeed(r)
       \/ /\ "scheduler" \in Faults /\ ~IsEvent(req[r].new.schedule)
          /\ UNCHANGED jobs
          /\ Fail(r, {req[r].intent}, {})
    /\ UNCHANGED <<rows, points, born>>

(* clear_intent, awaited when the vectors of an enabled intent changed,    *)
(* only prolongs the time a PUT spends at "done"; match_seen is not        *)
(* modelled.                                                               *)
PutReturns(r) ==
    LET i == req[r].intent
        row == req[r].new
    IN
    /\ At(r, "put", "done")
    /\ \/ ~IsEvent(row.schedule) /\ PutSyncs(r, cache)
       \/ /\ IsEvent(row.schedule) /\ ~row.enabled
          /\ PutSyncs(r, [cache EXCEPT ![i] = Nothing])
       \/ /\ IsEvent(row.schedule) /\ row.enabled /\ NeedsReembed(r)
          /\ PutSyncs(r, [cache EXCEPT ![i] = Entry(Vectors(row), row)])
       \/ /\ IsEvent(row.schedule) /\ row.enabled /\ ~NeedsReembed(r)
          /\ cache[i] # Nothing
          /\ PutSyncs(r, [cache EXCEPT ![i] = Entry(Trimmed(cache[i], r), row)])

(* No entry to reuse: the vectors are fetched from Qdrant. *)
PutMissesCache(r) ==
    LET row == req[r].new IN
    /\ At(r, "put", "done")
    /\ IsEvent(row.schedule) /\ row.enabled /\ ~NeedsReembed(r)
    /\ cache[req[r].intent] = Nothing
    /\ Goto(r, "retrieve")
    /\ UNCHANGED storeVars

PutRetrieved(r) ==
    LET i == req[r].intent IN
    /\ At(r, "put", "retrieve")
    /\ points[i] # Nothing
    /\ PutSyncs(r, [cache EXCEPT ![i] = Entry(Trimmed(points[i], r), req[r].new)])

(* clear_intent or the retrieval raises, or there is no point: the row is  *)
(* new, cache and job are not.                                             *)
PutStops(r) ==
    LET i == req[r].intent IN
    /\ \/ At(r, "put", "done") /\ NeedsReembed(r) /\ req[r].new.enabled /\ "sqlite" \in Faults
       \/ At(r, "put", "retrieve") /\ (points[i] = Nothing \/ "qdrant" \in Faults)
    /\ Fail(r, {i}, {})
    /\ UNCHANGED storeVars

-----------------------------------------------------------------------------
(* DELETE *)

(* Job and cache entry first. *)
Delete(r, i) ==
    /\ Exists(i)
    /\ Launch(r, "delete", "point", i, Nothing, rows[i], Nothing)
    /\ jobs' = Unregistered(jobs, i)
    /\ cache' = IF IsEvent(rows[i].schedule) THEN [cache EXCEPT ![i] = Nothing] ELSE cache
    /\ UNCHANGED <<rows, points, born>>

DeletePoint(r) ==
    /\ At(r, "delete", "point")
    /\ points' = [points EXCEPT ![req[r].intent] = Nothing]
    /\ Goto(r, "row")
    /\ UNCHANGED <<rows, cache, jobs, born>>

DeleteRow(r) ==
    /\ At(r, "delete", "row")
    /\ rows' = [rows EXCEPT ![req[r].intent] = Nothing]
    /\ Succeed(r)
    /\ UNCHANGED <<points, cache, jobs, born>>

(* The row stays visible, without matcher. *)
DeleteRaises(r) ==
    LET i == req[r].intent IN
    /\ \/ "qdrant" \in Faults /\ (At(r, "delete", "point") \/ At(r, "delete", "row"))
       \/ "sqlite" \in Faults /\ At(r, "delete", "row")
    /\ Fail(r, {i}, {i})
    /\ UNCHANGED storeVars

RequestStep(r) ==
    \/ PostUpsert(r) \/ PostReturns(r) \/ PostRaises(r) \/ PostJobRaises(r)
    \/ \E removed \in BOOLEAN : PostUnpoint(r, removed) \/ PostUnrow(r, removed)
    \/ PutWrite(r) \/ PutWriteFails(r) \/ PutReread(r) \/ PutVanished(r)
    \/ PutUpsert(r) \/ PutTrim(r) \/ PutRaises(r) \/ PutRestore(r) \/ PutRestoreFails(r)
    \/ PutReturns(r) \/ PutMissesCache(r) \/ PutRetrieved(r) \/ PutStops(r)
    \/ DeletePoint(r) \/ DeleteRow(r) \/ DeleteRaises(r)

RequestArrives(r) ==
    \E i \in Intents :
        \/ r \in Editors /\ \E body \in NewBodies : Post(r, i, body)
        \/ r \in Editors /\ \E body \in Changes : Put(r, i, body)
        \/ Delete(r, i)
=============================================================================
