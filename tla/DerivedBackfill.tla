---------------------------- MODULE DerivedBackfill ----------------------------
(***************************************************************************)
(* The job that gives the older points of news_current their derived       *)
(* fields (maintenance/derived_backfill), round by round, beside the TTL   *)
(* that deletes points, and the number it publishes: as long as that is    *)
(* not 0, api/news_search warns that filters on these fields miss points.  *)
(*                                                                         *)
(* New points come with the fields (embedder/scheduler._to_point).  Some   *)
(* points are refusing: Qdrant accepts the write and the field stays       *)
(* absent.  A batch that raises writes some of its points or none.         *)
(***************************************************************************)
EXTENDS Integers, FiniteSets, FiniteSetsExt

CONSTANTS
    Points,         \* bound: points without the fields at first, by id
    ScrollBatch,    \* _SCROLL_BATCH
    StallRounds,    \* _STALL_ROUNDS_BEFORE_QUARANTINE
    QuarantineCap   \* _QUARANTINE_CAP

ASSUME PointsAssumption == Points \subseteq Int /\ IsFiniteSet(Points)
ASSUME BatchAssumption == {ScrollBatch, StallRounds, QuarantineCap} \subseteq Nat \ {0}

VARIABLES
    missing,        \* points without body_len
    refusing,       \* points that never get it
    stage,          \* of the round: "idle" | "loop" | "write" | "recount" | "publish"
    backlog,        \* queue, what the round believes is left
    batch,          \* the points it has read
    quarantined,
    exhausted,
    stalled,        \* _stalled_ids
    streak,         \* _stall_rounds
    flag            \* news_derived_backfill_pending; -1 for None

backfillVars == <<missing, refusing, stage, backlog, batch, quarantined, exhausted, stalled,
                  streak, flag>>

Unknown == -1
Depth == 0..Cardinality(Points)

BackfillTypeOK ==
    /\ missing \subseteq Points /\ refusing \subseteq Points
    /\ stage \in {"idle", "loop", "write", "recount", "publish"}
    /\ backlog \in Depth /\ flag \in Depth \cup {Unknown}
    /\ batch \subseteq Points /\ stalled \subseteq Points
    /\ quarantined \subseteq Points /\ exhausted \in BOOLEAN
    /\ streak \in 0..(StallRounds - 1)

BackfillInit ==
    /\ missing = Points /\ refusing \in SUBSET Points
    /\ stage = "idle" /\ backlog = 0 /\ batch = {}
    /\ quarantined = {} /\ exhausted = FALSE
    /\ stalled = {} /\ streak = 0
    /\ flag = Unknown

(* count_pending_derived without the quarantined points, and with them. *)
Pending == Cardinality(missing \ quarantined)
RawPending == Cardinality(missing)

(* scroll: by id. *)
FirstOf(points, n) ==
    {p \in points : Cardinality({q \in points : q < p}) < n}

-----------------------------------------------------------------------------
(* A round counts first, unless the job has given up. *)
StartRound ==
    /\ stage = "idle" /\ ~exhausted
    /\ stage' = IF Pending = 0 THEN "publish" ELSE "loop"
    /\ backlog' = Pending
    /\ UNCHANGED <<missing, refusing, batch, quarantined, exhausted, stalled, streak, flag>>

CountFails ==
    /\ stage = "idle" /\ ~exhausted
    /\ flag' = Unknown
    /\ UNCHANGED <<missing, refusing, stage, backlog, batch, quarantined, exhausted, stalled,
                   streak>>

(* The next batch; none when the count was too high. *)
Scroll ==
    LET found == FirstOf(missing \ quarantined, ScrollBatch) IN
    /\ stage = "loop"
    /\ batch' = found
    /\ IF found = {} THEN stage' = "publish" /\ backlog' = 0
       ELSE stage' = "write" /\ UNCHANGED backlog
    /\ UNCHANGED <<missing, refusing, quarantined, exhausted, stalled, streak, flag>>

(* note_stall: the third round in a row that ends at the same batch sets   *)
(* it aside.                                                               *)
NoteStall ==
    LET rounds == IF batch = stalled THEN streak + 1 ELSE 1 IN
    IF rounds >= StallRounds
    THEN /\ quarantined' = quarantined \cup batch
         /\ exhausted' = (exhausted \/ Cardinality(quarantined') >= QuarantineCap)
         /\ stalled' = {} /\ streak' = 0
    ELSE /\ stalled' = batch /\ streak' = rounds
         /\ UNCHANGED <<quarantined, exhausted>>

(* The budget of the round is used up, or a call raised. *)
(* Mutant: such a round counts as stalled. *)
RoundStopsStalled(written) ==
    /\ stage \in {"loop", "write", "recount"}
    /\ written \subseteq batch \ refusing /\ (stage # "write" => written = {})
    /\ missing' = missing \ written
    /\ NoteStall
    /\ stage' = "publish" /\ batch' = {}
    /\ UNCHANGED <<refusing, backlog, flag>>
RoundStops(written) ==
    /\ stage \in {"loop", "write", "recount"}
    /\ written \subseteq batch \ refusing /\ (stage # "write" => written = {})
    /\ missing' = missing \ written
    /\ stage' = "publish" /\ batch' = {}
    /\ UNCHANGED <<refusing, backlog, quarantined, exhausted, stalled, streak, flag>>

WriteBatch ==
    /\ stage = "write"
    /\ missing' = missing \ (batch \ refusing)
    /\ stage' = "recount"
    /\ UNCHANGED <<refusing, backlog, batch, quarantined, exhausted, stalled, streak, flag>>

Recount ==
    /\ stage = "recount"
    /\ IF Pending >= backlog
       THEN NoteStall /\ stage' = "publish"
       ELSE /\ stalled' = {} /\ streak' = 0
            /\ stage' = IF Pending = 0 THEN "publish" ELSE "loop"
            /\ UNCHANGED <<quarantined, exhausted>>
    /\ backlog' = Pending /\ batch' = {}
    /\ UNCHANGED <<missing, refusing, flag>>

(* The points set aside count as well. *)
PublishedDepth == IF quarantined = {} THEN backlog ELSE RawPending

Publish(counted) ==
    /\ stage = "publish"
    /\ flag' = IF counted \/ quarantined = {} THEN PublishedDepth ELSE Unknown
    /\ stage' = "idle" /\ backlog' = 0 /\ batch' = {}
    /\ UNCHANGED <<missing, refusing, quarantined, exhausted, stalled, streak>>

-----------------------------------------------------------------------------
TtlDeletes(p) ==
    /\ p \in missing
    /\ missing' = missing \ {p}
    /\ UNCHANGED <<refusing, stage, backlog, batch, quarantined, exhausted, stalled, streak,
                   flag>>

(* A start forgets BackfillState, and publishes a first count if it can. *)
StartProcess(counted) ==
    /\ stage' = "idle" /\ backlog' = 0 /\ batch' = {}
    /\ quarantined' = {} /\ exhausted' = FALSE /\ stalled' = {} /\ streak' = 0
    /\ flag' = IF counted THEN RawPending ELSE Unknown
    /\ UNCHANGED <<missing, refusing>>

BackfillNext ==
    \/ StartRound \/ CountFails \/ Scroll \/ WriteBatch \/ Recount
    \/ \E written \in SUBSET batch : RoundStops(written)
    \/ \E counted \in BOOLEAN : Publish(counted) \/ StartProcess(counted)
    \/ \E p \in Points : TtlDeletes(p)

BackfillSpec == BackfillInit /\ [][BackfillNext]_backfillVars

-----------------------------------------------------------------------------
(* No search goes unwarned while a point lacks its fields, whatever        *)
(* raised, was set aside, deleted or forgotten by a restart; and only      *)
(* points that refuse the fields are set aside, not those behind them in   *)
(* the batch or those whose write raised (derived_backfill "hiding them    *)
(* from the flag would hide a real under-recall", note_stall).             *)
NoSilentUnderRecall ==
    /\ flag = 0 => missing = {}
    /\ quarantined \subseteq refusing
=============================================================================
