----------------------------- MODULE EventBuffer ------------------------------
(***************************************************************************)
(* matcher/event_buffer for one event-driven intent: the embedder tick     *)
(* scores its batch, absorb() merges the hits into event_pending, flush()  *)
(* drains the table and pushes the matches, from the tick or from the 30 s *)
(* sweeper.  Both work on the shared connection without _WRITE_LOCK, so    *)
(* every await is a point where the other, or a block under transaction(), *)
(* runs in between.                                                        *)
(*                                                                         *)
(* A group is identified by its story, the class of titles that are        *)
(* SequenceMatcher-similar; in the code the similarity need not be         *)
(* transitive.  The table maps a story to the members of its group, {} for *)
(* no row.                                                                 *)
(***************************************************************************)
EXTENDS Connection, Naturals, FiniteSets

CONSTANTS
    Stories,        \* a partition of the articles: those that merge
    TriggerCount,   \* schedule.trigger_count
    MaxOffers,      \* bound: how often the tick offers an article
    Others          \* "sweeper", "foreign", "rollback", "raise", "crash": what happens
                    \* next to the tick

Articles == UNION Stories

ASSUME StoriesAssumption ==
    /\ {} \notin Stories
    /\ \A s, t \in Stories : s # t => s \cap t = {}
ASSUME BoundsAssumption == TriggerCount \in Nat \ {0} /\ MaxOffers \in Nat

VARIABLES
    queued,     \* rows of pending_articles
    tick,       \* event_match_batch and the delete_pending after it
    flushing,   \* flush() in the tick and in the sweeper
    foreign,    \* a block under transaction() has its transaction open
    offers,     \* history: how often the tick offered an article to absorb
    pushed,     \* history: how often on_match got an article, up to one too many
    givenUp     \* history: hits dropped with a warning, or by a stop before on_match

vars == <<inTx, working, durable, queued, tick, flushing, foreign, offers, pushed, givenUp>>

Empty == [s \in Stories |-> {}]
Groups(table) == {s \in Stories : table[s] # {}}
Members(table) == UNION {table[s] : s \in Stories}

(* hits: the batch's matches; left: those still to be merged;              *)
(* existing: the groups absorb knows of.                                   *)
IdleTick == [pc |-> "idle", hits |-> {}, left |-> {}, existing |-> Empty]
IdleFlush == [pc |-> "idle", rows |-> Empty]

Flushers == {"tick", "sweeper"}

TypeOK ==
    /\ inTx \in BOOLEAN /\ foreign \in BOOLEAN
    /\ working \in [Stories -> SUBSET Articles] /\ durable \in [Stories -> SUBSET Articles]
    /\ \A s \in Stories : working[s] \subseteq s /\ durable[s] \subseteq s
    /\ queued \subseteq Articles
    /\ tick \in [pc : {"idle", "begin", "select", "merge", "undo", "flush", "dequeue"},
                 hits : SUBSET Articles, left : SUBSET Articles,
                 existing : [Stories -> SUBSET Articles]]
    /\ flushing \in [Flushers -> [pc : {"idle", "delete", "commit", "push"},
                                  rows : [Stories -> SUBSET Articles]]]
    /\ offers \in [Articles -> 0..MaxOffers]
    /\ pushed \in [Articles -> 0..MaxOffers + 1]
    /\ givenUp \subseteq Articles

Init ==
    /\ ConnInit(Empty)
    /\ queued = Articles
    /\ tick = IdleTick
    /\ flushing = [f \in Flushers |-> IdleFlush]
    /\ foreign = FALSE
    /\ offers = [a \in Articles |-> 0]
    /\ pushed = [a \in Articles |-> 0]
    /\ givenUp = {}

TickGoes(from, to) == tick.pc = from /\ tick' = [tick EXCEPT !.pc = to]

-----------------------------------------------------------------------------
(* The embedder tick *)

(* Mutant: delete_pending is called before absorb. *)
OfferDequeues(hits) ==
    /\ tick.pc = "idle"
    /\ hits \subseteq queued /\ hits # {}
    /\ \A a \in hits : offers[a] < MaxOffers
    /\ tick' = [IdleTick EXCEPT !.pc = "begin", !.hits = hits, !.left = hits]
    /\ offers' = [a \in Articles |-> IF a \in hits THEN offers[a] + 1 ELSE offers[a]]
    /\ queued' = queued \ hits
    /\ UNCHANGED <<connVars, flushing, foreign, pushed, givenUp>>

(* _event_match_batch_inner found hits among the points just upserted. *)
Offer(hits) ==
    /\ tick.pc = "idle"
    /\ hits \subseteq queued /\ hits # {}
    /\ \A a \in hits : offers[a] < MaxOffers
    /\ tick' = [IdleTick EXCEPT !.pc = "begin", !.hits = hits, !.left = hits]
    /\ offers' = [a \in Articles |-> IF a \in hits THEN offers[a] + 1 ELSE offers[a]]
    /\ UNCHANGED <<connVars, queued, flushing, foreign, pushed, givenUp>>

AbsorbBegin ==
    /\ TickGoes("begin", "select")
    /\ BeginStatement
    /\ UNCHANGED <<queued, flushing, foreign, offers, pushed, givenUp>>

(* BEGIN IMMEDIATE raises outside the try; event_match_batch swallows it. *)
AbsorbRefused ==
    /\ TickGoes("begin", "dequeue")
    /\ inTx
    /\ givenUp' = givenUp \cup tick.hits
    /\ UNCHANGED <<connVars, queued, flushing, foreign, offers, pushed>>

AbsorbSelect ==
    /\ tick.pc = "select"
    /\ tick' = [tick EXCEPT !.pc = "merge", !.existing = working]
    /\ UNCHANGED <<connVars, queued, flushing, foreign, offers, pushed, givenUp>>

(* Mutant: a new row gets the whole batch as its members. *)
MergeWholeBatch(s) ==
    /\ tick.pc = "merge"
    /\ tick.left \cap s # {}
    /\ DmlStatement([working EXCEPT ![s] = @ \cup tick.left])
    /\ tick' = [tick EXCEPT !.left = @ \ s, !.existing[s] = @ \cup tick.left]
    /\ UNCHANGED <<queued, flushing, foreign, offers, pushed, givenUp>>

(* One group of the batch: INSERT a new row, or UPDATE the row absorb read *)
(* when there are members it does not have.  An UPDATE finds no row when   *)
(* the row has been deleted since.                                         *)
Merge(s) ==
    LET group == tick.left \cap s
        known == tick.existing[s]
    IN
    /\ tick.pc = "merge"
    /\ group # {}
    /\ \/ /\ known = {}
          /\ DmlStatement([working EXCEPT ![s] = group])
       \/ /\ known # {} /\ group \subseteq known
          /\ UNCHANGED connVars
       \/ /\ known # {} /\ ~(group \subseteq known)
          /\ DmlStatement([working EXCEPT ![s] = IF @ = {} THEN {} ELSE known \cup group])
    /\ tick' = [tick EXCEPT !.left = @ \ s, !.existing[s] = known \cup group]
    /\ UNCHANGED <<queued, flushing, foreign, offers, pushed, givenUp>>

(* commit(), then should_flush from the groups absorb knows of. *)
AbsorbCommit ==
    /\ tick.pc = "merge" /\ tick.left = {}
    /\ CommitWork
    /\ IF Cardinality(Groups(tick.existing)) >= TriggerCount
       THEN /\ tick' = [tick EXCEPT !.pc = "flush"]
            /\ flushing' = [flushing EXCEPT !["tick"].pc = "delete"]
       ELSE /\ tick' = [tick EXCEPT !.pc = "dequeue"]
            /\ UNCHANGED flushing
    /\ UNCHANGED <<queued, foreign, offers, pushed, givenUp>>

AbsorbRaises ==
    /\ "raise" \in Others
    /\ tick.pc \in {"select", "merge"}
    /\ tick' = [tick EXCEPT !.pc = "undo"]
    /\ UNCHANGED <<connVars, queued, flushing, foreign, offers, pushed, givenUp>>

AbsorbUndo ==
    /\ TickGoes("undo", "dequeue")
    /\ RollbackWork
    /\ givenUp' = givenUp \cup tick.hits
    /\ UNCHANGED <<queued, flushing, foreign, offers, pushed>>

(* delete_pending, under transaction(): one step. *)
Dequeue ==
    /\ tick.pc = "dequeue"
    /\ ~inTx /\ ~foreign
    /\ queued' = queued \ tick.hits
    /\ tick' = IdleTick
    /\ UNCHANGED <<connVars, flushing, foreign, offers, pushed, givenUp>>

(* "post-upsert delete failed (will retry next tick)" *)
DequeueFails ==
    /\ tick.pc = "dequeue"
    /\ tick' = IdleTick
    /\ UNCHANGED <<connVars, queued, flushing, foreign, offers, pushed, givenUp>>

-----------------------------------------------------------------------------
(* flush, for f in Flushers *)

(* Leave flush: the tick goes on to delete_pending, the sweeper is done. *)
FlushEnds(f) ==
    /\ flushing' = [flushing EXCEPT ![f] = IdleFlush]
    /\ tick' = IF f = "tick" THEN [tick EXCEPT !.pc = "dequeue"] ELSE tick

(* Mutant: only intents that reached their trigger count are swept. *)
SweepAtTrigger ==
    /\ "sweeper" \in Others
    /\ flushing["sweeper"].pc = "idle"
    /\ Cardinality(Groups(working)) >= TriggerCount
    /\ flushing' = [flushing EXCEPT !["sweeper"].pc = "delete"]
    /\ UNCHANGED <<connVars, queued, tick, foreign, offers, pushed, givenUp>>

(* sweep_timed_out: the oldest group has waited max_wait_seconds, which    *)
(* may be any moment.                                                      *)
Sweep ==
    /\ "sweeper" \in Others
    /\ flushing["sweeper"].pc = "idle"
    /\ Groups(working) # {}
    /\ flushing' = [flushing EXCEPT !["sweeper"].pc = "delete"]
    /\ UNCHANGED <<connVars, queued, tick, foreign, offers, pushed, givenUp>>

(* Mutant: SELECT, then DELETE after the push. *)
FlushSelects(f) ==
    /\ flushing[f].pc = "delete"
    /\ flushing' = [flushing EXCEPT ![f] = [pc |-> "commit", rows |-> working]]
    /\ UNCHANGED <<connVars, queued, tick, foreign, offers, pushed, givenUp>>

(* DELETE .. RETURNING members_json *)
FlushDelete(f) ==
    /\ flushing[f].pc = "delete"
    /\ flushing' = [flushing EXCEPT ![f] = [pc |-> "commit", rows |-> working]]
    /\ DmlStatement(Empty)
    /\ UNCHANGED <<queued, tick, foreign, offers, pushed, givenUp>>

(* Mutant: nothing to commit when no row came back. *)
FlushCommitRows(f) ==
    /\ flushing[f].pc = "commit"
    /\ IF Groups(flushing[f].rows) = {}
       THEN FlushEnds(f) /\ UNCHANGED connVars
       ELSE CommitWork /\ flushing' = [flushing EXCEPT ![f].pc = "push"] /\ UNCHANGED tick
    /\ UNCHANGED <<queued, foreign, offers, pushed, givenUp>>

(* Always commit; return when no row came back. *)
FlushCommit(f) ==
    /\ flushing[f].pc = "commit"
    /\ CommitWork
    /\ IF Groups(flushing[f].rows) = {}
       THEN FlushEnds(f)
       ELSE flushing' = [flushing EXCEPT ![f].pc = "push"] /\ UNCHANGED tick
    /\ UNCHANGED <<queued, foreign, offers, pushed, givenUp>>

(* await on_match(matches) *)
Push(f) ==
    LET members == Members(flushing[f].rows) IN
    /\ flushing[f].pc = "push"
    /\ pushed' = [a \in Articles |-> IF a \in members /\ pushed[a] <= offers[a]
                                      THEN pushed[a] + 1 ELSE pushed[a]]
    /\ FlushEnds(f)
    /\ UNCHANGED <<connVars, queued, foreign, offers, givenUp>>

(* The DELETE raises, or on_match does: logged, not retried.  A commit()   *)
(* that raises is left out: it leaves the transaction open.                *)
FlushRaises(f) ==
    /\ "raise" \in Others
    /\ flushing[f].pc \in {"delete", "push"}
    /\ FlushEnds(f)
    /\ givenUp' = givenUp \cup Members(flushing[f].rows)
    /\ UNCHANGED <<connVars, queued, foreign, offers, pushed>>

-----------------------------------------------------------------------------
(* Around them *)

(* A block under transaction(), on other tables of the same connection.    *)
ForeignBegin ==
    /\ "foreign" \in Others
    /\ ~foreign /\ foreign' = TRUE
    /\ BeginStatement
    /\ UNCHANGED <<queued, tick, flushing, offers, pushed, givenUp>>

(* Its COMMIT raises when somebody else ended the transaction. *)
ForeignCommits ==
    /\ foreign /\ foreign' = FALSE
    /\ inTx
    /\ CommitWork
    /\ UNCHANGED <<queued, tick, flushing, offers, pushed, givenUp>>

ForeignRaises ==
    /\ ~inTx \/ "rollback" \in Others
    /\ foreign /\ foreign' = FALSE
    /\ RollbackWork
    /\ UNCHANGED <<queued, tick, flushing, offers, pushed, givenUp>>

(* The process stops and starts again. *)
Crash ==
    /\ "crash" \in Others
    /\ RollbackWork
    /\ tick' = IdleTick
    /\ flushing' = [f \in Flushers |-> IdleFlush]
    /\ foreign' = FALSE
    /\ givenUp' = givenUp \cup ((UNION {Members(flushing[f].rows) : f \in Flushers})
                               \ Members(durable))
    /\ UNCHANGED <<queued, offers, pushed>>

TickStep ==
    \/ AbsorbBegin \/ AbsorbRefused \/ AbsorbSelect \/ (\E s \in Stories : Merge(s))
    \/ AbsorbCommit \/ AbsorbRaises \/ AbsorbUndo \/ Dequeue \/ DequeueFails

FlushStep(f) == FlushDelete(f) \/ FlushCommit(f) \/ Push(f)

Next ==
    \/ \E hits \in SUBSET Articles : Offer(hits)
    \/ TickStep
    \/ Sweep
    \/ \E f \in Flushers : FlushStep(f) \/ FlushRaises(f)
    \/ ForeignBegin \/ ForeignCommits \/ ForeignRaises
    \/ Crash

Spec == Init /\ [][Next]_vars

(* The sweeper is a 30 s interval job and the statements of a running      *)
(* flush end; nothing is assumed of the embedder tick.                     *)
Fairness == WF_vars(Sweep) /\ \A f \in Flushers : WF_vars(FlushStep(f))

FairSpec == Spec /\ Fairness

-----------------------------------------------------------------------------
InBuffer(a) == a \in Members(working)
InFlush(a) == \E f \in Flushers : a \in Members(flushing[f].rows)

(* A hit the tick offered and then dequeued does not vanish without a      *)
(* word: it is in the buffer, in a flush on its way to on_match, pushed,   *)
(* or was given up with a warning (event_buffer.absorb: "Uses BEGIN        *)
(* IMMEDIATE so the SELECT + N UPDATEs/INSERTs are atomic").               *)
NoHitLost ==
    \A a \in Articles \ queued : InBuffer(a) \/ InFlush(a) \/ pushed[a] > 0 \/ a \in givenUp

(* on_match gets an article once for each time the tick offered it, not    *)
(* once more because two flushes, or a flush and a merge, met              *)
(* (event_buffer.flush: "Atomic read-and-delete: no SELECT/DELETE race     *)
(* window", "the buffer is already cleared").                              *)
NoDoublePush == \A a \in Articles : pushed[a] <= offers[a]

(* When nobody is inside a block, a merge or a flush, no transaction is    *)
(* open: the next BEGIN is accepted and the next restart loses nothing     *)
(* (event_buffer.flush: "Always commit - a zero-row DELETE still opens an  *)
(* implicit transaction").                                                 *)
NoIdleTransaction ==
    tick.pc = "idle" /\ ~foreign /\ (\A f \in Flushers : flushing[f].pc = "idle")
        => ~inTx /\ working = durable

(* A buffered hit is pushed even when the trigger count is never reached   *)
(* (event_buffer.sweep_timed_out).                                         *)
HitsArePushed == \A a \in Articles : InBuffer(a) ~> pushed[a] > 0
=============================================================================
