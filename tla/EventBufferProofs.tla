-------------------------- MODULE EventBufferProofs ---------------------------
(***************************************************************************)
(* The event buffer for any number of stories, articles and offers.  Its   *)
(* transactions are never left open, whatever happens next to the tick.    *)
(* That no hit is pushed twice or lost takes premises, and each is a place *)
(* where the code gives no more: see the theorems.                         *)
(***************************************************************************)
EXTENDS EventBuffer, Integers, TLAPS

InAbsorb == tick.pc \in {"select", "merge", "undo"}

(* An open transaction is somebody's: absorb's, a flush's before its       *)
(* commit, or the foreign block's.  Outside one nothing is unsaved.        *)
TxInv ==
    /\ ~inTx => working = durable
    /\ inTx => InAbsorb \/ foreign \/ \E f \in Flushers : flushing[f].pc = "commit"
    /\ flushing["tick"].pc # "idle" => tick.pc = "flush"

(* What the tick still has to merge and what absorb knows of are of their  *)
(* stories, and the history counters cannot run ahead.                     *)
Shape ==
    /\ tick.left \subseteq tick.hits
    /\ \A s \in Stories : tick.existing[s] \subseteq s
    /\ \A f \in Flushers, s \in Stories : flushing[f].rows[s] \subseteq s
    /\ \A f \in Flushers : flushing[f].pc \in {"idle", "delete"} => flushing[f].rows = Empty
    /\ \A a \in Articles : pushed[a] <= offers[a] + 1

Inv == TypeOK /\ Shape /\ TxInv

(* The copies of an article that can still become a push, counted with     *)
(* those that have; and those that would come back after a crash.          *)
Copy(a, set) == IF a \in set THEN 1 ELSE 0
FlushCopy(a, f) == Copy(a, Members(flushing[f].rows))
CommittedCopy(a, f) == IF flushing[f].pc = "push" THEN FlushCopy(a, f) ELSE 0

Total(a) ==
    pushed[a] + Copy(a, Members(working)) + Copy(a, tick.left) + FlushCopy(a, "tick")
        + FlushCopy(a, "sweeper")
Recoverable(a) ==
    pushed[a] + Copy(a, Members(durable)) + CommittedCopy(a, "tick") + CommittedCopy(a, "sweeper")

CountInv ==
    /\ tick.pc # "undo"
    /\ \A a \in Articles : Total(a) <= offers[a] /\ Recoverable(a) <= offers[a]

(* Absorb is the only writer of rows: what it read is still there, or a    *)
(* flush has taken the whole row.                                          *)
SnapshotInv ==
    tick.pc = "merge" => \A s \in Stories : working[s] \in {tick.existing[s], {}}

Held(a) == InBuffer(a) \/ InFlush(a) \/ pushed[a] > 0 \/ a \in givenUp

HitInv ==
    /\ tick.hits \subseteq queued
    /\ Members(working) \subseteq Members(durable) \cup (IF InAbsorb THEN tick.hits ELSE {})
    /\ tick.pc \in {"begin", "select"} => tick.left = tick.hits
    /\ tick.pc = "merge" => \A a \in Members(tick.existing) : Held(a)
    /\ tick.pc \in {"merge", "flush"} => \A a \in tick.hits \ tick.left : Held(a)
    /\ tick.pc = "flush" => tick.left = {}
    /\ tick.pc = "dequeue" => \A a \in tick.hits : Held(a)
    /\ NoHitLost

-----------------------------------------------------------------------------
(* Types and transactions *)

TickPcs == {"idle", "begin", "select", "merge", "undo", "flush", "dequeue"}
FlushPcs == {"idle", "delete", "commit", "push"}
Tables == [Stories -> SUBSET Articles]
TickType == [pc : TickPcs, hits : SUBSET Articles, left : SUBSET Articles, existing : Tables]
FlushType == [pc : FlushPcs, rows : Tables]

LEMMA InvInit == Init => Inv
<1> SUFFICES ASSUME Init PROVE Inv
    OBVIOUS
<1> USE DEF Init, ConnInit
<1>1. Empty \in Tables /\ \A s \in Stories : Empty[s] = {}
    BY DEF Empty, Tables
<1>2. tick \in TickType
    BY <1>1 DEF IdleTick, TickType, TickPcs
<1>3. flushing \in [Flushers -> FlushType]
    BY <1>1 DEF IdleFlush, FlushType, FlushPcs
<1>4. TypeOK
    <2>1. offers \in [Articles -> 0..MaxOffers] /\ pushed \in [Articles -> 0..MaxOffers + 1]
        BY BoundsAssumption
    <2> HIDE DEF Init
    <2>2. inTx = FALSE /\ foreign = FALSE /\ working = Empty /\ durable = Empty /\ givenUp = {}
          /\ queued = Articles
        BY DEF Init
    <2> QED BY <1>1, <1>2, <1>3, <2>1, <2>2 DEF TypeOK, TickType, FlushType, TickPcs, FlushPcs, Tables
<1>5. Shape
    BY <1>1 DEF Shape, IdleTick, IdleFlush
<1>6. TxInv
    BY DEF TxInv, IdleTick, IdleFlush, Flushers
<1> QED BY <1>4, <1>5, <1>6 DEF Inv

LEMMA TypeParts ==
    TypeOK => /\ tick \in TickType /\ tick.pc \in TickPcs
              /\ tick.hits \subseteq Articles /\ tick.left \subseteq Articles
              /\ tick.existing \in Tables /\ working \in Tables /\ durable \in Tables
              /\ \A f \in Flushers : /\ flushing[f] \in FlushType
                                     /\ flushing[f].pc \in FlushPcs
                                     /\ flushing[f].rows \in Tables
BY DEF TypeOK, TickType, TickPcs, FlushType, FlushPcs, Tables

LEMMA EmptyTable == Empty \in Tables /\ \A s \in Stories : Empty[s] = {}
BY DEF Empty, Tables

LEMMA TickRecords ==
    /\ IdleTick \in TickType /\ IdleTick.pc = "idle" /\ IdleTick.hits = {} /\ IdleTick.left = {}
    /\ IdleTick.existing = Empty
    /\ \A t \in TickType, to \in TickPcs :
          LET new == [t EXCEPT !.pc = to]
          IN  /\ new \in TickType /\ new.pc = to /\ new.hits = t.hits /\ new.left = t.left
              /\ new.existing = t.existing
BY EmptyTable DEF IdleTick, TickType, TickPcs

-----------------------------------------------------------------------------
(* What each action does to the records *)

TickMovesTo(to) ==
    /\ tick' \in TickType /\ tick'.pc = to
    /\ tick'.hits = tick.hits /\ tick'.left = tick.left /\ tick'.existing = tick.existing

TickResets ==
    /\ tick' \in TickType /\ tick'.pc = "idle" /\ tick'.hits = {} /\ tick'.left = {}
    /\ tick'.existing = Empty

FlushMoves(f, to, rows) ==
    /\ flushing' \in [Flushers -> FlushType]
    /\ flushing'[f].pc = to /\ flushing'[f].rows = rows
    /\ \A g \in Flushers \ {f} : flushing'[g] = flushing[g]

LEMMA PcMoves ==
    ASSUME TypeOK, NEW to \in TickPcs, tick' = [tick EXCEPT !.pc = to]
    PROVE  TickMovesTo(to)
BY TypeParts, TickRecords DEF TickMovesTo

LEMMA TickMoves ==
    ASSUME TypeOK
    PROVE  /\ AbsorbBegin => tick.pc = "begin" /\ TickMovesTo("select")
           /\ AbsorbRefused => tick.pc = "begin" /\ TickMovesTo("dequeue")
           /\ AbsorbRaises => tick.pc \in {"select", "merge"} /\ TickMovesTo("undo")
           /\ AbsorbUndo => tick.pc = "undo" /\ TickMovesTo("dequeue")
           /\ Dequeue \/ DequeueFails => tick.pc = "dequeue" /\ TickResets
<1> USE TypeParts, TickRecords
<1>1. \A to \in TickPcs : tick' = [tick EXCEPT !.pc = to] => TickMovesTo(to)
    BY PcMoves
<1>2. tick' = IdleTick => TickResets
    BY DEF TickResets
<1>3. {"select", "dequeue", "undo"} \subseteq TickPcs
    BY DEF TickPcs
<1> QED BY <1>1, <1>2, <1>3
        DEF AbsorbBegin, AbsorbRefused, AbsorbRaises, AbsorbUndo, Dequeue, DequeueFails, TickGoes

LEMMA OfferMoves ==
    ASSUME TypeOK, NEW hits \in SUBSET Articles, Offer(hits)
    PROVE  /\ tick.pc = "idle" /\ tick' \in TickType /\ tick'.pc = "begin"
           /\ tick'.hits = hits /\ tick'.left = hits /\ tick'.existing = Empty
           /\ offers' \in [Articles -> 0..MaxOffers]
           /\ \A a \in Articles : offers'[a] = IF a \in hits THEN offers[a] + 1 ELSE offers[a]
<1>1. tick' = [pc |-> "begin", hits |-> hits, left |-> hits, existing |-> Empty]
    BY DEF Offer, IdleTick
<1>2. \A a \in Articles : offers[a] \in 0..MaxOffers /\ (a \in hits => offers[a] + 1 \in 0..MaxOffers)
    BY BoundsAssumption DEF TypeOK, Offer
<1>3. offers' = [a \in Articles |-> IF a \in hits THEN offers[a] + 1 ELSE offers[a]]
    BY DEF Offer
<1>4. tick' \in TickType
    BY <1>1, EmptyTable DEF TickType, TickPcs
<1>5. tick'.pc = "begin" /\ tick'.hits = hits /\ tick'.left = hits /\ tick'.existing = Empty
    BY <1>1
<1>6. \A a \in Articles : offers'[a] = IF a \in hits THEN offers[a] + 1 ELSE offers[a]
    BY <1>3
<1>7. offers' \in [Articles -> 0..MaxOffers]
    BY <1>2, <1>3
<1> QED BY <1>4, <1>5, <1>6, <1>7 DEF Offer

LEMMA SelectMoves ==
    ASSUME TypeOK, AbsorbSelect
    PROVE  /\ tick.pc = "select" /\ tick' \in TickType /\ tick'.pc = "merge"
           /\ tick'.hits = tick.hits /\ tick'.left = tick.left /\ tick'.existing = working
BY TypeParts DEF AbsorbSelect, TickType, TickPcs

(* A merge, with the row it leaves. *)
MergedRow(s) ==
    IF tick.existing[s] = {} THEN tick.left \cap s
    ELSE IF tick.left \cap s \subseteq tick.existing[s] \/ working[s] = {} THEN working[s]
    ELSE tick.existing[s] \cup (tick.left \cap s)

LEMMA MergeMoves ==
    ASSUME TypeOK, NEW s \in Stories, Merge(s)
    PROVE  /\ tick.pc = "merge" /\ tick' \in TickType /\ tick'.pc = "merge"
           /\ tick'.hits = tick.hits /\ tick'.left = tick.left \ s
           /\ tick'.existing = [tick.existing EXCEPT ![s] = @ \cup (tick.left \cap s)]
           /\ working' = [working EXCEPT ![s] = MergedRow(s)] /\ durable' = durable
           /\ inTx' = TRUE \/ UNCHANGED connVars
<1>1. /\ tick.pc = "merge"
      /\ tick' = [tick EXCEPT !.left = @ \ s, !.existing[s] = tick.existing[s] \cup (tick.left \cap s)]
    BY DEF Merge
<1>2. tick.existing \in Tables /\ tick.left \subseteq Articles /\ tick \in TickType
    BY TypeParts
<1>3. [tick.existing EXCEPT ![s] = @ \cup (tick.left \cap s)] \in Tables
    BY <1>2 DEF Tables
<1>4. tick' \in TickType /\ tick'.pc = "merge" /\ tick'.hits = tick.hits
      /\ tick'.left = tick.left \ s
      /\ tick'.existing = [tick.existing EXCEPT ![s] = @ \cup (tick.left \cap s)]
    BY <1>1, <1>2, <1>3 DEF TickType, TickPcs
<1>5. working \in Tables
    BY TypeParts
<1>6. working' = [working EXCEPT ![s] = MergedRow(s)] /\ durable' = durable
      /\ (inTx' = TRUE \/ UNCHANGED connVars)
    <2>1. CASE tick.existing[s] = {}
        BY <2>1, <1>5 DEF Merge, MergedRow, DmlStatement, connVars, Tables
    <2>2. CASE tick.existing[s] # {} /\ tick.left \cap s \subseteq tick.existing[s]
        BY <2>2, <1>5 DEF Merge, MergedRow, DmlStatement, connVars, Tables
    <2>3. CASE tick.existing[s] # {} /\ ~(tick.left \cap s \subseteq tick.existing[s])
        <3>1. DmlStatement([working EXCEPT ![s] = IF @ = {} THEN {}
                                                  ELSE tick.existing[s] \cup (tick.left \cap s)])
            BY <2>3 DEF Merge
        <3>2. MergedRow(s) = IF working[s] = {} THEN {}
                             ELSE tick.existing[s] \cup (tick.left \cap s)
            BY <2>3 DEF MergedRow
        <3> QED BY <3>1, <3>2 DEF DmlStatement
    <2> QED BY <2>1, <2>2, <2>3
<1> QED BY <1>1, <1>4, <1>6

LEMMA CommitMoves ==
    ASSUME TypeOK, AbsorbCommit
    PROVE  /\ tick.pc = "merge" /\ tick.left = {}
           /\ \/ /\ TickMovesTo("flush")
                 /\ FlushMoves("tick", "delete", flushing["tick"].rows)
              \/ TickMovesTo("dequeue") /\ UNCHANGED flushing
<1>1. CASE Cardinality(Groups(tick.existing)) >= TriggerCount
    <2>1. TickMovesTo("flush")
        BY <1>1, PcMoves DEF AbsorbCommit, TickPcs
    <2>2. flushing \in [Flushers -> FlushType] /\ "tick" \in Flushers
        BY DEF TypeOK, FlushType, FlushPcs, Tables, Flushers
    <2>3. flushing' = [flushing EXCEPT !["tick"] = [@ EXCEPT !.pc = "delete"]]
        BY <1>1 DEF AbsorbCommit
    <2>4. FlushMoves("tick", "delete", flushing["tick"].rows)
        BY <2>2, <2>3 DEF FlushMoves, FlushType, FlushPcs
    <2> QED BY <2>1, <2>4 DEF AbsorbCommit
<1>2. CASE ~(Cardinality(Groups(tick.existing)) >= TriggerCount)
    BY <1>2, PcMoves DEF AbsorbCommit, TickPcs
<1> QED BY <1>1, <1>2

(* A flush ends: its rows are forgotten, and a flush of the tick's lets    *)
(* the tick go on.                                                         *)
EndMoves(f) ==
    /\ FlushMoves(f, "idle", Empty)
    /\ f = "tick" => TickMovesTo("dequeue")
    /\ f # "tick" => UNCHANGED tick

LEMMA FlushEndsMoves ==
    ASSUME TypeOK, NEW f \in Flushers, FlushEnds(f)
    PROVE  EndMoves(f)
<1>1. flushing \in [Flushers -> FlushType] /\ IdleFlush \in FlushType
    BY EmptyTable DEF TypeOK, FlushType, FlushPcs, Tables, IdleFlush
<1>2. FlushMoves(f, "idle", Empty)
    BY <1>1 DEF FlushEnds, FlushMoves, IdleFlush
<1>3. f = "tick" => TickMovesTo("dequeue")
    BY PcMoves DEF FlushEnds, TickPcs
<1> QED BY <1>2, <1>3 DEF EndMoves, FlushEnds

LEMMA FlushStepMoves ==
    ASSUME TypeOK, NEW f \in Flushers
    PROVE  /\ FlushDelete(f) => flushing[f].pc = "delete" /\ FlushMoves(f, "commit", working)
           /\ FlushCommit(f) =>
                 /\ flushing[f].pc = "commit"
                 /\ \/ /\ EndMoves(f)
                       /\ \A s \in Stories : flushing[f].rows[s] = {}
                    \/ FlushMoves(f, "push", flushing[f].rows) /\ UNCHANGED tick
           /\ Push(f) => flushing[f].pc = "push" /\ EndMoves(f)
           /\ FlushRaises(f) => flushing[f].pc \in {"delete", "push"} /\ EndMoves(f)
<1>1. flushing \in [Flushers -> FlushType] /\ working \in Tables
    BY TypeParts DEF TypeOK, FlushType, FlushPcs, Tables
<1>2. FlushDelete(f) => flushing[f].pc = "delete" /\ FlushMoves(f, "commit", working)
    BY <1>1 DEF FlushDelete, FlushMoves, FlushType, FlushPcs
<1>3. ASSUME FlushCommit(f)
      PROVE  \/ /\ EndMoves(f)
                /\ \A s \in Stories : flushing[f].rows[s] = {}
             \/ FlushMoves(f, "push", flushing[f].rows) /\ UNCHANGED tick
    <2>1. CASE Groups(flushing[f].rows) = {}
        BY <1>3, <2>1, FlushEndsMoves DEF FlushCommit, Groups
    <2>2. CASE Groups(flushing[f].rows) # {}
        <3>1. flushing' = [flushing EXCEPT ![f] = [@ EXCEPT !.pc = "push"]] /\ UNCHANGED tick
            BY <1>3, <2>2 DEF FlushCommit
        <3> QED BY <1>1, <3>1 DEF FlushMoves, FlushType, FlushPcs
    <2> QED BY <2>1, <2>2
<1> QED BY <1>2, <1>3, FlushEndsMoves DEF FlushCommit, Push, FlushRaises

LEMMA SweepMoves ==
    ASSUME TypeOK, Sweep
    PROVE  /\ flushing["sweeper"].pc = "idle"
           /\ FlushMoves("sweeper", "delete", flushing["sweeper"].rows)
<1>1. flushing \in [Flushers -> FlushType] /\ "sweeper" \in Flushers
    BY DEF TypeOK, FlushType, FlushPcs, Tables, Flushers
<1>2. flushing' = [flushing EXCEPT !["sweeper"] = [@ EXCEPT !.pc = "delete"]]
    BY DEF Sweep
<1> QED BY <1>1, <1>2 DEF Sweep, FlushMoves, FlushType, FlushPcs

LEMMA CrashMoves ==
    ASSUME TypeOK, Crash
    PROVE  /\ TickResets
           /\ flushing' \in [Flushers -> FlushType]
           /\ \A f \in Flushers : flushing'[f].pc = "idle" /\ flushing'[f].rows = Empty
<1>1. IdleFlush \in FlushType /\ IdleFlush.pc = "idle" /\ IdleFlush.rows = Empty
    BY EmptyTable DEF IdleFlush, FlushType, FlushPcs
<1> QED BY <1>1, TickRecords DEF Crash, TickResets

-----------------------------------------------------------------------------
(* Inv is inductive *)

InStories(table) == table \in Tables /\ \A s \in Stories : table[s] \subseteq s

(* The parts of Inv about the tick, the flushes, the tables and the histories. *)
TickFits == tick \in TickType /\ tick.left \subseteq tick.hits /\ InStories(tick.existing)

FlushFits ==
    /\ flushing \in [Flushers -> FlushType]
    /\ \A f \in Flushers : /\ InStories(flushing[f].rows)
                           /\ flushing[f].pc \in {"idle", "delete"} => flushing[f].rows = Empty

TablesFit == InStories(working) /\ InStories(durable)

HistoryFits ==
    /\ queued \subseteq Articles /\ givenUp \subseteq Articles
    /\ offers \in [Articles -> 0..MaxOffers]
    /\ pushed \in [Articles -> 0..MaxOffers + 1]
    /\ \A a \in Articles : pushed[a] <= offers[a] + 1

FlagsFit == inTx \in BOOLEAN /\ foreign \in BOOLEAN

LEMMA InvParts ==
    Inv <=> /\ TickFits /\ FlushFits /\ TablesFit /\ HistoryFits /\ TxInv
            /\ FlagsFit
<1>1. ASSUME Inv PROVE TickFits /\ FlushFits /\ TablesFit /\ HistoryFits
    <2>1. flushing \in [Flushers -> FlushType]
        BY <1>1 DEF Inv, TypeOK, FlushType, FlushPcs, Tables
    <2> QED BY <1>1, <2>1, TypeParts
            DEF Inv, TypeOK, Shape, TickFits, FlushFits, TablesFit, HistoryFits, InStories
<1>2. ASSUME TickFits, FlushFits, TablesFit, HistoryFits, FlagsFit
      PROVE  TypeOK /\ Shape
    <2>1. TypeOK
        BY <1>2 DEF TickFits, FlushFits, TablesFit, HistoryFits, InStories, TypeOK, TickType,
                    TickPcs, FlushType, FlushPcs, Tables, FlagsFit
    <2>2. Shape
        BY <1>2 DEF TickFits, FlushFits, HistoryFits, InStories, Shape
    <2> QED BY <2>1, <2>2
<1> QED BY <1>1, <1>2 DEF Inv, TypeOK, FlagsFit

LEMMA InvPartsPrimed ==
    Inv' <=> /\ TickFits' /\ FlushFits' /\ TablesFit' /\ HistoryFits' /\ TxInv'
             /\ FlagsFit'
BY InvParts, PTL

LEMMA EmptyInStories == InStories(Empty)
BY EmptyTable DEF InStories

LEMMA TickStepInv ==
    ASSUME Inv,
           \/ AbsorbBegin \/ AbsorbRefused \/ AbsorbSelect \/ AbsorbRaises \/ AbsorbUndo
           \/ Dequeue \/ DequeueFails \/ \E hits \in SUBSET Articles : Offer(hits)
    PROVE  Inv'
<1>t. /\ TypeOK /\ TickFits /\ FlushFits /\ TablesFit /\ HistoryFits /\ TxInv
      /\ FlagsFit /\ tick.hits \subseteq Articles
    BY InvParts, TypeParts DEF Inv
<1>1. ASSUME NEW hits \in SUBSET Articles, Offer(hits) PROVE Inv'
    <2>1. TickFits'
        BY <1>1, <1>t, OfferMoves, EmptyInStories DEF TickFits
    <2>2. HistoryFits'
        <3>1. \A a \in Articles : offers[a] \in Int /\ pushed[a] \in Int
            BY <1>t, BoundsAssumption DEF HistoryFits
        <3>2. \A a \in Articles : offers[a] <= offers'[a] /\ offers'[a] \in Int
            BY <1>1, <1>t, <3>1, OfferMoves
        <3>3. offers' \in [Articles -> 0..MaxOffers]
            BY <1>1, <1>t, OfferMoves
        <3>4. UNCHANGED <<queued, pushed, givenUp>>
            BY <1>1 DEF Offer
        <3> QED BY <1>t, <3>1, <3>2, <3>3, <3>4 DEF HistoryFits
    <2>3. FlushFits' /\ TablesFit' /\ TxInv' /\ FlagsFit'
        BY <1>1, <1>t, OfferMoves
        DEF Offer, FlushFits, TablesFit, FlagsFit, TxInv, connVars, InAbsorb, InStories
    <2> QED BY <2>1, <2>2, <2>3, InvPartsPrimed
<1>2. CASE AbsorbBegin \/ AbsorbRefused \/ AbsorbRaises \/ AbsorbUndo \/ Dequeue \/ DequeueFails
    <2>1. TickFits'
        BY <1>2, <1>t, TickMoves, EmptyInStories DEF TickFits, TickMovesTo, TickResets
    <2>2. HistoryFits' /\ FlushFits'
        BY <1>2, <1>t DEF HistoryFits, FlushFits, InStories, AbsorbBegin, AbsorbRefused,
                          AbsorbRaises, AbsorbUndo, Dequeue, DequeueFails
    <2>3. TablesFit' /\ FlagsFit'
        BY <1>2, <1>t DEF TablesFit, FlagsFit, AbsorbBegin, AbsorbRefused, AbsorbRaises, AbsorbUndo, Dequeue,
                          DequeueFails, BeginStatement, RollbackWork, connVars
    <2>4. TxInv'
        <3>0. flushing' = flushing /\ foreign \in BOOLEAN
            BY <1>2, <1>t DEF AbsorbBegin, AbsorbRefused, AbsorbRaises, AbsorbUndo, Dequeue,
                              DequeueFails, FlagsFit
        <3>1. CASE AbsorbBegin
            BY <3>0, <3>1, <1>t, TickMoves DEF AbsorbBegin, TxInv, InAbsorb, TickMovesTo, BeginStatement
        <3>2. CASE AbsorbUndo
            BY <3>0, <3>2, <1>t, TickMoves DEF AbsorbUndo, TxInv, TickMovesTo, RollbackWork
        <3>3. CASE AbsorbRaises
            BY <3>0, <3>3, <1>t, TickMoves DEF AbsorbRaises, TxInv, InAbsorb, TickMovesTo, connVars
        <3>4. CASE AbsorbRefused \/ Dequeue \/ DequeueFails
            <4>1. tick.pc \in {"begin", "dequeue"} /\ UNCHANGED <<connVars, foreign>>
                BY <3>4, <1>t, TickMoves DEF AbsorbRefused, Dequeue, DequeueFails
            <4> QED BY <3>0, <4>1, <1>t DEF TxInv, InAbsorb, connVars
        <3> QED BY <1>2, <3>1, <3>2, <3>3, <3>4
    <2> QED BY <2>1, <2>2, <2>3, <2>4, InvPartsPrimed
<1>3. CASE AbsorbSelect
    <2>1. TickFits'
        BY <1>3, <1>t, SelectMoves DEF TickFits, TablesFit
    <2>2. HistoryFits' /\ FlushFits' /\ TablesFit' /\ TxInv' /\ FlagsFit'
        BY <1>3, <1>t, SelectMoves
        DEF AbsorbSelect, HistoryFits, FlushFits, TablesFit, FlagsFit, TxInv, InAbsorb, InStories, connVars
    <2> QED BY <2>1, <2>2, InvPartsPrimed
<1> QED BY <1>1, <1>2, <1>3

LEMMA MergeInv ==
    ASSUME Inv, AbsorbCommit \/ \E s \in Stories : Merge(s)
    PROVE  Inv'
<1>t. /\ TypeOK /\ TickFits /\ FlushFits /\ TablesFit /\ HistoryFits /\ TxInv
      /\ FlagsFit
    BY InvParts DEF Inv
<1>1. ASSUME NEW s \in Stories, Merge(s) PROVE Inv'
    <2>0. s \subseteq Articles /\ MergedRow(s) \subseteq s
        BY <1>t DEF Articles, MergedRow, TickFits, TablesFit, InStories
    <2>a. \A table, row : InStories(table) /\ row \subseteq s => InStories([table EXCEPT ![s] = row])
        BY <2>0 DEF InStories, Tables
    <2>1. TickFits'
        <3>1. tick.existing[s] \cup (tick.left \cap s) \subseteq s
            BY <1>t DEF TickFits, InStories
        <3>2. InStories([tick.existing EXCEPT ![s] = tick.existing[s] \cup (tick.left \cap s)])
            BY <1>t, <2>a, <3>1 DEF TickFits
        <3> QED BY <1>1, <1>t, <3>2, MergeMoves DEF TickFits
    <2>2. TablesFit'
        <3>1. InStories([working EXCEPT ![s] = MergedRow(s)])
            BY <1>t, <2>0, <2>a DEF TablesFit
        <3> QED BY <1>1, <1>t, <3>1, MergeMoves DEF TablesFit
    <2>3. HistoryFits' /\ FlushFits'
        BY <1>1, <1>t DEF Merge, HistoryFits, FlushFits, InStories
    <2>4. TxInv' /\ FlagsFit'
        BY <1>1, <1>t, MergeMoves DEF TxInv, FlagsFit, InAbsorb, Merge, connVars
    <2> QED BY <2>1, <2>2, <2>3, <2>4, InvPartsPrimed
<1>2. CASE AbsorbCommit
    <2>1. TickFits'
        BY <1>2, <1>t, CommitMoves DEF TickFits, TickMovesTo
    <2>2. FlushFits'
        <3>1. flushing["tick"].pc = "idle" /\ "tick" \in Flushers
            BY <1>2, <1>t, CommitMoves DEF TxInv, Flushers
        <3> QED BY <1>2, <1>t, <3>1, CommitMoves DEF FlushFits, FlushMoves, InStories
    <2>3. HistoryFits' /\ TablesFit' /\ FlagsFit'
        BY <1>2, <1>t DEF AbsorbCommit, CommitWork, HistoryFits, TablesFit, FlagsFit
    <2>4. TxInv'
        <3>1. inTx' = FALSE /\ working' = durable'
            BY <1>2 DEF AbsorbCommit, CommitWork
        <3>2. flushing["tick"].pc = "idle"
            BY <1>2, <1>t, CommitMoves DEF TxInv
        <3> QED BY <1>2, <1>t, <3>1, <3>2, CommitMoves DEF TxInv, TickMovesTo
    <2> QED BY <2>1, <2>2, <2>3, <2>4, InvPartsPrimed
<1> QED BY <1>1, <1>2

LEMMA FlushInv ==
    ASSUME Inv, NEW f \in Flushers, FlushStep(f) \/ FlushRaises(f) \/ Sweep
    PROVE  Inv'
<1>t. /\ TypeOK /\ TickFits /\ FlushFits /\ TablesFit /\ HistoryFits /\ TxInv
      /\ FlagsFit /\ tick.pc \in TickPcs
    BY InvParts, TypeParts DEF Inv
<1>c. CASE Sweep
    <2>1. FlushFits'
        <3>1. "sweeper" \in Flushers
            BY DEF Flushers
        <3> QED BY <1>c, <1>t, <3>1, SweepMoves DEF FlushFits, FlushMoves
    <2>2. TickFits' /\ TablesFit' /\ HistoryFits' /\ FlagsFit'
        BY <1>c, <1>t DEF Sweep, TickFits, TablesFit, HistoryFits, FlagsFit, connVars
    <2>3. TxInv'
        BY <1>c, <1>t, SweepMoves DEF Sweep, FlushMoves, TxInv, InAbsorb, connVars, Flushers
    <2> QED BY <2>1, <2>2, <2>3, InvPartsPrimed
<1>1. CASE FlushDelete(f)
    <2>0. flushing[f].pc = "delete" /\ FlushMoves(f, "commit", working)
        BY <1>1, <1>t, FlushStepMoves
    <2>1. FlushFits'
        BY <1>t, <2>0 DEF FlushFits, FlushMoves, TablesFit
    <2>2. TickFits' /\ TablesFit' /\ HistoryFits' /\ FlagsFit'
        BY <1>1, <1>t, EmptyInStories
        DEF FlushDelete, DmlStatement, TickFits, TablesFit, HistoryFits, FlagsFit
    <2>3. TxInv'
        BY <1>1, <1>t, <2>0 DEF FlushDelete, DmlStatement, FlushMoves, TxInv
    <2> QED BY <2>1, <2>2, <2>3, InvPartsPrimed
<1>2. CASE FlushCommit(f)
    <2>0. /\ flushing[f].pc = "commit"
          /\ EndMoves(f) \/ (FlushMoves(f, "push", flushing[f].rows) /\ UNCHANGED tick)
          /\ inTx' = FALSE /\ working' = working /\ durable' = working
          /\ UNCHANGED <<queued, foreign, offers, pushed, givenUp>>
        BY <1>2, <1>t, FlushStepMoves DEF FlushCommit, CommitWork
    <2>1. FlushFits'
        BY <1>t, <2>0, EmptyInStories DEF FlushFits, FlushMoves, EndMoves
    <2>2. TickFits' /\ TablesFit' /\ HistoryFits' /\ FlagsFit'
        BY <1>t, <2>0 DEF EndMoves, TickMovesTo, TickFits, TablesFit, HistoryFits, FlagsFit
    <2>3. TxInv'
        BY <1>t, <2>0 DEF EndMoves, FlushMoves, TickMovesTo, TxInv, Flushers
    <2> QED BY <2>1, <2>2, <2>3, InvPartsPrimed
<1>3. CASE Push(f) \/ FlushRaises(f)
    <2>0. /\ flushing[f].pc \in {"delete", "push"} /\ EndMoves(f)
          /\ UNCHANGED <<inTx, working, durable, queued, foreign, offers>>
        BY <1>3, <1>t, FlushStepMoves DEF Push, FlushRaises, connVars
    <2>1. FlushFits'
        BY <1>t, <2>0, EmptyInStories DEF FlushFits, FlushMoves, EndMoves
    <2>2. TickFits' /\ TablesFit' /\ FlagsFit'
        BY <1>t, <2>0 DEF EndMoves, TickMovesTo, TickFits, TablesFit, FlagsFit
    <2>3. HistoryFits'
        <3>1. \A s \in Stories : flushing[f].rows[s] \subseteq Articles
            BY <1>t DEF FlushFits, InStories, Tables
        <3>2. CASE FlushRaises(f)
            BY <1>t, <2>0, <3>1, <3>2 DEF FlushRaises, HistoryFits, Members
        <3>3. CASE Push(f)
            <4>1. \A a \in Articles : /\ pushed[a] \in 0..MaxOffers + 1 /\ offers[a] \in 0..MaxOffers
                                      /\ pushed[a] <= offers[a] + 1
                BY <1>t DEF HistoryFits
            <4>2. \A a \in Articles :
                     pushed'[a] = IF a \in Members(flushing[f].rows) /\ pushed[a] <= offers[a]
                                  THEN pushed[a] + 1 ELSE pushed[a]
                BY <3>3 DEF Push
            <4>3. \A a \in Articles : pushed'[a] \in 0..MaxOffers + 1 /\ pushed'[a] <= offers[a] + 1
                BY <4>1, <4>2, BoundsAssumption
            <4>4. pushed' \in [Articles -> 0..MaxOffers + 1]
                BY <3>3, <4>3 DEF Push
            <4>5. givenUp' = givenUp
                BY <3>3 DEF Push
            <4> QED BY <1>t, <2>0, <4>3, <4>4, <4>5 DEF HistoryFits
        <3> QED BY <1>3, <3>2, <3>3
    <2>4. TxInv'
        <3>1. f # "tick" => f = "sweeper"
            BY DEF Flushers
        <3>2. f = "tick" => tick.pc = "flush"
            BY <1>t, <2>0 DEF TxInv
        <3>3. \A g \in Flushers : flushing[g].pc = "commit" => g # f /\ flushing'[g].pc = "commit"
            BY <2>0 DEF EndMoves, FlushMoves
        <3>4. InAbsorb => InAbsorb'
            BY <2>0, <3>2 DEF EndMoves, InAbsorb
        <3>5. flushing'["tick"].pc # "idle" => tick'.pc = "flush"
            BY <1>t, <2>0, <3>1 DEF EndMoves, FlushMoves, TxInv, Flushers
        <3> QED BY <1>t, <2>0, <3>3, <3>4, <3>5 DEF TxInv
    <2> QED BY <2>1, <2>2, <2>3, <2>4, InvPartsPrimed
<1> QED BY <1>c, <1>1, <1>2, <1>3 DEF FlushStep

LEMMA AroundInv ==
    ASSUME Inv, ForeignBegin \/ ForeignCommits \/ ForeignRaises \/ Crash
    PROVE  Inv'
<1>t. /\ TypeOK /\ TickFits /\ FlushFits /\ TablesFit /\ HistoryFits /\ TxInv /\ FlagsFit
    BY InvParts DEF Inv
<1>1. CASE ForeignBegin \/ ForeignCommits \/ ForeignRaises
    <2>1. UNCHANGED <<queued, tick, flushing, offers, pushed, givenUp>>
        BY <1>1 DEF ForeignBegin, ForeignCommits, ForeignRaises
    <2>2. TickFits' /\ FlushFits' /\ HistoryFits'
        BY <1>t, <2>1 DEF TickFits, FlushFits, HistoryFits, InStories
    <2>3. TablesFit' /\ FlagsFit'
        BY <1>t, <1>1 DEF ForeignBegin, ForeignCommits, ForeignRaises, BeginStatement, CommitWork,
                          RollbackWork, TablesFit, FlagsFit
    <2>4. TxInv'
        BY <1>t, <1>1, <2>1 DEF ForeignBegin, ForeignCommits, ForeignRaises, BeginStatement,
                                CommitWork, RollbackWork, TxInv, InAbsorb
    <2> QED BY <2>2, <2>3, <2>4, InvPartsPrimed
<1>2. CASE Crash
    <2>1. TickFits'
        BY <1>2, <1>t, CrashMoves, EmptyInStories DEF TickFits, TickResets
    <2>2. FlushFits'
        BY <1>2, <1>t, CrashMoves, EmptyInStories DEF FlushFits
    <2>3. TablesFit' /\ FlagsFit'
        BY <1>2, <1>t DEF Crash, RollbackWork, TablesFit, FlagsFit
    <2>4. HistoryFits'
        <3>1. UNION {Members(flushing[f].rows) : f \in Flushers} \subseteq Articles
            BY <1>t DEF FlushFits, InStories, Tables, Members
        <3> QED BY <1>2, <1>t, <3>1 DEF Crash, HistoryFits
    <2>5. TxInv'
        BY <1>2, <1>t, CrashMoves DEF Crash, RollbackWork, TxInv, Flushers
    <2> QED BY <2>1, <2>2, <2>3, <2>4, <2>5, InvPartsPrimed
<1> QED BY <1>1, <1>2

LEMMA InvStep == Inv /\ [Next]_vars => Inv'
<1> SUFFICES ASSUME Inv, [Next]_vars PROVE Inv'
    OBVIOUS
<1>1. CASE UNCHANGED vars
    <2>1. TickFits' /\ FlushFits' /\ TablesFit' /\ HistoryFits' /\ TxInv' /\ FlagsFit'
        BY <1>1, InvParts DEF vars, TickFits, FlushFits, TablesFit, HistoryFits, TxInv, FlagsFit,
                              InStories, InAbsorb
    <2> QED BY <2>1, InvPartsPrimed
<1>2. CASE Next
    <2>1. "sweeper" \in Flushers
        BY DEF Flushers
    <2> QED BY <1>2, <2>1, TickStepInv, MergeInv, FlushInv, AroundInv DEF Next, TickStep
<1> QED BY <1>1, <1>2

LEMMA InvAlways == Spec => []Inv
BY InvInit, InvStep, PTL DEF Spec

(* The variables keep their types, the rows of a story hold its articles.  *)
THEOREM TypesHold == Spec => []TypeOK
<1>1. Inv => TypeOK
    BY DEF Inv
<1> QED BY <1>1, InvAlways, PTL

(* Whatever raises, commits in between or stops the process, no open       *)
(* transaction is left behind (event_buffer.absorb, flush).                *)
THEOREM NothingLeftOpen == Spec => []NoIdleTransaction
<1>1. Inv => NoIdleTransaction
    BY DEF Inv, TxInv, InAbsorb, NoIdleTransaction
<1> QED BY <1>1, InvAlways, PTL

-----------------------------------------------------------------------------
(* Nothing is pushed twice *)

NoRollback == "raise" \notin Others /\ "rollback" \notin Others

LEMMA MembersOf ==
    ASSUME NEW table, InStories(table), NEW s \in Stories, NEW a \in s
    PROVE  a \in Members(table) <=> a \in table[s]
BY StoriesAssumption DEF Members, InStories

LEMMA NoMembers == Members(Empty) = {}
BY EmptyTable DEF Members

LEMMA CountTypes ==
    ASSUME HistoryFits, NEW a \in Articles
    PROVE  /\ pushed[a] \in Nat /\ offers[a] \in Nat
           /\ \A set : Copy(a, set) \in {0, 1}
           /\ \A f \in Flushers : FlushCopy(a, f) \in {0, 1} /\ CommittedCopy(a, f) \in {0, 1}
           /\ \A f \in Flushers : CommittedCopy(a, f) <= FlushCopy(a, f)
BY BoundsAssumption DEF HistoryFits, Copy, FlushCopy, CommittedCopy

LEMMA CountInit == Init => CountInv /\ SnapshotInv
<1> SUFFICES ASSUME Init PROVE CountInv /\ SnapshotInv
    OBVIOUS
<1>1. /\ working = Empty /\ durable = Empty /\ tick.left = {} /\ tick.pc = "idle"
      /\ \A f \in Flushers : flushing[f].rows = Empty /\ flushing[f].pc = "idle"
      /\ \A a \in Articles : pushed[a] = 0 /\ offers[a] = 0
    BY DEF Init, ConnInit, IdleTick, IdleFlush
<1>2. \A a \in Articles : Total(a) = 0 /\ Recoverable(a) = 0
    BY <1>1, NoMembers DEF Total, Recoverable, Copy, FlushCopy, CommittedCopy, Flushers
<1> QED BY <1>1, <1>2 DEF CountInv, SnapshotInv

(* The tick's steps other than the merge only forget what is left to do;   *)
(* the offer counts what it adds.                                          *)
LEMMA TickStepCounts ==
    ASSUME NoRollback, Inv, Inv', CountInv, SnapshotInv,
           \/ AbsorbBegin \/ AbsorbRefused \/ AbsorbSelect \/ AbsorbRaises \/ AbsorbUndo
           \/ Dequeue \/ DequeueFails \/ \E hits \in SUBSET Articles : Offer(hits)
    PROVE  CountInv' /\ SnapshotInv'
<1>t. TypeOK /\ HistoryFits /\ HistoryFits'
    BY InvParts, InvPartsPrimed DEF Inv
<1>n. ~AbsorbRaises /\ ~AbsorbUndo
    BY DEF NoRollback, AbsorbRaises, AbsorbUndo, TickGoes, CountInv
<1>0. UNCHANGED <<working, durable, flushing, pushed>>
    BY <1>n DEF Offer, AbsorbBegin, AbsorbRefused, AbsorbSelect, Dequeue, DequeueFails,
                BeginStatement, connVars
<1>1. /\ tick'.pc # "undo"
      /\ tick'.pc = "merge" => tick'.existing = working
      /\ \A a \in Articles : offers'[a] - Copy(a, tick'.left) >= offers[a] - Copy(a, tick.left)
    <2>1. ASSUME NEW hits \in SUBSET Articles, Offer(hits)
          PROVE  /\ tick'.pc = "begin"
                 /\ \A a \in Articles :
                       offers'[a] - Copy(a, tick'.left) >= offers[a] - Copy(a, tick.left)
        BY <1>t, <2>1, OfferMoves, CountTypes DEF Copy
    <2>2. CASE AbsorbBegin \/ AbsorbRefused \/ AbsorbSelect
        <3>1. tick'.left = tick.left /\ offers' = offers
            BY <1>t, <2>2, TickMoves, SelectMoves
            DEF TickMovesTo, AbsorbBegin, AbsorbRefused, AbsorbSelect
        <3>2. tick'.pc # "undo" /\ (tick'.pc = "merge" => tick'.existing = working)
            BY <1>t, <2>2, TickMoves, SelectMoves DEF TickMovesTo
        <3> QED BY <1>t, <3>1, <3>2, CountTypes
    <2>3. CASE Dequeue \/ DequeueFails
        <3>1. tick'.left = {} /\ tick'.pc = "idle" /\ offers' = offers
            BY <1>t, <2>3, TickMoves DEF TickResets, Dequeue, DequeueFails
        <3> QED BY <1>t, <3>1, CountTypes DEF Copy
    <2> QED BY <1>n, <2>1, <2>2, <2>3
<1>2. SnapshotInv'
    BY <1>0, <1>1 DEF SnapshotInv
<1>3. ASSUME NEW a \in Articles PROVE Total(a)' <= offers'[a] /\ Recoverable(a)' <= offers'[a]
    <2>1. /\ Total(a)' - Copy(a, tick'.left) = Total(a) - Copy(a, tick.left)
          /\ Recoverable(a)' = Recoverable(a)
          /\ Total(a) \in Int /\ Recoverable(a) \in Int /\ Total(a)' \in Int
          /\ offers[a] \in Int /\ offers'[a] \in Int
        <3>1. /\ FlushCopy(a, "tick")' = FlushCopy(a, "tick")
              /\ FlushCopy(a, "sweeper")' = FlushCopy(a, "sweeper")
              /\ CommittedCopy(a, "tick")' = CommittedCopy(a, "tick")
              /\ CommittedCopy(a, "sweeper")' = CommittedCopy(a, "sweeper")
              /\ Members(working)' = Members(working) /\ Members(durable)' = Members(durable)
            BY <1>0 DEF FlushCopy, CommittedCopy, Members
        <3>2. "tick" \in Flushers /\ "sweeper" \in Flushers /\ offers'[a] \in Nat
            BY <1>t, BoundsAssumption DEF Flushers, HistoryFits
        <3>3. Copy(a, tick'.left) \in {0, 1}
            BY DEF Copy
        <3> QED BY <1>0, <1>t, <3>1, <3>2, <3>3, CountTypes DEF Total, Recoverable
    <2>2. Copy(a, tick'.left) \in {0, 1} /\ Copy(a, tick.left) \in {0, 1}
        BY DEF Copy
    <2>3. Total(a) <= offers[a] /\ Recoverable(a) <= offers[a]
        BY DEF CountInv
    <2>4. offers'[a] >= offers[a]
        BY <1>t, OfferMoves, CountTypes DEF AbsorbBegin, AbsorbRefused, AbsorbSelect, AbsorbRaises, AbsorbUndo,
                                Dequeue, DequeueFails
    <2> QED BY <1>1, <2>1, <2>2, <2>3, <2>4
<1> QED BY <1>1, <1>2, <1>3 DEF CountInv

(* The rest of the steps: the offers stay, and a copy only moves, to a     *)
(* push at last, or everything unsaved is dropped, or it is all saved.     *)
LEMMA CopiesMove ==
    ASSUME HistoryFits, HistoryFits', CountInv, offers' = offers, NEW a \in Articles,
           NEW moved \in {0, 1},
           pushed'[a] = pushed[a] + moved,
           \/ Copy(a, Members(working')) + Copy(a, tick'.left) + FlushCopy(a, "tick")'
                     + FlushCopy(a, "sweeper")' + moved
                 <= Copy(a, Members(working)) + Copy(a, tick.left) + FlushCopy(a, "tick")
                        + FlushCopy(a, "sweeper")
           \/ /\ moved = 0 /\ working' = durable /\ tick'.left = {}
              /\ FlushCopy(a, "tick")' = 0 /\ FlushCopy(a, "sweeper")' = 0,
           \/ Copy(a, Members(durable')) + CommittedCopy(a, "tick")'
                     + CommittedCopy(a, "sweeper")' + moved
                 <= Copy(a, Members(durable)) + CommittedCopy(a, "tick") + CommittedCopy(a, "sweeper")
           \/ /\ moved = 0 /\ durable' = working
              /\ CommittedCopy(a, "tick")' <= FlushCopy(a, "tick")
              /\ CommittedCopy(a, "sweeper")' <= FlushCopy(a, "sweeper")
    PROVE  Total(a)' <= offers'[a] /\ Recoverable(a)' <= offers'[a]
<1>1. /\ Copy(a, Members(working')) \in {0, 1} /\ Copy(a, Members(durable')) \in {0, 1}
      /\ Copy(a, tick'.left) \in {0, 1}
      /\ FlushCopy(a, "tick")' \in {0, 1} /\ FlushCopy(a, "sweeper")' \in {0, 1}
      /\ CommittedCopy(a, "tick")' \in {0, 1} /\ CommittedCopy(a, "sweeper")' \in {0, 1}
    BY DEF Copy, FlushCopy, CommittedCopy
<1>2. "tick" \in Flushers /\ "sweeper" \in Flushers
    BY DEF Flushers
<1>3. tick'.left = {} => Copy(a, tick'.left) = 0
    BY DEF Copy
<1>4. /\ Total(a)' = pushed'[a] + Copy(a, Members(working')) + Copy(a, tick'.left)
                         + FlushCopy(a, "tick")' + FlushCopy(a, "sweeper")'
      /\ Recoverable(a)' = pushed'[a] + Copy(a, Members(durable')) + CommittedCopy(a, "tick")'
                         + CommittedCopy(a, "sweeper")'
    BY DEF Total, Recoverable, Members
<1>5. /\ Total(a) = pushed[a] + Copy(a, Members(working)) + Copy(a, tick.left)
                         + FlushCopy(a, "tick") + FlushCopy(a, "sweeper")
      /\ Recoverable(a) = pushed[a] + Copy(a, Members(durable)) + CommittedCopy(a, "tick")
                         + CommittedCopy(a, "sweeper")
      /\ Total(a) <= offers[a] /\ Recoverable(a) <= offers[a]
    BY DEF Total, Recoverable, CountInv
<1>6. working' = durable => Copy(a, Members(working')) = Copy(a, Members(durable))
    OBVIOUS
<1>7. durable' = working => Copy(a, Members(durable')) = Copy(a, Members(working))
    OBVIOUS
<1>8. pushed[a] \in Nat /\ offers[a] \in Nat /\ Copy(a, tick.left) \in {0, 1}
      /\ Copy(a, Members(working)) \in {0, 1} /\ Copy(a, Members(durable)) \in {0, 1}
      /\ FlushCopy(a, "tick") \in {0, 1} /\ FlushCopy(a, "sweeper") \in {0, 1}
      /\ CommittedCopy(a, "tick") \in {0, 1} /\ CommittedCopy(a, "sweeper") \in {0, 1}
    BY <1>2, CountTypes
<1>9. Total(a)' <= offers[a]
    BY <1>1, <1>3, <1>4, <1>5, <1>6, <1>8
<1>10. Recoverable(a)' <= offers[a]
    BY <1>1, <1>4, <1>5, <1>7, <1>8
<1> QED BY <1>9, <1>10

LEMMA MergeCounts ==
    ASSUME Inv, Inv', CountInv, SnapshotInv, NEW s \in Stories, Merge(s)
    PROVE  CountInv' /\ SnapshotInv'
<1>t. TypeOK /\ TickFits /\ TablesFit /\ TablesFit' /\ HistoryFits /\ HistoryFits'
    BY InvParts, InvPartsPrimed DEF Inv
<1>0. /\ tick.pc = "merge" /\ tick'.pc = "merge" /\ tick'.left = tick.left \ s
      /\ tick'.existing = [tick.existing EXCEPT ![s] = @ \cup (tick.left \cap s)]
      /\ working' = [working EXCEPT ![s] = MergedRow(s)] /\ durable' = durable
      /\ UNCHANGED <<flushing, offers, pushed>>
    BY <1>t, MergeMoves DEF Merge
<1>1. working[s] \in {tick.existing[s], {}}
    BY <1>0 DEF SnapshotInv
<1>2. /\ MergedRow(s) \in {tick.existing[s] \cup (tick.left \cap s), {}}
      /\ MergedRow(s) \subseteq working[s] \cup (tick.left \cap s)
    BY <1>1 DEF MergedRow
<1>3. /\ \A t \in Stories : working'[t] = IF t = s THEN MergedRow(s) ELSE working[t]
      /\ \A t \in Stories : tick'.existing[t] = IF t = s THEN tick.existing[s] \cup (tick.left \cap s)
                                                ELSE tick.existing[t]
    BY <1>t, <1>0 DEF TickFits, TablesFit, InStories, Tables
<1>4. SnapshotInv'
    BY <1>0, <1>2, <1>3 DEF SnapshotInv
<1>5. ASSUME NEW a \in Articles
      PROVE  Copy(a, Members(working')) + Copy(a, tick'.left)
                 <= Copy(a, Members(working)) + Copy(a, tick.left)
    <2>1. PICK t \in Stories : a \in t
        BY DEF Articles
    <2>2. /\ a \in Members(working) <=> a \in working[t]
          /\ a \in Members(working') <=> a \in working'[t]
        BY <1>t, <2>1, MembersOf DEF TablesFit
    <2>3. a \in s <=> t = s
        BY <2>1, StoriesAssumption
    <2> QED BY <1>0, <1>2, <1>3, <2>1, <2>2, <2>3 DEF Copy
<1>6. ASSUME NEW a \in Articles PROVE Total(a)' <= offers'[a] /\ Recoverable(a)' <= offers'[a]
    <2>1. /\ FlushCopy(a, "tick")' = FlushCopy(a, "tick")
          /\ FlushCopy(a, "sweeper")' = FlushCopy(a, "sweeper")
          /\ CommittedCopy(a, "tick")' = CommittedCopy(a, "tick")
          /\ CommittedCopy(a, "sweeper")' = CommittedCopy(a, "sweeper")
        BY <1>0 DEF FlushCopy, CommittedCopy
    <2>2. "tick" \in Flushers /\ "sweeper" \in Flushers
        BY DEF Flushers
    <2>3. /\ Copy(a, tick'.left) \in {0, 1} /\ Copy(a, Members(working')) \in {0, 1}
          /\ pushed'[a] = pushed[a] + 0 /\ offers' = offers
          /\ Members(durable') = Members(durable)
        BY <1>0, <1>t, CountTypes DEF Copy
    <2>4. /\ Copy(a, tick.left) \in {0, 1} /\ Copy(a, Members(working)) \in {0, 1}
          /\ Copy(a, Members(durable)) \in {0, 1}
          /\ FlushCopy(a, "tick") \in {0, 1} /\ FlushCopy(a, "sweeper") \in {0, 1}
          /\ CommittedCopy(a, "tick") \in {0, 1} /\ CommittedCopy(a, "sweeper") \in {0, 1}
        BY <1>t, <2>2, CountTypes
    <2>5. Copy(a, Members(working')) + Copy(a, tick'.left) + FlushCopy(a, "tick")'
              + FlushCopy(a, "sweeper")' + 0
            <= Copy(a, Members(working)) + Copy(a, tick.left) + FlushCopy(a, "tick")
                   + FlushCopy(a, "sweeper")
        BY <1>5, <2>1, <2>3, <2>4
    <2>6. Copy(a, Members(durable')) + CommittedCopy(a, "tick")' + CommittedCopy(a, "sweeper")' + 0
            <= Copy(a, Members(durable)) + CommittedCopy(a, "tick") + CommittedCopy(a, "sweeper")
        BY <2>1, <2>3, <2>4
    <2> QED BY <1>t, <2>3, <2>5, <2>6, CopiesMove
<1> QED BY <1>0, <1>4, <1>6 DEF CountInv


LEMMA FlushCounts ==
    ASSUME NoRollback, Inv, Inv', CountInv, SnapshotInv, NEW f \in Flushers, FlushStep(f)
    PROVE  CountInv' /\ SnapshotInv'
<1>t. TypeOK /\ FlushFits /\ TablesFit /\ HistoryFits /\ HistoryFits' /\ tick.pc \in TickPcs /\ TxInv
    BY InvParts, InvPartsPrimed, TypeParts DEF Inv
<1> DEFINE g == IF f = "tick" THEN "sweeper" ELSE "tick"
<1>f. g \in Flushers \ {f} /\ {f, g} = {"tick", "sweeper"}
    BY DEF Flushers
<1> HIDE DEF g
(* The two flushes are symmetric. *)
<1>s. ASSUME NEW a \in Articles
      PROVE  /\ FlushCopy(a, "tick") + FlushCopy(a, "sweeper") = FlushCopy(a, f) + FlushCopy(a, g)
             /\ CommittedCopy(a, "tick") + CommittedCopy(a, "sweeper")
                    = CommittedCopy(a, f) + CommittedCopy(a, g)
             /\ FlushCopy(a, "tick")' + FlushCopy(a, "sweeper")'
                    = FlushCopy(a, f)' + FlushCopy(a, g)'
             /\ CommittedCopy(a, "tick")' + CommittedCopy(a, "sweeper")'
                    = CommittedCopy(a, f)' + CommittedCopy(a, g)'
             /\ {FlushCopy(a, f), FlushCopy(a, g), CommittedCopy(a, f), CommittedCopy(a, g),
                 FlushCopy(a, f)', FlushCopy(a, g)', CommittedCopy(a, f)', CommittedCopy(a, g)',
                 Copy(a, Members(working)), Copy(a, Members(durable)), Copy(a, tick.left)}
                     \subseteq {0, 1}
    <2>1. {FlushCopy(a, f), FlushCopy(a, g), CommittedCopy(a, f), CommittedCopy(a, g),
           FlushCopy(a, f)', FlushCopy(a, g)', CommittedCopy(a, f)', CommittedCopy(a, g)',
           Copy(a, Members(working)), Copy(a, Members(durable)), Copy(a, tick.left)}
              \subseteq {0, 1}
        BY DEF FlushCopy, CommittedCopy, Copy
    <2> QED BY <1>f, <2>1
<1>1. CASE FlushDelete(f)
    <2>0. /\ flushing[f].pc = "delete" /\ FlushMoves(f, "commit", working)
          /\ working' = Empty /\ UNCHANGED <<durable, tick, offers, pushed>>
          /\ flushing[f].rows = Empty
        BY <1>1, <1>t, FlushStepMoves DEF FlushDelete, DmlStatement, FlushFits
    <2>1. SnapshotInv'
        BY <2>0, EmptyTable DEF SnapshotInv
    <2>2. ASSUME NEW a \in Articles PROVE Total(a)' <= offers'[a] /\ Recoverable(a)' <= offers'[a]
        <3>1. /\ FlushCopy(a, f) = 0 /\ FlushCopy(a, f)' = Copy(a, Members(working))
              /\ CommittedCopy(a, f)' = 0 /\ CommittedCopy(a, f) = 0
              /\ FlushCopy(a, g)' = FlushCopy(a, g) /\ CommittedCopy(a, g)' = CommittedCopy(a, g)
              /\ Copy(a, Members(working')) = 0
            BY <1>f, <2>0, NoMembers DEF FlushCopy, CommittedCopy, FlushMoves, Copy
        <3>2. pushed'[a] = pushed[a] + 0
            BY <1>t, <2>0, CountTypes
        <3>3. /\ Copy(a, Members(working')) + Copy(a, tick'.left) + FlushCopy(a, "tick")'
                     + FlushCopy(a, "sweeper")' + 0
                   <= Copy(a, Members(working)) + Copy(a, tick.left) + FlushCopy(a, "tick")
                          + FlushCopy(a, "sweeper")
              /\ Copy(a, Members(durable')) + CommittedCopy(a, "tick")'
                     + CommittedCopy(a, "sweeper")' + 0
                   <= Copy(a, Members(durable)) + CommittedCopy(a, "tick")
                          + CommittedCopy(a, "sweeper")
            BY <1>f, <1>s, <2>0, <3>1
        <3> QED BY <1>t, <2>0, <3>2, <3>3, CopiesMove
    <2> QED BY <2>0, <2>1, <2>2 DEF CountInv
<1>2. CASE FlushCommit(f)
    <2>0. /\ UNCHANGED <<working, offers, pushed>> /\ durable' = working
          /\ tick'.left = tick.left /\ tick'.existing = tick.existing
          /\ tick'.pc \in {tick.pc, "dequeue"}
        BY <1>2, <1>t, FlushStepMoves DEF FlushCommit, CommitWork, EndMoves, TickMovesTo
    <2>1. SnapshotInv'
        BY <2>0 DEF SnapshotInv
    <2>2. ASSUME NEW a \in Articles PROVE Total(a)' <= offers'[a] /\ Recoverable(a)' <= offers'[a]
        <3>1. /\ FlushCopy(a, f)' <= FlushCopy(a, f)
              /\ FlushCopy(a, g)' = FlushCopy(a, g)
            <4>1. FlushCopy(a, g)' = FlushCopy(a, g)
                BY <1>2, <1>t, <1>f, FlushStepMoves DEF FlushCopy, FlushMoves, EndMoves
            <4>2. flushing'[f].rows \in {Empty, flushing[f].rows}
                BY <1>2, <1>t, FlushStepMoves DEF FlushMoves, EndMoves
            <4> QED BY <4>1, <4>2, NoMembers DEF FlushCopy, Copy
        <3>2. pushed'[a] = pushed[a] + 0
            BY <1>t, <2>0, CountTypes
        <3>3. /\ Copy(a, Members(working')) + Copy(a, tick'.left) + FlushCopy(a, "tick")'
                     + FlushCopy(a, "sweeper")' + 0
                   <= Copy(a, Members(working)) + Copy(a, tick.left) + FlushCopy(a, "tick")
                          + FlushCopy(a, "sweeper")
            BY <1>f, <1>s, <2>0, <3>1
        <3>4. /\ CommittedCopy(a, "tick")' <= FlushCopy(a, "tick")
              /\ CommittedCopy(a, "sweeper")' <= FlushCopy(a, "sweeper")
            <4>1. /\ CommittedCopy(a, f)' <= FlushCopy(a, f)'
                  /\ CommittedCopy(a, g)' <= FlushCopy(a, g)'
                BY <1>s DEF CommittedCopy
            <4>2. CommittedCopy(a, f)' <= FlushCopy(a, f) /\ CommittedCopy(a, g)' <= FlushCopy(a, g)
                BY <1>s, <3>1, <4>1
            <4> QED BY <1>f, <4>2
        <3> QED BY <1>t, <2>0, <3>2, <3>3, <3>4, CopiesMove
    <2> QED BY <1>2, <2>0, <2>1, <2>2 DEF CountInv
<1>3. CASE Push(f)
    <2>0. /\ flushing[f].pc = "push" /\ EndMoves(f)
          /\ UNCHANGED <<working, durable, offers>>
          /\ tick'.left = tick.left /\ tick'.existing = tick.existing
          /\ tick'.pc \in {tick.pc, "dequeue"}
        BY <1>3, <1>t, FlushStepMoves DEF Push, EndMoves, TickMovesTo, connVars
    <2>1. SnapshotInv'
        BY <2>0 DEF SnapshotInv
    <2>2. ASSUME NEW a \in Articles PROVE Total(a)' <= offers'[a] /\ Recoverable(a)' <= offers'[a]
        <3>1. /\ FlushCopy(a, f)' = 0 /\ CommittedCopy(a, f)' = 0
              /\ CommittedCopy(a, f) = FlushCopy(a, f)
              /\ FlushCopy(a, g)' = FlushCopy(a, g) /\ CommittedCopy(a, g)' = CommittedCopy(a, g)
            BY <1>f, <2>0, NoMembers DEF FlushCopy, CommittedCopy, EndMoves, FlushMoves, Copy
        <3>2. PICK moved \in {0, 1} : /\ pushed'[a] = pushed[a] + moved
                                      /\ moved <= FlushCopy(a, f)
            <4>1. pushed'[a] = IF a \in Members(flushing[f].rows) /\ pushed[a] <= offers[a]
                               THEN pushed[a] + 1 ELSE pushed[a]
                BY <1>3 DEF Push
            <4>2. CASE a \in Members(flushing[f].rows) /\ pushed[a] <= offers[a]
                BY <4>1, <4>2 DEF FlushCopy, Copy
            <4>3. CASE ~(a \in Members(flushing[f].rows) /\ pushed[a] <= offers[a])
                <5>1. pushed'[a] = pushed[a] + 0
                    BY <1>t, <4>1, <4>3, CountTypes
                <5> QED BY <1>s, <5>1
            <4> QED BY <4>2, <4>3
        <3>3. /\ Copy(a, Members(working')) + Copy(a, tick'.left) + FlushCopy(a, "tick")'
                     + FlushCopy(a, "sweeper")' + moved
                   <= Copy(a, Members(working)) + Copy(a, tick.left) + FlushCopy(a, "tick")
                          + FlushCopy(a, "sweeper")
              /\ Copy(a, Members(durable')) + CommittedCopy(a, "tick")'
                     + CommittedCopy(a, "sweeper")' + moved
                   <= Copy(a, Members(durable)) + CommittedCopy(a, "tick")
                          + CommittedCopy(a, "sweeper")
            BY <1>f, <1>s, <2>0, <3>1, <3>2
        <3> QED BY <1>t, <2>0, <3>2, <3>3, CopiesMove
    <2> QED BY <2>0, <2>1, <2>2 DEF CountInv
<1> QED BY <1>1, <1>2, <1>3 DEF FlushStep

LEMMA AroundCounts ==
    ASSUME NoRollback, Inv, Inv', CountInv, SnapshotInv,
           AbsorbCommit \/ Sweep \/ ForeignBegin \/ ForeignCommits \/ ForeignRaises \/ Crash
    PROVE  CountInv' /\ SnapshotInv'
<1>t. TypeOK /\ FlushFits /\ FlushFits' /\ TablesFit /\ HistoryFits /\ HistoryFits' /\ TxInv
    BY InvParts, InvPartsPrimed DEF Inv
<1>f. "tick" \in Flushers /\ "sweeper" \in Flushers
    BY DEF Flushers
<1>1. CASE Crash
    <2>0. /\ TickResets /\ working' = durable /\ UNCHANGED <<durable, offers, pushed>>
          /\ \A f \in Flushers : flushing'[f].rows = Empty
        BY <1>1, <1>t, CrashMoves DEF Crash, RollbackWork
    <2>1. SnapshotInv' /\ tick'.left = {} /\ tick'.pc # "undo"
        BY <2>0 DEF SnapshotInv, TickResets
    <2>2. ASSUME NEW a \in Articles PROVE Total(a)' <= offers'[a] /\ Recoverable(a)' <= offers'[a]
        <3>1. /\ FlushCopy(a, "tick")' = 0 /\ FlushCopy(a, "sweeper")' = 0
              /\ CommittedCopy(a, "tick")' = 0 /\ CommittedCopy(a, "sweeper")' = 0
            BY <1>f, <2>0, NoMembers DEF FlushCopy, CommittedCopy, Copy
        <3>2. /\ Copy(a, Members(durable')) = Copy(a, Members(durable))
              /\ Copy(a, Members(durable)) \in {0, 1}
              /\ CommittedCopy(a, "tick") \in {0, 1} /\ CommittedCopy(a, "sweeper") \in {0, 1}
              /\ pushed'[a] = pushed[a] + 0
            BY <1>t, <1>f, <2>0, CountTypes
        <3>3. Copy(a, Members(durable')) + CommittedCopy(a, "tick")'
                     + CommittedCopy(a, "sweeper")' + 0
                   <= Copy(a, Members(durable)) + CommittedCopy(a, "tick")
                          + CommittedCopy(a, "sweeper")
            BY <3>1, <3>2
        <3> QED BY <1>t, <2>0, <2>1, <3>1, <3>2, <3>3, CopiesMove
    <2> QED BY <2>1, <2>2 DEF CountInv
<1>2. CASE AbsorbCommit \/ Sweep \/ ForeignBegin \/ ForeignCommits \/ ForeignRaises
    <2>0. /\ UNCHANGED <<working, offers, pushed>> /\ durable' \in {durable, working}
          /\ tick'.left = tick.left /\ tick'.pc # "undo"
          /\ tick'.pc = "merge" => tick.pc = "merge" /\ tick'.existing = tick.existing
        <3>1. CASE AbsorbCommit
            BY <1>t, <3>1, CommitMoves DEF AbsorbCommit, CommitWork, TickMovesTo
        <3>2. CASE Sweep \/ ForeignBegin \/ ForeignCommits
            BY <3>2 DEF Sweep, ForeignBegin, ForeignCommits, BeginStatement, CommitWork, connVars,
                        CountInv
        <3>3. CASE ForeignRaises
            BY <1>t, <3>3 DEF ForeignRaises, RollbackWork, NoRollback, TxInv, CountInv
        <3> QED BY <1>2, <3>1, <3>2, <3>3
    <2>1. \A f \in Flushers : /\ flushing'[f].rows = flushing[f].rows
                              /\ flushing'[f].pc = "push" => flushing[f].pc = "push"
        <3>1. CASE AbsorbCommit
            BY <1>t, <3>1, CommitMoves DEF FlushMoves
        <3>2. CASE Sweep
            BY <1>t, <3>2, SweepMoves DEF FlushMoves
        <3>3. CASE ForeignBegin \/ ForeignCommits \/ ForeignRaises
            BY <3>3 DEF ForeignBegin, ForeignCommits, ForeignRaises
        <3> QED BY <1>2, <3>1, <3>2, <3>3
    <2>2. SnapshotInv'
        BY <2>0 DEF SnapshotInv
    <2>3. ASSUME NEW a \in Articles PROVE Total(a)' <= offers'[a] /\ Recoverable(a)' <= offers'[a]
        <3>1. /\ FlushCopy(a, "tick")' = FlushCopy(a, "tick")
              /\ FlushCopy(a, "sweeper")' = FlushCopy(a, "sweeper")
            BY <1>f, <2>1 DEF FlushCopy
        <3>2. /\ CommittedCopy(a, "tick")' <= CommittedCopy(a, "tick")
              /\ CommittedCopy(a, "sweeper")' <= CommittedCopy(a, "sweeper")
            BY <1>f, <2>1, <3>1 DEF CommittedCopy, FlushCopy, Copy
        <3>3. /\ Copy(a, tick.left) \in {0, 1} /\ Copy(a, Members(working)) \in {0, 1}
              /\ Copy(a, Members(durable)) \in {0, 1}
              /\ FlushCopy(a, "tick") \in {0, 1} /\ FlushCopy(a, "sweeper") \in {0, 1}
              /\ CommittedCopy(a, "tick") \in {0, 1} /\ CommittedCopy(a, "sweeper") \in {0, 1}
              /\ CommittedCopy(a, "tick")' \in {0, 1} /\ CommittedCopy(a, "sweeper")' \in {0, 1}
              /\ CommittedCopy(a, "tick") <= FlushCopy(a, "tick")
              /\ CommittedCopy(a, "sweeper") <= FlushCopy(a, "sweeper")
              /\ pushed'[a] = pushed[a] + 0
            <4>1. /\ CommittedCopy(a, "tick")' \in {0, 1} /\ CommittedCopy(a, "sweeper")' \in {0, 1}
                BY DEF CommittedCopy, FlushCopy, Copy
            <4> QED BY <1>t, <1>f, <2>0, <4>1, CountTypes
        <3>4. Copy(a, Members(working')) + Copy(a, tick'.left) + FlushCopy(a, "tick")'
                     + FlushCopy(a, "sweeper")' + 0
                   <= Copy(a, Members(working)) + Copy(a, tick.left) + FlushCopy(a, "tick")
                          + FlushCopy(a, "sweeper")
            BY <2>0, <3>1, <3>3
        <3>5. /\ CommittedCopy(a, "tick")' <= FlushCopy(a, "tick")
              /\ CommittedCopy(a, "sweeper")' <= FlushCopy(a, "sweeper")
            BY <3>2, <3>3
        <3>6. CASE durable' = working
            BY <1>t, <2>0, <3>3, <3>4, <3>5, <3>6, CopiesMove
        <3>7. CASE durable' = durable
            <4>1. Copy(a, Members(durable')) + CommittedCopy(a, "tick")'
                         + CommittedCopy(a, "sweeper")' + 0
                       <= Copy(a, Members(durable)) + CommittedCopy(a, "tick")
                              + CommittedCopy(a, "sweeper")
                BY <3>2, <3>3, <3>7
            <4> QED BY <1>t, <2>0, <3>3, <3>4, <4>1, CopiesMove
        <3> QED BY <2>0, <3>6, <3>7
    <2> QED BY <2>0, <2>2, <2>3 DEF CountInv
<1> QED BY <1>1, <1>2

LEMMA CountStep == NoRollback /\ Inv /\ Inv' /\ CountInv /\ SnapshotInv /\ [Next]_vars
                       => CountInv' /\ SnapshotInv'
<1> SUFFICES ASSUME NoRollback, Inv, Inv', CountInv, SnapshotInv, [Next]_vars
             PROVE  CountInv' /\ SnapshotInv'
    OBVIOUS
<1>1. CASE UNCHANGED vars
    <2>1. \A a \in Articles : Total(a)' = Total(a) /\ Recoverable(a)' = Recoverable(a)
        BY <1>1 DEF vars, Total, Recoverable, Copy, FlushCopy, CommittedCopy, Members
    <2> QED BY <1>1, <2>1 DEF vars, CountInv, SnapshotInv
<1>2. ASSUME NEW f \in Flushers, FlushStep(f) \/ FlushRaises(f) PROVE CountInv' /\ SnapshotInv'
    BY <1>2, FlushCounts DEF FlushRaises, NoRollback
<1> QED BY <1>1, <1>2, TickStepCounts, MergeCounts, AroundCounts DEF Next, TickStep

(* on_match gets an article at most once per offer, whichever flush takes  *)
(* it, whoever commits in between and wherever the process stops, as long  *)
(* as nobody rolls back: a rollback of absorb's, or of a foreign block's,  *)
(* puts back the rows of a flush that has not committed yet                *)
(* (event_buffer.flush).                                                   *)
THEOREM PushedOnce == NoRollback /\ Spec => []NoDoublePush
<1> SUFFICES ASSUME NoRollback PROVE Spec => []NoDoublePush
    BY DEF NoRollback
<1>1. Inv /\ CountInv => NoDoublePush
    <2> SUFFICES ASSUME Inv, CountInv, NEW a \in Articles PROVE pushed[a] <= offers[a]
        BY DEF NoDoublePush
    <2>1. HistoryFits /\ "tick" \in Flushers /\ "sweeper" \in Flushers
        BY InvParts DEF Flushers
    <2> QED BY <2>1, CountTypes DEF CountInv, Total
<1>2. Inv /\ CountInv /\ SnapshotInv /\ [Next]_vars => (CountInv /\ SnapshotInv)'
    BY InvStep, CountStep
<1> QED BY <1>1, <1>2, CountInit, InvAlways, PTL DEF Spec

-----------------------------------------------------------------------------
(* Nothing is lost *)

(* No two articles are similar, and no foreign block rolls back. *)
Distinct == \A s \in Stories : \A a, b \in s : a = b
HitsAreSafe == Distinct /\ "rollback" \notin Others

LEMMA HitInit == Init => HitInv
<1> SUFFICES ASSUME Init PROVE HitInv
    OBVIOUS
<1>1. /\ working = Empty /\ queued = Articles /\ tick.hits = {} /\ tick.pc = "idle"
    BY DEF Init, ConnInit, IdleTick
<1> QED BY <1>1, NoMembers DEF HitInv, NoHitLost

LEMMA TickStepHolds ==
    ASSUME Inv, Inv', HitInv,
           \/ AbsorbBegin \/ AbsorbRefused \/ AbsorbSelect \/ AbsorbRaises
           \/ Dequeue \/ DequeueFails \/ \E hits \in SUBSET Articles : Offer(hits)
    PROVE  HitInv'
<1>t. TypeOK
    BY DEF Inv
<1>0. /\ UNCHANGED <<working, durable, flushing, pushed>> /\ givenUp \subseteq givenUp'
      /\ queued' = queued \/ (queued' = queued \ tick.hits /\ tick.pc = "dequeue")
    BY DEF Offer, AbsorbBegin, AbsorbRefused, AbsorbSelect, AbsorbRaises, Dequeue, DequeueFails,
           BeginStatement, connVars
<1>1. /\ \A a \in Articles : Held(a) => Held(a)'
      /\ \A a \in Articles : InBuffer(a)' = InBuffer(a)
      /\ Members(working)' = Members(working) /\ Members(durable)' = Members(durable)
      /\ \A a \in givenUp' : Held(a)'
    BY <1>0 DEF Held, InBuffer, InFlush, Members
<1>2. queued \subseteq Articles /\ tick.hits \subseteq Articles /\ Members(tick.existing) \subseteq Articles
      /\ Members(working) \subseteq Articles
    BY <1>t, TypeParts DEF TypeOK, Members, Tables
<1>3. NoHitLost'
    <2> SUFFICES ASSUME NEW a \in Articles \ queued' PROVE Held(a)'
        BY DEF NoHitLost, Held, InBuffer, InFlush
    <2>1. CASE a \notin queued
        BY <1>1, <2>1 DEF HitInv, NoHitLost, Held, InBuffer, InFlush
    <2>2. CASE a \in queued
        BY <1>0, <1>1, <2>2 DEF HitInv
    <2> QED BY <2>1, <2>2
<1>4. ASSUME NEW hits \in SUBSET Articles, Offer(hits) PROVE HitInv'
    <2>1. /\ tick.pc = "idle" /\ tick'.pc = "begin" /\ tick'.hits = hits /\ tick'.left = hits
          /\ hits \subseteq queued /\ queued' = queued
        BY <1>4, <1>t, OfferMoves DEF Offer
    <2> QED BY <1>1, <1>3, <2>1 DEF HitInv, InAbsorb
<1>5. CASE AbsorbBegin
    BY <1>0, <1>1, <1>3, <1>5, <1>t, TickMoves DEF HitInv, InAbsorb, TickMovesTo, AbsorbBegin
<1>6. CASE AbsorbSelect
    <2>1. Members(tick'.existing) = Members(working) /\ \A a \in Members(working) : Held(a)'
        BY <1>1, <1>2, <1>6, <1>t, SelectMoves DEF Held, InBuffer
    <2>2. Members(tick.existing)' = Members(tick'.existing)
        BY DEF Members
    <2>3. tick'.hits \ tick'.left = {}
        BY <1>6, <1>t, SelectMoves DEF HitInv
    <2> QED BY <1>0, <1>1, <1>3, <1>6, <1>t, <2>1, <2>2, <2>3, SelectMoves
            DEF HitInv, InAbsorb, AbsorbSelect
<1>7. CASE AbsorbRaises
    BY <1>0, <1>1, <1>3, <1>7, <1>t, TickMoves DEF HitInv, InAbsorb, TickMovesTo, AbsorbRaises
<1>8. CASE AbsorbRefused
    <2>1. tick.hits \subseteq givenUp'
        BY <1>8 DEF AbsorbRefused
    <2> QED BY <1>0, <1>1, <1>3, <1>8, <1>t, <2>1, TickMoves
            DEF HitInv, InAbsorb, TickMovesTo, AbsorbRefused
<1>9. CASE Dequeue \/ DequeueFails
    BY <1>0, <1>1, <1>3, <1>9, <1>t, TickMoves DEF HitInv, InAbsorb, TickResets
<1> QED BY <1>4, <1>5, <1>6, <1>7, <1>8, <1>9

(* The hits of the batch reach the buffer: with one article per story the  *)
(* row absorb read holds the article, or there was none and it is written. *)
LEMMA MergeHolds ==
    ASSUME Distinct, Inv, Inv', HitInv, NEW s \in Stories, Merge(s)
    PROVE  HitInv'
<1>t. TypeOK /\ TickFits /\ TickFits' /\ TablesFit /\ TablesFit'
    BY InvParts, InvPartsPrimed DEF Inv
<1>0. /\ tick.pc = "merge" /\ tick'.pc = "merge" /\ tick'.left = tick.left \ s
      /\ tick'.hits = tick.hits
      /\ tick'.existing = [tick.existing EXCEPT ![s] = @ \cup (tick.left \cap s)]
      /\ working' = [working EXCEPT ![s] = MergedRow(s)] /\ durable' = durable
      /\ UNCHANGED <<flushing, pushed, queued, givenUp>>
      /\ tick.left \cap s # {}
    BY <1>t, MergeMoves DEF Merge
<1>3. /\ \A t \in Stories : working'[t] = IF t = s THEN MergedRow(s) ELSE working[t]
      /\ \A t \in Stories : tick'.existing[t] = IF t = s THEN tick.existing[s] \cup (tick.left \cap s)
                                                ELSE tick.existing[t]
    BY <1>t, <1>0 DEF TickFits, TablesFit, InStories, Tables
<1>4. PICK a \in tick.left \cap s : s = {a}
    BY <1>0 DEF Distinct
<1>5. /\ a \in Articles
      /\ tick.existing[s] = {} => MergedRow(s) = {a}
      /\ tick.existing[s] # {} => MergedRow(s) = working[s] /\ a \in Members(tick.existing)
    <2>1. tick.existing[s] \subseteq {a} /\ tick.left \cap s = {a}
        BY <1>t, <1>4 DEF TickFits, InStories
    <2> QED BY <1>4, <2>1 DEF MergedRow, Articles, Members
<1>6. working[s] \subseteq MergedRow(s)
    BY <1>t, <1>4, <1>5 DEF TablesFit, InStories
<1>7. \A b \in Articles : InBuffer(b) => InBuffer(b)'
    BY <1>3, <1>6 DEF InBuffer, Members
<1>8. \A b \in Articles : Held(b) => Held(b)'
    BY <1>0, <1>7 DEF Held, InFlush
<1>9. Held(a)'
    <2>1. CASE tick.existing[s] = {}
        BY <1>3, <1>5, <2>1 DEF Held, InBuffer, Members
    <2>2. CASE tick.existing[s] # {}
        BY <1>0, <1>5, <1>8, <2>2 DEF HitInv
    <2> QED BY <2>1, <2>2
<1>10. \A b \in Members(tick'.existing) : b = a \/ b \in Members(tick.existing)
    <2> SUFFICES ASSUME NEW t \in Stories, NEW b \in tick'.existing[t]
                 PROVE  b = a \/ \E u \in Stories : b \in tick.existing[u]
        BY DEF Members
    <2>1. b \in tick.existing[t] \/ (t = s /\ b \in tick.left \cap s)
        BY <1>3
    <2> QED BY <1>4, <2>1
<1>11. \A b \in Members(working') : b = a \/ b \in Members(working)
    <2>1. MergedRow(s) \subseteq {a} \cup working[s]
        BY <1>4, <1>5
    <2> QED BY <1>3, <2>1 DEF Members
<1>12. a \in tick.hits /\ tick.hits \subseteq Articles /\ Members(tick.existing) \subseteq Articles
    BY <1>t, TypeParts DEF TickFits, InStories, Tables, Members
<1>13. tick'.hits \ tick'.left \subseteq (tick.hits \ tick.left) \cup {a}
    BY <1>0, <1>4
<1>14. /\ Members(tick.existing)' = Members(tick'.existing)
       /\ Members(working)' = Members(working') /\ Members(durable)' = Members(durable)
    BY <1>0 DEF Members
<1>15. NoHitLost'
    BY <1>0, <1>8 DEF HitInv, NoHitLost, Held, InBuffer, InFlush
<1> QED BY <1>0, <1>8, <1>9, <1>10, <1>11, <1>12, <1>13, <1>14, <1>15 DEF HitInv, InAbsorb

LEMMA CommitHolds ==
    ASSUME Inv, HitInv, AbsorbCommit
    PROVE  HitInv'
<1>t. TypeOK /\ TxInv /\ FlushFits
    BY InvParts DEF Inv
<1>0. /\ tick.pc = "merge" /\ tick.left = {} /\ tick'.pc \in {"flush", "dequeue"}
      /\ tick'.hits = tick.hits /\ tick'.left = {}
      /\ working' = working /\ durable' = working /\ UNCHANGED <<queued, pushed, givenUp>>
      /\ \A f \in Flushers : flushing'[f].rows = flushing[f].rows
    BY <1>t, CommitMoves DEF AbsorbCommit, CommitWork, TickMovesTo, FlushMoves
<1>1. \A a \in Articles : Held(a) => Held(a)'
    BY <1>0 DEF Held, InBuffer, InFlush, Members
<1>2. tick.hits \subseteq Articles /\ Members(working)' = Members(durable)'
    BY <1>0, <1>t, TypeParts DEF Members
<1>3. NoHitLost'
    BY <1>0, <1>1 DEF HitInv, NoHitLost, Held, InBuffer, InFlush
<1> QED BY <1>0, <1>1, <1>2, <1>3 DEF HitInv

(* What absorb's rollback takes out of the buffer is of its own batch. *)
LEMMA UndoHolds ==
    ASSUME Inv, HitInv, AbsorbUndo
    PROVE  HitInv'
<1>t. TypeOK
    BY DEF Inv
<1>0. /\ tick.pc = "undo" /\ tick'.pc = "dequeue" /\ tick'.hits = tick.hits
      /\ working' = durable /\ durable' = durable /\ UNCHANGED <<queued, pushed, flushing>>
      /\ givenUp' = givenUp \cup tick.hits
    BY <1>t, TickMoves DEF AbsorbUndo, RollbackWork, TickMovesTo
<1>1. \A a \in Articles : Held(a) => Held(a)'
    BY <1>0 DEF HitInv, Held, InBuffer, InFlush, Members
<1>2. \A a \in tick.hits : Held(a)'
    BY <1>0 DEF Held
<1>3. Members(working)' = Members(durable)'
    BY <1>0 DEF Members
<1>4. NoHitLost'
    BY <1>0, <1>1 DEF HitInv, NoHitLost, Held, InBuffer, InFlush
<1> QED BY <1>0, <1>2, <1>3, <1>4 DEF HitInv

LEMMA FlushHolds ==
    ASSUME Inv, Inv', HitInv, NEW f \in Flushers, FlushStep(f) \/ FlushRaises(f)
    PROVE  HitInv'
<1>t. TypeOK /\ TxInv /\ FlushFits /\ HistoryFits /\ tick.hits \subseteq Articles
      /\ Members(tick.existing) \subseteq Articles
    BY InvParts, TypeParts DEF Inv, Members, Tables
<1>1. \A a \in Articles : Held(a) => Held(a)'
    <2>1. CASE FlushDelete(f)
        <3>1. FlushMoves(f, "commit", working) /\ flushing[f].rows = Empty
              /\ UNCHANGED <<pushed, givenUp>>
            BY <1>t, <2>1, FlushStepMoves DEF FlushDelete, FlushFits
        <3>2. \A a \in Articles : InBuffer(a) => InFlush(a)'
            BY <3>1 DEF FlushMoves, InBuffer, InFlush, Members
        <3>3. \A a \in Articles : InFlush(a) => InFlush(a)'
            BY <3>1, NoMembers DEF FlushMoves, InFlush, Members
        <3> QED BY <3>1, <3>2, <3>3 DEF Held
    <2>2. CASE FlushCommit(f)
        <3>1. /\ \A s \in Stories : flushing'[f].rows[s] = flushing[f].rows[s]
              /\ \A g \in Flushers \ {f} : flushing'[g] = flushing[g]
              /\ UNCHANGED <<working, pushed, givenUp>>
            BY <1>t, <2>2, FlushStepMoves, EmptyTable
            DEF FlushCommit, CommitWork, EndMoves, FlushMoves
        <3> QED BY <3>1 DEF Held, InBuffer, InFlush, Members
    <2>3. CASE Push(f) \/ FlushRaises(f)
        <3>1. /\ \A g \in Flushers \ {f} : flushing'[g] = flushing[g]
              /\ UNCHANGED working /\ givenUp \subseteq givenUp'
            BY <1>t, <2>3, FlushStepMoves DEF Push, FlushRaises, connVars, EndMoves, FlushMoves
        <3>2. \A a \in Articles : pushed[a] > 0 => pushed'[a] > 0
            BY <1>t, <2>3, BoundsAssumption DEF Push, FlushRaises, HistoryFits
        <3>3. \A a \in Articles : a \in Members(flushing[f].rows) => pushed'[a] > 0 \/ a \in givenUp'
            <4>1. \A a \in Articles : pushed[a] \in Nat /\ offers[a] \in Nat
                BY <1>t, CountTypes
            <4> QED BY <2>3, <4>1 DEF Push, FlushRaises
        <3> QED BY <3>1, <3>2, <3>3 DEF Held, InBuffer, InFlush, Members
    <2> QED BY <2>1, <2>2, <2>3 DEF FlushStep
<1>2. /\ UNCHANGED queued
      /\ \/ tick' = tick
         \/ tick.pc = "flush" /\ TickMovesTo("dequeue")
    BY <1>t, FlushStepMoves
    DEF FlushStep, FlushDelete, FlushCommit, Push, FlushRaises, EndMoves, TxInv
<1>3. /\ Members(working') \subseteq Members(working)
      /\ Members(durable') = Members(durable) \/ Members(durable') = Members(working')
    BY NoMembers DEF FlushStep, FlushDelete, FlushCommit, Push, FlushRaises, DmlStatement, CommitWork,
                     connVars
<1>4. /\ Members(tick.existing)' = Members(tick'.existing)
      /\ Members(working)' = Members(working') /\ Members(durable)' = Members(durable')
    BY DEF Members
<1>5. NoHitLost'
    BY <1>1, <1>2 DEF HitInv, NoHitLost, Held, InBuffer, InFlush
<1>6. CASE tick' = tick
    BY <1>t, <1>1, <1>2, <1>3, <1>4, <1>5, <1>6 DEF HitInv, InAbsorb
<1>7. CASE tick.pc = "flush" /\ TickMovesTo("dequeue")
    BY <1>t, <1>1, <1>2, <1>3, <1>4, <1>5, <1>7 DEF HitInv, InAbsorb, TickMovesTo
<1> QED BY <1>2, <1>6, <1>7

LEMMA AroundHolds ==
    ASSUME "rollback" \notin Others, Inv, HitInv,
           Sweep \/ ForeignBegin \/ ForeignCommits \/ ForeignRaises \/ Crash
    PROVE  HitInv'
<1>t. TypeOK /\ TxInv /\ FlushFits /\ tick.hits \subseteq Articles
      /\ Members(tick.existing) \subseteq Articles
    BY InvParts, TypeParts DEF Inv, Members, Tables
<1>1. CASE Sweep \/ ForeignBegin \/ ForeignCommits \/ ForeignRaises
    <2>0. /\ UNCHANGED <<working, tick, queued, pushed, givenUp>> /\ durable' \in {durable, working}
          /\ \A f \in Flushers : flushing'[f].rows = flushing[f].rows
        <3>1. CASE Sweep
            BY <1>t, <3>1, SweepMoves DEF Sweep, FlushMoves, connVars
        <3>2. CASE ForeignBegin \/ ForeignCommits \/ ForeignRaises
            BY <1>t, <3>2 DEF ForeignBegin, ForeignCommits, ForeignRaises, BeginStatement,
                              CommitWork, RollbackWork, TxInv
        <3> QED BY <1>1, <3>1, <3>2
    <2>1. \A a \in Articles : Held(a) => Held(a)'
        BY <2>0 DEF Held, InBuffer, InFlush
    <2>2. NoHitLost'
        BY <2>0, <2>1 DEF HitInv, NoHitLost, Held, InBuffer, InFlush
    <2>3. /\ Members(working)' = Members(working) /\ Members(tick.existing)' = Members(tick.existing)
          /\ Members(durable)' = Members(durable) \/ Members(durable)' = Members(working)
        BY <2>0 DEF Members
    <2> QED BY <1>t, <2>0, <2>1, <2>2, <2>3 DEF HitInv, InAbsorb
<1>2. CASE Crash
    <2> DEFINE taken == UNION {Members(flushing[f].rows) : f \in Flushers}
    <2>0. /\ TickResets /\ working' = durable /\ UNCHANGED <<durable, queued, pushed>>
        BY <1>2, <1>t, CrashMoves DEF Crash, RollbackWork
    <2>g. givenUp' = givenUp \cup (taken \ Members(durable))
        BY <1>2 DEF Crash
    <2> HIDE DEF taken
    <2>1. \A a \in Articles \ queued : Held(a) => Held(a)'
        <3> SUFFICES ASSUME NEW a \in Articles \ queued, Held(a) PROVE Held(a)'
            OBVIOUS
        <3>1. a \in Members(durable) => InBuffer(a)'
            BY <2>0 DEF InBuffer, Members
        <3>2. InBuffer(a) => a \in Members(durable)
            BY DEF HitInv, InBuffer
        <3>3. ASSUME InFlush(a) PROVE a \in Members(durable) \/ a \in givenUp'
            <4>1. PICK f \in Flushers : a \in Members(flushing[f].rows)
                BY <3>3 DEF InFlush
            <4>2. a \in taken
                BY <4>1 DEF taken
            <4> QED BY <2>g, <4>2
        <3> QED BY <2>0, <2>g, <3>1, <3>2, <3>3 DEF Held
    <2>2. NoHitLost'
        BY <2>0, <2>1 DEF HitInv, NoHitLost, Held, InBuffer, InFlush
    <2>3. Members(working)' = Members(durable)'
        BY <2>0 DEF Members
    <2> QED BY <2>0, <2>2, <2>3 DEF HitInv, TickResets
<1> QED BY <1>1, <1>2

LEMMA HitStep == HitsAreSafe /\ Inv /\ Inv' /\ HitInv /\ [Next]_vars => HitInv'
<1> SUFFICES ASSUME HitsAreSafe, Inv, Inv', HitInv, [Next]_vars PROVE HitInv'
    OBVIOUS
<1>1. CASE UNCHANGED vars
    BY <1>1 DEF vars, HitInv, InAbsorb, Held, InBuffer, InFlush, Members, NoHitLost
<1> QED BY <1>1, TickStepHolds, MergeHolds, CommitHolds, UndoHolds, FlushHolds, AroundHolds
        DEF Next, TickStep, HitsAreSafe

(* A dequeued hit is in the buffer, in a flush, pushed or given up with a  *)
(* warning, whatever raises and wherever the process stops, when no two    *)
(* articles are similar and no foreign block rolls back while absorb or a  *)
(* flush is between two statements (event_buffer.absorb, flush).           *)
THEOREM HitsAreKept == HitsAreSafe /\ Spec => []NoHitLost
<1> SUFFICES ASSUME HitsAreSafe PROVE Spec => []NoHitLost
    BY DEF HitsAreSafe, Distinct
<1>1. HitInv => NoHitLost
    BY DEF HitInv
<1> QED BY <1>1, HitInit, HitStep, InvAlways, PTL DEF Spec
=============================================================================
