------------------------------ MODULE SharedConn ------------------------------
(***************************************************************************)
(* db/sqlite.transaction() on the shared connection: the write lock, the   *)
(* BEGIN .. COMMIT block with its clean-up, and next to it the two writers *)
(* that do not take the lock, matcher/event_buffer.absorb and flush.       *)
(*                                                                         *)
(* Every await is a point where another coroutine runs, so a block is a    *)
(* sequence of steps: BEGIN, two statements, COMMIT.                       *)
(***************************************************************************)
EXTENDS Connection, Naturals

CONSTANTS
    Locked,     \* coroutines that write under transaction()
    Immediate,  \* absorb: BEGIN IMMEDIATE .. commit(), no lock
    Implicit,   \* flush: one DML statement, then commit(), no lock
    NoOwner     \* the lock is free

Coroutines == Locked \cup Immediate \cup Implicit

ASSUME CoroutinesAssumption ==
    /\ Locked \cap Immediate = {} /\ Locked \cap Implicit = {} /\ Immediate \cap Implicit = {}
    /\ NoOwner \notin Coroutines

VARIABLES
    lock,       \* _WRITE_LOCK
    pc,         \* the next statement of the coroutine
    result      \* how its block ended: "none" | "committed" | "failed"

vars == <<inTx, working, durable, lock, pc, result>>

Blocks == Locked \cup Immediate

RowsOf(w) == {w} \X {1, 2}

TypeOK ==
    /\ inTx \in BOOLEAN
    /\ working \subseteq Coroutines \X {1, 2}
    /\ durable \subseteq Coroutines \X {1, 2}
    /\ lock \in Locked \cup {NoOwner}
    /\ pc \in [Coroutines -> {"idle", "begin", "first", "second", "commit", "rollback"}]
    /\ result \in [Coroutines -> {"none", "committed", "failed"}]

Init ==
    /\ ConnInit({})
    /\ lock = NoOwner
    /\ pc = [c \in Coroutines |-> "idle"]
    /\ result = [c \in Coroutines |-> "none"]

Goto(c, from, to) == pc[c] = from /\ pc' = [pc EXCEPT ![c] = to]

(* The coroutine leaves its block, and gives the lock back if it had it. *)
Leave(c, how) ==
    /\ pc' = [pc EXCEPT ![c] = "idle"]
    /\ result' = [result EXCEPT ![c] = how]
    /\ lock' = IF lock = c THEN NoOwner ELSE lock

-----------------------------------------------------------------------------
(* Mutant: the lock is not awaited. *)
EnterUnlocked(c) ==
    /\ c \notin Implicit
    /\ result[c] = "none"
    /\ Goto(c, "idle", "begin")
    /\ UNCHANGED <<inTx, working, durable, result, lock>>

(* async with _WRITE_LOCK; absorb has no such line. *)
Enter(c) ==
    /\ c \notin Implicit
    /\ result[c] = "none"
    /\ Goto(c, "idle", "begin")
    /\ IF c \in Locked THEN lock = NoOwner /\ lock' = c ELSE UNCHANGED lock
    /\ UNCHANGED <<inTx, working, durable, result>>

Begin(c) ==
    /\ Goto(c, "begin", "first")
    /\ BeginStatement
    /\ UNCHANGED <<lock, result>>

(* "cannot start a transaction within a transaction": raised before the    *)
(* try, so there is no ROLLBACK.                                           *)
BeginRefused(c) ==
    /\ pc[c] = "begin"
    /\ inTx
    /\ Leave(c, "failed")
    /\ UNCHANGED connVars

FirstStatement(c) ==
    /\ Goto(c, "first", "second")
    /\ DmlStatement(working \cup {<<c, 1>>})
    /\ UNCHANGED <<lock, result>>

SecondStatement(c) ==
    /\ Goto(c, "second", "commit")
    /\ DmlStatement(working \cup {<<c, 2>>})
    /\ UNCHANGED <<lock, result>>

(* Mutant: the exception is swallowed inside the block. *)
BlockRaisesSwallowed(c) ==
    /\ c \notin Implicit
    /\ pc[c] \in {"first", "second"}
    /\ pc' = [pc EXCEPT ![c] = "commit"]
    /\ UNCHANGED <<connVars, lock, result>>

(* A statement raises, COMMIT included, or the coroutine is cancelled.     *)
(* COMMIT also raises when someone else ended the transaction.             *)
BlockRaises(c) ==
    /\ c \notin Implicit
    /\ pc[c] \in {"first", "second", "commit"}
    /\ pc' = [pc EXCEPT ![c] = "rollback"]
    /\ UNCHANGED <<connVars, lock, result>>

Commit(c) ==
    /\ pc[c] = "commit"
    /\ c \in Locked => inTx
    /\ CommitWork
    /\ Leave(c, "committed")

Rollback(c) ==
    /\ pc[c] = "rollback"
    /\ RollbackWork
    /\ Leave(c, "failed")

(* flush: a DELETE, then always commit(). *)
DirectStatement(c) ==
    /\ c \in Implicit
    /\ result[c] = "none"
    /\ Goto(c, "idle", "commit")
    /\ DmlStatement(working \cup RowsOf(c))
    /\ UNCHANGED <<lock, result>>

(* The job's next tick, or the next request. *)
Again(c) ==
    /\ pc[c] = "idle"
    /\ result[c] = "failed"
    /\ result' = [result EXCEPT ![c] = "none"]
    /\ UNCHANGED <<connVars, lock, pc>>

(* The process stops and starts again. *)
Crash ==
    /\ RollbackWork
    /\ lock' = NoOwner
    /\ pc' = [c \in Coroutines |-> "idle"]
    /\ result' = [c \in Coroutines |-> IF pc[c] = "idle" THEN result[c] ELSE "failed"]

Step(c) ==
    \/ Enter(c) \/ Begin(c) \/ BeginRefused(c) \/ FirstStatement(c) \/ SecondStatement(c)
    \/ BlockRaises(c) \/ Commit(c) \/ Rollback(c) \/ DirectStatement(c) \/ Again(c)

Next == Crash \/ \E c \in Coroutines : Step(c)

Spec == Init /\ [][Next]_vars

-----------------------------------------------------------------------------
(* A block's rows are in the database, all of them, exactly when the block *)
(* reported success: nobody commits half of somebody else's block, and a   *)
(* block that raised left nothing behind (db/articles.py: "Single          *)
(* BEGIN/COMMIT transaction ensures feed_items and pending_articles are    *)
(* always consistent").                                                    *)
AllOrNothing ==
    \A w \in Blocks :
        durable \cap RowsOf(w) = IF result[w] = "committed" THEN RowsOf(w) ELSE {}

(* A coroutine that holds the lock finds the connection without an open    *)
(* transaction, so its BEGIN is never refused (db/sqlite.py: "Without      *)
(* this, two coroutines racing to issue BEGIN trigger SQLite's 'cannot     *)
(* start a transaction within a transaction' error").                      *)
BeginAccepted == \A w \in Locked : pc[w] = "begin" => ~inTx

(* The weaker promise that survives flush's unlocked commit(): what a      *)
(* block reported as committed is in the database (db/sqlite.py, COMMIT    *)
(* raises when the transaction is gone).                                   *)
CommittedIsStored == \A w \in Locked : result[w] = "committed" => RowsOf(w) \subseteq durable

(* The blocks implement atomic writes. *)
AW == INSTANCE AtomicWrites WITH
          Writers <- Blocks, Rows <- RowsOf, stored <- durable,
          outcome <- [w \in Blocks |-> result[w]]

Atomic == AW!Spec
=============================================================================
