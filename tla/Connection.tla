------------------------------ MODULE Connection ------------------------------
(***************************************************************************)
(* The one aiosqlite connection every coroutine of the process shares, as  *)
(* Python's sqlite3 behaves on it: a DML statement opens a transaction     *)
(* when none is open, commit() and rollback() do nothing when none is      *)
(* open, an explicit BEGIN is refused when one is open.  The connection    *)
(* does not know which coroutine a statement comes from.                   *)
(***************************************************************************)
VARIABLES
    inTx,       \* sqlite3_get_autocommit() is off
    working,    \* what a SELECT on the connection sees
    durable     \* what a restart would find

connVars == <<inTx, working, durable>>

ConnInit(db) == inTx = FALSE /\ working = db /\ durable = db

(* BEGIN, accepted *)
BeginStatement == ~inTx /\ inTx' = TRUE /\ UNCHANGED <<working, durable>>

(* INSERT, UPDATE or DELETE, leaving the database at db *)
DmlStatement(db) == inTx' = TRUE /\ working' = db /\ UNCHANGED durable

(* COMMIT or commit(); nothing to do outside a transaction *)
CommitWork == inTx' = FALSE /\ durable' = working /\ UNCHANGED working

(* ROLLBACK or rollback(), or the process stops *)
RollbackWork == inTx' = FALSE /\ working' = durable /\ UNCHANGED durable
=============================================================================
