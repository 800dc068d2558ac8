---------------------------- MODULE KnowledgeBase ----------------------------
(***************************************************************************)
(* The writers of events.md of one intent: the daily merge (KbStore.ingest),*)
(* the lint (kb/lint.run_for_intent), the dashboard's PUT and the rebuild   *)
(* (api/kb), with the lock per intent, the rebuild slot, the thread that    *)
(* replaces the file, and forget_intent on DELETE.                          *)
(*                                                                          *)
(* A text is the set of requests whose writing it contains: the merge, the  *)
(* lint and an edit add themselves to the text they started from, a rebuild *)
(* starts anew.  The commit in the nested git repository follows the        *)
(* replacement in the same thread; when it fails, nothing else changes.     *)
(***************************************************************************)
EXTENDS Integers, FiniteSets

CONSTANTS Ingests, Lints, Edits, Rebuilds, NoText

Writers == Ingests \cup Lints \cup Edits \cup Rebuilds

ASSUME WritersAssumption ==
    /\ NoText \notin Writers
    /\ Ingests \cap (Lints \cup Edits \cup Rebuilds) = {} /\ Lints \cap (Edits \cup Rebuilds) = {}
    /\ Edits \cap Rebuilds = {}

VARIABLES
    file,       \* events.md, or NoText
    tmp,        \* events.md.tmp
    known,      \* the intent exists
    lockNow,    \* the lock that _lock returns: 0, or 1 after forget_intent
    owner,      \* who holds a lock
    uses,       \* the lock a writer took or waits for
    at,         \* where a writer awaits
    thread,     \* its write thread: "none" | "tmp" | "replace"
    base,       \* the text it started from
    claimed,    \* the intent is in _rebuilding
    outlived    \* history: threads that run on after their request timed out

kbVars == <<file, tmp, known, lockNow, owner, uses, at, thread, base, claimed, outlived>>

Texts == (SUBSET Writers) \cup {NoText}

KbTypeOK ==
    /\ file \in Texts /\ tmp \in Texts
    /\ known \in BOOLEAN /\ claimed \in BOOLEAN
    /\ lockNow \in {0, 1}
    /\ owner \in [{0, 1} -> Writers \cup {NoText}]
    /\ uses \in [Writers -> {0, 1}]
    /\ at \in [Writers -> {"new", "editing", "llm", "wait", "thread", "over"}]
    /\ thread \in [Writers -> {"none", "tmp", "replace"}]
    /\ base \in [Writers -> Texts]
    /\ outlived \subseteq Rebuilds

KbInit ==
    /\ file = NoText /\ tmp = NoText
    /\ known = TRUE /\ claimed = FALSE
    /\ lockNow = 0 /\ owner = [l \in {0, 1} |-> NoText]
    /\ uses = [r \in Writers |-> 0]
    /\ at = [r \in Writers |-> "new"]
    /\ thread = [r \in Writers |-> "none"]
    /\ base = [r \in Writers |-> NoText]
    /\ outlived = {}

InFlight == {r \in Rebuilds : at[r] \in {"llm", "wait", "thread"}}

(* What a writer writes. *)
TextOf(r) == IF r \in Rebuilds \/ base[r] = NoText THEN {r} ELSE base[r] \cup {r}

(* async with _lock: at once when it is free and nobody waits for it. *)
Free(l) == owner[l] = NoText /\ \A r \in Writers : at[r] = "wait" => uses[r] # l

(* What a writer does when it has the lock: a merge reads the file and     *)
(* asks the model, unless there is nothing to merge into; the others start *)
(* their thread.                                                           *)
Proceed(r, l) ==
    IF r \in Ingests
    THEN /\ base' = [base EXCEPT ![r] = file]
         /\ at' = [at EXCEPT ![r] = IF file = NoText THEN "over" ELSE "llm"]
         /\ owner' = [owner EXCEPT ![l] = IF file = NoText THEN NoText ELSE r]
         /\ UNCHANGED thread
    ELSE /\ at' = [at EXCEPT ![r] = "thread"]
         /\ thread' = [thread EXCEPT ![r] = "tmp"]
         /\ owner' = [owner EXCEPT ![l] = r]
         /\ UNCHANGED base

(* Mutant: the lock is not taken. *)
LockUnused(r) ==
    /\ Proceed(r, lockNow)
    /\ UNCHANGED uses
Lock(r) ==
    /\ uses' = [uses EXCEPT ![r] = lockNow]
    /\ IF Free(lockNow) THEN Proceed(r, lockNow)
       ELSE at' = [at EXCEPT ![r] = "wait"] /\ UNCHANGED <<base, thread, owner>>

Granted(r) ==
    /\ at[r] = "wait" /\ owner[uses[r]] = NoText
    /\ Proceed(r, uses[r])
    /\ UNCHANGED <<file, tmp, known, lockNow, uses, claimed, outlived>>

Unlock(r) == owner' = [l \in {0, 1} |-> IF owner[l] = r THEN NoText ELSE owner[l]]

-----------------------------------------------------------------------------
(* The four requests *)

(* KbStore.ingest, from _dispatch; the intent and its switch were read. *)
StartIngest(r) ==
    /\ known /\ r \in Ingests /\ at[r] = "new"
    /\ Lock(r)
    /\ UNCHANGED <<file, tmp, known, lockNow, claimed, outlived>>

(* merge_digest returned; it may find nothing to change, or raise. *)
IngestWrites(r) ==
    /\ r \in Ingests /\ at[r] = "llm"
    /\ at' = [at EXCEPT ![r] = "thread"] /\ thread' = [thread EXCEPT ![r] = "tmp"]
    /\ UNCHANGED <<file, tmp, known, lockNow, owner, uses, base, claimed, outlived>>

IngestStops(r) ==
    /\ r \in Ingests /\ at[r] = "llm"
    /\ at' = [at EXCEPT ![r] = "over"] /\ Unlock(r) /\ base' = [base EXCEPT ![r] = NoText]
    /\ UNCHANGED <<file, tmp, known, lockNow, uses, thread, claimed, outlived>>

(* run_for_intent reads and asks the model without the lock. *)
StartLint(r) ==
    /\ known /\ r \in Lints /\ at[r] = "new"
    /\ base' = [base EXCEPT ![r] = file]
    /\ at' = [at EXCEPT ![r] = IF file = NoText THEN "over" ELSE "llm"]
    /\ UNCHANGED <<file, tmp, known, lockNow, owner, uses, thread, claimed, outlived>>

LintWrites(r) ==
    /\ r \in Lints /\ at[r] = "llm"
    /\ Lock(r)
    /\ UNCHANGED <<file, tmp, known, lockNow, claimed, outlived>>

(* Nothing to clean. *)
LintStops(r) ==
    /\ r \in Lints /\ at[r] = "llm"
    /\ at' = [at EXCEPT ![r] = "over"] /\ base' = [base EXCEPT ![r] = NoText]
    /\ UNCHANGED <<file, tmp, known, lockNow, owner, uses, thread, claimed, outlived>>

(* GET, and again after a 409. *)
OpenEditor(r) ==
    /\ known /\ r \in Edits /\ at[r] \in {"new", "editing"}
    /\ base' = [base EXCEPT ![r] = file]
    /\ at' = [at EXCEPT ![r] = "editing"]
    /\ UNCHANGED <<file, tmp, known, lockNow, owner, uses, thread, claimed, outlived>>

(* PUT: the token is compared, then the lock is taken. *)
PutConflicts(r) == base[r] # NoText /\ file # NoText /\ base[r] # file

PutEdit(r) ==
    /\ known /\ r \in Edits /\ at[r] = "editing"
    /\ ~PutConflicts(r)
    /\ Lock(r)
    /\ UNCHANGED <<file, tmp, known, lockNow, claimed, outlived>>

(* try_begin_rebuild, when the file may be overwritten and there is a      *)
(* history; 409 and 422 change nothing.                                    *)
TryBeginRebuild == ~claimed /\ claimed' = TRUE

StartRebuild(r) ==
    /\ known /\ r \in Rebuilds /\ at[r] = "new"
    /\ TryBeginRebuild
    /\ at' = [at EXCEPT ![r] = "llm"]
    /\ UNCHANGED <<file, tmp, known, lockNow, owner, uses, thread, base, outlived>>

RebuildWrites(r) ==
    /\ r \in Rebuilds /\ at[r] = "llm"
    /\ Lock(r)
    /\ UNCHANGED <<file, tmp, known, lockNow, claimed, outlived>>

(* The model raised, or 600 seconds are over: wait_for cancels what is     *)
(* awaited.  The thread of to_thread cannot be cancelled; the lock and the *)
(* slot are given back at once.                                            *)
RebuildStops(r) ==
    /\ r \in InFlight
    /\ at' = [at EXCEPT ![r] = "over"] /\ Unlock(r)
    /\ claimed' = FALSE
    /\ outlived' = IF thread[r] = "none" THEN outlived ELSE outlived \cup {r}
    /\ UNCHANGED <<file, tmp, known, lockNow, uses, thread, base>>

-----------------------------------------------------------------------------
(* _write_and_commit in its thread *)

(* The await of a thread that is over returns, if somebody still awaits. *)
ThreadOver(r) ==
    /\ thread' = [thread EXCEPT ![r] = "none"] /\ base' = [base EXCEPT ![r] = NoText]
    /\ IF at[r] = "thread"
       THEN /\ at' = [at EXCEPT ![r] = "over"] /\ Unlock(r)
            /\ claimed' = (claimed /\ r \notin Rebuilds)
       ELSE UNCHANGED <<at, owner, claimed>>

WriteTmp(r) ==
    /\ thread[r] = "tmp"
    /\ tmp' = TextOf(r)
    /\ thread' = [thread EXCEPT ![r] = "replace"]
    /\ UNCHANGED <<file, known, lockNow, owner, uses, at, base, claimed, outlived>>

(* os.replace moves whatever is in the temporary file. *)
Replace(r) ==
    /\ thread[r] = "replace" /\ tmp # NoText
    /\ file' = tmp /\ tmp' = NoText
    /\ ThreadOver(r)
    /\ UNCHANGED <<known, lockNow, uses, outlived>>

(* KbSizeError, a full disk, or the temporary file is gone. *)
WriteRaises(r) ==
    /\ thread[r] # "none"
    /\ ThreadOver(r)
    /\ UNCHANGED <<file, tmp, known, lockNow, uses, outlived>>

(* DELETE of the intent: forget_intent drops the lock and the slot. *)
ForgetIntent ==
    /\ known
    /\ known' = FALSE /\ lockNow' = 1 /\ claimed' = FALSE
    /\ UNCHANGED <<file, tmp, owner, uses, at, thread, base, outlived>>

KbNext ==
    \/ \E r \in Writers :
        \/ StartIngest(r) \/ IngestWrites(r) \/ IngestStops(r)
        \/ StartLint(r) \/ LintWrites(r) \/ LintStops(r)
        \/ OpenEditor(r) \/ PutEdit(r)
        \/ StartRebuild(r) \/ RebuildWrites(r) \/ RebuildStops(r)
        \/ Granted(r)
        \/ WriteTmp(r) \/ Replace(r) \/ WriteRaises(r)
    \/ ForgetIntent

KbSpec == KbInit /\ [][KbNext]_kbVars

-----------------------------------------------------------------------------
(* What a merge replaces is what it has merged into: no edit, lint or      *)
(* rebuild that was stored while the model worked is undone by it, as long *)
(* as the intent exists and no thread outlived its request (store.py       *)
(* "Serialize the three writers .. with a per-intent asyncio.Lock").       *)
IngestBuildsOnFile ==
    [][\A r \in Ingests :
          thread[r] = "replace" /\ file' # file /\ thread'[r] = "none" /\ known /\ outlived = {}
             => file = base[r]]_kbVars

(* An edit or a lint replaces the text it was made from, or is refused     *)
(* (put_kb "a stale token -> 409").  Fails: both compare before they wait  *)
(* for the lock.                                                           *)
NothingOverwrittenUnseen ==
    [][\A r \in Lints \cup Edits :
          thread[r] = "replace" /\ file' # file /\ thread'[r] = "none" /\ known /\ outlived = {}
             => file = base[r]]_kbVars
=============================================================================
