------------------------------ MODULE Templates ------------------------------
(***************************************************************************)
(* The prompt templates of one kind: files in prompts/, and the intents    *)
(* that name them in SQLite (api/prompts, summarizer/templates, the        *)
(* template checks of api/intents).  A file operation and the checks       *)
(* before it run without a yield to the event loop; between the two sides  *)
(* there is an await.  Names are checked and contents tried before any of  *)
(* this; contents are left out, and so is the restore of a PUT that failed *)
(* (IntentRegistry).                                                       *)
(***************************************************************************)
EXTENDS Integers, Sequences, FiniteSets, SequencesExt

CONSTANTS
    Names,      \* bound: names of templates, "default" among them
    Intents,    \* bound: intents
    Renames     \* bound: rename requests in flight

Builtin == "default"

ASSUME BuiltinAssumption == Builtin \in Names
ASSUME RenamesAssumption == IsFiniteSet(Renames)

VARIABLES
    files,      \* the templates there are
    ref,        \* the template of an intent, as the shared connection reads it
    undo,       \* what ROLLBACK restores
    queue,      \* renames that hold or wait for the write lock, first come first
    rename,     \* a rename request: where it is, old and new name
    saving,     \* the template an intent's POST or PUT has checked, or "none"
    deleting,   \* a DELETE that found no reference: the name, or "none"
    excused     \* history: why an intent may name a missing file, or "no"

templateVars == <<files, ref, undo, queue, rename, saving, deleting, excused>>

Idle == [at |-> "idle", old |-> Builtin, new |-> Builtin]

TemplatesTypeOK ==
    /\ files \subseteq Names
    /\ ref \in [Intents -> Names] /\ undo \in [Intents -> Names]
    /\ queue \in Seq(Renames)
    /\ rename \in [Renames -> [at : {"idle", "moved", "updated"}, old : Names, new : Names]]
    /\ saving \in [Intents -> Names \cup {"none"}]
    /\ deleting \in Names \cup {"none"}
    /\ excused \in {"no", "overlap", "stopped", "rollback", "cancelled"}

TemplatesInit ==
    /\ files = {Builtin}
    /\ ref = [i \in Intents |-> Builtin] /\ undo = ref
    /\ queue = <<>>
    /\ rename = [q \in Renames |-> Idle]
    /\ saving = [i \in Intents |-> "none"]
    /\ deleting = "none"
    /\ excused = "no"

Because(why) == IF excused = "no" THEN why ELSE excused

(* Their order in the queue. *)
Position(q) == CHOOSE k \in DOMAIN queue : queue[k] = q
Before(p, q) == \E j, k \in DOMAIN queue : j < k /\ queue[j] = p /\ queue[k] = q

(* The rename in its transaction. *)
InTransaction == {q \in Renames : rename[q].at = "updated"}

-----------------------------------------------------------------------------
(* POST of a template; PUT replaces the content of a file that is there. *)
CreateTemplate(n) ==
    /\ n # Builtin /\ n \notin files
    /\ files' = files \cup {n}
    /\ UNCHANGED <<ref, undo, queue, rename, saving, deleting, excused>>

(* DELETE: the references are read, then the file is unlinked if it is     *)
(* still there.                                                            *)
Referenced(n) == \E i \in Intents : ref[i] = n

DeleteChecks(n) ==
    /\ deleting = "none" /\ n # Builtin
    /\ ~Referenced(n)
    /\ deleting' = n
    /\ UNCHANGED <<files, ref, undo, queue, rename, saving, excused>>

DeleteUnlinks ==
    /\ deleting # "none"
    /\ files' = files \ {deleting}
    /\ excused' = IF \/ Referenced(deleting) \/ \E i \in Intents : saving[i] = deleting
                     \/ \E q \in Renames : rename[q].at # "idle" /\ rename[q].new = deleting
                  THEN Because("overlap") ELSE excused
    /\ deleting' = "none"
    /\ UNCHANGED <<ref, undo, queue, rename, saving>>

(* POST or PUT of an intent: _validate_templates, the awaits of the        *)
(* handler, and the write in its own transaction.                          *)
IntentChecks(i, n) ==
    /\ saving[i] = "none" /\ n # ref[i] /\ n \in files
    /\ saving' = [saving EXCEPT ![i] = n]
    /\ UNCHANGED <<files, ref, undo, queue, rename, deleting, excused>>

IntentSaves(i) ==
    /\ saving[i] # "none" /\ InTransaction = {}
    /\ ref' = [ref EXCEPT ![i] = saving[i]]
    /\ saving' = [saving EXCEPT ![i] = "none"]
    /\ excused' = IF saving[i] \in files
                     /\ \A q \in Renames : rename[q].at # "idle" => saving[i] # rename[q].new
                  THEN excused ELSE Because("overlap")
    /\ UNCHANGED <<files, undo, queue, rename, deleting>>

-----------------------------------------------------------------------------
(* POST rename *)

(* The checks and the file. *)
RenameMoves(q, old, new) ==
    /\ rename[q].at = "idle" /\ Builtin \notin {old, new}
    /\ old \in files /\ new \notin files
    /\ files' = (files \ {old}) \cup {new}
    /\ rename' = [rename EXCEPT ![q] = [at |-> "moved", old |-> old, new |-> new]]
    /\ queue' = Append(queue, q)
    /\ UNCHANGED <<ref, undo, saving, deleting, excused>>

(* The lock, BEGIN, and rename_intent_template. *)
RenameUpdates(q) ==
    /\ rename[q].at = "moved" /\ Head(queue) = q
    /\ undo' = ref
    /\ ref' = [i \in Intents |-> IF ref[i] = rename[q].old THEN rename[q].new ELSE ref[i]]
    /\ rename' = [rename EXCEPT ![q].at = "updated"]
    /\ UNCHANGED <<files, queue, saving, deleting, excused>>

RenameDone(q) ==
    /\ rename' = [rename EXCEPT ![q] = Idle]
    /\ queue' = RemoveAt(queue, Position(q))
    /\ undo' = IF q \in InTransaction THEN [i \in Intents |-> Builtin] ELSE undo

RenameCommits(q) ==
    /\ rename[q].at = "updated"
    /\ RenameDone(q)
    /\ UNCHANGED <<files, ref, saving, deleting, excused>>

(* os.rename back: whatever is at the new name is moved, be it the file of *)
(* a later rename, and whatever is at the old name is replaced.            *)
(* Mutant: the file stays where it is. *)
MoveBackForgotten(q) ==
    UNCHANGED <<files, excused>>
MoveBack(q) ==
    IF rename[q].new \in files
    THEN /\ files' = (files \ {rename[q].new}) \cup {rename[q].old}
         /\ excused' = IF \/ rename[q].old \in files
                          \/ \E p \in Renames : Before(q, p) /\ rename[p].old = rename[q].new
                       THEN Because("overlap") ELSE excused
    ELSE UNCHANGED files /\ excused' = Because("rollback")

(* BEGIN, UPDATE or COMMIT fails, or the task is cancelled before COMMIT. *)
RenameRollsBack(q) ==
    /\ rename[q].at # "idle"
    /\ MoveBack(q)
    /\ ref' = IF rename[q].at = "updated" THEN undo ELSE ref
    /\ RenameDone(q)
    /\ UNCHANGED <<saving, deleting>>

(* Cancelled while it awaits COMMIT: the connection's thread commits, and  *)
(* the file is moved back.                                                 *)
RenameCancelledInCommit(q) ==
    /\ rename[q].at = "updated" /\ rename[q].new \in files
    /\ files' = (files \ {rename[q].new}) \cup {rename[q].old}
    /\ excused' = Because("cancelled")
    /\ RenameDone(q)
    /\ UNCHANGED <<ref, saving, deleting>>

(* The process stops: the open transaction is gone. *)
StopAndStart ==
    /\ \E q \in Renames : rename[q].at # "idle"
    /\ excused' = Because("stopped")
    /\ ref' = IF InTransaction = {} THEN ref ELSE undo
    /\ queue' = <<>>
    /\ rename' = [q \in Renames |-> Idle]
    /\ saving' = [i \in Intents |-> "none"]
    /\ deleting' = "none"
    /\ undo' = [i \in Intents |-> Builtin]
    /\ UNCHANGED files

TemplatesNext ==
    \/ \E n \in Names : CreateTemplate(n) \/ DeleteChecks(n)
    \/ DeleteUnlinks
    \/ \E i \in Intents : (\E n \in Names : IntentChecks(i, n)) \/ IntentSaves(i)
    \/ \E q \in Renames :
        \/ \E old, new \in Names : RenameMoves(q, old, new)
        \/ RenameUpdates(q) \/ RenameCommits(q)
        \/ RenameRollsBack(q) \/ RenameCancelledInCommit(q)
    \/ StopAndStart

TemplatesSpec == TemplatesInit /\ [][TemplatesNext]_templateVars

-----------------------------------------------------------------------------
Dangling == {i \in Intents : ref[i] \notin files}

(* When no rename is under way every intent names a template that is       *)
(* there, however renames follow or overtake each other and fail, unless   *)
(* an intent was written while its template was renamed or deleted, a name *)
(* was taken again during its rename, a rename was cut off by a stop, or   *)
(* moving the file back failed as well                                     *)
(* (rename_template_endpoint "Reverse the filesystem rename so file & DB   *)
(* stay in sync").  The built-in template is always there.                 *)
ReferencesResolve ==
    /\ Builtin \in files
    /\ (\A q \in Renames : rename[q].at = "idle") /\ excused = "no" => Dangling = {}

(* A cancelled rename leaves file and database in step ("Best-effort       *)
(* reverse-rename so file/DB stay in sync even if uvicorn cancels this     *)
(* task").  Fails: a rename that is cancelled while it awaits COMMIT.      *)
CancelStaysInSync ==
    (\A q \in Renames : rename[q].at = "idle") /\ excused = "cancelled" => Dangling = {}
=============================================================================
