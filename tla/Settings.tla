------------------------------- MODULE Settings -------------------------------
(***************************************************************************)
(* The settings editor: .env as a list of lines (api/settings_envfile),    *)
(* what a save makes of it (api/settings), and the restarts that bring the *)
(* file into the two containers (api/settings_restart, api/restart).       *)
(*                                                                         *)
(* An environment is baked into a container when compose creates it.  A    *)
(* save runs without a yield until it awaits the rsshub restart.  The user *)
(* may edit the file by hand.  Names are checked before any of this;       *)
(* quoting, schema and the hidden keys are left out.                       *)
(***************************************************************************)
EXTENDS Integers, Sequences, SequencesExt, FiniteSets, Subsequences

CONSTANTS
    SembrKeys,   \* fields of Settings
    PassKeys,    \* RSSHub's variables
    Secrets,     \* keys shown as the mask
    Values,      \* bound: values of a line
    Rejected,    \* values Settings() does not accept
    Requests,    \* bound: save and restart requests
    MaxLines,    \* bound on the lines of the file
    MaxEnvWrites \* bound on the writes of the file

ASSUME KeysAssumption ==
    /\ SembrKeys \cap PassKeys = {} /\ Secrets \subseteq SembrKeys \cup PassKeys
    /\ "#" \notin SembrKeys \cup PassKeys /\ IsFiniteSet(SembrKeys \cup PassKeys)
ASSUME ValuesAssumption ==
    Rejected \subseteq Values /\ "mask" \notin Values /\ MaxEnvWrites \in Nat

SettingKeys == SembrKeys \cup PassKeys
Mask == "mask"
Comment == [key |-> "#", value |-> ""]

VARIABLES
    env,        \* the lines of .env: a comment, or a key with its value
    running,    \* the values the api container was created with
    rsshub,     \* those of the rsshub container, or Gone
    waiting,    \* requests whose rsshub recreation runs in a thread
    made,       \* requests made
    timer,      \* _spawn_self_force_recreate is scheduled
    helper,     \* the helper container: "none" | "sleeps" | "recreates"
    created,    \* the values its compose has read
    missed,     \* history: why a container may run on old values
    edits

settingsVars ==
    <<env, running, rsshub, waiting, made, timer, helper, created, missed, edits>>

EnvLine == [key : SettingKeys, value : Values \cup {""}] \cup {Comment}

LinesOf(lines, k) == {i \in DOMAIN lines : lines[i].key = k}
KeysIn(lines) == {lines[i].key : i \in DOMAIN lines}

(* values(): the last line of a key wins; without one it is empty. *)
ValueIn(lines, k) ==
    IF LinesOf(lines, k) = {} THEN "" ELSE lines[Max(LinesOf(lines, k))].value
ValuesOf(lines) == [k \in SettingKeys |-> ValueIn(lines, k)]

Environment == [SettingKeys -> Values \cup {""}]

Gone == [k \in SettingKeys |-> "gone"]

SettingsTypeOK ==
    /\ \A i \in DOMAIN env : env[i] \in EnvLine
    /\ running \in Environment /\ created \in Environment
    /\ rsshub \in Environment \cup {Gone}
    /\ waiting \subseteq made /\ made \subseteq Requests
    /\ timer \in BOOLEAN /\ helper \in {"none", "sleeps", "recreates"}
    /\ missed \subseteq {"late", "killed", "failed", "fallback", "edited"}
    /\ edits \in 0..MaxEnvWrites

Nothing == [k \in SettingKeys |-> ""]

SettingsInit ==
    /\ env = <<Comment>>
    /\ running = Nothing /\ created = Nothing /\ rsshub = Nothing
    /\ waiting = {} /\ made = {}
    /\ timer = FALSE /\ helper = "none"
    /\ missed = {}
    /\ edits = 0

-----------------------------------------------------------------------------
(* The file *)

(* upsert: the first line of the key, or a new one below the heading of    *)
(* the user's additions.                                                   *)
(* Mutant: a line is always added. *)
UpsertAppends(lines, line) == Append(lines, line)
Upsert(lines, line) ==
    IF LinesOf(lines, line.key) # {}
    THEN [lines EXCEPT ![Min(LinesOf(lines, line.key))] = line]
    ELSE Append(lines, line)

(* The lines of these keys. *)
OnlyKeys(lines, keys) == Subsequence(lines, {i \in DOMAIN lines : lines[i].key \in keys})

(* delete, key by key *)
Delete(lines, keys) == OnlyKeys(lines, KeysIn(lines) \ keys)

(* _coalesce_value: the mask of a secret stands for what is in the file. *)
(* Mutant: the mask is written. *)
CoalesceNothing(lines, k, v) == v
Coalesce(lines, k, v) == IF v = Mask /\ k \in Secrets THEN ValueIn(lines, k) ELSE v

(* A save changes some keys to values and deletes others. *)
Changed(lines, changes) ==
    {k \in DOMAIN changes :
        Coalesce(lines, k, changes[k]) # ValueIn(lines, k) \/ LinesOf(lines, k) = {}}

Applied(lines, changes, deletions) ==
    LET keys == SetToSeq(Changed(lines, changes))
        written == [j \in DOMAIN keys |->
                      [key |-> keys[j], value |-> Coalesce(lines, keys[j], changes[keys[j]])]]
    IN  Delete(FoldLeft(Upsert, lines, written), deletions)

Touched(lines, changes, deletions) ==
    Changed(lines, changes) \cup {k \in deletions : LinesOf(lines, k) # {} \/ k \in Changed(lines, changes)}

(* _validate_proposed_settings *)
Accepted(lines) == \A k \in SembrKeys : ValueIn(lines, k) \notin Rejected

-----------------------------------------------------------------------------
(* The requests *)

(* When the containers are to restart: rsshub first, and the api itself    *)
(* when that is over.                                                      *)
Restart(r, first) ==
    /\ made' = made \cup {r}
    /\ IF first THEN waiting' = waiting \cup {r} /\ UNCHANGED timer
       ELSE timer' = TRUE /\ UNCHANGED waiting

Save(r, changes, deletions) ==
    LET touched == Touched(env, changes, deletions)
        lines == Applied(env, changes, deletions)
    IN  /\ r \notin made /\ edits < MaxEnvWrites
        /\ touched # {}
        /\ touched \cap SembrKeys # {} => Accepted(lines)
        /\ Len(lines) <= MaxLines
        /\ env' = lines /\ edits' = edits + 1
        /\ Restart(r, touched \cap PassKeys # {})
        /\ missed' = IF helper = "recreates" THEN missed \cup {"late"} ELSE missed
        /\ UNCHANGED <<running, rsshub, helper, created>>

PostRestart(r) ==
    /\ r \notin made
    /\ Restart(r, TRUE)
    /\ UNCHANGED <<env, running, rsshub, helper, created, missed, edits>>

(* A line pasted into the file, whatever else is there. *)
HandEdit(k, v) ==
    /\ Len(env) < MaxLines /\ edits < MaxEnvWrites
    /\ env' = Append(env, [key |-> k, value |-> v]) /\ edits' = edits + 1
    /\ missed' = missed \cup {"edited"}
    /\ UNCHANGED <<running, rsshub, waiting, made, timer, helper, created>>

-----------------------------------------------------------------------------
(* The containers *)

(* compose recreates rsshub, or fails; a failure is only reported. *)
(* Mutant: a failed recreation ends the request. *)
ThenSelfWhenGood(good) == timer' = (timer \/ good)
ThenSelf(good) == timer' = TRUE

RestartRsshub(r, good) ==
    /\ r \in waiting
    /\ waiting' = waiting \ {r}
    /\ rsshub' = IF good THEN ValuesOf(env) ELSE rsshub
    /\ missed' = IF good THEN missed ELSE missed \cup {"failed"}
    /\ ThenSelf(good)
    /\ UNCHANGED <<env, running, made, helper, created, edits>>

(* After 1.5 seconds the helper is started; a second one is refused, for   *)
(* its name is taken.                                                      *)
SpawnHelper ==
    /\ timer
    /\ timer' = FALSE
    /\ helper' = IF helper = "none" THEN "sleeps" ELSE helper
    /\ UNCHANGED <<env, running, rsshub, waiting, made, created, missed, edits>>

(* The new process knows of no request; a compose that was recreating      *)
(* rsshub dies with the old one, between its stop and its create.          *)
Renewed ==
    /\ waiting' = {} /\ timer' = FALSE
    /\ rsshub' = IF waiting = {} THEN rsshub ELSE Gone

(* The helper cannot be started: SIGTERM, and the container restarts with  *)
(* the environment it was created with.                                    *)
FallBack ==
    /\ timer
    /\ Renewed
    /\ missed' = missed \cup {"fallback"} \cup (IF waiting = {} THEN {} ELSE {"killed"})
    /\ UNCHANGED <<env, running, made, helper, created, edits>>

(* Two seconds later its compose reads the file, *)
HelperReads ==
    /\ helper = "sleeps"
    /\ helper' = "recreates" /\ created' = ValuesOf(env)
    /\ UNCHANGED <<env, running, rsshub, waiting, made, timer, missed, edits>>

(* and replaces the api container. *)
HelperRecreates ==
    /\ helper = "recreates"
    /\ helper' = "none" /\ created' = Nothing
    /\ running' = created
    /\ Renewed
    /\ missed' = IF waiting = {} THEN missed ELSE missed \cup {"killed"}
    /\ UNCHANGED <<env, made, edits>>

SettingsNext ==
    \/ \E r \in Requests :
        \/ \E named \in SUBSET SettingKeys, deletions \in SUBSET SettingKeys :
              \E changes \in [named -> Values \cup {Mask}] :
                  /\ \A k \in named : changes[k] = Mask => k \in Secrets
                  /\ Save(r, changes, deletions)
        \/ PostRestart(r)
        \/ \E good \in BOOLEAN : RestartRsshub(r, good)
    \/ \E k \in SettingKeys, v \in Values : HandEdit(k, v)
    \/ SpawnHelper \/ FallBack \/ HelperReads \/ HelperRecreates

SettingsSpec == SettingsInit /\ [][SettingsNext]_settingsVars

-----------------------------------------------------------------------------
OneLineAKey(lines) == \A k \in SettingKeys : Cardinality(LinesOf(lines, k)) <= 1

(* No save leaves two lines of a key when there were none before, writes a *)
(* value Settings rejects into a good file, makes a secret out of its mask,*)
(* or moves the lines it does not name (settings_envfile "preserves        *)
(* comments, blank lines, and group ordering").                            *)
SavesKeepTheFile ==
    [][made' # made /\ env' # env /\ OneLineAKey(env) =>
          /\ OneLineAKey(env')
          /\ Accepted(env) => Accepted(env')
          /\ \A k \in SettingKeys : ValueIn(env', k) # Mask
          /\ LET kept == {k \in SettingKeys :
                            /\ ValueIn(env', k) = ValueIn(env, k)
                            /\ LinesOf(env, k) = {} <=> LinesOf(env', k) = {}}
                 Rest(lines) == OnlyKeys(lines, kept \cup {Comment.key})
             IN  Rest(env') = Rest(env)]_settingsVars

Quiet == waiting = {} /\ ~timer /\ helper = "none"

(* When all restarts are over both containers run on the values of the     *)
(* file, however saves and restarts overlap, unless compose or the helper  *)
(* could not be started, a save came when the helper's compose had read    *)
(* the file, a restart killed another request's compose, or the file was   *)
(* edited by hand (docs/modules/api.md "disk and process state converge    *)
(* regardless of the RSSHub outcome").                                     *)
ApiConverges ==
    Quiet /\ missed \subseteq {"failed", "killed"} => running = ValuesOf(env)
RsshubConverges ==
    Quiet /\ missed = {} => \A k \in PassKeys : rsshub[k] = ValueIn(env, k)
RestartsConverge == ApiConverges /\ RsshubConverges

(* The same, whatever overlaps, when everything could be started.  Fails:  *)
(* a save that comes when the helper has read the file is not applied.     *)
DiskAndProcessConverge ==
    Quiet /\ missed \subseteq {"failed", "killed", "late"} => running = ValuesOf(env)
=============================================================================
