----------------------------- MODULE MCKnowledge -----------------------------
(***************************************************************************)
(* The components that keep what users and models wrote, which share no    *)
(* state with each other, in one run: one of them is chosen at the start   *)
(* and moves, the others stay as they are.                                 *)
(***************************************************************************)
EXTENDS EventIndex, KnowledgeBase, SourceExtraction, Templates, Settings, TLC

CONSTANTS ta, tb, tc    \* the templates besides default

VARIABLE moves          \* the component that was chosen

MCKeys == {<<1>>, <<1, 2>>}
MCNames == {Builtin, ta, tb, tc}

KnowledgeTypeOK ==
    /\ IndexTypeOK /\ KbTypeOK /\ ExtractTypeOK /\ TemplatesTypeOK /\ SettingsTypeOK
    /\ moves \in {"index", "kb", "extract", "templates", "settings"}

KnowledgeInit ==
    /\ IndexInit /\ KbInit /\ ExtractInit /\ TemplatesInit /\ SettingsInit
    /\ moves \in {"index", "kb", "extract", "templates", "settings"}

OthersStay ==
    /\ UNCHANGED moves
    /\ moves # "index" => UNCHANGED indexVars
    /\ moves # "kb" => UNCHANGED kbVars
    /\ moves # "extract" => UNCHANGED extractVars
    /\ moves # "templates" => UNCHANGED templateVars
    /\ moves # "settings" => UNCHANGED settingsVars

(* A run does not follow the templates beyond the first exception: of what *)
(* comes after it ReferencesResolve says nothing.                          *)
KnowledgeNext ==
    \/ moves = "index" /\ IndexNext /\ OthersStay
    \/ moves = "kb" /\ KbNext /\ OthersStay
    \/ moves = "extract" /\ ExtractNext /\ OthersStay
    \/ moves = "templates" /\ excused = "no" /\ TemplatesNext /\ OthersStay
    \/ moves = "settings" /\ SettingsNext /\ OthersStay

KnowledgeSpec ==
    KnowledgeInit
        /\ [][KnowledgeNext]_<<moves, indexVars, kbVars, extractVars, templateVars, settingsVars>>

KnowledgeSymmetry ==
    Permutations(Renames) \cup Permutations(Articles) \cup Permutations(Contents)
=============================================================================
