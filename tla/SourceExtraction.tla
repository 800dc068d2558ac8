--------------------------- MODULE SourceExtraction ---------------------------
(***************************************************************************)
(* Structured extraction of the articles of one intent: the spec file pair *)
(* (summarizer/spec, spec_gen.save_spec_atomic, api/extraction_spec), the  *)
(* task that extracts the articles of one stored digest (api/history,      *)
(* mr_extract, mr_extract_tasks), the map of a digest in the making        *)
(* (map_for_reduce, pipeline._build_facts_articles_text), and the cache    *)
(* they share (db/mr_cache).                                               *)
(*                                                                         *)
(* A file is its content, 0 when missing; edits of the display-only keys   *)
(* of the json are left out.  An extraction is the pair it was made with.  *)
(* The files are read and written without a yield to the event loop.       *)
(***************************************************************************)
EXTENDS Integers, FiniteSets

CONSTANTS
    Articles,   \* cited by the digest, and recalled by the tick
    Tasks,      \* bound: extraction requests
    Digests,    \* bound: ticks with extraction enabled
    Slots,      \* reduce_concurrency
    Contents,   \* bound: contents of the spec, prompt and structure
    MaxSaves,   \* bound on the saves of the spec
    NoTask

ASSUME NoTaskAssumption == NoTask \notin Tasks
ASSUME RunsAssumption == Tasks \cap Digests = {}
ASSUME SavesAssumption == MaxSaves \in Nat

Runs == Tasks \cup Digests

VARIABLES
    md, json,   \* intent-{id}.md and .json
    intent,     \* the intent exists
    enabled,    \* extraction_enabled
    cache,      \* mr_extraction_cache: article, schema_version, what it was made with
    gate,       \* who holds the row lock of the digest
    status,     \* of a run: "new" | "running" | "done" | "error"
    spec,       \* the pair a run has loaded
    piece,      \* one article of a run
    facts,      \* of a digest: its records, article and what they were made with
    mode,       \* reduce_mode
    saves

extractVars == <<md, json, intent, enabled, cache, gate, status, spec, piece, facts, mode,
                 saves>>

File == Contents \cup {0}
Ended == {"done", "error"}
Pieces == Runs \X Articles
Entry == [article : Articles, version : File \X File, made : File \X File]

ExtractTypeOK ==
    /\ md \in File /\ json \in File /\ intent \in BOOLEAN /\ enabled \in BOOLEAN
    /\ cache \subseteq Entry
    /\ gate \in Tasks \cup {NoTask}
    /\ status \in [Runs -> {"new", "running", "done", "error"}]
    /\ spec \in [Runs -> File \X File]
    /\ piece \in [Pieces -> {"none", "check", "slot", "llm", "raised"} \cup Ended]
    /\ facts \in [Digests -> SUBSET (Articles \X (File \X File))]
    /\ saves \in 0..MaxSaves
    /\ mode \in [Digests -> {"none", "facts", "facts_partial", "facts_fallback_raw"}]

ExtractInit ==
    /\ md = 0 /\ json = 0 /\ intent = TRUE /\ enabled = FALSE
    /\ cache = {} /\ gate = NoTask
    /\ status = [r \in Runs |-> "new"]
    /\ spec = [r \in Runs |-> <<0, 0>>]
    /\ piece = [p \in Pieces |-> "none"]
    /\ facts = [d \in Digests |-> {}]
    /\ mode = [d \in Digests |-> "none"]
    /\ saves = 0

(* schema_version: the hash of both files. *)
(* Mutant: the prompt is not hashed. *)
VersionOfJson(pair) == <<0, pair[2]>>
Version(pair) == pair

Loadable == md # 0 /\ json # 0
Set(r, a, stage) == piece' = [piece EXCEPT ![<<r, a>>] = stage]
Cached(a, version) == {e \in cache : e.article = a /\ e.version = version}

-----------------------------------------------------------------------------
(* The spec *)

(* save_spec_atomic: the prompt is replaced, then the structure; the second *)
(* replacement may fail, or the process stop between them.                  *)
SaveSpec(c) ==
    /\ intent /\ saves < MaxSaves /\ saves' = saves + 1
    /\ md' = c /\ json' = c
    /\ UNCHANGED <<intent, enabled, cache, gate, status, spec, piece, facts, mode>>

SaveHalf(c) ==
    /\ intent /\ saves < MaxSaves /\ saves' = saves + 1
    /\ md' = c
    /\ UNCHANGED <<json, intent, enabled, cache, gate, status, spec, piece, facts, mode>>

EnableSpec(on) ==
    /\ intent /\ enabled # on
    /\ on => Loadable
    /\ enabled' = on
    /\ UNCHANGED <<md, json, intent, cache, gate, status, spec, piece, facts, mode, saves>>

-----------------------------------------------------------------------------
(* A run over the articles *)

Start(r) ==
    /\ status' = [status EXCEPT ![r] = "running"]
    /\ spec' = [spec EXCEPT ![r] = <<md, json>>]
    /\ piece' = [p \in Pieces |-> IF p[1] = r THEN "check" ELSE piece[p]]

(* post_extract_sources: 404, 422 and 409 change nothing. *)
(* Mutant: the gate of the digest is not looked at. *)
TryAcquireAlways(t) == gate' = t
TryAcquire(t) == gate = NoTask /\ gate' = t

PostExtract(t) ==
    /\ t \in Tasks /\ status[t] = "new" /\ intent /\ Loadable
    /\ TryAcquire(t)
    /\ Start(t)
    /\ UNCHANGED <<md, json, intent, enabled, cache, facts, mode, saves>>

(* The tick of an intent with extraction enabled comes to its articles. *)
StartFacts(d) ==
    /\ d \in Digests /\ status[d] = "new" /\ intent /\ enabled
    /\ IF Loadable
       THEN Start(d) /\ UNCHANGED mode
       ELSE /\ status' = [status EXCEPT ![d] = "done"]
            /\ mode' = [mode EXCEPT ![d] = "facts_fallback_raw"]
            /\ UNCHANGED <<spec, piece>>
    /\ UNCHANGED <<md, json, intent, enabled, cache, gate, facts, saves>>

(* The cache is asked before a slot is; override does not ask. *)
CacheHit(r, a) ==
    /\ piece[<<r, a>>] = "check"
    /\ Cached(a, Version(spec[r])) # {}
    /\ Set(r, a, "done")
    /\ facts' = [d \in Digests |-> IF d = r
                    THEN facts[d] \cup {<<a, e.made>> : e \in Cached(a, Version(spec[r]))}
                    ELSE facts[d]]
    /\ UNCHANGED <<md, json, intent, enabled, cache, gate, status, spec, mode, saves>>

CacheMiss(r, a, override) ==
    /\ piece[<<r, a>>] = "check"
    /\ (override /\ r \in Tasks) \/ Cached(a, Version(spec[r])) = {}
    /\ Set(r, a, "slot")
    /\ UNCHANGED <<md, json, intent, enabled, cache, gate, status, spec, facts, mode, saves>>

(* The question itself fails.  A task does not catch that: its gather      *)
(* raises, the task is over and its gate open, and the other articles go   *)
(* on.  A digest counts the article as failed.                             *)
CheckFails(r, a) ==
    /\ piece[<<r, a>>] = "check"
    /\ IF r \in Tasks
       THEN /\ Set(r, a, "raised")
            /\ status' = [status EXCEPT ![r] = "error"]
            /\ gate' = IF gate = r THEN NoTask ELSE gate
       ELSE Set(r, a, "error") /\ UNCHANGED <<status, gate>>
    /\ UNCHANGED <<md, json, intent, enabled, cache, spec, facts, mode, saves>>

TakeSlot(r, a) ==
    /\ piece[<<r, a>>] = "slot"
    /\ Cardinality({b \in Articles : piece[<<r, b>>] = "llm"}) < Slots
    /\ Set(r, a, "llm")
    /\ UNCHANGED <<md, json, intent, enabled, cache, gate, status, spec, facts, mode, saves>>

(* extract_one, put_extraction: the row of a deleted intent is refused. *)
Put(r, a) ==
    cache' = (cache \ Cached(a, Version(spec[r])))
                \cup {[article |-> a, version |-> Version(spec[r]), made |-> spec[r]]}

Extracted(r, a) ==
    /\ piece[<<r, a>>] = "llm"
    /\ IF intent
       THEN /\ Put(r, a)
            /\ Set(r, a, "done")
            /\ facts' = [d \in Digests |->
                            IF d = r THEN facts[d] \cup {<<a, spec[r]>>} ELSE facts[d]]
       ELSE Set(r, a, "error") /\ UNCHANGED <<cache, facts>>
    /\ UNCHANGED <<md, json, intent, enabled, gate, status, spec, mode, saves>>

(* The body is gone or empty, the model fails, or its answer does not fit. *)
ExtractFails(r, a) ==
    /\ piece[<<r, a>>] = "llm"
    /\ Set(r, a, "error")
    /\ UNCHANGED <<md, json, intent, enabled, cache, gate, status, spec, facts, mode, saves>>

AllEnded(r) == \A a \in Articles : piece[<<r, a>>] \in Ended

(* What a run held in memory. *)
Forget(r) ==
    /\ spec' = [spec EXCEPT ![r] = <<0, 0>>]
    /\ piece' = [p \in Pieces |-> IF p[1] = r THEN "none" ELSE piece[p]]

(* The end of run_extract_sources. *)
EndTask(t) ==
    /\ t \in Tasks /\ status[t] = "running" /\ AllEnded(t)
    /\ status' = [status EXCEPT ![t] = "done"]
    /\ gate' = NoTask
    /\ Forget(t)
    /\ UNCHANGED <<md, json, intent, enabled, cache, facts, mode, saves>>

(* What becomes of the records; without a claim in them, or over the       *)
(* budget, the digest falls back to the bodies.                            *)
EndFacts(d, usable) ==
    /\ d \in Digests /\ status[d] = "running" /\ AllEnded(d)
    /\ status' = [status EXCEPT ![d] = "done"]
    /\ mode' = [mode EXCEPT ![d] =
            IF facts[d] = {} \/ ~usable THEN "facts_fallback_raw"
            ELSE IF \E a \in Articles : piece[<<d, a>>] = "error" THEN "facts_partial"
            ELSE "facts"]
    /\ Forget(d) /\ facts' = [facts EXCEPT ![d] = {}]
    /\ UNCHANGED <<md, json, intent, enabled, cache, gate, saves>>

(* DELETE of the intent: the cached rows go with it. *)
DropIntent ==
    /\ intent
    /\ intent' = FALSE /\ enabled' = FALSE /\ cache' = {}
    /\ UNCHANGED <<md, json, gate, status, spec, piece, facts, mode, saves>>

(* Tasks, locks and digests in the making are in memory. *)
RestartExtraction ==
    /\ \E r \in Runs : status[r] = "running"
    /\ gate' = NoTask
    /\ status' = [r \in Runs |-> IF status[r] = "running" THEN "error" ELSE status[r]]
    /\ piece' = [p \in Pieces |-> "none"]
    /\ spec' = [r \in Runs |-> <<0, 0>>]
    /\ facts' = [d \in Digests |-> {}]
    /\ UNCHANGED <<md, json, intent, enabled, cache, mode, saves>>

ExtractNext ==
    \/ \E c \in Contents : SaveSpec(c) \/ SaveHalf(c)
    \/ \E on \in BOOLEAN : EnableSpec(on)
    \/ \E r \in Runs :
        \/ PostExtract(r) \/ StartFacts(r)
        \/ \E a \in Articles :
            \/ CacheHit(r, a) \/ CheckFails(r, a)
            \/ \E override \in BOOLEAN : CacheMiss(r, a, override)
            \/ TakeSlot(r, a) \/ Extracted(r, a) \/ ExtractFails(r, a)
        \/ EndTask(r)
        \/ \E usable \in BOOLEAN : EndFacts(r, usable)
    \/ DropIntent
    \/ RestartExtraction

ExtractSpec == ExtractInit /\ [][ExtractNext]_extractVars

-----------------------------------------------------------------------------
(* An extraction that is cached under a version, or serves in a digest that *)
(* has loaded this version, was made with exactly these two files, whoever  *)
(* saved, half saved or extracted in between (db/mr_cache "a stale          *)
(* extraction is never served against a new spec").                         *)
ExtractedAsKeyed ==
    /\ \A e \in cache : Version(e.made) = e.version /\ e.made \in Contents \X Contents
    /\ \A d \in Digests : \A f \in facts[d] : f[2] = spec[d]

(* The articles of a digest are extracted by one task at a time, unless    *)
(* the question about the cache failed and left articles behind; a task    *)
(* that is done has dealt with every article (mr_extract_tasks "a second   *)
(* extraction on the same digest is rejected .. instead of double-spending *)
(* LLM calls").                                                            *)
OneTaskPerDigest ==
    LET busy == {t \in Tasks : \E a \in Articles : piece[<<t, a>>] \in {"check", "slot", "llm"}}
    IN  /\ \A t, u \in busy : t # u => "error" \in {status[t], status[u]}
        /\ \A t \in Tasks : status[t] = "done" => t \notin busy
        /\ \A t \in Tasks : gate = t <=> status[t] = "running"
=============================================================================
