---------------------------- MODULE KnowledgeProofs ----------------------------
(***************************************************************************)
(* Components of run knowledge: the extraction of the articles of a        *)
(* digest, the writers of events.md, and the renames of the templates.     *)
(* They share no state; each has its invariant, its lemmas and its         *)
(* theorems.  The two files of this run are in FilesProofs.                *)
(***************************************************************************)
EXTENDS MCKnowledge, FilesProofs, SequenceTheorems

-----------------------------------------------------------------------------
(* The extraction of the articles of a digest *)

(* Whoever holds a piece of an article has loaded both files.              *)
PiecesHaveSpec ==
  \A r \in Runs, a \in Articles : piece[<<r, a>>] # "none" => spec[r] \in Contents \X Contents

(* A digest has no records before it begins, and a run has no piece before *)
(* it begins or after it is done.                                          *)
NothingAhead ==
  /\ \A d \in Digests : status[d] = "new" => facts[d] = {}
  /\ \A r \in Runs : status[r] \in {"new", "done"} => \A a \in Articles : piece[<<r, a>>] = "none"

GateIsRunning == \A t \in Tasks : gate = t <=> status[t] = "running"

CacheAsKeyed == \A e \in cache : e.version = e.made /\ e.made \in Contents \X Contents
FactsAsLoaded == \A d \in Digests : \A f \in facts[d] : f[2] = spec[d]

ExtractInv ==
  /\ ExtractTypeOK
  /\ PiecesHaveSpec /\ NothingAhead /\ GateIsRunning
  /\ CacheAsKeyed /\ FactsAsLoaded

Stages == {"none", "check", "slot", "llm", "raised", "done", "error"}
Pairs == File \X File

LEMMA ExtractInitial == ExtractInit => ExtractInv
<1> SUFFICES ASSUME ExtractInit PROVE ExtractInv
  OBVIOUS
<1>1. ExtractTypeOK
  <2>1. 0 \in File /\ <<0, 0>> \in File \X File /\ 0 \in 0..MaxSaves
    BY SavesAssumption DEF File
  <2> QED
    BY <2>1 DEF ExtractInit, ExtractTypeOK
<1>2. \A r \in Runs, a \in Articles : piece[<<r, a>>] = "none"
  BY DEF ExtractInit, Pieces
<1>3. PiecesHaveSpec /\ NothingAhead
  BY <1>2 DEF ExtractInit, PiecesHaveSpec, NothingAhead, Runs
<1>4. GateIsRunning
  BY NoTaskAssumption DEF ExtractInit, GateIsRunning, Runs
<1>5. CacheAsKeyed /\ FactsAsLoaded
  BY DEF ExtractInit, CacheAsKeyed, FactsAsLoaded
<1> QED
  BY <1>1, <1>3, <1>4, <1>5 DEF ExtractInv

(* One piece of a run moves on. *)
LEMMA PieceMoves ==
  ASSUME ExtractTypeOK, NEW r \in Runs, NEW a \in Articles, NEW stage \in Stages,
         Set(r, a, stage)
  PROVE  /\ piece' \in [Pieces -> Stages]
         /\ piece'[<<r, a>>] = stage
         /\ \A q \in Runs, b \in Articles : <<q, b>> # <<r, a>> => piece'[<<q, b>>] = piece[<<q, b>>]
  BY DEF ExtractTypeOK, Set, Stages, Pieces, Ended

LEMMA RunStarts ==
  ASSUME ExtractInv, NEW r \in Runs, status[r] = "new", Loadable, Start(r)
  PROVE  /\ status' \in [Runs -> {"new", "running", "done", "error"}]
         /\ spec' \in [Runs -> Pairs]
         /\ piece' \in [Pieces -> Stages]
         /\ status'[r] = "running" /\ spec'[r] \in Contents \X Contents
         /\ \A q \in Runs \ {r} :
              /\ status'[q] = status[q] /\ spec'[q] = spec[q]
              /\ \A a \in Articles : piece'[<<q, a>>] = piece[<<q, a>>]
<1>1. <<md, json>> \in Contents \X Contents /\ <<md, json>> \in Pairs
  BY DEF ExtractInv, ExtractTypeOK, Loadable, File, Pairs
<1>2. /\ status' \in [Runs -> {"new", "running", "done", "error"}]
      /\ status'[r] = "running" /\ \A q \in Runs \ {r} : status'[q] = status[q]
  BY DEF ExtractInv, ExtractTypeOK, Start
<1>3. /\ spec' \in [Runs -> Pairs] /\ spec'[r] = <<md, json>>
      /\ \A q \in Runs \ {r} : spec'[q] = spec[q]
  BY <1>1 DEF ExtractInv, ExtractTypeOK, Start, Pairs
<1>4. \A p \in Pieces : piece[p] \in Stages
  BY DEF ExtractInv, ExtractTypeOK, Stages, Ended
<1>5. piece' = [p \in Pieces |-> IF p[1] = r THEN "check" ELSE piece[p]]
  BY DEF Start
<1>6. piece' \in [Pieces -> Stages]
  BY <1>4, <1>5 DEF Stages
<1>7. \A q \in Runs \ {r}, a \in Articles : piece'[<<q, a>>] = piece[<<q, a>>]
  BY <1>5 DEF Pieces
<1> QED
  BY <1>1, <1>2, <1>3, <1>6, <1>7

LEMMA RunForgets ==
  ASSUME ExtractInv, NEW r \in Runs, Forget(r)
  PROVE  /\ spec' \in [Runs -> Pairs]
         /\ piece' \in [Pieces -> Stages]
         /\ \A a \in Articles : piece'[<<r, a>>] = "none"
         /\ \A q \in Runs \ {r} :
              /\ spec'[q] = spec[q]
              /\ \A a \in Articles : piece'[<<q, a>>] = piece[<<q, a>>]
<1>1. spec' \in [Runs -> Pairs] /\ \A q \in Runs \ {r} : spec'[q] = spec[q]
  BY DEF ExtractInv, ExtractTypeOK, Forget, Pairs, File
<1>2. \A p \in Pieces : piece[p] \in Stages
  BY DEF ExtractInv, ExtractTypeOK, Stages, Ended
<1>3. piece' = [p \in Pieces |-> IF p[1] = r THEN "none" ELSE piece[p]]
  BY DEF Forget
<1>4. piece' \in [Pieces -> Stages]
  BY <1>2, <1>3 DEF Stages
<1>5. /\ \A a \in Articles : piece'[<<r, a>>] = "none"
      /\ \A q \in Runs \ {r}, a \in Articles : piece'[<<q, a>>] = piece[<<q, a>>]
  BY <1>3 DEF Pieces
<1> QED
  BY <1>1, <1>4, <1>5

(* A piece that a run holds moves on, and the run may fail. *)
LEMMA HeldPieceMoves ==
  ASSUME ExtractInv, NEW r \in Runs, NEW a \in Articles, NEW stage \in Stages,
         piece[<<r, a>>] # "none", Set(r, a, stage), UNCHANGED spec,
         \A t \in Runs : status'[t] \in {"new", "done"} => status[t] = status'[t]
  PROVE  /\ PiecesHaveSpec'
         /\ \A t \in Runs :
              status'[t] \in {"new", "done"} => \A b \in Articles : piece'[<<t, b>>] = "none"
<1>1. /\ piece'[<<r, a>>] = stage
      /\ \A q \in Runs, b \in Articles : <<q, b>> # <<r, a>> => piece'[<<q, b>>] = piece[<<q, b>>]
  BY PieceMoves DEF ExtractInv
<1>2. \A q \in Runs, b \in Articles : piece'[<<q, b>>] # "none" => piece[<<q, b>>] # "none"
  BY <1>1
<1>3. PiecesHaveSpec'
  BY <1>2 DEF ExtractInv, PiecesHaveSpec
<1>4. ASSUME NEW t \in Runs, status'[t] \in {"new", "done"}, NEW b \in Articles
      PROVE  piece'[<<t, b>>] = "none"
  <2>1. piece[<<t, b>>] = "none"
    BY <1>4 DEF ExtractInv, NothingAhead
  <2> QED
    BY <1>2, <2>1
<1> QED
  BY <1>3, <1>4

(* The actions that leave the runs as they are. *)
LEMMA RunsStay ==
  ASSUME ExtractInv, UNCHANGED <<gate, status, spec, piece, facts, mode>>,
         md' \in File, json' \in File, intent' \in BOOLEAN, enabled' \in BOOLEAN,
         saves' \in 0..MaxSaves, cache' = cache \/ cache' = {}
  PROVE  ExtractInv'
<1>1. ExtractTypeOK'
  BY DEF ExtractInv, ExtractTypeOK
<1>2. PiecesHaveSpec' /\ NothingAhead' /\ GateIsRunning' /\ CacheAsKeyed' /\ FactsAsLoaded'
  BY DEF ExtractInv, PiecesHaveSpec, NothingAhead, GateIsRunning, CacheAsKeyed, FactsAsLoaded
<1> QED
  BY <1>1, <1>2 DEF ExtractInv

LEMMA SpecStep ==
  ASSUME ExtractInv,
         \/ \E c \in Contents : SaveSpec(c) \/ SaveHalf(c)
         \/ \E on \in BOOLEAN : EnableSpec(on)
         \/ DropIntent
         \/ UNCHANGED extractVars
  PROVE  ExtractInv'
<1>1. md \in File /\ json \in File /\ intent \in BOOLEAN /\ enabled \in BOOLEAN /\ saves \in 0..MaxSaves
  BY DEF ExtractInv, ExtractTypeOK
<1>2. ASSUME NEW c \in Contents, SaveSpec(c) \/ SaveHalf(c)
      PROVE  ExtractInv'
  <2>1. saves' \in 0..MaxSaves /\ c \in File
    BY <1>1, <1>2, SavesAssumption DEF SaveSpec, SaveHalf, File
  <2> QED
    BY <1>1, <1>2, <2>1, RunsStay DEF SaveSpec, SaveHalf
<1>3. ASSUME NEW on \in BOOLEAN, EnableSpec(on)
      PROVE  ExtractInv'
  BY <1>1, <1>3, RunsStay DEF EnableSpec
<1>4. CASE DropIntent
  BY <1>1, <1>4, RunsStay DEF DropIntent
<1>5. CASE UNCHANGED extractVars
  BY <1>1, <1>5, RunsStay DEF extractVars
<1> QED
  BY <1>2, <1>3, <1>4, <1>5

LEMMA PostStep ==
  ASSUME ExtractInv, NEW t \in Runs, PostExtract(t)
  PROVE  ExtractInv'
<1>1. t \in Tasks /\ t \notin Digests /\ status[t] = "new" /\ Loadable /\ Start(t)
  BY RunsAssumption DEF PostExtract
<1>2. gate = NoTask /\ gate' = t /\ UNCHANGED <<md, json, intent, enabled, cache, facts, mode, saves>>
  BY DEF PostExtract, TryAcquire
<1>3. /\ status' \in [Runs -> {"new", "running", "done", "error"}]
      /\ spec' \in [Runs -> Pairs]
      /\ piece' \in [Pieces -> Stages]
      /\ status'[t] = "running" /\ spec'[t] \in Contents \X Contents
      /\ \A q \in Runs \ {t} :
           /\ status'[q] = status[q] /\ spec'[q] = spec[q]
           /\ \A a \in Articles : piece'[<<q, a>>] = piece[<<q, a>>]
  BY <1>1, RunStarts
<1>4. ExtractTypeOK'
  BY <1>1, <1>2, <1>3 DEF ExtractInv, ExtractTypeOK, Pairs, Stages, Ended
<1>5. PiecesHaveSpec'
  BY <1>3 DEF ExtractInv, PiecesHaveSpec
<1>6. \A d \in Digests : status'[d] = status[d] /\ spec'[d] = spec[d]
  BY <1>1, <1>3 DEF Runs
<1>7. \A u \in Tasks \ {t} :
        status'[u] = status[u] /\ \A a \in Articles : piece'[<<u, a>>] = piece[<<u, a>>]
  BY <1>1, <1>3 DEF Runs
<1>8. NothingAhead'
  BY <1>2, <1>3, <1>6, <1>7 DEF ExtractInv, NothingAhead
<1>9. GateIsRunning'
  BY <1>1, <1>2, <1>3, <1>7, NoTaskAssumption DEF ExtractInv, GateIsRunning
<1>10. CacheAsKeyed' /\ FactsAsLoaded'
  BY <1>2, <1>6 DEF ExtractInv, CacheAsKeyed, FactsAsLoaded
<1> QED
  BY <1>4, <1>5, <1>8, <1>9, <1>10 DEF ExtractInv

LEMMA FactsStartStep ==
  ASSUME ExtractInv, NEW d \in Runs, StartFacts(d)
  PROVE  ExtractInv'
<1>1. d \in Digests /\ d \notin Tasks /\ status[d] = "new" /\ facts[d] = {}
  BY RunsAssumption DEF StartFacts, ExtractInv, NothingAhead
<1>2. UNCHANGED <<md, json, intent, enabled, cache, gate, facts, saves>>
  BY DEF StartFacts
<1>3. \A e \in Digests : e \in Runs
  BY DEF Runs
<1>4. \A t \in Tasks : t \in Runs
  BY DEF Runs
<1>5. CASE Loadable
  <2>1. Start(d) /\ UNCHANGED mode
    BY <1>5 DEF StartFacts
  <2>2. /\ status' \in [Runs -> {"new", "running", "done", "error"}]
        /\ spec' \in [Runs -> Pairs]
        /\ piece' \in [Pieces -> Stages]
        /\ status'[d] = "running" /\ spec'[d] \in Contents \X Contents
        /\ \A q \in Runs \ {d} :
             /\ status'[q] = status[q] /\ spec'[q] = spec[q]
             /\ \A a \in Articles : piece'[<<q, a>>] = piece[<<q, a>>]
    BY <1>1, <1>5, <2>1, RunStarts
  <2>3. ExtractTypeOK'
    BY <1>2, <2>1, <2>2 DEF ExtractInv, ExtractTypeOK, Pairs, Stages, Ended
  <2>4. PiecesHaveSpec'
    BY <2>2 DEF ExtractInv, PiecesHaveSpec
  <2>5. NothingAhead'
    BY <1>1, <1>2, <1>3, <1>4, <2>2 DEF ExtractInv, NothingAhead
  <2>6. GateIsRunning'
    BY <1>1, <1>2, <1>4, <2>2 DEF ExtractInv, GateIsRunning
  <2>7. CacheAsKeyed' /\ FactsAsLoaded'
    BY <1>1, <1>2, <1>3, <2>2 DEF ExtractInv, CacheAsKeyed, FactsAsLoaded
  <2> QED
    BY <2>3, <2>4, <2>5, <2>6, <2>7 DEF ExtractInv
<1>6. CASE ~Loadable
  <2>1. /\ status' = [status EXCEPT ![d] = "done"] /\ UNCHANGED <<spec, piece>>
        /\ mode' = [mode EXCEPT ![d] = "facts_fallback_raw"]
    BY <1>6 DEF StartFacts
  <2>2. status' \in [Runs -> {"new", "running", "done", "error"}]
        /\ \A q \in Runs \ {d} : status'[q] = status[q]
        /\ status'[d] = "done"
    BY <2>1 DEF ExtractInv, ExtractTypeOK
  <2>3. ExtractTypeOK'
    BY <1>2, <2>1, <2>2 DEF ExtractInv, ExtractTypeOK
  <2>4. PiecesHaveSpec' /\ CacheAsKeyed' /\ FactsAsLoaded'
    BY <1>2, <2>1 DEF ExtractInv, PiecesHaveSpec, CacheAsKeyed, FactsAsLoaded
  <2>5. NothingAhead'
    BY <1>1, <1>2, <1>3, <1>4, <2>1, <2>2 DEF ExtractInv, NothingAhead
  <2>6. GateIsRunning'
    BY <1>1, <1>2, <1>4, <2>2 DEF ExtractInv, GateIsRunning
  <2> QED
    BY <2>3, <2>4, <2>5, <2>6 DEF ExtractInv
<1> QED
  BY <1>5, <1>6

(* The records of a digest are kept, or one made with its spec is added. *)
LEMMA PieceStep ==
  ASSUME ExtractInv, NEW r \in Runs, NEW a \in Articles, NEW stage \in Stages \ {"none"},
         piece[<<r, a>>] # "none", Set(r, a, stage),
         UNCHANGED <<md, json, intent, enabled, spec, mode, saves>>,
         UNCHANGED <<gate, status>>, cache' \subseteq Entry, CacheAsKeyed',
         facts' \in [Digests -> SUBSET (Articles \X Pairs)], FactsAsLoaded',
         \A d \in Digests \ {r} : facts'[d] = facts[d]
  PROVE  ExtractInv'
<1>1. ExtractTypeOK'
  BY PieceMoves DEF ExtractInv, ExtractTypeOK, Pairs, Stages, Ended
<1>2. /\ PiecesHaveSpec'
      /\ \A t \in Runs :
           status'[t] \in {"new", "done"} => \A b \in Articles : piece'[<<t, b>>] = "none"
  BY HeldPieceMoves
<1>3. ASSUME NEW d \in Digests, status'[d] = "new"
      PROVE  facts'[d] = {}
  <2>1. CASE d # r
    BY <1>3, <2>1 DEF ExtractInv, NothingAhead
  <2>2. CASE d = r
    BY <1>3, <2>2 DEF ExtractInv, NothingAhead
  <2> QED
    BY <2>1, <2>2
<1>4. GateIsRunning'
  BY DEF ExtractInv, GateIsRunning
<1> QED
  BY <1>1, <1>2, <1>3, <1>4 DEF ExtractInv, NothingAhead

LEMMA CacheHitStep ==
  ASSUME ExtractInv, NEW r \in Runs, NEW a \in Articles, CacheHit(r, a)
  PROVE  ExtractInv'
<1> DEFINE found == {<<a, e.made>> : e \in Cached(a, Version(spec[r]))}
<1>1. /\ piece[<<r, a>>] = "check" /\ Set(r, a, "done")
      /\ facts' = [d \in Digests |-> IF d = r THEN facts[d] \cup found ELSE facts[d]]
      /\ UNCHANGED <<md, json, intent, enabled, cache, gate, status, spec, mode, saves>>
  BY DEF CacheHit
<1>2. \A f \in found : f \in Articles \X Pairs /\ f[2] = spec[r]
  BY DEF Cached, Version, ExtractInv, ExtractTypeOK, CacheAsKeyed, Entry, Pairs
<1> HIDE DEF found
<1>3. facts' \in [Digests -> SUBSET (Articles \X Pairs)]
  BY <1>1, <1>2 DEF ExtractInv, ExtractTypeOK, Pairs
<1>4. FactsAsLoaded'
  BY <1>1, <1>2 DEF ExtractInv, FactsAsLoaded
<1>5. cache' \subseteq Entry /\ CacheAsKeyed'
  BY <1>1 DEF ExtractInv, ExtractTypeOK, CacheAsKeyed
<1> QED
  BY <1>1, <1>3, <1>4, <1>5, PieceStep DEF Stages

LEMMA PieceOnlyStep ==
  ASSUME ExtractInv, NEW r \in Runs, NEW a \in Articles, NEW stage \in Stages \ {"none"},
         piece[<<r, a>>] # "none", Set(r, a, stage),
         UNCHANGED <<md, json, intent, enabled, cache, gate, status, spec, facts, mode, saves>>
  PROVE  ExtractInv'
<1>1. cache' \subseteq Entry /\ CacheAsKeyed' /\ FactsAsLoaded'
      /\ facts' \in [Digests -> SUBSET (Articles \X Pairs)]
  BY DEF ExtractInv, ExtractTypeOK, CacheAsKeyed, FactsAsLoaded, Pairs
<1> QED
  BY <1>1, PieceStep

LEMMA ExtractedStep ==
  ASSUME ExtractInv, NEW r \in Runs, NEW a \in Articles, Extracted(r, a)
  PROVE  ExtractInv'
<1>1. /\ piece[<<r, a>>] = "llm"
      /\ UNCHANGED <<md, json, intent, enabled, gate, status, spec, mode, saves>>
  BY DEF Extracted
<1>2. spec[r] \in Contents \X Contents /\ spec[r] \in Pairs
  BY <1>1 DEF ExtractInv, PiecesHaveSpec, ExtractTypeOK, Pairs
<1>3. CASE intent
  <2>1. /\ Put(r, a) /\ Set(r, a, "done")
        /\ facts' = [d \in Digests |-> IF d = r THEN facts[d] \cup {<<a, spec[r]>>} ELSE facts[d]]
    BY <1>3 DEF Extracted
  <2>2. cache' \subseteq Entry
    BY <1>2, <2>1 DEF Put, Version, ExtractInv, ExtractTypeOK, Entry, Pairs
  <2>3. CacheAsKeyed'
    BY <1>2, <2>1 DEF Put, Version, ExtractInv, CacheAsKeyed
  <2>4. facts' \in [Digests -> SUBSET (Articles \X Pairs)]
    BY <1>2, <2>1 DEF ExtractInv, ExtractTypeOK, Pairs
  <2>5. FactsAsLoaded'
    BY <1>1, <2>1 DEF ExtractInv, FactsAsLoaded
  <2> QED
    BY <1>1, <2>1, <2>2, <2>3, <2>4, <2>5, PieceStep DEF Stages
<1>4. CASE ~intent
  BY <1>1, <1>4, PieceOnlyStep DEF Extracted, Stages
<1> QED
  BY <1>3, <1>4

(* A task whose question failed leaves its other pieces behind.            *)
LEMMA CheckFailsStep ==
  ASSUME ExtractInv, NEW r \in Runs, NEW a \in Articles, CheckFails(r, a)
  PROVE  ExtractInv'
<1>1. /\ piece[<<r, a>>] = "check"
      /\ UNCHANGED <<md, json, intent, enabled, cache, spec, facts, mode, saves>>
  BY DEF CheckFails
<1>2. CASE r \notin Tasks
  BY <1>1, <1>2, PieceOnlyStep DEF CheckFails, Stages
<1>3. CASE r \in Tasks
  <2>1. /\ Set(r, a, "raised") /\ status' = [status EXCEPT ![r] = "error"]
        /\ gate' = IF gate = r THEN NoTask ELSE gate
    BY <1>3 DEF CheckFails
  <2>2. /\ status' \in [Runs -> {"new", "running", "done", "error"}]
        /\ status'[r] = "error" /\ \A q \in Runs \ {r} : status'[q] = status[q]
        /\ gate' \in Tasks \cup {NoTask}
    BY <2>1 DEF ExtractInv, ExtractTypeOK
  <2>3. piece' \in [Pieces -> Stages]
    BY <2>1, PieceMoves DEF Stages, ExtractInv
  <2>4. ExtractTypeOK'
    BY <1>1, <2>2, <2>3 DEF ExtractInv, ExtractTypeOK, Stages, Ended
  <2>5. \A q \in Runs : status'[q] \in {"new", "done"} => status[q] = status'[q]
    BY <2>2
  <2>6. /\ PiecesHaveSpec'
        /\ \A t \in Runs :
             status'[t] \in {"new", "done"} => \A b \in Articles : piece'[<<t, b>>] = "none"
    BY <1>1, <2>1, <2>5, HeldPieceMoves DEF Stages
  <2>7. \A d \in Digests : status'[d] = "new" => facts'[d] = {}
    BY <1>1, <2>5 DEF ExtractInv, NothingAhead, Runs
  <2>8. ASSUME NEW t \in Tasks
        PROVE  gate' = t <=> status'[t] = "running"
    BY <1>3, <2>1, <2>2, NoTaskAssumption DEF ExtractInv, GateIsRunning, Runs
  <2>9. CacheAsKeyed' /\ FactsAsLoaded'
    BY <1>1 DEF ExtractInv, CacheAsKeyed, FactsAsLoaded
  <2> QED
    BY <2>4, <2>6, <2>7, <2>8, <2>9 DEF ExtractInv, NothingAhead, GateIsRunning
<1> QED
  BY <1>2, <1>3

LEMMA EndTaskStep ==
  ASSUME ExtractInv, NEW t \in Runs, EndTask(t)
  PROVE  ExtractInv'
<1>1. /\ t \in Tasks /\ t \notin Digests /\ status[t] = "running" /\ gate' = NoTask
      /\ status' = [status EXCEPT ![t] = "done"] /\ Forget(t)
      /\ UNCHANGED <<md, json, intent, enabled, cache, facts, mode, saves>>
  BY RunsAssumption DEF EndTask
<1>2. /\ status' \in [Runs -> {"new", "running", "done", "error"}]
      /\ status'[t] = "done" /\ \A q \in Runs \ {t} : status'[q] = status[q]
  BY <1>1 DEF ExtractInv, ExtractTypeOK
<1>3. /\ spec' \in [Runs -> Pairs]
      /\ piece' \in [Pieces -> Stages]
      /\ \A a \in Articles : piece'[<<t, a>>] = "none"
      /\ \A q \in Runs \ {t} :
           /\ spec'[q] = spec[q]
           /\ \A a \in Articles : piece'[<<q, a>>] = piece[<<q, a>>]
  BY <1>1, RunForgets
<1>4. ExtractTypeOK'
  BY <1>1, <1>2, <1>3 DEF ExtractInv, ExtractTypeOK, Stages, Ended, Pairs
<1>5. PiecesHaveSpec'
  BY <1>3 DEF ExtractInv, PiecesHaveSpec
<1>6. NothingAhead'
  BY <1>1, <1>2, <1>3 DEF ExtractInv, NothingAhead, Runs
<1>7. GateIsRunning'
  BY <1>1, <1>2, NoTaskAssumption DEF ExtractInv, GateIsRunning, Runs
<1>8. CacheAsKeyed' /\ FactsAsLoaded'
  BY <1>1, <1>3 DEF ExtractInv, CacheAsKeyed, FactsAsLoaded, Runs
<1> QED
  BY <1>4, <1>5, <1>6, <1>7, <1>8 DEF ExtractInv

LEMMA EndFactsStep ==
  ASSUME ExtractInv, NEW d \in Runs, NEW usable \in BOOLEAN, EndFacts(d, usable)
  PROVE  ExtractInv'
<1> DEFINE becomes ==
      IF facts[d] = {} \/ ~usable THEN "facts_fallback_raw"
      ELSE IF \E a \in Articles : piece[<<d, a>>] = "error" THEN "facts_partial"
      ELSE "facts"
<1>1. /\ d \in Digests /\ d \notin Tasks
      /\ status' = [status EXCEPT ![d] = "done"] /\ Forget(d)
      /\ facts' = [facts EXCEPT ![d] = {}] /\ mode' = [mode EXCEPT ![d] = becomes]
      /\ UNCHANGED <<md, json, intent, enabled, cache, gate, saves>>
  BY RunsAssumption DEF EndFacts
<1>2. becomes \in {"none", "facts", "facts_partial", "facts_fallback_raw"}
  OBVIOUS
<1> HIDE DEF becomes
<1>3. /\ status' \in [Runs -> {"new", "running", "done", "error"}]
      /\ status'[d] = "done" /\ \A q \in Runs \ {d} : status'[q] = status[q]
  BY <1>1 DEF ExtractInv, ExtractTypeOK
<1>4. /\ spec' \in [Runs -> Pairs]
      /\ piece' \in [Pieces -> Stages]
      /\ \A a \in Articles : piece'[<<d, a>>] = "none"
      /\ \A q \in Runs \ {d} :
           /\ spec'[q] = spec[q]
           /\ \A a \in Articles : piece'[<<q, a>>] = piece[<<q, a>>]
  BY <1>1, RunForgets
<1>5. /\ facts' \in [Digests -> SUBSET (Articles \X Pairs)]
      /\ facts'[d] = {} /\ \A e \in Digests \ {d} : facts'[e] = facts[e]
  BY <1>1 DEF ExtractInv, ExtractTypeOK, Pairs
<1>6. mode' \in [Digests -> {"none", "facts", "facts_partial", "facts_fallback_raw"}]
  BY <1>1, <1>2 DEF ExtractInv, ExtractTypeOK
<1>7. ExtractTypeOK'
  BY <1>1, <1>3, <1>4, <1>5, <1>6 DEF ExtractInv, ExtractTypeOK, Stages, Ended, Pairs
<1>8. PiecesHaveSpec'
  BY <1>4 DEF ExtractInv, PiecesHaveSpec
<1>9. NothingAhead'
  BY <1>3, <1>4, <1>5 DEF ExtractInv, NothingAhead, Runs
<1>10. GateIsRunning'
  BY <1>1, <1>3 DEF ExtractInv, GateIsRunning, Runs
<1>11. CacheAsKeyed'
  BY <1>1 DEF ExtractInv, CacheAsKeyed
<1>12. FactsAsLoaded'
  BY <1>4, <1>5 DEF ExtractInv, FactsAsLoaded, Runs
<1> QED
  BY <1>7, <1>8, <1>9, <1>10, <1>11, <1>12 DEF ExtractInv

LEMMA RestartStep ==
  ASSUME ExtractInv, RestartExtraction
  PROVE  ExtractInv'
<1>1. /\ gate' = NoTask
      /\ status' = [r \in Runs |-> IF status[r] = "running" THEN "error" ELSE status[r]]
      /\ piece' = [p \in Pieces |-> "none"]
      /\ spec' = [r \in Runs |-> <<0, 0>>]
      /\ facts' = [d \in Digests |-> {}]
      /\ UNCHANGED <<md, json, intent, enabled, cache, mode, saves>>
  BY DEF RestartExtraction
<1>2. \A r \in Runs, a \in Articles : piece'[<<r, a>>] = "none"
  BY <1>1 DEF Pieces
<1>3. status' \in [Runs -> {"new", "running", "done", "error"}]
  BY <1>1 DEF ExtractInv, ExtractTypeOK
<1>4. ExtractTypeOK'
  <2>1. <<0, 0>> \in File \X File
    BY DEF File
  <2> QED
    BY <1>1, <1>3, <2>1 DEF ExtractInv, ExtractTypeOK
<1>5. PiecesHaveSpec' /\ NothingAhead'
  BY <1>1, <1>2 DEF PiecesHaveSpec, NothingAhead
<1>6. GateIsRunning'
  BY <1>1, NoTaskAssumption DEF GateIsRunning, Runs
<1>7. CacheAsKeyed' /\ FactsAsLoaded'
  BY <1>1 DEF ExtractInv, CacheAsKeyed, FactsAsLoaded
<1> QED
  BY <1>4, <1>5, <1>6, <1>7 DEF ExtractInv

LEMMA ExtractStep == ExtractInv /\ [ExtractNext]_extractVars => ExtractInv'
<1> SUFFICES ASSUME ExtractInv, [ExtractNext]_extractVars
             PROVE  ExtractInv'
  OBVIOUS
<1>1. ASSUME NEW r \in Runs, PostExtract(r) \/ StartFacts(r) \/ EndTask(r)
      PROVE  ExtractInv'
  BY <1>1, PostStep, FactsStartStep, EndTaskStep
<1>2. ASSUME NEW r \in Runs, NEW usable \in BOOLEAN, EndFacts(r, usable)
      PROVE  ExtractInv'
  BY <1>2, EndFactsStep
<1>3. ASSUME NEW r \in Runs, NEW a \in Articles, CacheHit(r, a) \/ CheckFails(r, a) \/ Extracted(r, a)
      PROVE  ExtractInv'
  BY <1>3, CacheHitStep, CheckFailsStep, ExtractedStep
<1>4. ASSUME NEW r \in Runs, NEW a \in Articles, NEW override \in BOOLEAN, CacheMiss(r, a, override)
      PROVE  ExtractInv'
  BY <1>4, PieceOnlyStep DEF CacheMiss, Stages
<1>5. ASSUME NEW r \in Runs, NEW a \in Articles, TakeSlot(r, a) \/ ExtractFails(r, a)
      PROVE  ExtractInv'
  BY <1>5, PieceOnlyStep DEF TakeSlot, ExtractFails, Stages
<1> QED
  BY <1>1, <1>2, <1>3, <1>4, <1>5, SpecStep, RestartStep DEF ExtractNext

(* Every variable keeps its type. *)
THEOREM ExtractTypesHold == ExtractSpec => []ExtractTypeOK
<1>1. ExtractInv => ExtractTypeOK
  BY DEF ExtractInv
<1> QED
  BY <1>1, ExtractInitial, ExtractStep, PTL DEF ExtractSpec

(* What is cached under a version, or serves in a digest that has loaded   *)
(* this version, was made with exactly these two files, whatever is saved  *)
(* or half saved in between (mr_cache, extract_one).                       *)
THEOREM NoStaleExtraction == ExtractSpec => []ExtractedAsKeyed
<1>1. ExtractInv => ExtractedAsKeyed
  BY DEF ExtractInv, ExtractedAsKeyed, CacheAsKeyed, FactsAsLoaded, Version
<1> QED
  BY <1>1, ExtractInitial, ExtractStep, PTL DEF ExtractSpec

(* Two requests for the same digest never extract at the same time, unless *)
(* the cache could not be asked, and a task that is done has left nothing  *)
(* (mr_extract_tasks.try_acquire, run_extract_sources).                    *)
THEOREM OneExtractsAtATime == ExtractSpec => []OneTaskPerDigest
<1>1. ASSUME ExtractInv PROVE OneTaskPerDigest
  <2> DEFINE busy == {t \in Tasks : \E a \in Articles : piece[<<t, a>>] \in {"check", "slot", "llm"}}
  <2>1. \A t \in busy : t \in Tasks /\ status[t] \in {"running", "error"}
    BY <1>1 DEF ExtractInv, NothingAhead, ExtractTypeOK, Runs
  <2>2. \A t \in Tasks : status[t] = "done" => t \notin busy
    BY <2>1
  <2>3. \A t \in Tasks : gate = t <=> status[t] = "running"
    BY <1>1 DEF ExtractInv, GateIsRunning
  <2>4. \A t, u \in busy : t # u => "error" \in {status[t], status[u]}
    BY <2>1, <2>3
  <2> QED
    BY <2>2, <2>3, <2>4 DEF OneTaskPerDigest
<1> QED
  BY <1>1, ExtractInitial, ExtractStep, PTL DEF ExtractSpec

-----------------------------------------------------------------------------
(* The writers of events.md *)

(* As long as the intent exists all writers use the same lock,             *)
OneLock == known => lockNow = 0 /\ \A r \in Writers : uses[r] = 0

(* a thread writes for the request that holds it,                          *)
ThreadsOwn == \A r \in Writers : thread[r] # "none" => at[r] = "thread" /\ owner[0] = r

(* and a merge holds it from the moment it read the file.                  *)
MergesOwn ==
  \A r \in Ingests : at[r] \in {"llm", "thread"} => owner[0] = r /\ base[r] = file

Undisturbed == known /\ outlived = {}

KbInv == KbTypeOK /\ OneLock /\ (Undisturbed => ThreadsOwn /\ MergesOwn)

Places == {"new", "editing", "llm", "wait", "thread", "over"}
ThreadStages == {"none", "tmp", "replace"}

LEMMA KbInitial == KbInit => KbInv
<1> SUFFICES ASSUME KbInit PROVE KbInv
  OBVIOUS
<1>1. KbTypeOK
  BY DEF KbInit, KbTypeOK, Texts
<1>2. OneLock /\ ThreadsOwn
  BY DEF KbInit, OneLock, ThreadsOwn
<1>3. MergesOwn
  BY DEF KbInit, MergesOwn, Writers
<1> QED
  BY <1>1, <1>2, <1>3 DEF KbInv

(* A writer that may go on takes the free lock l, reads or starts its      *)
(* thread; whoever else holds a lock keeps it.                             *)
LEMMA ProceedKeeps ==
  ASSUME KbTypeOK, NEW r \in Writers, NEW l \in {0, 1}, Proceed(r, l), owner[l] = NoText
  PROVE  /\ owner' \in [{0, 1} -> Writers \cup {NoText}] /\ at' \in [Writers -> Places]
         /\ thread' \in [Writers -> ThreadStages] /\ base' \in [Writers -> Texts]
         /\ \A q \in Writers \ {r} :
              at'[q] = at[q] /\ thread'[q] = thread[q] /\ base'[q] = base[q]
         /\ \A q \in Writers \ {r} : owner[0] = q => owner'[0] = q
         /\ thread[r] = "none" /\ thread'[r] # "none" => at'[r] = "thread" /\ owner'[l] = r
         /\ r \in Ingests /\ at'[r] \in {"llm", "thread"} => owner'[l] = r /\ base'[r] = file
         /\ r \in Ingests => thread'[r] = thread[r]
<1>1. CASE r \in Ingests
  BY <1>1, WritersAssumption DEF Proceed, KbTypeOK, Places, ThreadStages
<1>2. CASE r \notin Ingests
  BY <1>2, WritersAssumption DEF Proceed, KbTypeOK, Places, ThreadStages
<1> QED
  BY <1>1, <1>2

(* A step of writer r that changes neither the file nor what others have.  *)
LEMMA WriterStep ==
  ASSUME KbInv, NEW r \in Writers, KbTypeOK', UNCHANGED <<file, known, lockNow, outlived>>,
         known => \A q \in Writers : uses'[q] = 0,
         \A q \in Writers \ {r} : at'[q] = at[q] /\ thread'[q] = thread[q] /\ base'[q] = base[q],
         Undisturbed => \A q \in Writers \ {r} : owner[0] = q => owner'[0] = q,
         Undisturbed /\ thread'[r] # "none" => at'[r] = "thread" /\ owner'[0] = r,
         Undisturbed /\ r \in Ingests /\ at'[r] \in {"llm", "thread"} => owner'[0] = r /\ base'[r] = file
  PROVE  KbInv'
<1>1. OneLock'
  BY DEF KbInv, OneLock
<1>2. ASSUME Undisturbed
      PROVE  ThreadsOwn' /\ MergesOwn'
  <2>1. ThreadsOwn'
    BY <1>2 DEF KbInv, ThreadsOwn
  <2>2. \A q \in Ingests : q \in Writers
    BY DEF Writers
  <2>3. MergesOwn'
    BY <1>2, <2>2 DEF KbInv, MergesOwn
  <2> QED
    BY <2>1, <2>3
<1>3. Undisturbed' <=> Undisturbed
  BY DEF Undisturbed
<1> QED
  BY <1>1, <1>2, <1>3 DEF KbInv

LEMMA LockStep ==
  ASSUME KbInv, NEW r \in Writers, Lock(r), at[r] \in {"new", "editing", "llm"},
         r \in Ingests => at[r] = "new",
         UNCHANGED <<file, tmp, known, lockNow, claimed, outlived>>
  PROVE  KbInv'
<1>1. uses' = [uses EXCEPT ![r] = lockNow] /\ lockNow \in {0, 1}
  BY DEF Lock, KbInv, KbTypeOK
<1>2. uses' \in [Writers -> {0, 1}] /\ (known => \A q \in Writers : uses'[q] = 0)
  BY <1>1 DEF KbInv, KbTypeOK, OneLock
<1>3. Undisturbed => thread[r] = "none" /\ lockNow = 0
  BY DEF KbInv, ThreadsOwn, OneLock, Undisturbed
<1>4. CASE Free(lockNow)
  <2>1. Proceed(r, lockNow) /\ owner[lockNow] = NoText /\ KbTypeOK
    BY <1>4 DEF Lock, Free, KbInv
  <2>2. /\ owner' \in [{0, 1} -> Writers \cup {NoText}] /\ at' \in [Writers -> Places]
        /\ thread' \in [Writers -> ThreadStages] /\ base' \in [Writers -> Texts]
        /\ \A q \in Writers \ {r} :
             at'[q] = at[q] /\ thread'[q] = thread[q] /\ base'[q] = base[q]
        /\ \A q \in Writers \ {r} : owner[0] = q => owner'[0] = q
        /\ thread[r] = "none" /\ thread'[r] # "none" => at'[r] = "thread" /\ owner'[lockNow] = r
        /\ r \in Ingests /\ at'[r] \in {"llm", "thread"} => owner'[lockNow] = r /\ base'[r] = file
    BY <1>1, <2>1, ProceedKeeps
  <2>3. KbTypeOK'
    BY <1>2, <2>2 DEF KbInv, KbTypeOK, Places, ThreadStages
  <2> QED
    BY <1>2, <1>3, <2>2, <2>3, WriterStep
<1>5. CASE ~Free(lockNow)
  <2>1. at' = [at EXCEPT ![r] = "wait"] /\ UNCHANGED <<base, thread, owner>>
    BY <1>5 DEF Lock
  <2>2. /\ at' \in [Writers -> Places] /\ at'[r] = "wait"
        /\ \A q \in Writers \ {r} : at'[q] = at[q]
    BY <2>1 DEF KbInv, KbTypeOK, Places
  <2>3. KbTypeOK'
    BY <1>2, <2>1, <2>2 DEF KbInv, KbTypeOK, Places
  <2> QED
    BY <1>2, <1>3, <2>1, <2>2, <2>3, WriterStep
<1> QED
  BY <1>4, <1>5

LEMMA GrantedStep ==
  ASSUME KbInv, NEW r \in Writers, Granted(r)
  PROVE  KbInv'
<1>1. /\ at[r] = "wait" /\ owner[uses[r]] = NoText /\ Proceed(r, uses[r]) /\ KbTypeOK
      /\ uses[r] \in {0, 1} /\ UNCHANGED <<file, tmp, known, lockNow, uses, claimed, outlived>>
  BY DEF Granted, KbInv, KbTypeOK
<1>2. PICK l \in {0, 1} : l = uses[r]
  BY <1>1
<1>3. /\ owner' \in [{0, 1} -> Writers \cup {NoText}] /\ at' \in [Writers -> Places]
      /\ thread' \in [Writers -> ThreadStages] /\ base' \in [Writers -> Texts]
      /\ \A q \in Writers \ {r} :
           at'[q] = at[q] /\ thread'[q] = thread[q] /\ base'[q] = base[q]
      /\ \A q \in Writers \ {r} : owner[0] = q => owner'[0] = q
      /\ thread[r] = "none" /\ thread'[r] # "none" => at'[r] = "thread" /\ owner'[l] = r
      /\ r \in Ingests /\ at'[r] \in {"llm", "thread"} => owner'[l] = r /\ base'[r] = file
  <2>1. Proceed(r, l) /\ owner[l] = NoText
    BY <1>1, <1>2
  <2> QED
    BY <1>1, <2>1, ProceedKeeps
<1>4. Undisturbed => thread[r] = "none" /\ l = 0
  BY <1>1, <1>2 DEF KbInv, ThreadsOwn, OneLock, Undisturbed
<1>5. KbTypeOK' /\ (known => \A q \in Writers : uses'[q] = 0)
  BY <1>1, <1>3 DEF KbInv, KbTypeOK, OneLock, Places, ThreadStages
<1> QED
  BY <1>1, <1>3, <1>4, <1>5, WriterStep

(* Steps of one writer by which nobody takes a lock.                       *)
LEMMA IngestStep ==
  ASSUME KbInv, NEW r \in Writers, IngestWrites(r) \/ IngestStops(r)
  PROVE  KbInv'
<1>1. r \in Ingests /\ at[r] = "llm" /\ (Undisturbed => owner[0] = r /\ base[r] = file)
  BY DEF IngestWrites, IngestStops, KbInv, MergesOwn
<1>2. CASE IngestWrites(r)
  <2>1. /\ at' = [at EXCEPT ![r] = "thread"] /\ thread' = [thread EXCEPT ![r] = "tmp"]
        /\ UNCHANGED <<file, tmp, known, lockNow, owner, uses, base, claimed, outlived>>
    BY <1>2 DEF IngestWrites
  <2>2. KbTypeOK' /\ (known => \A q \in Writers : uses'[q] = 0)
    BY <2>1 DEF KbInv, KbTypeOK, OneLock
  <2>3. /\ at'[r] = "thread" /\ thread'[r] = "tmp"
        /\ \A q \in Writers \ {r} : at'[q] = at[q] /\ thread'[q] = thread[q]
    BY <2>1 DEF KbInv, KbTypeOK
  <2> QED
    BY <1>1, <2>1, <2>2, <2>3, WriterStep
<1>3. CASE IngestStops(r)
  <2>1. /\ at' = [at EXCEPT ![r] = "over"] /\ base' = [base EXCEPT ![r] = NoText]
        /\ owner' = [l \in {0, 1} |-> IF owner[l] = r THEN NoText ELSE owner[l]]
        /\ UNCHANGED <<file, tmp, known, lockNow, uses, thread, claimed, outlived>>
    BY <1>3 DEF IngestStops, Unlock
  <2>2. KbTypeOK' /\ (known => \A q \in Writers : uses'[q] = 0)
    BY <2>1 DEF KbInv, KbTypeOK, OneLock, Texts
  <2>3. /\ at'[r] = "over" /\ \A q \in Writers \ {r} : at'[q] = at[q] /\ base'[q] = base[q]
        /\ \A q \in Writers \ {r} : owner[0] = q => owner'[0] = q
    BY <2>1 DEF KbInv, KbTypeOK
  <2>4. Undisturbed => thread[r] = "none"
    BY <1>1 DEF KbInv, ThreadsOwn
  <2> QED
    BY <1>1, <2>1, <2>2, <2>3, <2>4, WriterStep
<1> QED
  BY <1>2, <1>3

LEMMA AsideStep ==
  ASSUME KbInv, NEW r \in Writers,
         StartLint(r) \/ LintStops(r) \/ OpenEditor(r) \/ StartRebuild(r)
  PROVE  KbInv'
<1>1. /\ r \notin Ingests /\ at[r] # "thread"
      /\ UNCHANGED <<file, tmp, known, lockNow, owner, uses, thread, outlived>>
  BY WritersAssumption DEF StartLint, LintStops, OpenEditor, StartRebuild
<1>2. PICK place \in Places \ {"thread"} : at' = [at EXCEPT ![r] = place]
  BY DEF StartLint, LintStops, OpenEditor, StartRebuild, Places
<1>3. PICK text \in Texts : base' = [base EXCEPT ![r] = text]
  <2>1. CASE StartRebuild(r)
    <3>1. base' = [base EXCEPT ![r] = base[r]] /\ base[r] \in Texts
      BY <2>1 DEF StartRebuild, KbInv, KbTypeOK
    <3> QED
      BY <3>1
  <2>2. CASE StartLint(r) \/ OpenEditor(r)
    BY <2>2 DEF StartLint, OpenEditor, KbInv, KbTypeOK
  <2>3. CASE LintStops(r)
    BY <2>3 DEF LintStops, Texts
  <2> QED
    BY <2>1, <2>2, <2>3
<1>4. claimed' \in BOOLEAN
  <2>1. CASE StartRebuild(r)
    <3>1. claimed' = TRUE
      BY <2>1 DEF StartRebuild, TryBeginRebuild
    <3> QED
      BY <3>1
  <2>2. CASE ~StartRebuild(r)
    BY <2>2 DEF StartLint, LintStops, OpenEditor, KbInv, KbTypeOK
  <2> QED
    BY <2>1, <2>2
<1>5. KbTypeOK' /\ (known => \A q \in Writers : uses'[q] = 0)
  BY <1>1, <1>2, <1>3, <1>4 DEF KbInv, KbTypeOK, OneLock, Places
<1>6. \A q \in Writers \ {r} : at'[q] = at[q] /\ base'[q] = base[q]
  BY <1>2, <1>3 DEF KbInv, KbTypeOK
<1>7. Undisturbed => thread[r] = "none"
  BY <1>1 DEF KbInv, ThreadsOwn
<1> QED
  BY <1>1, <1>5, <1>6, <1>7, WriterStep

(* A rebuild that is over time before its thread is ends the claim of the  *)
(* theorem; one that has no thread yet only gives back what it holds.      *)
LEMMA RebuildStopsStep ==
  ASSUME KbInv, NEW r \in Writers, RebuildStops(r)
  PROVE  KbInv'
<1>1. /\ r \in Rebuilds /\ r \notin Ingests
      /\ at' = [at EXCEPT ![r] = "over"] /\ claimed' = FALSE
      /\ owner' = [l \in {0, 1} |-> IF owner[l] = r THEN NoText ELSE owner[l]]
      /\ outlived' = IF thread[r] = "none" THEN outlived ELSE outlived \cup {r}
      /\ UNCHANGED <<file, tmp, known, lockNow, uses, thread, base>>
  BY WritersAssumption DEF RebuildStops, InFlight, Unlock
<1>2. KbTypeOK' /\ OneLock' /\ (known => \A q \in Writers : uses'[q] = 0)
  BY <1>1 DEF KbInv, KbTypeOK, OneLock
<1>3. CASE thread[r] # "none"
  <2>1. ~Undisturbed'
    BY <1>1, <1>3 DEF Undisturbed
  <2> QED
    BY <1>2, <2>1 DEF KbInv
<1>4. CASE thread[r] = "none"
  <2>1. /\ at'[r] = "over" /\ \A q \in Writers \ {r} : at'[q] = at[q]
        /\ \A q \in Writers \ {r} : owner[0] = q => owner'[0] = q
    BY <1>1 DEF KbInv, KbTypeOK
  <2> QED
    BY <1>1, <1>2, <1>4, <2>1, WriterStep
<1> QED
  BY <1>3, <1>4

LEMMA ThreadOverKeeps ==
  ASSUME KbTypeOK, NEW r \in Writers, ThreadOver(r)
  PROVE  /\ at' \in [Writers -> Places] /\ thread' \in [Writers -> ThreadStages]
         /\ base' \in [Writers -> Texts] /\ claimed' \in BOOLEAN
         /\ owner' \in [{0, 1} -> Writers \cup {NoText}]
         /\ thread'[r] = "none" /\ at'[r] # "thread" /\ (at[r] = "thread" => at'[r] = "over")
         /\ \A q \in Writers \ {r} :
              at'[q] = at[q] /\ thread'[q] = thread[q] /\ base'[q] = base[q]
         /\ \A q \in Writers \ {r} : owner[0] = q => owner'[0] = q
<1>1. /\ thread' = [thread EXCEPT ![r] = "none"] /\ base' = [base EXCEPT ![r] = NoText]
      /\ NoText \in Texts
  BY DEF ThreadOver, Texts
<1>2. CASE at[r] = "thread"
  <2>1. /\ at' = [at EXCEPT ![r] = "over"] /\ claimed' = (claimed /\ r \notin Rebuilds)
        /\ owner' = [l \in {0, 1} |-> IF owner[l] = r THEN NoText ELSE owner[l]]
    BY <1>2 DEF ThreadOver, Unlock
  <2> QED
    BY <1>1, <1>2, <2>1 DEF KbTypeOK, Places, ThreadStages
<1>3. CASE at[r] # "thread"
  <2>1. UNCHANGED <<at, owner, claimed>>
    BY <1>3 DEF ThreadOver
  <2> QED
    BY <1>1, <1>3, <2>1 DEF KbTypeOK, Places, ThreadStages
<1> QED
  BY <1>2, <1>3

LEMMA ThreadStep ==
  ASSUME KbInv, NEW r \in Writers, WriteTmp(r) \/ WriteRaises(r)
  PROVE  KbInv'
<1>1. CASE WriteTmp(r)
  <2>1. /\ thread[r] = "tmp" /\ tmp' = TextOf(r) /\ thread' = [thread EXCEPT ![r] = "replace"]
        /\ UNCHANGED <<file, known, lockNow, owner, uses, at, base, claimed, outlived>>
    BY <1>1 DEF WriteTmp
  <2>2. tmp' \in Texts
    BY <2>1 DEF TextOf, KbInv, KbTypeOK, Texts
  <2>3. KbTypeOK' /\ (known => \A q \in Writers : uses'[q] = 0)
    BY <2>1, <2>2 DEF KbInv, KbTypeOK, OneLock
  <2>4. /\ thread'[r] = "replace" /\ \A q \in Writers \ {r} : thread'[q] = thread[q]
    BY <2>1 DEF KbInv, KbTypeOK
  <2>5. Undisturbed => at[r] = "thread" /\ owner[0] = r
    BY <2>1 DEF KbInv, ThreadsOwn
  <2>6. Undisturbed /\ r \in Ingests => base[r] = file
    BY <2>5 DEF KbInv, MergesOwn
  <2> QED
    BY <2>1, <2>3, <2>4, <2>5, <2>6, WriterStep
<1>2. CASE WriteRaises(r)
  <2>1. /\ thread[r] # "none" /\ ThreadOver(r)
        /\ UNCHANGED <<file, tmp, known, lockNow, uses, outlived>>
    BY <1>2 DEF WriteRaises
  <2>2. /\ at' \in [Writers -> Places] /\ thread' \in [Writers -> ThreadStages]
        /\ base' \in [Writers -> Texts] /\ claimed' \in BOOLEAN
        /\ owner' \in [{0, 1} -> Writers \cup {NoText}]
        /\ thread'[r] = "none" /\ at'[r] # "thread" /\ (at[r] = "thread" => at'[r] = "over")
        /\ \A q \in Writers \ {r} :
             at'[q] = at[q] /\ thread'[q] = thread[q] /\ base'[q] = base[q]
        /\ \A q \in Writers \ {r} : owner[0] = q => owner'[0] = q
    BY <2>1, ThreadOverKeeps DEF KbInv
  <2>3. KbTypeOK' /\ (known => \A q \in Writers : uses'[q] = 0)
    BY <2>1, <2>2 DEF KbInv, KbTypeOK, OneLock, Places, ThreadStages
  <2>4. Undisturbed => at[r] = "thread"
    BY <2>1 DEF KbInv, ThreadsOwn
  <2> QED
    BY <2>1, <2>2, <2>3, <2>4, WriterStep
<1> QED
  BY <1>1, <1>2

(* The file is replaced by the one request that holds the lock, so no      *)
(* merge is between its reading and its writing.                           *)
LEMMA ReplaceStep ==
  ASSUME KbInv, NEW r \in Writers, Replace(r)
  PROVE  KbInv'
<1>1. /\ thread[r] = "replace" /\ file' = tmp /\ tmp' = NoText /\ ThreadOver(r)
      /\ UNCHANGED <<known, lockNow, uses, outlived>>
  BY DEF Replace
<1>2. /\ at' \in [Writers -> Places] /\ thread' \in [Writers -> ThreadStages]
      /\ base' \in [Writers -> Texts] /\ claimed' \in BOOLEAN
      /\ owner' \in [{0, 1} -> Writers \cup {NoText}]
      /\ thread'[r] = "none" /\ at'[r] # "thread" /\ (at[r] = "thread" => at'[r] = "over")
      /\ \A q \in Writers \ {r} :
           at'[q] = at[q] /\ thread'[q] = thread[q] /\ base'[q] = base[q]
      /\ \A q \in Writers \ {r} : owner[0] = q => owner'[0] = q
  BY <1>1, ThreadOverKeeps DEF KbInv
<1>3. KbTypeOK'
  BY <1>1, <1>2 DEF KbInv, KbTypeOK, Places, ThreadStages, Texts
<1>4. OneLock' /\ (Undisturbed' <=> Undisturbed)
  BY <1>1 DEF KbInv, OneLock, Undisturbed
<1>5. ASSUME Undisturbed
      PROVE  ThreadsOwn' /\ MergesOwn'
  <2>1. at[r] = "thread" /\ owner[0] = r
    BY <1>1, <1>5 DEF KbInv, ThreadsOwn
  <2>2. ThreadsOwn'
    BY <1>2, <1>5 DEF KbInv, ThreadsOwn
  <2>3. \A q \in Ingests : at'[q] \notin {"llm", "thread"}
    <3>1. \A q \in Ingests \ {r} : at[q] \notin {"llm", "thread"}
      BY <1>5, <2>1 DEF KbInv, MergesOwn
    <3> QED
      BY <1>2, <2>1, <3>1 DEF Writers
  <2> QED
    BY <2>2, <2>3 DEF MergesOwn
<1> QED
  BY <1>3, <1>4, <1>5 DEF KbInv

LEMMA KbStep == KbInv /\ [KbNext]_kbVars => KbInv'
<1> SUFFICES ASSUME KbInv, [KbNext]_kbVars
             PROVE  KbInv'
  OBVIOUS
<1>1. ASSUME NEW r \in Writers, StartIngest(r) \/ LintWrites(r) \/ PutEdit(r) \/ RebuildWrites(r)
      PROVE  KbInv'
  <2>1. /\ Lock(r) /\ at[r] \in {"new", "editing", "llm"} /\ (r \in Ingests => at[r] = "new")
        /\ UNCHANGED <<file, tmp, known, lockNow, claimed, outlived>>
    BY <1>1, WritersAssumption DEF StartIngest, LintWrites, PutEdit, RebuildWrites
  <2> QED
    BY <2>1, LockStep
<1>2. CASE ForgetIntent
  <2>1. KbTypeOK' /\ OneLock' /\ ~Undisturbed'
    BY <1>2 DEF ForgetIntent, KbInv, KbTypeOK, OneLock, Undisturbed
  <2> QED
    BY <2>1 DEF KbInv
<1>3. CASE UNCHANGED kbVars
  BY <1>3 DEF kbVars, KbInv, KbTypeOK, OneLock, ThreadsOwn, MergesOwn, Undisturbed
<1> QED
  BY <1>1, <1>2, <1>3, GrantedStep, IngestStep, AsideStep, RebuildStopsStep, ThreadStep, ReplaceStep
  DEF KbNext

(* Every variable keeps its type. *)
THEOREM KbTypesHold == KbSpec => []KbTypeOK
<1>1. KbInv => KbTypeOK
  BY DEF KbInv
<1> QED
  BY <1>1, KbInitial, KbStep, PTL DEF KbSpec

(* The daily merge replaces the file it has read: no edit, lint or rebuild *)
(* that was stored while the model worked is undone by it, as long as the  *)
(* intent exists and no thread outlived its request (KbStore.ingest, the   *)
(* lock of _lock, wait_for in the rebuild).                                *)
THEOREM MergesBuildOnFile == KbSpec => IngestBuildsOnFile
<1> DEFINE Builds ==
      \A r \in Ingests :
         thread[r] = "replace" /\ file' # file /\ thread'[r] = "none" /\ known /\ outlived = {}
            => file = base[r]
<1>1. KbInv => Builds
  <2> SUFFICES ASSUME KbInv, NEW r \in Ingests, thread[r] = "replace", Undisturbed
               PROVE  file = base[r]
    BY DEF Undisturbed
  <2>1. at[r] = "thread"
    BY DEF KbInv, ThreadsOwn, Writers
  <2> QED
    BY <2>1 DEF KbInv, MergesOwn
<1>2. KbInv /\ [KbNext]_kbVars => [Builds]_kbVars
  BY <1>1
<1> QED
  BY <1>2, KbInitial, KbStep, PTL DEF KbSpec, IngestBuildsOnFile

-----------------------------------------------------------------------------
(* The renames of the templates *)

(* The order of a queue *)
Ahead(s, p, q) == \E j, k \in DOMAIN s : j < k /\ s[j] = p /\ s[k] = q
NoneTwice(s) == \A j, k \in DOMAIN s : s[j] = s[k] => j = k

LEMMA QueueOrder ==
  ASSUME NEW R, NEW s \in Seq(R), NoneTwice(s)
  PROVE  /\ \A p, q : Ahead(s, p, q) => p \in ToSet(s) /\ q \in ToSet(s) /\ p # q
         /\ \A p, q \in ToSet(s) : p # q => Ahead(s, p, q) \/ Ahead(s, q, p)
         /\ \A p, q, r : Ahead(s, p, q) /\ Ahead(s, q, r) => Ahead(s, p, r)
         /\ \A p, q : ~(Ahead(s, p, q) /\ Ahead(s, q, p))
<1>1. DOMAIN s = 1..Len(s) /\ Len(s) \in Nat
  OBVIOUS
<1>2. \A p, q : Ahead(s, p, q) => p \in ToSet(s) /\ q \in ToSet(s) /\ p # q
  BY <1>1 DEF Ahead, NoneTwice, ToSet
<1>3. ASSUME NEW p \in ToSet(s), NEW q \in ToSet(s), p # q
      PROVE  Ahead(s, p, q) \/ Ahead(s, q, p)
  <2>1. PICK j \in DOMAIN s, k \in DOMAIN s : s[j] = p /\ s[k] = q
    BY <1>3 DEF ToSet
  <2>2. j < k \/ k < j
    BY <1>1, <1>3, <2>1
  <2> QED
    BY <2>1, <2>2 DEF Ahead
<1>4. ASSUME NEW p, NEW q, NEW r, Ahead(s, p, q), Ahead(s, q, r)
      PROVE  Ahead(s, p, r)
  <2>1. PICK j \in DOMAIN s, k \in DOMAIN s : j < k /\ s[j] = p /\ s[k] = q
    BY <1>4 DEF Ahead
  <2>2. PICK l \in DOMAIN s, m \in DOMAIN s : l < m /\ s[l] = q /\ s[m] = r
    BY <1>4 DEF Ahead
  <2>3. k = l
    BY <2>1, <2>2 DEF NoneTwice
  <2>4. j < m
    BY <1>1, <2>1, <2>2, <2>3
  <2> QED
    BY <2>1, <2>2, <2>4 DEF Ahead
<1> QED
  BY <1>2, <1>3, <1>4

LEMMA QueueHead ==
  ASSUME NEW R, NEW s \in Seq(R), NoneTwice(s), s # <<>>
  PROVE  Head(s) \in ToSet(s) /\ \A p : ~Ahead(s, p, Head(s))
<1>1. Head(s) = s[1] /\ 1 \in DOMAIN s /\ DOMAIN s = 1..Len(s) /\ Len(s) \in Nat
  OBVIOUS
<1>2. ASSUME NEW p, Ahead(s, p, Head(s))
      PROVE  FALSE
  <2>1. PICK j \in DOMAIN s, k \in DOMAIN s : j < k /\ s[k] = Head(s)
    BY <1>2 DEF Ahead
  <2>2. k = 1
    BY <1>1, <2>1 DEF NoneTwice
  <2> QED
    BY <1>1, <2>1, <2>2
<1> QED
  BY <1>1, <1>2 DEF ToSet

LEMMA QueueGrows ==
  ASSUME NEW R, NEW s \in Seq(R), NoneTwice(s), NEW q \in R, q \notin ToSet(s)
  PROVE  /\ Append(s, q) \in Seq(R) /\ NoneTwice(Append(s, q))
         /\ ToSet(Append(s, q)) = ToSet(s) \cup {q}
         /\ \A p, r : Ahead(Append(s, q), p, r) <=> Ahead(s, p, r) \/ (p \in ToSet(s) /\ r = q)
<1> DEFINE t == Append(s, q)
<1>1. /\ t \in Seq(R) /\ Len(t) = Len(s) + 1 /\ Len(s) \in Nat
      /\ DOMAIN s = 1..Len(s) /\ DOMAIN t = 1..(Len(s) + 1)
      /\ t[Len(s) + 1] = q /\ \A j \in 1..Len(s) : t[j] = s[j]
  OBVIOUS
<1> HIDE DEF t
<1>2. NoneTwice(t)
  <2> SUFFICES ASSUME NEW j \in DOMAIN t, NEW k \in DOMAIN t, t[j] = t[k]
               PROVE  j = k
    BY DEF NoneTwice
  <2>1. \A i \in 1..Len(s) : s[i] # q
    BY <1>1 DEF ToSet
  <2> QED
    BY <1>1, <2>1 DEF NoneTwice
<1>3. ToSet(t) = ToSet(s) \cup {q}
  <2>1. ToSet(t) \subseteq ToSet(s) \cup {q}
    BY <1>1 DEF ToSet
  <2>2. ToSet(s) \subseteq ToSet(t) /\ q \in ToSet(t)
    BY <1>1 DEF ToSet
  <2> QED
    BY <2>1, <2>2
<1>4. ASSUME NEW p, NEW r, Ahead(t, p, r)
      PROVE  Ahead(s, p, r) \/ (p \in ToSet(s) /\ r = q)
  <2>1. PICK j \in DOMAIN t, k \in DOMAIN t : j < k /\ t[j] = p /\ t[k] = r
    BY <1>4 DEF Ahead
  <2>2. CASE k = Len(s) + 1
    BY <1>1, <2>1, <2>2 DEF ToSet
  <2>3. CASE k # Len(s) + 1
    <3>1. j \in DOMAIN s /\ k \in DOMAIN s
      BY <1>1, <2>1, <2>3
    <3> QED
      BY <1>1, <2>1, <3>1 DEF Ahead
  <2> QED
    BY <2>2, <2>3
<1>5. ASSUME NEW p, NEW r, Ahead(s, p, r)
      PROVE  Ahead(t, p, r)
  <2>1. PICK j \in DOMAIN s, k \in DOMAIN s : j < k /\ s[j] = p /\ s[k] = r
    BY <1>5 DEF Ahead
  <2>2. j \in DOMAIN t /\ k \in DOMAIN t /\ t[j] = p /\ t[k] = r
    BY <1>1, <2>1
  <2> QED
    BY <2>1, <2>2 DEF Ahead
<1>6. ASSUME NEW p \in ToSet(s)
      PROVE  Ahead(t, p, q)
  <2>1. PICK j \in DOMAIN s : s[j] = p
    BY <1>6 DEF ToSet
  <2>2. j \in DOMAIN t /\ Len(s) + 1 \in DOMAIN t /\ j < Len(s) + 1 /\ t[j] = p
    BY <1>1, <2>1
  <2> QED
    BY <1>1, <2>2 DEF Ahead
<1> QED
  BY <1>1, <1>2, <1>3, <1>4, <1>5, <1>6 DEF t

LEMMA QueueShrinks ==
  ASSUME NEW R, NEW s \in Seq(R), NoneTwice(s), NEW q, NEW i \in DOMAIN s, s[i] = q
  PROVE  /\ RemoveAt(s, i) \in Seq(R) /\ NoneTwice(RemoveAt(s, i))
         /\ ToSet(RemoveAt(s, i)) = ToSet(s) \ {q}
         /\ \A p, r : Ahead(RemoveAt(s, i), p, r) <=> Ahead(s, p, r) /\ q \notin {p, r}
<1> DEFINE t == RemoveAt(s, i)
<1> DEFINE From(j) == IF j < i THEN j ELSE j + 1
<1>1. /\ DOMAIN s = 1..Len(s) /\ Len(s) \in Nat /\ i \in 1..Len(s)
      /\ \A j \in 1..Len(s) : s[j] \in R
  OBVIOUS
<1>2. /\ t \in Seq(R) /\ DOMAIN t = 1..(Len(s) - 1)
      /\ \A j \in 1..(Len(s) - 1) : t[j] = s[From(j)]
  <2>1. /\ SubSeq(s, 1, i - 1) \in Seq(R) /\ Len(SubSeq(s, 1, i - 1)) = i - 1
        /\ \A j \in 1..(i - 1) : SubSeq(s, 1, i - 1)[j] = s[j]
    BY <1>1
  <2>2. /\ SubSeq(s, i + 1, Len(s)) \in Seq(R) /\ Len(SubSeq(s, i + 1, Len(s))) = Len(s) - i
        /\ \A j \in 1..(Len(s) - i) : SubSeq(s, i + 1, Len(s))[j] = s[i + j]
    <3>1. i + 1 \in Int /\ Len(s) \in Int /\ \A j \in (i + 1)..Len(s) : s[j] \in R
      BY <1>1
    <3>2. /\ SubSeq(s, i + 1, Len(s)) \in Seq(R)
          /\ Len(SubSeq(s, i + 1, Len(s))) = IF i + 1 <= Len(s) THEN Len(s) - (i + 1) + 1 ELSE 0
          /\ \A j \in 1..(Len(s) - (i + 1) + 1) : SubSeq(s, i + 1, Len(s))[j] = s[i + 1 + j - 1]
      BY <3>1, SubSeqProperties
    <3>3. Len(SubSeq(s, i + 1, Len(s))) = Len(s) - i
      <4>1. (IF i + 1 <= Len(s) THEN Len(s) - (i + 1) + 1 ELSE 0) = Len(s) - i
        BY <1>1
      <4> QED
        BY <3>2, <4>1
    <3>4. ASSUME NEW j \in 1..(Len(s) - i)
          PROVE  SubSeq(s, i + 1, Len(s))[j] = s[i + j]
      <4>1. j \in 1..(Len(s) - (i + 1) + 1) /\ i + 1 + j - 1 = i + j
        BY <1>1
      <4>2. SubSeq(s, i + 1, Len(s))[j] = s[i + 1 + j - 1]
        BY <3>2, <4>1
      <4> QED
        BY <4>1, <4>2
    <3> QED
      BY <3>2, <3>3, <3>4
  <2>3. PICK a \in Seq(R), b \in Seq(R) :
          /\ a = SubSeq(s, 1, i - 1) /\ b = SubSeq(s, i + 1, Len(s))
    BY <2>1, <2>2
  <2>4. t = a \o b
    BY <2>3 DEF RemoveAt
  <2>5. Len(a) = i - 1 /\ Len(b) = Len(s) - i
    BY <2>1, <2>2, <2>3
  <2>6. /\ t \in Seq(R) /\ Len(t) = Len(a) + Len(b)
        /\ \A j \in 1..(Len(a) + Len(b)) : t[j] = IF j <= Len(a) THEN a[j] ELSE b[j - Len(a)]
    BY <2>4, ConcatProperties
  <2>7. Len(t) = Len(s) - 1 /\ DOMAIN t = 1..(Len(s) - 1)
    BY <1>1, <2>5, <2>6
  <2>8. ASSUME NEW j \in 1..(Len(s) - 1), j < i
        PROVE  t[j] = s[j]
    <3>1. j \in 1..(Len(a) + Len(b)) /\ j <= Len(a) /\ j \in 1..(i - 1)
      BY <1>1, <2>5, <2>8
    <3> QED
      BY <2>1, <2>3, <2>6, <3>1
  <2>9. ASSUME NEW j \in 1..(Len(s) - 1), ~(j < i)
        PROVE  t[j] = s[j + 1]
    <3>1. /\ j \in 1..(Len(a) + Len(b)) /\ ~(j <= Len(a))
          /\ j - Len(a) \in 1..(Len(s) - i) /\ i + (j - Len(a)) = j + 1
      BY <1>1, <2>5, <2>9
    <3>2. t[j] = b[j - Len(a)]
      BY <2>6, <3>1
    <3>3. b[j - Len(a)] = s[i + (j - Len(a))]
      BY <2>2, <2>3, <3>1
    <3> QED
      BY <3>1, <3>2, <3>3
  <2> QED
    BY <2>6, <2>7, <2>8, <2>9
<1> HIDE DEF t
<1>3. /\ \A j \in DOMAIN t : From(j) \in DOMAIN s /\ From(j) # i
      /\ \A j, k \in DOMAIN t : (From(j) = From(k) => j = k) /\ (j < k <=> From(j) < From(k))
  BY <1>1, <1>2
<1>4. \A k \in DOMAIN s : k # i => \E j \in DOMAIN t : From(j) = k
  <2> SUFFICES ASSUME NEW k \in DOMAIN s, k # i
               PROVE  \E j \in DOMAIN t : From(j) = k
    OBVIOUS
  <2>1. CASE k < i
    BY <1>1, <1>2, <2>1
  <2>2. CASE k > i
    <3>1. k - 1 \in DOMAIN t /\ From(k - 1) = k
      BY <1>1, <1>2, <2>2
    <3> QED
      BY <3>1
  <2> QED
    BY <1>1, <2>1, <2>2
<1>5. \A k \in DOMAIN s : s[k] = q <=> k = i
  BY DEF NoneTwice
<1>6. \A j \in DOMAIN t : t[j] = s[From(j)]
  BY <1>2
<1> HIDE DEF From
<1>7. NoneTwice(t)
  BY <1>3, <1>6 DEF NoneTwice
<1>8. ToSet(t) = ToSet(s) \ {q}
  <2>1. ToSet(t) \subseteq ToSet(s) \ {q}
    BY <1>3, <1>5, <1>6 DEF ToSet
  <2>2. ToSet(s) \ {q} \subseteq ToSet(t)
    BY <1>4, <1>5, <1>6 DEF ToSet
  <2> QED
    BY <2>1, <2>2
<1>9. ASSUME NEW p, NEW r, Ahead(t, p, r)
      PROVE  Ahead(s, p, r) /\ q \notin {p, r}
  <2>1. PICK j \in DOMAIN t, k \in DOMAIN t : j < k /\ t[j] = p /\ t[k] = r
    BY <1>9 DEF Ahead
  <2>2. /\ From(j) \in DOMAIN s /\ From(k) \in DOMAIN s /\ From(j) < From(k)
        /\ s[From(j)] = p /\ s[From(k)] = r /\ From(j) # i /\ From(k) # i
    BY <1>3, <1>6, <2>1
  <2> QED
    BY <1>5, <2>2 DEF Ahead
<1>10. ASSUME NEW p, NEW r, Ahead(s, p, r), q \notin {p, r}
       PROVE  Ahead(t, p, r)
  <2>1. PICK k \in DOMAIN s, l \in DOMAIN s : k < l /\ s[k] = p /\ s[l] = r
    BY <1>10 DEF Ahead
  <2>2. PICK j \in DOMAIN t, m \in DOMAIN t : From(j) = k /\ From(m) = l
    BY <1>4, <1>5, <1>10, <2>1
  <2>3. j < m /\ t[j] = p /\ t[m] = r
    BY <1>3, <1>6, <2>1, <2>2
  <2> QED
    BY <2>3 DEF Ahead
<1> QED
  BY <1>2, <1>7, <1>8, <1>9, <1>10 DEF t

(* Counting the renames of a set to and from a name *)

Arrivals(f, S, n) == {q \in S : f[q].new = n}
Leavings(f, S, n) == {q \in S : f[q].old = n}
Surplus(f, S, n) == Cardinality(Arrivals(f, S, n)) - Cardinality(Leavings(f, S, n))
OneIf(b) == IF b THEN 1 ELSE 0

LEMMA SurplusIsInt ==
  ASSUME NEW f, NEW S \in SUBSET Renames, NEW n
  PROVE  /\ Surplus(f, S, n) \in Int
         /\ (\A q \in S : f[q].new # n) => Surplus(f, S, n) <= 0
         /\ (\A q \in S : f[q].old # n) => Surplus(f, S, n) >= 0
<1>1. IsFiniteSet(Arrivals(f, S, n)) /\ IsFiniteSet(Leavings(f, S, n))
  <2>1. Arrivals(f, S, n) \subseteq Renames /\ Leavings(f, S, n) \subseteq Renames
    BY DEF Arrivals, Leavings
  <2> QED
    BY <2>1, RenamesAssumption, FS_Subset
<1>2. Cardinality(Arrivals(f, S, n)) \in Nat /\ Cardinality(Leavings(f, S, n)) \in Nat
  BY <1>1, FS_CardinalityType
<1>3. Cardinality({}) = 0
  BY FS_EmptySet
<1>4. PICK a, l \in Nat : a = Cardinality(Arrivals(f, S, n)) /\ l = Cardinality(Leavings(f, S, n))
  BY <1>2
<1>5. Surplus(f, S, n) = a - l
  BY <1>4 DEF Surplus
<1>6. (\A q \in S : f[q].new # n) => a = 0
  BY <1>3, <1>4 DEF Arrivals
<1>7. (\A q \in S : f[q].old # n) => l = 0
  BY <1>3, <1>4 DEF Leavings
<1> QED
  BY <1>5, <1>6, <1>7

LEMMA SurplusAdds ==
  ASSUME NEW f, NEW S \in SUBSET Renames, NEW q \in Renames, q \notin S, NEW n
  PROVE  Surplus(f, S \cup {q}, n) = Surplus(f, S, n) + OneIf(f[q].new = n) - OneIf(f[q].old = n)
<1>1. IsFiniteSet(Arrivals(f, S, n)) /\ IsFiniteSet(Leavings(f, S, n))
  <2>1. Arrivals(f, S, n) \subseteq Renames /\ Leavings(f, S, n) \subseteq Renames
    BY DEF Arrivals, Leavings
  <2> QED
    BY <2>1, RenamesAssumption, FS_Subset
<1>2. Cardinality(Arrivals(f, S, n)) \in Nat /\ Cardinality(Leavings(f, S, n)) \in Nat
  BY <1>1, FS_CardinalityType
<1>3. Cardinality(Arrivals(f, S \cup {q}, n)) = Cardinality(Arrivals(f, S, n)) + OneIf(f[q].new = n)
  <2>1. CASE f[q].new = n
    <3>1. Arrivals(f, S \cup {q}, n) = Arrivals(f, S, n) \cup {q} /\ q \notin Arrivals(f, S, n)
      BY <2>1 DEF Arrivals
    <3>2. Cardinality(Arrivals(f, S, n) \cup {q}) = Cardinality(Arrivals(f, S, n)) + 1
      BY <1>1, <3>1, FS_AddElement
    <3> QED
      BY <2>1, <3>1, <3>2 DEF OneIf
  <2>2. CASE f[q].new # n
    <3>1. Arrivals(f, S \cup {q}, n) = Arrivals(f, S, n)
      BY <2>2 DEF Arrivals
    <3> QED
      BY <1>2, <2>2, <3>1 DEF OneIf
  <2> QED
    BY <2>1, <2>2
<1>4. Cardinality(Leavings(f, S \cup {q}, n)) = Cardinality(Leavings(f, S, n)) + OneIf(f[q].old = n)
  <2>1. CASE f[q].old = n
    <3>1. Leavings(f, S \cup {q}, n) = Leavings(f, S, n) \cup {q} /\ q \notin Leavings(f, S, n)
      BY <2>1 DEF Leavings
    <3>2. Cardinality(Leavings(f, S, n) \cup {q}) = Cardinality(Leavings(f, S, n)) + 1
      BY <1>1, <3>1, FS_AddElement
    <3> QED
      BY <2>1, <3>1, <3>2 DEF OneIf
  <2>2. CASE f[q].old # n
    <3>1. Leavings(f, S \cup {q}, n) = Leavings(f, S, n)
      BY <2>2 DEF Leavings
    <3> QED
      BY <1>2, <2>2, <3>1 DEF OneIf
  <2> QED
    BY <2>1, <2>2
<1>5. OneIf(f[q].new = n) \in Int /\ OneIf(f[q].old = n) \in Int
  BY DEF OneIf
<1> QED
  BY <1>2, <1>3, <1>4, <1>5 DEF Surplus

LEMMA SurplusSame ==
  ASSUME NEW f, NEW g, NEW S, NEW n, \A q \in S : f[q].new = g[q].new /\ f[q].old = g[q].old
  PROVE  Surplus(f, S, n) = Surplus(g, S, n)
<1>1. Arrivals(f, S, n) = Arrivals(g, S, n) /\ Leavings(f, S, n) = Leavings(g, S, n)
  BY DEF Arrivals, Leavings
<1> QED
  BY <1>1 DEF Surplus

(* The renames under way, and those that have not updated the references.  *)
Moving == {q \in Renames : rename[q].at # "idle"}
Moved == {q \in Renames : rename[q].at = "moved"}

(* A set of renames with all that follow them.                             *)
Rear(S) == S \subseteq Moving /\ \A p \in S, q \in Moving : Before(p, q) => q \in S

QueueFits ==
  /\ NoneTwice(queue) /\ ToSet(queue) = Moving
  /\ \A u \in InTransaction : \A p \in Renames : ~Before(p, u)

KeepsBuiltin ==
  /\ Builtin \in files /\ deleting # Builtin
  /\ \A q \in Moving : rename[q].old # rename[q].new /\ Builtin \notin {rename[q].old, rename[q].new}

(* From any point of the queue on, more renames arrive at a name than      *)
(* leave it by at most the one file that is there; and a reference that    *)
(* has the whole queue to go counts like one more arrival.                 *)
There(n) == OneIf(n \in files)
RearsFit == \A S \in SUBSET Renames, n \in Names : Rear(S) => Surplus(rename, S, n) <= There(n)
RefsFit == \A i \in Intents : 1 + Surplus(rename, Moved, ref[i]) <= There(ref[i])
UndoFits ==
  \A u \in InTransaction, i \in Intents :
    /\ 1 + Surplus(rename, Moving, undo[i]) <= There(undo[i])
    /\ undo[i] \in {ref[i], rename[u].old}

RenamesInv ==
  /\ TemplatesTypeOK /\ QueueFits /\ KeepsBuiltin
  /\ excused = "no" => RearsFit /\ RefsFit /\ UndoFits

LEMMA RenamesInitial == TemplatesInit => RenamesInv
<1> SUFFICES ASSUME TemplatesInit PROVE RenamesInv
  OBVIOUS
<1>1. Moving = {} /\ InTransaction = {} /\ Moved = {}
  BY DEF TemplatesInit, Idle, Moving, Moved, InTransaction
<1>2. TemplatesTypeOK
  <2>1. <<>> \in Seq(Renames)
    OBVIOUS
  <2>2. Idle \in [at : {"idle", "moved", "updated"}, old : Names, new : Names]
    BY BuiltinAssumption DEF Idle
  <2> QED
    BY <2>1, <2>2, BuiltinAssumption DEF TemplatesInit, TemplatesTypeOK
<1>3. QueueFits
  BY <1>1 DEF TemplatesInit, QueueFits, NoneTwice, ToSet
<1>4. KeepsBuiltin
  BY <1>1 DEF TemplatesInit, KeepsBuiltin, Builtin
<1>5. \A n : Surplus(rename, {}, n) <= 0 /\ Surplus(rename, {}, n) \in Int
  BY SurplusIsInt
<1>6. RearsFit
  <2>1. \A S : Rear(S) => S = {}
    BY <1>1 DEF Rear
  <2> QED
    BY <1>5, <2>1 DEF RearsFit, There, OneIf
<1>7. RefsFit
  BY <1>1, <1>5 DEF TemplatesInit, RefsFit, There, OneIf
<1>8. UndoFits
  BY <1>1 DEF UndoFits
<1> QED
  BY <1>2, <1>3, <1>4, <1>6, <1>7, <1>8 DEF RenamesInv

(* At the end of every rename the references resolve. *)
LEMMA RenamesResolve == RenamesInv => ReferencesResolve
<1> SUFFICES ASSUME RenamesInv, \A q \in Renames : rename[q].at = "idle", excused = "no",
                    NEW i \in Intents
             PROVE  ref[i] \in files
  BY DEF RenamesInv, KeepsBuiltin, ReferencesResolve, Dangling
<1>1. Moved = {}
  BY DEF Moved
<1>2. 1 + Surplus(rename, {}, ref[i]) <= There(ref[i])
  BY <1>1 DEF RenamesInv, RefsFit
<1>3. Surplus(rename, {}, ref[i]) >= 0 /\ Surplus(rename, {}, ref[i]) \in Int
  BY SurplusIsInt
<1> QED
  BY <1>2, <1>3 DEF There, OneIf

LEMMA OrderOfRenames ==
  ASSUME RenamesInv
  PROVE  /\ \A p, q : Before(p, q) => p \in Moving /\ q \in Moving /\ p # q
         /\ \A p, q \in Moving : p # q => Before(p, q) \/ Before(q, p)
         /\ \A p, q, r : Before(p, q) /\ Before(q, r) => Before(p, r)
         /\ \A p, q : ~(Before(p, q) /\ Before(q, p))
         /\ \A u \in InTransaction, q \in Moving : q # u => Before(u, q)
         /\ \A u, v \in InTransaction : u = v
         /\ InTransaction \subseteq Moving
<1>1. queue \in Seq(Renames) /\ NoneTwice(queue) /\ ToSet(queue) = Moving
  BY DEF RenamesInv, TemplatesTypeOK, QueueFits
<1>2. \A p, q : Before(p, q) <=> Ahead(queue, p, q)
  BY DEF Before, Ahead
<1>3. /\ \A p, q : Before(p, q) => p \in Moving /\ q \in Moving /\ p # q
      /\ \A p, q \in Moving : p # q => Before(p, q) \/ Before(q, p)
      /\ \A p, q, r : Before(p, q) /\ Before(q, r) => Before(p, r)
      /\ \A p, q : ~(Before(p, q) /\ Before(q, p))
  BY <1>1, <1>2, QueueOrder
<1>4. InTransaction \subseteq Moving
  BY DEF InTransaction, Moving
<1>5. \A u \in InTransaction, q \in Moving : q # u => Before(u, q)
  BY <1>3, <1>4 DEF RenamesInv, QueueFits, Moving
<1>6. \A u, v \in InTransaction : u = v
  BY <1>3, <1>4, <1>5
<1> QED
  BY <1>3, <1>4, <1>5, <1>6

LEMMA MovingAreRenames == Moving \in SUBSET Renames /\ Moved \in SUBSET Moving /\ Moved \in SUBSET Renames
  BY DEF Moving, Moved

(* Steps that leave the renames and the references alone: a file may       *)
(* appear, and a file disappears only if nobody names it.                  *)
LEMMA FilesStep ==
  ASSUME RenamesInv, TemplatesTypeOK', UNCHANGED <<ref, undo, queue, rename>>,
         Builtin \in files', deleting' # Builtin,
         excused' = "no" =>
            /\ excused = "no"
            /\ \A n \in files \ files' : ~Referenced(n) /\ \A q \in Moving : rename[q].new # n
  PROVE  RenamesInv'
<1>1. /\ Moving' = Moving /\ Moved' = Moved /\ InTransaction' = InTransaction
      /\ \A p, q : Before(p, q)' <=> Before(p, q)
  BY DEF Moving, Moved, InTransaction, Before
<1>2. QueueFits' /\ KeepsBuiltin'
  BY <1>1 DEF RenamesInv, QueueFits, KeepsBuiltin
<1>3. ASSUME excused' = "no"
      PROVE  RearsFit' /\ RefsFit' /\ UndoFits'
  <2>1. RearsFit /\ RefsFit /\ UndoFits /\ excused = "no"
    BY <1>3 DEF RenamesInv
  <2>2. \A n : n \in files /\ n \notin files' => ~Referenced(n) /\ \A q \in Moving : rename[q].new # n
    BY <1>3
  <2>3. \A n : (n \in files => n \in files') => There(n)' >= There(n)
    BY DEF There, OneIf
  <2>4. \A n : There(n)' \in {0, 1} /\ There(n) \in {0, 1}
    BY DEF There, OneIf
  <2>5. RearsFit'
    <3> SUFFICES ASSUME NEW S \in SUBSET Renames, NEW n \in Names, Rear(S)'
                 PROVE  Surplus(rename', S, n) <= There(n)'
      BY DEF RearsFit
    <3>1. Rear(S) /\ S \subseteq Moving
      BY <1>1 DEF Rear
    <3>2. Surplus(rename, S, n) <= There(n) /\ Surplus(rename, S, n) \in Int
      BY <2>1, <3>1, SurplusIsInt DEF RearsFit
    <3>3. CASE n \in files => n \in files'
      BY <2>3, <2>4, <3>2, <3>3
    <3>4. CASE n \in files /\ n \notin files'
      <4>1. Surplus(rename, S, n) <= 0
        BY <2>2, <3>1, <3>4, SurplusIsInt
      <4> QED
        BY <2>4, <3>2, <4>1
    <3> QED
      BY <3>3, <3>4
  <2>6. RefsFit'
    <3> SUFFICES ASSUME NEW i \in Intents
                 PROVE  1 + Surplus(rename', Moved', ref'[i]) <= OneIf(ref'[i] \in files')
      BY DEF RefsFit, There
    <3> DEFINE n == ref[i]
    <3>1. n \in files => n \in files'
      BY <2>2 DEF Referenced
    <3>2. 1 + Surplus(rename, Moved, n) <= There(n) /\ Surplus(rename, Moved, n) \in Int
      BY <2>1, SurplusIsInt, MovingAreRenames DEF RefsFit
    <3>3. There(n)' >= There(n)
      BY <2>3, <3>1
    <3>4. 1 + Surplus(rename, Moved, n) <= There(n)'
      BY <2>4, <3>2, <3>3
    <3> QED
      BY <1>1, <3>4 DEF There
  <2>7. UndoFits'
    <3> SUFFICES ASSUME NEW u \in InTransaction, NEW i \in Intents
                 PROVE  /\ 1 + Surplus(rename, Moving, undo[i]) <= There(undo[i])'
                        /\ undo[i] \in {ref[i], rename[u].old}
      BY <1>1 DEF UndoFits, There
    <3> DEFINE n == undo[i]
    <3>1. /\ 1 + Surplus(rename, Moving, n) <= There(n) /\ Surplus(rename, Moving, n) \in Int
          /\ n \in {ref[i], rename[u].old}
      BY <2>1, SurplusIsInt, MovingAreRenames DEF UndoFits
    <3> HIDE DEF n
    <3>2. CASE n \in files => n \in files'
      BY <2>3, <2>4, <3>1, <3>2 DEF n
    <3>3. CASE n \in files /\ n \notin files'
      <4>1. n = rename[u].old
        BY <2>2, <3>1, <3>3 DEF n, Referenced
      <4>2. /\ u \in Renames /\ u \in Moving /\ rename[u].new # n
            /\ Moving \ {u} \in SUBSET Renames /\ u \notin Moving \ {u}
            /\ (Moving \ {u}) \cup {u} = Moving
        BY <2>2, <3>3, OrderOfRenames, MovingAreRenames
      <4>3. Surplus(rename, Moving, n) =
              Surplus(rename, Moving \ {u}, n) + OneIf(rename[u].new = n) - OneIf(rename[u].old = n)
        BY <4>2, SurplusAdds
      <4>4. Surplus(rename, Moving \ {u}, n) <= 0 /\ Surplus(rename, Moving \ {u}, n) \in Int
        BY <2>2, <3>3, <4>2, SurplusIsInt
      <4>5. OneIf(rename[u].new = n) = 0 /\ OneIf(rename[u].old = n) = 1
        BY <4>1, <4>2 DEF OneIf
      <4>6. 1 + Surplus(rename, Moving, n) <= 0
        BY <4>3, <4>4, <4>5
      <4> QED
        BY <2>4, <3>1, <4>6 DEF n
    <3> QED
      BY <3>2, <3>3
  <2> QED
    BY <2>5, <2>6, <2>7
<1> QED
  BY <1>2, <1>3 DEF RenamesInv

LEMMA ExcuseStays ==
  ASSUME NEW why \in {"overlap", "stopped", "rollback", "cancelled"}
  PROVE  Because(why) # "no"
  BY DEF Because

LEMMA CreateAndDelete ==
  ASSUME RenamesInv,
         \/ \E n \in Names : CreateTemplate(n) \/ DeleteChecks(n)
         \/ DeleteUnlinks
         \/ \E i \in Intents, n \in Names : IntentChecks(i, n)
         \/ UNCHANGED templateVars
  PROVE  RenamesInv'
<1>0. TemplatesTypeOK /\ Builtin \in files /\ deleting # Builtin
  BY DEF RenamesInv, KeepsBuiltin
<1>1. ASSUME NEW n \in Names, CreateTemplate(n) \/ DeleteChecks(n)
      PROVE  RenamesInv'
  <2>1. TemplatesTypeOK'
    BY <1>0, <1>1 DEF TemplatesTypeOK, CreateTemplate, DeleteChecks
  <2>2. Builtin \in files' /\ deleting' # Builtin /\ files \subseteq files' /\ excused' = excused
    BY <1>0, <1>1 DEF CreateTemplate, DeleteChecks
  <2> QED
    BY <1>1, <2>1, <2>2, FilesStep DEF CreateTemplate, DeleteChecks
<1>2. CASE DeleteUnlinks
  <2>1. TemplatesTypeOK'
    BY <1>0, <1>2 DEF TemplatesTypeOK, DeleteUnlinks, Because
  <2>2. Builtin \in files' /\ deleting' # Builtin
    BY <1>0, <1>2 DEF DeleteUnlinks, Builtin
  <2>3. ASSUME excused' = "no"
        PROVE  /\ excused = "no"
               /\ \A n \in files \ files' : ~Referenced(n) /\ \A q \in Moving : rename[q].new # n
    <3>1. /\ ~(\/ Referenced(deleting) \/ \E i \in Intents : saving[i] = deleting
               \/ \E q \in Renames : rename[q].at # "idle" /\ rename[q].new = deleting)
          /\ excused' = excused
      BY <1>2, <2>3, ExcuseStays DEF DeleteUnlinks
    <3> QED
      BY <1>2, <2>3, <3>1 DEF DeleteUnlinks, Moving
  <2> QED
    BY <1>2, <2>1, <2>2, <2>3, FilesStep DEF DeleteUnlinks
<1>3. ASSUME NEW i \in Intents, NEW n \in Names, IntentChecks(i, n)
      PROVE  RenamesInv'
  <2>1. TemplatesTypeOK'
    BY <1>0, <1>3 DEF TemplatesTypeOK, IntentChecks
  <2> QED
    BY <1>0, <1>3, <2>1, FilesStep DEF IntentChecks
<1>4. CASE UNCHANGED templateVars
  <2>1. TemplatesTypeOK'
    BY <1>0, <1>4 DEF TemplatesTypeOK, templateVars
  <2> QED
    BY <1>0, <1>4, <2>1, FilesStep DEF templateVars
<1> QED
  BY <1>1, <1>2, <1>3, <1>4

LEMMA IntentSavesStep ==
  ASSUME RenamesInv, NEW i \in Intents, IntentSaves(i)
  PROVE  RenamesInv'
<1> DEFINE n == saving[i]
<1>1. /\ n # "none" /\ InTransaction = {} /\ ref' = [ref EXCEPT ![i] = n]
      /\ saving' = [saving EXCEPT ![i] = "none"]
      /\ UNCHANGED <<files, undo, queue, rename, deleting>>
  BY DEF IntentSaves
<1>2. excused' = IF n \in files /\ \A q \in Renames : rename[q].at # "idle" => n # rename[q].new
                 THEN excused ELSE Because("overlap")
  BY DEF IntentSaves
<1>3. TemplatesTypeOK /\ n \in Names
  BY <1>1 DEF RenamesInv, TemplatesTypeOK
<1> HIDE DEF n
<1>4. TemplatesTypeOK'
  BY <1>1, <1>2, <1>3 DEF TemplatesTypeOK, Because
<1>5. /\ Moving' = Moving /\ Moved' = Moved /\ InTransaction' = {}
      /\ \A p, q : Before(p, q)' <=> Before(p, q)
  BY <1>1 DEF Moving, Moved, InTransaction, Before
<1>6. QueueFits' /\ KeepsBuiltin'
  BY <1>1, <1>5 DEF RenamesInv, QueueFits, KeepsBuiltin
<1>7. ASSUME excused' = "no"
      PROVE  RearsFit' /\ RefsFit' /\ UndoFits'
  <2>1. /\ n \in files /\ \A q \in Moved : rename[q].new # n
        /\ excused = "no"
    BY <1>2, <1>7, ExcuseStays DEF Moved
  <2>2. RearsFit'
    BY <1>1, <1>5, <2>1 DEF RenamesInv, RearsFit, Rear, There
  <2>3. UndoFits'
    BY <1>5 DEF UndoFits
  <2>4. RefsFit'
    <3> SUFFICES ASSUME NEW j \in Intents
                 PROVE  1 + Surplus(rename, Moved, ref'[j]) <= There(ref'[j])
      BY <1>1, <1>5 DEF RefsFit, There
    <3>1. CASE j = i
      <4>1. ref'[j] = n
        BY <1>1, <1>3, <3>1 DEF TemplatesTypeOK
      <4>2. Surplus(rename, Moved, n) <= 0 /\ Surplus(rename, Moved, n) \in Int
        BY <2>1, SurplusIsInt, MovingAreRenames
      <4>3. There(n) = 1
        BY <2>1 DEF There, OneIf
      <4> QED
        BY <4>1, <4>2, <4>3
    <3>2. CASE j # i
      <4>1. ref'[j] = ref[j]
        BY <1>1, <1>3, <3>2 DEF TemplatesTypeOK
      <4> QED
        BY <2>1, <4>1 DEF RenamesInv, RefsFit
    <3> QED
      BY <3>1, <3>2
  <2> QED
    BY <2>2, <2>3, <2>4
<1> QED
  BY <1>4, <1>6, <1>7 DEF RenamesInv

(* The file moves from old to new, and one more rename is under way.       *)
LEMMA RenameMovesStep ==
  ASSUME RenamesInv, NEW q \in Renames, NEW old \in Names, NEW new \in Names, RenameMoves(q, old, new)
  PROVE  RenamesInv'
<1> DEFINE r == [at |-> "moved", old |-> old, new |-> new]
<1>1. /\ rename[q].at = "idle" /\ Builtin # old /\ Builtin # new
      /\ old \in files /\ new \notin files
      /\ files' = (files \ {old}) \cup {new}
      /\ rename' = [rename EXCEPT ![q] = r]
      /\ queue' = Append(queue, q)
      /\ UNCHANGED <<ref, undo, saving, deleting, excused>>
  BY DEF RenameMoves
<1>2. r \in [at : {"idle", "moved", "updated"}, old : Names, new : Names]
      /\ r.at = "moved" /\ r.old = old /\ r.new = new
  OBVIOUS
<1> HIDE DEF r
<1>3. /\ TemplatesTypeOK /\ queue \in Seq(Renames) /\ NoneTwice(queue) /\ ToSet(queue) = Moving
      /\ q \notin Moving
  BY <1>1 DEF RenamesInv, QueueFits, TemplatesTypeOK, Moving
<1>4. /\ rename' \in [Renames -> [at : {"idle", "moved", "updated"}, old : Names, new : Names]]
      /\ rename'[q] = r /\ \A p \in Renames \ {q} : rename'[p] = rename[p]
  BY <1>1, <1>2, <1>3 DEF TemplatesTypeOK
<1>5. /\ queue' \in Seq(Renames) /\ NoneTwice(queue') /\ ToSet(queue') = Moving \cup {q}
      /\ \A p, s : Ahead(queue', p, s) <=> Ahead(queue, p, s) \/ (p \in Moving /\ s = q)
  BY <1>1, <1>3, QueueGrows
<1>6. \A p, s : Before(p, s)' <=> Before(p, s) \/ (p \in Moving /\ s = q)
  BY <1>5 DEF Before, Ahead
<1>7. /\ Moving' = Moving \cup {q} /\ Moved' = Moved \cup {q} /\ InTransaction' = InTransaction
      /\ q \notin Moved /\ q \notin InTransaction
  BY <1>1, <1>2, <1>4 DEF Moving, Moved, InTransaction
<1>8. TemplatesTypeOK'
  BY <1>1, <1>3, <1>4, <1>5 DEF TemplatesTypeOK
<1>9. QueueFits'
  BY <1>5, <1>6, <1>7 DEF RenamesInv, QueueFits
<1>10. KeepsBuiltin'
  <2>1. \A p \in Moving : p # q /\ p \in Renames
    BY <1>3 DEF Moving
  <2> QED
    BY <1>1, <1>2, <1>4, <1>7, <2>1 DEF RenamesInv, KeepsBuiltin
<1>11. \A n : OneIf(n \in files') = There(n) + OneIf(new = n) - OneIf(old = n) /\ There(n) \in {0, 1}
  BY <1>1 DEF There, OneIf
(* One more at the end of a set of renames. *)
<1>12. ASSUME NEW S \in SUBSET Renames, q \notin S, NEW n
       PROVE  /\ Surplus(rename', S \cup {q}, n) = Surplus(rename, S, n) + OneIf(new = n) - OneIf(old = n)
              /\ Surplus(rename, S, n) \in Int
  <2>1. Surplus(rename', S \cup {q}, n) =
          Surplus(rename', S, n) + OneIf(rename'[q].new = n) - OneIf(rename'[q].old = n)
    BY <1>12, SurplusAdds
  <2>2. Surplus(rename', S, n) = Surplus(rename, S, n)
    BY <1>4, <1>12, SurplusSame
  <2> QED
    BY <1>2, <1>4, <2>1, <2>2, SurplusIsInt
<1>13. ASSUME NEW S \in SUBSET Renames, q \notin S, NEW n, NEW k \in {0, 1},
              k + Surplus(rename, S, n) <= There(n)
       PROVE  k + Surplus(rename', S \cup {q}, n) <= OneIf(n \in files')
  <2>1. PICK b, x, y \in {0, 1} : b = There(n) /\ x = OneIf(new = n) /\ y = OneIf(old = n)
    BY DEF There, OneIf
  <2>2. PICK a \in Int : a = Surplus(rename, S, n)
    BY SurplusIsInt
  <2>3. OneIf(n \in files') = b + x - y
    BY <1>11, <2>1
  <2>4. Surplus(rename', S \cup {q}, n) = a + x - y
    BY <1>12, <1>13, <2>1, <2>2
  <2>5. k + a <= b
    BY <1>13, <2>1, <2>2
  <2> QED
    BY <2>3, <2>4, <2>5
<1>14. ASSUME excused' = "no"
       PROVE  RearsFit' /\ RefsFit' /\ UndoFits'
  <2>1. RearsFit /\ RefsFit /\ UndoFits
    BY <1>1, <1>14 DEF RenamesInv
  <2>2. RearsFit'
    <3> SUFFICES ASSUME NEW S \in SUBSET Renames, NEW n \in Names, Rear(S)'
                 PROVE  Surplus(rename', S, n) <= OneIf(n \in files')
      BY DEF RearsFit, There
    <3>1. CASE q \in S
      <4> DEFINE T == S \ {q}
      <4>1. T \in SUBSET Renames /\ q \notin T /\ S = T \cup {q}
        BY <3>1
      <4>2. Rear(T)
        BY <1>3, <1>6, <1>7 DEF Rear
      <4> HIDE DEF T
      <4>3. 0 + Surplus(rename, T, n) <= There(n)
        BY <2>1, <4>1, <4>2, SurplusIsInt DEF RearsFit
      <4>4. 0 + Surplus(rename', S, n) <= OneIf(n \in files')
        BY <1>13, <4>1, <4>3
      <4> QED
        BY <4>4, SurplusIsInt
    <3>2. CASE q \notin S
      <4>1. S = {}
        BY <1>6, <1>7, <3>2 DEF Rear
      <4> QED
        BY <4>1, SurplusIsInt DEF OneIf
    <3> QED
      BY <3>1, <3>2
  <2>3. RefsFit'
    <3> SUFFICES ASSUME NEW i \in Intents
                 PROVE  1 + Surplus(rename', Moved \cup {q}, ref[i]) <= OneIf(ref[i] \in files')
      BY <1>1, <1>7 DEF RefsFit, There
    <3>1. 1 + Surplus(rename, Moved, ref[i]) <= There(ref[i])
      BY <2>1 DEF RefsFit
    <3> QED
      BY <1>7, <1>13, <3>1, MovingAreRenames
  <2>4. UndoFits'
    <3> SUFFICES ASSUME NEW u \in InTransaction, NEW i \in Intents
                 PROVE  /\ 1 + Surplus(rename', Moving \cup {q}, undo[i]) <= OneIf(undo[i] \in files')
                        /\ undo[i] \in {ref[i], rename'[u].old}
      BY <1>1, <1>7 DEF UndoFits, There
    <3>1. 1 + Surplus(rename, Moving, undo[i]) <= There(undo[i]) /\ undo[i] \in {ref[i], rename[u].old}
      BY <2>1 DEF UndoFits
    <3>2. rename'[u] = rename[u]
      BY <1>4, <1>7 DEF InTransaction
    <3> QED
      BY <1>3, <1>13, <3>1, <3>2, MovingAreRenames
  <2> QED
    BY <2>2, <2>3, <2>4
<1> QED
  BY <1>8, <1>9, <1>10, <1>14 DEF RenamesInv

(* The first rename follows the references. *)
LEMMA RenameUpdatesStep ==
  ASSUME RenamesInv, NEW q \in Renames, RenameUpdates(q)
  PROVE  RenamesInv'
<1>1. PICK p : p = rename[q]
  OBVIOUS
<1>2. PICK r : r = [rename[q] EXCEPT !.at = "updated"]
  OBVIOUS
<1>3. /\ p.at = "moved" /\ Head(queue) = q
      /\ undo' = ref
      /\ ref' = [i \in Intents |-> IF ref[i] = p.old THEN p.new ELSE ref[i]]
      /\ rename' = [rename EXCEPT ![q] = r]
      /\ UNCHANGED <<files, queue, saving, deleting, excused>>
  BY <1>1, <1>2 DEF RenameUpdates
<1>4. /\ TemplatesTypeOK /\ queue \in Seq(Renames) /\ NoneTwice(queue) /\ ToSet(queue) = Moving
      /\ q \in Moving /\ q \in Moved
  BY <1>1, <1>3 DEF RenamesInv, QueueFits, TemplatesTypeOK, Moving, Moved
<1>5. /\ r \in [at : {"idle", "moved", "updated"}, old : Names, new : Names]
      /\ r.at = "updated" /\ r.old = p.old /\ r.new = p.new /\ p.old \in Names /\ p.new \in Names
  BY <1>1, <1>2, <1>4 DEF TemplatesTypeOK
<1>6. /\ rename' \in [Renames -> [at : {"idle", "moved", "updated"}, old : Names, new : Names]]
      /\ rename'[q] = r /\ \A s \in Renames \ {q} : rename'[s] = rename[s]
  BY <1>3, <1>4, <1>5 DEF TemplatesTypeOK
<1>7. \A s \in Renames : rename'[s].new = rename[s].new /\ rename'[s].old = rename[s].old
  BY <1>1, <1>5, <1>6
<1>8. \A s, t : Before(s, t)' <=> Before(s, t)
  BY <1>3 DEF Before
<1>9. \A s : ~Before(s, q)
  <2>1. queue # <<>>
    BY <1>4 DEF ToSet
  <2>2. \A s : ~Ahead(queue, s, q)
    BY <1>3, <1>4, <2>1, QueueHead
  <2> QED
    BY <2>2 DEF Before, Ahead
<1>10. InTransaction = {}
  <2> SUFFICES ASSUME NEW u \in InTransaction PROVE FALSE
    OBVIOUS
  <2>1. u # q
    BY <1>1, <1>3 DEF InTransaction
  <2> QED
    BY <1>4, <1>9, <2>1, OrderOfRenames
<1>11. Moving' = Moving /\ Moved' = Moved \ {q} /\ InTransaction' = {q} /\ Moved = Moving
  <2>1. Moved = Moving
    BY <1>4, <1>10 DEF Moved, Moving, InTransaction, TemplatesTypeOK
  <2>2. Moving' = Moving
    BY <1>4, <1>5, <1>6 DEF Moving
  <2>3. Moved' = Moved \ {q}
    BY <1>5, <1>6 DEF Moved
  <2>4. InTransaction' = {q}
    BY <1>5, <1>6, <1>10 DEF InTransaction
  <2> QED
    BY <2>1, <2>2, <2>3, <2>4
<1>12. TemplatesTypeOK'
  <2>1. ref' \in [Intents -> Names] /\ undo' \in [Intents -> Names]
    BY <1>3, <1>4, <1>5 DEF TemplatesTypeOK
  <2> QED
    BY <1>3, <1>4, <1>6, <2>1 DEF TemplatesTypeOK
<1>13. QueueFits'
  BY <1>3, <1>8, <1>9, <1>11 DEF RenamesInv, QueueFits
<1>14. KeepsBuiltin'
  BY <1>3, <1>7, <1>11 DEF RenamesInv, KeepsBuiltin, Moving
<1>15. p.old # p.new
  BY <1>1, <1>4 DEF RenamesInv, KeepsBuiltin
<1>16. ASSUME excused' = "no"
       PROVE  RearsFit' /\ RefsFit' /\ UndoFits'
  <2>1. RearsFit /\ RefsFit
    BY <1>3, <1>16 DEF RenamesInv
  <2>2. \A S \in SUBSET Renames : \A n : Surplus(rename', S, n) = Surplus(rename, S, n)
    BY <1>7, SurplusSame
  <2>3. RearsFit'
    BY <1>3, <1>8, <1>11, <2>1, <2>2 DEF RearsFit, Rear, There
  <2>4. \A n : Surplus(rename, Moving, n) =
                 Surplus(rename, Moving \ {q}, n) + OneIf(p.new = n) - OneIf(p.old = n)
    <3>1. Moving \ {q} \in SUBSET Renames /\ (Moving \ {q}) \cup {q} = Moving /\ q \notin Moving \ {q}
      BY <1>4, MovingAreRenames
    <3> QED
      BY <1>1, <3>1, SurplusAdds
  <2>5. \A n : Surplus(rename, Moving, n) \in Int /\ Surplus(rename, Moving \ {q}, n) \in Int
    BY SurplusIsInt, MovingAreRenames
  <2>6. RefsFit'
    <3> SUFFICES ASSUME NEW i \in Intents
                 PROVE  1 + Surplus(rename, Moving \ {q}, ref'[i]) <= There(ref'[i])
      <4>1. Moving \ {q} \in SUBSET Renames
        BY MovingAreRenames
      <4> QED
        BY <1>3, <1>11, <2>2, <4>1 DEF RefsFit, There
    <3>1. CASE ref[i] = p.old
      <4>1. ref'[i] = p.new
        BY <1>3, <3>1
      <4>2. Surplus(rename, Moving, p.new) <= There(p.new)
        BY <1>5, <2>1, MovingAreRenames DEF RearsFit, Rear
      <4>3. Surplus(rename, Moving, p.new) = Surplus(rename, Moving \ {q}, p.new) + 1
        <5>1. OneIf(p.new = p.new) = 1 /\ OneIf(p.old = p.new) = 0
          BY <1>15 DEF OneIf
        <5>2. Surplus(rename, Moving, p.new) = Surplus(rename, Moving \ {q}, p.new) + 1 - 0
          BY <2>4, <5>1
        <5> QED
          BY <2>5, <5>2
      <4>4. There(p.new) \in Int
        BY DEF There, OneIf
      <4> QED
        BY <2>5, <4>1, <4>2, <4>3, <4>4
    <3>2. CASE ref[i] # p.old
      <4>1. ref'[i] = ref[i]
        BY <1>3, <3>2
      <4>2. 1 + Surplus(rename, Moving, ref[i]) <= There(ref[i])
        BY <1>11, <2>1 DEF RefsFit
      <4>3. Surplus(rename, Moving, ref[i]) >= Surplus(rename, Moving \ {q}, ref[i])
        BY <2>4, <2>5, <3>2 DEF OneIf
      <4>4. There(ref[i]) \in Int
        BY DEF There, OneIf
      <4> QED
        BY <2>5, <4>1, <4>2, <4>3, <4>4
    <3> QED
      BY <3>1, <3>2
  <2>7. UndoFits'
    <3> SUFFICES ASSUME NEW i \in Intents
                 PROVE  /\ 1 + Surplus(rename', Moving, ref[i]) <= There(ref[i])
                        /\ ref[i] \in {ref'[i], rename'[q].old}
      BY <1>3, <1>11 DEF UndoFits, There
    <3>1. 1 + Surplus(rename, Moving, ref[i]) <= There(ref[i])
      BY <1>11, <2>1 DEF RefsFit
    <3>2. Surplus(rename', Moving, ref[i]) = Surplus(rename, Moving, ref[i])
      BY <2>2, MovingAreRenames
    <3>3. ref[i] = ref'[i] \/ ref[i] = rename'[q].old
      BY <1>3, <1>5, <1>6
    <3> QED
      BY <3>1, <3>2, <3>3
  <2> QED
    BY <2>3, <2>6, <2>7
<1> QED
  BY <1>12, <1>13, <1>14, <1>16 DEF RenamesInv

(* A rename is over and out of the queue. *)
LEMMA RenameIsDone ==
  ASSUME RenamesInv, NEW q \in Moving, RenameDone(q)
  PROVE  /\ queue' \in Seq(Renames)
         /\ rename' \in [Renames -> [at : {"idle", "moved", "updated"}, old : Names, new : Names]]
         /\ \A p \in Renames \ {q} : rename'[p] = rename[p]
         /\ Moving' = Moving \ {q} /\ Moved' = Moved \ {q} /\ InTransaction' = InTransaction \ {q}
         /\ \A p, s : Before(p, s)' <=> Before(p, s) /\ q \notin {p, s}
         /\ undo' \in [Intents -> Names] /\ (q \notin InTransaction => undo' = undo)
         /\ QueueFits'
<1>1. /\ TemplatesTypeOK /\ queue \in Seq(Renames) /\ NoneTwice(queue) /\ ToSet(queue) = Moving
      /\ q \in Renames
  BY DEF RenamesInv, QueueFits, TemplatesTypeOK, Moving
<1>2. /\ rename' = [rename EXCEPT ![q] = Idle] /\ queue' = RemoveAt(queue, Position(q))
      /\ undo' = IF q \in InTransaction THEN [i \in Intents |-> Builtin] ELSE undo
  BY DEF RenameDone
<1>3. PICK i : i = Position(q)
  OBVIOUS
<1>4. i \in DOMAIN queue /\ queue[i] = q
  <2>1. \E k \in DOMAIN queue : queue[k] = q
    BY <1>1 DEF ToSet
  <2> QED
    BY <1>3, <2>1 DEF Position
<1>5. queue' = RemoveAt(queue, i)
  BY <1>2, <1>3
<1>6. /\ queue' \in Seq(Renames) /\ NoneTwice(queue') /\ ToSet(queue') = ToSet(queue) \ {q}
      /\ \A p, s : Ahead(queue', p, s) <=> Ahead(queue, p, s) /\ q \notin {p, s}
  BY <1>1, <1>4, <1>5, QueueShrinks
<1>7. \A p, s : Before(p, s)' <=> Before(p, s) /\ q \notin {p, s}
  BY <1>6 DEF Before, Ahead
<1>8. Idle \in [at : {"idle", "moved", "updated"}, old : Names, new : Names] /\ Idle.at = "idle"
  BY BuiltinAssumption DEF Idle
<1>9. /\ rename' \in [Renames -> [at : {"idle", "moved", "updated"}, old : Names, new : Names]]
      /\ rename'[q] = Idle /\ \A p \in Renames \ {q} : rename'[p] = rename[p]
  BY <1>1, <1>2, <1>8 DEF TemplatesTypeOK
<1>10. Moving' = Moving \ {q} /\ Moved' = Moved \ {q} /\ InTransaction' = InTransaction \ {q}
  BY <1>1, <1>8, <1>9 DEF Moving, Moved, InTransaction
<1>11. undo' \in [Intents -> Names] /\ (q \notin InTransaction => undo' = undo)
  BY <1>1, <1>2, BuiltinAssumption DEF TemplatesTypeOK
<1>12. QueueFits'
  BY <1>1, <1>6, <1>7, <1>10 DEF RenamesInv, QueueFits
<1> QED
  BY <1>6, <1>7, <1>9, <1>10, <1>11, <1>12

LEMMA BuiltinStays ==
  ASSUME RenamesInv, NEW q \in Moving, RenameDone(q), deleting' = deleting,
         files' = files \/ files' = (files \ {rename[q].new}) \cup {rename[q].old}
  PROVE  KeepsBuiltin' /\ files' \subseteq Names
<1>1. /\ Moving' = Moving \ {q} /\ \A p \in Renames \ {q} : rename'[p] = rename[p]
  BY RenameIsDone
<1>2. Builtin \in files /\ rename[q].new # Builtin /\ rename[q].old \in Names /\ files \subseteq Names
  BY DEF RenamesInv, KeepsBuiltin, TemplatesTypeOK, Moving
<1>3. \A p \in Moving' : p \in Moving /\ rename'[p] = rename[p]
  BY <1>1 DEF Moving
<1> QED
  BY <1>2, <1>3 DEF RenamesInv, KeepsBuiltin

LEMMA RenameCommitsStep ==
  ASSUME RenamesInv, NEW q \in Renames, RenameCommits(q)
  PROVE  RenamesInv'
<1>1. /\ q \in InTransaction /\ q \in Moving /\ RenameDone(q)
      /\ UNCHANGED <<files, ref, saving, deleting, excused>>
  BY DEF RenameCommits, InTransaction, Moving
<1>2. /\ queue' \in Seq(Renames)
      /\ rename' \in [Renames -> [at : {"idle", "moved", "updated"}, old : Names, new : Names]]
      /\ \A p \in Renames \ {q} : rename'[p] = rename[p]
      /\ Moving' = Moving \ {q} /\ Moved' = Moved \ {q} /\ InTransaction' = InTransaction \ {q}
      /\ \A p, s : Before(p, s)' <=> Before(p, s) /\ q \notin {p, s}
      /\ undo' \in [Intents -> Names] /\ QueueFits'
  BY <1>1, RenameIsDone
<1>3. TemplatesTypeOK' /\ KeepsBuiltin'
  BY <1>1, <1>2, BuiltinStays DEF RenamesInv, TemplatesTypeOK
<1>4. InTransaction' = {} /\ q \notin Moved
  BY <1>1, <1>2, OrderOfRenames DEF InTransaction, Moved
<1>5. ASSUME excused' = "no"
      PROVE  RearsFit' /\ RefsFit' /\ UndoFits'
  <2>1. RearsFit /\ RefsFit
    BY <1>1, <1>5 DEF RenamesInv
  <2>2. \A S \in SUBSET Renames : \A n : q \notin S => Surplus(rename', S, n) = Surplus(rename, S, n)
    BY <1>2, SurplusSame
  <2>3. RearsFit'
    <3> SUFFICES ASSUME NEW S \in SUBSET Renames, NEW n \in Names, Rear(S)'
                 PROVE  Surplus(rename', S, n) <= There(n)
      BY <1>1 DEF RearsFit, There
    <3>1. q \notin S /\ S \subseteq Moving
      BY <1>2 DEF Rear
    <3>2. \A p : ~Before(p, q)
      BY <1>1, OrderOfRenames DEF RenamesInv, QueueFits, Moving
    <3>3. Rear(S)
      BY <1>2, <3>1, <3>2 DEF Rear
    <3> QED
      BY <2>1, <2>2, <3>1, <3>3 DEF RearsFit
  <2>4. RefsFit'
    <3>1. Moved' = Moved /\ q \notin Moved /\ Moved \in SUBSET Renames
      BY <1>2, <1>4, MovingAreRenames
    <3> SUFFICES ASSUME NEW i \in Intents
                 PROVE  1 + Surplus(rename', Moved, ref[i]) <= There(ref[i])
      BY <1>1, <3>1 DEF RefsFit, There
    <3>2. Surplus(rename', Moved, ref[i]) = Surplus(rename, Moved, ref[i])
      BY <2>2, <3>1
    <3> QED
      BY <2>1, <3>2 DEF RefsFit
  <2> QED
    BY <1>4, <2>3, <2>4 DEF UndoFits
<1> QED
  BY <1>2, <1>3, <1>5 DEF RenamesInv

(* The file moves back from new to old.  If no later rename has taken it,  *)
(* no later rename has arrived at its name either.                         *)
LEMMA NobodyArrivesLater ==
  ASSUME RenamesInv, RearsFit, NEW q \in Moving,
         \A p \in Renames : Before(q, p) => rename[p].old # rename[q].new
  PROVE  \A p \in Renames : Before(q, p) => rename[p].new # rename[q].new
<1> SUFFICES ASSUME NEW y \in Renames, Before(q, y), rename[y].new = rename[q].new
             PROVE  FALSE
  OBVIOUS
<1> DEFINE n == rename[q].new
<1> DEFINE later == {p \in Moving : Before(q, p)}
<1> DEFINE others == later \ {y}
<1>1. /\ q \in Renames /\ n \in Names /\ rename[q].old # n
  BY DEF RenamesInv, TemplatesTypeOK, KeepsBuiltin, Moving
<1>2. y \in later /\ q \notin later /\ later \subseteq Renames
  BY OrderOfRenames DEF Moving
<1>3. Rear(later \cup {q})
  <2>1. \A p \in later \cup {q}, s \in Moving : Before(p, s) => Before(q, s)
    BY OrderOfRenames
  <2> QED
    BY <2>1 DEF Rear
<1>4. /\ others \in SUBSET Renames /\ y \notin others /\ later = others \cup {y}
      /\ later \in SUBSET Renames /\ later \cup {q} \in SUBSET Renames
  BY <1>1, <1>2
<1>5. \A p \in others : rename[p].old # n
  <2>1. \A p \in others : p \in Renames /\ Before(q, p)
    BY <1>4
  <2> QED
    BY <2>1
<1> HIDE DEF n, others, later
<1>6. Surplus(rename, others, n) >= 0 /\ Surplus(rename, others, n) \in Int
  BY <1>4, <1>5, SurplusIsInt
<1>7. Surplus(rename, later, n) = Surplus(rename, others, n) + 1
  <2>1. OneIf(rename[y].new = n) = 1 /\ OneIf(rename[y].old = n) = 0
    BY DEF OneIf, n
  <2>2. Surplus(rename, later, n) =
          Surplus(rename, others, n) + OneIf(rename[y].new = n) - OneIf(rename[y].old = n)
    BY <1>4, SurplusAdds
  <2> QED
    BY <1>6, <2>1, <2>2
<1>8. Surplus(rename, later \cup {q}, n) = Surplus(rename, later, n) + 1
  <2>1. OneIf(rename[q].new = n) = 1 /\ OneIf(rename[q].old = n) = 0
    BY <1>1 DEF OneIf, n
  <2>2. Surplus(rename, later \cup {q}, n) =
          Surplus(rename, later, n) + OneIf(rename[q].new = n) - OneIf(rename[q].old = n)
    BY <1>1, <1>2, <1>4, SurplusAdds
  <2> QED
    BY <1>6, <1>7, <2>1, <2>2
<1>9. Surplus(rename, later \cup {q}, n) <= There(n)
  BY <1>1, <1>3, <1>4 DEF RearsFit
<1> QED
  BY <1>6, <1>7, <1>8, <1>9 DEF There, OneIf

LEMMA RollBackKeeps ==
  ASSUME RenamesInv, RearsFit, RefsFit, UndoFits,
         NEW q \in Moving, RenameDone(q),
         rename[q].new \in files, rename[q].old \notin files,
         \A p \in Renames : Before(q, p) => rename[p].old # rename[q].new,
         files' = (files \ {rename[q].new}) \cup {rename[q].old},
         ref' = IF q \in InTransaction THEN undo ELSE ref
  PROVE  RearsFit' /\ RefsFit' /\ UndoFits'
<1> DEFINE old == rename[q].old
<1> DEFINE new == rename[q].new
<1>1. /\ \A p \in Renames \ {q} : rename'[p] = rename[p]
      /\ Moving' = Moving \ {q} /\ Moved' = Moved \ {q} /\ InTransaction' = InTransaction \ {q}
      /\ \A p, s : Before(p, s)' <=> Before(p, s) /\ q \notin {p, s}
      /\ (q \notin InTransaction => undo' = undo)
  BY RenameIsDone
<1>2. q \in Renames /\ old # new
  BY DEF Moving
<1>3. \A n : OneIf(n \in files') = There(n) - OneIf(new = n) + OneIf(old = n) /\ There(n) \in {0, 1}
  BY <1>2 DEF There, OneIf
(* One less in a set of renames. *)
<1>4. ASSUME NEW S \in SUBSET Renames, q \notin S, NEW n, NEW k \in {0, 1},
             k + Surplus(rename, S \cup {q}, n) <= There(n)
      PROVE  k + Surplus(rename', S, n) <= OneIf(n \in files')
  <2>1. PICK b, x, y \in {0, 1} : b = There(n) /\ x = OneIf(new = n) /\ y = OneIf(old = n)
    BY DEF There, OneIf
  <2>2. PICK a \in Int : a = Surplus(rename, S, n)
    BY SurplusIsInt
  <2>3. OneIf(n \in files') = b - x + y
    BY <1>3, <2>1
  <2>4. Surplus(rename, S \cup {q}, n) = a + x - y
    BY <1>2, <1>4, <2>1, <2>2, SurplusAdds
  <2>5. Surplus(rename', S, n) = a
    BY <1>1, <1>4, <2>2, SurplusSame
  <2>6. k + (a + x - y) <= b
    BY <1>4, <2>1, <2>4
  <2> QED
    BY <2>3, <2>5, <2>6
<1>5. RearsFit'
  <2> SUFFICES ASSUME NEW S \in SUBSET Renames, NEW n \in Names, Rear(S)'
               PROVE  Surplus(rename', S, n) <= OneIf(n \in files')
    BY DEF RearsFit, There
  <2>1. q \notin S /\ S \subseteq Moving /\ \A p \in S, s \in Moving \ {q} : Before(p, s) => s \in S
    BY <1>1 DEF Rear
  <2>2. CASE \E p \in S : Before(p, q)
    <3>1. Rear(S \cup {q})
      BY <2>1, <2>2, OrderOfRenames DEF Rear
    <3>2. 0 + Surplus(rename, S \cup {q}, n) <= There(n)
      <4>1. S \cup {q} \in SUBSET Renames
        BY <1>2
      <4> QED
        BY <3>1, <4>1, SurplusIsInt DEF RearsFit
    <3>3. 0 + Surplus(rename', S, n) <= OneIf(n \in files')
      BY <1>4, <2>1, <3>2
    <3> QED
      BY <3>3, SurplusIsInt
  <2>3. CASE \A p \in S : ~Before(p, q)
    <3>1. Rear(S)
      BY <2>1, <2>3 DEF Rear
    <3>2. \A p \in S : Before(q, p) /\ p \in Renames
      BY <2>1, <2>3, OrderOfRenames
    <3>3. PICK a \in Int : a = Surplus(rename, S, n)
      BY SurplusIsInt
    <3>4. a <= There(n) /\ Surplus(rename', S, n) = a
      <4>1. Surplus(rename', S, n) = Surplus(rename, S, n)
        BY <1>1, <2>1, SurplusSame
      <4> QED
        BY <3>1, <3>3, <4>1 DEF RearsFit
    <3>5. CASE n = new
      <4>1. \A p \in S : rename[p].new # n
        BY <3>2, <3>5, NobodyArrivesLater
      <4>2. a <= 0
        BY <3>3, <4>1, SurplusIsInt
      <4> QED
        BY <3>4, <4>2 DEF OneIf
    <3>6. CASE n # new
      <4>1. There(n) <= OneIf(n \in files')
        BY <3>6 DEF There, OneIf
      <4> QED
        BY <3>4, <4>1 DEF There, OneIf
    <3> QED
      BY <3>5, <3>6
  <2> QED
    BY <2>2, <2>3
<1>6. RefsFit'
  <2> SUFFICES ASSUME NEW i \in Intents
               PROVE  1 + Surplus(rename', Moved \ {q}, ref'[i]) <= OneIf(ref'[i] \in files')
    BY <1>1 DEF RefsFit, There
  <2>1. Moved \ {q} \in SUBSET Renames /\ q \notin Moved \ {q}
    BY MovingAreRenames
  <2>2. CASE q \in InTransaction
    <3>1. Moved \ {q} = Moving \ {q} /\ ref' = undo
      BY <2>2, OrderOfRenames DEF Moved, Moving, InTransaction, RenamesInv, TemplatesTypeOK
    <3>2. 1 + Surplus(rename, Moving, undo[i]) <= There(undo[i])
      BY <2>2 DEF UndoFits
    <3>3. Moving = (Moved \ {q}) \cup {q}
      BY <3>1
    <3> QED
      BY <1>4, <2>1, <3>1, <3>2, <3>3
  <2>3. CASE q \notin InTransaction
    <3>1. q \in Moved /\ ref' = ref
      BY <2>3 DEF Moved, Moving, InTransaction, RenamesInv, TemplatesTypeOK
    <3>2. 1 + Surplus(rename, Moved, ref[i]) <= There(ref[i])
      BY DEF RefsFit
    <3>3. Moved = (Moved \ {q}) \cup {q}
      BY <3>1
    <3> QED
      BY <1>4, <2>1, <3>1, <3>2, <3>3
  <2> QED
    BY <2>2, <2>3
<1>7. UndoFits'
  <2> SUFFICES ASSUME NEW u \in InTransaction \ {q}, NEW i \in Intents
               PROVE  /\ 1 + Surplus(rename', Moving \ {q}, undo'[i]) <= OneIf(undo'[i] \in files')
                      /\ undo'[i] \in {ref'[i], rename'[u].old}
    BY <1>1 DEF UndoFits, There
  <2>1. q \notin InTransaction
    BY OrderOfRenames
  <2>2. undo' = undo /\ ref' = ref /\ rename'[u] = rename[u]
    BY <1>1, <2>1 DEF InTransaction
  <2>3. 1 + Surplus(rename, Moving, undo[i]) <= There(undo[i]) /\ undo[i] \in {ref[i], rename[u].old}
    BY DEF UndoFits
  <2>4. Moving = (Moving \ {q}) \cup {q} /\ Moving \ {q} \in SUBSET Renames
    BY MovingAreRenames
  <2> QED
    BY <1>4, <2>2, <2>3, <2>4
<1> QED
  BY <1>5, <1>6, <1>7

LEMMA RenameRollsBackStep ==
  ASSUME RenamesInv, NEW q \in Renames, RenameRollsBack(q) \/ RenameCancelledInCommit(q)
  PROVE  RenamesInv'
<1>1. q \in Moving /\ RenameDone(q) /\ UNCHANGED <<saving, deleting>>
  BY DEF RenameRollsBack, RenameCancelledInCommit, Moving
<1>2. /\ queue' \in Seq(Renames)
      /\ rename' \in [Renames -> [at : {"idle", "moved", "updated"}, old : Names, new : Names]]
      /\ undo' \in [Intents -> Names] /\ QueueFits'
  BY <1>1, RenameIsDone
<1>3. files' = files \/ files' = (files \ {rename[q].new}) \cup {rename[q].old}
  BY DEF RenameRollsBack, RenameCancelledInCommit, MoveBack
<1>4. KeepsBuiltin' /\ files' \subseteq Names
  BY <1>1, <1>3, BuiltinStays
<1>5. ref' \in [Intents -> Names]
  BY DEF RenameRollsBack, RenameCancelledInCommit, RenamesInv, TemplatesTypeOK
<1>6. excused' \in {"no", "overlap", "stopped", "rollback", "cancelled"}
  BY DEF RenameRollsBack, RenameCancelledInCommit, MoveBack, Because, RenamesInv, TemplatesTypeOK
<1>7. TemplatesTypeOK'
  BY <1>1, <1>2, <1>4, <1>5, <1>6 DEF RenamesInv, TemplatesTypeOK
<1>8. ASSUME excused' = "no"
      PROVE  RearsFit' /\ RefsFit' /\ UndoFits'
  <2>1. RenameRollsBack(q)
    BY <1>8, ExcuseStays DEF RenameCancelledInCommit
  <2>2. /\ rename[q].new \in files /\ files' = (files \ {rename[q].new}) \cup {rename[q].old}
        /\ excused' = IF \/ rename[q].old \in files
                         \/ \E p \in Renames : Before(q, p) /\ rename[p].old = rename[q].new
                      THEN Because("overlap") ELSE excused
    BY <1>8, <2>1, ExcuseStays DEF RenameRollsBack, MoveBack
  <2>3. /\ rename[q].old \notin files /\ excused = "no"
        /\ \A p \in Renames : Before(q, p) => rename[p].old # rename[q].new
    BY <1>8, <2>2, ExcuseStays
  <2>4. ref' = IF q \in InTransaction THEN undo ELSE ref
    BY <2>1 DEF RenameRollsBack, InTransaction
  <2>5. RearsFit /\ RefsFit /\ UndoFits
    BY <2>3 DEF RenamesInv
  <2> QED
    BY <1>1, <2>2, <2>3, <2>4, <2>5, RollBackKeeps
<1> QED
  BY <1>2, <1>4, <1>7, <1>8 DEF RenamesInv

LEMMA StopStep ==
  ASSUME RenamesInv, StopAndStart
  PROVE  RenamesInv'
<1>1. /\ excused' = Because("stopped") /\ ref' = IF InTransaction = {} THEN ref ELSE undo
      /\ queue' = <<>> /\ rename' = [q \in Renames |-> Idle]
      /\ saving' = [i \in Intents |-> "none"] /\ deleting' = "none"
      /\ undo' = [i \in Intents |-> Builtin] /\ files' = files
  BY DEF StopAndStart
<1>2. Moving' = {} /\ InTransaction' = {}
  BY <1>1 DEF Moving, InTransaction, Idle
<1>3. TemplatesTypeOK'
  <2>1. <<>> \in Seq(Renames)
    OBVIOUS
  <2>2. Idle \in [at : {"idle", "moved", "updated"}, old : Names, new : Names]
    BY BuiltinAssumption DEF Idle
  <2>3. rename' \in [Renames -> [at : {"idle", "moved", "updated"}, old : Names, new : Names]]
    BY <1>1, <2>2
  <2>4. ref' \in [Intents -> Names] /\ undo' \in [Intents -> Names]
    BY <1>1, BuiltinAssumption DEF RenamesInv, TemplatesTypeOK
  <2>5. excused' \in {"no", "overlap", "stopped", "rollback", "cancelled"}
    BY <1>1 DEF Because, RenamesInv, TemplatesTypeOK
  <2> QED
    BY <1>1, <2>1, <2>3, <2>4, <2>5 DEF RenamesInv, TemplatesTypeOK
<1>4. QueueFits'
  BY <1>1, <1>2 DEF QueueFits, NoneTwice, ToSet
<1>5. KeepsBuiltin'
  BY <1>1, <1>2 DEF RenamesInv, KeepsBuiltin, Builtin
<1>6. excused' # "no"
  BY <1>1, ExcuseStays
<1> QED
  BY <1>3, <1>4, <1>5, <1>6 DEF RenamesInv

LEMMA RenamesStep == RenamesInv /\ [TemplatesNext]_templateVars => RenamesInv'
<1> SUFFICES ASSUME RenamesInv, [TemplatesNext]_templateVars
             PROVE  RenamesInv'
  OBVIOUS
<1>1. ASSUME NEW q \in Renames,
             \/ \E old, new \in Names : RenameMoves(q, old, new)
             \/ RenameUpdates(q) \/ RenameCommits(q)
             \/ RenameRollsBack(q) \/ RenameCancelledInCommit(q)
      PROVE  RenamesInv'
  BY <1>1, RenameMovesStep, RenameUpdatesStep, RenameCommitsStep, RenameRollsBackStep
<1> QED
  BY <1>1, CreateAndDelete, IntentSavesStep, StopStep DEF TemplatesNext

(* Every variable keeps its type. *)
THEOREM TemplateTypesHold == TemplatesSpec => []TemplatesTypeOK
<1>1. RenamesInv => TemplatesTypeOK
  BY DEF RenamesInv
<1> QED
  BY <1>1, RenamesInitial, RenamesStep, PTL DEF TemplatesSpec

(* When no rename is under way every intent names a template that is       *)
(* there, however many renames follow or overtake each other and fail, but *)
(* for the reasons ReferencesResolve names (rename_template_endpoint).     *)
THEOREM RenamesKeepReferences == TemplatesSpec => []ReferencesResolve
  BY RenamesInitial, RenamesStep, RenamesResolve, PTL DEF TemplatesSpec

-----------------------------------------------------------------------------
(* The run with all of them *)

(* In run knowledge every component takes its own steps or none, so what   *)
(* is proved of a component holds of the run, too (the endpoints and jobs  *)
(* of kb/, mapreduce/, templates/ and settings/ that share no state).      *)
THEOREM RunIsItsComponents ==
  KnowledgeSpec => /\ IndexSpec
                   /\ KbSpec
                   /\ ExtractSpec
                   /\ TemplatesSpec
                   /\ SettingsSpec
<1> DEFINE all == <<moves, indexVars, kbVars, extractVars, templateVars, settingsVars>>
<1>1. KnowledgeInit => IndexInit /\ KbInit /\ ExtractInit /\ TemplatesInit /\ SettingsInit
  BY DEF KnowledgeInit
<1>2. [KnowledgeNext]_all => [IndexNext]_indexVars
  BY DEF KnowledgeNext, OthersStay
<1>3. [KnowledgeNext]_all => [KbNext]_kbVars
  BY DEF KnowledgeNext, OthersStay
<1>4. [KnowledgeNext]_all => [ExtractNext]_extractVars
  BY DEF KnowledgeNext, OthersStay
<1>5. [KnowledgeNext]_all => [TemplatesNext]_templateVars
  BY DEF KnowledgeNext, OthersStay
<1>6. [KnowledgeNext]_all => [SettingsNext]_settingsVars
  BY DEF KnowledgeNext, OthersStay
<1> QED
  BY <1>1, <1>2, <1>3, <1>4, <1>5, <1>6, PTL
     DEF KnowledgeSpec, IndexSpec, KbSpec, ExtractSpec, TemplatesSpec, SettingsSpec

(* Every variable of the run keeps its type.                               *)
THEOREM KnowledgeTypesHold == KnowledgeSpec => []KnowledgeTypeOK
<1> DEFINE Chosen == moves \in {"index", "kb", "extract", "templates", "settings"}
           all == <<moves, indexVars, kbVars, extractVars, templateVars, settingsVars>>
<1>1. KnowledgeInit => Chosen
  BY DEF KnowledgeInit
<1>2. Chosen /\ [KnowledgeNext]_all => Chosen'
  BY DEF KnowledgeNext, OthersStay
<1>3. KnowledgeSpec => []Chosen
  <2> HIDE DEF Chosen
  <2> QED
    BY <1>1, <1>2, PTL DEF KnowledgeSpec
<1>4. IndexTypeOK /\ KbTypeOK /\ ExtractTypeOK /\ TemplatesTypeOK /\ SettingsTypeOK /\ Chosen
      => KnowledgeTypeOK
  BY DEF KnowledgeTypeOK
<1> QED
  <2> HIDE DEF Chosen
  <2> QED
    BY <1>3, <1>4, RunIsItsComponents, IndexTypesHold, KbTypesHold, ExtractTypesHold,
       TemplateTypesHold, SettingsTypesHold, PTL
=============================================================================
