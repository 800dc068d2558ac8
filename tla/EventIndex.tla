----------------------------- MODULE EventIndex -----------------------------
(***************************************************************************)
(* events.md of one intent as a value: the threads parse_doc reads, and    *)
(* what the daily merge (kb/merge), the lint (kb/lint) and the cold start  *)
(* (kb/distill) make of them.  The language model only picks: which        *)
(* threads today's digest updates, which threads are the same topic, which *)
(* threads a new index starts with.  A user may change the file by hand.   *)
(*                                                                         *)
(* Days are counted; 0 is a missing date.  A key is a sequence, because    *)
(* the cold start appends numbers to it.  Titles, sections other than the  *)
(* archive, current-state lines and stray lines are left out.  The file is *)
(* there: that it is only built on request is KnowledgeBase's part.        *)
(***************************************************************************)
EXTENDS Integers, Sequences, FiniteSets, SequencesExt, Subsequences

CONSTANTS
    Keys,           \* bound: the keys the model and the user can name
    LastDay,        \* bound of today
    RetentionDays,  \* RETENTION_DAYS
    MaxThreads,     \* bound on the threads of an answer
    MaxWrites       \* bound on the writes to the file

ASSUME IndexAssumption ==
    /\ Keys \subseteq Seq(Nat)
    /\ LastDay \in Nat \ {0} /\ {RetentionDays, MaxThreads, MaxWrites} \subseteq Nat

VARIABLES
    index,      \* the threads of the file, in order
    orphans,    \* timeline lines below a heading that lost its key
    today,
    author,     \* of the last write
    writes

indexVars == <<index, orphans, today, author, writes>>

Days == 1..LastDay

(* A timeline line is its day and who wrote it. *)
Line == Days \X {"model", "hand"}

Thread == [key : Seq(Nat), archived : BOOLEAN, last : 0..LastDay, lines : SUBSET Line]

IndexTypeOK ==
    /\ \A i \in DOMAIN index : index[i] \in Thread
    /\ orphans \subseteq Line
    /\ today \in Days /\ writes \in 0..MaxWrites
    /\ author \in {"none", "ingest", "lint", "rebuild", "dashboard"}

IndexInit ==
    index = <<>> /\ orphans = {} /\ today = 1 /\ author = "none" /\ writes = 0

DaysOf(t) == {line[1] : line \in t.lines}
KeysOf(threads) == {threads[i].key : i \in DOMAIN threads}
UniqueKeys(threads) ==
    \A i, j \in DOMAIN threads : threads[i].key = threads[j].key => i = j

(* {t.key: t for t in threads}: the last block of a key. *)
Holder(threads, key) ==
    CHOOSE i \in DOMAIN threads :
        threads[i].key = key /\ \A j \in DOMAIN threads : threads[j].key = key => j <= i

WithBlock(threads, key, Change(_)) ==
    [i \in DOMAIN threads |->
        IF i = Holder(threads, key) THEN Change(threads[i]) ELSE threads[i]]

Latest(a, b) == IF a >= b THEN a ELSE b
NewestOf(days) == CHOOSE d \in days : \A e \in days : e <= d

(* dict(entries) of old, then of new: one line per day, the later wins. *)
Overlay(old, new) == new \cup {l \in old : \A m \in new : m[1] # l[1]}
OneADay(lines) == {l \in lines : \A m \in lines : m[1] = l[1] /\ m # l => l[2] = "model"}

(* render_doc, and parse_doc of its text: archived threads come last, and  *)
(* a block without a date takes the newest of its lines.                   *)
Rendered(threads) ==
    LET archived == {i \in DOMAIN threads : threads[i].archived}
    IN  Subsequence(threads, DOMAIN threads \ archived) \o Subsequence(threads, archived)
Parsed(threads) ==
    [i \in DOMAIN threads |->
        [threads[i] EXCEPT !.last = NewestOf({@} \cup (IF @ = 0 THEN DaysOf(threads[i]) ELSE {}))]]

-----------------------------------------------------------------------------
(* kb/merge *)

NewThread(key) ==
    [key |-> key, archived |-> FALSE, last |-> today, lines |-> {<<today, "model">>}]

(* apply_updates, one update. *)
ApplyUpdate(threads, u) ==
    IF u.key \in KeysOf(threads)
    THEN WithBlock(threads, u.key, LAMBDA t :
             [t EXCEPT !.lines = Overlay(@, {<<today, "model">>}), !.last = Latest(@, today)])
    ELSE Append(threads, NewThread(u.key))

(* archive_expired *)
ArchiveExpired(threads) ==
    [i \in DOMAIN threads |->
        [threads[i] EXCEPT !.archived = @ \/ (threads[i].last # 0
                                              /\ threads[i].last < today - RetentionDays)]]

(* merge_digest; a digest with too few candidates changes nothing. *)
Merged(threads, updates) ==
    Rendered(ArchiveExpired(FoldLeft(ApplyUpdate, Parsed(threads), updates)))

-----------------------------------------------------------------------------
(* kb/lint *)

(* dedup_threads, one block: its lines go to the first block of its key. *)
DedupStep(kept, t) ==
    IF t.key \in KeysOf(kept)
    THEN WithBlock(kept, t.key, LAMBDA prev :
             [prev EXCEPT !.lines = Overlay(@, OneADay(t.lines)), !.last = Latest(@, t.last)])
    ELSE Append(kept, [t EXCEPT !.lines = OneADay(@)])

(* lint_content *)
Linted(threads) ==
    LET deduped == Rendered(FoldLeft(DedupStep, <<>>, Parsed(threads)))
    IN  Rendered(ArchiveExpired(Parsed(deduped)))

WithoutKeys(threads, keys) ==
    Subsequence(threads, {i \in DOMAIN threads : threads[i].key \notin keys})

(* merge_near_duplicates for one group: its threads are folded into the    *)
(* canonical one, and every block of the other keys is dropped.            *)
(* Mutant: the other threads are dropped, not folded in. *)
GroupedDropsOthers(threads, group, canonical) ==
    LET present == group \cap KeysOf(threads)
        canon == IF canonical \in present THEN canonical
                 ELSE CHOOSE k \in present : TRUE
    IN  IF Cardinality(present) < 2 THEN threads
        ELSE Rendered(WithoutKeys(threads, present \ {canon}))
Grouped(threads, group, canonical) ==
    LET present == group \cap KeysOf(threads)
        canon == IF canonical \in present THEN canonical
                 ELSE CHOOSE k \in present : TRUE
        members == {Holder(threads, k) : k \in present}
        rewritten == WithBlock(threads, canon, LAMBDA t :
            [t EXCEPT !.lines = OneADay(UNION {threads[i].lines : i \in members}),
                      !.last = NewestOf({threads[i].last : i \in members})])
    IN  IF Cardinality(present) < 2 THEN threads
        ELSE Rendered(WithoutKeys(rewritten, present \ {canon}))

-----------------------------------------------------------------------------
(* kb/distill *)

(* The key a new thread gets in render_threads. *)
(* Mutant: the suffix is not looked up. *)
FreshKeySuffixOnce(used, key) ==
    IF key \in used THEN Append(key, 2) ELSE key
FreshKey(used, key) ==
    IF key \in used
    THEN Append(key, CHOOSE n \in 2..(MaxThreads + 1) :
                        /\ Append(key, n) \notin used
                        /\ \A m \in 2..(n - 1) : Append(key, m) \in used)
    ELSE key

(* render_threads: every thread of the answer, its timeline as dated by    *)
(* the model.                                                              *)
DistillStep(built, t) ==
    Append(built, [key |-> FreshKey(KeysOf(built), t.key), archived |-> FALSE,
                   last |-> t.day, lines |-> {<<t.day, "model">>}])

Distilled(answer) == Rendered(FoldLeft(DistillStep, <<>>, answer))

-----------------------------------------------------------------------------
(* The writes to the file, one after the other *)

Write(threads, identity) ==
    /\ writes' = writes + 1
    /\ index' = threads
    /\ author' = identity

Ingest(updates) ==
    /\ Write(Merged(index, updates), "ingest")
    /\ UNCHANGED <<orphans, today>>

Lint(group, canonical) ==
    /\ Write(Linted(Grouped(Parsed(index), group, canonical)), "lint")
    /\ UNCHANGED <<orphans, today>>

Rebuild(answer) ==
    /\ Write(Distilled(answer), "rebuild")
    /\ orphans' = {}
    /\ UNCHANGED today

(* A user pastes a block, whatever its key. *)
PasteBlock(key, day) ==
    /\ Len(index) < MaxThreads
    /\ Write(Append(index, [key |-> key, archived |-> FALSE, last |-> 0,
                            lines |-> {<<day, "hand">>}]), "dashboard")
    /\ UNCHANGED <<orphans, today>>

(* A user deletes the key of a heading; parse_doc keeps what is below it,  *)
(* but not as a thread.                                                    *)
LoseKey(i) ==
    /\ Write(RemoveAt(index, i), "dashboard")
    /\ orphans' = orphans \cup index[i].lines
    /\ UNCHANGED today

NextDay ==
    /\ today < LastDay
    /\ today' = today + 1
    /\ UNCHANGED <<index, orphans, author, writes>>

Update == [key : Keys, isNew : BOOLEAN]
Answer == [key : Keys, day : 1..today]

IndexNext ==
    \/ /\ writes < MaxWrites
       /\ \/ \E updates \in BoundedSeq(Update, 2) : Ingest(updates)
          \/ \E group \in SUBSET Keys, canonical \in Keys : Lint(group, canonical)
          \/ \E answer \in BoundedSeq(Answer, MaxThreads) : Rebuild(answer)
          \/ \E key \in Keys, day \in 1..today : PasteBlock(key, day)
          \/ \E i \in DOMAIN index : LoseKey(i)
    \/ NextDay

IndexSpec == IndexInit /\ [][IndexNext]_indexVars

-----------------------------------------------------------------------------
(* Neither the daily merge nor the lint drops a day of a timeline, as long *)
(* as no two blocks have the same key: every thread is still there, or     *)
(* another one has taken its days over (lint.py "Non-lossy (timelines      *)
(* merged, not dropped)"; merge.py "converge / don't drop").  Lines below  *)
(* a heading without a key stay where they are.                            *)
TimelinesKept ==
    [][author' \in {"ingest", "lint"} /\ writes' # writes /\ UniqueKeys(index) =>
          /\ \A i \in DOMAIN index : \E j \in DOMAIN index' :
                DaysOf(index[i]) \subseteq DaysOf(index'[j])
          /\ orphans \subseteq orphans']_indexVars

(* Blocks with the same key come from a user only, and the lint joins      *)
(* them: the merge cannot spawn one (apply_updates "so the LLM can't spawn *)
(* duplicate-key blocks"), nor can the cold start (render_threads          *)
(* "de-duplicated with a numeric suffix").                                 *)
KeysStayUnique ==
    [][writes' # writes /\ ~UniqueKeys(index') =>
          author' = "dashboard" \/ (author' = "ingest" /\ ~UniqueKeys(index))]_indexVars
=============================================================================
