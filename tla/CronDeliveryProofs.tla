-------------------------- MODULE CronDeliveryProofs --------------------------
(***************************************************************************)
(* The four kinds of scan of a cron intent, for any number of articles,    *)
(* any schedule and any number of requests, restarts and failures.         *)
(***************************************************************************)
EXTENDS CronDelivery, TLAPS, WellFoundedInduction

(* The fire times still to replay are the m oldest of a run that ended     *)
(* before the period q: taking the earliest leaves such a run.             *)
FireTimesBefore(q, m) == {(q - i) * Period + Offset : i \in 1..m}

TodoShape == \E q \in Int, m \in Nat : todo = FireTimesBefore(q, m)

(* A scan carries matches from its query on and a history from its prompt  *)
(* on; only a replay looks at the intent first, and only the scans that    *)
(* mark come to the mark.                                                  *)
ScanShape ==
    /\ \A s \in Scans : pc[s] \in {"idle", "start", "check", "query"} => cites[s] = {}
    /\ \A s \in Scans : pc[s] # "llm" => past[s] = NoTime
    /\ \A s \in Scans \ {"replay"} : pc[s] \notin {"start", "check"}
    /\ \A s \in Scans \ Marking : pc[s] # "mark"

(* What a scan carries past the mark, and nothing else, explains match_seen. *)
SeenInv == seen \subseteq Cited \cup dropped \cup InTheMaking("tick") \cup InTheMaking("replay")

(* No point is younger than the clock, and what a scan or a digest cites   *)
(* has its point still or lost it to the TTL; a replay's matches are not   *)
(* younger than its fire time.                                             *)
WindowInv ==
    /\ \A a \in Articles : news[a] # NoTime => news[a] <= clock
    /\ \A s \in Scans, a \in Articles : a \in cites[s] => news[a] # NoTime \/ a \in evicted
    /\ \A row \in rows, a \in Articles : a \in row.cites => news[a] # NoTime \/ a \in evicted
    /\ \A a \in cites["replay"] :
          news[a] # NoTime /\ a \notin evicted => news[a] <= anchor["replay"]
    /\ ReplayStaysInWindow

(* While the intent exists, every article of a digest of a tick or a       *)
(* replay, stored or in the making, is in match_seen or was taken out of   *)
(* it; when the intent is gone there is no digest and there will be none.  *)
OnceInv ==
    /\ intent = "gone" => rows = {}
    /\ intent # "gone" =>
          /\ \A row \in rows : row.fire # NoTime => row.cites \subseteq seen \cup evicted
          /\ \A s \in Marking : InTheMaking(s) \subseteq seen \cup evicted
    /\ DeliveredOnce

Inv ==
    /\ TypeOK
    /\ TodoShape
    /\ ScanShape
    /\ LockFollowsReplay
    /\ SeenInv
    /\ HistoryIsPast
    /\ WindowInv
    /\ OnceInv

-----------------------------------------------------------------------------
(* Times *)

(* A set of integers with an upper bound has a greatest element. *)
LEMMA BoundedHasMax ==
    ASSUME NEW T \in SUBSET Int, T # {}, NEW b \in Int, \A t \in T : t <= b
    PROVE  \E t \in T : \A u \in T : u <= t
<1> DEFINE D == {n \in Nat : b - n \in T}
<1>0. \A t \in T : t \in Int /\ b - t \in D /\ b - (b - t) = t
    OBVIOUS
<1>1. D \subseteq Nat /\ D # {}
    BY <1>0
<1> HIDE DEF D
<1>2. PICK d \in D : \A e \in D : ~(<<e, d>> \in OpToRel(<, Nat))
    BY <1>1, WFMin, NatLessThanWellFounded
<1>3. \A e \in D : ~(e < d)
    BY <1>1, <1>2 DEF OpToRel
<1>4. b - d \in T /\ \A u \in T : u <= b - d
    BY <1>0, <1>1, <1>3 DEF D
<1> QED BY <1>4

LEMMA ModUnique ==
    ASSUME NEW q \in Int, NEW o \in 0..(Period - 1) PROVE (q * Period + o) % Period = o
<1> DEFINE x == q * Period + o
<1>1. /\ x \in Int /\ (x \div Period) \in Int
      /\ x = (Period * (x \div Period)) + (x % Period) /\ x % Period \in 0..(Period - 1)
    BY TimesAssumption
<1>2. Period * (q - (x \div Period)) = (x % Period) - o
    BY <1>1, TimesAssumption
<1> QED BY <1>1, <1>2, TimesAssumption

(* Every Period consecutive seconds hold a fire time. *)
LEMMA FireTimeExists ==
    ASSUME NEW n \in Int PROVE \E t \in (n - Period + 1)..n : IsFireTime(t)
<1> DEFINE q == (n - Offset) \div Period
<1>1. /\ q \in Int /\ n - Offset = (Period * q) + ((n - Offset) % Period)
      /\ (n - Offset) % Period \in 0..(Period - 1)
    BY TimesAssumption
<1>2. q * Period + Offset \in (n - Period + 1)..n
    BY <1>1, TimesAssumption
<1>3. IsFireTime(q * Period + Offset)
    BY <1>1, ModUnique, TimesAssumption DEF IsFireTime
<1> QED BY <1>2, <1>3

(* NewestDigest finds no digest younger than its moment. *)
LEMMA NewestIsPast ==
    ASSUME TypeOK, NEW now \in Int
    PROVE  /\ NewestDigest(now) \in Int \cup {NoTime}
           /\ NewestDigest(now) # NoTime => NewestDigest(now) <= now
<1> DEFINE times == {row.at : row \in rows} \cap (now - HistorySpan)..now
<1>1. times \subseteq Int /\ \A t \in times : t <= now
    BY TimesAssumption
<1> HIDE DEF times
<1>2. CASE times = {}
    BY <1>2 DEF NewestDigest, times
<1>3. CASE times # {}
    <2>1. \E t \in times : \A u \in times : u <= t
        BY <1>1, <1>3, BoundedHasMax
    <2>2. NewestDigest(now) = CHOOSE t \in times : \A u \in times : u <= t
        BY <1>3 DEF NewestDigest, times
    <2>3. NewestDigest(now) \in times
        BY <2>1, <2>2
    <2> QED BY <1>1, <2>3
<1> QED BY <1>2, <1>3

(* Taking the oldest fire time leaves a run of fire times. *)
LEMMA EarliestOfTodo ==
    ASSUME TodoShape, todo # {}
    PROVE  /\ Earliest(todo) \in Int
           /\ \E q \in Int, m \in Nat : todo \ {Earliest(todo)} = FireTimesBefore(q, m)
<1>1. PICK q \in Int, m \in Nat : todo = FireTimesBefore(q, m)
    BY DEF TodoShape
<1>2. m # 0
    BY <1>1 DEF FireTimesBefore
<1> DEFINE first == (q - m) * Period + Offset
<1>3. first \in Int /\ first \in todo
    BY <1>1, <1>2, TimesAssumption DEF FireTimesBefore
<1>4. \A i \in 1..(m - 1) : (q - i) * Period >= (q - m) * Period + Period
    BY <1>2, TimesAssumption
<1>5. \A i \in 1..m : i = m \/ i \in 1..(m - 1)
    BY <1>2
<1>6. todo \ {first} = FireTimesBefore(q, m - 1)
    <2>1. \A i \in 1..(m - 1) : i \in 1..m /\ (q - i) * Period + Offset # first
        BY <1>2, <1>4, TimesAssumption
    <2>2. todo = {(q - i) * Period + Offset : i \in 1..m}
        BY <1>1 DEF FireTimesBefore
    <2>3. FireTimesBefore(q, m - 1) = {(q - i) * Period + Offset : i \in 1..(m - 1)}
        BY DEF FireTimesBefore
    <2> HIDE DEF first
    <2>4. ASSUME NEW u \in todo, u # first PROVE u \in FireTimesBefore(q, m - 1)
        BY <1>5, <2>2, <2>3, <2>4 DEF first
    <2> QED BY <2>1, <2>2, <2>3, <2>4
<1>7. \A u \in todo : u \in Int /\ first <= u
    BY <1>1, <1>3, <1>4, <1>5, TimesAssumption DEF FireTimesBefore
<1>8. Earliest(todo) = first
    BY <1>3, <1>7 DEF Earliest
<1> QED BY <1>2, <1>3, <1>6, <1>8

LEMMA AnswersType ==
    ASSUME TypeOK, NEW s \in Scans
    PROVE  /\ Answers(s) \in Int \cup {NoTime}
           /\ s \notin Marking => Answers(s) = NoTime
           /\ s = "replay" => Answers(s) = anchor["replay"]
<1>1. anchor[s] \in Int
    BY DEF TypeOK
<1>2. CASE s = "tick"
    <2>1. Answers(s) = CHOOSE t \in (anchor[s] - Period + 1)..anchor[s] : IsFireTime(t)
        BY <1>2 DEF Answers
    <2>2. Answers(s) \in (anchor[s] - Period + 1)..anchor[s]
        BY <1>1, <2>1, FireTimeExists
    <2> QED BY <1>1, <1>2, <2>2, TimesAssumption DEF Marking
<1> QED BY <1>1, <1>2 DEF Answers, Marking, Scans

-----------------------------------------------------------------------------
(* The invariant holds initially and is kept: a lemma per kind of step. *)

LEMMA InvInit == Init => Inv
<1> SUFFICES ASSUME Init PROVE Inv
    OBVIOUS
<1> USE DEF Init, SummaryInit
<1>1. TypeOK
    <2>1. SummaryTypeOK
        BY TimesAssumption DEF SummaryTypeOK, Times
    <2>2. active \subseteq Scans /\ throttle \in 0..FireRate /\ requests \in 0..Requests
        BY DeliveryAssumption
    <2>3. /\ pc \in [Scans -> {"idle", "start", "check", "query", "mark", "prompt", "llm"}]
          /\ anchor \in [Scans -> Int] /\ cites \in [Scans -> SUBSET Articles]
        OBVIOUS
    <2>4. past \in [Scans -> Int \cup {NoTime}]
        OBVIOUS
    <2> HIDE DEF Init, SummaryInit
    <2>5. /\ intent = "on" /\ due = FALSE /\ paused = FALSE /\ locked = FALSE /\ todo = {}
          /\ task = "none"
        BY DEF Init
    <2> QED BY <2>1, <2>2, <2>3, <2>4, <2>5 DEF TypeOK
<1>2. TodoShape
    <2>1. todo = FireTimesBefore(0, 0)
        BY DEF FireTimesBefore
    <2> QED BY <2>1 DEF TodoShape
<1>3. ScanShape /\ LockFollowsReplay /\ SeenInv /\ HistoryIsPast
    BY DEF ScanShape, LockFollowsReplay, SeenInv, HistoryIsPast, Scans, Marking
<1>4. WindowInv /\ OnceInv
    BY DEF WindowInv, ReplayStaysInWindow, OnceInv, DeliveredOnce, InTheMaking, Scans, Marking
<1> QED BY <1>1, <1>2, <1>3, <1>4 DEF Inv

(* A scan, or the replay task, starts. *)
LEMMA StartKeeps ==
    ASSUME Inv, StartTick \/ StartFire \/ StartExternal \/ PostBackfill
    PROVE  Inv'
<1> USE DEF StartTick, StartFire, StartExternal, PostBackfill, Goto, TakesFire, summaryVars,
            replayVars
<1>t. TypeOK
    BY DEF Inv
<1>1. /\ UNCHANGED <<clock, news, seen, rows, dropped, evicted, intent, anchor, cites, past, todo>>
      /\ \E s \in Scans, to \in {"idle", "query", "start"} :
             /\ pc[s] = "idle" /\ pc' = [pc EXCEPT ![s] = to]
             /\ to = "start" => s = "replay"
    <2>1. CASE StartTick /\ pc' = pc
        <3>1. pc' = [pc EXCEPT !["tick"] = "idle"]
            BY <2>1, <1>t DEF TypeOK
        <3> QED BY <2>1, <3>1 DEF Scans
    <2> QED BY <2>1 DEF Scans
<1>2. PICK s \in Scans, to \in {"idle", "query", "start"} :
             /\ pc[s] = "idle" /\ pc' = [pc EXCEPT ![s] = to]
             /\ to = "start" => s = "replay"
    BY <1>1
<1>3. TypeOK'
    <2>1. throttle' \in 0..FireRate
        BY <1>t, DeliveryAssumption DEF TypeOK
    <2> QED BY <1>t, <1>1, <1>2, <2>1 DEF TypeOK, SummaryTypeOK
<1>4. TodoShape'
    BY <1>1 DEF Inv, TodoShape
<1>5. ScanShape'
    BY <1>t, <1>1, <1>2 DEF Inv, ScanShape, TypeOK
<1>6. LockFollowsReplay'
    BY <1>t DEF Inv, LockFollowsReplay, TypeOK, Scans
<1>7. \A r \in Scans : InTheMaking(r)' = InTheMaking(r)
    BY <1>t, <1>1, <1>2 DEF InTheMaking, TypeOK
<1>8. SeenInv'
    BY <1>1, <1>7 DEF Inv, SeenInv, Cited, Scans
<1>9. HistoryIsPast'
    BY <1>1 DEF Inv, HistoryIsPast, RunAt
<1>10. WindowInv'
    BY <1>1 DEF Inv, WindowInv, ReplayStaysInWindow
<1>11. OnceInv'
    BY <1>1, <1>7 DEF Inv, OnceInv, DeliveredOnce, Scans, Marking
<1> QED BY <1>3, <1>4, <1>5, <1>6, <1>8, <1>9, <1>10, <1>11 DEF Inv

(* A scan ends without a digest; what it had marked is written off. *)
LEMMA FinishKeeps ==
    ASSUME Inv, NEW s \in Scans, NEW lost \in SUBSET Articles, Finish(s, lost),
           pc[s] \in {"query", "mark", "prompt", "llm"},
           s \in Marking => InTheMaking(s) \subseteq lost,
           UNCHANGED <<clock, news, seen, rows, evicted, controlVars>>
    PROVE  Inv'
<1> USE DEF Finish, controlVars, replayVars
<1>t. TypeOK
    BY DEF Inv
<1>0. Resting(s) \in {"idle", "check"} /\ (Resting(s) = "check" <=> s = "replay")
    BY DEF Resting
<1>1. TypeOK'
    BY <1>t, <1>0 DEF TypeOK, SummaryTypeOK
<1>2. TodoShape'
    BY DEF Inv, TodoShape
<1>3. ScanShape'
    BY <1>t, <1>0 DEF Inv, ScanShape, TypeOK
<1>4. LockFollowsReplay'
    BY <1>t, <1>0 DEF Inv, LockFollowsReplay, TypeOK, Scans
<1>5. InTheMaking(s)' = {} /\ \A r \in Scans \ {s} : InTheMaking(r)' = InTheMaking(r)
    BY <1>t, <1>0 DEF InTheMaking, TypeOK
<1>6. SeenInv'
    BY <1>5 DEF Inv, SeenInv, Cited, Scans, Marking
<1>7. HistoryIsPast'
    BY <1>t, <1>0 DEF Inv, HistoryIsPast, RunAt, TypeOK
<1>8. WindowInv'
    BY <1>t DEF Inv, WindowInv, ReplayStaysInWindow, TypeOK
<1>9. OnceInv'
    BY <1>5 DEF Inv, OnceInv, DeliveredOnce, Scans, Marking
<1> QED BY <1>1, <1>2, <1>3, <1>4, <1>6, <1>7, <1>8, <1>9 DEF Inv

(* The replay ends. *)
LEMMA EndReplayKeeps ==
    ASSUME Inv, NEW how \in {"done", "error"}, NEW lost \in SUBSET Articles,
           EndReplay(how, lost), pc["replay"] # "idle", InTheMaking("replay") \subseteq lost
    PROVE  Inv'
<1> USE DEF EndReplay
<1>t. TypeOK /\ "replay" \in Scans
    BY DEF Inv, Scans
<1>1. TypeOK'
    <2>1. SummaryTypeOK'
        BY <1>t DEF TypeOK, SummaryTypeOK
    <2>2. anchor' \in [Scans -> Int] /\ cites' \in [Scans -> SUBSET Articles]
        BY <1>t DEF TypeOK
    <2> QED BY <1>t, <2>1, <2>2 DEF TypeOK
<1>2. TodoShape'
    <2>1. todo' = FireTimesBefore(0, 0)
        BY DEF FireTimesBefore
    <2> QED BY <2>1 DEF TodoShape
<1>3. ScanShape'
    BY <1>t DEF Inv, ScanShape, TypeOK
<1>4. LockFollowsReplay'
    BY <1>t DEF Inv, LockFollowsReplay, TypeOK
<1>5. InTheMaking("replay")' = {} /\ \A r \in Scans \ {"replay"} : InTheMaking(r)' = InTheMaking(r)
    BY <1>t DEF InTheMaking, TypeOK
<1>6. SeenInv'
    BY <1>5 DEF Inv, SeenInv, Cited, Scans
<1>7. HistoryIsPast'
    BY <1>t DEF Inv, HistoryIsPast, RunAt, TypeOK
<1>8. WindowInv'
    BY <1>t DEF Inv, WindowInv, ReplayStaysInWindow, TypeOK
<1>9. OnceInv'
    BY <1>5 DEF Inv, OnceInv, DeliveredOnce, Scans, Marking
<1> QED BY <1>1, <1>2, <1>3, <1>4, <1>6, <1>7, <1>8, <1>9 DEF Inv

(* A digest is stored. *)
LEMMA StoreKeeps ==
    ASSUME Inv, NEW s \in Scans, pc[s] = "llm", intent # "gone", ~RunAtTaken(RunAt(s)),
           rows' = rows \cup {NewRow(s)}, Finish(s, {}),
           UNCHANGED <<clock, news, seen, evicted, controlVars>>
    PROVE  Inv'
<1> USE DEF Finish, controlVars, replayVars
<1>t. TypeOK
    BY DEF Inv
<1>0. Resting(s) \in {"idle", "check"} /\ (Resting(s) = "check" <=> s = "replay")
    BY DEF Resting
<1>r. NewRow(s).at = RunAt(s) /\ NewRow(s).fire = Answers(s) /\ NewRow(s).cites = cites[s]
    BY DEF NewRow
<1>1. TypeOK'
    <2>1. RunAt(s) \in Int /\ cites[s] \in SUBSET Articles
        BY <1>t DEF RunAt, TypeOK, SummaryTypeOK, Times, Scans
    <2>2. NewRow(s) \in Row
        BY <1>t, <2>1, AnswersType DEF NewRow, Row
    <2> QED BY <1>t, <1>0, <2>2 DEF TypeOK, SummaryTypeOK
<1>2. TodoShape'
    BY DEF Inv, TodoShape
<1>3. ScanShape'
    BY <1>t, <1>0 DEF Inv, ScanShape, TypeOK
<1>4. LockFollowsReplay'
    BY <1>t, <1>0 DEF Inv, LockFollowsReplay, TypeOK, Scans
<1>5. /\ InTheMaking(s)' = {} /\ InTheMaking(s) = cites[s]
      /\ \A r \in Scans \ {s} : InTheMaking(r)' = InTheMaking(r)
    BY <1>t, <1>0 DEF InTheMaking, TypeOK
<1>6. SeenInv'
    <2>1. Cited' = Cited \cup cites[s]
        BY <1>r DEF Cited
    <2> QED BY <1>5, <2>1 DEF Inv, SeenInv, Scans
<1>7. HistoryIsPast'
    BY <1>t, <1>0 DEF Inv, HistoryIsPast, RunAt, TypeOK
<1>8. WindowInv'
    <2>1. NewRow(s).at = NewRow(s).fire =>
             \A a \in cites[s] : news[a] # NoTime /\ a \notin evicted => news[a] <= RunAt(s)
        BY <1>t DEF Inv, WindowInv, RunAt, TypeOK
    <2> QED BY <1>t, <1>r, <2>1 DEF Inv, WindowInv, ReplayStaysInWindow, TypeOK
<1>9. OnceInv'
    <2>1. NewRow(s).fire # NoTime => s \in Marking
        BY <1>t, <1>r, AnswersType
    <2>2. \A r \in rows : r # NewRow(s)
        BY <1>r DEF RunAtTaken
    <2> QED BY <1>r, <1>5, <2>1, <2>2 DEF Inv, OnceInv, DeliveredOnce, Scans, Marking
<1> QED BY <1>1, <1>2, <1>3, <1>4, <1>6, <1>7, <1>8, <1>9 DEF Inv

(* The first two awaits of a scan: its query and its prompt; the replay's  *)
(* snapshot and its next fire time.                                        *)
LEMMA QueryKeeps ==
    ASSUME Inv, NEW s \in Scans, NEW hits \in SUBSET Articles, Query(s, hits)
    PROVE  Inv'
<1> DEFINE to == IF s \in Marking THEN "mark" ELSE "prompt"
<1> DEFINE now == IF s = "replay" THEN anchor[s] ELSE clock
<1>t. TypeOK
    BY DEF Inv
<1>0. /\ pc[s] = "query" /\ pc' = [pc EXCEPT ![s] = to]
      /\ anchor' = [anchor EXCEPT ![s] = now] /\ cites' = [cites EXCEPT ![s] = hits]
      /\ hits \subseteq InWindow(now)
      /\ UNCHANGED <<clock, news, seen, rows, dropped, evicted, past, intent, active, paused,
                     locked, todo, task, due, throttle, requests>>
    BY DEF Query, Goto, summaryVars, controlVars, replayVars
<1>n. now \in Int /\ (s = "replay" => now = anchor[s])
    BY <1>t DEF TypeOK, SummaryTypeOK, Times
<1>h. \A a \in hits : news[a] # NoTime /\ news[a] <= now
    BY <1>t, <1>0, <1>n, TimesAssumption DEF InWindow, TypeOK, SummaryTypeOK, Times
<1>1. TypeOK'
    BY <1>t, <1>0, <1>n DEF TypeOK, SummaryTypeOK
<1>2. TodoShape'
    BY <1>0 DEF Inv, TodoShape
<1>3. ScanShape'
    BY <1>t, <1>0 DEF Inv, ScanShape, TypeOK
<1>4. LockFollowsReplay'
    BY <1>t, <1>0 DEF Inv, LockFollowsReplay, TypeOK, Scans
<1>5. /\ InTheMaking(s) = {} /\ (s \in Marking => InTheMaking(s)' = {})
      /\ \A r \in Scans \ {s} : InTheMaking(r)' = InTheMaking(r)
    BY <1>t, <1>0 DEF InTheMaking, TypeOK
<1>6. SeenInv'
    BY <1>0, <1>5 DEF Inv, SeenInv, Cited, Scans, Marking
<1>7. HistoryIsPast'
    BY <1>t, <1>0 DEF Inv, ScanShape, HistoryIsPast, RunAt, TypeOK
<1>8. WindowInv'
    <2>1. \A r \in Scans : cites'[r] = IF r = s THEN hits ELSE cites[r]
        BY <1>t, <1>0 DEF TypeOK
    <2>2. anchor'["replay"] = anchor["replay"]
        BY <1>t, <1>0 DEF TypeOK, Scans
    <2> QED BY <1>0, <1>n, <1>h, <2>1, <2>2 DEF Inv, WindowInv, ReplayStaysInWindow, Scans
<1>9. OnceInv'
    BY <1>0, <1>5 DEF Inv, OnceInv, DeliveredOnce, Scans, Marking
<1> QED BY <1>1, <1>2, <1>3, <1>4, <1>6, <1>7, <1>8, <1>9 DEF Inv

LEMMA PromptKeeps ==
    ASSUME Inv, NEW s \in Scans, Prompt(s)
    PROVE  Inv'
<1>t. TypeOK
    BY DEF Inv
<1>0. /\ pc[s] = "prompt" /\ pc' = [pc EXCEPT ![s] = "llm"]
      /\ \E read \in {NoTime, NewestDigest(PromptNow(s))} : past' = [past EXCEPT ![s] = read]
      /\ UNCHANGED <<clock, news, seen, rows, dropped, evicted, anchor, cites, intent, active,
                     paused, locked, todo, task, due, throttle, requests>>
    BY DEF Prompt, Goto, summaryVars, controlVars, replayVars
<1>n. PromptNow(s) \in Int /\ PromptNow(s) = RunAt(s)
    BY <1>t DEF PromptNow, RunAt, TypeOK, SummaryTypeOK, Times
<1>p. PICK read \in Int \cup {NoTime} :
             /\ past' = [past EXCEPT ![s] = read]
             /\ read # NoTime => read <= RunAt(s)
    BY <1>t, <1>0, <1>n, NewestIsPast
<1>1. TypeOK'
    BY <1>t, <1>0, <1>p DEF TypeOK, SummaryTypeOK
<1>2. TodoShape'
    BY <1>0 DEF Inv, TodoShape
<1>3. ScanShape'
    BY <1>t, <1>0, <1>p DEF Inv, ScanShape, TypeOK
<1>4. LockFollowsReplay'
    BY <1>t, <1>0 DEF Inv, LockFollowsReplay, TypeOK, Scans
<1>5. \A r \in Scans : InTheMaking(r)' = InTheMaking(r)
    BY <1>t, <1>0 DEF InTheMaking, TypeOK
<1>6. SeenInv'
    BY <1>0, <1>5 DEF Inv, SeenInv, Cited, Scans
<1>7. HistoryIsPast'
    BY <1>t, <1>0, <1>p DEF Inv, HistoryIsPast, RunAt, TypeOK
<1>8. WindowInv'
    BY <1>0 DEF Inv, WindowInv, ReplayStaysInWindow
<1>9. OnceInv'
    BY <1>0, <1>5 DEF Inv, OnceInv, DeliveredOnce, Scans, Marking
<1> QED BY <1>1, <1>2, <1>3, <1>4, <1>6, <1>7, <1>8, <1>9 DEF Inv

LEMMA ReplayMovesKeep ==
    ASSUME Inv, NextFireTime \/ \E n \in 1..MaxReplays : BeginReplay(n)
    PROVE  Inv'
<1>t. TypeOK /\ "replay" \in Scans
    BY DEF Inv, Scans
<1>0. /\ \/ /\ pc["replay"] = "check" /\ pc' = [pc EXCEPT !["replay"] = "query"]
            /\ \E at \in Int : anchor' = [anchor EXCEPT !["replay"] = at]
            /\ UNCHANGED paused
         \/ /\ pc["replay"] = "start" /\ pc' = [pc EXCEPT !["replay"] = "check"]
            /\ UNCHANGED anchor
            /\ paused' \in BOOLEAN
      /\ \E q \in Int, m \in Nat : todo' = FireTimesBefore(q, m)
      /\ UNCHANGED <<clock, news, seen, rows, dropped, evicted, past, cites, intent, active,
                     locked, task, due, throttle, requests>>
    <2>1. CASE NextFireTime
        BY <2>1, EarliestOfTodo DEF NextFireTime, Goto, summaryVars, Inv
    <2>2. ASSUME NEW n \in 1..MaxReplays, BeginReplay(n)
          PROVE  \E q \in Int, m \in Nat : todo' = FireTimesBefore(q, m)
        <3>1. todo' = FireTimesBefore(clock \div Period, n) /\ clock \div Period \in Int
            BY <1>t, <2>2, TimesAssumption
            DEF BeginReplay, PastFireTimes, FireTimesBefore, TypeOK, SummaryTypeOK, Times
        <3> QED BY <3>1
    <2>3. CASE \E n \in 1..MaxReplays : BeginReplay(n)
        BY <2>2, <2>3 DEF BeginReplay, Goto, summaryVars
    <2> QED BY <2>1, <2>3
<1>1. TypeOK'
    <2>1. todo' \subseteq Int
        BY <1>0, TimesAssumption DEF FireTimesBefore
    <2> QED BY <1>t, <1>0, <2>1 DEF TypeOK, SummaryTypeOK
<1>2. TodoShape'
    BY <1>0 DEF TodoShape, FireTimesBefore
<1>3. ScanShape'
    BY <1>t, <1>0 DEF Inv, ScanShape, TypeOK
<1>4. LockFollowsReplay'
    BY <1>t, <1>0 DEF Inv, LockFollowsReplay, TypeOK
<1>5. \A r \in Scans : InTheMaking(r)' = InTheMaking(r)
    BY <1>t, <1>0 DEF InTheMaking, TypeOK
<1>6. SeenInv'
    BY <1>0, <1>5 DEF Inv, SeenInv, Cited, Scans
<1>7. HistoryIsPast'
    BY <1>t, <1>0 DEF Inv, ScanShape, HistoryIsPast, RunAt, TypeOK
<1>8. WindowInv'
    <2>1. cites["replay"] = {}
        BY <1>t, <1>0 DEF Inv, ScanShape
    <2> QED BY <1>0, <2>1 DEF Inv, WindowInv, ReplayStaysInWindow
<1>9. OnceInv'
    BY <1>0, <1>5 DEF Inv, OnceInv, DeliveredOnce, Scans, Marking
<1> QED BY <1>1, <1>2, <1>3, <1>4, <1>6, <1>7, <1>8, <1>9 DEF Inv

(* The INSERT .. RETURNING that makes the articles this scan's own. *)
LEMMA MarkKeeps ==
    ASSUME Inv, NEW s \in Marking, Mark(s)
    PROVE  Inv'
<1> DEFINE new == IF SkipSeen THEN Unseen(cites[s]) ELSE cites[s]
<1>t. TypeOK /\ s \in Scans
    BY DEF Inv, Scans, Marking
<1>m. InTheMaking(s) = {} /\ new \subseteq cites[s] /\ cites[s] \subseteq Articles
    BY <1>t DEF Mark, InTheMaking, Unseen, TypeOK
<1>1. CASE new = {}
    <2>1. seen' = seen
        BY <1>1 DEF Mark, MarkSeen, Unseen
    <2> QED BY <1>t, <1>m, <1>1, <2>1, FinishKeeps DEF Mark
<1>2. CASE new # {}
    <2>0. /\ pc[s] = "mark" /\ intent # "gone" /\ pc' = [pc EXCEPT ![s] = "prompt"]
          /\ cites' = [cites EXCEPT ![s] = new] /\ seen' = seen \cup cites[s]
          /\ UNCHANGED <<clock, news, rows, dropped, evicted, anchor, past, intent, active, paused,
                         locked, todo, task, due, throttle, requests>>
        BY <1>2 DEF Mark, MarkSeen, Goto, controlVars, replayVars
    <2>n. /\ seen' \subseteq seen \cup new \cup (IF SkipSeen THEN {} ELSE new)
          /\ SkipSeen => new \cap seen = {}
        BY <2>0 DEF Unseen
    <2> HIDE DEF new
    <2>1. TypeOK'
        BY <1>t, <1>m, <2>0 DEF TypeOK, SummaryTypeOK
    <2>2. TodoShape'
        BY <2>0 DEF Inv, TodoShape
    <2>3. ScanShape'
        BY <1>t, <2>0 DEF Inv, ScanShape, TypeOK
    <2>4. LockFollowsReplay'
        BY <1>t, <2>0 DEF Inv, LockFollowsReplay, TypeOK, Scans
    <2>5. /\ InTheMaking(s)' = new
          /\ \A r \in Scans \ {s} : InTheMaking(r)' = InTheMaking(r)
        BY <1>t, <2>0 DEF InTheMaking, TypeOK
    <2>6. SeenInv'
        BY <1>m, <2>0, <2>n, <2>5 DEF Inv, SeenInv, Cited, Scans, Marking
    <2>7. HistoryIsPast'
        BY <2>0 DEF Inv, HistoryIsPast, RunAt
    <2>8. WindowInv'
        <3>1. \A r \in Scans : cites'[r] \subseteq cites[r]
            BY <1>t, <1>m, <2>0 DEF TypeOK
        <3> QED BY <2>0, <3>1 DEF Inv, WindowInv, ReplayStaysInWindow, Scans
    <2>9. OnceInv'
        BY <1>m, <2>0, <2>n, <2>5 DEF Inv, OnceInv, DeliveredOnce, Scans, Marking
    <2> QED BY <2>1, <2>2, <2>3, <2>4, <2>6, <2>7, <2>8, <2>9 DEF Inv
<1> QED BY <1>1, <1>2

(* Users and the TTL take articles out of match_seen, and say so. *)
LEMMA StoreStepKeeps ==
    ASSUME Inv,
           \/ \E enabled, newText \in BOOLEAN : PutIntent(enabled, newText)
           \/ DeleteIntent \/ DeleteHistoryRow \/ Expire \/ IngestArticle
    PROVE  Inv'
<1>t. TypeOK
    BY DEF Inv
<1>r. requests' \in 0..Requests
    BY <1>t, DeliveryAssumption DEF PutIntent, DeleteIntent, DeleteHistoryRow, Expire,
                                    IngestArticle, Request, TypeOK
<1>0. /\ UNCHANGED <<clock, pc, anchor, cites, past, locked, todo, task, throttle, active, dropped>>
      /\ requests' \in 0..Requests
      /\ paused' \in {paused, FALSE} /\ due' \in BOOLEAN
      /\ rows' \subseteq rows
      /\ intent' \in {"on", "off", "gone"}
      /\ (intent = "gone" => intent' = "gone")
    <2>1. ASSUME NEW enabled \in BOOLEAN, NEW newText \in BOOLEAN, PutIntent(enabled, newText)
          PROVE  /\ UNCHANGED <<clock, pc, anchor, cites, past, locked, todo, task, throttle,
                                active, dropped, rows>>
                 /\ paused' = FALSE /\ due' = FALSE /\ intent # "gone" /\ intent' \in {"on", "off"}
        BY <2>1 DEF PutIntent, ClearSeen, scanVars, summaryVars
    <2>2. CASE DeleteIntent
        BY <1>t, <1>r, <2>2 DEF DeleteIntent, scanVars, TypeOK
    <2>3. CASE DeleteHistoryRow
        BY <1>t, <1>r, <2>3 DEF DeleteHistoryRow, DeleteSummary, scanVars, replayVars, TypeOK
    <2>4. CASE Expire
        BY <1>t, <1>r, <2>4 DEF Expire, ExpireArticle, scanVars, replayVars, TypeOK
    <2>5. CASE IngestArticle
        BY <1>t, <1>r, <2>5 DEF IngestArticle, Ingest, scanVars, replayVars, TypeOK
    <2> QED BY <1>r, <2>1, <2>2, <2>3, <2>4, <2>5
<1>1. /\ evicted \subseteq evicted' /\ evicted' \subseteq Articles
      /\ seen' \subseteq seen
      /\ intent' # "gone" => seen \cup evicted \subseteq seen' \cup evicted'
      /\ intent' = "gone" /\ intent # "gone" => rows' = {} /\ seen' = {}
      /\ \A r \in rows \ rows' : seen' \cap r.cites = {}
    BY <1>t DEF PutIntent, DeleteIntent, DeleteHistoryRow, Expire, IngestArticle,
           DeleteSummary, ClearSeen, ExpireArticle, Ingest, summaryVars, TypeOK, SummaryTypeOK, Row
<1>2. /\ news' \in [Articles -> Times \cup {NoTime}]
      /\ \A a \in Articles : \/ news'[a] = news[a]
                             \/ news'[a] = NoTime /\ a \in evicted'
                             \/ news[a] = NoTime /\ news'[a] = clock
    <2>1. CASE IngestArticle
        BY <1>t, <2>1 DEF IngestArticle, Ingest, TypeOK, SummaryTypeOK
    <2>2. CASE Expire
        BY <1>t, <2>2 DEF Expire, ExpireArticle, TypeOK, SummaryTypeOK
    <2>3. CASE ~IngestArticle /\ ~Expire
        BY <1>t, <2>3 DEF PutIntent, DeleteIntent, DeleteHistoryRow, DeleteSummary, ClearSeen,
                          summaryVars, TypeOK, SummaryTypeOK
    <2> QED BY <2>1, <2>2, <2>3
<1>3. TypeOK'
    BY <1>t, <1>0, <1>1, <1>2 DEF TypeOK, SummaryTypeOK
<1>4. TodoShape'
    BY <1>0 DEF Inv, TodoShape
<1>5. ScanShape'
    BY <1>0 DEF Inv, ScanShape
<1>6. LockFollowsReplay'
    <2>1. CASE paused' = paused
        BY <1>0, <2>1 DEF Inv, LockFollowsReplay
    <2>2. CASE paused' = FALSE
        BY <1>0, <2>2 DEF Inv, LockFollowsReplay
    <2> QED BY <1>0, <2>1, <2>2
<1>7. \A r \in Scans : InTheMaking(r)' = InTheMaking(r)
    BY <1>0 DEF InTheMaking
<1>8. SeenInv'
    BY <1>0, <1>1, <1>7 DEF Inv, SeenInv, Cited, Scans
<1>9. HistoryIsPast'
    BY <1>0 DEF Inv, HistoryIsPast, RunAt
<1>10. WindowInv'
    <2>1. clock \in Int /\ NoTime \notin Int /\ \A r \in rows : r.cites \subseteq Articles
        BY <1>t, TimesAssumption DEF TypeOK, SummaryTypeOK, Times, Row
    <2>2. cites["replay"] \subseteq Articles /\ "replay" \in Scans
        BY <1>t DEF TypeOK, Scans
    <2> QED BY <1>0, <1>1, <1>2, <2>1, <2>2 DEF Inv, WindowInv, ReplayStaysInWindow
<1>11. OnceInv'
    BY <1>0, <1>1, <1>7 DEF Inv, OnceInv, DeliveredOnce, Scans, Marking
<1> QED BY <1>3, <1>4, <1>5, <1>6, <1>8, <1>9, <1>10, <1>11 DEF Inv

LEMMA SecondPassesKeeps == Inv /\ SecondPasses => Inv'
<1> SUFFICES ASSUME Inv, SecondPasses PROVE Inv'
    OBVIOUS
<1>t. TypeOK
    BY DEF Inv
<1>0. /\ clock' = clock + 1 /\ clock' \in Times /\ clock \in Int
      /\ UNCHANGED <<news, seen, rows, dropped, evicted, intent, active, pc, anchor, cites, past,
                     paused, locked, todo, task, requests>>
    BY <1>t, TimesAssumption
    DEF SecondPasses, ClockTicks, scanVars, replayVars, TypeOK, SummaryTypeOK, Times
<1>1. TypeOK'
    <2>1. throttle' \in 0..FireRate /\ due' \in BOOLEAN
        BY <1>t, DeliveryAssumption DEF SecondPasses, TypeOK
    <2> QED BY <1>t, <1>0, <2>1 DEF TypeOK, SummaryTypeOK
<1>2. TodoShape' /\ ScanShape' /\ LockFollowsReplay'
    BY <1>0 DEF Inv, TodoShape, ScanShape, LockFollowsReplay
<1>3. \A r \in Scans : InTheMaking(r)' = InTheMaking(r)
    BY <1>0 DEF InTheMaking
<1>4. SeenInv' /\ OnceInv'
    BY <1>0, <1>3 DEF Inv, SeenInv, OnceInv, DeliveredOnce, Cited, Scans, Marking
<1>5. HistoryIsPast'
    <2>1. \A s \in Scans : past[s] # NoTime => past[s] \in Int /\ anchor[s] \in Int
        BY <1>t DEF TypeOK
    <2> QED BY <1>0, <2>1 DEF Inv, HistoryIsPast, RunAt
<1>6. WindowInv'
    <2>1. \A a \in Articles : news[a] # NoTime => news[a] \in Int
        BY <1>t DEF TypeOK, SummaryTypeOK, Times
    <2> QED BY <1>0, <2>1 DEF Inv, WindowInv, ReplayStaysInWindow
<1> QED BY <1>1, <1>2, <1>4, <1>5, <1>6 DEF Inv

LEMMA RestartKeeps == Inv /\ Restart => Inv'
<1> SUFFICES ASSUME Inv, Restart PROVE Inv'
    OBVIOUS
<1>t. TypeOK
    BY DEF Inv
<1> DEFINE lost == UNION {cites[s] : s \in {r \in Marking : pc[r] \in {"prompt", "llm"}}}
<1>0. /\ dropped' = dropped \cup lost /\ lost \subseteq Articles
      /\ InTheMaking("tick") \cup InTheMaking("replay") \subseteq lost
    BY <1>t DEF Restart, InTheMaking, Marking, Scans, TypeOK
<1> HIDE DEF lost
<1>1. /\ pc' = [s \in Scans |-> "idle"] /\ anchor' = [s \in Scans |-> 0]
      /\ cites' = [s \in Scans |-> {}] /\ past' = [s \in Scans |-> NoTime]
      /\ due' = FALSE /\ throttle' = 0 /\ paused' = FALSE /\ locked' = FALSE /\ todo' = {}
      /\ task' = "none" /\ requests' \in 0..Requests
      /\ UNCHANGED <<clock, news, seen, rows, evicted, intent, active>>
    BY <1>t, DeliveryAssumption DEF Restart, Request, TypeOK
<1>2. TypeOK'
    <2>1. SummaryTypeOK' /\ throttle' \in 0..FireRate
        BY <1>t, <1>0, <1>1, DeliveryAssumption DEF TypeOK, SummaryTypeOK
    <2>2. /\ pc' \in [Scans -> {"idle", "start", "check", "query", "mark", "prompt", "llm"}]
          /\ anchor' \in [Scans -> Int] /\ cites' \in [Scans -> SUBSET Articles]
          /\ past' \in [Scans -> Int \cup {NoTime}]
        BY <1>1
    <2> QED BY <1>t, <1>1, <2>1, <2>2 DEF TypeOK
<1>3. TodoShape'
    <2>1. todo' = FireTimesBefore(0, 0)
        BY <1>1 DEF FireTimesBefore
    <2> QED BY <2>1 DEF TodoShape
<1>4. ScanShape' /\ LockFollowsReplay' /\ HistoryIsPast'
    BY <1>1 DEF ScanShape, LockFollowsReplay, HistoryIsPast, Scans, Marking
<1>5. \A r \in Scans : InTheMaking(r)' = {}
    BY <1>1 DEF InTheMaking
<1>6. SeenInv' /\ OnceInv'
    BY <1>0, <1>1, <1>5 DEF Inv, SeenInv, OnceInv, DeliveredOnce, Cited, Scans, Marking
<1>7. WindowInv'
    BY <1>1 DEF Inv, WindowInv, ReplayStaysInWindow, Scans
<1> QED BY <1>2, <1>3, <1>4, <1>6, <1>7 DEF Inv

LEMMA StepKeeps == Inv /\ [Next]_vars => Inv'
<1> SUFFICES ASSUME Inv, [Next]_vars PROVE Inv'
    OBVIOUS
<1>t. /\ TypeOK /\ "fire" \in Scans /\ "external" \in Scans /\ "replay" \in Scans
      /\ "replay" \in Marking /\ "fire" \notin Marking /\ "external" \notin Marking
      /\ \A s \in Scans : cites[s] \in SUBSET Articles
    BY DEF Inv, TypeOK, Scans, Marking
<1>1. CASE StartTick \/ StartFire \/ StartExternal \/ PostBackfill
    BY <1>1, StartKeeps
<1>2. ASSUME NEW s \in Scans, ScanStep(s) PROVE Inv'
    <2>0. s \notin Marking \/ InTheMaking(s) = IF pc[s] \in {"prompt", "llm"} THEN cites[s] ELSE {}
        BY DEF InTheMaking
    <2>1. ASSUME NEW hits \in SUBSET Articles, Query(s, hits) PROVE Inv'
        BY <2>1, QueryKeeps
    <2>2. CASE QueryEmpty(s) \/ MarkFails(s)
        BY <2>0, <2>2, FinishKeeps DEF QueryEmpty, MarkFails
    <2>3. CASE Mark(s)
        <3>1. s \in Marking
            BY <2>3 DEF Mark, Inv, ScanShape
        <3> QED BY <2>3, <3>1, MarkKeeps
    <2>4. CASE Prompt(s)
        BY <2>4, PromptKeeps
    <2>5. CASE SummaryFails(s) \/ PersistRaises(s)
        <3> DEFINE lost == IF s \in Marking THEN cites[s] ELSE {}
        <3>1. lost \in SUBSET Articles /\ (s \in Marking => InTheMaking(s) \subseteq lost)
            BY <1>t, <2>0
        <3> QED BY <2>5, <3>1, FinishKeeps DEF SummaryFails, PersistRaises
    <2>6. CASE Persist(s)
        BY <2>6, StoreKeeps DEF Persist
    <2> QED BY <1>2, <2>1, <2>2, <2>3, <2>4, <2>5, <2>6 DEF ScanStep
<1>3. CASE FireNotStored \/ ExternalAnswers
    BY <1>t, <1>3, FinishKeeps DEF FireNotStored, ExternalAnswers
<1>4. CASE ReplayStores
    <2>1. InTheMaking("replay") = cites["replay"] /\ RunAt("replay") = anchor["replay"]
        BY <1>4 DEF ReplayStores, InTheMaking, RunAt
    <2>2. CASE RunAtTaken(anchor["replay"])
        BY <1>t, <1>4, <2>1, <2>2, FinishKeeps DEF ReplayStores
    <2>3. CASE ~RunAtTaken(anchor["replay"])
        BY <1>t, <1>4, <2>1, <2>3, StoreKeeps DEF ReplayStores
    <2> QED BY <2>2, <2>3
<1>5. CASE NextFireTime \/ \E n \in 1..MaxReplays : BeginReplay(n)
    BY <1>5, ReplayMovesKeep
<1>6. CASE (\E n \in 1..MaxReplays : RefuseReplay(n)) \/ ReplayDone \/ ReplayAborts
    BY <1>t, <1>6, EndReplayKeeps DEF RefuseReplay, ReplayDone, ReplayAborts, InTheMaking
<1>7. CASE \/ \E enabled, newText \in BOOLEAN : PutIntent(enabled, newText)
           \/ DeleteIntent \/ DeleteHistoryRow \/ Expire \/ IngestArticle
    BY <1>7, StoreStepKeeps
<1>8. CASE SecondPasses \/ Restart
    BY <1>8, SecondPassesKeeps, RestartKeeps
<1>9. CASE UNCHANGED vars
    <2> USE <1>9 DEF vars, summaryVars, scanVars, controlVars, replayVars
    <2>1. TypeOK' /\ TodoShape' /\ ScanShape' /\ LockFollowsReplay' /\ HistoryIsPast'
        BY DEF Inv, TypeOK, SummaryTypeOK, TodoShape, ScanShape, LockFollowsReplay, HistoryIsPast,
               RunAt
    <2>2. SeenInv' /\ WindowInv' /\ OnceInv'
        BY DEF Inv, SeenInv, Cited, InTheMaking, WindowInv, ReplayStaysInWindow, OnceInv,
               DeliveredOnce
    <2> QED BY <2>1, <2>2 DEF Inv
<1> QED BY <1>1, <1>2, <1>3, <1>4, <1>5, <1>6, <1>7, <1>8, <1>9 DEF Next, ReplayStep

LEMMA InvAlways == Spec => []Inv
BY InvInit, StepKeeps, PTL DEF Spec

-----------------------------------------------------------------------------
(* The variables keep their types; that a digest's fire time and the       *)
(* newest digest of a history exist is arithmetic about the schedule       *)
(* (cron_utils.get_past_n_fire_times, format_history_text).                *)
THEOREM TypesHold == Spec => []TypeOK
<1>1. Inv => TypeOK
    BY DEF Inv
<1> QED BY <1>1, InvAlways, PTL

(* Whichever way a backfill ends, and wherever a request or a restart      *)
(* meets it, the lock is free and the job runs again when it is over       *)
(* (matcher/backfill.run_backfill).                                        *)
THEOREM BackfillReleases == Spec => []LockFollowsReplay
<1>1. Inv => LockFollowsReplay
    BY DEF Inv
<1> QED BY <1>1, InvAlways, PTL

(* An article hidden by match_seen is cited by a stored digest, carried by *)
(* a scan, or was lost with a digest the code knows to have failed         *)
(* (matcher/scan.py, db/match_seen.insert_unseen_returning_new).           *)
THEOREM SeenIsExplained == Spec => []SeenIsAccountedFor
<1>1. Inv => SeenIsAccountedFor
    BY DEF Inv, SeenInv, SeenIsAccountedFor, InTheMaking
<1> QED BY <1>1, InvAlways, PTL

(* With skip_seen, ticks and replays never give one article to two         *)
(* digests: the INSERT .. RETURNING decides, not the order of the awaits   *)
(* (matcher/scan.scan_once, matcher/backfill.run_backfill).                *)
THEOREM OneDigestPerArticle == Spec => []DeliveredOnce
<1>1. Inv => DeliveredOnce
    BY DEF Inv, OnceInv
<1> QED BY <1>1, InvAlways, PTL

(* No prompt holds a digest younger than the moment it is written for      *)
(* (summarizer/pipeline.compute_summary, "now" of the replay).             *)
THEOREM NoDigestFromTheFuture == Spec => []HistoryIsPast
<1>1. Inv => HistoryIsPast
    BY DEF Inv
<1> QED BY <1>1, InvAlways, PTL

(* A replayed digest cites nothing that arrived after its fire time        *)
(* (matcher/scan.scan_once, the upper bound of the window).                *)
THEOREM ReplaysLookBack == Spec => []ReplayStaysInWindow
<1>1. Inv => ReplayStaysInWindow
    BY DEF Inv, WindowInv
<1> QED BY <1>1, InvAlways, PTL
=============================================================================
