-------------------------- MODULE IntentRegistryProofs --------------------------
(***************************************************************************)
(* The stores of the intents: types, that no deleted intent comes back,    *)
(* and that job, cache entry and point are those of the row once the       *)
(* requests of an intent are answered.                                     *)
(*                                                                         *)
(* The invariant says of the request that is alone at an intent how far    *)
(* each store is: the row is new, the point is on its way, job and entry   *)
(* still are those of the snapshot.                                        *)
(***************************************************************************)
EXTENDS IntentRegistry, TLAPS

-----------------------------------------------------------------------------
(* The requests *)

RequestRecords ==
  [op : {"none", "post", "put", "delete"},
   pc : {"idle"} \cup PutPcs \cup PostPcs \cup DeletePcs,
   intent : Intents \cup {Nothing}, body : Changes \cup {Nothing},
   old : Row \cup {Nothing}, new : Row \cup {Nothing}]

(* NeedsReembed, for a request as a value. *)
Reembeds(q) ==
  \/ Differs(q.body.main, q.old.main)
  \/ Differs(q.body.alt, q.old.alt) /\ q.body.alt # Nothing

(* What a request has read by the time it is where it is.                  *)
Shape(q) ==
  /\ q.op = "none" => q = Idle
  /\ q.op # "none" => q.intent \in born
  /\ q.op = "post" => q.pc \in PostPcs /\ q.new \in Row
  /\ q.op = "put" => q.pc \in PutPcs /\ q.body \in Changes /\ q.old \in Row
  /\ q.op = "put" /\ q.pc \notin {"write", "reread"} => q.new \in Row
  /\ q.op = "put" /\ q.pc = "retrieve" =>
       IsEvent(q.new.schedule) /\ q.new.enabled /\ ~Reembeds(q)
  /\ q.op = "delete" => q.pc \in DeletePcs

Types == TypeOK /\ \A r \in Requests : Shape(req[r])

-----------------------------------------------------------------------------
(* The stores *)

(* An intent that was never made has nothing anywhere.                     *)
Unborn(i) ==
  i \notin born =>
    /\ rows[i] = Nothing /\ points[i] = Nothing /\ cache[i] = Nothing /\ jobs[i] = Nothing
    /\ InFlight(i) = {} /\ i \notin tainted /\ i \notin strayed

SameMode(s, t) == IsEvent(s) <=> IsEvent(t)

(* Whatever overlaps, the mode of an intent stays what it was, and only    *)
(* event intents have a cache entry.                                       *)
ModeOf(q, row) ==
  /\ q.op = "put" => /\ SameMode(q.old.schedule, row.schedule)
                     /\ q.body.schedule # NoChange => SameMode(q.body.schedule, row.schedule)
  /\ q.new # Nothing => SameMode(q.new.schedule, row.schedule)
ModeFixed(i) ==
  Exists(i) =>
    /\ cache[i] # Nothing => IsEvent(rows[i].schedule)
    /\ \A r \in InFlight(i) : ModeOf(req[r], rows[i])

(* The row, for the request that is alone at its intent.                   *)
Alone(i) == \A r, q \in InFlight(i) : r = q
RowStage(q, row) ==
  /\ q.op = "post" => row = q.new
  /\ q.op = "put" =>
       IF q.pc = "write" THEN row = q.old
       ELSE /\ row = Updated(q.old, q.old, q.body)
            /\ q.pc # "reread" => row = q.new
  /\ q.op = "put" /\ q.pc = "upsert" => Reembeds(q)
InStep(i) == i \notin tainted \/ i \notin strayed
RowInv(i) == InStep(i) => Alone(i) /\ \A r \in InFlight(i) : RowStage(req[r], rows[i])

(* Vectors are those of a row, but for slots that a PUT has written which  *)
(* failed and did not succeed since.                                       *)
CloseMain(t, row, bodies) == t = row.main \/ \E b \in bodies : b.main = t
CloseAlt(t, row, bodies) == t = row.alt \/ \E b \in bodies : b.alt = t
Close(v, row, bodies) == CloseMain(v.main, row, bodies) /\ CloseAlt(v.alt, row, bodies)

(* Job and entry are those of a row: of the snapshot, while a PUT runs.    *)
JobFits(j, row) ==
  IF row # Nothing /\ row.enabled /\ ~IsEvent(row.schedule) THEN j = row.schedule
  ELSE j = Nothing
EntryFits(e, row) ==
  IF row # Nothing /\ row.enabled /\ IsEvent(row.schedule)
  THEN e # Nothing /\ e.schedule = row.schedule
  ELSE e = Nothing
EntryClose(e, row, bodies) == row # Nothing /\ e # Nothing => Close(e, row, bodies)
Follow(i, row) ==
  /\ i \notin tainted => JobFits(jobs[i], row) /\ EntryFits(cache[i], row)
  /\ i \notin tainted /\ i \notin strayed => EntryClose(cache[i], row, failed[i])
BaseOf(q) == IF q.op = "put" THEN q.old ELSE Nothing
FollowInv(i) ==
  /\ Quiet(i) => Follow(i, rows[i])
  /\ \A r \in InFlight(i) : Follow(i, BaseOf(req[r]))

(* The point, between the steps of a request.                              *)
PointFits(p, row, bodies) ==
  IF row = Nothing THEN p = Nothing ELSE p # Nothing /\ Close(p, row, bodies)
Midway(p, q, bodies) ==
  /\ p # Nothing
  /\ IF Reembeds(q) THEN p.main = q.new.main ELSE CloseMain(p.main, q.old, bodies)
  /\ IF Reembeds(q) /\ q.new.alt # Nothing THEN p.alt = q.new.alt
     ELSE CloseAlt(p.alt, q.old, bodies)
PointStage(q, p, bodies) ==
  /\ q.op = "post" => /\ q.pc = "upserted" => p = Vectors(q.new)
                      /\ q.pc \in {"upsert", "unrow"} => p = Nothing
  /\ q.op = "put" => /\ q.pc \in {"write", "reread", "upsert"} => PointFits(p, q.old, bodies)
                     /\ q.pc = "trim" => Midway(p, q, bodies)
                     /\ q.pc \in {"done", "retrieve"} => PointFits(p, q.new, bodies \ {q.body})
                     /\ q.pc = "restore" => PointFits(p, q.old, bodies \cup {q.body})
  /\ q.op = "delete" /\ q.pc = "row" => p = Nothing
PointInv(i) ==
  i \notin strayed =>
    /\ Quiet(i) => PointFits(points[i], rows[i], failed[i])
    /\ \A r \in InFlight(i) : PointStage(req[r], points[i], failed[i])

Good(i) == Unborn(i) /\ ModeFixed(i) /\ RowInv(i) /\ FollowInv(i) /\ PointInv(i)

Inv == Types /\ \A i \in Intents : Good(i)

-----------------------------------------------------------------------------
(* Types *)

LEMMA RequestsTyped ==
  ASSUME TypeOK
  PROVE  req \in [Requests -> RequestRecords]
  BY DEF TypeOK, ApiTypeOK, RequestRecords

LEMMA IdleTyped == Idle \in RequestRecords /\ Shape(Idle) /\ Shape(Idle)'
  BY DEF Idle, RequestRecords, Shape

LEMMA AtRequest ==
  ASSUME Types, NEW r \in Requests, req[r].op # "none"
  PROVE  /\ req[r] \in RequestRecords
         /\ req[r].intent \in Intents
         /\ req[r].intent \in born
         /\ Shape(req[r])
  <1>1. Shape(req[r])
    BY DEF Types
  <1>2. req[r] \in RequestRecords
    BY RequestsTyped DEF Types
  <1>3. born \subseteq Intents
    BY DEF Types, TypeOK, StoresTypeOK
  <1> QED
    BY <1>1, <1>2, <1>3 DEF Shape

(* A step of one request that hands out no id twice keeps the types. *)
LEMMA TypesMove ==
  ASSUME Types, NEW r \in Requests, NEW q \in RequestRecords,
         req' = [req EXCEPT ![r] = q], Shape(q)',
         born \subseteq born', StoresTypeOK',
         tainted' \subseteq Intents, strayed' \subseteq Intents,
         failed' \in [Intents -> SUBSET Changes]
  PROVE  Types'
  <1>1. req \in [Requests -> RequestRecords]
    BY RequestsTyped DEF Types
  <1>2. req' \in [Requests -> RequestRecords]
    BY <1>1
  <1>3. ApiTypeOK'
    BY <1>2 DEF ApiTypeOK, RequestRecords
  <1>4. ASSUME NEW p \in Requests
        PROVE  Shape(req[p])'
    <2>1. CASE p = r
      BY <2>1, <1>1 DEF Shape
    <2>2. CASE p # r
      <3>1. req'[p] = req[p]
        BY <2>2, <1>1
      <3>2. Shape(req[p])
        BY DEF Types
      <3> QED
        BY <3>1, <3>2 DEF Shape
    <2> QED
      BY <2>1, <2>2
  <1> QED
    BY <1>3, <1>4 DEF Types, TypeOK

LEMMA WithPc ==
  ASSUME NEW q \in RequestRecords,
         NEW pc \in {"idle"} \cup PutPcs \cup PostPcs \cup DeletePcs
  PROVE  LET n == [q EXCEPT !.pc = pc] IN
         /\ n \in RequestRecords
         /\ n.pc = pc
         /\ n.op = q.op /\ n.intent = q.intent /\ n.body = q.body
         /\ n.old = q.old /\ n.new = q.new
  BY DEF RequestRecords

LEMMA Fields ==
  ASSUME NEW row \in Row
  PROVE  /\ row # Nothing
         /\ row.main \in Texts /\ row.alt \in SubTexts
         /\ row.enabled \in BOOLEAN /\ row.schedule \in Schedules
  BY RecordsAssumption DEF Row

LEMMA VectorsTyped ==
  ASSUME NEW row \in Row
  PROVE  /\ Vectors(row) \in Point
         /\ Vectors(row).main = row.main /\ Vectors(row).alt = row.alt
         /\ \A p \in Point \cup {Nothing} : Upserted(p, row) \in Point
  BY DEF Row, Vectors, Point, Upserted

LEMMA EntryTyped ==
  ASSUME NEW v, v.main \in Texts, v.alt \in SubTexts, NEW row \in Row
  PROVE  /\ Entry(v, row) \in CacheEntry
         /\ Entry(v, row).main = v.main /\ Entry(v, row).alt = v.alt
         /\ Entry(v, row).schedule = row.schedule
  BY DEF Entry, Row, CacheEntry

LEMMA UpdatedTyped ==
  ASSUME NEW row \in Row, NEW old \in Row, NEW body \in Changes
  PROVE  Updated(row, old, body) \in Row
  <1>1. body \in Change
    BY BodiesAssumption
  <1> QED
    BY <1>1 DEF Updated, Given, Row, Change, SubTexts

LEMMA RegisteredTyped ==
  ASSUME NEW i \in Intents, NEW row \in Row,
         NEW j \in [Intents -> Schedules \cup {Nothing}]
  PROVE  /\ Registered(j, i, row) \in [Intents -> Schedules \cup {Nothing}]
         /\ Unregistered(j, i) \in [Intents -> Schedules \cup {Nothing}]
  BY Fields DEF Registered, Unregistered

LEMMA TypesGoto ==
  ASSUME Types, NEW r \in Requests, req[r].op # "none", NEW pc,
         req' = [req EXCEPT ![r].pc = pc],
         req[r].op = "post" => pc \in PostPcs,
         req[r].op = "put" => /\ pc \in PutPcs \ {"retrieve"}
                              /\ pc \in {"write", "reread"} \/ req[r].new \in Row,
         req[r].op = "delete" => pc \in DeletePcs,
         born' = born, StoresTypeOK',
         tainted' \subseteq Intents, strayed' \subseteq Intents,
         failed' \in [Intents -> SUBSET Changes]
  PROVE  Types'
  <1>1. PICK q : q = req[r]
    OBVIOUS
  <1>2. /\ q \in RequestRecords /\ q.intent \in born /\ Shape(q) /\ q.op # "none"
    BY <1>1, AtRequest
  <1>3. pc \in {"idle"} \cup PutPcs \cup PostPcs \cup DeletePcs
    BY <1>1, <1>2 DEF RequestRecords
  <1>4. PICK n : n = [q EXCEPT !.pc = pc]
    OBVIOUS
  <1>5. /\ n \in RequestRecords /\ n.pc = pc
        /\ n.op = q.op /\ n.intent = q.intent /\ n.body = q.body
        /\ n.old = q.old /\ n.new = q.new
    BY <1>2, <1>3, <1>4, WithPc
  <1>6. req' = [req EXCEPT ![r] = n]
    BY <1>1, <1>4
  <1>7. Shape(n)'
    BY <1>1, <1>2, <1>5 DEF Shape
  <1> QED
    BY <1>5, <1>6, <1>7, TypesMove

LEMMA TypesAnswer ==
  ASSUME Types, NEW r \in Requests, req' = [req EXCEPT ![r] = Idle],
         born' = born, StoresTypeOK',
         tainted' \subseteq Intents, strayed' \subseteq Intents,
         failed' \in [Intents -> SUBSET Changes]
  PROVE  Types'
  BY IdleTyped, TypesMove

LEMMA TypesPost ==
  ASSUME Types, NEW r \in Requests,
         \/ PostUpsert(r) \/ PostReturns(r) \/ PostRaises(r) \/ PostJobRaises(r)
         \/ \E removed \in BOOLEAN : PostUnpoint(r, removed) \/ PostUnrow(r, removed)
  PROVE  Types'
  <1>1. PICK q : q = req[r]
    OBVIOUS
  <1>2. q.op = "post"
    BY <1>1 DEF PostUpsert, PostReturns, PostRaises, PostJobRaises, PostUnpoint, PostUnrow, At
  <1>3. q \in RequestRecords /\ q.intent \in Intents /\ Shape(q)
    BY <1>1, <1>2, AtRequest
  <1>4. q.new \in Row
    BY <1>2, <1>3 DEF Shape
  <1>5. StoresTypeOK /\ ApiTypeOK
    BY DEF Types, TypeOK
  <1>6. Vectors(q.new) \in Point /\ Entry(Vectors(q.new), q.new) \in CacheEntry
    BY <1>4, VectorsTyped, EntryTyped, Fields
  <1>7. CASE PostUpsert(r)
    <2>1. Upserted(points[q.intent], q.new) \in Point
      BY <1>3, <1>4, <1>5, VectorsTyped DEF StoresTypeOK
    <2>2. StoresTypeOK'
      BY <1>1, <1>3, <1>5, <1>7, <2>1 DEF StoresTypeOK, PostUpsert
    <2> QED
      BY <1>1, <1>2, <1>5, <1>7, <2>2, TypesGoto
         DEF PostUpsert, Goto, history, ApiTypeOK, PostPcs
  <1>8. CASE PostReturns(r)
    <2>1. Registered(jobs, q.intent, q.new) \in [Intents -> Schedules \cup {Nothing}]
      BY <1>3, <1>4, <1>5, RegisteredTyped DEF StoresTypeOK
    <2>2. StoresTypeOK'
      BY <1>1, <1>3, <1>5, <1>6, <1>8, <2>1 DEF StoresTypeOK, PostReturns
    <2>3. failed' \in [Intents -> SUBSET Changes] /\ tainted' \subseteq Intents
          /\ strayed' \subseteq Intents
      BY <1>5, <1>8 DEF PostReturns, Succeed, Answer, ApiTypeOK
    <2> QED
      BY <1>8, <2>2, <2>3, TypesAnswer DEF PostReturns, Succeed, Answer
  <1>9. CASE PostRaises(r)
    <2>1. StoresTypeOK'
      BY <1>1, <1>3, <1>5, <1>9 DEF StoresTypeOK, PostRaises
    <2> QED
      BY <1>1, <1>2, <1>3, <1>5, <1>9, <2>1, TypesGoto DEF PostRaises, ApiTypeOK, PostPcs
  <1>10. CASE PostJobRaises(r)
    <2>1. StoresTypeOK'
      BY <1>5, <1>10 DEF StoresTypeOK, PostJobRaises, storeVars
    <2> QED
      BY <1>1, <1>2, <1>5, <1>10, <2>1, TypesGoto
         DEF PostJobRaises, Goto, history, storeVars, ApiTypeOK, PostPcs
  <1>11. ASSUME NEW removed \in BOOLEAN, PostUnpoint(r, removed)
         PROVE  Types'
    <2>1. StoresTypeOK'
      BY <1>1, <1>3, <1>5, <1>11 DEF StoresTypeOK, PostUnpoint
    <2>2. strayed' \subseteq Intents
      BY <1>1, <1>3, <1>5, <1>11 DEF PostUnpoint, ApiTypeOK
    <2> QED
      BY <1>1, <1>2, <1>5, <1>11, <2>1, <2>2, TypesGoto DEF PostUnpoint, ApiTypeOK, PostPcs
  <1>12. ASSUME NEW removed \in BOOLEAN, PostUnrow(r, removed)
         PROVE  Types'
    <2>1. StoresTypeOK'
      BY <1>1, <1>3, <1>5, <1>12 DEF StoresTypeOK, PostUnrow
    <2>2. strayed' \subseteq Intents /\ tainted' \subseteq Intents
      BY <1>1, <1>3, <1>5, <1>12 DEF PostUnrow, Fail, Answer, ApiTypeOK
    <2> QED
      BY <1>5, <1>12, <2>1, <2>2, TypesAnswer DEF PostUnrow, Fail, Answer, ApiTypeOK
  <1> QED
    BY <1>7, <1>8, <1>9, <1>10, <1>11, <1>12

(* The last stretch of a PUT. *)
LEMMA TypesSync ==
  ASSUME Types, NEW r \in Requests, req[r].intent \in Intents, req[r].new \in Row,
         NEW entries \in [Intents -> CacheEntry \cup {Nothing}], PutSyncs(r, entries)
  PROVE  Types'
  <1>1. StoresTypeOK /\ ApiTypeOK
    BY DEF Types, TypeOK
  <1>2. JobsAfterPut(r) \in [Intents -> Schedules \cup {Nothing}]
    BY <1>1, RegisteredTyped DEF StoresTypeOK, JobsAfterPut
  <1>3. jobs' \in [Intents -> Schedules \cup {Nothing}]
    BY <1>1, <1>2 DEF PutSyncs, StoresTypeOK
  <1>4. StoresTypeOK'
    BY <1>1, <1>3 DEF PutSyncs, StoresTypeOK
  <1>5. /\ failed' \in [Intents -> SUBSET Changes]
        /\ tainted' \subseteq Intents /\ strayed' \subseteq Intents
    BY <1>1 DEF PutSyncs, Succeed, Fail, Answer, ApiTypeOK
  <1>6. req' = [req EXCEPT ![r] = Idle] /\ born' = born
    BY DEF PutSyncs, Succeed, Fail, Answer
  <1> QED
    BY <1>4, <1>5, <1>6, TypesAnswer

LEMMA TrimmedTyped ==
  ASSUME NEW r \in Requests, NEW v \in Point \cup CacheEntry
  PROVE  /\ Trimmed(v, r).main = v.main /\ v.main \in Texts
         /\ Trimmed(v, r).alt = IF RemovesSlot(r) THEN Nothing ELSE v.alt
         /\ Trimmed(v, r).alt \in SubTexts
         /\ v \in Point => Trimmed(v, r) \in Point
  BY DEF Trimmed, Point, CacheEntry, SubTexts

LEMMA TypesPut ==
  ASSUME Types, NEW r \in Requests,
         \/ PutWrite(r) \/ PutWriteFails(r) \/ PutReread(r) \/ PutVanished(r)
         \/ PutUpsert(r) \/ PutTrim(r) \/ PutRaises(r) \/ PutRestore(r) \/ PutRestoreFails(r)
         \/ PutReturns(r) \/ PutMissesCache(r) \/ PutRetrieved(r) \/ PutStops(r)
  PROVE  Types'
  <1>1. PICK q : q = req[r]
    OBVIOUS
  <1>2. q.op = "put"
    BY <1>1 DEF PutWrite, PutWriteFails, PutReread, PutVanished, PutUpsert, PutTrim, PutRaises,
                PutRestore, PutRestoreFails, PutReturns, PutMissesCache, PutRetrieved, PutStops, At
  <1>3. /\ q \in RequestRecords /\ q.intent \in Intents /\ q.intent \in born
        /\ Shape(q)
    BY <1>1, <1>2, AtRequest
  <1>4. q.body \in Changes /\ q.old \in Row
    BY <1>2, <1>3 DEF Shape
  <1>5. q.pc \notin {"write", "reread"} => q.new \in Row
    BY <1>2, <1>3 DEF Shape
  <1>6. StoresTypeOK /\ ApiTypeOK
    BY DEF Types, TypeOK
  <1> HIDE DEF Types
  <1>7. CASE PutWrite(r)
    <2>1. Exists(q.intent) => Updated(rows[q.intent], q.old, q.body) \in Row
      BY <1>3, <1>4, <1>6, UpdatedTyped DEF Exists, StoresTypeOK
    <2>2. StoresTypeOK'
      BY <1>1, <1>3, <1>6, <1>7, <2>1 DEF StoresTypeOK, PutWrite
    <2> QED
      BY <1>1, <1>2, <1>6, <1>7, <2>2, TypesGoto
         DEF PutWrite, Goto, history, ApiTypeOK, PutPcs
  <1>8. CASE PutReread(r)
    <2>1. rows[q.intent] \in Row
      BY <1>1, <1>3, <1>6, <1>8 DEF PutReread, Exists, StoresTypeOK
    <2>2. PICK pc \in {"upsert", "trim"} :
            req' = [req EXCEPT ![r].new = rows[q.intent], ![r].pc = pc]
      BY <1>1, <1>8 DEF PutReread
    <2>3. PICK n : n = [q EXCEPT !.new = rows[q.intent], !.pc = pc]
      OBVIOUS
    <2>4. /\ n \in RequestRecords /\ n.pc = pc /\ n.new = rows[q.intent]
          /\ n.op = q.op /\ n.intent = q.intent /\ n.body = q.body /\ n.old = q.old
      BY <1>3, <2>1, <2>3 DEF RequestRecords, PutPcs
    <2>5. Shape(n)'
      BY <1>2, <1>3, <1>4, <1>8, <2>1, <2>4 DEF Shape, PutPcs, PutReread, storeVars
    <2>6. req' = [req EXCEPT ![r] = n]
      BY <1>1, <2>2, <2>3
    <2>7. StoresTypeOK'
      BY <1>6, <1>8 DEF StoresTypeOK, PutReread, storeVars
    <2> QED
      BY <1>6, <1>8, <2>4, <2>5, <2>6, <2>7, TypesMove
         DEF PutReread, storeVars, history, ApiTypeOK
  <1>9. CASE PutUpsert(r)
    <2>1. q.new \in Row
      BY <1>1, <1>5, <1>9 DEF PutUpsert, At
    <2>2. Upserted(points[q.intent], q.new) \in Point
      BY <1>3, <1>6, <2>1, VectorsTyped DEF StoresTypeOK
    <2>3. StoresTypeOK'
      BY <1>1, <1>3, <1>6, <1>9, <2>2 DEF StoresTypeOK, PutUpsert
    <2> QED
      BY <1>1, <1>2, <1>6, <1>9, <2>1, <2>3, TypesGoto
         DEF PutUpsert, Goto, history, ApiTypeOK, PutPcs
  <1>10. CASE PutTrim(r)
    <2>1. q.new \in Row
      BY <1>1, <1>5, <1>10 DEF PutTrim, At
    <2>2. points[q.intent] # Nothing => Trimmed(points[q.intent], r) \in Point
      BY <1>3, <1>6, TrimmedTyped DEF StoresTypeOK
    <2>3. StoresTypeOK'
      BY <1>1, <1>3, <1>6, <1>10, <2>2 DEF StoresTypeOK, PutTrim
    <2> QED
      BY <1>1, <1>2, <1>6, <1>10, <2>1, <2>3, TypesGoto
         DEF PutTrim, Goto, history, ApiTypeOK, PutPcs
  <1>11. CASE PutRaises(r)
    <2>1. q.new \in Row
      BY <1>1, <1>5, <1>11 DEF PutRaises, At
    <2>2. StoresTypeOK'
      BY <1>6, <1>11 DEF StoresTypeOK, PutRaises, storeVars
    <2> QED
      BY <1>1, <1>2, <1>6, <1>11, <2>1, <2>2, TypesGoto
         DEF PutRaises, Goto, history, storeVars, ApiTypeOK, PutPcs
  <1>12. CASE PutRestore(r)
    <2>1. Exists(q.intent) =>
            [q.old EXCEPT !.alt = IF q.body.alt = NoChange THEN rows[q.intent].alt
                                  ELSE q.old.alt] \in Row
      BY <1>3, <1>4, <1>6 DEF StoresTypeOK, Exists, Row
    <2>2. StoresTypeOK'
      BY <1>1, <1>3, <1>6, <1>12, <2>1 DEF StoresTypeOK, PutRestore
    <2>3. /\ failed' \in [Intents -> SUBSET Changes]
          /\ tainted' \subseteq Intents /\ strayed' \subseteq Intents
      BY <1>1, <1>3, <1>4, <1>6, <1>12 DEF PutRestore, Answer, ApiTypeOK
    <2> QED
      BY <1>12, <2>2, <2>3, TypesAnswer DEF PutRestore, Answer
  <1>13. CASE PutMissesCache(r)
    <2>1. q.new \in Row /\ IsEvent(q.new.schedule) /\ q.new.enabled /\ ~Reembeds(q)
      BY <1>1, <1>5, <1>13
         DEF PutMissesCache, At, NeedsReembed, TextChanged, SubTextEmbeds, Reembeds
    <2>2. PICK n : n = [q EXCEPT !.pc = "retrieve"]
      OBVIOUS
    <2>3. /\ n \in RequestRecords /\ n.pc = "retrieve" /\ n.new = q.new
          /\ n.op = q.op /\ n.intent = q.intent /\ n.body = q.body /\ n.old = q.old
      BY <1>3, <2>2, WithPc DEF PutPcs
    <2>4. req' = [req EXCEPT ![r] = n]
      BY <1>1, <1>13, <2>2 DEF PutMissesCache, Goto
    <2>5. Reembeds(n) = Reembeds(q)
      BY <2>3 DEF Reembeds
    <2>6. Shape(n)'
      BY <1>2, <1>3, <1>4, <1>13, <2>1, <2>3, <2>5
         DEF Shape, PutPcs, PutMissesCache, storeVars, IsEvent
    <2>7. StoresTypeOK'
      BY <1>6, <1>13 DEF StoresTypeOK, PutMissesCache, storeVars
    <2> QED
      BY <1>6, <1>13, <2>3, <2>4, <2>6, <2>7, TypesMove
         DEF PutMissesCache, Goto, storeVars, history, ApiTypeOK
  <1>14. CASE PutReturns(r)
    <2>1. q.new \in Row
      BY <1>1, <1>5, <1>14 DEF PutReturns, At
    <2>2. Entry(Vectors(q.new), q.new) \in CacheEntry
      BY <2>1, Fields, VectorsTyped, EntryTyped
    <2>3. cache[q.intent] # Nothing => Entry(Trimmed(cache[q.intent], r), q.new) \in CacheEntry
      BY <1>3, <1>6, <2>1, TrimmedTyped, EntryTyped DEF StoresTypeOK
    <2>4. PICK entries \in [Intents -> CacheEntry \cup {Nothing}] : PutSyncs(r, entries)
      <3>1. CASE PutSyncs(r, cache)
        BY <1>6, <3>1 DEF StoresTypeOK
      <3>2. CASE PutSyncs(r, [cache EXCEPT ![q.intent] = Nothing])
        <4>1. [cache EXCEPT ![q.intent] = Nothing] \in [Intents -> CacheEntry \cup {Nothing}]
          BY <1>6 DEF StoresTypeOK
        <4> QED
          BY <3>2, <4>1
      <3>3. CASE PutSyncs(r, [cache EXCEPT ![q.intent] = Entry(Vectors(q.new), q.new)])
        <4>1. [cache EXCEPT ![q.intent] = Entry(Vectors(q.new), q.new)]
                \in [Intents -> CacheEntry \cup {Nothing}]
          BY <1>6, <2>2 DEF StoresTypeOK
        <4> QED
          BY <3>3, <4>1
      <3>4. CASE /\ cache[q.intent] # Nothing
                 /\ PutSyncs(r, [cache EXCEPT ![q.intent] =
                                   Entry(Trimmed(cache[q.intent], r), q.new)])
        <4>1. [cache EXCEPT ![q.intent] = Entry(Trimmed(cache[q.intent], r), q.new)]
                \in [Intents -> CacheEntry \cup {Nothing}]
          BY <1>6, <2>3, <3>4 DEF StoresTypeOK
        <4> QED
          BY <3>4, <4>1
      <3> QED
        BY <1>1, <1>14, <3>1, <3>2, <3>3, <3>4 DEF PutReturns
    <2> QED
      BY <1>1, <1>3, <2>1, <2>4, TypesSync
  <1>15. CASE PutRetrieved(r)
    <2>1. q.new \in Row
      BY <1>1, <1>5, <1>15 DEF PutRetrieved, At
    <2>2. Entry(Trimmed(points[q.intent], r), q.new) \in CacheEntry
      BY <1>1, <1>3, <1>6, <1>15, <2>1, TrimmedTyped, EntryTyped DEF StoresTypeOK, PutRetrieved
    <2>3. [cache EXCEPT ![q.intent] = Entry(Trimmed(points[q.intent], r), q.new)]
            \in [Intents -> CacheEntry \cup {Nothing}]
      BY <1>6, <2>2 DEF StoresTypeOK
    <2>4. PutSyncs(r, [cache EXCEPT ![q.intent] = Entry(Trimmed(points[q.intent], r), q.new)])
      BY <1>1, <1>15 DEF PutRetrieved
    <2> QED
      BY <1>1, <1>3, <2>1, <2>3, <2>4, TypesSync
  <1>16. CASE PutWriteFails(r) \/ PutVanished(r) \/ PutRestoreFails(r) \/ PutStops(r)
    <2>1. /\ UNCHANGED storeVars
          /\ Fail(r, {}, {}) \/ Fail(r, {q.intent}, {q.intent}) \/ Fail(r, {q.intent}, {})
      BY <1>1, <1>16 DEF PutWriteFails, PutVanished, PutRestoreFails, PutStops
    <2>2. StoresTypeOK' /\ born' = born
      BY <1>6, <2>1 DEF StoresTypeOK, storeVars
    <2>3. /\ tainted' \subseteq Intents /\ strayed' \subseteq Intents /\ UNCHANGED failed
          /\ req' = [req EXCEPT ![r] = Idle]
      BY <1>3, <1>6, <2>1 DEF ApiTypeOK, Fail, Answer
    <2> QED
      BY <1>6, <2>2, <2>3, TypesAnswer DEF ApiTypeOK
  <1> QED
    BY <1>7, <1>8, <1>9, <1>10, <1>11, <1>12, <1>13, <1>14, <1>15, <1>16

LEMMA TypesDelete ==
  ASSUME Types, NEW r \in Requests, DeletePoint(r) \/ DeleteRow(r) \/ DeleteRaises(r)
  PROVE  Types'
  <1>1. PICK q : q = req[r]
    OBVIOUS
  <1>2. q.op = "delete"
    BY <1>1 DEF DeletePoint, DeleteRow, DeleteRaises, At
  <1>3. q \in RequestRecords /\ q.intent \in Intents /\ Shape(q)
    BY <1>1, <1>2, AtRequest
  <1>4. StoresTypeOK /\ ApiTypeOK
    BY DEF Types, TypeOK
  <1>5. CASE DeletePoint(r)
    <2>1. StoresTypeOK'
      BY <1>1, <1>3, <1>4, <1>5 DEF StoresTypeOK, DeletePoint
    <2> QED
      BY <1>1, <1>2, <1>4, <1>5, <2>1, TypesGoto
         DEF DeletePoint, Goto, history, ApiTypeOK, DeletePcs
  <1>6. CASE DeleteRow(r)
    <2>1. StoresTypeOK'
      BY <1>1, <1>3, <1>4, <1>6 DEF StoresTypeOK, DeleteRow
    <2>2. /\ failed' \in [Intents -> SUBSET Changes]
          /\ tainted' \subseteq Intents /\ strayed' \subseteq Intents
      BY <1>4, <1>6 DEF DeleteRow, Succeed, Answer, ApiTypeOK
    <2> QED
      BY <1>6, <2>1, <2>2, TypesAnswer DEF DeleteRow, Succeed, Answer
  <1>7. CASE DeleteRaises(r)
    <2>1. StoresTypeOK' /\ born' = born
      BY <1>4, <1>7 DEF StoresTypeOK, DeleteRaises, storeVars
    <2>2. /\ tainted' \subseteq Intents /\ strayed' \subseteq Intents /\ UNCHANGED failed
          /\ req' = [req EXCEPT ![r] = Idle]
      BY <1>1, <1>3, <1>4, <1>7 DEF ApiTypeOK, DeleteRaises, Fail, Answer
    <2> QED
      BY <1>4, <2>1, <2>2, TypesAnswer DEF ApiTypeOK
  <1> QED
    BY <1>5, <1>6, <1>7

LEMMA TypesArrive ==
  ASSUME Types, \A i \in Intents : Unborn(i), NEW r \in Requests, RequestArrives(r)
  PROVE  Types'
  <1>1. StoresTypeOK /\ ApiTypeOK
    BY DEF Types, TypeOK
  <1>2. ASSUME NEW op \in {"post", "put", "delete"},
               NEW pc \in {"idle"} \cup PutPcs \cup PostPcs \cup DeletePcs,
               NEW i \in Intents, NEW body \in Changes \cup {Nothing},
               NEW old \in Row \cup {Nothing}, NEW new \in Row \cup {Nothing},
               op = "post" => pc \in PostPcs /\ new \in Row,
               op = "put" => pc = "write" /\ body \in Changes /\ old \in Row,
               op = "delete" => pc \in DeletePcs,
               i \in born', born \subseteq born',
               StoresTypeOK', Launch(r, op, pc, i, body, old, new)
        PROVE  Types'
    <2>1. PICK n : n = [op |-> op, pc |-> pc, intent |-> i, body |-> body,
                        old |-> old, new |-> new]
      OBVIOUS
    <2>2. /\ n \in RequestRecords
          /\ n.op = op /\ n.pc = pc /\ n.intent = i /\ n.body = body
          /\ n.old = old /\ n.new = new
      BY <2>1 DEF RequestRecords
    <2>3. Shape(n)'
      BY <1>2, <2>2 DEF Shape, PutPcs
    <2>4. req' = [req EXCEPT ![r] = n]
      BY <1>2, <2>1 DEF Launch
    <2>5. /\ failed' \in [Intents -> SUBSET Changes]
          /\ tainted' \subseteq Intents /\ strayed' \subseteq Intents
      BY <1>1, <1>2 DEF Launch, history, ApiTypeOK
    <2> QED
      BY <1>2, <2>2, <2>3, <2>4, <2>5, TypesMove
  <1>3. ASSUME NEW i \in Intents, NEW body \in NewBodies, Post(r, i, body)
        PROVE  Types'
    <2>1. body \in Row
      BY BodiesAssumption
    <2>2. StoresTypeOK' /\ i \in born' /\ born \subseteq born'
      BY <1>1, <1>3, <2>1 DEF StoresTypeOK, Post
    <2> QED
      BY <1>2, <1>3, <2>1, <2>2 DEF Post, PostPcs
  <1>4. ASSUME NEW i \in Intents, NEW body \in Changes, Put(r, i, body)
        PROVE  Types'
    <2>1. rows[i] \in Row /\ StoresTypeOK' /\ born' = born
      BY <1>1, <1>4 DEF StoresTypeOK, Put, Exists, storeVars
    <2>2. i \in born
      BY <1>4 DEF Put, Exists, Unborn
    <2> QED
      BY <1>2, <1>4, <2>1, <2>2 DEF Put, PutPcs
  <1>5. ASSUME NEW i \in Intents, Delete(r, i)
        PROVE  Types'
    <2>1. rows[i] \in Row /\ StoresTypeOK' /\ born' = born
      BY <1>1, <1>5 DEF StoresTypeOK, Delete, Exists, Unregistered
    <2>2. i \in born
      BY <1>5 DEF Delete, Exists, Unborn
    <2> QED
      BY <1>2, <1>5, <2>1, <2>2 DEF Delete, DeletePcs
  <1> QED
    BY <1>3, <1>4, <1>5 DEF RequestArrives

LEMMA TypesElsewhere ==
  ASSUME Types, (\E i \in Intents : FeedRemoved(i)) \/ Crash \/ UNCHANGED registryVars
  PROVE  Types'
  <1>1. StoresTypeOK /\ ApiTypeOK
    BY DEF Types, TypeOK
  <1>2. ASSUME NEW i \in Intents, FeedRemoved(i)
        PROVE  Types'
    <2>1. rows[i] \in Row
      BY <1>1, <1>2 DEF StoresTypeOK, FeedRemoved, Exists
    <2>2. StoresTypeOK'
      BY <1>1, <1>2, <2>1, RegisteredTyped DEF StoresTypeOK, FeedRemoved
    <2>3. ApiTypeOK'
      BY <1>1, <1>2 DEF ApiTypeOK, FeedRemoved
    <2>4. \A r \in Requests : Shape(req[r])'
      BY <1>2 DEF Types, Shape, FeedRemoved
    <2> QED
      BY <2>2, <2>3, <2>4 DEF Types, TypeOK
  <1>3. CASE Crash
    <2>1. JobsAtStartup \in [Intents -> Schedules \cup {Nothing}]
      BY <1>1, Fields DEF JobsAtStartup, StoresTypeOK, Exists
    <2>2. \A i \in Intents : Exists(i) /\ points[i] # Nothing =>
            Entry(points[i], rows[i]) \in CacheEntry
      BY <1>1 DEF StoresTypeOK, Exists, Entry, CacheEntry, Point, Row
    <2>3. CacheAtStartup \in [Intents -> CacheEntry \cup {Nothing}]
      BY <2>2 DEF CacheAtStartup
    <2>4. StoresTypeOK'
      BY <1>1, <1>3, <2>1, <2>3 DEF StoresTypeOK, Crash
    <2>5. ApiTypeOK'
      <3>1. req' \in [Requests -> RequestRecords]
        BY <1>3, IdleTyped DEF Crash
      <3>2. /\ failed' \in [Intents -> SUBSET Changes]
            /\ tainted' \subseteq Intents /\ strayed' \subseteq Intents
        BY <1>1, <1>3 DEF ApiTypeOK, Crash
      <3> QED
        BY <3>1, <3>2 DEF ApiTypeOK, RequestRecords
    <2>6. \A r \in Requests : Shape(req[r])'
      BY <1>3, IdleTyped DEF Crash, Shape
    <2> QED
      BY <2>4, <2>5, <2>6 DEF Types, TypeOK
  <1>4. CASE UNCHANGED registryVars
    <2>1. StoresTypeOK' /\ ApiTypeOK'
      BY <1>1, <1>4 DEF StoresTypeOK, ApiTypeOK, registryVars, storeVars, apiVars
    <2>2. \A r \in Requests : Shape(req[r])'
      BY <1>4 DEF Types, Shape, registryVars, storeVars, apiVars
    <2> QED
      BY <2>1, <2>2 DEF Types, TypeOK
  <1> QED
    BY <1>2, <1>3, <1>4

LEMMA TypesStep ==
  ASSUME Types, \A i \in Intents : Unborn(i), [Next]_registryVars
  PROVE  Types'
  <1>1. ASSUME NEW r \in Requests, RequestStep(r)
        PROVE  Types'
    BY <1>1, TypesPost, TypesPut, TypesDelete DEF RequestStep
  <1> QED
    BY <1>1, TypesArrive, TypesElsewhere DEF Next

-----------------------------------------------------------------------------
(* A step at one intent *)

(* The stores and the history of the other intents are left alone. *)
Beside(i) ==
  \A j \in Intents : j # i =>
    /\ rows'[j] = rows[j] /\ points'[j] = points[j]
    /\ cache'[j] = cache[j] /\ jobs'[j] = jobs[j] /\ failed'[j] = failed[j]
    /\ j \in born' <=> j \in born
    /\ j \in tainted' <=> j \in tainted
    /\ j \in strayed' <=> j \in strayed

LEMMA OthersStayGood ==
  ASSUME Inv, NEW r \in Requests, NEW i \in Intents, NEW q,
         req' = [req EXCEPT ![r] = q],
         req[r].intent \in {i, Nothing}, q.intent \in {i, Nothing},
         Beside(i), NEW j \in Intents, j # i
  PROVE  Good(j)'
  <1>1. Good(j) /\ req \in [Requests -> RequestRecords]
    BY RequestsTyped DEF Inv, Types
  <1>2. /\ rows'[j] = rows[j] /\ points'[j] = points[j]
        /\ cache'[j] = cache[j] /\ jobs'[j] = jobs[j] /\ failed'[j] = failed[j]
        /\ j \in born' <=> j \in born
        /\ j \in tainted' <=> j \in tainted
        /\ j \in strayed' <=> j \in strayed
    BY DEF Beside
  <1>3. r \notin InFlight(j) /\ InFlight(j)' = InFlight(j)
    BY <1>1, NothingAssumption DEF InFlight
  <1>4. \A p \in InFlight(j) : req'[p] = req[p]
    BY <1>1, <1>3 DEF InFlight
  <1>5. Unborn(j)'
    BY <1>1, <1>2, <1>3 DEF Good, Unborn
  <1>6. ModeFixed(j)'
    BY <1>1, <1>2, <1>3, <1>4 DEF Good, ModeFixed, Exists
  <1>7. RowInv(j)'
    BY <1>1, <1>2, <1>3, <1>4 DEF Good, RowInv, InStep, Alone
  <1>8. FollowInv(j)'
    BY <1>1, <1>2, <1>3, <1>4 DEF Good, FollowInv, Follow, Quiet
  <1>9. PointInv(j)'
    BY <1>1, <1>2, <1>3, <1>4 DEF Good, PointInv, Quiet
  <1> QED
    BY <1>5, <1>6, <1>7, <1>8, <1>9 DEF Good

(* What a request that goes on, from p to q, owes its intent.              *)
LEMMA Stays ==
  ASSUME Inv, NEW r \in Requests, NEW i \in Intents, NEW q,
         req' = [req EXCEPT ![r] = q], req[r].intent = i, q.intent = i,
         i \in born, born' = born, Beside(i),
         i \in tainted => i \in tainted', i \in strayed => i \in strayed',
         rows'[i] # Nothing =>
           /\ rows[i] # Nothing /\ SameMode(rows[i].schedule, rows'[i].schedule)
           /\ cache'[i] # Nothing => IsEvent(rows'[i].schedule)
           /\ ModeOf(q, rows'[i]),
         InStep(i)' => RowStage(q, rows'[i]) /\ Follow(i, BaseOf(q))',
         i \notin strayed' => PointStage(q, points'[i], failed'[i])
  PROVE  \A j \in Intents : Good(j)'
  <1>1. Good(i) /\ req \in [Requests -> RequestRecords]
    BY RequestsTyped DEF Inv, Types
  <1>2. r \in InFlight(i) /\ InFlight(i)' = InFlight(i) /\ req'[r] = q
    BY <1>1 DEF InFlight
  <1>3. \A p \in InFlight(i) : p # r => req'[p] = req[p]
    BY <1>1 DEF InFlight
  <1>4. InStep(i)' => \A p \in InFlight(i) : p = r
    BY <1>1, <1>2 DEF Good, RowInv, InStep, Alone
  <1>5. Unborn(i)'
    BY DEF Unborn
  <1>6. ModeFixed(i)'
    <2>1. ASSUME rows'[i] # Nothing, NEW p \in InFlight(i)
          PROVE  ModeOf(req'[p], rows'[i])
      <3>1. CASE p = r
        BY <1>2, <2>1, <3>1
      <3>2. CASE p # r
        <4>1. ModeOf(req[p], rows[i])
          BY <1>1, <2>1 DEF Good, ModeFixed, Exists
        <4> QED
          BY <1>3, <2>1, <3>2, <4>1 DEF ModeOf, SameMode
      <3> QED
        BY <3>1, <3>2
    <2> QED
      BY <1>2, <2>1 DEF ModeFixed, Exists
  <1>7. RowInv(i)'
    BY <1>2, <1>4 DEF RowInv, InStep, Alone
  <1>8. FollowInv(i)'
    <2>1. ~Quiet(i)'
      BY <1>2 DEF Quiet
    <2>2. CASE InStep(i)'
      BY <1>2, <1>4, <2>1, <2>2 DEF FollowInv
    <2>3. CASE ~InStep(i)'
      BY <2>1, <2>3 DEF FollowInv, Follow, InStep
    <2> QED
      BY <2>2, <2>3
  <1>9. PointInv(i)'
    BY <1>2, <1>4 DEF PointInv, Quiet, InStep
  <1> QED
    BY <1>5, <1>6, <1>7, <1>8, <1>9, OthersStayGood, NothingAssumption DEF Good

(* What a request owes its intent when it is answered.                     *)
LEMMA Leaves ==
  ASSUME Inv, NEW r \in Requests, NEW i \in Intents,
         req' = [req EXCEPT ![r] = Idle], req[r].intent = i,
         i \in born, born' = born, Beside(i),
         i \in tainted => i \in tainted', i \in strayed => i \in strayed',
         rows'[i] # Nothing =>
           /\ rows[i] # Nothing /\ SameMode(rows[i].schedule, rows'[i].schedule)
           /\ cache'[i] # Nothing => IsEvent(rows'[i].schedule),
         InStep(i)' => Follow(i, rows[i])',
         i \notin strayed' => PointFits(points'[i], rows'[i], failed'[i])
  PROVE  \A j \in Intents : Good(j)'
  <1>1. Good(i) /\ req \in [Requests -> RequestRecords]
    BY RequestsTyped DEF Inv, Types
  <1>2. r \in InFlight(i) /\ InFlight(i)' = InFlight(i) \ {r} /\ Idle.intent = Nothing
    BY <1>1, NothingAssumption DEF InFlight, Idle
  <1>3. \A p \in InFlight(i)' : req'[p] = req[p]
    BY <1>1, <1>2 DEF InFlight
  <1>4. InStep(i)' => InFlight(i)' = {}
    BY <1>1, <1>2 DEF Good, RowInv, InStep, Alone
  <1>5. Unborn(i)'
    BY DEF Unborn
  <1>6. ModeFixed(i)'
    <2>1. ASSUME rows'[i] # Nothing, NEW p \in InFlight(i)'
          PROVE  ModeOf(req'[p], rows'[i])
      <3>1. ModeOf(req[p], rows[i])
        BY <1>1, <1>2, <2>1 DEF Good, ModeFixed, Exists
      <3> QED
        BY <1>3, <2>1, <3>1 DEF ModeOf, SameMode
    <2> QED
      BY <2>1 DEF ModeFixed, Exists
  <1>7. RowInv(i)'
    BY <1>4 DEF RowInv, Alone
  <1>8. FollowInv(i)'
    <2>1. CASE InStep(i)'
      BY <1>4, <2>1 DEF FollowInv
    <2>2. CASE ~InStep(i)'
      BY <2>2 DEF FollowInv, Follow, InStep
    <2> QED
      BY <2>1, <2>2
  <1>9. PointInv(i)'
    BY <1>4 DEF PointInv, InStep
  <1> QED
    BY <1>2, <1>5, <1>6, <1>7, <1>8, <1>9, OthersStayGood DEF Good

(* What a request owes its intent when it arrives.                         *)
LEMMA Arrives ==
  ASSUME Inv, NEW r \in Requests, NEW i \in Intents, NEW q,
         req' = [req EXCEPT ![r] = q], req[r] = Idle, q.intent = i,
         i \in born', Beside(i),
         InFlight(i) # {} => i \in tainted' /\ i \in strayed',
         rows'[i] # Nothing =>
           /\ \/ rows[i] # Nothing /\ SameMode(rows[i].schedule, rows'[i].schedule)
              \/ InFlight(i) = {}
           /\ cache'[i] # Nothing => IsEvent(rows'[i].schedule)
           /\ ModeOf(q, rows'[i]),
         InFlight(i) = {} => RowStage(q, rows'[i]) /\ Follow(i, BaseOf(q))',
         InFlight(i) = {} /\ i \notin strayed' => PointStage(q, points'[i], failed'[i])
  PROVE  \A j \in Intents : Good(j)'
  <1>1. Good(i) /\ req \in [Requests -> RequestRecords]
    BY RequestsTyped DEF Inv, Types
  <1>2. /\ r \notin InFlight(i) /\ InFlight(i)' = InFlight(i) \cup {r} /\ req'[r] = q
        /\ req[r].intent = Nothing
    BY <1>1, NothingAssumption DEF InFlight, Idle
  <1>3. \A p \in InFlight(i) : req'[p] = req[p]
    BY <1>1, <1>2 DEF InFlight
  <1>4. InStep(i)' => InFlight(i) = {} /\ InFlight(i)' = {r}
    BY <1>2 DEF InStep
  <1>5. Unborn(i)'
    BY DEF Unborn
  <1>6. ModeFixed(i)'
    <2>1. ASSUME rows'[i] # Nothing, NEW p \in InFlight(i)'
          PROVE  ModeOf(req'[p], rows'[i])
      <3>1. CASE p = r
        BY <1>2, <2>1, <3>1
      <3>2. CASE p # r
        <4>1. p \in InFlight(i)
          BY <1>2, <2>1, <3>2
        <4>2. ModeOf(req[p], rows[i])
          BY <1>1, <2>1, <4>1 DEF Good, ModeFixed, Exists
        <4> QED
          BY <1>3, <2>1, <4>1, <4>2 DEF ModeOf, SameMode
      <3> QED
        BY <3>1, <3>2
    <2> QED
      BY <2>1 DEF ModeFixed, Exists
  <1>7. RowInv(i)'
    BY <1>2, <1>4 DEF RowInv, Alone
  <1>8. FollowInv(i)'
    <2>1. ~Quiet(i)'
      BY <1>2 DEF Quiet
    <2>2. CASE InStep(i)'
      BY <1>2, <1>4, <2>1, <2>2 DEF FollowInv
    <2>3. CASE ~InStep(i)'
      BY <2>1, <2>3 DEF FollowInv, Follow, InStep
    <2> QED
      BY <2>2, <2>3
  <1>9. PointInv(i)'
    BY <1>2, <1>4 DEF PointInv, InStep, Quiet
  <1> QED
    BY <1>2, <1>5, <1>6, <1>7, <1>8, <1>9, OthersStayGood DEF Good

(* What holds of the intent of an open request. *)
LEMMA AtIntent ==
  ASSUME Inv, NEW r \in Requests, NEW q, q = req[r], NEW i, i = q.intent, q.op # "none"
  PROVE  /\ q \in RequestRecords /\ Shape(q)
         /\ i \in Intents /\ i \in born
         /\ rows[i] \in Row \cup {Nothing} /\ points[i] \in Point \cup {Nothing}
         /\ cache[i] \in CacheEntry \cup {Nothing}
         /\ failed[i] \subseteq Changes
         /\ rows[i] # Nothing => /\ cache[i] # Nothing => IsEvent(rows[i].schedule)
                                 /\ ModeOf(q, rows[i])
         /\ InStep(i) => RowStage(q, rows[i]) /\ Follow(i, BaseOf(q))
         /\ i \notin strayed => PointStage(q, points[i], failed[i])
  <1>1. Types /\ StoresTypeOK /\ ApiTypeOK
    BY DEF Inv, Types, TypeOK
  <1>2. q \in RequestRecords /\ Shape(q) /\ i \in Intents /\ i \in born
    BY <1>1, AtRequest
  <1>3. r \in InFlight(i) /\ Good(i)
    BY <1>2 DEF Inv, InFlight
  <1>4. rows[i] # Nothing => /\ cache[i] # Nothing => IsEvent(rows[i].schedule)
                             /\ ModeOf(q, rows[i])
    BY <1>3 DEF Good, ModeFixed, Exists
  <1>5. InStep(i) => RowStage(q, rows[i]) /\ Follow(i, BaseOf(q))
    BY <1>3 DEF Good, RowInv, FollowInv
  <1>6. i \notin strayed => PointStage(q, points[i], failed[i])
    BY <1>3 DEF Good, PointInv
  <1>7. /\ rows[i] \in Row \cup {Nothing} /\ points[i] \in Point \cup {Nothing}
        /\ cache[i] \in CacheEntry \cup {Nothing}
        /\ failed[i] \subseteq Changes
    BY <1>1, <1>2 DEF StoresTypeOK, ApiTypeOK
  <1> QED
    BY <1>2, <1>4, <1>5, <1>6, <1>7

LEMMA PcsApart ==
  /\ PutPcs = {"write", "reread", "upsert", "trim", "done", "restore", "retrieve"}
  /\ PostPcs = {"upsert", "upserted", "unpoint", "unrow"}
  /\ DeletePcs = {"point", "row"}
  BY DEF PutPcs, PostPcs, DeletePcs

-----------------------------------------------------------------------------
(* POST and DELETE *)

LEMMA PostGood ==
  ASSUME Inv, NEW r \in Requests,
         \/ PostUpsert(r) \/ PostReturns(r) \/ PostRaises(r) \/ PostJobRaises(r)
         \/ \E removed \in BOOLEAN : PostUnpoint(r, removed) \/ PostUnrow(r, removed)
  PROVE  \A j \in Intents : Good(j)'
  <1>1. PICK q : q = req[r]
    OBVIOUS
  <1>2. PICK i : i = q.intent
    OBVIOUS
  <1>3. q.op = "post"
    BY <1>1 DEF PostUpsert, PostReturns, PostRaises, PostJobRaises, PostUnpoint, PostUnrow, At
  <1>4. /\ q \in RequestRecords /\ Shape(q) /\ i \in Intents /\ i \in born
        /\ rows[i] # Nothing => /\ cache[i] # Nothing => IsEvent(rows[i].schedule)
                                /\ ModeOf(q, rows[i])
        /\ InStep(i) => RowStage(q, rows[i]) /\ Follow(i, BaseOf(q))
        /\ i \notin strayed => PointStage(q, points[i], failed[i])
    BY <1>1, <1>2, <1>3, AtIntent
  <1>5. q.new \in Row /\ q.new # Nothing /\ Vectors(q.new) # Nothing
    BY <1>3, <1>4, RecordsAssumption, VectorsTyped DEF Shape
  <1>6. rows[i] # Nothing => SameMode(q.new.schedule, rows[i].schedule)
    BY <1>4, <1>5 DEF ModeOf
  <1>7. InStep(i) => rows[i] = q.new /\ Follow(i, Nothing)
    BY <1>3, <1>4 DEF RowStage, BaseOf
  <1>8. StoresTypeOK /\ ApiTypeOK
    BY DEF Inv, Types, TypeOK
  <1>9. ASSUME NEW pc \in PostPcs
        PROVE  \E n : /\ n = [q EXCEPT !.pc = pc] /\ n.intent = i
                      /\ n.op = "post" /\ n.new = q.new /\ n.pc = pc
                      /\ BaseOf(n) = Nothing
                      /\ \A row : ModeOf(q, row) => ModeOf(n, row)
                      /\ \A row : RowStage(n, row) <=> row = q.new
    <2>1. PICK n : n = [q EXCEPT !.pc = pc]
      OBVIOUS
    <2>2. n.pc = pc /\ n.op = q.op /\ n.intent = q.intent /\ n.new = q.new
      BY <1>4, <2>1, WithPc
    <2> QED
      BY <1>2, <1>3, <2>1, <2>2 DEF BaseOf, ModeOf, RowStage
  <1>10. CASE PostUpsert(r)
    <2>1. PICK n : /\ n = [q EXCEPT !.pc = "upserted"] /\ n.intent = i
                   /\ n.op = "post" /\ n.new = q.new /\ n.pc = "upserted"
                   /\ BaseOf(n) = Nothing
                   /\ \A row : ModeOf(q, row) => ModeOf(n, row)
                   /\ \A row : RowStage(n, row) <=> row = q.new
      BY <1>9, PcsApart
    <2>2. /\ req' = [req EXCEPT ![r] = n] /\ q.pc = "upsert"
          /\ UNCHANGED <<rows, cache, jobs, born, tainted, strayed, failed>>
          /\ points' = [points EXCEPT ![i] = Upserted(points[i], q.new)]
      BY <1>1, <1>2, <1>10, <2>1 DEF PostUpsert, Goto, history, At
    <2>3. points'[i] = Upserted(points[i], q.new) /\ Beside(i)
      BY <1>4, <1>8, <2>2 DEF StoresTypeOK, Beside
    <2>4. i \notin strayed => points[i] = Nothing
      BY <1>3, <1>4, <2>2 DEF PointStage
    <2>5. i \notin strayed => PointStage(n, points'[i], failed'[i])
      BY <2>1, <2>3, <2>4 DEF PointStage, Upserted
    <2>6. InStep(i)' => RowStage(n, rows'[i]) /\ Follow(i, BaseOf(n))'
      BY <1>7, <2>1, <2>2 DEF InStep, Follow
    <2>7. rows'[i] # Nothing =>
            /\ rows[i] # Nothing /\ SameMode(rows[i].schedule, rows'[i].schedule)
            /\ cache'[i] # Nothing => IsEvent(rows'[i].schedule)
            /\ ModeOf(n, rows'[i])
      BY <1>4, <2>1, <2>2 DEF SameMode
    <2> QED
      BY <1>1, <1>2, <1>4, <2>1, <2>2, <2>3, <2>5, <2>6, <2>7, Stays
  <1>11. CASE PostReturns(r)
    <2>1. /\ req' = [req EXCEPT ![r] = Idle] /\ q.pc = "upserted"
          /\ UNCHANGED <<rows, points, born>>
          /\ cache' = IF q.new.enabled /\ IsEvent(q.new.schedule)
                      THEN [cache EXCEPT ![i] = Entry(Vectors(q.new), q.new)] ELSE cache
          /\ jobs' = IF q.new.enabled THEN Registered(jobs, i, q.new) ELSE jobs
          /\ tainted' = tainted /\ strayed' = strayed
          /\ failed' = [failed EXCEPT ![i] = @ \ {q.body}]
      BY <1>1, <1>2, <1>11 DEF PostReturns, Succeed, Answer, At
    <2>2. Entry(Vectors(q.new), q.new) # Nothing
      BY <1>5, VectorsTyped, Fields, EntryTyped, RecordsAssumption
    <2>3. /\ Entry(Vectors(q.new), q.new).main = q.new.main
          /\ Entry(Vectors(q.new), q.new).alt = q.new.alt
          /\ Entry(Vectors(q.new), q.new).schedule = q.new.schedule
          /\ Vectors(q.new).main = q.new.main /\ Vectors(q.new).alt = q.new.alt
      BY DEF Entry, Vectors
    <2>4. /\ cache'[i] = IF q.new.enabled /\ IsEvent(q.new.schedule)
                         THEN Entry(Vectors(q.new), q.new) ELSE cache[i]
          /\ jobs'[i] = IF q.new.enabled /\ ~IsEvent(q.new.schedule)
                        THEN q.new.schedule ELSE jobs[i]
      BY <1>4, <1>8, <2>1 DEF StoresTypeOK, Registered
    <2>5. Beside(i)
      BY <1>4, <1>8, <2>1 DEF StoresTypeOK, ApiTypeOK, Beside, Registered
    <2>6. ASSUME InStep(i)'
          PROVE  Follow(i, rows[i])'
      <3>1. rows'[i] = q.new /\ Follow(i, Nothing)
        BY <1>7, <2>1, <2>6 DEF InStep
      <3>2. i \notin tainted => jobs[i] = Nothing /\ cache[i] = Nothing
        BY <3>1 DEF Follow, JobFits, EntryFits
      <3>3. i \notin tainted => JobFits(jobs'[i], q.new) /\ EntryFits(cache'[i], q.new)
        BY <1>5, <2>2, <2>3, <2>4, <3>2 DEF JobFits, EntryFits
      <3>4. i \notin tainted => EntryClose(cache'[i], q.new, failed'[i])
        BY <2>3, <2>4, <3>2 DEF EntryClose, Close, CloseMain, CloseAlt
      <3> QED
        BY <2>1, <3>1, <3>3, <3>4 DEF Follow
    <2>7. i \notin strayed' => PointFits(points'[i], rows'[i], failed'[i])
      <3>1. i \notin strayed => rows[i] = q.new /\ points[i] = Vectors(q.new)
        BY <1>3, <1>4, <1>7, <2>1 DEF PointStage, InStep
      <3> QED
        BY <1>5, <2>1, <2>3, <3>1 DEF PointFits, Close, CloseMain, CloseAlt
    <2>8. rows'[i] # Nothing =>
            /\ rows[i] # Nothing /\ SameMode(rows[i].schedule, rows'[i].schedule)
            /\ cache'[i] # Nothing => IsEvent(rows'[i].schedule)
      BY <1>4, <1>6, <2>1, <2>4 DEF SameMode
    <2> QED
      BY <1>1, <1>2, <1>4, <2>1, <2>5, <2>6, <2>7, <2>8, Leaves
  <1>12. CASE PostRaises(r)
    <2>1. PICK n : /\ n = [q EXCEPT !.pc = "unrow"] /\ n.intent = i
                   /\ n.op = "post" /\ n.new = q.new /\ n.pc = "unrow"
                   /\ BaseOf(n) = Nothing
                   /\ \A row : ModeOf(q, row) => ModeOf(n, row)
                   /\ \A row : RowStage(n, row) <=> row = q.new
      BY <1>9, PcsApart
    <2>2. /\ req' = [req EXCEPT ![r] = n]
          /\ UNCHANGED <<rows, points, jobs, born, tainted, failed>>
          /\ strayed' = strayed \cup {i}
          /\ cache' = IF IsEvent(q.new.schedule)
                      THEN [cache EXCEPT ![i] = Nothing] ELSE cache
      BY <1>1, <1>2, <1>12, <2>1 DEF PostRaises
    <2>3. cache'[i] \in {cache[i], Nothing} /\ Beside(i)
      BY <1>4, <1>8, <2>2 DEF StoresTypeOK, Beside
    <2>4. InStep(i)' => RowStage(n, rows'[i]) /\ Follow(i, BaseOf(n))'
      BY <1>7, <2>1, <2>2, <2>3 DEF InStep, Follow, JobFits, EntryFits
    <2>5. rows'[i] # Nothing =>
            /\ rows[i] # Nothing /\ SameMode(rows[i].schedule, rows'[i].schedule)
            /\ cache'[i] # Nothing => IsEvent(rows'[i].schedule)
            /\ ModeOf(n, rows'[i])
      BY <1>4, <2>1, <2>2, <2>3 DEF SameMode
    <2> QED
      BY <1>1, <1>2, <1>4, <2>1, <2>2, <2>3, <2>4, <2>5, Stays
  <1>13. CASE PostJobRaises(r)
    <2>1. PICK n : /\ n = [q EXCEPT !.pc = "unpoint"] /\ n.intent = i
                   /\ n.op = "post" /\ n.new = q.new /\ n.pc = "unpoint"
                   /\ BaseOf(n) = Nothing
                   /\ \A row : ModeOf(q, row) => ModeOf(n, row)
                   /\ \A row : RowStage(n, row) <=> row = q.new
      BY <1>9, PcsApart
    <2>2. /\ req' = [req EXCEPT ![r] = n]
          /\ UNCHANGED <<rows, points, cache, jobs, born, tainted, strayed, failed>>
      BY <1>1, <1>2, <1>13, <2>1 DEF PostJobRaises, Goto, history, storeVars
    <2>3. Beside(i)
      BY <2>2 DEF Beside
    <2>4. PointStage(n, points'[i], failed'[i])
      BY <2>1 DEF PointStage
    <2>5. InStep(i)' => RowStage(n, rows'[i]) /\ Follow(i, BaseOf(n))'
      BY <1>7, <2>1, <2>2 DEF InStep, Follow
    <2>6. rows'[i] # Nothing =>
            /\ rows[i] # Nothing /\ SameMode(rows[i].schedule, rows'[i].schedule)
            /\ cache'[i] # Nothing => IsEvent(rows'[i].schedule)
            /\ ModeOf(n, rows'[i])
      BY <1>4, <2>1, <2>2 DEF SameMode
    <2> QED
      BY <1>1, <1>2, <1>4, <2>1, <2>2, <2>3, <2>4, <2>5, <2>6, Stays
  <1>14. ASSUME NEW removed \in BOOLEAN, PostUnpoint(r, removed)
         PROVE  \A j \in Intents : Good(j)'
    <2>1. PICK n : /\ n = [q EXCEPT !.pc = "unrow"] /\ n.intent = i
                   /\ n.op = "post" /\ n.new = q.new /\ n.pc = "unrow"
                   /\ BaseOf(n) = Nothing
                   /\ \A row : ModeOf(q, row) => ModeOf(n, row)
                   /\ \A row : RowStage(n, row) <=> row = q.new
      BY <1>9, PcsApart
    <2>2. /\ req' = [req EXCEPT ![r] = n]
          /\ UNCHANGED <<rows, cache, jobs, born, tainted, failed>>
          /\ points' = IF removed THEN [points EXCEPT ![i] = Nothing] ELSE points
          /\ strayed' = IF removed THEN strayed ELSE strayed \cup {i}
      BY <1>1, <1>2, <1>14, <2>1 DEF PostUnpoint
    <2>3. (removed => points'[i] = Nothing) /\ Beside(i)
      BY <1>4, <1>8, <2>2 DEF StoresTypeOK, Beside
    <2>4. i \notin strayed' => PointStage(n, points'[i], failed'[i])
      BY <2>1, <2>2, <2>3 DEF PointStage
    <2>5. InStep(i)' => RowStage(n, rows'[i]) /\ Follow(i, BaseOf(n))'
      BY <1>7, <2>1, <2>2 DEF InStep, Follow, EntryClose
    <2>6. rows'[i] # Nothing =>
            /\ rows[i] # Nothing /\ SameMode(rows[i].schedule, rows'[i].schedule)
            /\ cache'[i] # Nothing => IsEvent(rows'[i].schedule)
            /\ ModeOf(n, rows'[i])
      BY <1>4, <2>1, <2>2 DEF SameMode
    <2> QED
      BY <1>1, <1>2, <1>4, <2>1, <2>2, <2>3, <2>4, <2>5, <2>6, Stays
  <1>15. ASSUME NEW removed \in BOOLEAN, PostUnrow(r, removed)
         PROVE  \A j \in Intents : Good(j)'
    <2>1. /\ req' = [req EXCEPT ![r] = Idle] /\ q.pc = "unrow"
          /\ UNCHANGED <<points, cache, jobs, born, failed>>
          /\ rows' = IF removed THEN [rows EXCEPT ![i] = Nothing] ELSE rows
          /\ tainted' = tainted \cup (IF removed THEN {} ELSE {i})
          /\ strayed' = strayed \cup (IF removed THEN {} ELSE {i})
      BY <1>1, <1>2, <1>15 DEF PostUnrow, Fail, Answer, At
    <2>2. (removed => rows'[i] = Nothing) /\ (~removed => rows' = rows) /\ Beside(i)
      BY <1>4, <1>8, <2>1 DEF StoresTypeOK, Beside
    <2>3. InStep(i)' => removed
      BY <2>1 DEF InStep
    <2>4. InStep(i)' => Follow(i, rows[i])'
      BY <1>7, <2>1, <2>2, <2>3 DEF InStep, Follow
    <2>5. i \notin strayed' => PointFits(points'[i], rows'[i], failed'[i])
      BY <1>3, <1>4, <2>1, <2>2 DEF PointStage, PointFits
    <2>6. rows'[i] # Nothing =>
            /\ rows[i] # Nothing /\ SameMode(rows[i].schedule, rows'[i].schedule)
            /\ cache'[i] # Nothing => IsEvent(rows'[i].schedule)
      BY <1>4, <2>1, <2>2 DEF SameMode
    <2> QED
      BY <1>1, <1>2, <1>4, <2>1, <2>2, <2>4, <2>5, <2>6, Leaves
  <1> QED
    BY <1>10, <1>11, <1>12, <1>13, <1>14, <1>15

LEMMA DeleteGood ==
  ASSUME Inv, NEW r \in Requests, DeletePoint(r) \/ DeleteRow(r) \/ DeleteRaises(r)
  PROVE  \A j \in Intents : Good(j)'
  <1>1. PICK q : q = req[r]
    OBVIOUS
  <1>2. PICK i : i = q.intent
    OBVIOUS
  <1>3. q.op = "delete"
    BY <1>1 DEF DeletePoint, DeleteRow, DeleteRaises, At
  <1>4. /\ q \in RequestRecords /\ Shape(q) /\ i \in Intents /\ i \in born
        /\ rows[i] # Nothing => /\ cache[i] # Nothing => IsEvent(rows[i].schedule)
                                /\ ModeOf(q, rows[i])
        /\ InStep(i) => RowStage(q, rows[i]) /\ Follow(i, BaseOf(q))
        /\ i \notin strayed => PointStage(q, points[i], failed[i])
    BY <1>1, <1>2, <1>3, AtIntent
  <1>5. InStep(i) => Follow(i, Nothing)
    BY <1>3, <1>4 DEF BaseOf
  <1>6. StoresTypeOK /\ ApiTypeOK
    BY DEF Inv, Types, TypeOK
  <1>7. CASE DeletePoint(r)
    <2>1. PICK n : n = [q EXCEPT !.pc = "row"]
      OBVIOUS
    <2>2. /\ n.intent = i /\ n.op = "delete" /\ n.new = q.new /\ n.pc = "row"
          /\ BaseOf(n) = Nothing
          /\ \A row : ModeOf(q, row) => ModeOf(n, row)
          /\ \A row : RowStage(n, row)
      BY <1>2, <1>3, <1>4, <2>1, WithPc, PcsApart DEF BaseOf, ModeOf, RowStage
    <2>3. /\ req' = [req EXCEPT ![r] = n]
          /\ UNCHANGED <<rows, cache, jobs, born, tainted, strayed, failed>>
          /\ points' = [points EXCEPT ![i] = Nothing]
      BY <1>1, <1>2, <1>7, <2>1 DEF DeletePoint, Goto, history
    <2>4. points'[i] = Nothing /\ Beside(i)
      BY <1>4, <1>6, <2>3 DEF StoresTypeOK, Beside
    <2>5. PointStage(n, points'[i], failed'[i])
      BY <2>2, <2>4 DEF PointStage
    <2>6. InStep(i)' => RowStage(n, rows'[i]) /\ Follow(i, BaseOf(n))'
      BY <1>5, <2>2, <2>3 DEF InStep, Follow
    <2>7. rows'[i] # Nothing =>
            /\ rows[i] # Nothing /\ SameMode(rows[i].schedule, rows'[i].schedule)
            /\ cache'[i] # Nothing => IsEvent(rows'[i].schedule)
            /\ ModeOf(n, rows'[i])
      BY <1>4, <2>2, <2>3 DEF SameMode
    <2> QED
      BY <1>1, <1>2, <1>4, <2>2, <2>3, <2>4, <2>5, <2>6, <2>7, Stays
  <1>8. CASE DeleteRow(r)
    <2>1. /\ req' = [req EXCEPT ![r] = Idle] /\ q.pc = "row"
          /\ UNCHANGED <<points, cache, jobs, born>>
          /\ rows' = [rows EXCEPT ![i] = Nothing]
          /\ tainted' = tainted /\ strayed' = strayed
          /\ failed' = [failed EXCEPT ![i] = @ \ {q.body}]
      BY <1>1, <1>2, <1>8 DEF DeleteRow, Succeed, Answer, At
    <2>2. rows'[i] = Nothing /\ Beside(i)
      BY <1>4, <1>6, <2>1 DEF StoresTypeOK, ApiTypeOK, Beside
    <2>3. InStep(i)' => Follow(i, rows[i])'
      BY <1>5, <2>1, <2>2 DEF InStep, Follow, EntryClose
    <2>4. i \notin strayed' => PointFits(points'[i], rows'[i], failed'[i])
      BY <1>3, <1>4, <2>1, <2>2 DEF PointStage, PointFits
    <2> QED
      BY <1>1, <1>2, <1>4, <2>1, <2>2, <2>3, <2>4, Leaves
  <1>9. CASE DeleteRaises(r)
    <2>1. /\ req' = [req EXCEPT ![r] = Idle]
          /\ UNCHANGED <<rows, points, cache, jobs, born, failed>>
          /\ tainted' = tainted \cup {i} /\ strayed' = strayed \cup {i}
      BY <1>1, <1>2, <1>9 DEF DeleteRaises, Fail, Answer, storeVars
    <2>2. Beside(i) /\ ~InStep(i)'
      BY <2>1 DEF Beside, InStep
    <2>3. rows'[i] # Nothing =>
            /\ rows[i] # Nothing /\ SameMode(rows[i].schedule, rows'[i].schedule)
            /\ cache'[i] # Nothing => IsEvent(rows'[i].schedule)
      BY <1>4, <2>1 DEF SameMode
    <2> QED
      BY <1>1, <1>2, <1>4, <2>1, <2>2, <2>3, Leaves
  <1> QED
    BY <1>7, <1>8, <1>9

-----------------------------------------------------------------------------
(* Arrivals *)

(* What Launch does to the history. *)
LEMMA Launches ==
  ASSUME Inv, NEW r \in Requests, NEW i \in Intents, NEW op, NEW pc, NEW body, NEW old, NEW new,
         Launch(r, op, pc, i, body, old, new),
         NEW n, n = [op |-> op, pc |-> pc, intent |-> i, body |-> body,
                     old |-> old, new |-> new]
  PROVE  /\ req' = [req EXCEPT ![r] = n] /\ req[r] = Idle /\ n.intent = i
         /\ n.op = op /\ n.pc = pc /\ n.body = body /\ n.old = old /\ n.new = new
         /\ InFlight(i) # {} => i \in tainted' /\ i \in strayed'
         /\ InFlight(i) = {} /\ op # "delete" => UNCHANGED <<tainted, strayed, failed>>
         /\ InFlight(i) = {} /\ op = "delete" =>
              i \notin tainted' /\ i \notin strayed'
         /\ \A j \in Intents : j # i =>
              /\ failed'[j] = failed[j]
              /\ j \in tainted' <=> j \in tainted
              /\ j \in strayed' <=> j \in strayed
  <1>1. req' = [req EXCEPT ![r] = n] /\ req[r] = Idle
    BY DEF Launch
  <1>2. ApiTypeOK
    BY DEF Inv, Types, TypeOK
  <1>3. /\ InFlight(i) # {} => i \in tainted' /\ i \in strayed'
        /\ InFlight(i) = {} /\ op # "delete" => UNCHANGED <<tainted, strayed, failed>>
        /\ InFlight(i) = {} /\ op = "delete" =>
              i \notin tainted' /\ i \notin strayed'
    BY DEF Launch, history
  <1>4. \A j \in Intents : j # i =>
              /\ failed'[j] = failed[j]
              /\ j \in tainted' <=> j \in tainted
              /\ j \in strayed' <=> j \in strayed
    BY <1>2 DEF Launch, history, ApiTypeOK
  <1> QED
    BY <1>1, <1>3, <1>4

LEMMA ArriveGood ==
  ASSUME Inv, NEW r \in Requests, RequestArrives(r)
  PROVE  \A j \in Intents : Good(j)'
  <1>1. StoresTypeOK
    BY DEF Inv, Types, TypeOK
  <1>2. ASSUME NEW i \in Intents, NEW body \in NewBodies, Post(r, i, body)
        PROVE  \A j \in Intents : Good(j)'
    <2>1. PICK n : n = [op |-> "post", pc |-> "upsert", intent |-> i, body |-> Nothing,
                        old |-> Nothing, new |-> body]
      OBVIOUS
    <2>2. Launch(r, "post", "upsert", i, Nothing, Nothing, body)
      BY <1>2 DEF Post
    <2>3. /\ InFlight(i) = {} /\ points[i] = Nothing /\ cache[i] = Nothing /\ jobs[i] = Nothing
      BY <1>2 DEF Inv, Good, Unborn, Post
    <2>4. /\ req' = [req EXCEPT ![r] = n] /\ req[r] = Idle /\ n.intent = i
          /\ n.op = "post" /\ n.pc = "upsert" /\ n.new = body
          /\ UNCHANGED <<tainted, strayed, failed>>
      BY <2>1, <2>2, <2>3, Launches
    <2>5. /\ rows'[i] = body /\ i \in born' /\ Beside(i)
          /\ points'[i] = Nothing /\ cache'[i] = Nothing /\ jobs'[i] = Nothing
      BY <1>1, <1>2, <2>3, <2>4 DEF Post, Beside, StoresTypeOK
    <2>6. ModeOf(n, rows'[i]) /\ RowStage(n, rows'[i])
      BY <2>4, <2>5 DEF ModeOf, RowStage, SameMode
    <2>7. Follow(i, BaseOf(n))'
      BY <2>4, <2>5 DEF Follow, BaseOf, JobFits, EntryFits, EntryClose
    <2>8. PointStage(n, points'[i], failed'[i])
      BY <2>4, <2>5 DEF PointStage
    <2> QED
      BY <2>3, <2>4, <2>5, <2>6, <2>7, <2>8, Arrives
  <1>3. ASSUME NEW i \in Intents, NEW body \in Changes, Put(r, i, body)
        PROVE  \A j \in Intents : Good(j)'
    <2>1. PICK n : n = [op |-> "put", pc |-> "write", intent |-> i, body |-> body,
                        old |-> rows[i], new |-> Nothing]
      OBVIOUS
    <2>2. Launch(r, "put", "write", i, body, rows[i], Nothing)
      BY <1>3 DEF Put
    <2>3. PICK old : old = rows[i]
      OBVIOUS
    <2>4. /\ req' = [req EXCEPT ![r] = n] /\ req[r] = Idle /\ n.intent = i
          /\ n.op = "put" /\ n.pc = "write" /\ n.body = body /\ n.old = rows[i]
          /\ n.new = Nothing
          /\ InFlight(i) # {} => i \in tainted' /\ i \in strayed'
          /\ InFlight(i) = {} => UNCHANGED <<tainted, strayed, failed>>
          /\ \A j \in Intents : j # i =>
              /\ failed'[j] = failed[j]
              /\ j \in tainted' <=> j \in tainted
              /\ j \in strayed' <=> j \in strayed
      BY <2>1, <2>2, <2>3, Launches
    <2>5. UNCHANGED <<rows, points, cache, jobs, born>> /\ Beside(i) /\ rows[i] # Nothing
      BY <1>3, <2>4 DEF Put, Beside, storeVars, Exists
    <2>6. Good(i) /\ i \in born
      BY <1>3, <2>5 DEF Inv, Good, Unborn
    <2>7. ModeOf(n, rows'[i]) /\ RowStage(n, rows'[i])
      BY <1>3, <2>4, <2>5 DEF ModeOf, RowStage, SameMode, Put
    <2>8. cache[i] # Nothing => IsEvent(rows[i].schedule)
      BY <2>5, <2>6 DEF Good, ModeFixed, Exists
    <2>9. InFlight(i) = {} => Follow(i, BaseOf(n))'
      BY <2>4, <2>5, <2>6 DEF Good, FollowInv, Quiet, Follow, BaseOf
    <2>10. InFlight(i) = {} /\ i \notin strayed' => PointStage(n, points'[i], failed'[i])
      BY <2>4, <2>5, <2>6 DEF Good, PointInv, Quiet, PointStage
    <2> QED
      BY <2>4, <2>5, <2>6, <2>7, <2>8, <2>9, <2>10, Arrives DEF SameMode
  <1>4. ASSUME NEW i \in Intents, Delete(r, i)
        PROVE  \A j \in Intents : Good(j)'
    <2>1. PICK n : n = [op |-> "delete", pc |-> "point", intent |-> i, body |-> Nothing,
                        old |-> rows[i], new |-> Nothing]
      OBVIOUS
    <2>2. Launch(r, "delete", "point", i, Nothing, rows[i], Nothing)
      BY <1>4 DEF Delete
    <2>3. PICK old : old = rows[i]
      OBVIOUS
    <2>4. /\ req' = [req EXCEPT ![r] = n] /\ req[r] = Idle /\ n.intent = i
          /\ n.op = "delete" /\ n.pc = "point" /\ n.new = Nothing
          /\ InFlight(i) # {} => i \in tainted' /\ i \in strayed'
          /\ \A j \in Intents : j # i =>
              /\ failed'[j] = failed[j]
              /\ j \in tainted' <=> j \in tainted
              /\ j \in strayed' <=> j \in strayed
      BY <2>1, <2>2, <2>3, Launches
    <2>5. Good(i) /\ rows[i] # Nothing /\ i \in born
      BY <1>4 DEF Inv, Good, Unborn, Delete, Exists
    <2>6. cache[i] # Nothing => IsEvent(rows[i].schedule)
      BY <2>5 DEF Good, ModeFixed, Exists
    <2>7. /\ UNCHANGED <<rows, points, born>> /\ Beside(i)
          /\ jobs'[i] = Nothing /\ cache'[i] = Nothing
      BY <1>1, <1>4, <2>4, <2>6 DEF Delete, Beside, StoresTypeOK, Unregistered
    <2>8. ModeOf(n, rows'[i]) /\ RowStage(n, rows'[i])
      BY <2>4 DEF ModeOf, RowStage
    <2>9. Follow(i, BaseOf(n))'
      BY <2>4, <2>7 DEF Follow, BaseOf, JobFits, EntryFits, EntryClose
    <2>10. PointStage(n, points'[i], failed'[i])
      BY <2>4 DEF PointStage
    <2> QED
      BY <2>4, <2>5, <2>7, <2>8, <2>9, <2>10, Arrives DEF SameMode
  <1> QED
    BY <1>2, <1>3, <1>4 DEF RequestArrives

-----------------------------------------------------------------------------
(* Feed deletions and restarts *)

LEMMA FeedRemovedGood ==
  ASSUME Inv, NEW i \in Intents, FeedRemoved(i), NEW j \in Intents
  PROVE  Good(j)'
  <1>1. Good(j) /\ StoresTypeOK
    BY DEF Inv, Types, TypeOK
  <1>2. /\ UNCHANGED <<rows, points, cache, born, req, strayed, failed>>
        /\ rows[i] # Nothing /\ rows[i].enabled
        /\ jobs' = Registered(jobs, i, rows[i])
        /\ tainted' = IF InFlight(i) = {} THEN tainted ELSE tainted \cup {i}
    BY DEF FeedRemoved, Exists
  <1>3. /\ j # i => jobs'[j] = jobs[j] /\ (j \in tainted' <=> j \in tainted)
        /\ jobs'[i] = IF IsEvent(rows[i].schedule) THEN jobs[i] ELSE rows[i].schedule
    BY <1>1, <1>2 DEF Registered, StoresTypeOK
  <1>4. j \in tainted => j \in tainted'
    BY <1>2
  <1>5. InFlight(j)' = InFlight(j)
    BY <1>2 DEF InFlight
  <1>6. i \in born
    BY <1>2 DEF Inv, Good, Unborn
  <1>7. Unborn(j)' /\ ModeFixed(j)'
    BY <1>1, <1>2, <1>3, <1>5, <1>6 DEF Good, Unborn, ModeFixed, Exists
  <1>8. RowInv(j)'
    BY <1>1, <1>2, <1>4, <1>5 DEF Good, RowInv, InStep, Alone
  <1>9. FollowInv(j)'
    <2>1. CASE j # i
      BY <1>1, <1>2, <1>3, <1>5, <2>1 DEF Good, FollowInv, Follow, Quiet
    <2>2. CASE j = i /\ InFlight(i) = {}
      BY <1>1, <1>2, <1>3, <1>5, <2>2
         DEF Good, FollowInv, Follow, Quiet, JobFits
    <2>3. CASE j = i /\ InFlight(i) # {}
      BY <1>2, <1>5, <2>3 DEF FollowInv, Follow, Quiet
    <2> QED
      BY <2>1, <2>2, <2>3
  <1>10. PointInv(j)'
    BY <1>1, <1>2, <1>5 DEF Good, PointInv, Quiet
  <1> QED
    BY <1>7, <1>8, <1>9, <1>10 DEF Good

LEMMA CrashGood ==
  ASSUME Inv, Crash, NEW i \in Intents
  PROVE  Good(i)'
  <1>1. Good(i) /\ StoresTypeOK
    BY DEF Inv, Types, TypeOK
  <1>2. UNCHANGED <<rows, points, born, failed>>
    BY DEF Crash
  <1>3. InFlight(i)' = {}
    BY NothingAssumption DEF Crash, InFlight, Idle
  <1>4. /\ jobs'[i] = IF /\ rows[i] # Nothing /\ rows[i].enabled
                         /\ ~IsEvent(rows[i].schedule) /\ points[i] # Nothing
                      THEN rows[i].schedule ELSE Nothing
        /\ cache'[i] = IF /\ rows[i] # Nothing /\ rows[i].enabled
                          /\ IsEvent(rows[i].schedule) /\ points[i] # Nothing
                       THEN Entry(points[i], rows[i]) ELSE Nothing
    BY DEF Crash, JobsAtStartup, CacheAtStartup, Exists
  <1>5. i \in tainted' <=> rows[i] # Nothing /\ rows[i].enabled /\ points[i] = Nothing
    BY DEF Crash, Exists
  <1>6. i \notin strayed' => i \notin strayed /\ InFlight(i) = {}
    BY DEF Crash
  <1>7. rows[i] # Nothing /\ points[i] # Nothing =>
          /\ Entry(points[i], rows[i]) # Nothing
          /\ Entry(points[i], rows[i]).main = points[i].main
          /\ Entry(points[i], rows[i]).alt = points[i].alt
          /\ Entry(points[i], rows[i]).schedule = rows[i].schedule
    <2>1. ASSUME rows[i] # Nothing, points[i] # Nothing
          PROVE  points[i].main \in Texts /\ points[i].alt \in SubTexts /\ rows[i] \in Row
      BY <1>1, <2>1 DEF StoresTypeOK, Point
    <2> QED
      BY <2>1, EntryTyped, RecordsAssumption
  <1>8. Unborn(i)'
    <2>1. ASSUME i \notin born
          PROVE  /\ rows[i] = Nothing /\ points[i] = Nothing
                 /\ i \notin strayed /\ InFlight(i) = {}
      BY <1>1, <2>1 DEF Good, Unborn
    <2>2. i \notin born => i \notin strayed'
      BY <2>1 DEF Crash
    <2> QED
      BY <1>2, <1>3, <1>4, <1>5, <2>1, <2>2 DEF Unborn
  <1>9. ModeFixed(i)'
    BY <1>2, <1>3, <1>4 DEF ModeFixed, Exists
  <1>10. RowInv(i)'
    BY <1>3 DEF RowInv, Alone
  <1>11. i \notin strayed' => PointFits(points[i], rows[i], failed[i])
    BY <1>1, <1>6 DEF Good, PointInv, Quiet
  <1>12. FollowInv(i)'
    <2>1. i \notin tainted' => JobFits(jobs'[i], rows[i]) /\ EntryFits(cache'[i], rows[i])
      BY <1>4, <1>5, <1>7 DEF JobFits, EntryFits
    <2>2. i \notin strayed' => EntryClose(cache'[i], rows[i], failed[i])
      BY <1>4, <1>7, <1>11 DEF EntryClose, PointFits, Close
    <2> QED
      BY <1>2, <1>3, <2>1, <2>2 DEF FollowInv, Follow
  <1>13. PointInv(i)'
    BY <1>2, <1>3, <1>11 DEF PointInv
  <1> QED
    BY <1>8, <1>9, <1>10, <1>12, <1>13 DEF Good

-----------------------------------------------------------------------------
(* PUT: vectors *)

(* A closer look at a PUT past its re-read: its new row. *)
LEMMA NewRow ==
  ASSUME NEW q, q.body \in Changes, q.old \in Row, q.new \in Row,
         q.new = Updated(q.old, q.old, q.body)
  PROVE  /\ q.new.main = Given(q.body.main, q.old.main)
         /\ q.new.alt = Given(q.body.alt, q.old.alt)
         /\ q.new.enabled = Given(q.body.enabled, q.old.enabled)
         /\ q.new.schedule = Given(q.body.schedule, q.old.schedule)
  BY DEF Updated

LEMMA NoChangeApart == \A t \in SubTexts : t # NoChange
  BY BodiesAssumption DEF SubTexts

LEMMA CloseGrows ==
  ASSUME NEW v, NEW row, NEW small, NEW large, small \subseteq large
  PROVE  /\ Close(v, row, small) => Close(v, row, large)
         /\ PointFits(v, row, small) => PointFits(v, row, large)
  BY DEF Close, CloseMain, CloseAlt, PointFits

(* Vectors that were close to the old row, and are not embedded anew, are  *)
(* close to the new one once the slot that the row lost is gone: for the   *)
(* body that is put the text is the one asked for.                         *)
LEMMA MainFollows ==
  ASSUME NEW q, q.body \in Changes, q.old \in Row, q.new \in Row,
         q.new = Updated(q.old, q.old, q.body), ~Reembeds(q),
         NEW t \in Texts, NEW bodies, CloseMain(t, q.old, bodies)
  PROVE  CloseMain(t, q.new, bodies \ {q.body})
  <1>1. q.new.main = q.old.main
    BY NewRow DEF Reembeds, Differs, Given
  <1>2. q.body.main = t => t = q.new.main
    BY NewRow, NoChangeApart DEF Given, SubTexts
  <1> QED
    BY <1>1, <1>2 DEF CloseMain

LEMMA AltFollows ==
  ASSUME NEW q, q.body \in Changes, q.old \in Row, q.new \in Row,
         q.new = Updated(q.old, q.old, q.body), ~Reembeds(q) \/ q.new.alt = Nothing,
         NEW a \in SubTexts, NEW bodies, CloseAlt(a, q.old, bodies),
         NEW b, b = IF q.old.alt # Nothing /\ q.new.alt = Nothing THEN Nothing ELSE a
  PROVE  CloseAlt(b, q.new, bodies \ {q.body})
  <1>1. q.body.alt = a => a = q.new.alt
    BY NewRow, NoChangeApart DEF Given
  <1>2. CASE q.old.alt # Nothing /\ q.new.alt = Nothing
    BY <1>2 DEF CloseAlt
  <1>3. CASE ~(q.old.alt # Nothing /\ q.new.alt = Nothing)
    <2>1. q.new.alt = q.old.alt
      BY <1>3, NewRow DEF Reembeds, Differs, Given
    <2> QED
      BY <1>1, <1>3, <2>1 DEF CloseAlt
  <1> QED
    BY <1>2, <1>3

(* Vectors of the new row are those of the old one or of the body.         *)
LEMMA MainReturns ==
  ASSUME NEW q, q.body \in Changes, q.old \in Row, q.new \in Row,
         q.new = Updated(q.old, q.old, q.body),
         NEW t, NEW bodies, CloseMain(t, q.new, bodies) \/ CloseMain(t, q.old, bodies)
  PROVE  CloseMain(t, q.old, bodies \cup {q.body})
  BY NewRow DEF CloseMain, Given

LEMMA AltReturns ==
  ASSUME NEW q, q.body \in Changes, q.old \in Row, q.new \in Row,
         q.new = Updated(q.old, q.old, q.body),
         NEW a, NEW bodies, CloseAlt(a, q.new, bodies) \/ CloseAlt(a, q.old, bodies)
  PROVE  CloseAlt(a, q.old, bodies \cup {q.body})
  BY NewRow DEF CloseAlt, Given

(* Upsert, trim and rollback, seen from the point. *)
LEMMA PointUpserted ==
  ASSUME NEW q, q.old \in Row, q.new \in Row, Reembeds(q), NEW bodies,
         NEW p \in Point \cup {Nothing}, PointFits(p, q.old, bodies)
  PROVE  Midway(Upserted(p, q.new), q, bodies)
  <1>1. p \in Point /\ CloseAlt(p.alt, q.old, bodies)
    BY RecordsAssumption DEF PointFits, Close
  <1>2. Upserted(p, q.new) \in Point /\ Upserted(p, q.new) # Nothing
    BY VectorsTyped, RecordsAssumption
  <1>3. Upserted(p, q.new).main = q.new.main
    BY <1>1 DEF Upserted, Vectors, Point
  <1>4. Upserted(p, q.new).alt = IF q.new.alt = Nothing THEN p.alt ELSE q.new.alt
    BY <1>1, RecordsAssumption DEF Upserted, Vectors, Point
  <1> QED
    BY <1>1, <1>2, <1>3, <1>4 DEF Midway

LEMMA PointTrimmed ==
  ASSUME NEW q, q.body \in Changes, q.old \in Row, q.new \in Row,
         q.new = Updated(q.old, q.old, q.body), NEW bodies,
         NEW p \in Point, Midway(p, q, bodies),
         NEW s \in Point, s.main = p.main,
         s.alt = IF q.old.alt # Nothing /\ q.new.alt = Nothing THEN Nothing ELSE p.alt
  PROVE  PointFits(s, q.new, bodies \ {q.body})
  <1>1. p.main \in Texts /\ p.alt \in SubTexts /\ s # Nothing /\ q.new # Nothing
    BY RecordsAssumption DEF Point
  <1>2. CloseMain(s.main, q.new, bodies \ {q.body})
    <2>1. CASE Reembeds(q)
      BY <2>1 DEF Midway, CloseMain
    <2>2. CASE ~Reembeds(q)
      BY <1>1, <2>2, MainFollows DEF Midway
    <2> QED
      BY <2>1, <2>2
  <1>3. CloseAlt(s.alt, q.new, bodies \ {q.body})
    <2>1. CASE Reembeds(q) /\ q.new.alt # Nothing
      BY <2>1 DEF Midway, CloseAlt
    <2>2. CASE ~(Reembeds(q) /\ q.new.alt # Nothing)
      BY <1>1, <2>2, AltFollows DEF Midway
    <2> QED
      BY <2>1, <2>2
  <1> QED
    BY <1>1, <1>2, <1>3 DEF PointFits, Close

LEMMA PointRestored ==
  ASSUME NEW q, q.body \in Changes, q.old \in Row, q.new \in Row,
         q.new = Updated(q.old, q.old, q.body), NEW bodies, NEW p,
         \/ PointFits(p, q.old, bodies)
         \/ Midway(p, q, bodies)
         \/ PointFits(p, q.new, bodies \ {q.body})
  PROVE  PointFits(p, q.old, bodies \cup {q.body})
  <1>1. q.old # Nothing /\ q.new # Nothing
    BY Fields
  <1>2. CASE PointFits(p, q.old, bodies)
    BY <1>2, CloseGrows
  <1>3. CASE Midway(p, q, bodies)
    <2>1. CloseMain(p.main, q.new, bodies) \/ CloseMain(p.main, q.old, bodies)
      BY <1>3 DEF Midway, CloseMain
    <2>2. CloseAlt(p.alt, q.new, bodies) \/ CloseAlt(p.alt, q.old, bodies)
      BY <1>3 DEF Midway, CloseAlt
    <2> QED
      BY <1>1, <1>3, <2>1, <2>2, MainReturns, AltReturns DEF Midway, PointFits, Close
  <1>4. CASE PointFits(p, q.new, bodies \ {q.body})
    <2>1. p # Nothing /\ Close(p, q.new, bodies)
      BY <1>1, <1>4, CloseGrows DEF PointFits
    <2> QED
      BY <1>1, <2>1, MainReturns, AltReturns DEF PointFits, Close
  <1> QED
    BY <1>2, <1>3, <1>4

-----------------------------------------------------------------------------
(* PUT: its steps *)

(* What holds of a PUT. *)
LEMMA AtPut ==
  ASSUME Inv, NEW r \in Requests, NEW q, q = req[r], NEW i, i = q.intent, q.op = "put"
  PROVE  /\ q \in RequestRecords /\ i \in Intents /\ i \in born
         /\ q.pc \in PutPcs /\ q.body \in Changes /\ q.old \in Row
         /\ q.pc \notin {"write", "reread"} => q.new \in Row
         /\ q.pc = "retrieve" => IsEvent(q.new.schedule) /\ q.new.enabled /\ ~Reembeds(q)
         /\ StoresTypeOK /\ ApiTypeOK
         /\ rows[i] \in Row \cup {Nothing} /\ points[i] \in Point \cup {Nothing}
         /\ cache[i] \in CacheEntry \cup {Nothing}
         /\ rows[i] # Nothing => /\ cache[i] # Nothing => IsEvent(rows[i].schedule)
                                 /\ ModeOf(q, rows[i])
         /\ InStep(i) => RowStage(q, rows[i]) /\ Follow(i, q.old)
         /\ i \notin strayed => PointStage(q, points[i], failed[i])
         /\ NeedsReembed(r) = Reembeds(q)
  <1>1. /\ q \in RequestRecords /\ Shape(q)
        /\ i \in Intents /\ i \in born
        /\ rows[i] \in Row \cup {Nothing} /\ points[i] \in Point \cup {Nothing}
        /\ cache[i] \in CacheEntry \cup {Nothing}
        /\ rows[i] # Nothing => /\ cache[i] # Nothing => IsEvent(rows[i].schedule)
                                /\ ModeOf(q, rows[i])
        /\ InStep(i) => RowStage(q, rows[i]) /\ Follow(i, BaseOf(q))
        /\ i \notin strayed => PointStage(q, points[i], failed[i])
    BY AtIntent
  <1>2. BaseOf(q) = q.old
    BY DEF BaseOf
  <1>3. NeedsReembed(r) = Reembeds(q)
    BY DEF NeedsReembed, TextChanged, SubTextEmbeds, Reembeds
  <1>4. StoresTypeOK /\ ApiTypeOK
    BY DEF Inv, Types, TypeOK
  <1>5. /\ q.pc \in PutPcs /\ q.body \in Changes /\ q.old \in Row
        /\ q.pc \notin {"write", "reread"} => q.new \in Row
        /\ q.pc = "retrieve" => IsEvent(q.new.schedule) /\ q.new.enabled /\ ~Reembeds(q)
    BY <1>1 DEF Shape
  <1> QED
    BY <1>1, <1>2, <1>3, <1>4, <1>5

(* A PUT that goes on with the same row read. *)
LEMMA PutAt ==
  ASSUME NEW q \in RequestRecords, q.op = "put", NEW pc \in PutPcs,
         NEW n, n = [q EXCEPT !.pc = pc]
  PROVE  /\ n.intent = q.intent /\ n.op = "put" /\ n.pc = pc
         /\ n.body = q.body /\ n.old = q.old /\ n.new = q.new
         /\ BaseOf(n) = q.old /\ Reembeds(n) = Reembeds(q)
         /\ \A row : ModeOf(q, row) => ModeOf(n, row)
  <1>1. /\ n.intent = q.intent /\ n.op = "put" /\ n.pc = pc
        /\ n.body = q.body /\ n.old = q.old /\ n.new = q.new
    BY WithPc
  <1> QED
    BY <1>1 DEF BaseOf, Reembeds, ModeOf

LEMMA PutWriteGood ==
  ASSUME Inv, NEW r \in Requests, PutWrite(r)
  PROVE  \A j \in Intents : Good(j)'
  <1>1. PICK q : q = req[r]
    OBVIOUS
  <1>2. PICK i : i = q.intent
    OBVIOUS
  <1>3. q.op = "put" /\ q.pc = "write"
    BY <1>1 DEF PutWrite, At
  <1>4. /\ q \in RequestRecords /\ i \in Intents /\ i \in born
        /\ q.pc \in PutPcs /\ q.body \in Changes /\ q.old \in Row
        /\ q.pc \notin {"write", "reread"} => q.new \in Row
        /\ q.pc = "retrieve" => IsEvent(q.new.schedule) /\ q.new.enabled /\ ~Reembeds(q)
        /\ StoresTypeOK /\ ApiTypeOK
        /\ rows[i] \in Row \cup {Nothing} /\ points[i] \in Point \cup {Nothing}
        /\ cache[i] \in CacheEntry \cup {Nothing}
        /\ rows[i] # Nothing => /\ cache[i] # Nothing => IsEvent(rows[i].schedule)
                                /\ ModeOf(q, rows[i])
        /\ InStep(i) => RowStage(q, rows[i]) /\ Follow(i, q.old)
        /\ i \notin strayed => PointStage(q, points[i], failed[i])
        /\ NeedsReembed(r) = Reembeds(q)
    BY <1>1, <1>2, <1>3, AtPut
  <1>5. PICK n : n = [q EXCEPT !.pc = "reread"]
    OBVIOUS
  <1>6. /\ n.intent = i /\ n.op = "put" /\ n.pc = "reread"
        /\ n.body = q.body /\ n.old = q.old /\ n.new = q.new
        /\ BaseOf(n) = q.old /\ Reembeds(n) = Reembeds(q)
        /\ \A row : ModeOf(q, row) => ModeOf(n, row)
    BY <1>2, <1>3, <1>4, <1>5, PutAt, PcsApart
  <1>7. /\ req' = [req EXCEPT ![r] = n]
        /\ UNCHANGED <<points, cache, jobs, born, tainted, strayed, failed>>
        /\ rows' = IF rows[i] # Nothing
                   THEN [rows EXCEPT ![i] = Updated(rows[i], q.old, q.body)] ELSE rows
    BY <1>1, <1>2, <1>5 DEF PutWrite, Goto, history, Exists
  <1>8. /\ Beside(i)
        /\ rows'[i] = IF rows[i] # Nothing THEN Updated(rows[i], q.old, q.body) ELSE Nothing
    BY <1>4, <1>7 DEF StoresTypeOK, Beside
  <1>9. rows[i] # Nothing =>
          Updated(rows[i], q.old, q.body).schedule = Given(q.body.schedule, q.old.schedule)
    BY DEF Updated
  <1>10. rows'[i] # Nothing =>
           /\ rows[i] # Nothing /\ SameMode(rows[i].schedule, rows'[i].schedule)
           /\ cache'[i] # Nothing => IsEvent(rows'[i].schedule)
           /\ ModeOf(n, rows'[i])
    <2>1. SUFFICES ASSUME rows'[i] # Nothing
                   PROVE  /\ SameMode(rows[i].schedule, rows'[i].schedule)
                          /\ cache'[i] # Nothing => IsEvent(rows'[i].schedule)
                          /\ ModeOf(n, rows'[i])
      BY <1>8
    <2>2. rows[i] # Nothing /\ rows'[i].schedule = Given(q.body.schedule, q.old.schedule)
      BY <1>8, <1>9, <2>1
    <2>3. SameMode(rows[i].schedule, rows'[i].schedule)
      BY <1>3, <1>4, <2>2 DEF ModeOf, SameMode, Given
    <2>4. ModeOf(n, rows[i])
      BY <1>4, <1>6, <2>2
    <2> QED
      BY <1>4, <1>7, <2>2, <2>3, <2>4 DEF ModeOf, SameMode
  <1>11. InStep(i) => rows[i] = q.old /\ Follow(i, q.old)
    BY <1>3, <1>4 DEF RowStage
  <1>12. InStep(i)' => RowStage(n, rows'[i]) /\ Follow(i, BaseOf(n))'
    <2>1. InStep(i)' => rows'[i] = Updated(q.old, q.old, q.body)
      BY <1>4, <1>7, <1>8, <1>11, Fields DEF InStep
    <2>2. InStep(i)' => RowStage(n, rows'[i])
      BY <1>6, <2>1 DEF RowStage
    <2>3. InStep(i)' => Follow(i, BaseOf(n))'
      BY <1>6, <1>7, <1>11 DEF InStep, Follow
    <2> QED
      BY <2>2, <2>3
  <1>13. i \notin strayed' => PointStage(n, points'[i], failed'[i])
    BY <1>3, <1>4, <1>6, <1>7 DEF PointStage
  <1> QED
    BY <1>1, <1>2, <1>4, <1>6, <1>7, <1>8, <1>10, <1>12, <1>13, Stays

LEMMA PutRereadGood ==
  ASSUME Inv, NEW r \in Requests, PutReread(r)
  PROVE  \A j \in Intents : Good(j)'
  <1>1. PICK q : q = req[r]
    OBVIOUS
  <1>2. PICK i : i = q.intent
    OBVIOUS
  <1>3. q.op = "put" /\ q.pc = "reread"
    BY <1>1 DEF PutReread, At
  <1>4. /\ q \in RequestRecords /\ i \in Intents /\ i \in born
        /\ q.pc \in PutPcs /\ q.body \in Changes /\ q.old \in Row
        /\ q.pc \notin {"write", "reread"} => q.new \in Row
        /\ q.pc = "retrieve" => IsEvent(q.new.schedule) /\ q.new.enabled /\ ~Reembeds(q)
        /\ StoresTypeOK /\ ApiTypeOK
        /\ rows[i] \in Row \cup {Nothing} /\ points[i] \in Point \cup {Nothing}
        /\ cache[i] \in CacheEntry \cup {Nothing}
        /\ rows[i] # Nothing => /\ cache[i] # Nothing => IsEvent(rows[i].schedule)
                                /\ ModeOf(q, rows[i])
        /\ InStep(i) => RowStage(q, rows[i]) /\ Follow(i, q.old)
        /\ i \notin strayed => PointStage(q, points[i], failed[i])
        /\ NeedsReembed(r) = Reembeds(q)
    BY <1>1, <1>2, <1>3, AtPut
  <1>5. /\ rows[i] # Nothing /\ UNCHANGED <<storeVars, tainted, strayed, failed>>
        /\ req' = [req EXCEPT ![r].new = rows[i],
                              ![r].pc = IF Reembeds(q) THEN "upsert" ELSE "trim"]
    BY <1>1, <1>2, <1>4 DEF PutReread, Exists, history
  <1>6. PICK n : n = [q EXCEPT !.new = rows[i],
                              !.pc = IF Reembeds(q) THEN "upsert" ELSE "trim"]
    OBVIOUS
  <1>7. /\ n.intent = i /\ n.op = "put" /\ n.pc = (IF Reembeds(q) THEN "upsert" ELSE "trim")
        /\ n.body = q.body /\ n.old = q.old /\ n.new = rows[i]
    BY <1>2, <1>3, <1>4, <1>6 DEF RequestRecords
  <1>8. Reembeds(n) = Reembeds(q) /\ BaseOf(n) = q.old
    BY <1>7 DEF Reembeds, BaseOf
  <1>9. req' = [req EXCEPT ![r] = n] /\ Beside(i) /\ UNCHANGED <<rows, points, cache, jobs, born>>
    BY <1>1, <1>5, <1>6 DEF Beside, storeVars
  <1>10. ModeOf(n, rows[i])
    BY <1>3, <1>4, <1>5, <1>7 DEF ModeOf, SameMode
  <1>11. InStep(i)' => RowStage(n, rows'[i]) /\ Follow(i, BaseOf(n))'
    <2>1. InStep(i) => rows[i] = Updated(q.old, q.old, q.body) /\ Follow(i, q.old)
      BY <1>3, <1>4 DEF RowStage
    <2>2. InStep(i)' => RowStage(n, rows'[i])
      BY <1>5, <1>7, <1>8, <1>9, <2>1 DEF InStep, RowStage
    <2>3. InStep(i)' => Follow(i, BaseOf(n))'
      BY <1>5, <1>8, <1>9, <2>1 DEF InStep, Follow
    <2> QED
      BY <2>2, <2>3
  <1>12. i \notin strayed => PointFits(points[i], q.old, failed[i])
    BY <1>3, <1>4 DEF PointStage
  <1>13. i \notin strayed' => PointStage(n, points'[i], failed'[i])
    <2>1. q.old # Nothing
      BY <1>4, Fields
    <2> QED
      BY <1>5, <1>7, <1>8, <1>9, <1>12, <2>1 DEF PointStage, Midway, PointFits, Close
  <1> QED
    BY <1>1, <1>2, <1>4, <1>5, <1>7, <1>9, <1>10, <1>11, <1>13, Stays DEF SameMode

LEMMA PutUpsertGood ==
  ASSUME Inv, NEW r \in Requests, PutUpsert(r)
  PROVE  \A j \in Intents : Good(j)'
  <1>1. PICK q : q = req[r]
    OBVIOUS
  <1>2. PICK i : i = q.intent
    OBVIOUS
  <1>3. q.op = "put" /\ q.pc = "upsert"
    BY <1>1 DEF PutUpsert, At
  <1>4. /\ q \in RequestRecords /\ i \in Intents /\ i \in born
        /\ q.pc \in PutPcs /\ q.body \in Changes /\ q.old \in Row
        /\ q.pc \notin {"write", "reread"} => q.new \in Row
        /\ q.pc = "retrieve" => IsEvent(q.new.schedule) /\ q.new.enabled /\ ~Reembeds(q)
        /\ StoresTypeOK /\ ApiTypeOK
        /\ rows[i] \in Row \cup {Nothing} /\ points[i] \in Point \cup {Nothing}
        /\ cache[i] \in CacheEntry \cup {Nothing}
        /\ rows[i] # Nothing => /\ cache[i] # Nothing => IsEvent(rows[i].schedule)
                                /\ ModeOf(q, rows[i])
        /\ InStep(i) => RowStage(q, rows[i]) /\ Follow(i, q.old)
        /\ i \notin strayed => PointStage(q, points[i], failed[i])
        /\ NeedsReembed(r) = Reembeds(q)
    BY <1>1, <1>2, <1>3, AtPut
  <1>5. PICK n : n = [q EXCEPT !.pc = "trim"]
    OBVIOUS
  <1>6. /\ n.intent = i /\ n.op = "put" /\ n.pc = "trim"
        /\ n.body = q.body /\ n.old = q.old /\ n.new = q.new
        /\ BaseOf(n) = q.old /\ Reembeds(n) = Reembeds(q)
        /\ \A row : ModeOf(q, row) => ModeOf(n, row)
    BY <1>2, <1>3, <1>4, <1>5, PutAt, PcsApart
  <1>7. /\ req' = [req EXCEPT ![r] = n]
        /\ UNCHANGED <<rows, cache, jobs, born, tainted, strayed, failed>>
        /\ points' = [points EXCEPT ![i] = Upserted(points[i], q.new)]
    BY <1>1, <1>2, <1>5 DEF PutUpsert, Goto, history, storeVars
  <1>8. Beside(i) /\ points'[i] = Upserted(points[i], q.new)
    BY <1>4, <1>7 DEF StoresTypeOK, Beside
  <1>9. rows'[i] # Nothing =>
           /\ rows[i] # Nothing /\ SameMode(rows[i].schedule, rows'[i].schedule)
           /\ cache'[i] # Nothing => IsEvent(rows'[i].schedule)
           /\ ModeOf(n, rows'[i])
    BY <1>4, <1>6, <1>7 DEF SameMode
  <1>10. InStep(i) => /\ q.new = rows[i] /\ q.new = Updated(q.old, q.old, q.body)
                    /\ Follow(i, q.old)
    BY <1>3, <1>4 DEF RowStage
  <1>11. InStep(i)' => RowStage(n, rows'[i]) /\ Follow(i, BaseOf(n))'
    <2>1. InStep(i)' => RowStage(n, rows'[i])
      BY <1>6, <1>7, <1>10 DEF InStep, RowStage
    <2>2. InStep(i)' => Follow(i, BaseOf(n))'
      BY <1>6, <1>7, <1>10 DEF InStep, Follow
    <2> QED
      BY <2>1, <2>2
  <1>12. i \notin strayed' => PointStage(n, points'[i], failed'[i])
    <2>1. SUFFICES ASSUME i \notin strayed
                   PROVE  PointStage(n, points'[i], failed[i])
      BY <1>7
    <2>2. PointFits(points[i], q.old, failed[i]) /\ Reembeds(q) /\ q.new \in Row
      BY <1>3, <1>4, <2>1 DEF PointStage, RowStage, InStep
    <2>3. Midway(Upserted(points[i], q.new), q, failed[i])
      BY <1>4, <2>2, PointUpserted
    <2> QED
      BY <1>6, <1>8, <2>3 DEF PointStage, Midway
  <1> QED
    BY <1>1, <1>2, <1>4, <1>6, <1>7, <1>8, <1>9, <1>11, <1>12, Stays

LEMMA PutTrimGood ==
  ASSUME Inv, NEW r \in Requests, PutTrim(r)
  PROVE  \A j \in Intents : Good(j)'
  <1>1. PICK q : q = req[r]
    OBVIOUS
  <1>2. PICK i : i = q.intent
    OBVIOUS
  <1>3. q.op = "put" /\ q.pc = "trim"
    BY <1>1 DEF PutTrim, At
  <1>4. /\ q \in RequestRecords /\ i \in Intents /\ i \in born
        /\ q.pc \in PutPcs /\ q.body \in Changes /\ q.old \in Row
        /\ q.pc \notin {"write", "reread"} => q.new \in Row
        /\ q.pc = "retrieve" => IsEvent(q.new.schedule) /\ q.new.enabled /\ ~Reembeds(q)
        /\ StoresTypeOK /\ ApiTypeOK
        /\ rows[i] \in Row \cup {Nothing} /\ points[i] \in Point \cup {Nothing}
        /\ cache[i] \in CacheEntry \cup {Nothing}
        /\ rows[i] # Nothing => /\ cache[i] # Nothing => IsEvent(rows[i].schedule)
                                /\ ModeOf(q, rows[i])
        /\ InStep(i) => RowStage(q, rows[i]) /\ Follow(i, q.old)
        /\ i \notin strayed => PointStage(q, points[i], failed[i])
        /\ NeedsReembed(r) = Reembeds(q)
    BY <1>1, <1>2, <1>3, AtPut
  <1>5. PICK n : n = [q EXCEPT !.pc = "done"]
    OBVIOUS
  <1>6. /\ n.intent = i /\ n.op = "put" /\ n.pc = "done"
        /\ n.body = q.body /\ n.old = q.old /\ n.new = q.new
        /\ BaseOf(n) = q.old /\ Reembeds(n) = Reembeds(q)
        /\ \A row : ModeOf(q, row) => ModeOf(n, row)
    BY <1>2, <1>3, <1>4, <1>5, PutAt, PcsApart
  <1>7. /\ req' = [req EXCEPT ![r] = n]
        /\ UNCHANGED <<rows, cache, jobs, born, tainted, strayed, failed>>
        /\ points' = IF points[i] = Nothing THEN points
                     ELSE [points EXCEPT ![i] = Trimmed(points[i], r)]
    BY <1>1, <1>2, <1>5 DEF PutTrim, Goto, history, storeVars
  <1>8. /\ Beside(i)
        /\ points[i] # Nothing => points'[i] = Trimmed(points[i], r)
    BY <1>4, <1>7 DEF StoresTypeOK, Beside
  <1>9. rows'[i] # Nothing =>
           /\ rows[i] # Nothing /\ SameMode(rows[i].schedule, rows'[i].schedule)
           /\ cache'[i] # Nothing => IsEvent(rows'[i].schedule)
           /\ ModeOf(n, rows'[i])
    BY <1>4, <1>6, <1>7 DEF SameMode
  <1>10. InStep(i) => /\ q.new = rows[i] /\ q.new = Updated(q.old, q.old, q.body)
                    /\ Follow(i, q.old)
    BY <1>3, <1>4 DEF RowStage
  <1>11. InStep(i)' => RowStage(n, rows'[i]) /\ Follow(i, BaseOf(n))'
    <2>1. InStep(i)' => RowStage(n, rows'[i])
      BY <1>6, <1>7, <1>10 DEF InStep, RowStage
    <2>2. InStep(i)' => Follow(i, BaseOf(n))'
      BY <1>6, <1>7, <1>10 DEF InStep, Follow
    <2> QED
      BY <2>1, <2>2
  <1>12. i \notin strayed' => PointStage(n, points'[i], failed'[i])
    <2>1. SUFFICES ASSUME i \notin strayed
                   PROVE  PointFits(points'[i], q.new, failed[i] \ {q.body})
      BY <1>6, <1>7 DEF PointStage
    <2>2. /\ Midway(points[i], q, failed[i]) /\ q.new \in Row
          /\ q.new = Updated(q.old, q.old, q.body)
      BY <1>3, <1>4, <1>10, <2>1 DEF PointStage, InStep
    <2>3. points[i] \in Point /\ points'[i] = Trimmed(points[i], r)
      BY <1>4, <1>8, <2>2 DEF Midway
    <2>4. /\ points'[i] \in Point /\ points'[i].main = points[i].main
          /\ points'[i].alt = IF q.old.alt # Nothing /\ q.new.alt = Nothing THEN Nothing
                              ELSE points[i].alt
      BY <1>1, <2>3, TrimmedTyped DEF RemovesSlot
    <2>5. \A s \in Point :
            /\ s.main = points[i].main
            /\ s.alt = IF q.old.alt # Nothing /\ q.new.alt = Nothing THEN Nothing
                       ELSE points[i].alt
            => PointFits(s, q.new, failed[i] \ {q.body})
      BY <1>4, <2>2, <2>3, PointTrimmed
    <2> QED
      BY <2>4, <2>5
  <1> QED
    BY <1>1, <1>2, <1>4, <1>6, <1>7, <1>8, <1>9, <1>11, <1>12, Stays

LEMMA PutRaisesGood ==
  ASSUME Inv, NEW r \in Requests, PutRaises(r)
  PROVE  \A j \in Intents : Good(j)'
  <1>1. PICK q : q = req[r]
    OBVIOUS
  <1>2. PICK i : i = q.intent
    OBVIOUS
  <1>3. q.op = "put" /\ q.pc \in {"upsert", "trim", "done"}
    BY <1>1 DEF PutRaises, At
  <1>4. /\ q \in RequestRecords /\ i \in Intents /\ i \in born
        /\ q.pc \in PutPcs /\ q.body \in Changes /\ q.old \in Row
        /\ q.pc \notin {"write", "reread"} => q.new \in Row
        /\ q.pc = "retrieve" => IsEvent(q.new.schedule) /\ q.new.enabled /\ ~Reembeds(q)
        /\ StoresTypeOK /\ ApiTypeOK
        /\ rows[i] \in Row \cup {Nothing} /\ points[i] \in Point \cup {Nothing}
        /\ cache[i] \in CacheEntry \cup {Nothing}
        /\ rows[i] # Nothing => /\ cache[i] # Nothing => IsEvent(rows[i].schedule)
                                /\ ModeOf(q, rows[i])
        /\ InStep(i) => RowStage(q, rows[i]) /\ Follow(i, q.old)
        /\ i \notin strayed => PointStage(q, points[i], failed[i])
        /\ NeedsReembed(r) = Reembeds(q)
    BY <1>1, <1>2, <1>3, AtPut
  <1>5. PICK n : n = [q EXCEPT !.pc = "restore"]
    OBVIOUS
  <1>6. /\ n.intent = i /\ n.op = "put" /\ n.pc = "restore"
        /\ n.body = q.body /\ n.old = q.old /\ n.new = q.new
        /\ BaseOf(n) = q.old /\ Reembeds(n) = Reembeds(q)
        /\ \A row : ModeOf(q, row) => ModeOf(n, row)
    BY <1>2, <1>3, <1>4, <1>5, PutAt, PcsApart
  <1>7. /\ req' = [req EXCEPT ![r] = n]
        /\ UNCHANGED <<rows, cache, jobs, born, tainted, strayed, failed>>
        /\ points' = points
    BY <1>1, <1>2, <1>5 DEF PutRaises, Goto, history, storeVars
  <1>8. Beside(i)
    BY <1>7 DEF Beside
  <1>9. rows'[i] # Nothing =>
           /\ rows[i] # Nothing /\ SameMode(rows[i].schedule, rows'[i].schedule)
           /\ cache'[i] # Nothing => IsEvent(rows'[i].schedule)
           /\ ModeOf(n, rows'[i])
    BY <1>4, <1>6, <1>7 DEF SameMode
  <1>10. InStep(i) => /\ q.new = rows[i] /\ q.new = Updated(q.old, q.old, q.body)
                    /\ Follow(i, q.old)
    BY <1>3, <1>4 DEF RowStage
  <1>11. InStep(i)' => RowStage(n, rows'[i]) /\ Follow(i, BaseOf(n))'
    <2>1. InStep(i)' => RowStage(n, rows'[i])
      BY <1>6, <1>7, <1>10 DEF InStep, RowStage
    <2>2. InStep(i)' => Follow(i, BaseOf(n))'
      BY <1>6, <1>7, <1>10 DEF InStep, Follow
    <2> QED
      BY <2>1, <2>2
  <1>12. i \notin strayed' => PointStage(n, points'[i], failed'[i])
    <2>1. SUFFICES ASSUME i \notin strayed
                   PROVE  PointFits(points[i], q.old, failed[i] \cup {q.body})
      BY <1>6, <1>7 DEF PointStage
    <2>2. /\ q.new \in Row /\ q.new = Updated(q.old, q.old, q.body)
          /\ \/ PointFits(points[i], q.old, failed[i])
             \/ Midway(points[i], q, failed[i])
             \/ PointFits(points[i], q.new, failed[i] \ {q.body})
      BY <1>3, <1>4, <1>10, <2>1 DEF PointStage, InStep
    <2> QED
      BY <1>4, <2>2, PointRestored
  <1> QED
    BY <1>1, <1>2, <1>4, <1>6, <1>7, <1>8, <1>9, <1>11, <1>12, Stays

LEMMA PutMissesCacheGood ==
  ASSUME Inv, NEW r \in Requests, PutMissesCache(r)
  PROVE  \A j \in Intents : Good(j)'
  <1>1. PICK q : q = req[r]
    OBVIOUS
  <1>2. PICK i : i = q.intent
    OBVIOUS
  <1>3. q.op = "put" /\ q.pc = "done"
    BY <1>1 DEF PutMissesCache, At
  <1>4. /\ q \in RequestRecords /\ i \in Intents /\ i \in born
        /\ q.pc \in PutPcs /\ q.body \in Changes /\ q.old \in Row
        /\ q.pc \notin {"write", "reread"} => q.new \in Row
        /\ q.pc = "retrieve" => IsEvent(q.new.schedule) /\ q.new.enabled /\ ~Reembeds(q)
        /\ StoresTypeOK /\ ApiTypeOK
        /\ rows[i] \in Row \cup {Nothing} /\ points[i] \in Point \cup {Nothing}
        /\ cache[i] \in CacheEntry \cup {Nothing}
        /\ rows[i] # Nothing => /\ cache[i] # Nothing => IsEvent(rows[i].schedule)
                                /\ ModeOf(q, rows[i])
        /\ InStep(i) => RowStage(q, rows[i]) /\ Follow(i, q.old)
        /\ i \notin strayed => PointStage(q, points[i], failed[i])
        /\ NeedsReembed(r) = Reembeds(q)
    BY <1>1, <1>2, <1>3, AtPut
  <1>5. PICK n : n = [q EXCEPT !.pc = "retrieve"]
    OBVIOUS
  <1>6. /\ n.intent = i /\ n.op = "put" /\ n.pc = "retrieve"
        /\ n.body = q.body /\ n.old = q.old /\ n.new = q.new
        /\ BaseOf(n) = q.old /\ Reembeds(n) = Reembeds(q)
        /\ \A row : ModeOf(q, row) => ModeOf(n, row)
    BY <1>2, <1>3, <1>4, <1>5, PutAt, PcsApart
  <1>7. /\ req' = [req EXCEPT ![r] = n]
        /\ UNCHANGED <<rows, cache, jobs, born, tainted, strayed, failed>>
        /\ points' = points
    BY <1>1, <1>2, <1>5 DEF PutMissesCache, Goto, history, storeVars
  <1>8. Beside(i)
    BY <1>7 DEF Beside
  <1>9. rows'[i] # Nothing =>
           /\ rows[i] # Nothing /\ SameMode(rows[i].schedule, rows'[i].schedule)
           /\ cache'[i] # Nothing => IsEvent(rows'[i].schedule)
           /\ ModeOf(n, rows'[i])
    BY <1>4, <1>6, <1>7 DEF SameMode
  <1>10. InStep(i) => /\ q.new = rows[i] /\ q.new = Updated(q.old, q.old, q.body)
                    /\ Follow(i, q.old)
    BY <1>3, <1>4 DEF RowStage
  <1>11. InStep(i)' => RowStage(n, rows'[i]) /\ Follow(i, BaseOf(n))'
    <2>1. InStep(i)' => RowStage(n, rows'[i])
      BY <1>6, <1>7, <1>10 DEF InStep, RowStage
    <2>2. InStep(i)' => Follow(i, BaseOf(n))'
      BY <1>6, <1>7, <1>10 DEF InStep, Follow
    <2> QED
      BY <2>1, <2>2
  <1>12. i \notin strayed' => PointStage(n, points'[i], failed'[i])
    BY <1>3, <1>4, <1>6, <1>7 DEF PointStage
  <1> QED
    BY <1>1, <1>2, <1>4, <1>6, <1>7, <1>8, <1>9, <1>11, <1>12, Stays

LEMMA PutWriteFailsGood ==
  ASSUME Inv, NEW r \in Requests, PutWriteFails(r)
  PROVE  \A j \in Intents : Good(j)'
  <1>1. PICK q : q = req[r]
    OBVIOUS
  <1>2. PICK i : i = q.intent
    OBVIOUS
  <1>3. q.op = "put" /\ q.pc = "write"
    BY <1>1 DEF PutWriteFails, At
  <1>4. /\ q \in RequestRecords /\ i \in Intents /\ i \in born
        /\ q.pc \in PutPcs /\ q.body \in Changes /\ q.old \in Row
        /\ q.pc \notin {"write", "reread"} => q.new \in Row
        /\ q.pc = "retrieve" => IsEvent(q.new.schedule) /\ q.new.enabled /\ ~Reembeds(q)
        /\ StoresTypeOK /\ ApiTypeOK
        /\ rows[i] \in Row \cup {Nothing} /\ points[i] \in Point \cup {Nothing}
        /\ cache[i] \in CacheEntry \cup {Nothing}
        /\ rows[i] # Nothing => /\ cache[i] # Nothing => IsEvent(rows[i].schedule)
                                /\ ModeOf(q, rows[i])
        /\ InStep(i) => RowStage(q, rows[i]) /\ Follow(i, q.old)
        /\ i \notin strayed => PointStage(q, points[i], failed[i])
        /\ NeedsReembed(r) = Reembeds(q)
    BY <1>1, <1>2, <1>3, AtPut
  <1>5. /\ req' = [req EXCEPT ![r] = Idle]
        /\ UNCHANGED <<rows, points, cache, jobs, born, failed>>
        /\ tainted' = tainted /\ strayed' = strayed
    BY DEF PutWriteFails, Fail, Answer, storeVars
  <1>6. InStep(i) => rows[i] = q.old /\ Follow(i, q.old)
    BY <1>3, <1>4 DEF RowStage
  <1>7. InStep(i)' => Follow(i, rows[i])'
    BY <1>5, <1>6 DEF InStep, Follow
  <1>8. i \notin strayed' => PointFits(points'[i], rows'[i], failed'[i])
    BY <1>3, <1>4, <1>5, <1>6 DEF PointStage, InStep
  <1>9. Beside(i)
    BY <1>5 DEF Beside
  <1>10. rows'[i] # Nothing =>
           /\ rows[i] # Nothing /\ SameMode(rows[i].schedule, rows'[i].schedule)
           /\ cache'[i] # Nothing => IsEvent(rows'[i].schedule)
    BY <1>4, <1>5 DEF SameMode
  <1> QED
    BY <1>1, <1>2, <1>4, <1>5, <1>7, <1>8, <1>9, <1>10, Leaves

LEMMA PutVanishedGood ==
  ASSUME Inv, NEW r \in Requests, PutVanished(r)
  PROVE  \A j \in Intents : Good(j)'
  <1>1. PICK q : q = req[r]
    OBVIOUS
  <1>2. PICK i : i = q.intent
    OBVIOUS
  <1>3. q.op = "put" /\ q.pc = "reread"
    BY <1>1 DEF PutVanished, At
  <1>4. /\ q \in RequestRecords /\ i \in Intents /\ i \in born
        /\ q.pc \in PutPcs /\ q.body \in Changes /\ q.old \in Row
        /\ q.pc \notin {"write", "reread"} => q.new \in Row
        /\ q.pc = "retrieve" => IsEvent(q.new.schedule) /\ q.new.enabled /\ ~Reembeds(q)
        /\ StoresTypeOK /\ ApiTypeOK
        /\ rows[i] \in Row \cup {Nothing} /\ points[i] \in Point \cup {Nothing}
        /\ cache[i] \in CacheEntry \cup {Nothing}
        /\ rows[i] # Nothing => /\ cache[i] # Nothing => IsEvent(rows[i].schedule)
                                /\ ModeOf(q, rows[i])
        /\ InStep(i) => RowStage(q, rows[i]) /\ Follow(i, q.old)
        /\ i \notin strayed => PointStage(q, points[i], failed[i])
        /\ NeedsReembed(r) = Reembeds(q)
    BY <1>1, <1>2, <1>3, AtPut
  <1>5. /\ req' = [req EXCEPT ![r] = Idle] /\ rows[i] = Nothing
        /\ UNCHANGED <<rows, points, cache, jobs, born, failed>>
        /\ tainted' = tainted /\ strayed' = strayed
    BY <1>1, <1>2 DEF PutVanished, Fail, Answer, storeVars, Exists
  <1>6. ~InStep(i)
    <2>1. InStep(i) => rows[i] = Updated(q.old, q.old, q.body)
      BY <1>3, <1>4 DEF RowStage
    <2> QED
      BY <1>4, <1>5, <2>1, UpdatedTyped, Fields
  <1>7. ~InStep(i)' /\ Beside(i)
    BY <1>5, <1>6 DEF InStep, Beside
  <1> QED
    BY <1>1, <1>2, <1>4, <1>5, <1>7, Leaves DEF InStep

LEMMA PutRestoreGood ==
  ASSUME Inv, NEW r \in Requests, PutRestore(r)
  PROVE  \A j \in Intents : Good(j)'
  <1>1. PICK q : q = req[r]
    OBVIOUS
  <1>2. PICK i : i = q.intent
    OBVIOUS
  <1>3. q.op = "put" /\ q.pc = "restore"
    BY <1>1 DEF PutRestore, At
  <1>4. /\ q \in RequestRecords /\ i \in Intents /\ i \in born
        /\ q.pc \in PutPcs /\ q.body \in Changes /\ q.old \in Row
        /\ q.pc \notin {"write", "reread"} => q.new \in Row
        /\ q.pc = "retrieve" => IsEvent(q.new.schedule) /\ q.new.enabled /\ ~Reembeds(q)
        /\ StoresTypeOK /\ ApiTypeOK
        /\ rows[i] \in Row \cup {Nothing} /\ points[i] \in Point \cup {Nothing}
        /\ cache[i] \in CacheEntry \cup {Nothing}
        /\ rows[i] # Nothing => /\ cache[i] # Nothing => IsEvent(rows[i].schedule)
                                /\ ModeOf(q, rows[i])
        /\ InStep(i) => RowStage(q, rows[i]) /\ Follow(i, q.old)
        /\ i \notin strayed => PointStage(q, points[i], failed[i])
        /\ NeedsReembed(r) = Reembeds(q)
    BY <1>1, <1>2, <1>3, AtPut
  <1>5. PICK alt : alt = IF q.body.alt = NoChange THEN rows[i].alt ELSE q.old.alt
    OBVIOUS
  <1>6. /\ req' = [req EXCEPT ![r] = Idle]
        /\ UNCHANGED <<points, cache, jobs, born>>
        /\ rows' = IF rows[i] # Nothing THEN [rows EXCEPT ![i] = [q.old EXCEPT !.alt = alt]]
                   ELSE rows
        /\ tainted' = tainted /\ strayed' = strayed
        /\ failed' = [failed EXCEPT ![i] = @ \cup {q.body}]
    BY <1>1, <1>2, <1>5 DEF PutRestore, Answer, Exists
  <1>7. PICK row : row = [q.old EXCEPT !.alt = alt]
    OBVIOUS
  <1>8. row.schedule = q.old.schedule /\ (alt = q.old.alt => row = q.old)
    BY <1>4, <1>7 DEF Row
  <1>9. /\ Beside(i)
        /\ rows'[i] = IF rows[i] # Nothing THEN row ELSE Nothing
        /\ failed'[i] = failed[i] \cup {q.body}
    BY <1>4, <1>6, <1>7 DEF StoresTypeOK, ApiTypeOK, Beside
  <1>10. InStep(i) => rows[i] = Updated(q.old, q.old, q.body) /\ Follow(i, q.old)
    BY <1>3, <1>4 DEF RowStage
  <1>11. InStep(i) => rows'[i] = q.old
    <2>1. SUFFICES ASSUME InStep(i)
                   PROVE  rows'[i] = q.old
      OBVIOUS
    <2>2. rows[i] = Updated(q.old, q.old, q.body) /\ rows[i] # Nothing
      BY <1>4, <1>10, <2>1, UpdatedTyped, Fields
    <2>3. rows[i].alt = Given(q.body.alt, q.old.alt)
      BY <2>2 DEF Updated
    <2>4. alt = q.old.alt
      BY <1>5, <2>3 DEF Given
    <2> QED
      BY <1>8, <1>9, <2>2, <2>4
  <1>12. rows'[i] # Nothing =>
           /\ rows[i] # Nothing /\ SameMode(rows[i].schedule, rows'[i].schedule)
           /\ cache'[i] # Nothing => IsEvent(rows'[i].schedule)
    BY <1>3, <1>4, <1>6, <1>8, <1>9 DEF SameMode, ModeOf
  <1>13. q.old # Nothing
    BY <1>4, Fields
  <1>14. InStep(i)' => Follow(i, rows[i])'
    <2>1. SUFFICES ASSUME InStep(i)
                   PROVE  Follow(i, rows[i])'
      BY <1>6 DEF InStep
    <2>2. EntryClose(cache[i], q.old, failed[i]) => EntryClose(cache[i], q.old, failed'[i])
      BY <1>9, CloseGrows DEF EntryClose
    <2> QED
      BY <1>6, <1>10, <1>11, <2>1, <2>2 DEF Follow
  <1>15. i \notin strayed' => PointFits(points'[i], rows'[i], failed'[i])
    BY <1>3, <1>4, <1>6, <1>9, <1>11 DEF PointStage, InStep
  <1> QED
    BY <1>1, <1>2, <1>4, <1>6, <1>9, <1>12, <1>14, <1>15, Leaves

LEMMA PutRestoreFailsGood ==
  ASSUME Inv, NEW r \in Requests, PutRestoreFails(r)
  PROVE  \A j \in Intents : Good(j)'
  <1>1. PICK q : q = req[r]
    OBVIOUS
  <1>2. PICK i : i = q.intent
    OBVIOUS
  <1>3. q.op = "put" /\ q.pc = "restore"
    BY <1>1 DEF PutRestoreFails, At
  <1>4. /\ q \in RequestRecords /\ i \in Intents /\ i \in born
        /\ q.pc \in PutPcs /\ q.body \in Changes /\ q.old \in Row
        /\ q.pc \notin {"write", "reread"} => q.new \in Row
        /\ q.pc = "retrieve" => IsEvent(q.new.schedule) /\ q.new.enabled /\ ~Reembeds(q)
        /\ StoresTypeOK /\ ApiTypeOK
        /\ rows[i] \in Row \cup {Nothing} /\ points[i] \in Point \cup {Nothing}
        /\ cache[i] \in CacheEntry \cup {Nothing}
        /\ rows[i] # Nothing => /\ cache[i] # Nothing => IsEvent(rows[i].schedule)
                                /\ ModeOf(q, rows[i])
        /\ InStep(i) => RowStage(q, rows[i]) /\ Follow(i, q.old)
        /\ i \notin strayed => PointStage(q, points[i], failed[i])
        /\ NeedsReembed(r) = Reembeds(q)
    BY <1>1, <1>2, <1>3, AtPut
  <1>5. /\ req' = [req EXCEPT ![r] = Idle]
        /\ UNCHANGED <<rows, points, cache, jobs, born, failed>>
        /\ tainted' = tainted \cup {i} /\ strayed' = strayed \cup {i}
    BY <1>1, <1>2 DEF PutRestoreFails, Fail, Answer, storeVars
  <1>6. Beside(i) /\ ~InStep(i)'
    BY <1>5 DEF Beside, InStep
  <1>7. rows'[i] # Nothing =>
           /\ rows[i] # Nothing /\ SameMode(rows[i].schedule, rows'[i].schedule)
           /\ cache'[i] # Nothing => IsEvent(rows'[i].schedule)
    BY <1>4, <1>5 DEF SameMode
  <1> QED
    BY <1>1, <1>2, <1>4, <1>5, <1>6, <1>7, Leaves

LEMMA PutStopsGood ==
  ASSUME Inv, NEW r \in Requests, PutStops(r)
  PROVE  \A j \in Intents : Good(j)'
  <1>1. PICK q : q = req[r]
    OBVIOUS
  <1>2. PICK i : i = q.intent
    OBVIOUS
  <1>3. q.op = "put" /\ q.pc \in {"done", "retrieve"}
    BY <1>1 DEF PutStops, At
  <1>4. /\ q \in RequestRecords /\ i \in Intents /\ i \in born
        /\ q.pc \in PutPcs /\ q.body \in Changes /\ q.old \in Row
        /\ q.pc \notin {"write", "reread"} => q.new \in Row
        /\ q.pc = "retrieve" => IsEvent(q.new.schedule) /\ q.new.enabled /\ ~Reembeds(q)
        /\ StoresTypeOK /\ ApiTypeOK
        /\ rows[i] \in Row \cup {Nothing} /\ points[i] \in Point \cup {Nothing}
        /\ cache[i] \in CacheEntry \cup {Nothing}
        /\ rows[i] # Nothing => /\ cache[i] # Nothing => IsEvent(rows[i].schedule)
                                /\ ModeOf(q, rows[i])
        /\ InStep(i) => RowStage(q, rows[i]) /\ Follow(i, q.old)
        /\ i \notin strayed => PointStage(q, points[i], failed[i])
        /\ NeedsReembed(r) = Reembeds(q)
    BY <1>1, <1>2, <1>3, AtPut
  <1>5. /\ req' = [req EXCEPT ![r] = Idle]
        /\ UNCHANGED <<rows, points, cache, jobs, born, failed>>
        /\ tainted' = tainted \cup {i} /\ strayed' = strayed
    BY <1>1, <1>2 DEF PutStops, Fail, Answer, storeVars
  <1>6. InStep(i) => rows[i] = q.new
    BY <1>3, <1>4 DEF RowStage
  <1>7. i \notin strayed' => PointFits(points'[i], rows'[i], failed'[i])
    <2>1. i \notin strayed => PointFits(points[i], q.new, failed[i] \ {q.body})
      BY <1>3, <1>4 DEF PointStage
    <2> QED
      BY <1>5, <1>6, <2>1, CloseGrows DEF InStep
  <1>8. InStep(i)' => Follow(i, rows[i])'
    BY <1>5 DEF Follow
  <1>9. Beside(i)
    BY <1>5 DEF Beside
  <1>10. rows'[i] # Nothing =>
           /\ rows[i] # Nothing /\ SameMode(rows[i].schedule, rows'[i].schedule)
           /\ cache'[i] # Nothing => IsEvent(rows'[i].schedule)
    BY <1>4, <1>5 DEF SameMode
  <1> QED
    BY <1>1, <1>2, <1>4, <1>5, <1>7, <1>8, <1>9, <1>10, Leaves

(* The job that a PUT leaves is that of its new row. *)
LEMMA JobsFollowPut ==
  ASSUME NEW r \in Requests, NEW q, q = req[r], NEW i \in Intents, i = q.intent,
         q.body \in Changes, q.old \in Row, q.new \in Row,
         q.new = Updated(q.old, q.old, q.body), SameMode(q.old.schedule, q.new.schedule),
         jobs \in [Intents -> Schedules \cup {Nothing}], JobFits(jobs[i], q.old)
  PROVE  JobFits(JobsAfterPut(r)[i], q.new)
  <1>1. q.old # Nothing /\ q.new # Nothing
        /\ q.old.enabled \in BOOLEAN /\ q.new.enabled \in BOOLEAN
    BY Fields
  <1>2. /\ q.new.enabled = Given(q.body.enabled, q.old.enabled)
        /\ q.new.schedule = Given(q.body.schedule, q.old.schedule)
    BY NewRow
  <1>3. /\ Registered(jobs, i, q.new)[i] =
             IF IsEvent(q.new.schedule) THEN jobs[i] ELSE q.new.schedule
        /\ Unregistered(jobs, i)[i] = Nothing
    BY DEF Registered, Unregistered
  <1>4. IsEvent(q.new.schedule) => jobs[i] = Nothing
    BY <1>1 DEF SameMode, JobFits
  <1>5. CASE EnabledChanged(r)
    <2>1. JobsAfterPut(r) = IF q.new.enabled THEN Registered(jobs, i, q.new)
                            ELSE Unregistered(jobs, i)
      BY <1>5 DEF JobsAfterPut
    <2> QED
      BY <1>1, <1>3, <1>4, <2>1 DEF JobFits
  <1>6. CASE ~EnabledChanged(r)
    <2>1. q.new.enabled = q.old.enabled
      BY <1>2, <1>6 DEF EnabledChanged, Differs, Given
    <2>2. JobsAfterPut(r) = IF q.new.enabled /\ (TextChanged(r) \/ ScheduleChanged(r))
                            THEN Registered(jobs, i, q.new) ELSE jobs
      BY <1>6 DEF JobsAfterPut
    <2>3. CASE q.new.enabled /\ (TextChanged(r) \/ ScheduleChanged(r))
      BY <1>1, <1>3, <1>4, <2>2, <2>3 DEF JobFits
    <2>4. CASE q.new.enabled /\ ~ScheduleChanged(r) /\ ~TextChanged(r)
      <3>1. q.new.schedule = q.old.schedule
        BY <1>2, <2>4 DEF ScheduleChanged, Differs, Given
      <3> QED
        BY <1>1, <2>1, <2>2, <2>4, <3>1 DEF JobFits
    <2>5. CASE ~q.new.enabled
      BY <1>1, <2>1, <2>2, <2>5 DEF JobFits
    <2> QED
      BY <2>3, <2>4, <2>5
  <1> QED
    BY <1>5, <1>6

(* The last stretch of a PUT, with the entry it leaves.                    *)
LEMMA SyncGood ==
  ASSUME Inv, NEW r \in Requests, NEW q, q = req[r], NEW i, i = q.intent,
         q.op = "put", q.pc \in {"done", "retrieve"},
         NEW entries, PutSyncs(r, entries),
         \A j \in Intents : j # i => entries[j] = cache[j],
         entries[i] # Nothing => IsEvent(q.new.schedule) \/ cache[i] # Nothing,
         i \notin tainted => EntryFits(entries[i], q.new),
         i \notin tainted /\ i \notin strayed =>
           EntryClose(entries[i], q.new, failed[i] \ {q.body})
  PROVE  \A j \in Intents : Good(j)'
  <1>1. /\ q \in RequestRecords /\ i \in Intents /\ i \in born
        /\ q.body \in Changes /\ q.old \in Row /\ q.new \in Row
        /\ StoresTypeOK /\ ApiTypeOK
        /\ rows[i] \in Row \cup {Nothing}
        /\ rows[i] # Nothing => /\ cache[i] # Nothing => IsEvent(rows[i].schedule)
                                /\ ModeOf(q, rows[i])
        /\ InStep(i) => RowStage(q, rows[i]) /\ Follow(i, q.old)
        /\ i \notin strayed => PointStage(q, points[i], failed[i])
    BY AtPut
  <1>2. q.old # Nothing /\ q.new # Nothing
    BY <1>1, Fields
  <1>3. rows[i] # Nothing => /\ SameMode(q.old.schedule, rows[i].schedule)
                             /\ SameMode(q.new.schedule, rows[i].schedule)
    BY <1>1, <1>2 DEF ModeOf
  <1>4. InStep(i) => /\ rows[i] = q.new /\ q.new = Updated(q.old, q.old, q.body)
                     /\ Follow(i, q.old)
    BY <1>1 DEF RowStage
  <1>5. i \notin strayed => PointFits(points[i], q.new, failed[i] \ {q.body})
    BY <1>1 DEF PointStage
  <1>6. /\ req' = [req EXCEPT ![r] = Idle] /\ cache' = entries
        /\ UNCHANGED <<rows, points, born>> /\ strayed' = strayed
    BY DEF PutSyncs, Succeed, Fail, Answer
  <1>7. rows'[i] # Nothing =>
           /\ rows[i] # Nothing /\ SameMode(rows[i].schedule, rows'[i].schedule)
           /\ cache'[i] # Nothing => IsEvent(rows'[i].schedule)
    BY <1>1, <1>3, <1>6 DEF SameMode
  <1>8. CASE jobs' = JobsAfterPut(r) /\ Succeed(r)
    <2>1. /\ tainted' = tainted /\ failed' = [failed EXCEPT ![i] = @ \ {q.body}]
      BY <1>8 DEF Succeed, Answer
    <2>2. failed'[i] = failed[i] \ {q.body} /\ Beside(i)
      BY <1>1, <1>6, <1>8, <2>1
         DEF StoresTypeOK, ApiTypeOK, Beside, JobsAfterPut, Registered, Unregistered
    <2>3. InStep(i)' => Follow(i, rows[i])'
      <3>1. SUFFICES ASSUME InStep(i)
                     PROVE  Follow(i, rows[i])'
        BY <1>6, <2>1 DEF InStep
      <3>2. rows[i] = q.new /\ q.new = Updated(q.old, q.old, q.body) /\ Follow(i, q.old)
        BY <1>4, <3>1
      <3>3. SameMode(q.old.schedule, q.new.schedule)
        BY <1>2, <1>3, <3>2
      <3>4. i \notin tainted => JobFits(jobs'[i], q.new)
        <4>1. i \notin tainted => JobFits(jobs[i], q.old)
          BY <3>2 DEF Follow
        <4>2. jobs \in [Intents -> Schedules \cup {Nothing}]
          BY <1>1 DEF StoresTypeOK
        <4> QED
          BY <1>1, <1>8, <3>2, <3>3, <4>1, <4>2, JobsFollowPut
      <3> QED
        BY <1>6, <2>1, <2>2, <3>2, <3>4 DEF Follow
    <2>4. i \notin strayed' => PointFits(points'[i], rows'[i], failed'[i])
      BY <1>4, <1>5, <1>6, <2>2 DEF InStep
    <2> QED
      BY <1>1, <1>6, <1>7, <2>1, <2>2, <2>3, <2>4, Leaves
  <1>9. CASE UNCHANGED jobs /\ Fail(r, {i}, {})
    <2>1. tainted' = tainted \cup {i} /\ UNCHANGED failed
      BY <1>9 DEF Fail, Answer
    <2>2. Beside(i)
      BY <1>1, <1>6, <1>9, <2>1 DEF Beside
    <2>3. Follow(i, rows[i])'
      BY <2>1 DEF Follow
    <2>4. i \notin strayed' => PointFits(points'[i], rows'[i], failed'[i])
      BY <1>4, <1>5, <1>6, <2>1, CloseGrows DEF InStep
    <2> QED
      BY <1>1, <1>6, <1>7, <2>1, <2>2, <2>3, <2>4, Leaves
  <1> QED
    BY <1>8, <1>9 DEF PutSyncs

LEMMA PutReturnsGood ==
  ASSUME Inv, NEW r \in Requests, PutReturns(r)
  PROVE  \A j \in Intents : Good(j)'
  <1>1. PICK q : q = req[r]
    OBVIOUS
  <1>2. PICK i : i = q.intent
    OBVIOUS
  <1>3. q.op = "put" /\ q.pc = "done"
    BY <1>1 DEF PutReturns, At
  <1>4. /\ q \in RequestRecords /\ i \in Intents /\ i \in born
        /\ q.pc \in PutPcs /\ q.body \in Changes /\ q.old \in Row
        /\ q.pc \notin {"write", "reread"} => q.new \in Row
        /\ q.pc = "retrieve" => IsEvent(q.new.schedule) /\ q.new.enabled /\ ~Reembeds(q)
        /\ StoresTypeOK /\ ApiTypeOK
        /\ rows[i] \in Row \cup {Nothing} /\ points[i] \in Point \cup {Nothing}
        /\ cache[i] \in CacheEntry \cup {Nothing}
        /\ rows[i] # Nothing => /\ cache[i] # Nothing => IsEvent(rows[i].schedule)
                                /\ ModeOf(q, rows[i])
        /\ InStep(i) => RowStage(q, rows[i]) /\ Follow(i, q.old)
        /\ i \notin strayed => PointStage(q, points[i], failed[i])
        /\ NeedsReembed(r) = Reembeds(q)
    BY <1>1, <1>2, <1>3, AtPut
  <1>5. /\ q.new \in Row /\ q.old # Nothing /\ q.new # Nothing
        /\ InStep(i) => /\ rows[i] = q.new /\ q.new = Updated(q.old, q.old, q.body)
                        /\ Follow(i, q.old) /\ SameMode(q.old.schedule, q.new.schedule)
    <2>1. q.new \in Row /\ q.old # Nothing /\ q.new # Nothing
      BY <1>3, <1>4, Fields
    <2>2. InStep(i) => /\ rows[i] = q.new /\ q.new = Updated(q.old, q.old, q.body)
                       /\ Follow(i, q.old)
      BY <1>3, <1>4 DEF RowStage
    <2>3. InStep(i) => SameMode(q.old.schedule, q.new.schedule)
      BY <1>3, <1>4, <2>1, <2>2 DEF ModeOf
    <2> QED
      BY <2>1, <2>2, <2>3
  <1>6. i \notin tainted => EntryFits(cache[i], q.old)
    BY <1>5 DEF InStep, Follow
  <1>7. cache \in [Intents -> CacheEntry \cup {Nothing}]
    BY <1>4 DEF StoresTypeOK
  <1>8. CASE ~IsEvent(q.new.schedule) /\ PutSyncs(r, cache)
    <2>1. i \notin tainted => cache[i] = Nothing
      BY <1>5, <1>6, <1>8 DEF InStep, SameMode, EntryFits
    <2>2. i \notin tainted => EntryFits(cache[i], q.new)
      BY <1>8, <2>1 DEF EntryFits
    <2>3. i \notin tainted => EntryClose(cache[i], q.new, failed[i] \ {q.body})
      BY <2>1 DEF EntryClose
    <2> QED
      BY <1>1, <1>2, <1>3, <1>8, <2>2, <2>3, SyncGood
  <1>9. CASE /\ IsEvent(q.new.schedule) /\ ~q.new.enabled
             /\ PutSyncs(r, [cache EXCEPT ![i] = Nothing])
    <2>1. PICK entries : entries = [cache EXCEPT ![i] = Nothing]
      OBVIOUS
    <2>2. entries[i] = Nothing /\ \A j \in Intents : j # i => entries[j] = cache[j]
      BY <1>4, <1>7, <2>1
    <2>3. EntryFits(entries[i], q.new) /\ EntryClose(entries[i], q.new, failed[i] \ {q.body})
      BY <1>9, <2>2 DEF EntryFits, EntryClose
    <2>4. PutSyncs(r, entries) /\ IsEvent(q.new.schedule)
      BY <1>9, <2>1 DEF PutSyncs
    <2> QED
      BY <1>1, <1>2, <1>3, <2>2, <2>3, <2>4, SyncGood
  <1>10. CASE /\ IsEvent(q.new.schedule) /\ q.new.enabled
              /\ PutSyncs(r, [cache EXCEPT ![i] = Entry(Vectors(q.new), q.new)])
    <2>1. PICK entries : entries = [cache EXCEPT ![i] = Entry(Vectors(q.new), q.new)]
      OBVIOUS
    <2>2. /\ entries[i] = Entry(Vectors(q.new), q.new)
          /\ \A j \in Intents : j # i => entries[j] = cache[j]
      BY <1>4, <1>7, <2>1
    <2>3. /\ entries[i] \in CacheEntry /\ entries[i].main = q.new.main
          /\ entries[i].alt = q.new.alt /\ entries[i].schedule = q.new.schedule
      BY <1>5, <2>2, VectorsTyped, Fields, EntryTyped
    <2>4. EntryFits(entries[i], q.new) /\ EntryClose(entries[i], q.new, failed[i] \ {q.body})
      BY <1>5, <1>10, <2>3, RecordsAssumption
         DEF EntryFits, EntryClose, Close, CloseMain, CloseAlt
    <2>5. PutSyncs(r, entries) /\ IsEvent(q.new.schedule)
      BY <1>10, <2>1 DEF PutSyncs
    <2>6. /\ i \notin tainted => EntryFits(entries[i], q.new)
          /\ i \notin tainted /\ i \notin strayed =>
               EntryClose(entries[i], q.new, failed[i] \ {q.body})
          /\ entries[i] # Nothing => IsEvent(q.new.schedule) \/ cache[i] # Nothing
      BY <2>4, <2>5
    <2> QED
      BY <1>1, <1>2, <1>3, <2>2, <2>5, <2>6, SyncGood, SMTT(30)
  <1>11. CASE /\ IsEvent(q.new.schedule) /\ q.new.enabled /\ ~Reembeds(q)
              /\ cache[i] # Nothing
              /\ PutSyncs(r, [cache EXCEPT ![i] = Entry(Trimmed(cache[i], r), q.new)])
    <2>1. PICK entries : entries = [cache EXCEPT ![i] = Entry(Trimmed(cache[i], r), q.new)]
      OBVIOUS
    <2>2. /\ entries[i] = Entry(Trimmed(cache[i], r), q.new)
          /\ \A j \in Intents : j # i => entries[j] = cache[j]
      BY <1>4, <1>7, <2>1
    <2>3. /\ cache[i] \in CacheEntry /\ cache[i].main \in Texts /\ cache[i].alt \in SubTexts
      BY <1>4, <1>11 DEF CacheEntry
    <2>4. /\ Trimmed(cache[i], r).main = cache[i].main /\ Trimmed(cache[i], r).alt \in SubTexts
          /\ Trimmed(cache[i], r).alt =
               IF q.old.alt # Nothing /\ q.new.alt = Nothing THEN Nothing ELSE cache[i].alt
      BY <1>1, <2>3, TrimmedTyped DEF RemovesSlot
    <2>5. /\ entries[i] \in CacheEntry /\ entries[i].main = cache[i].main
          /\ entries[i].alt = Trimmed(cache[i], r).alt
          /\ entries[i].schedule = q.new.schedule
      BY <1>5, <2>2, <2>3, <2>4, EntryTyped
    <2>6. EntryFits(entries[i], q.new)
      BY <1>5, <1>11, <2>5, RecordsAssumption DEF EntryFits
    <2>7. ASSUME i \notin tainted, i \notin strayed
          PROVE  EntryClose(entries[i], q.new, failed[i] \ {q.body})
      <3>1. Close(cache[i], q.old, failed[i]) /\ q.new = Updated(q.old, q.old, q.body)
        BY <1>5, <1>11, <2>7 DEF InStep, Follow, EntryClose
      <3>2. CloseMain(entries[i].main, q.new, failed[i] \ {q.body})
        BY <1>4, <1>5, <1>11, <2>3, <2>5, <3>1, MainFollows DEF Close
      <3>3. CloseAlt(entries[i].alt, q.new, failed[i] \ {q.body})
        BY <1>4, <1>5, <1>11, <2>3, <2>4, <2>5, <3>1, AltFollows DEF Close
      <3> QED
        BY <3>2, <3>3 DEF EntryClose, Close
    <2>8. PutSyncs(r, entries) /\ IsEvent(q.new.schedule)
      BY <1>11, <2>1 DEF PutSyncs
    <2> QED
      BY <1>1, <1>2, <1>3, <2>2, <2>6, <2>7, <2>8, SyncGood
  <1> QED
    BY <1>1, <1>2, <1>4, <1>8, <1>9, <1>10, <1>11 DEF PutReturns

LEMMA PutRetrievedGood ==
  ASSUME Inv, NEW r \in Requests, PutRetrieved(r)
  PROVE  \A j \in Intents : Good(j)'
  <1>1. PICK q : q = req[r]
    OBVIOUS
  <1>2. PICK i : i = q.intent
    OBVIOUS
  <1>3. q.op = "put" /\ q.pc = "retrieve"
    BY <1>1 DEF PutRetrieved, At
  <1>4. /\ q \in RequestRecords /\ i \in Intents /\ i \in born
        /\ q.pc \in PutPcs /\ q.body \in Changes /\ q.old \in Row
        /\ q.pc \notin {"write", "reread"} => q.new \in Row
        /\ q.pc = "retrieve" => IsEvent(q.new.schedule) /\ q.new.enabled /\ ~Reembeds(q)
        /\ StoresTypeOK /\ ApiTypeOK
        /\ rows[i] \in Row \cup {Nothing} /\ points[i] \in Point \cup {Nothing}
        /\ cache[i] \in CacheEntry \cup {Nothing}
        /\ rows[i] # Nothing => /\ cache[i] # Nothing => IsEvent(rows[i].schedule)
                                /\ ModeOf(q, rows[i])
        /\ InStep(i) => RowStage(q, rows[i]) /\ Follow(i, q.old)
        /\ i \notin strayed => PointStage(q, points[i], failed[i])
        /\ NeedsReembed(r) = Reembeds(q)
    BY <1>1, <1>2, <1>3, AtPut
  <1>5. /\ q.new \in Row /\ IsEvent(q.new.schedule) /\ q.new.enabled /\ q.new # Nothing
    BY <1>3, <1>4, Fields
  <1>6. points[i] # Nothing
        /\ PutSyncs(r, [cache EXCEPT ![i] = Entry(Trimmed(points[i], r), q.new)])
    BY <1>1, <1>2 DEF PutRetrieved
  <1>7. PICK entries : entries = [cache EXCEPT ![i] = Entry(Trimmed(points[i], r), q.new)]
    OBVIOUS
  <1>8. /\ entries[i] = Entry(Trimmed(points[i], r), q.new)
        /\ \A j \in Intents : j # i => entries[j] = cache[j]
    BY <1>4, <1>7 DEF StoresTypeOK
  <1>9. points[i] \in Point
    BY <1>4, <1>6
  <1>10. /\ Trimmed(points[i], r).main = points[i].main /\ points[i].main \in Texts
         /\ Trimmed(points[i], r).alt \in SubTexts
         /\ Trimmed(points[i], r).alt =
              IF q.old.alt # Nothing /\ q.new.alt = Nothing THEN Nothing ELSE points[i].alt
    BY <1>1, <1>9, TrimmedTyped DEF RemovesSlot
  <1>11. /\ entries[i] \in CacheEntry /\ entries[i].main = points[i].main
         /\ entries[i].alt = Trimmed(points[i], r).alt
         /\ entries[i].schedule = q.new.schedule
    BY <1>5, <1>8, <1>10, EntryTyped
  <1>12. EntryFits(entries[i], q.new)
    BY <1>5, <1>11, RecordsAssumption DEF EntryFits
  <1>13. i \notin strayed => EntryClose(entries[i], q.new, failed[i] \ {q.body})
    <2>1. i \notin strayed => Close(points[i], q.new, failed[i] \ {q.body})
      BY <1>3, <1>4, <1>5 DEF PointStage, PointFits
    <2> QED
      BY <1>10, <1>11, <2>1 DEF EntryClose, Close, CloseAlt
  <1>14. PutSyncs(r, entries)
    BY <1>6, <1>7 DEF PutSyncs
  <1> QED
    BY <1>1, <1>2, <1>3, <1>5, <1>8, <1>12, <1>13, <1>14, SyncGood

-----------------------------------------------------------------------------
(* The theorems *)

LEMMA Unmoved ==
  ASSUME Inv, UNCHANGED registryVars
  PROVE  \A i \in Intents : Good(i)'
  <1>1. UNCHANGED <<rows, points, cache, jobs, born, req, tainted, strayed, failed>>
    BY DEF registryVars, storeVars, apiVars
  <1>2. SUFFICES ASSUME NEW i \in Intents, Good(i)
                 PROVE  Good(i)'
    BY DEF Inv
  <1>3. InFlight(i)' = InFlight(i)
    BY <1>1 DEF InFlight
  <1>4. Unborn(i)' /\ ModeFixed(i)'
    BY <1>1, <1>2, <1>3 DEF Good, Unborn, ModeFixed, Exists
  <1>5. RowInv(i)'
    BY <1>1, <1>2, <1>3 DEF Good, RowInv, InStep, Alone
  <1>6. FollowInv(i)'
    BY <1>1, <1>2, <1>3 DEF Good, FollowInv, Follow, Quiet
  <1>7. PointInv(i)'
    BY <1>1, <1>2, <1>3 DEF Good, PointInv, Quiet
  <1> QED
    BY <1>4, <1>5, <1>6, <1>7 DEF Good

LEMMA InvInit ==
  ASSUME Init
  PROVE  Inv
  <1>1. /\ rows = [i \in Intents |-> Nothing] /\ points = [i \in Intents |-> Nothing]
        /\ cache = [i \in Intents |-> Nothing] /\ jobs = [i \in Intents |-> Nothing]
        /\ born = {} /\ req = [r \in Requests |-> Idle]
        /\ tainted = {} /\ strayed = {} /\ failed = [i \in Intents |-> {}]
    BY DEF Init, StoresInit, ApiInit
  <1>2. Types
    <2>1. req \in [Requests -> RequestRecords]
      BY <1>1, IdleTyped
    <2>2. StoresTypeOK /\ ApiTypeOK
      BY <1>1, <2>1 DEF StoresTypeOK, ApiTypeOK, RequestRecords
    <2>3. \A r \in Requests : Shape(req[r])
      BY <1>1, IdleTyped
    <2> QED
      BY <2>2, <2>3 DEF Types, TypeOK
  <1>3. ASSUME NEW i \in Intents
        PROVE  Good(i)
    <2>1. InFlight(i) = {}
      BY <1>1, NothingAssumption DEF InFlight, Idle
    <2>2. Unborn(i) /\ ModeFixed(i) /\ RowInv(i)
      BY <1>1, <2>1 DEF Unborn, ModeFixed, RowInv, Exists, Alone
    <2>3. FollowInv(i)
      BY <1>1, <2>1 DEF FollowInv, Follow, JobFits, EntryFits, EntryClose
    <2>4. PointInv(i)
      BY <1>1, <2>1 DEF PointInv, PointFits
    <2> QED
      BY <2>2, <2>3, <2>4 DEF Good
  <1> QED
    BY <1>2, <1>3 DEF Inv

LEMMA InvStep ==
  ASSUME Inv, [Next]_registryVars
  PROVE  Inv'
  <1>1. Types'
    BY TypesStep DEF Inv, Good
  <1>2. ASSUME NEW r \in Requests, RequestStep(r)
        PROVE  \A i \in Intents : Good(i)'
    <2>1. CASE \/ PostUpsert(r) \/ PostReturns(r) \/ PostRaises(r) \/ PostJobRaises(r)
               \/ \E removed \in BOOLEAN : PostUnpoint(r, removed) \/ PostUnrow(r, removed)
      BY <2>1, PostGood
    <2>2. CASE \/ PutWrite(r) \/ PutWriteFails(r) \/ PutReread(r) \/ PutVanished(r)
               \/ PutUpsert(r) \/ PutTrim(r) \/ PutRaises(r)
      BY <2>2, PutWriteGood, PutWriteFailsGood, PutRereadGood, PutVanishedGood,
         PutUpsertGood, PutTrimGood, PutRaisesGood
    <2>3. CASE \/ PutRestore(r) \/ PutRestoreFails(r) \/ PutReturns(r) \/ PutMissesCache(r)
               \/ PutRetrieved(r) \/ PutStops(r)
      BY <2>3, PutRestoreGood, PutRestoreFailsGood, PutReturnsGood, PutMissesCacheGood,
         PutRetrievedGood, PutStopsGood
    <2>4. CASE DeletePoint(r) \/ DeleteRow(r) \/ DeleteRaises(r)
      BY <2>4, DeleteGood
    <2> QED
      BY <1>2, <2>1, <2>2, <2>3, <2>4 DEF RequestStep
  <1>3. \A i \in Intents : Good(i)'
    BY <1>2, ArriveGood, FeedRemovedGood, CrashGood, Unmoved DEF Next
  <1> QED
    BY <1>1, <1>3 DEF Inv

(* Quiet, untainted and without failed bodies, the stores are those of the *)
(* row exactly.                                                            *)
LEMMA InvGivesStores ==
  ASSUME Inv
  PROVE  StoresFollowRows
  <1>1. SUFFICES ASSUME NEW i \in Intents, Quiet(i)
                 PROVE  /\ i \notin tainted => HasJobOfRow(i) /\ HasEntryOfRow(i)
                        /\ i \notin strayed /\ failed[i] = {} => PointOfRow(i)
    BY DEF StoresFollowRows
  <1>2. /\ rows[i] \in Row \cup {Nothing} /\ points[i] \in Point \cup {Nothing}
        /\ cache[i] \in CacheEntry \cup {Nothing}
    BY DEF Inv, Types, TypeOK, StoresTypeOK
  <1>3. Follow(i, rows[i]) /\ (i \notin strayed => PointFits(points[i], rows[i], failed[i]))
    BY <1>1 DEF Inv, Good, FollowInv, PointInv
  <1>4. ASSUME i \notin tainted
        PROVE  HasJobOfRow(i) /\ HasEntryOfRow(i)
    <2>1. JobFits(jobs[i], rows[i]) /\ EntryFits(cache[i], rows[i])
      BY <1>3, <1>4 DEF Follow
    <2>2. HasJobOfRow(i)
      BY <2>1 DEF JobFits, HasJobOfRow, Exists
    <2>3. CASE rows[i] # Nothing /\ rows[i].enabled /\ IsEvent(rows[i].schedule)
      <3>1. cache[i] \in CacheEntry /\ cache[i].schedule = rows[i].schedule
        BY <1>2, <2>1, <2>3, RecordsAssumption DEF EntryFits
      <3>2. ASSUME i \notin strayed, failed[i] = {}
            PROVE  cache[i] = Entry(Vectors(rows[i]), rows[i])
        <4>1. cache[i].main = rows[i].main /\ cache[i].alt = rows[i].alt
          BY <1>3, <1>4, <2>3, <3>1, <3>2, RecordsAssumption
             DEF Follow, EntryClose, Close, CloseMain, CloseAlt
        <4> QED
          BY <3>1, <4>1 DEF Entry, Vectors, CacheEntry
      <3> QED
        BY <2>2, <2>3, <3>1, <3>2, RecordsAssumption DEF HasEntryOfRow, Exists
    <2>4. CASE ~(rows[i] # Nothing /\ rows[i].enabled /\ IsEvent(rows[i].schedule))
      BY <2>1, <2>2, <2>4 DEF EntryFits, HasEntryOfRow, Exists
    <2> QED
      BY <2>2, <2>3, <2>4
  <1>5. ASSUME i \notin strayed, failed[i] = {}
        PROVE  PointOfRow(i)
    <2>1. CASE rows[i] = Nothing
      BY <1>3, <1>5, <2>1 DEF PointFits, PointOfRow, Exists
    <2>2. CASE rows[i] # Nothing
      <3>1. points[i] \in Point /\ points[i].main = rows[i].main /\ points[i].alt = rows[i].alt
        BY <1>2, <1>3, <1>5, <2>2 DEF PointFits, Close, CloseMain, CloseAlt
      <3>2. points[i] = Vectors(rows[i])
        BY <3>1 DEF Point, Vectors
      <3> QED
        BY <2>2, <3>2 DEF PointOfRow, Exists
    <2> QED
      BY <2>1, <2>2
  <1> QED
    BY <1>4, <1>5

LEMMA InvHolds == Spec => []Inv
  BY InvInit, InvStep, PTL DEF Spec

(* Rows, points, entries, jobs and requests are of their types.            *)
THEOREM TypesHold == Spec => []TypeOK
  <1>1. Inv => TypeOK
    BY DEF Inv, Types
  <1> QED
    BY <1>1, InvHolds, PTL

(* Job, cache entry and point are those of the row once the requests of an *)
(* intent are answered, with the exceptions that StoresFollowRows names:   *)
(* for any number of requests, intents and bodies, and whatever fails.     *)
THEOREM StoresAreThoseOfTheRows == Spec => []StoresFollowRows
  BY InvGivesStores, InvHolds, PTL

(* A deleted intent stays deleted: rows appear with a POST, for a new id,  *)
(* and every other write is for a row that is there.                       *)
THEOREM NoIntentComesBack == Spec => DeletedStaysDeleted
  <1>1. ASSUME Inv, [Next]_registryVars, NEW i \in born, ~Exists(i)
        PROVE  ~Exists(i)'
    <2>1. StoresTypeOK /\ ApiTypeOK /\ i \in Intents
      BY <1>1 DEF Inv, Types, TypeOK, StoresTypeOK
    <2>2. ASSUME NEW r \in Requests, RequestStep(r)
          PROVE  rows'[i] = rows[i]
      <3>1. CASE \E removed \in BOOLEAN : PostUnrow(r, removed)
        BY <1>1, <2>1, <3>1 DEF PostUnrow, Exists, StoresTypeOK
      <3>2. CASE DeleteRow(r)
        BY <1>1, <2>1, <3>2 DEF DeleteRow, Exists, StoresTypeOK
      <3>3. CASE PutWrite(r)
        BY <1>1, <2>1, <3>3 DEF PutWrite, Exists, StoresTypeOK
      <3>4. CASE PutRestore(r)
        BY <1>1, <2>1, <3>4 DEF PutRestore, Exists, StoresTypeOK
      <3>5. CASE \/ PostUpsert(r) \/ PostReturns(r) \/ PostRaises(r) \/ PostJobRaises(r)
                 \/ \E removed \in BOOLEAN : PostUnpoint(r, removed)
        BY <3>5 DEF PostUpsert, PostReturns, PostRaises, PostJobRaises, PostUnpoint, storeVars
      <3>6. CASE \/ PutWriteFails(r) \/ PutReread(r) \/ PutVanished(r)
                 \/ PutUpsert(r) \/ PutTrim(r) \/ PutRaises(r) \/ PutRestoreFails(r)
                 \/ PutMissesCache(r) \/ PutStops(r)
        BY <3>6 DEF PutWriteFails, PutReread, PutVanished, PutUpsert, PutTrim, PutRaises,
                    PutRestoreFails, PutMissesCache, PutStops, storeVars
      <3>7. CASE PutReturns(r) \/ PutRetrieved(r)
        BY <3>7 DEF PutReturns, PutRetrieved, PutSyncs
      <3>8. CASE DeletePoint(r) \/ DeleteRaises(r)
        BY <3>8 DEF DeletePoint, DeleteRaises, storeVars
      <3> QED
        BY <2>2, <3>1, <3>2, <3>3, <3>4, <3>5, <3>6, <3>7, <3>8 DEF RequestStep
    <2>3. ASSUME NEW r \in Requests, RequestArrives(r)
          PROVE  rows'[i] = rows[i]
      BY <1>1, <2>1, <2>3 DEF RequestArrives, Post, Put, Delete, StoresTypeOK, storeVars
    <2>4. ASSUME (\E j \in Intents : FeedRemoved(j)) \/ Crash
          PROVE  rows'[i] = rows[i]
      BY <2>4 DEF FeedRemoved, Crash
    <2>5. ASSUME UNCHANGED registryVars
          PROVE  rows'[i] = rows[i]
      BY <2>5 DEF registryVars, storeVars
    <2>6. rows'[i] = rows[i]
      BY <1>1, <2>2, <2>3, <2>4, <2>5 DEF Next
    <2> QED
      BY <1>1, <2>6 DEF Exists
  <1>2. Inv /\ [Next]_registryVars =>
          [\A i \in born : ~Exists(i) => ~Exists(i)']_registryVars
    BY <1>1
  <1> QED
    BY <1>2, InvHolds, PTL DEF Spec, DeletedStaysDeleted
=============================================================================
