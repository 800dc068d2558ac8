----------------------------- MODULE SourcesProofs -----------------------------
(***************************************************************************)
(* The components of run sources: the jobs of the feeds, the cursors of    *)
(* the sources, the backfill of the derived fields, the migration of the   *)
(* intents and the shared connection.  They share no state; each has its   *)
(* invariant, its lemmas and its theorems.                                 *)
(***************************************************************************)
EXTENDS MCSources, FiniteSetTheorems, WellFoundedInduction, TLAPS

-----------------------------------------------------------------------------
(* The jobs of the feeds *)

(* A request names the feed it is for until it is left with the master job.*)
NamesItsFeed(q) ==
  IF request[q].at \in {"idle", "look", "drop"} THEN request[q].feed = "none"
  ELSE request[q].feed \in JobFeeds

(* What a request has read, if no other one was at its feed.               *)
Fits(q) ==
  LET p == request[q] IN
  /\ p.at \in {"register", "add"} => row[p.feed] = "on" /\ p.has = config[p.feed]
  /\ p.at \in {"update", "get"} => {row[p.feed], p.was} \subseteq {"on", "off"}
  /\ p.at = "update" => p.was = row[p.feed] /\ (p.changed \/ p.set \in {"keep", config[p.feed]})
  /\ p.at = "remove" => row[p.feed] = "off"

(* The request is going to change the job of its feed.                     *)
Pends(q) ==
  LET p == request[q] IN
  \/ p.at \in {"register", "add", "remove"}
  \/ p.at = "get" /\ row[p.feed] = "on" /\ NeedsJob(p)
  \/ p.at = "get" /\ row[p.feed] = "off" /\ p.was = "on"

Alone(f) == \A p, q \in FeedRequests : request[p].feed = f /\ request[q].feed = f => p = q
Pended(f) == \E q \in FeedRequests : request[q].feed = f /\ Pends(q)
Wanted(f) == IF row[f] = "on" THEN config[f] ELSE "none"

FeedsFit ==
  /\ FeedJobsTypeOK
  /\ \A q \in FeedRequests : NamesItsFeed(q) /\ (request[q].feed \in JobFeeds \ raced => Fits(q))
  /\ \A f \in JobFeeds \ raced : Alone(f)
  /\ \A f \in PlainFeeds \ raced : job[f] = Wanted(f) \/ Pended(f)

(* The master job is there for an enabled newsapi feed or on its way, and  *)
(* if it is there for none, a request is going to drop it.                 *)
MasterStarts == \A f \in CohortFeeds : row[f] = "on" => master \/ Pended(f)
MasterEnds ==
  master => \/ CohortIsOn
            \/ \E q \in FeedRequests :
                  \/ request[q].at \in {"look", "drop"}
                  \/ request[q].feed \in CohortFeeds /\ Pends(q)
Calm == raced \cap (CohortFeeds \cup {"master"}) = {}
MasterFits == Calm => MasterStarts /\ MasterEnds

JobsInv == FeedsFit /\ MasterFits

Requests ==
  [at : Stages, feed : JobFeeds \cup {"none"}, to : {"on", "off", "keep"},
   set : Configs \cup {"keep"}, was : Rows, changed : BOOLEAN, has : Configs \cup {"none"}]

(* A step of request q at feed f, or at none.                              *)
Only(q, f) ==
  /\ \A p \in FeedRequests \ {q} : request'[p] = request[p]
  /\ \A g \in JobFeeds \ {f} : row'[g] = row[g] /\ config'[g] = config[g] /\ job'[g] = job[g]
  /\ {request[q].feed, request'[q].feed} \subseteq {f, "none"}
  /\ raced \subseteq raced'
  /\ f \in JobFeeds \ raced' => \A p \in FeedRequests \ {q} : request[p].feed # f

(* No job depends on the request, and the feed has none.                   *)
Waits(q, f) == row[f] # "on" /\ ~Pends(q) /\ request[q].at \notin {"look", "drop"}

LEMMA FeedNames ==
  "none" \notin JobFeeds /\ PlainFeeds \subseteq JobFeeds /\ CohortFeeds \subseteq JobFeeds
  BY FeedKindsAssumption DEF JobFeeds

LEMMA RequestMoves ==
  ASSUME FeedJobsTypeOK, NEW q \in FeedRequests, NEW r \in Requests,
         request' = [request EXCEPT ![q] = r]
  PROVE  /\ request' \in [FeedRequests -> Requests] /\ request'[q] = r
         /\ \A p \in FeedRequests \ {q} : request'[p] = request[p]
  BY DEF FeedJobsTypeOK, Requests

LEMMA IdleIsARequest ==
  /\ IdleRequest \in Requests
  /\ [IdleRequest EXCEPT !.at = "look"] \in Requests
  /\ IdleRequest.at = "idle" /\ IdleRequest.feed = "none"
  /\ [IdleRequest EXCEPT !.at = "look"].at = "look"
  /\ [IdleRequest EXCEPT !.at = "look"].feed = "none"
  BY DEF IdleRequest, Requests, Stages, Rows

(* What a step leaves of the other feeds and requests.                     *)
LEMMA OthersStand ==
  ASSUME FeedsFit, NEW q \in FeedRequests, NEW f \in JobFeeds \cup {"none"}, Only(q, f)
  PROVE  /\ \A p \in FeedRequests \ {q} :
              request[p].feed \in JobFeeds \ ({f} \cup raced') =>
                (Fits(p) <=> Fits(p)') /\ (Pends(p) <=> Pends(p)')
         /\ \A p \in FeedRequests \ {q} : request[p].feed \in JobFeeds \ {f} => (Pends(p) <=> Pends(p)')
         /\ \A g \in JobFeeds \ {f} :
              (Alone(g) <=> Alone(g)') /\ (Pended(g) <=> Pended(g)') /\ Wanted(g)' = Wanted(g)
         /\ f \in JobFeeds \ raced' => Alone(f)' /\ (Pended(f) => request[q].feed = f /\ Pends(q))
<1>1. ASSUME NEW p \in FeedRequests \ {q}, request[p].feed \in JobFeeds \ {f}
      PROVE  (Fits(p) <=> Fits(p)') /\ (Pends(p) <=> Pends(p)')
  <2>1. /\ request'[p] = request[p] /\ row'[request[p].feed] = row[request[p].feed]
        /\ config'[request[p].feed] = config[request[p].feed]
    BY <1>1 DEF Only
  <2> QED
    BY <2>1 DEF Fits, Pends, NeedsJob
<1>2. ASSUME NEW g \in JobFeeds \ {f}
      PROVE  (Alone(g) <=> Alone(g)') /\ (Pended(g) <=> Pended(g)') /\ Wanted(g)' = Wanted(g)
  <2>1. \A p \in FeedRequests : request[p].feed = g <=> request'[p].feed = g
    BY FeedNames DEF Only
  <2>2. Alone(g) <=> Alone(g)'
    BY <2>1 DEF Alone
  <2>3. \A p \in FeedRequests : request[p].feed = g => p # q
    BY FeedNames DEF Only
  <2>4. Pended(g) <=> Pended(g)'
    BY <1>1, <2>1, <2>3 DEF Pended
  <2> QED
    BY <2>2, <2>4 DEF Only, Wanted
<1>3. ASSUME f \in JobFeeds \ raced'
      PROVE  Alone(f)' /\ (Pended(f) => request[q].feed = f /\ Pends(q))
  BY <1>3 DEF Only, Alone, Pended
<1> QED
  BY <1>1, <1>2, <1>3

LEMMA FeedsKeep ==
  ASSUME FeedsFit, FeedJobsTypeOK',
         NEW q \in FeedRequests, NEW f \in JobFeeds \cup {"none"}, Only(q, f),
         NamesItsFeed(q)',
         f \in JobFeeds \ raced' /\ request'[q].feed = f => Fits(q)',
         f \in PlainFeeds \ raced' =>
            job'[f] = Wanted(f)' \/ (request'[q].feed = f /\ Pends(q)')
  PROVE  FeedsFit'
<1>1. ASSUME NEW p \in FeedRequests
      PROVE  NamesItsFeed(p)' /\ (request'[p].feed \in JobFeeds \ raced' => Fits(p)')
  <2>1. CASE p = q
    BY <2>1, FeedNames DEF Only
  <2>2. CASE p # q
    <3>1. request'[p] = request[p] /\ NamesItsFeed(p)
      BY <2>2 DEF Only, FeedsFit
    <3>2. NamesItsFeed(p)'
      BY <3>1 DEF NamesItsFeed
    <3>3. request[p].feed \in JobFeeds \ raced' => request[p].feed # f /\ Fits(p)
      BY <2>2 DEF Only, FeedsFit
    <3> QED
      BY <2>2, <3>1, <3>2, <3>3, OthersStand
  <2> QED
    BY <2>1, <2>2
<1>2. ASSUME NEW g \in JobFeeds \ raced'
      PROVE  Alone(g)' /\ (g \in PlainFeeds => job'[g] = Wanted(g)' \/ Pended(g)')
  <2>1. CASE g = f
    <3>1. Alone(f)'
      BY <1>2, <2>1, OthersStand
    <3>2. request'[q].feed = f /\ Pends(q)' => Pended(f)'
      BY DEF Pended
    <3> QED
      BY <1>2, <2>1, <3>1, <3>2
  <2>2. CASE g # f
    <3>1. g \in JobFeeds \ raced
      BY <1>2 DEF Only
    <3>2. Alone(g) /\ (g \in PlainFeeds => job[g] = Wanted(g) \/ Pended(g))
      BY <3>1 DEF FeedsFit
    <3> QED
      BY <1>2, <2>2, <3>2, OthersStand DEF Only
  <2> QED
    BY <2>1, <2>2
<1> QED
  BY <1>1, <1>2, FeedNames DEF FeedsFit

LEMMA MasterKeeps ==
  ASSUME FeedsFit, MasterFits,
         NEW q \in FeedRequests, NEW f \in JobFeeds \cup {"none"}, Only(q, f),
         master => master',
         Calm' /\ f \in CohortFeeds /\ row'[f] = "on" =>
            master' \/ (request'[q].feed = f /\ Pends(q)'),
         Calm' /\ f \in CohortFeeds =>
            \/ row'[f] = "on"
            \/ request'[q].at \in {"look", "drop"}
            \/ request'[q].feed = f /\ Pends(q)'
            \/ Waits(q, f) /\ master' = master,
         f \notin CohortFeeds =>
            /\ master' = master
            /\ request[q].at \in {"look", "drop"} =>
                  CohortIsOn \/ request'[q].at \in {"look", "drop"}
  PROVE  MasterFits'
<1> SUFFICES ASSUME Calm'
             PROVE  MasterStarts' /\ MasterEnds'
  BY DEF MasterFits
<1>1. MasterStarts /\ MasterEnds
  BY DEF MasterFits, Calm, Only
<1>2. MasterStarts'
  <2> SUFFICES ASSUME NEW g \in CohortFeeds, row'[g] = "on"
               PROVE  master' \/ Pended(g)'
    BY DEF MasterStarts
  <2>1. CASE g = f
    BY <2>1 DEF Pended
  <2>2. CASE g # f
    <3>1. row[g] = "on" /\ (Pended(g) <=> Pended(g)')
      BY <2>2, FeedNames, OthersStand DEF Only
    <3> QED
      BY <3>1, <1>1 DEF MasterStarts
  <2> QED
    BY <2>1, <2>2
<1>3. MasterEnds'
  <2> DEFINE Ends(p) == \/ request[p].at \in {"look", "drop"}
                        \/ request[p].feed \in CohortFeeds /\ Pends(p)
  <2> SUFFICES ASSUME master'
               PROVE  CohortIsOn' \/ \E p \in FeedRequests : Ends(p)'
    BY DEF MasterEnds
  <2>1. ASSUME NEW g \in CohortFeeds, row[g] = "on", g # f
        PROVE  CohortIsOn'
    BY <2>1, FeedNames DEF Only, CohortIsOn
  <2>2. ASSUME NEW p \in FeedRequests, p # q, Ends(p)
        PROVE  Ends(p)'
    <3>1. request'[p] = request[p]
      BY <2>2 DEF Only
    <3>2. CASE request[p].feed \in CohortFeeds /\ Pends(p)
      <4>1. request[p].feed \in JobFeeds \ {f}
        BY <2>2, <3>2, FeedNames DEF Only, Calm
      <4> QED
        BY <2>2, <3>1, <3>2, <4>1, OthersStand
    <3> QED
      BY <2>2, <3>1, <3>2
  <2>3. CASE f \in CohortFeeds
    <3>1. CASE row'[f] = "on"
      BY <2>3, <3>1 DEF CohortIsOn
    <3>2. CASE request'[q].at \in {"look", "drop"} \/ (request'[q].feed = f /\ Pends(q)')
      BY <2>3, <3>2
    <3>3. CASE row[f] # "on" /\ master' = master /\ ~Pends(q) /\ request[q].at \notin {"look", "drop"}
      <4>1. CASE CohortIsOn
        BY <2>1, <3>3, <4>1 DEF CohortIsOn
      <4>2. ASSUME NEW p \in FeedRequests, Ends(p)
            PROVE  \E r \in FeedRequests : Ends(r)'
        BY <2>2, <3>3, <4>2
      <4> QED
        BY <1>1, <3>3, <4>1, <4>2 DEF MasterEnds
    <3> QED
      BY <2>3, <3>1, <3>2, <3>3 DEF Waits
  <2>4. CASE f \notin CohortFeeds
    <3>1. CASE CohortIsOn
      BY <2>1, <2>4, <3>1 DEF CohortIsOn
    <3>2. ASSUME NEW p \in FeedRequests, Ends(p), ~CohortIsOn
          PROVE  \E r \in FeedRequests : Ends(r)'
      <4>1. CASE p = q
        BY <2>4, <3>2, <4>1, FeedNames DEF Only
      <4> QED
        BY <2>2, <3>2, <4>1
    <3> QED
      BY <1>1, <2>4, <3>1, <3>2 DEF MasterEnds
  <2> QED
    BY <2>3, <2>4
<1> QED
  BY <1>2, <1>3

(* A step at one feed keeps the invariant.                                 *)
LEMMA Keeps ==
  ASSUME JobsInv, FeedJobsTypeOK',
         NEW q \in FeedRequests, NEW f \in JobFeeds \cup {"none"}, Only(q, f),
         NamesItsFeed(q)',
         f \in JobFeeds \ raced' /\ request'[q].feed = f => Fits(q)',
         f \in PlainFeeds \ raced' =>
            job'[f] = Wanted(f)' \/ (request'[q].feed = f /\ Pends(q)'),
         master => master',
         Calm' /\ f \in CohortFeeds /\ row'[f] = "on" =>
            master' \/ (request'[q].feed = f /\ Pends(q)'),
         Calm' /\ f \in CohortFeeds =>
            \/ row'[f] = "on"
            \/ request'[q].at \in {"look", "drop"}
            \/ request'[q].feed = f /\ Pends(q)'
            \/ Waits(q, f) /\ master' = master,
         f \notin CohortFeeds =>
            /\ master' = master
            /\ request[q].at \in {"look", "drop"} =>
                  CohortIsOn \/ request'[q].at \in {"look", "drop"}
  PROVE  JobsInv'
<1>1. FeedsFit'
  BY FeedsKeep DEF JobsInv
<1>2. MasterFits'
  BY MasterKeeps DEF JobsInv
<1> QED
  BY <1>1, <1>2 DEF JobsInv

LEMMA JobsStart == FeedJobsInit => JobsInv
<1> SUFFICES ASSUME FeedJobsInit
             PROVE  JobsInv
  OBVIOUS
<1>1. FeedJobsTypeOK
  BY IdleIsARequest DEF FeedJobsInit, FeedJobsTypeOK, Requests, Rows
<1>2. \A q \in FeedRequests : request[q].at = "idle" /\ request[q].feed = "none"
  BY IdleIsARequest DEF FeedJobsInit
<1>3. FeedsFit
  BY <1>1, <1>2, FeedNames DEF FeedJobsInit, FeedsFit, NamesItsFeed, Alone, Wanted
<1>4. MasterFits
  BY FeedNames DEF FeedJobsInit, MasterFits, MasterStarts, MasterEnds
<1> QED
  BY <1>3, <1>4 DEF JobsInv

(* A request that comes in.                                                *)
LEMMA ReceiveMoves ==
  ASSUME FeedsFit, NEW q \in FeedRequests, NEW f \in JobFeeds, NEW r \in Requests,
         r.feed = f, Receive(q, f, r)
  PROVE  /\ request' \in [FeedRequests -> Requests] /\ request'[q] = r
         /\ \A p \in FeedRequests \ {q} : request'[p] = request[p]
         /\ request[q].at = "idle" /\ request[q].feed = "none"
         /\ raced \subseteq raced' /\ raced' \subseteq JobFeeds \cup {"master"}
         /\ f \notin raced' => \A p \in FeedRequests \ {q} : request[p].feed # f
<1>1. NoRequest(q) /\ request' = [request EXCEPT ![q] = r]
  BY DEF Receive
<1>2. request[q].at = "idle" /\ request[q].feed = "none"
  BY <1>1 DEF NoRequest, FeedsFit, NamesItsFeed
<1>3. /\ request' \in [FeedRequests -> Requests] /\ request'[q] = r
      /\ \A p \in FeedRequests \ {q} : request'[p] = request[p]
  BY <1>1, RequestMoves DEF FeedsFit
<1>4. /\ raced \subseteq raced' /\ raced' \subseteq JobFeeds \cup {"master"}
      /\ f \notin raced' => \A p \in FeedRequests \ {q} : request[p].feed # f
  BY DEF Receive, FeedsFit, FeedJobsTypeOK
<1> QED
  BY <1>2, <1>3, <1>4

LEMMA PostInsertsKeeps ==
  ASSUME JobsInv, NEW q \in FeedRequests, NEW f \in JobFeeds, NEW c \in Configs \cup {"none"},
         PostInserts(q, f, c)
  PROVE  JobsInv'
<1> DEFINE r == [IdleRequest EXCEPT !.at = "register", !.feed = f, !.has = c]
<1>1. FeedsFit /\ FeedJobsTypeOK
  BY DEF JobsInv, FeedsFit
<1>2. r \in Requests /\ r.feed = f /\ r.at = "register" /\ r.has = c
  BY DEF IdleRequest, Requests, Stages, Rows
<1>3. /\ Receive(q, f, r) /\ row' = [row EXCEPT ![f] = "on"] /\ config' = [config EXCEPT ![f] = c]
      /\ UNCHANGED <<job, master>>
  BY DEF PostInserts
<1> HIDE DEF r
<1>4. /\ request' \in [FeedRequests -> Requests] /\ request'[q] = r
      /\ \A p \in FeedRequests \ {q} : request'[p] = request[p]
      /\ request[q].at = "idle" /\ request[q].feed = "none"
      /\ raced \subseteq raced' /\ raced' \subseteq JobFeeds \cup {"master"}
      /\ f \notin raced' => \A p \in FeedRequests \ {q} : request[p].feed # f
  BY <1>1, <1>2, <1>3, ReceiveMoves
<1>5. FeedJobsTypeOK'
  BY <1>1, <1>3, <1>4 DEF FeedJobsTypeOK, Requests, Rows
<1>6. Only(q, f)
  BY <1>1, <1>2, <1>3, <1>4 DEF Only, FeedJobsTypeOK
<1>7. row'[f] = "on" /\ config'[f] = c
  BY <1>1, <1>3 DEF FeedJobsTypeOK
<1>8. NamesItsFeed(q)' /\ Fits(q)' /\ Pends(q)'
  BY <1>2, <1>4, <1>7 DEF NamesItsFeed, Fits, Pends
<1> QED
  BY <1>2, <1>3, <1>4, <1>5, <1>6, <1>7, <1>8, Keeps

(* PATCH and DELETE read the row.                                          *)
LEMMA ReadsKeep ==
  ASSUME JobsInv, NEW q \in FeedRequests, NEW f \in JobFeeds, row[f] \in {"on", "off"},
         NEW r \in Requests, r.feed = f, r.at \in {"update", "delete"},
         r.at = "update" => r.was = row[f] /\ (r.changed \/ r.set \in {"keep", config[f]}),
         Receive(q, f, r), UNCHANGED <<row, config, job, master>>
  PROVE  JobsInv'
<1>1. FeedsFit /\ FeedJobsTypeOK
  BY DEF JobsInv, FeedsFit
<1>2. /\ request' \in [FeedRequests -> Requests] /\ request'[q] = r
      /\ \A p \in FeedRequests \ {q} : request'[p] = request[p]
      /\ request[q].at = "idle" /\ request[q].feed = "none"
      /\ raced \subseteq raced' /\ raced' \subseteq JobFeeds \cup {"master"}
      /\ f \notin raced' => \A p \in FeedRequests \ {q} : request[p].feed # f
  BY <1>1, ReceiveMoves
<1>3. FeedJobsTypeOK'
  BY <1>1, <1>2 DEF FeedJobsTypeOK, Requests
<1>4. Only(q, f)
  BY <1>1, <1>2 DEF Only
<1>5. NamesItsFeed(q)' /\ Fits(q)' /\ ~Pends(q)
  BY <1>2 DEF NamesItsFeed, Fits, Pends
<1>6. f \in JobFeeds \ raced' => ~Pended(f)
  BY <1>1, <1>2, <1>4, FeedNames, OthersStand
<1>7. f \in PlainFeeds \ raced' => job'[f] = Wanted(f)'
  BY <1>1, <1>2, <1>6, FeedNames DEF FeedsFit, Wanted
<1>8. Calm' /\ f \in CohortFeeds /\ row[f] = "on" => master
  BY <1>2, <1>6, FeedNames DEF JobsInv, MasterFits, MasterStarts, Calm
<1> QED
  BY <1>1, <1>2, <1>3, <1>4, <1>5, <1>7, <1>8, Keeps DEF Waits

(* The request at a feed is the only one, unless it was raced.             *)
LEMMA HeldAlone ==
  ASSUME FeedsFit, NEW q \in FeedRequests, request[q].at \notin {"idle", "look", "drop"},
         NEW f, f = request[q].feed
  PROVE  /\ f \in JobFeeds /\ request[q] \in Requests
         /\ f \notin raced => /\ Fits(q) /\ (Pended(f) => Pends(q))
                              /\ \A p \in FeedRequests \ {q} : request[p].feed # f
         /\ f \in PlainFeeds \ raced => job[f] = Wanted(f) \/ Pends(q)
         /\ f \in CohortFeeds /\ Calm /\ MasterFits /\ row[f] = "on" => master \/ Pends(q)
<1>1. f \in JobFeeds /\ request[q] \in Requests
  BY DEF FeedsFit, NamesItsFeed, FeedJobsTypeOK, Requests
<1>2. f \notin raced => /\ Fits(q) /\ (Pended(f) => Pends(q))
                        /\ \A p \in FeedRequests \ {q} : request[p].feed # f
  BY <1>1 DEF FeedsFit, Alone, Pended
<1>3. f \in PlainFeeds \ raced => job[f] = Wanted(f) \/ Pends(q)
  BY <1>2 DEF FeedsFit
<1>4. f \in CohortFeeds /\ Calm /\ MasterFits /\ row[f] = "on" => master \/ Pends(q)
  BY <1>2 DEF MasterFits, MasterStarts, Calm
<1> QED
  BY <1>1, <1>2, <1>3, <1>4

(* POST and PATCH register the job.                                        *)
LEMMA AddsKeep ==
  ASSUME JobsInv, NEW q \in FeedRequests, PostRegisters(q) \/ PatchAdds(q)
  PROVE  JobsInv'
<1>1. FeedsFit /\ FeedJobsTypeOK
  BY DEF JobsInv, FeedsFit
<1> DEFINE c == request[q].has
<1>2. PICK f : f = request[q].feed
  OBVIOUS
<1>3. /\ request[q].at \in {"register", "add"} /\ AddFeedJob(f, c)
      /\ request' = [request EXCEPT ![q] = IdleRequest] /\ UNCHANGED <<row, config, raced>>
  BY <1>2 DEF PostRegisters, PatchAdds, Over, At
<1>4. /\ f \in JobFeeds /\ c \in Configs \cup {"none"}
      /\ f \notin raced => /\ Fits(q)
                           /\ \A p \in FeedRequests \ {q} : request[p].feed # f
  BY <1>1, <1>2, <1>3, HeldAlone DEF Requests
<1>5. /\ request' \in [FeedRequests -> Requests] /\ request'[q] = IdleRequest
      /\ \A p \in FeedRequests \ {q} : request'[p] = request[p]
  BY <1>1, <1>3, IdleIsARequest, RequestMoves
<1>6. f \notin raced => row[f] = "on" /\ c = config[f]
  BY <1>2, <1>3, <1>4 DEF Fits
<1> HIDE DEF c
<1>7. /\ f \in CohortFeeds => master' = TRUE /\ UNCHANGED job
      /\ f \notin CohortFeeds => job' = [job EXCEPT ![f] = c] /\ UNCHANGED master
  BY <1>3 DEF AddFeedJob, EnsureMaster
<1>8. FeedJobsTypeOK'
  <2>1. job' \in [JobFeeds -> Configs \cup {"none"}] /\ master' \in BOOLEAN
    <3>1. CASE f \in CohortFeeds
      BY <1>1, <1>7, <3>1 DEF FeedJobsTypeOK
    <3>2. CASE f \notin CohortFeeds
      BY <1>1, <1>4, <1>7, <3>2 DEF FeedJobsTypeOK
    <3> QED
      BY <3>1, <3>2
  <2> QED
    BY <1>1, <1>3, <1>5, <2>1 DEF FeedJobsTypeOK, Requests
<1>9. Only(q, f) /\ NamesItsFeed(q)' /\ request'[q].feed = "none"
  BY <1>1, <1>2, <1>3, <1>4, <1>5, <1>7, IdleIsARequest DEF Only, FeedJobsTypeOK, NamesItsFeed
<1>10. f \in PlainFeeds \ raced' => job'[f] = Wanted(f)'
  BY <1>1, <1>3, <1>6, <1>7, FeedNames, FeedKindsAssumption DEF Wanted, FeedJobsTypeOK
<1>11. f \in CohortFeeds /\ Calm' => row'[f] = "on"
  BY <1>3, <1>6 DEF Calm
<1> QED
  BY <1>3, <1>4, <1>7, <1>8, <1>9, <1>10, <1>11, FeedNames, Keeps

(* A job is removed: the request goes on to the master job.                *)
LEMMA RemovalKeeps ==
  ASSUME JobsInv, NEW q \in FeedRequests, request[q].at \notin {"idle", "look", "drop"},
         NEW f, f = request[q].feed, RemoveFeedJob(q), UNCHANGED master,
         row' \in [JobFeeds -> Rows], config' \in [JobFeeds -> Configs \cup {"none"}],
         \A g \in JobFeeds \ {f} : row'[g] = row[g] /\ config'[g] = config[g],
         raced \subseteq raced', raced' \subseteq JobFeeds \cup {"master"},
         f \notin raced' => row'[f] # "on"
  PROVE  JobsInv'
<1>1. FeedsFit /\ FeedJobsTypeOK
  BY DEF JobsInv, FeedsFit
<1> DEFINE r == [IdleRequest EXCEPT !.at = "look"]
<1>2. job' = [job EXCEPT ![f] = "none"] /\ request' = [request EXCEPT ![q] = r]
  BY DEF RemoveFeedJob
<1>3. /\ f \in JobFeeds
      /\ f \notin raced => \A p \in FeedRequests \ {q} : request[p].feed # f
  BY <1>1, HeldAlone
<1>4. r \in Requests /\ r.at = "look" /\ r.feed = "none"
  BY IdleIsARequest
<1> HIDE DEF r
<1>5. /\ request' \in [FeedRequests -> Requests] /\ request'[q] = r
      /\ \A p \in FeedRequests \ {q} : request'[p] = request[p]
  BY <1>1, <1>2, <1>4, RequestMoves
<1>6. FeedJobsTypeOK'
  BY <1>1, <1>2, <1>3, <1>5 DEF FeedJobsTypeOK, Requests
<1>7. Only(q, f) /\ NamesItsFeed(q)'
  BY <1>1, <1>2, <1>3, <1>4, <1>5 DEF Only, FeedJobsTypeOK, NamesItsFeed
<1>8. f \in PlainFeeds \ raced' => job'[f] = Wanted(f)'
  BY <1>1, <1>2, <1>3 DEF Wanted, FeedJobsTypeOK
<1>9. f \in CohortFeeds /\ Calm' => row'[f] # "on"
  BY DEF Calm
<1> QED
  BY <1>3, <1>4, <1>5, <1>6, <1>7, <1>8, <1>9, FeedNames, Keeps

LEMMA PostFailsKeeps ==
  ASSUME JobsInv, NEW q \in FeedRequests, NEW deleted \in BOOLEAN, PostFails(q, deleted)
  PROVE  JobsInv'
<1>1. FeedsFit /\ FeedJobsTypeOK
  BY DEF JobsInv, FeedsFit
<1>2. PICK f : f = request[q].feed
  OBVIOUS
<1>3. /\ request[q].at = "register" /\ RemoveFeedJob(q) /\ UNCHANGED master
      /\ deleted => RemoveRow(f) /\ UNCHANGED raced
      /\ ~deleted => UNCHANGED <<row, config>> /\ raced' = raced \cup {f}
  BY <1>2 DEF PostFails, At
<1>4. f \in JobFeeds
  BY <1>1, <1>2, <1>3, HeldAlone
<1>5. /\ row' \in [JobFeeds -> Rows] /\ config' \in [JobFeeds -> Configs \cup {"none"}]
      /\ \A g \in JobFeeds \ {f} : row'[g] = row[g] /\ config'[g] = config[g]
      /\ raced \subseteq raced' /\ raced' \subseteq JobFeeds \cup {"master"}
      /\ f \notin raced' => row'[f] # "on"
  BY <1>1, <1>3, <1>4 DEF RemoveRow, FeedJobsTypeOK, Rows
<1> QED
  BY <1>2, <1>3, <1>5, RemovalKeeps

LEMMA RemovesKeep ==
  ASSUME JobsInv, NEW q \in FeedRequests, PatchRemoves(q) \/ DeleteRow(q)
  PROVE  JobsInv'
<1>1. FeedsFit /\ FeedJobsTypeOK
  BY DEF JobsInv, FeedsFit
<1>2. PICK f : f = request[q].feed
  OBVIOUS
<1>3. /\ request[q].at \in {"remove", "delete"} /\ RemoveFeedJob(q) /\ UNCHANGED <<master, raced>>
      /\ \/ request[q].at = "remove" /\ UNCHANGED <<row, config>>
         \/ RemoveRow(f)
  BY <1>2 DEF PatchRemoves, DeleteRow, At
<1>4. f \in JobFeeds /\ (f \notin raced => Fits(q))
  BY <1>1, <1>2, <1>3, HeldAlone
<1>5. /\ row' \in [JobFeeds -> Rows] /\ config' \in [JobFeeds -> Configs \cup {"none"}]
      /\ \A g \in JobFeeds \ {f} : row'[g] = row[g] /\ config'[g] = config[g]
      /\ raced \subseteq raced' /\ raced' \subseteq JobFeeds \cup {"master"}
  BY <1>1, <1>3, <1>4 DEF RemoveRow, FeedJobsTypeOK, Rows
<1>6. f \notin raced' => row'[f] # "on"
  BY <1>1, <1>2, <1>3, <1>4 DEF RemoveRow, FeedJobsTypeOK, Fits
<1> QED
  BY <1>2, <1>3, <1>5, <1>6, RemovalKeeps

(* PATCH of a feed that is still there.                                    *)
LEMMA PatchUpdatesKeeps ==
  ASSUME JobsInv, NEW q \in FeedRequests, PatchUpdates(q)
  PROVE  JobsInv'
<1>1. FeedsFit /\ FeedJobsTypeOK
  BY DEF JobsInv, FeedsFit
<1>2. PICK f : f = request[q].feed
  OBVIOUS
<1> DEFINE old == request[q]
           r == IF row[f] = "gone" THEN IdleRequest
                ELSE [old EXCEPT !.at = "get", !.to = "keep", !.set = "keep"]
           to == IF old.to = "keep" THEN row[f] ELSE old.to
           set == IF old.set = "keep" THEN config[f] ELSE old.set
<1>3. /\ old.at = "update" /\ request' = [request EXCEPT ![q] = r]
      /\ row[f] = "gone" => UNCHANGED <<row, config>>
      /\ row[f] # "gone" => row' = [row EXCEPT ![f] = to] /\ config' = [config EXCEPT ![f] = set]
      /\ UNCHANGED <<job, master, raced>>
  BY <1>2 DEF PatchUpdates, Over, At
<1>4. /\ f \in JobFeeds /\ old \in Requests
      /\ f \notin raced => /\ Fits(q) /\ \A p \in FeedRequests \ {q} : request[p].feed # f
      /\ f \in PlainFeeds \ raced => job[f] = Wanted(f) \/ Pends(q)
      /\ f \in CohortFeeds /\ Calm /\ row[f] = "on" => master \/ Pends(q)
  BY <1>1, <1>2, <1>3, HeldAlone DEF JobsInv
<1>5. ~Pends(q)
  BY <1>3 DEF Pends
<1>6. r \in Requests /\ r.feed \in {f, "none"} /\ (row[f] = "gone" => r = IdleRequest)
  <2>1. CASE row[f] = "gone"
    BY <2>1, IdleIsARequest
  <2>2. CASE row[f] # "gone"
    <3>1. r = [old EXCEPT !.at = "get", !.to = "keep", !.set = "keep"]
      BY <2>2
    <3> HIDE DEF r
    <3> QED
      BY <1>2, <1>4, <2>2, <3>1 DEF Requests, Stages
  <2> QED
    BY <2>1, <2>2
<1>7. row[f] # "gone" => /\ r.at = "get" /\ r.feed = f
                         /\ r.was = old.was /\ r.changed = old.changed
  BY <1>2, <1>4 DEF Requests
<1>8. to \in Rows /\ set \in Configs \cup {"none"}
  BY <1>1, <1>4 DEF FeedJobsTypeOK, Requests, Rows
<1>9. f \notin raced => /\ {row[f], old.was} \subseteq {"on", "off"} /\ old.was = row[f]
                        /\ to \in {"on", "off"} /\ (old.changed \/ set = config[f])
  BY <1>2, <1>3, <1>4 DEF Fits, Requests
<1> HIDE DEF r, to, set
<1>10. /\ request' \in [FeedRequests -> Requests] /\ request'[q] = r
       /\ \A p \in FeedRequests \ {q} : request'[p] = request[p]
  BY <1>1, <1>3, <1>6, RequestMoves
<1>11. FeedJobsTypeOK'
  BY <1>1, <1>3, <1>4, <1>8, <1>10 DEF FeedJobsTypeOK, Requests
<1>12. Only(q, f) /\ NamesItsFeed(q)'
  BY <1>1, <1>2, <1>3, <1>4, <1>6, <1>7, <1>10, IdleIsARequest
     DEF Only, FeedJobsTypeOK, NamesItsFeed
<1>13. f \notin raced => /\ row'[f] = to /\ config'[f] = set /\ request'[q].at = "get"
                         /\ request'[q].feed = f /\ request'[q].was = row[f]
                         /\ request'[q].changed = old.changed
  BY <1>1, <1>3, <1>4, <1>7, <1>9, <1>10 DEF FeedJobsTypeOK
<1>14. f \notin raced => Fits(q)'
  BY <1>9, <1>13 DEF Fits
<1>15. f \notin raced /\ ~Pends(q)' => row'[f] = row[f] /\ (row[f] = "on" => set = config[f])
  BY <1>9, <1>13 DEF Pends, NeedsJob
<1>16. f \in PlainFeeds \ raced => job'[f] = Wanted(f)' \/ Pends(q)'
  BY <1>3, <1>4, <1>5, <1>13, <1>15 DEF Wanted
<1>17. f \in CohortFeeds /\ Calm' => /\ f \notin raced
                                     /\ row'[f] = "on" => master' \/ Pends(q)'
                                     /\ row'[f] = "on" \/ Pends(q)' \/ Waits(q, f)
  BY <1>3, <1>4, <1>5, <1>9, <1>15 DEF Calm, Waits
<1> QED
  BY <1>3, <1>4, <1>11, <1>12, <1>13, <1>14, <1>16, <1>17, Keeps

LEMMA PatchGetsKeeps ==
  ASSUME JobsInv, NEW q \in FeedRequests, PatchGets(q)
  PROVE  JobsInv'
<1>1. FeedsFit /\ FeedJobsTypeOK
  BY DEF JobsInv, FeedsFit
<1>2. PICK f : f = request[q].feed
  OBVIOUS
<1> DEFINE old == request[q]
           adds == row[f] = "on" /\ NeedsJob(old)
           removes == ~adds /\ row[f] = "off" /\ old.was = "on"
           r == IF adds THEN [IdleRequest EXCEPT !.at = "add", !.feed = f, !.has = config[f]]
                ELSE IF removes THEN [IdleRequest EXCEPT !.at = "remove", !.feed = f]
                ELSE IdleRequest
<1>3. /\ old.at = "get" /\ request' = [request EXCEPT ![q] = r]
      /\ UNCHANGED <<row, config, job, master, raced>>
  BY <1>2 DEF PatchGets, At
<1>4. /\ f \in JobFeeds
      /\ f \notin raced => /\ Fits(q) /\ \A p \in FeedRequests \ {q} : request[p].feed # f
      /\ f \in PlainFeeds \ raced => job[f] = Wanted(f) \/ Pends(q)
      /\ f \in CohortFeeds /\ Calm /\ row[f] = "on" => master \/ Pends(q)
  BY <1>1, <1>2, <1>3, HeldAlone DEF JobsInv
<1>5. Pends(q) <=> adds \/ removes
  BY <1>2, <1>3 DEF Pends
<1>6. /\ r \in Requests
      /\ adds => r.at = "add" /\ r.feed = f /\ r.has = config[f]
      /\ removes => r.at = "remove" /\ r.feed = f
      /\ ~adds /\ ~removes => r = IdleRequest
  BY <1>1, <1>4 DEF Requests, Stages, Rows, IdleRequest, FeedJobsTypeOK
<1>7. (adds => row[f] = "on") /\ (removes => row[f] = "off")
  OBVIOUS
<1> HIDE DEF r, adds, removes
<1>8. /\ request' \in [FeedRequests -> Requests] /\ request'[q] = r
      /\ \A p \in FeedRequests \ {q} : request'[p] = request[p]
  BY <1>1, <1>3, <1>6, RequestMoves
<1>9. FeedJobsTypeOK'
  BY <1>1, <1>3, <1>8 DEF FeedJobsTypeOK, Requests
<1>10. Only(q, f) /\ NamesItsFeed(q)'
  BY <1>1, <1>2, <1>3, <1>4, <1>6, <1>8, IdleIsARequest DEF Only, NamesItsFeed
<1>11. Pends(q) => request'[q].feed = f /\ Pends(q)' /\ Fits(q)'
  BY <1>3, <1>5, <1>6, <1>7, <1>8 DEF Pends, Fits
<1>12. ~Pends(q) => request'[q].feed = "none"
  BY <1>5, <1>6, <1>8, IdleIsARequest
<1>13. Wanted(f)' = Wanted(f)
  BY <1>3 DEF Wanted
<1>14. f \in CohortFeeds => row'[f] = "on" \/ Pends(q) \/ Waits(q, f)
  BY <1>3 DEF Waits
<1>15. Calm' => Calm
  BY <1>3 DEF Calm
<1> QED
  BY <1>3, <1>4, <1>9, <1>10, <1>11, <1>12, <1>13, <1>14, <1>15, FeedNames, Keeps

(* The look at the newsapi feeds, and the drop.                            *)
LEMMA LookKeeps ==
  ASSUME JobsInv, NEW q \in FeedRequests, LookForCohort(q)
  PROVE  JobsInv'
<1>1. FeedsFit /\ FeedJobsTypeOK
  BY DEF JobsInv, FeedsFit
<1> DEFINE r == IF CohortIsOn THEN IdleRequest ELSE [request[q] EXCEPT !.at = "drop"]
<1>2. /\ request[q].at = "look" /\ request[q].feed = "none" /\ request[q] \in Requests
      /\ UNCHANGED <<row, config, job, master, raced>>
  BY <1>1 DEF LookForCohort, At, FeedsFit, NamesItsFeed, FeedJobsTypeOK, Requests
<1>3. request' = [request EXCEPT ![q] = r]
  BY <1>1 DEF LookForCohort, Over, GoTo, FeedJobsTypeOK
<1>4. /\ r \in Requests /\ r.feed = "none" /\ r.at \in {"idle", "drop"}
      /\ ~CohortIsOn => r.at = "drop"
  BY <1>2, IdleIsARequest DEF Requests, Stages
<1> HIDE DEF r
<1>5. /\ request' \in [FeedRequests -> Requests] /\ request'[q] = r
      /\ \A p \in FeedRequests \ {q} : request'[p] = request[p]
  BY <1>1, <1>3, <1>4, RequestMoves
<1>6. FeedJobsTypeOK'
  BY <1>1, <1>2, <1>5 DEF FeedJobsTypeOK, Requests
<1>7. Only(q, "none") /\ NamesItsFeed(q)'
  BY <1>2, <1>4, <1>5, FeedNames DEF Only, NamesItsFeed
<1>8. CohortIsOn \/ request'[q].at \in {"look", "drop"}
  BY <1>4, <1>5
<1> QED
  BY <1>2, <1>6, <1>7, <1>8, FeedNames, Keeps

LEMMA DropKeeps ==
  ASSUME JobsInv, NEW q \in FeedRequests, DropMaster(q)
  PROVE  JobsInv'
<1>1. FeedsFit /\ FeedJobsTypeOK
  BY DEF JobsInv, FeedsFit
<1>2. /\ request[q].at = "drop" /\ request[q].feed = "none" /\ master' = FALSE
      /\ request' = [request EXCEPT ![q] = IdleRequest]
      /\ raced \subseteq raced' /\ raced' \subseteq JobFeeds \cup {"master"}
      /\ CohortIsOn => "master" \in raced'
      /\ UNCHANGED <<row, config, job>>
  BY <1>1 DEF DropMaster, Over, At, FeedsFit, NamesItsFeed, FeedJobsTypeOK
<1>3. /\ request' \in [FeedRequests -> Requests] /\ request'[q] = IdleRequest
      /\ \A p \in FeedRequests \ {q} : request'[p] = request[p]
  BY <1>1, <1>2, IdleIsARequest, RequestMoves
<1>4. FeedJobsTypeOK'
  BY <1>1, <1>2, <1>3 DEF FeedJobsTypeOK, Requests
<1>5. Only(q, "none") /\ NamesItsFeed(q)'
  BY <1>2, <1>3, IdleIsARequest, FeedNames DEF Only, NamesItsFeed
<1>6. FeedsFit'
  BY <1>1, <1>4, <1>5, FeedNames, FeedsKeep
<1>7. MasterFits'
  BY <1>2 DEF MasterFits, MasterStarts, MasterEnds, CohortIsOn, Calm
<1> QED
  BY <1>6, <1>7 DEF JobsInv

LEMMA StartKeeps == JobsInv /\ StartJobs => JobsInv'
<1> SUFFICES ASSUME JobsInv, StartJobs
             PROVE  JobsInv'
  OBVIOUS
<1>1. FeedJobsTypeOK
  BY DEF JobsInv, FeedsFit
<1>2. /\ request' = [q \in FeedRequests |-> IdleRequest]
      /\ job' = [f \in JobFeeds |-> IF f \in PlainFeeds /\ row[f] = "on" THEN config[f] ELSE "none"]
      /\ master' = CohortIsOn /\ raced' = {} /\ UNCHANGED <<row, config>>
  BY DEF StartJobs
<1>3. CohortIsOn' = CohortIsOn /\ CohortIsOn \in BOOLEAN
  BY <1>2 DEF CohortIsOn
<1>4. \A q \in FeedRequests : request'[q].at = "idle" /\ request'[q].feed = "none"
  BY <1>2, IdleIsARequest
<1>5. FeedJobsTypeOK'
  <2>1. request' \in [FeedRequests -> Requests]
    BY <1>2, IdleIsARequest
  <2>2. job' \in [JobFeeds -> Configs \cup {"none"}]
    BY <1>1, <1>2 DEF FeedJobsTypeOK
  <2> QED
    BY <1>1, <1>2, <1>3, <2>1, <2>2 DEF FeedJobsTypeOK, Requests
<1>6. FeedsFit'
  BY <1>2, <1>4, <1>5, FeedNames DEF FeedsFit, NamesItsFeed, Alone, Wanted
<1>7. MasterFits'
  BY <1>2, <1>3 DEF MasterFits, MasterStarts, MasterEnds, CohortIsOn
<1> QED
  BY <1>6, <1>7 DEF JobsInv

LEMMA JobsStep == JobsInv /\ [FeedJobsNext]_feedJobVars => JobsInv'
<1> SUFFICES ASSUME JobsInv, [FeedJobsNext]_feedJobVars
             PROVE  JobsInv'
  OBVIOUS
<1>1. FeedsFit /\ FeedJobsTypeOK
  BY DEF JobsInv, FeedsFit
<1>2. ASSUME NEW q \in FeedRequests, NEW f \in JobFeeds, NEW to \in {"on", "off", "keep"},
             NEW set \in Configs \cup {"keep"}, PatchReads(q, f, to, set)
      PROVE  JobsInv'
  <2> DEFINE r == [IdleRequest EXCEPT !.at = "update", !.feed = f, !.to = to, !.set = set,
                      !.was = row[f], !.changed = set \notin {"keep", config[f]}]
  <2>1. row[f] \in {"on", "off"} /\ Receive(q, f, r) /\ UNCHANGED <<row, config, job, master>>
    BY <1>2 DEF PatchReads
  <2>2. /\ r \in Requests /\ r.feed = f /\ r.at = "update"
        /\ r.was = row[f] /\ (r.changed \/ r.set \in {"keep", config[f]})
    BY <2>1 DEF IdleRequest, Requests, Stages, Rows
  <2> HIDE DEF r
  <2> QED
    BY <2>1, <2>2, ReadsKeep
<1>3. ASSUME NEW q \in FeedRequests, NEW f \in JobFeeds, DeleteReads(q, f)
      PROVE  JobsInv'
  <2> DEFINE r == [IdleRequest EXCEPT !.at = "delete", !.feed = f]
  <2>1. row[f] \in {"on", "off"} /\ Receive(q, f, r) /\ UNCHANGED <<row, config, job, master>>
    BY <1>3 DEF DeleteReads
  <2>2. r \in Requests /\ r.feed = f /\ r.at = "delete"
    BY DEF IdleRequest, Requests, Stages, Rows
  <2> HIDE DEF r
  <2> QED
    BY <2>1, <2>2, ReadsKeep
<1>4. CASE UNCHANGED feedJobVars
  BY <1>4 DEF feedJobVars, JobsInv, FeedsFit, MasterFits, FeedJobsTypeOK, NamesItsFeed, Fits,
              Alone, Wanted, Pended, Pends, Calm, MasterStarts, MasterEnds, CohortIsOn
<1> QED
  BY <1>2, <1>3, <1>4, PostInsertsKeeps, AddsKeep, PostFailsKeeps, PatchUpdatesKeeps,
     PatchGetsKeeps, RemovesKeep, LookKeeps, DropKeeps, StartKeeps DEF FeedJobsNext

LEMMA JobsInvariant == FeedJobsSpec => []JobsInv
  BY JobsStart, JobsStep, PTL DEF FeedJobsSpec

(* Rows, configurations, jobs and requests of the feeds keep their types. *)
THEOREM FeedJobsTypesHold == FeedJobsSpec => []FeedJobsTypeOK
<1>1. JobsInv => FeedJobsTypeOK
  BY DEF JobsInv, FeedsFit
<1> QED
  BY <1>1, JobsInvariant, PTL

(* When the requests for a feed are over its jobs are those its row asks   *)
(* for, however requests for other feeds overlap, fail or restart          *)
(* (api/feeds, collector/scheduler add_feed_job and remove_feed_job).      *)
THEOREM JobsAreThoseOfTheRows == FeedJobsSpec => []JobsFollowRows
<1>1. JobsInv => JobsFollowRows
  <2> SUFFICES ASSUME JobsInv, \A q \in FeedRequests : request[q].at = "idle"
               PROVE  /\ \A f \in PlainFeeds \ raced : job[f] = Wanted(f)
                      /\ Calm => (master <=> CohortIsOn)
    BY DEF JobsFollowRows, NoRequest, Calm, Wanted
  <2>1. \A q \in FeedRequests : ~Pends(q) /\ request[q].at \notin {"look", "drop"}
    BY DEF Pends
  <2> QED
    BY <2>1 DEF JobsInv, FeedsFit, MasterFits, MasterStarts, MasterEnds, Pended, CohortIsOn,
                FeedJobsTypeOK
<1> QED
  BY <1>1, JobsInvariant, PTL

-----------------------------------------------------------------------------
(* The cursors of the sources *)

Passes ==
  [feeds : SUBSET Feeds, saw : SUBSET News, has : SUBSET News, out : SUBSET News,
   to : Stamps \cup {Never}]

(* Where a pass leads the cursor if it ends now.                           *)
Target(s) == IF pass[s].to = Never THEN now ELSE pass[s].to

(* Nothing is stamped, and no cursor stands, ahead of the clock.           *)
NotAhead ==
  /\ \A a \in Shown : stamp[a] <= now
  /\ \A f \in Feeds : cursor[f] # Never => cursor[f] <= now
  /\ \A s \in PassKinds : pass[s].to # Never => pass[s].to <= now

(* What a pass saw and neither has nor gives up is before the day of the   *)
(* cursor it leads to.                                                     *)
Forgotten(s) == pass[s].saw \ (pass[s].has \cup pass[s].out \cup settled)
PassInv ==
  \A s \in PassKinds :
    /\ pass[s].saw \subseteq Shown
    /\ \A a \in Forgotten(s) : kind = "newsapi" /\ Day(stamp[a]) < Day(Target(s))

CursorInv ==
  CursorTypeOK /\ pass \in [PassKinds -> Passes] /\ NotAhead /\ PassInv /\ OwedIsReachable

LEMMA CursorConstants ==
  /\ Never \notin Int /\ DayLength \in Nat /\ DayLength > 0
  /\ MaxNow \in Nat /\ MaxDelay \in Nat /\ FireLookback \in Nat
  /\ Overlap \in Nat /\ MaxWindow \in Nat /\ IndexingLag \in Nat
  /\ PageSize \in Nat /\ PageSize > 0 /\ MaxPages \in Nat /\ MaxPages > 0
  /\ Clock \subseteq Stamps /\ Stamps \subseteq Int /\ Never \notin Stamps
  BY ClockAssumption, PagesAssumption DEF Clock, Stamps

(* Max and Min of a set of integers that has a bound.                      *)
LEMMA MaxOfBounded ==
  ASSUME NEW T \in SUBSET Int, T # {}, NEW b \in Int, \A t \in T : t <= b
  PROVE  Max(T) \in T /\ \A t \in T : t <= Max(T)
<1> DEFINE D == {n \in Nat : b - n \in T}
<1>1. \A t \in T : b - t \in D /\ b - (b - t) = t
  OBVIOUS
<1>2. D \subseteq Nat /\ D # {}
  BY <1>1
<1> HIDE DEF D
<1>3. PICK d \in D : \A e \in D : ~(<<e, d>> \in OpToRel(<, Nat))
  BY <1>2, WFMin, NatLessThanWellFounded
<1>4. \A e \in D : ~(e < d)
  BY <1>2, <1>3 DEF OpToRel
<1>5. b - d \in T /\ \A t \in T : b - d >= t
  BY <1>1, <1>2, <1>4 DEF D
<1> QED
  BY <1>5 DEF Max

LEMMA MinOfBounded ==
  ASSUME NEW T \in SUBSET Int, T # {}, NEW b \in Int, \A t \in T : b <= t
  PROVE  Min(T) \in T /\ \A t \in T : Min(T) <= t
<1> DEFINE D == {n \in Nat : b + n \in T}
<1>1. \A t \in T : t - b \in D /\ b + (t - b) = t
  OBVIOUS
<1>2. D \subseteq Nat /\ D # {}
  BY <1>1
<1> HIDE DEF D
<1>3. PICK d \in D : \A e \in D : ~(<<e, d>> \in OpToRel(<, Nat))
  BY <1>2, WFMin, NatLessThanWellFounded
<1>4. \A e \in D : ~(e < d)
  BY <1>2, <1>3 DEF OpToRel
<1>5. b + d \in T /\ \A t \in T : b + d =< t
  BY <1>1, <1>2, <1>4 DEF D
<1> QED
  BY <1>5 DEF Min

(* A later moment is not on an earlier day.                                *)
LEMMA DaysFollow ==
  ASSUME NEW t \in Int, NEW u \in Int, t <= u
  PROVE  Day(t) \in Int /\ Day(u) \in Int /\ Day(t) <= Day(u)
<1> DEFINE d == t \div DayLength
           e == u \div DayLength
<1>1. /\ d \in Int /\ e \in Int
      /\ t = (DayLength * d) + (t % DayLength) /\ t % DayLength \in 0..(DayLength - 1)
      /\ u = (DayLength * e) + (u % DayLength) /\ u % DayLength \in 0..(DayLength - 1)
  BY CursorConstants
<1> HIDE DEF d, e
<1>2. d > e => DayLength * d >= (DayLength * e) + DayLength
  <2>1. ASSUME d > e
        PROVE  DayLength * (d - e) >= DayLength
    BY <1>1, <2>1, CursorConstants
  <2>2. DayLength * (d - e) = (DayLength * d) - (DayLength * e)
    BY <1>1, CursorConstants
  <2> QED
    BY <1>1, <2>1, <2>2, CursorConstants
<1>3. ~(d > e)
  BY <1>1, <1>2, CursorConstants
<1> QED
  BY <1>1, <1>3 DEF Day, d, e

(* What a number of pages holds.                                           *)
LEMMA PagesHold ==
  ASSUME NEW n \in Nat
  PROVE  /\ ((n \div PageSize) + 1) \in Nat \ {0}
         /\ ((n \div PageSize) + 1) * PageSize > n
         /\ (((n + PageSize - 1) \div PageSize) + 1) \in Nat \ {0}
         /\ (((n + PageSize - 1) \div PageSize) + 1) * PageSize >= n
<1>1. ASSUME NEW m \in Nat
      PROVE  (m \div PageSize) + 1 \in Nat \ {0} /\ ((m \div PageSize) + 1) * PageSize > m
  <2>1. /\ m \div PageSize \in Int
        /\ m = (PageSize * (m \div PageSize)) + (m % PageSize)
        /\ m % PageSize \in 0..(PageSize - 1)
    BY CursorConstants
  <2>2. m \div PageSize >= 0
    BY CursorConstants
  <2>3. ((m \div PageSize) + 1) * PageSize = (PageSize * (m \div PageSize)) + PageSize
    BY <2>1, CursorConstants
  <2> QED
    BY <2>1, <2>2, <2>3, CursorConstants
<1>2. n + PageSize - 1 \in Nat /\ n + PageSize - 1 >= n
  BY CursorConstants
<1>3. /\ ((n + PageSize - 1) \div PageSize) + 1 \in Nat \ {0}
      /\ (((n + PageSize - 1) \div PageSize) + 1) * PageSize > n + PageSize - 1
  BY <1>1, <1>2
<1>4. (((n + PageSize - 1) \div PageSize) + 1) * PageSize \in Int
  BY <1>3, CursorConstants
<1> QED
  BY <1>1, <1>2, <1>3, <1>4, CursorConstants

(* The stamps and cursors are numbers.                                     *)
LEMMA CursorTypes ==
  ASSUME CursorInv
  PROVE  /\ now \in Int /\ now \in Stamps /\ kind \in Kinds
         /\ \A a \in Shown : a \in News /\ stamp[a] \in Stamps /\ stamp[a] \in Int /\ stamp[a] <= now
         /\ \A a \in News : of[a] \in Feeds
         /\ \A f \in Feeds : cursor[f] # Never => cursor[f] \in Stamps /\ cursor[f] \in Int /\ cursor[f] <= now
         /\ \A s \in PassKinds :
              /\ pass[s].feeds \subseteq Feeds
              /\ pass[s].saw \subseteq News /\ pass[s].saw \subseteq Shown
              /\ Target(s) \in Stamps /\ Target(s) \in Int /\ Target(s) <= now
<1>1. CursorTypeOK /\ NotAhead /\ PassInv
  BY DEF CursorInv
<1>2. now \in Int /\ now \in Stamps
  BY <1>1, CursorConstants DEF CursorTypeOK
<1>3. \A s \in PassKinds : Target(s) \in Stamps /\ Target(s) \in Int /\ Target(s) <= now
  <2> SUFFICES ASSUME NEW s \in PassKinds
               PROVE  Target(s) \in Stamps /\ Target(s) \in Int /\ Target(s) <= now
    OBVIOUS
  <2>1. pass[s].to \in Stamps \cup {Never} /\ (pass[s].to # Never => pass[s].to <= now)
    BY <1>1 DEF CursorTypeOK, NotAhead
  <2>2. Target(s) \in Stamps /\ Target(s) <= now
    BY <1>2, <2>1 DEF Target
  <2> QED
    BY <2>2, CursorConstants
<1>4. \A f \in Feeds : cursor[f] # Never => cursor[f] \in Stamps /\ cursor[f] \in Int /\ cursor[f] <= now
  BY <1>1, CursorConstants DEF CursorTypeOK, NotAhead
<1>5. \A a \in Shown : a \in News /\ stamp[a] \in Stamps /\ stamp[a] \in Int /\ stamp[a] <= now
  BY <1>1, CursorConstants DEF CursorTypeOK, NotAhead, Shown
<1> QED
  BY <1>1, <1>2, <1>3, <1>4, <1>5 DEF CursorTypeOK, PassInv

LEMMA CursorsStart == CursorInit => CursorInv
<1> SUFFICES ASSUME CursorInit
             PROVE  CursorInv
  OBVIOUS
<1>1. NoPass \in Passes /\ NoPass.saw = {} /\ NoPass.has = {} /\ NoPass.out = {}
      /\ NoPass.feeds = {} /\ NoPass.to = Never
  BY DEF NoPass, Passes
<1>2. \A s \in PassKinds : pass[s] = NoPass
  BY DEF CursorInit
<1>3. pass \in [PassKinds -> Passes]
  BY <1>1 DEF CursorInit
<1>4. 0 \in Clock /\ Shown = {}
  BY CursorConstants DEF CursorInit, Clock, Shown
<1>5. of \in [News -> Feeds] /\ polled \subseteq Feeds
  BY DEF CursorInit
<1>6. CursorTypeOK
  BY <1>1, <1>2, <1>4, <1>5 DEF CursorInit, CursorTypeOK
<1>7. NotAhead /\ PassInv /\ OwedIsReachable
  BY <1>1, <1>2, <1>4 DEF CursorInit, NotAhead, PassInv, OwedIsReachable, Owed, Forgotten
<1> QED
  BY <1>3, <1>6, <1>7 DEF CursorInv

-----------------------------------------------------------------------------
(* The fetches *)

(* A fetch keeps the invariant if what it leaves is before the day it      *)
(* leads to.                                                               *)
LEMMA FetchKeeps ==
  ASSUME CursorInv, NEW s \in PassKinds, NEW feeds \in SUBSET Feeds,
         NEW has \in SUBSET ShownBy(feeds), NEW out \in SUBSET ShownBy(feeds),
         NEW to \in Stamps \cup {Never}, to # Never => to <= now,
         Fetched(s, feeds, has, out, to),
         UNCHANGED <<kind, now, stamp, of, cursor, polled, settled>>,
         \A a \in ShownBy(feeds) \ (has \cup out \cup settled) :
            kind = "newsapi" /\ Day(stamp[a]) < Day(IF to = Never THEN now ELSE to)
  PROVE  CursorInv'
<1> DEFINE made == [feeds |-> feeds, saw |-> ShownBy(feeds) \ settled,
                    has |-> has \ settled, out |-> out \ settled, to |-> to]
<1>1. pass' = [pass EXCEPT ![s] = made] /\ pass \in [PassKinds -> Passes]
  BY DEF Fetched, CursorInv
<1>2. /\ made.feeds = feeds /\ made.saw = ShownBy(feeds) \ settled
      /\ made.has = has \ settled /\ made.out = out \ settled /\ made.to = to
  OBVIOUS
<1>3. ShownBy(feeds) \subseteq Shown /\ Shown \subseteq News
  BY DEF ShownBy, Shown
<1>4. made \in Passes
  BY <1>3 DEF Passes
<1> HIDE DEF made
<1>5. pass' \in [PassKinds -> Passes] /\ pass'[s] = made
      /\ \A r \in PassKinds \ {s} : pass'[r] = pass[r]
  BY <1>1, <1>4
<1>6. CursorTypeOK'
  <2>1. ASSUME NEW r \in PassKinds
        PROVE  /\ pass'[r].feeds \subseteq Feeds
               /\ pass'[r].has \cup pass'[r].out \subseteq pass'[r].saw
               /\ pass'[r].saw \subseteq News
               /\ pass'[r].to \in Stamps \cup {Never}
    BY <1>2, <1>3, <1>5 DEF CursorInv, CursorTypeOK
  <2> QED
    BY <2>1 DEF CursorInv, CursorTypeOK
<1>7. NotAhead'
  BY <1>2, <1>5 DEF CursorInv, NotAhead, Shown
<1>8. PassInv'
  <2>1. Shown' = Shown
    BY DEF Shown
  <2>2. ASSUME NEW r \in PassKinds, r # s
        PROVE  /\ pass'[r].saw \subseteq Shown
               /\ \A a \in Forgotten(r)' : kind = "newsapi" /\ Day(stamp[a]) < Day(Target(r)')
    BY <1>5, <2>2 DEF CursorInv, PassInv, Forgotten, Target
  <2>3. /\ pass'[s].saw \subseteq Shown
        /\ \A a \in Forgotten(s)' : kind = "newsapi" /\ Day(stamp[a]) < Day(Target(s)')
    BY <1>2, <1>3, <1>5 DEF Forgotten, Target
  <2> QED
    BY <2>1, <2>2, <2>3 DEF PassInv, Day
<1>9. OwedIsReachable'
  BY DEF CursorInv, OwedIsReachable, Owed, Shown, Within, BeforeItsDay, Day
<1> QED
  BY <1>5, <1>6, <1>7, <1>8, <1>9 DEF CursorInv

LEMMA RssKeeps ==
  ASSUME CursorInv, NEW s \in PassKinds, NEW f \in Feeds, FetchRss(s, f)
  PROVE  CursorInv'
<1>1. /\ kind \in {"rss", "ledger"} /\ Fetched(s, {f}, RssWindow(f), {}, Never)
      /\ UNCHANGED <<kind, now, stamp, of, cursor, polled, settled>>
  BY DEF FetchRss
<1>2. ASSUME NEW a \in ShownBy({f}), a \notin settled
      PROVE  a \in RssWindow(f)
  <2>1. a \in Owed /\ of[a] = f
    BY <1>2 DEF Owed, ShownBy
  <2>2. Within(a, cursor[f])
    BY <1>1, <2>1 DEF CursorInv, OwedIsReachable, BeforeItsDay
  <2> QED
    BY <1>1, <1>2, <2>2 DEF RssWindow, Since, Within
<1>3. RssWindow(f) \subseteq ShownBy({f})
  BY DEF RssWindow
<1> QED
  BY <1>1, <1>2, <1>3, FetchKeeps

LEMMA WisburgKeeps ==
  ASSUME CursorInv, NEW s \in PassKinds, NEW f \in Feeds, FetchWisburg(s, f)
  PROVE  CursorInv'
<1> DEFINE left(listed, skipped) ==
             skipped \cup (WisburgWindow(f) \ listed)
               \cup {a \in ShownBy({f}) : \/ stamp[a] < now - MaxWindow
                                          \/ Since(f) = Never /\ stamp[a] < now - DayLength}
<1>0. PICK listed \in SUBSET WisburgWindow(f) : \E skipped \in SUBSET listed :
         Fetched(s, {f}, listed \ skipped, left(listed, skipped), Never)
  BY DEF FetchWisburg
<1>1. PICK skipped \in SUBSET listed :
         Fetched(s, {f}, listed \ skipped, left(listed, skipped), Never)
  BY <1>0
<1>2. kind = "wisburg" /\ UNCHANGED <<kind, now, stamp, of, cursor, polled, settled>>
  BY DEF FetchWisburg
<1>3. ASSUME NEW a \in ShownBy({f}), a \notin settled, a \notin WisburgWindow(f)
      PROVE  stamp[a] < now - MaxWindow \/ (Since(f) = Never /\ stamp[a] < now - DayLength)
  <2>1. a \in Owed /\ of[a] = f /\ a \in Shown
    BY <1>3 DEF Owed, ShownBy
  <2>2. cursor[f] = Never \/ stamp[a] >= cursor[f] - Overlap
    BY <1>2, <2>1 DEF CursorInv, OwedIsReachable, BeforeItsDay, Within
  <2> DEFINE low == IF Since(f) = Never THEN now - DayLength ELSE Since(f) - Overlap
  <2>3. /\ stamp[a] \in Int /\ now \in Int /\ low \in Int
        /\ now - MaxWindow \in Int /\ Since(f) = cursor[f]
    BY <1>2, <2>1, CursorTypes, CursorConstants DEF Since
  <2>4. WisburgStart(f) \in {now - MaxWindow, low}
    <3>1. WisburgStart(f) = Max({now - MaxWindow, low})
      BY DEF WisburgStart
    <3> HIDE DEF low
    <3>2. PICK b \in Int : now - MaxWindow <= b /\ low <= b
      BY <2>3
    <3> DEFINE T == {now - MaxWindow, low}
    <3>3. T \in SUBSET Int /\ T # {} /\ \A t \in T : t <= b
      BY <2>3, <3>2
    <3> HIDE DEF T
    <3>4. Max(T) \in T
      BY <3>3, MaxOfBounded
    <3> QED
      BY <3>1, <3>4 DEF T
  <2>5. stamp[a] < WisburgStart(f)
    BY <1>3, <2>3, <2>4 DEF WisburgWindow
  <2> QED
    BY <2>2, <2>3, <2>4, <2>5, CursorConstants
<1>4. /\ listed \ skipped \in SUBSET ShownBy({f})
      /\ left(listed, skipped) \in SUBSET ShownBy({f})
  BY DEF WisburgWindow
<1>5. ShownBy({f}) \ settled \subseteq (listed \ skipped) \cup left(listed, skipped)
  BY <1>3
<1> HIDE DEF left
<1> QED
  BY <1>1, <1>2, <1>4, <1>5, FetchKeeps

(* What a newsapi pass asks for, against the line of the oldest cursor.    *)
LEMMA OldestCursor ==
  ASSUME CursorInv, polled # {}, \A f \in polled : cursor[f] # Never
  PROVE  LET oldest == Min({cursor[f] : f \in polled}) IN
         /\ oldest \in Int /\ oldest <= now
         /\ \A f \in polled : oldest <= cursor[f]
         /\ DateStart(polled) = Day(oldest)
<1> DEFINE T == {cursor[f] : f \in polled}
<1>1. polled \subseteq Feeds
  BY DEF CursorInv, CursorTypeOK
<1>2. \A f \in polled : cursor[f] \in Stamps /\ cursor[f] <= now
  BY <1>1, CursorTypes
<1>3. T \in SUBSET Int /\ T # {} /\ -MaxDelay \in Int /\ \A t \in T : -MaxDelay <= t
  BY <1>2, CursorConstants DEF Stamps
<1> HIDE DEF T
<1>4. Min(T) \in T /\ \A t \in T : Min(T) <= t
  BY <1>3, MinOfBounded
<1>5. /\ Min(T) \in Int /\ Min(T) <= now /\ \A f \in polled : Min(T) <= cursor[f]
  BY <1>2, <1>3, <1>4 DEF T
<1> QED
  BY <1>5 DEF T, DateStart

(* The pages that are asked for when the master stops by itself hold       *)
(* everything above the line.                                              *)
LEMMA StopPageHolds ==
  ASSUME NEW window \in SUBSET News, NEW above \in SUBSET window,
         NEW has \in Newest(window, StopPage(above, window)),
         NEW a \in window \ has
  PROVE  \E b \in has \ above : stamp[b] >= stamp[a]
<1> DEFINE n == StopPage(above, window)
<1>1. IsFiniteSet(window) /\ IsFiniteSet(above) /\ IsFiniteSet(has) /\ has \subseteq window
  BY PagesAssumption, FS_Subset DEF Newest
<1>2. Cardinality(window) \in Nat /\ Cardinality(above) \in Nat /\ Cardinality(has) \in Nat
  BY <1>1, FS_CardinalityType
<1>3. n \in Nat \ {0} /\ n * PageSize \in Int
  BY <1>2, PagesHold, CursorConstants DEF StopPage
<1> DEFINE T == {Cardinality(window), n * PageSize}
<1>4. Cardinality(has) = Min(T)
  BY DEF Newest
<1>5. Min(T) \in T
  <2>1. PICK b \in Int : b <= Cardinality(window) /\ b <= n * PageSize
    BY <1>2, <1>3
  <2>2. T \in SUBSET Int /\ T # {} /\ \A t \in T : b <= t
    BY <1>2, <1>3, <2>1
  <2> HIDE DEF T
  <2> QED
    BY <2>2, MinOfBounded
<1>6. Cardinality(has) # Cardinality(window)
  BY <1>1, FS_Subset
<1>7. Cardinality(has) = n * PageSize /\ Cardinality(has) < Cardinality(window)
  <2>1. Cardinality(has) <= Cardinality(window)
    BY <1>1, FS_Subset
  <2> QED
    BY <1>2, <1>4, <1>5, <1>6, <2>1
<1>8. above # window /\ Cardinality(has) > Cardinality(above)
  BY <1>2, <1>7, PagesHold DEF StopPage
<1>9. ~(has \subseteq above)
  <2>1. has \subseteq above => Cardinality(has) <= Cardinality(above)
    BY <1>1, FS_Subset
  <2> QED
    BY <1>2, <1>8, <2>1
<1>10. \A b \in has : stamp[b] >= stamp[a]
  BY DEF Newest
<1> QED
  BY <1>9, <1>10

LEMMA NewsapiKeeps ==
  ASSUME CursorInv, FetchNewsapi
  PROVE  CursorInv'
<1> DEFINE window == NewsapiWindow(polled)
           above == AboveLine(polled, window)
           stop == StopPage(above, window)
           capped == stop > MaxPages
           seeded == \A f \in polled : cursor[f] # Never
           out(has) == (IF capped THEN window \ has ELSE {})
                         \cup {a \in ShownBy(polled) \ window : \E f \in polled : cursor[f] = Never}
           to(has) == IF capped THEN CapCursor(has) ELSE Never
<1>1. /\ kind = "newsapi" /\ polled # {} /\ polled \in SUBSET Feeds
      /\ UNCHANGED <<kind, now, stamp, of, cursor, polled, settled>>
  BY DEF FetchNewsapi, CursorInv, CursorTypeOK
<1>2. PICK has \in Newest(window, Min({stop, MaxPages})) :
         Fetched("job", polled, has, out(has), to(has))
  BY DEF FetchNewsapi
<1>3. /\ window \subseteq ShownBy(polled) /\ ShownBy(polled) \subseteq Shown /\ has \subseteq window
      /\ above \subseteq window /\ window \subseteq News
  BY DEF NewsapiWindow, AboveLine, ShownBy, Shown, Newest
<1>4. \A a \in ShownBy(polled) : /\ stamp[a] \in Int /\ stamp[a] <= now /\ stamp[a] \in Stamps
                                 /\ of[a] \in polled /\ a \in Shown
  BY CursorTypes DEF ShownBy
<1>5. /\ CapCursor(has) \in Stamps \cup {Never}
      /\ CapCursor(has) = Never <=> has = {}
      /\ CapCursor(has) # Never => CapCursor(has) <= now /\ CapCursor(has) \in {stamp[a] : a \in has}
  <2>1. CASE has = {}
    BY <2>1 DEF CapCursor
  <2>2. CASE has # {}
    <3> DEFINE T == {stamp[a] : a \in has}
    <3>1. T \in SUBSET Int /\ T # {} /\ now \in Int /\ \A t \in T : t <= now
      BY <1>3, <1>4, <2>2, CursorTypes
    <3> HIDE DEF T
    <3>2. Max(T) \in T
      BY <3>1, MaxOfBounded
    <3>3. CapCursor(has) = Max(T)
      BY <2>2 DEF CapCursor, T
    <3> QED
      BY <1>3, <1>4, <2>2, <3>2, <3>3, CursorConstants DEF T
  <2> QED
    BY <2>1, <2>2
<1>6. ASSUME NEW a \in ShownBy(polled), a \notin window, seeded
      PROVE  /\ Day(stamp[a]) < Day(now)
             /\ \A b \in has : Day(stamp[a]) < Day(stamp[b])
  <2> DEFINE oldest == Min({cursor[f] : f \in polled})
  <2>1. oldest \in Int /\ oldest <= now /\ DateStart(polled) = Day(oldest)
    BY <1>1, <1>6, OldestCursor
  <2> HIDE DEF oldest
  <2>2. Day(oldest) \in Int /\ Day(now) \in Int /\ Day(oldest) <= Day(now)
    BY <2>1, CursorTypes, DaysFollow
  <2>3. Day(stamp[a]) \in Int
    BY <1>4, DaysFollow
  <2>4. Day(stamp[a]) < Day(oldest)
    BY <1>6, <2>1, <2>2, <2>3 DEF NewsapiWindow
  <2>5. ASSUME NEW b \in has
        PROVE  Day(stamp[b]) \in Int /\ Day(stamp[b]) >= Day(oldest)
    <3>1. b \in ShownBy(polled) /\ stamp[b] \in Int
      BY <1>3, <1>4
    <3> QED
      BY <1>3, <2>1, <3>1, DaysFollow DEF NewsapiWindow
  <2> QED
    BY <2>2, <2>3, <2>4, <2>5
<1>7. ASSUME NEW a \in window \ has, a \notin settled, ~capped
      PROVE  Day(stamp[a]) < Day(now)
  <2>1. stop = Min({stop, MaxPages})
    <3>1. stop \in Int
      <4>1. IsFiniteSet(window) /\ IsFiniteSet(above)
        BY <1>3, PagesAssumption, FS_Subset
      <4>2. Cardinality(window) \in Nat /\ Cardinality(above) \in Nat
        BY <4>1, FS_CardinalityType
      <4> HIDE DEF above, window
      <4> QED
        BY <4>2, PagesHold DEF StopPage
    <3> HIDE DEF stop
    <3>2. stop <= MaxPages
      BY <1>7, <3>1, CursorConstants
    <3>3. {stop, MaxPages} \in SUBSET Int /\ \A t \in {stop, MaxPages} : stop <= t
      BY <3>1, <3>2, CursorConstants
    <3>4. Min({stop, MaxPages}) \in {stop, MaxPages} /\ Min({stop, MaxPages}) <= stop
      BY <3>1, <3>3, MinOfBounded
    <3> QED
      BY <3>1, <3>2, <3>4, CursorConstants
  <2>2. PICK b \in has \ above : stamp[b] >= stamp[a]
    BY <1>2, <1>3, <2>1, StopPageHolds
  <2> DEFINE oldest == Min({cursor[f] : f \in polled})
  <2>3. seeded /\ ~(stamp[b] > oldest - IndexingLag)
    BY <1>3, <2>2 DEF AboveLine
  <2>4. oldest \in Int /\ oldest <= now /\ \A f \in polled : oldest <= cursor[f]
    BY <1>1, <2>3, OldestCursor
  <2> HIDE DEF oldest
  <2>5. a \in Owed /\ of[a] \in polled /\ stamp[a] \in Int /\ stamp[b] \in Int
    BY <1>3, <1>4, <1>7 DEF Owed
  <2>6. cursor[of[a]] \in Int /\ cursor[of[a]] <= now
    BY <1>1, <2>3, <2>5, CursorTypes
  <2>7. ~Within(a, cursor[of[a]])
    BY <1>1, <2>2, <2>3, <2>4, <2>5, <2>6, CursorConstants DEF Within
  <2>8. Day(stamp[a]) < Day(cursor[of[a]])
    BY <2>5, <2>7 DEF CursorInv, OwedIsReachable, BeforeItsDay
  <2> QED
    BY <2>5, <2>6, <2>8, CursorTypes, DaysFollow
<1>8. ASSUME NEW a \in ShownBy(polled) \ (has \cup out(has) \cup settled)
      PROVE  Day(stamp[a]) < Day(IF to(has) = Never THEN now ELSE to(has))
  <2>1. a \notin window => seeded
    OBVIOUS
  <2>2. CASE capped
    BY <1>5, <1>6, <1>8, <2>1, <2>2
  <2>3. CASE ~capped
    BY <1>6, <1>7, <1>8, <2>1, <2>3
  <2> QED
    BY <2>2, <2>3
<1>9. /\ has \in SUBSET ShownBy(polled) /\ out(has) \in SUBSET ShownBy(polled)
      /\ to(has) \in Stamps \cup {Never} /\ (to(has) # Never => to(has) <= now)
      /\ "job" \in PassKinds
  BY <1>3, <1>5 DEF PassKinds
<1> HIDE DEF out, to
<1> QED
  BY <1>1, <1>2, <1>8, <1>9, FetchKeeps

-----------------------------------------------------------------------------
(* The ends of the passes, the feeds and the source *)

(* A step that leaves the cursors, the stamps and the clock, and settles   *)
(* more.                                                                   *)
LEMMA SettlingKeeps ==
  ASSUME CursorInv, settled \subseteq settled', settled' \subseteq News, polled' \subseteq Feeds,
         \A s \in PassKinds : pass'[s] \in {pass[s], NoPass},
         pass' \in [PassKinds -> Passes],
         UNCHANGED <<kind, now, stamp, of, cursor>>
  PROVE  CursorInv'
<1>1. NoPass \in Passes /\ NoPass.saw = {} /\ NoPass.has = {} /\ NoPass.out = {}
      /\ NoPass.feeds = {} /\ NoPass.to = Never
  BY DEF NoPass, Passes
<1>2. CursorTypeOK'
  <2>1. ASSUME NEW r \in PassKinds
        PROVE  /\ pass'[r].feeds \subseteq Feeds
               /\ pass'[r].has \cup pass'[r].out \subseteq pass'[r].saw
               /\ pass'[r].saw \subseteq News
               /\ pass'[r].to \in Stamps \cup {Never}
    <3>1. CASE pass'[r] = NoPass
      BY <1>1, <3>1
    <3>2. CASE pass'[r] = pass[r]
      BY <3>2 DEF CursorInv, CursorTypeOK
    <3> QED
      BY <3>1, <3>2
  <2> QED
    BY <2>1 DEF CursorInv, CursorTypeOK
<1>3. NotAhead'
  BY <1>1 DEF CursorInv, NotAhead, Shown
<1>4. PassInv'
  <2>1. Shown' = Shown
    BY DEF Shown
  <2>2. ASSUME NEW s \in PassKinds
        PROVE  /\ pass'[s].saw \subseteq Shown
               /\ \A a \in Forgotten(s)' : kind = "newsapi" /\ Day(stamp[a]) < Day(Target(s)')
    <3>1. CASE pass'[s] = NoPass
      BY <1>1, <3>1 DEF Forgotten
    <3>2. CASE pass'[s] = pass[s]
      BY <3>2 DEF CursorInv, PassInv, Forgotten, Target
    <3> QED
      BY <3>1, <3>2
  <2> QED
    BY <2>1, <2>2 DEF PassInv, Day
<1>5. OwedIsReachable'
  BY DEF CursorInv, OwedIsReachable, Owed, Shown, Within, BeforeItsDay, Day
<1> QED
  BY <1>2, <1>3, <1>4, <1>5 DEF CursorInv

LEMMA FinishKeeps ==
  ASSUME CursorInv, NEW s \in PassKinds, NEW moved \in SUBSET pass[s].feeds, FinishPass(s, moved)
  PROVE  CursorInv'
<1> DEFINE to == Target(s)
<1>1. /\ cursor' = [f \in Feeds |-> IF f \in moved THEN to ELSE cursor[f]]
      /\ settled' = settled \cup pass[s].has
           \cup {a \in (pass[s].out \cup (Shown \ pass[s].saw)) \cap ShownBy(moved) : ~Within(a, to)}
      /\ pass' = [pass EXCEPT ![s] = NoPass]
      /\ UNCHANGED <<kind, now, stamp, of, polled>>
  BY DEF FinishPass, Advance, Target
<1>2. /\ moved \subseteq Feeds /\ to \in Stamps /\ to \in Int /\ to <= now /\ to # Never
      /\ pass[s].saw \subseteq News
  BY CursorTypes, CursorConstants
<1> HIDE DEF to
<1>3. NoPass \in Passes /\ NoPass.saw = {} /\ NoPass.has = {} /\ NoPass.out = {}
      /\ NoPass.feeds = {} /\ NoPass.to = Never
  BY DEF NoPass, Passes
<1>4. /\ pass' \in [PassKinds -> Passes] /\ pass'[s] = NoPass
      /\ \A r \in PassKinds \ {s} : pass'[r] = pass[r]
  BY <1>1, <1>3 DEF CursorInv
<1>5. settled \subseteq settled' /\ settled' \subseteq News
  BY <1>1, <1>2 DEF CursorInv, CursorTypeOK, ShownBy, Shown
<1>6. CursorTypeOK'
  <2>1. ASSUME NEW r \in PassKinds
        PROVE  /\ pass'[r].feeds \subseteq Feeds
               /\ pass'[r].has \cup pass'[r].out \subseteq pass'[r].saw
               /\ pass'[r].saw \subseteq News
               /\ pass'[r].to \in Stamps \cup {Never}
    <3>1. CASE r = s
      BY <1>3, <1>4, <3>1
    <3>2. CASE r # s
      BY <1>4, <3>2 DEF CursorInv, CursorTypeOK
    <3> QED
      BY <3>1, <3>2
  <2>2. cursor' \in [Feeds -> Stamps \cup {Never}]
    BY <1>1, <1>2 DEF CursorInv, CursorTypeOK
  <2> QED
    BY <1>1, <1>5, <2>1, <2>2 DEF CursorInv, CursorTypeOK
<1>7. NotAhead'
  <2>1. \A f \in Feeds : cursor'[f] # Never => cursor'[f] <= now
    BY <1>1, <1>2 DEF CursorInv, NotAhead
  <2>2. \A r \in PassKinds : pass'[r].to # Never => pass'[r].to <= now
    BY <1>3, <1>4 DEF CursorInv, NotAhead
  <2> QED
    BY <1>1, <2>1, <2>2 DEF CursorInv, NotAhead, Shown
<1>8. PassInv'
  <2>1. Shown' = Shown
    BY <1>1 DEF Shown
  <2>2. ASSUME NEW r \in PassKinds
        PROVE  /\ pass'[r].saw \subseteq Shown
               /\ \A a \in Forgotten(r)' : kind = "newsapi" /\ Day(stamp[a]) < Day(Target(r)')
    <3>1. CASE r = s
      BY <1>3, <1>4, <3>1 DEF Forgotten
    <3>2. CASE r # s
      BY <1>1, <1>4, <1>5, <3>2 DEF CursorInv, PassInv, Forgotten, Target
    <3> QED
      BY <3>1, <3>2
  <2> QED
    BY <1>1, <2>1, <2>2 DEF PassInv, Day
<1>9. OwedIsReachable'
  <2> SUFFICES ASSUME NEW a \in Owed'
               PROVE  (Within(a, cursor[of[a]]) \/ BeforeItsDay(a))'
    BY DEF OwedIsReachable
  <2>1. a \in Shown /\ a \notin settled' /\ a \in News /\ of[a] \in Feeds /\ a \in Owed
    BY <1>1, <1>5, CursorTypes DEF Owed, Shown
  <2>2. CASE of[a] \notin moved
    <3>1. cursor'[of[a]] = cursor[of[a]]
      BY <1>1, <2>1, <2>2
    <3> QED
      BY <1>1, <2>1, <3>1 DEF CursorInv, OwedIsReachable, Within, BeforeItsDay, Day
  <2>3. CASE of[a] \in moved
    <3>1. cursor'[of[a]] = to
      BY <1>1, <2>1, <2>3
    <3>2. a \in ShownBy(moved)
      BY <2>1, <2>3 DEF ShownBy
    <3>3. CASE Within(a, to)
      BY <1>1, <3>1, <3>3 DEF Within, Day
    <3>4. CASE ~Within(a, to)
      <4>1. a \in Forgotten(s)
        BY <1>1, <2>1, <3>2, <3>4 DEF Forgotten
      <4>2. kind = "newsapi" /\ Day(stamp[a]) < Day(to)
        BY <4>1 DEF CursorInv, PassInv, to
      <4> QED
        BY <1>1, <1>2, <3>1, <4>2 DEF BeforeItsDay, Day
    <3> QED
      BY <3>3, <3>4
  <2> QED
    BY <2>2, <2>3
<1> QED
  BY <1>4, <1>6, <1>7, <1>8, <1>9 DEF CursorInv

(* POST of a feed: the newest cursor of the others.                        *)
LEMMA CreateKeeps ==
  ASSUME CursorInv, NEW f \in Feeds, CreateFeed(f)
  PROVE  CursorInv'
<1> DEFINE cohort == {cursor[g] : g \in polled} \ {Never}
           to == IF cohort # {} THEN Max(cohort) ELSE Never
<1>1. /\ kind = "newsapi" /\ polled' = polled \cup {f}
      /\ cursor' = [cursor EXCEPT ![f] = to]
      /\ settled' = settled \cup {a \in ShownBy({f}) : ~Within(a, cursor'[f])}
      /\ UNCHANGED <<kind, now, stamp, of, pass>>
  BY DEF CreateFeed
<1>2. polled \subseteq Feeds /\ cursor \in [Feeds -> Stamps \cup {Never}]
  BY DEF CursorInv, CursorTypeOK
<1>3. to \in Stamps \cup {Never} /\ (to # Never => to <= now)
  <2>1. CASE cohort = {}
    BY <2>1
  <2>2. CASE cohort # {}
    <3>1. cohort \in SUBSET Int /\ now \in Int /\ \A t \in cohort : t <= now /\ t \in Stamps
      BY <1>2, CursorTypes
    <3> HIDE DEF cohort
    <3>2. Max(cohort) \in cohort
      BY <2>2, <3>1, MaxOfBounded
    <3> QED
      BY <2>2, <3>1, <3>2
  <2> QED
    BY <2>1, <2>2
<1> HIDE DEF to
<1>4. cursor' \in [Feeds -> Stamps \cup {Never}] /\ cursor'[f] = to
      /\ \A g \in Feeds \ {f} : cursor'[g] = cursor[g]
  BY <1>1, <1>2, <1>3
<1>5. settled \subseteq settled' /\ settled' \subseteq News
  BY <1>1 DEF CursorInv, CursorTypeOK, ShownBy, Shown
<1>6. CursorTypeOK'
  BY <1>1, <1>2, <1>4, <1>5 DEF CursorInv, CursorTypeOK
<1>7. NotAhead'
  BY <1>1, <1>3, <1>4 DEF CursorInv, NotAhead, Shown
<1>8. PassInv'
  BY <1>1, <1>5 DEF CursorInv, PassInv, Forgotten, Target, Shown, Day
<1>9. OwedIsReachable'
  <2> SUFFICES ASSUME NEW a \in Owed'
               PROVE  (Within(a, cursor[of[a]]) \/ BeforeItsDay(a))'
    BY DEF OwedIsReachable
  <2>1. a \in Shown /\ a \notin settled' /\ of[a] \in Feeds /\ a \in Owed
    BY <1>1, <1>5, CursorTypes DEF Owed, Shown
  <2>2. CASE of[a] # f
    <3>1. cursor'[of[a]] = cursor[of[a]]
      BY <1>4, <2>1, <2>2
    <3> QED
      BY <1>1, <2>1, <3>1 DEF CursorInv, OwedIsReachable, Within, BeforeItsDay, Day
  <2>3. CASE of[a] = f
    <3>1. Within(a, cursor'[f])
      BY <1>1, <2>1, <2>3 DEF ShownBy
    <3> QED
      BY <1>1, <2>3, <3>1 DEF Within, Day
  <2> QED
    BY <2>2, <2>3
<1> QED
  BY <1>1, <1>6, <1>7, <1>8, <1>9 DEF CursorInv

(* An article the source shows in time is reachable.                       *)
LEMMA ShowKeeps ==
  ASSUME CursorInv, NEW a \in News, NEW t \in (now - MaxDelay)..now, Show(a, t)
  PROVE  CursorInv'
<1>1. /\ a \notin Shown /\ stamp' = [stamp EXCEPT ![a] = t]
      /\ settled' = IF TooLate(of[a], t) THEN settled \cup {a} ELSE settled
      /\ UNCHANGED <<kind, now, of, cursor, polled, pass>>
  BY DEF Show
<1>2. now \in Clock /\ stamp \in [News -> Stamps \cup {Never}]
  BY DEF CursorInv, CursorTypeOK
<1>3. t \in Int /\ t \in Stamps /\ t <= now /\ t # Never
  BY <1>2, CursorConstants DEF Clock, Stamps
<1>4. /\ stamp' \in [News -> Stamps \cup {Never}] /\ stamp'[a] = t
      /\ \A b \in News \ {a} : stamp'[b] = stamp[b]
  BY <1>1, <1>2, <1>3
<1>5. Shown' = Shown \cup {a}
  BY <1>3, <1>4 DEF Shown
<1>6. settled \subseteq settled' /\ settled' \subseteq News
  BY <1>1 DEF CursorInv, CursorTypeOK
<1>7. CursorTypeOK'
  BY <1>1, <1>4, <1>6 DEF CursorInv, CursorTypeOK
<1>8. NotAhead'
  BY <1>1, <1>3, <1>4, <1>5 DEF CursorInv, NotAhead, Shown
<1>9. PassInv'
  <2>1. ASSUME NEW s \in PassKinds
        PROVE  /\ pass'[s].saw \subseteq Shown'
               /\ \A b \in Forgotten(s)' : kind = "newsapi" /\ Day(stamp'[b]) < Day(Target(s)')
    <3>1. pass[s].saw \subseteq Shown
      BY DEF CursorInv, PassInv
    <3>2. Forgotten(s)' \subseteq Forgotten(s) /\ Target(s)' = Target(s)
      BY <1>1, <1>6 DEF Forgotten, Target
    <3>3. \A b \in Forgotten(s) : b \in News /\ b # a
      BY <1>1, <3>1 DEF Forgotten, Shown
    <3> QED
      BY <1>1, <1>4, <1>5, <3>1, <3>2, <3>3 DEF CursorInv, PassInv
  <2> QED
    BY <1>1, <2>1 DEF PassInv, Day
<1>10. OwedIsReachable'
  <2> SUFFICES ASSUME NEW b \in Owed'
               PROVE  (Within(b, cursor[of[b]]) \/ BeforeItsDay(b))'
    BY DEF OwedIsReachable
  <2>1. CASE b # a
    <3>1. b \in Owed /\ stamp'[b] = stamp[b]
      BY <1>4, <1>5, <1>6, <2>1 DEF Owed, Shown
    <3> QED
      BY <1>1, <3>1 DEF CursorInv, OwedIsReachable, Within, BeforeItsDay, Day
  <2>2. CASE b = a
    <3> DEFINE c == cursor[of[a]]
    <3>1. ~TooLate(of[a], t)
      BY <1>1, <2>2 DEF Owed
    <3>2. /\ now \in Int /\ kind \in {"rss", "ledger", "wisburg", "newsapi"}
          /\ c # Never => c \in Int /\ c <= now
      BY CursorTypes, KindsAssumption
    <3>3. /\ kind = "rss" => ~(t < now \/ t = c)
          /\ kind = "wisburg" => ~(now - t > Overlap)
          /\ kind = "newsapi" => ~(now - t >= IndexingLag)
      BY <3>1 DEF TooLate
    <3> HIDE DEF c
    <3>4. c # Never => /\ kind = "rss" => t > c
                       /\ kind = "wisburg" => t >= c - Overlap
                       /\ kind = "newsapi" => t > c - IndexingLag
      BY <1>3, <3>2, <3>3, CursorConstants
    <3>5. kind = "newsapi" /\ c # Never => Day(t) >= Day(c) \/ Day(t) < Day(c)
      BY <1>3, <3>2, CursorConstants DEF Day
    <3> QED
      BY <1>1, <1>4, <2>2, <3>2, <3>4, <3>5 DEF Within, BeforeItsDay, Day, c
  <2> QED
    BY <2>1, <2>2
<1> QED
  BY <1>1, <1>7, <1>8, <1>9, <1>10 DEF CursorInv

LEMMA TimeKeeps ==
  ASSUME CursorInv, TimePasses
  PROVE  CursorInv'
<1>1. /\ now < MaxNow /\ now' = now + 1
      /\ UNCHANGED <<kind, stamp, of, cursor, polled, pass, settled>>
  BY DEF TimePasses
<1>2. now \in Clock /\ now' \in Clock /\ now \in Int /\ now' \in Int /\ now <= now'
  BY <1>1, CursorConstants DEF CursorInv, CursorTypeOK, Clock
<1>3. CursorTypeOK'
  BY <1>1, <1>2 DEF CursorInv, CursorTypeOK
<1>4. NotAhead'
  <2>1. \A x \in Int : x <= now => x <= now'
    BY <1>2
  <2>2. \A a \in Shown : stamp[a] \in Int /\ stamp[a] <= now
    BY CursorTypes
  <2>3. \A f \in Feeds : cursor[f] # Never => cursor[f] \in Int /\ cursor[f] <= now
    BY CursorTypes
  <2>4. \A s \in PassKinds : pass[s].to # Never => pass[s].to \in Int /\ pass[s].to <= now
    BY CursorConstants DEF CursorInv, CursorTypeOK, NotAhead
  <2> QED
    BY <1>1, <2>1, <2>2, <2>3, <2>4 DEF NotAhead, Shown
<1>5. PassInv'
  <2>1. ASSUME NEW s \in PassKinds, NEW a \in Forgotten(s)
        PROVE  kind = "newsapi" /\ Day(stamp[a]) < Day(Target(s)')
    <3>1. kind = "newsapi" /\ Day(stamp[a]) < Day(Target(s)) /\ a \in Shown
      BY DEF CursorInv, PassInv, Forgotten
    <3>2. Target(s) \in Int /\ Target(s)' \in Int /\ Target(s) <= Target(s)' /\ stamp[a] \in Int
      BY <1>1, <1>2, <3>1, CursorTypes DEF Target
    <3> QED
      BY <3>1, <3>2, DaysFollow
  <2> QED
    BY <1>1, <2>1 DEF CursorInv, PassInv, Forgotten, Shown, Day
<1>6. OwedIsReachable'
  BY <1>1 DEF CursorInv, OwedIsReachable, Owed, Shown, Within, BeforeItsDay, Day
<1> QED
  BY <1>1, <1>3, <1>4, <1>5, <1>6 DEF CursorInv

LEMMA CursorStep == CursorInv /\ [CursorNext]_cursorVars => CursorInv'
<1> SUFFICES ASSUME CursorInv, [CursorNext]_cursorVars
             PROVE  CursorInv'
  OBVIOUS
<1>1. pass \in [PassKinds -> Passes] /\ NoPass \in Passes /\ polled \subseteq Feeds
      /\ settled \subseteq News
  BY DEF CursorInv, CursorTypeOK, NoPass, Passes
<1>2. ASSUME NEW s \in PassKinds, NEW failed \in SUBSET pass[s].has, PassStops(s, failed)
      PROVE  CursorInv'
  <2>1. /\ settled' = settled \cup (pass[s].has \ failed)
        /\ pass' = [pass EXCEPT ![s] = NoPass]
        /\ UNCHANGED <<kind, now, stamp, of, cursor, polled>>
    BY <1>2 DEF PassStops
  <2>2. pass[s].has \subseteq News
    BY DEF CursorInv, CursorTypeOK
  <2> QED
    BY <1>1, <2>1, <2>2, SettlingKeeps
<1>3. ASSUME NEW f \in Feeds, FireNewsapi(f)
      PROVE  CursorInv'
  <2>1. /\ settled \subseteq settled' /\ settled' \subseteq settled \cup ShownBy({f})
        /\ UNCHANGED <<kind, now, stamp, of, cursor, polled, pass>>
    BY <1>3 DEF FireNewsapi, Newest
  <2>2. ShownBy({f}) \subseteq News
    BY DEF ShownBy, Shown
  <2> QED
    BY <1>1, <2>1, <2>2, SettlingKeeps
<1>4. ASSUME NEW f \in Feeds, SeedFeed(f) \/ EnableFeed(f) \/ DisableFeed(f)
      PROVE  CursorInv'
  BY <1>1, <1>4, SettlingKeeps DEF SeedFeed, EnableFeed, DisableFeed
<1>5. CASE UNCHANGED cursorVars
  BY <1>1, <1>5, SettlingKeeps DEF cursorVars
<1> QED
  BY <1>2, <1>3, <1>4, <1>5, RssKeeps, WisburgKeeps, NewsapiKeeps, FinishKeeps, CreateKeeps,
     ShowKeeps, TimeKeeps DEF CursorNext

LEMMA CursorInvariant == CursorSpec => []CursorInv
  BY CursorsStart, CursorStep, PTL DEF CursorSpec

(* Cursors, passes and windows of every kind of source keep their types. *)
THEOREM CursorTypesHold == CursorSpec => []CursorTypeOK
  BY CursorInvariant, PTL DEF CursorInv

(* What a source shows and no pass has taken is inside the window of a     *)
(* later pass (the windows of collector/rss, newsapi and wisburg, and the  *)
(* cursor that collect_feed writes).                                       *)
THEOREM OwedComesBack == CursorSpec => []OwedIsReachable
  BY CursorInvariant, PTL DEF CursorInv

-----------------------------------------------------------------------------
(* The backfill of the derived fields *)

InRound == {"loop", "write", "recount"}

(* A round does not lower its count below what is left, and counts nothing *)
(* only when nothing is left.                                              *)
CountInv ==
  /\ stage \in InRound => backlog # 0 /\ Pending <= backlog
  /\ stage = "publish" /\ backlog = 0 => missing \subseteq quarantined

(* A batch that leaves the count as it was is one of refusing points.      *)
BatchInv ==
  /\ stage = "write" => batch \subseteq missing \ quarantined \/ Pending < backlog
  /\ stage = "recount" => batch \subseteq refusing \/ Pending < backlog

BackfillInv == BackfillTypeOK /\ NoSilentUnderRecall /\ CountInv /\ BatchInv

LEMMA BackfillConstants ==
  /\ Points \subseteq Int /\ IsFiniteSet(Points)
  /\ ScrollBatch \in Nat \ {0} /\ StallRounds \in Nat \ {0} /\ QuarantineCap \in Nat \ {0}
  /\ Cardinality(Points) \in Nat
  BY PointsAssumption, BatchAssumption, FS_CardinalityType

(* Sets of points are finite, a smaller one has fewer.                     *)
LEMMA PointCounts ==
  ASSUME NEW S \in SUBSET Points, NEW T \in SUBSET S
  PROVE  /\ Cardinality(S) \in Depth /\ Cardinality(T) \in Depth
         /\ Cardinality(T) <= Cardinality(S)
         /\ T # S => Cardinality(T) < Cardinality(S)
         /\ Cardinality(S) = 0 <=> S = {}
<1>1. IsFiniteSet(S) /\ IsFiniteSet(T) /\ Cardinality(S) <= Cardinality(Points)
  BY BackfillConstants, FS_Subset
<1>2. Cardinality(S) \in Nat /\ Cardinality(T) \in Nat /\ Cardinality(T) <= Cardinality(S)
  BY <1>1, FS_CardinalityType, FS_Subset
<1>3. T # S => Cardinality(T) # Cardinality(S)
  BY <1>1, FS_Subset
<1>4. Cardinality(S) = 0 <=> S = {}
  BY <1>1, FS_EmptySet
<1> QED
  BY <1>1, <1>2, <1>3, <1>4, BackfillConstants DEF Depth

(* A scroll that returns nothing had nothing to return.                    *)
LEMMA ScrollFinds ==
  ASSUME NEW S \in SUBSET Points, S # {}
  PROVE  FirstOf(S, ScrollBatch) # {}
<1> DEFINE below(p) == {q \in S : q < p}
           counts == {Cardinality(below(p)) : p \in S}
<1>1. ASSUME NEW p \in S
      PROVE  Cardinality(below(p)) \in Nat
  BY PointCounts DEF Depth
<1>2. counts \subseteq Nat /\ counts # {}
  BY <1>1
<1> HIDE DEF counts
<1>3. PICK c \in counts : \A d \in counts : ~(<<d, c>> \in OpToRel(<, Nat))
  BY <1>2, WFMin, NatLessThanWellFounded
<1>4. \A d \in counts : ~(d < c)
  BY <1>2, <1>3 DEF OpToRel
<1>5. PICK p \in S : c = Cardinality(below(p))
  BY <1>3 DEF counts
<1>6. below(p) = {}
  <2>1. SUFFICES ASSUME NEW q \in below(p)
                 PROVE  FALSE
    OBVIOUS
  <2>2. below(q) \subseteq below(p) /\ q \notin below(q)
    <3>1. S \subseteq Int /\ p \in Int /\ q \in Int /\ q < p
      BY BackfillConstants
    <3>2. \A r \in Int : r < q => r < p
      BY <3>1
    <3>3. ~(q < q)
      BY <3>1
    <3> QED
      BY <3>1, <3>2, <3>3
  <2>3. Cardinality(below(q)) < Cardinality(below(p))
    BY <2>2, PointCounts
  <2> QED
    BY <2>3, <1>4, <1>5 DEF counts
<1>7. Cardinality(below(p)) = 0
  BY <1>6, FS_EmptySet
<1>8. p \in FirstOf(S, ScrollBatch)
  BY <1>7, BackfillConstants DEF FirstOf
<1> QED
  BY <1>8

(* The counts are of sets of points, and 0 for the empty one only.         *)
LEMMA PendingCounts ==
  ASSUME BackfillTypeOK
  PROVE  /\ Pending \in Depth /\ RawPending \in Depth
         /\ Pending = 0 <=> missing \subseteq quarantined
         /\ RawPending = 0 <=> missing = {}
<1>1. missing \subseteq Points
  BY DEF BackfillTypeOK
<1> QED
  BY <1>1, PointCounts DEF Pending, RawPending

(* Points leave missing: the count is not raised by it.                    *)
LEMMA FewerPending ==
  ASSUME BackfillTypeOK, missing' \subseteq missing, UNCHANGED quarantined
  PROVE  /\ Pending' \in Depth /\ Pending' <= Pending
         /\ (missing \ quarantined) # (missing' \ quarantined) => Pending' < Pending
<1>1. /\ missing \ quarantined \subseteq Points
      /\ missing' \ quarantined \subseteq missing \ quarantined
  BY DEF BackfillTypeOK
<1> QED
  BY <1>1, PointCounts DEF Pending

(* A batch that is set aside was one of refusing points.                   *)
LEMMA NoteStallKeeps ==
  ASSUME BackfillTypeOK, NoteStall, quarantined \subseteq refusing, batch \subseteq refusing
  PROVE  /\ quarantined \subseteq quarantined' /\ quarantined' \subseteq refusing
         /\ quarantined' \subseteq Points /\ exhausted' \in BOOLEAN
         /\ stalled' \subseteq Points /\ streak' \in 0..(StallRounds - 1)
<1> DEFINE rounds == IF batch = stalled THEN streak + 1 ELSE 1
<1>1. rounds \in Nat \ {0}
  BY BackfillConstants DEF BackfillTypeOK
<1>2. CASE rounds >= StallRounds
  <2>1. /\ quarantined' = quarantined \cup batch
        /\ exhausted' = (exhausted \/ Cardinality(quarantined') >= QuarantineCap)
        /\ stalled' = {} /\ streak' = 0
    BY <1>2 DEF NoteStall
  <2> QED
    BY <2>1, BackfillConstants DEF BackfillTypeOK
<1>3. CASE ~(rounds >= StallRounds)
  <2>1. stalled' = batch /\ streak' = rounds /\ UNCHANGED <<quarantined, exhausted>>
    BY <1>3 DEF NoteStall
  <2>2. rounds \in 0..(StallRounds - 1)
    BY <1>1, <1>3, BackfillConstants
  <2> QED
    BY <2>1, <2>2 DEF BackfillTypeOK
<1> QED
  BY <1>2, <1>3

LEMMA BackfillStarts == BackfillInit => BackfillInv
<1> SUFFICES ASSUME BackfillInit
             PROVE  BackfillInv
  OBVIOUS
<1>1. BackfillTypeOK
  <2>1. 0 \in Depth /\ 0 \in 0..(StallRounds - 1)
    BY BackfillConstants DEF Depth
  <2> QED
    BY <2>1 DEF BackfillInit, BackfillTypeOK
<1>2. NoSilentUnderRecall
  BY DEF BackfillInit, NoSilentUnderRecall, Unknown
<1> QED
  BY <1>1, <1>2 DEF BackfillInv, BackfillInit, CountInv, BatchInv, InRound

(* The round; what else changes missing only shrinks it.                   *)
LEMMA RoundKeeps ==
  ASSUME BackfillInv, StartRound \/ CountFails \/ Scroll \/ WriteBatch \/ Recount
  PROVE  BackfillInv'
<1> USE DEF BackfillInv
<1>0. /\ Pending \in Depth /\ RawPending \in Depth
      /\ Pending = 0 <=> missing \subseteq quarantined
      /\ RawPending = 0 <=> missing = {}
      /\ Depth \subseteq Nat /\ 0 \in Depth
  BY PendingCounts, BackfillConstants DEF Depth
<1>1. CASE StartRound
  <2>1. Pending' = Pending
    BY <1>1 DEF StartRound, Pending
  <2>2. BackfillTypeOK'
    BY <1>0, <1>1 DEF StartRound, BackfillTypeOK
  <2>3. NoSilentUnderRecall' /\ BatchInv'
    BY <1>1 DEF StartRound, NoSilentUnderRecall, BatchInv
  <2>4. CountInv'
    BY <1>0, <1>1, <2>1 DEF StartRound, CountInv, InRound
  <2> QED
    BY <2>2, <2>3, <2>4
<1>2. CASE CountFails
  <2>1. Pending' = Pending
    BY <1>2 DEF CountFails, Pending
  <2>2. BackfillTypeOK'
    BY <1>2 DEF CountFails, BackfillTypeOK
  <2>3. NoSilentUnderRecall'
    BY <1>2 DEF CountFails, NoSilentUnderRecall, Unknown
  <2>4. CountInv' /\ BatchInv'
    BY <1>2, <2>1 DEF CountFails, CountInv, BatchInv, InRound
  <2> QED
    BY <2>2, <2>3, <2>4
<1>3. CASE Scroll
  <2> DEFINE found == FirstOf(missing \ quarantined, ScrollBatch)
  <2>1. found \subseteq missing \ quarantined /\ found \subseteq Points
    BY DEF FirstOf, BackfillTypeOK
  <2>2. found = {} => missing \subseteq quarantined
    BY ScrollFinds DEF BackfillTypeOK
  <2>3. /\ stage = "loop" /\ batch' = found
        /\ found = {} => stage' = "publish" /\ backlog' = 0
        /\ found # {} => stage' = "write" /\ UNCHANGED backlog
        /\ UNCHANGED <<missing, refusing, quarantined, exhausted, stalled, streak, flag>>
    BY <1>3 DEF Scroll
  <2> HIDE DEF found
  <2>4. Pending' = Pending
    BY <2>3 DEF Pending
  <2>5. BackfillTypeOK'
    BY <1>0, <2>1, <2>3 DEF BackfillTypeOK
  <2>6. NoSilentUnderRecall'
    BY <2>3 DEF NoSilentUnderRecall
  <2>7. CountInv' /\ BatchInv'
    BY <2>1, <2>2, <2>3, <2>4 DEF CountInv, BatchInv, InRound
  <2> QED
    BY <2>5, <2>6, <2>7
<1>4. CASE WriteBatch
  <2>1. /\ stage = "write" /\ missing' = missing \ (batch \ refusing) /\ stage' = "recount"
        /\ UNCHANGED <<refusing, backlog, batch, quarantined, exhausted, stalled, streak, flag>>
    BY <1>4 DEF WriteBatch
  <2>2. /\ Pending' \in Depth /\ Pending' <= Pending
        /\ (missing \ quarantined) # (missing' \ quarantined) => Pending' < Pending
    BY <2>1, FewerPending
  <2>3. BackfillTypeOK' /\ NoSilentUnderRecall'
    BY <2>1 DEF BackfillTypeOK, NoSilentUnderRecall
  <2>4. backlog \in Nat /\ backlog # 0 /\ Pending <= backlog
    BY <1>0, <2>1 DEF CountInv, InRound, BackfillTypeOK
  <2>5. CountInv'
    BY <1>0, <2>1, <2>2, <2>4 DEF CountInv, InRound
  <2>6. batch \subseteq refusing \/ Pending' < backlog
    <3>1. CASE Pending < backlog
      BY <1>0, <2>2, <2>4, <3>1
    <3>2. CASE batch \subseteq missing \ quarantined /\ ~(batch \subseteq refusing)
      <4>1. (missing \ quarantined) # (missing' \ quarantined)
        BY <2>1, <3>2
      <4> QED
        BY <1>0, <2>2, <2>4, <4>1
    <3> QED
      BY <2>1, <3>1, <3>2 DEF BatchInv
  <2>7. BatchInv'
    BY <2>1, <2>6 DEF BatchInv
  <2> QED
    BY <2>3, <2>5, <2>7
<1>5. CASE Recount
  <2>1. /\ stage = "recount" /\ backlog' = Pending /\ batch' = {}
        /\ UNCHANGED <<missing, refusing, flag>>
    BY <1>5 DEF Recount
  <2>2. backlog \in Nat /\ backlog # 0
    BY <1>0, <2>1 DEF CountInv, InRound, BackfillTypeOK
  <2>3. CASE Pending >= backlog
    <3>1. NoteStall /\ stage' = "publish"
      BY <1>5, <2>3 DEF Recount
    <3>2. batch \subseteq refusing
      BY <1>0, <2>1, <2>2, <2>3 DEF BatchInv
    <3>3. /\ quarantined \subseteq quarantined' /\ quarantined' \subseteq refusing
          /\ quarantined' \subseteq Points /\ exhausted' \in BOOLEAN
          /\ stalled' \subseteq Points /\ streak' \in 0..(StallRounds - 1)
      BY <3>1, <3>2, NoteStallKeeps DEF NoSilentUnderRecall
    <3>4. BackfillTypeOK'
      BY <1>0, <2>1, <3>1, <3>3 DEF BackfillTypeOK
    <3>5. NoSilentUnderRecall' /\ BatchInv'
      BY <2>1, <3>1, <3>3 DEF NoSilentUnderRecall, BatchInv
    <3>6. CountInv'
      BY <1>0, <2>1, <2>2, <2>3, <3>1, <3>3 DEF CountInv, InRound
    <3> QED
      BY <3>4, <3>5, <3>6
  <2>4. CASE ~(Pending >= backlog)
    <3>1. /\ stalled' = {} /\ streak' = 0 /\ UNCHANGED <<quarantined, exhausted>>
          /\ stage' = IF Pending = 0 THEN "publish" ELSE "loop"
      BY <1>5, <2>4 DEF Recount
    <3>2. Pending' = Pending
      BY <2>1, <3>1 DEF Pending
    <3>3. BackfillTypeOK'
      BY <1>0, <2>1, <3>1, BackfillConstants DEF BackfillTypeOK
    <3>4. NoSilentUnderRecall' /\ BatchInv'
      BY <2>1, <3>1 DEF NoSilentUnderRecall, BatchInv
    <3>5. CountInv'
      BY <1>0, <2>1, <3>1, <3>2 DEF CountInv, InRound
    <3> QED
      BY <3>3, <3>4, <3>5
  <2> QED
    BY <2>3, <2>4
<1> QED
  BY <1>1, <1>2, <1>3, <1>4, <1>5

LEMMA BackfillStep == BackfillInv /\ [BackfillNext]_backfillVars => BackfillInv'
<1> SUFFICES ASSUME BackfillInv, [BackfillNext]_backfillVars
             PROVE  BackfillInv'
  OBVIOUS
<1> USE DEF BackfillInv
<1>0. /\ Pending \in Depth /\ RawPending \in Depth
      /\ Pending = 0 <=> missing \subseteq quarantined
      /\ RawPending = 0 <=> missing = {}
      /\ Depth \subseteq Nat /\ 0 \in Depth
  BY PendingCounts, BackfillConstants DEF Depth
<1>1. ASSUME NEW written \in SUBSET batch, RoundStops(written)
      PROVE  BackfillInv'
  <2>1. /\ stage \in InRound /\ missing' = missing \ written
        /\ stage' = "publish" /\ batch' = {}
        /\ UNCHANGED <<refusing, backlog, quarantined, exhausted, stalled, streak, flag>>
    BY <1>1 DEF RoundStops, InRound
  <2>2. BackfillTypeOK' /\ NoSilentUnderRecall' /\ BatchInv'
    BY <2>1 DEF BackfillTypeOK, NoSilentUnderRecall, BatchInv
  <2>3. CountInv'
    BY <2>1 DEF CountInv, InRound
  <2> QED
    BY <2>2, <2>3
<1>2. ASSUME NEW counted \in BOOLEAN, Publish(counted)
      PROVE  BackfillInv'
  <2>1. /\ stage = "publish" /\ stage' = "idle" /\ backlog' = 0 /\ batch' = {}
        /\ flag' \in {PublishedDepth, Unknown}
        /\ UNCHANGED <<missing, refusing, quarantined, exhausted, stalled, streak>>
    BY <1>2 DEF Publish
  <2>2. PublishedDepth \in Depth /\ (PublishedDepth = 0 => missing = {})
    BY <1>0, <2>1 DEF PublishedDepth, CountInv, BackfillTypeOK
  <2>3. BackfillTypeOK'
    BY <1>0, <2>1, <2>2 DEF BackfillTypeOK
  <2>4. NoSilentUnderRecall'
    BY <2>1, <2>2 DEF NoSilentUnderRecall, Unknown
  <2> QED
    BY <2>1, <2>3, <2>4 DEF CountInv, BatchInv, InRound
<1>3. ASSUME NEW counted \in BOOLEAN, StartProcess(counted)
      PROVE  BackfillInv'
  <2>1. /\ stage' = "idle" /\ backlog' = 0 /\ batch' = {} /\ quarantined' = {}
        /\ exhausted' = FALSE /\ stalled' = {} /\ streak' = 0
        /\ flag' \in {RawPending, Unknown} /\ UNCHANGED <<missing, refusing>>
    BY <1>3 DEF StartProcess
  <2>2. BackfillTypeOK'
    <3>1. 0 \in 0..(StallRounds - 1)
      BY BackfillConstants
    <3>2. flag' \in Depth \cup {Unknown}
      BY <1>0, <2>1
    <3> QED
      BY <1>0, <2>1, <3>1, <3>2 DEF BackfillTypeOK
  <2>3. NoSilentUnderRecall'
    BY <1>0, <2>1 DEF NoSilentUnderRecall, Unknown
  <2> QED
    BY <2>1, <2>2, <2>3 DEF CountInv, BatchInv, InRound
<1>4. ASSUME NEW p \in Points, TtlDeletes(p)
      PROVE  BackfillInv'
  <2>1. /\ missing' = missing \ {p} /\ p \in missing
        /\ UNCHANGED <<refusing, stage, backlog, batch, quarantined, exhausted, stalled, streak,
                       flag>>
    BY <1>4 DEF TtlDeletes
  <2>2. /\ Pending' \in Depth /\ Pending' <= Pending
        /\ (missing \ quarantined) # (missing' \ quarantined) => Pending' < Pending
    BY <2>1, FewerPending
  <2>3. BackfillTypeOK' /\ NoSilentUnderRecall'
    BY <2>1 DEF BackfillTypeOK, NoSilentUnderRecall
  <2>4. backlog \in Nat
    BY <1>0 DEF BackfillTypeOK
  <2>5. CountInv'
    BY <1>0, <2>1, <2>2, <2>4 DEF CountInv, InRound
  <2>6. stage \in {"write", "recount"} => Pending <= backlog
    BY DEF CountInv, InRound
  <2>7. stage = "write" => batch \subseteq missing' \ quarantined \/ Pending' < backlog
    BY <1>0, <2>1, <2>2, <2>4, <2>6 DEF BatchInv
  <2>8. stage = "recount" => batch \subseteq refusing \/ Pending' < backlog
    BY <1>0, <2>2, <2>4 DEF BatchInv
  <2>9. BatchInv'
    BY <2>1, <2>7, <2>8 DEF BatchInv
  <2> QED
    BY <2>3, <2>5, <2>9
<1>5. CASE UNCHANGED backfillVars
  BY <1>5 DEF backfillVars, BackfillTypeOK, NoSilentUnderRecall, CountInv, BatchInv, Pending
<1> QED
  BY <1>1, <1>2, <1>3, <1>4, <1>5, RoundKeeps DEF BackfillNext

LEMMA BackfillInvariant == BackfillSpec => []BackfillInv
  BY BackfillStarts, BackfillStep, PTL DEF BackfillSpec

(* Rounds, quarantine and the published depth keep their types. *)
THEOREM BackfillTypesHold == BackfillSpec => []BackfillTypeOK
  BY BackfillInvariant, PTL DEF BackfillInv

(* No search goes unwarned while a point lacks its derived fields          *)
(* (maintenance/derived_backfill).                                         *)
THEOREM WarnsWhileFieldsMiss == BackfillSpec => []NoSilentUnderRecall
  BY BackfillInvariant, PTL DEF BackfillInv

-----------------------------------------------------------------------------
(* The migration of the intents *)

(* At most one collection with named vectors, of points of intents.        *)
OneCollection ==
    /\ mv = {} \/ \E points \in SUBSET Pairs : mv = {points}
    /\ \A points \in mv : points \subseteq Pairs /\ OneTextEach(points)

MigrationShape ==
    /\ intents \subseteq Pairs /\ OneTextEach(intents)
    /\ alias \in {"none", "legacy", "mv"}
    /\ OneCollection
    /\ start \in {"down", "probe", "delete", "create", "upsert", "flip", "up"}
    /\ reused \in BOOLEAN

(* A collection with a point of every intent and of no other.              *)
Whole ==
    /\ mv # {}
    /\ \A points \in mv : IdsOf(points) = IdsOf(intents) /\ (~reused => points = intents)

(* The alias is only moved to a whole collection, and taken away before it *)
(* is built anew.                                                          *)
AliasInv ==
    /\ alias = "mv" \/ start = "flip" => Whole
    /\ start = "up" => alias = "mv"
    /\ start \in {"create", "upsert"} => alias # "mv"

MigrationInv == MigrationShape /\ AliasInv

(* Saving and removing an intent keep a text per intent, and do the same   *)
(* to the ids of the rows and of the points.                               *)
LEMMA SavedPairs ==
    ASSUME NEW pairs \in SUBSET Pairs, OneTextEach(pairs), NEW i \in IntentIds, NEW t \in Texts
    PROVE  /\ Without(pairs, i) \cup {<<i, t>>} \in SUBSET Pairs
           /\ OneTextEach(Without(pairs, i) \cup {<<i, t>>})
           /\ IdsOf(Without(pairs, i) \cup {<<i, t>>}) = IdsOf(pairs) \cup {i}
<1>1. Without(pairs, i) \cup {<<i, t>>} \in SUBSET Pairs
  BY DEF Without, Pairs
<1>2. OneTextEach(Without(pairs, i) \cup {<<i, t>>})
  BY DEF Without, OneTextEach, Pairs
<1>3. IdsOf(Without(pairs, i) \cup {<<i, t>>}) = IdsOf(pairs) \cup {i}
  <2>1. ASSUME NEW j \in IdsOf(pairs) \cup {i}
        PROVE  j \in IdsOf(Without(pairs, i) \cup {<<i, t>>})
    <3>1. CASE j = i
      <4>1. <<i, t>> \in Without(pairs, i) \cup {<<i, t>>} /\ <<i, t>>[1] = i
        OBVIOUS
      <4> QED
        BY <4>1, <3>1 DEF IdsOf
    <3>2. CASE j # i
      <4>1. PICK p \in pairs : j = p[1]
        BY <2>1, <3>2 DEF IdsOf
      <4>2. p \in Without(pairs, i)
        BY <4>1, <3>2 DEF Without
      <4> QED
        BY <4>1, <4>2 DEF IdsOf
    <3> QED
      BY <3>1, <3>2
  <2>2. IdsOf(Without(pairs, i) \cup {<<i, t>>}) \subseteq IdsOf(pairs) \cup {i}
    BY DEF Without, IdsOf
  <2> QED
    BY <2>1, <2>2
<1> QED
  BY <1>1, <1>2, <1>3

LEMMA RemovedPairs ==
    ASSUME NEW pairs \in SUBSET Pairs, OneTextEach(pairs), NEW i \in IntentIds
    PROVE  /\ Without(pairs, i) \in SUBSET Pairs
           /\ OneTextEach(Without(pairs, i))
           /\ IdsOf(Without(pairs, i)) = IdsOf(pairs) \ {i}
  BY DEF Without, OneTextEach, IdsOf, Pairs

LEMMA MigrationStarts == MigrationInit => MigrationInv
  BY DEF MigrationInit, MigrationInv, MigrationShape, OneCollection, AliasInv, OneTextEach

(* What a stage does leaves the shape, and a whole collection where the    *)
(* alias is or where it goes next.                                         *)
LEMMA EffectKeeps ==
    ASSUME MigrationInv, Effect, UNCHANGED intents, start \in DOMAIN After \cup {"probe"}
    PROVE  /\ OneCollection'
           /\ alias' \in {"none", "legacy", "mv"}
           /\ reused' \in BOOLEAN
           /\ alias' = "mv" \/ start = "upsert" => Whole'
           /\ start = "flip" => alias' = "mv"
           /\ start \in {"delete", "create"} => alias' # "mv"
<1> USE DEF MigrationInv, MigrationShape
<1>1. CASE start = "delete"
  <2>1. mv' = {} /\ alias' # "mv" /\ alias' \in {"none", "legacy", "mv"} /\ reused' = FALSE
    BY <1>1 DEF Effect
  <2> QED
    BY <2>1, <1>1 DEF OneCollection
<1>2. CASE start = "create"
  <2>1. mv' = {{}} /\ alias' = alias /\ reused' = reused
    BY <1>2 DEF Effect
  <2> QED
    BY <2>1, <1>2 DEF OneCollection, AliasInv, OneTextEach
<1>3. CASE start = "upsert"
  <2>1. mv' = {intents} /\ alias' = alias /\ reused' = reused
    BY <1>3 DEF Effect
  <2>2. Whole'
    BY <2>1 DEF Whole
  <2> QED
    BY <2>1, <2>2, <1>3 DEF OneCollection
<1>4. CASE start = "flip"
  <2>1. mv' = mv /\ alias' = "mv" /\ reused' = reused
    BY <1>4 DEF Effect
  <2>2. Whole'
    BY <2>1, <1>4 DEF Whole, AliasInv
  <2> QED
    BY <2>1, <2>2, <1>4 DEF OneCollection
<1>5. CASE start = "probe"
  <2>1. mv' = mv /\ alias' = alias /\ reused' = reused
    BY <1>5 DEF Effect
  <2> QED
    BY <2>1, <1>5 DEF OneCollection, AliasInv, Whole
<1> QED
  BY <1>1, <1>2, <1>3, <1>4, <1>5 DEF After

LEMMA MigrationStep == MigrationInv /\ [MigrationNext]_migrationVars => MigrationInv'
<1> SUFFICES ASSUME MigrationInv, [MigrationNext]_migrationVars
             PROVE  MigrationInv'
  OBVIOUS
<1> USE DEF MigrationInv, MigrationShape
<1>1. ASSUME StartsMigrated \/ StartMigration \/ StopProcess \/ GoBack
      PROVE  MigrationInv'
  BY <1>1 DEF StartsMigrated, StartMigration, StopProcess, GoBack, AliasInv, Whole, OneCollection
<1>2. ASSUME NEW answered \in BOOLEAN, Probe(answered)
      PROVE  MigrationInv'
  <2>1. UNCHANGED <<intents, alias, mv>> /\ start = "probe"
    BY <1>2 DEF Probe
  <2>2. /\ start' \in {"create", "flip", "delete"}
        /\ start' = "create" => mv = {}
        /\ start' = "flip" => mv # {} /\ reused' /\ \A points \in mv : LeftComplete(points)
        /\ reused' \in BOOLEAN /\ (reused => reused')
    BY <1>2, <2>1 DEF Probe
  <2>3. MigrationShape'
    BY <2>1, <2>2 DEF OneCollection
  <2>4. AliasInv'
    BY <2>1, <2>2 DEF AliasInv, Whole, LeftComplete
  <2> QED
    BY <2>3, <2>4
<1>3. ASSUME StageDone
      PROVE  MigrationInv'
  <2>1. start \in DOMAIN After /\ Effect /\ UNCHANGED intents /\ start' = After[start]
    BY <1>3 DEF StageDone
  <2>2. DOMAIN After = {"delete", "create", "upsert", "flip"}
    BY DEF After
  <2>3. /\ start = "delete" => start' = "create"
        /\ start = "create" => start' = "upsert"
        /\ start = "upsert" => start' = "flip"
        /\ start = "flip" => start' = "up"
    BY <2>1 DEF After
  <2>4. /\ OneCollection'
        /\ alias' \in {"none", "legacy", "mv"}
        /\ reused' \in BOOLEAN
        /\ alias' = "mv" \/ start = "upsert" => Whole'
        /\ start = "flip" => alias' = "mv"
        /\ start \in {"delete", "create"} => alias' # "mv"
    BY <2>1, EffectKeeps
  <2>5. MigrationShape'
    BY <2>1, <2>2, <2>3, <2>4
  <2>6. AliasInv'
    BY <2>1, <2>2, <2>3, <2>4 DEF AliasInv
  <2> QED
    BY <2>5, <2>6
<1>4. ASSUME NEW applied \in BOOLEAN, StartFails(applied)
      PROVE  MigrationInv'
  <2>1. start' = "down" /\ UNCHANGED intents /\ start \in DOMAIN After \cup {"probe"}
    BY <1>4 DEF StartFails
  <2>2. CASE applied
    <3>1. /\ OneCollection'
          /\ alias' \in {"none", "legacy", "mv"}
          /\ reused' \in BOOLEAN
          /\ alias' = "mv" => Whole'
      BY <2>1, <2>2, <1>4, EffectKeeps DEF StartFails
    <3> QED
      BY <2>1, <3>1 DEF AliasInv
  <2>3. CASE ~applied
    BY <2>1, <2>3, <1>4 DEF StartFails, AliasInv, OneCollection, Whole
  <2> QED
    BY <2>2, <2>3
<1>5. ASSUME NEW i \in IntentIds, NEW t \in Texts, Save(i, t)
      PROVE  MigrationInv'
  <2> DEFINE saved(pairs) == Without(pairs, i) \cup {<<i, t>>}
  <2>1. /\ start = "up" /\ intents' = saved(intents)
        /\ mv' = {saved(points) : points \in mv} /\ UNCHANGED <<alias, start, reused>>
    BY <1>5 DEF Save
  <2>2. ASSUME NEW pairs \in SUBSET Pairs, OneTextEach(pairs)
        PROVE  saved(pairs) \in SUBSET Pairs /\ OneTextEach(saved(pairs))
               /\ IdsOf(saved(pairs)) = IdsOf(pairs) \cup {i}
    BY <2>2, SavedPairs
  <2> HIDE DEF saved
  <2>3. MigrationShape'
    BY <2>1, <2>2 DEF OneCollection
  <2>4. Whole'
    BY <2>1, <2>2 DEF OneCollection, AliasInv, Whole
  <2>5. AliasInv'
    BY <2>1, <2>4 DEF AliasInv
  <2> QED
    BY <2>3, <2>5
<1>6. ASSUME NEW i \in IntentIds, Remove(i)
      PROVE  MigrationInv'
  <2>1. /\ start = "up" /\ intents' = Without(intents, i)
        /\ mv' = {Without(points, i) : points \in mv} /\ UNCHANGED <<alias, start, reused>>
    BY <1>6 DEF Remove
  <2>3. MigrationShape'
    BY <2>1, RemovedPairs DEF OneCollection
  <2>4. Whole'
    <3>1. Whole
      BY <2>1 DEF AliasInv
    <3>2. ASSUME NEW points \in mv
          PROVE  /\ IdsOf(Without(points, i)) = IdsOf(intents')
                 /\ ~reused => Without(points, i) = intents'
      <4>1. points \in SUBSET Pairs /\ OneTextEach(points) /\ IdsOf(points) = IdsOf(intents)
        BY <3>1 DEF Whole, OneCollection
      <4>2. IdsOf(Without(points, i)) = IdsOf(points) \ {i}
        BY <4>1, RemovedPairs
      <4>3. IdsOf(intents') = IdsOf(intents) \ {i}
        BY <2>1, RemovedPairs
      <4>4. ~reused => Without(points, i) = intents'
        BY <2>1, <3>1 DEF Whole
      <4> QED
        BY <4>1, <4>2, <4>3, <4>4
    <3> QED
      BY <2>1, <3>1, <3>2 DEF Whole
  <2>5. AliasInv'
    BY <2>1, <2>4 DEF AliasInv
  <2> QED
    BY <2>3, <2>5
<1>7. ASSUME NEW i \in IntentIds, OldRemove(i) \/ \E t \in Texts : OldSave(i, t)
      PROVE  MigrationInv'
  <2>1. /\ start = "down" /\ alias = "legacy" /\ UNCHANGED <<alias, mv, start, reused>>
        /\ intents' \subseteq Pairs /\ OneTextEach(intents')
    <3>1. ASSUME OldRemove(i)
          PROVE  <2>1!:
      BY <3>1, RemovedPairs DEF OldRemove
    <3>2. ASSUME NEW t \in Texts, OldSave(i, t)
          PROVE  <2>1!:
      BY <3>2, SavedPairs DEF OldSave
    <3> QED
      BY <1>7, <3>1, <3>2
  <2> QED
    BY <2>1 DEF AliasInv, OneCollection
<1>8. CASE UNCHANGED migrationVars
  BY <1>8 DEF migrationVars, AliasInv, Whole, OneCollection
<1> QED
  BY <1>1, <1>2, <1>3, <1>4, <1>5, <1>6, <1>7, <1>8 DEF MigrationNext

LEMMA MigrationInvariant == MigrationSpec => []MigrationInv
  BY MigrationStarts, MigrationStep, PTL DEF MigrationSpec

(* Collections, alias and the stages of a start keep their types. *)
THEOREM MigrationTypesHold == MigrationSpec => []MigrationTypeOK
<1>1. ASSUME OneCollection PROVE Cardinality(mv) <= 1
  BY <1>1, FS_EmptySet, FS_Singleton DEF OneCollection
<1>2. MigrationInv => MigrationTypeOK
  BY <1>1 DEF MigrationInv, MigrationShape, OneCollection, MigrationTypeOK
<1> QED
  BY <1>2, MigrationInvariant, PTL

(* When the API is up the alias names a collection with the points of all  *)
(* intents, however many starts broke off before (vector_store/intents     *)
(* ensure_collection).                                                     *)
THEOREM MigrationEndsWhole == MigrationSpec => []MigratedWhole
<1>1. MigrationInv => MigratedWhole
  BY DEF MigrationInv, AliasInv, Whole, MigratedWhole
<1> QED
  BY <1>1, MigrationInvariant, PTL

-----------------------------------------------------------------------------
(* The shared connection.  Without flush's implicit transactions every     *)
(* block is atomic: it takes only SQLite's refusal of a second BEGIN, not  *)
(* the lock.  The lock is what makes the refusal never happen, and for     *)
(* that absorb has to go too.                                              *)

(* Coroutines that are inside their transaction. *)
InBody(c) == pc[c] \in {"first", "second", "commit", "rollback"}

(* The rows a coroutine has written when it stands at a statement. *)
Written(c) ==
    IF pc[c] = "first" THEN {} ELSE IF pc[c] = "second" THEN {<<c, 1>>} ELSE RowsOf(c)

(* Exactly one coroutine is inside the open transaction, and what the      *)
(* connection sees beyond the durable state is that coroutine's work.      *)
OneTransaction ==
    /\ inTx <=> \E c \in Coroutines : InBody(c)
    /\ \A c, d \in Coroutines : InBody(c) /\ InBody(d) => c = d
    /\ ~inTx => working = durable
    /\ \A c \in Coroutines :
          InBody(c) /\ pc[c] # "rollback" => working = durable \cup Written(c)

Unfinished == \A c \in Coroutines : pc[c] # "idle" => result[c] = "none"

Inv == TypeOK /\ OneTransaction /\ Unfinished /\ AllOrNothing

NoImplicit == Implicit = {}

LEMMA InvInit == Init => Inv
BY DEF Init, ConnInit, Inv, TypeOK, OneTransaction, Unfinished, AllOrNothing, InBody, Blocks,
       Coroutines

(* A step that leaves the connection alone and moves one coroutine between *)
(* two points outside the transaction.                                     *)
LEMMA OutsideKeeps ==
    ASSUME NoImplicit, Inv, NEW c \in Coroutines, NEW to \in {"idle", "begin"},
           NEW how \in {"none", "failed"},
           pc[c] \in {"idle", "begin"}, pc' = [pc EXCEPT ![c] = to],
           result[c] # "committed", result' = [result EXCEPT ![c] = how],
           to # "idle" => how = "none",
           lock' \in Locked \cup {NoOwner}, UNCHANGED connVars
    PROVE  Inv'
<1>1. TypeOK'
    BY DEF Inv, TypeOK, connVars
<1>2. \A d \in Coroutines : /\ InBody(d)' <=> InBody(d)
                            /\ InBody(d) => pc'[d] = pc[d]
    BY DEF Inv, TypeOK, InBody
<1>3. OneTransaction'
    BY <1>2 DEF Inv, OneTransaction, Written, connVars
<1>4. Unfinished' /\ AllOrNothing'
    BY DEF Inv, TypeOK, Unfinished, AllOrNothing, connVars, Blocks, Coroutines
<1> QED BY <1>1, <1>3, <1>4 DEF Inv

LEMMA StepKeeps == NoImplicit /\ Inv /\ [Next]_vars => Inv'
<1> SUFFICES ASSUME NoImplicit, Inv, [Next]_vars PROVE Inv'
    OBVIOUS
<1>t. TypeOK
    BY DEF Inv
<1>1. ASSUME NEW c \in Coroutines, Enter(c) PROVE Inv'
    <2>1. result' = [result EXCEPT ![c] = "none"]
        BY <1>1, <1>t DEF Enter, TypeOK
    <2>2. lock' \in Locked \cup {NoOwner}
        BY <1>1, <1>t DEF Enter, TypeOK
    <2> QED BY <1>1, <2>1, <2>2, OutsideKeeps DEF Enter, Goto, connVars
<1>2. ASSUME NEW c \in Coroutines, Begin(c) PROVE Inv'
    <2>1. ~inTx /\ \A d \in Coroutines : ~InBody(d)
        BY <1>2 DEF Begin, BeginStatement, Inv, OneTransaction
    <2>2. TypeOK' /\ Unfinished' /\ AllOrNothing'
        BY <1>2 DEF Begin, BeginStatement, Goto, Inv, TypeOK, Unfinished, AllOrNothing
    <2>3. OneTransaction'
        BY <1>2, <1>t, <2>1 DEF Begin, BeginStatement, Goto, Inv, TypeOK, OneTransaction, InBody,
                                Written
    <2> QED BY <2>2, <2>3 DEF Inv
<1>3. ASSUME NEW c \in Coroutines, BeginRefused(c) PROVE Inv'
    <2>1. result[c] = "none" /\ pc[c] = "begin"
        BY <1>3 DEF BeginRefused, Inv, Unfinished
    <2>2. lock' \in Locked \cup {NoOwner}
        BY <1>3, <1>t DEF BeginRefused, Leave, TypeOK
    <2> QED BY <1>3, <2>1, <2>2, OutsideKeeps DEF BeginRefused, Leave
<1>4. ASSUME NEW c \in Coroutines, FirstStatement(c) \/ SecondStatement(c) PROVE Inv'
    <2>0. InBody(c) /\ inTx
        BY <1>4 DEF FirstStatement, SecondStatement, Goto, InBody, Inv, OneTransaction
    <2>a. /\ UNCHANGED <<durable, lock, result>>
          /\ \E to \in {"second", "commit"} : pc' = [pc EXCEPT ![c] = to]
          /\ working' \subseteq working \cup ({c} \X {1, 2})
        BY <1>4 DEF FirstStatement, SecondStatement, DmlStatement, Goto
    <2>b. inTx'
        BY <1>4 DEF FirstStatement, SecondStatement, DmlStatement
    <2>c. TypeOK'
        BY <1>t, <2>a, <2>b DEF TypeOK
    <2>d. Unfinished' /\ AllOrNothing'
        BY <1>t, <2>0, <2>a DEF Inv, Unfinished, AllOrNothing, InBody, TypeOK
    <2>1. TypeOK' /\ Unfinished' /\ AllOrNothing'
        BY <2>c, <2>d
    <2>2. \A d \in Coroutines : InBody(d)' <=> InBody(d)
        BY <1>4, <1>t DEF FirstStatement, SecondStatement, Goto, InBody, TypeOK
    <2>3. \A d \in Coroutines : InBody(d) => d = c
        BY <2>0 DEF Inv, OneTransaction
    <2>4. working' = durable' \cup Written(c)'
        BY <1>4, <1>t, <2>0 DEF FirstStatement, SecondStatement, DmlStatement, Goto, TypeOK, Inv,
                                OneTransaction, Written, RowsOf
    <2>5. inTx'
        BY <1>4 DEF FirstStatement, SecondStatement, DmlStatement
    <2>6. OneTransaction'
        BY <2>0, <2>2, <2>3, <2>4, <2>5 DEF OneTransaction
    <2> QED BY <2>1, <2>6 DEF Inv
<1>5. ASSUME NEW c \in Coroutines, BlockRaises(c) PROVE Inv'
    <2>1. TypeOK' /\ Unfinished' /\ AllOrNothing'
        BY <1>5 DEF BlockRaises, Inv, TypeOK, Unfinished, AllOrNothing, connVars
    <2>2. OneTransaction'
        BY <1>5, <1>t DEF BlockRaises, Inv, TypeOK, OneTransaction, InBody, Written, connVars
    <2> QED BY <2>1, <2>2 DEF Inv
<1>6. ASSUME NEW c \in Coroutines, Commit(c) \/ Rollback(c) PROVE Inv'
    <2>0. InBody(c) /\ c \in Blocks
        BY <1>6 DEF Commit, Rollback, InBody, Blocks, Coroutines, NoImplicit
    <2>1. \A d \in Coroutines : InBody(d) => d = c
        BY <2>0 DEF Inv, OneTransaction
    <2>2. pc' = [pc EXCEPT ![c] = "idle"] /\ inTx' = FALSE /\ working' = durable'
        BY <1>6 DEF Commit, Rollback, CommitWork, RollbackWork, Leave
    <2>3. \A d \in Coroutines : ~InBody(d)'
        BY <1>t, <2>1, <2>2 DEF InBody, TypeOK
    <2>4. OneTransaction'
        BY <2>2, <2>3 DEF OneTransaction
    <2>5. TypeOK' /\ Unfinished'
        BY <1>6 DEF Commit, Rollback, CommitWork, RollbackWork, Leave, Inv, TypeOK, Unfinished
    <2>6. AllOrNothing'
        <3>1. CASE Commit(c)
            <4>1. durable' = durable \cup RowsOf(c)
                BY <3>1, <2>0 DEF Commit, CommitWork, Inv, OneTransaction, Written
            <4>2. result' = [result EXCEPT ![c] = "committed"]
                BY <3>1 DEF Commit, Leave
            <4>3. \A d \in Blocks \ {c} : RowsOf(d) \cap RowsOf(c) = {}
                BY DEF RowsOf
            <4> QED BY <1>t, <2>0, <4>1, <4>2, <4>3 DEF Inv, AllOrNothing, TypeOK
        <3>2. CASE Rollback(c)
            <4>1. result[c] = "none"
                BY <3>2 DEF Rollback, Inv, Unfinished
            <4> QED BY <1>t, <3>2, <4>1 DEF Rollback, RollbackWork, Leave, Inv, AllOrNothing, TypeOK
        <3> QED BY <1>6, <3>1, <3>2
    <2> QED BY <2>4, <2>5, <2>6 DEF Inv
<1>7. ASSUME NEW c \in Coroutines, Again(c) PROVE Inv'
    <2>1. pc' = [pc EXCEPT ![c] = "idle"]
        BY <1>7, <1>t DEF Again, TypeOK
    <2>2. lock' \in Locked \cup {NoOwner}
        BY <1>7, <1>t DEF Again, TypeOK
    <2> QED BY <1>7, <2>1, <2>2, OutsideKeeps DEF Again
<1>8. CASE Crash
    <2>1. TypeOK' /\ OneTransaction' /\ Unfinished'
        BY <1>8 DEF Crash, RollbackWork, Inv, TypeOK, OneTransaction, Unfinished, InBody
    <2>2. AllOrNothing'
        BY <1>8 DEF Crash, RollbackWork, Inv, AllOrNothing, Unfinished, Blocks, Coroutines
    <2> QED BY <2>1, <2>2 DEF Inv
<1>9. CASE UNCHANGED vars
    BY <1>9 DEF vars, Inv, TypeOK, OneTransaction, Unfinished, AllOrNothing, InBody, Written
<1> QED BY <1>1, <1>2, <1>3, <1>4, <1>5, <1>6, <1>7, <1>8, <1>9
        DEF Next, Step, DirectStatement, NoImplicit

LEMMA InvAlways == NoImplicit /\ Spec => []Inv
<1> SUFFICES ASSUME NoImplicit PROVE Spec => []Inv
    BY DEF NoImplicit
<1> QED BY InvInit, StepKeeps, PTL DEF Spec

(* Every block that runs between BEGIN and COMMIT is all or nothing, with  *)
(* or without the lock, whatever raises and whenever the process stops     *)
(* (db/sqlite.transaction, matcher/event_buffer.absorb).                   *)
THEOREM BlocksAreAtomic == NoImplicit /\ Spec => []AllOrNothing
<1>1. Inv => AllOrNothing
    BY DEF Inv
<1> QED BY <1>1, InvAlways, PTL

(* The blocks implement AtomicWrites, in the same cases: a block's COMMIT  *)
(* is the abstract commit, its ROLLBACK, its refused BEGIN or the crash is *)
(* the abstract failure, and every other step is invisible.                *)
THEOREM BlocksImplementAtomicWrites == NoImplicit /\ Spec => Atomic
<1> SUFFICES ASSUME NoImplicit PROVE Spec => Atomic
    BY DEF NoImplicit
<1> DEFINE outcome == [w \in Blocks |-> result[w]]
<1>1. Init => AW!Init
    BY DEF Init, ConnInit, AW!Init, Blocks, Coroutines
<1>2. Inv /\ [Next]_vars => [AW!Next]_<<durable, outcome>>
    <2> SUFFICES ASSUME Inv, [Next]_vars PROVE [AW!Next]_<<durable, outcome>>
        OBVIOUS
    <2>t. result \in [Coroutines -> {"none", "committed", "failed"}] /\ Coroutines = Blocks
        BY DEF Inv, TypeOK, Coroutines, Blocks, NoImplicit
    <2>1. ASSUME NEW c \in Coroutines, Enter(c) \/ Begin(c) \/ FirstStatement(c)
                                        \/ SecondStatement(c) \/ BlockRaises(c)
          PROVE  UNCHANGED <<durable, outcome>>
        BY <2>1 DEF Enter, Begin, FirstStatement, SecondStatement, BlockRaises, BeginStatement,
                    DmlStatement, connVars
    <2>2. ASSUME NEW c \in Coroutines, BeginRefused(c) \/ Rollback(c) PROVE AW!Next
        <3>1. result[c] = "none" /\ durable' = durable /\ result' = [result EXCEPT ![c] = "failed"]
            BY <2>2 DEF BeginRefused, Rollback, RollbackWork, Leave, connVars, Inv, Unfinished
        <3>2. AW!Fail({c})
            BY <2>t, <3>1 DEF AW!Fail
        <3> QED BY <2>t, <3>2 DEF AW!Next
    <2>3. ASSUME NEW c \in Coroutines, Commit(c) PROVE AW!Next
        <3>1. result[c] = "none" /\ result' = [result EXCEPT ![c] = "committed"]
            BY <2>3 DEF Commit, Leave, Inv, Unfinished
        <3>2. durable' = durable \cup RowsOf(c)
            BY <2>3 DEF Commit, CommitWork, Inv, OneTransaction, InBody, Written
        <3>3. AW!Commit(c)
            BY <2>t, <3>1, <3>2 DEF AW!Commit
        <3> QED BY <2>t, <3>3 DEF AW!Next
    <2>4. ASSUME NEW c \in Coroutines, Again(c) PROVE AW!Next
        <3>1. AW!Retry(c)
            BY <2>t, <2>4 DEF Again, AW!Retry, connVars
        <3> QED BY <2>t, <3>1 DEF AW!Next
    <2>5. CASE Crash
        <3>1. PICK ws \in SUBSET Blocks : ws = {c \in Coroutines : pc[c] # "idle"}
            BY <2>t
        <3>2. AW!Fail(ws)
            BY <2>t, <2>5, <3>1 DEF Crash, RollbackWork, AW!Fail, Inv, Unfinished
        <3> QED BY <3>2 DEF AW!Next
    <2>6. CASE UNCHANGED vars
        BY <2>6 DEF vars
    <2> QED BY <2>1, <2>2, <2>3, <2>4, <2>5, <2>6 DEF Next, Step, DirectStatement, NoImplicit
<1> QED BY <1>1, <1>2, InvAlways, PTL DEF Spec, Atomic, AW!Spec

-----------------------------------------------------------------------------
(* The lock *)

LockHeld == \A c \in Locked : pc[c] # "idle" => lock = c

LEMMA LockStep == Immediate = {} /\ NoImplicit /\ Inv /\ LockHeld /\ [Next]_vars => LockHeld'
<1> SUFFICES ASSUME Immediate = {}, NoImplicit, Inv, LockHeld, [Next]_vars PROVE LockHeld'
    OBVIOUS
<1>0. Coroutines = Locked
    BY DEF Coroutines, NoImplicit
<1>1. /\ pc \in [Locked -> {"idle", "begin", "first", "second", "commit", "rollback"}]
      /\ Coroutines = Locked
      /\ NoOwner \notin Locked
    BY <1>0, CoroutinesAssumption DEF Inv, TypeOK
<1>2. CASE Crash
    BY <1>2 DEF Crash, LockHeld, Coroutines
<1>3. CASE UNCHANGED vars
    BY <1>3 DEF vars, LockHeld
<1>4. ASSUME NEW c \in Locked, Enter(c) PROVE LockHeld'
    BY <1>1, <1>4 DEF Enter, Goto, LockHeld
<1>5. ASSUME NEW c \in Locked, BeginRefused(c) \/ Commit(c) \/ Rollback(c) PROVE LockHeld'
    BY <1>1, <1>5 DEF BeginRefused, Commit, Rollback, Leave, LockHeld
<1>6. ASSUME NEW c \in Locked,
             Begin(c) \/ FirstStatement(c) \/ SecondStatement(c) \/ BlockRaises(c) \/ Again(c)
      PROVE  LockHeld'
    BY <1>1, <1>6 DEF Begin, FirstStatement, SecondStatement, BlockRaises, Again, Goto, LockHeld
<1> QED BY <1>1, <1>2, <1>3, <1>4, <1>5, <1>6 DEF Next, Step, DirectStatement, NoImplicit

(* With every writer under transaction(), no BEGIN meets an open           *)
(* transaction (_WRITE_LOCK).                                              *)
THEOREM LockSerialises == Immediate = {} /\ NoImplicit /\ Spec => []BeginAccepted
<1> SUFFICES ASSUME Immediate = {}, NoImplicit PROVE Spec => []BeginAccepted
    BY DEF NoImplicit
<1>1. Init => LockHeld
    BY DEF Init, LockHeld, Coroutines
<1>2. Inv /\ LockHeld => BeginAccepted
    <2> SUFFICES ASSUME Inv, LockHeld, NEW w \in Locked, pc[w] = "begin", inTx PROVE FALSE
        BY DEF BeginAccepted
    <2>1. PICK d \in Locked : InBody(d)
        BY DEF Inv, OneTransaction, Coroutines, NoImplicit
    <2> QED BY <2>1 DEF LockHeld, InBody
<1> QED BY <1>1, <1>2, LockStep, InvAlways, PTL DEF Spec

-----------------------------------------------------------------------------
(* flush beside the blocks *)

(* What a coroutine under the lock has written is still there when it      *)
(* comes to its COMMIT, whoever committed it meanwhile: only the holder of *)
(* the lock rolls back, and what is durable stays.                         *)
Stands(c) ==
    /\ pc[c] # "idle" => lock = c /\ result[c] = "none"
    /\ pc[c] = "second" => <<c, 1>> \in working
    /\ pc[c] = "commit" => RowsOf(c) \subseteq working

FlushInv ==
    /\ TypeOK
    /\ durable \subseteq working
    /\ \A c \in Locked : Stands(c)
    /\ \A c \in Implicit : pc[c] \in {"idle", "commit"}
    /\ CommittedIsStored

LEMMA FlushInvInit == Init => FlushInv
BY DEF Init, ConnInit, FlushInv, TypeOK, Stands, CommittedIsStored, Coroutines

LEMMA FlushStepKeeps == Immediate = {} /\ FlushInv /\ [Next]_vars => FlushInv'
<1> SUFFICES ASSUME Immediate = {}, FlushInv, [Next]_vars PROVE FlushInv'
    OBVIOUS
<1> USE DEF FlushInv
<1>t. TypeOK /\ Coroutines = Locked \cup Implicit /\ Locked \cap Implicit = {}
    BY CoroutinesAssumption DEF Coroutines
<1>1. ASSUME NEW c \in Coroutines,
             Enter(c) \/ Begin(c) \/ BeginRefused(c) \/ BlockRaises(c) \/ Again(c)
      PROVE  FlushInv'
    <2>1. TypeOK' /\ UNCHANGED <<working, durable>>
        BY <1>1, <1>t DEF Enter, Begin, BeginRefused, BlockRaises, Again, BeginStatement, Goto,
                          Leave, TypeOK, connVars
    <2>2. c \in Implicit =>
             /\ Again(c) /\ UNCHANGED <<lock, pc>>
             /\ \A d \in Coroutines \ {c} : result'[d] = result[d]
        BY <1>1, <1>t DEF Enter, Begin, BeginRefused, BlockRaises, Again, Goto, TypeOK
    <2>3. \A d \in Locked : Stands(d)'
        <3> SUFFICES ASSUME NEW d \in Locked PROVE Stands(d)'
            OBVIOUS
        <3>0. /\ pc[d] # "idle" => lock = d /\ result[d] = "none"
              /\ NoOwner # d
            BY CoroutinesAssumption DEF Stands, Coroutines
        <3>1. CASE Enter(c)
            BY <1>t, <2>1, <2>2, <3>0, <3>1 DEF Enter, Goto, Stands, TypeOK
        <3>2. CASE Begin(c)
            BY <1>t, <2>1, <2>2, <3>0, <3>2 DEF Begin, Goto, Stands, TypeOK
        <3>3. CASE BeginRefused(c)
            BY <1>t, <2>1, <2>2, <3>0, <3>3 DEF BeginRefused, Leave, Stands, TypeOK
        <3>4. CASE BlockRaises(c)
            BY <1>t, <2>1, <2>2, <3>0, <3>4 DEF BlockRaises, Stands, TypeOK
        <3>5. CASE Again(c)
            BY <1>t, <2>1, <2>2, <3>0, <3>5 DEF Again, Stands, TypeOK
        <3> QED BY <1>1, <3>1, <3>2, <3>3, <3>4, <3>5
    <2>4. \A d \in Implicit : pc'[d] \in {"idle", "commit"}
        BY <1>1, <1>t, <2>2 DEF Enter, Begin, BeginRefused, BlockRaises, Again, Goto, Leave, TypeOK
    <2>5. CommittedIsStored'
        BY <1>1, <1>t, <2>1 DEF Enter, Begin, BeginRefused, BlockRaises, Again, Goto, Leave,
                                CommittedIsStored, TypeOK
    <2> QED BY <2>1, <2>3, <2>4, <2>5
<1>2. ASSUME NEW c \in Coroutines, FirstStatement(c) \/ SecondStatement(c) \/ DirectStatement(c)
      PROVE  FlushInv'
    <2>a. /\ UNCHANGED <<durable, lock, result>> /\ inTx' \in BOOLEAN
          /\ \E to \in {"second", "commit"} : pc' = [pc EXCEPT ![c] = to]
        BY <1>2 DEF FirstStatement, SecondStatement, DirectStatement, DmlStatement, Goto
    <2>w. working \subseteq working' /\ working' \subseteq working \cup ({c} \X {1, 2})
        <3>1. CASE FirstStatement(c)
            BY <3>1 DEF FirstStatement, DmlStatement
        <3>2. CASE SecondStatement(c)
            BY <3>2 DEF SecondStatement, DmlStatement
        <3>3. CASE DirectStatement(c)
            BY <3>3 DEF DirectStatement, DmlStatement, RowsOf
        <3> QED BY <1>2, <3>1, <3>2, <3>3
    <2>b. TypeOK'
        <3>1. working' \subseteq Coroutines \X {1, 2}
            BY <1>t, <2>w DEF TypeOK
        <3>2. pc' \in [Coroutines -> {"idle", "begin", "first", "second", "commit", "rollback"}]
            BY <1>t, <2>a DEF TypeOK
        <3> QED BY <1>t, <2>a, <3>1, <3>2 DEF TypeOK
    <2>1. TypeOK' /\ UNCHANGED <<durable, lock, result>> /\ working \subseteq working'
        BY <2>a, <2>b, <2>w
    <2>2. \A d \in Coroutines \ {c} : pc'[d] = pc[d]
        BY <1>2, <1>t DEF FirstStatement, SecondStatement, DirectStatement, Goto, TypeOK
    <2>3. c \in Locked => Stands(c)'
        BY <1>2, <1>t DEF FirstStatement, SecondStatement, DirectStatement, DmlStatement, Goto,
                          Stands, TypeOK, RowsOf
    <2>4. c \in Implicit => pc'[c] = "commit"
        BY <1>2, <1>t DEF FirstStatement, SecondStatement, DirectStatement, Goto, TypeOK
    <2> QED BY <1>t, <2>1, <2>2, <2>3, <2>4 DEF Stands, CommittedIsStored
<1>3. ASSUME NEW c \in Coroutines, Commit(c) PROVE FlushInv'
    <2>1. /\ TypeOK' /\ durable' = working /\ working' = working
          /\ pc' = [pc EXCEPT ![c] = "idle"] /\ result' = [result EXCEPT ![c] = "committed"]
          /\ lock # c => lock' = lock
        BY <1>3, <1>t DEF Commit, CommitWork, Leave, TypeOK
    <2>2. c \in Locked => RowsOf(c) \subseteq durable'
        BY <1>3, <2>1 DEF Commit, Stands
    <2>3. CommittedIsStored'
        BY <1>t, <2>1, <2>2 DEF CommittedIsStored, TypeOK
    <2> QED BY <1>t, <2>1, <2>3 DEF Stands, TypeOK
<1>4. ASSUME NEW c \in Coroutines, Rollback(c) PROVE FlushInv'
    <2>1. c \in Locked /\ lock = c
        BY <1>4, <1>t DEF Rollback, Stands
    <2>2. \A d \in Locked \ {c} : pc[d] = "idle"
        BY <2>1 DEF Stands
    <2>3. /\ TypeOK' /\ durable' = durable /\ working' = durable
          /\ pc' = [pc EXCEPT ![c] = "idle"] /\ result' = [result EXCEPT ![c] = "failed"]
        BY <1>4, <1>t DEF Rollback, RollbackWork, Leave, TypeOK
    <2> QED BY <1>t, <2>1, <2>2, <2>3 DEF Stands, CommittedIsStored, TypeOK
<1>5. CASE Crash
    BY <1>5, <1>t DEF Crash, RollbackWork, TypeOK, Stands, CommittedIsStored
<1>6. CASE UNCHANGED vars
    BY <1>6 DEF vars, TypeOK, Stands, CommittedIsStored
<1> QED BY <1>1, <1>2, <1>3, <1>4, <1>5, <1>6 DEF Next, Step

(* What a block under the lock reported as committed is in the database,   *)
(* for any number of blocks and of flushes that commit in between; absorb, *)
(* which rolls back without the lock, is what could take it away.          *)
THEOREM CommittedBlocksAreStored == Immediate = {} /\ Spec => []CommittedIsStored
<1> SUFFICES ASSUME Immediate = {} PROVE Spec => []CommittedIsStored
    OBVIOUS
<1>1. FlushInv => CommittedIsStored
    BY DEF FlushInv
<1> QED BY <1>1, FlushInvInit, FlushStepKeeps, PTL DEF Spec

-----------------------------------------------------------------------------
(* The run with all of them *)

LEMMA ConnStep == TypeOK /\ [Next]_vars => TypeOK'
<1> SUFFICES ASSUME TypeOK, [Next]_vars PROVE TypeOK'
  OBVIOUS
<1>1. ASSUME NEW c \in Coroutines, Step(c) PROVE TypeOK'
  <2>1. /\ inTx' \in BOOLEAN
        /\ lock' \in Locked \cup {NoOwner}
        /\ pc' \in [Coroutines -> {"idle", "begin", "first", "second", "commit", "rollback"}]
        /\ result' \in [Coroutines -> {"none", "committed", "failed"}]
    BY <1>1 DEF Step, Enter, Begin, BeginRefused, FirstStatement, SecondStatement, BlockRaises,
                Commit, Rollback, DirectStatement, Again, Goto, Leave, BeginStatement,
                DmlStatement, CommitWork, RollbackWork, connVars, TypeOK
  <2>2. working' \subseteq Coroutines \X {1, 2} /\ durable' \subseteq Coroutines \X {1, 2}
    <3>1. /\ working' \subseteq working \cup durable \cup ({c} \X {1, 2})
          /\ durable' \subseteq working \cup durable
      BY <1>1 DEF Step, Enter, Begin, BeginRefused, FirstStatement, SecondStatement, BlockRaises,
                  Commit, Rollback, DirectStatement, Again, BeginStatement, DmlStatement,
                  CommitWork, RollbackWork, RowsOf, connVars
    <3> QED
      BY <3>1 DEF TypeOK
  <2> QED
    BY <2>1, <2>2 DEF TypeOK
<1>2. CASE Crash
  BY <1>2 DEF Crash, RollbackWork, TypeOK
<1>3. CASE UNCHANGED vars
  BY <1>3 DEF vars, TypeOK
<1> QED
  BY <1>1, <1>2, <1>3 DEF Next

(* In run sources every component takes its own steps or none, so what is  *)
(* proved of a component holds of the run, too (writers of the shared      *)
(* connection, pulls, feed requests, backfill and start, which share no    *)
(* state).                                                                 *)
THEOREM RunIsItsComponents ==
  SourcesSpec => /\ Spec
                 /\ CursorSpec
                 /\ FeedJobsSpec
                 /\ BackfillSpec
                 /\ MigrationSpec
<1> DEFINE all == <<moves, vars, cursorVars, feedJobVars, backfillVars, migrationVars>>
<1>1. SourcesInit => Init /\ CursorInit /\ FeedJobsInit /\ BackfillInit /\ MigrationInit
  BY DEF SourcesInit
<1>2. [SourcesNext]_all => [Next]_vars
  BY DEF SourcesNext, OthersStay
<1>3. [SourcesNext]_all => [CursorNext]_cursorVars
  BY DEF SourcesNext, OthersStay
<1>4. [SourcesNext]_all => [FeedJobsNext]_feedJobVars
  BY DEF SourcesNext, OthersStay
<1>5. [SourcesNext]_all => [BackfillNext]_backfillVars
  BY DEF SourcesNext, OthersStay
<1>6. [SourcesNext]_all => [MigrationNext]_migrationVars
  BY DEF SourcesNext, OthersStay
<1> QED
  BY <1>1, <1>2, <1>3, <1>4, <1>5, <1>6, PTL
     DEF SourcesSpec, Spec, CursorSpec, FeedJobsSpec, BackfillSpec, MigrationSpec

(* Every variable of the run keeps its type.                               *)
THEOREM SourcesTypesHold == SourcesSpec => []SourcesTypeOK
<1> DEFINE Chosen == moves \in Parts
           all == <<moves, vars, cursorVars, feedJobVars, backfillVars, migrationVars>>
<1>1. SourcesInit => Chosen
  BY DEF SourcesInit
<1>2. Chosen /\ [SourcesNext]_all => Chosen'
  BY DEF SourcesNext, OthersStay
<1>3. SourcesSpec => []Chosen
  <2> HIDE DEF Chosen
  <2> QED
    BY <1>1, <1>2, PTL DEF SourcesSpec
<1>4. Spec => []TypeOK
  <2>1. Init => TypeOK
    BY InvInit DEF Inv
  <2> QED
    BY <2>1, ConnStep, PTL DEF Spec
<1>5. TypeOK /\ CursorTypeOK /\ FeedJobsTypeOK /\ BackfillTypeOK /\ MigrationTypeOK /\ Chosen
      => SourcesTypeOK
  BY DEF SourcesTypeOK
<1> QED
  <2> HIDE DEF Chosen
  <2> QED
    BY <1>3, <1>4, <1>5, RunIsItsComponents, CursorTypesHold, FeedJobsTypesHold,
       BackfillTypesHold, MigrationTypesHold, PTL
=============================================================================
