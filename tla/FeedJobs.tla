------------------------------- MODULE FeedJobs -------------------------------
(***************************************************************************)
(* The jobs that collect the feeds: a job per feed, registered with the    *)
(* feed's configuration, and one master job for all newsapi feeds          *)
(* (collector/scheduler).  POST, PATCH and DELETE keep them in step with   *)
(* the rows of feeds (api/feeds), and a start builds them anew (main).     *)
(*                                                                         *)
(* The scheduler is changed without a yield to the event loop; rows are    *)
(* read and written with awaits.  A configuration stands for config and    *)
(* interval; names and tags have no part in this, and neither has what a   *)
(* newsapi feed is configured with.                                        *)
(***************************************************************************)
EXTENDS FiniteSets

CONSTANTS
    PlainFeeds,     \* bound: feeds with a job of their own
    CohortFeeds,    \* bound: newsapi feeds
    Configs,        \* bound: configurations
    FeedRequests    \* bound: requests in flight

ASSUME FeedKindsAssumption ==
    /\ PlainFeeds \cap CohortFeeds = {} /\ {"none", "keep"} \cap Configs = {}
    /\ {"none", "master"} \cap (PlainFeeds \cup CohortFeeds) = {}

VARIABLES
    row,        \* of a feed: "new" | "on" | "off" | "gone"; ids are not used again
    config,     \* its configuration
    job,        \* the configuration its job was registered with, or "none"
    master,     \* the newsapi master job is registered
    request,    \* where a request is, and what it has read
    raced       \* history: feeds whose requests overlapped or whose rollback failed,
                \* and "master" when a feed came between the look and the drop

feedJobVars == <<row, config, job, master, request, raced>>

JobFeeds == PlainFeeds \cup CohortFeeds

Rows == {"new", "on", "off", "gone"}
Stages == {"idle", "register", "update", "get", "add", "remove", "delete", "look", "drop"}

NoRequest(q) == request[q].at = "idle"
IdleRequest ==
    [at |-> "idle", feed |-> "none", to |-> "keep", set |-> "keep", was |-> "new",
     changed |-> FALSE, has |-> "none"]

FeedJobsTypeOK ==
    /\ row \in [JobFeeds -> Rows]
    /\ config \in [JobFeeds -> Configs \cup {"none"}]
    /\ job \in [JobFeeds -> Configs \cup {"none"}]
    /\ master \in BOOLEAN
    /\ request \in [FeedRequests ->
            [at : Stages, feed : JobFeeds \cup {"none"}, to : {"on", "off", "keep"},
             set : Configs \cup {"keep"}, was : Rows, changed : BOOLEAN,
             has : Configs \cup {"none"}]]
    /\ raced \subseteq JobFeeds \cup {"master"}

FeedJobsInit ==
    /\ row = [f \in JobFeeds |-> "new"]
    /\ config = [f \in JobFeeds |-> "none"]
    /\ job = [f \in JobFeeds |-> "none"] /\ master = FALSE
    /\ request = [q \in FeedRequests |-> IdleRequest]
    /\ raced = {}

Receive(q, f, asked) ==
    /\ NoRequest(q)
    /\ request' = [request EXCEPT ![q] = asked]
    /\ raced' = IF \E p \in FeedRequests : request[p].feed = f THEN raced \cup {f} ELSE raced

At(q, stage) == request[q].at = stage
GoTo(q, stage) == request' = [request EXCEPT ![q].at = stage]
Over(q) == request' = [request EXCEPT ![q] = IdleRequest]

-----------------------------------------------------------------------------
(* The scheduler *)

(* ensure_newsapi_master_job: when it is there it stays as it is. *)
EnsureMaster == master' = TRUE /\ UNCHANGED job

(* add_feed_job *)
AddFeedJob(f, c) ==
    IF f \in CohortFeeds THEN EnsureMaster
    ELSE job' = [job EXCEPT ![f] = c] /\ UNCHANGED master

(* remove_feed_job, until the SELECT of maybe_drop_newsapi_master_job. *)
RemoveFeedJob(q) ==
    /\ job' = [job EXCEPT ![request[q].feed] = "none"]
    /\ request' = [request EXCEPT ![q] = [IdleRequest EXCEPT !.at = "look"]]

CohortIsOn == \E f \in CohortFeeds : row[f] = "on"

LookForCohort(q) ==
    /\ At(q, "look")
    /\ IF CohortIsOn THEN Over(q) ELSE GoTo(q, "drop")
    /\ UNCHANGED <<row, config, job, master, raced>>

(* The SELECT found no feed; one may have come since. *)
DropMaster(q) ==
    /\ At(q, "drop")
    /\ master' = FALSE
    /\ raced' = IF CohortIsOn THEN raced \cup {"master"} ELSE raced
    /\ Over(q)
    /\ UNCHANGED <<row, config, job>>

-----------------------------------------------------------------------------
(* delete_feed_in_tx *)
RemoveRow(f) ==
    /\ row' = [row EXCEPT ![f] = "gone"]
    /\ config' = [config EXCEPT ![f] = "none"]

(* POST: the row, then the job. *)
PostInserts(q, f, c) ==
    /\ row[f] = "new" /\ (f \in CohortFeeds <=> c = "none")
    /\ Receive(q, f, [IdleRequest EXCEPT !.at = "register", !.feed = f, !.has = c])
    /\ row' = [row EXCEPT ![f] = "on"]
    /\ config' = [config EXCEPT ![f] = c]
    /\ UNCHANGED <<job, master>>

PostRegisters(q) ==
    /\ At(q, "register")
    /\ AddFeedJob(request[q].feed, request[q].has)
    /\ Over(q)
    /\ UNCHANGED <<row, config, raced>>

(* add_feed_job raises: the row is deleted, unless that fails as well. *)
PostFails(q, deleted) ==
    LET f == request[q].feed IN
    /\ At(q, "register")
    /\ IF deleted THEN RemoveRow(f) ELSE UNCHANGED <<row, config>>
    /\ raced' = IF deleted THEN raced ELSE raced \cup {f}
    /\ RemoveFeedJob(q)
    /\ UNCHANGED master

-----------------------------------------------------------------------------
(* PATCH: the old row, the update if the row is still there, the new row,  *)
(* and the job, when the rows differ or the body and the old row do.       *)
PatchReads(q, f, to, set) ==
    /\ row[f] \in {"on", "off"} /\ (f \in CohortFeeds => set = "keep")
    /\ to # "keep" \/ set # "keep"
    /\ Receive(q, f, [IdleRequest EXCEPT !.at = "update", !.feed = f, !.to = to, !.set = set,
                          !.was = row[f], !.changed = set \notin {"keep", config[f]}])
    /\ UNCHANGED <<row, config, job, master>>

(* Mutant: the fields the body leaves out are written as well. *)
PatchUpdatesUnset(q) ==
    LET p == request[q] IN
    /\ At(q, "update")
    /\ IF row[p.feed] = "gone" THEN Over(q) /\ UNCHANGED <<row, config>>
       ELSE /\ row' = [row EXCEPT ![p.feed] = p.to]
            /\ config' = [config EXCEPT ![p.feed] = p.set]
            /\ request' = [request EXCEPT ![q] = [p EXCEPT !.at = "get", !.to = "keep", !.set = "keep"]]
    /\ UNCHANGED <<job, master, raced>>
PatchUpdates(q) ==
    LET p == request[q] IN
    /\ At(q, "update")
    /\ IF row[p.feed] = "gone" THEN Over(q) /\ UNCHANGED <<row, config>>
       ELSE /\ row' = [row EXCEPT ![p.feed] = IF p.to = "keep" THEN @ ELSE p.to]
            /\ config' = [config EXCEPT ![p.feed] = IF p.set = "keep" THEN @ ELSE p.set]
            /\ request' = [request EXCEPT ![q] = [p EXCEPT !.at = "get", !.to = "keep", !.set = "keep"]]
    /\ UNCHANGED <<job, master, raced>>

(* Mutant: a change of the configuration is not looked at. *)
NeedsJobWhenEnabled(p) == p.was = "off"
NeedsJob(p) == p.was = "off" \/ p.changed

PatchGets(q) ==
    LET p == request[q] IN
    /\ At(q, "get")
    /\ request' = [request EXCEPT ![q] =
          CASE row[p.feed] = "on" /\ NeedsJob(p) ->
                  [IdleRequest EXCEPT !.at = "add", !.feed = p.feed, !.has = config[p.feed]]
            [] row[p.feed] = "off" /\ p.was = "on" ->
                  [IdleRequest EXCEPT !.at = "remove", !.feed = p.feed]
            [] OTHER -> IdleRequest]
    /\ UNCHANGED <<row, config, job, master, raced>>

PatchAdds(q) ==
    /\ At(q, "add")
    /\ AddFeedJob(request[q].feed, request[q].has)
    /\ Over(q)
    /\ UNCHANGED <<row, config, raced>>

PatchRemoves(q) ==
    /\ At(q, "remove")
    /\ RemoveFeedJob(q)
    /\ UNCHANGED <<row, config, master, raced>>

-----------------------------------------------------------------------------
(* DELETE: the row, in one transaction with the intents that name the      *)
(* feed, then the job.                                                     *)
DeleteReads(q, f) ==
    /\ row[f] \in {"on", "off"}
    /\ Receive(q, f, [IdleRequest EXCEPT !.at = "delete", !.feed = f])
    /\ UNCHANGED <<row, config, job, master>>

DeleteRow(q) ==
    /\ At(q, "delete")
    /\ RemoveRow(request[q].feed)
    /\ RemoveFeedJob(q)
    /\ UNCHANGED <<master, raced>>

(* The process stops and starts: add_feed_job for every enabled feed. *)
StartJobs ==
    /\ \E q \in FeedRequests : ~NoRequest(q)
    /\ request' = [q \in FeedRequests |-> IdleRequest]
    /\ job' = [f \in JobFeeds |-> IF f \in PlainFeeds /\ row[f] = "on" THEN config[f] ELSE "none"]
    /\ master' = CohortIsOn
    /\ raced' = {}
    /\ UNCHANGED <<row, config>>

FeedJobsNext ==
    \/ \E q \in FeedRequests :
        \/ \E f \in JobFeeds :
            \/ \E c \in Configs \cup {"none"} : PostInserts(q, f, c)
            \/ \E to \in {"on", "off", "keep"}, set \in Configs \cup {"keep"} :
                  PatchReads(q, f, to, set)
            \/ DeleteReads(q, f)
        \/ PostRegisters(q)
        \/ \E deleted \in BOOLEAN : PostFails(q, deleted)
        \/ PatchUpdates(q) \/ PatchGets(q) \/ PatchAdds(q) \/ PatchRemoves(q)
        \/ DeleteRow(q)
        \/ LookForCohort(q) \/ DropMaster(q)
    \/ StartJobs

FeedJobsSpec == FeedJobsInit /\ [][FeedJobsNext]_feedJobVars

-----------------------------------------------------------------------------
(* When no request is in flight, every enabled feed is collected with the  *)
(* configuration of its row and no other feed is, and the master job is    *)
(* there exactly when an enabled newsapi feed is, also after requests for  *)
(* different feeds overlapped, failed, were undone or were cut off by a    *)
(* restart.  Requests for one feed that overlap, a rollback that fails and *)
(* a feed that comes between the look and the drop are excused until the   *)
(* next start (patch_feed "re-register .. so the running job picks it up", *)
(* maybe_drop_newsapi_master_job).                                         *)
JobsFollowRows ==
    (\A q \in FeedRequests : NoRequest(q)) =>
        /\ \A f \in PlainFeeds \ raced :
              job[f] = IF row[f] = "on" THEN config[f] ELSE "none"
        /\ raced \cap (CohortFeeds \cup {"master"}) = {} => (master <=> CohortIsOn)
=============================================================================
