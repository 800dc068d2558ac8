------------------------------ MODULE Retention ------------------------------
(***************************************************************************)
(* The jobs that take articles out of the hot stores again, each working   *)
(* from a snapshot it keeps over its awaits:                               *)
(*   maintenance/qdrant_ttl    aged points to news_archive (or nowhere)    *)
(*   maintenance/reconcile     ledger rows without a point                 *)
(*   maintenance/manual_prune  points the operator chose, no archiving     *)
(*   maintenance/dead_ttl      old dead_articles                           *)
(* Every job has max_instances=1; the prune is started from the dashboard. *)
(* match_seen, which the same jobs also clean, is not part of this module. *)
(***************************************************************************)
EXTENDS ArticleStore

CONSTANT ArchiveEnabled     \* qdrant_archive_enabled

ASSUME ArchiveAssumption == ArchiveEnabled \in BOOLEAN

VARIABLES
    ttlPc,      \* stage of the TTL run
    ttlIds,     \* expired ids the scroll found, batches not started yet
    ttlBatch,   \* ids of the current batch that go through all the stages
    recPc,      \* stage of the reconcile run
    recIds,     \* md5s scanned, then md5s judged orphan
    prunePc,    \* stage of the manual prune
    pruneIds    \* ids the prune's scroll found

ttlVars == <<ttlPc, ttlIds, ttlBatch>>
recVars == <<recPc, recIds>>
pruneVars == <<prunePc, pruneIds>>
retentionVars == <<ttlPc, ttlIds, ttlBatch, recPc, recIds, prunePc, pruneIds>>

RetentionTypeOK ==
    /\ ttlPc \in {"idle", "retrieve", "upsert", "delete", "cascade"}
    /\ ttlIds \subseteq Articles
    /\ ttlBatch \subseteq Articles
    /\ recPc \in {"idle", "retrieve", "delete"}
    /\ recIds \subseteq Articles
    /\ prunePc \in {"idle", "delete", "cascade"}
    /\ pruneIds \subseteq Articles

TtlInit == ttlPc = "idle" /\ ttlIds = {} /\ ttlBatch = {}
RecInit == recPc = "idle" /\ recIds = {}
PruneInit == prunePc = "idle" /\ pruneIds = {}

RetentionInit == TtlInit /\ RecInit /\ PruneInit

-----------------------------------------------------------------------------
(* qdrant_ttl: scroll -> per batch: retrieve, archive, delete, cascade.    *)

Aged == {m \in Articles : news[m] = "aged"}

(* Without archiving the whole scroll is deleted in one go. *)
TtlScroll(expired) ==
    /\ ttlPc = "idle"
    /\ expired \subseteq Aged
    /\ expired # {}
    /\ IF ArchiveEnabled
       THEN ttlPc' = "retrieve" /\ ttlIds' = expired /\ ttlBatch' = {}
       ELSE ttlPc' = "delete" /\ ttlIds' = {} /\ ttlBatch' = expired
    /\ UNCHANGED <<storeVars, recVars, pruneVars>>

(* A batch: the ids still in news_current whose point has a usable vector. *)
TtlRetrieve(ids, usable) ==
    /\ ttlPc = "retrieve"
    /\ ids \subseteq ttlIds
    /\ ids # {}
    /\ usable \subseteq {m \in ids : Indexed(m)}
    /\ ttlIds' = ttlIds \ ids
    /\ ttlBatch' = usable
    /\ ttlPc' = IF usable # {} THEN "upsert"
                ELSE IF ttlIds = ids THEN "idle" ELSE "retrieve"
    /\ UNCHANGED <<storeVars, recVars, pruneVars>>

(* Mutant: a failed archive upsert is swallowed. *)
TtlArchiveSwallowed ==
    /\ ttlPc = "upsert"
    /\ ttlPc' = "delete"
    /\ UNCHANGED <<storeVars, ttlIds, ttlBatch, recVars, pruneVars>>

TtlArchive ==
    /\ ttlPc = "upsert"
    /\ archive' = archive \cup ttlBatch
    /\ ttlPc' = "delete"
    /\ UNCHANGED <<feeds, feed_items, pending, dead, news, writer, accepted, purged,
                   offered, ttlIds, ttlBatch, recVars, pruneVars>>

TtlDelete ==
    /\ ttlPc = "delete"
    /\ DeleteNews(ttlBatch)
    /\ purged' = IF ArchiveEnabled THEN purged ELSE purged \cup {m \in ttlBatch : Indexed(m)}
    /\ ttlPc' = "cascade"
    /\ UNCHANGED <<feeds, feed_items, pending, dead, archive, writer, accepted,
                   offered, ttlIds, ttlBatch, recVars, pruneVars>>

TtlCascade ==
    /\ ttlPc = "cascade"
    /\ ForgetFingerprints(ttlBatch)
    /\ ttlPc' = IF ttlIds = {} THEN "idle" ELSE "retrieve"
    /\ ttlBatch' = {}
    /\ UNCHANGED <<ttlIds, recVars, pruneVars>>

(* A stage raised: the run is over, the rest waits for the next interval.  *)
(* A call that raised but was applied is the stage followed by this.  A    *)
(* transaction fails only once it has the lock.                            *)
TtlAbort ==
    /\ ttlPc # "idle"
    /\ ttlPc = "cascade" => LockFree
    /\ ttlPc' = "idle" /\ ttlIds' = {} /\ ttlBatch' = {}
    /\ UNCHANGED <<storeVars, recVars, pruneVars>>

-----------------------------------------------------------------------------
(* reconcile *)

(* Mutant: md5s with a dead row are taken for accounted for. *)
RecScanSkipsDead ==
    /\ recPc = "idle"
    /\ recIds' = {m \in Articles : Known(m) /\ ~Queued(m) /\ dead[m] = NoRow}
    /\ recIds' # {}
    /\ recPc' = "retrieve"
    /\ UNCHANGED <<storeVars, ttlVars, pruneVars>>

(* SELECT md5 FROM feed_items WHERE md5 NOT IN pending_articles: takes no  *)
(* lock, and runs on the connection an open transaction writes through.    *)
RecScan ==
    /\ recPc = "idle"
    /\ recIds' = {m \in Articles : Known(m) /\ ~Queued(m)}
    /\ recIds' # {}
    /\ recPc' = "retrieve"
    /\ UNCHANGED <<storeVars, ttlVars, pruneVars>>

RecRetrieve ==
    /\ recPc = "retrieve"
    /\ recIds' = {m \in recIds : ~Indexed(m)}
    /\ recPc' = IF recIds' = {} THEN "idle" ELSE "delete"
    /\ UNCHANGED <<storeVars, ttlVars, pruneVars>>

(* One chunk of _SQLITE_DELETE_CHUNK orphans. *)
RecDelete(chunk) ==
    /\ recPc = "delete"
    /\ chunk \subseteq recIds
    /\ chunk # {}
    /\ ForgetFingerprints(chunk)
    /\ recIds' = recIds \ chunk
    /\ recPc' = IF recIds = chunk THEN "idle" ELSE "delete"
    /\ UNCHANGED <<ttlVars, pruneVars>>

RecAbort ==
    /\ recPc # "idle"
    /\ recPc = "delete" => LockFree
    /\ recPc' = "idle" /\ recIds' = {}
    /\ UNCHANGED <<storeVars, ttlVars, pruneVars>>

-----------------------------------------------------------------------------
(* manual_prune.run_applying (target "news"), dead_ttl and manual_prune    *)
(* (target "dead").                                                        *)

PruneScroll(ids) ==
    /\ prunePc = "idle"
    /\ ids \subseteq Aged
    /\ ids # {}
    /\ pruneIds' = ids
    /\ prunePc' = "delete"
    /\ UNCHANGED <<storeVars, ttlVars, recVars>>

PruneDelete ==
    /\ prunePc = "delete"
    /\ DeleteNews(pruneIds)
    /\ purged' = purged \cup {m \in pruneIds : Indexed(m)}
    /\ prunePc' = "cascade"
    /\ UNCHANGED <<feeds, feed_items, pending, dead, archive, writer, accepted,
                   offered, pruneIds, ttlVars, recVars>>

PruneCascade ==
    /\ prunePc = "cascade"
    /\ ForgetFingerprints(pruneIds)
    /\ prunePc' = "idle" /\ pruneIds' = {}
    /\ UNCHANGED <<ttlVars, recVars>>

PruneAbort ==
    /\ prunePc # "idle"
    /\ prunePc = "cascade" => LockFree
    /\ prunePc' = "idle" /\ pruneIds' = {}
    /\ UNCHANGED <<storeVars, ttlVars, recVars>>

(* DELETE FROM dead_articles WHERE failed_at < cutoff. *)
ExpireDead(old) ==
    /\ LockFree
    /\ old # {}
    /\ \A m \in old : dead[m] # NoRow
    /\ dead' = [m \in Articles |-> IF m \in old THEN NoRow ELSE dead[m]]
    /\ purged' = purged \cup old
    /\ UNCHANGED <<feeds, feed_items, pending, news, archive, writer, accepted, offered,
                   retentionVars>>

TtlStep ==
    \/ \E ids \in SUBSET Articles : TtlScroll(ids)
    \/ \E ids \in SUBSET Articles : \E usable \in SUBSET ids : TtlRetrieve(ids, usable)
    \/ TtlArchive
    \/ TtlDelete
    \/ TtlCascade
    \/ TtlAbort

RecStep ==
    \/ RecScan
    \/ RecRetrieve
    \/ \E chunk \in SUBSET Articles : RecDelete(chunk)
    \/ RecAbort

PruneStep ==
    \/ \E ids \in SUBSET Articles : PruneScroll(ids)
    \/ PruneDelete
    \/ PruneCascade
    \/ PruneAbort
=============================================================================
