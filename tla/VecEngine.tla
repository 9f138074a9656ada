------------------------------- MODULE VecEngine -------------------------------
(***************************************************************************)
(* The vector half of Engine (engine_impl.rs) over VectorIndex: a client   *)
(* that inserts, deletes and checkpoints, a compactor (fs-serve's /compact *)
(* or fs-cli compact) and reads, and a process that is killed and opened   *)
(* again, with a schema (VectorIndex::open) or without (reopen), replaying *)
(* the log.  The log is a plain sequence here: its own failures are the    *)
(* subject of WalCrash and Engine, and a killed process loses no write it  *)
(* has made to a file or a mapping.                                        *)
(***************************************************************************)
EXTENDS VectorIndex

CONSTANTS
    Batch,      \* the insertions clients make: non-empty sequences of [id, vec]
    Calls,      \* "insert", "delete", "checkpoint", "compact", "reclaim", "read", "kill"
    OpenKinds,  \* "schema" (VectorIndex::open), "reopen"
    Guarded,    \* calls come through Engine, whose vec mutex is held to their end
    MaxOps,     \* bound: operations logged
    MaxKills    \* bound

ASSUME VecEngineAssumption ==
    /\ Batch \subseteq Seq([id : Id, vec : Vec]) \ {<<>>}
    /\ Calls \subseteq {"insert", "delete", "checkpoint", "compact", "reclaim", "read", "kill"}
    /\ OpenKinds \subseteq {"schema", "reopen"}
    /\ Guarded \in BOOLEAN
    /\ MaxOps \in Nat /\ MaxKills \in Nat

VARIABLES
    phase,     \* "running", "down", "opening" (replaying) or "failed" (open returned Err)
    pc,        \* client, or replay: "idle", "apply" (logged), "link" (committed), "truncate"
    call,      \* the client's operation: [kind, items] or [kind, id]; None
    compactor, \* "idle", "scanned", "appended", "switched", "linked", "cached"
    job,       \* compaction: [old, live, locs]
    old,       \* segments the last compaction returned for reclaiming
    wal,       \* logged operations not yet truncated
    replay,    \* operations left to replay
    promised,  \* history: what get_vector of an id may answer
    ops, kills

vars == <<active, fill, files, cells, sealed, table, cache, node, entry, snap,
          phase, pc, call, compactor, job, old, wal, replay, promised, ops, kills>>
clientVars == <<pc, call>>
compactVars == <<compactor, job, old>>
recoverVars == <<phase, replay, kills>>

InsertOp(i, v) == [kind |-> "insert", id |-> i, vec |-> v]
DeleteOp(i) == [kind |-> "delete", id |-> i]
WalOp == {InsertOp(i, v) : i \in Id, v \in Vec} \cup {DeleteOp(i) : i \in Id}
NoJob == [old |-> {}, live |-> <<>>, locs |-> <<>>]

TypeOK ==
    /\ IndexTypeOK
    /\ phase \in {"running", "down", "opening", "failed"}
    /\ pc \in {"idle", "apply", "link", "truncate"}
    /\ call = None \/ call \in [kind : {"insert"}, items : Batch]
                   \/ call \in [kind : {"delete"}, id : Id]
    /\ compactor \in {"idle", "scanned", "appended", "switched", "linked", "cached"}
    /\ job.old \subseteq Seg /\ DOMAIN job.live \subseteq Id /\ DOMAIN job.locs \subseteq Id
    /\ \A i \in DOMAIN job.live : job.live[i] \in Vec \cup {Zero}
    /\ old \subseteq Seg
    /\ wal \in Seq(WalOp) /\ replay \in Seq(WalOp)
    /\ promised \in [Id -> SUBSET (Vec \cup {None})]
    /\ ops \in 0 .. MaxOps + 1 /\ kills \in 0 .. MaxKills

Init ==
    /\ IndexInit
    /\ phase = "running" /\ pc = "idle" /\ call = None
    /\ compactor = "idle" /\ job = NoJob /\ old = {}
    /\ wal = <<>> /\ replay = <<>>
    /\ promised = [i \in Id |-> {None}]
    /\ ops = 0 /\ kills = 0

-----------------------------------------------------------------------------
(* insert_vector, insert_vector_batch, delete_vector: log, then apply under *)
(* the vec mutex                                                            *)

ClientHolds == pc = "link"
CompactorHolds == compactor # "idle"

\* The vec mutex of Engine is free (or there is no Engine around the index).
MayLock == phase = "running" /\ (Guarded => ~ClientHolds /\ ~CompactorHolds)

LogInsert ==
    \E items \in Batch :
        /\ "insert" \in Calls /\ phase = "running" /\ pc = "idle" /\ ops < MaxOps
        /\ wal' = wal \o [n \in DOMAIN items |-> InsertOp(items[n].id, items[n].vec)]
        /\ call' = [kind |-> "insert", items |-> items]
        /\ pc' = "apply" /\ ops' = ops + 1
        /\ UNCHANGED <<indexVars, compactVars, recoverVars, promised>>

LogDelete ==
    \E i \in Id :
        /\ "delete" \in Calls /\ phase = "running" /\ pc = "idle" /\ ops < MaxOps
        /\ wal' = Append(wal, DeleteOp(i))
        /\ call' = [kind |-> "delete", id |-> i]
        /\ pc' = "apply" /\ ops' = ops + 1
        /\ UNCHANGED <<indexVars, compactVars, recoverVars, promised>>

Answered == pc' = "idle" /\ call' = None

(* DuplicateVector: nothing is written.                                     *)
ApplyDuplicate ==
    /\ MayLock /\ pc = "apply" /\ call.kind = "insert" /\ Duplicates(call.items)
    /\ Answered
    /\ UNCHANGED <<indexVars, compactVars, recoverVars, wal, promised, ops>>

ApplyCommit ==
    /\ MayLock /\ pc = "apply" /\ call.kind = "insert"
    /\ InsertCommit(call.items)
    /\ pc' = "link"
    /\ UNCHANGED <<call, compactVars, recoverVars, wal, promised, ops>>

\* What the items leave in id i: the vector written last.
LastItem(items, i) == items[Max({n \in DOMAIN items : items[n].id = i})].vec

\* An insertion that fails after its commit may count or not.
ApplyLink ==
    /\ phase = "running" /\ pc = "link"
    /\ InsertLink(call.items)
    /\ promised' = [i \in Id |->
           IF i \notin ItemIds(call.items) THEN promised[i]
           ELSE {LastItem(call.items, i)} \cup
                IF LinkRejects(call.items) = {} THEN {} ELSE promised[i]]
    /\ Answered
    /\ UNCHANGED <<compactVars, recoverVars, wal, ops>>

ApplyDelete ==
    /\ MayLock /\ pc = "apply" /\ call.kind = "delete"
    /\ SoftDelete(call.id)
    /\ promised' = [promised EXCEPT ![call.id] = {None}]
    /\ Answered
    /\ UNCHANGED <<compactVars, recoverVars, wal, ops>>

Read ==
    \E visited \in SUBSET Id :
        /\ "read" \in Calls /\ MayLock
        /\ ReadVectors(visited)
        /\ UNCHANGED <<clientVars, compactVars, recoverVars, wal, promised, ops>>

(* Engine::checkpoint: snapshot, then the log is truncated.                 *)
CheckpointSnapshot ==
    /\ "checkpoint" \in Calls /\ MayLock /\ pc = "idle"
    /\ SnapshotGraph
    /\ pc' = "truncate"
    /\ UNCHANGED <<call, compactVars, recoverVars, wal, promised, ops>>

CheckpointTruncate ==
    /\ phase = "running" /\ pc = "truncate"
    /\ wal' = <<>>
    /\ pc' = "idle"
    /\ UNCHANGED <<indexVars, call, compactVars, recoverVars, promised, ops>>

-----------------------------------------------------------------------------
(* VectorIndex::compact, step by step, and reclaim_segments                 *)

CompactScan ==
    /\ "compact" \in Calls /\ MayLock /\ compactor = "idle"
    /\ \/ /\ ScanSurvivors
          /\ job' = [old |-> AllSegIds, live |-> [i \in Survivors |-> cells[table[i]]], locs |-> <<>>]
          /\ compactor' = "scanned"
       \/ /\ ScanFails
          /\ UNCHANGED <<indexVars, job, compactor>>
    /\ UNCHANGED <<clientVars, old, recoverVars, wal, promised, ops>>

CompactAppend ==
    /\ phase = "running" /\ compactor = "scanned"
    /\ AppendCopies(job.live)
    /\ job' = [job EXCEPT !.locs = [i \in DOMAIN job.live |-> CopySlot(job.live, i)]]
    /\ compactor' = "appended"
    /\ UNCHANGED <<clientVars, old, recoverVars, wal, promised, ops>>

CompactSwitch ==
    /\ phase = "running" /\ compactor = "appended"
    /\ SwitchLocators(job.locs)
    /\ compactor' = "switched"
    /\ UNCHANGED <<clientVars, job, old, recoverVars, wal, promised, ops>>

CompactGraph ==
    /\ phase = "running" /\ compactor = "switched"
    /\ SwitchGraph(DOMAIN job.live)
    /\ compactor' = "linked"
    /\ UNCHANGED <<clientVars, job, old, recoverVars, wal, promised, ops>>

CompactCache ==
    /\ phase = "running" /\ compactor = "linked"
    /\ ReplaceCache(job.locs)
    /\ compactor' = "cached"
    /\ UNCHANGED <<clientVars, job, old, recoverVars, wal, promised, ops>>

CompactSnapshot ==
    /\ phase = "running" /\ compactor = "cached"
    /\ SnapshotGraph
    /\ compactor' = "idle" /\ job' = NoJob /\ old' = job.old
    /\ UNCHANGED <<clientVars, recoverVars, wal, promised, ops>>

Reclaim ==
    /\ "reclaim" \in Calls /\ MayLock /\ old # {}
    /\ RemoveSegments(old)
    /\ old' = {}
    /\ UNCHANGED <<clientVars, compactor, job, recoverVars, wal, promised, ops>>

-----------------------------------------------------------------------------
(* Kill and restart                                                         *)

\* What an unanswered operation may leave in an id.
Unanswered(i) ==
    CASE call = None -> {}
      [] call # None /\ call.kind = "insert" ->
             IF i \in ItemIds(call.items) THEN {LastItem(call.items, i)} ELSE {}
      [] OTHER -> IF i = call.id THEN {None} ELSE {}

Kill ==
    /\ "kill" \in Calls /\ phase \in {"running", "opening"} /\ kills < MaxKills
    /\ phase' = "down" /\ kills' = kills + 1
    /\ promised' = [i \in Id |-> promised[i] \cup Unanswered(i)]
    /\ pc' = "idle" /\ call' = None
    /\ compactor' = "idle" /\ job' = NoJob /\ old' = {}
    /\ replay' = <<>>
    /\ UNCHANGED <<indexVars, wal, ops>>

Open ==
    /\ phase = "down"
    /\ \/ "schema" \in OpenKinds /\ OpenWithSchema
       \/ "reopen" \in OpenKinds /\ Reopen
    /\ phase' = "opening" /\ replay' = wal
    /\ UNCHANGED <<clientVars, compactVars, kills, wal, promised, ops>>

OpenFails ==
    /\ phase = "down"
    /\ \/ "schema" \in OpenKinds /\ OpenWithSchemaFails
       \/ "reopen" \in OpenKinds /\ ReopenFails
    /\ phase' = "failed"
    /\ UNCHANGED <<indexVars, clientVars, compactVars, replay, kills, wal, promised, ops>>

Item(op) == <<[id |-> op.id, vec |-> op.vec]>>

Replaying(kind) == phase = "opening" /\ replay # <<>> /\ Head(replay).kind = kind

(* replay_op: an insertion of a located id is skipped.                      *)
ReplaySkip ==
    /\ Replaying("insert") /\ pc = "idle" /\ Duplicates(Item(Head(replay)))
    /\ replay' = Tail(replay)
    /\ UNCHANGED <<indexVars, clientVars, compactVars, phase, kills, wal, promised, ops>>

ReplayCommit ==
    /\ Replaying("insert") /\ pc = "idle"
    /\ InsertCommit(Item(Head(replay)))
    /\ pc' = "link"
    /\ UNCHANGED <<call, compactVars, recoverVars, wal, promised, ops>>

ReplayLink ==
    /\ Replaying("insert") /\ pc = "link"
    /\ InsertLink(Item(Head(replay)))
    /\ pc' = "idle" /\ replay' = Tail(replay)
    /\ UNCHANGED <<call, compactVars, phase, kills, wal, promised, ops>>

ReplayDelete ==
    /\ Replaying("delete")
    /\ SoftDelete(Head(replay).id)
    /\ replay' = Tail(replay)
    /\ UNCHANGED <<clientVars, compactVars, phase, kills, wal, promised, ops>>

\* The answer seen after a restart is the answer from then on.
Settled(i) == IF GetVector(i) \in promised[i] THEN {GetVector(i)} ELSE promised[i]

ReplayDone ==
    /\ phase = "opening" /\ replay = <<>>
    /\ wal' = <<>>
    /\ phase' = "running"
    /\ promised' = [i \in Id |-> Settled(i)]
    /\ UNCHANGED <<indexVars, clientVars, compactVars, replay, kills, ops>>

Client == LogInsert \/ LogDelete \/ ApplyDuplicate \/ ApplyCommit \/ ApplyLink \/ ApplyDelete
              \/ CheckpointSnapshot \/ CheckpointTruncate

Compaction == CompactScan \/ CompactAppend \/ CompactSwitch \/ CompactGraph \/ CompactCache
                  \/ CompactSnapshot \/ Reclaim

Recovery == Open \/ OpenFails \/ ReplaySkip \/ ReplayCommit \/ ReplayLink \/ ReplayDelete
                \/ ReplayDone

Next == Client \/ Read \/ Compaction \/ Kill \/ Recovery

Spec == Init /\ [][Next]_vars

-----------------------------------------------------------------------------
(* Properties                                                               *)

Quiet == phase = "running" /\ pc \in {"idle", "truncate"} /\ compactor = "idle"

\* With no call under way, get_vector answers what the acknowledged insertions and
\* deletions say: an inserted vector is neither lost nor changed, and a deleted one
\* stays deleted, across compactions and restarts (compact, reopen, replay_op).
KeepsVectors == Quiet => \A i \in Id : GetVector(i) \in promised[i]

\* With no call under way, get_vector of a live id either fails visibly or answers the
\* vector that was inserted, never the bytes of another one (vec_slice, sealed_handle).
NeverWrong == Quiet => \A i \in Id : GetVector(i) \in promised[i] \cup {"error", None}

\* The file a locator points into exists ("the new segment file, where the live vectors
\* are, still exists" after reclaim_segments).
LocatedFilesExist == phase = "running" => \A i \in Located : Segment(table[i]) \in files

\* In a process that has not been restarted both hold as far as they can: no answer is ever
\* wrong, and as long as no reclaim has removed a file in use every answer is as promised,
\* whatever insertions, deletions, checkpoints and compactions came before.
LiveAnswers == kills = 0 => NeverWrong /\ (LocatedFilesExist => KeepsVectors)

\* Whenever the index is open and no insertion is between its commit and its link, the
\* live nodes of the graph are the located ids minus the deleted ones: what search finds
\* and what a rebuild or a compaction would find is the same set (insert, rebuild, compact).
GraphMatchesTable ==
    Quiet => {i \in Id : node[i] = "live"} = {i \in Located : node[i] # "deleted"}

\* The segments are append-only: a slot that holds a vector keeps it as long as the
\* process runs, so a slice that vec_slice handed out never changes under its reader
\* (append, seal_and_rotate, compact, reclaim_segments, next_vec_seg_id).
AppendOnly ==
    [][phase = "running" => \A l \in Slot : cells[l] # Zero => cells'[l] = cells[l]]_vars

\* Opening the index never fails.
OpenSucceeds == phase # "failed"

=============================================================================
