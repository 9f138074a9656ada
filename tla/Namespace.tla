------------------------------- MODULE Namespace -------------------------------
(***************************************************************************)
(* Processes that share one namespace directory: the commands of fs-cli,   *)
(* the daemon (fs-serve), and the programs that hold handles of the C and  *)
(* Python bindings.  Each opens an Engine, makes calls, and ends with or   *)
(* without close.  Engine::open opens the stores first and takes the       *)
(* blocking flock on the log last, so that a second process is inside the  *)
(* stores while it waits for the first one to end.                         *)
(*                                                                         *)
(* A host is a process; it may hold several handles and makes one call at  *)
(* a time.  Values take one slot of a segment, the vector table has one    *)
(* id, and of a vector only the dimension matters.  Calls are steps of     *)
(* their own where a process can be killed between them; power loss and    *)
(* threads are the subject of Engine and VecEngine.                        *)
(***************************************************************************)
EXTENDS Wal, FiniteSets, Functions

CONSTANTS
    Handle, Host,  \* engine handles, and the processes they belong to
    HostOf,        \* [Handle -> Host]
    Program,       \* what processes do (records as below)
    MayRun,        \* [Host -> SUBSET Program]
    Key, Value,
    Dim,           \* vector dimensions
    SegSize,       \* slots of a segment
    MaxSegs,       \* bound: segment files
    MaxStarts,     \* bound: handles opened in a behaviour
    MaxCalls,      \* bound: writes, checkpoints and closes in a behaviour
    None

ASSUME NamespaceAssumption ==
    /\ HostOf \in [Handle -> Host]
    /\ MayRun \in [Host -> SUBSET Program]
    /\ SegSize \in Nat \ {0} /\ MaxSegs \in Nat \ {0}
    /\ MaxStarts \in Nat /\ MaxCalls \in Nat

PutOp(k, v) == [kind |-> "put", key |-> k, val |-> v]
InsertOp(d) == [kind |-> "insert", dim |-> d]
DeleteVectorOp == [kind |-> "delete_vector"]

-----------------------------------------------------------------------------
(* The programs.  opens: an engine is opened (not only the log); schema,    *)
(* quota: the arguments of Engine::open; calls: the kinds of writes it may  *)
(* make; once: it makes at most one; checkpoints, closes: it may call these;      *)
(* daemon: it goes on until it is killed.                                   *)

Prog(schema, quota, calls) ==
    [opens |-> TRUE, schema |-> schema, quota |-> quota, calls |-> calls, once |-> FALSE,
     checkpoints |-> FALSE, closes |-> FALSE, daemon |-> FALSE]

CmdInit(d, q) == Prog(d, q, {})
CmdPut(q) == [Prog(None, q, {"put"}) EXCEPT !.once = TRUE]
CmdGet == Prog(None, 0, {})
CmdStats == Prog(None, 0, {})
CmdRecover == Prog(None, 0, {})
CmdRecoverDryRun == [Prog(None, 0, {}) EXCEPT !.opens = FALSE]
CmdServe(d, q) == [Prog(d, q, {"put", "insert"}) EXCEPT !.daemon = TRUE]
ServeMain(d, q) == [Prog(d, q, {"put", "insert"}) EXCEPT !.daemon = TRUE]

\* Programs that use the bindings.
CSession(schema) ==
    [Prog(schema, 0, {"put", "insert", "delete_vector"})
        EXCEPT !.checkpoints = TRUE, !.closes = TRUE]
PySession(schema) ==
    [Prog(schema, 0, {"put", "insert", "delete_vector"}) EXCEPT !.checkpoints = TRUE]

-----------------------------------------------------------------------------

VARIABLES
    cells,       \* segment contents: [segment -> [slot -> Value or None]]
    segs,        \* segment files 0 .. segs-1 exist
    cursorFile,  \* active.cursor, or None
    loc,         \* per key: its slot, or None
    vecDir,      \* the directory of the vector index exists
    schema,      \* the persisted dimension, or None
    vec,         \* the dimension of the stored vector, or None
    lock,        \* the handle that holds wal.lock, or None
    eng,         \* per handle: its engine, in memory
    promised,    \* history: what each key may hold
    hist,        \* history: "stale", "lapsed", "refused", "redimensioned"
    behind,      \* history: handles that opened the stores before another one's write
    starts, calls

kvVars == <<cells, segs, cursorFile, loc>>
vecVars == <<vecDir, schema, vec>>
history == <<promised, hist, behind>>
vars == <<kvVars, vecVars, walVars, lock, eng, history, starts, calls>>

SegId == 0 .. MaxSegs - 1
Slot == 0 .. SegSize - 1
Position == [seg : SegId, off : 0 .. SegSize]
Places == {"off", "kv", "vecdir", "wal", "replay", "ready", "apply", "done",
           "mark", "truncate"}

\* at: where the handle is; pos: the write position of its SegmentPool; dim:
\* the dimension of its vector index; todo: the operations it has still to
\* replay, or has logged and not applied; closing: the checkpoint is close's.
EngineRecord ==
    [at : Places, prog : Program \cup {None}, pos : Position, dim : Dim \cup {None},
     todo : Seq(Op), closing : BOOLEAN]

TypeOK ==
    /\ cells \in [SegId -> [Slot -> Value \cup {None}]]
    /\ segs \in 0 .. MaxSegs
    /\ cursorFile \in Position \cup {None}
    /\ loc \in [Key -> [seg : SegId, off : Slot] \cup {None}]
    /\ vecDir \in BOOLEAN
    /\ schema \in Dim \cup {None} /\ vec \in Dim \cup {None}
    /\ WalTypeOK
    /\ lock \in Handle \cup {None}
    /\ eng \in [Handle -> EngineRecord]
    /\ promised \in [Key -> SUBSET (Value \cup {None})]
    /\ hist \subseteq {"stale", "lapsed", "refused", "redimensioned"}
    /\ behind \subseteq Handle
    /\ starts \in 0 .. MaxStarts /\ calls \in 0 .. MaxCalls

Off == [at |-> "off", prog |-> None, pos |-> [seg |-> 0, off |-> 0], dim |-> None,
        todo |-> <<>>, closing |-> FALSE]

Init ==
    /\ cells = [s \in SegId |-> [o \in Slot |-> None]]
    /\ segs = 0
    /\ cursorFile = None
    /\ loc = [k \in Key |-> None]
    /\ vecDir = FALSE /\ schema = None /\ vec = None
    /\ WalInit
    /\ lock = None
    /\ eng = [h \in Handle |-> Off]
    /\ promised = [k \in Key |-> {None}]
    /\ hist = {} /\ behind = {}
    /\ starts = 0 /\ calls = 0

-----------------------------------------------------------------------------

Others(h) == {g \in Handle \ {h} : HostOf[g] = HostOf[h]}

At(h, place) == eng[h].at = place

\* The host makes one call at a time.
Runs(h, place) == At(h, place) /\ \A g \in Others(h) : eng[g].at \in {"off", "ready", "done"}

Goto(h, place) == eng' = [eng EXCEPT ![h].at = place]

\* What the next recovery will put back, and what lies before the recorded
\* position: a value that is neither can be overwritten by the next process.
Saved(l) ==
    \/ cursorFile = None
    \/ l.seg < cursorFile.seg
    \/ l.seg = cursorFile.seg /\ l.off < cursorFile.off

Replayed == {f.op.key : f \in {f \in Range(Plan) : f.op.kind = "put"}}

Safe == \A k \in Key \ Replayed : loc[k] = None \/ Saved(loc[k])

\* Handles H disappear, and with them the log's file descriptor and its lock.
\* Dropping an Engine saves nothing.
Gone(H) ==
    /\ eng' = [h \in Handle |-> IF h \in H THEN Off ELSE eng[h]]
    /\ lock' = IF lock \in H THEN None ELSE lock
    /\ hist' = IF lock \in H /\ ~Safe THEN hist \cup {"lapsed"} ELSE hist
    /\ behind' = behind \ H

\* The engines that are open, or about to be, while h writes.
OpenBeside(h) == {g \in Handle \ {h} : ~At(g, "off")}

-----------------------------------------------------------------------------
(* Engine::open, in the order of its steps                                  *)

\* Seeded fault: the recorded segment is written from its start.
OpenAtStart == IF cursorFile # None THEN [cursorFile EXCEPT !.off = 0] ELSE [seg |-> segs, off |-> 0]

\* SegmentPool::open: at the recorded position, otherwise in a new segment.
OpenAt == IF cursorFile # None THEN cursorFile ELSE [seg |-> segs, off |-> 0]

\* heed opens an environment once per process (EnvAlreadyOpened).
EnvOpen(h) == \E g \in Others(h) : ~At(g, "off") /\ eng[g].prog.opens

Starts(h, g) ==
    /\ Runs(h, "off") /\ g \in MayRun[HostOf[h]]
    /\ starts < MaxStarts /\ starts' = starts + 1

\* Seeded fault: an environment that is open already is opened again.
OpenKvAgain(h, g) ==
    /\ Starts(h, g) /\ g.opens
    /\ OpenAt.seg < MaxSegs
    /\ eng' = [eng EXCEPT ![h] = [Off EXCEPT !.at = "kv", !.prog = g, !.pos = OpenAt]]
    /\ segs' = IF OpenAt.seg < segs THEN segs ELSE segs + 1
    /\ UNCHANGED <<cells, cursorFile, loc, vecVars, walVars, lock, history, calls>>

(* KvStore::open.                                                           *)
OpenKv(h, g) ==
    /\ Starts(h, g) /\ g.opens /\ ~EnvOpen(h)
    /\ OpenAt.seg < MaxSegs
    /\ eng' = [eng EXCEPT ![h] = [Off EXCEPT !.at = "kv", !.prog = g, !.pos = OpenAt]]
    /\ segs' = IF OpenAt.seg < segs THEN segs ELSE segs + 1
    /\ UNCHANGED <<cells, cursorFile, loc, vecVars, walVars, lock, history, calls>>

\* A second engine in the same process: the open returns Err at once.
OpenKvFails(h, g) ==
    /\ Starts(h, g) /\ g.opens /\ EnvOpen(h)
    /\ UNCHANGED <<kvVars, vecVars, walVars, lock, eng, history, calls>>

\* recover --dry-run opens the log alone.
OpenLogOnly(h, g) ==
    /\ Starts(h, g) /\ ~g.opens
    /\ eng' = [eng EXCEPT ![h] = [Off EXCEPT !.at = "wal", !.prog = g]]
    /\ UNCHANGED <<kvVars, vecVars, walVars, lock, history, calls>>

(* VectorIndex::open with a schema: first its directory ...                 *)
OpenVecDir(h) ==
    /\ Runs(h, "kv") /\ eng[h].prog.schema # None
    /\ vecDir' = TRUE
    /\ Goto(h, "vecdir")
    /\ UNCHANGED <<kvVars, schema, vec, walVars, lock, history, starts, calls>>

(* ... then the schema, whether there is one already or not.                *)
OpenVecSchema(h) ==
    LET d == eng[h].prog.schema
    IN  /\ Runs(h, "vecdir")
        /\ schema' = d
        /\ eng' = [eng EXCEPT ![h].dim = d, ![h].at = "wal"]
        /\ hist' = IF schema \in {None, d} THEN hist ELSE hist \cup {"redimensioned"}
        /\ behind' = IF schema = d THEN behind ELSE behind \cup OpenBeside(h)
        /\ UNCHANGED <<kvVars, vecDir, vec, walVars, lock, promised, starts, calls>>

(* Without a schema: VectorIndex::reopen if there is an index.              *)
ReopenVec(h) ==
    /\ Runs(h, "kv") /\ eng[h].prog.schema = None
    /\ vecDir => schema # None
    /\ eng' = [eng EXCEPT ![h].dim = schema, ![h].at = "wal"]
    /\ UNCHANGED <<kvVars, vecVars, walVars, lock, history, starts, calls>>

\* The directory is there and the schema is not: Corrupt.
ReopenVecFails(h) ==
    /\ Runs(h, "kv") /\ eng[h].prog.schema = None
    /\ vecDir /\ schema = None
    /\ Gone({h})
    /\ UNCHANGED <<kvVars, vecVars, walVars, promised, starts, calls>>

(* Wal::open waits for the flock; then recover_inner reads what to replay.  *)
OpenWal(h) ==
    /\ Runs(h, "wal") /\ lock = None
    /\ lock' = h
    /\ WalOpen
    /\ LET plan == IF eng[h].prog.opens THEN Plan ELSE <<>>
       IN  eng' = [eng EXCEPT ![h].todo = [i \in DOMAIN plan |-> plan[i].op],
                              ![h].at = IF ~eng[h].prog.opens THEN "done"
                                        ELSE IF plan = <<>> THEN "ready" ELSE "replay"]
    /\ hist' = IF h \in behind THEN hist \cup {"stale"} ELSE hist
    /\ UNCHANGED <<kvVars, vecVars, promised, behind, starts, calls>>

-----------------------------------------------------------------------------
(* What an operation does                                                   *)

Content(k) == IF loc[k] = None THEN None ELSE cells[loc[k].seg][loc[k].off]

\* Seeded fault: an id that is there already is an error in a replay too.
RefusedDuplicate(h, op) == op.kind = "insert" /\ (eng[h].dim # op.dim \/ vec # None)

\* Errors of put_kv (quota) and of insert and delete (no index, wrong dimension).
Refused(h, op) ==
    LET used == Cardinality({k \in Key : loc[k] # None} \cup {op.key})
    IN  \/ op.kind = "put" /\ eng[h].prog.quota > 0 /\ used > eng[h].prog.quota
        \/ op.kind = "insert" /\ eng[h].dim # op.dim
        \/ op.kind = "delete_vector" /\ eng[h].dim = None

\* SegmentPool::append and the locator: into the next segment if this one is full.
StorePut(h, k, v) ==
    LET p == eng[h].pos
        l == IF p.off < SegSize THEN p ELSE [seg |-> p.seg + 1, off |-> 0]
    IN  /\ l.seg < MaxSegs
        /\ cells' = [cells EXCEPT ![l.seg][l.off] = v]
        /\ loc' = [loc EXCEPT ![k] = l]
        /\ segs' = IF l.seg < segs THEN segs ELSE l.seg + 1
        /\ cursorFile' = IF l.seg = p.seg THEN cursorFile ELSE l
        /\ behind' = behind \cup OpenBeside(h)

\* The write position after an operation.
Moved(h, op) ==
    LET p == eng[h].pos
    IN  IF op.kind # "put" THEN p
        ELSE IF p.off < SegSize THEN [p EXCEPT !.off = @ + 1] ELSE [seg |-> p.seg + 1, off |-> 1]

\* An id that is there already stays as it is: DuplicateVector is an error to
\* a caller and none in a replay.
Effect(h, op) ==
    \/ op.kind = "put" /\ StorePut(h, op.key, op.val) /\ UNCHANGED vecVars
    \/ /\ op.kind = "insert"
       /\ vec' = IF vec = None THEN op.dim ELSE vec
       /\ UNCHANGED <<kvVars, vecDir, schema, behind>>
    \/ op.kind = "delete_vector" /\ vec' = None /\ UNCHANGED <<kvVars, vecDir, schema, behind>>

Touches(op, k) == op.kind = "put" /\ op.key = k

-----------------------------------------------------------------------------
(* recover_inner                                                            *)

Replay(h) ==
    /\ Runs(h, "replay") /\ eng[h].todo # <<>>
    /\ ~Refused(h, Head(eng[h].todo))
    /\ Effect(h, Head(eng[h].todo))
    /\ eng' = [eng EXCEPT ![h].todo = Tail(@), ![h].pos = Moved(h, Head(eng[h].todo))]
    /\ UNCHANGED <<walVars, lock, promised, hist, starts, calls>>

\* Any other error fails the open.
ReplayFails(h) ==
    /\ Runs(h, "replay") /\ eng[h].todo # <<>>
    /\ Refused(h, Head(eng[h].todo))
    /\ Gone({h})
    /\ UNCHANGED <<kvVars, vecVars, walVars, promised, starts, calls>>

\* The log is truncated; active.cursor is not saved.
ReplayDone(h) ==
    /\ Runs(h, "replay") /\ eng[h].todo = <<>>
    /\ TruncateTo(LastSeq(Plan))
    /\ Goto(h, "ready")
    /\ UNCHANGED <<kvVars, vecVars, lock, history, starts, calls>>

-----------------------------------------------------------------------------
(* Calls                                                                    *)

(* put_kv, insert_vector and delete_vector log the operation ...            *)
Log(h, op) ==
    /\ Runs(h, "ready") /\ op.kind \in eng[h].prog.calls
    /\ calls < MaxCalls /\ calls' = calls + 1
    /\ WalAppend(<<op>>)
    /\ eng' = [eng EXCEPT ![h].todo = <<op>>, ![h].at = "apply"]
    /\ hist' = IF Refused(h, op) THEN hist \cup {"refused"} ELSE hist
    /\ UNCHANGED <<kvVars, vecVars, lock, promised, behind, starts>>

Answered(h, pos) ==
    eng' = [eng EXCEPT ![h].todo = <<>>, ![h].pos = pos,
                       ![h].at = IF eng[h].prog.once THEN "done" ELSE "ready"]

(* ... and apply it ...                                                     *)
Apply(h) ==
    LET op == Head(eng[h].todo)
    IN  /\ Runs(h, "apply")
        /\ ~Refused(h, op)
        /\ Effect(h, op)
        /\ promised' = [k \in Key |-> IF Touches(op, k) THEN {op.val} ELSE promised[k]]
        /\ Answered(h, Moved(h, op))
        /\ UNCHANGED <<walVars, lock, hist, starts, calls>>

(* ... or return an error with the operation in the log.                    *)
ApplyFails(h) ==
    /\ Runs(h, "apply")
    /\ Refused(h, Head(eng[h].todo))
    /\ Answered(h, eng[h].pos)
    /\ UNCHANGED <<kvVars, vecVars, walVars, lock, history, starts, calls>>

(* checkpoint and close: the stores are flushed, with the write position,   *)
(* then the marker is written and the log truncated.                        *)
Checkpoint(h, close) ==
    /\ Runs(h, "ready")
    /\ IF close THEN eng[h].prog.closes ELSE eng[h].prog.checkpoints
    /\ calls < MaxCalls /\ calls' = calls + 1
    /\ cursorFile' = eng[h].pos
    /\ eng' = [eng EXCEPT ![h].at = "mark", ![h].closing = close]
    /\ behind' = behind \cup OpenBeside(h)
    /\ UNCHANGED <<cells, segs, loc, vecVars, walVars, lock, promised, hist, starts>>

CheckpointMark(h) ==
    /\ Runs(h, "mark")
    /\ WriteMarker(nextSeq - 1)
    /\ Goto(h, "truncate")
    /\ UNCHANGED <<kvVars, vecVars, lock, history, starts, calls>>

CheckpointTruncate(h) ==
    /\ Runs(h, "truncate")
    /\ TruncateTo(nextSeq - 1)
    /\ Goto(h, IF eng[h].closing THEN "done" ELSE "ready")
    /\ UNCHANGED <<kvVars, vecVars, lock, history, starts, calls>>

(* The program is done and drops its handle.                                *)
End(h) ==
    /\ Runs(h, "ready") \/ Runs(h, "done")
    /\ ~eng[h].prog.daemon
    /\ Gone({h})
    /\ UNCHANGED <<kvVars, vecVars, walVars, promised, starts, calls>>

(* A process is killed: the call it was in may have an effect or not.       *)
Kill(p) ==
    LET H == {h \in Handle : HostOf[h] = p /\ ~At(h, "off")}
        Cut(k) == {h \in H : At(h, "apply") /\ Touches(Head(eng[h].todo), k)}
    IN  /\ H # {}
        /\ Gone(H)
        /\ promised' = [k \in Key |-> promised[k] \cup {Head(eng[h].todo).val : h \in Cut(k)}]
        /\ UNCHANGED <<kvVars, vecVars, walVars, starts, calls>>

-----------------------------------------------------------------------------

Next ==
    \/ \E h \in Handle, g \in Program : OpenKv(h, g) \/ OpenKvFails(h, g) \/ OpenLogOnly(h, g)
    \/ \E h \in Handle : OpenVecDir(h) \/ OpenVecSchema(h) \/ ReopenVec(h) \/ ReopenVecFails(h)
    \/ \E h \in Handle : OpenWal(h) \/ Replay(h) \/ ReplayFails(h) \/ ReplayDone(h)
    \/ \E h \in Handle, op \in Op : Log(h, op)
    \/ \E h \in Handle : Apply(h) \/ ApplyFails(h)
    \/ \E h \in Handle, close \in BOOLEAN : Checkpoint(h, close)
    \/ \E h \in Handle : CheckpointMark(h) \/ CheckpointTruncate(h) \/ End(h)
    \/ \E p \in Host : Kill(p)

Spec == Init /\ [][Next]_vars

-----------------------------------------------------------------------------
(* Properties                                                               *)

\* Every key holds what the last successful call left there, whoever made it,
\* whenever an engine is between two calls.
KeepsPromises ==
    (\E h \in Handle : lock = h /\ At(h, "ready")) =>
        \A k \in Key : Content(k) \in promised[k]

\* No data is lost between processes, except in three ways: a process has its
\* stores open already while another one writes (Wal::open is the last step of
\* Engine::open and does not keep it out); a process ends with values behind
\* the recorded active.cursor that the log does not give back (recover_inner
\* truncates the log and saves no cursor, and numbers below the marker are not
\* replayed); an operation is logged that the store refuses.
KeepsPromisesWithCare == hist \subseteq {"redimensioned"} => KeepsPromises

\* Engine::open on a log never fails in replay_op, whatever was applied before
\* a kill, unless it opens with a quota, or an operation in the log was refused
\* when it was called, or another process changed the dimension or created the
\* index meanwhile.
ReplaysWithCare ==
    hist \subseteq {"lapsed"} =>
        \A h \in Handle : At(h, "replay") /\ eng[h].todo # <<>> /\ eng[h].prog.quota = 0 =>
                            ~Refused(h, Head(eng[h].todo))

\* The blocking flock of Wal::open is never awaited by the process that holds
\* it: a second engine in one process fails in KvStore::open, before the log.
WaitsForOthers ==
    \A h \in Handle : At(h, "wal") /\ lock # None => HostOf[lock] # HostOf[h]

\* "dimension (for creating; ignored if the store exists)": the persisted
\* schema never changes (fs-cli init --dim, fs-serve --dim).
SchemaKept == "redimensioned" \notin hist

=============================================================================
