-------------------------------- MODULE Engine ---------------------------------
(***************************************************************************)
(* Engine of engine_impl.rs: every write is logged and fsynced, then       *)
(* applied to the stores; a checkpoint flushes the stores, moves the       *)
(* marker and truncates the log; opening an engine replays the log.        *)
(* Threads run the operations; the process is killed (what it wrote stays  *)
(* in the page cache) or the machine loses power (what was not synced may  *)
(* be lost).  The key-value store is modelled in full; of the columnar     *)
(* store only whether it is open.                                          *)
(*                                                                         *)
(* heed runs with NO_SYNC: a power loss leaves the tables in some state    *)
(* committed since the last force_sync.  File creation, active.cursor and  *)
(* checkpoint.marker (written by rename) are taken to be durable at once.  *)
(***************************************************************************)
EXTENDS KvTables, Wal

CONSTANTS
    Thread,
    Request,     \* the calls clients make: members of Op, Checkpoint, Recover
    BadKey,      \* keys the store rejects (the empty key)
    Faults,      \* "kill", "power": kinds of crash; "cut": in the middle of a log write
    MaxRuns      \* bound: process lifetimes that get through their recovery

PutOp(k, v) == [kind |-> "put", key |-> k, val |-> v]
DeleteOp(k) == [kind |-> "delete", key |-> k]
PutColumnarOp == [kind |-> "putcol"]
CheckpointCall == [kind |-> "checkpoint"]
RecoverCall == [kind |-> "recover"]

ASSUME EngineAssumption ==
    /\ Op = {PutOp(k, v) : k \in Key, v \in Value} \cup {DeleteOp(k) : k \in Key}
            \cup {PutColumnarOp, Garbage}
    /\ Request \subseteq (Op \ {Garbage}) \cup {CheckpointCall, RecoverCall}
    /\ BadKey \subseteq Key
    /\ Faults \subseteq {"kill", "power", "cut"}
    /\ MaxRuns \in Nat \ {0}

VARIABLES
    phase,    \* "running", "down", "opening" (replaying) or "failed" (open returned Err)
    pc,       \* where each thread is
    call,     \* the operation a thread has logged and will apply, or None
    upto,     \* the applied_seq of a thread's checkpoint
    rec,      \* recovery under way: entries left, seq to truncate to, who runs it
    colOpen,  \* the columnar store is open
    synced,   \* segment contents that survive a power loss
    saved,    \* table states that a power loss may leave
    promised, \* history: the contents a key may have once the engine runs
    runs

memVars == <<pc, call, upto, rec, colOpen>>
diskVars == <<synced, saved>>
vars == <<activeId, activeCursor, bytes, segs, cursorFile, loc, used, log, nextSeq, marker,
          phase, pc, call, upto, rec, colOpen, synced, saved, promised, runs>>

Idle == [t \in Thread |-> "idle"]
NoCalls == [t \in Thread |-> None]
Tables == [loc |-> loc, used |-> used]

TypeOK ==
    /\ PoolTypeOK /\ TablesTypeOK /\ WalTypeOK
    /\ phase \in {"running", "down", "opening", "failed"}
    /\ pc \in [Thread -> {"idle", "apply", "flush", "mark", "truncate", "replay"}]
    /\ call \in [Thread -> Op \cup {None}]
    /\ upto \in [Thread -> 0 .. MaxSeq]
    /\ rec = None \/ rec \in [plan : Seq(Frame), upto : 0 .. MaxSeq, by : Thread \cup {"open"}]
    /\ colOpen \in BOOLEAN
    /\ synced \in [SegId -> [Offset -> Byte]]
    /\ \A t \in saved : t.loc \in [Key -> Locator \cup {None}] /\ t.used \in Nat
    /\ Tables \in saved
    /\ promised \in [Key -> SUBSET (Value \cup {None})]
    /\ runs \in 1 .. MaxRuns

(* Engine::open in an empty directory.                                      *)
Init ==
    /\ PoolInit /\ TablesInit /\ WalInit
    /\ pc = Idle
    /\ call = NoCalls
    /\ upto = [t \in Thread |-> 0]
    /\ rec = None
    /\ colOpen = FALSE
    /\ phase = "running"
    /\ synced = bytes
    /\ saved = {Tables}
    /\ promised = [k \in Key |-> {None}]
    /\ runs = 1

-----------------------------------------------------------------------------
(* What one operation does to the stores (the heed write transaction makes  *)
(* the whole of it one step)                                                *)

\* KvStore::put_kv and delete_kv return Ok.
Accepted(op) ==
    CASE op.kind = "put" -> op.key \notin BadKey /\ QuotaAllows(op.key, op.val)
      [] op.kind = "delete" -> op.key \notin BadKey
      [] OTHER -> TRUE

\* The sealed segment of a rotation is flushed.
SyncSealed ==
    synced' = IF activeId' = activeId THEN synced
              ELSE [synced EXCEPT ![activeId] = bytes'[activeId]]

StorePut(k, v) ==
    /\ PoolAppend(v)
    /\ CommitPut(k, v, AppendLoc(v))
    /\ SyncSealed
    /\ saved' = saved \cup {Tables'}

StoreDelete(k) ==
    /\ CommitDelete(k) \/ (loc[k] = None /\ UNCHANGED tableVars)
    /\ saved' = saved \cup {Tables'}
    /\ UNCHANGED <<poolVars, synced>>

Effect(op) ==
    CASE op.kind = "put" -> StorePut(op.key, op.val) /\ UNCHANGED colOpen
      [] op.kind = "delete" -> StoreDelete(op.key) /\ UNCHANGED colOpen
      [] op.kind = "putcol" -> colOpen' = TRUE /\ UNCHANGED <<poolVars, tableVars, diskVars>>

\* What a key holds once op took effect.
Result(op) == IF op.kind = "put" THEN op.val ELSE None

Touches(op, k) == op # None /\ op.kind \in {"put", "delete"} /\ op.key = k

-----------------------------------------------------------------------------
(* Writes: put_kv, delete_kv, put_columnar                                  *)

Running(t, at) == phase = "running" /\ pc[t] = at

\* A thread between write_marker and the end of truncate_to holds the mutex.
WalFree == \A t \in Thread : pc[t] # "truncate"

Goto(t, at) == pc' = [pc EXCEPT ![t] = at]

(* First half: the operation is appended to the log and fsynced.            *)
Log(t) ==
    \E op \in Request \cap Op :
        /\ Running(t, "idle") /\ WalFree
        /\ WalAppend(<<op>>)
        /\ call' = [call EXCEPT ![t] = op]
        /\ Goto(t, "apply")
        /\ UNCHANGED <<poolVars, tableVars, diskVars, phase, upto, rec, colOpen, promised, runs>>

(* Second half: the store applies it, or rejects it (invalid key, quota);   *)
(* the caller gets the answer.                                              *)
Apply(t) ==
    LET op == call[t]
    IN  /\ Running(t, "apply")
        /\ \/ /\ Accepted(op)
              /\ Effect(op)
              /\ promised' = [k \in Key |-> IF Touches(op, k) THEN {Result(op)} ELSE promised[k]]
           \/ /\ ~Accepted(op)
              /\ UNCHANGED <<poolVars, tableVars, diskVars, colOpen, promised>>
        /\ call' = [call EXCEPT ![t] = None]
        /\ Goto(t, "idle")
        /\ UNCHANGED <<walVars, phase, upto, rec, runs>>

-----------------------------------------------------------------------------
(* checkpoint (and close)                                                   *)

CheckpointBegin(t) ==
    /\ Running(t, "idle") /\ WalFree
    /\ CheckpointCall \in Request
    /\ upto' = [upto EXCEPT ![t] = nextSeq - 1]
    /\ Goto(t, "flush")
    /\ UNCHANGED <<poolVars, tableVars, walVars, diskVars, phase, call, rec, colOpen, promised, runs>>

\* Seeded fault: the checkpoint does not sync the tables.
CheckpointFlushSegments(t) ==
    /\ Running(t, "flush")
    /\ PoolFlush
    /\ synced' = [synced EXCEPT ![activeId] = bytes[activeId]]
    /\ Goto(t, "mark")
    /\ UNCHANGED <<tableVars, walVars, saved, phase, call, upto, rec, colOpen, promised, runs>>

(* KvStore::flush: the active segment and the tables are synced.            *)
CheckpointFlush(t) ==
    /\ Running(t, "flush")
    /\ PoolFlush
    /\ synced' = [synced EXCEPT ![activeId] = bytes[activeId]]
    /\ saved' = {Tables}
    /\ Goto(t, "mark")
    /\ UNCHANGED <<tableVars, walVars, phase, call, upto, rec, colOpen, promised, runs>>

CheckpointMark(t) ==
    /\ Running(t, "mark") /\ WalFree
    /\ WriteMarker(upto[t])
    /\ Goto(t, "truncate")
    /\ UNCHANGED <<poolVars, tableVars, diskVars, phase, call, upto, rec, colOpen, promised, runs>>

CheckpointTruncate(t) ==
    /\ Running(t, "truncate")
    /\ TruncateTo(upto[t])
    /\ Goto(t, "idle")
    /\ UNCHANGED <<poolVars, tableVars, diskVars, phase, call, upto, rec, colOpen, promised, runs>>

-----------------------------------------------------------------------------
(* Recovery (recover_inner, run by open and by recover())                   *)

\* Contents a client can see now are what the engine is held to from now on.
Settle ==
    promised' = [k \in Key |-> IF Content(k) \in promised[k] THEN {Content(k)} ELSE promised[k]]

\* The state of a recovery that has read the log.
Recovery(who) == [plan |-> Plan, upto |-> MaxOf({marker, LastSeq(Plan)}), by |-> who]

(* Engine::open up to the point where the log has been read; with nothing   *)
(* to replay the engine runs.  A log that cannot be read fails it.          *)
Open ==
    /\ phase \in {"down", "failed"}
    /\ ReadAll(log).ok
    /\ PoolOpen
    /\ WalOpen
    /\ \/ /\ Plan = <<>>
          /\ phase' = "running"
          /\ Settle
          /\ UNCHANGED rec
       \/ /\ Plan # <<>>
          /\ phase' = "opening"
          /\ rec' = Recovery("open")
          /\ UNCHANGED promised
    /\ UNCHANGED <<tableVars, diskVars, pc, call, upto, colOpen, runs>>

OpenUnreadable ==
    /\ phase = "down"
    /\ ~ReadAll(log).ok
    /\ phase' = "failed"
    /\ UNCHANGED <<poolVars, tableVars, walVars, diskVars, memVars, promised, runs>>

(* recover() on a running engine; one recovery at a time is modelled.       *)
RecoverBegin(t) ==
    /\ Running(t, "idle") /\ WalFree /\ rec = None
    /\ RecoverCall \in Request
    /\ ReadAll(log).ok /\ Plan # <<>>
    /\ rec' = Recovery(t)
    /\ Goto(t, "replay")
    /\ UNCHANGED <<poolVars, tableVars, walVars, diskVars, phase, call, upto, colOpen, promised, runs>>

\* replay_op for one entry.  A columnar put needs the store to be open; an
\* entry decoded from mixed-up bytes may write anything.
ReplayOk(op) ==
    IF op = Garbage
    THEN \E k \in Key, v \in Value : Accepted(PutOp(k, v)) /\ Effect(PutOp(k, v))
    ELSE /\ Accepted(op)
         /\ op.kind = "putcol" => colOpen
         /\ Effect(op)

ReplayFails(op) ==
    \/ op = Garbage
    \/ op.kind = "putcol" /\ ~colOpen
    \/ ~Accepted(op)

Replay ==
    /\ rec # None /\ rec.plan # <<>>
    /\ ReplayOk(Head(rec.plan).op)
    /\ rec' = [rec EXCEPT !.plan = Tail(rec.plan)]
    /\ UNCHANGED <<walVars, phase, pc, call, upto, promised, runs>>

\* The recovery is over: the engine runs, or the caller of recover() goes on.
RecoveryOver ==
    /\ rec' = None
    /\ IF rec.by = "open" THEN UNCHANGED pc ELSE Goto(rec.by, "idle")

(* An entry that cannot be replayed ends recovery with an error; the log    *)
(* stays as it is.                                                          *)
ReplayError ==
    /\ rec # None /\ rec.plan # <<>>
    /\ ReplayFails(Head(rec.plan).op)
    /\ RecoveryOver
    /\ IF rec.by = "open" THEN phase' = "failed" /\ colOpen' = FALSE
                          ELSE UNCHANGED <<phase, colOpen>>
    /\ UNCHANGED <<poolVars, tableVars, walVars, diskVars, call, upto, promised, runs>>

(* All entries are replayed: the log is truncated behind them.              *)
ReplayDone ==
    /\ rec # None /\ rec.plan = <<>>
    /\ WalFree
    /\ TruncateTo(rec.upto)
    /\ RecoveryOver
    /\ IF rec.by = "open" THEN phase' = "running" /\ Settle
                          ELSE UNCHANGED <<phase, promised>>
    /\ UNCHANGED <<poolVars, tableVars, diskVars, call, upto, colOpen, runs>>

-----------------------------------------------------------------------------
(* Crashes                                                                  *)

\* What the log holds if the process dies now: a write of it may be cut short.
\* begun is the set of operations that a thread was just appending.
LogAtCrash(begun) ==
    \/ begun = {} /\ log' = log
    \/ /\ "cut" \in Faults
       /\ \/ begun = {} /\ \E t \in Thread : pc[t] = "truncate" /\ log' \in TruncateRemains(upto[t])
          \/ begun = {} /\ rec # None /\ rec.plan = <<>> /\ WalFree /\ log' \in TruncateRemains(rec.upto)
          \/ \E t \in Thread, op \in Request \cap Op :
                /\ Running(t, "idle") /\ WalFree /\ nextSeq <= MaxSeq
                /\ begun = {op}
                /\ log' \in AppendRemains(<<op>>)

\* Operations whose callers never get an answer may or may not take effect.
Unanswered(begun) == begun \cup {call[t] : t \in Thread}

\* The segment bytes whose loss a power failure would show.
Dirty == {c \in SegId \X Offset : bytes[c[1]][c[2]] # synced[c[1]][c[2]]}

Kill == UNCHANGED <<bytes, tableVars, diskVars>>

PowerLoss ==
    /\ \E lost \in SUBSET Dirty :
          bytes' = [s \in SegId |-> [o \in Offset |->
                      IF <<s, o>> \in lost THEN synced[s][o] ELSE bytes[s][o]]]
    /\ synced' = bytes'
    /\ \E t \in saved : loc' = t.loc /\ used' = t.used
    /\ saved' = {Tables'}

\* Crashes while entries are being replayed are not bounded; those of an
\* engine that runs, or has only the truncation left to do, are by MaxRuns.
Replaying == phase = "opening" /\ rec.plan # <<>>

Crash ==
    /\ phase \in {"running", "opening"}
    /\ IF Replaying THEN UNCHANGED runs ELSE runs < MaxRuns /\ runs' = runs + 1
    /\ \E begun \in {{}} \cup {{op} : op \in Request \cap Op} :
        /\ LogAtCrash(begun)
        /\ promised' = [k \in Key |-> promised[k] \cup
                            {Result(op) : op \in {o \in Unanswered(begun) : Touches(o, k)}}]
    /\ \/ "kill" \in Faults /\ Kill
       \/ "power" \in Faults /\ PowerLoss
    /\ phase' = "down"
    /\ pc' = Idle
    /\ call' = NoCalls
    /\ upto' = [t \in Thread |-> 0]
    /\ rec' = None
    /\ colOpen' = FALSE
    /\ activeId' = 0 /\ activeCursor' = 0 /\ nextSeq' = 1  \* until the next open
    /\ UNCHANGED <<segs, cursorFile, marker>>

Next ==
    \/ \E t \in Thread : \/ Log(t) \/ Apply(t)
                         \/ CheckpointBegin(t) \/ CheckpointFlush(t)
                         \/ CheckpointMark(t) \/ CheckpointTruncate(t)
                         \/ RecoverBegin(t)
    \/ Open \/ OpenUnreadable \/ Replay \/ ReplayError \/ ReplayDone
    \/ Crash

Spec == Init /\ [][Next]_vars

-----------------------------------------------------------------------------
(* Properties                                                               *)

\* "No data loss": while the engine runs and no recovery is under way, a key
\* holds what the last successful put or delete of it left there; an
\* operation that a crash interrupted may count or not, a rejected one never
\* does.
KeepsPromises ==
    phase = "running" /\ rec = None => \A k \in Key : Content(k) \in promised[k]

\* The same for the first process alone, in which nothing is excluded: checkpoints,
\* columnar puts and recover() called on the running engine, which replays over the live
\* store what was applied already (recover_inner, replay_op).
LiveKeepsPromises == runs = 1 => KeepsPromises

\* "The engine opens": no replay of the log fails, so that Engine::open
\* always succeeds.
OpenSucceeds == phase # "failed"

\* "A stored value can always be mapped": whatever crashes happen, every
\* committed locator lies within an existing segment file (the check of
\* ZeroCopyBuffer::new) and
\* get_kv_zero_copy does not fail.
LocatorsMapped ==
    \A k \in Key : loc[k] # None =>
        loc[k].seg < segs /\ loc[k].off + loc[k].len <= SegSize

=============================================================================
