-------------------------------- MODULE KvStore --------------------------------
(***************************************************************************)
(* store/kv.rs: threads of one process that put, delete and read keys of   *)
(* one KvStore.                                                            *)
(*                                                                         *)
(* A put runs inside a heed write transaction, of which there is one at a  *)
(* time: it checks the quota, appends the payload to the segment pool and  *)
(* commits locator and quota.  A reader takes the locator from a read      *)
(* transaction, then maps the segment and keeps a pointer into it for as   *)
(* long as it likes.  The flock around a put is taken on one shared file   *)
(* descriptor and therefore does not exclude threads from each other.      *)
(*                                                                         *)
(* A put that is refused (invalid key, quota) aborts its transaction and   *)
(* changes nothing: it is a stuttering step here.                          *)
(***************************************************************************)
EXTENDS KvTables

CONSTANTS
    Writer, Reader,  \* threads
    MaxFailures      \* bound: heed puts and commits that fail

ASSUME StoreAssumption ==
    /\ MaxFailures \in Nat
    /\ None \notin Writer
    /\ None \notin Value

VARIABLES
    txn,       \* the writer inside the heed write transaction, or None
    pc,        \* per writer: "idle", "appended", "rewind"
    put,       \* per writer: the key, value and new locator of its put
    buf,       \* per reader: "idle", "located" or "mapped", its locator, and
               \*   the bytes it was handed
    failures,  \* failed heed operations so far
    poisoned   \* a panic has poisoned the pool mutex

threadVars == <<txn, pc, put, buf, failures, poisoned>>
vars == <<poolVars, tableVars, threadVars>>

PutRecord == [key : Key, val : Value, loc : Locator]
Buffer == [st : {"idle"}]
    \cup [st : {"located"}, loc : Locator]
    \cup [st : {"mapped"}, loc : Locator, val : Seq(Byte)]
IdleBuffer == [st |-> "idle"]

Init ==
    /\ PoolInit
    /\ TablesInit
    /\ txn = None
    /\ pc = [w \in Writer |-> "idle"]
    /\ put = [w \in Writer |-> None]
    /\ buf = [r \in Reader |-> IdleBuffer]
    /\ failures = 0
    /\ poisoned = FALSE

-----------------------------------------------------------------------------
(* put_kv                                                                   *)

\* The transaction opens, the quota allows the put, the payload is appended.
PutAppend(w, k, v) ==
    /\ pc[w] = "idle" /\ txn = None /\ ~poisoned
    /\ QuotaAllows(k, v)
    /\ PoolAppend(v)
    /\ txn' = w
    /\ pc' = [pc EXCEPT ![w] = "appended"]
    /\ put' = [put EXCEPT ![w] = [key |-> k, val |-> v, loc |-> AppendLoc(v)]]
    /\ UNCHANGED <<tableVars, buf, failures, poisoned>>

\* The payload is longer than a segment: the thread unwinds, its transaction
\* is aborted and the pool mutex stays poisoned.
PutPanics(w, k, v) ==
    /\ pc[w] = "idle" /\ txn = None /\ ~poisoned
    /\ QuotaAllows(k, v)
    /\ PoolAppendPanics(v)
    /\ poisoned' = TRUE
    /\ UNCHANGED <<tableVars, txn, pc, put, buf, failures>>

Done(w, next) ==
    /\ txn' = None
    /\ pc' = [pc EXCEPT ![w] = next]

PutCommit(w) ==
    /\ pc[w] = "appended"
    /\ CommitPut(put[w].key, put[w].val, put[w].loc)
    /\ Done(w, "idle")
    /\ put' = [put EXCEPT ![w] = None]
    /\ UNCHANGED <<poolVars, buf, failures, poisoned>>

Fail == failures < MaxFailures /\ failures' = failures + 1

\* A put into one of the tables fails: the transaction is dropped, the
\* appended bytes stay behind as a hole.
TablePutFails(w) ==
    /\ pc[w] = "appended"
    /\ Fail
    /\ Done(w, "idle")
    /\ put' = [put EXCEPT ![w] = None]
    /\ UNCHANGED <<poolVars, tableVars, buf, poisoned>>

\* The commit fails.  That ends the transaction, so that another writer may
\* start before this one gets to rewind the segment.
CommitFails(w) ==
    /\ pc[w] = "appended"
    /\ Fail
    /\ Done(w, "rewind")
    /\ UNCHANGED <<poolVars, tableVars, put, buf, poisoned>>

Rewind(w) ==
    /\ pc[w] = "rewind"
    /\ IF poisoned THEN UNCHANGED poolVars ELSE PoolRewind(put[w].loc)
    /\ pc' = [pc EXCEPT ![w] = "idle"]
    /\ put' = [put EXCEPT ![w] = None]
    /\ UNCHANGED <<tableVars, txn, buf, failures, poisoned>>

-----------------------------------------------------------------------------
(* delete_kv: one transaction, no payload.                                  *)

Delete(w, k) ==
    /\ pc[w] = "idle" /\ txn = None
    /\ CommitDelete(k)
    /\ UNCHANGED <<poolVars, threadVars>>

-----------------------------------------------------------------------------
(* get_kv_zero_copy                                                         *)

GetLocator(r, k) ==
    /\ buf[r].st = "idle"
    /\ loc[k] # None
    /\ buf' = [buf EXCEPT ![r] = [st |-> "located", loc |-> loc[k]]]
    /\ UNCHANGED <<poolVars, tableVars, txn, pc, put, failures, poisoned>>

\* sealed_handle and ZeroCopyBuffer::new: the segment file exists and the
\* range lies inside it, otherwise the get fails.
GetMap(r) ==
    /\ buf[r].st = "located"
    /\ LET l == buf[r].loc
       IN  buf' = [buf EXCEPT ![r] =
                     IF ~poisoned /\ l.seg < segs /\ l.off + l.len <= SegSize
                     THEN [st |-> "mapped", loc |-> l, val |-> ReadAt(l)]
                     ELSE IdleBuffer]
    /\ UNCHANGED <<poolVars, tableVars, txn, pc, put, failures, poisoned>>

Release(r) ==
    /\ buf[r].st = "mapped"
    /\ buf' = [buf EXCEPT ![r] = IdleBuffer]
    /\ UNCHANGED <<poolVars, tableVars, txn, pc, put, failures, poisoned>>

-----------------------------------------------------------------------------
(* flush, and an orderly restart                                            *)

Flush ==
    /\ ~poisoned
    /\ PoolFlush
    /\ UNCHANGED <<tableVars, threadVars>>

\* The process ends after a flush with nothing written since (or without
\* ever having saved a cursor) and opens the store again.  Ends at any other
\* moment are the subject of Engine, where the log is there to repair them.
Restart ==
    /\ \A w \in Writer : pc[w] = "idle"
    /\ cursorFile \in {None, [seg |-> activeId, cur |-> activeCursor]}
    /\ PoolOpen
    /\ buf' = [r \in Reader |-> IdleBuffer]
    /\ poisoned' = FALSE
    /\ UNCHANGED <<tableVars, txn, pc, put, failures>>

-----------------------------------------------------------------------------

WriterStep(w) ==
    \/ \E k \in Key, v \in Value : PutAppend(w, k, v) \/ PutPanics(w, k, v)
    \/ PutCommit(w) \/ TablePutFails(w) \/ CommitFails(w) \/ Rewind(w)
    \/ \E k \in Key : Delete(w, k)

ReaderStep(r) ==
    (\E k \in Key : GetLocator(r, k)) \/ GetMap(r) \/ Release(r)

Next ==
    \/ \E w \in Writer : WriterStep(w)
    \/ \E r \in Reader : ReaderStep(r)
    \/ Flush
    \/ Restart

Spec == Init /\ [][Next]_vars

-----------------------------------------------------------------------------
(* Properties                                                               *)

TypeOK ==
    /\ PoolTypeOK
    /\ TablesTypeOK
    /\ txn \in Writer \cup {None}
    /\ pc \in [Writer -> {"idle", "appended", "rewind"}]
    /\ put \in [Writer -> PutRecord \cup {None}]
    /\ buf \in [Reader -> Buffer]
    /\ failures \in 0 .. MaxFailures
    /\ poisoned \in BOOLEAN

\* A zero-copy buffer never changes under its reader: as long as the reader
\* holds it, whatever is put, overwritten, deleted or rotated meanwhile, the
\* mapped range still holds the bytes the get returned (kv.rs get_kv_zero_copy
\* over the append-only segments).
BuffersStable ==
    \A r \in Reader : buf[r].st = "mapped" => ReadAt(buf[r].loc) = buf[r].val

\* Sealed segments are immutable: no step changes a byte of a segment before
\* the active one (segment.rs: "never mutable once sealed"), and no step makes
\* an earlier segment active again.
SealedImmutable ==
    [][ /\ activeId' >= activeId
        /\ \A s \in SegId : s < activeId => bytes'[s] = bytes[s] ]_vars

\* What a get of each key returns.
Contents == [k \in Key |-> Content(k)]

\* The store implements a map: only a put or a delete of a key changes what a
\* get of that key returns.  Appends, rotations, failed commits with their
\* rewinds, flushes and orderly restarts are invisible.
Map == INSTANCE KvMap WITH map <- Contents

ImplementsMap == Map!Spec

-----------------------------------------------------------------------------
(* The inductive invariant behind BuffersStable and ImplementsMap           *)

\* A failed commit rewinds outside its transaction, which is harmless only
\* if there is no second writer.
RewindIsExclusive == MaxFailures = 0 \/ \A v, w \in Writer : v = w

\* The put of writer w is the last thing written: everything a key or a
\* reader refers to lies before it.
LastWritten(w) ==
    /\ put[w] \in PutRecord
    /\ put[w].loc.seg = activeId
    /\ put[w].loc.off + put[w].loc.len = activeCursor
    /\ \A k \in Key : loc[k] # None => Before(loc[k], put[w].loc)
    /\ \A r \in Reader : buf[r].st # "idle" => Before(buf[r].loc, put[w].loc)

\* Committed locators, the locators readers hold and the locator of the one
\* unfinished put all point into written bytes; the unfinished put owns the
\* end of the active segment, so that neither finishing it nor rewinding over
\* it touches a byte somebody else refers to.
StoreInvariant ==
    /\ TypeOK
    /\ activeId = segs - 1
    /\ \A k \in Key : loc[k] # None => InWritten(loc[k])
    /\ \A r \in Reader : buf[r].st # "idle" => InWritten(buf[r].loc)
    /\ BuffersStable
    /\ \A w \in Writer :
        /\ pc[w] = "appended" => txn = w /\ ReadAt(put[w].loc) = put[w].val
        /\ pc[w] = "rewind" => failures > 0 /\ txn = None
        /\ pc[w] # "idle" => LastWritten(w)

\* Behind QuotaCovers: the transaction that checked the quota is still open
\* when its put is committed, so that the check is not out of date.
QuotaInvariant ==
    /\ QuotaCovers
    /\ PoolTypeOK /\ TablesTypeOK
    /\ pc \in [Writer -> {"idle", "appended", "rewind"}]
    /\ put \in [Writer -> PutRecord \cup {None}]
    /\ \A w \in Writer :
        /\ pc[w] # "idle" => put[w] \in PutRecord
        /\ pc[w] = "appended" => /\ txn = w
                                /\ put[w].loc.len = Len(put[w].val)
                                /\ QuotaAllows(put[w].key, put[w].val)

=============================================================================
