----------------------------- MODULE ColumnarStore -----------------------------
(***************************************************************************)
(* columnar/store.rs: threads of one process that write and read the       *)
(* tables of one ColumnarStore.                                            *)
(*                                                                         *)
(* A put appends the columns of a record batch to the segment pool, each   *)
(* aligned to the width of its type, and commits a TableMeta that points   *)
(* to them, inside one heed write transaction.  Unlike put_kv it keeps the *)
(* pool's mutex from before the first column until it returns.  A get      *)
(* takes the TableMeta from a read transaction and then maps the columns   *)
(* one after the other, taking the mutex for each; the arrays it returns   *)
(* point into the mappings.  The flock around a put is on one shared file  *)
(* descriptor and does not exclude threads from each other.                *)
(*                                                                         *)
(* The disk has room for MaxSegs segments: a rotation beyond that fails.   *)
(***************************************************************************)
EXTENDS SegmentPool, Functions, FiniteSets

CONSTANTS
    Table,           \* table ids
    Batch,           \* record batches: sequences of columns
    QuotaLimit,      \* bytes, 0 = unlimited
    Writer, Reader,  \* threads
    MaxFailures      \* bound: heed puts and commits that fail

\* A column: the byte width of its type, its values' bytes, and whether the
\* store takes it (ColType::from_arrow knows the type, no nulls).
Column == [width : Nat \ {0}, data : Seq(Byte), ok : BOOLEAN]

\* ColumnMeta: where the bytes of a column are, and the width of its type.
ColumnMeta == [loc : Locator, width : Nat \ {0}]

ASSUME ColumnarAssumption ==
    /\ IsFiniteSet(Table)
    /\ Batch \subseteq Seq(Column)
    /\ QuotaLimit \in Nat
    /\ MaxFailures \in Nat
    /\ None \notin Writer
    /\ None \notin Seq(ColumnMeta)

VARIABLES
    meta,      \* per table: its TableMeta (the ColumnMeta of its columns), or None
    used,      \* bytes charged against the quota
    txn,       \* the writer inside the heed write transaction, or None
    pool,      \* the writer that holds the pool's mutex, or None
    pc,        \* per writer: "idle", "begun", "append" or "rewind"
    put,       \* per writer: the put under way
    got,       \* per reader: the get under way or the batch it holds, or None
    failures,  \* failed heed operations so far
    poisoned   \* a panic has poisoned the pool's mutex

tableVars == <<meta, used>>
threadVars == <<txn, pool, pc, put, got, failures, poisoned>>
vars == <<poolVars, tableVars, threadVars>>

\* cols: the columns appended so far; back: the write position before them.
PutRecord == [table : Table, batch : Batch, cols : Seq(ColumnMeta), back : Locator]
NoBack == [seg |-> 0, off |-> 0, len |-> 0]

\* The TableMeta a get read, the columns it has still to map, those it has
\* mapped, and (history) what the columns held when it read the TableMeta.
GetRecord == [table : Table, cols : Seq(ColumnMeta), todo : SUBSET Nat, done : SUBSET Nat,
              val : Seq(Seq(Byte))]

TypeOK ==
    /\ PoolTypeOK
    /\ meta \in [Table -> Seq(ColumnMeta) \cup {None}]
    /\ used \in Nat
    /\ txn \in Writer \cup {None}
    /\ pool \in Writer \cup {None}
    /\ pc \in [Writer -> {"idle", "begun", "append", "rewind"}]
    /\ put \in [Writer -> PutRecord \cup {None}]
    /\ got \in [Reader -> GetRecord \cup {None}]
    /\ failures \in 0 .. MaxFailures
    /\ poisoned \in BOOLEAN

Init ==
    /\ PoolInit
    /\ meta = [t \in Table |-> None]
    /\ used = 0
    /\ txn = None
    /\ pool = None
    /\ pc = [w \in Writer |-> "idle"]
    /\ put = [w \in Writer |-> None]
    /\ got = [r \in Reader |-> None]
    /\ failures = 0
    /\ poisoned = FALSE

-----------------------------------------------------------------------------
(* put_columnar                                                             *)

\* The bytes of the columns in s.
Bytes(s) == SumFunction([i \in DOMAIN s |-> s[i].loc.len])

TableBytes(t) == IF meta[t] = None THEN 0 ELSE Bytes(meta[t])

\* The quota counter once table t has the columns cols: an overwrite is
\* charged for the growth only, and nothing is given back.
NewUsed(t, cols) == used + Larger(Bytes(cols) - TableBytes(t), 0)

QuotaAllows(t, cols) == QuotaLimit = 0 \/ NewUsed(t, cols) <= QuotaLimit

\* The column a put appends next.
More(w) == Len(put[w].cols) < Len(put[w].batch)
NextColumn(w) == put[w].batch[Len(put[w].cols) + 1]

\* Bytes between the write position and the next multiple of width.
Pad(width) == (width - (activeCursor % width)) % width
Zeros(n) == [i \in 1 .. n |-> Zero]

\* A writer leaves: the guard of the mutex and the transaction are dropped.
Leave(w) ==
    /\ txn' = None
    /\ pool' = None
    /\ pc' = [pc EXCEPT ![w] = "idle"]
    /\ put' = [put EXCEPT ![w] = None]

PutBegin(w, t, b) ==
    /\ pc[w] = "idle" /\ txn = None
    /\ txn' = w
    /\ pc' = [pc EXCEPT ![w] = "begun"]
    /\ put' = [put EXCEPT ![w] = [table |-> t, batch |-> b, cols |-> <<>>, back |-> NoBack]]
    /\ UNCHANGED <<poolVars, tableVars, pool, got, failures, poisoned>>

\* The mutex is taken and the write position noted.
PutLock(w) ==
    /\ pc[w] = "begun" /\ pool = None /\ ~poisoned
    /\ pool' = w
    /\ pc' = [pc EXCEPT ![w] = "append"]
    /\ put' = [put EXCEPT ![w].back = [seg |-> activeId, off |-> activeCursor, len |-> 0]]
    /\ UNCHANGED <<poolVars, tableVars, txn, got, failures, poisoned>>

PutPoisoned(w) ==
    /\ pc[w] = "begun" /\ poisoned
    /\ Leave(w)
    /\ UNCHANGED <<poolVars, tableVars, got, failures, poisoned>>

Appending(w) == pc[w] = "append" /\ More(w) /\ NextColumn(w).ok

(* append_aligned, first half: zeros up to the next aligned offset, or the  *)
(* next segment if they do not fit.                                         *)
PutPad(w) ==
    LET pad == Pad(NextColumn(w).width)
    IN  /\ Appending(w) /\ pad > 0
        /\ IF pad > Remaining
           THEN /\ activeId + 1 < MaxSegs
                /\ MoveBehind([seg |-> activeId + 1, off |-> 0, len |-> 0])
                /\ UNCHANGED bytes
           ELSE PoolAppend(Zeros(pad))
        /\ UNCHANGED <<tableVars, threadVars>>

AppendedColumn(c) == [loc |-> AppendLoc(c.data), width |-> c.width]

\* Seeded fault: the column goes where the write position happens to be.
PutColumnUnaligned(w) ==
    /\ Appending(w)
    /\ PoolAppend(NextColumn(w).data)
    /\ put' = [put EXCEPT ![w].cols = Append(@, AppendedColumn(NextColumn(w)))]
    /\ UNCHANGED <<tableVars, txn, pool, pc, got, failures, poisoned>>

(* append_aligned, second half.                                             *)
PutColumn(w) ==
    /\ Appending(w) /\ Pad(NextColumn(w).width) = 0
    /\ PoolAppend(NextColumn(w).data)
    /\ put' = [put EXCEPT ![w].cols = Append(@, AppendedColumn(NextColumn(w)))]
    /\ UNCHANGED <<tableVars, txn, pool, pc, got, failures, poisoned>>

\* A column longer than a segment: the thread unwinds and the mutex stays
\* poisoned.
PutPanics(w) ==
    /\ Appending(w) /\ Pad(NextColumn(w).width) = 0
    /\ PoolAppendPanics(NextColumn(w).data)
    /\ poisoned' = TRUE
    /\ Leave(w)
    /\ UNCHANGED <<tableVars, got, failures>>

\* The next append must rotate and there is no room for another segment.
DiskFull(w) ==
    /\ activeId + 1 = MaxSegs
    /\ LET pad == Pad(NextColumn(w).width)
       IN  IF pad > 0 THEN pad > Remaining ELSE Len(NextColumn(w).data) > Remaining

(* A column the store does not take, or an append that fails: the write     *)
(* position goes back to where it was before the first column.              *)
PutColumnFails(w) ==
    /\ pc[w] = "append" /\ More(w)
    /\ ~NextColumn(w).ok \/ DiskFull(w)
    /\ PoolRewind(put[w].back)
    /\ Leave(w)
    /\ UNCHANGED <<tableVars, got, failures, poisoned>>

Appended(w) == pc[w] = "append" /\ ~More(w)

PutRejected(w) ==
    /\ Appended(w)
    /\ ~QuotaAllows(put[w].table, put[w].cols)
    /\ PoolRewind(put[w].back)
    /\ Leave(w)
    /\ UNCHANGED <<tableVars, got, failures, poisoned>>

Fail == failures < MaxFailures /\ failures' = failures + 1

\* A put into one of the heed tables fails: the columns stay as a hole.
TablePutFails(w) ==
    /\ Appended(w) /\ QuotaAllows(put[w].table, put[w].cols)
    /\ Fail
    /\ Leave(w)
    /\ UNCHANGED <<poolVars, tableVars, got, poisoned>>

\* Seeded fault: an overwrite is not charged for its growth.
PutCommitFree(w) ==
    /\ Appended(w) /\ QuotaAllows(put[w].table, put[w].cols)
    /\ meta' = [meta EXCEPT ![put[w].table] = put[w].cols]
    /\ used' = IF meta[put[w].table] = None THEN used + Bytes(put[w].cols) ELSE used
    /\ Leave(w)
    /\ UNCHANGED <<poolVars, got, failures, poisoned>>

PutCommit(w) ==
    /\ Appended(w) /\ QuotaAllows(put[w].table, put[w].cols)
    /\ meta' = [meta EXCEPT ![put[w].table] = put[w].cols]
    /\ used' = NewUsed(put[w].table, put[w].cols)
    /\ Leave(w)
    /\ UNCHANGED <<poolVars, got, failures, poisoned>>

\* Seeded fault: the mutex is not kept until the rewind.
CommitFailsUnlocked(w) ==
    /\ Appended(w) /\ QuotaAllows(put[w].table, put[w].cols)
    /\ Fail
    /\ txn' = None
    /\ pool' = None
    /\ pc' = [pc EXCEPT ![w] = "rewind"]
    /\ UNCHANGED <<poolVars, tableVars, put, got, poisoned>>

\* The commit fails.  That ends the transaction, but the mutex is kept.
CommitFails(w) ==
    /\ Appended(w) /\ QuotaAllows(put[w].table, put[w].cols)
    /\ Fail
    /\ txn' = None
    /\ pc' = [pc EXCEPT ![w] = "rewind"]
    /\ UNCHANGED <<poolVars, tableVars, pool, put, got, poisoned>>

PutRewind(w) ==
    /\ pc[w] = "rewind"
    /\ PoolRewind(put[w].back)
    /\ pool' = None
    /\ pc' = [pc EXCEPT ![w] = "idle"]
    /\ put' = [put EXCEPT ![w] = None]
    /\ UNCHANGED <<tableVars, txn, got, failures, poisoned>>

-----------------------------------------------------------------------------
(* get_columnar_zero_copy                                                   *)

\* What the columns of s hold now.
Contents(s) == [i \in DOMAIN s |-> ReadAt(s[i].loc)]

\* The TableMeta is read; the caller asked for the columns in sel.
GetMeta(r, t) ==
    /\ got[r] = None
    /\ meta[t] # None
    /\ \E sel \in SUBSET (DOMAIN meta[t]) \ {{}} :
          got' = [got EXCEPT ![r] = [table |-> t, cols |-> meta[t], todo |-> sel,
                                     done |-> {}, val |-> Contents(meta[t])]]
    /\ UNCHANGED <<poolVars, tableVars, txn, pool, pc, put, failures, poisoned>>

\* Column i is the one the get maps next.
IsNext(i, S) == i \in S /\ \A n \in S : i <= n

\* Seeded fault: the TableMeta is read again for every column.
GetColumnAgain(r) ==
    /\ got[r] # None /\ pool = None
    /\ \E i \in got[r].todo :
          /\ IsNext(i, got[r].todo)
          /\ got' = [got EXCEPT ![r] =
                       IF ~poisoned /\ i \in DOMAIN meta[got[r].table]
                       THEN [got[r] EXCEPT !.cols = meta[got[r].table],
                                           !.todo = @ \ {i}, !.done = @ \cup {i}]
                       ELSE None]
    /\ UNCHANGED <<poolVars, tableVars, txn, pool, pc, put, failures, poisoned>>

(* sealed_handle and build_primitive_array for the next column; without the *)
(* mutex or the segment file the get fails.                                 *)
GetColumn(r) ==
    /\ got[r] # None /\ pool = None
    /\ \E i \in got[r].todo :
          /\ IsNext(i, got[r].todo)
          /\ got' = [got EXCEPT ![r] =
                       IF ~poisoned /\ got[r].cols[i].loc.seg < segs
                       THEN [got[r] EXCEPT !.todo = @ \ {i}, !.done = @ \cup {i}]
                       ELSE None]
    /\ UNCHANGED <<poolVars, tableVars, txn, pool, pc, put, failures, poisoned>>

Release(r) ==
    /\ got[r] # None /\ got[r].todo = {}
    /\ got' = [got EXCEPT ![r] = None]
    /\ UNCHANGED <<poolVars, tableVars, txn, pool, pc, put, failures, poisoned>>

-----------------------------------------------------------------------------
(* flush, and an orderly restart                                            *)

Flush ==
    /\ pool = None /\ ~poisoned
    /\ PoolFlush
    /\ UNCHANGED <<tableVars, threadVars>>

\* The process ends between two puts, with the write position saved (or none
\* ever saved), and the store is opened again.
Restart ==
    /\ \A w \in Writer : pc[w] = "idle"
    /\ cursorFile \in {None, [seg |-> activeId, cur |-> activeCursor]}
    /\ PoolOpen
    /\ got' = [r \in Reader |-> None]
    /\ poisoned' = FALSE
    /\ UNCHANGED <<tableVars, txn, pool, pc, put, failures>>

Next ==
    \/ \E w \in Writer :
          \/ \E t \in Table, b \in Batch : PutBegin(w, t, b)
          \/ PutLock(w) \/ PutPoisoned(w) \/ PutPad(w) \/ PutColumn(w) \/ PutPanics(w)
          \/ PutColumnFails(w) \/ PutRejected(w) \/ TablePutFails(w)
          \/ PutCommit(w) \/ CommitFails(w) \/ PutRewind(w)
    \/ \E r \in Reader :
          \/ \E t \in Table : GetMeta(r, t)
          \/ GetColumn(r) \/ Release(r)
    \/ Flush \/ Restart

Spec == Init /\ [][Next]_vars

-----------------------------------------------------------------------------
(* Properties                                                               *)

\* A batch never changes under its reader and is never a mixture of two puts:
\* every column mapped so far holds what the table held when the get read its
\* TableMeta, whatever other threads put, overwrite, fail to commit or rewind
\* between the columns and afterwards (get_columnar_zero_copy).
BatchesStable ==
    \A r \in Reader : got[r] # None =>
        \A i \in got[r].done : ReadAt(got[r].cols[i].loc) = got[r].val[i]

\* Column m begins at a multiple of its type's width.
Aligned(m) == m.loc.off % m.width = 0

\* Committed columns are aligned, so that build_primitive_array can make a
\* ScalarBuffer of them (it panics on a pointer that is not).
ColumnsAligned ==
    \A t \in Table : meta[t] # None => \A i \in DOMAIN meta[t] : Aligned(meta[t][i])

\* The quota counter is never below what the tables hold (it may be above,
\* since an overwrite by a smaller batch gives nothing back).
LiveBytes == SumFunction([t \in Table |-> TableBytes(t)])

QuotaCovers == LiveBytes <= used /\ (QuotaLimit > 0 => used <= QuotaLimit)

\* The store implements a map from tables to batches: a put changes the whole
\* of one table or nothing at all.
Data(b) == [i \in DOMAIN b |-> b[i].data]
Batches == {Data(b) : b \in Batch}
TableContents == [t \in Table |-> IF meta[t] = None THEN None ELSE Contents(meta[t])]

Map == INSTANCE KvMap WITH Key <- Table, Value <- Batches, map <- TableContents

ImplementsMap == Map!Spec

-----------------------------------------------------------------------------
(* The inductive invariant behind BatchesStable and ImplementsMap           *)

\* The writer holds the mutex and has noted the position it may go back to.
Holding(w) == pc[w] \in {"append", "rewind"}

\* l ends before position b.
Behind(l, b) == l.seg < b.seg \/ (l.seg = b.seg /\ l.off + l.len <= b.off)

\* No append and no rewind reaches the bytes of l any more.
Settled(l) == InWritten(l) /\ \A w \in Writer : Holding(w) => Behind(l, put[w].back)

StoreTypes ==
    /\ PoolTypeOK /\ activeId = segs - 1
    /\ meta \in [Table -> Seq(ColumnMeta) \cup {None}]
    /\ pc \in [Writer -> {"idle", "begun", "append", "rewind"}]
    /\ put \in [Writer -> PutRecord \cup {None}]
    /\ got \in [Reader -> GetRecord \cup {None}]

\* The transaction and the mutex belong to the writers that are at them; the
\* columns appended so far are written and hold the data of the batch.
WriterOK(w) ==
    /\ pc[w] \in {"begun", "append"} <=> txn = w
    /\ Holding(w) <=> pool = w
    /\ pc[w] # "idle" => put[w] \in PutRecord
    /\ pc[w] = "begun" => put[w].cols = <<>>
    /\ Holding(w) => InWritten(put[w].back)
    /\ pc[w] \in {"begun", "append"} =>
          /\ Len(put[w].cols) <= Len(put[w].batch)
          /\ \A i \in DOMAIN put[w].cols :
                /\ InWritten(put[w].cols[i].loc)
                /\ ReadAt(put[w].cols[i].loc) = put[w].batch[i].data

TableOK(t) == meta[t] # None => \A i \in DOMAIN meta[t] : Settled(meta[t][i].loc)

ReaderOK(r) ==
    got[r] # None =>
        /\ got[r].todo \cup got[r].done \subseteq DOMAIN got[r].cols
        /\ \A i \in DOMAIN got[r].cols :
              /\ Settled(got[r].cols[i].loc)
              /\ ReadAt(got[r].cols[i].loc) = got[r].val[i]

ColumnarInvariant ==
    /\ StoreTypes
    /\ \A w \in Writer : WriterOK(w)
    /\ \A t \in Table : TableOK(t)
    /\ \A r \in Reader : ReaderOK(r)
    /\ poisoned => pool = None

\* Behind ColumnsAligned: so are the columns appended but not committed yet.
PutsAligned ==
    \A w \in Writer : pc[w] \in {"begun", "append"} =>
        \A i \in DOMAIN put[w].cols : Aligned(put[w].cols[i])

=============================================================================
