---------------------------- MODULE ColumnarProofs ----------------------------
(***************************************************************************)
(* Proofs about ColumnarStore: batches handed to readers never change, and *)
(* the store implements a map from tables to batches, for any number of    *)
(* threads, tables and failures.                                           *)
(*                                                                         *)
(* The argument: a committed or held column lies behind the position any   *)
(* put under way may go back to (Settled), because the mutex is kept from  *)
(* the moment that position is noted until the rewind is over.  Appends go *)
(* behind everything written, so neither reaches a settled column.         *)
(***************************************************************************)
EXTENDS ColumnarStore, SegmentPoolProofs

\* A step leaves every written column alone.
KeepsWritten ==
    \A l \in Locator : InWritten(l) => InWritten(l)' /\ ReadFrom(bytes', l) = ReadFrom(bytes, l)

\* A step leaves every settled column alone.
KeepsSettled ==
    \A l \in Locator : Settled(l) => Settled(l)' /\ ReadFrom(bytes', l) = ReadFrom(bytes, l)

LEMMA SeqDomain ==
    ASSUME NEW S, NEW s \in Seq(S)
    PROVE  Len(s) \in Nat /\ DOMAIN s = 1 .. Len(s) /\ \A i \in DOMAIN s : s[i] \in S
OBVIOUS

LEMMA AppendElements ==
    ASSUME NEW S, NEW s \in Seq(S), NEW e \in S
    PROVE  /\ Append(s, e) \in Seq(S)
           /\ Len(Append(s, e)) = Len(s) + 1 /\ DOMAIN Append(s, e) = 1 .. Len(s) + 1
           /\ \A i \in 1 .. Len(s) : Append(s, e)[i] = s[i]
           /\ Append(s, e)[Len(s) + 1] = e
OBVIOUS

-----------------------------------------------------------------------------
(* Steps that commit nothing and start no get                               *)

\* A held batch survives a step that leaves settled columns alone.
LEMMA CarryReader ==
    ASSUME ColumnarInvariant, KeepsSettled, NEW r \in Reader, got'[r] = got[r]
    PROVE  ReaderOK(r)'
<1> SUFFICES ASSUME got[r] # None PROVE ReaderOK(r)'
  BY DEF ReaderOK
<1>1. got[r] \in GetRecord /\ ReaderOK(r)
  BY DEF ColumnarInvariant, StoreTypes
<1>2. ASSUME NEW i \in DOMAIN got[r].cols
      PROVE  /\ Settled(got[r].cols[i].loc)'
             /\ ReadFrom(bytes', got[r].cols[i].loc) = got[r].val[i]
  <2>1. got[r].cols[i] \in ColumnMeta
    BY <1>1 DEF GetRecord
  <2>2. got[r].cols[i].loc \in Locator
    BY <2>1 DEF ColumnMeta
  <2>3. /\ Settled(got[r].cols[i].loc)
        /\ ReadFrom(bytes, got[r].cols[i].loc) = got[r].val[i]
    BY <1>1, <1>2 DEF ReaderOK, ReadAt
  <2>4. QED
    BY <2>2, <2>3 DEF KeepsSettled
<1>3. QED
  BY <1>1, <1>2 DEF ReaderOK, ReadAt

\* So does a table.
LEMMA CarryTable ==
    ASSUME ColumnarInvariant, KeepsSettled, UNCHANGED meta, NEW t \in Table
    PROVE  TableOK(t)'
<1> SUFFICES ASSUME meta[t] # None, NEW i \in DOMAIN meta[t]
             PROVE  Settled(meta[t][i].loc)'
  BY DEF TableOK
<1>1. meta[t][i] \in ColumnMeta
  BY DEF ColumnarInvariant, StoreTypes
<1>2. meta[t][i].loc \in Locator /\ Settled(meta[t][i].loc)
  BY <1>1 DEF ColumnarInvariant, TableOK, ColumnMeta
<1>3. QED
  BY <1>2 DEF KeepsSettled

\* The tables and the held batches survive a step that leaves settled columns
\* alone.
LEMMA Carry ==
    ASSUME ColumnarInvariant, KeepsSettled, UNCHANGED <<meta, got>>
    PROVE  (\A t \in Table : TableOK(t))' /\ (\A r \in Reader : ReaderOK(r))'
<1>1. ASSUME NEW t \in Table PROVE TableOK(t)'
  BY CarryTable
<1>2. ASSUME NEW r \in Reader PROVE ReaderOK(r)'
  BY CarryReader
<1>3. QED
  BY <1>1, <1>2

\* A step that keeps what is written, and lets nobody note a new position,
\* keeps what is settled.
LEMMA WrittenSettled ==
    ASSUME KeepsWritten,
           \A w \in Writer : Holding(w)' => Holding(w) /\ put'[w].back = put[w].back
    PROVE  KeepsSettled
<1> SUFFICES ASSUME NEW l \in Locator, Settled(l)
             PROVE  Settled(l)' /\ ReadFrom(bytes', l) = ReadFrom(bytes, l)
  BY DEF KeepsSettled
<1>1. InWritten(l)' /\ ReadFrom(bytes', l) = ReadFrom(bytes, l)
  BY DEF KeepsWritten, Settled
<1>2. ASSUME NEW w \in Writer, Holding(w)' PROVE Behind(l, put[w].back)'
  BY <1>2 DEF Settled, Behind
<1>3. QED
  BY <1>1, <1>2 DEF Settled

LEMMA SamePosition ==
    ASSUME UNCHANGED <<activeId, activeCursor, bytes>>
    PROVE  KeepsWritten
BY DEF KeepsWritten, InWritten

\* A writer that takes no part in a step keeps its invariant if the step keeps
\* what is written, or if the writer has appended nothing.
LEMMA Bystander ==
    ASSUME ColumnarInvariant, NEW x \in Writer,
           pc'[x] = pc[x], put'[x] = put[x],
           txn' = x <=> txn = x, pool' = x <=> pool = x,
           Holding(x) => KeepsWritten
    PROVE  WriterOK(x)'
<1>1. WriterOK(x) /\ Holding(x)' = Holding(x)
  BY Zenon DEF ColumnarInvariant, Holding
<1>2. CASE ~Holding(x)
  <2>1. pc[x] # "append"
    BY <1>2 DEF Holding
  <2>2. pc[x] = "begun" => DOMAIN put[x].cols = {}
    BY <1>1 DEF WriterOK
  <2>3. QED
    BY <1>1, <1>2, <2>1, <2>2 DEF WriterOK
<1>3. CASE Holding(x)
  <2>1. pc[x] # "idle"
    BY <1>3, Zenon DEF Holding
  <2>2. put[x] \in PutRecord /\ put[x].back \in Locator
    BY <1>1, <2>1, Zenon DEF WriterOK, PutRecord
  <2>3. InWritten(put[x].back)'
    BY <1>1, <1>3, <2>2, Zenon DEF WriterOK, KeepsWritten
  <2>4. ASSUME pc[x] \in {"begun", "append"}, NEW i \in DOMAIN put[x].cols
        PROVE  /\ InWritten(put[x].cols[i].loc)'
               /\ ReadFrom(bytes', put[x].cols[i].loc) = put[x].batch[i].data
    <3>1. put[x].cols[i] \in ColumnMeta
      BY <2>2, <2>4 DEF PutRecord
    <3>2. put[x].cols[i].loc \in Locator
      BY <3>1, Zenon DEF ColumnMeta
    <3>3. /\ InWritten(put[x].cols[i].loc)
          /\ ReadFrom(bytes, put[x].cols[i].loc) = put[x].batch[i].data
      BY <1>1, <2>4 DEF WriterOK, ReadAt
    <3>4. QED
      BY <1>3, <3>2, <3>3 DEF KeepsWritten
  <2>5. QED
    BY <1>1, <1>3, <2>2, <2>3, <2>4 DEF WriterOK, ReadAt
<1>4. QED
  BY <1>2, <1>3

-----------------------------------------------------------------------------
(* One lemma per action                                                     *)

LEMMA InvariantInit == Init => ColumnarInvariant
<1> SUFFICES ASSUME Init PROVE ColumnarInvariant
  OBVIOUS
<1>1. PoolTypeOK /\ activeId = segs - 1
  BY PoolAssumption DEF Init, PoolInit, PoolTypeOK, SegId
<1>2. StoreTypes
  BY <1>1 DEF Init, StoreTypes
<1>3. ASSUME NEW w \in Writer PROVE WriterOK(w)
  BY ColumnarAssumption DEF Init, WriterOK, Holding
<1>4. (\A t \in Table : TableOK(t)) /\ (\A r \in Reader : ReaderOK(r))
  BY DEF Init, TableOK, ReaderOK
<1>5. pool = None
  BY Zenon DEF Init
<1>6. QED
  BY <1>2, <1>3, <1>4, <1>5 DEF ColumnarInvariant

\* While a writer holds the mutex no other one does, and only the writer in the
\* transaction is before or among its appends.
LEMMA Exclusive ==
    ASSUME ColumnarInvariant, NEW w \in Writer, NEW x \in Writer \ {w}
    PROVE  /\ Holding(w) => ~Holding(x)
           /\ pc[w] \in {"begun", "append"} => pc[x] \notin {"begun", "append"}
BY DEF ColumnarInvariant, WriterOK

LEMMA PutBeginStep ==
    ASSUME ColumnarInvariant, NEW w \in Writer, NEW t \in Table, NEW b \in Batch,
           PutBegin(w, t, b)
    PROVE  ColumnarInvariant'
<1>1. /\ UNCHANGED <<activeId, activeCursor, bytes, segs, cursorFile>>
      /\ UNCHANGED <<meta, pool, got>>
  BY DEF PutBegin, poolVars, tableVars
<1>2. NoBack \in Locator
  BY PoolAssumption DEF NoBack, Locator, SegId
<1>3. put'[w] \in PutRecord /\ put'[w].cols = <<>> /\ put'[w].batch = b /\ pc'[w] = "begun"
  BY <1>2 DEF PutBegin, PutRecord, ColumnarInvariant, StoreTypes
<1>4. KeepsWritten /\ KeepsSettled
  BY <1>1, SamePosition, WrittenSettled, Zenon DEF PutBegin, Holding, ColumnarInvariant, StoreTypes
<1>5. StoreTypes'
  BY <1>1, <1>3, Zenon DEF PutBegin, ColumnarInvariant, StoreTypes, PoolTypeOK
<1>6. WriterOK(w)'
  <2>1. Len(b) >= 0 /\ ~Holding(w) /\ ~(Holding(w)') /\ pool # w
    BY <1>3, ColumnarAssumption DEF PutBegin, Holding, ColumnarInvariant, WriterOK
  <2>2. QED
    BY <1>1, <1>3, <2>1 DEF PutBegin, WriterOK
<1>7. ASSUME NEW x \in Writer \ {w} PROVE WriterOK(x)'
  BY <1>1, <1>4, ColumnarAssumption, Bystander DEF PutBegin, ColumnarInvariant, StoreTypes
<1>8. poisoned' = poisoned
  BY DEF PutBegin
<1>9. QED
  BY <1>1, <1>4, <1>5, <1>6, <1>7, <1>8, Carry DEF ColumnarInvariant

LEMMA PutLockStep ==
    ASSUME ColumnarInvariant, NEW w \in Writer, PutLock(w)
    PROVE  ColumnarInvariant'
<1> DEFINE b == [seg |-> activeId, off |-> activeCursor, len |-> 0]
<1>1. /\ UNCHANGED <<activeId, activeCursor, bytes, segs, cursorFile>>
      /\ UNCHANGED <<meta, txn, got>>
  BY DEF PutLock, poolVars, tableVars
<1>2. b \in Locator /\ InWritten(b) /\ activeId \in Nat /\ activeCursor \in Nat
  BY PoolAssumption DEF Locator, SegId, InWritten, ColumnarInvariant, StoreTypes, PoolTypeOK
<1>3. put[w] \in PutRecord /\ pc[w] = "begun" /\ WriterOK(w)
  BY DEF PutLock, ColumnarInvariant, WriterOK
<1>4. /\ pc'[w] = "append"
      /\ put'[w] \in PutRecord /\ put'[w].back = b
      /\ put'[w].cols = put[w].cols /\ put'[w].batch = put[w].batch
  BY <1>2, <1>3 DEF PutLock, PutRecord, ColumnarInvariant, StoreTypes
<1>5. \A x \in Writer : ~Holding(x)
  BY ColumnarAssumption DEF PutLock, ColumnarInvariant, WriterOK
<1>6. \A x \in Writer \ {w} : pc'[x] = pc[x] /\ put'[x] = put[x] /\ ~(Holding(x)')
  BY <1>5, Zenon DEF PutLock, Holding, ColumnarInvariant, StoreTypes
<1>7. KeepsSettled
  <2> SUFFICES ASSUME NEW l \in Locator, Settled(l)
               PROVE  Settled(l)' /\ ReadFrom(bytes', l) = ReadFrom(bytes, l)
    BY DEF KeepsSettled
  <2>1. InWritten(l) /\ InWritten(l)' /\ ReadFrom(bytes', l) = ReadFrom(bytes, l)
    BY <1>1, SamePosition DEF KeepsWritten, Settled
  <2>2. l.seg \in Nat /\ l.off \in Nat /\ l.len \in Nat
    BY PoolAssumption DEF Locator, SegId
  <2>3. Behind(l, b)
    BY <1>2, <2>1, <2>2 DEF InWritten, Behind
  <2>4. QED
    BY <1>4, <1>6, <2>1, <2>3 DEF Settled, Behind
<1>8. StoreTypes'
  <2>1. put' \in [Writer -> PutRecord \cup {None}]
    BY <1>4, Zenon DEF PutLock, ColumnarInvariant, StoreTypes
  <2>2. QED
    BY <1>1, <2>1 DEF PutLock, ColumnarInvariant, StoreTypes, PoolTypeOK
<1>9. WriterOK(w)'
  <2>1. Holding(w)' /\ pool' = w /\ txn' = w
    BY <1>1, <1>3, <1>4 DEF PutLock, Holding, WriterOK
  <2>2. InWritten(put[w].back)'
    BY <1>1, <1>2, <1>4, Zenon DEF InWritten
  <2>3. DOMAIN put'[w].cols = {} /\ Len(put'[w].cols) <= Len(put'[w].batch)
    BY <1>3, <1>4 DEF WriterOK
  <2>4. QED
    BY <1>4, <2>1, <2>2, <2>3 DEF WriterOK
<1>10. ASSUME NEW x \in Writer \ {w} PROVE WriterOK(x)'
  BY <1>1, <1>5, <1>6, Bystander, ColumnarAssumption DEF PutLock
<1>11. ~poisoned'
  BY DEF PutLock
<1>12. QED
  BY <1>1, <1>7, <1>8, <1>9, <1>10, <1>11, Carry DEF ColumnarInvariant

\* Other writers when w ends its put while none of them holds the mutex.
LEMMA LeaveWriters ==
    ASSUME ColumnarInvariant, NEW w \in Writer,
           pc' = [pc EXCEPT ![w] = "idle"], put' = [put EXCEPT ![w] = None],
           pool' = None, txn' # w, \A x \in Writer \ {w} : txn' = x <=> txn = x,
           \A x \in Writer \ {w} : ~Holding(x)
    PROVE  /\ \A x \in Writer : ~(Holding(x)') /\ WriterOK(x)'
           /\ pc' \in [Writer -> {"idle", "begun", "append", "rewind"}]
           /\ put' \in [Writer -> PutRecord \cup {None}]
<1>1. /\ pc'[w] = "idle" /\ put'[w] = None
      /\ \A x \in Writer \ {w} : pc'[x] = pc[x] /\ put'[x] = put[x]
  BY DEF ColumnarInvariant, StoreTypes
<1>2. \A x \in Writer : ~(Holding(x)')
  BY <1>1, Zenon DEF Holding
<1>3. WriterOK(w)'
  BY <1>1, <1>2, ColumnarAssumption DEF WriterOK
<1>4. ASSUME NEW x \in Writer \ {w} PROVE WriterOK(x)'
  <2>1. pool # x
    BY Zenon DEF ColumnarInvariant, WriterOK
  <2>2. QED
    BY <1>1, <2>1, Bystander, ColumnarAssumption, Zenon
<1>5. QED
  BY <1>2, <1>3, <1>4 DEF ColumnarInvariant, StoreTypes

\* A put that ends without a commit keeps the invariant if settled columns stay
\* written.
LEMMA LeaveStep ==
    ASSUME ColumnarInvariant, NEW w \in Writer,
           pc' = [pc EXCEPT ![w] = "idle"], put' = [put EXCEPT ![w] = None],
           pool' = None, txn' # w, \A x \in Writer \ {w} : txn' = x <=> txn = x,
           \A x \in Writer \ {w} : ~Holding(x),
           UNCHANGED <<meta, got>>, PoolTypeOK', activeId' = segs' - 1,
           \A l \in Locator : Settled(l) =>
               InWritten(l)' /\ ReadFrom(bytes', l) = ReadFrom(bytes, l)
    PROVE  ColumnarInvariant'
<1>1. /\ \A x \in Writer : ~(Holding(x)') /\ WriterOK(x)'
      /\ pc' \in [Writer -> {"idle", "begun", "append", "rewind"}]
      /\ put' \in [Writer -> PutRecord \cup {None}]
  BY LeaveWriters, Zenon
<1>2. KeepsSettled
  BY <1>1, Zenon DEF KeepsSettled, Settled
<1>3. StoreTypes'
  BY <1>1 DEF ColumnarInvariant, StoreTypes
<1>4. QED
  BY <1>1, <1>2, <1>3, Carry DEF ColumnarInvariant

\* The same for an action that drops transaction and mutex (Leave).
LEMMA LeaveTxn ==
    ASSUME ColumnarInvariant, NEW w \in Writer, pc[w] \in {"begun", "append"}, Leave(w)
    PROVE  txn' # w /\ \A x \in Writer \ {w} : txn' = x <=> txn = x
<1>1. txn = w /\ txn' = None
  BY DEF ColumnarInvariant, WriterOK, Leave
<1>2. QED
  BY <1>1, ColumnarAssumption, Zenon

LEMMA PutPoisonedStep ==
    ASSUME ColumnarInvariant, NEW w \in Writer, PutPoisoned(w)
    PROVE  ColumnarInvariant'
<1>1. pool = None
  BY Zenon DEF PutPoisoned, ColumnarInvariant
<1>2. \A x \in Writer \ {w} : ~Holding(x)
  BY <1>1, ColumnarAssumption DEF ColumnarInvariant, WriterOK
<1>3. txn' # w /\ \A x \in Writer \ {w} : txn' = x <=> txn = x
  BY LeaveTxn DEF PutPoisoned
<1>4. /\ UNCHANGED <<activeId, activeCursor, bytes, segs, cursorFile, meta, got>>
      /\ Leave(w)
  BY Zenon DEF PutPoisoned, poolVars, tableVars
<1>5. PoolTypeOK' /\ activeId' = segs' - 1
  BY <1>4 DEF ColumnarInvariant, StoreTypes, PoolTypeOK
<1>6. KeepsWritten
  BY <1>4, SamePosition, Zenon
<1>7. QED
  BY <1>2, <1>3, <1>4, <1>5, <1>6, LeaveStep, Zenon DEF Leave, KeepsWritten, Settled

LEMMA TablePutFailsStep ==
    ASSUME ColumnarInvariant, NEW w \in Writer, TablePutFails(w)
    PROVE  ColumnarInvariant'
<1>1. pc[w] = "append" /\ Holding(w)
  BY DEF TablePutFails, Appended, Holding
<1>2. \A x \in Writer \ {w} : ~Holding(x)
  BY <1>1, Exclusive, Zenon
<1>3. txn' # w /\ \A x \in Writer \ {w} : txn' = x <=> txn = x
  BY <1>1, LeaveTxn DEF TablePutFails
<1>4. /\ UNCHANGED <<activeId, activeCursor, bytes, segs, cursorFile, meta, got>>
      /\ Leave(w)
  BY Zenon DEF TablePutFails, poolVars, tableVars
<1>5. PoolTypeOK' /\ activeId' = segs' - 1
  BY <1>4 DEF ColumnarInvariant, StoreTypes, PoolTypeOK
<1>6. KeepsWritten
  BY <1>4, SamePosition
<1>7. QED
  BY <1>2, <1>3, <1>4, <1>5, <1>6, LeaveStep, Zenon DEF Leave, KeepsWritten, Settled

\* A rotation moves the write position to the start of a new segment.
LEMMA RotationKeeps ==
    ASSUME PoolTypeOK, activeId = segs - 1, activeId + 1 < MaxSegs,
           MoveBehind([seg |-> activeId + 1, off |-> 0, len |-> 0]), UNCHANGED bytes
    PROVE  PoolTypeOK' /\ activeId' = segs' - 1 /\ KeepsWritten
<1>1. activeId \in Nat /\ segs \in Nat /\ MaxSegs \in Nat /\ SegSize \in Nat
  BY PoolAssumption DEF PoolTypeOK, SegId
<1>2. activeId' = activeId + 1 /\ activeCursor' = 0 /\ segs' = activeId + 2
      /\ cursorFile' = [seg |-> activeId + 1, cur |-> 0]
  BY <1>1 DEF MoveBehind, Larger
<1>3. PoolTypeOK' /\ activeId' = segs' - 1
  BY <1>1, <1>2 DEF PoolTypeOK, SegId, Cursor
<1>4. ASSUME NEW l \in Locator, InWritten(l) PROVE InWritten(l)'
  <2>1. l.seg \in Nat /\ l.off \in Nat /\ l.len \in Nat
    BY PoolAssumption DEF Locator, SegId
  <2>2. l.seg <= activeId /\ l.off + l.len <= SegSize
    BY <1>4, Zenon DEF InWritten
  <2>3. l.seg <= activeId' /\ l.seg # activeId'
    BY <1>1, <1>2, <2>1, <2>2
  <2>4. QED
    BY <2>2, <2>3 DEF InWritten
<1>5. QED
  BY <1>3, <1>4 DEF KeepsWritten

\* An append keeps the pool's types, what is written, and the active segment
\* the last one.
LEMMA AppendStep ==
    ASSUME PoolTypeOK, activeId = segs - 1, NEW p \in Seq(Byte), PoolAppend(p)
    PROVE  PoolTypeOK' /\ activeId' = segs' - 1 /\ KeepsWritten
<1>1. PoolTypeOK' /\ KeepsWritten
  BY AppendType, AppendKeeps DEF KeepsWritten
<1>2. activeId \in Nat /\ segs \in Nat
  BY PoolAssumption DEF PoolTypeOK, SegId
<1>3. segs' = Larger(segs, activeId' + 1)
  BY Zenon DEF PoolAppend, MoveBehind
<1>4. activeId' = activeId \/ activeId' = activeId + 1
  BY DEF PoolAppend, MoveBehind, AppendLoc
<1>5. activeId' = segs' - 1
  BY <1>2, <1>3, <1>4 DEF Larger
<1>6. QED
  BY <1>1, <1>5

\* The column a put appends next is one of its batch.
LEMMA NextColumnType ==
    ASSUME ColumnarInvariant, NEW w \in Writer, pc[w] = "append", More(w)
    PROVE  /\ put[w] \in PutRecord
           /\ NextColumn(w) \in Column
           /\ Len(put[w].cols) \in Nat
           /\ Len(put[w].cols) + 1 \in 1 .. Len(put[w].batch)
<1>1. put[w] \in PutRecord
  BY DEF ColumnarInvariant, WriterOK
<1>2. put[w].batch \in Seq(Column) /\ put[w].cols \in Seq(ColumnMeta)
  BY <1>1, ColumnarAssumption DEF PutRecord
<1>3. Len(put[w].cols) + 1 \in 1 .. Len(put[w].batch)
  BY <1>2 DEF More
<1>4. QED
  BY <1>1, <1>2, <1>3 DEF NextColumn

\* What an append of that column returns is the ColumnMeta of a column.
LEMMA NextColumnMeta ==
    ASSUME ColumnarInvariant, NEW w \in Writer, PutColumn(w)
    PROVE  AppendedColumn(NextColumn(w)) \in ColumnMeta
<1>1. NextColumn(w) \in Column /\ PoolTypeOK /\ PoolAppend(NextColumn(w).data)
  BY NextColumnType DEF PutColumn, Appending, ColumnarInvariant, StoreTypes
<1>2. NextColumn(w).data \in Seq(Byte) /\ NextColumn(w).width \in Nat \ {0}
  BY <1>1 DEF Column
<1>3. AppendLoc(NextColumn(w).data) \in Locator
  BY <1>1, <1>2, AppendLocType, Zenon
<1>4. QED
  BY <1>2, <1>3 DEF AppendedColumn, ColumnMeta

LEMMA PutPadStep ==
    ASSUME ColumnarInvariant, NEW w \in Writer, PutPad(w)
    PROVE  ColumnarInvariant' /\ KeepsWritten
<1> DEFINE pad == Pad(NextColumn(w).width)
<1>1. UNCHANGED <<meta, txn, pool, pc, put, got>> /\ poisoned' = poisoned
  BY DEF PutPad, tableVars, threadVars
<1>2. PoolTypeOK /\ activeId = segs - 1
  BY DEF ColumnarInvariant, StoreTypes
<1>3. PoolTypeOK' /\ activeId' = segs' - 1 /\ KeepsWritten
  <2>1. CASE pad > Remaining
    BY <1>2, <2>1, RotationKeeps DEF PutPad
  <2>2. CASE ~(pad > Remaining)
    <3>1. PoolAppend(Zeros(pad))
      BY <2>2 DEF PutPad
    <3>2. pad \in Nat
      <4>1. NextColumn(w).width \in Nat \ {0}
        BY NextColumnType DEF PutPad, Appending, Column
      <4>2. activeCursor \in Nat
        BY <1>2, PoolAssumption DEF PoolTypeOK
      <4> DEFINE width == NextColumn(w).width
      <4> HIDE DEF width
      <4>3. width \in Nat \ {0}
        BY <4>1 DEF width
      <4>4. activeCursor % width \in 0 .. width - 1
        BY <4>2, <4>3
      <4>5. width - (activeCursor % width) \in Int
        BY <4>3, <4>4
      <4>6. (width - (activeCursor % width)) % width \in 0 .. width - 1
        BY <4>3, <4>5
      <4>7. (width - (activeCursor % width)) % width \in Nat
        BY <4>3, <4>6
      <4>8. QED
        BY <4>7, Zenon DEF Pad, width
    <3> HIDE DEF pad
    <3>3. Zeros(pad) \in Seq(Byte)
      BY <3>2, PoolAssumption DEF Zeros
    <3>4. QED
      BY <1>2, <3>1, <3>3, AppendStep, Zenon
  <2>3. QED
    BY <2>1, <2>2
<1>4. StoreTypes'
  BY <1>1, <1>3 DEF ColumnarInvariant, StoreTypes
<1>5. ASSUME NEW x \in Writer PROVE WriterOK(x)'
  BY <1>1, <1>3, Bystander
<1>6. KeepsSettled
  BY <1>1, <1>3, WrittenSettled DEF Holding
<1>7. QED
  BY <1>1, <1>3, <1>4, <1>5, <1>6, Carry DEF ColumnarInvariant

LEMMA PutColumnStep ==
    ASSUME ColumnarInvariant, NEW w \in Writer, PutColumn(w)
    PROVE  ColumnarInvariant' /\ KeepsWritten
<1> DEFINE c == NextColumn(w)
           m == [loc |-> AppendLoc(c.data), width |-> c.width]
<1>1. UNCHANGED <<meta, txn, pool, pc, got>> /\ poisoned' = poisoned
  BY DEF PutColumn, tableVars
<1>2. PoolTypeOK /\ activeId = segs - 1 /\ WriterOK(w) /\ pc[w] = "append" /\ More(w)
  BY DEF ColumnarInvariant, StoreTypes, PutColumn, Appending
<1>3. PICK n \in Nat : /\ put[w] \in PutRecord /\ c \in Column
                       /\ n = Len(put[w].cols) /\ n + 1 \in 1 .. Len(put[w].batch)
  BY <1>2, NextColumnType
<1>4. c.data \in Seq(Byte) /\ PoolAppend(c.data)
  BY <1>3 DEF Column, PutColumn
<1>5. PoolTypeOK' /\ activeId' = segs' - 1 /\ KeepsWritten
  BY <1>2, <1>4, AppendStep
<1>6. m \in ColumnMeta
  BY NextColumnMeta DEF AppendedColumn
<1>7. put' = [put EXCEPT ![w].cols = Append(@, m)]
  BY DEF PutColumn, AppendedColumn
<1>8. /\ put'[w] \in PutRecord
      /\ put'[w].cols = Append(put[w].cols, m)
      /\ put'[w].batch = put[w].batch /\ put'[w].back = put[w].back
      /\ \A x \in Writer \ {w} : put'[x] = put[x]
      /\ put' \in [Writer -> PutRecord \cup {None}]
  <2> HIDE DEF m
  <2>1. put[w].cols \in Seq(ColumnMeta) /\ put \in [Writer -> PutRecord \cup {None}]
    BY <1>3 DEF PutRecord, ColumnarInvariant, StoreTypes
  <2>2. Append(put[w].cols, m) \in Seq(ColumnMeta)
    BY <1>6, <2>1
  <2>3. put'[w] = [put[w] EXCEPT !.cols = Append(put[w].cols, m)]
    BY <1>7, <2>1
  <2>4. put'[w] \in PutRecord
    BY <1>3, <2>2, <2>3, Zenon DEF PutRecord
  <2>5. /\ put'[w].cols = Append(put[w].cols, m)
        /\ put'[w].batch = put[w].batch /\ put'[w].back = put[w].back
    BY <1>3, <2>3, Zenon DEF PutRecord
  <2>6. QED
    BY <1>7, <2>1, <2>4, <2>5, Zenon
<1>9. StoreTypes'
  BY <1>1, <1>5, <1>8, Zenon DEF ColumnarInvariant, StoreTypes
<1>10. ASSUME NEW x \in Writer \ {w} PROVE WriterOK(x)'
  BY <1>1, <1>5, <1>8, Bystander, Zenon
<1>11. WriterOK(w)'
  <2> HIDE DEF c, m
  <2>1. put[w].back \in Locator /\ InWritten(put[w].back) /\ Holding(w) /\ Holding(w)'
    BY <1>1, <1>2, <1>3, Zenon DEF PutRecord, WriterOK, Holding
  <2>2. InWritten(put[w].back)'
    BY <1>5, <1>8, <2>1 DEF KeepsWritten, InWritten
  <2>3. put[w].cols \in Seq(ColumnMeta) /\ put[w].batch \in Seq(Column)
    BY <1>3, ColumnarAssumption DEF PutRecord
  <2>4. /\ Len(put'[w].cols) = n + 1 /\ DOMAIN put'[w].cols = 1 .. n + 1
        /\ \A i \in 1 .. n : put'[w].cols[i] = put[w].cols[i]
        /\ put'[w].cols[n + 1] = m
    <3>1. /\ Len(Append(put[w].cols, m)) = Len(put[w].cols) + 1
          /\ DOMAIN Append(put[w].cols, m) = 1 .. Len(put[w].cols) + 1
          /\ \A i \in 1 .. Len(put[w].cols) : Append(put[w].cols, m)[i] = put[w].cols[i]
          /\ Append(put[w].cols, m)[Len(put[w].cols) + 1] = m
      BY <1>6, <2>3, AppendElements
    <3>2. put'[w].cols = Append(put[w].cols, m) /\ Len(put[w].cols) = n
      BY <1>3, <1>8, Zenon
    <3>3. QED
      BY <3>1, <3>2, Zenon
  <2>5. ASSUME NEW i \in 1 .. n
        PROVE  /\ InWritten(put[w].cols[i].loc)'
               /\ ReadFrom(bytes', put'[w].cols[i].loc) = put'[w].batch[i].data
    <3>1. i \in DOMAIN put[w].cols
      BY <1>3, <2>3, <2>5, SeqDomain, Zenon
    <3>2. put'[w].cols[i] = put[w].cols[i] /\ put[w].cols[i] \in ColumnMeta
      BY <2>3, <2>4, <3>1, SeqDomain
    <3>3. put[w].cols[i].loc \in Locator
      BY <3>2, Zenon DEF ColumnMeta
    <3>4. /\ InWritten(put[w].cols[i].loc)
          /\ ReadFrom(bytes, put[w].cols[i].loc) = put[w].batch[i].data
      BY <1>2, <3>1, Zenon DEF WriterOK, ReadAt
    <3>5. QED
      BY <1>5, <1>8, <3>2, <3>3, <3>4, Zenon DEF KeepsWritten, InWritten
  <2>6. /\ InWritten(put[w].cols[n + 1].loc)'
        /\ ReadFrom(bytes', put'[w].cols[n + 1].loc) = put'[w].batch[n + 1].data
    <3>1. put'[w].batch[n + 1] = c
      BY <1>3, <1>8, Zenon DEF NextColumn, c
    <3>2. put'[w].cols[n + 1].loc = AppendLoc(c.data)
      BY <2>4 DEF m
    <3>3. /\ ReadFrom(bytes', AppendLoc(c.data)) = c.data
          /\ AppendLoc(c.data).seg = activeId'
          /\ AppendLoc(c.data).off + AppendLoc(c.data).len = activeCursor'
      BY <1>2, <1>4, AppendStores
    <3>4. activeId' \in Nat /\ activeCursor' \in Nat /\ activeCursor' <= SegSize
      <4>1. activeId' \in SegId /\ activeCursor' \in 0 .. SegSize
        BY <1>5, Zenon DEF PoolTypeOK
      <4>2. QED
        BY <4>1, PoolAssumption DEF SegId
    <3>5. InWritten(put[w].cols[n + 1].loc)'
      BY <3>2, <3>3, <3>4 DEF InWritten
    <3>6. QED
      BY <3>1, <3>2, <3>3, <3>5, Zenon
  <2>7. \A i \in DOMAIN put'[w].cols :
           /\ InWritten(put[w].cols[i].loc)'
           /\ ReadFrom(bytes', put'[w].cols[i].loc) = put'[w].batch[i].data
    <3>1. \A i \in 1 .. n + 1 : i \in 1 .. n \/ i = n + 1
      BY <1>3
    <3>2. QED
      BY <2>4, <2>5, <2>6, <3>1
  <2>8. Len(put'[w].cols) <= Len(put'[w].batch)
    BY <1>3, <1>8, <2>3, <2>4
  <2>9. txn' = w /\ pool' = w /\ pc'[w] = "append"
    BY <1>1, <1>2, <2>1, Zenon DEF WriterOK
  <2>10. QED
    BY <1>8, <2>1, <2>2, <2>7, <2>8, <2>9, Zenon DEF WriterOK, ReadAt
<1>12. KeepsSettled
  BY <1>1, <1>5, <1>8, WrittenSettled DEF Holding
<1>13. QED
  BY <1>1, <1>5, <1>9, <1>10, <1>11, <1>12, Carry DEF ColumnarInvariant

LEMMA PutPanicsStep ==
    ASSUME ColumnarInvariant, NEW w \in Writer, PutPanics(w)
    PROVE  ColumnarInvariant'
<1>1. pc[w] = "append" /\ Holding(w)
  BY DEF PutPanics, Appending, Holding
<1>2. \A x \in Writer \ {w} : ~Holding(x)
  BY <1>1, Exclusive
<1>3. txn' # w /\ \A x \in Writer \ {w} : txn' = x <=> txn = x
  BY <1>1, LeaveTxn, Zenon DEF PutPanics
<1>4. PoolTypeOK' /\ activeId' = segs' - 1 /\ KeepsWritten
  BY RotationKeeps DEF PutPanics, PoolAppendPanics, ColumnarInvariant, StoreTypes
<1>5. UNCHANGED <<meta, got>> /\ Leave(w)
  BY DEF PutPanics, tableVars
<1>6. QED
  BY <1>2, <1>3, <1>4, <1>5, LeaveStep, Zenon DEF Leave, KeepsWritten, Settled

\* A rewind by the holder of the mutex does not reach a settled column.
LEMMA RewindKeeps ==
    ASSUME ColumnarInvariant, NEW w \in Writer, Holding(w), PoolRewind(put[w].back)
    PROVE  /\ PoolTypeOK' /\ activeId' = segs' - 1
           /\ \A l \in Locator : Settled(l) =>
                  InWritten(l)' /\ ReadFrom(bytes', l) = ReadFrom(bytes, l)
<1>1. put[w].back \in Locator
  BY DEF Holding, ColumnarInvariant, WriterOK, PutRecord
<1>2. PICK b \in Locator : b = put[w].back
  BY <1>1
<1>3. b.seg \in Nat /\ b.off \in 0 .. SegSize /\ b.off \in Nat
  BY PoolAssumption DEF Locator, SegId
<1>4. /\ PoolTypeOK /\ activeId = segs - 1 /\ UNCHANGED <<activeId, bytes, segs, cursorFile>>
      /\ activeCursor' = IF b.seg = activeId /\ b.off <= activeCursor
                         THEN b.off ELSE activeCursor
  BY <1>2, Zenon DEF PoolRewind, ColumnarInvariant, StoreTypes
<1>5. PoolTypeOK' /\ activeId' = segs' - 1
  BY <1>3, <1>4, Zenon DEF PoolTypeOK
<1>6. ASSUME NEW l \in Locator, Settled(l) PROVE InWritten(l)'
  <2>1. Behind(l, b) /\ InWritten(l)
    BY <1>2, <1>6 DEF Settled
  <2>2. QED
    BY <1>4, <2>1 DEF Behind, InWritten
<1>7. QED
  BY <1>4, <1>5, <1>6, Zenon

LEMMA RewindStep ==
    ASSUME ColumnarInvariant, NEW w \in Writer,
           PutColumnFails(w) \/ PutRejected(w) \/ PutRewind(w)
    PROVE  ColumnarInvariant'
<1>1. /\ Holding(w) /\ PoolRewind(put[w].back) /\ UNCHANGED <<meta, got>>
      /\ pc' = [pc EXCEPT ![w] = "idle"] /\ put' = [put EXCEPT ![w] = None]
      /\ pool' = None
  BY DEF PutColumnFails, PutRejected, PutRewind, Appended, Holding, Leave, tableVars
<1>2. \A x \in Writer \ {w} : ~Holding(x)
  BY <1>1, Exclusive
<1>3. txn' # w /\ \A x \in Writer \ {w} : txn' = x <=> txn = x
  <2>1. CASE PutRewind(w)
    BY <2>1, Zenon DEF PutRewind, ColumnarInvariant, WriterOK
  <2>2. CASE PutColumnFails(w) \/ PutRejected(w)
    BY <2>2, LeaveTxn, Zenon DEF PutColumnFails, PutRejected, Appended
  <2>3. QED
    BY <2>1, <2>2, Zenon
<1>4. /\ PoolTypeOK' /\ activeId' = segs' - 1
      /\ \A l \in Locator : Settled(l) =>
             InWritten(l)' /\ ReadFrom(bytes', l) = ReadFrom(bytes, l)
  BY <1>1, RewindKeeps
<1>5. QED
  BY <1>1, <1>2, <1>3, <1>4, LeaveStep, Zenon

LEMMA PutCommitStep ==
    ASSUME ColumnarInvariant, NEW w \in Writer, PutCommit(w)
    PROVE  ColumnarInvariant'
<1>1. pc[w] = "append" /\ Holding(w) /\ put[w] \in PutRecord /\ WriterOK(w)
  BY DEF PutCommit, Appended, Holding, ColumnarInvariant, WriterOK
<1>2. \A x \in Writer \ {w} : ~Holding(x)
  BY <1>1, Exclusive, Zenon
<1>3. txn' # w /\ \A x \in Writer \ {w} : txn' = x <=> txn = x
  BY <1>1, LeaveTxn, Zenon DEF PutCommit
<1>4. /\ UNCHANGED <<activeId, activeCursor, bytes, segs, cursorFile, got>>
      /\ Leave(w) /\ meta' = [meta EXCEPT ![put[w].table] = put[w].cols]
  BY DEF PutCommit, poolVars
<1>5. /\ \A x \in Writer : ~(Holding(x)') /\ WriterOK(x)'
      /\ pc' \in [Writer -> {"idle", "begun", "append", "rewind"}]
      /\ put' \in [Writer -> PutRecord \cup {None}]
  BY <1>2, <1>3, <1>4, LeaveWriters, Zenon DEF Leave
<1>6. \A l \in Locator : InWritten(l) =>
          Settled(l)' /\ ReadFrom(bytes', l) = ReadFrom(bytes, l)
  BY <1>4, <1>5, Zenon DEF Settled, InWritten
<1>7. put[w].table \in Table /\ put[w].cols \in Seq(ColumnMeta)
  BY <1>1, Zenon DEF PutRecord
<1>8. StoreTypes'
  BY <1>4, <1>5, <1>7, Zenon DEF ColumnarInvariant, StoreTypes, PoolTypeOK
<1>9. ASSUME NEW t \in Table PROVE TableOK(t)'
  <2> SUFFICES ASSUME meta'[t] # None, NEW i \in DOMAIN meta'[t]
               PROVE  Settled(meta[t][i].loc)'
    BY Zenon DEF TableOK
  <2>1. meta \in [Table -> Seq(ColumnMeta) \cup {None}] /\ meta'[t] \in Seq(ColumnMeta)
    BY <1>8 DEF ColumnarInvariant, StoreTypes
  <2>2. meta'[t][i] \in ColumnMeta
    BY <2>1, SeqDomain
  <2>3. meta'[t][i].loc \in Locator
    BY <2>2, Zenon DEF ColumnMeta
  <2>4. InWritten(meta'[t][i].loc)
    <3>1. meta'[t] = put[w].cols \/ meta'[t] = meta[t]
      BY <1>4, <2>1, Zenon
    <3>2. \A j \in DOMAIN put[w].cols : InWritten(put[w].cols[j].loc)
      BY <1>1, Zenon DEF WriterOK
    <3>3. meta[t] # None => \A j \in DOMAIN meta[t] : InWritten(meta[t][j].loc)
      BY Zenon DEF ColumnarInvariant, TableOK, Settled
    <3>4. QED
      BY <3>1, <3>2, <3>3
  <2>5. PICK l \in Locator : l = meta'[t][i].loc
    BY <2>3
  <2>6. Settled(l)'
    BY <1>6, <2>4, <2>5, Zenon
  <2>7. QED
    BY <2>5, <2>6 DEF Settled, InWritten, Behind
<1>10. KeepsSettled
  BY <1>6 DEF KeepsSettled, Settled
<1>11. pool' = None
  BY <1>4 DEF Leave
<1>12. ASSUME NEW r \in Reader PROVE ReaderOK(r)'
  BY <1>4, <1>10, CarryReader, Zenon
<1>13. QED
  BY <1>5, <1>8, <1>9, <1>11, <1>12, Zenon DEF ColumnarInvariant

LEMMA CommitFailsStep ==
    ASSUME ColumnarInvariant, NEW w \in Writer, CommitFails(w)
    PROVE  ColumnarInvariant'
<1>1. /\ UNCHANGED <<activeId, activeCursor, bytes, segs, cursorFile>>
      /\ UNCHANGED <<meta, pool, put, got>> /\ poisoned' = poisoned
      /\ txn' = None /\ pc' = [pc EXCEPT ![w] = "rewind"]
  BY DEF CommitFails, poolVars, tableVars
<1>2. /\ pc[w] = "append" /\ WriterOK(w) /\ pc'[w] = "rewind"
      /\ \A x \in Writer \ {w} : pc'[x] = pc[x]
  BY <1>1, Zenon DEF CommitFails, Appended, ColumnarInvariant, StoreTypes
<1>3. Holding(w) /\ Holding(w)'
  BY <1>2 DEF Holding
<1>4. KeepsWritten
  BY <1>1, SamePosition
<1>5. KeepsSettled
  BY <1>1, <1>2, <1>3, <1>4, WrittenSettled, Zenon DEF Holding
<1>6. StoreTypes'
  BY <1>1, Zenon DEF ColumnarInvariant, StoreTypes, PoolTypeOK
<1>7. WriterOK(w)'
  <2>1. InWritten(put[w].back)'
    BY <1>1, <1>2, <1>3, Zenon DEF WriterOK, InWritten
  <2>2. QED
    BY <1>1, <1>2, <1>3, <2>1, ColumnarAssumption, Zenon DEF WriterOK
<1>8. ASSUME NEW x \in Writer \ {w} PROVE WriterOK(x)'
  <2>1. txn # x
    BY <1>2, Zenon DEF WriterOK
  <2>2. QED
    BY <1>1, <1>2, <1>4, <2>1, Bystander, ColumnarAssumption, Zenon
<1>9. QED
  BY <1>1, <1>5, <1>6, <1>7, <1>8, Carry DEF ColumnarInvariant

\* Nothing but the readers' state changes.
LEMMA ReaderSteps ==
    ASSUME ColumnarInvariant, NEW r \in Reader,
           UNCHANGED <<activeId, activeCursor, bytes, segs, cursorFile>>,
           UNCHANGED <<meta, txn, pool, pc, put>>, poisoned' = poisoned,
           got' \in [Reader -> GetRecord \cup {None}],
           \A x \in Reader \ {r} : got'[x] = got[x],
           ReaderOK(r)'
    PROVE  ColumnarInvariant'
<1>1. KeepsWritten
  BY SamePosition, Zenon
<1>2. ASSUME NEW w \in Writer PROVE WriterOK(w)'
  BY <1>1, Bystander, Zenon
<1>3. KeepsSettled
  BY <1>1, WrittenSettled DEF Holding
<1>4. ASSUME NEW t \in Table PROVE TableOK(t)'
  BY <1>3, CarryTable
<1>5. ASSUME NEW x \in Reader \ {r} PROVE ReaderOK(x)'
  BY <1>3, CarryReader, Zenon
<1>6. StoreTypes'
  BY Zenon DEF ColumnarInvariant, StoreTypes, PoolTypeOK
<1>7. QED
  BY <1>2, <1>4, <1>5, <1>6 DEF ColumnarInvariant

LEMMA GetMetaStep ==
    ASSUME ColumnarInvariant, NEW r \in Reader, NEW t \in Table, GetMeta(r, t)
    PROVE  ColumnarInvariant'
<1>1. /\ UNCHANGED <<activeId, activeCursor, bytes, segs, cursorFile>>
      /\ UNCHANGED <<meta, txn, pool, pc, put>> /\ poisoned' = poisoned
  BY DEF GetMeta, poolVars, tableVars
<1>2. PICK sel \in SUBSET (DOMAIN meta[t]) :
          got' = [got EXCEPT ![r] = [table |-> t, cols |-> meta[t], todo |-> sel,
                                     done |-> {}, val |-> Contents(meta[t])]]
  BY Zenon DEF GetMeta
<1>3. meta[t] \in Seq(ColumnMeta) /\ TableOK(t) /\ meta[t] # None /\ PoolTypeOK
  BY Zenon DEF GetMeta, ColumnarInvariant, StoreTypes
<1>4. ASSUME NEW i \in DOMAIN meta[t]
      PROVE  /\ Settled(meta[t][i].loc)
             /\ ReadAt(meta[t][i].loc) \in Seq(Byte)
  <2>1. meta[t][i] \in ColumnMeta
    BY <1>3
  <2>2. meta[t][i].loc \in Locator /\ Settled(meta[t][i].loc)
    BY <1>3, <2>1, Zenon DEF ColumnMeta, TableOK
  <2>3. meta[t][i].loc.off + meta[t][i].loc.len <= SegSize
    BY <2>2, Zenon DEF Settled, InWritten
  <2>4. QED
    BY <1>3, <2>2, <2>3, ReadType DEF ReadAt
<1>5. Contents(meta[t]) \in Seq(Seq(Byte))
  BY <1>3, <1>4 DEF Contents
<1>6. got'[r] \in GetRecord /\ got' \in [Reader -> GetRecord \cup {None}]
  <2>1. sel \in SUBSET Nat
    <3>1. DOMAIN meta[t] = 1 .. Len(meta[t]) /\ Len(meta[t]) \in Nat
      BY <1>3, SeqDomain, Zenon
    <3>2. 1 .. Len(meta[t]) \subseteq Nat
      BY <3>1
    <3>3. QED
      BY <3>1, <3>2, Zenon
  <2>2. [table |-> t, cols |-> meta[t], todo |-> sel, done |-> {},
         val |-> Contents(meta[t])] \in GetRecord
    BY <1>3, <1>5, <2>1, Zenon DEF GetRecord
  <2>3. QED
    BY <1>2, <2>2, Zenon DEF ColumnarInvariant, StoreTypes
<1>7. ReaderOK(r)'
  <2>1. /\ got'[r].cols = meta[t] /\ got'[r].todo = sel /\ got'[r].done = {}
        /\ got'[r].val = Contents(meta[t])
    BY <1>2, Zenon DEF ColumnarInvariant, StoreTypes
  <2>2. \A l : Settled(l)' = Settled(l)
    BY <1>1, Zenon DEF Settled, InWritten, Holding, Behind
  <2>3. ASSUME NEW i \in DOMAIN meta[t]
        PROVE  Settled(got[r].cols[i].loc)' /\ ReadAt(got[r].cols[i].loc)' = got'[r].val[i]
    <3>1. got'[r].cols[i].loc = meta[t][i].loc
      BY <2>1
    <3>2. PICK l : l = meta[t][i].loc
      OBVIOUS
    <3>3. Settled(l)'
      BY <1>4, <2>2, <2>3, <3>2, Zenon
    <3>4. Settled(got[r].cols[i].loc)'
      BY <3>1, <3>2, <3>3, Zenon DEF Settled, InWritten, Behind
    <3>5. QED
      BY <1>1, <2>1, <2>3, <3>1, <3>4, Zenon DEF ReadAt, Contents
  <2>4. QED
    BY <2>1, <2>3, Zenon DEF ReaderOK
<1>8. \A x \in Reader \ {r} : got'[x] = got[x]
  BY <1>2 DEF ColumnarInvariant, StoreTypes
<1>9. QED
  BY <1>1, <1>6, <1>7, <1>8, ReaderSteps, Zenon

LEMMA GetColumnStep ==
    ASSUME ColumnarInvariant, NEW r \in Reader, GetColumn(r)
    PROVE  ColumnarInvariant'
<1>1. /\ UNCHANGED <<activeId, activeCursor, bytes, segs, cursorFile>>
      /\ UNCHANGED <<meta, txn, pool, pc, put>> /\ poisoned' = poisoned
  BY DEF GetColumn, poolVars, tableVars
<1>2. got[r] \in GetRecord /\ ReaderOK(r) /\ got[r] # None
  BY DEF GetColumn, ColumnarInvariant, StoreTypes
<1>3. PICK i \in got[r].todo :
          \/ got' = [got EXCEPT ![r] = [got[r] EXCEPT !.todo = @ \ {i}, !.done = @ \cup {i}]]
          \/ got' = [got EXCEPT ![r] = None]
  BY Zenon DEF GetColumn
<1>4. \A x \in Reader \ {r} : got'[x] = got[x]
  BY <1>3, Zenon DEF ColumnarInvariant, StoreTypes
<1>5. CASE got' = [got EXCEPT ![r] = None]
  <2>1. got'[r] = None /\ got' \in [Reader -> GetRecord \cup {None}]
    BY <1>5, Zenon DEF ColumnarInvariant, StoreTypes
  <2>2. ReaderOK(r)'
    BY <2>1, Zenon DEF ReaderOK
  <2>3. QED
    BY <1>1, <1>4, <2>1, <2>2, ReaderSteps, Zenon
<1>6. CASE got' = [got EXCEPT ![r] = [got[r] EXCEPT !.todo = @ \ {i}, !.done = @ \cup {i}]]
  <2>1. /\ got'[r] \in GetRecord
        /\ got'[r].cols = got[r].cols /\ got'[r].val = got[r].val
        /\ got'[r].todo = got[r].todo \ {i} /\ got'[r].done = got[r].done \cup {i}
    BY <1>2, <1>6, Zenon DEF GetRecord, ColumnarInvariant, StoreTypes
  <2>2. got' \in [Reader -> GetRecord \cup {None}]
    BY <1>6, <2>1, Zenon DEF ColumnarInvariant, StoreTypes
  <2>3. got'[r].todo \cup got'[r].done \subseteq DOMAIN got'[r].cols
    BY <1>2, <2>1 DEF ReaderOK
  <2>4. ASSUME NEW j \in DOMAIN got[r].cols
        PROVE  Settled(got[r].cols[j].loc)' /\ ReadAt(got[r].cols[j].loc)' = got'[r].val[j]
    <3>1. Settled(got[r].cols[j].loc) /\ ReadAt(got[r].cols[j].loc) = got[r].val[j]
      BY <1>2, <2>4, Zenon DEF ReaderOK
    <3>2. QED
      BY <1>1, <2>1, <3>1, Zenon DEF Settled, InWritten, Behind, Holding, ReadAt
  <2>5. ReaderOK(r)'
    BY <2>1, <2>3, <2>4, Zenon DEF ReaderOK
  <2>6. QED
    BY <1>1, <1>4, <2>2, <2>5, ReaderSteps
<1>7. QED
  BY <1>3, <1>5, <1>6

LEMMA ReleaseStep ==
    ASSUME ColumnarInvariant, NEW r \in Reader, Release(r)
    PROVE  ColumnarInvariant'
<1>1. /\ UNCHANGED <<activeId, activeCursor, bytes, segs, cursorFile>>
      /\ UNCHANGED <<meta, txn, pool, pc, put>> /\ poisoned' = poisoned
  BY Zenon DEF Release, poolVars, tableVars
<1>2. /\ got'[r] = None /\ got' \in [Reader -> GetRecord \cup {None}]
      /\ \A x \in Reader \ {r} : got'[x] = got[x]
  BY Zenon DEF Release, ColumnarInvariant, StoreTypes
<1>3. ReaderOK(r)'
  BY <1>2, Zenon DEF ReaderOK
<1>4. QED
  BY <1>1, <1>2, <1>3, ReaderSteps, Zenon

LEMMA FlushStep ==
    ASSUME ColumnarInvariant, Flush
    PROVE  ColumnarInvariant'
<1>1. /\ UNCHANGED <<activeId, activeCursor, bytes, segs, meta, txn, pool, pc, put, got>>
      /\ poisoned' = poisoned
      /\ cursorFile' = [seg |-> activeId, cur |-> activeCursor]
  BY Zenon DEF Flush, PoolFlush, tableVars, threadVars
<1>2. StoreTypes'
  BY <1>1 DEF ColumnarInvariant, StoreTypes, PoolTypeOK, Cursor
<1>3. KeepsWritten
  BY <1>1, SamePosition, Zenon
<1>4. KeepsSettled
  BY <1>1, <1>3, WrittenSettled, Zenon DEF Holding
<1>5. ASSUME NEW w \in Writer PROVE WriterOK(w)'
  BY <1>1, <1>3, Bystander
<1>6. QED
  BY <1>1, <1>2, <1>4, <1>5, Carry, Zenon DEF ColumnarInvariant

LEMMA RestartStep ==
    ASSUME ColumnarInvariant, Restart
    PROVE  ColumnarInvariant'
<1>1. /\ UNCHANGED <<bytes, cursorFile, meta, txn, pool, pc, put>>
      /\ got' = [r \in Reader |-> None] /\ ~poisoned'
      /\ \A w \in Writer : pc[w] = "idle"
  BY Zenon DEF Restart, PoolOpen, tableVars
<1>2. PoolTypeOK /\ activeId = segs - 1
  BY Zenon DEF ColumnarInvariant, StoreTypes
<1>3. /\ activeId \in Nat /\ segs \in Nat /\ activeId \in SegId /\ activeCursor \in 0 .. SegSize
      /\ MaxSegs \in Nat /\ SegSize \in Nat /\ segs \in 1 .. MaxSegs
  BY <1>2, PoolAssumption DEF PoolTypeOK, SegId
<1>4. \/ activeId' = activeId /\ activeCursor' = activeCursor
      \/ activeId' = segs /\ activeCursor' = 0 /\ segs < MaxSegs
  <2>1. CASE CursorUsable
    <3>1. cursorFile = [seg |-> activeId, cur |-> activeCursor]
      BY <2>1, Zenon DEF Restart, CursorUsable
    <3>2. activeId' = cursorFile.seg /\ activeCursor' = cursorFile.cur
      BY <2>1, Zenon DEF Restart, PoolOpen
    <3>3. QED
      BY <3>1, <3>2
  <2>2. CASE ~CursorUsable
    BY <2>2, Zenon DEF Restart, PoolOpen
  <2>3. QED
    BY <2>1, <2>2, Zenon
<1>5. segs' = Larger(segs, activeId' + 1)
  BY DEF Restart, PoolOpen
<1>6. activeId' = segs' - 1 /\ segs' \in 1 .. MaxSegs
  BY <1>2, <1>3, <1>4, <1>5 DEF Larger
<1>7. activeId' \in SegId /\ activeCursor' \in 0 .. SegSize
  BY <1>3, <1>4 DEF SegId
<1>8. StoreTypes'
  BY <1>1, <1>2, <1>6, <1>7, Zenon DEF ColumnarInvariant, StoreTypes, PoolTypeOK
<1>9. ASSUME NEW l \in Locator, InWritten(l) PROVE InWritten(l)'
  <2>1. l.seg \in Nat
    BY PoolAssumption DEF Locator, SegId
  <2>2. QED
    BY <1>2, <1>3, <1>4, <1>9, <2>1 DEF InWritten
<1>10. KeepsWritten
  BY <1>1, <1>9, Zenon DEF KeepsWritten
<1>11. ASSUME NEW w \in Writer PROVE WriterOK(w)'
  BY <1>1, <1>10, Bystander, Zenon
<1>12. KeepsSettled
  BY <1>1, <1>10, WrittenSettled DEF Holding
<1>13. ASSUME NEW t \in Table PROVE TableOK(t)'
  BY <1>1, <1>12, CarryTable, Zenon
<1>14. ASSUME NEW r \in Reader PROVE ReaderOK(r)'
  BY <1>1, Zenon DEF ReaderOK
<1>15. QED
  BY <1>1, <1>8, <1>11, <1>13, <1>14, Zenon DEF ColumnarInvariant

LEMMA InvariantStep ==
    ASSUME ColumnarInvariant, [Next]_vars
    PROVE  ColumnarInvariant'
<1>1. ASSUME NEW w \in Writer,
             \/ \E t \in Table, b \in Batch : PutBegin(w, t, b)
             \/ PutLock(w) \/ PutPoisoned(w) \/ PutPad(w) \/ PutColumn(w) \/ PutPanics(w)
             \/ PutColumnFails(w) \/ PutRejected(w) \/ TablePutFails(w)
             \/ PutCommit(w) \/ CommitFails(w) \/ PutRewind(w)
      PROVE  ColumnarInvariant'
  BY <1>1, PutBeginStep, PutLockStep, PutPoisonedStep, PutPadStep, PutColumnStep,
     PutPanicsStep, RewindStep, TablePutFailsStep, PutCommitStep, CommitFailsStep
<1>2. ASSUME NEW r \in Reader, (\E t \in Table : GetMeta(r, t)) \/ GetColumn(r) \/ Release(r)
      PROVE  ColumnarInvariant'
  BY <1>2, GetMetaStep, GetColumnStep, ReleaseStep, Zenon
<1>3. ASSUME UNCHANGED vars
      PROVE  ColumnarInvariant'
  <2>1. /\ UNCHANGED <<activeId, activeCursor, bytes, segs, cursorFile>>
        /\ UNCHANGED <<meta, txn, pool, pc, put, got>> /\ poisoned' = poisoned
    BY <1>3 DEF vars, poolVars, tableVars, threadVars
  <2>2. KeepsWritten
    BY <2>1, SamePosition, Zenon
  <2>3. KeepsSettled
    BY <2>1, <2>2, WrittenSettled, Zenon DEF Holding
  <2>4. ASSUME NEW w \in Writer PROVE WriterOK(w)'
    BY <2>1, <2>2, Bystander, Zenon
  <2>5. StoreTypes'
    BY <2>1 DEF ColumnarInvariant, StoreTypes, PoolTypeOK
  <2>6. QED
    BY <2>1, <2>3, <2>4, <2>5, Carry, Zenon DEF ColumnarInvariant
<1>4. QED
  BY <1>1, <1>2, <1>3, FlushStep, RestartStep, Zenon DEF Next

-----------------------------------------------------------------------------
(* The theorems                                                             *)

\* In every reachable state the committed and the held columns are out of reach
\* of every put under way (put_columnar_inner keeps the mutex).
THEOREM ColumnarInvariantHolds == Spec => []ColumnarInvariant
<1>1. Init => ColumnarInvariant
  BY InvariantInit
<1>2. ColumnarInvariant /\ [Next]_vars => ColumnarInvariant'
  BY InvariantStep
<1>3. QED
  BY <1>1, <1>2, PTL DEF Spec

\* A batch never changes under its reader (get_columnar_zero_copy), however many
\* threads write and whatever fails.
THEOREM ColumnarBatchesStable == Spec => []BatchesStable
<1>1. ColumnarInvariant => BatchesStable
  BY DEF ColumnarInvariant, ReaderOK, BatchesStable
<1>2. QED
  BY <1>1, ColumnarInvariantHolds, PTL

\* A step that commits nothing and keeps what is written changes no table.
LEMMA SameTables ==
    ASSUME ColumnarInvariant, KeepsWritten, meta' = meta
    PROVE  TableContents' = TableContents
<1>1. ASSUME NEW t \in Table, meta[t] # None
      PROVE  Contents(meta[t])' = Contents(meta[t])
  <2>1. ASSUME NEW i \in DOMAIN meta[t]
        PROVE  ReadFrom(bytes', meta[t][i].loc) = ReadFrom(bytes, meta[t][i].loc)
    <3>1. meta[t][i] \in ColumnMeta
      BY <1>1 DEF ColumnarInvariant, StoreTypes
    <3>2. meta[t][i].loc \in Locator /\ InWritten(meta[t][i].loc)
      BY <1>1, <3>1 DEF ColumnarInvariant, TableOK, Settled, ColumnMeta
    <3>3. QED
      BY <3>2, Zenon DEF KeepsWritten
  <2>2. QED
    BY <2>1 DEF Contents, ReadAt
<1>2. QED
  BY <1>1, Zenon DEF TableContents

\* A commit puts the data of the batch into its table.
LEMMA CommitIsPut ==
    ASSUME ColumnarInvariant, NEW w \in Writer, PutCommit(w)
    PROVE  Map!Next
<1>1. /\ put[w] \in PutRecord /\ WriterOK(w) /\ pc[w] = "append" /\ ~More(w)
      /\ bytes' = bytes /\ meta' = [meta EXCEPT ![put[w].table] = put[w].cols]
  BY Zenon DEF PutCommit, Appended, ColumnarInvariant, WriterOK, poolVars
<1>2. /\ put[w].table \in Table /\ put[w].batch \in Batch
      /\ put[w].cols \in Seq(ColumnMeta) /\ put[w].batch \in Seq(Column)
  BY <1>1, ColumnarAssumption DEF PutRecord
<1>3. Len(put[w].cols) = Len(put[w].batch)
  <2>1. Len(put[w].cols) \in Nat /\ Len(put[w].batch) \in Nat
    BY <1>2, SeqDomain, Zenon
  <2>2. Len(put[w].cols) <= Len(put[w].batch) /\ ~(Len(put[w].cols) < Len(put[w].batch))
    BY <1>1 DEF WriterOK, More
  <2>3. QED
    BY <2>1, <2>2
<1>4. DOMAIN put[w].cols = DOMAIN put[w].batch
  BY <1>2, <1>3, SeqDomain, Zenon
<1>5. Contents(put[w].cols) = Data(put[w].batch)
  BY <1>1, <1>4, Zenon DEF Contents, Data, WriterOK
<1>6. ASSUME NEW t \in Table
      PROVE  TableContents'[t] = IF t = put[w].table THEN Data(put[w].batch)
                                 ELSE TableContents[t]
  <2>1. CASE t = put[w].table
    <3>1. meta'[t] = put[w].cols /\ meta'[t] # None
      BY <1>1, <1>2, <2>1, ColumnarAssumption, Zenon DEF ColumnarInvariant, StoreTypes
    <3>2. Contents(meta[t])' = Contents(put[w].cols)
      <4>1. \A i : ReadAt(meta[t][i].loc)' = ReadAt(put[w].cols[i].loc)
        BY <1>1, <3>1, Zenon DEF ReadAt
      <4>2. QED
        BY <3>1, <4>1, Zenon DEF Contents
    <3>3. QED
      BY <1>5, <2>1, <3>1, <3>2, Zenon DEF TableContents
  <2>2. CASE t # put[w].table
    <3>1. meta'[t] = meta[t]
      BY <1>1, <2>2, Zenon DEF ColumnarInvariant, StoreTypes
    <3>2. Contents(meta[t])' = Contents(meta[t])
      <4>1. \A i : ReadAt(meta[t][i].loc)' = ReadAt(meta[t][i].loc)
        BY <1>1, <3>1 DEF ReadAt
      <4>2. QED
        BY <3>1, <4>1, Zenon DEF Contents
    <3>3. QED
      BY <2>2, <3>1, <3>2, Zenon DEF TableContents
  <2>3. QED
    BY <2>1, <2>2, Zenon
<1>7. TableContents' = [TableContents EXCEPT ![put[w].table] = Data(put[w].batch)]
  BY <1>2, <1>6, Zenon DEF TableContents
<1>8. QED
  BY <1>2, <1>7, Zenon DEF Map!Next, Map!Put, Batches

LEMMA MapStep ==
    ASSUME ColumnarInvariant, [Next]_vars
    PROVE  [Map!Next]_TableContents
<1>1. ASSUME bytes' = bytes, meta' = meta PROVE TableContents' = TableContents
  BY <1>1 DEF TableContents, Contents, ReadAt
<1>2. ASSUME NEW w \in Writer, PutPad(w) \/ PutColumn(w)
      PROVE  TableContents' = TableContents
  BY <1>2, PutPadStep, PutColumnStep, SameTables DEF PutPad, PutColumn, tableVars
<1>3. ASSUME NEW w \in Writer,
             \/ \E t \in Table, b \in Batch : PutBegin(w, t, b)
             \/ PutLock(w) \/ PutPoisoned(w) \/ TablePutFails(w) \/ CommitFails(w)
      PROVE  TableContents' = TableContents
  BY <1>1, <1>3 DEF PutBegin, PutLock, PutPoisoned, TablePutFails, CommitFails,
                    poolVars, tableVars
<1>4. ASSUME NEW w \in Writer,
             PutPanics(w) \/ PutColumnFails(w) \/ PutRejected(w) \/ PutRewind(w)
      PROVE  TableContents' = TableContents
  BY <1>1, <1>4, Zenon DEF PutPanics, PutColumnFails, PutRejected, PutRewind, PoolAppendPanics,
                    PoolRewind, tableVars
<1>5. ASSUME NEW r \in Reader, (\E t \in Table : GetMeta(r, t)) \/ GetColumn(r) \/ Release(r)
      PROVE  TableContents' = TableContents
  BY <1>1, <1>5, Zenon DEF GetMeta, GetColumn, Release, poolVars, tableVars
<1>6. ASSUME Flush \/ Restart \/ UNCHANGED vars
      PROVE  TableContents' = TableContents
  BY <1>1, <1>6 DEF Flush, Restart, PoolFlush, PoolOpen, vars, poolVars, tableVars
<1>7. QED
  BY <1>2, <1>3, <1>4, <1>5, <1>6, CommitIsPut, Zenon DEF Next

\* The store implements a map from tables to batches: a commit replaces one whole
\* table, and paddings, appends, failures, rewinds, flushes and orderly restarts
\* are invisible.
THEOREM ColumnarImplementsMap == Spec => ImplementsMap
<1>1. Init => Map!Init
  BY DEF Init, Map!Init, TableContents
<1>2. ColumnarInvariant /\ [Next]_vars => [Map!Next]_TableContents
  BY MapStep
<1>3. QED
  BY <1>1, <1>2, ColumnarInvariantHolds, PTL DEF Spec, ImplementsMap, Map!Spec

-----------------------------------------------------------------------------
(* Alignment                                                                *)

LEMMA ModRange ==
    ASSUME NEW n \in Nat \ {0}, NEW x \in Int
    PROVE  x % n \in 0 .. n - 1
OBVIOUS

LEMMA ModWhole ==
    ASSUME NEW n \in Nat \ {0}, NEW x \in 1 .. n, x % n = 0
    PROVE  x = n
OBVIOUS

\* Without padding to add the write position is aligned.
LEMMA NoPadAligned ==
    ASSUME NEW width \in Nat \ {0}, activeCursor \in Nat, Pad(width) = 0
    PROVE  activeCursor % width = 0
<1>1. activeCursor % width \in 0 .. width - 1
  BY ModRange
<1>2. width - (activeCursor % width) \in 1 .. width
  BY <1>1
<1>3. width - (activeCursor % width) = width
  BY <1>2, ModWhole DEF Pad
<1>4. QED
  BY <1>1, <1>3

\* The column PutColumn appends is aligned: at the write position, or at the
\* start of the next segment.
LEMMA AppendAligned ==
    ASSUME ColumnarInvariant, NEW w \in Writer, PutColumn(w)
    PROVE  AppendLoc(NextColumn(w).data).off % NextColumn(w).width = 0
<1>1. NextColumn(w).width \in Nat \ {0}
  BY NextColumnType, Zenon DEF PutColumn, Appending, Column
<1>2. activeCursor \in Nat
  BY PoolAssumption DEF ColumnarInvariant, StoreTypes, PoolTypeOK
<1>3. activeCursor % NextColumn(w).width = 0
  BY <1>1, <1>2, NoPadAligned DEF PutColumn
<1>4. 0 % NextColumn(w).width = 0
  BY <1>1
<1>5. AppendLoc(NextColumn(w).data).off \in {0, activeCursor}
  BY Zenon DEF AppendLoc
<1>6. QED
  BY <1>3, <1>4, <1>5

LEMMA AlignedStep ==
    ASSUME ColumnarInvariant, ColumnsAligned, PutsAligned, [Next]_vars
    PROVE  (ColumnsAligned /\ PutsAligned)'
<1> DEFINE Quiet(w) == pc'[w] \in {"begun", "append"} =>
                          \/ put'[w].cols = <<>>
                          \/ pc[w] \in {"begun", "append"} /\ put'[w].cols = put[w].cols
<1>1. ASSUME NEW w \in Writer, Quiet(w), pc'[w] \in {"begun", "append"},
             NEW i \in DOMAIN put'[w].cols
      PROVE  Aligned(put'[w].cols[i])
  <2>1. put'[w].cols # <<>>
    <3>1. DOMAIN << >> = {}
      OBVIOUS
    <3>2. QED
      BY <1>1, <3>1, Zenon
  <2>2. pc[w] \in {"begun", "append"} /\ put'[w].cols = put[w].cols
    BY <1>1, <2>1
  <2>3. QED
    BY <1>1, <2>2 DEF PutsAligned
<1>2. ASSUME meta' = meta, \A w \in Writer : Quiet(w)
      PROVE  (ColumnsAligned /\ PutsAligned)'
  <2>1. PutsAligned'
    BY <1>1, <1>2, Zenon DEF PutsAligned
  <2>2. ColumnsAligned'
    BY <1>2, Zenon DEF ColumnsAligned
  <2>3. QED
    BY <2>1, <2>2, Zenon
<1>3. /\ pc \in [Writer -> {"idle", "begun", "append", "rewind"}]
      /\ put \in [Writer -> PutRecord \cup {None}]
      /\ meta \in [Table -> Seq(ColumnMeta) \cup {None}]
      /\ \A w \in Writer : pc[w] # "idle" => put[w] \in PutRecord
  BY Zenon DEF ColumnarInvariant, StoreTypes, WriterOK
<1>4. ASSUME NEW w \in Writer, NEW t \in Table, NEW b \in Batch, PutBegin(w, t, b)
      PROVE  (ColumnsAligned /\ PutsAligned)'
  BY <1>2, <1>3, <1>4, Zenon DEF PutBegin, tableVars
<1>5. ASSUME NEW w \in Writer, PutLock(w)
      PROVE  (ColumnsAligned /\ PutsAligned)'
  <2>1. pc[w] = "begun" /\ put[w] \in PutRecord /\ meta' = meta
    BY <1>3, <1>5 DEF PutLock, tableVars
  <2>2. put'[w].cols = put[w].cols
    BY <1>3, <1>5, <2>1 DEF PutLock, PutRecord
  <2>3. \A x \in Writer \ {w} : put'[x] = put[x] /\ pc'[x] = pc[x]
    BY <1>3, <1>5, Zenon DEF PutLock
  <2>4. QED
    BY <1>2, <2>1, <2>2, <2>3
<1>6. ASSUME NEW w \in Writer, pc' = [pc EXCEPT ![w] = "idle"] \/ pc' = [pc EXCEPT ![w] = "rewind"],
             put' = put \/ put' = [put EXCEPT ![w] = None], meta' = meta
      PROVE  (ColumnsAligned /\ PutsAligned)'
  BY <1>2, <1>3, <1>6, Zenon
<1>7. ASSUME NEW w \in Writer,
             \/ PutPoisoned(w) \/ PutPanics(w) \/ PutColumnFails(w) \/ PutRejected(w)
             \/ TablePutFails(w) \/ CommitFails(w) \/ PutRewind(w)
      PROVE  (ColumnsAligned /\ PutsAligned)'
  BY <1>6, <1>7, Zenon DEF PutPoisoned, PutPanics, PutColumnFails, PutRejected, TablePutFails,
                    CommitFails, PutRewind, Leave, tableVars
<1>8. ASSUME NEW w \in Writer, PutColumn(w)
      PROVE  (ColumnsAligned /\ PutsAligned)'
  <2> DEFINE m == AppendedColumn(NextColumn(w))
  <2>1. pc' = pc /\ meta' = meta /\ pc[w] = "append" /\ put[w] \in PutRecord
    BY <1>3, <1>8 DEF PutColumn, Appending, tableVars
  <2>2. put[w].cols \in Seq(ColumnMeta) /\ put'[w].cols = Append(put[w].cols, m)
    BY <1>3, <1>8, <2>1 DEF PutColumn, PutRecord
  <2>3. \A x \in Writer \ {w} : put'[x] = put[x]
    BY <1>3, <1>8, Zenon DEF PutColumn
  <2>4. Aligned(m)
    BY <1>8, AppendAligned, Zenon DEF AppendedColumn, Aligned
  <2> HIDE DEF m
  <2>5. ASSUME NEW i \in DOMAIN put'[w].cols PROVE Aligned(put'[w].cols[i])
    <3>1. m \in ColumnMeta
      BY <1>8, <2>1, NextColumnMeta, Zenon DEF m
    <3>2. /\ DOMAIN put'[w].cols = 1 .. Len(put[w].cols) + 1
          /\ \A j \in 1 .. Len(put[w].cols) : put'[w].cols[j] = put[w].cols[j]
          /\ put'[w].cols[Len(put[w].cols) + 1] = m
      BY <2>2, <3>1, AppendElements
    <3>3. Len(put[w].cols) \in Nat /\ DOMAIN put[w].cols = 1 .. Len(put[w].cols)
      BY <2>2, SeqDomain, Zenon
    <3>4. i \in DOMAIN put[w].cols \/ i = Len(put[w].cols) + 1
      BY <2>5, <3>2, <3>3
    <3>5. CASE i = Len(put[w].cols) + 1
      BY <2>4, <3>2, <3>5, Zenon
    <3>6. CASE i \in DOMAIN put[w].cols
      BY <2>1, <3>2, <3>3, <3>6, Zenon DEF PutsAligned
    <3>7. QED
      BY <3>4, <3>5, <3>6, Zenon
  <2>6. ASSUME NEW x \in Writer, pc'[x] \in {"begun", "append"},
               NEW i \in DOMAIN put'[x].cols
        PROVE  Aligned(put'[x].cols[i])
    <3>1. CASE x = w
      BY <2>5, <2>6, <3>1, Zenon
    <3>2. CASE x # w
      BY <1>1, <2>1, <2>3, <2>6, <3>2, Zenon
    <3>3. QED
      BY <3>1, <3>2
  <2>7. PutsAligned'
    BY <2>6, Zenon DEF PutsAligned
  <2>8. QED
    BY <2>1, <2>7 DEF ColumnsAligned
<1>9. ASSUME NEW w \in Writer, PutCommit(w)
      PROVE  (ColumnsAligned /\ PutsAligned)'
  <2>1. /\ pc[w] = "append" /\ put[w] \in PutRecord
        /\ meta' = [meta EXCEPT ![put[w].table] = put[w].cols]
        /\ \A x \in Writer : Quiet(x)
    BY <1>3, <1>9, Zenon DEF PutCommit, Appended, Leave
  <2>2. PutsAligned'
    BY <1>1, <2>1, Zenon DEF PutsAligned
  <2>3. ASSUME NEW t \in Table, meta'[t] # None, NEW i \in DOMAIN meta'[t]
        PROVE  Aligned(meta'[t][i])
    <3>1. meta'[t] = put[w].cols \/ meta'[t] = meta[t]
      BY <1>3, <2>1
    <3>2. QED
      BY <2>1, <2>3, <3>1, Zenon DEF PutsAligned, ColumnsAligned
  <2>4. QED
    BY <2>2, <2>3, Zenon DEF ColumnsAligned
<1>10. ASSUME UNCHANGED <<meta, pc, put>> PROVE (ColumnsAligned /\ PutsAligned)'
  BY <1>2, <1>10, Zenon
<1>11. ASSUME NEW w \in Writer, PutPad(w) PROVE (ColumnsAligned /\ PutsAligned)'
  BY <1>10, <1>11 DEF PutPad, tableVars, threadVars
<1>12. ASSUME NEW r \in Reader, (\E t \in Table : GetMeta(r, t)) \/ GetColumn(r) \/ Release(r)
       PROVE  (ColumnsAligned /\ PutsAligned)'
  BY <1>10, <1>12, Zenon DEF GetMeta, GetColumn, Release, tableVars
<1>13. ASSUME Flush \/ Restart \/ UNCHANGED vars PROVE (ColumnsAligned /\ PutsAligned)'
  BY <1>10, <1>13 DEF Flush, Restart, vars, tableVars, threadVars
<1> HIDE DEF Quiet
<1>14. QED
  BY <1>4, <1>5, <1>7, <1>8, <1>9, <1>11, <1>12, <1>13, Zenon DEF Next

\* Every committed column is aligned to the width of its type, so that
\* build_primitive_array can wrap it (append_aligned), for all widths and sizes.
THEOREM CommittedColumnsAligned == Spec => []ColumnsAligned
<1>1. Init => ColumnsAligned /\ PutsAligned
  BY DEF Init, ColumnsAligned, PutsAligned
<1>2. ColumnarInvariant /\ ColumnsAligned /\ PutsAligned /\ [Next]_vars
      => (ColumnsAligned /\ PutsAligned)'
  BY AlignedStep
<1>3. QED
  BY <1>1, <1>2, ColumnarInvariantHolds, PTL DEF Spec

-----------------------------------------------------------------------------
(* The quota                                                                *)

\* The bytes of the columns of a table are a natural.
LEMMA BytesType ==
    ASSUME NEW s \in Seq(ColumnMeta)
    PROVE  Bytes(s) \in Nat
<1> DEFINE f == [i \in DOMAIN s |-> s[i].loc.len]
<1>1. DOMAIN s = 1 .. Len(s) /\ Len(s) \in Nat
  OBVIOUS
<1>2. IsFiniteSet(DOMAIN s)
  <2>1. Len(s) \in Int /\ 1 \in Int
    BY <1>1
  <2> QED
    BY <1>1, <2>1, FS_Interval, Zenon
<1>3. f \in [DOMAIN s -> Nat]
  <2>1. \A m \in ColumnMeta : m.loc.len \in Nat
    BY PoolAssumption DEF ColumnMeta, Locator
  <2>2. \A i \in DOMAIN s : s[i] \in ColumnMeta
    BY <1>1
  <2> QED
    BY <2>1, <2>2, Zenon
<1> HIDE DEF f
<1>4. SumFunction(f) \in Nat
  BY <1>2, <1>3, SumType, Zenon
<1> QED
  BY <1>4, Zenon DEF Bytes, f

\* The bytes of each table.
TableLens == [t \in Table |-> TableBytes(t)]

\* The commit of a put charges what its table grows by.
LEMMA QuotaCommit ==
    ASSUME ColumnarInvariant, ColumnarInvariant', QuotaCovers, used \in Nat,
           NEW w \in Writer, PutCommit(w)
    PROVE  QuotaCovers' /\ used' \in Nat
<1> DEFINE t == put[w].table
           cols == put[w].cols
<1>1. /\ pc[w] = "append" /\ QuotaAllows(t, cols)
      /\ meta' = [meta EXCEPT ![t] = cols] /\ used' = NewUsed(t, cols)
  BY Zenon DEF PutCommit, Appended
<1>2. /\ meta \in [Table -> Seq(ColumnMeta) \cup {None}]
      /\ meta' \in [Table -> Seq(ColumnMeta) \cup {None}]
  BY Zenon DEF ColumnarInvariant, StoreTypes
<1>3. put[w] \in PutRecord
  BY <1>1 DEF ColumnarInvariant, WriterOK
<1>4. t \in Table /\ cols \in Seq(ColumnMeta)
  BY <1>3 DEF PutRecord
<1> HIDE DEF t, cols
<1>5. Bytes(cols) \in Nat /\ \A x \in Table : TableBytes(x) \in Nat /\ TableBytes(x)' \in Nat
  <2>1. Bytes(cols) \in Nat
    BY <1>4, BytesType, Zenon
  <2>2. \A s \in Seq(ColumnMeta) : Bytes(s) \in Nat
    BY BytesType, Zenon
  <2>3. ASSUME NEW x \in Table
        PROVE  TableBytes(x) \in Nat /\ TableBytes(x)' \in Nat
    <3>1. meta[x] = None \/ meta[x] \in Seq(ColumnMeta)
      BY <1>2, Zenon
    <3>2. meta'[x] = None \/ meta'[x] \in Seq(ColumnMeta)
      BY <1>2, Zenon
    <3>3. 0 \in Nat
      OBVIOUS
    <3> QED
      BY <2>2, <3>1, <3>2, <3>3, Zenon DEF TableBytes
  <2> QED
    BY <2>1, <2>3, Zenon
<1>6. TableLens \in [Table -> Nat] /\ TableLens' \in [Table -> Nat] /\ TableLens[t] = TableBytes(t)
  BY <1>4, <1>5, Zenon DEF TableLens
<1>7. TableLens'[t] = Bytes(cols) /\ \A x \in Table : x # t => TableLens'[x] = TableLens[x]
  <2>1. cols # None
    BY <1>4, ColumnarAssumption, Zenon
  <2>2. meta'[t] = cols /\ \A x \in Table : x # t => meta'[x] = meta[x]
    BY <1>1, <1>2, <1>4, Zenon
  <2> QED
    BY <1>4, <2>1, <2>2, Zenon DEF TableLens, TableBytes, Bytes
<1>8. /\ SumFunction(TableLens) \in Nat /\ SumFunction(TableLens') \in Nat
      /\ SumFunction(TableLens') = SumFunction(TableLens) - TableBytes(t) + Bytes(cols)
  <2>1. IsFiniteSet(Table)
    BY ColumnarAssumption, Zenon
  <2>2. /\ SumFunction(TableLens) \in Nat /\ SumFunction(TableLens') \in Nat
        /\ SumFunction(TableLens') = SumFunction(TableLens) - TableLens[t] + TableLens'[t]
    BY <1>4, <1>6, <1>7, <2>1, SumOfChanged
  <2> QED
    BY <1>6, <1>7, <2>2, Zenon
<1>9. SumFunction(TableLens) <= used
  BY Zenon DEF QuotaCovers, LiveBytes, TableLens
<1>10. used' \in Nat /\ SumFunction(TableLens') <= used'
  <2>1. TableBytes(t) \in Nat
    BY <1>4, <1>5, Zenon
  <2> QED
    BY <1>1, <1>5, <1>8, <1>9, <2>1 DEF NewUsed, Larger
<1>11. QuotaLimit > 0 => used' <= QuotaLimit
  <2>1. QuotaLimit > 0 => QuotaLimit # 0
    BY ColumnarAssumption
  <2> QED
    BY <1>1, <2>1, Zenon DEF QuotaAllows
<1> QED
  BY <1>10, <1>11, Zenon DEF QuotaCovers, LiveBytes, TableLens

\* With any number of writers, failed puts and restarts, the quota counter of
\* the columnar store covers the bytes of all tables and never passes the limit.
THEOREM ColumnarQuotaCovers == Spec => []QuotaCovers
<1> DEFINE Inv == QuotaCovers /\ used \in Nat
<1>1. Init => Inv
  <2> SUFFICES ASSUME Init PROVE Inv
    OBVIOUS
  <2>1. meta = [t \in Table |-> None] /\ used = 0
    BY Zenon DEF Init
  <2>2. TableLens = [t \in Table |-> 0]
    BY <2>1, Zenon DEF TableLens, TableBytes
  <2>3. SumFunction(TableLens) = 0
    BY <2>2, ColumnarAssumption, SumOfZeros, Zenon
  <2>4. SumFunction(TableLens) <= used /\ (QuotaLimit > 0 => used <= QuotaLimit) /\ used \in Nat
    BY <2>1, <2>3, ColumnarAssumption
  <2> QED
    BY <2>4, Zenon DEF QuotaCovers, LiveBytes, TableLens
<1>2. ColumnarInvariant /\ ColumnarInvariant' /\ Inv /\ [Next]_vars => Inv'
  <2> SUFFICES ASSUME ColumnarInvariant, ColumnarInvariant', Inv, [Next]_vars
               PROVE  Inv'
    OBVIOUS
  <2>1. ASSUME NEW w \in Writer, PutCommit(w)
        PROVE  Inv'
    BY <2>1, QuotaCommit, Zenon
  <2>2. ASSUME meta' = meta, used' = used
        PROVE  Inv'
    BY <2>2, Zenon DEF QuotaCovers, LiveBytes, TableBytes
  <2>3. CASE \/ \E w \in Writer :
                  \/ \E t \in Table, b \in Batch : PutBegin(w, t, b)
                  \/ PutLock(w) \/ PutPoisoned(w) \/ PutPad(w) \/ PutColumn(w) \/ PutPanics(w)
                  \/ PutColumnFails(w) \/ PutRejected(w) \/ TablePutFails(w)
                  \/ CommitFails(w) \/ PutRewind(w)
             \/ Flush \/ Restart
    <3>1. meta' = meta /\ used' = used
      BY <2>3, Zenon DEF tableVars, PutBegin, PutLock, PutPoisoned, PutPad, PutColumn, PutPanics,
         PutColumnFails, PutRejected, TablePutFails, CommitFails, PutRewind, Flush, Restart
    <3> QED
      BY <2>2, <3>1, Zenon
  <2>4. ASSUME NEW r \in Reader,
               (\E t \in Table : GetMeta(r, t)) \/ GetColumn(r) \/ Release(r)
        PROVE  Inv'
    <3>1. meta' = meta /\ used' = used
      BY <2>4, Zenon DEF tableVars, GetMeta, GetColumn, Release
    <3> QED
      BY <2>2, <3>1, Zenon
  <2>5. CASE UNCHANGED vars
    <3>1. meta' = meta /\ used' = used
      BY <2>5, Zenon DEF vars, tableVars
    <3> QED
      BY <2>2, <3>1, Zenon
  <2> HIDE DEF Inv
  <2> QED
    BY <2>1, <2>3, <2>4, <2>5, Zenon DEF Next
<1>3. Inv => QuotaCovers
  BY Zenon
<1> QED
  BY <1>1, <1>2, <1>3, ColumnarInvariantHolds, PTL DEF Spec

=============================================================================
