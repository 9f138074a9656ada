----------------------------- MODULE KvStoreProofs -----------------------------
(***************************************************************************)
(* Proofs about KvStore, for any number of threads, keys, values and       *)
(* segments.  The store invariant is inductive when a failed commit cannot *)
(* race a second writer (RewindIsExclusive); the stability of zero-copy    *)
(* buffers and the refinement of KvMap follow from it.                     *)
(***************************************************************************)
EXTENDS KvStore, SegmentPoolProofs

\* The invariant holds in a new store (KvStore::open on an empty directory).
LEMMA InvariantInit ==
    Init => StoreInvariant
<1> SUFFICES ASSUME Init PROVE StoreInvariant
  OBVIOUS
<1> USE DEF Init, PoolInit, TablesInit
<1>1. PoolTypeOK
  BY PoolAssumption DEF PoolTypeOK, SegId
<1>2. TablesTypeOK
  BY DEF TablesTypeOK
<1>3. buf \in [Reader -> Buffer] /\ \A r \in Reader : buf[r].st = "idle"
  BY DEF IdleBuffer, Buffer
<1>4. TypeOK
  <2>1. failures \in 0 .. MaxFailures
    BY StoreAssumption
  <2>2. poisoned \in BOOLEAN
    BY Zenon
  <2>3. QED
    BY <1>1, <1>2, <1>3, <2>1, <2>2 DEF TypeOK
<1>5. QED
  BY <1>3, <1>4 DEF StoreInvariant, BuffersStable

\* While a writer is inside its transaction or about to rewind, and while no
\* transaction is open, every other writer is idle.
LEMMA OthersIdle ==
    ASSUME RewindIsExclusive, StoreInvariant,
           NEW w \in Writer, NEW u \in Writer, u # w,
           pc[w] # "idle" \/ txn = None
    PROVE  pc[u] = "idle"
<1>1. pc[u] # "rewind" /\ pc[w] # "rewind"
  BY StoreAssumption DEF StoreInvariant, TypeOK, RewindIsExclusive
<1>2. QED
  BY <1>1, StoreAssumption DEF StoreInvariant, TypeOK

\* Opening a put keeps the invariant: nothing written moves, and the new
\* payload becomes the last thing written.
LEMMA PutAppendStep ==
    ASSUME RewindIsExclusive, StoreInvariant,
           NEW w \in Writer, NEW k \in Key, NEW v \in Value,
           PutAppend(w, k, v)
    PROVE  StoreInvariant'
<1>1. v \in Seq(Byte) /\ PoolTypeOK /\ PoolAppend(v)
  BY KvAssumption DEF StoreInvariant, TypeOK, PutAppend
<1>2. PICK m \in Locator : m = AppendLoc(v)
  BY <1>1, AppendLocType
<1>3. PoolTypeOK'
  BY <1>1, AppendType
<1>4. /\ ReadFrom(bytes', m) = v
      /\ m.seg = activeId'
      /\ m.off + m.len = activeCursor'
  BY <1>1, <1>2, AppendStores
<1>5. \A l \in Locator : InWritten(l) =>
        /\ ReadFrom(bytes', l) = ReadFrom(bytes, l)
        /\ InWritten(l)'
        /\ Before(l, m)
  BY <1>1, <1>2, AppendKeeps
<1>6. /\ txn' = w
      /\ pc' = [pc EXCEPT ![w] = "appended"]
      /\ put' = [put EXCEPT ![w] = [key |-> k, val |-> v, loc |-> m]]
      /\ loc' = loc /\ used' = used /\ buf' = buf
      /\ failures' = failures /\ poisoned' = poisoned
      /\ txn = None /\ pc[w] = "idle"
  BY <1>2 DEF PutAppend, tableVars
<1>7. TypeOK'
  <2>1. [key |-> k, val |-> v, loc |-> m] \in PutRecord
    BY Zenon DEF PutRecord
  <2>2. QED
    BY <1>3, <1>6, <2>1 DEF StoreInvariant, TypeOK, TablesTypeOK
<1>8. activeId' = segs' - 1
  BY <1>1, <1>2, <1>3
     DEF StoreInvariant, PoolAppend, MoveBehind, AppendLoc, Larger, PoolTypeOK, SegId
<1>9. \A j \in Key : loc'[j] # None => InWritten(loc[j])' /\ Before(loc[j], m)
  BY <1>5, <1>6, Zenon DEF StoreInvariant, TypeOK, TablesTypeOK, InWritten
<1>10. \A r \in Reader : buf'[r].st # "idle" =>
          /\ buf[r].loc \in Locator /\ InWritten(buf[r].loc)' /\ Before(buf[r].loc, m)
          /\ ReadFrom(bytes', buf[r].loc) = ReadFrom(bytes, buf[r].loc)
  <2> SUFFICES ASSUME NEW r \in Reader, buf[r].st # "idle"
               PROVE  /\ buf[r].loc \in Locator /\ InWritten(buf[r].loc)'
                      /\ Before(buf[r].loc, m)
                      /\ ReadFrom(bytes', buf[r].loc) = ReadFrom(bytes, buf[r].loc)
    BY <1>6
  <2>1. buf[r].loc \in Locator /\ InWritten(buf[r].loc)
    BY DEF StoreInvariant, TypeOK, Buffer
  <2>2. QED
    BY <1>5, <1>6, <2>1, Zenon DEF InWritten
<1>11. BuffersStable'
  BY <1>6, <1>10 DEF StoreInvariant, BuffersStable, ReadAt
<1>12. ASSUME NEW u \in Writer
       PROVE  (/\ pc[u] = "appended" => txn = u /\ ReadAt(put[u].loc) = put[u].val
               /\ pc[u] = "rewind" => failures > 0 /\ txn = None
               /\ pc[u] # "idle" => LastWritten(u))'
  <2>1. CASE u = w
    <3>1. pc'[u] = "appended" /\ put'[u] = [key |-> k, val |-> v, loc |-> m] /\ txn' = u
      BY <1>6, <2>1, Zenon DEF StoreInvariant, TypeOK
    <3>2. LastWritten(u)'
      BY <1>4, <1>6, <1>9, <1>10, <3>1 DEF LastWritten, PutRecord, Before
    <3>3. QED
      BY <1>4, <3>1, <3>2 DEF ReadAt
  <2>2. CASE u # w
    BY <1>6, <2>2, OthersIdle DEF StoreInvariant, TypeOK
  <2>3. QED
    BY <2>1, <2>2
<1>13. QED
  BY <1>6, <1>7, <1>8, <1>9, <1>10, <1>11, <1>12 DEF StoreInvariant

\* An oversized put seals the active segment and leaves everything else alone.
LEMMA PutPanicsStep ==
    ASSUME RewindIsExclusive, StoreInvariant,
           NEW w \in Writer, NEW k \in Key, NEW v \in Value,
           PutPanics(w, k, v)
    PROVE  StoreInvariant'
<1>1. /\ txn = None /\ pc[w] = "idle"
      /\ activeId + 1 < MaxSegs /\ activeId' = activeId + 1 /\ activeCursor' = 0
      /\ segs' = Larger(segs, activeId + 2) /\ bytes' = bytes
      /\ cursorFile' \in {cursorFile, [seg |-> activeId + 1, cur |-> 0]}
      /\ loc' = loc /\ used' = used /\ txn' = txn /\ pc' = pc /\ put' = put
      /\ buf' = buf /\ failures' = failures
  BY DEF PutPanics, PoolAppendPanics, MoveBehind, tableVars, StoreInvariant,
         TypeOK, PoolTypeOK, SegId
<1>2. poisoned' \in BOOLEAN
  BY Zenon DEF PutPanics
<1>3. \A u \in Writer : pc[u] = "idle"
  BY <1>1, OthersIdle, Zenon
<1>4. PoolTypeOK' /\ activeId' = segs' - 1
  BY <1>1, PoolAssumption
     DEF StoreInvariant, TypeOK, PoolTypeOK, Larger, SegId, Cursor
<1>5. TypeOK'
  BY <1>1, <1>2, <1>4, Zenon DEF StoreInvariant, TypeOK, TablesTypeOK
<1>6. \A l \in Locator : InWritten(l) => InWritten(l)'
  BY <1>1 DEF InWritten, Locator, StoreInvariant, TypeOK, PoolTypeOK, SegId
<1>7. \A j \in Key : loc'[j] # None => InWritten(loc[j])'
  BY <1>1, <1>6, Zenon DEF StoreInvariant, TypeOK, TablesTypeOK, InWritten
<1>8. \A r \in Reader : buf'[r].st # "idle" => InWritten(buf[r].loc)'
  BY <1>1, <1>6, Zenon DEF StoreInvariant, TypeOK, Buffer, InWritten
<1>9. BuffersStable'
  BY <1>1 DEF StoreInvariant, BuffersStable, ReadAt
<1>10. QED
  BY <1>1, <1>3, <1>4, <1>5, <1>7, <1>8, <1>9, Zenon DEF StoreInvariant

\* A commit hands the last written range to its key.
LEMMA PutCommitStep ==
    ASSUME RewindIsExclusive, StoreInvariant, NEW w \in Writer, PutCommit(w)
    PROVE  StoreInvariant'
<1>1. /\ pc[w] = "appended" /\ put[w] \in PutRecord /\ LastWritten(w)
      /\ UNCHANGED <<activeId, activeCursor, bytes, segs, cursorFile, buf, failures>>
      /\ loc' = [loc EXCEPT ![put[w].key] = put[w].loc]
      /\ used' = UsedAfterPut(put[w].key, put[w].val)
      /\ txn' = None
      /\ pc' = [pc EXCEPT ![w] = "idle"]
      /\ put' = [put EXCEPT ![w] = None]
  BY DEF PutCommit, CommitPut, Done, poolVars, StoreInvariant, LastWritten
<1>2. poisoned' = poisoned
  BY Zenon DEF PutCommit
<1>3. \A u \in Writer : pc'[u] = "idle"
  BY <1>1, OthersIdle DEF StoreInvariant, TypeOK
<1>4. used' \in Nat
  <2>1. Len(put[w].val) \in Nat
    BY <1>1, KvAssumption DEF PutRecord
  <2>2. OldLen(put[w].key) \in Nat
    BY <1>1, PoolAssumption
       DEF OldLen, PutRecord, Locator, StoreInvariant, TypeOK, TablesTypeOK
  <2>3. QED
    BY <1>1, <2>1, <2>2
       DEF UsedAfterPut, SaturatingSub, StoreInvariant, TypeOK, TablesTypeOK
<1>5. TypeOK'
  <2>1. TablesTypeOK'
    BY <1>1, <1>4, Zenon DEF StoreInvariant, TypeOK, TablesTypeOK, PutRecord
  <2>2. QED
    BY <1>1, <1>2, <2>1, Zenon DEF StoreInvariant, TypeOK, PoolTypeOK
<1>6. InWritten(put[w].loc)
  BY <1>1 DEF LastWritten, InWritten, PutRecord, Locator, StoreInvariant, TypeOK,
              PoolTypeOK, SegId
<1>7. \A j \in Key : loc'[j] # None => InWritten(loc[j])'
  BY <1>1, <1>6, Zenon DEF StoreInvariant, TypeOK, TablesTypeOK, InWritten
<1>8. (\A r \in Reader : buf[r].st # "idle" => InWritten(buf[r].loc))'
  BY <1>1 DEF StoreInvariant, InWritten
<1>9. BuffersStable'
  BY <1>1, Zenon DEF StoreInvariant, BuffersStable, ReadAt
<1>10. QED
  BY <1>1, <1>3, <1>5, <1>7, <1>8, <1>9, Zenon DEF StoreInvariant

\* A transaction that fails leaves tables and segments as they are.
LEMMA FailureStep ==
    ASSUME RewindIsExclusive, StoreInvariant, NEW w \in Writer,
           TablePutFails(w) \/ CommitFails(w)
    PROVE  StoreInvariant'
<1>1. /\ pc[w] = "appended" /\ put[w] \in PutRecord /\ LastWritten(w)
      /\ UNCHANGED <<activeId, activeCursor, bytes, segs, cursorFile, buf, loc, used>>
      /\ txn' = None /\ failures < MaxFailures /\ failures' = failures + 1
      /\ \/ pc' = [pc EXCEPT ![w] = "idle"] /\ put' = [put EXCEPT ![w] = None]
         \/ pc' = [pc EXCEPT ![w] = "rewind"] /\ put' = put
  BY DEF TablePutFails, CommitFails, Fail, Done, poolVars, tableVars,
         StoreInvariant, LastWritten
<1>2. poisoned' = poisoned
  BY DEF TablePutFails, CommitFails
<1>3. \A u \in Writer : u # w => pc[u] = "idle"
  BY <1>1, OthersIdle, Zenon
<1>4. TypeOK'
  BY <1>1, <1>2, StoreAssumption
     DEF StoreInvariant, TypeOK, PoolTypeOK, TablesTypeOK
<1>5. \A u \in Writer : /\ pc'[u] # "appended"
                        /\ pc'[u] = "rewind" => u = w /\ put' = put
  BY <1>1, <1>3, Zenon DEF StoreInvariant, TypeOK
<1>6. put' = put => LastWritten(w)'
  BY <1>1, Zenon DEF LastWritten, Before
<1>7. /\ (\A j \in Key : loc[j] # None => InWritten(loc[j]))'
      /\ (\A r \in Reader : buf[r].st # "idle" => InWritten(buf[r].loc))'
      /\ BuffersStable'
  BY <1>1, Zenon DEF StoreInvariant, InWritten, BuffersStable, ReadAt
<1>8. failures' > 0
  BY <1>1 DEF StoreInvariant, TypeOK
<1>9. \A u \in Writer : pc'[u] \in {"idle", "appended", "rewind"}
  BY <1>4, Zenon DEF TypeOK
<1>10. QED
  BY <1>1, <1>4, <1>5, <1>6, <1>7, <1>8, <1>9, Zenon DEF StoreInvariant

\* A rewind gives back exactly the bytes of the failed put: everything else in
\* use ends before them.
LEMMA RewindStep ==
    ASSUME RewindIsExclusive, StoreInvariant, NEW w \in Writer, Rewind(w)
    PROVE  StoreInvariant'
<1>1. /\ pc[w] = "rewind" /\ put[w] \in PutRecord /\ LastWritten(w)
      /\ UNCHANGED <<activeId, bytes, segs, cursorFile, loc, used, txn, buf, failures>>
      /\ pc' = [pc EXCEPT ![w] = "idle"]
      /\ put' = [put EXCEPT ![w] = None]
      /\ activeCursor' \in {activeCursor, put[w].loc.off}
  BY DEF Rewind, PoolRewind, poolVars, tableVars, StoreInvariant, LastWritten
<1>2. poisoned' = poisoned
  BY Zenon DEF Rewind
<1>3. \A u \in Writer : pc'[u] = "idle"
  BY <1>1, OthersIdle, Zenon DEF StoreInvariant, TypeOK
<1>4. TypeOK'
  BY <1>1, <1>2, PoolAssumption, Zenon
     DEF StoreInvariant, TypeOK, PoolTypeOK, TablesTypeOK, PutRecord, Locator
<1>5. \A l \in Locator : InWritten(l) /\ Before(l, put[w].loc) => InWritten(l)'
  BY <1>1, Zenon DEF InWritten, Before, LastWritten
<1>6. (\A j \in Key : loc[j] # None => InWritten(loc[j]))'
  BY <1>1, <1>5, Zenon DEF StoreInvariant, TypeOK, TablesTypeOK, LastWritten, InWritten
<1>7. ASSUME NEW r \in Reader, buf'[r].st # "idle"
      PROVE  InWritten(buf[r].loc)'
  <2>1. buf[r].loc \in Locator /\ InWritten(buf[r].loc) /\ Before(buf[r].loc, put[w].loc)
    BY <1>1, <1>7 DEF StoreInvariant, TypeOK, Buffer, LastWritten
  <2>2. QED
    BY <1>1, <1>5, <2>1, Zenon DEF InWritten
<1>8. BuffersStable'
  BY <1>1, Zenon DEF StoreInvariant, BuffersStable, ReadAt
<1>9. QED
  BY <1>1, <1>3, <1>4, <1>6, <1>7, <1>8, Zenon DEF StoreInvariant

\* A delete forgets a locator and touches no segment.
LEMMA DeleteStep ==
    ASSUME StoreInvariant, NEW w \in Writer, NEW k \in Key, Delete(w, k)
    PROVE  StoreInvariant'
<1>1. /\ UNCHANGED <<activeId, activeCursor, bytes, segs, cursorFile>>
      /\ UNCHANGED <<txn, pc, put, buf, failures>>
      /\ loc' = [loc EXCEPT ![k] = None]
      /\ used' = SaturatingSub(used, OldLen(k))
  BY DEF Delete, CommitDelete, poolVars, threadVars
<1>2. poisoned' = poisoned
  BY DEF Delete, threadVars
<1>3. used' \in Nat
  <2>1. used \in Nat /\ loc[k] \in Locator \cup {None}
    BY DEF StoreInvariant, TypeOK, TablesTypeOK
  <2>2. OldLen(k) \in Nat
    BY <2>1, PoolAssumption DEF OldLen, Locator
  <2>3. QED
    BY <1>1, <2>1, <2>2 DEF SaturatingSub
<1>4. TypeOK'
  BY <1>1, <1>2, <1>3, Zenon DEF StoreInvariant, TypeOK, PoolTypeOK, TablesTypeOK
<1>5. (\A j \in Key : loc[j] # None => InWritten(loc[j]))'
  BY <1>1, Zenon DEF StoreInvariant, TypeOK, TablesTypeOK, InWritten
<1>6. \A u \in Writer : LastWritten(u) => LastWritten(u)'
  BY <1>1, Zenon DEF LastWritten, Before, StoreInvariant, TypeOK, TablesTypeOK
<1>7. (\A r \in Reader : buf[r].st # "idle" => InWritten(buf[r].loc))' /\ BuffersStable'
  BY <1>1 DEF StoreInvariant, InWritten, BuffersStable, ReadAt
<1>8. QED
  BY <1>1, <1>4, <1>5, <1>6, <1>7 DEF StoreInvariant, ReadAt

\* A reader only ever takes over a committed locator.
LEMMA ReaderSteps ==
    ASSUME StoreInvariant, NEW r \in Reader, ReaderStep(r)
    PROVE  StoreInvariant'
<1>1. /\ UNCHANGED <<activeId, activeCursor, bytes, segs, cursorFile>>
      /\ UNCHANGED <<loc, used, txn, pc, put, failures>>
  BY Zenon DEF ReaderStep, GetLocator, GetMap, Release, poolVars, tableVars
<1>2. poisoned' = poisoned
  BY DEF ReaderStep, GetLocator, GetMap, Release
<1>3. PICK b : /\ buf' = [buf EXCEPT ![r] = b]
               /\ \/ b = IdleBuffer
                  \/ \E k \in Key : loc[k] # None /\ b = [st |-> "located", loc |-> loc[k]]
                  \/ /\ buf[r].st = "located"
                     /\ b = [st |-> "mapped", loc |-> buf[r].loc, val |-> ReadAt(buf[r].loc)]
  BY Zenon DEF ReaderStep, GetLocator, GetMap, Release
<1>4. /\ b \in Buffer
      /\ b.st # "idle" => /\ b.loc \in Locator /\ InWritten(b.loc)
                          /\ \A u \in Writer : pc[u] # "idle" => Before(b.loc, put[u].loc)
      /\ b.st = "mapped" => ReadAt(b.loc) = b.val
  <2>1. CASE b = IdleBuffer
    BY <2>1, Zenon DEF IdleBuffer, Buffer
  <2>2. ASSUME NEW k \in Key, loc[k] # None, b = [st |-> "located", loc |-> loc[k]]
        PROVE  <1>4!1 /\ <1>4!2 /\ <1>4!3
    BY <2>2 DEF Buffer, StoreInvariant, TypeOK, TablesTypeOK, LastWritten
  <2>3. CASE /\ buf[r].st = "located"
             /\ b = [st |-> "mapped", loc |-> buf[r].loc, val |-> ReadAt(buf[r].loc)]
    <3>1. buf[r].loc \in Locator /\ InWritten(buf[r].loc)
      BY <2>3, Zenon DEF StoreInvariant, TypeOK, Buffer
    <3>2. ReadAt(buf[r].loc) \in Seq(Byte)
      BY <3>1, ReadType, Zenon DEF StoreInvariant, TypeOK, InWritten, ReadAt
    <3>3. \A u \in Writer : pc[u] # "idle" => Before(b.loc, put[u].loc)
      BY <2>3, Zenon DEF StoreInvariant, LastWritten
    <3>4. b \in Buffer
      BY <2>3, <3>1, <3>2, Zenon DEF Buffer
    <3>5. QED
      BY <2>3, <3>1, <3>3, <3>4, Zenon
  <2>4. QED
    BY <1>3, <2>1, <2>2, <2>3, Zenon
<1>5. TypeOK'
  BY <1>1, <1>2, <1>3, <1>4, Zenon DEF StoreInvariant, TypeOK, PoolTypeOK, TablesTypeOK
<1>6. \A q \in Reader : buf'[q] = IF q = r THEN b ELSE buf[q]
  BY <1>3 DEF StoreInvariant, TypeOK
<1>7. (\A q \in Reader : buf[q].st # "idle" => InWritten(buf[q].loc))'
  <2> SUFFICES ASSUME NEW q \in Reader, buf'[q].st # "idle"
               PROVE  InWritten(buf[q].loc)'
    BY Zenon
  <2>1. CASE q = r
    <3>1. buf'[q] = b /\ InWritten(b.loc)
      BY <1>4, <1>6, <2>1, Zenon
    <3>2. QED
      BY <1>1, <3>1, Zenon DEF InWritten
  <2>2. CASE q # r
    <3>1. buf'[q] = buf[q]
      BY <1>6, <2>2
    <3>2. InWritten(buf[q].loc)
      BY <3>1, Zenon DEF StoreInvariant
    <3>3. QED
      BY <1>1, <3>1, <3>2, Zenon DEF InWritten
  <2>3. QED
    BY <2>1, <2>2
<1>8. BuffersStable'
  BY <1>1, <1>4, <1>6, Zenon DEF StoreInvariant, BuffersStable, ReadAt
<1>9. \A u \in Writer : pc[u] # "idle" => LastWritten(u)'
  BY <1>1, <1>4, <1>6 DEF StoreInvariant, LastWritten, Before
<1>10. QED
  BY <1>1, <1>5, <1>7, <1>8, <1>9, Zenon DEF StoreInvariant, InWritten, ReadAt

\* Saving the cursor changes nothing in memory.
LEMMA FlushStep ==
    ASSUME StoreInvariant, Flush
    PROVE  StoreInvariant'
<1>1. /\ UNCHANGED <<activeId, activeCursor, bytes, segs, loc, used>>
      /\ UNCHANGED <<txn, pc, put, buf, failures>>
      /\ cursorFile' = [seg |-> activeId, cur |-> activeCursor]
  BY DEF Flush, PoolFlush, tableVars, threadVars
<1>2. poisoned' = poisoned
  BY Zenon DEF Flush, threadVars
<1>3. TypeOK'
  BY <1>1, <1>2, Zenon DEF StoreInvariant, TypeOK, PoolTypeOK, TablesTypeOK, Cursor
<1>4. QED
  BY <1>1, <1>3, Zenon
     DEF StoreInvariant, InWritten, BuffersStable, ReadAt, LastWritten, Before

\* An orderly restart goes on where the last flush was, or in a new segment.
LEMMA RestartStep ==
    ASSUME StoreInvariant, Restart
    PROVE  StoreInvariant'
<1>1. /\ UNCHANGED <<bytes, cursorFile, loc, used, txn, pc, put, failures>>
      /\ \A w \in Writer : pc[w] = "idle"
      /\ buf' = [r \in Reader |-> IdleBuffer]
      /\ cursorFile \in {None, [seg |-> activeId, cur |-> activeCursor]}
      /\ PoolOpen
  BY DEF Restart, PoolOpen, tableVars
<1>2. poisoned' \in BOOLEAN
  BY Zenon DEF Restart
<1>3. \/ activeId' = activeId /\ activeCursor' = activeCursor /\ segs' = segs
      \/ activeId' = segs /\ activeCursor' = 0 /\ segs' = segs + 1 /\ segs < MaxSegs
  BY <1>1 DEF PoolOpen, CursorUsable, Larger, StoreInvariant, TypeOK, PoolTypeOK, SegId
<1>4. PoolTypeOK' /\ activeId' = segs' - 1
  <2>1. PoolTypeOK /\ activeId = segs - 1
    BY DEF StoreInvariant, TypeOK
  <2>2. segs \in 1 .. MaxSegs /\ activeCursor \in 0 .. SegSize
    BY <2>1 DEF PoolTypeOK
  <2>3. activeId' = segs' - 1 /\ segs' \in 1 .. MaxSegs /\ activeCursor' \in 0 .. SegSize
    <3>1. MaxSegs \in Nat /\ SegSize \in Nat
      BY PoolAssumption
    <3>2. CASE activeId' = activeId /\ activeCursor' = activeCursor /\ segs' = segs
      BY <2>1, <2>2, <3>2
    <3>3. CASE activeId' = segs /\ activeCursor' = 0 /\ segs' = segs + 1 /\ segs < MaxSegs
      BY <2>2, <3>1, <3>3
    <3>4. QED
      BY <1>3, <3>2, <3>3
  <2>4. activeId' \in SegId
    <3>1. \A n \in 1 .. MaxSegs : n - 1 \in SegId
      BY PoolAssumption DEF SegId
    <3>2. QED
      BY <2>3, <3>1
  <2>5. QED
    BY <1>1, <2>1, <2>3, <2>4, Zenon DEF PoolTypeOK
<1>5. TypeOK'
  BY <1>1, <1>2, <1>4 DEF StoreInvariant, TypeOK, TablesTypeOK, IdleBuffer, Buffer
<1>6. \A l \in Locator : InWritten(l) => InWritten(l)'
  <2> SUFFICES ASSUME NEW l \in Locator, InWritten(l)
               PROVE  InWritten(l)'
    OBVIOUS
  <2>1. CASE activeId' = activeId /\ activeCursor' = activeCursor
    BY <2>1 DEF InWritten
  <2>2. CASE activeId' = segs
    <3>1. l.seg \in Nat /\ segs \in Nat /\ activeId = segs - 1
      <4>1. l.seg \in Nat
        BY PoolAssumption DEF Locator, SegId
      <4>2. segs \in 1 .. MaxSegs /\ activeId = segs - 1
        BY DEF StoreInvariant, TypeOK, PoolTypeOK
      <4>3. QED
        BY <4>1, <4>2, PoolAssumption
    <3>2. l.seg < activeId'
      BY <2>2, <3>1 DEF InWritten
    <3>3. QED
      BY <2>2, <3>1, <3>2 DEF InWritten
  <2>3. QED
    BY <1>3, <2>1, <2>2
<1>7. (\A j \in Key : loc[j] # None => InWritten(loc[j]))'
  BY <1>1, <1>6 DEF StoreInvariant, TypeOK, TablesTypeOK, InWritten
<1>8. \A r \in Reader : buf'[r].st = "idle"
  BY <1>1 DEF IdleBuffer
<1>9. QED
  BY <1>1, <1>4, <1>5, <1>7, <1>8 DEF StoreInvariant, BuffersStable

\* The store invariant is inductive.
LEMMA InvariantStep ==
    ASSUME RewindIsExclusive, StoreInvariant, [Next]_vars
    PROVE  StoreInvariant'
<1>1. ASSUME NEW w \in Writer, WriterStep(w)
      PROVE  StoreInvariant'
  BY <1>1, PutAppendStep, PutPanicsStep, PutCommitStep, FailureStep, RewindStep,
     DeleteStep, Zenon DEF WriterStep
<1>2. ASSUME UNCHANGED vars
      PROVE  StoreInvariant'
  <2>1. /\ UNCHANGED <<activeId, activeCursor, bytes, segs, cursorFile, loc, used>>
        /\ UNCHANGED <<txn, pc, put, buf, failures>>
    BY <1>2 DEF vars, poolVars, tableVars, threadVars
  <2>2. poisoned' = poisoned
    BY <1>2, Zenon DEF vars, threadVars
  <2>3. TypeOK'
    BY <2>1, <2>2 DEF StoreInvariant, TypeOK, PoolTypeOK, TablesTypeOK
  <2>4. QED
    BY <2>1, <2>3
       DEF StoreInvariant, InWritten, BuffersStable, ReadAt, LastWritten, Before
<1>3. QED
  BY <1>1, <1>2, ReaderSteps, FlushStep, RestartStep DEF Next

-----------------------------------------------------------------------------

\* The store invariant holds throughout (any number of threads, or one writer
\* whose commits may fail).
THEOREM StoreInvariantHolds ==
    ASSUME RewindIsExclusive
    PROVE  Spec => []StoreInvariant
<1>1. Init => StoreInvariant
  BY InvariantInit
<1>2. StoreInvariant /\ [Next]_vars => StoreInvariant'
  BY InvariantStep
<1>3. QED
  BY <1>1, <1>2, PTL DEF Spec

\* Every variable keeps its type: cursors stay within a segment, locators within
\* the segment files.
THEOREM StoreTypeCorrect ==
    ASSUME RewindIsExclusive
    PROVE  Spec => []TypeOK
<1>1. StoreInvariant => TypeOK
  BY Zenon DEF StoreInvariant
<1>2. QED
  BY <1>1, StoreInvariantHolds, PTL

\* A zero-copy buffer never changes while its reader holds it.
THEOREM ZeroCopyBuffersStable ==
    ASSUME RewindIsExclusive
    PROVE  Spec => []BuffersStable
<1>1. StoreInvariant => BuffersStable
  BY DEF StoreInvariant
<1>2. QED
  BY <1>1, StoreInvariantHolds, PTL

\* The bytes of a committed locator are read the same before and after every
\* step, unless the step is a commit or a delete of that key.
LEMMA MapStep ==
    ASSUME RewindIsExclusive, StoreInvariant, [Next]_vars
    PROVE  [Map!Next]_Contents
<1>1. ASSUME bytes' = bytes, loc' = loc
      PROVE  Contents' = Contents
  BY <1>1 DEF Contents, Content, ReadAt
<1>2. ASSUME NEW w \in Writer, NEW k \in Key, NEW v \in Value, PutAppend(w, k, v)
      PROVE  Contents' = Contents
  <2>1. v \in Seq(Byte) /\ PoolTypeOK /\ PoolAppend(v) /\ loc' = loc
    BY <1>2, KvAssumption, Zenon DEF StoreInvariant, TypeOK, PutAppend, tableVars
  <2>2. \A l \in Locator : InWritten(l) => ReadFrom(bytes', l) = ReadFrom(bytes, l)
    BY <2>1, AppendKeeps, Zenon
  <2>3. \A j \in Key : loc[j] # None => ReadFrom(bytes', loc[j]) = ReadFrom(bytes, loc[j])
    BY <2>2 DEF StoreInvariant, TypeOK, TablesTypeOK
  <2>4. QED
    BY <2>1, <2>3 DEF Contents, Content, ReadAt
<1>3. ASSUME NEW w \in Writer, PutCommit(w)
      PROVE  Map!Next
  <2>1. /\ put[w] \in PutRecord /\ ReadAt(put[w].loc) = put[w].val
        /\ bytes' = bytes
        /\ loc' = [loc EXCEPT ![put[w].key] = put[w].loc]
    BY <1>3 DEF PutCommit, CommitPut, poolVars, StoreInvariant, LastWritten
  <2>2. put[w].key \in Key /\ put[w].val \in Value /\ put[w].loc # None
    BY <2>1, NoneAssumption DEF PutRecord
  <2>3. Contents' = [Contents EXCEPT ![put[w].key] = put[w].val]
    BY <2>1, <2>2, Zenon DEF Contents, Content, ReadAt, StoreInvariant, TypeOK, TablesTypeOK
  <2>4. QED
    BY <2>2, <2>3, Zenon DEF Map!Next, Map!Put
<1>4. ASSUME NEW w \in Writer, NEW k \in Key, Delete(w, k)
      PROVE  Map!Next
  <2>1. bytes' = bytes /\ loc' = [loc EXCEPT ![k] = None]
    BY <1>4 DEF Delete, CommitDelete, poolVars
  <2>2. Contents' = [Contents EXCEPT ![k] = None]
    BY <2>1, Zenon DEF Contents, Content, ReadAt, StoreInvariant, TypeOK, TablesTypeOK
  <2>3. QED
    BY <2>2, Zenon DEF Map!Next, Map!Delete
<1>5. ASSUME NEW w \in Writer, WriterStep(w)
      PROVE  Map!Next \/ Contents' = Contents
  <2>1. ASSUME NEW k \in Key, NEW v \in Value, PutPanics(w, k, v)
        PROVE  bytes' = bytes /\ loc' = loc
    BY <2>1, Zenon DEF PutPanics, PoolAppendPanics, tableVars
  <2>2. ASSUME TablePutFails(w) \/ CommitFails(w) \/ Rewind(w)
        PROVE  bytes' = bytes /\ loc' = loc
    BY <2>2, Zenon DEF TablePutFails, CommitFails, Rewind, PoolRewind, poolVars, tableVars
  <2>3. QED
    BY <1>1, <1>2, <1>3, <1>4, <1>5, <2>1, <2>2, Zenon DEF WriterStep
<1>6. ASSUME (\E r \in Reader : ReaderStep(r)) \/ Flush \/ Restart \/ UNCHANGED vars
      PROVE  bytes' = bytes /\ loc' = loc
  BY <1>6 DEF ReaderStep, GetLocator, GetMap, Release, Flush, PoolFlush, Restart,
              PoolOpen, vars, poolVars, tableVars
<1>7. QED
  BY <1>1, <1>5, <1>6 DEF Next

\* The store implements the map of KvMap: appends, rotations, failed commits,
\* rewinds, flushes and orderly restarts are invisible to a get.
THEOREM StoreImplementsMap ==
    ASSUME RewindIsExclusive
    PROVE  Spec => ImplementsMap
<1>1. Init => Map!Init
  BY DEF Init, TablesInit, Map!Init, Contents, Content
<1>2. StoreInvariant /\ [Next]_vars => [Map!Next]_Contents
  BY MapStep
<1>3. QED
  BY <1>1, <1>2, StoreInvariantHolds, PTL DEF Spec, ImplementsMap, Map!Spec

\* No step changes a byte of a sealed segment or makes an earlier segment
\* active again.
THEOREM SealedSegmentsImmutable ==
    ASSUME RewindIsExclusive
    PROVE  Spec => SealedImmutable
<1> DEFINE Frozen == /\ activeId' >= activeId
                     /\ \A s \in SegId : s < activeId => bytes'[s] = bytes[s]
<1>1. ASSUME StoreInvariant, [Next]_vars
      PROVE  [Frozen]_vars
  <2>1. /\ PoolTypeOK /\ activeId \in SegId /\ activeId \in Nat
        /\ activeId = segs - 1 /\ segs \in Nat
    <3>1. PoolTypeOK /\ activeId = segs - 1
      BY <1>1 DEF StoreInvariant, TypeOK
    <3>2. activeId \in SegId /\ segs \in 1 .. MaxSegs
      BY <3>1 DEF PoolTypeOK
    <3>3. activeId \in Nat /\ segs \in Nat
      BY <3>2, PoolAssumption DEF SegId
    <3>4. QED
      BY <3>1, <3>2, <3>3, Zenon
  <2>2. ASSUME activeId' = activeId, bytes' = bytes
        PROVE  Frozen
    BY <2>1, <2>2
  <2>3. ASSUME NEW w \in Writer, NEW k \in Key, NEW v \in Value, PutAppend(w, k, v)
        PROVE  Frozen
    <3>1. v \in Seq(Byte) /\ PoolAppend(v) /\ AppendLoc(v) \in Locator
      BY <2>1, <2>3, AppendLocType, KvAssumption, Zenon DEF PutAppend
    <3>2. AppendLoc(v).seg \in {activeId, activeId + 1}
      BY Zenon DEF AppendLoc
    <3>3. bytes' = Written(AppendLoc(v), v) /\ activeId' = AppendLoc(v).seg
      BY <3>1 DEF PoolAppend, MoveBehind
    <3>4. \A s \in SegId : s # AppendLoc(v).seg => bytes'[s] = bytes[s]
      BY <2>1, <3>3 DEF Written, PoolTypeOK
    <3>5. activeId' >= activeId
      BY <2>1, <3>2, <3>3
    <3>6. \A s \in SegId : s < activeId => s # AppendLoc(v).seg
      <4> HIDE DEF Frozen
      <4> SUFFICES ASSUME NEW s \in SegId, s < activeId
                   PROVE  s # AppendLoc(v).seg
        OBVIOUS
      <4>1. s \in Nat
        BY PoolAssumption DEF SegId
      <4>2. s # activeId /\ s # activeId + 1
        BY <2>1, <4>1
      <4>3. QED
        BY <3>2, <4>2
    <3>7. QED
      BY <3>4, <3>5, <3>6, Zenon
  <2>4. ASSUME NEW w \in Writer, NEW k \in Key, NEW v \in Value, PutPanics(w, k, v)
        PROVE  Frozen
    <3>1. activeId' = activeId + 1 /\ bytes' = bytes
      BY <2>4 DEF PutPanics, PoolAppendPanics, MoveBehind
    <3>2. QED
      BY <2>1, <3>1
  <2>5. ASSUME NEW w \in Writer, NEW k \in Key, Delete(w, k)
        PROVE  Frozen
    BY <2>2, <2>5, Zenon DEF Delete, poolVars
  <2>6. ASSUME NEW w \in Writer, Rewind(w)
        PROVE  Frozen
    BY <2>2, <2>6, Zenon DEF Rewind, PoolRewind, poolVars
  <2>7. ASSUME NEW r \in Reader, ReaderStep(r)
        PROVE  Frozen
    BY <2>2, <2>7, Zenon DEF ReaderStep, GetLocator, GetMap, Release, poolVars
  <2>8. CASE Flush
    BY <2>2, <2>8 DEF Flush, PoolFlush
  <2>9. CASE Restart
    <3>1. bytes' = bytes /\ activeId' \in {activeId, segs}
      BY <2>9 DEF Restart, PoolOpen, CursorUsable
    <3>2. QED
      BY <2>1, <3>1
  <2>10. ASSUME NEW w \in Writer, PutCommit(w) \/ TablePutFails(w) \/ CommitFails(w)
         PROVE  Frozen
    BY <2>2, <2>10, Zenon DEF PutCommit, TablePutFails, CommitFails, poolVars
  <2> HIDE DEF Frozen
  <2>11. QED
    BY <1>1, <2>3, <2>4, <2>5, <2>6, <2>7, <2>8, <2>9, <2>10 DEF Next, WriterStep
<1>2. StoreInvariant /\ [Next]_vars => [Frozen]_vars
  BY <1>1
<1>3. QED
  BY <1>2, StoreInvariantHolds, PTL DEF Spec, SealedImmutable

-----------------------------------------------------------------------------
(* The quota                                                                *)

\* Sealing a segment, rewinding, saving the cursor and opening keep the pool
\* well typed.
LEMMA PoolTypeKept ==
    ASSUME PoolTypeOK
    PROVE  /\ \A p \in Seq(Byte) : PoolAppendPanics(p) => PoolTypeOK'
           /\ \A l \in Locator : PoolRewind(l) => PoolTypeOK'
           /\ PoolFlush => PoolTypeOK'
           /\ PoolOpen => PoolTypeOK'
<1>1. ASSUME NEW p \in Seq(Byte), PoolAppendPanics(p)
      PROVE  PoolTypeOK'
  <2>1. /\ activeId' = activeId + 1 /\ activeCursor' = 0 /\ activeId + 1 < MaxSegs
        /\ segs' = Larger(segs, activeId + 2) /\ bytes' = bytes
        /\ cursorFile' = [seg |-> activeId + 1, cur |-> 0]
    BY <1>1 DEF PoolAppendPanics, MoveBehind, PoolTypeOK, SegId
  <2> QED
    BY <2>1, PoolAssumption DEF PoolTypeOK, SegId, Larger, Cursor
<1>2. ASSUME NEW l \in Locator, PoolRewind(l)
      PROVE  PoolTypeOK'
  BY <1>2, PoolAssumption DEF PoolTypeOK, PoolRewind, Locator
<1>3. ASSUME PoolFlush
      PROVE  PoolTypeOK'
  BY <1>3, PoolAssumption DEF PoolTypeOK, PoolFlush, Cursor
<1>4. ASSUME PoolOpen
      PROVE  PoolTypeOK'
  BY <1>4, PoolAssumption DEF PoolTypeOK, PoolOpen, CursorUsable, SegId, Larger, Cursor
<1> QED
  BY <1>1, <1>2, <1>3, <1>4, Zenon

\* A step that leaves the tables alone keeps the counter right; the puts it leaves
\* open are those that were open before.
LEMMA QuotaKept ==
    ASSUME QuotaInvariant, PoolTypeOK', loc' = loc, used' = used,
           pc' \in [Writer -> {"idle", "appended", "rewind"}],
           put' \in [Writer -> PutRecord \cup {None}],
           \A u \in Writer : pc'[u] # "idle" => pc[u] # "idle" /\ put'[u] = put[u],
           \A u \in Writer : pc'[u] = "appended" => pc[u] = "appended" /\ txn' = u
    PROVE  QuotaInvariant'
<1>1. QuotaCovers' /\ TablesTypeOK'
  BY Zenon DEF QuotaInvariant, QuotaCovers, OldLen, TablesTypeOK
<1>2. \A u \in Writer : pc'[u] # "idle" => put'[u] \in PutRecord
  BY Zenon DEF QuotaInvariant
<1>3. ASSUME NEW u \in Writer, pc'[u] = "appended"
      PROVE  /\ txn' = u /\ put'[u].loc.len = Len(put'[u].val)
             /\ QuotaAllows(put[u].key, put[u].val)'
  <2>1. pc[u] = "appended" /\ txn' = u /\ put'[u] = put[u]
    BY <1>3
  <2>2. put[u].loc.len = Len(put[u].val) /\ QuotaAllows(put[u].key, put[u].val)
    BY <2>1, Zenon DEF QuotaInvariant
  <2> QED
    BY <2>1, <2>2, Zenon DEF QuotaAllows, UsedAfterPut, OldLen
<1> QED
  BY <1>1, <1>2, <1>3, Zenon DEF QuotaInvariant

\* The live bytes of the keys.
LiveLen == [k \in Key |-> OldLen(k)]

\* The length of a value is a natural, and so is the sum of all.
LEMMA LiveLenType ==
    ASSUME TablesTypeOK
    PROVE  LiveLen \in [Key -> Nat] /\ \A k \in Key : LiveLen[k] = OldLen(k) /\ OldLen(k) \in Nat
<1>1. \A k \in Key : OldLen(k) \in Nat
  BY PoolAssumption DEF TablesTypeOK, OldLen, Locator
<1> QED
  BY <1>1 DEF LiveLen

\* No put is open while no transaction is.
LEMMA NoneAppended ==
    ASSUME QuotaInvariant, txn = None
    PROVE  \A u \in Writer : pc[u] # "appended"
BY StoreAssumption, Zenon DEF QuotaInvariant

\* Opening a put: the quota was checked for it in the same transaction.
LEMMA QuotaPutAppend ==
    ASSUME QuotaInvariant, NEW w \in Writer, NEW k \in Key, NEW v \in Value, PutAppend(w, k, v)
    PROVE  QuotaInvariant'
<1>1. /\ txn = None /\ QuotaAllows(k, v) /\ PoolAppend(v) /\ txn' = w
      /\ pc' = [pc EXCEPT ![w] = "appended"]
      /\ put' = [put EXCEPT ![w] = [key |-> k, val |-> v, loc |-> AppendLoc(v)]]
      /\ loc' = loc /\ used' = used
  BY Zenon DEF PutAppend, tableVars
<1>2. v \in Seq(Byte) /\ PoolTypeOK /\ TablesTypeOK
  BY KvAssumption DEF QuotaInvariant
<1>3. PoolTypeOK' /\ AppendLoc(v) \in Locator
  BY <1>1, <1>2, AppendType, AppendLocType, Zenon
<1>4. AppendLoc(v).len = Len(v)
  BY DEF AppendLoc
<1>5. /\ pc \in [Writer -> {"idle", "appended", "rewind"}]
      /\ put \in [Writer -> PutRecord \cup {None}]
      /\ \A u \in Writer : pc[u] # "idle" => put[u] \in PutRecord
  BY Zenon DEF QuotaInvariant
<1> DEFINE p == [key |-> k, val |-> v, loc |-> AppendLoc(v)]
<1>6. p \in PutRecord /\ p.key = k /\ p.val = v /\ p.loc = AppendLoc(v)
  BY <1>3 DEF PutRecord
<1>7. put'[w] = p /\ \A u \in Writer : u # w => put'[u] = put[u] /\ pc'[u] = pc[u]
  BY <1>1, <1>5, Zenon
<1> HIDE DEF p
<1>8. pc' \in [Writer -> {"idle", "appended", "rewind"}]
  BY <1>1, <1>5
<1>9. put' \in [Writer -> PutRecord \cup {None}]
  BY <1>1, <1>5, <1>6, Zenon DEF p
<1>10. QuotaCovers' /\ TablesTypeOK'
  BY <1>1, Zenon DEF QuotaInvariant, QuotaCovers, OldLen, TablesTypeOK
<1>11. \A u \in Writer : pc'[u] # "idle" => put'[u] \in PutRecord
  BY <1>5, <1>6, <1>7, Zenon
<1>12. ASSUME NEW u \in Writer, pc'[u] = "appended"
       PROVE  /\ txn' = u /\ put'[u].loc.len = Len(put'[u].val)
              /\ QuotaAllows(put[u].key, put[u].val)'
  <2>1. u = w
    BY <1>1, <1>7, <1>12, NoneAppended, Zenon
  <2>2. put'[u] = p /\ txn' = u
    BY <1>1, <1>7, <2>1, Zenon
  <2>3. QuotaAllows(put[u].key, put[u].val)'
    BY <1>1, <1>6, <2>2, Zenon DEF QuotaAllows, UsedAfterPut, OldLen
  <2> QED
    BY <1>4, <1>6, <2>2, <2>3, Zenon
<1> QED
  BY <1>3, <1>8, <1>9, <1>10, <1>11, <1>12, Zenon DEF QuotaInvariant

\* The commit of a put charges what the key grows by, and no more than was allowed.
LEMMA QuotaPutCommit ==
    ASSUME QuotaInvariant, NEW w \in Writer, PutCommit(w)
    PROVE  QuotaInvariant'
<1> DEFINE k == put[w].key
           v == put[w].val
           l == put[w].loc
<1>1. /\ pc[w] = "appended" /\ txn' = None
      /\ loc' = [loc EXCEPT ![k] = l] /\ used' = UsedAfterPut(k, v)
      /\ pc' = [pc EXCEPT ![w] = "idle"] /\ put' = [put EXCEPT ![w] = None]
      /\ UNCHANGED poolVars
  BY Zenon DEF PutCommit, CommitPut, Done
<1>2. /\ QuotaCovers /\ PoolTypeOK /\ TablesTypeOK
      /\ pc \in [Writer -> {"idle", "appended", "rewind"}]
      /\ put \in [Writer -> PutRecord \cup {None}]
      /\ \A u \in Writer : pc[u] # "idle" => put[u] \in PutRecord
      /\ \A u \in Writer : pc[u] = "appended" => txn = u
  BY Zenon DEF QuotaInvariant
<1>3. put[w] \in PutRecord /\ l.len = Len(v) /\ QuotaAllows(k, v) /\ txn = w
  BY <1>1, Zenon DEF QuotaInvariant
<1>4. k \in Key /\ v \in Seq(Byte) /\ l \in Locator /\ Len(v) \in Nat
  BY <1>3, KvAssumption DEF PutRecord
<1> HIDE DEF k, v, l
<1>5. OldLen(k) \in Nat /\ used \in Nat
  BY <1>2, <1>4, LiveLenType, Zenon DEF TablesTypeOK
<1>6. used' = used + SaturatingSub(Len(v), OldLen(k)) /\ used' \in Nat
  BY <1>1, <1>4, <1>5 DEF UsedAfterPut, SaturatingSub
<1>7. TablesTypeOK'
  BY <1>1, <1>2, <1>4, <1>6, Zenon DEF TablesTypeOK
<1>8. LiveLen'[k] = Len(v) /\ \A j \in Key : j # k => LiveLen'[j] = LiveLen[j]
  <2>1. loc'[k] = l /\ l # None /\ \A j \in Key : j # k => loc'[j] = loc[j]
    BY <1>1, <1>2, <1>4, NoneAssumption, Zenon DEF TablesTypeOK
  <2> QED
    BY <1>3, <1>4, <2>1, Zenon DEF LiveLen, OldLen
<1>9. LiveLen \in [Key -> Nat] /\ LiveLen' \in [Key -> Nat] /\ LiveLen[k] = OldLen(k)
  <2>1. LiveLen' \in [Key -> Nat]
    BY <1>7, PoolAssumption DEF TablesTypeOK, LiveLen, OldLen, Locator
  <2> QED
    BY <1>2, <1>4, <2>1, LiveLenType, Zenon
<1>10. /\ SumFunction(LiveLen) \in Nat /\ SumFunction(LiveLen') \in Nat
       /\ SumFunction(LiveLen') = SumFunction(LiveLen) - OldLen(k) + Len(v)
  <2>1. IsFiniteSet(Key)
    BY KvAssumption, Zenon
  <2>2. /\ SumFunction(LiveLen) \in Nat /\ SumFunction(LiveLen') \in Nat
        /\ SumFunction(LiveLen') = SumFunction(LiveLen) - LiveLen[k] + LiveLen'[k]
    BY <1>4, <1>8, <1>9, <2>1, SumOfChanged
  <2> QED
    BY <1>8, <1>9, <2>2, Zenon
<1>11. used >= SumFunction(LiveLen) /\ (QuotaLimit > 0 => UsedAfterPut(k, v) <= QuotaLimit)
  <2>1. used >= SumFunction(LiveLen)
    BY <1>2, Zenon DEF QuotaCovers, LiveLen
  <2>2. QuotaLimit > 0 => QuotaLimit # 0
    BY KvAssumption
  <2> QED
    BY <1>3, <2>1, <2>2, Zenon DEF QuotaAllows
<1>12. used' >= SumFunction(LiveLen')
  BY <1>4, <1>5, <1>6, <1>10, <1>11 DEF SaturatingSub
<1>13. QuotaCovers'
  BY <1>1, <1>11, <1>12, Zenon DEF QuotaCovers, LiveLen
<1>14. PoolTypeOK' /\ \A u \in Writer : pc'[u] # "appended" /\ (pc'[u] # "idle" => put'[u] \in PutRecord)
  <2>1. \A u \in Writer : u # w => pc[u] # "appended"
    BY <1>2, <1>3, Zenon
  <2> QED
    BY <1>1, <1>2, <2>1, Zenon DEF poolVars, PoolTypeOK
<1>15. /\ pc' \in [Writer -> {"idle", "appended", "rewind"}]
       /\ put' \in [Writer -> PutRecord \cup {None}]
  BY <1>1, <1>2, Zenon
<1> QED
  BY <1>7, <1>13, <1>14, <1>15, Zenon DEF QuotaInvariant

\* A delete gives back what the key held.
LEMMA QuotaDelete ==
    ASSUME QuotaInvariant, NEW w \in Writer, NEW k \in Key, Delete(w, k)
    PROVE  QuotaInvariant'
<1>1. /\ txn = None /\ loc' = [loc EXCEPT ![k] = None]
      /\ used' = SaturatingSub(used, OldLen(k))
      /\ UNCHANGED poolVars /\ txn' = txn /\ pc' = pc /\ put' = put
  BY Zenon DEF Delete, CommitDelete, threadVars
<1>2. /\ QuotaCovers /\ PoolTypeOK /\ TablesTypeOK
      /\ pc \in [Writer -> {"idle", "appended", "rewind"}]
      /\ put \in [Writer -> PutRecord \cup {None}]
      /\ \A u \in Writer : pc[u] # "idle" => put[u] \in PutRecord
  BY Zenon DEF QuotaInvariant
<1>3. OldLen(k) \in Nat /\ used \in Nat
  BY <1>2, LiveLenType, Zenon DEF TablesTypeOK
<1>4. TablesTypeOK'
  <2>1. used' \in Nat
    BY <1>1, <1>3 DEF SaturatingSub
  <2> QED
    BY <1>1, <1>2, <2>1, Zenon DEF TablesTypeOK
<1>5. LiveLen'[k] = 0 /\ \A j \in Key : j # k => LiveLen'[j] = LiveLen[j]
  <2>1. loc'[k] = None /\ \A j \in Key : j # k => loc'[j] = loc[j]
    BY <1>1, <1>2, Zenon DEF TablesTypeOK
  <2> QED
    BY <2>1, Zenon DEF LiveLen, OldLen
<1>6. LiveLen \in [Key -> Nat] /\ LiveLen' \in [Key -> Nat] /\ LiveLen[k] = OldLen(k)
  <2>1. LiveLen' \in [Key -> Nat]
    BY <1>4, PoolAssumption DEF TablesTypeOK, LiveLen, OldLen, Locator
  <2> QED
    BY <1>2, <2>1, LiveLenType, Zenon
<1>7. /\ SumFunction(LiveLen) \in Nat /\ SumFunction(LiveLen') \in Nat
      /\ OldLen(k) <= SumFunction(LiveLen)
      /\ SumFunction(LiveLen') = SumFunction(LiveLen) - OldLen(k)
  <2>1. IsFiniteSet(Key)
    BY KvAssumption, Zenon
  <2>2. /\ SumFunction(LiveLen) \in Nat /\ SumFunction(LiveLen') \in Nat
        /\ LiveLen[k] <= SumFunction(LiveLen)
        /\ SumFunction(LiveLen') = SumFunction(LiveLen) - LiveLen[k] + LiveLen'[k]
    BY <1>5, <1>6, <2>1, SumOfChanged
  <2> QED
    BY <1>3, <1>5, <1>6, <2>2
<1>8. used >= SumFunction(LiveLen) /\ (QuotaLimit > 0 => used <= QuotaLimit)
  BY <1>2, Zenon DEF QuotaCovers, LiveLen
<1>9. used' >= SumFunction(LiveLen') /\ used' <= used
  BY <1>1, <1>3, <1>7, <1>8 DEF SaturatingSub
<1>10. QuotaLimit > 0 => used' <= QuotaLimit
  <2>1. used \in Nat /\ used' \in Nat /\ QuotaLimit \in Nat
    BY <1>3, <1>4, KvAssumption DEF TablesTypeOK
  <2> QED
    BY <1>8, <1>9, <2>1
<1>11. QuotaCovers'
  BY <1>9, <1>10, Zenon DEF QuotaCovers, LiveLen
<1>12. \A u \in Writer : pc'[u] # "appended" /\ (pc'[u] # "idle" => put'[u] \in PutRecord)
  BY <1>1, <1>2, NoneAppended, Zenon
<1>13. PoolTypeOK'
  BY <1>1, <1>2, Zenon DEF poolVars, PoolTypeOK
<1> QED
  BY <1>1, <1>2, <1>4, <1>11, <1>12, <1>13, Zenon DEF QuotaInvariant

\* The other steps of a writer leave the tables alone and at most end its put.
LEMMA QuotaWriterRest ==
    ASSUME QuotaInvariant, NEW w \in Writer,
           \/ \E k \in Key, v \in Value : PutPanics(w, k, v)
           \/ TablePutFails(w) \/ CommitFails(w) \/ Rewind(w)
    PROVE  QuotaInvariant'
<1>1. /\ PoolTypeOK
      /\ pc \in [Writer -> {"idle", "appended", "rewind"}]
      /\ put \in [Writer -> PutRecord \cup {None}]
      /\ \A u \in Writer : pc[u] # "idle" => put[u] \in PutRecord
      /\ \A u \in Writer : pc[u] = "appended" => txn = u
  BY Zenon DEF QuotaInvariant
<1>2. CASE \E k \in Key, v \in Value : PutPanics(w, k, v)
  <2>1. PICK k \in Key, v \in Value : PutPanics(w, k, v)
    BY <1>2
  <2>2. v \in Seq(Byte) /\ PoolAppendPanics(v) /\ loc' = loc /\ used' = used
        /\ txn' = txn /\ pc' = pc /\ put' = put
    BY <2>1, KvAssumption, Zenon DEF PutPanics, tableVars
  <2>3. PoolTypeOK'
    BY <1>1, <2>2, PoolTypeKept, Zenon
  <2> QED
    BY <1>1, <2>2, <2>3, QuotaKept, Zenon
<1>3. CASE TablePutFails(w)
  <2>1. /\ pc[w] = "appended" /\ loc' = loc /\ used' = used /\ UNCHANGED poolVars
        /\ pc' = [pc EXCEPT ![w] = "idle"] /\ put' = [put EXCEPT ![w] = None]
    BY <1>3, Zenon DEF TablePutFails, Done, tableVars
  <2>2. PoolTypeOK'
    BY <1>1, <2>1, Zenon DEF poolVars, PoolTypeOK
  <2>3. \A u \in Writer : u # w => pc[u] # "appended"
    BY <1>1, <2>1, Zenon
  <2>4. \A u \in Writer : pc'[u] # "appended" /\ (pc'[u] # "idle" => pc[u] # "idle" /\ put'[u] = put[u])
    BY <1>1, <2>1, <2>3, Zenon
  <2>5. pc' \in [Writer -> {"idle", "appended", "rewind"}] /\ put' \in [Writer -> PutRecord \cup {None}]
    BY <1>1, <2>1, Zenon
  <2> QED
    BY <2>1, <2>2, <2>4, <2>5, QuotaKept, Zenon
<1>4. CASE CommitFails(w)
  <2>1. /\ pc[w] = "appended" /\ loc' = loc /\ used' = used /\ UNCHANGED poolVars
        /\ pc' = [pc EXCEPT ![w] = "rewind"] /\ put' = put
    BY <1>4, Zenon DEF CommitFails, Done, tableVars
  <2>2. PoolTypeOK'
    BY <1>1, <2>1, Zenon DEF poolVars, PoolTypeOK
  <2>3. \A u \in Writer : u # w => pc[u] # "appended"
    BY <1>1, <2>1, Zenon
  <2>4. \A u \in Writer : pc'[u] # "appended" /\ (pc'[u] # "idle" => pc[u] # "idle" /\ put'[u] = put[u])
    BY <1>1, <2>1, <2>3
  <2>5. pc' \in [Writer -> {"idle", "appended", "rewind"}] /\ put' \in [Writer -> PutRecord \cup {None}]
    BY <1>1, <2>1, Zenon
  <2> QED
    BY <2>1, <2>2, <2>4, <2>5, QuotaKept, Zenon
<1>5. CASE Rewind(w)
  <2>1. /\ pc[w] = "rewind" /\ loc' = loc /\ used' = used /\ txn' = txn
        /\ UNCHANGED poolVars \/ PoolRewind(put[w].loc)
        /\ pc' = [pc EXCEPT ![w] = "idle"] /\ put' = [put EXCEPT ![w] = None]
    BY <1>5, Zenon DEF Rewind, tableVars
  <2>2. put[w].loc \in Locator
    <3>1. put[w] \in PutRecord
      BY <1>1, <2>1
    <3> QED
      BY <3>1 DEF PutRecord
  <2>3. PoolTypeOK'
    <3>1. CASE UNCHANGED poolVars
      BY <1>1, <3>1, Zenon DEF poolVars, PoolTypeOK
    <3>2. CASE PoolRewind(put[w].loc)
      BY <1>1, <2>2, <3>2, PoolTypeKept, Zenon
    <3> QED
      BY <2>1, <3>1, <3>2, Zenon
  <2>4. \A u \in Writer : /\ pc'[u] # "idle" => pc[u] # "idle" /\ put'[u] = put[u]
                          /\ pc'[u] = "appended" => pc[u] = "appended" /\ txn' = u
    BY <1>1, <2>1
  <2>5. pc' \in [Writer -> {"idle", "appended", "rewind"}] /\ put' \in [Writer -> PutRecord \cup {None}]
    BY <1>1, <2>1, Zenon
  <2> QED
    BY <2>1, <2>3, <2>4, <2>5, QuotaKept, Zenon
<1> QED
  BY <1>2, <1>3, <1>4, <1>5

\* The counter is right in an empty store, and every step keeps it right.
LEMMA QuotaInvariantInit == Init => QuotaInvariant
<1> SUFFICES ASSUME Init PROVE QuotaInvariant
  OBVIOUS
<1>1. /\ PoolInit /\ loc = [k \in Key |-> None] /\ used = 0
      /\ pc = [w \in Writer |-> "idle"] /\ put = [w \in Writer |-> None]
  BY Zenon DEF Init, TablesInit
<1>2. PoolTypeOK
  BY <1>1, PoolAssumption DEF PoolInit, PoolTypeOK, SegId, Offset
<1>3. TablesTypeOK
  BY <1>1 DEF TablesTypeOK
<1>4. LiveLen = [k \in Key |-> 0]
  BY <1>1, Zenon DEF LiveLen, OldLen
<1>5. SumFunction(LiveLen) = 0
  BY <1>4, KvAssumption, SumOfZeros, Zenon
<1>6. used >= SumFunction(LiveLen) /\ (QuotaLimit > 0 => used <= QuotaLimit)
  BY <1>1, <1>5, KvAssumption
<1>7. QuotaCovers
  BY <1>6, Zenon DEF QuotaCovers, LiveLen
<1>8. /\ pc \in [Writer -> {"idle", "appended", "rewind"}]
      /\ put \in [Writer -> PutRecord \cup {None}]
      /\ \A w \in Writer : pc[w] = "idle"
  BY <1>1
<1> QED
  BY <1>2, <1>3, <1>7, <1>8 DEF QuotaInvariant

\* Every step keeps the counter right, whichever threads take it.
LEMMA QuotaInvariantStep == QuotaInvariant /\ [Next]_vars => QuotaInvariant'
<1> SUFFICES ASSUME QuotaInvariant, [Next]_vars
             PROVE  QuotaInvariant'
  OBVIOUS
<1>1. ASSUME NEW w \in Writer, WriterStep(w)
      PROVE  QuotaInvariant'
  BY <1>1, QuotaPutAppend, QuotaPutCommit, QuotaDelete, QuotaWriterRest, Zenon DEF WriterStep
<1>2. /\ PoolTypeOK
      /\ pc \in [Writer -> {"idle", "appended", "rewind"}]
      /\ put \in [Writer -> PutRecord \cup {None}]
      /\ \A u \in Writer : pc[u] = "appended" => txn = u
  BY Zenon DEF QuotaInvariant
<1>3. ASSUME loc' = loc, used' = used, txn' = txn, pc' = pc, put' = put, PoolTypeOK'
      PROVE  QuotaInvariant'
  BY <1>2, <1>3, QuotaKept, Zenon
<1>4. ASSUME NEW r \in Reader, ReaderStep(r)
      PROVE  QuotaInvariant'
  <2>1. loc' = loc /\ used' = used /\ txn' = txn /\ pc' = pc /\ put' = put /\ UNCHANGED poolVars
    BY <1>4, Zenon DEF ReaderStep, GetLocator, GetMap, Release, tableVars
  <2> QED
    BY <1>2, <1>3, <2>1, Zenon DEF poolVars, PoolTypeOK
<1>5. CASE Flush
  <2>1. loc' = loc /\ used' = used /\ txn' = txn /\ pc' = pc /\ put' = put /\ PoolFlush
    BY <1>5, Zenon DEF Flush, tableVars, threadVars
  <2> QED
    BY <1>2, <1>3, <2>1, PoolTypeKept, Zenon
<1>6. CASE Restart
  <2>1. loc' = loc /\ used' = used /\ txn' = txn /\ pc' = pc /\ put' = put /\ PoolOpen
    BY <1>6, Zenon DEF Restart, tableVars
  <2> QED
    BY <1>2, <1>3, <2>1, PoolTypeKept, Zenon
<1>7. CASE UNCHANGED vars
  <2>1. loc' = loc /\ used' = used /\ txn' = txn /\ pc' = pc /\ put' = put /\ UNCHANGED poolVars
    BY <1>7, Zenon DEF vars, tableVars, threadVars
  <2> QED
    BY <1>2, <1>3, <2>1, Zenon DEF poolVars, PoolTypeOK
<1> QED
  BY <1>1, <1>4, <1>5, <1>6, <1>7, Zenon DEF Next

\* With any number of writers, failing commits and restarts, the quota counter
\* covers the bytes of all live values and never passes the limit: a put is
\* committed in the transaction that checked the quota.
THEOREM QuotaCoversLiveBytes == Spec => []QuotaCovers
<1>1. QuotaInvariant => QuotaCovers
  BY Zenon DEF QuotaInvariant
<1> QED
  BY <1>1, QuotaInvariantInit, QuotaInvariantStep, PTL DEF Spec

=============================================================================
