------------------------------ MODULE SegmentPool ------------------------------
(***************************************************************************)
(* The append-only payload segments of mem/segment.rs, shared by the KV    *)
(* and the columnar store.  A segment is a preallocated file of SegSize    *)
(* bytes; one segment is active and is written at activeCursor; a payload  *)
(* that does not fit seals the active segment and opens the next one.      *)
(* The sidecar file active.cursor remembers where to go on after a reopen. *)
(*                                                                         *)
(* The caller holds the pool's mutex, so every operation is one step.      *)
(***************************************************************************)
EXTENDS Integers, Sequences

CONSTANTS
    SegSize,   \* capacity of a segment, in bytes
    MaxSegs,   \* bound: segment files a behaviour may create
    Byte,      \* byte values
    Zero,      \* the byte a fresh file is filled with
    None       \* absent: no cursor file, no locator, no value

ASSUME PoolAssumption ==
    /\ SegSize \in Nat \ {0}
    /\ MaxSegs \in Nat \ {0}
    /\ Zero \in Byte

VARIABLES
    activeId,      \* id of the segment being written
    activeCursor,  \* first unwritten byte of it
    bytes,         \* contents of every segment file, as the mappings show them
    segs,          \* segment files 0 .. segs-1 exist
    cursorFile     \* contents of active.cursor, or None

poolVars == <<activeId, activeCursor, bytes, segs, cursorFile>>

SegId == 0 .. MaxSegs - 1
Offset == 0 .. SegSize - 1
Locator == [seg : SegId, off : 0 .. SegSize, len : 0 .. SegSize]
Cursor == [seg : SegId, cur : 0 .. SegSize]

\* Distinguishes None from everything it is compared with.
ASSUME NoneAssumption == None \notin Locator /\ None \notin Cursor

PoolTypeOK ==
    /\ activeId \in SegId
    /\ activeCursor \in 0 .. SegSize
    /\ bytes \in [SegId -> [Offset -> Byte]]
    /\ segs \in 1 .. MaxSegs
    /\ cursorFile \in Cursor \cup {None}

-----------------------------------------------------------------------------

(* SegmentPool::open on an empty directory: segment 0, no cursor file.      *)
PoolInit ==
    /\ activeId = 0
    /\ activeCursor = 0
    /\ bytes = [s \in SegId |-> [o \in Offset |-> Zero]]
    /\ segs = 1
    /\ cursorFile = None

Remaining == SegSize - activeCursor

\* Seeded fault: a payload one byte too long still goes to the active segment.
AppendLocTight(p) ==
    IF Len(p) > Remaining + 1
    THEN [seg |-> activeId + 1, off |-> 0, len |-> Len(p)]
    ELSE [seg |-> activeId, off |-> activeCursor, len |-> Len(p)]

\* The locator `append` returns: the payload goes to the active segment if
\* it fits, otherwise to the start of the next one.
AppendLoc(p) ==
    IF Len(p) > Remaining
    THEN [seg |-> activeId + 1, off |-> 0, len |-> Len(p)]
    ELSE [seg |-> activeId, off |-> activeCursor, len |-> Len(p)]

\* Seeded fault: the last byte of the payload is not copied.
WrittenShort(l, p) ==
    [bytes EXCEPT ![l.seg] =
        [o \in Offset |-> IF l.off <= o /\ o < l.off + l.len - 1
                          THEN p[o - l.off + 1]
                          ELSE bytes[l.seg][o]]]

\* Segment contents once payload p is copied to where locator l points.
Written(l, p) ==
    [bytes EXCEPT ![l.seg] =
        [o \in Offset |-> IF l.off <= o /\ o < l.off + l.len
                          THEN p[o - l.off + 1]
                          ELSE bytes[l.seg][o]]]

Larger(m, n) == IF m > n THEN m ELSE n

\* Moving the write position behind locator l; a rotation (a new active
\* segment) also saves active.cursor as the start of the new segment.
MoveBehind(l) ==
    /\ activeId' = l.seg
    /\ activeCursor' = l.off + l.len
    /\ segs' = Larger(segs, l.seg + 1)
    /\ cursorFile' = IF l.seg # activeId THEN [seg |-> l.seg, cur |-> 0]
                     ELSE cursorFile

(* SegmentPool::append (with seal_and_rotate).                              *)
PoolAppend(p) ==
    /\ Len(p) <= SegSize
    /\ AppendLoc(p).seg < MaxSegs
    /\ bytes' = Written(AppendLoc(p), p)
    /\ MoveBehind(AppendLoc(p))

\* A payload longer than a whole segment: the active segment is sealed and a
\* new one opened, then the copy panics on its slice bounds.
PoolAppendPanics(p) ==
    /\ Len(p) > SegSize
    /\ activeId + 1 < MaxSegs
    /\ MoveBehind([seg |-> activeId + 1, off |-> 0, len |-> 0])
    /\ UNCHANGED bytes

\* Seeded fault: the rewind goes to the start of the segment.
PoolRewindAll(l) ==
    /\ activeCursor' = IF l.seg = activeId THEN 0 ELSE activeCursor
    /\ UNCHANGED <<activeId, bytes, segs, cursorFile>>

(* SegmentPool::rewind_active_to: gives the bytes of an append back, unless *)
(* its segment has been sealed meanwhile or the target is ahead.            *)
PoolRewind(l) ==
    /\ activeCursor' = IF l.seg = activeId /\ l.off <= activeCursor
                       THEN l.off ELSE activeCursor
    /\ UNCHANGED <<activeId, bytes, segs, cursorFile>>

(* SegmentPool::flush: the write position is saved to active.cursor.        *)
PoolFlush ==
    /\ cursorFile' = [seg |-> activeId, cur |-> activeCursor]
    /\ UNCHANGED <<activeId, activeCursor, bytes, segs>>

\* A recorded position is used only if its segment file exists and it lies
\* within a segment.
CursorUsable ==
    cursorFile # None /\ cursorFile.seg < segs /\ cursorFile.cur <= SegSize

\* Seeded fault: the recorded cursor is taken for one in the first segment.
PoolOpenFirst ==
    /\ CursorUsable \/ segs < MaxSegs
    /\ activeId' = IF CursorUsable THEN 0 ELSE segs
    /\ activeCursor' = IF CursorUsable THEN cursorFile.cur ELSE 0
    /\ segs' = Larger(segs, activeId' + 1)
    /\ UNCHANGED <<bytes, cursorFile>>

(* SegmentPool::open on an existing directory: go on at the recorded        *)
(* position, otherwise in a new segment behind all existing ones.           *)
PoolOpen ==
    /\ CursorUsable \/ segs < MaxSegs
    /\ activeId' = IF CursorUsable THEN cursorFile.seg ELSE segs
    /\ activeCursor' = IF CursorUsable THEN cursorFile.cur ELSE 0
    /\ segs' = Larger(segs, activeId' + 1)
    /\ UNCHANGED <<bytes, cursorFile>>

\* What a reader sees through a mapping of the segment l points into.
ReadFrom(contents, l) == [i \in 1 .. l.len |-> contents[l.seg][l.off + i - 1]]

ReadAt(l) == ReadFrom(bytes, l)

-----------------------------------------------------------------------------

\* l lies in the written part of the segments.
InWritten(l) ==
    /\ l.seg <= activeId
    /\ l.off + l.len <= SegSize
    /\ l.seg = activeId => l.off + l.len <= activeCursor

\* l ends before m begins, if both are in one segment.
Before(l, m) == l.seg = m.seg => l.off + l.len <= m.off

=============================================================================
