------------------------------ MODULE SealedCache ------------------------------
(***************************************************************************)
(* The caches of read-only segment mappings: sealed and sealed_lru of      *)
(* mem/segment.rs ("kv", also under the columnar store) and HandleCache of *)
(* vector/store.rs ("vec").  A cached mapping lives until it is evicted; a *)
(* reader's Arc keeps its mapping alive beyond that.  The two caches are   *)
(* meant to behave alike and differ in three ways: "kv" caches the active  *)
(* segment with the sealed ones while "vec" keeps it apart (active_read);  *)
(* "vec" looks up under a read lock and inserts under a write lock; and    *)
(* their eviction loops treat a mapping in use differently.                *)
(*                                                                         *)
(* A rotation fails when the next segment file cannot be created, after    *)
(* the cache has been changed.  Reclaiming removes the files of segments   *)
(* that a compaction lists as old, the active one possibly among them.     *)
(***************************************************************************)
EXTENDS Integers, Sequences, FiniteSets, Functions

CONSTANTS
    MaxSegs,      \* bound: segment files
    Cap,          \* SEALED_CACHE_CAP, VEC_SEALED_CACHE_CAP
    Reader,       \* threads, each holding at most one mapping
    MaxFailures,  \* bound: rotations that fail
    None

ASSUME CacheAssumption == MaxSegs \in Nat \ {0} /\ Cap \in Nat /\ MaxFailures \in Nat

VARIABLES
    kind,        \* which of the two caches this is
    active,      \* the segment being written
    files,       \* the segment files that exist
    sealed,      \* segment id -> mapping
    lru,         \* the eviction queue
    activeRead,  \* "vec": the mapping of the active segment, or None
    reader,      \* per thread: "idle", "missed" (between the two locks) or "holds"
    reclaiming,  \* "vec": the segment whose file was removed, or None
    failures

vars == <<kind, active, files, sealed, lru, activeRead, reader, reclaiming, failures>>

SegId == 0 .. MaxSegs - 1

\* A mapping: the file it maps, and a number to tell mappings of one file apart.
Handle == [seg : SegId, n : 0 .. Cardinality(Reader) + 1]

ReaderState ==
    [st : {"idle"}] \cup [st : {"missed"}, seg : SegId]
        \cup [st : {"holds"}, seg : SegId, handle : Handle]
Idle == [st |-> "idle"]

TypeOK ==
    /\ kind \in {"kv", "vec"}
    /\ active \in SegId /\ files \subseteq SegId
    /\ DOMAIN sealed \subseteq SegId /\ Range(sealed) \subseteq Handle
    /\ lru \in Seq(SegId)
    /\ activeRead \in Handle \cup {None}
    /\ reader \in [Reader -> ReaderState]
    /\ reclaiming \in SegId \cup {None}
    /\ failures \in 0 .. MaxFailures

Init ==
    /\ kind \in {"kv", "vec"}
    /\ active = 0
    /\ files = {0}
    /\ sealed = <<>>
    /\ lru = <<>>
    /\ activeRead = None
    /\ reader = [r \in Reader |-> Idle]
    /\ reclaiming = None
    /\ failures = 0

-----------------------------------------------------------------------------
(* Eviction                                                                 *)

\* The mappings readers hold.
Held == {reader[r].handle : r \in {x \in Reader : reader[x].st = "holds"}}

\* strong_count <= 1 for the cached mapping of s; held are the Arcs outside the cache.
Unused(cache, s, held) == s \in DOMAIN cache /\ cache[s] \notin held

Without(cache, s) == Restrict(cache, DOMAIN cache \ {s})

\* Seeded fault: the loop ends at the first mapping in use (the form that
\* evict_sealed had before R8).
RECURSIVE EvictKvBreak(_, _, _, _)
EvictKvBreak(cache, queue, left, held) ==
    IF Len(queue) <= Cap \/ ~Unused(cache, Head(queue), held) THEN [cache |-> cache, queue |-> queue]
    ELSE EvictKvBreak(Without(cache, Head(queue)), Tail(queue), left, held)

(* evict_sealed: a mapping in use, or an entry whose mapping is gone, goes  *)
(* to the back of the queue; left is queue_len - touched.                   *)
RECURSIVE EvictKv(_, _, _, _)
EvictKv(cache, queue, left, held) ==
    IF Len(queue) <= Cap \/ left = 0 THEN [cache |-> cache, queue |-> queue]
    ELSE IF Unused(cache, Head(queue), held)
    THEN EvictKv(Without(cache, Head(queue)), Tail(queue), left, held)
    ELSE EvictKv(cache, Append(Tail(queue), Head(queue)), left - 1, held)

(* HandleCache::evict: the loop ends at a mapping in use, which goes to the *)
(* back of the queue.                                                       *)
RECURSIVE EvictVec(_, _, _)
EvictVec(cache, queue, held) ==
    IF Len(queue) <= Cap THEN [cache |-> cache, queue |-> queue]
    ELSE IF Unused(cache, Head(queue), held)
    THEN EvictVec(Without(cache, Head(queue)), Tail(queue), held)
    ELSE [cache |-> cache, queue |-> Append(Tail(queue), Head(queue))]

Evict(cache, queue, held) ==
    IF kind = "kv" THEN EvictKv(cache, queue, Len(queue), held) ELSE EvictVec(cache, queue, held)

\* Segment s gets the mapping h, the queue an entry, and the cache is cut back.
Insert(s, h, held) ==
    LET cut == Evict([x \in DOMAIN sealed \cup {s} |-> IF x = s THEN h ELSE sealed[x]],
                     Append(lru, s), held)
    IN  sealed' = cut.cache /\ lru' = cut.queue

\* A new mapping of the file of segment s.
Mappings == Range(sealed) \cup Held \cup ({activeRead} \ {None})
NewHandle(s) == CHOOSE h \in Handle : h.seg = s /\ h \notin Mappings

-----------------------------------------------------------------------------
(* seal_and_rotate of both pools.  The vector pool's lock keeps rotations   *)
(* away from a lookup.                                                      *)

NoLookup == \A r \in Reader : reader[r].st # "missed"

\* Seeded fault: the mapping of the old active segment is kept.
SealKeepsActiveRead ==
    /\ NoLookup
    /\ Insert(active, NewHandle(active), Held)
    /\ UNCHANGED <<kind, reader, reclaiming, activeRead>>

\* The active segment is mapped read-only and put into the cache.
Seal ==
    /\ NoLookup
    /\ Insert(active, NewHandle(active), Held)
    /\ activeRead' = None
    /\ UNCHANGED <<kind, reader, reclaiming>>

Rotate ==
    /\ Seal
    /\ active + 1 < MaxSegs
    /\ active' = active + 1
    /\ files' = files \cup {active + 1}
    /\ UNCHANGED failures

RotateFails ==
    /\ Seal
    /\ failures < MaxFailures
    /\ failures' = failures + 1
    /\ UNCHANGED <<active, files>>

-----------------------------------------------------------------------------
(* Lookups                                                                  *)

Holds(r, s, h) == reader' = [reader EXCEPT ![r] = [st |-> "holds", seg |-> s, handle |-> h]]

\* touch: the first entry of s moves to the back of the queue.
Touched(s) ==
    LET at == CHOOSE i \in DOMAIN lru : lru[i] = s /\ \A j \in 1 .. i - 1 : lru[j] # s
    IN  IF s \in Range(lru)
        THEN SubSeq(lru, 1, at - 1) \o SubSeq(lru, at + 1, Len(lru)) \o <<s>>
        ELSE lru

(* SegmentPool::sealed_handle, under the pool's mutex.                      *)
KvGet(r, s) ==
    /\ kind = "kv" /\ reader[r] = Idle /\ s \in files
    /\ \/ /\ s \in DOMAIN sealed
          /\ Holds(r, s, sealed[s])
          /\ lru' = Touched(s)
          /\ UNCHANGED sealed
       \/ /\ s \notin DOMAIN sealed
          /\ Holds(r, s, NewHandle(s))
          /\ Insert(s, NewHandle(s), Held \cup {NewHandle(s)})
    /\ UNCHANGED <<kind, active, files, activeRead, reclaiming, failures>>

(* active_handle and sealed_handle of the vector pool: under the read lock. *)
VecLook(r, s) ==
    /\ kind = "vec" /\ reader[r] = Idle /\ s <= active
    /\ IF s = active
       THEN IF activeRead # None THEN Holds(r, s, activeRead)
            ELSE reader' = [reader EXCEPT ![r] = [st |-> "missed", seg |-> s]]
       ELSE IF s \in DOMAIN sealed THEN Holds(r, s, sealed[s])
            ELSE reader' = [reader EXCEPT ![r] = [st |-> "missed", seg |-> s]]
    /\ UNCHANGED <<kind, active, files, sealed, lru, activeRead, reclaiming, failures>>

\* Seeded fault: the cache is not looked at again under the write lock.
VecOpenSealedBlind(r, s) ==
    /\ s \in files
    /\ Holds(r, s, NewHandle(s))
    /\ Insert(s, NewHandle(s), Held \cup {NewHandle(s)})

\* Another reader may have been faster, and the file may be gone (Corrupt).
VecOpenSealed(r, s) ==
    \/ /\ s \in DOMAIN sealed
       /\ Holds(r, s, sealed[s])
       /\ lru' = Touched(s)
       /\ UNCHANGED sealed
    \/ /\ s \notin DOMAIN sealed /\ s \in files
       /\ Holds(r, s, NewHandle(s))
       /\ Insert(s, NewHandle(s), Held \cup {NewHandle(s)})
    \/ /\ s \notin DOMAIN sealed /\ s \notin files
       /\ reader' = [reader EXCEPT ![r] = Idle]
       /\ UNCHANGED <<sealed, lru>>

VecOpenActive(r) ==
    /\ activeRead' = IF activeRead = None THEN NewHandle(active) ELSE activeRead
    /\ Holds(r, active, activeRead')
    /\ UNCHANGED <<sealed, lru>>

(* The same functions under the write lock.                                 *)
VecOpen(r) ==
    /\ reader[r].st = "missed"
    /\ IF reader[r].seg = active
       THEN VecOpenActive(r)
       ELSE VecOpenSealed(r, reader[r].seg) /\ UNCHANGED activeRead
    /\ UNCHANGED <<kind, active, files, reclaiming, failures>>

Release(r) ==
    /\ reader[r].st = "holds"
    /\ reader' = [reader EXCEPT ![r] = Idle]
    /\ UNCHANGED <<kind, active, files, sealed, lru, activeRead, reclaiming, failures>>

(* reclaim_segments, one segment: reclaim_safe may let it go even while it  *)
(* is mapped (RECLAIM_SAFETY has passed); its file is removed ...           *)
ReclaimFile(s) ==
    /\ kind = "vec" /\ reclaiming = None
    /\ s <= active
    /\ files' = files \ {s}
    /\ reclaiming' = s
    /\ UNCHANGED <<kind, active, sealed, lru, activeRead, reader, failures>>

(* ... and then, under the pool's write lock, drop_sealed forgets it.       *)
ReclaimDrop ==
    LET s == reclaiming
    IN  /\ s # None /\ NoLookup
        /\ sealed' = Without(sealed, s)
        /\ lru' = IF s \in Range(lru) THEN SubSeq(Touched(s), 1, Len(lru) - 1) ELSE lru
        /\ reclaiming' = None
        /\ UNCHANGED <<kind, active, files, activeRead, reader, failures>>

Next ==
    \/ Rotate \/ RotateFails
    \/ \E r \in Reader :
          \/ \E s \in SegId : KvGet(r, s) \/ VecLook(r, s)
          \/ VecOpen(r) \/ Release(r)
    \/ \E s \in SegId : ReclaimFile(s)
    \/ ReclaimDrop

Spec == Init /\ [][Next]_vars

-----------------------------------------------------------------------------
(* Properties                                                               *)

\* The mappings of the key-value and columnar pools are bounded (A4, R8):
\* however long readers keep theirs, the cache holds at most Cap of them, or as
\* many as there are readers if that is more (evict_sealed).
MappingsBounded ==
    kind = "kv" => Cardinality(DOMAIN sealed) <= Cap \/ Cardinality(DOMAIN sealed) <= Cardinality(Reader)

\* The same for the vector pool (HandleCache::evict).
VecMappingsBounded ==
    kind = "vec" => Cardinality(DOMAIN sealed) <= Cap + Cardinality(Reader)

\* Every cached mapping waits in the queue for its eviction; the vector pool's
\* queue is exact: no entry twice, none without its mapping, unless a rotation
\* has failed half-way (seal_and_rotate, sealed_handle, drop_sealed).
QueueTracksCache ==
    /\ DOMAIN sealed \subseteq Range(lru)
    /\ kind = "vec" /\ failures = 0 => Range(lru) = DOMAIN sealed /\ IsInjective(lru)

\* A reader gets the file it asked for, and what the cache hands out next is
\* filed under the right segment, also after a rotation has turned the active
\* segment into a sealed one (active_read).
HandlesMatch ==
    /\ \A r \in Reader : reader[r].st = "holds" => reader[r].handle.seg = reader[r].seg
    /\ \A s \in DOMAIN sealed : sealed[s].seg = s
    /\ activeRead # None => activeRead.seg = active

=============================================================================
