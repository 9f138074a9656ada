------------------------------ MODULE VectorIndex ------------------------------
(***************************************************************************)
(* VectorIndex of vector/store.rs: vectors of one size in append-only      *)
(* segments, a heed table from id to locator with a copy of it in memory,  *)
(* the graph (here: its nodes, their deleted flags and the entry point;    *)
(* the edges are in Nsw), and the snapshot of the graph on disk.           *)
(*                                                                         *)
(* All vectors have one size, so a locator is a slot number: slot l is in  *)
(* segment l \div SegSlots.                                                *)
(***************************************************************************)
EXTENDS Integers, FiniteSets, Sequences, FiniteSetsExt

CONSTANTS
    Id,         \* vector ids: positive integers, in the key order of the table
    Vec,        \* vectors
    Zero,       \* what a slot of a new segment file holds
    None,
    SegSlots,   \* vectors a segment holds
    MaxVecSegs  \* bound: segments ever created

ASSUME VectorAssumption ==
    /\ Id \subseteq Nat \ {0} /\ IsFiniteSet(Id)
    /\ Zero \notin Vec /\ None \notin Vec \cup Id \cup Nat
    /\ SegSlots \in Nat \ {0} /\ MaxVecSegs \in Nat \ {0}

VARIABLES
    active,   \* active segment and the number of vectors in it
    fill,
    files,    \* segment files that exist
    cells,    \* what each slot holds, seen through the mapping of its segment
    sealed,   \* sealed segments with a cached mapping
    table,    \* heed: id -> slot, or None
    cache,    \* VectorIndex::locators
    node,     \* graph node of an id: "absent", "live" or "deleted"
    entry,    \* entry point of the graph, or None
    snap      \* graph.snapshot on disk: [node, entry], or None

poolVars == <<active, fill, files, cells, sealed>>
graphVars == <<node, entry>>
indexVars == <<active, fill, files, cells, sealed, table, cache, node, entry, snap>>

Seg == 0 .. MaxVecSegs - 1
Slot == 0 .. MaxVecSegs * SegSlots - 1
Segment(l) == l \div SegSlots
NodeState == {"absent", "live", "deleted"}
EmptyGraph == [i \in Id |-> "absent"]

IndexTypeOK ==
    /\ active \in Seg /\ fill \in 0 .. SegSlots
    /\ files \subseteq Seg /\ sealed \subseteq Seg
    /\ cells \in [Slot -> Vec \cup {Zero}]
    /\ table \in [Id -> Slot \cup {None}] /\ cache \in [Id -> Slot \cup {None}]
    /\ node \in [Id -> NodeState] /\ entry \in Id \cup {None}
    /\ snap = None \/ snap \in [node : [Id -> NodeState], entry : Id \cup {None}]

(* VectorIndex::open in an empty directory.                                 *)
IndexInit ==
    /\ active = 0 /\ fill = 0 /\ files = {0} /\ sealed = {}
    /\ cells = [l \in Slot |-> Zero]
    /\ table = [i \in Id |-> None] /\ cache = [i \in Id |-> None]
    /\ node = EmptyGraph /\ entry = None /\ snap = None

-----------------------------------------------------------------------------
(* Segments                                                                 *)

NextSlot == active * SegSlots + fill

(* VecSegmentPool::append of n vectors: vecs[s] goes to slot s, the first   *)
(* to NextSlot; a full segment is sealed, cached and the next one created.  *)
AppendAll(vecs) ==
    LET n == Cardinality(DOMAIN vecs)
        last == NextSlot + n - 1
    IN  /\ last < MaxVecSegs * SegSlots
        /\ cells' = [l \in Slot |-> IF l \in DOMAIN vecs THEN vecs[l] ELSE cells[l]]
        /\ IF n = 0 THEN UNCHANGED <<active, fill, files, sealed>>
           ELSE /\ active' = Segment(last)
                /\ fill' = (last % SegSlots) + 1
                /\ files' = files \cup (active + 1 .. Segment(last))
                /\ sealed' = sealed \cup (active .. Segment(last) - 1)

\* vec_slice / read_vec of a slot: mapped already, or its file can be mapped.
Readable(l) == Segment(l) \in {active} \cup sealed \cup files

\* The mappings cached by reading the slots in L.
Cached(L) == {Segment(l) : l \in {m \in L : Readable(m)}} \ {active}

\* The locator vec_slice uses: the one in memory, else the one in heed.
LocatorOf(i) == IF cache[i] # None THEN cache[i] ELSE table[i]

\* Slots of the ids in S that have one.
SlotsOf(S) == {LocatorOf(i) : i \in S} \ {None}

ReadFails(i) == LocatorOf(i) = None \/ ~Readable(LocatorOf(i))

-----------------------------------------------------------------------------
(* insert, insert_batch, delete, reads, checkpoint                          *)

ItemIds(items) == {items[n].id : n \in DOMAIN items}

\* The uniqueness check against the table.
Duplicates(items) == \E i \in ItemIds(items) : table[i] # None

\* The slot the last item with id i goes to (put_locator overwrites).
ItemSlot(items, i) == NextSlot + Max({n \in DOMAIN items : items[n].id = i}) - 1

(* First half: append the vectors, write the locators, commit.  The write   *)
(* transaction and the pool lock make it one step.                          *)
InsertCommit(items) ==
    LET put(t) == [i \in Id |-> IF i \in ItemIds(items) THEN ItemSlot(items, i) ELSE t[i]]
    IN  /\ ~Duplicates(items)
        /\ AppendAll([l \in NextSlot .. NextSlot + Len(items) - 1 |-> items[l - NextSlot + 1].vec])
        /\ table' = put(table) /\ cache' = put(cache)
        /\ UNCHANGED <<graphVars, snap>>

\* The items NswGraph::insert rejects because their id is in the graph already.
LinkRejects(items) ==
    {n \in DOMAIN items : node[items[n].id] # "absent"
                             \/ \E m \in 1 .. n - 1 : items[m].id = items[n].id}

(* Second half: NswGraph::insert for each item, under the graph lock, until *)
(* one is rejected.  The distance closure reads any nodes.                  *)
InsertLink(items) ==
    LET done == {n \in DOMAIN items : \A s \in LinkRejects(items) : n < s}
        new == {items[n].id : n \in done}
    IN  /\ node' = [i \in Id |-> IF i \in new THEN "live" ELSE node[i]]
        /\ entry' = IF entry = None /\ new # {} THEN items[1].id ELSE entry
        /\ \E visited \in SUBSET {i \in Id : node[i] # "absent"} :
               sealed' = sealed \cup Cached(SlotsOf(visited))
        /\ UNCHANGED <<active, fill, files, cells, table, cache, snap>>

(* delete: the node is flagged; locator and vector stay.                    *)
SoftDelete(i) ==
    /\ node' = [node EXCEPT ![i] = IF @ = "live" THEN "deleted" ELSE @]
    /\ UNCHANGED <<poolVars, table, cache, entry, snap>>

(* search_knn and get_vector: what they visit gets mapped.                  *)
ReadVectors(visited) ==
    /\ visited # {} /\ \A i \in visited : node[i] # "absent"
    /\ sealed' = sealed \cup Cached(SlotsOf(visited))
    /\ cache' = [i \in Id |-> IF i \in visited THEN LocatorOf(i) ELSE cache[i]]
    /\ UNCHANGED <<active, fill, files, cells, table, graphVars, snap>>

(* get_vector: None for an id that is absent or deleted, else what its slot *)
(* holds or an error.                                                       *)
GetVector(i) ==
    CASE node[i] # "live" -> None
      [] node[i] = "live" /\ ReadFails(i) -> "error"
      [] OTHER -> cells[LocatorOf(i)]

(* checkpoint: snapshot of the graph, written under another name and        *)
(* renamed, then the active segment is flushed.                             *)
SnapshotGraph ==
    /\ snap' = [node |-> node, entry |-> entry]
    /\ UNCHANGED <<poolVars, table, cache, graphVars>>

-----------------------------------------------------------------------------
(* open, reopen                                                             *)

\* snapshot::load refuses a graph whose entry point is deleted.
SnapshotRefused == snap # None /\ snap.entry # None /\ snap.node[snap.entry] = "deleted"

LoadedNodes == IF snap = None THEN EmptyGraph ELSE snap.node
LoadedEntry == IF snap = None THEN None ELSE snap.entry

Located == {i \in Id : table[i] # None}
LiveCount(nodes) == Cardinality({i \in Id : nodes[i] = "live"})

\* Seeded fault: one missing node is tolerated.
MustRebuildLate ==
    LiveCount(IF SnapshotRefused THEN EmptyGraph ELSE LoadedNodes) + 1 < Cardinality(Located)

\* reopen: fewer live nodes than locators.
MustRebuild == LiveCount(IF SnapshotRefused THEN EmptyGraph ELSE LoadedNodes) < Cardinality(Located)

\* Seeded fault: the last segment is opened for writing again.
NewSegmentLast == IF files = {} THEN 0 ELSE Max(files)

(* VecSegmentPool::open: a new segment behind the last file; no mapping but *)
(* its own is cached.  A file created later, like this one, is zero-filled. *)
NewSegment == IF files = {} THEN 0 ELSE Max(files) + 1

OpenPool(mapped) ==
    /\ NewSegment \in Seg
    /\ active' = NewSegment /\ fill' = 0
    /\ files' = files \cup {NewSegment}
    /\ cells' = [l \in Slot |-> IF Segment(l) \in files THEN cells[l] ELSE Zero]
    /\ sealed' = mapped
    /\ cache' = table
    /\ UNCHANGED <<table, snap>>

OnDisk(l) == Segment(l) \in files \cup {NewSegment}

(* VectorIndex::open: the snapshot as it is.                                *)
OpenWithSchema ==
    /\ ~SnapshotRefused
    /\ OpenPool({})
    /\ node' = LoadedNodes /\ entry' = LoadedEntry

OpenWithSchemaFails == SnapshotRefused

(* VectorIndex::reopen: a refused snapshot counts as an empty graph; with   *)
(* fewer live nodes than locators the graph is built anew from all of them. *)
Reopen ==
    \/ /\ ~MustRebuild
       /\ OpenPool({})
       /\ node' = IF SnapshotRefused THEN EmptyGraph ELSE LoadedNodes
       /\ entry' = IF SnapshotRefused THEN None ELSE LoadedEntry
    \/ /\ MustRebuild
       /\ \A i \in Located : OnDisk(table[i])
       /\ OpenPool({Segment(table[i]) : i \in Located} \ {NewSegment})
       /\ node' = [i \in Id |-> IF i \in Located THEN "live" ELSE "absent"]
       /\ entry' \in Located

\* Seeded fault: an index without a snapshot does not open.
ReopenFailsUnsaved == snap = None \/ (MustRebuild /\ \E i \in Located : ~OnDisk(table[i]))

ReopenFails == MustRebuild /\ \E i \in Located : ~OnDisk(table[i])

-----------------------------------------------------------------------------
(* compact, reclaim_segments                                                *)

\* all_seg_ids: the mapped sealed segments and the active one.
AllSegIds == sealed \cup {active}

\* Located vectors whose node is not flagged.
Survivors == {i \in Located : node[i] # "deleted"}

ScanFails == \E i \in Survivors : ~Readable(table[i])

\* Steps 1 and 2: the survivors are read from their slots.
ScanSurvivors ==
    /\ ~ScanFails
    /\ sealed' = sealed \cup Cached({table[i] : i \in Survivors})
    /\ UNCHANGED <<active, fill, files, cells, table, cache, graphVars, snap>>

\* Seeded fault: every vector gets the slot of the first.
CopySlotFirst(live, i) == NextSlot

\* Where step 3 puts the vector of i, in the key order of the table.
CopySlot(live, i) == NextSlot + Cardinality({j \in DOMAIN live : j < i})

\* Step 3: the vectors (live: id -> vector) are appended to the pool.
AppendCopies(live) ==
    /\ AppendAll([l \in {CopySlot(live, i) : i \in DOMAIN live} |->
                      live[CHOOSE i \in DOMAIN live : CopySlot(live, i) = l]])
    /\ UNCHANGED <<table, cache, graphVars, snap>>

\* Seeded fault: the old locators are not deleted.
SwitchLocatorsKeeping(locs) ==
    /\ table' = [i \in Id |-> IF i \in DOMAIN locs THEN locs[i] ELSE table[i]]
    /\ cache' = [i \in Id |-> IF i \in DOMAIN locs THEN locs[i] ELSE cache[i]]
    /\ UNCHANGED <<poolVars, graphVars, snap>>

\* Step 5: one transaction deletes every locator and writes the new ones
\* (locs: id -> slot); put_locator updates the copy in memory.
SwitchLocators(locs) ==
    /\ table' = [i \in Id |-> IF i \in DOMAIN locs THEN locs[i] ELSE None]
    /\ cache' = [i \in Id |-> IF i \in DOMAIN locs THEN locs[i] ELSE cache[i]]
    /\ UNCHANGED <<poolVars, graphVars, snap>>

\* Step 6: the graph of the copied vectors (step 4) becomes the graph; the
\* map it was built from has no order, so any of them may be the entry point.
SwitchGraph(ids) ==
    /\ node' = [i \in Id |-> IF i \in ids THEN "live" ELSE "absent"]
    /\ entry' \in IF ids = {} THEN {None} ELSE ids
    /\ UNCHANGED <<poolVars, table, cache, snap>>

\* Step 6.1.
ReplaceCache(locs) ==
    /\ cache' = [i \in Id |-> IF i \in DOMAIN locs THEN locs[i] ELSE None]
    /\ UNCHANGED <<poolVars, table, graphVars, snap>>

(* reclaim_segments: no mapping is in use, so every file of old is removed  *)
(* and its mapping dropped.                                                 *)
RemoveSegments(old) ==
    /\ files' = files \ old
    /\ sealed' = sealed \ old
    /\ UNCHANGED <<active, fill, cells, table, cache, graphVars, snap>>

=============================================================================
