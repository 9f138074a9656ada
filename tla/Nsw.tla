--------------------------------- MODULE Nsw -----------------------------------
(***************************************************************************)
(* NswGraph of vector/nsw.rs: the single-layer graph search_knn walks.     *)
(* Distances are left open: every order of the candidates may come out of  *)
(* a search.  search_layer stops early only when it has EF_CONSTRUCTION    *)
(* results; M is smaller, so the first M candidates are M of the live      *)
(* nodes the entry point leads to, or all of them.                         *)
(***************************************************************************)
EXTENDS Integers, Sequences, FiniteSets, SequencesExt

CONSTANTS
    Node,     \* ids
    M,        \* neighbours a new node is linked to
    Deletes,  \* whether nodes are deleted
    None

ASSUME NswAssumption ==
    /\ IsFiniteSet(Node) /\ None \notin Node
    /\ M \in Nat \ {0} /\ Deletes \in BOOLEAN

VARIABLES
    nodes,      \* ids in the graph
    deleted,    \* those flagged
    neighbors,  \* adjacency lists
    entry       \* entry_point, or None

vars == <<nodes, deleted, neighbors, entry>>

MaxNeighbors == 2 * M

TypeOK ==
    /\ deleted \subseteq nodes /\ nodes \subseteq Node
    /\ neighbors \in [Node -> Seq(Node)]
    /\ \A n \in Node : Len(neighbors[n]) <= MaxNeighbors
    /\ entry \in Node \cup {None}

Init ==
    /\ nodes = {} /\ deleted = {} /\ entry = None
    /\ neighbors = [n \in Node |-> <<>>]

-----------------------------------------------------------------------------
\* No link leads out of S.
Closed(S) == \A n \in S : ToSet(neighbors[n]) \subseteq S

\* What search_layer visits, given room for enough results: what the entry point leads
\* to, through deleted nodes too.
Visited ==
    LET reached == {S \in SUBSET Node : entry \in S /\ Closed(S)}
    IN  {n \in Node : entry # None /\ \A S \in reached : n \in S}

\* What it returns: deleted nodes are left out.
SearchLayer == Visited \ deleted

\* The first M of the candidates, for every order of theirs.
Chosen(S) ==
    LET n == IF Cardinality(S) < M THEN Cardinality(S) ELSE M
    IN  {p \in [1 .. n -> S] : IsInjective(p)}

\* Seeded fault: the oldest links are dropped.
TruncateOldest(list, n) == IF Len(list) <= n THEN list ELSE SubSeq(list, Len(list) - n + 1, Len(list))

Truncate(list, n) == IF Len(list) <= n THEN list ELSE SubSeq(list, 1, n)

\* Seeded fault: the list is truncated to M.
BackLinkShort(list, id) == Truncate(Append(list, id), M)

\* The link back to id: push, then truncate.
BackLink(list, id) == Truncate(Append(list, id), MaxNeighbors)

\* Seeded fault: the entry point is set, the node is not stored.
InsertFirstUnstored(id) ==
    /\ id \notin nodes /\ entry = None
    /\ entry' = id
    /\ UNCHANGED <<nodes, deleted, neighbors>>

(* insert                                                                   *)
InsertFirst(id) ==
    /\ id \notin nodes /\ entry = None
    /\ entry' = id /\ nodes' = nodes \cup {id}
    /\ UNCHANGED <<deleted, neighbors>>

InsertLinked(id) ==
    /\ id \notin nodes /\ entry # None
    /\ \E p \in Chosen(SearchLayer) :
           neighbors' = [n \in Node |-> IF n = id THEN p
                                        ELSE IF n \in ToSet(p) THEN BackLink(neighbors[n], id)
                                        ELSE neighbors[n]]
    /\ nodes' = nodes \cup {id}
    /\ UNCHANGED <<deleted, entry>>

(* delete: a flag; edges and entry point stay.                              *)
Delete(id) ==
    /\ Deletes /\ id \in nodes \ deleted
    /\ deleted' = deleted \cup {id}
    /\ UNCHANGED <<nodes, neighbors, entry>>

Next == \E id \in Node : InsertFirst(id) \/ InsertLinked(id) \/ Delete(id)

Spec == Init /\ [][Next]_vars

-----------------------------------------------------------------------------
(* Properties                                                               *)

\* No edge leads out of the graph and a graph has an entry point: the part of
\* validate_edges that decides whether a snapshot can be loaded (nsw.rs:298).
EdgesValid ==
    /\ \A n \in Node : ToSet(neighbors[n]) \subseteq nodes
    /\ nodes # {} => entry \in nodes

\* What a search reached it reaches ever after: neither truncating the list of a
\* neighbour nor deleting nodes cuts off a vector that search_knn could find.
StaysVisited == [][Visited \subseteq Visited']_vars

\* Every live vector is found by a search that asks for enough results.
AllFound == nodes \ deleted \subseteq Visited

\* That holds as long as nothing was deleted and no list can have been truncated.
AllFoundWhileSmall == deleted = {} /\ Cardinality(nodes) <= MaxNeighbors + 1 => AllFound

=============================================================================
