------------------------------- MODULE NswProofs -------------------------------
(***************************************************************************)
(* The proximity graph, for every set of ids and every M: edges stay       *)
(* inside the graph, a search keeps reaching what it reached, and every    *)
(* node is found while nothing was deleted and no list can be full.        *)
(*                                                                         *)
(* The last one needs to know why no list is full: a list is shorter than  *)
(* the graph is large (ListsShort), because each insertion adds one node   *)
(* and at most one link to a list.  What a search reaches is the least     *)
(* closed set around the entry point, so reaching more follows from having *)
(* more links, without an induction over the hops.                         *)
(***************************************************************************)
EXTENDS Nsw, FiniteSetTheorems, SequenceTheorems, TLAPS

-----------------------------------------------------------------------------
(* The inductive invariant                                                  *)

\* A node that is not in the graph has no links, and there is an entry point as soon
\* as there is a node.
Outside ==
    /\ \A n \in Node \ nodes : neighbors[n] = <<>>
    /\ entry = None <=> nodes = {}

\* A node has fewer links than the graph has nodes.
ListsShort == \A n \in nodes : Len(neighbors[n]) < Cardinality(nodes)

GraphInv == TypeOK /\ EdgesValid /\ Outside /\ ListsShort /\ AllFoundWhileSmall

-----------------------------------------------------------------------------
(* Lists and reachability                                                   *)

\* The link back: at most one link more, the new one unless the list is full, and never
\* one less.
LEMMA BackLinkFacts ==
    ASSUME NEW list \in Seq(Node), Len(list) <= MaxNeighbors, NEW id \in Node
    PROVE  /\ BackLink(list, id) \in Seq(Node)
           /\ Len(BackLink(list, id)) <= MaxNeighbors
           /\ Len(BackLink(list, id)) <= Len(list) + 1
           /\ ToSet(list) \subseteq ToSet(BackLink(list, id))
           /\ ToSet(BackLink(list, id)) \subseteq ToSet(list) \cup {id}
           /\ Len(list) < MaxNeighbors => id \in ToSet(BackLink(list, id))
<1> DEFINE long == Append(list, id)
<1>0. MaxNeighbors \in Nat /\ Len(list) \in Nat
  BY NswAssumption, LenProperties DEF MaxNeighbors
<1>1. /\ long \in Seq(Node) /\ Len(long) = Len(list) + 1
      /\ DOMAIN long = 1 .. Len(list) + 1 /\ DOMAIN list = 1 .. Len(list)
      /\ \A i \in 1 .. Len(list) : long[i] = list[i]
      /\ long[Len(list) + 1] = id
  BY AppendProperties, LenProperties
<1>2. CASE Len(list) < MaxNeighbors
  <2>1. BackLink(list, id) = long
    BY <1>0, <1>1, <1>2 DEF BackLink, Truncate
  <2> HIDE DEF long
  <2> QED
    BY <2>1, <1>0, <1>1, <1>2 DEF ToSet
<1>3. CASE Len(list) = MaxNeighbors
  <2>1. BackLink(list, id) = SubSeq(long, 1, MaxNeighbors)
    BY <1>0, <1>1, <1>3 DEF BackLink, Truncate
  <2>2. SubSeq(long, 1, MaxNeighbors) = list
    <3> HIDE DEF long
    <3>1. /\ SubSeq(long, 1, MaxNeighbors) \in Seq(Node)
          /\ Len(SubSeq(long, 1, MaxNeighbors)) = MaxNeighbors
          /\ \A i \in 1 .. MaxNeighbors : SubSeq(long, 1, MaxNeighbors)[i] = long[i]
      BY <1>0, <1>1, <1>3
    <3> QED
      BY <3>1, <1>0, <1>1, <1>3, SeqEqual
  <2>3. BackLink(list, id) = list
    BY <2>1, <2>2, Zenon
  <2> QED
    BY <2>3, <1>0, <1>3
<1> QED
  BY <1>0, <1>2, <1>3

\* What is reached contains the entry point and is closed under links.
LEMMA VisitedFacts ==
    ASSUME TypeOK, EdgesValid, entry # None
    PROVE  /\ entry \in Visited /\ Visited \subseteq Node
           /\ \A n \in Visited : ToSet(neighbors[n]) \subseteq Visited
           /\ nodes # {} => Visited \subseteq nodes
  BY Zenon DEF Visited, Closed, TypeOK, EdgesValid

\* The same of the graph after a step.
LEMMA VisitedFactsPrimed ==
    ASSUME TypeOK', EdgesValid', entry' # None
    PROVE  /\ entry' \in Visited'
           /\ \A n \in Visited' : ToSet(neighbors'[n]) \subseteq Visited'
<1>1. \A n \in Node : ToSet(neighbors'[n]) \subseteq Node
  BY DEF TypeOK, EdgesValid
<1> QED
  BY <1>1, Zenon DEF Visited, Closed, TypeOK

\* More links and the same entry point: nothing is lost.
LEMMA VisitedGrows ==
    ASSUME entry # None => entry' = entry /\ entry' # None,
           \A n \in Node : ToSet(neighbors[n]) \subseteq ToSet(neighbors'[n])
    PROVE  Visited \subseteq Visited'
  BY DEF Visited, Closed

\* The neighbours of a new node: a list of at most M nodes that the search returned, and
\* not an empty one if it returned any.
LEMMA ChosenFacts ==
    ASSUME NEW S, S \subseteq Node, NEW p \in Chosen(S)
    PROVE  /\ p \in Seq(Node) /\ Len(p) <= MaxNeighbors /\ Len(p) <= Cardinality(S)
           /\ ToSet(p) \subseteq S
           /\ S # {} => \E n \in S : n \in ToSet(p)
<1>1. IsFiniteSet(S) /\ Cardinality(S) \in Nat /\ M \in Nat \ {0}
  BY NswAssumption, FS_Subset, FS_CardinalityType
<1> DEFINE n == IF Cardinality(S) < M THEN Cardinality(S) ELSE M
<1>2. n \in Nat /\ n <= Cardinality(S) /\ n <= MaxNeighbors /\ (Cardinality(S) # 0 => n >= 1)
  BY <1>1 DEF MaxNeighbors
<1>3. p \in [1 .. n -> S]
  BY DEF Chosen
<1> HIDE DEF n
<1>4. p \in Seq(Node) /\ Len(p) = n /\ DOMAIN p = 1 .. n
  BY <1>2, <1>3, IsASeq
<1>5. S # {} => Cardinality(S) # 0
  BY <1>1, FS_EmptySet
<1> QED
  BY <1>2, <1>3, <1>4, <1>5 DEF ToSet

-----------------------------------------------------------------------------
(* One step                                                                 *)

\* What InsertLinked(id) does to the links: id gets a list p of live nodes that were
\* reached, each of them a link back to id, and no list loses a link.
LEMMA InsertLinkedFacts ==
    ASSUME GraphInv, NEW id \in Node, InsertLinked(id)
    PROVE  /\ \E p \in Seq(Node) :
                /\ Len(p) <= MaxNeighbors /\ Len(p) <= Cardinality(nodes)
                /\ ToSet(p) \subseteq nodes
                /\ neighbors'[id] = p
                /\ \A n \in Node \ {id} :
                      neighbors'[n] = IF n \in ToSet(p) THEN BackLink(neighbors[n], id) ELSE neighbors[n]
                /\ SearchLayer # {} => \E n \in SearchLayer : n \in ToSet(p)
           /\ neighbors' = [n \in Node |-> neighbors'[n]]
           /\ SearchLayer \subseteq nodes
<1>1. TypeOK /\ EdgesValid /\ Outside /\ entry # None /\ nodes # {}
  BY DEF GraphInv, InsertLinked, Outside
<1>2. SearchLayer \subseteq nodes
  BY <1>1, VisitedFacts DEF SearchLayer
<1>3. PICK p \in Chosen(SearchLayer) :
          neighbors' = [n \in Node |-> IF n = id THEN p
                                       ELSE IF n \in ToSet(p) THEN BackLink(neighbors[n], id)
                                       ELSE neighbors[n]]
  BY DEF InsertLinked
<1>4. /\ p \in Seq(Node) /\ Len(p) <= MaxNeighbors /\ Len(p) <= Cardinality(SearchLayer)
      /\ ToSet(p) \subseteq SearchLayer
      /\ SearchLayer # {} => \E n \in SearchLayer : n \in ToSet(p)
  BY <1>1, <1>2, ChosenFacts, Zenon DEF TypeOK
<1>5. /\ Cardinality(SearchLayer) <= Cardinality(nodes)
      /\ Cardinality(SearchLayer) \in Nat /\ Cardinality(nodes) \in Nat /\ Len(p) \in Nat
  <2>1. IsFiniteSet(nodes)
    BY <1>1, NswAssumption, FS_Subset DEF TypeOK
  <2>2. IsFiniteSet(SearchLayer)
    BY <2>1, <1>2, FS_Subset
  <2> QED
    BY <2>1, <2>2, <1>2, <1>4, FS_Subset, FS_CardinalityType, LenProperties
<1>6. Len(p) <= Cardinality(nodes)
  BY <1>4, <1>5
<1> QED
  BY <1>2, <1>3, <1>4, <1>6

\* The steps of the graph keep everything but the reachability.
LEMMA StructureStep ==
    ASSUME GraphInv, NEW id \in Node, InsertFirst(id) \/ InsertLinked(id) \/ Delete(id)
    PROVE  TypeOK' /\ EdgesValid' /\ Outside' /\ ListsShort'
<1>t. TypeOK /\ EdgesValid /\ Outside /\ ListsShort
  BY DEF GraphInv
<1>f. IsFiniteSet(nodes) /\ Cardinality(nodes) \in Nat /\ MaxNeighbors \in Nat
  BY <1>t, NswAssumption, FS_Subset, FS_CardinalityType DEF TypeOK, MaxNeighbors
<1>g. id \notin nodes => Cardinality(nodes \cup {id}) = Cardinality(nodes) + 1
  BY <1>f, FS_AddElement, Zenon
<1>1. CASE InsertFirst(id)
  <2>1. nodes = {} /\ nodes' = {id} /\ entry' = id /\ neighbors' = neighbors /\ deleted' = deleted
    BY <1>1, <1>t DEF InsertFirst, Outside
  <2>2. \A n \in Node : neighbors[n] = <<>>
    BY <2>1, <1>t DEF Outside
  <2>3. Len(neighbors[id]) = 0 /\ Cardinality(nodes') = 1
    BY <2>1, <2>2, FS_Singleton, EmptySeq, Zenon
  <2> QED
    <3>1. TypeOK' /\ Outside'
      BY <2>1, <2>2, <1>t, NswAssumption DEF TypeOK, Outside
    <3>2. EdgesValid'
      BY <2>1, <2>2 DEF EdgesValid, ToSet
    <3>3. ListsShort'
      BY <2>1, <2>3 DEF ListsShort
    <3> QED
      BY <3>1, <3>2, <3>3
<1>2. CASE InsertLinked(id)
  <2>0. /\ id \notin nodes /\ nodes' = nodes \cup {id} /\ entry' = entry /\ deleted' = deleted
        /\ entry # None /\ nodes # {}
    BY <1>2, <1>t DEF InsertLinked, Outside
  <2>1. PICK p \in Seq(Node) :
            /\ Len(p) <= MaxNeighbors /\ Len(p) <= Cardinality(nodes)
            /\ ToSet(p) \subseteq nodes
            /\ neighbors'[id] = p
            /\ \A n \in Node \ {id} :
                  neighbors'[n] = IF n \in ToSet(p) THEN BackLink(neighbors[n], id) ELSE neighbors[n]
    BY <1>2, InsertLinkedFacts
  <2>2. \A n \in Node : neighbors[n] \in Seq(Node) /\ Len(neighbors[n]) <= MaxNeighbors
    BY <1>t DEF TypeOK
  <2>3. \A n \in Node \ {id} :
            /\ neighbors'[n] \in Seq(Node) /\ Len(neighbors'[n]) <= MaxNeighbors
            /\ Len(neighbors'[n]) <= Len(neighbors[n]) + 1
            /\ ToSet(neighbors'[n]) \subseteq ToSet(neighbors[n]) \cup {id}
    <3> SUFFICES ASSUME NEW n \in Node \ {id}
                 PROVE  /\ neighbors'[n] \in Seq(Node) /\ Len(neighbors'[n]) <= MaxNeighbors
                        /\ Len(neighbors'[n]) <= Len(neighbors[n]) + 1
                        /\ ToSet(neighbors'[n]) \subseteq ToSet(neighbors[n]) \cup {id}
      BY Zenon
    <3>1. CASE n \in ToSet(p)
      <4>1. neighbors'[n] = BackLink(neighbors[n], id)
        BY <3>1, <2>1
      <4>2. neighbors[n] \in Seq(Node) /\ Len(neighbors[n]) <= MaxNeighbors
        BY <2>2
      <4>3. /\ BackLink(neighbors[n], id) \in Seq(Node)
            /\ Len(BackLink(neighbors[n], id)) <= MaxNeighbors
            /\ Len(BackLink(neighbors[n], id)) <= Len(neighbors[n]) + 1
            /\ ToSet(BackLink(neighbors[n], id)) \subseteq ToSet(neighbors[n]) \cup {id}
        BY <4>2, BackLinkFacts, Zenon
      <4> QED
        BY <4>1, <4>3, Zenon
    <3>2. CASE n \notin ToSet(p)
      <4>1. neighbors'[n] = neighbors[n] /\ Len(neighbors[n]) \in Nat
        BY <3>2, <2>1, <2>2, LenProperties
      <4> QED
        BY <4>1, <2>2
    <3> QED
      BY <3>1, <3>2
  <2>4. TypeOK'
    BY <2>0, <2>1, <2>3, <1>2, <1>t, InsertLinkedFacts DEF TypeOK
  <2>5. EdgesValid'
    BY <2>0, <2>1, <2>3, <1>t, Zenon DEF EdgesValid
  <2>6. Outside'
    BY <2>0, <2>1, <1>t DEF Outside
  <2>7. ListsShort'
    <3> SUFFICES ASSUME NEW n \in nodes' PROVE Len(neighbors'[n]) < Cardinality(nodes) + 1
      BY <2>0, <1>g DEF ListsShort
    <3>1. CASE n = id
      BY <3>1, <2>1, <1>f, LenProperties
    <3>2. CASE n # id
      <4>1. n \in nodes /\ n \in Node \ {id} /\ Len(neighbors[n]) < Cardinality(nodes)
        BY <3>2, <2>0, <1>t DEF ListsShort, TypeOK
      <4>2. Len(neighbors[n]) \in Nat /\ Len(neighbors'[n]) \in Nat
        BY <4>1, <2>2, <2>3, LenProperties
      <4> QED
        BY <4>1, <4>2, <2>3, <1>f
    <3> QED
      BY <3>1, <3>2
  <2> QED
    BY <2>4, <2>5, <2>6, <2>7
<1>3. CASE Delete(id)
  BY <1>3, <1>t DEF Delete, TypeOK, EdgesValid, Outside, ListsShort
<1> QED
  BY <1>1, <1>2, <1>3

\* What was reached is reached after the step.
LEMMA VisitedStep ==
    ASSUME GraphInv, NEW id \in Node, InsertFirst(id) \/ InsertLinked(id) \/ Delete(id)
    PROVE  Visited \subseteq Visited'
<1>t. TypeOK /\ EdgesValid /\ Outside
  BY DEF GraphInv
<1>1. CASE InsertFirst(id)
  BY <1>1 DEF InsertFirst, Visited
<1>2. CASE InsertLinked(id)
  <2>1. id \notin nodes /\ entry # None /\ entry' = entry
    BY <1>2 DEF InsertLinked
  <2>2. PICK p \in Seq(Node) :
            \A n \in Node \ {id} :
                neighbors'[n] = IF n \in ToSet(p) THEN BackLink(neighbors[n], id) ELSE neighbors[n]
    BY <1>2, InsertLinkedFacts
  <2>3. ToSet(neighbors[id]) = {}
    BY <2>1, <1>t DEF Outside, ToSet
  <2>4. \A n \in Node : ToSet(neighbors[n]) \subseteq ToSet(neighbors'[n])
    BY <2>2, <2>3, <1>t, BackLinkFacts, Zenon DEF TypeOK
  <2> QED
    BY <2>1, <2>4, VisitedGrows
<1>3. CASE Delete(id)
  BY <1>3, VisitedGrows DEF Delete
<1> QED
  BY <1>1, <1>2, <1>3

\* A node inserted while no list is full is reached by the link back from a node that
\* was reached.
LEMMA FoundStep ==
    ASSUME GraphInv, NEW id \in Node, InsertFirst(id) \/ InsertLinked(id) \/ Delete(id)
    PROVE  AllFoundWhileSmall'
<1>t. TypeOK /\ EdgesValid /\ Outside /\ ListsShort /\ AllFoundWhileSmall
  BY DEF GraphInv
<1>s. TypeOK' /\ EdgesValid' /\ Visited \subseteq Visited'
  BY StructureStep, VisitedStep
<1>f. IsFiniteSet(nodes) /\ Cardinality(nodes) \in Nat /\ MaxNeighbors \in Nat
  BY <1>t, NswAssumption, FS_Subset, FS_CardinalityType DEF TypeOK, MaxNeighbors
<1>v. entry' # None => /\ entry' \in Visited'
                       /\ \A n \in Visited' : ToSet(neighbors'[n]) \subseteq Visited'
  BY <1>s, VisitedFactsPrimed
<1>1. CASE InsertFirst(id)
  <2>1. nodes' = {id} /\ entry' = id
    BY <1>1, <1>t DEF InsertFirst, Outside
  <2> QED
    BY <2>1, <1>v, NswAssumption DEF AllFoundWhileSmall, AllFound
<1>2. CASE InsertLinked(id)
  <2> SUFFICES ASSUME deleted' = {}, Cardinality(nodes') <= MaxNeighbors + 1
               PROVE  nodes' \subseteq Visited'
    BY DEF AllFoundWhileSmall, AllFound
  <2>0. /\ id \notin nodes /\ nodes' = nodes \cup {id} /\ entry' = entry /\ deleted = {}
        /\ entry # None /\ nodes # {}
    BY <1>2, <1>t DEF InsertLinked, Outside
  <2>1. Cardinality(nodes) <= MaxNeighbors
    <3>1. Cardinality(nodes') = Cardinality(nodes) + 1
      BY <2>0, <1>f, FS_AddElement
    <3> QED
      BY <3>1, <1>f
  <2>2. nodes \subseteq Visited
    BY <2>0, <2>1, <1>f, <1>t DEF AllFoundWhileSmall, AllFound
  <2>3. SearchLayer # {} /\ SearchLayer \subseteq nodes
    BY <2>0, <2>2, <1>2, InsertLinkedFacts DEF SearchLayer
  <2>4. PICK p \in Seq(Node) :
            /\ \A n \in Node \ {id} :
                  neighbors'[n] = IF n \in ToSet(p) THEN BackLink(neighbors[n], id) ELSE neighbors[n]
            /\ SearchLayer # {} => \E n \in SearchLayer : n \in ToSet(p)
    BY <1>2, InsertLinkedFacts
  <2>5. PICK n \in SearchLayer : n \in ToSet(p)
    BY <2>3, <2>4
  <2>6. n \in nodes /\ n \in Node \ {id} /\ n \in Visited'
    BY <2>0, <2>2, <2>3, <1>s, <1>t DEF TypeOK
  <2>7. /\ neighbors[n] \in Seq(Node) /\ Len(neighbors[n]) \in Nat
        /\ Len(neighbors[n]) <= MaxNeighbors /\ Len(neighbors[n]) < MaxNeighbors
    <3>1. neighbors[n] \in Seq(Node) /\ Len(neighbors[n]) <= MaxNeighbors /\ Len(neighbors[n]) < Cardinality(nodes)
      BY <2>6, <1>t DEF TypeOK, ListsShort
    <3> QED
      BY <3>1, <2>1, <1>f, LenProperties
  <2>8. id \in ToSet(neighbors'[n])
    BY <2>4, <2>5, <2>6, <2>7, BackLinkFacts
  <2>9. id \in Visited'
    BY <2>0, <2>6, <2>8, <1>v
  <2> QED
    BY <2>0, <2>2, <2>9, <1>s
<1>3. CASE Delete(id)
  <2>1. deleted' # {}
    BY <1>3 DEF Delete
  <2> QED
    BY <2>1 DEF AllFoundWhileSmall
<1> QED
  BY <1>1, <1>2, <1>3

-----------------------------------------------------------------------------
(* Theorems                                                                 *)

\* The inductive invariant of the graph.
THEOREM GraphInvariantHolds == Spec => []GraphInv
<1>1. Init => GraphInv
  <2> SUFFICES ASSUME Init PROVE GraphInv
    OBVIOUS
  <2>1. TypeOK
    <3>1. <<>> \in Seq(Node) /\ Len(<<>>) = 0 /\ MaxNeighbors \in Nat
      BY NswAssumption, EmptySeq DEF MaxNeighbors
    <3> QED
      BY <3>1 DEF Init, TypeOK
  <2>2. EdgesValid /\ Outside /\ ListsShort
    BY DEF Init, EdgesValid, Outside, ListsShort, ToSet
  <2>3. AllFoundWhileSmall
    BY DEF Init, AllFoundWhileSmall, AllFound
  <2> QED
    BY <2>1, <2>2, <2>3 DEF GraphInv
<1>2. GraphInv /\ [Next]_vars => GraphInv'
  <2> SUFFICES ASSUME GraphInv, [Next]_vars PROVE GraphInv'
    OBVIOUS
  <2>1. CASE Next
    BY <2>1, StructureStep, FoundStep DEF Next, GraphInv
  <2>2. CASE UNCHANGED vars
    BY <2>2 DEF vars, GraphInv, TypeOK, EdgesValid, Outside, ListsShort, AllFoundWhileSmall, AllFound,
       Visited, Closed
  <2> QED
    BY <2>1, <2>2
<1> QED
  BY <1>1, <1>2, PTL DEF Spec

\* Edges never lead out of the graph and a graph has an entry point, so a snapshot of it
\* passes validate_edges.
THEOREM EdgesAlwaysValid == Spec => []EdgesValid
<1>1. GraphInv => EdgesValid
  BY DEF GraphInv
<1> QED
  BY <1>1, GraphInvariantHolds, PTL

\* No insertion, truncation or deletion cuts off a node that search_layer visited.
THEOREM VisitedForever == Spec => StaysVisited
<1>1. GraphInv /\ [Next]_vars => [Visited \subseteq Visited']_vars
  <2> SUFFICES ASSUME GraphInv, Next PROVE Visited \subseteq Visited'
    BY DEF vars
  <2> QED
    BY VisitedStep DEF Next
<1> QED
  BY <1>1, GraphInvariantHolds, PTL DEF Spec, StaysVisited

\* While nothing was deleted and the graph has at most 2M + 1 nodes, a search that asks
\* for enough results finds every vector.
THEOREM AllFoundInSmallGraphs == Spec => []AllFoundWhileSmall
<1>1. GraphInv => AllFoundWhileSmall
  BY DEF GraphInv
<1> QED
  BY <1>1, GraphInvariantHolds, PTL

=============================================================================
