------------------------------ MODULE ServeProofs ------------------------------
(***************************************************************************)
(* The four safety invariants of fs-serve, for every number of clients and *)
(* workers, every queue capacity and every number of search permits.       *)
(*                                                                         *)
(* None of the four is inductive by itself.  A worker's answer turns the   *)
(* handler of its request idle, so the counts of handlers at other places  *)
(* stay right only because a request that still has a handler is the only  *)
(* one with that handler, and the handler waits for it (Owned).  The flag  *)
(* of a compaction is lowered by its handler alone, so it covers the task  *)
(* only because there is one such handler at a time (Compacting).          *)
(***************************************************************************)
EXTENDS Serve, FiniteSetTheorems, SequenceTheorems, TLAPS

-----------------------------------------------------------------------------
(* The inductive invariant                                                  *)

Serving(w) == worker[w] \in {"busy", "done", "counted"}

\* A worker has a request exactly while it serves one.
HasRequest == \A w \in Worker : IF Serving(w) THEN req[w] \in Request ELSE req[w] = None

\* The handler of a request waits for it, and for no other request.
Owned ==
    /\ \A n \in DOMAIN queue : queue[n].from # None => pc[queue[n].from] = "await"
    /\ \A w \in Worker : Serving(w) /\ req[w].from # None => pc[req[w].from] = "await"
    /\ \A m, n \in DOMAIN queue : queue[m].from = queue[n].from => m = n \/ queue[m].from = None
    /\ \A v, w \in Worker : Serving(v) /\ Serving(w) /\ req[v].from = req[w].from
                                => v = w \/ req[v].from = None
    /\ \A n \in DOMAIN queue, w \in Worker : Serving(w) /\ queue[n].from = req[w].from
                                => req[w].from = None

CompactHandler(c) == pc[c] \in {"compact", "reset"}

\* One compaction at a time: a task or a handler of one keeps the flag up, there is
\* one handler at most, and it resets the flag after the task.
Compacting ==
    /\ FlagCoversCompaction
    /\ \A c \in Client : CompactHandler(c) => flag
    /\ \A c \in Client : pc[c] = "reset" => job = "none"
    /\ \A c, d \in Client : CompactHandler(c) /\ CompactHandler(d) => c = d

Searching == {c \in Client : pc[c] = "knn"}

ServeInv ==
    /\ TypeOK /\ HasRequest /\ Owned /\ Compacting
    /\ PermitsExact /\ DepthCovers /\ DepthExactUnlessPanic

-----------------------------------------------------------------------------
(* Counting                                                                 *)

\* One element more.
LEMMA CardinalityGrows ==
    ASSUME NEW S, IsFiniteSet(S), NEW x, x \notin S
    PROVE  /\ Cardinality(S \cup {x}) = Cardinality(S) + 1
           /\ Cardinality(S) \in Nat
  BY FS_AddElement, FS_CardinalityType

\* One element less.
LEMMA CardinalityShrinks ==
    ASSUME NEW S, IsFiniteSet(S), NEW x \in S
    PROVE  /\ Cardinality(S \ {x}) = Cardinality(S) - 1
           /\ Cardinality(S) \in Nat /\ Cardinality(S \ {x}) \in Nat
  BY FS_RemoveElement, FS_CardinalityType

\* The sets the counters are compared with are finite.
LEMMA CountedSetsFinite ==
    /\ IsFiniteSet(Enqueueing) /\ Cardinality(Enqueueing) \in Nat
    /\ IsFiniteSet(Uncounted) /\ Cardinality(Uncounted) \in Nat
    /\ IsFiniteSet(Searching) /\ Cardinality(Searching) \in Nat
<1>1. Enqueueing \subseteq Client /\ Searching \subseteq Client /\ Uncounted \subseteq Worker
  BY DEF Enqueueing, Searching, Uncounted
<1>2. IsFiniteSet(Enqueueing)
  BY <1>1, ServeAssumption, FS_Subset
<1>3. IsFiniteSet(Searching)
  BY <1>1, ServeAssumption, FS_Subset
<1>4. IsFiniteSet(Uncounted)
  BY <1>1, ServeAssumption, FS_Subset
<1> QED
  BY <1>2, <1>3, <1>4, FS_CardinalityType

\* A finite set with an element is not counted as empty.
LEMMA CountedPositive ==
    ASSUME NEW S, IsFiniteSet(S), NEW x \in S
    PROVE  Cardinality(S) \in Nat /\ Cardinality(S) >= 1
<1>1. Cardinality(S) \in Nat /\ Cardinality(S \ {x}) \in Nat /\ Cardinality(S \ {x}) = Cardinality(S) - 1
  BY CardinalityShrinks
<1> QED
  BY <1>1

\* While a handler is about to enqueue, or a worker has a request to count down, the
\* depth is positive.
LEMMA DepthPositive ==
    ASSUME TypeOK, DepthCovers, Enqueueing # {} \/ Uncounted # {}
    PROVE  depth - 1 \in Nat
<1>1. Len(queue) \in Nat
  BY LenProperties DEF TypeOK
<1>2. Cardinality(Enqueueing) >= 1 \/ Cardinality(Uncounted) >= 1
  <2>1. CASE Enqueueing # {}
    BY <2>1, CountedPositive, CountedSetsFinite
  <2>2. CASE Uncounted # {}
    BY <2>2, CountedPositive, CountedSetsFinite
  <2> QED
    BY <2>1, <2>2
<1> QED
  BY <1>1, <1>2, CountedSetsFinite DEF DepthCovers, TypeOK

\* While a handler awaits a search, a permit is in use.
LEMMA PermitPositive ==
    ASSUME TypeOK, PermitsExact, Searching # {}
    PROVE  permits - 1 \in Nat
<1>1. Cardinality(Searching) \in Nat /\ Cardinality(Searching) >= 1
  BY CountedPositive, CountedSetsFinite
<1>2. permits = Cardinality(Searching)
  BY DEF PermitsExact, Searching
<1> QED
  BY <1>1, <1>2

\* A request has a handler or none, and concerns keys or vectors.
LEMMA RequestFields ==
    ASSUME NEW r \in Request
    PROVE  r.from \in Client \cup {None} /\ r.kind \in Kind /\ r # None
  BY ServeAssumption DEF Request

\* Cancelling a handler leaves a request a request, which no longer names it.
LEMMA DisownFields ==
    ASSUME NEW r \in Request, NEW c \in Client
    PROVE  /\ Disown(r, c) \in Request
           /\ Disown(r, c).from = IF r.from = c THEN None ELSE r.from
  BY ServeAssumption DEF Request, Disown

\* What sending into the channel makes of its queue.
LEMMA Enqueued ==
    ASSUME NEW S, NEW q \in Seq(S), NEW r \in S
    PROVE  Append(q, r) \in Seq(S) /\ Len(Append(q, r)) = Len(q) + 1 /\ Len(q) \in Nat
  BY AppendProperties, LenProperties, Zenon

-----------------------------------------------------------------------------
(* One step                                                                 *)

\* Types and the workers' requests: a counter is decremented only while it counts
\* something (DepthCovers, PermitsExact).
LEMMA TypeStep ==
    ASSUME ServeInv, Next
    PROVE  TypeOK' /\ HasRequest'
<1> USE ServeAssumption DEF ServeInv, TypeOK, HasRequest, Serving, queueVars, knnVars, compactVars, Goto
<1>1. ASSUME NEW c \in Client, NEW k \in Kind, EnqueueCount(c, k)
      PROVE  TypeOK' /\ HasRequest'
  BY <1>1 DEF EnqueueCount, Sending
<1>2. ASSUME NEW c \in Client, EnqueueFull(c)
      PROVE  TypeOK' /\ HasRequest'
  <2>1. c \in Enqueueing
    BY <1>2 DEF EnqueueFull, Enqueueing
  <2>2. depth - 1 \in Nat
    BY <2>1, DepthPositive
  <2> QED
    BY <1>2, <2>2 DEF EnqueueFull
<1>3. ASSUME NEW c \in Client, NEW k \in Kind, EnqueueSend(c, k)
      PROVE  TypeOK' /\ HasRequest'
  <2>1. [from |-> c, kind |-> k] \in Request
    BY DEF Request
  <2>2. queue' \in Seq(Request) /\ Len(queue') <= QueueCap
    <3>1. \/ queue' = queue
          \/ queue' = Append(queue, [from |-> c, kind |-> k]) /\ Len(queue) < QueueCap
      BY <1>3 DEF EnqueueSend
    <3>2. queue \in Seq(Request) /\ Len(queue) <= QueueCap
      OBVIOUS
    <3>3. Append(queue, [from |-> c, kind |-> k]) \in Seq(Request)
      BY <2>1, <3>2, Enqueued
    <3>4. Len(Append(queue, [from |-> c, kind |-> k])) = Len(queue) + 1 /\ Len(queue) \in Nat
      BY <2>1, <3>2, Enqueued
    <3>5. CASE queue' = queue
      BY <3>2, <3>5
    <3>6. CASE queue' = Append(queue, [from |-> c, kind |-> k]) /\ Len(queue) < QueueCap
      <4>1. Len(queue') = Len(queue) + 1 /\ queue' \in Seq(Request)
        BY <3>3, <3>4, <3>6, Zenon
      <4>2. Len(queue') <= QueueCap
        BY <3>4, <3>6, <4>1
      <4> QED
        BY <4>1, <4>2, Zenon
    <3> QED
      BY <3>1, <3>5, <3>6, Zenon
  <2>3. pc' \in [Client -> {"idle", "send_kv", "send_vec", "full", "await", "knn", "compact", "reset"}]
    BY <1>3 DEF EnqueueSend
  <2> QED
    BY <1>3, <2>2, <2>3 DEF EnqueueSend
<1>4. ASSUME NEW w \in Worker, Take(w)
      PROVE  TypeOK' /\ HasRequest'
  <2>1. Head(queue) \in Request /\ Tail(queue) \in Seq(Request) /\ Len(Tail(queue)) = Len(queue) - 1
    BY <1>4 DEF Take
  <2> QED
    BY <1>4, <2>1 DEF Take
<1>5. ASSUME NEW w \in Worker, Execute(w)
      PROVE  TypeOK' /\ HasRequest'
  BY <1>5 DEF Execute, MayExecute
<1>6. ASSUME NEW w \in Worker, CountDown(w)
      PROVE  TypeOK' /\ HasRequest'
  <2>1. w \in Uncounted
    BY <1>6 DEF CountDown, Uncounted
  <2>2. depth - 1 \in Nat
    BY <2>1, DepthPositive
  <2> QED
    BY <1>6, <2>2 DEF CountDown
<1>7. ASSUME NEW w \in Worker, Reply(w)
      PROVE  TypeOK' /\ HasRequest'
  BY <1>7 DEF Reply, Answer
<1>8. ASSUME NEW w \in Worker, Panic(w)
      PROVE  TypeOK' /\ HasRequest'
  <2>1. queue' \in Seq(Request) /\ Len(queue') <= QueueCap
    BY <1>8, EmptySeq DEF Panic
  <2>2. pc' \in [Client -> {"idle", "send_kv", "send_vec", "full", "await", "knn", "compact", "reset"}]
    BY <1>8 DEF Panic, Answer
  <2> QED
    BY <1>8, <2>1, <2>2 DEF Panic, MayExecute
<1>9. ASSUME NEW c \in Client, KnnStart(c)
      PROVE  TypeOK' /\ HasRequest'
  BY <1>9 DEF KnnStart
<1>10. ASSUME NEW c \in Client, KnnFinish(c)
       PROVE  TypeOK' /\ HasRequest'
  <2>1. permits - 1 \in Nat
    BY <1>10, PermitPositive DEF KnnFinish, Searching
  <2> QED
    BY <1>10, <2>1 DEF KnnFinish
<1>11. ASSUME OrphanFinish
       PROVE  TypeOK' /\ HasRequest'
  BY <1>11 DEF OrphanFinish
<1>12. ASSUME NEW c \in Client, CompactStart(c) \/ CompactReset(c)
       PROVE  TypeOK' /\ HasRequest'
  <2>1. CASE CompactStart(c)
    BY <2>1 DEF CompactStart
  <2>2. CASE CompactReset(c)
    BY <2>2, Zenon DEF CompactReset
  <2> QED
    BY <1>12, <2>1, <2>2
<1>13. ASSUME CompactLock \/ CompactEnd \/ CompactPanic
       PROVE  TypeOK' /\ HasRequest'
  BY <1>13, Zenon DEF CompactLock, CompactEnd, CompactPanic, Answer
<1>14. ASSUME NEW c \in Client, Cancel(c)
       PROVE  TypeOK' /\ HasRequest'
  <2>1. queue' \in Seq(Request) /\ Len(queue') = Len(queue)
    <3>1. queue' = [n \in 1 .. Len(queue) |-> Disown(queue[n], c)] /\ Len(queue) \in Nat
      BY <1>14, LenProperties DEF Cancel
    <3>2. \A n \in 1 .. Len(queue) : queue[n] \in Request
      BY ElementOfSeq
    <3>3. \A n \in 1 .. Len(queue) : Disown(queue[n], c) \in Request
      BY <3>2, DisownFields
    <3> QED
      BY <3>1, <3>3, IsASeq
  <2>2. \A w \in Worker : IF Serving(w) THEN req'[w] \in Request ELSE req'[w] = None
    BY <1>14, DisownFields DEF Cancel, Disown
  <2>3. req' \in [Worker -> Request \cup {None}]
    BY <1>14, <2>2 DEF Cancel
  <2>4. pc[c] = "knn" => permits - 1 \in Nat
    BY PermitPositive DEF Searching
  <2> QED
    BY <1>14, <2>1, <2>2, <2>3, <2>4 DEF Cancel
<1> QED
  BY <1>1, <1>2, <1>3, <1>4, <1>5, <1>6, <1>7, <1>8, <1>9, <1>10, <1>11, <1>12, <1>13, <1>14
  DEF Next, ClientStep, HandlerStep, WorkerStep

\* A step that leaves the requests alone and no waiting handler behind keeps Owned.
LEMMA OwnedUndisturbed ==
    ASSUME TypeOK, HasRequest, Owned, UNCHANGED <<queue, req, worker>>,
           \A c \in Client : pc[c] = "await" => pc'[c] = "await"
    PROVE  Owned'
<1>1. \A n \in DOMAIN queue : queue[n] \in Request
  BY ElementOfSeq DEF TypeOK
<1>2. \A n \in DOMAIN queue : queue[n].from \in Client \cup {None}
  BY <1>1, RequestFields
<1>3. \A w \in Worker : Serving(w) => req[w].from \in Client \cup {None}
  BY RequestFields DEF HasRequest
<1> QED
  BY <1>2, <1>3 DEF Owned, Serving

\* Requests keep their handlers apart: a request enters the queue with a handler that
\* had none, moves from the queue to one worker, and goes with its answer.
LEMMA OwnedStep ==
    ASSUME ServeInv, Next
    PROVE  Owned'
<1> USE DEF queueVars, knnVars, compactVars
<1>t. TypeOK /\ HasRequest /\ Owned
  BY DEF ServeInv
<1>q. \A n \in DOMAIN queue : queue[n] \in Request /\ queue[n].from \in Client \cup {None}
  BY <1>t, ElementOfSeq, RequestFields DEF TypeOK
<1>r. \A w \in Worker : Serving(w) => req[w] \in Request /\ req[w].from \in Client \cup {None}
  BY <1>t, RequestFields DEF HasRequest
<1>1. ASSUME NEW c \in Client, NEW k \in Kind, EnqueueCount(c, k)
      PROVE  Owned'
  BY <1>1, <1>t, OwnedUndisturbed, Zenon DEF EnqueueCount, Goto, TypeOK
<1>2. ASSUME NEW c \in Client, EnqueueFull(c) \/ KnnStart(c) \/ KnnFinish(c) \/ CompactStart(c) \/ CompactReset(c)
      PROVE  Owned'
  BY <1>2, <1>t, OwnedUndisturbed
  DEF EnqueueFull, KnnStart, KnnFinish, CompactStart, CompactReset, Goto, TypeOK
<1>3. ASSUME OrphanFinish \/ CompactLock \/ CompactEnd \/ CompactPanic
      PROVE  Owned'
  BY <1>3, <1>t, OwnedUndisturbed DEF OrphanFinish, CompactLock, CompactEnd, CompactPanic, Answer, TypeOK
<1>4. ASSUME NEW c \in Client, NEW k \in Kind, EnqueueSend(c, k)
      PROVE  Owned'
  <2> DEFINE r == [from |-> c, kind |-> k]
  <2>0. pc[c] # "await" /\ c # None
    BY <1>4, ServeAssumption, Zenon DEF EnqueueSend, Sending
  <2>1. CASE queue' = Append(queue, r) /\ Goto(c, "await")
    <3>1. /\ DOMAIN queue = 1 .. Len(queue) /\ DOMAIN queue' = 1 .. Len(queue) + 1 /\ Len(queue) \in Nat
          /\ \A n \in DOMAIN queue : queue'[n] = queue[n]
          /\ queue'[Len(queue) + 1].from = c
      BY <2>1, <1>t, AppendProperties, LenProperties DEF TypeOK, Request
    <3>2. \A n \in DOMAIN queue : queue[n].from # c
      BY <2>0, <1>t DEF Owned
    <3>3. \A w \in Worker : Serving(w) => req[w].from # c
      BY <2>0, <1>t DEF Owned
    <3>4. \A d \in Client : pc[d] = "await" => pc'[d] = "await"
      BY <2>1, <1>t DEF Goto, TypeOK
    <3>5. pc'[c] = "await"
      BY <2>1, <1>t DEF Goto, TypeOK
    <3>6. UNCHANGED <<req, worker>>
      BY <1>4 DEF EnqueueSend
    <3> HIDE DEF r
    <3> QED
      BY <3>1, <3>2, <3>3, <3>4, <3>5, <3>6, <1>q, <1>r, <1>t DEF Owned, Serving
  <2>2. CASE UNCHANGED queue /\ (Goto(c, "full") \/ Goto(c, "idle"))
    BY <2>2, <2>0, <1>4, <1>t, OwnedUndisturbed, Zenon DEF EnqueueSend, Goto, TypeOK
  <2> QED
    BY <1>4, <2>1, <2>2 DEF EnqueueSend
<1>5. ASSUME NEW w \in Worker, Take(w)
      PROVE  Owned'
  <2>1. /\ DOMAIN queue = 1 .. Len(queue) /\ Len(queue) \in Nat /\ Len(queue) >= 1
        /\ DOMAIN queue' = 1 .. Len(queue) - 1
        /\ \A n \in DOMAIN queue' : queue'[n] = queue[n + 1]
        /\ req'[w] = queue[1]
    BY <1>5, <1>t, LenProperties, HeadTailProperties DEF Take, TypeOK
  <2>2. /\ \A v \in Worker : v # w => worker'[v] = worker[v] /\ req'[v] = req[v]
        /\ worker[w] = "poll" /\ pc' = pc
    BY <1>5, <1>t DEF Take, TypeOK
  <2>3. \A n \in DOMAIN queue' : n + 1 \in DOMAIN queue /\ n + 1 # 1 /\ queue'[n] = queue[n + 1]
    BY <2>1
  <2>4. 1 \in DOMAIN queue /\ ~Serving(w)
    BY <2>1, <2>2 DEF Serving
  <2>5. \A v \in Worker : v # w => (Serving(v)' <=> Serving(v))
    BY <2>2 DEF Serving
  <2>6. /\ \A n \in DOMAIN queue' : queue'[n].from # None => pc'[queue'[n].from] = "await"
        /\ \A m, n \in DOMAIN queue' : queue'[m].from = queue'[n].from
                                          => m = n \/ queue'[m].from = None
    <3>1. \A m, n \in DOMAIN queue' : m + 1 = n + 1 => m = n
      BY <2>1
    <3> QED
      BY <3>1, <2>2, <2>3, <1>t DEF Owned
  <2>7. \A v \in Worker : Serving(v)' /\ req'[v].from # None => pc'[req'[v].from] = "await"
    BY <2>1, <2>2, <2>4, <2>5, <1>t DEF Owned
  <2>8. \A u, v \in Worker : Serving(u)' /\ Serving(v)' /\ req'[u].from = req'[v].from
                               => u = v \/ req'[u].from = None
    BY <2>1, <2>2, <2>4, <2>5, <1>t DEF Owned
  <2>9. \A n \in DOMAIN queue', v \in Worker : Serving(v)' /\ queue'[n].from = req'[v].from
                               => req'[v].from = None
    BY <2>1, <2>2, <2>3, <2>4, <2>5, <1>t DEF Owned
  <2> QED
    BY <2>6, <2>7, <2>8, <2>9 DEF Owned
<1>6. ASSUME NEW w \in Worker, Execute(w) \/ CountDown(w)
      PROVE  Owned'
  <2>1. /\ \A v \in Worker : worker'[v] \in {"busy", "done", "counted"} <=> Serving(v)
        /\ pc' = pc /\ queue' = queue /\ req' = req
    BY <1>6, <1>t, Zenon DEF Execute, MayExecute, CountDown, TypeOK, Serving
  <2> QED
    BY <2>1, <1>t DEF Owned, Serving
<1>7. ASSUME NEW w \in Worker, Reply(w)
      PROVE  Owned'
  <2>1. /\ \A v \in Worker : v # w => worker'[v] = worker[v] /\ req'[v] = req[v]
        /\ worker'[w] = "poll" /\ Serving(w) /\ queue' = queue
        /\ \A d \in Client : d # req[w].from => pc'[d] = pc[d]
    BY <1>7, <1>t DEF Reply, Answer, TypeOK, Serving
  <2> QED
    BY <2>1, <1>q, <1>r, <1>t DEF Owned, Serving
<1>8. ASSUME NEW w \in Worker, Panic(w)
      PROVE  Owned'
  <2>1. /\ \A v \in Worker : v # w => worker'[v] = worker[v] /\ req'[v] = req[v]
        /\ worker'[w] = "dead" /\ Serving(w)
    BY <1>8, <1>t DEF Panic, MayExecute, TypeOK, Serving
  <2>2. CASE \A u \in Worker \ {w} : worker[u] = "dead"
    <3>1. queue' = <<>>
      BY <1>8, <2>2, Zenon DEF Panic
    <3> QED
      BY <3>1, <2>1, <2>2 DEF Owned, Serving
  <2>3. CASE ~\A u \in Worker \ {w} : worker[u] = "dead"
    <3>1. queue' = queue /\ \A d \in Client : d # req[w].from => pc'[d] = pc[d]
      BY <1>8, <2>3, Zenon DEF Panic, Answer
    <3> QED
      BY <3>1, <2>1, <1>q, <1>r, <1>t DEF Owned, Serving
  <2> QED
    BY <2>2, <2>3
<1>9. ASSUME NEW c \in Client, Cancel(c)
      PROVE  Owned'
  <2>1. /\ DOMAIN queue' = DOMAIN queue
        /\ \A n \in DOMAIN queue : queue'[n].from = IF queue[n].from = c THEN None ELSE queue[n].from
    BY <1>9, <1>q, DisownFields DEF Cancel
  <2>2. \A w \in Worker : Serving(w) => req'[w].from = IF req[w].from = c THEN None ELSE req[w].from
    BY <1>9, <1>r, DisownFields DEF Cancel
  <2>3. worker' = worker /\ \A d \in Client : d # c => pc'[d] = pc[d]
    BY <1>9, <1>t DEF Cancel, Goto, TypeOK
  <2> QED
    BY <2>1, <2>2, <2>3, <1>q, <1>r, <1>t DEF Owned, Serving
<1> QED
  BY <1>1, <1>2, <1>3, <1>4, <1>5, <1>6, <1>7, <1>8, <1>9
  DEF Next, ClientStep, HandlerStep, WorkerStep

\* An answer reaches a handler that waits for it, and no handler elsewhere.
LEMMA AnswersTheWaiting ==
    ASSUME ServeInv, NEW w \in Worker, Reply(w) \/ Panic(w)
    PROVE  \A c \in Client : pc'[c] = pc[c] \/ (pc[c] = "await" /\ pc'[c] = "idle")
<1>1. Serving(w) /\ Owned
  BY Zenon DEF ServeInv, Reply, Panic, MayExecute, Serving
<1>2. CASE Reply(w)
  BY <1>1, <1>2, ServeAssumption, Zenon DEF Reply, Answer, Owned
<1>3. CASE Panic(w)
  BY <1>1, <1>3, ServeAssumption DEF Panic, Answer, Owned
<1> QED
  BY <1>2, <1>3

\* A step that moves no handler into or out of a compaction and leaves the flag and
\* the task alone keeps Compacting.
LEMMA CompactingUndisturbed ==
    ASSUME Compacting, UNCHANGED <<flag, job>>,
           \A c \in Client : pc'[c] \in {"compact", "reset"} => pc'[c] = pc[c]
    PROVE  Compacting'
  BY DEF Compacting, CompactHandler, FlagCoversCompaction

\* The compaction's flag, task and handler: an answer to a write never touches the
\* handler of a compaction (Owned), and only the one handler lowers the flag.
LEMMA CompactingStep ==
    ASSUME ServeInv, Next
    PROVE  Compacting'
<1> USE DEF queueVars, knnVars, compactVars
<1>t. TypeOK /\ Compacting
  BY DEF ServeInv
<1>1. ASSUME NEW c \in Client, NEW k \in Kind, EnqueueCount(c, k) \/ EnqueueSend(c, k)
      PROVE  Compacting'
  BY <1>1, <1>t, CompactingUndisturbed DEF EnqueueCount, EnqueueSend, Goto, Sending, TypeOK
<1>2. ASSUME NEW c \in Client, EnqueueFull(c) \/ KnnStart(c) \/ KnnFinish(c)
      PROVE  Compacting'
  BY <1>2, <1>t, CompactingUndisturbed DEF EnqueueFull, KnnStart, KnnFinish, Goto, TypeOK
<1>3. ASSUME NEW w \in Worker, Take(w) \/ Execute(w) \/ CountDown(w)
      PROVE  Compacting'
  BY <1>3, <1>t, CompactingUndisturbed DEF Take, Execute, CountDown
<1>4. ASSUME NEW w \in Worker, Reply(w) \/ Panic(w)
      PROVE  Compacting'
  <2>1. UNCHANGED <<flag, job>> /\ \A c \in Client : pc'[c] \in {"idle", pc[c]}
    BY <1>4 DEF Reply, Panic, Answer
  <2> QED
    BY <2>1, <1>t, CompactingUndisturbed, Zenon
<1>5. ASSUME OrphanFinish
      PROVE  Compacting'
  BY <1>5, <1>t, CompactingUndisturbed DEF OrphanFinish
<1>6. ASSUME NEW c \in Client, CompactStart(c)
      PROVE  Compacting'
  <2>1. \A d \in Client : ~CompactHandler(d)
    BY <1>6, <1>t DEF CompactStart, Compacting
  <2>2. flag' /\ job' = "waiting" /\ pc'[c] = "compact" /\ \A d \in Client : d # c => pc'[d] = pc[d]
    BY <1>6, <1>t DEF CompactStart, Goto, TypeOK
  <2> QED
    BY <2>1, <2>2 DEF Compacting, CompactHandler, FlagCoversCompaction
<1>7. ASSUME NEW c \in Client, CompactReset(c)
      PROVE  Compacting'
  <2>1. job' = "none" /\ CompactHandler(c)
    BY <1>7, <1>t DEF CompactReset, Compacting, CompactHandler
  <2>2. pc'[c] = "idle" /\ \A d \in Client : d # c => pc'[d] = pc[d]
    BY <1>7, <1>t DEF CompactReset, Goto, TypeOK
  <2>3. \A d \in Client : pc'[d] \notin {"compact", "reset"}
    BY <2>1, <2>2, <1>t DEF Compacting, CompactHandler
  <2> QED
    BY <2>1, <2>3 DEF Compacting, CompactHandler, FlagCoversCompaction
<1>8. ASSUME CompactLock
      PROVE  Compacting'
  <2>1. flag /\ flag' = flag /\ pc' = pc /\ job = "waiting"
    BY <1>8, <1>t DEF CompactLock, Compacting, FlagCoversCompaction
  <2> QED
    BY <2>1, <1>t DEF Compacting, CompactHandler, FlagCoversCompaction
<1>9. ASSUME CompactEnd \/ CompactPanic
      PROVE  Compacting'
  <2>1. /\ job' = "none" /\ flag' = flag
        /\ \A c \in Client : pc'[c] \in {"compact", "reset"} => CompactHandler(c)
    BY <1>9, <1>t DEF CompactEnd, CompactPanic, Answer, CompactHandler
  <2> QED
    BY <2>1, <1>t DEF Compacting, CompactHandler, FlagCoversCompaction
<1>10. ASSUME NEW c \in Client, Cancel(c)
       PROVE  Compacting'
  BY <1>10, <1>t, CompactingUndisturbed DEF Cancel, Goto, TypeOK
<1> QED
  BY <1>1, <1>2, <1>3, <1>4, <1>5, <1>6, <1>7, <1>8, <1>9, <1>10
  DEF Next, ClientStep, HandlerStep, WorkerStep

\* The search permits: the handler takes one and gives it back, also when it is dropped.
LEMMA PermitsStep ==
    ASSUME ServeInv, Next
    PROVE  PermitsExact'
<1> USE DEF queueVars, knnVars, compactVars
<1>t. TypeOK /\ HasRequest /\ Owned /\ permits = Cardinality(Searching) /\ permits <= KnnConcurrency
  BY DEF ServeInv, PermitsExact, Searching
<1>s. SUFFICES permits' = Cardinality(Searching') /\ permits' <= KnnConcurrency
  BY DEF PermitsExact, Searching
<1>f. IsFiniteSet(Searching) /\ Cardinality(Searching) \in Nat /\ KnnConcurrency \in Nat
  BY CountedSetsFinite, ServeAssumption
<1>u. ASSUME permits' = permits, \A c \in Client : pc'[c] = "knn" <=> pc[c] = "knn"
      PROVE  permits' = Cardinality(Searching') /\ permits' <= KnnConcurrency
  <2>1. Searching' = Searching
    BY <1>u DEF Searching
  <2> QED
    BY <2>1, <1>u, <1>t
<1>m. ASSUME NEW c \in Client, pc[c] = "knn", permits' = permits - 1, Goto(c, "idle")
      PROVE  permits' = Cardinality(Searching') /\ permits' <= KnnConcurrency
  <2>1. Searching' = Searching \ {c} /\ c \in Searching
    BY <1>m, <1>t DEF Goto, Searching, TypeOK
  <2>2. Cardinality(Searching \ {c}) = Cardinality(Searching) - 1
    BY <2>1, <1>f, CardinalityShrinks, Zenon
  <2> QED
    BY <2>1, <2>2, <1>m, <1>t, <1>f
<1>1. ASSUME NEW c \in Client, NEW k \in Kind, EnqueueCount(c, k) \/ EnqueueSend(c, k)
      PROVE  permits' = Cardinality(Searching') /\ permits' <= KnnConcurrency
  BY <1>1, <1>t, <1>u, Zenon DEF EnqueueCount, EnqueueSend, Goto, Sending, TypeOK
<1>2. ASSUME NEW c \in Client, EnqueueFull(c) \/ CompactStart(c) \/ CompactReset(c)
      PROVE  permits' = Cardinality(Searching') /\ permits' <= KnnConcurrency
  BY <1>2, <1>t, <1>u DEF EnqueueFull, CompactStart, CompactReset, Goto, TypeOK
<1>3. ASSUME NEW w \in Worker, Take(w) \/ Execute(w) \/ CountDown(w)
      PROVE  permits' = Cardinality(Searching') /\ permits' <= KnnConcurrency
  BY <1>3, <1>t, <1>u, Zenon DEF Take, Execute, CountDown
<1>4. ASSUME NEW w \in Worker, Reply(w) \/ Panic(w)
      PROVE  permits' = Cardinality(Searching') /\ permits' <= KnnConcurrency
  <2>1. \A c \in Client : pc'[c] = pc[c] \/ (pc[c] = "await" /\ pc'[c] = "idle")
    BY <1>4, AnswersTheWaiting DEF ServeInv
  <2> QED
    BY <2>1, <1>4, <1>u DEF Reply, Panic
<1>5. ASSUME OrphanFinish \/ CompactLock \/ CompactEnd \/ CompactPanic
      PROVE  permits' = Cardinality(Searching') /\ permits' <= KnnConcurrency
  BY <1>5, <1>u, Zenon DEF OrphanFinish, CompactLock, CompactEnd, CompactPanic, Answer
<1>6. ASSUME NEW c \in Client, KnnStart(c)
      PROVE  permits' = Cardinality(Searching') /\ permits' <= KnnConcurrency
  <2>1. Searching' = Searching \cup {c} /\ c \notin Searching
    BY <1>6, <1>t DEF KnnStart, Goto, Searching, TypeOK
  <2>2. Cardinality(Searching \cup {c}) = Cardinality(Searching) + 1
    BY <2>1, <1>f, CardinalityGrows
  <2> QED
    BY <2>1, <2>2, <1>6, <1>t, <1>f DEF KnnStart
<1>7. ASSUME NEW c \in Client, KnnFinish(c)
      PROVE  permits' = Cardinality(Searching') /\ permits' <= KnnConcurrency
  BY <1>7, <1>m DEF KnnFinish
<1>8. ASSUME NEW c \in Client, Cancel(c)
      PROVE  permits' = Cardinality(Searching') /\ permits' <= KnnConcurrency
  <2>1. CASE pc[c] = "knn"
    BY <2>1, <1>8, <1>m, Zenon DEF Cancel
  <2>2. CASE pc[c] # "knn"
    BY <2>2, <1>8, <1>u, <1>t DEF Cancel, Goto, TypeOK
  <2> QED
    BY <2>1, <2>2, Zenon
<1> QED
  BY <1>1, <1>2, <1>3, <1>4, <1>5, <1>6, <1>7, <1>8
  DEF Next, ClientStep, HandlerStep, WorkerStep

Load == Len(queue) + Cardinality(Enqueueing) + Cardinality(Uncounted)

\* queue_depth against the load: covered always, exact while no worker is dead.
DepthInv == Load <= depth /\ ((\A w \in Worker : worker[w] # "dead") => depth = Load)

\* A step that leaves the three parts of the load and the depth alone.
LEMMA DepthUndisturbed ==
    ASSUME DepthInv, UNCHANGED <<depth, queue, worker>>,
           \A c \in Client : pc'[c] \in {"send_kv", "send_vec", "full"} <=> pc[c] \in {"send_kv", "send_vec", "full"}
    PROVE  DepthInv'
<1>1. Enqueueing' = Enqueueing /\ Uncounted' = Uncounted
  BY DEF Enqueueing, Uncounted
<1> QED
  BY <1>1 DEF DepthInv, Load

\* The queue's depth: counted up before the request is sent, counted down once, by the
\* refusing handler or by the worker after the request is carried out.
LEMMA DepthStep ==
    ASSUME ServeInv, Next
    PROVE  DepthInv'
<1> USE DEF queueVars, knnVars, compactVars
<1>t. TypeOK /\ DepthInv
  BY DEF ServeInv, DepthInv, Load, DepthCovers, DepthExactUnlessPanic, DepthExact
<1>f. /\ IsFiniteSet(Enqueueing) /\ Cardinality(Enqueueing) \in Nat
      /\ IsFiniteSet(Uncounted) /\ Cardinality(Uncounted) \in Nat
      /\ Len(queue) \in Nat /\ depth \in Nat
  BY <1>t, CountedSetsFinite, LenProperties DEF TypeOK
<1>1. ASSUME NEW c \in Client, NEW k \in Kind, EnqueueCount(c, k)
      PROVE  DepthInv'
  <2>1. Enqueueing' = Enqueueing \cup {c} /\ c \notin Enqueueing /\ Uncounted' = Uncounted
    BY <1>1, <1>t DEF EnqueueCount, Goto, Sending, Enqueueing, Uncounted, TypeOK
  <2>2. Cardinality(Enqueueing \cup {c}) = Cardinality(Enqueueing) + 1
    BY <2>1, <1>f, CardinalityGrows
  <2>3. depth' = depth + 1 /\ queue' = queue /\ worker' = worker
    BY <1>1 DEF EnqueueCount
  <2> QED
    BY <2>1, <2>2, <2>3, <1>t, <1>f DEF DepthInv, Load
<1>2. ASSUME NEW c \in Client, EnqueueFull(c)
      PROVE  DepthInv'
  <2>1. Enqueueing' = Enqueueing \ {c} /\ c \in Enqueueing /\ Uncounted' = Uncounted
    BY <1>2, <1>t DEF EnqueueFull, Goto, Enqueueing, Uncounted, TypeOK
  <2>2. Cardinality(Enqueueing \ {c}) = Cardinality(Enqueueing) - 1
    BY <2>1, <1>f, CardinalityShrinks
  <2>3. depth' = depth - 1 /\ queue' = queue /\ worker' = worker
    BY <1>2 DEF EnqueueFull
  <2> QED
    BY <2>1, <2>2, <2>3, <1>t, <1>f DEF DepthInv, Load
<1>3. ASSUME NEW c \in Client, NEW k \in Kind, EnqueueSend(c, k)
      PROVE  DepthInv'
  <2>0. c \in Enqueueing /\ Uncounted' = Uncounted /\ depth' = depth /\ worker' = worker
    BY <1>3 DEF EnqueueSend, Sending, Enqueueing, Uncounted
  <2>1. CASE ~AllDead /\ queue' = Append(queue, [from |-> c, kind |-> k]) /\ Goto(c, "await")
    <3>1. Enqueueing' = Enqueueing \ {c}
      BY <2>1, <1>t DEF Goto, Enqueueing, TypeOK
    <3>2. Cardinality(Enqueueing \ {c}) = Cardinality(Enqueueing) - 1
      BY <2>0, <1>f, CardinalityShrinks
    <3>3. Len(queue') = Len(queue) + 1
      BY <2>1, <1>t, AppendProperties DEF TypeOK, Request
    <3> QED
      BY <3>1, <3>2, <3>3, <2>0, <1>t, <1>f DEF DepthInv, Load
  <2>2. CASE UNCHANGED queue /\ Goto(c, "full")
    BY <2>0, <2>2, <1>t, DepthUndisturbed DEF Goto, Enqueueing, TypeOK
  <2>3. CASE AllDead /\ UNCHANGED queue /\ Goto(c, "idle")
    <3>1. Enqueueing' = Enqueueing \ {c}
      BY <2>3, <1>t DEF Goto, Enqueueing, TypeOK
    <3>2. Cardinality(Enqueueing \ {c}) = Cardinality(Enqueueing) - 1
      BY <2>0, <1>f, CardinalityShrinks
    <3>3. ~\A w \in Worker : worker'[w] # "dead"
      BY <2>3, <2>0, ServeAssumption DEF AllDead
    <3>4. Load' <= depth'
      BY <3>1, <3>2, <2>3, <2>0, <1>t, <1>f DEF DepthInv, Load
    <3> QED
      BY <3>3, <3>4 DEF DepthInv
  <2> QED
    BY <1>3, <2>1, <2>2, <2>3, Zenon DEF EnqueueSend
<1>4. ASSUME NEW w \in Worker, Take(w)
      PROVE  DepthInv'
  <2>1. Uncounted' = Uncounted \cup {w} /\ w \notin Uncounted /\ Enqueueing' = Enqueueing
    BY <1>4, <1>t, Zenon DEF Take, Enqueueing, Uncounted, TypeOK
  <2>2. Cardinality(Uncounted \cup {w}) = Cardinality(Uncounted) + 1
    BY <2>1, <1>f, CardinalityGrows, Zenon
  <2>3. Len(queue') = Len(queue) - 1 /\ depth' = depth
    BY <1>4, <1>t, HeadTailProperties, Zenon DEF Take, TypeOK
  <2>4. \A u \in Worker : worker'[u] = "dead" <=> worker[u] = "dead"
    BY <1>4, <1>t, Zenon DEF Take, TypeOK
  <2> QED
    BY <2>1, <2>2, <2>3, <2>4, <1>t, <1>f DEF DepthInv, Load
<1>5. ASSUME NEW w \in Worker, Execute(w)
      PROVE  DepthInv'
  <2>1. Uncounted' = Uncounted /\ Enqueueing' = Enqueueing /\ depth' = depth /\ queue' = queue
    BY <1>5, <1>t, Zenon DEF Execute, MayExecute, Enqueueing, Uncounted, TypeOK
  <2>2. \A u \in Worker : worker'[u] = "dead" <=> worker[u] = "dead"
    BY <1>5, <1>t, Zenon DEF Execute, MayExecute, TypeOK
  <2> QED
    BY <2>1, <2>2, <1>t, Zenon DEF DepthInv, Load
<1>6. ASSUME NEW w \in Worker, CountDown(w)
      PROVE  DepthInv'
  <2>1. Uncounted' = Uncounted \ {w} /\ w \in Uncounted /\ Enqueueing' = Enqueueing
    BY <1>6, <1>t DEF CountDown, Enqueueing, Uncounted, TypeOK
  <2>2. Cardinality(Uncounted \ {w}) = Cardinality(Uncounted) - 1
    BY <2>1, <1>f, CardinalityShrinks
  <2>3. queue' = queue /\ depth' = depth - 1
    BY <1>6 DEF CountDown
  <2>4. \A u \in Worker : worker'[u] = "dead" <=> worker[u] = "dead"
    BY <1>6, <1>t, Zenon DEF CountDown, TypeOK
  <2> QED
    BY <2>1, <2>2, <2>3, <2>4, <1>t, <1>f DEF DepthInv, Load
<1>7. ASSUME NEW w \in Worker, Reply(w)
      PROVE  DepthInv'
  <2>1. Enqueueing' = Enqueueing
    BY <1>7, AnswersTheWaiting DEF Enqueueing
  <2>2. Uncounted' = Uncounted /\ depth' = depth /\ queue' = queue
    BY <1>7, <1>t, Zenon DEF Reply, Uncounted, TypeOK
  <2>3. \A u \in Worker : worker'[u] = "dead" <=> worker[u] = "dead"
    BY <1>7, <1>t DEF Reply, TypeOK
  <2> QED
    BY <2>1, <2>2, <2>3, <1>t DEF DepthInv, Load
<1>8. ASSUME NEW w \in Worker, Panic(w)
      PROVE  DepthInv'
  <2>1. Enqueueing' = Enqueueing
    BY <1>8, AnswersTheWaiting, Zenon DEF Enqueueing
  <2>2. Uncounted' = Uncounted \ {w} /\ w \in Uncounted /\ depth' = depth /\ worker'[w] = "dead"
    BY <1>8, <1>t DEF Panic, MayExecute, Uncounted, TypeOK
  <2>3. Cardinality(Uncounted \ {w}) = Cardinality(Uncounted) - 1
    BY <2>2, <1>f, CardinalityShrinks, Zenon
  <2>4. Len(queue') \in Nat /\ Len(queue') <= Len(queue)
    BY <1>8, <1>f, EmptySeq DEF Panic
  <2>5. Load' <= depth'
    BY <2>1, <2>2, <2>3, <2>4, <1>t, <1>f DEF DepthInv, Load
  <2> QED
    BY <2>2, <2>5 DEF DepthInv
<1>9. ASSUME NEW c \in Client, KnnStart(c) \/ KnnFinish(c) \/ CompactStart(c) \/ CompactReset(c)
      PROVE  DepthInv'
  BY <1>9, <1>t, DepthUndisturbed, Zenon DEF KnnStart, KnnFinish, CompactStart, CompactReset, Goto, TypeOK
<1>10. ASSUME OrphanFinish \/ CompactLock \/ CompactEnd \/ CompactPanic
       PROVE  DepthInv'
  BY <1>10, <1>t, DepthUndisturbed DEF OrphanFinish, CompactLock, CompactEnd, CompactPanic, Answer
<1>11. ASSUME NEW c \in Client, Cancel(c)
       PROVE  DepthInv'
  <2>1. Enqueueing' = Enqueueing /\ Uncounted' = Uncounted /\ depth' = depth /\ worker' = worker
    BY <1>11, <1>t, Zenon DEF Cancel, Goto, Enqueueing, Uncounted, TypeOK
  <2>2. Len(queue') = Len(queue)
    BY <1>11, <1>t, LenProperties DEF Cancel, TypeOK
  <2> QED
    BY <2>1, <2>2, <1>t, Zenon DEF DepthInv, Load
<1> QED
  BY <1>1, <1>2, <1>3, <1>4, <1>5, <1>6, <1>7, <1>8, <1>9, <1>10, <1>11
  DEF Next, ClientStep, HandlerStep, WorkerStep

-----------------------------------------------------------------------------
(* Theorems                                                                 *)

\* The inductive invariant of the server: at the start nobody waits and nothing is
\* counted, and every step of a handler, a worker, a task or a client keeps it.
THEOREM ServeInvariantHolds == Spec => []ServeInv
<1>1. Init => ServeInv
  <2> SUFFICES ASSUME Init PROVE ServeInv
    OBVIOUS
  <2>1. TypeOK /\ HasRequest
    <3>1. queue \in Seq(Request) /\ Len(queue) <= QueueCap
      BY ServeAssumption, EmptySeq DEF Init
    <3>2. depth \in Nat /\ permits \in Nat /\ orphans \in 0 .. MaxOrphans /\ compacts \in 0 .. MaxCompacts
      BY ServeAssumption DEF Init
    <3> QED
      BY <3>1, <3>2, Zenon DEF Init, TypeOK, HasRequest, Serving
  <2>2. Owned /\ Compacting
    BY DEF Init, Owned, Serving, Compacting, CompactHandler, FlagCoversCompaction
  <2>3. Searching = {} /\ Enqueueing = {} /\ Uncounted = {}
    BY Zenon DEF Init, Searching, Enqueueing, Uncounted
  <2>4. PermitsExact
    <3>1. Cardinality(Searching) = 0
      BY <2>3, FS_EmptySet, Zenon
    <3> QED
      BY <3>1, ServeAssumption DEF Init, PermitsExact, Searching
  <2>5. DepthCovers /\ DepthExactUnlessPanic
    <3>1. Cardinality(Enqueueing) = 0 /\ Cardinality(Uncounted) = 0 /\ Len(queue) = 0
      BY <2>3, FS_EmptySet, EmptySeq DEF Init
    <3> QED
      BY <3>1 DEF Init, DepthCovers, DepthExactUnlessPanic, DepthExact
  <2> QED
    BY <2>1, <2>2, <2>4, <2>5 DEF ServeInv
<1>2. ServeInv /\ [Next]_vars => ServeInv'
  <2> SUFFICES ASSUME ServeInv, [Next]_vars PROVE ServeInv'
    BY Zenon
  <2>1. CASE Next
    <3>1. DepthCovers' /\ DepthExactUnlessPanic'
      BY <2>1, DepthStep, CountedSetsFinite, Zenon DEF DepthInv, Load, DepthCovers, DepthExactUnlessPanic, DepthExact
    <3> QED
      BY <2>1, <3>1, TypeStep, OwnedStep, CompactingStep, PermitsStep, Zenon DEF ServeInv
  <2>2. CASE UNCHANGED vars
    BY <2>2 DEF vars, ServeInv, TypeOK, HasRequest, Serving, Owned, Compacting, CompactHandler,
       FlagCoversCompaction, PermitsExact, DepthCovers, DepthExactUnlessPanic, DepthExact, Enqueueing, Uncounted
  <2> QED
    BY <2>1, <2>2
<1> QED
  BY <1>1, <1>2, PTL DEF Spec

\* /health says unavailable as long as a compaction's task waits or runs, also after its
\* client hung up or it panicked (compact_endpoint, health).
THEOREM FlagAlwaysCoversCompaction == Spec => []FlagCoversCompaction
<1>1. ServeInv => FlagCoversCompaction
  BY DEF ServeInv, Compacting
<1> QED
  BY <1>1, ServeInvariantHolds, PTL

\* No search permit leaks and the cap is kept, for any number of clients that search and
\* hang up (knn_endpoint).
THEOREM PermitsAlwaysExact == Spec => []PermitsExact
<1>1. ServeInv => PermitsExact
  BY DEF ServeInv
<1> QED
  BY <1>1, ServeInvariantHolds, PTL

\* queue_depth never falls below the load, whatever panics (try_enqueue, handle_write_req).
THEOREM DepthAlwaysCovers == Spec => []DepthCovers
<1>1. ServeInv => DepthCovers
  BY DEF ServeInv
<1> QED
  BY <1>1, ServeInvariantHolds, PTL

\* And it is the load, neither more nor less, as long as no worker has panicked, however
\* many clients hang up.
THEOREM DepthAlwaysExactUnlessPanic == Spec => []DepthExactUnlessPanic
<1>1. ServeInv => DepthExactUnlessPanic
  BY DEF ServeInv
<1> QED
  BY <1>1, ServeInvariantHolds, PTL

=============================================================================
