--------------------------------- MODULE Serve ---------------------------------
(***************************************************************************)
(* fs-serve (crates/fs-serve/src/lib.rs): request handlers that enqueue    *)
(* writes and wait for the answer, the pool of write workers, k-nearest-   *)
(* neighbour searches under a semaphore, and /compact with its flag.  The  *)
(* engine is what these see of it: an operation that takes the vec mutex   *)
(* or does not, succeeds, fails or panics.  A handler whose client hangs   *)
(* up is dropped at its await ("cancel"); the blocking task it started     *)
(* runs on.                                                                *)
(***************************************************************************)
EXTENDS Integers, Sequences, FiniteSets

CONSTANTS
    Client, Worker,
    QueueCap,        \* queue_cap
    KnnConcurrency,  \* KNN_CONCURRENCY
    Faults,          \* "cancel", "panic"
    MaxOrphans,      \* bound: searches running with no handler
    MaxCompacts,     \* bound: compactions started
    None

Kind == {"kv", "vec"}
Request == [from : Client \cup {None}, kind : Kind]

ASSUME ServeAssumption ==
    /\ IsFiniteSet(Client) /\ IsFiniteSet(Worker) /\ Worker # {}
    /\ QueueCap \in Nat \ {0} /\ KnnConcurrency \in Nat \ {0}
    /\ Faults \subseteq {"cancel", "panic"}
    /\ MaxOrphans \in Nat /\ MaxCompacts \in Nat
    /\ None \notin Client /\ None \notin Request

VARIABLES
    pc,        \* each client's handler
    queue,     \* the channel: requests [from, kind]; from = None once the handler is gone
    depth,     \* queue_depth
    worker,    \* each worker: "poll", "busy", "done", "counted", "dead"
    req,       \* the request a worker has
    permits,   \* search permits in use
    orphans,   \* searches running whose handler is gone
    flag,      \* compact_in_progress
    job,       \* the compaction task: "none", "waiting" (for the vec mutex), "running"
    compacts,  \* compactions started
    poisoned   \* the vec mutex

vars == <<pc, queue, depth, worker, req, permits, orphans, flag, job, compacts, poisoned>>
queueVars == <<queue, depth, worker, req>>
knnVars == <<permits, orphans>>
compactVars == <<flag, job, compacts>>

TypeOK ==
    /\ pc \in [Client -> {"idle", "send_kv", "send_vec", "full", "await", "knn", "compact", "reset"}]
    /\ queue \in Seq(Request) /\ Len(queue) <= QueueCap
    /\ depth \in Nat
    /\ worker \in [Worker -> {"poll", "busy", "done", "counted", "dead"}]
    /\ req \in [Worker -> Request \cup {None}]
    /\ permits \in Nat /\ orphans \in 0 .. MaxOrphans
    /\ flag \in BOOLEAN /\ job \in {"none", "waiting", "running"}
    /\ compacts \in 0 .. MaxCompacts /\ poisoned \in BOOLEAN

Init ==
    /\ pc = [c \in Client |-> "idle"]
    /\ queue = <<>> /\ depth = 0
    /\ worker = [w \in Worker |-> "poll"] /\ req = [w \in Worker |-> None]
    /\ permits = 0 /\ orphans = 0
    /\ flag = FALSE /\ job = "none" /\ compacts = 0
    /\ poisoned = FALSE

Goto(c, at) == pc' = [pc EXCEPT ![c] = at]

-----------------------------------------------------------------------------
(* put_kv, insert_vector, put_columnar: try_enqueue, await_write_done       *)

Sending(k) == IF k = "kv" THEN "send_kv" ELSE "send_vec"

\* fetch_add, and the check of the depth before it.
EnqueueCount(c, k) ==
    /\ pc[c] = "idle"
    /\ depth' = depth + 1
    /\ Goto(c, IF depth >= QueueCap THEN "full" ELSE Sending(k))
    /\ UNCHANGED <<queue, worker, req, knnVars, compactVars, poisoned>>

\* Seeded fault: the refused request stays counted.
EnqueueFullCounted(c) ==
    /\ pc[c] = "full"
    /\ Goto(c, "idle")
    /\ UNCHANGED <<queue, depth, worker, req, knnVars, compactVars, poisoned>>

\* fetch_sub, 503.
EnqueueFull(c) ==
    /\ pc[c] = "full"
    /\ depth' = depth - 1
    /\ Goto(c, "idle")
    /\ UNCHANGED <<queue, worker, req, knnVars, compactVars, poisoned>>

AllDead == \A w \in Worker : worker[w] = "dead"

\* try_send: into the channel; Full; or Closed, which drops the request and with
\* it the sender the handler awaits, so the handler answers at once.
EnqueueSend(c, k) ==
    /\ pc[c] = Sending(k)
    /\ \/ /\ ~AllDead /\ Len(queue) < QueueCap
          /\ queue' = Append(queue, [from |-> c, kind |-> k])
          /\ Goto(c, "await")
       \/ /\ ~AllDead /\ Len(queue) = QueueCap
          /\ Goto(c, "full") /\ UNCHANGED queue
       \/ /\ AllDead
          /\ Goto(c, "idle") /\ UNCHANGED queue
    /\ UNCHANGED <<depth, worker, req, knnVars, compactVars, poisoned>>

-----------------------------------------------------------------------------
(* spawn_write_worker_pool, handle_write_req                                *)

Take(w) ==
    /\ worker[w] = "poll" /\ queue # <<>>
    /\ req' = [req EXCEPT ![w] = Head(queue)]
    /\ queue' = Tail(queue)
    /\ worker' = [worker EXCEPT ![w] = "busy"]
    /\ UNCHANGED <<pc, depth, knnVars, compactVars, poisoned>>

\* The compaction holds the vec mutex while it runs.
VecFree == job # "running"

MayExecute(w) == worker[w] = "busy" /\ (req[w].kind = "vec" => VecFree)

\* The engine's answer, Ok or Err.
Execute(w) ==
    /\ MayExecute(w)
    /\ worker' = [worker EXCEPT ![w] = "done"]
    /\ UNCHANGED <<pc, queue, depth, req, knnVars, compactVars, poisoned>>

CountDown(w) ==
    /\ worker[w] = "done"
    /\ depth' = depth - 1
    /\ worker' = [worker EXCEPT ![w] = "counted"]
    /\ UNCHANGED <<pc, queue, req, knnVars, compactVars, poisoned>>

\* The handlers of S, if any are left, get their answer.
Answer(S) == pc' = [c \in Client |-> IF c \in S THEN "idle" ELSE pc[c]]

Reply(w) ==
    /\ worker[w] = "counted"
    /\ Answer({req[w].from})
    /\ worker' = [worker EXCEPT ![w] = "poll"] /\ req' = [req EXCEPT ![w] = None]
    /\ UNCHANGED <<queue, depth, knnVars, compactVars, poisoned>>

\* Seeded fault: the request is subtracted while unwinding, and again when it is dropped.
PanicCountsTwice(w) ==
    /\ "panic" \in Faults /\ MayExecute(w) /\ (req[w].kind = "vec" => ~poisoned)
    /\ worker' = [worker EXCEPT ![w] = "dead"]
    /\ Answer({req[w].from})
    /\ req' = [req EXCEPT ![w] = None]
    /\ depth' = IF depth > 2 THEN depth - 2 ELSE 0
    /\ poisoned' = (poisoned \/ req[w].kind = "vec")
    /\ UNCHANGED <<queue, knnVars, compactVars>>

\* The engine panics: the worker is gone and its request dropped; an insertion
\* poisons the vec mutex.  With the last worker the channel goes, and what it holds.
Panic(w) ==
    LET last == \A u \in Worker \ {w} : worker[u] = "dead"
        lost == IF last THEN {queue[n].from : n \in DOMAIN queue} ELSE {}
    IN  /\ "panic" \in Faults /\ MayExecute(w) /\ (req[w].kind = "vec" => ~poisoned)
        /\ worker' = [worker EXCEPT ![w] = "dead"]
        /\ Answer(lost \cup {req[w].from})
        /\ req' = [req EXCEPT ![w] = None]
        /\ queue' = IF last THEN <<>> ELSE queue
        /\ poisoned' = (poisoned \/ req[w].kind = "vec")
        /\ UNCHANGED <<depth, knnVars, compactVars>>

-----------------------------------------------------------------------------
(* knn_endpoint: a permit for the handler, a blocking task for the search   *)

\* Seeded fault: one permit too many.
KnnStartExtra(c) ==
    /\ pc[c] = "idle" /\ permits <= KnnConcurrency
    /\ permits' = permits + 1
    /\ Goto(c, "knn")
    /\ UNCHANGED <<queueVars, orphans, compactVars, poisoned>>

KnnStart(c) ==
    /\ pc[c] = "idle" /\ permits < KnnConcurrency
    /\ permits' = permits + 1
    /\ Goto(c, "knn")
    /\ UNCHANGED <<queueVars, orphans, compactVars, poisoned>>

KnnFinish(c) ==
    /\ pc[c] = "knn" /\ VecFree
    /\ permits' = permits - 1
    /\ Goto(c, "idle")
    /\ UNCHANGED <<queueVars, orphans, compactVars, poisoned>>

OrphanFinish ==
    /\ orphans > 0 /\ VecFree
    /\ orphans' = orphans - 1
    /\ UNCHANGED <<pc, queueVars, permits, compactVars, poisoned>>

-----------------------------------------------------------------------------
(* compact_endpoint                                                         *)

\* Seeded fault: the flag is tested, not raised.
CompactStartUnflagged(c) ==
    /\ pc[c] = "idle" /\ ~flag /\ job = "none" /\ compacts < MaxCompacts
    /\ job' = "waiting" /\ compacts' = compacts + 1
    /\ Goto(c, "compact")
    /\ UNCHANGED <<queueVars, knnVars, flag, poisoned>>

\* The flag was down and is raised; the task is spawned.  (Found up: 409.)
CompactStart(c) ==
    /\ pc[c] = "idle" /\ ~flag /\ compacts < MaxCompacts
    /\ flag' = TRUE /\ job' = "waiting" /\ compacts' = compacts + 1
    /\ Goto(c, "compact")
    /\ UNCHANGED <<queueVars, knnVars, poisoned>>

CompactLock ==
    /\ job = "waiting" /\ ~poisoned
    /\ job' = "running"
    /\ UNCHANGED <<pc, queueVars, knnVars, flag, compacts, poisoned>>

\* Seeded fault: the handler is not told.
CompactEndSilent ==
    /\ job = "running" \/ (job = "waiting" /\ poisoned)
    /\ job' = "none"
    /\ UNCHANGED <<pc, queueVars, knnVars, flag, compacts, poisoned>>

\* The task is over (a poisoned mutex is an error it returns); the handler, if it
\* is still there, goes on.
CompactEnd ==
    /\ job = "running" \/ (job = "waiting" /\ poisoned)
    /\ job' = "none"
    /\ pc' = [c \in Client |-> IF pc[c] = "compact" THEN "reset" ELSE pc[c]]
    /\ UNCHANGED <<queueVars, knnVars, flag, compacts, poisoned>>

CompactReset(c) ==
    /\ pc[c] = "reset"
    /\ flag' = FALSE
    /\ Goto(c, "idle")
    /\ UNCHANGED <<queueVars, knnVars, job, compacts, poisoned>>

\* The task panics: the handler gets a JoinError and returns it.
CompactPanic ==
    /\ "panic" \in Faults /\ job = "running"
    /\ job' = "none" /\ poisoned' = TRUE
    /\ Answer({c \in Client : pc[c] = "compact"})
    /\ UNCHANGED <<queueVars, knnVars, flag, compacts>>

-----------------------------------------------------------------------------
(* A client hangs up                                                        *)

Disown(r, c) == IF r # None /\ r.from = c THEN [from |-> None, kind |-> r.kind] ELSE r

Cancel(c) ==
    /\ "cancel" \in Faults /\ pc[c] \in {"await", "knn", "compact"}
    /\ pc[c] = "knn" => orphans < MaxOrphans
    /\ Goto(c, "idle")
    /\ queue' = [n \in DOMAIN queue |-> Disown(queue[n], c)]
    /\ req' = [w \in Worker |-> Disown(req[w], c)]
    /\ permits' = IF pc[c] = "knn" THEN permits - 1 ELSE permits
    /\ orphans' = IF pc[c] = "knn" THEN orphans + 1 ELSE orphans
    /\ UNCHANGED <<depth, worker, compactVars, poisoned>>

ClientStep(c) ==
    \/ \E k \in Kind : EnqueueCount(c, k)
    \/ KnnStart(c) \/ CompactStart(c) \/ Cancel(c)

\* What a handler does without waiting for anyone.
HandlerStep(c) ==
    \/ EnqueueFull(c) \/ CompactReset(c)
    \/ \E k \in Kind : EnqueueSend(c, k)

WorkerStep(w) == Take(w) \/ Execute(w) \/ CountDown(w) \/ Reply(w)

Next ==
    \/ \E c \in Client : ClientStep(c) \/ HandlerStep(c) \/ KnnFinish(c)
    \/ \E w \in Worker : WorkerStep(w) \/ Panic(w)
    \/ OrphanFinish \/ CompactLock \/ CompactEnd \/ CompactPanic

(* Threads that can run do run: the workers are threads of their own that   *)
(* poll for ever, the blocking tasks are threads too, and a handler runs    *)
(* when what it awaits is there.  Nothing obliges a client to call.         *)
Fairness ==
    /\ \A c \in Client : WF_vars(HandlerStep(c)) /\ WF_vars(KnnFinish(c))
    /\ \A w \in Worker : WF_vars(WorkerStep(w))
    /\ WF_vars(OrphanFinish) /\ WF_vars(CompactLock) /\ WF_vars(CompactEnd)

Spec == Init /\ [][Next]_vars /\ Fairness

-----------------------------------------------------------------------------
(* Properties                                                               *)

Enqueueing == {c \in Client : pc[c] \in {"send_kv", "send_vec", "full"}}
Uncounted == {w \in Worker : worker[w] \in {"busy", "done"}}

\* queue_depth counts the writes accepted and not carried out yet, and the handlers
\* about to enqueue or to give up: backpressure sees the load there is (try_enqueue,
\* handle_write_req).
DepthExact == depth = Len(queue) + Cardinality(Enqueueing) + Cardinality(Uncounted)

\* That holds until a worker panics; hang-ups do not disturb it.
DepthExactUnlessPanic == (\A w \in Worker : worker[w] # "dead") => DepthExact

\* The depth never falls below the load, whatever panics and hang-ups happen, so the
\* queue is never overfilled for want of counting.
DepthCovers == depth >= Len(queue) + Cardinality(Enqueueing) + Cardinality(Uncounted)

\* While a compaction runs /health says unavailable (compact_endpoint, health).
FlagCoversCompaction == job # "none" => flag

\* The flag is up only while a compaction or its handler is at work.
FlagMeansCompacting ==
    flag => job # "none" \/ \E c \in Client : pc[c] \in {"compact", "reset"}

\* No more searches run at a time than KNN_CONCURRENCY, "a hard cap on blocking threads".
KnnBounded == Cardinality({c \in Client : pc[c] = "knn"}) + orphans <= KnnConcurrency

\* A permit is held by each search whose client waits, and by no other: none leaks when a
\* client hangs up or a search ends, and the cap is kept (knn_endpoint).
PermitsExact ==
    /\ permits = Cardinality({c \in Client : pc[c] = "knn"})
    /\ permits <= KnnConcurrency

\* Every handler returns: an accepted write is answered even if the worker that took it
\* or all workers panic (the oneshot sender is dropped with the worker or the channel), a
\* search gets its turn behind a compaction, and a compaction ends.
HandlersReturn == \A c \in Client : (pc[c] # "idle") ~> (pc[c] = "idle")

=============================================================================
