-------------------------------- MODULE Sharded --------------------------------
(***************************************************************************)
(* The sharding layer of sharded.rs: K engines behind one handle.  Items   *)
(* (vector ids; keys and tables) are routed to a shard by their hash.      *)
(* insert_vector_batch, create_vector_index, list_vector_ids, checkpoint,  *)
(* close and recover visit the shards one after the other and stop at the  *)
(* first error; search_knn asks all of them in threads of their own and    *)
(* merges what they answer.  Nothing makes a call atomic over the shards,  *)
(* so that calls of several clients, failures of single shards and the end *)
(* of the process fall between their steps.                                *)
(*                                                                         *)
(* Each shard is an Engine taken at its word: one of its operations is one *)
(* step (Engine, VecEngine and Nsw show what happens inside), its search   *)
(* answers its nearest vectors, and its files outlive the process.  What   *)
(* matters here is that an operation is logged before it may be refused,   *)
(* and that recovery carries out what is in the log.                       *)
(***************************************************************************)
EXTENDS Integers, Sequences, FiniteSets

CONSTANTS
    Client,
    Id,           \* vector ids
    Key,          \* keys and tables
    Hash,         \* [Id \cup Key -> Nat]: the id itself, or the hash of the key
    Dist,         \* [Id -> Nat]: distance to the query
    TopK,
    Batch,        \* the batches that are inserted: sets of ids
    ShardNum,     \* the numbers of shards the store is opened with
    MaxFailures,  \* bound: failing engine operations
    MaxCalls,     \* bound: calls of clients
    MaxOpens      \* bound: times the store is opened

Item == Id \cup Key
Shard == UNION {0 .. n - 1 : n \in ShardNum}

ASSUME ShardedAssumption ==
    /\ Hash \in [Item -> Nat] /\ Dist \in [Id -> Nat] /\ TopK \in Nat
    /\ \A B \in Batch : B \subseteq Id /\ B # {}
    /\ ShardNum \subseteq Nat \ {0} /\ ShardNum # {} /\ IsFiniteSet(ShardNum)
    /\ Id \cap Key = {} /\ IsFiniteSet(Id)
    /\ MaxFailures \in Nat /\ MaxCalls \in Nat /\ MaxOpens \in Nat

VARIABLES
    phase,     \* "closed", "opening" or "open"
    shards,    \* the number of shards, 0 if the store is not open
    opened,    \* shards opened so far
    schema,    \* opened with a schema
    stored,    \* per shard: the items it holds
    index,     \* per shard: it has a vector index
    log,       \* per shard: its operations since the last checkpoint
    call,      \* per client: the call it is in
    promised,  \* history: per item, whether it may be there
    hist,      \* history: "resized", "refused"
    lastNum,   \* history: the number of shards before
    failures, calls, opens

process == <<phase, shards, opened, schema>>
disk == <<stored, index, log>>
counters == <<failures, calls, opens>>
vars == <<process, disk, call, promised, hist, lastNum, counters>>

Ops == {"batch", "put", "delete", "create", "list", "search", "checkpoint", "recover"}

\* items: what a write is about; sole: the part no other call is or was about
\* meanwhile; next: the shard a call goes on with; left: the shards a search has still to
\* hear from; found: what was read; steady, seen: the ids that were there all
\* the time, or at some time, during the call; failed: shards that were left
\* out; logged: shards with something in the log since before a checkpoint.
CallRecord ==
    [op : Ops \cup {"none", "answer"}, items : SUBSET Item, sole : SUBSET Item,
     next : Shard,
     left : SUBSET Shard, found : SUBSET Id, steady : SUBSET Id, seen : SUBSET Id,
     failed : SUBSET Shard, logged : SUBSET Shard, of : Ops \cup {"none"}]

Idle == [op |-> "none", items |-> {}, sole |-> {}, next |-> 0, left |-> {}, found |-> {},
         steady |-> {}, seen |-> {}, failed |-> {}, logged |-> {}, of |-> "none"]

LogOp == [op : {"insert", "put", "delete"}, items : SUBSET Item]

TypeOK ==
    /\ phase \in {"closed", "opening", "open"}
    /\ shards \in {0} \cup ShardNum
    /\ opened \in 0 .. shards
    /\ schema \in BOOLEAN
    /\ stored \in [Shard -> SUBSET Item]
    /\ index \in [Shard -> BOOLEAN]
    /\ log \in [Shard -> Seq(LogOp)]
    /\ call \in [Client -> CallRecord]
    /\ promised \in [Item -> SUBSET BOOLEAN]
    /\ hist \subseteq {"resized", "refused"}
    /\ lastNum \in {0} \cup ShardNum
    /\ failures \in 0 .. MaxFailures /\ calls \in 0 .. MaxCalls /\ opens \in 0 .. MaxOpens

Init ==
    /\ phase = "closed" /\ shards = 0 /\ opened = 0 /\ schema = FALSE
    /\ stored = [s \in Shard |-> {}]
    /\ index = [s \in Shard |-> FALSE]
    /\ log = [s \in Shard |-> <<>>]
    /\ call = [c \in Client |-> Idle]
    /\ promised = [i \in Item |-> {FALSE}]
    /\ hist = {} /\ lastNum = 0
    /\ failures = 0 /\ calls = 0 /\ opens = 0

-----------------------------------------------------------------------------

(* HashRouter.                                                              *)
Home(i) == Hash[i] % shards

Ids(s) == stored[s] \cap Id
AllIds == UNION {Ids(s) : s \in 0 .. shards - 1}

\* The store now holds the ids now: a search or a listing under way takes note.
Noted(q, now) ==
    IF q.op \in {"search", "list"} THEN [q EXCEPT !.steady = @ \cap now, !.seen = @ \cup now] ELSE q

\* What is in the shards changes to st.
Watched(cs, st) ==
    [c \in Client |-> Noted(cs[c], UNION {st[s] \cap Id : s \in 0 .. shards - 1})]

\* The operations of the log of s that are about item i, by number.
About(s, i) == {n \in DOMAIN log[s] : i \in log[s][n].items}

\* What s holds when its log is carried out in order (replay_op: an id that is there is
\* skipped): the last operation about an item decides.
Replayed(s) ==
    {i \in Item :
        IF About(s, i) = {} THEN i \in stored[s]
        ELSE \E n \in About(s, i) :
                 log[s][n].op # "delete" /\ \A m \in About(s, i) : m <= n}

NeedsIndex(o) == o.items \cap Id # {}

\* Seeded fault: replaying an insertion that was carried out is an error.
ReplaysStrict(s, indexed) ==
    \A n \in DOMAIN log[s] :
        NeedsIndex(log[s][n]) => indexed /\ (log[s][n].op = "insert" => log[s][n].items \cap stored[s] = {})

\* ensure_vec fails on a shard without index.
Replays(s, indexed) == indexed \/ \A n \in DOMAIN log[s] : ~NeedsIndex(log[s][n])

-----------------------------------------------------------------------------
(* open_with_router                                                         *)

BeginOpen(n, withSchema) ==
    /\ phase = "closed" /\ opens < MaxOpens
    /\ phase' = "opening" /\ shards' = n /\ opened' = 0 /\ schema' = withSchema
    /\ hist' = IF lastNum \in {0, n} THEN hist ELSE hist \cup {"resized"}
    /\ lastNum' = n
    /\ opens' = opens + 1
    /\ UNCHANGED <<disk, call, promised, failures, calls>>

(* Engine::open of the next shard, recovery included.                       *)
OpenShard ==
    LET s == opened
    IN  /\ phase = "opening"
        /\ Replays(s, index[s] \/ schema)
        /\ index' = [index EXCEPT ![s] = @ \/ schema]
        /\ stored' = [stored EXCEPT ![s] = Replayed(s)]
        /\ log' = [log EXCEPT ![s] = <<>>]
        /\ opened' = s + 1
        /\ phase' = IF s + 1 = shards THEN "open" ELSE "opening"
        /\ UNCHANGED <<shards, schema, call, promised, hist, lastNum, counters>>

\* An error drops the engines opened so far.
OpenFails ==
    /\ phase = "opening"
    /\ ~Replays(opened, index[opened] \/ schema)
    /\ phase' = "closed" /\ shards' = 0 /\ opened' = 0 /\ schema' = FALSE
    /\ UNCHANGED <<disk, call, promised, hist, lastNum, counters>>

(* The store is dropped, or the process ends in the middle of calls.        *)
Drop ==
    /\ phase # "closed"
    /\ phase' = "closed" /\ shards' = 0 /\ opened' = 0 /\ schema' = FALSE
    /\ call' = [c \in Client |-> Idle]
    /\ promised' = [i \in Item |->
            IF \E c \in Client : i \in call[c].items THEN BOOLEAN ELSE promised[i]]
    /\ UNCHANGED <<disk, hist, lastNum, counters>>

-----------------------------------------------------------------------------
(* Calls                                                                    *)

Begin(c) ==
    /\ phase = "open" /\ call[c] = Idle
    /\ calls < MaxCalls /\ calls' = calls + 1
    /\ UNCHANGED <<process, disk, hist, lastNum, failures, opens>>

\* Nothing is promised of an item while a call is about it.
Write(c, op, items) ==
    LET others == UNION {call[d].items : d \in Client}
    IN  /\ Begin(c)
        /\ call' = [d \in Client |->
                IF d = c THEN [Idle EXCEPT !.op = op, !.items = items, !.sole = items \ others]
                ELSE [call[d] EXCEPT !.sole = @ \ items]]
        /\ promised' = [i \in Item |-> IF i \in items THEN BOOLEAN ELSE promised[i]]

Read(c, op) ==
    /\ Begin(c)
    /\ call' = [call EXCEPT ![c] = [Idle EXCEPT !.op = op, !.left = 0 .. shards - 1,
                                               !.steady = AllIds, !.seen = AllIds]]
    /\ UNCHANGED promised

Visit(c, op) ==
    /\ Begin(c)
    /\ call' = [call EXCEPT ![c] =
            [Idle EXCEPT !.op = op, !.logged = {s \in 0 .. shards - 1 : log[s] # <<>>}]]
    /\ UNCHANGED promised

\* The call of c returns Ok: its items are there, or not, from now on.
Settle(c, there) ==
    promised' = [i \in Item |-> IF i \in call[c].sole THEN {there} ELSE promised[i]]

Logged(s, op, items) == log' = [log EXCEPT ![s] = Append(@, [op |-> op, items |-> items])]

(* put_kv, put_columnar; delete_kv, delete_vector: one shard.               *)
PutItem(c) ==
    LET i == CHOOSE x \in call[c].items : TRUE
        st == [stored EXCEPT ![Home(i)] = @ \cup {i}]
    IN  /\ call[c].op = "put"
        /\ Logged(Home(i), "put", {i})
        /\ stored' = st
        /\ call' = [call EXCEPT ![c] = Idle]
        /\ Settle(c, TRUE)
        /\ UNCHANGED <<process, index, hist, lastNum, counters>>

DeleteItem(c) ==
    LET i == CHOOSE x \in call[c].items : TRUE
        s == Home(i)
        ok == i \in Key \/ index[s]
        st == [stored EXCEPT ![s] = @ \ {i}]
    IN  /\ call[c].op = "delete"
        /\ Logged(s, "delete", {i})
        /\ stored' = IF ok THEN st ELSE stored
        /\ call' = Watched([call EXCEPT ![c] = Idle], stored')
        /\ IF ok THEN Settle(c, FALSE) ELSE UNCHANGED promised
        /\ hist' = IF ok THEN hist ELSE hist \cup {"refused"}
        /\ UNCHANGED <<process, index, lastNum, counters>>

-----------------------------------------------------------------------------
(* insert_vector_batch: one bucket per shard, the shards in order           *)

\* Seeded fault: a batch is routed by a fixed number of shards.
BucketFixed(c) ==
    LET most == CHOOSE n \in ShardNum : \A m \in ShardNum : m <= n
    IN  {i \in call[c].items : Hash[i] % most = call[c].next}

Bucket(c) == {i \in call[c].items : Home(i) = call[c].next}

\* The call goes on with the next shard, or returns Ok.
Passed(c) ==
    IF call[c].next + 1 < shards THEN [call EXCEPT ![c].next = @ + 1] ELSE [call EXCEPT ![c] = Idle]

BatchShard(c) ==
    LET s == call[c].next
        B == Bucket(c)
        st == [stored EXCEPT ![s] = @ \cup B]
    IN  /\ call[c].op = "batch"
        /\ \/ B = {} /\ UNCHANGED log
           \/ B # {} /\ index[s] /\ B \cap stored[s] = {} /\ Logged(s, "insert", B)
        /\ stored' = st
        /\ call' = Watched(Passed(c), st)
        /\ IF Passed(c)[c] = Idle THEN Settle(c, TRUE) ELSE UNCHANGED promised
        /\ UNCHANGED <<process, index, hist, lastNum, counters>>

\* The bucket is in the log when the index refuses it: the call returns Err,
\* the shards before keep theirs, the shards behind are not asked.
BatchRefused(c) ==
    LET s == call[c].next
        B == Bucket(c)
    IN  /\ call[c].op = "batch"
        /\ B # {} /\ ~(index[s] /\ B \cap stored[s] = {})
        /\ Logged(s, "insert", B)
        /\ call' = [call EXCEPT ![c] = Idle]
        /\ hist' = IF index[s] THEN hist ELSE hist \cup {"refused"}
        /\ UNCHANGED <<process, stored, index, promised, lastNum, counters>>

-----------------------------------------------------------------------------
(* create_vector_index, checkpoint, close, recover: the shards in order     *)

\* VectorIndex::open; on a shard that has one the environment is open already.
CreateShard(c) ==
    LET s == call[c].next
    IN  /\ call[c].op = "create"
        /\ IF index[s] THEN call' = [call EXCEPT ![c] = Idle] /\ UNCHANGED index
           ELSE call' = Passed(c) /\ index' = [index EXCEPT ![s] = TRUE]
        /\ UNCHANGED <<process, stored, log, promised, hist, lastNum, counters>>

Truncated(cs, s) == [d \in Client |-> [cs[d] EXCEPT !.logged = @ \ {s}]]

\* The answer of a call, for a property to look at.
Answer(c) == [call EXCEPT ![c].op = "answer", ![c].of = call[c].op]
PassedOrAnswer(c) ==
    IF call[c].next + 1 < shards THEN [call EXCEPT ![c].next = @ + 1] ELSE Answer(c)

\* Engine::checkpoint of the next shard.
CheckpointShard(c) ==
    LET s == call[c].next
    IN  /\ call[c].op = "checkpoint"
        /\ log' = [log EXCEPT ![s] = <<>>]
        /\ call' = Truncated(PassedOrAnswer(c), s)
        /\ UNCHANGED <<process, stored, index, promised, hist, lastNum, counters>>

\* Engine::recover of the next shard: what is in the log is carried out again.
RecoverShard(c) ==
    LET s == call[c].next
        st == [stored EXCEPT ![s] = Replayed(s)]
    IN  /\ call[c].op = "recover"
        /\ IF Replays(s, index[s])
           THEN /\ stored' = st
                /\ log' = [log EXCEPT ![s] = <<>>]
                /\ call' = Watched(Truncated(PassedOrAnswer(c), s), st)
           ELSE call' = [call EXCEPT ![c] = Idle] /\ UNCHANGED <<stored, log>>
        /\ UNCHANGED <<process, index, promised, hist, lastNum, counters>>

\* Seeded fault: checkpoint and close pass over a shard that fails.
VisitFailsOver(c) ==
    /\ call[c].op \in {"checkpoint", "recover", "create", "batch", "list"}
    /\ failures < MaxFailures /\ failures' = failures + 1
    /\ call' = IF call[c].op = "checkpoint" THEN PassedOrAnswer(c) ELSE [call EXCEPT ![c] = Idle]
    /\ UNCHANGED <<process, disk, promised, hist, lastNum, calls, opens>>

(* An engine operation fails (I/O) before it has an effect: the call        *)
(* returns Err and leaves the shards behind as they are.                    *)
VisitFails(c) ==
    /\ call[c].op \in {"checkpoint", "recover", "create", "batch", "list"}
    /\ failures < MaxFailures /\ failures' = failures + 1
    /\ call' = [call EXCEPT ![c] = Idle]
    /\ UNCHANGED <<process, disk, promised, hist, lastNum, calls, opens>>

-----------------------------------------------------------------------------
(* Reading                                                                  *)

\* R is what sorting S by distance and cutting it to TopK may leave.
Nearest(R, S) ==
    /\ R \subseteq S
    /\ Cardinality(R) = IF Cardinality(S) < TopK THEN Cardinality(S) ELSE TopK
    /\ \A r \in R, i \in S \ R : Dist[r] <= Dist[i]

\* Search q after the thread of shard s: with what it found, or without the shard.
Joined(q, s, found, failed) ==
    [q EXCEPT !.left = @ \ {s}, !.found = @ \cup found, !.failed = @ \cup failed]

(* search_knn: a thread per shard, in any order.                            *)
SearchShard(c, s) ==
    /\ call[c].op = "search" /\ s \in call[c].left
    /\ index[s]
    /\ \E R \in SUBSET Ids(s) :
          /\ Nearest(R, Ids(s))
          /\ call' = [call EXCEPT ![c] = Joined(@, s, R, {})]
    /\ UNCHANGED <<process, disk, promised, hist, lastNum, counters>>

\* A shard without index, or one that fails: logged and left out, unless it is
\* the only one.
SearchShardFails(c, s) ==
    /\ call[c].op = "search" /\ s \in call[c].left
    /\ \/ ~index[s] /\ UNCHANGED failures
       \/ failures < MaxFailures /\ failures' = failures + 1
    /\ call' = IF shards = 1 THEN [call EXCEPT ![c] = Idle]
               ELSE [call EXCEPT ![c] = Joined(@, s, {}, {s})]
    /\ UNCHANGED <<process, disk, promised, hist, lastNum, calls, opens>>

\* Seeded fault: the candidates are cut before they are sorted.
MergeUnsorted(c) ==
    /\ call[c].op = "search" /\ call[c].left = {}
    /\ \E R \in SUBSET call[c].found :
          /\ Cardinality(R) = IF Cardinality(call[c].found) < TopK THEN Cardinality(call[c].found) ELSE TopK
          /\ call' = [Answer(c) EXCEPT ![c].found = R]
    /\ UNCHANGED <<process, disk, promised, hist, lastNum, counters>>

(* The threads are joined, the candidates sorted and cut.                   *)
Merge(c) ==
    /\ call[c].op = "search" /\ call[c].left = {}
    /\ \E R \in SUBSET call[c].found :
          /\ Nearest(R, call[c].found)
          /\ call' = [Answer(c) EXCEPT ![c].found = R]
    /\ UNCHANGED <<process, disk, promised, hist, lastNum, counters>>

\* Seeded fault: the last shard is not read.
ListShardShort(c) ==
    /\ call[c].op = "list"
    /\ call' = IF call[c].next + 2 < shards
               THEN [call EXCEPT ![c].found = @ \cup Ids(call[c].next), ![c].next = @ + 1]
               ELSE [Answer(c) EXCEPT ![c].found = @ \cup Ids(call[c].next)]
    /\ UNCHANGED <<process, disk, promised, hist, lastNum, counters>>

(* list_vector_ids: the shards in order; a shard without index fails it.    *)
ListShard(c) ==
    LET s == call[c].next
    IN  /\ call[c].op = "list"
        /\ call' = IF index[s] THEN [PassedOrAnswer(c) EXCEPT ![c].found = @ \cup Ids(s)]
                   ELSE [call EXCEPT ![c] = Idle]
        /\ UNCHANGED <<process, disk, promised, hist, lastNum, counters>>

Return(c) ==
    /\ call[c].op = "answer"
    /\ call' = [call EXCEPT ![c] = Idle]
    /\ UNCHANGED <<process, disk, promised, hist, lastNum, counters>>

-----------------------------------------------------------------------------

Next ==
    \/ \E n \in ShardNum, withSchema \in BOOLEAN : BeginOpen(n, withSchema)
    \/ OpenShard \/ OpenFails \/ Drop
    \/ \E c \in Client :
        \/ \E B \in Batch : Write(c, "batch", B)
        \/ \E k \in Key : Write(c, "put", {k})
        \/ \E i \in Item : Write(c, "delete", {i})
        \/ \E op \in {"search", "list"} : Read(c, op)
        \/ \E op \in {"create", "checkpoint", "recover"} : Visit(c, op)
        \/ PutItem(c) \/ DeleteItem(c)
        \/ BatchShard(c) \/ BatchRefused(c)
        \/ CreateShard(c) \/ CheckpointShard(c) \/ RecoverShard(c) \/ VisitFails(c)
        \/ \E s \in Shard : SearchShard(c, s) \/ SearchShardFails(c, s)
        \/ Merge(c) \/ ListShard(c) \/ Return(c)

Spec == Init /\ [][Next]_vars

-----------------------------------------------------------------------------
(* Properties                                                               *)

Answered(c, op) == call[c].op = "answer" /\ call[c].of = op

\* search_knn merges the global top-k: when every shard has answered, an id
\* that was there during the whole search and is not in the result is no nearer
\* than what is; and nothing is in the result that was never there.
Complete(c) ==
    /\ call[c].found \subseteq call[c].seen
    /\ \A i \in call[c].steady \ call[c].found :
          /\ Cardinality(call[c].found) = TopK
          /\ \A r \in call[c].found : Dist[r] <= Dist[i]

MergesTopK == \A c \in Client : Answered(c, "search") /\ call[c].failed = {} => Complete(c)

\* Without the condition: a shard that fails is left out silently.
AlwaysMergesTopK == \A c \in Client : Answered(c, "search") => Complete(c)

\* list_vector_ids, which reads the shards one after the other, has every id
\* that was there during the whole call, and none that never was.
ListsAll ==
    \A c \in Client : Answered(c, "list") =>
        call[c].steady \subseteq call[c].found /\ call[c].found \subseteq call[c].seen

\* A checkpoint or close that returns Ok has truncated, on every shard, what
\* was logged before it began.
CheckpointsAll == \A c \in Client : Answered(c, "checkpoint") => call[c].logged = {}

\* Where an item is looked for, it is found or not, as the last call about it
\* left it, whoever opened the store since: as long as the number of shards is
\* the same.
KeepsItems ==
    phase = "open" => \A i \in Item : (i \in stored[Home(i)]) \in promised[i]

KeepsItemsUnlessResized == "resized" \notin hist => KeepsItems

\* The store opens, as long as no vector operation came to a shard without index.
OpensUnlessRefused ==
    "refused" \notin hist /\ phase = "opening" => Replays(opened, index[opened] \/ schema)

\* "the schemas of the shards agree (they are created together), the first one
\* will do" (open_vector_index).
SchemasAgree ==
    phase = "open" /\ (\A c \in Client : call[c].op # "create") =>
        \A s, t \in 0 .. shards - 1 : index[s] = index[t]

=============================================================================
