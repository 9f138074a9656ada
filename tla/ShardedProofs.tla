----------------------------- MODULE ShardedProofs -----------------------------
(***************************************************************************)
(* The sharding layer, for every number of shards, clients, ids, keys and  *)
(* batches, every routing hash and every distance: the five invariants of  *)
(* Sharded.  ShardedSteps has the invariant, and that reading, visiting    *)
(* the shards in order and writing one item keep it; here are the steps of *)
(* batches, opens and searches, and the theorems.                          *)
(***************************************************************************)
EXTENDS ShardedSteps

-----------------------------------------------------------------------------
(* Writing a batch                                                          *)

\* BatchRefused: a bucket is logged and refused; the call is given up.
LEMMA BatchRefusedStep ==
    ASSUME ShardedInv, NEW c \in Client, BatchRefused(c)
    PROVE  ShardedInv'
<1>0. /\ call[c].op = "batch" /\ call[c].op \in Ops /\ shards' = shards
      /\ index' = index /\ stored' = stored /\ promised' = promised /\ UNCHANGED <<process, lastNum>>
      /\ UNCHANGED counters
      /\ call' = [call EXCEPT ![c] = Idle]
  BY DEF BatchRefused, Ops, process
<1>1. /\ phase = "open" /\ TypeOK /\ CallInv(c) /\ shards \in ShardNum /\ call \in [Client -> CallRecord]
  BY <1>0, InCall
<1>2. PICK s \in Shard : s = call[c].next /\ s \in Open
  BY <1>0, InCall
<1>3. PICK B \in SUBSET Item : B = Bucket(c) /\ (\A i \in B : Home(i) = s) /\ B \subseteq call[c].items
  <2>1. Bucket(c) \subseteq call[c].items /\ call[c].items \subseteq Item /\ \A i \in Bucket(c) : Home(i) = s
    BY <1>1, <1>2 DEF Bucket, TypeOK, CallRecord
  <2> QED
    BY <2>1
<1>4. /\ Logged(s, "insert", B) /\ hist' = IF index[s] THEN hist ELSE hist \cup {"refused"}
  BY <1>2, <1>3 DEF BatchRefused
<1>5. /\ hist \subseteq hist' /\ hist' \subseteq {"resized", "refused"}
      /\ (index[s] \/ "refused" \in hist')
  BY <1>1, <1>4 DEF TypeOK
<1>6. LogsHomed' /\ IndexInv' /\ log' \in [Shard -> Seq(LogOp)]
  BY <1>0, <1>1, <1>2, <1>3, <1>4, <1>5, LogHome
<1>7. /\ call' \in [Client -> CallRecord] /\ call'[c] = Idle
      /\ \A d \in Client : d # c => call'[d] = call[d]
  BY <1>0, <1>1, EndedFacts
<1>8. TypeOK'
  BY <1>0, <1>1, <1>5, <1>6, <1>7 DEF TypeOK, process, counters
<1>9. StraysStay /\ AllIds' = AllIds
  BY <1>0 DEF StraysStay, AllIds, Ids
<1>10. \A d \in Client \ {c} : Bystander(d)
  BY <1>0, <1>7, <1>9, SameBystander
<1>11. ASSUME NEW j \in Item \ call[c].items
       PROVE  promised'[j] = promised[j] /\ Kept(j)
  <2>1. j \notin B
    BY <1>3
  <2> QED
    BY <1>0, <1>1, <1>3, <1>4, <2>1, LoggedItem
<1>12. \A j \in call[c].items : promised'[j] = BOOLEAN
  BY <1>0 DEF ShardedInv, ItemsInv
<1> QED
  BY <1>0, <1>1, <1>5, <1>6, <1>7, <1>8, <1>9, <1>10, <1>11, <1>12, EndedInv, OpenStep, Zenon

\* BatchShard: a bucket is stored at its home, and the batch goes on or returns Ok.
LEMMA BatchShardStep ==
    ASSUME ShardedInv, NEW c \in Client, BatchShard(c)
    PROVE  ShardedInv'
<1> DEFINE q == Passed(c)
<1>0. /\ call[c].op = "batch" /\ call[c].op \in Ops /\ shards' = shards
      /\ index' = index /\ UNCHANGED <<process, lastNum>> /\ hist' = hist
      /\ UNCHANGED counters
      /\ call' = Watched(q, stored')
      /\ IF q[c] = Idle THEN Settle(c, TRUE) ELSE promised' = promised
  BY Zenon DEF BatchShard, Ops, process
<1>1. /\ phase = "open" /\ TypeOK /\ CallInv(c) /\ BatchInv(c) /\ call \in [Client -> CallRecord]
      /\ shards \in ShardNum /\ shards \in Nat /\ Open \subseteq Shard
  BY <1>0, InCall
<1>2. PICK s \in Shard : s = call[c].next /\ s \in Open /\ s \in Nat /\ s < shards
  BY <1>0, InCall
<1>3. PICK B \in SUBSET Item : B = {i \in call[c].items : Home(i) = s} /\ B = Bucket(c)
  <2>1. Bucket(c) \subseteq Item /\ Bucket(c) = {i \in call[c].items : Home(i) = s}
    BY <1>1, <1>2 DEF Bucket, TypeOK, CallRecord
  <2> QED
    BY <2>1
<1>4. /\ stored' = [stored EXCEPT ![s] = stored[s] \cup B]
      /\ (B = {} /\ log' = log) \/ (index[s] /\ Logged(s, "insert", B))
  BY <1>2, <1>3, Zenon DEF BatchShard
<1>5. /\ stored' \in [Shard -> SUBSET Item] /\ (\A i \in B : i \in stored'[s])
      /\ \A t \in Shard, j \in Item : (j \notin B \/ t # s) => (j \in stored'[t] <=> j \in stored[t])
  BY <1>1, <1>3, <1>4 DEF TypeOK
<1>6. LogsHomed' /\ IndexInv' /\ log' \in [Shard -> Seq(LogOp)]
  <2>1. CASE log' = log
    <3>1. LogsHomed'
      BY <1>0, <2>1 DEF ShardedInv, LogsHomed, Home, process
    <3>2. IndexInv'
      BY <1>0, <2>1 DEF ShardedInv, IndexInv, NeedsIndex
    <3> QED
      BY <1>1, <2>1, <3>1, <3>2 DEF TypeOK
  <2>2. CASE index[s] /\ Logged(s, "insert", B)
    BY <1>0, <1>1, <1>2, <1>3, <2>2, LogHome
  <2> QED
    BY <1>4, <2>1, <2>2
<1>7. /\ q \in [Client -> CallRecord]
      /\ \A d \in Client : d # c => q[d] = call[d]
      /\ IF s + 1 < shards
         THEN /\ q[c].op = call[c].op /\ q[c].next = s + 1 /\ q[c].left = call[c].left
              /\ q[c].items = call[c].items /\ q[c].sole = call[c].sole
         ELSE q[c] = Idle
  BY <1>0, <1>2, PassedFacts
<1> HIDE DEF q
<1>8. call' \in [Client -> CallRecord] /\ call'[c] = q[c]
  <2>1. q[c].op \notin {"search", "list"}
    BY <1>0, <1>7, IdleFacts
  <2> QED
    BY <1>0, <1>7, <2>1, WatchedFacts
<1>9. q[c] = Idle <=> ~(s + 1 < shards)
  BY <1>0, <1>7, IdleFacts
<1>10. /\ promised' \in [Item -> SUBSET BOOLEAN]
       /\ \A j \in Item : promised'[j] = IF q[c] = Idle /\ j \in call[c].sole THEN {TRUE} ELSE promised[j]
  <2>1. {TRUE} \in SUBSET BOOLEAN /\ promised \in [Item -> SUBSET BOOLEAN]
    BY <1>1 DEF TypeOK
  <2>2. CASE q[c] = Idle
    <3>1. Settle(c, TRUE)
      BY <1>0, <2>2, Zenon
    <3> QED
      BY <2>1, <2>2, <3>1, Zenon DEF Settle
  <2>3. CASE q[c] # Idle
    BY <1>0, <2>1, <2>3
  <2> QED
    BY <2>2, <2>3
<1>11. TypeOK'
  BY <1>0, <1>1, <1>5, <1>6, <1>8, <1>10 DEF TypeOK, process, counters
<1>12. StraysStay
  BY <1>1, <1>3, <1>5, Zenon DEF StraysStay
<1>13. ASSUME NEW d \in Client \ {c}
       PROVE  Bystander(d)
  <2>1. q[d] = call[d]
    BY <1>7
  <2> QED
    BY <1>0, <1>7, <2>1, WatchedBystander DEF SameCall
<1>14. ASSUME NEW j \in Item \ B
       PROVE  Kept(j)
  <2>1. \A t \in Shard : j \in stored'[t] <=> j \in stored[t]
    BY <1>5
  <2>2. CASE log' = log
    <3>1. PICK h \in Shard : Home(j) = h /\ Home(j)' = h /\ Replayed(Home(j))' = Replayed(h)'
      BY <1>0, <1>1, SameHome
    <3>2. j \in Replayed(h)' <=> j \in Replayed(h)
      BY <2>1, <2>2, ReplayedUnchanged
    <3> QED
      BY <2>1, <3>1, <3>2 DEF Kept
  <2>3. CASE Logged(s, "insert", B)
    BY <1>0, <1>1, <1>3, <2>1, <2>3, LoggedItem
  <2> QED
    BY <1>4, <2>2, <2>3
<1>15. ASSUME NEW j \in B
       PROVE  j \in stored'[Home(j)'] /\ j \in Replayed(Home(j))'
  <2>1. Logged(s, "insert", B)
    BY <1>4
  <2>2. (j \in Replayed(Home(j))' <=> "insert" # "delete") /\ Home(j)' = s
    BY <1>0, <1>1, <1>3, <2>1, LoggedItem
  <2> QED
    BY <1>5, <2>2
<1>16. ASSUME NEW j \in call[c].sole, Home(j) < s + 1
       PROVE  j \in stored'[Home(j)'] /\ j \in Replayed(Home(j))' /\ j \in Item
  <2>1. j \in call[c].items /\ j \in Item
    BY <1>1 DEF CallInv, TypeOK, CallRecord
  <2>2. Home(j) \in Nat /\ Home(j)' = Home(j)
    BY <1>0, <1>1, <2>1, HomeIsOpen, ShardFacts, Zenon DEF Home
  <2>3. CASE Home(j) = s
    BY <1>3, <1>15, <2>1, <2>3
  <2>4. CASE Home(j) < s
    <3>1. j \in stored[Home(j)] /\ j \in Replayed(Home(j)) /\ j \notin B
      BY <1>0, <1>1, <1>2, <1>3, <1>16, <2>2, <2>4 DEF BatchInv
    <3>2. Kept(j)
      BY <1>14, <2>1, <3>1
    <3> QED
      BY <2>1, <2>2, <3>1, <3>2 DEF Kept
  <2> QED
    BY <1>2, <1>16, <2>2, <2>3, <2>4
<1>17. \A j \in Item \ call[c].items : promised'[j] = promised[j] /\ Kept(j)
  BY <1>1, <1>3, <1>10, <1>14, Zenon DEF CallInv
<1>18. CASE s + 1 < shards
  <2>1. /\ call'[c].op = "batch" /\ call'[c].next = s + 1 /\ call'[c].left = call[c].left
        /\ call'[c].items = call[c].items /\ call'[c].sole = call[c].sole
    BY <1>0, <1>7, <1>8, <1>18, Zenon
  <2>2. CallInv(c)'
    BY <1>0, <1>1, <1>18, <2>1, Zenon DEF CallInv, Ops, Writes, Open
  <2>3. ReadInv(c)' /\ CheckpointInv(c)'
    BY <2>1, Zenon DEF ReadInv, CheckpointInv, Answered
  <2>4. BatchInv(c)'
    <3>1. \A j \in call[c].sole : Home(j)' = Home(j)
      BY <1>0 DEF Home
    <3> QED
      BY <1>16, <2>1, <3>1 DEF BatchInv
  <2>5. \A j \in call[c].items : promised'[j] = BOOLEAN
    <3>1. \A j \in call[c].items : j \in Item /\ promised[j] = BOOLEAN
      BY <1>1, Zenon DEF ShardedInv, ItemsInv, TypeOK, CallRecord
    <3> QED
      BY <1>9, <1>10, <1>18, <3>1, Zenon
  <2> QED
    BY <1>0, <1>1, <1>6, <1>11, <1>12, <1>13, <1>17, <2>1, <2>2, <2>3, <2>4, <2>5, OpenStep, Zenon
<1>19. CASE ~(s + 1 < shards)
  <2>1. call'[c] = Idle
    BY <1>8, <1>9, <1>19, Zenon
  <2>2. call'[c].items = {}
    BY <2>1, EndedInv, Zenon
  <2>3. ASSUME NEW j \in call[c].items
        PROVE  \/ promised'[j] = BOOLEAN
               \/ j \in call[c].sole /\ Allowed(j, stored[Home(j)])' /\ Allowed(j, Replayed(Home(j)))'
    <3>1. j \in Item /\ promised[j] = BOOLEAN
      BY <1>1 DEF ShardedInv, ItemsInv, TypeOK, CallRecord
    <3>2. CASE j \notin call[c].sole
      BY <1>10, <3>1, <3>2, Zenon
    <3>3. CASE j \in call[c].sole
      <4>1. promised'[j] = {TRUE}
        BY <1>9, <1>10, <1>19, <3>1, <3>3, Zenon
      <4>2. Home(j) < s + 1
        BY <1>1, <1>2, <1>19, <3>1, HomeIsOpen DEF Open
      <4>3. j \in stored'[Home(j)'] /\ j \in Replayed(Home(j))'
        BY <1>16, <3>3, <4>2
      <4> QED
        BY <3>3, <4>1, <4>3, Zenon DEF Allowed
    <3> QED
      BY <3>2, <3>3, Zenon
  <2> QED
    BY <1>0, <1>1, <1>6, <1>11, <1>12, <1>13, <1>17, <2>1, <2>2, <2>3, EndedInv, OpenStep
<1> QED
  BY <1>18, <1>19

\* What is promised is kept as long as the disks stay as they are and no more is promised.
LEMMA KeepFrame ==
    ASSUME KeepInv, UNCHANGED <<stored, log, lastNum>>, hist \subseteq hist',
           \A i \in Item : promised'[i] = promised[i] \/ promised'[i] = BOOLEAN
    PROVE  KeepInv'
<1>1. ASSUME NEW i \in Item, Allowed(i, stored[Hash[i] % lastNum]), Allowed(i, Replayed(Hash[i] % lastNum))
      PROVE  Allowed(i, stored[Hash[i] % lastNum])' /\ Allowed(i, Replayed(Hash[i] % lastNum))'
  <2>1. Replayed(Hash[i] % lastNum)' = Replayed(Hash[i] % lastNum)
    BY DEF Replayed, About
  <2> QED
    BY <1>1, <2>1, Zenon DEF Allowed
<1>2. ASSUME NEW i \in Item, FALSE \in promised[i]
      PROVE  FALSE \in promised'[i]
  BY <1>2, Zenon
<1> QED
  BY <1>1, <1>2, Zenon DEF KeepInv

\* Write: a write begins; nothing is promised of its items until it ends.
LEMMA WriteStep ==
    ASSUME ShardedInv, NEW c \in Client, NEW op \in Writes, NEW items \in SUBSET Item,
           op = "put" => \E k \in Key : items = {k},
           op = "delete" => \E i \in Item : items = {i},
           op = "batch" => items \subseteq Id,
           Write(c, op, items)
    PROVE  ShardedInv'
<1> DEFINE others == UNION {call[d].items : d \in Client}
<1> DEFINE q == [Idle EXCEPT !.op = op, !.items = items, !.sole = items \ others]
<1>0. /\ phase = "open" /\ call[c] = Idle /\ UNCHANGED <<process, disk, hist, lastNum, failures, opens>>
      /\ phase' = phase /\ shards' = shards /\ opened' = opened /\ stored' = stored /\ index' = index
      /\ log' = log /\ hist' = hist /\ lastNum' = lastNum /\ calls' = calls + 1 /\ calls < MaxCalls
  BY Zenon DEF Write, Begin, process, disk
<1>1. /\ TypeOK /\ shards \in ShardNum /\ shards \in Nat \ {0} /\ call \in [Client -> CallRecord]
      /\ call[c].items = {}
  BY <1>0, ShardFacts, IdleFacts DEF ShardedInv, ProcessInv, TypeOK
<1>3. call' = [d \in Client |-> IF d = c THEN q ELSE [call[d] EXCEPT !.sole = call[d].sole \ items]]
  BY Zenon DEF Write
<1> HIDE DEF others
<1>2. /\ q \in CallRecord /\ q.op = op /\ q.of = "none" /\ q.items = items /\ q.sole = items \ others
      /\ q.next = 0 /\ q.left = {}
  BY ShardFacts, Zenon DEF Idle, CallRecord, Ops, Writes
<1> HIDE DEF q
<1>4. call'[c] = q
  BY <1>3
<1>5. ASSUME NEW d \in Client, d # c
      PROVE  /\ call'[d] \in CallRecord /\ call'[d].sole = call[d].sole \ items
             /\ call'[d].op = call[d].op /\ call'[d].of = call[d].of /\ call'[d].items = call[d].items
             /\ call'[d].next = call[d].next /\ call'[d].left = call[d].left
             /\ call'[d].found = call[d].found /\ call'[d].failed = call[d].failed
             /\ call'[d].steady = call[d].steady /\ call'[d].seen = call[d].seen
             /\ call'[d].logged = call[d].logged
  <2>1. call'[d] = [call[d] EXCEPT !.sole = call[d].sole \ items] /\ call[d] \in CallRecord
    BY <1>1, <1>3, <1>5
  <2> QED
    BY <2>1 DEF CallRecord
<1>6. call' \in [Client -> CallRecord]
  BY <1>2, <1>3, <1>4, <1>5
<1>7. /\ promised' \in [Item -> SUBSET BOOLEAN]
      /\ \A i \in Item : promised'[i] = IF i \in items THEN BOOLEAN ELSE promised[i]
  <2>1. BOOLEAN \in SUBSET BOOLEAN /\ promised \in [Item -> SUBSET BOOLEAN]
    BY <1>1, Zenon DEF TypeOK
  <2> QED
    BY <2>1, Zenon DEF Write
<1>8. TypeOK'
  <2>1. calls' \in 0 .. MaxCalls
    BY <1>0, <1>1, ShardedAssumption DEF TypeOK
  <2> QED
    BY <1>0, <1>1, <1>6, <1>7, <2>1, Zenon DEF TypeOK, process, disk
<1>9. ProcessInv'
  BY <1>0, Zenon DEF ShardedInv, ProcessInv
<1>10. LogsHomed' /\ IndexInv'
  BY <1>0 DEF ShardedInv, LogsHomed, IndexInv, Home, NeedsIndex
<1>11. ItemsInv'
  <2>1. ASSUME NEW d \in Client, NEW i \in call'[d].items
        PROVE  promised'[i] = BOOLEAN
    <3>1. CASE d = c
      BY <1>2, <1>4, <1>7, <2>1, <3>1
    <3>2. CASE d # c
      <4>1. i \in call[d].items /\ i \in Item
        BY <1>1, <1>5, <2>1, <3>2, Zenon DEF CallRecord
      <4>2. promised[i] = BOOLEAN
        BY <4>1, Zenon DEF ShardedInv, ItemsInv
      <4> QED
        BY <1>7, <4>1, <4>2, Zenon
    <3> QED
      BY <3>1, <3>2, Zenon
  <2>2. ASSUME NEW d \in Client, NEW e \in Client, d # e
        PROVE  call'[d].sole \cap call'[e].items = {}
    <3>1. CASE d = c
      <4>1. call'[e].items \subseteq others
        BY <1>5, <2>2, <3>1 DEF others
      <4> QED
        BY <1>2, <1>4, <3>1, <4>1, Zenon
    <3>2. CASE d # c /\ e = c
      BY <1>2, <1>4, <1>5, <3>2, Zenon
    <3>3. CASE d # c /\ e # c
      <4>1. call[d].sole \cap call[e].items = {}
        BY <2>2, Zenon DEF ShardedInv, ItemsInv
      <4> QED
        BY <1>5, <3>3, <4>1
    <3> QED
      BY <3>1, <3>2, <3>3, Zenon
  <2> QED
    BY <2>1, <2>2 DEF ItemsInv
<1>12. KeepInv'
  BY <1>0, <1>7, KeepFrame DEF ShardedInv
<1>13. CallInv(c)' /\ ReadInv(c)' /\ CheckpointInv(c)' /\ BatchInv(c)'
  <2>1. CallInv(c)'
    BY <1>0, <1>1, <1>2, <1>4 DEF CallInv, Writes
  <2>2. ReadInv(c)' /\ CheckpointInv(c)'
    BY <1>2, <1>4, Zenon DEF ReadInv, CheckpointInv, Answered, Writes
  <2>3. BatchInv(c)'
    <3>1. ASSUME NEW i \in call'[c].sole
          PROVE  ~(Home(i)' < call'[c].next)
      <4>1. i \in Item /\ call'[c].next = 0
        BY <1>2, <1>4
      <4>2. Home(i)' \in Nat
        BY <1>0, <1>1, <4>1, HomeIsOpen, ShardFacts, Zenon DEF Home
      <4> QED
        BY <4>1, <4>2
    <3> QED
      BY <3>1 DEF BatchInv
  <2> QED
    BY <2>1, <2>2, <2>3, Zenon
<1>14. ASSUME NEW d \in Client, d # c
       PROVE  CallInv(d)' /\ ReadInv(d)' /\ CheckpointInv(d)' /\ BatchInv(d)'
  <2>1. CallInv(d) /\ ReadInv(d) /\ CheckpointInv(d) /\ BatchInv(d)
    BY Zenon DEF ShardedInv
  <2>2. CallInv(d)'
    BY <1>0, <1>5, <1>14, <2>1 DEF CallInv, Open
  <2>3. ReadInv(d)'
    <3>1. Open' = Open /\ AllIds' = AllIds /\ \A i, t : Dwells(i, t)' = Dwells(i, t)
      BY <1>0, Zenon DEF Open, AllIds, Ids, Dwells, Home
    <3> QED
      BY <1>5, <1>14, <2>1, <3>1, Zenon DEF ReadInv, Answered, Covered, Complete
  <2>4. CheckpointInv(d)'
    BY <1>0, <1>5, <1>14, <2>1, Zenon DEF CheckpointInv, Answered
  <2>5. BatchInv(d)'
    <3>1. \A i : Home(i)' = Home(i) /\ Replayed(Home(i))' = Replayed(Home(i))
      BY <1>0, Zenon DEF Home, Replayed, About
    <3> QED
      BY <1>0, <1>5, <1>14, <2>1, <3>1 DEF BatchInv
  <2> QED
    BY <2>2, <2>3, <2>4, <2>5
<1> QED
  BY <1>8, <1>9, <1>10, <1>11, <1>12, <1>13, <1>14 DEF ShardedInv

-----------------------------------------------------------------------------
(* Opening and dropping the store                                           *)

\* While nobody is in a call there is nothing to show of the clients.
LEMMA AllIdle ==
    ASSUME \A c \in Client : call'[c] = Idle
    PROVE  /\ \A c \in Client : CallInv(c)' /\ ReadInv(c)' /\ CheckpointInv(c)' /\ BatchInv(c)'
           /\ ItemsInv'
<1>1. \A c \in Client : call'[c].items = {} /\ call'[c].sole = {}
  BY EndedInv
<1> QED
  BY <1>1, EndedInv DEF ItemsInv

\* BeginOpen: the store is opened, with the number of shards it had or another one.
LEMMA BeginOpenStep ==
    ASSUME ShardedInv, NEW n \in ShardNum, NEW withSchema \in BOOLEAN, BeginOpen(n, withSchema)
    PROVE  ShardedInv'
<1>0. /\ phase = "closed" /\ phase' = "opening" /\ shards' = n /\ opened' = 0 /\ lastNum' = n
      /\ stored' = stored /\ index' = index /\ log' = log /\ call' = call /\ promised' = promised
      /\ opens < MaxOpens /\ opens' = opens + 1 /\ failures' = failures /\ calls' = calls
      /\ schema' = withSchema
      /\ hist' = IF lastNum \in {0, n} THEN hist ELSE hist \cup {"resized"}
  BY DEF BeginOpen, disk
<1>1. TypeOK /\ n \in Nat \ {0} /\ \A c \in Client : call'[c] = Idle
  BY <1>0, ShardFacts, Zenon DEF ShardedInv, ProcessInv
<1>2. TypeOK'
  BY <1>0, <1>1, ShardedAssumption DEF TypeOK
<1>3. ProcessInv'
  BY <1>0, <1>1 DEF ProcessInv
<1>4. LogsHomed'
  BY <1>0 DEF LogsHomed
<1>5. IndexInv'
  BY <1>0 DEF ShardedInv, IndexInv, NeedsIndex
<1>6. KeepInv'
  <2>1. SUFFICES ASSUME "resized" \notin hist', NEW i \in Item
                 PROVE  Allowed(i, stored[Hash[i] % lastNum])' /\ Allowed(i, Replayed(Hash[i] % lastNum))'
    BY <1>0, <1>1, Zenon DEF KeepInv
  <2>2. lastNum \in {0, n} /\ "resized" \notin hist
    BY <1>0, <2>1
  <2>3. PICK h \in Shard : h = Hash[i] % n
    <3>1. \A a \in Nat, b \in Nat \ {0} : a % b \in 0 .. b - 1
      OBVIOUS
    <3>2. Hash[i] \in Nat /\ 0 .. n - 1 \subseteq Shard
      BY ShardedAssumption, ShardFacts, Zenon
    <3> QED
      BY <1>1, <3>1, <3>2
  <2>4. Replayed(Hash[i] % lastNum)' = Replayed(h)
    BY <1>0, <2>3 DEF Replayed, About
  <2>5. CASE lastNum = n
    <3>1. Allowed(i, stored[h]) /\ Allowed(i, Replayed(h))
      BY <1>1, <2>2, <2>3, <2>5 DEF ShardedInv, KeepInv
    <3> QED
      BY <1>0, <2>3, <2>4, <3>1, Zenon DEF Allowed
  <2>6. CASE lastNum = 0
    <3>1. stored[h] = {} /\ log[h] = <<>> /\ FALSE \in promised[i]
      BY <2>2, <2>6, Zenon DEF ShardedInv, KeepInv
    <3>2. i \notin Replayed(h)
      <4>1. About(h, i) = {}
        BY <3>1 DEF About
      <4> QED
        BY <3>1, <4>1 DEF Replayed
    <3> QED
      BY <1>0, <2>3, <2>4, <3>1, <3>2, Zenon DEF Allowed
  <2> QED
    BY <2>2, <2>5, <2>6
<1> QED
  BY <1>1, <1>2, <1>3, <1>4, <1>5, <1>6, AllIdle DEF ShardedInv

\* OpenShard: the next shard carries out its log.
LEMMA OpenShardStep ==
    ASSUME ShardedInv, OpenShard
    PROVE  ShardedInv'
<1>0. /\ phase = "opening" /\ phase' = IF opened + 1 = shards THEN "open" ELSE "opening"
      /\ opened' = opened + 1 /\ shards' = shards /\ schema' = schema /\ call' = call
      /\ promised' = promised /\ hist' = hist /\ lastNum' = lastNum
      /\ failures' = failures /\ calls' = calls /\ opens' = opens
  BY Zenon DEF OpenShard, counters
<1>1. /\ TypeOK /\ shards \in ShardNum /\ shards \in Nat \ {0} /\ shards = lastNum /\ opened < shards
      /\ opened \in Nat /\ \A c \in Client : call'[c] = Idle
  BY <1>0, ShardFacts DEF ShardedInv, ProcessInv, TypeOK
<1>2. PICK s \in Shard : s = opened /\ s \in Nat
  BY <1>1, ShardFacts
<1>3. /\ index' = [index EXCEPT ![s] = index[s] \/ schema]
      /\ stored' = [stored EXCEPT ![s] = Replayed(s)] /\ log' = [log EXCEPT ![s] = <<>>]
  BY <1>2, Zenon DEF OpenShard
<1>4. /\ stored' \in [Shard -> SUBSET Item] /\ index' \in [Shard -> BOOLEAN]
      /\ log' \in [Shard -> Seq(LogOp)]
      /\ stored'[s] = Replayed(s) /\ log'[s] = <<>>
      /\ \A t \in Shard : index[t] => index'[t]
      /\ \A t \in Shard : t # s => stored'[t] = stored[t] /\ log'[t] = log[t]
  <2>1. Replayed(s) \subseteq Item
    BY DEF Replayed
  <2>2. (index[s] \/ schema) \in BOOLEAN
    BY Zenon
  <2> QED
    BY <1>1, <1>3, <2>1, <2>2 DEF TypeOK
<1>5. TypeOK'
  BY <1>0, <1>1, <1>4 DEF TypeOK
<1>6. ProcessInv'
  BY <1>0, <1>1 DEF ProcessInv
<1>7. LogsHomed'
  <2>1. SUFFICES ASSUME NEW t \in 0 .. opened, NEW m \in DOMAIN log'[t], NEW i \in log'[t][m].items
                 PROVE  Home(i)' = t
    BY <1>0, <1>1 DEF LogsHomed
  <2>2. t \in Shard /\ t # s /\ t \in 0 .. opened - 1
    BY <1>1, <1>2, <1>4, ShardFacts
  <2>3. Home(i) = t
    BY <1>4, <2>1, <2>2, Zenon DEF ShardedInv, LogsHomed
  <2> QED
    BY <1>0, <2>3 DEF Home
<1>8. IndexInv'
  BY <1>0, <1>4 DEF ShardedInv, IndexInv, NeedsIndex
<1>9. KeepInv'
  <2>1. SUFFICES ASSUME "resized" \notin hist, NEW i \in Item
                 PROVE  Allowed(i, stored[Hash[i] % lastNum])' /\ Allowed(i, Replayed(Hash[i] % lastNum))'
    BY <1>0, <1>1, Zenon DEF KeepInv
  <2>2. PICK h \in Shard : h = Hash[i] % lastNum
    BY <1>1, HomeIsOpen, Zenon
  <2>3. Replayed(Hash[i] % lastNum)' = Replayed(h)'
    BY <1>0, <2>2, Zenon DEF Replayed, About
  <2>4. Allowed(i, stored[h]) /\ Allowed(i, Replayed(h))
    BY <1>1, <2>1, <2>2 DEF ShardedInv, KeepInv
  <2>5. CASE h = s
    <3>1. i \in Replayed(h)' <=> i \in stored'[h]
      BY <1>4, <2>5, ReplayedTruncated
    <3> QED
      BY <1>0, <1>4, <2>2, <2>3, <2>4, <2>5, <3>1, Zenon DEF Allowed
  <2>6. CASE h # s
    <3>1. i \in Replayed(h)' <=> i \in Replayed(h)
      BY <1>4, <2>6, ReplayedUnchanged
    <3> QED
      BY <1>0, <1>4, <2>2, <2>3, <2>4, <2>6, <3>1, Zenon DEF Allowed
  <2> QED
    BY <2>5, <2>6
<1> QED
  BY <1>1, <1>5, <1>6, <1>7, <1>8, <1>9, AllIdle DEF ShardedInv

\* OpenFails and Drop: the process ends, the disks stay.
LEMMA ClosedStep ==
    ASSUME ShardedInv, OpenFails \/ Drop
    PROVE  ShardedInv'
<1>0. /\ phase' = "closed" /\ shards' = 0 /\ opened' = 0 /\ schema' = FALSE
      /\ stored' = stored /\ index' = index /\ log' = log /\ hist' = hist /\ lastNum' = lastNum
      /\ failures' = failures /\ calls' = calls /\ opens' = opens
  BY DEF OpenFails, Drop, disk, counters
<1>1. call' \in [Client -> CallRecord] /\ \A c \in Client : call'[c] = Idle
  <2>1. CASE OpenFails
    BY <2>1, Zenon DEF OpenFails, ShardedInv, ProcessInv, TypeOK
  <2>2. CASE Drop
    BY <2>2, IdleFacts DEF Drop
  <2> QED
    BY <2>1, <2>2, Zenon
<1>2. /\ promised' \in [Item -> SUBSET BOOLEAN]
      /\ \A i \in Item : promised'[i] = promised[i] \/ promised'[i] = BOOLEAN
  <2>0. promised \in [Item -> SUBSET BOOLEAN] /\ BOOLEAN \in SUBSET BOOLEAN
    BY DEF ShardedInv, TypeOK
  <2>1. CASE OpenFails
    BY <2>0, <2>1 DEF OpenFails
  <2>2. CASE Drop
    BY <2>0, <2>2, Zenon DEF Drop
  <2> QED
    BY <2>1, <2>2
<1>3. TypeOK'
  <2>1. shards' \in {0} \cup ShardNum /\ opened' \in 0 .. shards'
    <3>1. shards' = 0 /\ opened' = 0
      BY <1>0
    <3> QED
      BY <3>1
  <2>2. schema' \in BOOLEAN
    BY <1>0, Zenon
  <2>3. phase' \in {"closed", "opening", "open"}
    BY <1>0
  <2> QED
    BY <1>0, <1>1, <1>2, <2>1, <2>2, <2>3 DEF ShardedInv, TypeOK
<1>4. ProcessInv'
  BY <1>0, <1>1, Zenon DEF ProcessInv
<1>5. LogsHomed' /\ IndexInv'
  BY <1>0 DEF ShardedInv, LogsHomed, IndexInv, NeedsIndex
<1>6. KeepInv'
  BY <1>0, <1>2, KeepFrame DEF ShardedInv
<1> QED
  BY <1>1, <1>3, <1>4, <1>5, <1>6, AllIdle DEF ShardedInv

-----------------------------------------------------------------------------
(* The first state, and stuttering                                          *)

\* The invariant holds of a store that was never opened.
LEMMA InitShardedInv == Init => ShardedInv
<1> SUFFICES ASSUME Init PROVE ShardedInv
  OBVIOUS
<1>1. \A c \in Client : call[c] = Idle
  BY DEF Init
<1>2. TypeOK
  <2>1. call \in [Client -> CallRecord]
    BY IdleFacts DEF Init
  <2>2. {FALSE} \in SUBSET BOOLEAN
    OBVIOUS
  <2>3. promised \in [Item -> SUBSET BOOLEAN]
    BY <2>2, Zenon DEF Init
  <2>4. <<>> \in Seq(LogOp)
    OBVIOUS
  <2>5. log \in [Shard -> Seq(LogOp)]
    BY <2>4, Zenon DEF Init
  <2>6. shards \in {0} \cup ShardNum /\ opened \in 0 .. shards /\ lastNum \in {0} \cup ShardNum
    <3>1. shards = 0 /\ opened = 0 /\ lastNum = 0
      BY DEF Init
    <3> QED
      BY <3>1
  <2>7. schema \in BOOLEAN /\ index \in [Shard -> BOOLEAN]
    BY Zenon DEF Init
  <2>8. phase \in {"closed", "opening", "open"} /\ stored \in [Shard -> SUBSET Item] /\ hist = {}
    BY DEF Init
  <2>9. failures \in 0 .. MaxFailures /\ calls \in 0 .. MaxCalls /\ opens \in 0 .. MaxOpens
    <3>1. failures = 0 /\ calls = 0 /\ opens = 0
      BY DEF Init
    <3> QED
      BY <3>1, ShardedAssumption
  <2> QED
    BY <2>1, <2>3, <2>5, <2>6, <2>7, <2>8, <2>9 DEF TypeOK
<1>3. ProcessInv /\ LogsHomed
  BY <1>1 DEF Init, ProcessInv, LogsHomed
<1>4. IndexInv
  BY DEF Init, IndexInv
<1>5. \A i \in Item : FALSE \in promised[i]
  BY Zenon DEF Init
<1>6. KeepInv
  BY <1>5 DEF Init, KeepInv
<1>7. \A c \in Client : call[c].op = "none" /\ call[c].items = {} /\ call[c].sole = {}
  BY <1>1, IdleFacts
<1>8. ItemsInv
  BY <1>7 DEF ItemsInv
<1>9. ASSUME NEW c \in Client
      PROVE  CallInv(c) /\ ReadInv(c) /\ CheckpointInv(c) /\ BatchInv(c)
  BY <1>7, Zenon DEF CallInv, ReadInv, CheckpointInv, BatchInv, Answered, Ops, Writes
<1> QED
  BY <1>2, <1>3, <1>4, <1>6, <1>8, <1>9 DEF ShardedInv

\* Nothing happens.
LEMMA StutterStep ==
    ASSUME ShardedInv, UNCHANGED vars
    PROVE  ShardedInv'
<1>0. /\ phase' = phase /\ shards' = shards /\ opened' = opened /\ schema' = schema
      /\ stored' = stored /\ index' = index /\ log' = log /\ call' = call /\ promised' = promised
      /\ hist' = hist /\ lastNum' = lastNum /\ failures' = failures /\ calls' = calls /\ opens' = opens
  BY DEF vars, process, disk, counters
<1>1. TypeOK' /\ ProcessInv'
  BY <1>0, Zenon DEF ShardedInv, TypeOK, ProcessInv
<1>2. LogsHomed' /\ IndexInv' /\ ItemsInv'
  BY <1>0, Zenon DEF ShardedInv, LogsHomed, IndexInv, ItemsInv, Home, NeedsIndex
<1>3. KeepInv'
  BY <1>0, KeepFrame DEF ShardedInv
<1>4. ASSUME NEW c \in Client
      PROVE  CallInv(c)' /\ ReadInv(c)' /\ CheckpointInv(c)' /\ BatchInv(c)'
  <2>1. CallInv(c) /\ ReadInv(c) /\ CheckpointInv(c) /\ BatchInv(c)
    BY Zenon DEF ShardedInv
  <2>2. Open' = Open /\ AllIds' = AllIds /\ \A i, t : Dwells(i, t)' = Dwells(i, t)
    BY <1>0 DEF Open, AllIds, Ids, Dwells, Home
  <2>3. \A i : Home(i)' = Home(i) /\ Replayed(Home(i))' = Replayed(Home(i))
    BY <1>0, Zenon DEF Home, Replayed, About
  <2>4. CallInv(c)' /\ CheckpointInv(c)'
    BY <1>0, <2>1, <2>2, Zenon DEF CallInv, CheckpointInv, Answered
  <2>5. ReadInv(c)'
    BY <1>0, <2>1, <2>2, Zenon DEF ReadInv, Answered, Covered, Complete
  <2>6. BatchInv(c)'
    BY <1>0, <2>1, <2>3, Zenon DEF BatchInv
  <2> QED
    BY <2>4, <2>5, <2>6
<1> QED
  BY <1>1, <1>2, <1>3, <1>4 DEF ShardedInv


-----------------------------------------------------------------------------
(* Searching                                                                *)

INSTANCE FiniteSetTheorems

\* What a shard's nearest ids stand for: every id of the shard is among them or no nearer.
LEMMA NearestCovers ==
    ASSUME NEW S \in SUBSET Id, NEW R, Nearest(R, S), NEW i \in S
    PROVE  Covered(R, i)
<1>1. IsFiniteSet(S) /\ R \subseteq S
  BY ShardedAssumption, FS_Subset DEF Nearest
<1>2. CASE i \in R
  BY <1>2 DEF Covered
<1>3. CASE i \notin R
  <2>1. Cardinality(R) # Cardinality(S)
    BY <1>1, <1>3, FS_Subset, Zenon
  <2>2. Cardinality(R) = TopK /\ \A r \in R : Dist[r] <= Dist[i]
    BY <1>3, <2>1, Zenon DEF Nearest
  <2> QED
    BY <2>2 DEF Covered
<1> QED
  BY <1>2, <1>3, Zenon

\* Sorting the candidates and cutting them to TopK keeps what they stand for.
LEMMA MergeCovers ==
    ASSUME NEW F \in SUBSET Id, NEW R, Nearest(R, F), NEW i \in Id \ R, Covered(F, i)
    PROVE  Cardinality(R) = TopK /\ \A r \in R : Dist[r] <= Dist[i]
<1>1. IsFiniteSet(F) /\ R \subseteq F
  BY ShardedAssumption, FS_Subset DEF Nearest
<1>2. CASE i \in F
  <2>1. Cardinality(R) # Cardinality(F)
    BY <1>1, <1>2, FS_Subset, Zenon
  <2> QED
    BY <1>2, <2>1, Zenon DEF Nearest
<1>3. CASE i \notin F
  <2>1. PICK Q \in SUBSET F : Cardinality(Q) = TopK /\ \A r \in Q : Dist[r] <= Dist[i]
    BY <1>3, Zenon DEF Covered
  <2>2. Cardinality(F) \in Nat /\ TopK <= Cardinality(F) /\ TopK \in Nat
    BY <1>1, <2>1, FS_Subset, FS_CardinalityType, ShardedAssumption, Zenon
  <2>3. Cardinality(R) = TopK
    BY <2>2 DEF Nearest
  <2>4. IsFiniteSet(R)
    BY <1>1, FS_Subset, Zenon
  <2>5. ASSUME NEW r \in R
        PROVE  Dist[r] <= Dist[i]
    <3>1. CASE r \in Q
      BY <2>1, <3>1, Zenon
    <3>2. CASE r \notin Q
      <4>1. PICK q \in Q : q \notin R
        <5>1. ASSUME Q \subseteq R
              PROVE  FALSE
          BY <2>1, <2>3, <2>4, <3>2, <5>1, FS_Subset, Zenon
        <5> QED
          BY <5>1, Zenon
      <4>2. Dist[r] <= Dist[q] /\ Dist[q] <= Dist[i]
        BY <2>1, <4>1, Zenon DEF Nearest
      <4>3. r \in Id /\ q \in Id /\ Dist[r] \in Nat /\ Dist[q] \in Nat /\ Dist[i] \in Nat
        BY <1>1, <2>1, ShardedAssumption
      <4> QED
        BY <4>2, <4>3
    <3> QED
      BY <3>1, <3>2, Zenon
  <2> QED
    BY <2>3, <2>5, Zenon
<1> QED
  BY <1>2, <1>3, Zenon

\* SearchShard: the nearest ids of a shard join the candidates.
LEMMA SearchShardStep ==
    ASSUME ShardedInv, NEW c \in Client, NEW s \in Shard, SearchShard(c, s)
    PROVE  ShardedInv'
<1>0. /\ phase = "open" /\ shards \in ShardNum /\ shards' = shards /\ TypeOK
      /\ call[c].op = "search" /\ s \in call[c].left /\ CallInv(c) /\ ReadInv(c)
      /\ stored' = stored /\ index' = index
      /\ UNCHANGED <<process, stored, log, promised, hist, lastNum>>
  BY CallsNeedOpen, Zenon DEF SearchShard, ShardedInv, ProcessInv, process, disk
<1>1. PICK R \in SUBSET Ids(s) :
          Nearest(R, Ids(s)) /\ call' = [call EXCEPT ![c] = Joined(@, s, R, {})]
  BY Zenon DEF SearchShard
<1>2. Ids(s) \subseteq Id /\ R \subseteq Id
  BY Zenon DEF Ids
<1>3. /\ call' \in [Client -> CallRecord]
      /\ \A d \in Client : d # c => call'[d] = call[d]
      /\ call'[c].op = call[c].op /\ call'[c].of = call[c].of /\ call'[c].items = call[c].items
      /\ call'[c].sole = call[c].sole /\ call'[c].next = call[c].next
      /\ call'[c].left = call[c].left \ {s} /\ call'[c].found = call[c].found \cup R
      /\ call'[c].failed = call[c].failed /\ call'[c].steady = call[c].steady
      /\ call'[c].seen = call[c].seen
  <2>1. call \in [Client -> CallRecord] /\ call[c] \in CallRecord /\ R \in SUBSET Id
    BY <1>0, <1>2, Zenon DEF TypeOK
  <2>2. PICK F \in SUBSET Shard : F = {}
    BY Zenon
  <2> DEFINE j == Joined(call[c], s, R, F)
  <2>3. call' = [call EXCEPT ![c] = j]
    BY <1>1, <2>1, <2>2, Zenon
  <2>4. j \in CallRecord /\ OneLess(j, call[c], s, R, F)
    BY <2>1, JoinedFacts
  <2> HIDE DEF j
  <2> QED
    BY <2>1, <2>2, <2>3, <2>4, Zenon DEF OneLess
<1>4. TypeOK'
  BY <1>0, <1>3, Zenon DEF SearchShard, TypeOK, process, disk, counters
<1>5. Open' = Open /\ AllIds' = AllIds /\ s \in Open /\ \A i, t : Dwells(i, t)' = Dwells(i, t)
  BY <1>0, Zenon DEF Open, AllIds, Ids, CallInv, Ops, Dwells, Home
<1>6. CallInv(c)'
  BY <1>0, <1>3, <1>5, Zenon DEF CallInv
<1>7. ReadInv(c)'
  <2>1. R \subseteq AllIds
    BY <1>1, <1>5 DEF AllIds, Open
  <2>2. ASSUME NEW i \in call[c].steady, NEW t \in Open, Dwells(i, t),
               t \notin call'[c].left, t \notin call[c].failed
        PROVE  Covered(call'[c].found, i)
    <3>1. CASE t = s
      <4>1. i \in Ids(s)
        BY <1>0, <2>2, <3>1, Zenon DEF Dwells, Ids, TypeOK, CallRecord
      <4>2. Covered(R, i)
        BY <1>1, <1>2, <4>1, NearestCovers, Zenon
      <4> QED
        BY <1>3, <4>2, CoveredGrows
    <3>2. CASE t # s
      <4>1. Covered(call[c].found, i)
        BY <1>0, <1>3, <2>2, <3>2, Zenon DEF ReadInv
      <4> QED
        BY <1>3, <4>1, CoveredGrows
    <3> QED
      BY <3>1, <3>2, Zenon
  <2>3. /\ call'[c].steady \subseteq AllIds /\ AllIds \subseteq call'[c].seen
        /\ call'[c].found \subseteq call'[c].seen
    BY <1>0, <1>3, <2>1, Zenon DEF ReadInv
  <2> QED
    BY <1>0, <1>3, <1>5, <2>2, <2>3, Zenon DEF ReadInv, Answered, Covered
<1>8. CheckpointInv(c)' /\ BatchInv(c)'
  BY <1>0, <1>3, Zenon DEF CheckpointInv, BatchInv, Answered
<1> QED
  BY <1>0, <1>3, <1>4, <1>6, <1>7, <1>8, QuietStep, Zenon

\* Merge: the candidates are cut to the answer.
LEMMA MergeStep ==
    ASSUME ShardedInv, NEW c \in Client, Merge(c)
    PROVE  ShardedInv'
<1>0. /\ phase = "open" /\ shards \in ShardNum /\ shards' = shards /\ TypeOK
      /\ call[c].op = "search" /\ call[c].left = {} /\ CallInv(c) /\ ReadInv(c)
      /\ stored' = stored /\ index' = index
      /\ UNCHANGED <<process, stored, log, promised, hist, lastNum>>
  BY CallsNeedOpen DEF Merge, ShardedInv, ProcessInv, process, disk
<1>1. PICK R \in SUBSET call[c].found :
          Nearest(R, call[c].found) /\ call' = [Answer(c) EXCEPT ![c].found = R]
  BY Zenon DEF Merge
<1>2. call \in [Client -> CallRecord] /\ call[c].found \subseteq Id /\ call[c].op \in Ops
  BY <1>0, Zenon DEF TypeOK, CallRecord, Ops
<1>3. /\ call' \in [Client -> CallRecord]
      /\ \A d \in Client : d # c => call'[d] = call[d]
      /\ call'[c].op = "answer" /\ call'[c].of = "search" /\ call'[c].items = call[c].items
      /\ call'[c].sole = call[c].sole /\ call'[c].found = R
      /\ call'[c].failed = call[c].failed /\ call'[c].steady = call[c].steady
      /\ call'[c].seen = call[c].seen
  <2>1. /\ Answer(c) \in [Client -> CallRecord]
        /\ \A d \in Client : d # c => Answer(c)[d] = call[d]
        /\ Answer(c)[c].op = "answer" /\ Answer(c)[c].of = "search"
        /\ Answer(c)[c].items = call[c].items /\ Answer(c)[c].sole = call[c].sole
        /\ Answer(c)[c].failed = call[c].failed /\ Answer(c)[c].steady = call[c].steady
        /\ Answer(c)[c].seen = call[c].seen
    BY <1>0, <1>2, AnswerFacts, Zenon
  <2>2. R \subseteq Id
    BY <1>2
  <2> QED
    BY <1>1, <2>1, <2>2 DEF CallRecord
<1>4. TypeOK'
  BY <1>0, <1>3, Zenon DEF Merge, TypeOK, process, disk, counters
<1>5. CallInv(c)'
  BY <1>0, <1>3 DEF CallInv, Ops, Writes
<1>6. ReadInv(c)'
  <2>1. ASSUME call[c].failed = {}, NEW i \in call[c].steady \ R
        PROVE  Cardinality(R) = TopK /\ \A r \in R : Dist[r] <= Dist[i]
    <3>1. i \in AllIds
      BY <1>0, <2>1, Zenon DEF ReadInv
    <3>2. PICK s \in Open : Dwells(i, s)
      BY <1>0, <3>1, EachDwells
    <3>3. Covered(call[c].found, i) /\ i \in Id \ R
      BY <1>0, <2>1, <3>1, <3>2, EachDwells, Zenon DEF ReadInv
    <3> QED
      BY <1>1, <1>2, <3>3, MergeCovers
  <2>2. R \subseteq call[c].seen
    BY <1>0, Zenon DEF ReadInv
  <2>3. call'[c].failed = {} => Complete(c)'
    BY <1>3, <2>1, <2>2, Zenon DEF Complete
  <2> QED
    BY <1>3, <2>3, Zenon DEF ReadInv, Answered
<1>7. CheckpointInv(c)' /\ BatchInv(c)'
  BY <1>3 DEF CheckpointInv, BatchInv, Answered
<1> QED
  BY <1>0, <1>3, <1>4, <1>5, <1>6, <1>7, QuietStep, Zenon

-----------------------------------------------------------------------------
(* The theorems                                                             *)

\* A step of client c.
LEMMA ClientStep ==
    ASSUME ShardedInv, NEW c \in Client,
           \/ \E B \in Batch : Write(c, "batch", B)
           \/ \E k \in Key : Write(c, "put", {k})
           \/ \E i \in Item : Write(c, "delete", {i})
           \/ \E op \in {"search", "list"} : Read(c, op)
           \/ \E op \in {"create", "checkpoint", "recover"} : Visit(c, op)
           \/ PutItem(c) \/ DeleteItem(c)
           \/ BatchShard(c) \/ BatchRefused(c)
           \/ CreateShard(c) \/ CheckpointShard(c) \/ RecoverShard(c) \/ VisitFails(c)
           \/ \E s \in Shard : SearchShard(c, s) \/ SearchShardFails(c, s)
           \/ Merge(c) \/ ListShard(c) \/ Return(c)
    PROVE  ShardedInv'
<1>1. ASSUME NEW B \in Batch, Write(c, "batch", B)
      PROVE  ShardedInv'
  <2>1. B \subseteq Id /\ B \in SUBSET Item /\ "batch" \in Writes
    BY ShardedAssumption, Zenon DEF Item, Writes
  <2> QED
    BY <1>1, <2>1, WriteStep, Zenon
<1>2. ASSUME NEW k \in Key, Write(c, "put", {k})
      PROVE  ShardedInv'
  <2>1. {k} \in SUBSET Item /\ "put" \in Writes
    BY Zenon DEF Item, Writes
  <2> QED
    BY <1>2, <2>1, WriteStep, Zenon
<1>3. ASSUME NEW i \in Item, Write(c, "delete", {i})
      PROVE  ShardedInv'
  <2>1. {i} \in SUBSET Item /\ "delete" \in Writes
    BY Zenon DEF Writes
  <2> QED
    BY <1>3, <2>1, WriteStep, Zenon
<1>4. ASSUME NEW op \in {"search", "list"}, Read(c, op)
      PROVE  ShardedInv'
  BY <1>4, ReadStep, Zenon
<1>5. ASSUME NEW op \in {"create", "checkpoint", "recover"}, Visit(c, op)
      PROVE  ShardedInv'
  BY <1>5, VisitStep, Zenon
<1>6. CASE PutItem(c)
  BY <1>6, PutItemStep, Zenon
<1>7. CASE DeleteItem(c)
  BY <1>7, DeleteItemStep, Zenon
<1>8. CASE BatchShard(c)
  BY <1>8, BatchShardStep, Zenon
<1>9. CASE BatchRefused(c)
  BY <1>9, BatchRefusedStep, Zenon
<1>10. CASE CreateShard(c)
  BY <1>10, CreateShardStep, Zenon
<1>11. CASE CheckpointShard(c)
  BY <1>11, CheckpointShardStep, Zenon
<1>12. CASE RecoverShard(c)
  BY <1>12, RecoverShardStep, Zenon
<1>13. CASE VisitFails(c)
  BY <1>13, VisitFailsStep, Zenon
<1>14. ASSUME NEW s \in Shard, SearchShard(c, s) \/ SearchShardFails(c, s)
       PROVE  ShardedInv'
  BY <1>14, SearchShardStep, SearchShardFailsStep, Zenon
<1>15. CASE Merge(c)
  BY <1>15, MergeStep, Zenon
<1>16. CASE ListShard(c)
  BY <1>16, ListShardStep, Zenon
<1>17. CASE Return(c)
  BY <1>17, ReturnStep
<1> QED
  BY <1>1, <1>2, <1>3, <1>4, <1>5, <1>6, <1>7, <1>8, <1>9, <1>10, <1>11, <1>12, <1>13, <1>14,
     <1>15, <1>16, <1>17, Zenon

\* The invariant holds in every state the store can reach, whatever the calls of the clients
\* interleave with, whichever shards fail and whenever the process ends.
THEOREM ShardedInvariantHolds == Spec => []ShardedInv
<1>1. Init => ShardedInv
  BY InitShardedInv
<1>2. ShardedInv /\ [Next]_vars => ShardedInv'
  <2> SUFFICES ASSUME ShardedInv, [Next]_vars
               PROVE  ShardedInv'
    OBVIOUS
  <2>1. ASSUME NEW n \in ShardNum, NEW withSchema \in BOOLEAN, BeginOpen(n, withSchema)
        PROVE  ShardedInv'
    BY <2>1, BeginOpenStep
  <2>2. CASE OpenShard
    BY <2>2, OpenShardStep
  <2>3. CASE OpenFails \/ Drop
    BY <2>3, ClosedStep
  <2>4. CASE UNCHANGED vars
    BY <2>4, StutterStep
  <2> QED
    BY <2>1, <2>2, <2>3, <2>4, ClientStep, Zenon DEF Next
<1> QED
  BY <1>1, <1>2, PTL DEF Spec

\* search_knn: when every shard has answered, no id that was there during the whole search
\* and is missing from the result is nearer than what the result has.
THEOREM SearchesMergeTopK == Spec => []MergesTopK
<1>1. ShardedInv => MergesTopK
  BY Zenon DEF ShardedInv, ReadInv, MergesTopK
<1> QED
  BY <1>1, ShardedInvariantHolds, PTL

\* list_vector_ids: every id that was there during the whole call, and none that never was.
THEOREM ListingsListAll == Spec => []ListsAll
<1>1. ShardedInv => ListsAll
  BY Zenon DEF ShardedInv, ReadInv, ListsAll
<1> QED
  BY <1>1, ShardedInvariantHolds, PTL

\* checkpoint, close: an Ok means that what was logged before is truncated on every shard.
THEOREM CheckpointsCoverAll == Spec => []CheckpointsAll
<1>1. ShardedInv => CheckpointsAll
  BY Zenon DEF ShardedInv, CheckpointInv, CheckpointsAll
<1> QED
  BY <1>1, ShardedInvariantHolds, PTL

\* While the number of shards stays the same, an item is where it is looked for, or not, as
\* the last call about it left it, across the ends of the process and replays.
THEOREM ItemsKeptUnlessResized == Spec => []KeepsItemsUnlessResized
<1>1. ShardedInv => KeepsItemsUnlessResized
  <2> SUFFICES ASSUME ShardedInv, "resized" \notin hist, phase = "open", NEW i \in Item
               PROVE  (i \in stored[Home(i)]) \in promised[i]
    BY DEF KeepsItemsUnlessResized, KeepsItems
  <2>1. shards = lastNum /\ lastNum # 0
    BY ShardFacts, Zenon DEF ShardedInv, ProcessInv
  <2>2. Allowed(i, stored[Home(i)])
    BY <2>1 DEF ShardedInv, KeepInv, Home
  <2>3. CASE i \in stored[Home(i)]
    <3>1. TRUE \in promised[i]
      BY <2>2, <2>3, Zenon DEF Allowed
    <3>2. (i \in stored[Home(i)]) = TRUE
      BY <2>3, Zenon
    <3> QED
      BY <3>1, <3>2, Zenon
  <2>4. CASE i \notin stored[Home(i)]
    <3>1. FALSE \in promised[i]
      BY <2>2, <2>4, Zenon DEF Allowed
    <3>2. (i \in stored[Home(i)]) = FALSE
      BY <2>4, SMT, Zenon
    <3> QED
      BY <3>1, <3>2, Zenon
  <2> QED
    BY <2>3, <2>4, Zenon
<1> QED
  BY <1>1, ShardedInvariantHolds, PTL

\* The store opens, as long as no vector operation came to a shard without index.
THEOREM AlwaysOpensUnlessRefused == Spec => []OpensUnlessRefused
<1>1. ShardedInv => OpensUnlessRefused
  <2> SUFFICES ASSUME ShardedInv, "refused" \notin hist, phase = "opening"
               PROVE  Replays(opened, index[opened] \/ schema)
    BY Zenon DEF OpensUnlessRefused
  <2>1. opened \in Shard
    BY ShardFacts DEF ShardedInv, ProcessInv, TypeOK
  <2> QED
    BY <2>1 DEF ShardedInv, IndexInv, Replays
<1> QED
  BY <1>1, ShardedInvariantHolds, PTL

=============================================================================
