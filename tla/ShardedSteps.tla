----------------------------- MODULE ShardedSteps ------------------------------
(***************************************************************************)
(* The inductive invariant of the sharding layer, and that listing, the    *)
(* calls that visit the shards in order and the writes of one item keep    *)
(* it, for every number of shards, clients, ids and keys and every hash.   *)
(*                                                                         *)
(* The searches and listings read the shards at different times, so that   *)
(* an id that was there all the time might be missed by moving from a      *)
(* shard not read yet to one read already.  It cannot move: a write goes   *)
(* to the id's home, and an id held elsewhere, left over from another      *)
(* number of shards, stays there (StraysStay).  So each id has a shard     *)
(* where it dwells, and ReadInv says what has been read of those.          *)
(*                                                                         *)
(* What is promised of an item must hold of what its home holds, and of    *)
(* what the home would hold after replaying its log, since the process may *)
(* end at any time (KeepInv).                                              *)
(***************************************************************************)
EXTENDS Sharded, TLAPS

-----------------------------------------------------------------------------
(* The inductive invariant                                                  *)

Open == 0 .. shards - 1

\* The process: how far the store is open, and that calls need it open.
ProcessInv ==
    /\ phase = "closed" => shards = 0 /\ opened = 0
    /\ phase # "closed" => shards \in ShardNum /\ shards = lastNum
    /\ phase = "opening" => opened < shards
    /\ phase = "open" => opened = shards
    /\ phase # "open" => \A c \in Client : call[c] = Idle

\* An operation since the shard was opened is in the log of its items' home.
LogsHomed ==
    \A s \in 0 .. opened - 1 : \A n \in DOMAIN log[s] : \A i \in log[s][n].items : Home(i) = s

Writes == {"batch", "put", "delete"}

\* What a call is about.
CallInv(c) ==
    /\ call[c].op \in Ops => call[c].next < shards /\ call[c].left \subseteq Open
    /\ call[c].op = "put" => \E k \in Key : call[c].items = {k}
    /\ call[c].op = "delete" => \E i \in Item : call[c].items = {i}
    /\ call[c].op = "batch" => call[c].items \subseteq Id
    /\ call[c].op \notin Writes => call[c].items = {}
    /\ call[c].sole \subseteq call[c].items

\* i is in shard s, and will be as long as it is anywhere.
Dwells(i, s) ==
    i \in stored[s] /\ (Home(i) # s \/ \A t \in Open : i \in stored[t] => t = s)

\* Id i is among the candidates F, or enough are at least as near.
Covered(F, i) ==
    i \in F \/ \E R \in SUBSET F : Cardinality(R) = TopK /\ \A r \in R : Dist[r] <= Dist[i]

\* What a search or a listing has read of the shards it is through with, and what its
\* answer is.
ReadInv(c) ==
    /\ call[c].op \in {"search", "list"} =>
          /\ call[c].steady \subseteq AllIds /\ AllIds \subseteq call[c].seen
          /\ call[c].found \subseteq call[c].seen
    /\ call[c].op = "search" =>
          \A i \in call[c].steady, s \in Open :
              Dwells(i, s) /\ s \notin call[c].left /\ s \notin call[c].failed => Covered(call[c].found, i)
    /\ call[c].op = "list" =>
          \A i \in call[c].steady, s \in Open : Dwells(i, s) /\ s < call[c].next => i \in call[c].found
    /\ Answered(c, "search") /\ call[c].failed = {} => Complete(c)
    /\ Answered(c, "list") => call[c].steady \subseteq call[c].found /\ call[c].found \subseteq call[c].seen

\* A checkpoint has truncated the shards before the next one.
CheckpointInv(c) ==
    /\ call[c].op = "checkpoint" => \A s \in call[c].logged : call[c].next <= s /\ s < shards
    /\ Answered(c, "checkpoint") => call[c].logged = {}

\* Vector operations are logged only where there is an index, unless one was refused.
IndexInv ==
    "refused" \notin hist =>
        \A s \in Shard : \A n \in DOMAIN log[s] : NeedsIndex(log[s][n]) => index[s]

\* Item i may be in, or absent from, the set S.
Allowed(i, S) == (i \in S => TRUE \in promised[i]) /\ (i \notin S => FALSE \in promised[i])

\* Nothing is promised of an item a call is about; a call's own items are nobody else's.
ItemsInv ==
    /\ \A c \in Client : \A i \in call[c].items : promised[i] = BOOLEAN
    /\ \A c, d \in Client : c # d => call[c].sole \cap call[d].items = {}

\* A batch's own items are where they belong, on the shards it is through with.
BatchInv(c) ==
    call[c].op = "batch" =>
        \A i \in call[c].sole : Home(i) < call[c].next => i \in stored[Home(i)] /\ i \in Replayed(Home(i))

\* What is promised holds of the items' homes now and after a replay.
KeepInv ==
    "resized" \notin hist =>
        /\ lastNum = 0 => /\ \A s \in Shard : stored[s] = {} /\ log[s] = <<>>
                          /\ \A i \in Item : FALSE \in promised[i]
        /\ lastNum # 0 => \A i \in Item :
               Allowed(i, stored[Hash[i] % lastNum]) /\ Allowed(i, Replayed(Hash[i] % lastNum))

ShardedInv ==
    /\ TypeOK /\ ProcessInv /\ LogsHomed /\ IndexInv /\ ItemsInv /\ KeepInv
    /\ \A c \in Client : CallInv(c) /\ ReadInv(c) /\ CheckpointInv(c) /\ BatchInv(c)

-----------------------------------------------------------------------------
(* Shards and logs                                                          *)

\* Shards are numbered from 0, and every opened one is a shard.
LEMMA ShardFacts ==
    /\ Shard \subseteq Nat /\ 0 \in Shard
    /\ \A n \in ShardNum : n \in Nat \ {0} /\ 0 .. n - 1 \subseteq Shard
<1>1. \A n \in ShardNum : n \in Nat \ {0} /\ 0 .. n - 1 \subseteq Shard
  BY ShardedAssumption DEF Shard
<1>2. Shard \subseteq Nat
  BY ShardedAssumption DEF Shard
<1>3. 0 \in Shard
  <2>1. PICK n \in ShardNum : TRUE
    BY ShardedAssumption, Zenon
  <2>2. 0 \in 0 .. n - 1
    BY <1>1
  <2> QED
    BY <1>1, <2>2
<1> QED
  BY <1>1, <1>2, <1>3

\* An item's home is one of the shards that are open.
LEMMA HomeIsOpen ==
    ASSUME shards \in ShardNum, NEW i \in Item
    PROVE  Home(i) \in Open /\ Home(i) \in Shard /\ Home(i) = Hash[i] % shards
<1>1. shards \in Nat \ {0} /\ 0 .. shards - 1 \subseteq Shard /\ Hash[i] \in Nat
  BY ShardFacts, ShardedAssumption
<1>2. \A a \in Nat, b \in Nat \ {0} : a % b \in 0 .. b - 1
  OBVIOUS
<1> QED
  BY <1>1, <1>2, Zenon DEF Home, Open

\* An idle client is in no call.
LEMMA IdleFacts ==
    /\ Idle \in CallRecord
    /\ Idle.op = "none" /\ Idle.of = "none" /\ Idle.items = {} /\ Idle.sole = {} /\ Idle.next = 0
    /\ Idle.left = {} /\ Idle.found = {} /\ Idle.steady = {} /\ Idle.seen = {}
    /\ Idle.failed = {} /\ Idle.logged = {}
  BY ShardFacts DEF Idle, CallRecord, Ops

\* Appending an operation to a log: it decides about its items, and about nothing else.
LEMMA ReplayedAppend ==
    ASSUME TypeOK, NEW s \in Shard, NEW op, NEW items, items \subseteq Item,
           Logged(s, op, items), NEW i \in Item
    PROVE  /\ i \in items => (i \in Replayed(s)' <=> op # "delete")
           /\ i \notin items /\ (i \in stored'[s] <=> i \in stored[s]) =>
                  (i \in Replayed(s)' <=> i \in Replayed(s))
           /\ \A t \in Shard : t # s /\ (i \in stored'[t] <=> i \in stored[t]) =>
                  (i \in Replayed(t)' <=> i \in Replayed(t))
<1> DEFINE o == [op |-> op, items |-> items]
<1> DEFINE l == log[s]
<1>1. l \in Seq(LogOp) /\ Len(l) \in Nat /\ DOMAIN l = 1 .. Len(l)
  BY DEF TypeOK
<1>2. log' = [log EXCEPT ![s] = Append(l, o)] /\ log \in [Shard -> Seq(LogOp)]
  BY DEF Logged, TypeOK
<1>3. log'[s] = Append(l, o) /\ \A t \in Shard : t # s => log'[t] = log[t]
  BY <1>2
<1>4. /\ DOMAIN Append(l, o) = 1 .. Len(l) + 1
      /\ \A n \in 1 .. Len(l) : Append(l, o)[n] = l[n]
      /\ Append(l, o)[Len(l) + 1] = o
  BY <1>1
<1>5. o.op = op /\ o.items = items
  OBVIOUS
<1> HIDE DEF o, l
<1>6. /\ DOMAIN log'[s] = 1 .. Len(l) + 1
      /\ \A n \in 1 .. Len(l) : log'[s][n] = log[s][n]
      /\ log'[s][Len(l) + 1].op = op /\ log'[s][Len(l) + 1].items = items
  BY <1>3, <1>4, <1>5 DEF l
<1>7. DOMAIN log[s] = 1 .. Len(l)
  BY <1>1 DEF l
<1>8. ASSUME i \in items
      PROVE  i \in Replayed(s)' <=> op # "delete"
  <2>1. /\ Len(l) + 1 \in DOMAIN log'[s] /\ i \in log'[s][Len(l) + 1].items
        /\ \A m \in DOMAIN log'[s] : m <= Len(l) + 1 /\ m \in Int
    BY <1>1, <1>6, <1>8
  <2>2. i \in Replayed(s)' <=>
            \E n \in About(s, i)' : log'[s][n].op # "delete" /\ \A m \in About(s, i)' : m <= n
    BY <2>1 DEF Replayed, About
  <2>3. /\ Len(l) + 1 \in About(s, i)' /\ About(s, i)' \subseteq Int
        /\ \A m \in About(s, i)' : m <= Len(l) + 1
    BY <2>1 DEF About
  <2>4. \A n \in About(s, i)' : (\A m \in About(s, i)' : m <= n) => n = Len(l) + 1
    BY <2>3, <1>1
  <2> QED
    BY <2>2, <2>3, <2>4, <1>6
<1>9. ASSUME i \notin items, i \in stored'[s] <=> i \in stored[s]
      PROVE  i \in Replayed(s)' <=> i \in Replayed(s)
  <2>1. About(s, i)' = About(s, i)
    BY <1>1, <1>6, <1>7, <1>9 DEF About
  <2>2. \A n \in About(s, i) : log'[s][n].op = log[s][n].op
    BY <1>6, <1>7 DEF About
  <2> QED
    BY <2>1, <2>2, <1>9 DEF Replayed
<1>10. ASSUME NEW t \in Shard, t # s, i \in stored'[t] <=> i \in stored[t]
       PROVE  i \in Replayed(t)' <=> i \in Replayed(t)
  <2>1. log'[t] = log[t]
    BY <1>3, <1>10
  <2>2. About(t, i)' = About(t, i)
    BY <2>1 DEF About
  <2> QED
    BY <2>1, <2>2, <1>10 DEF Replayed
<1> QED
  BY <1>8, <1>9, <1>10

\* After a checkpoint or a recovery nothing is left to replay.
LEMMA ReplayedTruncated ==
    ASSUME NEW s \in Shard, log'[s] = <<>>, NEW i \in Item
    PROVE  i \in Replayed(s)' <=> i \in stored'[s]
<1>1. About(s, i)' = {}
  BY DEF About
<1> QED
  BY <1>1 DEF Replayed

\* A shard that is left alone replays as before.
LEMMA ReplayedUnchanged ==
    ASSUME NEW s \in Shard, log'[s] = log[s], NEW i \in Item, i \in stored'[s] <=> i \in stored[s]
    PROVE  i \in Replayed(s)' <=> i \in Replayed(s)
<1>1. About(s, i)' = About(s, i)
  BY DEF About
<1> QED
  BY <1>1 DEF Replayed

\* Replaying the log of an open shard touches only items that belong there.
LEMMA ReplayedStray ==
    ASSUME LogsHomed, NEW s \in 0 .. opened - 1, NEW i \in Item, Home(i) # s
    PROVE  i \in Replayed(s) <=> i \in stored[s]
<1>1. About(s, i) = {}
  BY DEF About, LogsHomed
<1> QED
  BY <1>1 DEF Replayed

-----------------------------------------------------------------------------
(* Calls                                                                    *)

\* Two records of calls that differ at most in what they watched and truncated.
SameCall(r, q) ==
    /\ r.op = q.op /\ r.of = q.of /\ r.items = q.items /\ r.sole = q.sole /\ r.next = q.next
    /\ r.left = q.left /\ r.found = q.found /\ r.failed = q.failed

\* What the open shards hold, were st what the shards hold.
Held(st) == UNION {st[s] \cap Id : s \in Open}

\* A search or a listing takes note of what the store holds.
LEMMA NotedFacts ==
    ASSUME NEW r \in CallRecord, NEW now \in SUBSET Id
    PROVE  /\ Noted(r, now) \in CallRecord /\ SameCall(Noted(r, now), r)
           /\ Noted(r, now).logged = r.logged
           /\ IF r.op \in {"search", "list"}
              THEN Noted(r, now).steady = r.steady \cap now /\ Noted(r, now).seen = r.seen \cup now
              ELSE Noted(r, now) = r
<1>1. CASE r.op \in {"search", "list"}
  <2>1. Noted(r, now) = [r EXCEPT !.steady = r.steady \cap now, !.seen = r.seen \cup now]
    BY <1>1 DEF Noted
  <2>2. r.steady \cap now \in SUBSET Id /\ r.seen \cup now \in SUBSET Id
    BY DEF CallRecord
  <2>3. Noted(r, now) \in CallRecord
    BY <2>1, <2>2, Zenon DEF CallRecord
  <2>4. /\ Noted(r, now).steady = r.steady \cap now /\ Noted(r, now).seen = r.seen \cup now
        /\ Noted(r, now).logged = r.logged
    BY <2>1 DEF CallRecord
  <2>5. SameCall(Noted(r, now), r)
    BY <2>1 DEF CallRecord, SameCall
  <2> QED
    BY <1>1, <2>3, <2>4, <2>5
<1>2. CASE r.op \notin {"search", "list"}
  <2>1. Noted(r, now) = r
    BY <1>2 DEF Noted
  <2> QED
    BY <1>2, <2>1 DEF SameCall
<1> QED
  BY <1>1, <1>2

\* Searches and listings under way take note of a change, and nothing else changes.
LEMMA WatchedFacts ==
    ASSUME NEW cs \in [Client -> CallRecord], NEW st
    PROVE  /\ Watched(cs, st) \in [Client -> CallRecord]
           /\ \A d \in Client :
                 /\ SameCall(Watched(cs, st)[d], cs[d]) /\ Watched(cs, st)[d].logged = cs[d].logged
                 /\ Watched(cs, st)[d].steady \subseteq cs[d].steady
                 /\ cs[d].seen \subseteq Watched(cs, st)[d].seen
                 /\ IF cs[d].op \in {"search", "list"}
                    THEN /\ Watched(cs, st)[d].steady \subseteq Held(st)
                         /\ Held(st) \subseteq Watched(cs, st)[d].seen
                    ELSE Watched(cs, st)[d] = cs[d]
<1>1. Held(st) \in SUBSET Id
  BY DEF Held
<1>2. Watched(cs, st) = [c \in Client |-> Noted(cs[c], Held(st))]
  BY DEF Watched, Held, Open
<1>3. ASSUME NEW d \in Client
      PROVE  Watched(cs, st)[d] = Noted(cs[d], Held(st)) /\ cs[d] \in CallRecord
  BY <1>2
<1>4. Watched(cs, st) \in [Client -> CallRecord]
  BY <1>1, <1>2, <1>3, NotedFacts
<1> QED
  BY <1>1, <1>3, <1>4, NotedFacts

\* A client that is idle has nothing to take note of.
LEMMA WatchedIdle ==
    ASSUME NEW cs \in [Client -> CallRecord], NEW st, NEW c \in Client, cs[c] = Idle
    PROVE  Watched(cs, st) \in [Client -> CallRecord] /\ Watched(cs, st)[c] = Idle
<1>1. cs[c].op \notin {"search", "list"}
  BY IdleFacts
<1> QED
  BY <1>1, WatchedFacts

\* A shard is struck from the logs the checkpoints under way have still to truncate.
LEMMA TruncatedFacts ==
    ASSUME NEW cs \in [Client -> CallRecord], NEW s
    PROVE  /\ Truncated(cs, s) \in [Client -> CallRecord]
           /\ \A d \in Client :
                 /\ SameCall(Truncated(cs, s)[d], cs[d])
                 /\ Truncated(cs, s)[d].steady = cs[d].steady /\ Truncated(cs, s)[d].seen = cs[d].seen
                 /\ Truncated(cs, s)[d].logged = cs[d].logged \ {s}
<1>1. ASSUME NEW r \in CallRecord
      PROVE  LET q == [r EXCEPT !.logged = r.logged \ {s}]
             IN  q \in CallRecord /\ SameCall(q, r) /\ q.logged = r.logged \ {s}
                 /\ q.steady = r.steady /\ q.seen = r.seen
  BY DEF CallRecord, SameCall
<1> QED
  BY <1>1, Zenon DEF Truncated

\* A call that goes on with the next shard.
LEMMA AdvancedFacts ==
    ASSUME call \in [Client -> CallRecord], NEW c \in Client, call[c].next + 1 \in Shard
    PROVE  LET q == [call EXCEPT ![c].next = @ + 1]
           IN  /\ q \in [Client -> CallRecord]
               /\ \A d \in Client : d # c => q[d] = call[d]
               /\ q[c].next = call[c].next + 1
               /\ q[c].op = call[c].op /\ q[c].of = call[c].of /\ q[c].items = call[c].items
               /\ q[c].sole = call[c].sole /\ q[c].left = call[c].left /\ q[c].found = call[c].found
               /\ q[c].failed = call[c].failed /\ q[c].steady = call[c].steady
               /\ q[c].seen = call[c].seen /\ q[c].logged = call[c].logged
  BY DEF CallRecord

\* A call that answers.
LEMMA AnswerFacts ==
    ASSUME call \in [Client -> CallRecord], NEW c \in Client, call[c].op \in Ops
    PROVE  /\ Answer(c) \in [Client -> CallRecord]
           /\ \A d \in Client : d # c => Answer(c)[d] = call[d]
           /\ Answer(c)[c].op = "answer" /\ Answer(c)[c].of = call[c].op
           /\ Answer(c)[c].items = call[c].items
           /\ Answer(c)[c].sole = call[c].sole /\ Answer(c)[c].left = call[c].left
           /\ Answer(c)[c].found = call[c].found /\ Answer(c)[c].next = call[c].next
           /\ Answer(c)[c].failed = call[c].failed /\ Answer(c)[c].steady = call[c].steady
           /\ Answer(c)[c].seen = call[c].seen /\ Answer(c)[c].logged = call[c].logged
<1> DEFINE r == [call[c] EXCEPT !.op = "answer", !.of = call[c].op]
<1>1. Answer(c) = [call EXCEPT ![c] = r]
  BY Zenon DEF Answer
<1>2. r \in CallRecord
  BY Zenon DEF CallRecord
<1>3. /\ r.op = "answer" /\ r.of = call[c].op /\ r.items = call[c].items /\ r.sole = call[c].sole
      /\ r.left = call[c].left /\ r.found = call[c].found /\ r.next = call[c].next
      /\ r.failed = call[c].failed /\ r.steady = call[c].steady /\ r.seen = call[c].seen
      /\ r.logged = call[c].logged
  BY DEF CallRecord
<1> HIDE DEF r
<1> QED
  BY <1>1, <1>2, <1>3

\* Search q is r through with shard s, with R found and F failed.
OneLess(q, r, s, R, F) ==
    /\ q.op = r.op /\ q.of = r.of /\ q.items = r.items /\ q.sole = r.sole /\ q.next = r.next
    /\ q.left = r.left \ {s} /\ q.found = r.found \cup R /\ q.failed = r.failed \cup F
    /\ q.steady = r.steady /\ q.seen = r.seen

\* A search that is through with a shard.
LEMMA JoinedFacts ==
    ASSUME NEW r \in CallRecord, NEW s \in Shard, NEW R \in SUBSET Id, NEW F \in SUBSET Shard
    PROVE  Joined(r, s, R, F) \in CallRecord /\ OneLess(Joined(r, s, R, F), r, s, R, F)
<1>1. r.left \ {s} \in SUBSET Shard /\ r.found \cup R \in SUBSET Id /\ r.failed \cup F \in SUBSET Shard
  BY DEF CallRecord
<1>2. Joined(r, s, R, F) =
          [r EXCEPT !.left = r.left \ {s}, !.found = r.found \cup R, !.failed = r.failed \cup F]
  BY DEF Joined
<1> QED
  BY <1>1, <1>2, Zenon DEF CallRecord, OneLess

\* A client becomes idle.
LEMMA EndedFacts ==
    ASSUME call \in [Client -> CallRecord], NEW c \in Client
    PROVE  LET q == [call EXCEPT ![c] = Idle]
           IN  /\ q \in [Client -> CallRecord] /\ q[c] = Idle
               /\ \A d \in Client : d # c => q[d] = call[d]
  BY IdleFacts

-----------------------------------------------------------------------------
(* What the steps of an open store have in common                           *)

\* Ids away from home stay as they are: writes and replays touch items at home only.
StraysStay == \A s \in Open, i \in Item : Home(i) # s => (i \in stored'[s] <=> i \in stored[s])

\* A search or listing of d that goes on while the shards change.
LEMMA ReadFrame ==
    ASSUME TypeOK, shards \in ShardNum, shards' = shards, NEW d \in Client, ReadInv(d),
           StraysStay, SameCall(call'[d], call[d]),
           call'[d].steady \subseteq call[d].steady, call[d].seen \subseteq call'[d].seen,
           call[d].op \in {"search", "list"} =>
               call'[d].steady \subseteq AllIds' /\ AllIds' \subseteq call'[d].seen
    PROVE  ReadInv(d)'
<1>0. Open' = Open /\ Open \subseteq Shard /\ \A i \in Item : Home(i)' = Home(i)
  BY ShardFacts DEF Open, Home
<1>1. ASSUME call[d].op \in {"search", "list"}, NEW i \in call'[d].steady, NEW s \in Open, Dwells(i, s)'
      PROVE  i \in call[d].steady /\ Dwells(i, s)
  <2>1. i \in call[d].steady /\ call[d].steady \subseteq AllIds
    BY <1>1 DEF ReadInv
  <2>2. i \in Item
    BY <2>1 DEF AllIds, Ids, Item
  <2>3. PICK t \in Open : i \in stored[t]
    BY <2>1 DEF AllIds, Ids, Open
  <2>4. i \in stored'[s] /\ (Home(i) # s \/ \A u \in Open : i \in stored'[u] => u = s)
    BY <1>0, <1>1, <2>2 DEF Dwells
  <2>5. CASE Home(i) # s
    BY <2>1, <2>2, <2>4, <2>5 DEF StraysStay, Dwells
  <2>6. CASE Home(i) = s
    <3>1. \A u \in Open : i \in stored[u] => u = s
      BY <2>2, <2>4, <2>6 DEF StraysStay
    <3> QED
      BY <2>1, <2>3, <3>1 DEF Dwells
  <2> QED
    BY <2>5, <2>6, Zenon
<1>2. /\ call'[d].op = call[d].op /\ call'[d].of = call[d].of /\ call'[d].next = call[d].next
      /\ call'[d].left = call[d].left /\ call'[d].found = call[d].found /\ call'[d].failed = call[d].failed
  BY Zenon DEF SameCall
<1>3. call[d].op \in {"search", "list"} => call'[d].found \subseteq call'[d].seen
  BY <1>2, Zenon DEF ReadInv
<1>4. call[d].op = "search" =>
          \A i \in call'[d].steady, s \in Open :
              Dwells(i, s)' /\ s \notin call'[d].left /\ s \notin call'[d].failed => Covered(call[d].found, i)
  BY <1>1, <1>2, Zenon DEF ReadInv
<1>5. call[d].op = "list" =>
          \A i \in call'[d].steady, s \in Open : Dwells(i, s)' /\ s < call'[d].next => i \in call'[d].found
  BY <1>1, <1>2 DEF ReadInv
<1>6. Answered(d, "search")' /\ call'[d].failed = {} => Complete(d)'
  BY <1>2 DEF ReadInv, Answered, Complete
<1>7. Answered(d, "list")' => call'[d].steady \subseteq call'[d].found /\ call'[d].found \subseteq call'[d].seen
  BY <1>2, Zenon DEF ReadInv, Answered
<1> QED
  BY <1>0, <1>2, <1>3, <1>4, <1>5, <1>6, <1>7 DEF ReadInv, Covered

\* A client whose call is none of the step's business: at most what it watches and
\* what it has to truncate change.
Bystander(d) ==
    /\ SameCall(call'[d], call[d])
    /\ call'[d].logged \subseteq call[d].logged
    /\ call'[d].steady \subseteq call[d].steady /\ call[d].seen \subseteq call'[d].seen
    /\ call[d].op \in {"search", "list"} =>
           call'[d].steady \subseteq AllIds' /\ AllIds' \subseteq call'[d].seen

\* Item i is at home after the step, and after a replay, as it was before or would have been
\* after a replay.
Kept(i) ==
    /\ \/ i \in stored'[Home(i)] <=> i \in stored[Home(i)]
       \/ i \in stored'[Home(i)] <=> i \in Replayed(Home(i))
    /\ \/ i \in Replayed(Home(i))' <=> i \in stored[Home(i)]
       \/ i \in Replayed(Home(i))' <=> i \in Replayed(Home(i))

\* A step of client c while the store is open: what is left to show of it.
LEMMA OpenStep ==
    ASSUME ShardedInv, phase = "open", UNCHANGED <<process, lastNum>>, hist \subseteq hist',
           TypeOK', LogsHomed', IndexInv', StraysStay,
           NEW c \in Client, \A d \in Client \ {c} : Bystander(d),
           CallInv(c)', ReadInv(c)', CheckpointInv(c)', BatchInv(c)',
           call'[c].items \subseteq call[c].items, call'[c].sole \subseteq call[c].sole,
           \A i \in Item \ call[c].items : promised'[i] = promised[i] /\ Kept(i),
           \A i \in call[c].items :
               \/ promised'[i] = BOOLEAN
               \/ /\ i \in call[c].sole /\ call'[c].items = {}
                  /\ Allowed(i, stored[Home(i)])' /\ Allowed(i, Replayed(Home(i)))'
    PROVE  ShardedInv'
<1>0. /\ shards \in ShardNum /\ shards = lastNum /\ lastNum # 0
      /\ shards' = shards /\ opened' = opened /\ phase' = phase /\ lastNum' = lastNum
  BY ShardFacts DEF ShardedInv, ProcessInv, process
<1>1. Open' = Open /\ \A i \in Item : Home(i)' = Home(i) /\ Hash[i] % lastNum = Home(i)
  BY <1>0, Zenon DEF Open, Home
<1>2. ProcessInv'
  BY <1>0, Zenon DEF ShardedInv, ProcessInv
<1>3. ItemsInv'
  <2>1. ASSUME NEW d \in Client, NEW i \in call'[d].items
        PROVE  promised'[i] = BOOLEAN
    <3>1. CASE d = c
      BY <2>1, <3>1
    <3>2. CASE d # c
      <4>1. i \in call[d].items /\ i \in Item
        BY <2>1, <3>2, Zenon DEF Bystander, SameCall, ShardedInv, TypeOK, CallRecord
      <4>2. promised[i] = BOOLEAN /\ i \notin call[c].sole
        BY <3>2, <4>1, Zenon DEF ShardedInv, ItemsInv
      <4> QED
        BY <4>1, <4>2
    <3> QED
      BY <3>1, <3>2
  <2>2. ASSUME NEW d \in Client, NEW e \in Client, d # e
        PROVE  call'[d].sole \cap call'[e].items = {}
    <3>1. \A x \in Client : call'[x].sole \subseteq call[x].sole /\ call'[x].items \subseteq call[x].items
      BY Zenon DEF Bystander, SameCall
    <3>2. call[d].sole \cap call[e].items = {}
      BY <2>2 DEF ShardedInv, ItemsInv
    <3> QED
      BY <3>1, <3>2
  <2> QED
    BY <2>1, <2>2 DEF ItemsInv
<1>4. KeepInv'
  <2>1. ASSUME "resized" \notin hist', NEW i \in Item
        PROVE  Allowed(i, stored[Home(i)])' /\ Allowed(i, Replayed(Home(i)))'
    <3>1. Allowed(i, stored[Home(i)]) /\ Allowed(i, Replayed(Home(i)))
      BY <1>0, <1>1, <2>1, Zenon DEF ShardedInv, KeepInv
    <3>2. CASE i \notin call[c].items
      <4>1. promised'[i] = promised[i] /\ Kept(i)
        BY <3>2
      <4> QED
        BY <1>1, <3>1, <4>1, Zenon DEF Allowed, Kept
    <3>3. CASE promised'[i] = BOOLEAN
      BY <3>3, Zenon DEF Allowed
    <3> QED
      BY <3>2, <3>3
  <2> QED
    BY <1>0, <1>1, <2>1, Zenon DEF KeepInv
<1>5. ASSUME NEW d \in Client, d # c
      PROVE  CallInv(d)' /\ ReadInv(d)' /\ CheckpointInv(d)' /\ BatchInv(d)'
  <2>1. Bystander(d) /\ CallInv(d) /\ ReadInv(d) /\ CheckpointInv(d) /\ BatchInv(d) /\ TypeOK
    BY <1>5, Zenon DEF ShardedInv
  <2>2. CallInv(d)'
    BY <1>0, <1>1, <2>1 DEF CallInv, Bystander, SameCall
  <2>3. ReadInv(d)'
    BY <1>0, <2>1, ReadFrame, Zenon DEF Bystander
  <2>4. CheckpointInv(d)'
    BY <1>0, <2>1, Zenon DEF CheckpointInv, Bystander, SameCall, Answered
  <2>5. BatchInv(d)'
    <3>1. SUFFICES ASSUME call[d].op = "batch", NEW i \in call[d].sole, Home(i) < call[d].next
                   PROVE  i \in stored'[Home(i)] /\ i \in Replayed(Home(i))'
      <4>1. call'[d].op = call[d].op /\ call'[d].sole = call[d].sole /\ call'[d].next = call[d].next
        BY <2>1, Zenon DEF Bystander, SameCall
      <4>2. call[d].sole \subseteq Item
        BY <2>1 DEF TypeOK, CallRecord
      <4>3. \A i \in call[d].sole : Home(i)' = Home(i)
        BY <1>1, <4>2
      <4> QED
        BY <4>1, <4>3, Zenon DEF BatchInv
    <3>2. i \in Item /\ i \notin call[c].items
      BY <1>5, <2>1, <3>1, Zenon DEF ShardedInv, ItemsInv, TypeOK, CallRecord
    <3>3. i \in stored[Home(i)] /\ i \in Replayed(Home(i)) /\ Kept(i)
      BY <2>1, <3>1, <3>2, Zenon DEF BatchInv
    <3> QED
      BY <3>3, <3>2, <1>1, Zenon DEF Kept
  <2> QED
    BY <2>2, <2>3, <2>4, <2>5
<1> QED
  BY <1>2, <1>3, <1>4, <1>5 DEF ShardedInv

\* Nothing is left to show of a client that is idle after the step.
LEMMA EndedInv ==
    ASSUME NEW c \in Client, call'[c] = Idle
    PROVE  /\ CallInv(c)' /\ ReadInv(c)' /\ CheckpointInv(c)' /\ BatchInv(c)'
           /\ call'[c].items = {} /\ call'[c].sole = {}
<1>1. /\ call'[c].op = "none" /\ call'[c].items = {} /\ call'[c].sole = {}
  BY IdleFacts, Zenon
<1>2. CallInv(c)'
  BY <1>1, Zenon DEF CallInv, Ops, Writes
<1>3. ReadInv(c)'
  BY <1>1, Zenon DEF ReadInv, Answered
<1>4. CheckpointInv(c)'
  BY <1>1 DEF CheckpointInv, Answered
<1>5. BatchInv(c)'
  BY <1>1, Zenon DEF BatchInv
<1> QED
  BY <1>1, <1>2, <1>3, <1>4, <1>5

\* A client whose record does not change stands by, when the ids in the shards do not either.
LEMMA SameBystander ==
    ASSUME ShardedInv, shards' = shards, NEW d \in Client, call'[d] = call[d], AllIds' = AllIds
    PROVE  Bystander(d)
<1>1. ReadInv(d)
  BY DEF ShardedInv
<1> QED
  BY <1>1 DEF Bystander, SameCall, ReadInv

\* A step of client c that leaves what the shards hold and their logs alone.
LEMMA QuietStep ==
    ASSUME ShardedInv, phase = "open", UNCHANGED <<process, stored, log, promised, hist, lastNum>>,
           TypeOK', \A s \in Shard : index[s] => index'[s],
           NEW c \in Client, \A d \in Client : d # c => call'[d] = call[d],
           CallInv(c)', ReadInv(c)', CheckpointInv(c)', BatchInv(c)',
           call'[c].items \subseteq call[c].items, call'[c].sole \subseteq call[c].sole
    PROVE  ShardedInv'
<1>0. /\ shards \in ShardNum /\ shards' = shards /\ opened' = opened
      /\ stored' = stored /\ log' = log /\ promised' = promised /\ hist' = hist
  BY Zenon DEF ShardedInv, ProcessInv, process
<1>1. LogsHomed'
  BY <1>0, Zenon DEF ShardedInv, LogsHomed, Home
<1>2. IndexInv'
  BY <1>0 DEF ShardedInv, IndexInv, NeedsIndex
<1>3. StraysStay
  BY <1>0 DEF StraysStay
<1>4. AllIds' = AllIds
  BY <1>0 DEF AllIds, Ids
<1>5. \A d \in Client \ {c} : Bystander(d)
  BY <1>0, <1>4, SameBystander, Zenon
<1>6. ASSUME NEW i \in Item
      PROVE  Kept(i)
  <2>1. Home(i) \in Shard /\ Home(i)' = Home(i)
    BY <1>0, HomeIsOpen DEF Home
  <2>2. i \in Replayed(Home(i))' <=> i \in Replayed(Home(i))
    BY <1>0, <2>1, ReplayedUnchanged, Zenon DEF Replayed, About
  <2> QED
    BY <1>0, <2>2, Zenon DEF Kept
<1>7. \A i \in call[c].items : promised'[i] = BOOLEAN
  BY <1>0, Zenon DEF ShardedInv, ItemsInv
<1> QED
  BY <1>0, <1>1, <1>2, <1>3, <1>5, <1>6, <1>7, OpenStep, Zenon

\* Every call ends the same way when it is given up.
LEMMA EndStep ==
    ASSUME ShardedInv, phase = "open", UNCHANGED <<process, disk, promised, hist, lastNum>>,
           failures' \in 0 .. MaxFailures, calls' = calls, opens' = opens,
           NEW c \in Client, call' = [call EXCEPT ![c] = Idle]
    PROVE  ShardedInv'
<1>1. /\ call' \in [Client -> CallRecord] /\ call'[c] = Idle
      /\ \A d \in Client : d # c => call'[d] = call[d]
  BY EndedFacts DEF ShardedInv, TypeOK
<1>2. TypeOK'
  BY <1>1 DEF ShardedInv, TypeOK, process, disk
<1>3. UNCHANGED <<process, stored, log, promised, hist, lastNum>> /\ index' = index
  BY Zenon DEF disk
<1> QED
  BY <1>1, <1>2, <1>3, EndedInv, QuietStep, Zenon

\* Calls go on only while the store is open.
LEMMA CallsNeedOpen ==
    ASSUME ShardedInv, NEW c \in Client, call[c].op # "none"
    PROVE  phase = "open"
  BY IdleFacts DEF ShardedInv, ProcessInv

-----------------------------------------------------------------------------
(* Reading                                                                  *)

\* VisitFails: a shard fails, and the call is given up.
LEMMA VisitFailsStep ==
    ASSUME ShardedInv, NEW c \in Client, VisitFails(c)
    PROVE  ShardedInv'
<1>1. phase = "open"
  BY CallsNeedOpen DEF VisitFails
<1>2. failures' \in 0 .. MaxFailures
  BY ShardedAssumption DEF VisitFails, ShardedInv, TypeOK
<1> QED
  BY <1>1, <1>2, EndStep, Zenon DEF VisitFails

\* Return: the caller has its answer.
LEMMA ReturnStep ==
    ASSUME ShardedInv, NEW c \in Client, Return(c)
    PROVE  ShardedInv'
<1>1. phase = "open"
  BY CallsNeedOpen DEF Return
<1>2. failures' \in 0 .. MaxFailures /\ calls' = calls /\ opens' = opens
  BY Zenon DEF Return, counters, ShardedInv, TypeOK
<1> QED
  BY <1>1, <1>2, EndStep, Zenon DEF Return

\* Read: a search or a listing begins, with nothing read yet.
LEMMA ReadStep ==
    ASSUME ShardedInv, NEW c \in Client, NEW op \in {"search", "list"}, Read(c, op)
    PROVE  ShardedInv'
<1> DEFINE q == [Idle EXCEPT !.op = op, !.left = 0 .. shards - 1, !.steady = AllIds, !.seen = AllIds]
<1>0. /\ phase = "open" /\ shards \in ShardNum /\ shards \in Nat \ {0} /\ shards' = shards
      /\ Open \subseteq Shard /\ TypeOK
  BY ShardFacts DEF ShardedInv, ProcessInv, Read, Begin, Open, process
<1>1. /\ q.op = op /\ q.of = "none" /\ q.items = {} /\ q.sole = {} /\ q.next = 0 /\ q.left = Open
      /\ q.found = {} /\ q.steady = AllIds /\ q.seen = AllIds /\ q.failed = {} /\ q.logged = {}
  BY DEF Idle, Open
<1>2. q \in CallRecord
  <2>1. AllIds \subseteq Id
    BY DEF AllIds, Ids
  <2> QED
    BY <1>0, <2>1, ShardFacts, Zenon DEF CallRecord, Idle, Ops, Open
<1>3. call' = [call EXCEPT ![c] = q]
  BY DEF Read
<1> HIDE DEF q
<1>4. /\ call' \in [Client -> CallRecord] /\ call'[c] = q /\ \A d \in Client : d # c => call'[d] = call[d]
  BY <1>0, <1>2, <1>3 DEF TypeOK
<1>5. TypeOK'
  <2>1. calls' \in 0 .. MaxCalls
    BY <1>0, ShardedAssumption DEF Read, Begin, TypeOK
  <2> QED
    BY <1>0, <1>4, <2>1 DEF Read, Begin, TypeOK, process, disk
<1>6. UNCHANGED <<process, stored, log, promised, hist, lastNum>> /\ index' = index
  BY DEF Read, Begin, disk
<1>7. CallInv(c)'
  BY <1>0, <1>1, <1>4 DEF CallInv, Ops, Writes, Open
<1>8. ReadInv(c)'
  <2>1. AllIds' = AllIds /\ Open' = Open /\ Open \subseteq Nat
    BY <1>0, <1>6 DEF AllIds, Ids, Open
  <2> QED
    BY <1>1, <1>4, <2>1 DEF ReadInv, Answered
<1>9. CheckpointInv(c)' /\ BatchInv(c)'
  BY <1>1, <1>4, Zenon DEF CheckpointInv, BatchInv, Answered
<1> QED
  BY <1>0, <1>1, <1>4, <1>5, <1>6, <1>7, <1>8, <1>9, QuietStep

\* Visit: create, checkpoint or recover begin.
LEMMA VisitStep ==
    ASSUME ShardedInv, NEW c \in Client, NEW op \in {"create", "checkpoint", "recover"}, Visit(c, op)
    PROVE  ShardedInv'
<1> DEFINE L == {s \in 0 .. shards - 1 : log[s] # <<>>}
<1> DEFINE q == [Idle EXCEPT !.op = op, !.logged = L]
<1>0. /\ phase = "open" /\ shards \in ShardNum /\ shards \in Nat \ {0} /\ shards' = shards
      /\ Open \subseteq Shard /\ TypeOK
  BY ShardFacts DEF ShardedInv, ProcessInv, Visit, Begin, Open, process
<1>3. call' = [call EXCEPT ![c] = q]
  BY DEF Visit
<1>4. L \subseteq Shard /\ \A s \in L : 0 <= s /\ s < shards
  BY <1>0 DEF Open
<1> HIDE DEF L
<1>1. /\ q.op = op /\ q.of = "none" /\ q.items = {} /\ q.sole = {} /\ q.next = 0 /\ q.left = {}
      /\ q.logged = L
  BY DEF Idle
<1>2. q \in CallRecord
  BY <1>4, ShardFacts, Zenon DEF CallRecord, Idle, Ops
<1> HIDE DEF q
<1>5. /\ call' \in [Client -> CallRecord] /\ call'[c] = q /\ \A d \in Client : d # c => call'[d] = call[d]
  BY <1>0, <1>2, <1>3 DEF TypeOK
<1>6. TypeOK'
  <2>1. calls' \in 0 .. MaxCalls
    BY <1>0, ShardedAssumption DEF Visit, Begin, TypeOK
  <2> QED
    BY <1>0, <1>5, <2>1 DEF Visit, Begin, TypeOK, process, disk
<1>7. UNCHANGED <<process, stored, log, promised, hist, lastNum>> /\ index' = index
  BY DEF Visit, Begin, disk
<1>8. CallInv(c)'
  BY <1>0, <1>1, <1>5 DEF CallInv, Ops, Writes, Open
<1>9. ReadInv(c)' /\ BatchInv(c)'
  BY <1>1, <1>5, Zenon DEF ReadInv, BatchInv, Answered
<1>10. CheckpointInv(c)'
  BY <1>0, <1>1, <1>4, <1>5 DEF CheckpointInv, Answered
<1> QED
  BY <1>0, <1>1, <1>5, <1>6, <1>7, <1>8, <1>9, <1>10, QuietStep

\* More candidates cover no less.
LEMMA CoveredGrows ==
    ASSUME NEW F, NEW G, F \subseteq G, NEW i, Covered(F, i)
    PROVE  Covered(G, i)
  BY Zenon DEF Covered

\* An id that is in the store has a shard where it dwells.
LEMMA EachDwells ==
    ASSUME shards \in ShardNum, NEW i \in AllIds
    PROVE  i \in Id /\ \E s \in Open : Dwells(i, s)
<1>1. PICK t \in Open : i \in stored[t] /\ i \in Id
  BY DEF AllIds, Ids, Open
<1>2. CASE \E s \in Open : i \in stored[s] /\ Home(i) # s
  BY <1>1, <1>2 DEF Dwells
<1>3. CASE \A s \in Open : i \in stored[s] => Home(i) = s
  BY <1>1, <1>3 DEF Dwells
<1> QED
  BY <1>1, <1>2, <1>3

\* SearchShardFails: a shard is left out, or the only one fails the search.
LEMMA SearchShardFailsStep ==
    ASSUME ShardedInv, NEW c \in Client, NEW s \in Shard, SearchShardFails(c, s)
    PROVE  ShardedInv'
<1>0. /\ phase = "open" /\ shards \in ShardNum /\ shards' = shards /\ TypeOK
      /\ call[c].op = "search" /\ s \in call[c].left /\ CallInv(c) /\ ReadInv(c)
      /\ stored' = stored /\ index' = index
      /\ UNCHANGED <<process, stored, log, promised, hist, lastNum>>
  BY CallsNeedOpen, Zenon DEF SearchShardFails, ShardedInv, ProcessInv, process, disk
<1>1. failures' \in 0 .. MaxFailures /\ calls' = calls /\ opens' = opens
  BY <1>0, ShardedAssumption DEF SearchShardFails, TypeOK
<1>2. CASE shards = 1
  BY <1>0, <1>1, <1>2, EndStep, Zenon DEF SearchShardFails
<1>3. CASE shards # 1
  <2>1. call' = [call EXCEPT ![c] = Joined(@, s, {}, {s})]
    BY <1>3 DEF SearchShardFails
  <2>2. /\ call' \in [Client -> CallRecord]
        /\ \A d \in Client : d # c => call'[d] = call[d]
        /\ call'[c].op = call[c].op /\ call'[c].of = call[c].of /\ call'[c].items = call[c].items
        /\ call'[c].sole = call[c].sole /\ call'[c].next = call[c].next
        /\ call'[c].left = call[c].left \ {s} /\ call'[c].found = call[c].found
        /\ call'[c].failed = call[c].failed \cup {s} /\ call'[c].steady = call[c].steady
        /\ call'[c].seen = call[c].seen
    <3>1. call \in [Client -> CallRecord] /\ call[c] \in CallRecord
      BY <1>0 DEF TypeOK
    <3>2. PICK R \in SUBSET Id, F \in SUBSET Shard : R = {} /\ F = {s}
      BY Zenon
    <3> DEFINE j == Joined(call[c], s, R, F)
    <3>3. call' = [call EXCEPT ![c] = j]
      BY <2>1, <3>1, <3>2
    <3>4. j \in CallRecord /\ OneLess(j, call[c], s, R, F)
      BY <3>1, JoinedFacts, Zenon
    <3> HIDE DEF j
    <3> QED
      BY <3>1, <3>2, <3>3, <3>4, Zenon DEF OneLess
  <2>3. TypeOK'
    BY <1>0, <1>1, <2>2 DEF SearchShardFails, TypeOK, process, disk
  <2>4. Open' = Open /\ AllIds' = AllIds /\ \A i, t : Dwells(i, t)' = Dwells(i, t)
    BY <1>0, Zenon DEF Open, AllIds, Ids, Dwells, Home
  <2>5. CallInv(c)'
    BY <1>0, <2>2, <2>4 DEF CallInv
  <2>6. ReadInv(c)'
    BY <1>0, <2>2, <2>4, Zenon DEF ReadInv, Answered, Covered
  <2>7. CheckpointInv(c)' /\ BatchInv(c)'
    BY <1>0, <2>2, Zenon DEF CheckpointInv, BatchInv, Answered
  <2> QED
    BY <1>0, <2>2, <2>3, <2>5, <2>6, <2>7, QuietStep, Zenon
<1> QED
  BY <1>2, <1>3, Zenon

\* ListShard: the ids of the next shard are added, or the listing fails.
LEMMA ListShardStep ==
    ASSUME ShardedInv, NEW c \in Client, ListShard(c)
    PROVE  ShardedInv'
<1> DEFINE s == call[c].next
<1>0. /\ phase = "open" /\ shards \in ShardNum /\ shards' = shards /\ TypeOK
      /\ call[c].op = "list" /\ CallInv(c) /\ ReadInv(c)
      /\ stored' = stored /\ index' = index
      /\ UNCHANGED <<process, stored, log, promised, hist, lastNum>>
      /\ UNCHANGED counters
  BY CallsNeedOpen DEF ListShard, ShardedInv, ProcessInv, process, disk
<1>1. /\ failures' \in 0 .. MaxFailures /\ calls' = calls /\ opens' = opens
      /\ call \in [Client -> CallRecord] /\ call[c].op \in Ops
      /\ s \in Shard /\ s \in Nat /\ s < shards /\ s \in Open /\ shards \in Nat
  <2>1. failures' \in 0 .. MaxFailures /\ calls' = calls /\ opens' = opens
    BY <1>0, Zenon DEF counters, TypeOK
  <2>2. call \in [Client -> CallRecord] /\ call[c].op \in Ops /\ s \in Shard
    BY <1>0 DEF TypeOK, Ops, CallRecord
  <2>3. s \in Nat /\ shards \in Nat /\ s < shards
    BY <1>0, <2>2, ShardFacts, Zenon DEF CallInv
  <2> QED
    BY <2>1, <2>2, <2>3 DEF Open
<1>2. CASE ~index[s]
  BY <1>0, <1>1, <1>2, EndStep, Zenon DEF ListShard
<1>3. CASE index[s]
  <2> DEFINE q == PassedOrAnswer(c)
  <2>1. call' = [q EXCEPT ![c].found = @ \cup Ids(s)]
    BY <1>3, Zenon DEF ListShard
  <2>2. /\ q \in [Client -> CallRecord]
        /\ \A d \in Client : d # c => q[d] = call[d]
        /\ q[c].items = call[c].items /\ q[c].sole = call[c].sole
        /\ q[c].left = call[c].left /\ q[c].found = call[c].found
        /\ q[c].steady = call[c].steady /\ q[c].seen = call[c].seen
        /\ IF s + 1 < shards THEN q[c].op = "list" /\ q[c].next = s + 1
           ELSE q[c].op = "answer" /\ q[c].of = "list"
    <3>1. CASE s + 1 < shards
      <4>1. s + 1 \in Shard
        BY <1>0, <1>1, <3>1, ShardFacts
      <4> QED
        BY <1>0, <1>1, <3>1, <4>1, AdvancedFacts DEF PassedOrAnswer
    <3>2. CASE ~(s + 1 < shards)
      BY <1>0, <1>1, <3>2, AnswerFacts DEF PassedOrAnswer
    <3> QED
      BY <3>1, <3>2
  <2> HIDE DEF q
  <2>3. /\ call' \in [Client -> CallRecord]
        /\ \A d \in Client : d # c => call'[d] = call[d]
        /\ call'[c].items = call[c].items /\ call'[c].sole = call[c].sole
        /\ call'[c].left = call[c].left /\ call'[c].found = call[c].found \cup Ids(s)
        /\ call'[c].steady = call[c].steady /\ call'[c].seen = call[c].seen
        /\ IF s + 1 < shards THEN call'[c].op = "list" /\ call'[c].next = s + 1
           ELSE call'[c].op = "answer" /\ call'[c].of = "list"
    <3>1. Ids(s) \subseteq Id
      BY Zenon DEF Ids
    <3> QED
      BY <2>1, <2>2, <3>1 DEF CallRecord
  <2>4. TypeOK'
    BY <1>0, <2>3, Zenon DEF TypeOK, process, counters
  <2>5. Open' = Open /\ AllIds' = AllIds /\ \A i, t : Dwells(i, t)' = Dwells(i, t)
    BY <1>0, Zenon DEF Open, AllIds, Ids, Dwells, Home
  <2>6. CallInv(c)'
    BY <1>0, <1>1, <2>3, <2>5, Zenon DEF CallInv, Ops, Writes
  <2>7. /\ call'[c].steady \subseteq AllIds /\ AllIds \subseteq call'[c].seen
        /\ call'[c].found \subseteq call'[c].seen
    <3>1. Ids(s) \subseteq AllIds
      BY <1>1, Zenon DEF AllIds, Open
    <3> QED
      BY <1>0, <2>3, <3>1 DEF ReadInv
  <2>8. ASSUME NEW i \in call'[c].steady, NEW t \in Open, Dwells(i, t), t < s + 1
        PROVE  i \in call'[c].found
    <3>1. i \in Id /\ i \in stored[t] /\ t \in Nat
      BY <1>0, <1>1, <2>3, <2>8 DEF Dwells, TypeOK, CallRecord, Open
    <3>2. CASE t = s
      BY <2>3, <3>1, <3>2 DEF Ids
    <3>3. CASE t < s
      BY <1>0, <2>3, <2>8, <3>3, Zenon DEF ReadInv
    <3> QED
      BY <1>1, <2>8, <3>1, <3>2, <3>3
  <2>9. ReadInv(c)'
    <3>1. CASE s + 1 < shards
      BY <1>0, <2>3, <2>5, <2>7, <2>8, <3>1, Zenon DEF ReadInv, Answered
    <3>2. CASE ~(s + 1 < shards)
      <4>1. ASSUME NEW i \in call'[c].steady
            PROVE  i \in call'[c].found
        <5>1. PICK t \in Open : Dwells(i, t)
          BY <1>0, <2>7, EachDwells, Zenon
        <5>2. t < s + 1
          BY <1>1, <3>2 DEF Open
        <5> QED
          BY <2>8, <5>1, <5>2
      <4> QED
        BY <2>3, <2>7, <3>2, <4>1, Zenon DEF ReadInv, Answered
    <3> QED
      BY <3>1, <3>2
  <2>10. CheckpointInv(c)' /\ BatchInv(c)'
    BY <2>3 DEF CheckpointInv, BatchInv, Answered
  <2> QED
    BY <1>0, <2>3, <2>4, <2>6, <2>9, <2>10, QuietStep
<1> QED
  BY <1>2, <1>3

-----------------------------------------------------------------------------
(* Visiting the shards in order                                             *)

\* A client in a call: the store is open, and the call goes on with one of its shards.
LEMMA InCall ==
    ASSUME ShardedInv, NEW c \in Client, call[c].op \in Ops
    PROVE  /\ phase = "open" /\ shards \in ShardNum /\ shards \in Nat \ {0} /\ opened = shards
           /\ TypeOK /\ call \in [Client -> CallRecord]
           /\ call[c].next \in Shard /\ call[c].next \in Nat /\ call[c].next < shards
           /\ call[c].next \in Open /\ Open \subseteq Shard
           /\ CallInv(c) /\ ReadInv(c) /\ CheckpointInv(c) /\ BatchInv(c)
<1>1. phase = "open" /\ shards \in ShardNum /\ opened = shards
  BY CallsNeedOpen, Zenon DEF ShardedInv, ProcessInv, Ops
<1>2. /\ TypeOK /\ call \in [Client -> CallRecord] /\ call[c].next \in Shard
      /\ CallInv(c) /\ ReadInv(c) /\ CheckpointInv(c) /\ BatchInv(c)
  BY DEF ShardedInv, TypeOK, CallRecord
<1>3. shards \in Nat \ {0} /\ Open \subseteq Shard /\ call[c].next \in Nat
  BY <1>1, <1>2, ShardFacts, Zenon DEF Open
<1>4. call[c].next < shards
  BY <1>2, Zenon DEF CallInv
<1> QED
  BY <1>1, <1>2, <1>3, <1>4 DEF Open

\* The next shard is a shard, if there is one.
LEMMA NextShard ==
    ASSUME ShardedInv, NEW c \in Client, call[c].op \in Ops, call[c].next + 1 < shards
    PROVE  call[c].next + 1 \in Shard
  BY InCall, ShardFacts

\* A call goes on with the next shard, or has its answer.
LEMMA PassedOrAnswerFacts ==
    ASSUME ShardedInv, NEW c \in Client, call[c].op \in Ops, NEW q, q = PassedOrAnswer(c)
    PROVE  /\ q \in [Client -> CallRecord]
           /\ \A d \in Client : d # c => q[d] = call[d]
           /\ q[c].items = call[c].items /\ q[c].sole = call[c].sole /\ q[c].left = call[c].left
           /\ q[c].logged = call[c].logged
           /\ IF call[c].next + 1 < shards THEN q[c].op = call[c].op /\ q[c].next = call[c].next + 1
              ELSE q[c].op = "answer" /\ q[c].of = call[c].op
<1>0. call \in [Client -> CallRecord]
  BY InCall
<1>1. CASE call[c].next + 1 < shards
  <2>1. call[c].next + 1 \in Shard
    BY <1>1, NextShard
  <2> QED
    BY <1>0, <1>1, <2>1, AdvancedFacts DEF PassedOrAnswer
<1>2. CASE ~(call[c].next + 1 < shards)
  BY <1>0, <1>2, AnswerFacts, Zenon DEF PassedOrAnswer
<1> QED
  BY <1>1, <1>2

\* A call goes on with the next shard, or returns Ok.
LEMMA PassedFacts ==
    ASSUME ShardedInv, NEW c \in Client, call[c].op \in Ops, NEW q, q = Passed(c)
    PROVE  /\ q \in [Client -> CallRecord]
           /\ \A d \in Client : d # c => q[d] = call[d]
           /\ IF call[c].next + 1 < shards
              THEN /\ q[c].op = call[c].op /\ q[c].next = call[c].next + 1 /\ q[c].left = call[c].left
                   /\ q[c].items = call[c].items /\ q[c].sole = call[c].sole
              ELSE q[c] = Idle
<1>0. call \in [Client -> CallRecord]
  BY InCall
<1>1. CASE call[c].next + 1 < shards
  <2>1. call[c].next + 1 \in Shard
    BY <1>1, NextShard
  <2> QED
    BY <1>0, <1>1, <2>1, AdvancedFacts DEF Passed
<1>2. CASE ~(call[c].next + 1 < shards)
  BY <1>0, <1>2, EndedFacts DEF Passed
<1> QED
  BY <1>1, <1>2

\* What the open shards hold after the step.
LEMMA HeldNext ==
    ASSUME shards' = shards
    PROVE  AllIds' = Held(stored')
  BY DEF AllIds, Ids, Held, Open

\* A client that does nothing but watch stands by.
LEMMA WatchedBystander ==
    ASSUME ShardedInv, shards' = shards, NEW d \in Client, NEW cs \in [Client -> CallRecord],
           SameCall(cs[d], call[d]), cs[d].logged \subseteq call[d].logged,
           cs[d].steady = call[d].steady, cs[d].seen = call[d].seen,
           call' = Watched(cs, stored')
    PROVE  Bystander(d)
<1>1. /\ SameCall(call'[d], cs[d]) /\ call'[d].logged = cs[d].logged
      /\ call'[d].steady \subseteq cs[d].steady /\ cs[d].seen \subseteq call'[d].seen
      /\ cs[d].op \in {"search", "list"} =>
             call'[d].steady \subseteq Held(stored') /\ Held(stored') \subseteq call'[d].seen
  BY WatchedFacts, Zenon
<1> QED
  BY <1>1, HeldNext, Zenon DEF Bystander, SameCall

\* CreateShard: a shard gets its index, or has one.
LEMMA CreateShardStep ==
    ASSUME ShardedInv, NEW c \in Client, CreateShard(c)
    PROVE  ShardedInv'
<1> DEFINE s == call[c].next
<1>0. /\ call[c].op = "create" /\ call[c].op \in Ops /\ shards' = shards
      /\ UNCHANGED <<process, stored, log, promised, hist, lastNum>>
      /\ UNCHANGED counters
  BY Zenon DEF CreateShard, Ops, process
<1>1. /\ phase = "open" /\ TypeOK /\ CallInv(c) /\ s \in Shard /\ s \in Nat /\ shards \in Nat
  BY <1>0, InCall
<1>2. CASE index[s]
  <2>1. call' = [call EXCEPT ![c] = Idle] /\ index' = index
    BY <1>2 DEF CreateShard
  <2>2. failures' \in 0 .. MaxFailures /\ calls' = calls /\ opens' = opens
    BY <1>0, <1>1 DEF counters, TypeOK
  <2> QED
    BY <1>0, <1>1, <2>1, <2>2, EndStep, Zenon DEF disk
<1>3. CASE ~index[s]
  <2>1. call' = Passed(c) /\ index' = [index EXCEPT ![s] = TRUE]
    BY <1>3, Zenon DEF CreateShard
  <2>2. /\ call' \in [Client -> CallRecord]
        /\ \A d \in Client : d # c => call'[d] = call[d]
        /\ IF s + 1 < shards
           THEN /\ call'[c].op = call[c].op /\ call'[c].next = s + 1 /\ call'[c].left = call[c].left
                /\ call'[c].items = call[c].items /\ call'[c].sole = call[c].sole
           ELSE call'[c] = Idle
    BY <1>0, <2>1, PassedFacts
  <2>3. index' \in [Shard -> BOOLEAN] /\ \A t \in Shard : index[t] => index'[t]
    BY <1>1, <2>1, Zenon DEF TypeOK
  <2>4. TypeOK'
    BY <1>0, <1>1, <2>2, <2>3 DEF TypeOK, process, counters
  <2>5. CASE s + 1 < shards
    <3>1. CallInv(c)'
      BY <1>0, <1>1, <2>2, <2>5, Zenon DEF CallInv, Writes, Open
    <3>2. ReadInv(c)' /\ CheckpointInv(c)' /\ BatchInv(c)'
      BY <1>0, <2>2, <2>5, Zenon DEF ReadInv, CheckpointInv, BatchInv, Answered
    <3> QED
      BY <1>0, <1>1, <2>2, <2>3, <2>4, <2>5, <3>1, <3>2, QuietStep, Zenon
  <2>6. CASE ~(s + 1 < shards)
    BY <1>0, <1>1, <2>2, <2>3, <2>4, <2>6, EndedInv, QuietStep, Zenon
  <2> QED
    BY <2>5, <2>6
<1> QED
  BY <1>2, <1>3, Zenon

\* The home of an item stays the same, and so does what is meant by replaying it.
LEMMA SameHome ==
    ASSUME shards \in ShardNum, shards' = shards, NEW i \in Item
    PROVE  \E h \in Shard : h \in Open /\ Home(i) = h /\ Home(i)' = h /\ Replayed(Home(i))' = Replayed(h)'
<1>1. PICK h \in Shard : h \in Open /\ h = Home(i)
  BY HomeIsOpen
<1>2. Home(i)' = h
  BY <1>1, Zenon DEF Home
<1>3. Replayed(Home(i))' = Replayed(h)'
  BY <1>2 DEF Replayed, About
<1> QED
  BY <1>1, <1>2, <1>3

\* Truncating the log of a shard leaves less to say about logs.
LEMMA TruncateLogs ==
    ASSUME ShardedInv, phase = "open", UNCHANGED <<process, index>>, hist \subseteq hist',
           NEW s \in Shard, log' = [log EXCEPT ![s] = <<>>]
    PROVE  LogsHomed' /\ IndexInv' /\ log' \in [Shard -> Seq(LogOp)]
<1>1. log'[s] = <<>> /\ log' \in [Shard -> Seq(LogOp)] /\ \A t \in Shard : t # s => log'[t] = log[t]
  BY DEF ShardedInv, TypeOK
<1>2. shards' = shards /\ opened' = opened /\ index' = index /\ 0 .. opened - 1 \subseteq Shard
  BY ShardFacts DEF process, ShardedInv, ProcessInv
<1>3. LogsHomed'
  <2>1. SUFFICES ASSUME NEW t \in 0 .. opened - 1, NEW n \in DOMAIN log'[t], NEW i \in log'[t][n].items
                 PROVE  Home(i)' = t
    BY <1>2 DEF LogsHomed
  <2>2. t \in Shard /\ t # s
    BY <1>1, <1>2
  <2>3. n \in DOMAIN log[t] /\ i \in log[t][n].items
    BY <1>1, <2>2, Zenon
  <2>4. Home(i) = t
    BY <2>3, Zenon DEF ShardedInv, LogsHomed
  <2> QED
    BY <1>2, <2>4 DEF Home
<1>4. IndexInv'
  BY <1>1, <1>2 DEF ShardedInv, IndexInv, NeedsIndex
<1> QED
  BY <1>1, <1>3, <1>4

\* A checkpoint or a recovery is through with a shard.
LEMMA PassedOnInv ==
    ASSUME ShardedInv, NEW c \in Client, call[c].op \in {"checkpoint", "recover"}, shards' = shards,
           NEW q, q = PassedOrAnswer(c), SameCall(call'[c], q[c])
    PROVE  /\ call[c].items = {} /\ call'[c].items = {} /\ call'[c].sole = {}
           /\ CallInv(c)' /\ ReadInv(c)' /\ BatchInv(c)'
           /\ call[c].op = "recover" => CheckpointInv(c)'
<1>0. call[c].op \in Ops
  BY Zenon DEF Ops
<1>1. CallInv(c) /\ call[c].next \in Nat /\ shards \in Nat
  BY <1>0, InCall, Zenon
<1>2. call[c].items = {} /\ call[c].sole = {} /\ call[c].left \subseteq Open
  BY <1>0, <1>1, Zenon DEF CallInv, Writes
<1>3. /\ q[c].items = call[c].items /\ q[c].sole = call[c].sole /\ q[c].left = call[c].left
      /\ IF call[c].next + 1 < shards THEN q[c].op = call[c].op /\ q[c].next = call[c].next + 1
         ELSE q[c].op = "answer" /\ q[c].of = call[c].op
  BY <1>0, PassedOrAnswerFacts, Zenon
<1>4. call'[c].items = {} /\ call'[c].sole = {} /\ call'[c].left \subseteq Open'
  BY <1>2, <1>3 DEF SameCall, Open
<1>5. CASE call[c].next + 1 < shards
  <2>1. call'[c].op = call[c].op /\ call'[c].next < shards'
    BY <1>3, <1>5 DEF SameCall
  <2>2. CallInv(c)'
    BY <1>4, <2>1, Zenon DEF CallInv, Writes
  <2>3. ReadInv(c)' /\ BatchInv(c)' /\ (call[c].op = "recover" => CheckpointInv(c)')
    BY <2>1, Zenon DEF ReadInv, BatchInv, CheckpointInv, Answered
  <2> QED
    BY <1>2, <1>4, <2>2, <2>3, Zenon
<1>6. CASE ~(call[c].next + 1 < shards)
  <2>1. call'[c].op = "answer" /\ call'[c].of = call[c].op
    BY <1>3, <1>6 DEF SameCall
  <2>2. CallInv(c)'
    BY <1>4, <2>1, Zenon DEF CallInv, Ops, Writes
  <2>3. ReadInv(c)' /\ BatchInv(c)' /\ (call[c].op = "recover" => CheckpointInv(c)')
    BY <2>1, Zenon DEF ReadInv, BatchInv, CheckpointInv, Answered
  <2> QED
    BY <1>2, <1>4, <2>2, <2>3, Zenon
<1> QED
  BY <1>5, <1>6

\* CheckpointShard: the log of a shard is truncated.
LEMMA CheckpointShardStep ==
    ASSUME ShardedInv, NEW c \in Client, CheckpointShard(c)
    PROVE  ShardedInv'
<1> DEFINE s == call[c].next
<1> DEFINE q == PassedOrAnswer(c)
<1>0. /\ call[c].op = "checkpoint" /\ call[c].op \in Ops /\ shards' = shards
      /\ stored' = stored /\ index' = index /\ promised' = promised
      /\ UNCHANGED <<process, lastNum>> /\ hist' = hist
      /\ UNCHANGED counters
      /\ log' = [log EXCEPT ![s] = <<>>] /\ call' = Truncated(q, s)
  BY Zenon DEF CheckpointShard, Ops, process
<1>1. /\ phase = "open" /\ TypeOK /\ CallInv(c) /\ CheckpointInv(c) /\ s \in Shard /\ s \in Nat
      /\ shards \in ShardNum /\ shards \in Nat /\ call \in [Client -> CallRecord]
  BY <1>0, InCall, Zenon
<1>2. /\ q \in [Client -> CallRecord]
      /\ \A d \in Client : d # c => q[d] = call[d]
      /\ q[c].items = call[c].items /\ q[c].sole = call[c].sole /\ q[c].left = call[c].left
      /\ q[c].logged = call[c].logged
      /\ IF s + 1 < shards THEN q[c].op = call[c].op /\ q[c].next = s + 1
         ELSE q[c].op = "answer" /\ q[c].of = call[c].op
  BY <1>0, PassedOrAnswerFacts
<1>9. q = PassedOrAnswer(c)
  BY Zenon
<1> HIDE DEF q
<1>3. /\ call' \in [Client -> CallRecord]
      /\ \A d \in Client :
            /\ SameCall(call'[d], q[d])
            /\ call'[d].steady = q[d].steady /\ call'[d].seen = q[d].seen
            /\ call'[d].logged = q[d].logged \ {s}
  <2>1. call' = Truncated(q, s)
    BY <1>0, Zenon
  <2>2. q \in [Client -> CallRecord]
    BY <1>2
  <2> HIDE DEF s
  <2> QED
    BY <2>1, <2>2, TruncatedFacts
<1>4. LogsHomed' /\ IndexInv' /\ log' \in [Shard -> Seq(LogOp)]
  BY <1>0, <1>1, TruncateLogs, Zenon
<1>5. TypeOK'
  BY <1>0, <1>1, <1>3, <1>4, Zenon DEF TypeOK, process, counters
<1>6. StraysStay
  BY <1>0 DEF StraysStay
<1>7. ASSUME NEW d \in Client \ {c}
      PROVE  Bystander(d)
  <2>1. AllIds' = AllIds
    BY <1>0, Zenon DEF AllIds, Ids
  <2>2. q[d] = call[d] /\ ReadInv(d)
    BY <1>2 DEF ShardedInv
  <2> QED
    BY <1>3, <2>1, <2>2, Zenon DEF Bystander, ReadInv
<1>8. /\ call[c].items = {} /\ call'[c].items = {} /\ call'[c].sole = {}
      /\ CallInv(c)' /\ ReadInv(c)' /\ BatchInv(c)'
  <2>1. SameCall(call'[c], q[c])
    BY <1>3
  <2> QED
    BY <1>0, <1>9, <2>1, PassedOnInv, Zenon
<1>10. CheckpointInv(c)'
  <2>1. \A t \in call'[c].logged : t \in Nat /\ s + 1 <= t /\ t < shards
    <3>1. ASSUME NEW t \in call'[c].logged
          PROVE  t \in Nat /\ s + 1 <= t /\ t < shards
      <4>1. t \in call[c].logged /\ t # s
        BY <1>2, <1>3
      <4>2. t \in Nat
        BY <1>1, <4>1, ShardFacts, Zenon DEF CallRecord
      <4>3. CheckpointInv(c) /\ call[c].op = "checkpoint"
        BY <1>0, <1>1, Zenon
      <4>4. s <= t /\ t < shards
        BY <4>1, <4>3, Zenon DEF CheckpointInv
      <4> QED
        BY <1>1, <4>1, <4>2, <4>4
    <3> QED
      BY <3>1, Zenon
  <2>2. CASE s + 1 < shards
    <3>1. call'[c].op = "checkpoint" /\ call'[c].next = s + 1
      BY <1>0, <1>2, <1>3, <2>2, Zenon DEF SameCall
    <3> QED
      BY <1>0, <2>1, <3>1, Zenon DEF CheckpointInv, Answered
  <2>3. CASE ~(s + 1 < shards)
    <3>1. call'[c].logged = {}
      BY <1>1, <2>1, <2>3
    <3>2. call'[c].op = "answer"
      BY <1>2, <1>3, <2>3 DEF SameCall
    <3> QED
      BY <3>1, <3>2, Zenon DEF CheckpointInv
  <2> QED
    BY <2>2, <2>3
<1>11. ASSUME NEW i \in Item
       PROVE  Kept(i)
  <2>1. PICK h \in Shard : Home(i) = h /\ Home(i)' = h /\ Replayed(Home(i))' = Replayed(h)'
    BY <1>0, <1>1, SameHome, Zenon
  <2>2. CASE h = s
    <3>1. log'[h] = <<>>
      BY <1>0, <2>2 DEF TypeOK, ShardedInv
    <3>2. i \in Replayed(h)' <=> i \in stored'[h]
      BY <3>1, ReplayedTruncated, Zenon
    <3> QED
      BY <1>0, <2>1, <3>2, Zenon DEF Kept
  <2>3. CASE h # s
    <3>1. log'[h] = log[h]
      BY <1>0, <1>1, <2>3, Zenon DEF TypeOK
    <3>2. i \in Replayed(h)' <=> i \in Replayed(h)
      BY <1>0, <3>1, ReplayedUnchanged
    <3> QED
      BY <1>0, <2>1, <3>2 DEF Kept
  <2> QED
    BY <2>2, <2>3
<1> QED
  BY <1>0, <1>1, <1>4, <1>5, <1>6, <1>7, <1>8, <1>10, <1>11, OpenStep, Zenon

\* RecoverShard: the log of a shard is carried out again and truncated.
LEMMA RecoverShardStep ==
    ASSUME ShardedInv, NEW c \in Client, RecoverShard(c)
    PROVE  ShardedInv'
<1>0. /\ call[c].op = "recover" /\ call[c].op \in Ops /\ shards' = shards /\ opened' = opened
      /\ index' = index /\ promised' = promised
      /\ UNCHANGED <<process, lastNum>> /\ hist' = hist
      /\ UNCHANGED counters
  BY Zenon DEF RecoverShard, Ops, process
<1>1. /\ phase = "open" /\ TypeOK /\ CallInv(c) /\ shards \in ShardNum /\ shards \in Nat
      /\ opened = shards /\ LogsHomed
  BY <1>0, InCall DEF ShardedInv
<1>2. PICK s \in Shard : s = call[c].next /\ s \in Nat /\ s \in Open /\ s < shards
  BY <1>0, InCall
<1>3. CASE ~Replays(s, index[s])
  <2>1. call' = [call EXCEPT ![c] = Idle] /\ stored' = stored /\ log' = log
    BY <1>2, <1>3 DEF RecoverShard
  <2>2. failures' \in 0 .. MaxFailures /\ calls' = calls /\ opens' = opens
    BY <1>0, <1>1, Zenon DEF counters, TypeOK
  <2> QED
    BY <1>0, <1>1, <2>1, <2>2, EndStep, Zenon DEF disk
<1>4. CASE Replays(s, index[s])
  <2> DEFINE q == PassedOrAnswer(c)
  <2> DEFINE p == Truncated(q, s)
  <2>1. /\ stored' = [stored EXCEPT ![s] = Replayed(s)] /\ log' = [log EXCEPT ![s] = <<>>]
        /\ call' = Watched(p, stored')
    BY <1>2, <1>4, Zenon DEF RecoverShard
  <2>2. /\ q \in [Client -> CallRecord]
        /\ \A d \in Client : d # c => q[d] = call[d]
        /\ q[c].items = call[c].items /\ q[c].sole = call[c].sole /\ q[c].left = call[c].left
        /\ IF s + 1 < shards THEN q[c].op = call[c].op /\ q[c].next = s + 1
           ELSE q[c].op = "answer" /\ q[c].of = call[c].op
    BY <1>0, <1>2, PassedOrAnswerFacts
  <2>12. q = PassedOrAnswer(c)
    BY Zenon
  <2> HIDE DEF q
  <2>3. /\ p \in [Client -> CallRecord]
        /\ \A d \in Client :
              /\ SameCall(p[d], q[d])
              /\ p[d].steady = q[d].steady /\ p[d].seen = q[d].seen /\ p[d].logged \subseteq q[d].logged
    BY <2>2, TruncatedFacts
  <2> HIDE DEF p
  <2>4. call' \in [Client -> CallRecord] /\ SameCall(call'[c], p[c])
    BY <2>1, <2>3, WatchedFacts, Zenon
  <2>5. /\ call[c].items = {} /\ call'[c].items = {} /\ call'[c].sole = {}
        /\ CallInv(c)' /\ ReadInv(c)' /\ BatchInv(c)' /\ CheckpointInv(c)'
    <3>1. SameCall(call'[c], q[c])
      BY <2>3, <2>4 DEF SameCall
    <3> QED
      BY <1>0, <2>12, <3>1, PassedOnInv, Zenon
  <2>6. LogsHomed' /\ IndexInv' /\ log' \in [Shard -> Seq(LogOp)]
    BY <1>0, <1>1, <2>1, TruncateLogs, Zenon
  <2>7. stored' \in [Shard -> SUBSET Item]
    BY <1>1, <2>1, Zenon DEF TypeOK, Replayed
  <2>8. TypeOK'
    BY <1>0, <1>1, <2>4, <2>6, <2>7, Zenon DEF TypeOK, process, counters
  <2>9. /\ stored'[s] = Replayed(s) /\ log'[s] = <<>>
        /\ \A t \in Shard : t # s => stored'[t] = stored[t] /\ log'[t] = log[t]
    BY <1>1, <2>1, Zenon DEF TypeOK
  <2>10. StraysStay
    <3>1. SUFFICES ASSUME NEW t \in Open, NEW i \in Item, Home(i) # t
                   PROVE  i \in stored'[t] <=> i \in stored[t]
      BY DEF StraysStay
    <3>2. t \in Shard /\ t \in 0 .. opened - 1
      BY <1>1, ShardFacts, Zenon DEF Open
    <3>3. CASE t = s
      BY <1>1, <2>9, <3>1, <3>2, <3>3, ReplayedStray
    <3>4. CASE t # s
      BY <2>9, <3>2, <3>4, Zenon
    <3> QED
      BY <3>3, <3>4
  <2>11. ASSUME NEW d \in Client \ {c}
         PROVE  Bystander(d)
    <3>1. SameCall(p[d], call[d]) /\ p[d].steady = call[d].steady /\ p[d].seen = call[d].seen
      BY <2>2, <2>3, Zenon
    <3>2. p[d].logged \subseteq call[d].logged
      BY <2>2, <2>3
    <3> QED
      BY <1>0, <2>1, <2>3, <3>1, <3>2, WatchedBystander, Zenon
  <2>13. ASSUME NEW i \in Item
         PROVE  Kept(i)
    <3>1. PICK h \in Shard : Home(i) = h /\ Home(i)' = h /\ Replayed(Home(i))' = Replayed(h)'
      BY <1>0, <1>1, SameHome, Zenon
    <3>2. CASE h = s
      <4>1. i \in Replayed(h)' <=> i \in stored'[h]
        BY <2>9, <3>2, ReplayedTruncated, Zenon
      <4> QED
        BY <2>9, <3>1, <3>2, <4>1, Zenon DEF Kept
    <3>3. CASE h # s
      <4>1. i \in Replayed(h)' <=> i \in Replayed(h)
        BY <2>9, <3>3, ReplayedUnchanged
      <4> QED
        BY <2>9, <3>1, <3>3, <4>1, Zenon DEF Kept
    <3> QED
      BY <3>2, <3>3, Zenon
  <2> QED
    BY <1>0, <1>1, <2>5, <2>6, <2>8, <2>10, <2>11, <2>13, OpenStep, Zenon
<1> QED
  BY <1>3, <1>4, Zenon

-----------------------------------------------------------------------------
(* Writing                                                                  *)

\* Logging items at their home, where there is an index if they are ids.
LEMMA LogHome ==
    ASSUME ShardedInv, phase = "open", UNCHANGED <<process, index>>, hist \subseteq hist',
           NEW s \in Open, NEW op \in {"insert", "put", "delete"}, NEW items \in SUBSET Item,
           Logged(s, op, items), \A i \in items : Home(i) = s,
           index[s] \/ items \cap Id = {} \/ "refused" \in hist'
    PROVE  LogsHomed' /\ IndexInv' /\ log' \in [Shard -> Seq(LogOp)]
<1>0. /\ shards' = shards /\ opened' = opened /\ index' = index /\ 0 .. opened - 1 \subseteq Shard
      /\ s \in Shard /\ log \in [Shard -> Seq(LogOp)]
  BY ShardFacts, Zenon DEF process, ShardedInv, ProcessInv, TypeOK, Open
<1> DEFINE o == [op |-> op, items |-> items]
<1>1. o \in LogOp /\ o.items = items
  BY Zenon DEF LogOp
<1>2. log' = [log EXCEPT ![s] = Append(log[s], o)]
  BY Zenon DEF Logged
<1> HIDE DEF o
<1>3. /\ log'[s] = Append(log[s], o) /\ \A t \in Shard : t # s => log'[t] = log[t]
  BY <1>0, <1>2, Zenon
<1>4. log' \in [Shard -> Seq(LogOp)]
  BY <1>0, <1>1, <1>2
<1>5. \A n \in DOMAIN log'[s] : (n \in DOMAIN log[s] /\ log'[s][n] = log[s][n]) \/ log'[s][n] = o
  <2>1. log[s] \in Seq(LogOp) /\ Len(log[s]) \in Nat /\ DOMAIN log[s] = 1 .. Len(log[s])
    BY <1>0
  <2>2. DOMAIN log'[s] = 1 .. Len(log[s]) + 1
    BY <1>1, <1>3, <2>1
  <2> QED
    BY <1>1, <1>3, <2>1, <2>2
<1>6. LogsHomed'
  <2>1. SUFFICES ASSUME NEW t \in 0 .. opened - 1, NEW n \in DOMAIN log'[t], NEW i \in log'[t][n].items
                 PROVE  Home(i)' = t
    BY <1>0 DEF LogsHomed
  <2>2. ASSUME n \in DOMAIN log[t], i \in log[t][n].items
        PROVE  Home(i)' = t
    BY <1>0, <2>2, Zenon DEF ShardedInv, LogsHomed, Home
  <2>3. ASSUME t = s, i \in items
        PROVE  Home(i)' = t
    BY <1>0, <2>3, Zenon DEF Home
  <2>4. CASE t # s
    BY <1>0, <1>3, <2>2, <2>4, Zenon
  <2>5. CASE t = s
    BY <1>1, <1>5, <2>2, <2>3, <2>5, Zenon
  <2> QED
    BY <2>4, <2>5, Zenon
<1>7. IndexInv'
  <2>1. SUFFICES ASSUME "refused" \notin hist', NEW t \in Shard, NEW n \in DOMAIN log'[t],
                        log'[t][n].items \cap Id # {}
                 PROVE  index[t]
    BY <1>0, Zenon DEF IndexInv, NeedsIndex
  <2>2. ASSUME n \in DOMAIN log[t], log'[t][n] = log[t][n]
        PROVE  index[t]
    BY <2>1, <2>2, Zenon DEF ShardedInv, IndexInv, NeedsIndex
  <2>3. CASE t # s
    BY <1>3, <2>2, <2>3, Zenon
  <2>4. CASE t = s
    BY <1>1, <1>5, <2>1, <2>2, <2>4, Zenon
  <2> QED
    BY <2>3, <2>4, Zenon
<1> QED
  BY <1>4, <1>6, <1>7

\* What logging an operation at the home of its items means for an item.
LEMMA LoggedItem ==
    ASSUME ShardedInv, phase = "open", shards' = shards, NEW s \in Shard, NEW op, NEW items \in SUBSET Item,
           Logged(s, op, items), \A i \in items : Home(i) = s, NEW i \in Item
    PROVE  /\ i \in items => (i \in Replayed(Home(i))' <=> op # "delete") /\ Home(i)' = s
           /\ i \notin items /\ (\A t \in Shard : i \in stored'[t] <=> i \in stored[t]) => Kept(i)
<1>0. TypeOK /\ shards \in ShardNum
  BY DEF ShardedInv, ProcessInv
<1>1. PICK h \in Shard : Home(i) = h /\ Home(i)' = h /\ Replayed(Home(i))' = Replayed(h)'
  BY <1>0, SameHome, Zenon
<1>2. /\ i \in items => (i \in Replayed(s)' <=> op # "delete")
      /\ i \notin items /\ (i \in stored'[s] <=> i \in stored[s]) =>
             (i \in Replayed(s)' <=> i \in Replayed(s))
      /\ \A t \in Shard : t # s /\ (i \in stored'[t] <=> i \in stored[t]) =>
             (i \in Replayed(t)' <=> i \in Replayed(t))
  BY <1>0, ReplayedAppend, Zenon
<1>3. ASSUME i \in items
      PROVE  (i \in Replayed(Home(i))' <=> op # "delete") /\ Home(i)' = s
  <2>1. h = s
    BY <1>1, <1>3, Zenon
  <2> QED
    BY <1>1, <1>2, <1>3, <2>1
<1>4. ASSUME i \notin items, \A t \in Shard : i \in stored'[t] <=> i \in stored[t]
      PROVE  Kept(i)
  <2>1. i \in Replayed(h)' <=> i \in Replayed(h)
    <3>1. CASE h = s
      BY <1>2, <1>4, <3>1, Zenon
    <3>2. CASE h # s
      BY <1>2, <1>4, <3>2
    <3> QED
      BY <3>1, <3>2
  <2> QED
    BY <1>1, <1>4, <2>1 DEF Kept
<1> QED
  BY <1>3, <1>4

\* PutItem: a key is stored at its home.
LEMMA PutItemStep ==
    ASSUME ShardedInv, NEW c \in Client, PutItem(c)
    PROVE  ShardedInv'
<1>0. /\ call[c].op = "put" /\ call[c].op \in Ops /\ shards' = shards
      /\ index' = index /\ UNCHANGED <<process, lastNum>> /\ hist' = hist
      /\ UNCHANGED counters
      /\ call' = [call EXCEPT ![c] = Idle] /\ Settle(c, TRUE)
  BY Zenon DEF PutItem, Ops, process
<1>1. /\ phase = "open" /\ TypeOK /\ CallInv(c) /\ shards \in ShardNum /\ call \in [Client -> CallRecord]
      /\ Open \subseteq Shard
  BY <1>0, InCall, Zenon
<1>2. PICK i \in Key : call[c].items = {i}
  BY <1>0, <1>1, Zenon DEF CallInv
<1>3. i \in Item /\ i \notin Id /\ (CHOOSE x \in call[c].items : TRUE) = i
  BY <1>2, ShardedAssumption, Zenon DEF Item
<1>4. PICK s \in Shard : s = Home(i) /\ s \in Open
  BY <1>1, <1>3, HomeIsOpen
<1>5. Logged(s, "put", {i}) /\ stored' = [stored EXCEPT ![s] = stored[s] \cup {i}]
  BY <1>3, <1>4, Zenon DEF PutItem
<1>6. /\ stored' \in [Shard -> SUBSET Item] /\ i \in stored'[s]
      /\ \A t \in Shard, j \in Item : (j # i \/ t # s) => (j \in stored'[t] <=> j \in stored[t])
  BY <1>1, <1>3, <1>5 DEF TypeOK
<1>7. LogsHomed' /\ IndexInv' /\ log' \in [Shard -> Seq(LogOp)]
  <2>1. {i} \in SUBSET Item /\ {i} \cap Id = {} /\ \A j \in {i} : Home(j) = s
    BY <1>3, <1>4, Zenon
  <2> QED
    BY <1>0, <1>1, <1>4, <1>5, <2>1, LogHome
<1>8. /\ call' \in [Client -> CallRecord] /\ call'[c] = Idle
      /\ \A d \in Client : d # c => call'[d] = call[d]
  BY <1>0, <1>1, EndedFacts
<1>9. /\ promised' \in [Item -> SUBSET BOOLEAN]
      /\ \A j \in Item : promised'[j] = IF j \in call[c].sole THEN {TRUE} ELSE promised[j]
  <2>1. {TRUE} \in SUBSET BOOLEAN /\ promised \in [Item -> SUBSET BOOLEAN]
    BY <1>1 DEF TypeOK
  <2> QED
    BY <1>0, <2>1, Zenon DEF Settle
<1>10. TypeOK'
  BY <1>0, <1>1, <1>6, <1>7, <1>8, <1>9, Zenon DEF TypeOK, process, counters
<1>11. StraysStay
  BY <1>1, <1>4, <1>6, Zenon DEF StraysStay
<1>12. AllIds' = AllIds
  <2>1. \A t \in Open : stored'[t] \cap Id = stored[t] \cap Id
    BY <1>1, <1>3, <1>6, Zenon DEF Item
  <2> QED
    BY <1>0, <2>1, Zenon DEF AllIds, Ids, Open
<1>13. \A d \in Client \ {c} : Bystander(d)
  BY <1>0, <1>8, <1>12, SameBystander
<1>14. ASSUME NEW j \in Item \ call[c].items
       PROVE  promised'[j] = promised[j] /\ Kept(j)
  <2>1. j \notin call[c].sole /\ j \notin {i} /\ {i} \in SUBSET Item
    BY <1>1, <1>2, <1>3, <1>14, Zenon DEF CallInv
  <2>2. \A t \in Shard : j \in stored'[t] <=> j \in stored[t]
    BY <1>6, <2>1
  <2>3. Kept(j)
    BY <1>0, <1>1, <1>4, <1>5, <2>1, <2>2, LoggedItem, Zenon
  <2> QED
    BY <1>9, <2>1, <2>3, Zenon
<1>15. \/ promised'[i] = BOOLEAN
       \/ i \in call[c].sole /\ Allowed(i, stored[Home(i)])' /\ Allowed(i, Replayed(Home(i)))'
  <2>1. CASE i \notin call[c].sole
    BY <1>2, <1>3, <1>9, <2>1, Zenon DEF ShardedInv, ItemsInv
  <2>2. CASE i \in call[c].sole
    <3>1. promised'[i] = {TRUE}
      BY <1>3, <1>9, <2>2, Zenon
    <3>2. i \in Replayed(Home(i))' /\ Home(i)' = s
      <4>1. {i} \in SUBSET Item /\ i \in {i} /\ \A j \in {i} : Home(j) = s
        BY <1>3, <1>4, Zenon
      <4>2. (i \in Replayed(Home(i))' <=> "put" # "delete") /\ Home(i)' = s
        BY <1>0, <1>1, <1>5, <4>1, LoggedItem, Zenon
      <4> QED
        BY <4>2
    <3>3. i \in stored'[Home(i)']
      BY <1>6, <3>2, Zenon
    <3> QED
      BY <2>2, <3>1, <3>2, <3>3, Zenon DEF Allowed
  <2> QED
    BY <2>1, <2>2
<1>16. call'[c].items = {}
  BY <1>8, EndedInv
<1> QED
  BY <1>0, <1>1, <1>2, <1>7, <1>8, <1>10, <1>11, <1>13, <1>14, <1>15, <1>16, EndedInv, OpenStep, Zenon

\* DeleteItem: an item is removed from its home, or the shard refuses, after logging it.
LEMMA DeleteItemStep ==
    ASSUME ShardedInv, NEW c \in Client, DeleteItem(c)
    PROVE  ShardedInv'
<1> DEFINE q == [call EXCEPT ![c] = Idle]
<1>0. /\ call[c].op = "delete" /\ call[c].op \in Ops /\ shards' = shards
      /\ index' = index /\ UNCHANGED <<process, lastNum>>
      /\ UNCHANGED counters
      /\ call' = Watched(q, stored')
  BY Zenon DEF DeleteItem, Ops, process
<1>1. /\ phase = "open" /\ TypeOK /\ CallInv(c) /\ shards \in ShardNum /\ call \in [Client -> CallRecord]
      /\ Open \subseteq Shard
  BY <1>0, InCall, Zenon
<1>2. PICK i \in Item : call[c].items = {i}
  BY <1>0, <1>1 DEF CallInv
<1>3. (CHOOSE x \in call[c].items : TRUE) = i
  BY <1>2, Zenon
<1>4. PICK s \in Shard : s = Home(i) /\ s \in Open
  BY <1>1, <1>2, HomeIsOpen
<1> DEFINE ok == i \in Key \/ index[s]
<1>5. /\ Logged(s, "delete", {i})
      /\ stored' = IF ok THEN [stored EXCEPT ![s] = stored[s] \ {i}] ELSE stored
      /\ IF ok THEN Settle(c, FALSE) ELSE UNCHANGED promised
      /\ hist' = IF ok THEN hist ELSE hist \cup {"refused"}
  BY <1>3, <1>4, Zenon DEF DeleteItem
<1>6. /\ stored' \in [Shard -> SUBSET Item] /\ (ok => i \notin stored'[s])
      /\ \A t \in Shard, j \in Item : (j # i \/ t # s) => (j \in stored'[t] <=> j \in stored[t])
  BY <1>1, <1>2, <1>5, Zenon DEF TypeOK
<1>7. LogsHomed' /\ IndexInv' /\ log' \in [Shard -> Seq(LogOp)]
  <2>1. {i} \in SUBSET Item /\ \A j \in {i} : Home(j) = s
    BY <1>4, Zenon
  <2>2. index[s] \/ {i} \cap Id = {} \/ "refused" \in hist'
    BY <1>2, <1>5, ShardedAssumption DEF Item
  <2>3. hist \subseteq hist'
    BY <1>5
  <2> QED
    BY <1>0, <1>1, <1>4, <1>5, <2>1, <2>2, <2>3, LogHome
<1>8. /\ q \in [Client -> CallRecord] /\ q[c] = Idle
      /\ \A d \in Client : d # c => q[d] = call[d]
  BY <1>1, EndedFacts, Zenon
<1> HIDE DEF q
<1>9. call' \in [Client -> CallRecord] /\ call'[c] = Idle
  BY <1>0, <1>8, WatchedIdle, Zenon
<1>10. /\ promised' \in [Item -> SUBSET BOOLEAN]
       /\ \A j \in Item : promised'[j] = IF ok /\ j \in call[c].sole THEN {FALSE} ELSE promised[j]
  <2>1. {FALSE} \in SUBSET BOOLEAN /\ promised \in [Item -> SUBSET BOOLEAN]
    BY <1>1 DEF TypeOK
  <2>2. CASE ok
    <3>1. Settle(c, FALSE)
      BY <1>5, <2>2, Zenon
    <3> QED
      BY <2>1, <2>2, <3>1, Zenon DEF Settle
  <2>3. CASE ~ok
    BY <1>5, <2>1, <2>3, Zenon
  <2> QED
    BY <2>2, <2>3, Zenon
<1>11. hist' \subseteq {"resized", "refused"} /\ hist \subseteq hist'
  BY <1>1, <1>5 DEF TypeOK
<1> HIDE DEF ok
<1>12. TypeOK'
  BY <1>0, <1>1, <1>6, <1>7, <1>9, <1>10, <1>11, Zenon DEF TypeOK, process, counters
<1>13. StraysStay
  BY <1>1, <1>4, <1>6 DEF StraysStay
<1>14. ASSUME NEW d \in Client \ {c}
       PROVE  Bystander(d)
  <2>1. q[d] = call[d]
    BY <1>8
  <2> QED
    BY <1>0, <1>8, <2>1, WatchedBystander, Zenon DEF SameCall
<1>15. ASSUME NEW j \in Item \ call[c].items
       PROVE  promised'[j] = promised[j] /\ Kept(j)
  <2>1. j \notin call[c].sole /\ j \notin {i} /\ {i} \in SUBSET Item
    BY <1>1, <1>2, <1>15, Zenon DEF CallInv
  <2>2. \A t \in Shard : j \in stored'[t] <=> j \in stored[t]
    BY <1>6, <2>1
  <2>3. Kept(j)
    BY <1>0, <1>1, <1>4, <1>5, <2>1, <2>2, LoggedItem, Zenon
  <2> QED
    BY <1>10, <2>1, <2>3, Zenon
<1>16. \/ promised'[i] = BOOLEAN
       \/ i \in call[c].sole /\ Allowed(i, stored[Home(i)])' /\ Allowed(i, Replayed(Home(i)))'
  <2>1. CASE ~(ok /\ i \in call[c].sole)
    <3>1. promised'[i] = promised[i]
      BY <1>10, <2>1, Zenon
    <3> QED
      BY <1>2, <3>1 DEF ShardedInv, ItemsInv
  <2>2. CASE ok /\ i \in call[c].sole
    <3>1. promised'[i] = {FALSE}
      BY <1>10, <2>2, Zenon
    <3>2. i \notin Replayed(Home(i))' /\ Home(i)' = s
      <4>1. {i} \in SUBSET Item /\ i \in {i} /\ \A j \in {i} : Home(j) = s
        BY <1>4, Zenon
      <4>2. (i \in Replayed(Home(i))' <=> "delete" # "delete") /\ Home(i)' = s
        BY <1>0, <1>1, <1>5, <4>1, LoggedItem, Zenon
      <4> QED
        BY <4>2
    <3>3. i \notin stored'[Home(i)']
      BY <1>6, <2>2, <3>2, Zenon
    <3> QED
      BY <2>2, <3>1, <3>2, <3>3, Zenon DEF Allowed
  <2> QED
    BY <2>1, <2>2, Zenon
<1>17. call'[c].items = {}
  BY <1>9, EndedInv
<1> QED
  BY <1>0, <1>1, <1>2, <1>7, <1>9, <1>11, <1>12, <1>13, <1>14, <1>15, <1>16, <1>17, EndedInv, OpenStep, Zenon

=============================================================================
