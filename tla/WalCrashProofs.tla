---------------------------- MODULE WalCrashProofs -----------------------------
(***************************************************************************)
(* Proofs about the write-ahead log of mem/wal.rs under crashes, for every *)
(* number of crashes, failed appends and batches: its entries stay in      *)
(* order, and nothing acknowledged is missing from the recovery plan.      *)
(***************************************************************************)
EXTENDS WalCrash, WellFoundedInduction, FiniteSetTheorems, SequenceTheorems, TLAPS

-----------------------------------------------------------------------------
(* The inductive invariant                                                  *)

\* Only the last frame of a log may be incomplete: what is written behind it
\* is taken for a part of it.
FrontWhole(l) == \A i \in DOMAIN l : i < Len(l) => l[i].body = "whole"

\* No frame is mixed from the bytes of two, so that the whole log can be read.
NoneBad(l) == \A i \in DOMAIN l : l[i].body # "bad"

\* A frame that holds what an append wrote.
Sound(f) == f.body = "whole" /\ f.op # Garbage

\* The numbers of what appends wrote increase, and n is above all of them.
Ordered(l) ==
    \A i, j \in DOMAIN l : i < j /\ Sound(l[i]) /\ Sound(l[j]) => l[i].seq < l[j].seq

Under(l, n) == \A i \in DOMAIN l : Sound(l[i]) => l[i].seq < n

\* The operations of ops are, in order, in whole frames of l numbered above m.
Covers(l, ops, m) ==
    \E at \in [DOMAIN ops -> DOMAIN l] :
        /\ \A i, j \in DOMAIN ops : i < j => at[i] < at[j]
        /\ \A i \in DOMAIN ops : /\ l[at[i]].body = "whole"
                                 /\ l[at[i]].op = ops[i]
                                 /\ l[at[i]].seq > m

\* Without failed appends the numbers are in order, and next_seq is ahead of them.
OrderInv == ioErrors = 0 => Ordered(log) /\ (up => Under(log, nextSeq))

\* A truncation runs between a checkpoint, which covers all that was acknowledged,
\* and the next append.
JobInv == job # NoJob => up /\ acked = <<>>

\* A process that started above the marker hands out numbers above it.
NumberInv == up /\ ~below => marker < nextSeq

\* What is acknowledged and not yet covered by a checkpoint is in the log, above the
\* marker: AckedInPlan for a process that is up as well.
AckedInv == ~mixed => NoneBad(log) /\ (~below => Covers(log, acked, marker))

WalInv == TypeOK /\ FrontWhole(log) /\ OrderInv /\ JobInv /\ NumberInv /\ AckedInv

-----------------------------------------------------------------------------
(* The operators of Wal                                                     *)

\* A set of naturals has a least element.
LEMMA LeastNat ==
    ASSUME NEW T \in SUBSET Nat, T # {}
    PROVE  \E n \in T : \A m \in T : n <= m
<1>1. IsWellFoundedOn(OpToRel(<, Nat), Nat)
  BY NatLessThanWellFounded, Zenon
<1>2. PICK n \in T : \A m \in T : ~(<<m, n>> \in OpToRel(<, Nat))
  BY <1>1, WFMin, Zenon
<1>3. \A m \in Nat : m < n => <<m, n>> \in OpToRel(<, Nat)
  BY n \in Nat, Zenon DEF OpToRel
<1>4. \A m \in T : ~(m < n)
  BY <1>2, <1>3, Zenon
<1> QED
  BY <1>4

\* MaxOf finds the largest element of a bounded set of naturals.
LEMMA MaxOfFacts ==
    ASSUME NEW b \in Nat, NEW S \in SUBSET (0 .. b), S # {}
    PROVE  MaxOf(S) \in S /\ \A n \in S : n <= MaxOf(S)
<1> DEFINE T == {b - n : n \in S}
<1>0. \A n \in S : n \in 0 .. b /\ b - n \in Nat
  OBVIOUS
<1>1. T \in SUBSET Nat /\ T # {}
  BY <1>0, Zenon
<1>2. PICK t \in T : \A u \in T : t <= u
  BY <1>1, LeastNat, Zenon
<1>3. PICK m \in S : t = b - m
  BY <1>2
<1>4. \A n \in S : n <= m
  <2> TAKE n \in S
  <2>1. b - m <= b - n
    BY <1>2, <1>3
  <2> QED
    BY <2>1
<1> QED
  BY <1>4, Zenon DEF MaxOf

\* The frames before the first one that is not whole are whole; in a log of which
\* only the last frame may be incomplete they are all that is whole.
LEMMA WholeLenFacts ==
    ASSUME NEW l \in Seq(Frame)
    PROVE  /\ WholeLen(l) \in 0 .. Len(l)
           /\ \A i \in 1 .. WholeLen(l) : l[i].body = "whole"
           /\ FrontWhole(l) => \A i \in DOMAIN l : l[i].body = "whole" => i <= WholeLen(l)
<1> DEFINE S == {n \in 0 .. Len(l) : \A i \in 1 .. n : l[i].body = "whole"}
<1>1. Len(l) \in Nat /\ DOMAIN l = 1 .. Len(l)
  OBVIOUS
<1>2. S \in SUBSET (0 .. Len(l)) /\ 0 \in S
  BY <1>1
<1>3. WholeLen(l) \in S /\ \A n \in S : n <= WholeLen(l)
  BY <1>1, <1>2, MaxOfFacts, Zenon DEF WholeLen
<1>4. ASSUME FrontWhole(l), NEW i \in DOMAIN l, l[i].body = "whole"
      PROVE  i \in S
  BY <1>1, <1>4 DEF FrontWhole
<1> QED
  BY <1>3, <1>4

\* What read_all returns of a log whose last frame only may be incomplete: its
\* whole frames.
LEMMA ReadAllFacts ==
    ASSUME NEW l \in Seq(Frame), FrontWhole(l)
    PROVE  LET e == ReadAll(l).entries
           IN  /\ e \in Seq(Frame) /\ Whole(e)
               /\ DOMAIN e = {i \in DOMAIN l : l[i].body = "whole"}
               /\ \A i \in DOMAIN e : e[i] = l[i]
<1> DEFINE n == WholeLen(l)
           e == SubSeq(l, 1, n)
<1>1. /\ Len(l) \in Nat /\ DOMAIN l = 1 .. Len(l) /\ n \in 0 .. Len(l)
      /\ \A i \in 1 .. n : l[i].body = "whole"
      /\ \A i \in DOMAIN l : l[i].body = "whole" => i <= n
  BY WholeLenFacts
<1> HIDE DEF n
<1>2. e \in Seq(Frame) /\ Len(e) = n /\ DOMAIN e = 1 .. n /\ \A i \in 1 .. n : e[i] = l[i]
  BY <1>1, SubSeqProperties
<1>3. ReadAll(l).entries = e
  BY Zenon DEF ReadAll, n
<1> HIDE DEF e
<1> QED
  BY <1>1, <1>2, <1>3 DEF Whole

\* q has the elements of l at the positions P, in their order, and all of them.
Keeps(q, l, P) ==
    \E at \in [DOMAIN q -> P] :
        /\ \A m, n \in DOMAIN q : m < n => at[m] < at[n]
        /\ \A n \in DOMAIN q : q[n] = l[at[n]]
        /\ \A i \in P : \E n \in DOMAIN q : at[n] = i

\* Picked keeps what is at the positions P.
LEMMA PickedFacts ==
    ASSUME NEW A, NEW l \in Seq(A), NEW P \in SUBSET DOMAIN l
    PROVE  Picked(l, P) \in Seq(A) /\ Keeps(Picked(l, P), l, P)
<1> DEFINE Rank(i) == Cardinality({j \in P : j <= i})
           c == Cardinality(P)
           rank == [i \in P |-> Rank(i)]
           at == [n \in 1 .. c |-> CHOOSE i \in P : Rank(i) = n]
           q == Picked(l, P)
<1>1. DOMAIN l = 1 .. Len(l) /\ Len(l) \in Nat /\ \A i \in P : i \in Nat
  OBVIOUS
<1>2. IsFiniteSet(P) /\ c \in Nat
  <2>1. P \in SUBSET (1 .. Len(l)) /\ IsFiniteSet(1 .. Len(l))
    BY <1>1, FS_Interval
  <2>2. IsFiniteSet(P)
    BY <2>1, FS_Subset
  <2> QED
    BY <2>2, FS_CardinalityType
<1>3. ASSUME NEW i \in P
      PROVE  Rank(i) \in 1 .. c
  <2>1. IsFiniteSet({j \in P : j <= i}) /\ Rank(i) \in Nat /\ Rank(i) <= c
    BY <1>2, FS_Subset, FS_CardinalityType
  <2>2. i \in {j \in P : j <= i}
    BY <1>1
  <2>3. Rank(i) # 0
    BY <2>1, <2>2, FS_EmptySet
  <2> QED
    BY <1>2, <2>1, <2>3
<1>4. ASSUME NEW i \in P, NEW k \in P, i < k
      PROVE  Rank(i) < Rank(k)
  <2> DEFINE Si == {j \in P : j <= i}
             Sk == {j \in P : j <= k}
  <2>1. IsFiniteSet(Sk)
    BY <1>2, FS_Subset
  <2>2. Si \in SUBSET Sk /\ k \in Sk /\ k \notin Si
    BY <1>1, <1>4
  <2>3. Cardinality(Si) <= Cardinality(Sk) /\ Cardinality(Si) # Cardinality(Sk)
    BY <2>1, <2>2, FS_Subset
  <2> QED
    BY <1>3, <2>3
<1> HIDE DEF Rank
<1>5. rank \in Injection(P, 1 .. c)
  <2>1. rank \in [P -> 1 .. c]
    BY <1>3
  <2>2. \A i, k \in P : rank[i] = rank[k] => i = k
    BY <1>1, <1>3, <1>4
  <2> QED
    BY <2>1, <2>2 DEF Injection, IsInjective
<1>6. rank \in Surjection(P, 1 .. c)
  <2>1. IsFiniteSet(1 .. c) /\ Cardinality(1 .. c) = c
    BY <1>2, FS_Interval
  <2> QED
    BY <1>5, <2>1, FS_Injection
<1>7. \A n \in 1 .. c : \E i \in P : Rank(i) = n
  BY <1>6, Zenon DEF Surjection
<1>8. \A n \in 1 .. c : at[n] \in P /\ Rank(at[n]) = n
  BY <1>7
<1>9. \A m, n \in 1 .. c : m < n => at[m] < at[n]
  <2> SUFFICES ASSUME NEW m \in 1 .. c, NEW n \in 1 .. c, m < n
               PROVE  at[m] < at[n]
    OBVIOUS
  <2> DEFINE i == at[m]
             k == at[n]
  <2>1. i \in P /\ k \in P /\ Rank(i) = m /\ Rank(k) = n
    BY <1>8
  <2> HIDE DEF i, k
  <2>2. i # k /\ ~(k < i)
    BY <2>1, <1>4
  <2>3. i < k
    BY <2>1, <2>2, <1>1
  <2> QED
    BY <2>3 DEF i, k
<1>10. \A i \in P : \E n \in 1 .. c : at[n] = i
  <2> SUFFICES ASSUME NEW i \in P
               PROVE  at[Rank(i)] = i
    BY <1>3
  <2> DEFINE k == at[Rank(i)]
  <2>1. Rank(i) \in 1 .. c /\ k \in P /\ Rank(k) = Rank(i)
    BY <1>3, <1>8
  <2> HIDE DEF k
  <2>2. ~(k < i) /\ ~(i < k)
    BY <2>1, <1>4
  <2>3. k = i
    BY <2>1, <2>2, <1>1
  <2> QED
    BY <2>3 DEF k
<1>11. q = [n \in 1 .. c |-> l[at[n]]]
  BY DEF Picked, Rank
<1> HIDE DEF at, c, q
<1>12. q \in Seq(A) /\ DOMAIN q = 1 .. c /\ \A n \in 1 .. c : q[n] = l[at[n]]
  <2>1. \A n \in 1 .. c : l[at[n]] \in A
    BY <1>8, <1>1
  <2> QED
    BY <1>2, <1>11, <2>1, IsASeq
<1>13. at \in [DOMAIN q -> P]
  BY <1>8, <1>12 DEF at
<1>14. Keeps(q, l, P)
  <2> SUFFICES \E f \in [DOMAIN q -> P] :
                  /\ \A m, n \in DOMAIN q : m < n => f[m] < f[n]
                  /\ \A n \in DOMAIN q : q[n] = l[f[n]]
                  /\ \A i \in P : \E n \in DOMAIN q : f[n] = i
    BY Zenon DEF Keeps
  <2> WITNESS at \in [DOMAIN q -> P]
  <2> QED
    BY <1>9, <1>10, <1>12, Zenon
<1> QED
  BY <1>12, <1>14 DEF q

\* The filter of recovery and truncation keeps the entries above s.
LEMMA AfterFacts ==
    ASSUME NEW e \in Seq(Frame), NEW s \in Nat
    PROVE  /\ After(e, s) \in Seq(Frame)
           /\ Keeps(After(e, s), e, {i \in DOMAIN e : e[i].seq > s})
<1>1. {i \in DOMAIN e : e[i].seq > s} \in SUBSET DOMAIN e
  OBVIOUS
<1> QED
  BY <1>1, PickedFacts DEF After

\* max_seq is a number that a frame may have, or 0, and no entry is above it.
LEMMA LastSeqFacts ==
    ASSUME NEW e \in Seq(Frame)
    PROVE  /\ LastSeq(e) \in 0 .. MaxSeq
           /\ \A i \in DOMAIN e : e[i].seq <= LastSeq(e)
           /\ LastSeq(e) = 0 \/ \E i \in DOMAIN e : LastSeq(e) = e[i].seq
<1> DEFINE S == {0} \cup {e[i].seq : i \in DOMAIN e}
<1>1. \A i \in DOMAIN e : e[i].seq \in 1 .. MaxSeq
  <2>1. \A i \in DOMAIN e : e[i] \in Frame
    BY ElementOfSeq
  <2> QED
    BY <2>1 DEF Frame
<1>2. MaxSeq \in Nat
  BY WalAssumption
<1>3. S \in SUBSET (0 .. MaxSeq) /\ S # {}
  BY <1>1, <1>2
<1>4. MaxOf(S) \in S /\ \A n \in S : n <= MaxOf(S)
  BY <1>2, <1>3, MaxOfFacts, Zenon
<1> QED
  BY <1>3, <1>4, Zenon DEF LastSeq

\* Frames that an append numbers from s writes: whole but perhaps for the last one.
Numbered(fs, s) ==
    /\ fs \in Seq(Frame) /\ FrontWhole(fs) /\ NoneBad(fs)
    /\ \A i \in DOMAIN fs : fs[i].seq = s + i - 1

\* append and append_batch write whole frames numbered from next_seq.
LEMMA NewFramesFacts ==
    ASSUME WalTypeOK, NEW ops \in Seq(Op), nextSeq + Len(ops) <= MaxSeq + 1
    PROVE  /\ Numbered(NewFrames(ops), nextSeq) /\ Whole(NewFrames(ops))
           /\ Len(NewFrames(ops)) = Len(ops)
           /\ \A i \in DOMAIN ops : NewFrames(ops)[i].op = ops[i]
<1> DEFINE fs == NewFrames(ops)
<1>1. /\ Len(ops) \in Nat /\ DOMAIN ops = 1 .. Len(ops)
      /\ MaxSeq \in Nat /\ nextSeq \in 1 .. MaxSeq + 1
  BY WalAssumption DEF WalTypeOK
<1>2. ASSUME NEW i \in 1 .. Len(ops)
      PROVE  [seq |-> nextSeq + i - 1, op |-> ops[i], body |-> "whole"] \in Frame
  <2>1. nextSeq + i - 1 \in 1 .. MaxSeq /\ ops[i] \in Op
    BY <1>1
  <2> QED
    BY <2>1 DEF Frame
<1>3. /\ DOMAIN fs = 1 .. Len(ops)
      /\ \A i \in 1 .. Len(ops) : /\ fs[i] \in Frame /\ fs[i].seq = nextSeq + i - 1
                                  /\ fs[i].op = ops[i] /\ fs[i].body = "whole"
  BY <1>1, <1>2 DEF NewFrames
<1>4. fs \in Seq(Frame)
  BY <1>1, <1>2, IsASeq DEF NewFrames
<1> HIDE DEF fs
<1>5. Len(fs) = Len(ops)
  BY <1>1, <1>3, <1>4
<1> QED
  BY <1>1, <1>3, <1>4, <1>5 DEF Numbered, FrontWhole, NoneBad, Whole, fs

\* What an interrupted write leaves: frames from the front, the last perhaps torn.
LEMMA RemainsFacts ==
    ASSUME NEW fs \in Seq(Frame), Whole(fs), NEW r \in Remains(fs)
    PROVE  /\ r \in Seq(Frame) /\ FrontWhole(r) /\ NoneBad(r) /\ Len(r) <= Len(fs)
           /\ \A i \in DOMAIN r : i \in DOMAIN fs /\ r[i].seq = fs[i].seq /\ r[i].op = fs[i].op
<1>1. /\ Len(fs) \in Nat /\ DOMAIN fs = 1 .. Len(fs)
      /\ \A i \in 1 .. Len(fs) : fs[i] \in Frame /\ fs[i].body = "whole"
  BY ElementOfSeq DEF Whole
<1>2. ASSUME NEW n \in 0 .. Len(fs)
      PROVE  LET g == SubSeq(fs, 1, n)
             IN  g \in Seq(Frame) /\ Len(g) = n /\ DOMAIN g = 1 .. n /\ \A i \in 1 .. n : g[i] = fs[i]
  BY <1>1, SubSeqProperties
<1>3. CASE \E n \in 0 .. Len(fs) : r = SubSeq(fs, 1, n)
  BY <1>1, <1>2, <1>3 DEF FrontWhole, NoneBad
<1>4. ASSUME NEW n \in 1 .. Len(fs), r = Append(SubSeq(fs, 1, n - 1), Tear(fs[n]))
      PROVE  /\ r \in Seq(Frame) /\ Len(r) = n /\ DOMAIN r = 1 .. n
             /\ \A i \in 1 .. n - 1 : r[i] = fs[i]
             /\ r[n].seq = fs[n].seq /\ r[n].op = fs[n].op /\ r[n].body = "torn"
  <2> DEFINE g == SubSeq(fs, 1, n - 1)
             t == Tear(fs[n])
  <2>1. g \in Seq(Frame) /\ Len(g) = n - 1 /\ DOMAIN g = 1 .. n - 1 /\ \A i \in 1 .. n - 1 : g[i] = fs[i]
    BY <1>1, <1>2
  <2>2. t \in Frame /\ t.seq = fs[n].seq /\ t.op = fs[n].op /\ t.body = "torn"
    BY <1>1 DEF Tear, Frame
  <2> HIDE DEF g, t
  <2>3. /\ Append(g, t) \in Seq(Frame) /\ Len(Append(g, t)) = n
        /\ \A i \in 1 .. n - 1 : Append(g, t)[i] = g[i]
        /\ Append(g, t)[n] = t
    BY <2>1, <2>2, AppendProperties
  <2>4. r = Append(g, t)
    BY <1>4 DEF g, t
  <2>5. DOMAIN r = 1 .. n
    BY <2>3, <2>4
  <2> QED
    BY <2>1, <2>2, <2>3, <2>4, <2>5
<1>5. CASE \E n \in 1 .. Len(fs) : r = Append(SubSeq(fs, 1, n - 1), Tear(fs[n]))
  <2> PICK n \in 1 .. Len(fs) : r = Append(SubSeq(fs, 1, n - 1), Tear(fs[n]))
    BY <1>5
  <2>1. /\ r \in Seq(Frame) /\ Len(r) = n /\ DOMAIN r = 1 .. n
        /\ \A i \in 1 .. n - 1 : r[i] = fs[i]
        /\ r[n].seq = fs[n].seq /\ r[n].op = fs[n].op /\ r[n].body = "torn"
    BY <1>4
  <2>2. \A i \in 1 .. n : i \in 1 .. Len(fs) /\ (i \in 1 .. n - 1 \/ i = n)
    BY <1>1
  <2> QED
    BY <1>1, <2>1, <2>2 DEF FrontWhole, NoneBad
<1> QED
  BY <1>3, <1>5 DEF Remains

\* An interrupted append leaves frames numbered like those of the append.
LEMMA RemainsNumbered ==
    ASSUME NEW s \in Nat, NEW fs, Numbered(fs, s), Whole(fs), NEW r \in Remains(fs)
    PROVE  Numbered(r, s) /\ Len(r) <= Len(fs)
<1>1. fs \in Seq(Frame) /\ \A i \in DOMAIN fs : fs[i].seq = s + i - 1
  BY DEF Numbered
<1>2. /\ r \in Seq(Frame) /\ FrontWhole(r) /\ NoneBad(r) /\ Len(r) <= Len(fs)
      /\ \A i \in DOMAIN r : i \in DOMAIN fs /\ r[i].seq = fs[i].seq
  BY <1>1, RemainsFacts
<1> QED
  BY <1>1, <1>2 DEF Numbered

\* Numbers of frames are naturals.
LEMMA SeqNat ==
    ASSUME NEW l \in Seq(Frame), NEW i \in DOMAIN l
    PROVE  l[i] \in Frame /\ l[i].seq \in Nat
<1>1. l[i] \in Frame
  BY ElementOfSeq
<1>2. l[i].seq \in 1 .. MaxSeq
  BY <1>1 DEF Frame
<1> QED
  BY <1>1, <1>2, WalAssumption

\* p is l with the frames fs behind it.
Joins(p, l, fs) ==
    /\ p \in Seq(Frame) /\ Len(p) = Len(l) + Len(fs)
    /\ \A i \in 1 .. Len(l) : p[i] = l[i]
    /\ \A i \in 1 .. Len(fs) : p[Len(l) + i] = fs[i]

\* Concatenation joins two logs.
LEMMA JoinsConcat ==
    ASSUME NEW l \in Seq(Frame), NEW fs \in Seq(Frame)
    PROVE  Joins(l \o fs, l, fs)
  BY ConcatProperties DEF Joins

\* Numbered frames behind a log that ends whole leave it in order.
LEMMA JoinsFacts ==
    ASSUME NEW s \in Nat, NEW l \in Seq(Frame), Whole(l), NEW fs, Numbered(fs, s),
           NEW p, Joins(p, l, fs)
    PROVE  /\ p \in Seq(Frame) /\ FrontWhole(p) /\ NoneBad(p)
           /\ Ordered(l) /\ Under(l, s) => Ordered(p) /\ Under(p, s + Len(fs))
<1>1. /\ fs \in Seq(Frame) /\ FrontWhole(fs) /\ NoneBad(fs)
      /\ \A i \in DOMAIN fs : fs[i].seq = s + i - 1
      /\ Len(l) \in Nat /\ Len(fs) \in Nat /\ DOMAIN l = 1 .. Len(l) /\ DOMAIN fs = 1 .. Len(fs)
  BY DEF Numbered
<1>2. /\ p \in Seq(Frame) /\ Len(p) = Len(l) + Len(fs) /\ DOMAIN p = 1 .. Len(l) + Len(fs)
      /\ \A i \in 1 .. Len(l) : p[i] = l[i]
      /\ \A i \in 1 .. Len(fs) : p[Len(l) + i] = fs[i]
  BY <1>1 DEF Joins
<1>3. ASSUME NEW i \in DOMAIN l
      PROVE  /\ i \in Nat /\ i <= Len(l) /\ i \in DOMAIN p
             /\ p[i] = l[i] /\ p[i].body = "whole" /\ p[i].seq \in Nat
  BY <1>1, <1>2, SeqNat DEF Whole
<1>4. ASSUME NEW i \in DOMAIN p, i \notin DOMAIN l
      PROVE  /\ i \in Nat /\ i > Len(l) /\ i - Len(l) \in DOMAIN fs
             /\ p[i] = fs[i - Len(l)] /\ p[i].seq = s + i - Len(l) - 1
  <2>1. i > Len(l) /\ i \in Nat /\ i - Len(l) \in 1 .. Len(fs) /\ Len(l) + (i - Len(l)) = i
    BY <1>1, <1>2, <1>4
  <2>2. p[i] = fs[i - Len(l)]
    BY <1>2, <2>1
  <2> QED
    BY <1>1, <2>1, <2>2
<1>5. FrontWhole(p) /\ NoneBad(p)
  <2> SUFFICES ASSUME NEW i \in DOMAIN p
               PROVE  (i < Len(p) => p[i].body = "whole") /\ p[i].body # "bad"
    BY DEF FrontWhole, NoneBad
  <2>1. CASE i \in DOMAIN l
    BY <1>3, <2>1
  <2>2. CASE i \notin DOMAIN l
    <3> DEFINE k == i - Len(l)
    <3>1. k \in DOMAIN fs /\ p[i] = fs[k] /\ (i < Len(p) => k < Len(fs))
      BY <1>1, <1>2, <1>4, <2>2
    <3> HIDE DEF k
    <3> QED
      BY <1>1, <3>1 DEF FrontWhole, NoneBad
  <2> QED
    BY <2>1, <2>2
<1>6. ASSUME Ordered(l), Under(l, s), NEW i \in DOMAIN p, Sound(p[i])
      PROVE  /\ p[i].seq < s + Len(fs)
             /\ i \in DOMAIN l => p[i].seq < s
  <2>1. CASE i \in DOMAIN l
    <3>1. p[i].seq < s
      BY <1>3, <1>6, <2>1, Zenon DEF Under
    <3> QED
      BY <1>1, <1>3, <2>1, <3>1
  <2>2. CASE i \notin DOMAIN l
    BY <1>1, <1>2, <1>4, <2>2
  <2> QED
    BY <2>1, <2>2
<1>7. ASSUME Ordered(l), Under(l, s), NEW i \in DOMAIN p, NEW j \in DOMAIN p,
             i < j, Sound(p[i]), Sound(p[j])
      PROVE  p[i].seq < p[j].seq
  <2>1. CASE j \in DOMAIN l
    <3>1. i \in DOMAIN l
      BY <1>1, <1>2, <1>7, <2>1
    <3>2. p[i] = l[i] /\ p[j] = l[j]
      BY <1>3, <2>1, <3>1
    <3>3. Sound(l[i]) /\ Sound(l[j])
      BY <1>7, <3>2
    <3>4. l[i].seq < l[j].seq
      BY Ordered(l), i < j, <2>1, <3>1, <3>3, Zenon DEF Ordered
    <3> QED
      BY <3>2, <3>4, Zenon
  <2>2. CASE i \in DOMAIN l /\ j \notin DOMAIN l
    <3>1. p[i].seq < s /\ p[i].seq \in Nat
      BY <1>3, <1>6, <1>7, <2>2
    <3>2. p[j].seq = s + j - Len(l) - 1 /\ j > Len(l) /\ j \in Nat
      BY <1>4, <2>2
    <3> QED
      BY <1>1, <3>1, <3>2
  <2>3. CASE i \notin DOMAIN l /\ j \notin DOMAIN l
    <3>1. /\ p[i].seq = s + i - Len(l) - 1 /\ p[j].seq = s + j - Len(l) - 1
          /\ i \in Nat /\ j \in Nat
      BY <1>4, <2>3, Zenon
    <3> QED
      BY <1>1, <1>7, <3>1
  <2> QED
    BY <2>1, <2>2, <2>3, <1>2, <1>1, <1>7
<1>8. Ordered(l) /\ Under(l, s) => Ordered(p) /\ Under(p, s + Len(fs))
  BY <1>6, <1>7, Zenon DEF Ordered, Under
<1> QED
  BY <1>2, <1>5, <1>8

\* Frames written behind a log that only its last frame may leave incomplete.
LEMMA PlacedFacts ==
    ASSUME NEW s \in Nat, NEW l \in Seq(Frame), FrontWhole(l), NEW fs, Numbered(fs, s),
           NEW p \in Placed(l, fs)
    PROVE  /\ p \in Seq(Frame) /\ FrontWhole(p)
           /\ Ordered(l) /\ Under(l, s) => Ordered(p) /\ Under(p, s + Len(fs))
           /\ Whole(l) => p = l \o fs
<1> DEFINE front == SubSeq(l, 1, Len(l) - 1)
           garbled == [l[Len(l)] EXCEPT !.body = "whole", !.op = Garbage]
           bad == [l[Len(l)] EXCEPT !.body = "bad"]
<1>1. /\ fs \in Seq(Frame) /\ FrontWhole(fs) /\ NoneBad(fs)
      /\ \A i \in DOMAIN fs : fs[i].seq = s + i - 1
      /\ Len(l) \in Nat /\ Len(fs) \in Nat /\ DOMAIN l = 1 .. Len(l) /\ DOMAIN fs = 1 .. Len(fs)
  BY DEF Numbered
<1>2. CASE Whole(l)
  <2>1. p = l \o fs
    <3>1. fs = <<>> => l \o fs = l
      OBVIOUS
    <3> QED
      BY <1>2, <3>1 DEF Placed
  <2> QED
    BY <1>1, <1>2, <2>1, JoinsConcat, JoinsFacts
<1>3. CASE ~Whole(l) /\ p = l
  <2>1. Under(l, s) => Under(l, s + Len(fs))
    BY <1>1, SeqNat DEF Under
  <2> QED
    BY <1>3, <2>1
<1>4. ASSUME ~Whole(l)
      PROVE  /\ Len(l) # 0 /\ Len(l) \in DOMAIN l /\ l[Len(l)] \in Frame
             /\ front \in Seq(Frame) /\ Len(front) = Len(l) - 1 /\ DOMAIN front = 1 .. Len(l) - 1
             /\ \A i \in DOMAIN front : i \in DOMAIN l /\ front[i] = l[i] /\ l[i].body = "whole"
  <2>1. Len(l) # 0 /\ Len(l) \in DOMAIN l
    BY <1>1, <1>4 DEF Whole
  <2>2. /\ front \in Seq(Frame) /\ Len(front) = Len(l) - 1 /\ DOMAIN front = 1 .. Len(l) - 1
        /\ \A i \in 1 .. Len(l) - 1 : front[i] = l[i]
    BY <1>1, <2>1, SubSeqProperties
  <2>3. \A i \in 1 .. Len(l) - 1 : i \in DOMAIN l /\ l[i].body = "whole"
    BY <1>1 DEF FrontWhole
  <2> QED
    BY <2>1, <2>2, <2>3, SeqNat
<1>5. ASSUME ~Whole(l), NEW f \in Frame, ~Sound(f), NEW q, q = Append(front, f)
      PROVE  /\ q \in Seq(Frame) /\ FrontWhole(q) /\ (f.body = "whole" => Whole(q))
             /\ Ordered(l) => Ordered(q)
             /\ \A n \in Nat : Under(l, n) => Under(q, n)
  <2> HIDE DEF front
  <2>1. /\ q \in Seq(Frame) /\ Len(q) = Len(l) /\ DOMAIN q = DOMAIN l
        /\ \A i \in 1 .. Len(l) - 1 : q[i] = front[i]
        /\ q[Len(l)] = f
    <3>1. front \in Seq(Frame) /\ Len(front) = Len(l) - 1 /\ Len(l) # 0
      BY <1>4, <1>5
    <3>2. /\ q \in Seq(Frame) /\ Len(q) = Len(front) + 1 /\ q[Len(front) + 1] = f
          /\ \A i \in 1 .. Len(front) : q[i] = front[i]
      <4>1. /\ Append(front, f) \in Seq(Frame) /\ Len(Append(front, f)) = Len(front) + 1
            /\ Append(front, f)[Len(front) + 1] = f
            /\ \A i \in 1 .. Len(front) : Append(front, f)[i] = front[i]
        BY <3>1, AppendProperties
      <4> QED
        BY <1>5, <4>1
    <3> QED
      BY <1>1, <3>1, <3>2
  <2>2. \A i \in DOMAIN q : \/ i < Len(q) /\ q[i] = l[i] /\ q[i].body = "whole"
                            \/ i = Len(q) /\ q[i] = f
    <3>1. \A i \in DOMAIN q : i \in 1 .. Len(l) - 1 \/ i = Len(l)
      BY <1>1, <2>1
    <3>2. \A i \in 1 .. Len(l) - 1 : i < Len(l) /\ front[i] = l[i] /\ l[i].body = "whole"
      <4>1. /\ DOMAIN front = 1 .. Len(l) - 1
            /\ \A i \in DOMAIN front : front[i] = l[i] /\ l[i].body = "whole"
        BY <1>4, <1>5
      <4>2. \A i \in 1 .. Len(l) - 1 : i < Len(l)
        BY <1>1
      <4> QED
        BY <4>1, <4>2, Zenon
    <3> QED
      BY <2>1, <3>1, <3>2
  <2>3. FrontWhole(q) /\ (f.body = "whole" => Whole(q))
    BY <1>1, <2>1, <2>2 DEF FrontWhole, Whole
  <2>4. \A i \in DOMAIN q : Sound(q[i]) => q[i] = l[i]
    BY <1>5, <2>2
  <2>5. Ordered(l) => Ordered(q)
    BY <2>1, <2>4, Zenon DEF Ordered
  <2>6. \A n \in Nat : Under(l, n) => Under(q, n)
    BY <2>1, <2>4, Zenon DEF Under
  <2> QED
    BY <2>1, <2>3, <2>5, <2>6
<1>6. CASE ~Whole(l) /\ p = Append(front, bad)
  <2>1. bad \in Frame /\ ~Sound(bad)
    BY <1>4, <1>6, Zenon DEF Frame, Sound
  <2> HIDE DEF bad, front
  <2>2. /\ p \in Seq(Frame) /\ FrontWhole(p) /\ (Ordered(l) => Ordered(p))
        /\ \A n \in Nat : Under(l, n) => Under(p, n)
    BY <1>5, <1>6, <2>1, Zenon
  <2>3. Under(l, s) => Under(l, s + Len(fs))
    BY <1>1, SeqNat DEF Under
  <2> QED
    BY <1>1, <1>6, <2>2, <2>3
<1>7. ASSUME ~Whole(l), NEW j \in 1 .. Len(fs),
             p = Append(front, garbled) \o SubSeq(fs, j + 1, Len(fs))
      PROVE  /\ p \in Seq(Frame) /\ FrontWhole(p)
             /\ Ordered(l) /\ Under(l, s) => Ordered(p) /\ Under(p, s + Len(fs))
  <2> DEFINE q == Append(front, garbled)
             gs == SubSeq(fs, j + 1, Len(fs))
  <2>1. garbled \in Frame /\ ~Sound(garbled) /\ garbled.body = "whole"
    BY <1>4, <1>7, WalAssumption, Zenon DEF Frame, Sound
  <2> HIDE DEF garbled, front
  <2>2. /\ q \in Seq(Frame) /\ Whole(q) /\ (Ordered(l) => Ordered(q))
        /\ \A n \in Nat : Under(l, n) => Under(q, n)
    BY <1>5, <1>7, <2>1, Zenon
  <2>3. /\ gs \in Seq(Frame) /\ Len(gs) = Len(fs) - j /\ DOMAIN gs = 1 .. Len(fs) - j
        /\ \A i \in 1 .. Len(fs) - j : gs[i] = fs[i + j]
    <3>0. j \in Nat /\ Len(fs) \in Nat /\ j <= Len(fs)
      BY <1>1
    <3>1. \A i \in j + 1 .. Len(fs) : fs[i] \in Frame
      BY <1>1, ElementOfSeq
    <3>2. /\ gs \in Seq(Frame)
          /\ Len(gs) = IF j + 1 <= Len(fs) THEN Len(fs) - (j + 1) + 1 ELSE 0
          /\ \A i \in 1 .. Len(fs) - (j + 1) + 1 : gs[i] = fs[j + 1 + i - 1]
      BY <3>0, <3>1, SubSeqProperties
    <3>3. Len(gs) = Len(fs) - j /\ DOMAIN gs = 1 .. Len(gs)
      BY <3>0, <3>2
    <3>4. \A i \in 1 .. Len(fs) - j : i \in 1 .. Len(fs) - (j + 1) + 1 /\ j + 1 + i - 1 = i + j
      BY <3>0
    <3> QED
      BY <3>2, <3>3, <3>4
  <2> HIDE DEF q, gs
  <2>4. \A i \in DOMAIN gs : /\ i + j \in DOMAIN fs /\ gs[i] = fs[i + j]
                             /\ gs[i].seq = s + j + i - 1
                             /\ (i < Len(gs) => i + j < Len(fs))
    <3>1. \A i \in DOMAIN gs : i \in 1 .. Len(fs) - j /\ i + j \in DOMAIN fs /\ s + (i + j) - 1 = s + j + i - 1
      BY <1>1, <2>3
    <3>2. \A i \in DOMAIN gs : i < Len(gs) => i + j < Len(fs)
      BY <1>1, <2>3
    <3> QED
      BY <1>1, <2>3, <3>1, <3>2, Zenon
  <2>5. s + j \in Nat /\ Numbered(gs, s + j) /\ s + j + Len(gs) = s + Len(fs)
    <3>1. FrontWhole(gs) /\ NoneBad(gs)
      BY <1>1, <2>4 DEF FrontWhole, NoneBad
    <3> QED
      BY <1>1, <2>3, <2>4, <3>1 DEF Numbered
  <2>6. Under(l, s) => Under(l, s + j)
    BY SeqNat DEF Under
  <2>7. p = q \o gs
    BY <1>7 DEF q, gs
  <2>8. /\ p \in Seq(Frame) /\ FrontWhole(p)
        /\ Ordered(q) /\ Under(q, s + j) => Ordered(p) /\ Under(p, s + j + Len(gs))
    BY <2>2, <2>3, <2>5, <2>7, JoinsConcat, JoinsFacts, Zenon
  <2> QED
    BY <2>2, <2>5, <2>6, <2>8
<1>8. \/ Whole(l) \/ (~Whole(l) /\ p = l) \/ (~Whole(l) /\ p = Append(front, bad))
      \/ ~Whole(l) /\ \E j \in 1 .. Len(fs) : p = Append(front, garbled) \o SubSeq(fs, j + 1, Len(fs))
  BY Zenon DEF Placed
<1> QED
  BY <1>2, <1>3, <1>6, <1>7, <1>8, Zenon

-----------------------------------------------------------------------------
(* The filter of truncate_to and of the recovery plan                       *)

\* A whole log has no bad frame.
LEMMA WholeFacts ==
    ASSUME NEW l, Whole(l)
    PROVE  FrontWhole(l) /\ NoneBad(l)
  BY DEF Whole, FrontWhole, NoneBad

\* What truncate_to writes back is whole and in order.
LEMMA TruncatedFacts ==
    ASSUME NEW l \in Seq(Frame), FrontWhole(l), NEW s \in Nat,
           NEW a, a = After(ReadAll(l).entries, s)
    PROVE  /\ a \in Seq(Frame) /\ Whole(a)
           /\ Ordered(l) => Ordered(a)
           /\ \A n \in Nat : Under(l, n) => Under(a, n)
<1> DEFINE e == ReadAll(l).entries
           P == {i \in DOMAIN e : e[i].seq > s}
<1>1. /\ e \in Seq(Frame) /\ Whole(e)
      /\ DOMAIN e = {i \in DOMAIN l : l[i].body = "whole"}
      /\ \A i \in DOMAIN e : e[i] = l[i]
  BY ReadAllFacts, Zenon
<1> HIDE DEF e
<1>2. a \in Seq(Frame) /\ Keeps(a, e, P)
  BY <1>1, AfterFacts, Zenon DEF e
<1>3. PICK at \in [DOMAIN a -> P] :
         /\ \A m, n \in DOMAIN a : m < n => at[m] < at[n]
         /\ \A n \in DOMAIN a : a[n] = e[at[n]]
  BY <1>2, Zenon DEF Keeps
<1>4. \A n \in DOMAIN a : at[n] \in DOMAIN e /\ at[n] \in DOMAIN l /\ a[n] = l[at[n]]
  BY <1>1, <1>3, Zenon
<1>5. Whole(a)
  BY <1>1, <1>3, <1>4 DEF Whole
<1>6. Ordered(l) => Ordered(a)
  BY <1>3, <1>4, Zenon DEF Ordered
<1>7. \A n \in Nat : Under(l, n) => Under(a, n)
  BY <1>4 DEF Under
<1> QED
  BY <1>2, <1>5, <1>6, <1>7, Zenon

\* What an interrupted truncation leaves is in order too.
LEMMA TruncateRemainsFacts ==
    ASSUME NEW l \in Seq(Frame), FrontWhole(l), NEW s \in Nat,
           NEW r \in Remains(After(ReadAll(l).entries, s))
    PROVE  /\ r \in Seq(Frame) /\ FrontWhole(r) /\ NoneBad(r)
           /\ Ordered(l) => Ordered(r)
<1> DEFINE a == After(ReadAll(l).entries, s)
<1>1. a \in Seq(Frame) /\ Whole(a) /\ (Ordered(l) => Ordered(a))
  BY TruncatedFacts
<1> HIDE DEF a
<1>2. /\ r \in Seq(Frame) /\ FrontWhole(r) /\ NoneBad(r)
      /\ \A i \in DOMAIN r : i \in DOMAIN a /\ r[i].seq = a[i].seq /\ r[i].op = a[i].op
  BY <1>1, RemainsFacts, Zenon DEF a
<1>3. \A i \in DOMAIN r : Sound(r[i]) => Sound(a[i])
  BY <1>1, <1>2, Zenon DEF Sound, Whole
<1>4. Ordered(a) => Ordered(r)
  BY <1>2, <1>3 DEF Ordered
<1> QED
  BY <1>1, <1>2, <1>4

\* Nothing is missing of nothing.
LEMMA CoversNone ==
    ASSUME NEW l, NEW m
    PROVE  Covers(l, <<>>, m)
<1> DEFINE at == [i \in DOMAIN <<>> |-> i]
<1>1. DOMAIN <<>> = {}
  OBVIOUS
<1>2. at \in [DOMAIN <<>> -> DOMAIN l]
  BY <1>1
<1> QED
  BY <1>1, <1>2, Zenon DEF Covers

\* Frames behind a log take nothing from what it covers.
LEMMA CoversPrefix ==
    ASSUME NEW l \in Seq(Frame), NEW fs \in Seq(Frame), NEW p, Joins(p, l, fs),
           NEW ops, NEW m, Covers(l, ops, m)
    PROVE  Covers(p, ops, m)
<1>1. \A i \in DOMAIN l : i \in DOMAIN p /\ p[i] = l[i]
  BY DEF Joins
<1>2. PICK at \in [DOMAIN ops -> DOMAIN l] :
        /\ \A i, j \in DOMAIN ops : i < j => at[i] < at[j]
        /\ \A i \in DOMAIN ops : /\ l[at[i]].body = "whole"
                                 /\ l[at[i]].op = ops[i]
                                 /\ l[at[i]].seq > m
  BY Zenon DEF Covers
<1>3. at \in [DOMAIN ops -> DOMAIN p] /\ \A i \in DOMAIN ops : p[at[i]] = l[at[i]]
  BY <1>1, <1>2, Zenon
<1>4. \A i \in DOMAIN ops : p[at[i]].body = "whole" /\ p[at[i]].op = ops[i] /\ p[at[i]].seq > m
  BY <1>2, <1>3, Zenon
<1> QED
  BY <1>2, <1>3, <1>4, Zenon DEF Covers

\* The frames of an append cover its operations.
LEMMA CoversAppend ==
    ASSUME NEW l \in Seq(Frame), NEW fs \in Seq(Frame), NEW p, Joins(p, l, fs),
           NEW ops \in Seq(Op), NEW new \in Seq(Op), NEW m, Covers(l, ops, m),
           Len(fs) = Len(new),
           \A i \in DOMAIN new : fs[i].body = "whole" /\ fs[i].op = new[i] /\ fs[i].seq > m
    PROVE  Covers(p, ops \o new, m)
<1> DEFINE k == Len(ops)
           all == ops \o new
<1>1. /\ Len(l) \in Nat /\ Len(fs) \in Nat /\ k \in Nat /\ Len(new) \in Nat
      /\ DOMAIN l = 1 .. Len(l) /\ DOMAIN ops = 1 .. k /\ DOMAIN new = 1 .. Len(new)
      /\ DOMAIN p = 1 .. Len(l) + Len(fs)
      /\ \A i \in 1 .. Len(l) : p[i] = l[i]
      /\ \A i \in 1 .. Len(fs) : p[Len(l) + i] = fs[i]
  BY DEF Joins
<1>2. /\ DOMAIN all = 1 .. k + Len(new)
      /\ \A i \in 1 .. k : all[i] = ops[i]
      /\ \A i \in 1 .. Len(new) : all[k + i] = new[i]
  BY <1>1, ConcatProperties
<1>3. PICK f \in [DOMAIN ops -> DOMAIN l] :
        /\ \A i, j \in DOMAIN ops : i < j => f[i] < f[j]
        /\ \A i \in DOMAIN ops : /\ l[f[i]].body = "whole"
                                 /\ l[f[i]].op = ops[i]
                                 /\ l[f[i]].seq > m
  BY Zenon DEF Covers
<1> DEFINE at == [i \in DOMAIN all |-> IF i <= k THEN f[i] ELSE Len(l) + (i - k)]
<1> HIDE DEF all, k
<1>4. ASSUME NEW i \in DOMAIN all, i <= k
      PROVE  /\ i \in DOMAIN ops /\ at[i] = f[i] /\ f[i] \in 1 .. Len(l)
             /\ p[at[i]] = l[f[i]] /\ all[i] = ops[i]
  BY <1>1, <1>2, <1>3, <1>4
<1>5. ASSUME NEW i \in DOMAIN all, ~(i <= k)
      PROVE  /\ i - k \in DOMAIN new /\ at[i] = Len(l) + (i - k) /\ at[i] \in DOMAIN p
             /\ p[at[i]] = fs[i - k] /\ all[i] = new[i - k]
  <2>1. i - k \in 1 .. Len(new) /\ k + (i - k) = i
    BY <1>1, <1>2, <1>5
  <2>2. at[i] = Len(l) + (i - k)
    BY <1>5, Zenon
  <2>3. Len(l) + (i - k) \in DOMAIN p
    BY <1>1, <2>1
  <2> QED
    BY <1>1, <1>2, <2>1, <2>2, <2>3, Zenon
<1> HIDE DEF at
<1>6. at \in [DOMAIN all -> DOMAIN p]
  <2>1. \A i \in DOMAIN all : at[i] \in DOMAIN p
    BY <1>1, <1>4, <1>5
  <2> QED
    BY <2>1, Zenon DEF at
<1>7. \A i, j \in DOMAIN all : i < j => at[i] < at[j]
  <2> SUFFICES ASSUME NEW i \in DOMAIN all, NEW j \in DOMAIN all, i < j
               PROVE  at[i] < at[j]
    BY Zenon
  <2>0. i \in Nat /\ j \in Nat
    BY <1>1, <1>2
  <2>1. CASE j <= k
    <3>1. i <= k
      BY <1>1, <2>0, <2>1
    <3>2. i \in DOMAIN ops /\ j \in DOMAIN ops /\ at[i] = f[i] /\ at[j] = f[j]
      BY <1>4, <2>1, <3>1, Zenon
    <3> QED
      BY <1>3, <3>2, Zenon
  <2>2. CASE i <= k /\ ~(j <= k)
    <3>1. at[i] \in 1 .. Len(l) /\ at[j] = Len(l) + (j - k)
      BY <1>4, <1>5, <2>2, Zenon
    <3> QED
      BY <1>1, <2>0, <2>2, <3>1
  <2>3. CASE ~(i <= k)
    <3>1. at[i] = Len(l) + (i - k) /\ at[j] = Len(l) + (j - k)
      BY <1>1, <1>5, <2>0, <2>3
    <3> QED
      BY <1>1, <2>0, <3>1
  <2> QED
    BY <2>1, <2>2, <2>3, Zenon
<1>8. \A i \in DOMAIN all : p[at[i]].body = "whole" /\ p[at[i]].op = all[i] /\ p[at[i]].seq > m
  <2> SUFFICES ASSUME NEW i \in DOMAIN all
               PROVE  p[at[i]].body = "whole" /\ p[at[i]].op = all[i] /\ p[at[i]].seq > m
    OBVIOUS
  <2>1. CASE i <= k
    BY <1>3, <1>4, <2>1, Zenon
  <2>2. CASE ~(i <= k)
    <3>1. \E x \in DOMAIN new : p[at[i]] = fs[x] /\ all[i] = new[x]
      BY <1>5, <2>2, Zenon
    <3> QED
      BY <3>1, Zenon
  <2> QED
    BY <2>1, <2>2, Zenon
<1> QED
  BY <1>6, <1>7, <1>8, Zenon DEF Covers, all

-----------------------------------------------------------------------------
(* Every step keeps the invariant                                           *)

\* The values of the state and of the constants that the steps need.
LEMMA WalFacts ==
    ASSUME WalInv
    PROVE  /\ TypeOK /\ WalTypeOK /\ log \in Seq(Frame) /\ FrontWhole(log)
           /\ nextSeq \in Nat /\ nextSeq \in 1 .. MaxSeq + 1 /\ marker \in Nat /\ marker \in 0 .. MaxSeq
           /\ acked \in Seq(Op) /\ cut \in Seq(Frame) /\ job \in {NoJob} \cup 0 .. MaxSeq
           /\ MaxSeq \in Nat /\ MaxCrashes \in Nat /\ MaxIoErrors \in Nat
           /\ Batch \subseteq Seq(Op)
<1>1. MaxSeq \in Nat /\ MaxCrashes \in Nat /\ MaxIoErrors \in Nat /\ Batch \subseteq Seq(Op)
  BY WalAssumption, CrashAssumption, Zenon
<1> QED
  BY <1>1 DEF WalInv, TypeOK, WalTypeOK

\* Frames that an append, whole or not, adds to the log.
LEMMA Appending ==
    ASSUME WalInv, up, NEW ops \in Seq(Op), nextSeq + Len(ops) <= MaxSeq + 1,
           NEW r \in Remains(NewFrames(ops)) \cup {NewFrames(ops)}, NEW p \in Placed(log, r)
    PROVE  /\ p \in Seq(Frame) /\ FrontWhole(p)
           /\ ioErrors = 0 => Ordered(p) /\ Under(p, nextSeq + Len(ops))
           /\ ~mixed /\ Whole(log) => NoneBad(p) /\ Joins(p, log, r) /\ r \in Seq(Frame)
<1>1. /\ Numbered(NewFrames(ops), nextSeq) /\ Whole(NewFrames(ops))
      /\ Len(NewFrames(ops)) = Len(ops)
  BY WalFacts, NewFramesFacts
<1>2. Numbered(r, nextSeq) /\ Len(r) <= Len(ops)
  <2>1. CASE r = NewFrames(ops)
    BY <1>1, <2>1
  <2>2. CASE r \in Remains(NewFrames(ops))
    BY <1>1, <2>2, WalFacts, RemainsNumbered
  <2> QED
    BY <2>1, <2>2
<1>3. /\ p \in Seq(Frame) /\ FrontWhole(p)
      /\ Ordered(log) /\ Under(log, nextSeq) => Ordered(p) /\ Under(p, nextSeq + Len(r))
      /\ Whole(log) => p = log \o r
  BY <1>2, WalFacts, PlacedFacts, Zenon
<1>4. Under(p, nextSeq + Len(r)) => Under(p, nextSeq + Len(ops))
  <2>1. Len(r) \in Nat /\ Len(ops) \in Nat /\ nextSeq \in Nat
    BY <1>2, WalFacts DEF Numbered
  <2>2. \A i \in DOMAIN p : p[i].seq \in Nat
    BY <1>3, SeqNat
  <2> QED
    BY <1>2, <2>1, <2>2 DEF Under
<1>5. ioErrors = 0 => Ordered(log) /\ Under(log, nextSeq)
  BY Zenon DEF WalInv, OrderInv
<1>6. ASSUME Whole(log)
      PROVE  NoneBad(p) /\ Joins(p, log, r) /\ r \in Seq(Frame)
  <2>1. r \in Seq(Frame) /\ Joins(log \o r, log, r)
    BY <1>2, WalFacts, JoinsConcat DEF Numbered
  <2>2. p = log \o r
    BY <1>3, <1>6
  <2> QED
    BY <1>2, <1>6, <2>1, <2>2, WalFacts, JoinsFacts, Zenon
<1> QED
  BY <1>3, <1>4, <1>5, <1>6, Zenon

\* append, append_batch.
LEMMA AppendOkStep ==
    ASSUME WalInv, AppendOk
    PROVE  WalInv'
<1>0. PICK ops \in Batch :
        /\ Idle /\ WalAppend(ops) /\ acked' = acked \o ops /\ NoteMixed
        /\ UNCHANGED <<up, job, cut, below, crashes, ioErrors>>
  BY Zenon DEF AppendOk
<1> DEFINE fs == NewFrames(ops)
<1>1. /\ up /\ job = NoJob /\ nextSeq + Len(ops) <= MaxSeq + 1 /\ log' \in Placed(log, fs)
      /\ nextSeq' = nextSeq + Len(ops) /\ marker' = marker /\ mixed' = (mixed \/ ~Whole(log))
      /\ up' = up /\ job' = job /\ cut' = cut /\ below' = below
      /\ crashes' = crashes /\ ioErrors' = ioErrors /\ acked' = acked \o ops
  BY <1>0, Zenon DEF Idle, WalAppend, NoteMixed
<1>2. ops \in Seq(Op) /\ Len(ops) \in Nat
  BY WalFacts
<1> HIDE DEF fs
<1>3. /\ log' \in Seq(Frame) /\ FrontWhole(log')
      /\ ioErrors = 0 => Ordered(log') /\ Under(log', nextSeq + Len(ops))
      /\ ~mixed /\ Whole(log) => NoneBad(log') /\ Joins(log', log, fs) /\ fs \in Seq(Frame)
  BY <1>1, <1>2, Appending, Zenon DEF fs
<1>4. TypeOK'
  <2>1. nextSeq' \in 1 .. MaxSeq + 1 /\ acked' \in Seq(Op) /\ mixed' \in BOOLEAN
    BY <1>1, <1>2, WalFacts, ConcatProperties DEF TypeOK
  <2> QED
    BY <1>1, <1>3, <2>1, Zenon DEF WalInv, TypeOK, WalTypeOK
<1>5. OrderInv'
  BY <1>1, <1>3, Zenon DEF OrderInv
<1>6. JobInv' /\ NumberInv'
  BY <1>1, <1>2, WalFacts DEF WalInv, JobInv, NumberInv
<1>7. AckedInv'
  <2>1. SUFFICES ASSUME ~mixed'
                 PROVE  NoneBad(log') /\ (~below' => Covers(log', acked', marker'))
    BY DEF AckedInv
  <2>2. ~mixed /\ Whole(log) /\ NoneBad(log') /\ Joins(log', log, fs) /\ fs \in Seq(Frame)
    BY <1>1, <1>3, <2>1, Zenon
  <2>3. ASSUME ~below
        PROVE  Covers(log', acked \o ops, marker)
    <3>1. Covers(log, acked, marker) /\ marker < nextSeq
      BY <1>1, <2>2, <2>3, Zenon DEF WalInv, AckedInv, NumberInv
    <3>2. /\ Len(fs) = Len(ops) /\ Numbered(fs, nextSeq) /\ Whole(fs)
          /\ \A i \in DOMAIN ops : fs[i].op = ops[i]
      BY <1>1, <1>2, WalFacts, NewFramesFacts, Zenon DEF fs
    <3>3. \A i \in DOMAIN ops : i \in Nat /\ i >= 1 /\ i \in DOMAIN fs
      BY <1>2, <2>2, <3>2
    <3>4. \A i \in DOMAIN ops : fs[i].body = "whole" /\ fs[i].seq = nextSeq + i - 1
      BY <3>2, <3>3, Zenon DEF Whole, Numbered
    <3>5. \A i \in DOMAIN ops : fs[i].seq > marker
      BY <3>1, <3>3, <3>4, WalFacts
    <3> QED
      BY <1>2, <2>2, <3>1, <3>2, <3>4, <3>5, WalFacts, CoversAppend, Zenon
  <2> QED
    BY <1>1, <2>2, <2>3
<1> QED
  BY <1>3, <1>4, <1>5, <1>6, <1>7 DEF WalInv

\* An append that fails, and a crash in one, leave what was written of it.
LEMMA AppendLeavesStep ==
    ASSUME WalInv, Idle, NEW ops \in Seq(Op), nextSeq + Len(ops) <= MaxSeq + 1,
           log' \in AppendRemains(ops), NoteMixed,
           UNCHANGED <<nextSeq, marker, job, acked, below>>,
           cut' \in Seq(Frame), up' \in BOOLEAN,
           crashes' \in 0 .. MaxCrashes, ioErrors' \in 0 .. MaxIoErrors,
           (~up' /\ ioErrors' = ioErrors) \/ (up' /\ ioErrors' # 0)
    PROVE  WalInv'
<1>1. /\ up /\ job = NoJob /\ nextSeq' = nextSeq /\ marker' = marker /\ job' = job
      /\ acked' = acked /\ below' = below /\ mixed' = (mixed \/ ~Whole(log))
  BY Zenon DEF Idle, NoteMixed
<1>2. PICK r \in Remains(NewFrames(ops)) : log' \in Placed(log, r)
  BY Zenon DEF AppendRemains
<1>3. /\ log' \in Seq(Frame) /\ FrontWhole(log')
      /\ ioErrors = 0 => Ordered(log')
      /\ ~mixed /\ Whole(log) => NoneBad(log') /\ Joins(log', log, r) /\ r \in Seq(Frame)
  BY <1>1, <1>2, Appending, Zenon
<1>4. TypeOK'
  BY <1>1, <1>3, Zenon DEF WalInv, TypeOK, WalTypeOK
<1>5. OrderInv'
  BY <1>3 DEF OrderInv
<1>6. JobInv' /\ NumberInv'
  BY <1>1 DEF WalInv, JobInv, NumberInv
<1>7. AckedInv'
  <2>1. SUFFICES ASSUME ~mixed'
                 PROVE  NoneBad(log') /\ (~below' => Covers(log', acked', marker'))
    BY Zenon DEF AckedInv
  <2>2. ~mixed /\ Whole(log) /\ NoneBad(log') /\ Joins(log', log, r) /\ r \in Seq(Frame)
    BY <1>1, <1>3, <2>1, Zenon
  <2>3. ~below => Covers(log, acked, marker)
    BY <2>2, Zenon DEF WalInv, AckedInv
  <2> QED
    BY <1>1, <2>2, <2>3, WalFacts, CoversPrefix
<1> QED
  BY <1>3, <1>4, <1>5, <1>6, <1>7, Zenon DEF WalInv

\* write_marker at the end of a checkpoint.
LEMMA CheckpointStep ==
    ASSUME WalInv, Checkpoint
    PROVE  WalInv'
<1>1. /\ up /\ job' = nextSeq - 1 /\ marker' = nextSeq - 1 /\ acked' = <<>> /\ below' = FALSE
      /\ UNCHANGED <<log, nextSeq, up, cut, mixed, crashes, ioErrors>>
  BY DEF Checkpoint, Idle, WriteMarker
<1>2. nextSeq - 1 \in 0 .. MaxSeq /\ nextSeq - 1 < nextSeq
  BY WalFacts
<1>3. TypeOK'
  <2>1. <<>> \in Seq(Op)
    OBVIOUS
  <2> QED
    BY <1>1, <1>2, <2>1, Zenon DEF WalInv, TypeOK, WalTypeOK
<1>4. FrontWhole(log)' /\ OrderInv'
  BY <1>1, Zenon DEF WalInv, OrderInv, FrontWhole, Ordered, Under
<1>5. JobInv' /\ NumberInv'
  <2>1. marker' < nextSeq'
    BY <1>1, <1>2
  <2> QED
    BY <1>1, <2>1, Zenon DEF JobInv, NumberInv
<1>6. AckedInv'
  <2>1. Covers(log', acked', marker')
    BY <1>1, CoversNone, Zenon
  <2> QED
    BY <1>1, <2>1 DEF WalInv, AckedInv, NoneBad
<1> QED
  BY <1>3, <1>4, <1>5, <1>6 DEF WalInv

\* A truncation, or a crash in it, leaves a log in order with nothing acknowledged to hold.
LEMMA TruncateLeavesStep ==
    ASSUME WalInv, up, job # NoJob, job' = NoJob,
           \/ log' = log
           \/ /\ log' = After(ReadAll(log).entries, job)
           \/ log' \in Remains(After(ReadAll(log).entries, job)) /\ ~up',
           UNCHANGED <<nextSeq, marker, acked, mixed, below, ioErrors>>,
           cut' \in Seq(Frame), up' \in BOOLEAN, crashes' \in 0 .. MaxCrashes
    PROVE  WalInv'
<1>1. /\ nextSeq' = nextSeq /\ marker' = marker /\ acked' = acked /\ mixed' = mixed
      /\ below' = below /\ ioErrors' = ioErrors
  BY Zenon
<1>2. job \in Nat /\ log \in Seq(Frame) /\ FrontWhole(log) /\ nextSeq \in Nat
  BY WalFacts
<1>3. /\ log' \in Seq(Frame) /\ FrontWhole(log')
      /\ Ordered(log) => Ordered(log')
      /\ up' => (Under(log, nextSeq) => Under(log', nextSeq))
      /\ NoneBad(log) => NoneBad(log')
  <2>1. CASE log' = log
    BY <1>2, <2>1, Zenon
  <2>2. CASE log' = After(ReadAll(log).entries, job)
    <3>1. /\ log' \in Seq(Frame) /\ Whole(log') /\ (Ordered(log) => Ordered(log'))
          /\ Under(log, nextSeq) => Under(log', nextSeq)
      <4> DEFINE a == After(ReadAll(log).entries, job)
      <4>1. /\ a \in Seq(Frame) /\ Whole(a) /\ (Ordered(log) => Ordered(a))
            /\ \A n \in Nat : Under(log, n) => Under(a, n)
        BY <1>2, TruncatedFacts
      <4> HIDE DEF a
      <4>2. log' = a
        BY <2>2, Zenon DEF a
      <4> QED
        BY <1>2, <4>1, <4>2, Zenon
    <3>2. FrontWhole(log') /\ NoneBad(log')
      BY <3>1, WholeFacts, Zenon
    <3> QED
      BY <3>1, <3>2, Zenon
  <2>3. CASE log' \in Remains(After(ReadAll(log).entries, job)) /\ ~up'
    BY <1>2, <2>3, TruncateRemainsFacts, Zenon
  <2> QED
    BY <2>1, <2>2, <2>3, Zenon
<1>4. TypeOK'
  BY <1>1, <1>3, Zenon DEF WalInv, TypeOK, WalTypeOK
<1>5. OrderInv'
  BY <1>1, <1>3, Zenon DEF WalInv, OrderInv
<1>6. JobInv' /\ NumberInv'
  BY <1>1 DEF WalInv, JobInv, NumberInv
<1>7. AckedInv'
  <2>1. acked = <<>>
    BY Zenon DEF WalInv, JobInv
  <2>2. Covers(log', acked', marker')
    BY <1>1, <2>1, CoversNone
  <2> QED
    BY <1>1, <1>3, <2>2 DEF WalInv, AckedInv
<1> QED
  BY <1>3, <1>4, <1>5, <1>6, <1>7, Zenon DEF WalInv

\* Wal::open and recovery: numbering goes on above every entry.
LEMMA RecoverStep ==
    ASSUME WalInv, Recover
    PROVE  WalInv'
<1> DEFINE e == ReadAll(log).entries
<1>1. /\ nextSeq' = LastSeq(e) + 1 /\ acked' = <<>> /\ up' = TRUE /\ below' = (nextSeq' <= marker)
      /\ job' = IF Plan = <<>> THEN NoJob ELSE LastSeq(Plan)
      /\ UNCHANGED <<log, marker, cut, mixed, crashes, ioErrors>>
  BY Zenon DEF Recover, WalOpen
<1>2. /\ e \in Seq(Frame) /\ DOMAIN e = {i \in DOMAIN log : log[i].body = "whole"}
      /\ \A i \in DOMAIN e : e[i] = log[i]
  BY WalFacts, ReadAllFacts, Zenon
<1>3. Plan \in Seq(Frame)
  BY <1>2, WalFacts, AfterFacts, Zenon DEF Plan
<1> HIDE DEF e
<1>4. LastSeq(e) \in 0 .. MaxSeq /\ \A i \in DOMAIN e : e[i].seq <= LastSeq(e)
  BY <1>2, LastSeqFacts, Zenon
<1>5. job' \in {NoJob} \cup 0 .. MaxSeq
  BY <1>1, <1>3, LastSeqFacts
<1>6. LastSeq(e) \in Nat /\ LastSeq(e) + 1 \in 1 .. MaxSeq + 1
  BY <1>4, WalFacts
<1>7. TypeOK'
  BY <1>1, <1>5, <1>6 DEF WalInv, TypeOK, WalTypeOK
<1>8. FrontWhole(log)' /\ OrderInv'
  <2>1. Under(log, nextSeq')
    <3> SUFFICES ASSUME NEW i \in DOMAIN log, Sound(log[i])
                 PROVE  log[i].seq < LastSeq(e) + 1
      BY <1>1, Zenon DEF Under
    <3>1. i \in DOMAIN e /\ log[i].seq <= LastSeq(e)
      BY <1>2, <1>4, Zenon DEF Sound
    <3>2. log[i].seq \in Nat
      BY WalFacts, SeqNat
    <3> QED
      BY <1>6, <3>1, <3>2
  <2> QED
    BY <1>1, <2>1, Zenon DEF WalInv, OrderInv, FrontWhole, Ordered, Under
<1>9. JobInv' /\ NumberInv'
  <2>1. ~(nextSeq' <= marker) => marker < nextSeq'
    BY <1>1, <1>6, WalFacts
  <2> QED
    BY <1>1, <2>1, Zenon DEF JobInv, NumberInv
<1>10. AckedInv'
  <2>1. Covers(log', acked', marker')
    BY <1>1, CoversNone
  <2> QED
    BY <1>1, <2>1 DEF WalInv, AckedInv, NoneBad
<1> QED
  BY <1>7, <1>8, <1>9, <1>10 DEF WalInv

\* The invariant holds of an empty log, and every step keeps it.
LEMMA WalInvInit == Init => WalInv
<1> SUFFICES ASSUME Init
             PROVE  WalInv
  BY Zenon
<1>1. /\ log = <<>> /\ nextSeq = 1 /\ marker = 0 /\ up = TRUE /\ job = NoJob /\ acked = <<>>
      /\ cut = <<>> /\ mixed = FALSE /\ below = FALSE /\ crashes = 0 /\ ioErrors = 0
  BY DEF Init, WalInit
<1>2. <<>> \in Seq(Frame) /\ <<>> \in Seq(Op) /\ DOMAIN <<>> = {}
  OBVIOUS
<1>3. MaxSeq \in Nat /\ MaxCrashes \in Nat /\ MaxIoErrors \in Nat
  BY WalAssumption, CrashAssumption
<1>4. TypeOK
  <2>1. WalTypeOK
    <3>1. 1 \in 1 .. MaxSeq + 1 /\ 0 \in 0 .. MaxSeq
      BY <1>3
    <3> QED
      BY <1>1, <1>2, <3>1, Zenon DEF WalTypeOK
  <2>2. /\ up \in BOOLEAN /\ mixed \in BOOLEAN /\ below \in BOOLEAN
        /\ crashes \in 0 .. MaxCrashes /\ ioErrors \in 0 .. MaxIoErrors
    <3>1. crashes \in 0 .. MaxCrashes /\ ioErrors \in 0 .. MaxIoErrors
      BY <1>1, <1>3
    <3> QED
      BY <1>1, <3>1, Zenon
  <2> QED
    BY <1>1, <1>2, <2>1, <2>2, Zenon DEF TypeOK
<1>5. FrontWhole(log) /\ NoneBad(log) /\ Ordered(log) /\ Under(log, nextSeq)
  BY <1>1, <1>2, Zenon DEF FrontWhole, NoneBad, Ordered, Under
<1>6. JobInv /\ NumberInv
  BY <1>1 DEF JobInv, NumberInv
<1>7. AckedInv
  BY <1>1, <1>5, CoversNone, Zenon DEF AckedInv
<1> QED
  BY <1>4, <1>5, <1>6, <1>7 DEF WalInv, OrderInv

\* Every operation of the log, every crash in the middle of one and every recovery
\* keeps the invariant.
LEMMA WalInvStep == WalInv /\ [Next]_vars => WalInv'
<1> SUFFICES ASSUME WalInv, [Next]_vars
             PROVE  WalInv'
  OBVIOUS
<1>t. TypeOK /\ crashes \in 0 .. MaxCrashes /\ ioErrors \in 0 .. MaxIoErrors
  BY DEF WalInv, TypeOK
<1>1. CASE AppendOk
  BY <1>1, AppendOkStep
<1>2. CASE AppendFails
  <2>1. PICK ops \in Batch :
          /\ Idle /\ ioErrors < MaxIoErrors /\ nextSeq + Len(ops) <= MaxSeq + 1
          /\ log' \in AppendRemains(ops) /\ ioErrors' = ioErrors + 1 /\ NoteMixed
          /\ UNCHANGED <<nextSeq, marker, up, job, acked, cut, below, crashes>>
    BY <1>2, Zenon DEF AppendFails
  <2>2. ops \in Seq(Op) /\ cut \in Seq(Frame) /\ MaxIoErrors \in Nat
    BY WalFacts, Zenon
  <2>3. ioErrors' \in 0 .. MaxIoErrors /\ ioErrors' # 0
    BY <1>t, <2>1, <2>2
  <2>4. up' /\ up' \in BOOLEAN /\ cut' \in Seq(Frame) /\ crashes' \in 0 .. MaxCrashes
    BY <1>t, <2>1, <2>2, Zenon DEF TypeOK, Idle
  <2>5. UNCHANGED <<nextSeq, marker, job, acked, below>>
    BY <2>1
  <2> QED
    BY <2>1, <2>2, <2>3, <2>4, <2>5, AppendLeavesStep, Zenon
<1>3. CASE Checkpoint
  BY <1>3, CheckpointStep
<1>4. CASE Truncate
  <2>1. /\ up /\ job # NoJob /\ job' = NoJob
        /\ log' = log \/ log' = After(ReadAll(log).entries, job)
        /\ UNCHANGED <<nextSeq, marker, acked, mixed, below, ioErrors>>
        /\ UNCHANGED <<up, cut, crashes>>
    BY <1>4, Zenon DEF Truncate, TruncateTo
  <2>2. cut' \in Seq(Frame) /\ up' \in BOOLEAN /\ crashes' \in 0 .. MaxCrashes
    BY <1>t, <2>1 DEF TypeOK
  <2> QED
    BY <2>1, <2>2, TruncateLeavesStep, Zenon
<1>5. CASE Recover
  BY <1>5, RecoverStep
<1>6. CASE Crash
  <2>1. /\ crashes < MaxCrashes /\ crashes' = crashes + 1 /\ up' = FALSE
        /\ UNCHANGED <<nextSeq, marker, acked, below, ioErrors>>
    BY <1>6 DEF Crash
  <2>2. MaxCrashes \in Nat /\ Batch \subseteq Seq(Op)
    BY WalFacts, Zenon
  <2>3. crashes' \in 0 .. MaxCrashes /\ ioErrors' \in 0 .. MaxIoErrors
    BY <1>t, <2>1, <2>2
  <2>4. CASE CrashAppending
    <3>1. PICK ops \in Batch \cup {<<>>} :
            /\ Idle /\ nextSeq + Len(ops) <= MaxSeq + 1 /\ log' \in AppendRemains(ops)
            /\ cut' = NewFrames(ops) /\ NoteMixed /\ UNCHANGED job
      BY <2>4 DEF CrashAppending
    <3>2. ops \in Seq(Op)
      <4>1. <<>> \in Seq(Op)
        OBVIOUS
      <4> QED
        BY <2>2, <4>1, Zenon
    <3>3. cut' \in Seq(Frame)
      BY <3>1, <3>2, WalFacts, NewFramesFacts DEF Numbered
    <3>4. UNCHANGED <<nextSeq, marker, job, acked, below>>
      BY <2>1, <3>1
    <3>5. up' \in BOOLEAN /\ ((~up' /\ ioErrors' = ioErrors) \/ (up' /\ ioErrors' # 0))
      <4>1. ioErrors' = ioErrors /\ ~up' /\ up' \in BOOLEAN
        BY <2>1, Zenon
      <4> QED
        BY <4>1
    <3>6. Idle /\ nextSeq + Len(ops) <= MaxSeq + 1 /\ log' \in AppendRemains(ops) /\ NoteMixed
      BY <3>1
    <3> QED
      BY <2>3, <3>2, <3>3, <3>4, <3>5, <3>6, AppendLeavesStep, Zenon
  <2>5. CASE CrashTruncating
    <3>1. /\ up /\ job # NoJob /\ job' = NoJob /\ cut' = <<>> /\ mixed' = mixed
          /\ log' = log \/ log' \in Remains(After(ReadAll(log).entries, job))
      BY <2>5 DEF CrashTruncating, TruncateRemains
    <3>2. /\ UNCHANGED <<nextSeq, marker, acked, mixed, below, ioErrors>>
          /\ ~up' /\ up' \in BOOLEAN /\ cut' \in Seq(Frame)
      <4>1. <<>> \in Seq(Frame)
        OBVIOUS
      <4> QED
        BY <2>1, <3>1, <4>1, Zenon
    <3> QED
      BY <2>3, <3>1, <3>2, TruncateLeavesStep, Zenon
  <2> QED
    BY <1>6, <2>4, <2>5 DEF Crash
<1>7. CASE UNCHANGED vars
  <2>1. /\ log' = log /\ nextSeq' = nextSeq /\ marker' = marker /\ up' = up /\ job' = job
        /\ acked' = acked /\ cut' = cut /\ mixed' = mixed /\ below' = below
        /\ crashes' = crashes /\ ioErrors' = ioErrors
    BY <1>7 DEF vars
  <2>2. TypeOK' /\ FrontWhole(log)'
    BY <2>1, Zenon DEF WalInv, TypeOK, WalTypeOK, FrontWhole
  <2>3. OrderInv' /\ JobInv' /\ NumberInv'
    BY <2>1, Zenon DEF WalInv, OrderInv, JobInv, NumberInv, Ordered, Under
  <2>4. AckedInv'
    <3>1. ~mixed' => ~mixed /\ (~below' => ~below)
      BY <2>1, Zenon
    <3>2. NoneBad(log') = NoneBad(log) /\ Covers(log', acked', marker') = Covers(log, acked, marker)
      BY <2>1, Zenon
    <3>3. ~mixed => NoneBad(log) /\ (~below => Covers(log, acked, marker))
      BY Zenon DEF WalInv, AckedInv
    <3>4. ~mixed' => NoneBad(log') /\ (~below' => Covers(log', acked', marker'))
      BY <3>1, <3>2, <3>3, Zenon
    <3> QED
      BY <3>4, Zenon DEF AckedInv
  <2> QED
    BY <2>2, <2>3, <2>4, Zenon DEF WalInv
<1> QED
  BY <1>1, <1>2, <1>3, <1>4, <1>5, <1>6, <1>7, Zenon DEF Next

\* For any number of crashes, failed appends and batches: only the last frame of wal.log
\* is ever incomplete, the entries appended are in order below next_seq, and every
\* operation acknowledged since the last checkpoint or recovery is in a whole frame
\* above the marker, unless bytes went behind a torn frame or numbers started below it.
THEOREM WalInvariantHolds == Spec => []WalInv
  BY WalInvInit, WalInvStep, PTL DEF Spec

\* The entries that read_all returns are in strictly increasing order of their numbers
\* and the next number handed out is above all of them.
THEOREM EntriesStayOrdered == Spec => []SeqOrdered
<1>1. ASSUME WalInv
      PROVE  SeqOrdered
  <2> DEFINE e == ReadAll(log).entries
  <2> SUFFICES ASSUME ioErrors = 0, Garbage \notin Range(OpsOf(e))
               PROVE  /\ \A i, j \in DOMAIN e : i < j => e[i].seq < e[j].seq
                      /\ up => LastSeq(e) < nextSeq
    BY Zenon DEF SeqOrdered
  <2>1. /\ e \in Seq(Frame) /\ DOMAIN e = {i \in DOMAIN log : log[i].body = "whole"}
        /\ \A i \in DOMAIN e : e[i] = log[i]
    BY <1>1, WalFacts, ReadAllFacts, Zenon
  <2> HIDE DEF e
  <2>2. \A i \in DOMAIN e : e[i].op # Garbage
    BY Zenon DEF Range, OpsOf
  <2>3. \A i \in DOMAIN e : i \in DOMAIN log /\ Sound(log[i])
    BY <2>1, <2>2 DEF Sound
  <2>4. Ordered(log) /\ (up => Under(log, nextSeq))
    BY <1>1 DEF WalInv, OrderInv
  <2>5. \A i, j \in DOMAIN e : i < j => e[i].seq < e[j].seq
    BY <2>1, <2>3, <2>4, Zenon DEF Ordered
  <2>6. ASSUME up
        PROVE  LastSeq(e) < nextSeq
    <3>1. \A i \in DOMAIN e : e[i].seq < nextSeq
      BY <2>1, <2>3, <2>4, <2>6, Zenon DEF Under
    <3>2. LastSeq(e) = 0 \/ \E i \in DOMAIN e : LastSeq(e) = e[i].seq
      BY <2>1, LastSeqFacts
    <3> QED
      BY <1>1, <3>1, <3>2, WalFacts
  <2> QED
    BY <2>5, <2>6
<1> QED
  BY <1>1, WalInvariantHolds, PTL

\* What is in whole frames above the marker is in the recovery plan, in order.
LEMMA CoveredInPlan ==
    ASSUME WalInv, Covers(log, acked, marker)
    PROVE  IsSubsequence(acked, OpsOf(Plan))
<1> DEFINE e == ReadAll(log).entries
           P == {i \in DOMAIN e : e[i].seq > marker}
<1>1. /\ e \in Seq(Frame) /\ DOMAIN e = {i \in DOMAIN log : log[i].body = "whole"}
      /\ \A i \in DOMAIN e : e[i] = log[i]
  BY WalFacts, ReadAllFacts, Zenon
<1>2. Plan \in Seq(Frame) /\ Keeps(Plan, e, P)
  BY <1>1, WalFacts, AfterFacts, Zenon DEF Plan
<1> HIDE DEF e
<1>3. PICK f \in [DOMAIN acked -> DOMAIN log] :
        /\ \A i, j \in DOMAIN acked : i < j => f[i] < f[j]
        /\ \A i \in DOMAIN acked : /\ log[f[i]].body = "whole"
                                   /\ log[f[i]].op = acked[i]
                                   /\ log[f[i]].seq > marker
  BY Zenon DEF Covers
<1>4. PICK g \in [DOMAIN Plan -> P] :
        /\ \A m, n \in DOMAIN Plan : m < n => g[m] < g[n]
        /\ \A n \in DOMAIN Plan : Plan[n] = e[g[n]]
        /\ \A i \in P : \E n \in DOMAIN Plan : g[n] = i
  BY <1>2, Zenon DEF Keeps
<1>5. \A i \in DOMAIN acked : f[i] \in P /\ e[f[i]] = log[f[i]]
  BY <1>1, <1>3
<1> DEFINE at == [i \in DOMAIN acked |-> CHOOSE n \in DOMAIN Plan : g[n] = f[i]]
<1>6. \A i \in DOMAIN acked : at[i] \in DOMAIN Plan /\ g[at[i]] = f[i]
  BY <1>4, <1>5, Zenon
<1>7. at \in [DOMAIN acked -> DOMAIN OpsOf(Plan)]
  BY <1>6, Zenon DEF OpsOf
<1> HIDE DEF at, P
<1>8. \A i \in DOMAIN acked : acked[i] = OpsOf(Plan)[at[i]]
  BY <1>3, <1>4, <1>5, <1>6 DEF OpsOf
<1>9. \A i, j \in DOMAIN acked : i < j => at[i] < at[j]
  <2> SUFFICES ASSUME NEW i \in DOMAIN acked, NEW j \in DOMAIN acked, i < j
               PROVE  at[i] < at[j]
    BY Zenon
  <2>1. f[i] < f[j] /\ f[i] \in Nat /\ f[j] \in Nat
    BY <1>3, WalFacts
  <2>2. at[i] \in Nat /\ at[j] \in Nat
    BY <1>2, <1>6
  <2>3. g[at[i]] = f[i] /\ g[at[j]] = f[j]
    BY <1>6, Zenon
  <2>4. ~(at[j] < at[i]) /\ at[i] # at[j]
    BY <1>4, <1>6, <2>1, <2>3
  <2> QED
    BY <2>2, <2>4
<1> QED
  BY <1>7, <1>8, <1>9, Zenon DEF IsSubsequence

\* Nothing acknowledged is lost: the log can be read, and the recovery plan has every
\* acknowledged operation that no checkpoint covered and no recovery replayed, in order.
THEOREM AcknowledgedIsRecovered == Spec => []AckedInPlanUnlessMixed
<1>1. ASSUME WalInv
      PROVE  AckedInPlanUnlessMixed
  <2>1. SUFFICES ASSUME ~mixed
                 PROVE  LogReadable /\ (~below => AckedInPlan)
    BY DEF AckedInPlanUnlessMixed
  <2>2. NoneBad(log) /\ (~below => Covers(log, acked, marker))
    BY <1>1, <2>1, Zenon DEF WalInv, AckedInv
  <2>3. LogReadable
    BY <2>2 DEF LogReadable, ReadAll, NoneBad
  <2> QED
    BY <1>1, <2>2, <2>3, CoveredInPlan DEF AckedInPlan
<1> QED
  BY <1>1, WalInvariantHolds, PTL
=============================================================================
