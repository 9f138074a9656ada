--------------------------- MODULE SegmentPoolProofs ---------------------------
(***************************************************************************)
(* What the operations of the segment pool do to the locators handed out   *)
(* before: an append keeps every written range as it is and stores its     *)
(* payload behind all of them; moving the cursor changes no byte.          *)
(***************************************************************************)
EXTENDS SegmentPool, FiniteSetTheorems, TLAPS

\* The locator an append returns is one, when the payload fits (append).
LEMMA AppendLocType ==
    ASSUME PoolTypeOK, NEW p \in Seq(Byte), PoolAppend(p)
    PROVE  AppendLoc(p) \in Locator
BY PoolAssumption DEF PoolTypeOK, PoolAppend, AppendLoc, Remaining, Locator, SegId

\* An append keeps the pool well typed.
LEMMA AppendType ==
    ASSUME PoolTypeOK, NEW p \in Seq(Byte), PoolAppend(p)
    PROVE  PoolTypeOK'
<1> DEFINE l == AppendLoc(p)
<1>1. l \in Locator
  BY AppendLocType
<1>2. l.len = Len(p)
  BY DEF AppendLoc
<1>3. l.off + l.len <= SegSize
  BY PoolAssumption DEF PoolTypeOK, PoolAppend, AppendLoc, Remaining
<1>4. \A o \in Offset : l.off <= o /\ o < l.off + l.len => p[o - l.off + 1] \in Byte
  BY <1>1, <1>2, PoolAssumption DEF Locator, Offset
<1> HIDE DEF l
<1>5. bytes' = Written(l, p) /\ MoveBehind(l)
  BY DEF PoolAppend, l
<1>6. bytes' \in [SegId -> [Offset -> Byte]]
  BY <1>1, <1>4, <1>5 DEF PoolTypeOK, Written, Locator
<1>7. activeId' \in SegId /\ activeCursor' \in 0 .. SegSize /\ segs' \in 1 .. MaxSegs
  BY <1>1, <1>3, <1>5, PoolAssumption DEF PoolTypeOK, MoveBehind, Locator, Larger, SegId
<1>8. cursorFile' \in Cursor \cup {None}
  BY <1>1, <1>5, PoolAssumption DEF PoolTypeOK, MoveBehind, Locator, Cursor
<1>9. QED
  BY <1>6, <1>7, <1>8 DEF PoolTypeOK

\* An append leaves every written range alone: same bytes, still written, and
\* the new payload begins behind it.
LEMMA AppendKeeps ==
    ASSUME PoolTypeOK, NEW p \in Seq(Byte), PoolAppend(p),
           NEW l \in Locator, InWritten(l)
    PROVE  /\ ReadFrom(bytes', l) = ReadFrom(bytes, l)
           /\ InWritten(l)'
           /\ Before(l, AppendLoc(p))
<1> DEFINE m == AppendLoc(p)
<1>1. m \in Locator /\ m.len = Len(p)
  BY AppendLocType DEF AppendLoc
<1>2. \/ m.seg = activeId /\ m.off = activeCursor
      \/ m.seg = activeId + 1 /\ m.off = 0
  BY DEF AppendLoc
<1>3. bytes' = Written(m, p) /\ MoveBehind(m)
  BY DEF PoolAppend
<1> HIDE DEF m
<1>4. Before(l, m)
  BY <1>1, <1>2, PoolAssumption DEF Before, InWritten, Locator, PoolTypeOK, SegId
<1>5. \A i \in 1 .. l.len : bytes'[l.seg][l.off + i - 1] = bytes[l.seg][l.off + i - 1]
  <2> TAKE i \in 1 .. l.len
  <2>1. l.off + i - 1 \in Offset /\ l.seg \in SegId
    BY PoolAssumption DEF Locator, Offset, InWritten
  <2>2. CASE l.seg # m.seg
    BY <1>1, <1>3, <2>1, <2>2 DEF Written, PoolTypeOK, Locator
  <2>3. CASE l.seg = m.seg
    <3>1. l.off + i - 1 < m.off
      BY <1>1, <1>4, <2>3, PoolAssumption DEF Before, Locator
    <3>2. QED
      BY <1>1, <1>3, <2>1, <2>3, <3>1, PoolAssumption
         DEF Written, PoolTypeOK, Locator, Offset
  <2>4. QED
    BY <2>2, <2>3
<1>6. ReadFrom(bytes', l) = ReadFrom(bytes, l)
  BY <1>5 DEF ReadFrom
<1>7. InWritten(l)'
  <2>1. /\ l.seg \in Nat /\ l.off \in Nat /\ l.len \in Nat
        /\ m.seg \in Nat /\ m.off \in Nat /\ m.len \in Nat
    BY <1>1, PoolAssumption DEF Locator, SegId
  <2>2. activeId \in Nat /\ activeCursor \in Nat
    BY PoolAssumption DEF PoolTypeOK, SegId
  <2>3. activeId' = m.seg /\ activeCursor' = m.off + m.len
    BY <1>3 DEF MoveBehind
  <2>4. l.seg <= m.seg
    BY <1>2, <2>1, <2>2 DEF InWritten
  <2>5. l.seg = m.seg => l.off + l.len <= m.off + m.len
    BY <1>4, <2>1 DEF Before
  <2>6. QED
    BY <2>3, <2>4, <2>5 DEF InWritten
<1>8. QED
  BY <1>4, <1>6, <1>7 DEF m

\* The payload can be read back through the locator an append returned, and
\* it is the last thing in the active segment.
LEMMA AppendStores ==
    ASSUME PoolTypeOK, NEW p \in Seq(Byte), PoolAppend(p)
    PROVE  /\ ReadFrom(bytes', AppendLoc(p)) = p
           /\ AppendLoc(p).seg = activeId'
           /\ AppendLoc(p).off + AppendLoc(p).len = activeCursor'
<1> DEFINE m == AppendLoc(p)
<1>1. m \in Locator /\ m.len = Len(p)
  BY AppendLocType DEF AppendLoc
<1>2. m.off + m.len <= SegSize
  BY PoolAssumption DEF PoolTypeOK, PoolAppend, AppendLoc, Remaining
<1>3. bytes' = Written(m, p) /\ MoveBehind(m)
  BY DEF PoolAppend
<1> HIDE DEF m
<1>4. \A i \in 1 .. m.len : bytes'[m.seg][m.off + i - 1] = p[i]
  <2> TAKE i \in 1 .. m.len
  <2>1. m.off + i - 1 \in Offset /\ m.seg \in SegId
    BY <1>1, <1>2, PoolAssumption DEF Locator, Offset
  <2>2. bytes'[m.seg] = [o \in Offset |-> IF m.off <= o /\ o < m.off + m.len
                                          THEN p[o - m.off + 1]
                                          ELSE bytes[m.seg][o]]
    BY <1>1, <1>3 DEF Written, PoolTypeOK, Locator
  <2>3. m.off <= m.off + i - 1 /\ m.off + i - 1 < m.off + m.len
    BY <1>1, PoolAssumption DEF Locator
  <2>4. (m.off + i - 1) - m.off + 1 = i
    BY <1>1, PoolAssumption DEF Locator
  <2>5. QED
    BY <2>1, <2>2, <2>3, <2>4
<1>5. ReadFrom(bytes', m) = [i \in 1 .. Len(p) |-> p[i]]
  BY <1>1, <1>4 DEF ReadFrom
<1>6. ReadFrom(bytes', m) = p
  BY <1>5
<1>7. m.seg = activeId' /\ m.off + m.len = activeCursor'
  BY <1>3 DEF MoveBehind
<1>8. QED
  BY <1>6, <1>7 DEF m

\* What is read through a locator into written bytes is a payload.
LEMMA ReadType ==
    ASSUME PoolTypeOK, NEW l \in Locator, l.off + l.len <= SegSize
    PROVE  ReadFrom(bytes, l) \in Seq(Byte)
<1>1. \A i \in 1 .. l.len : bytes[l.seg][l.off + i - 1] \in Byte
  BY PoolAssumption DEF PoolTypeOK, Locator, Offset
<1>2. l.len \in Nat
  BY PoolAssumption DEF Locator
<1>3. QED
  BY <1>1, <1>2 DEF ReadFrom

-----------------------------------------------------------------------------
(* Sums of functions, for the quota counters of both stores                *)

\* The units the sum of w over the set s counts: w[x] of them for each x in s.
Units(w, s) == UNION {{x} \X (1 .. w[x]) : x \in s}

\* Finitely many addends have finitely many units.
LEMMA UnitsFinite ==
    ASSUME NEW D, IsFiniteSet(D), NEW w \in [D -> Nat]
    PROVE  IsFiniteSet(Units(w, D))
<1> DEFINE F == [x \in D |-> {x} \X (1 .. w[x])]
           T == {{x} \X (1 .. w[x]) : x \in D}
<1>1. F \in Surjection(D, T)
  BY DEF Surjection
<1>2. IsFiniteSet(T)
  BY <1>1, FS_Surjection, Zenon
<1>3. \A x \in D : IsFiniteSet({x} \X (1 .. w[x]))
  <2> TAKE x \in D
  <2>1. w[x] \in Int /\ 1 \in Int
    OBVIOUS
  <2>2. IsFiniteSet({x}) /\ IsFiniteSet(1 .. w[x])
    BY <2>1, FS_Singleton, FS_Interval, Zenon
  <2> QED
    BY <2>2, FS_Product, Zenon
<1> QED
  BY <1>2, <1>3, FS_UNION, Zenon DEF Units

\* An addend more adds its units.
LEMMA UnitsOfOneMore ==
    ASSUME NEW D, IsFiniteSet(D), NEW w \in [D -> Nat], NEW s \in SUBSET D, NEW x \in s
    PROVE  /\ Cardinality(Units(w, s)) \in Nat /\ Cardinality(Units(w, s \ {x})) \in Nat
           /\ Cardinality(Units(w, s)) = w[x] + Cardinality(Units(w, s \ {x}))
<1> DEFINE A == Units(w, s \ {x})
           B == {x} \X (1 .. w[x])
<1>1. Units(w, s) = A \cup B /\ A \cap B = {}
  <2>1. Units(w, s) = A \cup B
    BY Zenon DEF Units
  <2>2. ASSUME NEW p \in A, p \in B
        PROVE  FALSE
    <3>1. PICK y \in s \ {x} : p \in {y} \X (1 .. w[y])
      BY <2>2, Zenon DEF Units
    <3>2. p[1] = y /\ p[1] = x
      BY <2>2, <3>1
    <3> QED
      BY <3>1, <3>2
  <2> QED
    BY <2>1, <2>2, Zenon
<1>2. Units(w, s) \subseteq Units(w, D)
  BY Zenon DEF Units
<1>3. IsFiniteSet(Units(w, s))
  BY <1>2, UnitsFinite, FS_Subset, Zenon
<1>4. IsFiniteSet(A) /\ IsFiniteSet(B)
  BY <1>1, <1>3, FS_Subset, Zenon
<1>5. Cardinality(B) = w[x]
  <2>1. IsFiniteSet({x}) /\ Cardinality({x}) = 1
    BY FS_Singleton, Zenon
  <2>2. w[x] \in Nat /\ IsFiniteSet(1 .. w[x]) /\ Cardinality(1 .. w[x]) = w[x]
    BY FS_Interval
  <2>3. Cardinality(B) = Cardinality({x}) * Cardinality(1 .. w[x])
    BY <2>1, <2>2, FS_Product, Zenon
  <2> QED
    BY <2>1, <2>2, <2>3
<1>6. Cardinality(A) \in Nat /\ Cardinality(Units(w, s)) \in Nat
  BY <1>3, <1>4, FS_CardinalityType, Zenon
<1>7. Cardinality(A \cup B) = Cardinality(A) + Cardinality(B) - Cardinality(A \cap B)
  BY <1>4, FS_Union, Zenon
<1>8. Cardinality(A \cap B) = 0
  BY <1>1, FS_EmptySet, Zenon
<1> HIDE DEF A, B
<1>9. Cardinality(Units(w, s)) = w[x] + Cardinality(A)
  BY <1>1, <1>5, <1>6, <1>7, <1>8
<1> QED
  BY <1>6, <1>9 DEF A

\* f adds up w: over a set it is some element's addend and the sum over the others.
Sums(f, w, D) ==
    f = [s \in SUBSET D |->
           IF s = {} THEN 0
           ELSE LET x == CHOOSE x \in s : TRUE IN w[x] + f[s \ {x}]]

\* SumFunction is what such a function gives for the whole domain.
LEMMA SumIsSums ==
    ASSUME NEW w
    PROVE  SumFunction(w) = (CHOOSE f : Sums(f, w, DOMAIN w))[DOMAIN w]
BY DEF SumFunction, SumFunctionOnSet, FoldFunctionOnSet, MapThenFoldSet, Sums

\* Over a finite domain the sum is the number of units.
LEMMA SumIsUnits ==
    ASSUME NEW D, IsFiniteSet(D), NEW w \in [D -> Nat]
    PROVE  SumFunction(w) = Cardinality(Units(w, D))
<1> DEFINE n == [s \in SUBSET D |-> Cardinality(Units(w, s))]
           g == CHOOSE f : Sums(f, w, D)
           Odd == {s \in SUBSET D : g[s] # n[s]}
<1>1. Units(w, {}) = {} /\ n[{}] = 0
  BY FS_EmptySet, Zenon DEF Units
<1>2. ASSUME NEW s \in SUBSET D, s # {}
      PROVE  LET x == CHOOSE x \in s : TRUE IN n[s] = w[x] + n[s \ {x}]
  <2> DEFINE x == CHOOSE x \in s : TRUE
  <2>1. x \in s
    BY <1>2, Zenon
  <2> HIDE DEF x
  <2>2. n[s] = Cardinality(Units(w, s)) /\ n[s \ {x}] = Cardinality(Units(w, s \ {x}))
    BY Zenon
  <2>3. Cardinality(Units(w, s)) = w[x] + Cardinality(Units(w, s \ {x}))
    BY <2>1, UnitsOfOneMore
  <2>4. n[s] = w[x] + n[s \ {x}]
    BY <2>2, <2>3, Zenon
  <2> QED
    BY <2>4, Zenon DEF x
<1>3. Sums(n, w, D)
  <2>1. \A s \in SUBSET D :
          n[s] = IF s = {} THEN 0 ELSE LET x == CHOOSE x \in s : TRUE IN w[x] + n[s \ {x}]
    BY <1>1, <1>2, Zenon
  <2>2. n = [s \in SUBSET D |-> n[s]]
    OBVIOUS
  <2> HIDE DEF n
  <2> QED
    BY <2>1, <2>2, Zenon DEF Sums
<1>4. Sums(g, w, D)
  BY <1>3, Zenon
<1> HIDE DEF g
<1>5. ASSUME NEW s \in SUBSET D
      PROVE  g[s] = IF s = {} THEN 0 ELSE LET x == CHOOSE x \in s : TRUE IN w[x] + g[s \ {x}]
  <2> DEFINE h == [t \in SUBSET D |->
           IF t = {} THEN 0 ELSE LET x == CHOOSE x \in t : TRUE IN w[x] + g[t \ {x}]]
  <2>1. g = h
    BY <1>4, Zenon DEF Sums
  <2>2. h[s] = IF s = {} THEN 0 ELSE LET x == CHOOSE x \in s : TRUE IN w[x] + g[s \ {x}]
    BY Zenon
  <2> HIDE DEF h
  <2> QED
    BY <2>1, <2>2, Zenon
<1> HIDE DEF n
<1>6. ASSUME Odd # {}
      PROVE  FALSE
  <2>1. IsWellFoundedOn(StrictSubsetOrdering(D), FiniteSubsetsOf(D)) /\ FiniteSubsetsOf(D) = SUBSET D
    BY FS_StrictSubsetOrderingWellFounded, FS_FiniteSubsetsOfFinite, Zenon
  <2>o. Odd \subseteq SUBSET D /\ \A t \in SUBSET D : t \in Odd <=> g[t] # n[t]
    BY Zenon
  <2> HIDE DEF Odd
  <2>2. PICK s \in Odd : \A t \in Odd : ~(<<t, s>> \in StrictSubsetOrdering(D))
    BY <1>6, <2>1, <2>o, WFMin, Zenon
  <2>3. s \in SUBSET D /\ g[s] # n[s]
    BY <2>2, <2>o, Zenon
  <2>4. s # {}
    BY <1>1, <1>5, <2>3, Zenon
  <2> DEFINE x == CHOOSE x \in s : TRUE
  <2>5. x \in s
    BY <2>4, Zenon
  <2>6. g[s] = w[x] + g[s \ {x}] /\ n[s] = w[x] + n[s \ {x}]
    BY <1>2, <1>5, <2>3, <2>4, Zenon
  <2> HIDE DEF x
  <2>7. <<s \ {x}, s>> \in StrictSubsetOrdering(D)
    BY <2>3, <2>5 DEF StrictSubsetOrdering
  <2>8. g[s \ {x}] = n[s \ {x}]
    BY <2>2, <2>3, <2>o, <2>7, Zenon
  <2> QED
    BY <2>3, <2>6, <2>8, Zenon
<1>7. D \in SUBSET D /\ DOMAIN w = D
  OBVIOUS
<1>8. g[D] = n[D]
  BY <1>6, <1>7, Zenon
<1>9. SumFunction(w) = g[D]
  BY <1>7, SumIsSums, Zenon DEF g
<1> QED
  BY <1>7, <1>8, <1>9, Zenon DEF n

\* A sum of naturals is a natural and at least each of its addends; an addend
\* that changes changes it by the difference.
LEMMA SumOfChanged ==
    ASSUME NEW D, IsFiniteSet(D), NEW w \in [D -> Nat], NEW v \in [D -> Nat], NEW k \in D,
           \A x \in D : x # k => v[x] = w[x]
    PROVE  /\ SumFunction(w) \in Nat /\ SumFunction(v) \in Nat
           /\ w[k] <= SumFunction(w)
           /\ SumFunction(v) = SumFunction(w) - w[k] + v[k]
<1> DEFINE rest == Cardinality(Units(w, D \ {k}))
<1>1. D \in SUBSET D
  OBVIOUS
<1>2. Units(v, D \ {k}) = Units(w, D \ {k})
  BY Zenon DEF Units
<1>3. SumFunction(w) \in Nat /\ rest \in Nat /\ SumFunction(w) = w[k] + rest
  <2>1. SumFunction(w) = Cardinality(Units(w, D))
    BY SumIsUnits, Zenon
  <2>2. /\ Cardinality(Units(w, D)) \in Nat /\ rest \in Nat
        /\ Cardinality(Units(w, D)) = w[k] + rest
    BY <1>1, UnitsOfOneMore
  <2> QED
    BY <2>1, <2>2, Zenon
<1>4. SumFunction(v) \in Nat /\ SumFunction(v) = v[k] + rest
  <2>1. SumFunction(v) = Cardinality(Units(v, D))
    BY SumIsUnits, Zenon
  <2>2. /\ Cardinality(Units(v, D)) \in Nat
        /\ Cardinality(Units(v, D)) = v[k] + Cardinality(Units(v, D \ {k}))
    BY <1>1, UnitsOfOneMore
  <2> QED
    BY <1>2, <2>1, <2>2, Zenon
<1>5. w[k] \in Nat /\ v[k] \in Nat
  OBVIOUS
<1> HIDE DEF rest
<1> QED
  BY <1>3, <1>4, <1>5

\* A sum of zeros is zero.
LEMMA SumOfZeros ==
    ASSUME NEW D, IsFiniteSet(D)
    PROVE  SumFunction([x \in D |-> 0]) = 0
<1> DEFINE w == [x \in D |-> 0]
<1>1. w \in [D -> Nat] /\ \A x \in D : 1 .. w[x] = {}
  OBVIOUS
<1> HIDE DEF w
<1>2. Units(w, D) = {}
  <2> SUFFICES ASSUME NEW p \in Units(w, D) PROVE FALSE
    BY Zenon
  <2>1. PICK x \in D : p \in {x} \X (1 .. w[x])
    BY Zenon DEF Units
  <2> QED
    BY <1>1, <2>1
<1>3. SumFunction(w) = 0
  BY <1>1, <1>2, SumIsUnits, FS_EmptySet, Zenon
<1> QED
  BY <1>3 DEF w

\* A sum of naturals is a natural.
LEMMA SumType ==
    ASSUME NEW D, IsFiniteSet(D), NEW w \in [D -> Nat]
    PROVE  SumFunction(w) \in Nat
<1>1. IsFiniteSet(Units(w, D))
  BY UnitsFinite, Zenon
<1> QED
  BY <1>1, SumIsUnits, FS_CardinalityType, Zenon

=============================================================================
