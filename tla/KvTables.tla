------------------------------- MODULE KvTables --------------------------------
(***************************************************************************)
(* The two heed tables of store/kv.rs (key -> locator, and the quota       *)
(* counter) over the payload segments, and what one write transaction does *)
(* to them.  KvStore adds the threads that run the transactions, Engine    *)
(* the write-ahead log and crashes.                                        *)
(***************************************************************************)
EXTENDS SegmentPool, Functions, FiniteSets

CONSTANTS
    Key,         \* keys: byte strings of bounded length
    Value,       \* payloads: sequences of bytes
    QuotaLimit   \* namespace quota in bytes, 0 = unlimited

ASSUME KvAssumption ==
    /\ IsFiniteSet(Key)
    /\ Value \subseteq Seq(Byte)
    /\ QuotaLimit \in Nat

VARIABLES
    loc,   \* table kv_locators: the committed locator of a key, or None
    used   \* table kv_quota: bytes charged to the namespace

tableVars == <<loc, used>>

TablesTypeOK ==
    /\ loc \in [Key -> Locator \cup {None}]
    /\ used \in Nat

TablesInit ==
    /\ loc = [k \in Key |-> None]
    /\ used = 0

-----------------------------------------------------------------------------

SaturatingSub(m, n) == IF m > n THEN m - n ELSE 0

OldLen(k) == IF loc[k] = None THEN 0 ELSE loc[k].len

\* put_kv_inner charges what the new value is longer than the old one.
UsedAfterPut(k, v) == used + SaturatingSub(Len(v), OldLen(k))

\* Seeded fault: the usage before the put is compared with the limit.
QuotaAllowedBefore(k, v) == QuotaLimit = 0 \/ used <= QuotaLimit

QuotaAllows(k, v) == QuotaLimit = 0 \/ UsedAfterPut(k, v) <= QuotaLimit

\* The commit of a put whose payload lies at l.
CommitPut(k, v, l) ==
    /\ loc' = [loc EXCEPT ![k] = l]
    /\ used' = UsedAfterPut(k, v)

\* Seeded fault: the quota is given back, the locator stays.
CommitDeleteQuota(k) ==
    /\ loc[k] # None
    /\ used' = SaturatingSub(used, OldLen(k))
    /\ UNCHANGED loc

\* delete_kv_inner: the locator goes, the quota is given back; the payload
\* bytes stay in their segment.
CommitDelete(k) ==
    /\ loc[k] # None
    /\ loc' = [loc EXCEPT ![k] = None]
    /\ used' = SaturatingSub(used, OldLen(k))

\* get_kv_zero_copy: the bytes the committed locator points at.
Content(k) == IF loc[k] = None THEN None ELSE ReadAt(loc[k])

-----------------------------------------------------------------------------

\* The quota counter never undercounts: it covers the bytes of all live
\* values, so that a full namespace is refused (kv.rs put_kv_inner,
\* delete_kv_inner), and it never passes the limit.
QuotaCovers ==
    /\ used >= SumFunction([k \in Key |-> OldLen(k)])
    /\ QuotaLimit > 0 => used <= QuotaLimit

\* The counter is the number of live bytes: "the quota bounds the net growth,
\* an overwrite subtracts the old value and adds the new one" (kv.rs:8).
QuotaExact == used = SumFunction([k \in Key |-> OldLen(k)])

=============================================================================
