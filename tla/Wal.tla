---------------------------------- MODULE Wal ----------------------------------
(***************************************************************************)
(* The write-ahead log of mem/wal.rs: the file wal.log, the checkpoint     *)
(* marker and the sequence counter, and what the operations of Wal do to   *)
(* them.  The caller holds the mutex around the Wal, so that an operation  *)
(* is one step; what a crash in the middle of one leaves on disk is given  *)
(* by the operators AppendRemains and TruncateRemains.                     *)
(*                                                                         *)
(* The log is a sequence of frames.  A frame is torn if only part of its   *)
(* body reached the file; since the file is only ever appended to, such a  *)
(* frame stays last, and what is written next becomes its missing part.    *)
(* A frame cut inside its header is not told apart from a torn one.        *)
(***************************************************************************)
EXTENDS Integers, Sequences, FiniteSets

CONSTANTS
    Op,      \* logged operations
    Garbage, \* the operation decoded from the bytes of two different frames
    MaxSeq   \* bound: sequence numbers a behaviour may use

ASSUME WalAssumption == MaxSeq \in Nat /\ Garbage \in Op

VARIABLES
    log,      \* the frames in wal.log
    nextSeq,  \* next sequence number to hand out (in memory)
    marker    \* applied_seq of checkpoint.marker, 0 = no marker

walVars == <<log, nextSeq, marker>>

Frame == [seq : 1 .. MaxSeq, op : Op, body : {"whole", "torn", "bad"}]

WalTypeOK ==
    /\ log \in Seq(Frame)
    /\ nextSeq \in 1 .. MaxSeq + 1
    /\ marker \in 0 .. MaxSeq

WalInit ==
    /\ log = <<>>
    /\ nextSeq = 1
    /\ marker = 0

-----------------------------------------------------------------------------
(* Reading (read_all, max_seq)                                              *)

Whole(l) == \A i \in DOMAIN l : l[i].body = "whole"

MaxOf(S) == CHOOSE m \in S : \A n \in S : n <= m

\* The number of frames before the first one that is not whole.
WholeLen(l) == MaxOf({n \in 0 .. Len(l) : \A i \in 1 .. n : l[i].body = "whole"})

\* Seeded fault: a torn frame fails the read.
ReadAllStrict(l) == [ok |-> Whole(l), entries |-> SubSeq(l, 1, WholeLen(l))]

\* read_all: the entries before the first frame that is not whole.  A torn
\* frame just ends the log, one that does not decode fails the read.
ReadAll(l) ==
    [ok |-> \A i \in DOMAIN l : l[i].body # "bad", entries |-> SubSeq(l, 1, WholeLen(l))]

\* The elements of l at the positions P, in their order.
Picked(l, P) ==
    LET Rank(i) == Cardinality({j \in P : j <= i})
    IN  [n \in 1 .. Cardinality(P) |-> l[CHOOSE i \in P : Rank(i) = n]]

\* Seeded fault: the first entry behind s is dropped too.
AfterNext(entries, s) == Picked(entries, {i \in DOMAIN entries : entries[i].seq > s + 1})

\* Entries whose seq is above s (the filter of recovery and truncation).
After(entries, s) == Picked(entries, {i \in DOMAIN entries : entries[i].seq > s})

\* The largest seq among entries, 0 if there is none (max_seq).
LastSeq(entries) == MaxOf({0} \cup {entries[i].seq : i \in DOMAIN entries})

\* build_recover_plan: what recovery would replay.
Plan == After(ReadAll(log).entries, marker)

-----------------------------------------------------------------------------
(* Writing                                                                  *)

\* The frames an append of the operations ops writes, numbered from nextSeq.
NewFrames(ops) ==
    [i \in 1 .. Len(ops) |-> [seq |-> nextSeq + i - 1, op |-> ops[i], body |-> "whole"]]

Tear(f) == [f EXCEPT !.body = "torn"]

\* What the file may hold once frames fs are written behind it.  Behind a
\* torn frame their bytes are taken for the rest of its body: it stays
\* incomplete, or no longer decodes, or decodes to garbage with the first j
\* of them gone.
Placed(l, fs) ==
    LET front == SubSeq(l, 1, Len(l) - 1)
        garbled == [l[Len(l)] EXCEPT !.body = "whole", !.op = Garbage]
        bad == [l[Len(l)] EXCEPT !.body = "bad"]
    IN  IF fs = <<>> THEN {l}
        ELSE IF Whole(l) THEN {l \o fs}
        ELSE IF ~ReadAll(l).ok THEN {l}
        ELSE {l, Append(front, bad)}
             \cup {Append(front, garbled) \o SubSeq(fs, j + 1, Len(fs)) : j \in 1 .. Len(fs)}

(* Wal::append_batch, and Wal::append with one operation: all frames are    *)
(* written, then fsynced once.                                              *)
WalAppend(ops) ==
    /\ nextSeq + Len(ops) <= MaxSeq + 1
    /\ log' \in Placed(log, NewFrames(ops))
    /\ nextSeq' = nextSeq + Len(ops)
    /\ UNCHANGED marker

\* What frames fs may have left when writing them was interrupted: any
\* number of them, the next one perhaps torn.
Remains(fs) ==
    {SubSeq(fs, 1, n) : n \in 0 .. Len(fs)}
    \cup {Append(SubSeq(fs, 1, n - 1), Tear(fs[n])) : n \in 1 .. Len(fs)}

AppendRemains(ops) == UNION {Placed(log, fs) : fs \in Remains(NewFrames(ops))}

(* Wal::write_marker: atomic by rename.                                     *)
WriteMarker(s) ==
    /\ marker' = s
    /\ UNCHANGED <<log, nextSeq>>

(* Wal::truncate_to: the entries above s are rewritten in place; a log with *)
(* no readable entry, or one that cannot be read, is left as it is.         *)
Rewrites == ReadAll(log).ok /\ ReadAll(log).entries # <<>>

TruncateTo(s) ==
    /\ log' = IF Rewrites THEN After(ReadAll(log).entries, s) ELSE log
    /\ UNCHANGED <<nextSeq, marker>>

\* What a crash during truncate_to may leave: the file is emptied first.
TruncateRemains(s) ==
    {log} \cup IF Rewrites THEN Remains(After(ReadAll(log).entries, s)) ELSE {}

\* Seeded fault: the largest seq in the log is handed out again.
WalOpenSame ==
    /\ ReadAll(log).ok
    /\ nextSeq' = MaxOf({1, LastSeq(ReadAll(log).entries)})
    /\ UNCHANGED <<log, marker>>

(* Wal::open: numbering goes on behind the largest seq in the log.          *)
WalOpen ==
    /\ ReadAll(log).ok
    /\ nextSeq' = LastSeq(ReadAll(log).entries) + 1
    /\ UNCHANGED <<log, marker>>

=============================================================================
