------------------------------- MODULE WalCrash --------------------------------
(***************************************************************************)
(* The write-ahead log under crashes: one process at a time appends,       *)
(* checkpoints, dies, and recovers.  What the log records is applied       *)
(* elsewhere; here an operation is safe once a checkpoint covered it or a  *)
(* recovery replayed it, and until then the log is all there is of it.     *)
(***************************************************************************)
EXTENDS Wal, Functions

CONSTANTS
    Batch,        \* the batches of operations clients append
    MaxCrashes,   \* bound: crashes
    MaxIoErrors   \* bound: appends that fail with an I/O error

ASSUME CrashAssumption ==
    /\ Batch \subseteq Seq(Op)
    /\ MaxCrashes \in Nat
    /\ MaxIoErrors \in Nat

VARIABLES
    up,       \* a process has the log open
    job,      \* truncation under way: the seq it cuts at, or NoJob
    acked,    \* history: acknowledged operations not yet covered or replayed
    cut,      \* history: the frames being appended at the last crash
    mixed,    \* history: bytes were appended behind a torn frame
    below,    \* history: the numbers the process hands out started below the marker
    crashes, ioErrors

vars == <<log, nextSeq, marker, up, job, acked, cut, mixed, below, crashes, ioErrors>>

NoJob == -1

TypeOK ==
    /\ WalTypeOK
    /\ up \in BOOLEAN
    /\ job \in {NoJob} \cup 0 .. MaxSeq
    /\ acked \in Seq(Op)
    /\ cut \in Seq(Frame)
    /\ mixed \in BOOLEAN
    /\ below \in BOOLEAN
    /\ crashes \in 0 .. MaxCrashes
    /\ ioErrors \in 0 .. MaxIoErrors

Init ==
    /\ WalInit
    /\ up = TRUE
    /\ job = NoJob
    /\ acked = <<>>
    /\ cut = <<>>
    /\ mixed = FALSE
    /\ below = FALSE
    /\ crashes = 0
    /\ ioErrors = 0

-----------------------------------------------------------------------------

Idle == up /\ job = NoJob

\* Takes note of an append behind a torn frame.
NoteMixed == mixed' = (mixed \/ ~Whole(log))

(* append / append_batch that returns Ok.                                   *)
AppendOk ==
    \E ops \in Batch :
        /\ Idle
        /\ WalAppend(ops)
        /\ acked' = acked \o ops
        /\ NoteMixed
        /\ UNCHANGED <<up, job, cut, below, crashes, ioErrors>>

(* append / append_batch whose write_all or sync_data fails: some of the    *)
(* frames are in the file, next_seq stays, the caller gets an error.        *)
AppendFails ==
    \E ops \in Batch :
        /\ Idle
        /\ ioErrors < MaxIoErrors
        /\ nextSeq + Len(ops) <= MaxSeq + 1
        /\ log' \in AppendRemains(ops)
        /\ ioErrors' = ioErrors + 1
        /\ NoteMixed
        /\ UNCHANGED <<nextSeq, marker, up, job, acked, cut, below, crashes>>

(* The end of Engine::checkpoint: write_marker for everything logged, then  *)
(* truncate_to (the job).                                                   *)
Checkpoint ==
    /\ Idle
    /\ WriteMarker(nextSeq - 1)
    /\ job' = nextSeq - 1
    /\ acked' = <<>>
    /\ below' = FALSE
    /\ UNCHANGED <<up, cut, mixed, crashes, ioErrors>>

(* truncate_to; a read error leaves the log as it is.                       *)
Truncate ==
    /\ up /\ job # NoJob
    /\ TruncateTo(job)
    /\ job' = NoJob
    /\ UNCHANGED <<up, acked, cut, mixed, below, crashes, ioErrors>>

(* Wal::open and recovery: entries above the marker are replayed, then the  *)
(* log is truncated to the last of them (the job).                          *)
Recover ==
    /\ ~up
    /\ WalOpen
    /\ job' = IF Plan = <<>> THEN NoJob ELSE LastSeq(Plan)
    /\ up' = TRUE
    /\ acked' = <<>>
    /\ below' = (nextSeq' <= marker)
    /\ UNCHANGED <<cut, mixed, crashes, ioErrors>>

\* The process dies between two operations, or while it appends frames fs.
CrashAppending ==
    \E ops \in Batch \cup {<<>>} :
        /\ Idle
        /\ nextSeq + Len(ops) <= MaxSeq + 1
        /\ log' \in AppendRemains(ops)
        /\ cut' = NewFrames(ops)
        /\ NoteMixed
        /\ UNCHANGED job

\* The process dies before or while it truncates.
CrashTruncating ==
    /\ up /\ job # NoJob
    /\ log' \in TruncateRemains(job)
    /\ cut' = <<>>
    /\ job' = NoJob
    /\ UNCHANGED mixed

Crash ==
    /\ crashes < MaxCrashes
    /\ CrashAppending \/ CrashTruncating
    /\ up' = FALSE
    /\ crashes' = crashes + 1
    /\ UNCHANGED <<nextSeq, marker, acked, below, ioErrors>>

Next == AppendOk \/ AppendFails \/ Checkpoint \/ Truncate \/ Recover \/ Crash

Spec == Init /\ [][Next]_vars

-----------------------------------------------------------------------------
(* Properties                                                               *)

OpsOf(entries) == [i \in DOMAIN entries |-> entries[i].op]

\* "The log is numbered": as long as no append failed and no torn frame was
\* completed by the bytes of later ones, the entries a reader gets are in strictly increasing
\* seq order and the counter of append (wal.rs next_seq) is ahead of all of
\* them, across crashes, restarts and truncations.
SeqOrdered ==
    LET entries == ReadAll(log).entries
    IN  ioErrors = 0 /\ Garbage \notin Range(OpsOf(entries)) =>
          /\ \A i, j \in DOMAIN entries : i < j => entries[i].seq < entries[j].seq
          /\ up => LastSeq(entries) < nextSeq

\* s is t with some elements left out.
IsSubsequence(s, t) ==
    \E at \in [DOMAIN s -> DOMAIN t] :
        /\ \A i, j \in DOMAIN s : i < j => at[i] < at[j]
        /\ \A i \in DOMAIN s : s[i] = t[at[i]]

\* "A torn tail is dropped" (comment of read_all): whatever a crash left in
\* the log, it can be read and the store opens.
LogReadable == ReadAll(log).ok

\* "Nothing acknowledged is lost": when the process is down, the entries that
\* recovery will replay include, in order, every operation whose append
\* returned Ok and that no checkpoint covered and no recovery replayed.
AckedInPlan == ~up /\ LogReadable => IsSubsequence(acked, OpsOf(Plan))

\* Both hold as long as no bytes were appended behind a torn frame: appends
\* that fail after writing whole frames, and crashes in the middle of an
\* append, a checkpoint or a truncation, lose nothing acknowledged.  (But for a
\* process whose numbers started below the marker, see NextSeqAboveMarker.)
AckedInPlanUnlessMixed == ~mixed => LogReadable /\ (~below => AckedInPlan)

\* "All or nothing" (comment of append_batch): a crash while a batch is being
\* appended leaves either every frame of it readable or none.
BatchAtomic ==
    LET entries == ReadAll(log).entries
    IN  ~up /\ cut # <<>> => \/ \E n \in 0 .. Len(entries) : cut = SubSeq(entries, n + 1, Len(entries))
                             \/ \A f \in Range(cut) : f \notin Range(entries)

\* "Numbering goes on": append never hands out a number that the checkpoint
\* marker already covers, which recovery would skip.
NextSeqAboveMarker == up => nextSeq > marker

=============================================================================
