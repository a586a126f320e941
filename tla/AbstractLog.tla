----------------------------- MODULE AbstractLog -----------------------------
(***************************************************************************)
(* What the write-ahead log promises the code that reads it (the iterator *)
(* and recovery), without files, counters or a current index: one          *)
(* sequence of entries stamped with consecutive LSNs.  A write appends a   *)
(* batch of entries, and may drop a prefix of the log when the batch ends  *)
(* with a CHECKPOINT and the dropped prefix ends with the one before it;   *)
(* a clear empties the log and restarts the LSNs at 1.  Entries already in *)
(* the log are never changed.                                              *)
(***************************************************************************)
EXTENDS Naturals, Sequences

CONSTANTS
    Entries,      \* the entries, records with an `lsn' field
    Checkpoints   \* the entries that are a CHECKPOINT

VARIABLES
    alog,   \* the retained entries, oldest first
    alsn    \* the LSN the next entry gets

avars == <<alog, alsn>>

AInit ==
    /\ alog = <<>>
    /\ alsn = 1

\* The entries of alog' after its first n ones are stamped alsn, alsn + 1, ...
\* up to alsn' - 1.
FreshBatch(n) ==
    /\ Len(alog') = n + (alsn' - alsn)
    /\ \A i \in n + 1 .. Len(alog') :
           alog'[i] \in Entries /\ alog'[i].lsn = alsn + (i - n - 1)

\* Append at least one entry; drop the first k entries only if the k-th is
\* a checkpoint and the batch ends with a new one.
AWrite ==
    /\ alsn' > alsn
    /\ \E k \in 0 .. Len(alog) :
           LET kept == SubSeq(alog, k + 1, Len(alog))
           IN  /\ FreshBatch(Len(kept))
               /\ SubSeq(alog', 1, Len(kept)) = kept
               /\ k > 0 => alog[k] \in Checkpoints /\ alog'[Len(alog')] \in Checkpoints

AClear ==
    /\ alog' = <<>>
    /\ alsn' = 1

ANext == AWrite \/ AClear

ASpec == AInit /\ [][ANext]_avars

\* The retained entries carry consecutive LSNs ending just below alsn.
AContiguous ==
    \A i \in 1 .. Len(alog) : alog[i].lsn = alsn - Len(alog) + i - 1

=============================================================================
