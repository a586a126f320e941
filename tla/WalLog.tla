------------------------------- MODULE WalLog -------------------------------
(***************************************************************************)
(* The log writer of the write-ahead log: the pair of log files, the LSN   *)
(* counter, the per-file open/closed transaction counters and the          *)
(* checkpoint-driven rotation (ham_log_create, ham_log_append_*,           *)
(* ham_log_clear).  The implementation of the log is not part of the       *)
(* repository; its behaviour is pinned by src/unittests/log.cpp (LogTest), *)
(* from which every operation below is translated.                         *)
(*                                                                         *)
(* The whole log object is one record variable `log`, updated by pure      *)
(* operators (AfterBegin, AfterEnd, ...) so that WalSystem can compose     *)
(* several of them into one handler of the database.                       *)
(***************************************************************************)
EXTENDS Naturals, Sequences, FiniteSets

CONSTANTS
    Pages,      \* page addresses (the `offset' of page entries)
    Images,     \* abstract page images carried as payloads
    NoPage,     \* offset of control entries
    NoImg,      \* payload of control entries
    Threshold,  \* log_set_threshold: transactions per file before rotation
    MaxTxn,     \* bound: number of transactions begun in a run
    MaxLsn      \* bound: appends are refused once the LSN exceeds it

ASSUME WalLogAssumption ==
    /\ Threshold \in Nat \ {0}
    /\ MaxTxn \in Nat
    /\ MaxLsn \in Nat
    /\ NoPage \notin Pages
    /\ NoImg \notin Images

VARIABLES
    log,      \* the ham_log_t object together with the contents of its files
    active,   \* transactions whose TXN_BEGIN was appended and that have not ended
    nextTxn   \* the id the transaction manager gives the next transaction

vars == <<log, active, nextTxn>>

Files == {0, 1}
TxnIds == 1 .. MaxTxn

\* log_entry_t: lsn, txn_id, type (high nibble of the flags), offset and
\* the payload (one image, or both images for OVERWRITE).
EntryTypes == {"TXN_BEGIN", "TXN_ABORT", "TXN_COMMIT", "CHECKPOINT",
               "FLUSH_PAGE", "PREWRITE", "WRITE", "OVERWRITE"}

Entry == [lsn : Nat, txn : Nat, type : EntryTypes, page : Pages \cup {NoPage},
          img : Images \cup {NoImg}, old : Images \cup {NoImg}]

MkEntry(t, ty, p, new, prev) ==
    [lsn |-> 0, txn |-> t, type |-> ty, page |-> p, img |-> new, old |-> prev]

Control(t, ty) == MkEntry(t, ty, NoPage, NoImg, NoImg)

LogType ==
    [files : [Files -> Seq(Entry)], durable : [Files -> Nat], cur : Files,
     lsn : Nat \ {0}, open : [Files -> Nat], closed : [Files -> Nat],
     ckpt : Nat]

-----------------------------------------------------------------------------
(* Operations on a log value.                                              *)

\* ham_log_create: both files hold only their header, LSN 1, file 0 current.
Created ==
    [files |-> [f \in Files |-> <<>>], durable |-> [f \in Files |-> 0],
     cur |-> 0, lsn |-> 1, open |-> [f \in Files |-> 0],
     closed |-> [f \in Files |-> 0], ckpt |-> 0]

\* __log_append_entry: stamp the entry with the current LSN, write it at
\* the tail of the current file, increment the LSN.
AppendEntry(lg, e) ==
    [lg EXCEPT !.files[lg.cur] = Append(@, [e EXCEPT !.lsn = lg.lsn]),
               !.lsn = @ + 1]

\* fsync of the current file: everything written to it is now durable.
Sync(lg) == [lg EXCEPT !.durable[lg.cur] = Len(lg.files[lg.cur])]

\* Defect variant: the checkpoint LSN is not remembered.
CheckpointForgettingLsn(lg) == Sync(AppendEntry(lg, Control(0, "CHECKPOINT")))

\* ham_log_append_checkpoint: CHECKPOINT entry, remembered as the last
\* checkpoint LSN, made durable.
AfterCheckpoint(lg) ==
    [Sync(AppendEntry(lg, Control(0, "CHECKPOINT"))) EXCEPT !.ckpt = lg.lsn]

\* Defect variants of the rotation: the new current file is not truncated,
\* or its counters are not reset.
RotateWithoutTruncate(lg) ==
    LET c == AfterCheckpoint(lg)
        n == 1 - lg.cur
    IN  [c EXCEPT !.cur = n, !.open[n] = 0, !.closed[n] = 0]

RotateKeepingCounters(lg) ==
    LET c == AfterCheckpoint(lg)
        n == 1 - lg.cur
    IN  [c EXCEPT !.cur = n, !.files[n] = <<>>, !.durable[n] = 0]

\* Defect variant: the file just checkpointed is truncated instead of the
\* other one.
RotateTruncatingCurrent(lg) ==
    LET c == AfterCheckpoint(lg)
        n == 1 - lg.cur
    IN  [c EXCEPT !.cur = n, !.files[lg.cur] = <<>>, !.durable[lg.cur] = 0,
                  !.open[n] = 0, !.closed[n] = 0]

\* Rotation: the checkpoint goes to the old current file, then the other
\* file becomes current and is truncated to its header, counters reset.
Rotate(lg) ==
    LET c == AfterCheckpoint(lg)
        n == 1 - lg.cur
    IN  [c EXCEPT !.cur = n, !.files[n] = <<>>, !.durable[n] = 0,
                  !.open[n] = 0, !.closed[n] = 0]

\* Defect variant of the policy: rotation without waiting for open
\* transactions to end.
RotateWhileOpen(lg) ==
    IF lg.open[lg.cur] + lg.closed[lg.cur] >= Threshold THEN Rotate(lg) ELSE lg

\* The checkpoint policy, applied after a transaction ends: rotate once the
\* current file has seen Threshold transactions and none is still open.
MaybeRotate(lg) ==
    IF lg.open[lg.cur] = 0 /\ lg.open[lg.cur] + lg.closed[lg.cur] >= Threshold
    THEN Rotate(lg)
    ELSE lg

\* ham_log_append_txn_begin.
AfterBegin(lg, t) ==
    [AppendEntry(lg, Control(t, "TXN_BEGIN")) EXCEPT !.open[lg.cur] = @ + 1]

\* Defect variant: the counters of the other file are updated.
EndOnOtherFile(lg, t, ty) ==
    LET a == [AppendEntry(lg, Control(t, ty)) EXCEPT
                  !.open[1 - lg.cur] = @ - 1, !.closed[1 - lg.cur] = @ + 1]
    IN  MaybeRotate(IF ty = "TXN_COMMIT" THEN Sync(a) ELSE a)

\* ham_log_append_txn_commit / ham_log_append_txn_abort: the entry, the
\* transaction moves from open to closed, the commit is fsynced, then the
\* checkpoint policy runs.
AfterEnd(lg, t, ty) ==
    LET a == [AppendEntry(lg, Control(t, ty)) EXCEPT
                  !.open[lg.cur] = @ - 1, !.closed[lg.cur] = @ + 1]
    IN  MaybeRotate(IF ty = "TXN_COMMIT" THEN Sync(a) ELSE a)

-----------------------------------------------------------------------------
(* The log API as a state machine.                                         *)

Init ==
    /\ log = Created
    /\ active = {}
    /\ nextTxn = 1

TxnBegin ==
    /\ nextTxn \in TxnIds
    /\ log.lsn <= MaxLsn
    /\ log' = AfterBegin(log, nextTxn)
    /\ active' = active \cup {nextTxn}
    /\ nextTxn' = nextTxn + 1

TxnCommit(t) ==
    /\ t \in active
    /\ log' = AfterEnd(log, t, "TXN_COMMIT")
    /\ active' = active \ {t}
    /\ UNCHANGED nextTxn

TxnAbort(t) ==
    /\ t \in active
    /\ log' = AfterEnd(log, t, "TXN_ABORT")
    /\ active' = active \ {t}
    /\ UNCHANGED nextTxn

Checkpoint ==
    /\ log.lsn <= MaxLsn
    /\ log' = AfterCheckpoint(log)
    /\ UNCHANGED <<active, nextTxn>>

FlushPage(p) ==
    /\ log.lsn <= MaxLsn
    /\ log' = AppendEntry(log, MkEntry(0, "FLUSH_PAGE", p, NoImg, NoImg))
    /\ UNCHANGED <<active, nextTxn>>

\* PREWRITE (before-image) and WRITE (after-image) of transaction t.
PageImage(t, ty, p, i) ==
    /\ t \in active
    /\ log.lsn <= MaxLsn
    /\ log' = AppendEntry(log, MkEntry(t, ty, p, i, NoImg))
    /\ UNCHANGED <<active, nextTxn>>

Overwrite(t, p, prev, new) ==
    /\ t \in active
    /\ log.lsn <= MaxLsn
    /\ log' = AppendEntry(log, MkEntry(t, "OVERWRITE", p, new, prev))
    /\ UNCHANGED <<active, nextTxn>>

\* ham_log_clear: both files back to their header, LSN 1, counters 0.  The
\* database clears the log on a clean close and after recovery, when no
\* transaction is running.
Clear ==
    /\ active = {}
    /\ log' = Created
    /\ UNCHANGED <<active, nextTxn>>

Next ==
    \/ TxnBegin
    \/ \E t \in active : TxnCommit(t) \/ TxnAbort(t)
    \/ Checkpoint
    \/ \E p \in Pages : FlushPage(p)
    \/ \E t \in active, p \in Pages, i \in Images :
           PageImage(t, "PREWRITE", p, i) \/ PageImage(t, "WRITE", p, i)
    \/ \E t \in active, p \in Pages, i, j \in Images : Overwrite(t, p, i, j)
    \/ Clear

Spec == Init /\ [][Next]_vars

-----------------------------------------------------------------------------
(* Views of the log used by the properties.                                *)

\* The entries the two files hold, oldest file first.
Retained == log.files[1 - log.cur] \o log.files[log.cur]

EntriesOf(lg) == UNION {{lg.files[f][i] : i \in DOMAIN lg.files[f]} : f \in Files}

BeginIn(lg, f, t) ==
    \E i \in DOMAIN lg.files[f] :
        lg.files[f][i].type = "TXN_BEGIN" /\ lg.files[f][i].txn = t

-----------------------------------------------------------------------------
(* Properties.                                                             *)

\* The log object and the transaction bookkeeping have their types.
TypeOK ==
    /\ log \in LogType
    /\ active \subseteq TxnIds
    /\ nextTxn \in 1 .. MaxTxn + 1

\* The files, read oldest first, hold consecutive LSNs ending just below the
\* log's current LSN: rotation and clear never leave a gap, a duplicate or
\* a stale entry in the middle of the retained log.
LsnContiguous ==
    \A i \in DOMAIN Retained :
        Retained[i].lsn = log.lsn - Len(Retained) + i - 1

\* The per-file counters (log_get_open_txn / log_get_closed_txn) agree with
\* the files: open[f] counts the running transactions whose TXN_BEGIN is in
\* file f, closed[f] the ended ones.  Rotation trusts open[cur] = 0 to mean
\* that no running transaction has entries in the file it keeps writing.
CountersMatchLog ==
    \A f \in Files :
        /\ log.open[f] = Cardinality({t \in active : BeginIn(log, f, t)})
        /\ log.closed[f] =
               Cardinality({t \in TxnIds \ active : BeginIn(log, f, t)})

\* Rotation never truncates the TXN_BEGIN of a transaction that is still
\* running, so recovery always sees every entry of an unfinished transaction.
OpenTxnsRetained ==
    \A t \in active : \E f \in Files : BeginIn(log, f, t)

\* Apart from ham_log_clear, a step only drops entries at or before the last
\* checkpoint: rotation discards the file that ended with the previous
\* checkpoint and nothing written after it.
DropsOnlyCheckpointed ==
    [][log'.lsn > log.lsn =>
         \A e \in EntriesOf(log) \ EntriesOf(log') : e.lsn <= log.ckpt]_vars

-----------------------------------------------------------------------------
(* Refinement: the file pair implements the abstract log of AbstractLog,   *)
(* read oldest file first, with the writer's LSN as the next LSN.          *)

ABS == INSTANCE AbstractLog WITH
           Entries <- Entry,
           Checkpoints <- {e \in Entry : e.type = "CHECKPOINT"},
           alog <- Retained,
           alsn <- log.lsn

\* Every step of the log API is an append of a batch to the retained log,
\* possibly dropping a prefix up to an earlier checkpoint once a new one is
\* written, or a clear; no step rewrites, reorders or loses an entry the
\* files still hold, and no rotation drops entries not yet checkpointed.
RefinesAbstractLog == ABS!ASpec

=============================================================================
