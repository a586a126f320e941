------------------------------ MODULE WalSystem ------------------------------
(***************************************************************************)
(* The database around the log: transactions that modify cached pages, the *)
(* pager that journals before-images, logs after-images at commit and      *)
(* writes dirty pages back, a crash that keeps only what reached the disk, *)
(* and recovery on reopen.  The writer is WalLog's (its operators are      *)
(* chained inside one handler here); the page objects are Page's, applied  *)
(* through INSTANCE.  Translated from the LogHighLevelTest cases of        *)
(* src/unittests/log.cpp; recovery itself, whose code is not in the        *)
(* repository, follows spec section 4.6.                                   *)
(***************************************************************************)
EXTENDS WalLog, SequencesExt

CONSTANTS
    Img0,       \* the payload of every page of a freshly created database
    InuseMod    \* values of the pages' in-use counters (2^32)

ASSUME WalSystemAssumption == Img0 \in Images /\ InuseMod \in Nat \ {0, 1}

VARIABLES
    cache,      \* the ham_page_t of each cached page: flags and in-use counter
    mem,        \* the payload of each cached page
    disk,       \* the payload of each page in the data file
    journaled,  \* pages whose before-image was logged since the last checkpoint
    txnPages,   \* PAGE_LIST_TXN: the pages each running transaction holds
    undoImg,    \* for a held page, its payload when its transaction took it
    mode,       \* "run"; "down" after a crash; "closed" keeping the log; "recover"
    plan,       \* the page writes recovery still has to apply
    committed,  \* history: the payload of each page as of its last commit
    hist,       \* history: every payload each page has had at a commit
    target,     \* history: the data file recovery of the last crash must yield
    roActive    \* running HAM_TXN_READ_ONLY transactions

sysVars == <<cache, mem, disk, journaled, txnPages, undoImg, mode, plan,
             committed, hist, target, roActive>>
allVars == <<log, active, nextTxn, cache, mem, disk, journaled, txnPages,
             undoImg, mode, plan, committed, hist, target, roActive>>

Pg == INSTANCE Page WITH PageIds <- Pages, pg <- cache,
                         lastType <- [p \in Pages |-> 0]

NoTarget == [p \in Pages |-> NoImg]

\* The running transaction holding page p, as a set.
Holders(p) == {t \in active : p \in txnPages[t]}

Dirty == {p \in Pages : Pg!IsDirty(cache[p])}

\* Append the entries of sequence es one after the other.
AppendAll(lg, es) ==
    LET f[k \in 0 .. Len(es)] ==
            IF k = 0 THEN lg ELSE AppendEntry(f[k - 1], es[k])
    IN  f[Len(es)]

\* Apply a sequence of <<page, payload>> writes to a data file.
ApplyWrites(d, ws) ==
    LET f[k \in 0 .. Len(ws)] ==
            IF k = 0 THEN d ELSE [f[k - 1] EXCEPT ![ws[k][1]] = ws[k][2]]
    IN  f[Len(ws)]

\* Defect variant: a rotation is never noticed.
RotatedNever(before, after) == FALSE

\* A rotation took place between two log values: a new checkpoint LSN.
Rotated(before, after) == after.ckpt # before.ckpt

\* Defect variant: every dirty page is released, not only the
\* transaction's own.
ReleaseDirty(c, ps) ==
    [p \in Pages |-> IF p \in Dirty THEN Pg!DecInuse(c[p]) ELSE c[p]]

\* The end of a transaction drops it from the pages it held
\* (page_dec_inuse on each page of its PAGE_LIST_TXN).
Release(c, ps) ==
    [p \in Pages |-> IF p \in ps THEN Pg!DecInuse(c[p]) ELSE c[p]]

-----------------------------------------------------------------------------
(* Reading the files after a crash: ham_log_open and the analysis pass.    *)

LastLsnOf(s) == IF s = <<>> THEN 0 ELSE s[Len(s)].lsn

\* ham_log_open infers the current file: the higher last LSN.
NewerFile(fs) == IF LastLsnOf(fs[1]) > LastLsnOf(fs[0]) THEN 1 ELSE 0

\* What a full walk of the iterator returns, oldest first.
RetainedOf(fs) == fs[1 - NewerFile(fs)] \o fs[NewerFile(fs)]

TxnsWith(r, ty) == {r[i].txn : i \in {j \in DOMAIN r : r[j].type = ty}}

\* Redo starts after the most recent CHECKPOINT, at the start if none.
RedoStart(r) ==
    LET cps == {i \in DOMAIN r : r[i].type = "CHECKPOINT"}
    IN  IF cps = {} THEN 0 ELSE CHOOSE i \in cps : \A j \in cps : j <= i

\* Recovery of spec section 4.6: redo, forward from the last checkpoint, the
\* after-images (WRITE, new half of OVERWRITE) of committed transactions;
\* then undo, backward from the tail, the before-images (PREWRITE, old half
\* of OVERWRITE) of transactions begun and neither committed nor aborted.
RecoveryPlan(fs) ==
    LET r == RetainedOf(fs)
        done == TxnsWith(r, "TXN_COMMIT")
        inflight == TxnsWith(r, "TXN_BEGIN") \ (done \cup TxnsWith(r, "TXN_ABORT"))
        redo == SelectSeq(SubSeq(r, RedoStart(r) + 1, Len(r)),
                    LAMBDA e : e.type \in {"WRITE", "OVERWRITE"} /\ e.txn \in done)
        undo == SelectSeq(Reverse(r),
                    LAMBDA e : e.type \in {"PREWRITE", "OVERWRITE"} /\ e.txn \in inflight)
    IN  [k \in 1 .. Len(redo) |-> <<redo[k].page, redo[k].img>>]
        \o [k \in 1 .. Len(undo) |->
                <<undo[k].page, IF undo[k].type = "OVERWRITE" THEN undo[k].old
                                ELSE undo[k].img>>]

\* The state of the database when its process is gone: the cache is lost.
Forgotten ==
    /\ active' = {}
    /\ cache' = [p \in Pages |-> Pg!NewPage]
    /\ txnPages' = [t \in TxnIds |-> {}]
    /\ undoImg' = [p \in Pages |-> Img0]
    /\ journaled' = {}
    /\ roActive' = {}

-----------------------------------------------------------------------------

SInit ==
    /\ Init
    /\ cache = [p \in Pages |-> Pg!NewPage]
    /\ mem = [p \in Pages |-> Img0]
    /\ disk = [p \in Pages |-> Img0]
    /\ journaled = {}
    /\ txnPages = [t \in TxnIds |-> {}]
    /\ undoImg = [p \in Pages |-> Img0]
    /\ mode = "run"
    /\ plan = <<>>
    /\ committed = [p \in Pages |-> Img0]
    /\ hist = [p \in Pages |-> {Img0}]
    /\ target = NoTarget
    /\ roActive = {}

\* txn_begin of a writing transaction: TXN_BEGIN.
Begin ==
    /\ mode = "run"
    /\ TxnBegin
    /\ UNCHANGED sysVars

\* txn_begin(HAM_TXN_READ_ONLY): the transaction takes an id and logs nothing.
ReadOnlyBegin ==
    /\ mode = "run"
    /\ nextTxn \in TxnIds
    /\ nextTxn' = nextTxn + 1
    /\ roActive' = roActive \cup {nextTxn}
    /\ UNCHANGED <<log, active, cache, mem, disk, journaled, txnPages, undoImg,
                   mode, plan, committed, hist, target>>

\* Defect variant: the commit of a read-only transaction takes the logging
\* path of a writing one.
ReadOnlyCommitLogging(t) ==
    /\ mode = "run"
    /\ t \in roActive
    /\ log' = AfterEnd(log, t, "TXN_COMMIT")
    /\ roActive' = roActive \ {t}
    /\ UNCHANGED <<active, nextTxn, cache, mem, disk, journaled, txnPages,
                   undoImg, mode, plan, committed, hist, target>>

\* txn_commit of a read-only transaction: nothing is logged and the log's
\* transaction counters are left alone.
ReadOnlyCommit(t) ==
    /\ mode = "run"
    /\ t \in roActive
    /\ roActive' = roActive \ {t}
    /\ UNCHANGED <<log, active, nextTxn, cache, mem, disk, journaled, txnPages,
                   undoImg, mode, plan, committed, hist, target>>

\* Transaction t changes the payload of page p to i: the page joins the
\* transaction (page_inc_inuse the first time), is marked dirty, and its
\* before-image is logged as PREWRITE unless this checkpoint interval
\* already journaled it (ham_log_add_page_before).
Modify(t, p, i) ==
    /\ mode = "run"
    /\ t \in active
    /\ Holders(p) \subseteq {t}
    /\ p \notin journaled => log.lsn <= MaxLsn
    /\ log' = IF p \in journaled THEN log
              ELSE AppendEntry(log, MkEntry(t, "PREWRITE", p, mem[p], NoImg))
    /\ journaled' = journaled \cup {p}
    /\ mem' = [mem EXCEPT ![p] = i]
    /\ cache' = [cache EXCEPT ![p] =
                     IF p \in txnPages[t] THEN Pg!SetDirty(@, TRUE)
                     ELSE Pg!IncInuse(Pg!SetDirty(@, TRUE))]
    /\ txnPages' = [txnPages EXCEPT ![t] = @ \cup {p}]
    /\ undoImg' = IF p \in txnPages[t] THEN undoImg
                  ELSE [undoImg EXCEPT ![p] = mem[p]]
    /\ UNCHANGED <<active, nextTxn, disk, mode, plan, committed, hist, target,
                   roActive>>

\* txn_commit: a WRITE with the after-image of each page the transaction
\* holds, then TXN_COMMIT (fsync, checkpoint policy).  The pages stay dirty
\* in the cache; a rotation starts a new journaling interval.
Commit(t) ==
    /\ mode = "run"
    /\ t \in active
    /\ log.lsn + Cardinality(txnPages[t]) <= MaxLsn + 1
    /\ LET ps == SetToSeq(txnPages[t])
           lg == AppendAll(log, [k \in 1 .. Len(ps) |->
                                    MkEntry(t, "WRITE", ps[k], mem[ps[k]], NoImg)])
       IN  /\ log' = AfterEnd(lg, t, "TXN_COMMIT")
           /\ journaled' = IF Rotated(lg, log') THEN {} ELSE journaled
    /\ active' = active \ {t}
    /\ cache' = Release(cache, txnPages[t])
    /\ txnPages' = [txnPages EXCEPT ![t] = {}]
    /\ committed' = [p \in Pages |-> IF p \in txnPages[t] THEN mem[p]
                                     ELSE committed[p]]
    /\ hist' = [p \in Pages |-> IF p \in txnPages[t] THEN hist[p] \cup {mem[p]}
                                ELSE hist[p]]
    /\ UNCHANGED <<nextTxn, mem, disk, undoImg, mode, plan, target, roActive>>

\* txn_abort: TXN_ABORT (checkpoint policy), and the pages of the
\* transaction get back the payload they had when it took them.
Abort(t) ==
    /\ mode = "run"
    /\ t \in active
    /\ log' = AfterEnd(log, t, "TXN_ABORT")
    /\ journaled' = IF Rotated(log, log') THEN {} ELSE journaled
    /\ active' = active \ {t}
    /\ mem' = [p \in Pages |-> IF p \in txnPages[t] THEN undoImg[p] ELSE mem[p]]
    /\ cache' = Release(cache, txnPages[t])
    /\ txnPages' = [txnPages EXCEPT ![t] = {}]
    /\ UNCHANGED <<nextTxn, disk, undoImg, mode, plan, committed, hist, target,
                   roActive>>

\* Defect variant: the pager writes back a page a transaction still uses.
FlushIgnoringInuse(p) ==
    /\ mode = "run"
    /\ p \in Dirty
    /\ log.lsn <= MaxLsn
    /\ log' = AppendEntry(log, MkEntry(0, "FLUSH_PAGE", p, NoImg, NoImg))
    /\ disk' = [disk EXCEPT ![p] = mem[p]]
    /\ cache' = [cache EXCEPT ![p] = Pg!SetDirty(@, FALSE)]
    /\ UNCHANGED <<active, nextTxn, mem, journaled, txnPages, undoImg, mode,
                   plan, committed, hist, target, roActive>>

\* The pager writes a dirty page that no transaction uses back to the data
\* file and logs FLUSH_PAGE.
Flush(p) ==
    /\ mode = "run"
    /\ p \in Dirty
    /\ Pg!GetInuse(cache[p]) = 0
    /\ log.lsn <= MaxLsn
    /\ log' = AppendEntry(log, MkEntry(0, "FLUSH_PAGE", p, NoImg, NoImg))
    /\ disk' = [disk EXCEPT ![p] = mem[p]]
    /\ cache' = [cache EXCEPT ![p] = Pg!SetDirty(@, FALSE)]
    /\ UNCHANGED <<active, nextTxn, mem, journaled, txnPages, undoImg, mode,
                   plan, committed, hist, target, roActive>>

\* ham_close(db, 0): every dirty page is written back, then ham_log_clear.
CloseClean ==
    /\ mode = "run"
    /\ active = {} /\ roActive = {}
    /\ log' = Created
    /\ disk' = mem
    /\ cache' = [p \in Pages |-> Pg!SetDirty(cache[p], FALSE)]
    /\ journaled' = {}
    /\ UNCHANGED <<active, nextTxn, mem, txnPages, undoImg, mode, plan,
                   committed, hist, target, roActive>>

\* ham_close(db, HAM_DONT_CLEAR_LOG): every dirty page is written back with
\* its FLUSH_PAGE, the files are synced and kept for a later recovery.
CloseKeepLog ==
    /\ mode = "run"
    /\ active = {} /\ roActive = {}
    /\ LET ps == SetToSeq(Dirty)
           lg == AppendAll(log, [k \in 1 .. Len(ps) |->
                                    MkEntry(0, "FLUSH_PAGE", ps[k], NoImg, NoImg)])
       IN  log' = [lg EXCEPT !.durable = [f \in Files |-> Len(lg.files[f])]]
    /\ disk' = mem
    /\ mode' = "closed"
    /\ target' = ApplyWrites(mem, RecoveryPlan(log'.files))
    /\ Forgotten
    /\ UNCHANGED <<nextTxn, mem, plan, committed, hist>>

\* The process dies: each log file keeps its fsynced prefix and possibly
\* some of the appends after it; the cache and the transactions are lost.
Crash ==
    /\ mode = "run"
    /\ \E k0 \in log.durable[0] .. Len(log.files[0]),
          k1 \in log.durable[1] .. Len(log.files[1]) :
           LET keep == [f \in Files |-> IF f = 0 THEN k0 ELSE k1]
           IN  log' = [log EXCEPT
                          !.files = [f \in Files |-> SubSeq(log.files[f], 1, keep[f])],
                          !.durable = keep]
    /\ mode' = "down"
    /\ mem' = disk
    /\ target' = ApplyWrites(disk, RecoveryPlan(log'.files))
    /\ Forgotten
    /\ UNCHANGED <<nextTxn, disk, plan, committed, hist>>

\* ham_open with HAM_AUTO_RECOVERY on a log holding only headers.
OpenEmpty ==
    /\ mode \in {"down", "closed"}
    /\ \A f \in Files : log.files[f] = <<>>
    /\ log' = Created
    /\ mode' = "run"
    /\ mem' = disk
    /\ target' = NoTarget
    /\ UNCHANGED <<active, nextTxn, cache, disk, journaled, txnPages, undoImg,
                   plan, committed, hist, roActive>>

\* Defect variant: the log is cleared as soon as its writes are read.
OpenRecoverClearingLog ==
    /\ mode \in {"down", "closed"}
    /\ \E f \in Files : log.files[f] # <<>>
    /\ mode' = "recover"
    /\ plan' = RecoveryPlan(log.files)
    /\ log' = Created
    /\ UNCHANGED <<active, nextTxn, cache, mem, disk, journaled, txnPages,
                   undoImg, committed, hist, target, roActive>>

\* ham_open with HAM_AUTO_RECOVERY on a non-empty log: the analysis pass
\* walks the files and fixes the writes of redo and undo.
OpenRecover ==
    /\ mode \in {"down", "closed"}
    /\ \E f \in Files : log.files[f] # <<>>
    /\ mode' = "recover"
    /\ plan' = RecoveryPlan(log.files)
    /\ UNCHANGED <<log, active, nextTxn, cache, mem, disk, journaled, txnPages,
                   undoImg, committed, hist, target, roActive>>

\* Redo or undo writes one image to the data file.
RecoverStep ==
    /\ mode = "recover"
    /\ plan # <<>>
    /\ disk' = [disk EXCEPT ![Head(plan)[1]] = Head(plan)[2]]
    /\ plan' = Tail(plan)
    /\ UNCHANGED <<log, active, nextTxn, cache, mem, journaled, txnPages,
                   undoImg, mode, committed, hist, target, roActive>>

\* End of recovery: the data file is synced, the log cleared (LSN 1,
\* file 0 current), the database is open.
RecoverFinish ==
    /\ mode = "recover"
    /\ plan = <<>>
    /\ log' = Created
    /\ mode' = "run"
    /\ mem' = disk
    /\ target' = NoTarget
    /\ UNCHANGED <<active, nextTxn, cache, disk, journaled, txnPages, undoImg,
                   plan, committed, hist, roActive>>

\* The process dies during recovery: the writes done so far stay on disk,
\* the log is untouched.
CrashInRecovery ==
    /\ mode = "recover"
    /\ mode' = "down"
    /\ plan' = <<>>
    /\ UNCHANGED <<log, active, nextTxn, cache, mem, disk, journaled, txnPages,
                   undoImg, committed, hist, target, roActive>>

SNext ==
    \/ Begin
    \/ ReadOnlyBegin
    \/ \E t \in roActive : ReadOnlyCommit(t)
    \/ \E t \in active, p \in Pages, i \in Images : Modify(t, p, i)
    \/ \E t \in active : Commit(t) \/ Abort(t)
    \/ \E p \in Pages : Flush(p)
    \/ CloseClean
    \/ CloseKeepLog
    \/ Crash
    \/ OpenEmpty
    \/ OpenRecover
    \/ RecoverStep
    \/ RecoverFinish
    \/ CrashInRecovery

SSpec == SInit /\ [][SNext]_allVars

-----------------------------------------------------------------------------
(* Properties.                                                             *)

\* page_inc_inuse / page_dec_inuse keep each page's _inuse equal to the
\* number of running transactions holding it: the counter never misses a
\* release and never wraps below zero, so the pager's "not in use" test
\* before writing a page back is sound.
InuseCountsHolders ==
    \A p \in Pages : Pg!GetInuse(cache[p]) = Cardinality(Holders(p))

\* Atomicity across a crash: when the database is open again after recovery,
\* every page of the data file holds a payload some transaction committed
\* (or the initial one), never one written by a transaction that did not
\* commit.
RecoveredOnlyCommitted ==
    [][mode # "run" /\ mode' = "run" =>
         \A p \in Pages : disk'[p] \in hist[p]]_allVars

\* Recovery is idempotent: however often the process dies during recovery
\* and recovery starts again, the data file it ends with is the one a single
\* uninterrupted recovery of the crashed state produces.
RecoveryIdempotent ==
    [][mode # "run" /\ mode' = "run" /\ target # NoTarget =>
         disk' = target]_allVars

\* ham_log_add_page_before logs a page's before-image once per checkpoint
\* interval and skips it while the page is marked journaled.  That skip is
\* sound only if the PREWRITE it relies on is still in the file being
\* written: every page marked journaled has a PREWRITE in the current log
\* file, so a rotation must also reset the marks (insertAfterCheckpointTest:
\* after the checkpoint the page's PREWRITE is logged again).
JournaledLogged ==
    mode = "run" =>
        \A p \in journaled :
            \E i \in DOMAIN log.files[log.cur] :
                log.files[log.cur][i].type = "PREWRITE" /\ log.files[log.cur][i].page = p

\* A read-only transaction leaves the log's transaction counters alone: while
\* the database is open, log_get_open_txn / log_get_closed_txn still count
\* exactly the writing transactions whose TXN_BEGIN is in each file, which
\* the checkpoint policy relies on (multipleTxnReadonlyBeginCommitTest).
SysCountersMatchLog ==
    mode = "run" => CountersMatchLog

\* Durability (spec section 5: a TXN_COMMIT is durable before the writer
\* returns): while the database is open, every page no transaction holds
\* has the payload of its last commit, across crashes and recoveries.
CommittedSurvives ==
    mode = "run" => \A p \in Pages : Holders(p) = {} => mem[p] = committed[p]

=============================================================================
