-------------------------- MODULE WalLogDropProofs --------------------------
(***************************************************************************)
(* Proof of the action property DropsOnlyCheckpointed of WalLog, for every *)
(* value of the constants: apart from ham_log_clear, a step drops only     *)
(* entries whose LSN is at most the last checkpoint LSN.                   *)
(*                                                                         *)
(* Every step that raises the LSN keeps the current file as a prefix of    *)
(* what that file holds after the step (an append extends it; a rotation  *)
(* appends the checkpoint to it and makes it the other file).  So only     *)
(* entries of the other file can be dropped, and the invariant DInv says   *)
(* they are at or below log.ckpt: the other file is the one a rotation     *)
(* closed with its CHECKPOINT, whose LSN it stored in ckpt, and a later    *)
(* ham_log_append_checkpoint only raises ckpt.  That needs the companion   *)
(* fact that every entry of either file is below the writer's LSN.         *)
(***************************************************************************)
EXTENDS WalLogRefinementProofs

\* Every entry of s has an LSN of at most n.
LsnsAtMost(s, n) == \A i \in DOMAIN s : s[i].lsn <= n

\* t holds s at its first places.
KeepsPrefix(s, t) == \A i \in DOMAIN s : i \in DOMAIN t /\ t[i] = s[i]

DInv ==
    /\ \A f \in Files : LsnsAtMost(log.files[f], log.lsn - 1)
    /\ LsnsAtMost(log.files[1 - log.cur], log.ckpt)

-----------------------------------------------------------------------------
(* Lemmas about sequences of entries.                                      *)

LEMMA AtMostAppend ==
    ASSUME NEW s \in Seq(Entry), NEW x \in Entry, NEW n \in Int,
           LsnsAtMost(s, n), x.lsn <= n
    PROVE  LsnsAtMost(Append(s, x), n) /\ KeepsPrefix(s, Append(s, x))
BY AppendProperties DEF LsnsAtMost, KeepsPrefix

LEMMA AtMostMono ==
    ASSUME NEW s \in Seq(Entry), NEW n \in Int, NEW m \in Int,
           LsnsAtMost(s, n), n <= m
    PROVE  LsnsAtMost(s, m)
<1>1. \A i \in DOMAIN s : s[i].lsn \in Nat
  <2>1. \A i \in DOMAIN s : s[i] \in Entry
    OBVIOUS
  <2> QED
    BY <2>1, Zenon DEF Entry
<1> QED
  BY <1>1 DEF LsnsAtMost

LEMMA AtMostEmpty ==
    ASSUME NEW n
    PROVE  LsnsAtMost(<<>>, n)
BY DEF LsnsAtMost

LEMMA PrefixTrans ==
    ASSUME NEW s, NEW t, NEW u, KeepsPrefix(s, t), KeepsPrefix(t, u)
    PROVE  KeepsPrefix(s, u)
BY DEF KeepsPrefix

-----------------------------------------------------------------------------
(* Lemmas about the operators on a log value: the checkpoint LSN.          *)

\* Appends and the counter and fsync updates leave ckpt alone;
\* ham_log_append_checkpoint and rotation set it to the LSN of their
\* CHECKPOINT entry.
LEMMA CkptAppend ==
    ASSUME NEW lg \in LogType, NEW e \in Entry
    PROVE  AppendEntry(lg, e).ckpt = lg.ckpt
BY Zenon DEF AppendEntry, LogType

LEMMA CkptFacts ==
    ASSUME NEW lg \in LogType
    PROVE  /\ Sync(lg).ckpt = lg.ckpt
           /\ Begun(lg).ckpt = lg.ckpt
           /\ Ended(lg).ckpt = lg.ckpt
           /\ AfterCheckpoint(lg).ckpt = lg.lsn
           /\ Rotate(lg).ckpt = lg.lsn
<1>2. Sync(lg).ckpt = lg.ckpt /\ Begun(lg).ckpt = lg.ckpt /\ Ended(lg).ckpt = lg.ckpt
  BY Zenon DEF Sync, Begun, Ended, LogType
<1>3. AfterCheckpoint(lg).ckpt = lg.lsn
  <2>1. Sync(AppendEntry(lg, Control(0, "CHECKPOINT"))) \in LogType
    BY ControlType, AppendEntryFacts, SyncFacts DEF EntryTypes
  <2> QED
    BY <2>1, Zenon DEF AfterCheckpoint, LogType
<1>4. Rotate(lg).ckpt = lg.lsn
  <2>1. AfterCheckpoint(lg) \in LogType
    BY CheckpointFacts
  <2> QED
    BY <1>3, <2>1, Zenon DEF Rotate, LogType
<1> QED
  BY <1>2, <1>3, <1>4

\* Rotation truncates the file that becomes current.
LEMMA RotateEmpties ==
    ASSUME NEW lg \in LogType
    PROVE  Rotate(lg).files[1 - lg.cur] = <<>>
<1>1. AfterCheckpoint(lg) \in LogType /\ AfterCheckpoint(lg).cur = lg.cur
  BY CheckpointFacts
<1>2. 1 - lg.cur \in Files
  BY OtherFile DEF LogType
<1> QED
  BY <1>1, <1>2, Zenon DEF Rotate, LogType

-----------------------------------------------------------------------------
(* The two shapes of a step that raises the LSN.                           *)

\* A step whose files and LSN are those of one append to the current file,
\* and which keeps ckpt or sets it to the LSN of the appended entry.
LEMMA DAppendStep ==
    ASSUME RInv, DInv, NEW e \in Entry,
           log'.files = AppendEntry(log, e).files, log'.cur = log.cur,
           log'.lsn = log.lsn + 1, log'.ckpt \in {log.ckpt, log.lsn}
    PROVE  DInv' /\ KeepsPrefix(log.files[log.cur], log'.files[log.cur])
<1> DEFINE O == log.files[1 - log.cur]
           C == log.files[log.cur]
           x == Stamped(log, e)
<1>1. /\ log \in LogType /\ log.lsn \in Nat /\ log.ckpt \in Nat
      /\ log.cur \in Files /\ 1 - log.cur \in Files
      /\ O \in Seq(Entry) /\ C \in Seq(Entry)
  BY OtherFile DEF RInv, IInv, TypeOK, LogType
<1>2. log'.files[log.cur] = Append(C, x) /\ log'.files[1 - log.cur] = O
  <2>1. /\ AppendEntry(log, e).files[log.cur] = Append(log.files[log.cur], Stamped(log, e))
        /\ AppendEntry(log, e).files[1 - log.cur] = log.files[1 - log.cur]
    BY <1>1, AppendEntryFacts
  <2> QED
    BY <2>1
<1>3. x \in Entry /\ x.lsn = log.lsn
  BY <1>1, StampedFacts
<1>4. LsnsAtMost(C, log.lsn - 1) /\ LsnsAtMost(O, log.lsn - 1) /\ LsnsAtMost(O, log.ckpt)
  BY <1>1 DEF DInv
<1>5. LsnsAtMost(Append(C, x), log.lsn) /\ KeepsPrefix(C, Append(C, x))
  <2>1. LsnsAtMost(C, log.lsn)
    BY <1>1, <1>4, AtMostMono
  <2> QED
    BY <1>1, <1>3, <2>1, AtMostAppend
<1>6. LsnsAtMost(O, log.lsn)
  BY <1>1, <1>4, AtMostMono
<1>7. log'.lsn - 1 = log.lsn
  BY <1>1
<1>8. \A f \in Files : LsnsAtMost(log'.files[f], log'.lsn - 1)
  <2>1. \A f \in Files : f = log.cur \/ f = 1 - log.cur
    BY <1>1 DEF Files
  <2> QED
    BY <1>2, <1>5, <1>6, <1>7, <2>1
<1>9. LsnsAtMost(log'.files[1 - log'.cur], log'.ckpt)
  BY <1>2, <1>4, <1>6
<1> QED
  BY <1>2, <1>5, <1>8, <1>9 DEF DInv

\* A step that rotates a log value s whose files and LSN are those of one
\* append to the current file.
LEMMA DRotateStep ==
    ASSUME RInv, DInv, NEW e \in Entry, NEW s \in LogType,
           s.files = AppendEntry(log, e).files, s.cur = log.cur,
           s.lsn = log.lsn + 1, log' = Rotate(s)
    PROVE  DInv' /\ KeepsPrefix(log.files[log.cur], log'.files[log.cur])
<1> DEFINE C == log.files[log.cur]
           x == Stamped(log, e)
           y == Stamped(s, Control(0, "CHECKPOINT"))
           W == Append(Append(C, x), y)
<1>1. /\ log \in LogType /\ log.lsn \in Nat
      /\ log.cur \in Files /\ 1 - log.cur \in Files /\ 1 - (1 - log.cur) = log.cur
      /\ C \in Seq(Entry)
  BY OtherFile DEF RInv, IInv, TypeOK, LogType
<1>2. s.files[s.cur] = Append(C, x)
  BY <1>1, AppendEntryFacts
<1>3. log'.files[1 - log'.cur] = W /\ log'.lsn = s.lsn + 1
  BY <1>2, RotateRet
<1>4. log'.cur = 1 - log.cur
  BY RotateFacts
<1>5. log'.files[log.cur] = W
  BY <1>1, <1>3, <1>4
<1>6. log'.files[1 - log.cur] = <<>>
  BY RotateEmpties
<1>7. log'.ckpt = log.lsn + 1
  BY CkptFacts
<1>8. x \in Entry /\ x.lsn = log.lsn /\ y \in Entry /\ y.lsn = log.lsn + 1
  BY <1>1, StampedFacts, CheckpointRet
<1>9. LsnsAtMost(W, log.lsn + 1) /\ KeepsPrefix(C, W)
  <2>1. LsnsAtMost(C, log.lsn + 1)
    <3>1. LsnsAtMost(C, log.lsn - 1)
      BY <1>1 DEF DInv
    <3> QED
      BY <1>1, <3>1, AtMostMono
  <2>2. /\ LsnsAtMost(Append(C, x), log.lsn + 1)
        /\ KeepsPrefix(C, Append(C, x))
        /\ Append(C, x) \in Seq(Entry)
    BY <1>1, <1>8, <2>1, AtMostAppend, AppendProperties
  <2>3. LsnsAtMost(W, log.lsn + 1) /\ KeepsPrefix(Append(C, x), W)
    <3>1. y.lsn <= log.lsn + 1 /\ log.lsn + 1 \in Int
      BY <1>1, <1>8
    <3> QED
      BY <1>8, <2>2, <3>1, AtMostAppend
  <2> QED
    BY <2>2, <2>3, PrefixTrans
<1>10. log'.lsn - 1 = log.lsn + 1
  BY <1>1, <1>3
<1>11. \A f \in Files : LsnsAtMost(log'.files[f], log'.lsn - 1)
  <2>1. \A f \in Files : f = log.cur \/ f = 1 - log.cur
    BY <1>1 DEF Files
  <2> QED
    BY <1>5, <1>6, <1>9, <1>10, <2>1, AtMostEmpty
<1>12. LsnsAtMost(log'.files[1 - log'.cur], log'.ckpt)
  BY <1>3, <1>7, <1>9
<1> QED
  BY <1>5, <1>9, <1>11, <1>12 DEF DInv

-----------------------------------------------------------------------------
(* Each action of the log API.                                             *)

\* ham_log_append_flush_page, ham_log_append_prewrite/write/overwrite.
LEMMA DAppendAction ==
    ASSUME RInv, DInv, NEW e \in Entry, log' = AppendEntry(log, e)
    PROVE  DInv' /\ KeepsPrefix(log.files[log.cur], log'.files[log.cur])
<1>1. log \in LogType
  BY DEF RInv, IInv, TypeOK
<1>2. log'.cur = log.cur /\ log'.lsn = log.lsn + 1 /\ log'.ckpt = log.ckpt
  BY <1>1, AppendEntryFacts, AppendRet, CkptAppend
<1> QED
  BY <1>2, DAppendStep

\* ham_log_append_txn_begin.
LEMMA DBegin ==
    ASSUME RInv, DInv, TxnBegin
    PROVE  DInv' /\ KeepsPrefix(log.files[log.cur], log'.files[log.cur])
<1> DEFINE e == Control(nextTxn, "TXN_BEGIN")
           a == AppendEntry(log, e)
<1>1. log \in LogType /\ nextTxn \in Nat
  BY WalLogAssumption DEF RInv, IInv, TypeOK, TxnBegin, TxnIds
<1>2. e \in Entry
  BY <1>1, ControlType DEF EntryTypes
<1>3. a \in LogType /\ a.cur = log.cur /\ a.lsn = log.lsn + 1 /\ a.ckpt = log.ckpt
  BY <1>1, <1>2, AppendEntryFacts, AppendRet, CkptAppend
<1>4. log' = Begun(a)
  BY <1>3, Zenon DEF TxnBegin, AfterBegin, Begun
<1>5. /\ log'.files = a.files /\ log'.cur = log.cur /\ log'.lsn = log.lsn + 1
      /\ log'.ckpt = log.ckpt
  BY <1>3, <1>4, FieldOpsKeepRet, CkptFacts
<1> QED
  BY <1>2, <1>5, DAppendStep

\* ham_log_append_txn_commit/abort: the entry and the counters, an fsync
\* for a commit, then rotation or not.
LEMMA DEnd ==
    ASSUME RInv, DInv, NEW t \in active, NEW ty \in {"TXN_COMMIT", "TXN_ABORT"},
           log' = AfterEnd(log, t, ty)
    PROVE  DInv' /\ KeepsPrefix(log.files[log.cur], log'.files[log.cur])
<1> DEFINE e == Control(t, ty)
           a0 == AppendEntry(log, e)
           a == Ended(a0)
           s == IF ty = "TXN_COMMIT" THEN Sync(a) ELSE a
<1>1. log \in LogType /\ t \in Nat
  BY DEF RInv, IInv, TypeOK, TxnIds
<1>2. e \in Entry
  BY <1>1, ControlType DEF EntryTypes
<1>3. a0 \in LogType /\ a0.cur = log.cur /\ a0.lsn = log.lsn + 1
      /\ a0.open = log.open /\ a0.ckpt = log.ckpt
  BY <1>1, <1>2, AppendEntryFacts, AppendRet, CkptAppend
<1>4. log.open[log.cur] # 0
  <2>1. IsFiniteSet(active) /\ active # {}
    BY ActiveFinite DEF RInv, IInv, TypeOK
  <2>2. Cardinality(active) # 0
    BY <2>1, FS_EmptySet
  <2> QED
    BY <2>2 DEF RInv, IInv
<1>5. /\ a \in LogType /\ a.files = a0.files /\ a.cur = log.cur
      /\ a.lsn = log.lsn + 1 /\ a.ckpt = log.ckpt
  BY <1>3, <1>4, EndedFacts, FieldOpsKeepRet, CkptFacts
<1>6. /\ s \in LogType /\ s.files = a0.files /\ s.cur = log.cur
      /\ s.lsn = log.lsn + 1 /\ s.ckpt = log.ckpt
  BY <1>5, SyncFacts, FieldOpsKeepRet, CkptFacts
<1>7. log' = MaybeRotate(s)
  <2>1. a = [a0 EXCEPT !.open[log.cur] = @ - 1, !.closed[log.cur] = @ + 1]
    BY <1>3, Zenon DEF Ended
  <2>2. AfterEnd(log, t, ty) =
            MaybeRotate(IF ty = "TXN_COMMIT"
                        THEN Sync([a0 EXCEPT !.open[log.cur] = @ - 1,
                                             !.closed[log.cur] = @ + 1])
                        ELSE [a0 EXCEPT !.open[log.cur] = @ - 1,
                                        !.closed[log.cur] = @ + 1])
    BY Zenon DEF AfterEnd
  <2> QED
    BY <2>1, <2>2, Zenon
<1>8. CASE s.open[s.cur] = 0 /\ s.open[s.cur] + s.closed[s.cur] >= Threshold
  <2>1. log' = Rotate(s)
    BY <1>7, <1>8 DEF MaybeRotate
  <2> QED
    BY <1>2, <1>6, <2>1, DRotateStep
<1>9. CASE ~(s.open[s.cur] = 0 /\ s.open[s.cur] + s.closed[s.cur] >= Threshold)
  <2>1. log' = s
    BY <1>7, <1>9 DEF MaybeRotate
  <2> QED
    BY <1>2, <1>6, <2>1, DAppendStep
<1> QED
  BY <1>8, <1>9

\* Every step keeps DInv, and one that raises the LSN keeps the current
\* file as a prefix of what it holds after the step.
LEMMA DNext ==
    ASSUME RInv, DInv, [Next]_vars
    PROVE  /\ DInv'
           /\ log'.lsn > log.lsn => KeepsPrefix(log.files[log.cur], log'.files[log.cur])
<1>0. log \in LogType /\ log.lsn \in Nat \ {0}
  BY DEF RInv, IInv, TypeOK, LogType
<1>1. CASE TxnBegin
  BY <1>1, DBegin
<1>2. CASE \E t \in active : TxnCommit(t) \/ TxnAbort(t)
  BY <1>2, DEnd DEF TxnCommit, TxnAbort
<1>3. CASE Checkpoint
  <2>1. Control(0, "CHECKPOINT") \in Entry
    BY ControlType DEF EntryTypes
  <2>2. /\ log'.files = AppendEntry(log, Control(0, "CHECKPOINT")).files
        /\ log'.cur = log.cur /\ log'.lsn = log.lsn + 1 /\ log'.ckpt = log.lsn
    BY <1>0, <1>3, CheckpointRet, CkptFacts DEF Checkpoint
  <2> QED
    BY <2>1, <2>2, DAppendStep
<1>4. CASE \E p \in Pages : FlushPage(p)
  <2> PICK p \in Pages : FlushPage(p)
    BY <1>4
  <2> MkEntry(0, "FLUSH_PAGE", p, NoImg, NoImg) \in Entry
    BY DEF MkEntry, Entry, EntryTypes
  <2> QED
    BY DAppendAction DEF FlushPage
<1>5. CASE \E t \in active, p \in Pages, i \in Images :
               PageImage(t, "PREWRITE", p, i) \/ PageImage(t, "WRITE", p, i)
  <2> PICK t \in active, p \in Pages, i \in Images :
          PageImage(t, "PREWRITE", p, i) \/ PageImage(t, "WRITE", p, i)
    BY <1>5
  <2> t \in Nat
    BY DEF RInv, IInv, TypeOK, TxnIds
  <2> \A ty \in {"PREWRITE", "WRITE"} : MkEntry(t, ty, p, i, NoImg) \in Entry
    BY DEF MkEntry, Entry, EntryTypes
  <2> QED
    BY DAppendAction DEF PageImage
<1>6. CASE \E t \in active, p \in Pages, i, j \in Images : Overwrite(t, p, i, j)
  <2> PICK t \in active, p \in Pages, i, j \in Images : Overwrite(t, p, i, j)
    BY <1>6
  <2> t \in Nat
    BY DEF RInv, IInv, TypeOK, TxnIds
  <2> MkEntry(t, "OVERWRITE", p, j, i) \in Entry
    BY DEF MkEntry, Entry, EntryTypes
  <2> QED
    BY DAppendAction DEF Overwrite
<1>7. CASE Clear
  <2>1. log'.files[0] = <<>> /\ log'.files[1] = <<>> /\ log'.lsn = 1
    BY <1>7 DEF Clear, Created, Files
  <2>2. DInv'
    <3>1. \A f \in Files : log'.files[f] = <<>>
      BY <2>1 DEF Files
    <3>2. log'.files[1 - log'.cur] = <<>>
      BY <1>7 DEF Clear, Created, Files
    <3> QED
      BY <3>1, <3>2, AtMostEmpty DEF DInv
  <2>3. ~(log'.lsn > log.lsn)
    BY <1>0, <2>1
  <2> QED
    BY <2>2, <2>3
<1>8. CASE UNCHANGED vars
  BY <1>0, <1>8 DEF vars, DInv
<1> QED
  BY <1>1, <1>2, <1>3, <1>4, <1>5, <1>6, <1>7, <1>8 DEF Next

\* A step that raises the LSN drops only entries of the other file, and
\* those are at or below the last checkpoint LSN.
LEMMA DropStep ==
    ASSUME RInv, DInv, [Next]_vars
    PROVE  log'.lsn > log.lsn =>
               \A e \in EntriesOf(log) \ EntriesOf(log') : e.lsn <= log.ckpt
<1> SUFFICES ASSUME log'.lsn > log.lsn, NEW e \in EntriesOf(log) \ EntriesOf(log')
             PROVE  e.lsn <= log.ckpt
  OBVIOUS
<1>1. KeepsPrefix(log.files[log.cur], log'.files[log.cur])
  BY DNext
<1>6. PICK f \in Files : \E i \in DOMAIN log.files[f] : e = log.files[f][i]
  BY Zenon DEF EntriesOf
<1>2. PICK i \in DOMAIN log.files[f] : e = log.files[f][i]
  BY <1>6
<1>3. log.cur \in Files /\ (f = log.cur \/ f = 1 - log.cur)
  BY DEF RInv, IInv, TypeOK, LogType, Files
<1>4. CASE f = log.cur
  <2>1. i \in DOMAIN log'.files[log.cur] /\ log'.files[log.cur][i] = e
    BY <1>1, <1>2, <1>4 DEF KeepsPrefix
  <2>2. e \in EntriesOf(log')
    <3>1. e \in {log'.files[log.cur][j] : j \in DOMAIN log'.files[log.cur]}
      BY <2>1
    <3>2. {log'.files[log.cur][j] : j \in DOMAIN log'.files[log.cur]}
            \in {{log'.files[g][j] : j \in DOMAIN log'.files[g]} : g \in Files}
      BY <1>3
    <3> QED
      BY <3>1, <3>2 DEF EntriesOf
  <2> QED
    BY <2>2
<1>5. CASE f = 1 - log.cur
  BY <1>2, <1>5 DEF DInv, LsnsAtMost
<1> QED
  BY <1>3, <1>4, <1>5

-----------------------------------------------------------------------------
(* Theorems.                                                               *)

LEMMA InitDInv == Init => RInv /\ DInv
<1> SUFFICES ASSUME Init PROVE RInv /\ DInv
  OBVIOUS
<1>1. \A f \in Files : log.files[f] = <<>>
  BY DEF Init, Created
<1>2. log.files[1 - log.cur] = <<>>
  BY DEF Init, Created, Files
<1> QED
  BY <1>1, <1>2, InitRInv, AtMostEmpty DEF DInv

\* Every entry of either file is below the writer's LSN, and every entry
\* of the file that is not current is at or below the LSN of the last
\* CHECKPOINT written by ham_log_append_checkpoint or by a rotation.
THEOREM DInvHolds == Spec => [](RInv /\ DInv)
<1>1. RInv /\ DInv /\ [Next]_vars => RInv' /\ DInv'
  BY NextIInv, NextRefines, DNext DEF RInv
<1> QED
  BY InitDInv, <1>1, PTL DEF Spec

\* Apart from ham_log_clear, no step of the log API loses an entry written
\* after the last checkpoint: appends only extend the current file, and a
\* rotation in ham_log_append_txn_commit/abort truncates only the file that
\* the previous rotation closed with its CHECKPOINT.
THEOREM DropsOnlyCheckpointedThm == Spec => DropsOnlyCheckpointed
<1>1. RInv /\ DInv /\ [Next]_vars =>
          [log'.lsn > log.lsn =>
               \A e \in EntriesOf(log) \ EntriesOf(log') : e.lsn <= log.ckpt]_vars
  BY DropStep
<1> QED
  BY DInvHolds, <1>1, PTL DEF Spec, DropsOnlyCheckpointed

====
