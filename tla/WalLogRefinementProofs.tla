----------------------- MODULE WalLogRefinementProofs -----------------------
(***************************************************************************)
(* Proof that the log writer of WalLog implements the abstract log of      *)
(* AbstractLog under the refinement mapping alog <- Retained (the two      *)
(* files, oldest first) and alsn <- log.lsn, for every value of the        *)
(* constants.                                                              *)
(*                                                                         *)
(* Every append of the writer adds one stamped entry to the current file   *)
(* and so one entry to Retained.  A commit or abort that rotates appends   *)
(* its entry and a CHECKPOINT, then truncates the other file: Retained     *)
(* loses that file, which must end with a checkpoint.  That is the         *)
(* invariant OtherEndsWithCkpt: the file that is not current is empty or   *)
(* ends with the CHECKPOINT of the rotation that left it.                  *)
(***************************************************************************)
EXTENDS WalLogProofs

\* The retained entries of a log value.
RetOf(lg) == lg.files[1 - lg.cur] \o lg.files[lg.cur]

\* The file that is not current is empty or ends with a CHECKPOINT.
OtherEndsWithCkpt ==
    LET o == log.files[1 - log.cur] IN o = <<>> \/ o[Len(o)].type = "CHECKPOINT"

RInv == IInv /\ OtherEndsWithCkpt

-----------------------------------------------------------------------------
(* Lemmas about the operators on a log value.                              *)

LEMMA StampedFacts ==
    ASSUME NEW lg \in LogType, NEW e \in Entry
    PROVE  /\ Stamped(lg, e) \in Entry
           /\ Stamped(lg, e).lsn = lg.lsn
           /\ Stamped(lg, e).type = e.type
<1>1. lg.lsn \in Nat
  BY DEF LogType
<1> QED
  BY <1>1, Zenon DEF Stamped, Entry

LEMMA RetOfType ==
    ASSUME NEW lg \in LogType
    PROVE  RetOf(lg) \in Seq(Entry)
<1>1. lg.cur \in Files /\ 1 - lg.cur \in Files
  BY DEF LogType, Files
<1> QED
  BY <1>1 DEF RetOf, LogType

\* An append adds the stamped entry at the end of the retained log.
LEMMA AppendRet ==
    ASSUME NEW lg \in LogType, NEW e \in Entry
    PROVE  /\ RetOf(AppendEntry(lg, e)) = Append(RetOf(lg), Stamped(lg, e))
           /\ AppendEntry(lg, e).lsn = lg.lsn + 1
<1> DEFINE a == AppendEntry(lg, e)
           o == lg.files[1 - lg.cur]
           c == lg.files[lg.cur]
           st == Stamped(lg, e)
<1>1. a.cur = lg.cur /\ a.files[lg.cur] = Append(c, st) /\ a.files[1 - lg.cur] = o
  BY AppendEntryFacts
<1>2. o \in Seq(Entry) /\ c \in Seq(Entry) /\ st \in Entry
  BY StampedFacts, OtherFile DEF LogType
<1>3. o \o Append(c, st) = Append(o \o c, st)
  <2>1. <<st>> \in Seq(Entry) /\ o \o c \in Seq(Entry)
    BY <1>2
  <2>2. Append(c, st) = c \o <<st>> /\ Append(o \o c, st) = (o \o c) \o <<st>>
    BY <1>2, <2>1, AppendIsConcat
  <2>3. \A x, y, z \in Seq(Entry) : (x \o y) \o z = x \o (y \o z)
    BY ConcatAssociative
  <2>4. o \o (c \o <<st>>) = (o \o c) \o <<st>>
    BY <1>2, <2>1, <2>3
  <2> QED
    BY <2>2, <2>4
<1>4. a.lsn = lg.lsn + 1
  BY Zenon DEF AppendEntry, LogType
<1> QED
  BY <1>1, <1>3, <1>4 DEF RetOf

\* fsync and the counter updates leave files, current index and LSN alone.
LEMMA FieldOpsKeepRet ==
    ASSUME NEW lg \in LogType
    PROVE  /\ Sync(lg).files = lg.files /\ Sync(lg).cur = lg.cur
           /\ Sync(lg).lsn = lg.lsn
           /\ Begun(lg).files = lg.files /\ Begun(lg).cur = lg.cur
           /\ Begun(lg).lsn = lg.lsn
           /\ Ended(lg).files = lg.files /\ Ended(lg).cur = lg.cur
           /\ Ended(lg).lsn = lg.lsn
BY Zenon DEF Sync, Begun, Ended, LogType

\* A checkpoint appends a CHECKPOINT entry.
LEMMA CheckpointRet ==
    ASSUME NEW lg \in LogType
    PROVE  LET c == AfterCheckpoint(lg)
               ck == Stamped(lg, Control(0, "CHECKPOINT"))
           IN  /\ c.files = AppendEntry(lg, Control(0, "CHECKPOINT")).files
               /\ c.cur = lg.cur
               /\ c.lsn = lg.lsn + 1
               /\ ck \in Entry /\ ck.lsn = lg.lsn /\ ck.type = "CHECKPOINT"
<1> DEFINE e == Control(0, "CHECKPOINT")
           a == AppendEntry(lg, e)
<1>1. e \in Entry /\ e.type = "CHECKPOINT"
  BY ControlType DEF EntryTypes, Control, MkEntry
<1>2. a \in LogType /\ a.cur = lg.cur /\ a.lsn = lg.lsn + 1
  BY <1>1, AppendEntryFacts, AppendRet
<1>3. Sync(a).files = a.files /\ Sync(a).cur = lg.cur /\ Sync(a).lsn = a.lsn
      /\ Sync(a) \in LogType
  BY <1>2, FieldOpsKeepRet, SyncFacts
<1>4. AfterCheckpoint(lg).files = a.files /\ AfterCheckpoint(lg).cur = lg.cur
      /\ AfterCheckpoint(lg).lsn = lg.lsn + 1
  BY <1>2, <1>3, Zenon DEF AfterCheckpoint, LogType
<1> QED
  BY <1>1, <1>4, StampedFacts

\* Rotation: the old current file, ending with the new CHECKPOINT, is all
\* that is retained, and it is now the file that is not current.
LEMMA RotateRet ==
    ASSUME NEW lg \in LogType
    PROVE  LET r == Rotate(lg)
               ck == Stamped(lg, Control(0, "CHECKPOINT"))
           IN  /\ RetOf(r) = Append(lg.files[lg.cur], ck)
               /\ r.files[1 - r.cur] = Append(lg.files[lg.cur], ck)
               /\ r.lsn = lg.lsn + 1
<1> DEFINE c == AfterCheckpoint(lg)
           n == 1 - lg.cur
           ck == Stamped(lg, Control(0, "CHECKPOINT"))
           w == Append(lg.files[lg.cur], ck)
<1>1. c.files = AppendEntry(lg, Control(0, "CHECKPOINT")).files /\ c.cur = lg.cur
      /\ c.lsn = lg.lsn + 1 /\ ck \in Entry
  BY CheckpointRet
<1>2. c.files[lg.cur] = w
  BY <1>1, ControlType, AppendEntryFacts DEF EntryTypes
<1>3. n \in Files /\ n # lg.cur /\ 1 - n = lg.cur /\ lg.cur \in Files
  BY OtherFile DEF LogType
<1>4. c.files \in [Files -> Seq(Entry)]
  BY CheckpointFacts DEF LogType
<1>5. /\ Rotate(lg).cur = n
      /\ Rotate(lg).files = [c.files EXCEPT ![n] = <<>>]
      /\ Rotate(lg).lsn = c.lsn
  BY CheckpointFacts, Zenon DEF Rotate, LogType
<1>6. Rotate(lg).files[lg.cur] = w /\ Rotate(lg).files[n] = <<>>
  BY <1>2, <1>3, <1>4, <1>5
<1>7. w \in Seq(Entry)
  BY <1>1, <1>3 DEF LogType
<1>8. w \o <<>> = w
  BY <1>7
<1> QED
  BY <1>1, <1>3, <1>5, <1>6, <1>8 DEF RetOf

-----------------------------------------------------------------------------
(* Lemmas about the abstract log: which changes of Retained are AWrite.    *)

\* A sequence that agrees with s on the first Len(s) places starts with s.
LEMMA PrefixIsSubSeq ==
    ASSUME NEW s \in Seq(Entry), NEW t \in Seq(Entry), Len(s) <= Len(t),
           \A i \in 1 .. Len(s) : t[i] = s[i]
    PROVE  SubSeq(t, 1, Len(s)) = s
<1>1. \A i \in 1 .. Len(s) : t[i] \in Entry
  OBVIOUS
<1>2. SubSeq(t, 1, Len(s)) \in Seq(Entry) /\ Len(SubSeq(t, 1, Len(s))) = Len(s)
      /\ \A i \in 1 .. Len(s) : SubSeq(t, 1, Len(s))[i] = t[i]
  BY <1>1, SubSeqProperties
<1> QED
  BY <1>2, SeqEqual

\* One entry stamped with the LSN is appended: AWrite dropping nothing.
LEMMA AbsAppendOne ==
    ASSUME NEW x \in Entry, Retained \in Seq(Entry), log.lsn \in Nat,
           Retained' = Append(Retained, x), x.lsn = log.lsn,
           log'.lsn = log.lsn + 1
    PROVE  ABS!AWrite
<1> DEFINE R == Retained
           R2 == Retained'
<1>1. R2 \in Seq(Entry) /\ Len(R2) = Len(R) + 1 /\ R2[Len(R) + 1] = x
      /\ \A i \in 1 .. Len(R) : R2[i] = R[i]
  BY AppendProperties
<1>2. SubSeq(R, 0 + 1, Len(R)) = R
  BY SubSeqFull
<1>3. SubSeq(R2, 1, Len(R)) = R
  BY <1>1, PrefixIsSubSeq
<1>4. ABS!FreshBatch(Len(R))
  BY <1>1 DEF ABS!FreshBatch
<1>5. 0 \in 0 .. Len(R) /\ log'.lsn > log.lsn
  OBVIOUS
<1> QED
  BY <1>2, <1>3, <1>4, <1>5 DEF ABS!AWrite

\* The old file O is dropped, two entries are appended to the current file
\* C, the second a CHECKPOINT: AWrite dropping Len(O) entries.
LEMMA AbsAppendRotate ==
    ASSUME NEW O \in Seq(Entry), NEW C \in Seq(Entry), NEW x \in Entry,
           NEW y \in Entry, log.lsn \in Nat,
           Retained = O \o C, Retained' = Append(Append(C, x), y),
           x.lsn = log.lsn, y.lsn = log.lsn + 1, log'.lsn = log.lsn + 2,
           y.type = "CHECKPOINT", O # <<>> => O[Len(O)].type = "CHECKPOINT"
    PROVE  ABS!AWrite
<1> DEFINE R == Retained
           R2 == Retained'
           k == Len(O)
<1>1. R \in Seq(Entry) /\ Len(R) = Len(O) + Len(C)
      /\ \A i \in 1 .. Len(O) : R[i] = O[i]
  BY ConcatProperties
<1>2. SubSeq(R, k + 1, Len(R)) = C
  <2>1. CASE C = <<>>
    BY <1>1, <2>1, SubSeqEmpty
  <2>2. CASE C # <<>>
    <3>1. SubSeq(O \o C, k + 1, Len(R)) = SubSeq(C, 1, Len(C))
      BY <1>1, <2>2, SubSeqOfConcat2
    <3> QED
      BY <3>1, SubSeqFull
  <2> QED
    BY <2>1, <2>2
<1>3. Append(C, x) \in Seq(Entry) /\ Len(Append(C, x)) = Len(C) + 1
      /\ Append(C, x)[Len(C) + 1] = x
      /\ \A i \in 1 .. Len(C) : Append(C, x)[i] = C[i]
  BY AppendProperties
<1>4. R2 \in Seq(Entry) /\ Len(R2) = Len(C) + 2 /\ R2[Len(C) + 2] = y
      /\ R2[Len(C) + 1] = x /\ \A i \in 1 .. Len(C) : R2[i] = C[i]
  BY <1>3, AppendProperties
<1>5. SubSeq(R2, 1, Len(C)) = C
  BY <1>4, PrefixIsSubSeq
<1>6. \A i \in Len(C) + 1 .. Len(R2) :
          R2[i] \in Entry /\ R2[i].lsn = log.lsn + (i - Len(C) - 1)
  BY <1>4
<1>7. k > 0 => R[k] \in {e \in Entry : e.type = "CHECKPOINT"}
  BY <1>1
<1>8. R2[Len(R2)] \in {e \in Entry : e.type = "CHECKPOINT"}
  BY <1>4
<1>9. k \in 0 .. Len(R) /\ log'.lsn > log.lsn /\ Len(R2) = Len(C) + (log'.lsn - log.lsn)
  BY <1>1, <1>4
<1>10. ABS!FreshBatch(Len(C))
  BY <1>6, <1>9 DEF ABS!FreshBatch
<1> QED
  BY <1>2, <1>5, <1>7, <1>8, <1>9, <1>10 DEF ABS!AWrite

-----------------------------------------------------------------------------
(* The two shapes of a writing step.                                       *)

LEMMA RetainedIsRetOf ==
    Retained = RetOf(log) /\ Retained' = RetOf(log')
BY DEF Retained, RetOf

\* A step whose files and LSN are those of one append to the current file.
LEMMA AppendStepRefines ==
    ASSUME RInv, NEW e \in Entry,
           log'.files = AppendEntry(log, e).files, log'.cur = log.cur,
           log'.lsn = log.lsn + 1
    PROVE  OtherEndsWithCkpt' /\ ABS!AWrite
<1> DEFINE a == AppendEntry(log, e)
<1>1. log \in LogType /\ log.lsn \in Nat
  BY DEF RInv, IInv, TypeOK, LogType
<1>2. a.cur = log.cur /\ a.files[1 - log.cur] = log.files[1 - log.cur]
      /\ RetOf(a) = Append(RetOf(log), Stamped(log, e))
  BY <1>1, AppendEntryFacts, AppendRet
<1>3. RetOf(log') = RetOf(a)
  BY <1>2 DEF RetOf
<1>4. Stamped(log, e) \in Entry /\ Stamped(log, e).lsn = log.lsn
      /\ RetOf(log) \in Seq(Entry)
  BY <1>1, StampedFacts, RetOfType
<1>5. ABS!AWrite
  BY <1>2, <1>3, <1>4, <1>1, RetainedIsRetOf, AbsAppendOne
<1>6. OtherEndsWithCkpt'
  BY <1>2 DEF RInv, OtherEndsWithCkpt
<1> QED
  BY <1>5, <1>6

\* A step that rotates a log value s whose files and LSN are those of one
\* append to the current file.
LEMMA RotateStepRefines ==
    ASSUME RInv, NEW e \in Entry, NEW s \in LogType,
           s.files = AppendEntry(log, e).files, s.cur = log.cur,
           s.lsn = log.lsn + 1, log' = Rotate(s)
    PROVE  OtherEndsWithCkpt' /\ ABS!AWrite
<1> DEFINE O == log.files[1 - log.cur]
           C == log.files[log.cur]
           x == Stamped(log, e)
           y == Stamped(s, Control(0, "CHECKPOINT"))
<1>1. log \in LogType /\ log.lsn \in Nat /\ O \in Seq(Entry) /\ C \in Seq(Entry)
  BY OtherFile DEF RInv, IInv, TypeOK, LogType
<1>2. s.files[s.cur] = Append(C, x)
  BY <1>1, AppendEntryFacts
<1>3. RetOf(log') = Append(Append(C, x), y)
      /\ log'.files[1 - log'.cur] = Append(Append(C, x), y)
      /\ log'.lsn = s.lsn + 1
  BY <1>2, RotateRet
<1>4. x \in Entry /\ x.lsn = log.lsn
  BY <1>1, StampedFacts
<1>5. y \in Entry /\ y.lsn = log.lsn + 1 /\ y.type = "CHECKPOINT"
  BY CheckpointRet
<1>6. O # <<>> => O[Len(O)].type = "CHECKPOINT"
  BY DEF RInv, OtherEndsWithCkpt
<1>7. Retained = O \o C /\ Retained' = Append(Append(C, x), y)
  BY <1>3, RetainedIsRetOf DEF RetOf
<1>8. log'.lsn = log.lsn + 2
  BY <1>1, <1>3
<1>9. ABS!AWrite
  BY <1>1, <1>4, <1>5, <1>6, <1>7, <1>8, AbsAppendRotate
<1>10. OtherEndsWithCkpt'
  <2>1. Append(C, x) \in Seq(Entry)
    BY <1>1, <1>4, AppendProperties
  <2>2. LET w == Append(Append(C, x), y) IN w # <<>> /\ w[Len(w)] = y
    BY <2>1, <1>5, AppendProperties
  <2> QED
    BY <1>3, <1>5, <2>2 DEF OtherEndsWithCkpt
<1> QED
  BY <1>9, <1>10

-----------------------------------------------------------------------------
(* Each action of the log API refines the abstract log.                    *)

\* An append of one entry to the current file.
LEMMA AppendActionRefines ==
    ASSUME RInv, NEW e \in Entry, log' = AppendEntry(log, e)
    PROVE  OtherEndsWithCkpt' /\ ABS!AWrite
<1>1. log \in LogType
  BY DEF RInv, IInv, TypeOK
<1>2. log'.cur = log.cur /\ log'.lsn = log.lsn + 1
  BY <1>1, AppendEntryFacts, AppendRet
<1> QED
  BY <1>2, AppendStepRefines

LEMMA BeginRefines ==
    ASSUME RInv, TxnBegin
    PROVE  OtherEndsWithCkpt' /\ ABS!AWrite
<1> DEFINE e == Control(nextTxn, "TXN_BEGIN")
           a == AppendEntry(log, e)
<1>1. log \in LogType /\ nextTxn \in Nat
  BY WalLogAssumption DEF RInv, IInv, TypeOK, TxnBegin, TxnIds
<1>2. e \in Entry
  BY <1>1, ControlType DEF EntryTypes
<1>3. a \in LogType /\ a.cur = log.cur /\ a.lsn = log.lsn + 1
  BY <1>1, <1>2, AppendEntryFacts, AppendRet
<1>4. log' = Begun(a)
  BY <1>3, Zenon DEF TxnBegin, AfterBegin, Begun
<1>5. log'.files = a.files /\ log'.cur = log.cur /\ log'.lsn = log.lsn + 1
  BY <1>3, <1>4, FieldOpsKeepRet
<1> QED
  BY <1>2, <1>5, AppendStepRefines

\* Commit and abort: the entry and the counters, then rotation or not.
LEMMA EndRefines ==
    ASSUME RInv, NEW t \in active, NEW ty \in {"TXN_COMMIT", "TXN_ABORT"},
           log' = AfterEnd(log, t, ty)
    PROVE  OtherEndsWithCkpt' /\ ABS!AWrite
<1> DEFINE e == Control(t, ty)
           a0 == AppendEntry(log, e)
           a == Ended(a0)
           s == IF ty = "TXN_COMMIT" THEN Sync(a) ELSE a
<1>1. log \in LogType /\ t \in Nat
  BY DEF RInv, IInv, TypeOK, TxnIds
<1>2. e \in Entry
  BY <1>1, ControlType DEF EntryTypes
<1>3. a0 \in LogType /\ a0.cur = log.cur /\ a0.lsn = log.lsn + 1
      /\ a0.open = log.open
  BY <1>1, <1>2, AppendEntryFacts, AppendRet
<1>4. log.open[log.cur] # 0
  <2>1. IsFiniteSet(active) /\ active # {}
    BY ActiveFinite DEF RInv, IInv, TypeOK
  <2>2. Cardinality(active) # 0
    BY <2>1, FS_EmptySet
  <2> QED
    BY <2>2 DEF RInv, IInv
<1>5. a \in LogType /\ a.files = a0.files /\ a.cur = log.cur /\ a.lsn = log.lsn + 1
  BY <1>3, <1>4, EndedFacts, FieldOpsKeepRet
<1>6. s \in LogType /\ s.files = a0.files /\ s.cur = log.cur /\ s.lsn = log.lsn + 1
  BY <1>5, SyncFacts, FieldOpsKeepRet
<1>7. log' = MaybeRotate(s)
  <2>1. a = [a0 EXCEPT !.open[log.cur] = @ - 1, !.closed[log.cur] = @ + 1]
    BY <1>3, Zenon DEF Ended
  <2>2. AfterEnd(log, t, ty) =
            MaybeRotate(IF ty = "TXN_COMMIT"
                        THEN Sync([a0 EXCEPT !.open[log.cur] = @ - 1,
                                             !.closed[log.cur] = @ + 1])
                        ELSE [a0 EXCEPT !.open[log.cur] = @ - 1,
                                        !.closed[log.cur] = @ + 1])
    BY Zenon DEF AfterEnd
  <2> QED
    BY <2>1, <2>2, Zenon
<1>8. CASE s.open[s.cur] = 0 /\ s.open[s.cur] + s.closed[s.cur] >= Threshold
  BY <1>2, <1>6, <1>7, <1>8, RotateStepRefines DEF MaybeRotate
<1>9. CASE ~(s.open[s.cur] = 0 /\ s.open[s.cur] + s.closed[s.cur] >= Threshold)
  BY <1>2, <1>6, <1>7, <1>9, AppendStepRefines DEF MaybeRotate
<1> QED
  BY <1>8, <1>9

LEMMA NextRefines ==
    ASSUME RInv, [Next]_vars
    PROVE  OtherEndsWithCkpt' /\ [ABS!ANext]_ABS!avars
<1>1. CASE TxnBegin
  BY <1>1, BeginRefines DEF ABS!ANext
<1>2. CASE \E t \in active : TxnCommit(t) \/ TxnAbort(t)
  BY <1>2, EndRefines DEF TxnCommit, TxnAbort, ABS!ANext
<1>3. CASE Checkpoint
  <2>1. log \in LogType
    BY DEF RInv, IInv, TypeOK
  <2>2. Control(0, "CHECKPOINT") \in Entry
    BY ControlType DEF EntryTypes
  <2> QED
    BY <1>3, <2>1, <2>2, CheckpointRet, AppendStepRefines DEF Checkpoint, ABS!ANext
<1>4. CASE \E p \in Pages : FlushPage(p)
  <2> PICK p \in Pages : FlushPage(p)
    BY <1>4
  <2> MkEntry(0, "FLUSH_PAGE", p, NoImg, NoImg) \in Entry
    BY DEF MkEntry, Entry, EntryTypes
  <2> QED
    BY AppendActionRefines DEF FlushPage, ABS!ANext
<1>5. CASE \E t \in active, p \in Pages, i \in Images :
               PageImage(t, "PREWRITE", p, i) \/ PageImage(t, "WRITE", p, i)
  <2> PICK t \in active, p \in Pages, i \in Images :
          PageImage(t, "PREWRITE", p, i) \/ PageImage(t, "WRITE", p, i)
    BY <1>5
  <2> t \in Nat
    BY DEF RInv, IInv, TypeOK, TxnIds
  <2> \A ty \in {"PREWRITE", "WRITE"} : MkEntry(t, ty, p, i, NoImg) \in Entry
    BY DEF MkEntry, Entry, EntryTypes
  <2> QED
    BY AppendActionRefines DEF PageImage, ABS!ANext
<1>6. CASE \E t \in active, p \in Pages, i, j \in Images : Overwrite(t, p, i, j)
  <2> PICK t \in active, p \in Pages, i, j \in Images : Overwrite(t, p, i, j)
    BY <1>6
  <2> t \in Nat
    BY DEF RInv, IInv, TypeOK, TxnIds
  <2> MkEntry(t, "OVERWRITE", p, j, i) \in Entry
    BY DEF MkEntry, Entry, EntryTypes
  <2> QED
    BY AppendActionRefines DEF Overwrite, ABS!ANext
<1>7. CASE Clear
  <2>1. log'.files[1 - log'.cur] = <<>> /\ log'.files[log'.cur] = <<>>
        /\ log'.lsn = 1
    BY <1>7 DEF Clear, Created, Files
  <2>2. Retained' = <<>>
    BY <2>1, RetainedIsRetOf DEF RetOf
  <2> QED
    BY <2>1, <2>2 DEF ABS!ANext, ABS!AClear, OtherEndsWithCkpt
<1>8. CASE UNCHANGED vars
  <2>1. log' = log
    BY <1>8 DEF vars
  <2>2. OtherEndsWithCkpt'
    BY <2>1 DEF RInv, OtherEndsWithCkpt
  <2>3. UNCHANGED ABS!avars
    BY <2>1 DEF Retained, ABS!avars
  <2> QED
    BY <2>2, <2>3
<1> QED
  BY <1>1, <1>2, <1>3, <1>4, <1>5, <1>6, <1>7, <1>8 DEF Next

-----------------------------------------------------------------------------
(* Theorems.                                                               *)

LEMMA InitRInv == Init => RInv
<1> SUFFICES ASSUME Init PROVE RInv
  OBVIOUS
<1>1. IInv
  BY InitIInv
<1>2. log.files[1 - log.cur] = <<>>
  BY DEF Init, Created, Files
<1> QED
  BY <1>1, <1>2 DEF RInv, OtherEndsWithCkpt

\* The non-current log file is always empty or ends with a CHECKPOINT.
THEOREM RInvHolds == Spec => []RInv
<1>1. RInv /\ [Next]_vars => RInv'
  BY NextIInv, NextRefines DEF RInv
<1> QED
  BY InitRInv, <1>1, PTL DEF Spec

\* The log writer (ham_log_append_*, the checkpoint policy with its
\* rotation, ham_log_clear) implements the abstract log: read oldest file
\* first, every step appends a batch with consecutive LSNs and drops at most
\* a prefix ending at an earlier checkpoint, or clears the log; no step
\* rewrites or loses a retained entry otherwise.
THEOREM RefinesAbstractLogThm == Spec => RefinesAbstractLog
<1>1. Init => ABS!AInit
  <2> SUFFICES ASSUME Init PROVE ABS!AInit
    OBVIOUS
  <2>1. log.files[1 - log.cur] = <<>> /\ log.files[log.cur] = <<>> /\ log.lsn = 1
    BY DEF Init, Created, Files
  <2> QED
    BY <2>1 DEF ABS!AInit, Retained
<1>2. RInv /\ [Next]_vars => [ABS!ANext]_ABS!avars
  BY NextRefines
<1> QED
  BY <1>1, <1>2, RInvHolds, PTL DEF Spec, RefinesAbstractLog, ABS!ASpec

-----------------------------------------------------------------------------
(* LSN contiguity, carried by the abstract steps.                          *)

\* An abstract write keeps the retained entries stamped with consecutive
\* LSNs ending just below the next LSN: the kept suffix moves to the front
\* with its stamps, and the batch continues them.
LEMMA ContiguousWrite ==
    ASSUME Retained \in Seq(Entry), Retained' \in Seq(Entry),
           log.lsn \in Nat, log'.lsn \in Nat, LsnContiguous, ABS!AWrite
    PROVE  LsnContiguous'
<1> DEFINE R == Retained
           R2 == Retained'
           L == Len(R)
           Kept(k) == SubSeq(R, k + 1, L)
<1>1. PICK k \in 0 .. L :
          /\ ABS!FreshBatch(Len(Kept(k)))
          /\ SubSeq(R2, 1, Len(Kept(k))) = Kept(k)
  BY DEF ABS!AWrite
<1>2. log'.lsn > log.lsn
  BY DEF ABS!AWrite
<1>3. Len(Kept(k)) = L - k /\ \A j \in 1 .. L - k : Kept(k)[j] = R[k + j]
  BY SubSeqProperties
<1> DEFINE n == L - k
<1>4. Len(R2) = n + (log'.lsn - log.lsn)
  BY <1>1, <1>3 DEF ABS!FreshBatch
<1>5. \A j \in 1 .. n : R2[j] = R[k + j]
  <2> SUFFICES ASSUME NEW j \in 1 .. n PROVE R2[j] = R[k + j]
    OBVIOUS
  <2>1. n <= Len(R2)
    BY <1>2, <1>4
  <2>2. SubSeq(R2, 1, n)[j] = R2[j]
    BY <2>1, SubSeqProperties
  <2> QED
    BY <1>1, <1>3, <2>2
<1> SUFFICES ASSUME NEW i \in DOMAIN R2
             PROVE  R2[i].lsn = log'.lsn - Len(R2) + i - 1
  BY DEF LsnContiguous, Retained
<1>6. CASE i <= n
  <2>1. R2[i] = R[k + i] /\ k + i \in DOMAIN R
    BY <1>5, <1>6
  <2>2. R[k + i].lsn = log.lsn - L + (k + i) - 1
    BY <2>1 DEF LsnContiguous, Retained
  <2>3. log'.lsn - Len(R2) + i - 1 = log.lsn - L + (k + i) - 1
    BY <1>4
  <2> QED
    BY <2>1, <2>2, <2>3
<1>7. CASE i > n
  <2>1. R2[i].lsn = log.lsn + (i - n - 1)
    BY <1>1, <1>3, <1>4, <1>7 DEF ABS!FreshBatch
  <2> QED
    BY <1>4, <2>1
<1> QED
  BY <1>6, <1>7

\* An abstract write never retains more entries than LSNs were handed out.
LEMMA LenBelowWrite ==
    ASSUME Retained \in Seq(Entry), Retained' \in Seq(Entry),
           log.lsn \in Nat, log'.lsn \in Nat, Len(Retained) < log.lsn, ABS!AWrite
    PROVE  Len(Retained') < log'.lsn
<1>1. PICK k \in 0 .. Len(Retained) :
          ABS!FreshBatch(Len(SubSeq(Retained, k + 1, Len(Retained))))
  BY DEF ABS!AWrite
<1>2. Len(SubSeq(Retained, k + 1, Len(Retained))) = Len(Retained) - k
  BY SubSeqProperties
<1> QED
  BY <1>1, <1>2 DEF ABS!FreshBatch

\* The retained entries and the LSN counter: contiguous, and every
\* retained LSN at least 1.
LsnInv == LsnContiguous /\ Len(Retained) < log.lsn

LEMMA InitLsnInv == Init => LsnInv
<1> SUFFICES ASSUME Init PROVE LsnInv
  OBVIOUS
<1>1. log.files[1 - log.cur] = <<>> /\ log.files[log.cur] = <<>> /\ log.lsn = 1
  BY DEF Init, Created, Files
<1> QED
  BY <1>1 DEF LsnInv, LsnContiguous, Retained

LEMMA LsnInvStep ==
    ASSUME RInv, LsnInv, [Next]_vars
    PROVE  LsnInv'
<1>1. RInv'
  BY NextIInv, NextRefines DEF RInv
<1>2. log \in LogType /\ log' \in LogType
  BY <1>1 DEF RInv, IInv, TypeOK
<1>3. Retained \in Seq(Entry) /\ Retained' \in Seq(Entry)
      /\ log.lsn \in Nat /\ log'.lsn \in Nat
  BY <1>2, RetOfType, RetainedIsRetOf DEF LogType
<1>4. [ABS!ANext]_ABS!avars
  BY NextRefines
<1>5. CASE ABS!AWrite
  BY <1>3, <1>5, ContiguousWrite, LenBelowWrite DEF LsnInv
<1>6. CASE ABS!AClear
  BY <1>6 DEF ABS!AClear, LsnInv, LsnContiguous
<1>7. CASE UNCHANGED ABS!avars
  BY <1>7 DEF ABS!avars, LsnInv, LsnContiguous
<1> QED
  BY <1>4, <1>5, <1>6, <1>7 DEF ABS!ANext

\* Every entry the writer stamps (__log_append_entry) keeps an LSN of at
\* least 1 while it is retained, and the retained LSNs are consecutive.
THEOREM LsnInvHolds == Spec => []LsnInv
<1>1. RInv /\ LsnInv /\ [Next]_vars => RInv' /\ LsnInv'
  BY LsnInvStep, NextIInv, NextRefines DEF RInv
<1> QED
  BY InitRInv, InitLsnInv, <1>1, PTL DEF Spec

\* The log writer never leaves a gap, a duplicate or a stale entry in the
\* retained log: after any sequence of appends, checkpoints, rotations in
\* ham_log_append_txn_commit/abort and ham_log_clear, the two files read
\* oldest first carry consecutive LSNs ending just below log_get_lsn.
THEOREM LsnContiguousThm == Spec => []LsnContiguous
<1>1. LsnInv => LsnContiguous
  BY DEF LsnInv
<1> QED
  BY LsnInvHolds, <1>1, PTL

=============================================================================
