---------------------------- MODULE WalLogProofs ----------------------------
(***************************************************************************)
(* Proofs about the log writer of WalLog, for every value of the           *)
(* constants: the log keeps its type, and rotation never truncates the     *)
(* TXN_BEGIN of a running transaction (OpenTxnsRetained).                  *)
(*                                                                         *)
(* Neither holds inductively as stated: a commit decrements open[cur],     *)
(* which stays a natural only if a running transaction is counted there,   *)
(* and rotation is safe only because open[cur] = 0 means that nothing is   *)
(* running.  The strengthening IInv ties the counter of the current file   *)
(* to the set of running transactions and puts all of their TXN_BEGIN      *)
(* entries in the current file.                                            *)
(***************************************************************************)
EXTENDS WalLog, FiniteSetTheorems, SequenceTheorems, TLAPS

IInv ==
    /\ TypeOK
    /\ \A t \in active : t < nextTxn
    /\ log.open[1 - log.cur] = 0
    /\ log.open[log.cur] = Cardinality(active)
    /\ \A t \in active : BeginIn(log, log.cur, t)

-----------------------------------------------------------------------------
(* Lemmas about the operators on a log value.                              *)

LEMMA ActiveFinite ==
    ASSUME NEW S \in SUBSET TxnIds
    PROVE  IsFiniteSet(S)
<1>1. IsFiniteSet(TxnIds)
  BY WalLogAssumption, FS_Interval DEF TxnIds
<1> QED
  BY <1>1, FS_Subset

LEMMA ControlType ==
    ASSUME NEW t \in Nat, NEW ty \in EntryTypes
    PROVE  Control(t, ty) \in Entry
BY DEF Control, MkEntry, Entry

\* The other file of a file pair.
LEMMA OtherFile ==
    ASSUME NEW f \in Files
    PROVE  1 - f \in Files /\ 1 - f # f /\ 1 - (1 - f) = f
BY DEF Files

\* The entry as __log_append_entry writes it, stamped with the log's LSN.
Stamped(lg, e) == [e EXCEPT !.lsn = lg.lsn]

\* Appending changes only the current file, by one entry, and the LSN.
LEMMA AppendEntryFacts ==
    ASSUME NEW lg \in LogType, NEW e \in Entry
    PROVE  /\ AppendEntry(lg, e) \in LogType
           /\ AppendEntry(lg, e).cur = lg.cur
           /\ AppendEntry(lg, e).open = lg.open
           /\ AppendEntry(lg, e).closed = lg.closed
           /\ AppendEntry(lg, e).files[lg.cur] =
                  Append(lg.files[lg.cur], Stamped(lg, e))
           /\ AppendEntry(lg, e).files[1 - lg.cur] = lg.files[1 - lg.cur]
<1> DEFINE st == Stamped(lg, e)
           fs == [lg.files EXCEPT ![lg.cur] = Append(@, st)]
<1>1. lg.lsn \in Nat /\ lg.lsn + 1 \in Nat \ {0} /\ lg.cur \in Files
  BY DEF LogType
<1>2. st \in Entry
  BY <1>1, Zenon DEF Entry, Stamped
<1>3. lg.files[lg.cur] \in Seq(Entry) /\ lg.files \in [Files -> Seq(Entry)]
  BY <1>1 DEF LogType
<1>4. Append(lg.files[lg.cur], st) \in Seq(Entry)
  BY <1>2, <1>3
<1>5. fs \in [Files -> Seq(Entry)]
  BY <1>1, <1>3, <1>4
<1>6. 1 - lg.cur # lg.cur /\ 1 - lg.cur \in Files
  BY <1>1, OtherFile
<1>7. fs[lg.cur] = Append(lg.files[lg.cur], st) /\ fs[1 - lg.cur] = lg.files[1 - lg.cur]
  BY <1>1, <1>3, <1>6
<1>8. AppendEntry(lg, e) = [lg EXCEPT !.files = fs, !.lsn = lg.lsn + 1]
  BY DEF AppendEntry, Stamped
<1>9. /\ AppendEntry(lg, e) \in LogType
      /\ AppendEntry(lg, e).cur = lg.cur
      /\ AppendEntry(lg, e).open = lg.open
      /\ AppendEntry(lg, e).closed = lg.closed
      /\ AppendEntry(lg, e).files = fs
  BY <1>1, <1>5, <1>8, Zenon DEF LogType
<1> QED
  BY <1>7, <1>9

\* Appending keeps every TXN_BEGIN where it was.
LEMMA AppendKeepsBegin ==
    ASSUME NEW lg \in LogType, NEW e \in Entry, NEW f \in Files, NEW t,
           BeginIn(lg, f, t)
    PROVE  BeginIn(AppendEntry(lg, e), f, t)
<1> DEFINE a == AppendEntry(lg, e)
           s == lg.files[f]
<1>1. PICK i \in DOMAIN s : s[i].type = "TXN_BEGIN" /\ s[i].txn = t
  BY DEF BeginIn
<1>2. CASE f = lg.cur
  <2>1. a.files[f] = Append(s, Stamped(lg, e)) /\ s \in Seq(Entry)
    <3>1. s \in Seq(Entry)
      BY <1>2 DEF LogType
    <3> QED
      BY <1>2, <3>1, AppendEntryFacts
  <2>2. i \in DOMAIN a.files[f] /\ a.files[f][i] = s[i]
    BY <1>1, <2>1
  <2> QED
    BY <1>1, <2>2 DEF BeginIn
<1>3. CASE f # lg.cur
  <2>1. f = 1 - lg.cur
    BY <1>3 DEF LogType, Files
  <2>2. a.files[f] = s
    BY <2>1, AppendEntryFacts
  <2> QED
    BY <1>1, <2>2 DEF BeginIn
<1> QED
  BY <1>2, <1>3

\* fsync changes nothing but the durable length of the current file.
LEMMA SyncFacts ==
    ASSUME NEW lg \in LogType
    PROVE  /\ Sync(lg) \in LogType
           /\ Sync(lg).cur = lg.cur
           /\ Sync(lg).open = lg.open
           /\ Sync(lg).closed = lg.closed
           /\ Sync(lg).files = lg.files
<1>1. Len(lg.files[lg.cur]) \in Nat /\ lg.cur \in Files
      /\ lg.durable \in [Files -> Nat]
  BY DEF LogType
<1>2. [lg.durable EXCEPT ![lg.cur] = Len(lg.files[lg.cur])] \in [Files -> Nat]
  BY <1>1, Zenon
<1> QED
  BY <1>2, Zenon DEF Sync, LogType

\* A checkpoint is an append plus an fsync: same facts as an append.
LEMMA CheckpointFacts ==
    ASSUME NEW lg \in LogType
    PROVE  LET c == AfterCheckpoint(lg) IN
           /\ c \in LogType
           /\ c.cur = lg.cur
           /\ c.open = lg.open
           /\ c.closed = lg.closed
           /\ \A f \in Files : \A t : BeginIn(lg, f, t) => BeginIn(c, f, t)
<1> DEFINE e == Control(0, "CHECKPOINT")
           a == AppendEntry(lg, e)
<1>1. e \in Entry
  BY ControlType DEF EntryTypes
<1>2. a \in LogType /\ a.cur = lg.cur /\ a.open = lg.open /\ a.closed = lg.closed
  BY <1>1, AppendEntryFacts
<1>3. \A f \in Files : \A t : BeginIn(lg, f, t) => BeginIn(a, f, t)
  BY <1>1, AppendKeepsBegin
<1>4. Sync(a) \in LogType /\ Sync(a).cur = lg.cur /\ Sync(a).open = lg.open
      /\ Sync(a).closed = lg.closed /\ Sync(a).files = a.files
  BY <1>2, SyncFacts
<1>5. AfterCheckpoint(lg) = [Sync(a) EXCEPT !.ckpt = lg.lsn]
  BY DEF AfterCheckpoint
<1>6. lg.lsn \in Nat
  BY DEF LogType
<1>7. AfterCheckpoint(lg) \in LogType
      /\ AfterCheckpoint(lg).cur = lg.cur /\ AfterCheckpoint(lg).open = lg.open
      /\ AfterCheckpoint(lg).closed = lg.closed
      /\ AfterCheckpoint(lg).files = a.files
  BY <1>4, <1>5, <1>6, Zenon DEF LogType
<1>8. \A f \in Files : \A t : BeginIn(a, f, t) => BeginIn(AfterCheckpoint(lg), f, t)
  BY <1>7 DEF BeginIn
<1> QED
  BY <1>3, <1>7, <1>8

\* Rotation makes the other file current, with no open transaction.
LEMMA RotateFacts ==
    ASSUME NEW lg \in LogType
    PROVE  LET r == Rotate(lg) IN
           /\ r \in LogType
           /\ r.cur = 1 - lg.cur
           /\ r.open[r.cur] = 0
           /\ r.open[lg.cur] = lg.open[lg.cur]
<1> DEFINE c == AfterCheckpoint(lg)
           n == 1 - lg.cur
<1>1. c \in LogType /\ c.cur = lg.cur /\ c.open = lg.open
  BY CheckpointFacts
<1>2. n \in Files /\ n # lg.cur /\ <<>> \in Seq(Entry) /\ 0 \in Nat
  BY OtherFile DEF LogType
<1>3. /\ Rotate(lg).cur = n
      /\ Rotate(lg).open = [c.open EXCEPT ![n] = 0]
  BY <1>1, Zenon DEF Rotate, LogType
<1>4. Rotate(lg) \in LogType
  <2>1. /\ [c.files EXCEPT ![n] = <<>>] \in [Files -> Seq(Entry)]
        /\ [c.durable EXCEPT ![n] = 0] \in [Files -> Nat]
        /\ [c.open EXCEPT ![n] = 0] \in [Files -> Nat]
        /\ [c.closed EXCEPT ![n] = 0] \in [Files -> Nat]
    BY <1>1, <1>2 DEF LogType
  <2> QED
    BY <1>1, <1>2, <2>1, Zenon DEF Rotate, LogType
<1>5. Rotate(lg).open[n] = 0 /\ Rotate(lg).open[lg.cur] = lg.open[lg.cur]
  BY <1>1, <1>2, <1>3 DEF LogType
<1> QED
  BY <1>3, <1>4, <1>5

\* The counter updates of ham_log_append_txn_begin and of
\* ham_log_append_txn_commit/abort, named so that their facts are stated once.
Begun(lg) == [lg EXCEPT !.open[lg.cur] = @ + 1]
Ended(lg) == [lg EXCEPT !.open[lg.cur] = @ - 1, !.closed[lg.cur] = @ + 1]

LEMMA BegunFacts ==
    ASSUME NEW lg \in LogType
    PROVE  /\ Begun(lg) \in LogType
           /\ Begun(lg).cur = lg.cur
           /\ Begun(lg).files = lg.files
           /\ Begun(lg).open = [lg.open EXCEPT ![lg.cur] = lg.open[lg.cur] + 1]
<1>1. lg.cur \in Files /\ lg.open \in [Files -> Nat]
  BY DEF LogType
<1>2. [lg.open EXCEPT ![lg.cur] = lg.open[lg.cur] + 1] \in [Files -> Nat]
  BY <1>1
<1> QED
  BY <1>1, <1>2, Zenon DEF Begun, LogType

LEMMA EndedFacts ==
    ASSUME NEW lg \in LogType, lg.open[lg.cur] # 0
    PROVE  /\ Ended(lg) \in LogType
           /\ Ended(lg).cur = lg.cur
           /\ Ended(lg).files = lg.files
           /\ Ended(lg).open = [lg.open EXCEPT ![lg.cur] = lg.open[lg.cur] - 1]
           /\ Ended(lg).closed = [lg.closed EXCEPT ![lg.cur] = lg.closed[lg.cur] + 1]
<1>1. lg.cur \in Files /\ lg.open \in [Files -> Nat] /\ lg.closed \in [Files -> Nat]
  BY DEF LogType
<1>2. /\ [lg.open EXCEPT ![lg.cur] = lg.open[lg.cur] - 1] \in [Files -> Nat]
      /\ [lg.closed EXCEPT ![lg.cur] = lg.closed[lg.cur] + 1] \in [Files -> Nat]
  BY <1>1
<1> QED
  BY <1>1, <1>2, Zenon DEF Ended, LogType

-----------------------------------------------------------------------------
(* The inductive invariant.                                                *)

LEMMA InitIInv == Init => IInv
<1> SUFFICES ASSUME Init PROVE IInv
  OBVIOUS
<1>1. Created \in LogType
  BY DEF Created, LogType, Files
<1>2. Cardinality(active) = 0
  BY FS_EmptySet DEF Init
<1>3. log.cur = 0 /\ log.open[1 - log.cur] = 0 /\ log.open[log.cur] = 0
  BY DEF Init, Created, Files
<1>4. nextTxn \in 1 .. MaxTxn + 1 /\ active \subseteq TxnIds
  BY WalLogAssumption DEF Init
<1> QED
  BY <1>1, <1>2, <1>3, <1>4 DEF Init, IInv, TypeOK

\* A step that appends one entry and leaves the transactions alone keeps
\* the invariant.
LEMMA AppendStepIInv ==
    ASSUME IInv, NEW e \in Entry, log' = AppendEntry(log, e),
           UNCHANGED <<active, nextTxn>>
    PROVE  IInv'
<1>1. log \in LogType
  BY DEF IInv, TypeOK
<1>2. log' \in LogType /\ log'.cur = log.cur /\ log'.open = log.open
  BY <1>1, AppendEntryFacts
<1>3. \A t \in active : BeginIn(log', log.cur, t)
  BY <1>1, AppendKeepsBegin DEF IInv, Files, LogType
<1> QED
  BY <1>2, <1>3 DEF IInv, TypeOK

LEMMA BeginIInv ==
    ASSUME IInv, TxnBegin
    PROVE  IInv'
<1> DEFINE t == nextTxn
           e == Control(t, "TXN_BEGIN")
           a == AppendEntry(log, e)
<1>1. log \in LogType /\ t \in TxnIds /\ log.cur \in Files
  BY DEF IInv, TypeOK, TxnBegin, LogType
<1>2. e \in Entry
  BY <1>1, ControlType DEF TxnIds, EntryTypes
<1>3. a \in LogType /\ a.cur = log.cur /\ a.open = log.open
      /\ a.files[log.cur] = Append(log.files[log.cur], Stamped(log, e))
  BY <1>1, <1>2, AppendEntryFacts
<1>4. log' = Begun(a)
  BY <1>3, Zenon DEF TxnBegin, AfterBegin, Begun
<1>5. log' \in LogType /\ log'.cur = log.cur /\ log'.files = a.files
      /\ log'.open = [log.open EXCEPT ![log.cur] = log.open[log.cur] + 1]
  BY <1>3, <1>4, BegunFacts
<1>6. log'.open[1 - log'.cur] = 0 /\ log'.open[log'.cur] = Cardinality(active) + 1
  BY <1>1, <1>5, OtherFile DEF IInv, TypeOK, LogType
<1>7. t \notin active /\ IsFiniteSet(active)
  BY ActiveFinite DEF IInv, TypeOK
<1>8. Cardinality(active') = Cardinality(active) + 1
  BY <1>7, FS_AddElement DEF TxnBegin
<1>9. \A u \in active : BeginIn(a, log.cur, u)
  BY <1>1, <1>2, AppendKeepsBegin DEF IInv
<1>10. BeginIn(a, log.cur, t)
  <2> DEFINE s == log.files[log.cur]
  <2>1. s \in Seq(Entry)
    BY <1>1 DEF LogType
  <2>2. Stamped(log, e).type = "TXN_BEGIN" /\ Stamped(log, e).txn = t
    BY Zenon DEF Stamped, Control, MkEntry
  <2>3. Len(s) + 1 \in DOMAIN a.files[log.cur]
        /\ a.files[log.cur][Len(s) + 1] = Stamped(log, e)
    BY <1>3, <2>1
  <2> QED
    BY <2>2, <2>3 DEF BeginIn
<1>11. \A u \in active' : BeginIn(log', log'.cur, u)
  BY <1>5, <1>9, <1>10 DEF TxnBegin, BeginIn
<1>12. active' \subseteq TxnIds /\ nextTxn' \in 1 .. MaxTxn + 1
       /\ \A u \in active' : u < nextTxn'
  <2>1. active' = active \cup {t} /\ nextTxn' = t + 1
    BY DEF TxnBegin
  <2>2. \A u \in active : u < t
    BY DEF IInv
  <2>3. active \subseteq TxnIds
    BY DEF IInv, TypeOK
  <2>4. MaxTxn \in Nat
    BY WalLogAssumption
  <2> QED
    BY <1>1, <2>1, <2>2, <2>3, <2>4 DEF TxnIds
<1> QED
  BY <1>5, <1>6, <1>8, <1>11, <1>12 DEF IInv, TypeOK

\* Commit and abort: the counters move, then the checkpoint policy runs.
LEMMA EndIInv ==
    ASSUME IInv, NEW t \in active, NEW ty \in {"TXN_COMMIT", "TXN_ABORT"},
           log' = AfterEnd(log, t, ty), active' = active \ {t},
           nextTxn' = nextTxn
    PROVE  IInv'
<1> DEFINE a0 == AppendEntry(log, Control(t, ty))
           a == Ended(a0)
           s == IF ty = "TXN_COMMIT" THEN Sync(a) ELSE a
<1>1. log \in LogType /\ t \in TxnIds /\ log.cur \in Files
  BY DEF IInv, TypeOK, LogType
<1>2. Control(t, ty) \in Entry
  BY <1>1, ControlType DEF TxnIds, EntryTypes
<1>3. a0 \in LogType /\ a0.cur = log.cur /\ a0.open = log.open
  BY <1>1, <1>2, AppendEntryFacts
<1>4. IsFiniteSet(active) /\ Cardinality(active) # 0
      /\ Cardinality(active') = Cardinality(active) - 1
  <2>1. IsFiniteSet(active)
    BY ActiveFinite DEF IInv, TypeOK
  <2>2. Cardinality(active) # 0
    BY <2>1, FS_EmptySet
  <2> QED
    BY <2>1, <2>2, FS_RemoveElement
<1>5. a \in LogType /\ a.cur = log.cur /\ a.files = a0.files
      /\ a.open = [log.open EXCEPT ![log.cur] = log.open[log.cur] - 1]
  BY <1>3, <1>4, EndedFacts DEF IInv
<1>6. a.open[log.cur] = Cardinality(active') /\ a.open[1 - log.cur] = 0
  BY <1>1, <1>4, <1>5, OtherFile DEF IInv, TypeOK, LogType
<1>7. \A u \in active : BeginIn(a, log.cur, u)
  <2>1. \A u \in active : BeginIn(a0, log.cur, u)
    BY <1>1, <1>2, AppendKeepsBegin DEF IInv
  <2> QED
    BY <1>5, <2>1 DEF BeginIn
<1>8. s \in LogType /\ s.cur = log.cur /\ s.files = a.files /\ s.open = a.open
  BY <1>5, SyncFacts
<1>9. log' = MaybeRotate(s)
  <2>1. a = [a0 EXCEPT !.open[log.cur] = @ - 1, !.closed[log.cur] = @ + 1]
    BY <1>3, Zenon DEF Ended
  <2>2. AfterEnd(log, t, ty) =
            MaybeRotate(IF ty = "TXN_COMMIT"
                        THEN Sync([a0 EXCEPT !.open[log.cur] = @ - 1,
                                             !.closed[log.cur] = @ + 1])
                        ELSE [a0 EXCEPT !.open[log.cur] = @ - 1,
                                        !.closed[log.cur] = @ + 1])
    BY Zenon DEF AfterEnd
  <2> QED
    BY <2>1, <2>2, Zenon
<1>10. CASE s.open[s.cur] = 0 /\ s.open[s.cur] + s.closed[s.cur] >= Threshold
  <2>1. log' = Rotate(s)
    BY <1>9, <1>10 DEF MaybeRotate
  <2>2. log' \in LogType /\ log'.cur = 1 - log.cur /\ log'.open[log'.cur] = 0
        /\ log'.open[log.cur] = 0
    BY <1>8, <1>10, <2>1, RotateFacts
  <2>3. active' = {}
    <3>1. Cardinality(active') = 0
      BY <1>6, <1>8, <1>10
    <3>2. IsFiniteSet(active')
      BY <1>4, FS_Subset
    <3> QED
      BY <3>1, <3>2, FS_EmptySet
  <2>4. log'.open[1 - log'.cur] = 0
    BY <1>1, <2>2, OtherFile
  <2>5. Cardinality(active') = 0
    BY <2>3, FS_EmptySet
  <2> QED
    BY <2>2, <2>3, <2>4, <2>5 DEF IInv, TypeOK
<1>11. CASE ~(s.open[s.cur] = 0 /\ s.open[s.cur] + s.closed[s.cur] >= Threshold)
  <2>1. log' = s
    BY <1>9, <1>11 DEF MaybeRotate
  <2>2. \A u \in active' : BeginIn(log', log'.cur, u)
    BY <1>7, <1>8, <2>1 DEF BeginIn
  <2> QED
    BY <1>5, <1>6, <1>8, <2>1, <2>2 DEF IInv, TypeOK
<1> QED
  BY <1>10, <1>11

LEMMA CheckpointIInv ==
    ASSUME IInv, Checkpoint
    PROVE  IInv'
<1>1. log \in LogType
  BY DEF IInv, TypeOK
<1> QED
  BY <1>1, CheckpointFacts DEF Checkpoint, IInv, TypeOK, Files, LogType

LEMMA ClearIInv ==
    ASSUME IInv, Clear
    PROVE  IInv'
<1>1. Created \in LogType
  BY DEF Created, LogType, Files
<1>2. log'.cur = 0 /\ log'.open[1 - log'.cur] = 0 /\ log'.open[log'.cur] = 0
  BY DEF Clear, Created, Files
<1>3. Cardinality(active') = 0
  BY FS_EmptySet DEF Clear
<1> QED
  BY <1>1, <1>2, <1>3 DEF Clear, IInv, TypeOK

LEMMA NextIInv == IInv /\ [Next]_vars => IInv'
<1> SUFFICES ASSUME IInv, [Next]_vars PROVE IInv'
  OBVIOUS
<1>1. CASE TxnBegin
  BY <1>1, BeginIInv
<1>2. CASE \E t \in active : TxnCommit(t) \/ TxnAbort(t)
  BY <1>2, EndIInv DEF TxnCommit, TxnAbort
<1>3. CASE Checkpoint
  BY <1>3, CheckpointIInv
<1>4. CASE \E p \in Pages : FlushPage(p)
  <2> PICK p \in Pages : FlushPage(p)
    BY <1>4
  <2> MkEntry(0, "FLUSH_PAGE", p, NoImg, NoImg) \in Entry
    BY DEF MkEntry, Entry, EntryTypes
  <2> QED
    BY AppendStepIInv DEF FlushPage
<1>5. CASE \E t \in active, p \in Pages, i \in Images :
               PageImage(t, "PREWRITE", p, i) \/ PageImage(t, "WRITE", p, i)
  <2> PICK t \in active, p \in Pages, i \in Images :
          PageImage(t, "PREWRITE", p, i) \/ PageImage(t, "WRITE", p, i)
    BY <1>5
  <2> t \in Nat
    BY DEF IInv, TypeOK, TxnIds
  <2> \A ty \in {"PREWRITE", "WRITE"} : MkEntry(t, ty, p, i, NoImg) \in Entry
    BY DEF MkEntry, Entry, EntryTypes
  <2> QED
    BY AppendStepIInv DEF PageImage
<1>6. CASE \E t \in active, p \in Pages, i, j \in Images : Overwrite(t, p, i, j)
  <2> PICK t \in active, p \in Pages, i, j \in Images : Overwrite(t, p, i, j)
    BY <1>6
  <2> t \in Nat
    BY DEF IInv, TypeOK, TxnIds
  <2> MkEntry(t, "OVERWRITE", p, j, i) \in Entry
    BY DEF MkEntry, Entry, EntryTypes
  <2> QED
    BY AppendStepIInv DEF Overwrite
<1>7. CASE Clear
  BY <1>7, ClearIInv
<1>8. CASE UNCHANGED vars
  BY <1>8 DEF IInv, TypeOK, vars, BeginIn
<1> QED
  BY <1>1, <1>2, <1>3, <1>4, <1>5, <1>6, <1>7, <1>8 DEF Next

-----------------------------------------------------------------------------
(* Theorems.                                                               *)

\* The strengthened invariant holds in every reachable state.
THEOREM IInvHolds == Spec => []IInv
BY InitIInv, NextIInv, PTL DEF Spec

\* The log object always has its type: in particular no open/closed counter
\* of ham_log_append_txn_commit/abort ever goes below zero.
THEOREM TypeCorrect == Spec => []TypeOK
<1>1. IInv => TypeOK
  BY DEF IInv
<1> QED
  BY IInvHolds, <1>1, PTL

\* Rotation in ham_log_append_txn_commit/abort never truncates the
\* TXN_BEGIN of a running transaction.
THEOREM OpenTxnsRetainedThm == Spec => []OpenTxnsRetained
<1>1. IInv => OpenTxnsRetained
  BY DEF IInv, OpenTxnsRetained, Files, TypeOK, LogType
<1> QED
  BY IInvHolds, <1>1, PTL

=============================================================================
