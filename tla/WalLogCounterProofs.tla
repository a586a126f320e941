------------------------- MODULE WalLogCounterProofs -------------------------
(***************************************************************************)
(* Proof that the per-file counters of the log writer agree with the files *)
(* (CountersMatchLog), for every value of the constants.                   *)
(*                                                                         *)
(* The counters are maintained by increments and decrements alone, so the  *)
(* proof has to show that every step changes the set each counter stands   *)
(* for by exactly the element it counts.  Two facts that IInv does not     *)
(* state make that so: every TXN_BEGIN in the files belongs to a           *)
(* transaction id below nextTxn, so a new transaction has no entry yet;    *)
(* and no running transaction has its TXN_BEGIN in the other file, so an   *)
(* end moves a transaction only within the current file's counts.         *)
(***************************************************************************)
EXTENDS WalLogRefinementProofs

\* Every TXN_BEGIN in the files of lg is of a transaction id below n.
BelowNext(lg, n) ==
    \A f \in Files : \A i \in DOMAIN lg.files[f] :
        lg.files[f][i].type = "TXN_BEGIN" => lg.files[f][i].txn < n

BeginsBelowNext == BelowNext(log, nextTxn)

\* No running transaction has its TXN_BEGIN in the file that is not current.
ActiveNotInOther == \A t \in active : ~BeginIn(log, 1 - log.cur, t)

CInv ==
    /\ IInv
    /\ BeginsBelowNext
    /\ ActiveNotInOther
    /\ CountersMatchLog

\* The ended transactions with a TXN_BEGIN in file f of lg, when A runs.
ClosedSet(lg, A, f) == {t \in TxnIds \ A : BeginIn(lg, f, t)}

ClosedOK(lg, A) == \A f \in Files : lg.closed[f] = Cardinality(ClosedSet(lg, A, f))

\* Two log values hold the same TXN_BEGIN entries in each file.
SameBegins(l1, l2) ==
    \A f \in Files : \A t : BeginIn(l1, f, t) <=> BeginIn(l2, f, t)

-----------------------------------------------------------------------------
(* Where the TXN_BEGIN entries are after each operator.                    *)

\* An append adds a TXN_BEGIN to the current file exactly when the entry
\* appended is one.
LEMMA BeginInAppend ==
    ASSUME NEW lg \in LogType, NEW e \in Entry, NEW f \in Files, NEW t
    PROVE  BeginIn(AppendEntry(lg, e), f, t) <=>
               \/ BeginIn(lg, f, t)
               \/ f = lg.cur /\ e.type = "TXN_BEGIN" /\ e.txn = t
<1> DEFINE a == AppendEntry(lg, e)
           s == lg.files[f]
           st == Stamped(lg, e)
<1>1. st.type = e.type /\ st.txn = e.txn
  BY Zenon DEF Stamped, Entry
<1>2. CASE f = lg.cur
  <2>1. a.files[f] = Append(s, st) /\ s \in Seq(Entry)
    BY <1>2, AppendEntryFacts DEF LogType
  <2>2. DOMAIN a.files[f] = (DOMAIN s) \cup {Len(s) + 1}
        /\ (\A i \in DOMAIN s : a.files[f][i] = s[i])
        /\ a.files[f][Len(s) + 1] = st
        /\ Len(s) + 1 \notin DOMAIN s
    BY <2>1
  <2>3. ASSUME BeginIn(a, f, t)
        PROVE  BeginIn(lg, f, t) \/ (st.type = "TXN_BEGIN" /\ st.txn = t)
    <3>1. PICK i \in DOMAIN a.files[f] :
              a.files[f][i].type = "TXN_BEGIN" /\ a.files[f][i].txn = t
      BY <2>3 DEF BeginIn
    <3>2. CASE i \in DOMAIN s
      BY <2>2, <3>1, <3>2 DEF BeginIn
    <3>3. CASE i = Len(s) + 1
      BY <2>2, <3>1, <3>3
    <3> QED
      BY <2>2, <3>2, <3>3
  <2>4. ASSUME BeginIn(lg, f, t) PROVE BeginIn(a, f, t)
    <3>1. PICK i \in DOMAIN s : s[i].type = "TXN_BEGIN" /\ s[i].txn = t
      BY <2>4 DEF BeginIn
    <3> QED
      BY <2>2, <3>1 DEF BeginIn
  <2>5. ASSUME st.type = "TXN_BEGIN", st.txn = t PROVE BeginIn(a, f, t)
    <3>1. Len(s) + 1 \in DOMAIN a.files[f]
      BY <2>2
    <3> QED
      BY <2>2, <2>5, <3>1 DEF BeginIn
  <2> QED
    BY <1>1, <1>2, <2>3, <2>4, <2>5
<1>3. CASE f # lg.cur
  <2>1. f = 1 - lg.cur
    BY <1>3 DEF LogType, Files
  <2> QED
    BY <1>3, <2>1, AppendEntryFacts DEF BeginIn
<1> QED
  BY <1>2, <1>3

\* An entry other than TXN_BEGIN leaves the TXN_BEGIN entries alone.
LEMMA NonBeginAppendSame ==
    ASSUME NEW lg \in LogType, NEW e \in Entry, e.type # "TXN_BEGIN"
    PROVE  SameBegins(AppendEntry(lg, e), lg)
BY BeginInAppend DEF SameBegins

\* The file a rotation makes current is empty; the other keeps its
\* TXN_BEGIN entries (the CHECKPOINT is not one) and its closed counter.
LEMMA RotateBegins ==
    ASSUME NEW lg \in LogType
    PROVE  LET r == Rotate(lg) IN
           /\ r.cur = 1 - lg.cur
           /\ r.closed[r.cur] = 0
           /\ r.closed[lg.cur] = lg.closed[lg.cur]
           /\ \A u : ~BeginIn(r, r.cur, u)
           /\ \A u : BeginIn(r, lg.cur, u) <=> BeginIn(lg, lg.cur, u)
<1> DEFINE c == AfterCheckpoint(lg)
           n == 1 - lg.cur
           ck == Control(0, "CHECKPOINT")
<1>1. c \in LogType /\ c.cur = lg.cur /\ c.closed = lg.closed
      /\ c.files = AppendEntry(lg, ck).files
  BY CheckpointFacts, CheckpointRet
<1>2. n \in Files /\ n # lg.cur /\ lg.cur \in Files
  BY OtherFile DEF LogType
<1>3. /\ Rotate(lg).cur = n
      /\ Rotate(lg).files = [c.files EXCEPT ![n] = <<>>]
      /\ Rotate(lg).closed = [c.closed EXCEPT ![n] = 0]
  BY <1>1, Zenon DEF Rotate, LogType
<1>4. c.files \in [Files -> Seq(Entry)] /\ c.closed \in [Files -> Nat]
  BY <1>1 DEF LogType
<1>5. /\ Rotate(lg).files[n] = <<>>
      /\ Rotate(lg).files[lg.cur] = AppendEntry(lg, ck).files[lg.cur]
      /\ Rotate(lg).closed[n] = 0
      /\ Rotate(lg).closed[lg.cur] = lg.closed[lg.cur]
  BY <1>1, <1>2, <1>3, <1>4
<1>6. ck \in Entry /\ ck.type # "TXN_BEGIN"
  BY ControlType DEF EntryTypes, Control, MkEntry
<1>7. \A u : BeginIn(Rotate(lg), lg.cur, u) <=> BeginIn(lg, lg.cur, u)
  <2> SUFFICES ASSUME NEW u
               PROVE  BeginIn(Rotate(lg), lg.cur, u) <=> BeginIn(lg, lg.cur, u)
    OBVIOUS
  <2>1. BeginIn(Rotate(lg), lg.cur, u) <=> BeginIn(AppendEntry(lg, ck), lg.cur, u)
    BY <1>5 DEF BeginIn
  <2>2. BeginIn(AppendEntry(lg, ck), lg.cur, u) <=> BeginIn(lg, lg.cur, u)
    BY <1>2, <1>6, NonBeginAppendSame DEF SameBegins
  <2> QED
    BY <2>1, <2>2
<1>8. \A u : ~BeginIn(Rotate(lg), n, u)
  BY <1>5 DEF BeginIn
<1> QED
  BY <1>3, <1>5, <1>7, <1>8

\* The id of a TXN_BEGIN in a file is a natural.
LEMMA BeginTxnNat ==
    ASSUME NEW lg \in LogType, NEW f \in Files, NEW t, BeginIn(lg, f, t)
    PROVE  t \in Nat
<1>1. PICK i \in DOMAIN lg.files[f] : lg.files[f][i].txn = t
  BY DEF BeginIn
<1>2. lg.files[f] \in Seq(Entry)
  BY DEF LogType
<1>3. lg.files[f][i] \in Entry
  BY <1>1, <1>2
<1> QED
  BY <1>1, <1>3 DEF Entry

\* BelowNext read through BeginIn.
LEMMA BelowNextIff ==
    ASSUME NEW lg, NEW n
    PROVE  BelowNext(lg, n) <=> \A f \in Files : \A t : BeginIn(lg, f, t) => t < n
BY Zenon DEF BelowNext, BeginIn

-----------------------------------------------------------------------------
(* Counting.                                                               *)

\* The open counters follow from IInv once no running transaction has its
\* TXN_BEGIN in the other file: open[cur] counts all of them, open[other]
\* none.
LEMMA CountersFromParts ==
    ASSUME NEW lg \in LogType, NEW A \in SUBSET TxnIds,
           lg.open[1 - lg.cur] = 0, lg.open[lg.cur] = Cardinality(A),
           \A t \in A : BeginIn(lg, lg.cur, t),
           \A t \in A : ~BeginIn(lg, 1 - lg.cur, t),
           ClosedOK(lg, A)
    PROVE  \A f \in Files :
               /\ lg.open[f] = Cardinality({t \in A : BeginIn(lg, f, t)})
               /\ lg.closed[f] = Cardinality({t \in TxnIds \ A : BeginIn(lg, f, t)})
<1> SUFFICES ASSUME NEW f \in Files
             PROVE  lg.open[f] = Cardinality({t \in A : BeginIn(lg, f, t)})
  BY DEF ClosedOK, ClosedSet
<1>1. CASE f = lg.cur
  <2>1. {t \in A : BeginIn(lg, f, t)} = A
    BY <1>1
  <2> QED
    BY <1>1, <2>1
<1>2. CASE f # lg.cur
  <2>1. f = 1 - lg.cur
    BY <1>2 DEF LogType, Files
  <2>2. {t \in A : BeginIn(lg, f, t)} = {}
    BY <2>1
  <2> QED
    BY <2>1, <2>2, FS_EmptySet
<1> QED
  BY <1>1, <1>2

\* A step that keeps every TXN_BEGIN, the current index, the closed
\* counters and the transactions keeps the three added conjuncts.
LEMMA SameBeginsStep ==
    ASSUME CInv, SameBegins(log', log), log'.cur = log.cur,
           log'.closed = log.closed, UNCHANGED <<active, nextTxn>>
    PROVE  BeginsBelowNext' /\ ActiveNotInOther' /\ ClosedOK(log', active')
<1>1. log.cur \in Files /\ 1 - log.cur \in Files
  BY OtherFile DEF CInv, IInv, TypeOK, LogType
<1>2. BeginsBelowNext'
  <2>1. \A f \in Files : \A t : BeginIn(log, f, t) => t < nextTxn
    BY BelowNextIff DEF CInv, BeginsBelowNext
  <2>2. \A f \in Files : \A t : BeginIn(log', f, t) => t < nextTxn'
    BY <2>1 DEF SameBegins
  <2> QED
    BY <2>2, BelowNextIff DEF BeginsBelowNext
<1>3. ActiveNotInOther'
  BY <1>1 DEF CInv, ActiveNotInOther, SameBegins
<1>4. ClosedOK(log', active')
  <2> SUFFICES ASSUME NEW f \in Files
               PROVE  log'.closed[f] = Cardinality(ClosedSet(log', active', f))
    BY DEF ClosedOK
  <2>1. ClosedSet(log', active', f) = ClosedSet(log, active, f)
    BY DEF SameBegins, ClosedSet
  <2> QED
    BY <2>1 DEF CInv, CountersMatchLog, ClosedSet
<1> QED
  BY <1>2, <1>3, <1>4

\* ham_log_append_txn_begin: the new transaction's TXN_BEGIN is the first
\* entry of that id, and it is running, so no closed count moves.
LEMMA BeginCInv ==
    ASSUME CInv, TxnBegin
    PROVE  BeginsBelowNext' /\ ActiveNotInOther' /\ ClosedOK(log', active')
<1> DEFINE t == nextTxn
           e == Control(t, "TXN_BEGIN")
           a == AppendEntry(log, e)
<1>1. log \in LogType /\ t \in TxnIds /\ t \in Nat /\ log.cur \in Files
      /\ 1 - log.cur \in Files /\ 1 - log.cur # log.cur
  BY OtherFile DEF CInv, IInv, TypeOK, TxnBegin, LogType, TxnIds
<1>2. e \in Entry /\ e.type = "TXN_BEGIN" /\ e.txn = t
  BY <1>1, ControlType DEF EntryTypes, Control, MkEntry
<1>3. a \in LogType /\ a.cur = log.cur /\ a.closed = log.closed
  BY <1>1, <1>2, AppendEntryFacts
<1>4. log' = Begun(a)
  BY <1>3, Zenon DEF TxnBegin, AfterBegin, Begun
<1>5. log'.files = a.files /\ log'.cur = log.cur /\ log'.closed = log.closed
  <2>1. Begun(a).closed = a.closed
    BY <1>3, Zenon DEF Begun, LogType
  <2> QED
    BY <1>3, <1>4, <2>1, BegunFacts
<1>6. \A f \in Files : \A u :
          BeginIn(log', f, u) <=> BeginIn(log, f, u) \/ (f = log.cur /\ u = t)
  <2> SUFFICES ASSUME NEW f \in Files, NEW u
               PROVE  BeginIn(log', f, u) <=> BeginIn(log, f, u) \/ (f = log.cur /\ u = t)
    OBVIOUS
  <2>1. BeginIn(log', f, u) <=> BeginIn(a, f, u)
    BY <1>5 DEF BeginIn
  <2> QED
    BY <1>1, <1>2, <2>1, BeginInAppend
<1>7. \A f \in Files : \A u : BeginIn(log, f, u) => u < t
  BY BelowNextIff DEF CInv, BeginsBelowNext
<1>8. BeginsBelowNext'
  <2>1. \A f \in Files : \A u : BeginIn(log', f, u) => u < nextTxn'
    <3> SUFFICES ASSUME NEW f \in Files, NEW u, BeginIn(log', f, u)
                 PROVE  u < t + 1
      BY DEF TxnBegin
    <3>1. u \in Nat
      BY <1>5, <1>3, BeginTxnNat DEF BeginIn
    <3> QED
      BY <1>1, <1>6, <1>7, <3>1
  <2> QED
    BY <2>1, BelowNextIff DEF BeginsBelowNext
<1>9. ActiveNotInOther'
  <2> SUFFICES ASSUME NEW u \in active' PROVE ~BeginIn(log', 1 - log.cur, u)
    BY <1>5 DEF ActiveNotInOther
  <2>1. ~BeginIn(log, 1 - log.cur, u)
    <3>1. CASE u \in active
      BY <3>1 DEF CInv, ActiveNotInOther
    <3>2. CASE u = t
      BY <1>1, <1>7, <3>2
    <3> QED
      BY <3>1, <3>2 DEF TxnBegin
  <2> QED
    BY <1>1, <1>6, <2>1
<1>10. ClosedOK(log', active')
  <2> SUFFICES ASSUME NEW f \in Files
               PROVE  log'.closed[f] = Cardinality(ClosedSet(log', active', f))
    BY DEF ClosedOK
  <2>1. ClosedSet(log', active', f) = ClosedSet(log, active, f)
    <3>1. active' = active \cup {t}
      BY DEF TxnBegin
    <3>2. \A u \in TxnIds : u \in ClosedSet(log, active, f) => u # t
      BY <1>1, <1>7 DEF ClosedSet, TxnIds
    <3> QED
      BY <1>6, <3>1, <3>2 DEF ClosedSet
  <2> QED
    BY <1>5, <2>1 DEF CInv, CountersMatchLog, ClosedSet
<1> QED
  BY <1>8, <1>9, <1>10

\* ham_log_clear with no transaction running: both files empty, every
\* counter zero.
LEMMA ClearCInv ==
    ASSUME CInv, Clear
    PROVE  BeginsBelowNext' /\ ActiveNotInOther' /\ ClosedOK(log', active')
<1>1. \A f \in Files : \A u : ~BeginIn(log', f, u)
  BY DEF Clear, Created, Files, BeginIn
<1>2. \A f \in Files : ClosedSet(log', active', f) = {} /\ log'.closed[f] = 0
  BY <1>1 DEF ClosedSet, Clear, Created
<1>3. BeginsBelowNext'
  BY <1>1, BelowNextIff DEF BeginsBelowNext
<1>4. ClosedOK(log', active')
  BY <1>2, FS_EmptySet DEF ClosedOK
<1> QED
  BY <1>3, <1>4 DEF Clear, ActiveNotInOther

\* ham_log_append_txn_commit/abort: the ending transaction moves from the
\* open to the closed count of the current file, where its TXN_BEGIN is;
\* a rotation then starts an empty file with zero counts and keeps the
\* closed count of the file it leaves.
LEMMA EndCInv ==
    ASSUME CInv, NEW t \in active, NEW ty \in {"TXN_COMMIT", "TXN_ABORT"},
           log' = AfterEnd(log, t, ty), active' = active \ {t},
           nextTxn' = nextTxn
    PROVE  BeginsBelowNext' /\ ActiveNotInOther' /\ ClosedOK(log', active')
<1> DEFINE a0 == AppendEntry(log, Control(t, ty))
           a == Ended(a0)
           s == IF ty = "TXN_COMMIT" THEN Sync(a) ELSE a
           c == log.cur
<1>1. log \in LogType /\ t \in TxnIds /\ c \in Files /\ 1 - c \in Files
      /\ 1 - c # c /\ active \subseteq TxnIds
  BY OtherFile DEF CInv, IInv, TypeOK, LogType
<1>2. Control(t, ty) \in Entry /\ Control(t, ty).type # "TXN_BEGIN"
  <2>1. t \in Nat /\ ty \in EntryTypes
    BY <1>1 DEF TxnIds, EntryTypes
  <2>2. Control(t, ty).type = ty
    BY DEF Control, MkEntry
  <2> QED
    BY <2>1, <2>2, ControlType
<1>3. a0 \in LogType /\ a0.cur = c /\ a0.open = log.open /\ a0.closed = log.closed
      /\ SameBegins(a0, log)
  BY <1>1, <1>2, AppendEntryFacts, NonBeginAppendSame
<1>4. log.open[c] # 0
  <2>1. IsFiniteSet(active)
    BY <1>1, ActiveFinite
  <2> QED
    BY <2>1, FS_EmptySet DEF CInv, IInv
<1>5. a \in LogType /\ a.cur = c /\ a.files = a0.files
      /\ a.closed = [log.closed EXCEPT ![c] = log.closed[c] + 1]
  BY <1>3, <1>4, EndedFacts
<1>6. s \in LogType /\ s.cur = c /\ s.files = a0.files /\ s.closed = a.closed
  <2>1. Sync(a).closed = a.closed
    BY <1>5, SyncFacts
  <2> QED
    BY <1>5, <2>1, SyncFacts
<1>7. log' = MaybeRotate(s)
  <2>1. a = [a0 EXCEPT !.open[c] = @ - 1, !.closed[c] = @ + 1]
    BY <1>3, Zenon DEF Ended
  <2>2. AfterEnd(log, t, ty) =
            MaybeRotate(IF ty = "TXN_COMMIT"
                        THEN Sync([a0 EXCEPT !.open[c] = @ - 1, !.closed[c] = @ + 1])
                        ELSE [a0 EXCEPT !.open[c] = @ - 1, !.closed[c] = @ + 1])
    BY Zenon DEF AfterEnd
  <2> QED
    BY <2>1, <2>2, Zenon
<1>8. SameBegins(s, log)
  BY <1>3, <1>6 DEF SameBegins, BeginIn
<1>9. \A f \in Files : \A u : BeginIn(s, f, u) => u < nextTxn
  BY <1>8, BelowNextIff DEF CInv, BeginsBelowNext, SameBegins
<1>10. ClosedOK(s, active')
  <2> SUFFICES ASSUME NEW f \in Files
               PROVE  s.closed[f] = Cardinality(ClosedSet(s, active', f))
    BY DEF ClosedOK
  <2>1. log.closed[f] = Cardinality(ClosedSet(log, active, f))
    BY DEF CInv, CountersMatchLog, ClosedSet
  <2>2. CASE f = c
    <3>1. ClosedSet(s, active', f) = ClosedSet(log, active, f) \cup {t}
      <4>1. BeginIn(log, c, t)
        BY DEF CInv, IInv
      <4> QED
        BY <1>1, <1>8, <2>2, <4>1 DEF ClosedSet, SameBegins
    <3>2. t \notin ClosedSet(log, active, f) /\ IsFiniteSet(ClosedSet(log, active, f))
      <4>1. ClosedSet(log, active, f) \subseteq TxnIds
        BY DEF ClosedSet
      <4> QED
        BY <4>1, ActiveFinite DEF ClosedSet
    <3>3. Cardinality(ClosedSet(s, active', f)) = Cardinality(ClosedSet(log, active, f)) + 1
      BY <3>1, <3>2, FS_AddElement
    <3>4. s.closed[f] = log.closed[f] + 1
      BY <1>1, <1>6, <1>5, <2>2 DEF LogType
    <3> QED
      BY <2>1, <3>3, <3>4
  <2>3. CASE f # c
    <3>1. ~BeginIn(log, f, t)
      <4>1. f = 1 - c
        BY <1>1, <2>3 DEF Files
      <4> QED
        BY <4>1 DEF CInv, ActiveNotInOther
    <3>2. ClosedSet(s, active', f) = ClosedSet(log, active, f)
      BY <1>8, <3>1 DEF ClosedSet, SameBegins
    <3>3. s.closed[f] = log.closed[f]
      BY <1>1, <1>6, <1>5, <2>3 DEF LogType
    <3> QED
      BY <2>1, <3>2, <3>3
  <2> QED
    BY <2>2, <2>3
<1>11. IInv'
  BY EndIInv DEF CInv
<1>12. CASE s.open[s.cur] = 0 /\ s.open[s.cur] + s.closed[s.cur] >= Threshold
  <2>1. log' = Rotate(s)
    BY <1>7, <1>12 DEF MaybeRotate
  <2>2. /\ log'.cur = 1 - c
        /\ log'.closed[log'.cur] = 0
        /\ log'.closed[c] = s.closed[c]
        /\ \A u : ~BeginIn(log', log'.cur, u)
        /\ \A u : BeginIn(log', c, u) <=> BeginIn(s, c, u)
    BY <1>6, <2>1, RotateBegins
  <2>3. active' = {}
    <3>1. log'.open[log'.cur] = 0
      BY <1>6, <2>1, RotateFacts
    <3>2. Cardinality(active') = 0
      BY <1>11, <3>1 DEF IInv
    <3>3. IsFiniteSet(active')
      BY <1>1, ActiveFinite
    <3> QED
      BY <3>2, <3>3, FS_EmptySet
  <2>4. \A f \in Files : f = c \/ f = log'.cur
    BY <1>1, <2>2 DEF Files
  <2>5. BeginsBelowNext'
    <3>1. \A f \in Files : \A u : BeginIn(log', f, u) => u < nextTxn'
      BY <1>9, <2>2, <2>4
    <3> QED
      BY <3>1, BelowNextIff DEF BeginsBelowNext
  <2>6. ClosedOK(log', active')
    <3> SUFFICES ASSUME NEW f \in Files
                 PROVE  log'.closed[f] = Cardinality(ClosedSet(log', active', f))
      BY DEF ClosedOK
    <3>1. CASE f = c
      <4>1. ClosedSet(log', active', f) = ClosedSet(s, active', f)
        BY <2>2, <3>1 DEF ClosedSet
      <4> QED
        BY <1>10, <2>2, <3>1, <4>1 DEF ClosedOK
    <3>2. CASE f = log'.cur
      <4>1. ClosedSet(log', active', f) = {}
        BY <2>2, <3>2 DEF ClosedSet
      <4> QED
        BY <2>2, <3>2, <4>1, FS_EmptySet
    <3> QED
      BY <2>4, <3>1, <3>2
  <2> QED
    BY <2>3, <2>5, <2>6 DEF ActiveNotInOther
<1>13. CASE ~(s.open[s.cur] = 0 /\ s.open[s.cur] + s.closed[s.cur] >= Threshold)
  <2>1. log' = s
    BY <1>7, <1>13 DEF MaybeRotate
  <2>2. BeginsBelowNext'
    BY <1>9, <2>1, BelowNextIff DEF BeginsBelowNext
  <2>3. ActiveNotInOther'
    <3> SUFFICES ASSUME NEW u \in active' PROVE ~BeginIn(s, 1 - c, u)
      BY <1>6, <2>1 DEF ActiveNotInOther
    <3>1. ~BeginIn(log, 1 - c, u)
      BY DEF CInv, ActiveNotInOther
    <3> QED
      BY <1>1, <1>8, <3>1 DEF SameBegins
  <2> QED
    BY <1>10, <2>1, <2>2, <2>3
<1> QED
  BY <1>12, <1>13

\* A step that appends one entry other than TXN_BEGIN.
LEMMA NonBeginAppendCInv ==
    ASSUME CInv, NEW e \in Entry, e.type # "TXN_BEGIN",
           log' = AppendEntry(log, e), UNCHANGED <<active, nextTxn>>
    PROVE  BeginsBelowNext' /\ ActiveNotInOther' /\ ClosedOK(log', active')
<1>1. log \in LogType
  BY DEF CInv, IInv, TypeOK
<1> QED
  BY <1>1, AppendEntryFacts, NonBeginAppendSame, SameBeginsStep

LEMMA NextCInv == CInv /\ [Next]_vars => CInv'
<1> SUFFICES ASSUME CInv, [Next]_vars PROVE CInv'
  OBVIOUS
<1>1. IInv'
  BY NextIInv DEF CInv
<1>2. BeginsBelowNext' /\ ActiveNotInOther' /\ ClosedOK(log', active')
  <2>1. CASE TxnBegin
    BY <2>1, BeginCInv
  <2>2. CASE \E t \in active : TxnCommit(t) \/ TxnAbort(t)
    BY <2>2, EndCInv DEF TxnCommit, TxnAbort
  <2>3. CASE Checkpoint
    <3>1. log \in LogType
      BY DEF CInv, IInv, TypeOK
    <3>2. Control(0, "CHECKPOINT") \in Entry /\ Control(0, "CHECKPOINT").type # "TXN_BEGIN"
      BY ControlType DEF EntryTypes, Control, MkEntry
    <3>3. SameBegins(log', log) /\ log'.cur = log.cur /\ log'.closed = log.closed
      <4>1. SameBegins(AppendEntry(log, Control(0, "CHECKPOINT")), log)
        BY <3>1, <3>2, NonBeginAppendSame
      <4>2. log'.files = AppendEntry(log, Control(0, "CHECKPOINT")).files
            /\ log'.cur = log.cur /\ log'.closed = log.closed
        BY <2>3, <3>1, CheckpointRet, CheckpointFacts DEF Checkpoint
      <4> QED
        BY <4>1, <4>2 DEF SameBegins, BeginIn
    <3> QED
      BY <2>3, <3>3, SameBeginsStep DEF Checkpoint
  <2>4. CASE \E p \in Pages : FlushPage(p)
    <3> PICK p \in Pages : FlushPage(p)
      BY <2>4
    <3> MkEntry(0, "FLUSH_PAGE", p, NoImg, NoImg) \in Entry
      BY DEF MkEntry, Entry, EntryTypes
    <3> QED
      BY NonBeginAppendCInv DEF FlushPage, MkEntry
  <2>5. CASE \E t \in active, p \in Pages, i \in Images :
                 PageImage(t, "PREWRITE", p, i) \/ PageImage(t, "WRITE", p, i)
    <3> PICK t \in active, p \in Pages, i \in Images :
            PageImage(t, "PREWRITE", p, i) \/ PageImage(t, "WRITE", p, i)
      BY <2>5
    <3> t \in Nat
      BY DEF CInv, IInv, TypeOK, TxnIds
    <3> \A ty \in {"PREWRITE", "WRITE"} :
            MkEntry(t, ty, p, i, NoImg) \in Entry /\ MkEntry(t, ty, p, i, NoImg).type = ty
      BY DEF MkEntry, Entry, EntryTypes
    <3> QED
      BY NonBeginAppendCInv DEF PageImage
  <2>6. CASE \E t \in active, p \in Pages, i, j \in Images : Overwrite(t, p, i, j)
    <3> PICK t \in active, p \in Pages, i, j \in Images : Overwrite(t, p, i, j)
      BY <2>6
    <3> t \in Nat
      BY DEF CInv, IInv, TypeOK, TxnIds
    <3> MkEntry(t, "OVERWRITE", p, j, i) \in Entry
      BY DEF MkEntry, Entry, EntryTypes
    <3> QED
      BY NonBeginAppendCInv DEF Overwrite, MkEntry
  <2>7. CASE Clear
    BY <2>7, ClearCInv
  <2>8. CASE UNCHANGED vars
    <3>1. SameBegins(log', log) /\ log'.cur = log.cur /\ log'.closed = log.closed
      BY <2>8 DEF vars, SameBegins, BeginIn
    <3> QED
      BY <2>8, <3>1, SameBeginsStep DEF vars
  <2> QED
    BY <2>1, <2>2, <2>3, <2>4, <2>5, <2>6, <2>7, <2>8 DEF Next
<1>3. CountersMatchLog'
  <2>1. log' \in LogType /\ active' \subseteq TxnIds
        /\ log'.open[1 - log'.cur] = 0 /\ log'.open[log'.cur] = Cardinality(active')
        /\ \A t \in active' : BeginIn(log', log'.cur, t)
    BY <1>1 DEF IInv, TypeOK
  <2> QED
    BY <1>2, <2>1, CountersFromParts DEF ActiveNotInOther, CountersMatchLog
<1> QED
  BY <1>1, <1>2, <1>3 DEF CInv

LEMMA InitCInv == Init => CInv
<1> SUFFICES ASSUME Init PROVE CInv
  OBVIOUS
<1>1. IInv
  BY InitIInv
<1>2. \A f \in Files : \A u : ~BeginIn(log, f, u)
  BY DEF Init, Created, Files, BeginIn
<1>3. BeginsBelowNext
  BY <1>2, BelowNextIff DEF BeginsBelowNext
<1>4. CountersMatchLog
  <2>1. \A f \in Files : log.open[f] = 0 /\ log.closed[f] = 0
    BY DEF Init, Created
  <2> QED
    BY <1>2, <2>1, FS_EmptySet DEF CountersMatchLog
<1>5. ActiveNotInOther
  BY DEF Init, ActiveNotInOther
<1> QED
  BY <1>1, <1>3, <1>4, <1>5 DEF CInv

-----------------------------------------------------------------------------
(* Theorems.                                                               *)

\* The counters that ham_log_append_txn_begin and _commit/_abort keep by
\* increment and decrement (log_get_open_txn, log_get_closed_txn) always
\* equal the number of running and of ended transactions whose TXN_BEGIN is
\* in each file, across rotations and ham_log_clear; the checkpoint policy,
\* which reads only these counters, therefore decides on what the files
\* really hold.
THEOREM CountersMatchLogThm == Spec => []CountersMatchLog
<1>1. CInv => CountersMatchLog
  BY DEF CInv
<1> QED
  BY InitCInv, NextCInv, <1>1, PTL DEF Spec

=============================================================================
