-------------------------- MODULE WalIteratorProofs --------------------------
(***************************************************************************)
(* Proof that a walk of the reopened log returns the retained entries      *)
(* newest first, then the sentinel (WalkIsNewestFirst), for every value of *)
(* the constants.                                                          *)
(*                                                                         *)
(* While the log is written, WalLog's invariants hold.  From the reopen on *)
(* the files do not change, and the iterator's position is a function of   *)
(* the number k of entries returned so far: offset Len(A) - k of the newer *)
(* file A, or, once A is exhausted, offset Len(A) + Len(B) - k of the      *)
(* other file B, and offset 0 of B for good once both are.  The newer file *)
(* that ham_log_open infers from the last LSNs is the current one, or the  *)
(* other one when the current file is empty: that is where the LSN         *)
(* contiguity proved for WalLog (LsnInv) is needed.                        *)
(***************************************************************************)
EXTENDS WalIterator, WalLogRefinementProofs

\* The file a walk starts in, and the other one.
FileA == log.files[Newest(log)]
FileB == log.files[1 - Newest(log)]

\* The k-th entry, counted from 1, of a walk of file a backwards, then of
\* file b backwards, then of sentinels.
WalkOf(a, b, k) ==
    IF k <= Len(a) THEN a[Len(a) - k + 1]
    ELSE IF k <= Len(a) + Len(b) THEN b[Len(a) + Len(b) - k + 1]
    ELSE Sentinel

WalkAt(k) == WalkOf(FileA, FileB, k)

\* The retained log o \o c reversed, then m sentinels.
Walked(o, c, m) == Reverse(o \o c) \o [i \in 1 .. m |-> Sentinel]

\* The offset of the iterator after k entries of a walk of a, then b, were
\* returned.
OffsetAfter(a, b, k) ==
    IF k <= Len(a) THEN Len(a) - k
    ELSE IF k <= Len(a) + Len(b) THEN Len(a) + Len(b) - k
    ELSE 0

\* The iterator record log_iterator_t.
IterRec == [fdidx : Files, offset : Nat, fresh : BOOLEAN, other : BOOLEAN]

\* The iterator `it' after k entries were returned of a walk that started
\* in file n, holding a, of a pair whose other file holds b: it is in file
\* n until a is exhausted, then in the other file.
PosIs(it, n, a, b, k) ==
    /\ it \in IterRec
    /\ it.fresh = FALSE
    /\ it.other = (Len(a) < k)
    /\ it.fdidx = IF Len(a) < k THEN 1 - n ELSE n
    /\ it.offset = OffsetAfter(a, b, k)

PosAfter(it, k) == PosIs(it, Newest(log), FileA, FileB, k)

ReadInv ==
    /\ active = {}
    /\ Len(out) <= MaxLsn + 2
    /\ \A i \in 1 .. Len(out) : out[i] = WalkAt(i)
    /\ \/ iter = Zeroed /\ out = <<>>
       \/ PosAfter(iter, Len(out))

JInv ==
    /\ log \in LogType
    /\ nextTxn \in 1 .. MaxTxn + 1
    /\ LsnInv
    /\ phase \in {"write", "read"}
    /\ out \in Seq(Entry)
    /\ phase = "write" => RInv /\ iter = Zeroed /\ out = <<>>
    /\ phase = "read" => ReadInv

-----------------------------------------------------------------------------
(* Lemmas about the files of a log whose LSNs are contiguous.              *)

\* The retained log is the other file followed by the current one.
LEMMA RetainedParts ==
    ASSUME log \in LogType
    PROVE  LET O == log.files[1 - log.cur]
               C == log.files[log.cur]
           IN  /\ O \in Seq(Entry) /\ C \in Seq(Entry)
               /\ Retained \in Seq(Entry)
               /\ Len(Retained) = Len(O) + Len(C)
               /\ \A i \in 1 .. Len(O) + Len(C) :
                      Retained[i] = IF i <= Len(O) THEN O[i] ELSE C[i - Len(O)]
<1>1. log.cur \in Files /\ 1 - log.cur \in Files
  BY DEF LogType, Files
<1>2. log.files[1 - log.cur] \in Seq(Entry) /\ log.files[log.cur] \in Seq(Entry)
  BY <1>1 DEF LogType
<1> QED
  BY <1>2, ConcatProperties DEF Retained

\* Two files read one after the other with consecutive LSNs ending below n:
\* the last entry of the second carries LSN n - 1 > 0, and the last entry
\* of the first an LSN below it.
LEMMA LastLsnsOfPair ==
    ASSUME NEW O \in Seq(Entry), NEW C \in Seq(Entry), NEW n \in Nat,
           Len(O) + Len(C) < n,
           \A i \in 1 .. Len(O) + Len(C) :
               (O \o C)[i].lsn = n - (Len(O) + Len(C)) + i - 1,
           C # <<>>
    PROVE  /\ C[Len(C)].lsn = n - 1
           /\ C[Len(C)].lsn \in Nat
           /\ C[Len(C)].lsn > 0
           /\ O # <<>> => O[Len(O)].lsn < C[Len(C)].lsn
<1>1. Len(O) \in Nat /\ Len(C) \in Nat /\ Len(C) > 0
  OBVIOUS
<1>2. C[Len(C)].lsn = n - 1
  <2>1. (O \o C)[Len(O) + Len(C)] = C[Len(C)]
    BY <1>1, ConcatProperties
  <2>2. Len(O) + Len(C) \in 1 .. Len(O) + Len(C)
    BY <1>1
  <2>3. (O \o C)[Len(O) + Len(C)].lsn = n - 1
    BY <2>2
  <2> QED
    BY <2>1, <2>3
<1>3. ASSUME O # <<>> PROVE O[Len(O)].lsn = n - Len(C) - 1
  <2>1. Len(O) > 0
    BY <1>3
  <2>2. (O \o C)[Len(O)] = O[Len(O)]
    BY <1>1, <2>1, ConcatProperties
  <2> QED
    BY <1>1, <2>1, <2>2
<1> QED
  BY <1>1, <1>2, <1>3

\* The newer of two files, by the LSN of their last entries.
LEMMA NewestByLastLsn ==
    ASSUME NEW lg, NEW c \in Files,
           LastLsn(lg, c) \in Nat, LastLsn(lg, 1 - c) \in Nat,
           LastLsn(lg, 1 - c) < LastLsn(lg, c)
    PROVE  Newest(lg) = c
BY DEF Newest, Files

\* The file ham_log_open picks as the newer one is the current file, unless
\* the current file is empty.
LEMMA NewestFacts ==
    ASSUME log \in LogType, LsnInv
    PROVE  /\ Newest(log) \in Files
           /\ Newest(log) # log.cur => log.files[log.cur] = <<>>
<1>1. Newest(log) \in Files
  BY DEF Newest, Files
<1>2. ASSUME log.files[log.cur] # <<>> PROVE Newest(log) = log.cur
  <2>1. /\ log.files[1 - log.cur] \in Seq(Entry)
        /\ log.files[log.cur] \in Seq(Entry)
        /\ Len(Retained) = Len(log.files[1 - log.cur]) + Len(log.files[log.cur])
        /\ DOMAIN Retained = 1 .. Len(Retained)
    BY RetainedParts, LenProperties
  <2>2. log.lsn \in Nat /\ log.cur \in Files
    BY DEF LogType
  <2>3. \A i \in 1 .. Len(log.files[1 - log.cur]) + Len(log.files[log.cur]) :
            (log.files[1 - log.cur] \o log.files[log.cur])[i].lsn
              = log.lsn - (Len(log.files[1 - log.cur]) + Len(log.files[log.cur])) + i - 1
    BY <2>1 DEF LsnInv, LsnContiguous, Retained
  <2>4. Len(log.files[1 - log.cur]) + Len(log.files[log.cur]) < log.lsn
    BY <2>1 DEF LsnInv
  <2>5. /\ log.files[log.cur][Len(log.files[log.cur])].lsn \in Nat
        /\ log.files[log.cur][Len(log.files[log.cur])].lsn > 0
        /\ log.files[1 - log.cur] # <<>> =>
             log.files[1 - log.cur][Len(log.files[1 - log.cur])].lsn
               < log.files[log.cur][Len(log.files[log.cur])].lsn
    BY <1>2, <2>1, <2>2, <2>3, <2>4, LastLsnsOfPair, Zenon
  <2>6. LastLsn(log, log.cur) = log.files[log.cur][Len(log.files[log.cur])].lsn
    BY <1>2 DEF LastLsn
  <2>7. CASE log.files[1 - log.cur] = <<>>
    <3>1. LastLsn(log, 1 - log.cur) = 0
      BY <2>7 DEF LastLsn
    <3> QED
      BY <2>2, <2>5, <2>6, <3>1, NewestByLastLsn
  <2>8. CASE log.files[1 - log.cur] # <<>>
    <3>1. LastLsn(log, 1 - log.cur) = log.files[1 - log.cur][Len(log.files[1 - log.cur])].lsn
      BY <2>8 DEF LastLsn
    <3>2. log.files[1 - log.cur][Len(log.files[1 - log.cur])].lsn \in Nat
      <4>1. 1 - log.cur \in Files /\ Len(log.files[1 - log.cur]) \in 1 .. Len(log.files[1 - log.cur])
        BY <2>1, <2>2, <2>8, LenProperties DEF Files
      <4>2. log.files[1 - log.cur][Len(log.files[1 - log.cur])] \in Entry
        BY <2>1, <4>1
      <4> QED
        BY <4>2 DEF Entry
    <3> QED
      BY <2>2, <2>5, <2>6, <2>8, <3>1, <3>2, NewestByLastLsn
  <2> QED
    BY <2>7, <2>8
<1> QED
  BY <1>1, <1>2

\* With one file empty, it does not matter which file a walk starts in.
LEMMA WalkOfEmpty ==
    ASSUME NEW O \in Seq(Entry), NEW i \in Nat \ {0}
    PROVE  WalkOf(<<>>, O, i) = WalkOf(O, <<>>, i)
BY DEF WalkOf

\* The expected walk, the retained log O \o C reversed and then sentinels,
\* is a walk of C and then of O.
LEMMA ReversedPair ==
    ASSUME NEW O \in Seq(Entry), NEW C \in Seq(Entry), NEW m \in Nat
    PROVE  /\ Walked(O, C, m) \in Seq(Entry)
           /\ Len(Walked(O, C, m)) = Len(C) + Len(O) + m
           /\ \A i \in 1 .. Len(Walked(O, C, m)) : Walked(O, C, m)[i] = WalkOf(C, O, i)
<1> DEFINE R == O \o C
           V == Reverse(R)
           Z == [i \in 1 .. m |-> Sentinel]
<1>1. R \in Seq(Entry) /\ Len(R) = Len(O) + Len(C)
      /\ \A j \in 1 .. Len(R) : R[j] = IF j <= Len(O) THEN O[j] ELSE C[j - Len(O)]
  BY ConcatProperties
<1>2. V \in Seq(Entry) /\ Len(V) = Len(R) /\ \A j \in 1 .. Len(R) : V[j] = R[Len(R) - j + 1]
  <2>1. Len(R) \in Nat
    BY <1>1, LenProperties
  <2>2. \A j \in 1 .. Len(R) : R[Len(R) - j + 1] \in Entry
    BY <1>1, <2>1, LenProperties
  <2> QED
    BY <2>1, <2>2 DEF Reverse
<1>3. Sentinel \in Entry
  BY WalLogAssumption DEF Sentinel, Control, MkEntry, Entry, EntryTypes
<1>4. Z \in Seq(Entry) /\ Len(Z) = m
  BY <1>3
<1>7. V \o Z \in Seq(Entry)
  BY <1>2, <1>4, ConcatProperties
<1>5. Len(V \o Z) = Len(O) + Len(C) + m
      /\ \A i \in 1 .. Len(V) + m : (V \o Z)[i] = IF i <= Len(V) THEN V[i] ELSE Z[i - Len(V)]
  BY <1>1, <1>2, <1>4, ConcatProperties
<1>6. Len(O) \in Nat /\ Len(C) \in Nat
  BY LenProperties
<1> QED
  BY <1>1, <1>2, <1>5, <1>6, <1>7 DEF WalkOf, Walked

\* The same walk when the current file C is empty and the walk starts in O.
LEMMA ReversedOne ==
    ASSUME NEW O \in Seq(Entry), NEW m \in Nat
    PROVE  /\ Len(Walked(O, <<>>, m)) = Len(O) + Len(<<>>) + m
           /\ \A i \in 1 .. Len(Walked(O, <<>>, m)) :
                  Walked(O, <<>>, m)[i] = WalkOf(O, <<>>, i)
<1>1. <<>> \in Seq(Entry)
  OBVIOUS
<1>2. /\ Len(Walked(O, <<>>, m)) = Len(<<>>) + Len(O) + m
      /\ \A i \in 1 .. Len(Walked(O, <<>>, m)) :
             Walked(O, <<>>, m)[i] = WalkOf(<<>>, O, i)
  BY <1>1, ReversedPair
<1>3. Len(O) \in Nat
  BY LenProperties
<1>4. Len(Walked(O, <<>>, m)) = Len(O) + Len(<<>>) + m
  BY <1>2, <1>3
<1>5. \A i \in 1 .. Len(Walked(O, <<>>, m)) :
          Walked(O, <<>>, m)[i] = WalkOf(O, <<>>, i)
  BY <1>2, <1>3, WalkOfEmpty
<1> QED
  BY <1>4, <1>5

\* The walk ham_log_get_entry takes, starting in the file ham_log_open picks,
\* is the retained log newest first, then sentinels.
LEMMA ExpectedWalkAt ==
    ASSUME log \in LogType, LsnInv
    PROVE  /\ ExpectedWalk \in Seq(Entry)
           /\ Len(ExpectedWalk) = Len(FileA) + Len(FileB) + (MaxLsn + 2)
           /\ \A i \in 1 .. Len(ExpectedWalk) : ExpectedWalk[i] = WalkAt(i)
<1>1. /\ log.files[1 - log.cur] \in Seq(Entry)
      /\ log.files[log.cur] \in Seq(Entry)
      /\ log.cur \in Files
  BY RetainedParts DEF LogType
<1>4. MaxLsn + 2 \in Nat
  BY WalLogAssumption
<1>5. ExpectedWalk = Walked(log.files[1 - log.cur], log.files[log.cur], MaxLsn + 2)
  BY DEF ExpectedWalk, Retained, Walked
<1>2. Newest(log) \in Files /\ (Newest(log) # log.cur => log.files[log.cur] = <<>>)
  BY NewestFacts
<1>6. ExpectedWalk \in Seq(Entry)
  BY <1>1, <1>4, <1>5, ReversedPair
<1>3. \/ FileA = log.files[log.cur] /\ FileB = log.files[1 - log.cur]
      \/ log.files[log.cur] = <<>> /\ FileA = log.files[1 - log.cur] /\ FileB = <<>>
  <2>1. CASE Newest(log) = log.cur
    BY <2>1 DEF FileA, FileB
  <2>2. CASE Newest(log) # log.cur
    <3>1. Newest(log) = 1 - log.cur /\ 1 - Newest(log) = log.cur
      BY <1>1, <1>2, <2>2 DEF Files
    <3> QED
      BY <1>2, <2>2, <3>1 DEF FileA, FileB
  <2> QED
    BY <2>1, <2>2
<1> QED
  <2>1. /\ Len(Walked(log.files[1 - log.cur], log.files[log.cur], MaxLsn + 2))
           = Len(FileA) + Len(FileB) + (MaxLsn + 2)
        /\ \A i \in 1 .. Len(Walked(log.files[1 - log.cur], log.files[log.cur], MaxLsn + 2)) :
               Walked(log.files[1 - log.cur], log.files[log.cur], MaxLsn + 2)[i]
                 = WalkOf(FileA, FileB, i)
    <3>1. CASE FileA = log.files[log.cur] /\ FileB = log.files[1 - log.cur]
      <4>1. /\ Len(Walked(log.files[1 - log.cur], log.files[log.cur], MaxLsn + 2))
               = Len(log.files[log.cur]) + Len(log.files[1 - log.cur]) + (MaxLsn + 2)
            /\ \A i \in 1 .. Len(Walked(log.files[1 - log.cur], log.files[log.cur], MaxLsn + 2)) :
                   Walked(log.files[1 - log.cur], log.files[log.cur], MaxLsn + 2)[i]
                     = WalkOf(log.files[log.cur], log.files[1 - log.cur], i)
        BY <1>1, <1>4, ReversedPair
      <4> QED
        BY <3>1, <4>1
    <3>2. CASE log.files[log.cur] = <<>> /\ FileA = log.files[1 - log.cur] /\ FileB = <<>>
      <4>1. /\ Len(Walked(log.files[1 - log.cur], <<>>, MaxLsn + 2))
               = Len(log.files[1 - log.cur]) + Len(<<>>) + (MaxLsn + 2)
            /\ \A i \in 1 .. Len(Walked(log.files[1 - log.cur], <<>>, MaxLsn + 2)) :
                   Walked(log.files[1 - log.cur], <<>>, MaxLsn + 2)[i]
                     = WalkOf(log.files[1 - log.cur], <<>>, i)
        BY <1>1, <1>4, ReversedOne
      <4> QED
        BY <3>2, <4>1
    <3> QED
      BY <1>3, <3>1, <3>2
  <2> QED
    BY <1>5, <1>6, <2>1 DEF WalkAt

-----------------------------------------------------------------------------
(* Lemmas about one call of ham_log_get_entry.                             *)

\* ham_log_get_entry on an iterator that is no longer zeroed.
GetFrom(lg, p) ==
    LET it == Settle(lg, p)
    IN  IF it.offset = 0
        THEN <<it, Sentinel>>
        ELSE <<[it EXCEPT !.offset = @ - 1], lg.files[it.fdidx][it.offset]>>

\* How the offset and the walk move on by one entry, in each of the four
\* places the iterator can be: inside a, at the header of a, inside b, at
\* the header of b.
OffsetFacts(a, b, k, n) ==
    /\ 1 - n \in Files /\ 1 - n # n
    /\ OffsetAfter(a, b, 0) = Len(a) /\ ~(Len(a) < 0)
    /\ OffsetAfter(a, b, k) \in Nat
    /\ ~(Len(a) < k) /\ OffsetAfter(a, b, k) = 0 => k = Len(a)
    /\ ~(Len(a) < k) /\ OffsetAfter(a, b, k) # 0 =>
           /\ ~(Len(a) < k + 1)
           /\ OffsetAfter(a, b, k) \in 1 .. Len(a)
           /\ OffsetAfter(a, b, k + 1) = OffsetAfter(a, b, k) - 1
           /\ WalkOf(a, b, k + 1) = a[OffsetAfter(a, b, k)]
    /\ k = Len(a) /\ Len(b) # 0 =>
           /\ Len(a) < k + 1
           /\ Len(b) \in 1 .. Len(b)
           /\ OffsetAfter(a, b, k + 1) = Len(b) - 1
           /\ WalkOf(a, b, k + 1) = b[Len(b)]
    /\ k = Len(a) /\ Len(b) = 0 =>
           /\ Len(a) < k + 1
           /\ OffsetAfter(a, b, k + 1) = 0
           /\ WalkOf(a, b, k + 1) = Sentinel
    /\ Len(a) < k /\ OffsetAfter(a, b, k) # 0 =>
           /\ Len(a) < k + 1
           /\ OffsetAfter(a, b, k) \in 1 .. Len(b)
           /\ OffsetAfter(a, b, k + 1) = OffsetAfter(a, b, k) - 1
           /\ WalkOf(a, b, k + 1) = b[OffsetAfter(a, b, k)]
    /\ Len(a) < k /\ OffsetAfter(a, b, k) = 0 =>
           /\ Len(a) < k + 1
           /\ OffsetAfter(a, b, k + 1) = 0
           /\ WalkOf(a, b, k + 1) = Sentinel

\* OffsetFacts hold for every pair of files and every count.
LEMMA OffsetStep ==
    ASSUME NEW a \in Seq(Entry), NEW b \in Seq(Entry), NEW k \in Nat, NEW n \in Files
    PROVE  OffsetFacts(a, b, k, n)
<1>1. Len(a) \in Nat /\ Len(b) \in Nat
  BY LenProperties
<1>2. 1 - n \in Files /\ 1 - n # n
  BY DEF Files
<1>3. OffsetAfter(a, b, 0) = Len(a) /\ ~(Len(a) < 0) /\ OffsetAfter(a, b, k) \in Nat
  BY <1>1 DEF OffsetAfter
<1>4. ~(Len(a) < k) /\ OffsetAfter(a, b, k) = 0 => k = Len(a)
  BY <1>1 DEF OffsetAfter
<1>5. ~(Len(a) < k) /\ OffsetAfter(a, b, k) # 0 =>
          /\ ~(Len(a) < k + 1)
          /\ OffsetAfter(a, b, k) \in 1 .. Len(a)
          /\ OffsetAfter(a, b, k + 1) = OffsetAfter(a, b, k) - 1
          /\ WalkOf(a, b, k + 1) = a[OffsetAfter(a, b, k)]
  BY <1>1 DEF OffsetAfter, WalkOf
<1>6. k = Len(a) /\ Len(b) # 0 =>
          /\ Len(a) < k + 1
          /\ Len(b) \in 1 .. Len(b)
          /\ OffsetAfter(a, b, k + 1) = Len(b) - 1
          /\ WalkOf(a, b, k + 1) = b[Len(b)]
  BY <1>1 DEF OffsetAfter, WalkOf
<1>7. k = Len(a) /\ Len(b) = 0 =>
          /\ Len(a) < k + 1
          /\ OffsetAfter(a, b, k + 1) = 0
          /\ WalkOf(a, b, k + 1) = Sentinel
  BY <1>1 DEF OffsetAfter, WalkOf
<1>8. Len(a) < k /\ OffsetAfter(a, b, k) # 0 =>
          /\ Len(a) < k + 1
          /\ OffsetAfter(a, b, k) \in 1 .. Len(b)
          /\ OffsetAfter(a, b, k + 1) = OffsetAfter(a, b, k) - 1
          /\ WalkOf(a, b, k + 1) = b[OffsetAfter(a, b, k)]
  BY <1>1 DEF OffsetAfter, WalkOf
<1>9. Len(a) < k /\ OffsetAfter(a, b, k) = 0 =>
          /\ Len(a) < k + 1
          /\ OffsetAfter(a, b, k + 1) = 0
          /\ WalkOf(a, b, k + 1) = Sentinel
  BY <1>1 DEF OffsetAfter, WalkOf
<1> QED
  BY <1>2, <1>3, <1>4, <1>5, <1>6, <1>7, <1>8, <1>9 DEF OffsetFacts

\* Stepping the offset of an iterator back keeps its other fields.
LEMMA StepBack ==
    ASSUME NEW p \in IterRec, p.offset # 0
    PROVE  /\ [p EXCEPT !.offset = @ - 1] \in IterRec
           /\ [p EXCEPT !.offset = @ - 1].offset = p.offset - 1
           /\ [p EXCEPT !.offset = @ - 1].fdidx = p.fdidx
           /\ [p EXCEPT !.offset = @ - 1].fresh = p.fresh
           /\ [p EXCEPT !.offset = @ - 1].other = p.other
<1>1. p.offset - 1 \in Nat
  BY DEF IterRec
<1> QED
  BY <1>1 DEF IterRec

\* The two parts of what ham_log_get_entry returns.
LEMMA PairParts ==
    ASSUME NEW x, NEW y
    PROVE  <<x, y>>[1] = x /\ <<x, y>>[2] = y
OBVIOUS

\* Where Settle puts an iterator at the header of file 1 - n: the tail of
\* file n, holding b, marked as in the second file.
Crossed(n, b) == [fdidx |-> n, offset |-> Len(b), fresh |-> FALSE, other |-> TRUE]

\* The first call positions a zeroed iterator at the tail of the file
\* ham_log_open took as newer; later calls use the iterator as it is.
LEMMA StartStep ==
    ASSUME NEW lg, NEW n \in Files, NEW a \in Seq(Entry), NEW b \in Seq(Entry),
           NEW k \in Nat, lg.files[n] = a, NEW it0,
           \/ PosIs(it0, n, a, b, k)
           \/ it0 = Zeroed /\ k = 0 /\ Newest(lg) = n
    PROVE  PosIs(IF it0.fresh THEN StartPos(lg) ELSE it0, n, a, b, k)
<1>1. CASE PosIs(it0, n, a, b, k)
  BY <1>1, Zenon DEF PosIs
<1>2. CASE it0 = Zeroed /\ k = 0 /\ Newest(lg) = n
  <2>1. it0.fresh
    BY <1>2, Zenon DEF Zeroed
  <2>2. OffsetFacts(a, b, k, n) /\ Len(a) \in Nat
    BY OffsetStep, LenProperties
  <2>3. StartPos(lg) = [fdidx |-> n, offset |-> Len(a), fresh |-> FALSE, other |-> FALSE]
    BY <1>2, Zenon DEF StartPos
  <2>4. [fdidx |-> n, offset |-> Len(a), fresh |-> FALSE, other |-> FALSE] \in IterRec
    BY <2>2, Zenon DEF IterRec
  <2>5. /\ StartPos(lg).fdidx = n /\ StartPos(lg).offset = Len(a)
        /\ StartPos(lg).fresh = FALSE /\ StartPos(lg).other = FALSE
    BY <2>3
  <2>6. PosIs(StartPos(lg), n, a, b, 0)
    <3>1. StartPos(lg).other = (Len(a) < 0)
      <4>1. (Len(a) < 0) = FALSE
        BY <2>2
      <4> QED
        BY <2>5, <4>1, Zenon
    <3>2. StartPos(lg).fdidx = IF Len(a) < 0 THEN 1 - n ELSE n
      BY <2>2, <2>5, Zenon DEF OffsetFacts
    <3>3. StartPos(lg).offset = OffsetAfter(a, b, 0)
      BY <2>2, <2>5, Zenon DEF OffsetFacts
    <3> QED
      BY <2>3, <2>4, <2>5, <3>1, <3>2, <3>3, Zenon DEF PosIs
  <2> QED
    BY <1>2, <2>1, <2>6, Zenon
<1> QED
  BY <1>1, <1>2

\* A call that does not cross files: inside a file, or at the header of the
\* second file, where the sentinel is returned and the iterator stays.
LEMMA SettleStay ==
    ASSUME NEW lg, NEW n \in Files, NEW a \in Seq(Entry), NEW b \in Seq(Entry),
           NEW k \in Nat, lg.files[n] = a, lg.files[1 - n] = b,
           NEW p, PosIs(p, n, a, b, k), ~(p.offset = 0 /\ ~p.other)
    PROVE  /\ PosIs(GetFrom(lg, p)[1], n, a, b, k + 1)
           /\ GetFrom(lg, p)[2] = WalkOf(a, b, k + 1)
<1>0. OffsetFacts(a, b, k, n)
  BY OffsetStep
<1>1. Settle(lg, p) = p
  BY Zenon DEF Settle
<1>2. p \in IterRec /\ p.offset = OffsetAfter(a, b, k)
  BY Zenon DEF PosIs
<1>3. CASE p.offset = 0
  <2>1. Len(a) < k
    BY <1>3, Zenon DEF PosIs
  <2>2. GetFrom(lg, p) = <<p, Sentinel>>
    BY <1>1, <1>3, Zenon DEF GetFrom
  <2>3. Len(a) < k + 1 /\ OffsetAfter(a, b, k + 1) = 0 /\ WalkOf(a, b, k + 1) = Sentinel
    BY <1>0, <1>2, <1>3, <2>1, Zenon DEF OffsetFacts
  <2>4. GetFrom(lg, p)[1] = p /\ GetFrom(lg, p)[2] = Sentinel
    <3>1. <<p, Sentinel>>[1] = p /\ <<p, Sentinel>>[2] = Sentinel
      BY PairParts
    <3> QED
      BY <2>2, <3>1
  <2> QED
    BY <2>1, <2>3, <2>4, <1>2, <1>3, Zenon DEF PosIs
<1>4. CASE p.offset # 0
  <2>1. GetFrom(lg, p) = <<[p EXCEPT !.offset = @ - 1], lg.files[p.fdidx][p.offset]>>
    BY <1>1, <1>4, Zenon DEF GetFrom
  <2>5. /\ GetFrom(lg, p)[1] = [p EXCEPT !.offset = @ - 1]
        /\ GetFrom(lg, p)[2] = lg.files[p.fdidx][p.offset]
    <3>1. /\ <<[p EXCEPT !.offset = @ - 1], lg.files[p.fdidx][p.offset]>>[1]
             = [p EXCEPT !.offset = @ - 1]
          /\ <<[p EXCEPT !.offset = @ - 1], lg.files[p.fdidx][p.offset]>>[2]
             = lg.files[p.fdidx][p.offset]
      BY PairParts
    <3> QED
      BY <2>1, <3>1
  <2>2. /\ [p EXCEPT !.offset = @ - 1] \in IterRec
        /\ [p EXCEPT !.offset = @ - 1].offset = p.offset - 1
        /\ [p EXCEPT !.offset = @ - 1].fdidx = p.fdidx
        /\ [p EXCEPT !.offset = @ - 1].fresh = FALSE
        /\ [p EXCEPT !.offset = @ - 1].other = p.other
    BY <1>2, <1>4, StepBack, Zenon DEF PosIs
  <2>3. CASE Len(a) < k
    <3>1. /\ Len(a) < k + 1
          /\ OffsetAfter(a, b, k + 1) = OffsetAfter(a, b, k) - 1
          /\ WalkOf(a, b, k + 1) = b[OffsetAfter(a, b, k)]
      BY <1>0, <1>2, <1>4, <2>3, Zenon DEF OffsetFacts
    <3>2. p.fdidx = 1 - n /\ p.other
      BY <2>3, Zenon DEF PosIs
    <3> QED
      BY <1>2, <2>5, <2>2, <2>3, <3>1, <3>2, Zenon DEF PosIs
  <2>4. CASE ~(Len(a) < k)
    <3>1. /\ ~(Len(a) < k + 1)
          /\ OffsetAfter(a, b, k + 1) = OffsetAfter(a, b, k) - 1
          /\ WalkOf(a, b, k + 1) = a[OffsetAfter(a, b, k)]
      BY <1>0, <1>2, <1>4, <2>4, Zenon DEF OffsetFacts
    <3>2. p.fdidx = n /\ ~p.other
      BY <2>4, Zenon DEF PosIs
    <3>3. GetFrom(lg, p)[1].other = (Len(a) < k + 1)
      <4>1. (Len(a) < k + 1) = FALSE /\ p.other = FALSE
        BY <1>2, <3>1, <3>2 DEF IterRec
      <4> QED
        BY <2>5, <2>2, <4>1, Zenon
    <3>4. GetFrom(lg, p)[1].fdidx = IF Len(a) < k + 1 THEN 1 - n ELSE n
      BY <2>5, <2>2, <3>1, <3>2, Zenon
    <3>5. GetFrom(lg, p)[1].offset = OffsetAfter(a, b, k + 1)
      BY <1>2, <2>5, <2>2, <3>1, Zenon
    <3>6. GetFrom(lg, p)[2] = WalkOf(a, b, k + 1)
      BY <1>2, <2>5, <3>1, <3>2, Zenon
    <3> QED
      BY <2>5, <2>2, <3>3, <3>4, <3>5, <3>6, Zenon DEF PosIs
  <2> QED
    BY <2>3, <2>4
<1> QED
  BY <1>3, <1>4

\* A call at the header of the first file: the iterator crosses to the tail
\* of the other file and returns its last entry, or the sentinel when that
\* file holds only its header.
LEMMA SettleCross ==
    ASSUME NEW lg, NEW n \in Files, NEW a \in Seq(Entry), NEW b \in Seq(Entry),
           NEW k \in Nat, lg.files[n] = a, lg.files[1 - n] = b,
           NEW p, PosIs(p, n, a, b, k), p.offset = 0, ~p.other
    PROVE  /\ PosIs(GetFrom(lg, p)[1], n, a, b, k + 1)
           /\ GetFrom(lg, p)[2] = WalkOf(a, b, k + 1)
<1>0. OffsetFacts(a, b, k, n) /\ Len(b) \in Nat
  BY OffsetStep, LenProperties
<1>1. p.fdidx = n /\ ~(Len(a) < k) /\ p.offset = OffsetAfter(a, b, k)
  BY Zenon DEF PosIs
<1>2. k = Len(a) /\ 1 - n \in Files
  BY <1>0, <1>1, Zenon DEF OffsetFacts
<1>3. Settle(lg, p) = Crossed(1 - n, b)
  BY <1>1, Zenon DEF Settle, Crossed
<1>4. Crossed(1 - n, b) \in IterRec
  BY <1>0, <1>2, Zenon DEF IterRec, Crossed
<1>7. /\ Crossed(1 - n, b).fdidx = 1 - n /\ Crossed(1 - n, b).offset = Len(b)
      /\ Crossed(1 - n, b).fresh = FALSE /\ Crossed(1 - n, b).other = TRUE
  BY DEF Crossed
<1>5. CASE Len(b) = 0
  <2>1. GetFrom(lg, p)[1] = Crossed(1 - n, b) /\ GetFrom(lg, p)[2] = Sentinel
    <3>1. GetFrom(lg, p) = <<Crossed(1 - n, b), Sentinel>>
      BY <1>3, <1>5, <1>7, Zenon DEF GetFrom
    <3>2. <<Crossed(1 - n, b), Sentinel>>[1] = Crossed(1 - n, b)
          /\ <<Crossed(1 - n, b), Sentinel>>[2] = Sentinel
      BY PairParts
    <3> QED
      BY <3>1, <3>2
  <2>2. Len(a) < k + 1 /\ OffsetAfter(a, b, k + 1) = 0 /\ WalkOf(a, b, k + 1) = Sentinel
    BY <1>0, <1>2, <1>5, Zenon DEF OffsetFacts
  <2> QED
    BY <1>2, <1>4, <1>5, <1>7, <2>1, <2>2, Zenon DEF PosIs
<1>6. CASE Len(b) # 0
  <2>1. /\ GetFrom(lg, p)[1] = [Crossed(1 - n, b) EXCEPT !.offset = @ - 1]
        /\ GetFrom(lg, p)[2] = b[Len(b)]
    <3>1. GetFrom(lg, p) = <<[Crossed(1 - n, b) EXCEPT !.offset = @ - 1], lg.files[1 - n][Len(b)]>>
      BY <1>3, <1>6, <1>7, Zenon DEF GetFrom
    <3>2. /\ <<[Crossed(1 - n, b) EXCEPT !.offset = @ - 1], lg.files[1 - n][Len(b)]>>[1]
             = [Crossed(1 - n, b) EXCEPT !.offset = @ - 1]
          /\ <<[Crossed(1 - n, b) EXCEPT !.offset = @ - 1], lg.files[1 - n][Len(b)]>>[2]
             = lg.files[1 - n][Len(b)]
      BY PairParts
    <3> QED
      BY <3>1, <3>2
  <2>2. /\ [Crossed(1 - n, b) EXCEPT !.offset = @ - 1] \in IterRec
        /\ [Crossed(1 - n, b) EXCEPT !.offset = @ - 1].offset = Len(b) - 1
        /\ [Crossed(1 - n, b) EXCEPT !.offset = @ - 1].fdidx = 1 - n
        /\ [Crossed(1 - n, b) EXCEPT !.offset = @ - 1].fresh = FALSE
        /\ [Crossed(1 - n, b) EXCEPT !.offset = @ - 1].other = TRUE
    <3>1. Crossed(1 - n, b).offset # 0
      BY <1>6, Zenon DEF Crossed
    <3> QED
      BY <1>4, <3>1, StepBack, Zenon DEF Crossed
  <2>3. /\ Len(a) < k + 1
        /\ OffsetAfter(a, b, k + 1) = Len(b) - 1
        /\ WalkOf(a, b, k + 1) = b[Len(b)]
    BY <1>0, <1>2, <1>6, Zenon DEF OffsetFacts
  <2> QED
    BY <1>2, <2>1, <2>2, <2>3, Zenon DEF PosIs
<1> QED
  BY <1>5, <1>6

\* One call of ham_log_get_entry returns the next entry of the walk and
\* leaves the iterator at the next position.
LEMMA GetEntryStep ==
    ASSUME NEW lg, NEW n \in Files, NEW a \in Seq(Entry), NEW b \in Seq(Entry),
           NEW k \in Nat, lg.files[n] = a, lg.files[1 - n] = b, NEW it0,
           \/ PosIs(it0, n, a, b, k)
           \/ it0 = Zeroed /\ k = 0 /\ Newest(lg) = n
    PROVE  /\ PosIs(GetEntryResult(lg, it0)[1], n, a, b, k + 1)
           /\ GetEntryResult(lg, it0)[2] = WalkOf(a, b, k + 1)
<1>1. PosIs(IF it0.fresh THEN StartPos(lg) ELSE it0, n, a, b, k)
  BY StartStep
<1>2. GetEntryResult(lg, it0) = GetFrom(lg, IF it0.fresh THEN StartPos(lg) ELSE it0)
  BY DEF GetEntryResult, GetFrom
<1>3. CASE (IF it0.fresh THEN StartPos(lg) ELSE it0).offset = 0
           /\ ~(IF it0.fresh THEN StartPos(lg) ELSE it0).other
  <2>1. /\ PosIs(GetFrom(lg, IF it0.fresh THEN StartPos(lg) ELSE it0)[1], n, a, b, k + 1)
        /\ GetFrom(lg, IF it0.fresh THEN StartPos(lg) ELSE it0)[2] = WalkOf(a, b, k + 1)
    BY <1>1, <1>3, SettleCross
  <2> QED
    BY <1>2, <2>1
<1>4. CASE ~((IF it0.fresh THEN StartPos(lg) ELSE it0).offset = 0
             /\ ~(IF it0.fresh THEN StartPos(lg) ELSE it0).other)
  <2>1. /\ PosIs(GetFrom(lg, IF it0.fresh THEN StartPos(lg) ELSE it0)[1], n, a, b, k + 1)
        /\ GetFrom(lg, IF it0.fresh THEN StartPos(lg) ELSE it0)[2] = WalkOf(a, b, k + 1)
    BY <1>1, <1>4, SettleStay
  <2> QED
    BY <1>2, <2>1
<1> QED
  BY <1>3, <1>4

-----------------------------------------------------------------------------
(* The inductive invariant JInv.                                           *)

LEMMA SentinelType == Sentinel \in Entry
BY WalLogAssumption DEF Sentinel, Control, MkEntry, Entry, EntryTypes

LEMMA WalkOfType ==
    ASSUME NEW a \in Seq(Entry), NEW b \in Seq(Entry), NEW k \in Nat \ {0}
    PROVE  WalkOf(a, b, k) \in Entry
<1>1. Len(a) \in Nat /\ Len(b) \in Nat
  BY LenProperties
<1> QED
  BY <1>1, SentinelType DEF WalkOf

\* A sequence that agrees with t on its own places is a prefix of t.
LEMMA PrefixByElems ==
    ASSUME NEW s \in Seq(Entry), NEW t \in Seq(Entry), Len(s) <= Len(t),
           \A i \in 1 .. Len(s) : s[i] = t[i]
    PROVE  IsPrefix(s, t)
<1>1. SubSeq(t, 1, Len(s)) = s
  BY PrefixIsSubSeq
<1>2. SubSeq(s, 1, Len(s)) = s
  BY PrefixIsSubSeq
<1> QED
  BY <1>1, <1>2 DEF IsPrefix

LEMMA InitJInv == IInit => JInv
<1> SUFFICES ASSUME IInit PROVE JInv
  OBVIOUS
<1>1. RInv /\ LsnInv
  BY InitRInv, InitLsnInv DEF IInit
<1> QED
  BY <1>1 DEF IInit, JInv, RInv, IInv, TypeOK

\* While the log is written, JInv is WalLog's invariants.
LEMMA WriteJInv ==
    ASSUME JInv, Write
    PROVE  JInv'
<1>1. RInv /\ LsnInv /\ [Next]_vars
  BY DEF JInv, Write
<1>2. RInv' /\ LsnInv'
  BY <1>1, LsnInvStep, NextIInv, NextRefines DEF RInv
<1> QED
  BY <1>2 DEF Write, JInv, RInv, IInv, TypeOK, itVars

LEMMA CloseKeepOpenJInv ==
    ASSUME JInv, CloseKeepOpen
    PROVE  JInv'
<1>1. LsnInv'
  BY DEF JInv, CloseKeepOpen, LsnInv, LsnContiguous, Retained
<1>2. ReadInv'
  BY WalLogAssumption DEF CloseKeepOpen, ReadInv
<1> QED
  BY <1>1, <1>2 DEF JInv, CloseKeepOpen

\* One call of ham_log_get_entry extends the walk by its next entry.
LEMMA GetEntryJInv ==
    ASSUME JInv, GetEntry
    PROVE  JInv'
<1>1. /\ phase = "read" /\ ReadInv /\ log \in LogType /\ LsnInv
      /\ out \in Seq(Entry) /\ Len(out) <= MaxLsn + 1
  BY DEF JInv, GetEntry
<1>2. Newest(log) \in Files /\ 1 - Newest(log) \in Files
  <2>1. Newest(log) \in Files
    BY <1>1, NewestFacts
  <2> QED
    BY <2>1, OtherFile
<1>3. /\ log.files[Newest(log)] \in Seq(Entry)
      /\ log.files[1 - Newest(log)] \in Seq(Entry)
  BY <1>1, <1>2 DEF LogType
<1>4. Len(out) \in Nat
  BY <1>1, LenProperties
<1>5. \/ PosIs(iter, Newest(log), log.files[Newest(log)], log.files[1 - Newest(log)], Len(out))
      \/ iter = Zeroed /\ Len(out) = 0 /\ Newest(log) = Newest(log)
  BY <1>1 DEF ReadInv, PosAfter, FileA, FileB
<1>6. /\ PosIs(GetEntryResult(log, iter)[1], Newest(log), log.files[Newest(log)],
               log.files[1 - Newest(log)], Len(out) + 1)
      /\ GetEntryResult(log, iter)[2]
           = WalkOf(log.files[Newest(log)], log.files[1 - Newest(log)], Len(out) + 1)
  BY <1>2, <1>3, <1>4, <1>5, GetEntryStep
<1>7. /\ iter' = GetEntryResult(log, iter)[1]
      /\ out' = Append(out, GetEntryResult(log, iter)[2])
      /\ UNCHANGED <<log, active, nextTxn, phase>>
  BY DEF GetEntry
<1>8. WalkOf(log.files[Newest(log)], log.files[1 - Newest(log)], Len(out) + 1) \in Entry
  BY <1>3, <1>4, WalkOfType
<1>9. /\ out' \in Seq(Entry)
      /\ Len(out') = Len(out) + 1
      /\ \A i \in 1 .. Len(out) : out'[i] = out[i]
      /\ out'[Len(out) + 1]
           = WalkOf(log.files[Newest(log)], log.files[1 - Newest(log)], Len(out) + 1)
  BY <1>1, <1>6, <1>7, <1>8, AppendProperties
<1>10. Len(out') <= MaxLsn + 2
  <2>1. Len(out) <= MaxLsn + 1
    BY DEF GetEntry
  <2>2. Len(out) + 1 <= MaxLsn + 2
    BY <1>4, <2>1, WalLogAssumption
  <2> QED
    BY <1>9, <2>2
<1>11. \A i \in 1 .. Len(out') :
           out'[i] = WalkOf(log.files[Newest(log)], log.files[1 - Newest(log)], i)
  <2>1. \A i \in 1 .. Len(out') : i \in 1 .. Len(out) \/ i = Len(out) + 1
    BY <1>4, <1>9
  <2>2. \A i \in 1 .. Len(out) :
            out[i] = WalkOf(log.files[Newest(log)], log.files[1 - Newest(log)], i)
    BY <1>1 DEF ReadInv, WalkAt, FileA, FileB
  <2> QED
    BY <1>9, <2>1, <2>2, Zenon
<1>12. ReadInv'
  BY <1>1, <1>6, <1>7, <1>10, <1>11 DEF ReadInv, PosAfter, WalkAt, FileA, FileB
<1> QED
  BY <1>1, <1>7, <1>9, <1>12 DEF JInv, LsnInv, LsnContiguous, Retained

\* ham_log_close(log, HAM_FALSE) leaves a log as ham_log_create does.
LEMMA CloseClearJInv ==
    ASSUME JInv, CloseClear
    PROVE  JInv'
<1>1. active = {} /\ nextTxn \in 1 .. MaxTxn + 1
  BY DEF JInv, ReadInv, CloseClear
<1>2. log' = Created /\ active' = {} /\ nextTxn' = nextTxn
  BY <1>1 DEF CloseClear
<1>3. IInv'
  <2>1. Created \in LogType
    BY DEF Created, LogType, Files
  <2>2. Created.cur = 0 /\ Created.open[1 - Created.cur] = 0 /\ Created.open[Created.cur] = 0
    BY DEF Created, Files
  <2>3. Cardinality({}) = 0
    BY FS_EmptySet
  <2> QED
    BY <1>1, <1>2, <2>1, <2>2, <2>3 DEF IInv, TypeOK
<1>4. OtherEndsWithCkpt' /\ LsnInv'
  <2>1. Created.files[1 - Created.cur] = <<>> /\ Created.files[Created.cur] = <<>>
        /\ Created.lsn = 1
    BY DEF Created, Files
  <2> QED
    BY <1>2, <2>1 DEF OtherEndsWithCkpt, LsnInv, LsnContiguous, Retained
<1> QED
  BY <1>2, <1>3, <1>4 DEF CloseClear, JInv, RInv, IInv, TypeOK

LEMMA NextJInv == JInv /\ [INext]_allVars => JInv'
<1> SUFFICES ASSUME JInv, [INext]_allVars PROVE JInv'
  OBVIOUS
<1>1. CASE Write
  BY <1>1, WriteJInv
<1>2. CASE CloseKeepOpen
  BY <1>2, CloseKeepOpenJInv
<1>3. CASE GetEntry
  BY <1>3, GetEntryJInv
<1>4. CASE CloseClear
  BY <1>4, CloseClearJInv
<1>5. CASE UNCHANGED allVars
  BY <1>5 DEF allVars, JInv, ReadInv, PosAfter, WalkAt, FileA, FileB, RInv, IInv,
            TypeOK, OtherEndsWithCkpt, BeginIn, LsnInv, LsnContiguous, Retained
<1> QED
  BY <1>1, <1>2, <1>3, <1>4, <1>5 DEF INext

-----------------------------------------------------------------------------
(* Theorems.                                                               *)

\* From the creation of the log through writes, a close keeping the files,
\* the reopen and any number of calls of ham_log_get_entry, the writer's
\* invariants hold while writing and the iterator is where JInv says while
\* reading.
THEOREM JInvHolds == ISpec => []JInv
BY InitJInv, NextJInv, PTL DEF ISpec

LEMMA JInvWalk == JInv => WalkIsNewestFirst
<1> SUFFICES ASSUME JInv PROVE WalkIsNewestFirst
  OBVIOUS
<1>1. log \in LogType /\ LsnInv /\ out \in Seq(Entry)
  BY DEF JInv
<1>2. /\ ExpectedWalk \in Seq(Entry)
      /\ Len(ExpectedWalk) = Len(FileA) + Len(FileB) + (MaxLsn + 2)
      /\ \A i \in 1 .. Len(ExpectedWalk) : ExpectedWalk[i] = WalkAt(i)
  BY <1>1, ExpectedWalkAt
<1>3. Len(FileA) \in Nat /\ Len(FileB) \in Nat /\ MaxLsn \in Nat
  <2>1. Newest(log) \in Files /\ 1 - Newest(log) \in Files
    BY <1>1, NewestFacts, OtherFile
  <2>2. FileA \in Seq(Entry) /\ FileB \in Seq(Entry)
    BY <1>1, <2>1 DEF LogType, FileA, FileB
  <2> QED
    BY <2>2, LenProperties, WalLogAssumption
<1>4. CASE phase = "write"
  <2>1. out = <<>>
    BY <1>4 DEF JInv
  <2>2. Len(out) <= Len(ExpectedWalk)
    BY <1>2, <2>1
  <2>3. \A i \in 1 .. Len(out) : out[i] = ExpectedWalk[i]
    BY <2>1
  <2> QED
    BY <1>1, <1>2, <2>2, <2>3, PrefixByElems DEF WalkIsNewestFirst
<1>5. CASE phase = "read"
  <2>1. Len(out) <= MaxLsn + 2 /\ \A i \in 1 .. Len(out) : out[i] = WalkAt(i)
    BY <1>5 DEF JInv, ReadInv
  <2>2. Len(out) <= Len(ExpectedWalk) /\ Len(out) \in Nat
    BY <1>1, <1>2, <1>3, <2>1, LenProperties
  <2>3. \A i \in 1 .. Len(out) : out[i] = ExpectedWalk[i]
    BY <1>2, <2>1, <2>2
  <2> QED
    BY <1>1, <1>2, <2>2, <2>3, PrefixByElems DEF WalkIsNewestFirst
<1> QED
  BY <1>4, <1>5 DEF JInv

\* Every call of ham_log_get_entry on the reopened log returns the next
\* entry of the retained log read newest first, and the sentinel once both
\* files are read: the file that ham_log_open infers as newer from the last
\* LSNs holds the newest entries, and no entry is skipped or repeated where
\* the iterator crosses from one file to the other.
THEOREM WalkIsNewestFirstThm == ISpec => []WalkIsNewestFirst
BY JInvHolds, JInvWalk, PTL

LEMMA JInvIterType == JInv => IterTypeOK
<1> SUFFICES ASSUME JInv PROVE IterTypeOK
  OBVIOUS
<1>1. Zeroed \in IterRec
  BY DEF Zeroed, IterRec, Files
<1>2. iter \in IterRec
  BY <1>1 DEF JInv, ReadInv, PosAfter, PosIs
<1> QED
  BY <1>2 DEF JInv, IterTypeOK, IterRec

\* The log_iterator_t that ham_log_get_entry moves always names one of the
\* two files and a non-negative offset in it, and every returned entry is
\* a log entry.
THEOREM IterTypeOKThm == ISpec => []IterTypeOK
BY JInvHolds, JInvIterType, PTL

====
