----------------------------- MODULE WalIterator -----------------------------
(***************************************************************************)
(* The reverse log iterator (log_iterator_t, ham_log_get_entry) over the   *)
(* file pair the writer of WalLog leaves behind.  A run writes with the    *)
(* log API, closes the log keeping its files (ham_log_close(log,           *)
(* HAM_TRUE)), reopens it, walks it with a zeroed iterator as recovery and *)
(* the tests do, then closes it clearing the files.  Pinned by the         *)
(* iterate* tests of src/unittests/log.cpp.                                *)
(***************************************************************************)
EXTENDS WalLog, SequencesExt

VARIABLES
    phase,    \* "write": the log is open for appends; "read": reopened, iterated
    iter,     \* log_iterator_t: _fdidx, _offset, and whether it is still zeroed
    out       \* the entries ham_log_get_entry has returned since the reopen

itVars == <<phase, iter, out>>
allVars == <<log, active, nextTxn, phase, iter, out>>

\* The entry ham_log_get_entry returns past the end: LSN 0, no payload.
Sentinel == [Control(0, "CHECKPOINT") EXCEPT !.lsn = 0]

\* memset(&iter, 0, sizeof(iter)).
Zeroed == [fdidx |-> 0, offset |-> 0, fresh |-> TRUE, other |-> FALSE]

\* LSN of the last entry of file f, 0 for a file holding only its header.
LastLsn(lg, f) ==
    IF lg.files[f] = <<>> THEN 0 ELSE lg.files[f][Len(lg.files[f])].lsn

\* Defect variant: the start file is the one that was current when the
\* log was created.
NewestIsFirst(lg) == 0

\* The file ham_log_open takes as the newer one: the higher last LSN.
Newest(lg) == IF LastLsn(lg, 1) > LastLsn(lg, 0) THEN 1 ELSE 0

\* Where the first call puts a zeroed iterator: the tail of the newer file.
StartPos(lg) ==
    [fdidx |-> Newest(lg), offset |-> Len(lg.files[Newest(lg)]),
     fresh |-> FALSE, other |-> FALSE]

\* At the header of the first file, move to the tail of the other one;
\* at the header of the second, stay (the sentinel follows).
Settle(lg, it) ==
    IF it.offset = 0 /\ ~it.other
    THEN [fdidx |-> 1 - it.fdidx, offset |-> Len(lg.files[1 - it.fdidx]),
          fresh |-> FALSE, other |-> TRUE]
    ELSE it

\* Defect variant: the offset is stepped back on every call, the sentinel
\* included.
GetEntryAlwaysStepping(lg, it0) ==
    LET it == Settle(lg, IF it0.fresh THEN StartPos(lg) ELSE it0)
    IN  IF it.offset = 0
        THEN <<[it EXCEPT !.offset = @ - 1], Sentinel>>
        ELSE <<[it EXCEPT !.offset = @ - 1], lg.files[it.fdidx][it.offset]>>

\* ham_log_get_entry: position a zeroed iterator, cross to the other file at
\* a header, then return the entry before the offset and step back over it,
\* or the sentinel once both files are read.
GetEntryResult(lg, it0) ==
    LET it == Settle(lg, IF it0.fresh THEN StartPos(lg) ELSE it0)
    IN  IF it.offset = 0
        THEN <<it, Sentinel>>
        ELSE <<[it EXCEPT !.offset = @ - 1], lg.files[it.fdidx][it.offset]>>

-----------------------------------------------------------------------------

IInit ==
    /\ Init
    /\ phase = "write"
    /\ iter = Zeroed
    /\ out = <<>>

\* Any operation of the log API while the log is open for writing.
Write ==
    /\ phase = "write"
    /\ Next
    /\ UNCHANGED itVars

\* ham_log_close(log, HAM_TRUE) then ham_log_open: the files are kept, the
\* transactions of the closed handle are gone, a fresh iterator is zeroed.
CloseKeepOpen ==
    /\ phase = "write"
    /\ phase' = "read"
    /\ active' = {}
    /\ iter' = Zeroed
    /\ out' = <<>>
    /\ UNCHANGED <<log, nextTxn>>

GetEntry ==
    /\ phase = "read"
    /\ Len(out) <= MaxLsn + 1
    /\ LET r == GetEntryResult(log, iter)
       IN  /\ iter' = r[1]
           /\ out' = Append(out, r[2])
    /\ UNCHANGED <<log, active, nextTxn, phase>>

\* ham_log_close(log, HAM_FALSE): the files are cleared, the log is reused.
CloseClear ==
    /\ phase = "read"
    /\ phase' = "write"
    /\ log' = Created
    /\ iter' = Zeroed
    /\ out' = <<>>
    /\ UNCHANGED <<active, nextTxn>>

INext == Write \/ CloseKeepOpen \/ GetEntry \/ CloseClear

ISpec == IInit /\ [][INext]_allVars

-----------------------------------------------------------------------------
(* Properties.                                                             *)

\* The iterator's state and output have their types.
IterTypeOK ==
    /\ phase \in {"write", "read"}
    /\ iter \in [fdidx : Files, offset : Nat, fresh : BOOLEAN, other : BOOLEAN]
    /\ out \in Seq(Entry)

\* What a walk of the reopened log must return: every entry the writer
\* retained in its two files, newest first, and the sentinel from then on.
ExpectedWalk == Reverse(Retained) \o [i \in 1 .. MaxLsn + 2 |-> Sentinel]

\* Every call of ham_log_get_entry after the reopen returns the next entry
\* of ExpectedWalk: the file ham_log_open infers as newer really holds the
\* newest entries, no entry is skipped or repeated at the switch from one
\* file to the other, and the sentinel, once returned, is returned again.
WalkIsNewestFirst == IsPrefix(out, ExpectedWalk)

\* Design claim (section 8): a full iteration, reversed, yields the LSNs
\* 1, 2, 3, ... up to the last appended one, with no gap.
WalkFromLsnOne ==
    (out # <<>> /\ Last(out) = Sentinel) =>
        LET got == Reverse(SelectSeq(out, LAMBDA e : e # Sentinel))
        IN  \A i \in DOMAIN got : got[i].lsn = i

=============================================================================
