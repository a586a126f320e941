# Write-ahead log of upscaledb: TLA+ models, runs and proofs

This directory models the write-ahead log (WAL) and recovery subsystem of the
database (`spec.md`). The repository does not contain the implementation of
the log (`log.c`, `log.h`). It contains two files:

- `src/unittests/log.cpp`: the `LogTest` and `LogHighLevelTest` suites, which
  pin the behaviour of every log operation call by call.
- `src/src/page.h`: the page object.

Each action of the models is translated from the test cases that exercise it.
`PROJECT.json` "map" names the lines. The definitions that nothing in `src/`
pins are marked `spec_modelled`:

- the fsync of a commit;
- the last LSN of a file, read on open;
- the recovery engine of spec §4.6 (`RecoveryPlan` and its helpers,
  `ApplyWrites`), the pager's write-back of an unused page (`Flush`) and a
  crash during recovery.

## The system

Components, leaves first (spec §2). Their status is in `PROJECT.json`.

| component | what it does | model |
|---|---|---|
| Entry codec | packs `log_entry_t` / `log_header_t` | not modelled: pure encoding; entries are records |
| Log file pair | two files, one current, truncation | `WalLog` (`log.files`, `log.cur`), `WalIterator` (reopen) |
| Log writer | `ham_log_append_*`, LSNs, counters, checkpoint policy | `WalLog` |
| Log iterator | `ham_log_get_entry`, newest first, sentinel LSN 0 | `WalIterator` |
| Page journaling hook | pager emits PREWRITE/WRITE/FLUSH_PAGE | `WalSystem` (`Modify`, `Commit`, `Flush`, `CloseKeepLog`) |
| Recovery engine | analysis, redo, undo | `WalSystem` (`OpenRecover`, `RecoverStep`, `RecoverFinish`), `WalPatch` |
| Lifecycle glue | create, clear, close with/without clearing, open | `WalLog` (`Created`, `Clear`), `WalIterator` (`CloseKeepOpen`, `CloseClear`), `WalSystem` (`CloseClean`, `CloseKeepLog`, `OpenEmpty`, `OpenRecover`) |
| Page object (`page.h`) | dirty flag, in-use counter, type bits | `Page`, applied to the cache by `WalSystem`; page lists and cursors not modelled |
| What the log promises | one LSN-stamped sequence, truncated only at a checkpoint | `AbstractLog`, refined by `WalLog` |
| B-tree, freelist, blobs, cache | sources of page images | out of scope (spec §1) |

How the parts interact:

1. The transaction manager calls `append_txn_begin`.
2. The pager journals the before-image (PREWRITE) of a page the first time a
   checkpoint epoch touches it.
3. On commit, the pager logs the after-image (WRITE) of each dirty page, then
   TXN_COMMIT.
4. After a commit or abort, the writer may append a CHECKPOINT and rotate to
   the other file.
5. When the database is closed without clearing and reopened, recovery walks
   the files backwards with the iterator.

## Modules

### `WalLog`: the log writer and the file pair

State:

- `log`: one record holding the `ham_log_t` object and the contents of its
  files. Its fields:
  - `files[0..1]`: entry sequences;
  - `durable`: the fsynced length of each file;
  - `cur`: `log_get_current_fd`;
  - `lsn`: `log_get_lsn`;
  - `open` and `closed`: `log_get_open_txn` / `log_get_closed_txn`;
  - `ckpt`: the last checkpoint LSN.
- `active`: the transactions whose TXN_BEGIN was appended and that have not
  ended.
- `nextTxn`: the next transaction id.

Pure operators compute a new log value, so that a composed module can chain
several of them in one handler:

- `AppendEntry` stamps an entry with the LSN, appends it to the current file
  and increments the LSN.
- `AfterCheckpoint` is a CHECKPOINT entry plus an fsync.
- `Rotate` puts the CHECKPOINT in the old file, flips `cur`, truncates the new
  current file and resets its counters.
- `MaybeRotate` is the checkpoint policy: rotate when `open[cur] = 0` and
  `open[cur] + closed[cur] >= Threshold`.
- `AfterBegin` and `AfterEnd` update the counters. `AfterEnd` also fsyncs on
  commit, then applies the policy.

The rotation rule comes from the tests:

- `insertCheckpointTest` and `insertTwoCheckpointsTest` (threshold 5): 7
  transactions leave file 1 current; 11 transactions leave file 0 current.
- The iteration tests: 8 transactions retain 8 begins, 8 commits and 1
  checkpoint; 11 transactions retain only 6 of each and 1 checkpoint.

Together these fix when the rotation happens and which file gets the
checkpoint.

Actions:

- `TxnBegin`, `TxnCommit(t)`, `TxnAbort(t)`;
- `Checkpoint`, `FlushPage(p)`;
- `PageImage(t, PREWRITE|WRITE, p, i)`, `Overwrite(t, p, old, new)`;
- `Clear`.

`Clear` is allowed only when no transaction runs, because the database calls
`ham_log_clear` at close and after recovery. `clearTest` calls it with a
transaction open; that sequence is listed as a hazard and is not explored.

### `WalIterator`: the reverse iterator, across a reopen

This module extends `WalLog` with three variables:

- `phase`: write or read;
- `iter`: `log_iterator_t`, with `_fdidx`, `_offset`, and whether it is still
  zeroed;
- `out`: the entries returned so far.

Actions:

- `Write`: any `WalLog` step.
- `CloseKeepOpen`: `ham_log_close(log, HAM_TRUE)` then `ham_log_open`. The
  files are kept and a zeroed iterator is created.
- `GetEntry`: one whole `ham_log_get_entry` call (`GetEntryResult`). It
  positions a zeroed iterator at the tail of the newer file (`Newest`: the
  file with the higher last LSN). At a header it crosses once to the tail of
  the other file. It returns the entry before the offset, or the LSN-0
  sentinel, which is sticky.
- `CloseClear`: `ham_log_close(log, HAM_FALSE)`, which clears the files.

### `Page`: the page object of `page.h`

Every accessor of `page.h` is a macro. Each becomes an operator on one page
value, so that `WalSystem` can apply them to its cache through `INSTANCE`:

- `SetDirty` and `IsDirty` act on `PAGE_NPERS_DIRTY` in the non-persistent
  flags;
- `AddNPersFlag` ORs in the other flags;
- `IncInuse` and `DecInuse` act on the in-use counter. `DecInuse` is modulo
  `InuseMod` (2^32 for the `ham_u32_t`), because `ham_assert(inuse != 0)` is compiled out of a
  release build and `--` on a zero `ham_u32_t` wraps;
- `SetType` and `GetType` act on the type nibble.

The 32-bit persistent flags word is kept as its high nibble and its low 28
bits, which is where every macro splits it. Every mask a macro applies is a
single bit or the type nibble. `&` and `|` are therefore written bit by bit
with the arithmetic `(x \div b) % 2` that the `Bitwise` module uses:
`HasBit`, `OrBit`, `ClearBits` (`x & ~b`), `AndBit` and `NibbleOr`. `Bitwise`
itself is recursive, and the prover cannot be used from a module that
reaches it. The module's own specification
(`PSpec`) applies the macros to two pages in any order, as their callers may:
`MarkDirty`, `MarkFlag`, `ChangeType`, `SetLowFlags`, and `Pin` and `Unpin`
(`page_inc_inuse` and `page_dec_inuse`, with nothing pairing them).

`MarkFlag` and `SetLowFlags` model how callers use the raw setters
`page_set_npers_flags` and `page_set_pers_flags`. They read the word, OR in
a flag (or write the low bits) and store the result. The raw setters
themselves (`page.h:200`, `page.h:210`) assign the whole word, so a caller
that passed a bare constant could clear any flag. `OtherFlagsSurviveUndirty`
is a statement about the read-modify-write idiom, not about the setters
alone.

### `WalSystem`: the database around the log

`WalSystem` extends `WalLog` and chains its operators inside one handler per
database operation. The state added:

- `cache`: the page objects;
- `mem` and `disk`: the payloads in the cache and in the data file;
- `journaled`: the pages whose before-image this checkpoint interval has
  logged;
- `txnPages`: `PAGE_LIST_TXN` of each running transaction;
- `roActive`: the running read-only transactions;
- `undoImg`: the payload a page had when its transaction took it;
- `mode`: run, down (after a crash), closed (keeping the log), recover;
- `plan`: the page writes recovery still has to apply;
- the history variables `committed`, `hist` and `target`, which the
  properties read.

Actions, from the `LogHighLevelTest` cases:

- `Begin`, and `ReadOnlyBegin` / `ReadOnlyCommit(t)` for a
  `HAM_TXN_READ_ONLY` transaction. Its id is taken, kept in `roActive`
  until its commit, and nothing is logged at either end
  (`multipleTxnReadonlyBeginCommitTest`). The closes wait for read-only
  transactions as well as writing ones.
- `Modify(t, p, i)`: the page joins the transaction (`page_inc_inuse` the
  first time) and is marked dirty. It logs a PREWRITE unless already
  journaled in this interval.
- `Commit(t)`: a WRITE per held page, then TXN_COMMIT through `AfterEnd`
  (fsync, checkpoint policy). The pages are released and `journaled` is
  reset if the log rotated.
- `Abort(t)`: TXN_ABORT, and the pages get back `undoImg`.
- `Flush(p)`: the pager writes back a dirty page with `inuse = 0` and logs
  FLUSH_PAGE.
- `CloseClean` (`ham_close(db, 0)`) and `CloseKeepLog`
  (`ham_close(db, HAM_DONT_CLEAR_LOG)`).
- `Crash`: each file keeps its fsynced prefix and possibly more of its
  appends. The cache and the transactions are lost.
- `OpenEmpty`, `OpenRecover`, `RecoverStep` (one write of the plan),
  `RecoverFinish` (the log is cleared) and `CrashInRecovery`.

The implementation of recovery is not in the repository. `RecoveryPlan`
follows spec §4.6:

- analysis of the retained entries, oldest file first;
- redo, from the last CHECKPOINT on, of the after-images of committed
  transactions;
- undo, newest first, of the before-images of transactions that began and
  neither committed nor aborted.

The model writes data-file pages durably at once. Only the log has a
volatile tail.

### `WalPatch`: the undo tests

`WalPatch` extends `WalSystem` with the step that the undo tests of
`LogHighLevelTest` take between a close and a reopen. `patchLogfile`
rewrites the TXN_COMMIT of the last committed transaction into a TXN_ABORT.
History variables record that transaction and its pages' payloads before it.

### `AbstractLog` and the refinement

`AbstractLog` states what the writer promises its readers (the iterator and
recovery), without files, counters or a current index:

- the log is one sequence `alog` of entries and the next LSN `alsn`;
- `AWrite` appends a batch of entries stamped with consecutive LSNs. It may
  drop a prefix whose last entry is a CHECKPOINT, provided the batch ends
  with a new one;
- `AClear` empties the log and restarts the LSNs at 1.

`WalLog` instantiates it as `ABS`. The mapping:

- `alog` is `Retained`, the other file followed by the current one;
- `alsn` is `log.lsn`.

`RefinesAbstractLog` (`ABS!ASpec`) is a property of `WalLog`'s `Spec`.

## Runs

| run | cfg | expect | properties |
|---|---|---|---|
| walog_safety | `MCWalLog.cfg` | pass | TypeOK, LsnContiguous, CountersMatchLog, OpenTxnsRetained, DropsOnlyCheckpointed |
| walog_refines | `MCWalLogRefines.cfg` | pass | RefinesAbstractLog |
| walit_walk | `MCWalIterator.cfg` | pass | IterTypeOK, WalkIsNewestFirst |
| walit_from_one | `MCWalIteratorFromOne.cfg` | violation | WalkFromLsnOne |
| page_flags | `MCPage.cfg` | pass | PageTypeOK, TypeIsLastSet, OtherFlagsSurviveUndirty |
| walsys_safety | `MCWalSystem.cfg` | pass | InuseCountsHolders, JournaledLogged, SysCountersMatchLog, RecoveredOnlyCommitted, RecoveryIdempotent |
| walsys_durable | `MCWalSystemDurable.cfg` | violation | CommittedSurvives |
| walpatch_undo | `MCWalPatch.cfg` | violation | PatchedTxnReverted |

Properties of `walog_safety`:

- `LsnContiguous`: the two files, oldest first, hold consecutive LSNs ending
  at `lsn - 1`.
- `CountersMatchLog`: the counters equal the number of running and ended
  transactions whose TXN_BEGIN is in each file.
- `OpenTxnsRetained`: the TXN_BEGIN of a running transaction is never
  truncated.
- `DropsOnlyCheckpointed` (an action property): a step other than clear drops
  only entries at or before the last checkpoint.

`walit_walk` checks `WalkIsNewestFirst`. After any history of writes,
rotations and clears, the walk returns exactly the retained entries, newest
first, then the sentinel forever. This connects the reopen's inference of the
newer file to the writer's `cur`, including just after a rotation, when the
current file is empty.

`walog_refines` checks that every `WalLog` step is an abstract write, an
abstract clear or a stutter of `Retained` and `lsn`. In particular:

- a rotation drops only what the previous rotation left behind, which ends
  with a CHECKPOINT;
- no retained entry is ever rewritten.

`page_flags` checks the `page.h` macros in any order of calls:

- `TypeIsLastSet`: `page_get_type` returns the type last set, because
  `page_set_type` masks out the old nibble first.
- `OtherFlagsSurviveUndirty`: clearing the dirty bit keeps every other
  non-persistent flag.

`walsys_safety` checks the composed system:

- `InuseCountsHolders`: each page's `_inuse` equals the number of running
  transactions holding it. The counter never misses a release and never
  wraps below zero, so the pager's "not in use" test before a write-back is
  sound.
- `JournaledLogged`: while the database is open, every page marked
  journaled has a PREWRITE in the current log file. `Modify` skips the
  before-image of a journaled page, which is safe only if the one it relies
  on survives. The marks must therefore be reset when a commit or abort
  rotates the log (`insertAfterCheckpointTest` logs the page's PREWRITE
  again after the checkpoint). Breaking it takes two transactions and a
  rotation between them.
- `SysCountersMatchLog`: while the database is open, the log's open and
  closed counters count exactly the writing transactions with a TXN_BEGIN in
  each file. Read-only transactions interleave with writing ones and must
  leave the counters alone, or the checkpoint policy reads a wrong
  `open_txn`.
- `RecoveredOnlyCommitted`: when the database opens after recovery, every
  page holds a committed payload, never that of an unfinished transaction.
- `RecoveryIdempotent`: however often the process dies during recovery, the
  data file finally equals the result of one uninterrupted recovery.

Each property has a mutant in `PROJECT.json`, and each mutant violates it:

- a rotation that does not truncate, or that keeps the counters;
- a policy that rotates with transactions open;
- counters updated on the wrong file;
- a checkpoint that forgets its LSN;
- an iterator that always starts in file 0;
- an iterator that steps back on every call.
- a rotation that truncates the file it leaves instead of the one it enters;
- `page_set_type` without the mask;
- `page_set_dirty(page, 0)` with `&` for `& ~`;
- a flag added instead of ORed in;
- a release that decrements every dirty page, not only the transaction's own;
- a write-back of a page still in use;
- a recovery that clears the log before its writes are done;
- a commit or abort that never resets the journaled marks on rotation;
- a read-only commit that takes the logging path (`AfterEnd`).

### Bounds

`MCWalLog.cfg`:

- One page and one image suffice, because no property distinguishes payloads.
- `Threshold = 1`: every commit or abort that leaves no transaction open
  rotates. With `MaxTxn = 3`, a delayed rotation (two transactions open)
  happens as well.
- `MaxLsn = 6`: appends are refused past LSN 6. Commit and abort are never
  refused, so every running transaction can end. This reaches two rotations,
  rotations with transactions open in the other order, and clears after
  rotations.
- 1,060,410 states, about 10 s.

`MCWalIterator.cfg` uses `MaxLsn = 5`. That still gives two rotations before a
reopen, so the walk crosses files and meets an empty current file. 871,695
states.

`MCWalLogRefines.cfg` uses the `MCWalLog.cfg` instance: 1,060,410 states.

`MCPage.cfg`: two pages and `InuseMod = 4`, so the counter's range is 0..3
and `Pin` and `Unpin` wrap it both ways. `PSpec` lets each page reach every
combination of flags, counter, type and low flags, and every type is set
over every other: 1,638,400 states, about 100 s.

`MCWalSystem.cfg`:

- two pages and three payloads, so that a page's committed, in-flight and
  initial payloads differ;
- `Threshold = 1`, `MaxTxn = 3`, `MaxLsn = 6`. This reaches a rotation in
  the middle of a history, a crash with an unsynced tail, and a crash during
  recovery;
- `InuseMod = 4`, so a wrap of `page_dec_inuse` would be a wrong value, not
  an unreachable one;
- the three transaction ids are shared by writing and read-only
  transactions, so a read-only commit interleaves with writers in every
  order;
- 319,543 states, about 20 s.

### Fairness

No run checks liveness, and no specification assumes fairness. Recovery
terminating is immediate in the model: `RecoverStep` shortens a finite plan
by one, so a liveness property about it would restate that step.

### Findings

The violation run of the log alone is a disagreement with the design text
(`spec_gap` in `PROJECT.json`):

- **LSNs from 1** (`walit_from_one`). Spec §8 says a full iteration, reversed,
  yields LSNs 1, 2, 3, …. That holds only until the first rotation that
  truncates. After two rotations the walk returns 6, 5, 4, matching
  `iterateOverLogMultipleEntrySwapTwiceTest`, which finds 6 of 11
  transactions.

Two further violation runs come from the composed system:

- **Durability across a checkpoint** (`walsys_durable`, `spec_gap`). The
  pager logs FLUSH_PAGE only when it writes a page back or at close, never
  at a checkpoint (`insertAfterCheckpointTest`), while spec §4.6 starts redo
  at the last CHECKPOINT. So a page committed before a rotation and not
  written back since is lost by a crash. The trace is: Begin, Modify, Commit
  with a rotation, Crash, recovery; the page then holds its old payload.
  Spec §5 promises that a committed transaction is durable.
  `redoMultipleInsertsCheckpointTest` passes only because every insert
  rewrites the same root page after the checkpoint.
- **Undo of a patched commit** (`walpatch_undo`, `spec_code_divergence`).
  `undoMultipleInsertsCheckpointTest` patches the last TXN_COMMIT to
  TXN_ABORT after a close that wrote every page back. It expects the
  transaction's change to be gone after recovery. But spec §4.6 ignores
  ABORTED transactions and redoes only committed after-images, so nothing
  restores the before-image. The trace is: Begin, Modify, Commit,
  CloseKeepLog, PatchCommit, OpenRecover, RecoverFinish.

## Proofs

### The log writer (`WalLogProofs`)

These hold for every value of the constants, assuming `WalLogAssumption`:

- `Threshold` is a positive natural;
- `MaxTxn` and `MaxLsn` are naturals;
- the markers `NoPage` and `NoImg` are outside `Pages` and `Images`.

The theorems:

- `TypeCorrect`: `Spec => []TypeOK`. In particular, no counter ever goes
  below zero.
- `OpenTxnsRetainedThm`: `Spec => []OpenTxnsRetained`.

Neither is inductive as stated:

- A commit decrements `open[cur]`, which stays a natural only if the
  committing transaction is counted there.
- A rotation is safe only because `open[cur] = 0` means nothing is running.

The inductive invariant `IInv` strengthens them. It says:

- `open` of the other file is 0;
- `open[cur]` is the number of running transactions;
- every running transaction has its TXN_BEGIN in the current file;
- ids of running transactions are below `nextTxn`, so a begin never reuses
  one.

TLC checked `IInv` as an invariant of the `walog_safety` instance before it
was proved.

The proof has one lemma per action. It rests on field lemmas for
`AppendEntry`, `Sync`, `AfterCheckpoint`, `Rotate` and the counter updates
(`Begun`, `Ended`), and on `FS_AddElement`, `FS_RemoveElement` and
`FS_EmptySet` for the cardinality of `active`. Record `EXCEPT` is proved with
Zenon, and arithmetic and sequences with SMT, in separate steps.

### The refinement (`WalLogRefinementProofs`)

This module proves, from the same assumption:

- `RInvHolds`: `Spec => []RInv`;
- `RefinesAbstractLogThm`: `Spec => RefinesAbstractLog`. The log writer
  implements `AbstractLog` under the mapping `alog <- Retained`,
  `alsn <- log.lsn`.

The step from `Retained` to `Retained'` needs a fact that `IInv` does not
give. A rotation drops the file it enters, so the abstract write drops a
prefix, and that prefix must end with a CHECKPOINT. It does, because the
file a rotation leaves ends with the CHECKPOINT that the rotation put there,
and nothing is appended to it until the next rotation. `RInv` is `IInv`
plus `OtherEndsWithCkpt`: the file that is not current is empty or ends
with a CHECKPOINT. TLC checked it on the `walog_safety` instance first.

The proof goes as follows:

1. Lemmas on log values (`AppendRet`, `CheckpointRet`, `RotateRet`) say what
   `RetOf` of each operator's result is. `RetOf(lg)` is the other file
   followed by the current one.
2. Two lemmas on the abstract spec produce `ABS!AWrite`:
   - `AbsAppendOne`: one appended entry, with `k = 0`;
   - `AbsAppendRotate`: an entry plus a checkpoint after dropping the other
     file, with `k = Len(other)`. It uses `ConcatAssociative` from
     `SequenceTheorems`.
3. One lemma per action (`AppendActionRefines`, `BeginRefines`,
   `EndRefines`, with a case for each outcome of the checkpoint policy).
4. `NextRefines` cases on `Next`. `Clear` maps to `AClear`, and a stutter to
   a stutter.
5. The theorem combines `Init => ABS!AInit`, `RInvHolds` and `NextRefines`
   with PTL.

### LSN contiguity (`WalLogRefinementProofs`)

`LsnContiguousThm` proves `Spec => []LsnContiguous`. The retained entries
carry consecutive LSNs that end just below `log.lsn`. It is carried by the
refinement rather than proved action by action:

- `AbstractLog` keeps contiguity in every `AWrite` and `AClear`
  (`ContiguousWrite`). The kept suffix moves to the front with its stamps,
  and the new batch continues them.
- `LsnInv` adds `Len(Retained) < log.lsn`, which contiguity alone does not
  give and the next step needs (`LenBelowWrite`).
- `LsnInvStep` maps each step through `NextRefines` to an abstract step.

### The counters (`WalLogCounterProofs`)

`CountersMatchLogThm` proves `Spec => []CountersMatchLog`. `open[f]` and
`closed[f]` count the running and ended transactions whose TXN_BEGIN is in
file `f`. A begin or an end moves a counter by one, so the proof shows
that such a step changes the counted set by exactly one element.
The inductive invariant `CInv` adds two facts to `IInv`:

- `BeginsBelowNext`: every TXN_BEGIN in the files has an id below `nextTxn`,
  so a new transaction has no entry yet;
- `ActiveNotInOther`: no running transaction has its TXN_BEGIN in the
  other file, so an end changes only the current file's counts.

A rotation truncates the new current file and resets its counters, so
both sides are zero there. The file it leaves keeps its entries and its
counts. These still match, because a rotation happens only when
`open[cur] = 0`, so no transaction is running.

### Dropped entries (`WalLogDropProofs`)

`DropsOnlyCheckpointedThm` proves `Spec => DropsOnlyCheckpointed`, an
action property. Apart from `ham_log_clear`, a step drops only entries at or
below `log.ckpt`. The argument has two parts:

- `DNext`: a step that raises the LSN keeps the current file as a prefix of
  what that file holds afterwards (`KeepsPrefix`). An append extends it. A
  rotation appends the CHECKPOINT to it and makes it the other file.
  Only entries of the old other file can therefore disappear.
- `DInvHolds`: those entries are at or below `log.ckpt`. `DInv` says every
  entry of either file is below `log.lsn`, and every entry of the other
  file is at or below `log.ckpt`. The second conjunct needs the first. A
  rotation sets `ckpt` to the LSN of its CHECKPOINT, which is above every
  entry the closed file already held.

TLC checked `DInv` on the `walog_safety` instance before it was proved.

### The iterator (`WalIteratorProofs`)

These hold for every value of the constants:

- `WalkIsNewestFirstThm`: `ISpec => []WalkIsNewestFirst`;
- `IterTypeOKThm`: `ISpec => []IterTypeOK`.

Both follow from `JInvHolds`. The inductive invariant `JInv` says:

- While writing, `RInv` and `LsnInv` hold, the iterator is zeroed and
  nothing has been returned.
- While reading, `active` is empty, and the k entries returned so far are
  the first k of the walk (`WalkAt`). The walk is file A backwards, then
  file B backwards, then sentinels.
- While reading, the iterator is either still zeroed with nothing
  returned, or at `PosIs(iter, Newest(log), A, B, k)`. It is in A at
  offset `Len(A) - k` until A is read. Then it is in B, flagged as the
  second file, at offset `Len(A) + Len(B) - k`, and at 0 for good.

TLC checked `JInv` on the `walit_walk` instance (871,695 states) before it
was proved. The proof rests on three facts:

- `NewestFacts`: the file `ham_log_open` picks by last LSN is the current
  file, unless the current file is empty. This is where `LsnInv` is
  needed: the last LSN of the current file is above that of the other.
- `ExpectedWalkAt`: `ExpectedWalk`, the retained log reversed and then
  sentinels, agrees with `WalkAt` everywhere.
- `GetEntryStep`: one call of `ham_log_get_entry` moves the iterator from
  the position for k to the position for k + 1 and returns `WalkOf(A, B,
  k + 1)`. There is a lemma for each place the iterator can be: inside A,
  at A's header (`SettleCross`), inside B, and at B's header. The
  arithmetic of these cases is in `OffsetStep` over plain sequences.

Positions are stated field by field, not as record equalities, for two
reasons:

- The SMT backend cannot translate a record `EXCEPT`, and Zenon does not
  prove equalities of records. Field projections of an `EXCEPT` work in
  both.
- The SMT backend times out on trivial arithmetic once a term like
  `Len(lg.files[f])` is in context. The arithmetic therefore lives in
  lemmas over sequence constants (`OffsetStep`, `LastLsnsOfPair`,
  `ReversedPair`), which are instantiated at the log.

### The page macros (`PageProofs`)

These hold for every set of pages, assuming `PageAssumption`: the counter
holds at least the values 0 and 1 (`InuseMod \in Nat \ {0, 1}`).

- `PageTypeCorrect`: `PSpec => []PageTypeOK`. Its counter conjunct rests on
  `InuseFields`: `Pin` and `Unpin` wrap the counter modulo `InuseMod`;
- `TypeIsLastSetThm`: `PSpec => []TypeIsLastSet`;
- `OtherFlagsSurviveUndirtyThm`: `PSpec => OtherFlagsSurviveUndirty`, an
  action property.

`PageTypeOK /\ TypeIsLastSet` is inductive as it stands. The proof rests on
three lemmas about the bit operations, proved by SMT over the six-bit word:

- `BitRange`: setting or clearing one bit keeps the word within 0..63;
- `BitKept`: setting a bit keeps every bit, and clearing one keeps every
  other bit;
- `NibbleOrZero`: ORing a page type into a cleared nibble gives that type.

This last fact is what the mask `& 0x0fffffff` in `page_set_type` is for.
Lemmas on each macro (`SetDirtyFields`, `AddFlagFields`, `SetTypeFields`)
then give one step per action.

### The in-use counters (`WalSystemProofs`)

`InuseCountsHoldersThm` proves `SSpec => []InuseCountsHolders`, assuming
`WalSystemAssumption` and `WalLogAssumption`. Each cached page's `_inuse`
equals the number of running transactions whose PAGE_LIST_TXN holds it. The
inductive invariant `WInv` says:

- a transaction that is not running holds no page;
- every page is either held by no transaction with counter 0, or by
  exactly one running transaction with counter 1 (`HeldOnce`). This uses
  `Modify`'s guard that no other transaction holds the page.

The first conjunct is needed because `txn_begin` adds a transaction to the
running set: it must hold nothing, or the count would jump. The second one
pins the counter to 0 or 1, so that `page_inc_inuse` and `page_dec_inuse`
never reach the modulus. The only fact needed about the modulus is
`InuseMod >= 2`.

The proof has one lemma per kind of step:

- `KeepStep`: steps that change no holder;
- `BeginStep`;
- `ModifyStep`: 0 to 1, or stays 1;
- `EndStep`: commit and abort, each page of the transaction 1 to 0;
- `ForgetStep`: close keeping the log, and crash, where the cache is lost.

The log half of each step plays no part. TLC checked `WInv` on the
`walsys_safety` instance (303,350 states, before the read-only
transactions were split into begin and commit) before it was proved.
`ReadOnlyBegin` and `ReadOnlyCommit` change no holder and fall under
`KeepStep`.

### Left to TLC

- `JournaledLogged`, `SysCountersMatchLog`, `RecoveredOnlyCommitted` and
  `RecoveryIdempotent`. Their proofs need what recursive functions compute
  for every input:
  - `AppendAll` appends the WRITE or FLUSH_PAGE entries of a list of pages
    at commit and at close;
  - `RecoveryPlan` filters the retained log with `SelectSeq`;
  - `ApplyWrites` applies the plan.
  
  Typing these results, or relating them to `hist`, is induction over a
  sequence. The library's induction theorems take an operator parameter,
  which none of the installed provers instantiates.
- The violation runs show counterexamples, which need no proof.

## Not modelled

- **Entry codec**: pure field packing and byte order; entries are records.
- **File errors**: create and open failures (`IoError`, `FileNotFound`,
  `InvalidFileHeader`) and the header bytes.
- **A crash in the middle of a rotation** (hazard at `log.cpp:441`).
  `Rotate` is one step. The state in which the CHECKPOINT reached the old
  file but the new current file was not yet truncated, so that both files
  are full, is not reached. Modelling it needs the ordering of the
  truncation's durability, which the repository does not show.
- **`clearTest`'s clear with a running transaction** (hazard at
  `log.cpp:489`). The database calls `ham_log_clear` only at close and after
  recovery, with no transaction running, and the model allows it only then.
- **`ham_open` without `HAM_AUTO_RECOVERY`** on a non-empty log. It returns
  `HAM_NEED_RECOVERY` and changes nothing, so it is not an action.
- **Page lists and cursors** (`page_list_*`, `page_add_cursor`). They are
  only prototypes in `page.h`. The self, owner and cache accessors are
  plain fields that no property reads.
- **B-tree, freelist, blob store, cache policy**: out of the subsystem's
  scope; they appear only as the sources of page payloads.
- **The data file**: writes to it are durable when done. Only the log has a
  volatile tail.
