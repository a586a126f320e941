------------------------------ MODULE WalPatch -------------------------------
(***************************************************************************)
(* The undo tests of LogHighLevelTest: the database is closed keeping its  *)
(* log (ham_close(db, HAM_DONT_CLEAR_LOG)), patchLogfile rewrites the      *)
(* TXN_COMMIT of the last committed transaction into a TXN_ABORT, and the  *)
(* database is reopened with HAM_AUTO_RECOVERY.  The tests expect the      *)
(* patched transaction's changes to be gone and the earlier ones kept.     *)
(***************************************************************************)
EXTENDS WalSystem

VARIABLES
    lastTxn,     \* history: the transaction that committed last, 0 if none
    lastBefore,  \* history: the payload each of its pages had before it
    patched      \* a TXN_COMMIT was rewritten since the database was closed

patchVars == <<lastTxn, lastBefore, patched>>
pVars == <<allVars, patchVars>>

NoBefore == [p \in Pages |-> NoImg]

\* An entry is the TXN_COMMIT of transaction t.
IsCommitOf(e, t) == e.type = "TXN_COMMIT" /\ e.txn = t

\* log_entry_set_type(&entry, LOG_ENTRY_TYPE_TXN_ABORT) and os_pwrite of the
\* entry at the iterator's offset: the entry keeps its LSN and transaction.
PatchedFiles(fs, t) ==
    [f \in Files |-> [i \in DOMAIN fs[f] |->
        IF IsCommitOf(fs[f][i], t)
        THEN [fs[f][i] EXCEPT !.type = "TXN_ABORT"] ELSE fs[f][i]]]

PInit ==
    /\ SInit
    /\ lastTxn = 0
    /\ lastBefore = NoBefore
    /\ patched = FALSE

\* A commit also records, as history, which pages it changed and their
\* payloads before the transaction took them.
PCommit(t) ==
    /\ Commit(t)
    /\ lastTxn' = t
    /\ lastBefore' = [p \in Pages |-> IF p \in txnPages[t] THEN undoImg[p] ELSE NoImg]
    /\ UNCHANGED patched

\* patchLogfile(".test", txn): walk the closed log newest first with a
\* reopened handle, rewrite the TXN_COMMIT of txn, close keeping the files;
\* BFC_ASSERT_EQUAL(1, found).
PatchCommit ==
    /\ mode = "closed"
    /\ ~patched
    /\ \E f \in Files : \E i \in DOMAIN log.files[f] : IsCommitOf(log.files[f][i], lastTxn)
    /\ log' = [log EXCEPT !.files = PatchedFiles(log.files, lastTxn)]
    /\ patched' = TRUE
    /\ UNCHANGED <<active, nextTxn, sysVars, lastTxn, lastBefore>>

\* Every other step of the database, the history unchanged; the end of a
\* recovery closes the experiment.
Other ==
    /\ SNext
    /\ ~\E t \in active : Commit(t)
    /\ patched' = (patched /\ mode' # "run")
    /\ UNCHANGED <<lastTxn, lastBefore>>

PNext ==
    \/ \E t \in active : PCommit(t)
    \/ PatchCommit
    \/ Other

PSpec == PInit /\ [][PNext]_pVars

-----------------------------------------------------------------------------

\* undoInsertTest, undoMultipleInsertsTest, undoMultipleInsertsCheckpointTest:
\* after the TXN_COMMIT of the last transaction is patched to TXN_ABORT and
\* the database recovered, each page that transaction changed holds again
\* the payload it had before the transaction.
PatchedTxnReverted ==
    [][patched /\ mode' = "run" =>
         \A p \in Pages : lastBefore[p] # NoImg => disk'[p] = lastBefore[p]]_pVars

=============================================================================
