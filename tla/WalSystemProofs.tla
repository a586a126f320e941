--------------------------- MODULE WalSystemProofs ---------------------------
(***************************************************************************)
(* The in-use counters of the cached pages (page_inc_inuse and             *)
(* page_dec_inuse called by the transactions that modify and release the   *)
(* pages) always count the running transactions holding each page.         *)
(***************************************************************************)
EXTENDS WalSystem, FiniteSetTheorems, TLAPS

\* The shape of a cached ham_page_t that the proof needs.
CacheRec == [npers : Int, inuse : Nat, hi : Int, lo : Int]

\* Page p is held by no running transaction and not in use, or by exactly
\* one and in use once.
HeldOnce(p) ==
    \/ Holders(p) = {} /\ cache[p].inuse = 0
    \/ \E t \in active : Holders(p) = {t} /\ cache[p].inuse = 1

\* The inductive invariant: a transaction that is not running holds no
\* page, and each page is held at most once.
WInv ==
    /\ active \subseteq TxnIds
    /\ txnPages \in [TxnIds -> SUBSET Pages]
    /\ \A t \in TxnIds \ active : txnPages[t] = {}
    /\ cache \in [Pages -> CacheRec]
    /\ \A p \in Pages : HeldOnce(p)

USE WalSystemAssumption, WalLogAssumption

-----------------------------------------------------------------------------
(* The page macros the transactions call, on the in-use counter.           *)

\* page_set_dirty leaves the in-use counter alone.
LEMMA SetDirtyInuse ==
    ASSUME NEW r \in CacheRec, NEW d \in BOOLEAN
    PROVE  Pg!SetDirty(r, d) \in CacheRec /\ Pg!SetDirty(r, d).inuse = r.inuse
<1>1. /\ Pg!OrBit(r.npers, Pg!PAGE_NPERS_DIRTY) \in Int
      /\ Pg!ClearBits(r.npers, Pg!PAGE_NPERS_DIRTY) \in Int
  BY SMT DEF CacheRec, Pg!OrBit, Pg!ClearBits, Pg!HasBit, Pg!PAGE_NPERS_DIRTY
<1> QED
  BY <1>1, Zenon DEF Pg!SetDirty, CacheRec

\* page_inc_inuse on an unused page: the counter, which holds at least 0
\* and 1, becomes 1.
LEMMA IncFromZero ==
    ASSUME NEW r \in CacheRec, r.inuse = 0
    PROVE  Pg!IncInuse(r) \in CacheRec /\ Pg!IncInuse(r).inuse = 1
<1>1. (r.inuse + 1) % InuseMod = 1
  BY SMT
<1>2. Pg!IncInuse(r) = [r EXCEPT !.inuse = 1]
  BY <1>1, Zenon DEF Pg!IncInuse
<1>3. 1 \in Nat
  OBVIOUS
<1> QED
  BY <1>2, <1>3, Zenon DEF CacheRec

\* page_dec_inuse on a page used once: the counter becomes 0.
LEMMA DecFromOne ==
    ASSUME NEW r \in CacheRec, r.inuse = 1
    PROVE  Pg!DecInuse(r) \in CacheRec /\ Pg!DecInuse(r).inuse = 0
<1>1. (r.inuse + InuseMod - 1) % InuseMod = 0
  BY SMT
<1>2. Pg!DecInuse(r) = [r EXCEPT !.inuse = 0]
  BY <1>1, Zenon DEF Pg!DecInuse
<1>3. 0 \in Nat
  OBVIOUS
<1> QED
  BY <1>2, <1>3, Zenon DEF CacheRec

-----------------------------------------------------------------------------
(* The steps of the database, by what they do to the pages' holders.       *)

\* A step that keeps the transactions, what they hold and the counters.
LEMMA KeepStep ==
    ASSUME WInv, active' = active, txnPages' = txnPages,
           cache' \in [Pages -> CacheRec],
           \A p \in Pages : cache'[p].inuse = cache[p].inuse
    PROVE  WInv'
<1>1. \A p \in Pages : Holders(p)' = Holders(p)
  BY DEF Holders
<1> QED
  BY <1>1 DEF WInv, HeldOnce

\* txn_begin: the new transaction holds nothing yet.
LEMMA BeginStep ==
    ASSUME WInv, nextTxn \in TxnIds, active' = active \cup {nextTxn},
           UNCHANGED <<cache, txnPages>>
    PROVE  WInv'
<1>1. \A p \in Pages : Holders(p)' = Holders(p)
  BY DEF WInv, Holders
<1>2. \A t \in TxnIds \ active' : txnPages'[t] = {}
  BY DEF WInv
<1> QED
  BY <1>1, <1>2 DEF WInv, HeldOnce

\* The process state is lost: no transaction, every page fresh.
LEMMA ForgetStep ==
    ASSUME WInv, Forgotten
    PROVE  WInv'
<1>1. Pg!NewPage \in CacheRec /\ Pg!NewPage.inuse = 0
  BY DEF Pg!NewPage, CacheRec
<1>2. \A p \in Pages : Holders(p)' = {}
  BY DEF Forgotten, Holders
<1> QED
  BY <1>1, <1>2 DEF Forgotten, WInv, HeldOnce

\* Transaction t modifies page p: p joins PAGE_LIST_TXN of t, and its
\* counter goes from 0 to 1 unless t already held it.
LEMMA ModifyStep ==
    ASSUME WInv, NEW t \in active, NEW p \in Pages, Holders(p) \subseteq {t},
           active' = active,
           cache' = [cache EXCEPT ![p] =
                        IF p \in txnPages[t] THEN Pg!SetDirty(@, TRUE)
                        ELSE Pg!IncInuse(Pg!SetDirty(@, TRUE))],
           txnPages' = [txnPages EXCEPT ![t] = @ \cup {p}]
    PROVE  WInv'
<1>0. t \in TxnIds /\ cache[p] \in CacheRec
  BY DEF WInv
<1> DEFINE v == IF p \in txnPages[t] THEN Pg!SetDirty(cache[p], TRUE)
                ELSE Pg!IncInuse(Pg!SetDirty(cache[p], TRUE))
<1>1. v \in CacheRec /\ v.inuse = 1
  <2>1. Pg!SetDirty(cache[p], TRUE) \in CacheRec
        /\ Pg!SetDirty(cache[p], TRUE).inuse = cache[p].inuse
    BY <1>0, SetDirtyInuse
  <2>2. CASE p \in txnPages[t]
    <3>1. t \in Holders(p)
      BY <2>2 DEF Holders
    <3>2. cache[p].inuse = 1
      BY <3>1 DEF WInv, HeldOnce
    <3> QED
      BY <2>1, <2>2, <3>2
  <2>3. CASE p \notin txnPages[t]
    <3>1. Holders(p) = {}
      BY <2>3 DEF Holders
    <3>2. cache[p].inuse = 0
      BY <3>1 DEF WInv, HeldOnce
    <3> QED
      BY <2>1, <2>3, <3>2, IncFromZero
  <2> QED
    BY <2>2, <2>3
<1>2. cache' = [cache EXCEPT ![p] = v]
  OBVIOUS
<1>3. cache' \in [Pages -> CacheRec]
  BY <1>1, <1>2 DEF WInv
<1>4. Holders(p)' = {t}
  BY <1>0 DEF WInv, Holders
<1>5. ASSUME NEW q \in Pages, q # p PROVE HeldOnce(q)'
  <2>1. Holders(q)' = Holders(q) /\ cache'[q] = cache[q]
    BY <1>0, <1>5 DEF WInv, Holders
  <2> QED
    BY <2>1 DEF WInv, HeldOnce
<1>6. HeldOnce(p)'
  BY <1>1, <1>2, <1>4, <1>0 DEF HeldOnce, WInv
<1> QED
  BY <1>0, <1>3, <1>5, <1>6 DEF WInv

\* txn_commit or txn_abort of t: every page of its PAGE_LIST_TXN goes from
\* 1 back to 0, and t holds nothing any more.
LEMMA EndStep ==
    ASSUME WInv, NEW t \in active, active' = active \ {t},
           cache' = Release(cache, txnPages[t]),
           txnPages' = [txnPages EXCEPT ![t] = {}]
    PROVE  WInv'
<1>0. t \in TxnIds
  BY DEF WInv
<1>1. ASSUME NEW q \in Pages, q \in txnPages[t]
      PROVE  cache'[q] \in CacheRec /\ HeldOnce(q)'
  <2>1. t \in Holders(q)
    BY <1>1 DEF Holders
  <2>2. Holders(q) = {t} /\ cache[q].inuse = 1
    BY <2>1 DEF WInv, HeldOnce
  <2>3. cache'[q] = Pg!DecInuse(cache[q]) /\ cache[q] \in CacheRec
    BY <1>1 DEF Release, WInv
  <2>4. cache'[q] \in CacheRec /\ cache'[q].inuse = 0
    BY <2>2, <2>3, DecFromOne
  <2>5. Holders(q)' = {}
    <3>1. \A u \in active \ {t} : q \notin txnPages[u]
      BY <2>2 DEF Holders
    <3> QED
      BY <3>1, <1>0 DEF WInv, Holders
  <2> QED
    BY <2>4, <2>5 DEF HeldOnce
<1>2. ASSUME NEW q \in Pages, q \notin txnPages[t]
      PROVE  cache'[q] \in CacheRec /\ HeldOnce(q)'
  <2>1. cache'[q] = cache[q] /\ cache[q] \in CacheRec
    BY <1>2 DEF Release, WInv
  <2>2. Holders(q)' = Holders(q) /\ t \notin Holders(q)
    BY <1>2, <1>0 DEF WInv, Holders
  <2> QED
    BY <2>1, <2>2 DEF WInv, HeldOnce
<1>3. cache' \in [Pages -> CacheRec]
  BY <1>1, <1>2 DEF Release
<1>4. \A u \in TxnIds \ active' : txnPages'[u] = {}
  BY <1>0 DEF WInv
<1> QED
  BY <1>0, <1>1, <1>2, <1>3, <1>4 DEF WInv

-----------------------------------------------------------------------------
(* The invariant and the theorem.                                          *)

LEMMA InitWInv == SInit => WInv
<1> SUFFICES ASSUME SInit PROVE WInv
  OBVIOUS
<1>1. Pg!NewPage \in CacheRec /\ Pg!NewPage.inuse = 0
  BY DEF Pg!NewPage, CacheRec
<1>2. \A p \in Pages : Holders(p) = {}
  BY DEF SInit, Init, Holders
<1> QED
  BY <1>1, <1>2 DEF SInit, Init, WInv, HeldOnce

\* Writing a page back (page_set_dirty(page, 0)) keeps the counters.
LEMMA UndirtyKeeps ==
    ASSUME WInv, NEW ps \in SUBSET Pages,
           cache' = [p \in Pages |-> IF p \in ps THEN Pg!SetDirty(cache[p], FALSE)
                                     ELSE cache[p]]
    PROVE  cache' \in [Pages -> CacheRec]
           /\ \A p \in Pages : cache'[p].inuse = cache[p].inuse
BY SetDirtyInuse DEF WInv

LEMMA NextWInv == WInv /\ [SNext]_allVars => WInv'
<1> SUFFICES ASSUME WInv, [SNext]_allVars PROVE WInv'
  OBVIOUS
<1>1. CASE Begin
  BY <1>1, BeginStep DEF Begin, TxnBegin, sysVars
<1>2. CASE ReadOnlyBegin \/ \E t \in roActive : ReadOnlyCommit(t)
  <2>1. UNCHANGED <<active, cache, txnPages>>
    BY <1>2 DEF ReadOnlyBegin, ReadOnlyCommit
  <2> QED
    BY <2>1, KeepStep DEF WInv
<1>3. ASSUME NEW t \in active, NEW p \in Pages, NEW i \in Images, Modify(t, p, i)
      PROVE  WInv'
  BY <1>3, ModifyStep DEF Modify
<1>4. ASSUME NEW t \in active, Commit(t) \/ Abort(t)
      PROVE  WInv'
  <2>1. /\ active' = active \ {t}
        /\ cache' = Release(cache, txnPages[t])
        /\ txnPages' = [txnPages EXCEPT ![t] = {}]
    BY <1>4 DEF Commit, Abort
  <2> QED
    BY <2>1, EndStep
<1>5. ASSUME NEW p \in Pages, Flush(p)
      PROVE  WInv'
  <2>1. cache' = [q \in Pages |-> IF q \in {p} THEN Pg!SetDirty(cache[q], FALSE)
                                  ELSE cache[q]]
    BY <1>5 DEF Flush, WInv
  <2> QED
    BY <1>5, <2>1, UndirtyKeeps, KeepStep DEF Flush
<1>6. CASE CloseClean
  <2>1. cache' = [q \in Pages |-> IF q \in Pages THEN Pg!SetDirty(cache[q], FALSE)
                                  ELSE cache[q]]
    BY <1>6 DEF CloseClean
  <2> QED
    BY <1>6, <2>1, UndirtyKeeps, KeepStep DEF CloseClean
<1>7. CASE CloseKeepLog \/ Crash
  BY <1>7, ForgetStep DEF CloseKeepLog, Crash
<1>8. CASE OpenEmpty \/ OpenRecover \/ RecoverStep \/ RecoverFinish
           \/ CrashInRecovery \/ UNCHANGED allVars
  <2>1. UNCHANGED <<active, cache, txnPages>>
    BY <1>8 DEF OpenEmpty, OpenRecover, RecoverStep, RecoverFinish,
                CrashInRecovery, allVars
  <2> QED
    BY <2>1, KeepStep DEF WInv
<1> QED
  BY <1>1, <1>2, <1>3, <1>4, <1>5, <1>6, <1>7, <1>8 DEF SNext

\* page_inc_inuse and page_dec_inuse keep every cached page's _inuse equal
\* to the number of running transactions holding it, whatever the
\* interleaving of transactions, write-backs, closes, crashes and
\* recoveries: the counter never misses a release and never wraps.
THEOREM InuseCountsHoldersThm == SSpec => []InuseCountsHolders
<1>1. WInv => InuseCountsHolders
  <2> SUFFICES ASSUME WInv, NEW p \in Pages
               PROVE  Pg!GetInuse(cache[p]) = Cardinality(Holders(p))
    BY DEF InuseCountsHolders
  <2>1. Pg!GetInuse(cache[p]) = cache[p].inuse
    BY DEF Pg!GetInuse
  <2>2. CASE Holders(p) = {} /\ cache[p].inuse = 0
    BY <2>1, <2>2, FS_EmptySet
  <2>3. CASE \E t \in active : Holders(p) = {t} /\ cache[p].inuse = 1
    BY <2>1, <2>3, FS_Singleton
  <2> QED
    BY <2>2, <2>3 DEF WInv, HeldOnce
<1> QED
  BY <1>1, InitWInv, NextWInv, PTL DEF SSpec

=============================================================================
