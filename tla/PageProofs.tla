----------------------------- MODULE PageProofs -----------------------------
(***************************************************************************)
(* Proofs about the page macros of page.h: the flags words keep their      *)
(* range and the in-use counter its width, page_get_type returns the     *)
(* type page_set_type put in, and page_set_dirty(page, 0) clears no other  *)
(* flag.                                                                   *)
(***************************************************************************)
EXTENDS Page, TLAPS

USE PageAssumption

PageRec == [npers : 0 .. 63, inuse : 0 .. InuseMod - 1,
            hi : 0 .. 15, lo : PersLowFlags]

\* The type invariant and the type nibble together are inductive.
PInv == PageTypeOK /\ TypeIsLastSet

\* The step OtherFlagsSurviveUndirty constrains.
FlagsKept ==
    \A p \in PageIds, b \in NPersBits \ {PAGE_NPERS_DIRTY} :
        HasBit(pg[p].npers, b) => HasBit(pg'[p].npers, b)

-----------------------------------------------------------------------------
(* The one-bit operations on the flags word.                               *)

\* Setting or clearing one bit keeps a six-bit word six bits wide.
LEMMA BitRange ==
    ASSUME NEW x \in 0 .. 63, NEW b \in NPersBits
    PROVE  /\ OrBit(x, b) \in 0 .. 63
           /\ ClearBits(x, b) \in 0 .. 63
BY SMT DEF OrBit, ClearBits, HasBit, NPersBits

\* Setting a bit keeps every bit; clearing one keeps every other bit.
LEMMA BitKept ==
    ASSUME NEW x \in 0 .. 63, NEW b \in NPersBits, NEW c \in NPersBits
    PROVE  /\ HasBit(x, c) => HasBit(OrBit(x, b), c)
           /\ HasBit(x, c) /\ c # b => HasBit(ClearBits(x, b), c)
BY SMT DEF OrBit, ClearBits, HasBit, NPersBits

\* ORing a page type into a cleared nibble yields that type.
LEMMA NibbleOrZero ==
    ASSUME NEW t \in PageTypes
    PROVE  NibbleOr(0, t) = t
BY SMT DEF NibbleOr, HasBit, PageTypes

-----------------------------------------------------------------------------
(* The macros on one page value.                                           *)

LEMMA SetDirtyFields ==
    ASSUME NEW r \in PageRec, NEW d \in BOOLEAN
    PROVE  /\ SetDirty(r, d) \in PageRec
           /\ SetDirty(r, d).hi = r.hi
           /\ \A c \in NPersBits \ {PAGE_NPERS_DIRTY} :
                  HasBit(r.npers, c) => HasBit(SetDirty(r, d).npers, c)
<1>1. /\ OrBit(r.npers, PAGE_NPERS_DIRTY) \in 0 .. 63
      /\ ClearBits(r.npers, PAGE_NPERS_DIRTY) \in 0 .. 63
  BY BitRange DEF PageRec, NPersBits, PAGE_NPERS_DIRTY
<1>2. SetDirty(r, d).npers = IF d THEN OrBit(r.npers, PAGE_NPERS_DIRTY)
                                  ELSE ClearBits(r.npers, PAGE_NPERS_DIRTY)
  BY Zenon DEF SetDirty, PageRec
<1>3. SetDirty(r, d) \in PageRec /\ SetDirty(r, d).hi = r.hi
  BY <1>1, Zenon DEF SetDirty, PageRec
<1>4. ASSUME NEW c \in NPersBits \ {PAGE_NPERS_DIRTY}, HasBit(r.npers, c)
      PROVE  HasBit(SetDirty(r, d).npers, c)
  <2>1. /\ HasBit(OrBit(r.npers, PAGE_NPERS_DIRTY), c)
        /\ HasBit(ClearBits(r.npers, PAGE_NPERS_DIRTY), c)
    BY <1>4, BitKept DEF PageRec, NPersBits, PAGE_NPERS_DIRTY
  <2> QED
    BY <1>2, <2>1
<1> QED
  BY <1>3, <1>4

LEMMA AddFlagFields ==
    ASSUME NEW r \in PageRec, NEW f \in NPersFlags
    PROVE  /\ AddNPersFlag(r, f) \in PageRec
           /\ AddNPersFlag(r, f).hi = r.hi
           /\ \A c \in NPersBits :
                  HasBit(r.npers, c) => HasBit(AddNPersFlag(r, f).npers, c)
<1>1. f \in NPersBits
  BY DEF NPersFlags, NPersBits, PAGE_NPERS_MALLOC, PAGE_NPERS_DIRTY,
         PAGE_NPERS_INUSE, PAGE_NPERS_DELETE_PENDING, PAGE_NPERS_NO_HEADER
<1>2. OrBit(r.npers, f) \in 0 .. 63
  BY <1>1, BitRange DEF PageRec
<1>3. AddNPersFlag(r, f).npers = OrBit(r.npers, f)
  BY Zenon DEF AddNPersFlag, PageRec
<1>4. AddNPersFlag(r, f) \in PageRec /\ AddNPersFlag(r, f).hi = r.hi
  BY <1>2, Zenon DEF AddNPersFlag, PageRec
<1>5. \A c \in NPersBits : HasBit(r.npers, c) => HasBit(OrBit(r.npers, f), c)
  BY <1>1, BitKept DEF PageRec
<1> QED
  BY <1>3, <1>4, <1>5

LEMMA SetTypeFields ==
    ASSUME NEW r \in PageRec, NEW t \in PageTypes
    PROVE  /\ SetType(r, t) \in PageRec
           /\ SetType(r, t).hi = t
           /\ SetType(r, t).npers = r.npers
<1>1. NibbleOr(0, t) = t /\ t \in 0 .. 15
  BY NibbleOrZero DEF PageTypes
<1>2. SetType(r, t) = [r EXCEPT !.hi = NibbleOr(0, t)]
  BY Zenon DEF SetType, PageRec
<1>3. /\ SetType(r, t).hi = t
      /\ SetType(r, t).npers = r.npers
  BY <1>1, <1>2, Zenon DEF PageRec
<1>4. SetType(r, t) = [npers |-> r.npers, inuse |-> r.inuse, hi |-> t, lo |-> r.lo]
  BY <1>1, <1>2, Zenon DEF PageRec
<1> QED
  BY <1>1, <1>3, <1>4 DEF PageRec

\* page_inc_inuse and page_dec_inuse wrap the counter around its width and
\* touch no other field.
LEMMA InuseFields ==
    ASSUME NEW r \in PageRec
    PROVE  /\ IncInuse(r) \in PageRec /\ DecInuse(r) \in PageRec
           /\ IncInuse(r).hi = r.hi /\ DecInuse(r).hi = r.hi
           /\ IncInuse(r).npers = r.npers /\ DecInuse(r).npers = r.npers
<1>1. /\ (r.inuse + 1) % InuseMod \in 0 .. InuseMod - 1
      /\ (r.inuse + InuseMod - 1) % InuseMod \in 0 .. InuseMod - 1
  BY SMT DEF PageRec
<1>2. /\ IncInuse(r) = [r EXCEPT !.inuse = (r.inuse + 1) % InuseMod]
      /\ DecInuse(r) = [r EXCEPT !.inuse = (r.inuse + InuseMod - 1) % InuseMod]
  BY DEF IncInuse, DecInuse
<1> QED
  BY <1>1, <1>2, Zenon DEF PageRec

-----------------------------------------------------------------------------
(* The page macros applied to the pages.                                   *)

\* Replacing one page by a well-formed value keeps the pages well-formed
\* and leaves the others as they were.
LEMMA UpdatePage ==
    ASSUME pg \in [PageIds -> PageRec], NEW p \in PageIds, NEW v \in PageRec
    PROVE  /\ [pg EXCEPT ![p] = v] \in [PageIds -> PageRec]
           /\ \A q \in PageIds : [pg EXCEPT ![p] = v][q] = IF q = p THEN v ELSE pg[q]
BY SMT

LEMMA InitPInv == PInit => PInv
<1> SUFFICES ASSUME PInit PROVE PInv
  OBVIOUS
<1>1. NewPage \in PageRec
  BY DEF NewPage, PageRec, PersLowFlags
<1> QED
  BY <1>1 DEF PInit, PInv, PageTypeOK, PageRec, TypeIsLastSet, GetType,
             NewPage, PageTypes

\* Each action keeps PInv and clears no flag but the dirty bit.
LEMMA NextPInv ==
    ASSUME PInv, [PNext]_pageVars
    PROVE  PInv' /\ FlagsKept
<1>0. pg \in [PageIds -> PageRec] /\ lastType \in [PageIds -> PageTypes]
  BY DEF PInv, PageTypeOK, PageRec
<1>1. ASSUME NEW p \in PageIds, NEW v \in PageRec,
             pg' = [pg EXCEPT ![p] = v],
             v.hi = GetType(pg[p]),
             \A b \in NPersBits \ {PAGE_NPERS_DIRTY} :
                 HasBit(pg[p].npers, b) => HasBit(v.npers, b),
             UNCHANGED lastType
      PROVE  PInv' /\ FlagsKept
  BY <1>0, <1>1, UpdatePage DEF PInv, PageTypeOK, PageRec, TypeIsLastSet,
                                 GetType, FlagsKept
<1>2. ASSUME NEW p \in PageIds, NEW d \in BOOLEAN, MarkDirty(p, d)
      PROVE  PInv' /\ FlagsKept
  <2>1. pg[p] \in PageRec
    BY <1>0
  <2> QED
    BY <1>2, <2>1, <1>1, SetDirtyFields DEF MarkDirty, GetType
<1>3. ASSUME NEW p \in PageIds, NEW f \in NPersFlags \ {PAGE_NPERS_DIRTY},
             MarkFlag(p, f)
      PROVE  PInv' /\ FlagsKept
  <2>1. pg[p] \in PageRec
    BY <1>0
  <2> QED
    BY <1>3, <2>1, <1>1, AddFlagFields DEF MarkFlag, GetType
<1>4. ASSUME NEW p \in PageIds, NEW t \in PageTypes, ChangeType(p, t)
      PROVE  PInv' /\ FlagsKept
  <2>1. pg[p] \in PageRec
    BY <1>0
  <2>2. SetType(pg[p], t) \in PageRec /\ SetType(pg[p], t).hi = t
        /\ SetType(pg[p], t).npers = pg[p].npers
    BY <2>1, SetTypeFields
  <2>3. pg' \in [PageIds -> PageRec]
        /\ \A q \in PageIds : pg'[q] = IF q = p THEN SetType(pg[p], t) ELSE pg[q]
    BY <1>4, <2>2, <1>0, UpdatePage DEF ChangeType
  <2>4. lastType' = [lastType EXCEPT ![p] = t]
    BY <1>4 DEF ChangeType
  <2> QED
    BY <1>0, <2>2, <2>3, <2>4 DEF PInv, PageTypeOK, PageRec, TypeIsLastSet,
                                   GetType, FlagsKept
<1>5. ASSUME NEW p \in PageIds, NEW l \in PersLowFlags, SetLowFlags(p, l)
      PROVE  PInv' /\ FlagsKept
  <2>1. pg[p] \in PageRec
    BY <1>0
  <2> DEFINE v == [pg[p] EXCEPT !.lo = l]
  <2>2. v \in PageRec /\ v.hi = pg[p].hi /\ v.npers = pg[p].npers
    BY <2>1, Zenon DEF PageRec
  <2>3. pg' = [pg EXCEPT ![p] = v]
    BY <1>5 DEF SetLowFlags
  <2> QED
    BY <1>5, <2>2, <2>3, <1>1 DEF SetLowFlags, GetType
<1>7. ASSUME NEW p \in PageIds, Pin(p) \/ Unpin(p)
      PROVE  PInv' /\ FlagsKept
  <2>1. pg[p] \in PageRec
    BY <1>0
  <2>2. CASE Pin(p)
    BY <2>1, <2>2, <1>1, InuseFields DEF Pin, GetType
  <2>3. CASE Unpin(p)
    BY <2>1, <2>3, <1>1, InuseFields DEF Unpin, GetType
  <2> QED
    BY <1>7, <2>2, <2>3
<1>6. CASE UNCHANGED pageVars
  BY <1>0, <1>6 DEF PInv, PageTypeOK, TypeIsLastSet, FlagsKept, pageVars
<1> QED
  BY <1>2, <1>3, <1>4, <1>5, <1>6, <1>7 DEF PNext

\* The flags words keep their widths and the counter its range.
THEOREM PageTypeCorrect == PSpec => []PageTypeOK
BY InitPInv, NextPInv, PTL DEF PSpec, PInv

\* page_get_type always returns the type last set by page_set_type.
THEOREM TypeIsLastSetThm == PSpec => []TypeIsLastSet
BY InitPInv, NextPInv, PTL DEF PSpec, PInv

\* page_set_dirty(page, 0) and the other macros never clear a flag other
\* than PAGE_NPERS_DIRTY.
THEOREM OtherFlagsSurviveUndirtyThm == PSpec => OtherFlagsSurviveUndirty
BY InitPInv, NextPInv, PTL DEF PSpec, OtherFlagsSurviveUndirty, FlagsKept

=============================================================================
