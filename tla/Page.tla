-------------------------------- MODULE Page --------------------------------
(***************************************************************************)
(* The page object of src/src/page.h: the non-persistent flags word        *)
(* (_npers._flags) with its dirty bit, the in-use counter (_npers._inuse)  *)
(* and the persistent flags word (_pers->_s._flags) whose high nibble is   *)
(* the page type.  Every accessor of page.h is a macro; each is an         *)
(* operator on one page value here, so that WalSystem can apply them to    *)
(* the pages of its cache through INSTANCE.                                *)
(*                                                                         *)
(* A 32-bit persistent flags word does not fit TLC's integers, and every   *)
(* macro touching it splits it at bit 28 (masks 0x0fffffff / 0xf0000000): *)
(* it is kept as its high nibble `hi' and its low 28 bits `lo'.            *)
(*                                                                         *)
(* Every mask the macros apply is one bit or the type nibble, so & and |   *)
(* are written bit by bit with the arithmetic (x \div 2^n) % 2 that the    *)
(* Bitwise module uses, without its recursion.                             *)
(***************************************************************************)
EXTENDS Naturals

CONSTANTS
    PageIds,    \* the pages
    InuseMod    \* values of _inuse: 2^32 for the ham_u32_t

\* The counter holds at least the values 0 and 1.
ASSUME PageAssumption == InuseMod \in Nat \ {0, 1}

VARIABLES
    pg,         \* the ham_page_t of each page
    lastType    \* history: the type last given to each page by page_set_type

pageVars == <<pg, lastType>>

\* PAGE_NPERS_*: bits of the non-persistent flags.
PAGE_NPERS_MALLOC == 1
PAGE_NPERS_DIRTY == 2
PAGE_NPERS_INUSE == 4
PAGE_NPERS_DELETE_PENDING == 16
PAGE_NPERS_NO_HEADER == 32
NPersFlags == {PAGE_NPERS_MALLOC, PAGE_NPERS_DIRTY, PAGE_NPERS_INUSE,
               PAGE_NPERS_DELETE_PENDING, PAGE_NPERS_NO_HEADER}

\* The bits of the flags word the pages can carry (values 0 .. 63).
NPersBits == {1, 2, 4, 8, 16, 32}

\* PAGE_TYPE_* as the value of the high nibble: UNKNOWN, HEADER, B_ROOT,
\* B_INDEX, FREELIST.
PageTypes == 0 .. 4

\* The low persistent flag bits a page may carry below its type.
PersLowFlags == {0, 1}

\* A freshly allocated page: flags cleared, not in use, type UNKNOWN.
NewPage == [npers |-> 0, inuse |-> 0, hi |-> 0, lo |-> 0]

\* Bit b (a power of two) of x.
HasBit(x, b) == (x \div b) % 2 = 1

\* x | b for a one-bit mask b.
OrBit(x, b) == IF HasBit(x, b) THEN x ELSE x + b

\* x & ~b for a one-bit mask b.
ClearBits(x, b) == IF HasBit(x, b) THEN x - b ELSE x

\* x & b for a one-bit mask b.
AndBit(x, b) == IF HasBit(x, b) THEN b ELSE 0

\* x | y on the four bits of the type nibble.
NibbleOr(x, y) ==
    LET bit(b) == IF HasBit(x, b) \/ HasBit(y, b) THEN b ELSE 0
    IN  bit(1) + bit(2) + bit(4) + bit(8)

\* page_is_dirty: flags & PAGE_NPERS_DIRTY is non-zero.
IsDirty(r) == HasBit(r.npers, PAGE_NPERS_DIRTY)

\* Defect variant: clearing the dirty bit with & instead of & ~.
SetDirtyMaskSwapped(r, d) ==
    [r EXCEPT !.npers = IF d THEN OrBit(@, PAGE_NPERS_DIRTY)
                              ELSE AndBit(@, PAGE_NPERS_DIRTY)]

\* page_set_dirty(page, d): set or clear PAGE_NPERS_DIRTY in the
\* non-persistent flags, leaving the other bits.
SetDirty(r, d) ==
    [r EXCEPT !.npers = IF d THEN OrBit(@, PAGE_NPERS_DIRTY)
                              ELSE ClearBits(@, PAGE_NPERS_DIRTY)]

\* Defect variant: the flag is added to the word instead of ORed in.
AddNPersFlagByAdding(r, f) == [r EXCEPT !.npers = @ + f]

\* page_set_npers_flags(page, page_get_npers_flags(page) | f).
AddNPersFlag(r, f) == [r EXCEPT !.npers = OrBit(@, f)]

\* page_get_inuse.
GetInuse(r) == r.inuse

\* page_inc_inuse: ++ on a ham_u32_t.
IncInuse(r) == [r EXCEPT !.inuse = (@ + 1) % InuseMod]

\* page_dec_inuse: ham_assert(inuse != 0) is compiled out of a release
\* build, where -- on an unsigned zero wraps to the largest value.
DecInuse(r) == [r EXCEPT !.inuse = (@ + InuseMod - 1) % InuseMod]

\* Defect variant: the type is ORed in without first masking the old one.
SetTypeUnmasked(r, t) == [r EXCEPT !.hi = NibbleOr(@, t)]

\* page_set_type(page, t): flags & 0x0fffffff clears the type nibble, then
\* flags | t puts the new one in; the low flags are kept.
SetType(r, t) ==
    LET masked == [r EXCEPT !.hi = 0]
    IN  [masked EXCEPT !.hi = NibbleOr(@, t)]

\* page_get_type: flags & 0xf0000000.
GetType(r) == r.hi

-----------------------------------------------------------------------------
(* The page macros applied by their callers in any order.                  *)

PInit ==
    /\ pg = [p \in PageIds |-> NewPage]
    /\ lastType = [p \in PageIds |-> 0]

MarkDirty(p, d) ==
    /\ pg' = [pg EXCEPT ![p] = SetDirty(@, d)]
    /\ UNCHANGED lastType

MarkFlag(p, f) ==
    /\ pg' = [pg EXCEPT ![p] = AddNPersFlag(@, f)]
    /\ UNCHANGED lastType

ChangeType(p, t) ==
    /\ pg' = [pg EXCEPT ![p] = SetType(@, t)]
    /\ lastType' = [lastType EXCEPT ![p] = t]

\* A caller setting low persistent flags below the type.
SetLowFlags(p, l) ==
    /\ pg' = [pg EXCEPT ![p].lo = l]
    /\ UNCHANGED lastType

\* A caller takes the page: page_inc_inuse.
Pin(p) ==
    /\ pg' = [pg EXCEPT ![p] = IncInuse(@)]
    /\ UNCHANGED lastType

\* A caller releases the page: page_dec_inuse.  Nothing in the macros
\* pairs it with an earlier page_inc_inuse.
Unpin(p) ==
    /\ pg' = [pg EXCEPT ![p] = DecInuse(@)]
    /\ UNCHANGED lastType

PNext ==
    \E p \in PageIds :
        \/ Pin(p)
        \/ Unpin(p)
        \/ \E d \in BOOLEAN : MarkDirty(p, d)
        \/ \E f \in NPersFlags \ {PAGE_NPERS_DIRTY} : MarkFlag(p, f)
        \/ \E t \in PageTypes : ChangeType(p, t)
        \/ \E l \in PersLowFlags : SetLowFlags(p, l)

PSpec == PInit /\ [][PNext]_pageVars

-----------------------------------------------------------------------------
(* Properties.                                                             *)

\* Every page value has its fields.
PageTypeOK ==
    /\ pg \in [PageIds -> [npers : 0 .. 63, inuse : 0 .. InuseMod - 1,
                           hi : 0 .. 15, lo : PersLowFlags]]
    /\ lastType \in [PageIds -> PageTypes]

\* page_get_type returns the type last given by page_set_type, whatever
\* type the page had before: the old nibble is masked out first.
TypeIsLastSet == \A p \in PageIds : GetType(pg[p]) = lastType[p]

\* No step clears a non-persistent flag other than PAGE_NPERS_DIRTY: clearing
\* the dirty bit (page_set_dirty(page, 0)) keeps MALLOC, INUSE,
\* DELETE_PENDING, NO_HEADER and every other bit of the word.
OtherFlagsSurviveUndirty ==
    [][\A p \in PageIds, b \in NPersBits \ {PAGE_NPERS_DIRTY} :
         HasBit(pg[p].npers, b) => HasBit(pg'[p].npers, b)]_pageVars

=============================================================================
