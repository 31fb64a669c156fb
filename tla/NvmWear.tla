------------------------------ MODULE NvmWear -------------------------------
(***************************************************************************)
(* drivers/NVMSIM/test/check: the wear levelling of NVMSIM as its test     *)
(* module runs it.  Blocks are allocated, extract_big chooses the k pages  *)
(* that were written most among those in use, and wear_level gives every   *)
(* block of these pages a new physical block.  BIT_WIDTH_IN_BITS blocks    *)
(* share a word of the bitmap and, as INFO_PAGE_SIZE is the same number,   *)
(* an entry of the information table.                                      *)
(*                                                                         *)
(* The bitmap is set at the logical number of a block when it is           *)
(* allocated, but read and set at the physical number when it is moved.    *)
(***************************************************************************)
EXTENDS KSelect, FiniteSets, Sequences

CONSTANTS PAGES,       \* words of the bitmap, entries of InfoTable
          WIDTH,       \* blocks of a page (32)
          Repeats,     \* how often an allocated block is written
          MaxAllocs,   \* bound: allocations
          MaxPasses    \* bound: levelling passes

ASSUME WearAssumption == /\ PAGES \in Nat \ {0} /\ WIDTH \in Nat \ {0}
                         /\ Repeats \subseteq Nat /\ MaxAllocs \in Nat /\ MaxPasses \in Nat

Size == PAGES * WIDTH              \* bit_table_size, map_table_size
Blocks == 0..(Size - 1)
Pages == 0..(PAGES - 1)
PageOfBlock(b) == b \div WIDTH
FirstOf(p) == p * WIDTH

VARIABLES BitMap, MapTable, InfoTable,   \* as in the test module; 0 in MapTable: not mapped
          pc,                            \* "ready", "select", "level"
          barray, lpn, wi, lbn,          \* the pages in use; those to level; the loops' indices
          allocs, passes,                \* bounds
          allocated, moved               \* history: blocks allocated; moved by the last pass

tables == <<BitMap, MapTable, InfoTable>>
level  == <<barray, lpn, wi, lbn>>
wvars  == <<selection, tables, pc, level, allocs, passes, allocated, moved>>

Init == /\ SelectIdle
        /\ BitMap = {}
        /\ MapTable = [b \in 0..Size |-> 0]
        /\ InfoTable = [p \in Pages |-> 0]
        /\ pc = "ready"
        /\ barray = <<>> /\ lpn = NoArray /\ wi = 0 /\ lbn = 0
        /\ allocs = 0 /\ passes = 0
        /\ allocated = {} /\ moved = {}

-----------------------------------------------------------------------------
(* pbi_test_alloc: logical block b is mapped to physical block b + 1. *)

Alloc ==
    /\ pc = "ready" /\ passes = 0
    /\ allocs < MaxAllocs /\ allocs' = allocs + 1
    /\ \E first, last \in Blocks, repeat \in Repeats :
          LET range == first..last
          IN  /\ first <= last
              /\ MapTable' = [b \in 0..Size |-> IF b \in range THEN b + 1 ELSE MapTable[b]]
              /\ BitMap' = BitMap \union range
              /\ InfoTable' = [p \in Pages |-> InfoTable[p]
                                 + repeat * Cardinality({b \in range : PageOfBlock(b) = p})]
              /\ allocated' = allocated \union range
    /\ UNCHANGED <<selection, pc, level, passes, moved>>

\* syncer_find_test: the selection on an array of its own.
FindTest ==
    /\ pc = "ready" /\ allocs = 0
    /\ SelectCall \/ Scan \/ Take
    /\ UNCHANGED <<tables, pc, level, allocs, passes, allocated, moved>>

-----------------------------------------------------------------------------
(* extract_big, extract_small.  extract_big with fewer pages in use than    *)
(* asked for returns without a result, which its caller (test.c:57) uses   *)
(* all the same: only calls that find enough are modelled.                 *)

FirstBitOnly(p) == FirstOf(p) \in BitMap
WordInUse(p) == \E b \in BitMap : PageOfBlock(b) = p
UsedPages == {p \in Pages : WordInUse(p)}

\* The loop that fills barray: every page in use, in order.
PageLists == {f \in [1..Cardinality(UsedPages) -> UsedPages] :
                 /\ \A l, m \in DOMAIN f : l < m => f[l] < f[m]
                 /\ \A p \in UsedPages : \E m \in DOMAIN f : f[m] = p}

Extract(s, count) ==
    /\ pc = "ready" /\ pc' = "select"
    /\ passes < MaxPasses
    /\ barray' \in PageLists
    /\ LET marray == [m \in 0..(Len(barray') - 1) |-> InfoTable[barray'[m + 1]]]
       IN  \/ Call(s, marray, Len(barray'), count)
           \/ s = "small" /\ CallRefused(s, marray, Len(barray'), count)
    /\ IF s = "big" THEN passes' = passes + 1 /\ moved' = {} ELSE UNCHANGED <<passes, moved>>
    /\ UNCHANGED <<tables, lpn, wi, lbn, allocs, allocated>>

Select == /\ pc = "select" /\ Scan
          /\ UNCHANGED <<tables, pc, level, allocs, passes, allocated, moved>>

PageAt(m) == barray[addr[m] + 1]

\* extract_big: the pages go to wear_level.
ExtractedBig ==
    /\ pc = "select" /\ stage = "done" /\ side = "big"
    /\ pc' = "level"
    /\ lpn' = [m \in 0..(k - 1) |-> PageAt(m)]
    /\ wi' = 0 /\ lbn' = FirstOf(PageAt(0))
    /\ barray' = <<>>
    /\ Take
    /\ UNCHANGED <<tables, allocs, passes, allocated, moved>>

\* extract_small, or no answer: nobody uses it.
ExtractedSmall ==
    /\ pc = "select" /\ (side = "small" \/ stage = "null")
    /\ Take
    /\ pc' = "ready" /\ barray' = <<>>
    /\ UNCHANGED <<tables, lpn, wi, lbn, allocs, passes, allocated, moved>>

-----------------------------------------------------------------------------
(* wear_level, one block at a time. *)

FirstIn(b, S) == b \in S /\ \A c \in S : b <= c
Free(S) == S \ BitMap

\* query_bitmap: a free block from pos on, then one from the start on, or 0.
WithoutWrap(pos, b) == \/ FirstIn(b, Free(pos..(Size - 1)))
                       \/ Free(pos..(Size - 1)) = {} /\ b = 0
QueryBitMap(pos, b) ==
    \/ FirstIn(b, Free(pos..(Size - 1)))
    \/ Free(pos..(Size - 1)) = {} /\ FirstIn(b, Free(0..(pos - 1)))
    \/ Free(Blocks) = {} /\ b = 0

WordEnd(p) == FirstOf(p + 1)

NextBlock ==
    IF lbn + 1 < WordEnd(lpn[wi])
    THEN lbn' = lbn + 1 /\ UNCHANGED <<pc, lpn, wi>>
    ELSE IF wi + 1 \in DOMAIN lpn
    THEN wi' = wi + 1 /\ lbn' = FirstOf(lpn[wi + 1]) /\ UNCHANGED <<pc, lpn>>
    ELSE pc' = "ready" /\ lpn' = NoArray /\ wi' = 0 /\ lbn' = 0

InPlace == lbn \in BitMap /\ MapTable[lbn] # 0

LevelSkip ==
    /\ pc = "level" /\ ~InPlace
    /\ NextBlock
    /\ UNCHANGED <<selection, tables, barray, allocs, passes, allocated, moved>>

\* exchange_pbi.
SetOnly(b) == BitMap \union {b}
ClearOnly(b) == BitMap \ {lbn}
Exchanged(b) == (BitMap \ {lbn}) \union {b}

LevelMove ==
    /\ pc = "level" /\ InPlace
    /\ \E b \in Blocks :
          /\ QueryBitMap(MapTable[lbn], b)
          /\ BitMap' = Exchanged(b)
          /\ MapTable' = [MapTable EXCEPT ![lbn] = b]
          /\ InfoTable' = [InfoTable EXCEPT ![PageOfBlock(b)] = @ + 1]
    /\ moved' = moved \union {lbn}
    /\ NextBlock
    /\ UNCHANGED <<selection, barray, allocs, passes, allocated>>

Next == \/ Alloc \/ FindTest \/ Select \/ ExtractedBig \/ ExtractedSmall
        \/ LevelSkip \/ LevelMove
        \/ \E count \in 1..PAGES, s \in {"big", "small"} : Extract(s, count)

Spec == Init /\ [][Next]_wvars

-----------------------------------------------------------------------------
(* A levelling starts with the pages that were written most: no block in use *)
(* lies in a page written more often than one that was chosen, and no page *)
(* is levelled twice (syncer.c:176-231 with bigK_index).                   *)
HottestPages ==
    pc = "level" /\ moved = {} =>
        /\ \A l, m \in DOMAIN lpn : l # m => lpn[l] # lpn[m]
        /\ \A b \in BitMap : \/ \E m \in DOMAIN lpn : lpn[m] = PageOfBlock(b)
                             \/ \A m \in DOMAIN lpn :
                                    InfoTable[PageOfBlock(b)] <= InfoTable[lpn[m]]

(* As long as not every block is allocated, moving blocks keeps the number *)
(* of used ones in the bitmap, however many passes run and although the    *)
(* bit that is cleared is the one of the logical and the bit that is set   *)
(* the one of the physical number (syncer.c:290-291).                      *)
UsedKept ==
    allocated # Blocks => Cardinality(BitMap) = Cardinality(allocated)

(* The first levelling never gives two of the blocks it moves the same physical *)
(* block, also where the search for a free one wraps around.  (It may give *)
(* one the block of a logical block that it does not move.)                *)
MovedApart ==
    passes <= 1 =>
        \A a, b \in moved : a # b /\ MapTable[a] # 0 => MapTable[a] # MapTable[b]

(* 0 is at once a block and "not mapped": a pass that is handed block 0    *)
(* forgets where the data is.  The first levelling does so for at most one *)
(* block, for two when every block is allocated (bitmap.c:53, syncer.c:276).*)
FewForgotten ==
    passes <= 1 => Cardinality({b \in allocated : MapTable[b] = 0})
                       <= IF allocated = Blocks THEN 2 ELSE 1
=============================================================================
