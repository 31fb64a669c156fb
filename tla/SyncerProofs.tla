---------------------------- MODULE SyncerProofs ----------------------------
(* Proofs about the syncer of NVMSIM: what the selection of KSelect        *)
(* answers for every array, what the levelling of NvmWear keeps for every  *)
(* number and size of pages, and what the idle test of NvmIdle says for    *)
(* every width of its clock.                                               *)
EXTENDS NvmWear, NvmIdle, FiniteSetTheorems, TLAPS

(* Division. *)

LEMMA DivMod ==
    ASSUME NEW a \in Int, NEW u \in Int, u > 0
    PROVE  a % u \in 0..(u - 1) /\ a \div u \in Int /\ a = u * (a \div u) + (a % u)
OBVIOUS

LEMMA ModIsRest ==
    ASSUME NEW a \in Int, NEW u \in Int, u > 0, NEW q \in Int, NEW r \in 0..(u - 1),
           a = u * q + r
    PROVE  a % u = r
OBVIOUS

-----------------------------------------------------------------------------
(* The selection.                                                          *)

Candidates == 0..(k - 1)

\* The candidates are k different entries of the part that was scanned.
Distinct == /\ addr \in [Candidates -> 0..(i - 1)]
            /\ \A l, m \in Candidates : l # m => addr[l] # addr[m]

\* worst is the index of a candidate that beats no other one.
WorstIsWorst == /\ worst \in Candidates
                /\ \A m \in Candidates : ~Better(key[worst], key[m])

\* What was scanned and is no candidate does not beat a candidate.
LeftOut == \A j \in 0..(i - 1) : \/ \E m \in Candidates : addr[m] = j
                                 \/ \A m \in Candidates : ~Better(arr[j], key[m])

Scanning ==
    stage \in {"scan", "done"} =>
        /\ n \in Int /\ k \in Int /\ i \in Int
        /\ 0 < k /\ k <= i /\ i <= n
        /\ stage = "done" => i = n
        /\ arr \in [0..(n - 1) -> Int]
        /\ key = [m \in Candidates |-> arr[addr[m]]]
        /\ Distinct /\ WorstIsWorst /\ LeftOut

IInv == /\ side \in {"big", "small"}
        /\ Scanning

-----------------------------------------------------------------------------
LEMMA InitScanning == SelectIdle => IInv
BY DEF SelectIdle, IInv, Scanning

\* The first k entries are the first candidates.
LEMMA CallKeeps ==
    ASSUME NEW s \in {"big", "small"}, NEW len \in Int, NEW count \in Int,
           NEW a \in [0..(len - 1) -> Int],
           Call(s, a, len, count)
    PROVE  IInv'
<1>1. /\ stage' = "scan" /\ side' = s /\ arr' = a /\ n' = len /\ k' = count /\ i' = count
      /\ key' = [m \in 0..(count - 1) |-> a[m]]
      /\ addr' = [m \in 0..(count - 1) |-> m]
      /\ worst' \in WorstOf(s, key')
      /\ 0 < count /\ count <= len
  BY DEF Call, Refused
<1>3. /\ worst' \in 0..(count - 1)
      /\ \A l \in 0..(count - 1) : ~BetterFor(s, key'[worst'], key'[l])
  BY <1>1 DEF WorstOf
<1>4. key' = [m \in Candidates' |-> arr'[addr'[m]]]
  BY <1>1 DEF Candidates
<1>5. Distinct'
  BY <1>1 DEF Distinct, Candidates
<1>6. WorstIsWorst'
  BY <1>1, <1>3 DEF WorstIsWorst, Candidates, Better
<1>7. LeftOut'
  BY <1>1 DEF LeftOut, Candidates
<1> QED
  BY <1>1, <1>4, <1>5, <1>6, <1>7 DEF IInv, Scanning

\* The entry that is met replaces the worst candidate, which no other one
\* is worse than: it is left out rightly.
LEMMA ReplaceKeeps == IInv /\ Replace => IInv'
<1> SUFFICES ASSUME IInv, Replace PROVE IInv'
  OBVIOUS
<1>1. /\ stage = "scan" /\ i < n /\ Better(arr[i], key[worst])
      /\ key' = [key EXCEPT ![worst] = arr[i]]
      /\ addr' = [addr EXCEPT ![worst] = i]
      /\ worst' \in WorstOf(side, key')
      /\ i' = i + 1
      /\ stage' = stage /\ side' = side /\ arr' = arr /\ n' = n /\ k' = k
  BY DEF Replace
<1>2. /\ n \in Int /\ k \in Int /\ i \in Int /\ 0 < k /\ k <= i /\ i <= n
      /\ arr \in [0..(n - 1) -> Int]
      /\ key = [m \in Candidates |-> arr[addr[m]]]
      /\ Distinct /\ WorstIsWorst /\ LeftOut
      /\ side \in {"big", "small"}
  BY <1>1 DEF IInv, Scanning
<1>3. Candidates' = Candidates
  BY <1>1 DEF Candidates
<1>4. /\ addr \in [Candidates -> 0..(i - 1)] /\ worst \in Candidates
      /\ arr[i] \in Int /\ key \in [Candidates -> Int]
  <2>1. addr \in [Candidates -> 0..(i - 1)] /\ worst \in Candidates
    BY <1>2 DEF Distinct, WorstIsWorst
  <2>2. \A m \in Candidates : addr[m] \in 0..(n - 1)
    BY <2>1, <1>2
  <2>3. arr[i] \in Int /\ \A m \in Candidates : arr[addr[m]] \in Int
    BY <2>2, <1>1, <1>2
  <2> QED
    BY <2>1, <2>3, <1>2
<1>5. key' \in [Candidates -> Int]
  BY <1>1, <1>4
<1>6. key' = [m \in Candidates |-> arr[addr'[m]]]
  BY <1>1, <1>2, <1>4
<1>7. Distinct'
  <2>1. addr' \in [Candidates -> 0..(i' - 1)]
    BY <1>1, <1>2, <1>4
  <2>2. ASSUME NEW l \in Candidates, NEW m \in Candidates, l # m
        PROVE  addr'[l] # addr'[m]
    BY <2>2, <1>1, <1>2, <1>4 DEF Distinct
  <2> QED
    BY <2>1, <2>2, <1>3 DEF Distinct
<1>8. WorstIsWorst'
  <2>1. worst' \in Candidates /\ \A l \in Candidates : ~BetterFor(side, key'[worst'], key'[l])
    BY <1>1, <1>5 DEF WorstOf
  <2> QED
    BY <2>1, <1>1, <1>3 DEF WorstIsWorst, Better
<1>9. LeftOut'
  <2> SUFFICES ASSUME NEW j \in 0..(i' - 1), \A m \in Candidates : addr'[m] # j,
                      NEW c \in Candidates
               PROVE  ~BetterFor(side, arr[j], key'[c])
    BY <1>1, <1>3 DEF LeftOut, Better
  <2>1. j \in 0..(i - 1)
    BY <1>1, <1>2, <1>4
  <2>2. arr[j] \in Int
    BY <2>1, <1>1, <1>2
  <2>3. ~BetterFor(side, arr[j], key[worst])
    <3>1. CASE j = addr[worst]
      BY <3>1, <1>2, <1>4, <2>2 DEF BetterFor
    <3>2. CASE j # addr[worst]
      <4>1. \A m \in Candidates : addr[m] # j
        BY <3>2, <1>1, <1>4
      <4> QED
        BY <4>1, <2>1, <1>2, <1>4 DEF LeftOut, Better
    <3> QED
      BY <3>1, <3>2
  <2>4. CASE c = worst
    <3>1. key'[c] = arr[i] /\ BetterFor(side, arr[i], key[worst])
      BY <2>4, <1>1, <1>4 DEF Better
    <3> QED
      BY <3>1, <2>2, <2>3, <1>2, <1>4 DEF BetterFor
  <2>5. CASE c # worst
    <3>1. key'[c] = key[c] /\ key[c] \in Int /\ key[worst] \in Int
      BY <2>5, <1>1, <1>4
    <3>2. ~BetterFor(side, key[worst], key[c])
      BY <1>2 DEF WorstIsWorst, Better
    <3> QED
      BY <3>1, <3>2, <2>2, <2>3, <1>2 DEF BetterFor
  <2> QED
    BY <2>4, <2>5
<1>10. n' \in Int /\ k' \in Int /\ i' \in Int /\ 0 < k' /\ k' <= i' /\ i' <= n'
  BY <1>1, <1>2
<1>11. key' = [m \in Candidates' |-> arr'[addr'[m]]] /\ arr' \in [0..(n' - 1) -> Int]
  BY <1>1, <1>2, <1>3, <1>6
<1> QED
  BY <1>1, <1>2, <1>7, <1>8, <1>9, <1>10, <1>11 DEF IInv, Scanning

\* The entry that is met is no better than the worst candidate, so than any.
LEMMA PassKeeps == IInv /\ Pass => IInv'
<1> SUFFICES ASSUME IInv, Pass PROVE IInv'
  OBVIOUS
<1>1. /\ stage = "scan" /\ i < n /\ ~Better(arr[i], key[worst]) /\ i' = i + 1
      /\ stage' = stage /\ side' = side /\ arr' = arr /\ n' = n /\ k' = k
      /\ key' = key /\ addr' = addr /\ worst' = worst
  BY DEF Pass
<1>2. /\ n \in Int /\ k \in Int /\ i \in Int /\ 0 < k /\ k <= i /\ i <= n
      /\ arr \in [0..(n - 1) -> Int]
      /\ key = [m \in Candidates |-> arr[addr[m]]]
      /\ Distinct /\ WorstIsWorst /\ LeftOut
      /\ side \in {"big", "small"}
  BY <1>1 DEF IInv, Scanning
<1>3. Candidates' = Candidates
  BY <1>1 DEF Candidates
<1>4. arr[i] \in Int /\ key \in [Candidates -> Int]
  BY <1>1, <1>2 DEF Distinct, Candidates
<1>5. Distinct'
  BY <1>1, <1>2, <1>3 DEF Distinct
<1>6. WorstIsWorst'
  BY <1>1, <1>2, <1>3 DEF WorstIsWorst, Better
<1>7. LeftOut'
  <2> SUFFICES ASSUME NEW j \in 0..(i' - 1), \A m \in Candidates : addr[m] # j,
                      NEW c \in Candidates
               PROVE  ~BetterFor(side, arr[j], key[c])
    BY <1>1, <1>3 DEF LeftOut, Better
  <2>1. CASE j = i
    BY <2>1, <1>1, <1>2, <1>4 DEF WorstIsWorst, Better, BetterFor
  <2>2. CASE j # i
    BY <2>2, <1>1, <1>2 DEF LeftOut, Better
  <2> QED
    BY <2>1, <2>2
<1> QED
  BY <1>1, <1>2, <1>3, <1>5, <1>6, <1>7 DEF IInv, Scanning

LEMMA RefusedKeeps ==
    ASSUME NEW s \in {"big", "small"}, NEW len, NEW count, NEW a, CallRefused(s, a, len, count)
    PROVE  IInv'
BY DEF CallRefused, IInv, Scanning

LEMMA SelectCallKeeps == SelectCall => IInv'
<1> SUFFICES ASSUME NEW len \in 0..MaxLen, NEW count \in 0..(MaxLen + 1),
                    NEW s \in {"big", "small"}, NEW a \in [0..(len - 1) -> Counters],
                    Call(s, a, len, count) \/ CallRefused(s, a, len, count)
             PROVE  IInv'
  BY DEF SelectCall
<1>1. a \in [0..(len - 1) -> Int]
  BY CounterAssumption
<1>2. len \in Int /\ count \in Int
  BY CounterAssumption
<1> QED
  BY <1>1, <1>2, CallKeeps, RefusedKeeps

LEMMA OthersKeep ==
    ASSUME IInv, Finish \/ Take \/ UNCHANGED selection
    PROVE  IInv'
<1>1. CASE Finish
  BY <1>1 DEF Finish, IInv, Scanning, Distinct, WorstIsWorst, LeftOut, Candidates, Better
<1>2. CASE Take
  BY <1>2 DEF Take, IInv, Scanning
<1>3. CASE UNCHANGED selection
  BY <1>3 DEF selection, IInv, Scanning, Distinct, WorstIsWorst, LeftOut, Candidates, Better
<1> QED
  BY <1>1, <1>2, <1>3

THEOREM SelectInvariant == SelectSpec => []IInv
<1>1. IInv /\ [SelectNext]_selection => IInv'
  BY SelectCallKeeps, ReplaceKeeps, PassKeeps, OthersKeep DEF SelectNext, Scan
<1> QED
  BY InitScanning, <1>1, PTL DEF SelectSpec

LEMMA AnswerIsBest == IInv => Selected
<1> SUFFICES ASSUME IInv, stage = "done" PROVE Selected
  BY DEF Selected
<1>1. /\ i = n /\ n \in Int /\ k \in Int /\ Distinct /\ LeftOut
      /\ key = [m \in Candidates |-> arr[addr[m]]]
  BY DEF IInv, Scanning
<1> QED
  BY <1>1 DEF Selected, Distinct, LeftOut, Candidates

(* bigK_index and smallK_index answer with the k best entries, for every   *)
(* array of integers, every k and any ties.                                *)
THEOREM SelectsBest == SelectSpec => []Selected
BY SelectInvariant, AnswerIsBest, PTL

-----------------------------------------------------------------------------
(* The number of used blocks. *)

\* Blocks are moved in the passes only, and allocated before them.
Phases ==
    /\ passes \in Nat
    /\ pc = "select" /\ side = "big" /\ stage # "null" => passes > 0
    /\ pc = "level" => passes > 0
    /\ passes = 0 => BitMap = allocated

UsedInv == /\ BitMap \subseteq Blocks /\ allocated \subseteq Blocks
           /\ Phases
           /\ UsedKept

-----------------------------------------------------------------------------
LEMMA BlocksFinite == IsFiniteSet(Blocks)
<1>1. 0 \in Int /\ Size - 1 \in Int
  BY WearAssumption DEF Size
<1> QED
  BY <1>1, FS_Interval DEF Blocks

LEMMA InitUsed == Init => UsedInv
BY DEF Init, UsedInv, Phases, UsedKept

LEMMA AllocUsed == UsedInv /\ Alloc => UsedInv'
<1> SUFFICES ASSUME UsedInv, Alloc PROVE UsedInv'
  OBVIOUS
<1>1. PICK first \in Blocks, last \in Blocks :
          /\ BitMap' = BitMap \union (first..last)
          /\ allocated' = allocated \union (first..last)
  BY DEF Alloc
<1>2. first..last \subseteq Blocks
  BY WearAssumption DEF Blocks, Size
<1>3. passes = 0 /\ passes' = passes /\ pc = "ready" /\ pc' = pc /\ BitMap = allocated
  BY DEF Alloc, UsedInv, Phases
<1> QED
  BY <1>1, <1>2, <1>3 DEF UsedInv, Phases, UsedKept

\* The bit that is set was clear, so the number of bits stays.
LEMMA MoveUsed == UsedInv /\ LevelMove => UsedInv'
<1> SUFFICES ASSUME UsedInv, LevelMove PROVE UsedInv'
  OBVIOUS
<1>1. PICK b \in Blocks : /\ QueryBitMap(MapTable[lbn], b)
                          /\ BitMap' = (BitMap \ {lbn}) \union {b}
  BY DEF LevelMove, Exchanged
<1>2. /\ pc = "level" /\ lbn \in BitMap /\ allocated' = allocated /\ passes' = passes
      /\ passes > 0 /\ side' = side /\ stage' = stage /\ pc' \in {"level", "ready"}
  BY DEF LevelMove, InPlace, NextBlock, UsedInv, Phases, selection
<1>3. ASSUME allocated # Blocks
      PROVE  Cardinality(BitMap') = Cardinality(allocated)
  <2>1. Cardinality(BitMap) = Cardinality(allocated)
    BY <1>3 DEF UsedInv, UsedKept
  <2>2. IsFiniteSet(BitMap) /\ IsFiniteSet(BitMap \ {lbn})
    BY BlocksFinite, FS_Subset DEF UsedInv
  <2>3. BitMap # Blocks
    <3>1. allocated \in SUBSET Blocks
      BY DEF UsedInv
    <3>2. Cardinality(Blocks) # Cardinality(allocated)
      BY <1>3, <3>1, BlocksFinite, FS_Subset
    <3> QED
      BY <3>2, <2>1
  <2>4. Free(Blocks) # {}
    BY <2>3 DEF Free, UsedInv
  <2>5. b \notin BitMap
    BY <2>4, <1>1 DEF QueryBitMap, FirstIn, Free
  <2>6. Cardinality(BitMap \ {lbn}) = Cardinality(BitMap) - 1
    BY <2>2, <1>2, FS_RemoveElement
  <2>7. Cardinality(BitMap') = Cardinality(BitMap \ {lbn}) + 1
    BY <2>2, <2>5, <1>1, FS_AddElement
  <2>8. Cardinality(BitMap) \in Nat
    BY <2>2, FS_CardinalityType
  <2> QED
    BY <2>1, <2>6, <2>7, <2>8
<1>4. BitMap' \subseteq Blocks
  BY <1>1 DEF UsedInv
<1> QED
  BY <1>2, <1>3, <1>4 DEF UsedInv, Phases, UsedKept

\* No other step touches the bitmap.
LEMMA QuietUsed ==
    ASSUME UsedInv, UNCHANGED <<BitMap, allocated>>,
           \/ FindTest \/ Select \/ ExtractedBig \/ ExtractedSmall \/ LevelSkip
           \/ UNCHANGED wvars
           \/ \E count \in 1..PAGES, s \in {"big", "small"} : Extract(s, count)
    PROVE  UsedInv'
<1> SUFFICES Phases'
  BY DEF UsedInv, UsedKept
<1>1. CASE FindTest
  BY <1>1 DEF FindTest, UsedInv, Phases
<1>2. CASE Select
  BY <1>2 DEF Select, Scan, Replace, Pass, Finish, UsedInv, Phases
<1>3. CASE ExtractedBig
  BY <1>3 DEF ExtractedBig, UsedInv, Phases
<1>4. CASE ExtractedSmall
  BY <1>4 DEF ExtractedSmall, UsedInv, Phases
<1>5. CASE LevelSkip
  BY <1>5 DEF LevelSkip, NextBlock, selection, UsedInv, Phases
<1>6. CASE UNCHANGED wvars
  BY <1>6 DEF wvars, selection, tables, UsedInv, Phases
<1>7. ASSUME NEW count \in 1..PAGES, NEW s \in {"big", "small"}, Extract(s, count)
      PROVE  Phases'
  <2>0. /\ pc' = "select" /\ passes \in Nat
        /\ s = "big" => passes' = passes + 1
        /\ s # "big" => passes' = passes
    BY <1>7 DEF Extract, UsedInv, Phases
  <2>1. passes' \in Nat /\ (passes' = 0 => passes = 0)
    BY <2>0
  <2>2. s = "big" => passes' > 0
    BY <2>0
  <2>3. side' = s
    BY <1>7 DEF Extract, Call, CallRefused
  <2> QED
    BY <2>0, <2>1, <2>2, <2>3 DEF UsedInv, Phases
<1> QED
  BY <1>1, <1>2, <1>3, <1>4, <1>5, <1>6, <1>7

(* As long as a block is free, every sequence of levellings keeps the      *)
(* number of used blocks, for every size of the device.                    *)
THEOREM UsedBlocksKept == Spec => []UsedKept
<1>1. UsedInv /\ [Next]_wvars => UsedInv'
  <2> SUFFICES ASSUME UsedInv, [Next]_wvars PROVE UsedInv'
    OBVIOUS
  <2>1. CASE Alloc
    BY <2>1, AllocUsed
  <2>2. CASE LevelMove
    BY <2>2, MoveUsed
  <2>3. CASE \/ FindTest \/ Select \/ ExtractedBig \/ ExtractedSmall \/ LevelSkip
             \/ UNCHANGED wvars
             \/ \E count \in 1..PAGES, s \in {"big", "small"} : Extract(s, count)
    <3>1. UNCHANGED <<BitMap, allocated>>
      BY <2>3 DEF FindTest, Select, ExtractedBig, ExtractedSmall, LevelSkip, Extract, wvars,
                  tables
    <3> QED
      BY <3>1, <2>3, QuietUsed
  <2> QED
    BY <2>1, <2>2, <2>3 DEF Next
<1>2. UsedInv => UsedKept
  BY DEF UsedInv
<1> QED
  BY InitUsed, <1>1, <1>2, PTL DEF Spec

-----------------------------------------------------------------------------
(* The pages that are levelled. *)

\* The list that the selection works on: the pages in use, each once, and
\* how often they were written.
Listed ==
    pc = "select" /\ stage \in {"scan", "done"} =>
        /\ n \in Nat /\ barray \in [1..n -> Pages]
        /\ \A l, m \in 1..n : l # m => barray[l] # barray[m]
        /\ \A p \in UsedPages : \E m \in 1..n : barray[m] = p
        /\ arr = [m \in 0..(n - 1) |-> InfoTable[barray[m + 1]]]

\* The pages that are levelled differ, and lbn is in the one that wi is at.
Levelled ==
    pc = "level" =>
        /\ \E last \in Nat : lpn \in [0..last -> Pages]
        /\ \A l, m \in DOMAIN lpn : l # m => lpn[l] # lpn[m]
        /\ wi \in DOMAIN lpn /\ lbn \in Blocks /\ PageOfBlock(lbn) = lpn[wi]

WearType == /\ MapTable \in [0..Size -> Blocks \union {Size}]
            /\ InfoTable \in [Pages -> Nat]
            /\ allocated \subseteq Blocks /\ moved \subseteq allocated
            /\ \A c \in Blocks : MapTable[c] # 0 => c \in allocated

HotInv == UsedInv /\ IInv /\ WearType /\ Listed /\ Levelled /\ HottestPages

LEMMA PageFacts ==
    ASSUME NEW c \in Blocks
    PROVE  /\ PageOfBlock(c) \in Pages
           /\ FirstOf(PageOfBlock(c)) <= c /\ c < WordEnd(PageOfBlock(c))
<1>1. WIDTH \in Int /\ WIDTH > 0 /\ PAGES \in Int /\ c \in Int /\ 0 <= c /\ c < PAGES * WIDTH
  BY WearAssumption DEF Blocks, Size
<1> DEFINE p == c \div WIDTH
<1>2. p \in Int /\ c = WIDTH * p + (c % WIDTH) /\ c % WIDTH \in 0..(WIDTH - 1)
  BY <1>1, DivMod
<1>3. p * WIDTH <= c /\ c < (p + 1) * WIDTH
  BY <1>1, <1>2
<1>4. 0 <= p
  BY <1>1, <1>3
<1>5. p < PAGES
  BY <1>1, <1>2, <1>3
<1> QED
  BY <1>1, <1>2, <1>3, <1>4, <1>5 DEF PageOfBlock, Pages, FirstOf, WordEnd

LEMMA BlocksOfPage ==
    ASSUME NEW p \in Pages, NEW c \in Int, FirstOf(p) <= c, c < WordEnd(p)
    PROVE  c \in Blocks /\ PageOfBlock(c) = p
<1>1. WIDTH \in Int /\ WIDTH > 0 /\ PAGES \in Int /\ p \in Int /\ 0 <= p /\ p + 1 <= PAGES
      /\ p * WIDTH <= c /\ c < (p + 1) * WIDTH
  BY WearAssumption DEF Pages, FirstOf, WordEnd
<1>2. (p + 1) * WIDTH <= PAGES * WIDTH /\ 0 <= p * WIDTH
  BY <1>1
<1>3. c - p * WIDTH \in 0..(WIDTH - 1) /\ c = WIDTH * p + (c - p * WIDTH)
  BY <1>1
<1>4. c % WIDTH = c - p * WIDTH
  BY <1>1, <1>3, ModIsRest
<1>5. c = WIDTH * (c \div WIDTH) + (c % WIDTH) /\ c \div WIDTH \in Int
  BY <1>1, DivMod
<1>6. c \div WIDTH = p
  BY <1>1, <1>3, <1>4, <1>5
<1>7. PAGES * WIDTH \in Int
  BY <1>1
<1> QED
  BY <1>1, <1>2, <1>6, <1>7 DEF Blocks, Size, PageOfBlock

LEMMA FirstBlock ==
    ASSUME NEW p \in Pages
    PROVE  FirstOf(p) \in Blocks /\ PageOfBlock(FirstOf(p)) = p
<1>1. WIDTH \in Int /\ WIDTH > 0 /\ p \in Int
  BY WearAssumption DEF Pages
<1>2. FirstOf(p) \in Int /\ FirstOf(p) < WordEnd(p)
  BY <1>1 DEF FirstOf, WordEnd
<1> QED
  BY <1>2, BlocksOfPage

LEMMA PagesFinite == IsFiniteSet(Pages)
<1>1. 0 \in Int /\ PAGES - 1 \in Int
  BY WearAssumption
<1> QED
  BY <1>1, FS_Interval DEF Pages

\* The next block of the page, or the first one of the next page.
LEMMA NextIsLevelled == Levelled /\ pc = "level" /\ NextBlock => Levelled'
<1> SUFFICES ASSUME Levelled, pc = "level", NextBlock PROVE Levelled'
  OBVIOUS
<1>1. PICK last \in Nat : lpn \in [0..last -> Pages]
  BY DEF Levelled
<1>2. /\ \A l, m \in DOMAIN lpn : l # m => lpn[l] # lpn[m]
      /\ wi \in DOMAIN lpn /\ lbn \in Blocks /\ PageOfBlock(lbn) = lpn[wi]
  BY DEF Levelled
<1>3. CASE lbn + 1 < WordEnd(lpn[wi])
  <2>1. lbn' = lbn + 1 /\ pc' = pc /\ lpn' = lpn /\ wi' = wi
    BY <1>3 DEF NextBlock
  <2>2. lpn[wi] \in Pages /\ lbn \in Int /\ FirstOf(lpn[wi]) <= lbn /\ FirstOf(lpn[wi]) \in Int
    BY <1>1, <1>2, PageFacts, FirstBlock DEF Blocks
  <2>3. lbn' \in Int /\ FirstOf(lpn[wi]) <= lbn' /\ lbn' < WordEnd(lpn[wi])
    BY <1>3, <2>1, <2>2
  <2>4. lbn' \in Blocks /\ PageOfBlock(lbn') = lpn[wi]
    BY <2>2, <2>3, BlocksOfPage
  <2> QED
    BY <1>1, <1>2, <2>1, <2>4 DEF Levelled
<1>4. CASE ~(lbn + 1 < WordEnd(lpn[wi])) /\ wi + 1 \in DOMAIN lpn
  <2>1. wi' = wi + 1 /\ lbn' = FirstOf(lpn[wi + 1]) /\ pc' = pc /\ lpn' = lpn
    BY <1>4 DEF NextBlock
  <2>2. lbn' \in Blocks /\ PageOfBlock(lbn') = lpn[wi + 1]
    BY <1>1, <1>4, <2>1, FirstBlock
  <2> QED
    BY <1>1, <1>2, <1>4, <2>1, <2>2 DEF Levelled
<1>5. CASE ~(lbn + 1 < WordEnd(lpn[wi])) /\ wi + 1 \notin DOMAIN lpn
  BY <1>5 DEF NextBlock, Levelled
<1> QED
  BY <1>3, <1>4, <1>5

LEMMA InitHot == Init => HotInv
<1> SUFFICES ASSUME Init PROVE HotInv
  OBVIOUS
<1>1. WearType
  BY WearAssumption DEF Init, WearType, Blocks, Size
<1>2. Listed /\ Levelled /\ HottestPages
  BY DEF Init, Listed, Levelled, HottestPages
<1> QED
  BY <1>1, <1>2, InitUsed, InitScanning DEF Init, HotInv

LEMMA AllocHot == HotInv /\ Alloc => HotInv'
<1> SUFFICES ASSUME HotInv, Alloc PROVE HotInv'
  OBVIOUS
<1>1. PICK first \in Blocks, last \in Blocks, repeat \in Repeats :
          /\ MapTable' = [c \in 0..Size |-> IF c \in first..last THEN c + 1 ELSE MapTable[c]]
          /\ InfoTable' = [p \in Pages |-> InfoTable[p]
                             + repeat * Cardinality({c \in first..last : PageOfBlock(c) = p})]
          /\ allocated' = allocated \union (first..last)
  BY DEF Alloc
<1>2. Size \in Nat /\ first..last \subseteq Blocks /\ repeat \in Nat
  BY WearAssumption DEF Size, Blocks
<1>3. pc = "ready" /\ pc' = pc /\ moved' = moved /\ UNCHANGED selection
  BY DEF Alloc
<1>4. WearType'
  <2>1. WearType
    BY DEF HotInv
  <2>2. MapTable' \in [0..Size -> Blocks \union {Size}]
    <3>1. ASSUME NEW c \in first..last PROVE c + 1 \in Blocks \union {Size}
      BY <1>2 DEF Blocks
    <3> QED
      BY <1>1, <2>1, <3>1 DEF WearType
  <2>3. InfoTable' \in [Pages -> Nat]
    <3>1. ASSUME NEW p \in Pages
          PROVE  Cardinality({c \in first..last : PageOfBlock(c) = p}) \in Nat
      <4>1. {c \in first..last : PageOfBlock(c) = p} \in SUBSET Blocks
        BY <1>2
      <4> QED
        BY <4>1, BlocksFinite, FS_Subset, FS_CardinalityType
    <3>2. ASSUME NEW p \in Pages PROVE InfoTable'[p] \in Nat
      <4>1. InfoTable'[p] = InfoTable[p]
                              + repeat * Cardinality({c \in first..last : PageOfBlock(c) = p})
        BY <1>1
      <4>2. InfoTable[p] \in Nat
        BY <2>1 DEF WearType
      <4> QED
        BY <1>2, <3>1, <4>1, <4>2
    <3>3. InfoTable' = [p \in Pages |-> InfoTable'[p]]
      BY <1>1
    <3> QED
      BY <3>2, <3>3
  <2>4. allocated' \subseteq Blocks /\ moved' \subseteq allocated'
    BY <1>1, <1>2, <1>3, <2>1 DEF WearType
  <2>5. ASSUME NEW c \in Blocks, MapTable'[c] # 0 PROVE c \in allocated'
    <3>1. c \in 0..Size
      BY <1>2 DEF Blocks
    <3> QED
      BY <1>1, <2>1, <2>5, <3>1 DEF WearType
  <2> QED
    BY <2>2, <2>3, <2>4, <2>5 DEF WearType
<1>5. Listed' /\ Levelled' /\ HottestPages'
  BY <1>3 DEF Listed, Levelled, HottestPages
<1>6. UsedInv' /\ IInv'
  BY <1>3, AllocUsed, OthersKeep DEF HotInv
<1> QED
  BY <1>4, <1>5, <1>6 DEF HotInv

\* The selection is given the pages in use and their counters.
LEMMA ExtractHot ==
    ASSUME HotInv, NEW count \in 1..PAGES, NEW s \in {"big", "small"}, Extract(s, count)
    PROVE  HotInv'
<1>1. /\ pc' = "select" /\ barray' \in PageLists /\ UNCHANGED <<tables, allocated>>
      /\ moved' \in {moved, {}}
  BY DEF Extract
<1> DEFINE len == Cardinality(UsedPages)
           a == [m \in 0..(Len(barray') - 1) |-> InfoTable[barray'[m + 1]]]
<1>2. UsedPages \subseteq Pages /\ len \in Nat
  BY PagesFinite, FS_Subset, FS_CardinalityType DEF UsedPages
<1>3. /\ barray' \in [1..len -> Pages] /\ Len(barray') = len
      /\ \A l, m \in 1..len : l # m => barray'[l] # barray'[m]
      /\ \A p \in UsedPages : \E m \in 1..len : barray'[m] = p
  <2>1. /\ barray' \in [1..len -> UsedPages]
        /\ \A l, m \in 1..len : l < m => barray'[l] < barray'[m]
        /\ \A p \in UsedPages : \E m \in 1..len : barray'[m] = p
    BY <1>1 DEF PageLists
  <2>2. Len(barray') = len
    BY <1>2, <2>1
  <2>3. ASSUME NEW l \in 1..len, NEW m \in 1..len, l # m PROVE barray'[l] # barray'[m]
    <3>1. barray'[l] \in Pages /\ barray'[m] \in Pages
      BY <1>2, <2>1
    <3>2. l \in Int /\ m \in Int /\ DOMAIN barray' = 1..len /\ Pages \subseteq Int
      BY <1>2, <2>1 DEF Pages
    <3>5. \A x, y \in Pages : x < y => x # y
      BY <3>2
    <3>3. CASE l < m
      <4>1. barray'[l] < barray'[m]
        BY <2>1, <3>3
      <4> QED
        BY <3>1, <3>5, <4>1
    <3>4. CASE m < l
      <4>1. barray'[m] < barray'[l]
        BY <2>1, <3>4
      <4> QED
        BY <3>1, <3>5, <4>1
    <3> QED
      BY <2>3, <3>2, <3>3, <3>4
  <2> QED
    BY <1>2, <2>1, <2>2, <2>3
<1>4. Call(s, a, len, count) \/ CallRefused(s, a, len, count)
  BY <1>3 DEF Extract
<1>5. a \in [0..(len - 1) -> Int] /\ count \in Int /\ len \in Int
  <2>1. ASSUME NEW m \in 0..(len - 1) PROVE InfoTable[barray'[m + 1]] \in Int
    BY <1>2, <1>3, <2>1 DEF HotInv, WearType
  <2> QED
    BY <1>2, <1>3, <2>1
<1>6. IInv'
  BY <1>4, <1>5, CallKeeps, RefusedKeeps
<1>7. UsedInv'
  <2>1. UNCHANGED <<BitMap, allocated>>
    BY <1>1 DEF tables
  <2> QED
    BY <2>1, QuietUsed DEF HotInv
<1>8. Listed'
  <2>1. CASE Call(s, a, len, count)
    <3>1. n' = len /\ arr' = a
      BY <2>1 DEF Call
    <3>2. UsedPages' = UsedPages /\ InfoTable' = InfoTable
      BY <1>1 DEF UsedPages, WordInUse, tables
    <3> QED
      BY <1>2, <1>3, <3>1, <3>2 DEF Listed
  <2>2. CASE CallRefused(s, a, len, count)
    BY <2>2 DEF CallRefused, Listed
  <2> QED
    BY <1>4, <2>1, <2>2
<1>9. WearType' /\ Levelled' /\ HottestPages'
  BY <1>1 DEF HotInv, WearType, tables, Levelled, HottestPages
<1> QED
  BY <1>6, <1>7, <1>8, <1>9 DEF HotInv

LEMMA SelectHot == HotInv /\ (Select \/ FindTest) => HotInv'
<1> SUFFICES ASSUME HotInv, Select \/ FindTest PROVE HotInv'
  OBVIOUS
<1>1. /\ pc' = pc /\ UNCHANGED <<tables, level, allocated, moved>>
      /\ pc = "select" => Scan
      /\ SelectCall \/ Scan \/ Take
      /\ pc \in {"select", "ready"}
  BY DEF Select, FindTest
<1>2. IInv'
  BY <1>1, SelectCallKeeps, ReplaceKeeps, PassKeeps, OthersKeep DEF Scan, HotInv
<1>3. UsedInv'
  BY <1>1, QuietUsed DEF tables, HotInv
<1>4. WearType' /\ Levelled' /\ HottestPages'
  BY <1>1 DEF HotInv, WearType, tables, Levelled, HottestPages
<1>5. Listed'
  <2>1. CASE pc = "ready"
    BY <1>1, <2>1 DEF Listed
  <2>2. CASE pc = "select"
    <3>1. n' = n /\ arr' = arr /\ stage = "scan"
      BY <1>1, <2>2 DEF Scan, Replace, Pass, Finish
    <3> QED
      BY <1>1, <2>2, <3>1 DEF HotInv, Listed, tables, level, UsedPages, WordInUse
  <2> QED
    BY <1>1, <2>1, <2>2
<1> QED
  BY <1>2, <1>3, <1>4, <1>5 DEF HotInv

\* The k best entries of the list are the k hottest pages in use.
LEMMA ExtractedHot == HotInv /\ (ExtractedBig \/ ExtractedSmall) => HotInv'
<1> SUFFICES ASSUME HotInv, ExtractedBig \/ ExtractedSmall PROVE HotInv'
  OBVIOUS
<1>1. UNCHANGED <<tables, allocated, moved>> /\ Take /\ pc = "select"
  BY DEF ExtractedBig, ExtractedSmall
<1>2. IInv' /\ UsedInv' /\ WearType'
  BY <1>1, OthersKeep, QuietUsed DEF HotInv, WearType, tables
<1>3. CASE ExtractedSmall
  BY <1>2, <1>3 DEF HotInv, ExtractedSmall, Listed, Levelled, HottestPages
<1>4. CASE ExtractedBig
  <2>1. /\ stage = "done" /\ side = "big" /\ pc' = "level" /\ wi' = 0
        /\ lpn' = [m \in 0..(k - 1) |-> barray[addr[m] + 1]]
        /\ lbn' = FirstOf(barray[addr[0] + 1])
    BY <1>4 DEF ExtractedBig, PageAt
  <2>2. /\ k \in Int /\ 0 < k /\ n \in Nat
        /\ \A l, m \in 0..(k - 1) : l # m => addr[l] # addr[m]
        /\ \A m \in 0..(k - 1) : addr[m] \in 0..(n - 1)
        /\ \A j \in 0..(n - 1) : \/ \E m \in 0..(k - 1) : addr[m] = j
                                 \/ \A m \in 0..(k - 1) : ~Better(arr[j], arr[addr[m]])
    BY <1>1, <2>1, AnswerIsBest DEF HotInv, IInv, Scanning, Listed, Selected
  <2>3. /\ barray \in [1..n -> Pages]
        /\ \A l, m \in 1..n : l # m => barray[l] # barray[m]
        /\ \A p \in UsedPages : \E m \in 1..n : barray[m] = p
        /\ arr = [m \in 0..(n - 1) |-> InfoTable[barray[m + 1]]]
    BY <1>1, <2>1 DEF HotInv, Listed
  <2>4. \A m \in 0..(k - 1) : addr[m] + 1 \in 1..n
    BY <2>2
  <2>5. k - 1 \in Nat /\ 0 \in 0..(k - 1) /\ lpn' \in [0..(k - 1) -> Pages]
    BY <2>1, <2>2, <2>3, <2>4
  <2>6. ASSUME NEW l \in 0..(k - 1), NEW m \in 0..(k - 1), l # m PROVE lpn'[l] # lpn'[m]
    BY <2>1, <2>2, <2>3, <2>4, <2>6
  <2>7. Levelled'
    <3>1. lbn' \in Blocks /\ PageOfBlock(lbn') = lpn'[0]
      BY <2>1, <2>3, <2>4, <2>5, FirstBlock
    <3>2. DOMAIN lpn' = 0..(k - 1)
      BY <2>1
    <3> QED
      BY <2>1, <2>5, <2>6, <3>1, <3>2 DEF Levelled
  <2>8. ASSUME NEW c \in BitMap, \A m \in 0..(k - 1) : lpn'[m] # PageOfBlock(c),
               NEW m \in 0..(k - 1)
        PROVE  InfoTable[PageOfBlock(c)] <= InfoTable[lpn'[m]]
    <3>1. PageOfBlock(c) \in UsedPages
      BY PageFacts DEF HotInv, UsedInv, UsedPages, WordInUse
    <3>2. PICK j \in 1..n : barray[j] = PageOfBlock(c)
      BY <2>3, <3>1
    <3>3. j - 1 \in 0..(n - 1) /\ (j - 1) + 1 = j
      BY <2>2
    <3>4. \A l \in 0..(k - 1) : addr[l] # j - 1
      BY <2>1, <2>8, <3>2, <3>3
    <3>5. ~Better(arr[j - 1], arr[addr[m]])
      BY <2>2, <3>3, <3>4
    <3>6. ~(arr[j - 1] > arr[addr[m]])
      BY <2>1, <3>5 DEF Better, BetterFor
    <3>7. /\ arr[j - 1] = InfoTable[PageOfBlock(c)] /\ arr[addr[m]] = InfoTable[lpn'[m]]
          /\ PageOfBlock(c) \in Pages /\ lpn'[m] \in Pages
      BY <2>1, <2>2, <2>3, <2>5, <3>2, <3>3
    <3>8. InfoTable[PageOfBlock(c)] \in Int /\ InfoTable[lpn'[m]] \in Int
      BY <3>7 DEF HotInv, WearType
    <3> QED
      BY <3>6, <3>7, <3>8
  <2>9. HottestPages'
    BY <1>1, <2>1, <2>6, <2>8 DEF HottestPages, tables
  <2> QED
    BY <1>2, <2>1, <2>7, <2>9 DEF HotInv, Listed
<1> QED
  BY <1>3, <1>4

LEMMA SkipHot == HotInv /\ (LevelSkip \/ UNCHANGED wvars) => HotInv'
<1> SUFFICES ASSUME HotInv, LevelSkip \/ UNCHANGED wvars PROVE HotInv'
  OBVIOUS
<1>1. UNCHANGED <<selection, tables, allocated, moved>>
  BY DEF LevelSkip, wvars
<1>2. IInv' /\ UsedInv' /\ WearType'
  BY <1>1, OthersKeep, QuietUsed DEF HotInv, WearType, tables
<1>3. CASE LevelSkip
  <2>1. /\ pc = "level" /\ NextBlock /\ pc' \in {"level", "ready"}
        /\ pc' = "level" => lpn' = lpn
    BY <1>3 DEF LevelSkip, NextBlock
  <2>2. Levelled'
    BY <2>1, NextIsLevelled DEF HotInv
  <2>3. Listed' /\ HottestPages'
    BY <1>1, <2>1 DEF HotInv, Listed, HottestPages, tables
  <2> QED
    BY <1>2, <2>2, <2>3 DEF HotInv
<1>4. CASE UNCHANGED wvars
  BY <1>2, <1>4 DEF HotInv, wvars, selection, tables, level, Listed, Levelled, HottestPages,
                    UsedPages, WordInUse
<1> QED
  BY <1>3, <1>4

LEMMA MoveHot == HotInv /\ LevelMove => HotInv'
<1> SUFFICES ASSUME HotInv, LevelMove PROVE HotInv'
  OBVIOUS
<1>1. PICK c \in Blocks : /\ MapTable' = [MapTable EXCEPT ![lbn] = c]
                          /\ InfoTable' = [InfoTable EXCEPT ![PageOfBlock(c)] = @ + 1]
  BY DEF LevelMove
<1>2. /\ pc = "level" /\ NextBlock /\ MapTable[lbn] # 0 /\ moved' = moved \union {lbn}
      /\ UNCHANGED selection /\ allocated' = allocated /\ pc' \in {"level", "ready"}
  BY DEF LevelMove, InPlace, NextBlock
<1>3. lbn \in Blocks /\ lbn \in allocated
  BY <1>2 DEF HotInv, Levelled, WearType
<1>4. WearType'
  <2>1. MapTable' \in [0..Size -> Blocks \union {Size}] /\ InfoTable' \in [Pages -> Nat]
    <3>1. MapTable' \in [0..Size -> Blocks \union {Size}]
      BY <1>1 DEF HotInv, WearType
    <3>2. InfoTable \in [Pages -> Nat] /\ PageOfBlock(c) \in Pages
      BY <1>1, PageFacts DEF HotInv, WearType
    <3>3. InfoTable[PageOfBlock(c)] + 1 \in Nat
      BY <3>2
    <3> QED
      BY <1>1, <3>1, <3>2, <3>3
  <2>2. ASSUME NEW d \in Blocks, MapTable'[d] # 0 PROVE d \in allocated
    <3>1. CASE d = lbn
      BY <1>3, <3>1
    <3>2. CASE d # lbn
      BY <1>1, <2>2, <3>2 DEF HotInv, WearType
    <3> QED
      BY <3>1, <3>2
  <2> QED
    BY <1>2, <1>3, <2>1, <2>2 DEF HotInv, WearType
<1>5. Levelled'
  BY <1>2, NextIsLevelled DEF HotInv
<1>6. Listed' /\ HottestPages'
  BY <1>2 DEF Listed, HottestPages
<1>7. UsedInv' /\ IInv'
  BY <1>2, MoveUsed, OthersKeep DEF HotInv
<1> QED
  BY <1>4, <1>5, <1>6, <1>7 DEF HotInv

LEMMA HotKept == HotInv /\ [Next]_wvars => HotInv'
BY AllocHot, ExtractHot, SelectHot, ExtractedHot, SkipHot, MoveHot DEF Next

(* A levelling always starts with the pages in use that were written most, *)
(* each once, for every number and size of pages and any counters.         *)
THEOREM LevelsHottest == Spec => []HottestPages
<1>1. HotInv => HottestPages
  BY DEF HotInv
<1> QED
  BY InitHot, HotKept, <1>1, PTL DEF Spec

-----------------------------------------------------------------------------
(* The first levelling. *)

\* Blocks that the levelling under way has passed.
Visited(c) == \/ \E m \in DOMAIN lpn : m < wi /\ lpn[m] = PageOfBlock(c)
              \/ PageOfBlock(c) = lpn[wi] /\ c < lbn

\* A bit that this levelling will not clear: it was set for a physical block.
Stays(c) == c \in BitMap /\ (c \in allocated => Visited(c))

\* FewForgotten counts these.
Forgotten == {c \in allocated : MapTable[c] = 0}

Untouched == moved = {} => \A c \in allocated : c \in BitMap /\ MapTable[c] # 0

\* What was not passed is as it was allocated, what was moved is where
\* nobody takes it away, and block 0 is handed out but once, except when
\* every bit is set.
Passing ==
    /\ \A c \in allocated : ~Visited(c) => c \in BitMap /\ MapTable[c] # 0
    /\ \A c \in moved : Visited(c) /\ (MapTable[c] # 0 => Stays(MapTable[c]))
    /\ allocated # Blocks /\ Forgotten # {} => Stays(0)
    /\ allocated = Blocks /\ Cardinality(Forgotten) > 1 => Stays(0)
    /\ BitMap = Blocks => Cardinality(Forgotten) <= 1 /\ (Forgotten # {} => Visited(0))

FirstPass == passes <= 1 =>
                 /\ passes = 0 => moved = {}
                 /\ pc = "select" /\ side = "big" => moved = {}
                 /\ Untouched
                 /\ pc = "level" => Passing

PassInv == HotInv /\ FirstPass /\ MovedApart /\ FewForgotten

LEMMA NotPassedYet ==
    ASSUME HotInv, pc = "level"
    PROVE  lbn \in Blocks /\ ~Visited(lbn)
<1>1. PICK last \in Nat : lpn \in [0..last -> Pages]
  BY DEF HotInv, Levelled
<1>2. /\ \A l, m \in DOMAIN lpn : l # m => lpn[l] # lpn[m]
      /\ wi \in DOMAIN lpn /\ lbn \in Blocks /\ PageOfBlock(lbn) = lpn[wi]
  BY DEF HotInv, Levelled
<1>3. ~(lbn < lbn)
  BY <1>2 DEF Blocks
<1>4. ASSUME NEW m \in DOMAIN lpn, m < wi PROVE lpn[m] # PageOfBlock(lbn)
  BY <1>1, <1>2, <1>4
<1> QED
  BY <1>2, <1>3, <1>4 DEF Visited

\* Going on passes the block that lbn was at, and no other.
LEMMA PassesOne ==
    ASSUME HotInv, pc = "level", NextBlock, pc' = "level", NEW c \in Blocks
    PROVE  Visited(c)' <=> Visited(c) \/ c = lbn
<1>1. PICK last \in Nat : lpn \in [0..last -> Pages]
  BY DEF HotInv, Levelled
<1>2. wi \in 0..last /\ lbn \in Blocks /\ PageOfBlock(lbn) = lpn[wi] /\ DOMAIN lpn = 0..last
  BY <1>1 DEF HotInv, Levelled
<1>3. c \in Int /\ lbn \in Int /\ wi \in Int /\ Blocks \subseteq Int
  BY <1>1, <1>2 DEF Blocks
<1>4. CASE lbn + 1 < WordEnd(lpn[wi])
  <2>1. lbn' = lbn + 1 /\ lpn' = lpn /\ wi' = wi
    BY <1>4 DEF NextBlock
  <2>2. c < lbn' <=> c < lbn \/ c = lbn
    BY <1>3, <2>1
  <2> QED
    BY <1>2, <2>1, <2>2 DEF Visited, PageOfBlock
<1>5. CASE ~(lbn + 1 < WordEnd(lpn[wi])) /\ wi + 1 \in DOMAIN lpn
  <2>1. wi' = wi + 1 /\ lbn' = FirstOf(lpn[wi + 1]) /\ lpn' = lpn
    BY <1>5 DEF NextBlock
  <2>2. FirstOf(lpn[wi + 1]) \in Int /\ WordEnd(lpn[wi]) \in Int
    <3>1. lpn[wi + 1] \in Pages /\ lpn[wi] \in Pages
      BY <1>1, <1>2, <1>5
    <3> QED
      BY <3>1, WearAssumption DEF Pages, FirstOf, WordEnd
  <2>3. PageOfBlock(c) = lpn[wi + 1] => ~(c < lbn')
    BY <1>3, <2>1, <2>2, PageFacts
  <2>4. PageOfBlock(c) = lpn[wi] => c <= lbn
    <3>1. PageOfBlock(c) = lpn[wi] => c < WordEnd(lpn[wi])
      BY PageFacts
    <3> QED
      BY <1>3, <1>5, <2>2, <3>1
  <2>5. \A m \in DOMAIN lpn : m < wi' <=> m < wi \/ m = wi
    BY <1>2, <1>3, <2>1
  <2>6. Visited(c)' <=> \E m \in DOMAIN lpn : m < wi' /\ lpn[m] = PageOfBlock(c)
    BY <2>1, <2>3 DEF Visited, PageOfBlock
  <2>7. Visited(c)' <=> \/ \E m \in DOMAIN lpn : m < wi /\ lpn[m] = PageOfBlock(c)
                        \/ lpn[wi] = PageOfBlock(c)
    BY <1>2, <2>5, <2>6
  <2>8. lpn[wi] = PageOfBlock(c) <=> (PageOfBlock(c) = lpn[wi] /\ c < lbn) \/ c = lbn
    BY <1>2, <1>3, <2>4
  <2> QED
    BY <2>7, <2>8 DEF Visited
<1>6. CASE ~(lbn + 1 < WordEnd(lpn[wi])) /\ wi + 1 \notin DOMAIN lpn
  BY <1>6 DEF NextBlock
<1> QED
  BY <1>4, <1>5, <1>6

LEMMA ForgottenFinite ==
    ASSUME HotInv
    PROVE  IsFiniteSet(Forgotten) /\ Cardinality(Forgotten) \in Nat /\ Forgotten \subseteq Blocks
<1>1. Forgotten \in SUBSET Blocks
  BY DEF Forgotten, HotInv, WearType
<1> QED
  BY <1>1, BlocksFinite, FS_Subset, FS_CardinalityType

\* Before the first block is moved nothing can be wrong.
LEMMA NoneForgotten ==
    ASSUME NEW S, NEW f, \A c \in S : f[c] # 0
    PROVE  {c \in S : f[c] = 0} = {} /\ Cardinality({c \in S : f[c] = 0}) = 0
<1>1. {c \in S : f[c] = 0} = {}
  OBVIOUS
<1> QED
  BY <1>1, FS_EmptySet

LEMMA InitPass == Init => PassInv
<1> SUFFICES ASSUME Init PROVE PassInv
  OBVIOUS
<1>1. Untouched /\ moved = {}
  BY DEF Init, Untouched
<1>2. FirstPass
  BY <1>1 DEF Init, FirstPass
<1> QED
  BY <1>1, <1>2, InitHot, NoneForgotten DEF PassInv, Untouched, MovedApart, FewForgotten

LEMMA AllocPass == PassInv /\ Alloc => PassInv'
<1> SUFFICES ASSUME PassInv, Alloc PROVE PassInv'
  OBVIOUS
<1>1. PICK first \in Blocks, last \in Blocks :
          /\ MapTable' = [c \in 0..Size |-> IF c \in first..last THEN c + 1 ELSE MapTable[c]]
          /\ BitMap' = BitMap \union (first..last)
          /\ allocated' = allocated \union (first..last)
  BY DEF Alloc
<1>2. pc = "ready" /\ passes = 0 /\ pc' = pc /\ passes' = passes /\ moved' = moved
  BY DEF Alloc
<1>3. moved = {} /\ \A c \in allocated : c \in BitMap /\ MapTable[c] # 0
  BY <1>2 DEF PassInv, FirstPass, Untouched
<1>4. HotInv'
  BY AllocHot DEF PassInv
<1>5. ASSUME NEW c \in allocated' PROVE c \in BitMap' /\ MapTable'[c] # 0
  <2>1. c \in Blocks /\ c \in Int /\ 0 <= c /\ c \in 0..Size
    BY <1>4, WearAssumption DEF HotInv, WearType, Blocks, Size
  <2>2. CASE c \in first..last
    BY <1>1, <2>1, <2>2
  <2>3. CASE c \notin first..last
    BY <1>1, <1>3, <2>1, <2>3
  <2> QED
    BY <2>2, <2>3
<1>6. Untouched' /\ moved' = {}
  BY <1>2, <1>3, <1>5 DEF Untouched
<1>7. FirstPass'
  BY <1>2, <1>6 DEF FirstPass
<1>8. MovedApart' /\ FewForgotten'
  BY <1>6, NoneForgotten DEF Untouched, MovedApart, FewForgotten
<1> QED
  BY <1>4, <1>7, <1>8 DEF PassInv

\* Apart from the levelling itself, a pass begins and ends.
LEMMA BetweenPasses ==
    ASSUME PassInv, \/ FindTest \/ Select \/ ExtractedSmall \/ UNCHANGED wvars
                    \/ \E count \in 1..PAGES, s \in {"big", "small"} : Extract(s, count)
    PROVE  PassInv'
<1>1. HotInv'
  BY HotKept DEF PassInv, Next
<1>2. UNCHANGED <<tables, allocated>>
  BY DEF FindTest, Select, ExtractedSmall, wvars, Extract
<1>3. ASSUME UNCHANGED <<moved, passes>>, pc' = "level" => UNCHANGED wvars,
             pc' = "select" /\ side' = "big" => pc = "select" /\ side = "big"
      PROVE  FirstPass' /\ MovedApart' /\ FewForgotten'
  <2>1. Untouched => Untouched'
    BY <1>2, <1>3 DEF Untouched, tables
  <2>2. MovedApart' /\ FewForgotten'
    BY <1>2, <1>3 DEF PassInv, MovedApart, FewForgotten, tables
  <2>3. pc' = "level" /\ Passing => pc = "level" /\ Passing'
    BY <1>3 DEF wvars, tables, level, Passing, Visited, Stays, Forgotten
  <2>4. pc' = "level" => pc = "level"
    BY <1>3 DEF wvars
  <2> QED
    BY <1>3, <2>1, <2>2, <2>3, <2>4 DEF PassInv, FirstPass
<1>4. CASE FindTest \/ Select \/ ExtractedSmall \/ UNCHANGED wvars
  <2>1. UNCHANGED <<moved, passes>>
    BY <1>4 DEF FindTest, Select, ExtractedSmall, wvars
  <2>2. pc' = "level" => UNCHANGED wvars
    BY <1>4 DEF FindTest, Select, ExtractedSmall
  <2>3. pc' = "select" /\ side' = "big" => pc = "select" /\ side = "big"
    BY <1>4 DEF FindTest, Select, Scan, Replace, Pass, Finish, ExtractedSmall, wvars, selection
  <2> QED
    BY <1>1, <1>3, <2>1, <2>2, <2>3 DEF PassInv
<1>5. ASSUME NEW count \in 1..PAGES, NEW s \in {"big", "small"}, Extract(s, count)
      PROVE  PassInv'
  <2>1. pc' = "select" /\ side' = s /\ passes \in Nat
    BY <1>5 DEF Extract, Call, CallRefused, PassInv, HotInv, UsedInv, Phases
  <2>2. CASE s = "small"
    <3>1. UNCHANGED <<moved, passes>>
      BY <1>5, <2>2 DEF Extract
    <3> QED
      BY <1>1, <1>3, <2>1, <2>2, <3>1 DEF PassInv
  <2>3. CASE s = "big"
    <3>1. passes' = passes + 1 /\ moved' = {}
      BY <1>5, <2>3 DEF Extract
    <3>2. CASE passes = 0
      <4>1. Untouched /\ moved = {}
        BY <3>2 DEF PassInv, FirstPass
      <4>2. Untouched'
        BY <1>2, <4>1 DEF Untouched, tables
      <4>3. MovedApart' /\ FewForgotten'
        BY <3>1, <4>2, NoneForgotten DEF Untouched, MovedApart, FewForgotten
      <4>4. FirstPass'
        BY <2>1, <3>1, <4>2 DEF FirstPass
      <4> QED
        BY <1>1, <4>3, <4>4 DEF PassInv
    <3>3. CASE passes # 0
      <4>1. ~(passes' <= 1)
        BY <2>1, <3>1, <3>3
      <4> QED
        BY <1>1, <4>1 DEF PassInv, FirstPass, MovedApart, FewForgotten
    <3> QED
      BY <3>2, <3>3
  <2> QED
    BY <2>2, <2>3
<1> QED
  BY <1>4, <1>5

LEMMA BeginPass == PassInv /\ ExtractedBig => PassInv'
<1> SUFFICES ASSUME PassInv, ExtractedBig PROVE PassInv'
  OBVIOUS
<1>1. HotInv'
  BY HotKept DEF PassInv, Next
<1>2. UNCHANGED <<tables, allocated, passes, moved>> /\ pc' = "level" /\ pc = "select" /\ side = "big"
  BY DEF ExtractedBig
<1>3. MovedApart' /\ FewForgotten'
  BY <1>2 DEF PassInv, MovedApart, FewForgotten, tables
<1>4. ASSUME passes <= 1 PROVE Untouched' /\ moved' = {} /\ Passing'
  <2>1. Untouched /\ moved = {}
    BY <1>2, <1>4 DEF PassInv, FirstPass
  <2>2. Untouched' /\ moved' = {}
    BY <1>2, <2>1 DEF Untouched, tables
  <2>3. Forgotten' = {} /\ Cardinality(Forgotten') = 0
    BY <2>2, NoneForgotten DEF Untouched, Forgotten
  <2>4. ~(Cardinality(Forgotten') > 1) /\ Cardinality(Forgotten') <= 1
    BY <2>3
  <2> QED
    BY <2>2, <2>3, <2>4 DEF Passing, Untouched
<1>5. FirstPass'
  BY <1>2, <1>4 DEF FirstPass
<1> QED
  BY <1>1, <1>3, <1>5 DEF PassInv

LEMMA SkipPass == PassInv /\ LevelSkip => PassInv'
<1> SUFFICES ASSUME PassInv, LevelSkip PROVE PassInv'
  OBVIOUS
<1>1. HotInv /\ HotInv'
  BY HotKept DEF PassInv, Next
<1>2. /\ UNCHANGED <<tables, allocated, passes, moved>> /\ pc = "level" /\ NextBlock
      /\ pc' \in {"level", "ready"}
  BY DEF LevelSkip, NextBlock
<1>3. MovedApart' /\ FewForgotten'
  BY <1>2 DEF PassInv, MovedApart, FewForgotten, tables
<1>4. Untouched => Untouched'
  BY <1>2 DEF Untouched, tables
<1>5. ASSUME pc' = "level", Passing PROVE Passing'
  <2>1. \A c \in Blocks : Visited(c) => Visited(c)'
    BY <1>1, <1>2, <1>5, PassesOne
  <2>2. \A c \in Blocks : Stays(c) => Stays(c)'
    BY <1>2, <2>1 DEF Stays, tables
  <2>3. 0 \in Blocks /\ allocated \subseteq Blocks /\ moved \subseteq Blocks /\ BitMap \subseteq Blocks
    BY <1>1, WearAssumption DEF HotInv, WearType, UsedInv, Blocks, Size
  <2>4. Forgotten' = Forgotten
    BY <1>2 DEF Forgotten, tables
  <2>5. \A c \in allocated' : ~Visited(c)' => c \in BitMap' /\ MapTable'[c] # 0
    BY <1>2, <1>5, <2>1, <2>3 DEF Passing, tables
  <2>6. \A c \in moved' : Visited(c)' /\ (MapTable[c] # 0 => Stays(MapTable[c]))'
    <3>1. ASSUME NEW c \in moved, MapTable[c] # 0 PROVE MapTable[c] \in Blocks
      BY <1>5, <2>3, <3>1 DEF Passing, Stays
    <3> QED
      BY <1>2, <1>5, <2>1, <2>2, <2>3, <3>1 DEF Passing, tables
  <2>7. /\ allocated' # Blocks /\ Forgotten' # {} => Stays(0)'
        /\ allocated' = Blocks /\ Cardinality(Forgotten') > 1 => Stays(0)'
        /\ BitMap' = Blocks => Cardinality(Forgotten') <= 1 /\ (Forgotten' # {} => Visited(0)')
    BY <1>2, <1>5, <2>1, <2>2, <2>3, <2>4 DEF Passing, tables
  <2> QED
    BY <2>5, <2>6, <2>7 DEF Passing
<1>6. FirstPass'
  BY <1>2, <1>4, <1>5 DEF PassInv, FirstPass
<1> QED
  BY <1>1, <1>3, <1>6 DEF PassInv

\* A move hands out a clear bit, or block 0 when none is clear.
LEMMA HandsOut ==
    ASSUME NEW pos, NEW c, BitMap \subseteq Blocks, QueryBitMap(pos, c)
    PROVE  c \notin BitMap \/ (BitMap = Blocks /\ c = 0)
BY DEF QueryBitMap, FirstIn, Free

LEMMA MovePass == PassInv /\ LevelMove => PassInv'
<1> SUFFICES ASSUME PassInv, LevelMove PROVE PassInv'
  OBVIOUS
<1>1. HotInv /\ HotInv' /\ UsedInv /\ WearType
  BY HotKept DEF PassInv, HotInv, Next
<1>2. PICK new \in Blocks :
          /\ QueryBitMap(MapTable[lbn], new)
          /\ BitMap' = (BitMap \ {lbn}) \union {new}
          /\ MapTable' = [MapTable EXCEPT ![lbn] = new]
  BY DEF LevelMove, Exchanged
<1>3. /\ pc = "level" /\ NextBlock /\ pc' \in {"level", "ready"} /\ lbn \in BitMap
      /\ MapTable[lbn] # 0 /\ moved' = moved \union {lbn}
      /\ allocated' = allocated /\ passes' = passes
  BY DEF LevelMove, InPlace, NextBlock
<1>4. lbn \in Blocks /\ ~Visited(lbn) /\ lbn \in allocated /\ moved \subseteq allocated
      /\ BitMap \subseteq Blocks /\ allocated \subseteq Blocks /\ 0 \in Blocks
  BY <1>1, <1>3, NotPassedYet, WearAssumption DEF WearType, UsedInv, Blocks, Size
<1>5. new \notin BitMap \/ (BitMap = Blocks /\ new = 0)
  BY <1>2, <1>4, HandsOut
<1>6. /\ MapTable'[lbn] = new
      /\ \A c \in Blocks : c # lbn => MapTable'[c] = MapTable[c]
  <2>1. \A c \in Blocks : c \in 0..Size
    BY WearAssumption DEF Blocks, Size
  <2> QED
    BY <1>1, <1>2, <1>4, <2>1 DEF WearType
<1>7. CASE ~(passes <= 1)
  BY <1>1, <1>3, <1>7 DEF PassInv, FirstPass, MovedApart, FewForgotten
<1>8. CASE passes <= 1
  <2> DEFINE Now(c) == Visited(c) \/ c = lbn
             Remains(c) == c \in BitMap' /\ (c \in allocated => Now(c))
             rest == Forgotten'
             Few == /\ Cardinality(rest) <= IF allocated = Blocks THEN 2 ELSE 1
                    /\ allocated # Blocks /\ rest # {} => Remains(0)
                    /\ allocated = Blocks /\ Cardinality(rest) > 1 => Remains(0)
                    /\ BitMap' = Blocks => Cardinality(rest) <= 1 /\ (rest # {} => Now(0))
  <2>1. /\ Passing /\ MovedApart
        /\ Cardinality(Forgotten) <= IF allocated = Blocks THEN 2 ELSE 1
    BY <1>3, <1>8 DEF PassInv, FirstPass, FewForgotten, Forgotten
  <2>2. \A c \in Blocks : Stays(c) => Remains(c)
    BY <1>2, <1>4 DEF Stays
  <2>3. ASSUME new \notin BitMap PROVE Remains(new)
    BY <1>2, <2>1, <2>3 DEF Passing
  <2>4. ASSUME NEW c \in allocated, ~Now(c) PROVE c \in BitMap' /\ MapTable'[c] # 0
    BY <1>2, <1>4, <1>6, <2>1, <2>4 DEF Passing
  <2>5. ASSUME NEW c \in moved' PROVE Now(c) /\ (MapTable'[c] # 0 => Remains(MapTable'[c]))
    <3>1. CASE c = lbn
      BY <1>5, <1>6, <2>3, <3>1
    <3>2. CASE c # lbn
      <4>1. c \in moved /\ c \in Blocks /\ MapTable'[c] = MapTable[c] /\ Visited(c)
        BY <1>3, <1>4, <1>6, <2>1, <2>5, <3>2 DEF Passing
      <4>2. MapTable[c] # 0 => Stays(MapTable[c]) /\ MapTable[c] \in Blocks
        BY <1>4, <2>1, <4>1 DEF Passing, Stays
      <4> QED
        BY <2>2, <4>1, <4>2
    <3> QED
      BY <3>1, <3>2
  <2>6. MovedApart'
    <3> SUFFICES ASSUME NEW x \in moved', NEW y \in moved', x # y, MapTable'[x] # 0
                 PROVE  MapTable'[x] # MapTable'[y]
      BY DEF MovedApart
    <3>1. \A c \in moved : c # lbn => /\ MapTable'[c] = MapTable[c]
                                      /\ MapTable[c] # 0 => MapTable[c] \in BitMap
      BY <1>4, <1>6, <2>1 DEF Passing, Stays
    <3>2. CASE x = lbn
      <4>1. new # 0 /\ new \notin BitMap /\ y \in moved /\ y # lbn
        BY <1>3, <1>5, <1>6, <3>2
      <4> QED
        BY <1>6, <3>1, <3>2, <4>1
    <3>3. CASE y = lbn
      <4>1. x \in moved /\ x # lbn
        BY <1>3, <3>3
      <4>2. MapTable'[x] \in BitMap
        BY <3>1, <4>1
      <4> QED
        BY <1>5, <1>6, <3>3, <4>2
    <3>4. CASE x # lbn /\ y # lbn
      BY <1>3, <1>8, <2>1, <3>1, <3>4 DEF MovedApart
    <3> QED
      BY <3>2, <3>3, <3>4
  <2>7. /\ IsFiniteSet(Forgotten) /\ Cardinality(Forgotten) \in Nat /\ lbn \notin Forgotten
        /\ rest = IF new = 0 THEN Forgotten \union {lbn} ELSE Forgotten
    <3>1. IsFiniteSet(Forgotten) /\ Cardinality(Forgotten) \in Nat
      BY <1>1, ForgottenFinite
    <3>2. lbn \notin Forgotten
      BY <1>3 DEF Forgotten
    <3>3. rest = {c \in allocated : MapTable'[c] = 0}
      BY <1>3 DEF Forgotten
    <3>4. rest = IF new = 0 THEN Forgotten \union {lbn} ELSE Forgotten
      BY <1>4, <1>6, <3>2, <3>3 DEF Forgotten
    <3> QED
      BY <3>1, <3>2, <3>4
  <2>8. /\ new = 0 => Cardinality(rest) = Cardinality(Forgotten) + 1
        /\ new # 0 => rest = Forgotten
        /\ Cardinality(Forgotten) = 0 <=> Forgotten = {}
    BY <2>7, FS_AddElement, FS_EmptySet
  <2>9. ASSUME new \notin BitMap PROVE BitMap' # Blocks
    BY <1>2, <1>3, <1>4, <2>9
  <2>10. ASSUME new \notin BitMap, new = 0 PROVE ~Stays(0) /\ Remains(0)
    BY <2>3, <2>10 DEF Stays
  <2>11. ASSUME allocated # Blocks PROVE Few
    <3>1. BitMap # Blocks
      <4>1. Cardinality(BitMap) = Cardinality(allocated)
        BY <1>1, <2>11 DEF UsedInv, UsedKept
      <4>2. Cardinality(allocated) # Cardinality(Blocks)
        BY <1>4, <2>11, BlocksFinite, FS_Subset
      <4> QED
        BY <4>1, <4>2
    <3>2. new \notin BitMap
      BY <1>5, <3>1
    <3>3. Cardinality(rest) <= 1 /\ (rest # {} => Remains(0))
      <4>1. CASE new = 0
        <5>1. Forgotten = {}
          BY <2>1, <2>10, <2>11, <3>2, <4>1 DEF Passing
        <5> QED
          BY <2>7, <2>8, <2>10, <3>2, <4>1, <5>1
      <4>2. CASE new # 0
        BY <1>4, <2>1, <2>2, <2>8, <2>11, <4>2 DEF Passing
      <4> QED
        BY <4>1, <4>2
    <3> QED
      BY <2>9, <2>11, <3>2, <3>3
  <2>12. ASSUME allocated = Blocks PROVE Few
    <3>1. Cardinality(Forgotten) <= 2
      BY <2>1, <2>12
    <3>2. CASE new \notin BitMap
      <4>1. ASSUME new = 0 PROVE Cardinality(rest) <= 2 /\ Remains(0)
        <5>1. ~(Cardinality(Forgotten) > 1)
          BY <2>1, <2>10, <2>12, <3>2, <4>1 DEF Passing
        <5> QED
          BY <2>7, <2>8, <2>10, <3>2, <4>1, <5>1
      <4>2. ASSUME new # 0
            PROVE  Cardinality(rest) <= 2 /\ (Cardinality(rest) > 1 => Remains(0))
        BY <1>4, <2>1, <2>2, <2>8, <2>12, <3>1, <4>2 DEF Passing
      <4> QED
        BY <2>9, <2>12, <3>2, <4>1, <4>2
    <3>3. CASE BitMap = Blocks /\ new = 0
      <4>1. Cardinality(Forgotten) <= 1 /\ (Forgotten # {} => Visited(0))
        BY <2>1, <3>3 DEF Passing
      <4>2. Cardinality(rest) <= 2
        BY <2>7, <2>8, <3>3, <4>1
      <4>3. 0 \in BitMap'
        BY <1>2, <3>3
      <4>4. Cardinality(rest) > 1 => Remains(0)
        BY <2>7, <2>8, <3>3, <4>1, <4>3
      <4>5. ASSUME BitMap' = Blocks PROVE Cardinality(rest) <= 1 /\ Now(0)
        <5>1. lbn = 0
          BY <1>2, <1>4, <3>3, <4>5
        <5>2. Forgotten = {}
          BY <1>4, <4>1, <5>1
        <5> QED
          BY <2>7, <2>8, <3>3, <5>1, <5>2
      <4> QED
        BY <2>12, <4>2, <4>4, <4>5
    <3> QED
      BY <1>5, <3>2, <3>3
  <2>13. Few
    BY <2>11, <2>12
  <2>14. FewForgotten'
    BY <1>3, <2>13 DEF FewForgotten, Forgotten
  <2>15. ASSUME pc' = "level" PROVE Passing'
    <3>1. \A c \in Blocks : Visited(c)' <=> Now(c)
      BY <1>1, <1>3, <2>15, PassesOne
    <3>2. \A c \in Blocks : Stays(c)' <=> Remains(c)
      BY <1>3, <3>1 DEF Stays
    <3>3. \A c \in allocated' : (~Visited(c) => c \in BitMap /\ MapTable[c] # 0)'
      BY <1>3, <1>4, <2>4, <3>1
    <3>4. BitMap' \subseteq Blocks /\ moved' \subseteq Blocks
      BY <1>2, <1>3, <1>4
    <3>5. \A c \in moved' : (Visited(c) /\ (MapTable[c] # 0 => Stays(MapTable[c])))'
      <4> SUFFICES ASSUME NEW c \in moved'
                   PROVE  Visited(c)' /\ (MapTable'[c] # 0 => (Stays(MapTable[c]))')
        OBVIOUS
      <4>1. Now(c) /\ (MapTable'[c] # 0 => Remains(MapTable'[c]))
        BY <2>5
      <4>2. ASSUME MapTable'[c] # 0 PROVE (Stays(MapTable[c]))'
        <5>1. Remains(MapTable'[c]) /\ MapTable'[c] \in Blocks
          BY <3>4, <4>1, <4>2
        <5>2. PICK d \in Blocks : d = MapTable'[c]
          BY <5>1
        <5>3. Stays(d)'
          BY <3>2, <5>1, <5>2
        <5> QED
          BY <5>2, <5>3 DEF Stays, Visited, PageOfBlock
      <4> QED
        BY <3>1, <3>4, <4>1, <4>2
    <3> QED
      BY <1>3, <1>4, <2>13, <3>1, <3>2, <3>3, <3>5 DEF Passing
  <2>16. FirstPass'
    <3>1. moved' # {} /\ passes # 0
      BY <1>1, <1>3 DEF UsedInv, Phases
    <3> QED
      BY <1>3, <2>15, <3>1 DEF FirstPass, Untouched
  <2> QED
    BY <1>1, <2>6, <2>14, <2>16 DEF PassInv
<1> QED
  BY <1>7, <1>8

LEMMA PassInvariant == Spec => []PassInv
<1>1. PassInv /\ [Next]_wvars => PassInv'
  BY AllocPass, BetweenPasses, BeginPass, SkipPass, MovePass DEF Next
<1> QED
  BY InitPass, <1>1, PTL DEF Spec

(* The first levelling gives no two of the blocks it moves the same        *)
(* physical block, for every number and size of pages, wherever the search *)
(* for a free block wraps around.                                          *)
THEOREM FirstLevellingMovesApart == Spec => []MovedApart
<1>1. PassInv => MovedApart
  BY DEF PassInv
<1> QED
  BY PassInvariant, <1>1, PTL

(* It forgets where one block is at most, or two when every block was      *)
(* allocated, however many it moves.                                       *)
THEOREM FirstLevellingForgetsFew == Spec => []FewForgotten
<1>1. PassInv => FewForgotten
  BY DEF PassInv
<1> QED
  BY PassInvariant, <1>1, PTL

-----------------------------------------------------------------------------
(* The idle test. *)

\* The lower half of what is known in the wider half only.
LEMMA HalfOfWide ==
    ASSUME NEW a \in Int
    PROVE  \E q \in Int : (a % LONG) = a + UINT * q
<1>1. LONG \in Int /\ UINT \in Int /\ LONG > 0 /\ UINT > 0 /\ LONG % UINT = 0
  BY ClockAssumption
<1>2. a \div LONG \in Int /\ a = LONG * (a \div LONG) + (a % LONG) /\ a % LONG \in Int
  BY <1>1, DivMod
<1>3. LONG \div UINT \in Int /\ LONG = UINT * (LONG \div UINT)
  BY <1>1, DivMod
<1> DEFINE d == LONG \div UINT
           e == a \div LONG
<1>4. -(d * e) \in Int /\ LONG * e = UINT * (d * e)
  BY <1>1, <1>2, <1>3
<1>5. a % LONG = a + UINT * (-(d * e))
  BY <1>1, <1>2, <1>4
<1> QED
  BY <1>4, <1>5

\* The milliseconds that the test computes are the age, but for whole turns
\* of an unsigned int.
LEMMA IntervalIsAge ==
    ASSUME NEW t1 \in Int, NEW t2 \in Int,
           now_jiffies = t1 % LONG, last_access_jiffies = (t2 % LONG) % UINT
    PROVE  Interval = ((t1 - t2) * MSECS) % UINT
<1>1. LONG \in Int /\ UINT \in Int /\ LONG > 0 /\ UINT > 0 /\ MSECS \in Int
  BY ClockAssumption
<1>2. t1 % LONG \in Int /\ t2 % LONG \in Int /\ (t2 % LONG) % UINT \in Int
  BY <1>1, DivMod
<1>3. PICK p \in Int : now_jiffies = t1 + UINT * p
  BY HalfOfWide
<1>4. PICK q \in Int : t2 % LONG = t2 + UINT * q
  BY HalfOfWide
<1>5. PICK r \in Int : last_access_jiffies = (t2 + UINT * q) - UINT * r
  <2>1. t2 % LONG = UINT * ((t2 % LONG) \div UINT) + last_access_jiffies
    BY <1>1, <1>2, DivMod
  <2> QED
    BY <1>1, <1>2, <1>4, <2>1, DivMod
<1>6. now_jiffies - last_access_jiffies \in Int
  BY <1>2
<1>7. PICK s \in Int : (now_jiffies - last_access_jiffies) % LONG
                          = (now_jiffies - last_access_jiffies) + UINT * s
  BY <1>6, HalfOfWide
<1> DEFINE w == (((p - q) + r) + s)
<1>8. w \in Int /\ (now_jiffies - last_access_jiffies) % LONG = (t1 - t2) + UINT * w
  BY <1>1, <1>3, <1>5, <1>7
<1> DEFINE age == (t1 - t2) * MSECS
           all == ((t1 - t2) + UINT * w) * MSECS
<1>9. age \in Int /\ all \in Int /\ w * MSECS \in Int /\ all = age + UINT * (w * MSECS)
  BY <1>1, <1>8
<1>10. age % UINT \in 0..(UINT - 1) /\ age \div UINT \in Int
       /\ age = UINT * (age \div UINT) + (age % UINT)
  BY <1>1, <1>9, DivMod
<1>11. (age \div UINT) + (w * MSECS) \in Int
       /\ all = UINT * ((age \div UINT) + (w * MSECS)) + (age % UINT)
  BY <1>1, <1>9, <1>10
<1>12. all % UINT = age % UINT
  BY <1>1, <1>9, <1>10, <1>11, ModIsRest
<1> QED
  BY <1>8, <1>12 DEF Interval, Msecs

\* The times that the history remembers are those that the code has stored.
IdleInv ==
    /\ time \in Nat /\ seen \in Nat /\ seen <= time
    /\ accessed \in Int /\ -1 <= accessed /\ accessed <= time
    /\ overtaken \in BOOLEAN
    /\ accessed >= 0 => last_access_jiffies = (accessed % LONG) % UINT
    /\ idle = "testing" => /\ now_jiffies = seen % LONG
                           /\ overtaken <=> accessed > seen

LEMMA IdleInvariant == IdleSpec => []IdleInv
<1>1. ASSUME IdleInit PROVE IdleInv
  <2>1. BOOT \in Nat /\ ~(-1 >= 0) /\ 0 <= BOOT /\ -1 <= BOOT /\ 0 \in Nat /\ -1 \in Int
    BY ClockAssumption
  <2>2. accessed = -1 /\ time = BOOT /\ seen = 0 /\ idle = "none" /\ overtaken \in BOOLEAN
    BY <1>1 DEF IdleInit
  <2> QED
    BY <2>1, <2>2 DEF IdleInv
<1>2. IdleInv /\ [IdleNext]_ivars => IdleInv'
  <2> SUFFICES ASSUME IdleInv, [IdleNext]_ivars PROVE IdleInv'
    OBVIOUS
  <2>1. CASE Tick
    BY <2>1 DEF Tick, IdleInv
  <2>2. CASE Access
    <3>1. /\ accessed' = time /\ seen' = seen /\ time' = time /\ idle' = idle
          /\ now_jiffies' = now_jiffies
          /\ last_access_jiffies' = (accessed' % LONG) % UINT
      BY <2>2 DEF Access, AccessTime, jiffies
    <3>2. overtaken' = ((idle = "testing" /\ time > seen) \/ overtaken)
      BY <2>2 DEF Access
    <3>3. overtaken' \in BOOLEAN
      BY <3>2
    <3>4. ASSUME idle' = "testing" PROVE overtaken' <=> accessed' > seen'
      <4>1. idle = "testing" /\ (overtaken => time > seen)
        BY <3>1, <3>4 DEF IdleInv
      <4> QED
        BY <3>1, <3>2, <4>1
    <3> QED
      BY <3>1, <3>3, <3>4 DEF IdleInv
  <2>3. CASE ReadClock
    <3>1. /\ overtaken' = FALSE /\ seen' = time /\ now_jiffies' = time % LONG
          /\ UNCHANGED <<time, last_access_jiffies, accessed>>
      BY <2>3 DEF ReadClock, jiffies
    <3>2. ~(accessed' > seen')
      BY <3>1 DEF IdleInv
    <3>3. overtaken' \in BOOLEAN
      BY <3>1
    <3> QED
      BY <3>1, <3>2, <3>3 DEF IdleInv
  <2>4. CASE Decide
    BY <2>4 DEF Decide, IdleInv
  <2>5. CASE UNCHANGED ivars
    BY <2>5 DEF ivars, IdleInv
  <2> QED
    BY <2>1, <2>2, <2>3, <2>4, <2>5 DEF IdleNext
<1>3. IdleInit => IdleInv
  BY <1>1
<1> QED
  BY <1>2, <1>3, PTL DEF IdleSpec

\* What a test says, by the age of the last access.
LEMMA TestSays ==
    ASSUME IdleInv, Decide, accessed >= 0
    PROVE  LET age == (seen - accessed) * MSECS
           IN  /\ ~overtaken /\ age < UINT => (idle' = "idle" <=> age > TIMEOUT)
               /\ overtaken /\ age + UINT > TIMEOUT => idle' = "idle"
<1> DEFINE age == (seen - accessed) * MSECS
<1>1. /\ UINT \in Int /\ UINT > 0 /\ MSECS \in Int /\ MSECS > 0 /\ TIMEOUT \in Int /\ TIMEOUT >= 0
      /\ seen \in Int /\ accessed \in Int
  BY ClockAssumption DEF IdleInv
<1>2. Interval = age % UINT /\ (overtaken <=> accessed > seen)
  BY <1>1, IntervalIsAge DEF Decide, IdleInv
<1>3. idle' = "idle" <=> Interval > TIMEOUT
  BY DEF Decide
<1>4. age \in Int /\ age = UINT * 0 + age /\ age = UINT * (-1) + (age + UINT)
  BY <1>1
<1>5. ASSUME ~overtaken, age < UINT PROVE Interval = age
  <2>1. age >= 0
    BY <1>1, <1>2, <1>5
  <2>2. age \in 0..(UINT - 1)
    BY <1>1, <1>4, <1>5, <2>1
  <2> QED
    BY <1>1, <1>2, <1>4, <2>2, ModIsRest
<1>6. ASSUME overtaken, age + UINT > TIMEOUT PROVE Interval = age + UINT
  <2>1. age < 0
    BY <1>1, <1>2, <1>6
  <2>2. age + UINT \in 0..(UINT - 1)
    BY <1>1, <1>4, <1>6, <2>1
  <2> QED
    BY <1>1, <1>2, <1>4, <2>2, ModIsRest
<1> QED
  BY <1>3, <1>5, <1>6

(* Whatever the width of the clock and of the stored time, an idle test    *)
(* says "idle" exactly after the timeout, and is wrong only when an access *)
(* overtakes it: then it always passes a device in use for an idle one.    *)
THEOREM IdleTestTellsIdle == IdleSpec => IdleIsIdle
<1>1. IdleInv /\ [IdleNext]_ivars
        => [Decide /\ accessed >= 0 =>
              LET age == (seen - accessed) * MSECS
              IN  /\ ~overtaken /\ age < UINT => (idle' = "idle" <=> age > TIMEOUT)
                  /\ overtaken /\ age + UINT > TIMEOUT => idle' = "idle"]_ivars
  BY TestSays
<1> QED
  BY IdleInvariant, <1>1, PTL DEF IdleSpec, IdleIsIdle
=============================================================================
