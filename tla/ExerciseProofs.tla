--------------------------- MODULE ExerciseProofs ---------------------------
(***************************************************************************)
(* Proofs about the exercise programs: the producer and the consumer, for  *)
(* rings and item counts of any size; the philosophers, for tables of any  *)
(* size; and the sorting functions, for arrays of any length.              *)
(***************************************************************************)
EXTENDS ProducerConsumer, Philosophers, Sorting, FiniteSetTheorems, TLAPS

-----------------------------------------------------------------------------
(* The producer and the consumer. *)

Slots == 0..(MAX - 1)
Stored == item - taken

\* The slot d places behind the one the consumer empties next.
Slot(d) == IF out + d < MAX THEN out + d ELSE out + d - MAX

One(condition) == IF condition THEN 1 ELSE 0

Places == /\ ppc \in {"empty", "mutex", "store", "post", "leave", "end"}
          /\ cpc \in {"full", "mutex", "take", "post", "leave", "end"}
          /\ in \in Slots /\ out \in Slots /\ item \in Int /\ taken \in Int
          /\ Full \in Nat /\ Empty \in Nat

\* Each semaphore counts what the threads have not claimed.
Counted == /\ Empty = MAX - Stored - One(ppc \in {"mutex", "store"}) - One(cpc = "post")
           /\ Full = Stored - One(ppc = "post") - One(cpc \in {"mutex", "take"})

\* The stored items lie one behind the other, and the other slots are empty.
RingInv == /\ 0 <= Stored /\ Stored <= MAX
           /\ in = Slot(Stored)
           /\ Buf \in [Slots -> Int]
           /\ \A d \in Slots : Buf[Slot(d)] = IF d < Stored THEN taken + d ELSE -1

PInv == Places /\ Counted /\ RingInv

-----------------------------------------------------------------------------
(* The ring index wraps around at MAX (pc.c:28, :50).                      *)
LEMMA NextSlotWraps ==
    ASSUME NEW s \in Slots
    PROVE  NextSlot(s) = IF s + 1 < MAX THEN s + 1 ELSE 0
BY RingAssumption DEF NextSlot, Slots

LEMMA InitRing == PCInit => PInv
<1> SUFFICES ASSUME PCInit PROVE PInv
  OBVIOUS
<1>1. Stored = 0 /\ in = 0 /\ out = 0 /\ taken = 0 /\ 0 \in Slots
  BY RingAssumption DEF PCInit, Stored, Slots
<1>2. Places
  BY <1>1, RingAssumption DEF PCInit, Places
<1>3. Counted
  <2>1. /\ ppc \notin {"mutex", "store"} /\ ppc # "post"
        /\ cpc \notin {"mutex", "take"} /\ cpc # "post"
    BY DEF PCInit
  <2>2. Full = 0 /\ Empty = MAX /\ MAX \in Int
    BY RingAssumption DEF PCInit
  <2>3. /\ One(ppc \in {"mutex", "store"}) = 0 /\ One(ppc = "post") = 0
        /\ One(cpc \in {"mutex", "take"}) = 0 /\ One(cpc = "post") = 0
    BY <2>1 DEF One
  <2> QED
    BY <1>1, <2>2, <2>3 DEF Counted
<1>4. RingInv
  <2>1. Slot(0) = 0 /\ \A d \in Slots : Slot(d) \in Slots
    BY <1>1, RingAssumption DEF Slot, Slots
  <2>2. \A d \in Slots : Buf[Slot(d)] = -1 /\ ~(d < 0)
    BY <2>1 DEF PCInit, Slots
  <2> QED
    BY <1>1, <2>1, <2>2, RingAssumption DEF PCInit, RingInv, Slots
<1> QED
  BY <1>2, <1>3, <1>4 DEF PInv

\* Steps that leave the ring alone.
LEMMA QuietRing ==
    ASSUME PInv, UNCHANGED <<Buf, in, out, item, taken>>
    PROVE  RingInv'
BY DEF PInv, RingInv, Stored, Slot, Slots

LEMMA ProducerSteps ==
    ASSUME PInv, \/ WaitEmpty \/ ProducerEnters \/ PostFull \/ ProducerLeaves \/ ProducerEnds
    PROVE  PInv'
<1>1. UNCHANGED <<Buf, in, out, item, taken, cpc>>
  BY DEF WaitEmpty, ProducerEnters, PostFull, ProducerLeaves, ProducerEnds, ring
<1>2. RingInv'
  BY <1>1, QuietRing
<1>3. Places' /\ Counted'
  <2> USE <1>1, RingAssumption DEF PInv, Places, Counted, Stored, One
  <2>1. CASE WaitEmpty
    BY <2>1 DEF WaitEmpty
  <2>2. CASE ProducerEnters
    BY <2>2 DEF ProducerEnters
  <2>3. CASE PostFull
    BY <2>3 DEF PostFull
  <2>4. CASE ProducerLeaves
    BY <2>4 DEF ProducerLeaves
  <2>5. CASE ProducerEnds
    BY <2>5 DEF ProducerEnds, ring
  <2> QED
    BY <2>1, <2>2, <2>3, <2>4, <2>5
<1> QED
  BY <1>2, <1>3 DEF PInv

LEMMA ConsumerSteps ==
    ASSUME PInv, \/ WaitFull \/ ConsumerEnters \/ PostEmpty \/ ConsumerLeaves \/ ConsumerEnds
    PROVE  PInv'
<1>1. UNCHANGED <<Buf, in, out, item, taken, ppc>>
  BY DEF WaitFull, ConsumerEnters, PostEmpty, ConsumerLeaves, ConsumerEnds, ring
<1>2. RingInv'
  BY <1>1, QuietRing
<1>3. Places' /\ Counted'
  <2> USE <1>1, RingAssumption DEF PInv, Places, Counted, Stored, One
  <2>1. CASE WaitFull
    BY <2>1 DEF WaitFull, AnyFull
  <2>2. CASE ConsumerEnters
    BY <2>2 DEF ConsumerEnters
  <2>3. CASE PostEmpty
    BY <2>3 DEF PostEmpty, FreeSlot
  <2>4. CASE ConsumerLeaves
    BY <2>4 DEF ConsumerLeaves
  <2>5. CASE ConsumerEnds
    BY <2>5 DEF ConsumerEnds, ring
  <2> QED
    BY <2>1, <2>2, <2>3, <2>4, <2>5
<1> QED
  BY <1>2, <1>3 DEF PInv

\* Between WaitEmpty and Store a slot is free, and it is the one at in.
LEMMA StoreFits == PInv /\ ppc = "store" => Stored < MAX /\ Buf[in] = -1
<1> SUFFICES ASSUME PInv, ppc = "store" PROVE Stored < MAX /\ Buf[in] = -1
  OBVIOUS
<1>1. Stored < MAX
  BY RingAssumption DEF PInv, Places, Counted, Stored, One
<1>2. Stored \in Slots
  BY <1>1, RingAssumption DEF PInv, Places, RingInv, Stored, Slots
<1>3. Buf[Slot(Stored)] = -1
  BY <1>2 DEF PInv, RingInv, Slots
<1> QED
  BY <1>1, <1>3 DEF PInv, RingInv

\* Between WaitFull and TakeItem an item is stored, and it is the one at out.
LEMMA TakeFinds == PInv /\ cpc = "take" => Stored > 0 /\ Buf[out] = taken
<1> SUFFICES ASSUME PInv, cpc = "take" PROVE Stored > 0 /\ Buf[out] = taken
  OBVIOUS
<1>1. Stored > 0
  BY RingAssumption DEF PInv, Places, Counted, Stored, One
<1>2. 0 \in Slots /\ Slot(0) = out
  BY RingAssumption DEF PInv, Places, Slots, Slot
<1>3. Buf[Slot(0)] = taken + 0
  BY <1>1, <1>2 DEF PInv, RingInv
<1> QED
  BY <1>1, <1>2, <1>3 DEF PInv, Places

LEMMA StoreKeeps == PInv /\ Store => PInv'
<1> SUFFICES ASSUME PInv, Store PROVE PInv'
  OBVIOUS
<1>1. /\ ppc = "store" /\ ppc' = "post" /\ item' = item + 1 /\ in' = NextSlot(in)
      /\ Buf' = [Buf EXCEPT ![in] = item]
      /\ UNCHANGED <<Full, Empty, Mutex, cpc, out, taken>>
  BY DEF Store
<1>2. /\ item \in Int /\ taken \in Int /\ in \in Slots /\ out \in Slots
      /\ 0 <= Stored /\ Stored < MAX /\ in = Slot(Stored) /\ Stored \in Int
      /\ Buf \in [Slots -> Int]
  BY <1>1, StoreFits DEF PInv, Places, RingInv, Stored
<1>3. Stored' = Stored + 1
  BY <1>1, <1>2 DEF Stored
<1>4. in' = Slot(Stored') /\ in' \in Slots
  BY <1>1, <1>2, <1>3, NextSlotWraps, RingAssumption DEF Slot, Slots
<1>5. ASSUME NEW d \in Slots
      PROVE  Buf'[Slot(d)] = IF d < Stored' THEN taken + d ELSE -1
  <2>1. Slot(d) \in Slots
    BY <1>2, RingAssumption DEF Slot, Slots
  <2>2. CASE d = Stored
    BY <2>1, <2>2, <1>1, <1>2, <1>3 DEF Stored
  <2>3. CASE d # Stored
    <3>1. Slot(d) # in
      BY <2>3, <1>2, RingAssumption DEF Slot, Slots
    <3>2. Buf'[Slot(d)] = Buf[Slot(d)]
      BY <3>1, <2>1, <1>1, <1>2
    <3>3. d < Stored' <=> d < Stored
      BY <2>3, <1>2, <1>3 DEF Slots
    <3> QED
      BY <3>2, <3>3 DEF PInv, RingInv
  <2> QED
    BY <2>2, <2>3
<1>6. RingInv'
  <2>1. Buf' \in [Slots -> Int]
    BY <1>1, <1>2
  <2>2. \A d \in Slots : Slot(d)' = Slot(d)
    BY <1>1 DEF Slot
  <2>3. 0 <= Stored' /\ Stored' <= MAX
    BY <1>2, <1>3, RingAssumption
  <2>4. in' = Slot(Stored)'
    BY <1>4, <1>1 DEF Slot
  <2> QED
    BY <2>1, <2>2, <2>3, <2>4, <1>5, <1>1 DEF RingInv, Slots
<1>7. Places'
  BY <1>1, <1>2, <1>4 DEF PInv, Places, Slots
<1>8. Counted'
  BY <1>1, <1>2, <1>3, RingAssumption DEF PInv, Places, Counted, One
<1> QED
  BY <1>6, <1>7, <1>8 DEF PInv

LEMMA TakeKeeps == PInv /\ TakeItem => PInv'
<1> SUFFICES ASSUME PInv, TakeItem PROVE PInv'
  OBVIOUS
<1>1. /\ cpc = "take" /\ cpc' = "post" /\ taken' = taken + 1 /\ out' = NextSlot(out)
      /\ Buf' = [Buf EXCEPT ![out] = -1]
      /\ UNCHANGED <<Full, Empty, Mutex, ppc, in, item>>
  BY DEF TakeItem
<1>2. /\ item \in Int /\ taken \in Int /\ in \in Slots /\ out \in Slots
      /\ 0 < Stored /\ Stored <= MAX /\ in = Slot(Stored) /\ Stored \in Int
      /\ Buf \in [Slots -> Int]
  BY <1>1, TakeFinds DEF PInv, Places, RingInv, Stored
<1>3. Stored' = Stored - 1
  BY <1>1, <1>2 DEF Stored
<1>4. out' = (IF out + 1 < MAX THEN out + 1 ELSE 0) /\ out' \in Slots
  BY <1>1, <1>2, NextSlotWraps, RingAssumption DEF Slots
<1>5. ASSUME NEW d \in Slots
      PROVE  Slot(d)' = IF d + 1 < MAX THEN Slot(d + 1) ELSE out
  BY <1>2, <1>4, RingAssumption DEF Slot, Slots
<1>6. ASSUME NEW d \in Slots
      PROVE  Buf'[Slot(d)'] = IF d < Stored' THEN taken' + d ELSE -1
  <2>1. CASE d + 1 < MAX
    <3>0. d + 1 \in Slots
      BY <2>1, RingAssumption DEF Slots
    <3>1. Slot(d)' = Slot(d + 1)
      BY <2>1, <1>5
    <3>2. Slot(d + 1) \in Slots /\ Slot(d + 1) # out
      BY <2>1, <1>2, RingAssumption DEF Slot, Slots
    <3>3. Buf[Slot(d + 1)] = IF d + 1 < Stored THEN taken + (d + 1) ELSE -1
      BY <3>0 DEF PInv, RingInv
    <3>4. Buf'[Slot(d)'] = Buf[Slot(d + 1)]
      BY <3>1, <3>2, <1>1, <1>2
    <3> QED
      BY <3>0, <3>3, <3>4, <1>1, <1>2, <1>3 DEF Slots
  <2>2. CASE ~(d + 1 < MAX)
    <3>1. Slot(d)' = out
      BY <2>2, <1>5
    <3>2. ~(d < Stored')
      BY <2>2, <1>2, <1>3, RingAssumption DEF Slots
    <3> QED
      BY <3>1, <3>2, <1>1, <1>2
  <2> QED
    BY <2>1, <2>2
<1>7. RingInv'
  <2>1. Buf' \in [Slots -> Int]
    BY <1>1, <1>2
  <2>2. 0 <= Stored' /\ Stored' <= MAX
    BY <1>2, <1>3, RingAssumption
  <2>3. in' = Slot(Stored)'
    BY <1>1, <1>2, <1>3, <1>4, RingAssumption DEF Slot, Slots
  <2> QED
    BY <2>1, <2>2, <2>3, <1>6 DEF RingInv, Slots
<1>8. Places'
  BY <1>1, <1>2, <1>4 DEF PInv, Places, Slots
<1>9. Counted'
  BY <1>1, <1>2, <1>3, RingAssumption DEF PInv, Places, Counted, One
<1> QED
  BY <1>7, <1>8, <1>9 DEF PInv

(* Whatever the size of the ring and however the threads interleave, no    *)
(* item is overwritten and every item is consumed once and in order.       *)
THEOREM RingIsRespected == PCSpec => []SlotsRespected
<1>1. PInv /\ [PCNext]_pcvars => PInv'
  <2> SUFFICES ASSUME PInv, [PCNext]_pcvars PROVE PInv'
    OBVIOUS
  <2>1. CASE UNCHANGED pcvars
    BY <2>1 DEF pcvars, ring, PInv, Places, Counted, RingInv, Stored, Slot, One, Slots
  <2> QED
    BY <2>1, ProducerSteps, ConsumerSteps, StoreKeeps, TakeKeeps
       DEF PCNext, Producer, Consumer
<1>2. PInv => SlotsRespected
  BY StoreFits, TakeFinds DEF SlotsRespected
<1> QED
  BY InitRing, <1>1, <1>2, PTL DEF PCSpec

-----------------------------------------------------------------------------
(* The philosophers. *)

HasLeft(p)  == sophi[p] \in {"right", "unlock", "eat"}
HasRight(p) == sophi[p] \in {"unlock", "eat", "putright"}
Holds(p, c) == (HasLeft(p) /\ c = p) \/ (HasRight(p) /\ c = Right(p))

\* A chopstick in a hand is not on the table and in no other hand.
InHands ==
    \A p \in Philos, c \in Philos : Holds(p, c) =>
        chick[c] = 0 /\ \A q \in Philos : Holds(q, c) => q = p

PhInv == /\ sophi \in [Philos -> {"think", "mutex", "left", "right", "unlock", "eat",
                                  "putright", "end"}]
         /\ chick \in [Philos -> {0, 1}]
         /\ InHands

-----------------------------------------------------------------------------
(* The neighbours of a table of at least two differ, and every chopstick   *)
(* has one philosopher on each side.                                       *)
LEMMA RightIsAnother ==
    /\ \A p \in Philos : Right(p) \in Philos /\ Right(p) # p
    /\ \A p, q \in Philos : Right(p) = Right(q) => p = q
<1>1. \A p \in Philos : Right(p) = IF p + 1 = NUM THEN 0 ELSE p + 1
  BY TableAssumption DEF Philos, Right
<1> QED
  BY <1>1, TableAssumption DEF Philos

\* What a philosopher holds, by where it is.
LEMMA HandsOf ==
    ASSUME NEW p \in Philos
    PROVE  /\ HasLeft(p) => Holds(p, p)
           /\ HasRight(p) => Holds(p, Right(p))
BY Zenon DEF Holds

LEMMA PhInitInv == PhInit => PhInv
BY DEF PhInit, PhInv, InHands, Holds, HasLeft, HasRight

\* A step that moves p only, and changes neither hands nor chopsticks.
LEMMA EmptyHanded ==
    ASSUME PhInv, NEW p \in Philos,
           Hungry(p) \/ TakeMutex(p) \/ DropMutex(p) \/ Leaves(p)
    PROVE  PhInv'
<1>1. /\ chick' = chick
      /\ sophi' \in [Philos -> {"think", "mutex", "left", "right", "unlock", "eat",
                                "putright", "end"}]
  BY DEF PhInv, Hungry, TakeMutex, DropMutex, Leaves, Moves
<1>2. \A q \in Philos : HasLeft(q)' = HasLeft(q) /\ HasRight(q)' = HasRight(q)
  BY DEF PhInv, Hungry, TakeMutex, DropMutex, Leaves, Moves, HasLeft, HasRight
<1>3. \A q, c \in Philos : Holds(q, c)' <=> Holds(q, c)
  BY <1>2 DEF Holds
<1> QED
  BY <1>1, <1>3 DEF PhInv, InHands

\* Taking a chopstick that is on the table.
LEMMA Taken ==
    ASSUME PhInv, NEW p \in Philos, NEW c \in Philos, OnTable(c),
           chick' = [chick EXCEPT ![c] = 0],
           sophi' \in [Philos -> {"think", "mutex", "left", "right", "unlock", "eat",
                                  "putright", "end"}],
           \A q, d \in Philos : Holds(q, d)' <=> Holds(q, d) \/ (q = p /\ d = c)
    PROVE  PhInv'
<1>1. \A q \in Philos : ~Holds(q, c)
  BY DEF PhInv, InHands, OnTable
<1>2. chick' \in [Philos -> {0, 1}]
  BY DEF PhInv
<1>3. InHands'
  <2> SUFFICES ASSUME NEW q \in Philos, NEW d \in Philos, Holds(q, d)'
               PROVE  chick'[d] = 0 /\ \A r \in Philos : Holds(r, d)' => r = q
    BY DEF InHands
  <2>1. CASE d = c
    BY <2>1, <1>1 DEF PhInv
  <2>2. CASE d # c
    <3>1. Holds(q, d) /\ chick'[d] = chick[d]
      BY <2>2 DEF PhInv
    <3> QED
      BY <2>2, <3>1 DEF PhInv, InHands
  <2> QED
    BY <2>1, <2>2
<1> QED
  BY <1>2, <1>3 DEF PhInv

\* Putting down a chopstick that is in p's hand.
LEMMA PutDown ==
    ASSUME PhInv, NEW p \in Philos, NEW c \in Philos, Holds(p, c),
           chick' = [chick EXCEPT ![c] = 1],
           sophi' \in [Philos -> {"think", "mutex", "left", "right", "unlock", "eat",
                                  "putright", "end"}],
           \A q, d \in Philos : Holds(q, d)' <=> Holds(q, d) /\ ~(q = p /\ d = c)
    PROVE  PhInv'
<1>1. \A q \in Philos : ~Holds(q, c)'
  BY DEF PhInv, InHands
<1>2. chick' \in [Philos -> {0, 1}]
  BY DEF PhInv
<1>3. InHands'
  <2> SUFFICES ASSUME NEW q \in Philos, NEW d \in Philos, Holds(q, d)'
               PROVE  chick'[d] = 0 /\ \A r \in Philos : Holds(r, d)' => r = q
    BY DEF InHands
  <2>1. d # c /\ Holds(q, d) /\ chick'[d] = chick[d]
    BY <1>1 DEF PhInv
  <2> QED
    BY <2>1 DEF PhInv, InHands
<1> QED
  BY <1>2, <1>3 DEF PhInv

LEMMA StepKeeps == ASSUME PhInv, NEW p \in Philos, Philosopher(p) PROVE PhInv'
<1> USE RightIsAnother DEF PhInv
<1>1. CASE Hungry(p) \/ TakeMutex(p) \/ DropMutex(p) \/ Leaves(p)
  BY <1>1, EmptyHanded
<1>2. CASE TakeLeft(p)
  <2>1. ASSUME NEW q \in Philos, NEW d \in Philos
        PROVE  Holds(q, d)' <=> Holds(q, d) \/ (q = p /\ d = p)
    <3>1. HasLeft(q)' <=> HasLeft(q) \/ q = p
      BY <1>2 DEF TakeLeft, Moves, HasLeft
    <3>2. HasRight(q)' <=> HasRight(q)
      BY <1>2 DEF TakeLeft, Moves, HasRight
    <3> QED
      BY <3>1, <3>2, Zenon DEF Holds
  <2> QED
    BY <2>1, <1>2, Taken DEF TakeLeft, Moves
<1>3. CASE TakeRight(p)
  <2>1. \A q, d \in Philos : Holds(q, d)' <=> Holds(q, d) \/ (q = p /\ d = Right(p))
    BY <1>3 DEF TakeRight, Moves, Holds, HasLeft, HasRight
  <2> QED
    BY <2>1, <1>3, Taken DEF TakeRight, Moves
<1>4. CASE PutLeft(p)
  <2>1. \A q, d \in Philos : Holds(q, d)' <=> Holds(q, d) /\ ~(q = p /\ d = p)
    BY <1>4 DEF PutLeft, Moves, Holds, HasLeft, HasRight
  <2>2. Holds(p, p)
    <3>1. HasLeft(p)
      BY <1>4 DEF PutLeft, Moves, HasLeft
    <3> QED
      BY <3>1, HandsOf
  <2> QED
    BY <2>1, <2>2, <1>4, PutDown DEF PutLeft, Moves
<1>5. CASE PutRight(p)
  <2>1. \A q, d \in Philos : Holds(q, d)' <=> Holds(q, d) /\ ~(q = p /\ d = Right(p))
    BY <1>5 DEF PutRight, Moves, Holds, HasLeft, HasRight
  <2>2. Holds(p, Right(p))
    BY <1>5 DEF PutRight, Moves, Holds, HasLeft, HasRight
  <2> QED
    BY <2>1, <2>2, <1>5, PutDown DEF PutRight, SecondPut, Moves
<1> QED
  BY <1>1, <1>2, <1>3, <1>4, <1>5 DEF Philosopher

(* At a table of any size, two neighbours never eat at the same time.      *)
THEOREM NeighboursNeverEat == PhSpec => []NeighboursApart
<1>1. PhInv /\ [PhNext]_phvars => PhInv'
  <2>1. PhInv /\ UNCHANGED phvars => PhInv'
    BY DEF phvars, PhInv, InHands, Holds, HasLeft, HasRight
  <2> QED
    BY <2>1, StepKeeps DEF PhNext
<1>2. PhInv => NeighboursApart
  <2> SUFFICES ASSUME PhInv, NEW p \in Philos, sophi[p] = "eat", sophi[Right(p)] = "eat"
               PROVE  FALSE
    BY DEF NeighboursApart
  <2>1. Holds(p, Right(p))
    BY DEF Holds, HasRight
  <2>2. HasLeft(Right(p))
    BY DEF HasLeft
  <2>3. Holds(Right(p), Right(p))
    BY <2>2, HandsOf, RightIsAnother
  <2> QED
    BY <2>1, <2>3, RightIsAnother DEF PhInv, InHands
<1> QED
  BY PhInitInv, <1>1, <1>2, PTL DEF PhSpec

-----------------------------------------------------------------------------
(* Sorting. *)

Cells == 0..(length - 1)

\* f is g with its elements in another order.
Permuted(f, g, D) == \E p \in Bijection(D, D) : \A a \in D : f[a] = g[p[a]]

Shape == /\ length \in Nat \ {0}
         /\ arr \in [Cells -> Keys] /\ given \in [Cells -> Keys]
         /\ step \in {"loop", "shift", "call", "partition", "sorted"}
         /\ i \in Int /\ j \in Int /\ ranges \in Seq(Int \X Int)

Ascending(s) == \A a, b \in s : a < b => arr[a] <= arr[b]

\* Insertion: the elements in front of i are in order.
LoopInv == /\ 1 <= i /\ i <= length
           /\ Ascending(0..(i - 1))
           /\ Permuted(arr, given, Cells)

\* While the key has no place, j + 1 is a hole among the elements up to i.
Filled == [arr EXCEPT ![j + 1] = key]
ShiftInv == /\ 1 <= i /\ i < length /\ -1 <= j /\ j < i /\ key \in Keys
            /\ Ascending((0..i) \ {j + 1})
            /\ \A a \in (j + 2)..i : key < arr[a]
            /\ Permuted(Filled, given, Cells)

\* Quicksort: the waiting ranges lie in the array and share no element, and
\* two elements that are not in one of them are in order.
Within(r, a) == r[1] <= a /\ a <= r[2]
Together(a, b) == \E l \in 1..Len(ranges) : Within(ranges[l], a) /\ Within(ranges[l], b)
CallInv == /\ \A l \in 1..Len(ranges) : 0 <= ranges[l][1] /\ ranges[l][2] < length
           /\ \A l, m \in 1..Len(ranges), a \in Cells :
                 (Within(ranges[l], a) /\ Within(ranges[m], a)) => l = m
           /\ \A a, b \in Cells : a < b => (Together(a, b) \/ arr[a] <= arr[b])
           /\ Permuted(arr, given, Cells)

\* Up to i are the elements that are no larger than the pivot, and then, in
\* front of j, the larger ones.
PartitionInv == /\ ranges # <<>> /\ begin - 1 <= i /\ i < j /\ j <= end
                /\ begin < end /\ key \in Keys /\ arr[end] = key
                /\ \A a \in begin..i : arr[a] <= key
                /\ \A a \in (i + 1)..(j - 1) : arr[a] > key

SortInv == /\ Shape
           /\ (step = "loop" => LoopInv)
           /\ (step = "shift" => ShiftInv)
           /\ (step \in {"call", "partition"} => CallInv)
           /\ (step = "partition" => PartitionInv)
           /\ (step = "sorted" => Ascending(Cells) /\ Permuted(arr, given, Cells))

-----------------------------------------------------------------------------
(* What happens to an array whose elements change places.                  *)
LEMMA SameOrder == ASSUME NEW D, NEW f PROVE Permuted(f, f, D)
<1> DEFINE id == [a \in D |-> a]
<1>1. id \in Bijection(D, D)
  BY DEF Bijection, Injection, IsInjective, Surjection
<1> QED
  BY <1>1 DEF Permuted

LEMMA SwapPermutes ==
    ASSUME NEW D, NEW f, NEW g, NEW h, Permuted(f, g, D),
           NEW x \in D, NEW y \in D,
           \A a \in D : h[a] = IF a = x THEN f[y] ELSE IF a = y THEN f[x] ELSE f[a]
    PROVE  Permuted(h, g, D)
<1>1. PICK p \in Bijection(D, D) : \A a \in D : f[a] = g[p[a]]
  BY DEF Permuted
<1> DEFINE w(a) == IF a = x THEN y ELSE IF a = y THEN x ELSE a
           q == [a \in D |-> p[w(a)]]
<1>2. /\ p \in [D -> D] /\ \A a, b \in D : p[a] = p[b] => a = b
      /\ \A c \in D : \E a \in D : p[a] = c
  BY DEF Bijection, Injection, IsInjective, Surjection
<1>3. /\ \A a \in D : w(a) \in D /\ w(w(a)) = a
      /\ \A a, b \in D : w(a) = w(b) => a = b
  OBVIOUS
<1>4. q \in Bijection(D, D)
  <2>1. q \in [D -> D]
    BY <1>2, <1>3
  <2>2. \A a, b \in D : q[a] = q[b] => a = b
    BY <1>2, <1>3
  <2>3. ASSUME NEW c \in D PROVE \E a \in D : q[a] = c
    <3>1. PICK a \in D : p[a] = c
      BY <1>2
    <3>2. w(a) \in D /\ q[w(a)] = c
      BY <3>1, <1>3
    <3> QED
      BY <3>2
  <2> QED
    BY <2>1, <2>2, <2>3 DEF Bijection, Injection, IsInjective, Surjection
<1>5. \A a \in D : h[a] = f[w(a)] /\ f[w(a)] = g[q[a]]
  BY <1>1, <1>3
<1> QED
  BY <1>4, <1>5 DEF Permuted

\* Every value occurs as often as before.
LEMMA PermutedCounts ==
    ASSUME NEW D, IsFiniteSet(D), NEW f, NEW g, Permuted(f, g, D), NEW v
    PROVE  Cardinality({a \in D : f[a] = v}) = Cardinality({a \in D : g[a] = v})
<1> DEFINE F == {a \in D : f[a] = v}
           G == {a \in D : g[a] = v}
<1>1. PICK p \in Bijection(D, D) : \A a \in D : f[a] = g[p[a]]
  BY DEF Permuted
<1>2. /\ p \in [D -> D] /\ \A a, b \in D : p[a] = p[b] => a = b
      /\ \A c \in D : \E a \in D : p[a] = c
  BY DEF Bijection, Injection, IsInjective, Surjection
<1> DEFINE q == [a \in F |-> p[a]]
<1>3. q \in [F -> G]
  BY <1>1, <1>2
<1>4. \A a, b \in F : q[a] = q[b] => a = b
  BY <1>2
<1>5. ASSUME NEW c \in G PROVE \E a \in F : q[a] = c
  <2>1. PICK a \in D : p[a] = c
    BY <1>2
  <2>2. a \in F
    BY <2>1, <1>1
  <2> QED
    BY <2>1, <2>2
<1>6. ExistsBijection(F, G)
  <2> HIDE DEF F, G, q
  <2>1. q \in Bijection(F, G)
    BY <1>3, <1>4, <1>5 DEF Bijection, Injection, IsInjective, Surjection
  <2> QED
    BY <2>1 DEF ExistsBijection
<1>7. IsFiniteSet(F)
  BY FS_Subset
<1> QED
  BY <1>6, <1>7, FS_Bijection

-----------------------------------------------------------------------------
(* Insertion sort. *)
LEMMA InitSort == SortInit => SortInv
<1> SUFFICES ASSUME SortInit PROVE SortInv
  OBVIOUS
<1>1. PICK n \in 1..MaxItems : arr \in [0..(n - 1) -> Keys]
  BY DEF SortInit
<1>2. n \in Nat \ {0} /\ DOMAIN arr = 0..(n - 1)
  BY <1>1, KeyAssumption
<1>3. Cardinality(0..(n - 1)) = n
  BY <1>2, FS_Interval
<1>4. length = n /\ DOMAIN arr = Cells
  BY <1>2, <1>3 DEF length, Cells
<1>5. ranges \in Seq(Int \X Int)
  <2>1. ranges = <<>> \/ ranges = <<<<0, length - 1>>>>
    BY DEF SortInit
  <2>2. <<0, length - 1>> \in Int \X Int
    BY <1>2, <1>4
  <2>3. \A r \in Int \X Int : <<r>> \in Seq(Int \X Int)
    OBVIOUS
  <2>4. <<>> \in Seq(Int \X Int)
    OBVIOUS
  <2>5. CASE ranges = <<>>
    BY <2>4, <2>5
  <2>6. CASE ranges = <<<<0, length - 1>>>>
    BY <2>2, <2>3, <2>6, Zenon
  <2> QED
    BY <2>1, <2>5, <2>6
<1>6. Shape
  BY <1>1, <1>2, <1>4, <1>5 DEF SortInit, Shape, Cells
<1>7. Permuted(arr, given, Cells)
  BY SameOrder DEF SortInit
<1>8. CASE step = "loop"
  <2>1. LoopInv
    BY <1>2, <1>4, <1>7 DEF SortInit, LoopInv, Ascending
  <2> QED
    BY <2>1, <1>6, <1>8 DEF SortInv
<1>9. CASE step = "call"
  <2>1. ranges = <<<<0, length - 1>>>>
    BY <1>9 DEF SortInit
  <2>2. Len(ranges) = 1 /\ ranges[1] = <<0, length - 1>>
    BY <2>1
  <2>3. \A a \in Cells : Within(ranges[1], a)
    BY <2>2, <1>2, <1>4 DEF Within, Cells
  <2>4. \A a, b \in Cells : Together(a, b)
    BY <2>2, <2>3 DEF Together
  <2>5. CallInv
    BY <2>2, <2>4, <1>2, <1>4, <1>7 DEF CallInv
  <2> QED
    BY <2>5, <1>6, <1>9 DEF SortInv
<1> QED
  BY <1>8, <1>9 DEF SortInit

\* No step changes the length or the set of keys.
LEMMA ShapeKept ==
    ASSUME Shape, DOMAIN arr' = DOMAIN arr
    PROVE  length' = length /\ Cells' = Cells
BY DEF length, Cells

LEMMA NextKeyKeeps == ASSUME SortInv, NextKey PROVE SortInv'
<1>1. /\ Shape /\ LoopInv /\ i < length /\ i' = i /\ j' = i - 1 /\ key' = arr[i]
      /\ arr' = arr /\ given' = given /\ ranges' = ranges /\ step' = "shift"
  BY DEF SortInv, NextKey, still
<1>2. i \in Cells /\ i \in Int /\ arr \in [Cells -> Keys]
  BY <1>1 DEF Shape, LoopInv, Cells
<1>3. length' = length /\ Cells' = Cells
  BY <1>1, ShapeKept
<1>4. Shape'
  BY <1>1, <1>2, <1>3 DEF Shape
<1>5. Filled' = arr
  BY <1>1, <1>2 DEF Filled
<1>6. ShiftInv'
  <2>1. 1 <= i' /\ i' < length' /\ -1 <= j' /\ j' < i' /\ key' \in Keys
    BY <1>1, <1>2, <1>3 DEF LoopInv
  <2>2. Ascending((0..i) \ {j + 1})'
    BY <1>1, <1>2 DEF LoopInv, Ascending
  <2>3. \A a \in (j' + 2)..i' : key' < arr'[a]
    BY <1>1, <1>2
  <2>4. Permuted(Filled', given', Cells')
    BY <1>1, <1>3, <1>5 DEF LoopInv
  <2> QED
    BY <2>1, <2>2, <2>3, <2>4 DEF ShiftInv, Permuted
<1> QED
  BY <1>1, <1>4, <1>6 DEF SortInv

LEMMA ShiftKeeps == ASSUME SortInv, Shift PROVE SortInv'
<1>1. /\ Shape /\ ShiftInv /\ Above /\ i' = i /\ j' = j - 1 /\ key' = key
      /\ arr' = [arr EXCEPT ![j + 1] = arr[j]]
      /\ given' = given /\ ranges' = ranges /\ step' = "shift"
  BY DEF SortInv, Shift, still
<1>2. /\ i \in Int /\ j \in Int /\ 0 <= j /\ j < i /\ 1 <= i /\ i < length /\ length \in Int
      /\ j \in Cells /\ j + 1 \in Cells /\ j + 1 # j
      /\ arr \in [Cells -> Keys] /\ key \in Int /\ key \in Keys /\ arr[j] > key
  BY <1>1, KeyAssumption DEF Shape, ShiftInv, Cells, Above
<1>3. /\ arr' \in [Cells -> Keys]
      /\ \A a \in Cells : arr'[a] = IF a = j + 1 THEN arr[j] ELSE arr[a]
  BY <1>1, <1>2
<1>4. length' = length /\ Cells' = Cells
  BY <1>1, <1>2, <1>3, ShapeKept
<1>5. Shape'
  BY <1>1, <1>2, <1>3, <1>4 DEF Shape
<1>6. Ascending((0..i) \ {j + 1})'
  <2> SUFFICES ASSUME NEW a \in (0..i) \ {j}, NEW b \in (0..i) \ {j}, a < b
               PROVE  arr'[a] <= arr'[b]
    BY <1>1, <1>2 DEF Ascending
  <2>0. \A c \in Cells : arr[c] \in Int
    BY <1>2, KeyAssumption
  <2>1. /\ a \in Cells /\ b \in Cells /\ a \in Int /\ b \in Int
        /\ j \in (0..i) \ {j + 1} /\ \A c \in Cells : arr[c] \in Int
    BY <2>0, <1>2 DEF Cells
  <2>2. \A c, d \in (0..i) \ {j + 1} : c < d => arr[c] <= arr[d]
    BY <1>1 DEF ShiftInv, Ascending
  <2>3. CASE a # j + 1 /\ b # j + 1
    BY <2>1, <2>2, <2>3, <1>3
  <2>4. CASE a = j + 1
    BY <2>1, <2>2, <2>4, <1>2, <1>3
  <2>5. CASE b = j + 1
    BY <2>1, <2>2, <2>5, <1>2, <1>3
  <2> QED
    BY <2>3, <2>4, <2>5
<1>7. \A a \in (j' + 2)..i' : key' < arr'[a]
  <2> SUFFICES ASSUME NEW a \in (j + 1)..i PROVE key < arr'[a]
    BY <1>1, <1>2
  <2>1. a \in Cells /\ a \in Int
    BY <1>2 DEF Cells
  <2>2. CASE a = j + 1
    BY <2>1, <2>2, <1>2, <1>3, KeyAssumption
  <2>3. CASE a # j + 1
    <3>1. a \in (j + 2)..i
      BY <2>1, <2>3, <1>2
    <3>2. key < arr[a]
      BY <3>1, <1>1 DEF ShiftInv
    <3> QED
      BY <3>2, <2>1, <2>3, <1>3
  <2> QED
    BY <2>2, <2>3
<1>8. Permuted(Filled', given, Cells)
  <2>1. Permuted(Filled, given, Cells)
    BY <1>1 DEF ShiftInv
  <2>2. \A a \in Cells : Filled[a] = IF a = j + 1 THEN key ELSE arr[a]
    BY <1>2 DEF Filled
  <2>3. Filled' = [arr' EXCEPT ![j] = key]
    BY <1>1, <1>2 DEF Filled
  <2>4. \A a \in Cells : Filled'[a] = IF a = j THEN key ELSE arr'[a]
    BY <2>3, <1>3
  <2>5. \A a \in Cells : Filled'[a] = IF a = j THEN Filled[j + 1]
                                      ELSE IF a = j + 1 THEN Filled[j] ELSE Filled[a]
    BY <2>2, <2>4, <1>2, <1>3
  <2> QED
    BY <2>1, <2>5, <1>2, SwapPermutes
<1>9. ShiftInv'
  <2>1. 1 <= i' /\ i' < length' /\ -1 <= j' /\ j' < i' /\ key' \in Keys
    BY <1>1, <1>2, <1>4
  <2>2. Permuted(Filled', given', Cells')
    BY <1>1, <1>4, <1>8
  <2> QED
    BY <2>1, <2>2, <1>6, <1>7 DEF ShiftInv, Permuted
<1> QED
  BY <1>1, <1>5, <1>9 DEF SortInv

LEMMA PutKeyKeeps == ASSUME SortInv, PutKey PROVE SortInv'
<1>1. /\ Shape /\ ShiftInv /\ ~Above /\ i' = i + 1
      /\ arr' = Filled /\ given' = given /\ ranges' = ranges /\ j' = j /\ step' = "loop"
  BY DEF SortInv, PutKey, still, Filled
<1>2. /\ i \in Int /\ j \in Int /\ -1 <= j /\ j < i /\ 1 <= i /\ i < length /\ length \in Int
      /\ j + 1 \in Cells
      /\ arr \in [Cells -> Keys] /\ key \in Int /\ key \in Keys
  BY <1>1, KeyAssumption DEF Shape, ShiftInv, Cells
<1>3. /\ arr' \in [Cells -> Keys]
      /\ \A a \in Cells : arr'[a] = IF a = j + 1 THEN key ELSE arr[a]
  BY <1>1, <1>2 DEF Filled
<1>4. length' = length /\ Cells' = Cells
  BY <1>1, <1>2, <1>3, ShapeKept
<1>5. Shape'
  BY <1>1, <1>2, <1>3, <1>4 DEF Shape
<1>6. Ascending(0..(i - 1))'
  <2> SUFFICES ASSUME NEW a \in 0..i, NEW b \in 0..i, a < b
               PROVE  arr'[a] <= arr'[b]
    BY <1>1, <1>2 DEF Ascending
  <2>0. \A c \in Cells : arr[c] \in Int
    BY <1>2, KeyAssumption
  <2>1. /\ a \in Cells /\ b \in Cells /\ a \in Int /\ b \in Int
        /\ \A c \in Cells : arr[c] \in Int
    BY <2>0, <1>2 DEF Cells
  <2>2. \A c, d \in (0..i) \ {j + 1} : c < d => arr[c] <= arr[d]
    BY <1>1 DEF ShiftInv, Ascending
  <2>3. CASE a # j + 1 /\ b # j + 1
    BY <2>1, <2>2, <2>3, <1>3
  <2>4. CASE a = j + 1
    <3>1. b \in (j + 2)..i /\ b # j + 1
      BY <2>1, <2>4, <1>2
    <3>2. key < arr[b]
      BY <3>1, <1>1 DEF ShiftInv
    <3> QED
      BY <3>1, <3>2, <2>1, <2>4, <1>2, <1>3
  <2>5. CASE b = j + 1
    <3>1. 0 <= j /\ a <= j /\ a # j + 1
      BY <2>1, <2>5, <1>2
    <3>2. arr[j] <= key
      <4>1. j \in Cells
        BY <3>1, <1>2 DEF Cells
      <4> QED
        BY <4>1, <3>1, <2>1, <1>1, <1>2 DEF Above
    <3>3. arr[a] <= arr[j] /\ arr[j] \in Int
      BY <3>1, <2>1, <2>2, <1>2 DEF Cells
    <3> QED
      BY <3>1, <3>2, <3>3, <2>1, <2>5, <1>2, <1>3
  <2> QED
    BY <2>3, <2>4, <2>5
<1>7. LoopInv'
  <2>1. 1 <= i' /\ i' <= length'
    BY <1>1, <1>2, <1>4
  <2>2. Permuted(arr', given', Cells')
    BY <1>1, <1>4 DEF ShiftInv
  <2> QED
    BY <2>1, <2>2, <1>6 DEF LoopInv, Permuted
<1> QED
  BY <1>1, <1>5, <1>7 DEF SortInv

LEMMA InsertedKeeps == ASSUME SortInv, Inserted PROVE SortInv'
<1>1. /\ Shape /\ LoopInv /\ i >= length /\ step' = "sorted"
      /\ UNCHANGED <<arr, given, algorithm, i, j, key, ranges>>
  BY DEF SortInv, Inserted, still
<1>2. length' = length /\ Cells' = Cells
  BY <1>1, ShapeKept
<1>3. Shape'
  BY <1>1, <1>2 DEF Shape
<1>4. Cells = 0..(i - 1)
  BY <1>1 DEF Shape, LoopInv, Cells
<1>5. Ascending(Cells)'
  BY <1>1, <1>2, <1>4 DEF LoopInv, Ascending
<1>6. Permuted(arr', given', Cells')
  BY <1>1, <1>2 DEF LoopInv
<1> QED
  BY <1>1, <1>3, <1>5, <1>6 DEF SortInv, Permuted

-----------------------------------------------------------------------------
(* Quicksort. *)

\* What the ranges say about the one that is being sorted, and the rest.
LEMMA RangesTyped ==
    ASSUME Shape
    PROVE  /\ Len(ranges) \in Nat
           /\ \A l \in 1..Len(ranges) : ranges[l][1] \in Int /\ ranges[l][2] \in Int
           /\ ranges # <<>> => /\ 1 \in 1..Len(ranges) /\ begin \in Int /\ end \in Int
                               /\ Tail(ranges) \in Seq(Int \X Int)
                               /\ Len(Tail(ranges)) = Len(ranges) - 1
                               /\ \A l \in 1..(Len(ranges) - 1) : Tail(ranges)[l] = ranges[l + 1]
<1>1. ranges \in Seq(Int \X Int) /\ Len(ranges) \in Nat
  BY DEF Shape
<1>2. ASSUME NEW l \in 1..Len(ranges)
      PROVE  ranges[l][1] \in Int /\ ranges[l][2] \in Int
  <2>1. ranges[l] \in Int \X Int
    BY <1>1
  <2> QED
    BY <2>1
<1>3. ASSUME ranges # <<>>
      PROVE  /\ 1 \in 1..Len(ranges)
             /\ Tail(ranges) \in Seq(Int \X Int)
             /\ Len(Tail(ranges)) = Len(ranges) - 1
             /\ \A l \in 1..(Len(ranges) - 1) : Tail(ranges)[l] = ranges[l + 1]
  BY <1>1, <1>3
<1> QED
  BY <1>1, <1>2, <1>3 DEF begin, end

LEMMA PartitionStarts == ASSUME SortInv, Partition PROVE SortInv'
<1>1. /\ Shape /\ CallInv /\ ranges # <<>> /\ begin < end
      /\ step' = "partition" /\ key' = arr[end] /\ i' = begin - 1 /\ j' = begin
      /\ arr' = arr /\ given' = given /\ ranges' = ranges
  BY DEF SortInv, Partition, still
<1>2. begin \in Int /\ end \in Int /\ 1 \in 1..Len(ranges)
  BY <1>1, RangesTyped
<1>3. length' = length /\ Cells' = Cells /\ begin' = begin /\ end' = end
  BY <1>1, ShapeKept DEF begin, end
<1>4. Shape'
  BY <1>1, <1>2, <1>3 DEF Shape
<1>5. CallInv'
  BY <1>1, <1>3 DEF CallInv, Permuted, Together
<1>6. end \in Cells /\ arr \in [Cells -> Keys]
  <2>1. 0 <= begin /\ end < length /\ length \in Int
    BY <1>1, <1>2 DEF CallInv, begin, end, Shape
  <2> QED
    BY <2>1, <1>1, <1>2 DEF Cells, Shape
<1>7. PartitionInv'
  BY <1>1, <1>2, <1>3, <1>6 DEF PartitionInv
<1> QED
  BY <1>1, <1>4, <1>5, <1>7 DEF SortInv

LEMMA SmallKeeps == ASSUME SortInv, Small PROVE SortInv'
<1>1. /\ Shape /\ CallInv /\ ranges # <<>> /\ begin >= end /\ ranges' = Tail(ranges)
      /\ step' = "call" /\ arr' = arr /\ given' = given /\ i' = i /\ j' = j
  BY DEF SortInv, Small, still
<1>2. /\ Len(ranges) \in Nat /\ begin \in Int /\ end \in Int /\ 1 \in 1..Len(ranges)
      /\ ranges' \in Seq(Int \X Int) /\ Len(ranges') = Len(ranges) - 1
      /\ \A l \in 1..(Len(ranges) - 1) : ranges'[l] = ranges[l + 1]
  BY <1>1, RangesTyped
<1>3. length' = length /\ Cells' = Cells
  BY <1>1, ShapeKept
<1>4. Shape'
  BY <1>1, <1>2, <1>3 DEF Shape
<1>5. \A l \in 1..Len(ranges') : l + 1 \in 1..Len(ranges) /\ ranges'[l] = ranges[l + 1]
  BY <1>2
<1>6. \A l \in 1..Len(ranges') : 0 <= ranges'[l][1] /\ ranges'[l][2] < length
  BY <1>1, <1>5 DEF CallInv
<1>7. ASSUME NEW l \in 1..Len(ranges'), NEW m \in 1..Len(ranges'), NEW a \in Cells,
             Within(ranges'[l], a), Within(ranges'[m], a)
      PROVE  l = m
  <2>1. l + 1 = m + 1
    BY <1>1, <1>5, <1>7 DEF CallInv
  <2> QED
    BY <2>1
<1>8. ASSUME NEW a \in Cells, NEW b \in Cells, a < b
      PROVE  Together(a, b)' \/ arr[a] <= arr[b]
  <2>1. CASE arr[a] <= arr[b]
    BY <2>1
  <2>2. CASE Together(a, b)
    <3>1. PICK l \in 1..Len(ranges) : Within(ranges[l], a) /\ Within(ranges[l], b)
      BY <2>2 DEF Together
    <3>2. l # 1
      BY <3>1, <1>1, <1>2, <1>8 DEF Within, begin, end, Cells
    <3>3. l - 1 \in 1..Len(ranges') /\ ranges'[l - 1] = ranges[l]
      BY <3>2, <1>2
    <3>4. Within(ranges'[l - 1], a) /\ Within(ranges'[l - 1], b)
      BY <3>1, <3>3
    <3> QED
      BY <3>3, <3>4 DEF Together
  <2> QED
    BY <2>1, <2>2, <1>1, <1>8 DEF CallInv
<1>9. CallInv'
  <2>1. Permuted(arr', given', Cells')
    BY <1>1, <1>3 DEF CallInv
  <2> QED
    BY <2>1, <1>1, <1>3, <1>6, <1>7, <1>8 DEF CallInv, Permuted
<1> QED
  BY <1>1, <1>4, <1>9 DEF SortInv

\* Two elements of the range being sorted change places: the order between
\* the ranges stays.
LEMMA SwapInRange ==
    ASSUME Shape, CallInv, ranges # <<>>,
           NEW x \in Int, NEW y \in Int, Within(ranges[1], x), Within(ranges[1], y),
           arr' = Swapped(x, y), given' = given
    PROVE  /\ x \in Cells /\ y \in Cells
           /\ arr' \in [Cells -> Keys] /\ length' = length /\ Cells' = Cells
           /\ \A a \in Cells : arr'[a] = IF a = x THEN arr[y] ELSE IF a = y THEN arr[x] ELSE arr[a]
           /\ \A a, b \in Cells : a < b => (Together(a, b) \/ arr'[a] <= arr'[b])
           /\ Permuted(arr', given', Cells')
<1>1. /\ 1 \in 1..Len(ranges) /\ begin \in Int /\ end \in Int /\ ranges[1][1] = begin
      /\ ranges[1][2] = end /\ length \in Int /\ arr \in [Cells -> Keys] /\ DOMAIN arr = Cells
  BY RangesTyped DEF begin, end, Shape
<1>2. 0 <= begin /\ end < length /\ begin <= x /\ x <= end /\ begin <= y /\ y <= end
  BY <1>1 DEF CallInv, Within
<1>3. x \in Cells /\ y \in Cells
  BY <1>1, <1>2 DEF Cells
<1>4. arr' \in [Cells -> Keys] /\ DOMAIN arr' = DOMAIN arr
  BY <1>1, <1>3 DEF Swapped
<1>5. \A a \in Cells : arr'[a] = IF a = x THEN arr[y] ELSE IF a = y THEN arr[x] ELSE arr[a]
  BY <1>1, <1>3 DEF Swapped
<1>6. length' = length /\ Cells' = Cells
  BY <1>4, ShapeKept
<1>7. ASSUME NEW a \in Cells, NEW b \in Cells, a < b, ~Together(a, b)
      PROVE  arr'[a] <= arr'[b]
  <2> DEFINE w(c) == IF c = x THEN y ELSE IF c = y THEN x ELSE c
  <2>1. \A c \in Cells : w(c) \in Cells /\ arr'[c] = arr[w(c)]
    BY <1>3, <1>5
  <2>2. a \in Int /\ b \in Int /\ ~(Within(ranges[1], a) /\ Within(ranges[1], b))
    BY <1>1, <1>7 DEF Together, Cells
  <2>3. w(a) < w(b)
    BY <2>2, <1>1, <1>2, <1>7 DEF Within
  <2>4. \A c \in Cells : w(c) = c \/ (Within(ranges[1], c) /\ Within(ranges[1], w(c)))
    OBVIOUS
  <2>5. ~Together(w(a), w(b))
    <3> SUFFICES ASSUME NEW l \in 1..Len(ranges), Within(ranges[l], w(a)), Within(ranges[l], w(b))
                 PROVE  FALSE
      BY DEF Together
    <3>1. \A m \in 1..Len(ranges), c \in Cells :
             (Within(ranges[l], c) /\ Within(ranges[m], c)) => l = m
      BY DEF CallInv
    <3>2. CASE w(a) = a /\ w(b) = b
      BY <3>2, <1>7 DEF Together
    <3>3. CASE w(a) # a
      <4>1. Within(ranges[1], a) /\ Within(ranges[1], w(a)) /\ w(a) \in Cells
        BY <3>3, <2>1, <2>4
      <4>2. l = 1
        BY <4>1, <3>1, <1>1
      <4>3. Within(ranges[1], b)
        BY <4>2, <2>4
      <4> QED
        BY <4>1, <4>3, <2>2
    <3>4. CASE w(b) # b
      <4>1. Within(ranges[1], b) /\ Within(ranges[1], w(b)) /\ w(b) \in Cells
        BY <3>4, <2>1, <2>4
      <4>2. l = 1
        BY <4>1, <3>1, <1>1
      <4>3. Within(ranges[1], a)
        BY <4>2, <2>4
      <4> QED
        BY <4>1, <4>3, <2>2
    <3> QED
      BY <3>2, <3>3, <3>4
  <2>6. arr[w(a)] <= arr[w(b)]
    <3> HIDE DEF w
    <3> QED
      BY <2>1, <2>3, <2>5 DEF CallInv
  <2> QED
    BY <2>1, <2>6
<1>8. Permuted(arr', given', Cells')
  <2>1. Permuted(arr, given, Cells)
    BY DEF CallInv
  <2>2. Permuted(arr', given, Cells)
    BY <2>1, <1>3, <1>5, SwapPermutes
  <2> QED
    BY <2>2, <1>6
<1> QED
  BY <1>3, <1>4, <1>5, <1>6, <1>7, <1>8

LEMMA ScannedKeeps == ASSUME SortInv, Scanned PROVE SortInv'
<1>1. /\ Shape /\ CallInv /\ PartitionInv /\ step' = "partition" /\ j < end
      /\ j' = j + 1 /\ given' = given /\ ranges' = ranges /\ key' = key
  BY DEF SortInv, Scanned, still
<1>2. /\ begin \in Int /\ end \in Int /\ i \in Int /\ j \in Int /\ key \in Keys /\ key \in Int
      /\ begin - 1 <= i /\ i < j /\ ranges # <<>>
      /\ length \in Int /\ 0 <= begin /\ end < length /\ arr \in [Cells -> Keys]
      /\ ranges[1][1] = begin /\ ranges[1][2] = end
      /\ begin' = begin /\ end' = end
  BY <1>1, RangesTyped, KeyAssumption DEF PartitionInv, Shape, CallInv, begin, end
<1>3. \A a \in begin..end : a \in Cells /\ a \in Int /\ Within(ranges[1], a)
  BY <1>2 DEF Cells, Within
<1>4. \A a \in Cells : arr[a] \in Int
  BY <1>2, KeyAssumption
<1>5. CASE arr[j] <= key
  <2>1. i' = i + 1 /\ arr' = Swapped(j, i + 1)
    BY <1>5 DEF Scanned
  <2>2. j \in begin..end /\ i + 1 \in begin..end /\ i + 1 <= j
    BY <1>1, <1>2
  <2>3. /\ arr' \in [Cells -> Keys] /\ length' = length /\ Cells' = Cells
        /\ \A a \in Cells : arr'[a] = IF a = j THEN arr[i + 1]
                                      ELSE IF a = i + 1 THEN arr[j] ELSE arr[a]
        /\ \A a, b \in Cells : a < b => (Together(a, b) \/ arr'[a] <= arr'[b])
        /\ Permuted(arr', given', Cells')
    BY <2>1, <2>2, <1>1, <1>2, <1>3, SwapInRange
  <2>4. Shape'
    <3>1. i' \in Int /\ j' \in Int /\ ranges' \in Seq(Int \X Int)
      BY <2>1, <1>1, <1>2 DEF Shape
    <3>2. length' \in Nat \ {0} /\ given' \in [Cells' -> Keys] /\ arr' \in [Cells' -> Keys]
      BY <2>3, <1>1 DEF Shape
    <3> QED
      BY <3>1, <3>2, <1>1 DEF Shape
  <2>5. CallInv'
    BY <2>3, <1>1 DEF CallInv, Together, Permuted
  <2>6. arr'[end] = key
    BY <2>2, <2>3, <1>1, <1>2, <1>3 DEF PartitionInv
  <2>7. \A a \in begin..(i + 1) : arr'[a] <= key
    <3> SUFFICES ASSUME NEW a \in begin..(i + 1) PROVE arr'[a] <= key
      OBVIOUS
    <3>1. a \in Cells
      BY <2>2, <1>2, <1>3
    <3>2. CASE a = i + 1
      BY <3>1, <3>2, <2>2, <2>3, <1>5
    <3>3. CASE a # i + 1
      <4>1. a \in begin..i /\ a # j
        BY <3>3, <2>2, <1>2
      <4>2. arr[a] <= key
        BY <4>1, <1>1 DEF PartitionInv
      <4> QED
        BY <4>1, <4>2, <3>1, <3>3, <2>3
    <3> QED
      BY <3>2, <3>3
  <2>8. \A a \in (i + 2)..j : arr'[a] > key
    <3> SUFFICES ASSUME NEW a \in (i + 2)..j PROVE arr'[a] > key
      OBVIOUS
    <3>1. a \in Cells /\ a # i + 1 /\ i + 1 \in (i + 1)..(j - 1)
      BY <2>2, <1>2, <1>3
    <3>2. CASE a = j
      <4>1. arr[i + 1] > key
        BY <3>1, <1>1 DEF PartitionInv
      <4> QED
        BY <4>1, <3>1, <3>2, <2>3
    <3>3. CASE a # j
      <4>1. a \in (i + 1)..(j - 1)
        BY <3>3, <1>2
      <4>2. arr[a] > key
        BY <4>1, <1>1 DEF PartitionInv
      <4> QED
        BY <4>2, <3>1, <3>3, <2>3
    <3> QED
      BY <3>2, <3>3
  <2>9. PartitionInv'
    <3>1. ((i + 1) + 1 = i + 2) /\ (j + 1) - 1 = j
      BY <1>2
    <3> QED
      BY <3>1, <2>1, <2>2, <2>6, <2>7, <2>8, <1>1, <1>2 DEF PartitionInv
  <2> QED
    BY <2>4, <2>5, <2>9, <1>1 DEF SortInv
<1>6. CASE ~(arr[j] <= key)
  <2>1. i' = i /\ arr' = arr
    BY <1>6 DEF Scanned
  <2>2. length' = length /\ Cells' = Cells
    BY <2>1, <1>1, ShapeKept
  <2>3. Shape'
    BY <2>1, <2>2, <1>1, <1>2 DEF Shape
  <2>4. CallInv'
    BY <2>1, <2>2, <1>1 DEF CallInv, Together, Permuted
  <2>5. \A a \in (i + 1)..j : arr[a] > key
    <3> SUFFICES ASSUME NEW a \in (i + 1)..j PROVE arr[a] > key
      OBVIOUS
    <3>1. CASE a = j
      BY <3>1, <1>1, <1>2, <1>3, <1>4, <1>6
    <3>2. CASE a # j
      <4>1. a \in (i + 1)..(j - 1)
        BY <3>2, <1>2
      <4> QED
        BY <4>1, <1>1 DEF PartitionInv
    <3> QED
      BY <3>1, <3>2
  <2>6. PartitionInv'
    <3>1. (j + 1) - 1 = j /\ i < j + 1 /\ j + 1 <= end
      BY <1>1, <1>2
    <3> QED
      BY <3>1, <2>1, <2>5, <1>1, <1>2 DEF PartitionInv
  <2> QED
    BY <2>3, <2>4, <2>6, <1>1 DEF SortInv
<1> QED
  BY <1>5, <1>6

\* One sequence behind another.
LEMMA Joined ==
    ASSUME NEW S, NEW u \in Seq(S), NEW w \in Seq(S)
    PROVE  /\ u \o w \in Seq(S) /\ Len(u \o w) = Len(u) + Len(w)
           /\ \A l \in 1..(Len(u) + Len(w)) :
                 (u \o w)[l] = IF l <= Len(u) THEN u[l] ELSE w[l - Len(u)]
OBVIOUS

LEMMA PutPivotKeeps == ASSUME SortInv, PutPivot PROVE SortInv'
<1>1. /\ Shape /\ CallInv /\ PartitionInv /\ step' = "call" /\ j = end
      /\ arr' = Swapped(i + 1, end) /\ ranges' = <<<<begin, i>>, <<i + 2, end>>>> \o Tail(ranges)
      /\ given' = given /\ i' = i /\ j' = j /\ key' = key
  BY DEF SortInv, PutPivot, still
<1>2. /\ begin \in Int /\ end \in Int /\ i \in Int /\ j \in Int /\ key \in Keys /\ key \in Int
      /\ begin - 1 <= i /\ i < end /\ ranges # <<>>
      /\ length \in Int /\ 0 <= begin /\ end < length /\ arr \in [Cells -> Keys]
      /\ ranges[1][1] = begin /\ ranges[1][2] = end /\ Len(ranges) \in Nat
      /\ 1 \in 1..Len(ranges)
  BY <1>1, RangesTyped, KeyAssumption DEF PartitionInv, Shape, CallInv, begin, end
<1>3. i + 1 \in begin..end /\ end \in begin..end
  BY <1>1, <1>2 DEF PartitionInv
<1>4. \A a \in begin..end : a \in Cells /\ a \in Int /\ Within(ranges[1], a)
  BY <1>2 DEF Cells, Within
<1>5. /\ arr' \in [Cells -> Keys] /\ length' = length /\ Cells' = Cells
      /\ \A a \in Cells : arr'[a] = IF a = i + 1 THEN arr[end]
                                    ELSE IF a = end THEN arr[i + 1] ELSE arr[a]
      /\ \A a, b \in Cells : a < b => (Together(a, b) \/ arr'[a] <= arr'[b])
      /\ Permuted(arr', given', Cells')
  BY <1>1, <1>2, <1>3, <1>4, SwapInRange
<1>6. /\ ranges' \in Seq(Int \X Int) /\ Len(ranges') = Len(ranges) + 1
      /\ ranges'[1] = <<begin, i>> /\ ranges'[2] = <<i + 2, end>>
      /\ \A l \in 3..(Len(ranges) + 1) : ranges'[l] = ranges[l - 1]
  <2> DEFINE two == <<<<begin, i>>, <<i + 2, end>>>>
             rest == Tail(ranges)
  <2>1. two \in Seq(Int \X Int) /\ Len(two) = 2
    BY <1>2
  <2>2. two[1] = <<begin, i>> /\ two[2] = <<i + 2, end>>
    OBVIOUS
  <2>3. /\ rest \in Seq(Int \X Int) /\ Len(rest) = Len(ranges) - 1
        /\ \A l \in 1..(Len(ranges) - 1) : rest[l] = ranges[l + 1]
    BY <1>1, <1>2, RangesTyped
  <2> HIDE DEF two, rest
  <2>4. /\ two \o rest \in Seq(Int \X Int) /\ Len(two \o rest) = Len(ranges) + 1
        /\ \A l \in 1..(Len(ranges) + 1) :
              (two \o rest)[l] = IF l <= 2 THEN two[l] ELSE rest[l - 2]
    <3>1. 2 + (Len(ranges) - 1) = Len(ranges) + 1
      BY <1>2
    <3>2. /\ two \o rest \in Seq(Int \X Int) /\ Len(two \o rest) = Len(two) + Len(rest)
          /\ \A l \in 1..(Len(two) + Len(rest)) :
                (two \o rest)[l] = IF l <= Len(two) THEN two[l] ELSE rest[l - Len(two)]
      BY <2>1, <2>3, Joined, Zenon
    <3>3. Len(two) = 2 /\ Len(two) + Len(rest) = Len(ranges) + 1
      BY <3>1, <2>1, <2>3
    <3> QED
      BY <3>2, <3>3, Zenon
  <2>5. \A l \in 3..(Len(ranges) + 1) : rest[l - 2] = ranges[l - 1]
    <3> SUFFICES ASSUME NEW l \in 3..(Len(ranges) + 1) PROVE rest[l - 2] = ranges[l - 1]
      OBVIOUS
    <3>1. l - 2 \in 1..(Len(ranges) - 1) /\ (l - 2) + 1 = l - 1
      BY <1>2
    <3> QED
      BY <3>1, <2>3
  <2>6. ranges' = two \o rest
    BY <1>1 DEF two, rest
  <2>7. two[1] = <<begin, i>> /\ two[2] = <<i + 2, end>>
    BY <2>2 DEF two
  <2>8. 1 \in 1..(Len(ranges) + 1) /\ 2 \in 1..(Len(ranges) + 1)
    BY <1>2
  <2>9. (two \o rest)[1] = two[1] /\ (two \o rest)[2] = two[2]
    BY <2>4, <2>8
  <2>10. ASSUME NEW l \in 3..(Len(ranges) + 1)
         PROVE  (two \o rest)[l] = ranges[l - 1]
    <3>1. l \in 1..(Len(ranges) + 1) /\ ~(l <= 2)
      BY <1>2
    <3> QED
      BY <3>1, <2>4, <2>5
  <2> QED
    BY <2>4, <2>6, <2>7, <2>9, <2>10, Zenon
<1>7. Shape'
  BY <1>1, <1>2, <1>5, <1>6 DEF Shape
\* The element a is in a new range at l exactly when ...
<1>8. /\ \A a \in Int : /\ Within(ranges'[1], a) <=> begin <= a /\ a <= i
                        /\ Within(ranges'[2], a) <=> i + 2 <= a /\ a <= end
      /\ \A l \in 3..Len(ranges'), a \in Int : Within(ranges'[l], a) <=> Within(ranges[l - 1], a)
      /\ \A l \in 3..Len(ranges') : l - 1 \in 1..Len(ranges) /\ l - 1 # 1
  <2>1. \A a \in Int : /\ Within(ranges'[1], a) <=> begin <= a /\ a <= i
                       /\ Within(ranges'[2], a) <=> i + 2 <= a /\ a <= end
    BY <1>2, <1>6 DEF Within
  <2>2. \A l \in 3..Len(ranges'), a \in Int : Within(ranges'[l], a) <=> Within(ranges[l - 1], a)
    BY <1>6
  <2>3. \A l \in 3..Len(ranges') : l - 1 \in 1..Len(ranges) /\ l - 1 # 1
    <3>1. Len(ranges) \in Nat /\ Len(ranges') = Len(ranges) + 1
      BY <1>2, <1>6
    <3> QED
      BY <3>1
  <2> QED
    BY <2>1, <2>2, <2>3
<1>9. \A l \in 1..Len(ranges') : 0 <= ranges'[l][1] /\ ranges'[l][2] < length
  <2> SUFFICES ASSUME NEW l \in 1..Len(ranges')
               PROVE  0 <= ranges'[l][1] /\ ranges'[l][2] < length
    OBVIOUS
  <2>1. CASE l = 1
    BY <2>1, <1>2, <1>6
  <2>2. CASE l = 2
    BY <2>2, <1>2, <1>6
  <2>3. CASE l \in 3..Len(ranges')
    BY <2>3, <1>1, <1>6, <1>8 DEF CallInv
  <2> QED
    BY <2>1, <2>2, <2>3, <1>2, <1>6
<1>10. ASSUME NEW l \in 1..Len(ranges'), NEW m \in 1..Len(ranges'), NEW a \in Cells,
              Within(ranges'[l], a), Within(ranges'[m], a)
       PROVE  l = m
  <2> DEFINE old(k) == IF k \in 3..Len(ranges') THEN k - 1 ELSE 1
  <2>1. \A k \in 1..Len(ranges') : k = 1 \/ k = 2 \/ k \in 3..Len(ranges')
    BY <1>2, <1>6
  <2>2. a \in Int
    BY <1>2 DEF Cells
  <2>3. ASSUME NEW k \in 1..Len(ranges'), Within(ranges'[k], a)
        PROVE  old(k) \in 1..Len(ranges) /\ Within(ranges[old(k)], a)
    <3>1. CASE k \in 3..Len(ranges')
      BY <3>1, <2>2, <2>3, <1>8
    <3>2. CASE k = 1
      BY <3>2, <2>2, <2>3, <1>2, <1>8 DEF Within
    <3>3. CASE k = 2
      BY <3>3, <2>2, <2>3, <1>2, <1>8 DEF Within
    <3> QED
      BY <2>1, <3>1, <3>2, <3>3
  <2>4. old(l) = old(m)
    <3>1. /\ old(l) \in 1..Len(ranges) /\ Within(ranges[old(l)], a)
          /\ old(m) \in 1..Len(ranges) /\ Within(ranges[old(m)], a)
      BY <2>3, <1>10
    <3> HIDE DEF old
    <3> QED
      BY <3>1, <1>1 DEF CallInv
  <2>5. l \in 3..Len(ranges') <=> m \in 3..Len(ranges')
    BY <2>4, <1>2, <1>6, <1>8
  <2>6. CASE l \in 3..Len(ranges')
    BY <2>4, <2>5, <2>6, <1>2, <1>6
  <2>7. CASE l \notin 3..Len(ranges')
    <3>1. l \in {1, 2} /\ m \in {1, 2}
      BY <2>1, <2>5, <2>7
    <3> QED
      BY <3>1, <2>2, <1>2, <1>8, <1>10
  <2> QED
    BY <2>6, <2>7
<1>11. ASSUME NEW a \in Cells, NEW b \in Cells, a < b
       PROVE  Together(a, b)' \/ arr'[a] <= arr'[b]
  <2>1. a \in Int /\ b \in Int
    BY <1>2 DEF Cells
  <2>2. CASE arr'[a] <= arr'[b]
    BY <2>2
  <2>3. CASE Together(a, b)
    <3>1. PICK l \in 1..Len(ranges) : Within(ranges[l], a) /\ Within(ranges[l], b)
      BY <2>3 DEF Together
    <3>2. CASE l # 1
      <4>1. l + 1 \in 3..Len(ranges') /\ l + 1 \in 1..Len(ranges') /\ (l + 1) - 1 = l
        BY <3>2, <1>2, <1>6
      <4>2. Within(ranges'[l + 1], a) /\ Within(ranges'[l + 1], b)
        BY <4>1, <3>1, <2>1, <1>8
      <4> QED
        BY <4>1, <4>2 DEF Together
    <3>3. CASE l = 1
      <4>0. begin <= a /\ a <= end /\ begin <= b /\ b <= end
        BY <3>1, <3>3, <1>2 DEF Within
      <4>1. CASE b <= i
        <5>1. 1 \in 1..Len(ranges') /\ begin <= a /\ a <= i /\ begin <= b /\ b <= i
          BY <4>0, <4>1, <2>1, <1>2, <1>6, <1>11
        <5>2. Within(ranges'[1], a) /\ Within(ranges'[1], b)
          BY <5>1, <2>1, <1>8
        <5> QED
          BY <5>1, <5>2 DEF Together
      <4>2. CASE i + 2 <= a
        <5>1. 2 \in 1..Len(ranges') /\ i + 2 <= a /\ a <= end /\ i + 2 <= b /\ b <= end
          BY <4>0, <4>2, <2>1, <1>2, <1>6, <1>11
        <5>2. Within(ranges'[2], a) /\ Within(ranges'[2], b)
          BY <5>1, <2>1, <1>8
        <5> QED
          BY <5>1, <5>2 DEF Together
      <4>3. CASE a <= i + 1 /\ i + 1 <= b
        \* The pivot is between a and b, or is one of them.
        <5>1. arr'[a] <= key
          <6>1. CASE a = i + 1
            BY <6>1, <1>1, <1>2, <1>5 DEF PartitionInv
          <6>2. CASE a # i + 1
            <7>1. a \in begin..i /\ a # end
              BY <6>2, <4>0, <4>3, <2>1, <1>2
            <7>2. arr[a] <= key
              BY <7>1, <1>1 DEF PartitionInv
            <7> QED
              BY <7>1, <7>2, <6>2, <1>5
          <6> QED
            BY <6>1, <6>2
        <5>2. key <= arr'[b]
          <6>1. CASE b = i + 1
            BY <6>1, <1>1, <1>2, <1>5 DEF PartitionInv
          <6>2. CASE b = end /\ b # i + 1
            <7>1. i + 1 \in (i + 1)..(j - 1) /\ i + 1 \in Cells
              BY <6>2, <4>3, <2>1, <1>1, <1>2, <1>3, <1>4
            <7>2. arr[i + 1] > key /\ arr[i + 1] \in Int
              BY <7>1, <1>1, <1>2, KeyAssumption DEF PartitionInv
            <7> QED
              BY <7>2, <6>2, <1>2, <1>5
          <6>3. CASE b # end /\ b # i + 1
            <7>1. b \in (i + 1)..(j - 1)
              BY <6>3, <4>0, <4>3, <2>1, <1>1, <1>2
            <7>2. arr[b] > key /\ arr[b] \in Int
              BY <7>1, <1>1, <1>2, KeyAssumption DEF PartitionInv
            <7> QED
              BY <7>2, <6>3, <1>2, <1>5
          <6> QED
            BY <6>1, <6>2, <6>3
        <5>3. arr'[a] \in Int /\ arr'[b] \in Int
          BY <1>5, KeyAssumption
        <5> QED
          BY <5>1, <5>2, <5>3, <1>2
      <4> QED
        BY <4>1, <4>2, <4>3, <2>1, <1>2
    <3> QED
      BY <3>2, <3>3
  <2> QED
    BY <2>2, <2>3, <1>5, <1>11
<1>12. CallInv'
  BY <1>5, <1>9, <1>10, <1>11 DEF CallInv, Permuted
<1> QED
  BY <1>1, <1>7, <1>12 DEF SortInv

LEMMA AllSortedKeeps == ASSUME SortInv, AllSorted PROVE SortInv'
<1>1. /\ Shape /\ CallInv /\ ranges = <<>> /\ step' = "sorted"
      /\ UNCHANGED <<arr, given, algorithm, i, j, key, ranges>>
  BY DEF SortInv, AllSorted, still
<1>2. length' = length /\ Cells' = Cells
  BY <1>1, ShapeKept
<1>3. Shape'
  BY <1>1, <1>2 DEF Shape
<1>4. \A a, b \in Cells : ~Together(a, b)
  BY <1>1 DEF Together
<1>5. Ascending(Cells)'
  BY <1>1, <1>2, <1>4 DEF CallInv, Ascending
<1>6. Permuted(arr', given', Cells')
  BY <1>1, <1>2 DEF CallInv
<1> QED
  BY <1>1, <1>3, <1>5, <1>6 DEF SortInv, Permuted

(* The array a sort ends with is in order and holds what was given, for    *)
(* arrays of any length and any keys.                                      *)
THEOREM SortsEveryArray == SortSpec => []Sorted
<1>1. SortInv /\ [SortNext]_srvars => SortInv'
  <2> SUFFICES ASSUME SortInv, [SortNext]_srvars PROVE SortInv'
    OBVIOUS
  <2>1. CASE UNCHANGED srvars
    <3>1. UNCHANGED <<arr, given, algorithm, step, i, j, key, ranges>>
      BY <2>1 DEF srvars
    <3>2. /\ length' = length /\ Cells' = Cells /\ begin' = begin /\ end' = end
          /\ Filled' = Filled
      BY <3>1 DEF length, Cells, begin, end, Filled
    <3>3. Shape' = Shape /\ LoopInv' = LoopInv /\ ShiftInv' = ShiftInv
      BY <3>1, <3>2 DEF Shape, LoopInv, ShiftInv, Ascending, Permuted
    <3>4. CallInv' = CallInv /\ PartitionInv' = PartitionInv
      BY <3>1, <3>2 DEF CallInv, PartitionInv, Together, Permuted
    <3>5. Ascending(Cells)' = Ascending(Cells)
      BY <3>1, <3>2 DEF Ascending
    <3>6. Permuted(arr, given, Cells)' = Permuted(arr, given, Cells)
      BY <3>1, <3>2 DEF Permuted
    <3> QED
      BY <3>1, <3>3, <3>4, <3>5, <3>6 DEF SortInv
  <2> QED
    BY <2>1, NextKeyKeeps, ShiftKeeps, PutKeyKeeps, InsertedKeeps, PartitionStarts,
       SmallKeeps, ScannedKeeps, PutPivotKeeps, AllSortedKeeps DEF SortNext
<1>2. SortInv => Sorted
  <2> SUFFICES ASSUME SortInv, step = "sorted"
               PROVE  /\ \A a, b \in DOMAIN arr : a < b => arr[a] <= arr[b]
                      /\ \A v \in Keys : Cardinality({a \in DOMAIN arr : arr[a] = v})
                                           = Cardinality({a \in DOMAIN given : given[a] = v})
    BY DEF Sorted
  <2>1. /\ Shape /\ Ascending(Cells) /\ Permuted(arr, given, Cells)
        /\ DOMAIN arr = Cells /\ DOMAIN given = Cells /\ length \in Int
    BY DEF SortInv, Shape
  <2>2. IsFiniteSet(Cells)
    BY <2>1, FS_Interval DEF Cells
  <2> QED
    BY <2>1, <2>2, PermutedCounts DEF Ascending
<1> QED
  BY InitSort, <1>1, <1>2, PTL DEF SortSpec
=============================================================================
