-------------------------- MODULE NvmRequestProofs -------------------------
(***************************************************************************)
(* Proofs about NvmRequest for every number of threads, every capacity and *)
(* every page size: what syncer_lock protects stays consistent, and no     *)
(* sector receives data before it is mapped.                               *)
(***************************************************************************)
EXTENDS NvmRequest, FiniteSetTheorems, TLAPS

Holding == {"info", "charge", "bit", "map"}
InSegment == {"lock", "copy"} \cup Holding

\* syncer_lock belongs to the one thread inside write_helper, or to the syncer.
LockInv == \A t \in Submitters : pc[t] \in Holding <=> syncer_lock = t

\* The segment in progress lies inside the device.
RangeOf(t) ==
    /\ pc[t] \in {"segment"} \cup InSegment => sector[t] + left[t] <= CAPACITY
    /\ pc[t] \in InSegment => 1 <= seg[t] /\ seg[t] <= left[t]
    /\ pc[t] \in {"bit", "map", "copy"} => sector[t] <= cur[t] /\ cur[t] <= SegEnd(t)
    /\ pc[t] = "map" => cur[t] < SegEnd(t)
RangeInv == \A t \in Submitters : RangeOf(t)

\* A sector is mapped, or unmarked, or a thread is about to map it.
Mapped(s) == s \in BitMap /\ MapTable[s] = s + 1
Mapping(s) == \E t \in Submitters : pc[t] = "map" /\ cur[t] = s
HalfOf(s) == Mapped(s) \/ (MapTable[s] = 0 /\ (s \in BitMap => Mapping(s)))
HalfInv == \A s \in Sectors : HalfOf(s)

\* What write_helper has passed is mapped, and a write is copied behind it.
MarkOf(t, s) ==
    /\ pc[t] \in {"bit", "map"} /\ sector[t] <= s /\ s < cur[t] => Mapped(s)
    /\ pc[t] = "map" /\ s = cur[t] => s \in BitMap
    /\ pc[t] = "copy" /\ rw[t] = "WRITE" /\ sector[t] <= s /\ s < SegEnd(t) => Mapped(s)
MarkInv == \A t \in Submitters, s \in Sectors : MarkOf(t, s)

\* The holder of the lock has charged the pages behind its index.
Charged(t, p) ==
    /\ PageOf(sector[t]) <= p
    /\ \/ pc[t] \in {"info", "charge"} /\ p < cur[t]
       \/ pc[t] \in {"bit", "map"} /\ p <= PageOf(SegEnd(t))
CountOf(t, p) ==
    /\ Charged(t, p) => InfoTable[p] >= touched[p] + 1
    /\ pc[t] = "charge" => cur[t] \in InfoPages /\ reg[t] = InfoTable[cur[t]]
CountInv == \A t \in Submitters, p \in InfoPages : CountOf(t, p)

TouchedInv == \A p \in InfoPages : InfoTable[p] >= touched[p]

IInv == /\ TypeOK /\ LockInv /\ RangeInv /\ HalfInv /\ MarkInv /\ StoredIsMapped
        /\ CountInv /\ TouchedInv

ThreadStep(t) == Submit(t) \/ Step(t)

\* Nothing of a thread has changed.
Same(u) == /\ pc'[u] = pc[u] /\ rw'[u] = rw[u] /\ sector'[u] = sector[u]
           /\ left'[u] = left[u] /\ seg'[u] = seg[u] /\ cur'[u] = cur[u] /\ reg'[u] = reg[u]

-----------------------------------------------------------------------------
(* Arithmetic of pages. *)

\* The page of a sector is a natural number, and grows with the sector.
LEMMA PageType == ASSUME NEW s \in Nat PROVE PageOf(s) \in Nat
BY SizeAssumption DEF PageOf

LEMMA PageGrows == ASSUME NEW s \in Nat, NEW u \in Nat, s <= u PROVE PageOf(s) <= PageOf(u)
<1> DEFINE a == s \div PAGE
           b == u \div PAGE
<1>1. a \in Nat /\ b \in Nat BY SizeAssumption
<1>2. PAGE * a <= s /\ u < PAGE * (b + 1) BY SizeAssumption
<1>3. ASSUME b < a PROVE FALSE
  <2>1. PAGE * (b + 1) <= PAGE * a BY <1>1, <1>3, SizeAssumption
  <2>2. PAGE * a \in Nat /\ PAGE * (b + 1) \in Nat BY <1>1, SizeAssumption
  <2> QED BY <1>2, <2>1, <2>2
<1> QED BY <1>1, <1>3 DEF PageOf

\* Accounting keeps the statistics natural numbers.
LEMMA AccountType ==
    ASSUME NEW stat \in Stats, NEW d, NEW n \in Nat
    PROVE  Account(stat, d, n) \in Stats
<1>1. /\ stat.requests_read \in Nat /\ stat.sectors_read \in Nat
      /\ stat.requests_write \in Nat /\ stat.sectors_write \in Nat BY DEF Stats
<1>2. CASE d = "READ"
  <2>1. Account(stat, d, n) =
          [requests_read |-> stat.requests_read + 1, sectors_read |-> stat.sectors_read + n,
           requests_write |-> stat.requests_write, sectors_write |-> stat.sectors_write]
    BY <1>2 DEF Account, Stats
  <2> QED BY <1>1, <2>1 DEF Stats
<1>3. CASE d # "READ"
  <2>1. Account(stat, d, n) =
          [requests_read |-> stat.requests_read, sectors_read |-> stat.sectors_read,
           requests_write |-> stat.requests_write + 1, sectors_write |-> stat.sectors_write + n]
    BY <1>3 DEF Account, Stats
  <2> QED BY <1>1, <2>1 DEF Stats
<1> QED BY <1>2, <1>3

-----------------------------------------------------------------------------
(* What a step of one thread leaves alone. *)

\* Initially no sector is marked and no page charged.
LEMMA Initially == Init => IInv
<1> SUFFICES ASSUME Init PROVE IInv OBVIOUS
<1> USE SizeAssumption, NameAssumption DEF Init
<1>1. TypeOK
  BY DEF TypeOK, TypeTables, TypeStats, TypeThreads, Stats, NoStat, NoBuf, Zero, PCs
<1>2. LockInv /\ RangeInv BY DEF LockInv, RangeInv, RangeOf, Holding, InSegment
<1>3. HalfInv BY DEF HalfInv, HalfOf
<1>4. MarkInv /\ StoredIsMapped BY DEF MarkInv, MarkOf, StoredIsMapped
<1>5. CountInv /\ TouchedInv BY DEF CountInv, CountOf, Charged, TouchedInv
<1> QED BY <1>1, <1>2, <1>3, <1>4, <1>5 DEF IInv

\* A thread's step changes nothing of another thread.
LEMMA OthersSame ==
    ASSUME NEW t \in Submitters, ThreadStep(t), NEW u \in Submitters, u # t, TypeThreads
    PROVE  Same(u)
<1> USE DEF TypeThreads, Go, bio, Same
<1>1. CASE Submit(t) BY <1>1 DEF Submit
<1>2. CASE Accept(t) BY <1>2 DEF Accept
<1>3. CASE Exceed(t) BY <1>3 DEF Exceed
<1>4. CASE Segment(t) BY <1>4 DEF Segment
<1>5. CASE NoSegment(t) BY <1>5 DEF NoSegment
<1>6. CASE HelperLock(t) BY <1>6 DEF HelperLock
<1>7. CASE InfoLoad(t) BY <1>7 DEF InfoLoad
<1>8. CASE InfoStore(t) BY <1>8 DEF InfoStore
<1>9. CASE InfoRefused(t) BY <1>9 DEF InfoRefused
<1>10. CASE InfoDone(t) BY <1>10 DEF InfoDone
<1>11. CASE BitIsSet(t) BY <1>11 DEF BitIsSet
<1>12. CASE SetBit(t) BY <1>12 DEF SetBit
<1>13. CASE MapSector(t) BY <1>13 DEF MapSector
<1>14. CASE HelperUnlock(t) BY <1>14 DEF HelperUnlock
<1>15. CASE CopyFromNvm(t) BY <1>15 DEF CopyFromNvm
<1>16. CASE CopyToNvm(t) BY <1>16 DEF CopyToNvm
<1>17. CASE SegmentDone(t) BY <1>17 DEF SegmentDone
<1>18. CASE EndIO(t) BY <1>18 DEF EndIO
<1>19. CASE Stat(t) BY <1>19 DEF Stat
<1> QED BY <1>1, <1>2, <1>3, <1>4, <1>5, <1>6, <1>7, <1>8, <1>9, <1>10, <1>11, <1>12, <1>13, <1>14, <1>15, <1>16, <1>17, <1>18, <1>19 DEF ThreadStep, Step

\* Only four steps change the tables, only one of them the data.
LEMMA TablesSame ==
    ASSUME NEW t \in Submitters, ThreadStep(t)
    PROVE  /\ ~(SetBit(t) \/ MapSector(t)) => UNCHANGED <<BitMap, MapTable>>
           /\ ~InfoStore(t) => UNCHANGED InfoTable
           /\ ~HelperUnlock(t) => UNCHANGED touched
           /\ ~CopyToNvm(t) => UNCHANGED data
           /\ ~(HelperLock(t) \/ HelperUnlock(t)) => UNCHANGED syncer_lock
<1> USE DEF device
<1>1. CASE Submit(t) BY <1>1 DEF Submit
<1>2. CASE Accept(t) BY <1>2 DEF Accept
<1>3. CASE Exceed(t) BY <1>3 DEF Exceed
<1>4. CASE Segment(t) BY <1>4 DEF Segment
<1>5. CASE NoSegment(t) BY <1>5 DEF NoSegment
<1>6. CASE HelperLock(t) BY <1>6 DEF HelperLock
<1>7. CASE InfoLoad(t) BY <1>7 DEF InfoLoad
<1>8. CASE InfoStore(t) BY <1>8 DEF InfoStore
<1>9. CASE InfoRefused(t) BY <1>9 DEF InfoRefused
<1>10. CASE InfoDone(t) BY <1>10 DEF InfoDone
<1>11. CASE BitIsSet(t) BY <1>11 DEF BitIsSet
<1>12. CASE SetBit(t) BY <1>12 DEF SetBit
<1>13. CASE MapSector(t) BY <1>13 DEF MapSector
<1>14. CASE HelperUnlock(t) BY <1>14 DEF HelperUnlock
<1>15. CASE CopyFromNvm(t) BY <1>15 DEF CopyFromNvm
<1>16. CASE CopyToNvm(t) BY <1>16 DEF CopyToNvm
<1>17. CASE SegmentDone(t) BY <1>17 DEF SegmentDone
<1>18. CASE EndIO(t) BY <1>18 DEF EndIO
<1>19. CASE Stat(t) BY <1>19 DEF Stat
<1> QED BY <1>1, <1>2, <1>3, <1>4, <1>5, <1>6, <1>7, <1>8, <1>9, <1>10, <1>11, <1>12, <1>13, <1>14, <1>15, <1>16, <1>17, <1>18, <1>19 DEF ThreadStep, Step

\* The private variables of the threads keep their types.
LEMMA ThreadTypes ==
    ASSUME NEW t \in Submitters, ThreadStep(t), TypeThreads, TypeTables, RangeInv
    PROVE  TypeThreads'
<1> USE DEF TypeThreads, PCs, Go, bio
<1>1. CASE Submit(t)
  <2>1. PICK d \in {"READ", "WRITE"}, s \in Starts, n \in 1..MaxCount :
          /\ dir' = [dir EXCEPT ![t] = d] /\ sector' = [sector EXCEPT ![t] = s]
          /\ num_sectors' = [num_sectors EXCEPT ![t] = n] /\ left' = [left EXCEPT ![t] = n]
    BY <1>1 DEF Submit
  <2>2. s \in Nat /\ n \in 0..MaxCount BY SizeAssumption
  <2> QED BY <1>1, <2>1, <2>2 DEF Submit
<1>2. CASE Accept(t) BY <1>2 DEF Accept
<1>3. CASE Exceed(t) BY <1>3 DEF Exceed
<1>4. CASE Segment(t)
  <2>1. seg' \in [Submitters -> 0..MaxCount] BY <1>4, SizeAssumption DEF Segment
  <2> QED BY <1>4, <2>1 DEF Segment
<1>5. CASE NoSegment(t) BY <1>5 DEF NoSegment
<1>6. CASE HelperLock(t)
  <2>1. cur' \in [Submitters -> Nat] BY <1>6, PageType DEF HelperLock
  <2> QED BY <1>6, <2>1 DEF HelperLock
<1>7. CASE InfoLoad(t)
  <2>1. reg' \in [Submitters -> Nat] BY <1>7 DEF InfoLoad, TypeTables
  <2> QED BY <1>7, <2>1 DEF InfoLoad
<1>8. CASE InfoStore(t) BY <1>8 DEF InfoStore
<1>9. CASE InfoRefused(t) BY <1>9 DEF InfoRefused
<1>10. CASE InfoDone(t) BY <1>10 DEF InfoDone
<1>11. CASE BitIsSet(t) BY <1>11 DEF BitIsSet
<1>12. CASE SetBit(t) BY <1>12 DEF SetBit
<1>13. CASE MapSector(t) BY <1>13 DEF MapSector
<1>14. CASE HelperUnlock(t) BY <1>14 DEF HelperUnlock
<1>15. CASE CopyFromNvm(t) BY <1>15 DEF CopyFromNvm
<1>16. CASE CopyToNvm(t) BY <1>16 DEF CopyToNvm
<1>17. CASE SegmentDone(t)
  <2>1. sector[t] + seg[t] \in Nat /\ left[t] - seg[t] \in 0..MaxCount
    BY <1>17, SizeAssumption DEF SegmentDone, RangeInv, RangeOf, InSegment
  <2>2. sector' \in [Submitters -> Nat] /\ left' \in [Submitters -> 0..MaxCount]
    BY <1>17, <2>1 DEF SegmentDone, SegEnd
  <2> QED BY <1>17, <2>2 DEF SegmentDone
<1>18. CASE EndIO(t) BY <1>18 DEF EndIO
<1>19. CASE Stat(t)
  BY <1>19, SizeAssumption DEF Stat
<1> QED BY <1>1, <1>2, <1>3, <1>4, <1>5, <1>6, <1>7, <1>8, <1>9, <1>10, <1>11, <1>12, <1>13, <1>14, <1>15, <1>16, <1>17, <1>18, <1>19 DEF ThreadStep, Step

\* So do the tables and the lock.
LEMMA TableTypes ==
    ASSUME NEW t \in Submitters, ThreadStep(t), TypeTables, TypeThreads, RangeInv
    PROVE  TypeTables'
<1> USE DEF TypeTables, device, Go
<1>1. CASE Submit(t) BY <1>1 DEF Submit
<1>2. CASE Accept(t) BY <1>2 DEF Accept
<1>3. CASE Exceed(t) BY <1>3 DEF Exceed
<1>4. CASE Segment(t) BY <1>4 DEF Segment
<1>5. CASE NoSegment(t) BY <1>5 DEF NoSegment
<1>6. CASE HelperLock(t) BY <1>6 DEF HelperLock, LockFree
<1>7. CASE InfoLoad(t) BY <1>7 DEF InfoLoad
<1>8. CASE InfoStore(t)
  <2>0. reg[t] + 1 \in Nat BY DEF TypeThreads
  <2>1. InfoTable' \in [InfoPages -> Nat] BY <1>8, <2>0 DEF InfoStore
  <2> QED BY <1>8, <2>1 DEF InfoStore
<1>9. CASE InfoRefused(t) BY <1>9 DEF InfoRefused
<1>10. CASE InfoDone(t) BY <1>10 DEF InfoDone
<1>11. CASE BitIsSet(t) BY <1>11 DEF BitIsSet
<1>12. CASE SetBit(t)
  <2>1. cur[t] \in Sectors
    BY <1>12, SizeAssumption DEF SetBit, SegEnd, Sectors, RangeInv, RangeOf, InSegment, Holding, TypeThreads
  <2> QED BY <1>12, <2>1 DEF SetBit
<1>13. CASE MapSector(t)
  <2>1. cur[t] + 1 \in 0..CAPACITY
    BY <1>13, SizeAssumption DEF MapSector, SegEnd, RangeInv, RangeOf, InSegment, Holding, TypeThreads
  <2>2. MapTable' \in [Sectors -> 0..CAPACITY] BY <1>13, <2>1 DEF MapSector, PbnOf
  <2> QED BY <1>13, <2>2 DEF MapSector
<1>14. CASE HelperUnlock(t)
  <2>1. touched' \in [InfoPages -> Nat] BY <1>14 DEF HelperUnlock
  <2> QED BY <1>14, <2>1 DEF HelperUnlock, DropLock
<1>15. CASE CopyFromNvm(t) BY <1>15 DEF CopyFromNvm
<1>16. CASE CopyToNvm(t) BY <1>16 DEF CopyToNvm
<1>17. CASE SegmentDone(t) BY <1>17 DEF SegmentDone
<1>18. CASE EndIO(t) BY <1>18 DEF EndIO
<1>19. CASE Stat(t) BY <1>19 DEF Stat
<1> QED BY <1>1, <1>2, <1>3, <1>4, <1>5, <1>6, <1>7, <1>8, <1>9, <1>10, <1>11, <1>12, <1>13, <1>14, <1>15, <1>16, <1>17, <1>18, <1>19 DEF ThreadStep, Step

\* And the statistics and buffers.
LEMMA StatTypes ==
    ASSUME NEW t \in Submitters, ThreadStep(t), TypeStats, TypeTables, TypeThreads, RangeInv
    PROVE  TypeStats'
<1> USE DEF TypeStats, Go
<1>1. CASE Submit(t) BY <1>1 DEF Submit
<1>2. CASE Accept(t) BY <1>2 DEF Accept
<1>3. CASE Exceed(t) BY <1>3 DEF Exceed
<1>4. CASE Segment(t) BY <1>4 DEF Segment
<1>5. CASE NoSegment(t) BY <1>5 DEF NoSegment
<1>6. CASE HelperLock(t) BY <1>6 DEF HelperLock
<1>7. CASE InfoLoad(t) BY <1>7 DEF InfoLoad
<1>8. CASE InfoStore(t) BY <1>8 DEF InfoStore
<1>9. CASE InfoRefused(t) BY <1>9 DEF InfoRefused
<1>10. CASE InfoDone(t) BY <1>10 DEF InfoDone
<1>11. CASE BitIsSet(t) BY <1>11 DEF BitIsSet
<1>12. CASE SetBit(t) BY <1>12 DEF SetBit
<1>13. CASE MapSector(t) BY <1>13 DEF MapSector
<1>14. CASE HelperUnlock(t) BY <1>14 DEF HelperUnlock
<1>15. CASE CopyFromNvm(t)
  <2>0. RangeOf(t) /\ pc[t] = "copy" /\ cur[t] < SegEnd(t) BY <1>15 DEF CopyFromNvm, RangeInv
  <2>1. data[cur[t]] \in Submitters \cup {Blank}
    <3>1. cur[t] \in Sectors
      BY <2>0, SizeAssumption DEF RangeOf, InSegment, SegEnd, Sectors, TypeThreads
    <3> QED BY <3>1 DEF TypeTables
  <2> DEFINE b == [buf[t] EXCEPT ![Offset(t)] = data[cur[t]]]
  <2>2. b \in [0..(MaxCount - 1) -> Submitters \cup {Blank}] BY <2>1
  <2>3. buf' = [buf EXCEPT ![t] = b] BY <1>15 DEF CopyFromNvm
  <2> HIDE DEF b
  <2> QED BY <1>15, <2>2, <2>3 DEF CopyFromNvm
<1>16. CASE CopyToNvm(t) BY <1>16 DEF CopyToNvm
<1>17. CASE SegmentDone(t) BY <1>17 DEF SegmentDone
<1>18. CASE EndIO(t)
  <2>1. num_sectors[t] \in Nat BY SizeAssumption DEF TypeThreads
  <2>2. Account(served, dir[t], num_sectors[t]) \in Stats BY <2>1, AccountType
  <2> QED BY <1>18, <2>2 DEF EndIO
<1>19. CASE Stat(t)
  <2>1. AccountedSectors(t) \in Nat BY SizeAssumption DEF TypeThreads, AccountedSectors
  <2>2. Account(nvm_stat, rw[t], AccountedSectors(t)) \in Stats BY <2>1, AccountType
  <2>3. NoBuf \in [0..(MaxCount - 1) -> Submitters \cup {Blank}] BY DEF NoBuf
  <2> QED BY <1>19, <2>2, <2>3 DEF Stat
<1> QED BY <1>1, <1>2, <1>3, <1>4, <1>5, <1>6, <1>7, <1>8, <1>9, <1>10, <1>11, <1>12, <1>13, <1>14, <1>15, <1>16, <1>17, <1>18, <1>19 DEF ThreadStep, Step

\* syncer_lock changes hands only with the thread that enters or leaves.
LEMMA LockStep ==
    ASSUME NEW t \in Submitters, ThreadStep(t), TypeThreads, LockInv
    PROVE  LockInv'
<1> USE DEF TypeThreads, Go, LockInv, Holding
<1>1. CASE Submit(t) BY <1>1, NameAssumption DEF Submit
<1>2. CASE Accept(t) BY <1>2, NameAssumption DEF Accept
<1>3. CASE Exceed(t) BY <1>3, NameAssumption DEF Exceed
<1>4. CASE Segment(t) BY <1>4, NameAssumption DEF Segment
<1>5. CASE NoSegment(t) BY <1>5, NameAssumption DEF NoSegment
<1>6. CASE HelperLock(t) BY <1>6, NameAssumption DEF HelperLock, LockFree
<1>7. CASE InfoLoad(t) BY <1>7, NameAssumption DEF InfoLoad
<1>8. CASE InfoStore(t) BY <1>8, NameAssumption DEF InfoStore
<1>9. CASE InfoRefused(t) BY <1>9, NameAssumption DEF InfoRefused
<1>10. CASE InfoDone(t) BY <1>10, NameAssumption DEF InfoDone
<1>11. CASE BitIsSet(t) BY <1>11, NameAssumption DEF BitIsSet
<1>12. CASE SetBit(t) BY <1>12, NameAssumption DEF SetBit
<1>13. CASE MapSector(t) BY <1>13, NameAssumption DEF MapSector
<1>14. CASE HelperUnlock(t) BY <1>14, NameAssumption DEF HelperUnlock, DropLock, SegEnd
<1>15. CASE CopyFromNvm(t) BY <1>15, NameAssumption DEF CopyFromNvm
<1>16. CASE CopyToNvm(t) BY <1>16, NameAssumption DEF CopyToNvm
<1>17. CASE SegmentDone(t) BY <1>17, NameAssumption DEF SegmentDone
<1>18. CASE EndIO(t) BY <1>18, NameAssumption DEF EndIO
<1>19. CASE Stat(t) BY <1>19, NameAssumption DEF Stat
<1> QED BY <1>1, <1>2, <1>3, <1>4, <1>5, <1>6, <1>7, <1>8, <1>9, <1>10, <1>11, <1>12, <1>13, <1>14, <1>15, <1>16, <1>17, <1>18, <1>19 DEF ThreadStep, Step

\* The walk of a thread stays inside its bio, and the bio inside the device.
LEMMA OwnRange ==
    ASSUME NEW t \in Submitters, ThreadStep(t), TypeThreads, RangeOf(t)
    PROVE  RangeOf(t)'
<1> USE DEF TypeThreads, Go, bio, RangeOf, InSegment, Holding, SegEnd
<1>1. CASE Submit(t) BY <1>1, SizeAssumption DEF Submit
<1>2. CASE Accept(t) BY <1>2, SizeAssumption DEF Accept, Fits
<1>3. CASE Exceed(t) BY <1>3, SizeAssumption DEF Exceed, Fits
<1>4. CASE Segment(t) BY <1>4, SizeAssumption DEF Segment
<1>5. CASE NoSegment(t) BY <1>5, SizeAssumption DEF NoSegment
<1>6. CASE HelperLock(t) BY <1>6, SizeAssumption DEF HelperLock
<1>7. CASE InfoLoad(t) BY <1>7, SizeAssumption DEF InfoLoad
<1>8. CASE InfoStore(t) BY <1>8, SizeAssumption DEF InfoStore
<1>9. CASE InfoRefused(t) BY <1>9, SizeAssumption DEF InfoRefused
<1>10. CASE InfoDone(t) BY <1>10, SizeAssumption DEF InfoDone
<1>11. CASE BitIsSet(t) BY <1>11, SizeAssumption DEF BitIsSet
<1>12. CASE SetBit(t) BY <1>12, SizeAssumption DEF SetBit
<1>13. CASE MapSector(t) BY <1>13, SizeAssumption DEF MapSector
<1>14. CASE HelperUnlock(t) BY <1>14, SizeAssumption DEF HelperUnlock
<1>15. CASE CopyFromNvm(t) BY <1>15, SizeAssumption DEF CopyFromNvm
<1>16. CASE CopyToNvm(t) BY <1>16, SizeAssumption DEF CopyToNvm
<1>17. CASE SegmentDone(t) BY <1>17, SizeAssumption DEF SegmentDone
<1>18. CASE EndIO(t) BY <1>18, SizeAssumption DEF EndIO
<1>19. CASE Stat(t) BY <1>19, SizeAssumption DEF Stat
<1> QED BY <1>1, <1>2, <1>3, <1>4, <1>5, <1>6, <1>7, <1>8, <1>9, <1>10, <1>11, <1>12, <1>13, <1>14, <1>15, <1>16, <1>17, <1>18, <1>19 DEF ThreadStep, Step

-----------------------------------------------------------------------------
(* The tables. *)

\* Inside write_helper a thread holds the lock, so there is one such thread.
LEMMA OneHolder ==
    ASSUME LockInv, NEW t \in Submitters, NEW u \in Submitters,
           pc[t] \in Holding, pc[u] \in Holding
    PROVE  u = t
BY DEF LockInv

\* A thread at "map" can only map; at "bit" it holds the lock and is inside the bitmap.
LEMMA MapOnly ==
    ASSUME NEW t \in Submitters, ThreadStep(t), pc[t] = "map"
    PROVE  MapSector(t)
BY DEF ThreadStep, Step, Go, Submit, Accept, Exceed, Segment, NoSegment, HelperLock, InfoLoad, InfoStore, InfoRefused, InfoDone,
       BitIsSet, SetBit, MapSector, HelperUnlock, CopyFromNvm, CopyToNvm, SegmentDone, EndIO, Stat

\* The bits and mappings that are set stay set.
LEMMA MappedStays ==
    ASSUME NEW t \in Submitters, ThreadStep(t), TypeTables, NEW s \in Sectors
    PROVE  /\ Mapped(s) => Mapped(s)'
           /\ s \in BitMap => s \in BitMap'
<1>1. CASE SetBit(t) BY <1>1 DEF SetBit, Mapped
<1>2. CASE MapSector(t) BY <1>2 DEF MapSector, Mapped, PbnOf, TypeTables
<1>3. CASE ~(SetBit(t) \/ MapSector(t)) BY <1>3, TablesSame DEF Mapped
<1> QED BY <1>1, <1>2, <1>3

\* A sector is marked but not mapped only between the two steps of one thread.
LEMMA HalfStep ==
    ASSUME NEW t \in Submitters, ThreadStep(t), TypeTables, TypeThreads, LockInv, RangeInv,
           HalfInv, MarkInv
    PROVE  HalfInv'
<1> SUFFICES ASSUME NEW s \in Sectors PROVE HalfOf(s)' BY DEF HalfInv
<1>0. HalfOf(s) BY DEF HalfInv
<1>1. CASE SetBit(t)
  <2>1. pc[t] = "bit" /\ pc'[t] = "map" /\ cur' = cur BY <1>1 DEF SetBit, Go, TypeThreads
  <2>2. ~Mapping(s) BY <2>1, OneHolder DEF Mapping, Holding
  <2>3. CASE s = cur[t]
    <3>1. MapTable'[s] = 0 BY <1>0, <1>1, <2>3 DEF SetBit, HalfOf, Mapped
    <3>2. Mapping(s)' BY <2>1, <2>3 DEF Mapping
    <3> QED BY <3>1, <3>2 DEF HalfOf
  <2>4. CASE s # cur[t] BY <1>0, <1>1, <2>2, <2>4 DEF SetBit, HalfOf, Mapped
  <2> QED BY <2>3, <2>4
<1>2. CASE MapSector(t)
  <2>1. pc[t] = "map" BY <1>2 DEF MapSector, Go
  <2>2. CASE s = cur[t]
    <3>1. s \in BitMap BY <2>1, <2>2 DEF MarkInv, MarkOf
    <3> QED BY <1>2, <2>2, <3>1 DEF MapSector, HalfOf, Mapped, PbnOf, TypeTables
  <2>3. CASE s # cur[t]
    <3>1. ~Mapping(s) BY <2>1, <2>3, OneHolder DEF Mapping, Holding
    <3> QED BY <1>0, <1>2, <2>3, <3>1 DEF MapSector, HalfOf, Mapped, TypeTables
  <2> QED BY <2>2, <2>3
<1>3. CASE ~(SetBit(t) \/ MapSector(t))
  <2>1. BitMap' = BitMap /\ MapTable' = MapTable BY <1>3, TablesSame
  <2>2. Mapping(s) => Mapping(s)'
    <3> SUFFICES ASSUME NEW u \in Submitters, pc[u] = "map", cur[u] = s PROVE Mapping(s)'
      BY DEF Mapping
    <3>1. u # t BY <1>3, MapOnly
    <3>2. Same(u) BY <3>1, OthersSame
    <3> QED BY <3>2 DEF Same, Mapping
  <2> QED BY <1>0, <2>1, <2>2 DEF HalfOf, Mapped
<1> QED BY <1>1, <1>2, <1>3


\* What a thread has passed is mapped: the lock keeps the sector it skips from being half done.
LEMMA OwnMarks ==
    ASSUME NEW t \in Submitters, ThreadStep(t), TypeTables, TypeThreads,
           LockInv, RangeInv, HalfInv, NEW s \in Sectors, MarkOf(t, s)
    PROVE  MarkOf(t, s)'
<1> USE DEF TypeThreads, Go, bio, MarkOf, SegEnd
<1>1. CASE Submit(t) BY <1>1 DEF Submit
<1>2. CASE Accept(t) BY <1>2 DEF Accept
<1>3. CASE Exceed(t) BY <1>3 DEF Exceed
<1>4. CASE Segment(t) BY <1>4 DEF Segment
<1>5. CASE NoSegment(t) BY <1>5 DEF NoSegment
<1>6. CASE HelperLock(t) BY <1>6 DEF HelperLock
<1>7. CASE InfoLoad(t) BY <1>7 DEF InfoLoad
<1>8. CASE InfoStore(t) BY <1>8 DEF InfoStore
<1>9. CASE InfoRefused(t) BY <1>9 DEF InfoRefused
<1>10. CASE InfoDone(t)
  <2>1. pc'[t] = "bit" /\ cur'[t] = sector'[t] /\ sector'[t] \in Nat BY <1>10 DEF InfoDone
  <2> QED BY <1>10, <2>1, SizeAssumption DEF InfoDone, Sectors
<1>11. CASE BitIsSet(t)
  <2>1. ~Mapping(cur[t])
    BY <1>11, OneHolder DEF BitIsSet, Mapping, Holding
  <2>2. s = cur[t] => Mapped(s) BY <1>11, <2>1 DEF BitIsSet, HalfInv, HalfOf, TypeTables
  <2>3. Mapped(s) => Mapped(s)' BY MappedStays
  <2> QED BY <1>11, <2>2, <2>3, SizeAssumption DEF BitIsSet, Sectors
<1>12. CASE SetBit(t)
  <2>1. Mapped(s) => Mapped(s)' BY MappedStays
  <2> QED BY <1>12, <2>1 DEF SetBit
<1>13. CASE MapSector(t)
  <2>1. Mapped(s) => Mapped(s)' BY MappedStays
  <2>2. s = cur[t] => Mapped(s)' BY <1>13 DEF MapSector, Mapped, PbnOf, TypeTables
  <2> QED BY <1>13, <2>1, <2>2, SizeAssumption DEF MapSector, Sectors
<1>14. CASE HelperUnlock(t)
  <2>1. Mapped(s) => Mapped(s)' BY MappedStays
  <2> QED BY <1>14, <2>1 DEF HelperUnlock
<1>15. CASE CopyFromNvm(t)
  <2>1. Mapped(s) => Mapped(s)' BY MappedStays
  <2> QED BY <1>15, <2>1 DEF CopyFromNvm
<1>16. CASE CopyToNvm(t)
  <2>1. Mapped(s) => Mapped(s)' BY MappedStays
  <2> QED BY <1>16, <2>1 DEF CopyToNvm
<1>17. CASE SegmentDone(t) BY <1>17 DEF SegmentDone
<1>18. CASE EndIO(t) BY <1>18 DEF EndIO
<1>19. CASE Stat(t) BY <1>19 DEF Stat
<1> QED BY <1>1, <1>2, <1>3, <1>4, <1>5, <1>6, <1>7, <1>8, <1>9, <1>10, <1>11, <1>12, <1>13, <1>14, <1>15, <1>16, <1>17, <1>18, <1>19 DEF ThreadStep, Step

\* No step of a thread unmaps what another has passed.
LEMMA MarkStep ==
    ASSUME NEW t \in Submitters, ThreadStep(t), TypeTables, TypeThreads, LockInv, RangeInv,
           HalfInv, MarkInv
    PROVE  MarkInv'
<1> SUFFICES ASSUME NEW u \in Submitters, NEW s \in Sectors PROVE MarkOf(u, s)' BY DEF MarkInv
<1>1. MarkOf(u, s) BY DEF MarkInv
<1>2. CASE u = t BY <1>1, <1>2, OwnMarks
<1>3. CASE u # t
  <2>1. Same(u) BY <1>3, OthersSame
  <2>2. (Mapped(s) => Mapped(s)') /\ (s \in BitMap => s \in BitMap') BY MappedStays
  <2> QED BY <1>1, <2>1, <2>2 DEF MarkOf, Same, SegEnd
<1> QED BY <1>2, <1>3

\* Only a copy stores, and write_helper has passed the sector it stores into.
LEMMA StoredStep ==
    ASSUME NEW t \in Submitters, ThreadStep(t), TypeTables, TypeThreads, RangeInv, MarkInv,
           StoredIsMapped
    PROVE  StoredIsMapped'
<1> SUFFICES ASSUME NEW s \in Sectors, data'[s] # Blank PROVE Mapped(s)'
  BY DEF StoredIsMapped, Mapped
<1>1. Mapped(s) => Mapped(s)' BY MappedStays
<1>2. CASE CopyToNvm(t) /\ s = cur[t]
  <2>1. sector[t] <= s /\ s < SegEnd(t) /\ pc[t] = "copy" /\ rw[t] = "WRITE"
    BY <1>2 DEF CopyToNvm, RangeInv, RangeOf
  <2> QED BY <1>1, <2>1 DEF MarkInv, MarkOf
<1>3. CASE CopyToNvm(t) /\ s # cur[t]
  BY <1>1, <1>3 DEF CopyToNvm, StoredIsMapped, Mapped, TypeTables
<1>4. CASE ~CopyToNvm(t) BY <1>1, <1>4, TablesSame DEF StoredIsMapped, Mapped
<1> QED BY <1>2, <1>3, <1>4

-----------------------------------------------------------------------------
(* The access counts. *)


\* A thread has charged a page once for each index it has passed.
LEMMA OwnCount ==
    ASSUME NEW t \in Submitters, ThreadStep(t), TypeTables, TypeThreads,
           RangeInv, NEW p \in InfoPages, CountOf(t, p),
           InfoTable[p] >= touched[p]
    PROVE  CountOf(t, p)'
<1> USE DEF TypeThreads, Go, bio, device, CountOf, Charged, SegEnd, LastPage
<1>1. CASE Submit(t) BY <1>1 DEF Submit
<1>2. CASE Accept(t) BY <1>2 DEF Accept
<1>3. CASE Exceed(t) BY <1>3 DEF Exceed
<1>4. CASE Segment(t) BY <1>4 DEF Segment
<1>5. CASE NoSegment(t) BY <1>5 DEF NoSegment
<1>6. CASE HelperLock(t)
  <2>1. pc'[t] = "info" /\ cur'[t] = PageOf(sector'[t]) /\ PageOf(sector'[t]) \in Nat
    BY <1>6, PageType DEF HelperLock
  <2> QED BY <1>6, <2>1, SizeAssumption DEF HelperLock, InfoPages
<1>7. CASE InfoLoad(t)
  BY <1>7, SizeAssumption DEF InfoLoad, TypeTables, InfoPages
<1>8. CASE InfoStore(t)
  <2>1. cur[t] \in InfoPages /\ reg[t] = InfoTable[cur[t]] /\ pc'[t] = "info" BY <1>8 DEF InfoStore
  <2>2. CASE p = cur[t]
    <3>1. InfoTable'[p] = InfoTable[p] + 1 /\ touched' = touched BY <1>8, <2>1, <2>2 DEF InfoStore, TypeTables
    <3> QED BY <2>1, <3>1 DEF TypeTables
  <2>3. CASE ~(p = cur[t])
    <3>1. InfoTable'[p] = InfoTable[p] /\ touched' = touched BY <1>8, <2>3 DEF InfoStore, TypeTables
    <3>2. Charged(t, p)' => Charged(t, p) BY <1>8, <2>1, <2>3 DEF InfoStore, InfoPages
    <3> QED BY <2>1, <3>1, <3>2
  <2> QED BY <2>2, <2>3
<1>9. CASE InfoRefused(t)
  BY <1>9, SizeAssumption DEF InfoRefused, InfoPages
<1>10. CASE InfoDone(t)
  <2>1. PageOf(SegEnd(t)) \in Nat BY PageType, SizeAssumption
  <2> QED BY <1>10, <2>1, SizeAssumption DEF InfoDone, InfoPages
<1>11. CASE BitIsSet(t) BY <1>11 DEF BitIsSet
<1>12. CASE SetBit(t) BY <1>12 DEF SetBit
<1>13. CASE MapSector(t) BY <1>13 DEF MapSector
<1>14. CASE HelperUnlock(t)
  BY <1>14 DEF HelperUnlock
<1>15. CASE CopyFromNvm(t) BY <1>15 DEF CopyFromNvm
<1>16. CASE CopyToNvm(t) BY <1>16 DEF CopyToNvm
<1>17. CASE SegmentDone(t) BY <1>17 DEF SegmentDone
<1>18. CASE EndIO(t) BY <1>18 DEF EndIO
<1>19. CASE Stat(t) BY <1>19 DEF Stat
<1> QED BY <1>1, <1>2, <1>3, <1>4, <1>5, <1>6, <1>7, <1>8, <1>9, <1>10, <1>11, <1>12, <1>13, <1>14, <1>15, <1>16, <1>17, <1>18, <1>19 DEF ThreadStep, Step

\* No increment is lost: the register of the holder is the entry it charges.
LEMMA CountStep ==
    ASSUME NEW t \in Submitters, ThreadStep(t), TypeTables, TypeThreads, LockInv, RangeInv,
           CountInv, TouchedInv
    PROVE  CountInv'
<1> SUFFICES ASSUME NEW u \in Submitters, NEW p \in InfoPages PROVE CountOf(u, p)' BY DEF CountInv
<1>1. CountOf(u, p) /\ CountOf(t, p) BY DEF CountInv
<1>2. CASE u = t BY <1>1, <1>2, OwnCount DEF TouchedInv
<1>3. CASE u # t
  <2>1. Same(u) BY <1>3, OthersSame
  <2>2. CASE pc[u] \in Holding
    <3>1. ~InfoStore(t) /\ ~HelperUnlock(t)
      BY <1>3, <2>2, OneHolder DEF InfoStore, HelperUnlock, Go, Holding
    <3>2. InfoTable' = InfoTable /\ touched' = touched BY <3>1, TablesSame
    <3> QED BY <1>1, <2>1, <3>2 DEF CountOf, Charged, Same, SegEnd
  <2>3. CASE pc[u] \notin Holding BY <2>1, <2>3 DEF CountOf, Charged, Same, Holding
  <2> QED BY <2>2, <2>3
<1> QED BY <1>2, <1>3

\* A segment is added to touched after its pages have been charged.
LEMMA TouchedStep ==
    ASSUME NEW t \in Submitters, ThreadStep(t), TypeTables, TypeThreads, LockInv, RangeInv,
           CountInv, TouchedInv
    PROVE  TouchedInv'
<1> SUFFICES ASSUME NEW p \in InfoPages PROVE InfoTable'[p] >= touched'[p] BY DEF TouchedInv
<1>0. InfoTable[p] >= touched[p] /\ InfoTable[p] \in Nat /\ touched[p] \in Nat
  BY DEF TouchedInv, TypeTables
<1>1. CASE InfoStore(t)
  <2>1. cur[t] \in InfoPages /\ reg[t] = InfoTable[cur[t]] BY <1>1 DEF InfoStore, Go, CountInv, CountOf
  <2>2. touched' = touched BY <1>1 DEF InfoStore
  <2>3. InfoTable'[p] = InfoTable[p] \/ InfoTable'[p] = InfoTable[p] + 1
    BY <1>1, <2>1 DEF InfoStore, TypeTables
  <2> QED BY <1>0, <2>2, <2>3
<1>2. CASE HelperUnlock(t)
  <2>1. InfoTable' = InfoTable BY <1>2 DEF HelperUnlock, device
  <2>2. CASE p \in PageOf(sector[t])..PageOf(SegEnd(t) - 1)
    <3>1. pc[t] = "bit" /\ cur[t] = SegEnd(t) BY <1>2 DEF HelperUnlock, Go
    <3>2. SegEnd(t) - 1 \in Nat /\ sector[t] \in Nat /\ SegEnd(t) \in Nat
      BY <3>1, SizeAssumption DEF SegEnd, TypeThreads, RangeInv, RangeOf, InSegment, Holding
    <3>3. PageOf(SegEnd(t) - 1) <= PageOf(SegEnd(t)) BY <3>2, PageGrows
    <3>4. /\ PageOf(SegEnd(t) - 1) \in Nat /\ PageOf(SegEnd(t)) \in Nat
          /\ PageOf(sector[t]) \in Nat BY <3>2, PageType
    <3>5. Charged(t, p) BY <2>2, <3>1, <3>3, <3>4 DEF Charged
    <3>6. InfoTable[p] >= touched[p] + 1 BY <3>5 DEF CountInv, CountOf
    <3>7. touched'[p] = touched[p] + 1 BY <1>2, <2>2 DEF HelperUnlock
    <3> QED BY <2>1, <3>6, <3>7
  <2>3. CASE p \notin PageOf(sector[t])..PageOf(SegEnd(t) - 1)
    BY <1>0, <1>2, <2>1, <2>3 DEF HelperUnlock
  <2> QED BY <2>2, <2>3
<1>3. CASE ~InfoStore(t) /\ ~HelperUnlock(t) BY <1>0, <1>3, TablesSame
<1> QED BY <1>1, <1>2, <1>3

-----------------------------------------------------------------------------
(* The invariant and the theorems. *)

\* The range of each thread, from its own steps.
LEMMA RangeStep ==
    ASSUME NEW t \in Submitters, ThreadStep(t), TypeThreads, RangeInv
    PROVE  RangeInv'
<1> SUFFICES ASSUME NEW u \in Submitters PROVE RangeOf(u)' BY DEF RangeInv
<1>1. RangeOf(u) BY DEF RangeInv
<1>2. CASE u = t BY <1>1, <1>2, OwnRange
<1>3. CASE u # t
  <2>1. Same(u) BY <1>3, OthersSame
  <2> QED BY <1>1, <2>1 DEF RangeOf, Same, SegEnd
<1> QED BY <1>2, <1>3

\* Whatever leaves the threads and the tables alone, and moves the lock only from and to
\* the syncer, preserves the invariant.
LEMMA SyncerStep ==
    ASSUME IInv, UNCHANGED <<device, nvm_stat, pc, bio, sector, left, seg, cur, reg, buf, issued,
                             served, touched>>,
           syncer_lock' = syncer_lock \/ {syncer_lock, syncer_lock'} = {SYNCER, Nobody}
    PROVE  IInv'
<1> USE DEF IInv, device, bio
<1>1. TypeOK' BY DEF TypeOK, TypeTables, TypeStats, TypeThreads
<1>2. LockInv' BY NameAssumption DEF LockInv
<1>3. RangeInv' BY DEF RangeInv, RangeOf, SegEnd
<1>4. HalfInv' BY DEF HalfInv, HalfOf, Mapped, Mapping
<1>5. MarkInv' BY DEF MarkInv, MarkOf, Mapped, SegEnd
<1>6. StoredIsMapped' BY DEF StoredIsMapped
<1>7. CountInv' /\ TouchedInv' BY DEF CountInv, CountOf, Charged, SegEnd, TouchedInv
<1> QED BY <1>1, <1>2, <1>3, <1>4, <1>5, <1>6, <1>7

\* The invariant is inductive.
LEMMA Invariance == Spec => []IInv
<1>1. IInv /\ [Next]_vars => IInv'
  <2> SUFFICES ASSUME IInv, [Next]_vars PROVE IInv' OBVIOUS
  <2>1. ASSUME NEW t \in Submitters, ThreadStep(t) PROVE IInv'
    <3> USE <2>1 DEF IInv, TypeOK
    <3>1. TypeThreads' BY ThreadTypes
    <3>2. TypeTables' BY TableTypes
    <3>3. TypeStats' BY StatTypes
    <3>4. LockInv' BY LockStep
    <3>5. RangeInv' BY RangeStep
    <3>6. HalfInv' BY HalfStep
    <3>7. MarkInv' BY MarkStep
    <3>8. StoredIsMapped' BY StoredStep
    <3>9. CountInv' BY CountStep
    <3>10. TouchedInv' BY TouchedStep
    <3> QED BY <3>1, <3>2, <3>3, <3>4, <3>5, <3>6, <3>7, <3>8, <3>9, <3>10
  <2>2. CASE SyncerLock BY <2>2, SyncerStep DEF SyncerLock, LockFree
  <2>3. CASE SyncerUnlock BY <2>3, SyncerStep DEF SyncerUnlock
  <2>4. CASE UNCHANGED vars BY <2>4, SyncerStep DEF vars
  <2> QED BY <2>1, <2>2, <2>3, <2>4 DEF Next, ThreadStep
<1> QED BY <1>1, Initially, PTL DEF Spec

\* Every variable of the request path keeps its type, for every number of threads, every
\* capacity and every page size.
THEOREM NvmTypeCorrect == Spec => []TypeOK
<1>1. IInv => TypeOK BY DEF IInv
<1> QED BY <1>1, Invariance, PTL

\* A sector that holds data has been marked in the bitmap and mapped by write_helper.
THEOREM NvmStoredIsMapped == Spec => []StoredIsMapped
<1>1. IInv => StoredIsMapped BY DEF IInv
<1> QED BY <1>1, Invariance, PTL

\* Whoever takes syncer_lock finds the bitmap and the mapping table in agreement, and the
\* mapping one to one.
THEOREM NvmTablesAgree == Spec => []TablesAgree
<1>1. IInv => TablesAgree
  <2> SUFFICES ASSUME IInv, TablesQuiet
               PROVE  \A s \in Sectors : Mapped(s) \/ (MapTable[s] = 0 /\ s \notin BitMap)
    BY SizeAssumption DEF TablesAgree, Mapped, Sectors
  <2> TAKE s \in Sectors
  <2>1. ~Mapping(s) BY NameAssumption DEF IInv, TablesQuiet, LockInv, Mapping, Holding
  <2> QED BY <2>1 DEF IInv, HalfInv, HalfOf
<1> QED BY <1>1, Invariance, PTL

\* The access count of a page is never less than the write segments that touched it.
THEOREM NvmAccessesCounted == Spec => []AccessesCounted
<1>1. IInv => AccessesCounted BY DEF IInv, TouchedInv, AccessesCounted
<1> QED BY <1>1, Invariance, PTL

-----------------------------------------------------------------------------
(* NvmRequest implements RamDisk when bios fit.                            *)

BiosFit == \A s \in Starts : s + MaxCount <= CAPACITY

\* A bio fits, goes where it was directed and is whole before it ends.
BioOf(t) ==
    /\ pc[t] = "idle" => buf[t] = NoBuf
    /\ pc[t] = "check" => sector[t] + left[t] <= CAPACITY
    /\ pc[t] \notin {"idle", "check"} => rw[t] = dir[t]
    /\ pc[t] \in {"endio", "stat"} => left[t] = 0
BioInv == \A t \in Submitters : BioOf(t)

\* A thread's step changes nothing of another thread's bio.
LEMMA OthersBio ==
    ASSUME NEW t \in Submitters, ThreadStep(t), NEW u \in Submitters, u # t, TypeThreads, TypeStats
    PROVE  dir'[u] = dir[u] /\ num_sectors'[u] = num_sectors[u] /\ buf'[u] = buf[u]
<1> USE DEF TypeThreads, TypeStats, bio
<1>1. CASE Submit(t) BY <1>1 DEF Submit
<1>2. CASE Accept(t) BY <1>2 DEF Accept
<1>3. CASE Exceed(t) BY <1>3 DEF Exceed
<1>4. CASE Segment(t) BY <1>4 DEF Segment
<1>5. CASE NoSegment(t) BY <1>5 DEF NoSegment
<1>6. CASE HelperLock(t) BY <1>6 DEF HelperLock
<1>7. CASE InfoLoad(t) BY <1>7 DEF InfoLoad
<1>8. CASE InfoStore(t) BY <1>8 DEF InfoStore
<1>9. CASE InfoRefused(t) BY <1>9 DEF InfoRefused
<1>10. CASE InfoDone(t) BY <1>10 DEF InfoDone
<1>11. CASE BitIsSet(t) BY <1>11 DEF BitIsSet
<1>12. CASE SetBit(t) BY <1>12 DEF SetBit
<1>13. CASE MapSector(t) BY <1>13 DEF MapSector
<1>14. CASE HelperUnlock(t) BY <1>14 DEF HelperUnlock
<1>15. CASE CopyFromNvm(t) BY <1>15 DEF CopyFromNvm
<1>16. CASE CopyToNvm(t) BY <1>16 DEF CopyToNvm
<1>17. CASE SegmentDone(t) BY <1>17 DEF SegmentDone
<1>18. CASE EndIO(t) BY <1>18 DEF EndIO
<1>19. CASE Stat(t) BY <1>19 DEF Stat
<1> QED BY <1>1, <1>2, <1>3, <1>4, <1>5, <1>6, <1>7, <1>8, <1>9, <1>10, <1>11, <1>12, <1>13, <1>14, <1>15, <1>16, <1>17, <1>18, <1>19 DEF ThreadStep, Step

LEMMA OwnBio ==
    ASSUME BiosFit, NEW t \in Submitters, ThreadStep(t), TypeThreads, TypeStats, BioOf(t)
    PROVE  BioOf(t)'
<1> USE DEF TypeThreads, TypeStats, Go, bio, BioOf, BiosFit
<1>1. CASE Submit(t) BY <1>1, SizeAssumption DEF Submit
<1>2. CASE Accept(t) BY <1>2, SizeAssumption DEF Accept, Fits
<1>3. CASE Exceed(t) BY <1>3, SizeAssumption DEF Exceed, Fits
<1>4. CASE Segment(t) BY <1>4, SizeAssumption DEF Segment
<1>5. CASE NoSegment(t) BY <1>5, SizeAssumption DEF NoSegment
<1>6. CASE HelperLock(t) BY <1>6, SizeAssumption DEF HelperLock
<1>7. CASE InfoLoad(t) BY <1>7, SizeAssumption DEF InfoLoad
<1>8. CASE InfoStore(t) BY <1>8, SizeAssumption DEF InfoStore
<1>9. CASE InfoRefused(t) BY <1>9, SizeAssumption DEF InfoRefused
<1>10. CASE InfoDone(t) BY <1>10, SizeAssumption DEF InfoDone
<1>11. CASE BitIsSet(t) BY <1>11, SizeAssumption DEF BitIsSet
<1>12. CASE SetBit(t) BY <1>12, SizeAssumption DEF SetBit
<1>13. CASE MapSector(t) BY <1>13, SizeAssumption DEF MapSector
<1>14. CASE HelperUnlock(t) BY <1>14, SizeAssumption DEF HelperUnlock
<1>15. CASE CopyFromNvm(t) BY <1>15, SizeAssumption DEF CopyFromNvm
<1>16. CASE CopyToNvm(t) BY <1>16, SizeAssumption DEF CopyToNvm
<1>17. CASE SegmentDone(t) BY <1>17, SizeAssumption DEF SegmentDone
<1>18. CASE EndIO(t) BY <1>18, SizeAssumption DEF EndIO
<1>19. CASE Stat(t) BY <1>19, SizeAssumption DEF Stat
<1> QED BY <1>1, <1>2, <1>3, <1>4, <1>5, <1>6, <1>7, <1>8, <1>9, <1>10, <1>11, <1>12, <1>13, <1>14, <1>15, <1>16, <1>17, <1>18, <1>19 DEF ThreadStep, Step

LEMMA BioStep ==
    ASSUME BiosFit, NEW t \in Submitters, ThreadStep(t), TypeThreads, TypeStats, BioInv
    PROVE  BioInv'
<1> SUFFICES ASSUME NEW u \in Submitters PROVE BioOf(u)' BY DEF BioInv
<1>1. BioOf(u) BY DEF BioInv
<1>2. CASE u = t BY <1>1, <1>2, OwnBio
<1>3. CASE u # t
  <2>1. Same(u) /\ dir'[u] = dir[u] /\ buf'[u] = buf[u] BY <1>3, OthersSame, OthersBio
  <2> QED BY <1>1, <2>1 DEF BioOf, Same, NoBuf
<1> QED BY <1>2, <1>3

\* Only the request of the thread that steps can change.
LEMMA OneRequest ==
    ASSUME NEW t \in Submitters, ThreadStep(t), TypeThreads, TypeStats
    PROVE  Requested' = [Requested EXCEPT ![t] = RequestOf(t)']
<1>1. ASSUME NEW u \in Submitters, u # t PROVE RequestOf(u)' = RequestOf(u)
  <2>1. Same(u) /\ dir'[u] = dir[u] /\ num_sectors'[u] = num_sectors[u] /\ buf'[u] = buf[u]
    BY <1>1, OthersSame, OthersBio
  <2> QED BY <2>1 DEF Same, RequestOf, StageOf, FromOf, EndOf
<1> HIDE DEF RequestOf
<1> QED BY <1>1 DEF Requested

-----------------------------------------------------------------------------
(* What each step is for the abstract disk. *)

LEMMA DiskInit == Init => Disk!Init
<1> SUFFICES ASSUME Init PROVE Disk!Init OBVIOUS
<1>1. data \in [Sectors -> Submitters \cup {Blank}] BY DEF Init
<1>2. \A t \in Submitters : pc[t] = "idle" BY DEF Init
<1> QED BY <1>1, <1>2 DEF Disk!Init, Disk!Idle, Requested, RequestOf, StageOf, FromOf, EndOf

\* The form of a request in progress.
LEMMA BusyForm ==
    ASSUME NEW t \in Submitters
    PROVE  /\ pc[t] # "idle" =>
                RequestOf(t) = [stage |-> StageOf(t),
                                req |-> [rw |-> dir[t], first |-> EndOf(t) - num_sectors[t],
                                         count |-> num_sectors[t], data |-> t],
                                left |-> FromOf(t)..(EndOf(t) - 1), got |-> buf[t]]
           /\ pc'[t] # "idle" =>
                RequestOf(t)' = [stage |-> StageOf(t)',
                                 req |-> [rw |-> dir'[t], first |-> EndOf(t)' - num_sectors'[t],
                                          count |-> num_sectors'[t], data |-> t],
                                 left |-> FromOf(t)'..(EndOf(t)' - 1), got |-> buf'[t]]
BY Zenon DEF RequestOf

\* A step inside a bio that keeps its end and its next sector keeps its request.
LEMMA SameRequest ==
    ASSUME NEW t \in Submitters,
           pc[t] \notin {"idle", "stat"}, pc'[t] \notin {"idle", "stat"},
           UNCHANGED <<dir, num_sectors, buf>>, EndOf(t)' = EndOf(t), FromOf(t)' = FromOf(t)
    PROVE  RequestOf(t)' = RequestOf(t)
<1>1. StageOf(t)' = StageOf(t) BY DEF StageOf
<1>2. pc[t] # "idle" /\ pc'[t] # "idle" OBVIOUS
<1> HIDE DEF StageOf, EndOf, FromOf
<1> QED BY <1>1, <1>2, BusyForm

LEMMA SubmitMaps ==
    ASSUME NEW t \in Submitters, Submit(t), TypeThreads, TypeStats, BioOf(t)
    PROVE  Disk!Submit(t)
<1>1. PICK d \in {"READ", "WRITE"}, s \in Starts, n \in 1..MaxCount :
          /\ dir' = [dir EXCEPT ![t] = d] /\ sector' = [sector EXCEPT ![t] = s]
          /\ num_sectors' = [num_sectors EXCEPT ![t] = n] /\ left' = [left EXCEPT ![t] = n]
  BY DEF Submit
<1>2. pc[t] = "idle" /\ pc' = [pc EXCEPT ![t] = "check"] /\ buf' = buf /\ data' = data
  BY DEF Submit, Go, device
<1>3. buf[t] = NoBuf BY <1>2 DEF BioOf
<1>4. s \in Nat /\ n \in Nat BY SizeAssumption
<1>5. /\ pc'[t] = "check" /\ dir'[t] = d /\ sector'[t] = s /\ num_sectors'[t] = n
      /\ left'[t] = n /\ buf'[t] = NoBuf
  BY <1>1, <1>2, <1>3, <1>4 DEF TypeThreads
<1> DEFINE q == [rw |-> d, first |-> s, count |-> n, data |-> t]
<1>6. q \in [rw : {"READ", "WRITE"}, first : Starts, count : 1..MaxCount, data : Submitters]
  OBVIOUS
<1>7. (s + n) - n = s BY <1>4
<1>8. RequestOf(t)' = [stage |-> "busy", req |-> q, left |-> Disk!Covered(q), got |-> NoBuf]
  <2>1. StageOf(t)' = "busy" /\ FromOf(t)' = s /\ EndOf(t)' = s + n
    BY <1>5 DEF StageOf, FromOf, EndOf
  <2>2. RequestOf(t)' = [stage |-> StageOf(t)',
                         req |-> [rw |-> dir'[t], first |-> EndOf(t)' - num_sectors'[t],
                                  count |-> num_sectors'[t], data |-> t],
                         left |-> FromOf(t)'..(EndOf(t)' - 1), got |-> buf'[t]]
    BY <1>5, BusyForm
  <2>3. EndOf(t)' - num_sectors'[t] = s BY <1>5, <1>7, <2>1
  <2>4. Disk!Covered(q) = s..((s + n) - 1)
    <3>1. q.first = s /\ q.count = n OBVIOUS
    <3>2. (s + (n - 1)) = (s + n) - 1 BY <1>4
    <3> HIDE DEF q
    <3> QED BY <3>1, <3>2 DEF Disk!Covered
  <2> QED BY <1>5, <2>1, <2>2, <2>3, <2>4
<1>9. Requested' = [Requested EXCEPT ![t] = RequestOf(t)'] BY OneRequest DEF ThreadStep
<1>10. Requested[t] = Disk!Idle BY <1>2 DEF Requested, RequestOf, StageOf, FromOf, EndOf, Disk!Idle
<1> HIDE DEF q
<1> QED BY <1>2, <1>6, <1>8, <1>9, <1>10 DEF Disk!Submit

\* A copied sector.
LEMMA CopyMaps ==
    ASSUME NEW t \in Submitters, CopyFromNvm(t) \/ CopyToNvm(t),
           TypeTables, TypeThreads, TypeStats, BioOf(t), RangeOf(t)
    PROVE  Disk!Transfer(t, cur[t])
<1> DEFINE s == cur[t]
           first == (sector[t] + left[t]) - num_sectors[t]
<1>1. /\ pc[t] = "copy" /\ pc' = pc /\ dir' = dir /\ num_sectors' = num_sectors
      /\ sector' = sector /\ left' = left /\ cur' = [cur EXCEPT ![t] = s + 1]
  BY DEF CopyFromNvm, CopyToNvm, bio
<1>2. s \in Nat /\ sector[t] \in Nat /\ left[t] \in Nat /\ num_sectors[t] \in Nat /\ cur'[t] = s + 1
  BY <1>1, SizeAssumption DEF TypeThreads
<1>3. s < SegEnd(t) /\ seg[t] \in Nat
  BY SizeAssumption DEF CopyFromNvm, CopyToNvm, TypeThreads
<1>4. /\ sector[t] <= s /\ s <= sector[t] + left[t] - 1 /\ sector[t] + left[t] <= CAPACITY
  BY <1>1, <1>2, <1>3 DEF RangeOf, InSegment, SegEnd
<1>5. s \in Sectors /\ first + num_sectors[t] - 1 \in Sectors
  BY <1>2, <1>4, SizeAssumption DEF Sectors
<1> DEFINE todo == s..((sector[t] + left[t]) - 1)
           rest == (s + 1)..((sector[t] + left[t]) - 1)
           r == [rw |-> dir[t], first |-> first, count |-> num_sectors[t], data |-> t]
<1>6. todo \ {s} = rest BY <1>2, <1>4
<1>7. s \in todo BY <1>2, <1>4
<1>8. /\ Requested[t] = [stage |-> "busy", req |-> r, left |-> todo, got |-> buf[t]]
      /\ RequestOf(t)' = [stage |-> "busy", req |-> r, left |-> rest, got |-> buf'[t]]
  <2>1. /\ StageOf(t) = "busy" /\ FromOf(t) = s /\ EndOf(t) = sector[t] + left[t]
        /\ StageOf(t)' = "busy" /\ FromOf(t)' = s + 1 /\ EndOf(t)' = sector[t] + left[t]
    BY <1>1, <1>2 DEF StageOf, FromOf, EndOf
  <2>2. pc[t] # "idle" /\ pc'[t] # "idle" BY <1>1
  <2>3. Requested[t] = RequestOf(t) BY DEF Requested
  <2>4. RequestOf(t) = [stage |-> "busy", req |-> r, left |-> todo, got |-> buf[t]] BY <2>1, <2>2, BusyForm
  <2>5. RequestOf(t)' = [stage |-> "busy", req |-> r, left |-> rest, got |-> buf'[t]]
    BY <1>1, <2>1, <2>2, BusyForm
  <2> QED BY <2>3, <2>4, <2>5
<1>9. Requested' = [Requested EXCEPT ![t] = RequestOf(t)'] BY OneRequest DEF ThreadStep, Step
<1>10. dir[t] = rw[t] BY <1>1 DEF BioOf
<1>11. /\ Requested[t].stage = "busy" /\ Requested[t].req.rw = rw[t]
       /\ Requested[t].req.first = first /\ Requested[t].req.count = num_sectors[t]
       /\ Requested[t].req.data = t /\ s \in Requested[t].left
  BY <1>7, <1>8, <1>10
<1> HIDE DEF first, todo, rest, r
<1>12. CASE CopyToNvm(t)
  <2>1. rw[t] = "WRITE" /\ data' = [data EXCEPT ![s] = t] /\ buf' = buf BY <1>12 DEF CopyToNvm
  <2>2. RequestOf(t)' = [Requested[t] EXCEPT !.left = @ \ {s}] BY <1>6, <1>8, <2>1
  <2>3. Requested' = [Requested EXCEPT ![t].left = @ \ {s}] BY <1>9, <2>2
  <2> QED BY <1>5, <1>11, <2>1, <2>3 DEF Disk!Transfer
<1>13. CASE CopyFromNvm(t)
  <2>1. rw[t] = "READ" /\ data' = data BY <1>13 DEF CopyFromNvm, device
  <2>2. Offset(t) = s - first BY <1>2 DEF Offset, first
  <2>3. buf'[t] = [buf[t] EXCEPT ![s - first] = data[s]]
    BY <1>13, <2>2 DEF CopyFromNvm, TypeStats
  <2> DEFINE got == [buf[t] EXCEPT ![s - first] = data[s]]
  <2>6. Requested[t].got = buf[t] BY <1>8
  <2>7. buf'[t] = got BY <2>3
  <2> HIDE DEF got
  <2>9. Requested[t].left \ {s} = rest BY <1>6, <1>8
  <2>10. RequestOf(t)' = [stage |-> "busy", req |-> r, left |-> rest, got |-> got]
    BY <1>8, <2>7
  <2>11. [Requested[t] EXCEPT !.left = rest, !.got = got]
           = [stage |-> "busy", req |-> r, left |-> rest, got |-> got]
    <3>1. PICK q : q = Requested[t] OBVIOUS
    <3>2. q = [stage |-> "busy", req |-> r, left |-> todo, got |-> buf[t]] BY <3>1, <1>8
    <3>3. [q EXCEPT !.left = rest] = [stage |-> "busy", req |-> r, left |-> rest, got |-> buf[t]]
      BY <3>2
    <3>4. ASSUME NEW p, p = [stage |-> "busy", req |-> r, left |-> rest, got |-> buf[t]]
          PROVE  [p EXCEPT !.got = got] = [stage |-> "busy", req |-> r, left |-> rest, got |-> got]
      BY <3>4
    <3>5. [q EXCEPT !.left = rest, !.got = got] = [[q EXCEPT !.left = rest] EXCEPT !.got = got]
      OBVIOUS
    <3> QED BY <3>1, <3>3, <3>4, <3>5
  <2>8. RequestOf(t)' = [Requested[t] EXCEPT !.left = @ \ {s}, !.got = got]
    BY <2>9, <2>10, <2>11
  <2>4. RequestOf(t)' = [Requested[t] EXCEPT !.left = @ \ {s},
                                            !.got = [@ EXCEPT ![s - first] = data[s]]]
    BY <2>6, <2>8 DEF got
  <2>5. Requested' = [Requested EXCEPT ![t].left = @ \ {s},
                                       ![t].got = [@ EXCEPT ![s - first] = data[s]]]
    BY <1>9, <2>4
  <2> QED BY <1>5, <1>11, <2>1, <2>5 DEF Disk!Transfer
<1> QED BY <1>12, <1>13

LEMMA EndMaps ==
    ASSUME NEW t \in Submitters, TypeThreads, TypeStats, BioOf(t)
    PROVE  /\ EndIO(t) => Disk!Succeed(t)
           /\ Stat(t) => Disk!Finish(t)
<1>1. ASSUME EndIO(t) PROVE Disk!Succeed(t)
  <2>1. /\ pc[t] = "endio" /\ pc' = [pc EXCEPT ![t] = "stat"] /\ data' = data
        /\ UNCHANGED <<dir, num_sectors, sector, left, cur, buf>>
    BY <1>1 DEF EndIO, Go, bio, device
  <2>2. left[t] = 0 /\ sector[t] \in Nat BY <2>1 DEF BioOf, TypeThreads
  <2>3. Requested[t].stage = "busy" /\ Requested[t].left = {}
    BY <2>1, <2>2 DEF Requested, RequestOf, StageOf, FromOf, EndOf
  <2> DEFINE r == [rw |-> dir[t], first |-> (sector[t] + left[t]) - num_sectors[t],
                   count |-> num_sectors[t], data |-> t]
             l == sector[t]..((sector[t] + left[t]) - 1)
  <2>6. /\ Requested[t] = [stage |-> "busy", req |-> r, left |-> l, got |-> buf[t]]
        /\ RequestOf(t)' = [stage |-> "ok", req |-> r, left |-> l, got |-> buf[t]]
    BY <2>1 DEF Requested, RequestOf, StageOf, FromOf, EndOf, TypeThreads
  <2> HIDE DEF r, l
  <2>4. RequestOf(t)' = [Requested[t] EXCEPT !.stage = "ok"]
    BY <2>6
  <2>5. Requested' = [Requested EXCEPT ![t] = RequestOf(t)'] BY <1>1, OneRequest DEF ThreadStep, Step
  <2> QED BY <2>1, <2>3, <2>4, <2>5 DEF Disk!Succeed
<1>2. ASSUME Stat(t) PROVE Disk!Finish(t)
  <2>1. pc[t] = "stat" /\ pc' = [pc EXCEPT ![t] = "idle"] /\ data' = data
    BY <1>2 DEF Stat, Go, device
  <2>2. Requested[t].stage = "ok" BY <2>1 DEF Requested, RequestOf, StageOf, FromOf, EndOf
  <2>3. RequestOf(t)' = Disk!Idle BY <2>1 DEF RequestOf, StageOf, FromOf, EndOf, TypeThreads, Disk!Idle
  <2>4. Requested' = [Requested EXCEPT ![t] = RequestOf(t)'] BY <1>2, OneRequest DEF ThreadStep, Step
  <2> QED BY <2>1, <2>2, <2>3, <2>4 DEF Disk!Finish
<1> QED BY <1>1, <1>2

\* The walk over the segments and write_helper are nothing to the disk.
Inner(t) == \/ Accept(t) \/ Segment(t) \/ NoSegment(t) \/ HelperLock(t) \/ InfoLoad(t)
            \/ InfoStore(t) \/ InfoRefused(t) \/ InfoDone(t) \/ BitIsSet(t) \/ SetBit(t)
            \/ MapSector(t) \/ HelperUnlock(t) \/ SegmentDone(t)

LEMMA InnerMaps ==
    ASSUME NEW t \in Submitters, Inner(t), TypeThreads, TypeStats, RangeOf(t)
    PROVE  data' = data /\ Requested' = Requested
<1> USE DEF Go, bio, device, TypeThreads
<1>1. data' = data
  BY DEF Inner, Accept, Segment, NoSegment, HelperLock, InfoLoad, InfoStore, InfoRefused, InfoDone,
         BitIsSet, SetBit, MapSector, HelperUnlock, SegmentDone
<1>2. /\ pc[t] \notin {"idle", "stat"} /\ pc'[t] \notin {"idle", "stat"}
      /\ UNCHANGED <<dir, num_sectors, buf>>
  BY DEF Inner, Accept, Segment, NoSegment, HelperLock, InfoLoad, InfoStore, InfoRefused, InfoDone,
         BitIsSet, SetBit, MapSector, HelperUnlock, SegmentDone
<1>3. /\ sector'[t] + left'[t] = sector[t] + left[t]
      /\ (IF pc'[t] = "copy" THEN cur'[t] ELSE sector'[t])
            = (IF pc[t] = "copy" THEN cur[t] ELSE sector[t])
  <2>1. CASE SegmentDone(t)
    <3>1. sector'[t] = sector[t] + seg[t] /\ left'[t] = left[t] - seg[t] /\ pc'[t] = "segment"
      BY <2>1 DEF SegmentDone, SegEnd
    <3>2. sector[t] \in Int /\ seg[t] \in Int /\ left[t] \in Int BY SizeAssumption
    <3> QED BY <2>1, <3>1, <3>2 DEF SegmentDone, SegEnd
  <2>2. CASE Segment(t) BY <2>2 DEF Segment
  <2>3. CASE HelperUnlock(t) BY <2>3 DEF HelperUnlock
  <2>4. CASE ~(SegmentDone(t) \/ Segment(t) \/ HelperUnlock(t))
    BY <2>4 DEF Inner, Accept, NoSegment, HelperLock, InfoLoad, InfoStore, InfoRefused, InfoDone,
                BitIsSet, SetBit, MapSector
  <2> QED BY <2>1, <2>2, <2>3, <2>4
<1>4. RequestOf(t)' = RequestOf(t) BY <1>2, <1>3, SameRequest DEF EndOf, FromOf
<1>5. Requested' = [Requested EXCEPT ![t] = RequestOf(t)']
  BY OneRequest DEF Inner, ThreadStep, Step
<1> QED BY <1>1, <1>4, <1>5 DEF Requested

\* Every step of the driver is a step of the disk or none.
LEMMA DiskStep ==
    ASSUME BiosFit, IInv, BioInv, [Next]_vars
    PROVE  [Disk!Next]_Disk!vars
<1> USE DEF IInv, TypeOK
<1>1. ASSUME NEW t \in Submitters, ThreadStep(t)
      PROVE  Disk!Next \/ (data' = data /\ Requested' = Requested)
  <2>1. BioOf(t) /\ RangeOf(t) BY DEF BioInv, RangeInv
  <2>2. ~Exceed(t) BY <2>1 DEF Exceed, Fits, Go, BioOf
  <2>3. CASE CopyFromNvm(t) \/ CopyToNvm(t)
    <3>1. Disk!Transfer(t, cur[t]) BY <2>1, <2>3, CopyMaps
    <3>2. cur[t] \in Sectors
      BY <2>1, <2>3, SizeAssumption
         DEF CopyFromNvm, CopyToNvm, RangeOf, InSegment, SegEnd, Sectors, TypeThreads
    <3> QED BY <3>1, <3>2 DEF Disk!Next
  <2>4. CASE Submit(t) \/ EndIO(t) \/ Stat(t)
    BY <2>1, <2>4, SubmitMaps, EndMaps DEF Disk!Next
  <2>5. CASE Inner(t) BY <2>1, <2>5, InnerMaps
  <2> QED BY <1>1, <2>2, <2>3, <2>4, <2>5 DEF ThreadStep, Step, Inner
<1>2. ASSUME SyncerLock \/ SyncerUnlock \/ UNCHANGED vars
      PROVE  data' = data /\ Requested' = Requested
  BY <1>2 DEF SyncerLock, SyncerUnlock, vars, device, bio, Requested, RequestOf, StageOf, FromOf, EndOf
<1>3. ASSUME data' = data /\ Requested' = Requested PROVE UNCHANGED Disk!vars
  BY <1>3 DEF Disk!vars
<1> QED BY <1>1, <1>2, <1>3 DEF Next, ThreadStep

\* When every bio that may be submitted fits, the driver is the disk that RamDisk
\* describes: sectors move one by one, inside the device, all before success is reported;
\* for any number of threads, any capacity and any cut into segments.
THEOREM DriverIsDisk == BiosFit /\ Spec => ImplementsDisk
<1>1. Init => BioInv BY DEF Init, BioInv, BioOf
<1>2. BiosFit => (Init /\ [][Next]_vars /\ []IInv => Disk!Spec)
  <2> SUFFICES ASSUME BiosFit PROVE Init /\ [][Next]_vars /\ []IInv => Disk!Spec
    OBVIOUS
  <2>1. IInv /\ BioInv /\ [Next]_vars => BioInv'
    <3> SUFFICES ASSUME IInv, BioInv, [Next]_vars PROVE BioInv' OBVIOUS
    <3>1. ASSUME NEW t \in Submitters, ThreadStep(t) PROVE BioInv'
      BY <3>1, BioStep DEF IInv, TypeOK
    <3>2. CASE SyncerLock \/ SyncerUnlock \/ UNCHANGED vars
      BY <3>2 DEF SyncerLock, SyncerUnlock, vars, bio, BioInv, BioOf
    <3> QED BY <3>1, <3>2 DEF Next, ThreadStep
  <2>2. IInv /\ BioInv /\ [Next]_vars => [Disk!Next]_Disk!vars BY DiskStep
  <2> QED BY <1>1, <2>1, <2>2, DiskInit, PTL DEF Disk!Spec
<1> QED BY Invariance, <1>2, PTL DEF Spec, ImplementsDisk
-----------------------------------------------------------------------------
(* The statistics.                                                         *)

\* What the requests between bio_endio and their statistics still have to add.
AtStat(d) == {t \in Submitters : pc[t] = "stat" /\ rw[t] = d}
SectorsAtStat(d) == {x \in Submitters \X (1..MaxCount) :
                        x[1] \in AtStat(d) /\ x[2] <= num_sectors[x[1]]}

RequestsOf(stat, d) == IF d = "READ" THEN stat.requests_read ELSE stat.requests_write
SectorsOf(stat, d) == IF d = "READ" THEN stat.sectors_read ELSE stat.sectors_write

Directions == {"READ", "WRITE"}
Owed(d) ==
    /\ IsFiniteSet(AtStat(d)) /\ IsFiniteSet(SectorsAtStat(d))
    /\ RequestsOf(served, d) = RequestsOf(nvm_stat, d) + Cardinality(AtStat(d))
    /\ SectorsOf(served, d) = SectorsOf(nvm_stat, d) + Cardinality(SectorsAtStat(d))
StatInv == \A d \in Directions : Owed(d)

\* A request counts in its own direction only.
LEMMA AccountCounts ==
    ASSUME NEW stat \in Stats, NEW d \in Directions, NEW n \in Nat, NEW e \in Directions
    PROVE  /\ RequestsOf(stat, e) \in Nat /\ SectorsOf(stat, e) \in Nat
           /\ RequestsOf(Account(stat, d, n), e) = RequestsOf(stat, e) + (IF d = e THEN 1 ELSE 0)
           /\ SectorsOf(Account(stat, d, n), e) = SectorsOf(stat, e) + (IF d = e THEN n ELSE 0)
<1>1. /\ stat.requests_read \in Nat /\ stat.sectors_read \in Nat
      /\ stat.requests_write \in Nat /\ stat.sectors_write \in Nat BY DEF Stats
<1>2. CASE d = "READ"
  <2>1. Account(stat, d, n) =
          [requests_read |-> stat.requests_read + 1, sectors_read |-> stat.sectors_read + n,
           requests_write |-> stat.requests_write, sectors_write |-> stat.sectors_write]
    BY <1>2 DEF Account, Stats
  <2> QED BY <1>1, <1>2, <2>1 DEF RequestsOf, SectorsOf, Directions
<1>3. CASE d # "READ"
  <2>1. Account(stat, d, n) =
          [requests_read |-> stat.requests_read, sectors_read |-> stat.sectors_read,
           requests_write |-> stat.requests_write + 1, sectors_write |-> stat.sectors_write + n]
    BY <1>3 DEF Account, Stats
  <2> QED BY <1>1, <1>3, <2>1 DEF RequestsOf, SectorsOf, Directions
<1> QED BY <1>2, <1>3

\* The sectors of one thread, beside those of the others.
LEMMA OneMore ==
    ASSUME NEW S, NEW t, NEW n \in Nat, IsFiniteSet(S), S \cap ({t} \X (1..n)) = {}
    PROVE  /\ IsFiniteSet(S \cup ({t} \X (1..n)))
           /\ Cardinality(S \cup ({t} \X (1..n))) = Cardinality(S) + n
<1> DEFINE T == {t} \X (1..n)
<1>1. IsFiniteSet({t}) /\ Cardinality({t}) = 1 BY FS_Singleton
<1>2. IsFiniteSet(1..n) /\ Cardinality(1..n) = n BY FS_Interval
<1>3. IsFiniteSet(T) /\ Cardinality(T) = Cardinality({t}) * Cardinality(1..n)
  BY <1>1, <1>2, FS_Product
<1>4. Cardinality(T) = n BY <1>1, <1>2, <1>3
<1> HIDE DEF T
<1>5. S \cap T = {} /\ Cardinality({}) = 0 BY FS_EmptySet DEF T
<1>6. /\ IsFiniteSet(S \cup T)
      /\ Cardinality(S \cup T) = Cardinality(S) + Cardinality(T) - Cardinality(S \cap T)
  BY <1>3, FS_Union
<1>7. Cardinality(S) \in Nat BY FS_CardinalityType
<1>8. Cardinality(S \cap T) = 0 BY <1>5, Zenon
<1>9. Cardinality(S \cup T) = Cardinality(S) + n BY <1>4, <1>6, <1>7, <1>8
<1> QED BY <1>6, <1>9 DEF T

\* A bio that ends is owed to the statistics of its direction.
LEMMA EndOwes ==
    ASSUME NEW t \in Submitters, EndIO(t), IInv, BioInv, StatInv, NEW d \in Directions
    PROVE  Owed(d)'
<1> DEFINE n == num_sectors[t]
<1>1. /\ pc[t] = "endio" /\ pc' = [pc EXCEPT ![t] = "stat"]
      /\ UNCHANGED <<nvm_stat, rw, num_sectors>> BY DEF EndIO, Go, bio
<1>2. left[t] = 0 /\ rw[t] = dir[t] /\ rw[t] \in Directions /\ n \in 0..MaxCount
      /\ served \in Stats /\ nvm_stat \in Stats /\ pc \in [Submitters -> PCs]
  BY <1>1 DEF BioInv, BioOf, IInv, TypeOK, TypeThreads, TypeStats, Directions
<1>3. served' = Account(served, rw[t], n) BY <1>2 DEF EndIO
<1>4. Owed(d) /\ n \in Nat BY <1>2, SizeAssumption DEF StatInv
<1> HIDE DEF n
<1>5. CASE rw[t] = d
  <2>1. AtStat(d)' = AtStat(d) \cup {t} BY <1>1, <1>2, <1>5 DEF AtStat
  <2>2. t \notin AtStat(d) BY <1>1 DEF AtStat
  <2>3. IsFiniteSet(AtStat(d)') /\ Cardinality(AtStat(d)') = Cardinality(AtStat(d)) + 1
    BY <2>1, <2>2, <1>4, FS_AddElement DEF Owed
  <2>4. SectorsAtStat(d)' = SectorsAtStat(d) \cup ({t} \X (1..n))
    <3>1. ASSUME NEW u \in Submitters, NEW k \in 1..MaxCount
          PROVE  <<u, k>> \in SectorsAtStat(d)'
                   <=> <<u, k>> \in SectorsAtStat(d) \cup ({t} \X (1..n))
      <4>1. <<u, k>> \in SectorsAtStat(d) <=> u \in AtStat(d) /\ k <= num_sectors[u]
        BY DEF SectorsAtStat
      <4>2. <<u, k>> \in SectorsAtStat(d)' <=> u \in AtStat(d)' /\ k <= num_sectors[u]
        BY <1>1 DEF SectorsAtStat
      <4>3. <<u, k>> \in {t} \X (1..n) <=> u = t /\ k <= n BY <1>4, SizeAssumption
      <4> QED BY <4>1, <4>2, <4>3, <2>1, <2>2 DEF n
    <3>2. SectorsAtStat(d)' \subseteq Submitters \X (1..MaxCount) BY DEF SectorsAtStat
    <3>3. SectorsAtStat(d) \cup ({t} \X (1..n)) \subseteq Submitters \X (1..MaxCount)
      BY <1>2, SizeAssumption DEF SectorsAtStat
    <3> QED BY <3>1, <3>2, <3>3
  <2>5. SectorsAtStat(d) \cap ({t} \X (1..n)) = {} BY <2>2 DEF SectorsAtStat
  <2>6. /\ IsFiniteSet(SectorsAtStat(d)')
        /\ Cardinality(SectorsAtStat(d)') = Cardinality(SectorsAtStat(d)) + n
    <3>1. IsFiniteSet(SectorsAtStat(d)) BY <1>4 DEF Owed
    <3>2. /\ IsFiniteSet(SectorsAtStat(d) \cup ({t} \X (1..n)))
          /\ Cardinality(SectorsAtStat(d) \cup ({t} \X (1..n))) = Cardinality(SectorsAtStat(d)) + n
      BY <3>1, <2>5, <1>4, OneMore, Zenon
    <3> QED BY <3>2, <2>4, Zenon
  <2>7. /\ RequestsOf(served', d) = RequestsOf(served, d) + 1
        /\ SectorsOf(served', d) = SectorsOf(served, d) + n
    BY <1>2, <1>3, <1>4, <1>5, AccountCounts
  <2>8. /\ Cardinality(AtStat(d)) \in Nat /\ Cardinality(SectorsAtStat(d)) \in Nat
        /\ RequestsOf(nvm_stat, d) \in Nat /\ SectorsOf(nvm_stat, d) \in Nat
    BY <1>2, <1>4, FS_CardinalityType, AccountCounts DEF Owed
  <2>9. /\ RequestsOf(served', d) = RequestsOf(nvm_stat, d) + Cardinality(AtStat(d)')
        /\ SectorsOf(served', d) = SectorsOf(nvm_stat, d) + Cardinality(SectorsAtStat(d)')
    BY <2>3, <2>6, <2>7, <2>8, <1>4 DEF Owed
  <2> QED BY <2>3, <2>6, <2>9, <1>1 DEF Owed, RequestsOf, SectorsOf
<1>6. CASE rw[t] # d
  <2>1. AtStat(d)' = AtStat(d) BY <1>1, <1>2, <1>6 DEF AtStat
  <2>2. SectorsAtStat(d)' = SectorsAtStat(d) BY <2>1, <1>1 DEF SectorsAtStat
  <2>3. /\ RequestsOf(served', d) = RequestsOf(served, d)
        /\ SectorsOf(served', d) = SectorsOf(served, d)
    BY <1>2, <1>3, <1>4, <1>6, AccountCounts
  <2> QED BY <2>1, <2>2, <2>3, <1>1, <1>4 DEF Owed, RequestsOf, SectorsOf
<1> QED BY <1>5, <1>6

\* The statistics of a request are what was owed for it.
LEMMA StatPays ==
    ASSUME NEW t \in Submitters, Stat(t), IInv, StatInv, NEW d \in Directions
    PROVE  Owed(d)'
<1> DEFINE n == num_sectors[t]
<1>1. /\ pc[t] = "stat" /\ pc' = [pc EXCEPT ![t] = "idle"] /\ served' = served
      /\ rw' = [rw EXCEPT ![t] = "READ"] /\ num_sectors' = [num_sectors EXCEPT ![t] = 0]
      /\ nvm_stat' = Account(nvm_stat, rw[t], n) BY DEF Stat, Go, AccountedSectors
<1>2. rw[t] \in Directions /\ n \in 0..MaxCount
      /\ served \in Stats /\ nvm_stat \in Stats /\ pc \in [Submitters -> PCs]
      /\ rw \in [Submitters -> {"READ", "WRITE"}] /\ num_sectors \in [Submitters -> 0..MaxCount]
  BY DEF IInv, TypeOK, TypeThreads, TypeStats, Directions
<1>3. Owed(d) /\ n \in Nat BY <1>2, SizeAssumption DEF StatInv
<1> HIDE DEF n
<1>4. AtStat(d)' = AtStat(d) \ {t} BY <1>1, <1>2 DEF AtStat
<1>5. SectorsAtStat(d)' = {x \in SectorsAtStat(d) : x[1] # t}
  BY <1>1, <1>2, <1>4 DEF SectorsAtStat
<1>6. CASE rw[t] = d
  <2>1. t \in AtStat(d) BY <1>1, <1>6 DEF AtStat
  <2>2. IsFiniteSet(AtStat(d)') /\ Cardinality(AtStat(d)') = Cardinality(AtStat(d)) - 1
    BY <2>1, <1>3, <1>4, FS_RemoveElement DEF Owed
  <2>3. SectorsAtStat(d) = SectorsAtStat(d)' \cup ({t} \X (1..n))
    <3>1. ASSUME NEW u \in Submitters, NEW k \in 1..MaxCount
          PROVE  <<u, k>> \in SectorsAtStat(d)
                   <=> <<u, k>> \in SectorsAtStat(d)' \cup ({t} \X (1..n))
      <4>1. <<u, k>> \in SectorsAtStat(d) <=> u \in AtStat(d) /\ k <= num_sectors[u]
        BY DEF SectorsAtStat
      <4>2. <<u, k>> \in SectorsAtStat(d)' <=> <<u, k>> \in SectorsAtStat(d) /\ u # t
        BY <1>5
      <4>3. <<u, k>> \in {t} \X (1..n) <=> u = t /\ k <= n BY <1>3, SizeAssumption
      <4> QED BY <4>1, <4>2, <4>3, <2>1 DEF n
    <3>2. SectorsAtStat(d) \subseteq Submitters \X (1..MaxCount) BY DEF SectorsAtStat
    <3>3. SectorsAtStat(d)' \cup ({t} \X (1..n)) \subseteq Submitters \X (1..MaxCount)
      BY <3>2, <1>2, <1>5, SizeAssumption
    <3> QED BY <3>1, <3>2, <3>3
  <2>4. SectorsAtStat(d)' \cap ({t} \X (1..n)) = {} BY <1>5
  <2>5. IsFiniteSet(SectorsAtStat(d)')
    <3>1. SectorsAtStat(d)' \in SUBSET SectorsAtStat(d) BY <1>5
    <3> QED BY <3>1, <1>3, FS_Subset DEF Owed
  <2>6. Cardinality(SectorsAtStat(d)) = Cardinality(SectorsAtStat(d)') + n
    <3>1. ASSUME NEW S, S = SectorsAtStat(d)'
          PROVE  Cardinality(SectorsAtStat(d)) = Cardinality(S) + n
      <4>1. /\ IsFiniteSet(S) /\ S \cap ({t} \X (1..n)) = {}
            /\ SectorsAtStat(d) = S \cup ({t} \X (1..n)) BY <3>1, <2>3, <2>4, <2>5, Zenon
      <4>2. Cardinality(S \cup ({t} \X (1..n))) = Cardinality(S) + n
        BY <4>1, <1>3, OneMore, Zenon
      <4> QED BY <4>1, <4>2, Zenon
    <3> QED BY <3>1
  <2>7. /\ RequestsOf(nvm_stat', d) = RequestsOf(nvm_stat, d) + 1
        /\ SectorsOf(nvm_stat', d) = SectorsOf(nvm_stat, d) + n
    BY <1>1, <1>2, <1>3, <1>6, AccountCounts
  <2>8. /\ Cardinality(AtStat(d)) \in Nat /\ Cardinality(SectorsAtStat(d)) \in Nat
        /\ Cardinality(SectorsAtStat(d)') \in Nat
        /\ RequestsOf(nvm_stat, d) \in Nat /\ SectorsOf(nvm_stat, d) \in Nat
    BY <2>5, <1>2, <1>3, FS_CardinalityType, AccountCounts DEF Owed
  <2>9. /\ RequestsOf(served, d) = RequestsOf(nvm_stat', d) + Cardinality(AtStat(d)')
        /\ SectorsOf(served, d) = SectorsOf(nvm_stat', d) + Cardinality(SectorsAtStat(d)')
    <3>1. /\ RequestsOf(served, d) = RequestsOf(nvm_stat, d) + Cardinality(AtStat(d))
          /\ SectorsOf(served, d) = SectorsOf(nvm_stat, d) + Cardinality(SectorsAtStat(d))
      BY <1>3 DEF Owed
    <3>2. RequestsOf(served, d) = RequestsOf(nvm_stat', d) + Cardinality(AtStat(d)')
      BY <3>1, <2>2, <2>7, <2>8
    <3>3. SectorsOf(served, d) = SectorsOf(nvm_stat', d) + Cardinality(SectorsAtStat(d)')
      BY <3>1, <2>6, <2>7, <2>8, <1>3
    <3> QED BY <3>2, <3>3
  <2> QED BY <2>2, <2>5, <2>9, <1>1 DEF Owed, RequestsOf, SectorsOf
<1>7. CASE rw[t] # d
  <2>1. AtStat(d)' = AtStat(d) BY <1>4, <1>7 DEF AtStat
  <2>2. SectorsAtStat(d)' = SectorsAtStat(d) BY <2>1, <1>4, <1>5 DEF SectorsAtStat
  <2>3. /\ RequestsOf(nvm_stat', d) = RequestsOf(nvm_stat, d)
        /\ SectorsOf(nvm_stat', d) = SectorsOf(nvm_stat, d)
    BY <1>1, <1>2, <1>3, <1>7, AccountCounts
  <2> QED BY <2>1, <2>2, <2>3, <1>1, <1>3 DEF Owed, RequestsOf, SectorsOf
<1> QED BY <1>6, <1>7

\* The other steps change neither the statistics nor what is owed.
LEMMA OwedStays ==
    ASSUME NEW t \in Submitters, ThreadStep(t), ~EndIO(t), ~Stat(t), IInv, StatInv,
           NEW d \in Directions
    PROVE  Owed(d)'
<1> USE DEF IInv, TypeOK
<1>1. served' = served /\ nvm_stat' = nvm_stat /\ pc[t] # "stat" /\ pc'[t] # "stat"
  <2> USE DEF TypeThreads, Go
  <2>1. CASE Submit(t) \/ Accept(t) \/ Exceed(t) \/ Segment(t) \/ NoSegment(t)
    BY <2>1 DEF Submit, Accept, Exceed, Segment, NoSegment
  <2>2. CASE HelperLock(t) \/ InfoLoad(t) \/ InfoStore(t) \/ InfoRefused(t) \/ InfoDone(t)
    BY <2>2 DEF HelperLock, InfoLoad, InfoStore, InfoRefused, InfoDone
  <2>3. CASE BitIsSet(t) \/ SetBit(t) \/ MapSector(t) \/ HelperUnlock(t)
    BY <2>3 DEF BitIsSet, SetBit, MapSector, HelperUnlock
  <2>4. CASE CopyFromNvm(t) \/ CopyToNvm(t) \/ SegmentDone(t)
    BY <2>4 DEF CopyFromNvm, CopyToNvm, SegmentDone
  <2> QED BY <2>1, <2>2, <2>3, <2>4 DEF ThreadStep, Step
<1>2. ASSUME NEW u \in Submitters, u # t
      PROVE  pc'[u] = pc[u] /\ rw'[u] = rw[u] /\ num_sectors'[u] = num_sectors[u]
  BY <1>2, OthersSame, OthersBio DEF Same
<1>3. AtStat(d)' = AtStat(d) BY <1>1, <1>2 DEF AtStat
<1>4. SectorsAtStat(d)' = SectorsAtStat(d)
  <2>1. \A u \in AtStat(d) : num_sectors'[u] = num_sectors[u] BY <1>1, <1>2 DEF AtStat
  <2> QED BY <2>1, <1>3 DEF SectorsAtStat
<1> QED BY <1>1, <1>3, <1>4 DEF StatInv, Owed, RequestsOf, SectorsOf

\* When every bio fits and no request is in progress, the statistics are exactly what was
\* transferred, however many threads account for their requests at once.
THEOREM StatisticsExact == BiosFit /\ Spec => []StatsExact
<1>1. Init => BioInv /\ StatInv
  <2> SUFFICES ASSUME Init PROVE BioInv /\ StatInv OBVIOUS
  <2>1. BioInv BY DEF Init, BioInv, BioOf
  <2>2. \A d \in Directions : AtStat(d) = {} /\ SectorsAtStat(d) = {}
    BY DEF Init, AtStat, SectorsAtStat
  <2>3. served = nvm_stat /\ nvm_stat \in Stats BY DEF Init, NoStat, Stats
  <2>4. \A d \in Directions : RequestsOf(nvm_stat, d) \in Nat /\ SectorsOf(nvm_stat, d) \in Nat
    BY <2>3, AccountCounts
  <2> QED BY <2>1, <2>2, <2>3, <2>4, FS_EmptySet DEF StatInv, Owed
<1>2. BiosFit => (IInv /\ BioInv /\ StatInv /\ [Next]_vars => BioInv' /\ StatInv')
  <2> SUFFICES ASSUME BiosFit, IInv, BioInv, StatInv, [Next]_vars PROVE BioInv' /\ StatInv'
    OBVIOUS
  <2>1. ASSUME NEW t \in Submitters, ThreadStep(t) PROVE BioInv' /\ StatInv'
    <3>1. BioInv' BY <2>1, BioStep DEF IInv, TypeOK
    <3>2. ASSUME NEW d \in Directions PROVE Owed(d)'
      BY <2>1, EndOwes, StatPays, OwedStays
    <3> QED BY <3>1, <3>2 DEF StatInv
  <2>2. CASE SyncerLock \/ SyncerUnlock \/ UNCHANGED vars
    <3>1. UNCHANGED <<pc, bio, left, sector, buf, served, nvm_stat>>
      BY <2>2 DEF SyncerLock, SyncerUnlock, vars
    <3>2. BioInv' BY <3>1 DEF bio, BioInv, BioOf
    <3>3. ASSUME NEW d \in Directions PROVE Owed(d)'
      <4>1. AtStat(d)' = AtStat(d) /\ SectorsAtStat(d)' = SectorsAtStat(d)
        BY <3>1 DEF bio, AtStat, SectorsAtStat
      <4> QED BY <3>1, <3>3, <4>1 DEF StatInv, Owed, RequestsOf, SectorsOf
    <3> QED BY <3>2, <3>3 DEF StatInv
  <2> QED BY <2>1, <2>2 DEF Next, ThreadStep
<1>3. IInv /\ StatInv => StatsExact
  <2> SUFFICES ASSUME IInv, StatInv, \A t \in Submitters : pc[t] = "idle"
               PROVE  nvm_stat = served
    BY DEF StatsExact
  <2>1. \A d \in Directions : AtStat(d) = {} /\ SectorsAtStat(d) = {}
    BY DEF AtStat, SectorsAtStat
  <2>2. served \in Stats /\ nvm_stat \in Stats BY DEF IInv, TypeOK, TypeStats
  <2>3. \A d \in Directions : /\ RequestsOf(served, d) = RequestsOf(nvm_stat, d)
                              /\ SectorsOf(served, d) = SectorsOf(nvm_stat, d)
    <3> SUFFICES ASSUME NEW d \in Directions
                 PROVE  /\ RequestsOf(served, d) = RequestsOf(nvm_stat, d)
                        /\ SectorsOf(served, d) = SectorsOf(nvm_stat, d)
      OBVIOUS
    <3>1. Owed(d) /\ Cardinality(AtStat(d)) = 0 /\ Cardinality(SectorsAtStat(d)) = 0
      BY <2>1, FS_EmptySet DEF StatInv
    <3>2. RequestsOf(nvm_stat, d) \in Nat /\ SectorsOf(nvm_stat, d) \in Nat
      BY <2>2, AccountCounts
    <3> QED BY <3>1, <3>2 DEF Owed
  <2> QED BY <2>2, <2>3 DEF RequestsOf, SectorsOf, Directions, Stats
<1>4. BiosFit => (Init /\ [][Next]_vars /\ []IInv => []StatsExact)
  <2> SUFFICES ASSUME BiosFit PROVE Init /\ [][Next]_vars /\ []IInv => []StatsExact
    OBVIOUS
  <2>1. IInv /\ BioInv /\ StatInv /\ [Next]_vars => BioInv' /\ StatInv' BY <1>2
  <2> QED BY <1>1, <1>3, <2>1, PTL
<1> QED BY Invariance, <1>4, PTL DEF Spec
=============================================================================
