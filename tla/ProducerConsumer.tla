-------------------------- MODULE ProducerConsumer --------------------------
(***************************************************************************)
(* qinke/philo-problem/pc.c: a producer and a consumer thread pass a fixed *)
(* number of items through a ring of MAX slots.  Empty counts the slots    *)
(* that may be filled, Full those that may be emptied, and Mutex guards    *)
(* the ring.  Both threads post the counting semaphore before the mutex.   *)
(* The printed line, the random sleeps and main's wait for a key are left  *)
(* out; what the consumer prints is the slot it reads.                     *)
(***************************************************************************)
EXTENDS Integers

CONSTANTS MAX,     \* slots of the ring (5)
          ITEMS    \* items each thread handles (100)

ASSUME RingAssumption == MAX \in Nat \ {0} /\ ITEMS \in Nat

VARIABLES Buf,                 \* the ring; -1 is an empty slot
          Full, Empty, Mutex,  \* semaphores
          ppc, in, item,       \* Producer: where it is, its slot, i
          cpc, out, taken      \* Consumer: where it is, its slot, j

ring   == <<Buf, Full, Empty, Mutex>>
pcvars == <<ring, ppc, in, item, cpc, out, taken>>

PCInit == /\ Buf = [s \in 0..(MAX - 1) |-> -1]
          /\ Full = 0 /\ Empty = MAX /\ Mutex = 1
          /\ ppc = "empty" /\ in = 0 /\ item = 0
          /\ cpc = "full" /\ out = 0 /\ taken = 0

NextSlot(s) == (s + 1) % MAX

-----------------------------------------------------------------------------
(* Producer. *)

WaitEmpty == /\ ppc = "empty" /\ item < ITEMS
             /\ Empty > 0 /\ Empty' = Empty - 1
             /\ ppc' = "mutex"
             /\ UNCHANGED <<Buf, Full, Mutex, in, item, cpc, out, taken>>

ProducerEnds == /\ ppc = "empty" /\ item = ITEMS
                /\ ppc' = "end"
                /\ UNCHANGED <<ring, in, item, cpc, out, taken>>

ProducerEnters == /\ ppc = "mutex"
                  /\ Mutex > 0 /\ Mutex' = Mutex - 1
                  /\ ppc' = "store"
                  /\ UNCHANGED <<Buf, Full, Empty, in, item, cpc, out, taken>>

Store == /\ ppc = "store" /\ ppc' = "post"
         /\ Buf' = [Buf EXCEPT ![in] = item]
         /\ in' = NextSlot(in)
         /\ item' = item + 1
         /\ UNCHANGED <<Full, Empty, Mutex, cpc, out, taken>>

PostFull == /\ ppc = "post" /\ ppc' = "leave"
            /\ Full' = Full + 1
            /\ UNCHANGED <<Buf, Empty, Mutex, in, item, cpc, out, taken>>

ProducerLeaves == /\ ppc = "leave" /\ ppc' = "empty"
                  /\ Mutex' = Mutex + 1
                  /\ UNCHANGED <<Buf, Full, Empty, in, item, cpc, out, taken>>

Producer == \/ WaitEmpty \/ ProducerEnters \/ Store \/ PostFull \/ ProducerLeaves
            \/ ProducerEnds

-----------------------------------------------------------------------------
(* Consumer. *)

FullOrNot == Full >= 0
AnyFull == Full > 0

WaitFull == /\ cpc = "full" /\ taken < ITEMS
            /\ AnyFull /\ Full' = Full - 1
            /\ cpc' = "mutex"
            /\ UNCHANGED <<Buf, Empty, Mutex, ppc, in, item, out, taken>>

ConsumerEnds == /\ cpc = "full" /\ taken = ITEMS
                /\ cpc' = "end"
                /\ UNCHANGED <<ring, ppc, in, item, out, taken>>

ConsumerEnters == /\ cpc = "mutex"
                  /\ Mutex > 0 /\ Mutex' = Mutex - 1
                  /\ cpc' = "take"
                  /\ UNCHANGED <<Buf, Full, Empty, ppc, in, item, out, taken>>

TakeItem == /\ cpc = "take" /\ cpc' = "post"
            /\ Buf' = [Buf EXCEPT ![out] = -1]
            /\ out' = NextSlot(out)
            /\ taken' = taken + 1
            /\ UNCHANGED <<Full, Empty, Mutex, ppc, in, item>>

KeepSlot == Empty
FreeSlot == Empty + 1

PostEmpty == /\ cpc = "post" /\ cpc' = "leave"
             /\ Empty' = FreeSlot
             /\ UNCHANGED <<Buf, Full, Mutex, ppc, in, item, out, taken>>

ConsumerLeaves == /\ cpc = "leave" /\ cpc' = "full"
                  /\ Mutex' = Mutex + 1
                  /\ UNCHANGED <<Buf, Full, Empty, ppc, in, item, out, taken>>

Consumer == \/ WaitFull \/ ConsumerEnters \/ TakeItem \/ PostEmpty \/ ConsumerLeaves
            \/ ConsumerEnds

PCNext == Producer \/ Consumer
PCSpec == PCInit /\ [][PCNext]_pcvars

-----------------------------------------------------------------------------
(* The producer never overwrites an item that was not consumed, and the    *)
(* consumer always finds the next item in its slot: every item once and in *)
(* order, also when one thread is a whole ring ahead (pc.c:26, :48).       *)
SlotsRespected ==
    /\ ppc = "store" => Buf[in] = -1
    /\ cpc = "take" => Buf[out] = taken

(* Both threads handle all their items and return.                         *)
BothEnd == <>(ppc = "end" /\ cpc = "end")
=============================================================================
