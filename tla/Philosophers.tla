---------------------------- MODULE Philosophers ----------------------------
(***************************************************************************)
(* qinke/philo-problem/philo.c: NUM philosophers, one thread each, eat     *)
(* ROUNDS times.  A philosopher takes both chopsticks while it holds the   *)
(* mutex, so at most one waits for a chopstick; the chopsticks are put     *)
(* down without it.                                                        *)
(***************************************************************************)
EXTENDS Integers

CONSTANTS NUM,      \* philosophers and chopsticks (5)
          ROUNDS    \* meals of each (NUM in the source)

ASSUME TableAssumption == NUM \in Nat /\ NUM > 1 /\ ROUNDS \in Nat

Philos == 0..(NUM - 1)
Right(p) == (p + 1) % NUM

VARIABLES mutex, chick,   \* semaphores: 1 is free
          sophi,          \* where each thread is
          t               \* the meals it began

phvars == <<mutex, chick, sophi, t>>

PhInit == /\ mutex = 1
          /\ chick = [c \in Philos |-> 1]
          /\ sophi = [p \in Philos |-> "think"]
          /\ t = [p \in Philos |-> 0]

Moves(p, from, to) == sophi[p] = from /\ sophi' = [sophi EXCEPT ![p] = to]

\* while ((t++) < NUM)
Hungry(p) == /\ Moves(p, "think", "mutex")
             /\ t[p] < ROUNDS /\ t' = [t EXCEPT ![p] = @ + 1]
             /\ UNCHANGED <<mutex, chick>>

Leaves(p) == /\ Moves(p, "think", "end")
             /\ t[p] = ROUNDS
             /\ UNCHANGED <<mutex, chick, t>>

\* P and V.
AlwaysFree(c) == TRUE
OnTable(c) == chick[c] = 1

TakeMutex(p) == /\ Moves(p, "mutex", "left")
                /\ mutex = 1 /\ mutex' = 0
                /\ UNCHANGED <<chick, t>>

TakeLeft(p) == /\ Moves(p, "left", "right")
               /\ OnTable(p) /\ chick' = [chick EXCEPT ![p] = 0]
               /\ UNCHANGED <<mutex, t>>

TakeRight(p) == /\ Moves(p, "right", "unlock")
                /\ OnTable(Right(p)) /\ chick' = [chick EXCEPT ![Right(p)] = 0]
                /\ UNCHANGED <<mutex, t>>

DropMutex(p) == /\ Moves(p, "unlock", "eat")
                /\ mutex' = 1
                /\ UNCHANGED <<chick, t>>

PutLeft(p) == /\ Moves(p, "eat", "putright")
              /\ chick' = [chick EXCEPT ![p] = 1]
              /\ UNCHANGED <<mutex, t>>

LeftAgain(p) == p
SecondPut(p) == Right(p)

PutRight(p) == /\ Moves(p, "putright", "think")
               /\ chick' = [chick EXCEPT ![SecondPut(p)] = 1]
               /\ UNCHANGED <<mutex, t>>

Philosopher(p) == \/ Hungry(p) \/ TakeMutex(p) \/ TakeLeft(p) \/ TakeRight(p)
                  \/ DropMutex(p) \/ PutLeft(p) \/ PutRight(p) \/ Leaves(p)

PhNext == \E p \in Philos : Philosopher(p)
PhSpec == PhInit /\ [][PhNext]_phvars

-----------------------------------------------------------------------------
(* Two neighbours never eat at the same time (philo.c:33-34).              *)
NeighboursApart ==
    \A p \in Philos : ~(sophi[p] = "eat" /\ sophi[Right(p)] = "eat")

(* Nobody is stuck with the mutex or one chopstick: all eat their meals    *)
(* and leave (philo.c:32-34, the joins at :66).                            *)
AllLeave == <>(\A p \in Philos : sophi[p] = "end")
=============================================================================
