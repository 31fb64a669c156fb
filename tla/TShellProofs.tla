---------------------------- MODULE TShellProofs ----------------------------
(***************************************************************************)
(* Proofs about the shell, for any number of processes, names, resources   *)
(* and priorities: nobody runs while a process of a higher level is ready, *)
(* no unit is lost or made, and no process disappears.                     *)
(***************************************************************************)
EXTENDS TShell, FiniteSetTheorems, TLAPS

\* The running process heads its list, and the lists above it are empty.
Heads(p, q) == \E k \in Levels : /\ q[k] # <<>> /\ Head(q[k]) = p
                                 /\ \A l \in Levels : l > k => q[l] = <<>>

\* Find_PCB finds the head of the highest list, or NULL.
LEMMA FindHighest ==
  ASSUME NEW q
  PROVE  Find_PCB(q) # NULL => Heads(Find_PCB(q), q)
<1> SUFFICES ASSUME Find_PCB(q) # NULL PROVE Heads(Find_PCB(q), q)
  OBVIOUS
<1>0. Levels = {0, 1, 2}
  BY DEF Levels
<1>1. CASE q[2] # <<>>
  <2>1. Find_PCB(q) = Head(q[2])
    BY <1>1 DEF Find_PCB
  <2>2. \A l \in Levels : ~(l > 2)
    BY <1>0
  <2> QED
    BY <1>0, <1>1, <2>1, <2>2 DEF Heads
<1>2. CASE q[2] = <<>> /\ q[1] # <<>>
  <2>1. Find_PCB(q) = Head(q[1])
    BY <1>2 DEF Find_PCB
  <2>2. \A l \in Levels : l > 1 => l = 2
    BY <1>0
  <2> QED
    BY <1>0, <1>2, <2>1, <2>2 DEF Heads
<1>3. CASE q[2] = <<>> /\ q[1] = <<>>
  <2>1. q[0] # <<>> /\ Find_PCB(q) = Head(q[0])
    BY <1>3 DEF Find_PCB
  <2>2. \A l \in Levels : l > 0 => l = 1 \/ l = 2
    BY <1>0
  <2> QED
    BY <1>0, <1>3, <2>1, <2>2 DEF Heads
<1> QED
  BY <1>1, <1>2, <1>3

\* Whatever a command did to the lists, Scheduler restores the order, or the program faults.
LEMMA SchedulerRestores == Scheduler => RunsHighest'
<1> SUFFICES ASSUME Scheduler, phase' # "fault" PROVE Heads(current', ready')
  BY DEF RunsHighest, Heads
<1>1. current' = Find_PCB(ready') /\ current' # NULL
  BY DEF Scheduler
<1> QED
  BY <1>1, FindHighest

\* At the start init is the only process.
LEMMA InitRunsHighest == Init => RunsHighest
<1> SUFFICES ASSUME Init PROVE Heads(current, ready)
  BY DEF RunsHighest, Heads
<1>1. Levels = {0, 1, 2}
  BY DEF Levels
<1>2. ready[0] = <<1>> /\ ready[1] = <<>> /\ ready[2] = <<>>
  BY <1>1 DEF Init
<1>3. Head(ready[0]) = current /\ ready[0] # <<>>
  BY <1>2 DEF Init
<1> QED
  BY <1>1, <1>2, <1>3 DEF Heads

LEMMA NextRunsHighest == RunsHighest /\ [Next]_vars => RunsHighest'
<1> SUFFICES ASSUME RunsHighest, [Next]_vars PROVE RunsHighest'
  OBVIOUS
<1>0. ASSUME UNCHANGED <<ready, current>>, phase # "fault" PROVE RunsHighest'
  BY <1>0 DEF RunsHighest
<1>1. ASSUME NEW name \in Names, NEW pri \in Priorities, Create(name, pri) PROVE RunsHighest'
  BY <1>1, SchedulerRestores DEF Create
<1>2. ASSUME NEW name \in Names, Destroy(name) PROVE RunsHighest'
  BY <1>2, SchedulerRestores DEF Destroy
<1>3. ASSUME NEW r \in Resources, NEW n \in 0..MaxUnits, Grant(r, n) PROVE RunsHighest'
  BY <1>0, <1>3 DEF Grant
<1>4. ASSUME NEW r \in Resources, NEW n \in 0..MaxUnits, RequestTooMany(r, n)
      PROVE RunsHighest'
  BY <1>0, <1>4 DEF RequestTooMany
<1>5. ASSUME NEW r \in Resources, NEW n \in 0..MaxUnits, Block(r, n) PROVE RunsHighest'
  BY <1>5, SchedulerRestores DEF Block
<1>6. ASSUME NEW r \in Resources, NEW n \in 0..MaxUnits, Release(r, n) PROVE RunsHighest'
  <2> DEFINE m == Served(waiting[r], units[r] + n)
  <2>1. CASE m = 0
    \* no waiter is served: the lists and the running process stay
    BY <1>0, <1>6, <2>1 DEF Release
  <2>2. CASE m # 0
    <3>1. Scheduler
      BY <1>6, <2>2 DEF Release
    <3> QED
      BY <3>1, SchedulerRestores
  <2> QED
    BY <2>1, <2>2
<1>7. ASSUME NEW r \in Resources, ReleaseNothing(r) PROVE RunsHighest'
  BY <1>0, <1>7 DEF ReleaseNothing
<1>8. CASE Time_Out
  BY <1>8, SchedulerRestores DEF Time_Out
<1>9. CASE UNCHANGED vars
  BY <1>9 DEF RunsHighest, vars
<1> QED
  BY <1>1, <1>2, <1>3, <1>4, <1>5, <1>6, <1>7, <1>8, <1>9 DEF Next

\* Nobody runs while a process of a higher level is ready, after every command (Scheduler,
\* tShell.c:538), however many processes, names, resources and priorities there are.
THEOREM SchedulesHighest == Spec => []RunsHighest
<1> QED
  BY InitRunsHighest, NextRunsHighest, PTL DEF Spec
-----------------------------------------------------------------------------
(* Finite sets of numbers, and the lists Delete leaves.                    *)

\* A non-empty set of numbers up to a bound has a largest one.
LEMMA MaxOfSome ==
  ASSUME NEW L \in Nat, NEW S \in SUBSET (0..L), S # {}
  PROVE  Max(S) \in S /\ \A n \in S : n <= Max(S)
<1> DEFINE T == {L - n : n \in S}
<1>1. T \subseteq Nat /\ T # {}
  <2>1. \A n \in S : L - n \in Nat
    OBVIOUS
  <2>2. PICK n \in S : TRUE
    OBVIOUS
  <2>3. L - n \in T
    BY <2>2
  <2> QED
    BY <2>1, <2>3
<1>2. PICK d \in T : \A e \in T : ~(<<e, d>> \in OpToRel(<, Nat))
  BY <1>1, WFMin, NatLessThanWellFounded
<1>3. \A e \in T : ~(e < d)
  BY <1>1, <1>2 DEF OpToRel
<1>4. L - d \in S /\ \A n \in S : L - d >= n
  <2>1. PICK n \in S : d = L - n
    OBVIOUS
  <2>2. L - d = n
    BY <2>1
  <2>3. ASSUME NEW q \in S PROVE n >= q
    <3>1. ~(L - q < L - n)
      BY <1>3, <2>1
    <3> QED
      BY <3>1
  <2> QED
    BY <2>2, <2>3
<1>5. \E n \in S : \A q \in S : n >= q
  BY <1>4
<1>6. Max(S) \in S /\ \A q \in S : Max(S) >= q
  BY <1>5 DEF Max
<1> QED
  BY <1>6

\* Every kept place has a position of its own.
LEMMA PlacesDiffer ==
  ASSUME NEW kept, IsFiniteSet(kept), kept \subseteq Nat
  PROVE  /\ \A n \in kept : Place(kept, n) \in 1..Cardinality(kept)
         /\ \A m, n \in kept : Place(kept, m) = Place(kept, n) => m = n
<1> DEFINE Upto(n) == {j \in kept : j <= n}
<1>0. Cardinality(kept) \in Nat
  BY FS_CardinalityType
<1>1. ASSUME NEW n \in kept
      PROVE  /\ IsFiniteSet(Upto(n)) /\ Cardinality(Upto(n)) \in Nat
             /\ Cardinality(Upto(n)) <= Cardinality(kept) /\ n \in Upto(n)
             /\ Cardinality(Upto(n)) # 0
  <2>1. Upto(n) \in SUBSET kept /\ n \in Upto(n)
    OBVIOUS
  <2> HIDE DEF Upto
  <2>2. IsFiniteSet(Upto(n)) /\ Cardinality(Upto(n)) <= Cardinality(kept)
    BY <2>1, FS_Subset
  <2>3. Cardinality(Upto(n)) \in Nat /\ Cardinality(Upto(n)) # 0
    BY <2>1, <2>2, FS_CardinalityType, FS_EmptySet
  <2> QED
    BY <2>1, <2>2, <2>3
<1>2. ASSUME NEW m \in kept, NEW n \in kept, m < n
      PROVE  Cardinality(Upto(m)) # Cardinality(Upto(n))
  <2>1. Upto(m) \in SUBSET Upto(n)
    <3>1. \A j \in kept : j \in Nat /\ (j <= m => j <= n)
      BY <1>2
    <3> QED
      BY <3>1
  <2>2. n \in Upto(n) /\ n \notin Upto(m)
    BY <1>2
  <2>3. IsFiniteSet(Upto(n))
    BY <1>1
  <2> HIDE DEF Upto
  <2> QED
    BY <2>1, <2>2, <2>3, FS_Subset
<1>3. \A n \in kept : Place(kept, n) = Cardinality(Upto(n))
  BY DEF Place
<1> HIDE DEF Upto
<1>4. \A n \in kept : Place(kept, n) \in 1..Cardinality(kept)
  BY <1>0, <1>1, <1>3
<1>5. ASSUME NEW m \in kept, NEW n \in kept, Place(kept, m) = Place(kept, n), m # n
      PROVE  FALSE
  <2>1. m < n \/ n < m
    BY <1>5
  <2> QED
    BY <2>1, <1>2, <1>3, <1>5
<1> QED
  BY <1>4, <1>5

\* Picked loses none of the entries it keeps, and adds none.
LEMMA PickedEntries ==
  ASSUME NEW E, NEW list \in Seq(E), NEW kept \in SUBSET (1..Len(list))
  PROVE  /\ Picked(list, kept) \in Seq(E)
         /\ \A n \in kept : list[n] \in ToSet(Picked(list, kept))
<1>1. IsFiniteSet(kept) /\ kept \subseteq Nat
  <2>1. Len(list) \in Nat
    OBVIOUS
  <2>2. IsFiniteSet(1..Len(list))
    BY <2>1, FS_Interval
  <2>3. IsFiniteSet(kept)
    BY <2>2, FS_Subset
  <2> QED
    BY <2>1, <2>3
<1> DEFINE C == Cardinality(kept)
           place == [n \in kept |-> Place(kept, n)]
           At(n) == CHOOSE m \in kept : Place(kept, m) = n
<1>2. C \in Nat
  BY <1>1, FS_CardinalityType
<1>3. /\ \A n \in kept : Place(kept, n) \in 1..C
      /\ \A m, n \in kept : Place(kept, m) = Place(kept, n) => m = n
  BY <1>1, PlacesDiffer
<1>4. IsFiniteSet(1..C) /\ Cardinality(1..C) = C
  BY <1>2, FS_Interval
<1>5. place \in Injection(kept, 1..C)
  BY <1>3 DEF Injection, IsInjective
<1>6. place \in Surjection(kept, 1..C)
  <2> HIDE DEF place
  <2> QED
    BY <1>4, <1>5, FS_Injection
<1>7. ASSUME NEW n \in 1..C PROVE \E m \in kept : Place(kept, m) = n
  BY <1>6 DEF Surjection
<1>8. \A n \in 1..C : At(n) \in kept /\ Place(kept, At(n)) = n
  BY <1>7
<1>9. \A n \in kept : At(Place(kept, n)) = n
  <2> HIDE DEF At
  <2> QED
    BY <1>3, <1>8
<1>10. Picked(list, kept) = [n \in 1..C |-> list[At(n)]]
  BY DEF Picked
<1> HIDE DEF At, C
<1>11. Picked(list, kept) \in Seq(E)
  <2>1. \A n \in 1..C : list[At(n)] \in E
    <3>1. \A m \in 1..Len(list) : list[m] \in E
      OBVIOUS
    <3> QED
      BY <3>1, <1>8
  <2> QED
    BY <2>1, <1>2, <1>10
<1>12. ASSUME NEW n \in kept PROVE list[n] \in ToSet(Picked(list, kept))
  <2>1. Place(kept, n) \in DOMAIN Picked(list, kept)
    BY <1>3, <1>10
  <2>2. Picked(list, kept)[Place(kept, n)] = list[n]
    BY <1>3, <1>9, <1>10
  <2> QED
    BY <2>1, <2>2 DEF ToSet
<1> QED
  BY <1>11, <1>12

\* Delete keeps the type of a list, and every entry whose name is not to be deleted.
LEMMA DeleteKeeps ==
  ASSUME NEW E, NEW list \in Seq(E), NEW c
  PROVE  /\ Delete(list, c) \in Seq(E)
         /\ \A p \in ToSet(list) : c[pid[p]] = 0 => p \in ToSet(Delete(list, c))
<1> DEFINE Before(n) == {m \in 1..n : pid[list[m]] = pid[list[n]]}
           kept == {n \in 1..Len(list) : Cardinality(Before(n)) > c[pid[list[n]]]}
<1>1. Delete(list, c) = Picked(list, kept)
  BY DEF Delete
<1>2. ASSUME NEW n \in 1..Len(list), c[pid[list[n]]] = 0 PROVE n \in kept
  <2>1. n \in Nat /\ n \in Before(n) /\ Before(n) \in SUBSET (1..n)
    OBVIOUS
  <2>2. IsFiniteSet(1..n)
    BY <2>1, FS_Interval
  <2>3. IsFiniteSet(Before(n))
    BY <2>1, <2>2, FS_Subset
  <2>4. Cardinality(Before(n)) \in Nat /\ Cardinality(Before(n)) # 0
    <3> HIDE DEF Before
    <3> QED
      BY <2>1, <2>3, FS_CardinalityType, FS_EmptySet
  <2>5. Cardinality(Before(n)) > c[pid[list[n]]]
    BY <2>4, <1>2
  <2> QED
    BY <2>5
<1>3. kept \in SUBSET (1..Len(list))
  OBVIOUS
<1> HIDE DEF kept
<1>4. ASSUME NEW p \in ToSet(list), c[pid[p]] = 0 PROVE p \in ToSet(Delete(list, c))
  <2>1. PICK n \in 1..Len(list) : p = list[n]
    BY DEF ToSet
  <2> QED
    BY <2>1, <1>1, <1>2, <1>3, <1>4, PickedEntries
<1> QED
  BY <1>1, <1>3, <1>4, PickedEntries

-----------------------------------------------------------------------------
(* The units that are held, as a set of pairs: h is what each PCB holds.   *)

HeldBy(h, r, S) == UNION {{p} \X (1..h[p][r]) : p \in S}
Holdings == [Pcbs -> [Resources -> Nat]]

\* A few units of one PCB beside those of the others.
LEMMA UnitsBeside ==
  ASSUME NEW S, NEW p, NEW n \in Nat, IsFiniteSet(S), S \cap ({p} \X (1..n)) = {}
  PROVE  /\ IsFiniteSet(S \cup ({p} \X (1..n)))
         /\ Cardinality(S \cup ({p} \X (1..n))) = Cardinality(S) + n
<1> DEFINE T == {p} \X (1..n)
<1>1. IsFiniteSet({p}) /\ Cardinality({p}) = 1
  BY FS_Singleton
<1>2. IsFiniteSet(1..n) /\ Cardinality(1..n) = n
  BY FS_Interval
<1>3. IsFiniteSet(T) /\ Cardinality(T) = Cardinality({p}) * Cardinality(1..n)
  BY <1>1, <1>2, FS_Product
<1>4. Cardinality(T) = n
  BY <1>1, <1>2, <1>3
<1> HIDE DEF T
<1>5. S \cap T = {} /\ Cardinality({}) = 0
  BY FS_EmptySet DEF T
<1>6. /\ IsFiniteSet(S \cup T)
      /\ Cardinality(S \cup T) = Cardinality(S) + Cardinality(T) - Cardinality(S \cap T)
  BY <1>3, FS_Union
<1>7. Cardinality(S) \in Nat
  BY FS_CardinalityType
<1>8. Cardinality(S \cap T) = 0
  BY <1>5, Zenon
<1>9. Cardinality(S \cup T) = Cardinality(S) + n
  BY <1>4, <1>6, <1>7, <1>8
<1> QED
  BY <1>6, <1>9 DEF T

LEMMA UnitPairs ==
  ASSUME NEW h \in Holdings, NEW r \in Resources, NEW S \in SUBSET Pcbs
  PROVE  /\ \A p \in Pcbs, n \in Nat :
               <<p, n>> \in HeldBy(h, r, S) <=> p \in S /\ 1 <= n /\ n <= h[p][r]
         /\ HeldBy(h, r, S) \subseteq Pcbs \X Nat
<1>1. \A p \in Pcbs : h[p][r] \in Nat
  BY DEF Holdings
<1>2. \A p \in Pcbs, n \in Nat :
         <<p, n>> \in HeldBy(h, r, S) <=> \E q \in S : <<p, n>> \in {q} \X (1..h[q][r])
  BY DEF HeldBy
<1>3. \A p \in Pcbs, n \in Nat, q \in Pcbs :
         <<p, n>> \in {q} \X (1..h[q][r]) <=> p = q /\ 1 <= n /\ n <= h[q][r]
  BY <1>1
<1>4. \A q \in S : {q} \X (1..h[q][r]) \subseteq Pcbs \X Nat
  BY <1>1
<1> QED
  BY <1>2, <1>3, <1>4 DEF HeldBy

\* One PCB holds k units of r instead.
LEMMA UnitsChange ==
  ASSUME NEW h \in Holdings, NEW r \in Resources, NEW p \in Pcbs, NEW k \in Nat,
         NEW g \in Holdings, g[p][r] = k,
         \A q \in Pcbs, s \in Resources : q # p \/ s # r => g[q][s] = h[q][s],
         IsFiniteSet(HeldBy(h, r, Pcbs))
  PROVE  /\ IsFiniteSet(HeldBy(g, r, Pcbs))
         /\ Cardinality(HeldBy(g, r, Pcbs)) + h[p][r] = Cardinality(HeldBy(h, r, Pcbs)) + k
         /\ \A s \in Resources \ {r} : HeldBy(g, s, Pcbs) = HeldBy(h, s, Pcbs)
<1> DEFINE rest == {x \in HeldBy(h, r, Pcbs) : x[1] # p}
<1>1. /\ h[p][r] \in Nat /\ g[p][r] = k
      /\ \A q \in Pcbs \ {p} : g[q][r] = h[q][r]
      /\ \A q \in Pcbs, s \in Resources \ {r} : g[q][s] = h[q][s]
  BY DEF Holdings
<1>2. /\ \A q \in Pcbs, n \in Nat :
            <<q, n>> \in HeldBy(h, r, Pcbs) <=> 1 <= n /\ n <= h[q][r]
      /\ \A q \in Pcbs, n \in Nat :
            <<q, n>> \in HeldBy(g, r, Pcbs) <=> 1 <= n /\ n <= g[q][r]
      /\ HeldBy(h, r, Pcbs) \subseteq Pcbs \X Nat
      /\ HeldBy(g, r, Pcbs) \subseteq Pcbs \X Nat
  BY UnitPairs
<1>3. \A q \in Pcbs, n \in Nat : <<q, n>> \in rest <=> q # p /\ <<q, n>> \in HeldBy(h, r, Pcbs)
  OBVIOUS
<1>4. IsFiniteSet(rest)
  <2>1. rest \in SUBSET HeldBy(h, r, Pcbs)
    OBVIOUS
  <2> QED
    BY <2>1, FS_Subset
<1>5. rest \subseteq Pcbs \X Nat
  BY <1>2
<1>6. ASSUME NEW n \in Nat PROVE rest \cap ({p} \X (1..n)) = {}
  OBVIOUS
<1> HIDE DEF rest
<1>7. ASSUME NEW f, NEW b \in Nat, f \subseteq Pcbs \X Nat,
             \A q \in Pcbs, n \in Nat :
                 <<q, n>> \in f <=> <<q, n>> \in rest \/ (q = p /\ 1 <= n /\ n <= b)
      PROVE  IsFiniteSet(f) /\ Cardinality(f) = Cardinality(rest) + b
  <2>1. {p} \X (1..b) \subseteq Pcbs \X Nat
    OBVIOUS
  <2>2. \A q \in Pcbs, n \in Nat : <<q, n>> \in {p} \X (1..b) <=> q = p /\ 1 <= n /\ n <= b
    OBVIOUS
  <2>3. f = rest \cup ({p} \X (1..b))
    BY <2>1, <2>2, <1>5, <1>7
  <2> QED
    BY <2>3, <1>4, <1>6, UnitsBeside
<1>8. \A q \in Pcbs, n \in Nat :
         <<q, n>> \in HeldBy(h, r, Pcbs)
           <=> <<q, n>> \in rest \/ (q = p /\ 1 <= n /\ n <= h[p][r])
  BY <1>2, <1>3
<1>9. \A q \in Pcbs, n \in Nat :
         <<q, n>> \in HeldBy(g, r, Pcbs)
           <=> <<q, n>> \in rest \/ (q = p /\ 1 <= n /\ n <= k)
  <2> SUFFICES ASSUME NEW q \in Pcbs, NEW n \in Nat
               PROVE  <<q, n>> \in HeldBy(g, r, Pcbs)
                        <=> <<q, n>> \in rest \/ (q = p /\ 1 <= n /\ n <= k)
    OBVIOUS
  <2>1. CASE q = p
    <3>1. g[q][r] = k
      BY <2>1, <1>1
    <3>2. <<q, n>> \in HeldBy(g, r, Pcbs) <=> 1 <= n /\ n <= g[q][r]
      BY <1>2
    <3> QED
      BY <2>1, <3>1, <3>2, <1>3
  <2>2. CASE q # p
    <3>1. g[q][r] = h[q][r]
      BY <2>2, <1>1
    <3> QED
      BY <2>2, <3>1, <1>2, <1>3
  <2> QED
    BY <2>1, <2>2
<1>10. Cardinality(HeldBy(h, r, Pcbs)) = Cardinality(rest) + h[p][r]
  BY <1>1, <1>2, <1>7, <1>8
<1>11. IsFiniteSet(HeldBy(g, r, Pcbs)) /\ Cardinality(HeldBy(g, r, Pcbs)) = Cardinality(rest) + k
  BY <1>2, <1>7, <1>9
<1>12. Cardinality(rest) \in Nat
  BY <1>4, FS_CardinalityType
<1>13. \A s \in Resources \ {r} : HeldBy(g, s, Pcbs) = HeldBy(h, s, Pcbs)
  BY <1>1 DEF HeldBy
<1>14. Cardinality(HeldBy(g, r, Pcbs)) + h[p][r] = Cardinality(HeldBy(h, r, Pcbs)) + k
  BY <1>1, <1>10, <1>11, <1>12
<1> QED
  BY <1>11, <1>13, <1>14

\* The PCBs of S give back all they hold.
LEMMA UnitsDropped ==
  ASSUME NEW h \in Holdings, NEW r \in Resources, NEW S \in SUBSET Pcbs,
         NEW g \in Holdings, g = [p \in Pcbs |-> IF p \in S THEN NoUnits ELSE h[p]],
         IsFiniteSet(HeldBy(h, r, Pcbs))
  PROVE  /\ IsFiniteSet(HeldBy(g, r, Pcbs)) /\ Cardinality(HeldBy(h, r, S)) \in Nat
         /\ Cardinality(HeldBy(h, r, Pcbs))
              = Cardinality(HeldBy(h, r, S)) + Cardinality(HeldBy(g, r, Pcbs))
<1>1. /\ \A q \in Pcbs, n \in Nat :
            <<q, n>> \in HeldBy(h, r, Pcbs) <=> 1 <= n /\ n <= h[q][r]
      /\ \A q \in Pcbs, n \in Nat :
            <<q, n>> \in HeldBy(h, r, S) <=> q \in S /\ 1 <= n /\ n <= h[q][r]
      /\ \A q \in Pcbs, n \in Nat :
            <<q, n>> \in HeldBy(g, r, Pcbs) <=> 1 <= n /\ n <= g[q][r]
      /\ HeldBy(h, r, Pcbs) \subseteq Pcbs \X Nat /\ HeldBy(h, r, S) \subseteq Pcbs \X Nat
      /\ HeldBy(g, r, Pcbs) \subseteq Pcbs \X Nat
  BY UnitPairs
<1>2. \A q \in Pcbs : g[q][r] = IF q \in S THEN 0 ELSE h[q][r]
  BY DEF NoUnits
<1>3. \A q \in Pcbs, n \in Nat :
         <<q, n>> \in HeldBy(g, r, Pcbs) <=> q \notin S /\ 1 <= n /\ n <= h[q][r]
  <2> SUFFICES ASSUME NEW q \in Pcbs, NEW n \in Nat
               PROVE  <<q, n>> \in HeldBy(g, r, Pcbs) <=> q \notin S /\ 1 <= n /\ n <= h[q][r]
    OBVIOUS
  <2>1. <<q, n>> \in HeldBy(g, r, Pcbs) <=> 1 <= n /\ n <= g[q][r]
    BY <1>1
  <2>2. CASE q \in S
    BY <2>1, <2>2, <1>2
  <2>3. CASE q \notin S
    <3>1. g[q][r] = h[q][r]
      BY <2>3, <1>2
    <3> QED
      BY <2>1, <2>3, <3>1
  <2> QED
    BY <2>2, <2>3
<1> DEFINE A == HeldBy(h, r, S)
           B == HeldBy(g, r, Pcbs)
<1>4. HeldBy(h, r, Pcbs) = A \cup B /\ A \cap B = {}
  BY <1>1, <1>3
<1> HIDE DEF A, B
<1>5. IsFiniteSet(A) /\ IsFiniteSet(B)
  <2>1. A \in SUBSET (A \cup B) /\ B \in SUBSET (A \cup B) /\ IsFiniteSet(A \cup B)
    BY <1>4
  <2> QED
    BY <2>1, FS_Subset
<1>6. Cardinality(A) \in Nat /\ Cardinality(B) \in Nat
  BY <1>5, FS_CardinalityType
<1>7. Cardinality(A \cup B) = Cardinality(A) + Cardinality(B) - Cardinality(A \cap B)
  BY <1>5, FS_Union
<1>8. Cardinality(A \cap B) = 0
  BY <1>4, FS_EmptySet, Zenon
<1>9. Cardinality(A \cup B) = Cardinality(A) + Cardinality(B)
  BY <1>6, <1>7, <1>8
<1> QED
  BY <1>4, <1>5, <1>6, <1>9 DEF A, B

-----------------------------------------------------------------------------
(* Types.                                                                  *)

Counts == /\ made \in 1..MaxPcbs
          /\ pid \in [Pcbs -> Names] /\ priority \in [Pcbs -> Nat]
          /\ blocked_num \in [Pcbs -> 0..MaxUnits]
          /\ resours \in Holdings
          /\ units \in [Resources -> Nat] /\ surplus \in [Resources -> Nat]
Lists == /\ ready \in [Levels -> Seq(1..made)]
         /\ waiting \in [Resources -> Seq(1..made)]
         /\ phase = "running" => current \in 1..made
Typed == Counts /\ Lists

\* A longer list of numbers, and a larger bound.
LEMMA SeqGrows ==
  ASSUME NEW m \in Nat, NEW n \in Nat, m <= n, NEW s \in Seq(1..m)
  PROVE  s \in Seq(1..n)
<1>1. \A k \in 1..m : k \in 1..n
  OBVIOUS
<1> QED
  BY <1>1

\* What Find_PCB finds is an entry of a list.
LEMMA FoundIsListed ==
  ASSUME NEW E, NEW q \in [Levels -> Seq(E)], Find_PCB(q) # NULL
  PROVE  Find_PCB(q) \in E
<1>0. q[0] \in Seq(E) /\ q[1] \in Seq(E) /\ q[2] \in Seq(E)
  BY DEF Levels
<1>1. \A s \in Seq(E) : s # <<>> => Head(s) \in E
  OBVIOUS
<1> QED
  BY <1>0, <1>1 DEF Find_PCB

LEMMA SchedulerTypes ==
  ASSUME Scheduler, ready' \in [Levels -> Seq(1..made')]
  PROVE  phase' = "running" => current' \in 1..made'
BY FoundIsListed DEF Scheduler

\* Insert adds an entry to a list and keeps the others.
LEMMA InsertTypes ==
  ASSUME NEW E, NEW q \in [Levels -> Seq(E)], NEW k, NEW p \in E
  PROVE  /\ Insert(q, k, p) \in [Levels -> Seq(E)]
         /\ \A l \in Levels : ToSet(q[l]) \subseteq ToSet(Insert(q, k, p)[l])
         /\ k \in Levels => p \in ToSet(Insert(q, k, p)[k])
<1>1. CASE k \in Levels
  <2>1. q[k] \in Seq(E) /\ Append(q[k], p) \in Seq(E)
    BY <1>1
  <2>2. Insert(q, k, p) = [q EXCEPT ![k] = Append(q[k], p)]
    BY <1>1 DEF Insert
  <2>3. \A l \in Levels : Insert(q, k, p)[l] = IF l = k THEN Append(q[k], p) ELSE q[l]
    BY <2>2
  <2>4. ToSet(q[k]) \subseteq ToSet(Append(q[k], p)) /\ p \in ToSet(Append(q[k], p))
    <3>1. /\ DOMAIN Append(q[k], p) = 1..(Len(q[k]) + 1) /\ DOMAIN q[k] = 1..Len(q[k])
          /\ Len(q[k]) \in Nat
          /\ \A n \in 1..Len(q[k]) : Append(q[k], p)[n] = q[k][n]
          /\ Append(q[k], p)[Len(q[k]) + 1] = p
      BY <2>1
    <3>2. Len(q[k]) + 1 \in 1..(Len(q[k]) + 1) /\ 1..Len(q[k]) \subseteq 1..(Len(q[k]) + 1)
      BY <3>1
    <3> QED
      BY <3>1, <3>2 DEF ToSet
  <2> QED
    BY <2>1, <2>2, <2>3, <2>4, <1>1
<1>2. CASE k \notin Levels
  BY <1>2 DEF Insert
<1> QED
  BY <1>1, <1>2

\* Remove_Ready keeps every entry with another name.
LEMMA RemoveTypes ==
  ASSUME NEW E \in SUBSET Pcbs, NEW q \in [Levels -> Seq(E)], NEW p \in Pcbs,
         pid \in [Pcbs -> Names]
  PROVE  /\ Remove_Ready(q, p) \in [Levels -> Seq(E)]
         /\ \A l \in Levels : \A o \in ToSet(q[l]) :
               pid[o] # pid[p] => o \in ToSet(Remove_Ready(q, p)[l])
<1> DEFINE c == [n \in Names |-> IF n = pid[p] THEN 1 ELSE 0]
           k == priority[p]
<1>1. Remove_Ready(q, p) = [q EXCEPT ![k] = Delete(q[k], c)]
  BY DEF Remove_Ready
<1>2. ASSUME NEW l \in Levels, NEW o \in ToSet(q[l]), pid[o] # pid[p]
      PROVE  c[pid[o]] = 0
  <2>1. o \in Pcbs
    BY DEF ToSet
  <2> QED
    BY <2>1, <1>2
<1> HIDE DEF c, k
<1>3. CASE k \in Levels
  <2>1. /\ Delete(q[k], c) \in Seq(E)
        /\ \A o \in ToSet(q[k]) : c[pid[o]] = 0 => o \in ToSet(Delete(q[k], c))
    BY <1>3, DeleteKeeps
  <2>2. \A l \in Levels : Remove_Ready(q, p)[l] = IF l = k THEN Delete(q[k], c) ELSE q[l]
    BY <1>1
  <2>3. Remove_Ready(q, p) \in [Levels -> Seq(E)]
    BY <1>1, <2>1
  <2> QED
    BY <2>1, <2>2, <2>3, <1>2
<1>4. CASE k \notin Levels
  BY <1>1, <1>4
<1> QED
  BY <1>3, <1>4

LEMMA EntriesOf ==
  ASSUME NEW S, NEW list \in Seq(S)
  PROVE  \A n \in 1..Len(list) : list[n] \in S
OBVIOUS

\* What the waiters at the front ask for, and how far they are served.
LEMMA ServedTypes ==
  ASSUME Counts, NEW list \in Seq(1..made), NEW free \in Nat
  PROVE  /\ Served(list, free) \in 0..Len(list)
         /\ Demand(list, Served(list, free)) \in Nat
         /\ Demand(list, Served(list, free)) <= free
<1>0. \A n \in 1..Len(list) : list[n] \in 1..made
  BY EntriesOf
<1>1. ASSUME NEW m \in 0..Len(list) PROVE Demand(list, m) \in Nat
  <2> DEFINE A == UNION {{n} \X (1..blocked_num[list[n]]) : n \in 1..m}
  <2>1. A \in SUBSET ((1..m) \X (1..MaxUnits))
    <3>1. ASSUME NEW n \in 1..m PROVE blocked_num[list[n]] \in 0..MaxUnits
      <4>1. n \in 1..Len(list)
        OBVIOUS
      <4>0. list[n] \in 1..made
        BY <4>1, <1>0
      <4>2. list[n] \in Pcbs
        BY <4>0, SizeAssumption DEF Counts, Pcbs
      <4> QED
        BY <4>2 DEF Counts
    <3>2. \A n \in 1..m : {n} \X (1..blocked_num[list[n]]) \subseteq (1..m) \X (1..MaxUnits)
      BY <3>1, SizeAssumption
    <3> QED
      BY <3>2
  <2>2. IsFiniteSet(1..m) /\ IsFiniteSet(1..MaxUnits)
    BY SizeAssumption, FS_Interval
  <2>3. IsFiniteSet((1..m) \X (1..MaxUnits))
    BY <2>2, FS_Product
  <2> HIDE DEF A
  <2>4. Cardinality(A) \in Nat
    BY <2>1, <2>3, FS_Subset, FS_CardinalityType
  <2> QED
    BY <2>4 DEF A, Demand
<1>2. Demand(list, 0) = 0
  <2>1. UNION {{n} \X (1..blocked_num[list[n]]) : n \in 1..0} = {}
    OBVIOUS
  <2> QED
    BY <2>1, FS_EmptySet DEF Demand
<1> DEFINE M == {m \in 0..Len(list) : Demand(list, m) <= free}
<1>3. Len(list) \in Nat /\ M \in SUBSET (0..Len(list)) /\ 0 \in M
  BY <1>2
<1>4. Max(M) \in M
  <2> HIDE DEF M
  <2> QED
    BY <1>3, MaxOfSome
<1>5. Served(list, free) = Max(M)
  BY DEF Served
<1> QED
  BY <1>1, <1>4, <1>5

-----------------------------------------------------------------------------
(* The invariant: types, the accounts of the resources, and the processes. *)

Accounts == \A r \in Resources :
               /\ IsFiniteSet(HeldBy(resours, r, Pcbs))
               /\ units[r] + Cardinality(HeldBy(resours, r, Pcbs)) = r + surplus[r]
IInv == Typed /\ Accounts /\ NoneLost

\* Steps that touch no unit.
LEMMA AccountsStay ==
  ASSUME Accounts, UNCHANGED <<resours, units, surplus>>
  PROVE  Accounts'
BY DEF Accounts, HeldBy

\* Steps that create no process, and keep in a list those they do not destroy.
LEMMA NoneLostStays ==
  ASSUME NoneLost, UNCHANGED <<made, pid, priority>>, destroyed \subseteq destroyed',
         \A r \in Resources : ToSet(waiting[r]) \subseteq ToSet(waiting'[r]),
         ASSUME NEW p \in 1..made, Distinct, p \notin destroyed', priority[p] \in Levels,
                p \in ToSet(ready[priority[p]])
         PROVE  \/ p \in ToSet(ready'[priority[p]])
                \/ \E r \in Resources : p \in ToSet(waiting'[r])
  PROVE  NoneLost'
<1> SUFFICES ASSUME Distinct', NEW p \in 1..made, p \notin destroyed', priority[p] \in Levels
             PROVE  \/ p \in ToSet(ready'[priority[p]])
                    \/ \E r \in Resources : p \in ToSet(waiting'[r])
  BY DEF NoneLost
<1>1. Distinct /\ p \notin destroyed
  BY DEF Distinct
<1>2. \/ p \in ToSet(ready[priority[p]])
      \/ \E r \in Resources : p \in ToSet(waiting[r])
  BY <1>1 DEF NoneLost
<1> QED
  BY <1>1, <1>2

LEMMA MadeArePcbs == ASSUME Counts PROVE 1..made \in SUBSET Pcbs /\ made \in Nat
BY SizeAssumption DEF Counts, Pcbs

LEMMA InitInv == Init => IInv
<1> SUFFICES ASSUME Init PROVE IInv
  OBVIOUS
<1> USE SizeAssumption, NameAssumption
<1>1. Counts
  BY DEF Init, Counts, Holdings, NoUnits, Pcbs
<1>2. Lists
  <2>1. <<1>> \in Seq(1..made) /\ <<>> \in Seq(1..made) /\ current \in 1..made
    BY DEF Init
  <2> QED
    BY <2>1 DEF Init, Lists
<1>3. Accounts
  <2> SUFFICES ASSUME NEW r \in Resources
               PROVE  /\ IsFiniteSet(HeldBy(resours, r, Pcbs))
                      /\ units[r] + Cardinality(HeldBy(resours, r, Pcbs)) = r + surplus[r]
    BY DEF Accounts
  <2>1. HeldBy(resours, r, Pcbs) = {}
    BY DEF Init, HeldBy, NoUnits
  <2>2. units[r] = r /\ surplus[r] = 0 /\ r \in Nat
    BY DEF Init, NoUnits
  <2> QED
    BY <2>1, <2>2, FS_EmptySet
<1>4. NoneLost
  <2> SUFFICES ASSUME NEW p \in 1..made PROVE p \in ToSet(ready[priority[p]])
    BY DEF NoneLost
  <2>1. p = 1 /\ priority[p] = 0 /\ ready[0] = <<1>>
    BY DEF Init, Levels, Pcbs
  <2>2. 1 \in ToSet(<<1>>)
    BY DEF ToSet
  <2> QED
    BY <2>1, <2>2
<1> QED
  BY <1>1, <1>2, <1>3, <1>4 DEF IInv, Typed

LEMMA CreateKeeps ==
  ASSUME IInv, NEW name \in Names, NEW pri \in Priorities, Create(name, pri)
  PROVE  IInv'
<1>1. /\ Counts /\ Lists /\ Accounts /\ NoneLost /\ made < MaxPcbs /\ made' = made + 1
      /\ phase = "running"
      /\ pid' = [pid EXCEPT ![made + 1] = name]
      /\ priority' = [priority EXCEPT ![made + 1] = pri]
      /\ ready' = Insert(ready, pri, made + 1) /\ Scheduler
      /\ UNCHANGED <<status, blocked_num, resours, units, waiting, destroyed, surplus>>
  BY DEF IInv, Typed, Create, rcb
<1>2. made \in Nat /\ made + 1 \in Pcbs /\ made + 1 \in 1..made' /\ made' \in 1..MaxPcbs
  BY <1>1, MadeArePcbs, SizeAssumption DEF Pcbs
<1>3. Counts'
  BY <1>1, <1>2, SizeAssumption DEF Counts
<1>4. \A s \in Seq(1..made) : s \in Seq(1..made')
  BY <1>1, <1>2, SeqGrows
<1>5. ready \in [Levels -> Seq(1..made')] /\ waiting \in [Resources -> Seq(1..made')]
  BY <1>1, <1>4 DEF Lists
<1>6. /\ ready' \in [Levels -> Seq(1..made')]
      /\ \A l \in Levels : ToSet(ready[l]) \subseteq ToSet(ready'[l])
      /\ pri \in Levels => made + 1 \in ToSet(ready'[pri])
  BY <1>1, <1>2, <1>5, InsertTypes
<1>7. Lists'
  BY <1>1, <1>5, <1>6, SchedulerTypes DEF Lists
<1>8. NoneLost'
  <2> SUFFICES ASSUME Distinct', NEW p \in 1..made', p \notin destroyed, priority'[p] \in Levels
               PROVE  \/ p \in ToSet(ready'[priority'[p]])
                      \/ \E r \in Resources : p \in ToSet(waiting[r])
    BY <1>1 DEF NoneLost
  <2>1. CASE p = made + 1
    <3>1. priority'[p] = pri
      BY <2>1, <1>1, <1>2 DEF Counts
    <3> QED
      BY <2>1, <3>1, <1>6
  <2>2. CASE p # made + 1
    <3>1. \A q \in 1..made : q \in 1..made' /\ q \in Pcbs /\ q # made + 1
      <4>1. \A q \in 1..made : q \in Pcbs
        BY <1>1, MadeArePcbs
      <4>2. \A q \in 1..made : q \in 1..(made + 1) /\ q # made + 1
        BY <1>2
      <4> QED
        BY <4>1, <4>2, <1>1
    <3>2. \A q \in 1..made : pid'[q] = pid[q] /\ priority'[q] = priority[q]
      BY <3>1, <1>1, <1>2 DEF Counts
    <3>3. p \in 1..made
      BY <2>2, <1>1, <1>2
    <3>4. Distinct
      BY <3>1, <3>2 DEF Distinct
    <3>5. priority[p] \in Levels /\ priority'[p] = priority[p]
      BY <3>2, <3>3
    <3>6. \/ p \in ToSet(ready[priority[p]])
          \/ \E r \in Resources : p \in ToSet(waiting[r])
      BY <3>3, <3>4, <3>5, <1>1 DEF NoneLost
    <3> QED
      BY <3>5, <3>6, <1>6
  <2> QED
    BY <2>1, <2>2
<1> QED
  BY <1>1, <1>3, <1>7, <1>8, AccountsStay DEF IInv, Typed

LEMMA DestroyKeeps ==
  ASSUME IInv, NEW name \in Names, Destroy(name)
  PROVE  IInv'
<1> DEFINE S == Tree(Find_Name_PCB(name))
           gone(k) == [n \in Names |-> Cardinality({p \in S : pid[p] = n /\ priority[p] = k})]
<1>1. /\ Counts /\ Lists /\ Accounts /\ NoneLost
      /\ units' = [r \in Resources |-> units[r] + Cardinality(UnitsOf(r, S))]
      /\ resours' = DropUnits(S)
      /\ ready' = [k \in Levels |-> Delete(ready[k], gone(k))]
      /\ destroyed' = destroyed \cup S /\ Scheduler
      /\ UNCHANGED <<made, pid, priority, parent, status, blocked_num, waiting, surplus>>
  BY DEF IInv, Typed, Destroy, pcb
<1>2. S \in SUBSET (1..made)
  BY DEF Tree
<1> HIDE DEF S
<1>3. S \in SUBSET Pcbs /\ made \in Nat
  BY <1>1, <1>2, MadeArePcbs
<1>4. resours' = [p \in Pcbs |-> IF p \in S THEN NoUnits ELSE resours[p]] /\ resours' \in Holdings
  BY <1>1 DEF DropUnits, Counts, Holdings, NoUnits
<1>5. ASSUME NEW r \in Resources
      PROVE  /\ IsFiniteSet(HeldBy(resours', r, Pcbs))
             /\ Cardinality(HeldBy(resours, r, S)) \in Nat
             /\ Cardinality(HeldBy(resours, r, Pcbs))
                  = Cardinality(HeldBy(resours, r, S)) + Cardinality(HeldBy(resours', r, Pcbs))
  BY <1>1, <1>3, <1>4, UnitsDropped DEF Counts, Accounts
<1>6. \A r \in Resources : units'[r] = units[r] + Cardinality(HeldBy(resours, r, S))
  BY <1>1 DEF UnitsOf, HeldBy
<1>7. Counts'
  <2>1. units' \in [Resources -> Nat]
    BY <1>1, <1>5, <1>6 DEF Counts
  <2> QED
    BY <2>1, <1>1, <1>4 DEF Counts
<1>8. Accounts'
  <2> SUFFICES ASSUME NEW r \in Resources
               PROVE  /\ IsFiniteSet(HeldBy(resours', r, Pcbs))
                      /\ units'[r] + Cardinality(HeldBy(resours', r, Pcbs)) = r + surplus[r]
    BY <1>1 DEF Accounts
  <2>1. Cardinality(HeldBy(resours', r, Pcbs)) \in Nat /\ units[r] \in Nat
    BY <1>1, <1>5, FS_CardinalityType DEF Counts
  <2>2. units[r] + Cardinality(HeldBy(resours, r, Pcbs)) = r + surplus[r]
    BY <1>1 DEF Accounts
  <2> QED
    BY <2>1, <2>2, <1>5, <1>6
<1>9. ASSUME NEW k \in Levels
      PROVE  /\ ready'[k] \in Seq(1..made)
             /\ \A p \in ToSet(ready[k]) : gone(k)[pid[p]] = 0 => p \in ToSet(ready'[k])
  <2>1. ready[k] \in Seq(1..made) /\ ready'[k] = Delete(ready[k], gone(k))
    BY <1>1 DEF Lists
  <2> HIDE DEF gone
  <2> QED
    BY <2>1, DeleteKeeps
<1>10. Lists'
  <2>1. ready' \in [Levels -> Seq(1..made')]
    <3> HIDE DEF gone
    <3> QED
      BY <1>1, <1>9
  <2> QED
    BY <2>1, <1>1, SchedulerTypes DEF Lists
<1>11. NoneLost'
  <2>1. ASSUME NEW p \in 1..made, Distinct, p \notin destroyed', priority[p] \in Levels,
               p \in ToSet(ready[priority[p]])
        PROVE  p \in ToSet(ready'[priority[p]])
    <3>1. p \notin S /\ p \in Pcbs /\ pid[p] \in Names
      BY <2>1, <1>1, <1>3, MadeArePcbs DEF Counts
    <3>2. {q \in S : pid[q] = pid[p] /\ priority[q] = priority[p]} = {}
      BY <2>1, <3>1, <1>2 DEF Distinct
    <3>3. gone(priority[p])[pid[p]] = 0
      BY <3>1, <3>2, FS_EmptySet
    <3> HIDE DEF gone
    <3> QED
      BY <3>3, <2>1, <1>9
  <2> QED
    BY <2>1, <1>1, NoneLostStays
<1> QED
  BY <1>7, <1>8, <1>10, <1>11 DEF IInv, Typed

LEMMA GrantKeeps ==
  ASSUME IInv, NEW r \in Resources, NEW n \in 0..MaxUnits, Grant(r, n)
  PROVE  IInv'
<1>1. /\ Counts /\ Lists /\ Accounts /\ NoneLost /\ phase = "running" /\ Covered(r, n)
      /\ units' = [units EXCEPT ![r] = @ - n]
      /\ resours' = [resours EXCEPT ![current][r] = @ + n]
      /\ UNCHANGED <<made, pid, priority, parent, status, blocked_num, ready, waiting, current,
                     phase, destroyed, surplus>>
  BY DEF IInv, Typed, Grant, pcb
<1>2. current \in Pcbs /\ n \in Nat /\ units[r] \in Nat /\ resours[current][r] \in Nat
      /\ units[r] - n \in Nat /\ resours \in Holdings
  <2>1. current \in Pcbs
    BY <1>1, MadeArePcbs DEF Lists
  <2> QED
    BY <2>1, <1>1, SizeAssumption DEF Counts, Covered, Holdings
<1>3. /\ resours' = [resours EXCEPT ![current][r] = resours[current][r] + n]
      /\ resours' \in Holdings
  BY <1>1, <1>2 DEF Holdings
<1>4. /\ IsFiniteSet(HeldBy(resours', r, Pcbs))
      /\ Cardinality(HeldBy(resours', r, Pcbs)) + resours[current][r]
           = Cardinality(HeldBy(resours, r, Pcbs)) + (resours[current][r] + n)
      /\ \A s \in Resources \ {r} : HeldBy(resours', s, Pcbs) = HeldBy(resours, s, Pcbs)
  <2>1. IsFiniteSet(HeldBy(resours, r, Pcbs))
    BY <1>1 DEF Accounts
  <2>2. resours[current][r] + n \in Nat
    BY <1>2
  <2>3. /\ resours'[current][r] = resours[current][r] + n
        /\ \A q \in Pcbs, s \in Resources :
              q # current \/ s # r => resours'[q][s] = resours[q][s]
    BY <1>2, <1>3 DEF Holdings
  <2>4. resours \in Holdings /\ resours' \in Holdings /\ current \in Pcbs
    BY <1>2, <1>3
  <2> QED
    BY ONLY <2>1, <2>2, <2>3, <2>4, UnitsChange, r \in Resources
<1>5. Accounts'
  <2> SUFFICES ASSUME NEW s \in Resources
               PROVE  /\ IsFiniteSet(HeldBy(resours', s, Pcbs))
                      /\ units'[s] + Cardinality(HeldBy(resours', s, Pcbs)) = s + surplus[s]
    BY <1>1 DEF Accounts
  <2>1. /\ IsFiniteSet(HeldBy(resours, s, Pcbs)) /\ units[s] \in Nat
        /\ units[s] + Cardinality(HeldBy(resours, s, Pcbs)) = s + surplus[s]
    BY <1>1 DEF Accounts, Counts
  <2>2. CASE s = r
    <3>1. /\ Cardinality(HeldBy(resours', r, Pcbs)) \in Nat
          /\ Cardinality(HeldBy(resours, r, Pcbs)) \in Nat
      BY <2>1, <2>2, <1>4, FS_CardinalityType
    <3>2. units'[r] = units[r] - n
      BY <1>1 DEF Counts
    <3>3. units'[r] + Cardinality(HeldBy(resours', r, Pcbs))
            = units[r] + Cardinality(HeldBy(resours, r, Pcbs))
      <4> DEFINE before == Cardinality(HeldBy(resours, r, Pcbs))
                 after  == Cardinality(HeldBy(resours', r, Pcbs))
                 mine   == resours[current][r]
                 free   == units[r]
      <4>1. before \in Nat /\ after \in Nat /\ mine \in Nat /\ free \in Nat
        BY <3>1, <1>2
      <4>2. after + mine = before + (mine + n)
        BY <1>4
      <4> HIDE DEF before, after, mine, free
      <4>3. (free - n) + after = free + before
        BY <4>1, <4>2, <1>2
      <4> QED
        BY <4>3, <3>2 DEF before, after, free
    <3> QED
      BY <3>3, <2>1, <2>2, <1>4
  <2>3. CASE s # r
    BY <2>1, <2>3, <1>1, <1>4 DEF Counts
  <2> QED
    BY <2>2, <2>3
<1>6. Counts' /\ Lists'
  BY <1>1, <1>2, <1>3 DEF Counts, Lists
<1>7. NoneLost'
  BY <1>1, NoneLostStays
<1> QED
  BY <1>5, <1>6, <1>7 DEF IInv, Typed

LEMMA BlockKeeps ==
  ASSUME IInv, NEW r \in Resources, NEW n \in 0..MaxUnits, Block(r, n)
  PROVE  IInv'
<1>1. /\ Counts /\ Lists /\ Accounts /\ NoneLost /\ phase = "running"
      /\ blocked_num' = [blocked_num EXCEPT ![current] = n]
      /\ ready' = Remove_Ready(ready, current)
      /\ waiting' = [waiting EXCEPT ![r] = Append(waiting[r], current)]
      /\ Scheduler
      /\ UNCHANGED <<made, pid, priority, parent, resours, units, destroyed, surplus>>
  BY DEF IInv, Typed, Block, LineUp, pcb
<1>2. current \in 1..made /\ current \in Pcbs /\ 1..made \in SUBSET Pcbs
  BY <1>1, MadeArePcbs DEF Lists
<1>3. Counts'
  BY <1>1 DEF Counts
<1>4. /\ ready' \in [Levels -> Seq(1..made)]
      /\ \A l \in Levels : \A p \in ToSet(ready[l]) :
            pid[p] # pid[current] => p \in ToSet(ready'[l])
  BY <1>1, <1>2, RemoveTypes DEF Lists, Counts
<1>5. waiting[r] \in Seq(1..made) /\ Append(waiting[r], current) \in Seq(1..made)
  BY <1>1, <1>2 DEF Lists
<1>6. waiting' \in [Resources -> Seq(1..made)]
  BY <1>1, <1>5 DEF Lists
<1>7. Lists'
  BY <1>1, <1>4, <1>6, SchedulerTypes DEF Lists
<1>8. /\ ToSet(waiting[r]) \subseteq ToSet(Append(waiting[r], current))
      /\ current \in ToSet(Append(waiting[r], current))
  <2> DEFINE s == Append(waiting[r], current)
  <2>1. /\ DOMAIN s = 1..(Len(waiting[r]) + 1) /\ DOMAIN waiting[r] = 1..Len(waiting[r])
        /\ Len(waiting[r]) \in Nat
        /\ \A m \in 1..Len(waiting[r]) : s[m] = waiting[r][m]
        /\ s[Len(waiting[r]) + 1] = current
    BY <1>5
  <2>2. Len(waiting[r]) + 1 \in DOMAIN s /\ DOMAIN waiting[r] \subseteq DOMAIN s
    BY <2>1
  <2> HIDE DEF s
  <2>3. ToSet(waiting[r]) \subseteq ToSet(s) /\ current \in ToSet(s)
    BY <2>1, <2>2 DEF ToSet
  <2> QED
    BY <2>3 DEF s
<1>9. /\ waiting'[r] = Append(waiting[r], current)
      /\ \A s \in Resources \ {r} : waiting'[s] = waiting[s]
  BY <1>1 DEF Lists
<1>10. NoneLost'
  <2>1. ASSUME NEW p \in 1..made, Distinct, p \notin destroyed', priority[p] \in Levels,
               p \in ToSet(ready[priority[p]])
        PROVE  \/ p \in ToSet(ready'[priority[p]])
               \/ \E s \in Resources : p \in ToSet(waiting'[s])
    <3>1. CASE p = current
      BY <3>1, <1>8, <1>9
    <3>2. CASE p # current
      BY <3>2, <2>1, <1>2, <1>4 DEF Distinct
    <3> QED
      BY <3>1, <3>2
  <2>2. \A s \in Resources : ToSet(waiting[s]) \subseteq ToSet(waiting'[s])
    BY <1>8, <1>9
  <2> QED
    BY <2>1, <2>2, <1>1, NoneLostStays
<1> QED
  BY <1>1, <1>3, <1>7, <1>10, AccountsStay DEF IInv, Typed

LEMMA ReleaseKeeps ==
  ASSUME IInv, NEW r \in Resources, NEW n \in 0..MaxUnits, Release(r, n)
  PROVE  IInv'
<1> DEFINE held  == resours[current][r]
           freed == IF n < held THEN n ELSE held
           m     == Served(waiting[r], units[r] + n)
           taken == Demand(waiting[r], m)
           k     == priority[current]
<1>1. /\ Counts /\ Lists /\ Accounts /\ NoneLost /\ phase = "running"
      /\ units' = [units EXCEPT ![r] = units[r] + n - taken]
      /\ resours' = [resours EXCEPT ![current][r] = held - freed + taken]
      /\ surplus' = [surplus EXCEPT ![r] = surplus[r] + n - freed]
      /\ IF m = 0 THEN UNCHANGED <<ready, current, phase>>
         ELSE /\ ready' = [ready EXCEPT ![k] = ready[k] \o [l \in 1..m |-> current]]
              /\ Scheduler
      /\ UNCHANGED <<made, pid, priority, parent, blocked_num, waiting, destroyed>>
  BY DEF IInv, Typed, Release, pcb
<1>2. /\ current \in 1..made /\ current \in Pcbs /\ n \in Nat /\ units[r] \in Nat
      /\ held \in Nat /\ surplus[r] \in Nat /\ resours \in Holdings
      /\ waiting[r] \in Seq(1..made) /\ units[r] + n \in Nat
  <2>1. current \in 1..made /\ current \in Pcbs
    BY <1>1, MadeArePcbs DEF Lists
  <2>2. n \in Nat /\ units[r] \in Nat /\ surplus[r] \in Nat /\ resours \in Holdings
    BY <1>1, SizeAssumption DEF Counts
  <2> QED
    BY <2>1, <2>2, <1>1 DEF Holdings, Lists
<1>3. m \in 0..Len(waiting[r]) /\ taken \in Nat /\ taken <= units[r] + n
  BY <1>1, <1>2, ServedTypes
<1>4. m \in Nat /\ freed \in Nat /\ freed <= held /\ freed <= n
  BY <1>2, <1>3
<1> HIDE DEF held, freed, m, taken, k
<1>5. held - freed + taken \in Nat /\ units[r] + n - taken \in Nat /\ surplus[r] + n - freed \in Nat
  BY <1>2, <1>3, <1>4
<1>6. resours' \in Holdings
  BY <1>1, <1>2, <1>5 DEF Holdings
<1>7. /\ IsFiniteSet(HeldBy(resours', r, Pcbs))
      /\ Cardinality(HeldBy(resours', r, Pcbs)) + held
           = Cardinality(HeldBy(resours, r, Pcbs)) + (held - freed + taken)
      /\ \A s \in Resources \ {r} : HeldBy(resours', s, Pcbs) = HeldBy(resours, s, Pcbs)
  <2>1. IsFiniteSet(HeldBy(resours, r, Pcbs))
    BY <1>1 DEF Accounts
  <2>2. held = resours[current][r]
    BY DEF held
  <2> DEFINE left == held - freed + taken
  <2>3. left \in Nat /\ resours' = [resours EXCEPT ![current][r] = left]
    BY <1>1, <1>5
  <2> HIDE DEF left
  <2>4. /\ IsFiniteSet(HeldBy(resours', r, Pcbs))
        /\ Cardinality(HeldBy(resours', r, Pcbs)) + resours[current][r]
             = Cardinality(HeldBy(resours, r, Pcbs)) + left
        /\ \A s \in Resources \ {r} : HeldBy(resours', s, Pcbs) = HeldBy(resours, s, Pcbs)
    <3>1. /\ resours'[current][r] = left
          /\ \A q \in Pcbs, s \in Resources :
                q # current \/ s # r => resours'[q][s] = resours[q][s]
      BY <2>3, <1>2 DEF Holdings
    <3>2. resours \in Holdings /\ resours' \in Holdings /\ current \in Pcbs /\ left \in Nat
      BY <2>3, <1>2, <1>6
    <3> QED
      BY ONLY <3>1, <3>2, <2>1, UnitsChange, r \in Resources
  <2> QED
    BY <2>2, <2>4 DEF left
<1>8. Accounts'
  <2> SUFFICES ASSUME NEW s \in Resources
               PROVE  /\ IsFiniteSet(HeldBy(resours', s, Pcbs))
                      /\ units'[s] + Cardinality(HeldBy(resours', s, Pcbs)) = s + surplus'[s]
    BY DEF Accounts
  <2>1. /\ IsFiniteSet(HeldBy(resours, s, Pcbs))
        /\ units[s] + Cardinality(HeldBy(resours, s, Pcbs)) = s + surplus[s] /\ s \in Nat
    BY <1>1, SizeAssumption DEF Accounts
  <2>2. CASE s = r
    <3>1. /\ Cardinality(HeldBy(resours', r, Pcbs)) \in Nat
          /\ Cardinality(HeldBy(resours, r, Pcbs)) \in Nat
      BY <2>1, <2>2, <1>7, FS_CardinalityType
    <3>2. units'[r] = units[r] + n - taken /\ surplus'[r] = surplus[r] + n - freed
      BY <1>1 DEF Counts
    <3>3. units'[r] + Cardinality(HeldBy(resours', r, Pcbs)) = r + surplus'[r]
      <4> DEFINE before == Cardinality(HeldBy(resours, r, Pcbs))
                 after  == Cardinality(HeldBy(resours', r, Pcbs))
                 free   == units[r]
                 extra  == surplus[r]
      <4>1. before \in Nat /\ after \in Nat /\ free \in Nat /\ extra \in Nat
        BY <3>1, <1>2
      <4>2. free + before = r + extra /\ r \in Nat
        BY <2>1, <2>2
      <4>3. after + held = before + (held - freed + taken)
        BY <1>7
      <4> HIDE DEF before, after, free, extra
      <4>4. (free + n - taken) + after = r + (extra + n - freed)
        BY <4>1, <4>2, <4>3, <1>2, <1>3, <1>4
      <4> QED
        BY <4>4, <3>2 DEF after, free, extra
    <3> QED
      BY <3>3, <2>2, <1>7
  <2>3. CASE s # r
    BY <2>1, <2>3, <1>1, <1>7 DEF Counts
  <2> QED
    BY <2>2, <2>3
<1>9. Counts'
  BY <1>1, <1>5, <1>6 DEF Counts
<1>10. Lists' /\ \A l \in Levels : ToSet(ready[l]) \subseteq ToSet(ready'[l])
  <2>1. CASE m = 0
    BY <2>1, <1>1 DEF Lists
  <2>2. CASE m # 0 /\ k \notin Levels
    <3>1. ready' = ready /\ Scheduler
      BY <2>2, <1>1 DEF Lists
    <3> QED
      BY <3>1, <1>1, SchedulerTypes DEF Lists
  <2>3. CASE m # 0 /\ k \in Levels
    <3> DEFINE more == [l \in 1..m |-> current]
    <3>1. ready[k] \in Seq(1..made) /\ more \in Seq(1..made)
      <4>1. ready[k] \in Seq(1..made)
        BY <2>3, <1>1 DEF Lists
      <4>2. more \in Seq(1..made)
        BY <1>2, <1>4
      <4> QED
        BY <4>1, <4>2
    <3>2. ready' = [ready EXCEPT ![k] = ready[k] \o more] /\ Scheduler
      BY <2>3, <1>1
    <3> HIDE DEF more
    <3>3. /\ ready[k] \o more \in Seq(1..made)
          /\ DOMAIN ready[k] \subseteq DOMAIN (ready[k] \o more)
          /\ \A l \in DOMAIN ready[k] : (ready[k] \o more)[l] = ready[k][l]
      BY <3>1
    <3>4. ToSet(ready[k]) \subseteq ToSet(ready[k] \o more)
      BY <3>3 DEF ToSet
    <3>5. ready' \in [Levels -> Seq(1..made')]
      BY <3>2, <3>3, <1>1 DEF Lists
    <3>6. \A l \in Levels : ready'[l] = IF l = k THEN ready[k] \o more ELSE ready[l]
      BY <3>2, <1>1 DEF Lists
    <3> QED
      BY <3>2, <3>4, <3>5, <3>6, <1>1, SchedulerTypes DEF Lists
  <2> QED
    BY <2>1, <2>2, <2>3
<1>11. NoneLost'
  BY <1>1, <1>10, NoneLostStays
<1> QED
  BY <1>8, <1>9, <1>10, <1>11 DEF IInv, Typed

LEMMA TimeOutKeeps == ASSUME IInv, Time_Out PROVE IInv'
<1> DEFINE q == Remove_Ready(ready, current)
<1>1. /\ Counts /\ Lists /\ Accounts /\ NoneLost /\ phase = "running"
      /\ ready' = Insert(q, priority[current], current) /\ Scheduler
      /\ UNCHANGED <<made, pid, priority, parent, blocked_num, resours, units, waiting,
                     destroyed, surplus>>
  BY DEF IInv, Typed, Time_Out, pcb, rcb
<1>2. current \in 1..made /\ current \in Pcbs /\ 1..made \in SUBSET Pcbs
  BY <1>1, MadeArePcbs DEF Lists
<1>3. /\ q \in [Levels -> Seq(1..made)]
      /\ \A l \in Levels : \A p \in ToSet(ready[l]) : pid[p] # pid[current] => p \in ToSet(q[l])
  BY <1>1, <1>2, RemoveTypes DEF Lists, Counts
<1> HIDE DEF q
<1>4. /\ ready' \in [Levels -> Seq(1..made)]
      /\ \A l \in Levels : ToSet(q[l]) \subseteq ToSet(ready'[l])
      /\ priority[current] \in Levels => current \in ToSet(ready'[priority[current]])
  BY <1>1, <1>2, <1>3, InsertTypes
<1>5. Counts' /\ Lists'
  BY <1>1, <1>4, SchedulerTypes DEF Counts, Lists
<1>6. NoneLost'
  <2>1. ASSUME NEW p \in 1..made, Distinct, p \notin destroyed', priority[p] \in Levels,
               p \in ToSet(ready[priority[p]])
        PROVE  p \in ToSet(ready'[priority[p]])
    <3>1. CASE p = current
      BY <3>1, <2>1, <1>4
    <3>2. CASE p # current
      BY <3>2, <2>1, <1>2, <1>3, <1>4 DEF Distinct
    <3> QED
      BY <3>1, <3>2
  <2> QED
    BY <2>1, <1>1, NoneLostStays
<1> QED
  BY <1>1, <1>5, <1>6, AccountsStay DEF IInv, Typed

LEMMA ExitKeeps ==
  ASSUME IInv, phase' # "running",
         UNCHANGED <<pcb, status, blocked_num, resours, ready, rcb, current, destroyed, surplus>>
  PROVE  IInv'
<1>1. UNCHANGED <<made, pid, priority, blocked_num, resours, ready, units, waiting, current,
                  destroyed, surplus>>
  BY DEF pcb, rcb
<1>2. Typed'
  BY <1>1 DEF IInv, Typed, Counts, Lists
<1>3. Accounts' /\ NoneLost'
  BY <1>1, AccountsStay, NoneLostStays DEF IInv
<1> QED
  BY <1>2, <1>3 DEF IInv

LEMMA Invariance == Spec => []IInv
<1>1. IInv /\ [Next]_vars => IInv'
  <2> SUFFICES ASSUME IInv, [Next]_vars PROVE IInv'
    OBVIOUS
  <2>1. ASSUME NEW r \in Resources, NEW n \in 0..MaxUnits, RequestTooMany(r, n) PROVE IInv'
    BY <2>1, ExitKeeps DEF RequestTooMany
  <2>2. ASSUME NEW r \in Resources, ReleaseNothing(r) PROVE IInv'
    BY <2>2, ExitKeeps DEF ReleaseNothing
  <2>3. CASE UNCHANGED vars
    <3>1. UNCHANGED <<made, pid, priority, blocked_num, resours, ready, units, waiting, current,
                      phase, destroyed, surplus>>
      BY <2>3 DEF vars, pcb, rcb
    <3>2. Typed'
      BY <3>1 DEF IInv, Typed, Counts, Lists
    <3>3. Accounts' /\ NoneLost'
      BY <3>1, AccountsStay, NoneLostStays DEF IInv
    <3> QED
      BY <3>2, <3>3 DEF IInv
  <2> QED
    BY <2>1, <2>2, <2>3, CreateKeeps, DestroyKeeps, GrantKeeps, BlockKeeps, ReleaseKeeps,
       TimeOutKeeps DEF Next
<1> QED
  BY InitInv, <1>1, PTL DEF Spec

\* After every command the accounts and the lists have their types, and the running process
\* is one that was created (Create, Scheduler; tShell.c:319, :538).
THEOREM ShellTypes == Spec => []Typed
<1>1. IInv => Typed
  BY DEF IInv
<1> QED
  BY <1>1, Invariance, PTL

\* No sequence of commands loses or makes a unit, except a release of more than is held
\* (Request, Release, Kill_Tree; tShell.c:444-536), for any number of processes, names,
\* resources and units.
THEOREM UnitsConserved == Spec => []Conserved
<1>1. IInv => Conserved
  BY DEF IInv, Accounts, Conserved, UnitsOf, HeldBy
<1> QED
  BY <1>1, Invariance, PTL

\* With unique names, no sequence of commands makes a process disappear that was not
\* destroyed: removing by name (tShell.c:244-261) removes the right entry.
THEOREM NoProcessLost == Spec => []NoneLost
<1>1. IInv => NoneLost
  BY DEF IInv
<1> QED
  BY <1>1, Invariance, PTL
=============================================================================
