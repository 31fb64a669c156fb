------------------------------- MODULE TShell ------------------------------
(***************************************************************************)
(* qinke/tShell-Procss-Lab/tShell.c: the process and resource manager      *)
(* behind the test shell.  The user creates and destroys processes, lets   *)
(* the running one request and release resources, and ticks the clock;     *)
(* after each command Scheduler makes the head of the highest non-empty    *)
(* ready list the running process.                                         *)
(*                                                                         *)
(* A PCB is the number of its creation.  The resource list of a PCB is a   *)
(* count per resource, the child lists are the inverse of parent, and      *)
(* blocked_list, which nobody reads, is left out.  Memory that malloc      *)
(* returns is zero, as on a fresh heap.                                    *)
(***************************************************************************)
EXTENDS Integers, Sequences, FiniteSets, SequencesExt

CONSTANTS Names,       \* the pids a user types; InitName among them
          InitName,        \* "init", the first process
          Priorities,  \* what a user types for a priority
          Resources,   \* R1..R4: the number of a resource is also how many units it has
          MaxUnits,    \* bound: units named in a command
          MaxSurplus,  \* bound: units that over-releases add to a resource
          MaxPcbs,     \* bound: processes created
          MaxQueue     \* bound: entries of a ready list or waiting list

ASSUME NameAssumption == InitName \in Names
ASSUME SizeAssumption == /\ Priorities \subseteq Nat /\ Resources \subseteq Nat \ {0}
                         /\ MaxUnits \in Nat /\ MaxSurplus \in Nat
                         /\ MaxPcbs \in Nat \ {0} /\ MaxQueue \in Nat

Pcbs == 1..MaxPcbs
NULL == 0
Levels == 0..2          \* the lists Init, User, System
READY == 1
BLOCKED == 2

VARIABLES made,                          \* the PCBs that exist, dead ones included: 1..made
          pid, priority, parent, status, blocked_num, resours,
          ready,                         \* the ready list of each level
          units, waiting,                \* RCB: free units, waiting list
          current,                       \* CURRENT_RUNNING_PCB
          phase,                         \* "running", or how the program ended
          destroyed, surplus              \* history: PCBs killed; no over-release so far

pcb  == <<made, pid, priority, parent>>
rcb  == <<units, waiting>>
vars == <<pcb, status, blocked_num, resours, ready, rcb, current, phase, destroyed, surplus>>

NoUnits == [r \in Resources |-> 0]

Init == /\ made = 1
        /\ pid = [p \in Pcbs |-> InitName]
        /\ priority = [p \in Pcbs |-> 0] /\ parent = [p \in Pcbs |-> NULL]
        /\ status = [p \in Pcbs |-> READY] /\ blocked_num = [p \in Pcbs |-> 0]
        /\ resours = [p \in Pcbs |-> NoUnits]
        /\ ready = [k \in Levels |-> IF k = 0 THEN <<1>> ELSE <<>>]
        /\ units = [r \in Resources |-> r] /\ waiting = [r \in Resources |-> <<>>]
        /\ current = 1
        /\ phase = "running"
        /\ destroyed = {} /\ surplus = NoUnits

-----------------------------------------------------------------------------
(* The scheduler and its lists. *)

FindLowest(q) == IF q[0] # <<>> THEN Head(q[0])
                 ELSE IF q[1] # <<>> THEN Head(q[1])
                 ELSE IF q[2] # <<>> THEN Head(q[2]) ELSE NULL
Find_PCB(q) == IF q[2] # <<>> THEN Head(q[2])
               ELSE IF q[1] # <<>> THEN Head(q[1])
               ELSE IF q[0] # <<>> THEN Head(q[0]) ELSE NULL

\* No PCB ever has status RUNNING, so Scheduler always preempts; preempt prints the PCB it
\* is given, and NULL is a fault.
Scheduler == /\ current' = Find_PCB(ready')
             /\ phase' = IF current' = NULL THEN "fault" ELSE "running"

\* Insert_Priority: a priority that is none of the three is queued nowhere.
InsertFront(q, k, p) == IF k \in Levels THEN [q EXCEPT ![k] = <<p>> \o @] ELSE q
Insert(q, k, p) == IF k \in Levels THEN [q EXCEPT ![k] = Append(@, p)] ELSE q

\* The entries of a list at some places, in their order.
Place(kept, i) == Cardinality({j \in kept : j <= i})
Picked(list, kept) ==
    [n \in 1..Cardinality(kept) |-> list[CHOOSE i \in kept : Place(kept, i) = n]]

\* The list without the first c[n] entries of every name n.
Delete(list, c) ==
    LET Before(i) == {j \in 1..i : pid[list[j]] = pid[list[i]]}
    IN  Picked(list, {i \in 1..Len(list) : Cardinality(Before(i)) > c[pid[list[i]]]})

\* Remove_Ready takes off the first entry with the name of p.
Remove_Ready(q, p) ==
    [q EXCEPT ![priority[p]] = Delete(@, [n \in Names |-> IF n = pid[p] THEN 1 ELSE 0])]

-----------------------------------------------------------------------------
(* The commands. *)

Create(name, pri) ==
    /\ phase = "running" /\ made < MaxPcbs
    /\ \A k \in Levels : Len(ready[k]) < MaxQueue
    /\ made' = made + 1
    /\ pid' = [pid EXCEPT ![made'] = name]
    /\ priority' = [priority EXCEPT ![made'] = pri]
    /\ parent' = [parent EXCEPT ![made'] = current]
    /\ ready' = Insert(ready, pri, made')
    /\ Scheduler
    /\ UNCHANGED <<status, blocked_num, resours, rcb, destroyed, surplus>>

\* Find_Name_PCB looks in the ready lists only: a blocked process is not found, and
\* nothing happens.
Listed(name) == {k \in Levels : \E p \in ToSet(ready[k]) : pid[p] = name}
Find_Name_PCB(name) ==
    LET level == Max(Listed(name))
    IN  SelectSeq(ready[level], LAMBDA p : pid[p] = name)[1]

\* Kill_Tree reaches every descendant, those already killed included; it gives the units
\* back, and deletes from the ready list of its priority the first entry with its name.
Tree(p) == LET Under[q \in Pcbs] == q = p \/ (parent[q] # NULL /\ Under[parent[q]])
           IN  {q \in 1..made : Under[q]}

\* The units of a resource that some PCBs hold.
UnitsOf(r, S) == UNION {{p} \X (1..resours[p][r]) : p \in S}

KeepUnits(S) == resours
DropUnits(S) == [p \in Pcbs |-> IF p \in S THEN NoUnits ELSE resours[p]]

Destroy(name) ==
    /\ phase = "running"
    /\ Listed(name) # {}
    /\ LET S == Tree(Find_Name_PCB(name))
       IN  /\ units' = [r \in Resources |-> units[r] + Cardinality(UnitsOf(r, S))]
           /\ resours' = DropUnits(S)
           /\ ready' = [k \in Levels |->
                 Delete(ready[k], [n \in Names |->
                           Cardinality({p \in S : pid[p] = n /\ priority[p] = k})])]
           /\ destroyed' = destroyed \cup S
    /\ Scheduler
    /\ UNCHANGED <<pcb, status, blocked_num, waiting, surplus>>

Covered(r, n) == units[r] - n >= 0

Grant(r, n) ==
    /\ phase = "running"
    /\ Covered(r, n)
    /\ units' = [units EXCEPT ![r] = @ - n]
    /\ resours' = [resours EXCEPT ![current][r] = @ + n]
    /\ UNCHANGED <<pcb, status, blocked_num, ready, waiting, current, phase, destroyed, surplus>>

\* request too many: exit(0)
RequestTooMany(r, n) ==
    /\ phase = "running"
    /\ ~Covered(r, n) /\ n > r
    /\ phase' = "exit"
    /\ UNCHANGED <<pcb, status, blocked_num, resours, ready, rcb, current, destroyed, surplus>>

StandAside(r) == waiting[r]
LineUp(r) == Append(waiting[r], current)

Block(r, n) ==
    /\ phase = "running" /\ Len(waiting[r]) < MaxQueue
    /\ ~Covered(r, n) /\ n <= r
    /\ status' = [status EXCEPT ![current] = BLOCKED]
    /\ blocked_num' = [blocked_num EXCEPT ![current] = n]
    /\ ready' = Remove_Ready(ready, current)
    /\ waiting' = [waiting EXCEPT ![r] = LineUp(r)]
    /\ Scheduler
    /\ UNCHANGED <<pcb, resours, units, destroyed, surplus>>

\* Resource_Free of a process that holds nothing: exit(0)
Holds(p) == \E r \in Resources : resours[p][r] > 0
ReleaseNothing(r) ==
    /\ phase = "running" /\ ~Holds(current)
    /\ phase' = "exit"
    /\ UNCHANGED <<pcb, status, blocked_num, resours, ready, rcb, current, destroyed, surplus>>

\* Release frees as many of the n units as the process holds, but adds n to the free ones.
\* The waiting list is walked as long as the demand of the next entry is covered; the units
\* go to the releasing process, which is inserted once more, and only the first waiter is
\* marked READY.  Nobody leaves the waiting list.
Demand(list, m) == Cardinality(UNION {{i} \X (1..blocked_num[list[i]]) : i \in 1..m})
Served(list, free) == Max({m \in 0..Len(list) : Demand(list, m) <= free})

Release(r, n) ==
    /\ phase = "running" /\ Holds(current)
    /\ LET held  == resours[current][r]
           freed == IF n < held THEN n ELSE held
           m     == Served(waiting[r], units[r] + n)
           taken == Demand(waiting[r], m)
           k     == priority[current]
       IN  /\ units' = [units EXCEPT ![r] = @ + n - taken]
           /\ resours' = [resours EXCEPT ![current][r] = @ - freed + taken]
           /\ status' = IF m = 0 THEN status ELSE [status EXCEPT ![waiting[r][1]] = READY]
           /\ IF m = 0 THEN UNCHANGED <<ready, current, phase>>
              ELSE /\ ready' = [ready EXCEPT ![k] = @ \o [i \in 1..m |-> current]]
                   /\ Len(ready'[k]) <= MaxQueue
                   /\ Scheduler
           /\ surplus' = [surplus EXCEPT ![r] = @ + n - freed]
           /\ surplus'[r] <= MaxSurplus
    /\ UNCHANGED <<pcb, blocked_num, waiting, destroyed>>

Time_Out ==
    /\ phase = "running"
    /\ status' = [status EXCEPT ![current] = READY]
    /\ ready' = Insert(Remove_Ready(ready, current), priority[current], current)
    /\ Scheduler
    /\ UNCHANGED <<pcb, blocked_num, resours, rcb, destroyed, surplus>>

Next == \/ \E name \in Names, pri \in Priorities : Create(name, pri)
        \/ \E name \in Names : Destroy(name)
        \/ \E r \in Resources, n \in 0..MaxUnits :
              Grant(r, n) \/ RequestTooMany(r, n) \/ Block(r, n) \/ Release(r, n)
        \/ \E r \in Resources : ReleaseNothing(r)
        \/ Time_Out

Spec == Init /\ [][Next]_vars

\* The clock ticks.
FairSpec == Spec /\ WF_vars(Time_Out)

-----------------------------------------------------------------------------
(* Properties. *)

\* The running process is the first of the highest level: nobody runs while a process of
\* a higher level is ready, whatever was created, killed, blocked or granted before.
RunsHighest ==
    phase # "fault" =>
        /\ \E k \in Levels : ready[k] # <<>> /\ Head(ready[k]) = current
                             /\ \A l \in Levels : l > k => ready[l] = <<>>

\* Units are neither lost nor made, except by a release of more than the process holds: the
\* free ones and the held ones are all there are.
Conserved == \A r \in Resources :
                units[r] + Cardinality(UnitsOf(r, Pcbs)) = r + surplus[r]

\* As long as names are unique, a process that was not destroyed does not disappear: it is
\* in the ready list of its level or in a waiting list.
Distinct == \A p, q \in 1..made : pid[p] = pid[q] => p = q
NoneLost ==
    Distinct => \A p \in 1..made : p \notin destroyed /\ priority[p] \in Levels =>
        \/ p \in ToSet(ready[priority[p]])
        \/ \E r \in Resources : p \in ToSet(waiting[r])

\* The clock ticking, a process of the highest level gets its turn.
Top(p) == /\ priority[p] \in Levels /\ p \in ToSet(ready[priority[p]])
          /\ \A l \in Levels : l > priority[p] => ready[l] = <<>>
TakesTurns == \A p \in Pcbs : phase = "running" /\ Top(p)
                                  ~> current = p \/ ~Top(p) \/ phase # "running"

\* `de q': q gives back its three R3, p gets its resource and enters the ready list.  The
\* first waiter for a resource is blocked only as long as its demand is not covered.
WaiterServed ==
    \A r \in Resources : waiting[r] # <<>> =>
        LET p == Head(waiting[r]) IN status[p] = BLOCKED /\ p \notin destroyed
                                        => units[r] < blocked_num[p]
=============================================================================
