------------------------------ MODULE RamDisk ------------------------------
(***************************************************************************)
(* What the NVM block device promises the block layer.  A request covers a *)
(* run of sectors; while it is in progress its sectors are transferred one *)
(* at a time, each at one instant, and it completes with success only when *)
(* all of them have been.  A request that does not fit fails, with no      *)
(* sector transferred.                                                     *)
(***************************************************************************)
EXTENDS Naturals

CONSTANTS Threads,    \* the threads that submit requests
          Requests,   \* records [rw, first, count, data] a thread may submit
          Sectors,    \* the sectors of the device
          Value,      \* the contents of a sector
          Fresh       \* a buffer nothing has been read into, a function of offsets

VARIABLES store,      \* the contents of the device
          request     \* per thread: the request, its sectors left and its outcome

vars == <<store, request>>

Idle == [stage |-> "idle"]
Covered(q) == q.first..(q.first + q.count - 1)

Init == store \in [Sectors -> Value] /\ request = [t \in Threads |-> Idle]

Submit(t) ==
    /\ request[t] = Idle
    /\ \E q \in Requests :
          request' = [request EXCEPT ![t] = [stage |-> "busy", req |-> q,
                                                   left |-> Covered(q), got |-> Fresh]]
    /\ UNCHANGED store

\* Only requests inside the device move data.
Transfer(t, s) ==
    /\ request[t].stage = "busy"
    /\ request[t].req.first + request[t].req.count - 1 \in Sectors
    /\ s \in request[t].left
    /\ \/ /\ request[t].req.rw = "WRITE"
          /\ store' = [store EXCEPT ![s] = request[t].req.data]
          /\ request' = [request EXCEPT ![t].left = @ \ {s}]
       \/ /\ request[t].req.rw = "READ"
          /\ request' = [request EXCEPT ![t].left = @ \ {s},
                                        ![t].got = [@ EXCEPT ![s - request[t].req.first] = store[s]]]
          /\ UNCHANGED store

Succeed(t) ==
    /\ request[t].stage = "busy" /\ request[t].left = {}
    /\ request' = [request EXCEPT ![t].stage = "ok"]
    /\ UNCHANGED store

Reject(t) ==
    /\ request[t].stage = "busy"
    /\ ~(Covered(request[t].req) \subseteq Sectors)
    /\ request' = [request EXCEPT ![t].stage = "error"]
    /\ UNCHANGED store

Finish(t) ==
    /\ request[t].stage \in {"ok", "error"}
    /\ request' = [request EXCEPT ![t] = Idle]
    /\ UNCHANGED store

Next == \E t \in Threads :
           \/ Submit(t) \/ Succeed(t) \/ Reject(t) \/ Finish(t)
           \/ \E s \in Sectors : Transfer(t, s)

Spec == Init /\ [][Next]_vars
=============================================================================
