---------------------------- MODULE BoundedFifo ----------------------------
(***************************************************************************)
(* What the FIFO character device promises its callers: a bounded byte     *)
(* queue on which every read(2), write(2), FIFO_CLEAR and poll(2) takes    *)
(* effect at one instant, exactly once, or fails having moved no byte.     *)
(***************************************************************************)
EXTENDS Naturals, Sequences

CONSTANTS Threads,   \* the threads that use the device
          Buffers,   \* the byte sequences a call may carry
          Capacity   \* how many bytes the device holds

VARIABLES queue,     \* the bytes accepted and not yet handed out, oldest first
          call       \* per thread: its system call in progress

vars == <<queue, call>>

Ops == {"read", "write", "clear", "pollin", "pollout"}
NoCall == [op |-> "none", stage |-> "none", data |-> <<>>]

Init == queue = <<>> /\ call = [t \in Threads |-> NoCall]

Begin(t) ==
    /\ call[t] = NoCall
    /\ \E o \in Ops, d \in Buffers :
          call' = [call EXCEPT ![t] = [op |-> o, stage |-> "pending", data |-> d]]
    /\ UNCHANGED queue

Pending(t, o) == call[t].op = o /\ call[t].stage = "pending"

\* A read hands out a prefix of the queue.
Take(t) ==
    /\ Pending(t, "read")
    /\ \E n \in 0..Len(queue) :
          /\ call' = [call EXCEPT ![t].stage = "done",
                                  ![t].data = SubSeq(queue, 1, n)]
          /\ queue' = SubSeq(queue, n + 1, Len(queue))

\* A write appends a prefix of its buffer that fits.
Put(t) ==
    /\ Pending(t, "write")
    /\ \E n \in 0..Len(call[t].data) :
          /\ Len(queue) + n <= Capacity
          /\ queue' = queue \o SubSeq(call[t].data, 1, n)
          /\ call' = [call EXCEPT ![t].stage = "done",
                                  ![t].data = SubSeq(call[t].data, 1, n)]

Clear(t) ==
    /\ Pending(t, "clear")
    /\ queue' = <<>>
    /\ call' = [call EXCEPT ![t].stage = "done"]

\* poll(2) reports an event only while the queue has it.
Report(t) ==
    /\ \/ Pending(t, "pollin") /\ queue # <<>>
       \/ Pending(t, "pollout") /\ Len(queue) # Capacity
    /\ call' = [call EXCEPT ![t].stage = "done"]
    /\ UNCHANGED queue

\* -EAGAIN, -ERESTARTSYS and -EFAULT leave the queue as it is.
Fail(t) ==
    /\ \E o \in Ops \ {"clear"} : Pending(t, o)
    /\ call' = [call EXCEPT ![t].stage = "failed"]
    /\ UNCHANGED queue

Return(t) ==
    /\ call[t].stage \in {"done", "failed"}
    /\ call' = [call EXCEPT ![t] = NoCall]
    /\ UNCHANGED queue

Next == \E t \in Threads :
           Begin(t) \/ Take(t) \/ Put(t) \/ Clear(t) \/ Report(t) \/ Fail(t) \/ Return(t)

Spec == Init /\ [][Next]_vars
=============================================================================
