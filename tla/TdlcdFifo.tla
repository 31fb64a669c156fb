----------------------------- MODULE TdlcdFifo -----------------------------
(***************************************************************************)
(* drivers/tdlcd/tdlcd_fifo.c: one minor of the blocking FIFO character    *)
(* device.  Threads enter read(2), write(2), ioctl(FIFO_CLEAR) and poll(2) *)
(* on it; the driver serialises them with dev->mutex, lets them sleep on   *)
(* dev->r_wait and dev->w_wait, and tells the owners of dev->async_queue   *)
(* about new data with SIGIO.                                              *)
(*                                                                         *)
(* A thread is `armed' from the moment its next schedule() will put it to  *)
(* sleep (TASK_INTERRUPTIBLE in read and write, an untriggered wait in     *)
(* poll) until a wake-up or schedule() itself makes it runnable again.     *)
(* mem is the prefix of dev->mem that current_len covers: no operation     *)
(* looks behind it.                                                        *)
(***************************************************************************)
EXTENDS Integers, Sequences, FiniteSets

CONSTANTS Readers,      \* threads that call read
          Writers,      \* threads that call write
          Clearers,     \* threads that issue FIFO_CLEAR
          Pollers,      \* threads that wait with poll/select
          AsyncUsers,   \* threads that may set FASYNC on their file
          Signalled,    \* threads that somebody may send a signal to
          Byte,         \* the values of a byte
          SIZE,         \* the capacity of the device
          MaxCount,     \* bound: the longest buffer of a call
          CopyOrders,   \* the orders in which memcpy may move overlapping bytes
          NoThread      \* the mutex is free

Threads == Readers \cup Writers \cup Clearers \cup Pollers

ASSUME SizeAssumption == SIZE \in Nat \ {0} /\ MaxCount \in Nat
ASSUME ThreadAssumption == NoThread \notin Threads
ASSUME OrderAssumption == CopyOrders # {} /\ CopyOrders \subseteq {"forward", "backward"}

VARIABLES mem, owner, r_wait, w_wait, async_queue,        \* struct tdlcd_dev
          pc, op, nonblock, want, buf, ret,               \* the call of each thread
          armed, signals                                  \* the scheduler's view

dev  == <<mem, owner, r_wait, w_wait, async_queue>>
args == <<op, nonblock, want>>
vars == <<dev, pc, args, buf, ret, armed, signals>>

Buffers == UNION {[1..n -> Byte] : n \in 0..MaxCount}
PollOps == {"pollin", "pollout"}
Min2(a, b) == IF a < b THEN a ELSE b

Init == /\ mem = <<>>
        /\ owner = NoThread
        /\ r_wait = {} /\ w_wait = {} /\ async_queue = {}
        /\ pc = [t \in Threads |-> "idle"]
        /\ op = [t \in Threads |-> "none"]
        /\ nonblock = [t \in Threads |-> FALSE]
        /\ want = [t \in Threads |-> 0]
        /\ buf = [t \in Threads |-> <<>>]
        /\ ret = [t \in Threads |-> "none"]
        /\ armed = {} /\ signals = {}

-----------------------------------------------------------------------------
(* The wait loop that read and write share, and poll's. *)

\* The condition of the while loops; for poll, the requested bit is not in mask.
BlockedSwapped(o) == \/ o \in {"read", "pollout"} /\ mem = <<>>
                     \/ o \in {"write", "pollin"} /\ Len(mem) = SIZE
Blocked(o) == \/ o \in {"read", "pollin"} /\ mem = <<>>
              \/ o \in {"write", "pollout"} /\ Len(mem) = SIZE

OnReadQueue(o)  == o \in {"read"} \cup PollOps
OnWriteQueue(o) == o \in {"write"} \cup PollOps

Go(t, from, to) == pc[t] = from /\ pc' = [pc EXCEPT ![t] = to]
Fail(t, errno) == ret' = [ret EXCEPT ![t] = errno]

\* A thread enters the driver: select(2) arms its wait before the first poll.
Call(t, o, nb, n, b) ==
    /\ Go(t, "idle", "lock")
    /\ op' = [op EXCEPT ![t] = o]
    /\ nonblock' = [nonblock EXCEPT ![t] = nb]
    /\ want' = [want EXCEPT ![t] = n]
    /\ buf' = [buf EXCEPT ![t] = b]
    /\ armed' = IF o \in PollOps THEN armed \cup {t} ELSE armed
    /\ UNCHANGED <<dev, ret, signals>>

CallRead(t)  == t \in Readers /\ \E nb \in BOOLEAN, n \in 0..MaxCount :
                                    Call(t, "read", nb, n, <<>>)
CallWrite(t) == t \in Writers /\ \E nb \in BOOLEAN, b \in Buffers :
                                    Call(t, "write", nb, Len(b), b)
CallClear(t) == t \in Clearers /\ Call(t, "clear", FALSE, 0, <<>>)
CallPoll(t)  == t \in Pollers /\ \E o \in PollOps : Call(t, o, FALSE, 0, <<>>)

\* mutex_lock, then add_wait_queue or poll_wait.
Lock(t) ==
    /\ Go(t, "lock", "test")
    /\ owner = NoThread
    /\ owner' = t
    /\ r_wait' = IF OnReadQueue(op[t]) THEN r_wait \cup {t} ELSE r_wait
    /\ w_wait' = IF OnWriteQueue(op[t]) THEN w_wait \cup {t} ELSE w_wait
    /\ UNCHANGED <<mem, async_queue, args, buf, ret, armed, signals>>

TestReady(t) ==
    /\ Go(t, "test", "copy")
    /\ ~Blocked(op[t])
    /\ UNCHANGED <<dev, args, buf, ret, armed, signals>>

TestAgain(t) ==
    /\ Go(t, "test", "out")
    /\ Blocked(op[t]) /\ nonblock[t]
    /\ Fail(t, "EAGAIN")
    /\ UNCHANGED <<dev, args, buf, armed, signals>>

\* __set_current_state(TASK_INTERRUPTIBLE); poll was armed before the call.
TestSleep(t) ==
    /\ Go(t, "test", "release")
    /\ Blocked(op[t]) /\ ~nonblock[t]
    /\ armed' = IF op[t] \in PollOps THEN armed ELSE armed \cup {t}
    /\ UNCHANGED <<dev, args, buf, ret, signals>>

Release(t) ==
    /\ Go(t, "release", "schedule")
    /\ owner' = NoThread
    /\ UNCHANGED <<mem, r_wait, w_wait, async_queue, args, buf, ret, armed, signals>>

\* schedule() returns once the thread is runnable; poll re-arms before it looks again.
Runnable(t) == t \notin armed \/ t \in signals

ScheduleAgain(t) ==
    /\ Go(t, "schedule", "lock")
    /\ Runnable(t) /\ t \notin signals
    /\ armed' = IF op[t] \in PollOps THEN armed \cup {t} ELSE armed \ {t}
    /\ UNCHANGED <<dev, args, buf, ret, signals>>

ScheduleSignal(t) ==
    /\ Go(t, "schedule", "out2")
    /\ t \in signals
    /\ Fail(t, "ERESTARTSYS")
    /\ armed' = armed \ {t}
    /\ UNCHANGED <<dev, args, buf, signals>>

-----------------------------------------------------------------------------
(* The bodies, under the mutex. *)

\* memcpy(mem, mem + n, len - n): the regions overlap when n < len - n, and a
\* backward copy then reads bytes it has already overwritten: byte i ends up as the
\* one of the last n bytes that lies a multiple of n behind it.
ShiftForgotten(s, n, order) == SubSeq(s, 1, Len(s) - n)
Shift(s, n, order) ==
    LET left == Len(s) - n
    IN  [i \in 1..left |->
           IF order = "forward" \/ n = 0 THEN s[i + n]
           ELSE s[Len(s) - ((left - i) % n)]]

\* The bytes a write accepts, and whom wake_up_interruptible leaves asleep.
WriteCount(t) == Min2(Len(buf[t]), SIZE - Len(mem))

SilentRead == armed
AfterRead == armed \ w_wait

SilentWrite == armed
AfterWrite == armed \ r_wait

CopyFault(t) ==
    /\ Go(t, "copy", "out")
    /\ op[t] \in {"read", "write"} /\ want[t] > 0
    /\ Fail(t, "EFAULT")
    /\ UNCHANGED <<dev, args, buf, armed, signals>>

ReadCopy(t) ==
    /\ Go(t, "copy", "out")
    /\ op[t] = "read"
    /\ LET count == Min2(want[t], Len(mem))
       IN  /\ buf' = [buf EXCEPT ![t] = SubSeq(mem, 1, count)]
           /\ \E order \in CopyOrders : mem' = Shift(mem, count, order)
    /\ ret' = [ret EXCEPT ![t] = "ok"]
    /\ armed' = AfterRead
    /\ UNCHANGED <<owner, r_wait, w_wait, async_queue, args, signals>>

\* kill_fasync: SIGIO to every owner of async_queue (handled at once outside a call).
WriteCopy(t) ==
    /\ Go(t, "copy", "out")
    /\ op[t] = "write"
    /\ mem' = mem \o SubSeq(buf[t], 1, WriteCount(t))
    /\ buf' = [buf EXCEPT ![t] = SubSeq(buf[t], 1, WriteCount(t))]
    /\ ret' = [ret EXCEPT ![t] = "ok"]
    /\ armed' = AfterWrite
    /\ signals' = signals \cup {u \in async_queue : pc[u] # "idle"}
    /\ UNCHANGED <<owner, r_wait, w_wait, async_queue, args>>

\* FIFO_CLEAR: nobody is woken.
ClearBody(t) ==
    /\ Go(t, "copy", "out")
    /\ op[t] = "clear"
    /\ mem' = <<>>
    /\ ret' = [ret EXCEPT ![t] = "ok"]
    /\ UNCHANGED <<owner, r_wait, w_wait, async_queue, args, buf, armed, signals>>

PollReport(t) ==
    /\ Go(t, "copy", "out")
    /\ op[t] \in PollOps
    /\ ret' = [ret EXCEPT ![t] = "ok"]
    /\ UNCHANGED <<dev, args, buf, armed, signals>>

Unlock(t) ==
    /\ Go(t, "out", "out2")
    /\ owner' = NoThread
    /\ UNCHANGED <<mem, r_wait, w_wait, async_queue, args, buf, ret, armed, signals>>

StaysQueued(t) == r_wait
OffReadQueue(t) == r_wait \ {t}

\* remove_wait_queue, TASK_RUNNING, return to user mode (pending signals are taken).
Return(t) ==
    /\ Go(t, "out2", "idle")
    /\ r_wait' = OffReadQueue(t) /\ w_wait' = w_wait \ {t}
    /\ armed' = armed \ {t} /\ signals' = signals \ {t}
    /\ op' = [op EXCEPT ![t] = "none"]
    /\ nonblock' = [nonblock EXCEPT ![t] = FALSE]
    /\ want' = [want EXCEPT ![t] = 0]
    /\ buf' = [buf EXCEPT ![t] = <<>>]
    /\ ret' = [ret EXCEPT ![t] = "none"]
    /\ UNCHANGED <<mem, owner, async_queue>>

-----------------------------------------------------------------------------
(* The environment: fcntl(FASYNC), close, kill(2). *)

Fasync(t) ==
    /\ t \in AsyncUsers /\ pc[t] = "idle" /\ t \notin async_queue
    /\ async_queue' = async_queue \cup {t}
    /\ UNCHANGED <<mem, owner, r_wait, w_wait, pc, args, buf, ret, armed, signals>>

\* tdlcd_release: the file leaves the fasync list when it is closed.
CloseFile(t) ==
    /\ pc[t] = "idle" /\ t \in async_queue
    /\ async_queue' = async_queue \ {t}
    /\ UNCHANGED <<mem, owner, r_wait, w_wait, pc, args, buf, ret, armed, signals>>

Signal(t) ==
    /\ t \in Signalled /\ pc[t] # "idle" /\ t \notin signals
    /\ signals' = signals \cup {t}
    /\ UNCHANGED <<dev, pc, args, buf, ret, armed>>

Step(t) == \/ Lock(t) \/ TestReady(t) \/ TestAgain(t) \/ TestSleep(t) \/ Release(t)
           \/ ScheduleAgain(t) \/ ScheduleSignal(t)
           \/ CopyFault(t) \/ ReadCopy(t) \/ WriteCopy(t) \/ ClearBody(t) \/ PollReport(t)
           \/ Unlock(t) \/ Return(t)
Begin(t) == CallRead(t) \/ CallWrite(t) \/ CallClear(t) \/ CallPoll(t)

Next == \E t \in Threads : Begin(t) \/ Step(t) \/ Fasync(t) \/ CloseFile(t) \/ Signal(t)

Spec == Init /\ [][Next]_vars

\* A thread that can run is run; the kernel's mutex hands itself over to waiters,
\* so a thread that finds it free again and again gets it.
Fairness == \A t \in Threads : WF_vars(Step(t)) /\ SF_vars(Lock(t))
FairSpec == Spec /\ Fairness

-----------------------------------------------------------------------------
(* Properties. *)

PCs == {"idle", "lock", "test", "release", "schedule", "copy", "out", "out2"}

\* The type of every variable; the device never holds more than SIZE bytes.
TypeOK ==
    /\ mem \in Seq(Byte) /\ Len(mem) <= SIZE
    /\ owner \in Threads \cup {NoThread}
    /\ r_wait \subseteq Threads /\ w_wait \subseteq Threads /\ async_queue \subseteq Threads
    /\ pc \in [Threads -> PCs]
    /\ op \in [Threads -> {"none", "read", "write", "clear"} \cup PollOps]
    /\ nonblock \in [Threads -> BOOLEAN]
    /\ want \in [Threads -> 0..MaxCount]
    /\ buf \in [Threads -> Seq(Byte)]
    /\ ret \in [Threads -> {"none", "ok", "EAGAIN", "ERESTARTSYS", "EFAULT"}]
    /\ armed \subseteq Threads /\ signals \subseteq Threads

Asleep(t) == pc[t] = "schedule" /\ ~Runnable(t)

\* No lost wake-up on the data side: a thread asleep in tdlcd_read or waiting for
\* POLLIN sleeps on an empty device, whatever wrote, cleared or was interrupted
\* between its test and its schedule().
ReaderNotStranded ==
    \A t \in Threads : Asleep(t) /\ op[t] \in {"read", "pollin"} => mem = <<>>

\* No lost wake-up on the space side: a thread asleep in tdlcd_write or waiting for
\* POLLOUT sleeps on a full device.
WriterNotStranded ==
    \A t \in Threads : Asleep(t) /\ op[t] \in {"write", "pollout"} => Len(mem) = SIZE

\* Every path out of a call drops the mutex and takes the wait entry, which lives on
\* the caller's stack, off both queues.
NothingLeftBehind ==
    \A t \in Threads : pc[t] = "idle" => t \notin (r_wait \cup w_wait \cup armed \cup {owner})

\* Every call on the driver is one atomic operation on a bounded byte queue, or
\* fails without effect: bytes come out in the order in which they were accepted,
\* none is lost, duplicated or split from its call.
Stage(t) == CASE op[t] = "none" -> "none"
              [] op[t] # "none" /\ ret[t] = "none" -> "pending"
              [] op[t] # "none" /\ ret[t] = "ok" -> "done"
              [] OTHER -> "failed"
Fifo == INSTANCE BoundedFifo WITH
          Capacity <- SIZE, queue <- mem,
          call <- [t \in Threads |-> [op |-> op[t], stage |-> Stage(t), data |-> buf[t]]]
ImplementsFifo == Fifo!Spec

\* A reader that sleeps while bytes are available is going to run, and a writer that
\* sleeps while there is room.
Waiting(t, o) == pc[t] = "schedule" /\ op[t] = o
ReaderWakes == \A t \in Readers : (Waiting(t, "read") /\ mem # <<>>) ~> ~Waiting(t, "read")

\* With readers that keep draining the device, writers do not block one another for ever:
\* as long as writes are in progress, one of them returns.  (A particular writer may starve:
\* the others can refill the device before it gets the mutex.)
Writing == \E t \in Writers : op[t] = "write"
WriteReturns == \E t \in Writers : op[t] = "write" /\ pc[t] = "out2"
WriteServed == []<>(Len(mem) < SIZE) => (Writing ~> WriteReturns)
=============================================================================
