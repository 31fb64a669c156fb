-------------------------- MODULE TdlcdFifoProofs --------------------------
(***************************************************************************)
(* Proofs about TdlcdFifo for every set of threads and every SIZE: types,  *)
(* mutual exclusion, and that no reader (and, on a device nobody clears,   *)
(* no writer) sleeps past the event it waits for.                          *)
(***************************************************************************)
EXTENDS TdlcdFifo, TLAPS

Critical == {"test", "release", "copy", "out"}

\* The mutex belongs to the one thread between mutex_lock and mutex_unlock.
MutexInv == \A t \in Threads : pc[t] \in Critical <=> owner = t

\* From add_wait_queue to schedule() a thread is on the queues of its operation.
QueueInv ==
    \A t \in Threads : pc[t] \in {"test", "release", "schedule"} =>
        /\ OnReadQueue(op[t]) => t \in r_wait
        /\ OnWriteQueue(op[t]) => t \in w_wait

\* A thread on its way into schedule() is blocked or has been woken.
ReadSleepInv ==
    \A t \in Threads : pc[t] \in {"release", "schedule"} /\ t \in armed
                       /\ op[t] \in {"read", "pollin"} => mem = <<>>
WriteSleepInv ==
    \A t \in Threads : pc[t] \in {"release", "schedule"} /\ t \in armed
                       /\ op[t] \in {"write", "pollout"} => Len(mem) = SIZE

IInv == TypeOK /\ MutexInv /\ QueueInv /\ ReadSleepInv /\ NothingLeftBehind

-----------------------------------------------------------------------------
\* Moving the rest of the device down by n bytes leaves Len - n bytes of it, in
\* whatever order memcpy works.
LEMMA ShiftType ==
    ASSUME NEW s \in Seq(Byte), NEW n \in 0..Len(s), NEW order \in CopyOrders
    PROVE  Shift(s, n, order) \in Seq(Byte) /\ Len(Shift(s, n, order)) = Len(s) - n
<1> DEFINE left == Len(s) - n
           v(i) == IF order = "forward" \/ n = 0 THEN s[i + n]
                   ELSE s[Len(s) - ((left - i) % n)]
<1>1. ASSUME NEW i \in 1..left PROVE v(i) \in Byte
  <2>1. CASE order = "forward" \/ n = 0
    <3>1. i + n \in 1..Len(s) OBVIOUS
    <3> QED BY <2>1, <3>1
  <2>2. CASE ~(order = "forward" \/ n = 0)
    <3>1. (left - i) % n \in 0..(n - 1) BY <2>2
    <3>2. Len(s) - ((left - i) % n) \in 1..Len(s) BY <3>1
    <3> QED BY <2>2, <3>2
  <2> QED BY <2>1, <2>2
<1>2. left \in Nat OBVIOUS
<1>3. Shift(s, n, order) = [i \in 1..left |-> v(i)] BY DEF Shift
<1> HIDE DEF v
<1>4. [i \in 1..left |-> v(i)] \in [1..left -> Byte] BY <1>1
<1> QED BY <1>2, <1>3, <1>4

LEMMA Initially == Init => IInv
BY SizeAssumption, ThreadAssumption
   DEF Init, IInv, TypeOK, MutexInv, QueueInv, ReadSleepInv, NothingLeftBehind,
       Critical, PCs, PollOps

\* Every step keeps every variable in its type and the device within SIZE.
LEMMA TypeStep ==
    ASSUME TypeOK, [Next]_vars
    PROVE  TypeOK'
<1> USE DEF TypeOK, PCs, PollOps, Go, Fail, dev, args, vars
<1>1. ASSUME NEW t \in Threads, CallRead(t) PROVE TypeOK'
  BY <1>1 DEF CallRead, Call
<1>2. ASSUME NEW t \in Threads, CallWrite(t) PROVE TypeOK'
  <2>1. PICK nb \in BOOLEAN, b \in Buffers : Call(t, "write", nb, Len(b), b)
    BY <1>2 DEF CallWrite
  <2>2. b \in Seq(Byte) /\ Len(b) \in 0..MaxCount
    BY SizeAssumption DEF Buffers
  <2> QED BY <2>1, <2>2 DEF Call
<1>3. ASSUME NEW t \in Threads, CallClear(t) PROVE TypeOK'
  BY <1>3, SizeAssumption DEF CallClear, Call
<1>4. ASSUME NEW t \in Threads, CallPoll(t) PROVE TypeOK'
  BY <1>4, SizeAssumption DEF CallPoll, Call
<1>5. ASSUME NEW t \in Threads, Lock(t) PROVE TypeOK'
  BY <1>5 DEF Lock
<1>6. ASSUME NEW t \in Threads, TestReady(t) PROVE TypeOK'
  BY <1>6 DEF TestReady
<1>7. ASSUME NEW t \in Threads, TestAgain(t) PROVE TypeOK'
  BY <1>7 DEF TestAgain
<1>8. ASSUME NEW t \in Threads, TestSleep(t) PROVE TypeOK'
  BY <1>8 DEF TestSleep
<1>9. ASSUME NEW t \in Threads, Release(t) PROVE TypeOK'
  BY <1>9 DEF Release
<1>10. ASSUME NEW t \in Threads, ScheduleAgain(t) PROVE TypeOK'
  BY <1>10 DEF ScheduleAgain
<1>11. ASSUME NEW t \in Threads, ScheduleSignal(t) PROVE TypeOK'
  BY <1>11 DEF ScheduleSignal
<1>12. ASSUME NEW t \in Threads, CopyFault(t) PROVE TypeOK'
  BY <1>12 DEF CopyFault
<1>13. ASSUME NEW t \in Threads, ReadCopy(t) PROVE TypeOK'
  <2> DEFINE count == Min2(want[t], Len(mem))
  <2>1. count \in 0..Len(mem)
    BY SizeAssumption DEF Min2
  <2>2. SubSeq(mem, 1, count) \in Seq(Byte)
    BY <2>1
  <2>3. PICK order \in CopyOrders : mem' = Shift(mem, count, order)
    BY <1>13 DEF ReadCopy
  <2>4. mem' \in Seq(Byte) /\ Len(mem') <= SIZE
    BY <2>1, <2>3, ShiftType, SizeAssumption
  <2> QED BY <1>13, <2>2, <2>4 DEF ReadCopy, AfterRead
<1>14. ASSUME NEW t \in Threads, WriteCopy(t) PROVE TypeOK'
  <2>1. WriteCount(t) \in 0..(SIZE - Len(mem))
    BY SizeAssumption DEF WriteCount, Min2
  <2>2. WriteCount(t) <= Len(buf[t])
    BY SizeAssumption DEF WriteCount, Min2
  <2>3. SubSeq(buf[t], 1, WriteCount(t)) \in Seq(Byte)
    BY <2>1, <2>2
  <2>4. buf[t] \in Seq(Byte) /\ Len(SubSeq(buf[t], 1, WriteCount(t))) = WriteCount(t)
    BY <2>1, <2>2
  <2>5. mem' = mem \o SubSeq(buf[t], 1, WriteCount(t))
    BY <1>14 DEF WriteCopy
  <2>6. mem' \in Seq(Byte) /\ Len(mem') <= SIZE
    BY <2>1, <2>3, <2>4, <2>5, SizeAssumption
  <2> QED BY <1>14, <2>3, <2>6 DEF WriteCopy, AfterWrite
<1>15. ASSUME NEW t \in Threads, ClearBody(t) PROVE TypeOK'
  BY <1>15, SizeAssumption DEF ClearBody
<1>16. ASSUME NEW t \in Threads, PollReport(t) PROVE TypeOK'
  BY <1>16 DEF PollReport
<1>17. ASSUME NEW t \in Threads, Unlock(t) PROVE TypeOK'
  BY <1>17 DEF Unlock
<1>18. ASSUME NEW t \in Threads, Return(t) PROVE TypeOK'
  BY <1>18, SizeAssumption DEF Return, OffReadQueue
<1>19. ASSUME NEW t \in Threads, Fasync(t) PROVE TypeOK'
  BY <1>19 DEF Fasync
<1>20. ASSUME NEW t \in Threads, CloseFile(t) PROVE TypeOK'
  BY <1>20 DEF CloseFile
<1>21. ASSUME NEW t \in Threads, Signal(t) PROVE TypeOK'
  BY <1>21 DEF Signal
<1>22. CASE UNCHANGED vars
  BY <1>22
<1> QED BY <1>1, <1>2, <1>3, <1>4, <1>5, <1>6, <1>7, <1>8, <1>9, <1>10, <1>11, <1>12, <1>13, <1>14, <1>15, <1>16, <1>17, <1>18, <1>19, <1>20, <1>21, <1>22 DEF Next, Step, Begin

\* Between two steps the mutex changes hands only with the thread that is inside.
LEMMA MutexStep ==
    ASSUME TypeOK, MutexInv, [Next]_vars
    PROVE  MutexInv'
<1> USE DEF TypeOK, PCs, PollOps, Go, Fail, dev, args, vars, MutexInv, Critical
<1>1. ASSUME NEW t \in Threads, CallRead(t) PROVE MutexInv'
  BY <1>1, ThreadAssumption DEF CallRead, Call
<1>2. ASSUME NEW t \in Threads, CallWrite(t) PROVE MutexInv'
  BY <1>2, ThreadAssumption DEF CallWrite, Call
<1>3. ASSUME NEW t \in Threads, CallClear(t) PROVE MutexInv'
  BY <1>3, ThreadAssumption DEF CallClear, Call
<1>4. ASSUME NEW t \in Threads, CallPoll(t) PROVE MutexInv'
  BY <1>4, ThreadAssumption DEF CallPoll, Call
<1>5. ASSUME NEW t \in Threads, Lock(t) PROVE MutexInv'
  BY <1>5, ThreadAssumption DEF Lock
<1>6. ASSUME NEW t \in Threads, TestReady(t) PROVE MutexInv'
  BY <1>6, ThreadAssumption DEF TestReady
<1>7. ASSUME NEW t \in Threads, TestAgain(t) PROVE MutexInv'
  BY <1>7, ThreadAssumption DEF TestAgain
<1>8. ASSUME NEW t \in Threads, TestSleep(t) PROVE MutexInv'
  BY <1>8, ThreadAssumption DEF TestSleep
<1>9. ASSUME NEW t \in Threads, Release(t) PROVE MutexInv'
  BY <1>9, ThreadAssumption DEF Release
<1>10. ASSUME NEW t \in Threads, ScheduleAgain(t) PROVE MutexInv'
  BY <1>10, ThreadAssumption DEF ScheduleAgain
<1>11. ASSUME NEW t \in Threads, ScheduleSignal(t) PROVE MutexInv'
  BY <1>11, ThreadAssumption DEF ScheduleSignal
<1>12. ASSUME NEW t \in Threads, CopyFault(t) PROVE MutexInv'
  BY <1>12, ThreadAssumption DEF CopyFault
<1>13. ASSUME NEW t \in Threads, ReadCopy(t) PROVE MutexInv'
  BY <1>13, ThreadAssumption DEF ReadCopy, AfterRead
<1>14. ASSUME NEW t \in Threads, WriteCopy(t) PROVE MutexInv'
  BY <1>14, ThreadAssumption DEF WriteCopy, AfterWrite
<1>15. ASSUME NEW t \in Threads, ClearBody(t) PROVE MutexInv'
  BY <1>15, ThreadAssumption DEF ClearBody
<1>16. ASSUME NEW t \in Threads, PollReport(t) PROVE MutexInv'
  BY <1>16, ThreadAssumption DEF PollReport
<1>17. ASSUME NEW t \in Threads, Unlock(t) PROVE MutexInv'
  BY <1>17, ThreadAssumption DEF Unlock
<1>18. ASSUME NEW t \in Threads, Return(t) PROVE MutexInv'
  BY <1>18, ThreadAssumption DEF Return, OffReadQueue
<1>19. ASSUME NEW t \in Threads, Fasync(t) PROVE MutexInv'
  BY <1>19, ThreadAssumption DEF Fasync
<1>20. ASSUME NEW t \in Threads, CloseFile(t) PROVE MutexInv'
  BY <1>20, ThreadAssumption DEF CloseFile
<1>21. ASSUME NEW t \in Threads, Signal(t) PROVE MutexInv'
  BY <1>21, ThreadAssumption DEF Signal
<1>22. CASE UNCHANGED vars
  BY <1>22
<1> QED BY <1>1, <1>2, <1>3, <1>4, <1>5, <1>6, <1>7, <1>8, <1>9, <1>10, <1>11, <1>12, <1>13, <1>14, <1>15, <1>16, <1>17, <1>18, <1>19, <1>20, <1>21, <1>22 DEF Next, Step, Begin

\* A thread leaves the wait queues only on its way out of the call.
LEMMA QueueStep ==
    ASSUME TypeOK, QueueInv, [Next]_vars
    PROVE  QueueInv'
<1> USE DEF TypeOK, PCs, PollOps, Go, Fail, dev, args, vars, QueueInv, OnReadQueue, OnWriteQueue
<1>1. ASSUME NEW t \in Threads, CallRead(t) PROVE QueueInv'
  BY <1>1 DEF CallRead, Call
<1>2. ASSUME NEW t \in Threads, CallWrite(t) PROVE QueueInv'
  BY <1>2 DEF CallWrite, Call
<1>3. ASSUME NEW t \in Threads, CallClear(t) PROVE QueueInv'
  BY <1>3 DEF CallClear, Call
<1>4. ASSUME NEW t \in Threads, CallPoll(t) PROVE QueueInv'
  BY <1>4 DEF CallPoll, Call
<1>5. ASSUME NEW t \in Threads, Lock(t) PROVE QueueInv'
  BY <1>5 DEF Lock
<1>6. ASSUME NEW t \in Threads, TestReady(t) PROVE QueueInv'
  BY <1>6 DEF TestReady
<1>7. ASSUME NEW t \in Threads, TestAgain(t) PROVE QueueInv'
  BY <1>7 DEF TestAgain
<1>8. ASSUME NEW t \in Threads, TestSleep(t) PROVE QueueInv'
  BY <1>8 DEF TestSleep
<1>9. ASSUME NEW t \in Threads, Release(t) PROVE QueueInv'
  BY <1>9 DEF Release
<1>10. ASSUME NEW t \in Threads, ScheduleAgain(t) PROVE QueueInv'
  BY <1>10 DEF ScheduleAgain
<1>11. ASSUME NEW t \in Threads, ScheduleSignal(t) PROVE QueueInv'
  BY <1>11 DEF ScheduleSignal
<1>12. ASSUME NEW t \in Threads, CopyFault(t) PROVE QueueInv'
  BY <1>12 DEF CopyFault
<1>13. ASSUME NEW t \in Threads, ReadCopy(t) PROVE QueueInv'
  BY <1>13 DEF ReadCopy, AfterRead
<1>14. ASSUME NEW t \in Threads, WriteCopy(t) PROVE QueueInv'
  BY <1>14 DEF WriteCopy, AfterWrite
<1>15. ASSUME NEW t \in Threads, ClearBody(t) PROVE QueueInv'
  BY <1>15 DEF ClearBody
<1>16. ASSUME NEW t \in Threads, PollReport(t) PROVE QueueInv'
  BY <1>16 DEF PollReport
<1>17. ASSUME NEW t \in Threads, Unlock(t) PROVE QueueInv'
  BY <1>17 DEF Unlock
<1>18. ASSUME NEW t \in Threads, Return(t) PROVE QueueInv'
  BY <1>18 DEF Return, OffReadQueue
<1>19. ASSUME NEW t \in Threads, Fasync(t) PROVE QueueInv'
  BY <1>19 DEF Fasync
<1>20. ASSUME NEW t \in Threads, CloseFile(t) PROVE QueueInv'
  BY <1>20 DEF CloseFile
<1>21. ASSUME NEW t \in Threads, Signal(t) PROVE QueueInv'
  BY <1>21 DEF Signal
<1>22. CASE UNCHANGED vars
  BY <1>22
<1> QED BY <1>1, <1>2, <1>3, <1>4, <1>5, <1>6, <1>7, <1>8, <1>9, <1>10, <1>11, <1>12, <1>13, <1>14, <1>15, <1>16, <1>17, <1>18, <1>19, <1>20, <1>21, <1>22 DEF Next, Step, Begin

\* What makes the device non-empty wakes everybody who waits for bytes.
LEMMA ReadSleepStep ==
    ASSUME TypeOK, MutexInv, QueueInv, ReadSleepInv, [Next]_vars
    PROVE  ReadSleepInv'
<1> USE DEF TypeOK, PCs, PollOps, Go, Fail, dev, args, vars, MutexInv, Critical, QueueInv, ReadSleepInv, OnReadQueue, Blocked
<1>1. ASSUME NEW t \in Threads, CallRead(t) PROVE ReadSleepInv'
  BY <1>1 DEF CallRead, Call
<1>2. ASSUME NEW t \in Threads, CallWrite(t) PROVE ReadSleepInv'
  BY <1>2 DEF CallWrite, Call
<1>3. ASSUME NEW t \in Threads, CallClear(t) PROVE ReadSleepInv'
  BY <1>3 DEF CallClear, Call
<1>4. ASSUME NEW t \in Threads, CallPoll(t) PROVE ReadSleepInv'
  BY <1>4 DEF CallPoll, Call
<1>5. ASSUME NEW t \in Threads, Lock(t) PROVE ReadSleepInv'
  BY <1>5 DEF Lock
<1>6. ASSUME NEW t \in Threads, TestReady(t) PROVE ReadSleepInv'
  BY <1>6 DEF TestReady
<1>7. ASSUME NEW t \in Threads, TestAgain(t) PROVE ReadSleepInv'
  BY <1>7 DEF TestAgain
<1>8. ASSUME NEW t \in Threads, TestSleep(t) PROVE ReadSleepInv'
  BY <1>8 DEF TestSleep
<1>9. ASSUME NEW t \in Threads, Release(t) PROVE ReadSleepInv'
  BY <1>9 DEF Release
<1>10. ASSUME NEW t \in Threads, ScheduleAgain(t) PROVE ReadSleepInv'
  BY <1>10 DEF ScheduleAgain
<1>11. ASSUME NEW t \in Threads, ScheduleSignal(t) PROVE ReadSleepInv'
  BY <1>11 DEF ScheduleSignal
<1>12. ASSUME NEW t \in Threads, CopyFault(t) PROVE ReadSleepInv'
  BY <1>12 DEF CopyFault
<1>13. ASSUME NEW t \in Threads, ReadCopy(t) PROVE ReadSleepInv'
  <2> DEFINE count == Min2(want[t], Len(mem))
  <2>1. count \in 0..Len(mem)
    BY SizeAssumption DEF Min2
  <2>2. PICK order \in CopyOrders : mem' = Shift(mem, count, order)
    BY <1>13 DEF ReadCopy
  <2>3. mem' \in Seq(Byte) /\ Len(mem') = Len(mem) - count
    BY <2>1, <2>2, ShiftType
  <2>4. mem = <<>> => Len(mem') = 0
    BY <2>1, <2>3
  <2>5. mem = <<>> => mem' = <<>>
    BY <2>3, <2>4
  <2> QED BY <1>13, <2>5 DEF ReadCopy, AfterRead
<1>14. ASSUME NEW t \in Threads, WriteCopy(t) PROVE ReadSleepInv'
  BY <1>14 DEF WriteCopy, AfterWrite
<1>15. ASSUME NEW t \in Threads, ClearBody(t) PROVE ReadSleepInv'
  BY <1>15 DEF ClearBody
<1>16. ASSUME NEW t \in Threads, PollReport(t) PROVE ReadSleepInv'
  BY <1>16 DEF PollReport
<1>17. ASSUME NEW t \in Threads, Unlock(t) PROVE ReadSleepInv'
  BY <1>17 DEF Unlock
<1>18. ASSUME NEW t \in Threads, Return(t) PROVE ReadSleepInv'
  BY <1>18 DEF Return, OffReadQueue
<1>19. ASSUME NEW t \in Threads, Fasync(t) PROVE ReadSleepInv'
  BY <1>19 DEF Fasync
<1>20. ASSUME NEW t \in Threads, CloseFile(t) PROVE ReadSleepInv'
  BY <1>20 DEF CloseFile
<1>21. ASSUME NEW t \in Threads, Signal(t) PROVE ReadSleepInv'
  BY <1>21 DEF Signal
<1>22. CASE UNCHANGED vars
  BY <1>22
<1> QED BY <1>1, <1>2, <1>3, <1>4, <1>5, <1>6, <1>7, <1>8, <1>9, <1>10, <1>11, <1>12, <1>13, <1>14, <1>15, <1>16, <1>17, <1>18, <1>19, <1>20, <1>21, <1>22 DEF Next, Step, Begin

\* On a device nobody clears, what makes room wakes everybody who waits for room.
LEMMA WriteSleepStep ==
    ASSUME Clearers = {}, TypeOK, MutexInv, QueueInv, WriteSleepInv,
           \A t \in Threads : op[t] # "clear", [Next]_vars
    PROVE  WriteSleepInv'
<1> USE DEF TypeOK, PCs, PollOps, Go, Fail, dev, args, vars, MutexInv, Critical, QueueInv, WriteSleepInv, OnWriteQueue, Blocked
<1>1. ASSUME NEW t \in Threads, CallRead(t) PROVE WriteSleepInv'
  BY <1>1 DEF CallRead, Call
<1>2. ASSUME NEW t \in Threads, CallWrite(t) PROVE WriteSleepInv'
  BY <1>2 DEF CallWrite, Call
<1>3. ASSUME NEW t \in Threads, CallClear(t) PROVE WriteSleepInv'
  BY <1>3 DEF CallClear, Call
<1>4. ASSUME NEW t \in Threads, CallPoll(t) PROVE WriteSleepInv'
  BY <1>4 DEF CallPoll, Call
<1>5. ASSUME NEW t \in Threads, Lock(t) PROVE WriteSleepInv'
  BY <1>5 DEF Lock
<1>6. ASSUME NEW t \in Threads, TestReady(t) PROVE WriteSleepInv'
  BY <1>6 DEF TestReady
<1>7. ASSUME NEW t \in Threads, TestAgain(t) PROVE WriteSleepInv'
  BY <1>7 DEF TestAgain
<1>8. ASSUME NEW t \in Threads, TestSleep(t) PROVE WriteSleepInv'
  BY <1>8 DEF TestSleep
<1>9. ASSUME NEW t \in Threads, Release(t) PROVE WriteSleepInv'
  BY <1>9 DEF Release
<1>10. ASSUME NEW t \in Threads, ScheduleAgain(t) PROVE WriteSleepInv'
  BY <1>10 DEF ScheduleAgain
<1>11. ASSUME NEW t \in Threads, ScheduleSignal(t) PROVE WriteSleepInv'
  BY <1>11 DEF ScheduleSignal
<1>12. ASSUME NEW t \in Threads, CopyFault(t) PROVE WriteSleepInv'
  BY <1>12 DEF CopyFault
<1>13. ASSUME NEW t \in Threads, ReadCopy(t) PROVE WriteSleepInv'
  BY <1>13 DEF ReadCopy, AfterRead
<1>14. ASSUME NEW t \in Threads, WriteCopy(t) PROVE WriteSleepInv'
  <2>1. Len(mem) = SIZE => WriteCount(t) = 0
    BY SizeAssumption DEF WriteCount, Min2
  <2>2. Len(mem) = SIZE => Len(mem') = SIZE
    BY <1>14, <2>1 DEF WriteCopy
  <2> QED BY <1>14, <2>2 DEF WriteCopy, AfterWrite
<1>15. ASSUME NEW t \in Threads, ClearBody(t) PROVE WriteSleepInv'
  BY <1>15 DEF ClearBody
<1>16. ASSUME NEW t \in Threads, PollReport(t) PROVE WriteSleepInv'
  BY <1>16 DEF PollReport
<1>17. ASSUME NEW t \in Threads, Unlock(t) PROVE WriteSleepInv'
  BY <1>17 DEF Unlock
<1>18. ASSUME NEW t \in Threads, Return(t) PROVE WriteSleepInv'
  BY <1>18 DEF Return, OffReadQueue
<1>19. ASSUME NEW t \in Threads, Fasync(t) PROVE WriteSleepInv'
  BY <1>19 DEF Fasync
<1>20. ASSUME NEW t \in Threads, CloseFile(t) PROVE WriteSleepInv'
  BY <1>20 DEF CloseFile
<1>21. ASSUME NEW t \in Threads, Signal(t) PROVE WriteSleepInv'
  BY <1>21 DEF Signal
<1>22. CASE UNCHANGED vars
  BY <1>22
<1> QED BY <1>1, <1>2, <1>3, <1>4, <1>5, <1>6, <1>7, <1>8, <1>9, <1>10, <1>11, <1>12, <1>13, <1>14, <1>15, <1>16, <1>17, <1>18, <1>19, <1>20, <1>21, <1>22 DEF Next, Step, Begin

\* Only Return makes a thread idle, and it leaves nothing behind.
LEMMA LeftBehindStep ==
    ASSUME TypeOK, MutexInv, NothingLeftBehind, [Next]_vars
    PROVE  NothingLeftBehind'
<1> USE DEF TypeOK, PCs, PollOps, Go, Fail, dev, args, vars, MutexInv, Critical, NothingLeftBehind
<1>1. ASSUME NEW t \in Threads, CallRead(t) PROVE NothingLeftBehind'
  BY <1>1, ThreadAssumption DEF CallRead, Call
<1>2. ASSUME NEW t \in Threads, CallWrite(t) PROVE NothingLeftBehind'
  BY <1>2, ThreadAssumption DEF CallWrite, Call
<1>3. ASSUME NEW t \in Threads, CallClear(t) PROVE NothingLeftBehind'
  BY <1>3, ThreadAssumption DEF CallClear, Call
<1>4. ASSUME NEW t \in Threads, CallPoll(t) PROVE NothingLeftBehind'
  BY <1>4, ThreadAssumption DEF CallPoll, Call
<1>5. ASSUME NEW t \in Threads, Lock(t) PROVE NothingLeftBehind'
  BY <1>5, ThreadAssumption DEF Lock
<1>6. ASSUME NEW t \in Threads, TestReady(t) PROVE NothingLeftBehind'
  BY <1>6, ThreadAssumption DEF TestReady
<1>7. ASSUME NEW t \in Threads, TestAgain(t) PROVE NothingLeftBehind'
  BY <1>7, ThreadAssumption DEF TestAgain
<1>8. ASSUME NEW t \in Threads, TestSleep(t) PROVE NothingLeftBehind'
  BY <1>8, ThreadAssumption DEF TestSleep
<1>9. ASSUME NEW t \in Threads, Release(t) PROVE NothingLeftBehind'
  BY <1>9, ThreadAssumption DEF Release
<1>10. ASSUME NEW t \in Threads, ScheduleAgain(t) PROVE NothingLeftBehind'
  BY <1>10, ThreadAssumption DEF ScheduleAgain
<1>11. ASSUME NEW t \in Threads, ScheduleSignal(t) PROVE NothingLeftBehind'
  BY <1>11, ThreadAssumption DEF ScheduleSignal
<1>12. ASSUME NEW t \in Threads, CopyFault(t) PROVE NothingLeftBehind'
  BY <1>12, ThreadAssumption DEF CopyFault
<1>13. ASSUME NEW t \in Threads, ReadCopy(t) PROVE NothingLeftBehind'
  BY <1>13, ThreadAssumption DEF ReadCopy, AfterRead
<1>14. ASSUME NEW t \in Threads, WriteCopy(t) PROVE NothingLeftBehind'
  BY <1>14, ThreadAssumption DEF WriteCopy, AfterWrite
<1>15. ASSUME NEW t \in Threads, ClearBody(t) PROVE NothingLeftBehind'
  BY <1>15, ThreadAssumption DEF ClearBody
<1>16. ASSUME NEW t \in Threads, PollReport(t) PROVE NothingLeftBehind'
  BY <1>16, ThreadAssumption DEF PollReport
<1>17. ASSUME NEW t \in Threads, Unlock(t) PROVE NothingLeftBehind'
  BY <1>17, ThreadAssumption DEF Unlock
<1>18. ASSUME NEW t \in Threads, Return(t) PROVE NothingLeftBehind'
  BY <1>18, ThreadAssumption DEF Return, OffReadQueue
<1>19. ASSUME NEW t \in Threads, Fasync(t) PROVE NothingLeftBehind'
  BY <1>19, ThreadAssumption DEF Fasync
<1>20. ASSUME NEW t \in Threads, CloseFile(t) PROVE NothingLeftBehind'
  BY <1>20, ThreadAssumption DEF CloseFile
<1>21. ASSUME NEW t \in Threads, Signal(t) PROVE NothingLeftBehind'
  BY <1>21, ThreadAssumption DEF Signal
<1>22. CASE UNCHANGED vars
  BY <1>22
<1> QED BY <1>1, <1>2, <1>3, <1>4, <1>5, <1>6, <1>7, <1>8, <1>9, <1>10, <1>11, <1>12, <1>13, <1>14, <1>15, <1>16, <1>17, <1>18, <1>19, <1>20, <1>21, <1>22 DEF Next, Step, Begin

\* No clearer, no clear in progress.
LEMMA NoClearStep ==
    ASSUME Clearers = {}, TypeOK, \A t \in Threads : op[t] # "clear", [Next]_vars
    PROVE  \A t \in Threads : op'[t] # "clear"
BY DEF TypeOK, PollOps, Next, Step, Begin, CallRead, CallWrite, CallClear, CallPoll, Call,
       Lock, TestReady, TestAgain, TestSleep, Release, ScheduleAgain, ScheduleSignal,
       CopyFault, ReadCopy, WriteCopy, ClearBody, PollReport, Unlock, Return, Fasync,
       CloseFile, Signal, dev, args, vars

\* The inductive invariant.
THEOREM Invariance == Spec => []IInv
<1>1. IInv /\ [Next]_vars => IInv'
  BY TypeStep, MutexStep, QueueStep, ReadSleepStep, LeftBehindStep DEF IInv
<1> QED BY Initially, <1>1, PTL DEF Spec

\* TypeOK for every set of threads and every SIZE; in particular the device never
\* holds more than SIZE bytes.
THEOREM TypeCorrect == Spec => []TypeOK
<1>1. IInv => TypeOK BY DEF IInv
<1> QED BY Invariance, <1>1, PTL

\* dev->mutex excludes: two threads are never both between lock and unlock.
THEOREM MutualExclusion ==
    Spec => [](\A t, u \in Threads : pc[t] \in Critical /\ pc[u] \in Critical => t = u)
<1>1. IInv => \A t, u \in Threads : pc[t] \in Critical /\ pc[u] \in Critical => t = u
  BY DEF IInv, MutexInv
<1> QED BY Invariance, <1>1, PTL

\* No thread asleep in tdlcd_read or in poll for POLLIN misses bytes, with any number
\* of readers, writers, clears, signals and SIGIO owners.
THEOREM NoReaderStranded == Spec => []ReaderNotStranded
<1>1. IInv => ReaderNotStranded
  BY DEF IInv, ReadSleepInv, ReaderNotStranded, Asleep, Runnable
<1> QED BY Invariance, <1>1, PTL

\* Every way out of a call drops the mutex and takes the wait entry off the queues.
THEOREM CleanReturn == Spec => []NothingLeftBehind
<1>1. IInv => NothingLeftBehind BY DEF IInv
<1> QED BY Invariance, <1>1, PTL

\* As long as FIFO_CLEAR is not used, no thread asleep in tdlcd_write or in poll for
\* POLLOUT misses room.
THEOREM NoWriterStranded == Clearers = {} /\ Spec => []WriterNotStranded
<1> DEFINE W == WriteSleepInv /\ \A t \in Threads : op[t] # "clear"
<1>1. Init => W
  BY DEF Init, WriteSleepInv
<1>2. Clearers = {} /\ IInv /\ W /\ [Next]_vars => W'
  BY WriteSleepStep, NoClearStep DEF IInv
<1>3. W => WriterNotStranded
  BY DEF WriteSleepInv, WriterNotStranded, Asleep, Runnable
<1>4. Clearers = {} => (Init /\ [][Next]_vars /\ []IInv => []W)
  <2> SUFFICES ASSUME Clearers = {} PROVE Init /\ [][Next]_vars /\ []IInv => []W
    OBVIOUS
  <2>1. IInv /\ W /\ [Next]_vars => W' BY <1>2
  <2> HIDE DEF W
  <2> QED BY <1>1, <2>1, PTL
<1> HIDE DEF W
<1> QED BY Invariance, <1>3, <1>4, PTL DEF Spec

-----------------------------------------------------------------------------
(* TdlcdFifo implements BoundedFifo when memcpy moves the bytes forward.   *)

\* Where a call is and what it has to return belong together; what the test found is
\* true until the copy, as nobody else has the mutex.
CallInv(t) ==
    /\ pc[t] = "idle" <=> op[t] = "none"
    /\ pc[t] = "idle" => buf[t] = <<>>
    /\ pc[t] \in {"out", "out2"} <=> ret[t] # "none"
    /\ pc[t] \in {"release", "schedule"} => op[t] # "clear"
    /\ pc[t] = "copy" => ~Blocked(op[t])
CallsInv == \A t \in Threads : CallInv(t)

\* The mapping's calls.
Record(t) == [op |-> op[t], stage |-> Stage(t), data |-> buf[t]]
Calls == [t \in Threads |-> Record(t)]

LEMMA CallsInitially == Init => CallsInv
BY DEF Init, CallsInv, CallInv, Blocked

\* A step that changes no contents keeps what the others found.
LEMMA CallsStep ==
    ASSUME IInv, CallsInv, [Next]_vars
    PROVE  CallsInv'
<1> USE DEF IInv, TypeOK, MutexInv, Critical, PCs, PollOps, Go, Fail, dev, args, vars, CallsInv, CallInv,
            Blocked
<1>1. ASSUME NEW t \in Threads, CallRead(t) PROVE CallsInv'
  BY <1>1 DEF CallRead, Call
<1>2. ASSUME NEW t \in Threads, CallWrite(t) PROVE CallsInv'
  BY <1>2 DEF CallWrite, Call
<1>3. ASSUME NEW t \in Threads, CallClear(t) PROVE CallsInv'
  BY <1>3 DEF CallClear, Call
<1>4. ASSUME NEW t \in Threads, CallPoll(t) PROVE CallsInv'
  BY <1>4 DEF CallPoll, Call
<1>5. ASSUME NEW t \in Threads, Lock(t) PROVE CallsInv'
  BY <1>5 DEF Lock
<1>6. ASSUME NEW t \in Threads, TestReady(t) PROVE CallsInv'
  BY <1>6 DEF TestReady
<1>7. ASSUME NEW t \in Threads, TestAgain(t) PROVE CallsInv'
  BY <1>7 DEF TestAgain
<1>8. ASSUME NEW t \in Threads, TestSleep(t) PROVE CallsInv'
  BY <1>8 DEF TestSleep
<1>9. ASSUME NEW t \in Threads, Release(t) PROVE CallsInv'
  BY <1>9 DEF Release
<1>10. ASSUME NEW t \in Threads, ScheduleAgain(t) PROVE CallsInv'
  BY <1>10 DEF ScheduleAgain
<1>11. ASSUME NEW t \in Threads, ScheduleSignal(t) PROVE CallsInv'
  BY <1>11 DEF ScheduleSignal
<1>12. ASSUME NEW t \in Threads, CopyFault(t) PROVE CallsInv'
  BY <1>12 DEF CopyFault
<1>13. ASSUME NEW t \in Threads, ReadCopy(t) PROVE CallsInv'
  BY <1>13 DEF ReadCopy
<1>14. ASSUME NEW t \in Threads, WriteCopy(t) PROVE CallsInv'
  BY <1>14 DEF WriteCopy
<1>15. ASSUME NEW t \in Threads, ClearBody(t) PROVE CallsInv'
  BY <1>15 DEF ClearBody
<1>16. ASSUME NEW t \in Threads, PollReport(t) PROVE CallsInv'
  BY <1>16 DEF PollReport
<1>17. ASSUME NEW t \in Threads, Unlock(t) PROVE CallsInv'
  BY <1>17 DEF Unlock
<1>18. ASSUME NEW t \in Threads, Return(t) PROVE CallsInv'
  BY <1>18 DEF Return
<1>19. ASSUME NEW t \in Threads, Fasync(t) PROVE CallsInv'
  BY <1>19 DEF Fasync
<1>20. ASSUME NEW t \in Threads, CloseFile(t) PROVE CallsInv'
  BY <1>20 DEF CloseFile
<1>21. ASSUME NEW t \in Threads, Signal(t) PROVE CallsInv'
  BY <1>21 DEF Signal
<1>22. CASE UNCHANGED vars
  BY <1>22
<1> QED BY <1>1, <1>2, <1>3, <1>4, <1>5, <1>6, <1>7, <1>8, <1>9, <1>10, <1>11, <1>12, <1>13, <1>14, <1>15, <1>16, <1>17, <1>18, <1>19, <1>20, <1>21, <1>22 DEF Next, Step, Begin

LEMMA FifoInit == Init => Fifo!Init
<1> SUFFICES ASSUME Init PROVE Fifo!Init
  OBVIOUS
<1>1. ASSUME NEW t \in Threads
      PROVE  [op |-> op[t], stage |-> Stage(t), data |-> buf[t]] = Fifo!NoCall
  <2>1. op[t] = "none" /\ buf[t] = <<>>
    BY DEF Init
  <2>2. Stage(t) = "none"
    BY <2>1 DEF Stage
  <2> QED
    BY <2>1, <2>2 DEF Fifo!NoCall
<1>2. mem = <<>>
  BY DEF Init
<1> QED
  BY <1>1, <1>2, Zenon DEF Fifo!Init

\* A step that changes the call of one thread only changes that record only.
LEMMA OneCall ==
    ASSUME TypeOK, NEW t \in Threads,
           \E x, y, z : /\ op' = [op EXCEPT ![t] = x]
                        /\ buf' = [buf EXCEPT ![t] = y]
                        /\ ret' = [ret EXCEPT ![t] = z]
    PROVE  Calls' = [Calls EXCEPT ![t] = Record(t)']
BY DEF TypeOK, Calls, Record, Stage

LEMMA SameCalls ==
    ASSUME UNCHANGED <<op, buf, ret>>
    PROVE  Calls' = Calls
BY DEF Calls, Record, Stage

\* A forward memcpy leaves the bytes behind the first n.
LEMMA ShiftForward ==
    ASSUME NEW s \in Seq(Byte), NEW n \in 0..Len(s)
    PROVE  Shift(s, n, "forward") = SubSeq(s, n + 1, Len(s))
<1> DEFINE left == Len(s) - n
           rest == SubSeq(s, n + 1, Len(s))
<1>1. Shift(s, n, "forward") = [i \in 1..left |-> s[i + n]]
  BY DEF Shift
<1>2. rest \in Seq(Byte) /\ Len(rest) = left
  OBVIOUS
<1>3. \A i \in 1..left : rest[i] = s[i + n]
  OBVIOUS
<1>4. rest = [i \in 1..left |-> rest[i]]
  BY <1>2
<1> QED
  BY <1>1, <1>3, <1>4

-----------------------------------------------------------------------------
(* What each step is for the abstract queue. *)

LEMMA BeginMaps ==
    ASSUME IInv, CallsInv, NEW t \in Threads, Begin(t)
    PROVE  Fifo!Begin(t)
<1>1. PICK o \in {"read", "write", "clear"} \cup PollOps, nb \in BOOLEAN, n \in 0..MaxCount,
           b \in Buffers : Call(t, o, nb, n, b)
  <2>0. <<>> \in Buffers /\ 0 \in 0..MaxCount
    BY SizeAssumption DEF Buffers
  <2>1. CASE CallRead(t)
    BY <2>0, <2>1 DEF CallRead
  <2>2. CASE CallWrite(t)
    <3>1. PICK nb \in BOOLEAN, b \in Buffers : Call(t, "write", nb, Len(b), b)
      BY <2>2 DEF CallWrite
    <3>2. Len(b) \in 0..MaxCount
      BY SizeAssumption DEF Buffers
    <3> QED
      BY <3>1, <3>2
  <2>3. CASE CallClear(t)
    BY <2>0, <2>3 DEF CallClear
  <2>4. CASE CallPoll(t)
    BY <2>0, <2>4 DEF CallPoll
  <2> QED
    BY <2>1, <2>2, <2>3, <2>4 DEF Begin
<1>2. /\ pc[t] = "idle" /\ op' = [op EXCEPT ![t] = o] /\ buf' = [buf EXCEPT ![t] = b]
      /\ ret' = ret /\ mem' = mem
  BY <1>1 DEF Call, Go, dev
<1>3. op[t] = "none" /\ buf[t] = <<>> /\ ret[t] = "none"
  BY <1>2 DEF CallsInv, CallInv
<1>4. Calls[t] = Fifo!NoCall
  BY <1>3 DEF Calls, Record, Stage, Fifo!NoCall
<1>5. op'[t] = o /\ buf'[t] = b /\ ret'[t] = "none" /\ o # "none"
  BY <1>2, <1>3 DEF IInv, TypeOK, PollOps
<1>6. Record(t)' = [op |-> o, stage |-> "pending", data |-> b]
  BY <1>5 DEF Record, Stage
<1>7. ret' = [ret EXCEPT ![t] = ret[t]]
  BY <1>2 DEF IInv, TypeOK
<1>8. Calls' = [Calls EXCEPT ![t] = Record(t)']
  BY <1>2, <1>7, OneCall DEF IInv
<1>9. o \in Fifo!Ops
  BY DEF PollOps, Fifo!Ops
<1> QED
  BY <1>2, <1>4, <1>6, <1>8, <1>9 DEF Fifo!Begin, Calls, Record

\* The steps that end the body of a call set ret, and with it the stage.
LEMMA EndOfCall ==
    ASSUME IInv, CallsInv, NEW t \in Threads, pc[t] \in {"test", "schedule", "copy"},
           NEW r \in {"ok", "EAGAIN", "ERESTARTSYS", "EFAULT"}, NEW d \in Seq(Byte),
           op' = op, ret' = [ret EXCEPT ![t] = r], buf' = [buf EXCEPT ![t] = d]
    PROVE  /\ Calls[t] = [op |-> op[t], stage |-> "pending", data |-> buf[t]]
           /\ op[t] # "none"
           /\ Calls' = [Calls EXCEPT ![t] =
                  [op |-> op[t], stage |-> IF r = "ok" THEN "done" ELSE "failed", data |-> d]]
<1>1. op[t] # "none" /\ ret[t] = "none"
  BY DEF CallsInv, CallInv
<1>2. Calls[t] = [op |-> op[t], stage |-> "pending", data |-> buf[t]]
  BY <1>1 DEF Calls, Record, Stage
<1>3. op'[t] = op[t] /\ ret'[t] = r /\ buf'[t] = d
  BY DEF IInv, TypeOK
<1>4. Stage(t)' = IF r = "ok" THEN "done" ELSE "failed"
  BY <1>1, <1>3 DEF Stage
<1>5. op' = [op EXCEPT ![t] = op[t]]
  BY DEF IInv, TypeOK
<1>6. Calls' = [Calls EXCEPT ![t] = Record(t)']
  BY <1>5, OneCall DEF IInv
<1> QED
  BY <1>1, <1>2, <1>3, <1>4, <1>6 DEF Record

LEMMA FailMaps ==
    ASSUME IInv, CallsInv, NEW t \in Threads,
           TestAgain(t) \/ ScheduleSignal(t) \/ CopyFault(t)
    PROVE  Fifo!Fail(t)
<1>1. PICK r \in {"EAGAIN", "ERESTARTSYS", "EFAULT"} : ret' = [ret EXCEPT ![t] = r]
  BY DEF TestAgain, ScheduleSignal, CopyFault, Fail
<1>2. /\ pc[t] \in {"test", "schedule", "copy"} /\ op' = op /\ buf' = buf /\ mem' = mem
      /\ op[t] \in {"read", "write"} \cup PollOps
  BY DEF TestAgain, ScheduleSignal, CopyFault, Go, Blocked, dev, args, PollOps,
         IInv, TypeOK, CallsInv, CallInv
<1>3. buf' = [buf EXCEPT ![t] = buf[t]] /\ buf[t] \in Seq(Byte)
  BY <1>2 DEF IInv, TypeOK
<1>4. /\ Calls[t] = [op |-> op[t], stage |-> "pending", data |-> buf[t]]
      /\ Calls' = [Calls EXCEPT ![t] =
             [op |-> op[t], stage |-> "failed", data |-> buf[t]]]
  BY <1>1, <1>2, <1>3, EndOfCall
<1>5. Calls' = [Calls EXCEPT ![t].stage = "failed"]
  BY <1>4 DEF Calls, Record
<1>6. op[t] \in Fifo!Ops \ {"clear"}
  BY <1>2 DEF Fifo!Ops, PollOps
<1> QED
  BY <1>2, <1>4, <1>5, <1>6 DEF Fifo!Fail, Fifo!Pending, Calls, Record

LEMMA ReadMaps ==
    ASSUME CopyOrders = {"forward"}, IInv, CallsInv, NEW t \in Threads, ReadCopy(t)
    PROVE  Fifo!Take(t)
<1> DEFINE n == Min2(want[t], Len(mem))
           d == SubSeq(mem, 1, n)
<1>1. n \in 0..Len(mem) /\ mem \in Seq(Byte)
  BY SizeAssumption DEF Min2, IInv, TypeOK
<1>2. d \in Seq(Byte)
  BY <1>1
<1>3. /\ pc[t] = "copy" /\ op[t] = "read" /\ op' = op
      /\ ret' = [ret EXCEPT ![t] = "ok"] /\ buf' = [buf EXCEPT ![t] = d]
      /\ mem' = Shift(mem, n, "forward")
  BY DEF ReadCopy, Go, args
<1>4. mem' = SubSeq(mem, n + 1, Len(mem))
  BY <1>1, <1>3, ShiftForward
<1> HIDE DEF n, d
<1>5. /\ Calls[t] = [op |-> op[t], stage |-> "pending", data |-> buf[t]]
      /\ Calls' = [Calls EXCEPT ![t] = [op |-> op[t], stage |-> "done", data |-> d]]
  BY <1>2, <1>3, EndOfCall
<1>6. Calls' = [Calls EXCEPT ![t].stage = "done", ![t].data = d]
  BY <1>5 DEF Calls, Record
<1>7. Fifo!Pending(t, "read")
  BY <1>3, <1>5 DEF Fifo!Pending, Calls, Record
<1> QED
  BY <1>1, <1>4, <1>6, <1>7 DEF Fifo!Take, Calls, Record, d

LEMMA WriteMaps ==
    ASSUME IInv, CallsInv, NEW t \in Threads, WriteCopy(t)
    PROVE  Fifo!Put(t)
<1> DEFINE n == WriteCount(t)
           d == SubSeq(buf[t], 1, n)
<1>1. n \in 0..Len(buf[t]) /\ Len(mem) + n <= SIZE /\ buf[t] \in Seq(Byte)
  BY SizeAssumption DEF WriteCount, Min2, IInv, TypeOK
<1>2. d \in Seq(Byte)
  BY <1>1
<1>3. /\ pc[t] = "copy" /\ op[t] = "write" /\ op' = op
      /\ ret' = [ret EXCEPT ![t] = "ok"] /\ buf' = [buf EXCEPT ![t] = d]
      /\ mem' = mem \o d
  BY DEF WriteCopy, Go, args
<1> HIDE DEF n, d
<1>5. /\ Calls[t] = [op |-> op[t], stage |-> "pending", data |-> buf[t]]
      /\ Calls' = [Calls EXCEPT ![t] = [op |-> op[t], stage |-> "done", data |-> d]]
  BY <1>2, <1>3, EndOfCall
<1>6. Calls' = [Calls EXCEPT ![t].stage = "done", ![t].data = d]
  BY <1>5 DEF Calls, Record
<1>7. Fifo!Pending(t, "write") /\ Calls[t].data = buf[t]
  BY <1>3, <1>5 DEF Fifo!Pending, Calls, Record
<1> QED
  BY <1>1, <1>3, <1>6, <1>7 DEF Fifo!Put, Calls, Record, d

LEMMA OthersMap ==
    ASSUME IInv, CallsInv, NEW t \in Threads, ClearBody(t) \/ PollReport(t)
    PROVE  Fifo!Clear(t) \/ Fifo!Report(t)
<1>1. /\ pc[t] = "copy" /\ op' = op /\ buf' = buf /\ ret' = [ret EXCEPT ![t] = "ok"]
      /\ \/ op[t] = "clear" /\ mem' = <<>>
         \/ op[t] \in PollOps /\ mem' = mem /\ ~Blocked(op[t])
  BY DEF ClearBody, PollReport, Go, args, dev, CallsInv, CallInv
<1>2. buf' = [buf EXCEPT ![t] = buf[t]] /\ buf[t] \in Seq(Byte)
  BY <1>1 DEF IInv, TypeOK
<1>3. /\ Calls[t] = [op |-> op[t], stage |-> "pending", data |-> buf[t]]
      /\ Calls' = [Calls EXCEPT ![t] = [op |-> op[t], stage |-> "done", data |-> buf[t]]]
  BY <1>1, <1>2, EndOfCall
<1>4. Calls' = [Calls EXCEPT ![t].stage = "done"] /\ Fifo!Pending(t, op[t])
  BY <1>3 DEF Calls, Record, Fifo!Pending
<1>5. CASE op[t] = "clear"
  BY <1>1, <1>4, <1>5 DEF Fifo!Clear, Calls, Record, PollOps
<1>6. CASE op[t] \in PollOps
  BY <1>1, <1>4, <1>6 DEF Fifo!Report, Calls, Record, PollOps, Blocked
<1> QED
  BY <1>1, <1>5, <1>6

LEMMA ReturnMaps ==
    ASSUME IInv, CallsInv, NEW t \in Threads, Return(t)
    PROVE  Fifo!Return(t)
<1>1. /\ pc[t] = "out2" /\ mem' = mem
      /\ op' = [op EXCEPT ![t] = "none"] /\ buf' = [buf EXCEPT ![t] = <<>>]
      /\ ret' = [ret EXCEPT ![t] = "none"]
  BY DEF Return, Go
<1>2. op[t] # "none" /\ ret[t] # "none"
  BY <1>1 DEF CallsInv, CallInv
<1>3. Calls[t].stage \in {"done", "failed"}
  BY <1>2 DEF Calls, Record, Stage
<1>4. op'[t] = "none" /\ buf'[t] = <<>> /\ ret'[t] = "none"
  BY <1>1 DEF IInv, TypeOK
<1>5. Record(t)' = Fifo!NoCall
  BY <1>4 DEF Record, Stage, Fifo!NoCall
<1>6. Calls' = [Calls EXCEPT ![t] = Record(t)']
  BY <1>1, OneCall DEF IInv
<1> QED
  BY <1>1, <1>3, <1>5, <1>6 DEF Fifo!Return, Calls, Record

\* Every step of the driver is a step of the queue or none.
LEMMA FifoStep ==
    ASSUME CopyOrders = {"forward"}, IInv, CallsInv, [Next]_vars
    PROVE  [Fifo!Next]_Fifo!vars
<1>1. ASSUME NEW t \in Threads, \/ Begin(t)
                                \/ TestAgain(t) \/ ScheduleSignal(t) \/ CopyFault(t)
                                \/ ReadCopy(t) \/ WriteCopy(t) \/ ClearBody(t) \/ PollReport(t)
                                \/ Return(t)
      PROVE  Fifo!Next
  BY <1>1, BeginMaps, FailMaps, ReadMaps, WriteMaps, OthersMap, ReturnMaps DEF Fifo!Next
<1>2. ASSUME NEW t \in Threads, \/ Lock(t) \/ TestReady(t) \/ TestSleep(t) \/ Release(t)
                                \/ ScheduleAgain(t) \/ Unlock(t)
                                \/ Fasync(t) \/ CloseFile(t) \/ Signal(t)
      PROVE  UNCHANGED <<mem, op, buf, ret>>
  BY <1>2 DEF Lock, TestReady, TestSleep, Release, ScheduleAgain, Unlock, Fasync, CloseFile,
              Signal, dev, args
<1>3. ASSUME UNCHANGED <<mem, op, buf, ret>> PROVE UNCHANGED Fifo!vars
  BY <1>3, SameCalls DEF Fifo!vars, Calls, Record
<1>4. CASE UNCHANGED vars
  BY <1>3, <1>4 DEF vars, dev, args
<1> QED
  BY <1>1, <1>2, <1>3, <1>4 DEF Next, Step

\* As long as memcpy copies forward, the driver is the bounded queue that BoundedFifo
\* describes: every call takes effect at one instant, exactly once, or fails without a
\* trace; for any number of threads, any capacity and any buffers.
THEOREM DriverIsQueue == CopyOrders = {"forward"} /\ Spec => ImplementsFifo
<1>1. IInv /\ CallsInv /\ [Next]_vars => CallsInv'
  BY CallsStep
<1>2. CopyOrders = {"forward"} =>
         (IInv /\ CallsInv /\ [Next]_vars => [Fifo!Next]_Fifo!vars)
  BY FifoStep
<1>3. CopyOrders = {"forward"} =>
         (Fifo!Init /\ [][Next]_vars /\ []IInv /\ []CallsInv => Fifo!Spec)
  <2> SUFFICES ASSUME CopyOrders = {"forward"}
               PROVE  Fifo!Init /\ [][Next]_vars /\ []IInv /\ []CallsInv => Fifo!Spec
    OBVIOUS
  <2>1. IInv /\ CallsInv /\ [Next]_vars => [Fifo!Next]_Fifo!vars
    BY <1>2
  <2> QED
    BY <2>1, PTL DEF Fifo!Spec
<1> QED
  BY Invariance, CallsInitially, FifoInit, <1>1, <1>3, PTL DEF Spec, ImplementsFifo
=============================================================================
