---------------------------- MODULE TdlcdMemory -----------------------------
(***************************************************************************)
(* drivers/ch6/tdlcd.c: a character device that is a memory of SIZE bytes  *)
(* under one mutex.  Threads with a file of their own read, write, seek    *)
(* and clear it; pread and pwrite bring a position of their own.  The      *)
(* copies and the memset go byte by byte and a copy may fault, so what the *)
(* mutex makes whole is visible.  A byte is 0 or the thread that wrote it. *)
(***************************************************************************)
EXTENDS Integers, FiniteSets

CONSTANTS Users,       \* threads
          SIZE,        \* bytes of the memory (0x1000)
          NoUser,      \* the mutex is free
          MaxSize,     \* bound: bytes asked for in a call
          MaxCalls     \* bound: reads, writes and clears in all

ASSUME MemoryAssumption == /\ SIZE \in Nat \ {0} /\ MaxSize \in Nat /\ MaxCalls \in Nat
                           /\ NoUser \notin Users /\ 0 \notin Users

VARIABLES mem, dev_mutex,           \* struct tdlcd_dev
          f_pos,                    \* of each thread's file
          upc, kind, pos, count,    \* the call of each thread; count is size until clipped
          own,                      \* the call uses f_pos
          b, got, ret,              \* bytes done; bytes read; what it returns
          calls,                    \* reads, writes and clears so far
          snap, behind              \* history: mem when the mutex was taken;
                                    \* a write behind the end has returned

call    == <<kind, pos, own>>
memvars == <<mem, dev_mutex, f_pos, upc, call, count, b, got, ret, calls, snap, behind>>

Cells == 0..(SIZE - 1)
Nothing == [c \in {} |-> 0]

MemInit == /\ mem = [c \in Cells |-> 0]
           /\ dev_mutex = NoUser
           /\ f_pos = [u \in Users |-> 0]
           /\ upc = [u \in Users |-> "idle"] /\ kind = [u \in Users |-> "read"]
           /\ pos = [u \in Users |-> 0] /\ count = pos /\ b = pos /\ ret = pos
           /\ own = [u \in Users |-> TRUE]
           /\ got = [u \in Users |-> Nothing]
           /\ calls = 0
           /\ snap = mem /\ behind = FALSE

At(u, from, to) == upc[u] = from /\ upc' = [upc EXCEPT ![u] = to]

\* The call returns: its locals are gone.
Return(u, from) ==
    /\ At(u, from, "idle")
    /\ kind' = [kind EXCEPT ![u] = "read"] /\ own' = [own EXCEPT ![u] = TRUE]
    /\ pos' = [pos EXCEPT ![u] = 0] /\ count' = [count EXCEPT ![u] = 0]
    /\ b' = [b EXCEPT ![u] = 0] /\ ret' = [ret EXCEPT ![u] = 0]
    /\ got' = [got EXCEPT ![u] = Nothing]

-----------------------------------------------------------------------------
(* The calls, up to the mutex. *)

Clip(size, p) == IF size > SIZE - p THEN SIZE - p ELSE size

Enter(u, op, p, size, file) ==
    /\ calls < MaxCalls /\ calls' = calls + 1
    /\ kind' = [kind EXCEPT ![u] = op]
    /\ pos' = [pos EXCEPT ![u] = p]
    /\ count' = [count EXCEPT ![u] = size]
    /\ own' = [own EXCEPT ![u] = file]
    /\ UNCHANGED <<mem, dev_mutex, f_pos, b, got, ret, snap, behind>>

\* The position is the file's, or one that pread and pwrite bring.
Position(u, p, file) == IF file THEN p = f_pos[u] ELSE p \in 0..(SIZE + 1)

Read(u) == /\ At(u, "idle", "lock")
           /\ \E p \in 0..SIZE, size \in 0..MaxSize, file \in BOOLEAN :
                 Position(u, p, file) /\ Enter(u, "read", p, Clip(size, p), file)

\* Only pread brings a position behind the end; it returns 0 at once.
ReadBehind(u) == /\ upc[u] = "idle"
                 /\ calls < MaxCalls /\ calls' = calls + 1
                 /\ UNCHANGED <<mem, dev_mutex, f_pos, upc, call, count, b, got, ret, snap, behind>>

Write(u) == /\ At(u, "idle", "lock")
            /\ \E p \in 0..(SIZE + 1), size \in 0..MaxSize, file \in BOOLEAN :
                  Position(u, p, file) /\ Enter(u, "write", p, size, file)

Clear(u) == /\ At(u, "idle", "lock")
            /\ Enter(u, "clear", 0, SIZE, FALSE)

\* tdlcd_llseek: from the start, or from where the file is.
SeekTo(u, p) == /\ p \in 0..SIZE
                /\ f_pos' = [f_pos EXCEPT ![u] = p]

Seek(u) == /\ upc[u] = "idle"
           /\ \E offset \in (-SIZE - 1)..(SIZE + 1), orig \in {0, 1} :
                 SeekTo(u, IF orig = 0 THEN offset ELSE f_pos[u] + offset)
           /\ UNCHANGED <<mem, dev_mutex, upc, call, count, b, got, ret, calls, snap, behind>>

-----------------------------------------------------------------------------
(* Under the mutex. *)

Barging == TRUE
MutexFree == dev_mutex = NoUser

Lock(u) == /\ At(u, "lock", IF kind[u] = "write" THEN "clip" ELSE "copy")
           /\ MutexFree /\ dev_mutex' = u
           /\ snap' = mem
           /\ UNCHANGED <<mem, f_pos, call, count, b, got, ret, calls, behind>>

\* return 0, with the mutex held.
WriteBehind(u) == /\ Return(u, "clip")
                  /\ pos[u] > SIZE
                  /\ behind' = TRUE
                  /\ UNCHANGED <<mem, dev_mutex, f_pos, calls, snap>>

WriteClip(u) == /\ At(u, "clip", "copy")
                /\ pos[u] <= SIZE
                /\ count' = [count EXCEPT ![u] = Clip(@, pos[u])]
                /\ UNCHANGED <<mem, dev_mutex, f_pos, call, b, got, ret, calls, snap, behind>>

\* One byte of copy_to_user, copy_from_user or memset.
CopyByte(u) ==
    /\ upc[u] = "copy" /\ b[u] < count[u]
    /\ LET c == pos[u] + b[u]
       IN  IF kind[u] = "read"
           THEN /\ got' = [got EXCEPT ![u] = [d \in 0..b[u] |->
                                                IF d = b[u] THEN mem[c] ELSE got[u][d]]]
                /\ UNCHANGED mem
           ELSE /\ mem' = [mem EXCEPT ![c] = IF kind[u] = "write" THEN u ELSE 0]
                /\ UNCHANGED got
    /\ b' = [b EXCEPT ![u] = @ + 1]
    /\ UNCHANGED <<dev_mutex, f_pos, upc, call, count, ret, calls, snap, behind>>

CopyDone(u) ==
    /\ At(u, "copy", "unlock")
    /\ b[u] = count[u]
    /\ f_pos' = [f_pos EXCEPT ![u] = IF own[u] THEN pos[u] + count[u] ELSE @]
    /\ ret' = [ret EXCEPT ![u] = IF kind[u] = "clear" THEN 0 ELSE count[u]]
    /\ UNCHANGED <<mem, dev_mutex, call, count, b, got, calls, snap, behind>>

CopyFaults(u) ==
    /\ At(u, "copy", "unlock")
    /\ kind[u] # "clear" /\ b[u] < count[u]
    /\ ret' = [ret EXCEPT ![u] = -1]     \* -EFAULT
    /\ UNCHANGED <<mem, dev_mutex, f_pos, call, count, b, got, calls, snap, behind>>

StillHeld(u) == IF ret[u] < 0 THEN dev_mutex ELSE NoUser
Unlocked(u) == NoUser

Unlock(u) == /\ Return(u, "unlock")
             /\ dev_mutex' = Unlocked(u)
             /\ snap' = mem
             /\ UNCHANGED <<mem, f_pos, calls, behind>>

\* The steps of a call that is under way.
CallStep(u) == WriteBehind(u) \/ WriteClip(u) \/ CopyByte(u) \/ CopyDone(u) \/ CopyFaults(u)
               \/ Unlock(u)

User(u) == Read(u) \/ ReadBehind(u) \/ Write(u) \/ Clear(u) \/ Seek(u) \/ Lock(u) \/ CallStep(u)

MemNext == \E u \in Users : User(u)
MemSpec == MemInit /\ [][MemNext]_memvars

-----------------------------------------------------------------------------
(* A call that returns without a fault worked on the memory as it was when *)
(* the call took the mutex, and on nothing else: a read gets one moment's  *)
(* bytes, a write or clear changes its range and leaves the rest; and no   *)
(* position ever leaves the memory, whatever was sought before             *)
(* (tdlcd.c:81-88, :115-122, :143-160).                                    *)
Whole ==
    \A u \in Users : upc[u] = "unlock" /\ ret[u] >= 0 =>
        LET range == pos[u]..(pos[u] + count[u] - 1)
        IN  /\ range \subseteq Cells /\ f_pos[u] \in 0..SIZE
            /\ IF kind[u] = "read"
               THEN /\ mem = snap
                    /\ \A d \in 0..(count[u] - 1) : got[u][d] = snap[pos[u] + d]
               ELSE mem = [c \in Cells |-> IF c \notin range THEN snap[c]
                                           ELSE IF kind[u] = "write" THEN u ELSE 0]

(* Every call returns, also after faults, as long as no write behind the   *)
(* end has taken the mutex away with it (tdlcd.c:117).                     *)
CallsReturn ==
    \A u \in Users : upc[u] # "idle" ~> (upc[u] = "idle" \/ behind)
=============================================================================
