---------------------------- MODULE DeviceProofs ----------------------------
(***************************************************************************)
(* Proofs about two device drivers.  TdlcdMemory: what the mutex of tdlcd  *)
(* makes whole, for every number of threads and bytes, and any number of   *)
(* calls.  Tdlbd: the data of a disk and its bios, what unloading leaves   *)
(* behind, and where segments land, for any number of disks, bios and      *)
(* sectors.                                                                *)
(***************************************************************************)
EXTENDS TdlcdMemory, Tdlbd, TLAPS

-----------------------------------------------------------------------------
(* tdlcd: the invariant of the memory and its calls.                       *)

Bytes == Users \union {0}

MemType == /\ mem \in [Cells -> Bytes]
           /\ f_pos \in [Users -> 0..SIZE]
           /\ upc \in [Users -> {"idle", "lock", "clip", "copy", "unlock"}]
           /\ kind \in [Users -> {"read", "write", "clear"}]
           /\ pos \in [Users -> 0..(SIZE + 1)] /\ own \in [Users -> BOOLEAN]
           /\ count \in [Users -> Nat] /\ b \in [Users -> Nat] /\ ret \in [Users -> Int]
           /\ DOMAIN got = Users
           /\ snap \in [Cells -> Bytes]

\* The byte that a call other than a read leaves behind.
Left(u) == IF kind[u] = "write" THEN u ELSE 0

\* The first b bytes are done and the memory is otherwise as it was.
Copied(u) ==
    IF kind[u] = "read"
    THEN mem = snap /\ \A d \in 0..(b[u] - 1) : got[u][d] = snap[pos[u] + d]
    ELSE mem = [c \in Cells |-> IF c \notin pos[u]..(pos[u] + b[u] - 1) THEN snap[c]
                                ELSE Left(u)]

Fits(u) == pos[u] + count[u] <= SIZE

\* What holds for a call at each of its places.
Entered(u) == upc[u] = "lock" => b[u] = 0 /\ (kind[u] # "write" => Fits(u))
Holding(u) == upc[u] \in {"clip", "copy", "unlock"} => dev_mutex = u
Clipping(u) == upc[u] = "clip" => kind[u] = "write" /\ b[u] = 0 /\ mem = snap
Copying(u) == upc[u] = "copy" => Fits(u) /\ b[u] <= count[u] /\ Copied(u)
Leaving(u) == upc[u] = "unlock" /\ ret[u] >= 0 => Fits(u) /\ b[u] = count[u] /\ Copied(u)
Idle(u) == upc[u] = "idle" => b[u] = 0

UserInv(u) == Entered(u) /\ Holding(u) /\ Clipping(u) /\ Copying(u) /\ Leaving(u) /\ Idle(u)

MemInv == MemType /\ \A u \in Users : UserInv(u)

-----------------------------------------------------------------------------
LEMMA MemInitInv == MemInit => MemInv
<1> SUFFICES ASSUME MemInit PROVE MemInv
  OBVIOUS
<1>1. MemType
  BY MemoryAssumption DEF MemInit, MemType, Bytes
<1>2. ASSUME NEW u \in Users PROVE UserInv(u)
  BY DEF MemInit, UserInv, Entered, Holding, Clipping, Copying, Leaving, Idle
<1> QED
  BY <1>1, <1>2 DEF MemInv

\* A call that another thread has under way is not disturbed: whoever
\* changes the memory holds the mutex, and so this call does not.
LEMMA OthersUndisturbed ==
    ASSUME NEW v \in Users, UserInv(v),
           upc'[v] = upc[v], kind'[v] = kind[v], pos'[v] = pos[v], count'[v] = count[v],
           b'[v] = b[v], ret'[v] = ret[v], got'[v] = got[v],
           \/ upc[v] \notin {"clip", "copy", "unlock"}
           \/ dev_mutex' = dev_mutex /\ mem' = mem /\ snap' = snap
    PROVE  UserInv(v)'
<1>1. Entered(v)' /\ Idle(v)'
  BY DEF UserInv, Entered, Idle, Fits
<1>2. Holding(v)'
  BY DEF UserInv, Holding
<1>3. CASE upc[v] \notin {"clip", "copy", "unlock"}
  BY <1>1, <1>2, <1>3 DEF UserInv, Clipping, Copying, Leaving
<1>4. CASE dev_mutex' = dev_mutex /\ mem' = mem /\ snap' = snap
  <2>1. (Copied(v) <=> Copied(v)') /\ (Fits(v) <=> Fits(v)')
    BY <1>4 DEF Copied, Fits, Left
  <2> QED
    BY <1>1, <1>2, <1>4, <2>1 DEF UserInv, Clipping, Copying, Leaving
<1> QED
  BY <1>3, <1>4

-----------------------------------------------------------------------------
(* The steps before the mutex. *)

LEMMA ClipFits ==
    ASSUME NEW size \in Nat, NEW p \in 0..SIZE
    PROVE  Clip(size, p) \in Nat /\ p + Clip(size, p) <= SIZE
BY MemoryAssumption DEF Clip

LEMMA EnterKeeps ==
    ASSUME MemInv, NEW u \in Users, At(u, "idle", "lock"),
           NEW op \in {"read", "write", "clear"}, NEW p \in 0..(SIZE + 1), NEW size \in Nat,
           NEW file \in BOOLEAN, Enter(u, op, p, size, file),
           op # "write" => p + size <= SIZE
    PROVE  MemInv'
<1>1. /\ upc[u] = "idle" /\ upc' = [upc EXCEPT ![u] = "lock"]
      /\ kind' = [kind EXCEPT ![u] = op] /\ pos' = [pos EXCEPT ![u] = p]
      /\ count' = [count EXCEPT ![u] = size] /\ own' = [own EXCEPT ![u] = file]
      /\ mem' = mem /\ dev_mutex' = dev_mutex /\ f_pos' = f_pos /\ b' = b /\ got' = got
      /\ ret' = ret /\ snap' = snap
  BY DEF At, Enter
<1>2. MemType'
  BY <1>1 DEF MemInv, MemType
<1>3. UserInv(u)'
  BY <1>1 DEF MemInv, MemType, UserInv, Entered, Holding, Clipping, Copying, Leaving, Idle, Fits
<1>4. ASSUME NEW v \in Users, v # u PROVE UserInv(v)'
  <2>1. UserInv(v)
    BY DEF MemInv
  <2> QED
    BY <1>1, <1>4, <2>1, OthersUndisturbed DEF MemInv, MemType
<1> QED
  BY <1>2, <1>3, <1>4 DEF MemInv

LEMMA CallsKeep ==
    ASSUME MemInv, NEW u \in Users, Read(u) \/ Write(u) \/ Clear(u)
    PROVE  MemInv'
<1>1. CASE Read(u)
  <2>1. PICK p \in 0..SIZE, size \in 0..MaxSize, file \in BOOLEAN :
            Enter(u, "read", p, Clip(size, p), file)
    BY <1>1 DEF Read
  <2>2. p \in 0..(SIZE + 1) /\ size \in Nat
    BY MemoryAssumption
  <2> QED
    BY <1>1, <2>1, <2>2, ClipFits, EnterKeeps DEF Read
<1>2. CASE Write(u)
  <2>1. PICK p \in 0..(SIZE + 1), size \in 0..MaxSize, file \in BOOLEAN :
            Enter(u, "write", p, size, file)
    BY <1>2 DEF Write
  <2>2. size \in Nat
    BY MemoryAssumption
  <2> QED
    BY <1>2, <2>1, <2>2, EnterKeeps DEF Write
<1>3. CASE Clear(u)
  <2>1. 0 \in 0..(SIZE + 1) /\ SIZE \in Nat /\ 0 + SIZE <= SIZE /\ FALSE \in BOOLEAN
    BY MemoryAssumption
  <2> QED
    BY <1>3, <2>1, EnterKeeps DEF Clear
<1> QED
  BY <1>1, <1>2, <1>3

LEMMA QuietKeeps ==
    ASSUME MemInv, \/ \E u \in Users : ReadBehind(u) \/ Seek(u)
                   \/ UNCHANGED memvars
    PROVE  MemInv'
<1>1. /\ UNCHANGED <<mem, dev_mutex, upc, kind, pos, own, count, b, got, ret, snap>>
      /\ f_pos' \in [Users -> 0..SIZE]
  BY DEF ReadBehind, Seek, SeekTo, call, memvars, MemInv, MemType
<1>2. MemType'
  BY <1>1 DEF MemInv, MemType
<1>3. ASSUME NEW v \in Users PROVE UserInv(v)'
  BY <1>1, OthersUndisturbed DEF MemInv
<1> QED
  BY <1>2, <1>3 DEF MemInv

-----------------------------------------------------------------------------
(* The steps with the mutex. *)

LEMMA LockKeeps ==
    ASSUME MemInv, NEW u \in Users, Lock(u)
    PROVE  MemInv'
<1>1. /\ upc[u] = "lock" /\ dev_mutex = NoUser /\ dev_mutex' = u /\ snap' = mem
      /\ upc' = [upc EXCEPT ![u] = IF kind[u] = "write" THEN "clip" ELSE "copy"]
      /\ mem' = mem /\ f_pos' = f_pos /\ kind' = kind /\ pos' = pos /\ own' = own
      /\ count' = count /\ b' = b /\ got' = got /\ ret' = ret
  BY DEF Lock, At, MutexFree, call
<1>2. MemType'
  BY <1>1 DEF MemInv, MemType
<1>3. UserInv(u)'
  <2>1. b[u] = 0 /\ (kind[u] # "write" => Fits(u)) /\ count[u] \in Nat /\ pos[u] \in Int
    BY <1>1 DEF MemInv, MemType, UserInv, Entered
  <2>2. mem' \in [Cells -> Bytes] /\ mem' = snap' /\ b'[u] = 0
    BY <1>1, <2>1 DEF MemInv, MemType
  <2>3. \A c \in Cells : c \notin pos'[u]..(pos'[u] + b'[u] - 1)
    BY <1>1, <2>1, <2>2 DEF Cells
  <2>4. Copied(u)'
    BY <2>1, <2>2, <2>3 DEF Copied, Cells
  <2>5. upc'[u] = IF kind[u] = "write" THEN "clip" ELSE "copy"
    BY <1>1 DEF MemInv, MemType
  <2>6. CASE kind[u] = "write"
    BY <1>1, <2>1, <2>5, <2>6
    DEF UserInv, Entered, Holding, Clipping, Copying, Leaving, Idle
  <2>7. CASE kind[u] # "write"
    BY <1>1, <2>1, <2>4, <2>5, <2>7
    DEF UserInv, Entered, Holding, Clipping, Copying, Leaving, Idle, Fits
  <2> QED
    BY <2>6, <2>7
<1>4. ASSUME NEW v \in Users, v # u PROVE UserInv(v)'
  <2>1. upc[v] \notin {"clip", "copy", "unlock"}
    BY <1>1, MemoryAssumption DEF MemInv, UserInv, Holding
  <2>2. UserInv(v) /\ upc'[v] = upc[v]
    BY <1>1, <1>4 DEF MemInv, MemType
  <2> QED
    BY <1>1, <2>1, <2>2, OthersUndisturbed
<1> QED
  BY <1>2, <1>3, <1>4 DEF MemInv

\* Whoever holds the mutex may change everything but the others' calls.
LEMMA OthersWait ==
    ASSUME MemInv, NEW u \in Users, upc[u] \in {"clip", "copy", "unlock"},
           NEW v \in Users, v # u,
           upc'[v] = upc[v], kind'[v] = kind[v], pos'[v] = pos[v], count'[v] = count[v],
           b'[v] = b[v], ret'[v] = ret[v], got'[v] = got[v]
    PROVE  UserInv(v)'
<1>1. upc[v] \notin {"clip", "copy", "unlock"} /\ UserInv(v)
  BY DEF MemInv, UserInv, Holding
<1> QED
  BY <1>1, OthersUndisturbed

LEMMA ReturnKeeps ==
    ASSUME MemInv, NEW u \in Users, WriteBehind(u) \/ Unlock(u)
    PROVE  MemInv'
<1>1. /\ upc[u] \in {"clip", "unlock"} /\ upc' = [upc EXCEPT ![u] = "idle"]
      /\ kind' = [kind EXCEPT ![u] = "read"] /\ own' = [own EXCEPT ![u] = TRUE]
      /\ pos' = [pos EXCEPT ![u] = 0] /\ count' = [count EXCEPT ![u] = 0]
      /\ b' = [b EXCEPT ![u] = 0] /\ ret' = [ret EXCEPT ![u] = 0]
      /\ got' = [got EXCEPT ![u] = Nothing]
      /\ mem' = mem /\ f_pos' = f_pos /\ snap' \in {mem, snap}
  BY DEF WriteBehind, Unlock, Return, At
<1>2. MemType'
  BY <1>1, MemoryAssumption DEF MemInv, MemType
<1>3. UserInv(u)'
  BY <1>1 DEF MemInv, MemType, UserInv, Entered, Holding, Clipping, Copying, Leaving, Idle
<1>4. ASSUME NEW v \in Users, v # u PROVE UserInv(v)'
  BY <1>1, <1>4, OthersWait DEF MemInv, MemType
<1> QED
  BY <1>2, <1>3, <1>4 DEF MemInv

LEMMA WriteClipKeeps ==
    ASSUME MemInv, NEW u \in Users, WriteClip(u)
    PROVE  MemInv'
<1>1. /\ upc[u] = "clip" /\ upc' = [upc EXCEPT ![u] = "copy"] /\ pos[u] <= SIZE
      /\ count' = [count EXCEPT ![u] = Clip(count[u], pos[u])]
      /\ UNCHANGED <<mem, dev_mutex, f_pos, kind, pos, own, b, got, ret, snap>>
  BY DEF WriteClip, At, call
<1>2. pos[u] \in 0..SIZE /\ count[u] \in Nat
  BY <1>1, MemoryAssumption DEF MemInv, MemType
<1>3. Clip(count[u], pos[u]) \in Nat /\ pos[u] + Clip(count[u], pos[u]) <= SIZE
  BY <1>2, ClipFits
<1>4. MemType'
  BY <1>1, <1>3 DEF MemInv, MemType
<1>5. UserInv(u)'
  <2>1. /\ kind[u] = "write" /\ b[u] = 0 /\ mem = snap /\ dev_mutex = u
        /\ mem \in [Cells -> Bytes]
    BY <1>1 DEF MemInv, MemType, UserInv, Clipping, Holding
  <2>2. \A c \in Cells : c \notin pos[u]..(pos[u] + b[u] - 1)
    BY <1>2, <2>1 DEF Cells
  <2>3. Copied(u)'
    BY <1>1, <2>1, <2>2 DEF Copied, Cells
  <2>4. count'[u] = Clip(count[u], pos[u]) /\ upc'[u] = "copy"
    BY <1>1 DEF MemInv, MemType
  <2>5. Fits(u)' /\ b'[u] <= count'[u]
    BY <1>1, <1>3, <2>1, <2>4 DEF Fits
  <2> QED
    BY <1>1, <2>1, <2>3, <2>4, <2>5
    DEF UserInv, Entered, Holding, Clipping, Copying, Leaving, Idle
<1>6. ASSUME NEW v \in Users, v # u PROVE UserInv(v)'
  BY <1>1, <1>6, OthersWait DEF MemInv, MemType
<1> QED
  BY <1>4, <1>5, <1>6 DEF MemInv

LEMMA CopyByteKeeps ==
    ASSUME MemInv, NEW u \in Users, CopyByte(u)
    PROVE  MemInv'
<1> DEFINE at == pos[u] + b[u]
<1>1. /\ upc[u] = "copy" /\ b[u] < count[u] /\ b' = [b EXCEPT ![u] = b[u] + 1]
      /\ UNCHANGED <<dev_mutex, f_pos, upc, kind, pos, own, count, ret, snap>>
      /\ kind[u] = "read" =>
            /\ got' = [got EXCEPT ![u] = [d \in 0..b[u] |->
                                            IF d = b[u] THEN mem[at] ELSE got[u][d]]]
            /\ mem' = mem
      /\ kind[u] # "read" =>
            /\ mem' = [mem EXCEPT ![at] = Left(u)]
            /\ got' = got
  BY DEF CopyByte, call, Left
<1>2. /\ pos[u] \in Nat /\ b[u] \in Nat /\ count[u] \in Nat /\ pos[u] + count[u] <= SIZE
      /\ Copied(u) /\ dev_mutex = u /\ at \in Cells /\ SIZE \in Nat
  BY <1>1, MemoryAssumption
  DEF MemInv, MemType, UserInv, Copying, Holding, Fits, Cells
<1>3. MemType'
  <2>1. Left(u) \in Bytes
    BY DEF Left, Bytes
  <2>2. DOMAIN got' = Users
    <3>1. got' = got \/ got' = [got EXCEPT ![u] = got'[u]]
      BY <1>1 DEF MemInv, MemType
    <3> QED
      BY <3>1 DEF MemInv, MemType
  <2>3. mem' \in [Cells -> Bytes]
    BY <1>1, <2>1 DEF MemInv, MemType
  <2>4. b' \in [Users -> Nat]
    BY <1>1, <1>2 DEF MemInv, MemType
  <2> QED
    BY <1>1, <2>2, <2>3, <2>4 DEF MemInv, MemType
<1>4. b'[u] = b[u] + 1
  BY <1>1 DEF MemInv, MemType
<1>5. Copied(u)'
  <2>1. CASE kind[u] = "read"
    <3>1. mem = snap /\ \A d \in 0..(b[u] - 1) : got[u][d] = snap[pos[u] + d]
      BY <1>2, <2>1 DEF Copied
    <3>2. got'[u] = [d \in 0..b[u] |-> IF d = b[u] THEN mem[at] ELSE got[u][d]]
      BY <1>1, <2>1 DEF MemInv, MemType
    <3>3. ASSUME NEW d \in 0..b[u] PROVE got'[u][d] = snap[pos[u] + d]
      BY <1>2, <3>1, <3>2
    <3>4. 0..(b'[u] - 1) = 0..b[u]
      BY <1>2, <1>4
    <3> QED
      BY <1>1, <2>1, <3>1, <3>3, <3>4 DEF Copied
  <2>2. CASE kind[u] # "read"
    <3>1. mem = [c \in Cells |-> IF c \notin pos[u]..(at - 1) THEN snap[c] ELSE Left(u)]
      BY <1>2, <2>2 DEF Copied
    <3>2. ASSUME NEW c \in Cells
          PROVE  mem'[c] = IF c \notin pos[u]..at THEN snap[c] ELSE Left(u)
      <4>1. c \in Int
        BY <1>2 DEF Cells
      <4>2. CASE c = at
        <5>1. mem'[c] = Left(u)
          BY <1>1, <2>2, <3>1, <4>2
        <5>2. c \in pos[u]..at
          BY <1>2, <4>2
        <5> QED
          BY <5>1, <5>2
      <4>3. CASE c # at
        <5>1. mem'[c] = mem[c]
          BY <1>1, <2>2, <3>1, <4>3
        <5>2. mem[c] = IF c \notin pos[u]..(at - 1) THEN snap[c] ELSE Left(u)
          BY <3>1
        <5>3. c \in pos[u]..(at - 1) <=> c \in pos[u]..at
          BY <1>2, <4>1, <4>3
        <5> QED
          BY <5>1, <5>2, <5>3
      <4> QED
        BY <4>2, <4>3
    <3>3. mem' \in [Cells -> Bytes]
      BY <1>3 DEF MemType
    <3>4. pos'[u]..(pos'[u] + b'[u] - 1) = pos[u]..at /\ Left(u)' = Left(u)
      BY <1>1, <1>2, <1>4 DEF Left
    <3>5. mem' = [c \in Cells |-> IF c \notin pos[u]..at THEN snap[c] ELSE Left(u)]
      BY <3>2, <3>3
    <3> QED
      BY <1>1, <2>2, <3>4, <3>5 DEF Copied, Cells
  <2> QED
    BY <2>1, <2>2
<1>6. UserInv(u)'
  BY <1>1, <1>2, <1>4, <1>5
  DEF UserInv, Entered, Holding, Clipping, Copying, Leaving, Idle, Fits
<1>7. ASSUME NEW v \in Users, v # u PROVE UserInv(v)'
  BY <1>1, <1>7, OthersWait DEF MemInv, MemType
<1> QED
  BY <1>3, <1>6, <1>7 DEF MemInv

LEMMA CopyEndKeeps ==
    ASSUME MemInv, NEW u \in Users, CopyDone(u) \/ CopyFaults(u)
    PROVE  MemInv'
<1>1. /\ upc[u] = "copy" /\ upc' = [upc EXCEPT ![u] = "unlock"]
      /\ UNCHANGED <<mem, dev_mutex, kind, pos, own, count, b, got, snap>>
      /\ \/ /\ b[u] = count[u]
            /\ f_pos' = [f_pos EXCEPT ![u] = IF own[u] THEN pos[u] + count[u] ELSE f_pos[u]]
            /\ ret' = [ret EXCEPT ![u] = IF kind[u] = "clear" THEN 0 ELSE count[u]]
         \/ f_pos' = f_pos /\ ret' = [ret EXCEPT ![u] = -1]
  BY DEF CopyDone, CopyFaults, At, call
<1>2. /\ pos[u] \in Nat /\ count[u] \in Nat /\ pos[u] + count[u] \in 0..SIZE
      /\ Copied(u) /\ dev_mutex = u
  BY <1>1, MemoryAssumption DEF MemInv, MemType, UserInv, Copying, Holding, Fits
<1>3. MemType'
  <2>1. f_pos' \in [Users -> 0..SIZE]
    BY <1>1, <1>2 DEF MemInv, MemType
  <2>2. ret' \in [Users -> Int]
    BY <1>1, <1>2 DEF MemInv, MemType
  <2> QED
    BY <1>1, <2>1, <2>2 DEF MemInv, MemType
<1>4. UserInv(u)'
  <2>1. upc'[u] = "unlock" /\ dev_mutex' = u
    BY <1>1, <1>2 DEF MemInv, MemType
  <2>2. Copied(u)' /\ Fits(u)'
    BY <1>1, <1>2 DEF Copied, Left, Fits
  <2>3. ret'[u] >= 0 => b'[u] = count'[u]
    BY <1>1 DEF MemInv, MemType
  <2> QED
    BY <2>1, <2>2, <2>3 DEF UserInv, Entered, Holding, Clipping, Copying, Leaving, Idle
<1>5. ASSUME NEW v \in Users, v # u PROVE UserInv(v)'
  BY <1>1, <1>5, OthersWait DEF MemInv, MemType
<1> QED
  BY <1>3, <1>4, <1>5 DEF MemInv

-----------------------------------------------------------------------------
THEOREM MemoryInvariant == MemSpec => []MemInv
<1>1. MemInv /\ [MemNext]_memvars => MemInv'
  <2> SUFFICES ASSUME MemInv, [MemNext]_memvars PROVE MemInv'
    OBVIOUS
  <2>1. CASE UNCHANGED memvars
    BY <2>1, QuietKeeps
  <2>2. ASSUME NEW u \in Users, User(u) PROVE MemInv'
    BY <2>2, CallsKeep, QuietKeeps, LockKeeps, ReturnKeeps, WriteClipKeeps, CopyByteKeeps,
       CopyEndKeeps
    DEF User, CallStep
  <2> QED
    BY <2>1, <2>2 DEF MemNext
<1> QED
  BY MemInitInv, <1>1, PTL DEF MemSpec

(* A read returns the bytes of one moment, a write or a clear changes its  *)
(* range and nothing else, and no position leaves the memory, for every    *)
(* number of threads and bytes: tdlcd.c does under its mutex all that it   *)
(* has to.                                                                 *)
THEOREM CallsAreWhole == MemSpec => []Whole
<1>1. MemInv => Whole
  <2> SUFFICES ASSUME MemInv, NEW u \in Users, upc[u] = "unlock", ret[u] >= 0
               PROVE  LET range == pos[u]..(pos[u] + count[u] - 1)
                      IN  /\ range \subseteq Cells /\ f_pos[u] \in 0..SIZE
                          /\ IF kind[u] = "read"
                             THEN /\ mem = snap
                                  /\ \A d \in 0..(count[u] - 1) : got[u][d] = snap[pos[u] + d]
                             ELSE mem = [c \in Cells |-> IF c \notin range THEN snap[c]
                                           ELSE IF kind[u] = "write" THEN u ELSE 0]
    BY DEF Whole
  <2>1. Fits(u) /\ b[u] = count[u] /\ Copied(u) /\ pos[u] \in Nat /\ count[u] \in Nat
    BY MemoryAssumption DEF MemInv, MemType, UserInv, Leaving
  <2>2. pos[u]..(pos[u] + count[u] - 1) \subseteq Cells /\ f_pos[u] \in 0..SIZE
    BY <2>1, MemoryAssumption DEF Fits, Cells, MemInv, MemType
  <2> QED
    BY <2>1, <2>2 DEF Copied, Left
<1> QED
  BY MemoryInvariant, <1>1, PTL

-----------------------------------------------------------------------------
(* tdlbd: the invariant of the disks and their bios.                       *)

BdType == /\ request_mode \in {"queue", "noqueue"}
          /\ module \in {"load", "init", "live", "exit", "gone"}
          /\ which \in Disks /\ part \in 1..3
          /\ data \in [Disks -> {"none", "valid", "freed"}]
          /\ queue \subseteq Disks /\ gd \subseteq queue
          /\ bpc \in [Bios -> {"new", "queued", "served", "ended"}]
          /\ disk \in [Bios -> Disks]

\* A disk that the loop of vmem_disk_init has not met yet has nothing.
Untouched(d) == d \notin queue /\ data[d] = "none"
Ahead == /\ module \in {"load", "live"} => which = 0
         /\ module \in {"load", "init"} => \A d \in Disks : d >= which => Untouched(d)

\* A disk that the loop of vmem_disk_exit has passed has nothing any more.
Behind == module = "exit" => \A d \in Disks : d < which => d \notin queue /\ data[d] # "valid"

\* The parts of a disk go in order.
PartsInOrder == /\ module # "exit" => part = 1
                /\ part > 1 => which \notin gd
                /\ part > 2 => which \notin queue

GdHasData == \A d \in gd : data[d] = "valid"

\* Whoever has freed data: the disk's setup, or the exit loop.
FreedOnce == /\ twice \subseteq refused
             /\ module \notin {"exit", "gone"} => \A d \in Disks : data[d] = "freed" => d \in refused
             /\ module = "exit" => \A d \in Disks : data[d] = "freed" /\ d >= which => d \in refused

NothingLeft == module = "gone" => queue = {} /\ \A d \in Disks : data[d] # "valid"

MajorKept == /\ module = "load" => ~registered
             /\ module = "gone" /\ registered => vmem_disk_major # 0

PartsInv == BdType /\ Ahead /\ Behind /\ PartsInOrder /\ GdHasData /\ FreedOnce /\ NothingLeft
            /\ MajorKept

\* A disk with a request queue keeps queue and data while a bio is under way.
BiosKept == request_mode = "queue" =>
                \A o \in Bios : bpc[o] \in {"queued", "served"} =>
                                    data[disk[o]] = "valid" /\ disk[o] \in queue

-----------------------------------------------------------------------------
LEMMA DiskNumbers == Disks \subseteq Int /\ 0 \in Disks /\ \A d \in Disks : d >= 0
BY DiskAssumption DEF Disks

LEMMA NextDisk ==
    ASSUME which \in Disks, which + 1 \notin Disks, NEW d \in Disks
    PROVE  d <= which
BY DiskAssumption DEF Disks

LEMMA BdInitInv == BdInit => PartsInv /\ BiosKept
<1> SUFFICES ASSUME BdInit PROVE PartsInv /\ BiosKept
  OBVIOUS
<1>1. BdType
  BY DiskNumbers DEF BdInit, BdType
<1>2. Ahead /\ Behind /\ PartsInOrder /\ GdHasData /\ FreedOnce /\ NothingLeft /\ MajorKept
  BY DEF BdInit, Ahead, Untouched, Behind, PartsInOrder, GdHasData, FreedOnce, NothingLeft,
         MajorKept
<1>3. BiosKept
  BY DEF BdInit, BiosKept
<1> QED
  BY <1>1, <1>2, <1>3 DEF PartsInv

-----------------------------------------------------------------------------
(* The parts of the disks. *)

LEMMA RegisterKeeps == PartsInv /\ Register => PartsInv'
<1> SUFFICES ASSUME PartsInv, Register PROVE PartsInv'
  OBVIOUS
<1>1. /\ module = "load" /\ which = 0 /\ part = 1 /\ ~registered
      /\ UNCHANGED <<request_mode, vmem_disk_major, which, part, data, queue, gd, refused, twice,
                     bpc, disk>>
      /\ \/ registered' = TRUE /\ module' = IF vmem_disk_major = 0 THEN "init" ELSE "gone"
         \/ module' = "gone" /\ registered' = registered
  BY DEF Register, params, parts, bio, PartsInv, Ahead, PartsInOrder, MajorKept
<1>2. \A d \in Disks : Untouched(d)
  BY <1>1, DiskNumbers DEF PartsInv, Ahead
<1>3. queue = {}
  BY <1>2 DEF PartsInv, BdType, Untouched
<1>4. BdType'
  BY <1>1 DEF PartsInv, BdType
<1>5. Ahead' /\ Behind' /\ PartsInOrder' /\ GdHasData'
  BY <1>1, <1>2 DEF PartsInv, Ahead, Behind, PartsInOrder, GdHasData, Untouched
<1>6. FreedOnce' /\ NothingLeft' /\ MajorKept'
  BY <1>1, <1>2, <1>3 DEF PartsInv, FreedOnce, NothingLeft, MajorKept, Untouched
<1> QED
  BY <1>4, <1>5, <1>6 DEF PartsInv

LEMMA SetupKeeps == PartsInv /\ (SetUp \/ NoData \/ OutVfree) => PartsInv'
<1> SUFFICES ASSUME PartsInv, SetUp \/ NoData \/ OutVfree PROVE PartsInv'
  OBVIOUS
<1>1. /\ module = "init" /\ part = 1 /\ which \in Disks /\ Untouched(which)
      /\ \A d \in Disks : d >= which => Untouched(d)
  BY DiskNumbers DEF SetUp, NoData, OutVfree, PartsInv, BdType, PartsInOrder, Ahead
<1>2. \/ which + 1 \in Disks /\ which' = which + 1 /\ module' = "init"
      \/ which + 1 \notin Disks /\ which' = 0 /\ module' = "live"
  BY DEF SetUp, NoData, OutVfree, Another
<1>3. /\ UNCHANGED <<request_mode, vmem_disk_major, registered, part, twice, bpc, disk>>
      /\ refused \subseteq refused'
      /\ queue \subseteq queue' /\ queue' \subseteq queue \union {which}
      /\ gd \subseteq gd' /\ gd' \subseteq gd \union {which} /\ (which \in gd' => which \in queue')
      /\ data' = [data EXCEPT ![which] = data'[which]]
      /\ data'[which] \in {"none", "valid", "freed"}
      /\ which \in gd' => data'[which] = "valid"
      /\ data'[which] = "freed" => which \in refused'
  <2>1. data \in [Disks -> {"none", "valid", "freed"}] /\ which \notin queue /\ gd \subseteq queue
        /\ data[which] = "none"
    BY <1>1 DEF PartsInv, BdType, Untouched
  <2>2. CASE SetUp
    BY <1>1, <2>1, <2>2 DEF SetUp, params, bio
  <2>3. CASE NoData
    BY <1>1, <2>1, <2>3 DEF NoData, params, bio, parts
  <2>4. CASE OutVfree
    BY <1>1, <2>1, <2>4 DEF OutVfree, params, bio
  <2> QED
    BY <2>2, <2>3, <2>4
<1>4. BdType'
  BY <1>1, <1>2, <1>3, DiskNumbers DEF PartsInv, BdType
<1>5. Ahead'
  <2> SUFFICES ASSUME module' = "init", NEW d \in Disks, d >= which' PROVE Untouched(d)'
    BY <1>2, <1>4 DEF Ahead, BdType
  <2>1. d # which /\ d >= which /\ Untouched(d)
    BY <1>1, <1>2, DiskNumbers
  <2> QED
    BY <1>1, <1>3, <2>1 DEF Untouched, PartsInv, BdType
<1>6. Behind' /\ PartsInOrder' /\ NothingLeft' /\ MajorKept'
  BY <1>1, <1>2, <1>3 DEF PartsInv, Behind, PartsInOrder, NothingLeft, MajorKept
<1>7. GdHasData'
  BY <1>1, <1>3 DEF PartsInv, BdType, GdHasData
<1>8. FreedOnce'
  <2>1. ASSUME NEW d \in Disks, data'[d] = "freed" PROVE d \in refused'
    <3>1. CASE d = which
      BY <1>3, <2>1, <3>1
    <3>2. CASE d # which
      BY <1>1, <1>3, <2>1, <3>2 DEF PartsInv, BdType, FreedOnce
    <3> QED
      BY <3>1, <3>2
  <2> QED
    BY <1>2, <1>3, <2>1 DEF PartsInv, FreedOnce
<1> QED
  BY <1>4, <1>5, <1>6, <1>7, <1>8 DEF PartsInv

LEMMA VmemExitKeeps == PartsInv /\ VmemExit => PartsInv'
<1> SUFFICES ASSUME PartsInv, VmemExit PROVE PartsInv'
  OBVIOUS
<1>1. /\ module = "live" /\ module' = "exit" /\ part = 1
      /\ UNCHANGED <<request_mode, vmem_disk_major, registered, which, part, data, queue, gd,
                     refused, twice, bpc, disk>>
  BY DEF VmemExit, params, parts, bio, PartsInv, PartsInOrder
<1>2. BdType' /\ GdHasData'
  BY <1>1 DEF PartsInv, BdType, GdHasData
<1>3. Ahead' /\ Behind' /\ PartsInOrder'
  BY <1>1, DiskNumbers DEF PartsInv, Ahead, Behind, PartsInOrder
<1>4. FreedOnce' /\ NothingLeft' /\ MajorKept'
  BY <1>1 DEF PartsInv, FreedOnce, NothingLeft, MajorKept
<1> QED
  BY <1>2, <1>3, <1>4 DEF PartsInv

\* The exit loop: what each of the three parts does.
LEMMA PartsOfTakeDown ==
    ASSUME PartsInv, TakeDown
    PROVE  /\ module = "exit" /\ which \in Disks
           /\ UNCHANGED <<request_mode, vmem_disk_major, refused, bpc, disk>>
           /\ part = 1 =>
                 /\ part' = 2 /\ UNCHANGED <<module, which, registered>>
                 /\ gd' = gd \ {which} /\ UNCHANGED <<queue, data, twice>>
           /\ part = 2 =>
                 /\ part' = 3 /\ UNCHANGED <<module, which, registered>>
                 /\ which \in queue => Drained(which)
                 /\ queue' = queue \ {which} /\ UNCHANGED <<gd, data, twice>>
           /\ part = 3 =>
                 /\ part' = 1 /\ UNCHANGED <<gd, queue>>
                 /\ \/ /\ which + 1 \in Disks /\ which' = which + 1 /\ module' = "exit"
                       /\ registered' = registered
                    \/ /\ which + 1 \notin Disks /\ which' = 0 /\ module' = "gone"
                       /\ registered' = FALSE
                 /\ data' = [data EXCEPT ![which] = IF data[which] = "none" THEN data[which]
                                                    ELSE "freed"]
                 /\ twice' = IF data[which] = "freed" THEN twice \union {which} ELSE twice
<1>1. /\ module = "exit" /\ which \in Disks /\ part \in 1..3
      /\ UNCHANGED <<request_mode, vmem_disk_major, refused, bpc, disk>>
      /\ PartDown /\ registered' = Unregistered
  BY DEF TakeDown, params, bio, PartsInv, BdType
<1>2. Len(ExitOrder) = 3 /\ ExitOrder[1] = "gd" /\ ExitOrder[2] = "queue" /\ ExitOrder[3] = "data"
  BY DEF ExitOrder
<1>3. CASE part = 1
  <2>1. part' = 2 /\ UNCHANGED <<module, which>>
    BY <1>1, <1>2, <1>3 DEF PartDown
  <2>2. gd' = gd \ {which} /\ UNCHANGED <<queue, data, twice>>
    BY <1>2, <1>3 DEF TakeDown
  <2> QED
    BY <1>1, <1>3, <2>1, <2>2 DEF Unregistered
<1>4. CASE part = 2
  <2>1. part' = 3 /\ UNCHANGED <<module, which>>
    BY <1>1, <1>2, <1>4 DEF PartDown
  <2>2. /\ which \in queue => Drained(which)
        /\ queue' = queue \ {which} /\ UNCHANGED <<gd, data, twice>>
    BY <1>2, <1>4 DEF TakeDown
  <2> QED
    BY <1>1, <1>4, <2>1, <2>2 DEF Unregistered
<1>5. CASE part = 3
  <2>1. part' = 1 /\ Another("exit", "gone")
    BY <1>1, <1>2, <1>5 DEF PartDown
  <2>2. /\ UNCHANGED <<gd, queue>>
        /\ data' = [data EXCEPT ![which] = IF data[which] = "none" THEN data[which]
                                           ELSE "freed"]
        /\ twice' = IF data[which] = "freed" THEN twice \union {which} ELSE twice
    BY <1>1, <1>2, <1>5 DEF TakeDown, PartsInv, BdType
  <2> QED
    <3>1. part # 1 /\ part # 2
      BY <1>5
    <3> QED
      BY <1>1, <2>1, <2>2, <3>1, Zenon DEF Unregistered, Another
<1> QED
  BY <1>1, <1>3, <1>4, <1>5

LEMMA TakeDownKeeps == PartsInv /\ TakeDown => PartsInv'
<1> SUFFICES ASSUME PartsInv, TakeDown PROVE PartsInv'
  OBVIOUS
<1>1. /\ module = "exit" /\ which \in Disks
      /\ UNCHANGED <<request_mode, vmem_disk_major, refused, bpc, disk>>
  BY PartsOfTakeDown
<1>2. BdType /\ Behind /\ PartsInOrder /\ GdHasData /\ FreedOnce
  BY DEF PartsInv
<1>3. CASE part \in {1, 2}
  <2>1. /\ UNCHANGED <<module, which, registered, data, twice>> /\ part' = part + 1
        /\ \/ part = 1 /\ gd' = gd \ {which} /\ queue' = queue
           \/ part = 2 /\ queue' = queue \ {which} /\ gd' = gd /\ which \notin gd
    <3>1. CASE part = 1
      BY <3>1, PartsOfTakeDown
    <3>2. CASE part = 2
      BY <1>2, <3>2, PartsOfTakeDown DEF PartsInOrder
    <3> QED
      BY <1>3, <3>1, <3>2
  <2>2. BdType' /\ GdHasData'
    BY <1>1, <1>2, <2>1 DEF BdType, GdHasData
  <2>3. Ahead' /\ Behind' /\ PartsInOrder'
    BY <1>1, <1>2, <2>1 DEF Ahead, Behind, PartsInOrder
  <2>4. FreedOnce' /\ NothingLeft' /\ MajorKept'
    BY <1>1, <1>2, <2>1 DEF FreedOnce, NothingLeft, MajorKept
  <2> QED
    BY <2>2, <2>3, <2>4 DEF PartsInv
<1>4. CASE part = 3
  <2>1. /\ which \notin gd /\ which \notin queue /\ part' = 1 /\ UNCHANGED <<gd, queue>>
        /\ \/ which + 1 \in Disks /\ which' = which + 1 /\ module' = "exit"
           \/ which + 1 \notin Disks /\ which' = 0 /\ module' = "gone" /\ registered' = FALSE
        /\ data' = [data EXCEPT ![which] = IF data[which] = "none" THEN data[which] ELSE "freed"]
        /\ twice' = IF data[which] = "freed" THEN twice \union {which} ELSE twice
    <3>1. which \notin gd /\ which \notin queue
      BY <1>2, <1>4 DEF PartsInOrder
    <3> QED
      BY <1>4, <3>1, PartsOfTakeDown
  <2>2. /\ data' \in [Disks -> {"none", "valid", "freed"}] /\ data'[which] # "valid"
        /\ \A d \in Disks : d # which => data'[d] = data[d]
    BY <1>1, <1>2, <2>1 DEF BdType
  <2>3. BdType'
    BY <1>1, <1>2, <2>1, <2>2, DiskNumbers DEF BdType
  <2>4. GdHasData'
    BY <1>2, <2>1, <2>2 DEF BdType, GdHasData
  <2>5. \A d \in Disks : d <= which => d \notin queue' /\ data'[d] # "valid"
    <3>1. ASSUME NEW d \in Disks, d < which PROVE d \notin queue' /\ data'[d] # "valid"
      BY <1>1, <1>2, <2>1, <2>2, <3>1 DEF Behind
    <3> QED
      BY <1>1, <2>1, <2>2, <3>1, DiskNumbers
  <2>6. Ahead' /\ PartsInOrder' /\ MajorKept'
    BY <2>1 DEF Ahead, PartsInOrder, MajorKept
  <2>7. Behind'
    BY <1>1, <2>1, <2>5, DiskNumbers DEF Behind
  <2>8. NothingLeft'
    <3> SUFFICES ASSUME module' = "gone" PROVE queue' = {} /\ \A d \in Disks : data'[d] # "valid"
      BY DEF NothingLeft
    <3>1. \A d \in Disks : d <= which
      BY <1>1, <2>1, NextDisk
    <3> QED
      BY <1>2, <2>1, <2>5, <3>1 DEF BdType
  <2>9. FreedOnce'
    <3>1. twice' \subseteq refused'
      BY <1>1, <1>2, <2>1, DiskNumbers DEF FreedOnce
    <3>2. ASSUME module' = "exit", NEW d \in Disks, data'[d] = "freed", d >= which'
          PROVE  d \in refused'
      <4>1. d # which /\ d >= which
        BY <1>1, <2>1, <3>2, DiskNumbers
      <4> QED
        BY <1>1, <1>2, <2>2, <3>2, <4>1 DEF FreedOnce
    <3>3. module' \in {"exit", "gone"}
      BY <2>1
    <3> QED
      BY <3>1, <3>2, <3>3 DEF FreedOnce
  <2> QED
    BY <2>3, <2>4, <2>6, <2>7, <2>8, <2>9 DEF PartsInv
<1> QED
  BY <1>2, <1>3, <1>4 DEF BdType

LEMMA BiosKeepParts ==
    ASSUME PartsInv, (\E o \in Bios : Bio(o)) \/ UNCHANGED bdvars
    PROVE  PartsInv'
<1>1. /\ UNCHANGED <<request_mode, vmem_disk_major, registered, module, which, part, data, queue,
                     gd, refused, twice>>
      /\ bpc' \in [Bios -> {"new", "queued", "served", "ended"}]
      /\ disk' \in [Bios -> Disks]
  <2>1. BdType
    BY DEF PartsInv
  <2>2. CASE \E o \in Bios : Submit(o)
    BY <2>1, <2>2 DEF Submit, params, parts, BdType
  <2>3. CASE \E o \in Bios : Serve(o)
    BY <2>1, <2>3 DEF Serve, params, parts, BdType
  <2>4. CASE \E o \in Bios : Transfer(o)
    BY <2>1, <2>4 DEF Transfer, params, parts, BdType
  <2>5. CASE \E o \in Bios : EndBio(o)
    BY <2>1, <2>5 DEF EndBio, params, parts, BdType
  <2>6. CASE UNCHANGED bdvars
    BY <2>1, <2>6 DEF bdvars, params, parts, bio, BdType
  <2> QED
    BY <2>2, <2>3, <2>4, <2>5, <2>6 DEF Bio
<1>2. BdType' /\ Ahead' /\ Behind' /\ PartsInOrder' /\ GdHasData'
  BY <1>1 DEF PartsInv, BdType, Ahead, Behind, PartsInOrder, GdHasData, Untouched
<1>3. FreedOnce' /\ NothingLeft' /\ MajorKept'
  BY <1>1 DEF PartsInv, FreedOnce, NothingLeft, MajorKept
<1> QED
  BY <1>2, <1>3 DEF PartsInv

LEMMA PartsKept == PartsInv /\ [BdNext]_bdvars => PartsInv'
BY RegisterKeeps, SetupKeeps, VmemExitKeeps, TakeDownKeeps, BiosKeepParts DEF BdNext

-----------------------------------------------------------------------------
(* The bios that are under way. *)

\* The queue goes when no bio of the disk is under way, the data after it.
LEMMA TakeDownSparesBios == PartsInv /\ BiosKept /\ TakeDown => BiosKept'
<1> SUFFICES ASSUME PartsInv, BiosKept, TakeDown, request_mode = "queue",
                    NEW o \in Bios, bpc[o] \in {"queued", "served"}
             PROVE  data'[disk[o]] = "valid" /\ disk[o] \in queue'
  BY PartsOfTakeDown DEF BiosKept
<1>1. data[disk[o]] = "valid" /\ disk[o] \in queue /\ disk[o] \in Disks
  BY DEF BiosKept, PartsInv, BdType
<1>2. CASE part = 1
  BY <1>1, <1>2, PartsOfTakeDown
<1>3. CASE part = 2
  <2>1. which \in queue => Under(which) = {}
    BY <1>3, PartsOfTakeDown DEF Drained
  <2>2. disk[o] # which
    BY <1>1, <2>1 DEF Under
  <2> QED
    BY <1>1, <1>3, <2>2, PartsOfTakeDown
<1>4. CASE part = 3
  <2>1. disk[o] # which
    BY <1>1, <1>4 DEF PartsInv, PartsInOrder
  <2>2. /\ queue' = queue
        /\ data' = [data EXCEPT ![which] = IF data[which] = "none" THEN data[which] ELSE "freed"]
    BY <1>4, PartsOfTakeDown
  <2> QED
    BY <1>1, <2>1, <2>2 DEF PartsInv, BdType
<1> QED
  BY <1>2, <1>3, <1>4 DEF PartsInv, BdType

LEMMA SetupSparesBios ==
    ASSUME PartsInv, BiosKept, Register \/ SetUp \/ NoData \/ OutVfree \/ VmemExit
    PROVE  BiosKept'
<1> SUFFICES ASSUME request_mode = "queue", NEW o \in Bios, bpc[o] \in {"queued", "served"}
             PROVE  data'[disk[o]] = "valid" /\ disk[o] \in queue'
  BY DEF BiosKept, Register, SetUp, NoData, OutVfree, VmemExit, params, bio
<1>1. data[disk[o]] = "valid" /\ disk[o] \in queue /\ disk[o] \in Disks
  BY DEF BiosKept, PartsInv, BdType
<1>2. CASE Register \/ VmemExit \/ NoData
  BY <1>1, <1>2 DEF Register, VmemExit, NoData, parts
<1>3. CASE SetUp \/ OutVfree
  <2>1. module = "init" /\ which \in Disks /\ which \notin queue
    BY <1>3, DiskNumbers DEF SetUp, OutVfree, PartsInv, BdType, Ahead, Untouched
  <2>2. disk[o] # which
    BY <1>1, <2>1
  <2>3. queue \subseteq queue' /\ data' = [data EXCEPT ![which] = data'[which]]
    BY <1>3, <2>1 DEF SetUp, OutVfree, PartsInv, BdType
  <2> QED
    BY <1>1, <2>2, <2>3 DEF PartsInv, BdType
<1> QED
  BY <1>2, <1>3

LEMMA BiosSpareBios ==
    ASSUME PartsInv, BiosKept, (\E o \in Bios : Bio(o)) \/ UNCHANGED bdvars
    PROVE  BiosKept'
<1>1. UNCHANGED <<request_mode, queue, data>>
  BY DEF Bio, Submit, Serve, Transfer, EndBio, bdvars, params, parts
<1>2. CASE UNCHANGED bdvars
  BY <1>2 DEF bdvars, params, parts, bio, BiosKept
<1>3. ASSUME NEW o \in Bios, Submit(o) PROVE BiosKept'
  <2>1. PICK d \in gd : disk' = [disk EXCEPT ![o] = d]
    BY <1>3 DEF Submit
  <2>2. d \in queue /\ data[d] = "valid" /\ bpc' = [bpc EXCEPT ![o] = "queued"]
    BY <1>3 DEF Submit, PartsInv, BdType, GdHasData
  <2> QED
    BY <1>1, <2>1, <2>2 DEF BiosKept, PartsInv, BdType
<1>4. ASSUME NEW o \in Bios, Serve(o) \/ Transfer(o) \/ EndBio(o) PROVE BiosKept'
  <2>1. /\ disk' = disk
        /\ \A v \in Bios : bpc'[v] \in {"queued", "served"} => bpc[v] \in {"queued", "served"}
    BY <1>4 DEF Serve, Transfer, EndBio, PartsInv, BdType
  <2> QED
    BY <1>1, <2>1 DEF BiosKept
<1> QED
  BY <1>2, <1>3, <1>4 DEF Bio

-----------------------------------------------------------------------------
(* The segments. *)

\* A bio of equal segments whose loop is at the cut that it should be at has
\* moved every segment before it.
Equal(o) == \A m \in Segments(cuts[o]) : Length(cuts[o], m) = Current(o)

SegType == /\ bpc \in [Bios -> {"new", "queued", "served", "ended"}]
           /\ sector \in [Bios -> Int]
           /\ moved \in [Bios -> Seq(SUBSET Int)]
           /\ DOMAIN cuts = Bios
           /\ \A o \in Bios : \E n \in Nat :
                  /\ cuts[o] \in [0..n -> 0..NSECTORS]
                  /\ bpc[o] # "new" => n > 0
                  /\ Len(moved[o]) <= n

Landed(o) ==
    /\ bpc[o] \in {"new", "queued"} => moved[o] = <<>>
    /\ bpc[o] = "ended" => Segment(o) \notin Segments(cuts[o])
    /\ bpc[o] # "new" /\ Equal(o) =>
          /\ sector[o] = cuts[o][Len(moved[o])]
          /\ \A m \in 1..Len(moved[o]) : moved[o][m] = cuts[o][m - 1]..(cuts[o][m] - 1)

SegInv == SegType /\ \A o \in Bios : Landed(o)

LEMMA InitSeg == BdInit => SegInv
<1> SUFFICES ASSUME BdInit PROVE SegInv
  OBVIOUS
<1>1. SegType
  <2>1. ASSUME NEW o \in Bios PROVE cuts[o] \in [0..0 -> 0..NSECTORS] /\ Len(moved[o]) = 0
    BY DiskAssumption DEF BdInit
  <2> QED
    BY <2>1 DEF BdInit, SegType
<1>2. \A o \in Bios : Landed(o)
  BY DEF BdInit, Landed
<1> QED
  BY <1>1, <1>2 DEF SegInv

LEMMA QuietSeg ==
    ASSUME SegInv, UNCHANGED <<bpc, sector, cuts, moved>>
    PROVE  SegInv'
<1>1. SegType'
  BY DEF SegInv, SegType
<1>2. ASSUME NEW o \in Bios PROVE Landed(o)'
  BY DEF SegInv, Landed, Segment, Segments, Equal, Current, Length
<1> QED
  BY <1>1, <1>2 DEF SegInv

\* The bios apart from the one that takes the step.
LEMMA OtherSeg ==
    ASSUME NEW v \in Bios, Landed(v),
           bpc'[v] = bpc[v], sector'[v] = sector[v], cuts'[v] = cuts[v], moved'[v] = moved[v]
    PROVE  Landed(v)'
BY DEF Landed, Segment, Segments, Equal, Current, Length

LEMMA SubmitSeg ==
    ASSUME SegInv, NEW o \in Bios, Submit(o)
    PROVE  SegInv'
<1>1. PICK c \in BioLists : /\ cuts' = [cuts EXCEPT ![o] = c]
                            /\ sector' = [sector EXCEPT ![o] = c[0]]
  BY DEF Submit
<1>2. bpc[o] = "new" /\ bpc' = [bpc EXCEPT ![o] = "queued"] /\ moved' = moved
  BY DEF Submit
<1>3. PICK n \in 1..MaxSegments : c \in [0..n -> 0..NSECTORS]
  BY DEF BioLists
<1>4. n \in Nat /\ n > 0 /\ moved[o] = <<>> /\ c[0] \in Int
  BY <1>2, <1>3, DiskAssumption DEF SegInv, Landed
<1>5. SegType'
  <2>1. /\ bpc' \in [Bios -> {"new", "queued", "served", "ended"}]
        /\ sector' \in [Bios -> Int] /\ moved' \in [Bios -> Seq(SUBSET Int)]
        /\ DOMAIN cuts' = Bios
    BY <1>1, <1>2, <1>4 DEF SegInv, SegType
  <2>2. ASSUME NEW v \in Bios
        PROVE  \E l \in Nat : /\ cuts'[v] \in [0..l -> 0..NSECTORS]
                              /\ bpc'[v] # "new" => l > 0
                              /\ Len(moved'[v]) <= l
    <3>1. CASE v = o
      BY <1>1, <1>2, <1>3, <1>4, <3>1 DEF SegInv, SegType
    <3>2. CASE v # o
      BY <1>1, <1>2, <3>2 DEF SegInv, SegType
    <3> QED
      BY <3>1, <3>2
  <2> QED
    BY <2>1, <2>2 DEF SegType
<1>6. Landed(o)'
  <2>1. bpc'[o] = "queued" /\ sector'[o] = c[0] /\ cuts'[o] = c /\ moved'[o] = <<>>
    BY <1>1, <1>2, <1>4 DEF SegInv, SegType
  <2> QED
    BY <2>1 DEF Landed
<1>7. ASSUME NEW v \in Bios, v # o PROVE Landed(v)'
  BY <1>1, <1>2, <1>7, OtherSeg DEF SegInv, SegType
<1> QED
  BY <1>5, <1>6, <1>7 DEF SegInv

LEMMA ServeEndSeg ==
    ASSUME SegInv, NEW o \in Bios, Serve(o) \/ EndBio(o)
    PROVE  SegInv'
<1>1. /\ UNCHANGED <<sector, cuts, moved>>
      /\ \/ bpc[o] = "queued" /\ bpc' = [bpc EXCEPT ![o] = "served"]
         \/ /\ bpc[o] = "served" /\ Segment(o) \notin Segments(cuts[o])
            /\ bpc' = [bpc EXCEPT ![o] = "ended"]
  BY DEF Serve, EndBio
<1>2. bpc'[o] \in {"served", "ended"} /\ bpc[o] # "new"
  BY <1>1 DEF SegInv, SegType
<1>3. SegType'
  BY <1>1, <1>2 DEF SegInv, SegType
<1>4. Landed(o)'
  BY <1>1, <1>2 DEF SegInv, SegType, Landed, Segment, Segments, Equal, Current, Length
<1>5. ASSUME NEW v \in Bios, v # o PROVE Landed(v)'
  BY <1>1, <1>5, OtherSeg DEF SegInv, SegType
<1> QED
  BY <1>3, <1>4, <1>5 DEF SegInv

\* The loop advances by the first segment's length: from cut to cut, when
\* all are as long as the first.
LEMMA TransferSeg ==
    ASSUME SegInv, NEW o \in Bios, Transfer(o)
    PROVE  SegInv'
<1> DEFINE l == Len(moved[o])
           c == cuts[o]
<1>1. /\ bpc[o] = "served" /\ l + 1 \in DOMAIN c \ {0}
      /\ moved' = [moved EXCEPT ![o] = Append(moved[o], Range(o))]
      /\ sector' = [sector EXCEPT ![o] = sector[o] + Length(c, 1)]
      /\ bpc' = bpc /\ cuts' = cuts
  BY DEF Transfer, Segment, Segments, NextSector, Current, SegInv, SegType
<1>2. PICK n \in Nat : c \in [0..n -> 0..NSECTORS] /\ n > 0 /\ l <= n
  BY <1>1 DEF SegInv, SegType
<1>3. moved[o] \in Seq(SUBSET Int) /\ l \in Nat /\ l + 1 \in 1..n /\ sector[o] \in Int
  BY <1>1, <1>2 DEF SegInv, SegType
<1>4. \A m \in 0..n : c[m] \in Int /\ c[m] <= NSECTORS /\ NSECTORS \in Int
  BY <1>2, DiskAssumption
<1>5. Range(o) \in SUBSET Int /\ Length(c, 1) \in Int
  BY <1>2, <1>3, <1>4 DEF Range, Length, Current
<1>6. /\ Len(moved'[o]) = l + 1 /\ moved'[o] \in Seq(SUBSET Int)
      /\ moved'[o][l + 1] = Range(o)
      /\ \A m \in 1..l : moved'[o][m] = moved[o][m]
  <2>1. moved'[o] = Append(moved[o], Range(o))
    BY <1>1 DEF SegInv, SegType
  <2> QED
    BY <2>1, <1>3, <1>5
<1>7. SegType'
  <2>1. sector' \in [Bios -> Int] /\ moved' \in [Bios -> Seq(SUBSET Int)]
    BY <1>1, <1>3, <1>5, <1>6 DEF SegInv, SegType
  <2>2. ASSUME NEW v \in Bios
        PROVE  \E i \in Nat : /\ cuts'[v] \in [0..i -> 0..NSECTORS]
                              /\ bpc'[v] # "new" => i > 0
                              /\ Len(moved'[v]) <= i
    <3>1. CASE v = o
      BY <1>1, <1>2, <1>3, <1>6, <3>1
    <3>2. CASE v # o
      BY <1>1, <3>2 DEF SegInv, SegType
    <3> QED
      BY <3>1, <3>2
  <2> QED
    BY <1>1, <2>1, <2>2 DEF SegInv, SegType
<1>8. Landed(o)'
  <2>1. Equal(o)' = Equal(o)
    BY <1>1 DEF Equal, Segments, Current, Length
  <2>2. ASSUME Equal(o)
        PROVE  /\ sector'[o] = c[l + 1]
               /\ \A m \in 1..(l + 1) : moved'[o][m] = c[m - 1]..(c[m] - 1)
    <3>1. sector[o] = c[l] /\ \A m \in 1..l : moved[o][m] = c[m - 1]..(c[m] - 1)
      BY <1>1, <2>2 DEF SegInv, Landed
    <3>2. c[l + 1] - c[l] = Length(c, 1)
      <4>1. Length(c, l + 1) = Length(c, 1)
        BY <1>1, <2>2 DEF Equal, Segments, Current
      <4>2. (l + 1) - 1 = l
        BY <1>3
      <4> QED
        BY <4>1, <4>2 DEF Length
    <3>3. c[l] + Length(c, 1) = c[l + 1] /\ c[l + 1] <= NSECTORS
      BY <1>3, <1>4, <1>5, <3>2
    <3>4. Range(o) = c[l]..(c[l + 1] - 1)
      <4>1. sector[o] + Current(o) = c[l + 1]
        BY <3>1, <3>3 DEF Current
      <4>2. ~(c[l + 1] > NSECTORS)
        BY <1>3, <1>4, <3>3
      <4>3. sector[o] + (Current(o) - 1) = c[l + 1] - 1
        BY <1>3, <1>4, <1>5, <4>1 DEF Current
      <4> QED
        BY <3>1, <4>1, <4>2, <4>3, Zenon DEF Range
    <3>5. sector'[o] = c[l + 1]
      BY <1>1, <3>1, <3>3 DEF SegInv, SegType
    <3>6. ASSUME NEW m \in 1..(l + 1) PROVE moved'[o][m] = c[m - 1]..(c[m] - 1)
      <4>1. CASE m = l + 1
        BY <1>3, <1>6, <3>4, <4>1
      <4>2. CASE m # l + 1
        BY <1>3, <1>6, <3>1, <4>2
      <4> QED
        BY <4>1, <4>2
    <3> QED
      BY <3>5, <3>6
  <2> QED
    BY <1>1, <1>6, <2>1, <2>2 DEF Landed
<1>9. ASSUME NEW v \in Bios, v # o PROVE Landed(v)'
  BY <1>1, <1>9, OtherSeg DEF SegInv, SegType
<1> QED
  BY <1>7, <1>8, <1>9 DEF SegInv

LEMMA SegKept == SegInv /\ [BdNext]_bdvars => SegInv'
<1> SUFFICES ASSUME SegInv, [BdNext]_bdvars PROVE SegInv'
  OBVIOUS
<1>1. CASE Register \/ SetUp \/ NoData \/ OutVfree \/ VmemExit \/ TakeDown \/ UNCHANGED bdvars
  <2>1. UNCHANGED <<bpc, sector, cuts, moved>>
    BY <1>1 DEF Register, SetUp, NoData, OutVfree, VmemExit, TakeDown, bdvars, bio
  <2> QED
    BY <2>1, QuietSeg
<1>2. ASSUME NEW o \in Bios, Bio(o) PROVE SegInv'
  BY <1>2, SubmitSeg, ServeEndSeg, TransferSeg DEF Bio
<1> QED
  BY <1>1, <1>2 DEF BdNext

-----------------------------------------------------------------------------
THEOREM PartsInvariant == BdSpec => [](PartsInv /\ BiosKept)
<1>1. PartsInv /\ BiosKept /\ [BdNext]_bdvars => (PartsInv /\ BiosKept)'
  BY PartsKept, TakeDownSparesBios, SetupSparesBios, BiosSpareBios DEF BdNext
<1> QED
  BY BdInitInv, <1>1, PTL DEF BdSpec

(* A disk with a request queue keeps its data until the last bio that is   *)
(* under way has ended, whenever the module is removed and however many    *)
(* disks it has.                                                           *)
THEOREM DataOutlivesBios == BdSpec => []DataLives
<1>1. PartsInv /\ BiosKept => DataLives
  BY DEF BiosKept, DataLives
<1> QED
  BY PartsInvariant, <1>1, PTL

(* Whatever parts of whichever disks failed, unloading releases them all,  *)
(* and frees twice only what a failed setup has freed.                     *)
THEOREM UnloadReleases == BdSpec => []AllReleased
<1>1. PartsInv => AllReleased
  BY DEF PartsInv, BdType, NothingLeft, FreedOnce, MajorKept, AllReleased
<1> QED
  BY PartsInvariant, <1>1, PTL

(* For any number of segments, those of a bio that are all of one length   *)
(* land where they belong.                                                 *)
THEOREM EqualSegmentsLand == BdSpec => []SegmentsLand
<1>1. SegInv => SegmentsLand
  <2> SUFFICES ASSUME SegInv, NEW o \in Bios, bpc[o] = "ended", Equal(o),
                      NEW m \in Segments(cuts[o])
               PROVE  moved[o][m] = cuts[o][m - 1]..(cuts[o][m] - 1)
    BY DEF SegmentsLand, Equal
  <2>1. PICK n \in Nat : cuts[o] \in [0..n -> 0..NSECTORS] /\ Len(moved[o]) <= n
    BY DEF SegInv, SegType
  <2>2. /\ Len(moved[o]) + 1 \notin DOMAIN cuts[o] \ {0} /\ Len(moved[o]) \in Nat
        /\ \A i \in 1..Len(moved[o]) : moved[o][i] = cuts[o][i - 1]..(cuts[o][i] - 1)
    BY DEF SegInv, SegType, Landed, Segment, Segments
  <2>3. m \in 1..Len(moved[o])
    BY <2>1, <2>2 DEF Segments
  <2> QED
    BY <2>2, <2>3
<1> QED
  BY InitSeg, SegKept, <1>1, PTL DEF BdSpec
=============================================================================
