----------------------------- MODULE NvmRequest ----------------------------
(***************************************************************************)
(* drivers/NVMSIM/ramdevice.c: the request path of one simulated NVM disk. *)
(* nvm_make_request is entered by any number of threads at once: it checks *)
(* the capacity and walks the segments of the bio; for a write segment,    *)
(* write_helper charges the access information table and sets the bitmap   *)
(* and the mapping table under syncer_lock before the data is copied.  The *)
(* syncer thread takes the same lock.                                      *)
(*                                                                         *)
(* A sector is the unit of copying; its contents are the identity of the   *)
(* thread that stored it.  A bio is cut into segments as it is walked.     *)
(* The two-line sections under stat_lock are atomic.                       *)
(***************************************************************************)
EXTENDS Integers, FiniteSets

CONSTANTS Submitters,   \* threads that submit bios
          CAPACITY,     \* sectors of the device and of its bitmap and mapping table
          PAGE,         \* sectors that share an entry of InfoTable (32)
          Starts,       \* the first sectors of bios
          MaxCount,     \* bound: sectors of a bio
          MaxRequests,  \* bound: bios submitted
          Blank,        \* the initial contents of a sector
          SYNCER,       \* the syncer thread
          Nobody        \* syncer_lock is free

ASSUME SizeAssumption == /\ CAPACITY \in Nat \ {0} /\ PAGE \in Nat \ {0}
                         /\ MaxCount \in Nat \ {0} /\ MaxRequests \in Nat
                         /\ Starts \subseteq Nat
ASSUME NameAssumption == /\ {SYNCER, Nobody, Blank} \cap Submitters = {}
                         /\ SYNCER # Nobody

Sectors == 0..(CAPACITY - 1)
PageOf(s) == s \div PAGE
InfoPages == 0..(CAPACITY \div PAGE - 1)

VARIABLES data, BitMap, MapTable, InfoTable,   \* NVM_DEVICE_T; 0 in MapTable: not mapped
          syncer_lock,                         \* its holder
          nvm_stat,                            \* NVM_STAT_T
          pc, dir, rw, num_sectors,            \* the bio of each thread; rw is a local copy of dir
          sector, left, seg,                   \* where it is: sectors left, of this segment
          cur, reg, buf,                       \* loop index, register, sectors read
          issued,                              \* bios submitted so far
          served, touched                      \* history: what was transferred, and where

device == <<data, BitMap, MapTable, InfoTable>>
bio    == <<dir, rw, num_sectors>>
vars   == <<device, syncer_lock, nvm_stat, pc, bio, sector, left, seg, cur, reg, buf,
            issued, served, touched>>

NoStat == [requests_read |-> 0, sectors_read |-> 0, requests_write |-> 0, sectors_write |-> 0]
NoBuf == [i \in 0..(MaxCount - 1) |-> Blank]
Zero == [t \in Submitters |-> 0]

Init == /\ data = [s \in Sectors |-> Blank]
        /\ BitMap = {}
        /\ MapTable = [s \in Sectors |-> 0]
        /\ InfoTable = [p \in InfoPages |-> 0]
        /\ syncer_lock = Nobody
        /\ nvm_stat = NoStat
        /\ pc = [t \in Submitters |-> "idle"]
        /\ dir = [t \in Submitters |-> "READ"] /\ rw = dir
        /\ num_sectors = Zero /\ sector = Zero /\ left = Zero /\ seg = Zero
        /\ cur = Zero /\ reg = Zero
        /\ buf = [t \in Submitters |-> NoBuf]
        /\ issued = 0
        /\ served = NoStat
        /\ touched = [p \in InfoPages |-> 0]

Go(t, from, to) == pc[t] = from /\ pc' = [pc EXCEPT ![t] = to]
SegEndShort(t) == sector[t] + seg[t] - 1
SegEnd(t) == sector[t] + seg[t]

-----------------------------------------------------------------------------
(* nvm_make_request, up to the copy of a segment. *)

Submit(t) ==
    /\ Go(t, "idle", "check")
    /\ issued < MaxRequests /\ issued' = issued + 1
    /\ \E d \in {"READ", "WRITE"}, s \in Starts, n \in 1..MaxCount :
          /\ dir' = [dir EXCEPT ![t] = d]
          /\ sector' = [sector EXCEPT ![t] = s]
          /\ num_sectors' = [num_sectors EXCEPT ![t] = n]
          /\ left' = [left EXCEPT ![t] = n]
    /\ UNCHANGED <<device, syncer_lock, nvm_stat, rw, seg, cur, reg, buf, served, touched>>

Fits(t) == sector[t] + left[t] <= CAPACITY

Accept(t) ==
    /\ Go(t, "check", "segment")
    /\ Fits(t)
    /\ rw' = [rw EXCEPT ![t] = dir[t]]
    /\ UNCHANGED <<device, syncer_lock, nvm_stat, dir, num_sectors, sector, left, seg, cur, reg,
                   buf, issued, served, touched>>

\* goto out: the local rw has not been assigned yet, its value is arbitrary.
Exceed(t) ==
    /\ Go(t, "check", "endio")
    /\ ~Fits(t)
    /\ \E d \in {"READ", "WRITE"} : rw' = [rw EXCEPT ![t] = d]
    /\ UNCHANGED <<device, syncer_lock, nvm_stat, dir, num_sectors, sector, left, seg, cur, reg,
                   buf, issued, served, touched>>

\* bio_for_each_segment, nvm_do_bvec.
Segment(t) ==
    /\ Go(t, "segment", IF rw[t] = "READ" THEN "copy" ELSE "lock")
    /\ \E n \in 1..left[t] : seg' = [seg EXCEPT ![t] = n]
    /\ cur' = [cur EXCEPT ![t] = sector[t]]
    /\ UNCHANGED <<device, syncer_lock, nvm_stat, bio, sector, left, reg, buf, issued, served,
                   touched>>

NoSegment(t) ==
    /\ Go(t, "segment", "endio")
    /\ left[t] = 0
    /\ UNCHANGED <<device, syncer_lock, nvm_stat, bio, sector, left, seg, cur, reg, buf,
                   issued, served, touched>>

-----------------------------------------------------------------------------
(* write_helper. *)

Unguarded == TRUE
LockFree == syncer_lock = Nobody

HelperLock(t) ==
    /\ Go(t, "lock", "info")
    /\ LockFree
    /\ syncer_lock' = t
    /\ cur' = [cur EXCEPT ![t] = PageOf(sector[t])]
    /\ UNCHANGED <<device, nvm_stat, bio, sector, left, seg, reg, buf, issued, served, touched>>

\* lbn_begin .. lbn_end, where lbn_end is the page of the first sector behind the segment.
LastPageExclusive(t) == PageOf(SegEnd(t)) - 1
LastPage(t) == PageOf(SegEnd(t))

\* update_infotable, a read-modify-write; it refuses a page behind the table.
InfoLoad(t) ==
    /\ Go(t, "info", "charge")
    /\ cur[t] <= LastPage(t) /\ cur[t] \in InfoPages
    /\ reg' = [reg EXCEPT ![t] = InfoTable[cur[t]]]
    /\ UNCHANGED <<device, syncer_lock, nvm_stat, bio, sector, left, seg, cur, buf, issued,
                   served, touched>>

InfoStore(t) ==
    /\ Go(t, "charge", "info")
    /\ InfoTable' = [InfoTable EXCEPT ![cur[t]] = reg[t] + 1]
    /\ cur' = [cur EXCEPT ![t] = @ + 1]
    /\ UNCHANGED <<data, BitMap, MapTable, syncer_lock, nvm_stat, bio, sector, left, seg, reg,
                   buf, issued, served, touched>>

InfoRefused(t) ==
    /\ Go(t, "info", "info")
    /\ cur[t] <= LastPage(t) /\ cur[t] \notin InfoPages
    /\ cur' = [cur EXCEPT ![t] = @ + 1]
    /\ UNCHANGED <<device, syncer_lock, nvm_stat, bio, sector, left, seg, reg, buf, issued,
                   served, touched>>

InfoDone(t) ==
    /\ Go(t, "info", "bit")
    /\ cur[t] > LastPage(t)
    /\ cur' = [cur EXCEPT ![t] = sector[t]]
    /\ UNCHANGED <<device, syncer_lock, nvm_stat, bio, sector, left, seg, reg, buf, issued,
                   served, touched>>

BitIsSet(t) ==
    /\ Go(t, "bit", "bit")
    /\ cur[t] < SegEnd(t) /\ cur[t] \in BitMap
    /\ cur' = [cur EXCEPT ![t] = @ + 1]
    /\ UNCHANGED <<device, syncer_lock, nvm_stat, bio, sector, left, seg, reg, buf, issued,
                   served, touched>>

SetBit(t) ==
    /\ Go(t, "bit", "map")
    /\ cur[t] < SegEnd(t) /\ cur[t] \notin BitMap
    /\ BitMap' = BitMap \cup {cur[t]}
    /\ UNCHANGED <<data, MapTable, InfoTable, syncer_lock, nvm_stat, bio, sector, left, seg,
                   cur, reg, buf, issued, served, touched>>

\* pbn just equal lbn+1: 0 stands for an unmapped sector.
ZeroBased(s) == s
PbnOf(s) == s + 1

MapSector(t) ==
    /\ Go(t, "map", "bit")
    /\ MapTable' = [MapTable EXCEPT ![cur[t]] = PbnOf(cur[t])]
    /\ cur' = [cur EXCEPT ![t] = @ + 1]
    /\ UNCHANGED <<data, BitMap, InfoTable, syncer_lock, nvm_stat, bio, sector, left, seg, reg,
                   buf, issued, served, touched>>

KeepLock(t) == t
DropLock(t) == Nobody

HelperUnlock(t) ==
    /\ Go(t, "bit", "copy")
    /\ cur[t] = SegEnd(t)
    /\ syncer_lock' = DropLock(t)
    /\ cur' = [cur EXCEPT ![t] = sector[t]]
    /\ touched' = [p \in InfoPages |->
                     IF p \in PageOf(sector[t])..PageOf(SegEnd(t) - 1) THEN touched[p] + 1
                     ELSE touched[p]]
    /\ UNCHANGED <<device, nvm_stat, bio, sector, left, seg, reg, buf, issued, served>>

-----------------------------------------------------------------------------
(* copy_from_nvm and copy_to_nvm, one sector at a time and under no lock; then the end. *)

Offset(t) == num_sectors[t] - left[t] + (cur[t] - sector[t])

CopyFromNvm(t) ==
    /\ pc[t] = "copy" /\ rw[t] = "READ" /\ cur[t] < SegEnd(t)
    /\ buf' = [buf EXCEPT ![t] = [@ EXCEPT ![Offset(t)] = data[cur[t]]]]
    /\ cur' = [cur EXCEPT ![t] = @ + 1]
    /\ UNCHANGED <<device, syncer_lock, nvm_stat, pc, bio, sector, left, seg, reg, issued,
                   served, touched>>

CopyToNvm(t) ==
    /\ pc[t] = "copy" /\ rw[t] = "WRITE" /\ cur[t] < SegEnd(t)
    /\ data' = [data EXCEPT ![cur[t]] = t]
    /\ cur' = [cur EXCEPT ![t] = @ + 1]
    /\ UNCHANGED <<BitMap, MapTable, InfoTable, syncer_lock, nvm_stat, pc, bio, sector, left,
                   seg, reg, buf, issued, served, touched>>

SegmentDone(t) ==
    /\ Go(t, "copy", "segment")
    /\ cur[t] = SegEnd(t)
    /\ sector' = [sector EXCEPT ![t] = SegEnd(t)]
    /\ left' = [left EXCEPT ![t] = @ - seg[t]]
    /\ UNCHANGED <<device, syncer_lock, nvm_stat, bio, seg, cur, reg, buf, issued, served,
                   touched>>

\* The statistics of a request; both directions under stat_lock.
Account(stat, d, n) ==
    IF d = "READ" THEN [stat EXCEPT !.requests_read = @ + 1, !.sectors_read = @ + n]
    ELSE [stat EXCEPT !.requests_write = @ + 1, !.sectors_write = @ + n]

\* bio_endio: the status of the bio is never set, so it reports success.
EndIO(t) ==
    /\ Go(t, "endio", "stat")
    /\ served' = IF left[t] = 0 THEN Account(served, dir[t], num_sectors[t]) ELSE served
    /\ UNCHANGED <<device, syncer_lock, nvm_stat, bio, sector, left, seg, cur, reg, buf, issued,
                   touched>>

AccountedSectorsLeft(t) == left[t]
AccountedSectorsSwapped(t) == left[t] - num_sectors[t]
AccountedSectors(t) == num_sectors[t]

Stat(t) ==
    /\ Go(t, "stat", "idle")
    /\ nvm_stat' = Account(nvm_stat, rw[t], AccountedSectors(t))
    /\ dir' = [dir EXCEPT ![t] = "READ"] /\ rw' = [rw EXCEPT ![t] = "READ"]
    /\ num_sectors' = [num_sectors EXCEPT ![t] = 0]
    /\ sector' = [sector EXCEPT ![t] = 0]
    /\ left' = [left EXCEPT ![t] = 0]
    /\ seg' = [seg EXCEPT ![t] = 0]
    /\ cur' = [cur EXCEPT ![t] = 0]
    /\ reg' = [reg EXCEPT ![t] = 0]
    /\ buf' = [buf EXCEPT ![t] = NoBuf]
    /\ UNCHANGED <<device, syncer_lock, issued, served, touched>>

-----------------------------------------------------------------------------
(* The syncer's critical section. *)

SyncerLock ==
    /\ LockFree
    /\ syncer_lock' = SYNCER
    /\ UNCHANGED <<device, nvm_stat, pc, bio, sector, left, seg, cur, reg, buf, issued, served,
                   touched>>

SyncerUnlock ==
    /\ syncer_lock = SYNCER
    /\ syncer_lock' = Nobody
    /\ UNCHANGED <<device, nvm_stat, pc, bio, sector, left, seg, cur, reg, buf, issued, served,
                   touched>>

Step(t) == \/ Accept(t) \/ Exceed(t) \/ Segment(t) \/ NoSegment(t)
           \/ HelperLock(t) \/ InfoLoad(t) \/ InfoStore(t) \/ InfoRefused(t) \/ InfoDone(t)
           \/ BitIsSet(t) \/ SetBit(t) \/ MapSector(t) \/ HelperUnlock(t)
           \/ CopyFromNvm(t) \/ CopyToNvm(t) \/ SegmentDone(t) \/ EndIO(t) \/ Stat(t)

Next == \/ \E t \in Submitters : Submit(t) \/ Step(t)
        \/ SyncerLock \/ SyncerUnlock

Spec == Init /\ [][Next]_vars

\* Threads and the syncer run; a queued spinlock is granted to everybody who spins on it.
Fairness == /\ \A t \in Submitters : WF_vars(Step(t)) /\ SF_vars(HelperLock(t))
            /\ WF_vars(SyncerUnlock)
FairSpec == Spec /\ Fairness

-----------------------------------------------------------------------------
(* Properties. *)

PCs == {"idle", "check", "segment", "lock", "info", "charge", "bit", "map", "copy", "endio",
        "stat"}
Stats == [requests_read : Nat, sectors_read : Nat, requests_write : Nat, sectors_write : Nat]

\* The type of every variable.
TypeTables ==
    /\ data \in [Sectors -> Submitters \cup {Blank}]
    /\ BitMap \subseteq Sectors
    /\ MapTable \in [Sectors -> 0..CAPACITY]
    /\ InfoTable \in [InfoPages -> Nat] /\ touched \in [InfoPages -> Nat]
    /\ syncer_lock \in Submitters \cup {SYNCER, Nobody}
    /\ issued \in Nat
TypeStats ==
    /\ nvm_stat \in Stats /\ served \in Stats
    /\ buf \in [Submitters -> [0..(MaxCount - 1) -> Submitters \cup {Blank}]]
TypeThreads ==
    /\ pc \in [Submitters -> PCs]
    /\ dir \in [Submitters -> {"READ", "WRITE"}] /\ rw \in [Submitters -> {"READ", "WRITE"}]
    /\ num_sectors \in [Submitters -> 0..MaxCount]
    /\ sector \in [Submitters -> Nat]
    /\ left \in [Submitters -> 0..MaxCount] /\ seg \in [Submitters -> 0..MaxCount]
    /\ cur \in [Submitters -> Nat] /\ reg \in [Submitters -> Nat]
TypeOK == TypeTables /\ TypeStats /\ TypeThreads

TablesQuiet == syncer_lock \in {Nobody, SYNCER}

\* write_helper runs before the copy: no sector holds data that is not marked in the
\* bitmap and mapped, also when another thread is marking the same sectors.
StoredIsMapped ==
    \A s \in Sectors : data[s] # Blank => s \in BitMap /\ MapTable[s] = s + 1

\* Whoever takes syncer_lock finds the bitmap and the mapping table in agreement, and
\* no physical block mapped twice.
TablesAgree ==
    TablesQuiet =>
        /\ \A s \in Sectors : s \in BitMap <=> MapTable[s] # 0
        /\ \A s, u \in Sectors : MapTable[s] = MapTable[u] /\ MapTable[s] # 0 => s = u

\* The access count of a page is never less than the write segments that touched it:
\* concurrent writers lose no increment.  (It may be more: a segment that ends at a page
\* boundary is charged to the page behind it, too.)
AccessesCounted == TablesQuiet => \A p \in InfoPages : InfoTable[p] >= touched[p]

\* When no request is in progress, nvm_stat counts the sectors that were transferred
\* and the requests that transferred them.
StatsExact == (\A t \in Submitters : pc[t] = "idle") => nvm_stat = served

\* A bio in progress as a request of the abstract disk.
StageOf(t) == IF pc[t] = "stat" THEN "ok" ELSE "busy"
FromOf(t) == IF pc[t] = "copy" THEN cur[t] ELSE sector[t]
EndOf(t) == sector[t] + left[t]
RequestOf(t) ==
    IF pc[t] = "idle" THEN [stage |-> "idle"]
    ELSE [stage |-> StageOf(t),
          req |-> [rw |-> dir[t], first |-> EndOf(t) - num_sectors[t],
                   count |-> num_sectors[t], data |-> t],
          left |-> FromOf(t)..(EndOf(t) - 1),
          got |-> buf[t]]
Requested == [t \in Submitters |-> RequestOf(t)]

\* The driver implements the abstract disk: sectors move one by one, only inside the
\* device, all of them before success is reported.
Disk == INSTANCE RamDisk WITH
    Threads <- Submitters, Value <- Submitters \cup {Blank}, Fresh <- NoBuf, store <- data,
    Requests <- [rw : {"READ", "WRITE"}, first : Starts, count : 1..MaxCount, data : Submitters],
    request <- Requested
ImplementsDisk == Disk!Spec

\* Every request that is submitted comes back to its submitter.
RequestsEnd == \A t \in Submitters : pc[t] = "check" ~> pc[t] = "idle"
=============================================================================
