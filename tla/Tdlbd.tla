------------------------------- MODULE Tdlbd --------------------------------
(***************************************************************************)
(* drivers/tdlbd/tdlbd.c: RAM disks under the block layer, which serves    *)
(* them through a request queue (vmem_disk_request runs with the queue's   *)
(* lock held) or hands every bio to vmem_disk_make_request at once.        *)
(* Loading sets up the disks one after the other and lets each part of a   *)
(* disk fail; unloading takes all of them down.                            *)
(*                                                                         *)
(* A transfer moves as many sectors as the first segment of its bio has,   *)
(* whichever segment it is at: bio_cur_bytes looks at the bio, not at the  *)
(* iterator of the loop.                                                   *)
(***************************************************************************)
EXTENDS Integers, Sequences

CONSTANTS DEVICES_NUM,   \* disks (4)
          Bios,          \* bios that may be submitted, each once
          NoBio,         \* the queue's lock is free
          NSECTORS,      \* sectors of a disk (1024)
          MaxSegments,   \* bound: segments of a bio
          MaxSegment     \* bound: sectors of a segment

ASSUME DiskAssumption == /\ {DEVICES_NUM, NSECTORS, MaxSegments, MaxSegment} \subseteq Nat
                         /\ DEVICES_NUM > 0 /\ NoBio \notin Bios

Disks == 0..(DEVICES_NUM - 1)

VARIABLES request_mode,       \* "queue" or "noqueue"
          vmem_disk_major,    \* of the module's parameters: 0, or a number given
          registered,         \* the major number is taken
          module, which,      \* "load", "init", "live", "exit" or "gone"; the loops' index
          part,               \* of which the next part is taken down
          data, queue, gd,    \* data of a disk: "none", "valid" or "freed"; disks with the others
          refused, twice,     \* history: disks without a queue or a gendisk; data freed again
          lock,               \* of each queue: the bio that is served
          bpc, disk, cuts,    \* of each bio: where it is, its disk, where its segments meet
          sector, moved       \* the loop's sector; what was moved for each segment

parts  == <<data, queue, gd, refused, twice>>
bio    == <<bpc, disk, cuts, sector, moved>>
params == <<request_mode, vmem_disk_major>>
bdvars == <<params, registered, module, which, part, parts, lock, bio>>

BdInit == /\ request_mode \in {"queue", "noqueue"}
          /\ vmem_disk_major \in {0, 1} /\ registered = FALSE
          /\ module = "load" /\ which = 0 /\ part = 1
          /\ data = [d \in Disks |-> "none"]
          /\ queue = {} /\ gd = {} /\ refused = {} /\ twice = {}
          /\ lock = [d \in Disks |-> NoBio]
          /\ bpc = [o \in Bios |-> "new"]
          /\ disk = [o \in Bios |-> 0] /\ sector = disk
          /\ cuts = [o \in Bios |-> [m \in {0} |-> 0]]
          /\ moved = [o \in Bios |-> <<>>]

-----------------------------------------------------------------------------
(* vmem_disk_init, and setup_device in its loop. *)

\* register_blkdev returns the number it found when it was given 0, and 0
\* when it took the one given: vmem_disk_init calls that a failure.
Register ==
    /\ module = "load"
    /\ \/ registered' = TRUE
          /\ module' = IF vmem_disk_major = 0 THEN "init" ELSE "gone"
       \/ module' = "gone" /\ UNCHANGED registered     \* no number, or no memory for the devices
    /\ UNCHANGED <<params, which, part, parts, lock, bio>>

Another(state, next) ==
    IF which + 1 \in Disks
    THEN which' = which + 1 /\ module' = state
    ELSE which' = 0 /\ module' = next

SetUp == /\ module = "init" /\ Another("init", "live")
         /\ data' = [data EXCEPT ![which] = "valid"]
         /\ queue' = queue \union {which}
         /\ gd' = gd \union {which}      \* add_disk: bios may come
         /\ UNCHANGED <<params, registered, part, refused, twice, lock, bio>>

NoData == /\ module = "init" /\ Another("init", "live")
          /\ UNCHANGED <<params, registered, part, parts, lock, bio>>

\* out_vfree: dev->data keeps its value.
OutVfree == /\ module = "init" /\ Another("init", "live")
            /\ data' = [data EXCEPT ![which] = "freed"]
            /\ refused' = refused \union {which}
            /\ queue' \in {queue, queue \union {which}}
            /\ UNCHANGED <<params, registered, part, gd, twice, lock, bio>>

-----------------------------------------------------------------------------
(* vmem_disk_exit.  The module has no owner entry in its operations, so    *)
(* it can be removed while a bio is under way.                             *)

VmemExit == /\ module = "live" /\ module' = "exit"
            /\ UNCHANGED <<params, registered, which, part, parts, lock, bio>>

DataFirst  == <<"gd", "data", "queue">>
KeepsQueue == <<"gd", "data">>
ExitOrder  == <<"gd", "queue", "data">>

Under(d) == {o \in Bios : disk[o] = d /\ bpc[o] \in {"queued", "served"}}

\* blk_cleanup_queue waits for the requests; kobject_put waits for nothing.
Drained(d) == request_mode = "queue" => Under(d) = {}

PartDown == IF part < Len(ExitOrder)
            THEN part' = part + 1 /\ UNCHANGED <<module, which>>
            ELSE part' = 1 /\ Another("exit", "gone")

Unregistered == IF module' = "gone" THEN FALSE ELSE registered

TakeDown ==
    /\ module = "exit"
    /\ CASE ExitOrder[part] = "gd" ->
              gd' = gd \ {which} /\ UNCHANGED <<queue, data, twice>>
         [] ExitOrder[part] = "queue" ->
              /\ which \in queue => Drained(which)
              /\ queue' = queue \ {which} /\ UNCHANGED <<gd, data, twice>>
         [] OTHER ->
              /\ data' = [data EXCEPT ![which] = IF @ = "none" THEN @ ELSE "freed"]
              /\ twice' = IF data[which] = "freed" THEN twice \union {which} ELSE twice
              /\ UNCHANGED <<gd, queue>>
    /\ PartDown
    /\ registered' = Unregistered
    /\ UNCHANGED <<params, refused, lock, bio>>

-----------------------------------------------------------------------------
(* The bios.  The block layer lets none pass that exceeds the disk.        *)

\* Segment m of a bio is the sectors from cut m - 1 to before cut m.
Length(c, m) == c[m] - c[m - 1]
Segments(c) == DOMAIN c \ {0}

BioLists == {c \in UNION {[0..n -> 0..NSECTORS] : n \in 1..MaxSegments} :
                \A m \in Segments(c) : Length(c, m) \in 1..MaxSegment}

Submit(o) ==
    /\ bpc[o] = "new" /\ bpc' = [bpc EXCEPT ![o] = "queued"]
    /\ \E d \in gd, c \in BioLists :
          /\ disk' = [disk EXCEPT ![o] = d]
          /\ cuts' = [cuts EXCEPT ![o] = c]
          /\ sector' = [sector EXCEPT ![o] = c[0]]
    /\ UNCHANGED <<params, registered, module, which, part, parts, lock, moved>>

\* vmem_disk_request or vmem_disk_make_request begins with the bio.
Serve(o) ==
    /\ bpc[o] = "queued" /\ bpc' = [bpc EXCEPT ![o] = "served"]
    /\ IF request_mode = "queue"
       THEN lock[disk[o]] = NoBio /\ lock' = [lock EXCEPT ![disk[o]] = o]
       ELSE UNCHANGED lock
    /\ UNCHANGED <<params, registered, module, which, part, parts, disk, cuts, sector, moved>>

\* bio_cur_bytes(bio) >> 9
Current(o) == Length(cuts[o], 1)

\* vmem_disk_transfer refuses silently what lies behind the end.
Range(o) == IF sector[o] + Current(o) > NSECTORS THEN {}
            ELSE sector[o]..(sector[o] + Current(o) - 1)

SameSector(o) == sector[o]
NextSector(o) == sector[o] + Current(o)

\* The segment that the loop is at.
Segment(o) == Len(moved[o]) + 1

Transfer(o) ==
    /\ bpc[o] = "served" /\ Segment(o) \in Segments(cuts[o])
    /\ moved' = [moved EXCEPT ![o] = Append(@, Range(o))]
    /\ sector' = [sector EXCEPT ![o] = NextSector(o)]
    /\ UNCHANGED <<params, registered, module, which, part, parts, lock, bpc, disk, cuts>>

\* __blk_end_request_all or bio_endio, always without an error.
EndBio(o) ==
    /\ bpc[o] = "served" /\ Segment(o) \notin Segments(cuts[o])
    /\ bpc' = [bpc EXCEPT ![o] = "ended"]
    /\ lock' = [lock EXCEPT ![disk[o]] = IF @ = o THEN NoBio ELSE @]
    /\ UNCHANGED <<params, registered, module, which, part, parts, disk, cuts, sector, moved>>

Bio(o) == Submit(o) \/ Serve(o) \/ Transfer(o) \/ EndBio(o)

BdNext == Register \/ SetUp \/ NoData \/ OutVfree \/ VmemExit \/ TakeDown \/ \E o \in Bios : Bio(o)
BdSpec == BdInit /\ [][BdNext]_bdvars

-----------------------------------------------------------------------------
(* A bio whose segments are all of one length reaches every sector it asks *)
(* for, once, each segment its own; one with other segments does not, as   *)
(* it is cut by the first one (tdlbd.c:85-91).                             *)
SegmentsLand ==
    \A o \in Bios : bpc[o] = "ended" =>
        \/ \E m \in Segments(cuts[o]) : Length(cuts[o], m) # Current(o)
        \/ \A m \in Segments(cuts[o]) : moved[o][m] = cuts[o][m - 1]..(cuts[o][m] - 1)

(* With a request queue, the data outlives every bio of its disk, although *)
(* the module can be removed at any time; without one nothing waits for    *)
(* the bios (tdlbd.c:248-259).                                             *)
DataLives ==
    request_mode = "queue" =>
        \A o \in Bios : bpc[o] = "served" => data[disk[o]] = "valid"

(* Unloading leaves nothing behind, but for a major number that was given  *)
(* to the module, and frees twice only the data of disks that were refused *)
(* a queue or a gendisk (tdlbd.c:211-213, :222-226, :258-261).             *)
AllReleased ==
    module = "gone" => /\ gd = {} /\ queue = {}
                       /\ \A d \in Disks : data[d] # "valid"
                       /\ twice \subseteq refused
                       /\ registered => vmem_disk_major # 0
=============================================================================
