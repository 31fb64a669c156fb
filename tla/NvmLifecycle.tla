---------------------------- MODULE NvmLifecycle ----------------------------
(***************************************************************************)
(* Loading and unloading of the NVMSIM module, ramdevice.c: nvm_init,      *)
(* nvm_alloc, nvm_create and their error paths, nvm_exit and nvm_free, the *)
(* /proc entries, the high memory, and the syncer thread of each device.   *)
(*                                                                         *)
(* insmod and rmmod run in one thread, whose place in the source is pc.    *)
(* While it builds a device, pc names the resource it asks for next; every *)
(* request may be refused.  The syncer threads run beside it.              *)
(***************************************************************************)
EXTENDS Naturals

CONSTANTS MaxDevices,   \* bound on the module parameter nvm_num_devices
          NvmTypes,     \* values of g_nvm_type: the memory behind the data
          MaxLoads      \* bound on the number of insmods

ASSUME BoundAssumption == MaxDevices \in Nat /\ MaxLoads \in Nat
ASSUME NvmTypeAssumption == NvmTypes \subseteq {"highmem", "vmalloc"}

Devices == 0 .. MaxDevices - 1
NoDevice == MaxDevices

(* What a device is made of, in the order in which nvm_alloc and           *)
(* nvm_create ask for it.                                                  *)
Order == [device |-> 1, queue |-> 2, disk |-> 3, stat |-> 4, data |-> 5,
          MapTable |-> 6, BitMap |-> 7, InfoTable |-> 8, syncer |-> 9,
          devstat |-> 10]
Resources == DOMAIN Order
Before(r) == {q \in Resources : Order[q] < Order[r]}

VARIABLES
  pc,         \* where nvm_init or nvm_exit is; "absent", "live": in neither
  num,        \* nvm_num_devices of this load
  nvm_type,   \* g_nvm_type
  dev,        \* the device being built or taken down
  held,       \* for each device, what is allocated and reachable from it
  listed,     \* nvm_list_head
  added,      \* the devices the block layer sends requests to
  curr,       \* g_highmem_curr_addr, in devices from g_highmem_virt_addr
  maps,       \* the loads whose high-memory mapping exists
  proc,       \* the module's own entries in /proc, <<directory, name>>
  devstats,   \* the devices' entries, <<directory, device>>
  proc_nvm,   \* the variable of that name is not NULL
  blkdev,     \* NVM_MAJOR is registered
  thread,     \* for each device, where its syncer is
  stop,       \* the devices whose syncer was told to stop
  loads,      \* insmods so far
  failed,     \* what was refused in this load: a resource, "map", "blkdev"
  broken,     \* the device it was refused to
  lost        \* history: what the load left allocated, and nobody points at

loader == <<num, nvm_type, loads>>
kernel == <<maps, proc, devstats, proc_nvm, blkdev>>
history == <<failed, broken, lost>>
vars == <<pc, dev, held, listed, added, curr, thread, stop, loader, kernel,
          history>>

Root == "proc"                \* a NULL parent is /proc itself
NvmDir == <<Root, "nvm">>
ProcParent == IF proc_nvm THEN "nvm" ELSE Root
Devstat(d) == <<ProcParent, d>>

Init ==
  /\ pc = "absent" /\ num = 0 /\ nvm_type = "vmalloc" /\ dev = 0
  /\ held = [d \in Devices |-> {}] /\ listed = {} /\ added = {}
  /\ curr = 0 /\ maps = {} /\ proc = {} /\ devstats = {} /\ proc_nvm = FALSE /\ blkdev = FALSE
  /\ thread = [d \in Devices |-> "none"] /\ stop = {}
  /\ loads = 0 /\ failed = "none" /\ broken = NoDevice /\ lost = {}

-----------------------------------------------------------------------------
(* nvm_init, up to the loop over the devices.                              *)

(* A fresh module.  A syncer that survived the last load runs in text that *)
(* is gone: what comes then is not modelled.                               *)
Insmod ==
  /\ pc = "absent" /\ loads < MaxLoads
  /\ \A d \in Devices : thread[d] = "none"
  /\ num' \in 0 .. MaxDevices /\ nvm_type' \in NvmTypes /\ loads' = loads + 1
  /\ pc' = "map" /\ dev' = 0 /\ curr' = 0 /\ proc_nvm' = FALSE /\ stop' = {}
  /\ failed' = "none" /\ broken' = NoDevice /\ lost' = {}
  /\ UNCHANGED <<held, listed, added, maps, proc, devstats, blkdev,
                 thread>>

HighmemMap ==
  /\ pc = "map"
  /\ \/ nvm_type = "vmalloc" /\ pc' = "proc" /\ UNCHANGED <<maps, failed>>
     \/ /\ nvm_type = "highmem" /\ pc' = "proc"
        /\ maps' = maps \union {loads} /\ UNCHANGED failed
     \/ /\ nvm_type = "highmem" /\ pc' = "absent"
        /\ failed' = "map" /\ UNCHANGED maps
  /\ UNCHANGED <<dev, held, listed, added, curr, thread, stop, loader, proc,
                 devstats, proc_nvm, blkdev, broken, lost>>

(* Nobody looks at the result.  proc_mkdir refuses a name that is there.   *)
ProcCreate ==
  /\ pc = "proc" /\ pc' = "blkdev"
  /\ \/ proc_nvm' = FALSE /\ UNCHANGED proc
     \/ /\ NvmDir \notin proc /\ proc_nvm' = TRUE
        /\ \E made \in {{}, {"nvmstat"}, {"nvmstat", "nvmcfg"}} :
             proc' = proc \union {NvmDir} \union {<<"nvm", e>> : e \in made}
  /\ UNCHANGED <<dev, held, listed, added, curr, thread, stop, loader, maps,
                 devstats, blkdev, history>>

(* The failing register_blkdev returns at once and undoes nothing.         *)
RegisterBlkdev ==
  /\ pc = "blkdev"
  /\ \/ /\ blkdev' = TRUE /\ UNCHANGED failed
        /\ pc' = IF num = 0 THEN "add_disk" ELSE "device"
     \/ blkdev' = FALSE /\ failed' = "blkdev" /\ pc' = "absent"
  /\ UNCHANGED <<dev, held, listed, added, curr, thread, stop, loader, maps,
                 proc, devstats, proc_nvm, broken, lost>>

-----------------------------------------------------------------------------
(* nvm_alloc and nvm_create, one resource at a time.                       *)
Acquire(r, next) ==
  /\ pc = r /\ pc' = next
  /\ held' = [held EXCEPT ![dev] = @ \union {r}]
  /\ UNCHANGED <<dev, listed, added, loader, maps, proc, proc_nvm, blkdev,
                 history>>

(* The allocations of the kernel's that may refuse. *)
AllocDevice == Acquire("device", "queue") /\ UNCHANGED <<curr, devstats, thread, stop>>
AllocQueue == Acquire("queue", "disk") /\ UNCHANGED <<curr, devstats, thread, stop>>
AllocDisk == Acquire("disk", "stat") /\ UNCHANGED <<curr, devstats, thread, stop>>
StatAlloc == Acquire("stat", "data") /\ UNCHANGED <<curr, devstats, thread, stop>>

(* hmalloc: the mapping is as large as one device. *)
HighmemAvailable == 1 - curr >= 1
MemSpaceAlloc ==
  /\ Acquire("data", "MapTable") /\ UNCHANGED <<devstats, thread, stop>>
  /\ IF nvm_type = "highmem" THEN HighmemAvailable /\ curr' = curr + 1
                             ELSE UNCHANGED curr

PbiSpaceAlloc ==
  /\ \/ Acquire("MapTable", "BitMap")
     \/ Acquire("BitMap", "InfoTable")
     \/ Acquire("InfoTable", "syncer")
  /\ UNCHANGED <<curr, devstats, thread, stop>>

SyncerInit ==
  /\ Acquire("syncer", "devstat") /\ UNCHANGED <<curr, devstats>>
  /\ thread' = [thread EXCEPT ![dev] = "created"] /\ stop' = stop \ {dev}

ProcDevstatCreate ==
  /\ Acquire("devstat", "list") /\ UNCHANGED <<curr, thread, stop>>
  /\ devstats' = devstats \union {Devstat(dev)}

Refuse(r) ==
  /\ pc = r
  /\ r = "data" /\ nvm_type = "highmem" => ~HighmemAvailable
  /\ failed' = r /\ broken' = dev /\ pc' = "out"
  /\ UNCHANGED <<dev, held, listed, added, curr, thread, stop, loader, kernel,
                 lost>>

(* The labels at the end of nvm_alloc: out_free_queue, out_free_dev,       *)
(* out_free_struct, out.  They know of the queue, the data and the device. *)
ForgetsData == {"queue", "device"}
Released == IF failed = "queue" THEN {"data", "device"}
                                ELSE {"queue", "data", "device"}
AllocFails ==
  /\ pc = "out" /\ pc' = "next"
  /\ lost' = held[dev] \ Released
  /\ held' = [held EXCEPT ![dev] = {}]
  /\ UNCHANGED <<dev, listed, added, curr, thread, stop, loader, kernel,
                 failed, broken>>

ListAdd ==
  /\ pc = "list" /\ listed' = listed \union {dev}
  /\ IF dev + 1 < num THEN pc' = "device" /\ dev' = dev + 1
                      ELSE pc' = "add_disk" /\ UNCHANGED dev
  /\ UNCHANGED <<held, added, curr, thread, stop, loader, kernel, history>>

IsFirst(d, devices) == d \in devices /\ \A e \in devices : d <= e

AddDisk ==
  /\ pc = "add_disk"
  /\ \/ added = listed /\ pc' = "live" /\ UNCHANGED added
     \/ \E d \in Devices :
          IsFirst(d, listed \ added) /\ added' = added \union {d} /\ UNCHANGED pc
  /\ UNCHANGED <<dev, held, listed, curr, thread, stop, loader, kernel,
                 history>>

-----------------------------------------------------------------------------
(* nvm_exit, and the label out_free of nvm_init; both walk the list and    *)
(* call nvm_free, rmmod after del_gendisk.                                 *)
Rmmod ==
  /\ pc = "live" /\ pc' = "next"
  /\ UNCHANGED <<dev, held, listed, added, curr, thread, stop, loader, kernel,
                 history>>

DiskStays(d) == added
DelGendisk(d) == IF failed = "none" THEN added \ {d} ELSE added

(* list_del, del_gendisk, put_disk, blk_cleanup_queue, the /proc entry,    *)
(* and the first half of kthread_stop.                                     *)
FreeDevice(d) ==
  /\ pc = "next" /\ IsFirst(d, listed) /\ pc' = "syncer_stop"
  /\ dev' = d /\ listed' = listed \ {d} /\ added' = DelGendisk(d)
  /\ held' = [held EXCEPT ![d] = @ \ {"disk", "queue", "devstat"}]
  /\ devstats' = devstats \ {Devstat(d)}
  /\ stop' = stop \union {d}
  /\ UNCHANGED <<curr, thread, loader, maps, proc, proc_nvm, blkdev, history>>

(* kthread_stop returns when the thread has ended. *)
NoWait == TRUE
SyncerEnded == thread[dev] = "none"

SyncerStop ==
  /\ pc = "syncer_stop" /\ SyncerEnded
  /\ pc' = "nvm_destroy" /\ held' = [held EXCEPT ![dev] = @ \ {"syncer"}]
  /\ UNCHANGED <<dev, listed, added, curr, thread, stop, loader, kernel,
                 history>>

Destroyed == {"MapTable", "BitMap", "InfoTable", "data", "stat", "device"}
DestroyDevice ==
  /\ pc = "nvm_destroy" /\ pc' = "next"
  /\ held' = [held EXCEPT ![dev] = @ \ Destroyed]
  /\ UNCHANGED <<dev, listed, added, curr, thread, stop, loader, kernel,
                 history>>

(* nvm_proc_destroy.  Without proc_nvm the first two names are looked up   *)
(* in /proc; removing the directory takes what is left in it along.        *)
InDir(entries) == {e \in entries : e[1] = "nvm"}
DirectoryStays == proc \ ({ProcParent} \X {"nvmcfg", "nvmstat"})
ProcDestroyed ==
  proc \ (InDir(proc) \union {NvmDir} \union {ProcParent} \X {"nvmcfg", "nvmstat"})

ExitEnds ==
  /\ pc = "next" /\ listed = {} /\ failed = "none" /\ pc' = "absent"
  /\ maps' = maps \ {loads} /\ blkdev' = FALSE /\ proc' = ProcDestroyed
  /\ devstats' = devstats \ InDir(devstats)
  /\ UNCHANGED <<dev, held, listed, added, curr, thread, stop, loader,
                 proc_nvm, history>>

InitFails ==
  /\ pc = "next" /\ listed = {} /\ failed # "none" /\ pc' = "absent"
  /\ blkdev' = FALSE
  /\ UNCHANGED <<dev, held, listed, added, curr, thread, stop, loader, maps,
                 proc, devstats, proc_nvm, history>>

-----------------------------------------------------------------------------
(* nvm_syncer_worker.  A thread told to stop before it first ran never     *)
(* enters it.                                                              *)
NeverAsked(d) == FALSE
ShouldStop(d) == d \in stop

SyncerBegin(d) ==
  /\ thread[d] = "created"
  /\ thread' = [thread EXCEPT ![d] = IF ShouldStop(d) THEN "none" ELSE "run"]

(* syncer_lock, nvm_device_is_idle, unlock: uses the device and its        *)
(* nvm_stat.                                                               *)
SyncerTest(d) ==
  /\ thread[d] = "run" /\ thread' = [thread EXCEPT ![d] = "sleep"]

SyncerWake(d) ==
  /\ thread[d] = "sleep"
  /\ thread' = [thread EXCEPT ![d] = IF ShouldStop(d) THEN "none" ELSE "run"]

Syncer(d) ==
  /\ SyncerBegin(d) \/ SyncerTest(d) \/ SyncerWake(d)
  /\ UNCHANGED <<pc, dev, held, listed, added, curr, stop, loader, kernel,
                 history>>

-----------------------------------------------------------------------------
Load == HighmemMap \/ ProcCreate \/ RegisterBlkdev \/ ListAdd \/ AddDisk
Build == \/ AllocDevice \/ AllocQueue \/ AllocDisk \/ StatAlloc
         \/ MemSpaceAlloc \/ PbiSpaceAlloc \/ SyncerInit \/ ProcDevstatCreate
         \/ \E r \in Resources : Refuse(r)
         \/ AllocFails
Unload == (\E d \in Devices : FreeDevice(d)) \/ SyncerStop \/ DestroyDevice \/ ExitEnds \/ InitFails

Next == Insmod \/ Load \/ Build \/ Rmmod \/ Unload
        \/ \E d \in Devices : Syncer(d)

Spec == Init /\ [][Next]_vars

(* insmod and rmmod, once begun, run; so do the threads, whose sleep ends. *)
Fairness == /\ WF_vars(Load \/ Build \/ Unload)
            /\ \A d \in Devices : WF_vars(Syncer(d))
FairSpec == Spec /\ Fairness

-----------------------------------------------------------------------------
Places == {"absent", "live", "map", "proc", "blkdev", "list", "add_disk",
           "out", "next", "syncer_stop", "nvm_destroy"} \union Resources

(* Types of the loader's, the kernel's and the history variables. *)
TypeOK ==
  /\ pc \in Places /\ num \in 0 .. MaxDevices
  /\ nvm_type \in {"highmem", "vmalloc"}
  /\ dev \in 0 .. MaxDevices
  /\ held \in [Devices -> SUBSET Resources]
  /\ listed \subseteq Devices /\ added \subseteq Devices
  /\ curr \in 0 .. 1 /\ maps \subseteq 0 .. MaxLoads
  /\ proc \subseteq {Root, "nvm"} \X {"nvm", "nvmstat", "nvmcfg"}
  /\ devstats \subseteq {Root, "nvm"} \X Devices
  /\ proc_nvm \in BOOLEAN /\ blkdev \in BOOLEAN
  /\ thread \in [Devices -> {"none", "created", "run", "sleep"}]
  /\ stop \subseteq Devices /\ loads \in 0 .. MaxLoads
  /\ failed \in {"none", "map", "blkdev"} \union Resources
  /\ broken \in 0 .. MaxDevices /\ lost \subseteq Resources

(* The block layer sends requests, and the partition scan of add_disk      *)
(* reads, only while a device has all its parts: add_disk comes after the  *)
(* whole of nvm_create for every device, del_gendisk before nvm_free.      *)
AddedDevicesWhole == \A d \in added : held[d] = Resources

(* A syncer thread uses the device and its statistics under no reference   *)
(* count: nvm_destroy must wait for it.  The one case where the code does  *)
(* not is named: nvm_create failing at the /proc entry, after the thread   *)
(* was started.                                                            *)
SyncerOnLiveDevice ==
  \A d \in Devices : thread[d] # "none" =>
    \/ {"device", "stat"} \subseteq held[d]
    \/ failed = "devstat" /\ broken = d

(* When the module is gone, what its last load leaves allocated is         *)
(* exactly what nvm_alloc's error path forgets: the disk, the statistics,  *)
(* the tables and the running thread, as far as they had been made.        *)
Forgotten(r) == IF r \in Resources THEN Before(r) \ {"device", "queue", "data"}
                                   ELSE {}
LostExactly ==
  pc = "absent" => /\ lost = Forgotten(failed)
                   /\ \A d \in Devices : held[d] = {}
                   /\ ~blkdev

(* After an rmmod nothing of the module is left in /proc, in the high      *)
(* memory or among the threads, whatever earlier loads that failed had     *)
(* left there.                                                             *)
UnloadIsClean ==
  pc = "absent" /\ failed = "none" =>
    proc = {} /\ devstats = {} /\ loads \notin maps /\ \A d \in Devices : thread[d] = "none"

(* A load ends, in success or in failure, and an unload ends: kthread_stop *)
(* waits for a thread that looks at the request every ten seconds.         *)
LoaderFinishes == pc \notin {"absent", "live"} ~> pc \in {"absent", "live"}
=============================================================================
