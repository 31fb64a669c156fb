------------------------- MODULE NvmLifecycleProofs -------------------------
(***************************************************************************)
(* Proofs about NvmLifecycle for every number of devices and of loads:     *)
(* requests meet whole devices only, the syncer threads live devices only  *)
(* but for the one case the code forgets, and what is left of a module is  *)
(* what its error path leaves.                                             *)
(***************************************************************************)
EXTENDS NvmLifecycle, TLAPS

\* Places of nvm_init before a device, and while it builds one.
Early == {"absent", "map", "proc", "blkdev"}
Building == Resources \cup {"list"}
Leaving == {"next", "syncer_stop", "nvm_destroy"}

\* What the device in progress holds at each place of the loader.
Stopping == Resources \ {"disk", "queue", "devstat"}
Progress ==
    CASE pc \in Resources -> Before(pc)
      [] pc = "list" -> Resources
      [] pc = "out" -> Before(failed)
      [] pc = "syncer_stop" -> Stopping
      [] pc = "nvm_destroy" -> Stopping \ {"syncer"}
      [] OTHER -> {}

\* A listed device is whole, the one in progress as far as it got, the
\* others hold nothing.
HeldOf(d) == held[d] = IF d \in listed THEN Resources
                       ELSE IF d = dev THEN Progress ELSE {}
HeldInv == \A d \in Devices : HeldOf(d)

\* The list holds the devices before the one being built.
ListInv ==
    /\ pc \in Early => listed = {}
    /\ pc \in {"map", "proc", "blkdev"} => dev = 0
    /\ pc \in Building => dev < num /\ \A d \in listed : d < dev
    /\ pc \in {"out", "syncer_stop", "nvm_destroy"} => dev \in Devices \ listed

\* Only listed devices are added, and none of a load that failed.
AddedInv ==
    /\ added \subseteq listed
    /\ failed # "none" \/ pc \in Building => added = {}

\* What was refused, where, and what that cost.
FailInv ==
    /\ pc \in {"map", "proc", "blkdev", "add_disk", "live"} \cup Building
         => failed = "none" /\ lost = {}
    /\ pc = "out" => failed \in Resources /\ broken = dev /\ lost = {}
    /\ pc \in Leaving \cup {"absent"} => lost = Forgotten(failed)
    /\ pc \in Leaving => failed \notin {"map", "blkdev"}

BlkdevInv == pc \in Early => ~blkdev

\* A thread belongs to a device that knows of it, or to the broken one.
Known(d) == "syncer" \in held[d] \/ (failed = "devstat" /\ broken = d)
ThreadInv == \A d \in Devices : thread[d] # "none" => Known(d)

\* /proc holds the directory and what is in it; an entry outside of it is
\* that of a device which can remove it.
ProcInv ==
    /\ proc \subseteq {NvmDir} \cup ({"nvm"} \X {"nvmstat", "nvmcfg"})
    /\ \A d \in Devices :
         <<Root, d>> \in devstats => ~proc_nvm /\ "devstat" \in held[d]

IInv == /\ TypeOK /\ HeldInv /\ ListInv /\ AddedInv /\ FailInv /\ BlkdevInv
        /\ ThreadInv /\ ProcInv /\ UnloadIsClean

-----------------------------------------------------------------------------
\* The resources, and the order in which they are asked for.
LEMMA ResourceSet ==
    Resources = {"device", "queue", "disk", "stat", "data", "MapTable", "BitMap",
                 "InfoTable", "syncer", "devstat"}
  BY DEF Resources, Order
\* The order, value by value.
LEMMA OrderValues == 
    /\ Order["device"] = 1 /\ Order["queue"] = 2 /\ Order["disk"] = 3
    /\ Order["stat"] = 4 /\ Order["data"] = 5 /\ Order["MapTable"] = 6
    /\ Order["BitMap"] = 7 /\ Order["InfoTable"] = 8 /\ Order["syncer"] = 9
    /\ Order["devstat"] = 10
  BY DEF Order
\* Nothing comes before the device itself.
LEMMA BeforeFirst == Before("device") = {}
  BY ResourceSet, OrderValues DEF Before
\* Each request adds one resource to those before it.
LEMMA BeforeNext ==
    /\ Before("queue") = Before("device") \cup {"device"}
    /\ Before("disk") = Before("queue") \cup {"queue"}
    /\ Before("stat") = Before("disk") \cup {"disk"}
    /\ Before("data") = Before("stat") \cup {"stat"}
    /\ Before("MapTable") = Before("data") \cup {"data"}
    /\ Before("BitMap") = Before("MapTable") \cup {"MapTable"}
    /\ Before("InfoTable") = Before("BitMap") \cup {"BitMap"}
    /\ Before("syncer") = Before("InfoTable") \cup {"InfoTable"}
    /\ Before("devstat") = Before("syncer") \cup {"syncer"}
    /\ Resources = Before("devstat") \cup {"devstat"}
  BY ResourceSet, OrderValues DEF Before
\* Only the /proc entry is asked for with a thread running.
LEMMA SyncerBefore ==
    \A r \in Resources : "syncer" \in Before(r) => r = "devstat" /\ {"device", "stat"} \subseteq Before(r)
  BY ResourceSet, OrderValues DEF Before
\* The /proc entry comes last.
LEMMA DevstatLast == \A r \in Resources : "devstat" \notin Before(r)
  BY ResourceSet, OrderValues DEF Before

\* insmod starts with nothing held and no thread.
LEMMA Insmod_Step ==
    ASSUME IInv, Insmod
    PROVE  IInv'
  <1>1. TypeOK'
    <2>1. (pc \in Places /\ num \in 0 .. MaxDevices /\ nvm_type \in {"highmem", "vmalloc"})'
      BY BoundAssumption, NvmTypeAssumption, ResourceSet DEF IInv, TypeOK, Places, Root,
         Devices, NoDevice, loader, kernel, history, Insmod
    <2>2. (dev \in 0 .. MaxDevices)'
      BY BoundAssumption, NvmTypeAssumption, ResourceSet DEF IInv, TypeOK, Places, Root,
         Devices, NoDevice, loader, kernel, history, Insmod
    <2>3. (held \in [Devices -> SUBSET Resources])'
      BY BoundAssumption, NvmTypeAssumption, ResourceSet DEF IInv, TypeOK, Places, Root,
         Devices, NoDevice, loader, kernel, history, Insmod
    <2>4. (listed \subseteq Devices /\ added \subseteq Devices)'
      BY BoundAssumption, NvmTypeAssumption, ResourceSet DEF IInv, TypeOK, Places, Root,
         Devices, NoDevice, loader, kernel, history, Insmod
    <2>5. (curr \in 0 .. 1 /\ maps \subseteq 0 .. MaxLoads)'
      BY BoundAssumption, NvmTypeAssumption, ResourceSet DEF IInv, TypeOK, Places, Root,
         Devices, NoDevice, loader, kernel, history, Insmod
    <2>6. (proc \subseteq {Root, "nvm"} \X {"nvm", "nvmstat", "nvmcfg"})'
      BY BoundAssumption, NvmTypeAssumption, ResourceSet DEF IInv, TypeOK, Places, Root,
         Devices, NoDevice, loader, kernel, history, Insmod
    <2>7. (devstats \subseteq {Root, "nvm"} \X Devices)'
      BY BoundAssumption, NvmTypeAssumption, ResourceSet DEF IInv, TypeOK, Places, Root,
         Devices, NoDevice, loader, kernel, history, Insmod
    <2>8. (proc_nvm \in BOOLEAN /\ blkdev \in BOOLEAN)'
      BY BoundAssumption, NvmTypeAssumption, ResourceSet DEF IInv, TypeOK, Places, Root,
         Devices, NoDevice, loader, kernel, history, Insmod
    <2>9. (thread \in [Devices -> {"none", "created", "run", "sleep"}] /\ stop \subseteq Devices)'
      BY BoundAssumption, NvmTypeAssumption, ResourceSet DEF IInv, TypeOK, Places, Root,
         Devices, NoDevice, loader, kernel, history, Insmod
    <2>10. (loads \in 0 .. MaxLoads)'
      BY BoundAssumption, NvmTypeAssumption, ResourceSet DEF IInv, TypeOK, Places, Root,
         Devices, NoDevice, loader, kernel, history, Insmod
    <2>11. (failed \in {"none", "map", "blkdev"} \cup Resources)'
      BY BoundAssumption, NvmTypeAssumption, ResourceSet DEF IInv, TypeOK, Places, Root,
         Devices, NoDevice, loader, kernel, history, Insmod
    <2>12. (broken \in 0 .. MaxDevices /\ lost \subseteq Resources)'
      BY BoundAssumption, NvmTypeAssumption, ResourceSet DEF IInv, TypeOK, Places, Root,
         Devices, NoDevice, loader, kernel, history, Insmod
    <2> QED
      BY <2>1, <2>2, <2>3, <2>4, <2>5, <2>6, <2>7, <2>8, <2>9, <2>10, <2>11, <2>12 DEF
         TypeOK
  <1>2. HeldInv'
    BY BoundAssumption, ResourceSet, BeforeFirst, SyncerBefore DEF IInv, HeldInv, HeldOf,
       Progress, Stopping, ListInv, TypeOK, Early, Building, Leaving, Devices, loader,
       kernel, history, Insmod
  <1>3. ListInv'
    BY BoundAssumption, ResourceSet DEF IInv, ListInv, TypeOK, Early, Building, FailInv,
       Leaving, Devices, loader, kernel, history, Insmod
  <1>4. AddedInv'
    BY ResourceSet DEF IInv, AddedInv, ListInv, FailInv, TypeOK, Early, Building, Leaving,
       Devices, loader, kernel, history, Insmod
  <1>5. FailInv'
    BY ResourceSet DEF IInv, FailInv, TypeOK, Building, Leaving, Forgotten, Devices, loader,
       kernel, history, Insmod
  <1>6. BlkdevInv'
    BY ResourceSet DEF IInv, BlkdevInv, Early, TypeOK, Devices, loader, kernel, history,
       Insmod
  <1>7. ThreadInv'
    BY ResourceSet, BeforeFirst, SyncerBefore DEF IInv, ThreadInv, Known, TypeOK, FailInv,
       Building, Leaving, HeldInv, HeldOf, Progress, Devices, loader, kernel, history,
       Insmod
  <1>8. ProcInv'
    BY ResourceSet, DevstatLast DEF IInv, ProcInv, Devstat, ProcParent, NvmDir, Root,
       TypeOK, Devices, loader, kernel, history, Insmod
  <1>9. UnloadIsClean'
    BY ResourceSet DEF IInv, UnloadIsClean, TypeOK, Devices, loader, kernel, history, Insmod
  <1> QED
    BY <1>1, <1>2, <1>3, <1>4, <1>5, <1>6, <1>7, <1>8, <1>9 DEF IInv

\* The mapping touches no device.
LEMMA HighmemMap_Step ==
    ASSUME IInv, HighmemMap
    PROVE  IInv'
  <1>1. TypeOK'
    <2>1. (pc \in Places /\ num \in 0 .. MaxDevices /\ nvm_type \in {"highmem", "vmalloc"})'
      BY BoundAssumption, NvmTypeAssumption, ResourceSet DEF IInv, TypeOK, Places, Root,
         Devices, NoDevice, loader, kernel, history, HighmemMap
    <2>2. (dev \in 0 .. MaxDevices)'
      BY BoundAssumption, NvmTypeAssumption, ResourceSet DEF IInv, TypeOK, Places, Root,
         Devices, NoDevice, loader, kernel, history, HighmemMap
    <2>3. (held \in [Devices -> SUBSET Resources])'
      BY BoundAssumption, NvmTypeAssumption, ResourceSet DEF IInv, TypeOK, Places, Root,
         Devices, NoDevice, loader, kernel, history, HighmemMap
    <2>4. (listed \subseteq Devices /\ added \subseteq Devices)'
      BY BoundAssumption, NvmTypeAssumption, ResourceSet DEF IInv, TypeOK, Places, Root,
         Devices, NoDevice, loader, kernel, history, HighmemMap
    <2>5. (curr \in 0 .. 1 /\ maps \subseteq 0 .. MaxLoads)'
      BY BoundAssumption, NvmTypeAssumption, ResourceSet DEF IInv, TypeOK, Places, Root,
         Devices, NoDevice, loader, kernel, history, HighmemMap
    <2>6. (proc \subseteq {Root, "nvm"} \X {"nvm", "nvmstat", "nvmcfg"})'
      BY BoundAssumption, NvmTypeAssumption, ResourceSet DEF IInv, TypeOK, Places, Root,
         Devices, NoDevice, loader, kernel, history, HighmemMap
    <2>7. (devstats \subseteq {Root, "nvm"} \X Devices)'
      BY BoundAssumption, NvmTypeAssumption, ResourceSet DEF IInv, TypeOK, Places, Root,
         Devices, NoDevice, loader, kernel, history, HighmemMap
    <2>8. (proc_nvm \in BOOLEAN /\ blkdev \in BOOLEAN)'
      BY BoundAssumption, NvmTypeAssumption, ResourceSet DEF IInv, TypeOK, Places, Root,
         Devices, NoDevice, loader, kernel, history, HighmemMap
    <2>9. (thread \in [Devices -> {"none", "created", "run", "sleep"}] /\ stop \subseteq Devices)'
      BY BoundAssumption, NvmTypeAssumption, ResourceSet DEF IInv, TypeOK, Places, Root,
         Devices, NoDevice, loader, kernel, history, HighmemMap
    <2>10. (loads \in 0 .. MaxLoads)'
      BY BoundAssumption, NvmTypeAssumption, ResourceSet DEF IInv, TypeOK, Places, Root,
         Devices, NoDevice, loader, kernel, history, HighmemMap
    <2>11. (failed \in {"none", "map", "blkdev"} \cup Resources)'
      BY BoundAssumption, NvmTypeAssumption, ResourceSet DEF IInv, TypeOK, Places, Root,
         Devices, NoDevice, loader, kernel, history, HighmemMap
    <2>12. (broken \in 0 .. MaxDevices /\ lost \subseteq Resources)'
      BY BoundAssumption, NvmTypeAssumption, ResourceSet DEF IInv, TypeOK, Places, Root,
         Devices, NoDevice, loader, kernel, history, HighmemMap
    <2> QED
      BY <2>1, <2>2, <2>3, <2>4, <2>5, <2>6, <2>7, <2>8, <2>9, <2>10, <2>11, <2>12 DEF
         TypeOK
  <1>2. HeldInv'
    BY BoundAssumption, ResourceSet, BeforeFirst, SyncerBefore DEF IInv, HeldInv, HeldOf,
       Progress, Stopping, ListInv, TypeOK, Early, Building, Leaving, Devices, loader,
       kernel, history, HighmemMap
  <1>3. ListInv'
    BY BoundAssumption, ResourceSet DEF IInv, ListInv, TypeOK, Early, Building, FailInv,
       Leaving, Devices, loader, kernel, history, HighmemMap
  <1>4. AddedInv'
    BY ResourceSet DEF IInv, AddedInv, ListInv, FailInv, TypeOK, Early, Building, Leaving,
       Devices, loader, kernel, history, HighmemMap
  <1>5. FailInv'
    BY ResourceSet DEF IInv, FailInv, TypeOK, Building, Leaving, Forgotten, Devices, loader,
       kernel, history, HighmemMap
  <1>6. BlkdevInv'
    BY ResourceSet DEF IInv, BlkdevInv, Early, TypeOK, Devices, loader, kernel, history,
       HighmemMap
  <1>7. ThreadInv'
    BY ResourceSet, BeforeFirst, SyncerBefore DEF IInv, ThreadInv, Known, TypeOK, FailInv,
       Building, Leaving, HeldInv, HeldOf, Progress, Devices, loader, kernel, history,
       HighmemMap
  <1>8. ProcInv'
    BY ResourceSet, DevstatLast DEF IInv, ProcInv, Devstat, ProcParent, NvmDir, Root,
       TypeOK, Devices, loader, kernel, history, HighmemMap
  <1>9. UnloadIsClean'
    BY ResourceSet DEF IInv, UnloadIsClean, TypeOK, Devices, loader, kernel, history,
       HighmemMap
  <1> QED
    BY <1>1, <1>2, <1>3, <1>4, <1>5, <1>6, <1>7, <1>8, <1>9 DEF IInv

\* The entries of the module are made before any device's.
LEMMA ProcCreate_Step ==
    ASSUME IInv, ProcCreate
    PROVE  IInv'
  <1>1. TypeOK'
    <2>1. (pc \in Places /\ num \in 0 .. MaxDevices /\ nvm_type \in {"highmem", "vmalloc"})'
      BY BoundAssumption, NvmTypeAssumption, ResourceSet DEF IInv, TypeOK, Places, Root,
         NvmDir, Devices, NoDevice, loader, kernel, history, ProcCreate
    <2>2. (dev \in 0 .. MaxDevices)'
      BY BoundAssumption, NvmTypeAssumption, ResourceSet DEF IInv, TypeOK, Places, Root,
         NvmDir, Devices, NoDevice, loader, kernel, history, ProcCreate
    <2>3. (held \in [Devices -> SUBSET Resources])'
      BY BoundAssumption, NvmTypeAssumption, ResourceSet DEF IInv, TypeOK, Places, Root,
         NvmDir, Devices, NoDevice, loader, kernel, history, ProcCreate
    <2>4. (listed \subseteq Devices /\ added \subseteq Devices)'
      BY BoundAssumption, NvmTypeAssumption, ResourceSet DEF IInv, TypeOK, Places, Root,
         NvmDir, Devices, NoDevice, loader, kernel, history, ProcCreate
    <2>5. (curr \in 0 .. 1 /\ maps \subseteq 0 .. MaxLoads)'
      BY BoundAssumption, NvmTypeAssumption, ResourceSet DEF IInv, TypeOK, Places, Root,
         NvmDir, Devices, NoDevice, loader, kernel, history, ProcCreate
    <2>6. (proc \subseteq {Root, "nvm"} \X {"nvm", "nvmstat", "nvmcfg"})'
      BY BoundAssumption, NvmTypeAssumption, ResourceSet DEF IInv, TypeOK, Places, Root,
         NvmDir, Devices, NoDevice, loader, kernel, history, ProcCreate
    <2>7. (devstats \subseteq {Root, "nvm"} \X Devices)'
      BY BoundAssumption, NvmTypeAssumption, ResourceSet DEF IInv, TypeOK, Places, Root,
         NvmDir, Devices, NoDevice, loader, kernel, history, ProcCreate
    <2>8. (proc_nvm \in BOOLEAN /\ blkdev \in BOOLEAN)'
      BY BoundAssumption, NvmTypeAssumption, ResourceSet DEF IInv, TypeOK, Places, Root,
         NvmDir, Devices, NoDevice, loader, kernel, history, ProcCreate
    <2>9. (thread \in [Devices -> {"none", "created", "run", "sleep"}] /\ stop \subseteq Devices)'
      BY BoundAssumption, NvmTypeAssumption, ResourceSet DEF IInv, TypeOK, Places, Root,
         NvmDir, Devices, NoDevice, loader, kernel, history, ProcCreate
    <2>10. (loads \in 0 .. MaxLoads)'
      BY BoundAssumption, NvmTypeAssumption, ResourceSet DEF IInv, TypeOK, Places, Root,
         NvmDir, Devices, NoDevice, loader, kernel, history, ProcCreate
    <2>11. (failed \in {"none", "map", "blkdev"} \cup Resources)'
      BY BoundAssumption, NvmTypeAssumption, ResourceSet DEF IInv, TypeOK, Places, Root,
         NvmDir, Devices, NoDevice, loader, kernel, history, ProcCreate
    <2>12. (broken \in 0 .. MaxDevices /\ lost \subseteq Resources)'
      BY BoundAssumption, NvmTypeAssumption, ResourceSet DEF IInv, TypeOK, Places, Root,
         NvmDir, Devices, NoDevice, loader, kernel, history, ProcCreate
    <2> QED
      BY <2>1, <2>2, <2>3, <2>4, <2>5, <2>6, <2>7, <2>8, <2>9, <2>10, <2>11, <2>12 DEF
         TypeOK
  <1>2. HeldInv'
    BY BoundAssumption, ResourceSet, BeforeFirst, SyncerBefore DEF IInv, HeldInv, HeldOf,
       Progress, Stopping, ListInv, TypeOK, Early, Building, Leaving, Devices, loader,
       kernel, history, ProcCreate
  <1>3. ListInv'
    BY BoundAssumption, ResourceSet DEF IInv, ListInv, TypeOK, Early, Building, FailInv,
       Leaving, Devices, loader, kernel, history, ProcCreate
  <1>4. AddedInv'
    BY ResourceSet DEF IInv, AddedInv, ListInv, FailInv, TypeOK, Early, Building, Leaving,
       Devices, loader, kernel, history, ProcCreate
  <1>5. FailInv'
    BY ResourceSet DEF IInv, FailInv, TypeOK, Building, Leaving, Forgotten, Devices, loader,
       kernel, history, ProcCreate
  <1>6. BlkdevInv'
    BY ResourceSet DEF IInv, BlkdevInv, Early, TypeOK, Devices, loader, kernel, history,
       ProcCreate
  <1>7. ThreadInv'
    BY ResourceSet, BeforeFirst, SyncerBefore DEF IInv, ThreadInv, Known, TypeOK, FailInv,
       Building, Leaving, HeldInv, HeldOf, Progress, Devices, loader, kernel, history,
       ProcCreate
  <1>8. ProcInv'
    BY ResourceSet, DevstatLast DEF IInv, ProcInv, Devstat, ProcParent, NvmDir, Root,
       TypeOK, HeldInv, HeldOf, Progress, FailInv, ListInv, Early, Building, Leaving,
       Devices, loader, kernel, history, ProcCreate
  <1>9. UnloadIsClean'
    BY ResourceSet DEF IInv, UnloadIsClean, TypeOK, Devices, loader, kernel, history,
       ProcCreate
  <1> QED
    BY <1>1, <1>2, <1>3, <1>4, <1>5, <1>6, <1>7, <1>8, <1>9 DEF IInv

\* Before register_blkdev there is no device.
LEMMA RegisterBlkdev_Step ==
    ASSUME IInv, RegisterBlkdev
    PROVE  IInv'
  <1>1. TypeOK'
    BY BoundAssumption, NvmTypeAssumption, ResourceSet DEF IInv, TypeOK, Places, Root,
       Devices, NoDevice, loader, kernel, history, RegisterBlkdev
  <1>2. HeldInv'
    BY BoundAssumption, ResourceSet, BeforeFirst, SyncerBefore DEF IInv, HeldInv, HeldOf,
       Progress, Stopping, ListInv, TypeOK, Early, Building, Leaving, Devices, loader,
       kernel, history, RegisterBlkdev
  <1>3. ListInv'
    BY BoundAssumption, ResourceSet DEF IInv, ListInv, TypeOK, Early, Building, FailInv,
       Leaving, Devices, loader, kernel, history, RegisterBlkdev
  <1>4. AddedInv'
    BY ResourceSet DEF IInv, AddedInv, ListInv, FailInv, TypeOK, Early, Building, Leaving,
       Devices, loader, kernel, history, RegisterBlkdev
  <1>5. FailInv'
    BY ResourceSet DEF IInv, FailInv, TypeOK, Building, Leaving, Forgotten, Devices, loader,
       kernel, history, RegisterBlkdev
  <1>6. BlkdevInv'
    BY ResourceSet DEF IInv, BlkdevInv, Early, TypeOK, Devices, loader, kernel, history,
       RegisterBlkdev
  <1>7. ThreadInv'
    BY ResourceSet, BeforeFirst, SyncerBefore DEF IInv, ThreadInv, Known, TypeOK, FailInv,
       Building, Leaving, HeldInv, HeldOf, Progress, Devices, loader, kernel, history,
       RegisterBlkdev
  <1>8. ProcInv'
    BY ResourceSet, DevstatLast DEF IInv, ProcInv, Devstat, ProcParent, NvmDir, Root,
       TypeOK, Devices, loader, kernel, history, RegisterBlkdev
  <1>9. UnloadIsClean'
    BY ResourceSet DEF IInv, UnloadIsClean, TypeOK, Devices, loader, kernel, history,
       RegisterBlkdev
  <1> QED
    BY <1>1, <1>2, <1>3, <1>4, <1>5, <1>6, <1>7, <1>8, <1>9 DEF IInv

\* A refusal leaves the device as far as it got.
LEMMA Refusal_Step ==
    ASSUME IInv, NEW r \in Resources, Refuse(r)
    PROVE  IInv'
  <1>1. TypeOK'
    BY BoundAssumption, NvmTypeAssumption, ResourceSet DEF IInv, TypeOK, Places, Root,
       Devices, NoDevice, loader, kernel, history, Refuse
  <1>2. HeldInv'
    BY BoundAssumption, ResourceSet, BeforeFirst, SyncerBefore DEF IInv, HeldInv, HeldOf,
       Progress, Stopping, ListInv, TypeOK, Early, Building, Leaving, Devices, loader,
       kernel, history, Refuse
  <1>3. ListInv'
    BY BoundAssumption, ResourceSet DEF IInv, ListInv, TypeOK, Early, Building, FailInv,
       Leaving, Devices, loader, kernel, history, Refuse
  <1>4. AddedInv'
    BY ResourceSet DEF IInv, AddedInv, ListInv, FailInv, TypeOK, Early, Building, Leaving,
       Devices, loader, kernel, history, Refuse
  <1>5. FailInv'
    BY ResourceSet DEF IInv, FailInv, TypeOK, Building, Leaving, Forgotten, Devices, loader,
       kernel, history, Refuse
  <1>6. BlkdevInv'
    BY ResourceSet DEF IInv, BlkdevInv, Early, TypeOK, Devices, loader, kernel, history,
       Refuse
  <1>7. ThreadInv'
    BY ResourceSet, BeforeFirst, SyncerBefore DEF IInv, ThreadInv, Known, TypeOK, FailInv,
       Building, Leaving, HeldInv, HeldOf, Progress, Devices, loader, kernel, history,
       Refuse
  <1>8. ProcInv'
    BY ResourceSet, DevstatLast DEF IInv, ProcInv, Devstat, ProcParent, NvmDir, Root,
       TypeOK, Devices, loader, kernel, history, Refuse
  <1>9. UnloadIsClean'
    BY ResourceSet DEF IInv, UnloadIsClean, TypeOK, Devices, loader, kernel, history, Refuse
  <1> QED
    BY <1>1, <1>2, <1>3, <1>4, <1>5, <1>6, <1>7, <1>8, <1>9 DEF IInv

\* The error path drops the device.
LEMMA AllocFails_Step ==
    ASSUME IInv, AllocFails
    PROVE  IInv'
  <1>1. TypeOK'
    <2>1. (pc \in Places /\ num \in 0 .. MaxDevices /\ nvm_type \in {"highmem", "vmalloc"})'
      BY BoundAssumption, NvmTypeAssumption, ResourceSet DEF IInv, TypeOK, Places, Root,
         ListInv, Devices, NoDevice, loader, kernel, history, AllocFails
    <2>2. (dev \in 0 .. MaxDevices)'
      BY BoundAssumption, NvmTypeAssumption, ResourceSet DEF IInv, TypeOK, Places, Root,
         ListInv, Devices, NoDevice, loader, kernel, history, AllocFails
    <2>3. (held \in [Devices -> SUBSET Resources])'
      BY BoundAssumption, NvmTypeAssumption, ResourceSet DEF IInv, TypeOK, Places, Root,
         ListInv, Devices, NoDevice, loader, kernel, history, AllocFails
    <2>4. (listed \subseteq Devices /\ added \subseteq Devices)'
      BY BoundAssumption, NvmTypeAssumption, ResourceSet DEF IInv, TypeOK, Places, Root,
         ListInv, Devices, NoDevice, loader, kernel, history, AllocFails
    <2>5. (curr \in 0 .. 1 /\ maps \subseteq 0 .. MaxLoads)'
      BY BoundAssumption, NvmTypeAssumption, ResourceSet DEF IInv, TypeOK, Places, Root,
         ListInv, Devices, NoDevice, loader, kernel, history, AllocFails
    <2>6. (proc \subseteq {Root, "nvm"} \X {"nvm", "nvmstat", "nvmcfg"})'
      BY BoundAssumption, NvmTypeAssumption, ResourceSet DEF IInv, TypeOK, Places, Root,
         ListInv, Devices, NoDevice, loader, kernel, history, AllocFails
    <2>7. (devstats \subseteq {Root, "nvm"} \X Devices)'
      BY BoundAssumption, NvmTypeAssumption, ResourceSet DEF IInv, TypeOK, Places, Root,
         ListInv, Devices, NoDevice, loader, kernel, history, AllocFails
    <2>8. (proc_nvm \in BOOLEAN /\ blkdev \in BOOLEAN)'
      BY BoundAssumption, NvmTypeAssumption, ResourceSet DEF IInv, TypeOK, Places, Root,
         ListInv, Devices, NoDevice, loader, kernel, history, AllocFails
    <2>9. (thread \in [Devices -> {"none", "created", "run", "sleep"}] /\ stop \subseteq Devices)'
      BY BoundAssumption, NvmTypeAssumption, ResourceSet DEF IInv, TypeOK, Places, Root,
         ListInv, Devices, NoDevice, loader, kernel, history, AllocFails
    <2>10. (loads \in 0 .. MaxLoads)'
      BY BoundAssumption, NvmTypeAssumption, ResourceSet DEF IInv, TypeOK, Places, Root,
         ListInv, Devices, NoDevice, loader, kernel, history, AllocFails
    <2>11. (failed \in {"none", "map", "blkdev"} \cup Resources)'
      BY BoundAssumption, NvmTypeAssumption, ResourceSet DEF IInv, TypeOK, Places, Root,
         ListInv, Devices, NoDevice, loader, kernel, history, AllocFails
    <2>12. (broken \in 0 .. MaxDevices /\ lost \subseteq Resources)'
      BY BoundAssumption, NvmTypeAssumption, ResourceSet DEF IInv, TypeOK, Places, Root,
         ListInv, Devices, NoDevice, loader, kernel, history, AllocFails
    <2> QED
      BY <2>1, <2>2, <2>3, <2>4, <2>5, <2>6, <2>7, <2>8, <2>9, <2>10, <2>11, <2>12 DEF
         TypeOK
  <1>2. HeldInv'
    <2> SUFFICES ASSUME NEW d \in Devices PROVE HeldOf(d)'
      BY DEF HeldInv
    <2>1. CASE d = dev
      BY <2>1, BoundAssumption, ResourceSet, BeforeFirst, SyncerBefore DEF IInv, HeldInv,
         HeldOf, Progress, Stopping, ListInv, TypeOK, Early, Building, Leaving, Devices,
         loader, kernel, history, AllocFails
    <2>2. CASE d # dev
      BY <2>2, BoundAssumption, ResourceSet, BeforeFirst, SyncerBefore DEF IInv, HeldInv,
         HeldOf, Progress, Stopping, ListInv, TypeOK, Early, Building, Leaving, Devices,
         loader, kernel, history, AllocFails
    <2> QED
      BY <2>1, <2>2
  <1>3. ListInv'
    BY BoundAssumption, ResourceSet DEF IInv, ListInv, TypeOK, Early, Building, FailInv,
       Leaving, Devices, loader, kernel, history, AllocFails
  <1>4. AddedInv'
    BY ResourceSet DEF IInv, AddedInv, ListInv, FailInv, TypeOK, Early, Building, Leaving,
       Devices, loader, kernel, history, AllocFails
  <1>5. FailInv'
    BY ResourceSet, BeforeFirst, BeforeNext DEF IInv, FailInv, TypeOK, Building, Leaving,
       Forgotten, HeldInv, HeldOf, Progress, ListInv, Early, Released, Devices, loader,
       kernel, history, AllocFails
  <1>6. BlkdevInv'
    BY ResourceSet DEF IInv, BlkdevInv, Early, TypeOK, Devices, loader, kernel, history,
       AllocFails
  <1>7. ThreadInv'
    BY ResourceSet, BeforeFirst, SyncerBefore DEF IInv, ThreadInv, Known, TypeOK, FailInv,
       Building, Leaving, HeldInv, HeldOf, Progress, ListInv, Devices, loader, kernel,
       history, AllocFails
  <1>8. ProcInv'
    BY ResourceSet, DevstatLast DEF IInv, ProcInv, Devstat, ProcParent, NvmDir, Root,
       TypeOK, HeldInv, HeldOf, Progress, FailInv, ListInv, Early, Building, Leaving,
       Devices, loader, kernel, history, AllocFails
  <1>9. UnloadIsClean'
    BY ResourceSet DEF IInv, UnloadIsClean, TypeOK, Devices, loader, kernel, history,
       AllocFails
  <1> QED
    BY <1>1, <1>2, <1>3, <1>4, <1>5, <1>6, <1>7, <1>8, <1>9 DEF IInv

\* A listed device is whole.
LEMMA ListAdd_Step ==
    ASSUME IInv, ListAdd
    PROVE  IInv'
  <1>1. TypeOK'
    <2>1. (pc \in Places /\ num \in 0 .. MaxDevices /\ nvm_type \in {"highmem", "vmalloc"})'
      BY BoundAssumption, NvmTypeAssumption, ResourceSet DEF IInv, TypeOK, Places, Root,
         ListInv, Building, Devices, NoDevice, loader, kernel, history, ListAdd
    <2>2. (dev \in 0 .. MaxDevices)'
      BY BoundAssumption, NvmTypeAssumption, ResourceSet DEF IInv, TypeOK, Places, Root,
         ListInv, Building, Devices, NoDevice, loader, kernel, history, ListAdd
    <2>3. (held \in [Devices -> SUBSET Resources])'
      BY BoundAssumption, NvmTypeAssumption, ResourceSet DEF IInv, TypeOK, Places, Root,
         ListInv, Building, Devices, NoDevice, loader, kernel, history, ListAdd
    <2>4. (listed \subseteq Devices /\ added \subseteq Devices)'
      BY BoundAssumption, NvmTypeAssumption, ResourceSet DEF IInv, TypeOK, Places, Root,
         ListInv, Building, Devices, NoDevice, loader, kernel, history, ListAdd
    <2>5. (curr \in 0 .. 1 /\ maps \subseteq 0 .. MaxLoads)'
      BY BoundAssumption, NvmTypeAssumption, ResourceSet DEF IInv, TypeOK, Places, Root,
         ListInv, Building, Devices, NoDevice, loader, kernel, history, ListAdd
    <2>6. (proc \subseteq {Root, "nvm"} \X {"nvm", "nvmstat", "nvmcfg"})'
      BY BoundAssumption, NvmTypeAssumption, ResourceSet DEF IInv, TypeOK, Places, Root,
         ListInv, Building, Devices, NoDevice, loader, kernel, history, ListAdd
    <2>7. (devstats \subseteq {Root, "nvm"} \X Devices)'
      BY BoundAssumption, NvmTypeAssumption, ResourceSet DEF IInv, TypeOK, Places, Root,
         ListInv, Building, Devices, NoDevice, loader, kernel, history, ListAdd
    <2>8. (proc_nvm \in BOOLEAN /\ blkdev \in BOOLEAN)'
      BY BoundAssumption, NvmTypeAssumption, ResourceSet DEF IInv, TypeOK, Places, Root,
         ListInv, Building, Devices, NoDevice, loader, kernel, history, ListAdd
    <2>9. (thread \in [Devices -> {"none", "created", "run", "sleep"}] /\ stop \subseteq Devices)'
      BY BoundAssumption, NvmTypeAssumption, ResourceSet DEF IInv, TypeOK, Places, Root,
         ListInv, Building, Devices, NoDevice, loader, kernel, history, ListAdd
    <2>10. (loads \in 0 .. MaxLoads)'
      BY BoundAssumption, NvmTypeAssumption, ResourceSet DEF IInv, TypeOK, Places, Root,
         ListInv, Building, Devices, NoDevice, loader, kernel, history, ListAdd
    <2>11. (failed \in {"none", "map", "blkdev"} \cup Resources)'
      BY BoundAssumption, NvmTypeAssumption, ResourceSet DEF IInv, TypeOK, Places, Root,
         ListInv, Building, Devices, NoDevice, loader, kernel, history, ListAdd
    <2>12. (broken \in 0 .. MaxDevices /\ lost \subseteq Resources)'
      BY BoundAssumption, NvmTypeAssumption, ResourceSet DEF IInv, TypeOK, Places, Root,
         ListInv, Building, Devices, NoDevice, loader, kernel, history, ListAdd
    <2> QED
      BY <2>1, <2>2, <2>3, <2>4, <2>5, <2>6, <2>7, <2>8, <2>9, <2>10, <2>11, <2>12 DEF
         TypeOK
  <1>2. HeldInv'
    BY BoundAssumption, ResourceSet, BeforeFirst, SyncerBefore DEF IInv, HeldInv, HeldOf,
       Progress, Stopping, ListInv, TypeOK, Early, Building, Leaving, Devices, loader,
       kernel, history, ListAdd
  <1>3. ListInv'
    BY BoundAssumption, ResourceSet DEF IInv, ListInv, TypeOK, Early, Building, FailInv,
       Leaving, Devices, loader, kernel, history, ListAdd
  <1>4. AddedInv'
    BY ResourceSet DEF IInv, AddedInv, ListInv, FailInv, TypeOK, Early, Building, Leaving,
       Devices, loader, kernel, history, ListAdd
  <1>5. FailInv'
    BY ResourceSet DEF IInv, FailInv, TypeOK, Building, Leaving, Forgotten, Devices, loader,
       kernel, history, ListAdd
  <1>6. BlkdevInv'
    BY ResourceSet DEF IInv, BlkdevInv, Early, TypeOK, Devices, loader, kernel, history,
       ListAdd
  <1>7. ThreadInv'
    BY ResourceSet, BeforeFirst, SyncerBefore DEF IInv, ThreadInv, Known, TypeOK, FailInv,
       Building, Leaving, HeldInv, HeldOf, Progress, Devices, loader, kernel, history,
       ListAdd
  <1>8. ProcInv'
    BY ResourceSet, DevstatLast DEF IInv, ProcInv, Devstat, ProcParent, NvmDir, Root,
       TypeOK, Devices, loader, kernel, history, ListAdd
  <1>9. UnloadIsClean'
    BY ResourceSet DEF IInv, UnloadIsClean, TypeOK, Devices, loader, kernel, history,
       ListAdd
  <1> QED
    BY <1>1, <1>2, <1>3, <1>4, <1>5, <1>6, <1>7, <1>8, <1>9 DEF IInv

\* Only listed devices are added.
LEMMA AddDisk_Step ==
    ASSUME IInv, AddDisk
    PROVE  IInv'
  <1>1. TypeOK'
    BY BoundAssumption, NvmTypeAssumption, ResourceSet DEF IInv, TypeOK, Places, Root,
       Devices, NoDevice, loader, kernel, history, AddDisk, IsFirst
  <1>2. HeldInv'
    BY BoundAssumption, ResourceSet, BeforeFirst, SyncerBefore DEF IInv, HeldInv, HeldOf,
       Progress, Stopping, ListInv, TypeOK, Early, Building, Leaving, Devices, loader,
       kernel, history, AddDisk, IsFirst
  <1>3. ListInv'
    BY BoundAssumption, ResourceSet DEF IInv, ListInv, TypeOK, Early, Building, FailInv,
       Leaving, Devices, loader, kernel, history, AddDisk, IsFirst
  <1>4. AddedInv'
    BY ResourceSet DEF IInv, AddedInv, ListInv, FailInv, TypeOK, Early, Building, Leaving,
       Devices, loader, kernel, history, AddDisk, IsFirst
  <1>5. FailInv'
    BY ResourceSet DEF IInv, FailInv, TypeOK, Building, Leaving, Forgotten, Devices, loader,
       kernel, history, AddDisk, IsFirst
  <1>6. BlkdevInv'
    BY ResourceSet DEF IInv, BlkdevInv, Early, TypeOK, Devices, loader, kernel, history,
       AddDisk, IsFirst
  <1>7. ThreadInv'
    BY ResourceSet, BeforeFirst, SyncerBefore DEF IInv, ThreadInv, Known, TypeOK, FailInv,
       Building, Leaving, HeldInv, HeldOf, Progress, Devices, loader, kernel, history,
       AddDisk, IsFirst
  <1>8. ProcInv'
    BY ResourceSet, DevstatLast DEF IInv, ProcInv, Devstat, ProcParent, NvmDir, Root,
       TypeOK, Devices, loader, kernel, history, AddDisk, IsFirst
  <1>9. UnloadIsClean'
    BY ResourceSet DEF IInv, UnloadIsClean, TypeOK, Devices, loader, kernel, history,
       AddDisk, IsFirst
  <1> QED
    BY <1>1, <1>2, <1>3, <1>4, <1>5, <1>6, <1>7, <1>8, <1>9 DEF IInv

\* rmmod begins with every device listed.
LEMMA Rmmod_Step ==
    ASSUME IInv, Rmmod
    PROVE  IInv'
  <1>1. TypeOK'
    BY BoundAssumption, NvmTypeAssumption, ResourceSet DEF IInv, TypeOK, Places, Root,
       Devices, NoDevice, loader, kernel, history, Rmmod
  <1>2. HeldInv'
    BY BoundAssumption, ResourceSet, BeforeFirst, SyncerBefore DEF IInv, HeldInv, HeldOf,
       Progress, Stopping, ListInv, TypeOK, Early, Building, Leaving, Devices, loader,
       kernel, history, Rmmod
  <1>3. ListInv'
    BY BoundAssumption, ResourceSet DEF IInv, ListInv, TypeOK, Early, Building, FailInv,
       Leaving, Devices, loader, kernel, history, Rmmod
  <1>4. AddedInv'
    BY ResourceSet DEF IInv, AddedInv, ListInv, FailInv, TypeOK, Early, Building, Leaving,
       Devices, loader, kernel, history, Rmmod
  <1>5. FailInv'
    BY ResourceSet DEF IInv, FailInv, TypeOK, Building, Leaving, Forgotten, Devices, loader,
       kernel, history, Rmmod
  <1>6. BlkdevInv'
    BY ResourceSet DEF IInv, BlkdevInv, Early, TypeOK, Devices, loader, kernel, history,
       Rmmod
  <1>7. ThreadInv'
    BY ResourceSet, BeforeFirst, SyncerBefore DEF IInv, ThreadInv, Known, TypeOK, FailInv,
       Building, Leaving, HeldInv, HeldOf, Progress, Devices, loader, kernel, history, Rmmod
  <1>8. ProcInv'
    BY ResourceSet, DevstatLast DEF IInv, ProcInv, Devstat, ProcParent, NvmDir, Root,
       TypeOK, Devices, loader, kernel, history, Rmmod
  <1>9. UnloadIsClean'
    BY ResourceSet DEF IInv, UnloadIsClean, TypeOK, Devices, loader, kernel, history, Rmmod
  <1> QED
    BY <1>1, <1>2, <1>3, <1>4, <1>5, <1>6, <1>7, <1>8, <1>9 DEF IInv

\* A device that is taken down is neither listed nor added.
LEMMA FreeDevice_Step ==
    ASSUME IInv, NEW d \in Devices, FreeDevice(d)
    PROVE  IInv'
  <1>1. TypeOK'
    BY BoundAssumption, NvmTypeAssumption, ResourceSet DEF IInv, TypeOK, Places, Root,
       Devices, NoDevice, loader, kernel, history, FreeDevice, IsFirst, DelGendisk
  <1>2. HeldInv'
    BY BoundAssumption, ResourceSet, BeforeFirst, SyncerBefore DEF IInv, HeldInv, HeldOf,
       Progress, Stopping, ListInv, TypeOK, Early, Building, Leaving, Devices, loader,
       kernel, history, FreeDevice, IsFirst, DelGendisk
  <1>3. ListInv'
    BY BoundAssumption, ResourceSet DEF IInv, ListInv, TypeOK, Early, Building, FailInv,
       Leaving, Devices, loader, kernel, history, FreeDevice, IsFirst, DelGendisk
  <1>4. AddedInv'
    BY ResourceSet DEF IInv, AddedInv, ListInv, FailInv, TypeOK, Early, Building, Leaving,
       Devices, loader, kernel, history, FreeDevice, IsFirst, DelGendisk
  <1>5. FailInv'
    BY ResourceSet DEF IInv, FailInv, TypeOK, Building, Leaving, Forgotten, Devices, loader,
       kernel, history, FreeDevice, IsFirst, DelGendisk
  <1>6. BlkdevInv'
    BY ResourceSet DEF IInv, BlkdevInv, Early, TypeOK, Devices, loader, kernel, history,
       FreeDevice, IsFirst, DelGendisk
  <1>7. ThreadInv'
    BY ResourceSet, BeforeFirst, SyncerBefore DEF IInv, ThreadInv, Known, TypeOK, FailInv,
       Building, Leaving, HeldInv, HeldOf, Progress, Devices, loader, kernel, history,
       FreeDevice, IsFirst, DelGendisk
  <1>8. ProcInv'
    BY ResourceSet, DevstatLast DEF IInv, ProcInv, Devstat, ProcParent, NvmDir, Root,
       TypeOK, Devices, loader, kernel, history, FreeDevice, IsFirst, DelGendisk
  <1>9. UnloadIsClean'
    BY ResourceSet DEF IInv, UnloadIsClean, TypeOK, Devices, loader, kernel, history,
       FreeDevice, IsFirst, DelGendisk
  <1> QED
    BY <1>1, <1>2, <1>3, <1>4, <1>5, <1>6, <1>7, <1>8, <1>9 DEF IInv

\* When kthread_stop returns the thread is gone.
LEMMA SyncerStop_Step ==
    ASSUME IInv, SyncerStop
    PROVE  IInv'
  <1>1. TypeOK'
    BY BoundAssumption, NvmTypeAssumption, ResourceSet DEF IInv, TypeOK, Places, Root,
       Devices, NoDevice, loader, kernel, history, SyncerStop, SyncerEnded
  <1>2. HeldInv'
    <2> SUFFICES ASSUME NEW d \in Devices PROVE HeldOf(d)'
      BY DEF HeldInv
    <2>1. CASE d = dev
      BY <2>1, BoundAssumption, ResourceSet, BeforeFirst, SyncerBefore DEF IInv, HeldInv,
         HeldOf, Progress, Stopping, ListInv, TypeOK, Early, Building, Leaving, Devices,
         loader, kernel, history, SyncerStop, SyncerEnded
    <2>2. CASE d # dev
      BY <2>2, BoundAssumption, ResourceSet, BeforeFirst, SyncerBefore DEF IInv, HeldInv,
         HeldOf, Progress, Stopping, ListInv, TypeOK, Early, Building, Leaving, Devices,
         loader, kernel, history, SyncerStop, SyncerEnded
    <2> QED
      BY <2>1, <2>2
  <1>3. ListInv'
    BY BoundAssumption, ResourceSet DEF IInv, ListInv, TypeOK, Early, Building, FailInv,
       Leaving, Devices, loader, kernel, history, SyncerStop, SyncerEnded
  <1>4. AddedInv'
    BY ResourceSet DEF IInv, AddedInv, ListInv, FailInv, TypeOK, Early, Building, Leaving,
       Devices, loader, kernel, history, SyncerStop, SyncerEnded
  <1>5. FailInv'
    BY ResourceSet DEF IInv, FailInv, TypeOK, Building, Leaving, Forgotten, Devices, loader,
       kernel, history, SyncerStop, SyncerEnded
  <1>6. BlkdevInv'
    BY ResourceSet DEF IInv, BlkdevInv, Early, TypeOK, Devices, loader, kernel, history,
       SyncerStop, SyncerEnded
  <1>7. ThreadInv'
    BY ResourceSet, BeforeFirst, SyncerBefore DEF IInv, ThreadInv, Known, TypeOK, FailInv,
       Building, Leaving, HeldInv, HeldOf, Progress, Devices, loader, kernel, history,
       SyncerStop, SyncerEnded
  <1>8. ProcInv'
    BY ResourceSet, DevstatLast DEF IInv, ProcInv, Devstat, ProcParent, NvmDir, Root,
       TypeOK, Devices, loader, kernel, history, SyncerStop, SyncerEnded
  <1>9. UnloadIsClean'
    BY ResourceSet DEF IInv, UnloadIsClean, TypeOK, Devices, loader, kernel, history,
       SyncerStop, SyncerEnded
  <1> QED
    BY <1>1, <1>2, <1>3, <1>4, <1>5, <1>6, <1>7, <1>8, <1>9 DEF IInv

\* nvm_destroy frees what is left.
LEMMA DestroyDevice_Step ==
    ASSUME IInv, DestroyDevice
    PROVE  IInv'
  <1>1. TypeOK'
    BY BoundAssumption, NvmTypeAssumption, ResourceSet DEF IInv, TypeOK, Places, Root,
       Devices, NoDevice, loader, kernel, history, DestroyDevice, Destroyed
  <1>2. HeldInv'
    <2> SUFFICES ASSUME NEW d \in Devices PROVE HeldOf(d)'
      BY DEF HeldInv
    <2>1. CASE d = dev
      BY <2>1, BoundAssumption, ResourceSet, BeforeFirst, SyncerBefore DEF IInv, HeldInv,
         HeldOf, Progress, Stopping, ListInv, TypeOK, Early, Building, Leaving, Devices,
         loader, kernel, history, DestroyDevice, Destroyed
    <2>2. CASE d # dev
      BY <2>2, BoundAssumption, ResourceSet, BeforeFirst, SyncerBefore DEF IInv, HeldInv,
         HeldOf, Progress, Stopping, ListInv, TypeOK, Early, Building, Leaving, Devices,
         loader, kernel, history, DestroyDevice, Destroyed
    <2> QED
      BY <2>1, <2>2
  <1>3. ListInv'
    BY BoundAssumption, ResourceSet DEF IInv, ListInv, TypeOK, Early, Building, FailInv,
       Leaving, Devices, loader, kernel, history, DestroyDevice, Destroyed
  <1>4. AddedInv'
    BY ResourceSet DEF IInv, AddedInv, ListInv, FailInv, TypeOK, Early, Building, Leaving,
       Devices, loader, kernel, history, DestroyDevice, Destroyed
  <1>5. FailInv'
    BY ResourceSet DEF IInv, FailInv, TypeOK, Building, Leaving, Forgotten, Devices, loader,
       kernel, history, DestroyDevice, Destroyed
  <1>6. BlkdevInv'
    BY ResourceSet DEF IInv, BlkdevInv, Early, TypeOK, Devices, loader, kernel, history,
       DestroyDevice, Destroyed
  <1>7. ThreadInv'
    BY ResourceSet, BeforeFirst, SyncerBefore DEF IInv, ThreadInv, Known, TypeOK, FailInv,
       Building, Leaving, HeldInv, HeldOf, Progress, Devices, loader, kernel, history,
       DestroyDevice, Destroyed
  <1>8. ProcInv'
    BY ResourceSet, DevstatLast DEF IInv, ProcInv, Devstat, ProcParent, NvmDir, Root,
       TypeOK, Devices, loader, kernel, history, DestroyDevice, Destroyed
  <1>9. UnloadIsClean'
    BY ResourceSet DEF IInv, UnloadIsClean, TypeOK, Devices, loader, kernel, history,
       DestroyDevice, Destroyed
  <1> QED
    BY <1>1, <1>2, <1>3, <1>4, <1>5, <1>6, <1>7, <1>8, <1>9 DEF IInv

\* The end of nvm_exit.
LEMMA ExitEnds_Step ==
    ASSUME IInv, ExitEnds
    PROVE  IInv'
  <1>1. TypeOK'
    BY BoundAssumption, NvmTypeAssumption, ResourceSet DEF IInv, TypeOK, Places, Root,
       Devices, NoDevice, loader, kernel, history, ExitEnds, ProcDestroyed, InDir
  <1>2. HeldInv'
    BY BoundAssumption, ResourceSet, BeforeFirst, SyncerBefore DEF IInv, HeldInv, HeldOf,
       Progress, Stopping, ListInv, TypeOK, Early, Building, Leaving, Devices, loader,
       kernel, history, ExitEnds, ProcDestroyed, InDir
  <1>3. ListInv'
    BY BoundAssumption, ResourceSet DEF IInv, ListInv, TypeOK, Early, Building, FailInv,
       Leaving, Devices, loader, kernel, history, ExitEnds, ProcDestroyed, InDir
  <1>4. AddedInv'
    BY ResourceSet DEF IInv, AddedInv, ListInv, FailInv, TypeOK, Early, Building, Leaving,
       Devices, loader, kernel, history, ExitEnds, ProcDestroyed, InDir
  <1>5. FailInv'
    BY ResourceSet DEF IInv, FailInv, TypeOK, Building, Leaving, Forgotten, Devices, loader,
       kernel, history, ExitEnds, ProcDestroyed, InDir
  <1>6. BlkdevInv'
    BY ResourceSet DEF IInv, BlkdevInv, Early, TypeOK, Devices, loader, kernel, history,
       ExitEnds, ProcDestroyed, InDir
  <1>7. ThreadInv'
    BY ResourceSet, BeforeFirst, SyncerBefore DEF IInv, ThreadInv, Known, TypeOK, FailInv,
       Building, Leaving, HeldInv, HeldOf, Progress, Devices, loader, kernel, history,
       ExitEnds, ProcDestroyed, InDir
  <1>8. ProcInv'
    BY ResourceSet, DevstatLast DEF IInv, ProcInv, Devstat, ProcParent, NvmDir, Root,
       TypeOK, Devices, loader, kernel, history, ExitEnds, ProcDestroyed, InDir
  <1>9. UnloadIsClean'
    BY ResourceSet DEF IInv, UnloadIsClean, TypeOK, HeldInv, HeldOf, Progress, FailInv,
       ListInv, Early, Building, Leaving, ThreadInv, Known, ProcInv, Devstat, ProcParent,
       NvmDir, Root, Stopping, Devices, loader, kernel, history, ExitEnds, ProcDestroyed,
       InDir
  <1> QED
    BY <1>1, <1>2, <1>3, <1>4, <1>5, <1>6, <1>7, <1>8, <1>9 DEF IInv

\* The end of a failed nvm_init.
LEMMA InitFails_Step ==
    ASSUME IInv, InitFails
    PROVE  IInv'
  <1>1. TypeOK'
    BY BoundAssumption, NvmTypeAssumption, ResourceSet DEF IInv, TypeOK, Places, Root,
       Devices, NoDevice, loader, kernel, history, InitFails
  <1>2. HeldInv'
    BY BoundAssumption, ResourceSet, BeforeFirst, SyncerBefore DEF IInv, HeldInv, HeldOf,
       Progress, Stopping, ListInv, TypeOK, Early, Building, Leaving, Devices, loader,
       kernel, history, InitFails
  <1>3. ListInv'
    BY BoundAssumption, ResourceSet DEF IInv, ListInv, TypeOK, Early, Building, FailInv,
       Leaving, Devices, loader, kernel, history, InitFails
  <1>4. AddedInv'
    BY ResourceSet DEF IInv, AddedInv, ListInv, FailInv, TypeOK, Early, Building, Leaving,
       Devices, loader, kernel, history, InitFails
  <1>5. FailInv'
    BY ResourceSet DEF IInv, FailInv, TypeOK, Building, Leaving, Forgotten, Devices, loader,
       kernel, history, InitFails
  <1>6. BlkdevInv'
    BY ResourceSet DEF IInv, BlkdevInv, Early, TypeOK, Devices, loader, kernel, history,
       InitFails
  <1>7. ThreadInv'
    BY ResourceSet, BeforeFirst, SyncerBefore DEF IInv, ThreadInv, Known, TypeOK, FailInv,
       Building, Leaving, HeldInv, HeldOf, Progress, Devices, loader, kernel, history,
       InitFails
  <1>8. ProcInv'
    BY ResourceSet, DevstatLast DEF IInv, ProcInv, Devstat, ProcParent, NvmDir, Root,
       TypeOK, Devices, loader, kernel, history, InitFails
  <1>9. UnloadIsClean'
    BY ResourceSet DEF IInv, UnloadIsClean, TypeOK, Devices, loader, kernel, history,
       InitFails
  <1> QED
    BY <1>1, <1>2, <1>3, <1>4, <1>5, <1>6, <1>7, <1>8, <1>9 DEF IInv

\* A thread changes nothing but its own place.
LEMMA Syncer_Step ==
    ASSUME IInv, NEW d \in Devices, Syncer(d)
    PROVE  IInv'
  <1>1. TypeOK'
    BY BoundAssumption, NvmTypeAssumption, ResourceSet DEF IInv, TypeOK, Places, Root,
       Devices, NoDevice, loader, kernel, history, Syncer, SyncerBegin, SyncerTest,
       SyncerWake
  <1>2. HeldInv'
    BY BoundAssumption, ResourceSet, BeforeFirst, SyncerBefore DEF IInv, HeldInv, HeldOf,
       Progress, Stopping, ListInv, TypeOK, Early, Building, Leaving, Devices, loader,
       kernel, history, Syncer, SyncerBegin, SyncerTest, SyncerWake
  <1>3. ListInv'
    BY BoundAssumption, ResourceSet DEF IInv, ListInv, TypeOK, Early, Building, FailInv,
       Leaving, Devices, loader, kernel, history, Syncer, SyncerBegin, SyncerTest,
       SyncerWake
  <1>4. AddedInv'
    BY ResourceSet DEF IInv, AddedInv, ListInv, FailInv, TypeOK, Early, Building, Leaving,
       Devices, loader, kernel, history, Syncer, SyncerBegin, SyncerTest, SyncerWake
  <1>5. FailInv'
    BY ResourceSet DEF IInv, FailInv, TypeOK, Building, Leaving, Forgotten, Devices, loader,
       kernel, history, Syncer, SyncerBegin, SyncerTest, SyncerWake
  <1>6. BlkdevInv'
    BY ResourceSet DEF IInv, BlkdevInv, Early, TypeOK, Devices, loader, kernel, history,
       Syncer, SyncerBegin, SyncerTest, SyncerWake
  <1>7. ThreadInv'
    BY ResourceSet, BeforeFirst, SyncerBefore DEF IInv, ThreadInv, Known, TypeOK, FailInv,
       Building, Leaving, HeldInv, HeldOf, Progress, Devices, loader, kernel, history,
       Syncer, SyncerBegin, SyncerTest, SyncerWake
  <1>8. ProcInv'
    BY ResourceSet, DevstatLast DEF IInv, ProcInv, Devstat, ProcParent, NvmDir, Root,
       TypeOK, Devices, loader, kernel, history, Syncer, SyncerBegin, SyncerTest, SyncerWake
  <1>9. UnloadIsClean'
    BY ResourceSet DEF IInv, UnloadIsClean, TypeOK, Devices, loader, kernel, history,
       Syncer, SyncerBegin, SyncerTest, SyncerWake
  <1> QED
    BY <1>1, <1>2, <1>3, <1>4, <1>5, <1>6, <1>7, <1>8, <1>9 DEF IInv

\* A resource more, in the order of nvm_alloc and nvm_create.
LEMMA Acquire_Step ==
    ASSUME IInv, NEW r \in Resources, NEW next \in Building, Acquire(r, next),
           \/ next \in Resources /\ Before(next) = Before(r) \cup {r}
           \/ next = "list" /\ Resources = Before(r) \cup {r},
           curr' \in 0 .. 1,
           \/ UNCHANGED devstats
           \/ r = "devstat" /\ devstats' = devstats \cup {Devstat(dev)},
           \/ UNCHANGED <<thread, stop>>
           \/ /\ r = "syncer" /\ stop' = stop \ {dev}
              /\ thread' = [thread EXCEPT ![dev] = "created"]
    PROVE  IInv'
  <1>1. TypeOK'
    <2>1. (pc \in Places /\ num \in 0 .. MaxDevices /\ nvm_type \in {"highmem", "vmalloc"})'
      BY BoundAssumption, NvmTypeAssumption, ResourceSet DEF IInv, TypeOK, Places, Root,
         ListInv, Building, Devstat, ProcParent, Devices, NoDevice, loader, kernel, history,
         Acquire
    <2>2. (dev \in 0 .. MaxDevices)'
      BY BoundAssumption, NvmTypeAssumption, ResourceSet DEF IInv, TypeOK, Places, Root,
         ListInv, Building, Devstat, ProcParent, Devices, NoDevice, loader, kernel, history,
         Acquire
    <2>3. (held \in [Devices -> SUBSET Resources])'
      BY BoundAssumption, NvmTypeAssumption, ResourceSet DEF IInv, TypeOK, Places, Root,
         ListInv, Building, Devstat, ProcParent, Devices, NoDevice, loader, kernel, history,
         Acquire
    <2>4. (listed \subseteq Devices /\ added \subseteq Devices)'
      BY BoundAssumption, NvmTypeAssumption, ResourceSet DEF IInv, TypeOK, Places, Root,
         ListInv, Building, Devstat, ProcParent, Devices, NoDevice, loader, kernel, history,
         Acquire
    <2>5. (curr \in 0 .. 1 /\ maps \subseteq 0 .. MaxLoads)'
      BY BoundAssumption, NvmTypeAssumption, ResourceSet DEF IInv, TypeOK, Places, Root,
         ListInv, Building, Devstat, ProcParent, Devices, NoDevice, loader, kernel, history,
         Acquire
    <2>6. (proc \subseteq {Root, "nvm"} \X {"nvm", "nvmstat", "nvmcfg"})'
      BY BoundAssumption, NvmTypeAssumption, ResourceSet DEF IInv, TypeOK, Places, Root,
         ListInv, Building, Devstat, ProcParent, Devices, NoDevice, loader, kernel, history,
         Acquire
    <2>7. (devstats \subseteq {Root, "nvm"} \X Devices)'
      BY BoundAssumption, NvmTypeAssumption, ResourceSet DEF IInv, TypeOK, Places, Root,
         ListInv, Building, Devstat, ProcParent, Devices, NoDevice, loader, kernel, history,
         Acquire
    <2>8. (proc_nvm \in BOOLEAN /\ blkdev \in BOOLEAN)'
      BY BoundAssumption, NvmTypeAssumption, ResourceSet DEF IInv, TypeOK, Places, Root,
         ListInv, Building, Devstat, ProcParent, Devices, NoDevice, loader, kernel, history,
         Acquire
    <2>9. (thread \in [Devices -> {"none", "created", "run", "sleep"}] /\ stop \subseteq Devices)'
      BY BoundAssumption, NvmTypeAssumption, ResourceSet DEF IInv, TypeOK, Places, Root,
         ListInv, Building, Devstat, ProcParent, Devices, NoDevice, loader, kernel, history,
         Acquire
    <2>10. (loads \in 0 .. MaxLoads)'
      BY BoundAssumption, NvmTypeAssumption, ResourceSet DEF IInv, TypeOK, Places, Root,
         ListInv, Building, Devstat, ProcParent, Devices, NoDevice, loader, kernel, history,
         Acquire
    <2>11. (failed \in {"none", "map", "blkdev"} \cup Resources)'
      BY BoundAssumption, NvmTypeAssumption, ResourceSet DEF IInv, TypeOK, Places, Root,
         ListInv, Building, Devstat, ProcParent, Devices, NoDevice, loader, kernel, history,
         Acquire
    <2>12. (broken \in 0 .. MaxDevices /\ lost \subseteq Resources)'
      BY BoundAssumption, NvmTypeAssumption, ResourceSet DEF IInv, TypeOK, Places, Root,
         ListInv, Building, Devstat, ProcParent, Devices, NoDevice, loader, kernel, history,
         Acquire
    <2> QED
      BY <2>1, <2>2, <2>3, <2>4, <2>5, <2>6, <2>7, <2>8, <2>9, <2>10, <2>11, <2>12 DEF
         TypeOK
  <1>2. HeldInv'
    <2> SUFFICES ASSUME NEW d \in Devices PROVE HeldOf(d)'
      BY DEF HeldInv
    <2>1. CASE d = dev
      BY <2>1, BoundAssumption, ResourceSet, BeforeFirst, SyncerBefore DEF IInv, HeldInv,
         HeldOf, Progress, Stopping, ListInv, TypeOK, Early, Building, Leaving, Devices,
         loader, kernel, history, Acquire
    <2>2. CASE d # dev
      BY <2>2, BoundAssumption, ResourceSet, BeforeFirst, SyncerBefore DEF IInv, HeldInv,
         HeldOf, Progress, Stopping, ListInv, TypeOK, Early, Building, Leaving, Devices,
         loader, kernel, history, Acquire
    <2> QED
      BY <2>1, <2>2
  <1>3. ListInv'
    BY BoundAssumption, ResourceSet DEF IInv, ListInv, TypeOK, Early, Building, FailInv,
       Leaving, Devices, loader, kernel, history, Acquire
  <1>4. AddedInv'
    BY ResourceSet DEF IInv, AddedInv, ListInv, FailInv, TypeOK, Early, Building, Leaving,
       Devices, loader, kernel, history, Acquire
  <1>5. FailInv'
    BY ResourceSet DEF IInv, FailInv, TypeOK, Building, Leaving, Forgotten, Devices, loader,
       kernel, history, Acquire
  <1>6. BlkdevInv'
    BY ResourceSet DEF IInv, BlkdevInv, Early, TypeOK, Devices, loader, kernel, history,
       Acquire
  <1>7. ThreadInv'
    BY ResourceSet, BeforeFirst, SyncerBefore DEF IInv, ThreadInv, Known, TypeOK, FailInv,
       Building, Leaving, HeldInv, HeldOf, Progress, Devices, loader, kernel, history,
       Acquire
  <1>8. ProcInv'
    BY ResourceSet, DevstatLast DEF IInv, ProcInv, Devstat, ProcParent, NvmDir, Root,
       TypeOK, Devices, loader, kernel, history, Acquire
  <1>9. UnloadIsClean'
    BY ResourceSet DEF IInv, UnloadIsClean, TypeOK, Devices, loader, kernel, history,
       Acquire
  <1> QED
    BY <1>1, <1>2, <1>3, <1>4, <1>5, <1>6, <1>7, <1>8, <1>9 DEF IInv

\* Each allocation of nvm_alloc and nvm_create is such a step.
LEMMA Build_Step ==
    ASSUME IInv, Build
    PROVE  IInv'
  <1>1. CASE AllocDevice
    <2>1. Acquire("device", "queue") /\ curr' \in 0 .. 1
      BY <1>1 DEF AllocDevice, IInv, TypeOK, HighmemAvailable
    <2> QED
      BY <1>1, <2>1, Acquire_Step, BeforeNext, ResourceSet DEF AllocDevice, Building
  <1>2. CASE AllocQueue
    <2>1. Acquire("queue", "disk") /\ curr' \in 0 .. 1
      BY <1>2 DEF AllocQueue, IInv, TypeOK, HighmemAvailable
    <2> QED
      BY <1>2, <2>1, Acquire_Step, BeforeNext, ResourceSet DEF AllocQueue, Building
  <1>3. CASE AllocDisk
    <2>1. Acquire("disk", "stat") /\ curr' \in 0 .. 1
      BY <1>3 DEF AllocDisk, IInv, TypeOK, HighmemAvailable
    <2> QED
      BY <1>3, <2>1, Acquire_Step, BeforeNext, ResourceSet DEF AllocDisk, Building
  <1>4. CASE StatAlloc
    <2>1. Acquire("stat", "data") /\ curr' \in 0 .. 1
      BY <1>4 DEF StatAlloc, IInv, TypeOK, HighmemAvailable
    <2> QED
      BY <1>4, <2>1, Acquire_Step, BeforeNext, ResourceSet DEF StatAlloc, Building
  <1>5. CASE MemSpaceAlloc
    <2>1. Acquire("data", "MapTable") /\ curr' \in 0 .. 1
      BY <1>5 DEF MemSpaceAlloc, IInv, TypeOK, HighmemAvailable
    <2> QED
      BY <1>5, <2>1, Acquire_Step, BeforeNext, ResourceSet DEF MemSpaceAlloc, Building
  <1>6. CASE SyncerInit
    <2>1. Acquire("syncer", "devstat") /\ curr' \in 0 .. 1
      BY <1>6 DEF SyncerInit, IInv, TypeOK, HighmemAvailable
    <2> QED
      BY <1>6, <2>1, Acquire_Step, BeforeNext, ResourceSet DEF SyncerInit, Building
  <1>7. CASE ProcDevstatCreate
    <2>1. Acquire("devstat", "list") /\ curr' \in 0 .. 1
      BY <1>7 DEF ProcDevstatCreate, IInv, TypeOK, HighmemAvailable
    <2> QED
      BY <1>7, <2>1, Acquire_Step, BeforeNext, ResourceSet DEF ProcDevstatCreate, Building
  <1>8. CASE PbiSpaceAlloc
    <2>1. curr' \in 0 .. 1 /\ UNCHANGED <<devstats, thread, stop>>
      BY <1>8 DEF PbiSpaceAlloc, IInv, TypeOK
    <2>2. CASE Acquire("MapTable", "BitMap")
      BY <2>1, <2>2, Acquire_Step, BeforeNext, ResourceSet DEF Building
    <2>3. CASE Acquire("BitMap", "InfoTable")
      BY <2>1, <2>3, Acquire_Step, BeforeNext, ResourceSet DEF Building
    <2>4. CASE Acquire("InfoTable", "syncer")
      BY <2>1, <2>4, Acquire_Step, BeforeNext, ResourceSet DEF Building
    <2> QED
      BY <1>8, <2>2, <2>3, <2>4 DEF PbiSpaceAlloc
  <1> QED
    BY <1>1, <1>2, <1>3, <1>4, <1>5, <1>6, <1>7, <1>8, Refusal_Step, AllocFails_Step DEF
       Build

\* The invariant holds at first and in every step.
LEMMA Initially == Init => IInv
  <1> SUFFICES ASSUME Init PROVE IInv
    OBVIOUS
  <1>1. TypeOK
    <2>1. held \in [Devices -> SUBSET Resources]
      BY DEF Init
    <2>2. thread \in [Devices -> {"none", "created", "run", "sleep"}]
      BY DEF Init
    <2>3. proc_nvm \in BOOLEAN /\ blkdev \in BOOLEAN
      BY DEF Init
    <2> QED
      BY BoundAssumption, <2>1, <2>2, <2>3 DEF Init, TypeOK, Places, NoDevice
  <1>2. HeldInv /\ ListInv /\ BlkdevInv
    BY BoundAssumption, ResourceSet DEF Init, HeldInv, HeldOf, Progress, ListInv, BlkdevInv,
       Early,
       Building
  <1>3. AddedInv /\ FailInv
    BY ResourceSet DEF Init, AddedInv, FailInv, Building, Leaving, Forgotten
  <1>4. ThreadInv /\ ProcInv /\ UnloadIsClean
    BY DEF Init, ThreadInv, ProcInv, UnloadIsClean
  <1> QED
    BY <1>1, <1>2, <1>3, <1>4 DEF IInv

LEMMA Preserved == IInv /\ [Next]_vars => IInv'
  <1> SUFFICES ASSUME IInv, [Next]_vars PROVE IInv'
    OBVIOUS
  <1>1. CASE Insmod
    BY <1>1, Insmod_Step
  <1>2. CASE Load
    BY <1>2, HighmemMap_Step, ProcCreate_Step, RegisterBlkdev_Step, ListAdd_Step,
       AddDisk_Step DEF Load
  <1>3. CASE Build
    BY <1>3, Build_Step
  <1>4. CASE Rmmod
    BY <1>4, Rmmod_Step
  <1>5. CASE Unload
    BY <1>5, FreeDevice_Step, SyncerStop_Step, DestroyDevice_Step, ExitEnds_Step,
       InitFails_Step DEF Unload
  <1>6. CASE \E d \in Devices : Syncer(d)
    BY <1>6, Syncer_Step
  <1>7. CASE UNCHANGED vars
    BY <1>7 DEF IInv, TypeOK, HeldInv, HeldOf, Progress, ListInv, AddedInv, FailInv,
       BlkdevInv, ThreadInv, Known, ProcInv, UnloadIsClean, vars, loader, kernel, history
  <1> QED
    BY <1>1, <1>2, <1>3, <1>4, <1>5, <1>6, <1>7 DEF Next

LEMMA Invariant == Spec => []IInv
  BY Initially, Preserved, PTL DEF Spec

\* Every variable keeps its type: the high memory is handed out once.
THEOREM LifecycleTypes == Spec => []TypeOK
  <1>1. IInv => TypeOK
    BY DEF IInv
  <1> QED
    BY <1>1, Invariant, PTL

\* nvm_make_request only ever meets devices that have all their parts.
THEOREM AddedAreWhole == Spec => []AddedDevicesWhole
  <1>1. IInv => AddedDevicesWhole
    BY DEF IInv, AddedInv, HeldInv, HeldOf, TypeOK, AddedDevicesWhole
  <1> QED
    BY <1>1, Invariant, PTL

\* A syncer runs on a live device, but for a failure of the last step of
\* nvm_create: the thread is listed as part of its device until
\* kthread_stop has returned.
THEOREM SyncersAreLive == Spec => []SyncerOnLiveDevice
  <1>1. ASSUME IInv, NEW d \in Devices, "syncer" \in held[d]
        PROVE  {"device", "stat"} \subseteq held[d]
    BY <1>1, SyncerBefore, ResourceSet DEF IInv, HeldInv, HeldOf, Progress, Stopping,
       FailInv
  <1>2. IInv => SyncerOnLiveDevice
    BY <1>1 DEF IInv, ThreadInv, Known, SyncerOnLiveDevice
  <1> QED
    BY <1>2, Invariant, PTL

\* What a module leaves allocated is what nvm_alloc's error path forgets.
THEOREM LeavesExactly == Spec => []LostExactly
  <1>1. IInv => LostExactly
    BY ResourceSet DEF IInv, FailInv, Leaving, BlkdevInv, Early, HeldInv, HeldOf, ListInv,
       Progress,
       LostExactly
  <1> QED
    BY <1>1, Invariant, PTL

\* After an rmmod nothing of the module is left, whatever failed before.
THEOREM UnloadsClean == Spec => []UnloadIsClean
  <1>1. IInv => UnloadIsClean
    BY DEF IInv
  <1> QED
    BY <1>1, Invariant, PTL
=============================================================================
