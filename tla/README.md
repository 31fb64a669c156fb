# A verification project for OperatingSystemAndCompiler

The repository holds coursework and driver experiments, in C and a little Python. Its own core
logic lies in three places: a blocking FIFO character device with wait queues and asynchronous notification
(`src/drivers/tdlcd/`), a simulated NVM block device whose request path shares tables with a
background thread (`src/drivers/NVMSIM/`), and a process and resource manager behind a test shell
(`src/qinke/tShell-Procss-Lab/`). These are modelled in most detail. The smaller programs of the same author are
modelled too: the wear levelling, two smaller drivers, two threading exercises, the sorts, and
the scanner and parser of a Pascal subset. Vendored code, code copied from a driver book,
benchmarks and scripts are left aside.

TLA+ module names are those of the program parts; variables, operations and constants keep the
names of the C source where TLA+ allows.

## 1. Inventory

| Component | State | Operations | What is hard | What makes it correct |
|---|---|---|---|---|
| FIFO device, `tdlcd_fifo.c` | `mem`, `current_len`, `mutex`, `r_wait`, `w_wait`, `async_queue` per minor | read, write, ioctl(clear), poll, fasync, release | sleeping outside the mutex between the test and `schedule()`; signals and SIGIO while asleep; a clear that wakes nobody; overlapping `memcpy` | no lost wake-up; a call is atomic or without effect; nothing of a call is left behind |
| NVMSIM request path, `ramdevice.c` with `bitmap.h`, `maptable.c`, `infotable.c` | the data, `BitMap`, `MapTable`, `InfoTable`, `nvm_stat`, `syncer_lock` | `nvm_make_request`, `nvm_do_bvec`, `write_helper`, the copies | concurrent requests without a queue; data copied under no lock; inclusive page range; the early exit that skips assignments | data only in mapped sectors; tables agree; no lost count; it is a disk |
| NVMSIM syncer thread | `last_access_jiffies`, the thread | loop, idle test, stop | 32-bit time, sleep of ten seconds, stop | it stops when asked, and is idle when it says so |
| NVMSIM lifecycle | device list, high memory, `/proc`, gendisk, thread | module init and exit, `nvm_alloc`, `nvm_create`, `nvm_free` | failure at every step; a thread that outlives its device; tables of fixed size | all that was allocated is released once; no thread uses a freed device |
| NVMSIM wear levelling, `syncer.c`, `bitmap.c`, `test/check/` | the three tables | `query_bitmap`, `bigK_index`, `smallK_index`, extraction, `exchange_pbi`, `wear_level` | long sequences of exchanges; 0 as "not found" and as a block | the mapping stays one to one; the chosen pages are the most worn |
| Test shell, `tShell.c` | PCBs, ready lists, resources, waiting lists, running process | cr, de, req, rel, to | long command sequences; entries removed by name; waiters and units returned by somebody else's death | highest level runs; units conserved; nobody lost; turns within a level |
| `process-lab/Shell.c` | the same, earlier | the same | stops at its first scheduling | none |
| `pc.c`, `philo.c` | semaphores, ring, chopsticks | producer, consumer, philosopher | interleaving, deadlock | bounded, in order; everybody eats |
| first tdlcd, `ch6/tdlcd.c` | memory, mutex, file positions | read, write, clear, llseek | a return with the mutex held; faulting copies; position read and clipped outside the mutex | calls are whole; calls return |
| RAM disks, `tdlbd.c` | data, queue and gendisk of each disk; bios | load, unload, request, transfer | parts refused on load; removal under running bios; freed twice; segments of different lengths | sectors land where asked; data outlives bios; all is released |
| sorts, `Sort/sort.c` | the array, the ranges still to sort | insertion sort, quicksort | boundaries, equal keys | a sorted rearrangement |
| compiler in Python, `lab-py/` | scanner: word and state; parser: call stack, look-ahead, tables | one character; one procedure | state left from earlier words; recovery after a missing token | the longest words are found; exactly the programs pass |
| compiler in C, `parser_lex/` | the same, earlier | the same | does not build | - |
| globalfifo, globalmem, `second.c`, `vmem_disk.c` | the driver book's devices | - | - | not modelled, see section 7 |
| samples, scripts, `csapp.c`, `nvm-ref/`, LDD examples, benchmarks | - | - | - | not modelled, see section 7 |

How they interact. The FIFO device meets the kernel: `struct mutex`, the wait queues, the
scheduler and the signal machinery; its threads meet only through `dev`. In NVMSIM the block layer
calls `nvm_make_request` from any thread at once, because the queue has no scheduler; the threads
and the syncer meet in the tables under `syncer_lock` and in `nvm_stat` under `stat_lock`, and in
the data under nothing. The lifecycle creates and destroys what both use, while the syncer threads
run; the levelling that the syncer was written for is called from a test module only. The test
shell is sequential: one command at a time changes the lists, then the scheduler runs. The
scanner hands the parser a file. No two of the other programs interact.

`PROJECT.json` lists the components with their status, and each hazard at its source line with
the properties that watch over it.

## 2. The modules

| Module | What it is |
|---|---|
| `BoundedFifo` | abstract: a bounded byte queue; each call takes effect once or fails |
| `TdlcdFifo` | `tdlcd_fifo.c`; refines `BoundedFifo` |
| `MCTdlcdFifo` | its small instances |
| `TdlcdFifoProofs` | its proofs |
| `RamDisk` | abstract: a disk that moves sectors one at a time and reports success after the last |
| `NvmRequest` | the request path of `ramdevice.c`; refines `RamDisk` |
| `MCNvmRequest`, `NvmRequestProofs` | its instances, its proofs |
| `TShell` | `tShell.c` |
| `MCTShell`, `TShellProofs` | its instances, its proofs |
| `NvmLifecycle` | loading and unloading of `ramdevice.c`, with the syncer threads |
| `NvmLifecycleProofs` | its proofs |
| `KSelect` | `bigK_index` and `smallK_index` |
| `NvmWear` | extraction and levelling, on top of `KSelect` |
| `NvmIdle` | the idle test on times of two widths |
| `SyncerProofs` | proofs about the three above |
| `Lexer`, `Parser` | `lex.py`, `lab_parser.py` |
| `Grammar` | what a grammar still allows behind the tokens read; the parser's reference |
| `ParserComments` | `Parser` beside the grammar of its own comments, and the instance for TLC |
| `CompilerProofs` | proofs about `Lexer` and `Parser` |
| `MCSequential` | instances of `KSelect` with `NvmWear`, `NvmIdle`, `Lexer`, `Parser` |
| `ProducerConsumer` | `pc.c` |
| `Philosophers` | `philo.c` |
| `TdlcdMemory` | `ch6/tdlcd.c` |
| `Tdlbd` | `tdlbd.c` |
| `DeviceProofs` | proofs about these two |
| `Sorting` | `sort.c` |
| `ExerciseProofs` | proofs about `ProducerConsumer`, `Philosophers` and `Sorting` |
| `MCPrograms` | instances of `ProducerConsumer`, `Philosophers`, `TdlcdMemory`, `Tdlbd`, `Sorting` and `NvmLifecycle` |

The small programs and the lifecycle share two runs, one program in each behaviour: they have no
state in common, and the variable `program` only says which of them moves.

### TdlcdFifo

A thread is a call in progress: `pc[t]` says where in the driver it is.

| `pc` | Where in `tdlcd_read` / `tdlcd_write` / `tdlcd_ioctl` / `tdlcd_poll` |
|---|---|
| idle | outside the driver |
| lock | before `mutex_lock`, at entry or after `schedule()` |
| test | at the `while` condition, with the mutex |
| release | after `__set_current_state`, before `mutex_unlock` |
| schedule | in `schedule()`; for poll, asleep in `select(2)` |
| copy | past the loop, before the copy |
| out, out2 | the labels of the source |

`mem` is the part of `dev->mem` that `current_len` covers, so `current_len` is its length. Two
wait queues are sets. A thread is in `armed` when its next `schedule()` would sleep: read and
write arm themselves after the test, poll before it, and a wake-up takes a thread out.
`signals` are pending signals; `WriteCopy` sends SIGIO to the owners in `async_queue`. The
interrupted path (`ScheduleSignal`) goes to `out2`, past the unlock, as in the code. `Shift` is
`memcpy` on overlapping regions: forward it does what the driver wants, backward it copies bytes
it has already overwritten. The C standard allows both; `CopyOrders` chooses. The values of
bytes are two model values, file positions are left out (no operation uses them), and a copy to
or from user space that faults fails without effect.

### NvmRequest

A thread is a bio in progress. `nvm_make_request` checks the capacity (`Accept`, `Exceed`) and
walks the segments (`Segment`, `SegmentDone`), which are cut while walking, in every possible
way. For a write segment `write_helper` is stepped through: `HelperLock`, the access counts of
the pages from the first to the one behind the last sector (`InfoLoad`, `InfoStore`: a
read-modify-write), the bits and the mapping entries (`SetBit`, `MapSector`), `HelperUnlock`.
Then sectors are copied one by one under no lock. Last `EndIO`, then `Stat`, in the order of the
code. `MapTable[s] = 0` means not mapped, as in the code, so the mapped block of sector `s` is
`s + 1`. `rw` is the local variable of `nvm_make_request`, which `Exceed` leaves unassigned: its
value is arbitrary there. `served` and `touched` are history variables: what was transferred,
and which pages write segments covered. The syncer appears with its critical section only; the
levelling inside it is commented out in the driver.

### TShell

A state is what is true between two commands. A PCB is its number; a resource list is a count
per resource; the ready and waiting lists are sequences. Each command is one action, with the
`Scheduler` it ends in. The oddities of the code are kept: nobody ever has status `RUNNING`, so
the scheduler always preempts; lists are searched by name; a blocked process cannot be
destroyed by name; a destroyed child is killed again with its parent; `Release` returns units
the process does not hold, gives the waiter's units to the releasing process and leaves the
waiter in its list. `phase` records that the program ended in `exit(0)` or in the NULL pointer
that `preempt` would follow. The clock tick is the user's `to`.

### NvmLifecycle

`pc` is the place of the one thread that runs `insmod` and `rmmod`; while a device is built it
names the resource asked for next, in the order of `nvm_alloc` and `nvm_create` (`Order`). Each
request succeeds or is refused (`Refuse`). `held[d]` is what is allocated and reachable from the
device, `listed` the device list, `added` the devices between `add_disk` and `del_gendisk`, and
`curr` how much of the high memory is handed out (it is mapped as large as one device). The
error path (`AllocFails`) releases what the labels of `nvm_alloc` release; the history variable
`lost` is the rest. `/proc` is a set of names, so that a load that failed at `register_blkdev`
and left its directory behind meets the next load, which ignores that the name is taken and
puts its entries into `/proc` itself. `thread[d]` is the syncer: created, running, asleep;
`kthread_stop` is `FreeDevice` and `SyncerStop`, which waits. A thread that was told to stop
before it ran never enters its function, as `kthread` has it. After a failure that leaves a
thread running no further load is modelled: the thread's code is gone.

### KSelect, NvmWear

`KSelect` is one scan for the k best: candidates, their indices, the worst of them. `NvmWear`
follows the test module (`test/check/`), whose bitmap has a word and whose information table has
an entry per page. `Alloc` is `pbi_test_alloc`, `Extract` and `Select` are `extract_big` and
`extract_small` with the scan inside, `LevelSkip` and `LevelMove` are `wear_level` with
`exchange_pbi`, block by block. As in the code the bitmap is set at the logical number on
allocation and searched by physical number on a move, and 0 is a block and "not mapped" at once.
`extract_big` with fewer pages in use than asked for leaves its result unassigned and its
caller follows it; such calls are not modelled.

### NvmIdle

`last_access_jiffies` keeps the lower half of the clock, `jiffies_to_msecs` returns the lower
half of the milliseconds; both widths are constants and wrap. The test reads the clock, then the
stored time, and an access may come between. `time` is the clock without a width and exists for
the property only.

### ProducerConsumer, Philosophers

One action per semaphore operation and per access to the ring. Semaphores are numbers.

### TdlcdMemory

`upc[u]` is where a thread's call is; copies and the `memset` go byte by byte, and a copy may
fault at any byte. The position is the file's, or any that `pread` and `pwrite` bring. A write
behind the end returns with the mutex held, as the code has it. `snap` remembers the memory at
the time the mutex was taken.

### Tdlbd

Loading sets up one disk after the other, each part refused or not; a refused disk keeps its
pointer to the data it freed. The two request modes differ in who serves a bio and in whether
removal waits for it (`Drained`). `cuts` are the places where a bio begins, is cut into segments
and ends; `moved` is what it transferred for each segment.

### Sorting

One comparison or move at a time; quicksort's recursion is a sequence of ranges.

### Lexer

A step is one character of `lex_main`, chosen as it is read. `temp`, `state` and `target` are the
program's; `state` is left as it is by strange characters and by flushes, as in the code. The
reference speaks of the text alone, and without a recursion: `IsCutting` says of a set of places
that the text is cut there into its longest words, `Targeted` that the output holds these words in
their order, and `Complained` that each message has its place in the text.

### Parser

A step is a procedure's next token or call. `calls` is the Python call stack, reduced to what each
active procedure has still to do (`Body`; where a procedure looks before it chooses, `Chosen`). A
token that is missed ends its procedure and the caller goes on. Two tokens are ahead, since no
procedure looks farther. The reference is `wanted`: what a grammar (`Rules`) still allows after
every token seen. `Grammar` reads a text along any such grammar: `Expanded` replaces the first
symbol of a phrase until it is a terminal; five replacements are always enough, which is proved for
`Rules`.

The repository has more than one grammar of the language, and they differ in the semicolons:

| Where | Between statements | After the last | In `write` |
|---|---|---|---|
| `parser_lex/lab_parser.c`, the grammar written out before the code | one | none | none |
| `lab_parser.py`, comments of `branch_procedure` and `exec_statement_tableA` (:323) | one | none | - |
| `lab_parser.py`, comment of `exec_statement_table` (:308) | two | one | - |
| `lab_parser.py`, comment of `write_statement` (:368) | - | - | none |
| `lab_parser.py`, message of `write_statement` (:380) | - | - | one of its own |

`Rules` is the first, with the semicolon that the last asks for; there it is the parser's own, not
the grammar's. So `write(a)` takes a semicolon, and needs a second one before another statement.
The third and the fourth are `CommentedRules` in `ParserComments`, whose run shows that the parser
does not keep to them. No grammar of these says what must be declared; `Rules` asks it of variables
(`use`), as the procedure `var` does, and not of the name of a called function (`identifier`),
which `func_call` takes as it comes.

## 3. Runs

| Run | Question | Instance | Distinct states |
|---|---|---|---|
| `fifo_waits` | does anybody sleep past the event, do sleepers run, do writes keep returning | one reader, two writers, one byte of space, buffers up to two | 102 k |
| `fifo_events` | no stranded reader, nothing left behind, refinement of `BoundedFifo` | a thread that reads, polls and owns SIGIO; a writer others signal; a clearer; two bytes of space and of buffer | 397 k |
| `fifo_clear_strands` | violation: a writer sleeps beside an empty device | a clearer added to the smallest instance | - |
| `fifo_backward_copy` | violation: the queue's order is lost | three bytes, both copy orders | - |
| `nvm_tables` | types, mapped data, agreeing tables, counts | two bios of up to three sectors, four sectors, two pages; some do not fit | 289 k |
| `nvm_disk` | exact statistics, refinement of `RamDisk`, every bio returns | two bios that fit, three sectors, pages of two | 56 k |
| `nvm_exceed` | violation: a refused bio reports success | one bio on two sectors | - |
| `tshell` | levels, turns, conservation, nobody lost | three processes on levels 1, 2 and none (3), two units of one resource, one unit of surplus, lists of two | 299 k |
| `sequential` | selection, levelling, idle test, scanner, parser | below | 531 k |
| `programs` | ring, philosophers, memory, RAM disks, sorts; the lifecycle: what is alive, released, forgotten, and that loading and unloading end | below | 283 k |
| `tshell_waiter` | violation: the killed holder's units serve nobody | the same without surplus | - |
| `parser_comments` | violation: a program by the comments is reported | one name, three active procedures | - |

Why the bounds are enough. *FIFO*: a stranding needs a sleeper, somebody who changes the
condition, and a competitor who takes the change back; three threads and one or two bytes reach
every order of these. A short read that leaves bytes behind needs two bytes, an overlapping copy
three. Larger buffers than the device make short writes. *NVM*: interference on tables needs two
writers; a page of two sectors makes segments that start and end inside, at and across a
boundary, and the four-sector device has a last page whose successor the table refuses. Two bios
are all there are (`MaxRequests`): the tables keep no more history than their contents, but
sequences longer than two bios are covered by the proofs only. *Shell*: three processes give a
parent, a child and a rival, on equal or different levels; two names equal or not; one resource
with two units can be held by two processes or refused. `MaxQueue` bounds repeated insertion by
`Release`, `MaxSurplus` over-release, `MaxPcbs` creation; with several resources the rules are
the same per resource, and deadlock between resources is not promised against by the code.

*Lifecycle* (in `programs`: three loads, up to two devices, both memories, everything refused or
not): a failure needs a device before it, which is taken down whole, and one that is half
built; the third load meets what a failed load and a clean one left. *Sequential*: three pages of
two blocks have a hot, a cold and an unused page, a search that wraps and blocks of one page that
move apart; two passes meet the traces of the first. Arrays of three entries with two values have
every tie. The clock of 64 ticks starts at 56 and runs for 30, so that both widths (64 and 16)
wrap within the run, with 2 ms a tick and a timeout of 3 ms. Texts of four characters out of
twelve hold two words of two characters each, or a word after whatever left a state behind. The parser's programs have
any length; `MaxDepth` = 6 active procedures hold functions inside functions, conditions inside
functions and calls inside expressions. After the first report the text ends, because a report is
never taken back. *Programs*: seven items go twice around a ring of three; four philosophers have
neighbours and non-neighbours; two threads with two calls on two bytes; two disks of three sectors
and two bios of up to two segments of up to two sectors reach behind the end; arrays of four out
of three keys have ties on both sides of a pivot.

`CHECK_DEADLOCK FALSE` is set where the program ends: the shell in `exit(0)` or a fault, the
lifecycle after its last load, and the small programs. The device runs check
deadlock. Symmetry is used where only safety is checked: the two byte values in `fifo_events`, the submitters in `nvm_tables`, the parser's two names in `sequential`.

### Properties

- `ReaderNotStranded`, `WriterNotStranded`: whoever sleeps, sleeps on an empty (full) device.
  The second holds only while nobody clears.
- `NothingLeftBehind`: outside the driver no thread owns the mutex, or is armed, or has left an
  entry on a wait queue, which would point into a stack frame that is gone.
- `ReaderWakes`, `WriteServed`: a sleeper whose event has come runs; with a device that keeps
  being drained some write keeps returning. A particular writer may starve, since others may
  refill the device first; so the second speaks about writes, not about each writer.
- `ImplementsFifo`: `mem` is the abstract queue, the stage of a call is read off `ret`.
- `StoredIsMapped`, `TablesAgree`: data lies in marked and mapped sectors, at any moment; under
  the lock the bitmap and the mapping agree and no block is mapped twice.
- `AccessesCounted`: no lost increment. The code may count more, never less: a segment that ends
  at a page boundary also charges the next page.
- `StatsExact`: when all is quiet, the statistics are what was transferred. It is checked where
  bios fit; a refused bio is counted as if it had been transferred.
- `ImplementsDisk`, `RequestsEnd`.
- `AddedDevicesWhole`: the block layer sends requests, also during load and unload, only to
  devices with all their parts. `SyncerOnLiveDevice`: a syncer's device exists, but for the one
  failure the code forgets. `LostExactly`: what a failed load forgets is the disk, the
  statistics, the tables and the thread, and nothing else. `UnloadIsClean`, `LoaderFinishes`.
- `Selected`, `HottestPages`: no better entry, no hotter page is left out; none is named twice.
- `UsedKept`: levelling neither gains nor loses used blocks, as long as one block was free.
  `MovedApart`, `FewForgotten`: what the first pass may do wrong at most.
- `IdleIsIdle`: the narrow arithmetic decides as the true times would, unless an access
  overtakes the test, and then it says idle.
- `SlotsRespected`, `ItemsAllPassed`; `NeighboursApart`, `MealsAllEaten`; `Whole`,
  `CallsReturn` (until a write behind the end has taken the mutex away).
- `SegmentsLand` (bios whose segments are of one length), `DataLives` (with a request queue),
  `AllReleased` (but for a given major number; freed twice only after a failed set-up).
- `Sorted`: sorted, and a rearrangement of what was given.
- `WordsFound`: on texts without the three things the scanner does not get right (section 4),
  whatever state is left over, it finds the longest words and complains about what is wrong, at
  its line. `JudgesPrograms`: what passes without a report is a program by `Rules` (section 2), whose
  variables are declared before use, called names excepted; and every report or crash has its reason
  in the tokens seen by then: no such program begins with them. `CommentsKept` says the second half
  of the grammar in the comments, and fails.
- `RunsHighest`, `Conserved` (up to over-release, which is counted), `NoneLost` (as long as names
  are unique: entries are removed by name), `TakesTurns` (the clock ticking).

### Fairness

`TdlcdFifo`: a thread that can take a step is scheduled (weak fairness of `Step`), and a thread
that finds the mutex free again and again gets it (strong fairness of `Lock`): the kernel's mutex
hands itself over to a waiter that has been passed over. Entering the driver, signals and clears
are not fair; `WriteServed` therefore assumes that the device is drained again and again.
`NvmRequest`: weak fairness of each thread's step, strong fairness of `HelperLock` because the
queued spinlock serves in order, weak fairness of the syncer's unlock; submitting and the
syncer's locking are not fair. `TShell`: the user's clock keeps ticking (weak fairness of
`Time_Out`, which is enabled while the program runs); `TakesTurns` means nothing without it.
`NvmLifecycle`: weak fairness of the loading thread once it has begun, and of each syncer, whose
sleep ends; nobody has to load or unload. The small programs: weak fairness of each thread of
`pc.c` and `philo.c` and of each call in progress on the first tdlcd, and strong fairness of its
mutex, as above.

## 4. Findings

- `fifo_clear_strands`: `FIFO_CLEAR` empties the device and wakes nobody. A writer asleep on a
  full device stays asleep, and a reader that comes afterwards blocks on the empty one.
- `fifo_backward_copy`: `tdlcd_read` moves the rest of the buffer down with `memcpy`; the regions
  overlap after a short read, and an implementation that copies from the end corrupts it.
- `nvm_exceed`: a bio beyond the capacity is completed without an error status, although the code
  prepares `-EIO`, and is counted in a direction read from an unassigned variable.
- `tshell_waiter`: destroying a holder returns its units and leaves the waiting process blocked,
  where `test.txt` expects it to receive them and run.
- `parser_comments`: the comment of `exec_statement_table` (`lab_parser.py:308`) puts a semicolon
  behind every statement. By it `begin integer a; read(a); end` is a program, and the parser reports
  a missing `end` (:159). Nor does it keep to the comment in the other direction: `read(a) end`
  passes. The comment of `write_statement` (:368) has no semicolon; the code wants one, and raises
  `TypeError` at :380 without it, because it calls a string.

Other facts met while modelling, about which no doc, comment or test of the repository was found to
say otherwise; the properties name them as their exceptions:

- `ramdevice.c`: when the `/proc` entry of a device is refused, its syncer thread goes on with a
  freed device; the idle test says idle when an access overtakes it.
- `test/check/`: a moved block may be given the physical block of a block that is not moved; a
  block moved to 0 counts as not mapped.
- `ch6/tdlcd.c`: a write behind the end returns with the mutex held.
- `tdlbd.c`: every segment is transferred with the first one's length; a disk refused its queue
  has its data freed twice; a given major number makes the load fail, and is kept; without a
  request queue removal waits for nothing.
- `lex.py`: a `>` that is not part of `<>` is dropped, so that `>=` becomes `=`; an identifier
  ends where a digit follows a letter; a strange character joins the words around it.
- `lab_parser.py`: behind `write(a);` no statement can follow unless a second semicolon does; a
  missing identifier in an expression raises `TypeError`, an expression missing at the end
  `IndexError`; what stands behind the program is noticed only after the `.err` file was written;
  called names and scopes are never checked.

## 5. What is proved

Every theorem holds for all values of the constants that satisfy the named assumptions.

**TdlcdFifoProofs**, from `SizeAssumption` (a positive capacity), `ThreadAssumption` (the name of
the free mutex is no thread) and `OrderAssumption`. `TypeCorrect`, `MutualExclusion`,
`NoReaderStranded`, `CleanReturn`; `NoWriterStranded` when there are no clearers; and
`DriverIsQueue` when `memcpy` copies forward.
`ReaderNotStranded` is not inductive: a writer that adds bytes wakes those on `r_wait`, so the
invariant must know that a thread on its way to sleep is queued (`QueueInv`), that tests are made
under the mutex (`MutexInv`), and that from its test on it is blocked or no longer armed
(`ReadSleepInv`). `WriteSleepInv` is the mirror image and needs that nobody clears.
`DriverIsQueue` is the refinement of `BoundedFifo`: initial states map to initial states, and each
step to a step or a stutter. Besides the above it needs `CallInv`: the stage of a call and its
return value belong together, and what a thread's test found is still true when it copies,
because it has kept the mutex.

**NvmRequestProofs**, from `SizeAssumption` and `NameAssumption`, for any number of submitters and
requests. `NvmTypeCorrect`, `NvmStoredIsMapped`, `NvmTablesAgree`, `NvmAccessesCounted` follow
from one invariant: `LockInv` (the lock belongs to the thread inside `write_helper`), `RangeInv`
(an accepted segment lies inside the device), `HalfInv` (a sector is mapped, unmarked, or just
being mapped), `MarkInv` (what `write_helper` has passed is mapped and stays so while it is
copied), `CountInv` and `TouchedInv` (the charges are ahead of the touches; the register is the
table's value). A thread's step is shown to keep its own part, then the others' parts by the
lock. `MarkInv` is why data can be copied under no lock: a mapping, once made, is never undone.
`DriverIsDisk` is the refinement of `RamDisk` when every bio fits (`BiosFit`); it needs `BioInv`,
which ties the walk through the segments to the bio's range and to what the abstract disk has
left to move.
`StatisticsExact`, also under `BiosFit`, is not inductive: two submitters end their bios and account
for them in any order. So `StatInv` says for each direction that what was transferred and what is
accounted for differ by exactly the requests between `bio_endio` and the statistics, and their
sectors. When nobody is there, nothing is owed.

**NvmLifecycleProofs**, from `BoundAssumption` and `NvmTypeAssumption`. `LifecycleTypes`,
`AddedAreWhole`, `SyncersAreLive`, `LeavesExactly`, `UnloadsClean`, all from one invariant:
`HeldInv` (the device being built holds what comes before `pc` in `Order`, those before it are
whole, those behind it empty), `ListInv`, `AddedInv`, `FailInv` (what was refused, to whom, and
what is lost by then), `BlkdevInv`, `ThreadInv` (a thread runs for a device that holds one, or
for the one that was forgotten), `ProcInv` (the entries of this load are where `proc_nvm` says).

**SyncerProofs**, from `CounterAssumption`, `WearAssumption` and `ClockAssumption`.
`SelectsBest`, for arrays of any length with ties; the invariant `IInv` says that the candidates are the
best of what was scanned, and that `worst` is among the worst of them.
`UsedBlocksKept`, for any number and size of pages: an exchange clears a set bit and sets a free
one. `LevelsHottest` carries this through extraction and selection: what the scan is given are the
pages in use, each once (`HotInv`), and the answers are places in that list.
`FirstLevellingMovesApart` and `FirstLevellingForgetsFew` speak about the first pass, where the
bitmap still shows the allocation. `PassInv` separates the blocks the pass has visited from those
it has not: the bit of an unvisited block is as it was allocated, and a moved block is where no
later step of the pass clears the bit. So a search that wraps around cannot hand out what this
pass has handed out, and block 0, which counts as "not mapped", is handed out once, or twice
when every bit was set.
`IdleTestTellsIdle` is an action property: the difference of two truncated clocks, in truncated
milliseconds, is the true age modulo the width, and an access that overtakes the test makes the
difference negative and so, unsigned, large. `IdleInv` ties the stored times to the true ones.

**TShellProofs**. `SchedulesHighest`: whatever a command did to the lists, the scheduler makes
`RunsHighest` true again or the program faults; commands that do not schedule leave the lists
alone. No assumption is needed. `ShellTypes`, `UnitsConserved` and `NoProcessLost`, from
`NameAssumption` and `SizeAssumption`, share one invariant: the types, which say in particular that only
PCBs that exist are ever queued or run, the accounts, and `NoneLost` itself. Units are
counted as sets of pairs (a PCB, a number), so that what a destroyed tree gives back is a part of
what is held, and a PCB destroyed twice gives nothing the second time. For `NoProcessLost` the
lemmas about `Delete` show that it keeps the order of the rest and, with unique names, takes off
no entry but those it is meant for.

**DeviceProofs**, from `MemoryAssumption` (first tdlcd) and `DiskAssumption` (RAM disks).
`CallsAreWhole`: whoever holds the mutex of the first tdlcd has copied its first `b` bytes, and the
rest of the memory is as it was when the mutex was taken (`MemInv`). The size that a read was
clipped to before it took the mutex stays right because the size of the memory never changes. A
mutex that a write behind the end took away is allowed for. `DataOutlivesBios`, `UnloadReleases` and
`EqualSegmentsLand` speak about the RAM disks. The first two rest on `PartsInv`: what a disk that
the loop has passed or not yet met can hold, that a gendisk has its data, that data is freed before
the last free only by a set-up that failed; and on bios keeping their queue alive. `SegInv`, for the
third, says how far a bio has come: it has moved the segments up to the cut where its sector stands.

**ExerciseProofs**. `RingIsRespected`, for any ring and any number of items: the semaphores and both
places determine what each slot holds. `NeighboursNeverEat`, for any table: a chopstick that is
off the table belongs to exactly one neighbour. `SortsEveryArray`, for arrays of any length: in insertion sort
(`ShiftInv`) the hole wanders down an array that is otherwise in order; in quicksort (`CallInv`)
two elements that are not in one range still to be sorted are in order, and a partition
(`PartitionInv`) has the small ones in front. That the result is a rearrangement is proved with a
bijection of places that every swap and every shift extends.

**CompilerProofs**, from `CharAssumption` (letters, digits, strange characters, blanks and marks are
different) and `NamesAssumption` (an identifier is none of the words of the model); neither
`MaxText` nor `MaxDepth` matters.

`ScannerFindsWords`, for texts of any length. It would seem to need an induction over the text,
since the reference cuts the whole text into longest words. But in the plain texts of which
`WordsFound` speaks, a pair of neighbours alone tells whether a word goes on (`Joins`), and a word
is longest when it is a run of such pairs (`RunIsLongest`). So `LexInv` can grow with the text: its
first `d` characters are told, that is, the words that begin there are in `target` (`Told`) and the
messages are those that are due (`Blamed`); the rest is the word in `temp`, followed by one strange
character at most (`Waiting`), and `state` says what that word is made of (`Fits`). An empty `temp`
means that all is told and that `state` is 0 (`Held`). A step makes the word in `temp` longer, or
calls `end_word` and tells it. That messages come line by line needs that a bare `:` is blamed
before the next newline is counted.

`ParserJudges`, for programs of any length and nesting, by the grammar `Rules` (section 2: which one,
and where the repository has others). `ParserInv` says that as long as nothing is
wrong, `wanted` is what a single phrase allows after the two tokens the parser sees (`Sound`): the
phrase is what the active procedures have still to do, put behind each other, and the end of the
text. `IsFlat` says this without a recursion. A step that takes a token reads it off that phrase; a
call replaces a procedure's name by what the procedure does, which is its only rule (`BodyRules`).
The choices are the point. A procedure looks at two tokens at most, while the grammar follows every
rule at once; `ChoosesRight` shows that the two tokens refute every rule but the chosen one, and,
where the parser complains, all of them. A rule is refuted by what it begins with (`Firsts`), or,
when it is empty, by what stands behind it; so the invariant must know in which order symbols follow
each other in the phrase (`Goes`, `Good`). For a procedure that may be empty this is the follow set,
and for a semicolon behind declarations it takes the second token, because only
`exec_statement_table` stands behind that semicolon. `AllReady` shows that five replacements reach a
terminal from any symbol (`Rank1` to `Rank5` are what one to five replacements suffice for). When a
message is given or the parser crashes, its token refutes the phrase (`RefutedItem`), and where
nothing is wanted nothing ever will be (`NothingAdvanced`).

Every safety and action property that a passing run checks is proved, and so are both refinements.
Only model-checked is all liveness, because fairness and `ENABLED` are beyond the proof system. The
violations of section 4 are single behaviours, which TLC shows.

## 6. Plan

Done, in this order: the FIFO device with its abstract queue; the request path with its abstract
disk; the test shell; the lifecycle with the syncer; selection, levelling and idle test; the
threading exercises; the first tdlcd, the RAM disks and the sorts; the proofs of both refinements;
the scanner and the parser; the proofs of every safety property that a run checks, last those of the
scanner and the parser, whose references were first restated without recursion. The book's timer and
memories, once planned, were dropped: they are not the repository's own code.

Left: `llseek`, initialisation and removal of the character devices; the levels and line numbers in
the parser's tables.

## 7. What is not modelled, and why

Code the author did not write: `globalfifo`, `globalmem`, `second.c` and `vmem_disk.c` are the
examples of a driver book (Barry Song), of which `tdlcd_fifo.c`, `ch6/tdlcd.c` and `tdlbd.c` are
the repository's own versions; `csapp.c`, `nvm-ref/` (pmbd, pmfs, pcmsim), the examples of *Linux
Device Drivers*, the bandwidth and fio benchmarks and the generated `lex.yy.c`. These are most
of the repository's lines.

Superseded code: `process-lab/Shell.c`, which stops at its first scheduling; the compiler in C,
whose parser does not build. Code without state worth a model: module samples, the file copy
exercise, the fund scripts, `mem.c` (one `memcpy`, a step of `NvmRequest`) and the hand-run
programs beside it.

What the modelled parts leave out: `llseek` of the FIFO device, initialisation and removal of the
character devices; a device larger than the fixed tables of NVMSIM, which nothing in the code
forbids; reading `/proc`; `extract_big_small`, which nobody calls; the geometry of the RAM disks;
message texts; commands of the shell without a number, which its parser turns into a negative one;
the scanner's keywords other than `if`, line numbers and levels in the parser's tables, and the
files between scanner and parser.
