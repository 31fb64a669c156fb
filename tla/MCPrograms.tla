----------------------------- MODULE MCPrograms -----------------------------
(***************************************************************************)
(* Small instances of six programs for TLC.  They share nothing: program   *)
(* says which one a behaviour runs, and the others stay as they began.     *)
(* Init, Next, vars and Fairness are the names of NvmLifecycle.            *)
(***************************************************************************)
EXTENDS ProducerConsumer, Philosophers, TdlcdMemory, Tdlbd, Sorting, NvmLifecycle

CONSTANTS u1, u2
TwoUsers == {u1, u2}

CONSTANTS o1, o2
TwoBios == {o1, o2}

ThreeKeys == 1..3
OneArray == [n \in 0..0 |-> 1]

BothTypes == {"highmem", "vmalloc"}

VARIABLE program

allvars == <<program, pcvars, phvars, memvars, bdvars, srvars, vars>>

ProgramsInit ==
  /\ program \in {"pc", "philo", "tdlcd", "tdlbd", "sort", "nvmsim"}
  /\ PCInit /\ PhInit /\ MemInit /\ BdInit /\ SortInit /\ Init
  /\ program # "tdlbd" => request_mode = "queue" /\ vmem_disk_major = 0
  /\ program # "sort" => arr = OneArray /\ algorithm = "inset_sort"

RunsPC == program = "pc" /\ UNCHANGED <<program, phvars, memvars, bdvars, srvars, vars>>
RunsPhilo == program = "philo" /\ UNCHANGED <<program, pcvars, memvars, bdvars, srvars, vars>>
RunsTdlcd == program = "tdlcd" /\ UNCHANGED <<program, pcvars, phvars, bdvars, srvars, vars>>
RunsTdlbd == program = "tdlbd" /\ UNCHANGED <<program, pcvars, phvars, memvars, srvars, vars>>
RunsSort == program = "sort" /\ UNCHANGED <<program, pcvars, phvars, memvars, bdvars, vars>>
RunsNvmsim == program = "nvmsim" /\ UNCHANGED <<program, pcvars, phvars, memvars, bdvars, srvars>>

ProgramsNext == \/ RunsPC /\ PCNext
                \/ RunsPhilo /\ PhNext
                \/ RunsTdlcd /\ MemNext
                \/ RunsTdlbd /\ BdNext
                \/ RunsSort /\ SortNext
                \/ RunsNvmsim /\ Next

\* Every thread that can go on does, and the mutex of the device is handed
\* to each that waits for it.  NvmLifecycle's own Fairness asks nothing of a
\* behaviour that runs another program: none of its actions but an insmod is
\* enabled then.
ProgramsFairness ==
  /\ WF_pcvars(program = "pc" /\ Producer)
  /\ WF_pcvars(program = "pc" /\ Consumer)
  /\ \A p \in Philos : WF_phvars(program = "philo" /\ Philosopher(p))
  /\ \A u \in Users : /\ WF_memvars(program = "tdlcd" /\ CallStep(u))
                      /\ SF_memvars(program = "tdlcd" /\ Lock(u))
  /\ Fairness

FairPrograms == ProgramsInit /\ [][ProgramsNext]_allvars /\ ProgramsFairness

(* Both threads of pc.c return.                                            *)
ItemsAllPassed == program = "pc" => BothEnd
(* All philosophers leave the table.                                       *)
MealsAllEaten == program = "philo" => AllLeave
=============================================================================
