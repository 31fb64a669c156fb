------------------------------ MODULE NvmIdle ------------------------------
(***************************************************************************)
(* drivers/NVMSIM/ramdevice.c: how the syncer decides that a device is     *)
(* idle.  Every request stores the time in last_access_jiffies, which is   *)
(* narrower than jiffies; nvm_device_is_idle reads the clock first, then   *)
(* the stored time, and gives the difference to jiffies_to_msecs, which    *)
(* returns an unsigned int.  Both accesses to the stored time are under    *)
(* stat_lock and are one step each.                                        *)
(***************************************************************************)
EXTENDS Integers

CONSTANTS LONG,       \* values of an unsigned long (2^64)
          UINT,       \* values of an unsigned int (2^32)
          MSECS,      \* milliseconds of a jiffy (4: HZ is 250)
          TIMEOUT,    \* NVM_FLUSH_IDLE_TIMEOUT (12)
          BOOT,       \* jiffies when the module is loaded
          MaxTime     \* bound: jiffies from then on

ASSUME ClockAssumption == /\ UINT \in Nat \ {0} /\ LONG \in Nat /\ LONG % UINT = 0
                          /\ LONG > 0 /\ MSECS \in Nat \ {0} /\ TIMEOUT \in Nat
                          /\ BOOT \in Nat /\ MaxTime \in Nat

VARIABLES time,                  \* jiffies, had it no width
          last_access_jiffies,   \* of nvm_stat
          now_jiffies,           \* of a test under way
          idle,                  \* "none", "testing", "idle", "busy": the last test
          accessed, seen,        \* history: times of the last access, of the clock's reading
          overtaken              \* history: an access fell between the test's readings

ivars == <<time, last_access_jiffies, now_jiffies, idle, accessed, seen, overtaken>>

jiffies == time % LONG

IdleInit == /\ time = BOOT
            /\ last_access_jiffies = 0 /\ now_jiffies = 0     \* kzalloc
            /\ idle = "none"
            /\ accessed = -1 /\ seen = 0 /\ overtaken = FALSE

Tick == /\ time < BOOT + MaxTime /\ time' = time + 1
        /\ UNCHANGED <<last_access_jiffies, now_jiffies, idle, accessed, seen, overtaken>>

\* NVM_DEV_UPDATE_ACCESS_TIME.
AccessTime == jiffies % UINT

Access == /\ last_access_jiffies' = AccessTime
          /\ accessed' = time
          /\ overtaken' = ((idle = "testing" /\ time > seen) \/ overtaken)
          /\ UNCHANGED <<time, now_jiffies, idle, seen>>

ReadClock == /\ idle # "testing" /\ idle' = "testing"
             /\ now_jiffies' = jiffies
             /\ seen' = time /\ overtaken' = FALSE
             /\ UNCHANGED <<time, last_access_jiffies, accessed>>

\* jiffies_to_msecs, where a second is a whole number of milliseconds.
WideMsecs(j) == j * MSECS
Msecs(j) == (j * MSECS) % UINT

Interval == Msecs((now_jiffies - last_access_jiffies) % LONG)

Decide == /\ idle = "testing"
          /\ idle' = IF Interval > TIMEOUT THEN "idle" ELSE "busy"
          /\ UNCHANGED <<time, last_access_jiffies, now_jiffies, accessed, seen, overtaken>>

IdleNext == Tick \/ Access \/ ReadClock \/ Decide
IdleSpec == IdleInit /\ [][IdleNext]_ivars

-----------------------------------------------------------------------------
(* A test says "idle" exactly when the last access was longer ago than the *)
(* timeout, although the stored time is the clock's lower half only and    *)
(* wraps, as long as the milliseconds fit into an unsigned int.  Only when *)
(* an access overtakes the test, which has read the clock before it, the   *)
(* difference is negative, and a device in use passes for an idle one      *)
(* (ramdevice.c:603-611).                                                  *)
IdleIsIdle ==
    [][Decide /\ accessed >= 0 =>
          LET age == (seen - accessed) * MSECS
          IN  /\ ~overtaken /\ age < UINT => (idle' = "idle" <=> age > TIMEOUT)
              /\ overtaken /\ age + UINT > TIMEOUT => idle' = "idle"]_ivars
=============================================================================
