------------------------------ MODULE KSelect -------------------------------
(***************************************************************************)
(* drivers/NVMSIM/syncer.c: bigK_index and smallK_index, which find the    *)
(* indices of the k largest or smallest entries of an array in one scan.   *)
(* They hold k candidates and replace the worst of them whenever the scan  *)
(* meets a better entry.  The wear levelling chooses the pages it moves    *)
(* with them.                                                              *)
(***************************************************************************)
EXTENDS Integers

CONSTANTS Counters,   \* what an entry of the array may be
          MaxLen      \* bound: length of the array

ASSUME CounterAssumption == Counters \subseteq Int /\ MaxLen \in Nat

VARIABLES stage,      \* "idle", "scan", "done", "null": where the call is
          side,       \* "big" for bigK_index, "small" for smallK_index
          arr, n, k,  \* the arguments
          key, addr,  \* the candidates and their indices
          worst,      \* min_index or max_index
          i           \* the index of the scan

selection == <<stage, side, arr, n, k, key, addr, worst, i>>

NoArray == [m \in {} |-> 0]

SelectIdle == /\ stage = "idle" /\ side = "big"
              /\ arr = NoArray /\ key = NoArray /\ addr = NoArray
              /\ n = 0 /\ k = 0 /\ worst = 0 /\ i = 0

BetterFor(s, x, y) == IF s = "big" THEN x > y ELSE x < y
Better(x, y) == BetterFor(side, x, y)

\* minium, maxium: the first of the worst candidates.
FirstCandidate(s, f) == {0}
WorstOf(s, f) == {m \in DOMAIN f : /\ \A l \in DOMAIN f : ~BetterFor(s, f[m], f[l])
                                   /\ \A l \in DOMAIN f : l < m => BetterFor(s, f[l], f[m])}

Refused(len, count) == len <= 0 \/ count > len \/ count <= 0

CallRefused(s, a, len, count) ==
    /\ stage = "idle" /\ Refused(len, count)
    /\ stage' = "null" /\ side' = s
    /\ UNCHANGED <<arr, n, k, key, addr, worst, i>>

Call(s, a, len, count) ==
    /\ stage = "idle" /\ ~Refused(len, count)
    /\ stage' = "scan" /\ side' = s
    /\ arr' = a /\ n' = len /\ k' = count
    /\ key' = [m \in 0..(count - 1) |-> a[m]]
    /\ addr' = [m \in 0..(count - 1) |-> m]
    /\ worst' \in WorstOf(s, key')
    /\ i' = count

Replace ==
    /\ stage = "scan" /\ i < n /\ Better(arr[i], key[worst])
    /\ key' = [key EXCEPT ![worst] = arr[i]]
    /\ addr' = [addr EXCEPT ![worst] = i]
    /\ worst' \in WorstOf(side, key')
    /\ i' = i + 1
    /\ UNCHANGED <<stage, side, arr, n, k>>

Pass ==
    /\ stage = "scan" /\ i < n /\ ~Better(arr[i], key[worst])
    /\ i' = i + 1
    /\ UNCHANGED <<stage, side, arr, n, k, key, addr, worst>>

Finish ==
    /\ stage = "scan" /\ i = n
    /\ stage' = "done"
    /\ UNCHANGED <<side, arr, n, k, key, addr, worst, i>>

Scan == Replace \/ Pass \/ Finish

\* The caller takes the indices, or NULL, and frees the arrays.
Take ==
    /\ stage \in {"done", "null"}
    /\ stage' = "idle" /\ side' = "big"
    /\ arr' = NoArray /\ key' = NoArray /\ addr' = NoArray
    /\ n' = 0 /\ k' = 0 /\ worst' = 0 /\ i' = 0

\* A call with any array.
SelectCall == \E len \in 0..MaxLen, count \in 0..(MaxLen + 1), s \in {"big", "small"} :
                 \E a \in [0..(len - 1) -> Counters] :
                     Call(s, a, len, count) \/ CallRefused(s, a, len, count)

SelectNext == SelectCall \/ Scan \/ Take
SelectSpec == SelectIdle /\ [][SelectNext]_selection

-----------------------------------------------------------------------------
(* The answer names k different entries, and no entry that it leaves out   *)
(* is better than one that it names, whatever ties there are, for both     *)
(* functions (syncer.c:114, :155).                                         *)
Selected ==
    stage = "done" =>
        /\ \A l, m \in 0..(k - 1) : l # m => addr[l] # addr[m]
        /\ \A m \in 0..(k - 1) : addr[m] \in 0..(n - 1)
        /\ \A j \in 0..(n - 1) :
               \/ \E m \in 0..(k - 1) : addr[m] = j
               \/ \A m \in 0..(k - 1) : ~Better(arr[j], arr[addr[m]])
=============================================================================
