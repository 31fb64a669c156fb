------------------------------ MODULE Sorting ------------------------------
(***************************************************************************)
(* qinke/Algorithm/Sort/sort.c: insertion sort, and quicksort with its     *)
(* recursion as a stack of the ranges still to be sorted.                  *)
(***************************************************************************)
EXTENDS Integers, Sequences, FiniteSets

CONSTANTS Keys,     \* what an element may be
          MaxItems  \* bound: length of the array (8)

ASSUME KeyAssumption == Keys \subseteq Int /\ MaxItems \in Nat

VARIABLES arr, given,    \* the array; history: the array as it was
          algorithm,     \* "inset_sort" or "quick_sort"
          step,          \* "loop", "shift"; "call", "partition"; "sorted"
          i, j, key,     \* locals; key is x in partition
          ranges         \* <<begin, end>> of the calls still to be made; first: the one running

srvars == <<arr, given, algorithm, step, i, j, key, ranges>>
still  == <<given, algorithm>>

length == Cardinality(DOMAIN arr)

SortInit == /\ arr \in UNION {[0..(n - 1) -> Keys] : n \in 1..MaxItems}
            /\ given = arr
            /\ i = 1 /\ j = 0 /\ key = 0
            /\ \/ algorithm = "inset_sort" /\ step = "loop" /\ ranges = <<>>
               \/ algorithm = "quick_sort" /\ step = "call" /\ ranges = <<<<0, length - 1>>>>

-----------------------------------------------------------------------------
(* inset_sort. *)

NextKey == /\ step = "loop" /\ i < length
           /\ step' = "shift" /\ key' = arr[i] /\ j' = i - 1
           /\ UNCHANGED <<arr, still, i, ranges>>

AboveFirst == j > 0 /\ arr[j] > key
Above == j >= 0 /\ arr[j] > key

Shift == /\ step = "shift" /\ Above
         /\ arr' = [arr EXCEPT ![j + 1] = arr[j]] /\ j' = j - 1
         /\ UNCHANGED <<still, step, i, key, ranges>>

PutKey == /\ step = "shift" /\ ~Above
          /\ step' = "loop" /\ arr' = [arr EXCEPT ![j + 1] = key] /\ i' = i + 1
          /\ UNCHANGED <<still, j, key, ranges>>

Inserted == /\ step = "loop" /\ i >= length
            /\ step' = "sorted"
            /\ UNCHANGED <<arr, still, i, j, key, ranges>>

-----------------------------------------------------------------------------
(* quick_sort, partition. *)

Swapped(a, b) == [arr EXCEPT ![a] = arr[b], ![b] = arr[a]]

begin == ranges[1][1]
end   == ranges[1][2]

Partition == /\ step = "call" /\ ranges # <<>> /\ begin < end
             /\ step' = "partition" /\ key' = arr[end] /\ i' = begin - 1 /\ j' = begin
             /\ UNCHANGED <<arr, still, ranges>>

Small == /\ step = "call" /\ ranges # <<>> /\ begin >= end
         /\ ranges' = Tail(ranges)
         /\ UNCHANGED <<arr, still, step, i, j, key>>

Scanned == /\ step = "partition" /\ j < end
           /\ j' = j + 1
           /\ IF arr[j] <= key
              THEN i' = i + 1 /\ arr' = Swapped(j, i + 1)
              ELSE UNCHANGED <<i, arr>>
           /\ UNCHANGED <<still, step, key, ranges>>

PutPivot == /\ step = "partition" /\ j = end
            /\ step' = "call" /\ arr' = Swapped(i + 1, end)
            /\ ranges' = <<<<begin, i>>, <<i + 2, end>>>> \o Tail(ranges)
            /\ UNCHANGED <<still, i, j, key>>

AllSorted == /\ step = "call" /\ ranges = <<>>
             /\ step' = "sorted"
             /\ UNCHANGED <<arr, still, i, j, key, ranges>>

SortNext == \/ NextKey \/ Shift \/ PutKey \/ Inserted
            \/ Partition \/ Small \/ Scanned \/ PutPivot \/ AllSorted
SortSpec == SortInit /\ [][SortNext]_srvars

-----------------------------------------------------------------------------
(* In the end the array is in order and has the elements that were given,  *)
(* repeated ones as often as before (sort.c:4-20, :46-53).                 *)
Sorted ==
    step = "sorted" =>
        /\ \A a, b \in DOMAIN arr : a < b => arr[a] <= arr[b]
        /\ \A v \in Keys : Cardinality({a \in DOMAIN arr : arr[a] = v})
                             = Cardinality({a \in DOMAIN given : given[a] = v})
=============================================================================
