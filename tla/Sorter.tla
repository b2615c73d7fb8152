--------------------------------- MODULE Sorter ---------------------------------
(***************************************************************************)
(* quick_sort (src/sorter.cpp), one step for each turn of its loop and each  *)
(* call of itself.  Elements are integers, indices count from zero as in the *)
(* code.  The copy of the pivot and the one sort_swap makes are temporary    *)
(* blocks of the size of an element (Memory), of a buffer that has room: a   *)
(* request this small is never answered at the end of it.                    *)
(***************************************************************************)
EXTENDS Integers, Sequences, FiniteSets, SequencesExt

CONSTANT Lists  \* the arrays to sort

ASSUME ListsAssumption == Lists \subseteq Seq(Int)

VARIABLES
  given,  \* the array quick_sort was called with
  data,   \* the array
  rest,   \* the calls to make, the next one last: start inclusive, stop exclusive
  call    \* the running call: its stop, the pivot, pivot_index, begin_index and
          \* end_index; stop is 0 between two calls

sorterVars == <<given, data, rest, call>>

At(i) == data[i + 1]

NoCall == [start |-> 0, stop |-> 0, pivot |-> 0, pivot_index |-> 0,
           begin_index |-> 0, end_index |-> 0]

Returned == call.stop = 0

\* sort_swap
Swapped(a, b) == [data EXCEPT ![a + 1] = At(b), ![b + 1] = At(a)]

SorterInit ==
  /\ given \in Lists
  /\ data = given
  /\ rest = <<[start |-> 0, stop |-> Len(given)]>>
  /\ call = NoCall

Part == rest[Len(rest)]

\* One element, or none.
SortShort ==
  /\ Returned /\ rest # <<>> /\ Part.stop - Part.start < 2
  /\ rest' = Front(rest)
  /\ UNCHANGED <<given, data, call>>

SortTwo ==
  /\ Returned /\ rest # <<>> /\ Part.stop - Part.start = 2
  /\ data' = IF At(Part.start) > At(Part.stop - 1)
               THEN Swapped(Part.start, Part.stop - 1) ELSE data
  /\ rest' = Front(rest)
  /\ UNCHANGED <<given, call>>

\* The last element is the pivot.
SortBegin ==
  /\ Returned /\ rest # <<>> /\ Part.stop - Part.start > 2
  /\ call' = [start |-> Part.start, stop |-> Part.stop,
              pivot |-> At(Part.stop - 1), pivot_index |-> Part.stop - 1,
              begin_index |-> Part.start, end_index |-> Part.stop - 1]
  /\ rest' = Front(rest)
  /\ UNCHANGED <<given, data>>

Partitioning == ~Returned /\ call.begin_index < call.end_index

StepBegin ==
  /\ Partitioning /\ At(call.begin_index) < call.pivot
  /\ call' = [call EXCEPT !.begin_index = @ + 1]
  /\ UNCHANGED <<given, data, rest>>

StepEnd ==
  /\ Partitioning /\ At(call.begin_index) >= call.pivot /\ At(call.end_index) > call.pivot
  /\ call' = [call EXCEPT !.end_index = @ - 1]
  /\ UNCHANGED <<given, data, rest>>

\* Both are at elements to be exchanged.
Facing ==
  /\ Partitioning
  /\ At(call.begin_index) >= call.pivot /\ At(call.end_index) <= call.pivot

\* Equal elements are stepped over.
StepBoth ==
  /\ Facing /\ At(call.begin_index) = At(call.end_index)
  /\ call' = [call EXCEPT !.begin_index = @ + 1, !.end_index = @ - 1]
  /\ UNCHANGED <<given, data, rest>>

\* Mutant: the pivot is followed in one direction.
Swap_FollowsOneWay ==
  /\ Facing /\ At(call.begin_index) # At(call.end_index)
  /\ data' = Swapped(call.begin_index, call.end_index)
  /\ call' = [call EXCEPT !.pivot_index = IF @ = call.end_index THEN call.begin_index ELSE @]
  /\ UNCHANGED <<given, rest>>

\* They change places, and the pivot is followed.
Swap ==
  /\ Facing /\ At(call.begin_index) # At(call.end_index)
  /\ data' = Swapped(call.begin_index, call.end_index)
  /\ call' = [call EXCEPT !.pivot_index =
                IF @ = call.begin_index THEN call.end_index
                ELSE IF @ = call.end_index THEN call.begin_index ELSE @]
  /\ UNCHANGED <<given, rest>>

\* Both sides of the pivot, the left one first.
SortParts ==
  /\ ~Returned /\ call.begin_index >= call.end_index
  /\ rest' = rest \o <<[start |-> call.pivot_index + 1, stop |-> call.stop],
                       [start |-> call.start, stop |-> call.pivot_index]>>
  /\ call' = NoCall
  /\ UNCHANGED <<given, data>>

SorterNext ==
  SortShort \/ SortTwo \/ SortBegin \/ StepBegin \/ StepEnd \/ StepBoth \/ Swap \/ SortParts

SorterSpec == SorterInit /\ [][SorterNext]_sorterVars

--------------------------------------------------------------------------------
(* Properties.                                                                    *)

Occurrences(list, x) == Cardinality({i \in DOMAIN list : list[i] = x})

\* Sorting loses no element and doubles none, and an array whose elements differ
\* ends in order; of one with equal elements only the first is promised: 0, 1, 0
\* is left as it is (quick_sort, sort_swap).
SortsDistinct ==
  /\ \A x \in ToSet(given) \cup ToSet(data) : Occurrences(data, x) = Occurrences(given, x)
  /\ Returned /\ rest = <<>> /\ IsInjective(given) =>
       \A i, j \in DOMAIN data : i < j => data[i] < data[j]

================================================================================
