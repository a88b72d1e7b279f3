------------------------------ MODULE TimeHeap ------------------------------
(***************************************************************************)
(* time_heap of timer/min_heap_timer.h: a binary heap of timers in an      *)
(* array, ordered by expire; each timer knows its place (index).           *)
(*                                                                         *)
(* Only the places below cur_size are kept: the one operation that looks   *)
(* at another is pop_timer of the only timer, which leaves the freed timer *)
(* in place 0 and writes to it.                                            *)
(***************************************************************************)
EXTENDS Integers, Sequences

CONSTANTS
  Timers,      (* the heap_timer objects                                   *)
  Times,       (* the values expire may have                               *)
  Capacity     (* the capacity the heap is constructed with                *)

ASSUME HeapAssumption ==
  Capacity \in Nat \ {0} /\ Times \subseteq Int /\ Times # {}

VARIABLES
  array, capacity, cur_size,
  expire, cb_func, index    (* the members of the timers; cb_func: whether *)
                            (* it is not NULL                              *)

heapVars == <<array, capacity, cur_size, expire, cb_func, index>>

InHeap == {array[i] : i \in 0..cur_size - 1}
Top    == array[0]
-----------------------------------------------------------------------------
(* The sifting loops.                                                      *)

(* Along the path of holes a loop visits every timer moves into the hole   *)
(* before it and t ends up in the last one.                                *)
Slide(a, path, t) ==
  LET at == [i \in {path[k] : k \in 1..Len(path)} |->
               CHOOSE k \in 1..Len(path) : path[k] = i]
  IN  [i \in DOMAIN a \cup DOMAIN at |->
         IF i \notin DOMAIN at THEN a[i]
         ELSE IF at[i] = Len(path) THEN t ELSE a[path[at[i] + 1]]]

(* Mutant of Child: a right child in the last place is overlooked.         *)
ChildBlind(a, n, e, hole) ==
  LET left == 2 * hole + 1
  IN  IF left < n - 2 /\ e[a[left + 1]] < e[a[left]] THEN left + 1 ELSE left

(* The child percolate_down compares with: the earlier one, the left one   *)
(* if there is no other or both are due at the same time.                  *)
Child(a, n, e, hole) ==
  LET left == 2 * hole + 1
  IN  IF left < n - 1 /\ e[a[left + 1]] < e[a[left]] THEN left + 1 ELSE left

(* The holes of percolate_down(hole) in the first n places.                *)
DownPath(a, n, e, hole) ==
  LET down[i \in 0..n - 1] ==
        LET c == Child(a, n, e, i)
        IN  IF 2 * i + 1 <= n - 1 /\ e[a[c]] < e[a[hole]]
            THEN <<i>> \o down[c] ELSE <<i>>
  IN  down[hole]

(* The holes add_timer goes up from the new place for a timer due at d.    *)
UpPath(a, e, d, hole) ==
  LET up[i \in 0..hole] ==
        IF i > 0 /\ e[a[(i - 1) \div 2]] > d
        THEN <<i>> \o up[(i - 1) \div 2] ELSE <<i>>
  IN  up[hole]

PercolateDown(a, n, e, hole) == Slide(a, DownPath(a, n, e, hole), a[hole])

(* Mutant of Reindex: only the timer in the last hole learns its place.    *)
ReindexLast(a, path) ==
  [t \in Timers |->
     IF path # <<>> /\ a[path[Len(path)]] = t THEN path[Len(path)]
     ELSE index[t]]

(* The timers at the places of `path' learn their new place.               *)
Reindex(a, path) ==
  [t \in Timers |->
     IF \E k \in 1..Len(path) : a[path[k]] = t
     THEN CHOOSE i \in {path[k] : k \in 1..Len(path)} : a[i] = t
     ELSE index[t]]

(* The constructor's loop over the inner places, from the last to 0.       *)
Heapify(a, n, e) ==
  LET from[i \in 0..n] ==
        IF i > (n - 1) \div 2 THEN a ELSE PercolateDown(from[i + 1], n, e, i)
  IN  from[0]
-----------------------------------------------------------------------------
(* The operations.                                                         *)

(* time_heap(cap)                                                          *)
HeapEmpty ==
  /\ array = [i \in {} |-> 0]
  /\ capacity = Capacity /\ cur_size = 0
  /\ expire \in [Timers -> {CHOOSE x \in Times : TRUE}]
  /\ cb_func = [t \in Timers |-> FALSE]
  /\ index = [t \in Timers |-> 0]

(* time_heap(init_array, size, capacity)                                   *)
HeapFrom(init_array, size, e) ==
  /\ size <= Capacity
  /\ array = Heapify(init_array, size, e)
  /\ capacity = Capacity /\ cur_size = size
  /\ expire = e
  /\ cb_func = [t \in Timers |-> \E i \in 0..size - 1 : init_array[i] = t]
  /\ index = [t \in Timers |->
                IF \E i \in 0..size - 1 : array[i] = t
                THEN CHOOSE i \in 0..size - 1 : array[i] = t ELSE 0]

(* add_timer of a new timer; a full array is doubled.                      *)
AddTimer(t, e) ==
  LET path == UpPath(array, expire, e, cur_size)
  IN  /\ capacity' = IF cur_size >= capacity THEN 2 * capacity ELSE capacity
      /\ cur_size' = cur_size + 1
      /\ array' = Slide(array, path, t)
      /\ expire' = [expire EXCEPT ![t] = e]
      /\ cb_func' = [cb_func EXCEPT ![t] = TRUE]
      /\ index' = Reindex(array', path)

(* del_timer: the timer stays in the heap and will do nothing.             *)
DelTimer(t) ==
  /\ cb_func' = [cb_func EXCEPT ![t] = FALSE]
  /\ UNCHANGED <<array, capacity, cur_size, expire, index>>

(* A user of the heap gives a timer a new time and calls percolate_down on *)
(* its index.                                                              *)
AdjustTimer(t, e) ==
  LET later == [expire EXCEPT ![t] = e]
      path  == DownPath(array, cur_size, later, index[t])
  IN  /\ expire' = later
      /\ array' = Slide(array, path, array[index[t]])
      /\ index' = Reindex(array', path)
      /\ UNCHANGED <<capacity, cur_size, cb_func>>

(* Mutant of SinkPath: the last timer is moved to the top and stays there. *)
SinkPathNone(rest, n) == <<0>>

SinkPath(rest, n) == DownPath(rest, n, expire, 0)

(* pop_timer of a heap that is not empty.  Of the only timer, array[0] is  *)
(* that timer itself, already deleted, and its index is written twice.     *)
PopTimer ==
  LET n    == cur_size - 1
      rest == [i \in 0..n - 1 |-> IF i = 0 THEN array[n] ELSE array[i]]
      path == SinkPath(rest, n)
  IN  /\ cur_size > 0
      /\ cur_size' = n
      /\ array' = IF n = 0 THEN rest ELSE Slide(rest, path, rest[0])
      /\ index' = IF n = 0 THEN [index EXCEPT ![Top] = 0]
                           ELSE Reindex(array', path)
      /\ UNCHANGED <<capacity, expire, cb_func>>
-----------------------------------------------------------------------------
(* The heap on its own, used as its interface allows: a time only ever     *)
(* moves back when the clock does (see AdjustTimer's callers).             *)

HeapInit ==
  \/ HeapEmpty
  \/ \E e \in [Timers -> Times], S \in SUBSET Timers :
       \E size \in 0..Capacity :
         \E init_array \in [0..size - 1 -> S] :
           /\ S = {init_array[i] : i \in 0..size - 1}
           /\ \A i, j \in 0..size - 1 : i # j => init_array[i] # init_array[j]
           /\ HeapFrom(init_array, size, e)

HeapNext ==
  \/ \E t \in Timers \ InHeap, e \in Times : AddTimer(t, e)
  \/ \E t \in InHeap : DelTimer(t)
  \/ \E t \in InHeap, e \in Times : e >= expire[t] /\ AdjustTimer(t, e)
  \/ PopTimer

HeapSpec == HeapInit /\ [][HeapNext]_heapVars
-----------------------------------------------------------------------------
(* Properties                                                              *)

(* Every variable has its type; in particular the timers fit the array.    *)
HeapTypeOK ==
  /\ cur_size \in 0..capacity
  /\ array \in [0..cur_size - 1 -> Timers]
  /\ expire \in [Timers -> Times]
  /\ cb_func \in [Timers -> BOOLEAN]
  /\ index \in [Timers -> Nat]

(* No timer is due before its parent, after any sequence of additions,     *)
(* postponements and pops and after the constructor's heapify.             *)
HeapOrdered ==
  \A i \in 1..cur_size - 1 : expire[array[(i - 1) \div 2]] <= expire[array[i]]

(* Every timer in the heap knows its place, and no timer is in two: what a *)
(* later percolate_down(timer->index) relies on.                           *)
IndexRight ==
  /\ HeapTypeOK
  /\ \A i \in 0..cur_size - 1 : index[array[i]] = i

(* The heap is a queue of timers: none is lost or doubled by the moves in  *)
(* the array, and the one that is popped expires first.                    *)
TQ == INSTANCE TimerQueue WITH pending <- InHeap
ImplementsTimerQueue == TQ!Spec
=============================================================================
