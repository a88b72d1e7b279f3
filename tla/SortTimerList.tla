--------------------------- MODULE SortTimerList ----------------------------
(***************************************************************************)
(* sort_timer_lst of timer/list_timer.h: a doubly linked list of timers,   *)
(* sorted by expire, with pointers to its head and its tail.               *)
(*                                                                         *)
(* tick calls back between two removals; the callbacks of the program do   *)
(* not touch the list, so nothing happens to it inside a tick.             *)
(***************************************************************************)
EXTENDS Integers, FiniteSets

CONSTANTS
  Timers,     (* the util_timer objects                                    *)
  Times       (* the values of expire and of the clock                     *)

NULL  == "NULL"
Never == -1

ASSUME ListAssumption ==
  /\ IsFiniteSet(Timers) /\ NULL \notin Timers
  /\ Times \subseteq Nat /\ Times # {}

VARIABLES
  head, tail,
  next, prev, expire,     (* the members of the timers                     *)
  cur                     (* the local variable of tick, or Never outside  *)

links == <<head, tail, next, prev>>
vars  == <<links, expire, cur>>

Init ==
  /\ head = NULL /\ tail = NULL
  /\ next = [t \in Timers |-> NULL] /\ prev = [t \in Timers |-> NULL]
  /\ expire = [t \in Timers |-> CHOOSE e \in Times : TRUE]
  /\ cur = Never

(* The pointers a loop that follows nx from t comes to: t, nx[t] and so on *)
(* up to NULL.                                                             *)
Walk(nx, t) ==
  LET at[k \in 0..Cardinality(Timers)] ==
        IF k = 0 THEN t
        ELSE IF at[k - 1] = NULL THEN NULL ELSE nx[at[k - 1]]
  IN  at

Reached(nx, t) ==
  LET at == Walk(nx, t) IN {at[k] : k \in DOMAIN at} \ {NULL}

InList == Reached(next, head)
-----------------------------------------------------------------------------
(* Mutant of Before: the comparison the other way round.                   *)
BeforeEarlier(t, u) == u # NULL /\ expire'[u] < expire'[t]

(* The test of the private add_timer.                                      *)
Before(t, u) == u # NULL /\ expire'[t] < expire'[u]

(* Mutant of NewTail: tail is left where it was.                           *)
NewTailNot(t, tmp) == tail

NewTail(t, tmp) == IF tmp = NULL THEN t ELSE tail

(* The private add_timer, for links nx and pv: t goes before the first     *)
(* timer after lst_head that is due later, or to the end.                  *)
AddAfter(t, lst_head, nx, pv) ==
  LET at   == Walk(nx, lst_head)
      stop == {k \in DOMAIN at \ {0} : at[k] = NULL \/ Before(t, at[k])}
      k    == CHOOSE i \in stop : \A j \in stop : i <= j
      tmp  == at[k]
  IN  /\ next' = [nx EXCEPT ![at[k - 1]] = t, ![t] = tmp]
      /\ prev' = [u \in Timers |-> IF u = t THEN at[k - 1]
                                   ELSE IF u = tmp THEN t ELSE pv[u]]
      /\ tail' = NewTail(t, tmp)

(* The public add_timer of a new timer due at e.                           *)
AddTimer(t, e) ==
  LET nx == [next EXCEPT ![t] = NULL]        \* util_timer()
      pv == [prev EXCEPT ![t] = NULL]
  IN  /\ cur = Never
      /\ expire' = [expire EXCEPT ![t] = e]
      /\ \/ /\ head = NULL
            /\ head' = t /\ tail' = t
            /\ next' = nx /\ prev' = pv
         \/ /\ head # NULL /\ e < expire[head]
            /\ next' = [nx EXCEPT ![t] = head]
            /\ prev' = [pv EXCEPT ![head] = t]
            /\ head' = t
            /\ UNCHANGED tail
         \/ /\ head # NULL /\ e >= expire[head]
            /\ AddAfter(t, head, nx, pv)
            /\ UNCHANGED head
      /\ UNCHANGED cur

(* The early return of adjust_timer.                                       *)
StaysPut(t, e) == next[t] # NULL => e < expire[next[t]]

(* Mutant of AdjustTimer: the timer is cut out as if it were never first.  *)
AdjustTimerInside(t, e) ==
  /\ cur = Never
  /\ expire' = [expire EXCEPT ![t] = e]
  /\ \/ /\ StaysPut(t, e)
        /\ UNCHANGED links
     \/ /\ ~StaysPut(t, e)
        /\ AddAfter(t, next[t],
                    [u \in Timers |->
                       IF u = prev[t] THEN next[t] ELSE next[u]],
                    [prev EXCEPT ![next[t]] = prev[t]])
        /\ UNCHANGED head
  /\ UNCHANGED cur

(* The caller has given t a later time and calls adjust_timer.             *)
AdjustTimer(t, e) ==
  /\ cur = Never
  /\ expire' = [expire EXCEPT ![t] = e]
  /\ \/ /\ StaysPut(t, e)
        /\ UNCHANGED links
     \/ /\ ~StaysPut(t, e)
        /\ t = head
        /\ head' = next[t]
        /\ AddAfter(t, next[t], [next EXCEPT ![t] = NULL],
                    [prev EXCEPT ![next[t]] = NULL])
     \/ /\ ~StaysPut(t, e)
        /\ t # head
        /\ AddAfter(t, next[t], [next EXCEPT ![prev[t]] = next[t]],
                    [prev EXCEPT ![next[t]] = prev[t]])
        /\ UNCHANGED head
  /\ UNCHANGED cur

DelTimer(t) ==
  /\ cur = Never
  /\ \/ /\ t = head /\ t = tail
        /\ head' = NULL /\ tail' = NULL
        /\ UNCHANGED <<next, prev>>
     \/ /\ t = head /\ t # tail
        /\ head' = next[t]
        /\ prev' = [prev EXCEPT ![next[t]] = NULL]
        /\ UNCHANGED <<tail, next>>
     \/ /\ t # head /\ t = tail
        /\ tail' = prev[t]
        /\ next' = [next EXCEPT ![prev[t]] = NULL]
        /\ UNCHANGED <<head, prev>>
     \/ /\ t # head /\ t # tail
        /\ next' = [next EXCEPT ![prev[t]] = next[t]]
        /\ prev' = [prev EXCEPT ![next[t]] = prev[t]]
        /\ UNCHANGED <<head, tail>>
  /\ UNCHANGED <<expire, cur>>

TickStart(now) ==
  /\ cur = Never /\ head # NULL
  /\ cur' = now
  /\ UNCHANGED <<links, expire>>

Due == head # NULL /\ cur >= expire[head]

(* One turn of the loop.  tail is left alone, also when the list is empty  *)
(* then: it points to a freed timer until add_timer sets it.               *)
TickPop ==
  /\ cur # Never /\ Due
  /\ head' = next[head]
  /\ prev' = [u \in Timers |-> IF u = next[head] THEN NULL ELSE prev[u]]
  /\ UNCHANGED <<tail, next, expire, cur>>

TickEnd ==
  /\ cur # Never /\ ~Due
  /\ cur' = Never
  /\ UNCHANGED <<links, expire>>
-----------------------------------------------------------------------------
Next ==
  \/ \E t \in Timers \ InList, e \in Times : AddTimer(t, e)
  \/ \E t \in InList, e \in Times : e >= expire[t] /\ AdjustTimer(t, e)
  \/ \E t \in InList : DelTimer(t)
  \/ \E now \in Times : TickStart(now)
  \/ TickPop \/ TickEnd

Spec == Init /\ [][Next]_vars
-----------------------------------------------------------------------------
(* Properties                                                              *)

Pointers == Timers \cup {NULL}

(* Every variable has its type.                                            *)
TypeOK ==
  /\ head \in Pointers /\ tail \in Pointers
  /\ next \in [Timers -> Pointers] /\ prev \in [Timers -> Pointers]
  /\ expire \in [Timers -> Times]
  /\ cur \in Times \cup {Never}

(* The pointers make one list: prev undoes next, nothing comes before head *)
(* and tail is the last timer, so that no operation loses one or follows a *)
(* pointer to a freed one.                                                 *)
Linked ==
  /\ TypeOK
  /\ head # NULL =>
       /\ prev[head] = NULL
       /\ tail \in InList /\ next[tail] = NULL
       /\ \A t \in InList : next[t] # NULL => prev[next[t]] = t

(* Every timer is due no later than the next one, which the early return   *)
(* of adjust_timer and the end of tick's loop rely on.                     *)
Sorted == \A t \in InList : next[t] # NULL => expire[t] <= expire[next[t]]

(* The timers in the list are those that were added and neither deleted    *)
(* nor ticked: moving one never loses it or one of its neighbours.         *)
TQ == INSTANCE TimerQueue
        WITH pending <- InList, cb_func <- [t \in Timers |-> TRUE]
ImplementsTimerQueue == TQ!DeletingSpec
=============================================================================
