----------------------------- MODULE TimerQueue -----------------------------
(***************************************************************************)
(* What a container of timers promises: it holds the timers that were      *)
(* added and not removed, a cancelled timer stays but will do nothing, and *)
(* the timer that leaves is one of those that expire first.                *)
(***************************************************************************)
EXTENDS Integers

CONSTANTS Timers, Times

VARIABLES
  pending,   (* the timers in the container                                *)
  expire,    (* when each is due                                           *)
  cb_func    (* whether each still has something to do                     *)

tqVars == <<pending, expire, cb_func>>

Init ==
  /\ pending \subseteq Timers
  /\ expire \in [Timers -> Times]
  /\ cb_func \in [Timers -> BOOLEAN]

Add(t, e) ==
  /\ t \notin pending
  /\ pending' = pending \cup {t}
  /\ expire' = [expire EXCEPT ![t] = e]
  /\ cb_func' = [cb_func EXCEPT ![t] = TRUE]

Cancel(t) ==
  /\ t \in pending
  /\ cb_func' = [cb_func EXCEPT ![t] = FALSE]
  /\ UNCHANGED <<pending, expire>>

Postpone(t, e) ==
  /\ t \in pending /\ e >= expire[t]
  /\ expire' = [expire EXCEPT ![t] = e]
  /\ UNCHANGED <<pending, cb_func>>

Remove(t) ==
  /\ t \in pending
  /\ \A u \in pending : expire[t] <= expire[u]
  /\ pending' = pending \ {t}
  /\ UNCHANGED <<expire, cb_func>>

(* Only for a container that lets go of a timer it is asked to delete.     *)
Delete(t) ==
  /\ t \in pending
  /\ pending' = pending \ {t}
  /\ UNCHANGED <<expire, cb_func>>

Next ==
  \E t \in Timers :
    Cancel(t) \/ Remove(t) \/ \E e \in Times : Add(t, e) \/ Postpone(t, e)

Spec == Init /\ [][Next]_tqVars

(* The same with deletion.                                                 *)
DeletingSpec == Init /\ [][Next \/ \E t \in Timers : Delete(t)]_tqVars
=============================================================================
