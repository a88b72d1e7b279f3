------------------------------- MODULE Locker -------------------------------
(***************************************************************************)
(* The synchronisation wrappers of multi_thread/locker.h as action         *)
(* operators on the variable of the object they wrap.  A `locker' is the   *)
(* thread that holds it or NoThread; a `sem' is its count (sem_init starts *)
(* it at 0).  A call that blocks in the kernel is an action that is not    *)
(* enabled; the wrappers' Boolean results are ignored by every caller.     *)
(***************************************************************************)
EXTENDS Naturals

CONSTANT NoThread    (* the owner of a free locker *)

(* Mutant of Lock: it does not wait.                                       *)
LockUntested(mutex, t) == mutex' = t

(* locker::lock: waits until the mutex is free and takes it. *)
Lock(mutex, t) == mutex = NoThread /\ mutex' = t

(* Mutant of Unlock: the lock stays taken.                                 *)
UnlockNot(mutex, t) == UNCHANGED mutex

(* locker::unlock by the thread that holds it. *)
Unlock(mutex, t) == mutex = t /\ mutex' = NoThread

(* Mutant of Wait: it does not wait.                                       *)
WaitUntested(sem) == sem' = sem - 1

(* sem::wait: waits for a positive count and takes one. *)
Wait(sem) == sem > 0 /\ sem' = sem - 1

(* Mutant of Post: nothing is added.                                       *)
PostNot(sem) == UNCHANGED sem

(* sem::post: adds one; it never blocks. *)
Post(sem) == sem' = sem + 1
=============================================================================
