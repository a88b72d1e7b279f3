---------------------------- MODULE RequestQueue ----------------------------
(***************************************************************************)
(* What the thread pool promises to the caller of append and to the        *)
(* requests, without locks, semaphores or threads: an accepted request is  *)
(* started exactly once, requests start in the order they were accepted,   *)
(* and a request is refused only while more than MaxRequests accepted ones *)
(* have not been started.                                                  *)
(***************************************************************************)
EXTENDS Naturals, Sequences

CONSTANTS
  Args,         (* what a caller may pass to append                  *)
  MaxRequests   (* m_max_requests                                    *)

VARIABLES
  accepted,     (* the requests append returned true for, in order   *)
  started,      (* the requests taken off the queue, in order        *)
  refused       (* the requests append returned false for            *)

rqVars == <<accepted, started, refused>>

Waiting == Len(accepted) - Len(started)

Init ==
  /\ accepted = <<>>
  /\ started = <<>>
  /\ refused = {}

Accept(r) ==
  /\ Waiting <= MaxRequests
  /\ accepted' = Append(accepted, r)
  /\ UNCHANGED <<started, refused>>

Refuse(r) ==
  /\ Waiting > MaxRequests
  /\ refused' = refused \cup {r}
  /\ UNCHANGED <<accepted, started>>

Start ==
  /\ Waiting > 0
  /\ started' = Append(started, accepted[Len(started) + 1])
  /\ UNCHANGED <<accepted, refused>>

Next == Start \/ \E r \in Args : Accept(r) \/ Refuse(r)

Spec == Init /\ [][Next]_rqVars
=============================================================================
