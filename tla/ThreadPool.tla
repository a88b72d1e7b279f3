----------------------------- MODULE ThreadPool -----------------------------
(***************************************************************************)
(* threadpool<T> of thread_pool/thread_pool.h: callers hand requests to    *)
(* append, detached worker threads take them off m_workqueue in run and    *)
(* call process on them.  The queue is guarded by m_queuelocker and        *)
(* counted by m_queuestat.                                                 *)
(*                                                                         *)
(* One action is what a thread does between two points where another       *)
(* thread can see it: lock, the test and read of the queue, the change of  *)
(* the queue with the unlock, post, wait.  Each request is a job of its    *)
(* own and is passed to append once; the server appends the same           *)
(* connection object again and again, and every such call is a new job.    *)
(***************************************************************************)
EXTENDS Naturals, Sequences, FiniteSets, Locker

CONSTANTS
  Workers,        (* the threads the constructor creates                  *)
  Producers,      (* the threads that call append                         *)
  Requests,       (* the jobs                                             *)
  NULL,           (* the null request, which append accepts as well       *)
  MaxRequests,    (* m_max_requests                                       *)
  Interruptible   (* whether a signal handler may interrupt sem_wait      *)

Threads == Workers \cup Producers
Args    == Requests \cup {NULL}

ASSUME PoolAssumption ==
  /\ Workers # {} /\ IsFiniteSet(Workers)
  /\ IsFiniteSet(Producers)
  /\ Workers \cap Producers = {}
  /\ NoThread \notin Threads
  /\ NULL \notin Requests
  /\ MaxRequests \in Nat \ {0}
  /\ Interruptible \in BOOLEAN

VARIABLES
  m_workqueue,    (* the std::list                                        *)
  m_queuelocker,  (* its locker                                           *)
  m_queuestat,    (* its semaphore                                        *)
  m_stop,
  pool,           (* life of the object: "constructing", "ready" or       *)
                  (* "destroyed"                                          *)
  pc,             (* where each thread is                                 *)
  request,        (* the local variable `request' of append and of run    *)
  accepted,       (* history: jobs pushed, in order                       *)
  started,        (* history: jobs popped, in order                       *)
  refused         (* history: jobs append returned false for              *)

shared  == <<m_workqueue, m_queuelocker, m_queuestat, m_stop, pool>>
history == <<accepted, started, refused>>
vars    == <<shared, pc, request, history>>

WorkerPC   == {"unborn", "loop", "wait", "lock", "front", "pop", "process",
               "exited", "undefined"}
ProducerPC == {"idle", "enter", "size", "push", "post"}

(* A worker at one of these steps reads or writes a member of the pool. *)
TouchesPool == {"loop", "wait", "lock", "front", "pop"}

Goto(t, l) == pc' = [pc EXCEPT ![t] = l]

Init ==
  /\ m_workqueue = <<>>
  /\ m_queuelocker = NoThread
  /\ m_queuestat = 0
  /\ m_stop = FALSE
  /\ pool = "constructing"
  /\ pc = [t \in Threads |-> IF t \in Workers THEN "unborn" ELSE "idle"]
  /\ request = [t \in Threads |-> NULL]
  /\ accepted = <<>> /\ started = <<>> /\ refused = {}
-----------------------------------------------------------------------------
(* Construction and destruction.                                           *)

(* One turn of the constructor's loop: pthread_create and pthread_detach.  *)
(* The thread runs at once, before the constructor is done.                *)
Spawn(w) ==
  /\ pool = "constructing"
  /\ pc[w] = "unborn"
  /\ Goto(w, "loop")
  /\ pool' = IF \A v \in Workers \ {w} : pc[v] # "unborn"
             THEN "ready" ELSE "constructing"
  /\ UNCHANGED <<m_workqueue, m_queuelocker, m_queuestat, m_stop, request,
                 history>>

(* pthread_create or pthread_detach fails: the constructor throws, so the  *)
(* members are destroyed, under the threads created so far.                *)
SpawnFails ==
  /\ pool = "constructing"
  /\ pool' = "destroyed"
  /\ UNCHANGED <<m_workqueue, m_queuelocker, m_queuestat, m_stop, pc,
                 request, history>>

(* ~threadpool, called when no append is under way: first its body, ...    *)
Stop ==
  /\ pool = "ready" /\ ~m_stop
  /\ \A p \in Producers : pc[p] = "idle"
  /\ m_stop' = TRUE
  /\ UNCHANGED <<m_workqueue, m_queuelocker, m_queuestat, pool, pc, request,
                 history>>

(* ... then the members: nothing waits for the workers.                    *)
Destroy ==
  /\ pool = "ready" /\ m_stop
  /\ pool' = "destroyed"
  /\ UNCHANGED <<m_workqueue, m_queuelocker, m_queuestat, m_stop, pc,
                 request, history>>

(* A worker that is not yet gone uses a member of the destroyed pool; what *)
(* it does from then on is not defined and is not followed any further.    *)
UseDestroyed(w) ==
  /\ pool = "destroyed"
  /\ pc[w] \in TouchesPool
  /\ Goto(w, "undefined")
  /\ UNCHANGED <<shared, request, history>>
-----------------------------------------------------------------------------
(* append                                                                  *)

(* A caller enters append with a job that was not passed before.           *)
AppendCall(p, r) ==
  /\ pool = "ready" /\ ~m_stop
  /\ pc[p] = "idle"
  /\ r \notin refused
  /\ \A i \in 1..Len(accepted) : accepted[i] # r
  /\ \A q \in Producers : pc[q] # "idle" => request[q] # r
  /\ request' = [request EXCEPT ![p] = r]
  /\ Goto(p, "enter")
  /\ UNCHANGED <<shared, history>>

AppendLock(p) ==
  /\ pc[p] = "enter"
  /\ Lock(m_queuelocker, p)
  /\ Goto(p, "size")
  /\ UNCHANGED <<m_workqueue, m_queuestat, m_stop, pool, request, history>>

(* Mutants of Full: no test of the size; >= in place of >.                 *)
FullNever == FALSE
FullEarly == Len(m_workqueue) >= MaxRequests

(* m_workqueue.size() > m_max_requests: the list holds one request more    *)
(* than its limit before append refuses.                                   *)
Full == Len(m_workqueue) > MaxRequests

AppendFull(p) ==
  /\ pc[p] = "size" /\ Full
  /\ Unlock(m_queuelocker, p)
  /\ refused' = refused \cup {request[p]}
  /\ Goto(p, "idle")
  /\ UNCHANGED <<m_workqueue, m_queuestat, m_stop, pool, request, accepted,
                 started>>

AppendRoom(p) ==
  /\ pc[p] = "size" /\ ~Full
  /\ Goto(p, "push")
  /\ UNCHANGED <<shared, request, history>>

AppendPush(p) ==
  /\ pc[p] = "push"
  /\ m_workqueue' = Append(m_workqueue, request[p])
  /\ accepted' = Append(accepted, request[p])
  /\ Unlock(m_queuelocker, p)
  /\ Goto(p, "post")
  /\ UNCHANGED <<m_queuestat, m_stop, pool, request, started, refused>>

AppendPost(p) ==
  /\ pc[p] = "post"
  /\ Post(m_queuestat)
  /\ Goto(p, "idle")
  /\ UNCHANGED <<m_workqueue, m_queuelocker, m_stop, pool, request, history>>
-----------------------------------------------------------------------------
(* run                                                                     *)

(* while(!m_stop)                                                          *)
RunLoop(w) ==
  /\ pool # "destroyed"
  /\ pc[w] = "loop"
  /\ Goto(w, IF m_stop THEN "exited" ELSE "wait")
  /\ UNCHANGED <<shared, request, history>>

RunWait(w) ==
  /\ pool # "destroyed"
  /\ pc[w] = "wait"
  /\ Wait(m_queuestat)
  /\ Goto(w, "lock")
  /\ UNCHANGED <<m_workqueue, m_queuelocker, m_stop, pool, request, history>>

(* sem_wait returns -1 with EINTR; run does not look at the result.        *)
RunInterrupted(w) ==
  /\ Interruptible
  /\ pool # "destroyed"
  /\ pc[w] = "wait"
  /\ Goto(w, "lock")
  /\ UNCHANGED <<shared, request, history>>

RunLock(w) ==
  /\ pool # "destroyed"
  /\ pc[w] = "lock"
  /\ Lock(m_queuelocker, w)
  /\ Goto(w, "front")
  /\ UNCHANGED <<m_workqueue, m_queuestat, m_stop, pool, request, history>>

RunEmpty(w) ==
  /\ pool # "destroyed"
  /\ pc[w] = "front"
  /\ m_workqueue = <<>>
  /\ Unlock(m_queuelocker, w)
  /\ Goto(w, "loop")
  /\ UNCHANGED <<m_workqueue, m_queuestat, m_stop, pool, request, history>>

RunFront(w) ==
  /\ pool # "destroyed"
  /\ pc[w] = "front"
  /\ m_workqueue # <<>>
  /\ request' = [request EXCEPT ![w] = Head(m_workqueue)]
  /\ Goto(w, "pop")
  /\ UNCHANGED <<shared, history>>

(* pop_front, unlock, and the null test, which drops a null request.       *)
RunPop(w) ==
  /\ pool # "destroyed"
  /\ pc[w] = "pop"
  /\ m_workqueue' = Tail(m_workqueue)
  /\ started' = Append(started, request[w])
  /\ Unlock(m_queuelocker, w)
  /\ Goto(w, IF request[w] = NULL THEN "loop" ELSE "process")
  /\ UNCHANGED <<m_queuestat, m_stop, pool, request, accepted, refused>>

(* request->process() returns; it is not a member of the pool.             *)
RunProcess(w) ==
  /\ pc[w] = "process"
  /\ Goto(w, "loop")
  /\ UNCHANGED <<shared, request, history>>
-----------------------------------------------------------------------------
AppendStep(p) ==
  \/ AppendLock(p) \/ AppendFull(p) \/ AppendRoom(p)
  \/ AppendPush(p) \/ AppendPost(p)

RunStep(w) ==
  \/ RunLoop(w) \/ RunWait(w) \/ RunLock(w) \/ RunEmpty(w)
  \/ RunFront(w) \/ RunPop(w) \/ RunProcess(w)

LifeStep == SpawnFails \/ Stop \/ Destroy

Next ==
  \/ \E p \in Producers : AppendStep(p) \/ \E r \in Args : AppendCall(p, r)
  \/ \E w \in Workers :
       RunStep(w) \/ RunInterrupted(w) \/ Spawn(w) \/ UseDestroyed(w)
  \/ LifeStep

Spec == Init /\ [][Next]_vars

(* The threads are scheduled, append and process return.  Nobody promises  *)
(* a caller, a signal, a failure or the end of the pool.                   *)
Fairness ==
  /\ \A w \in Workers : WF_vars(RunStep(w)) /\ WF_vars(Spawn(w))
  /\ \A p \in Producers : WF_vars(AppendStep(p))

FairSpec == Spec /\ Fairness
-----------------------------------------------------------------------------
(* Properties                                                              *)

(* Every variable has its type; in particular m_queuestat never goes below *)
(* zero and a thread's local request is something append accepts.          *)
TypeOK ==
  /\ m_workqueue \in Seq(Args)
  /\ m_queuelocker \in Threads \cup {NoThread}
  /\ m_queuestat \in Nat
  /\ m_stop \in BOOLEAN
  /\ pool \in {"constructing", "ready", "destroyed"}
  /\ pc \in [Threads -> WorkerPC \cup ProducerPC]
  /\ \A w \in Workers : pc[w] \in WorkerPC
  /\ \A p \in Producers : pc[p] \in ProducerPC
  /\ request \in [Threads -> Args]
  /\ accepted \in Seq(Args)
  /\ started \in Seq(Args)
  /\ refused \subseteq Args

(* The threads between lock and unlock in append and in run.               *)
Holds == {"size", "push", "front", "pop"}

(* m_queuelocker is held by exactly the thread that is between lock and    *)
(* unlock, on every path out of append and run (the refusal, the empty     *)
(* queue and the normal one): no two threads are at the list together and  *)
(* nobody leaves with the lock.  A worker that ran into the destroyed pool *)
(* may have held it.                                                       *)
CriticalSection ==
  /\ \A t \in Threads : pc[t] \in Holds => m_queuelocker = t
  /\ \A t \in Threads :
       m_queuelocker = t => pc[t] \in Holds \cup {"undefined"}

(* append tests size() > m_max_requests, so the list may hold one request  *)
(* more than the limit, never two, whatever the number of callers; a       *)
(* caller past the test still finds room when it pushes.                   *)
QueueBound ==
  /\ Len(m_workqueue) <= MaxRequests + 1
  /\ \A p \in Producers : pc[p] = "push" => Len(m_workqueue) <= MaxRequests

(* The workers that will look at the queue without waiting again, and the  *)
(* callers that still owe it a post.                                       *)
Woken   == {w \in Workers : pc[w] \in {"lock", "front", "pop"}}
Posting == {p \in Producers : pc[p] = "post"}
Tokens  == m_queuestat + Cardinality(Woken) + Cardinality(Posting)

(* No lost wakeup: for every queued request there is a count in            *)
(* m_queuestat, a worker already woken for it or a caller about to post,   *)
(* though push and post are not one step and sem_wait may return early.    *)
(* Until the pool is gone.                                                 *)
NoLostWakeup == pool # "destroyed" => Len(m_workqueue) <= Tokens

(* When no signal handler can interrupt sem_wait, a worker that was woken  *)
(* finds a request: the test for an empty queue in run never holds.        *)
WokenFindsWork ==
  ~Interruptible => \A w \in Workers : pc[w] = "front" => m_workqueue # <<>>

(* The pool is a first-in first-out queue that loses nothing, duplicates   *)
(* nothing, and refuses only when more than m_max_requests requests wait.  *)
RQ == INSTANCE RequestQueue
ImplementsRequestQueue == RQ!Spec

(* Every request append accepted, the null one included, is taken by a     *)
(* worker, unless the pool is stopped or its construction failed: spurious *)
(* wakeups, refusals and null requests never leave the queue unattended.   *)
AcceptedIsStarted ==
  \A i \in 1..Cardinality(Args) :
    Len(accepted) >= i ~> (Len(started) >= i \/ m_stop \/ pool = "destroyed")
=============================================================================
