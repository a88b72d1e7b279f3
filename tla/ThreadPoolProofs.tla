-------------------------- MODULE ThreadPoolProofs --------------------------
(***************************************************************************)
(* ThreadPool's safety properties for every number of workers, callers and *)
(* jobs and every limit of the queue.                                      *)
(***************************************************************************)
EXTENDS ThreadPool, FiniteSetTheorems, TLAPS

(* What a worker about to call pop_front knows: the request it read is     *)
(* still at the head of the queue.                                         *)
ReadyToPop ==
  \A w \in Workers :
    pc[w] = "pop" => m_workqueue # <<>> /\ request[w] = Head(m_workqueue)

(* The inductive invariant the other proofs rest on.  TypeOK needs         *)
(* ReadyToPop (the tail of an empty list has no type), which holds because *)
(* the lock keeps other workers off the list, which is CriticalSection.    *)
LockInv == TypeOK /\ CriticalSection /\ ReadyToPop

(* LockInv holds at first: no lock is held, nothing is queued.             *)
LEMMA LockInvInit == Init => LockInv
<1> SUFFICES ASSUME Init PROVE LockInv
  OBVIOUS
<1> USE PoolAssumption DEF PoolAssumption, Init
<1>1. pc \in [Threads -> WorkerPC \cup ProducerPC]
  BY DEF Threads, WorkerPC, ProducerPC
<1>2. /\ \A w \in Workers : pc[w] \in WorkerPC
      /\ \A p \in Producers : pc[p] \in ProducerPC
  BY DEF Threads, WorkerPC, ProducerPC
<1>3. request \in [Threads -> Args] /\ <<>> \in Seq(Args)
  BY DEF Args
<1>4. TypeOK
  BY <1>1, <1>2, <1>3 DEF TypeOK
<1>5. CriticalSection /\ ReadyToPop
  BY DEF CriticalSection, ReadyToPop, Holds, Threads
<1> QED
  BY <1>4, <1>5 DEF LockInv

(* A caller's step keeps LockInv.                                          *)
LEMMA LockInvAppend ==
  ASSUME LockInv, NEW p \in Producers, AppendStep(p)
  PROVE  LockInv'
<1> USE PoolAssumption
    DEF PoolAssumption, LockInv, TypeOK, CriticalSection, ReadyToPop, Holds,
        shared, history, Goto, Threads, WorkerPC, ProducerPC, Lock, Unlock
<1>1. CASE AppendLock(p)
  BY <1>1 DEF AppendLock
<1>2. CASE AppendFull(p)
  BY <1>2 DEF AppendFull, Full
<1>3. CASE AppendRoom(p)
  BY <1>3 DEF AppendRoom, Full
<1>4. CASE AppendPush(p)
  <2>1. TypeOK' /\ CriticalSection'
    BY <1>4 DEF AppendPush
  <2>2. \A w \in Workers : pc'[w] # "pop"
    BY <1>4 DEF AppendPush
  <2> QED
    BY <2>1, <2>2
<1>5. CASE AppendPost(p)
  BY <1>5 DEF AppendPost, Post
<1> QED
  BY <1>1, <1>2, <1>3, <1>4, <1>5 DEF AppendStep

(* A worker's step in run keeps LockInv.                                   *)
LEMMA LockInvRun ==
  ASSUME LockInv, NEW w \in Workers, RunStep(w)
  PROVE  LockInv'
<1> USE PoolAssumption
    DEF PoolAssumption, LockInv, TypeOK, CriticalSection, ReadyToPop, Holds,
        shared, history, Goto, Threads, WorkerPC, ProducerPC, Lock, Unlock
<1>1. CASE RunLoop(w)
  BY <1>1 DEF RunLoop
<1>2. CASE RunWait(w)
  BY <1>2 DEF RunWait, Wait
<1>3. CASE RunLock(w)
  BY <1>3 DEF RunLock
<1>4. CASE RunEmpty(w)
  BY <1>4 DEF RunEmpty
<1>5. CASE RunFront(w)
  <2>1. Head(m_workqueue) \in Args
    BY <1>5 DEF RunFront
  <2>2. TypeOK' /\ CriticalSection'
    BY <1>5, <2>1 DEF RunFront
  <2>3. ReadyToPop'
    BY <1>5 DEF RunFront
  <2> QED
    BY <2>2, <2>3
<1>6. CASE RunPop(w)
  <2>1. m_workqueue' \in Seq(Args) /\ started' \in Seq(Args)
    BY <1>6 DEF RunPop
  <2>2. TypeOK' /\ CriticalSection'
    BY <1>6, <2>1 DEF RunPop
  <2>3. \A v \in Workers : pc'[v] # "pop"
    BY <1>6 DEF RunPop
  <2> QED
    BY <2>2, <2>3
<1>7. CASE RunProcess(w)
  BY <1>7 DEF RunProcess
<1> QED
  BY <1>1, <1>2, <1>3, <1>4, <1>5, <1>6, <1>7 DEF RunStep

(* No step of a thread or of the pool's life breaks LockInv.               *)
LEMMA LockInvNext == LockInv /\ [Next]_vars => LockInv'
<1> SUFFICES ASSUME LockInv, [Next]_vars PROVE LockInv'
  OBVIOUS
<1> USE PoolAssumption
    DEF PoolAssumption, LockInv, TypeOK, CriticalSection, ReadyToPop, Holds,
        shared, history, Goto, Threads, WorkerPC, ProducerPC
<1>1. ASSUME NEW p \in Producers, NEW r \in Args, AppendCall(p, r)
      PROVE  LockInv'
  BY <1>1 DEF AppendCall
<1>2. ASSUME NEW w \in Workers, RunInterrupted(w) PROVE LockInv'
  BY <1>2 DEF RunInterrupted
<1>3. ASSUME NEW w \in Workers, Spawn(w) PROVE LockInv'
  BY <1>3 DEF Spawn
<1>4. ASSUME NEW w \in Workers, UseDestroyed(w) PROVE LockInv'
  BY <1>4 DEF UseDestroyed
<1>5. CASE LifeStep
  BY <1>5 DEF LifeStep, SpawnFails, Stop, Destroy
<1>6. CASE UNCHANGED vars
  BY <1>6 DEF vars
<1> QED
  BY LockInvAppend, LockInvRun, <1>1, <1>2, <1>3, <1>4, <1>5, <1>6 DEF Next

(* So it always holds.                                                     *)
LEMMA LockInvAlways == Spec => []LockInv
BY LockInvInit, LockInvNext, PTL DEF Spec

(* Every reachable state is well typed: m_queuestat never goes below zero. *)
THEOREM TypeCorrect == Spec => []TypeOK
<1>1. LockInv => TypeOK
  BY DEF LockInv
<1> QED
  BY <1>1, LockInvAlways, PTL

(* m_queuelocker is held by exactly the thread between lock and unlock.    *)
THEOREM MutualExclusion == Spec => []CriticalSection
<1>1. LockInv => CriticalSection
  BY DEF LockInv
<1> QED
  BY <1>1, LockInvAlways, PTL
-----------------------------------------------------------------------------
(* The bound of the queue.  The test of the size is still true at the push *)
(* because the caller holds the lock in between.                           *)

(* The list never holds more than m_max_requests + 1 requests.             *)
THEOREM QueueBounded == Spec => []QueueBound
<1>1. Init => QueueBound
  BY PoolAssumption DEF Init, QueueBound, PoolAssumption, Threads
<1>2. LockInv /\ QueueBound /\ [Next]_vars => QueueBound'
  <2> SUFFICES ASSUME LockInv, QueueBound, [Next]_vars PROVE QueueBound'
    OBVIOUS
  <2> USE PoolAssumption
      DEF PoolAssumption, LockInv, TypeOK, CriticalSection, QueueBound, Holds,
          shared, Goto, Threads
  <2>1. ASSUME NEW p \in Producers, AppendStep(p) PROVE QueueBound'
    <3>1. CASE AppendPush(p)
      <4>1. \A q \in Producers : pc'[q] # "push"
        BY <3>1 DEF AppendPush
      <4>2. Len(m_workqueue') = Len(m_workqueue) + 1
        BY <3>1 DEF AppendPush
      <4> QED
        BY <3>1, <4>1, <4>2 DEF AppendPush
    <3>2. CASE ~AppendPush(p)
      BY <2>1, <3>2
         DEF AppendStep, AppendLock, AppendFull, AppendRoom,
             AppendPost, Full
    <3> QED
      BY <3>1, <3>2
  <2>2. ASSUME NEW p \in Producers, NEW r \in Args, AppendCall(p, r)
        PROVE  QueueBound'
    BY <2>2 DEF AppendCall
  <2>3. ASSUME NEW w \in Workers,
               RunStep(w) \/ RunInterrupted(w) \/ Spawn(w) \/ UseDestroyed(w)
        PROVE  QueueBound'
    <3>1. CASE RunPop(w)
      <4>1. m_workqueue # <<>>
        BY <3>1 DEF RunPop, ReadyToPop
      <4>2. Len(m_workqueue') = Len(m_workqueue) - 1
        BY <3>1, <4>1 DEF RunPop
      <4> QED
        BY <3>1, <4>2 DEF RunPop
    <3>2. CASE ~RunPop(w)
      BY <2>3, <3>2 DEF RunStep, RunInterrupted, Spawn, UseDestroyed, RunLoop,
         RunWait, RunLock, RunEmpty, RunFront, RunProcess
    <3> QED
      BY <3>1, <3>2
  <2>4. CASE LifeStep
    BY <2>4 DEF LifeStep, SpawnFails, Stop, Destroy
  <2>5. CASE UNCHANGED vars
    BY <2>5 DEF vars
  <2> QED
    BY <2>1, <2>2, <2>3, <2>4, <2>5 DEF Next
<1> QED
  BY <1>1, <1>2, LockInvAlways, PTL DEF Spec
-----------------------------------------------------------------------------
(* The promise of the queue.                                               *)

(* What has been accepted and not started is what the list holds, in the   *)
(* same order.                                                             *)
HistoryInv ==
  /\ Len(accepted) = Len(started) + Len(m_workqueue)
  /\ \A i \in 1..Len(m_workqueue) :
       m_workqueue[i] = accepted[Len(started) + i]

(* Append adds one element at the end and leaves the others in place.      *)
LEMMA AppendAtEnd ==
  ASSUME NEW S, NEW s \in Seq(S), NEW e \in S
  PROVE  /\ Len(Append(s, e)) = Len(s) + 1
         /\ Append(s, e)[Len(s) + 1] = e
         /\ \A i \in 1..Len(s) : Append(s, e)[i] = s[i]
OBVIOUS

(* A push is Accept, a refusal is Refuse and a pop is Start; no other step *)
(* of the pool is one the promise speaks of.                               *)
LEMMA StepImplements ==
  ASSUME LockInv, QueueBound, HistoryInv, [Next]_vars
  PROVE  HistoryInv' /\ [RQ!Next]_(RQ!rqVars)
<1> USE PoolAssumption
    DEF PoolAssumption, LockInv, TypeOK, QueueBound, HistoryInv, shared,
        history, RQ!rqVars, Threads
<1>1. ASSUME NEW p \in Producers, AppendStep(p)
      PROVE  HistoryInv' /\ [RQ!Next]_(RQ!rqVars)
  <2>1. CASE AppendFull(p)
    <3>1. request[p] \in Args
      OBVIOUS
    <3>2. RQ!Refuse(request[p])
      BY <2>1 DEF Full, AppendFull, RQ!Refuse, RQ!Waiting
    <3> QED
      BY <2>1, <3>1, <3>2 DEF Full, AppendFull, RQ!Next
  <2>2. CASE AppendPush(p)
    <3>1. request[p] \in Args /\ pc[p] = "push"
      BY <2>2 DEF AppendPush
    <3>2. RQ!Accept(request[p])
      BY <2>2, <3>1 DEF AppendPush, RQ!Accept, RQ!Waiting
    <3>3. HistoryInv'
      <4>1. /\ Len(m_workqueue') = Len(m_workqueue) + 1
            /\ m_workqueue'[Len(m_workqueue) + 1] = request[p]
            /\ \A i \in 1..Len(m_workqueue) :
                 m_workqueue'[i] = m_workqueue[i]
        BY <2>2, <3>1, AppendAtEnd DEF AppendPush
      <4>2. /\ Len(accepted') = Len(accepted) + 1
            /\ accepted'[Len(accepted) + 1] = request[p]
            /\ \A i \in 1..Len(accepted) : accepted'[i] = accepted[i]
        <5>1. /\ accepted' = Append(accepted, request[p])
              /\ accepted \in Seq(Args) /\ request[p] \in Args
          BY <2>2, <3>1 DEF AppendPush
        <5> HIDE DEF HistoryInv, LockInv, TypeOK, QueueBound
        <5> QED
          BY <5>1, AppendAtEnd
      <4>3. Len(started) \in Nat /\ Len(m_workqueue) \in Nat
        OBVIOUS
      <4>4. ASSUME NEW i \in 1..Len(m_workqueue')
            PROVE  m_workqueue'[i] = accepted'[Len(started) + i]
        <5>1. CASE i = Len(m_workqueue) + 1
          BY <4>1, <4>2, <4>3, <5>1
        <5>2. CASE i \in 1..Len(m_workqueue)
          <6>1. Len(started) + i \in 1..Len(accepted)
            BY <4>3, <5>2
          <6> QED
            BY <4>1, <4>2, <5>2, <6>1
        <5> QED
          BY <4>1, <4>3, <5>1, <5>2
      <4>5. /\ started' = started
            /\ Len(accepted) = Len(started) + Len(m_workqueue)
        BY <2>2 DEF AppendPush
      <4>6. Len(accepted') = Len(started') + Len(m_workqueue')
        BY <4>1, <4>2, <4>3, <4>5
      <4> QED
        BY <4>4, <4>5, <4>6
    <3> QED
      BY <3>1, <3>2, <3>3 DEF RQ!Next
  <2>3. CASE AppendLock(p) \/ AppendRoom(p) \/ AppendPost(p)
    BY <2>3 DEF Full, AppendLock, AppendRoom, AppendPost
  <2> QED
    BY <1>1, <2>1, <2>2, <2>3 DEF AppendStep
<1>2. ASSUME NEW w \in Workers, RunStep(w)
      PROVE  HistoryInv' /\ [RQ!Next]_(RQ!rqVars)
  <2>1. CASE RunPop(w)
    <3>1. m_workqueue # <<>> /\ request[w] = m_workqueue[1]
      BY <2>1 DEF RunPop, ReadyToPop
    <3>2. /\ Len(m_workqueue) > 0
          /\ request[w] = accepted[Len(started) + 1]
      BY <3>1
    <3>3. RQ!Start
      BY <2>1, <3>2 DEF RunPop, RQ!Start, RQ!Waiting
    <3>4. /\ Len(m_workqueue') = Len(m_workqueue) - 1
          /\ Len(started') = Len(started) + 1
          /\ \A i \in 1..Len(m_workqueue') :
               m_workqueue'[i] = m_workqueue[i + 1]
      BY <2>1, <3>1 DEF RunPop
    <3>5. accepted' = accepted
      BY <2>1 DEF RunPop
    <3>6. Len(started) \in Nat /\ Len(m_workqueue) \in Nat
      OBVIOUS
    <3>7. ASSUME NEW i \in 1..Len(m_workqueue')
          PROVE  m_workqueue'[i] = accepted'[Len(started') + i]
      <4>1. i + 1 \in 1..Len(m_workqueue)
        BY <3>4, <3>6
      <4>2. m_workqueue'[i] = accepted[Len(started) + (i + 1)]
        BY <3>4, <4>1
      <4>3. Len(started) + (i + 1) = Len(started') + i
        BY <3>4, <3>6
      <4> QED
        BY <3>5, <4>2, <4>3
    <3>8. HistoryInv'
      BY <3>4, <3>5, <3>6, <3>7
    <3> QED
      BY <3>3, <3>8 DEF RQ!Next
  <2>2. CASE ~RunPop(w)
    BY <1>2, <2>2 DEF RunStep, RunLoop, RunWait, RunLock, RunEmpty,
       RunFront, RunProcess
  <2> QED
    BY <2>1, <2>2
<1>3. ASSUME NEW p \in Producers, NEW r \in Args, AppendCall(p, r)
      PROVE  HistoryInv' /\ [RQ!Next]_(RQ!rqVars)
  BY <1>3 DEF AppendCall
<1>4. ASSUME NEW w \in Workers,
             RunInterrupted(w) \/ Spawn(w) \/ UseDestroyed(w)
      PROVE  HistoryInv' /\ [RQ!Next]_(RQ!rqVars)
  BY <1>4 DEF RunInterrupted, Spawn, UseDestroyed
<1>5. CASE LifeStep
  BY <1>5 DEF LifeStep, SpawnFails, Stop, Destroy
<1>6. CASE UNCHANGED vars
  BY <1>6 DEF vars
<1> QED
  BY <1>1, <1>2, <1>3, <1>4, <1>5, <1>6 DEF Next

(* The pool is a first-in first-out queue that starts every accepted       *)
(* request at most once, in order, and refuses only when it is over full.  *)
THEOREM PoolImplementsRequestQueue == Spec => ImplementsRequestQueue
<1>1. Init => RQ!Init /\ HistoryInv
  BY DEF Init, RQ!Init, HistoryInv
<1> QED
  BY <1>1, StepImplements, LockInvAlways, QueueBounded, PTL
     DEF Spec, ImplementsRequestQueue, RQ!Spec
-----------------------------------------------------------------------------
(* Wakeups                                                                 *)

(* Without interrupted waits there is no count too many either.            *)
NoSpareToken ==
  ~Interruptible /\ pool # "destroyed" => Tokens <= Len(m_workqueue)

WakeInv == NoLostWakeup /\ NoSpareToken /\ WokenFindsWork

(* The size of a finite set after one element came.                        *)
LEMMA AddOne ==
  ASSUME NEW S, IsFiniteSet(S), NEW x, x \notin S
  PROVE  /\ IsFiniteSet(S \cup {x})
         /\ Cardinality(S \cup {x}) = Cardinality(S) + 1
BY FS_AddElement

(* The size of a finite set after one element went.                        *)
LEMMA RemoveOne ==
  ASSUME NEW S, IsFiniteSet(S), NEW x \in S
  PROVE  /\ IsFiniteSet(S \ {x})
         /\ Cardinality(S \ {x}) = Cardinality(S) - 1
         /\ Cardinality(S) > 0
<1>1. Cardinality(S \ {x}) = Cardinality(S) - 1 /\ IsFiniteSet(S \ {x})
  BY FS_RemoveElement
<1>2. Cardinality(S) \in Nat /\ Cardinality(S \ {x}) \in Nat
  BY <1>1, FS_CardinalityType
<1> QED
  BY <1>1, <1>2

(* The two sets that Tokens counts are finite.                             *)
LEMMA TokenSets ==
  /\ IsFiniteSet(Woken) /\ Cardinality(Woken) \in Nat
  /\ IsFiniteSet(Posting) /\ Cardinality(Posting) \in Nat
<1>1. IsFiniteSet(Woken) /\ IsFiniteSet(Posting)
  BY PoolAssumption, FS_Subset DEF PoolAssumption, Woken, Posting
<1> QED
  BY <1>1, FS_CardinalityType

(* A caller's step: push makes the list one longer and the caller one that *)
(* owes a post, post turns the debt into a count.                          *)
LEMMA WakeInvAppend ==
  ASSUME LockInv, WakeInv, NEW p \in Producers, AppendStep(p)
  PROVE  WakeInv'
<1> USE PoolAssumption
    DEF PoolAssumption, LockInv, TypeOK, WakeInv, NoLostWakeup, NoSpareToken,
        WokenFindsWork, Tokens, shared, history, Goto, Threads, Lock, Unlock
<1>1. Woken' = Woken
  BY DEF Full, AppendStep, AppendLock, AppendFull, AppendRoom, AppendPush,
         AppendPost, Woken
<1>2. \A w \in Workers : pc'[w] = pc[w]
  BY DEF Full, AppendStep, AppendLock, AppendFull, AppendRoom, AppendPush,
         AppendPost
<1>3. CASE AppendPush(p)
  <2>1. Posting' = Posting \cup {p} /\ p \notin Posting
    BY <1>3 DEF AppendPush, Posting
  <2>2. Cardinality(Posting') = Cardinality(Posting) + 1
    BY <2>1, AddOne, TokenSets
  <2>3. Len(m_workqueue') = Len(m_workqueue) + 1
    BY <1>3 DEF AppendPush
  <2>4. NoLostWakeup' /\ NoSpareToken'
    BY <1>1, <1>3, <2>2, <2>3, TokenSets DEF AppendPush
  <2>5. WokenFindsWork'
    BY <1>2, <1>3, <2>3 DEF AppendPush
  <2> QED
    BY <2>4, <2>5
<1>4. CASE AppendPost(p)
  <2>1. Posting' = Posting \ {p} /\ p \in Posting
    BY <1>4 DEF AppendPost, Posting
  <2>2. Cardinality(Posting') = Cardinality(Posting) - 1
    BY <2>1, RemoveOne, TokenSets
  <2> QED
    BY <1>1, <1>2, <1>4, <2>2, TokenSets DEF AppendPost, Post
<1>5. CASE AppendLock(p) \/ AppendFull(p) \/ AppendRoom(p)
  <2>1. Posting' = Posting
    BY <1>5 DEF Full, AppendLock, AppendFull, AppendRoom, Posting
  <2> QED
    BY <1>1, <1>2, <1>5, <2>1 DEF Full, AppendLock, AppendFull, AppendRoom
<1> QED
  BY <1>3, <1>4, <1>5 DEF AppendStep

(* A worker's step: a wait turns a count into a woken worker, a pop makes  *)
(* the list and the woken workers one fewer; an early return of the wait   *)
(* only adds a woken worker, and an empty list needs none.                 *)
LEMMA WakeInvRun ==
  ASSUME LockInv, WakeInv, NEW w \in Workers,
         RunStep(w) \/ RunInterrupted(w)
  PROVE  WakeInv'
<1> USE PoolAssumption
    DEF PoolAssumption, LockInv, TypeOK, CriticalSection, Holds, WakeInv,
        NoLostWakeup, NoSpareToken, WokenFindsWork, Tokens, shared, history,
        Goto, Threads
<1>1. Posting' = Posting
  BY DEF RunStep, RunInterrupted, RunLoop, RunWait, RunLock, RunEmpty,
         RunFront, RunPop, RunProcess, Posting
<1>2. CASE RunWait(w) \/ RunInterrupted(w)
  <2>1. Woken' = Woken \cup {w} /\ w \notin Woken
    BY <1>2 DEF RunWait, RunInterrupted, Woken
  <2>2. Cardinality(Woken') = Cardinality(Woken) + 1
    BY <2>1, AddOne, TokenSets
  <2> QED
    BY <1>1, <1>2, <2>2, TokenSets DEF RunWait, Wait, RunInterrupted
<1>3. CASE RunLock(w)
  <2>1. Woken' = Woken /\ w \in Woken
    BY <1>3 DEF RunLock, Woken
  <2>2. Cardinality(Woken) > 0
    BY <2>1, RemoveOne, TokenSets
  <2>3. ~Interruptible => m_workqueue # <<>>
    BY <1>3, <2>2, TokenSets DEF RunLock
  <2> QED
    BY <1>1, <1>3, <2>1, <2>3 DEF RunLock, Lock
<1>4. CASE RunEmpty(w)
  <2>1. Interruptible
    BY <1>4 DEF RunEmpty
  <2>2. Woken' = Woken \ {w} /\ w \in Woken
    BY <1>4 DEF RunEmpty, Woken
  <2>3. Cardinality(Woken') = Cardinality(Woken) - 1 /\ Cardinality(Woken) > 0
    BY <2>2, RemoveOne, TokenSets
  <2> QED
    BY <1>1, <1>4, <2>1, <2>3, TokenSets DEF RunEmpty
<1>5. CASE RunPop(w)
  <2>1. Woken' = Woken \ {w} /\ w \in Woken
    BY <1>5 DEF RunPop, Woken
  <2>2. Cardinality(Woken') = Cardinality(Woken) - 1
    BY <2>1, RemoveOne, TokenSets
  <2>3. Len(m_workqueue') = Len(m_workqueue) - 1
    BY <1>5 DEF RunPop, ReadyToPop
  <2>4. m_queuestat' = m_queuestat /\ pool' = pool
    BY <1>5 DEF RunPop
  <2>5. Len(m_workqueue) \in Nat /\ m_queuestat \in Nat
    OBVIOUS
  <2>6. NoLostWakeup' /\ NoSpareToken'
    BY <1>1, <2>2, <2>3, <2>4, <2>5, TokenSets
  <2>7. \A v \in Workers : pc'[v] # "front"
    BY <1>5 DEF RunPop, Unlock
  <2> QED
    BY <2>6, <2>7
<1>6. CASE RunLoop(w) \/ RunFront(w) \/ RunProcess(w)
  <2>1. Woken' = Woken
    BY <1>6 DEF RunLoop, RunFront, RunProcess, Woken
  <2> QED
    BY <1>1, <1>6, <2>1 DEF RunLoop, RunFront, RunProcess
<1> QED
  BY <1>2, <1>3, <1>4, <1>5, <1>6 DEF RunStep

(* No step breaks WakeInv.                                                 *)
LEMMA WakeInvNext == LockInv /\ WakeInv /\ [Next]_vars => WakeInv'
<1> SUFFICES ASSUME LockInv, WakeInv, [Next]_vars PROVE WakeInv'
  OBVIOUS
<1> USE PoolAssumption
    DEF PoolAssumption, LockInv, TypeOK, WakeInv, NoLostWakeup, NoSpareToken,
        WokenFindsWork, Tokens, shared, history, Goto, Threads
<1>1. ASSUME NEW p \in Producers, NEW r \in Args, AppendCall(p, r)
      PROVE  WakeInv'
  <2>1. Woken' = Woken /\ Posting' = Posting
    BY <1>1 DEF AppendCall, Woken, Posting
  <2> QED
    BY <1>1, <2>1 DEF AppendCall
<1>2. ASSUME NEW w \in Workers, Spawn(w) PROVE WakeInv'
  <2>1. Woken' = Woken /\ Posting' = Posting
    BY <1>2 DEF Spawn, Woken, Posting
  <2> QED
    BY <1>2, <2>1 DEF Spawn
<1>3. ASSUME NEW w \in Workers, UseDestroyed(w) PROVE WakeInv'
  BY <1>3 DEF UseDestroyed
<1>4. CASE LifeStep
  <2>1. Woken' = Woken /\ Posting' = Posting
    BY <1>4 DEF LifeStep, SpawnFails, Stop, Destroy, Woken, Posting
  <2> QED
    BY <1>4, <2>1 DEF LifeStep, SpawnFails, Stop, Destroy
<1>5. CASE UNCHANGED vars
  <2>1. Woken' = Woken /\ Posting' = Posting
    BY <1>5 DEF vars, Woken, Posting
  <2> QED
    BY <1>5, <2>1 DEF vars
<1> QED
  BY WakeInvAppend, WakeInvRun, <1>1, <1>2, <1>3, <1>4, <1>5 DEF Next

(* So it always holds.                                                     *)
LEMMA WakeInvAlways == Spec => []WakeInv
<1>1. Init => WakeInv
  <2> SUFFICES ASSUME Init PROVE WakeInv
    OBVIOUS
  <2>1. Woken = {} /\ Posting = {}
    BY PoolAssumption DEF PoolAssumption, Init, Woken, Posting, Threads
  <2>2. Cardinality(Woken) = 0 /\ Cardinality(Posting) = 0
    BY <2>1, FS_EmptySet
  <2> QED
    BY <2>2, PoolAssumption DEF PoolAssumption, Init, WakeInv, NoLostWakeup,
       NoSpareToken, WokenFindsWork, Tokens, Threads
<1> QED
  BY <1>1, WakeInvNext, LockInvAlways, PTL DEF Spec

(* No queued request is without a count, a woken worker or a caller about  *)
(* to post, even when signals interrupt sem_wait.                          *)
THEOREM NoWakeupLost == Spec => []NoLostWakeup
<1>1. WakeInv => NoLostWakeup
  BY DEF WakeInv
<1> QED
  BY <1>1, WakeInvAlways, PTL

(* Without signals a worker that was woken finds a request.                *)
THEOREM WokenWorkerFindsWork == Spec => []WokenFindsWork
<1>1. WakeInv => WokenFindsWork
  BY DEF WakeInv
<1> QED
  BY <1>1, WakeInvAlways, PTL
=============================================================================
