-------------------------- MODULE ProcessPoolProofs --------------------------
(***************************************************************************)
(* Proofs about the process pool for any number of children, connections   *)
(* and ints in a socketpair: the parent stops only after its children, a   *)
(* full socketpair is always about to be read, and every connection in the *)
(* listen queue is accounted for.                                          *)
(***************************************************************************)
EXTENDS ProcessPool, FiniteSetTheorems, WellFoundedInduction, TLAPS

(* The parent is no child.                                                 *)
LEMMA ProcsSplit ==
  /\ Parent \in Procs /\ Parent \notin Children
  /\ Procs = Children \cup {Parent}
BY PoolAssumption DEF Parent, Procs, Children
-----------------------------------------------------------------------------
(* m_stop of the parent is set only when no child is left.                 *)

Ended == {"exited", "killed"}

StopInv ==
  /\ DOMAIN pc = Procs /\ DOMAIN m_stop = Procs /\ DOMAIN m_pid = Children
  /\ m_stop[Parent] => Known = {}
  /\ StopsLast

(* It holds when the children have been forked.                            *)
LEMMA StopInit == Init => StopInv
BY ProcsSplit DEF Init, StopInv, StopsLast, Known, Alive

(* What lets processes live or end, and m_pid alone, keeps it, unless the  *)
(* parent leaves by itself with children.                                  *)
LEMMA StopKept ==
  ASSUME StopInv, DOMAIN pc' = Procs,
         \A p \in Procs : ~Alive(p) => ~Alive(p)',
         pc'[Parent] = "exited" => pc[Parent] = "exited" \/ m_stop[Parent],
         m_stop'[Parent] = m_stop[Parent], DOMAIN m_stop' = Procs,
         UNCHANGED m_pid
  PROVE  StopInv'
BY ProcsSplit DEF StopInv, StopsLast, Known

(* Processes that end stay ended, and the others go on where they were,    *)
(* but that the parent may be called out of a send that waits.             *)
LEMMA EndPc ==
  ASSUME NEW ps, NEW l \in Ended, NEW told, NEW done, End(ps, l, told, done)
  PROVE  /\ DOMAIN pc' = Procs
         /\ \A p \in Procs : p \in ps => pc'[p] = l
         /\ \A p \in Procs \ ps :
              \/ pc'[p] = pc[p]
              \/ p = Parent /\ pc[p] = "blocked" /\ pc'[p] = "send"
         /\ \A c \in Children \ ps : pc'[c] = pc[c]
         /\ \A p \in Procs : ~Alive(p) => ~Alive(p)'
<1> DEFINE gone == ps \ {Parent}
           bytes(p) == (IF p \in told THEN {"TERM"} ELSE {}) \cup
                       (IF p = Parent /\ gone # {} /\ Serving(p)
                        THEN {"CHLD"} ELSE {})
           retry(p) == /\ p = Parent /\ pc[p] = "blocked"
                       /\ bytes(p) # {} /\ Target \notin ps
<1>1. pc' = [p \in Procs |-> IF p \in ps THEN l
                            ELSE IF retry(p) THEN "send" ELSE pc[p]]
  BY DEF End
<1>2. \A p : retry(p) => p = Parent /\ pc[p] = "blocked"
  OBVIOUS
<1> HIDE DEF retry
<1>3. \A c \in Children : c \in Procs /\ c # Parent
  BY ProcsSplit
<1> QED  BY <1>1, <1>2, <1>3 DEF Alive, Ended

(* Kill leaves nobody who exited by itself.                                *)
LEMMA KillPc ==
  ASSUME NEW ps, NEW done, Kill(ps, done)
  PROVE  /\ DOMAIN pc' = Procs
         /\ \A p \in Procs : /\ ~Alive(p) => ~Alive(p)'
                             /\ pc'[p] = "exited" => pc[p] = "exited"
<1> DEFINE fresh == {p \in ps : pc[p] = "setup"}
           told  == {p \in ps \ fresh : Alive(p)}
<1>1. End(fresh, "killed", told, done)
  BY DEF Kill
<1> HIDE DEF fresh, told
<1>2. "killed" \in Ended /\ "killed" # "exited"
  BY DEF Ended
<1> QED  BY <1>1, <1>2, EndPc

(* Every step keeps it.                                                    *)
LEMMA StopNext == StopInv /\ [Next]_vars => StopInv'
<1> SUFFICES ASSUME StopInv, [Next]_vars PROVE StopInv'
  OBVIOUS
<1>d. /\ DOMAIN pc = Procs /\ DOMAIN m_stop = Procs
      /\ DOMAIN m_pid = Children
  BY DEF StopInv
<1>e. ASSUME NEW p \in Procs, NEW told, End({p}, "killed", told, {}),
             UNCHANGED <<m_stop, m_pid>>
      PROVE  StopInv'
  <2>1. /\ DOMAIN pc' = Procs
        /\ \A q \in Procs : ~Alive(q) => ~Alive(q)'
        /\ pc'[Parent] = "exited" => pc[Parent] = "exited"
    BY <1>e, EndPc, ProcsSplit DEF Ended
  <2> QED  BY <1>d, <1>e, <2>1, StopKept
<1>g. ASSUME NEW p \in Procs, NEW l, Alive(p), l \notin Ended, Goto(p, l),
             UNCHANGED m_pid, m_stop'[Parent] = m_stop[Parent],
             DOMAIN m_stop' = Procs
      PROVE  StopInv'
  <2>1. /\ DOMAIN pc' = Procs
        /\ \A q \in Procs : ~Alive(q) => ~Alive(q)'
        /\ pc'[Parent] = "exited" => pc[Parent] = "exited"
    BY <1>d, <1>g, ProcsSplit DEF Goto, Alive, Ended
  <2> QED  BY <1>d, <1>g, <2>1, StopKept
<1>u. ASSUME UNCHANGED <<pc, m_pid>>, m_stop'[Parent] = m_stop[Parent],
             DOMAIN m_stop' = Procs
      PROVE  StopInv'
  BY <1>d, <1>u, StopKept DEF Alive
<1>1. ASSUME NEW p \in Procs, Setup(p) PROVE StopInv'
  BY <1>1, <1>d, <1>g DEF Setup, Alive, Ended
<1>2. ASSUME NEW p \in Procs, EpollWait(p) PROVE StopInv'
  BY <1>2, <1>d, <1>g DEF EpollWait, Alive, Ended
<1>3. ASSUME NEW p \in Procs, BatchDone(p) PROVE StopInv'
  <2>1. CASE m_stop[p] /\ End({p}, "exited", {}, {})
    <3>1. "exited" \in Ended /\ m_stop[p]
      BY <2>1 DEF Ended
    <3>2. /\ DOMAIN pc' = Procs
          /\ \A q \in Procs : ~Alive(q) => ~Alive(q)'
          /\ \/ pc'[Parent] = pc[Parent] \/ pc'[Parent] = "send"
             \/ p = Parent
      <4>1. /\ DOMAIN pc' = Procs
            /\ \A q \in Procs \ {p} :
                 \/ pc'[q] = pc[q]
                 \/ q = Parent /\ pc[q] = "blocked" /\ pc'[q] = "send"
            /\ \A q \in Procs : ~Alive(q) => ~Alive(q)'
        BY <2>1, <3>1, EndPc
      <4> QED  BY <4>1, ProcsSplit
    <3>3. pc'[Parent] = "exited" => pc[Parent] = "exited" \/ m_stop[Parent]
      BY <3>1, <3>2
    <3> QED  BY <1>3, <1>d, <3>2, <3>3, StopKept DEF BatchDone
  <2>2. CASE ~m_stop[p] /\ Goto(p, "wait")
    BY <1>3, <1>d, <1>g, <2>2 DEF BatchDone, Alive, Ended
  <2> QED  BY <1>3, <2>1, <2>2 DEF BatchDone
<1>4. CASE ParentSignals
  <2>1. PICK ps : Kill(ps, {Sig})
    BY <1>4 DEF ParentSignals
  <2>2. /\ DOMAIN pc' = Procs
        /\ \A p \in Procs : /\ ~Alive(p) => ~Alive(p)'
                            /\ pc'[p] = "exited" => pc[p] = "exited"
    BY <2>1, KillPc
  <2>3. CASE "CHLD" \in signals[Parent]
    <3>1. /\ m_pid' = [c \in Children |-> m_pid[c] /\ c \notin Reaped]
          /\ m_stop' = [m_stop EXCEPT ![Parent] = NoneLeft]
      BY <1>4, <2>3 DEF ParentSignals
    <3>2. Known' = Known \ Reaped
      BY <3>1 DEF Known
    <3>3. m_stop'[Parent] => Known' = {}
      BY <1>d, <3>1, <3>2, ProcsSplit DEF NoneLeft
    <3>4. \A c \in Children : m_pid'[c] \/ ~Alive(c)'
      BY <2>2, <3>1, ProcsSplit DEF Reaped, StopInv, StopsLast
    <3>5. pc'[Parent] = "exited" => Known' = {}
      BY <2>2, <3>2, ProcsSplit DEF StopInv, StopsLast
    <3> QED
      BY <1>d, <2>2, <3>1, <3>3, <3>4, <3>5 DEF StopInv, StopsLast
  <2>4. CASE "CHLD" \notin signals[Parent]
    BY <1>4, <1>d, <2>2, <2>4, ProcsSplit, StopKept DEF ParentSignals
  <2> QED  BY <2>3, <2>4
<1>5. CASE Dispatch
  BY <1>5, <1>d, <1>g, ProcsSplit DEF Dispatch, Take, Alive, Ended
<1>6. CASE SendToEnded
  BY <1>6, <1>e, ProcsSplit DEF SendToEnded
<1>s. CASE Send \/ SendWaits \/ SendWoken \/ SendFails
  <2>1. PICK l \in {"loop", "send", "blocked"} :
          pc[Parent] \in {"send", "blocked"} /\ Goto(Parent, l)
    BY <1>s DEF Send, SendWaits, SendWoken, SendFails
  <2>2. UNCHANGED <<m_stop, m_pid>>
    BY <1>s DEF Send, SendWaits, SendWoken, SendFails, InSend
  <2>3. Alive(Parent) /\ l \notin Ended
    BY <2>1 DEF Alive, Ended
  <2> QED  BY <1>d, <1>g, <2>1, <2>2, <2>3, ProcsSplit
<1>7. CASE DispatchToNone
  BY <1>7, <1>d, ProcsSplit
  DEF DispatchToNone, StopInv, StopsLast, Known, Alive
<1>8. ASSUME NEW c \in Children, ChildNote(c) PROVE StopInv'
  <2>1. CASE UNCHANGED pc
    BY <1>8, <1>d, <1>u, <2>1 DEF ChildNote
  <2>2. CASE Goto(c, "accept")
    BY <1>8, <1>d, <1>g, <2>2, ProcsSplit DEF ChildNote, Take, Alive, Ended
  <2> QED  BY <1>8, <2>1, <2>2 DEF ChildNote
<1>9. ASSUME NEW c \in Children, ChildAccept(c) \/ AcceptFails(c)
      PROVE  StopInv'
  BY <1>9, <1>d, <1>g, ProcsSplit DEF ChildAccept, AcceptFails, Alive, Ended
<1>10. ASSUME NEW c \in Children, ChildSignals(c) PROVE StopInv'
  BY <1>10, <1>d, <1>u, ProcsSplit DEF ChildSignals
<1>11. ASSUME NEW c \in Children, NEW k \in Conns, Process(c, k)
       PROVE  StopInv'
  BY <1>11, <1>d, <1>u DEF Process
<1>12. CASE ClientStep
  BY <1>12, <1>d, <1>u DEF ClientStep, Connect, ClientSends, ClientLeaves
<1>13. CASE Terminate
  BY <1>13, <1>d, KillPc, StopKept, ProcsSplit DEF Terminate
<1>14. ASSUME NEW c \in Children, Crash(c) PROVE StopInv'
  BY <1>14, <1>e, ProcsSplit DEF Crash
<1>15. CASE UNCHANGED vars
  BY <1>15, <1>d, <1>u DEF vars
<1> QED
  BY <1>1, <1>2, <1>3, <1>4, <1>5, <1>6, <1>7, <1>8, <1>9, <1>10, <1>11,
     <1>12, <1>13, <1>14, <1>15, <1>s, ProcsSplit
  DEF Next, ParentStep, ChildStep, Loop, Failure

(* StopsLast for any number of children: the parent strikes off only those *)
(* that have ended, and returns from its loop after the last of them.      *)
THEOREM ParentStopsLast == Spec => []StopsLast
<1>1. StopInv => StopsLast
  BY DEF StopInv
<1> QED  BY <1>1, StopInit, StopNext, PTL DEF Spec
-----------------------------------------------------------------------------
(* A full socketpair has an event that its child has not yet looked at:    *)
(* the event came with the last int, and looking at it takes one away.     *)

PipeInv ==
  /\ DOMAIN pc = Procs /\ DOMAIN ready = Procs /\ DOMAIN batch = Procs
  /\ notes \in [Children -> 0..PipeRoom]
  /\ \A p \in Procs : pc[p] \in {"setup", "wait"} => batch[p] = {}
  /\ FullPipeIsRead

(* It holds when the children have been forked.                            *)
LEMMA PipeInit == Init => PipeInv
<1> SUFFICES ASSUME Init PROVE PipeInv
  OBVIOUS
<1>1. PipeRoom \in Nat /\ PipeRoom > 0
  BY PoolAssumption
<1>2. notes = [c \in Children |-> 0]
  BY DEF Init
<1>3. \A p \in Procs : ~Serving(p)
  BY DEF Init, Serving
<1> QED
  BY <1>1, <1>2, <1>3, ProcsSplit DEF Init, PipeInv, FullPipeIsRead

(* What leaves the ints alone, and of whose events only others than those  *)
(* of the socketpairs are looked at, keeps it.                             *)
LEMMA PipeKept ==
  ASSUME PipeInv, UNCHANGED notes,
         DOMAIN pc' = Procs, DOMAIN ready' = Procs, DOMAIN batch' = Procs,
         \A p \in Procs : pc'[p] \in {"setup", "wait"} => batch'[p] = {},
         \A c \in Children : Serving(c)' =>
           Serving(c) /\ (Pipe \in Pending(c) => Pipe \in Pending(c)')
  PROVE  PipeInv'
BY DEF PipeInv, FullPipeIsRead

(* The end of processes: the ints of those are gone, the others' events    *)
(* are as they were or more.                                               *)
LEMMA EndPipe ==
  ASSUME PipeInv, NEW ps, NEW l \in Ended, NEW told,
         NEW done \in {{}, {Sig}}, End(ps, l, told, done)
  PROVE  PipeInv'
<1> DEFINE bytes(p) == (IF p \in told THEN {"TERM"} ELSE {}) \cup
                       (IF p = Parent /\ ps \ {Parent} # {} /\ Serving(p)
                        THEN {"CHLD"} ELSE {})
           hup(p)   == p # Parent /\ Closed(p, ps) /\ ~Closed(p, {})
           more(p)  == (IF bytes(p) # {} THEN {Sig} ELSE {})
                         \cup (IF hup(p) THEN {Pipe} ELSE {})
<1>0. /\ DOMAIN pc' = Procs
      /\ \A p \in Procs : p \in ps => pc'[p] = l
      /\ \A p \in Procs \ ps :
           \/ pc'[p] = pc[p]
           \/ p = Parent /\ pc[p] = "blocked" /\ pc'[p] = "send"
      /\ \A c \in Children \ ps : pc'[c] = pc[c]
  BY EndPc
<1>1. /\ DOMAIN pc' = Procs
      /\ \A p \in ps : p \in Procs => pc'[p] = l
      /\ \A p \in Procs \ ps : \/ pc'[p] = pc[p]
                               \/ pc'[p] = "send"
      /\ \A c \in Children \ ps : pc'[c] = pc[c]
  BY <1>0
<1>2. ready' = [p \in Procs |-> IF p \in ps THEN {}
                                 ELSE ready[p] \cup more(p)]
  <2>1. ready' = [p \in Procs |->
           IF p \in ps THEN {}
           ELSE ready[p] \cup (IF bytes(p) # {} THEN {Sig} ELSE {})
                         \cup (IF hup(p) THEN {Pipe} ELSE {})]
    BY DEF End
  <2> HIDE DEF bytes, hup
  <2> QED  BY <2>1
<1>3. batch' = [p \in Procs |-> IF p \in ps THEN {} ELSE batch[p] \
                                  (IF p = Parent THEN done ELSE {})]
  BY DEF End
<1>4. notes' = [c \in Children |-> IF c \in ps \ {Parent} THEN 0
                                                       ELSE notes[c]]
  BY DEF End
<1>5. PipeRoom \in Nat
  BY PoolAssumption
<1> HIDE DEF more
<1>6. \A p \in Procs : pc'[p] \in {"setup", "wait"} => batch'[p] = {}
  BY <1>1, <1>3 DEF PipeInv, Ended
<1>7. notes' \in [Children -> 0..PipeRoom]
  BY <1>4, <1>5 DEF PipeInv
<1>8. ASSUME NEW c \in Children, notes'[c] = PipeRoom, Serving(c)'
      PROVE  Pipe \in Pending(c)'
  <2>1. c \notin ps /\ c \in Procs /\ c # Parent
    BY <1>1, <1>8, ProcsSplit DEF Serving, Alive, Ended
  <2>2. notes[c] = PipeRoom /\ Serving(c)
    BY <1>1, <1>4, <1>8, <2>1 DEF Serving, Alive
  <2>3. Pipe \in ready[c] \cup batch[c]
    BY <2>2 DEF PipeInv, FullPipeIsRead, Pending
  <2> QED  BY <1>2, <1>3, <2>1, <2>3 DEF Pending
<1> QED
  BY <1>1, <1>2, <1>3, <1>6, <1>7, <1>8 DEF PipeInv, FullPipeIsRead

(* Every step keeps it.                                                    *)
LEMMA PipeNext == PipeInv /\ [Next]_vars => PipeInv'
<1> SUFFICES ASSUME PipeInv, [Next]_vars PROVE PipeInv'
  OBVIOUS
<1>d. /\ DOMAIN pc = Procs /\ DOMAIN ready = Procs /\ DOMAIN batch = Procs
      /\ notes \in [Children -> 0..PipeRoom]
      /\ \A p \in Procs : pc[p] \in {"setup", "wait"} => batch[p] = {}
  BY DEF PipeInv
<1>n. PipeRoom \in Nat /\ PipeRoom > 0
  BY PoolAssumption
<1>s. Sig # Pipe /\ Listen # Pipe /\ \A k \in Conns : k # Pipe
  BY DEF Sig, Pipe, Listen, Conns
<1>t. ASSUME NEW p \in Procs, NEW e, Take(p, e),
             e # Pipe \/ p = Parent, UNCHANGED <<pc, notes>>,
             DOMAIN ready' = Procs,
             \A q \in Procs : ready[q] \subseteq ready'[q]
      PROVE  PipeInv'
  <2>1. /\ pc[p] = "loop" /\ batch' = [batch EXCEPT ![p] = @ \ {e}]
    BY <1>t DEF Take
  <2>2. \A c \in Children : Pipe \in Pending(c) => Pipe \in Pending(c)'
    BY <1>d, <1>t, <2>1, ProcsSplit DEF Pending
  <2> QED  BY <1>d, <1>t, <2>1, <2>2, PipeKept DEF Serving, Alive
<1>1. ASSUME NEW p \in Procs, Setup(p) PROVE PipeInv'
  <2>1. /\ pc[p] = "setup" /\ pc' = [pc EXCEPT ![p] = "wait"]
        /\ ready' = [ready EXCEPT ![p] = ReadyAtSetup(p)]
        /\ UNCHANGED <<batch, notes>>
    BY <1>1 DEF Setup, Goto
  <2>2. ASSUME NEW c \in Children, notes'[c] = PipeRoom, Serving(c)'
        PROVE  Pipe \in Pending(c)'
    <3>1. CASE c = p
      <4>1. notes[c] > 0 /\ c # Parent
        BY <1>n, <2>1, <2>2, ProcsSplit
      <4>2. ready'[c] = {Pipe}
        BY <1>d, <2>1, <3>1, <4>1 DEF ReadyAtSetup
      <4> QED  BY <4>2 DEF Pending
    <3>2. CASE c # p
      <4>1. /\ pc'[c] = pc[c] /\ ready'[c] = ready[c] /\ batch'[c] = batch[c]
            /\ notes'[c] = notes[c]
        BY <1>d, <2>1, <3>2, ProcsSplit
      <4> QED
        BY <2>2, <4>1
        DEF PipeInv, FullPipeIsRead, Pending, Serving, Alive
    <3> QED  BY <3>1, <3>2
  <2> QED  BY <1>d, <2>1, <2>2 DEF PipeInv, FullPipeIsRead
<1>2. ASSUME NEW p \in Procs, EpollWait(p) PROVE PipeInv'
  <2>1. /\ pc[p] = "wait" /\ pc' = [pc EXCEPT ![p] = "loop"]
        /\ batch' = [batch EXCEPT ![p] = ready[p]]
        /\ ready' = [ready EXCEPT ![p] = {}]
        /\ UNCHANGED notes
    BY <1>2 DEF EpollWait, Goto
  <2>2. \A c \in Children : Pipe \in Pending(c) => Pipe \in Pending(c)'
    BY <1>d, <2>1, ProcsSplit DEF Pending
  <2>3. \A q \in Procs : pc'[q] \in {"setup", "wait"} => batch'[q] = {}
    BY <1>d, <2>1
  <2>4. \A c \in Children : Serving(c)' => Serving(c)
    BY <1>d, <2>1, ProcsSplit DEF Serving, Alive
  <2> QED  BY <1>d, <2>1, <2>2, <2>3, <2>4, PipeKept
<1>3. ASSUME NEW p \in Procs, BatchDone(p) PROVE PipeInv'
  <2>1. CASE End({p}, "exited", {}, {})
    BY <2>1, EndPipe DEF Ended
  <2>2. CASE Goto(p, "wait") /\ UNCHANGED <<events, notes>>
    <3>1. /\ pc[p] = "loop" /\ batch[p] = {}
          /\ pc' = [pc EXCEPT ![p] = "wait"]
          /\ UNCHANGED <<ready, batch, notes>>
      BY <1>3, <2>2 DEF BatchDone, Goto, events
    <3>2. \A c \in Children : Serving(c)' => Serving(c)
      BY <1>d, <3>1, ProcsSplit DEF Serving, Alive
    <3> QED  BY <1>d, <3>1, <3>2, PipeKept DEF Pending
  <2> QED  BY <1>3, <2>1, <2>2 DEF BatchDone
<1>4. CASE ParentSignals
  <2>1. PICK ps : Kill(ps, {Sig})
    BY <1>4 DEF ParentSignals
  <2> QED  BY <2>1, EndPipe DEF Kill, Ended
<1>5. CASE Dispatch
  <2>1. /\ pc[Parent] = "loop" /\ pc' = [pc EXCEPT ![Parent] = "send"]
        /\ batch' = [batch EXCEPT ![Parent] = @ \ {Listen}]
        /\ UNCHANGED <<ready, notes>>
    BY <1>5 DEF Dispatch, Take, Goto
  <2>2. \A c \in Children : Pending(c)' = Pending(c)
    BY <1>d, <2>1, ProcsSplit DEF Pending
  <2>3. \A q \in Procs : pc'[q] \in {"setup", "wait"} => batch'[q] = {}
    BY <1>d, <2>1
  <2>4. \A c \in Children : Serving(c)' => Serving(c)
    BY <1>d, <2>1, ProcsSplit DEF Serving, Alive
  <2> QED  BY <1>d, <2>1, <2>2, <2>3, <2>4, PipeKept
<1>6. CASE SendToEnded
  BY <1>6, EndPipe DEF SendToEnded, Ended
<1>v. CASE Send
  <2> DEFINE c == Target
  <2>1. /\ pc[Parent] = "send" /\ notes[c] < PipeRoom /\ UNCHANGED batch
        /\ pc' = [pc EXCEPT ![Parent] = "loop"]
        /\ notes' = [notes EXCEPT ![c] = @ + 1]
        /\ ready' = ready \/ ready' = [ready EXCEPT ![c] = @ \cup {Pipe}]
        /\ pc[c] # "setup" => ready' = [ready EXCEPT ![c] = @ \cup {Pipe}]
    BY <1>v DEF Send, Comes, Goto
  <2> HIDE DEF c
  <2>3. notes' \in [Children -> 0..PipeRoom]
    <3>1. CASE c \in Children
      BY <1>d, <1>n, <2>1, <3>1
    <3>2. CASE c \notin Children      \* (Target is a child, but need not be)
      BY <1>d, <2>1, <3>2
    <3> QED  BY <3>1, <3>2
  <2>4. \A q \in Procs : pc'[q] \in {"setup", "wait"} => batch'[q] = {}
    BY <1>d, <2>1
  <2>5. ASSUME NEW d \in Children, notes'[d] = PipeRoom, Serving(d)'
        PROVE  Pipe \in Pending(d)'
    <3>1. d \in Procs /\ d # Parent
      BY ProcsSplit
    <3>4. pc'[d] = pc[d]
      BY <1>d, <2>1, <3>1
    <3>2. CASE d = c
      BY <1>d, <2>1, <2>5, <3>1, <3>2, <3>4 DEF Pending, Serving
    <3>3. CASE d # c
      <4>1. notes[d] = PipeRoom /\ Serving(d)
        BY <1>d, <2>1, <2>5, <3>3, <3>4 DEF Serving, Alive
      <4>2. Pipe \in Pending(d)
        BY <4>1 DEF PipeInv, FullPipeIsRead
      <4> QED  BY <1>d, <2>1, <3>1, <3>3, <4>2 DEF Pending
    <3> QED  BY <3>2, <3>3
  <2> QED
    BY <1>d, <2>1, <2>3, <2>4, <2>5 DEF PipeInv, FullPipeIsRead
<1>w. CASE SendWaits \/ SendWoken \/ SendFails
  <2>1. PICK l \in {"loop", "send", "blocked"} :
          pc' = [pc EXCEPT ![Parent] = l]
    BY <1>w DEF SendWaits, SendWoken, SendFails, Goto
  <2>2. UNCHANGED <<ready, batch, notes>>
    BY <1>w DEF SendWaits, SendWoken, SendFails, InSend, events
  <2>3. \A q \in Procs : pc'[q] \in {"setup", "wait"} => batch'[q] = {}
    BY <1>d, <2>1, <2>2
  <2>4. \A c \in Children : Serving(c)' => Serving(c)
    BY <1>d, <2>1, ProcsSplit DEF Serving, Alive
  <2> QED  BY <1>d, <2>1, <2>2, <2>3, <2>4, PipeKept DEF Pending
<1>7. CASE DispatchToNone
  <2>1. /\ UNCHANGED <<pc, ready, notes>> /\ pc[Parent] = "loop"
        /\ batch' = [batch EXCEPT ![Parent] = {}]
    BY <1>7 DEF DispatchToNone
  <2>2. \A c \in Children : Pending(c)' = Pending(c)
    BY <1>d, <2>1, ProcsSplit DEF Pending
  <2> QED  BY <1>d, <2>1, <2>2, PipeKept DEF Serving, Alive
<1>8. ASSUME NEW c \in Children, ChildNote(c) PROVE PipeInv'
  <2>1. /\ pc[c] = "loop" /\ batch' = [batch EXCEPT ![c] = @ \ {Pipe}]
        /\ UNCHANGED ready
    BY <1>8 DEF ChildNote, Take
  <2>2. /\ \/ UNCHANGED pc /\ notes[c] = 0
           \/ pc' = [pc EXCEPT ![c] = "accept"]
        /\ notes[c] = 0 => UNCHANGED notes
        /\ notes[c] # 0 => notes' = [notes EXCEPT ![c] = @ - 1]
    BY <1>8 DEF ChildNote, NotesLeft, Goto
  <2>3. DOMAIN pc' = Procs
    BY <1>d, <2>2
  <2>4. notes' \in [Children -> 0..PipeRoom] /\ notes'[c] < PipeRoom
    BY <1>d, <1>n, <2>2
  <2>5. \A q \in Procs : pc'[q] \in {"setup", "wait"} => batch'[q] = {}
    BY <1>d, <2>1, <2>2
  <2>6. ASSUME NEW d \in Children, notes'[d] = PipeRoom, Serving(d)'
        PROVE  Pipe \in Pending(d)'
    <3>1. d # c /\ PipeRoom \in Nat
      BY <1>n, <2>4, <2>6
    <3>2. /\ pc'[d] = pc[d] /\ batch'[d] = batch[d] /\ notes'[d] = notes[d]
      BY <1>d, <2>1, <2>2, <3>1, ProcsSplit
    <3> QED
      BY <2>1, <2>6, <3>2
      DEF PipeInv, FullPipeIsRead, Pending, Serving, Alive
  <2> QED
    BY <1>d, <2>1, <2>3, <2>4, <2>5, <2>6 DEF PipeInv, FullPipeIsRead
<1>9. ASSUME NEW c \in Children, ChildAccept(c) \/ AcceptFails(c)
      PROVE  PipeInv'
  <2>1. /\ pc[c] = "accept" /\ pc' = [pc EXCEPT ![c] = "loop"]
        /\ UNCHANGED <<batch, notes>>
    BY <1>9 DEF ChildAccept, AcceptFails, Goto, events
  <2>2. /\ DOMAIN ready' = Procs
        /\ \A q \in Procs : ready[q] \subseteq ready'[q]
    BY <1>9, <1>d, ProcsSplit DEF ChildAccept, AcceptFails, events
  <2>3. \A d \in Children : Pipe \in Pending(d) => Pipe \in Pending(d)'
    BY <2>1, <2>2, ProcsSplit DEF Pending
  <2>4. \A d \in Children : Serving(d)' => Serving(d)
    BY <1>d, <2>1, ProcsSplit DEF Serving, Alive
  <2>5. \A q \in Procs : pc'[q] \in {"setup", "wait"} => batch'[q] = {}
    BY <1>d, <2>1
  <2> QED  BY <1>d, <2>1, <2>2, <2>3, <2>4, <2>5, PipeKept
<1>10. ASSUME NEW c \in Children, ChildSignals(c) PROVE PipeInv'
  BY <1>10, <1>d, <1>s, <1>t, ProcsSplit DEF ChildSignals
<1>11. ASSUME NEW c \in Children, NEW k \in Conns, Process(c, k)
       PROVE  PipeInv'
  BY <1>11, <1>d, <1>s, <1>t, ProcsSplit DEF Process
<1>12. CASE ClientStep
  <2>1. /\ UNCHANGED <<pc, batch, notes>> /\ DOMAIN ready' = Procs
        /\ \A q \in Procs : ready[q] \subseteq ready'[q]
    BY <1>12, <1>d, ProcsSplit
    DEF ClientStep, Connect, ClientSends, ClientLeaves, Stirs, Comes
  <2> QED
    BY <1>d, <2>1, ProcsSplit, PipeKept DEF Pending, Serving, Alive
<1>13. CASE Terminate
  BY <1>13, EndPipe DEF Terminate, Kill, Ended
<1>14. ASSUME NEW c \in Children, Crash(c) PROVE PipeInv'
  BY <1>14, EndPipe DEF Crash, Ended
<1>15. CASE UNCHANGED vars
  BY <1>15, <1>d, PipeKept DEF vars, events, Pending, Serving, Alive
<1> QED
  BY <1>1, <1>2, <1>3, <1>4, <1>5, <1>6, <1>7, <1>8, <1>9, <1>10, <1>11,
     <1>12, <1>13, <1>14, <1>15, <1>v, <1>w, ProcsSplit
  DEF Next, ParentStep, ChildStep, Loop, Failure

(* FullPipeIsRead for any number of children and any room in their         *)
(* socketpairs: no child that serves leaves a full one unread.             *)
THEOREM FullPipeHasReader == Spec => []FullPipeIsRead
<1>1. PipeInv => FullPipeIsRead
  BY DEF PipeInv
<1> QED  BY <1>1, PipeInit, PipeNext, PTL DEF Spec
-----------------------------------------------------------------------------
(* The account of the listen queue: how many ints and children about to    *)
(* accept there are, and what each step makes of their number.             *)

(* A set of numbers that is not empty has a least one: < is well-founded.  *)
LEMMA LeastPlace ==
  ASSUME NEW S, S \subseteq Nat, S # {}
  PROVE  \E i \in S : \A j \in S : i <= j
<1> DEFINE R == OpToRel(<, Nat)
<1>1. PICK i \in S : \A j \in S : <<j, i>> \notin R
  <2>1. IsWellFoundedOn(R, Nat)
    BY NatLessThanWellFounded
  <2> HIDE DEF R
  <2> QED  BY <2>1, WFMin
<1>2. \A j \in S : ~ (j < i)
  BY <1>1 DEF OpToRel
<1> HIDE DEF R
<1> QED  BY <1>2

(* The child whose turn it is is one the parent knows.                     *)
LEMMA TurnIsKnown ==
  ASSUME Known # {}, sub_process_counter \in Children
  PROVE  Turn \in Known
<1> DEFINE ahead(c) == (c - sub_process_counter + N) % N
           S == {ahead(c) : c \in Known}
<1>1. S \subseteq Nat
  <2> SUFFICES ASSUME NEW c \in Known PROVE ahead(c) \in Nat
    OBVIOUS
  <2>1. c - sub_process_counter + N \in Int /\ N \in Nat \ {0}
    BY PoolAssumption DEF Known, Children
  <2> QED  BY <2>1
<1>2. S # {}
  OBVIOUS
<1>3. \E i \in S : \A j \in S : i <= j
  <2> HIDE DEF S
  <2> QED  BY <1>1, <1>2, LeastPlace
<1>4. \E c \in Known : \A d \in Known : ahead(c) <= ahead(d)
  BY <1>3
<1>5. Turn = CHOOSE c \in Known : \A d \in Known : ahead(c) <= ahead(d)
  BY DEF Turn
<1> HIDE DEF ahead
<1> QED  BY <1>4, <1>5

(* So is the child that send is for.                                       *)
LEMMA TargetIsChild ==
  ASSUME sub_process_counter \in Children
  PROVE  Target \in Children
<1>1. sub_process_counter + N - 1 \in Int /\ N \in Nat \ {0}
  BY PoolAssumption DEF Children
<1> QED  BY <1>1 DEF Target, Children

(* Which pairs are in Notes, and that they are finitely many.              *)
LEMMA NotesAre ==
  ASSUME NEW cs \in SUBSET Children
  PROVE  /\ \A n \in Notes(cs) : \E c \in cs, i \in 0..PipeRoom : n = <<c, i>>
         /\ \A c \in cs, i \in 0..PipeRoom : <<c, i>> \in Notes(cs) <=>
              IF i = 0 THEN pc[c] = "accept" ELSE i <= notes[c]
         /\ IsFiniteSet(Notes(cs)) /\ Told(cs) \in Nat
<1>1. IsFiniteSet(Children) /\ IsFiniteSet(0..PipeRoom)
  BY PoolAssumption, FS_Interval DEF Children
<1>2. IsFiniteSet(cs \X (0..PipeRoom))
  BY <1>1, FS_Subset, FS_Product
<1>3. IsFiniteSet(Notes(cs))
  BY <1>2, FS_Subset DEF Notes
<1>4. Told(cs) \in Nat
  BY <1>3, FS_CardinalityType DEF Told
<1> QED  BY <1>3, <1>4 DEF Notes

(* A step that reads, sends and accepts nothing.                           *)
LEMMA ToldSame ==
  ASSUME UNCHANGED notes,
         \A c \in Children : pc'[c] = "accept" <=> pc[c] = "accept"
  PROVE  Notes(Children)' = Notes(Children) /\ Told(Children)' = Told(Children)
<1>1. Notes(Children)' = Notes(Children)
  BY DEF Notes
<1> QED  BY <1>1 DEF Told

(* An int is sent to c.                                                    *)
LEMMA ToldMore ==
  ASSUME NEW c \in Children, notes \in [Children -> 0..PipeRoom],
         notes[c] < PipeRoom,
         notes' = [notes EXCEPT ![c] = @ + 1],
         \A d \in Children : pc'[d] = "accept" <=> pc[d] = "accept"
  PROVE  Told(Children)' = Told(Children) + 1
<1> DEFINE A == Notes(Children)
           B == Notes(Children)'
           k == notes[c] + 1
<1>1. k \in 0..PipeRoom /\ k # 0 /\ PipeRoom \in Nat
  BY PoolAssumption
<1>2. B = A \cup {<<c, k>>} /\ <<c, k>> \notin A
  BY <1>1 DEF Notes
<1>3. IsFiniteSet(A)
  BY NotesAre
<1> HIDE DEF A, B, k
<1>4. Cardinality(B) = Cardinality(A) + 1
  BY <1>2, <1>3, FS_AddElement
<1> QED  BY <1>4 DEF A, B, Told

(* c has called accept.                                                    *)
LEMMA ToldLess ==
  ASSUME NEW c \in Children, DOMAIN pc = Procs, pc[c] = "accept",
         pc' = [pc EXCEPT ![c] = "loop"], UNCHANGED notes
  PROVE  Told(Children)' = Told(Children) - 1 /\ Told(Children) > 0
<1> DEFINE A == Notes(Children)
           B == Notes(Children)'
<1>1. \A d \in Children : pc'[d] = IF d = c THEN "loop" ELSE pc[d]
  BY ProcsSplit
<1>2. B = A \ {<<c, 0>>} /\ <<c, 0>> \in A
  BY <1>1, PoolAssumption DEF Notes
<1>3. IsFiniteSet(A) /\ IsFiniteSet(B)
  <2>1. IsFiniteSet(A)
    BY NotesAre
  <2> QED  BY <1>2, <2>1, FS_RemoveElement
<1> HIDE DEF A, B
<1>4. Cardinality(B) = Cardinality(A) - 1
  BY <1>2, <1>3, FS_RemoveElement
<1>5. Cardinality(B) \in Nat /\ Cardinality(A) \in Nat
  BY <1>3, FS_CardinalityType
<1> QED  BY <1>4, <1>5 DEF A, B, Told

(* c has read an int.                                                      *)
LEMMA ToldRead ==
  ASSUME NEW c \in Children, DOMAIN pc = Procs, pc[c] # "accept",
         notes \in [Children -> 0..PipeRoom], notes[c] # 0,
         pc' = [pc EXCEPT ![c] = "accept"],
         notes' = [notes EXCEPT ![c] = @ - 1]
  PROVE  Told(Children)' = Told(Children)
<1> DEFINE A == Notes(Children)
           B == Notes(Children)'
           k == notes[c]
           M == A \ {<<c, k>>}
<1>1. /\ \A d \in Children : pc'[d] = IF d = c THEN "accept" ELSE pc[d]
      /\ \A d \in Children : notes'[d] = IF d = c THEN k - 1 ELSE notes[d]
      /\ k \in 0..PipeRoom /\ k # 0 /\ PipeRoom \in Nat
  BY ProcsSplit, PoolAssumption
<1>2. B = M \cup {<<c, 0>>} /\ <<c, 0>> \notin M /\ <<c, k>> \in A
  BY <1>1 DEF Notes
<1>3. IsFiniteSet(A)
  BY NotesAre
<1>4. Told(Children) \in Nat
  BY NotesAre
<1> HIDE DEF A, B, k
<1>5. IsFiniteSet(M) /\ Cardinality(M) = Cardinality(A) - 1
  BY <1>2, <1>3, FS_RemoveElement
<1> HIDE DEF M
<1>6. Cardinality(B) = Cardinality(M) + 1
  BY <1>2, <1>5, FS_AddElement
<1> QED  BY <1>4, <1>5, <1>6 DEF A, B, Told

(* Children have ended: what they were told is lost with them.             *)
LEMMA ToldEnd ==
  ASSUME NEW ps, NEW l \in Ended,
         \A d \in Children : pc'[d] = IF d \in ps THEN l ELSE pc[d],
         notes' = [c \in Children |-> IF c \in ps \ {Parent} THEN 0
                                                          ELSE notes[c]],
         NEW gone, gone = ps \cap Children
  PROVE  Told(Children)' = Told(Children) - Told(gone) /\ Told(gone) \in Nat
<1> DEFINE A == Notes(Children)
           B == Notes(Children)'
           G == Notes(gone)
<1>1. \A d \in Children : /\ d \in gone => pc'[d] = l /\ notes'[d] = 0
                          /\ d \notin gone => /\ pc'[d] = pc[d]
                                              /\ notes'[d] = notes[d]
  BY ProcsSplit
<1>2. B = A \ G /\ G \subseteq A
  <2>1. l # "accept"
    BY DEF Ended
  <2> QED  BY <1>1, <2>1, PoolAssumption DEF Notes
<1>3. IsFiniteSet(A) /\ Told(gone) \in Nat /\ Told(Children) \in Nat
  BY NotesAre
<1> HIDE DEF A, B, G
<1>4. A \cap G = G
  BY <1>2
<1>5. Cardinality(A \ G) = Cardinality(A) - Cardinality(A \cap G)
  BY <1>3, FS_Difference
<1>6. Cardinality(B) = Cardinality(A) - Cardinality(G)
  BY <1>2, <1>4, <1>5
<1> QED  BY <1>3, <1>6 DEF A, B, G, Told
-----------------------------------------------------------------------------
(* What the end of processes leaves of each variable has its type.         *)
LEMMA EndType ==
  ASSUME TypeOK, NEW ps \in SUBSET Procs, NEW l \in Ended, NEW told, NEW done,
         End(ps, l, told, done), m_stop' \in [Procs -> BOOLEAN],
         m_pid' \in [Children -> BOOLEAN]
  PROVE  TypeOK'
<1> DEFINE gone == ps \ {Parent}
           hup(p)   == p # Parent /\ Closed(p, ps) /\ ~Closed(p, {})
           bytes(p) == (IF p \in told THEN {"TERM"} ELSE {}) \cup
                       (IF p = Parent /\ gone # {} /\ Serving(p)
                        THEN {"CHLD"} ELSE {})
           kept(p)  == IF p = Parent /\ done # {} THEN {} ELSE signals[p]
           more(p)  == (IF bytes(p) # {} THEN {Sig} ELSE {})
                         \cup (IF hup(p) THEN {Pipe} ELSE {})
           Sources  == Conns \cup {Sig, Pipe, Listen}
<1>1. /\ DOMAIN pc' = Procs
      /\ \A p \in Procs : p \in ps => pc'[p] = l
      /\ \A p \in Procs \ ps : pc'[p] = pc[p] \/ pc'[p] = "send"
  BY EndPc
<1>2. signals' = [p \in Procs |-> IF p \in ps THEN {}
                                             ELSE kept(p) \cup bytes(p)]
  BY DEF End
<1>3. ready' = [p \in Procs |-> IF p \in ps THEN {}
                                 ELSE ready[p] \cup more(p)]
  <2>1. ready' = [p \in Procs |->
           IF p \in ps THEN {}
           ELSE ready[p] \cup (IF bytes(p) # {} THEN {Sig} ELSE {})
                         \cup (IF hup(p) THEN {Pipe} ELSE {})]
    BY DEF End
  <2> HIDE DEF bytes, hup
  <2> QED  BY <2>1
<1>4. batch' = [p \in Procs |-> IF p \in ps THEN {} ELSE batch[p] \
                                  (IF p = Parent THEN done ELSE {})]
  BY DEF End
<1>5. /\ notes' = [c \in Children |-> IF c \in gone THEN 0 ELSE notes[c]]
      /\ open' = [c \in Children |-> IF c \in gone THEN {} ELSE open[c]]
      /\ missed' = missed + Told(gone)
      /\ unheard' = IF pc[Parent] = "setup" THEN unheard \cup gone
                                            ELSE unheard
      /\ UNCHANGED <<sub_process_counter, arrived, accepted, left>>
  BY DEF End
<1>6. gone \in SUBSET Children
  BY ProcsSplit
<1>7. Told(gone) \in Nat
  BY <1>6, NotesAre
<1>8. /\ \A p \in Procs : more(p) \subseteq Sources
      /\ \A p \in Procs : bytes(p) \subseteq {"TERM", "CHLD"}
      /\ \A p \in Procs : kept(p) \subseteq {"TERM", "CHLD"}
  BY DEF TypeOK
<1> HIDE DEF gone, hup, bytes, kept, more, Sources
<1>9. {ready, batch} \subseteq [Procs -> SUBSET Sources]
  BY DEF TypeOK, Sources
<1>10. {ready', batch'} \subseteq [Procs -> SUBSET Sources]
  BY <1>3, <1>4, <1>8, <1>9
<1>11. pc' \in [Procs -> {"setup", "wait", "loop", "accept", "send",
                        "blocked", "exited", "killed"}]
  <2> DEFINE States == {"setup", "wait", "loop", "accept", "send",
                        "blocked", "exited", "killed"}
  <2>1. l \in States /\ "send" \in States
        /\ \A p \in Procs : pc[p] \in States
    BY DEF TypeOK, Ended
  <2>2. pc' = [p \in Procs |-> pc'[p]]
    BY DEF End
  <2> HIDE DEF States
  <2>3. \A p \in Procs : pc'[p] \in States
    BY <1>1, <2>1
  <2>4. pc' \in [Procs -> States]
    BY <2>2, <2>3
  <2> QED  BY <2>4 DEF States
<1>12. signals' \in [Procs -> SUBSET {"TERM", "CHLD"}]
  BY <1>2, <1>8
<1>13. /\ notes' \in [Children -> 0..PipeRoom]
       /\ open' \in [Children -> SUBSET Conns]
  BY <1>5, PoolAssumption DEF TypeOK
<1>14. missed' \in Nat /\ unheard' \subseteq Children
  BY <1>5, <1>6, <1>7 DEF TypeOK
<1>15. /\ sub_process_counter' \in Children
       /\ arrived' \in 0..MaxConns /\ accepted' \in 0..arrived'
       /\ left' \subseteq Conns
  BY <1>5 DEF TypeOK
<1> QED
  BY <1>10, <1>11, <1>12, <1>13, <1>14, <1>15 DEF TypeOK, Sources

(* The variables have their types when the children have been forked.      *)
LEMMA TypeInit == Init => TypeOK
BY PoolAssumption DEF Init, TypeOK, Children, Conns

(* Every step leaves every variable in its type.                           *)
LEMMA TypeNext == TypeOK /\ [Next]_vars => TypeOK'
<1> SUFFICES ASSUME TypeOK, [Next]_vars PROVE TypeOK'
  OBVIOUS
<1> DEFINE Sources == Conns \cup {Sig, Pipe, Listen}
           Events  == [Procs -> SUBSET Sources]
           Places  == {"setup", "wait", "loop", "accept", "send", "blocked",
                       "exited", "killed"}
<1>e. ready \in Events /\ batch \in Events /\ pc \in [Procs -> Places]
  BY DEF TypeOK
<1>k. ASSUME pc' \in [Procs -> Places], ready' \in Events, batch' \in Events,
             UNCHANGED <<m_stop, m_pid, signals, notes, sub_process_counter,
                         arrived, accepted, open, left, missed, unheard>>
      PROVE  TypeOK'
  BY <1>k DEF TypeOK
<1>s. Sig \in Sources /\ Pipe \in Sources /\ Listen \in Sources
      /\ \A k \in Conns : k \in Sources
  OBVIOUS
<1>x. Parent \in Procs /\ \A c \in Children : c \in Procs
  BY ProcsSplit
<1>t. ASSUME NEW p \in Procs, NEW e, Take(p, e) PROVE batch' \in Events
  BY <1>e, <1>t DEF Take
<1>g. ASSUME NEW p \in Procs, NEW l \in Places, Goto(p, l)
      PROVE  pc' \in [Procs -> Places]
  BY <1>e, <1>g DEF Goto
<1> HIDE DEF Sources, Events, Places
<1>l. {"wait", "loop", "accept", "send", "blocked"} \subseteq Places
  BY DEF Places
<1>ev. \A f \in Events, p \in Procs, S \in SUBSET Sources :
         [f EXCEPT ![p] = S] \in Events /\ f[p] \in SUBSET Sources
  BY DEF Events
<1>1. ASSUME NEW p \in Procs, Setup(p) PROVE TypeOK'
  <2> DEFINE R == ReadyAtSetup(p)
  <2>1. R \in SUBSET Sources
    BY <1>s DEF ReadyAtSetup
  <2>2. ready' \in Events
    BY <1>1, <1>e, <1>ev, <2>1 DEF Setup
  <2>3. pc' \in [Procs -> Places]
    BY <1>1, <1>g, <1>l DEF Setup
  <2>4. missed' \in Nat
    <3>1. CASE p = Parent
      <4>1. (R = {Listen} /\ accepted < arrived) \/ R = {}
        BY <3>1 DEF ReadyAtSetup
      <4>2. arrived - accepted - Cardinality(R) \in Nat
        <5>1. Cardinality({Listen}) = 1 /\ Cardinality({}) = 0
          BY FS_Singleton, FS_EmptySet
        <5>2. \/ Cardinality(R) = 1 /\ accepted < arrived
              \/ Cardinality(R) = 0
          BY <4>1, <5>1
        <5>3. arrived \in Nat /\ accepted \in Nat /\ accepted <= arrived
          BY PoolAssumption DEF TypeOK
        <5> HIDE DEF R
        <5> QED  BY <5>2, <5>3
      <4>3. missed' = missed + (arrived - accepted - Cardinality(R))
        BY <1>1, <3>1 DEF Setup
      <4> QED  BY <4>2, <4>3 DEF TypeOK
    <3>2. CASE p # Parent
      BY <1>1, <3>2 DEF Setup, TypeOK
    <3> QED  BY <3>1, <3>2
  <2>5. UNCHANGED <<m_stop, batch, signals, m_pid, notes, arrived, accepted,
                    open, left, sub_process_counter, unheard>>
    BY <1>1 DEF Setup, clients
  <2> QED
    BY <1>e, <2>2, <2>3, <2>4, <2>5 DEF TypeOK, Events, Sources, Places
<1>2. ASSUME NEW p \in Procs, EpollWait(p) PROVE TypeOK'
  <2>1. ready' \in Events /\ batch' \in Events
    BY <1>2, <1>e, <1>ev DEF EpollWait
  <2>2. pc' \in [Procs -> Places]
    BY <1>2, <1>g, <1>l DEF EpollWait
  <2> QED  BY <1>2, <1>k, <2>1, <2>2 DEF EpollWait, clients
<1>3. ASSUME NEW p \in Procs, BatchDone(p) PROVE TypeOK'
  <2>1. m_stop' \in [Procs -> BOOLEAN] /\ m_pid' \in [Children -> BOOLEAN]
    BY <1>3 DEF BatchDone, TypeOK
  <2>2. CASE End({p}, "exited", {}, {})
    BY <2>1, <2>2, EndType DEF Ended
  <2>3. CASE Goto(p, "wait") /\ UNCHANGED <<events, notes, clients, missed,
                                   sub_process_counter, unheard>>
    <3>1. pc' \in [Procs -> Places]
      BY <2>3, <1>g, <1>l
    <3> QED  BY <1>3, <1>e, <1>k, <2>3, <3>1 DEF BatchDone, events, clients
  <2> QED  BY <1>3, <2>2, <2>3 DEF BatchDone
<1>4. CASE ParentSignals
  <2>1. m_stop' \in [Procs -> BOOLEAN] /\ m_pid' \in [Children -> BOOLEAN]
    <3>1. NoneLeft \in BOOLEAN
      BY DEF NoneLeft
    <3>2. \/ m_pid' = [c \in Children |-> m_pid[c] /\ c \notin Reaped]
          \/ m_pid' = m_pid
      BY <1>4 DEF ParentSignals
    <3>3. m_pid' \in [Children -> BOOLEAN]
      BY <3>2 DEF TypeOK
    <3>4. m_stop' = [m_stop EXCEPT ![Parent] = NoneLeft] \/ m_stop' = m_stop
      BY <1>4 DEF ParentSignals
    <3> HIDE DEF NoneLeft
    <3>5. m_stop' \in [Procs -> BOOLEAN]
      BY <3>1, <3>4 DEF TypeOK
    <3> QED  BY <3>3, <3>5
  <2>2. PICK ps \in SUBSET Procs : Kill(ps, {Sig})
    <3>1. Known \in SUBSET Procs /\ {} \in SUBSET Procs
      BY <1>x DEF Known
    <3> HIDE DEF Known
    <3> QED  BY <1>4, <3>1 DEF ParentSignals
  <2> QED  BY <2>1, <2>2, EndType DEF Kill, Ended
<1>5. CASE Dispatch
  <2>1. Turn \in Children
    BY <1>5, TurnIsKnown DEF Dispatch, Known, TypeOK
  <2>2. sub_process_counter' \in Children
    BY <1>5, <2>1, PoolAssumption DEF Dispatch, Children
  <2>3. pc' \in [Procs -> Places]
    BY <1>5, <1>g, <1>l, <1>x DEF Dispatch
  <2>4. batch' \in Events
    BY <1>5, <1>t, <1>x DEF Dispatch
  <2>5. UNCHANGED <<ready, notes, m_stop, signals, m_pid, arrived, accepted,
                    open, left, missed, unheard>>
    BY <1>5 DEF Dispatch, clients
  <2> QED
    BY <2>2, <2>3, <2>4, <2>5 DEF TypeOK, Events, Sources, Places
<1>v. CASE Send
  <2>1. Target \in Children
    BY TargetIsChild DEF TypeOK
  <2>2. pc' \in [Procs -> Places]
    BY <1>v, <1>g, <1>l, <1>x DEF Send
  <2> HIDE DEF Target
  <2>3. notes' = [notes EXCEPT ![Target] = @ + 1] /\ notes[Target] < PipeRoom
    BY <1>v DEF Send
  <2>4. notes' \in [Children -> 0..PipeRoom]
    BY <2>1, <2>3, PoolAssumption DEF TypeOK
  <2>5. ready' = [ready EXCEPT ![Target] = @ \cup {Pipe}] \/ UNCHANGED ready
    BY <1>v DEF Send, Comes
  <2>6. ready' \in Events
    BY <1>e, <1>s, <1>x, <2>1, <2>5 DEF Events
  <2>7. UNCHANGED <<batch, m_stop, signals, m_pid, arrived, accepted, open,
                    left, sub_process_counter, missed, unheard>>
    BY <1>v DEF Send, clients
  <2> QED
    BY <2>2, <2>4, <2>6, <2>7 DEF TypeOK, Events, Sources, Places
<1>w. CASE SendWaits \/ SendWoken \/ SendFails
  <2>1. pc' \in [Procs -> Places]
    BY <1>w, <1>g, <1>l, <1>x DEF SendWaits, SendWoken, SendFails
  <2>2. missed' \in Nat
    BY <1>w DEF SendWaits, SendWoken, SendFails, TypeOK
  <2>3. UNCHANGED <<ready, batch, m_stop, signals, m_pid, notes, arrived,
                    accepted, open, left, sub_process_counter, unheard>>
    BY <1>w DEF SendWaits, SendWoken, SendFails, InSend, events, clients
  <2> QED  BY <2>1, <2>2, <2>3 DEF TypeOK, Events, Sources, Places
<1>6. CASE SendToEnded
  BY <1>6, <1>x, EndType DEF SendToEnded, Ended, TypeOK
<1>7. CASE DispatchToNone
  <2>1. m_stop' \in [Procs -> BOOLEAN]
    BY <1>7 DEF DispatchToNone, TypeOK
  <2>2. batch' \in Events
    BY <1>7, <1>e, <1>ev, <1>x DEF DispatchToNone
  <2>3. missed' \in Nat
    BY <1>7 DEF DispatchToNone, TypeOK
  <2>4. UNCHANGED <<pc, ready, signals, m_pid, notes, arrived, accepted, open,
                    left, sub_process_counter, unheard>>
    BY <1>7 DEF DispatchToNone, clients
  <2> QED  BY <2>1, <2>2, <2>3, <2>4 DEF TypeOK, Events, Sources
<1>8. ASSUME NEW c \in Children, ChildNote(c) PROVE TypeOK'
  <2>1. batch' \in Events
    BY <1>8, <1>t, <1>x DEF ChildNote
  <2>2. notes' \in [Children -> 0..PipeRoom]
    BY <1>8, PoolAssumption DEF ChildNote, NotesLeft, TypeOK
  <2>3. pc' \in [Procs -> Places]
    BY <1>8, <1>e, <1>g, <1>l, <1>x DEF ChildNote
  <2>4. UNCHANGED <<m_stop, ready, signals, m_pid, arrived, accepted, open,
                    left, sub_process_counter, missed, unheard>>
    BY <1>8 DEF ChildNote, clients
  <2> QED  BY <2>1, <2>2, <2>3, <2>4 DEF TypeOK, Events, Sources, Places
<1>9. ASSUME NEW c \in Children, ChildAccept(c) PROVE TypeOK'
  <2>1. pc' \in [Procs -> Places]
    BY <1>9, <1>g, <1>l, <1>x DEF ChildAccept
  <2>2. UNCHANGED <<m_stop, batch, signals, m_pid, notes, arrived, left,
                    sub_process_counter, missed, unheard>>
    BY <1>9 DEF ChildAccept
  <2> DEFINE k == accepted + 1
  <2>3. accepted' = k /\ k \in 0..arrived' /\ k \in Conns
    BY <1>9, <2>2, PoolAssumption DEF ChildAccept, TypeOK, Conns
  <2>4. /\ open' = [open EXCEPT ![c] = @ \cup {k}]
        /\ ready' = [ready EXCEPT ![c] = @ \cup ({k} \cap left)]
    BY <1>9 DEF ChildAccept
  <2> HIDE DEF k
  <2>5. open' \in [Children -> SUBSET Conns]
    BY <2>3, <2>4 DEF TypeOK
  <2>6. ready' \in Events
    BY <1>e, <1>s, <1>x, <2>3, <2>4 DEF Events
  <2> QED
    BY <1>e, <2>1, <2>2, <2>3, <2>5, <2>6 DEF TypeOK, Events, Sources, Places
<1>f. ASSUME NEW c \in Children, AcceptFails(c) PROVE TypeOK'
  <2>1. pc' \in [Procs -> Places]
    BY <1>f, <1>g, <1>l, <1>x DEF AcceptFails
  <2>2. missed' \in Nat
    BY <1>f DEF AcceptFails, TypeOK, One
  <2>3. UNCHANGED <<m_stop, ready, batch, signals, m_pid, notes, arrived,
                    accepted, open, left, sub_process_counter, unheard>>
    BY <1>f DEF AcceptFails, events, clients
  <2> QED  BY <2>1, <2>2, <2>3 DEF TypeOK, Events, Sources, Places
<1>10. ASSUME NEW c \in Children, ChildSignals(c) PROVE TypeOK'
  <2>1. batch' \in Events
    BY <1>10, <1>t, <1>x DEF ChildSignals
  <2>2. /\ m_stop' \in [Procs -> BOOLEAN]
        /\ signals' \in [Procs -> SUBSET {"TERM", "CHLD"}]
    BY <1>10, <1>x DEF ChildSignals, TypeOK
  <2>3. UNCHANGED <<pc, ready, m_pid, notes, arrived, accepted, open, left,
                    sub_process_counter, missed, unheard>>
    BY <1>10 DEF ChildSignals, clients
  <2> QED  BY <1>e, <2>1, <2>2, <2>3 DEF TypeOK, Events, Sources
<1>11. ASSUME NEW c \in Children, NEW k \in Conns, Process(c, k) PROVE TypeOK'
  <2>1. batch' \in Events
    BY <1>11, <1>t, <1>x DEF Process
  <2>2. open' \in [Children -> SUBSET Conns]
    BY <1>11 DEF Process, TypeOK
  <2>3. UNCHANGED <<pc, m_stop, ready, signals, m_pid, notes, arrived,
                    accepted, left, sub_process_counter, missed, unheard>>
    BY <1>11 DEF Process
  <2> QED  BY <1>e, <2>1, <2>2, <2>3 DEF TypeOK, Events, Sources
<1>12. CASE ClientStep
  <2>1. ASSUME NEW k \in Conns, Stirs(k) PROVE ready' \in Events
    BY <1>e, <1>s, <2>1 DEF Stirs, Events
  <2>2. CASE Connect
    <3>1. arrived' \in 0..MaxConns /\ accepted' \in 0..arrived'
      BY <2>2, PoolAssumption DEF Connect, TypeOK
    <3>2. \/ ready' = [ready EXCEPT ![Parent] = @ \cup {Listen}]
          \/ UNCHANGED ready
      BY <2>2 DEF Connect, Comes
    <3>3. ready' \in Events
      BY <1>e, <1>s, <1>x, <3>2 DEF Events
    <3>4. missed' \in Nat
      BY <2>2 DEF Connect, TypeOK, One
    <3>5. UNCHANGED <<pc, m_stop, batch, signals, m_pid, notes, open, left,
                      sub_process_counter, unheard>>
      BY <2>2 DEF Connect
    <3> QED  BY <1>e, <3>1, <3>3, <3>4, <3>5 DEF TypeOK, Events, Sources
  <2>3. ASSUME NEW k \in Talking, ClientSends(k) \/ ClientLeaves(k)
        PROVE  TypeOK'
    <3>1. k \in Conns
      BY PoolAssumption DEF Conns
    <3>2. ready' \in Events
      BY <2>1, <2>3, <3>1 DEF ClientSends, ClientLeaves
    <3>3. left' \subseteq Conns
      BY <2>3, <3>1 DEF ClientSends, ClientLeaves, clients, TypeOK
    <3>4. UNCHANGED <<pc, m_stop, batch, signals, m_pid, notes, arrived,
                      accepted, open, sub_process_counter, missed, unheard>>
      BY <2>3 DEF ClientSends, ClientLeaves, clients
    <3> QED  BY <1>e, <3>2, <3>3, <3>4 DEF TypeOK, Events, Sources
  <2> QED  BY <1>12, <2>2, <2>3 DEF ClientStep
<1>13. CASE Terminate
  <2>1. {p \in {Parent} : pc[p] = "setup"} \in SUBSET Procs
    BY <1>x
  <2> QED  BY <1>13, <2>1, EndType DEF Terminate, Kill, Ended, TypeOK
<1>14. ASSUME NEW c \in Children, Crash(c) PROVE TypeOK'
  BY <1>14, <1>x, EndType DEF Crash, Ended, TypeOK
<1>15. CASE UNCHANGED vars
  BY <1>15, <1>e, <1>k DEF vars, events, clients
<1> QED
  BY <1>1, <1>2, <1>3, <1>4, <1>5, <1>6, <1>7, <1>8, <1>9, <1>10, <1>11,
     <1>12, <1>13, <1>14, <1>15, <1>f, <1>v, <1>w, ProcsSplit
  DEF Next, ParentStep, ChildStep, Loop, Failure
-----------------------------------------------------------------------------
(* The account itself holds while the parent serves.  Before it does       *)
(* nothing has been sent, accepted or missed, which is where it starts.    *)

Quiet(c) == pc[c] # "accept" /\ notes[c] = 0

EarlyInv ==
  pc[Parent] = "setup" =>
    missed = 0 /\ accepted = 0 /\ \A c \in Children : Quiet(c)

(* As long as the parent lives a child has no more events of its           *)
(* socketpair than ints in it: accept is called for ints only.             *)
IntInv ==
  Alive(Parent) => \A c \in Children :
    One(Pipe \in ready[c]) + One(Pipe \in batch[c]) <= notes[c]

CountInv == BacklogCounted /\ PipeInv /\ EarlyInv /\ IntInv

(* Children that nothing was sent to have been told nothing.               *)
LEMMA ToldNothing ==
  ASSUME NEW cs \in SUBSET Children, \A c \in cs : Quiet(c)
  PROVE  Told(cs) = 0
<1>1. Notes(cs) = {}
  BY DEF Notes, Quiet
<1> QED  BY <1>1, FS_EmptySet DEF Told

(* A step that leaves the parent's events for the listening socket and     *)
(* what has been told alone keeps the account.                             *)
LEMMA CountKept ==
  ASSUME CountInv, Serving(Parent)' => Serving(Parent),
         UNCHANGED <<arrived, accepted, missed>>,
         Listen \in ready'[Parent] <=> Listen \in ready[Parent],
         Listen \in batch'[Parent] <=> Listen \in batch[Parent],
         pc'[Parent] \in Sending <=> pc[Parent] \in Sending,
         Told(Children)' = Told(Children), TypeOK'
  PROVE  BacklogCounted'
BY DEF CountInv, BacklogCounted, Backlog, One

(* A step that leaves what every child has been told alone as long as the  *)
(* parent has not begun to serve.                                          *)
LEMMA EarlyKept ==
  ASSUME EarlyInv, pc'[Parent] = "setup" => pc[Parent] = "setup",
         UNCHANGED <<missed, accepted>>,
         pc[Parent] = "setup" =>
           \A c \in Children : Quiet(c) => Quiet(c)'
  PROVE  EarlyInv'
BY DEF EarlyInv

(* Processes that end: what was sent to them is missed from now on.        *)
LEMMA EndCount ==
  ASSUME CountInv, NEW ps \in SUBSET Procs, NEW l \in Ended, NEW told,
         NEW done \in {{}, {Sig}}, End(ps, l, told, done), TypeOK'
  PROVE  BacklogCounted' /\ EarlyInv'
<1> DEFINE gone == ps \ {Parent}
           bytes(p) == (IF p \in told THEN {"TERM"} ELSE {}) \cup
                       (IF p = Parent /\ gone # {} /\ Serving(p)
                        THEN {"CHLD"} ELSE {})
           hup(p)   == p # Parent /\ Closed(p, ps) /\ ~Closed(p, {})
           more(p)  == (IF bytes(p) # {} THEN {Sig} ELSE {})
                         \cup (IF hup(p) THEN {Pipe} ELSE {})
<1>1. /\ DOMAIN pc' = Procs
      /\ \A p \in Procs : p \in ps => pc'[p] = l
      /\ \A p \in Procs \ ps :
           \/ pc'[p] = pc[p]
           \/ p = Parent /\ pc[p] = "blocked" /\ pc'[p] = "send"
      /\ \A c \in Children : pc'[c] = IF c \in ps THEN l ELSE pc[c]
  <2>1. /\ DOMAIN pc' = Procs
        /\ \A p \in Procs : p \in ps => pc'[p] = l
        /\ \A p \in Procs \ ps :
             \/ pc'[p] = pc[p]
             \/ p = Parent /\ pc[p] = "blocked" /\ pc'[p] = "send"
        /\ \A c \in Children \ ps : pc'[c] = pc[c]
    BY EndPc
  <2> QED  BY <2>1, ProcsSplit
<1>2. ready' = [p \in Procs |-> IF p \in ps THEN {}
                                 ELSE ready[p] \cup more(p)]
  <2>1. ready' = [p \in Procs |->
           IF p \in ps THEN {}
           ELSE ready[p] \cup (IF bytes(p) # {} THEN {Sig} ELSE {})
                         \cup (IF hup(p) THEN {Pipe} ELSE {})]
    BY DEF End
  <2> HIDE DEF bytes, hup
  <2> QED  BY <2>1
<1>3. batch' = [p \in Procs |-> IF p \in ps THEN {} ELSE batch[p] \
                                  (IF p = Parent THEN done ELSE {})]
  BY DEF End
<1>4. /\ notes' = [c \in Children |-> IF c \in gone THEN 0 ELSE notes[c]]
      /\ missed' = missed + Told(gone)
      /\ UNCHANGED <<arrived, accepted>>
  BY DEF End
<1>5. gone = ps \cap Children /\ gone \in SUBSET Children
  BY ProcsSplit
<1>6. Listen \notin more(Parent) /\ Listen \notin done
  BY DEF Listen, Sig
<1>7. Told(Children)' = Told(Children) - Told(gone) /\ Told(gone) \in Nat
  BY <1>1, <1>4, <1>5, ToldEnd
<1>8. Told(Children) \in Nat
  BY NotesAre
<1> HIDE DEF gone, more
<1>9. EarlyInv'
  <2> SUFFICES ASSUME pc'[Parent] = "setup" PROVE /\ missed' = 0
                               /\ accepted' = 0
                               /\ \A c \in Children : Quiet(c)'
    BY DEF EarlyInv
  <2>1. pc[Parent] = "setup"
    BY <1>1, ProcsSplit DEF Ended
  <2>2. missed = 0 /\ accepted = 0 /\ \A c \in Children : Quiet(c)
    BY <2>1 DEF CountInv, EarlyInv
  <2>3. Told(gone) = 0
    BY <1>5, <2>2, ToldNothing
  <2>4. \A c \in Children : Quiet(c)'
    BY <1>1, <1>4, <2>2, ProcsSplit DEF Quiet, Ended
  <2> QED  BY <1>4, <2>2, <2>3, <2>4
<1>10. ASSUME Serving(Parent)'
       PROVE  Backlog' = missed' + One(Listen \in ready'[Parent])
                + One(Listen \in batch'[Parent])
                + One(pc'[Parent] \in Sending) + Told(Children)'
  <2>1. /\ Parent \notin ps
        /\ \/ pc'[Parent] = pc[Parent]
           \/ pc[Parent] = "blocked" /\ pc'[Parent] = "send"
    BY <1>1, <1>10, ProcsSplit DEF Serving, Alive, Ended
  <2>2. Serving(Parent) /\ (pc'[Parent] \in Sending <=> pc[Parent] \in Sending)
    BY <1>10, <2>1 DEF Serving, Alive, Sending
  <2>3. /\ ready'[Parent] = ready[Parent] \cup more(Parent)
        /\ batch'[Parent] = batch[Parent] \ done
    BY <1>2, <1>3, <2>1, ProcsSplit
  <2>4. /\ Listen \in ready'[Parent] <=> Listen \in ready[Parent]
        /\ Listen \in batch'[Parent] <=> Listen \in batch[Parent]
    BY <1>6, <2>3
  <2>5. Backlog = missed + One(Listen \in ready[Parent])
                + One(Listen \in batch[Parent]) + One(pc[Parent] \in Sending)
                + Told(Children)
    BY <2>2 DEF CountInv, BacklogCounted
  <2>6. missed \in Nat
    BY DEF CountInv, BacklogCounted, TypeOK
  <2>7. /\ One(Listen \in ready'[Parent]) = One(Listen \in ready[Parent])
        /\ One(Listen \in batch'[Parent]) = One(Listen \in batch[Parent])
        /\ One(pc'[Parent] \in Sending) = One(pc[Parent] \in Sending)
        /\ One(Listen \in ready[Parent]) \in Nat
        /\ One(Listen \in batch[Parent]) \in Nat
        /\ One(pc[Parent] \in Sending) \in Nat
    BY <2>2, <2>4 DEF One
  <2>8. Backlog' = Backlog
    BY <1>4 DEF Backlog
  <2> QED  BY <1>4, <1>7, <1>8, <2>5, <2>6, <2>7, <2>8
<1> QED  BY <1>9, <1>10 DEF BacklogCounted

(* It holds when the children have been forked.                            *)
LEMMA CountInit == Init => CountInv
<1> SUFFICES ASSUME Init PROVE CountInv
  OBVIOUS
<1>1. ~Serving(Parent)
  BY ProcsSplit DEF Init, Serving
<1>2. EarlyInv
  BY ProcsSplit DEF Init, EarlyInv, Quiet
<1>3. IntInv
  BY ProcsSplit DEF Init, IntInv, One
<1> QED  BY <1>1, <1>2, <1>3, PipeInit, TypeInit DEF CountInv, BacklogCounted

(* The end of processes brings no event of a socketpair while the parent   *)
(* lives.                                                                  *)
LEMMA EndInts ==
  ASSUME TypeOK, PipeInv, IntInv, NEW ps, NEW l \in Ended, NEW told, NEW done,
         End(ps, l, told, done)
  PROVE  IntInv'
<1> DEFINE gone == ps \ {Parent}
           bytes(p) == (IF p \in told THEN {"TERM"} ELSE {}) \cup
                       (IF p = Parent /\ gone # {} /\ Serving(p)
                        THEN {"CHLD"} ELSE {})
           hup(p)   == p # Parent /\ Closed(p, ps) /\ ~Closed(p, {})
           sig(p)   == IF bytes(p) # {} THEN {Sig} ELSE {}
<1>1. ready' = [p \in Procs |-> IF p \in ps THEN {}
                 ELSE ready[p] \cup sig(p)
                               \cup (IF hup(p) THEN {Pipe} ELSE {})]
  BY DEF End
<1>2. batch' = [p \in Procs |-> IF p \in ps THEN {} ELSE batch[p] \
                                  (IF p = Parent THEN done ELSE {})]
  BY DEF End
<1>3. notes' = [c \in Children |-> IF c \in gone THEN 0 ELSE notes[c]]
  BY DEF End
<1>4. \A p : Pipe \notin sig(p)
  BY DEF Sig, Pipe
<1> SUFFICES ASSUME Alive(Parent)', NEW c \in Children
             PROVE  One(Pipe \in ready'[c]) + One(Pipe \in batch'[c])
                      <= notes'[c]
  BY DEF IntInv
<1>5. Parent \notin ps /\ Alive(Parent)
  <2>1. /\ \A p \in Procs : p \in ps => pc'[p] = l
        /\ \A p \in Procs : ~Alive(p) => ~Alive(p)'
    BY EndPc
  <2> QED  BY <2>1, ProcsSplit DEF Alive, Ended
<1>6. c \in Procs /\ c # Parent /\ Parent \in Procs /\ Parent > c
  BY PoolAssumption DEF Procs, Parent, Children
<1>7. ~hup(c)
  BY <1>5, <1>6 DEF Closed
<1> HIDE DEF sig, hup
<1>8. CASE c \in ps
  <2>1. ready'[c] = {} /\ batch'[c] = {} /\ notes'[c] = 0
    BY <1>1, <1>2, <1>3, <1>6, <1>8
  <2> QED  BY <2>1 DEF One
<1>9. CASE c \notin ps
  <2>1. /\ Pipe \in ready'[c] <=> Pipe \in ready[c]
        /\ batch'[c] = batch[c] /\ notes'[c] = notes[c]
    BY <1>1, <1>2, <1>3, <1>4, <1>6, <1>7, <1>9
  <2>2. One(Pipe \in ready[c]) + One(Pipe \in batch[c]) <= notes[c]
    BY <1>5 DEF IntInv
  <2> QED  BY <2>1, <2>2 DEF One
<1> QED  BY <1>8, <1>9

(* Every step keeps that: an event comes with each int, and looking at it  *)
(* takes one.                                                              *)
LEMMA IntNext == TypeOK /\ PipeInv /\ IntInv /\ [Next]_vars => IntInv'
<1> SUFFICES ASSUME TypeOK, PipeInv, IntInv, [Next]_vars PROVE IntInv'
  OBVIOUS
<1>d. /\ DOMAIN pc = Procs /\ DOMAIN ready = Procs /\ DOMAIN batch = Procs
      /\ notes \in [Children -> 0..PipeRoom] /\ PipeRoom \in Nat \ {0}
      /\ \A p \in Procs : pc[p] \in {"setup", "wait"} => batch[p] = {}
  BY PoolAssumption DEF PipeInv
<1>x. /\ Parent \in Procs /\ Parent \notin Children
      /\ \A c \in Children : c \in Procs /\ c # Parent
  BY ProcsSplit
<1>s. Sig # Pipe /\ Listen # Pipe /\ \A k \in Conns : k # Pipe
  BY DEF Sig, Pipe, Listen, Conns
<1>k. ASSUME Alive(Parent)' => Alive(Parent), UNCHANGED notes,
             \A c \in Children : /\ Pipe \in ready'[c] => Pipe \in ready[c]
                                 /\ Pipe \in batch'[c] => Pipe \in batch[c]
      PROVE  IntInv'
  BY <1>d, <1>k DEF IntInv, One
<1>a. ASSUME NEW p \in Procs, NEW l, Goto(p, l),
             p = Parent => Alive(Parent)
      PROVE  Alive(Parent)' => Alive(Parent)
  BY <1>d, <1>a, <1>x DEF Goto, Alive
<1>1. ASSUME NEW p \in Procs, Setup(p) PROVE IntInv'
  <2>1. /\ pc[p] = "setup" /\ UNCHANGED <<batch, notes>>
        /\ ready' = [ready EXCEPT ![p] = ReadyAtSetup(p)]
        /\ Alive(Parent)' => Alive(Parent)
    BY <1>1, <1>a DEF Setup, Alive
  <2> SUFFICES ASSUME Alive(Parent), NEW c \in Children
               PROVE  One(Pipe \in ready'[c]) + One(Pipe \in batch'[c])
                        <= notes'[c]
    BY <2>1 DEF IntInv
  <2>2. CASE c = p
    <3>1. batch'[c] = {} /\ notes'[c] = notes[c] /\ notes[c] \in Nat
      BY <1>d, <2>1, <2>2
    <3>2. ~Closed(c, {})
      BY PoolAssumption DEF Closed, Procs, Children, Parent
    <3>3. Pipe \in ready'[c] => notes[c] > 0
      BY <1>d, <1>x, <2>1, <2>2, <3>2 DEF ReadyAtSetup
    <3> QED  BY <3>1, <3>3 DEF One
  <2>3. CASE c # p
    <3>1. ready'[c] = ready[c] /\ batch'[c] = batch[c] /\ notes'[c] = notes[c]
      BY <1>d, <1>x, <2>1, <2>3
    <3> QED  BY <3>1 DEF IntInv
  <2> QED  BY <2>2, <2>3
<1>2. ASSUME NEW p \in Procs, EpollWait(p) PROVE IntInv'
  <2>1. /\ pc[p] = "wait" /\ UNCHANGED notes
        /\ batch' = [batch EXCEPT ![p] = ready[p]]
        /\ ready' = [ready EXCEPT ![p] = {}]
        /\ Alive(Parent)' => Alive(Parent)
    BY <1>2, <1>a DEF EpollWait, Alive
  <2>2. ASSUME Alive(Parent), NEW c \in Children
        PROVE  One(Pipe \in ready'[c]) + One(Pipe \in batch'[c]) <= notes'[c]
    <3>1. One(Pipe \in ready[c]) + One(Pipe \in batch[c]) <= notes[c]
      BY <2>2 DEF IntInv
    <3>2. CASE c = p
      <4>1. batch[c] = {} /\ batch'[c] = ready[c] /\ ready'[c] = {}
        BY <1>d, <1>x, <2>1, <3>2
      <4> QED  BY <2>1, <3>1, <4>1 DEF One
    <3>3. CASE c # p
      <4>1. batch'[c] = batch[c] /\ ready'[c] = ready[c]
        BY <1>d, <1>x, <2>1, <3>3
      <4> QED  BY <2>1, <3>1, <4>1
    <3> QED  BY <3>2, <3>3
  <2> QED  BY <2>1, <2>2 DEF IntInv
<1>3. ASSUME NEW p \in Procs, BatchDone(p) PROVE IntInv'
  <2>1. CASE End({p}, "exited", {}, {})
    BY <2>1, EndInts DEF Ended
  <2>2. CASE pc[p] = "loop" /\ Goto(p, "wait") /\ UNCHANGED <<events, notes>>
    BY <1>a, <1>k, <2>2 DEF events, Alive
  <2> QED  BY <1>3, <2>1, <2>2 DEF BatchDone
<1>4. CASE ParentSignals
  <2>1. PICK ps : Kill(ps, {Sig})
    BY <1>4 DEF ParentSignals
  <2> QED  BY <2>1, EndInts DEF Kill, Ended
<1>5. CASE Send
  <2> DEFINE c == Target
  <2>1. /\ c \in Children /\ UNCHANGED batch
        /\ notes' = [notes EXCEPT ![c] = @ + 1] /\ notes[c] \in Nat
        /\ ready' = ready \/ ready' = [ready EXCEPT ![c] = @ \cup {Pipe}]
        /\ Alive(Parent)' => Alive(Parent)
    <3>1. c \in Children
      BY TargetIsChild DEF TypeOK
    <3>2. Alive(Parent)' => Alive(Parent)
      BY <1>5, <1>a, <1>x DEF Send, Alive
    <3> QED  BY <1>5, <1>d, <3>1, <3>2 DEF Send, Comes
  <2> HIDE DEF c
  <2>2. ASSUME Alive(Parent), NEW d \in Children
        PROVE  One(Pipe \in ready'[d]) + One(Pipe \in batch'[d]) <= notes'[d]
    <3>1. /\ One(Pipe \in ready[d]) + One(Pipe \in batch[d]) <= notes[d]
          /\ notes[d] \in Nat
      BY <1>d, <2>2 DEF IntInv
    <3>2. CASE d = c
      <4>1. notes'[d] = notes[d] + 1 /\ batch'[d] = batch[d]
        BY <1>d, <2>1, <3>2
      <4>2. One(Pipe \in ready'[d]) <= One(Pipe \in ready[d]) + 1
        BY DEF One
      <4>3. /\ One(Pipe \in ready'[d]) \in Nat
            /\ One(Pipe \in ready[d]) \in Nat
            /\ One(Pipe \in batch[d]) \in Nat
        BY DEF One
      <4> QED  BY <3>1, <4>1, <4>2, <4>3
    <3>3. CASE d # c
      <4>1. /\ notes'[d] = notes[d] /\ batch'[d] = batch[d]
            /\ ready'[d] = ready[d]
        BY <1>d, <1>x, <2>1, <3>3
      <4> QED  BY <3>1, <4>1
    <3> QED  BY <3>2, <3>3
  <2> QED  BY <2>1, <2>2 DEF IntInv
<1>6. CASE SendToEnded
  BY <1>6, EndInts DEF SendToEnded, Ended
<1>7. CASE SendWaits \/ SendWoken \/ SendFails
  <2>1. /\ Alive(Parent)' => Alive(Parent)
        /\ UNCHANGED <<ready, batch, notes>>
    BY <1>7, <1>a, <1>x
    DEF SendWaits, SendWoken, SendFails, InSend, events, Alive
  <2> QED  BY <1>k, <2>1
<1>8. CASE Dispatch
  <2>1. /\ Alive(Parent)' => Alive(Parent)
        /\ UNCHANGED <<ready, notes>>
        /\ batch' = [batch EXCEPT ![Parent] = @ \ {Listen}]
    BY <1>8, <1>a, <1>x DEF Dispatch, Take, Alive
  <2> QED  BY <1>d, <1>k, <1>x, <2>1
<1>9. CASE DispatchToNone
  <2>1. /\ UNCHANGED <<pc, ready, notes>>
        /\ batch' = [batch EXCEPT ![Parent] = {}]
    BY <1>9 DEF DispatchToNone
  <2> QED  BY <1>d, <1>k, <1>x, <2>1 DEF Alive
<1>10. ASSUME NEW c \in Children, ChildNote(c) PROVE IntInv'
  <2>1. /\ Pipe \in batch[c] /\ UNCHANGED ready
        /\ batch' = [batch EXCEPT ![c] = @ \ {Pipe}]
        /\ pc'[Parent] = pc[Parent]
        /\ notes[c] = 0 => UNCHANGED notes
        /\ notes[c] # 0 => notes' = [notes EXCEPT ![c] = @ - 1]
    BY <1>10, <1>d, <1>x DEF ChildNote, Take, Goto, NotesLeft
  <2>2. ASSUME Alive(Parent), NEW d \in Children
        PROVE  One(Pipe \in ready'[d]) + One(Pipe \in batch'[d]) <= notes'[d]
    <3>1. /\ One(Pipe \in ready[d]) + One(Pipe \in batch[d]) <= notes[d]
          /\ notes[d] \in Nat
      BY <1>d, <2>2 DEF IntInv
    <3>2. CASE d = c
      <4>1. One(Pipe \in batch[d]) = 1 /\ One(Pipe \in ready[d]) \in Nat
        BY <2>1, <3>2 DEF One
      <4>2. Pipe \notin batch'[d] /\ notes'[d] = notes[d] - 1
        BY <1>d, <1>x, <2>1, <3>1, <3>2, <4>1
      <4>3. One(Pipe \in batch'[d]) = 0
        BY <4>2 DEF One
      <4> QED  BY <2>1, <3>1, <4>1, <4>2, <4>3
    <3>3. CASE d # c
      <4>1. notes'[d] = notes[d] /\ batch'[d] = batch[d]
        BY <1>d, <1>x, <2>1, <3>3
      <4> QED  BY <2>1, <3>1, <4>1
    <3> QED  BY <3>2, <3>3
  <2> QED  BY <2>1, <2>2 DEF IntInv, Alive
<1>11. ASSUME NEW c \in Children, ChildAccept(c) \/ AcceptFails(c)
       PROVE  IntInv'
  <2>1. /\ Alive(Parent)' => Alive(Parent)
        /\ UNCHANGED <<batch, notes>>
    BY <1>11, <1>a, <1>x DEF ChildAccept, AcceptFails, events
  <2>2. \A d \in Children : Pipe \in ready'[d] => Pipe \in ready[d]
    <3>1. CASE ChildAccept(c)
      <4>1. accepted + 1 # Pipe
        BY DEF TypeOK, Pipe
      <4> QED  BY <1>d, <1>x, <3>1, <4>1 DEF ChildAccept
    <3>2. CASE AcceptFails(c)
      BY <3>2 DEF AcceptFails, events
    <3> QED  BY <1>11, <3>1, <3>2
  <2> QED  BY <1>k, <2>1, <2>2
<1>12. ASSUME NEW c \in Children,
              ChildSignals(c) \/ \E k \in Conns : Process(c, k)
       PROVE  IntInv'
  <2>1. PICK e : /\ batch' = [batch EXCEPT ![c] = @ \ {e}]
                 /\ UNCHANGED <<pc, ready, notes>>
    BY <1>12 DEF ChildSignals, Process, Take
  <2> QED  BY <1>d, <1>k, <1>x, <2>1 DEF Alive
<1>13. CASE ClientStep
  <2>1. UNCHANGED <<pc, batch, notes>>
    BY <1>13 DEF ClientStep, Connect, ClientSends, ClientLeaves
  <2>2. \A d \in Children : Pipe \in ready'[d] => Pipe \in ready[d]
    <3>1. CASE Connect
      BY <1>d, <1>x, <3>1 DEF Connect, Comes
    <3>2. ASSUME NEW k \in Talking, ClientSends(k) \/ ClientLeaves(k)
          PROVE  \A d \in Children : Pipe \in ready'[d] => Pipe \in ready[d]
      <4>1. k # Pipe
        BY PoolAssumption DEF Pipe
      <4> QED  BY <1>x, <3>2, <4>1 DEF ClientSends, ClientLeaves, Stirs
    <3> QED  BY <1>13, <3>1, <3>2 DEF ClientStep
  <2> QED  BY <1>k, <2>1, <2>2 DEF Alive
<1>14. CASE Terminate
  BY <1>14, EndInts DEF Terminate, Kill, Ended
<1>15. ASSUME NEW c \in Children, Crash(c) PROVE IntInv'
  BY <1>15, EndInts DEF Crash, Ended
<1>16. CASE UNCHANGED vars
  BY <1>16, <1>k DEF vars, events, Alive
<1> QED
  BY <1>1, <1>2, <1>3, <1>4, <1>5, <1>6, <1>7, <1>8, <1>9, <1>10, <1>11,
     <1>12, <1>13, <1>14, <1>15, <1>16, ProcsSplit
  DEF Next, ParentStep, ChildStep, Loop, Failure

(* Every step keeps it.                                                    *)
LEMMA CountNext == CountInv /\ [Next]_vars => CountInv'
<1> SUFFICES ASSUME CountInv, [Next]_vars PROVE BacklogCounted' /\ EarlyInv'
  BY PipeNext, IntNext DEF CountInv, BacklogCounted
<1>d. /\ TypeOK /\ TypeOK' /\ EarlyInv
      /\ DOMAIN pc = Procs /\ DOMAIN ready = Procs /\ DOMAIN batch = Procs
      /\ notes \in [Children -> 0..PipeRoom]
      /\ \A p \in Procs : pc[p] \in {"setup", "wait"} => batch[p] = {}
      /\ missed \in Nat /\ arrived \in Nat /\ accepted \in Nat
      /\ accepted <= arrived
  BY TypeNext, PoolAssumption DEF CountInv, BacklogCounted, PipeInv, TypeOK
<1>c. Serving(Parent) =>
        arrived - accepted = missed + One(Listen \in ready[Parent])
          + One(Listen \in batch[Parent]) + One(pc[Parent] \in Sending)
          + Told(Children)
  BY DEF CountInv, BacklogCounted, Backlog
<1>q. /\ Told(Children) \in Nat
      /\ One(Listen \in ready[Parent]) \in Nat
      /\ One(Listen \in batch[Parent]) \in Nat
      /\ One(pc[Parent] \in Sending) \in Nat
  BY NotesAre DEF One
<1>x. /\ Parent \in Procs /\ Parent \notin Children
      /\ \A c \in Children : c \in Procs /\ c # Parent
  BY ProcsSplit
<1>s. Sig # Listen /\ Pipe # Listen /\ \A k \in Conns : k # Listen
  BY DEF Sig, Pipe, Listen, Conns
<1>k. ASSUME UNCHANGED <<notes, arrived, accepted, missed>>,
             pc'[Parent] = "setup" => pc[Parent] = "setup",
             Serving(Parent)' => Serving(Parent),
             \A c \in Children : pc'[c] = "accept" <=> pc[c] = "accept",
             Listen \in ready'[Parent] <=> Listen \in ready[Parent],
             Listen \in batch'[Parent] <=> Listen \in batch[Parent],
             pc'[Parent] \in Sending <=> pc[Parent] \in Sending
      PROVE  BacklogCounted' /\ EarlyInv'
  <2>1. Told(Children)' = Told(Children)
    BY <1>k, ToldSame
  <2>2. \A c \in Children : Quiet(c) => Quiet(c)'
    BY <1>k DEF Quiet
  <2> QED  BY <1>d, <1>k, <2>1, <2>2, CountKept, EarlyKept
<1>1. CASE Setup(Parent)
  <2>1. /\ pc[Parent] = "setup" /\ pc' = [pc EXCEPT ![Parent] = "wait"]
        /\ ready' = [ready EXCEPT ![Parent] = ReadyAtSetup(Parent)]
        /\ missed' = missed
             + (arrived - accepted - Cardinality(ReadyAtSetup(Parent)))
        /\ UNCHANGED <<batch, notes, arrived, accepted>>
    BY <1>1 DEF Setup, Goto, clients
  <2>2. missed = 0 /\ accepted = 0 /\ \A c \in Children : Quiet(c)
    BY <1>d, <2>1 DEF EarlyInv
  <2>3. Told(Children) = 0
    BY <2>2, ToldNothing
  <2>4. Told(Children)' = 0
    BY <1>x, <2>1, <2>3, ToldSame
  <2>5. batch'[Parent] = {} /\ ready'[Parent] = ReadyAtSetup(Parent)
    BY <1>d, <1>x, <2>1
  <2>6. ReadyAtSetup(Parent) = IF accepted < arrived THEN {Listen} ELSE {}
    BY DEF ReadyAtSetup
  <2>7. Cardinality({Listen}) = 1 /\ Cardinality({}) = 0
    BY FS_Singleton, FS_EmptySet
  <2>8. Cardinality(ReadyAtSetup(Parent)) = One(Listen \in ready'[Parent])
    BY <2>5, <2>6, <2>7 DEF One
  <2>9. One(Listen \in batch'[Parent]) = 0 /\ One(pc'[Parent] \in Sending) = 0
    BY <1>d, <1>x, <2>1, <2>5 DEF One, Sending
  <2>10. One(Listen \in ready'[Parent]) \in Nat
    BY DEF One
  <2>11. Backlog' = missed' + One(Listen \in ready'[Parent])
           + One(Listen \in batch'[Parent])
          + One(pc'[Parent] \in Sending) + Told(Children)'
    BY <1>d, <2>1, <2>2, <2>4, <2>8, <2>9, <2>10 DEF Backlog
  <2>12. pc'[Parent] # "setup"
    BY <1>d, <1>x, <2>1
  <2> QED  BY <1>d, <2>11, <2>12 DEF BacklogCounted, EarlyInv
<1>2. ASSUME NEW c \in Children, Setup(c) PROVE BacklogCounted' /\ EarlyInv'
  <2>1. /\ pc[c] = "setup" /\ pc' = [pc EXCEPT ![c] = "wait"]
        /\ ready' = [ready EXCEPT ![c] = ReadyAtSetup(c)]
        /\ missed' = missed + 0
        /\ UNCHANGED <<batch, notes, arrived, accepted>>
    BY <1>2, <1>x DEF Setup, Goto, clients
  <2>2. missed' = missed
    BY <1>d, <2>1
  <2> QED  BY <1>d, <1>k, <1>x, <2>1, <2>2 DEF Serving, Alive
<1>3. CASE EpollWait(Parent)
  <2>1. /\ pc[Parent] = "wait" /\ pc' = [pc EXCEPT ![Parent] = "loop"]
        /\ batch' = [batch EXCEPT ![Parent] = ready[Parent]]
        /\ ready' = [ready EXCEPT ![Parent] = {}]
        /\ UNCHANGED <<notes, arrived, accepted, missed>>
    BY <1>3 DEF EpollWait, Goto, clients
  <2>2. /\ batch[Parent] = {} /\ batch'[Parent] = ready[Parent]
        /\ ready'[Parent] = {}
    BY <1>d, <1>x, <2>1
  <2>3. Told(Children)' = Told(Children)
    BY <1>x, <2>1, ToldSame
  <2>4. /\ One(Listen \in batch[Parent]) = 0
        /\ One(Listen \in ready'[Parent]) = 0
        /\ One(Listen \in batch'[Parent]) = One(Listen \in ready[Parent])
        /\ One(pc[Parent] \in Sending) = 0
        /\ One(pc'[Parent] \in Sending) = 0
    BY <1>d, <1>x, <2>1, <2>2 DEF One, Sending
  <2>5. Serving(Parent) /\ pc'[Parent] # "setup"
    BY <1>d, <1>x, <2>1 DEF Serving, Alive
  <2>6. Backlog' = missed' + One(Listen \in ready'[Parent])
          + One(Listen \in batch'[Parent])
          + One(pc'[Parent] \in Sending) + Told(Children)'
    BY <1>c, <1>d, <1>q, <2>1, <2>3, <2>4, <2>5 DEF Backlog
  <2> QED  BY <1>d, <2>5, <2>6 DEF BacklogCounted, EarlyInv
<1>4. ASSUME NEW c \in Children, EpollWait(c)
      PROVE  BacklogCounted' /\ EarlyInv'
  <2>1. /\ pc[c] = "wait" /\ pc' = [pc EXCEPT ![c] = "loop"]
        /\ batch' = [batch EXCEPT ![c] = ready[c]]
        /\ ready' = [ready EXCEPT ![c] = {}]
        /\ UNCHANGED <<notes, arrived, accepted, missed>>
    BY <1>4 DEF EpollWait, Goto, clients
  <2> QED  BY <1>d, <1>k, <1>x, <2>1 DEF Serving, Alive
<1>5. ASSUME NEW p \in Procs, BatchDone(p)
      PROVE  BacklogCounted' /\ EarlyInv'
  <2>1. CASE End({p}, "exited", {}, {})
    BY <1>d, <2>1, EndCount DEF Ended
  <2>2. CASE /\ pc[p] = "loop" /\ Goto(p, "wait")
             /\ UNCHANGED <<events, notes, sub_process_counter, clients,
                            missed, unheard>>
    <3>1. /\ pc' = [pc EXCEPT ![p] = "wait"]
          /\ UNCHANGED <<ready, batch, notes, arrived, accepted, missed>>
      BY <2>2 DEF Goto, events, clients
    <3> QED  BY <1>d, <1>k, <1>x, <2>2, <3>1 DEF Serving, Alive, Sending
  <2> QED  BY <1>5, <2>1, <2>2 DEF BatchDone
<1>6. CASE ParentSignals
  <2>1. PICK ps \in SUBSET Procs : Kill(ps, {Sig})
    <3>1. Known \in SUBSET Procs /\ {} \in SUBSET Procs
      BY <1>x DEF Known
    <3> HIDE DEF Known
    <3> QED  BY <1>6, <3>1 DEF ParentSignals
  <2>2. {p \in ps : pc[p] = "setup"} \in SUBSET Procs
    OBVIOUS
  <2> QED  BY <1>d, <2>1, <2>2, EndCount DEF Kill, Ended
<1>7. CASE Dispatch
  <2>1. /\ Listen \in batch[Parent] /\ pc[Parent] = "loop"
        /\ batch' = [batch EXCEPT ![Parent] = @ \ {Listen}]
        /\ pc' = [pc EXCEPT ![Parent] = "send"]
        /\ UNCHANGED <<ready, notes, arrived, accepted, missed>>
    BY <1>7 DEF Dispatch, Take, Goto, clients
  <2>2. Told(Children)' = Told(Children)
    BY <1>x, <2>1, ToldSame
  <2>3. Listen \notin batch'[Parent] /\ pc'[Parent] = "send"
    BY <1>d, <1>x, <2>1
  <2>4. /\ One(Listen \in ready'[Parent]) = One(Listen \in ready[Parent])
        /\ One(Listen \in batch[Parent]) = 1
        /\ One(Listen \in batch'[Parent]) = 0
        /\ One(pc[Parent] \in Sending) = 0
        /\ One(pc'[Parent] \in Sending) = 1
    BY <2>1, <2>3 DEF One, Sending
  <2>5. Serving(Parent)
    BY <2>1 DEF Serving, Alive
  <2>6. Backlog' = missed' + One(Listen \in ready'[Parent])
          + One(Listen \in batch'[Parent])
          + One(pc'[Parent] \in Sending) + Told(Children)'
    BY <1>c, <1>d, <1>q, <2>1, <2>2, <2>4, <2>5 DEF Backlog
  <2> QED  BY <1>d, <2>3, <2>6 DEF BacklogCounted, EarlyInv
<1>v. CASE Send
  <2>1. Target \in Children
    BY <1>d, TargetIsChild DEF TypeOK
  <2>2. /\ pc[Parent] = "send" /\ pc' = [pc EXCEPT ![Parent] = "loop"]
        /\ notes' = [notes EXCEPT ![Target] = @ + 1]
        /\ notes[Target] < PipeRoom
        /\ \/ ready' = [ready EXCEPT ![Target] = @ \cup {Pipe}]
           \/ UNCHANGED ready
        /\ UNCHANGED <<batch, arrived, accepted, missed>>
    BY <1>v DEF Send, Comes, Goto, clients
  <2> HIDE DEF Target
  <2>3. Told(Children)' = Told(Children) + 1
    BY <1>d, <1>x, <2>1, <2>2, ToldMore
  <2>4. ready'[Parent] = ready[Parent] /\ pc'[Parent] = "loop"
    BY <1>d, <1>x, <2>1, <2>2
  <2>5. /\ One(Listen \in ready'[Parent]) = One(Listen \in ready[Parent])
        /\ One(Listen \in batch'[Parent]) = One(Listen \in batch[Parent])
        /\ One(pc[Parent] \in Sending) = 1
        /\ One(pc'[Parent] \in Sending) = 0
    BY <2>2, <2>4 DEF One, Sending
  <2>6. Serving(Parent)
    BY <2>2 DEF Serving, Alive
  <2>7. Backlog' = missed' + One(Listen \in ready'[Parent])
          + One(Listen \in batch'[Parent])
          + One(pc'[Parent] \in Sending) + Told(Children)'
    BY <1>c, <1>d, <1>q, <2>2, <2>3, <2>5, <2>6 DEF Backlog
  <2> QED  BY <1>d, <2>4, <2>7 DEF BacklogCounted, EarlyInv
<1>w. CASE SendWaits \/ SendWoken
  <2>1. PICK l \in Sending : /\ pc[Parent] \in Sending
                             /\ pc' = [pc EXCEPT ![Parent] = l]
    BY <1>w DEF SendWaits, SendWoken, Goto, Sending
  <2>2. UNCHANGED <<ready, batch, notes, arrived, accepted, missed>>
    BY <1>w DEF SendWaits, SendWoken, InSend, events, clients
  <2>3. pc'[Parent] = l /\ l # "setup"
    BY <1>d, <1>x, <2>1 DEF Sending
  <2>4. \A c \in Children : pc'[c] = pc[c]
    BY <1>x, <2>1
  <2>5. Serving(Parent)
    BY <2>1 DEF Sending, Serving, Alive
  <2> QED  BY <1>k, <2>1, <2>2, <2>3, <2>4, <2>5
<1>z. CASE SendFails
  <2>1. /\ pc[Parent] = "blocked" /\ pc' = [pc EXCEPT ![Parent] = "loop"]
        /\ missed' = missed + 1
        /\ UNCHANGED <<ready, batch, notes, arrived, accepted>>
    BY <1>z DEF SendFails, InSend, Goto, events, clients
  <2>2. Told(Children)' = Told(Children)
    BY <1>x, <2>1, ToldSame
  <2>3. pc'[Parent] = "loop"
    BY <1>d, <1>x, <2>1
  <2>4. /\ One(Listen \in ready'[Parent]) = One(Listen \in ready[Parent])
        /\ One(Listen \in batch'[Parent]) = One(Listen \in batch[Parent])
        /\ One(pc[Parent] \in Sending) = 1
        /\ One(pc'[Parent] \in Sending) = 0
    BY <2>1, <2>3 DEF One, Sending
  <2>5. Serving(Parent)
    BY <2>1 DEF Serving, Alive
  <2>6. Backlog' = missed' + One(Listen \in ready'[Parent])
          + One(Listen \in batch'[Parent])
          + One(pc'[Parent] \in Sending) + Told(Children)'
    BY <1>c, <1>d, <1>q, <2>1, <2>2, <2>4, <2>5 DEF Backlog
  <2> QED  BY <1>d, <2>3, <2>6 DEF BacklogCounted, EarlyInv
<1>8. CASE SendToEnded
  BY <1>8, <1>d, <1>x, EndCount DEF SendToEnded, Ended
<1>9. CASE DispatchToNone
  <2>1. /\ Listen \in batch[Parent] /\ pc[Parent] = "loop"
        /\ batch' = [batch EXCEPT ![Parent] = {}]
        /\ missed' = missed + 1
        /\ UNCHANGED <<pc, ready, notes, arrived, accepted>>
    BY <1>9 DEF DispatchToNone, clients
  <2>2. Told(Children)' = Told(Children)
    BY <2>1, ToldSame
  <2>3. batch'[Parent] = {}
    BY <1>d, <1>x, <2>1
  <2>4. /\ One(Listen \in batch[Parent]) = 1
        /\ One(Listen \in batch'[Parent]) = 0
        /\ One(Listen \in ready'[Parent]) = One(Listen \in ready[Parent])
        /\ One(pc'[Parent] \in Sending) = One(pc[Parent] \in Sending)
    BY <2>1, <2>3 DEF One
  <2>5. Serving(Parent) /\ pc'[Parent] # "setup"
    BY <2>1 DEF Serving, Alive
  <2>6. Backlog' = missed' + One(Listen \in ready'[Parent])
          + One(Listen \in batch'[Parent])
          + One(pc'[Parent] \in Sending) + Told(Children)'
    BY <1>c, <1>d, <1>q, <2>1, <2>2, <2>4, <2>5 DEF Backlog
  <2> QED  BY <1>d, <2>5, <2>6 DEF BacklogCounted, EarlyInv
<1>10. ASSUME NEW c \in Children, ChildNote(c)
       PROVE  BacklogCounted' /\ EarlyInv'
  <2>1. /\ pc[c] = "loop" /\ batch' = [batch EXCEPT ![c] = @ \ {Pipe}]
        /\ Pipe \in batch[c]
        /\ UNCHANGED <<ready, arrived, accepted, missed>>
    BY <1>10 DEF ChildNote, Take, clients
  <2>2. CASE UNCHANGED <<pc, notes>>
    BY <1>d, <1>k, <1>x, <2>1, <2>2 DEF Serving, Alive
  <2>3. CASE notes[c] # 0
    <3>1. /\ notes' = [notes EXCEPT ![c] = @ - 1]
          /\ pc' = [pc EXCEPT ![c] = "accept"]
      BY <1>10, <2>3 DEF ChildNote, NotesLeft, Goto
    <3>2. Told(Children)' = Told(Children)
      BY <1>d, <2>1, <2>3, <3>1, ToldRead
    <3>3. pc'[Parent] = pc[Parent] /\ batch'[Parent] = batch[Parent]
      BY <1>d, <1>x, <2>1, <3>1
    <3>4. BacklogCounted'
      BY <1>d, <2>1, <3>2, <3>3, CountKept DEF Serving, Alive
    <3>5. pc[Parent] # "setup"
      BY <1>d, <2>3 DEF EarlyInv, Quiet
    <3> QED  BY <3>3, <3>4, <3>5 DEF EarlyInv
  <2>4. CASE notes[c] = 0 /\ pc' = [pc EXCEPT ![c] = "accept"]
    <3>1. One(Pipe \in batch[c]) = 1 /\ One(Pipe \in ready[c]) \in Nat
      BY <2>1 DEF One
    <3>2. ~Alive(Parent)
      BY <2>4, <3>1 DEF CountInv, IntInv
    <3>3. pc'[Parent] = pc[Parent]
      BY <1>d, <1>x, <2>4
    <3>4. ~Alive(Parent)' /\ pc'[Parent] # "setup"
      BY <3>2, <3>3 DEF Alive
    <3> QED  BY <1>d, <3>4 DEF BacklogCounted, EarlyInv, Serving
  <2> QED  BY <1>10, <2>2, <2>3, <2>4 DEF ChildNote, Goto
<1>11. ASSUME NEW c \in Children, ChildAccept(c) \/ AcceptFails(c)
       PROVE  BacklogCounted' /\ EarlyInv'
  <2>1. /\ pc[c] = "accept" /\ pc' = [pc EXCEPT ![c] = "loop"]
        /\ UNCHANGED <<batch, notes, arrived>>
    BY <1>11 DEF ChildAccept, AcceptFails, Goto, events, clients
  <2>2. /\ \/ accepted' = accepted + 1 /\ missed' = missed
           \/ /\ accepted' = accepted
              /\ accepted < arrived => missed' = missed + 1
        /\ ready'[Parent] = ready[Parent]
    BY <1>11, <1>d, <1>x DEF ChildAccept, AcceptFails, events, clients, One
  <2>3. Told(Children)' = Told(Children) - 1 /\ Told(Children) > 0
    BY <1>d, <2>1, ToldLess
  <2>4. pc'[Parent] = pc[Parent] /\ pc[Parent] # "setup"
    BY <1>d, <1>x, <2>1 DEF EarlyInv, Quiet
  <2>5. ASSUME Serving(Parent)
        PROVE  Backlog' = missed' + One(Listen \in ready'[Parent])
                 + One(Listen \in batch'[Parent])
                 + One(pc'[Parent] \in Sending) + Told(Children)'
    <3>1. accepted < arrived
      BY <1>c, <1>d, <1>q, <2>3, <2>5
    <3> QED
      BY <1>c, <1>d, <1>q, <2>1, <2>2, <2>3, <2>4, <2>5, <3>1 DEF Backlog
  <2> QED
    BY <1>d, <2>4, <2>5 DEF BacklogCounted, EarlyInv, Serving, Alive
<1>12. ASSUME NEW c \in Children,
              ChildSignals(c) \/ \E k \in Conns : Process(c, k)
       PROVE  BacklogCounted' /\ EarlyInv'
  <2>1. PICK e : /\ batch' = [batch EXCEPT ![c] = @ \ {e}]
                 /\ UNCHANGED <<pc, ready, notes, arrived, accepted, missed>>
    BY <1>12 DEF ChildSignals, Process, Take, clients
  <2> QED  BY <1>d, <1>k, <1>x, <2>1 DEF Serving, Alive
<1>13. CASE Connect
  <2>1. /\ arrived' = arrived + 1
        /\ UNCHANGED <<pc, batch, notes, accepted>>
    BY <1>13 DEF Connect
  <2>2. Told(Children)' = Told(Children)
    BY <2>1, ToldSame
  <2>3. CASE Serving(Parent)
    <3>1. /\ ready' = [ready EXCEPT ![Parent] = @ \cup {Listen}]
          /\ missed' = missed + One(Listen \in ready[Parent])
      BY <1>13, <2>3 DEF Connect, Comes
    <3>2. Listen \in ready'[Parent]
      BY <1>d, <1>x, <3>1
    <3>3. /\ One(Listen \in ready'[Parent]) = 1
          /\ One(Listen \in batch'[Parent]) = One(Listen \in batch[Parent])
      BY <2>1, <3>2 DEF One
    <3>4. Backlog' = missed' + One(Listen \in ready'[Parent])
            + One(Listen \in batch'[Parent])
          + One(pc'[Parent] \in Sending) + Told(Children)'
      BY <1>c, <1>d, <1>q, <2>1, <2>2, <2>3, <3>1, <3>3 DEF Backlog
    <3>5. pc'[Parent] # "setup"
      BY <2>1, <2>3 DEF Serving
    <3> QED  BY <1>d, <3>4, <3>5 DEF BacklogCounted, EarlyInv
  <2>4. CASE ~Serving(Parent)
    <3>1. missed' = missed
      BY <1>13, <2>4 DEF Connect
    <3>2. ~Serving(Parent)'
      BY <2>1, <2>4 DEF Serving, Alive
    <3>3. EarlyInv'
      BY <1>d, <2>1, <3>1 DEF EarlyInv, Quiet
    <3> QED  BY <1>d, <3>2, <3>3 DEF BacklogCounted
  <2> QED  BY <2>3, <2>4
<1>14. ASSUME NEW k, ClientSends(k) \/ ClientLeaves(k)
       PROVE  BacklogCounted' /\ EarlyInv'
  <2>1. UNCHANGED <<pc, batch, notes, arrived, accepted, missed>>
    BY <1>14 DEF ClientSends, ClientLeaves, clients
  <2>2. ready'[Parent] = ready[Parent]
    BY <1>14, <1>x DEF ClientSends, ClientLeaves, Stirs
  <2> QED  BY <1>k, <2>1, <2>2 DEF Serving, Alive
<1>15. CASE Terminate
  <2>1. {p \in {Parent} : pc[p] = "setup"} \in SUBSET Procs
    BY <1>x
  <2> QED  BY <1>15, <1>d, <2>1, EndCount DEF Terminate, Kill, Ended
<1>16. ASSUME NEW c \in Children, Crash(c) PROVE BacklogCounted' /\ EarlyInv'
  BY <1>16, <1>d, <1>x, EndCount DEF Crash, Ended
<1>17. CASE UNCHANGED vars
  BY <1>17, <1>k DEF vars, events, clients, Serving, Alive
<1> QED
  BY <1>1, <1>2, <1>3, <1>4, <1>5, <1>6, <1>7, <1>8, <1>9, <1>10, <1>11,
     <1>12, <1>13, <1>14, <1>15, <1>16, <1>17, <1>v, <1>w, <1>z, ProcsSplit
  DEF Next, ParentStep, ChildStep, ClientStep, Loop, Failure

(* BacklogCounted for any number of children, connections and ints: no     *)
(* connection in the listen queue is forgotten but those counted as        *)
(* missed.                                                                 *)
THEOREM ConnectionsAreCounted == Spec => []BacklogCounted
<1>1. CountInv => BacklogCounted
  BY DEF CountInv
<1> QED  BY <1>1, CountInit, CountNext, PTL DEF Spec
=============================================================================
