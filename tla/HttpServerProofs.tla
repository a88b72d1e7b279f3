-------------------------- MODULE HttpServerProofs --------------------------
(***************************************************************************)
(* HttpServer's safety properties for every number of workers, descriptors *)
(* and connections and every limit: who has a connection, what its slot    *)
(* says of it, m_user_count and the backlog.                               *)
(***************************************************************************)
EXTENDS HttpServer, FiniteSetTheorems, WellFoundedInduction, TLAPS

(* The places of the main thread and of a worker.                          *)
MainAt   == {"wait", "next", "check", "add", "incload", "incstore", "close",
             "unset", "decload", "decstore", "spin"}
WorkerAt == {"idle", "process", "modin", "modout", "close", "unset",
             "decload", "decstore", "spin"}

(* A thread is at one of its own places, has a slot wherever it uses one,  *)
(* and a slot never holds the descriptor of another.                       *)
PlaceOK ==
  /\ pc[Main] \in MainAt
  /\ \A w \in Workers : pc[w] \in WorkerAt
  /\ \A t \in Threads : pc[t] \notin {"wait", "next", "idle"} => cur[t] \in Fds
  /\ \A f \in Fds : m_sockfd[f] \in {f, NoFd}

(* epoll_wait is called when the batch is done; it reports each descriptor *)
(* once, and listenfd with its own event only.                             *)
BatchOK ==
  /\ pc[Main] = "wait" => batch = {}
  /\ \A e \in batch : e.fd = Listen <=> e.ev = "accept"
  /\ \A d, e \in batch : d.fd = e.fd => d = e

(* Every connection in the backlog has an event of listenfd coming, but    *)
(* for those that shared one or whose event went into a failed accept.     *)
BacklogAccounted ==
  backlog = missed + (IF edge THEN 1 ELSE 0)
              + (IF \E e \in batch : e.fd = Listen THEN 1 ELSE 0)

(* Why accept finds a connection: its event is one of those counted.       *)
BacklogInv == BacklogAccounted /\ backlog <= arrived

(* The types, with what is needed to keep them.                            *)
TypeInv == TypeOK /\ PlaceOK /\ BatchOK /\ BacklogInv

(* A set of numbers that is not empty has a least one: < is well-founded.  *)
LEMMA LeastPlace ==
  ASSUME NEW S, S \subseteq Nat, S # {}
  PROVE  \E i \in S : \A j \in S : i <= j
<1> DEFINE R == OpToRel(<, Nat)
<1>1. PICK i \in S : \A j \in S : <<j, i>> \notin R
  <2>1. IsWellFoundedOn(R, Nat)
    BY NatLessThanWellFounded
  <2> HIDE DEF R
  <2> QED BY <2>1, WFMin
<1>2. \A j \in S : ~ (j < i)
  BY <1>1 DEF OpToRel
<1> HIDE DEF R
<1> QED BY <1>2

(* The types hold at first.                                                *)
LEMMA TypeInit == Init => TypeInv
<1> SUFFICES ASSUME Init PROVE TypeInv
  OBVIOUS
<1> USE ServerAssumption DEF Init
<1>1. /\ queue \in Seq(Fds) /\ batch = {}
      /\ {edge, lost, clash} \subseteq BOOLEAN
  <2>1. <<>> \in Seq(Fds)
    OBVIOUS
  <2> QED  BY <2>1
<1>9. {backlog, missed, arrived} \subseteq 0..MaxConns
  OBVIOUS
<1>2. /\ Main \in Threads /\ pc[Main] = "wait"
      /\ \A w \in Workers : w \in Threads /\ pc[w] = "idle"
      /\ \A t \in Threads : pc[t] \in {"wait", "idle"}
  BY DEF Threads
<1>3. TypeOK
  BY <1>1, <1>2, <1>9 DEF TypeOK, NoFd
<1>4. PlaceOK
  BY <1>2 DEF PlaceOK, MainAt, WorkerAt, NoFd
<1>5. BatchOK /\ BacklogInv
  BY <1>1 DEF BatchOK, BacklogInv, BacklogAccounted
<1> QED  BY <1>3, <1>4, <1>5 DEF TypeInv

(* What steps do that touch neither the batch nor the backlog.             *)
LEMMA BatchKept ==
  ASSUME BatchOK, BacklogInv,
         UNCHANGED <<batch, backlog, edge, missed, arrived>>,
         pc'[Main] = "wait" => pc[Main] = "wait"
  PROVE  BatchOK' /\ BacklogInv'
BY DEF BatchOK, BacklogInv, BacklogAccounted

(* What handling an event of a connection leaves of the batch.             *)
LEMMA TakeKeeps ==
  ASSUME TypeOK, BatchOK, BacklogInv,
         NEW e, NEW ev, Take(e, ev), ev # "accept",
         UNCHANGED <<backlog, edge, missed, arrived>>, pc'[Main] # "wait"
  PROVE  BatchOK' /\ BacklogInv' /\ e.fd \in Fds /\ batch' \subseteq batch
BY DEF Take, BatchOK, BacklogInv, BacklogAccounted, TypeOK

(* EPOLL_CTL_MOD leaves each descriptor a known interest.                  *)
LEMMA ModfdTyped ==
  ASSUME interest \in [Fds -> {"none", "fired", "in", "out"}],
         NEW fd, NEW ev \in {"in", "out"},
         Modfd(fd, ev) \/ UNCHANGED interest
  PROVE  interest' \in [Fds -> {"none", "fired", "in", "out"}]
BY DEF Modfd

(* The lowest free descriptor is a free descriptor.                        *)
LEMMA LowestFree ==
  ASSUME Fds \ open # {}
  PROVE  (CHOOSE g \in Fds \ open : \A h \in Fds \ open : g <= h)
           \in Fds \ open
<1>1. Fds \ open \subseteq Nat
  BY ServerAssumption DEF Fds
<1> DEFINE S == Fds \ open
<1>2. \E g \in S : \A h \in S : g <= h
  <2> HIDE DEF S
  <2> QED  BY <1>1, LeastPlace DEF S
<1> QED  BY <1>2

(* Every step keeps the types, the batch and the account of the backlog.   *)
LEMMA TypeNext == TypeInv /\ [Next]_vars => TypeInv'
<1> SUFFICES ASSUME TypeInv, [Next]_vars PROVE TypeInv'
  OBVIOUS
<1> USE ServerAssumption DEF TypeInv, TypeOK, PlaceOK, Goto, NoFd
<1> USE DEF sockets, epoll, slots, threads, history, MainAt, WorkerAt
<1>0. Main \in Threads /\ Workers \subseteq Threads /\ Main \notin Workers
  BY DEF Threads
<1>1. ASSUME NEW t \in Threads, CloseConn(t) PROVE TypeInv'
  <2>1. CASE CloseSkip(t)
    BY SMTT(30), <1>0, <2>1, BatchKept DEF CloseSkip, AfterClose
  <2>2. CASE CloseRemove(t)
    BY <1>0, <2>2, BatchKept DEF CloseRemove, CloseFd
  <2>3. CASE CloseUnset(t)
    BY SMTT(30), <1>0, <2>3, BatchKept DEF CloseUnset, Unset
  <2>4. CASE CountLoad(t, "decload", "decstore")
    BY <1>0, <2>4, BatchKept DEF CountLoad
  <2>5. CASE CloseStore(t)
    BY SMTT(30), <1>0, <2>5, BatchKept DEF CloseStore, CountStore, AfterClose
  <2> QED  BY <1>1, <2>1, <2>2, <2>3, <2>4, <2>5 DEF CloseConn
<1>2. CASE EpollWait
  <2>1. /\ pc[Main] = "wait" /\ batch = {} /\ edge' = FALSE
        /\ pc' = [pc EXCEPT ![Main] = "next"]
        /\ interest' = [f \in Fds |-> IF f \in ReadyFds THEN "fired"
                                                      ELSE interest[f]]
        /\ UNCHANGED <<sockets, backlog, slots, m_user_count, queue, cur, reg,
                       arrived, history>>
    BY <1>2 DEF EpollWait, OneShot, BatchOK
  <2>2. batch' = {[fd |-> f, ev |-> Event(f)] : f \in ReadyFds}
                   \cup (IF ListenReady
                         THEN {[fd |-> Listen, ev |-> "accept"]} ELSE {})
    BY <1>2 DEF EpollWait
  <2>3. ReadyFds \subseteq Fds /\ Listen \notin Fds
        /\ \A f \in Fds : Event(f) \in {"hup", "in", "out"}
    <3>1. ReadyFds \subseteq Fds
      BY DEF ReadyFds
    <3>2. 0 \notin 1..NumFds
      OBVIOUS
    <3>3. \A f \in Fds : Event(f) \in {"hup", "in", "out"}
      BY DEF Event
    <3> QED  BY <3>1, <3>2, <3>3 DEF Listen, Fds
  <2>4. ListenReady <=> edge
    <3>1. ~ \E e \in batch : e.fd = Listen
      BY <2>1
    <3>2. backlog \in Nat /\ missed \in Nat /\ edge \in BOOLEAN
      OBVIOUS
    <3> QED  BY <3>1, <3>2 DEF ListenReady, BacklogInv, BacklogAccounted
  <2>5. (\E e \in batch' : e.fd = Listen) <=> ListenReady
    <3>1. ASSUME NEW f \in ReadyFds
          PROVE  [fd |-> f, ev |-> Event(f)].fd # Listen
      BY <2>3
    <3>2. CASE ListenReady
      <4>1. [fd |-> Listen, ev |-> "accept"] \in batch'
        BY <2>2, <3>2
      <4> QED  BY <3>2, <4>1
    <3>3. CASE ~ListenReady
      BY <2>2, <3>1, <3>3
    <3> QED  BY <3>2, <3>3
  <2>6. ASSUME NEW e \in batch'
        PROVE  \/ e = [fd |-> Listen, ev |-> "accept"]
               \/ \E f \in ReadyFds : e = [fd |-> f, ev |-> Event(f)]
    BY <2>2
  <2>7. BatchOK' /\ batch' \subseteq [fd : Fds \cup {Listen},
                                    ev : {"accept", "hup", "in", "out"}]
    <3>1. ASSUME NEW e \in batch'
          PROVE  /\ e.fd = Listen <=> e.ev = "accept"
                 /\ e \in [fd : Fds \cup {Listen},
                          ev : {"accept", "hup", "in", "out"}]
      <4>1. CASE e = [fd |-> Listen, ev |-> "accept"]
        BY <4>1
      <4>2. ASSUME NEW f \in ReadyFds, e = [fd |-> f, ev |-> Event(f)]
            PROVE  /\ e.fd = Listen <=> e.ev = "accept"
                   /\ e \in [fd : Fds \cup {Listen},
                            ev : {"accept", "hup", "in", "out"}]
        <5>1. f \in Fds /\ f # Listen /\ Event(f) \in {"hup", "in", "out"}
          BY <2>3
        <5> HIDE DEF Event
        <5> QED  BY <4>2, <5>1
      <4> QED  BY <2>6, <4>1, <4>2
    <3>2. ASSUME NEW d \in batch', NEW e \in batch', d.fd = e.fd PROVE d = e
      <4>1. \A f \in ReadyFds : f # Listen
        BY <2>3
      <4> DEFINE Of(f) == [fd |-> f, ev |-> Event(f)]
      <4>2. /\ \A f \in ReadyFds : Of(f).fd = f
            /\ [fd |-> Listen, ev |-> "accept"].fd = Listen
        OBVIOUS
      <4>3. /\ d = [fd |-> Listen, ev |-> "accept"]
                 \/ \E f \in ReadyFds : d = Of(f)
            /\ e = [fd |-> Listen, ev |-> "accept"]
                 \/ \E f \in ReadyFds : e = Of(f)
        BY <2>6
      <4> HIDE DEF Of
      <4> QED  BY <3>2, <4>1, <4>2, <4>3
    <3> QED  BY <1>0, <2>1, <3>1, <3>2 DEF BatchOK
  <2>8. BacklogInv'
    <3>1. backlog' = missed' + (IF edge THEN 1 ELSE 0)
      <4>1. ~ \E e \in batch : e.fd = Listen
        BY <2>1
      <4>2. backlog \in Nat /\ missed \in Nat /\ edge \in BOOLEAN
        OBVIOUS
      <4> QED  BY <2>1, <4>1, <4>2 DEF BacklogInv, BacklogAccounted
    <3> QED  BY <2>1, <2>4, <2>5, <3>1 DEF BacklogInv, BacklogAccounted
  <2> QED  BY <1>0, <2>1, <2>7, <2>8
<1>3. CASE BatchDone
  BY <1>0, <1>3 DEF BatchDone, BatchOK, BacklogInv, BacklogAccounted
<1>4. ASSUME NEW e \in batch, Accept(e) PROVE TypeInv'
  <2>1. PICK f \in Fds \ open :
          /\ open' = open \cup {f}
          /\ reused' = [reused EXCEPT ![f] =
               \/ \E w \in Workers : pc[w] # "idle" /\ cur[w] = f
               \/ \E i \in 1..Len(queue) : queue[i] = f]
          /\ cur' = [cur EXCEPT ![Main] = f]
    BY <1>4, LowestFree DEF Accept
  <2>2. /\ batch' = batch \ {e} /\ e.fd = Listen /\ backlog' = backlog - 1
        /\ pc' = [pc EXCEPT ![Main] = "check"]
        /\ UNCHANGED <<inbox, peer, full, interest, edge, slots, m_user_count,
                       queue, reg, arrived, missed, lost, clash, dropped>>
    BY <1>4 DEF Accept, Take, BatchOK
  <2>3. ~ \E d \in batch' : d.fd = Listen
    BY <2>2 DEF BatchOK
  <2>4. BacklogInv' /\ backlog' \in Nat
    <3>1. backlog = missed + (IF edge THEN 1 ELSE 0) + 1
      BY <2>2 DEF BacklogInv, BacklogAccounted
    <3>2. backlog \in Nat /\ missed \in Nat /\ edge \in BOOLEAN
          /\ arrived \in Nat
      OBVIOUS
    <3> QED  BY <2>2, <2>3, <3>1, <3>2 DEF BacklogInv, BacklogAccounted
  <2>5. BatchOK'
    BY <1>0, <2>2 DEF BatchOK
  <2>6. PlaceOK'
    BY <1>0, <2>1, <2>2
  <2>7. {backlog, missed, arrived}' \subseteq 0..MaxConns
    BY <2>2, <2>4 DEF BacklogInv
  <2>8. TypeOK'
    BY <1>0, <2>1, <2>2, <2>7
  <2> QED  BY <2>4, <2>5, <2>6, <2>8
<1>5. ASSUME NEW e \in batch, AcceptFails(e) PROVE TypeInv'
  <2>1. /\ batch' = batch \ {e} /\ e.fd = Listen /\ missed' = missed + 1
        /\ pc[Main] = "next"
        /\ UNCHANGED <<sockets, backlog, interest, edge, slots, m_user_count,
                       queue, threads, arrived, lost, clash, dropped, reused>>
    BY <1>5 DEF AcceptFails, Take, BatchOK
  <2>2. ~ \E d \in batch' : d.fd = Listen
    BY <2>1 DEF BatchOK
  <2>3. BacklogInv' /\ missed' \in 0..MaxConns
    <3>1. backlog = missed + (IF edge THEN 1 ELSE 0) + 1
      BY <2>1 DEF BacklogInv, BacklogAccounted
    <3>2. backlog \in 0..MaxConns /\ missed \in Nat /\ edge \in BOOLEAN
      OBVIOUS
    <3> QED  BY <2>1, <2>2, <3>1, <3>2 DEF BacklogInv, BacklogAccounted
  <2>4. BatchOK'
    BY <2>1 DEF BatchOK
  <2> QED  BY <2>1, <2>3, <2>4
<1>6. ASSUME NEW e \in batch, Hangup(e) PROVE TypeInv'
  BY <1>0, <1>6, TakeKeeps DEF Hangup, Take
<1>7. ASSUME NEW e \in batch, ReadOk(e) PROVE TypeInv'
  <2>1. BatchOK' /\ BacklogInv' /\ e.fd \in Fds /\ batch' \subseteq batch
    BY <1>0, <1>7, TakeKeeps DEF ReadOk, Take
  <2>2. queue' \in Seq(Fds)
    <3>1. queue \in Seq(Fds) /\ Append(queue, e.fd) \in Seq(Fds)
      BY <2>1
    <3>2. queue' = queue \/ queue' = Append(queue, e.fd)
      BY <1>7 DEF ReadOk
    <3> QED  BY <3>1, <3>2
  <2>3. /\ inbox' = [inbox EXCEPT ![e.fd] = FALSE]
        /\ dropped' = dropped \/ dropped' = [dropped EXCEPT ![e.fd] = TRUE]
        /\ UNCHANGED <<open, peer, full, backlog, interest, edge, slots,
                       m_user_count, threads, arrived, missed, lost, clash,
                       reused>>
    BY <1>7 DEF ReadOk
  <2> QED  BY <2>1, <2>2, <2>3
<1>8. ASSUME NEW e \in batch, ReadFails(e) PROVE TypeInv'
  BY <1>0, <1>8, TakeKeeps DEF ReadFails, Take
<1>9. ASSUME NEW e \in batch, WriteNothing(e) PROVE TypeInv'
  BY SMTT(30), <1>0, <1>9, TakeKeeps DEF WriteNothing, Take, Modfd
<1>10. ASSUME NEW e \in batch, WriteAgain(e) PROVE TypeInv'
  BY <1>0, <1>10, TakeKeeps DEF WriteAgain, Take, Modfd
<1>11. ASSUME NEW e \in batch, WriteEnds(e) PROVE TypeInv'
  <2>1. BatchOK' /\ BacklogInv' /\ e.fd \in Fds /\ batch' \subseteq batch
    BY <1>0, <1>11, TakeKeeps DEF WriteEnds, Take
  <2>2. interest' \in [Fds -> {"none", "fired", "in", "out"}]
    BY <1>11, ModfdTyped DEF WriteEnds
  <2>3. /\ cur' = [cur EXCEPT ![Main] = e.fd]
        /\ pc' = [pc EXCEPT ![Main] = "close"]
        /\ UNCHANGED <<sockets, backlog, edge, slots, m_user_count, queue,
                       reg, arrived, history>>
    BY <1>11 DEF WriteEnds, Goto
  <2>4. pc'[Main] = "close" /\ cur'[Main] \in Fds
    BY SMTT(30), <1>0, <2>1, <2>3
  <2>a. \A t \in Threads \ {Main} : pc'[t] = pc[t] /\ cur'[t] = cur[t]
    BY <2>3
  <2>b. "close" \in MainAt /\ UNCHANGED m_sockfd
    BY <2>3
  <2>5. PlaceOK'
    BY <1>0, <2>4, <2>a, <2>b
  <2>6. TypeOK'
    BY <1>0, <2>1, <2>2, <2>3
  <2> QED  BY <2>1, <2>5, <2>6
<1>12. ASSUME NEW e \in batch, WriteSpins(e) PROVE TypeInv'
  BY SMTT(30), <1>0, <1>12, TakeKeeps DEF WriteSpins, Take
<1>13. CASE Refuse
  BY ZenonT(30), <1>0, <1>13, BatchKept DEF Refuse, Refused, CloseFd
<1>14. CASE InitSockfd
  BY ZenonT(30), <1>0, <1>14, BatchKept DEF InitSockfd
<1>15. CASE InitAddfd
  BY <1>0, <1>15, BatchKept DEF InitAddfd
<1>16. CASE CountLoad(Main, "incload", "incstore")
  BY <1>0, <1>16, BatchKept DEF CountLoad
<1>17. CASE InitRest
  <2>1. /\ pc[Main] = "incstore" /\ pc' = [pc EXCEPT ![Main] = "next"]
        /\ m_user_count' = reg[Main] + 1 /\ reg' = [reg EXCEPT ![Main] = 0]
        /\ lost' \in BOOLEAN
        /\ response' = [response EXCEPT ![cur[Main]] = "none"]
        /\ UNCHANGED <<sockets, backlog, epoll, m_sockfd, iov0, queue, cur,
                       arrived, missed, clash, dropped, reused>>
    BY <1>17 DEF InitRest, CountStore
  <2>2. BatchOK' /\ BacklogInv'
    <3>1. UNCHANGED <<batch, backlog, edge, missed, arrived>>
      BY <2>1
    <3>2. pc'[Main] = "next"
      BY <1>0, <2>1
    <3> QED  BY <3>1, <3>2, BatchKept
  <2>3. m_user_count' \in Int /\ reg' \in [Threads -> Int]
    BY <1>0, <2>1
  <2>4. response' \in [Fds -> {"none", "file", "error"}]
    BY <2>1
  <2>5. PlaceOK'
    BY <1>0, <2>1
  <2> QED  BY <1>0, <2>1, <2>2, <2>3, <2>4, <2>5
<1>19. CASE ClientStep
  <2>1. CASE Connect
    <3>1. BacklogInv' /\ {backlog, missed, arrived}' \subseteq 0..MaxConns
      <4>1. backlog \in Nat /\ missed \in Nat /\ arrived \in Nat
            /\ edge \in BOOLEAN /\ MaxConns \in Nat
        OBVIOUS
      <4>2. /\ backlog' = backlog + 1 /\ arrived' = arrived + 1
            /\ missed' = missed + (IF edge THEN 1 ELSE 0) /\ edge' = TRUE
            /\ arrived < MaxConns /\ batch' = batch
        BY <2>1 DEF Connect, Clients
      <4>3. BacklogAccounted'
        BY <4>1, <4>2 DEF BacklogInv, BacklogAccounted
      <4>4. missed' <= backlog'
        BY <4>1, <4>2, <4>3 DEF BacklogAccounted
      <4>5. backlog <= arrived
        BY DEF BacklogInv
      <4> QED  BY <4>1, <4>2, <4>3, <4>4, <4>5 DEF BacklogInv
    <3>2. edge' = TRUE /\ UNCHANGED <<inbox, peer, full>> /\ Clients
      BY <2>1 DEF Connect
    <3> QED  BY <3>1, <3>2 DEF Clients, BatchOK
  <2>2. ASSUME NEW f \in Fds, PeerSends(f) PROVE TypeInv'
    BY <2>2, BatchKept DEF PeerSends, Clients
  <2>4. ASSUME NEW f \in Fds, PeerReads(f) PROVE TypeInv'
    BY <2>4, BatchKept DEF PeerReads, Clients
  <2>3. ASSUME NEW f \in Fds, PeerLeaves(f) PROVE TypeInv'
    BY <2>3, BatchKept DEF PeerLeaves, Clients
  <2> QED  BY <1>19, <2>1, <2>2, <2>3, <2>4 DEF ClientStep
<1>20. ASSUME NEW w \in Workers, TakeRequest(w) PROVE TypeInv'
  <2>1. queue # <<>> /\ queue' = Tail(queue) /\ queue' \in Seq(Fds)
        /\ Head(queue) \in Fds
    BY <1>20 DEF TakeRequest
  <2>2. BatchOK' /\ BacklogInv'
    BY <1>0, <1>20, BatchKept DEF TakeRequest
  <2> QED  BY <1>0, <1>20, <2>1, <2>2 DEF TakeRequest
<1>21. ASSUME NEW w \in Workers, Process(w) PROVE TypeInv'
  <2>1. /\ pc[w] = "process"
        /\ \E l \in {"modin", "spin", "modout", "close"} :
             pc' = [pc EXCEPT ![w] = l]
        /\ UNCHANGED <<sockets, backlog, epoll, m_sockfd, m_user_count, queue,
                       cur, reg, arrived, history>>
    BY <1>21 DEF Process
  <2>2. BatchOK' /\ BacklogInv'
    <3>1. UNCHANGED <<batch, backlog, edge, missed, arrived>>
      BY <2>1
    <3>2. pc'[Main] = pc[Main]
      BY <1>0, <2>1
    <3> QED  BY <3>1, <3>2, BatchKept
  <2>3. cur[w] \in Fds
    BY <1>0, <2>1
  <2>4. response' \in [Fds -> {"none", "file", "error"}]
    BY ZenonT(30), <1>21, <2>3 DEF Process
  <2>5. iov0' \in [Fds -> BOOLEAN]
    BY ZenonT(30), <1>21, <2>3 DEF Process
  <2>6. PlaceOK'
    BY <1>0, <2>1
  <2> QED  BY <1>0, <2>1, <2>2, <2>4, <2>5, <2>6
<1>22. ASSUME NEW w \in Workers, Rearm(w) PROVE TypeInv'
  <2>1. /\ pc[w] \in {"modin", "modout"} /\ pc' = [pc EXCEPT ![w] = "idle"]
        /\ cur' = [cur EXCEPT ![w] = NoFd]
        /\ UNCHANGED <<sockets, backlog, edge, batch, slots, m_user_count,
                       queue, reg, arrived, history>>
    BY <1>22 DEF Rearm, RearmIn
  <2>2. interest' \in [Fds -> {"none", "fired", "in", "out"}]
    BY ZenonT(30), <1>22 DEF Rearm, RearmIn, Modfd
  <2>3. BatchOK' /\ BacklogInv'
    BY <1>0, <2>1, BatchKept
  <2> QED  BY <1>0, <2>1, <2>2, <2>3
<1>23. CASE UNCHANGED vars
  BY <1>23, BatchKept DEF vars
<1> QED
  BY <1>0, <1>1, <1>2, <1>3, <1>4, <1>5, <1>6, <1>7, <1>8, <1>9, <1>10,
     <1>11, <1>12, <1>13, <1>14, <1>15, <1>16, <1>17, <1>19, <1>20, <1>21,
      <1>22, <1>23
  DEF Next, MainStep, HandleEvent, WorkerStep
-----------------------------------------------------------------------------
(* Who has the connection of descriptor f.                                 *)
(* epoll reported it and main has yet to look at the event; it is in the   *)
(* hands of main, at this place; a thread is about to unset its slot, or   *)
(* has not finished closing it.                                            *)
Reported(f) == \E e \in batch : e.fd = f
Hand(f) ==
  IF cur[Main] = f /\ pc[Main] \in {"check", "add", "close", "spin"}
  THEN pc[Main] ELSE "away"
Unsetting(f) == \E t \in Threads : pc[t] = "unset" /\ cur[t] = f
Leaving(f) ==
  \E t \in Threads : pc[t] \in {"unset", "decload", "decstore"} /\ cur[t] = f

(* The workers' side: the places of the queue it takes, the workers that   *)
(* have it; none of these or just one.                                     *)
Queued(f)  == {i \in 1..Len(queue) : queue[i] = f}
Holding(f) == {w \in Workers : pc[w] # "idle" /\ cur[w] = f}
Nobody(f)  == Queued(f) = {} /\ Holding(f) = {}
Single(f)  ==
  \/ Holding(f) = {} /\ \E i \in 1..Len(queue) : Queued(f) = {i}
  \/ Queued(f) = {} /\ \E w \in Workers : Holding(f) = {w}

(* Main has it or will: armed in epoll (also when write() rearmed it       *)
(* before it failed), reported, in its hands, or new and not armed yet.    *)
OfMain(f) ==
  /\ Nobody(f) /\ ~dropped[f]
  /\ \/ /\ interest[f] \in {"in", "out"}
        /\ ~Reported(f) /\ Hand(f) \in {"away", "close"}
     \/ interest[f] = "fired" /\ Reported(f) /\ Hand(f) = "away"
     \/ interest[f] = "fired" /\ ~Reported(f) /\ Hand(f) \in {"close", "spin"}
     \/ interest[f] = "none" /\ ~Reported(f) /\ Hand(f) \in {"check", "add"}

(* Main does not: it waits for one worker to rearm it, or append refused   *)
(* it and nobody ever will.                                                *)
OfWorkers(f) ==
  /\ interest[f] = "fired" /\ ~Reported(f) /\ Hand(f) = "away"
  /\ \/ Single(f) /\ ~dropped[f]
     \/ Nobody(f) /\ dropped[f]

(* An open socket is its slot's and has one owner ...                      *)
Owned(f) ==
  /\ m_sockfd[f] = f \/ Hand(f) = "check"
  /\ ~Leaving(f)
  /\ OfMain(f) \/ OfWorkers(f)

(* ... and nothing refers to a descriptor that is free.                    *)
Free(f) ==
  /\ interest[f] = "none" /\ ~dropped[f] /\ ~reused[f]
  /\ ~Reported(f) /\ Hand(f) = "away"
  /\ m_sockfd[f] = NoFd \/ Unsetting(f)

(* Where a descriptor was given out too early only what accept itself does *)
(* is known; the next close_conn for it sets clash.                        *)
SocketInv(f) ==
  IF f \in open
  THEN /\ reused[f] \/ Owned(f)
       /\ Hand(f) = "check" =>
            ~Reported(f) /\ (m_sockfd[f] = NoFd \/ Unsetting(f))
  ELSE Free(f)

(* The inductive invariant behind OneOwner and SlotMatchesSocket.  Neither *)
(* is inductive: they do not say that an armed socket is not in a batch,   *)
(* that a reported one is disarmed, or that a free descriptor is known     *)
(* nowhere, which is what keeps the next accept from creating a second     *)
(* owner.                                                                  *)
OwnerInv == ~clash => \A f \in Fds : SocketInv(f)

(* What a step leaves alone of a socket, of its slot ...                   *)
SameSocket(f) ==
  /\ f \in open' <=> f \in open
  /\ interest'[f] = interest[f] /\ m_sockfd'[f] = m_sockfd[f]
  /\ dropped'[f] = dropped[f] /\ reused'[f] = reused[f]

(* ... and of the threads that have to do with it.                         *)
SameThreads(f) ==
  /\ Hand(f)' = Hand(f)
  /\ Unsetting(f)' <=> Unsetting(f)
  /\ Leaving(f)' <=> Leaving(f)

SameHolders(f) ==
  /\ Nobody(f) => Nobody(f)'
  /\ Single(f) => Single(f)'

(* A step that changes nothing about a descriptor keeps its invariant.     *)
LEMMA Frame ==
  ASSUME NEW f \in Fds, SocketInv(f), SameSocket(f), SameThreads(f),
         SameHolders(f), Reported(f)' <=> Reported(f)
  PROVE  SocketInv(f)'
<1> USE DEF SameSocket, SameThreads, SameHolders
<1>1. OfMain(f) => OfMain(f)'
  BY DEF OfMain
<1>2. OfWorkers(f) => OfWorkers(f)'
  BY DEF OfWorkers
<1>3. Owned(f) => Owned(f)'
  BY <1>1, <1>2 DEF Owned
<1> QED  BY <1>3 DEF SocketInv, Free

(* What a thread changes of these by moving from one place to another.     *)
LEMMA ThreadMoves ==
  ASSUME TypeOK, NEW t \in Threads, NEW l, NEW f \in Fds,
         pc' = [pc EXCEPT ![t] = l], UNCHANGED cur
  PROVE  /\ cur[t] # f => SameThreads(f) /\ Holding(f)' = Holding(f)
         /\ pc[t] # "idle" /\ l # "idle" => Holding(f)' = Holding(f)
         /\ t # Main => Hand(f)' = Hand(f)
         /\ t = Main /\ cur[t] = f =>
              /\ pc[t] \in {"check", "add", "close", "spin"} =>
                   Hand(f) = pc[t]
              /\ pc[t] \notin {"check", "add", "close", "spin"} =>
                   Hand(f) = "away"
              /\ l \in {"check", "add", "close", "spin"} => Hand(f)' = l
              /\ l \notin {"check", "add", "close", "spin"} =>
                   Hand(f)' = "away"
         /\ (pc[t] = "unset" <=> l = "unset") =>
              (Unsetting(f)' <=> Unsetting(f))
         /\ cur[t] = f /\ pc[t] \in {"unset", "decload", "decstore"} =>
              Leaving(f)
         /\ (/\ pc[t] \notin {"unset", "decload", "decstore"}
             /\ l \notin {"unset", "decload", "decstore"}) =>
              (Leaving(f)' <=> Leaving(f))
<1>1. /\ \A u \in Threads : u # t => pc'[u] = pc[u]
      /\ pc'[t] = l
  BY DEF TypeOK
<1>2. cur[t] # f => /\ Hand(f)' = Hand(f) /\ Holding(f)' = Holding(f)
                    /\ Unsetting(f)' <=> Unsetting(f)
                    /\ Leaving(f)' <=> Leaving(f)
  BY <1>1 DEF Hand, Unsetting, Leaving, Holding, Threads
<1>3. pc[t] # "idle" /\ l # "idle" => Holding(f)' = Holding(f)
  BY <1>1 DEF Holding, Threads
<1>4. t # Main => Hand(f)' = Hand(f)
  BY <1>1 DEF Hand, Threads
<1>5. t = Main /\ cur[t] = f =>
        /\ pc[t] \in {"check", "add", "close", "spin"} => Hand(f) = pc[t]
        /\ pc[t] \notin {"check", "add", "close", "spin"} => Hand(f) = "away"
        /\ l \in {"check", "add", "close", "spin"} => Hand(f)' = l
        /\ l \notin {"check", "add", "close", "spin"} => Hand(f)' = "away"
  BY <1>1 DEF Hand
<1>6. (pc[t] = "unset" <=> l = "unset") => (Unsetting(f)' <=> Unsetting(f))
  BY <1>1 DEF Unsetting
<1>7. cur[t] = f /\ pc[t] \in {"unset", "decload", "decstore"} => Leaving(f)
  BY DEF Leaving
<1>8. (/\ pc[t] \notin {"unset", "decload", "decstore"}
       /\ l \notin {"unset", "decload", "decstore"}) =>
        (Leaving(f)' <=> Leaving(f))
  BY <1>1 DEF Leaving
<1> QED
  BY <1>2, <1>3, <1>4, <1>5, <1>6, <1>7, <1>8 DEF SameThreads

(* The workers' side is the queue and the workers that have the slot.      *)
LEMMA HoldersKept ==
  ASSUME NEW f, Holding(f)' = Holding(f), UNCHANGED queue
  PROVE  SameHolders(f)
BY DEF SameHolders, Nobody, Single, Queued

(* clash is a history variable: it is never reset.                         *)
LEMMA ClashStays == clash /\ [Next]_vars => clash'
<1> SUFFICES ASSUME clash, [Next]_vars PROVE clash'
  OBVIOUS
<1> USE DEF sockets, epoll, slots, threads, history
<1>1. ASSUME NEW t \in Threads, CloseConn(t) PROVE clash'
  BY <1>1 DEF CloseConn, CloseSkip, CloseRemove, CloseUnset, CountLoad,
              CloseStore, CountStore
<1>2. CASE ClientStep
  BY <1>2 DEF ClientStep, Connect, PeerSends, PeerLeaves, PeerReads, Clients
<1>3. ASSUME NEW e \in batch, HandleEvent(e) PROVE clash'
  BY <1>3 DEF HandleEvent, Accept, AcceptFails, Hangup, ReadOk, ReadFails,
              WriteNothing, WriteAgain, WriteEnds, WriteSpins
<1>4. CASE EpollWait \/ BatchDone \/ Refuse \/ InitSockfd \/ InitAddfd
             \/ CountLoad(Main, "incload", "incstore") \/ InitRest
  BY <1>4 DEF EpollWait, BatchDone, Refuse, InitSockfd, InitAddfd, CountLoad,
              InitRest, CountStore
<1>5. ASSUME NEW w \in Workers, TakeRequest(w) \/ Process(w) \/ Rearm(w)
      PROVE  clash'
  BY <1>5 DEF TakeRequest, Process, Rearm
<1>6. CASE UNCHANGED vars
  BY <1>6 DEF vars
<1>7. Main \in Threads /\ Workers \subseteq Threads
  BY DEF Threads
<1> QED
  BY <1>1, <1>2, <1>3, <1>4, <1>5, <1>6, <1>7
  DEF Next, MainStep, WorkerStep

(* close_conn, by whichever thread.                                        *)
LEMMA OwnerClose ==
  ASSUME TypeInv, NEW t \in Threads, CloseConn(t), ~clash',
         NEW f \in Fds, SocketInv(f)
  PROVE  SocketInv(f)'
<1> DEFINE g == cur[t]
<1> USE DEF sockets, epoll, slots, threads, history
<1>0. /\ TypeOK /\ PlaceOK /\ Main \in Threads /\ Workers \subseteq Threads
      /\ Main \notin Workers /\ NoFd \notin Fds
  BY ServerAssumption DEF TypeInv, Threads, NoFd, Fds
<1>1. ASSUME NEW l, pc' = [pc EXCEPT ![t] = l], UNCHANGED <<cur, queue, batch>>
      PROVE  /\ Reported(f)' <=> Reported(f)
             /\ f # g => SameThreads(f) /\ SameHolders(f)
             /\ pc[t] # "idle" /\ l # "idle" => SameHolders(f)
  BY <1>0, <1>1, ThreadMoves, HoldersKept DEF Reported
<1>2. CASE CloseSkip(t)
  <2>1. PICK l \in {"next", "modout"} :
          pc' = [pc EXCEPT ![t] = l] /\ (t = Main <=> l = "next")
    BY <1>2 DEF CloseSkip, AfterClose, Goto
  <2>2. /\ pc[t] = "close" /\ m_sockfd[g] = NoFd /\ g \in Fds
        /\ UNCHANGED <<open, interest, batch, m_sockfd, queue, cur, dropped,
                       reused>>
    BY <1>0, <1>2 DEF CloseSkip, PlaceOK
  <2>3. SameSocket(f) /\ SameHolders(f) /\ (Reported(f)' <=> Reported(f))
    BY <1>1, <2>1, <2>2 DEF SameSocket
  <2>4. CASE t # Main \/ f # g
    <3>1. SameThreads(f)
      BY <1>0, <2>1, <2>2, <2>4, ThreadMoves DEF SameThreads
    <3> QED  BY <2>3, <3>1, Frame
  <2>5. CASE t = Main /\ f = g
    <3>1. Hand(f) = "close" /\ Hand(f)' = "away" /\ m_sockfd[f] = NoFd
      BY <1>0, <2>1, <2>2, <2>5, ThreadMoves
    <3>2. f \in open /\ reused[f]
      BY <1>0, <2>2, <3>1 DEF SocketInv, Free, Owned
    <3> QED  BY <2>3, <3>1, <3>2 DEF SocketInv, SameSocket
  <2> QED  BY <2>4, <2>5
<1>3. CASE CloseRemove(t)
  <2>1. /\ pc[t] = "close" /\ pc' = [pc EXCEPT ![t] = "unset"] /\ g \in Fds
        /\ m_sockfd[g] = g /\ g \in open /\ ~reused[g]
        /\ UNCHANGED <<batch, m_sockfd, queue, cur>>
    BY <1>0, <1>3 DEF CloseRemove, PlaceOK, Goto
  <2>2. /\ open' = open \ {g}
        /\ interest' = [interest EXCEPT ![g] = "none"]
        /\ dropped' = [dropped EXCEPT ![g] = FALSE]
        /\ reused' = [reused EXCEPT ![g] = FALSE]
    BY <1>3, <2>1 DEF CloseRemove, CloseFd
  <2>3. CASE f # g
    <3>1. SameSocket(f)
      BY <1>0, <2>1, <2>2, <2>3 DEF SameSocket, TypeOK
    <3> QED  BY <1>1, <2>1, <2>3, <3>1, Frame
  <2>4. CASE f = g
    <3>1. Owned(f) /\ (t = Main => Hand(f) = "close")
          /\ (t # Main => Hand(f)' = Hand(f))
          /\ (t = Main => Hand(f)' = "away")
      BY ZenonT(30), <1>0, <2>1, <2>4, ThreadMoves DEF SocketInv
    <3>2. t # Main => t \in Holding(f)
      BY <2>1, <2>4 DEF Holding, Threads
    <3>3. ~Reported(f) /\ Hand(f)' = "away"
      BY <3>1, <3>2 DEF Owned, OfMain, OfWorkers, Nobody
    <3>4. Unsetting(f)'
      BY <1>0, <2>1, <2>4 DEF Unsetting, TypeOK
    <3>5. ~Reported(f)'
      BY <1>1, <2>1, <3>3
    <3> QED
      BY <1>0, <2>2, <2>4, <3>3, <3>4, <3>5 DEF SocketInv, Free, TypeOK
  <2> QED  BY <2>3, <2>4
<1>4. CASE CloseUnset(t)
  <2>1. /\ pc[t] = "unset" /\ pc' = [pc EXCEPT ![t] = "decload"] /\ g \in Fds
        /\ m_sockfd' = [m_sockfd EXCEPT ![g] = NoFd]
        /\ UNCHANGED <<open, interest, batch, queue, cur, dropped, reused>>
    BY <1>0, <1>4 DEF CloseUnset, Unset, PlaceOK, Goto
  <2>2. CASE f # g
    <3>1. SameSocket(f)
      BY <1>0, <2>1, <2>2 DEF SameSocket, TypeOK
    <3> QED  BY <1>1, <2>1, <2>2, <3>1, Frame
  <2>3. CASE f = g
    <3>1. Leaving(f) /\ Hand(f)' = Hand(f) /\ m_sockfd'[f] = NoFd
      BY ZenonT(30), <1>0, <2>1, <2>3, ThreadMoves DEF TypeOK
    <3>2. Reported(f)' <=> Reported(f)
      BY <1>1, <2>1
    <3> QED  BY <2>1, <3>1, <3>2 DEF SocketInv, Free, Owned
  <2> QED  BY <2>2, <2>3
<1>5. ASSUME pc[t] \in {"decload", "decstore"},
             NEW l \in {"decstore", "next", "modout"},
             pc' = [pc EXCEPT ![t] = l],
             UNCHANGED <<open, interest, batch, m_sockfd, queue, cur, dropped,
                         reused>>
      PROVE  SocketInv(f)'
  <2>1. SameSocket(f) /\ SameHolders(f) /\ (Reported(f)' <=> Reported(f))
    BY <1>1, <1>5 DEF SameSocket
  <2>2. CASE f # g
    BY <1>1, <1>5, <2>1, <2>2, Frame
  <2>3. CASE f = g
    <3>1. /\ Leaving(f) /\ Hand(f)' = Hand(f)
          /\ Unsetting(f)' <=> Unsetting(f)
      BY ZenonT(30), <1>0, <1>5, <2>3, ThreadMoves
    <3> QED  BY <2>1, <3>1 DEF SocketInv, Free, Owned, SameSocket
  <2> QED  BY <2>2, <2>3
<1>6. CASE CountLoad(t, "decload", "decstore")
  BY <1>5, <1>6 DEF CountLoad, Goto
<1>7. CASE CloseStore(t)
  BY <1>5, <1>7 DEF CloseStore, CountStore, AfterClose, Goto
<1> QED  BY <1>2, <1>3, <1>4, <1>6, <1>7 DEF CloseConn

(* Main takes an event of socket g out of the batch and, when it goes on   *)
(* to a place l, has the slot in its hands.                                *)
LEMMA OwnerEvent ==
  ASSUME TypeInv, TypeOK', NEW f \in Fds, SocketInv(f), NEW e \in batch,
         NEW ev, Take(e, ev), ev # "accept",
         UNCHANGED <<open, m_sockfd, reused>>,
         NEW l \in {"next", "close", "spin"},
         pc' = [pc EXCEPT ![Main] = l],
         cur' = IF l = "next" THEN cur ELSE [cur EXCEPT ![Main] = e.fd],
         f # e.fd => SameHolders(f) /\ SameSocket(f),
         f = e.fd /\ Owned(f) => OfMain(f)' \/ OfWorkers(f)'
  PROVE  SocketInv(f)'
<1>0. /\ TypeOK /\ PlaceOK /\ BatchOK /\ Main \in Threads
      /\ pc[Main] = "next" /\ batch' = batch \ {e} /\ e.fd \in Fds
  BY DEF TypeInv, Threads, Take, BatchOK, TypeOK
<1>1. /\ Hand(f) = "away" /\ Hand(f)' # "check"
      /\ f # e.fd => Hand(f)' = "away"
  BY <1>0 DEF Hand, TypeOK
<1>2. \A t \in Threads : t # Main => pc'[t] = pc[t] /\ cur'[t] = cur[t]
  BY <1>0 DEF TypeOK
<1>3. pc'[Main] = l
  BY <1>0 DEF TypeOK
<1>4. (Unsetting(f)' <=> Unsetting(f)) /\ (Leaving(f)' <=> Leaving(f))
  BY <1>0, <1>2, <1>3 DEF Unsetting, Leaving
<1>5. CASE f # e.fd
  <2>1. Reported(f)' <=> Reported(f)
    BY <1>0, <1>5 DEF Reported
  <2> QED  BY <1>1, <1>4, <1>5, <2>1, Frame DEF SameThreads
<1>6. CASE f = e.fd
  <2>1. Reported(f)
    BY <1>6 DEF Reported
  <2>2. f \in open /\ (reused[f] \/ Owned(f))
    BY <2>1 DEF SocketInv, Free
  <2>3. Owned(f) => Owned(f)'
    BY <1>1, <1>4, <1>6, <2>1 DEF Owned, OfWorkers
  <2> QED  BY <1>1, <2>2, <2>3 DEF SocketInv
<1> QED  BY <1>5, <1>6

(* Neither -1 nor listenfd is the descriptor of a client.                  *)
LEMMA NoFdOutside == NoFd \notin Fds /\ Listen \notin Fds
BY ServerAssumption DEF NoFd, Listen, Fds

(* The events of a connection.                                             *)
LEMMA OwnerHandle ==
  ASSUME TypeInv, TypeOK', NEW f \in Fds, SocketInv(f), NEW e \in batch,
         \/ Hangup(e) \/ ReadOk(e) \/ ReadFails(e) \/ WriteNothing(e)
         \/ WriteAgain(e) \/ WriteEnds(e) \/ WriteSpins(e)
  PROVE  SocketInv(f)'
<1> USE DEF sockets, epoll, slots, threads, history
<1>0. /\ TypeOK /\ PlaceOK /\ BatchOK
      /\ Main \in Threads /\ Main \notin Workers
  BY ServerAssumption DEF TypeInv, Threads, TypeOK
<1>1. PICK ev \in {"hup", "in", "out"} : Take(e, ev)
  BY DEF Hangup, ReadOk, ReadFails, WriteNothing, WriteAgain, WriteEnds,
         WriteSpins
<1>2. /\ pc[Main] = "next" /\ batch' = batch \ {e} /\ e.fd \in Fds
  BY <1>0, <1>1 DEF Take, BatchOK, TypeOK
<1>3. ~Reported(e.fd)'
  BY <1>0, <1>2 DEF Reported, BatchOK
<1> DEFINE g == e.fd
<1>4. Owned(g) => /\ interest[g] = "fired" /\ m_sockfd[g] = g
                  /\ Nobody(g) /\ ~dropped[g]
  BY <1>2 DEF Owned, OfMain, OfWorkers, Reported, Hand
<1>5. UNCHANGED <<open, m_sockfd, reused>>
  BY DEF Hangup, ReadOk, ReadFails, WriteNothing, WriteAgain, WriteEnds,
         WriteSpins
<1>6. PICK l \in {"next", "close", "spin"} :
        /\ pc' = [pc EXCEPT ![Main] = l]
        /\ cur' = IF l = "next" THEN cur ELSE [cur EXCEPT ![Main] = g]
        /\ l = "next" <=> ReadOk(e) \/ WriteNothing(e) \/ WriteAgain(e)
  <2>1. CASE Hangup(e) \/ ReadFails(e) \/ WriteEnds(e)
    <3>1. /\ pc' = [pc EXCEPT ![Main] = "close"]
          /\ cur' = [cur EXCEPT ![Main] = g]
      BY <2>1 DEF Hangup, ReadFails, WriteEnds, Goto
    <3>2. ~ (ReadOk(e) \/ WriteNothing(e) \/ WriteAgain(e))
      BY <1>0, <1>2, <3>1 DEF ReadOk, WriteNothing, WriteAgain, TypeOK
    <3> QED  BY <3>1, <3>2
  <2>2. CASE WriteSpins(e)
    <3>1. /\ pc' = [pc EXCEPT ![Main] = "spin"]
          /\ cur' = [cur EXCEPT ![Main] = g]
      BY <2>2 DEF WriteSpins, Goto
    <3>2. ~ (ReadOk(e) \/ WriteNothing(e) \/ WriteAgain(e))
      BY <1>0, <1>2, <3>1 DEF ReadOk, WriteNothing, WriteAgain, TypeOK
    <3> QED  BY <3>1, <3>2
  <2>3. CASE ReadOk(e) \/ WriteNothing(e) \/ WriteAgain(e)
    <3>1. UNCHANGED <<pc, cur>>
      BY <2>3 DEF ReadOk, WriteNothing, WriteAgain
    <3>2. pc' = [pc EXCEPT ![Main] = "next"]
      BY <1>0, <1>2, <3>1 DEF TypeOK
    <3> QED  BY <2>3, <3>1, <3>2
  <2> QED  BY <2>1, <2>2, <2>3
<1>7. Holding(f)' = Holding(f)
  BY <1>0, <1>6 DEF Holding, TypeOK, Threads
<1>8. Hand(g)' = IF l = "next" THEN "away" ELSE l
  BY <1>0, <1>2, <1>6 DEF Hand, TypeOK
<1>9. ASSUME UNCHANGED <<queue, dropped>>,
             \/ UNCHANGED interest /\ l # "next"
             \/ /\ Modfd(m_sockfd[g], "in") \/ Modfd(m_sockfd[g], "out")
                /\ l # "spin"
      PROVE  SocketInv(f)'
  <2>1. SameHolders(f)
    BY <1>7, <1>9, HoldersKept
  <2>2. f # g => SameSocket(f)
    BY <1>0, <1>2, <1>5, <1>9 DEF SameSocket, Modfd, PlaceOK, TypeOK
  <2>3. ASSUME f = g, Owned(f) PROVE OfMain(f)'
    <3>1. \/ interest'[g] = "fired" /\ l # "next"
          \/ interest'[g] \in {"in", "out"} /\ l # "spin"
      BY <1>0, <1>2, <1>4, <1>9, <2>3, NoFdOutside DEF Modfd, TypeOK
    <3>2. Nobody(g)' /\ ~dropped'[g]
      BY <1>4, <1>9, <2>1, <2>3 DEF SameHolders
    <3> QED  BY <1>3, <1>8, <2>3, <3>1, <3>2 DEF OfMain
  <2> QED  BY <1>1, <1>5, <1>6, <2>1, <2>2, <2>3, OwnerEvent
<1>10. CASE Hangup(e) \/ ReadFails(e) \/ WriteSpins(e)
  <2>1. UNCHANGED <<queue, dropped, interest>>
    BY <1>10 DEF Hangup, ReadFails, WriteSpins
  <2>2. pc'[Main] # "next"
    BY <1>0, <1>10 DEF Hangup, ReadFails, WriteSpins, Goto, TypeOK
  <2> QED  BY <1>0, <1>6, <1>9, <2>1, <2>2 DEF TypeOK
<1>11. CASE WriteNothing(e) \/ WriteAgain(e)
  <2>1. UNCHANGED <<queue, dropped, pc>>
        /\ (Modfd(m_sockfd[g], "in") \/ Modfd(m_sockfd[g], "out"))
    BY <1>11 DEF WriteNothing, WriteAgain
  <2> QED  BY <1>6, <1>9, <1>11, <2>1
<1>12. CASE WriteEnds(e)
  <2>1. UNCHANGED <<queue, dropped>> /\ pc' = [pc EXCEPT ![Main] = "close"]
        /\ (UNCHANGED interest \/ Modfd(m_sockfd[g], "in"))
    BY <1>12 DEF WriteEnds, Goto
  <2>2. l = "close"
    BY <1>0, <1>6, <2>1 DEF TypeOK
  <2> QED  BY <1>9, <2>1, <2>2
<1>13. CASE ReadOk(e)
  <2>1. UNCHANGED <<interest, pc, cur>> /\ l = "next"
    BY <1>6, <1>13 DEF ReadOk
  <2>2. CASE UNCHANGED queue /\ dropped' = [dropped EXCEPT ![g] = TRUE]
    <3>1. SameHolders(f)
      BY <1>7, <2>2, HoldersKept
    <3>2. f # g => SameSocket(f)
      BY <1>0, <1>5, <2>1, <2>2 DEF SameSocket, TypeOK
    <3>3. ASSUME f = g, Owned(f) PROVE OfWorkers(f)'
      <4>1. interest'[g] = "fired" /\ Nobody(g)' /\ dropped'[g]
        BY <1>0, <1>2, <1>4, <2>1, <2>2, <3>1, <3>3 DEF SameHolders, TypeOK
      <4> QED  BY <1>3, <1>8, <2>1, <3>3, <4>1 DEF OfWorkers
    <3> QED  BY <1>1, <1>5, <1>6, <3>1, <3>2, <3>3, OwnerEvent
  <2>3. CASE queue' = Append(queue, g) /\ UNCHANGED dropped
    <3>1. /\ Len(queue) \in Nat /\ Len(queue') = Len(queue) + 1
          /\ \A i \in 1..Len(queue) : queue'[i] = queue[i]
          /\ queue'[Len(queue) + 1] = g
      BY <1>0, <1>2, <2>3 DEF TypeOK
    <3>2. f # g => Queued(f)' = Queued(f)
      BY <3>1 DEF Queued
    <3>3. f # g => SameHolders(f)
      BY <1>7, <3>1, <3>2 DEF SameHolders, Nobody, Single
    <3>4. f # g => SameSocket(f)
      BY <1>5, <2>1, <2>3 DEF SameSocket
    <3>5. ASSUME f = g, Owned(f) PROVE OfWorkers(f)'
      <4>1. Queued(g) = {} /\ Holding(g)' = {}
        BY <1>4, <1>7, <3>5 DEF Nobody
      <4>2. Queued(g)' = {Len(queue) + 1}
        BY <3>1, <4>1 DEF Queued
      <4>3. Single(g)'
        BY <3>1, <4>1, <4>2 DEF Single
      <4>4. interest'[g] = "fired" /\ ~dropped'[g]
        BY <1>4, <2>1, <2>3, <3>5
      <4> QED  BY <1>3, <1>8, <2>1, <3>5, <4>3, <4>4 DEF OfWorkers
    <3> QED  BY <1>1, <1>5, <1>6, <3>3, <3>4, <3>5, OwnerEvent
  <2> QED  BY <1>13, <2>2, <2>3 DEF ReadOk
<1> QED  BY <1>10, <1>11, <1>12, <1>13

(* accept: the lowest free descriptor, which a worker may still have.      *)
LEMMA OwnerAccept ==
  ASSUME TypeInv, NEW f \in Fds, SocketInv(f), NEW e \in batch, Accept(e)
  PROVE  SocketInv(f)'
<1> USE DEF slots
<1>0. /\ TypeOK /\ PlaceOK /\ BatchOK
      /\ Main \in Threads /\ Main \notin Workers
  BY ServerAssumption DEF TypeInv, Threads
<1>1. PICK g \in Fds \ open :
        /\ open' = open \cup {g}
        /\ reused' = [reused EXCEPT ![g] =
             \/ \E w \in Workers : pc[w] # "idle" /\ cur[w] = g
             \/ \E i \in 1..Len(queue) : queue[i] = g]
        /\ cur' = [cur EXCEPT ![Main] = g]
  BY LowestFree DEF Accept
<1>2. /\ pc[Main] = "next" /\ pc' = [pc EXCEPT ![Main] = "check"]
      /\ e.fd = Listen /\ batch' = batch \ {e}
      /\ UNCHANGED <<interest, m_sockfd, queue, dropped>>
  BY <1>0 DEF Accept, Take, Goto, BatchOK
<1>3. /\ \A t \in Threads : t # Main => pc'[t] = pc[t] /\ cur'[t] = cur[t]
      /\ pc'[Main] = "check" /\ cur'[Main] = g
  BY <1>0, <1>1, <1>2 DEF TypeOK
<1>4. Reported(f)' <=> Reported(f)
  BY <1>2, NoFdOutside DEF Reported
<1>5. (Unsetting(f)' <=> Unsetting(f)) /\ (Leaving(f)' <=> Leaving(f))
  BY <1>0, <1>2, <1>3 DEF Unsetting, Leaving
<1>6. Holding(f)' = Holding(f)
  BY <1>0, <1>3 DEF Holding, Threads
<1>7. SameHolders(f)
  BY <1>2, <1>6, HoldersKept
<1>8. CASE f # g
  <2>1. SameSocket(f)
    BY <1>0, <1>1, <1>2, <1>8 DEF SameSocket, TypeOK
  <2>2. Hand(f)' = Hand(f)
    BY <1>2, <1>3, <1>8 DEF Hand
  <2> QED  BY <1>4, <1>5, <1>7, <2>1, <2>2, Frame DEF SameThreads
<1>9. CASE f = g
  <2>1. f \in open' /\ Hand(f)' = "check" /\ Free(f)
    BY <1>1, <1>3, <1>9 DEF Hand, SocketInv
  <2>2. reused'[f] <=> ~Nobody(f)
    BY <1>0, <1>1, <1>9 DEF Nobody, Queued, Holding, TypeOK
  <2>3. Nobody(f) => ~Leaving(f)'
    <3>1. ASSUME NEW t \in Threads, cur[t] = f, t # Main,
                 pc[t] \in {"unset", "decload", "decstore"}
          PROVE  t \in Holding(f)
      BY <3>1 DEF Holding, Threads
    <3> QED  BY <1>3, <3>1 DEF Nobody, Leaving
  <2>4. Nobody(f) => OfMain(f)'
    BY <1>2, <1>4, <1>7, <2>1 DEF OfMain, Free, SameHolders
  <2>5. ~Reported(f)' /\ (m_sockfd'[f] = NoFd \/ Unsetting(f)')
    BY <1>2, <1>4, <1>5, <2>1 DEF Free
  <2> QED  BY <2>1, <2>2, <2>3, <2>4, <2>5 DEF SocketInv, Owned
<1> QED  BY <1>8, <1>9

(* Main's other steps: epoll_wait, a failed accept, show_error and init.   *)
LEMMA OwnerMain ==
  ASSUME TypeInv, NEW f \in Fds, SocketInv(f),
         \/ EpollWait \/ BatchDone \/ (\E e \in batch : AcceptFails(e))
         \/ Refuse \/ InitSockfd \/ InitAddfd
         \/ CountLoad(Main, "incload", "incstore") \/ InitRest
  PROVE  SocketInv(f)'
<1> DEFINE g == cur[Main]
<1> USE DEF sockets, epoll, slots, threads, history, Goto
<1>0. /\ TypeOK /\ PlaceOK /\ BatchOK
      /\ Main \in Threads /\ Main \notin Workers
  BY ServerAssumption DEF TypeInv, Threads
<1>1. ASSUME NEW l \in {"next", "add", "incload", "incstore", "close"},
             pc' = [pc EXCEPT ![Main] = l], UNCHANGED <<cur, queue>>,
             pc[Main] \in {"wait", "check", "add", "incload", "incstore"}
      PROVE  /\ f # g => SameThreads(f)
             /\ SameHolders(f)
             /\ Unsetting(f)' <=> Unsetting(f)
             /\ Leaving(f)' <=> Leaving(f)
             /\ f = g /\ pc[Main] \in {"check", "add"} =>
                  Hand(f) = pc[Main]
             /\ f = g /\ l \in {"next", "incload"} => Hand(f)' = "away"
             /\ f = g /\ l \in {"add", "close"} => Hand(f)' = l
  <2>1. Holding(f)' = Holding(f)
    BY <1>0, <1>1, ThreadMoves
  <2>2. f # g => SameThreads(f)
    BY <1>0, <1>1, ThreadMoves
  <2>3. /\ Unsetting(f)' <=> Unsetting(f)
        /\ Leaving(f)' <=> Leaving(f)
    BY <1>0, <1>1, ThreadMoves
  <2>4. pc'[Main] = l
    BY <1>0, <1>1 DEF TypeOK
  <2> QED  BY <1>1, <2>1, <2>2, <2>3, <2>4, HoldersKept DEF Hand
<1>2. CASE EpollWait
  <2>1. /\ pc[Main] = "wait" /\ batch = {}
        /\ pc' = [pc EXCEPT ![Main] = "next"]
        /\ UNCHANGED <<open, m_sockfd, queue, cur, dropped, reused>>
    BY <1>0, <1>2 DEF EpollWait, BatchOK
  <2>2. SameHolders(f) /\ (Unsetting(f)' <=> Unsetting(f))
        /\ (Leaving(f)' <=> Leaving(f))
    BY <1>1, <2>1
  <2>3. Hand(f) = "away" /\ Hand(f)' = "away" /\ ~Reported(f)
    BY <1>0, <2>1 DEF Hand, Reported, TypeOK
  <2>4. Reported(f)' <=> f \in ReadyFds
    <3>1. /\ \A d \in batch' : \/ d.fd = Listen
                               \/ \E h \in ReadyFds : d.fd = h
          /\ \A h \in ReadyFds : \E d \in batch' : d.fd = h
      <4>1. batch' = {[fd |-> h, ev |-> Event(h)] : h \in ReadyFds}
                       \cup (IF ListenReady
                             THEN {[fd |-> Listen, ev |-> "accept"]} ELSE {})
        BY <1>2 DEF EpollWait
      <4>2. \A d \in batch' : \/ d = [fd |-> Listen, ev |-> "accept"]
                              \/ \E h \in ReadyFds :
                                   d = [fd |-> h, ev |-> Event(h)]
        BY <4>1
      <4>3. ASSUME NEW h \in ReadyFds PROVE \E d \in batch' : d.fd = h
        <5>1. [fd |-> h, ev |-> Event(h)] \in batch'
          BY <4>1
        <5> QED  BY <5>1
      <4>4. ASSUME NEW d \in batch'
            PROVE  d.fd = Listen \/ \E h \in ReadyFds : d.fd = h
        BY <4>2
      <4> QED  BY <4>3, <4>4
    <3> QED  BY <3>1, NoFdOutside DEF Reported
  <2>5. interest'[f] = IF f \in ReadyFds THEN "fired" ELSE interest[f]
    BY <1>2 DEF EpollWait, OneShot
  <2>6. f \in ReadyFds => f \in open /\ interest[f] \in {"in", "out"}
    BY DEF ReadyFds
  <2>7. CASE f \in ReadyFds
    <3>1. Owned(f) => OfMain(f)'
      BY <2>1, <2>2, <2>3, <2>4, <2>5, <2>6, <2>7
      DEF Owned, OfMain, OfWorkers, SameHolders
    <3> QED  BY <2>1, <2>2, <2>3, <2>6, <2>7, <3>1 DEF SocketInv, Owned
  <2>8. CASE f \notin ReadyFds
    BY <2>1, <2>2, <2>3, <2>4, <2>5, <2>8, Frame DEF SameSocket, SameThreads
  <2> QED  BY <2>7, <2>8
<1>3. CASE BatchDone
  <2>1. /\ pc[Main] = "next" /\ pc' = [pc EXCEPT ![Main] = "wait"]
        /\ cur' = [cur EXCEPT ![Main] = NoFd]
        /\ UNCHANGED <<open, interest, batch, m_sockfd, queue, dropped,
                       reused>>
    BY <1>3 DEF BatchDone
  <2>2. /\ \A t \in Threads : t # Main => pc'[t] = pc[t] /\ cur'[t] = cur[t]
        /\ pc'[Main] = "wait"
    BY <1>0, <2>1 DEF TypeOK
  <2>3. SameThreads(f) /\ Holding(f)' = Holding(f)
    BY <1>0, <2>1, <2>2
    DEF SameThreads, Hand, Unsetting, Leaving, Holding, Threads
  <2> QED
    BY <2>1, <2>3, HoldersKept, Frame DEF SameSocket, Reported
<1>4. ASSUME NEW e \in batch, AcceptFails(e) PROVE SocketInv(f)'
  <2>1. /\ e.fd = Listen /\ batch' = batch \ {e}
        /\ UNCHANGED <<open, interest, m_sockfd, queue, pc, cur, dropped,
                       reused>>
    BY <1>0, <1>4 DEF AcceptFails, Take, BatchOK
  <2>2. Reported(f)' <=> Reported(f)
    BY <2>1, NoFdOutside DEF Reported
  <2> QED
    BY <2>1, <2>2, HoldersKept, Frame
    DEF SameSocket, SameThreads, Hand, Unsetting, Leaving, Holding
<1>5. CASE Refuse
  <2>1. /\ pc[Main] = "check" /\ pc' = [pc EXCEPT ![Main] = "next"]
        /\ UNCHANGED <<batch, m_sockfd, queue, cur>> /\ g \in Fds
        /\ open' = open \ {g}
        /\ interest' = [interest EXCEPT ![g] = "none"]
        /\ dropped' = [dropped EXCEPT ![g] = FALSE]
        /\ reused' = [reused EXCEPT ![g] = FALSE]
    BY <1>0, <1>5 DEF Refuse, Refused, CloseFd, PlaceOK
  <2>2. CASE f # g
    <3>1. SameSocket(f)
      BY <1>0, <2>1, <2>2 DEF SameSocket, TypeOK
    <3> QED  BY <1>1, <2>1, <2>2, <3>1, Frame DEF Reported
  <2>3. CASE f = g
    <3>1. Hand(f) = "check" /\ Hand(f)' = "away"
      BY <1>1, <2>1, <2>3
    <3>2. ~Reported(f) /\ (m_sockfd[f] = NoFd \/ Unsetting(f))
      BY <3>1 DEF SocketInv, Free
    <3> QED
      BY <1>0, <1>1, <2>1, <2>3, <3>1, <3>2
      DEF SocketInv, Free, Reported, TypeOK
  <2> QED  BY <2>2, <2>3
<1>6. CASE InitSockfd
  <2>1. /\ pc[Main] = "check" /\ pc' = [pc EXCEPT ![Main] = "add"]
        /\ m_sockfd' = [m_sockfd EXCEPT ![g] = g] /\ g \in Fds
        /\ UNCHANGED <<open, interest, batch, queue, cur, dropped, reused>>
    BY <1>0, <1>6 DEF InitSockfd, PlaceOK
  <2>2. CASE f # g
    <3>1. SameSocket(f)
      BY <1>0, <2>1, <2>2 DEF SameSocket, TypeOK
    <3> QED  BY <1>1, <2>1, <2>2, <3>1, Frame DEF Reported
  <2>3. CASE f = g
    <3>1. Hand(f) = "check" /\ Hand(f)' = "add"
      BY <1>0, <2>1, <2>3, ThreadMoves
    <3>2. f \in open /\ ~Reported(f)
      BY <3>1 DEF SocketInv, Free
    <3>3. OfMain(f) => OfMain(f)'
      BY <1>1, <2>1, <3>1 DEF OfMain, Reported, SameHolders
    <3>4. Owned(f) => Owned(f)'
      BY <1>0, <1>1, <2>1, <2>3, <3>1, <3>3 DEF Owned, OfWorkers, TypeOK
    <3> QED  BY <2>1, <3>1, <3>2, <3>4 DEF SocketInv
  <2> QED  BY <2>2, <2>3
<1>7. CASE InitAddfd
  <2>1. /\ pc[Main] = "add" /\ pc' = [pc EXCEPT ![Main] = "incload"]
        /\ interest' = IF m_sockfd[g] \notin open THEN interest
                       ELSE [interest EXCEPT ![m_sockfd[g]] = "in"]
        /\ g \in Fds /\ m_sockfd[g] \in {g, NoFd}
        /\ UNCHANGED <<open, batch, m_sockfd, queue, cur, dropped, reused>>
    BY <1>0, <1>7 DEF InitAddfd, PlaceOK
  <2>2. CASE f # g
    <3>1. SameSocket(f)
      BY <1>0, <2>1, <2>2, NoFdOutside DEF SameSocket, TypeOK
    <3> QED  BY <1>1, <2>1, <2>2, <3>1, Frame DEF Reported
  <2>3. CASE f = g
    <3>1. Hand(f) = "add" /\ Hand(f)' = "away"
      BY <1>1, <2>1, <2>3
    <3>2. f \in open
      BY <3>1 DEF SocketInv, Free
    <3>3. Owned(f) => OfMain(f) /\ interest'[f] = "in"
      BY <1>0, <2>1, <2>3, <3>1, <3>2 DEF Owned, OfWorkers, TypeOK
    <3>4. OfMain(f) /\ interest'[f] = "in" => OfMain(f)'
      BY <1>1, <2>1, <3>1 DEF OfMain, Reported, SameHolders
    <3>5. Owned(f) => Owned(f)'
      BY <1>1, <2>1, <3>1, <3>3, <3>4 DEF Owned
    <3> QED  BY <2>1, <3>1, <3>2, <3>5 DEF SocketInv
  <2> QED  BY <2>2, <2>3
<1>8. ASSUME NEW l \in {"incstore", "next"},
             pc' = [pc EXCEPT ![Main] = l],
             pc[Main] \in {"incload", "incstore"},
             UNCHANGED <<open, interest, batch, m_sockfd, queue, cur, dropped,
                         reused>>
      PROVE  SocketInv(f)'
  <2>1. SameSocket(f) /\ (Reported(f)' <=> Reported(f))
    BY <1>8 DEF SameSocket, Reported
  <2>2. SameThreads(f)
    BY <1>0, <1>1, <1>8, ThreadMoves DEF SameThreads
  <2> QED  BY <1>1, <1>8, <2>1, <2>2, Frame
<1>9. CASE CountLoad(Main, "incload", "incstore")
  BY <1>8, <1>9 DEF CountLoad
<1>10. CASE InitRest
  BY <1>8, <1>10 DEF InitRest, CountStore
<1> QED
  BY <1>2, <1>3, <1>4, <1>5, <1>6, <1>7, <1>9, <1>10

(* run takes a slot from the queue: the slot's place in the queue becomes  *)
(* a worker that has it, and the others move up.                           *)
LEMMA OwnerTake ==
  ASSUME TypeInv, NEW f \in Fds, SocketInv(f), NEW w \in Workers,
         TakeRequest(w)
  PROVE  SocketInv(f)'
<1> DEFINE g == Head(queue)
<1> USE DEF sockets, epoll, slots, history
<1>0. /\ TypeOK /\ PlaceOK /\ w \in Threads /\ w # Main /\ Main \in Threads
  BY ServerAssumption DEF TypeInv, Threads
<1>1. /\ pc[w] = "idle" /\ queue # <<>> /\ queue' = Tail(queue)
      /\ pc' = [pc EXCEPT ![w] = "process"] /\ cur' = [cur EXCEPT ![w] = g]
      /\ UNCHANGED <<open, interest, batch, m_sockfd, dropped, reused>>
  BY DEF TakeRequest, Goto
<1>2. /\ pc'[w] = "process" /\ cur'[w] = g
      /\ \A t \in Threads : t # w => pc'[t] = pc[t] /\ cur'[t] = cur[t]
  BY <1>0, <1>1 DEF TypeOK
<1>3. SameThreads(f)
  BY <1>0, <1>1, <1>2 DEF SameThreads, Hand, Unsetting, Leaving
<1>4. SameSocket(f) /\ (Reported(f)' <=> Reported(f))
  BY <1>1 DEF SameSocket, Reported
<1>5. /\ Len(queue) \in Nat \ {0} /\ Len(queue') = Len(queue) - 1
      /\ queue[1] = g /\ \A i \in 1..Len(queue') : queue'[i] = queue[i + 1]
  BY <1>0, <1>1 DEF TypeOK
<1>6. CASE f # g
  <2>1. Holding(f)' = Holding(f)
    BY <1>1, <1>2, <1>6 DEF Holding, Threads
  <2>2. Queued(f) = {} => Queued(f)' = {}
    BY <1>5 DEF Queued
  <2>3. ASSUME NEW i \in 1..Len(queue), Queued(f) = {i}
        PROVE  i - 1 \in 1..Len(queue') /\ Queued(f)' = {i - 1}
    <3>1. queue[i] = f /\ i # 1
      BY <1>5, <1>6, <2>3 DEF Queued
    <3>2. i - 1 \in 1..Len(queue') /\ queue'[i - 1] = f
      BY <1>5, <3>1
    <3>3. ASSUME NEW j \in 1..Len(queue'), queue'[j] = f PROVE j = i - 1
      <4>1. j + 1 \in 1..Len(queue) /\ queue[j + 1] = f
        BY <1>5, <3>3
      <4>2. j + 1 = i
        BY <2>3, <4>1 DEF Queued
      <4> QED  BY <4>2
    <3> QED  BY <3>2, <3>3 DEF Queued
  <2>4. SameHolders(f)
    BY <2>1, <2>2, <2>3 DEF SameHolders, Nobody, Single
  <2> QED  BY <1>3, <1>4, <2>4, Frame
<1>7. CASE f = g
  <2>1. 1 \in Queued(f)
    BY <1>5, <1>7 DEF Queued
  <2>2. w \in Holding(f)' /\ \A v \in Holding(f)' : v # w => v \in Holding(f)
    BY <1>0, <1>2, <1>7 DEF Holding, Threads
  <2>3. ASSUME Single(f) PROVE Single(f)'
    <3>1. Queued(f) = {1} /\ Holding(f) = {}
      BY <2>1, <2>3 DEF Single
    <3>2. Queued(f)' = {}
      <4>1. ASSUME NEW j \in 1..Len(queue'), queue'[j] = f PROVE FALSE
        <5>1. j + 1 \in 1..Len(queue) /\ queue[j + 1] = f /\ j + 1 # 1
          BY <1>5, <4>1
        <5> QED  BY <3>1, <5>1 DEF Queued
      <4> QED  BY <4>1 DEF Queued
    <3>3. Holding(f)' = {w}
      BY <2>2, <3>1
    <3> QED  BY <3>2, <3>3 DEF Single
  <2>4. SameHolders(f)
    BY <2>1, <2>3 DEF SameHolders, Nobody
  <2> QED  BY <1>3, <1>4, <2>4, Frame
<1> QED  BY <1>6, <1>7

(* process_read and process_write do not touch the socket.                 *)
LEMMA OwnerProcess ==
  ASSUME TypeInv, NEW f \in Fds, SocketInv(f), NEW w \in Workers, Process(w)
  PROVE  SocketInv(f)'
<1> USE DEF sockets, epoll, slots, history, Goto
<1>0. /\ TypeOK /\ w \in Threads /\ w # Main
  BY ServerAssumption DEF TypeInv, Threads
<1>1. PICK l \in {"modin", "spin", "modout", "close"} :
        pc' = [pc EXCEPT ![w] = l]
  BY DEF Process
<1>2. /\ pc[w] = "process"
      /\ UNCHANGED <<open, interest, batch, m_sockfd, queue, cur, dropped,
                     reused>>
  BY DEF Process
<1>3. SameThreads(f) /\ Holding(f)' = Holding(f)
  BY <1>0, <1>1, <1>2, ThreadMoves DEF SameThreads
<1> QED  BY <1>2, <1>3, HoldersKept, Frame DEF SameSocket, Reported

(* The last modfd of process gives the socket back to main; after          *)
(* close_conn it does nothing.                                             *)
LEMMA OwnerRearm ==
  ASSUME TypeInv, NEW f \in Fds, SocketInv(f), NEW w \in Workers, Rearm(w)
  PROVE  SocketInv(f)'
<1> DEFINE g == cur[w]
<1> USE DEF sockets, epoll, slots, history, Goto
<1>0. /\ TypeOK /\ PlaceOK /\ w \in Threads /\ w # Main /\ Main \in Threads
  BY ServerAssumption DEF TypeInv, Threads
<1>1. /\ pc[w] \in {"modin", "modout"} /\ pc' = [pc EXCEPT ![w] = "idle"]
      /\ cur' = [cur EXCEPT ![w] = NoFd] /\ g \in Fds
      /\ m_sockfd[g] \in {g, NoFd}
      /\ UNCHANGED <<open, batch, m_sockfd, queue, dropped, reused>>
  BY <1>0 DEF Rearm, RearmIn, PlaceOK
<1>2. \E ev \in {"in", "out"} : Modfd(m_sockfd[g], ev)
  BY DEF Rearm, RearmIn
<1>3. /\ interest'[f] # interest[f] =>
           f = g /\ m_sockfd[f] = f /\ interest[f] # "none"
      /\ f = g /\ m_sockfd[f] = f /\ interest[f] # "none" =>
           interest'[f] \in {"in", "out"}
  BY <1>0, <1>1, <1>2, NoFdOutside DEF Modfd, TypeOK
<1>4. /\ pc'[w] = "idle"
      /\ \A t \in Threads : t # w => pc'[t] = pc[t] /\ cur'[t] = cur[t]
  BY <1>0, <1>1 DEF TypeOK
<1>5. SameThreads(f) /\ Holding(f)' = Holding(f) \ {w}
  BY <1>0, <1>1, <1>4
  DEF SameThreads, Hand, Unsetting, Leaving, Holding, Threads
<1>6. Reported(f)' <=> Reported(f)
  BY <1>1 DEF Reported
<1>7. CASE f # g
  <2>1. w \notin Holding(f)
    BY <1>7 DEF Holding
  <2>2. SameHolders(f)
    BY <1>1, <1>5, <2>1, HoldersKept
  <2> QED  BY <1>1, <1>3, <1>5, <1>6, <1>7, <2>2, Frame DEF SameSocket
<1>8. CASE f = g
  <2>1. w \in Holding(f)
    BY <1>1, <1>8 DEF Holding
  <2>2. CASE f \in open /\ ~reused[f]
    <3>1. OfWorkers(f) /\ ~dropped[f] /\ m_sockfd[f] = f
      BY <2>1, <2>2 DEF SocketInv, Owned, OfMain, OfWorkers, Nobody
    <3>2. Queued(f) = {} /\ Holding(f) = {w}
      BY <2>1, <3>1 DEF OfWorkers, Single, Nobody
    <3>3. Nobody(f)'
      BY <1>1, <1>5, <3>2 DEF Nobody, Queued
    <3>4. interest'[f] \in {"in", "out"}
      BY <1>3, <1>8, <3>1 DEF OfWorkers
    <3>5. OfMain(f)' /\ ~Leaving(f)' /\ Hand(f)' = "away"
      BY <1>1, <1>5, <1>6, <2>2, <3>1, <3>3, <3>4
      DEF OfMain, OfWorkers, SameThreads, SocketInv, Owned
    <3> QED  BY <1>1, <2>2, <3>1, <3>5 DEF SocketInv, Owned
  <2>3. CASE f \in open /\ reused[f]
    BY <1>1, <1>5, <1>6, <2>3 DEF SocketInv, SameThreads
  <2>4. CASE f \notin open
    BY <1>1, <1>3, <1>5, <1>6, <2>4 DEF SocketInv, Free, SameThreads
  <2> QED  BY <2>2, <2>3, <2>4
<1> QED  BY <1>7, <1>8

(* No descriptor is open at first.                                         *)
LEMMA OwnerInit == Init => OwnerInv
<1> SUFFICES ASSUME Init, NEW f \in Fds PROVE SocketInv(f)
  BY DEF OwnerInv
<1>1. Main \in Threads /\ pc[Main] = "wait"
  BY DEF Init, Threads
<1> QED  BY <1>1 DEF Init, SocketInv, Free, Reported, Hand

(* Every step keeps the owner of every socket.                             *)
LEMMA OwnerNext == TypeInv /\ OwnerInv /\ [Next]_vars => OwnerInv'
<1> SUFFICES ASSUME TypeInv, OwnerInv, [Next]_vars, ~clash', NEW f \in Fds
             PROVE  SocketInv(f)'
  BY DEF OwnerInv
<1>1. SocketInv(f)
  BY ClashStays DEF OwnerInv
<1>2. TypeOK'
  BY TypeNext DEF TypeInv
<1>3. CASE MainStep
  <2>1. ASSUME NEW e \in batch, HandleEvent(e) PROVE SocketInv(f)'
    BY <1>1, <1>2, <2>1, OwnerAccept, OwnerMain, OwnerHandle DEF HandleEvent
  <2>2. CASE CloseConn(Main)
    BY <1>1, <2>2, OwnerClose DEF Threads
  <2> QED  BY <1>1, <1>3, <2>1, <2>2, OwnerMain DEF MainStep
<1>4. CASE ClientStep
  <2>1. UNCHANGED <<open, interest, batch, m_sockfd, queue, pc, cur, dropped,
                    reused>>
    BY <1>4 DEF ClientStep, Connect, PeerSends, PeerLeaves, PeerReads, Clients,
                slots, threads
  <2> QED
    BY <1>1, <2>1, HoldersKept, Frame
    DEF SameSocket, SameThreads, Hand, Unsetting, Leaving, Holding, Reported
<1>5. ASSUME NEW w \in Workers, WorkerStep(w) PROVE SocketInv(f)'
  <2>1. CASE CloseConn(w)
    BY <1>1, <2>1, OwnerClose DEF Threads
  <2> QED
    BY <1>1, <1>5, <2>1, OwnerTake, OwnerProcess, OwnerRearm DEF WorkerStep
<1>6. CASE UNCHANGED vars
  <2>1. UNCHANGED <<open, interest, batch, m_sockfd, queue, pc, cur, dropped,
                    reused>>
    BY <1>6 DEF vars, sockets, epoll, slots, threads, history
  <2> QED
    BY <1>1, <2>1, HoldersKept, Frame
    DEF SameSocket, SameThreads, Hand, Unsetting, Leaving, Holding, Reported
<1> QED  BY <1>3, <1>4, <1>5, <1>6 DEF Next

(* The places where a closed connection is still counted, and where an     *)
(* accepted one is not counted yet.                                        *)
ClosePlaces == {"unset", "decload", "decstore"}
AcceptPlaces == {"check", "add", "incload", "incstore"}

(* Sockets and threads are finitely many.                                  *)
LEMMA Finite ==
  /\ \A S \in SUBSET Fds : IsFiniteSet(S) /\ Cardinality(S) \in Nat
  /\ IsFiniteSet(Threads)
<1>1. IsFiniteSet(Fds)
  BY ServerAssumption, FS_Interval DEF Fds
<1>2. IsFiniteSet(Threads)
  BY ServerAssumption, FS_AddElement DEF Threads
<1> QED  BY <1>1, <1>2, FS_Subset, FS_CardinalityType

(* How a step of one thread changes what the count is off by.              *)
LEMMA CountMoves ==
  ASSUME TypeOK, NEW t \in Threads, NEW l, pc' = [pc EXCEPT ![t] = l]
  PROVE  /\ Counted \in Nat
         /\ (pc[t] \in ClosePlaces <=> l \in ClosePlaces) => Counted' = Counted
         /\ pc[t] \notin ClosePlaces /\ l \in ClosePlaces =>
              Counted' = Counted + 1
         /\ pc[t] \in ClosePlaces /\ l \notin ClosePlaces =>
              Counted' = Counted - 1
         /\ t # Main => Uncounted' = Uncounted
         /\ t = Main =>
              /\ Uncounted = (IF pc[t] \in AcceptPlaces THEN 1 ELSE 0)
              /\ Uncounted' = (IF l \in AcceptPlaces THEN 1 ELSE 0)
<1> DEFINE C == {u \in Threads : pc[u] \in ClosePlaces}
           D == {u \in Threads : pc'[u] \in ClosePlaces}
<1>1. pc'[t] = l /\ \A u \in Threads : u # t => pc'[u] = pc[u]
  BY DEF TypeOK
<1>2. Counted = Cardinality(C) /\ Counted' = Cardinality(D)
  BY DEF Counted, ClosePlaces
<1>3. IsFiniteSet(C) /\ IsFiniteSet(D)
  BY Finite, FS_Subset
<1>4. Cardinality(C) \in Nat /\ Cardinality(D) \in Nat
  BY <1>3, FS_CardinalityType
<1>5. (pc[t] \in ClosePlaces <=> l \in ClosePlaces) => D = C
  BY <1>1
<1>6. ASSUME pc[t] \notin ClosePlaces, l \in ClosePlaces
      PROVE  Cardinality(D) = Cardinality(C) + 1
  <2>1. D = C \cup {t} /\ t \notin C
    BY <1>1, <1>6
  <2> HIDE DEF C, D
  <2> QED  BY <1>3, <2>1, FS_AddElement
<1>7. ASSUME pc[t] \in ClosePlaces, l \notin ClosePlaces
      PROVE  Cardinality(D) = Cardinality(C) - 1
  <2>1. D = C \ {t} /\ t \in C
    BY <1>1, <1>7
  <2> HIDE DEF C, D
  <2> QED  BY <1>3, <2>1, FS_RemoveElement
<1>8. t # Main => Uncounted' = Uncounted
  BY <1>1 DEF Uncounted, Threads
<1>9. t = Main => /\ Uncounted = (IF pc[t] \in AcceptPlaces THEN 1 ELSE 0)
                  /\ Uncounted' = (IF l \in AcceptPlaces THEN 1 ELSE 0)
  BY <1>1 DEF Uncounted, AcceptPlaces
<1> HIDE DEF C, D
<1> QED  BY <1>2, <1>4, <1>5, <1>6, <1>7, <1>8, <1>9

(* Only a store of m_user_count is off by more, and then it sets lost.     *)
LEMMA CountNext ==
  TypeInv /\ OwnerInv /\ CountExact /\ [Next]_vars => CountExact'
<1> SUFFICES ASSUME TypeInv, OwnerInv, CountExact, [Next]_vars,
                    ~lost', ~clash'
             PROVE  (m_user_count = Cardinality(open) - Uncounted + Counted)'
  BY DEF CountExact
<1> USE DEF sockets, epoll, slots, threads, history, Goto
<1>0. /\ TypeOK /\ PlaceOK /\ BatchOK /\ Main \in Threads
      /\ Workers \subseteq Threads /\ Main \notin Workers /\ ~clash
  BY ServerAssumption, ClashStays DEF TypeInv, Threads
<1>1. IsFiniteSet(open) /\ Cardinality(open) \in Nat /\ m_user_count \in Int
  BY <1>0, Finite DEF TypeOK
<1>2. Uncounted \in {0, 1} /\ Counted \in Nat
  <2>1. IsFiniteSet({t \in Threads : pc[t] \in ClosePlaces})
    BY Finite, FS_Subset
  <2> QED  BY <2>1, FS_CardinalityType DEF Uncounted, Counted, ClosePlaces
<1>3. ~lost => m_user_count = Cardinality(open) - Uncounted + Counted
  BY <1>0 DEF CountExact
<1>4. ASSUME NEW t \in Threads, NEW l, pc' = [pc EXCEPT ![t] = l],
             UNCHANGED <<open, m_user_count, lost>>,
             pc[t] \in ClosePlaces <=> l \in ClosePlaces,
             t = Main => (pc[t] \in AcceptPlaces <=> l \in AcceptPlaces)
      PROVE  (m_user_count = Cardinality(open) - Uncounted + Counted)'
  BY <1>0, <1>3, <1>4, CountMoves
<1>5. ASSUME UNCHANGED <<open, m_user_count, lost, pc>>
      PROVE  (m_user_count = Cardinality(open) - Uncounted + Counted)'
  BY <1>3, <1>5 DEF Uncounted, Counted
<1>6. ASSUME NEW t \in Threads, CloseConn(t)
      PROVE  (m_user_count = Cardinality(open) - Uncounted + Counted)'
  <2>1. CASE CloseSkip(t)
    BY <1>4, <2>1 DEF CloseSkip, AfterClose, ClosePlaces, AcceptPlaces
  <2>2. CASE CloseRemove(t)
    <3>1. /\ pc[t] = "close" /\ pc' = [pc EXCEPT ![t] = "unset"]
          /\ m_sockfd[cur[t]] \in open
          /\ open' = open \ {m_sockfd[cur[t]]}
          /\ UNCHANGED <<m_user_count, lost>>
      BY <2>2 DEF CloseRemove, CloseFd
    <3>2. Cardinality(open') = Cardinality(open) - 1
      BY <1>1, <3>1, FS_RemoveElement
    <3>3. Counted' = Counted + 1 /\ Uncounted' = Uncounted
      BY <1>0, <3>1, CountMoves DEF ClosePlaces, AcceptPlaces
    <3> QED  BY <1>1, <1>2, <1>3, <3>1, <3>2, <3>3
  <2>3. CASE CloseUnset(t)
    BY <1>4, <2>3 DEF CloseUnset, ClosePlaces, AcceptPlaces
  <2>4. CASE CountLoad(t, "decload", "decstore")
    BY <1>4, <2>4 DEF CountLoad, ClosePlaces, AcceptPlaces
  <2>5. CASE CloseStore(t)
    <3>1. /\ pc[t] = "decstore" /\ UNCHANGED open /\ ~lost
          /\ m_user_count' = m_user_count - 1
      BY <2>5 DEF CloseStore, CountStore
    <3>2. \E l \in {"next", "modout"} : pc' = [pc EXCEPT ![t] = l]
      BY <2>5 DEF CloseStore, AfterClose
    <3>3. Counted' = Counted - 1 /\ Uncounted' = Uncounted
      BY <1>0, <3>1, <3>2, CountMoves DEF ClosePlaces, AcceptPlaces
    <3> QED  BY <1>1, <1>2, <1>3, <3>1, <3>3
  <2> QED  BY <1>6, <2>1, <2>2, <2>3, <2>4, <2>5 DEF CloseConn
<1>7. ASSUME NEW e \in batch, Accept(e)
      PROVE  (m_user_count = Cardinality(open) - Uncounted + Counted)'
  <2>1. PICK g \in Fds \ open : open' = open \cup {g}
    BY <1>7, LowestFree DEF Accept
  <2>2. /\ pc[Main] = "next" /\ pc' = [pc EXCEPT ![Main] = "check"]
        /\ UNCHANGED <<m_user_count, lost>>
    BY <1>7 DEF Accept, Take
  <2>3. Cardinality(open') = Cardinality(open) + 1
    BY <1>1, <2>1, FS_AddElement
  <2>4. Counted' = Counted /\ Uncounted = 0 /\ Uncounted' = 1
    BY <1>0, <2>2, CountMoves DEF ClosePlaces, AcceptPlaces
  <2> QED  BY <1>1, <1>2, <1>3, <2>2, <2>3, <2>4
<1>8. ASSUME NEW e \in batch, HandleEvent(e), ~Accept(e)
      PROVE  (m_user_count = Cardinality(open) - Uncounted + Counted)'
  <2>1. pc[Main] = "next" /\ UNCHANGED <<open, m_user_count, lost>>
    BY <1>8 DEF HandleEvent, AcceptFails, Hangup, ReadOk, ReadFails,
                WriteNothing, WriteAgain, WriteEnds, WriteSpins, Take
  <2>2. \/ UNCHANGED pc
        \/ \E l \in {"close", "spin"} : pc' = [pc EXCEPT ![Main] = l]
    BY <1>8 DEF HandleEvent, AcceptFails, Hangup, ReadOk, ReadFails,
                WriteNothing, WriteAgain, WriteEnds, WriteSpins
  <2> QED  BY <1>0, <1>4, <1>5, <2>1, <2>2 DEF ClosePlaces, AcceptPlaces
<1>9. CASE Refuse
  <2>1. /\ pc[Main] = "check" /\ pc' = [pc EXCEPT ![Main] = "next"]
        /\ open' = open \ {cur[Main]} /\ UNCHANGED <<m_user_count, lost>>
    BY <1>9 DEF Refuse, Refused, CloseFd
  <2>2. cur[Main] \in open
    <3>1. cur[Main] \in Fds /\ SocketInv(cur[Main])
      BY <1>0, <2>1 DEF PlaceOK, OwnerInv
    <3>2. Hand(cur[Main]) = "check"
      BY <2>1 DEF Hand
    <3> QED  BY <3>1, <3>2 DEF SocketInv, Free
  <2>3. Cardinality(open') = Cardinality(open) - 1
    BY <1>1, <2>1, <2>2, FS_RemoveElement
  <2>4. Counted' = Counted /\ Uncounted = 1 /\ Uncounted' = 0
    <3>1. Counted' = Counted
      <4>1. pc[Main] \notin ClosePlaces /\ "next" \notin ClosePlaces
        BY <2>1 DEF ClosePlaces
      <4> QED  BY <1>0, <2>1, <4>1, CountMoves
    <3>2. pc'[Main] = "next"
      BY <1>0, <2>1 DEF TypeOK
    <3> QED  BY <2>1, <3>1, <3>2 DEF Uncounted
  <2> QED  BY <1>1, <1>2, <1>3, <2>1, <2>3, <2>4
<1>10. CASE InitRest
  <2>1. /\ pc[Main] = "incstore" /\ pc' = [pc EXCEPT ![Main] = "next"]
        /\ m_user_count' = m_user_count + 1 /\ ~lost /\ UNCHANGED open
    <3>1. pc[Main] = "incstore" /\ pc' = [pc EXCEPT ![Main] = "next"]
          /\ CountStore(Main, 1)
      BY <1>10 DEF InitRest
    <3> QED  BY <3>1 DEF CountStore
  <2>2. Counted' = Counted /\ Uncounted = 1 /\ Uncounted' = 0
    <3>1. Counted' = Counted
      <4>1. pc[Main] \notin ClosePlaces /\ "next" \notin ClosePlaces
        BY <2>1 DEF ClosePlaces
      <4> QED  BY <1>0, <2>1, <4>1, CountMoves
    <3>2. pc'[Main] = "next"
      BY <1>0, <2>1 DEF TypeOK
    <3> QED  BY <2>1, <3>1, <3>2 DEF Uncounted
  <2> QED  BY <1>1, <1>2, <1>3, <2>1, <2>2
<1>11. CASE EpollWait \/ BatchDone \/ InitSockfd \/ InitAddfd
              \/ CountLoad(Main, "incload", "incstore")
  <2>1. UNCHANGED <<open, m_user_count, lost>>
    BY <1>11 DEF EpollWait, BatchDone, InitSockfd, InitAddfd, CountLoad
  <2>2. \E l \in {"next", "wait", "add", "incload", "incstore", "close"} :
          /\ pc' = [pc EXCEPT ![Main] = l] /\ pc[Main] \notin ClosePlaces
          /\ pc[Main] \in AcceptPlaces <=> l \in AcceptPlaces
    BY <1>11 DEF EpollWait, BatchDone, InitSockfd, InitAddfd, CountLoad,
                 ClosePlaces, AcceptPlaces
  <2> QED  BY <1>0, <1>4, <2>1, <2>2 DEF ClosePlaces
<1>12. ASSUME NEW w \in Workers, TakeRequest(w) \/ Process(w) \/ Rearm(w)
       PROVE  (m_user_count = Cardinality(open) - Uncounted + Counted)'
  <2>1. UNCHANGED <<open, m_user_count, lost>>
    BY <1>12 DEF TakeRequest, Process, Rearm
  <2>2. \E l \in {"process", "modin", "spin", "modout", "close", "idle"} :
          pc' = [pc EXCEPT ![w] = l] /\ pc[w] \notin ClosePlaces
    BY <1>12 DEF TakeRequest, Process, Rearm, RearmIn, ClosePlaces
  <2> QED  BY <1>0, <1>4, <2>1, <2>2 DEF ClosePlaces
<1>13. CASE ClientStep \/ UNCHANGED vars
  <2>1. UNCHANGED <<open, m_user_count, lost, pc>>
    BY <1>13 DEF ClientStep, Connect, PeerSends, PeerLeaves, PeerReads,
                 Clients, vars
  <2> QED  BY <1>5, <2>1
<1> QED
  BY <1>0, <1>6, <1>7, <1>8, <1>9, <1>10, <1>11, <1>12, <1>13
  DEF Next, MainStep, WorkerStep

(* Nothing is open or counted at first.                                    *)
LEMMA CountInit == Init => CountExact
<1> SUFFICES ASSUME Init PROVE CountExact
  OBVIOUS
<1>1. {t \in Threads : pc[t] \in ClosePlaces} = {} /\ Uncounted = 0
  BY DEF Init, ClosePlaces, Uncounted, Threads
<1>2. Counted = 0 /\ Cardinality(open) = 0
  BY <1>1, FS_EmptySet DEF Counted, ClosePlaces, Init
<1> QED  BY <1>1, <1>2 DEF CountExact, Init

(* The inductive invariant holds in every reachable state: the types, one  *)
(* owner per connection, and the count (which needs the others: main       *)
(* refuses a socket that is open, close_conn closes one that is).          *)
THEOREM ServerInvariant == Spec => [](TypeInv /\ OwnerInv /\ CountExact)
<1>1. Init => TypeInv /\ OwnerInv /\ CountExact
  BY TypeInit, OwnerInit, CountInit
<1>2. /\ TypeInv /\ OwnerInv /\ CountExact
      /\ [Next]_vars
      => (TypeInv /\ OwnerInv /\ CountExact)'
  BY TypeNext, OwnerNext, CountNext
<1> QED  BY <1>1, <1>2, PTL DEF Spec

(* Nobody and Single are the values 0 and 1 of Held.                       *)
LEMMA HeldOf ==
  ASSUME NEW f
  PROVE  /\ Nobody(f) => Held(f) = 0
         /\ Single(f) => Held(f) = 1
<1>1. Held(f) = Cardinality(Queued(f)) + Cardinality(Holding(f))
  BY DEF Held, Queued, Holding
<1>2. Nobody(f) => Held(f) = 0
  BY <1>1, FS_EmptySet DEF Nobody
<1>3. ASSUME NEW x PROVE Cardinality({x}) = 1
  BY FS_Singleton
<1>4. Single(f) => Held(f) = 1
  <2>1. CASE Holding(f) = {} /\ \E i \in 1..Len(queue) : Queued(f) = {i}
    <3>1. Cardinality(Holding(f)) = 0
      BY <2>1, FS_EmptySet
    <3>2. Cardinality(Queued(f)) = 1
      BY <1>3, <2>1
    <3> QED  BY <1>1, <3>1, <3>2
  <2>2. CASE Queued(f) = {} /\ \E w \in Workers : Holding(f) = {w}
    <3>1. Cardinality(Queued(f)) = 0
      BY <2>2, FS_EmptySet
    <3>2. Cardinality(Holding(f)) = 1
      BY <1>3, <2>2
    <3> QED  BY <1>1, <3>1, <3>2
  <2> QED  BY <2>1, <2>2 DEF Single
<1> QED  BY <1>2, <1>4

(* EPOLLONESHOT works as a lock: a connection belongs to main or to one    *)
(* worker, or was dropped by append, as long as its descriptor was not     *)
(* given out while a worker still had the slot.                            *)
THEOREM SocketHasOneOwner == Spec => []OneOwner
<1>1. TypeInv /\ OwnerInv => OneOwner
  <2> SUFFICES ASSUME TypeInv, OwnerInv, ~clash, NEW f \in open, ~reused[f]
               PROVE  \/ Held(f) = 1 /\ ~MainHas(f) /\ ~dropped[f]
                      \/ Held(f) = 0 /\ MainHas(f) /\ ~dropped[f]
                      \/ Held(f) = 0 /\ ~MainHas(f) /\ dropped[f]
    BY DEF OneOwner
  <2>1. OfMain(f) \/ OfWorkers(f)
    BY DEF TypeInv, TypeOK, OwnerInv, SocketInv, Owned
  <2>2. MainHas(f) <=> \/ interest[f] \in {"in", "out"} \/ Reported(f)
                      \/ Hand(f) # "away"
    BY DEF MainHas, Reported, Hand
  <2>3. CASE OfMain(f)
    BY <2>2, <2>3, HeldOf DEF OfMain
  <2>4. CASE OfWorkers(f)
    BY <2>2, <2>4, HeldOf DEF OfWorkers
  <2> QED  BY <2>1, <2>3, <2>4
<1> QED  BY <1>1, ServerInvariant, PTL

(* Every variable has its type, and m_sockfd is the descriptor while it is *)
(* open and -1 when it is not, but for accept and close_conn in progress.  *)
THEOREM SlotsMatchSockets == Spec => []SlotMatchesSocket
<1>1. TypeInv /\ OwnerInv => SlotMatchesSocket
  BY DEF TypeInv, OwnerInv, SlotMatchesSocket, SocketInv, Owned, Free, Hand,
         Unsetting
<1> QED  BY <1>1, ServerInvariant, PTL

(* m_user_count counts the open connections, up to those accept or         *)
(* close_conn is at, unless an update was lost or a foreign socket closed. *)
THEOREM CountIsExact == Spec => []CountExact
BY ServerInvariant, PTL
=============================================================================
