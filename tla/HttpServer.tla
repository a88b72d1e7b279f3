----------------------------- MODULE HttpServer -----------------------------
(***************************************************************************)
(* The web server of thread_pool/main.cc and http_conn.cc: one thread (the *)
(* main one) accepts, reads and writes, worker threads parse and prepare   *)
(* the answer, and EPOLLONESHOT hands a connection from one to the other.  *)
(*                                                                         *)
(* A connection lives in the slot users[fd] of its descriptor.  What it    *)
(* says is abstracted to what parsing makes of it (module HttpConn), the   *)
(* thread pool to the queue it implements (module RequestQueue).           *)
(*                                                                         *)
(* One action is what a thread does between two accesses to what another   *)
(* thread may touch: the kernel's objects, m_sockfd, m_user_count and the  *)
(* queue.  m_user_count is not atomic: ++ and -- are a load and a store.   *)
(***************************************************************************)
EXTENDS Integers, Sequences, FiniteSets

CONSTANTS
  Workers,      (* the threads of the pool                                 *)
  Main,         (* the thread in main                                      *)
  NumFds,       (* descriptors a client socket can get: 1..NumFds          *)
  MAX_FD,       (* connections beyond which main refuses                   *)
  MaxRequests,  (* m_max_requests of the pool                              *)
  MaxConns      (* bound: the connections the clients ever open            *)

Fds     == 1..NumFds
Listen  == 0                 (* stands for listenfd                        *)
NoFd    == -1
Threads == Workers \cup {Main}

ASSUME ServerAssumption ==
  /\ Workers # {} /\ IsFiniteSet(Workers) /\ Main \notin Workers
  /\ {NumFds, MAX_FD, MaxRequests, MaxConns} \subseteq Nat \ {0}

VARIABLES
  open,          (* descriptors of client sockets                          *)
  inbox,         (* per socket: bytes that were not received yet           *)
  peer,          (* per socket: "up", "fin" or "rst"                       *)
  full,          (* per socket: its send buffer has no room                *)
  interest,      (* per socket, in epoll: "none" (not registered), "fired" *)
                 (* (EPOLLONESHOT disabled it), "in" or "out"              *)
  backlog,       (* completed connections nobody accepted                  *)
  edge,          (* listenfd has become ready since it was last reported   *)
  batch,         (* what epoll_wait returned and main has not looked at    *)
  m_sockfd,      (* of each slot                                           *)
  response,      (* of each slot: m_write_buf and m_iv hold "none", "file" *)
                 (* or "error"                                             *)
  iov0,          (* of each slot: m_iv[0].iov_len is not 0                 *)
  m_user_count,
  queue,         (* the slots appended to the pool                         *)
  pc, cur, reg,  (* per thread: where it is, its slot, the count it loaded *)
  arrived,       (* connections opened so far                              *)
  missed,        (* history: connections no event of listenfd stands for   *)
  lost,          (* history: an update of m_user_count overwrote another   *)
  clash,         (* history: close_conn closed a free descriptor or one    *)
                 (* that was given out too early                           *)
  dropped,       (* history, per socket: append refused it                 *)
  reused         (* history, per socket: its descriptor was given out      *)
                 (* while a worker still had the slot                      *)

sockets == <<open, inbox, peer, full>>
epoll   == <<interest, edge, batch>>
slots   == <<m_sockfd, response, iov0>>
threads == <<pc, cur, reg>>
history == <<missed, lost, clash, dropped, reused>>
vars    == <<sockets, backlog, epoll, slots, m_user_count, queue, threads,
             arrived, history>>

Goto(t, l) == pc' = [pc EXCEPT ![t] = l]

(* users is fresh zeroed memory, so every iov_len starts as 0; m_sockfd    *)
(* does too, but nothing looks at it before init() has set it.             *)
Init ==
  /\ open = {} /\ backlog = 0 /\ edge = FALSE /\ batch = {}
  /\ inbox = [f \in Fds |-> FALSE]
  /\ peer = [f \in Fds |-> "up"]
  /\ full = [f \in Fds |-> FALSE]
  /\ interest = [f \in Fds |-> "none"]
  /\ m_sockfd = [f \in Fds |-> NoFd]
  /\ response = [f \in Fds |-> "none"]
  /\ iov0 = [f \in Fds |-> FALSE]
  /\ m_user_count = 0 /\ queue = <<>>
  /\ pc = [t \in Threads |-> IF t = Main THEN "wait" ELSE "idle"]
  /\ cur = [t \in Threads |-> NoFd]
  /\ reg = [t \in Threads |-> 0]
  /\ arrived = 0 /\ missed = 0 /\ lost = FALSE /\ clash = FALSE
  /\ dropped = [f \in Fds |-> FALSE]
  /\ reused = [f \in Fds |-> FALSE]
-----------------------------------------------------------------------------
(* The clients and the network.                                            *)

Clients == UNCHANGED <<open, interest, batch, slots, m_user_count, queue,
                       threads, lost, clash, dropped, reused>>

(* listenfd is edge-triggered: connections that complete before the edge   *)
(* is reported share one event.                                            *)
Connect ==
  /\ arrived < MaxConns
  /\ arrived' = arrived + 1
  /\ backlog' = backlog + 1
  /\ edge' = TRUE
  /\ missed' = missed + (IF edge THEN 1 ELSE 0)
  /\ UNCHANGED <<inbox, peer, full>>
  /\ Clients

PeerSends(f) ==
  /\ f \in open /\ peer[f] = "up"
  /\ inbox' = [inbox EXCEPT ![f] = TRUE]
  /\ UNCHANGED <<peer, full, backlog, edge, arrived, missed>>
  /\ Clients

(* The client shuts its side down or resets the connection.                *)
PeerLeaves(f) ==
  /\ f \in open
  /\ \/ peer[f] = "up" /\ peer' = [peer EXCEPT ![f] = "fin"]
     \/ peer[f] # "rst" /\ peer' = [peer EXCEPT ![f] = "rst"]
  /\ UNCHANGED <<inbox, full, backlog, edge, arrived, missed>>
  /\ Clients

PeerReads(f) ==
  /\ f \in open /\ full[f]
  /\ full' = [full EXCEPT ![f] = FALSE]
  /\ UNCHANGED <<inbox, peer, backlog, edge, arrived, missed>>
  /\ Clients
-----------------------------------------------------------------------------
(* epoll_ctl and close.                                                    *)

(* modfd(m_epollfd, fd, ev): on -1 or an unregistered socket it fails.     *)
Modfd(fd, ev) ==
  IF fd # NoFd /\ interest[fd] # "none"
  THEN interest' = [interest EXCEPT ![fd] = ev]
  ELSE UNCHANGED interest

(* close(fd): the socket leaves the epoll instance with it.                *)
CloseFd(fd) ==
  /\ open' = open \ {fd}
  /\ interest' = [interest EXCEPT ![fd] = "none"]
  /\ inbox' = [inbox EXCEPT ![fd] = FALSE]
  /\ full' = [full EXCEPT ![fd] = FALSE]
  /\ peer' = [peer EXCEPT ![fd] = "up"]
  /\ dropped' = [dropped EXCEPT ![fd] = FALSE]
  /\ reused' = [reused EXCEPT ![fd] = FALSE]
-----------------------------------------------------------------------------
(* http_conn::close_conn, by main or by a worker at the end of process.    *)

(* A worker goes on to the last modfd of process, main to its next event.  *)
AfterClose(t) == Goto(t, IF t = Main THEN "next" ELSE "modout")

CloseSkip(t) ==
  /\ pc[t] = "close"
  /\ m_sockfd[cur[t]] = NoFd
  /\ AfterClose(t)
  /\ UNCHANGED <<sockets, backlog, epoll, slots, m_user_count, queue, cur,
                 reg, arrived, history>>

CloseRemove(t) ==
  /\ pc[t] = "close"
  /\ m_sockfd[cur[t]] # NoFd
  /\ CloseFd(m_sockfd[cur[t]])
  /\ clash' = (clash \/ m_sockfd[cur[t]] \notin open
                    \/ reused[m_sockfd[cur[t]]])
  /\ Goto(t, "unset")
  /\ UNCHANGED <<backlog, edge, batch, slots, m_user_count, queue, cur, reg,
                 arrived, missed, lost>>

(* Mutant of Unset: m_sockfd keeps the closed descriptor.                  *)
UnsetNot(f) == UNCHANGED m_sockfd

Unset(f) == m_sockfd' = [m_sockfd EXCEPT ![f] = NoFd]

CloseUnset(t) ==
  /\ pc[t] = "unset"
  /\ Unset(cur[t])
  /\ Goto(t, "decload")
  /\ UNCHANGED <<sockets, backlog, epoll, response, iov0, m_user_count,
                 queue, cur, reg, arrived, history>>

(* The load of m_user_count++ (from "incload") or -- (from "decload").     *)
CountLoad(t, from, to) ==
  /\ pc[t] = from
  /\ reg' = [reg EXCEPT ![t] = m_user_count]
  /\ Goto(t, to)
  /\ UNCHANGED <<sockets, backlog, epoll, slots, m_user_count, queue, cur,
                 arrived, history>>

(* The store; it may undo one another thread made since the load.          *)
CountStore(t, d) ==
  /\ m_user_count' = reg[t] + d
  /\ lost' = (lost \/ m_user_count # reg[t])
  /\ reg' = [reg EXCEPT ![t] = 0]
  /\ UNCHANGED <<sockets, backlog, epoll, m_sockfd, iov0, queue, cur,
                 arrived, missed, clash, dropped, reused>>

CloseStore(t) ==
  /\ pc[t] = "decstore"
  /\ CountStore(t, -1)
  /\ AfterClose(t)
  /\ UNCHANGED response

CloseConn(t) ==
  \/ CloseSkip(t) \/ CloseRemove(t) \/ CloseUnset(t)
  \/ CountLoad(t, "decload", "decstore") \/ CloseStore(t)
-----------------------------------------------------------------------------
(* main: epoll_wait                                                        *)

(* What epoll would report of a socket; the hang-up is tested first.       *)
Event(f) ==
  IF peer[f] # "up" THEN "hup" ELSE IF interest[f] = "in" THEN "in" ELSE "out"

ReadyFds ==
  {f \in open : /\ interest[f] \in {"in", "out"}
                /\ \/ peer[f] # "up"
                   \/ interest[f] = "in" /\ inbox[f]
                   \/ interest[f] = "out" /\ ~full[f]}

ListenReady == edge /\ backlog > 0

(* Mutant of OneShot: the sockets are added without EPOLLONESHOT.          *)
OneShotNot == UNCHANGED interest

OneShot ==
  interest' = [f \in Fds |-> IF f \in ReadyFds THEN "fired" ELSE interest[f]]

EpollWait ==
  /\ pc[Main] = "wait"
  /\ ReadyFds # {} \/ ListenReady
  /\ batch' = {[fd |-> f, ev |-> Event(f)] : f \in ReadyFds}
                \cup (IF ListenReady
                      THEN {[fd |-> Listen, ev |-> "accept"]} ELSE {})
  /\ OneShot
  /\ edge' = FALSE
  /\ Goto(Main, "next")
  /\ UNCHANGED <<sockets, backlog, slots, m_user_count, queue, cur, reg,
                 arrived, history>>

BatchDone ==
  /\ pc[Main] = "next" /\ batch = {}
  /\ Goto(Main, "wait")
  /\ cur' = [cur EXCEPT ![Main] = NoFd]
  /\ UNCHANGED <<sockets, backlog, epoll, slots, m_user_count, queue, reg,
                 arrived, history>>

(* Mutant of Take: leaving the loop instead of going on to the next event,*)
(* main looks at one event of what epoll_wait returned.                    *)
TakeOne(e, ev) ==
  /\ pc[Main] = "next"
  /\ e \in batch /\ e.ev = ev
  /\ batch' = {}

(* main looks at an event of the batch, in whatever order they came.       *)
Take(e, ev) ==
  /\ pc[Main] = "next"
  /\ e \in batch /\ e.ev = ev
  /\ batch' = batch \ {e}
-----------------------------------------------------------------------------
(* main: accept and http_conn::init                                        *)

(* accept gives out the lowest free descriptor.                            *)
Accept(e) ==
  /\ Take(e, "accept")
  /\ Fds \ open # {}
  /\ LET f == CHOOSE g \in Fds \ open : \A h \in Fds \ open : g <= h
     IN  /\ open' = open \cup {f}
         /\ reused' = [reused EXCEPT ![f] =
              \/ \E w \in Workers : pc[w] # "idle" /\ cur[w] = f
              \/ \E i \in 1..Len(queue) : queue[i] = f]
         /\ cur' = [cur EXCEPT ![Main] = f]
  /\ backlog' = backlog - 1
  /\ Goto(Main, "check")
  /\ UNCHANGED <<inbox, peer, full, interest, edge, slots, m_user_count,
                 queue, reg, arrived, missed, lost, clash, dropped>>

(* No descriptor is left (EMFILE): the connection stays in the backlog and *)
(* its event is spent.                                                     *)
AcceptFails(e) ==
  /\ Take(e, "accept")
  /\ Fds \subseteq open
  /\ missed' = missed + 1
  /\ UNCHANGED <<sockets, backlog, interest, edge, slots, m_user_count,
                 queue, threads, arrived, lost, clash, dropped, reused>>

(* Mutant of Refused: the refused connection is taken off the count.       *)
RefusedCounts == Goto(Main, "decload")

Refused == Goto(Main, "next")

(* show_error closes the connection.                                       *)
Refuse ==
  /\ pc[Main] = "check"
  /\ m_user_count > MAX_FD
  /\ CloseFd(cur[Main])
  /\ Refused
  /\ UNCHANGED <<backlog, edge, batch, slots, m_user_count, queue, cur, reg,
                 arrived, missed, lost, clash>>

InitSockfd ==
  /\ pc[Main] = "check"
  /\ m_user_count <= MAX_FD
  /\ m_sockfd' = [m_sockfd EXCEPT ![cur[Main]] = cur[Main]]
  /\ Goto(Main, "add")
  /\ UNCHANGED <<sockets, backlog, epoll, response, iov0, m_user_count,
                 queue, cur, reg, arrived, history>>

(* addfd(m_epollfd, m_sockfd, true), whatever m_sockfd is by now; a worker *)
(* may even have closed it.                                                *)
InitAddfd ==
  /\ pc[Main] = "add"
  /\ interest' = IF m_sockfd[cur[Main]] \notin open THEN interest
                 ELSE [interest EXCEPT ![m_sockfd[cur[Main]]] = "in"]
  /\ Goto(Main, "incload")
  /\ UNCHANGED <<sockets, backlog, edge, batch, slots, m_user_count, queue,
                 cur, reg, arrived, history>>

(* The store of m_user_count++, and init(): the buffers are cleared, m_iv  *)
(* is not.                                                                 *)
InitRest ==
  /\ pc[Main] = "incstore"
  /\ CountStore(Main, 1)
  /\ response' = [response EXCEPT ![cur[Main]] = "none"]
  /\ Goto(Main, "next")
-----------------------------------------------------------------------------
(* main: the events of a connection                                        *)

Hangup(e) ==
  /\ Take(e, "hup")
  /\ cur' = [cur EXCEPT ![Main] = e.fd]
  /\ Goto(Main, "close")
  /\ UNCHANGED <<sockets, backlog, interest, edge, slots, m_user_count,
                 queue, reg, arrived, history>>

(* read() is true: everything was received.  append's result is ignored.   *)
ReadOk(e) ==
  /\ Take(e, "in")
  /\ m_sockfd[e.fd] # NoFd /\ peer[e.fd] = "up"
  /\ inbox' = [inbox EXCEPT ![e.fd] = FALSE]
  /\ IF Len(queue) > MaxRequests
     THEN dropped' = [dropped EXCEPT ![e.fd] = TRUE] /\ UNCHANGED queue
     ELSE queue' = Append(queue, e.fd) /\ UNCHANGED dropped
  /\ UNCHANGED <<open, peer, full, backlog, interest, edge, slots,
                 m_user_count, threads, arrived, missed, lost, clash,
                 reused>>

(* read() is false: the socket is not there, the client has left, or       *)
(* m_read_buf is full.                                                     *)
ReadFails(e) ==
  /\ Take(e, "in")
  /\ m_sockfd[e.fd] = NoFd \/ peer[e.fd] # "up" \/ inbox[e.fd]
  /\ cur' = [cur EXCEPT ![Main] = e.fd]
  /\ Goto(Main, "close")
  /\ UNCHANGED <<sockets, backlog, interest, edge, slots, m_user_count,
                 queue, reg, arrived, history>>

(* write() with nothing to send: wait for a request again.                 *)
WriteNothing(e) ==
  /\ Take(e, "out")
  /\ response[e.fd] = "none"
  /\ Modfd(m_sockfd[e.fd], "in")
  /\ UNCHANGED <<sockets, backlog, edge, slots, m_user_count, queue, threads,
                 arrived, history>>

(* An error response is announced in m_iv[1] and sent from m_iv[0]: its    *)
(* length is 0 unless a file was served from this slot before.             *)
CanSend(f) == response[f] = "file" \/ (response[f] = "error" /\ iov0[f])

(* writev fails with EAGAIN.                                               *)
WriteAgain(e) ==
  /\ Take(e, "out")
  /\ CanSend(e.fd) /\ m_sockfd[e.fd] # NoFd /\ peer[e.fd] # "rst"
  /\ full' = [full EXCEPT ![e.fd] = TRUE]
  /\ Modfd(m_sockfd[e.fd], "out")
  /\ UNCHANGED <<open, inbox, peer, backlog, edge, slots, m_user_count,
                 queue, threads, arrived, history>>

(* The response counts as sent (m_linger is never set, see HttpConn), or   *)
(* writev fails: write() is false.                                         *)
WriteEnds(e) ==
  /\ Take(e, "out")
  /\ response[e.fd] # "none"
  /\ \/ /\ CanSend(e.fd) /\ m_sockfd[e.fd] # NoFd /\ peer[e.fd] # "rst"
        /\ Modfd(m_sockfd[e.fd], "in")
     \/ /\ m_sockfd[e.fd] = NoFd \/ (CanSend(e.fd) /\ peer[e.fd] = "rst")
        /\ UNCHANGED interest
  /\ cur' = [cur EXCEPT ![Main] = e.fd]
  /\ Goto(Main, "close")
  /\ UNCHANGED <<sockets, backlog, edge, slots, m_user_count, queue, reg,
                 arrived, history>>

(* writev of no bytes returns 0, whether the client is there or not, and   *)
(* no return of it ends the loop: main stays in write() for good.          *)
WriteSpins(e) ==
  /\ Take(e, "out")
  /\ response[e.fd] = "error" /\ ~iov0[e.fd]
  /\ m_sockfd[e.fd] # NoFd
  /\ cur' = [cur EXCEPT ![Main] = e.fd]
  /\ Goto(Main, "spin")
  /\ UNCHANGED <<sockets, backlog, interest, edge, slots, m_user_count,
                 queue, reg, arrived, history>>
-----------------------------------------------------------------------------
(* A worker: the pool's run and http_conn::process                         *)

TakeRequest(w) ==
  /\ pc[w] = "idle" /\ queue # <<>>
  /\ cur' = [cur EXCEPT ![w] = Head(queue)]
  /\ queue' = Tail(queue)
  /\ Goto(w, "process")
  /\ UNCHANGED <<sockets, backlog, epoll, slots, m_user_count, reg, arrived,
                 history>>

(* process_read and process_write; after an empty file process_write falls *)
(* through to its default case and is false.                               *)
Process(w) ==
  /\ pc[w] = "process"
  /\ \/ Goto(w, "modin") /\ UNCHANGED slots                \* NO_REQUEST
     \/ Goto(w, "spin") /\ UNCHANGED slots                 \* never returns
     \/ /\ Goto(w, "modout")                               \* an error
        /\ response' = [response EXCEPT ![cur[w]] = "error"]
        /\ UNCHANGED <<m_sockfd, iov0>>
     \/ /\ Goto(w, "modout")                               \* a file
        /\ response' = [response EXCEPT ![cur[w]] = "file"]
        /\ iov0' = [iov0 EXCEPT ![cur[w]] = TRUE]
        /\ UNCHANGED m_sockfd
     \/ /\ Goto(w, "close")                                \* an empty file
        /\ response' = [response EXCEPT ![cur[w]] = "error"]
        /\ UNCHANGED <<m_sockfd, iov0>>
  /\ UNCHANGED <<sockets, backlog, epoll, m_user_count, queue, cur, reg,
                 arrived, history>>

(* Mutant of RearmIn: process returns on NO_REQUEST without modfd.         *)
RearmInNot(w) == pc[w] = "modin" /\ UNCHANGED interest

RearmIn(w) == pc[w] = "modin" /\ Modfd(m_sockfd[cur[w]], "in")

(* The modfd at the end of process, after close_conn as well.              *)
Rearm(w) ==
  /\ \/ RearmIn(w)
     \/ pc[w] = "modout" /\ Modfd(m_sockfd[cur[w]], "out")
  /\ Goto(w, "idle")
  /\ cur' = [cur EXCEPT ![w] = NoFd]
  /\ UNCHANGED <<sockets, backlog, edge, batch, slots, m_user_count, queue,
                 reg, arrived, history>>
-----------------------------------------------------------------------------
HandleEvent(e) ==
  \/ Accept(e) \/ AcceptFails(e)
  \/ Hangup(e) \/ ReadOk(e) \/ ReadFails(e)
  \/ WriteNothing(e) \/ WriteAgain(e) \/ WriteEnds(e) \/ WriteSpins(e)

MainStep ==
  \/ EpollWait \/ BatchDone \/ \E e \in batch : HandleEvent(e)
  \/ Refuse \/ InitSockfd \/ InitAddfd
  \/ CountLoad(Main, "incload", "incstore") \/ InitRest
  \/ CloseConn(Main)

WorkerStep(w) == TakeRequest(w) \/ Process(w) \/ Rearm(w) \/ CloseConn(w)

ClientStep ==
  \/ Connect
  \/ \E f \in Fds : PeerSends(f) \/ PeerLeaves(f) \/ PeerReads(f)

Next == MainStep \/ ClientStep \/ \E w \in Workers : WorkerStep(w)

Spec == Init /\ [][Next]_vars

(* The threads are scheduled; the clients do as they please.               *)
FairSpec ==
  Spec /\ WF_vars(MainStep) /\ \A w \in Workers : WF_vars(WorkerStep(w))
-----------------------------------------------------------------------------
(* Properties                                                              *)

(* Every variable has its type.                                            *)
TypeOK ==
  /\ open \subseteq Fds
  /\ inbox \in [Fds -> BOOLEAN] /\ full \in [Fds -> BOOLEAN]
  /\ peer \in [Fds -> {"up", "fin", "rst"}]
  /\ interest \in [Fds -> {"none", "fired", "in", "out"}]
  /\ {backlog, missed, arrived} \subseteq 0..MaxConns
  /\ {edge, lost, clash} \subseteq BOOLEAN
  /\ batch \subseteq [fd : Fds \cup {Listen},
                      ev : {"accept", "hup", "in", "out"}]
  /\ m_sockfd \in [Fds -> Fds \cup {NoFd}]
  /\ response \in [Fds -> {"none", "file", "error"}]
  /\ iov0 \in [Fds -> BOOLEAN]
  /\ m_user_count \in Int
  /\ queue \in Seq(Fds)
  /\ pc \in [Threads -> {"wait", "next", "check", "add", "incload",
                         "incstore", "close", "unset", "decload", "decstore",
                         "spin", "idle", "process", "modin", "modout"}]
  /\ cur \in [Threads -> Fds \cup {NoFd}]
  /\ reg \in [Threads -> Int]
  /\ dropped \in [Fds -> BOOLEAN] /\ reused \in [Fds -> BOOLEAN]

(* Holders of a slot on the workers' side: places in the queue, workers.   *)
Held(f) ==
  Cardinality({i \in 1..Len(queue) : queue[i] = f})
    + Cardinality({w \in Workers : pc[w] # "idle" /\ cur[w] = f})

(* The main thread has the slot or will get its next event.                *)
MainHas(f) ==
  \/ interest[f] \in {"in", "out"}
  \/ \E e \in batch : e.fd = f
  \/ cur[Main] = f /\ pc[Main] \in {"check", "add", "close", "spin"}

(* EPOLLONESHOT works as a lock: a connection belongs to the main thread   *)
(* (armed, reported or in its hands) or to one worker (queued or in its    *)
(* hands), never to both or to two workers, and is lost to both only when  *)
(* append refused it.  Exempt is a socket whose descriptor was given out   *)
(* while a worker had yet to finish process() for the one before, and what *)
(* follows once such a worker has closed that socket.                      *)
OneOwner ==
  ~clash => \A f \in open : ~reused[f] =>
    \/ Held(f) = 1 /\ ~MainHas(f) /\ ~dropped[f]
    \/ Held(f) = 0 /\ MainHas(f) /\ ~dropped[f]
    \/ Held(f) = 0 /\ ~MainHas(f) /\ dropped[f]

(* A slot knows its socket: m_sockfd is the descriptor as long as it is    *)
(* open and -1 when it is not, except while accept or close_conn is at it  *)
(* and, again, except after a descriptor was given out too early.          *)
SlotMatchesSocket ==
  /\ TypeOK
  /\ ~clash => \A f \in Fds :
       IF f \in open
       THEN reused[f] \/ m_sockfd[f] = f
              \/ (pc[Main] = "check" /\ cur[Main] = f)
       ELSE m_sockfd[f] = NoFd
              \/ \E t \in Threads : pc[t] = "unset" /\ cur[t] = f

(* Connections main has accepted and not counted yet, and closed ones that *)
(* are still counted.                                                      *)
Uncounted ==
  IF pc[Main] \in {"check", "add", "incload", "incstore"} THEN 1 ELSE 0
Counted ==
  Cardinality({t \in Threads : pc[t] \in {"unset", "decload", "decstore"}})

(* m_user_count is the number of connections, unless an update was lost    *)
(* or close_conn closed a socket that was not its own.                     *)
CountExact ==
  ~lost /\ ~clash => m_user_count = Cardinality(open) - Uncounted + Counted

(* What can keep the server from a connection's bytes for good.            *)
Stuck(f) ==
  \/ pc[Main] = "spin"
  \/ \A w \in Workers : pc[w] = "spin"
  \/ \E w \in Workers : pc[w] = "spin" /\ cur[w] = f
  \/ dropped[f] \/ reused[f] \/ full[f]

(* Bytes a client sent are received or the connection is closed, unless    *)
(* main or the workers spin, append refused the connection, its descriptor *)
(* was given out too early, or the client does not read the answer.        *)
BytesAreReceived ==
  \A f \in Fds : inbox[f] ~> (~inbox[f] \/ Stuck(f))

(* Connections that completed are accepted, whatever else is reported in   *)
(* the same batch or comes while main is busy: all but those that shared   *)
(* an edge of listenfd with another or found no descriptor left, for which *)
(* nothing is to come, and unless main never returns from write().         *)
BacklogIsAccepted ==
  backlog > missed ~> (backlog <= missed \/ pc[Main] = "spin")
=============================================================================
