----------------------------- MODULE ProcessPool ----------------------------
(***************************************************************************)
(* The process pool of process_pool/process_pool.h with the connections of *)
(* process_pool.cc.  The parent watches the listening socket and tells one *)
(* child after the other, by an int in a socketpair, to accept; signals    *)
(* reach the loops as bytes in a socketpair of each process.  Everything   *)
(* in epoll is edge-triggered: what becomes ready is reported once.        *)
(*                                                                         *)
(* The connections are numbered in the order in which they complete, so    *)
(* the listen queue is accepted + 1 .. arrived.                            *)
(***************************************************************************)
EXTENDS Integers, FiniteSets, FiniteSetsExt

CONSTANTS
  N,          (* m_process_number: the children are 0..N-1                 *)
  PipeRoom,   (* ints a socketpair holds                                   *)
  LowWater,   (* ints it may hold when the kernel wakes who waits to send  *)
  MaxConns,   (* bound: the connections the clients ever open              *)
  Talking     (* bound: those whose client does anything more              *)

ASSUME PoolAssumption ==
  /\ {N, PipeRoom, MaxConns} \subseteq Nat \ {0}
  /\ LowWater \in 0..PipeRoom - 1 /\ Talking \subseteq 1..MaxConns

Children == 0..N - 1
Parent   == N
Procs    == 0..N
Conns    == 1..MaxConns

(* Event sources: a connection is its number, the others are               *)
Sig    == 0                   (* sig_pipefd[0]                             *)
Pipe   == -1                  (* pipefd, in a child                        *)
Listen == -2                  (* m_listenfd, in the parent                 *)

VARIABLES
  pc,                  (* "setup" (handlers not installed), "wait", "loop" *)
                       (* (over the events), "accept", "send" or "blocked" *)
                       (* (in it, for room), "exited", "killed"            *)
  m_stop, ready, batch,  (* per process: ready has become ready since it   *)
                       (* was last reported, batch is reported and not     *)
                       (* looked at                                        *)
  signals,             (* per process: what its handler wrote              *)
  m_pid,               (* per child: the parent's m_pid is not -1          *)
  notes,               (* per child: ints in its socketpair                *)
  sub_process_counter,
  arrived, accepted,   (* connections so far                               *)
  open,                (* per child: its connections                       *)
  left,                (* connections whose client has shut down its side  *)
  missed,              (* history: connections no event or int stands for, *)
                       (* those whose accept failed among them             *)
  unheard              (* history: children that ended before the parent   *)
                       (* had a handler for SIGCHLD                        *)

events  == <<ready, batch, signals>>
clients == <<arrived, accepted, open, left>>
vars    == <<pc, m_stop, events, m_pid, notes, sub_process_counter, clients,
             missed, unheard>>

Init ==
  /\ pc = [p \in Procs |-> "setup"]
  /\ m_stop = [p \in Procs |-> FALSE]
  /\ ready = [p \in Procs |-> {}] /\ batch = [p \in Procs |-> {}]
  /\ signals = [p \in Procs |-> {}]
  /\ m_pid = [c \in Children |-> TRUE]
  /\ notes = [c \in Children |-> 0]
  /\ sub_process_counter = 0
  /\ arrived = 0 /\ accepted = 0
  /\ open = [c \in Children |-> {}]
  /\ left = {}
  /\ missed = 0 /\ unheard = {}

Alive(p)    == pc[p] \notin {"exited", "killed"}
Serving(p)  == Alive(p) /\ pc[p] # "setup"
Goto(p, l)  == pc' = [pc EXCEPT ![p] = l]
One(p)      == IF p THEN 1 ELSE 0
Comes(p, e) == ready' = [ready EXCEPT ![p] = @ \cup {e}]
-----------------------------------------------------------------------------
(* The clients.                                                            *)

Connect ==
  /\ arrived < MaxConns
  /\ arrived' = arrived + 1
  /\ IF Serving(Parent)
     THEN /\ Comes(Parent, Listen)
          /\ missed' = missed + One(Listen \in ready[Parent])
     ELSE UNCHANGED <<ready, missed>>
  /\ UNCHANGED <<pc, m_stop, batch, signals, m_pid, notes,
                 sub_process_counter, accepted, open, left, unheard>>

(* What happens to a connection is an edge for the child that has it.      *)
Stirs(k) ==
  ready' = [p \in Procs |-> IF p # Parent /\ k \in open[p]
                            THEN ready[p] \cup {k} ELSE ready[p]]

ClientSends(k) ==
  /\ k \notin left
  /\ \E c \in Children : k \in open[c]
  /\ Stirs(k)
  /\ UNCHANGED <<pc, m_stop, batch, signals, m_pid, notes, clients,
                 sub_process_counter, missed, unheard>>

ClientLeaves(k) ==
  /\ k <= arrived /\ k \notin left
  /\ left' = left \cup {k}
  /\ Stirs(k)
  /\ UNCHANGED <<pc, m_stop, batch, signals, m_pid, notes, arrived, accepted,
                 open, sub_process_counter, missed, unheard>>
-----------------------------------------------------------------------------
(* Signals and the end of a process.                                       *)

(* What the children in cs have been told to accept: the ints in the       *)
(* socketpair of c are <<c, 1>>, <<c, 2>> ..., the one c has read and is   *)
(* about to accept for is <<c, 0>>.                                        *)
Notes(cs) == {n \in cs \X (0..PipeRoom) :
                IF n[2] = 0 THEN pc[n[1]] = "accept" ELSE n[2] <= notes[n[1]]}

Told(cs) == Cardinality(Notes(cs))

(* A child's socketpair is closed behind it when the parent has ended and  *)
(* the children forked after it, which inherited the parent's end, have.   *)
Closed(c, ps) == \A p \in Procs : p > c => p \in ps \/ ~Alive(p)

(* The child run_parent has sent to last or is about to send to.           *)
Target == (sub_process_counter + N - 1) % N

(* The processes in ps end as l says.  The kernel closes their sockets,    *)
(* what is in them is lost, and the parent gets SIGCHLD, without effect as *)
(* long as it has no handler.  told are processes that get SIGTERM, done   *)
(* is what the parent has handled of its batch.  A signal takes the parent *)
(* out of a send that waits, and SA_RESTART makes it call send once more,  *)
(* unless the end of the child it was for has taken it out before.         *)
End(ps, l, told, done) ==
  LET gone     == ps \ {Parent}
      hup(p)   == p # Parent /\ Closed(p, ps) /\ ~Closed(p, {})
      bytes(p) == (IF p \in told THEN {"TERM"} ELSE {}) \cup
                  (IF p = Parent /\ gone # {} /\ Serving(p)
                   THEN {"CHLD"} ELSE {})
      kept(p)  == IF p = Parent /\ done # {} THEN {} ELSE signals[p]
      retry(p) == /\ p = Parent /\ pc[p] = "blocked"
                  /\ bytes(p) # {} /\ Target \notin ps
  IN  /\ pc' = [p \in Procs |-> IF p \in ps THEN l
                                ELSE IF retry(p) THEN "send" ELSE pc[p]]
      /\ signals' = [p \in Procs |-> IF p \in ps THEN {}
                                      ELSE kept(p) \cup bytes(p)]
      /\ ready' = [p \in Procs |->
           IF p \in ps THEN {}
           ELSE ready[p] \cup (IF bytes(p) # {} THEN {Sig} ELSE {})
                         \cup (IF hup(p) THEN {Pipe} ELSE {})]
      /\ batch' = [p \in Procs |-> IF p \in ps THEN {} ELSE batch[p] \
                                     (IF p = Parent THEN done ELSE {})]
      /\ notes' = [c \in Children |-> IF c \in gone THEN 0 ELSE notes[c]]
      /\ open' = [c \in Children |-> IF c \in gone THEN {} ELSE open[c]]
      /\ missed' = missed + Told(gone)
      /\ unheard' = IF pc[Parent] = "setup" THEN unheard \cup gone
                                            ELSE unheard
      /\ UNCHANGED <<sub_process_counter, arrived, accepted, left>>

(* kill(p, SIGTERM) for the processes in ps: it ends those that have no    *)
(* handler yet.                                                            *)
Kill(ps, done) ==
  LET fresh == {p \in ps : pc[p] = "setup"}
  IN  End(fresh, "killed", {p \in ps \ fresh : Alive(p)}, done)

Terminate ==
  /\ Alive(Parent) /\ "TERM" \notin signals[Parent]
  /\ Kill({Parent}, {})
  /\ UNCHANGED <<m_stop, m_pid>>

Crash(c) ==
  /\ Alive(c)
  /\ End({c}, "killed", {}, {})
  /\ UNCHANGED <<m_stop, m_pid>>
-----------------------------------------------------------------------------
(* The loops of run_parent and run_child.                                  *)

(* setup_sig_pipe and addfd: what is ready already is reported too.        *)
ReadyAtSetup(p) ==
  IF p = Parent THEN IF accepted < arrived THEN {Listen} ELSE {}
                ELSE IF notes[p] > 0 \/ Closed(p, {}) THEN {Pipe} ELSE {}

Setup(p) ==
  /\ pc[p] = "setup"
  /\ Goto(p, "wait")
  /\ ready' = [ready EXCEPT ![p] = ReadyAtSetup(p)]
  /\ missed' = missed + (IF p = Parent
                         THEN arrived - accepted
                                - Cardinality(ReadyAtSetup(p)) ELSE 0)
  /\ UNCHANGED <<m_stop, batch, signals, m_pid, notes, clients,
                 sub_process_counter, unheard>>

EpollWait(p) ==
  /\ pc[p] = "wait" /\ ready[p] # {}
  /\ batch' = [batch EXCEPT ![p] = ready[p]]
  /\ ready' = [ready EXCEPT ![p] = {}]
  /\ Goto(p, "loop")
  /\ UNCHANGED <<m_stop, signals, m_pid, notes, clients,
                 sub_process_counter, missed, unheard>>

(* The end of a pass over the events; the process ends if m_stop is set.   *)
BatchDone(p) ==
  /\ pc[p] = "loop" /\ batch[p] = {}
  /\ \/ m_stop[p] /\ End({p}, "exited", {}, {})
     \/ /\ ~m_stop[p] /\ Goto(p, "wait")
        /\ UNCHANGED <<events, notes, sub_process_counter, clients, missed,
                       unheard>>
  /\ UNCHANGED <<m_stop, m_pid>>

(* Mutant of Take: leaving the loop instead of going on to the next event, *)
(* the process looks at one event of what epoll_wait returned.             *)
TakeOne(p, e) ==
  /\ pc[p] = "loop" /\ e \in batch[p]
  /\ batch' = [batch EXCEPT ![p] = {}]

Take(p, e) ==
  /\ pc[p] = "loop" /\ e \in batch[p]
  /\ batch' = [batch EXCEPT ![p] = @ \ {e}]
-----------------------------------------------------------------------------
(* run_parent                                                              *)

(* The child whose turn it is: the first from sub_process_counter on that  *)
(* has an m_pid.                                                           *)
Known == {c \in Children : m_pid[c]}
Turn  == LET ahead(c) == (c - sub_process_counter + N) % N
         IN  CHOOSE c \in Known : \A d \in Known : ahead(c) <= ahead(d)

(* The loop over the children, which looks at nothing but m_pid.           *)
Dispatch ==
  /\ Take(Parent, Listen)
  /\ Known # {}
  /\ sub_process_counter' = (Turn + 1) % N
  /\ Goto(Parent, "send")
  /\ UNCHANGED <<m_stop, ready, signals, m_pid, notes, clients, missed,
                 unheard>>

Send ==
  /\ pc[Parent] = "send"
  /\ Alive(Target) /\ notes[Target] < PipeRoom
  /\ notes' = [notes EXCEPT ![Target] = @ + 1]
  /\ IF pc[Target] # "setup" THEN Comes(Target, Pipe) ELSE UNCHANGED ready
  /\ Goto(Parent, "loop")
  /\ UNCHANGED <<m_stop, batch, signals, m_pid, sub_process_counter, clients,
                 missed, unheard>>

InSend ==
  UNCHANGED <<m_stop, events, m_pid, notes, sub_process_counter, clients,
              unheard>>

(* The parent's end is blocking: send waits for room ...                   *)
SendWaits ==
  /\ pc[Parent] = "send"
  /\ Alive(Target) /\ notes[Target] = PipeRoom
  /\ Goto(Parent, "blocked")
  /\ UNCHANGED missed /\ InSend

(* ... until the child has read all but LowWater (on Linux, until no more  *)
(* than a quarter of the buffer is in use).                                *)
SendWoken ==
  /\ pc[Parent] = "blocked"
  /\ Alive(Target) /\ notes[Target] <= LowWater
  /\ Goto(Parent, "send")
  /\ UNCHANGED missed /\ InSend

(* send to a child that has ended: SIGPIPE, for which there is no handler. *)
SendToEnded ==
  /\ pc[Parent] \in {"send", "blocked"} /\ ~Alive(Target)
  /\ End({Parent}, "killed", {}, {})
  /\ UNCHANGED <<m_stop, m_pid>>

(* A send that was waiting when the child ended may also fail with EPIPE   *)
(* alone, as on Linux, and run_parent does not look at the result.         *)
SendFails ==
  /\ pc[Parent] = "blocked" /\ ~Alive(Target)
  /\ Goto(Parent, "loop")
  /\ missed' = missed + 1
  /\ InSend

(* No child is left: m_stop, and break, which drops the rest of the batch. *)
DispatchToNone ==
  /\ pc[Parent] = "loop" /\ Listen \in batch[Parent]
  /\ Known = {}
  /\ m_stop' = [m_stop EXCEPT ![Parent] = TRUE]
  /\ batch' = [batch EXCEPT ![Parent] = {}]
  /\ missed' = missed + 1
  /\ UNCHANGED <<pc, ready, signals, m_pid, notes, clients,
                 sub_process_counter, unheard>>

(* Mutant of Reaped: one call of waitpid for one signal.                   *)
ReapedOne ==
  LET ended == {c \in Known : ~Alive(c)}
  IN  IF ended = {} THEN {} ELSE {CHOOSE c \in ended : TRUE}

(* The children the loop over waitpid finds.                               *)
Reaped == {c \in Known : ~Alive(c)}

(* Mutant of NoneLeft: any child that ends stops the pool.                 *)
NoneLeftNow == Reaped # {}

NoneLeft == Known \subseteq Reaped

(* One recv takes the bytes of the handler that are there, none if an      *)
(* earlier one took them.  SIGCHLD waits for the children that have ended, *)
(* SIGTERM is passed on to the others.                                     *)
ParentSignals ==
  /\ pc[Parent] = "loop" /\ Sig \in batch[Parent]
  /\ Kill(IF "TERM" \in signals[Parent] THEN Known ELSE {}, {Sig})
  /\ IF "CHLD" \in signals[Parent]
     THEN /\ m_pid' = [c \in Children |-> m_pid[c] /\ c \notin Reaped]
          /\ m_stop' = [m_stop EXCEPT ![Parent] = NoneLeft]
     ELSE UNCHANGED <<m_pid, m_stop>>
-----------------------------------------------------------------------------
(* run_child and cgi_conn                                                  *)

(* Mutant of NotesLeft: recv takes all there is.                           *)
NotesLeftNone(c) == 0

(* recv takes one int, of however many one event stands for.               *)
NotesLeft(c) == notes[c] - 1

(* recv returns 0 at the end of a closed socketpair, which is passed over; *)
(* EAGAIN is not, and accept is called as if there had been an int.        *)
ChildNote(c) ==
  /\ Take(c, Pipe)
  /\ IF notes[c] = 0 /\ Closed(c, {}) THEN UNCHANGED <<pc, notes>>
     ELSE /\ notes' = IF notes[c] = 0 THEN notes
                      ELSE [notes EXCEPT ![c] = NotesLeft(c)]
          /\ Goto(c, "accept")
  /\ UNCHANGED <<m_stop, ready, signals, m_pid, clients,
                 sub_process_counter, missed, unheard>>

(* accept, addfd and init.                                                 *)
ChildAccept(c) ==
  /\ pc[c] = "accept" /\ accepted < arrived
  /\ Goto(c, "loop")
  /\ LET k == accepted + 1
     IN  /\ accepted' = k
         /\ open' = [open EXCEPT ![c] = @ \cup {k}]
         /\ ready' = [ready EXCEPT ![c] = @ \cup ({k} \cap left)]
  /\ UNCHANGED <<m_stop, batch, signals, m_pid, notes, arrived, left,
                 sub_process_counter, missed, unheard>>

(* accept fails, for an empty queue or for want of descriptors or memory:  *)
(* the child goes on, and has spent the int.                               *)
AcceptFails(c) ==
  /\ pc[c] = "accept"
  /\ Goto(c, "loop")
  /\ missed' = missed + One(accepted < arrived)
  /\ UNCHANGED <<m_stop, events, m_pid, notes, clients, sub_process_counter,
                 unheard>>

ChildSignals(c) ==
  /\ Take(c, Sig)
  /\ m_stop' = [m_stop EXCEPT ![c] = @ \/ "TERM" \in signals[c]]
  /\ signals' = [signals EXCEPT ![c] = {}]
  /\ UNCHANGED <<pc, ready, m_pid, notes, clients, sub_process_counter,
                 missed, unheard>>

(* cgi_conn::process reads until nothing is left (EAGAIN) and closes the   *)
(* connection when the client has left.  What it reads fits m_buf: the `;' *)
(* behind its for makes idx == m_read_idx true after every recv, so that   *)
(* the rest of the loop, which runs the file the client named, is reached  *)
(* only when more than BUFFER_SZIE bytes have overwritten m_read_idx.      *)
Process(c, k) ==
  /\ Take(c, k)
  /\ open' = [open EXCEPT ![c] = @ \ (left \cap {k})]
  /\ UNCHANGED <<pc, m_stop, ready, signals, m_pid, notes, arrived, accepted,
                 left, sub_process_counter, missed, unheard>>
-----------------------------------------------------------------------------
Loop(p) == Setup(p) \/ EpollWait(p) \/ BatchDone(p)

ParentStep ==
  \/ Loop(Parent) \/ ParentSignals
  \/ Dispatch \/ DispatchToNone
  \/ Send \/ SendWaits \/ SendWoken \/ SendToEnded \/ SendFails

ChildStep(c) ==
  \/ Loop(c) \/ ChildNote(c) \/ ChildAccept(c) \/ AcceptFails(c)
  \/ ChildSignals(c) \/ \E k \in Conns : Process(c, k)

ClientStep ==
  Connect \/ \E k \in Talking : ClientSends(k) \/ ClientLeaves(k)

Failure == Terminate \/ \E c \in Children : Crash(c)

Next ==
  ParentStep \/ (\E c \in Children : ChildStep(c)) \/ ClientStep \/ Failure

Spec == Init /\ [][Next]_vars

(* Every process is scheduled; clients, crashes and signals come or not.   *)
FairSpec ==
  Spec /\ WF_vars(ParentStep) /\ \A c \in Children : WF_vars(ChildStep(c))
-----------------------------------------------------------------------------
(* Properties                                                              *)

(* Every variable has its type.                                            *)
TypeOK ==
  /\ pc \in [Procs -> {"setup", "wait", "loop", "accept", "send", "blocked",
                       "exited", "killed"}]
  /\ m_stop \in [Procs -> BOOLEAN] /\ m_pid \in [Children -> BOOLEAN]
  /\ {ready, batch} \subseteq
       [Procs -> SUBSET (Conns \cup {Sig, Pipe, Listen})]
  /\ signals \in [Procs -> SUBSET {"TERM", "CHLD"}]
  /\ notes \in [Children -> 0..PipeRoom]
  /\ sub_process_counter \in Children
  /\ arrived \in 0..MaxConns /\ accepted \in 0..arrived
  /\ open \in [Children -> SUBSET Conns] /\ left \subseteq Conns
  /\ missed \in Nat /\ unheard \subseteq Children

Pending(p) == ready[p] \cup batch[p]
Backlog    == arrived - accepted
Sending    == {"send", "blocked"}

(* The parent waits in send for a child that has too much in its           *)
(* socketpair for the kernel and no event of it any more: it reads one int *)
(* per event, and only another int, which nobody sends, is one.            *)
Jammed ==
  /\ pc[Parent] = "blocked" /\ Serving(Target)
  /\ notes[Target] > LowWater /\ Pipe \notin Pending(Target)

(* Every connection in the listen queue is accounted for: an event of the  *)
(* parent, its send, an int on its way to a child or a child about to      *)
(* accept stands for it, or it is one of those that shared an edge, were   *)
(* there before the parent looked, whose int was lost with a child, or     *)
(* whose accept failed.                                                    *)
BacklogCounted ==
  /\ TypeOK
  /\ Serving(Parent) =>
       Backlog = missed + One(Listen \in ready[Parent])
         + One(Listen \in batch[Parent]) + One(pc[Parent] \in Sending)
         + Told(Children)

(* A child never overlooks a full socketpair: it has yet to look at an     *)
(* event of it and will read one int at least.  (Whether the parent, whose *)
(* send waits for room, goes on then is for the kernel: see Jammed.)       *)
FullPipeIsRead ==
  \A c \in Children :
    notes[c] = PipeRoom /\ Serving(c) => Pipe \in Pending(c)

(* A child the parent has struck off has ended, and the parent, leaving by *)
(* itself, leaves no child behind.                                         *)
StopsLast ==
  /\ \A c \in Children : m_pid[c] \/ ~Alive(c)
  /\ pc[Parent] = "exited" => Known = {}

(* SIGTERM at the parent ends all: its handler's byte leads to the end of  *)
(* every child and of the parent itself, unless every child had ended      *)
(* before the parent had a handler for SIGCHLD (then it waits for a signal *)
(* that has come already) or the parent, called to send before it looks at *)
(* the byte, stays there for good.  A parent that is killed leaves its     *)
(* children.                                                               *)
AllTerminate ==
  "TERM" \in signals[Parent] ~>
    \/ pc[Parent] = "exited" \/ pc[Parent] = "killed"
    \/ unheard = Children \/ []Jammed

(* Ints a child leaves in its socketpair when one event stood for several. *)
Overlooked ==
  MapThenSumSet(LAMBDA c : IF Pipe \in Pending(c) THEN 0 ELSE notes[c],
                Children)

(* The listen queue is emptied but for as many connections as were missed  *)
(* (accepts that failed included) or are still overlooked by a child,      *)
(* unless the parent is jammed in send.                                    *)
ConnectionsAreAccepted ==
  []<>(~Alive(Parent) \/ Jammed \/ Backlog <= missed + Overlooked)
=============================================================================
