--------------------------- MODULE InactiveTimer ----------------------------
(***************************************************************************)
(* The server of timer/inactive_timer.cc, which closes a connection that   *)
(* was silent for 3*DEFAULT_TIME seconds: one thread, an edge-triggered    *)
(* epoll, a heap of timers (module TimeHeap) and SIGALRM, whose handler    *)
(* writes to a socketpair that epoll watches as well.                      *)
(*                                                                         *)
(* Everything but the clock, the clients and the alarm happens in the main *)
(* loop; the clock may advance between any two of its steps.               *)
(***************************************************************************)
EXTENDS TimeHeap, FiniteSets

CONSTANTS
  NumFds,     (* descriptors a client socket can get: 1..NumFds            *)
  Idle,       (* 3*DEFAULT_TIME                                            *)
  MaxTime     (* bound: how far the clock goes                             *)

Fds    == 1..NumFds
Listen == 0
Pipe   == -1
NoTimer == "none"
NoAlarm == -1

ASSUME InactiveAssumption ==
  /\ {NumFds, Idle, MaxTime} \subseteq Nat \ {0}
  /\ Times = 0..MaxTime + Idle

VARIABLES
  now,         (* time(NULL)                                               *)
  alarm_at,    (* when SIGALRM comes, or NoAlarm                           *)
  signals,     (* the signals whose bytes are in the pipe                  *)
  open,        (* descriptors of client sockets                            *)
  waiting,     (* connections that were not accepted                       *)
  inbox,       (* per socket: there is data that was not received          *)
  fin,         (* per socket: the client is done                           *)
  edge,        (* the descriptors epoll will report                        *)
  batch,       (* what epoll_wait returned and the loop has not looked at  *)
  timer,       (* users[fd].timer                                          *)
  user_data,   (* of each timer                                            *)
  timeout,
  stop_server,
  pc,          (* "wait", "batch", "tick", "pop", "read" (about to call    *)
               (* time() in timer_handler), "alarm" or "stopped"           *)
  cur,         (* the local variable of tick                               *)
  timeslot,    (* the local variable of timer_handler                      *)
  heard,       (* history, per socket: when its last event was handled     *)
  crossed,     (* history: at the last timer_handler the clock advanced    *)
               (* between the time() of tick and that of timer_handler     *)
  slack        (* history: seconds the clock advanced between the time()   *)
               (* of the last timer_handler and its alarm()                *)

clients == <<waiting, inbox, fin>>
locals  == <<cur, timeslot>>
loop    == <<batch, timeout, stop_server, pc, locals>>
conns   == <<open, timer, user_data, heard>>
history == <<crossed, slack>>
vars    == <<heapVars, now, alarm_at, signals, clients, edge, loop, conns,
             history>>

(* main installs the handler and calls alarm(TIMESLOT) before its loop.    *)
Init ==
  /\ HeapEmpty
  /\ now = 0 /\ alarm_at = 1 /\ signals = {}
  /\ open = {} /\ waiting = 0
  /\ inbox = [f \in Fds |-> FALSE] /\ fin = [f \in Fds |-> FALSE]
  /\ edge = {} /\ batch = {}
  /\ timer = [f \in Fds |-> NoTimer]
  /\ user_data = [t \in Timers |-> 1]
  /\ timeout = FALSE /\ stop_server = FALSE /\ pc = "wait" /\ cur = 0
  /\ timeslot = 0
  /\ heard = [f \in Fds |-> 0] /\ crossed = FALSE /\ slack = 0
-----------------------------------------------------------------------------
(* The world.                                                              *)

ClockTicks ==
  /\ now < MaxTime
  /\ now' = now + 1
  /\ slack' = IF pc = "alarm" THEN slack + 1 ELSE slack
  /\ UNCHANGED <<heapVars, alarm_at, signals, clients, edge, loop, conns,
                 crossed>>

(* sig_handler.                                                            *)
Handle(sig) ==
  /\ signals' = signals \cup {sig}
  /\ edge' = edge \cup {Pipe}

Alarm ==
  /\ alarm_at # NoAlarm /\ now >= alarm_at
  /\ alarm_at' = NoAlarm
  /\ Handle("SIGALRM")
  /\ UNCHANGED <<heapVars, now, clients, loop, conns, history>>

Terminate ==
  /\ "SIGTERM" \notin signals /\ ~stop_server      \* bound: one SIGTERM
  /\ Handle("SIGTERM")
  /\ UNCHANGED <<heapVars, now, alarm_at, clients, loop, conns, history>>

Connect ==
  /\ waiting + Cardinality(open) < NumFds
  /\ waiting < Cardinality(Timers \ InHeap)    \* bound: objects for timers
  /\ waiting' = waiting + 1
  /\ edge' = edge \cup {Listen}
  /\ UNCHANGED <<heapVars, now, alarm_at, signals, inbox, fin, loop, conns,
                 history>>

ClientSends(f) ==
  /\ f \in open /\ ~fin[f]
  /\ inbox' = [inbox EXCEPT ![f] = TRUE]
  /\ edge' = edge \cup {f}
  /\ UNCHANGED <<heapVars, now, alarm_at, signals, waiting, fin, loop, conns,
                 history>>

(* The client is done, or resets the connection: what was not received is  *)
(* gone then, and recv fails in place of returning 0.                      *)
ClientLeaves(f) ==
  /\ f \in open /\ ~fin[f]
  /\ fin' = [fin EXCEPT ![f] = TRUE]
  /\ inbox' = inbox \/ inbox' = [inbox EXCEPT ![f] = FALSE]
  /\ edge' = edge \cup {f}
  /\ UNCHANGED <<heapVars, now, alarm_at, signals, waiting, loop, conns,
                 history>>
-----------------------------------------------------------------------------
(* The main loop.                                                          *)

EpollWait ==
  /\ pc = "wait" /\ edge # {}
  /\ batch' = edge
  /\ edge' = {}
  /\ pc' = "batch"
  /\ UNCHANGED <<heapVars, now, alarm_at, signals, clients, timeout,
                 stop_server, locals, conns, history>>

(* One accept for each report of listenfd, and a new timer.                *)
Accept ==
  /\ pc = "batch" /\ Listen \in batch
  /\ batch' = batch \ {Listen}
  /\ LET f == CHOOSE g \in Fds \ open : \A h \in Fds \ open : g <= h
     IN  \E t \in Timers \ InHeap :
           /\ AddTimer(t, now + Idle)
           /\ user_data' = [user_data EXCEPT ![t] = f]
           /\ timer' = [timer EXCEPT ![f] = t]
           /\ open' = open \cup {f}
           /\ heard' = [heard EXCEPT ![f] = now]
  /\ waiting' = waiting - 1
  /\ UNCHANGED <<now, alarm_at, signals, inbox, fin, edge, timeout,
                 stop_server, pc, locals, history>>

(* Everything in the pipe is received.                                     *)
Signals ==
  /\ pc = "batch" /\ Pipe \in batch
  /\ batch' = batch \ {Pipe}
  /\ timeout' = (timeout \/ "SIGALRM" \in signals)
  /\ stop_server' = (stop_server \/ "SIGTERM" \in signals)
  /\ signals' = {}
  /\ UNCHANGED <<heapVars, now, alarm_at, clients, edge, pc, locals, conns,
                 history>>

(* One recv of at most 63 bytes; what is left waits for the next report.   *)
Receive(f) ==
  /\ pc = "batch" /\ f \in batch
  /\ inbox[f]
  /\ batch' = batch \ {f}
  /\ inbox' \in {inbox, [inbox EXCEPT ![f] = FALSE]}
  /\ heard' = [heard EXCEPT ![f] = now]
  /\ AdjustTimer(timer[f], now + Idle)
  /\ UNCHANGED <<now, alarm_at, signals, waiting, fin, edge, timeout,
                 stop_server, pc, locals, open, timer, user_data,
                 history>>

(* close, which also takes the socket out of epoll (the epoll_ctl of       *)
(* cb_func is on the wrong descriptor and fails).                          *)
Close(f) ==
  /\ open' = open \ {f}
  /\ inbox' = [inbox EXCEPT ![f] = FALSE]
  /\ fin' = [fin EXCEPT ![f] = FALSE]
  /\ edge' = edge \ {f}
  /\ heard' = [heard EXCEPT ![f] = 0]

(* Mutant of ReceiveEnd: the timer of the closed connection goes on.       *)
ReceiveEndKeepsTimer(f) ==
  /\ pc = "batch" /\ f \in batch
  /\ ~inbox[f] /\ fin[f]
  /\ batch' = batch \ {f}
  /\ Close(f)
  /\ UNCHANGED <<heapVars, now, alarm_at, signals, waiting, timeout,
                 stop_server, pc, locals, timer, user_data, history>>

(* recv returns 0 or fails: cb_func and del_timer.                         *)
ReceiveEnd(f) ==
  /\ pc = "batch" /\ f \in batch
  /\ ~inbox[f] /\ fin[f]
  /\ batch' = batch \ {f}
  /\ Close(f)
  /\ DelTimer(timer[f])
  /\ UNCHANGED <<now, alarm_at, signals, waiting, timeout, stop_server, pc,
                 locals, timer, user_data, history>>

(* A report for data an earlier report's recv took with it (EAGAIN).       *)
ReceiveNothing(f) ==
  /\ pc = "batch" /\ f \in batch
  /\ ~inbox[f] /\ ~fin[f]
  /\ batch' = batch \ {f}
  /\ UNCHANGED <<heapVars, now, alarm_at, signals, clients, edge, timeout,
                 stop_server, pc, locals, conns, history>>

NextTurn == IF stop_server THEN "stopped" ELSE "wait"

BatchDone ==
  /\ pc = "batch" /\ batch = {}
  /\ pc' = IF timeout THEN "tick" ELSE NextTurn
  /\ UNCHANGED <<heapVars, now, alarm_at, signals, clients, edge, batch,
                 timeout, stop_server, locals, conns, history>>
-----------------------------------------------------------------------------
(* timer_handler: tick, then alarm.                                        *)

TickStart ==
  /\ pc = "tick"
  /\ cur' = now
  /\ pc' = "pop"
  /\ UNCHANGED <<heapVars, now, alarm_at, signals, clients, edge, batch,
                 timeout, stop_server, timeslot, conns, history>>

(* Mutant of Due: a second too early.                                      *)
DueEarly == cur_size > 0 /\ expire[Top] <= cur + 1

Due == cur_size > 0 /\ expire[Top] <= cur

(* Mutant of TickPop: the timer goes, its callback is not called.          *)
TickPopSilent ==
  /\ pc = "pop" /\ Due
  /\ PopTimer
  /\ UNCHANGED <<now, alarm_at, signals, clients, edge, loop, conns,
                 history>>

(* One turn of the loop: cb_func, unless it was deleted, and pop_timer.    *)
TickPop ==
  /\ pc = "pop" /\ Due
  /\ IF cb_func[Top]
     THEN Close(user_data[Top])
     ELSE UNCHANGED <<open, inbox, fin, edge, heard>>
  /\ PopTimer
  /\ user_data' = [user_data EXCEPT ![Top] = 1]
  /\ UNCHANGED <<now, alarm_at, signals, waiting, loop, timer, history>>

TickEnd ==
  /\ pc = "pop" /\ ~Due
  /\ pc' = "read"
  /\ UNCHANGED <<heapVars, now, alarm_at, signals, clients, edge, batch,
                 timeout, stop_server, locals, conns, history>>

(* Mutant of Timeslot: nothing to do, no alarm.                            *)
TimeslotIfAny == IF cur_size = 0 THEN 0 ELSE expire[Top] - now

Timeslot == IF cur_size = 0 THEN 1 ELSE expire[Top] - now

ReadTimeslot ==
  /\ pc = "read"
  /\ timeslot' = Timeslot
  /\ crossed' = (cur_size > 0 /\ now # cur) /\ slack' = 0
  /\ pc' = "alarm" /\ cur' = 0
  /\ UNCHANGED <<heapVars, now, alarm_at, signals, clients, edge, batch,
                 timeout, stop_server, conns>>

(* Mutant of AlarmIn: one second more.                                     *)
AlarmInLate(seconds) ==
  alarm_at' = IF seconds > 0 THEN now + seconds + 1 ELSE NoAlarm

(* alarm(0) and alarm of a negative number (a huge unsigned one) leave no  *)
(* alarm that anybody will see.                                            *)
AlarmIn(seconds) ==
  alarm_at' = IF seconds > 0 THEN now + seconds ELSE NoAlarm

SetAlarm ==
  /\ pc = "alarm"
  /\ AlarmIn(timeslot)
  /\ timeout' = FALSE /\ timeslot' = 0
  /\ pc' = NextTurn
  /\ UNCHANGED <<heapVars, now, signals, clients, edge, batch, stop_server,
                 cur, conns, history>>
-----------------------------------------------------------------------------
MainStep ==
  \/ EpollWait \/ Accept \/ Signals \/ BatchDone
  \/ \E f \in Fds : Receive(f) \/ ReceiveEnd(f) \/ ReceiveNothing(f)
  \/ TickStart \/ TickPop \/ TickEnd \/ ReadTimeslot \/ SetAlarm

(* Nothing of interest happens when main has returned.                     *)
World ==
  /\ pc # "stopped"
  /\ \/ ClockTicks \/ Alarm \/ Terminate \/ Connect
     \/ \E f \in Fds : ClientSends(f) \/ ClientLeaves(f)

Next == MainStep \/ World

Spec == Init /\ [][Next]_vars
-----------------------------------------------------------------------------
(* Properties                                                              *)

(* Every variable has its type.                                            *)
TypeOK ==
  /\ HeapTypeOK
  /\ now \in 0..MaxTime /\ cur \in 0..MaxTime
  /\ alarm_at \in Nat \cup {NoAlarm}
  /\ signals \subseteq {"SIGALRM", "SIGTERM"}
  /\ {timeout, stop_server, crossed} \subseteq BOOLEAN
  /\ open \subseteq Fds
  /\ waiting \in 0..NumFds
  /\ inbox \in [Fds -> BOOLEAN] /\ fin \in [Fds -> BOOLEAN]
  /\ edge \subseteq Fds \cup {Listen, Pipe}
  /\ batch \subseteq Fds \cup {Listen, Pipe}
  /\ timer \in [Fds -> Timers \cup {NoTimer}]
  /\ user_data \in [Timers -> Fds]
  /\ pc \in {"wait", "batch", "tick", "pop", "read", "alarm", "stopped"}
  /\ timeslot \in Int /\ slack \in 0..MaxTime
  /\ heard \in [Fds -> 0..MaxTime]

(* users[fd].timer of an open connection is in the heap and due Idle after *)
(* the connection's last event, and a timer that will still call cb_func   *)
(* is the one of the open connection it points to: no late timer closes a  *)
(* descriptor that was closed before and given to somebody else.           *)
TimerOfConnection ==
  /\ TypeOK
  /\ \A f \in open : /\ timer[f] \in InHeap /\ cb_func[timer[f]]
                     /\ expire[timer[f]] = heard[f] + Idle
  /\ \A t \in InHeap : cb_func[t] =>
       user_data[t] \in open /\ timer[user_data[t]] = t

(* The server uses the heap as its interface allows: it never touches a    *)
(* timer that was popped and freed, although users[fd].timer still points  *)
(* to it (pop_timer itself does, see PopTimer), and never moves one to an  *)
(* earlier time, which percolate_down alone would leave in the wrong place.*)
HeapUsedAsMeant == HeapSpec

(* The timers close a connection only after Idle seconds without an event  *)
(* of it, however often its timer was moved in the heap.                   *)
ClosedOnlyWhenIdle ==
  [][\A f \in open :
       pc = "pop" /\ f \notin open' => cur - heard[f] >= Idle]_vars

(* The chain of alarms goes on: one is set, or its signal is on its way to *)
(* timer_handler.  It ends when the clock advanced between the time() of   *)
(* tick and the time() timer_handler subtracts, so that alarm got 0 or a   *)
(* negative number; no connection is ever closed for silence after that.   *)
AlarmComing ==
  \/ alarm_at # NoAlarm
  \/ "SIGALRM" \in signals /\ Pipe \in edge \cup batch
  \/ timeout
  \/ pc = "stopped"
  \/ crossed

(* The next alarm is not later than the first timer is due, although       *)
(* timers are added and moved after it was set, but for the seconds that   *)
(* passed between the time() its timeslot was computed from and alarm().   *)
AlarmInTime ==
  alarm_at # NoAlarm => \A t \in InHeap : alarm_at <= expire[t] + slack
=============================================================================
