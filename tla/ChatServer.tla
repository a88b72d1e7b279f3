----------------------------- MODULE ChatServer -----------------------------
(***************************************************************************)
(* The chat server of Chat/chat_server.cc: one thread, poll over an array  *)
(* of descriptors, and a loop over its entries that takes entries out and  *)
(* puts the last one in their place as it goes.  poll and the loop look at *)
(* one entry more than the array has; it is taken for memory that nothing  *)
(* else uses and that held no descriptor at first.  Where the code reads   *)
(* fds[-1] it is followed no further.  What is said is left out: only who  *)
(* is to be sent whose buffer.                                             *)
(***************************************************************************)
EXTENDS Integers, FiniteSets

CONSTANTS
  USER_LIMIT,
  Fds,         (* descriptors client sockets can get, none of them 0       *)
  MaxConns     (* bound: the connections the clients ever open             *)

Slots    == 0..USER_LIMIT
listenfd == 0
None     == -1                (* -1 in fds, NULL in write_buf              *)
Entry(f) == [fd |-> f, out |-> FALSE, revents |-> {}]

VARIABLES
  fds,           (* per slot: the descriptor, whether a broadcast has set  *)
                 (* its events (to all bits), and revents                  *)
  i,             (* the loop's variable, or None in poll                   *)
  user_counter,
  write_buf,     (* per descriptor: whose buf it points to                 *)
  socket,        (* per descriptor: "closed", "up", or "fin" or "rst" from *)
                 (* the client                                             *)
  inbox,         (* descriptors with bytes to receive                      *)
  backlog, arrived,
  announced      (* history: the number of users printed last, and how     *)
                 (* many there were                                        *)

net  == <<socket, inbox, backlog, arrived>>
vars == <<fds, i, user_counter, write_buf, net, announced>>

Init ==
  /\ fds = [s \in Slots |-> Entry(IF s = 0 THEN listenfd ELSE None)]
  /\ i = None /\ user_counter = 0
  /\ write_buf = [f \in Fds |-> None]
  /\ socket = [f \in Fds |-> "closed"]
  /\ inbox = {} /\ backlog = 0 /\ arrived = 0
  /\ announced = [said |-> 0, were |-> 0]

Users(sockets) == Cardinality({f \in Fds : sockets[f] # "closed"})
-----------------------------------------------------------------------------
(* The clients.                                                            *)

Server == <<fds, i, user_counter, write_buf, announced>>

Connect ==
  /\ arrived < MaxConns
  /\ arrived' = arrived + 1 /\ backlog' = backlog + 1
  /\ UNCHANGED <<Server, socket, inbox>>

ClientSays(f) ==
  /\ socket[f] = "up"
  /\ inbox' = inbox \cup {f}
  /\ UNCHANGED <<Server, socket, backlog, arrived>>

ClientLeaves(f) ==
  /\ socket[f] = "up"
  /\ socket' \in {[socket EXCEPT ![f] = how] : how \in {"fin", "rst"}}
  /\ UNCHANGED <<Server, inbox, backlog, arrived>>
-----------------------------------------------------------------------------
(* What poll sets for an entry.  A listening entry never has POLLRDHUP,    *)
(* a closed descriptor only POLLNVAL, which the loop does not look at.     *)
Revents(e) ==
  IF e.fd = None THEN {}
  ELSE IF e.fd = listenfd THEN IF backlog > 0 THEN {"in"} ELSE {}
  ELSE (IF socket[e.fd] = "rst" THEN {"err"} ELSE {})
    \cup (IF socket[e.fd] \in {"fin", "rst"} THEN {"rdhup", "in"} ELSE {})
    \cup (IF e.fd \in inbox THEN {"in"} ELSE {})
    \cup (IF e.out /\ socket[e.fd] # "closed" THEN {"out"} ELSE {})

Poll ==
  /\ i = None
  /\ \E s \in Slots : Revents(fds[s]) # {}
  /\ fds' = [s \in Slots |-> [fds[s] EXCEPT !.revents = Revents(fds[s])]]
  /\ i' = 0
  /\ UNCHANGED <<user_counter, write_buf, net, announced>>

fd      == fds[i].fd
revents == fds[i].revents

(* The tests of the loop, one after the other.                             *)
Case ==
  IF fd = listenfd /\ "in" \in revents THEN "accept"
  ELSE IF "err" \in revents THEN "error"
  ELSE IF "rdhup" \in revents THEN "left"
  ELSE IF "in" \in revents THEN "says"
  ELSE IF "out" \in revents THEN "send" ELSE "pass"

At(c)    == i # None /\ Case = c
Continue == i' = IF i = USER_LIMIT THEN None ELSE i + 1

(* listenfd blocks: without a connection accept waits for one.             *)
Accept ==
  /\ At("accept") /\ backlog > 0
  /\ backlog' = backlog - 1
  /\ IF user_counter >= USER_LIMIT
     THEN UNCHANGED <<fds, user_counter, socket, announced>>   \* refused
     ELSE \E f \in {g \in Fds : socket[g] = "closed"} :
            /\ socket' = [socket EXCEPT ![f] = "up"]
            /\ user_counter' = user_counter + 1
            /\ fds' = [fds EXCEPT ![user_counter'] = Entry(f)]
            /\ announced' = [said |-> user_counter', were |-> Users(socket')]
  /\ Continue
  /\ UNCHANGED <<write_buf, inbox, arrived>>

(* getsockopt takes the error off the socket.                              *)
Error ==
  /\ At("error")
  /\ socket' = IF socket[fd] = "rst" THEN [socket EXCEPT ![fd] = "fin"]
                                     ELSE socket
  /\ Continue
  /\ UNCHANGED <<fds, user_counter, write_buf, inbox, backlog, arrived,
                 announced>>

(* A client left: its entry becomes a copy of the last one, which stays    *)
(* where it is, and the loop looks at the same place again.                *)
Remove ==
  /\ user_counter >= 0
  /\ LET last == fds[user_counter].fd
     IN  write_buf' = [write_buf EXCEPT ![fd] =
                         IF last \in Fds THEN write_buf[last] ELSE None]
  /\ socket' = [socket EXCEPT ![fd] = "closed"]
  /\ inbox' = inbox \ {fd}
  /\ fds' = [fds EXCEPT ![i] = fds[user_counter]]
  /\ user_counter' = user_counter - 1
  /\ UNCHANGED <<i, backlog, arrived, announced>>

Left == At("left") /\ Remove

(* recv, or nothing to receive (EAGAIN, or 0 at the end); a message is for *)
(* the entries from 1 to user_counter - 1.                                 *)
Receive ==
  /\ At("says")
  /\ LET others == {s \in 1..user_counter - 1 \cap Slots : fds[s].fd # fd}
     IN  IF fd \in inbox
         THEN /\ fds' = [s \in Slots |-> IF s \in others
                           THEN [fds[s] EXCEPT !.out = TRUE] ELSE fds[s]]
              /\ write_buf' = [f \in Fds |->
                   IF \E s \in others : fds[s].fd = f THEN fd
                                                      ELSE write_buf[f]]
         ELSE UNCHANGED <<fds, write_buf>>
  /\ inbox' = inbox \ {fd}
  /\ Continue
  /\ UNCHANGED <<user_counter, socket, backlog, arrived, announced>>

(* The connection was reset since poll: recv fails.                        *)
ReceiveFails == At("says") /\ socket[fd] = "rst" /\ Remove

Send ==
  /\ At("send")
  /\ write_buf' = [write_buf EXCEPT ![fd] = None]
  /\ fds' = [fds EXCEPT ![i].out = TRUE]
  /\ Continue
  /\ UNCHANGED <<user_counter, net, announced>>

Pass ==
  /\ At("pass") /\ Continue
  /\ UNCHANGED <<fds, user_counter, write_buf, net, announced>>
-----------------------------------------------------------------------------
Next ==
  \/ Connect \/ \E f \in Fds : ClientSays(f) \/ ClientLeaves(f)
  \/ Poll \/ Accept \/ Error \/ Left \/ Receive \/ ReceiveFails \/ Send \/ Pass

Spec == Init /\ [][Next]_vars
-----------------------------------------------------------------------------
(* "comes a new user,now have %d users" (chat_server.cc:86): when a user   *)
(* comes, that is how many there are, whoever left before.                 *)
UsersCounted == announced.said = announced.were
=============================================================================
