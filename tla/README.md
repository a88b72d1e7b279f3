# Formal models of Socket_test

TLA+ modules, TLC runs and TLAPS proofs for the network programs of this
repository (C++, Linux).  Every definition is translated from the source;
`PROJECT.json` maps each one to its lines, lists the runs, a mutant of the code
for every property a run checks, the hazards and the theorems.

Run a model with `tlc -workers 2 -config X.cfg M`, a proof with `tlapm M.tla`.

## 1. Inventory

| component | state | operations | who else touches it | what is hard |
|---|---|---|---|---|
| `multi_thread/locker.h` `sem`, `locker`, `cond` | a count, an owner, waiters | wait/post, lock/unlock, wait/signal | the thread pool (`cond`: nobody) | results ignored, `sem_wait` may be interrupted |
| `thread_pool/thread_pool.h` | request list, lock, semaphore, `m_stop` | constructor, `append`, `run`, destructor | callers of `append`, detached workers | push and post are two steps, destruction under running workers |
| `thread_pool/main.cc`, `http_conn.cc` (connections) | slots `users[fd]`, epoll instance, listen queue, `m_user_count` | accept, read, write, `close_conn`, `process` | main thread and workers, by `EPOLLONESHOT` | hand-over, early reuse of descriptors, a plain counter, edge-triggered accept |
| `http_conn.cc` (answers) | `m_iv`, `m_file_address`, `m_file_stat`, mappings | `do_request`, `process_write`, `write`, `unmap`, `init` | worker, then main | partial writes, a slot's next connection |
| `http_conn.cc` (parsing) | read buffer, three indices, parse state | `read`, `parse_line`, `process_read` | one thread at a time | lines split over segments, a full buffer, the loop's condition |
| `timer/min_heap_timer.h` | array of timers, `cur_size`, `capacity`, `index` in each timer | add, delete (lazily), percolate down, pop, tick | the server below | places kept in the timers, growth |
| `timer/inactive_timer.cc` | users, heap, pending alarm, socketpair | accept, receive, `sig_handler`, `timer_handler` | clients, the clock, signals | stale timer pointers, the alarm chain |
| `timer/time_wheel_timer.h` | slots, current slot, rotations | add, delete, tick | any caller | rounding, wrap-around |
| `timer/list_timer.h` | doubly linked list | add, adjust, delete, tick | any caller | head/tail/middle cases |
| `process_pool/*` | `m_pid`, socketpairs, signal pipes, turn | dispatch, accept in the child, `process`, reap, stop | parent, children, signals | lost and merged notifications, a child that dies, one too early |
| `Chat/chat_server.cc` | array of descriptors, user buffers, count | accept, broadcast, remove | clients | removal while iterating |
| `Chat/chat_client.cc` | two descriptors, a pipe | poll, splice | the server | |
| `multi process/shm_test.cc` | shared buffers, children, user table | as above, a process per client | parent, children | reaping, table moves |
| `multi process/sem_test.cc`, `fd_send.cc` | a semaphore; a descriptor | P and V; send and receive it | two processes | |
| `multiplexing/*` | one or more connections | level- and edge-triggered loops, one-shot threads | threads in `epoll.cc` | one-shot re-arming |
| `client/*`, `pipe/pipe.cc`, `test_user/*`, `main.cpp` | none to speak of | straight lines of system calls | | timeout in `nonblock.cc`, `tee` on an empty pipe |

The web server is main (`accept`, `read`, `write`) + thread pool (`append`,
`run`) + `http_conn` (`process`); the timer server is main loop + heap + signals
over a socketpair.  The wheel and the list are the containers `inactive_timer.cc`
used before the heap (its commented lines show how).

What makes the components correct: the pool is a bounded queue that loses no
request and no wakeup; a connection belongs to one thread at a time and slot,
socket and count agree; the parser never leaves its buffer and returns; a timer
container fires each timer when it is due and loses none; a connection is closed
for silence only after silence, and the alarm that closes it keeps coming; the
parent of the process pool finds a child for every connection, no child overlooks
what it was told, and the parent stops with the last of them; a file is mapped exactly as long as it is sent.

## 2. Modules

| module | models | uses |
|---|---|---|
| `Locker` | `locker`, `sem` as action operators | |
| `RequestQueue` | what the pool promises (abstract) | |
| `ThreadPool` | `threadpool<T>` | `Locker`; implements `RequestQueue` |
| `ThreadPoolProofs` | proofs about it | |
| `HttpServer` | `main.cc` and `http_conn`'s life | takes the pool as the queue it is proved to be, parsing as the outcomes `HttpConn` shows |
| `HttpServerProofs` | proofs about it | |
| `HttpConn` | `read` and `process_read` on the bytes | |
| `HttpConnProofs` | proofs about it | |
| `HttpWrite` | `do_request`'s mapping, `process_write`, `write`, `unmap` | takes `m_linger` as `HttpConn` shows it |
| `HttpWriteProofs` | proofs about it | |
| `ProcessPool` | `processpool<T>` and `cgi_conn` | |
| `ProcessPoolProofs` | proofs about it | |
| `ChatServer` | `chat_server.cc` | |
| `TimerQueue` | what a timer container promises (abstract) | |
| `TimeHeap` | `time_heap` | implements `TimerQueue` |
| `InactiveTimer` | `inactive_timer.cc` | extends `TimeHeap` and is shown to use it as meant |
| `InactiveTimerProofs` | proofs about `TimeHeap` and `InactiveTimer` | |
| `Countdown` | what a wheel promises (abstract) | |
| `TimeWheel` | `time_wheel` | implements `Countdown` |
| `TimeWheelProofs` | proofs about it | |
| `SortTimerList` | `sort_timer_lst` | implements `TimerQueue` with deletion |
| `SortTimerListProofs` | proofs about it | |
| `MC*` | sets of model values and symmetry for TLC | |

Operators named after a definition with a suffix and introduced as "Mutant of"
are plausible mistakes; no specification uses them.

### ThreadPool
A step is what a thread does between two points another thread can see: `lock`;
the test of `size()`; push and unlock; `post`; `while(!m_stop)`; `wait`; the test
for an empty list; `front`; `pop_front`, unlock and the null test; `process`.
The constructor starts one thread at a time, which runs at once, and may throw
half way (`SpawnFails`); the destructor sets `m_stop` and destroys the members
while the detached workers go on.  A worker that then touches a member is
followed no further (`UseDestroyed`).  `Interruptible` switches the early return
of `sem_wait`, which `run` ignores.  Each job is accepted once at most
(`AppendCall`), so that the history can name it.

### HttpServer
The state is what two threads or the kernel see: descriptors, what a client did,
epoll's interest per socket (`EPOLLONESHOT`: "fired" until `modfd`), the listen
queue, `m_sockfd` and the response of each slot, `m_user_count`, the pool's queue.
`close_conn` is `CloseRemove` (epoll and `close`), `CloseUnset` (`m_sockfd = -1`),
and the load and the store of `m_user_count--`, each a step, because a worker may
run it while main accepts.  History variables name what the code lets happen:
`reused` (a descriptor was given out while a worker still had its slot), `clash`
(`close_conn` closed a socket that was not its own), `lost` (an update of the
count was overwritten), `missed` (connections without an event of `listenfd`) and
`dropped` (`append` refused).  The properties hold up to exactly these.

`process` has the outcomes the parser and `do_request` have: no request yet, an
error response, a file, an empty file (falls through to `default` and closes), or
no return.  An error response sets `m_iv[1].iov_len` and not `m_iv[0]`, so `writev`
sends nothing unless the slot served a file before.  `writev` of no bytes returns 0
even when the client is gone, so main loops in `write` for good (`WriteSpins`).
A slot whose `m_write_idx` is 0 when epoll reports room to write is one whose
descriptor was given out early: `write` arms it for reading again (`WriteNothing`).

### HttpConn
A buffer of symbols: the two parts of a good request line (`GET` up to somewhere in
the URL, `VERSION` the rest), a `Connection` header, a `Content-Length` header, other
text, CR and LF. Between the two parts other text, CRs and LFs may stand:
`parse_request_line` looks for blanks only and takes them into the URL. Clients send
any sequence in any segments. A buffer that is exactly full is parsed (`recv` of no
bytes gives EAGAIN when nothing is there); with more to receive, or at the next call,
`read` fails (`BufferFull`). The loop's condition `(line_status == parse_line()) ==
LINE_OK` compares where it should assign (`GoesOn`): the body runs when `parse_line`
returns anything but `LINE_OK`. So a line is parsed when it is not complete,
`m_linger` and `m_content_length` are never set, and `parse_content`, which has no
action, is never called (lemma `NeverKeptAlive` of `HttpConnProofs`).

### HttpWrite
One slot through several connections, because `init` clears the buffers and leaves
`m_file_address`, `m_file_stat` and `m_iv` as the last connection had them. `maps`
keeps what is left of every mapping ever made. Lengths are small numbers that keep the
order the code compares: file shorter and longer than half a header, an error response
longer than a header. `Writev(n)` takes any part of what it is given, `WritevAgain` is
EAGAIN, `WritevFails` any other error; each call of `write` counts from `m_write_idx`
and gives `writev` everything again. History variables: `got` (what the peer was
sent), `abandoned` (hang-ups with a file, and not an error response, pending),
`wrongly` (`munmap` had another length than `mmap`).

### ProcessPool
Parent `N` and children `0..N-1` are processes with the same loop: install handlers
and watch (`Setup`), `EpollWait`, one action per event, `BatchDone`.  All watching is
edge-triggered: `ready` is what has become ready since it was last reported, `batch`
what was reported and not yet looked at, so several things may lie under one event.
A signal handler's byte is in `signals`, an int the parent sends in `notes`.  The
children are forked before any process installs a handler: in state `setup` SIGTERM
ends a process and SIGCHLD is not heard.  `End` is what the kernel does when
processes end, including the end of file at a child's socketpair once every holder
of the other end (the parent, the children forked later) has ended.

`Dispatch` is the `do` loop over `sub_process_counter`; `send` follows as a step of its
own, because the child may end in between.  The parent's end of a socketpair is
blocking: `SendWaits` leaves the parent in state `blocked` when there is no room, and
`SendWoken` takes it out only when the child has read all but `LowWater` ints (Linux
wakes the sender when no more than a quarter of its buffer is in use).  A signal takes it
out too, and `SA_RESTART` has it call `send` again.  `SendToEnded` is SIGPIPE;
`SendFails` the EPIPE without it that a sender waiting when its peer closes may get.
`DispatchToNone` is the branch without children.  `ParentSignals` is the loop over
`waitpid` and the forwarding of SIGTERM.  `ChildNote` reads one int per event; the end of
file is passed over, EAGAIN is not.  `AcceptFails` is any failure of `accept` (EMFILE,
ENFILE, a client that has gone): the int is spent all the same.

`process` of `cgi_conn` reads to the end; the `;` behind its `for` keeps it from the code
that runs a program as long as no more than `BUFFER_SZIE` bytes come.  History: `missed`
(connections no event or int stands for, those whose `accept` failed included),
`unheard` (children that ended before the parent could hear of it).

### ChatServer
The array of `USER_LIMIT + 1` entries with descriptor, what is waited for and
`revents`, the loop's `i`, `user_counter` and whose buffer each user is to be sent.
`Case` is the chain of tests; `Remove` is the removal, which leaves `i` where it is.
The model stops at an access to `fds[-1]`; that there is one is among the findings.

### TimeHeap, InactiveTimer
The array below `cur_size`, `capacity`, and per timer `expire`, `cb_func # NULL` and
`index`.  The sifting loops are recursive functions that yield the path of the hole;
`Slide` moves the timers along it.  `pop_timer` of the only timer writes `index` of the
timer it has just deleted: `PopTimer` keeps the write.

`InactiveTimer` adds the clock (it may advance between any two steps), `alarm`, the
handler's bytes in the socketpair, clients (`inbox`: some bytes or none) and epoll's
edges.  `tick` reads the clock in `TickStart` and pops one timer per `TickPop`.  The rest of
`timer_handler` is two steps: `ReadTimeslot` reads the clock again and computes
`timeslot`, `SetAlarm` calls `alarm(timeslot)`.  History: `crossed` (the clock advanced
between the two readings), `slack` (seconds it advanced between the second reading and
`alarm`).

### TimeWheel, SortTimerList
`TimeWheel`: the slots as sets (their lists are unordered), `rotation` and
`time_slot` of each timer; a timer's deletion takes it out of the slot it names.
`SortTimerList`: the pointers themselves; the insertion loop is a walk along `next`.
The callers are any that add new timers, postpone, delete and tick.

## 3. Runs

| run | bounds | shows |
|---|---|---|
| `ThreadPool.cfg` | 2 workers, 2 callers, 2 jobs + null, limit 1, interrupted waits, fairness | types, lock, queue limit, no lost wakeup, FIFO refinement, accepted requests are started |
| `HttpServer.cfg` | 2 workers, 2 descriptors, 3 connections, `MAX_FD` 1, queue limit 1 | ownership, slots, count |
| `HttpServerLive.cfg` | 2 workers, 2 descriptors, 2 connections, fairness | bytes are received and connections accepted unless a named state keeps them |
| `HttpConn.cfg` | buffer of 6 symbols, fairness | indices, lines, parse states; `process_read` returns unless stuck |
| `HttpConnGotLine.cfg` | buffer of 5 | violated: see Findings |
| `HttpWrite.cfg` | files of 0, 1, 2, header 3, error 7, 4 connections, fairness | mapped while sent, unmapped as mapped, mappings lost only to hang-ups, sent whole and once, `write` returns |
| `TimeHeap.cfg` | 5 timers, times 0..2, capacity 4 | order, places, queue of timers |
| `InactiveTimer.cfg` | 2 descriptors, 2 timers, capacity 1, clock to 4, Idle 2 | timers and connections, use of the heap, closing, alarm in time (up to `slack`), chain of alarms |
| `TimeWheel.cfg` | 3 slots of 2 s, 3 timers, timeouts -1..15 | slots, starts at its timeout, fires at its tick |
| `SortTimerList.cfg` | 4 timers, times 0..2 | links, order, no timer lost |
| `ProcessPool.cfg` | 2 children, socketpairs of 2 ints, `LowWater` 0, 3 connections (one client talks), fairness | listen queue, full socketpairs, stopping with the last child; SIGTERM ends all and connections are accepted, unless the parent is jammed in `send` |
| `ChatServer.cfg` | `USER_LIMIT` 2, 2 descriptors, 3 connections | violated: see Findings |

Every invariant's run checks the module's `TypeOK` too: alone or as a conjunct of
one of the invariants (`SlotMatchesSocket`, `IndexOrder`, `IndexRight`,
`FileMappedWhileSent`, `TimerOfConnection`, `Linked`, `BacklogCounted`); for
`HttpServerLive.cfg` the safety run of the module does.
`WokenFindsWork` of the pool and `TypeOK` of the wheel are proved and not run.

Why the bounds are enough to meet the cases: two of each thread are the least for an
interleaving inside `append` and `run`; two jobs and the null request fill a queue of
limit 1 (which holds two) and have one refused. Three connections on two descriptors
are the least for an early reuse, for `EMFILE` and, with `MAX_FD` 1, for a refusal.
Six places hold a request line (two), its CR LF, and two more: the CR LF of an empty
line, a header and a CR, or a bare LF with a rest. Four connections of a slot are one
whose file is abandoned, one whose error response unmaps it, and two more that meet
what those leave. Five timers give a heap of three levels with an only left child and,
with capacity 4, a growth; times 0..2 give equal times. A timer server with Idle 2 and
a clock to 4 sees a timer fire, another moved and then fire, a descriptor used again
and the alarms of two idle times; capacity 1 makes the array grow. A wheel of 3 slots
of two seconds with timeouts to 15 s sees up to two turns, a whole turn exactly, and
0. Four list timers make a head, a tail and two in the middle. Two children are the
least for a turn that passes from one to the other, over one that has ended; three
connections are the least to have two share an event and, when one child has ended, to
fill the socketpair of the other and jam the parent; the second client talks, while a
third connection may come. `LowWater` 0 is a quarter of 2, rounded down. Two users
make a last entry and one that is not.

`CHECK_DEADLOCK FALSE` stands where the system may really stop: the bounded clients
of the servers do nothing more, the pool is destroyed, main has returned, or a
connection is closed; main or the workers loop for good inside a call; the processes of
the pool have ended or wait for clients; the slot was given to its last connection.

Fairness: weak fairness of the steps of each thread only. The kernel schedules
runnable threads, `append`, `process` and the system calls in question return (where
one does not, the model has a state for it). Nothing is assumed of clients, signals,
failures or the end of the pool. Weak fairness suffices for the mutex because the
threads that compete for it are finitely often in its way for each job. In
`ProcessPool` every process is scheduled, and nothing is assumed of clients, crashes,
failures of `accept` or SIGTERM; a parent that waits in `send` is enabled again only
when its child has read down to `LowWater` or ended. Nothing makes the child do so
(`Jammed`: it has no event of its socketpair left, and only the waiting parent would
send one). In `HttpWrite` main goes on inside `write`; EAGAIN may come for ever.

## 4. Proofs

All proofs are checked by TLAPS for every value of the constants that satisfies the
named assumptions:

| module | assumption |
|---|---|
| `ThreadPool` | `PoolAssumption`: finite sets of workers and callers, a positive limit |
| `HttpServer` | `ServerAssumption`: finitely many workers, at least one; main is none of them; a descriptor, a limit and a connection at least |
| `HttpConn` | `SizeAssumption`: room for a symbol |
| `HttpWrite` | `WriteAssumption`: lengths of files are naturals, those of headers positive |
| `ProcessPool` | `PoolAssumption`: at least one child, room for one int, and a low-water mark below that room |
| `TimeHeap` | `HeapAssumption`: times are integers, at least one, and a positive capacity (0 would never grow by doubling) |
| `InactiveTimer` | `InactiveAssumption`: a descriptor, an idle time, a bound of the clock, and times up to what these give |
| `SortTimerList` | `ListAssumption`: finitely many timers, NULL none of them; times are naturals, at least one |
| `TimeWheel` | `WheelAssumption`: at least one slot, a positive interval, integer timeouts |

The library's induction theorems cannot be instantiated here.  What would be shown
by induction on a number is shown with the least number for which it fails: every
nonempty set of naturals has a least element because `<` is well-founded (`WFMin` of
the library; lemmas `LeastPlace` and `LeastNumber`).  The lowest free descriptor, the
first place where `parse_line` stops, the child whose turn it is, and the recursive
functions of the heap and of the list all rest on it.

**Thread pool.**  `LockInv` = `TypeOK` + `CriticalSection` + `ReadyToPop` (a thread at
`pop` has the head of the list as its request) is inductive; `CriticalSection` alone
gives the lock, `ReadyToPop` is what makes `Tail` defined and the popped request
the next one.  `QueueBounded` adds that the list is as long as the test saw it,
because the lock is held in between.  For the refinement `HistoryInv` says
accepted = started followed by the list: `append`'s push is `Accept`, its refusal is
`Refuse`, `pop_front` is `Start`, everything else a stutter.  For wakeups `WakeInv`
adds to `NoLostWakeup` its converse `NoSpareToken`, true without interrupted waits:
counts, woken workers and posting callers are never more than the requests; the two
together give `WokenFindsWork`.

**Web server, connections.** The invariant is `TypeInv`, `OwnerInv` and `CountExact`
together. `TypeInv` adds to `TypeOK` where each thread may be, that a batch reports a
descriptor once and is empty at `epoll_wait`, and `BacklogAccounted` (every connection
of the listen queue but the `missed` ones has an event of its own), without which
`accept` might find nobody; it serves the proof only and is no property of a run.
`OneOwner` and `SlotMatchesSocket` are not inductive, not even together: what a thread
does next depends on whether the socket it has is still its own. `SocketInv` therefore
says for each descriptor in which of the ways main, a worker or nobody may have it,
and what epoll's interest, the slot and the queue are then; a descriptor that is
closed is in nobody's hands, or in those of the one thread that has yet to unset its
slot. A step changes this for one descriptor, and lemmas on the others (`SameSocket`,
`SameThreads`, `SameHolders`) carry it over. For `CountExact` the threads at the steps
of `close_conn` and `accept` are counted: a step moves one thread into or out of that
set, and the load and the store of the counter are exact unless another store came in
between, which is `lost`.

**Parser.** `ConnInv` adds to `IndexOrder` what `m_checked_idx` has passed
(`PassedInv`) and where `process_read` may stand (`StateInv`). `LinesAreCut` alone is
not inductive: a CR right before `m_read_idx` must not have been passed, or the next
symbol received could be its LF. `StateInv` says that the loop goes on past the
request line only when `parse_line` found nothing, so that the text `parse_headers`
gets is empty and neither header is ever seen: `NeverKeptAlive` (`m_linger` and
`m_content_length` keep what `init` gave them, and no state is ever "CONTENT") follows
from it. Two facts came out of the proof: a connection whose request line was parsed
never reads again, and the branch of `parse_line` for a LF behind a CR
(`http_conn.cc:119`) is never taken, since that CR would have been left unpassed and
found first (case <2>6 of `ParsedLine`).

**Time wheel.**  `WheelInv` = `TypeOK` + `InItsSlot` is inductive.  The countdown's
value of a timer is `rotation * N` + the slots ahead.  `WrapAround` and
`TurnsAndRest` are the two facts on `%` and `\div`; `AddedLeft` shows that
`add_timer` makes the value the number of ticks, `TickedOut` that a tick takes one
off it and fires exactly the timers at 0.

**Answers.**  `WriteInv` adds `StatOfMapping` to `FileMappedWhileSent` and
`UnmapsWhatWasMapped`: as long as nobody hung up with a file pending, a mapping
exists only while it is sent and `m_file_stat` is still its length.  `SentInv` says
why `SentWhole` holds: before the end of a response no `writev` took all it was
given, since one that does leaves nothing of the header to send and `write` returns.
`LostInv` counts the mappings apart from the one in use; `UnmapLive` shows that
`unmap` takes exactly that one away (its length is right even after a hang-up, by
`m_file_stat = iov1`), and only `Hangup` lets go of one.

**Heap.**  `HeapInv` = `HeapOrdered` + `IndexRight` + a positive capacity is inductive.
A sifting loop is a walk: from a place to the next (`Child` or the parent) as long as a
condition holds, with a number that gets smaller, which is why the recursive function
exists (`WalkExists`) and is a path without repetition (`WalkIs`, `WalkDescends`).
Moving the timers along a path is a permutation (`RotatedPermutes`).  Going down puts in
order an array that is in order but at the hole (`DownOrders`), going up one that is in
order but for the new timer (`UpOrders`); `Child` is the earlier child (`ChildIs`).  The
constructor's loop is the same step from the last inner place to the first, with the
order holding from that place on (`SinkIs`, `HeapifyIs`).  The earliest timer is at the
top because the first place with an earlier one would have a parent before it
(`TopIsFirst`).  With these, each operation is one of `TimerQueue`'s.

**Server of inactive connections.** `ServerInv` adds to the properties that the timer
of an open connection points back to it (`TimersInv`: two connections never share
one), that only an open socket has something to receive, that every report of
`listenfd` stands for a connection of its own (so `accept` and the lowest free
descriptor exist), that nothing lies more than Idle seconds ahead (`TimesInv`: a timer
added or moved cannot come before the alarm, nor move to an earlier time), and that
nothing is due when `tick` is done (`NothingDue`, at "read": `timeslot` is positive
unless the clock has moved on). `HandlerInv` says of the time between `ReadTimeslot`
and `SetAlarm` that `timeslot` from now on is the first timer's time but for `slack`,
which is all the alarm may be late by (`AlarmIsInTime`). `OneAlarm` says that no two
of these hold at once: an alarm is set, its byte is in the pipe, `timer_handler` has
yet to run or runs. What the heap does is taken from the heap's lemmas;
`HeapIsUsedAsMeant` shows in turn that every step of the server is one that `HeapSpec`
allows.

**Sorted list.**  `Linked` and `Sorted` speak of the timers reached from `head`, and say
too little to be inductive: two pointers could lead to one timer.  `ListInv` says that
there is a sequence of different timers which the pointers agree with in both directions
(`Chain`) and whose times ascend.  `add_timer` inserts into the sequence (`InsertLinks`),
deletion and `tick` cut out of it (`CutLinks`, `LeadPast`), `adjust_timer` does one and
then the other.  A loop along `next` comes to the timers of the sequence and then to NULL
(`WalkIs`), which gives `InList` (`ReachedIs`) and the place where the private
`add_timer` stops (`AddAfterInserts`).  Nothing is said of `tail` when the list is empty:
`tick` leaves it dangling then, and the proofs show that it is not read before it is set.
With these each operation is one of `TimerQueue`'s.

**Process pool.** `StopInv` adds to `StopsLast` that the parent's `m_stop` implies
that no child is known; processes that ended never live again (`EndPc`, `KillPc`), so
only `ParentSignals` needs an argument: `m_stop` is set with the last child that is
struck off. `PipeInv` adds to `FullPipeIsRead` that a process in `epoll_wait` has no
batch, so that no unread event is overwritten, and that `notes` stay between 0 and
`PipeRoom`; the event of a socketpair is consumed only together with an int.
`CountInv` adds to `BacklogCounted` that nothing was sent or accepted before the
parent serves (`EarlyInv`), and that as long as the parent lives a child has no more
events of its socketpair than ints in it (`IntInv`): so the EAGAIN that would let a
child accept without having been told never happens, and an event of the socketpair is
always an int on its way. `Told`, the ints on their way, is the cardinality of a set
of pairs (`Notes`), so that sending one adds a pair, accepting takes one away, and the
ints lost with a child are the pairs of that child.

Only model-checked: the liveness properties (`AcceptedIsStarted`,
`BytesAreReceived`, `BacklogIsAccepted`, `ReturnsUnlessStuck`, `WriteReturns`, `AllTerminate`,
`ConnectionsAreAccepted`), since fairness and ENABLED are beyond the prover.  Every
invariant, action property and refinement that a passing run checks is stated by a theorem.

## 5. Findings and behaviour worth knowing

- `http_conn.cc:249` compares in place of assigning (run `http_conn_got_line`): "got
  1 http line" (`http_conn.cc:253`) is printed, and a line parsed, when `parse_line`
  found none, and a complete line ends the loop unparsed.
- `chat_server.cc:103` (run `chat_server`): when the user in the last entry leaves,
  the entry is copied onto itself and looked at again, so that the departure counts
  twice, the listening socket takes the entry's place and `user_counter` is one too
  low ("now have %d users" is wrong for the next user), or -1.
- With `user_counter` -1 the next departure reads `fds[-1]` (`chat_server.cc:101-103`), before
  the array: two users who leave together may be enough.  The model stops there.
- `pop_timer` writes `index` into a freed timer when it removes the only one
  (`min_heap_timer.h:126-129`, again in `percolate_down`, 171-172): `array[--cur_size]` is
  the timer it has just deleted.  `top` and `add_timer` never look at it afterwards; what
  the write does to the heap of the process is not modelled.
- The parent of the process pool has no handler for SIGPIPE: telling a child that
  has ended and was not waited for kills the parent (`SendToEnded`), and its
  children stay (`AllTerminate` ends in "killed").
- The parent may wait in `send` (`process_pool.h:315`) for good: its end of the socketpair is
  blocking, the child reads one int per event, the kernel wakes the sender only at
  its low-water mark, and only a sender makes the next event.  Only a signal takes it
  out (`Jammed` in `AllTerminate` and `ConnectionsAreAccepted`).
- A child whose `accept` fails goes on and has spent the int (`process_pool.h:207-211`):
  with EMFILE the connection stays in the listen queue until another int comes (`missed`).
- Children are forked before handlers are installed: if every child ends before the
  parent hears SIGCHLD, the parent never stops (`unheard`).
- One `accept` per event and one int per `recv`: connections that complete together,
  or ints that lie under one event, wait for the next one (`missed`, `Overlooked`).
- `write` compares what it sent of header and file with what is left of the header,
  so a response counts as sent after half a header; after a partial `writev` it starts
  from the beginning ("short" in `SentWhole`).
- A client that hangs up with a file pending leaves the mapping; a later error
  response of the slot unmaps it with the length of another file (`abandoned` in
  `MappingsLost` and `UnmapsWhatWasMapped`).
- An error response gives `writev` nothing in a slot that has sent no file: main
  loops in `write` for good, since `writev` of no bytes returns 0 even after a reset
  (`Given = 0` in `WriteReturns`, "spin" in `Stuck` and `BacklogIsAccepted`).
- A full pool makes `append` return false; `main.cc:118` ignores it and the connection
  is never armed again (`dropped` in `OneOwner` and `BytesAreReceived`).
- A worker's `close_conn` closes before it unsets `m_sockfd` (`http_conn.cc:60-61`):
  the reuse of the descriptor may give two owners to one connection, or have a new
  connection closed (`reused`, `clash`).
- `m_user_count` is not atomic (`lost`).
- Several connections that complete at once share one edge of `listenfd` and only
  one is accepted (`missed`).
- A timer of the wheel fires at the (ticks + 1)-th tick after `add_timer`: the
  current slot counts.
- The chain of alarms ends when the clock advances between the two readings of
  `timer_handler` (`crossed` in `AlarmComing`): `alarm(0)` sets none.
- When it advances between `time` and `alarm` (`inactive_timer.cc:63-64`) the alarm, and
  with it the closing of the connection, comes that much after the first timer (`slack` in
  `AlarmInTime`).

## 6. Not modelled, and the plan

Left out of the modules above:
- the text of requests and responses, and the path of `do_request`;
- `users` indexed past its end (a matter of the process's descriptor limit), failing
  system calls for want of memory, the clock set back.  Setup code that asserts is
  taken to succeed;
- `HttpWrite`: `open` after a successful `stat` succeeds; the branch of `write` for
  `m_write_idx = 0`, since with one owner of the slot every response has a header (with
  two, `HttpServer` takes it: `WriteNothing`);
- `ProcessPool`: SIGINT, whose byte would count like SIGTERM's and for which no
  handler is installed; failures of `epoll_wait`; clients that send more than `m_buf`
  holds.  `recv` is given room for `BUFFER_SZIE - 1` bytes wherever it writes, so more
  than 1024 bytes overwrite `m_read_idx`, and the part of `cgi_conn::process` behind
  its loop (`process_pool.cc:57` on), which is not reached otherwise, may be;
- `ChatServer`: what is behind `fds[-1]`; a partial `send`; what is said.

Parts that are not modelled:
- `cond` in `locker.h`: no code creates one;
- `multi process/shm_test.cc`, `sem_test.cc`: their mains are renamed and called by
  nobody, so nothing of the repository runs them; `fd_send.cc` is one `sendmsg` and one
  `recvmsg`;
- `multiplexing/epoll.cc`: one thread that accepts and reads to the end and keeps
  nothing between events (its one-shot worker is called by nobody); `select.cc`,
  `poll.cc`, `test.cc`: one connection in sequence.  The same loops, with state, are in
  `HttpServer`, `InactiveTimer` and `ChatServer`;
- `chat_client.cc`, `client/*`, `pipe/pipe.cc`, `test_user/*`, `main.cpp`: straight lines
  of system calls, or a loop without state of its own.

Plan: the safety halves of the liveness arguments as theorems, such as that every step
of `process_read` or `write` brings its end nearer unless it is in a state named as
stuck.
