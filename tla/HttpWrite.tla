----------------------------- MODULE HttpWrite ------------------------------
(***************************************************************************)
(* How one slot of users (thread_pool/http_conn.cc) answers the requests   *)
(* of the connections that get its descriptor one after the other:         *)
(* do_request looks a file up and maps it, process_write prepares m_iv,    *)
(* write() sends it in as many calls as the socket takes, and init() of    *)
(* the next connection clears the buffers but neither m_file_address nor   *)
(* m_file_stat nor m_iv.  A file is its length; m_linger is never set      *)
(* (HttpConnProofs), so every response ends the connection.                *)
(***************************************************************************)
EXTENDS Integers, Sequences, FiniteSets

CONSTANTS
  Files,      (* lengths of the files that can be asked for, 0 included    *)
  HeadLen,    (* length of a file's status line and headers                *)
  ErrorLen,   (* length of an error response                               *)
  MaxConns    (* bound: connections of the slot                            *)

ASSUME WriteAssumption ==
  Files \subseteq Nat /\ {HeadLen, ErrorLen, MaxConns} \subseteq Nat \ {0}

NoMap  == 0                   (* m_file_address is 0                       *)
Failed == -1                  (* MAP_FAILED, what mmap returns for length 0*)

VARIABLES
  pc,              (* "free" (no connection), "reading", "out" (waiting    *)
                   (* for EPOLLOUT) or "write" (main is in write())        *)
  m_write_idx, m_iv_count,
  iov0, iov1,      (* the iov_len of m_iv                                  *)
  m_file_address,  (* NoMap, Failed or a mapping's place in maps           *)
  m_file_stat,     (* its st_size                                          *)
  maps,            (* what is left of each mapping ever made, in order     *)
  bytes_to_send,   (* of write(); bytes_have_send is the rest of           *)
                   (* m_write_idx                                          *)
  conns,           (* connections so far                                   *)
  got,             (* history: the writevs of this connection sent         *)
                   (* "nothing", what m_iv holds "once" or "again", or one *)
                   (* of them was "short"                                  *)
  ended,           (* history: how the last connection ended               *)
  abandoned,       (* history: connections closed with a file pending      *)
  wrongly          (* history: munmap had another length than mmap         *)

iov     == <<m_write_idx, m_iv_count, iov0, iov1>>
file    == <<m_file_address, m_file_stat, maps>>
history == <<got, ended, abandoned, wrongly>>
vars    == <<pc, iov, file, bytes_to_send, conns, history>>

Init ==
  /\ pc = "free"
  /\ m_write_idx = 0 /\ m_iv_count = 0 /\ iov0 = 0 /\ iov1 = 0
  /\ m_file_address = NoMap /\ m_file_stat = 0 /\ maps = <<>>
  /\ bytes_to_send = 0 /\ conns = 0
  /\ got = "nothing" /\ ended = "not" /\ abandoned = 0 /\ wrongly = FALSE

(* http_conn::init of a connection that gets the descriptor.               *)
InitConn ==
  /\ pc = "free" /\ conns < MaxConns
  /\ pc' = "reading" /\ conns' = conns + 1
  /\ m_write_idx' = 0
  /\ got' = "nothing" /\ ended' = "not"
  /\ UNCHANGED <<m_iv_count, iov0, iov1, file, bytes_to_send, abandoned,
                 wrongly>>

(* close_conn in main for a client that hung up: nothing is unmapped.      *)
Hangup ==
  /\ pc \in {"reading", "out"}
  /\ pc' = "free" /\ ended' = "hangup"
  /\ abandoned' = abandoned
       + (IF pc = "out" /\ m_iv_count = 2 THEN 1 ELSE 0)
  /\ UNCHANGED <<iov, file, bytes_to_send, conns, got, wrongly>>
-----------------------------------------------------------------------------
(* do_request and process_write                                            *)

(* An error response, after stat or without one.  The length goes to       *)
(* m_iv[1], while m_iv[0] is what is sent and keeps what it had.           *)
PrepareError ==
  /\ pc = "reading"
  /\ pc' = "out"
  /\ m_file_stat' \in Files \cup {m_file_stat}
  /\ m_write_idx' = ErrorLen /\ iov1' = ErrorLen /\ m_iv_count' = 1
  /\ UNCHANGED <<iov0, m_file_address, maps, bytes_to_send, conns, history>>

PrepareFile(f) ==
  /\ pc = "reading" /\ f > 0
  /\ m_file_stat' = f
  /\ maps' = Append(maps, f) /\ m_file_address' = Len(maps')
  /\ m_write_idx' = HeadLen
  /\ iov0' = HeadLen /\ iov1' = f /\ m_iv_count' = 2
  /\ pc' = "out"
  /\ UNCHANGED <<bytes_to_send, conns, history>>

(* An empty file cannot be mapped, and its response falls through to the   *)
(* default case of process_write: the worker closes the connection.        *)
PrepareEmpty ==
  /\ pc = "reading" /\ 0 \in Files
  /\ m_file_address' = Failed /\ m_file_stat' = 0
  /\ m_write_idx' = ErrorLen
  /\ pc' = "free" /\ ended' = "empty"
  /\ UNCHANGED <<m_iv_count, iov0, iov1, maps, bytes_to_send, conns, got,
                 abandoned, wrongly>>
-----------------------------------------------------------------------------
(* write()                                                                 *)

(* Mutant of Unmap: the file stays mapped.                                 *)
UnmapNot == UNCHANGED <<file, wrongly>>

(* Mutant of Unmap: m_file_address keeps the address.                      *)
UnmapKeeps ==
  /\ IF m_file_address > 0
     THEN /\ maps' = [maps EXCEPT ![m_file_address] = 0]
          /\ wrongly' = (wrongly \/ maps[m_file_address] # m_file_stat)
     ELSE UNCHANGED <<maps, wrongly>>
  /\ UNCHANGED <<m_file_address, m_file_stat>>

(* unmap(): munmap takes m_file_stat bytes, or fails for length 0 and for  *)
(* MAP_FAILED.                                                             *)
Unmap ==
  /\ m_file_address' = NoMap
  /\ IF m_file_address > 0
     THEN LET rest == maps[m_file_address] - m_file_stat
          IN  /\ maps' = [maps EXCEPT ![m_file_address] =
                                        IF rest > 0 THEN rest ELSE 0]
              /\ wrongly' = (wrongly \/ rest # 0)
     ELSE UNCHANGED <<maps, wrongly>>
  /\ UNCHANGED m_file_stat

WriteStart ==
  /\ pc = "out"
  /\ pc' = "write" /\ bytes_to_send' = m_write_idx
  /\ UNCHANGED <<iov, file, conns, history>>

(* What writev is given: from the start each time.                         *)
Given == iov0 + (IF m_iv_count = 2 THEN iov1 ELSE 0)

(* Mutant of Done: off by one, done is what exceeds all that was given.    *)
DoneLate(rest) == m_write_idx - rest > Given

(* bytes_to_send counts the header only, and is compared with what has     *)
(* been sent of header and file.                                           *)
Done(rest) == rest <= m_write_idx - rest

Writev(n) ==
  /\ pc = "write"
  /\ n \in 0..Given /\ (n = 0 => Given = 0)
  /\ bytes_to_send' = bytes_to_send - n
  /\ got' = IF n < Given \/ got = "short" THEN "short"
            ELSE IF got = "nothing" THEN "once" ELSE "again"
  /\ IF Done(bytes_to_send')
     THEN pc' = "free" /\ ended' = "sent" /\ Unmap
     ELSE UNCHANGED <<pc, ended, file, wrongly>>
  /\ UNCHANGED <<iov, conns, abandoned>>

(* Mutant of AfterAgain: write() tries again from the start at once.       *)
AfterAgainLoop ==
  bytes_to_send' = m_write_idx /\ UNCHANGED <<pc, file, wrongly>>

(* Mutant of AfterAgain: the file is unmapped as on every other return.    *)
AfterAgainUnmaps == pc' = "out" /\ Unmap /\ UNCHANGED bytes_to_send

AfterAgain == pc' = "out" /\ UNCHANGED <<file, wrongly, bytes_to_send>>

(* EAGAIN: write() returns and starts from the beginning at EPOLLOUT.      *)
WritevAgain ==
  /\ pc = "write" /\ Given > 0
  /\ AfterAgain
  /\ UNCHANGED <<iov, conns, got, ended, abandoned>>

(* With nothing to send writev does not get to the socket, and never fails.*)
WritevFails ==
  /\ pc = "write" /\ Given > 0
  /\ pc' = "free" /\ ended' = "failed" /\ Unmap
  /\ UNCHANGED <<iov, bytes_to_send, conns, got, abandoned>>
-----------------------------------------------------------------------------
Write == WriteStart \/ (\E n \in 0..Given : Writev(n))

Next ==
  \/ InitConn \/ Hangup
  \/ PrepareError \/ (\E f \in Files : PrepareFile(f)) \/ PrepareEmpty
  \/ Write \/ WritevAgain \/ WritevFails

(* main goes on in write(); the network may refuse for ever.               *)
FairSpec == Init /\ [][Next]_vars /\ WF_vars(Write \/ WritevAgain)
-----------------------------------------------------------------------------
(* Properties                                                              *)

(* Every variable has its type.                                            *)
TypeOK ==
  /\ pc \in {"free", "reading", "out", "write"}
  /\ {m_write_idx, m_iv_count, iov0, iov1, m_file_stat} \subseteq Nat
  /\ maps \in Seq(Nat)
  /\ m_file_address \in {NoMap, Failed} \cup DOMAIN maps
  /\ bytes_to_send \in Int /\ conns \in 0..MaxConns
  /\ got \in {"nothing", "once", "again", "short"}
  /\ ended \in {"not", "hangup", "empty", "sent", "failed"}
  /\ abandoned \in Nat /\ wrongly \in BOOLEAN

(* As long as writev may be given a file, the file is mapped, whole: no    *)
(* return of write() that leads to another call unmaps it, and no earlier  *)
(* connection of the slot does.                                            *)
FileMappedWhileSent ==
  /\ TypeOK
  /\ pc \in {"out", "write"} /\ m_iv_count = 2 =>
       m_file_address > 0 /\ maps[m_file_address] = iov1

(* munmap gets the length the mapping was made with.  The one way to a     *)
(* wrong one is a client that hangs up before its file is sent: init()     *)
(* keeps the address, stat of the next request overwrites the length, and  *)
(* the error response to that request unmaps the one with the other.       *)
UnmapsWhatWasMapped == wrongly => abandoned > 0

(* Mappings no pointer leads to any more, each the fault of one client     *)
(* that hung up before its file was sent.                                  *)
MappingsLost ==
  Cardinality({i \in 1..Len(maps) : maps[i] > 0} \ {m_file_address})
    <= abandoned

(* A file's response that write() counts as sent has reached the client,   *)
(* once, unless a writev took less than it was given: then write() may     *)
(* stop after half a header, and begins again from the start until then.   *)
SentWhole ==
  ended = "sent" /\ m_iv_count = 2 => got \in {"once", "short"}

(* write() returns, unless it has an error response to send and no file    *)
(* was ever sent from the slot: m_iv[0] is empty, writev returns 0, and    *)
(* main loops.                                                             *)
WriteReturns == pc = "write" ~> (pc # "write" \/ Given = 0)
=============================================================================
