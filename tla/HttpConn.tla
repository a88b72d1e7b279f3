------------------------------ MODULE HttpConn ------------------------------
(***************************************************************************)
(* What http_conn (thread_pool/http_conn.cc) makes of the bytes of one     *)
(* connection: read() appends them to m_read_buf, process_read goes over   *)
(* the buffer line by line.  The text is abstracted to symbols, one per    *)
(* place of the buffer: GET is the beginning of a good request line up to  *)
(* somewhere in its URL and VERSION the rest of it, CONN is a Connection   *)
(* header, LENG a Content-Length header with a length other than 0, TEXT a *)
(* word without CR and LF that is none of these.  Symbols arrive one by    *)
(* one and any number of them between two calls of process, so the         *)
(* segments are whatever the network makes of them.                        *)
(***************************************************************************)
EXTENDS Naturals

CONSTANT READ_BUFFER_SIZE

ASSUME SizeAssumption == READ_BUFFER_SIZE \in Nat \ {0}

Symbols == {"GET", "VERSION", "CONN", "LENG", "TEXT", "CR", "LF"}
NUL     == "NUL"
Places  == 0..READ_BUFFER_SIZE - 1

VARIABLES
  m_read_buf, m_read_idx, m_checked_idx, m_start_line,
  m_check_state,     (* "REQUESTLINE", "HEADER" or "CONTENT"               *)
  m_content_length,
  m_linger,
  line_status,       (* the local variable of process_read                 *)
  found,             (* history: what parse_line last returned             *)
  pc                 (* "read", "more" (something was received), in        *)
                     (* process_read "loop" or "line", "answer" (a         *)
                     (* response is prepared) or "closed"                  *)

buffer == <<m_read_buf, m_read_idx, m_checked_idx, m_start_line>>
parsed == <<m_check_state, m_content_length, m_linger>>
vars   == <<buffer, parsed, line_status, found, pc>>

(* http_conn::init().                                                      *)
Cleared ==
  [read_buf |-> [i \in Places |-> NUL], idx |-> 0, state |-> "REQUESTLINE"]

Init ==
  /\ m_read_buf = Cleared.read_buf
  /\ m_read_idx = Cleared.idx
  /\ m_checked_idx = Cleared.idx
  /\ m_start_line = Cleared.idx
  /\ m_check_state = Cleared.state
  /\ m_content_length = 0
  /\ m_linger = FALSE
  /\ line_status = "OK" /\ found = "none"
  /\ pc = "read"
-----------------------------------------------------------------------------
(* read()                                                                  *)

(* recv stores what is there.                                              *)
Receive(s) ==
  /\ pc \in {"read", "more"}
  /\ m_read_idx < READ_BUFFER_SIZE
  /\ m_read_buf' = [m_read_buf EXCEPT ![m_read_idx] = s]
  /\ m_read_idx' = m_read_idx + 1
  /\ pc' = "more"
  /\ UNCHANGED <<m_checked_idx, m_start_line, parsed, line_status, found>>

(* A full buffer leaves recv no room: it returns 0 if there is more to     *)
(* receive, which read() takes for the end of the connection; the next     *)
(* call of read() fails anyway.                                            *)
BufferFull ==
  /\ pc \in {"read", "more"}
  /\ m_read_idx = READ_BUFFER_SIZE
  /\ pc' = "closed"
  /\ UNCHANGED <<buffer, parsed, line_status, found>>

(* Nothing more is there (EAGAIN, with a full buffer too): read() is true, *)
(* and process is called.                                                  *)
ReadDone ==
  /\ pc = "more"
  /\ line_status' = "OK"
  /\ found' = "none"
  /\ pc' = "loop"
  /\ UNCHANGED <<buffer, parsed>>
-----------------------------------------------------------------------------
(* process_read                                                            *)

(* A place where parse_line stops: a LF, a CR before a LF, or a CR that is *)
(* the last symbol received.                                               *)
Stops(i) ==
  \/ m_read_buf[i] = "LF"
  \/ m_read_buf[i] = "CR" /\ (i + 1 = m_read_idx \/ m_read_buf[i + 1] = "LF")

StopPlaces == {i \in m_checked_idx..m_read_idx - 1 : Stops(i)}
Stop       == CHOOSE i \in StopPlaces : \A j \in StopPlaces : i <= j

(* Mutant of Cut: the LF is not overwritten.                               *)
CutFirst(i) == [m_read_buf EXCEPT ![i] = NUL]

Cut(i) == [m_read_buf EXCEPT ![i] = NUL, ![i + 1] = NUL]

(* Mutant of CrLast: a CR that is the last symbol passes for a line end.   *)
CrLastNot == FALSE

(* What follows the CR was not received yet.                               *)
CrLast == m_read_buf[Stop] = "CR" /\ Stop + 1 = m_read_idx

(* parse_line: its result, the place it moves m_checked_idx to and the     *)
(* buffer it leaves.                                                       *)
ParseLine ==
  LET line(status, checked, buf) ==
        [status |-> status, checked |-> checked, buf |-> buf]
  IN  IF StopPlaces = {} THEN line("OPEN", m_read_idx, m_read_buf)
      ELSE IF CrLast
      THEN line("OPEN", Stop, m_read_buf)
      ELSE IF m_read_buf[Stop] = "CR"
      THEN line("OK", Stop + 2, Cut(Stop))
      ELSE IF Stop > 1 /\ m_read_buf[Stop - 1] = "CR"
      THEN line("OK", Stop + 1, Cut(Stop - 1))
      ELSE line("BAD", Stop, m_read_buf)

(* The second half of the loop's condition is                              *)
(*    (line_status == parse_line()) == LINE_OK                             *)
(* which compares where it should assign: LINE_OK is 0, so it holds when   *)
(* parse_line returns anything but line_status.                            *)
GoesOn(status) == line_status # status

TestLine ==
  /\ pc = "loop"
  /\ IF m_check_state = "CONTENT" /\ line_status = "OK"
     THEN pc' = "line" /\ UNCHANGED <<buffer, found>>
     ELSE /\ m_checked_idx' = ParseLine.checked
          /\ m_read_buf' = ParseLine.buf
          /\ found' = ParseLine.status
          /\ pc' = IF GoesOn(ParseLine.status) THEN "line" ELSE "read"
          /\ UNCHANGED <<m_read_idx, m_start_line>>
  /\ UNCHANGED <<parsed, line_status>>

(* The text of a line ends at the first NUL.  Behind a full buffer lies    *)
(* m_read_idx, whose first byte is 0 when it is 2048 (READ_BUFFER_SIZE).   *)
At(i) == IF i < READ_BUFFER_SIZE THEN m_read_buf[i] ELSE NUL

(* Mutant of GoodRequestLine: an empty line is as good.                    *)
GoodRequestLineEmpty(i) == At(i) \in {"GET", NUL}

(* parse_request_line looks for blanks only: a CR or a LF is as good in    *)
(* the URL as any other word.                                              *)
GoodRequestLine(i) ==
  /\ At(i) = "GET"
  /\ \E k \in i + 1..READ_BUFFER_SIZE - 1 :
       /\ At(k) = "VERSION" /\ At(k + 1) = NUL
       /\ \A j \in i + 1..k - 1 : At(j) \in {"TEXT", "CR", "LF"}

NextLine == m_start_line' = m_checked_idx
            /\ UNCHANGED <<m_read_buf, m_read_idx, m_checked_idx>>

RequestLine ==
  /\ pc = "line" /\ m_check_state = "REQUESTLINE"
  /\ NextLine
  /\ IF GoodRequestLine(m_start_line)
     THEN m_check_state' = "HEADER" /\ pc' = "loop"
     ELSE pc' = "answer" /\ UNCHANGED m_check_state        \* BAD_REQUEST
  /\ UNCHANGED <<m_content_length, m_linger, line_status, found>>

(* Mutant of HeaderEnds: the empty line does not end the header.           *)
HeaderEndsNot(text) == FALSE

HeaderEnds(text) == text = NUL /\ m_content_length = 0

HeaderLine ==
  /\ pc = "line" /\ m_check_state = "HEADER"
  /\ NextLine
  /\ LET text == At(m_start_line)
     IN  /\ m_linger' = (m_linger \/ text = "CONN")
         /\ m_content_length' = IF text = "LENG" THEN 1 ELSE m_content_length
         /\ m_check_state' = IF text = NUL /\ m_content_length # 0
                             THEN "CONTENT" ELSE "HEADER"
         /\ pc' = IF HeaderEnds(text) THEN "answer" ELSE "loop"
  /\ UNCHANGED <<line_status, found>>

(* parse_content has no action: it is never called (lemma NeverKeptAlive   *)
(* of HttpConnProofs).                                                     *)

(* The response was sent: write() keeps the connection if m_linger says so *)
(* (init() clears everything) and has it closed otherwise.                 *)
Answered ==
  /\ pc = "answer"
  /\ IF m_linger
     THEN /\ m_read_buf' = Cleared.read_buf /\ m_read_idx' = 0
          /\ m_checked_idx' = 0 /\ m_start_line' = 0
          /\ m_check_state' = Cleared.state /\ m_content_length' = 0
          /\ m_linger' = FALSE
          /\ pc' = "read"
     ELSE pc' = "closed" /\ UNCHANGED <<buffer, parsed>>
  /\ UNCHANGED <<line_status, found>>
-----------------------------------------------------------------------------
ProcessRead == TestLine \/ RequestLine \/ HeaderLine

Next ==
  \/ \E s \in Symbols : Receive(s)
  \/ BufferFull \/ ReadDone \/ ProcessRead \/ Answered

Spec == Init /\ [][Next]_vars

(* process_read is scheduled until it returns.                             *)
FairSpec == Spec /\ WF_vars(ProcessRead)
-----------------------------------------------------------------------------
(* Properties                                                              *)

(* Every variable has its type.                                            *)
TypeOK ==
  /\ m_read_buf \in [Places -> Symbols \cup {NUL}]
  /\ {m_read_idx, m_checked_idx, m_start_line} \subseteq 0..READ_BUFFER_SIZE
  /\ m_check_state \in {"REQUESTLINE", "HEADER", "CONTENT"}
  /\ m_content_length \in Nat
  /\ m_linger \in BOOLEAN
  /\ line_status \in {"OK", "OPEN"}
  /\ found \in {"none", "OK", "BAD", "OPEN"}
  /\ pc \in {"read", "more", "loop", "line", "answer", "closed"}

(* The three indices of the buffer keep their order, whatever the segments *)
(* and wherever a CR LF pair is split: process_read never looks at what    *)
(* was not received, and nothing received lies behind the terminator that  *)
(* bzero left.                                                             *)
IndexOrder ==
  /\ TypeOK
  /\ m_start_line <= m_checked_idx /\ m_checked_idx <= m_read_idx
  /\ \A i \in Places : i >= m_read_idx => m_read_buf[i] = NUL

(* parse_line leaves no line end behind it: what m_checked_idx has passed  *)
(* is cut into NUL-terminated lines, also when CR and LF came in different *)
(* segments.                                                               *)
LinesAreCut ==
  \A i \in Places : i < m_checked_idx =>
    /\ m_read_buf[i] # "LF"
    /\ m_read_buf[i] = "CR" => At(i + 1) # "LF"

(* A file is looked for only for a connection that began with a good       *)
(* request line: no later line, header or leftover is taken for one.       *)
FileNeedsRequest ==
  m_check_state # "REQUESTLINE" => m_read_buf[0] = "GET"

InProcessRead == pc \in {"loop", "line"}

(* A request line in or behind which there is something that parse_line    *)
(* neither accepts nor passes: a bare LF, or a CR that is the last symbol. *)
StuckLine ==
  /\ m_check_state = "HEADER"
  /\ m_start_line = m_checked_idx /\ m_checked_idx < m_read_idx

(* process_read returns, unless it meets such a symbol: then the worker    *)
(* never does, the only input that makes it loop for ever.                 *)
ReturnsUnlessStuck == InProcessRead ~> (~InProcessRead \/ StuckLine)

(* process_read prints "got 1 http line" for the text it goes on to parse  *)
(* as a request line or a header: parse_line has found one.                *)
GotLine == pc = "line" /\ m_check_state # "CONTENT" => found = "OK"
=============================================================================
