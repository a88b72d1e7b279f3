--------------------------- MODULE HttpConnProofs ---------------------------
(***************************************************************************)
(* HttpConn's safety properties for every size of the read buffer, every   *)
(* input and every way it can be cut into segments.                        *)
(***************************************************************************)
EXTENDS HttpConn, WellFoundedInduction, TLAPS

(* The symbol at c stays where it is, however often parse_line is called:  *)
(* a CR that is the last symbol, or a LF that no CR precedes.              *)
StuckAt(c) ==
  /\ c < m_read_idx
  /\ \/ m_read_buf[c] = "CR" /\ c + 1 = m_read_idx
     \/ m_read_buf[c] = "LF" /\ ~ (c > 1 /\ m_read_buf[c - 1] = "CR")

(* parse_line has nothing left that it can make a line of.                 *)
Exhausted == m_checked_idx = m_read_idx \/ StuckAt(m_checked_idx)

(* What m_checked_idx has passed.  LinesAreCut alone is not inductive: a   *)
(* CR right before m_read_idx must not have been passed, or the next       *)
(* symbol received could be its LF.                                        *)
PassedInv ==
  \A i \in Places : i < m_checked_idx =>
    /\ m_read_buf[i] # "LF"
    /\ m_read_buf[i] = "CR" => i + 1 < m_read_idx /\ m_read_buf[i + 1] # "LF"

(* The loop's condition keeps complete header lines from parse_headers, so *)
(* keep-alive and a request body are never seen: HttpConn needs no action  *)
(* for parse_content, HttpServer and HttpWrite no case for m_linger.       *)
NoKeepAlive ==
  ~m_linger /\ m_content_length = 0 /\ m_check_state # "CONTENT"

(* process_read goes on past the request line only with a parse_line that  *)
(* found nothing, so the header it looks at is empty or a symbol it cannot *)
(* pass, and it never returns to read with the request line parsed.        *)
StateInv ==
  /\ line_status = "OK"
  /\ NoKeepAlive
  /\ m_check_state = "REQUESTLINE" /\ pc # "answer" /\ pc # "closed" =>
       m_start_line = 0 /\ (pc = "line" => Exhausted)
  /\ m_check_state = "HEADER" =>
       /\ m_read_buf[0] = "GET"
       /\ pc \in {"loop", "line", "answer", "closed"}
       /\ pc \in {"loop", "line"} =>
            m_start_line = m_checked_idx /\ Exhausted

(* The inductive invariant behind the properties.                          *)
ConnInv == IndexOrder /\ PassedInv /\ StateInv
-----------------------------------------------------------------------------
(* A set of numbers that is not empty has a least one: < is well-founded.  *)
LEMMA LeastPlace ==
  ASSUME NEW S, S \subseteq Nat, S # {}
  PROVE  \E i \in S : \A j \in S : i <= j
<1> DEFINE R == OpToRel(<, Nat)
<1>1. PICK i \in S : \A j \in S : <<j, i>> \notin R
  <2>1. IsWellFoundedOn(R, Nat)
    BY NatLessThanWellFounded
  <2> HIDE DEF R
  <2> QED  BY <2>1, WFMin
<1>2. \A j \in S : ~ (j < i)
  BY <1>1 DEF OpToRel
<1> HIDE DEF R
<1> QED  BY <1>2

(* Stop is the first of the places where parse_line stops.                 *)
LEMMA FirstStop ==
  ASSUME TypeOK, StopPlaces # {}
  PROVE  /\ Stop \in m_checked_idx..m_read_idx - 1 /\ Stops(Stop)
         /\ \A i \in m_checked_idx..m_read_idx - 1 : i < Stop => ~Stops(i)
<1>1. StopPlaces \subseteq Nat
  BY SizeAssumption DEF StopPlaces, TypeOK
<1>2. \E i \in StopPlaces : \A j \in StopPlaces : i <= j
  BY <1>1, LeastPlace
<1>3. Stop \in StopPlaces /\ \A j \in StopPlaces : Stop <= j
  BY <1>2 DEF Stop
<1> QED  BY <1>1, <1>3 DEF StopPlaces, TypeOK

(* What parse_line returns and leaves behind.                              *)
LEMMA ParsedLine ==
  ASSUME IndexOrder, PassedInv,
         NEW c, c = ParseLine.checked, NEW b, b = ParseLine.buf
  PROVE  /\ b \in [Places -> Symbols \cup {NUL}]
         /\ c \in m_checked_idx..m_read_idx
         /\ \A i \in Places : b[i] # m_read_buf[i] =>
              i < c /\ b[i] = NUL /\ m_read_buf[i] \in {"CR", "LF"}
         /\ \A i \in Places : i < c =>
              /\ b[i] # "LF"
              /\ b[i] = "CR" => i + 1 < m_read_idx /\ b[i + 1] # "LF"
         /\ ParseLine.status \in {"OK", "OPEN", "BAD"}
         /\ ParseLine.status # "OK" =>
              b = m_read_buf /\ (c = m_read_idx \/ StuckAt(c))
<1> USE SizeAssumption DEF IndexOrder, TypeOK, Places, NUL
<1>0. /\ m_read_idx \in 0..READ_BUFFER_SIZE /\ m_checked_idx \in 0..m_read_idx
      /\ m_read_buf \in [Places -> Symbols \cup {NUL}]
  OBVIOUS
<1>1. CASE StopPlaces = {}
  <2>1. ParseLine = [status |-> "OPEN", checked |-> m_read_idx,
                     buf |-> m_read_buf]
    BY <1>1 DEF ParseLine
  <2>2. \A i \in m_checked_idx..m_read_idx - 1 :
          /\ m_read_buf[i] # "LF"
          /\ m_read_buf[i] = "CR" =>
               i + 1 < m_read_idx /\ m_read_buf[i + 1] # "LF"
    BY <1>1 DEF StopPlaces, Stops
  <2> QED  BY <1>0, <2>1, <2>2 DEF PassedInv
<1>2. CASE StopPlaces # {}
  <2> DEFINE k == Stop
  <2>1. /\ k \in m_checked_idx..m_read_idx - 1 /\ Stops(k)
        /\ \A i \in m_checked_idx..m_read_idx - 1 : i < k => ~Stops(i)
    BY <1>2, FirstStop
  <2>2. k \in Places /\ k \in Nat
    BY <2>1
  <2>3. \A i \in Places : i < k =>
          /\ m_read_buf[i] # "LF"
          /\ m_read_buf[i] = "CR" =>
               i + 1 < m_read_idx /\ m_read_buf[i + 1] # "LF"
    BY <2>1 DEF PassedInv, Stops
  <2> HIDE DEF k
  <2>4. CASE m_read_buf[k] = "CR" /\ k + 1 = m_read_idx
    <3>1. ParseLine = [status |-> "OPEN", checked |-> k, buf |-> m_read_buf]
      BY <1>2, <2>4 DEF ParseLine, CrLast, k
    <3> QED  BY <2>1, <2>2, <2>3, <2>4, <3>1 DEF StuckAt
  <2>5. CASE m_read_buf[k] = "CR" /\ k + 1 # m_read_idx
    <3>1. ParseLine = [status |-> "OK", checked |-> k + 2, buf |-> Cut(k)]
      BY <1>2, <2>5 DEF ParseLine, CrLast, k
    <3>2. m_read_buf[k + 1] = "LF" /\ k + 1 < m_read_idx /\ k + 1 \in Places
      BY <2>1, <2>5 DEF Stops
    <3>3. /\ b \in [Places -> Symbols \cup {NUL}]
          /\ b[k] = NUL /\ b[k + 1] = NUL
          /\ \A i \in Places : i # k /\ i # k + 1 => b[i] = m_read_buf[i]
      BY <2>2, <3>1, <3>2 DEF Cut
    <3>4. \A i \in Places : i < k + 2 =>
            /\ b[i] # "LF"
            /\ b[i] = "CR" => i + 1 < m_read_idx /\ b[i + 1] # "LF"
      <4> SUFFICES ASSUME NEW i \in Places, i < k + 2
                   PROVE  /\ b[i] # "LF"
                          /\ b[i] = "CR" =>
                               i + 1 < m_read_idx /\ b[i + 1] # "LF"
        OBVIOUS
      <4>1. CASE i = k \/ i = k + 1
        BY <3>3, <4>1
      <4>2. CASE i < k
        <5>1. b[i] = m_read_buf[i] /\ i + 1 \in Places
          BY SMTT(30), <2>2, <3>3, <4>2
        <5>2. b[i + 1] = NUL \/ b[i + 1] = m_read_buf[i + 1]
          BY <2>2, <3>3, <4>2, <5>1
        <5> QED  BY <2>3, <4>2, <5>1, <5>2
      <4> QED  BY <2>2, <4>1, <4>2
    <3>5. c = k + 2 /\ c \in m_checked_idx..m_read_idx
          /\ ParseLine.status = "OK"
      BY <2>1, <3>1, <3>2
    <3>6. \A i \in Places : b[i] # m_read_buf[i] =>
            i < c /\ b[i] = NUL /\ m_read_buf[i] \in {"CR", "LF"}
      BY SMTT(30), <2>2, <2>5, <3>2, <3>3, <3>5
    <3> QED  BY <3>3, <3>4, <3>5, <3>6
  <2>6. CASE m_read_buf[k] = "LF"
    <3>1. ~ (k > 1 /\ m_read_buf[k - 1] = "CR")
      BY <2>2, <2>3, <2>6
    <3>2. ParseLine = [status |-> "BAD", checked |-> k, buf |-> m_read_buf]
      BY <1>2, <2>6, <3>1 DEF ParseLine, CrLast, k
    <3> QED  BY <2>1, <2>2, <2>3, <2>6, <3>1, <3>2 DEF StuckAt
  <2> QED  BY <2>1, <2>4, <2>5, <2>6 DEF Stops
<1> QED  BY <1>1, <1>2

(* A symbol parse_line cannot pass is found again by the next call, which  *)
(* moves nothing.                                                          *)
LEMMA StaysExhausted ==
  ASSUME IndexOrder, Exhausted
  PROVE  /\ ParseLine.status # "OK"
         /\ ParseLine.checked = m_checked_idx
         /\ ParseLine.buf = m_read_buf
<1> USE SizeAssumption DEF IndexOrder, TypeOK, Places
<1>1. CASE m_checked_idx = m_read_idx
  <2>1. StopPlaces = {}
    BY <1>1 DEF StopPlaces
  <2> QED  BY <1>1, <2>1 DEF ParseLine
<1>2. CASE StuckAt(m_checked_idx)
  <2>1. m_checked_idx \in StopPlaces
    BY <1>2 DEF StuckAt, StopPlaces, Stops
  <2>2. Stop = m_checked_idx
    BY <2>1, FirstStop DEF StopPlaces
  <2> QED  BY <1>2, <2>1, <2>2 DEF StuckAt, ParseLine, CrLast
<1> QED  BY <1>1, <1>2 DEF Exhausted

(* Nothing is received, nothing was passed.                                *)
LEMMA ConnInit == Init => ConnInv
<1> SUFFICES ASSUME Init PROVE ConnInv
  OBVIOUS
<1> USE SizeAssumption DEF Init, Cleared
<1>0. m_read_idx = 0 /\ m_checked_idx = 0 /\ m_start_line = 0
      /\ m_check_state = "REQUESTLINE" /\ m_read_buf = [i \in Places |-> NUL]
  OBVIOUS
<1>1. IndexOrder
  <2>1. {m_read_idx, m_checked_idx, m_start_line} \subseteq 0..READ_BUFFER_SIZE
    BY <1>0
  <2>2. TypeOK
    BY <1>0, <2>1 DEF TypeOK
  <2> QED  BY <1>0, <2>2 DEF IndexOrder
<1>2. PassedInv
  <2>1. m_checked_idx = 0
    OBVIOUS
  <2>2. \A i \in Places : ~ (i < 0)
    BY DEF Places
  <2> QED  BY <2>1, <2>2 DEF PassedInv
<1>3. StateInv
  <2>1. /\ m_check_state = "REQUESTLINE" /\ m_start_line = 0 /\ pc = "read"
        /\ line_status = "OK" /\ m_linger = FALSE /\ m_content_length = 0
    OBVIOUS
  <2> QED  BY <2>1 DEF StateInv, NoKeepAlive
<1> QED  BY <1>1, <1>2, <1>3 DEF ConnInv

(* Every step keeps the indices, the lines and the state of the parser.    *)
LEMMA ConnNext == ConnInv /\ [Next]_vars => ConnInv'
<1> SUFFICES ASSUME ConnInv, [Next]_vars PROVE ConnInv'
  OBVIOUS
<1> USE SizeAssumption DEF ConnInv, IndexOrder, TypeOK, NoKeepAlive, Places
<1> USE DEF buffer, parsed
<1>1. ASSUME NEW s \in Symbols, Receive(s) PROVE ConnInv'
  <2>1. /\ pc \in {"read", "more"} /\ pc' = "more"
        /\ m_read_idx \in Places /\ m_read_idx' = m_read_idx + 1
        /\ m_read_buf' = [m_read_buf EXCEPT ![m_read_idx] = s]
        /\ UNCHANGED <<m_checked_idx, m_start_line, parsed, line_status,
                       found>>
    BY <1>1 DEF Receive
  <2>2. IndexOrder'
    BY <2>1
  <2>3. PassedInv'
    BY <2>1 DEF PassedInv
  <2>4. StateInv'
    BY <2>1 DEF StateInv
  <2> QED  BY <2>2, <2>3, <2>4
<1>2. CASE BufferFull
  BY <1>2 DEF BufferFull, PassedInv, StateInv
<1>3. CASE ReadDone
  BY <1>3 DEF ReadDone, PassedInv, StateInv
<1>4. CASE TestLine
  <2>1. /\ pc = "loop" /\ m_checked_idx' = ParseLine.checked
        /\ m_read_buf' = ParseLine.buf /\ found' = ParseLine.status
        /\ pc' = IF ParseLine.status = "OK" THEN "read" ELSE "line"
        /\ UNCHANGED <<m_read_idx, m_start_line, parsed, line_status>>
    BY <1>4 DEF TestLine, StateInv, GoesOn
  <2>2. IndexOrder' /\ PassedInv'
    BY <2>1, ParsedLine DEF PassedInv
  <2>3. CASE m_check_state = "REQUESTLINE"
    <3>1. pc' = "line" => Exhausted'
      BY <2>1, ParsedLine DEF Exhausted, StuckAt
    <3> QED  BY <2>1, <2>2, <2>3, <3>1 DEF StateInv
  <2>4. CASE m_check_state = "HEADER"
    <3>1. Exhausted
      BY <2>1, <2>4 DEF StateInv
    <3>2. pc' = "line" /\ UNCHANGED <<m_checked_idx, m_read_buf>>
      BY <2>1, <3>1, StaysExhausted
    <3>3. Exhausted'
      BY <2>1, <3>1, <3>2 DEF Exhausted, StuckAt
    <3> QED  BY <2>1, <2>2, <2>4, <3>2, <3>3 DEF StateInv
  <2> QED  BY <2>3, <2>4 DEF StateInv
<1>5. CASE RequestLine
  <2>1. /\ pc = "line" /\ m_check_state = "REQUESTLINE"
        /\ m_start_line' = m_checked_idx
        /\ UNCHANGED <<m_read_buf, m_read_idx, m_checked_idx,
                       m_content_length, m_linger, line_status, found>>
        /\ \/ /\ GoodRequestLine(m_start_line)
              /\ m_check_state' = "HEADER" /\ pc' = "loop"
           \/ UNCHANGED m_check_state /\ pc' = "answer"
    BY <1>5 DEF RequestLine, NextLine
  <2>2. m_start_line = 0 /\ Exhausted /\ Exhausted'
    BY <2>1 DEF StateInv, Exhausted, StuckAt
  <2>3. GoodRequestLine(0) => m_read_buf[0] = "GET"
    BY DEF GoodRequestLine, At, NUL
  <2> QED  BY <2>1, <2>2, <2>3 DEF StateInv, PassedInv
<1>6. CASE HeaderLine
  <2>1. /\ pc = "line" /\ m_check_state = "HEADER"
        /\ m_start_line' = m_checked_idx /\ pc' \in {"answer", "loop"}
        /\ UNCHANGED <<m_read_buf, m_read_idx, m_checked_idx, line_status,
                       found>>
        /\ LET text == At(m_start_line)
           IN  /\ m_linger' = (m_linger \/ text = "CONN")
               /\ m_content_length' = IF text = "LENG" THEN 1
                                      ELSE m_content_length
               /\ m_check_state' = IF text = NUL /\ m_content_length # 0
                                   THEN "CONTENT" ELSE "HEADER"
    BY <1>6 DEF HeaderLine, NextLine
  <2>2. m_start_line = m_checked_idx /\ Exhausted /\ Exhausted'
    BY <2>1 DEF StateInv, Exhausted, StuckAt
  <2>3. At(m_start_line) \in {NUL, "CR", "LF"}
    BY <2>2 DEF At, Exhausted, StuckAt
  <2>4. ~m_linger' /\ m_content_length' = 0 /\ m_check_state' = "HEADER"
    BY <2>1, <2>3 DEF StateInv, NUL
  <2> QED  BY <2>1, <2>2, <2>4 DEF StateInv, PassedInv
<1>7. CASE Answered
  BY <1>7 DEF Answered, PassedInv, StateInv
<1>8. CASE UNCHANGED vars
  BY <1>8 DEF vars, PassedInv, StateInv, Exhausted, StuckAt
<1> QED
  BY <1>1, <1>2, <1>3, <1>4, <1>5, <1>6, <1>7, <1>8 DEF Next, ProcessRead

(* The inductive invariant holds in every reachable state.                 *)
THEOREM ParserInvariant == Spec => []ConnInv
BY ConnInit, ConnNext, PTL DEF Spec

(* The three indices of the buffer keep their order, and what lies behind  *)
(* the last symbol received is NUL.                                        *)
THEOREM IndicesInOrder == Spec => []IndexOrder
<1>1. ConnInv => IndexOrder
  BY DEF ConnInv
<1> QED  BY <1>1, ParserInvariant, PTL

(* parse_line leaves no line end behind it, wherever segments are cut.     *)
THEOREM LineEndsAreCut == Spec => []LinesAreCut
<1>1. ConnInv => LinesAreCut
  BY SizeAssumption
  DEF ConnInv, PassedInv, LinesAreCut, IndexOrder, TypeOK, At, Places, NUL
<1> QED  BY <1>1, ParserInvariant, PTL

(* Only a connection that began with a good request line gets a file.      *)
THEOREM FilesNeedRequests == Spec => []FileNeedsRequest
<1>1. ConnInv => FileNeedsRequest
  BY DEF ConnInv, StateInv, FileNeedsRequest, NoKeepAlive, IndexOrder, TypeOK
<1> QED  BY <1>1, ParserInvariant, PTL

(* Keep-alive and request bodies are never seen, which the other modules   *)
(* take from here.                                                         *)
LEMMA NeverKeptAlive == Spec => []NoKeepAlive
<1>1. ConnInv => NoKeepAlive
  BY DEF ConnInv, StateInv
<1> QED  BY <1>1, ParserInvariant, PTL
=============================================================================
