-------------------------- MODULE HttpWriteProofs ---------------------------
(***************************************************************************)
(* Proofs about http_conn's answers: the file is mapped, whole, as long as *)
(* writev may be given it, and munmap gets the right length unless a       *)
(* client hung up with a file pending.                                     *)
(***************************************************************************)
EXTENDS HttpWrite, FiniteSetTheorems, TLAPS

(* What unmap() is given as long as nobody hung up with a file pending: a  *)
(* mapping exists only while its response is sent, and m_file_stat is      *)
(* still its file's.                                                       *)
StatOfMapping ==
  m_file_address > 0 =>
    \/ abandoned > 0
    \/ /\ pc \in {"out", "write"} /\ m_iv_count = 2
       /\ maps[m_file_address] = m_file_stat

WriteInv == FileMappedWhileSent /\ StatOfMapping /\ UnmapsWhatWasMapped

(* What unmap() leaves: its variables keep their types, no mapping is      *)
(* pointed to, and the length is right if it was the mapping's.            *)
LEMMA UnmapTyped ==
  ASSUME TypeOK, Unmap
  PROVE  /\ m_file_address' = NoMap /\ m_file_stat' = m_file_stat
         /\ maps' \in Seq(Nat) /\ wrongly' \in BOOLEAN
         /\ wrongly' => \/ wrongly
                        \/ /\ m_file_address > 0
                           /\ maps[m_file_address] # m_file_stat
<1>1. CASE m_file_address > 0
  <2> DEFINE rest == maps[m_file_address] - m_file_stat
             left == IF rest > 0 THEN rest ELSE 0
  <2>1. m_file_address \in DOMAIN maps
    BY <1>1 DEF TypeOK, NoMap, Failed
  <2>2. maps \in Seq(Nat) /\ m_file_stat \in Nat /\ wrongly \in BOOLEAN
    BY DEF TypeOK
  <2>3. maps[m_file_address] \in Nat
    BY <2>1, <2>2
  <2>4. rest \in Int /\ left \in Nat
    BY <2>2, <2>3
  <2>5. /\ maps' = [maps EXCEPT ![m_file_address] = left]
        /\ wrongly' = (wrongly \/ rest # 0)
    BY <1>1 DEF Unmap
  <2>6. maps' \in Seq(Nat)
    <3> HIDE DEF left
    <3> QED  BY <2>1, <2>2, <2>4, <2>5
  <2>7. rest # 0 => maps[m_file_address] # m_file_stat
    BY <2>2, <2>3
  <2> QED  BY <1>1, <2>2, <2>5, <2>6, <2>7 DEF Unmap
<1>2. CASE ~(m_file_address > 0)
  BY <1>2 DEF Unmap, TypeOK
<1> QED  BY <1>1, <1>2

(* It holds before the first connection.                                   *)
LEMMA WriteInit == Init => WriteInv
<1> SUFFICES ASSUME Init PROVE WriteInv
  OBVIOUS
<1>1. maps \in Seq(Nat)
  BY DEF Init
<1>2. wrongly \in BOOLEAN /\ ~wrongly
  BY DEF Init
<1>3. TypeOK
  BY <1>1, <1>2, WriteAssumption DEF Init, TypeOK, NoMap
<1> QED
  BY <1>2, <1>3
  DEF Init, WriteInv, FileMappedWhileSent, StatOfMapping,
      UnmapsWhatWasMapped, NoMap

(* Every step keeps it.                                                    *)
LEMMA WriteNext == WriteInv /\ [Next]_vars => WriteInv'
<1> SUFFICES ASSUME WriteInv, [Next]_vars PROVE WriteInv'
  OBVIOUS
<1> USE WriteAssumption
        DEF WriteInv, FileMappedWhileSent, TypeOK, StatOfMapping,
            UnmapsWhatWasMapped, NoMap, Failed
<1>1. CASE InitConn
  BY <1>1 DEF InitConn, file
<1>2. CASE Hangup
  <2>1. /\ abandoned' \in Nat /\ abandoned' >= abandoned
        /\ pc \in {"reading", "out"}
        /\ pc = "out" /\ m_iv_count = 2 => abandoned' > 0
    <3>1. /\ abandoned \in Nat /\ pc \in {"reading", "out"}
          /\ abandoned' = abandoned
                            + (IF pc = "out" /\ m_iv_count = 2 THEN 1 ELSE 0)
      BY <1>2 DEF Hangup
    <3>2. CASE pc = "out" /\ m_iv_count = 2
      <4>1. abandoned' = abandoned + 1
        BY <3>1, <3>2
      <4> QED  BY <3>1, <4>1
    <3>3. CASE ~(pc = "out" /\ m_iv_count = 2)
      <4>1. abandoned' = abandoned
        BY <3>1, <3>3
      <4> QED  BY <3>1, <3>3, <4>1
    <3> QED  BY <3>2, <3>3
  <2>2. /\ pc' = "free" /\ ended' = "hangup"
        /\ UNCHANGED <<m_write_idx, m_iv_count, iov0, iov1, m_file_stat,
                       maps, m_file_address, bytes_to_send, conns, got,
                       wrongly>>
    BY <1>2 DEF Hangup, iov, file
  <2>3. TypeOK'
    BY <2>1, <2>2
  <2> QED  BY <2>1, <2>2, <2>3
<1>3. CASE PrepareError
  BY <1>3 DEF PrepareError, history
<1>4. ASSUME NEW f \in Files, PrepareFile(f) PROVE WriteInv'
  BY SMTT(30), <1>4 DEF PrepareFile, history
<1>5. CASE PrepareEmpty
  BY <1>5 DEF PrepareEmpty
<1>6. CASE WriteStart
  BY <1>6 DEF WriteStart, iov, file, history
<1>7. ASSUME NEW n \in 0..Given, Writev(n) PROVE WriteInv'
  <2>1. CASE Done(bytes_to_send')
    BY SMTT(30), <1>7, <2>1, UnmapTyped DEF Writev, iov, Given
  <2>2. CASE ~Done(bytes_to_send')
    BY <1>7, <2>2 DEF Writev, iov, file, Given
  <2> QED  BY <2>1, <2>2
<1>8. CASE WritevAgain
  BY <1>8 DEF WritevAgain, AfterAgain, iov, file
<1>9. CASE WritevFails
  BY <1>9, UnmapTyped DEF WritevFails, iov
<1>10. CASE UNCHANGED vars
  BY <1>10 DEF vars, iov, file, history
<1> QED
  BY <1>1, <1>2, <1>3, <1>4, <1>5, <1>6, <1>7, <1>8, <1>9, <1>10
  DEF Next, Write

LEMMA WriteInvariant == FairSpec => []WriteInv
BY WriteInit, WriteNext, PTL DEF FairSpec

(* FileMappedWhileSent for files of every length and any number of         *)
(* connections: writev is never given a file that is not mapped.           *)
THEOREM FileMapped == FairSpec => []FileMappedWhileSent
BY WriteInvariant, PTL DEF WriteInv

(* UnmapsWhatWasMapped for every such slot: munmap gets a wrong length     *)
(* only after a client that hung up with its file pending.                 *)
THEOREM UnmappedRight == FairSpec => []UnmapsWhatWasMapped
BY WriteInvariant, PTL DEF WriteInv
-----------------------------------------------------------------------------
(* A file's response is counted as sent once it has been given whole to    *)
(* one writev: what is left to send of the header is then 0 or less.       *)

Sending == pc \in {"out", "write"} /\ m_iv_count = 2

SentInv ==
  /\ TypeOK
  /\ pc # "free" => ended = "not"
  /\ pc = "reading" => got = "nothing"
  /\ Sending => iov0 = m_write_idx /\ got \in {"nothing", "short"}
  /\ pc = "write" => bytes_to_send <= m_write_idx
  /\ SentWhole

(* It holds before the first connection.                                   *)
LEMMA SentInit == Init => SentInv
BY WriteInit DEF Init, WriteInv, FileMappedWhileSent, SentInv, Sending,
                 SentWhole

(* Every step keeps it.                                                    *)
LEMMA SentNext == SentInv /\ TypeOK' /\ [Next]_vars => SentInv'
<1> SUFFICES ASSUME SentInv, TypeOK', [Next]_vars PROVE SentInv'
  OBVIOUS
<1> USE WriteAssumption DEF SentInv, Sending, SentWhole
<1>1. CASE InitConn
  BY <1>1 DEF InitConn
<1>2. CASE Hangup
  BY <1>2 DEF Hangup, iov
<1>3. CASE PrepareError
  BY <1>3 DEF PrepareError, history
<1>4. ASSUME NEW f \in Files, PrepareFile(f) PROVE SentInv'
  BY <1>4 DEF PrepareFile, history
<1>5. CASE PrepareEmpty
  BY <1>5 DEF PrepareEmpty
<1>6. CASE WriteStart
  BY <1>6 DEF WriteStart, iov, history, TypeOK
<1>7. ASSUME NEW n \in 0..Given, Writev(n) PROVE SentInv'
  <2>1. /\ {m_write_idx, iov0, iov1} \subseteq Nat
        /\ bytes_to_send \in Int
    BY DEF TypeOK
  <2>2. Given \in Nat /\ n \in Nat
    BY <1>7, <2>1 DEF Given
  <2>3. Given >= iov0
    BY <2>1 DEF Given
  <2>4. CASE Done(bytes_to_send')
    BY <1>7, <2>4 DEF Writev, iov
  <2>5. CASE ~Done(bytes_to_send')
    <3>1. bytes_to_send' = bytes_to_send - n /\ pc' = pc /\ pc = "write"
      BY <1>7, <2>5 DEF Writev
    <3>2. bytes_to_send' <= m_write_idx
      BY <2>1, <2>2, <3>1
    <3>3. Sending => n < Given
      <4> SUFFICES ASSUME Sending, n = Given PROVE FALSE
        BY <1>7, <2>2
      <4>1. bytes_to_send' <= 0
        BY <2>1, <2>2, <2>3, <3>1
      <4>2. bytes_to_send' <= m_write_idx - bytes_to_send'
        BY <2>1, <2>2, <3>1, <4>1
      <4> QED  BY <2>5, <4>2 DEF Done
    <3> QED  BY <1>7, <2>5, <3>1, <3>2, <3>3 DEF Writev, iov
  <2> QED  BY <2>4, <2>5
<1>8. CASE WritevAgain
  BY <1>8 DEF WritevAgain, AfterAgain, iov
<1>9. CASE WritevFails
  BY <1>9 DEF WritevFails, iov
<1>10. CASE UNCHANGED vars
  BY <1>10 DEF vars, iov, history
<1> QED
  BY <1>1, <1>2, <1>3, <1>4, <1>5, <1>6, <1>7, <1>8, <1>9, <1>10
  DEF Next, Write

(* SentWhole for files and headers of every length: no response that       *)
(* counts as sent was sent twice, and each was sent whole unless a writev  *)
(* was short.                                                              *)
THEOREM ResponseWhole == FairSpec => []SentWhole
<1>1. WriteInv => TypeOK
  BY DEF WriteInv, FileMappedWhileSent
<1>2. SentInv => SentWhole
  BY DEF SentInv
<1> QED
  BY <1>1, <1>2, WriteInvariant, SentInit, SentNext, PTL DEF FairSpec
-----------------------------------------------------------------------------
(* The mappings that are left: those nobody will unmap are no more than    *)
(* the clients that hung up with a file pending.                           *)

Live    == {i \in 1..Len(maps) : maps[i] > 0}
InUse   == IF Sending THEN {m_file_address} ELSE {}
LostInv ==
  /\ Sending => m_file_stat = iov1
  /\ Cardinality(Live \ InUse) <= abandoned

(* Live is finite, and so is every part of it.                             *)
LEMMA LiveFinite ==
  ASSUME TypeOK, NEW S
  PROVE  /\ IsFiniteSet(Live) /\ IsFiniteSet(Live \ S)
         /\ Cardinality(Live \ S) \in Nat /\ Cardinality(Live) \in Nat
<1>1. Len(maps) \in Nat
  BY DEF TypeOK
<1>2. IsFiniteSet(1..Len(maps))
  BY <1>1, FS_Interval
<1>3. Live \subseteq 1..Len(maps) /\ Live \ S \subseteq 1..Len(maps)
  BY DEF Live
<1>4. IsFiniteSet(Live) /\ IsFiniteSet(Live \ S)
  BY <1>2, <1>3, FS_Subset
<1> QED  BY <1>4, FS_CardinalityType

(* What unmap() leaves is part of what there was, without the file that    *)
(* was sent.                                                               *)
LEMMA UnmapLive ==
  ASSUME WriteInv, LostInv, Unmap
  PROVE  Live' \subseteq Live \ InUse
<1>1. CASE m_file_address > 0
  <2> DEFINE rest == maps[m_file_address] - m_file_stat
             left == IF rest > 0 THEN rest ELSE 0
  <2>1. /\ maps \in Seq(Nat) /\ m_file_stat \in Nat
        /\ m_file_address \in DOMAIN maps
    BY <1>1 DEF WriteInv, FileMappedWhileSent, TypeOK, NoMap, Failed
  <2>2. maps' = [maps EXCEPT ![m_file_address] = left]
    BY <1>1 DEF Unmap
  <2>3. Len(maps') = Len(maps) /\ Len(maps) \in Nat
    BY <2>1, <2>2
  <2>4. maps[m_file_address] \in Nat
    BY <2>1
  <2>5. left > 0 => maps[m_file_address] > 0
    BY <2>1, <2>4
  <2>6. Sending => left = 0
    <3> SUFFICES ASSUME Sending PROVE left = 0
      OBVIOUS
    <3>1. maps[m_file_address] = m_file_stat
      BY DEF Sending, WriteInv, FileMappedWhileSent, LostInv
    <3> QED  BY <2>1, <2>4, <3>1
  <2> HIDE DEF left
  <2>7. \A i \in 1..Len(maps) :
          maps'[i] = IF i = m_file_address THEN left ELSE maps[i]
    BY <2>1, <2>2
  <2>8. \A i \in Live' : i \in Live
    BY <2>3, <2>5, <2>7 DEF Live
  <2>9. Sending => m_file_address \notin Live'
    BY <2>3, <2>6, <2>7 DEF Live
  <2> QED  BY <2>8, <2>9 DEF InUse
<1>2. CASE ~(m_file_address > 0)
  BY <1>2 DEF Unmap, Live, InUse, Sending, WriteInv, FileMappedWhileSent
<1> QED  BY <1>1, <1>2

(* It holds before the first connection.                                   *)
LEMMA LostInit == Init => LostInv
<1> SUFFICES ASSUME Init PROVE LostInv
  OBVIOUS
<1>1. Live \ InUse = {}
  BY DEF Init, Live
<1> QED  BY <1>1, FS_EmptySet DEF Init, LostInv, Sending

(* Every step keeps it.                                                    *)
LEMMA LostNext == WriteInv /\ LostInv /\ TypeOK' /\ [Next]_vars => LostInv'
<1> SUFFICES ASSUME WriteInv, LostInv, TypeOK', [Next]_vars PROVE LostInv'
  OBVIOUS
<1>t. TypeOK
  BY DEF WriteInv, FileMappedWhileSent
<1>f. IsFiniteSet(Live \ InUse) /\ Cardinality(Live \ InUse) \in Nat
  BY <1>t, LiveFinite
<1>n. abandoned \in Nat
  BY <1>t DEF TypeOK
<1>s. ASSUME ~Sending', abandoned' = abandoned,
             Live' \subseteq Live \ InUse
      PROVE  LostInv'
  <2>1. Live' \ InUse' \subseteq Live \ InUse
    BY <1>s
  <2>2. /\ Cardinality(Live' \ InUse') <= Cardinality(Live \ InUse)
        /\ Cardinality(Live' \ InUse') \in Nat
    BY <1>f, <2>1, FS_Subset, FS_CardinalityType
  <2> QED  BY <1>f, <1>n, <1>s, <2>2 DEF LostInv
<1>1. CASE InitConn
  BY <1>1, <1>s DEF InitConn, Sending, InUse, Live, file
<1>2. CASE Hangup
  <2>1. ~Sending' /\ Live' = Live /\ InUse' = {}
    BY <1>2 DEF Hangup, Sending, Live, InUse, file
  <2>2. CASE Sending
    <3>1. abandoned' = abandoned + 1
      BY <1>2, <2>2 DEF Hangup, Sending, WriteInv, FileMappedWhileSent
    <3>2. IsFiniteSet(Live) /\ Cardinality(Live) \in Nat
      BY <1>t, LiveFinite
    <3>3. Cardinality(Live) <= Cardinality(Live \ InUse) + 1
      BY <2>2, <3>2, FS_RemoveElement, <1>f DEF InUse
    <3>4. Live' \ InUse' = Live
      BY <2>1
    <3> QED  BY <1>f, <1>n, <2>1, <3>1, <3>2, <3>3, <3>4 DEF LostInv
  <2>3. CASE ~Sending
    <3>1. Live' \ InUse' = Live \ InUse
      BY <2>1, <2>3 DEF InUse
    <3>2. abandoned' >= abandoned /\ abandoned' \in Nat
      BY <1>2, <1>n DEF Hangup
    <3> QED  BY <1>f, <1>n, <2>1, <3>1, <3>2 DEF LostInv
  <2> QED  BY <2>2, <2>3
<1>3. CASE PrepareError
  BY <1>3, <1>s DEF PrepareError, Sending, InUse, Live, history
<1>4. ASSUME NEW f \in Files, PrepareFile(f) PROVE LostInv'
  <2>1. maps \in Seq(Nat) /\ f \in Nat
    BY <1>t, WriteAssumption DEF TypeOK
  <2>2. maps' = Append(maps, f) /\ m_file_address' = Len(maps')
    BY <1>4 DEF PrepareFile
  <2>3. /\ Len(maps') = Len(maps) + 1 /\ Len(maps) \in Nat
        /\ \A i \in 1..Len(maps) : maps'[i] = maps[i]
    BY <2>1, <2>2
  <2>4. Sending' /\ ~Sending /\ abandoned' = abandoned
        /\ m_file_stat' = iov1'
    BY <1>4 DEF PrepareFile, Sending, history
  <2>5. InUse' = {Len(maps) + 1} /\ InUse = {}
    BY <2>2, <2>3, <2>4 DEF InUse
  <2>6. Live' \ InUse' = Live \ InUse
    BY <2>3, <2>5 DEF Live
  <2> QED  BY <2>4, <2>6 DEF LostInv
<1>5. CASE PrepareEmpty
  BY <1>5, <1>s DEF PrepareEmpty, Sending, InUse, Live
<1>6. CASE WriteStart
  BY <1>6 DEF WriteStart, LostInv, Sending, InUse, Live, iov, file, history
<1>7. ASSUME NEW n \in 0..Given, Writev(n) PROVE LostInv'
  <2>1. CASE Done(bytes_to_send')
    <3>1. Unmap /\ ~Sending' /\ abandoned' = abandoned
      BY <1>7, <2>1 DEF Writev, Sending
    <3> QED  BY <1>s, <3>1, UnmapLive
  <2>2. CASE ~Done(bytes_to_send')
    BY <1>7, <2>2 DEF Writev, LostInv, Sending, InUse, Live, iov, file
  <2> QED  BY <2>1, <2>2
<1>8. CASE WritevAgain
  BY <1>8 DEF WritevAgain, AfterAgain, LostInv, Sending, InUse, Live, iov,
              file
<1>9. CASE WritevFails
  <2>1. Unmap /\ ~Sending' /\ abandoned' = abandoned
    BY <1>9 DEF WritevFails, Sending
  <2> QED  BY <1>s, <2>1, UnmapLive
<1>10. CASE UNCHANGED vars
  BY <1>10 DEF vars, LostInv, Sending, InUse, Live, iov, file, history
<1> QED
  BY <1>1, <1>2, <1>3, <1>4, <1>5, <1>6, <1>7, <1>8, <1>9, <1>10
  DEF Next, Write

(* The file that is sent is the one m_file_address names.                  *)
LEMMA LostIsLost == WriteInv /\ LostInv => MappingsLost
<1> SUFFICES ASSUME WriteInv, LostInv PROVE MappingsLost
  OBVIOUS
<1> DEFINE Lost == Live \ {m_file_address}
<1>1. TypeOK /\ abandoned \in Nat
  BY DEF WriteInv, FileMappedWhileSent, TypeOK
<1>2. /\ IsFiniteSet(Live \ InUse) /\ Cardinality(Live \ InUse) \in Nat
      /\ Cardinality(Lost) \in Nat
  BY <1>1, LiveFinite
<1>3. Lost \subseteq Live \ InUse
  BY DEF InUse
<1>4. Cardinality(Lost) <= Cardinality(Live \ InUse)
  BY <1>2, <1>3, FS_Subset
<1>5. Cardinality(Lost) <= abandoned
  BY <1>1, <1>2, <1>4 DEF LostInv
<1> QED  BY <1>5 DEF MappingsLost, Live

(* MappingsLost for any number of connections: each mapping nobody can     *)
(* unmap any more is the doing of a client that hung up.                   *)
THEOREM LostToHangups == FairSpec => []MappingsLost
<1>1. WriteInv => TypeOK
  BY DEF WriteInv, FileMappedWhileSent
<1> QED
  BY <1>1, WriteInvariant, LostInit, LostNext, LostIsLost, PTL DEF FairSpec
=============================================================================
