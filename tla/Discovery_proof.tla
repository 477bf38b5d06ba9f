-------------------------- MODULE Discovery_proof --------------------------
(***************************************************************************)
(* Proofs about Discovery.tla, for any number of nodes, scans, updates     *)
(* and messages: every variable keeps its type, the next test for missing  *)
(* nodes is never forgotten, and the network is told to drop only nodes    *)
(* that every report named, or a command, unless something has upset the   *)
(* test.                                                                   *)
(***************************************************************************)
EXTENDS Discovery, FiniteSetTheorems, TLAPS

\* What the two theorems at the end rest on.
IInv == TypeOK /\ ScanNeverForgotten

\* What a handler that decides about the test leaves behind.
Decides == /\ scan' \in ScanState /\ shadow' \in ShadowState /\ OfDevices(shadow)'
           /\ lacking' \in Messages
           /\ timer' \in ScanTimer \cup {"dead"}
           /\ timer' = "Init" => ~scan'.testing
----------------------------------------------------------------------------
(* A request is counted among the reports owed, up to the bound.           *)
LEMMA TransmittedType ==
  ASSUME NEW s \in ScanState
  PROVE  /\ Transmitted(s) \in ScanState
         /\ Transmitted(s).testing = s.testing
  BY DiscoveryAssumption DEF Transmitted, ScanState, Least, DiscoveryAssumption

(* The end of a test leaves the state of a test that is over.              *)
LEMMA EndedScanType ==
  ASSUME NEW s \in ScanState
  PROVE  EndedScan(s) \in ScanState /\ ~EndedScan(s).testing
<1> DEFINE f == IF s.flushing > 0 THEN s.flushing - 1 ELSE 0
<1>1. f \in 0 .. 2 /\ 0 \in 0 .. Updates
  BY DiscoveryAssumption DEF ScanState, DiscoveryAssumption
<1>2. EndedScan(s) = [s EXCEPT !.updates = 0, !.testing = FALSE, !.delete = FALSE,
                               !.flushing = f]
  BY DEF EndedScan
<1> HIDE DEF f
<1> QED
  BY <1>1, <1>2 DEF ScanState

(* Forgetting devices forgets their marks as well.                         *)
LEMMA ForgetType ==
  ASSUME NEW sh \in ShadowState, OfDevices(sh), NEW gone
  PROVE  Forget(sh, gone) \in ShadowState /\ OfDevices(Forget(sh, gone))
  BY DEF Forget, ShadowState, OfDevices

(* The end of a test schedules the next one.                               *)
LEMMA EndOfTestDecides ==
  ASSUME NEW s \in ScanState, NEW sh \in ShadowState, OfDevices(sh), lacking \in Messages,
         EndOfTest(s, sh)
  PROVE  Decides
<1>1. scan' \in ScanState /\ ~scan'.testing
  BY EndedScanType DEF EndOfTest
<1>2. shadow' \in ShadowState /\ OfDevices(shadow)'
  BY ForgetType DEF EndOfTest, OfDevices
<1>3. lacking' \in Messages /\ timer' \in {"Init", "dead"}
  BY DEF EndOfTest, Arm
<1> QED
  BY <1>1, <1>2, <1>3 DEF Decides, ScanTimer

(* An update, or the lack of a buffer for it, sets the timer for the next. *)
LEMMA SendRemovalDecides ==
  ASSUME NEW s \in ScanState, NEW sh \in ShadowState, OfDevices(sh), lacking \in Messages,
         s.updates < Updates, SendRemoval(s, sh)
  PROVE  Decides
<1>1. [s EXCEPT !.updates = @ + 1] \in ScanState
  BY DiscoveryAssumption DEF ScanState, DiscoveryAssumption
<1>2. scan' \in ScanState
  BY <1>1, TransmittedType DEF SendRemoval
<1>3. lacking' \in Messages
  BY DEF SendRemoval, Buffer, NoBuffer, Messages
<1> QED
  BY <1>2, <1>3 DEF SendRemoval, Arm, Decides, ScanTimer, OfDevices

(* Turning the nodes to remove into the nodes to keep keeps the type.      *)
LEMMA KeepOthersType ==
  ASSUME NEW s \in ScanState, map \in SUBSET Sid
  PROVE  KeepOthers(s) \in ScanState /\ KeepOthers(s).updates = s.updates
  BY DEF KeepOthers, ScanState

(* Whichever way the second half of a test goes, a timer is set.           *)
LEMMA UpdateMapDecides ==
  ASSUME NEW s \in ScanState, NEW sh \in ShadowState, OfDevices(sh), lacking \in Messages,
         map \in SUBSET Sid, TestMissingUpdateMapAtEnd(s, sh)
  PROVE  Decides
<1>1. CASE EndOfTest(s, sh)
  BY <1>1, EndOfTestDecides
<1>2. CASE EndOfTest([KeepOthers(s) EXCEPT !.flushing = 0], sh)
  <2>1. [KeepOthers(s) EXCEPT !.flushing = 0] \in ScanState
    BY KeepOthersType DEF ScanState
  <2> QED
    BY <1>2, <2>1, EndOfTestDecides
<1>3. CASE s.updates < Updates /\ SendRemoval(KeepOthers(s), sh)
  BY <1>3, KeepOthersType, SendRemovalDecides
<1>4. CASE s.updates < Updates /\ SendRemoval(s, sh)
  BY <1>4, SendRemovalDecides
<1> QED
  BY <1>1, <1>2, <1>3, <1>4 DEF TestMissingUpdateMapAtEnd

(* A request, the lack of a buffer for it, or the end of the time sets it. *)
LEMMA ContinueDecides ==
  ASSUME NEW s \in ScanState, NEW sh \in ShadowState, OfDevices(sh), lacking \in Messages,
         map \in SUBSET Sid, TestMissingContinue(s, sh)
  PROVE  Decides
<1>1. CASE TestMissingUpdateMapAtEnd([s EXCEPT !.ranOut = TRUE], sh)
  <2>1. [s EXCEPT !.ranOut = TRUE] \in ScanState
    BY DEF ScanState
  <2> QED
    BY <1>1, <2>1, UpdateMapDecides
<1>2. CASE shadow' = sh /\ Arm("Timeout") /\ NoBuffer("request") /\ scan' = s
  BY <1>2 DEF Decides, Arm, NoBuffer, Messages, ScanTimer, OfDevices
<1>3. CASE /\ shadow' = sh /\ Arm("Timeout") /\ Buffer
           /\ scan' = Transmitted([s EXCEPT !.outstanding = @ + 1])
  <2>1. [s EXCEPT !.outstanding = @ + 1] \in ScanState
    BY DEF ScanState
  <2> QED
    BY <1>3, <2>1, TransmittedType DEF Decides, Arm, Buffer, Messages, ScanTimer, OfDevices
<1> QED
  BY <1>1, <1>2, <1>3 DEF TestMissingContinue

(* A test that begins, or cannot, sets the timer; one that runs keeps it.  *)
LEMMA InitScanDecides ==
  ASSUME NEW s \in ScanState, TypeOK, InitMissingNodeScan(s)
  PROVE  /\ late' \in BOOLEAN
         /\ \/ s.testing /\ scan' = s /\ UNCHANGED <<timer, lacking>>
            \/ UNCHANGED shadow => Decides
<1> DEFINE f == IF shadow.inNetwork THEN s.flushing ELSE 0
           fresh == [Idle EXCEPT !.delete = s.delete, !.removal = Sid, !.owed = s.owed,
                                 !.flushing = f]
<1>1. fresh \in ScanState /\ ~fresh.testing
  <2>1. 0 \in 0 .. Updates /\ 0 \in 0 .. Scans
    BY DiscoveryAssumption DEF DiscoveryAssumption
  <2>2. f \in 0 .. 2 /\ s.delete \in BOOLEAN /\ s.owed \in 0 .. MaxAsked
    BY DEF ScanState
  <2> HIDE DEF f
  <2> QED
    BY <2>1, <2>2 DEF Idle, ScanState
<1>2. [fresh EXCEPT !.testing = TRUE, !.outstanding = 1] \in ScanState
  BY <1>1 DEF ScanState
<1> HIDE DEF fresh
<1>3. CASE s.testing /\ scan' = s /\ UNCHANGED <<timer, late, lacking>>
  BY <1>3 DEF TypeOK
<1>4. CASE /\ scan' = Transmitted([fresh EXCEPT !.testing = TRUE, !.outstanding = 1])
           /\ Buffer /\ Arm("Timeout") /\ late' = FALSE
  BY <1>2, <1>4, TransmittedType DEF Decides, Arm, Buffer, Messages, ScanTimer, TypeOK, OfDevices
<1>5. CASE /\ NoBuffer("request") \/ UNCHANGED lacking
           /\ scan' = fresh /\ Arm("Init") /\ UNCHANGED late
  BY <1>1, <1>5 DEF Decides, Arm, NoBuffer, Messages, ScanTimer, TypeOK, OfDevices
<1> QED
  BY <1>3, <1>4, <1>5 DEF InitMissingNodeScan, fresh

(* The history variables stay within their types.                          *)
LEMMA NoteType ==
  ASSUME NEW named \in SUBSET Sid, Note(named)
  PROVE  suspects' \in SUBSET Sid /\ upset' \in BOOLEAN
<1>1. upset' \in BOOLEAN
  BY Zenon DEF Note
<1>2. suspects' \in SUBSET Sid
  BY DEF Note
<1> QED
  BY <1>1, <1>2
----------------------------------------------------------------------------
(* The initial state: the first test is scheduled.                         *)
LEMMA InitEstablishesInvariant == Init => IInv
<1> SUFFICES ASSUME Init PROVE IInv
  OBVIOUS
<1>1. scan \in ScanState
  <2>1. 0 \in 0 .. Updates /\ 0 \in 0 .. Scans /\ 0 \in 0 .. MaxAsked
    BY DiscoveryAssumption DEF DiscoveryAssumption
  <2> QED
    BY <2>1 DEF Init, Idle, ScanState
<1>2. shadow \in ShadowState /\ OfDevices(shadow)
  BY DiscoveryAssumption DEF DiscoveryAssumption, Init, ShadowState, OfDevices
<1>3. timer \in ScanTimer \cup {"none", "dead"} /\ posted \in Seq(ScanTimer)
  BY DEF Init, ScanTimer
<1>4. /\ late \in BOOLEAN /\ map \in SUBSET Sid /\ learning \in BOOLEAN
      /\ command \in {"none", "test", "testDelete", "stop"} /\ mapAsked \in BOOLEAN
      /\ lacking \in Messages /\ left \in Nat
      /\ suspects \in SUBSET Sid /\ upset \in BOOLEAN
  BY DiscoveryAssumption DEF DiscoveryAssumption, Init, Messages
<1>5. ScanNeverForgotten
  BY DEF Init, Idle, ScanNeverForgotten
<1> QED
  BY <1>1, <1>2, <1>3, <1>4, <1>5 DEF IInv, TypeOK

(* A handler that has decided about the test keeps the invariant.          *)
LEMMA DecisionKeepsInvariant ==
  ASSUME TypeOK, Decides, posted' \in Seq(ScanTimer), late' \in BOOLEAN,
         map' \in SUBSET Sid, learning' \in BOOLEAN, mapAsked' \in BOOLEAN,
         command' \in {"none", "test", "testDelete", "stop"},
         left' \in Nat, suspects' \in SUBSET Sid, upset' \in BOOLEAN
  PROVE  IInv'
  BY DEF Decides, IInv, TypeOK, ScanNeverForgotten, ScanTimer

(* A step that leaves the test and its timer alone keeps the invariant.    *)
LEMMA ElsewhereKeepsInvariant ==
  ASSUME IInv, scan' \in ScanState, scan'.testing = scan.testing,
         UNCHANGED <<timer, posted>>,
         shadow' \in ShadowState, OfDevices(shadow)', late' \in BOOLEAN,
         map' \in SUBSET Sid, learning' \in BOOLEAN, mapAsked' \in BOOLEAN,
         command' \in {"none", "test", "testDelete", "stop"}, lacking' \in Messages,
         left' \in Nat, suspects' \in SUBSET Sid, upset' \in BOOLEAN
  PROVE  IInv'
  BY DEF IInv, TypeOK, ScanNeverForgotten
----------------------------------------------------------------------------
(* Steps of the timer.                                                     *)
LEMMA TimerStepsKeepInvariant ==
  ASSUME IInv, TimePasses \/ TimerFires \/ HandleTimer
  PROVE  IInv'
<1>1. CASE TimePasses
  BY <1>1, ElsewhereKeepsInvariant DEF TimePasses, IInv, TypeOK, OfDevices
<1>2. CASE TimerFires
  <2>1. timer \in ScanTimer /\ posted \in Seq(ScanTimer)
    BY <1>2 DEF TimerFires, IInv, TypeOK
  <2>2. CASE timer' = "dead" /\ UNCHANGED posted
    BY <1>2, <2>1, <2>2 DEF TimerFires, IInv, TypeOK, ScanNeverForgotten, OfDevices
  <2>3. CASE timer' = "none" /\ posted' = <<timer>> \o posted
    <3>1. posted' \in Seq(ScanTimer) /\ posted' # <<>> /\ Head(posted') = timer
      BY <2>1, <2>3
    <3>2. ScanNeverForgotten'
      BY <1>2, <2>3, <3>1 DEF TimerFires, IInv, ScanNeverForgotten
    <3>3. TypeOK'
      BY <1>2, <2>3, <3>1 DEF TimerFires, IInv, TypeOK, OfDevices
    <3> QED
      BY <3>2, <3>3 DEF IInv
  <2> QED
    BY <1>2, <2>2, <2>3 DEF TimerFires
<1>3. CASE HandleTimer
  <2>1. /\ TypeOK /\ scan \in ScanState /\ shadow \in ShadowState /\ OfDevices(shadow)
        /\ lacking \in Messages /\ map \in SUBSET Sid /\ late \in BOOLEAN
        /\ posted \in Seq(ScanTimer) /\ suspects \in SUBSET Sid
    BY DEF IInv, TypeOK
  <2>2. posted # <<>> /\ posted' = Tail(posted) /\ posted' \in Seq(ScanTimer)
    BY <1>3, <2>1 DEF HandleTimer
  <2>3. suspects' \in SUBSET Sid /\ upset' \in BOOLEAN
    BY <1>3, <2>1, NoteType DEF HandleTimer
  <2>4. ASSUME Decides, late' \in BOOLEAN PROVE IInv'
    <3>1. UNCHANGED <<map, learning, command, mapAsked, left>>
      BY <1>3 DEF HandleTimer
    <3> QED
      BY <2>1, <2>2, <2>3, <2>4, <3>1, DecisionKeepsInvariant DEF TypeOK
  <2>5. CASE /\ Head(posted) = "Init" /\ UNCHANGED shadow
             /\ InitMissingNodeScan([scan EXCEPT !.delete = TRUE])
    <3>1. /\ [scan EXCEPT !.delete = TRUE] \in ScanState
          /\ [scan EXCEPT !.delete = TRUE].testing = scan.testing
      BY <2>1 DEF ScanState
    <3>2. CASE Decides /\ late' \in BOOLEAN
      BY <3>2, <2>4
    <3>3. CASE /\ scan.testing /\ scan' = [scan EXCEPT !.delete = TRUE]
               /\ UNCHANGED <<timer, lacking>> /\ late' \in BOOLEAN
      <4>1. timer # "none" /\ timer # "Init"
        BY <2>2, <2>5, <3>3 DEF IInv, ScanNeverForgotten
      <4>2. Decides
        BY <2>1, <2>5, <3>1, <3>3, <4>1 DEF Decides, TypeOK, OfDevices
      <4> QED
        BY <2>4, <3>3, <4>2
    <3> QED
      BY <2>1, <2>5, <3>1, <3>2, <3>3, InitScanDecides
  <2>6. CASE TestMissingContinue(scan, shadow) /\ UNCHANGED late
    BY <2>1, <2>4, <2>6, ContinueDecides
  <2>7. CASE TestMissingUpdateMapAtEnd(scan, shadow) /\ UNCHANGED late
    BY <2>1, <2>4, <2>7, UpdateMapDecides
  <2> QED
    BY <1>3, <2>5, <2>6, <2>7 DEF HandleTimer
<1> QED
  BY <1>1, <1>2, <1>3
----------------------------------------------------------------------------
(* A report that counts uses up a request.                                 *)
LEMMA CountedType ==
  ASSUME NEW s \in ScanState, s.outstanding > 0, NEW r \in SUBSET Device
  PROVE  Counted(s, r) \in ScanState
<1> DEFINE n == Least(s.replies + 1, Scans)
           m == s.outstanding - 1
<1>1. n \in 0 .. Scans /\ m \in Nat
  BY DiscoveryAssumption DEF DiscoveryAssumption, ScanState, Least
<1>2. Counted(s, r) = [s EXCEPT !.replies = n, !.outstanding = m, !.removal = @ \cap r]
  BY DEF Counted
<1> HIDE DEF n, m
<1> QED
  BY <1>1, <1>2 DEF ScanState

(* A report that counts decides about the test in one way or another.      *)
LEMMA ReportDecides ==
  ASSUME NEW s \in ScanState, NEW r \in SUBSET Device, TypeOK, ReportCounts(s)
  PROVE  Decides
<1>1. /\ shadow \in ShadowState /\ OfDevices(shadow) /\ lacking \in Messages
      /\ map \in SUBSET Sid
  BY DEF TypeOK
<1>2. CASE TestMissingUpdateMapAtEnd(s, Judged(shadow, s.removal))
  <2>1. Judged(shadow, s.removal) \in ShadowState /\ OfDevices(Judged(shadow, s.removal))
    BY <1>1 DEF Judged, ShadowState, OfDevices
  <2> QED
    BY <1>1, <1>2, <2>1, UpdateMapDecides
<1>3. CASE TestMissingContinue(s, shadow)
  BY <1>1, <1>3, ContinueDecides
<1>4. CASE scan' = s /\ Arm("Continue") /\ UNCHANGED <<shadow, lacking>>
  BY <1>1, <1>4 DEF Decides, Arm, ScanTimer, OfDevices
<1> QED
  BY <1>2, <1>3, <1>4 DEF ReportCounts

(* A report of missing nodes keeps the invariant, whether it counts, comes *)
(* too late, acknowledges an update, or was not asked for.                 *)
LEMMA MissingNodeReportKeepsInvariant ==
  ASSUME IInv, NEW r \in SUBSET Device, MissingNodeReport(r)
  PROVE  IInv'
<1> DEFINE s == [scan EXCEPT !.owed = @ - 1]
<1>1. /\ TypeOK /\ scan \in ScanState /\ shadow \in ShadowState /\ OfDevices(shadow)
      /\ lacking \in Messages /\ map \in SUBSET Sid /\ suspects \in SUBSET Sid
  BY DEF IInv, TypeOK
<1>2. s \in ScanState /\ s.testing = scan.testing
  <2>1. scan.owed > 0
    BY DEF MissingNodeReport
  <2>2. scan.owed - 1 \in 0 .. MaxAsked
    BY <1>1, <2>1, DiscoveryAssumption DEF ScanState, DiscoveryAssumption
  <2> QED
    BY <1>1, <2>2 DEF ScanState
<1>3. UNCHANGED <<posted, late, map, learning, command, mapAsked, left>>
  BY DEF MissingNodeReport
<1>4. suspects' \in SUBSET Sid /\ upset' \in BOOLEAN
  <2>1. PICK named \in SUBSET Sid : Note(named)
    BY <1>1 DEF MissingNodeReport
  <2> QED
    BY <2>1, NoteType
<1>5. ASSUME Decides PROVE IInv'
  BY <1>1, <1>3, <1>4, <1>5, DecisionKeepsInvariant DEF TypeOK
<1> HIDE DEF s
<1>6. CASE TestMissingUpdateMapAtEnd([s EXCEPT !.ranOut = TRUE], shadow)
  <2>1. [s EXCEPT !.ranOut = TRUE] \in ScanState
    BY <1>2 DEF ScanState
  <2> QED
    BY <1>1, <1>5, <1>6, <2>1, UpdateMapDecides
<1>7. CASE s.outstanding > 0 /\ ReportCounts(Counted(s, r))
  BY <1>1, <1>2, <1>5, <1>7, CountedType, ReportDecides
<1>8. CASE TestMissingUpdateMapAtEnd([s EXCEPT !.updates = Updates], shadow)
  <2>1. [s EXCEPT !.updates = Updates] \in ScanState
    BY <1>2, DiscoveryAssumption DEF ScanState, DiscoveryAssumption
  <2> QED
    BY <1>1, <1>5, <1>8, <2>1, UpdateMapDecides
<1>9. CASE scan' = s /\ UNCHANGED <<shadow, timer, lacking>>
  BY <1>1, <1>2, <1>3, <1>4, <1>9, ElsewhereKeepsInvariant DEF TypeOK, OfDevices
<1> QED
  BY <1>6, <1>7, <1>8, <1>9 DEF MissingNodeReport, s

(* SID maps, tested devices and the end of waiting for a test.             *)
LEMMA RadioStepsKeepInvariant ==
  ASSUME IInv,
         \/ Refresh
         \/ \E m \in Maps : ProcessSIDMap(m) \/ ProcessSIDMapUpdate(m)
         \/ \E d \in Device, real \in BOOLEAN : ProcessDeviceTested(d, real)
  PROVE  IInv'
<1>1. /\ TypeOK /\ scan \in ScanState /\ shadow \in ShadowState /\ OfDevices(shadow)
      /\ suspects \in SUBSET Sid
  BY DEF IInv, TypeOK
<1>2. Event => left' \in Nat
  BY DEF Event, IInv, TypeOK
<1>3. CASE Refresh
  BY <1>1, <1>3, ElsewhereKeepsInvariant DEF Refresh, IInv, TypeOK, OfDevices
<1>4. ASSUME NEW m \in Maps, ProcessSIDMap(m) PROVE IInv'
  <2>1. m \in SUBSET Sid
    BY DiscoveryAssumption DEF Maps, Device, DiscoveryAssumption
  <2>2. suspects' \in SUBSET Sid /\ upset' \in BOOLEAN
    BY <1>1, <1>4, NoteType DEF ProcessSIDMap
  <2>3. shadow' \in ShadowState /\ OfDevices(shadow)'
    <3>1. (Cardinality(m) > 1) \in BOOLEAN
      OBVIOUS
    <3> QED
      BY <1>1, <1>4, <3>1 DEF ProcessSIDMap, ShadowState, OfDevices
  <2>4. /\ UNCHANGED <<scan, timer, posted, late, learning, command, lacking>>
        /\ map' = m /\ mapAsked' = FALSE /\ left' \in Nat
    BY <1>1, <1>2, <1>4 DEF ProcessSIDMap, TypeOK
  <2> QED
    BY <1>1, <2>1, <2>2, <2>3, <2>4, ElsewhereKeepsInvariant DEF TypeOK
<1>5. ASSUME NEW m \in Maps, ProcessSIDMapUpdate(m) PROVE IInv'
  <2>1. shadow' \in ShadowState /\ OfDevices(shadow)'
    BY <1>1, <1>5 DEF ProcessSIDMapUpdate, ShadowState, OfDevices
  <2> QED
    BY <1>1, <1>2, <1>5, <2>1, ElsewhereKeepsInvariant DEF ProcessSIDMapUpdate, TypeOK
<1>6. ASSUME NEW d \in Device, NEW real \in BOOLEAN, ProcessDeviceTested(d, real)
      PROVE  IInv'
  <2>1. shadow' \in ShadowState /\ OfDevices(shadow)'
    BY <1>1, <1>6 DEF ProcessDeviceTested, ShadowState, OfDevices
  <2> QED
    BY <1>1, <1>2, <1>6, <2>1, ElsewhereKeepsInvariant DEF ProcessDeviceTested, TypeOK
<1> QED
  BY <1>3, <1>4, <1>5, <1>6
----------------------------------------------------------------------------
(* The platform's commands that leave the test alone: they are posted, or  *)
(* change the state that is reported.                                      *)
LEMMA CommandsKeepInvariant ==
  ASSUME IInv,
         \/ \E del \in {"test", "testDelete"} : BeginTestMode(del)
         \/ StopTestMode
         \/ \E enabled \in BOOLEAN : LearnMode(enabled)
  PROVE  IInv'
<1>1. /\ TypeOK /\ scan \in ScanState /\ shadow \in ShadowState /\ OfDevices(shadow)
      /\ suspects \in SUBSET Sid /\ lacking \in Messages
  BY DEF IInv, TypeOK
<1>2. Event => left' \in Nat
  BY DEF Event, IInv, TypeOK
<1>3. ASSUME NEW del \in {"test", "testDelete"}, BeginTestMode(del) PROVE IInv'
  <2>1. shadow' \in ShadowState /\ OfDevices(shadow)'
    BY <1>1, <1>3 DEF BeginTestMode, ShadowState, OfDevices
  <2>2. lacking' \in Messages
    BY <1>1, <1>3 DEF BeginTestMode
  <2>3. command' \in {"none", "test", "testDelete", "stop"}
    BY <1>1, <1>3 DEF BeginTestMode, TypeOK
  <2> QED
    BY <1>1, <1>2, <1>3, <2>1, <2>2, <2>3, ElsewhereKeepsInvariant DEF BeginTestMode, TypeOK
<1>4. CASE StopTestMode
  BY <1>1, <1>4, ElsewhereKeepsInvariant DEF StopTestMode, TypeOK, OfDevices
<1>5. ASSUME NEW enabled \in BOOLEAN, LearnMode(enabled) PROVE IInv'
  <2>1. shadow' \in ShadowState /\ OfDevices(shadow)'
    BY <1>1, <1>5 DEF LearnMode, ShadowState, OfDevices
  <2> QED
    BY <1>1, <1>2, <1>5, <2>1, ElsewhereKeepsInvariant DEF LearnMode, TypeOK
<1> QED
  BY <1>3, <1>4, <1>5

(* The end of a test that is given up.                                     *)
LEMMA CancelledType ==
  ASSUME TypeOK
  PROVE  /\ CancelledScan \in ScanState
         /\ CancelledShadow \in ShadowState /\ OfDevices(CancelledShadow)
<1>1. /\ scan \in ScanState /\ shadow \in ShadowState /\ OfDevices(shadow)
  BY DEF TypeOK
<1>2. [scan EXCEPT !.ranOut = TRUE] \in ScanState
  BY <1>1 DEF ScanState
<1> QED
  BY <1>1, <1>2, EndedScanType, ForgetType DEF CancelledScan, CancelledShadow

(* The command that starts or stops a test.                                *)
LEMMA TestModeKeepsInvariant ==
  ASSUME IInv, TestMode
  PROVE  IInv'
<1> DEFINE s == [scan EXCEPT !.delete = (command = "testDelete")]
<1>1. /\ TypeOK /\ scan \in ScanState /\ shadow \in ShadowState /\ OfDevices(shadow)
      /\ lacking \in Messages /\ map \in SUBSET Sid /\ suspects \in SUBSET Sid
      /\ late \in BOOLEAN
  BY DEF IInv, TypeOK
<1>2. s \in ScanState /\ s.testing = scan.testing
  BY <1>1 DEF ScanState
<1>3. UNCHANGED <<posted, map, learning, mapAsked, left>> /\ command' = "none"
  BY DEF TestMode
<1>4. suspects' \in SUBSET Sid /\ upset' \in BOOLEAN
  <2>1. PICK named \in SUBSET Sid : Note(named)
    BY <1>1 DEF TestMode
  <2> QED
    BY <2>1, NoteType
<1>5. ASSUME Decides, late' \in BOOLEAN PROVE IInv'
  BY <1>1, <1>3, <1>4, <1>5, DecisionKeepsInvariant DEF TypeOK
<1> HIDE DEF s
<1>6. CASE scan' = s /\ UNCHANGED <<shadow, timer, late, lacking>>
  BY <1>1, <1>2, <1>3, <1>4, <1>6, ElsewhereKeepsInvariant DEF TypeOK, OfDevices
<1>7. CASE /\ scan' = s /\ shadow' = [shadow EXCEPT !.state = "running"]
           /\ UNCHANGED <<timer, late, lacking>>
  <2>1. shadow' \in ShadowState /\ OfDevices(shadow)'
    BY <1>1, <1>7 DEF ShadowState, OfDevices
  <2> QED
    BY <1>1, <1>2, <1>3, <1>4, <1>7, <2>1, ElsewhereKeepsInvariant DEF TypeOK
<1>8. CASE ~s.testing /\ InitMissingNodeScan(s) /\ UNCHANGED shadow
  BY <1>1, <1>2, <1>5, <1>8, InitScanDecides
<1>9. CASE EndOfTest([s EXCEPT !.ranOut = TRUE], shadow) /\ UNCHANGED late
  <2>1. [s EXCEPT !.ranOut = TRUE] \in ScanState
    BY <1>2 DEF ScanState
  <2> QED
    BY <1>1, <1>5, <1>9, <2>1, EndOfTestDecides
<1> QED
  BY <1>6, <1>7, <1>8, <1>9 DEF TestMode, s

(* Flush and Flush All give up a test that runs, and begin another's       *)
(* second half.                                                            *)
LEMMA RemoveNodesKeepsInvariant ==
  ASSUME IInv, NEW gone \in SUBSET Sid, NEW off \in SUBSET shadow.known,
         NEW flushing \in 0 .. 2, RemoveNodes(gone, off, flushing)
  PROVE  IInv'
<1> DEFINE s == [CancelledScan EXCEPT !.removal = gone, !.updates = 0, !.ranOut = FALSE,
                                      !.delete = TRUE, !.testing = TRUE,
                                      !.flushing = flushing]
           sh == [CancelledShadow EXCEPT !.offline = @ \cup off]
<1>1. /\ TypeOK /\ lacking \in Messages /\ map \in SUBSET Sid /\ late \in BOOLEAN
  BY DEF IInv, TypeOK
<1>2. s \in ScanState
  <2>1. 0 \in 0 .. Updates
    BY DiscoveryAssumption DEF DiscoveryAssumption
  <2> QED
    BY <1>1, <2>1, CancelledType DEF ScanState
<1>3. sh \in ShadowState /\ OfDevices(sh)
  <2>1. CancelledShadow.known = shadow.known
    <3>1. shadow \in ShadowState
      BY <1>1 DEF TypeOK
    <3> QED
      BY <3>1 DEF CancelledShadow, Forget, ShadowState
  <2> QED
    BY <1>1, <2>1, CancelledType DEF ShadowState, OfDevices
<1>4. UNCHANGED <<posted, late, map, learning, command, mapAsked>> /\ left' \in Nat
  BY <1>1 DEF RemoveNodes, Event, TypeOK
<1>5. suspects' \in SUBSET Sid /\ upset' \in BOOLEAN
  BY NoteType DEF RemoveNodes
<1>6. TestMissingUpdateMapAtEnd(s, sh)
  BY DEF RemoveNodes
<1> HIDE DEF s, sh
<1>7. Decides
  BY <1>1, <1>2, <1>3, <1>6, UpdateMapDecides
<1> QED
  BY <1>1, <1>4, <1>5, <1>7, DecisionKeepsInvariant DEF TypeOK

(* Flush names one device, Flush All every node of the map.                *)
LEMMA FlushesKeepInvariant ==
  ASSUME IInv, (\E d \in Device : Flush(d)) \/ FlushAll
  PROVE  IInv'
<1>1. /\ TypeOK /\ CancelledScan \in ScanState /\ map \in SUBSET Sid
      /\ shadow \in ShadowState
  BY CancelledType DEF IInv, TypeOK
<1>2. ASSUME NEW d \in Device, Flush(d) PROVE IInv'
  <2>1. {d} \in SUBSET Sid /\ {d} \in SUBSET shadow.known
    BY <1>2 DEF Flush, Device
  <2>2. CancelledScan.flushing \in 0 .. 2
    BY <1>1 DEF ScanState
  <2> QED
    BY <1>2, <2>1, <2>2, RemoveNodesKeepsInvariant DEF Flush
<1>3. CASE FlushAll
  <2>1. map \in SUBSET Sid /\ shadow.known \in SUBSET shadow.known /\ 2 \in 0 .. 2
    BY <1>1
  <2> QED
    BY <1>3, <2>1, RemoveNodesKeepsInvariant DEF FlushAll
<1> QED
  BY <1>2, <1>3
----------------------------------------------------------------------------
(* Every step of the device handler keeps the invariant.                   *)
THEOREM StepsKeepInvariant == IInv /\ [Next]_vars => IInv'
<1> SUFFICES ASSUME IInv, [Next]_vars PROVE IInv'
  OBVIOUS
<1>1. CASE TimePasses \/ TimerFires \/ HandleTimer
  BY <1>1, TimerStepsKeepInvariant
<1>2. CASE \E r \in SUBSET Device : MissingNodeReport(r)
  BY <1>2, MissingNodeReportKeepsInvariant
<1>3. CASE \/ Refresh
           \/ \E m \in Maps : ProcessSIDMap(m) \/ ProcessSIDMapUpdate(m)
           \/ \E d \in Device, real \in BOOLEAN : ProcessDeviceTested(d, real)
  BY <1>3, RadioStepsKeepInvariant
<1>4. CASE \/ \E del \in {"test", "testDelete"} : BeginTestMode(del)
           \/ StopTestMode
           \/ \E enabled \in BOOLEAN : LearnMode(enabled)
  BY <1>4, CommandsKeepInvariant
<1>5. CASE TestMode
  BY <1>5, TestModeKeepsInvariant
<1>6. CASE (\E d \in Device : Flush(d)) \/ FlushAll
  BY <1>6, FlushesKeepInvariant
<1>7. CASE UNCHANGED vars
  BY <1>7 DEF vars, IInv, TypeOK, ScanNeverForgotten, OfDevices
<1> QED
  BY <1>1, <1>2, <1>3, <1>4, <1>5, <1>6, <1>7 DEF Next

(* The device handler never leaves the inductive invariant.                *)
THEOREM InvariantHolds == Spec => []IInv
<1>1. Init => IInv
  BY InitEstablishesInvariant
<1>2. IInv /\ [Next]_vars => IInv'
  BY StepsKeepInvariant
<1> QED
  BY <1>1, <1>2, PTL DEF Spec

(* Every variable of the test for missing nodes has its type, for every    *)
(* number of nodes, scans and updates: no counter passes its limit, and    *)
(* only devices of the shadow are ever marked as offline or missing.       *)
THEOREM TypeCorrectness == Spec => []TypeOK
  BY InvariantHolds, PTL DEF IInv

(* Whatever command, report or map comes in between, and however often no  *)
(* radio buffer is free, the timer for the next step of the test runs, or  *)
(* has posted the message that will set it again.                          *)
THEOREM ScanIsNeverForgotten == Spec => []ScanNeverForgotten
  BY InvariantHolds, PTL DEF IInv
----------------------------------------------------------------------------
(* Proof about Discovery.tla, for any number of nodes, scans, updates and  *)
(* messages: unless something has upset the test, the network is only told *)
(* to drop nodes that every report named, or a command.  It rests on what  *)
(* the next message of the timer says of the half of the test that runs.   *)

\* The next message of the timer: the one it will post, or posted last.
Current == IF timer # "none" THEN timer ELSE Head(posted)

\* The nodes to keep are all the others of the map m, or none if one is left.
Spares(keep, named, m) ==
  LET rest == m \ named IN Cardinality(rest) = 1 \/ rest \subseteq keep

\* What the test s has reached when message t is next: the second half, which
\* counts no report, keeps the others; the first half removes no others; a test
\* that ended with reports due, and was not cut short, will not go on by them.
Reached(s, t, named, m) ==
  /\ t # "dead" => (t = "UpdateMapAtEnd" <=> s.updates > 0)
  /\ s.updates > 0 => s.outstanding = 0 /\ Spares(s.removal, named, m)
  /\ s.updates = 0 /\ ~s.ranOut /\ (s.testing \/ s.outstanding > 0)
       => s.removal \subseteq named
  /\ ~s.testing /\ ~s.ranOut => /\ t \in {"Init", "UpdateMapAtEnd", "dead"}
                                /\ s.outstanding > 0 => Decided(s)

\* The inductive invariant, with IInv.
Spared == ~upset => Reached(scan, Current, suspects, map)

\* The half of the test to go on with is the second: what s has to satisfy.
MayUpdate(s, named) ==
  /\ s.updates = 0 /\ ~s.ranOut => s.removal \subseteq named
  /\ s.updates > 0 => s.outstanding = 0 /\ Spares(s.removal, named, map)
  /\ s.delete \/ s.ranOut \/ s.outstanding = 0 \/ Decided(s)

\* The half to go on with is the first.
MayContinue(s, named) ==
  /\ s.updates = 0 /\ (s.testing \/ s.ranOut)
  /\ ~s.ranOut => s.removal \subseteq named
----------------------------------------------------------------------------
(* The nodes to keep, as they are worked out from the nodes to remove, are *)
(* enough for every larger set of nodes that were named.                   *)
LEMMA KeepOthersSpares ==
  ASSUME NEW s \in ScanState, map \in SUBSET Sid, NEW named, s.removal \subseteq named
  PROVE  /\ Spares(KeepOthers(s).removal, named, map)
         /\ KeepOthers(s).outstanding = 0
         /\ KeepOthers(s).updates = s.updates /\ KeepOthers(s).ranOut = s.ranOut
<1> DEFINE keep == map \ s.removal
           rest == map \ named
<1>1. KeepOthers(s).removal = IF Cardinality(keep) = 1 THEN {} ELSE keep
  BY DEF KeepOthers, ScanState
<1>2. rest \subseteq keep
  OBVIOUS
<1>3. IsFiniteSet(keep)
  BY DiscoveryAssumption, FS_Subset DEF DiscoveryAssumption
<1>4. IsFiniteSet(rest) /\ Cardinality(rest) \in Nat /\ Cardinality(rest) <= Cardinality(keep)
  BY <1>2, <1>3, FS_Subset, FS_CardinalityType
<1>5. Cardinality(rest) = 0 => rest = {}
  BY <1>4, FS_EmptySet
<1>6. Cardinality(keep) = 1 => Cardinality(rest) = 1 \/ rest = {}
  BY <1>4, <1>5
<1>7. Spares(KeepOthers(s).removal, named, map)
  BY <1>1, <1>2, <1>6 DEF Spares
<1> QED
  BY <1>7 DEF KeepOthers, ScanState

(* The end of a test leaves the first half, and reports that decide.       *)
LEMMA EndOfTestReaches ==
  ASSUME NEW s \in ScanState, NEW sh, NEW named, EndOfTest(s, sh),
         s.outstanding > 0 /\ ~s.ranOut => Decided(s) /\ s.removal \subseteq named
  PROVE  Reached(scan', timer', named, map)
<1>1. /\ scan'.updates = 0 /\ ~scan'.testing /\ scan'.ranOut = s.ranOut
      /\ scan'.outstanding = s.outstanding /\ scan'.removal = s.removal
      /\ scan'.replies = s.replies
  BY DEF EndOfTest, EndedScan, ScanState
<1>2. timer' \in {"Init", "dead"}
  BY DEF EndOfTest, Arm
<1> QED
  BY <1>1, <1>2 DEF Reached, Decided

(* An update that is sent goes on with the second half.                    *)
LEMMA SendRemovalReaches ==
  ASSUME NEW s \in ScanState, NEW sh, NEW named, SendRemoval(s, sh), lacking \in Messages,
         ~NotSent, s.outstanding = 0, Spares(s.removal, named, map)
  PROVE  Reached(scan', timer', named, map)
<1>1. timer' \in {"UpdateMapAtEnd", "dead"}
  BY DEF SendRemoval, Arm
<1>2. ~NoBuffer("update")
  BY DEF NoBuffer, NotSent
<1>3. scan' = Transmitted([s EXCEPT !.updates = @ + 1])
  BY <1>2 DEF SendRemoval
<1>4. /\ scan'.updates = s.updates + 1 /\ scan'.outstanding = 0
      /\ scan'.removal = s.removal
  BY <1>3 DEF Transmitted, ScanState
<1>5. scan'.updates > 0
  BY <1>4 DEF ScanState
<1> QED
  BY <1>1, <1>4, <1>5 DEF Reached

(* Whichever way the second half goes.                                     *)
LEMMA UpdateMapReaches ==
  ASSUME NEW s \in ScanState, NEW sh, NEW named, lacking \in Messages, map \in SUBSET Sid,
         ~NotSent, MayUpdate(s, named), TestMissingUpdateMapAtEnd(s, sh)
  PROVE  Reached(scan', timer', named, map)
<1>1. s.updates \in Nat /\ s.outstanding \in Nat /\ Updates \in Nat \ {0}
  BY DiscoveryAssumption DEF ScanState, DiscoveryAssumption
<1>2. CASE (s.ranOut \/ s.updates >= Updates \/ ~s.delete) /\ EndOfTest(s, sh)
  <2>1. s.outstanding > 0 /\ ~s.ranOut => Decided(s) /\ s.removal \subseteq named
    BY <1>1, <1>2 DEF MayUpdate
  <2> QED
    BY <1>2, <2>1, EndOfTestReaches
<1>3. CASE ~s.ranOut /\ s.updates = 0
  <2>1. s.removal \subseteq named
    BY <1>3 DEF MayUpdate
  <2> DEFINE k == KeepOthers(s)
             l == [k EXCEPT !.flushing = 0]
  <2>2. /\ k \in ScanState /\ k.outstanding = 0
        /\ Spares(k.removal, named, map)
    BY <2>1, KeepOthersType, KeepOthersSpares
  <2> HIDE DEF k
  <2>3. CASE EndOfTest(l, sh)
    <3>1. l \in ScanState /\ l.outstanding = 0
      BY <2>2 DEF ScanState
    <3> HIDE DEF l
    <3> QED
      BY <2>3, <3>1, EndOfTestReaches
  <2>4. CASE SendRemoval(k, sh)
    BY <2>2, <2>4, SendRemovalReaches
  <2>5. \/ (s.ranOut \/ s.updates >= Updates \/ ~s.delete) /\ EndOfTest(s, sh)
        \/ EndOfTest(l, sh)
        \/ SendRemoval(k, sh)
    BY <1>3 DEF TestMissingUpdateMapAtEnd, k
  <2> QED
    BY <1>2, <2>3, <2>4, <2>5
<1>4. CASE s.updates > 0 /\ SendRemoval(s, sh)
  BY <1>4, SendRemovalReaches DEF MayUpdate
<1> QED
  BY <1>1, <1>2, <1>3, <1>4 DEF TestMissingUpdateMapAtEnd

(* Another request goes on with the first half, and the end of the time    *)
(* ends the test.                                                          *)
LEMMA ContinueReaches ==
  ASSUME NEW s \in ScanState, NEW sh, NEW named, lacking \in Messages, map \in SUBSET Sid,
         ~NotSent, MayContinue(s, named), TestMissingContinue(s, sh)
  PROVE  Reached(scan', timer', named, map)
<1>1. CASE TestMissingUpdateMapAtEnd([s EXCEPT !.ranOut = TRUE], sh)
  <2> DEFINE u == [s EXCEPT !.ranOut = TRUE]
  <2>1. u \in ScanState /\ u.ranOut /\ u.updates = 0
    BY DEF ScanState, MayContinue
  <2>2. MayUpdate(u, named)
    BY <2>1 DEF MayUpdate
  <2> QED
    BY <1>1, <2>1, <2>2, UpdateMapReaches
<1>2. CASE /\ timer' \in {"Timeout", "dead"}
           /\ \/ scan' = s
              \/ scan' = Transmitted([s EXCEPT !.outstanding = @ + 1])
  <2>1. /\ scan'.updates = s.updates /\ scan'.testing = s.testing
        /\ scan'.ranOut = s.ranOut /\ scan'.removal = s.removal
    BY <1>2 DEF Transmitted, ScanState
  <2> QED
    BY <1>2, <2>1 DEF Reached, MayContinue
<1> QED
  BY <1>1, <1>2 DEF TestMissingContinue, Arm

(* A test that begins suspects everyone; one that cannot is not running.   *)
LEMMA InitScanReaches ==
  ASSUME NEW s \in ScanState, ~s.testing, InitMissingNodeScan(s), NEW named,
         scan'.testing => named = Sid
  PROVE  Reached(scan', timer', named, map)
<1> DEFINE fresh == [Idle EXCEPT !.delete = s.delete, !.removal = Sid, !.owed = s.owed,
                                 !.flushing = IF shadow.inNetwork THEN s.flushing ELSE 0]
<1>1. /\ fresh.updates = 0 /\ ~fresh.testing /\ fresh.outstanding = 0
      /\ fresh.removal = Sid
  BY DEF Idle
<1>2. CASE /\ scan' = Transmitted([fresh EXCEPT !.testing = TRUE, !.outstanding = 1])
           /\ timer' \in {"Timeout", "dead"}
  <2>1. scan'.updates = 0 /\ scan'.testing /\ scan'.removal = Sid
    BY <1>2 DEF Idle, Transmitted
  <2> QED
    BY <1>2, <2>1 DEF Reached
<1>3. CASE scan' = fresh /\ timer' \in {"Init", "dead"}
  <2> HIDE DEF fresh
  <2> QED
    BY <1>1, <1>3 DEF Reached
<1> QED
  BY <1>2, <1>3 DEF InitMissingNodeScan, Arm
----------------------------------------------------------------------------
\* What the history variables and the messages of the timer make of a handler
\* that has left the test at the next message timer', with the nodes named.
Handled(named) == /\ Note(named)
                  /\ ~upset' => timer' # "none" /\ Reached(scan', timer', named, map')

(* Such a handler leaves the test spared.                                  *)
LEMMA HandledSpares ==
  ASSUME NEW named, Handled(named)
  PROVE  Spared'
<1> SUFFICES ASSUME ~upset' PROVE Reached(scan', timer', suspects', map')
  BY DEF Handled, Spared, Current, Reached, Spares, Decided
<1>1. Reached(scan', timer', named, map')
  BY DEF Handled
<1>2. CASE scan'.testing \/ scan'.outstanding > 0 \/ scan'.updates > 0
  BY <1>1, <1>2 DEF Handled, Note
<1>3. CASE ~(scan'.testing \/ scan'.outstanding > 0 \/ scan'.updates > 0)
  BY <1>1, <1>3 DEF Reached
<1> QED
  BY <1>2, <1>3

(* A step that leaves the test at the same message keeps it spared.        *)
LEMMA ElsewhereKeepsSpared ==
  ASSUME TypeOK, Spared, UNCHANGED <<timer, posted>>,
         \/ scan' = scan
         \/ \E del \in BOOLEAN : scan' = [scan EXCEPT !.delete = del]
         \/ \E owed \in Nat : scan' = [scan EXCEPT !.owed = owed],
         UNCHANGED <<map, suspects, upset>> \/ Note(suspects)
  PROVE  Spared'
<1> SUFFICES ASSUME ~upset' PROVE Reached(scan', Current', suspects', map')
  BY DEF Spared, Current, Reached, Spares, Decided
<1>1. /\ scan'.testing = scan.testing /\ scan'.outstanding = scan.outstanding
      /\ scan'.updates = scan.updates /\ scan'.ranOut = scan.ranOut
      /\ scan'.removal = scan.removal /\ scan'.replies = scan.replies
  BY DEF TypeOK, ScanState
<1>2. Current' = Current /\ ~Begins
  BY <1>1 DEF Current, Begins
<1>3. ~upset /\ (map' = map \/ scan.updates = 0)
  <2>1. ~upset
    BY <1>2, Zenon DEF Note
  <2>2. map' = map \/ ~NewMap
    BY Zenon DEF Note
  <2> QED
    BY <2>1, <2>2 DEF NewMap, TypeOK, ScanState
<1>4. Reached(scan, Current, suspects, map)
  BY <1>3 DEF Spared
<1>5. \/ suspects' = suspects
      \/ ~scan.testing /\ ~(scan.outstanding > 0) /\ ~(scan.updates > 0)
  BY <1>1, <1>2 DEF Note
<1>6. Decided(scan') = Decided(scan)
  BY <1>1 DEF Decided
<1> QED
  BY <1>1, <1>2, <1>3, <1>4, <1>5, <1>6 DEF Reached
----------------------------------------------------------------------------
(* Neither half of a test begins a test, and no report of its first half.  *)
LEMMA UpdateMapBegins ==
  ASSUME NEW s \in ScanState, NEW sh, map \in SUBSET Sid,
         TestMissingUpdateMapAtEnd(s, sh), scan'.testing
  PROVE  s.testing
<1> DEFINE k == KeepOthers(s)
<1>1. k \in ScanState /\ k.testing = s.testing
  BY KeepOthersType DEF KeepOthers, ScanState
<1> HIDE DEF k
<1>2. ~EndOfTest(s, sh)
  BY EndedScanType DEF EndOfTest
<1>3. ~EndOfTest([k EXCEPT !.flushing = 0], sh)
  <2>1. [k EXCEPT !.flushing = 0] \in ScanState
    BY <1>1 DEF ScanState
  <2> QED
    BY <2>1, EndedScanType DEF EndOfTest
<1>4. ASSUME NEW u \in ScanState, SendRemoval(u, sh) PROVE u.testing
  BY <1>4 DEF SendRemoval, Transmitted, ScanState
<1>5. SendRemoval(k, sh) \/ SendRemoval(s, sh)
  BY <1>2, <1>3 DEF TestMissingUpdateMapAtEnd, k
<1> QED
  BY <1>1, <1>4, <1>5

LEMMA ContinueBegins ==
  ASSUME NEW s \in ScanState, NEW sh, map \in SUBSET Sid,
         TestMissingContinue(s, sh), scan'.testing
  PROVE  s.testing
<1>1. CASE TestMissingUpdateMapAtEnd([s EXCEPT !.ranOut = TRUE], sh)
  <2> DEFINE u == [s EXCEPT !.ranOut = TRUE]
  <2>1. u \in ScanState /\ u.testing = s.testing
    BY DEF ScanState
  <2> HIDE DEF u
  <2>2. TestMissingUpdateMapAtEnd(u, sh)
    BY <1>1 DEF u
  <2> QED
    BY <2>1, <2>2, UpdateMapBegins
<1>2. CASE scan' = s \/ scan' = Transmitted([s EXCEPT !.outstanding = @ + 1])
  BY <1>2 DEF Transmitted, ScanState
<1> QED
  BY <1>1, <1>2 DEF TestMissingContinue

(* The message of the timer that is handled is the next one, or the test   *)
(* is upset.                                                               *)
LEMMA HandleTimerSpares ==
  ASSUME IInv, Spared, HandleTimer
  PROVE  Spared'
<1> DEFINE named == IF Begins THEN Sid ELSE suspects
<1>1. /\ TypeOK /\ scan \in ScanState /\ shadow \in ShadowState /\ OfDevices(shadow)
      /\ lacking \in Messages /\ map \in SUBSET Sid /\ posted \in Seq(ScanTimer)
  BY DEF IInv, TypeOK
<1>2. /\ posted # <<>> /\ posted' = Tail(posted) /\ Note(named) /\ map' = map
  BY DEF HandleTimer
<1>3. SUFFICES ASSUME ~upset'
               PROVE  timer' # "none" /\ Reached(scan', timer', named, map)
  BY <1>2, HandledSpares DEF Handled
<1>4. ~Stale /\ ~NotSent /\ (Begins \/ ~upset)
  BY <1>2, <1>3, Zenon DEF Note
<1>5. timer = "none" /\ Current = Head(posted)
  BY <1>1, <1>2, <1>4 DEF Stale, Current
<1>6. ~Begins => Reached(scan, Head(posted), suspects, map)
  BY <1>4, <1>5 DEF Spared
<1>7. CASE /\ Head(posted) = "Init"
           /\ InitMissingNodeScan([scan EXCEPT !.delete = TRUE])
  <2> DEFINE s == [scan EXCEPT !.delete = TRUE]
  <2>1. s \in ScanState /\ ~s.testing /\ ~scan.testing
    BY <1>1, <1>5, <1>7 DEF ScanState, IInv, ScanNeverForgotten
  <2>2. scan'.testing => named = Sid
    BY <2>1 DEF Begins
  <2> HIDE DEF s, named
  <2>3. InitMissingNodeScan(s)
    BY <1>7 DEF s
  <2>4. timer' \in {"Timeout", "Init", "dead"}
    BY <2>1, <2>3 DEF InitMissingNodeScan, Arm
  <2> QED
    BY <2>1, <2>2, <2>3, <2>4, InitScanReaches
<1>8. CASE /\ Head(posted) \in {"Timeout", "Continue"}
           /\ TestMissingContinue(scan, shadow)
  <2>1. ~Begins
    BY <1>1, <1>8, ContinueBegins DEF Begins
  <2>2. MayContinue(scan, named)
    BY <1>1, <1>6, <1>8, <2>1 DEF Reached, MayContinue, ScanState
  <2>3. timer' # "none"
    BY <1>1, <1>8, ContinueDecides DEF Decides, ScanTimer
  <2> QED
    BY <1>1, <1>4, <1>8, <2>2, <2>3, ContinueReaches
<1>9. CASE /\ Head(posted) = "UpdateMapAtEnd"
           /\ TestMissingUpdateMapAtEnd(scan, shadow)
  <2>1. ~Begins
    BY <1>1, <1>9, UpdateMapBegins DEF Begins
  <2>2. MayUpdate(scan, named)
    BY <1>6, <1>9, <2>1 DEF Reached, MayUpdate
  <2>3. timer' # "none"
    BY <1>1, <1>9, UpdateMapDecides DEF Decides, ScanTimer
  <2> QED
    BY <1>1, <1>4, <1>9, <2>2, <2>3, UpdateMapReaches
<1> QED
  BY <1>7, <1>8, <1>9 DEF HandleTimer

LEMMA ReportBegins ==
  ASSUME NEW c \in ScanState, TypeOK, ReportCounts(c), scan'.testing
  PROVE  c.testing
<1>1. map \in SUBSET Sid
  BY DEF TypeOK
<1> QED
  BY <1>1, UpdateMapBegins, ContinueBegins DEF ReportCounts

(* A report that counts is one that the test waits for, in its first half; *)
(* it names every node that is still to be removed.                        *)
LEMMA ReportReaches ==
  ASSUME NEW s \in ScanState, NEW r \in SUBSET Device, TypeOK, ~NotSent,
         Reached(s, Current, suspects, map), s.outstanding > 0,
         ReportCounts(Counted(s, r))
  PROVE  Reached(scan', timer', suspects \cap r, map)
<1> DEFINE c == Counted(s, r)
           named == suspects \cap r
<1>1. /\ shadow \in ShadowState /\ OfDevices(shadow) /\ lacking \in Messages
      /\ map \in SUBSET Sid
  BY DEF TypeOK
<1>2. c \in ScanState /\ c.testing = s.testing /\ c.ranOut = s.ranOut
      /\ c.updates = s.updates
  BY CountedType DEF Counted, ScanState
<1>3. c.updates = 0 /\ (~c.ranOut => c.removal \subseteq named)
  <2>1. s.updates = 0
    BY DEF Reached, ScanState
  <2>2. c.removal = s.removal \cap r
    BY DEF Counted, ScanState
  <2> QED
    BY <1>2, <2>1, <2>2 DEF Reached
<1>4. Decided(s) => Decided(c)
  BY DiscoveryAssumption DEF Decided, Counted, ScanState, Least, DiscoveryAssumption
<1>5. c.testing \/ c.ranOut \/ Decided(c)
  BY <1>2, <1>4 DEF Reached
<1> HIDE DEF c, named
<1>6. CASE Decided(c) /\ TestMissingUpdateMapAtEnd(c, Judged(shadow, c.removal))
  <2>1. MayUpdate(c, named)
    BY <1>3, <1>6 DEF MayUpdate
  <2> QED
    BY <1>1, <1>2, <1>6, <2>1, UpdateMapReaches DEF named
<1>7. CASE ~Decided(c) /\ TestMissingContinue(c, shadow)
  <2>1. MayContinue(c, named)
    BY <1>3, <1>5, <1>7 DEF MayContinue
  <2> QED
    BY <1>1, <1>2, <1>7, <2>1, ContinueReaches DEF named
<1>8. CASE ~Decided(c) /\ scan' = c /\ timer' \in {"Continue", "dead"}
  BY <1>2, <1>3, <1>5, <1>8 DEF Reached, named
<1> QED
  BY <1>6, <1>7, <1>8 DEF ReportCounts, Arm, c

(* A report of missing nodes, whether it counts, comes too late,           *)
(* acknowledges an update, or was not asked for.                           *)
LEMMA MissingNodeReportSpares ==
  ASSUME IInv, Spared, NEW r \in SUBSET Device, MissingNodeReport(r)
  PROVE  Spared'
<1> DEFINE s == [scan EXCEPT !.owed = @ - 1]
           named == IF s.outstanding > 0 /\ ~late THEN suspects \cap r ELSE suspects
<1>1. /\ TypeOK /\ scan \in ScanState /\ shadow \in ShadowState /\ OfDevices(shadow)
      /\ lacking \in Messages /\ map \in SUBSET Sid
  BY DEF IInv, TypeOK
<1>2. scan.owed > 0 /\ Note(named) /\ UNCHANGED <<map, posted>>
  BY DEF MissingNodeReport
<1>3. scan.owed - 1 \in 0 .. MaxAsked
  BY <1>1, <1>2, DiscoveryAssumption DEF ScanState, DiscoveryAssumption
<1>4. /\ s \in ScanState /\ s.testing = scan.testing
      /\ s.outstanding = scan.outstanding /\ s.updates = scan.updates
      /\ s.ranOut = scan.ranOut /\ s.removal = scan.removal
      /\ s.replies = scan.replies
  BY <1>1, <1>3 DEF ScanState
<1>5. CASE s.outstanding = 0 /\ scan' = s /\ UNCHANGED <<shadow, timer, lacking>>
  <2>1. named = suspects
    BY <1>5
  <2>2. Note(suspects) /\ (\E owed \in Nat : scan' = [scan EXCEPT !.owed = owed])
    BY <1>2, <1>3, <1>5, <2>1, DiscoveryAssumption DEF DiscoveryAssumption
  <2> QED
    BY <1>1, <1>2, <1>5, <2>2, ElsewhereKeepsSpared
<1>6. SUFFICES ASSUME ~upset',
                      ~(s.outstanding = 0 /\ scan' = s /\ UNCHANGED <<shadow, timer, lacking>>)
               PROVE  timer' # "none" /\ Reached(scan', timer', named, map)
  BY <1>2, <1>5, HandledSpares DEF Handled
<1>7. ~NotSent /\ (Begins \/ ~upset)
  BY <1>2, <1>6, Zenon DEF Note
<1>8. ~Begins => Reached(s, Current, suspects, map)
  BY <1>4, <1>7 DEF Spared, Reached, Decided
<1> HIDE DEF s
<1>9. CASE /\ s.outstanding > 0
           /\ TestMissingUpdateMapAtEnd([s EXCEPT !.ranOut = TRUE], shadow)
  <2> DEFINE u == [s EXCEPT !.ranOut = TRUE]
  <2>1. /\ u \in ScanState /\ u.testing = s.testing /\ u.ranOut
        /\ u.updates = s.updates
    BY <1>4 DEF ScanState
  <2> HIDE DEF u, named
  <2>2. TestMissingUpdateMapAtEnd(u, shadow)
    BY <1>9 DEF u
  <2>3. ~Begins
    BY <1>1, <1>4, <2>1, <2>2, UpdateMapBegins DEF Begins
  <2>4. MayUpdate(u, named)
    BY <1>4, <1>8, <1>9, <2>1, <2>3 DEF Reached, MayUpdate, ScanState
  <2>5. timer' # "none"
    BY <1>1, <2>1, <2>2, UpdateMapDecides DEF Decides, ScanTimer
  <2> QED
    BY <1>1, <1>7, <2>1, <2>2, <2>4, <2>5, UpdateMapReaches
<1>10. CASE s.outstanding > 0 /\ ~late /\ ReportCounts(Counted(s, r))
  <2>1. Counted(s, r) \in ScanState /\ Counted(s, r).testing = s.testing
    BY <1>4, <1>10, CountedType DEF Counted, ScanState
  <2>2. ~Begins
    BY <1>1, <1>4, <1>10, <2>1, ReportBegins DEF Begins
  <2>3. Reached(scan', timer', named, map)
    BY <1>1, <1>4, <1>7, <1>8, <1>10, <2>2, ReportReaches
  <2>4. timer' # "none"
    BY <1>1, <1>10, <2>1, ReportDecides DEF Decides, ScanTimer
  <2> QED
    BY <2>3, <2>4
<1>11. CASE /\ s.outstanding = 0 /\ s.updates > 0
            /\ TestMissingUpdateMapAtEnd([s EXCEPT !.updates = Updates], shadow)
  <2> DEFINE u == [s EXCEPT !.updates = Updates]
  <2>1. /\ u \in ScanState /\ u.testing = s.testing /\ u.updates = Updates
        /\ u.removal = s.removal /\ u.outstanding = 0
    BY <1>4, <1>11, DiscoveryAssumption DEF ScanState, DiscoveryAssumption
  <2> HIDE DEF u
  <2>2. TestMissingUpdateMapAtEnd(u, shadow)
    BY <1>11 DEF u
  <2>3. ~Begins
    BY <1>1, <1>4, <2>1, <2>2, UpdateMapBegins DEF Begins
  <2>4. named = suspects
    BY <1>11
  <2> HIDE DEF named
  <2>5. MayUpdate(u, named)
    BY <1>8, <1>11, <2>1, <2>3, <2>4, DiscoveryAssumption
       DEF Reached, MayUpdate, DiscoveryAssumption
  <2>6. timer' # "none"
    BY <1>1, <2>1, <2>2, UpdateMapDecides DEF Decides, ScanTimer
  <2> QED
    BY <1>1, <1>7, <2>1, <2>2, <2>5, <2>6, UpdateMapReaches
<1> QED
  BY <1>6, <1>9, <1>10, <1>11 DEF MissingNodeReport, s
----------------------------------------------------------------------------
(* The command that starts or stops a test.                                *)
LEMMA TestModeSpares ==
  ASSUME IInv, Spared, TestMode
  PROVE  Spared'
<1> DEFINE s == [scan EXCEPT !.delete = (command = "testDelete")]
           named == IF Begins THEN Sid ELSE suspects
<1>1. TypeOK /\ scan \in ScanState
  BY DEF IInv, TypeOK
<1>2. (command = "testDelete") \in BOOLEAN
  OBVIOUS
<1>3. s \in ScanState /\ s.testing = scan.testing
  BY <1>1, <1>2 DEF ScanState
<1>4. Note(named) /\ UNCHANGED <<posted, map>>
  BY DEF TestMode
<1>5. ASSUME timer' # "none", Reached(scan', timer', named, map) PROVE Spared'
  BY <1>4, <1>5, HandledSpares DEF Handled
<1>6. CASE scan' = s /\ UNCHANGED timer
  <2>1. ~Begins
    BY <1>3, <1>6 DEF Begins
  <2>2. Note(suspects)
    BY <1>4, <2>1
  <2>3. \E del \in BOOLEAN : scan' = [scan EXCEPT !.delete = del]
    BY <1>2, <1>6
  <2> QED
    BY <1>1, <1>4, <1>6, <2>2, <2>3, ElsewhereKeepsSpared
<1> HIDE DEF s
<1>7. CASE ~s.testing /\ InitMissingNodeScan(s)
  <2>1. scan'.testing => named = Sid
    BY <1>3, <1>7 DEF Begins
  <2> HIDE DEF named
  <2>2. timer' # "none"
    BY <1>7 DEF InitMissingNodeScan, Arm
  <2> QED
    BY <1>3, <1>5, <1>7, <2>1, <2>2, InitScanReaches
<1>8. CASE EndOfTest([s EXCEPT !.ranOut = TRUE], shadow)
  <2> HIDE DEF named
  <2>1. /\ [s EXCEPT !.ranOut = TRUE] \in ScanState
        /\ [s EXCEPT !.ranOut = TRUE].ranOut
    BY <1>3 DEF ScanState
  <2>2. timer' # "none"
    BY <1>8 DEF EndOfTest, Arm
  <2> QED
    BY <1>5, <1>8, <2>1, <2>2, EndOfTestReaches
<1> QED
  BY <1>6, <1>7, <1>8 DEF TestMode, s

(* A command that names the nodes to remove begins with the second half.   *)
LEMMA RemoveNodesSpares ==
  ASSUME IInv, NEW gone \in SUBSET Sid, NEW off \in SUBSET shadow.known,
         NEW flushing \in 0 .. 2, RemoveNodes(gone, off, flushing)
  PROVE  Spared'
<1> DEFINE s == [CancelledScan EXCEPT !.removal = gone, !.updates = 0, !.ranOut = FALSE,
                                      !.delete = TRUE, !.testing = TRUE,
                                      !.flushing = flushing]
           sh == [CancelledShadow EXCEPT !.offline = @ \cup off]
<1>1. TypeOK /\ lacking \in Messages /\ map \in SUBSET Sid
  BY DEF IInv, TypeOK
<1>2. s \in ScanState /\ s.removal = gone /\ s.updates = 0 /\ s.delete
  <2>1. 0 \in 0 .. Updates
    BY DiscoveryAssumption DEF DiscoveryAssumption
  <2> QED
    BY <1>1, <2>1, CancelledType DEF ScanState
<1>3. sh \in ShadowState /\ OfDevices(sh)
  <2>1. CancelledShadow.known = shadow.known
    <3>1. shadow \in ShadowState
      BY <1>1 DEF TypeOK
    <3> QED
      BY <3>1 DEF CancelledShadow, Forget, ShadowState
  <2> QED
    BY <1>1, <2>1, CancelledType DEF ShadowState, OfDevices
<1>4. TestMissingUpdateMapAtEnd(s, sh) /\ Note(gone) /\ map' = map
  BY DEF RemoveNodes
<1> HIDE DEF s, sh
<1>5. MayUpdate(s, gone)
  BY <1>2 DEF MayUpdate
<1>6. timer' # "none"
  BY <1>1, <1>2, <1>3, <1>4, UpdateMapDecides DEF Decides, ScanTimer
<1>7. ~upset' => ~NotSent
  BY <1>4, Zenon DEF Note
<1>8. ~upset' => Reached(scan', timer', gone, map)
  BY <1>1, <1>2, <1>4, <1>5, <1>7, UpdateMapReaches
<1> QED
  BY <1>4, <1>6, <1>8, HandledSpares DEF Handled

(* Flush names one device, Flush All every node of the map.                *)
LEMMA FlushesSpare ==
  ASSUME IInv, (\E d \in Device : Flush(d)) \/ FlushAll
  PROVE  Spared'
<1>1. /\ TypeOK /\ CancelledScan \in ScanState /\ map \in SUBSET Sid
  BY CancelledType DEF IInv, TypeOK
<1>2. ASSUME NEW d \in Device, Flush(d) PROVE Spared'
  <2>1. {d} \in SUBSET Sid /\ {d} \in SUBSET shadow.known
    BY <1>2 DEF Flush, Device
  <2>2. CancelledScan.flushing \in 0 .. 2
    BY <1>1 DEF ScanState
  <2> QED
    BY <1>2, <2>1, <2>2, RemoveNodesSpares DEF Flush
<1>3. CASE FlushAll
  <2>1. map \in SUBSET Sid /\ shadow.known \in SUBSET shadow.known /\ 2 \in 0 .. 2
    BY <1>1
  <2> QED
    BY <1>3, <2>1, RemoveNodesSpares DEF FlushAll
<1> QED
  BY <1>2, <1>3

(* What the timer posts is the next message still, if it can.              *)
LEMMA TimerFiresSpares ==
  ASSUME IInv, Spared, TimerFires
  PROVE  Spared'
<1>1. posted \in Seq(ScanTimer) /\ timer \in ScanTimer
  BY DEF IInv, TypeOK, TimerFires
<1>2. Current = timer /\ Current' \in {Current, "dead"}
  BY <1>1 DEF TimerFires, Current, ScanTimer
<1>3. UNCHANGED <<scan, map, suspects, upset>>
  BY DEF TimerFires
<1> QED
  BY <1>2, <1>3 DEF Spared, Reached, Spares, Decided
----------------------------------------------------------------------------
(* Every step of the device handler keeps the test spared.                 *)
LEMMA StepsSpare ==
  ASSUME IInv, Spared, [Next]_vars
  PROVE  Spared'
<1>1. TypeOK
  BY DEF IInv
<1>2. CASE TimerFires \/ HandleTimer
  BY <1>2, TimerFiresSpares, HandleTimerSpares
<1>3. CASE \E r \in SUBSET Device : MissingNodeReport(r)
  BY <1>3, MissingNodeReportSpares
<1>4. CASE \E m \in Maps : ProcessSIDMap(m)
  BY <1>1, <1>4, ElsewhereKeepsSpared DEF ProcessSIDMap
<1>5. CASE TestMode
  BY <1>5, TestModeSpares
<1>6. CASE (\E d \in Device : Flush(d)) \/ FlushAll
  BY <1>6, FlushesSpare
<1>7. CASE \/ TimePasses \/ Refresh \/ StopTestMode
           \/ \E m \in Maps : ProcessSIDMapUpdate(m)
           \/ \E d \in Device, real \in BOOLEAN : ProcessDeviceTested(d, real)
           \/ \E del \in {"test", "testDelete"} : BeginTestMode(del)
           \/ \E enabled \in BOOLEAN : LearnMode(enabled)
           \/ UNCHANGED vars
  <2>1. UNCHANGED <<scan, timer, posted, map, suspects, upset>>
    BY <1>7 DEF TimePasses, Refresh, StopTestMode, ProcessSIDMapUpdate,
                ProcessDeviceTested, BeginTestMode, LearnMode, vars
  <2> QED
    BY <1>1, <2>1, ElsewhereKeepsSpared
<1> QED
  BY <1>2, <1>3, <1>4, <1>5, <1>6, <1>7 DEF Next

(* The network is only told to drop nodes that every report of the test    *)
(* named as missing, or that a command named, or everyone when the gateway *)
(* would be alone: for any number of nodes, reports, maps and commands, as *)
(* long as no stale timer, lack of buffers or new map has upset the test.  *)
THEOREM AnsweringAreSpared == Spec => []SparesAnswering
<1>1. Init => Spared
  BY DEF Init, Idle, Spared, Reached, Current
<1>2. IInv /\ Spared /\ [Next]_vars => Spared'
  BY StepsSpare
<1>3. Spared => SparesAnswering
  BY DEF Spared, Reached, Spares, SparesAnswering
<1> QED
  BY <1>1, <1>2, <1>3, InvariantHolds, PTL DEF Spec
============================================================================
