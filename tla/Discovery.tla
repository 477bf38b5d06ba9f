----------------------------- MODULE Discovery -----------------------------
(***************************************************************************)
(* The test for missing nodes of the WiSafe device handler                 *)
(* (WiSafe_Discovery.c): the gateway asks the radio network several times  *)
(* which nodes are missing, reports them offline, tells the network to     *)
(* drop them and forgets their devices.  Flush and Flush All borrow the    *)
(* second half of it.  One thread runs every handler; timers, the radio    *)
(* and the platform post messages to it.                                   *)
(*                                                                         *)
(* Every message goes to the front of the queue, so one from the radio or  *)
(* the platform may overtake a timer's that is queued already: those       *)
(* messages are actions that are always possible, and only the messages of *)
(* the test's timer are kept, in posted, the latest first.                 *)
(***************************************************************************)
EXTENDS Naturals, Sequences, FiniteSets

CONSTANTS
  Sid,            \* positions in the SID map
  Gateway,        \* the gateway's own
  Persisted,      \* devices that storage has kept
  Scans,          \* testMissingRequiredNumberOfScans
  Updates,        \* testMissingUpdateDeleteRequiredCount
  MaxOutstanding, \* bound: requests there is time for in a test
  MaxPosted,      \* bound: messages of the timer in the queue
  MaxAsked,       \* bound: reports the radio network may still give
  MaxEvents       \* bound: commands, later SID maps, tested devices

Device == Sid \ {Gateway}  \* a device in the shadow, by its SID

ASSUME DiscoveryAssumption ==
  /\ Gateway \in Sid /\ IsFiniteSet(Sid) /\ Persisted \subseteq Device
  /\ Scans \in Nat \ {0} /\ Updates \in Nat \ {0} /\ MaxOutstanding \in Nat
  /\ MaxPosted \in Nat /\ MaxAsked \in Nat
  /\ MaxEvents \in Nat

VARIABLES
  scan,      \* the state of the test, and the reports the network owes it
  shadow,    \* the devices, which are offline, marked missing; the gateway's state
  timer,     \* what testMissingTimerRef will post, "none" once it has, "dead" if it cannot
  posted,    \* messages of that timer not handled yet
  late,      \* testMissingMaxDuration has passed since the test began
  map,       \* currentSidMap
  learning,  \* inLearnMode
  command,   \* a control message for the test, posted and not handled
  mapAsked,  \* a SID map was requested and has not come
  lacking,   \* history: the message that found no radio buffer last, "none" if one did
  left,      \* what is left of MaxEvents
  suspects,  \* history: nodes that every report of the test named, or a command
  upset      \* history: a stale timer, a lack of buffers or a new map met the test

vars == <<scan, shadow, timer, posted, late, map, learning, command,
          mapAsked, lacking, left, suspects, upset>>

Least(m, n) == IF m < n THEN m ELSE n

ScanTimer == {"Init", "Timeout", "Continue", "UpdateMapAtEnd"}

Idle == [testing |-> FALSE, delete |-> FALSE, ranOut |-> FALSE,
         replies |-> 0, outstanding |-> 0, updates |-> 0, flushing |-> 0,
         removal |-> {}, owed |-> 0]

\* The devices of the last run come from storage (WiSafe_DiscoveryInit).
Init ==
  /\ scan = Idle /\ timer = "Init" /\ posted = <<>> /\ late = FALSE
  /\ shadow = [known |-> Persisted, offline |-> {}, missing |-> {},
               inNetwork |-> FALSE, state |-> "running"]
  /\ map = {} /\ learning = FALSE /\ command = "none"
  /\ mapAsked = FALSE
  /\ lacking = "none" /\ left = MaxEvents
  /\ suspects = {} /\ upset = FALSE
----------------------------------------------------------------------------
(* What the handlers share.  s and sh are the state of the test and the    *)
(* shadow as the handler has left them so far.                             *)

\* OSAL_NewTimer, which may find no memory for a timer, or no room for its start.
Arm(type) == timer' \in {type, "dead"}

\* A radio buffer for a request or an update, or none.
Buffer         == lacking' = "none"
NoBuffer(what) == lacking' = what

\* WiSafe_RadioCommsTx of a SID map update, which the network may answer.
Transmitted(s) == [s EXCEPT !.owed = Least(@ + 1, MaxAsked)]

\* Mutant: the end of a test does not count for Flush All.
EndedScanUncounted(s) == [s EXCEPT !.updates = 0, !.testing = FALSE, !.delete = FALSE]

\* The state after the end of a test: offline devices go, EndTestMode.
EndedScan(s) == [s EXCEPT !.updates = 0, !.testing = FALSE, !.delete = FALSE,
                          !.flushing = IF @ > 0 THEN @ - 1 ELSE 0]

Forget(sh, gone) == [sh EXCEPT !.known = @ \ gone, !.offline = @ \ gone,
                               !.missing = @ \ gone, !.state = "running"]

\* Mutant: the next test is not scheduled.
EndOfTestForGood(s, sh) ==
  /\ scan' = EndedScan(s)
  /\ shadow' = Forget(sh, IF s.delete /\ ~s.ranOut THEN sh.offline ELSE {})
  /\ UNCHANGED <<timer, lacking>>

EndOfTest(s, sh) ==
  /\ scan' = EndedScan(s)
  /\ shadow' = Forget(sh, IF s.delete /\ ~s.ranOut THEN sh.offline ELSE {})
  /\ Arm("Init")
  /\ UNCHANGED lacking

\* An update that leaves the removed nodes out; without a buffer only the timer.
SendRemoval(s, sh) ==
  /\ shadow' = sh /\ Arm("UpdateMapAtEnd")
  /\ \/ Buffer /\ scan' = Transmitted([s EXCEPT !.updates = @ + 1])
     \/ NoBuffer("update") /\ scan' = s

\* Mutant: reports that are still due go on counting.
KeepOthersCounting(s) ==
  LET keep == map \ s.removal
  IN [s EXCEPT !.removal = IF Cardinality(keep) = 1 THEN {} ELSE keep]

\* The first time: from the nodes to remove to the nodes to keep.
KeepOthers(s) ==
  LET keep == map \ s.removal
  IN [s EXCEPT !.removal = IF Cardinality(keep) = 1 THEN {} ELSE keep,
               !.outstanding = 0]

NoneMissing(s) == map \cap s.removal = {}

TestMissingUpdateMapAtEnd(s, sh) ==
  \/ /\ s.ranOut \/ s.updates >= Updates \/ ~s.delete
     /\ EndOfTest(s, sh)
  \/ /\ ~s.ranOut /\ s.updates < Updates /\ s.delete
     /\ \/ /\ s.updates = 0 /\ NoneMissing(s)
           /\ EndOfTest([KeepOthers(s) EXCEPT !.flushing = 0], sh)
        \/ s.updates = 0 /\ ~NoneMissing(s) /\ SendRemoval(KeepOthers(s), sh)
        \/ s.updates > 0 /\ SendRemoval(s, sh)

InitMissingNodeScan(s) ==
  LET fresh == [Idle EXCEPT !.delete = s.delete, !.removal = Sid, !.owed = s.owed,
                            !.flushing = IF shadow.inNetwork THEN s.flushing ELSE 0]
      able == shadow.inNetwork /\ shadow.state # "learning"
  IN \/ /\ s.testing
        /\ scan' = s
        /\ UNCHANGED <<timer, late, lacking>>
     \/ /\ ~s.testing /\ able
        /\ scan' = Transmitted([fresh EXCEPT !.testing = TRUE, !.outstanding = 1])
        /\ Buffer /\ Arm("Timeout") /\ late' = FALSE
     \/ /\ ~s.testing
        /\ IF able THEN NoBuffer("request") ELSE UNCHANGED lacking
        /\ scan' = fresh /\ Arm("Init")
        /\ UNCHANGED late

\* Mutant: the requests go on without regard to the time.
TestMissingContinueUntimed(s, sh) ==
  /\ shadow' = sh /\ Buffer /\ Arm("Timeout")
  /\ scan' = Transmitted([s EXCEPT !.outstanding = Least(@ + 1, MaxOutstanding)])

TestMissingContinue(s, sh) ==
  \/ late /\ TestMissingUpdateMapAtEnd([s EXCEPT !.ranOut = TRUE], sh)
  \/ /\ ~late
     /\ shadow' = sh /\ Arm("Timeout")
     /\ \/ /\ s.outstanding < MaxOutstanding
           /\ Buffer /\ scan' = Transmitted([s EXCEPT !.outstanding = @ + 1])
        \/ NoBuffer("request") /\ scan' = s

\* History.  A test is upset by a message handled after its timer was destroyed,
\* by an update that found no buffer, by another map amid the updates.
Stale   == Len(posted') < Len(posted) /\ timer # "none"
NotSent == lacking' = "update"
NewMap  == map' # map /\ scan.updates > 0

Begins == ~scan.testing /\ scan'.testing

Note(named) ==
  /\ upset' = (Stale \/ NotSent \/ NewMap \/ (upset /\ ~Begins))
  /\ suspects' = IF ~upset' /\ (scan'.testing \/ scan'.outstanding > 0 \/ scan'.updates > 0)
                 THEN named ELSE {}
----------------------------------------------------------------------------
(* The timer.                                                              *)

\* Only a test looks at the time, or a report it still waits for.
TimePasses ==
  /\ scan.testing \/ scan.outstanding > 0
  /\ ~late /\ late' = TRUE
  /\ UNCHANGED <<scan, shadow, timer, posted, map, learning, command,
                 mapAsked, lacking, left, suspects, upset>>

\* WiSafe_TimerCallback
TimerFires ==
  /\ timer \in ScanTimer /\ Len(posted) < MaxPosted
  /\ \/ timer' = "none" /\ posted' = <<timer>> \o posted
     \/ timer' = "dead" /\ UNCHANGED posted           \* the message cannot be queued
  /\ UNCHANGED <<scan, shadow, late, map, learning, command, mapAsked,
                 lacking, left, suspects, upset>>

\* WiSafe_DiscoveryHandleTimer
HandleTimer ==
  /\ posted # <<>> /\ posted' = Tail(posted)
  /\ \/ /\ Head(posted) = "Init"
        /\ InitMissingNodeScan([scan EXCEPT !.delete = TRUE])
        /\ UNCHANGED shadow
     \/ /\ Head(posted) \in {"Timeout", "Continue"}
        /\ UNCHANGED late
        /\ TestMissingContinue(scan, shadow)
     \/ /\ Head(posted) = "UpdateMapAtEnd"
        /\ UNCHANGED late
        /\ TestMissingUpdateMapAtEnd(scan, shadow)
  /\ UNCHANGED <<map, learning, command, mapAsked, left>>
  /\ Note(IF Begins THEN Sid ELSE suspects)
----------------------------------------------------------------------------
(* The radio module.                                                       *)

\* A report that counts: nodes are missing when every report names them.
Counted(s, r) == [s EXCEPT !.replies = Least(@ + 1, Scans),
                           !.outstanding = @ - 1,
                           !.removal = @ \cap r]

Decided(s) == s.replies >= Scans \/ s.removal = {}

\* Mutant: nodes without a device are marked too.
JudgedAll(sh, gone) == [sh EXCEPT !.offline = gone \cup sh.missing]

Judged(sh, gone) == [sh EXCEPT !.offline = sh.known \cap (gone \cup sh.missing)]

\* WiSafe_DiscoveryMissingNodeReport, while requests are outstanding
ReportCounts(s) ==
  \/ /\ Decided(s)
     /\ TestMissingUpdateMapAtEnd(s, Judged(shadow, s.removal))
  \/ ~Decided(s) /\ TestMissingContinue(s, shadow)
  \/ /\ ~Decided(s)
     /\ scan' = s /\ Arm("Continue")
     /\ UNCHANGED <<shadow, lacking>>

\* WiSafe_DiscoveryMissingNodeReport of the missing nodes r
MissingNodeReport(r) ==
  LET s == [scan EXCEPT !.owed = @ - 1]
  IN /\ scan.owed > 0
     /\ \/ /\ s.outstanding > 0 /\ late
           /\ TestMissingUpdateMapAtEnd([s EXCEPT !.ranOut = TRUE], shadow)
        \/ s.outstanding > 0 /\ ~late /\ ReportCounts(Counted(s, r))
        \/ /\ s.outstanding = 0 /\ s.updates > 0 /\ r = {}
           /\ TestMissingUpdateMapAtEnd([s EXCEPT !.updates = Updates], shadow)
        \/ /\ s.outstanding = 0 /\ (s.updates > 0 => r # {})
           /\ scan' = s
           /\ UNCHANGED <<shadow, timer, lacking>>
     /\ UNCHANGED <<posted, late, map, learning, command, mapAsked, left>>
     /\ Note(IF s.outstanding > 0 /\ ~late THEN suspects \cap r ELSE suspects)

\* Refresh, which waits for the end of a test, and its own timer
Refresh ==
  /\ ~scan.testing /\ mapAsked' = TRUE
  /\ UNCHANGED <<scan, shadow, timer, posted, late, map, learning, command,
                 lacking, left, suspects, upset>>

Event == left > 0 /\ left' = left - 1

\* WiSafe_DiscoveryProcessSIDMap of the map m
ProcessSIDMap(m) ==
  /\ mapAsked /\ mapAsked' = FALSE
  /\ IF map = {} THEN UNCHANGED left ELSE Event
  /\ map' = m
  /\ shadow' = [shadow EXCEPT !.inNetwork = Cardinality(m) > 1]
  /\ UNCHANGED <<scan, timer, posted, late, learning, command, lacking>>
  /\ Note(suspects)

\* WiSafe_DiscoveryProcessDeviceTested: by a test, or by an answer to an
\* interrogation, which says nothing new of a device that is known
ProcessDeviceTested(d, real) ==
  /\ Event
  /\ d \in map /\ (real \/ d \notin shadow.known)
  /\ shadow' = [shadow EXCEPT !.known = @ \cup {d}, !.offline = @ \ {d}]
  /\ UNCHANGED <<scan, timer, posted, late, map, learning, command, mapAsked,
                 lacking, suspects, upset>>

\* WiSafe_DiscoveryProcessSIDMapUpdate: another control unit made m the map
ProcessSIDMapUpdate(m) ==
  /\ Event
  /\ shadow' = [shadow EXCEPT !.offline = @ \cup (shadow.known \ m),
                              !.missing = @ \cup (shadow.known \ m)]
  /\ UNCHANGED <<scan, timer, posted, late, map, learning, command, mapAsked,
                 lacking, suspects, upset>>
----------------------------------------------------------------------------
(* The platform's commands.  Each is a property delta, which posts a       *)
(* control message if a buffer of the radio's pool is free for it: without *)
(* one nothing happens, but that the state may already say "test".  A      *)
(* command whose handling depends on nothing it read is one action.        *)

\* WiSafe_EngineProcessPropertyDelta, test mode: the state says so at once.
BeginTestMode(del) ==
  /\ Event /\ command = "none"
  /\ shadow' = [shadow EXCEPT !.state = "test"]
  /\ command' \in {del, "none"}
  /\ UNCHANGED <<scan, timer, posted, late, map, learning, mapAsked, lacking,
                 suspects, upset>>

StopTestMode ==
  /\ shadow.state = "test" /\ command = "none"
  /\ command' = "stop"
  /\ UNCHANGED <<scan, shadow, timer, posted, late, map, learning, mapAsked,
                 lacking, left, suspects, upset>>

\* The test that runs is given up: CancelMissingNodeTest.
CancelledScan   == IF scan.testing THEN EndedScan([scan EXCEPT !.ranOut = TRUE]) ELSE scan
CancelledShadow == IF scan.testing THEN Forget(shadow, {}) ELSE shadow

\* WiSafe_DiscoveryTestMode
TestMode ==
  LET s == [scan EXCEPT !.delete = (command = "testDelete")]
      enabled == command # "stop"
  IN /\ command # "none" /\ command' = "none"
     /\ \/ /\ enabled = s.testing
           /\ scan' = s
           /\ UNCHANGED <<shadow, timer, late, lacking>>
        \/ /\ enabled /\ ~s.testing /\ ~shadow.inNetwork
           /\ scan' = s /\ shadow' = [shadow EXCEPT !.state = "running"]
           /\ UNCHANGED <<timer, late, lacking>>
        \/ /\ enabled /\ ~s.testing /\ shadow.inNetwork
           /\ InitMissingNodeScan(s)
           /\ UNCHANGED shadow
        \/ /\ ~enabled /\ s.testing
           /\ EndOfTest([s EXCEPT !.ranOut = TRUE], shadow)
           /\ UNCHANGED late
     /\ UNCHANGED <<posted, map, learning, mapAsked, left>>
     /\ Note(IF Begins THEN Sid ELSE suspects)

\* The second half of a test, for the nodes of gone and the devices of off
RemoveNodes(gone, off, flushing) ==
  /\ Event
  /\ TestMissingUpdateMapAtEnd(
       [CancelledScan EXCEPT !.removal = gone, !.updates = 0, !.ranOut = FALSE,
                             !.delete = TRUE, !.testing = TRUE, !.flushing = flushing],
       [CancelledShadow EXCEPT !.offline = @ \cup off])
  /\ UNCHANGED <<posted, late, map, learning, command, mapAsked>>
  /\ Note(gone)

\* WiSafe_DiscoveryFlush
Flush(d) == d \in shadow.known /\ RemoveNodes({d}, {d}, CancelledScan.flushing)

\* WiSafe_DiscoveryFlushAll
FlushAll == scan.flushing = 0 /\ RemoveNodes(map, shadow.known, 2)

\* WiSafe_DiscoveryLearnMode
LearnMode(enabled) ==
  /\ Event
  /\ enabled # learning /\ learning' = enabled
  /\ shadow' = [shadow EXCEPT !.state = IF enabled THEN "learning" ELSE "running"]
  /\ UNCHANGED <<scan, timer, posted, late, map, command, mapAsked, lacking,
                 suspects, upset>>
----------------------------------------------------------------------------
Maps == {{}} \cup {{Gateway} \cup m : m \in SUBSET Device}

Next ==
  \/ TimePasses \/ TimerFires \/ HandleTimer
  \/ \E r \in SUBSET Device : MissingNodeReport(r)
  \/ Refresh
  \/ \E m \in Maps : ProcessSIDMap(m) \/ ProcessSIDMapUpdate(m)
  \/ \E d \in Device, real \in BOOLEAN : ProcessDeviceTested(d, real)
  \/ \E del \in {"test", "testDelete"} : BeginTestMode(del)
  \/ StopTestMode \/ TestMode
  \/ \E d \in Device : Flush(d)
  \/ FlushAll
  \/ \E enabled \in BOOLEAN : LearnMode(enabled)

Spec == Init /\ [][Next]_vars

\* Time passes, the timer fires, and the thread handles the messages it gets.
FairSpec == /\ Spec
            /\ WF_vars(TimePasses) /\ WF_vars(TimerFires)
            /\ WF_vars(HandleTimer) /\ WF_vars(TestMode)
----------------------------------------------------------------------------
(* Properties.                                                             *)

ScanState == [testing : BOOLEAN, delete : BOOLEAN, ranOut : BOOLEAN,
              replies : 0 .. Scans, outstanding : Nat, updates : 0 .. Updates,
              flushing : 0 .. 2, removal : SUBSET Sid, owed : 0 .. MaxAsked]

ShadowState == [known : SUBSET Device, offline : SUBSET Device,
                missing : SUBSET Device, inNetwork : BOOLEAN,
                state : {"running", "learning", "test"}]

\* What a radio buffer is wanted for.
Messages == {"none", "request", "update"}

\* Devices that are offline or marked missing are devices of the shadow.
OfDevices(sh) == sh.offline \subseteq sh.known /\ sh.missing \subseteq sh.known

\* Every variable has its type: the test counts no further than its limits, and
\* only devices of the shadow are marked.
TypeOK ==
  /\ scan \in ScanState /\ shadow \in ShadowState /\ OfDevices(shadow)
  /\ timer \in ScanTimer \cup {"none", "dead"} /\ posted \in Seq(ScanTimer)
  /\ late \in BOOLEAN /\ map \in SUBSET Sid /\ learning \in BOOLEAN
  /\ command \in {"none", "test", "testDelete", "stop"} /\ mapAsked \in BOOLEAN
  /\ lacking \in Messages /\ left \in Nat
  /\ suspects \in SUBSET Sid /\ upset \in BOOLEAN

\* The next test is never forgotten: its timer runs, or has posted a message that
\* will arm a timer, whatever command, report or map comes in between, unless there
\* was no memory for the timer or no room for its message ("dead").
ScanNeverForgotten ==
  /\ timer = "none" => posted # <<>>
  /\ timer = "Init" => ~scan.testing
  /\ timer = "none" /\ Head(posted) = "Init" => ~scan.testing

\* The network is only told to drop nodes that every report of the test named as
\* missing or that a command named, or everyone when the gateway would be alone,
\* unless a stale timer, a lack of buffers or a new map has upset the test.
SparesAnswering ==
  scan.updates > 0 /\ ~upset =>
    LET rest == map \ suspects
    IN Cardinality(rest) = 1 \/ rest \subseteq scan.removal

\* An update that found no buffer is tried again as it was.
RetrySendsSame ==
  [][Len(posted') < Len(posted) /\ Head(posted) = "UpdateMapAtEnd" /\ scan.testing
       => scan'.removal = scan.removal]_vars

\* The timer is lost, or the messages of whats find no radio buffer.
Stuck(whats) == timer = "dead" \/ lacking \in whats

\* A test ends, whatever reports are lost and however often no buffer is free, unless
\* its timer is lost, or no buffer is ever free again for an update: the updates look
\* at no time limit, and are tried until they have been sent.
ScanEnds == scan.testing ~> (~scan.testing \/ []Stuck({"update"}))

\* The platform hears that Flush All is done, unless the gateway is learning, or the
\* timer is lost, or no buffer is ever free again for its updates and the test behind.
FlushAllReported ==
  scan.flushing > 0 ~>
    (scan.flushing = 0 \/ shadow.state = "learning" \/ []Stuck({"update", "request"}))
=============================================================================
