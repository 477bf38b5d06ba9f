-------------------------- MODULE RadioTask_proof --------------------------
(***************************************************************************)
(* Proofs about RadioTask.tla, for any number of nodes and messages and    *)
(* any limits: types, reports that are not lost, numbers that repeat late, *)
(* rumours that are kept while they wait, and missing nodes that are       *)
(* really missing.                                                         *)
(***************************************************************************)
EXTENDS RadioTask, TLAPS

\* A rumour waits to be propagated, or to be spread.
Waits == {"propagate", "spread"} \cap reasons # {}

\* What is in RumorBuf is still to be transmitted.
Live == current # "none" \/ Waits

\* Where the task is in its pass, and what it has checked on the way there.
Phase ==
  /\ step.at = "chirp" =>
       step.chirps < ChirpLimit /\ mesh.sid # NullSid /\ step.original = current
  /\ "propagate" \in reasons => attempts < PropagationCountLimit
  /\ "status request" \in reasons => asked.status \in Sid
  /\ rumor.type \in Confirmed => untold \subseteq Sid

\* A new rumour is only built when none waits.
OwnRumor ==
  current \notin {"none", "propagate", "spread"} => rumor.type = current /\ ~Waits

\* No two rumours transmitted share their count.
CountsAreUnique == \A r, s \in heard : r.from = s.from /\ r.count = s.count => r = s

\* What is sent is the low bits of the count.
Numbered ==
  /\ rumor.number = rumor.count % Numbers
  /\ \A r \in heard : r.number = r.count % Numbers

\* The next number has not been transmitted, nor has that of the rumour by
\* another one; while the task chirps, neither has the one it may give back.
Numbering ==
  /\ \A r \in heard : r.count < number.next
  /\ Live => /\ rumor.count < number.next
             /\ \A r \in heard : r.count = rumor.count => r = rumor
  /\ step.at = "chirp" /\ current # "none" =>
       /\ \A r \in heard : r.count < number.previous
       /\ Waits => number.previous = number.next

\* A node is struck off an update of the SID map when it has acknowledged it.
Unreached ==
  rumor.type = "sidmap update" =>
    /\ Live => untold = told.all \ told.acked
    /\ "spread" \in reasons => untold = {}
    /\ step.at \in {"chirp", "listen"} /\ current = "sidmap update"
         => "status request" \notin reasons

\* The inductive invariant.
IInv == /\ TypeOK /\ ReportsKept /\ CountsAreUnique /\ MissingAreUnreached
        /\ Phase /\ OwnRumor /\ Numbering /\ Unreached
----------------------------------------------------------------------------
(* The reasons.                                                            *)

(* The order of the reasons, one by one.                                   *)
LEMMA UrgencyIs ==
  /\ DOMAIN Urgency = 1..8
  /\ Urgency[1] = "propagate" /\ Urgency[2] = "spread" /\ Urgency[3] = "status reply"
  /\ Urgency[4] = "status request" /\ Urgency[5] = "map reply" /\ Urgency[6] = "sd rumor"
  /\ Urgency[7] = "joined" /\ Urgency[8] = "sidmap update"
  BY DEF Urgency

(* The reasons are those in the order.                                     *)
LEMMA Reasons ==
  Reason = {"propagate", "spread", "status reply", "status request", "map reply",
            "sd rumor", "joined", "sidmap update"}
<1>1. ASSUME NEW i \in 1..8
      PROVE  i = 1 \/ i = 2 \/ i = 3 \/ i = 4 \/ i = 5 \/ i = 6 \/ i = 7 \/ i = 8
  OBVIOUS
<1>2. \A i \in 1..8 : Urgency[i] \in Reason
  BY UrgencyIs DEF Reason
<1>3. /\ 1 \in 1..8 /\ 2 \in 1..8 /\ 3 \in 1..8 /\ 4 \in 1..8 /\ 5 \in 1..8 /\ 6 \in 1..8
      /\ 7 \in 1..8 /\ 8 \in 1..8
  OBVIOUS
<1>4. \A r \in Reason : \E i \in 1..8 : r = Urgency[i]
  BY UrgencyIs DEF Reason
<1>5. \A r \in Reason : r \in {"propagate", "spread", "status reply", "status request",
                               "map reply", "sd rumor", "joined", "sidmap update"}
  BY <1>1, <1>4, UrgencyIs, Zenon
<1> QED
  BY <1>2, <1>3, <1>5, UrgencyIs

(* What StartReasonRumor takes: what waits comes first, an update of the   *)
(* SID map last.                                                           *)
LEMMA MostUrgentIs ==
  ASSUME NEW r, MostUrgent(r)
  PROVE  /\ r \in reasons
         /\ Waits => r \in {"propagate", "spread"}
         /\ r = "sidmap update" => "status request" \notin reasons
<1>1. PICK i \in 1..8 :
        Urgency[i] = r /\ r \in reasons /\ \A j \in 1..(i - 1) : Urgency[j] \notin reasons
  BY UrgencyIs DEF MostUrgent
<1>2. i \in Nat /\ i >= 1 /\ (i = 1 \/ i = 2 \/ i > 2)
  OBVIOUS
<1>3. ASSUME "propagate" \in reasons PROVE i = 1
  <2>1. ~(1 \in 1..(i - 1))
    BY <1>1, <1>3, UrgencyIs
  <2> QED
    BY <1>2, <2>1
<1>4. ASSUME "spread" \in reasons PROVE i = 1 \/ i = 2
  <2>1. ~(2 \in 1..(i - 1))
    BY <1>1, <1>4, UrgencyIs
  <2> QED
    BY <1>2, <2>1
<1>5. ASSUME r = "sidmap update" PROVE "status request" \notin reasons
  <2>1. i = 8
    <3>1. i = 1 \/ i = 2 \/ i = 3 \/ i = 4 \/ i = 5 \/ i = 6 \/ i = 7 \/ i = 8
      OBVIOUS
    <3> QED
      BY <1>1, <1>5, <3>1, UrgencyIs
  <2>2. 4 \in 1..(i - 1)
    BY <2>1
  <2> QED
    BY <1>1, <2>2, UrgencyIs
<1> QED
  BY <1>1, <1>3, <1>4, <1>5, UrgencyIs DEF Waits
----------------------------------------------------------------------------
(* Start-up.                                                               *)

(* The invariant holds at start-up.                                        *)
LEMMA InitEstablishesInvariant == Init => IInv
<1> SUFFICES ASSUME Init PROVE IInv
  OBVIOUS
<1> USE RadioAssumption DEF RadioAssumption, Init
<1>1. TypeOK
  <2>1. 0 \in 0..(Numbers - 1)
    OBVIOUS
  <2> QED
    BY <2>1 DEF TypeOK, Rumors, Content, Reports, News, OutOfMesh, Steps, Meshes, Requests
<1>2. ReportsKept /\ CountsAreUnique /\ MissingAreUnreached
  BY DEF ReportsKept, CountsAreUnique, MissingAreUnreached
<1>3. Phase /\ OwnRumor
  BY DEF Phase, OwnRumor, Confirmed
<1>4. Numbering /\ Unreached
  BY DEF Numbering, Unreached, Live, Waits
<1> QED
  BY <1>1, <1>2, <1>3, <1>4 DEF IInv
----------------------------------------------------------------------------
(* TakeCommand.                                                            *)

\* What the reasons may become that neither make a rumour wait nor stop it.
MoreReasons(rs) ==
  /\ rs \subseteq Reason /\ reasons \subseteq rs
  /\ "propagate" \in rs <=> "propagate" \in reasons
  /\ "spread" \in rs <=> "spread" \in reasons

(* A reason that does not wait can be added.                               *)
LEMMA MoreReasonsWith ==
  ASSUME TypeOK, NEW r \in Reason, r \notin {"propagate", "spread"}
  PROVE  MoreReasons(reasons \cup {r}) /\ MoreReasons(reasons)
  BY DEF MoreReasons, TypeOK

(* The other nodes of the mesh are nodes.                                  *)
LEMMA OthersAreNodes ==
  ASSUME TypeOK
  PROVE  Others \in SUBSET Sid /\ mesh.map \in SUBSET Sid /\ mesh.sid \in Sid \cup {NullSid}
<1>1. CASE mesh = OutOfMesh
  BY <1>1 DEF OutOfMesh, Others
<1>2. CASE mesh \in [sid : Sid, map : SUBSET Sid]
  BY <1>2 DEF Others
<1> QED
  BY <1>1, <1>2 DEF TypeOK, Meshes

(* A count that is not 0 is still within its bound when one is taken.      *)
LEMMA OneLess ==
  ASSUME NEW bound \in Nat, NEW n \in 0..bound, n > 0
  PROVE  n - 1 \in 0..bound
  OBVIOUS

(* A command changes what is asked for, adds reasons that do not wait, and *)
(* may change the mesh.                                                    *)
LEMMA CommandType ==
  ASSUME TypeOK, Command \/ NoCommand, "status request" \in reasons => asked.status \in Sid
  PROVE  /\ left' \in [commands : 0..MaxCommands, answers : 0..MaxAnswers]
         /\ asked' \in Requests /\ mesh' \in Meshes /\ MoreReasons(reasons')
         /\ "status request" \in reasons' => asked'.status \in Sid
<1>1. CASE NoCommand
  BY <1>1 DEF NoCommand, TypeOK, MoreReasons
<1>2. CASE Command
  <2>1. left' \in [commands : 0..MaxCommands, answers : 0..MaxAnswers]
    <3>1. left.commands \in 0..MaxCommands /\ left.commands > 0 /\ MaxCommands \in Nat
      BY <1>2, RadioAssumption DEF Command, TypeOK, RadioAssumption
    <3> QED
      BY <1>2, <3>1, OneLess DEF Command, TypeOK
  <2>2. ASSUME NEW m \in Message, Transparent(m)
        PROVE  /\ asked' \in Requests /\ mesh' \in Meshes /\ MoreReasons(reasons')
               /\ "status request" \in reasons' => asked'.status \in Sid
    <3>1. {m} \in Content
      BY DEF Content
    <3>2. asked' \in Requests /\ asked'.status = asked.status
      BY <2>2, <3>1 DEF Transparent, TypeOK, Requests
    <3>3. reasons' = reasons \cup {"sd rumor"} /\ mesh' \in Meshes
      BY <2>2 DEF Transparent, TypeOK
    <3> QED
      BY <3>2, <3>3, MoreReasonsWith, Reasons
  <2>3. ASSUME NEW s \in Others, RumorTarget(s)
        PROVE  /\ asked' \in Requests /\ mesh' \in Meshes /\ MoreReasons(reasons')
               /\ "status request" \in reasons' => asked'.status \in Sid
    <3>1. s \in Sid
      BY OthersAreNodes
    <3>2. asked' \in Requests /\ asked'.status = asked.status
      BY <2>3, <3>1 DEF RumorTarget, TypeOK, Requests
    <3> QED
      BY <2>3, <3>2 DEF RumorTarget, TypeOK, MoreReasons
  <2>4. ASSUME NEW s \in Others, NEW details \in BOOLEAN, RemoteStatus(s, details)
        PROVE  /\ asked' \in Requests /\ mesh' \in Meshes /\ MoreReasons(reasons')
               /\ "status request" \in reasons' => asked'.status \in Sid
    <3>1. s \in Sid
      BY OthersAreNodes
    <3>2. asked' \in Requests /\ asked'.status \in Sid
      BY <2>4, <3>1 DEF RemoteStatus, TypeOK, Requests
    <3>3. reasons' = reasons \cup {"status request"} /\ mesh' \in Meshes
      BY <2>4 DEF RemoteStatus, TypeOK
    <3> QED
      BY <3>2, <3>3, MoreReasonsWith, Reasons
  <2>5. ASSUME NEW m \in SUBSET mesh.map, UpdateRequest(m)
        PROVE  /\ asked' \in Requests /\ mesh' \in Meshes /\ MoreReasons(reasons')
               /\ "status request" \in reasons' => asked'.status \in Sid
    <3>1. m \in SUBSET Sid
      BY OthersAreNodes
    <3>2. asked' \in Requests /\ asked'.status = asked.status
      BY <2>5, <3>1 DEF UpdateRequest, TypeOK, Requests
    <3>3. reasons' = reasons \cup {"sidmap update"} /\ mesh' \in Meshes
      BY <2>5 DEF UpdateRequest, TypeOK
    <3> QED
      BY <3>2, <3>3, MoreReasonsWith, Reasons
  <2>6. CASE Unlearn
    <3>1. mesh' \in Meshes
      BY <2>6 DEF Unlearn, Meshes
    <3> QED
      BY <2>1, <2>6, <3>1 DEF Unlearn, TypeOK, MoreReasons
  <2>7. ASSUME NEW s \in Sid, Learn(s)
        PROVE  /\ asked' \in Requests /\ mesh' \in Meshes /\ MoreReasons(reasons')
               /\ "status request" \in reasons' => asked'.status \in Sid
    <3>1. mesh' \in Meshes
      BY <2>7 DEF Learn, Meshes
    <3>2. reasons' = reasons \cup {"joined"} /\ asked' = asked /\ asked \in Requests
      BY <2>7 DEF Learn, TypeOK
    <3> QED
      BY <3>1, <3>2, MoreReasonsWith, Reasons
  <2> QED
    BY <1>2, <2>1, <2>2, <2>3, <2>4, <2>5, <2>6, <2>7 DEF Command
<1> QED
  BY <1>1, <1>2

(* A command, or none, keeps the invariant.                                *)
LEMMA TakeCommandKeepsInvariant == IInv /\ TakeCommand => IInv'
<1> SUFFICES ASSUME IInv, TakeCommand PROVE IInv'
  OBVIOUS
<1>1. "status request" \in reasons => asked.status \in Sid
  BY DEF IInv, Phase
<1>2. /\ left' \in [commands : 0..MaxCommands, answers : 0..MaxAnswers]
      /\ asked' \in Requests /\ mesh' \in Meshes /\ MoreReasons(reasons')
      /\ "status request" \in reasons' => asked'.status \in Sid
  BY <1>1, CommandType DEF IInv, TakeCommand
<1>3. step' \in Steps /\ step'.at = "start" /\ out = None
  BY DEF IInv, TypeOK, TakeCommand, Goes, Steps, ReportsKept
<1>4. TypeOK'
  BY <1>2, <1>3 DEF IInv, TypeOK, TakeCommand, MoreReasons
<1>5. (ReportsKept /\ CountsAreUnique /\ MissingAreUnreached)'
  BY <1>3 DEF IInv, TakeCommand, ReportsKept, CountsAreUnique, MissingAreUnreached
<1>6. (Phase /\ OwnRumor)'
  BY <1>2, <1>3 DEF IInv, TakeCommand, MoreReasons, Phase, OwnRumor, Waits
<1>7. Numbering' /\ Unreached'
  BY <1>2, <1>3 DEF IInv, TakeCommand, MoreReasons, Numbering, Unreached, Live, Waits
<1> QED
  BY <1>4, <1>5, <1>6, <1>7 DEF IInv
----------------------------------------------------------------------------
(* Start.                                                                  *)

(* The low bits of a count.                                                *)
LEMMA LowBits ==
  ASSUME NEW n \in Nat
  PROVE  n % Numbers \in 0..(Numbers - 1)
  BY RadioAssumption DEF RadioAssumption

(* A new rumour has the next number, and has been told to nobody.          *)
LEMMA StartRumorType ==
  ASSUME TypeOK, NEW type \in Reason \cup {"none", "confirm"}, NEW content \in Content,
         NEW to \in SUBSET (Sid \cup {NullSid}), StartRumor(type, content, to)
  PROVE  /\ rumor' \in Rumors /\ rumor'.type = type /\ rumor'.count = number.next
         /\ untold' = to /\ told' = [all |-> to, acked |-> {}]
<1>1. number.next \in Nat /\ mesh.sid \in Sid \cup {NullSid}
  BY OthersAreNodes DEF TypeOK
<1>2. number.next % Numbers \in 0..(Numbers - 1)
  BY <1>1, LowBits
<1> QED
  BY <1>1, <1>2 DEF StartRumor, Rumors

(* The rumour that a reason calls for.                                     *)
LEMMA NewRumorType ==
  ASSUME TypeOK, NEW r \in reasons, NewRumor(r),
         "status request" \in reasons => asked.status \in Sid
  PROVE  /\ rumor' \in Rumors /\ rumor'.type = r /\ rumor'.count = number.next
         /\ untold' \in SUBSET (Sid \cup {NullSid}) /\ (r \in Confirmed => untold' \subseteq Sid)
         /\ told' = [all |-> untold', acked |-> {}]
         /\ asked' \in Requests /\ asked'.status = asked.status
         /\ expected' \in {"none", "status request", "sidmap update"}
<1>1. r \in Reason \cup {"none", "confirm"} /\ asked \in Requests
      /\ expected \in {"none", "status request", "sidmap update"}
  BY DEF TypeOK
<1>2. /\ asked.message \in Content /\ asked.map \in SUBSET Sid
      /\ asked.target \in Sid \cup {NullSid} /\ asked.statusReply \in Sid \cup {NullSid}
      /\ asked.mapReply \in Sid \cup {NullSid}
  BY <1>1 DEF Requests
<1>3. \A m \in SUBSET Sid : m \in Content
  BY DEF Content
<1>4. {} \in Content /\ {"details"} \in Content
  BY DEF Content
<1>5. CASE r = "status reply"
  <2>1. StartRumor(r, {}, {asked.statusReply}) /\ UNCHANGED <<asked, expected>>
    BY <1>5 DEF NewRumor
  <2>2. {asked.statusReply} \in SUBSET (Sid \cup {NullSid})
    BY <1>2
  <2> QED
    BY <1>1, <1>4, <1>5, <2>1, <2>2, StartRumorType DEF Confirmed
<1>6. CASE r = "status request"
  <2>1. /\ StartRumor(r, {asked.status}, {asked.status})
        /\ asked' = IF asked.details THEN [asked EXCEPT !.message = {"details"}] ELSE asked
        /\ expected' = IF asked.details THEN expected ELSE r
    BY <1>6 DEF NewRumor
  <2>2. asked.status \in Sid
    BY <1>6
  <2>3. asked' \in Requests /\ asked'.status = asked.status
    BY <1>1, <1>4, <2>1 DEF Requests
  <2>4. {asked.status} \in Content /\ {asked.status} \in SUBSET (Sid \cup {NullSid})
    BY <1>3, <2>2
  <2>5. /\ rumor' \in Rumors /\ rumor'.type = r /\ rumor'.count = number.next
        /\ untold' = {asked.status} /\ told' = [all |-> {asked.status}, acked |-> {}]
    BY <1>1, <2>1, <2>4, StartRumorType
  <2>6. expected' \in {"none", "status request", "sidmap update"}
    BY <1>1, <1>6, <2>1
  <2> QED
    BY <2>2, <2>3, <2>5, <2>6
<1>7. CASE r = "map reply"
  <2>1. /\ StartRumor(r, IF asked.details THEN {} ELSE mesh.map, {asked.mapReply})
        /\ UNCHANGED <<asked, expected>>
    BY <1>7 DEF NewRumor
  <2>2. (IF asked.details THEN {} ELSE mesh.map) \in Content
    BY <1>3, <1>4, OthersAreNodes
  <2>3. {asked.mapReply} \in SUBSET (Sid \cup {NullSid})
    BY <1>2
  <2> QED
    BY <1>1, <1>7, <2>1, <2>2, <2>3, StartRumorType DEF Confirmed
<1>8. CASE r = "sd rumor"
  <2> DEFINE to == IF asked.target = NullSid THEN Others ELSE {asked.target}
  <2>1. /\ StartRumor(r, asked.message, to)
        /\ asked' = [asked EXCEPT !.target = NullSid] /\ UNCHANGED expected
    BY <1>8 DEF NewRumor
  <2>2. to \in SUBSET (Sid \cup {NullSid})
    BY <1>2, OthersAreNodes
  <2>3. asked' \in Requests /\ asked'.status = asked.status
    BY <1>1, <2>1 DEF Requests
  <2> HIDE DEF to
  <2> QED
    BY <1>1, <1>2, <1>8, <2>1, <2>2, <2>3, StartRumorType DEF Confirmed
<1>9. CASE r = "joined"
  <2>1. StartRumor(r, {}, Others) /\ UNCHANGED <<asked, expected>>
    BY <1>9 DEF NewRumor
  <2> QED
    BY <1>1, <1>4, <1>9, <2>1, OthersAreNodes, StartRumorType DEF Confirmed
<1>10. CASE r = "sidmap update"
  <2>1. StartRumor(r, asked.map, Others) /\ expected' = r /\ asked' = asked
    BY <1>10 DEF NewRumor
  <2>2. /\ rumor' \in Rumors /\ rumor'.type = r /\ rumor'.count = number.next
        /\ untold' = Others /\ told' = [all |-> Others, acked |-> {}]
    BY <1>1, <1>2, <1>3, <2>1, OthersAreNodes, StartRumorType
  <2> QED
    BY <1>1, <1>10, <2>1, <2>2, OthersAreNodes
<1> QED
  BY <1>5, <1>6, <1>7, <1>8, <1>9, <1>10 DEF NewRumor

(* There is at least one chirp, and one attempt to propagate.              *)
LEMMA PositiveLimits == 0 < ChirpLimit /\ 0 < PropagationCountLimit
  BY RadioAssumption DEF RadioAssumption

(* A new rumour is built when none waits, so that it takes nothing away.   *)
LEMMA StartKeepsInvariant == IInv /\ Start => IInv'
<1> SUFFICES ASSUME IInv, Start PROVE IInv'
  OBVIOUS
<1>1. TypeOK /\ "status request" \in reasons => asked.status \in Sid
  BY DEF IInv, Phase
<1>2. /\ step'.at \in {"chirp", "listen", "report"} /\ step'.chirps = 0
      /\ step'.original = current' /\ (step'.at = "chirp" => mesh.sid # NullSid)
  BY DEF Start
<1>3. /\ out = None /\ UNCHANGED <<mesh, reasons, helpers, attempts, out, left, heard>>
  BY DEF IInv, Start, ReportsKept
<1>4. current' \in reasons \cup {"none"} => step' \in Steps
  <2>1. 0 \in 0..ChirpLimit
    BY RadioAssumption DEF RadioAssumption
  <2> QED
    BY <2>1 DEF IInv, TypeOK, Start, Steps
<1>5. (ReportsKept /\ CountsAreUnique /\ MissingAreUnreached)'
  BY <1>3 DEF IInv, ReportsKept, CountsAreUnique, MissingAreUnreached
<1>6. CASE reasons = {} /\ UNCHANGED <<current, rumor, untold, told, number, asked, expected>>
  <2>1. current = "none" /\ current' = "none"
    BY <1>6 DEF IInv, TypeOK
  <2>2. TypeOK'
    BY <1>3, <1>4, <1>6, <2>1 DEF IInv, TypeOK
  <2>3. (Phase /\ OwnRumor)'
    BY <1>2, <1>3, <1>6, <2>1, RadioAssumption DEF RadioAssumption, IInv, Phase, OwnRumor
  <2>4. (Numbering /\ Unreached)'
    BY <1>2, <1>3, <1>6, <2>1 DEF IInv, Numbering, Unreached, Live, Waits
  <2> QED
    BY <1>5, <2>2, <2>3, <2>4 DEF IInv
<1>7. ASSUME NEW r \in {"propagate", "spread"}, MostUrgent(r), current' = r,
             number' = [number EXCEPT !.previous = number.next],
             UNCHANGED <<rumor, untold, told, asked, expected>>
      PROVE  IInv'
  <2>1. r \in reasons /\ Waits /\ Waits'
    BY <1>3, <1>7, MostUrgentIs DEF Waits
  <2>2. /\ number' \in [next : Nat, previous : Nat] /\ number'.next = number.next
        /\ number'.previous = number'.next
    BY <1>7 DEF IInv, TypeOK
  <2>3. TypeOK'
    BY <1>3, <1>4, <1>7, <2>1, <2>2 DEF IInv, TypeOK
  <2>4. (Phase /\ OwnRumor)'
    <3>1. Phase'
      BY <1>2, <1>3, <1>7, PositiveLimits DEF IInv, Phase
    <3> QED
      BY <1>7, <3>1 DEF OwnRumor
  <2>5. Numbering'
    BY <1>3, <1>7, <2>1, <2>2 DEF IInv, Numbering, Live
  <2>6. Unreached'
    BY <1>3, <1>7, <2>1 DEF IInv, Unreached, Live
  <2> QED
    BY <1>5, <2>3, <2>4, <2>5, <2>6 DEF IInv
<1>8. ASSUME NEW r \in Reason, MostUrgent(r), current' = r, r \notin {"propagate", "spread"},
             number' = [next |-> number.next + 1, previous |-> number.next], NewRumor(r)
      PROVE  IInv'
  <2>1. r \in reasons /\ ~Waits /\ ~Waits' /\ (r = "sidmap update" => "status request" \notin reasons)
    BY <1>3, <1>8, MostUrgentIs DEF Waits
  <2>2. /\ rumor' \in Rumors /\ rumor'.type = r /\ rumor'.count = number.next
        /\ untold' \in SUBSET (Sid \cup {NullSid}) /\ (r \in Confirmed => untold' \subseteq Sid)
        /\ told' = [all |-> untold', acked |-> {}]
        /\ asked' \in Requests /\ asked'.status = asked.status
        /\ expected' \in {"none", "status request", "sidmap update"}
    BY <1>1, <1>8, <2>1, NewRumorType DEF IInv
  <2>3. number.next \in Nat /\ number' \in [next : Nat, previous : Nat]
    <3>1. number.next \in Nat
      BY DEF IInv, TypeOK
    <3> QED
      BY <1>8, <3>1
  <2>4. told' \in [all : SUBSET (Sid \cup {NullSid}), acked : SUBSET Sid]
    BY <2>2
  <2>5. TypeOK'
    BY <1>3, <1>4, <1>8, <2>1, <2>2, <2>3, <2>4 DEF IInv, TypeOK
  <2>6. (Phase /\ OwnRumor)'
    <3>1. Phase'
      BY <1>1, <1>2, <1>3, <1>8, <2>1, <2>2, PositiveLimits DEF IInv, Phase
    <3> QED
      BY <1>8, <2>1, <2>2, <3>1 DEF OwnRumor
  <2>7. Numbering'
    <3>1. \A x \in heard : x.count \in Nat /\ x.count < number.next
      BY DEF IInv, TypeOK, Rumors, Numbering
    <3>2. number'.next = number.next + 1 /\ number'.previous = number.next
      BY <1>8
    <3>3. number.next \in Nat /\ rumor'.count = number.next
      BY <2>2, <2>3
    <3>4. number.next < number'.next
      BY <3>2, <3>3
    <3>5. ASSUME NEW x \in heard PROVE x.count < number'.next /\ x.count # rumor'.count
      <4>1. x.count \in Nat /\ x.count < number.next
        BY <3>1
      <4> QED
        BY <3>2, <3>3, <4>1
    <3> QED
      BY <1>3, <2>1, <3>1, <3>2, <3>3, <3>4, <3>5 DEF Numbering
  <2>8. Unreached'
    BY <1>3, <1>8, <2>1, <2>2 DEF Unreached, Waits
  <2> QED
    BY <1>5, <2>5, <2>6, <2>7, <2>8 DEF IInv
<1> QED
  BY <1>6, <1>7, <1>8 DEF Start, StartReasonRumor
----------------------------------------------------------------------------
(* Reports and confirmations.                                              *)

\* A report that is not about nodes that the gateway's own rumour has missed.
NotOwn(report) == report = None \/ report.type # "missing" \/ ~report.own

Missing(m, own) == [type |-> "missing", nodes |-> m, own |-> own]

(* An update leaves the gateway in a mesh whose map it has, or in none.    *)
LEMMA SIDMapUpdateType ==
  ASSUME TypeOK, NEW m \in SUBSET Sid, SIDMapUpdate(m)
  PROVE  mesh' \in Meshes
<1>1. CASE mesh.sid \notin m \/ m \ {mesh.sid} = {}
  BY <1>1 DEF SIDMapUpdate, Meshes
<1>2. CASE ~(mesh.sid \notin m \/ m \ {mesh.sid} = {})
  <2>1. mesh # OutOfMesh
    BY <1>2, RadioAssumption DEF RadioAssumption, OutOfMesh
  <2>2. mesh \in [sid : Sid, map : SUBSET Sid] /\ mesh.sid \in mesh.map /\ mesh.sid \in m
    BY <1>2, <2>1 DEF TypeOK, Meshes
  <2>3. mesh' = [mesh EXCEPT !.map = @ \cap m]
    BY <1>2 DEF SIDMapUpdate
  <2> QED
    BY <2>2, <2>3 DEF Meshes
<1> QED
  BY <1>1, <1>2

(* A confirmation that is awaited is answered with a report of the nodes.   *)
LEMMA ProcessConfirmationType ==
  ASSUME TypeOK, out = None, NEW m \in SUBSET Sid, NEW own \in BOOLEAN,
         ProcessConfirmation(m, own)
  PROVE  /\ mesh' \in Meshes /\ expected' = "none"
         /\ out' = None \/ out' = Missing(m, own)
         /\ out' \in Reports
<1>1. asked.map \in SUBSET Sid
  BY DEF TypeOK, Requests
<1>2. mesh' \in Meshes /\ expected' = "none"
  BY <1>1, SIDMapUpdateType DEF ProcessConfirmation, TypeOK
<1>3. out' = None \/ out' = Missing(m, own)
  BY DEF ProcessConfirmation, Report, Missing
<1>4. Missing(m, own) \in Reports /\ None \in Reports
  BY DEF Missing, Reports
<1> QED
  BY <1>2, <1>3, <1>4

(* A rumour that is received adds no reason that waits.                    *)
LEMMA ReceiveType ==
  ASSUME TypeOK, out = None, mesh.sid # NullSid,
         NEW i \in Sid, NEW oldNews \in BOOLEAN, Receive(i, oldNews)
  PROVE  /\ mesh' \in Meshes /\ MoreReasons(reasons')
         /\ "status request" \in reasons' <=> "status request" \in reasons
         /\ asked' \in Requests /\ asked'.status = asked.status
         /\ expected' \in {"none", "status request", "sidmap update"}
         /\ out' \in Reports /\ NotOwn(out')
<1>1. /\ mesh \in Meshes /\ MoreReasons(reasons) /\ asked \in Requests
      /\ expected \in {"none", "status request", "sidmap update"}
  BY DEF TypeOK, MoreReasons
<1>2. None \in Reports /\ NotOwn(None) /\ News \in Reports /\ NotOwn(News)
  BY DEF Reports, News, NotOwn
<1>3. CASE UNCHANGED <<mesh, reasons, asked, expected, out>>
  BY <1>1, <1>2, <1>3
<1>4. CASE /\ mesh' = [mesh EXCEPT !.map = @ \cup {i}]
           /\ IF oldNews THEN UNCHANGED out ELSE Report(News)
           /\ UNCHANGED <<reasons, asked, expected>>
  <2>1. mesh' \in Meshes
    <3>1. mesh # OutOfMesh
      BY DEF OutOfMesh
    <3>2. mesh \in [sid : Sid, map : SUBSET Sid] /\ mesh.sid \in mesh.map
      BY <1>1, <3>1 DEF Meshes
    <3> QED
      BY <1>4, <3>2 DEF Meshes
  <2> QED
    BY <1>1, <1>2, <1>4, <2>1 DEF Report
<1>5. CASE /\ \E m \in SUBSET Sid : SIDMapUpdate(m)
           /\ IF oldNews THEN UNCHANGED out ELSE Report(News)
           /\ UNCHANGED <<reasons, asked, expected>>
  <2>1. mesh' \in Meshes
    BY <1>5, SIDMapUpdateType
  <2> QED
    BY <1>1, <1>2, <1>5, <2>1 DEF Report
<1>6. CASE /\ out' = IF oldNews THEN out ELSE News
           /\ UNCHANGED <<mesh, reasons, asked, expected>>
  BY <1>1, <1>2, <1>6
<1>7. CASE /\ reasons' = reasons \cup {"status reply"}
           /\ asked' = [asked EXCEPT !.statusReply = i]
           /\ UNCHANGED <<mesh, expected, out>>
  <2>1. asked' \in Requests /\ asked'.status = asked.status
    BY <1>1, <1>7 DEF Requests
  <2> QED
    BY <1>1, <1>2, <1>7, <2>1, MoreReasonsWith, Reasons
<1>8. CASE /\ reasons' = reasons \cup {"map reply"}
           /\ \E details \in BOOLEAN : asked' = [asked EXCEPT !.mapReply = i, !.details = details]
           /\ UNCHANGED <<mesh, expected, out>>
  <2>1. asked' \in Requests /\ asked'.status = asked.status
    BY <1>1, <1>8 DEF Requests
  <2> QED
    BY <1>1, <1>2, <1>8, <2>1, MoreReasonsWith, Reasons
<1>9. CASE Report(News) /\ UNCHANGED <<mesh, reasons, asked, expected>>
  BY <1>1, <1>2, <1>9 DEF Report
<1>10. CASE /\ \E m \in SUBSET Others : ProcessConfirmation(m, FALSE)
            /\ UNCHANGED <<reasons, asked>>
  <2>1. PICK m \in SUBSET Sid : ProcessConfirmation(m, FALSE)
    BY <1>10, OthersAreNodes
  <2>2. /\ mesh' \in Meshes /\ expected' = "none" /\ out' \in Reports
        /\ out' = None \/ out' = Missing(m, FALSE)
    BY <2>1, ProcessConfirmationType
  <2>3. NotOwn(out')
    BY <2>2 DEF NotOwn, Missing
  <2> QED
    BY <1>1, <1>10, <2>2, <2>3
<1> QED
  BY <1>3, <1>4, <1>5, <1>6, <1>7, <1>8, <1>9, <1>10 DEF Receive
----------------------------------------------------------------------------
(* ChirpToReceive.                                                         *)

(* A count below its bound is within it when one is added.                 *)
LEMMA OneMore ==
  ASSUME NEW bound \in Nat, NEW n \in 0..bound, n < bound
  PROVE  n + 1 \in 0..bound
  OBVIOUS

(* While it chirps, the rumour is the one it has begun with.               *)
LEMMA ChirpingIs ==
  ASSUME IInv, step.at = "chirp"
  PROVE  /\ TypeOK /\ out = None /\ mesh.sid # NullSid /\ step.original = current
         /\ step.chirps + 1 \in 0..ChirpLimit
<1>1. /\ TypeOK /\ out = None /\ mesh.sid # NullSid /\ step.original = current
      /\ step.chirps < ChirpLimit
  BY DEF IInv, Phase, ReportsKept
<1>2. step.chirps \in 0..ChirpLimit /\ ChirpLimit \in Nat
  BY <1>1, RadioAssumption DEF TypeOK, Steps, RadioAssumption
<1> QED
  BY <1>1, <1>2, OneMore

(* A chirp that nobody answers leaves the rumour and its number.           *)
LEMMA NobodyAnswersKeepsInvariant == IInv /\ NobodyAnswers => IInv'
<1> SUFFICES ASSUME IInv, NobodyAnswers PROVE IInv'
  OBVIOUS
<1>1. /\ TypeOK /\ out = None /\ mesh.sid # NullSid /\ step.original = current
      /\ step.chirps + 1 \in 0..ChirpLimit
  BY ChirpingIs DEF NobodyAnswers
<1>2. UNCHANGED <<mesh, reasons, current, rumor, untold, helpers, attempts, number, asked,
                  expected, out, left, heard, told>>
  BY <1>1 DEF NobodyAnswers, Chirped
<1>3. /\ step' \in Steps /\ step'.original = step.original
      /\ step'.at = "chirp" => step'.chirps < ChirpLimit
      /\ step.at = "chirp"
  BY <1>1 DEF NobodyAnswers, Chirped, TypeOK, Steps
<1>4. TypeOK'
  BY <1>1, <1>2, <1>3 DEF TypeOK
<1>5. (ReportsKept /\ CountsAreUnique /\ MissingAreUnreached)'
  BY <1>1, <1>2 DEF IInv, ReportsKept, CountsAreUnique, MissingAreUnreached
<1>6. (Phase /\ OwnRumor)'
  BY <1>1, <1>2, <1>3 DEF IInv, Phase, OwnRumor, Waits
<1>7. (Numbering /\ Unreached)'
  BY <1>1, <1>2, <1>3 DEF IInv, Numbering, Unreached, Live, Waits
<1> QED
  BY <1>4, <1>5, <1>6, <1>7 DEF IInv

(* A chirp that is answered may give back the number, which nobody has     *)
(* heard.                                                                  *)
LEMMA SomebodyListensKeepsInvariant ==
  ASSUME IInv, SomebodyListens, NEW i \in Sid, NEW oldNews \in BOOLEAN, Receive(i, oldNews)
  PROVE  IInv'
<1>1. /\ TypeOK /\ out = None /\ mesh.sid # NullSid /\ step.original = current
      /\ step.chirps + 1 \in 0..ChirpLimit
  BY ChirpingIs DEF SomebodyListens
<1>2. /\ mesh' \in Meshes /\ MoreReasons(reasons')
      /\ "status request" \in reasons' <=> "status request" \in reasons
      /\ asked' \in Requests /\ asked'.status = asked.status
      /\ expected' \in {"none", "status request", "sidmap update"}
      /\ out' \in Reports /\ NotOwn(out')
  BY <1>1, ReceiveType
<1>3. /\ step.at = "chirp" /\ current' = "none"
      /\ UNCHANGED <<rumor, untold, helpers, attempts, heard, told>>
  BY DEF SomebodyListens
<1>4. step' \in Steps /\ step'.at = "report"
  BY <1>1 DEF SomebodyListens, Chirped, TypeOK, Steps
<1>5. left' \in [commands : 0..MaxCommands, answers : 0..MaxAnswers]
  <2>1. left.answers \in 0..MaxAnswers /\ left.answers > 0 /\ MaxAnswers \in Nat
    BY <1>1, RadioAssumption DEF SomebodyListens, TypeOK, RadioAssumption
  <2> QED
    BY <1>1, <2>1, OneLess DEF SomebodyListens, TypeOK
<1>6. /\ number' \in [next : Nat, previous : Nat]
      /\ current = "none" => number' = number
      /\ current # "none" => number'.next = number.previous
  BY <1>1 DEF SomebodyListens, Chirped, TypeOK
<1>7. TypeOK'
  BY <1>1, <1>2, <1>3, <1>4, <1>5, <1>6 DEF TypeOK, MoreReasons
<1>8. (ReportsKept /\ CountsAreUnique /\ MissingAreUnreached)'
  BY <1>2, <1>3, <1>4 DEF IInv, ReportsKept, CountsAreUnique, MissingAreUnreached, NotOwn
<1>9. (Phase /\ OwnRumor)'
  BY <1>2, <1>3, <1>4 DEF IInv, Phase, OwnRumor, MoreReasons
<1>10. Numbering'
  BY <1>2, <1>3, <1>4, <1>6 DEF IInv, Numbering, Live, Waits, MoreReasons
<1>11. Unreached'
  BY <1>2, <1>3, <1>4 DEF IInv, Unreached, Live, Waits, MoreReasons
<1> QED
  BY <1>7, <1>8, <1>9, <1>10, <1>11 DEF IInv
----------------------------------------------------------------------------
(* Listening.                                                              *)

(* A node that is told is struck off.                                      *)
LEMMA TellKeepsInvariant == ASSUME IInv, NEW s \in Sid, Tell(s) PROVE IInv'
<1>1. /\ step.at = "listen" /\ current \notin {"none", "propagate"}
      /\ s \in untold /\ heard' = heard \cup {rumor}
      /\ UNCHANGED <<step, mesh, reasons, current, rumor, helpers, attempts, number, asked,
                     expected, out, left>>
  BY DEF Tell
<1>2. PICK acked \in BOOLEAN :
        /\ told' = IF acked THEN [told EXCEPT !.acked = @ \cup {s}] ELSE told
        /\ untold' = IF acked \/ "status request" \in reasons THEN untold \ {s} ELSE untold
  BY DEF Tell
<1>3. told \in [all : SUBSET (Sid \cup {NullSid}), acked : SUBSET Sid]
  BY DEF IInv, TypeOK
<1>4. /\ told' \in [all : SUBSET (Sid \cup {NullSid}), acked : SUBSET Sid]
      /\ told'.all = told.all
      /\ told'.acked = IF acked THEN told.acked \cup {s} ELSE told.acked
  BY <1>2, <1>3
<1>5. untold' \subseteq untold
  BY <1>2
<1>6. out = None
  BY <1>1 DEF IInv, ReportsKept
<1>7. /\ rumor \in Rumors /\ rumor.count < number.next
      /\ \A r \in heard : r.count < number.next
      /\ \A r \in heard : r.count = rumor.count => r = rumor
  BY <1>1 DEF IInv, TypeOK, Numbering, Live
<1>8. TypeOK'
  BY <1>1, <1>4, <1>5, <1>7 DEF IInv, TypeOK
<1>9. (ReportsKept /\ CountsAreUnique /\ MissingAreUnreached)'
  BY <1>1, <1>6, <1>7 DEF IInv, ReportsKept, CountsAreUnique, MissingAreUnreached
<1>10. (Phase /\ OwnRumor)'
  BY <1>1, <1>5 DEF IInv, Phase, OwnRumor, Waits
<1>11. Numbering'
  BY <1>1, <1>7 DEF Numbering
<1>12. Unreached'
  <2> SUFFICES ASSUME rumor.type = "sidmap update"
               PROVE  Unreached'
    BY <1>1 DEF Unreached
  <2>1. untold = told.all \ told.acked /\ ("spread" \in reasons => untold = {})
    BY <1>1 DEF IInv, Unreached, Live
  <2>2. current # "spread"
    BY <1>1, <2>1 DEF IInv, TypeOK
  <2>3. current = "sidmap update"
    BY <1>1, <2>2 DEF IInv, OwnRumor
  <2>4. "status request" \notin reasons
    BY <1>1, <2>3 DEF IInv, Unreached
  <2>5. untold' = told'.all \ told'.acked
    BY <1>2, <1>4, <2>1, <2>4
  <2> QED
    BY <1>1, <1>5, <2>1, <2>4, <2>5 DEF Unreached
<1> QED
  BY <1>8, <1>9, <1>10, <1>11, <1>12 DEF IInv

(* A neighbour that acknowledges is struck off, and may take over.         *)
LEMMA PropagateKeepsInvariant == ASSUME IInv, NEW s \in Sid, Propagate(s) PROVE IInv'
<1>1. /\ step.at = "listen" /\ current = "propagate" /\ "propagate" \in reasons
      /\ heard' = heard \cup {rumor}
      /\ UNCHANGED <<mesh, rumor, helpers, attempts, number, asked, expected, out, left>>
  BY DEF IInv, TypeOK, Propagate
<1>2. \/ UNCHANGED <<step, reasons, current, untold, told>>
      \/ /\ untold' = untold \ {s} /\ told' = [told EXCEPT !.acked = @ \cup {s}]
         /\ \/ /\ untold' = {}
               /\ reasons' = (reasons \ {"propagate"}) \cup {"spread"}
               /\ current' = "spread"
               /\ UNCHANGED step
            \/ /\ untold' # {}
               /\ reasons' = reasons \ {"propagate"}
               /\ current' = "none" /\ Goes("report")
            \/ /\ untold' # {}
               /\ UNCHANGED <<step, reasons, current>>
  BY DEF Propagate
<1>3. told \in [all : SUBSET (Sid \cup {NullSid}), acked : SUBSET Sid]
  BY DEF IInv, TypeOK
<1>4. /\ told' \in [all : SUBSET (Sid \cup {NullSid}), acked : SUBSET Sid]
      /\ untold = told.all \ told.acked => untold' = told'.all \ told'.acked
  BY <1>2, <1>3
<1>5. untold' \subseteq untold
  BY <1>2
<1>6. step' \in Steps /\ step'.at \in {"listen", "report"}
  BY <1>1, <1>2 DEF IInv, TypeOK, Goes, Steps
<1>7. /\ reasons' \subseteq Reason /\ current' \in reasons' \cup {"none"}
      /\ current' \in {"none", "propagate", "spread"}
      /\ "status request" \in reasons' => "status request" \in reasons
      /\ "propagate" \in reasons' => "propagate" \in reasons
      /\ "spread" \in reasons' => "spread" \in reasons \/ untold' = {}
  <2>1. reasons \subseteq Reason /\ "spread" \in Reason
    BY Reasons DEF IInv, TypeOK
  <2> QED
    BY <1>1, <1>2, <2>1
<1>8. out = None
  BY <1>1 DEF IInv, ReportsKept
<1>9. /\ rumor \in Rumors /\ rumor.count < number.next
      /\ \A r \in heard : r.count < number.next
      /\ \A r \in heard : r.count = rumor.count => r = rumor
  BY <1>1 DEF IInv, TypeOK, Numbering, Live
<1>10. TypeOK'
  BY <1>1, <1>4, <1>5, <1>6, <1>7, <1>9 DEF IInv, TypeOK
<1>11. (ReportsKept /\ CountsAreUnique /\ MissingAreUnreached)'
  BY <1>1, <1>8, <1>9 DEF IInv, ReportsKept, CountsAreUnique, MissingAreUnreached
<1>12. (Phase /\ OwnRumor)'
  BY <1>1, <1>5, <1>6, <1>7 DEF IInv, Phase, OwnRumor
<1>13. Numbering'
  BY <1>1, <1>6, <1>9 DEF Numbering
<1>14. Unreached'
  <2> SUFFICES ASSUME rumor.type = "sidmap update"
               PROVE  Unreached'
    BY <1>1 DEF Unreached
  <2>1. untold = told.all \ told.acked /\ ("spread" \in reasons => untold = {})
    BY <1>1 DEF IInv, Unreached, Live
  <2> QED
    BY <1>1, <1>4, <1>5, <1>7, <2>1 DEF Unreached
<1> QED
  BY <1>10, <1>11, <1>12, <1>13, <1>14 DEF IInv

(* The number after n, and those below n.                                  *)
LEMMA NextNumber ==
  ASSUME NEW n \in Nat
  PROVE  /\ n + 1 \in Nat /\ n < n + 1
         /\ \A k \in Nat : k < n => k < n + 1 /\ k # n
  OBVIOUS

(* What GenerateConfirmation does when a rumour need not be propagated any *)
(* longer.                                                                 *)
LEMMA GenerateConfirmationKeepsInvariant ==
  ASSUME IInv, step.at = "listen", current # "none",
         NEW rs \in SUBSET reasons,
         "propagate" \in rs => attempts' < PropagationCountLimit,
         rumor.type = "sidmap update" /\ "spread" \in rs => untold = {},
         GenerateConfirmation(rs),
         attempts' \in 0..PropagationCountLimit, helpers' \in SUBSET Sid,
         UNCHANGED <<asked, left, heard>>
  PROVE  IInv'
<1>1. TypeOK /\ out = None
  BY DEF IInv, ReportsKept
<1>2. rs \subseteq Reason /\ "spread" \in Reason
  BY <1>1, Reasons DEF TypeOK
<1>3. /\ rumor \in Rumors /\ rumor.count < number.next
      /\ \A r \in heard : r.count < number.next
      /\ \A r \in heard : r.count = rumor.count => r = rumor
      /\ CountsAreUnique
  BY <1>1 DEF IInv, TypeOK, Numbering, Live
<1>4. "status request" \in rs => asked.status \in Sid
  BY DEF IInv, Phase
<1>5. rumor.type \in Confirmed => untold \subseteq Sid
  BY DEF IInv, Phase
<1>6. rumor.type = "sidmap update" => untold = told.all \ told.acked
  BY DEF IInv, Unreached, Live
<1>7. ASSUME mesh' \in Meshes, expected' \in {"none", "status request", "sidmap update"},
             out' \in Reports, rumor.type = "sidmap update" => out' = None \/ out'.type # "missing"
                               \/ out'.nodes = untold,
             reasons' = rs, current' = "none", Goes("report"),
             UNCHANGED <<rumor, untold, told, number>>
      PROVE  IInv'
  <2>1. step' \in Steps /\ step'.at = "report"
    BY <1>1, <1>7 DEF TypeOK, Goes, Steps
  <2>2. TypeOK'
    BY <1>1, <1>2, <1>7, <2>1 DEF TypeOK
  <2>3. (ReportsKept /\ CountsAreUnique /\ MissingAreUnreached)'
    BY <1>3, <1>6, <1>7, <2>1 DEF ReportsKept, CountsAreUnique, MissingAreUnreached
  <2>4. (Phase /\ OwnRumor)'
    BY <1>4, <1>5, <1>7, <2>1 DEF Phase, OwnRumor
  <2>5. Numbering'
    BY <1>3, <1>7, <2>1 DEF Numbering
  <2>6. Unreached'
    BY <1>6, <1>7, <2>1 DEF Unreached
  <2> QED
    BY <2>2, <2>3, <2>4, <2>5, <2>6 DEF IInv
<1>8. CASE /\ rumor.type \in Confirmed /\ rumor.from = mesh.sid
           /\ ProcessConfirmation(untold, TRUE)
           /\ reasons' = rs /\ current' = "none" /\ Goes("report")
           /\ UNCHANGED <<rumor, untold, told, number>>
  <2>1. /\ mesh' \in Meshes /\ expected' = "none"
        /\ out' = None \/ out' = Missing(untold, TRUE)
        /\ out' \in Reports
    BY <1>1, <1>5, <1>8, ProcessConfirmationType
  <2>2. Missing(untold, TRUE).nodes = untold
    BY DEF Missing
  <2> QED
    BY <1>7, <1>8, <2>1, <2>2
<1>9. CASE /\ rumor.type \in Confirmed /\ rumor.from # mesh.sid
           /\ reasons' = rs \cup {"spread"} /\ current' = "spread"
           /\ StartRumor("confirm", untold, {rumor.from})
           /\ number' = [number EXCEPT !.next = @ + 1]
           /\ UNCHANGED <<step, mesh, expected, out>>
  <2>1. /\ "confirm" \in Reason \cup {"none", "confirm"} /\ untold \in Content
        /\ {rumor.from} \in SUBSET (Sid \cup {NullSid})
    BY <1>1, <1>3, <1>5, <1>9 DEF Content, Rumors
  <2>2. /\ rumor' \in Rumors /\ rumor'.type = "confirm" /\ rumor'.count = number.next
        /\ untold' = {rumor.from} /\ told' = [all |-> {rumor.from}, acked |-> {}]
    BY <1>1, <1>9, <2>1, StartRumorType
  <2>3. number.next \in Nat /\ \A r \in heard : r.count \in Nat
    BY <1>1 DEF TypeOK, Rumors
  <2>4. number' \in [next : Nat, previous : Nat] /\ number'.next = number.next + 1
    <3>1. number \in [next : Nat, previous : Nat] /\ number.next + 1 \in Nat
      BY <1>1, <2>3, NextNumber, Zenon DEF TypeOK
    <3> QED
      BY <1>9, <3>1
  <2>5. TypeOK'
    <3>1. told' \in [all : SUBSET (Sid \cup {NullSid}), acked : SUBSET Sid]
      BY <2>1, <2>2
    <3> QED
      BY <1>1, <1>2, <1>9, <2>1, <2>2, <2>4, <3>1 DEF TypeOK
  <2>6. (ReportsKept /\ CountsAreUnique /\ MissingAreUnreached)'
    BY <1>1, <1>3, <1>9 DEF ReportsKept, CountsAreUnique, MissingAreUnreached
  <2>7. (Phase /\ OwnRumor)'
    BY <1>4, <1>9, <2>2 DEF Phase, OwnRumor, Confirmed
  <2>8. Numbering'
    <3>1. /\ number.next \in Nat /\ number'.next = number.next + 1
          /\ rumor'.count = number.next
      BY <2>2, <2>3, <2>4
    <3>2. rumor'.count < number'.next
      BY <3>1, NextNumber, Zenon
    <3>3. ASSUME NEW r \in heard PROVE r.count < number'.next /\ r.count # rumor'.count
      <4>1. r.count \in Nat /\ r.count < number.next
        BY <1>3, <2>3, Zenon
      <4>2. r.count < number.next + 1 /\ r.count # number.next
        BY <3>1, <4>1, NextNumber, Zenon
      <4> QED
        BY <3>1, <4>2, Zenon
    <3> QED
      BY <1>9, <3>2, <3>3 DEF Numbering
  <2>9. Unreached'
    BY <2>2 DEF Unreached
  <2> QED
    BY <2>5, <2>6, <2>7, <2>8, <2>9 DEF IInv
<1>10. CASE /\ rumor.type \notin Confirmed
            /\ reasons' = rs /\ current' = "none" /\ Goes("report")
            /\ UNCHANGED <<rumor, untold, told, number, mesh, expected, out>>
  BY <1>1, <1>7, <1>10 DEF TypeOK
<1> QED
  BY <1>8, <1>9, <1>10 DEF GenerateConfirmation

(* The end of the time to listen: it propagates, or the rumour is done.    *)
LEMMA SpreadEndsKeepsInvariant == IInv /\ SpreadEnds => IInv'
<1> SUFFICES ASSUME IInv, SpreadEnds PROVE IInv'
  OBVIOUS
<1>1. /\ step.at = "listen" /\ current \notin {"none", "propagate"}
      /\ UNCHANGED <<asked, left, heard>> /\ TypeOK
  BY DEF IInv, SpreadEnds
<1> DEFINE rs == reasons \ {current}
<1>2. CASE /\ untold # {}
           /\ reasons' = rs \cup {"propagate"} /\ current' = "propagate"
           /\ helpers' = mesh.map /\ attempts' = 0
           /\ UNCHANGED <<step, rumor, untold, told, number, mesh, expected, out>>
  <2>1. out = None
    BY <1>1 DEF IInv, ReportsKept
  <2>2. "propagate" \in Reason /\ helpers' \subseteq Sid /\ 0 \in 0..PropagationCountLimit
    <3>1. 0 \in 0..PropagationCountLimit
      BY RadioAssumption DEF RadioAssumption
    <3> QED
      BY <1>1, <1>2, <3>1, Reasons, OthersAreNodes
  <2>3. TypeOK'
    BY <1>1, <1>2, <2>2 DEF TypeOK
  <2>4. (ReportsKept /\ CountsAreUnique /\ MissingAreUnreached)'
    BY <1>1, <1>2, <2>1 DEF IInv, ReportsKept, CountsAreUnique, MissingAreUnreached
  <2>5. (Phase /\ OwnRumor)'
    BY <1>1, <1>2, PositiveLimits DEF IInv, Phase, OwnRumor
  <2>6. Numbering' /\ Unreached'
    BY <1>1, <1>2 DEF IInv, Numbering, Unreached, Live
  <2> QED
    BY <2>3, <2>4, <2>5, <2>6 DEF IInv
<1>3. CASE untold = {} /\ GenerateConfirmation(rs) /\ UNCHANGED <<helpers, attempts>>
  <2>1. rs \in SUBSET reasons
    OBVIOUS
  <2>2. "propagate" \in rs => attempts' < PropagationCountLimit
    BY <1>3 DEF IInv, Phase
  <2> QED
    BY <1>1, <1>3, <2>1, <2>2, GenerateConfirmationKeepsInvariant DEF TypeOK
<1> QED
  BY <1>1, <1>2, <1>3 DEF SpreadEnds

(* An attempt to propagate that fails is counted.                          *)
LEMMA PropagationFailsKeepsInvariant == IInv /\ PropagationFails => IInv'
<1> SUFFICES ASSUME IInv, PropagationFails PROVE IInv'
  OBVIOUS
<1>1. /\ step.at = "listen" /\ current = "propagate" /\ "propagate" \in reasons
      /\ attempts' = attempts + 1
      /\ UNCHANGED <<helpers, asked, left, heard>> /\ TypeOK
  BY DEF IInv, TypeOK, PropagationFails
<1>2. attempts' \in 0..PropagationCountLimit
  <2>1. /\ attempts \in 0..PropagationCountLimit /\ attempts < PropagationCountLimit
        /\ PropagationCountLimit \in Nat
    BY <1>1, RadioAssumption DEF IInv, TypeOK, Phase, RadioAssumption
  <2> QED
    BY <1>1, <2>1, OneMore
<1>3. CASE /\ attempts' < PropagationCountLimit
           /\ current' = "none" /\ Goes("report")
           /\ UNCHANGED <<reasons, rumor, untold, told, number, mesh, expected, out>>
  <2>1. step' \in Steps /\ step'.at = "report" /\ out = None
    BY <1>1, <1>3 DEF IInv, TypeOK, Goes, Steps, ReportsKept
  <2>2. TypeOK'
    BY <1>1, <1>2, <1>3, <2>1 DEF TypeOK
  <2>3. (ReportsKept /\ CountsAreUnique /\ MissingAreUnreached)'
    BY <1>1, <1>3, <2>1 DEF IInv, ReportsKept, CountsAreUnique, MissingAreUnreached
  <2>4. (Phase /\ OwnRumor)'
    BY <1>1, <1>3, <2>1 DEF IInv, Phase, OwnRumor
  <2>5. Numbering' /\ Unreached'
    BY <1>1, <1>3, <2>1 DEF IInv, Numbering, Unreached, Live, Waits
  <2> QED
    BY <2>2, <2>3, <2>4, <2>5 DEF IInv
<1>4. CASE GenerateConfirmation(reasons \ {"propagate"})
  <2>1. rumor.type = "sidmap update" /\ "spread" \in reasons => untold = {}
    BY DEF IInv, Unreached
  <2>2. helpers' \in SUBSET Sid
    BY <1>1 DEF TypeOK
  <2> DEFINE rs == reasons \ {"propagate"}
  <2>3. rs \in SUBSET reasons /\ "propagate" \notin rs /\ ("spread" \in rs => "spread" \in reasons)
    OBVIOUS
  <2>4. GenerateConfirmation(rs)
    BY <1>4
  <2> HIDE DEF rs
  <2> QED
    BY <1>1, <1>2, <2>1, <2>2, <2>3, <2>4, GenerateConfirmationKeepsInvariant
<1> QED
  BY <1>3, <1>4 DEF PropagationFails

(* The report leaves, and the next pass begins.                            *)
LEMMA SendReportKeepsInvariant == IInv /\ SendReport => IInv'
<1> SUFFICES ASSUME IInv, SendReport PROVE IInv'
  OBVIOUS
<1>1. /\ step'.at = "command" /\ step'.chirps = 0 /\ step' \in Steps /\ out' = None
      /\ UNCHANGED <<mesh, reasons, current, rumor, untold, helpers, attempts, number, asked,
                     expected, left, heard, told>>
  <2>1. 0 \in 0..ChirpLimit
    BY RadioAssumption DEF RadioAssumption
  <2> QED
    BY <2>1 DEF SendReport, Steps
<1>2. TypeOK'
  BY <1>1 DEF IInv, TypeOK, Reports
<1>3. (ReportsKept /\ CountsAreUnique /\ MissingAreUnreached)'
  BY <1>1 DEF IInv, ReportsKept, CountsAreUnique, MissingAreUnreached
<1>4. (Phase /\ OwnRumor)'
  BY <1>1 DEF IInv, Phase, OwnRumor, Waits
<1>5. Numbering' /\ Unreached'
  BY <1>1 DEF IInv, Numbering, Unreached, Live, Waits
<1> QED
  BY <1>2, <1>3, <1>4, <1>5 DEF IInv
----------------------------------------------------------------------------
(* The theorems.                                                           *)

(* Every step keeps the invariant.                                         *)
LEMMA StepsKeepInvariant == IInv /\ [Next]_vars => IInv'
<1> SUFFICES ASSUME IInv, [Next]_vars PROVE IInv'
  OBVIOUS
<1>1. CASE UNCHANGED vars
  <2> USE <1>1 DEF vars, IInv
  <2>1. TypeOK'
    BY DEF TypeOK
  <2>2. (ReportsKept /\ CountsAreUnique /\ MissingAreUnreached)'
    BY DEF ReportsKept, CountsAreUnique, MissingAreUnreached
  <2>3. (Phase /\ OwnRumor)'
    BY DEF Phase, OwnRumor, Waits
  <2>4. Numbering' /\ Unreached'
    BY DEF Numbering, Unreached, Live, Waits
  <2> QED
    BY <2>1, <2>2, <2>3, <2>4
<1>2. CASE ChirpToReceive
  BY <1>2, NobodyAnswersKeepsInvariant, SomebodyListensKeepsInvariant DEF ChirpToReceive
<1>3. CASE \E s \in Sid : Tell(s) \/ Propagate(s)
  BY <1>3, TellKeepsInvariant, PropagateKeepsInvariant
<1> QED
  BY <1>1, <1>2, <1>3, TakeCommandKeepsInvariant, StartKeepsInvariant,
     SpreadEndsKeepsInvariant, PropagationFailsKeepsInvariant, SendReportKeepsInvariant
     DEF Next

\* The inductive invariant holds in every state.
THEOREM InvariantHolds == Spec => []IInv
<1> QED
  BY InitEstablishesInvariant, StepsKeepInvariant, PTL DEF Spec

\* Every variable of the radio module's main loop keeps its type, whatever
\* commands and nodes there are.
THEOREM TypeCorrectness == Spec => []TypeOK
<1>1. IInv => TypeOK
  BY DEF IInv
<1> QED
  BY <1>1, InvariantHolds, PTL

\* OutgoingMsg is empty whenever a report may come, so that none is lost.
THEOREM ReportsAreKept == Spec => []ReportsKept
<1>1. IInv => ReportsKept
  BY DEF IInv
<1> QED
  BY <1>1, InvariantHolds, PTL

(* The rumour and those transmitted are sent with the low bits of their    *)
(* count.                                                                  *)
LEMMA NumberedStep == Numbered /\ [Next]_vars => Numbered'
<1> SUFFICES ASSUME Numbered, [Next]_vars PROVE Numbered'
  OBVIOUS
<1>1. ASSUME NEW type, NEW content, NEW to, StartRumor(type, content, to)
      PROVE  rumor'.number = rumor'.count % Numbers
  BY <1>1 DEF StartRumor
<1>2. ASSUME heard' = heard, rumor' = rumor \/ rumor'.number = rumor'.count % Numbers
      PROVE  Numbered'
  BY <1>2 DEF Numbered
<1>3. CASE TakeCommand \/ ChirpToReceive \/ SendReport \/ UNCHANGED vars
  BY <1>2, <1>3 DEF TakeCommand, ChirpToReceive, NobodyAnswers, SomebodyListens, SendReport, vars
<1>4. CASE Start
  <2>1. ASSUME NEW r \in Reason, StartReasonRumor(r)
        PROVE  rumor' = rumor \/ rumor'.number = rumor'.count % Numbers
    <3>1. CASE NewRumor(r)
      BY <1>1, <3>1 DEF NewRumor
    <3> QED
      BY <2>1, <3>1 DEF StartReasonRumor
  <2> QED
    BY <1>2, <1>4, <2>1 DEF Start
<1>5. CASE \E s \in Sid : Tell(s) \/ Propagate(s)
  <2>1. rumor' = rumor /\ heard' = heard \cup {rumor}
    BY <1>5 DEF Tell, Propagate
  <2> QED
    BY <2>1 DEF Numbered
<1>6. ASSUME NEW rs, GenerateConfirmation(rs)
      PROVE  rumor' = rumor \/ rumor'.number = rumor'.count % Numbers
  BY <1>1, <1>6 DEF GenerateConfirmation
<1>7. CASE SpreadEnds
  BY <1>2, <1>6, <1>7 DEF SpreadEnds
<1>8. CASE PropagationFails
  BY <1>2, <1>6, <1>8 DEF PropagationFails
<1> QED
  BY <1>3, <1>4, <1>5, <1>7, <1>8 DEF Next

(* Multiples of a number are at least that number apart.                   *)
LEMMA MultiplesAreApart ==
  ASSUME NEW n \in Nat \ {0}, NEW p \in Int, NEW q \in Int, p < q
  PROVE  n * q >= n * p + n
<1>1. q - p >= 1 /\ q - p \in Int
  OBVIOUS
<1>2. n * (q - p) >= n
  BY <1>1
<1>3. n * (q - p) = n * q - n * p
  OBVIOUS
<1> QED
  BY <1>2, <1>3

(* What is left of a count, and the count again.                           *)
LEMMA QuotientAndRest ==
  ASSUME NEW n \in Nat \ {0}, NEW a \in Nat
  PROVE  a = n * (a \div n) + (a % n) /\ a \div n \in Int /\ a % n \in Int
  OBVIOUS

(* Two counts with the same low bits are that far apart.                   *)
LEMMA SameLowBits ==
  ASSUME NEW n \in Nat \ {0}, NEW a \in Nat, NEW b \in Nat, a < b, a % n = b % n
  PROVE  b >= a + n
<1> DEFINE p == a \div n
<1> DEFINE q == b \div n
<1> DEFINE r == a % n
<1>1. a = n * p + r /\ b = n * q + r /\ p \in Int /\ q \in Int /\ r \in Int
  BY QuotientAndRest
<1>2. n * p \in Int /\ n * q \in Int
  BY <1>1
<1> HIDE DEF p, q, r
<1>3. p < q
  <2>1. CASE p = q
    BY <1>1, <2>1
  <2>2. CASE q < p
    <3>1. n * p >= n * q + n
      BY <1>1, <2>2, MultiplesAreApart
    <3> QED
      BY <1>1, <1>2, <3>1
  <2> QED
    BY <1>1, <2>1, <2>2
<1>4. n * q >= n * p + n
  BY <1>1, <1>3, MultiplesAreApart
<1> QED
  BY <1>1, <1>2, <1>4

\* Two rumours transmitted since start-up share initiator and number only if all
\* the other numbers have been taken in between, although the module gives a number
\* back when its rumour has to wait.
THEOREM NumbersOfRumorsRepeatLate == Spec => []NumbersRepeatLate
<1>1. Init => Numbered
  <2>1. 0 % Numbers = 0
    BY RadioAssumption DEF RadioAssumption
  <2> QED
    BY <2>1 DEF Init, Numbered
<1>2. Spec => []Numbered
  BY <1>1, NumberedStep, PTL DEF Spec
<1>3. ASSUME IInv, Numbered PROVE NumbersRepeatLate
  <2> SUFFICES ASSUME NEW r \in heard, NEW s \in heard,
                      r # s, r.from = s.from, r.number = s.number
               PROVE  r.count >= s.count + Numbers \/ s.count >= r.count + Numbers
    BY DEF NumbersRepeatLate
  <2>1. r.count # s.count
    BY <1>3 DEF IInv, CountsAreUnique
  <2>2. r.count \in Nat /\ s.count \in Nat
    BY <1>3 DEF IInv, TypeOK, Rumors
  <2>3. r.count % Numbers = s.count % Numbers
    BY <1>3 DEF Numbered
  <2>4. r.count < s.count \/ s.count < r.count
    BY <2>1, <2>2
  <2> QED
    BY <2>2, <2>3, <2>4, SameLowBits, RadioAssumption DEF RadioAssumption
<1> QED
  BY <1>2, <1>3, InvariantHolds, PTL

\* The nodes reported as missing an update of the SID map are those that have
\* not acknowledged it.
THEOREM MissingNodesAreUnreached == Spec => []MissingAreUnreached
<1>1. IInv => MissingAreUnreached
  BY DEF IInv
<1> QED
  BY <1>1, InvariantHolds, PTL

\* A rumour that waits to be propagated is not replaced, and nobody is added to
\* the nodes it still has to reach.
THEOREM WaitingRumorIsKept == Spec => RumorIsKept
<1> DEFINE Kept == {"propagate", "spread"} \cap reasons # {}
                   /\ {"propagate", "spread"} \cap reasons' # {} /\ rumor'.type # "confirm"
                     => rumor' = rumor /\ untold' \subseteq untold
<1>1. ASSUME IInv, [Next]_vars PROVE Kept \/ UNCHANGED vars
  <2> SUFFICES ASSUME Waits, rumor'.type # "confirm", Next
               PROVE  rumor' = rumor /\ untold' \subseteq untold
    BY <1>1 DEF Waits
  <2>1. CASE TakeCommand \/ SendReport \/ ChirpToReceive
    BY <2>1 DEF TakeCommand, SendReport, ChirpToReceive, NobodyAnswers, SomebodyListens
  <2>2. CASE Start
    <3>1. ASSUME NEW r \in Reason, StartReasonRumor(r)
          PROVE  rumor' = rumor /\ untold' \subseteq untold
      <4>1. r \in {"propagate", "spread"}
        BY <3>1, MostUrgentIs DEF StartReasonRumor
      <4> QED
        BY <3>1, <4>1 DEF StartReasonRumor
    <3> QED
      BY <2>2, <3>1 DEF Start
  <2>3. CASE \E s \in Sid : Tell(s) \/ Propagate(s)
    BY <2>3 DEF Tell, Propagate
  <2>4. ASSUME NEW rs, GenerateConfirmation(rs)
        PROVE  rumor' = rumor /\ untold' \subseteq untold
    <3>1. CASE StartRumor("confirm", untold, {rumor.from})
      BY <3>1 DEF StartRumor
    <3> QED
      BY <2>4, <3>1 DEF GenerateConfirmation
  <2>5. CASE SpreadEnds
    BY <2>4, <2>5 DEF SpreadEnds
  <2>6. CASE PropagationFails
    BY <2>4, <2>6 DEF PropagationFails
  <2> QED
    BY <2>1, <2>2, <2>3, <2>5, <2>6 DEF Next
<1>2. IInv /\ [Next]_vars => [Kept]_vars
  BY <1>1
<1> QED
  BY <1>2, InvariantHolds, PTL DEF Spec, RumorIsKept
=============================================================================
