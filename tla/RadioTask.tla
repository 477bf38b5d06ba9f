----------------------------- MODULE RadioTask -----------------------------
(***************************************************************************)
(* The main loop of the WiSafe radio module (RM_MainLoop), which runs as a *)
(* task of the gateway: it takes at most one command of the device handler *)
(* a pass, builds the rumour that the most urgent of its reasons calls     *)
(* for, chirps to hear whether another node has one, and otherwise listens *)
(* for nodes to pass its own rumour on to.  A rumour that has not reached  *)
(* every node it is for is handed to a neighbour to propagate.             *)
(*                                                                         *)
(* One step is what the task does between two events that others decide:   *)
(* which command is at the front of its queue, whether a node answers a    *)
(* chirp and with what, which node calls while it listens, whether the     *)
(* acknowledgement arrives, and when its time is up.                       *)
(***************************************************************************)
EXTENDS Integers, FiniteSets

CONSTANTS
  Sid,                   \* the nodes' numbers in a mesh
  NullSid,               \* NULL_SID
  Gateway,               \* the gateway's number at start-up
  Message,               \* transparent messages of the device handler
  None,                  \* nothing to report
  Numbers,               \* numbers that the four bits of a message can hold
  ChirpLimit,            \* chirps in a pass that has a reason
  PropagationCountLimit, \* PROPAGATION_COUNT_LIMIT
  MaxCommands,           \* bound: commands of the device handler
  MaxAnswers             \* bound: chirps that another node answers

ASSUME RadioAssumption ==
  /\ IsFiniteSet(Sid) /\ NullSid \notin Sid /\ Gateway \in Sid
  /\ Numbers \in Nat \ {0}
  /\ ChirpLimit \in Nat \ {0} /\ PropagationCountLimit \in Nat \ {0}
  /\ MaxCommands \in Nat /\ MaxAnswers \in Nat

VARIABLES
  step,     \* what the task does next, and the pass it is in
  mesh,     \* SID and SIDMap
  reasons,  \* ReasonsForRumor
  current,  \* ReasonForCurrentRumor, "none" for 0
  rumor,    \* RumorBuf and what goes with it
  untold,   \* RumorMap: the nodes that still have to hear it
  helpers,  \* PropagateMap
  attempts, \* PropagationCount
  number,   \* RumorSequenceNumber and PreviousRSN, counted on where the byte wraps
            \* around, which its four low bits do not show
  asked,    \* the parameters of commands and requests that wait
  expected, \* ConfirmationState
  out,      \* OutgoingMsg, None when it is empty
  left,     \* what is left of MaxCommands and MaxAnswers
  heard,    \* history: the rumours transmitted since start-up
  told      \* history: the nodes the rumour is for, those that acknowledged it

vars == <<step, mesh, reasons, current, rumor, untold, helpers, attempts, number,
          asked, expected, out, left, heard, told>>

\* Mutant: a reply goes before what waits to be propagated.
UrgencyReplyFirst == <<"status reply", "propagate", "spread", "status request", "map reply",
                       "sd rumor", "joined", "sidmap update">>

\* The order in which StartReasonRumor looks at the reasons.
Urgency == <<"propagate", "spread", "status reply", "status request", "map reply",
             "sd rumor", "joined", "sidmap update">>

Reason == {Urgency[i] : i \in DOMAIN Urgency}

\* The rumours whose number has MSG_CONFIRM_BIT.
Confirmed == {"status request", "sidmap update"}

OutOfMesh == [sid |-> NullSid, map |-> {}]

\* The mesh is restored from flash; the device handler has asked for nothing.
Init ==
  /\ step = [at |-> "command", chirps |-> 0, original |-> "none"]
  /\ mesh = [sid |-> Gateway, map |-> Sid]
  /\ reasons = {} /\ current = "none"
  /\ rumor = [type |-> "none", content |-> {}, from |-> NullSid, number |-> 0, count |-> 0]
  /\ untold = {} /\ helpers = {} /\ attempts = 0
  /\ number = [next |-> 0, previous |-> 0]
  /\ asked = [message |-> {}, target |-> NullSid, status |-> NullSid, details |-> FALSE,
              statusReply |-> NullSid, mapReply |-> NullSid, map |-> {}]
  /\ expected = "none" /\ out = None
  /\ left = [commands |-> MaxCommands, answers |-> MaxAnswers]
  /\ heard = {} /\ told = [all |-> {}, acked |-> {}]
----------------------------------------------------------------------------
(* Commands of the device handler.                                         *)

Others == mesh.map \ {mesh.sid}

Goes(where) == step' = [step EXCEPT !.at = where]

\* SPIMSG_TRANSPARENT
Transparent(m) ==
  /\ asked' = [asked EXCEPT !.message = {m}]
  /\ reasons' = reasons \cup {"sd rumor"}
  /\ UNCHANGED mesh

\* SPIMSG_EXTD_OPT_SD_RUMOR_TARGET: where the next message is to go
RumorTarget(s) ==
  /\ asked' = [asked EXCEPT !.target = s]
  /\ UNCHANGED <<reasons, mesh>>

\* SPIMSG_EXTD_OPT_REMOTE_STATUS, of a member of the mesh
RemoteStatus(s, details) ==
  /\ asked' = [asked EXCEPT !.status = s, !.details = details]
  /\ reasons' = reasons \cup {"status request"}
  /\ UNCHANGED mesh

\* SPIMSG_EXTD_OPT_SIDMAP_UPDATE: m are the nodes that stay
UpdateRequest(m) ==
  /\ asked' = [asked EXCEPT !.map = m]
  /\ reasons' = reasons \cup {"sidmap update"}
  /\ UNCHANGED mesh

\* CMD_UNLEARN: neither the reasons nor what waits for them are forgotten.
Unlearn == mesh' = OutOfMesh /\ UNCHANGED <<asked, reasons>>

\* CMD_LEARN outside a mesh: JoinNetwork, when a mesh invites and assigns s.
Learn(s) ==
  /\ mesh.sid = NullSid
  /\ mesh' = [sid |-> s, map |-> Sid]
  /\ reasons' = reasons \cup {"joined"}
  /\ UNCHANGED asked

\* checkWGtoRMqueue and the answer to the command; one that only asks for a
\* value changes nothing.
Command ==
  /\ left.commands > 0 /\ left' = [left EXCEPT !.commands = @ - 1]
  /\ \/ \E m \in Message : Transparent(m)
     \/ \E s \in Others : RumorTarget(s) \/ \E details \in BOOLEAN : RemoteStatus(s, details)
     \/ \E m \in SUBSET mesh.map : mesh.sid \in m /\ UpdateRequest(m)
     \/ Unlearn
     \/ \E s \in Sid : Learn(s)

NoCommand == UNCHANGED <<left, asked, reasons, mesh>>

\* The first part of RM_MainLoop: the command, the button, and the
\* confirmation that has not come within CONFIRMATION_TIMEOUT.
TakeCommand ==
  /\ step.at = "command" /\ Goes("start")
  /\ Command \/ NoCommand
  /\ expected' \in {expected, "none"}
  /\ UNCHANGED <<current, rumor, untold, helpers, attempts, number, out, heard, told>>
----------------------------------------------------------------------------
(* Rumours.                                                                *)

\* StartRumor, for the nodes of to.  What is sent is the four low bits of the
\* counter; the count itself is history.
StartRumor(type, content, to) ==
  /\ rumor' = [type |-> type, content |-> content, from |-> mesh.sid,
               number |-> number.next % Numbers, count |-> number.next]
  /\ untold' = to
  /\ told' = [all |-> to, acked |-> {}]

\* The reason's new rumour.  The request for details is built where a message
\* of the device handler may be stashed.
NewRumor(r) ==
  \/ r = "status reply" /\ StartRumor(r, {}, {asked.statusReply}) /\ UNCHANGED <<asked, expected>>
  \/ /\ r = "status request" /\ StartRumor(r, {asked.status}, {asked.status})
     /\ asked' = IF asked.details THEN [asked EXCEPT !.message = {"details"}] ELSE asked
     /\ expected' = IF asked.details THEN expected ELSE r
  \/ /\ r = "map reply"
     /\ StartRumor(r, IF asked.details THEN {} ELSE mesh.map, {asked.mapReply})
     /\ UNCHANGED <<asked, expected>>
  \/ /\ r = "sd rumor"
     /\ StartRumor(r, asked.message, IF asked.target = NullSid THEN Others ELSE {asked.target})
     /\ asked' = [asked EXCEPT !.target = NullSid]
     /\ UNCHANGED expected
  \/ r = "joined" /\ StartRumor(r, {}, Others) /\ UNCHANGED <<asked, expected>>
  \/ /\ r = "sidmap update" /\ StartRumor(r, asked.map, Others)
     /\ expected' = r
     /\ UNCHANGED asked

MostUrgent(r) ==
  \E i \in DOMAIN Urgency :
    Urgency[i] = r /\ r \in reasons /\ \A j \in 1..(i - 1) : Urgency[j] \notin reasons

\* StartReasonRumor
StartReasonRumor(r) ==
  /\ MostUrgent(r) /\ current' = r
  /\ \/ /\ r \in {"propagate", "spread"}
        /\ number' = [number EXCEPT !.previous = number.next]
        /\ UNCHANGED <<rumor, untold, told, asked, expected>>
     \/ /\ r \notin {"propagate", "spread"}
        /\ number' = [next |-> number.next + 1, previous |-> number.next]
        /\ NewRumor(r)

\* What follows the command: a rumour if there is a reason, and whether to chirp.
Start ==
  /\ step.at = "start"
  /\ \/ \E r \in Reason : StartReasonRumor(r)
     \/ reasons = {} /\ UNCHANGED <<current, rumor, untold, told, number, asked, expected>>
  /\ step' = [at |-> CASE mesh.sid # NullSid  -> "chirp"
                       [] current' # "none"    -> "listen"
                       [] OTHER                -> "report",
              chirps |-> 0, original |-> current']
  /\ UNCHANGED <<mesh, reasons, helpers, attempts, out, left, heard>>
----------------------------------------------------------------------------
(* What reports and confirmations do.                                      *)

\* A report for which OutgoingMsg has to be empty.
Report(report) == out' = IF out = None THEN report ELSE out

News == [type |-> "news"]

\* Mutant: a gateway that has been removed keeps its map.
SIDMapUpdateKeeping(m) ==
  mesh' = IF mesh.sid \notin m \/ m \ {mesh.sid} = {} THEN [mesh EXCEPT !.sid = NullSid]
          ELSE [mesh EXCEPT !.map = @ \cap m]

\* SIDMapUpdate: a gateway that is not in the map, or alone in it, leaves.
SIDMapUpdate(m) ==
  mesh' = IF mesh.sid \notin m \/ m \ {mesh.sid} = {} THEN OutOfMesh
          ELSE [mesh EXCEPT !.map = @ \cap m]

\* ProcessConfirmation: m are the nodes that were not reached.
ProcessConfirmation(m, own) ==
  LET waiting == expected # "none" /\ ~(expected = "status request" /\ m = {})
  IN /\ expected' = "none"
     /\ IF waiting THEN Report([type |-> "missing", nodes |-> m, own |-> own]) ELSE UNCHANGED out
     /\ IF waiting /\ expected = "sidmap update" THEN SIDMapUpdate(asked.map) ELSE UNCHANGED mesh
----------------------------------------------------------------------------
(* Chirping.                                                               *)

\* Mutant: the number is taken back whatever has become of the rumour.
ChirpedAlways(next) ==
  /\ step' = [step EXCEPT !.at = IF next = "none" THEN "report" ELSE "listen",
                          !.chirps = @ + 1]
  /\ number' = IF step.original = "none" THEN number ELSE [number EXCEPT !.next = number.previous]

\* The end of the chirps: a rumour that cannot be spread now gives its number back.
Chirped(next) ==
  /\ step' = [step EXCEPT !.at = IF next = "none" THEN "report" ELSE "listen",
                          !.chirps = @ + 1]
  /\ number' = IF step.original \in {"none", next} THEN number
               ELSE [number EXCEPT !.next = number.previous]

NobodyAnswers ==
  /\ step.at = "chirp"
  /\ IF current # "none" /\ step.chirps + 1 < ChirpLimit
     THEN step' = [step EXCEPT !.chirps = @ + 1] /\ UNCHANGED number
     ELSE Chirped(current)
  /\ UNCHANGED <<mesh, reasons, current, rumor, untold, helpers, attempts, asked, expected,
                 out, left, heard, told>>

\* Mutant: the task goes on chirping.
SomebodyListensMore ==
  /\ step.at = "chirp"
  /\ left.answers > 0 /\ left' = [left EXCEPT !.answers = @ - 1]
  /\ current' = IF step.chirps + 1 < ChirpLimit THEN current ELSE "none"
  /\ IF current # "none" /\ step.chirps + 1 < ChirpLimit
     THEN step' = [step EXCEPT !.chirps = @ + 1] /\ UNCHANGED number
     ELSE Chirped("none")
  /\ UNCHANGED <<rumor, untold, helpers, attempts, heard, told>>

\* A node answers the chirp: it listens, so that nothing can be spread now.
SomebodyListens ==
  /\ step.at = "chirp"
  /\ left.answers > 0 /\ left' = [left EXCEPT !.answers = @ - 1]
  /\ current' = "none" /\ Chirped("none")
  /\ UNCHANGED <<rumor, untold, helpers, attempts, heard, told>>

\* The rest of ChirpToReceive: the node passes on a rumour of node i, and says
\* whether it is old news.
Receive(i, oldNews) ==
  \/ /\ UNCHANGED <<mesh, reasons, asked, expected, out>> \* not a valid one
  \/ /\ mesh' = [mesh EXCEPT !.map = @ \cup {i}]           \* MSG_JOINED
     /\ IF oldNews THEN UNCHANGED out ELSE Report(News)
     /\ UNCHANGED <<reasons, asked, expected>>
  \/ /\ \E m \in SUBSET Sid : SIDMapUpdate(m)              \* MSG_SIDMAP_UPDATE
     /\ IF oldNews THEN UNCHANGED out ELSE Report(News)
     /\ UNCHANGED <<reasons, asked, expected>>
  \/ /\ out' = IF oldNews THEN out ELSE News               \* MSG_SD_RUMOR
     /\ UNCHANGED <<mesh, reasons, asked, expected>>
  \/ /\ reasons' = reasons \cup {"status reply"}           \* MSG_STATUSREQ
     /\ asked' = [asked EXCEPT !.statusReply = i]
     /\ UNCHANGED <<mesh, expected, out>>
  \/ /\ reasons' = reasons \cup {"map reply"}              \* MSG_MAPREQ
     /\ \E details \in BOOLEAN : asked' = [asked EXCEPT !.mapReply = i, !.details = details]
     /\ UNCHANGED <<mesh, expected, out>>
  \/ /\ Report(News)                                       \* MSG_MAPREPLY, MSG_STATUSREPLY
     /\ UNCHANGED <<mesh, reasons, asked, expected>>
  \/ /\ \E m \in SUBSET Others : ProcessConfirmation(m, FALSE) \* MSG_CONFIRM
     /\ UNCHANGED <<reasons, asked>>

ChirpToReceive ==
  \/ NobodyAnswers
  \/ SomebodyListens /\ \E i \in Sid \ {mesh.sid}, oldNews \in BOOLEAN : Receive(i, oldNews)
----------------------------------------------------------------------------
(* Listening.                                                              *)

\* Mutant: it also counts when the acknowledgement is aimed at another node.
TellAnyAck(s) ==
  /\ step.at = "listen" /\ current \notin {"none", "propagate"}
  /\ s \in Others \cap untold
  /\ heard' = heard \cup {rumor}
  /\ \E acked \in BOOLEAN :
       /\ told' = IF acked THEN [told EXCEPT !.acked = @ \cup {s}] ELSE told
       /\ untold' = untold \ {s}
  /\ UNCHANGED <<step, mesh, reasons, current, rumor, helpers, attempts, number, asked,
                 expected, out, left>>

\* ListenToTransmitPacket: node s calls and is told.  As long as a status request
\* waits, the acknowledgement does not matter, whatever the rumour is.
Tell(s) ==
  /\ step.at = "listen" /\ current \notin {"none", "propagate"}
  /\ s \in Others \cap untold
  /\ heard' = heard \cup {rumor}
  /\ \E acked \in BOOLEAN :
       /\ told' = IF acked THEN [told EXCEPT !.acked = @ \cup {s}] ELSE told
       /\ untold' = IF acked \/ "status request" \in reasons THEN untold \ {s} ELSE untold
  /\ UNCHANGED <<step, mesh, reasons, current, rumor, helpers, attempts, number, asked,
                 expected, out, left>>

\* The same when it propagates: a node that acknowledges may be asked to take over.
Propagate(s) ==
  /\ step.at = "listen" /\ current = "propagate"
  /\ s \in Others \cap helpers
  /\ heard' = heard \cup {rumor}
  /\ \/ UNCHANGED <<step, reasons, current, untold, told>> \* not acknowledged
     \/ /\ untold' = untold \ {s} /\ told' = [told EXCEPT !.acked = @ \cup {s}]
        /\ \/ /\ untold' = {}
              /\ reasons' = (reasons \ {"propagate"}) \cup {"spread"}
              /\ current' = "spread"
              /\ UNCHANGED step
           \/ /\ untold' # {}                            \* it accepts
              /\ reasons' = reasons \ {"propagate"}
              /\ current' = "none" /\ Goes("report")
           \/ /\ untold' # {}                            \* it refuses
              /\ UNCHANGED <<step, reasons, current>>
  /\ UNCHANGED <<mesh, rumor, helpers, attempts, number, asked, expected, out, left>>

\* GenerateConfirmation, when the reasons are rs.  The initiator is the gateway,
\* unless it has left the mesh since.
GenerateConfirmation(rs) ==
  \/ /\ rumor.type \in Confirmed /\ rumor.from = mesh.sid
     /\ ProcessConfirmation(untold, TRUE)
     /\ reasons' = rs /\ current' = "none" /\ Goes("report")
     /\ UNCHANGED <<rumor, untold, told, number>>
  \/ /\ rumor.type \in Confirmed /\ rumor.from # mesh.sid
     /\ reasons' = rs \cup {"spread"} /\ current' = "spread"
     /\ StartRumor("confirm", untold, {rumor.from})
     /\ number' = [number EXCEPT !.next = @ + 1]
     /\ UNCHANGED <<step, mesh, expected, out>>
  \/ /\ rumor.type \notin Confirmed
     /\ reasons' = rs /\ current' = "none" /\ Goes("report")
     /\ UNCHANGED <<rumor, untold, told, number, mesh, expected, out>>

\* The time to listen is up: the rumour is spread, or begins to be propagated.
SpreadEnds ==
  /\ step.at = "listen" /\ current \notin {"none", "propagate"}
  /\ LET rs == reasons \ {current}
     IN \/ /\ untold # {}
           /\ reasons' = rs \cup {"propagate"} /\ current' = "propagate"
           /\ helpers' = mesh.map /\ attempts' = 0
           /\ UNCHANGED <<step, rumor, untold, told, number, mesh, expected, out>>
        \/ /\ untold = {} /\ GenerateConfirmation(rs)
           /\ UNCHANGED <<helpers, attempts>>
  /\ UNCHANGED <<asked, left, heard>>

\* Mutant: the attempts are not counted.
PropagationFailsUncounted ==
  /\ step.at = "listen" /\ current = "propagate"
  /\ attempts' = attempts
  /\ \/ /\ attempts' < PropagationCountLimit
        /\ current' = "none" /\ Goes("report")
        /\ UNCHANGED <<reasons, rumor, untold, told, number, mesh, expected, out>>
     \/ /\ attempts' >= PropagationCountLimit
        /\ GenerateConfirmation(reasons \ {"propagate"})
  /\ UNCHANGED <<helpers, asked, left, heard>>

\* Nobody has taken the rumour over: it is tried again, up to the limit.
PropagationFails ==
  /\ step.at = "listen" /\ current = "propagate"
  /\ attempts' = attempts + 1
  /\ \/ /\ attempts' < PropagationCountLimit
        /\ current' = "none" /\ Goes("report")
        /\ UNCHANGED <<reasons, rumor, untold, told, number, mesh, expected, out>>
     \/ /\ attempts' >= PropagationCountLimit
        /\ GenerateConfirmation(reasons \ {"propagate"})
  /\ UNCHANGED <<helpers, asked, left, heard>>

\* The end of the pass: SendOutgoingMsg.
SendReport ==
  /\ step.at = "report" /\ step' = [at |-> "command", chirps |-> 0, original |-> "none"]
  /\ out' = None
  /\ UNCHANGED <<mesh, reasons, current, rumor, untold, helpers, attempts, number, asked,
                 expected, left, heard, told>>
----------------------------------------------------------------------------
Next ==
  \/ TakeCommand \/ Start \/ ChirpToReceive
  \/ \E s \in Sid : Tell(s) \/ Propagate(s)
  \/ SpreadEnds \/ PropagationFails \/ SendReport

Spec == Init /\ [][Next]_vars

\* The task runs, and its time to listen runs out; nobody has to answer.
FairSpec == Spec /\ WF_vars(TakeCommand \/ Start \/ ChirpToReceive
                              \/ SpreadEnds \/ PropagationFails \/ SendReport)
----------------------------------------------------------------------------
(* Properties.                                                             *)

Content == SUBSET (Sid \cup Message \cup {"details"})

Rumors == [type : Reason \cup {"none", "confirm"}, content : Content,
           from : Sid \cup {NullSid}, number : 0..(Numbers - 1), count : Nat]

Reports == {None, News} \cup [type : {"missing"}, nodes : SUBSET Sid, own : BOOLEAN]

Steps == [at : {"command", "start", "chirp", "listen", "report"},
          chirps : 0..ChirpLimit, original : Reason \cup {"none"}]

Meshes == {m \in [sid : Sid, map : SUBSET Sid] : m.sid \in m.map} \cup {OutOfMesh}

Requests == [message : Content, target : Sid \cup {NullSid}, status : Sid \cup {NullSid},
             details : BOOLEAN, statusReply : Sid \cup {NullSid},
             mapReply : Sid \cup {NullSid}, map : SUBSET Sid]

\* Every variable has its type, and the gateway is a member of the mesh whose
\* map it has, or of none and then without a map.
TypeOK ==
  /\ step \in Steps /\ mesh \in Meshes
  /\ reasons \subseteq Reason /\ current \in reasons \cup {"none"}
  /\ rumor \in Rumors /\ heard \subseteq Rumors
  /\ untold \subseteq Sid \cup {NullSid} /\ helpers \subseteq Sid
  /\ attempts \in 0..PropagationCountLimit
  /\ number \in [next : Nat, previous : Nat] /\ asked \in Requests
  /\ expected \in {"none", "status request", "sidmap update"} /\ out \in Reports
  /\ left \in [commands : 0..MaxCommands, answers : 0..MaxAnswers]
  /\ told \in [all : SUBSET (Sid \cup {NullSid}), acked : SUBSET Sid]

\* OutgoingMsg holds one report, and a report that finds it taken is lost or
\* replaces another: it is empty whenever a report may come.
ReportsKept == out # None => step.at = "report"

\* Other nodes tell a rumour by its initiator and number, which has four bits: two
\* rumours transmitted since start-up share them only if all the other numbers have
\* been taken in between, although one is given back when its rumour waits.
NumbersRepeatLate ==
  \A r, s \in heard :
    r # s /\ r.from = s.from /\ r.number = s.number
      => r.count >= s.count + Numbers \/ s.count >= r.count + Numbers

\* A rumour that waits to be propagated is not replaced by another, whatever
\* commands and requests come in between, and nobody is added to its nodes.
RumorIsKept ==
  [][ {"propagate", "spread"} \cap reasons # {} /\ {"propagate", "spread"} \cap reasons' # {}
      /\ rumor'.type # "confirm"
        => rumor' = rumor /\ untold' \subseteq untold ]_vars

\* When the task reports the nodes that its update of the SID map has not
\* reached, they are those that have not acknowledged it.
MissingAreUnreached ==
  out # None /\ out.type = "missing" =>
    (out.own /\ rumor.type = "sidmap update" => out.nodes = told.all \ told.acked)

\* When no more is asked of it, the task satisfies or gives up every reason.
ReasonsEnd == reasons # {} ~> reasons = {}
=============================================================================
