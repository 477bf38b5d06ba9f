--------------------------- MODULE PendingEvents ---------------------------
(***************************************************************************)
(* Faults and alarms of the WiSafe device handler that wait for a detail   *)
(* (WiSafe_Event.c), and the pool of radio buffers they are kept in        *)
(* (WiSafe_RadioCommsBuffer.c).                                            *)
(*                                                                         *)
(* A fault or alarm whose device can say more is put in a list in a buffer *)
(* of the pool, with a timer; the gateway asks the device, and reports the *)
(* event when the answer comes or the timer has run out.  The handler's    *)
(* thread runs the handlers; the radio thread takes buffers from the same  *)
(* pool for what it reads; the timers' callbacks only post messages, one   *)
(* after the other, and wait while the handler's queue is full.  A timer   *)
(* that could not be made, or whose message could not, never posts it.     *)
(*                                                                         *)
(* Every message but a change of a property goes to the front of the       *)
(* handler's queue: an answer that is read when a timeout is queued        *)
(* already is handled before it.                                           *)
(***************************************************************************)
EXTENDS Naturals, Sequences, FiniteSets

CONSTANTS
  Buffer,      \* buffers[]
  Nil,         \* NULL
  Device,
  Detailed,    \* devices whose profile has a fault_details_type
  ReadsVolts,  \* devices with WISAFE_PROFILE_KEY_READ_VOLTS_ON_FAULT
  Temperature, \* devices with WISAFE_PROFILE_KEY_TEMPERATURE_ALARM
  QueueDepth,  \* ECOM_MAX_MESSAGE_QUEUE_DEPTH
  Traffic,     \* bound: the messages that devices send unasked
  MaxInputs    \* bound: messages of the radio and commands of the platform

\* A message that the duplicate check refuses is one of type "other".
Message ==
  [type : {"fault"}, id : Device, faulty : BOOLEAN, battery : BOOLEAN]
  \cup [type : {"alarm"}, id : Device] \cup [type : {"other"}]

ASSUME PendingAssumption ==
  /\ IsFiniteSet(Buffer) /\ Buffer # {} /\ Nil \notin Buffer
  /\ Detailed \subseteq Device /\ ReadsVolts \subseteq Device
  /\ Temperature \subseteq Device
  /\ QueueDepth \in Nat \ {0} /\ Traffic \subseteq Message /\ MaxInputs \in Nat

VARIABLES
  mem,      \* the buffers: links, lists, contents, and the armed timeouts
  dead,     \* the events whose timer will post nothing
  fired,    \* the timeout whose callback waits to post it, if any
  queue,    \* MainMessageQueue, its front first
  main,     \* the fault message the handler's thread is busy with, and its buffer
  rx,       \* the buffer the radio thread reads into, Nil while it waits for one
  active,   \* the fault properties that are true
  asked,    \* requests for a detail that the device has not answered
  left,     \* what is left of MaxInputs
  reports,  \* history: how often each deferred event was reported
  flagged,  \* history: the flags of each device's last fault message
  mixed,    \* history: devices one of whose events met what was not its own
  overtaken \* history: an answer was handled with its timeout posted or being posted

Idle == [buffer |-> Nil, msg |-> "none"]

\* A buffer has been freed that was not in use: what its two owners do to
\* each other from then on is not followed.
Broken == [buffer |-> Nil, msg |-> "broken"]

vars == <<mem, dead, fired, queue, main, rx, active, asked, left, reports, flagged, mixed, overtaken>>

Code == {"default", "detail", "battery"} \* 91, one of faultDetailsMap, 93
List == {"free", "faults", "alarms"}     \* nextFreeBuffer, pendingFaults, pendingAlarms

\* The order in which the pool is filled.
Order == CHOOSE order \in [1..Cardinality(Buffer) -> Buffer] :
           \A i, j \in DOMAIN order : order[i] = order[j] => i = j

Linked == [b \in Buffer |->
             LET i == CHOOSE n \in DOMAIN Order : Order[n] = b
             IN IF i = Cardinality(Buffer) THEN Nil ELSE Order[i + 1]]

Init ==
  /\ mem = [next |-> Linked,
            head |-> [free |-> Order[1], faults |-> Nil, alarms |-> Nil],
            data |-> [b \in Buffer |-> [type |-> "unused"]],
            timers |-> {}]
  /\ dead = {} /\ fired = {} /\ queue = <<>> /\ main = Idle /\ rx = Nil /\ active = {} /\ asked = {}
  /\ left = MaxInputs
  /\ reports = <<>> /\ flagged = [d \in Device |-> {}] /\ mixed = {} /\ overtaken = FALSE
----------------------------------------------------------------------------
(* The lists.  A buffer has one link, whichever list it is in; m is the    *)
(* memory as the handler has left it so far.                               *)

Follow(m, b) == IF b = Nil THEN Nil ELSE m.next[b]

\* The buffers a walk of the list meets, Nil once it has ended.
Walk(m, l) ==
  LET at[i \in 0..Cardinality(Buffer)] ==
        IF i = 0 THEN m.head[l] ELSE Follow(m, at[i - 1])
  IN at

Members(m, l) == LET at == Walk(m, l) IN {at[i] : i \in DOMAIN at} \ {Nil}
Endless(m, l) == Walk(m, l)[Cardinality(Buffer)] # Nil

Get(m) == [m EXCEPT !.head.free = m.next[@], !.next[m.head.free] = Nil]

Release(m, b) == [m EXCEPT !.next[b] = m.head.free, !.head.free = b]

\* The same, when nobody reads the content any more.
Discard(m, b) == Release([m EXCEPT !.data[b] = [type |-> "unused"]], b)

\* The turn of the walk that meets the first buffer of a set.
First(at, wanted) ==
  CHOOSE i \in DOMAIN at : at[i] \in wanted /\ \A j \in 0..(i - 1) : at[j] \notin wanted

\* WiSafe_RadioCommsBufferRemove: no effect when b is not in the list.
Remove(m, l, b) ==
  LET at == Walk(m, l)
      i == First(at, {b})
  IN CASE m.head[l] = b          -> [m EXCEPT !.head[l] = m.next[b]]
       [] b \notin Members(m, l) -> m
       [] OTHER                  -> [m EXCEPT !.next[at[i - 1]] = m.next[b]]

IsEvent(m, b) == m.data[b].type = "event"

\* The first event of device d in the list, Nil if none; what is no event
\* any more matches no device.
Find(m, l, d) ==
  LET ofDevice == {c \in Members(m, l) : IsEvent(m, c) /\ m.data[c].id = d}
      at == Walk(m, l)
  IN IF ofDevice = {} THEN Nil ELSE at[First(at, ofDevice)]

\* CreatePendingFault and CreatePendingAlarm, when there is a free buffer.
CreatePending(m, l, d, cause) ==
  LET b == m.head.free
      event == Len(reports) + 1
      g == Get(m)
  IN [g EXCEPT !.data[b] = [type |-> "event", id |-> d, cause |-> cause, event |-> event],
               !.timers = @ \cup {[list |-> l, buffer |-> b, event |-> event]},
               !.next[b] = g.head[l], !.head[l] = b]

\* The timeouts of buffer b that have been posted.
TimedOut(b) == {i \in DOMAIN queue : queue[i].type \in {"faults", "alarms"} /\ queue[i].buffer = b}

\* The timeout of buffer b is past being cancelled.
Late(b) == TimedOut(b) # {} \/ \E t \in fired : t.buffer = b

\* Mutant: the buffer is freed and stays in the list.
DeletePendingLinked(m, l, b, cancelTimeout) ==
  Discard([m EXCEPT !.timers = {t \in @ : t.event # m.data[b].event}], b)

\* DeletePendingFault and DeletePendingAlarm.  The content stays for a
\* timeout that comes too late to be cancelled.
DeletePending(m, l, b, cancelTimeout) ==
  LET c == IF cancelTimeout
           THEN [m EXCEPT !.timers = {t \in @ : t.event # m.data[b].event}] ELSE m
  IN IF cancelTimeout /\ Late(b) THEN Release(Remove(c, l, b), b)
                                 ELSE Discard(Remove(c, l, b), b)

\* A buffer for the event and one for the request.
CanAsk(m) == m.head.free # Nil /\ m.next[m.head.free] # Nil

\* Mutant: without a buffer for the request, the event stays in the list.
DeferredForGood(m, l, d, cause) ==
  IF m.head.free = Nil THEN m ELSE CreatePending(m, l, d, cause)

\* The memory after the attempt to defer an event: without a buffer for the
\* request it is deleted again.
Deferred(m, l, d, cause) ==
  CASE CanAsk(m)         -> CreatePending(m, l, d, cause)
    [] m.head.free = Nil -> m
    [] OTHER             -> DeletePending(CreatePending(m, l, d, cause), l, m.head.free, TRUE)

\* The rest of it: the device is asked, or the fault is reported at once.
Ask(d, what, codes) ==
  IF CanAsk(mem) THEN /\ asked' = asked \cup {<<d, what>>}
                      /\ reports' = Append(reports, 0)
                      /\ UNCHANGED active
                 ELSE /\ active' = active \cup ({d} \X codes)
                      /\ UNCHANGED <<asked, reports>>

\* SendFaultEvent without a detail.
Report(d, code, fault) ==
  /\ active' = IF fault THEN active \cup {<<d, code>>} ELSE active \ {<<d, code>>}
  /\ UNCHANGED <<asked, reports>>
----------------------------------------------------------------------------
(* The handler's thread.                                                   *)

\* A message of the radio is at the front, in buffer b, of this type.
Arrived(b, type) ==
  /\ main = Idle /\ queue # <<>> /\ Head(queue) = [type |-> "rx", buffer |-> b]
  /\ mem.data[b].type = type
  /\ queue' = Tail(queue)

\* Up to the flag FAULTY of a fault message; the flags before it and AC,
\* base and radio battery ask for nothing.
FaultReceived(b) ==
  LET msg == mem.data[b]
      detailed == msg.id \in Detailed
  IN /\ Arrived(b, "fault")
     /\ main' = [buffer |-> b, msg |-> msg]
     /\ \/ /\ detailed /\ msg.faulty
           /\ mem' = Deferred(mem, "faults", msg.id, "faulty")
           /\ Ask(msg.id, "detail", {"default"})
        \/ /\ detailed /\ ~msg.faulty
           /\ active' = active \ ({msg.id} \X {"default", "detail"})
           /\ UNCHANGED <<mem, asked, reports>>
        \/ /\ ~detailed
           /\ Report(msg.id, "default", msg.faulty)
           /\ UNCHANGED mem
     /\ flagged' = [flagged EXCEPT ![msg.id] = {f \in {"faulty", "battery"} : msg[f]}]
     /\ mixed' = IF Find(mem, "faults", msg.id) # Nil THEN mixed \cup {msg.id} ELSE mixed
     /\ UNCHANGED <<dead, fired, rx, left, overtaken>>

\* Mutant: a fault that cannot be deferred is not reported.
BatteryFlagDropped ==
  LET msg == main.msg
  IN /\ main.buffer # Nil /\ main' = Idle
     /\ \/ /\ msg.battery /\ msg.id \in ReadsVolts
           /\ mem' = Discard(Deferred(mem, "faults", msg.id, "battery"), main.buffer)
           /\ Ask(msg.id, "variable", {})
        \/ /\ ~(msg.battery /\ msg.id \in ReadsVolts)
           /\ mem' = Discard(mem, main.buffer)
           /\ Report(msg.id, "battery", msg.battery)
     /\ UNCHANGED <<dead, fired, queue, rx, left, flagged, mixed, overtaken>>

\* The flag SD_BATTERY_FAULT of the same message, whose buffer is then freed.
BatteryFlag ==
  LET msg == main.msg
  IN /\ main.buffer # Nil /\ main' = Idle
     /\ \/ /\ msg.battery /\ msg.id \in ReadsVolts
           /\ mem' = Discard(Deferred(mem, "faults", msg.id, "battery"), main.buffer)
           /\ Ask(msg.id, "variable", {"battery"})
        \/ /\ ~(msg.battery /\ msg.id \in ReadsVolts)
           /\ mem' = Discard(mem, main.buffer)
           /\ Report(msg.id, "battery", msg.battery)
     /\ UNCHANGED <<dead, fired, queue, rx, left, flagged, mixed, overtaken>>

AlarmReceived(b) ==
  LET msg == mem.data[b]
  IN /\ Arrived(b, "alarm")
     /\ IF msg.id \in Temperature
        THEN /\ mem' = Discard(Deferred(mem, "alarms", msg.id, "alarm"), b)
             /\ Ask(msg.id, "variable", {})
        ELSE mem' = Discard(mem, b) /\ UNCHANGED <<active, asked, reports>>
     /\ UNCHANGED <<dead, fired, main, rx, left, flagged, mixed, overtaken>>

Counted(n) == [e \in DOMAIN reports |-> IF e = n THEN reports[e] + 1 ELSE reports[e]]

\* The event in e has been answered; b holds the answer.
Answered(l, e, b) ==
  /\ mem' = Discard(DeletePending(mem, l, e, TRUE), b)
  /\ reports' = Counted(mem.data[e].event)
  /\ overtaken' = (overtaken \/ Late(e))

Unasked(b) ==
  /\ mem' = Discard(mem, b)
  /\ UNCHANGED <<active, reports, mixed, overtaken>>

\* WiSafe_ExtDiagVarRespReceived: a voltage, if a fault is pending.
VariableReceived(b) ==
  LET d == mem.data[b].id
      fault == Find(mem, "faults", d)
      alarm == Find(mem, "alarms", d)
  IN /\ Arrived(b, "variable")
     /\ \/ /\ fault # Nil
           /\ Answered("faults", fault, b)
           /\ active' = active \cup {<<d, "battery">>}
           /\ mixed' = IF mem.data[fault].cause = "battery" THEN mixed ELSE mixed \cup {d}
        \/ /\ fault = Nil /\ alarm # Nil
           /\ Answered("alarms", alarm, b)
           /\ UNCHANGED <<active, mixed>>
        \/ fault = Nil /\ alarm = Nil /\ Unasked(b)
     /\ UNCHANGED <<dead, fired, main, rx, asked, left, flagged>>

\* WiSafe_FaultDetailReceived: some bit of the map is set, or none.
DetailReceived(b) ==
  LET d == mem.data[b].id
      fault == Find(mem, "faults", d)
  IN /\ Arrived(b, "detail")
     /\ \/ /\ fault # Nil
           /\ Answered("faults", fault, b)
           /\ active' = IF mem.data[b].set THEN active \cup {<<d, "detail">>}
                                           ELSE active \ {<<d, "detail">>}
           /\ mixed' = IF mem.data[fault].cause = "faulty" THEN mixed ELSE mixed \cup {d}
        \/ fault = Nil /\ Unasked(b)
     /\ UNCHANGED <<dead, fired, main, rx, asked, left, flagged>>

\* Everything else: a status request takes a buffer for its answer and frees it.
OtherReceived(b) ==
  /\ Arrived(b, "other")
  /\ mem' = Discard(mem, b)
  /\ UNCHANGED <<dead, fired, main, rx, active, asked, left, reports, flagged, mixed, overtaken>>

\* WiSafe_EventTimeout: the buffer is taken for the event that was in it,
\* whatever it holds now.
EventTimeout(l, b) ==
  LET event == mem.data[b]
  IN /\ main = Idle /\ queue # <<>> /\ Head(queue) = [type |-> l, buffer |-> b]
     /\ queue' = Tail(queue)
     /\ mem' = DeletePending(mem, l, b, FALSE)
     /\ IF IsEvent(mem, b)
        THEN /\ reports' = Counted(event.event)
             /\ active' = IF l = "faults" THEN active \cup {<<event.id, "battery">>} ELSE active
             /\ mixed' = IF event.cause = "faulty" THEN mixed \cup {event.id} ELSE mixed
        ELSE /\ \E d \in Device :
                  active' = IF l = "faults" THEN active \cup {<<d, "battery">>} ELSE active
             /\ UNCHANGED <<reports, mixed>>
     /\ main' = IF b \in Members(mem, l) THEN Idle ELSE Broken
     /\ UNCHANGED <<dead, fired, rx, asked, left, flagged, overtaken>>

\* A change of a property is at the back of the queue; the handler posts the
\* command to itself, unless no buffer is free.
CommandSubmitted ==
  /\ main = Idle /\ queue = <<>> /\ left > 0
  /\ mem.head.free # Nil
  /\ LET b == mem.head.free
     IN /\ mem' = [Get(mem) EXCEPT !.data[b] = [type |-> "command"]]
        /\ queue' = <<[type |-> "command", buffer |-> b]>>
  /\ left' = left - 1
  /\ UNCHANGED <<dead, fired, main, rx, active, asked, reports, flagged, mixed, overtaken>>

\* What it transmits is taken from the pool and given back.
CommandProcessed(b) ==
  /\ main = Idle /\ queue # <<>> /\ Head(queue) = [type |-> "command", buffer |-> b]
  /\ queue' = Tail(queue)
  /\ mem' = Discard(mem, b)
  /\ UNCHANGED <<dead, fired, main, rx, active, asked, left, reports, flagged, mixed, overtaken>>
----------------------------------------------------------------------------
(* The timers and the radio thread.                                        *)

HasRoom == Len(queue) < QueueDepth

\* The timer could not be created or started, or the callback's message could
\* not be allocated: nobody looks at what became of it.
TimerDies(t) ==
  /\ main # Broken
  /\ dead' = dead \cup {t.event} /\ fired' = fired \ {t}
  /\ UNCHANGED <<mem, queue, main, rx, active, asked, left, reports, flagged, mixed, overtaken>>

\* The timers' task runs one callback at a time.
TimerFires(t) ==
  /\ main # Broken /\ fired = {} /\ t.event \notin dead
  /\ fired' = {t}
  /\ UNCHANGED <<mem, dead, queue, main, rx, active, asked, left, reports, flagged, mixed, overtaken>>

\* Mutant: the timer's parameter is not passed on.
TimerCallbackBare(t) ==
  /\ main # Broken /\ HasRoom
  /\ mem' = [mem EXCEPT !.timers = @ \ {t}] /\ fired' = {}
  /\ queue' = <<[type |-> t.list, buffer |-> Nil]>> \o queue
  /\ UNCHANGED <<dead, main, rx, active, asked, left, reports, flagged, mixed, overtaken>>

\* WiSafe_FaultTimerCallback and WiSafe_AlarmTimerCallback, once there is room.
TimerCallback(t) ==
  /\ main # Broken /\ HasRoom
  /\ mem' = [mem EXCEPT !.timers = @ \ {t}] /\ fired' = {}
  /\ queue' = <<[type |-> t.list, buffer |-> t.buffer]>> \o queue
  /\ UNCHANGED <<dead, main, rx, active, asked, left, reports, flagged, mixed, overtaken>>

\* WiSafe_RadioCommsBufferBusyGet has found one.
RxGetsBuffer ==
  /\ main # Broken /\ rx = Nil /\ mem.head.free # Nil
  /\ rx' = mem.head.free
  /\ mem' = Get(mem)
  /\ UNCHANGED <<dead, fired, queue, main, active, asked, left, reports, flagged, mixed, overtaken>>

Answer ==
  {[type |-> "variable", id |-> q[1]] : q \in {q \in asked : q[2] = "variable"}}
  \cup {[type |-> "detail", id |-> q[1], set |-> s] :
          q \in {q \in asked : q[2] = "detail"}, s \in BOOLEAN}

\* The radio thread has read a message, or an answer; it asks for a buffer again.
RxReads(msg) ==
  /\ main # Broken /\ rx # Nil /\ left > 0 /\ HasRoom
  /\ mem' = [mem EXCEPT !.data[rx] = msg]
  /\ queue' = <<[type |-> "rx", buffer |-> rx]>> \o queue
  /\ rx' = Nil
  /\ left' = left - 1
  /\ asked' = IF msg \in Answer THEN asked \ {<<msg.id, msg.type>>} ELSE asked
  /\ UNCHANGED <<dead, fired, main, active, reports, flagged, mixed, overtaken>>
----------------------------------------------------------------------------
QueuedIn(types) == {queue[i].buffer : i \in {j \in DOMAIN queue : queue[j].type \in types}}
Busy == QueuedIn({"rx", "command"}) \cup ({main.buffer, rx} \ {Nil})

\* Every buffer of the pool is in one place: free, or one event's, or with
\* the one thread or message that uses it.
OwnedOnce ==
  LET listed == [l \in List |-> Members(mem, l)]
      all == UNION {listed[l] : l \in List}
      queued == QueuedIn({"rx", "command"})
  IN /\ \A l \in List : ~Endless(mem, l)
     /\ \A k, l \in List : k # l => listed[k] \cap listed[l] = {}
     /\ Busy \cap all = {}
     /\ main.buffer = Nil \/ (main.buffer # rx /\ main.buffer \notin queued)
     /\ rx \notin queued
     /\ Busy \cup all = Buffer

\* Mutant: the timeouts of alarms are not dispatched.
HandleButAlarms ==
  \/ \E b \in Buffer :
       \/ FaultReceived(b) \/ AlarmReceived(b) \/ VariableReceived(b)
       \/ DetailReceived(b) \/ OtherReceived(b) \/ CommandProcessed(b)
       \/ EventTimeout("faults", b)
  \/ BatteryFlag

\* WiSafe_MessageQueueListener, and the rest of a handler that has begun.
Handle ==
  \/ \E b \in Buffer :
       \/ FaultReceived(b) \/ AlarmReceived(b) \/ VariableReceived(b)
       \/ DetailReceived(b) \/ OtherReceived(b) \/ CommandProcessed(b)
       \/ EventTimeout("faults", b) \/ EventTimeout("alarms", b)
  \/ BatteryFlag

Next ==
  \/ Handle
  \/ CommandSubmitted
  \/ \E t \in mem.timers : TimerFires(t)
  \/ \E t \in mem.timers \cup fired : TimerDies(t)
  \/ \E t \in fired : TimerCallback(t)
  \/ RxGetsBuffer
  \/ \E msg \in Traffic \cup Answer : RxReads(msg)

Spec == Init /\ [][Next]_vars

\* The handler's thread runs, timers run out, and their callbacks post once
\* the queue has room; neither the radio nor the platform has to say anything.
Fairness ==
  /\ WF_vars(Handle)
  /\ WF_vars(\E t \in mem.timers : TimerFires(t))
  /\ WF_vars(\E t \in fired : TimerCallback(t))

FairSpec == Spec /\ Fairness
----------------------------------------------------------------------------
Content ==
  [type : {"unused", "command"}] \cup Message
  \cup [type : {"variable"}, id : Device] \cup [type : {"detail"}, id : Device, set : BOOLEAN]
  \cup [type : {"event"}, id : Device, cause : {"faulty", "battery", "alarm"},
        event : Nat \ {0}]

\* The values of the state.
TypeOK ==
  /\ mem.next \in [Buffer -> Buffer \cup {Nil}]
  /\ mem.head \in [List -> Buffer \cup {Nil}]
  /\ mem.data \in [Buffer -> Content]
  /\ mem.timers \subseteq [list : {"faults", "alarms"}, buffer : Buffer, event : Nat \ {0}]
  /\ dead \subseteq Nat \ {0}
  /\ fired \subseteq [list : {"faults", "alarms"}, buffer : Buffer, event : Nat \ {0}]
  /\ queue \in Seq([type : {"rx", "command", "faults", "alarms"}, buffer : Buffer])
  /\ main \in [buffer : Buffer, msg : Message] \cup {Idle, Broken} /\ rx \in Buffer \cup {Nil}
  /\ active \subseteq Device \X Code
  /\ asked \subseteq Device \X {"variable", "detail"}
  /\ left \in 0..MaxInputs
  /\ reports \in Seq(Nat) /\ flagged \in [Device -> SUBSET {"faulty", "battery"}]
  /\ mixed \subseteq Device
  /\ overtaken \in BOOLEAN

\* As long as no answer is handled while the timeout of its event waits to be
\* handled or posted, no buffer is lost or has two owners.
PoolIsPartitioned == ~overtaken => OwnedOnce

Armed(b) == {t \in mem.timers : t.buffer = b}

\* Up to then every deferred event is in its list, unreported, with one timer
\* that has not posted or one timeout to be handled; or it has been reported,
\* once, and nothing of it is left.
AccountedFor ==
  ~overtaken =>
    LET pending == Members(mem, "faults") \cup Members(mem, "alarms")
        events == {mem.data[b].event : b \in pending}
    IN /\ Cardinality(events) = Cardinality(pending)
       /\ \A e \in DOMAIN reports : reports[e] = IF e \in events THEN 0 ELSE 1
       /\ \A b \in Buffer : Cardinality(Armed(b)) + Cardinality(TimedOut(b))
                              = IF b \in pending THEN 1 ELSE 0
       /\ \A t \in mem.timers : mem.data[t.buffer].event = t.event

\* Once everything of a device has been handled, its battery fault is active
\* exactly if its last fault message said so, and no other fault is if it
\* said that there is none; a request that no buffer was free for makes no
\* difference.  A device is excepted whose event met what was not its own:
\* another fault message, another one's answer, or the timeout of a fault
\* that is not the battery's.
FaultsAsFlagged ==
  main = Idle /\ queue = <<>> /\ ~overtaken =>
    \A d \in {c \in Device \ mixed : Find(mem, "faults", c) = Nil} :
      /\ <<d, "battery">> \in active <=> "battery" \in flagged[d]
      /\ "faulty" \notin flagged[d] => active \cap ({d} \X {"default", "detail"}) = {}

\* Every deferred event is reported in the end, unless its timer posts nothing
\* or a timeout is overtaken.
EventsAreReported ==
  (\E e \in DOMAIN reports \ dead : reports[e] = 0)
    ~> (overtaken \/ \A e \in DOMAIN reports \ dead : reports[e] > 0)
=============================================================================
