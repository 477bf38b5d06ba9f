------------------------------ MODULE Storage ------------------------------
(***************************************************************************)
(* How persistent properties reach the log and come back: the local        *)
(* shadow, its client threads, the storage handler (Storage/STO_Handler.c),*)
(* the storage manager (Storage/STO_Manager.c) and the local shadow's own  *)
(* thread, which dumps the shadow when the log is consolidated.            *)
(*                                                                         *)
(* The threads share the shadow under lsdMutex and talk through two        *)
(* bounded queues.  What a thread still has to do is a sequence of steps;  *)
(* a step is what the code does under one lock, one send, or one operation *)
(* of the store, so threads interleave wherever they do on the board.      *)
(* Flash is StoFileSystem.tla's subject: here a log is a sequence.         *)
(***************************************************************************)
EXTENDS Naturals, Sequences, FiniteSets, Functions, SequencesExt

CONSTANTS
  Device, Prop, OwnerProp,  \* every device is created with its owner property
  Value,
  Depth,        \* ECOM_MAX_MESSAGE_QUEUE_DEPTH
  MaxDeltas,    \* ECOM_MAX_DELTAS: deltas in a message
  SpaceNeeded,  \* free places the dump waits for before each device
  MaxStore,     \* STO_MAX_STORE_SIZE_IN_BYTES, in records
  BesideHeader, \* records that share the first sector with the file's header
  CloudSets,    \* the cloud sets desired values
  MayDestroy,   \* devices are deleted
  TornWrites,   \* power is lost inside an operation on a log "never", "always"
                \* or only while there is "noArchive"
  MaxOps, MaxCrashes,   \* bounds of the search
  NoLog

Key    == Device \X Prop
Group  == {"reported", "desired"}
Client == {"handler", "cloud"}
Thread == Client \cup {"sto", "lsd"}

\* What a log may hold; NoLog stands for a log that does not exist.  A torn
\* record is one whose tag names device d, or reads as that, and whose length
\* is wrong.
TornRecord(d) == [type |-> "torn", dev |-> d]
Record ==
  [type : {"set"}, key : Key, group : Group, value : Value]
    \cup [type : {"propertyGone"}, key : Key]
    \cup [type : {"deviceGone"}, dev : Device]
    \cup [type : {"torn"}, dev : Device]

ASSUME StorageAssumption ==
  /\ IsFiniteSet(Device) /\ IsFiniteSet(Prop)
  /\ OwnerProp \in Prop /\ SpaceNeeded \in 1 .. Depth /\ Depth \in Nat
  /\ MaxDeltas \in Nat \ {0} /\ BesideHeader \in Nat
  /\ MaxStore \in Nat \ {0} /\ MaxOps \in Nat /\ MaxCrashes \in Nat
  /\ {CloudSets, MayDestroy} \subseteq BOOLEAN
  /\ TornWrites \in {"never", "noArchive", "always"}
  /\ NoLog \notin Seq(Record)

VARIABLES
  objects,     \* prv_ObjectStore: the devices that exist
  shadow,      \* the persistent properties that exist -> their two values
  subs,        \* <<key, group>>: the storage handler is subscribed
  raced,       \* history: <<key, group>> whose value changed while another
               \* thread was about to send one, or to subscribe to it
  todo,        \* what each thread has still to do
  queue,       \* the message queues of the storage handler and of the LSD
  arc, cur,    \* the archive log and the current log
  phase,       \* "archive", "current" while the logs are loaded, then "run";
               \* "marred": what happens then is not followed
  consolidate, \* STO_LoadFromStorage's local
  dumpCount,   \* STO_LocalShadowDumpComplete's static counter
  cut,         \* history: how often power was lost inside an operation on a log
  discarded,   \* history: a log was found corrupted, and removed
  ops, crashes \* how much of MaxOps, MaxCrashes has been used

mem   == <<objects, shadow, subs, raced>>
store == <<arc, cur>>
boot  == <<phase, consolidate>>
harm  == <<cut, discarded>>
used  == <<ops, crashes>>
vars  == <<mem, todo, queue, store, boot, dumpCount, harm, used>>
----------------------------------------------------------------------------
(* Records of the log, and what loading it makes of them.                  *)

SetRecord(k, g, v) == [type |-> "set", key |-> k, group |-> g, value |-> v]
PropertyGone(k)    == [type |-> "propertyGone", key |-> k]
DeviceGone(d)      == [type |-> "deviceGone", dev |-> d]

With(f, k, x) == [y \in DOMAIN f \cup {k} |-> IF y = k THEN x ELSE f[y]]

KeysOf(d, props) == {k \in DOMAIN props : k[1] = d}

Blank == [objs |-> {}, props |-> [k \in {} |-> <<>>], end |-> "ok"]

\* Mutant: a value that is loaded is taken for both groups.
UpdatedBoth(props, r) == With(props, r.key, [g \in Group |-> r.value])

\* A property that the record restores gets its value in both groups.
Updated(props, r) ==
  With(props, r.key, IF r.key \in DOMAIN props THEN [props[r.key] EXCEPT ![r.group] = r.value]
                     ELSE [g \in Group |-> r.value])

\* One turn of _LoadFromLog's loop.  A record of a device that does not exist
\* creates it; the deletion of one that does not exist is an error; a record of
\* a wrong length ends the loop, and is not an error: its device stays.
Apply(s, r) ==
  IF s.end # "ok" THEN s
  ELSE CASE r.type = "torn" -> [s EXCEPT !.objs = @ \cup {r.dev}, !.end = "stopped"]
         [] r.type = "deviceGone" ->
              IF r.dev \in s.objs
              THEN [s EXCEPT !.objs = @ \ {r.dev},
                             !.props = Restrict(@, DOMAIN @ \ KeysOf(r.dev, @))]
              ELSE [s EXCEPT !.end = "failed"]
         [] r.type = "propertyGone" ->
              [s EXCEPT !.objs = @ \cup {r.key[1]},
                        !.props = Restrict(@, DOMAIN @ \ {r.key})]
         [] r.type = "set" ->
              [s EXCEPT !.objs = @ \cup {r.key[1]}, !.props = Updated(@, r)]

RecordsOf(log) == IF log = NoLog THEN <<>> ELSE log

\* A log is read record by record.  (after[n] is a singleton, which makes TLC
\* evaluate each turn of the loop once.)
LoadFrom(s, log) ==
  LET rec == RecordsOf(log)
      after[n \in 0 .. Len(rec)] ==
        IF n = 0 THEN {[s EXCEPT !.end = "ok"]} ELSE {Apply(t, rec[n]) : t \in after[n - 1]}
  IN  CHOOSE t \in after[Len(rec)] : TRUE

\* What a restart would load now.
StoredNow == LoadFrom(LoadFrom(Blank, arc), cur)
Stored    == StoredNow.props
----------------------------------------------------------------------------
(* What a loss of power leaves of a log (StoFileSystem.tla, CrashOutcome). *)

\* A record that was being programmed: its last bytes are not what they were
\* to be.  They are the value's, if tag and length are there.
Torn(r) ==
  {TornRecord(d) : d \in Device}
    \cup (IF r.type = "set" THEN {[r EXCEPT !.value = v] : v \in Value} ELSE {r})

\* A log whose first sector was being programmed anew: up to one of the
\* records there, which is torn, all are as they were, behind it they are
\* erased, and in the other sectors as they were.
CutAt(log, n, t, d) ==
  [i \in DOMAIN log |-> IF i = n THEN t
                        ELSE IF i > n /\ i <= BesideHeader THEN TornRecord(d) ELSE log[i]]

Cuts(log) ==
  UNION {{CutAt(log, n, t, d) : t \in Torn(log[n]), d \in Device} :
         n \in {i \in DOMAIN log : i <= BesideHeader}}
----------------------------------------------------------------------------
Init ==
  /\ objects = {} /\ shadow = Blank.props /\ subs = {} /\ raced = {}
  /\ todo = [t \in Thread |-> <<>>]
  /\ queue = [t \in {"sto", "lsd"} |-> <<>>]
  /\ arc = NoLog /\ cur = NoLog
  /\ phase = "archive" /\ consolidate = FALSE
  /\ dumpCount = 0
  /\ cut = 0 /\ discarded = FALSE
  /\ ops = 0 /\ crashes = 0

Idle(t) == phase = "run" /\ todo[t] = <<>>

\* Thread t starts on a call or a message; thread t replaces its next step.
Begin(t, steps) == todo' = [todo EXCEPT ![t] = steps]
Doing(t, op)    == todo[t] # <<>> /\ Head(todo[t]).op = op
Done(t)         == todo' = [todo EXCEPT ![t] = Tail(@)]
Instead(t, s)   == todo' = [todo EXCEPT ![t] = <<s>> \o Tail(@)]

Send(to, m) == [op |-> "send", to |-> to, msg |-> m]
Delta(g, deltas) == [type |-> "delta", group |-> g, deltas |-> deltas]

\* The local shadow's thread holds lsdMutex while it sends a full message.
Locked ==
  /\ Doing("lsd", "send")
  /\ LET m == Head(todo["lsd"]).msg IN m.type = "delta" /\ Len(m.deltas) = MaxDeltas

\* The client calls that begin with what they do under lsdMutex.
StartOp(t, steps) ==
  /\ Idle(t) /\ ops < MaxOps /\ ~Locked
  /\ Begin(t, steps) /\ ops' = ops + 1
  /\ UNCHANGED <<queue, store, boot, dumpCount, harm, crashes>>

\* History: what thread t does to property k now meets steps of other threads.
Carries(s, k, g) ==
  \/ s.op \in {"subscribe", "notify"} /\ s.key = k /\ s.group = g
  \/ /\ s.op = "send" /\ s.msg.type = "delta" /\ s.msg.group = g
     /\ \E i \in DOMAIN s.msg.deltas : s.msg.deltas[i][1] = k

Races(t, k) ==
  {<<k, g>> : g \in {h \in Group : \E u \in Thread \ {t} :
                        \E s \in ToSet(todo[u]) : Carries(s, k, h)}}

NotRaced(k, groups) == raced \ ({k} \X groups)
----------------------------------------------------------------------------
(* The clients' calls.                                                     *)

\* LSD_CreateProperty of a persistent property; for the owner property,
\* WiSafe_DALRegisterDevice, which creates the device first.
CreateProperty(k, v) ==
  /\ k \notin DOMAIN shadow
  /\ k[1] \in objects \/ k[2] = OwnerProp
  /\ StartOp("handler",
       <<[op |-> "announce", key |-> k, group |-> "desired"],
         [op |-> "announce", key |-> k, group |-> "reported"],
         [op |-> "subscribe", key |-> k, group |-> "desired"],
         [op |-> "subscribe", key |-> k, group |-> "reported"]>>)
  /\ objects' = objects \cup {k[1]}
  /\ shadow' = With(shadow, k, [g \in Group |-> v])
  /\ raced' = raced \cup Races("handler", k)
  /\ UNCHANGED subs

\* LSD_SetPropertyValueBy...: an unchanged value notifies nobody.
SetValue(t, k, g, v) ==
  /\ k \in DOMAIN shadow /\ shadow[k][g] # v
  /\ t = (IF g = "reported" THEN "handler" ELSE "cloud")
  /\ StartOp(t, <<[op |-> "notify", key |-> k, group |-> g, value |-> v]>>)
  /\ shadow' = [shadow EXCEPT ![k][g] = v]
  /\ raced' = NotRaced(k, {g}) \cup (Races(t, k) \cap {<<k, g>>})
  /\ UNCHANGED <<objects, subs>>

\* Mutant: the subscription bits of a removed property are left set.
UnlinkStillSubscribed(k) ==
  /\ shadow' = Restrict(shadow, DOMAIN shadow \ {k})
  /\ raced' = NotRaced(k, Group)
  /\ UNCHANGED subs

Unlink(k) ==
  /\ shadow' = Restrict(shadow, DOMAIN shadow \ {k})
  /\ subs' = {s \in subs : s[1] # k}
  /\ raced' = NotRaced(k, Group)

\* LSD_RemovePropertyByAgentSideId
RemoveProperty(k) ==
  /\ k \in DOMAIN shadow /\ k[2] # OwnerProp
  /\ StartOp("handler", <<Send("sto", [type |-> "propertyDeleted", key |-> k])>>)
  /\ Unlink(k)
  /\ UNCHANGED objects

\* LSD_DestroyEnsoDevice
DestroyDevice(d) ==
  /\ MayDestroy /\ d \in objects
  /\ StartOp("handler", <<[op |-> "clear", dev |-> d], [op |-> "destroy", dev |-> d]>>)
  /\ UNCHANGED mem
----------------------------------------------------------------------------
(* The steps of a call.                                                    *)

\* prv_NotifyStorageOfPersistentProperty reads a value, then sends it.
Announce(t) ==
  /\ Doing(t, "announce") /\ ~Locked
  /\ LET s == Head(todo[t])
     IN  IF s.key \in DOMAIN shadow
         THEN Instead(t, Send("sto", Delta(s.group, <<<<s.key, shadow[s.key][s.group]>>>>)))
         ELSE Done(t)
  /\ UNCHANGED <<mem, queue, store, boot, dumpCount, harm, used>>

Subscribe(t) ==
  /\ Doing(t, "subscribe") /\ ~Locked
  /\ LET s == Head(todo[t])
     IN  subs' = IF s.key \in DOMAIN shadow THEN subs \cup {<<s.key, s.group>>} ELSE subs
  /\ Done(t)
  /\ UNCHANGED <<objects, shadow, raced, queue, store, boot, dumpCount, harm, used>>

\* LSD_NotifyDirectly: runs without the lock, after the value has changed.
Notify(t) ==
  /\ Doing(t, "notify")
  /\ LET s == Head(todo[t])
     IN  IF <<s.key, s.group>> \in subs
         THEN Instead(t, Send("sto", Delta(s.group, <<<<s.key, s.value>>>>)))
         ELSE Done(t)
  /\ UNCHANGED <<mem, queue, store, boot, dumpCount, harm, used>>

\* OSAL_SendMessage blocks while the queue is full.
SendMessage(t) ==
  /\ Doing(t, "send")
  /\ LET s == Head(todo[t])
     IN  /\ Len(queue[s.to]) < Depth
         /\ queue' = [queue EXCEPT ![s.to] = Append(@, s.msg)]
  /\ Done(t)
  /\ UNCHANGED <<mem, store, boot, dumpCount, harm, used>>

\* LSD_RemoveAllPropertiesOfObject_Safe: one lock for each property.
ClearDevice(t) ==
  /\ Doing(t, "clear") /\ ~Locked
  /\ LET keys == KeysOf(Head(todo[t]).dev, shadow)
     IN  IF keys = {}
         THEN Done(t) /\ UNCHANGED <<shadow, subs, raced>>
         ELSE (\E k \in keys : Unlink(k)) /\ UNCHANGED todo
  /\ UNCHANGED <<objects, queue, store, boot, dumpCount, harm, used>>

DestroyObject(t) ==
  /\ Doing(t, "destroy") /\ ~Locked
  /\ LET d == Head(todo[t]).dev
     IN  /\ objects' = objects \ {d}
         /\ Instead(t, Send("sto", [type |-> "thingDeleted", dev |-> d]))
  /\ UNCHANGED <<shadow, subs, raced, queue, store, boot, dumpCount, harm, used>>
----------------------------------------------------------------------------
(* The storage handler's thread.                                           *)

Receive(t) ==
  /\ Idle(t) /\ queue[t] # <<>>
  /\ queue' = [queue EXCEPT ![t] = Tail(@)]

RecordStep(r) == [op |-> "record", rec |-> r]

\* _STO_OnUpdate and the other message handlers.
StoReceive ==
  /\ Receive("sto")
  /\ LET m == Head(queue["sto"])
     IN  /\ m.type # "dumpCompleted"
         /\ Begin("sto",
              CASE m.type = "delta" ->
                     [i \in DOMAIN m.deltas |->
                        RecordStep(SetRecord(m.deltas[i][1], m.group, m.deltas[i][2]))]
                     \o <<[op |-> "consolidate"]>>
                [] m.type = "propertyDeleted" -> <<RecordStep(PropertyGone(m.key))>>
                [] m.type = "thingDeleted"    -> <<RecordStep(DeviceGone(m.dev))>>)
  /\ UNCHANGED <<mem, store, boot, dumpCount, harm, used>>

\* Mutant: an update is written although the property is gone.
WriteRecordUnchecked ==
  /\ Doing("sto", "record")
  /\ cur' = Append(RecordsOf(cur), Head(todo["sto"]).rec)
  /\ Done("sto")
  /\ UNCHANGED <<mem, queue, arc, boot, dumpCount, harm, used>>

\* An update is written only if the property still exists.
Dropped(r) == r.type = "set" /\ r.key \notin DOMAIN shadow

\* STO_WriteRecord; the look-up of the property takes lsdMutex.
WriteRecord ==
  /\ Doing("sto", "record")
  /\ LET r == Head(todo["sto"]).rec
     IN  /\ r.type = "set" => ~Locked
         /\ cur' = IF Dropped(r) THEN cur ELSE Append(RecordsOf(cur), r)
  /\ Done("sto")
  /\ UNCHANGED <<mem, queue, arc, boot, dumpCount, harm, used>>

\* Mutant: "archive will be lost", as the warning has it.
RenameOverArchive ==
  /\ Doing("sto", "consolidate")
  /\ IF cur # NoLog /\ Len(RecordsOf(cur)) >= MaxStore
     THEN /\ arc' = cur /\ cur' = NoLog
          /\ Instead("sto", [op |-> "newLog"])
     ELSE Done("sto") /\ UNCHANGED store
  /\ UNCHANGED <<mem, queue, boot, dumpCount, harm, used>>

Renames == cur # NoLog /\ Len(RecordsOf(cur)) >= MaxStore /\ arc = NoLog

\* STO_CheckSizeAndConsolidate: the rename, then the new log and the request.
Rename ==
  /\ Doing("sto", "consolidate")
  /\ IF Renames
     THEN /\ arc' = cur /\ cur' = NoLog
          /\ Instead("sto", [op |-> "newLog"])
     ELSE Done("sto") /\ UNCHANGED store
  /\ UNCHANGED <<mem, queue, boot, dumpCount, harm, used>>

DumpRequest == [type |-> "dump"]

NewLog ==
  /\ Doing("sto", "newLog")
  /\ cur' = <<>>
  /\ Instead("sto", Send("lsd", DumpRequest))
  /\ UNCHANGED <<mem, queue, arc, boot, dumpCount, harm, used>>

\* Mutant: the archive goes when the first group is complete.
DumpCompleteEachGroup ==
  /\ Receive("sto")
  /\ Head(queue["sto"]).type = "dumpCompleted"
  /\ dumpCount' = (dumpCount + 1) % 2
  /\ arc' = NoLog
  /\ UNCHANGED <<mem, todo, cur, boot, harm, used>>

\* STO_LocalShadowDumpComplete: both groups are in the log.
DumpComplete ==
  /\ Receive("sto")
  /\ Head(queue["sto"]).type = "dumpCompleted"
  /\ dumpCount' = (dumpCount + 1) % 2
  /\ arc' = IF dumpCount = 1 THEN NoLog ELSE arc
  /\ UNCHANGED <<mem, todo, cur, boot, harm, used>>
----------------------------------------------------------------------------
(* The local shadow's thread: LSD_SendPropertiesByFilter, for both groups. *)

\* Devices are scanned in the order of their slots, which may be any.
LsdReceive ==
  /\ Receive("lsd")
  /\ \E order \in SetToSeqs(Device) :
       LET Scans(g) == [i \in DOMAIN order |-> [op |-> "scan", dev |-> order[i], group |-> g]]
           Completed == <<Send("sto", [type |-> "dumpCompleted"])>>
       IN  Begin("lsd", Scans("reported") \o Completed \o Scans("desired") \o Completed)
  /\ UNCHANGED <<mem, store, boot, dumpCount, harm, used>>

\* The deltas of a device's properties, in messages of at most MaxDeltas.
Batches(g, keys) ==
  LET Size(b) == IF b * MaxDeltas <= Len(keys) THEN MaxDeltas ELSE Len(keys) % MaxDeltas
      Nth(b, i) == keys[(b - 1) * MaxDeltas + i]
  IN  [b \in 1 .. (Len(keys) + MaxDeltas - 1) \div MaxDeltas |->
         Send("sto", Delta(g, [i \in 1 .. Size(b) |-> <<Nth(b, i), shadow[Nth(b, i)][g]>>]))]

\* The values are read under the lock.  Full messages are sent with the lock
\* held, see Locked, and what is left over after it is released.
ScanDevice ==
  /\ Doing("lsd", "scan")
  /\ Depth - Len(queue["sto"]) >= SpaceNeeded
  /\ LET s == Head(todo["lsd"])
     IN  Begin("lsd", Batches(s.group, SetToSeq(KeysOf(s.dev, shadow))) \o Tail(todo["lsd"]))
  /\ UNCHANGED <<mem, queue, store, boot, dumpCount, harm, used>>
----------------------------------------------------------------------------
(* STO_LoadFromStorage, and restarts.                                      *)

TakeOver(s) ==
  /\ objects' = s.objs /\ shadow' = s.props
  /\ subs' = (DOMAIN s.props) \X Group /\ raced' = {}

LoadedArchive == LoadFrom(Blank, arc)
LoadedCurrent == LoadFrom([objs |-> objects, props |-> shadow, end |-> "ok"], cur)

LoadArchive ==
  /\ phase = "archive"
  /\ LET s == LoadedArchive
     IN  /\ TakeOver(s)
         /\ arc' = IF s.end = "failed" THEN NoLog ELSE arc
         /\ discarded' = (discarded \/ s.end = "failed")
         /\ consolidate' = (arc' # NoLog)
  /\ phase' = "current"
  /\ UNCHANGED <<todo, queue, cur, dumpCount, cut, used>>

\* The dump is requested only if there is a current log.
LoadCurrent ==
  /\ phase = "current"
  /\ LET s == LoadedCurrent
     IN  /\ TakeOver(s)
         /\ cur' = IF s.end = "failed" THEN NoLog ELSE cur
         /\ discarded' = (discarded \/ s.end = "failed")
         /\ queue' = IF cur # NoLog /\ consolidate
                     THEN [queue EXCEPT !["lsd"] = Append(@, DumpRequest)] ELSE queue
  /\ phase' = "run"
  /\ UNCHANGED <<todo, arc, consolidate, dumpCount, cut, used>>

\* A log has lost its header.  With records left in other sectors it is not
\* followed any further: what is written there later is garbled.
Headless(log) ==
  phase' = IF Len(RecordsOf(log)) > BesideHeader THEN "marred" ELSE "archive"

\* Power is lost while a record is written: in the header's sector or in the
\* record itself.
CutWrite ==
  /\ Doing("sto", "record")
  /\ LET r   == Head(todo["sto"]).rec
         log == RecordsOf(cur)
     IN  /\ ~Dropped(r)
         /\ \/ (\E t \in Torn(r) : cur' = Append(log, t)) /\ phase' = "archive"
            \/ /\ \E c \in Cuts(log), d \in Device : cur' = Append(c, TornRecord(d))
               /\ phase' = "archive"
            \/ cur' = NoLog /\ Headless(cur)
  /\ UNCHANGED arc

\* Power is lost while the current log gets its new name.
CutRename ==
  /\ Doing("sto", "consolidate") /\ Renames
  /\ \/ arc' \in Cuts(cur) /\ phase' = "archive"
     \/ arc' = NoLog /\ Headless(cur)
  /\ cur' = NoLog

\* Power is lost while a log is removed, behind its first sector.
CutRemove ==
  /\ phase' = "marred"
  /\ \/ /\ Idle("sto") /\ dumpCount = 1
        /\ queue["sto"] # <<>> /\ Head(queue["sto"]).type = "dumpCompleted"
        /\ Headless(arc) /\ arc' = NoLog /\ UNCHANGED cur
     \/ /\ phase = "archive" /\ LoadedArchive.end = "failed"
        /\ Headless(arc) /\ arc' = NoLog /\ UNCHANGED cur
     \/ /\ phase = "current" /\ LoadedCurrent.end = "failed"
        /\ Headless(cur) /\ cur' = NoLog /\ UNCHANGED arc

\* Only the logs survive.
Restart ==
  /\ phase # "marred"
  /\ crashes < MaxCrashes /\ crashes' = crashes + 1
  /\ \/ UNCHANGED <<store, cut>> /\ phase' = "archive"
     \/ /\ TornWrites = "always" \/ (TornWrites = "noArchive" /\ arc = NoLog)
        /\ CutWrite \/ CutRename \/ CutRemove
        /\ cut' = cut + 1
  /\ objects' = {} /\ shadow' = Blank.props /\ subs' = {} /\ raced' = {}
  /\ todo' = [t \in Thread |-> <<>>]
  /\ queue' = [t \in {"sto", "lsd"} |-> <<>>]
  /\ consolidate' = FALSE /\ dumpCount' = 0
  /\ UNCHANGED <<discarded, ops>>
----------------------------------------------------------------------------
ClientCall ==
  \/ \E k \in Key, v \in Value :
       \/ CreateProperty(k, v)
       \/ SetValue("handler", k, "reported", v)
       \/ CloudSets /\ SetValue("cloud", k, "desired", v)
  \/ \E k \in Key : RemoveProperty(k)
  \/ \E d \in Device : DestroyDevice(d)

ClientStep(t) ==
  Announce(t) \/ Subscribe(t) \/ Notify(t) \/ SendMessage(t) \/ ClearDevice(t) \/ DestroyObject(t)

StoStep == StoReceive \/ WriteRecord \/ Rename \/ NewLog \/ DumpComplete \/ SendMessage("sto")
LsdStep == LsdReceive \/ ScanDevice \/ SendMessage("lsd")
Load    == LoadArchive \/ LoadCurrent

Next ==
  \/ ClientCall
  \/ \E t \in Client : ClientStep(t)
  \/ StoStep \/ LsdStep \/ Load \/ Restart

Spec == Init /\ [][Next]_vars
----------------------------------------------------------------------------
Quiescent ==
  /\ phase = "run"
  /\ \A t \in Thread : todo[t] = <<>>
  /\ \A t \in DOMAIN queue : queue[t] = <<>>

TypeOK ==
  /\ objects \subseteq Device
  /\ DOMAIN shadow \subseteq {k \in Key : k[1] \in objects}
  /\ \A k \in DOMAIN shadow : shadow[k] \in [Group -> Value]
  /\ subs \subseteq (DOMAIN shadow) \X Group
  /\ \A t \in DOMAIN queue : Len(queue[t]) <= Depth
  /\ phase \in {"archive", "current", "run", "marred"} /\ consolidate \in BOOLEAN
  /\ dumpCount \in {0, 1} /\ cut \in 0 .. crashes /\ discarded \in BOOLEAN

IsTorn(r) == r.type = "torn"
Clean(log) == \A i \in DOMAIN log : ~IsTorn(log[i])

\* A torn record hides what is appended behind it until the log has gone.
Hidden == ~Clean(RecordsOf(arc)) \/ ~Clean(RecordsOf(cur))

HasDeletion(log) == \E i \in DOMAIN log : log[i].type = "deviceGone"

\* No load has failed, nor would one now; only a deletion can make it fail.
Loadable ==
  /\ ~discarded
  /\ HasDeletion(RecordsOf(arc)) \/ HasDeletion(RecordsOf(cur)) =>
       LoadedArchive.end # "failed" /\ StoredNow.end # "failed"

(* When every thread is idle a restart would bring back the latest value   *)
(* of each property, through consolidations and restarts, unless a torn    *)
(* record hides it or the update met another thread that was about to send *)
(* an older value or to subscribe (the comment in _LSD_MessageQueueListener*)
(* says that a dump interleaved with updates is no such exception).        *)
QuiescentLatest ==
  Quiescent /\ ~Hidden /\ Loadable =>
    \A k \in DOMAIN shadow \cap DOMAIN Stored : \A g \in Group :
      <<k, g>> \in raced \/ Stored[k][g] = shadow[k][g]

(* When every thread is idle, a restart would bring back every property    *)
(* that exists and none that was deleted, whatever a dump had in flight.   *)
QuiescentKeys == Quiescent /\ ~Hidden /\ Loadable => DOMAIN Stored = DOMAIN shadow

Steps(t)  == ToSet(todo[t])
About(m)  == CASE m.type = "delta" -> {m.deltas[i][1] : i \in DOMAIN m.deltas}
               [] m.type = "propertyDeleted" -> {m.key}
               [] m.type = "thingDeleted" -> {k \in Key : k[1] = m.dev}
               [] OTHER -> {}
AboutRecord(r) == CASE r.type = "torn" -> {}
                    [] r.type = "deviceGone" -> {k \in Key : k[1] = r.dev}
                    [] OTHER -> {r.key}
InHand(s) == CASE s.op \in {"announce", "subscribe"} -> {s.key}
               [] s.op = "send" -> About(s.msg)
               [] s.op \in {"clear", "destroy"} -> {k \in Key : k[1] = s.dev}
               [] s.op = "record" -> AboutRecord(s.rec)
               [] OTHER -> {}

InFlight ==
  UNION ({InHand(s) : s \in UNION {Steps(t) : t \in Thread}}
         \cup {About(m) : m \in ToSet(queue["sto"])})

\* Created, subscribed to, and no thread or queue has anything about it.
AtRest == DOMAIN shadow \ InFlight

\* What a restart must bring back.
Settled == CASE phase # "run" -> DOMAIN Stored
             [] phase = "run" /\ (Hidden \/ ~Loadable) -> {}
             [] OTHER -> AtRest

(* Whatever the interleaving and wherever a restart falls between two      *)
(* steps, consolidation included, a settled property stays stored.  Only a *)
(* loss of power inside an operation on a log may cost more than the       *)
(* record that was being written: up to the whole log.                     *)
P == INSTANCE PersistentShadow WITH stored <- Stored, settled <- Settled,
                                    harm <- <<cut, discarded, IF Loadable THEN <<>> ELSE store>>
StorageIsPersistent == P!Spec

(* The archive is removed only when every property that nothing is in      *)
(* flight for has, for each of its groups, a record in the current log with*)
(* no torn record before it and no deletion of it after: the dump covered  *)
(* it, or an update did (STO_LocalShadowDumpComplete: "Called when the     *)
(* Local Shadow has been dumped into storage").                            *)
LiveIn(log, k, g) ==
  \E i \in DOMAIN log :
    /\ log[i].type = "set" /\ log[i].key = k /\ log[i].group = g
    /\ \A j \in 1 .. i : ~IsTorn(log[j])
    /\ \A j \in DOMAIN log : j > i => log[j].type = "set" \/ k \notin AboutRecord(log[j])

ArchiveRemovalSafe ==
  [][phase = "run" /\ arc # NoLog /\ arc' = NoLog =>
       \A k \in AtRest, g \in Group : LiveIn(RecordsOf(cur), k, g)]_vars

============================================================================
