----------------------------- MODULE DumpQueue -----------------------------
(***************************************************************************)
(* The dump of the local shadow into the storage handler's queue           *)
(* (LSD_SendPropertiesByFilter), which competes with every thread that     *)
(* sets a property for two things: places in that queue and lsdMutex.      *)
(* The storage handler needs the mutex too, for each delta it takes from   *)
(* the queue.  What the records say is left to Storage.tla: here messages  *)
(* are counted.                                                            *)
(***************************************************************************)
EXTENDS Naturals, Sequences, FiniteSets

CONSTANTS
  MaxThing,    \* objects are numbered 0 .. LSD_MAX_THING
  Persistent,  \* how many persistent properties each of them has
  MaxDeltas,   \* ECOM_MAX_DELTAS: deltas in a message
  Depth,       \* ECOM_MAX_MESSAGE_QUEUE_DEPTH
  SpaceNeeded, \* spaceNeeded: free places the dump waits for
  MaxStore,    \* STO_MAX_STORE_SIZE_IN_BYTES, in records
  Client,      \* threads that set properties
  NoThread,
  MaxSets      \* bound of the search: values that each client sets

Object == 0 .. MaxThing
Thread == Client \cup {"lsd", "sto"}

ASSUME DumpAssumption ==
  /\ MaxThing \in Nat /\ Persistent \in [Object -> Nat]
  /\ MaxDeltas \in Nat \ {0} /\ Depth \in Nat /\ SpaceNeeded \in 1 .. Depth
  /\ MaxStore \in Nat \ {0} /\ MaxSets \in Nat /\ NoThread \notin Thread

VARIABLES
  mutex,    \* which thread holds lsdMutex
  queue,    \* the storage handler's: deltas in each message, 0 for "completed"
  lsd,      \* LSD_SendPropertiesByFilter: where it is, object, batches to send
  requests, \* dumps asked for and not begun
  sto,      \* the storage handler: idle, or the deltas left of an update
  records,  \* the size of the current log
  archive,  \* there is an archive log
  groups,   \* groups the dump was completed for
  client    \* of each client: the values it may still set, and what it does

vars == <<mutex, queue, lsd, requests, sto, records, archive, groups, client>>

Idle == [at |-> "idle"]

Completed == 0

Init ==
  /\ mutex = NoThread /\ queue = <<>>
  /\ lsd = Idle /\ requests = 0
  /\ sto = Idle /\ records = 0 /\ archive = FALSE /\ groups = 0
  /\ client = [c \in Client |-> [sets |-> MaxSets, sending |-> FALSE]]

\* OSAL_SendMessage blocks while the queue is full.
Send(n) == Len(queue) < Depth /\ queue' = Append(queue, n)

Lock(t)   == mutex = NoThread /\ mutex' = t
Unlock(t) == mutex = t /\ mutex' = NoThread
----------------------------------------------------------------------------
(* The local shadow's thread: objects one by one, for the reported group   *)
(* and then for the desired group.                                         *)

Scan(g, o) == IF o \in Object THEN [at |-> "space", group |-> g, o |-> o]
              ELSE [at |-> "completed", group |-> g]

StartDump ==
  /\ lsd = Idle /\ requests > 0
  /\ requests' = requests - 1
  /\ lsd' = Scan(1, 0)
  /\ UNCHANGED <<mutex, queue, sto, records, archive, groups, client>>

\* Mutant: the thread sleeps with the mutex held.
WaitForSpaceHolding ==
  /\ lsd.at = "space"
  /\ \/ /\ Depth - Len(queue) < SpaceNeeded /\ Lock("lsd") /\ UNCHANGED lsd
     \/ /\ Depth - Len(queue) >= SpaceNeeded /\ UNCHANGED mutex
        /\ lsd' = [lsd EXCEPT !.at = "lock"]
  /\ UNCHANGED <<queue, requests, sto, records, archive, groups, client>>

\* Sleeps until there is space; the mutex is not held.
WaitForSpace ==
  /\ lsd.at = "space" /\ Depth - Len(queue) >= SpaceNeeded
  /\ lsd' = [lsd EXCEPT !.at = "lock"]
  /\ UNCHANGED <<mutex, queue, requests, sto, records, archive, groups, client>>

LockShadow ==
  /\ lsd.at = "lock" /\ Lock("lsd")
  /\ lsd' = [at |-> "batch", group |-> lsd.group, o |-> lsd.o,
             left |-> Persistent[lsd.o] \div MaxDeltas]
  /\ UNCHANGED <<queue, requests, sto, records, archive, groups, client>>

\* A full message is sent at once, with the mutex held.
SendBatch ==
  /\ lsd.at = "batch" /\ lsd.left > 0
  /\ Send(MaxDeltas)
  /\ lsd' = [lsd EXCEPT !.left = @ - 1]
  /\ UNCHANGED <<mutex, requests, sto, records, archive, groups, client>>

Rest(o) == Persistent[o] % MaxDeltas

UnlockShadow ==
  /\ lsd.at = "batch" /\ lsd.left = 0 /\ Unlock("lsd")
  /\ lsd' = IF Rest(lsd.o) > 0 THEN [at |-> "rest", group |-> lsd.group, o |-> lsd.o]
            ELSE Scan(lsd.group, lsd.o + 1)
  /\ UNCHANGED <<queue, requests, sto, records, archive, groups, client>>

SendRest ==
  /\ lsd.at = "rest" /\ Send(Rest(lsd.o))
  /\ lsd' = Scan(lsd.group, lsd.o + 1)
  /\ UNCHANGED <<mutex, requests, sto, records, archive, groups, client>>

SendCompleted ==
  /\ lsd.at = "completed" /\ Send(Completed)
  /\ lsd' = IF lsd.group = 1 THEN Scan(2, 0) ELSE Idle
  /\ UNCHANGED <<mutex, requests, sto, records, archive, groups, client>>
----------------------------------------------------------------------------
(* The storage handler: each delta is looked up in the shadow, under the   *)
(* mutex, and written; then the log is consolidated if it is too long.     *)

ReceiveDeltas ==
  /\ sto = Idle /\ queue # <<>> /\ Head(queue) # Completed
  /\ sto' = [at |-> "update", left |-> Head(queue)] /\ queue' = Tail(queue)
  /\ UNCHANGED <<mutex, lsd, requests, records, archive, groups, client>>

\* (Bound: a log that is long enough to be consolidated counts no further.)
LookUpAndWrite ==
  /\ sto.at = "update" /\ sto.left > 0 /\ mutex = NoThread
  /\ sto' = [sto EXCEPT !.left = @ - 1]
  /\ records' = IF records < MaxStore THEN records + 1 ELSE records
  /\ UNCHANGED <<mutex, queue, lsd, requests, archive, groups, client>>

\* Mutant: an archive that is still there does not hold back a second one.
ConsolidateAgain ==
  /\ sto.at = "update" /\ sto.left = 0 /\ sto' = Idle
  /\ IF records >= MaxStore
     THEN archive' = TRUE /\ records' = 0 /\ requests' = requests + 1
     ELSE UNCHANGED <<archive, records, requests>>
  /\ UNCHANGED <<mutex, queue, lsd, groups, client>>

\* Mutant: the local shadow is not asked for a dump.
ConsolidateUnasked ==
  /\ sto.at = "update" /\ sto.left = 0 /\ sto' = Idle
  /\ IF records >= MaxStore /\ ~archive
     THEN archive' = TRUE /\ records' = 0
     ELSE UNCHANGED <<archive, records>>
  /\ UNCHANGED <<mutex, queue, lsd, requests, groups, client>>

Consolidate ==
  /\ sto.at = "update" /\ sto.left = 0 /\ sto' = Idle
  /\ IF records >= MaxStore /\ ~archive
     THEN archive' = TRUE /\ records' = 0 /\ requests' = requests + 1
     ELSE UNCHANGED <<archive, records, requests>>
  /\ UNCHANGED <<mutex, queue, lsd, groups, client>>

\* Mutant: the static counter is not reset when both groups are complete.
ReceiveCompletedNoReset ==
  /\ sto = Idle /\ queue # <<>> /\ Head(queue) = Completed
  /\ queue' = Tail(queue)
  /\ groups' = groups + 1
  /\ archive' = (archive /\ groups = 0)
  /\ UNCHANGED <<mutex, lsd, requests, sto, records, client>>

\* The archive is removed when both groups are complete.
ReceiveCompleted ==
  /\ sto = Idle /\ queue # <<>> /\ Head(queue) = Completed
  /\ queue' = Tail(queue)
  /\ groups' = (groups + 1) % 2
  /\ archive' = (archive /\ groups = 0)
  /\ UNCHANGED <<mutex, lsd, requests, sto, records, client>>
----------------------------------------------------------------------------
(* Any other thread sets a persistent property: under the mutex; then, the *)
(* mutex released, storage is notified.                                    *)

SetProperty(c) ==
  /\ client[c].sets > 0 /\ ~client[c].sending /\ mutex = NoThread
  /\ client' = [client EXCEPT ![c] = [sets |-> @.sets - 1, sending |-> TRUE]]
  /\ UNCHANGED <<mutex, queue, lsd, requests, sto, records, archive, groups>>

Notify(c) ==
  /\ client[c].sending /\ Send(1)
  /\ client' = [client EXCEPT ![c].sending = FALSE]
  /\ UNCHANGED <<mutex, lsd, requests, sto, records, archive, groups>>
----------------------------------------------------------------------------
LsdStep == StartDump \/ WaitForSpace \/ LockShadow \/ SendBatch \/ UnlockShadow
           \/ SendRest \/ SendCompleted
StoStep == ReceiveDeltas \/ LookUpAndWrite \/ Consolidate \/ ReceiveCompleted

Next == LsdStep \/ StoStep \/ \E c \in Client : SetProperty(c) \/ Notify(c)

\* Every thread of the board keeps running; nothing makes a client set values.
Spec == /\ Init /\ [][Next]_vars
        /\ WF_vars(LsdStep) /\ WF_vars(StoStep)
        /\ \A c \in Client : WF_vars(Notify(c))
----------------------------------------------------------------------------
Dumps == {Idle} \cup [at : {"space", "lock", "rest"}, group : 1 .. 2, o : Object]
         \cup [at : {"batch"}, group : 1 .. 2, o : Object, left : Nat]
         \cup [at : {"completed"}, group : 1 .. 2]

\* Every variable has its type, and no message has more than MaxDeltas.
TypeOK ==
  /\ mutex \in {NoThread, "lsd"}
  /\ queue \in Seq(0 .. MaxDeltas) /\ Len(queue) <= Depth
  /\ lsd \in Dumps
  /\ sto \in {Idle} \cup [at : {"update"}, left : 0 .. MaxDeltas]
  /\ requests \in Nat /\ groups \in 0 .. 1 /\ records \in 0 .. MaxStore
  /\ archive \in BOOLEAN
  /\ client \in [Client -> [sets : 0 .. MaxSets, sending : BOOLEAN]]

(* The two "completed" messages that remove an archive are those of the    *)
(* dump that was asked for when it was made: no dump is asked for, under   *)
(* way or reported while there is no archive, and never two at once.       *)
Reports == Cardinality({i \in DOMAIN queue : queue[i] = Completed})
Pending == 2 * requests + Reports + groups
           + (IF lsd = Idle THEN 0 ELSE 3 - lsd.group)
OneDumpAtATime == Pending = IF archive THEN 2 ELSE 0

(* A dump that was asked for ends, although the local shadow's thread, the *)
(* storage handler and the clients wait for each other: nobody waits for a *)
(* place in the queue while holding what the storage handler needs.        *)
DumpEnds == requests > 0 \/ lsd # Idle ~> requests = 0 /\ lsd = Idle

\* What the code does run into: a full message meets a full queue, and the
\* storage handler the mutex that its sender holds.
Deadlocked ==
  /\ lsd.at = "batch" /\ lsd.left > 0 /\ Len(queue) = Depth
  /\ sto.at = "update" /\ sto.left > 0

(* Short of that one deadlock an archive goes in the end: the dump is      *)
(* asked for, gets its space, and both its completed messages arrive.      *)
ConsolidationEnds == archive ~> ~archive \/ Deadlocked

Drained ==
  /\ lsd = Idle /\ sto = Idle /\ requests = 0 /\ queue = <<>>
  /\ \A c \in Client : ~client[c].sending

(* Short of it, all threads come to rest again, although all of them send  *)
(* to one bounded queue and most of them need the mutex.                   *)
AllDrains == []<>(Drained \/ Deadlocked)
============================================================================
