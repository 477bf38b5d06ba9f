-------------------------- MODULE DumpQueue_proof --------------------------
(***************************************************************************)
(* Proofs about DumpQueue.tla, for any number of objects, properties,      *)
(* clients and places in the queue: no message has more deltas than        *)
(* allowed, and there is one dump at a time, so that an archive is only    *)
(* removed for the dump that was asked for when it was made.               *)
(***************************************************************************)
EXTENDS DumpQueue, FiniteSetTheorems, SequenceTheorems, FunctionTheorems, TLAPS

\* An empty rest is never sent: it would be taken for a completed message.
RestIsNotEmpty == lsd.at = "rest" => Rest(lsd.o) > 0

\* The inductive invariant.
IInv == TypeOK /\ RestIsNotEmpty /\ OneDumpAtATime

\* What is left of Pending without the queue.
Asked == 2 * requests + groups + (IF lsd = Idle THEN 0 ELSE 3 - lsd.group)

Deltas == 0 .. MaxDeltas

CompletedIn(q) == {i \in DOMAIN q : q[i] = Completed}
----------------------------------------------------------------------------
(* Messages in the queue.                                                  *)

(* There are finitely many.                                                *)
LEMMA CompletedAreFinite ==
  ASSUME NEW q \in Seq(Deltas)
  PROVE  IsFiniteSet(CompletedIn(q)) /\ Cardinality(CompletedIn(q)) \in Nat
<1>1. CompletedIn(q) \in SUBSET (1 .. Len(q)) /\ Len(q) \in Nat
  BY LenProperties DEF CompletedIn
<1>2. IsFiniteSet(1 .. Len(q))
  BY <1>1, FS_Interval
<1> QED
  BY <1>1, <1>2, FS_Subset, FS_CardinalityType

(* A completed message that is sent is one more, others do not count.      *)
LEMMA SentMessages ==
  ASSUME NEW q \in Seq(Deltas), NEW n \in Deltas
  PROVE  Cardinality(CompletedIn(Append(q, n)))
           = IF n = Completed THEN Cardinality(CompletedIn(q)) + 1
             ELSE Cardinality(CompletedIn(q))
<1>1. /\ DOMAIN q = 1 .. Len(q) /\ DOMAIN Append(q, n) = 1 .. (Len(q) + 1) /\ Len(q) \in Nat
      /\ \A i \in 1 .. Len(q) : Append(q, n)[i] = q[i]
      /\ Append(q, n)[Len(q) + 1] = n
  BY AppendProperties, LenProperties
<1>2. CASE n = Completed
  <2>1. CompletedIn(Append(q, n)) = CompletedIn(q) \cup {Len(q) + 1}
    BY <1>1, <1>2 DEF CompletedIn
  <2>2. Len(q) + 1 \notin CompletedIn(q)
    BY <1>1 DEF CompletedIn
  <2> QED
    BY <1>2, <2>1, <2>2, CompletedAreFinite, FS_AddElement
<1>3. CASE n # Completed
  <2>1. CompletedIn(Append(q, n)) = CompletedIn(q)
    BY <1>1, <1>3 DEF CompletedIn
  <2> QED
    BY <1>3, <2>1
<1> QED
  BY <1>2, <1>3

(* A completed message that is received is one less.                       *)
LEMMA ReceivedMessages ==
  ASSUME NEW q \in Seq(Deltas), q # <<>>
  PROVE  Cardinality(CompletedIn(Tail(q)))
           = IF Head(q) = Completed THEN Cardinality(CompletedIn(q)) - 1
             ELSE Cardinality(CompletedIn(q))
<1>1. /\ Tail(q) \in Seq(Deltas) /\ Len(Tail(q)) = Len(q) - 1 /\ Head(q) = q[1]
      /\ Len(q) \in Nat \ {0}
      /\ DOMAIN q = 1 .. Len(q) /\ DOMAIN Tail(q) = 1 .. (Len(q) - 1)
      /\ \A i \in 1 .. (Len(q) - 1) : Tail(q)[i] = q[i + 1]
  BY HeadTailProperties, LenProperties, EmptySeq
<1> DEFINE later == CompletedIn(q) \ {1}
           next == [i \in CompletedIn(Tail(q)) |-> i + 1]
<1>2. next \in Bijection(CompletedIn(Tail(q)), later)
  <2>1. next \in [CompletedIn(Tail(q)) -> later]
    BY <1>1 DEF CompletedIn
  <2>2. \A a, b \in CompletedIn(Tail(q)) : next[a] = next[b] => a = b
    BY <1>1 DEF CompletedIn
  <2>3. ASSUME NEW t \in later PROVE \E i \in CompletedIn(Tail(q)) : next[i] = t
    <3>1. t - 1 \in CompletedIn(Tail(q)) /\ (t - 1) + 1 = t
      BY <1>1 DEF CompletedIn
    <3>2. next[t - 1] = t
      BY <3>1
    <3> QED
      BY <3>1, <3>2
  <2> QED
    BY <2>1, <2>2, <2>3, Fun_IsBij
<1>3. Cardinality(later) = Cardinality(CompletedIn(Tail(q)))
  BY <1>1, <1>2, CompletedAreFinite, FS_Bijection DEF ExistsBijection
<1>4. 1 \in CompletedIn(q) <=> Head(q) = Completed
  BY <1>1 DEF CompletedIn
<1> QED
  BY <1>3, <1>4, CompletedAreFinite, FS_RemoveElement
----------------------------------------------------------------------------
(* Types.                                                                  *)

(* What is left of an object's properties when full messages are sent.     *)
LEMMA RestType ==
  ASSUME NEW o \in Object
  PROVE  Rest(o) \in Deltas /\ Persistent[o] \div MaxDeltas \in Nat
<1>1. Persistent[o] \in Nat /\ MaxDeltas \in Nat /\ MaxDeltas > 0
  BY DumpAssumption DEF DumpAssumption
<1>2. Persistent[o] % MaxDeltas \in 0 .. (MaxDeltas - 1)
  BY <1>1
<1>3. Persistent[o] \div MaxDeltas \in Nat
  BY <1>1
<1> QED
  BY <1>1, <1>2, <1>3 DEF Rest, Deltas

(* The dump goes on with an object, or is completed.                       *)
LEMMA ScanType ==
  ASSUME NEW g \in 1 .. 2, NEW o
  PROVE  /\ Scan(g, o) \in Dumps /\ Scan(g, o).group = g /\ Scan(g, o) # Idle
         /\ Scan(g, o).at \in {"space", "completed"}
  BY DEF Scan, Dumps, Idle

(* The parts of the dump's state, by what it does.                         *)
LEMMA DumpIs ==
  ASSUME NEW d \in Dumps
  PROVE  /\ d.at \in {"idle", "space", "lock", "rest", "batch", "completed"}
         /\ d.at = "idle" <=> d = Idle
         /\ d.at # "idle" => d.group \in 1 .. 2
         /\ d.at \in {"space", "lock", "rest", "batch"} => d.o \in Object
         /\ d.at \in {"space", "lock", "rest"} =>
              d = [at |-> d.at, group |-> d.group, o |-> d.o]
         /\ d.at = "batch" =>
              d = [at |-> "batch", group |-> d.group, o |-> d.o, left |-> d.left] /\ d.left \in Nat
<1>1. CASE d = Idle
  BY <1>1 DEF Idle
<1>2. CASE d \in [at : {"space", "lock", "rest"}, group : 1 .. 2, o : Object]
  BY <1>2 DEF Idle
<1>3. CASE d \in [at : {"batch"}, group : 1 .. 2, o : Object, left : Nat]
  BY <1>3 DEF Idle
<1>4. CASE d \in [at : {"completed"}, group : 1 .. 2]
  BY <1>4 DEF Idle
<1> QED
  BY <1>1, <1>2, <1>3, <1>4 DEF Dumps

(* Pending is what is asked for and what is in the queue.                  *)
LEMMA PendingIs ==
  TypeOK => /\ Pending = Asked + Cardinality(CompletedIn(queue))
            /\ Asked \in Nat /\ Cardinality(CompletedIn(queue)) \in Nat
<1> SUFFICES ASSUME TypeOK
             PROVE  /\ Pending = Asked + Cardinality(CompletedIn(queue))
                    /\ Asked \in Nat /\ Cardinality(CompletedIn(queue)) \in Nat
  OBVIOUS
<1>1. requests \in Nat /\ groups \in 0 .. 1 /\ queue \in Seq(Deltas) /\ lsd \in Dumps
  BY DEF TypeOK, Deltas
<1>2. lsd = Idle \/ lsd.group \in 1 .. 2
  BY <1>1, DumpIs
<1>3. Cardinality(CompletedIn(queue)) \in Nat /\ Reports = Cardinality(CompletedIn(queue))
  BY <1>1, CompletedAreFinite DEF Reports, CompletedIn
<1>4. (IF lsd = Idle THEN 0 ELSE 3 - lsd.group) \in Nat
  BY <1>2
<1>5. Asked \in Nat
  BY <1>1, <1>4 DEF Asked
<1> QED
  BY <1>1, <1>3, <1>4, <1>5 DEF Pending, Asked

(* The invariant at start-up.                                              *)
LEMMA InitEstablishesInvariant == Init => IInv
<1> SUFFICES ASSUME Init PROVE IInv
  OBVIOUS
<1>1. TypeOK
  <2>1. queue \in Seq(0 .. MaxDeltas) /\ Len(queue) <= Depth
    BY DumpAssumption DEF Init, DumpAssumption
  <2>2. client \in [Client -> [sets : 0 .. MaxSets, sending : BOOLEAN]]
    BY DumpAssumption DEF Init, DumpAssumption
  <2>3. records \in 0 .. MaxStore /\ groups \in 0 .. 1 /\ requests \in Nat
    BY DumpAssumption DEF Init, DumpAssumption
  <2> QED
    BY <2>1, <2>2, <2>3 DEF Init, TypeOK, Dumps
<1>2. RestIsNotEmpty
  BY DEF Init, RestIsNotEmpty, Idle
<1>3. Pending = 0
  <2>1. CompletedIn(queue) = {}
    BY DEF Init, CompletedIn
  <2>2. Cardinality(CompletedIn(queue)) = 0
    BY <2>1, FS_EmptySet
  <2>3. Asked = 0
    BY DEF Init, Asked
  <2> QED
    BY <1>1, <2>2, <2>3, PendingIs
<1> QED
  BY <1>1, <1>2, <1>3 DEF IInv, OneDumpAtATime, Init
----------------------------------------------------------------------------
(* Steps.  Each changes what is asked for and what is in the queue so that *)
(* Pending stays, or drops with the archive.                               *)

(* A message of n deltas that is sent.                                     *)
LEMMA SendType ==
  ASSUME TypeOK, NEW n \in Deltas, Send(n)
  PROVE  /\ queue' \in Seq(0 .. MaxDeltas) /\ Len(queue') <= Depth
         /\ Cardinality(CompletedIn(queue')) =
              IF n = Completed THEN Cardinality(CompletedIn(queue)) + 1
              ELSE Cardinality(CompletedIn(queue))
<1>1. queue \in Seq(Deltas) /\ queue' = Append(queue, n) /\ Len(queue) < Depth
  BY DEF TypeOK, Deltas, Send
<1>2. Depth \in Nat /\ Len(queue) \in Nat
  BY <1>1, DumpAssumption, LenProperties DEF DumpAssumption
<1>3. queue' \in Seq(Deltas) /\ Len(queue') = Len(queue) + 1
  BY <1>1, AppendProperties
<1>4. Len(queue') <= Depth
  BY <1>1, <1>2, <1>3
<1> QED
  BY <1>1, <1>3, <1>4, SentMessages DEF Deltas

(* The invariant is kept when Pending is, and the archive.                 *)
LEMMA SamePending ==
  ASSUME IInv, TypeOK', RestIsNotEmpty', UNCHANGED archive,
         Asked' + Cardinality(CompletedIn(queue')) = Asked + Cardinality(CompletedIn(queue))
  PROVE  IInv'
<1>1. Pending' = Asked' + Cardinality(CompletedIn(queue'))
  <2>1. (TypeOK => Pending = Asked + Cardinality(CompletedIn(queue)))'
    BY PendingIs, PTL
  <2> QED
    BY <2>1
<1>2. Pending = Asked + Cardinality(CompletedIn(queue))
  BY PendingIs DEF IInv
<1> QED
  BY <1>1, <1>2 DEF IInv, OneDumpAtATime

(* StartDump begins with the first object of the first group.              *)
LEMMA StartDumpKeepsInvariant == IInv /\ StartDump => IInv'
<1> SUFFICES ASSUME IInv, StartDump PROVE IInv'
  OBVIOUS
<1>1. lsd' \in Dumps /\ lsd'.group = 1 /\ lsd' # Idle /\ lsd'.at \in {"space", "completed"}
  BY ScanType DEF StartDump
<1>2. requests' \in Nat /\ requests' = requests - 1 /\ requests \in Nat
  BY DEF IInv, TypeOK, StartDump
<1>3. TypeOK' /\ RestIsNotEmpty'
  BY <1>1, <1>2 DEF IInv, TypeOK, RestIsNotEmpty, StartDump
<1>4. Asked' = Asked
  <2>1. groups \in 0 .. 1 /\ groups' = groups /\ lsd = Idle
    BY DEF IInv, TypeOK, StartDump
  <2> QED
    BY <1>1, <1>2, <2>1 DEF Asked
<1> QED
  BY <1>3, <1>4, SamePending DEF StartDump

(* The dump moves on to the next object, or within an object.              *)
LEMMA MovesKeepInvariant ==
  ASSUME IInv, lsd # Idle, lsd' \in Dumps, lsd' # Idle, lsd'.group = lsd.group,
         lsd'.at = "rest" => Rest(lsd'.o) > 0, mutex' \in {NoThread, "lsd"},
         queue' \in Seq(0 .. MaxDeltas), Len(queue') <= Depth,
         Cardinality(CompletedIn(queue')) = Cardinality(CompletedIn(queue)),
         UNCHANGED <<requests, sto, records, archive, groups, client>>
  PROVE  IInv'
<1>1. TypeOK' /\ RestIsNotEmpty'
  BY DEF IInv, TypeOK, RestIsNotEmpty
<1>2. Asked' = Asked
  BY DEF Asked
<1> QED
  BY <1>1, <1>2, SamePending

(* The steps of the local shadow's thread that send nothing.               *)
LEMMA QuietStepsKeepInvariant ==
  IInv /\ (WaitForSpace \/ LockShadow \/ UnlockShadow) => IInv'
<1> SUFFICES ASSUME IInv, WaitForSpace \/ LockShadow \/ UnlockShadow PROVE IInv'
  OBVIOUS
<1>1. lsd \in Dumps /\ queue \in Seq(0 .. MaxDeltas) /\ Len(queue) <= Depth
      /\ mutex \in {NoThread, "lsd"}
  BY DEF IInv, TypeOK
<1>2. CASE WaitForSpace
  <2>1. lsd # Idle /\ lsd = [at |-> "space", group |-> lsd.group, o |-> lsd.o]
        /\ lsd.group \in 1 .. 2 /\ lsd.o \in Object
    BY <1>1, <1>2, DumpIs DEF WaitForSpace
  <2>2. lsd' = [at |-> "lock", group |-> lsd.group, o |-> lsd.o]
    BY <1>2, <2>1 DEF WaitForSpace
  <2>3. lsd' \in Dumps /\ lsd' # Idle
    BY <2>1, <2>2 DEF Dumps, Idle
  <2> QED
    BY <1>1, <1>2, <2>1, <2>2, <2>3, MovesKeepInvariant DEF WaitForSpace
<1>3. CASE LockShadow
  <2>1. lsd # Idle /\ lsd.group \in 1 .. 2 /\ lsd.o \in Object
    BY <1>1, <1>3, DumpIs DEF LockShadow
  <2>2. lsd' = [at |-> "batch", group |-> lsd.group, o |-> lsd.o,
                left |-> Persistent[lsd.o] \div MaxDeltas]
    BY <1>3 DEF LockShadow
  <2>3. lsd' \in Dumps /\ lsd' # Idle
    BY <2>1, <2>2, RestType DEF Dumps, Idle
  <2> QED
    BY <1>1, <1>3, <2>1, <2>2, <2>3, MovesKeepInvariant DEF LockShadow, Lock
<1>4. CASE UnlockShadow
  <2>1. lsd # Idle /\ lsd.group \in 1 .. 2 /\ lsd.o \in Object
    BY <1>1, <1>4, DumpIs DEF UnlockShadow
  <2>2. CASE Rest(lsd.o) > 0
    <3>1. lsd' = [at |-> "rest", group |-> lsd.group, o |-> lsd.o]
      BY <1>4, <2>2 DEF UnlockShadow
    <3>2. lsd' \in Dumps /\ lsd' # Idle
      BY <2>1, <3>1 DEF Dumps, Idle
    <3> QED
      BY <1>1, <1>4, <2>1, <2>2, <3>1, <3>2, MovesKeepInvariant DEF UnlockShadow, Unlock
  <2>3. CASE ~(Rest(lsd.o) > 0)
    <3>1. lsd' = Scan(lsd.group, lsd.o + 1)
      BY <1>4, <2>3 DEF UnlockShadow
    <3>2. lsd' \in Dumps /\ lsd' # Idle /\ lsd'.group = lsd.group
          /\ lsd'.at \in {"space", "completed"}
      BY <2>1, <3>1, ScanType
    <3> QED
      BY <1>1, <1>4, <2>1, <3>2, MovesKeepInvariant DEF UnlockShadow, Unlock
  <2> QED
    BY <2>2, <2>3
<1> QED
  BY <1>2, <1>3, <1>4

(* A message of deltas that the dump sends.                                *)
LEMMA SendDeltasKeepsInvariant == IInv /\ (SendBatch \/ SendRest) => IInv'
<1> SUFFICES ASSUME IInv, SendBatch \/ SendRest PROVE IInv'
  OBVIOUS
<1>1. TypeOK /\ lsd \in Dumps /\ mutex \in {NoThread, "lsd"}
  BY DEF IInv, TypeOK
<1>2. CASE SendBatch
  <2>1. /\ lsd # Idle /\ lsd.group \in 1 .. 2 /\ lsd.o \in Object /\ lsd.left \in Nat
        /\ lsd = [at |-> "batch", group |-> lsd.group, o |-> lsd.o, left |-> lsd.left]
        /\ lsd.left > 0
    BY <1>1, <1>2, DumpIs DEF SendBatch
  <2>2. lsd.left - 1 \in Nat
    BY <2>1
  <2>3. lsd' = [at |-> "batch", group |-> lsd.group, o |-> lsd.o, left |-> lsd.left - 1]
    BY <1>2, <2>1 DEF SendBatch
  <2>4. lsd' \in Dumps /\ lsd' # Idle
    BY <2>1, <2>2, <2>3 DEF Dumps, Idle
  <2>5. MaxDeltas \in Deltas /\ MaxDeltas # Completed
    BY DumpAssumption DEF DumpAssumption, Deltas, Completed
  <2>6. /\ queue' \in Seq(0 .. MaxDeltas) /\ Len(queue') <= Depth
        /\ Cardinality(CompletedIn(queue')) = Cardinality(CompletedIn(queue))
    BY <1>1, <1>2, <2>5, SendType DEF SendBatch
  <2> QED
    BY <1>1, <1>2, <2>1, <2>3, <2>4, <2>6, MovesKeepInvariant DEF SendBatch
<1>3. CASE SendRest
  <2>1. lsd # Idle /\ lsd.group \in 1 .. 2 /\ lsd.o \in Object
    BY <1>1, <1>3, DumpIs DEF SendRest
  <2>2. Rest(lsd.o) \in Deltas /\ Rest(lsd.o) # Completed
    BY <1>3, <2>1, RestType DEF IInv, RestIsNotEmpty, SendRest, Completed
  <2>3. /\ queue' \in Seq(0 .. MaxDeltas) /\ Len(queue') <= Depth
        /\ Cardinality(CompletedIn(queue')) = Cardinality(CompletedIn(queue))
    BY <1>1, <1>3, <2>2, SendType DEF SendRest
  <2>4. lsd' \in Dumps /\ lsd' # Idle /\ lsd'.group = lsd.group
        /\ lsd'.at \in {"space", "completed"}
    BY <1>3, <2>1, ScanType DEF SendRest
  <2> QED
    BY <1>1, <1>3, <2>1, <2>3, <2>4, MovesKeepInvariant DEF SendRest
<1> QED
  BY <1>2, <1>3

(* The end of a group is reported: one more report, one group less to go.  *)
LEMMA SendCompletedKeepsInvariant == IInv /\ SendCompleted => IInv'
<1> SUFFICES ASSUME IInv, SendCompleted PROVE IInv'
  OBVIOUS
<1>1. TypeOK /\ lsd \in Dumps /\ lsd # Idle /\ lsd.group \in 1 .. 2
  BY DumpIs DEF IInv, TypeOK, SendCompleted
<1>2. /\ queue' \in Seq(0 .. MaxDeltas) /\ Len(queue') <= Depth
      /\ Cardinality(CompletedIn(queue')) = Cardinality(CompletedIn(queue)) + 1
  <2>1. Completed \in Deltas
    BY DumpAssumption DEF DumpAssumption, Deltas, Completed
  <2> QED
    BY <1>1, <2>1, SendType DEF SendCompleted
<1>3. /\ lsd' \in Dumps /\ lsd'.at \in {"idle", "space", "completed"}
      /\ lsd.group = 1 => lsd' # Idle /\ lsd'.group = 2
      /\ lsd.group = 2 => lsd' = Idle
  <2>1. CASE lsd.group = 1
    BY <2>1, ScanType DEF SendCompleted
  <2>2. CASE lsd.group = 2
    BY <2>2 DEF SendCompleted, Dumps, Idle
  <2> QED
    BY <1>1, <2>1, <2>2
<1>4. TypeOK' /\ RestIsNotEmpty'
  BY <1>1, <1>2, <1>3 DEF TypeOK, RestIsNotEmpty, SendCompleted
<1>5. Asked' + Cardinality(CompletedIn(queue')) = Asked + Cardinality(CompletedIn(queue))
  <2>1. /\ requests \in Nat /\ groups \in Nat /\ UNCHANGED <<requests, groups>>
        /\ Cardinality(CompletedIn(queue)) \in Nat
    BY <1>1, PendingIs DEF TypeOK, SendCompleted
  <2> QED
    BY <1>1, <1>2, <1>3, <2>1 DEF Asked
<1> QED
  BY <1>4, <1>5, SamePending DEF SendCompleted

(* What the queue is like when its first message is taken.                 *)
LEMMA ReceiveType ==
  ASSUME TypeOK, queue # <<>>, queue' = Tail(queue)
  PROVE  /\ Head(queue) \in Deltas
         /\ queue' \in Seq(0 .. MaxDeltas) /\ Len(queue') <= Depth
         /\ Cardinality(CompletedIn(queue')) =
              IF Head(queue) = Completed THEN Cardinality(CompletedIn(queue)) - 1
              ELSE Cardinality(CompletedIn(queue))
<1>1. queue \in Seq(Deltas) /\ Len(queue) <= Depth
  BY DEF TypeOK, Deltas
<1>2. Head(queue) \in Deltas /\ queue' \in Seq(Deltas) /\ Len(queue') = Len(queue) - 1
  BY <1>1, HeadTailProperties
<1>3. Len(queue) \in Nat /\ Depth \in Nat
  BY <1>1, LenProperties, DumpAssumption DEF DumpAssumption
<1>4. Len(queue') <= Depth
  BY <1>1, <1>2, <1>3
<1> QED
  BY <1>1, <1>2, <1>4, ReceivedMessages DEF Deltas

(* A message of deltas is taken, and they are looked up one by one.        *)
LEMMA UpdatesKeepInvariant == IInv /\ (ReceiveDeltas \/ LookUpAndWrite) => IInv'
<1> SUFFICES ASSUME IInv, ReceiveDeltas \/ LookUpAndWrite PROVE IInv'
  OBVIOUS
<1>1. TypeOK /\ UNCHANGED <<mutex, lsd, requests, archive, groups, client>>
  BY DEF IInv, ReceiveDeltas, LookUpAndWrite
<1>2. RestIsNotEmpty' /\ Asked' = Asked
  BY <1>1 DEF IInv, RestIsNotEmpty, Asked
<1>3. CASE ReceiveDeltas
  <2>1. /\ Head(queue) \in Deltas
        /\ queue' \in Seq(0 .. MaxDeltas) /\ Len(queue') <= Depth
        /\ Cardinality(CompletedIn(queue')) = Cardinality(CompletedIn(queue))
    BY <1>1, <1>3, ReceiveType DEF ReceiveDeltas
  <2>2. TypeOK'
    BY <1>1, <1>3, <2>1 DEF TypeOK, ReceiveDeltas, Deltas
  <2> QED
    BY <1>1, <1>2, <2>1, <2>2, SamePending
<1>4. CASE LookUpAndWrite
  <2>1. sto' \in [at : {"update"}, left : 0 .. MaxDeltas]
    <3>1. sto \in [at : {"update"}, left : 0 .. MaxDeltas] /\ sto.left > 0 /\ MaxDeltas \in Nat
      BY <1>1, <1>4, DumpAssumption DEF TypeOK, LookUpAndWrite, Idle, DumpAssumption
    <3>2. sto.left - 1 \in 0 .. MaxDeltas
      BY <3>1
    <3> QED
      BY <1>4, <3>1, <3>2 DEF LookUpAndWrite
  <2>2. records' \in 0 .. MaxStore
    BY <1>1, <1>4, DumpAssumption DEF TypeOK, LookUpAndWrite, DumpAssumption
  <2>3. TypeOK' /\ queue' = queue
    BY <1>1, <1>4, <2>1, <2>2 DEF TypeOK, LookUpAndWrite
  <2>4. CompletedIn(queue') = CompletedIn(queue)
    BY <2>3
  <2> QED
    BY <1>1, <1>2, <2>3, <2>4, SamePending
<1> QED
  BY <1>3, <1>4

(* Consolidating makes an archive and asks for a dump, when there is none. *)
LEMMA ConsolidateKeepsInvariant == IInv /\ Consolidate => IInv'
<1> SUFFICES ASSUME IInv, Consolidate PROVE IInv'
  OBVIOUS
<1>1. TypeOK /\ UNCHANGED <<mutex, queue, lsd, groups, client>>
  BY DEF IInv, Consolidate
<1>2. CompletedIn(queue') = CompletedIn(queue) /\ RestIsNotEmpty'
  BY <1>1 DEF IInv, RestIsNotEmpty
<1>3. CASE ~(records >= MaxStore /\ ~archive)
  <2>1. UNCHANGED <<archive, records, requests>> /\ sto' = Idle
    BY <1>3 DEF Consolidate
  <2>2. TypeOK' /\ Asked' = Asked
    BY <1>1, <2>1 DEF TypeOK, Asked
  <2> QED
    BY <1>2, <2>1, <2>2, SamePending
<1>4. CASE records >= MaxStore /\ ~archive
  <2>1. archive' = TRUE /\ records' = 0 /\ requests' = requests + 1 /\ sto' = Idle
    BY <1>4 DEF Consolidate
  <2>2. TypeOK'
    <3>1. 0 \in 0 .. MaxStore /\ requests' \in Nat
      BY <1>1, <2>1, DumpAssumption DEF TypeOK, DumpAssumption
    <3> QED
      BY <1>1, <2>1, <3>1 DEF TypeOK
  <2>3. Pending = 0
    BY <1>4 DEF IInv, OneDumpAtATime
  <2>4. Asked + Cardinality(CompletedIn(queue)) = 0 /\ Asked \in Nat
        /\ Cardinality(CompletedIn(queue)) \in Nat
    BY <1>1, <2>3, PendingIs
  <2>5. Asked' = Asked + 2
    <3>1. requests \in Nat /\ groups \in Nat /\ (IF lsd = Idle THEN 0 ELSE 3 - lsd.group) \in Nat
      <4>1. lsd = Idle \/ lsd.group \in 1 .. 2
        BY <1>1, DumpIs DEF TypeOK
      <4> QED
        BY <1>1, <4>1 DEF TypeOK
    <3> QED
      BY <1>1, <2>1, <3>1 DEF Asked
  <2>6. Pending' = 2
    <3>1. Pending' = Asked' + Cardinality(CompletedIn(queue'))
      <4>1. (TypeOK => Pending = Asked + Cardinality(CompletedIn(queue)))'
        BY PendingIs, PTL
      <4> QED
        BY <2>2, <4>1
    <3> QED
      BY <1>2, <2>4, <2>5, <3>1
  <2> QED
    BY <1>2, <2>1, <2>2, <2>6 DEF IInv, OneDumpAtATime
<1> QED
  BY <1>3, <1>4

(* The second completed message of a dump removes the archive, and is the  *)
(* last that is pending.                                                   *)
LEMMA ReceiveCompletedKeepsInvariant == IInv /\ ReceiveCompleted => IInv'
<1> SUFFICES ASSUME IInv, ReceiveCompleted PROVE IInv'
  OBVIOUS
<1>1. TypeOK /\ UNCHANGED <<mutex, lsd, requests, sto, records, client>>
  BY DEF IInv, ReceiveCompleted
<1>2. /\ queue' \in Seq(0 .. MaxDeltas) /\ Len(queue') <= Depth
      /\ Cardinality(CompletedIn(queue')) = Cardinality(CompletedIn(queue)) - 1
  BY <1>1, ReceiveType DEF ReceiveCompleted
<1>3. /\ groups \in 0 .. 1 /\ (groups = 0 => groups' = 1) /\ (groups = 1 => groups' = 0)
  <2>1. groups = 0 \/ groups = 1
    BY <1>1 DEF TypeOK
  <2>2. groups' = (groups + 1) % 2 /\ (0 + 1) % 2 = 1 /\ (1 + 1) % 2 = 0
    BY DEF ReceiveCompleted
  <2> QED
    BY <2>1, <2>2
<1>4. archive' \in BOOLEAN /\ (groups = 0 => archive' = archive) /\ (groups = 1 => ~archive')
  <2>1. archive \in BOOLEAN /\ archive' = (archive /\ groups = 0)
    BY <1>1 DEF TypeOK, ReceiveCompleted
  <2>2. groups = 1 => groups # 0
    OBVIOUS
  <2> QED
    BY <2>1, <2>2, Zenon
<1>5. TypeOK' /\ RestIsNotEmpty'
  BY <1>1, <1>2, <1>3, <1>4 DEF IInv, TypeOK, RestIsNotEmpty
<1>6. Cardinality(CompletedIn(queue)) \in Nat /\ Asked \in Nat
      /\ Pending = Asked + Cardinality(CompletedIn(queue))
  BY <1>1, PendingIs
<1>7. Pending' = Asked' + Cardinality(CompletedIn(queue')) /\ Cardinality(CompletedIn(queue')) \in Nat
      /\ Asked' \in Nat
  <2>1. (TypeOK => /\ Pending = Asked + Cardinality(CompletedIn(queue))
                   /\ Asked \in Nat /\ Cardinality(CompletedIn(queue)) \in Nat)'
    BY PendingIs, PTL
  <2> QED
    BY <1>5, <2>1
<1>8. (IF lsd = Idle THEN 0 ELSE 3 - lsd.group) \in Nat /\ requests \in Nat
  <2>1. lsd = Idle \/ lsd.group \in 1 .. 2
    BY <1>1, DumpIs DEF TypeOK
  <2> QED
    BY <1>1, <2>1 DEF TypeOK
<1>9. CASE groups = 0
  <2>1. Asked' = Asked + 1
    BY <1>1, <1>3, <1>8, <1>9 DEF Asked
  <2> QED
    BY <1>2, <1>4, <1>5, <1>6, <1>9, <2>1, SamePending
<1>10. CASE groups = 1
  <2>1. Asked = Asked' + 1
    BY <1>1, <1>3, <1>8, <1>10 DEF Asked
  <2>2. Pending >= 1
    BY <1>6, <1>7, <2>1
  <2>3. Pending = 2
    BY <2>2 DEF IInv, OneDumpAtATime
  <2>4. Pending' = 0
    BY <1>2, <1>6, <1>7, <2>1, <2>3
  <2> QED
    BY <1>4, <1>5, <1>10, <2>4 DEF IInv, OneDumpAtATime
<1> QED
  BY <1>3, <1>9, <1>10

(* A client's value is one delta, and nothing of a dump.                   *)
LEMMA ClientKeepsInvariant ==
  ASSUME IInv, NEW c \in Client, SetProperty(c) \/ Notify(c)
  PROVE  IInv'
<1>1. TypeOK /\ UNCHANGED <<mutex, lsd, requests, sto, records, archive, groups>>
  BY DEF IInv, SetProperty, Notify
<1>2. RestIsNotEmpty' /\ Asked' = Asked
  BY <1>1 DEF IInv, RestIsNotEmpty, Asked
<1>3. client \in [Client -> [sets : 0 .. MaxSets, sending : BOOLEAN]]
  BY <1>1 DEF TypeOK
<1>4. CASE SetProperty(c)
  <2>1. client[c].sets \in 0 .. MaxSets /\ client[c].sets > 0 /\ MaxSets \in Nat
    BY <1>3, <1>4, DumpAssumption DEF SetProperty, DumpAssumption
  <2>2. client[c].sets - 1 \in 0 .. MaxSets
    BY <2>1
  <2>3. client' \in [Client -> [sets : 0 .. MaxSets, sending : BOOLEAN]]
    BY <1>3, <1>4, <2>2 DEF SetProperty
  <2>4. TypeOK' /\ queue' = queue
    BY <1>1, <1>4, <2>3 DEF TypeOK, SetProperty
  <2>5. CompletedIn(queue') = CompletedIn(queue)
    BY <2>4
  <2> QED
    BY <1>1, <1>2, <2>4, <2>5, SamePending
<1>5. CASE Notify(c)
  <2>1. 1 \in Deltas /\ 1 # Completed
    BY DumpAssumption DEF DumpAssumption, Deltas, Completed
  <2>2. /\ queue' \in Seq(0 .. MaxDeltas) /\ Len(queue') <= Depth
        /\ Cardinality(CompletedIn(queue')) = Cardinality(CompletedIn(queue))
    BY <1>1, <1>5, <2>1, SendType DEF Notify
  <2>3. client' \in [Client -> [sets : 0 .. MaxSets, sending : BOOLEAN]]
    BY <1>3, <1>5 DEF Notify
  <2>4. TypeOK'
    BY <1>1, <2>2, <2>3 DEF TypeOK
  <2> QED
    BY <1>1, <1>2, <2>2, <2>4, SamePending
<1> QED
  BY <1>4, <1>5
----------------------------------------------------------------------------
(* The theorems.                                                           *)

(* Every step keeps the invariant.                                         *)
LEMMA StepsKeepInvariant == IInv /\ [Next]_vars => IInv'
<1> SUFFICES ASSUME IInv, [Next]_vars PROVE IInv'
  OBVIOUS
<1>1. CASE UNCHANGED vars
  BY <1>1 DEF vars, IInv, TypeOK, RestIsNotEmpty, OneDumpAtATime, Pending, Reports
<1>2. CASE LsdStep
  BY <1>2, StartDumpKeepsInvariant, QuietStepsKeepInvariant, SendDeltasKeepsInvariant,
     SendCompletedKeepsInvariant DEF LsdStep
<1>3. CASE StoStep
  BY <1>3, UpdatesKeepInvariant, ConsolidateKeepsInvariant, ReceiveCompletedKeepsInvariant
     DEF StoStep
<1>4. CASE \E c \in Client : SetProperty(c) \/ Notify(c)
  BY <1>4, ClientKeepsInvariant
<1> QED
  BY <1>1, <1>2, <1>3, <1>4 DEF Next

\* The inductive invariant holds in every state.
THEOREM InvariantHolds == Spec => []IInv
<1> QED
  BY InitEstablishesInvariant, StepsKeepInvariant, PTL DEF Spec

\* The threads' states are well typed: the queue never holds more messages than
\* it has room for, nor a message more deltas than ECOM_MAX_DELTAS.
THEOREM TypeCorrectness == Spec => []TypeOK
<1>1. IInv => TypeOK
  BY DEF IInv
<1> QED
  BY <1>1, InvariantHolds, PTL

\* The two completed messages that let STO_Manager remove an archive are those
\* of the one dump that was asked for when the archive was made.
THEOREM DumpsAreNotMixed == Spec => []OneDumpAtATime
<1>1. IInv => OneDumpAtATime
  BY DEF IInv
<1> QED
  BY <1>1, InvariantHolds, PTL
============================================================================
