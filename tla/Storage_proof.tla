--------------------------- MODULE Storage_proof ---------------------------
(***************************************************************************)
(* Proofs about Storage.tla, for any devices, properties and values, any   *)
(* depth of the queues, any size of a log and any number of restarts:      *)
(* every variable keeps its type, and when a dump ends the current log     *)
(* holds everything that the archive was kept for.                         *)
(***************************************************************************)
EXTENDS Storage, FiniteSetTheorems, SequenceTheorems, FunctionTheorems,
        WellFoundedInduction, TLAPS

\* Messages and steps, by who handles them.
DumpCompleted == [type |-> "dumpCompleted"]
DeltaMessage  == [type : {"delta"}, group : Group, deltas : Seq(Key \X Value)]
Deletion      == [type : {"propertyDeleted"}, key : Key] \cup [type : {"thingDeleted"}, dev : Device]
StoMessage    == DeltaMessage \cup Deletion \cup {DumpCompleted}

Notifying   == [op : {"notify"}, key : Key, group : Group, value : Value]
Sending(ms) == [op : {"send"}, to : {"sto"}, msg : ms]
Creating    == [op : {"announce", "subscribe"}, key : Key, group : Group]
Destroying  == [op : {"clear", "destroy"}, dev : Device]
Recording   == [op : {"record"}, rec : {r \in Record : r.type # "torn"}]
Scanning    == [op : {"scan"}, dev : Device, group : Group]
NewLogStep  == [op |-> "newLog"]

HandlerSteps == Notifying \cup Creating \cup Destroying \cup Sending(DeltaMessage \cup Deletion)
CloudSteps   == Notifying \cup Sending(DeltaMessage)
StoSteps     == Recording \cup {[op |-> "consolidate"], NewLogStep, Send("lsd", DumpRequest)}
LsdSteps     == Scanning \cup Sending(DeltaMessage \cup {DumpCompleted})

StepsOf(t) == CASE t = "handler" -> HandlerSteps
                [] t = "cloud" -> CloudSteps
                [] t = "sto" -> StoSteps
                [] t = "lsd" -> LsdSteps

Log   == Seq(Record) \cup {NoLog}
Props == UNION {[K -> [Group -> Value]] : K \in SUBSET Key}

\* What reading a log can have made.
Loaded == {s \in [objs : SUBSET Device, props : Props, end : {"ok", "stopped", "failed"}] :
             DOMAIN s.props \subseteq {k \in Key : k[1] \in s.objs}}

TodoTyped  == DOMAIN todo = Thread /\ \A t \in Thread : todo[t] \in Seq(StepsOf(t))
QueueTyped ==
  /\ DOMAIN queue = {"sto", "lsd"}
  /\ queue["sto"] \in Seq(StoMessage) /\ queue["lsd"] \in Seq({DumpRequest})
  /\ Len(queue["sto"]) <= Depth /\ Len(queue["lsd"]) <= Depth
MemTyped ==
  /\ objects \subseteq Device /\ shadow \in Props
  /\ DOMAIN shadow \subseteq {k \in Key : k[1] \in objects}
  /\ subs \subseteq (DOMAIN shadow) \X Group
RestTyped ==
  /\ arc \in Log /\ cur \in Log
  /\ phase \in {"archive", "current", "run", "marred"} /\ consolidate \in BOOLEAN
  /\ dumpCount \in {0, 1}

Typed == TodoTyped /\ QueueTyped /\ MemTyped /\ RestTyped

\* Nothing is to do while the logs are loaded.
Resting ==
  phase # "run" =>
    /\ \A t \in Thread : todo[t] = <<>>
    /\ queue["sto"] = <<>> /\ queue["lsd"] = <<>> /\ dumpCount = 0

\* The handler deletes in storage only what has left the shadow, and destroys
\* a device when the shadow has none of its properties any more.
Deletes(m, k) == \/ m.type = "propertyDeleted" /\ m.key = k
                 \/ m.type = "thingDeleted" /\ m.dev = k[1]

ClearStep(d)   == [op |-> "clear", dev |-> d]
DestroyStep(d) == [op |-> "destroy", dev |-> d]

HandlerDeletes ==
  \/ \A s \in Steps("handler") :
       /\ s.op \notin {"clear", "destroy"}
       /\ s.op = "send" => \A k \in DOMAIN shadow : ~Deletes(s.msg, k)
  \/ \E d \in Device : todo["handler"] = <<ClearStep(d), DestroyStep(d)>>
  \/ \E d \in Device : todo["handler"] = <<DestroyStep(d)>> /\ KeysOf(d, shadow) = {}

Sound == Typed /\ Resting /\ HandlerDeletes
----------------------------------------------------------------------------
(* Sequences, and what is to do.                                           *)

(* A sequence of numbers below the first that fails has no such number.    *)
LEMMA StepByStep ==
  ASSUME NEW S, NEW N \in Nat, 0 \in S, \A n \in 0 .. N - 1 : n \in S => n + 1 \in S
  PROVE  0 .. N \subseteq S
<1> DEFINE Fails == {n \in 0 .. N : n \notin S}
           Less  == {ss \in Nat \X Nat : ss[1] < ss[2]}
<1>1. SUFFICES ASSUME Fails # {} PROVE FALSE
  OBVIOUS
<1>2. Fails \in SUBSET Nat
  OBVIOUS
<1>3. IsWellFoundedOn(Less, Nat)
  BY NatLessThanWellFounded DEF OpToRel
<1>4. PICK b \in Fails : \A x \in Fails : ~(<<x, b>> \in Less)
  <2> HIDE DEF Less, Fails
  <2> QED
    BY <1>1, <1>2, <1>3, WFMin
<1>5. b \in 0 .. N /\ b # 0 /\ b \notin S
  OBVIOUS
<1>6. b - 1 \in 0 .. N - 1 /\ (b - 1) + 1 = b
  BY <1>5
<1>7. b - 1 \notin S
  BY <1>5, <1>6
<1>8. b - 1 \in Fails /\ b - 1 \in Nat /\ b \in Nat /\ b - 1 < b
  BY <1>6, <1>7
<1> QED
  BY <1>4, <1>8

(* The first element of a sequence, and the others.                        *)
LEMMA FirstAndRest ==
  ASSUME NEW S, NEW q \in Seq(S), q # <<>>
  PROVE  /\ Head(q) \in S /\ Tail(q) \in Seq(S) /\ Len(q) \in Nat \ {0}
         /\ DOMAIN q = 1 .. Len(q) /\ Head(q) = q[1]
         /\ Len(Tail(q)) = Len(q) - 1 /\ DOMAIN Tail(q) = 1 .. (Len(q) - 1)
         /\ \A i \in 1 .. (Len(q) - 1) : Tail(q)[i] = q[i + 1]
         /\ ToSet(q) = {Head(q)} \cup ToSet(Tail(q))
<1>1. /\ Head(q) \in S /\ Tail(q) \in Seq(S) /\ Len(q) \in Nat \ {0}
      /\ DOMAIN q = 1 .. Len(q) /\ Head(q) = q[1]
      /\ Len(Tail(q)) = Len(q) - 1 /\ DOMAIN Tail(q) = 1 .. (Len(q) - 1)
      /\ \A i \in 1 .. (Len(q) - 1) : Tail(q)[i] = q[i + 1]
  BY HeadTailProperties, LenProperties, EmptySeq
<1>2. ASSUME NEW i \in DOMAIN q PROVE q[i] \in {Head(q)} \cup ToSet(Tail(q))
  <2>1. i = 1 \/ (i - 1 \in DOMAIN Tail(q) /\ Tail(q)[i - 1] = q[i])
    BY <1>1
  <2> QED
    BY <1>1, <2>1 DEF ToSet
<1>3. ASSUME NEW i \in DOMAIN Tail(q) PROVE Tail(q)[i] \in ToSet(q)
  <2>1. i + 1 \in DOMAIN q /\ Tail(q)[i] = q[i + 1]
    BY <1>1
  <2> QED
    BY <2>1 DEF ToSet
<1>4. Head(q) \in ToSet(q)
  BY <1>1 DEF ToSet
<1> QED
  BY <1>1, <1>2, <1>3, <1>4 DEF ToSet

(* The first element replaced by another.                                  *)
LEMMA OtherFirst ==
  ASSUME NEW S, NEW q \in Seq(S), q # <<>>, NEW x \in S
  PROVE  /\ <<x>> \o Tail(q) \in Seq(S) /\ <<x>> \o Tail(q) # <<>>
         /\ Len(<<x>> \o Tail(q)) = Len(q)
         /\ (<<x>> \o Tail(q))[1] = x
         /\ \A i \in 2 .. Len(q) : (<<x>> \o Tail(q))[i] = q[i]
         /\ ToSet(<<x>> \o Tail(q)) = {x} \cup ToSet(Tail(q))
<1> DEFINE r == <<x>> \o Tail(q)
<1>1. /\ Tail(q) \in Seq(S) /\ Len(q) \in Nat \ {0} /\ Len(Tail(q)) = Len(q) - 1
      /\ \A i \in 1 .. (Len(q) - 1) : Tail(q)[i] = q[i + 1]
      /\ DOMAIN Tail(q) = 1 .. (Len(q) - 1)
  BY FirstAndRest
<1>2. <<x>> \in Seq(S) /\ Len(<<x>>) = 1 /\ <<x>>[1] = x
  OBVIOUS
<1>3. /\ r \in Seq(S) /\ Len(r) = Len(q)
      /\ \A i \in 1 .. Len(q) : r[i] = IF i <= 1 THEN <<x>>[i] ELSE Tail(q)[i - 1]
  BY <1>1, <1>2, ConcatProperties
<1> HIDE DEF r
<1>4. DOMAIN r = 1 .. Len(q)
  BY <1>3, LenProperties
<1>5. r[1] = x /\ \A i \in 2 .. Len(q) : r[i] = Tail(q)[i - 1] /\ r[i] = q[i]
  BY <1>1, <1>2, <1>3
<1>6. ASSUME NEW i \in DOMAIN r PROVE r[i] \in {x} \cup ToSet(Tail(q))
  <2>1. i = 1 \/ (i \in 2 .. Len(q) /\ i - 1 \in DOMAIN Tail(q))
    BY <1>1, <1>4
  <2> QED
    BY <1>5, <2>1 DEF ToSet
<1>7. ASSUME NEW i \in DOMAIN Tail(q) PROVE Tail(q)[i] \in ToSet(r)
  <2>1. i + 1 \in 2 .. Len(q) /\ i + 1 \in DOMAIN r /\ r[i + 1] = Tail(q)[i]
    BY <1>1, <1>4, <1>5
  <2> QED
    BY <2>1 DEF ToSet
<1>8. x \in ToSet(r) /\ r # <<>>
  BY <1>1, <1>3, <1>4, <1>5 DEF ToSet
<1>9. ToSet(r) = {x} \cup ToSet(Tail(q))
  BY <1>6, <1>7, <1>8 DEF ToSet
<1> QED
  BY <1>3, <1>5, <1>8, <1>9 DEF r

(* A sequence with an element more.                                        *)
LEMMA OneMore ==
  ASSUME NEW S, NEW q \in Seq(S), NEW x \in S
  PROVE  /\ Append(q, x) \in Seq(S) /\ Append(q, x) # <<>>
         /\ Len(q) \in Nat /\ Len(Append(q, x)) = Len(q) + 1
         /\ DOMAIN q = 1 .. Len(q) /\ DOMAIN Append(q, x) = 1 .. (Len(q) + 1)
         /\ \A i \in 1 .. Len(q) : Append(q, x)[i] = q[i]
         /\ Append(q, x)[Len(q) + 1] = x
         /\ ToSet(Append(q, x)) = ToSet(q) \cup {x}
<1>1. /\ Append(q, x) \in Seq(S) /\ Append(q, x) # <<>>
      /\ Len(q) \in Nat /\ Len(Append(q, x)) = Len(q) + 1
      /\ DOMAIN q = 1 .. Len(q) /\ DOMAIN Append(q, x) = 1 .. (Len(q) + 1)
      /\ \A i \in 1 .. Len(q) : Append(q, x)[i] = q[i]
      /\ Append(q, x)[Len(q) + 1] = x
  BY AppendProperties, LenProperties
<1> DEFINE r == Append(q, x)
<1>2. ASSUME NEW i \in DOMAIN r PROVE r[i] \in ToSet(q) \cup {x}
  <2>1. i \in 1 .. Len(q) \/ i = Len(q) + 1
    BY <1>1
  <2> QED
    BY <1>1, <2>1 DEF ToSet
<1>3. ASSUME NEW i \in DOMAIN q PROVE q[i] \in ToSet(r)
  <2>1. i \in DOMAIN r /\ r[i] = q[i]
    BY <1>1
  <2> QED
    BY <2>1 DEF ToSet
<1>4. x \in ToSet(r)
  BY <1>1 DEF ToSet
<1>5. ToSet(r) = ToSet(q) \cup {x}
  BY <1>2, <1>3, <1>4 DEF ToSet
<1> QED
  BY <1>1, <1>5
(* Nothing is left of the elements of an empty sequence.                   *)
LEMMA NoElements ==
  /\ ToSet(<<>>) = {}
  /\ \A S : <<>> \in Seq(S)
BY DEF ToSet

(* What each thread may have to do.                                        *)
LEMMA StepsAre ==
  /\ StepsOf("handler") = HandlerSteps /\ StepsOf("cloud") = CloudSteps
  /\ StepsOf("sto") = StoSteps /\ StepsOf("lsd") = LsdSteps
  /\ Thread = {"handler", "cloud", "sto", "lsd"} /\ Client = {"handler", "cloud"}
BY DEF StepsOf, Thread, Client

(* A thread has done its first step.                                       *)
LEMMA DoneLeaves ==
  ASSUME TodoTyped, NEW t \in Thread, todo[t] # <<>>, Done(t)
  PROVE  /\ TodoTyped'
         /\ \A u \in Thread \ {t} : todo'[u] = todo[u] /\ Steps(u)' = Steps(u)
         /\ todo'[t] = Tail(todo[t])
         /\ Steps(t) = {Head(todo[t])} \cup Steps(t)'
<1>1. /\ DOMAIN todo' = Thread /\ todo'[t] = Tail(todo[t])
      /\ \A u \in Thread \ {t} : todo'[u] = todo[u]
  BY DEF TodoTyped, Done
<1>2. todo[t] \in Seq(StepsOf(t))
  BY DEF TodoTyped
<1>3. Tail(todo[t]) \in Seq(StepsOf(t)) /\ ToSet(todo[t]) = {Head(todo[t])} \cup ToSet(Tail(todo[t]))
  BY <1>2, FirstAndRest
<1>4. TodoTyped'
  BY <1>1, <1>3 DEF TodoTyped
<1> QED
  BY <1>1, <1>3, <1>4 DEF Steps

(* A thread has its first step replaced.                                   *)
LEMMA InsteadLeaves ==
  ASSUME TodoTyped, NEW t \in Thread, todo[t] # <<>>, NEW s \in StepsOf(t), Instead(t, s)
  PROVE  /\ TodoTyped'
         /\ \A u \in Thread \ {t} : todo'[u] = todo[u] /\ Steps(u)' = Steps(u)
         /\ todo'[t] = <<s>> \o Tail(todo[t])
         /\ \E rest : /\ Steps(t) = {Head(todo[t])} \cup rest
                      /\ Steps(t)' = {s} \cup rest
<1>1. /\ DOMAIN todo' = Thread /\ todo'[t] = <<s>> \o Tail(todo[t])
      /\ \A u \in Thread \ {t} : todo'[u] = todo[u]
  BY DEF TodoTyped, Instead
<1>2. todo[t] \in Seq(StepsOf(t))
  BY DEF TodoTyped
<1>3. ToSet(todo[t]) = {Head(todo[t])} \cup ToSet(Tail(todo[t]))
  BY <1>2, FirstAndRest
<1>4. /\ <<s>> \o Tail(todo[t]) \in Seq(StepsOf(t))
      /\ ToSet(<<s>> \o Tail(todo[t])) = {s} \cup ToSet(Tail(todo[t]))
  BY <1>2, OtherFirst
<1>5. TodoTyped'
  BY <1>1, <1>4 DEF TodoTyped
<1> QED
  BY <1>1, <1>3, <1>4, <1>5 DEF Steps

(* A thread begins with some steps.                                        *)
LEMMA BeginLeaves ==
  ASSUME TodoTyped, NEW t \in Thread, NEW q \in Seq(StepsOf(t)), Begin(t, q)
  PROVE  /\ TodoTyped'
         /\ \A u \in Thread \ {t} : todo'[u] = todo[u] /\ Steps(u)' = Steps(u)
         /\ todo'[t] = q /\ Steps(t)' = ToSet(q)
BY DEF TodoTyped, Begin, Steps

(* The first step of a thread.                                             *)
LEMMA FirstStep ==
  ASSUME TodoTyped, NEW t \in Thread, todo[t] # <<>>
  PROVE  /\ Head(todo[t]) \in StepsOf(t) /\ Head(todo[t]) \in Steps(t)
         /\ Steps(t) \subseteq StepsOf(t)
<1>1. todo[t] \in Seq(StepsOf(t))
  BY DEF TodoTyped
<1>2. /\ Head(todo[t]) \in StepsOf(t) /\ ToSet(todo[t]) = {Head(todo[t])} \cup ToSet(Tail(todo[t]))
      /\ DOMAIN todo[t] = 1 .. Len(todo[t])
  BY <1>1, FirstAndRest
<1>3. \A i \in 1 .. Len(todo[t]) : todo[t][i] \in StepsOf(t)
  BY <1>1, ElementOfSeq
<1> QED
  BY <1>2, <1>3 DEF Steps, ToSet

(* All steps of a thread are its own.                                      *)
LEMMA StepsTyped ==
  ASSUME TodoTyped, NEW t \in Thread
  PROVE  Steps(t) \subseteq StepsOf(t)
<1>1. todo[t] \in Seq(StepsOf(t))
  BY DEF TodoTyped
<1>2. DOMAIN todo[t] = 1 .. Len(todo[t])
  BY <1>1, LenProperties
<1>3. \A i \in 1 .. Len(todo[t]) : todo[t][i] \in StepsOf(t)
  BY <1>1, ElementOfSeq
<1> QED
  BY <1>2, <1>3 DEF Steps, ToSet
----------------------------------------------------------------------------
(* Loading.                                                                *)

\* f follows the loop over the records from s.
Reads(f, s, rec) ==
  /\ DOMAIN f = 0 .. Len(rec) /\ f[0] = [s EXCEPT !.end = "ok"]
  /\ \A n \in 1 .. Len(rec) : f[n] = Apply(f[n - 1], rec[n])

(* Properties, and the parts of what was loaded.                           *)
LEMMA PropsAre ==
  ASSUME NEW props \in Props
  PROVE  /\ DOMAIN props \in SUBSET Key
         /\ \A k \in DOMAIN props : props[k] \in [Group -> Value]
         /\ props = [k \in DOMAIN props |-> props[k]]
BY DEF Props

LEMMA ArePropsIf ==
  ASSUME NEW K \in SUBSET Key, NEW props \in [K -> [Group -> Value]]
  PROVE  props \in Props
BY DEF Props

(* One record.                                                             *)
LEMMA ApplyIs ==
  ASSUME NEW s \in Loaded, NEW r \in Record
  PROVE  /\ s.end # "ok" => Apply(s, r) = s
         /\ s.end = "ok" /\ r.type = "torn" =>
              Apply(s, r) = [objs |-> s.objs \cup {r.dev}, props |-> s.props, end |-> "stopped"]
         /\ s.end = "ok" /\ r.type = "set" =>
              Apply(s, r) = [objs |-> s.objs \cup {r.key[1]}, props |-> Updated(s.props, r), end |-> "ok"]
         /\ s.end = "ok" /\ r.type = "propertyGone" =>
              Apply(s, r) = [objs |-> s.objs \cup {r.key[1]},
                             props |-> Restrict(s.props, DOMAIN s.props \ {r.key}), end |-> "ok"]
         /\ s.end = "ok" /\ r.type = "deviceGone" /\ r.dev \in s.objs =>
              Apply(s, r) = [objs |-> s.objs \ {r.dev},
                             props |-> Restrict(s.props, DOMAIN s.props \ KeysOf(r.dev, s.props)), end |-> "ok"]
         /\ s.end = "ok" /\ r.type = "deviceGone" /\ r.dev \notin s.objs =>
              Apply(s, r) = [objs |-> s.objs, props |-> s.props, end |-> "failed"]
<1>0. s = [objs |-> s.objs, props |-> s.props, end |-> s.end]
  BY DEF Loaded
<1>1. ASSUME s.end # "ok" PROVE Apply(s, r) = s
  BY <1>1, Zenon DEF Apply
<1>2. ASSUME s.end = "ok", r.type = "torn"
      PROVE  Apply(s, r) = [objs |-> s.objs \cup {r.dev}, props |-> s.props, end |-> "stopped"]
  <2>1. Apply(s, r) = [s EXCEPT !.objs = @ \cup {r.dev}, !.end = "stopped"]
    BY <1>2 DEF Apply
  <2> QED
    BY <1>0, <2>1
<1>3. ASSUME s.end = "ok", r.type = "set"
      PROVE  Apply(s, r) = [objs |-> s.objs \cup {r.key[1]}, props |-> Updated(s.props, r), end |-> "ok"]
  <2>1. Apply(s, r) = [s EXCEPT !.objs = @ \cup {r.key[1]}, !.props = Updated(@, r)]
    BY <1>3 DEF Apply
  <2> QED
    BY <1>0, <1>3, <2>1
<1>4. ASSUME s.end = "ok", r.type = "propertyGone"
      PROVE  Apply(s, r) = [objs |-> s.objs \cup {r.key[1]},
                            props |-> Restrict(s.props, DOMAIN s.props \ {r.key}), end |-> "ok"]
  <2>1. Apply(s, r) = [s EXCEPT !.objs = @ \cup {r.key[1]}, !.props = Restrict(@, DOMAIN @ \ {r.key})]
    BY <1>4 DEF Apply
  <2> QED
    BY <1>0, <1>4, <2>1
<1>5. ASSUME s.end = "ok", r.type = "deviceGone", r.dev \in s.objs
      PROVE  Apply(s, r) = [objs |-> s.objs \ {r.dev},
                            props |-> Restrict(s.props, DOMAIN s.props \ KeysOf(r.dev, s.props)), end |-> "ok"]
  <2>1. Apply(s, r) = [s EXCEPT !.objs = @ \ {r.dev},
                                !.props = Restrict(@, DOMAIN @ \ KeysOf(r.dev, @))]
    BY <1>5 DEF Apply
  <2> QED
    BY <1>0, <1>5, <2>1
<1>6. ASSUME s.end = "ok", r.type = "deviceGone", r.dev \notin s.objs
      PROVE  Apply(s, r) = [objs |-> s.objs, props |-> s.props, end |-> "failed"]
  <2>1. Apply(s, r) = [s EXCEPT !.end = "failed"]
    BY <1>6 DEF Apply
  <2> QED
    BY <1>0, <2>1
<1> QED
  BY <1>1, <1>2, <1>3, <1>4, <1>5, <1>6

(* What a record of a value makes of the properties.                       *)
LEMMA UpdatedIs ==
  ASSUME NEW props \in Props, NEW r, r.key \in Key, r.group \in Group, r.value \in Value
  PROVE  /\ Updated(props, r) \in Props
         /\ DOMAIN Updated(props, r) = DOMAIN props \cup {r.key}
         /\ \A k \in DOMAIN props \ {r.key} : Updated(props, r)[k] = props[k]
         /\ Updated(props, r)[r.key][r.group] = r.value
         /\ \A g \in Group : g # r.group =>
              Updated(props, r)[r.key][g] = IF r.key \in DOMAIN props THEN props[r.key][g] ELSE r.value
<1> DEFINE new == IF r.key \in DOMAIN props THEN [props[r.key] EXCEPT ![r.group] = r.value]
                  ELSE [g \in Group |-> r.value]
<1>1. \A k \in DOMAIN props : props[k] \in [Group -> Value]
  BY PropsAre
<1>2. /\ new \in [Group -> Value] /\ new[r.group] = r.value
      /\ \A g \in Group : g # r.group =>
           new[g] = IF r.key \in DOMAIN props THEN props[r.key][g] ELSE r.value
  BY <1>1
<1>3. Updated(props, r) = With(props, r.key, new)
  BY DEF Updated
<1> HIDE DEF new
<1>4. Updated(props, r) = [k \in DOMAIN props \cup {r.key} |-> IF k = r.key THEN new ELSE props[k]]
  BY <1>3 DEF With
<1>5. DOMAIN props \cup {r.key} \in SUBSET Key
  BY PropsAre
<1>6. Updated(props, r) \in [DOMAIN props \cup {r.key} -> [Group -> Value]]
  BY <1>1, <1>2, <1>4
<1>7. Updated(props, r) \in Props
  BY <1>5, <1>6, ArePropsIf
<1> QED
  BY <1>2, <1>4, <1>7

(* Properties without some of them.                                        *)
LEMMA RestrictedIs ==
  ASSUME NEW props \in Props, NEW K, K \subseteq DOMAIN props
  PROVE  /\ Restrict(props, K) \in Props /\ DOMAIN Restrict(props, K) = K
         /\ \A k \in K : Restrict(props, K)[k] = props[k]
<1>1. Restrict(props, K) = [k \in K |-> props[k]]
  BY DEF Restrict
<1>2. K \in SUBSET Key /\ \A k \in K : props[k] \in [Group -> Value]
  BY PropsAre
<1>3. Restrict(props, K) \in [K -> [Group -> Value]]
  BY <1>1, <1>2
<1> QED
  BY <1>1, <1>2, <1>3, ArePropsIf

(* The fields of a record.                                                 *)
LEMMA RecordIs ==
  ASSUME NEW r \in Record
  PROVE  /\ r.type \in {"set", "propertyGone", "deviceGone", "torn"}
         /\ r.type = "set" => r.key \in Key /\ r.group \in Group /\ r.value \in Value
         /\ r.type = "propertyGone" => r.key \in Key
         /\ r.type = "deviceGone" => r.dev \in Device
         /\ r.type = "torn" => r.dev \in Device
<1>1. CASE r \in [type : {"set"}, key : Key, group : Group, value : Value]
  BY <1>1
<1>2. CASE r \in [type : {"propertyGone"}, key : Key]
  BY <1>2
<1>3. CASE r \in [type : {"deviceGone"}, dev : Device]
  BY <1>3
<1>4. CASE r \in [type : {"torn"}, dev : Device]
  BY <1>4
<1> QED
  BY <1>1, <1>2, <1>3, <1>4, Zenon DEF Record

(* What is loaded stays well typed.                                        *)
LEMMA ApplyTyped ==
  ASSUME NEW s \in Loaded, NEW r \in Record
  PROVE  Apply(s, r) \in Loaded
<1>1. s.objs \in SUBSET Device /\ s.props \in Props /\ s.end \in {"ok", "stopped", "failed"}
      /\ DOMAIN s.props \subseteq {k \in Key : k[1] \in s.objs}
  BY DEF Loaded
<1>2. \A k \in Key : k[1] \in Device
  BY DEF Key
<1>3. CASE s.end # "ok"
  <2>1. Apply(s, r) = s
    BY <1>3, ApplyIs
  <2> QED
    BY <2>1
<1>4. CASE s.end = "ok" /\ r.type = "torn"
  <2>1. Apply(s, r) = [objs |-> s.objs \cup {r.dev}, props |-> s.props, end |-> "stopped"] /\ r.dev \in Device
    BY <1>4, ApplyIs, RecordIs
  <2> QED
    BY <1>1, <2>1 DEF Loaded
<1>5. CASE s.end = "ok" /\ r.type = "set"
  <2>1. r.key \in Key /\ r.group \in Group /\ r.value \in Value
    BY <1>5, RecordIs
  <2>2. Updated(s.props, r) \in Props /\ DOMAIN Updated(s.props, r) = DOMAIN s.props \cup {r.key}
    BY <1>1, <2>1, UpdatedIs
  <2>3. Apply(s, r) = [objs |-> s.objs \cup {r.key[1]}, props |-> Updated(s.props, r), end |-> "ok"]
    BY <1>5, ApplyIs
  <2> QED
    BY <1>1, <1>2, <2>1, <2>2, <2>3 DEF Loaded
<1>6. CASE s.end = "ok" /\ r.type = "propertyGone"
  <2> DEFINE K == DOMAIN s.props \ {r.key}
  <2>1. r.key \in Key
    BY <1>6, RecordIs
  <2>2. Restrict(s.props, K) \in Props /\ DOMAIN Restrict(s.props, K) = K
    BY <1>1, RestrictedIs
  <2>3. Apply(s, r) = [objs |-> s.objs \cup {r.key[1]}, props |-> Restrict(s.props, K), end |-> "ok"]
    BY <1>6, ApplyIs
  <2> QED
    BY <1>1, <1>2, <2>1, <2>2, <2>3 DEF Loaded
<1>7. CASE s.end = "ok" /\ r.type = "deviceGone" /\ r.dev \in s.objs
  <2> DEFINE K == DOMAIN s.props \ KeysOf(r.dev, s.props)
  <2>2. Restrict(s.props, K) \in Props /\ DOMAIN Restrict(s.props, K) = K
    BY <1>1, RestrictedIs
  <2>3. Apply(s, r) = [objs |-> s.objs \ {r.dev}, props |-> Restrict(s.props, K), end |-> "ok"]
    BY <1>7, ApplyIs
  <2>4. K \subseteq {k \in Key : k[1] \in s.objs \ {r.dev}}
    BY <1>1 DEF KeysOf
  <2> HIDE DEF K
  <2> QED
    BY <1>1, <2>2, <2>3, <2>4 DEF Loaded
<1>8. CASE s.end = "ok" /\ r.type = "deviceGone" /\ r.dev \notin s.objs
  <2>1. Apply(s, r) = [objs |-> s.objs, props |-> s.props, end |-> "failed"]
    BY <1>8, ApplyIs
  <2> QED
    BY <1>1, <2>1 DEF Loaded
<1> QED
  BY <1>3, <1>4, <1>5, <1>6, <1>7, <1>8, RecordIs
\* The turns of the loop, as LoadFrom has them.
Turns(f, s, rec, m) ==
  f = [n \in 0 .. m |-> IF n = 0 THEN {[s EXCEPT !.end = "ok"]}
                        ELSE {Apply(t, rec[n]) : t \in f[n - 1]}]

(* There are as many turns as one likes.                                   *)
LEMMA TurnsExist ==
  ASSUME NEW s, NEW rec, NEW N \in Nat
  PROVE  \E f : Turns(f, s, rec, N)
<1> DEFINE T == {m \in Nat : \E f : Turns(f, s, rec, m)}
<1>1. 0 \in T
  <2>1. Turns([n \in 0 .. 0 |-> {[s EXCEPT !.end = "ok"]}], s, rec, 0)
    BY DEF Turns
  <2> QED
    BY <2>1
<1>2. ASSUME NEW m \in 0 .. N - 1, m \in T PROVE m + 1 \in T
  <2>1. m \in Nat /\ m + 1 \in Nat
    BY <1>2
  <2>2. PICK g : Turns(g, s, rec, m)
    BY <1>2
  <2>3. g = [n \in 0 .. m |-> IF n = 0 THEN {[s EXCEPT !.end = "ok"]}
                              ELSE {Apply(t, rec[n]) : t \in g[n - 1]}]
    BY <2>2 DEF Turns
  <2> DEFINE start == {[s EXCEPT !.end = "ok"]}
             Turn(n, before) == {Apply(t, rec[n]) : t \in before}
             f == [n \in 0 .. m + 1 |-> IF n = m + 1 THEN Turn(n, g[m]) ELSE g[n]]
  <2>4. g = [n \in 0 .. m |-> IF n = 0 THEN start ELSE Turn(n, g[n - 1])]
    BY <2>3
  <2> HIDE DEF start, Turn
  <2>5. f = [n \in 0 .. m + 1 |-> IF n = 0 THEN start ELSE Turn(n, f[n - 1])]
    <3>1. ASSUME NEW n \in 0 .. m + 1
          PROVE  f[n] = IF n = 0 THEN start ELSE Turn(n, f[n - 1])
      <4>1. CASE n = m + 1
        <5>1. n # 0 /\ n - 1 = m /\ m \in 0 .. m + 1 /\ m # m + 1
          BY <2>1, <4>1
        <5>2. f[n - 1] = g[m] /\ f[n] = Turn(n, g[m])
          BY <4>1, <5>1
        <5> HIDE DEF f
        <5> QED
          BY <5>1, <5>2
      <4>2. CASE n \in 0 .. m
        <5>1. n # m + 1 /\ (n # 0 => n - 1 \in 0 .. m /\ n - 1 \in 0 .. m + 1 /\ n - 1 # m + 1)
          BY <2>1, <4>2
        <5>2. f[n] = g[n] /\ (n # 0 => f[n - 1] = g[n - 1])
          BY <3>1, <5>1
        <5> HIDE DEF f
        <5>3. g[n] = IF n = 0 THEN start ELSE Turn(n, g[n - 1])
          BY <2>4, <4>2
        <5> QED
          BY <5>2, <5>3
      <4> QED
        BY <2>1, <4>1, <4>2
    <3>2. f = [n \in 0 .. m + 1 |-> f[n]]
      OBVIOUS
    <3> HIDE DEF f
    <3> QED
      BY <3>1, <3>2
  <2> HIDE DEF f
  <2>6. Turns(f, s, rec, m + 1)
    BY <2>5 DEF Turns, start, Turn
  <2> QED
    BY <2>1, <2>6
<1> HIDE DEF T
<1>3. N \in T
  <2>1. 0 .. N \subseteq T
    BY <1>1, <1>2, StepByStep
  <2> QED
    BY <2>1
<1> QED
  BY <1>3 DEF T

(* A log is read from its first record to its last.                        *)
LEMMA LoadReads ==
  ASSUME NEW s, NEW log, RecordsOf(log) \in Seq(Record)
  PROVE  \E f : Reads(f, s, RecordsOf(log)) /\ LoadFrom(s, log) = f[Len(RecordsOf(log))]
<1> DEFINE rec == RecordsOf(log)
           N == Len(rec)
           after == CHOOSE f : Turns(f, s, rec, N)
<1>1. N \in Nat
  BY LenProperties
<1>2. Turns(after, s, rec, N)
  BY <1>1, TurnsExist
<1>3. LoadFrom(s, log) = CHOOSE t \in after[N] : TRUE
  BY DEF LoadFrom, Turns
<1> HIDE DEF after, rec, N
<1>4. /\ DOMAIN after = 0 .. N
      /\ after[0] = {[s EXCEPT !.end = "ok"]}
      /\ \A n \in 1 .. N : after[n] = {Apply(t, rec[n]) : t \in after[n - 1]}
  <2> DEFINE start == {[s EXCEPT !.end = "ok"]}
             Turn(n, before) == {Apply(t, rec[n]) : t \in before}
  <2>1. after = [n \in 0 .. N |-> IF n = 0 THEN start ELSE Turn(n, after[n - 1])]
    BY <1>2 DEF Turns
  <2> HIDE DEF start, Turn
  <2>2. /\ DOMAIN after = 0 .. N /\ after[0] = start
        /\ \A n \in 1 .. N : after[n] = Turn(n, after[n - 1])
    BY <1>1, <2>1
  <2> QED
    BY <2>2 DEF start, Turn
<1> DEFINE f == [n \in 0 .. N |-> CHOOSE t \in after[n] : TRUE]
           Singles == {n \in 0 .. N : \E t : after[n] = {t}}
<1>5. 0 .. N \subseteq Singles
  <2>1. 0 \in Singles
    BY <1>1, <1>4
  <2>2. ASSUME NEW n \in 0 .. N - 1, n \in Singles PROVE n + 1 \in Singles
    <3>1. PICK t : after[n] = {t}
      BY <2>2
    <3>2. n + 1 \in 1 .. N /\ n + 1 \in 0 .. N /\ (n + 1) - 1 = n
      BY <1>1
    <3>3. after[n + 1] = {Apply(u, rec[n + 1]) : u \in after[n]}
      BY <1>4, <3>2
    <3>4. after[n + 1] = {Apply(t, rec[n + 1])}
      BY <3>1, <3>3
    <3> QED
      BY <3>2, <3>4
  <2> HIDE DEF Singles
  <2> QED
    BY <1>1, <2>1, <2>2, StepByStep
<1>6. \A n \in 0 .. N : after[n] = {f[n]}
  <2> TAKE n \in 0 .. N
  <2>1. PICK t : after[n] = {t}
    BY <1>5
  <2>2. f[n] = CHOOSE u \in {t} : TRUE
    BY <2>1
  <2> QED
    BY <2>1, <2>2
<1>7. DOMAIN f = 0 .. N /\ f[N] = LoadFrom(s, log)
  BY <1>1, <1>3
<1> HIDE DEF f, Singles
<1>8. f[0] = [s EXCEPT !.end = "ok"]
  BY <1>1, <1>4, <1>6
<1>9. ASSUME NEW n \in 1 .. N PROVE f[n] = Apply(f[n - 1], rec[n])
  <2>1. n \in 0 .. N /\ n - 1 \in 0 .. N
    BY <1>1
  <2>2. {f[n]} = {Apply(t, rec[n]) : t \in {f[n - 1]}}
    BY <1>4, <1>6, <2>1
  <2> QED
    BY <2>2
<1> QED
  BY <1>7, <1>8, <1>9 DEF Reads, rec, N
(* The records of a log.                                                   *)
LEMMA RecordsTyped ==
  ASSUME NEW log \in Log
  PROVE  RecordsOf(log) \in Seq(Record) /\ (log # NoLog => RecordsOf(log) = log)
BY NoElements DEF RecordsOf, Log

LEMMA SequencesAreLogs ==
  ASSUME NEW q \in Seq(Record)
  PROVE  q # NoLog /\ RecordsOf(q) = q /\ q \in Log
<1>1. NoLog \notin Seq(Record)
  BY StorageAssumption DEF StorageAssumption
<1> QED
  BY <1>1 DEF RecordsOf, Log

LEMMA StartTyped ==
  ASSUME NEW s \in Loaded
  PROVE  /\ [s EXCEPT !.end = "ok"] = [objs |-> s.objs, props |-> s.props, end |-> "ok"]
         /\ [s EXCEPT !.end = "ok"] \in Loaded
<1>1. s.objs \in SUBSET Device /\ s.props \in Props
      /\ DOMAIN s.props \subseteq {k \in Key : k[1] \in s.objs}
  BY DEF Loaded
<1>2. [s EXCEPT !.end = "ok"] = [objs |-> s.objs, props |-> s.props, end |-> "ok"]
  BY DEF Loaded
<1> QED
  BY <1>1, <1>2 DEF Loaded

LEMMA BlankTyped ==
  /\ Blank \in Loaded /\ Blank.objs = {} /\ DOMAIN Blank.props = {} /\ Blank.end = "ok"
  /\ [Blank EXCEPT !.end = "ok"] = Blank
<1>1. Blank = [objs |-> {}, props |-> [k \in {} |-> <<>>], end |-> "ok"]
  BY DEF Blank
<1>2. [k \in {} |-> <<>>] \in [{} -> [Group -> Value]]
  OBVIOUS
<1>3. [k \in {} |-> <<>>] \in Props
  BY <1>2, ArePropsIf
<1> DEFINE none == [k \in {} |-> <<>>]
<1>4. DOMAIN none = {}
  OBVIOUS
<1> HIDE DEF none
<1> QED
  BY <1>1, <1>3, <1>4 DEF Loaded, none

(* What is loaded stays well typed, record by record.                      *)
LEMMA ReadsTyped ==
  ASSUME NEW s \in Loaded, NEW rec \in Seq(Record), NEW f, Reads(f, s, rec)
  PROVE  \A n \in 0 .. Len(rec) : f[n] \in Loaded
<1> DEFINE T == {n \in 0 .. Len(rec) : f[n] \in Loaded}
<1>1. Len(rec) \in Nat /\ \A n \in 1 .. Len(rec) : rec[n] \in Record
  BY LenProperties, ElementOfSeq
<1>2. 0 \in T
  BY <1>1, StartTyped DEF Reads
<1>3. ASSUME NEW n \in 0 .. Len(rec) - 1, n \in T PROVE n + 1 \in T
  <2>1. n + 1 \in 1 .. Len(rec) /\ n + 1 \in 0 .. Len(rec) /\ (n + 1) - 1 = n
    BY <1>1
  <2>2. f[n + 1] = Apply(f[n], rec[n + 1]) /\ f[n] \in Loaded /\ rec[n + 1] \in Record
    BY <1>1, <1>3, <2>1 DEF Reads
  <2> QED
    BY <2>1, <2>2, ApplyTyped
<1> HIDE DEF T
<1>4. 0 .. Len(rec) \subseteq T
  BY <1>1, <1>2, <1>3, StepByStep
<1> QED
  BY <1>4 DEF T

LEMMA LoadTyped ==
  ASSUME NEW s \in Loaded, NEW log \in Log
  PROVE  LoadFrom(s, log) \in Loaded
<1> DEFINE rec == RecordsOf(log)
<1>1. rec \in Seq(Record)
  BY RecordsTyped
<1>2. PICK f : Reads(f, s, rec) /\ LoadFrom(s, log) = f[Len(rec)]
  BY <1>1, LoadReads
<1>3. Len(rec) \in 0 .. Len(rec)
  BY <1>1, LenProperties
<1> HIDE DEF rec
<1> QED
  BY <1>1, <1>2, <1>3, ReadsTyped

(* A log without records leaves what is there.                             *)
LEMMA LoadNothing ==
  ASSUME NEW s, NEW log, log \in {NoLog, <<>>}
  PROVE  LoadFrom(s, log) = [s EXCEPT !.end = "ok"]
<1>1. RecordsOf(log) = <<>>
  BY DEF RecordsOf
<1>2. PICK f : Reads(f, s, <<>>) /\ LoadFrom(s, log) = f[Len(<<>>)]
  BY <1>1, LoadReads, NoElements
<1> QED
  BY <1>2 DEF Reads

\* g goes on with more records where f ends.
ReadsOn(f, g, s, rec, more) ==
  /\ rec \in Seq(Record) /\ more \in Seq(Record) /\ Len(rec) <= Len(more)
  /\ \A n \in 1 .. Len(rec) : more[n] = rec[n]
  /\ Reads(f, s, rec) /\ Reads(g, s, more)

(* A record that is appended is applied last.                              *)
LEMMA ReadingAgrees ==
  ASSUME NEW s, NEW rec, NEW more, NEW f, NEW g, ReadsOn(f, g, s, rec, more)
  PROVE  \A n \in 0 .. Len(rec) : f[n] = g[n]
<1> DEFINE T == {n \in 0 .. Len(rec) : f[n] = g[n]}
<1> USE DEF ReadsOn
<1>1. Len(rec) \in Nat /\ Len(more) \in Nat
  BY LenProperties
<1>2. 0 \in T
  BY <1>1 DEF Reads
<1>3. ASSUME NEW n \in 0 .. Len(rec) - 1, n \in T PROVE n + 1 \in T
  <2>1. /\ n + 1 \in 1 .. Len(rec) /\ n + 1 \in 0 .. Len(rec) /\ (n + 1) - 1 = n
        /\ n + 1 \in 1 .. Len(more)
    BY <1>1
  <2>2. f[n + 1] = Apply(f[n], rec[n + 1]) /\ g[n + 1] = Apply(g[n], more[n + 1])
    BY <2>1 DEF Reads
  <2>3. f[n] = g[n] /\ more[n + 1] = rec[n + 1]
    BY <1>3, <2>1
  <2> QED
    BY <2>1, <2>2, <2>3
<1> HIDE DEF T
<1>4. 0 .. Len(rec) \subseteq T
  BY <1>1, <1>2, <1>3, StepByStep
<1> QED
  BY <1>4 DEF T

LEMMA LoadAppended ==
  ASSUME NEW s, NEW log \in Log, NEW r \in Record
  PROVE  LoadFrom(s, Append(RecordsOf(log), r)) = Apply(LoadFrom(s, log), r)
<1> DEFINE rec == RecordsOf(log)
           more == Append(rec, r)
<1>1. rec \in Seq(Record)
  BY RecordsTyped
<1>2. /\ more \in Seq(Record) /\ Len(rec) \in Nat /\ Len(more) = Len(rec) + 1
      /\ \A n \in 1 .. Len(rec) : more[n] = rec[n]
      /\ more[Len(rec) + 1] = r
  BY <1>1, OneMore
<1> HIDE DEF rec, more
<1>3. RecordsOf(more) = more
  BY <1>2, SequencesAreLogs
<1>4. PICK f : Reads(f, s, rec) /\ LoadFrom(s, log) = f[Len(rec)]
  BY <1>1, LoadReads DEF rec
<1>5. PICK g : Reads(g, s, more) /\ LoadFrom(s, more) = g[Len(more)]
  BY <1>2, <1>3, LoadReads
<1>6. Len(rec) <= Len(more) /\ Len(rec) \in 0 .. Len(rec)
      /\ Len(rec) + 1 \in 1 .. Len(more) /\ (Len(rec) + 1) - 1 = Len(rec)
  BY <1>2
<1>7. f[Len(rec)] = g[Len(rec)]
  <2>1. ReadsOn(f, g, s, rec, more)
    BY <1>1, <1>2, <1>4, <1>5, <1>6 DEF ReadsOn
  <2>2. \A n \in 0 .. Len(rec) : f[n] = g[n]
    BY <2>1, ReadingAgrees
  <2> QED
    BY <1>6, <2>2
<1>8. g[Len(more)] = Apply(g[Len(rec)], r)
  BY <1>2, <1>5, <1>6 DEF Reads
<1> QED
  BY <1>4, <1>5, <1>7, <1>8 DEF rec, more
----------------------------------------------------------------------------
(* Messages, and the steps they make.                                      *)

(* A one-to-one enumeration of a finite set by its size leaves nothing out.*)
LEMMA EnumerationIsWhole ==
  ASSUME NEW S, IsFiniteSet(S), NEW f \in [1 .. Cardinality(S) -> S], IsInjective(f)
  PROVE  f \in Seq(S) /\ Len(f) = Cardinality(S) /\ ToSet(f) = S
<1>1. Cardinality(S) \in Nat
  BY FS_CardinalityType
<1>2. IsFiniteSet(1 .. Cardinality(S)) /\ Cardinality(1 .. Cardinality(S)) = Cardinality(S)
  BY <1>1, FS_Interval
<1>3. f \in Injection(1 .. Cardinality(S), S)
  BY DEF Injection
<1>4. f \in Surjection(1 .. Cardinality(S), S)
  BY <1>2, <1>3, FS_Injection
<1>5. \A x \in S : \E i \in 1 .. Cardinality(S) : f[i] = x
  BY <1>4 DEF Surjection
<1>6. f \in Seq(S) /\ Len(f) = Cardinality(S)
  BY <1>1
<1> QED
  BY <1>5, <1>6 DEF ToSet

LEMMA SetToSeqIs ==
  ASSUME NEW S, IsFiniteSet(S)
  PROVE  SetToSeq(S) \in Seq(S) /\ ToSet(SetToSeq(S)) = S
<1>1. PICK g : g \in Bijection(1 .. Cardinality(S), S)
  BY FS_CardinalityType DEF ExistsBijection
<1>2. g \in [1 .. Cardinality(S) -> S] /\ IsInjective(g)
  BY <1>1 DEF Bijection, Injection
<1>3. SetToSeq(S) \in [1 .. Cardinality(S) -> S] /\ IsInjective(SetToSeq(S))
  BY <1>2 DEF SetToSeq
<1> QED
  BY <1>3, EnumerationIsWhole

LEMMA OrderIs ==
  ASSUME NEW S, IsFiniteSet(S), NEW order \in SetToSeqs(S)
  PROVE  order \in Seq(S) /\ ToSet(order) = S
<1>1. order \in [1 .. Cardinality(S) -> S] /\ IsInjective(order)
  BY DEF SetToSeqs, IsInjective
<1> QED
  BY <1>1, EnumerationIsWhole

(* The properties of a device are finitely many.                           *)
LEMMA KeysAreFinite ==
  ASSUME NEW d, NEW props \in Props
  PROVE  /\ IsFiniteSet(KeysOf(d, props))
         /\ KeysOf(d, props) \subseteq DOMAIN props
<1>1. IsFiniteSet(Key)
  BY StorageAssumption, FS_Product DEF StorageAssumption, Key
<1>2. KeysOf(d, props) \in SUBSET Key
  BY PropsAre DEF KeysOf
<1> QED
  BY <1>1, <1>2, FS_Subset DEF KeysOf

(* A message with updates.                                                 *)
LEMMA DeltaTyped ==
  ASSUME NEW g \in Group, NEW ds \in Seq(Key \X Value)
  PROVE  /\ Delta(g, ds) \in DeltaMessage /\ Delta(g, ds).deltas = ds
         /\ Delta(g, ds).group = g /\ Delta(g, ds).type = "delta"
BY DEF Delta, DeltaMessage

LEMMA OneDeltaTyped ==
  ASSUME NEW g \in Group, NEW k \in Key, NEW v \in Value
  PROVE  /\ Delta(g, <<<<k, v>>>>) \in DeltaMessage
         /\ Delta(g, <<<<k, v>>>>).type = "delta" /\ Delta(g, <<<<k, v>>>>).group = g
         /\ DOMAIN Delta(g, <<<<k, v>>>>).deltas = {1}
         /\ Delta(g, <<<<k, v>>>>).deltas[1] = <<k, v>>
<1> DEFINE ds == <<<<k, v>>>>
<1>1. ds \in Seq(Key \X Value) /\ DOMAIN ds = {1} /\ ds[1] = <<k, v>>
  OBVIOUS
<1> HIDE DEF ds
<1> QED
  BY <1>1, DeltaTyped DEF ds

(* A send.                                                                 *)
LEMMA SendIs ==
  ASSUME NEW to, NEW m
  PROVE  /\ Send(to, m).op = "send" /\ Send(to, m).to = to /\ Send(to, m).msg = m
         /\ \A ms : m \in ms /\ to = "sto" => Send(to, m) \in Sending(ms)
BY DEF Send, Sending

(* The steps of a message with updates: its records, and the consolidation.*)
Writes(m) == [i \in DOMAIN m.deltas |->
                RecordStep(SetRecord(m.deltas[i][1], m.group, m.deltas[i][2]))]

LEMMA RecordStepTyped ==
  ASSUME NEW r \in Record, r.type # "torn"
  PROVE  /\ RecordStep(r) \in Recording /\ RecordStep(r).op = "record" /\ RecordStep(r).rec = r
BY RecordIs DEF RecordStep, Recording

LEMMA SetRecordTyped ==
  ASSUME NEW k \in Key, NEW g \in Group, NEW v \in Value
  PROVE  /\ SetRecord(k, g, v) \in Record /\ SetRecord(k, g, v).type = "set"
         /\ SetRecord(k, g, v).key = k /\ SetRecord(k, g, v).group = g /\ SetRecord(k, g, v).value = v
BY DEF SetRecord, Record

LEMMA WritesTyped ==
  ASSUME NEW m \in DeltaMessage
  PROVE  /\ Writes(m) \o <<[op |-> "consolidate"]>> \in Seq(StoSteps)
         /\ ToSet(Writes(m) \o <<[op |-> "consolidate"]>>)
              = {RecordStep(SetRecord(m.deltas[i][1], m.group, m.deltas[i][2])) : i \in DOMAIN m.deltas}
                  \cup {[op |-> "consolidate"]}
         /\ Writes(m) \in Seq(StoSteps) /\ Len(Writes(m)) = Len(m.deltas)
         /\ Writes(m) \o <<[op |-> "consolidate"]>> = Append(Writes(m), [op |-> "consolidate"])
         /\ \A i \in DOMAIN m.deltas :
              Writes(m)[i] = RecordStep(SetRecord(m.deltas[i][1], m.group, m.deltas[i][2]))
<1> DEFINE W == Writes(m)
           last == [op |-> "consolidate"]
           At(i) == RecordStep(SetRecord(m.deltas[i][1], m.group, m.deltas[i][2]))
<1>1. m.group \in Group /\ m.deltas \in Seq(Key \X Value)
  BY DEF DeltaMessage
<1>2. /\ DOMAIN m.deltas = 1 .. Len(m.deltas) /\ Len(m.deltas) \in Nat
      /\ \A i \in DOMAIN m.deltas : m.deltas[i][1] \in Key /\ m.deltas[i][2] \in Value
  <2>1. DOMAIN m.deltas = 1 .. Len(m.deltas) /\ Len(m.deltas) \in Nat
    BY <1>1, LenProperties
  <2>2. \A i \in DOMAIN m.deltas : m.deltas[i] \in Key \X Value
    BY <1>1, <2>1, ElementOfSeq
  <2> QED
    BY <2>1, <2>2
<1>3. ASSUME NEW i \in DOMAIN m.deltas PROVE At(i) \in StoSteps
  <2>1. SetRecord(m.deltas[i][1], m.group, m.deltas[i][2]) \in Record
        /\ SetRecord(m.deltas[i][1], m.group, m.deltas[i][2]).type = "set"
    BY <1>1, <1>2, SetRecordTyped
  <2>2. At(i) \in Recording
    BY <2>1, RecordStepTyped
  <2> QED
    BY <2>2 DEF StoSteps
<1>4. W = [i \in 1 .. Len(m.deltas) |-> At(i)]
  BY <1>2 DEF Writes
<1> HIDE DEF At, W
<1>5. W \in Seq(StoSteps) /\ Len(W) = Len(m.deltas) /\ \A i \in DOMAIN m.deltas : W[i] = At(i)
  BY <1>2, <1>3, <1>4
<1>6. last \in StoSteps
  BY DEF StoSteps
<1>7. W \o <<last>> = Append(W, last)
  BY <1>5, <1>6, AppendIsConcat
<1>8. Append(W, last) \in Seq(StoSteps) /\ ToSet(Append(W, last)) = ToSet(W) \cup {last}
  BY <1>5, <1>6, OneMore
<1>9. ToSet(W) = {At(i) : i \in DOMAIN m.deltas}
  BY <1>2, <1>4 DEF ToSet
<1> QED
  BY <1>5, <1>7, <1>8, <1>9 DEF W, At

\* The steps of a dump, the devices in this order.
Scans(order, g) == [i \in DOMAIN order |-> [op |-> "scan", dev |-> order[i], group |-> g]]
CompletedStep   == Send("sto", DumpCompleted)
DumpSteps(order) ==
  Scans(order, "reported") \o <<CompletedStep>> \o Scans(order, "desired") \o <<CompletedStep>>

\* r is a sequence p of a elements and a sequence q of b elements in a row.
Row(r, p, a, q, b) ==
  /\ Len(r) = a + b
  /\ \A i \in 1 .. a : r[i] = p[i]
  /\ \A i \in 1 .. b : r[a + i] = q[i]

(* The elements of two sequences in a row.                                 *)
LEMMA InARow ==
  ASSUME NEW S, NEW p \in Seq(S), NEW q \in Seq(S)
  PROVE  p \o q \in Seq(S) /\ Row(p \o q, p, Len(p), q, Len(q))
<1>1. /\ p \o q \in Seq(S) /\ Len(p \o q) = Len(p) + Len(q)
      /\ \A i \in 1 .. Len(p) + Len(q) : (p \o q)[i] = IF i <= Len(p) THEN p[i] ELSE q[i - Len(p)]
      /\ Len(p) \in Nat /\ Len(q) \in Nat
  BY ConcatProperties, LenProperties
<1>2. ASSUME NEW i \in 1 .. Len(p) PROVE (p \o q)[i] = p[i]
  <2>1. i \in 1 .. Len(p) + Len(q) /\ i <= Len(p)
    BY <1>1
  <2> QED
    BY <1>1, <2>1
<1>3. ASSUME NEW i \in 1 .. Len(q) PROVE (p \o q)[Len(p) + i] = q[i]
  <2>1. /\ Len(p) + i \in 1 .. Len(p) + Len(q) /\ ~(Len(p) + i <= Len(p))
        /\ (Len(p) + i) - Len(p) = i
    BY <1>1
  <2>2. (p \o q)[Len(p) + i] = q[(Len(p) + i) - Len(p)]
    BY <1>1, <2>1
  <2> QED
    BY <2>1, <2>2
<1> QED
  BY <1>1, <1>2, <1>3 DEF Row

(* A dump scans every device for both groups, and tells twice that a group *)
(* is complete, the second time at its end.                                *)
LEMMA DumpStepsAre ==
  ASSUME NEW order \in Seq(Device), ToSet(order) = Device
  PROVE  /\ DumpSteps(order) \in Seq(LsdSteps)
         /\ \A d \in Device, g \in Group :
              [op |-> "scan", dev |-> d, group |-> g] \in ToSet(DumpSteps(order))
         /\ \A s \in ToSet(DumpSteps(order)) : s.op = "scan" \/ s = CompletedStep
         /\ DumpSteps(order) # <<>>
         /\ DumpSteps(order)[Len(DumpSteps(order))] = CompletedStep
         /\ \E n \in Nat : {i \in DOMAIN DumpSteps(order) : DumpSteps(order)[i] = CompletedStep}
                             = {n + 1, n + n + 2}
<1> DEFINE n == Len(order)
           D == DumpSteps(order)
           R == Scans(order, "reported")
           W == Scans(order, "desired")
           C == <<CompletedStep>>
<1>1. n \in Nat /\ DOMAIN order = 1 .. n /\ \A i \in 1 .. n : order[i] \in Device
  BY LenProperties, ElementOfSeq
<1>2. CompletedStep \in LsdSteps /\ CompletedStep.op = "send"
  BY SendIs DEF CompletedStep, LsdSteps
<1>3. ASSUME NEW g \in Group
      PROVE  /\ Scans(order, g) \in Seq(LsdSteps) /\ Len(Scans(order, g)) = n
             /\ \A i \in 1 .. n : Scans(order, g)[i] = [op |-> "scan", dev |-> order[i], group |-> g]
  <2>1. \A i \in 1 .. n : [op |-> "scan", dev |-> order[i], group |-> g] \in LsdSteps
    BY <1>1 DEF Scanning, LsdSteps
  <2> QED
    BY <1>1, <2>1 DEF Scans
<1>4. /\ R \in Seq(LsdSteps) /\ W \in Seq(LsdSteps) /\ Len(R) = n /\ Len(W) = n
      /\ \A i \in 1 .. n : R[i] = [op |-> "scan", dev |-> order[i], group |-> "reported"]
      /\ \A i \in 1 .. n : W[i] = [op |-> "scan", dev |-> order[i], group |-> "desired"]
  BY <1>3 DEF Group
<1>5. C \in Seq(LsdSteps) /\ Len(C) = 1 /\ C[1] = CompletedStep
  BY <1>2
<1>6. D = ((R \o C) \o W) \o C
  BY DEF DumpSteps
<1> HIDE DEF n, D, R, W, C
<1>7. /\ R \o C \in Seq(LsdSteps) /\ Len(R \o C) = n + 1
      /\ \A i \in 1 .. n : (R \o C)[i] = R[i]
      /\ (R \o C)[n + 1] = CompletedStep
  <2>1. R \o C \in Seq(LsdSteps) /\ Row(R \o C, R, n, C, 1)
    BY <1>4, <1>5, InARow
  <2>2. 1 \in 1 .. 1
    OBVIOUS
  <2> QED
    BY <1>5, <2>1, <2>2 DEF Row
<1>8. /\ (R \o C) \o W \in Seq(LsdSteps) /\ Len((R \o C) \o W) = n + n + 1
      /\ \A i \in 1 .. n : ((R \o C) \o W)[i] = R[i]
      /\ ((R \o C) \o W)[n + 1] = CompletedStep
      /\ \A i \in 1 .. n : ((R \o C) \o W)[(n + 1) + i] = W[i]
  <2> DEFINE Q == R \o C
  <2>1. Q \in Seq(LsdSteps) /\ Len(Q) = n + 1
    BY <1>7
  <2>2. Q[n + 1] = CompletedStep /\ \A i \in 1 .. n : Q[i] = R[i]
    BY <1>7
  <2> HIDE DEF Q
  <2>3. Q \o W \in Seq(LsdSteps) /\ Row(Q \o W, Q, n + 1, W, n)
    BY <1>4, <2>1, InARow
  <2>4. (n + 1) + n = n + n + 1 /\ n + 1 \in 1 .. n + 1 /\ \A i \in 1 .. n : i \in 1 .. n + 1
    BY <1>1
  <2> QED
    BY <2>2, <2>3, <2>4 DEF Q, Row
<1>9. /\ D \in Seq(LsdSteps) /\ Len(D) = n + n + 2
      /\ \A i \in 1 .. n : D[i] = R[i]
      /\ D[n + 1] = CompletedStep
      /\ \A i \in 1 .. n : D[(n + 1) + i] = W[i]
      /\ D[n + n + 2] = CompletedStep
  <2> DEFINE Q == (R \o C) \o W
  <2>1. Q \in Seq(LsdSteps) /\ Len(Q) = n + n + 1
    BY <1>8
  <2>2. /\ \A i \in 1 .. n : Q[i] = R[i]
        /\ Q[n + 1] = CompletedStep
        /\ \A i \in 1 .. n : Q[(n + 1) + i] = W[i]
    BY <1>8
  <2>3. D = Q \o C
    BY <1>6
  <2> HIDE DEF Q
  <2>4. /\ D \in Seq(LsdSteps) /\ Len(D) = (n + n + 1) + 1
        /\ \A i \in 1 .. n + n + 1 : D[i] = Q[i]
        /\ D[(n + n + 1) + 1] = CompletedStep
    <3>1. Q \o C \in Seq(LsdSteps) /\ Row(Q \o C, Q, n + n + 1, C, 1)
      BY <1>5, <2>1, InARow
    <3>2. 1 \in 1 .. 1
      OBVIOUS
    <3> QED
      BY <1>5, <2>3, <3>1, <3>2 DEF Row
  <2>5. /\ (n + n + 1) + 1 = n + n + 2 /\ n + 1 \in 1 .. n + n + 1
        /\ \A i \in 1 .. n : i \in 1 .. n + n + 1 /\ (n + 1) + i \in 1 .. n + n + 1
    BY <1>1
  <2> QED
    BY <2>2, <2>4, <2>5
<1>10. DOMAIN D = 1 .. n + n + 2 /\ D # <<>>
  BY <1>1, <1>9, LenProperties, EmptySeq
<1>11. ASSUME NEW d \in Device, NEW g \in Group
       PROVE  [op |-> "scan", dev |-> d, group |-> g] \in ToSet(D)
  <2>1. PICK i \in 1 .. n : order[i] = d
    BY <1>1 DEF ToSet
  <2>2. i \in DOMAIN D /\ (n + 1) + i \in DOMAIN D
    BY <1>1, <1>10
  <2>3. CASE g = "reported"
    BY <1>4, <1>9, <2>1, <2>2, <2>3 DEF ToSet
  <2>4. CASE g = "desired"
    BY <1>4, <1>9, <2>1, <2>2, <2>4 DEF ToSet
  <2> QED
    BY <2>3, <2>4 DEF Group
<1>12. ASSUME NEW i \in DOMAIN D
       PROVE  \/ i \in {n + 1, n + n + 2} /\ D[i] = CompletedStep
              \/ i \notin {n + 1, n + n + 2} /\ D[i].op = "scan"
  <2>1. CASE i <= n
    <3>1. i \notin {n + 1, n + n + 2} /\ i \in 1 .. n
      BY <1>1, <1>10, <2>1
    <3> QED
      BY <1>4, <1>9, <3>1
  <2>2. CASE i = n + 1 \/ i = n + n + 2
    BY <1>9, <2>2
  <2>3. CASE i > n + 1 /\ i < n + n + 2
    <3> DEFINE j == i - (n + 1)
    <3>1. j \in 1 .. n /\ i = (n + 1) + j /\ i \notin {n + 1, n + n + 2}
      BY <1>1, <1>10, <2>3
    <3> HIDE DEF j
    <3> QED
      BY <1>4, <1>9, <3>1
  <2> QED
    BY <1>1, <1>10, <2>1, <2>2, <2>3
<1>13. {i \in DOMAIN D : D[i] = CompletedStep} = {n + 1, n + n + 2}
  <2>1. CompletedStep.op # "scan"
    BY <1>2
  <2>2. n + 1 \in DOMAIN D /\ n + n + 2 \in DOMAIN D
    BY <1>1, <1>10
  <2> QED
    BY <1>12, <2>1, <2>2
<1>14. D[Len(D)] = CompletedStep
  BY <1>1, <1>9, <1>10, <1>12
<1>15. \A s \in ToSet(D) : s.op = "scan" \/ s = CompletedStep
  BY <1>12 DEF ToSet
<1> QED
  BY <1>1, <1>9, <1>10, <1>11, <1>13, <1>14, <1>15 DEF D
----------------------------------------------------------------------------
(* The fields of a message, and of a step.                                 *)
LEMMA MessageIs ==
  ASSUME NEW m \in StoMessage
  PROVE  /\ m.type \in {"delta", "propertyDeleted", "thingDeleted", "dumpCompleted"}
         /\ m.type = "delta" => m \in DeltaMessage /\ m.group \in Group /\ m.deltas \in Seq(Key \X Value)
         /\ m.type = "propertyDeleted" => m.key \in Key
         /\ m.type = "thingDeleted" => m.dev \in Device
         /\ m.type = "dumpCompleted" => m = DumpCompleted
<1>1. CASE m \in DeltaMessage
  BY <1>1 DEF DeltaMessage
<1>2. CASE m \in [type : {"propertyDeleted"}, key : Key]
  BY <1>2
<1>3. CASE m \in [type : {"thingDeleted"}, dev : Device]
  BY <1>3
<1>4. CASE m = DumpCompleted
  BY <1>4 DEF DumpCompleted
<1> QED
  BY <1>1, <1>2, <1>3, <1>4, Zenon DEF StoMessage, Deletion

\* Which thread has a step of this kind to do, and its fields.
StepFields(t, s) ==
  /\ s.op \in {"notify", "announce", "subscribe", "clear", "destroy", "send",
               "record", "consolidate", "newLog", "scan"}
  /\ s.op \in {"notify", "announce", "subscribe"} => t \in Client /\ s.key \in Key /\ s.group \in Group
  /\ s.op = "notify" => s.value \in Value
  /\ s.op \in {"announce", "subscribe"} => t = "handler" /\ s = [op |-> s.op, key |-> s.key, group |-> s.group]
  /\ s.op \in {"clear", "destroy"} => t = "handler" /\ s.dev \in Device
  /\ s.op = "send" /\ t = "sto" => s = Send("lsd", DumpRequest)
  /\ s.op = "send" /\ t # "sto" => s.to = "sto" /\ s.msg \in StoMessage /\ s = Send("sto", s.msg)
  /\ s.op = "send" /\ t = "handler" => s.msg \in DeltaMessage \cup Deletion
  /\ s.op = "send" /\ t = "cloud" => s.msg \in DeltaMessage
  /\ s.op = "send" /\ t = "lsd" => s.msg \in DeltaMessage \cup {DumpCompleted}
  /\ s.op = "record" => t = "sto" /\ s.rec \in Record /\ s.rec.type # "torn" /\ s = RecordStep(s.rec)
  /\ s.op = "consolidate" => t = "sto" /\ s = [op |-> "consolidate"]
  /\ s.op = "newLog" => t = "sto" /\ s = NewLogStep
  /\ s.op = "scan" => /\ t = "lsd" /\ s.dev \in Device /\ s.group \in Group
                      /\ s = [op |-> "scan", dev |-> s.dev, group |-> s.group]

LEMMA StepIs ==
  ASSUME NEW t \in Thread, NEW s \in StepsOf(t)
  PROVE  StepFields(t, s)
<1>1. ASSUME s \in Notifying, t \in Client PROVE StepFields(t, s)
  BY <1>1 DEF StepFields, Notifying
<1>2. ASSUME s \in Creating, t = "handler" PROVE StepFields(t, s)
  BY <1>2 DEF StepFields, Creating, Client
<1>3. ASSUME s \in Destroying, t = "handler" PROVE StepFields(t, s)
  BY <1>3 DEF StepFields, Destroying
<1>4. ASSUME NEW ms \in SUBSET StoMessage, s \in Sending(ms), t # "sto",
             t = "handler" => ms \subseteq DeltaMessage \cup Deletion,
             t = "cloud" => ms \subseteq DeltaMessage,
             t = "lsd" => ms \subseteq DeltaMessage \cup {DumpCompleted}
      PROVE  StepFields(t, s)
  BY <1>4 DEF StepFields, Sending, Send
<1>5. ASSUME s \in Recording, t = "sto" PROVE StepFields(t, s)
  <2>1. s.op = "record" /\ s.rec \in Record /\ s.rec.type # "torn" /\ s = RecordStep(s.rec)
    BY <1>5 DEF Recording, RecordStep
  <2> QED
    BY <1>5, <2>1 DEF StepFields
<1>6. ASSUME s \in {[op |-> "consolidate"], NewLogStep, Send("lsd", DumpRequest)}, t = "sto"
      PROVE  StepFields(t, s)
  BY <1>6 DEF StepFields, NewLogStep, Send
<1>7. ASSUME s \in Scanning, t = "lsd" PROVE StepFields(t, s)
  BY <1>7 DEF StepFields, Scanning
<1>8. /\ DeltaMessage \cup Deletion \in SUBSET StoMessage /\ DeltaMessage \in SUBSET StoMessage
      /\ DeltaMessage \cup {DumpCompleted} \in SUBSET StoMessage
  BY DEF StoMessage
<1>9. CASE t = "handler"
  BY <1>1, <1>2, <1>3, <1>4, <1>8, <1>9, StepsAre DEF HandlerSteps
<1>10. CASE t = "cloud"
  BY <1>1, <1>4, <1>8, <1>10, StepsAre DEF CloudSteps
<1>11. CASE t = "sto"
  BY <1>5, <1>6, <1>11, StepsAre DEF StoSteps
<1>12. CASE t = "lsd"
  BY <1>4, <1>7, <1>8, <1>12, StepsAre DEF LsdSteps
<1> QED
  BY <1>9, <1>10, <1>11, <1>12, StepsAre

\* t is about to do s.
Does(t, s) == s = Head(todo[t]) /\ s \in StepsOf(t) /\ s \in Steps(t) /\ StepFields(t, s)

(* A thread that does something has a first step, and the logs are loaded. *)
LEMMA DoingIs ==
  ASSUME TodoTyped, Resting, NEW t \in Thread, NEW op, Doing(t, op)
  PROVE  /\ todo[t] # <<>> /\ phase = "run"
         /\ Head(todo[t]).op = op /\ Does(t, Head(todo[t]))
<1>1. todo[t] # <<>> /\ Head(todo[t]).op = op
  BY DEF Doing
<1> QED
  BY <1>1, FirstStep, StepIs DEF Resting, Does
----------------------------------------------------------------------------
(* Types, action by action.                                                *)

(* The handler's deletions stay right while its steps do, and no property  *)
(* is created.                                                             *)
LEMMA HandlerKeeps ==
  ASSUME HandlerDeletes, todo'["handler"] = todo["handler"], DOMAIN shadow' \subseteq DOMAIN shadow
  PROVE  HandlerDeletes'
<1>1. Steps("handler")' = Steps("handler")
  BY DEF Steps
<1>2. \A d : KeysOf(d, shadow) = {} => KeysOf(d, shadow') = {}
  BY DEF KeysOf
<1>3. CASE \A s \in Steps("handler") :
             /\ s.op \notin {"clear", "destroy"}
             /\ s.op = "send" => \A k \in DOMAIN shadow : ~Deletes(s.msg, k)
  BY <1>1, <1>3 DEF HandlerDeletes
<1>4. CASE \E d \in Device : todo["handler"] = <<ClearStep(d), DestroyStep(d)>>
  BY <1>4 DEF HandlerDeletes
<1>5. CASE \E d \in Device : todo["handler"] = <<DestroyStep(d)>> /\ KeysOf(d, shadow) = {}
  BY <1>2, <1>5 DEF HandlerDeletes
<1> QED
  BY <1>3, <1>4, <1>5 DEF HandlerDeletes

\* A step of the handler that destroys and deletes nothing in the shadow.
Harmless(s) == /\ s.op \notin {"clear", "destroy"}
               /\ s.op = "send" => \A k \in DOMAIN shadow : ~Deletes(s.msg, k)

(* A handler that is not destroying anything goes on with fewer steps, or  *)
(* with one that deletes nothing.                                          *)
LEMMA HandlerGoesOn ==
  ASSUME HandlerDeletes, TodoTyped, todo["handler"] # <<>>,
         Head(todo["handler"]).op \notin {"clear", "destroy"}, DOMAIN shadow' \subseteq DOMAIN shadow,
         \A s \in Steps("handler")' : s \in Steps("handler") \/ Harmless(s)
  PROVE  HandlerDeletes'
<1>1. ASSUME NEW d, todo["handler"] = <<ClearStep(d), DestroyStep(d)>> \/ todo["handler"] = <<DestroyStep(d)>>
      PROVE  FALSE
  <2>1. Head(todo["handler"]) = ClearStep(d) \/ Head(todo["handler"]) = DestroyStep(d)
    BY <1>1
  <2> QED
    BY <2>1 DEF ClearStep, DestroyStep
<1>2. \A s \in Steps("handler") :
        /\ s.op \notin {"clear", "destroy"}
        /\ s.op = "send" => \A k \in DOMAIN shadow : ~Deletes(s.msg, k)
  BY <1>1 DEF HandlerDeletes
<1>3. \A s \in Steps("handler")' :
        /\ s.op \notin {"clear", "destroy"}
        /\ s.op = "send" => \A k \in DOMAIN shadow' : ~Deletes(s.msg, k)
  BY <1>2 DEF Harmless
<1> QED
  BY <1>3 DEF HandlerDeletes

(* A call or a message begins while the logs are not being loaded.         *)
LEMMA IdleIs ==
  ASSUME NEW t \in Thread, Idle(t)
  PROVE  phase = "run" /\ todo[t] = <<>> /\ Steps(t) = {}
BY NoElements DEF Idle, Steps

(* What a call does outside its thread's steps and the shadow.             *)
LEMMA StartOpLeaves ==
  ASSUME TodoTyped, NEW t \in Thread, NEW q \in Seq(StepsOf(t)), StartOp(t, q)
  PROVE  /\ TodoTyped' /\ phase = "run"
         /\ todo[t] = <<>> /\ Steps(t) = {} /\ todo'[t] = q /\ Steps(t)' = ToSet(q)
         /\ \A u \in Thread \ {t} : todo'[u] = todo[u] /\ Steps(u)' = Steps(u)
         /\ queue' = queue /\ arc' = arc /\ cur' = cur /\ phase' = phase
         /\ consolidate' = consolidate /\ dumpCount' = dumpCount /\ crashes' = crashes
<1>1. Idle(t) /\ Begin(t, q)
  BY DEF StartOp
<1>2. /\ queue' = queue /\ arc' = arc /\ cur' = cur /\ phase' = phase
      /\ consolidate' = consolidate /\ dumpCount' = dumpCount /\ crashes' = crashes
  BY DEF StartOp, store, boot
<1>3. phase = "run" /\ todo[t] = <<>> /\ Steps(t) = {}
  BY <1>1, IdleIs
<1>4. /\ TodoTyped' /\ todo'[t] = q /\ Steps(t)' = ToSet(q)
      /\ \A u \in Thread \ {t} : todo'[u] = todo[u] /\ Steps(u)' = Steps(u)
  BY <1>1, BeginLeaves
<1> QED
  BY <1>2, <1>3, <1>4

(* A sequence of two elements, or of four.                                 *)
LEMMA TwoElements ==
  ASSUME NEW S, NEW a, NEW b, {a, b} \subseteq S
  PROVE  <<a, b>> \in Seq(S) /\ ToSet(<<a, b>>) = {a, b}
<1>1. DOMAIN <<a, b>> = 1 .. 2 /\ <<a, b>>[1] = a /\ <<a, b>>[2] = b /\ <<a, b>> \in Seq(S)
  OBVIOUS
<1>2. \A i \in 1 .. 2 : i = 1 \/ i = 2
  OBVIOUS
<1> QED
  BY <1>1, <1>2 DEF ToSet

LEMMA FourElements ==
  ASSUME NEW S, NEW a, NEW b, NEW c, NEW d, {a, b, c, d} \subseteq S
  PROVE  <<a, b, c, d>> \in Seq(S) /\ ToSet(<<a, b, c, d>>) = {a, b, c, d}
<1>1. DOMAIN <<a, b, c, d>> = 1 .. 4
  OBVIOUS
<1>2. \A i \in 1 .. 4 : i = 1 \/ i = 2 \/ i = 3 \/ i = 4
  OBVIOUS
<1>3. <<a, b, c, d>>[1] = a /\ <<a, b, c, d>>[2] = b /\ <<a, b, c, d>>[3] = c /\ <<a, b, c, d>>[4] = d
  OBVIOUS
<1>4. <<a, b, c, d>> \in Seq(S)
  OBVIOUS
<1> QED
  BY <1>1, <1>2, <1>3, <1>4 DEF ToSet

(* The four steps of a creation.                                           *)
CreationSteps(k) ==
  <<[op |-> "announce", key |-> k, group |-> "desired"],
    [op |-> "announce", key |-> k, group |-> "reported"],
    [op |-> "subscribe", key |-> k, group |-> "desired"],
    [op |-> "subscribe", key |-> k, group |-> "reported"]>>

LEMMA CreationIs ==
  ASSUME NEW k \in Key
  PROVE  /\ CreationSteps(k) \in Seq(StepsOf("handler"))
         /\ ToSet(CreationSteps(k)) = [op : {"announce", "subscribe"}, key : {k}, group : Group]
<1> DEFINE a == [op |-> "announce", key |-> k, group |-> "desired"]
           b == [op |-> "announce", key |-> k, group |-> "reported"]
           c == [op |-> "subscribe", key |-> k, group |-> "desired"]
           d == [op |-> "subscribe", key |-> k, group |-> "reported"]
<1>1. {a, b, c, d} \subseteq StepsOf("handler")
  BY StepsAre DEF HandlerSteps, Creating, Group
<1>2. {a, b, c, d} = [op : {"announce", "subscribe"}, key : {k}, group : Group]
  <2>1. \A s \in [op : {"announce", "subscribe"}, key : {k}, group : Group] :
          s = [op |-> s.op, key |-> s.key, group |-> s.group]
          /\ s.op \in {"announce", "subscribe"} /\ s.key = k /\ s.group \in Group
    OBVIOUS
  <2>2. [op : {"announce", "subscribe"}, key : {k}, group : Group] \subseteq {a, b, c, d}
    BY <2>1 DEF Group
  <2>3. ASSUME NEW op \in {"announce", "subscribe"}, NEW g \in Group
        PROVE  [op |-> op, key |-> k, group |-> g]
                 \in [op : {"announce", "subscribe"}, key : {k}, group : Group]
    OBVIOUS
  <2>4. {a, b, c, d} \subseteq [op : {"announce", "subscribe"}, key : {k}, group : Group]
    BY <2>3 DEF Group
  <2> QED
    BY <2>2, <2>4
<1>3. CreationSteps(k) = <<a, b, c, d>>
  BY DEF CreationSteps
<1> HIDE DEF a, b, c, d
<1>4. <<a, b, c, d>> \in Seq(StepsOf("handler")) /\ ToSet(<<a, b, c, d>>) = {a, b, c, d}
  BY <1>1, FourElements
<1> QED
  BY <1>2, <1>3, <1>4
(* A property gets a value, or new ones.                                   *)
LEMMA WithIs ==
  ASSUME NEW props \in Props, NEW k \in Key, NEW x \in [Group -> Value]
  PROVE  /\ With(props, k, x) \in Props /\ DOMAIN With(props, k, x) = DOMAIN props \cup {k}
         /\ With(props, k, x)[k] = x
         /\ \A j \in DOMAIN props \ {k} : With(props, k, x)[j] = props[j]
<1>1. With(props, k, x) = [y \in DOMAIN props \cup {k} |-> IF y = k THEN x ELSE props[y]]
  BY DEF With
<1>2. DOMAIN props \cup {k} \in SUBSET Key /\ \A j \in DOMAIN props : props[j] \in [Group -> Value]
  BY PropsAre
<1>3. With(props, k, x) \in [DOMAIN props \cup {k} -> [Group -> Value]]
  BY <1>1, <1>2
<1> QED
  BY <1>1, <1>2, <1>3, ArePropsIf

(* A property leaves the shadow.                                           *)
LEMMA UnlinkLeaves ==
  ASSUME MemTyped, NEW k, k \in DOMAIN shadow, Unlink(k), objects' = objects
  PROVE  /\ MemTyped' /\ DOMAIN shadow' = DOMAIN shadow \ {k}
         /\ \A j \in DOMAIN shadow' : shadow'[j] = shadow[j]
         /\ subs' = {s \in subs : s[1] # k} /\ raced' = NotRaced(k, Group)
<1> DEFINE K == DOMAIN shadow \ {k}
<1>1. shadow' = Restrict(shadow, K) /\ subs' = {s \in subs : s[1] # k} /\ raced' = NotRaced(k, Group)
  BY DEF Unlink
<1>2. shadow \in Props /\ K \subseteq DOMAIN shadow
  BY DEF MemTyped
<1> HIDE DEF K
<1>3. shadow' \in Props /\ DOMAIN shadow' = K /\ \A j \in K : shadow'[j] = shadow[j]
  BY <1>1, <1>2, RestrictedIs
<1>4. subs' \subseteq K \X Group
  BY <1>1 DEF MemTyped, K
<1>5. MemTyped'
  BY <1>2, <1>3, <1>4 DEF MemTyped
<1> QED
  BY <1>1, <1>3, <1>5 DEF K

(* What a step of a thread leaves alone keeps its type.                    *)
LEMMA TypesKept ==
  ASSUME Typed
  PROVE  /\ todo' = todo => TodoTyped'
         /\ queue' = queue => QueueTyped'
         /\ objects' = objects /\ shadow' = shadow /\ subs' = subs => MemTyped'
         /\ arc' = arc /\ cur' = cur /\ phase' = phase /\ consolidate' = consolidate
              /\ dumpCount' = dumpCount => RestTyped'
         /\ TodoTyped /\ QueueTyped /\ MemTyped /\ RestTyped
BY DEF Typed, TodoTyped, QueueTyped, MemTyped, RestTyped

LEMMA CreatePropertySound ==
  ASSUME Sound, NEW k \in Key, NEW v \in Value, CreateProperty(k, v)
  PROVE  /\ Sound' /\ phase = "run"
         /\ todo["handler"] = <<>> /\ Steps("handler") = {}
         /\ Steps("handler")' = [op : {"announce", "subscribe"}, key : {k}, group : Group]
         /\ \A u \in Thread \ {"handler"} : todo'[u] = todo[u] /\ Steps(u)' = Steps(u)
         /\ queue' = queue /\ arc' = arc /\ cur' = cur /\ phase' = phase
         /\ dumpCount' = dumpCount /\ crashes' = crashes
         /\ DOMAIN shadow' = DOMAIN shadow \cup {k} /\ shadow'[k] = [g \in Group |-> v]
         /\ \A j \in DOMAIN shadow : shadow'[j] = shadow[j]
         /\ k \notin DOMAIN shadow /\ subs' = subs
         /\ raced' = raced \cup Races("handler", k)
<1>1. Typed
  BY DEF Sound
<1>2. StartOp("handler", CreationSteps(k))
  BY DEF CreateProperty, CreationSteps
<1>3. k \notin DOMAIN shadow /\ shadow' = With(shadow, k, [g \in Group |-> v])
      /\ objects' = objects \cup {k[1]} /\ subs' = subs
      /\ raced' = raced \cup Races("handler", k)
  BY DEF CreateProperty
<1>4. CreationSteps(k) \in Seq(StepsOf("handler"))
      /\ ToSet(CreationSteps(k)) = [op : {"announce", "subscribe"}, key : {k}, group : Group]
  BY CreationIs
<1>5. "handler" \in Thread /\ TodoTyped /\ MemTyped
  BY <1>1, StepsAre, TypesKept
<1>6. /\ TodoTyped' /\ phase = "run" /\ todo["handler"] = <<>> /\ Steps("handler") = {}
      /\ Steps("handler")' = ToSet(CreationSteps(k))
      /\ \A u \in Thread \ {"handler"} : todo'[u] = todo[u] /\ Steps(u)' = Steps(u)
      /\ queue' = queue /\ arc' = arc /\ cur' = cur /\ phase' = phase
      /\ consolidate' = consolidate /\ dumpCount' = dumpCount /\ crashes' = crashes
  BY <1>2, <1>4, <1>5, StartOpLeaves
<1>7. shadow \in Props /\ [g \in Group |-> v] \in [Group -> Value]
  BY <1>5 DEF MemTyped
<1>8. /\ shadow' \in Props /\ DOMAIN shadow' = DOMAIN shadow \cup {k}
      /\ shadow'[k] = [g \in Group |-> v]
      /\ \A j \in DOMAIN shadow \ {k} : shadow'[j] = shadow[j]
  BY <1>3, <1>7, WithIs
<1>9. MemTyped'
  BY <1>3, <1>5, <1>8 DEF MemTyped, Key
<1>10. Typed'
  BY <1>1, <1>6, <1>9, TypesKept DEF Typed
<1>11. Resting'
  BY <1>6 DEF Resting
<1>12. HandlerDeletes'
  <2>1. \A s \in [op : {"announce", "subscribe"}, key : {k}, group : Group] : s.op \in {"announce", "subscribe"}
    OBVIOUS
  <2>2. Steps("handler")' = [op : {"announce", "subscribe"}, key : {k}, group : Group]
    BY <1>4, <1>6
  <2>3. \A s \in Steps("handler")' : s.op \notin {"clear", "destroy"} /\ s.op # "send"
    BY <2>1, <2>2
  <2> QED
    BY <2>3 DEF HandlerDeletes
<1> QED
  BY <1>3, <1>4, <1>6, <1>8, <1>10, <1>11, <1>12 DEF Sound
LEMMA SetValueSound ==
  ASSUME Sound, NEW t \in Thread, NEW k \in Key, NEW g \in Group, NEW v \in Value, SetValue(t, k, g, v)
  PROVE  /\ Sound' /\ phase = "run" /\ t \in Client
         /\ todo[t] = <<>> /\ Steps(t) = {}
         /\ Steps(t)' = {[op |-> "notify", key |-> k, group |-> g, value |-> v]}
         /\ \A u \in Thread \ {t} : todo'[u] = todo[u] /\ Steps(u)' = Steps(u)
         /\ queue' = queue /\ arc' = arc /\ cur' = cur /\ phase' = phase
         /\ dumpCount' = dumpCount /\ crashes' = crashes
         /\ k \in DOMAIN shadow /\ DOMAIN shadow' = DOMAIN shadow /\ shadow'[k][g] = v
         /\ \A j \in DOMAIN shadow, h \in Group : <<j, h>> # <<k, g>> => shadow'[j][h] = shadow[j][h]
         /\ subs' = subs
         /\ raced' = NotRaced(k, {g}) \cup (Races(t, k) \cap {<<k, g>>})
<1> DEFINE n == [op |-> "notify", key |-> k, group |-> g, value |-> v]
<1>1. Typed
  BY DEF Sound
<1>2. StartOp(t, <<n>>)
  BY DEF SetValue
<1>3. /\ k \in DOMAIN shadow /\ shadow' = [shadow EXCEPT ![k][g] = v]
      /\ objects' = objects /\ subs' = subs
      /\ raced' = NotRaced(k, {g}) \cup (Races(t, k) \cap {<<k, g>>})
      /\ t = (IF g = "reported" THEN "handler" ELSE "cloud")
  BY DEF SetValue
<1>4. t \in Client /\ n \in StepsOf(t)
  <2>1. n \in Notifying
    BY DEF Notifying
  <2>2. t = "handler" \/ t = "cloud"
    BY <1>3
  <2> QED
    BY <2>1, <2>2, StepsAre DEF HandlerSteps, CloudSteps, Client
<1>5. TodoTyped /\ MemTyped
  BY <1>1, TypesKept
<1> HIDE DEF n
<1>6. <<n>> \in Seq(StepsOf(t)) /\ ToSet(<<n>>) = {n}
  BY <1>4 DEF ToSet
<1>7. /\ TodoTyped' /\ phase = "run" /\ todo[t] = <<>> /\ Steps(t) = {}
      /\ Steps(t)' = ToSet(<<n>>)
      /\ \A u \in Thread \ {t} : todo'[u] = todo[u] /\ Steps(u)' = Steps(u)
      /\ queue' = queue /\ arc' = arc /\ cur' = cur /\ phase' = phase
      /\ consolidate' = consolidate /\ dumpCount' = dumpCount /\ crashes' = crashes
  BY <1>2, <1>5, <1>6, StartOpLeaves
<1>8. /\ shadow' \in Props /\ DOMAIN shadow' = DOMAIN shadow /\ shadow'[k][g] = v
      /\ \A j \in DOMAIN shadow : j # k => shadow'[j] = shadow[j]
      /\ \A h \in Group : h # g => shadow'[k][h] = shadow[k][h]
  <2>1. shadow \in Props
    BY <1>5 DEF MemTyped
  <2>2. DOMAIN shadow \in SUBSET Key /\ \A j \in DOMAIN shadow : shadow[j] \in [Group -> Value]
    BY <2>1, PropsAre
  <2>3. shadow' = [shadow EXCEPT ![k][g] = v] /\ k \in DOMAIN shadow
    BY <1>3
  <2>4. shadow' \in [DOMAIN shadow -> [Group -> Value]]
    BY <2>1, <2>2, <2>3 DEF Props
  <2>5. shadow' \in Props
    BY <2>2, <2>4, ArePropsIf
  <2>6. /\ shadow'[k][g] = v
        /\ \A j \in DOMAIN shadow : j # k => shadow'[j] = shadow[j]
        /\ \A h \in Group : h # g => shadow'[k][h] = shadow[k][h]
    BY <2>2, <2>3
  <2> QED
    BY <2>4, <2>5, <2>6
<1>9. MemTyped'
  BY <1>3, <1>5, <1>8 DEF MemTyped
<1>10. Typed'
  BY <1>1, <1>7, <1>9, TypesKept DEF Typed
<1>11. Resting'
  BY <1>7 DEF Resting
<1>12. HandlerDeletes'
  <2>1. CASE t = "handler"
    <3>1. \A s \in Steps("handler")' : s.op = "notify"
      BY <1>6, <1>7, <2>1 DEF n
    <3>2. \A s \in Steps("handler")' : s.op \notin {"clear", "destroy"} /\ s.op # "send"
      BY <3>1
    <3> QED
      BY <3>2 DEF HandlerDeletes
  <2>2. CASE t # "handler"
    <3>1. todo'["handler"] = todo["handler"] /\ DOMAIN shadow' = DOMAIN shadow
      BY <1>7, <1>8, <2>2, StepsAre
    <3> QED
      BY <3>1, HandlerKeeps DEF Sound
  <2> QED
    BY <2>1, <2>2
<1>13. \A j \in DOMAIN shadow, h \in Group : <<j, h>> # <<k, g>> => shadow'[j][h] = shadow[j][h]
  BY <1>8
<1> QED
  BY <1>3, <1>4, <1>6, <1>7, <1>8, <1>10, <1>11, <1>12, <1>13 DEF Sound, n

LEMMA RemovePropertySound ==
  ASSUME Sound, NEW k \in Key, RemoveProperty(k)
  PROVE  /\ Sound' /\ phase = "run"
         /\ todo["handler"] = <<>> /\ Steps("handler") = {}
         /\ Steps("handler")' = {Send("sto", [type |-> "propertyDeleted", key |-> k])}
         /\ \A u \in Thread \ {"handler"} : todo'[u] = todo[u] /\ Steps(u)' = Steps(u)
         /\ queue' = queue /\ arc' = arc /\ cur' = cur /\ phase' = phase
         /\ dumpCount' = dumpCount /\ crashes' = crashes
         /\ k \in DOMAIN shadow /\ DOMAIN shadow' = DOMAIN shadow \ {k}
         /\ \A j \in DOMAIN shadow' : shadow'[j] = shadow[j]
         /\ subs' = {s \in subs : s[1] # k} /\ raced' = NotRaced(k, Group)
<1> DEFINE m == [type |-> "propertyDeleted", key |-> k]
           s == Send("sto", m)
<1>1. Typed
  BY DEF Sound
<1>2. StartOp("handler", <<s>>) /\ k \in DOMAIN shadow /\ Unlink(k) /\ objects' = objects
  BY DEF RemoveProperty
<1>3. m \in Deletion
  BY DEF Deletion
<1>4. s \in StepsOf("handler") /\ s.op = "send" /\ s.msg = m
  <2> HIDE DEF m
  <2>1. s \in Sending(DeltaMessage \cup Deletion) /\ s.op = "send" /\ s.msg = m
    BY <1>3, SendIs
  <2> QED
    BY <2>1, StepsAre DEF HandlerSteps
<1>5. "handler" \in Thread /\ TodoTyped /\ MemTyped
  BY <1>1, StepsAre, TypesKept
<1> HIDE DEF s
<1>6. <<s>> \in Seq(StepsOf("handler")) /\ ToSet(<<s>>) = {s}
  BY <1>4 DEF ToSet
<1>7. /\ TodoTyped' /\ phase = "run" /\ todo["handler"] = <<>> /\ Steps("handler") = {}
      /\ Steps("handler")' = ToSet(<<s>>)
      /\ \A u \in Thread \ {"handler"} : todo'[u] = todo[u] /\ Steps(u)' = Steps(u)
      /\ queue' = queue /\ arc' = arc /\ cur' = cur /\ phase' = phase
      /\ consolidate' = consolidate /\ dumpCount' = dumpCount /\ crashes' = crashes
  BY <1>2, <1>5, <1>6, StartOpLeaves
<1>8. /\ MemTyped' /\ DOMAIN shadow' = DOMAIN shadow \ {k}
      /\ \A j \in DOMAIN shadow' : shadow'[j] = shadow[j]
      /\ subs' = {x \in subs : x[1] # k} /\ raced' = NotRaced(k, Group)
  BY <1>2, <1>5, UnlinkLeaves
<1>9. Typed'
  BY <1>1, <1>7, <1>8, TypesKept DEF Typed
<1>10. Resting'
  BY <1>7 DEF Resting
<1>11. HandlerDeletes'
  <2>1. \A j \in DOMAIN shadow' : ~Deletes(m, j)
    BY <1>8 DEF Deletes
  <2> HIDE DEF m
  <2>2. \A x \in Steps("handler")' : x.op = "send" /\ x.msg = m
    BY <1>4, <1>6, <1>7
  <2> QED
    BY <2>1, <2>2 DEF HandlerDeletes
<1> QED
  BY <1>2, <1>6, <1>7, <1>8, <1>9, <1>10, <1>11 DEF Sound, s

LEMMA DestroyDeviceSound ==
  ASSUME Sound, NEW d \in Device, DestroyDevice(d)
  PROVE  /\ Sound' /\ phase = "run"
         /\ todo["handler"] = <<>> /\ Steps("handler") = {}
         /\ Steps("handler")' = {ClearStep(d), DestroyStep(d)}
         /\ \A u \in Thread \ {"handler"} : todo'[u] = todo[u] /\ Steps(u)' = Steps(u)
         /\ queue' = queue /\ arc' = arc /\ cur' = cur /\ phase' = phase
         /\ dumpCount' = dumpCount /\ crashes' = crashes
         /\ objects' = objects /\ shadow' = shadow /\ subs' = subs /\ raced' = raced
         /\ MayDestroy
<1> DEFINE q == <<ClearStep(d), DestroyStep(d)>>
<1>1. Typed
  BY DEF Sound
<1>2. /\ StartOp("handler", q) /\ MayDestroy
      /\ objects' = objects /\ shadow' = shadow /\ subs' = subs /\ raced' = raced
  BY DEF DestroyDevice, ClearStep, DestroyStep, mem
<1>3. {ClearStep(d), DestroyStep(d)} \subseteq StepsOf("handler")
  BY StepsAre DEF HandlerSteps, Destroying, ClearStep, DestroyStep
<1>4. q \in Seq(StepsOf("handler")) /\ ToSet(q) = {ClearStep(d), DestroyStep(d)}
  BY <1>3, TwoElements
<1>5. "handler" \in Thread /\ TodoTyped
  BY <1>1, StepsAre, TypesKept
<1>6. /\ TodoTyped' /\ phase = "run" /\ todo["handler"] = <<>> /\ Steps("handler") = {}
      /\ todo'["handler"] = q /\ Steps("handler")' = ToSet(q)
      /\ \A u \in Thread \ {"handler"} : todo'[u] = todo[u] /\ Steps(u)' = Steps(u)
      /\ queue' = queue /\ arc' = arc /\ cur' = cur /\ phase' = phase
      /\ consolidate' = consolidate /\ dumpCount' = dumpCount /\ crashes' = crashes
  BY <1>2, <1>4, <1>5, StartOpLeaves
<1>7. Typed'
  BY <1>1, <1>2, <1>6, TypesKept DEF Typed
<1>8. Resting'
  BY <1>6 DEF Resting
<1>9. HandlerDeletes'
  BY <1>6 DEF HandlerDeletes
<1> QED
  BY <1>2, <1>4, <1>6, <1>7, <1>8, <1>9 DEF Sound
\* What a step leaves alone.
SameMem  == objects' = objects /\ shadow' = shadow /\ subs' = subs /\ raced' = raced
SameRest == /\ arc' = arc /\ cur' = cur /\ phase' = phase /\ consolidate' = consolidate
            /\ dumpCount' = dumpCount /\ crashes' = crashes

\* The first step of t gives way to those in X.
Goes(t, X) ==
  /\ \A u \in Thread \ {t} : todo'[u] = todo[u] /\ Steps(u)' = Steps(u)
  /\ \E rest : Steps(t) = {Head(todo[t])} \cup rest /\ Steps(t)' = X \cup rest

LEMMA DoneGoes ==
  ASSUME TodoTyped, NEW t \in Thread, todo[t] # <<>>, Done(t)
  PROVE  TodoTyped' /\ Goes(t, {}) /\ todo'[t] = Tail(todo[t])
<1>1. /\ TodoTyped'
      /\ \A u \in Thread \ {t} : todo'[u] = todo[u] /\ Steps(u)' = Steps(u)
      /\ todo'[t] = Tail(todo[t])
      /\ Steps(t) = {Head(todo[t])} \cup Steps(t)'
  BY DoneLeaves
<1>2. Steps(t)' = {} \cup Steps(t)'
  OBVIOUS
<1> QED
  BY <1>1, <1>2 DEF Goes

LEMMA InsteadGoes ==
  ASSUME TodoTyped, NEW t \in Thread, todo[t] # <<>>, NEW s \in StepsOf(t), Instead(t, s)
  PROVE  TodoTyped' /\ Goes(t, {s}) /\ todo'[t] = <<s>> \o Tail(todo[t])
BY InsteadLeaves DEF Goes

(* A thread whose first step is done leaves the handler's deletions right. *)
LEMMA GoesKeeps ==
  ASSUME Sound, NEW t \in Thread, todo[t] # <<>>, NEW X, Goes(t, X),
         Head(todo[t]).op \notin {"clear", "destroy"}, DOMAIN shadow' \subseteq DOMAIN shadow,
         t = "handler" => \A x \in X : Harmless(x)
  PROVE  HandlerDeletes'
<1>1. HandlerDeletes /\ TodoTyped
  BY DEF Sound, Typed
<1>2. CASE t = "handler"
  <2>1. \A s \in Steps("handler")' : s \in Steps("handler") \/ Harmless(s)
    BY <1>2 DEF Goes
  <2> QED
    BY <1>1, <1>2, <2>1, HandlerGoesOn
<1>3. CASE t # "handler"
  <2>1. todo'["handler"] = todo["handler"]
    BY <1>3, StepsAre DEF Goes
  <2> QED
    BY <1>1, <2>1, HandlerKeeps
<1> QED
  BY <1>2, <1>3
(* The types after a step of a thread that has not to do with destruction. *)
LEMMA StepSound ==
  ASSUME Sound, NEW t \in Thread, NEW op, Doing(t, op), op \notin {"clear", "destroy"},
         TodoTyped', MemTyped', QueueTyped', RestTyped', phase' = phase,
         DOMAIN shadow' \subseteq DOMAIN shadow,
         NEW X, Goes(t, X), t = "handler" => \A x \in X : Harmless(x)
  PROVE  Sound'
<1>1. TodoTyped /\ Resting
  BY DEF Sound, Typed
<1>2. todo[t] # <<>> /\ phase = "run" /\ Head(todo[t]).op = op
  BY <1>1, DoingIs
<1>3. HandlerDeletes'
  BY <1>2, GoesKeeps
<1>4. Resting'
  BY <1>2 DEF Resting
<1> QED
  BY <1>3, <1>4 DEF Sound, Typed

LEMMA AnnounceSound ==
  ASSUME Sound, NEW t \in Thread, Announce(t)
  PROVE  /\ Sound' /\ phase = "run" /\ t = "handler" /\ queue' = queue /\ SameMem /\ SameRest
         /\ \E k \in Key, g \in Group :
              /\ Head(todo[t]) = [op |-> "announce", key |-> k, group |-> g]
              /\ \/ k \notin DOMAIN shadow /\ Goes(t, {})
                 \/ /\ k \in DOMAIN shadow /\ shadow[k][g] \in Value
                    /\ Goes(t, {Send("sto", Delta(g, <<<<k, shadow[k][g]>>>>))})
<1> DEFINE s == Head(todo[t])
           m == Delta(s.group, <<<<s.key, shadow[s.key][s.group]>>>>)
<1>1. Typed /\ TodoTyped /\ MemTyped /\ Resting
  BY TypesKept DEF Sound
<1>2. Doing(t, "announce") /\ queue' = queue /\ SameMem /\ SameRest
  BY DEF Announce, SameMem, SameRest, mem, store, boot, used
<1>3. todo[t] # <<>> /\ phase = "run" /\ s.op = "announce" /\ StepFields(t, s)
  BY <1>1, <1>2, DoingIs DEF Does
<1>4. /\ t = "handler" /\ s.key \in Key /\ s.group \in Group
      /\ s = [op |-> "announce", key |-> s.key, group |-> s.group]
  BY <1>3 DEF StepFields
<1>5. IF s.key \in DOMAIN shadow THEN Instead(t, Send("sto", m)) ELSE Done(t)
  BY DEF Announce
<1> HIDE DEF s
<1>6. MemTyped' /\ QueueTyped' /\ RestTyped' /\ phase' = phase /\ DOMAIN shadow' \subseteq DOMAIN shadow
  BY <1>1, <1>2, TypesKept DEF SameMem, SameRest
<1>7. CASE s.key \in DOMAIN shadow
  <2>1. shadow[s.key][s.group] \in Value
    BY <1>1, <1>4, <1>7, PropsAre DEF MemTyped
  <2>2. m \in DeltaMessage /\ m.type = "delta"
    BY <1>4, <2>1, OneDeltaTyped
  <2> HIDE DEF m
  <2>3. Send("sto", m).op = "send" /\ Send("sto", m).msg = m /\ Send("sto", m) \in StepsOf(t)
    BY <1>4, <2>2, SendIs, StepsAre DEF HandlerSteps
  <2>4. TodoTyped' /\ Goes(t, {Send("sto", m)})
    BY <1>1, <1>3, <1>5, <1>7, <2>3, InsteadGoes
  <2>5. Harmless(Send("sto", m))
    BY <2>2, <2>3 DEF Harmless, Deletes
  <2>6. Sound'
    BY <1>2, <1>6, <2>4, <2>5, StepSound
  <2> QED
    BY <1>2, <1>3, <1>4, <1>7, <2>1, <2>4, <2>6 DEF m, s
<1>8. CASE s.key \notin DOMAIN shadow
  <2>1. TodoTyped' /\ Goes(t, {})
    BY <1>1, <1>3, <1>5, <1>8, DoneGoes
  <2>2. Sound'
    BY <1>2, <1>6, <2>1, StepSound
  <2> QED
    BY <1>2, <1>3, <1>4, <1>8, <2>1, <2>2 DEF s
<1> QED
  BY <1>7, <1>8

LEMMA SubscribeSound ==
  ASSUME Sound, NEW t \in Thread, Subscribe(t)
  PROVE  /\ Sound' /\ phase = "run" /\ t = "handler" /\ queue' = queue /\ SameRest
         /\ objects' = objects /\ shadow' = shadow /\ raced' = raced /\ Goes(t, {})
         /\ \E k \in Key, g \in Group :
              /\ Head(todo[t]) = [op |-> "subscribe", key |-> k, group |-> g]
              /\ subs' = IF k \in DOMAIN shadow THEN subs \cup {<<k, g>>} ELSE subs
<1> DEFINE s == Head(todo[t])
<1>1. Typed /\ TodoTyped /\ MemTyped /\ Resting
  BY TypesKept DEF Sound
<1>2. /\ Doing(t, "subscribe") /\ queue' = queue /\ SameRest /\ Done(t)
      /\ objects' = objects /\ shadow' = shadow /\ raced' = raced
      /\ subs' = IF s.key \in DOMAIN shadow THEN subs \cup {<<s.key, s.group>>} ELSE subs
  BY DEF Subscribe, SameRest, store, boot, used
<1>3. todo[t] # <<>> /\ phase = "run" /\ s.op = "subscribe" /\ StepFields(t, s)
  BY <1>1, <1>2, DoingIs DEF Does
<1>4. /\ t = "handler" /\ s.key \in Key /\ s.group \in Group
      /\ s = [op |-> "subscribe", key |-> s.key, group |-> s.group]
  BY <1>3 DEF StepFields
<1> HIDE DEF s
<1>5. MemTyped'
  BY <1>1, <1>2, <1>4 DEF MemTyped
<1>6. QueueTyped' /\ RestTyped' /\ phase' = phase /\ DOMAIN shadow' \subseteq DOMAIN shadow
  BY <1>1, <1>2, TypesKept DEF SameRest
<1>7. TodoTyped' /\ Goes(t, {})
  BY <1>1, <1>2, <1>3, DoneGoes
<1>8. Sound'
  BY <1>2, <1>5, <1>6, <1>7, StepSound
<1> QED
  BY <1>2, <1>3, <1>4, <1>7, <1>8 DEF s

LEMMA NotifySound ==
  ASSUME Sound, NEW t \in Thread, Notify(t)
  PROVE  /\ Sound' /\ phase = "run" /\ t \in Client /\ queue' = queue /\ SameMem /\ SameRest
         /\ \E k \in Key, g \in Group, v \in Value :
              /\ Head(todo[t]).op = "notify" /\ Head(todo[t]).key = k
              /\ Head(todo[t]).group = g /\ Head(todo[t]).value = v
              /\ \/ <<k, g>> \notin subs /\ Goes(t, {})
                 \/ <<k, g>> \in subs /\ Goes(t, {Send("sto", Delta(g, <<<<k, v>>>>))})
<1> DEFINE s == Head(todo[t])
           m == Delta(s.group, <<<<s.key, s.value>>>>)
<1>1. Typed /\ TodoTyped /\ MemTyped /\ Resting
  BY TypesKept DEF Sound
<1>2. Doing(t, "notify") /\ queue' = queue /\ SameMem /\ SameRest
  BY DEF Notify, SameMem, SameRest, mem, store, boot, used
<1>3. todo[t] # <<>> /\ phase = "run" /\ s.op = "notify" /\ StepFields(t, s)
  BY <1>1, <1>2, DoingIs DEF Does
<1>4. t \in Client /\ s.key \in Key /\ s.group \in Group /\ s.value \in Value
  BY <1>3 DEF StepFields
<1>5. IF <<s.key, s.group>> \in subs THEN Instead(t, Send("sto", m)) ELSE Done(t)
  BY DEF Notify
<1> HIDE DEF s
<1>6. MemTyped' /\ QueueTyped' /\ RestTyped' /\ phase' = phase /\ DOMAIN shadow' \subseteq DOMAIN shadow
  BY <1>1, <1>2, TypesKept DEF SameMem, SameRest
<1>7. CASE <<s.key, s.group>> \in subs
  <2>1. m \in DeltaMessage /\ m.type = "delta"
    BY <1>4, OneDeltaTyped
  <2> HIDE DEF m
  <2>2. Send("sto", m).op = "send" /\ Send("sto", m).msg = m /\ Send("sto", m) \in StepsOf(t)
    <3>1. Send("sto", m) \in Sending(DeltaMessage) /\ Send("sto", m) \in Sending(DeltaMessage \cup Deletion)
      BY <2>1, SendIs
    <3> QED
      BY <1>4, <3>1, SendIs, StepsAre DEF HandlerSteps, CloudSteps
  <2>3. TodoTyped' /\ Goes(t, {Send("sto", m)})
    BY <1>1, <1>3, <1>5, <1>7, <2>2, InsteadGoes
  <2>4. Harmless(Send("sto", m))
    BY <2>1, <2>2 DEF Harmless, Deletes
  <2>5. Sound'
    BY <1>2, <1>6, <2>3, <2>4, StepSound
  <2> QED
    BY <1>2, <1>3, <1>4, <1>7, <2>3, <2>5 DEF m, s
<1>8. CASE <<s.key, s.group>> \notin subs
  <2>1. TodoTyped' /\ Goes(t, {})
    BY <1>1, <1>3, <1>5, <1>8, DoneGoes
  <2>2. Sound'
    BY <1>2, <1>6, <2>1, StepSound
  <2> QED
    BY <1>2, <1>3, <1>4, <1>8, <2>1, <2>2 DEF s
<1> QED
  BY <1>7, <1>8
LEMMA SendSound ==
  ASSUME Sound, NEW t \in Thread, SendMessage(t)
  PROVE  /\ Sound' /\ phase = "run" /\ SameMem /\ SameRest
         /\ todo[t] # <<>> /\ Head(todo[t]).op = "send" /\ Head(todo[t]) \in Steps(t)
         /\ Goes(t, {}) /\ todo'[t] = Tail(todo[t])
         /\ StepFields(t, Head(todo[t]))
         /\ t = "sto" => /\ queue'["sto"] = queue["sto"]
                         /\ queue'["lsd"] = Append(queue["lsd"], DumpRequest)
         /\ t # "sto" => /\ queue'["sto"] = Append(queue["sto"], Head(todo[t]).msg)
                         /\ queue'["lsd"] = queue["lsd"]
<1> DEFINE s == Head(todo[t])
<1>1. Typed /\ TodoTyped /\ QueueTyped /\ MemTyped /\ Resting
  BY TypesKept DEF Sound
<1>2. Doing(t, "send") /\ SameMem /\ SameRest /\ Done(t)
  BY DEF SendMessage, SameMem, SameRest, mem, store, boot, used
<1>3. /\ Len(queue[s.to]) < Depth
      /\ queue' = [queue EXCEPT ![s.to] = Append(@, s.msg)]
  BY DEF SendMessage
<1>4. todo[t] # <<>> /\ phase = "run" /\ s.op = "send" /\ StepFields(t, s) /\ s \in Steps(t)
  BY <1>1, <1>2, DoingIs DEF Does
<1>5. TodoTyped' /\ Goes(t, {}) /\ todo'[t] = Tail(todo[t])
  BY <1>1, <1>2, <1>4, DoneGoes
<1>6. MemTyped' /\ RestTyped' /\ phase' = phase /\ DOMAIN shadow' \subseteq DOMAIN shadow
  BY <1>1, <1>2, TypesKept DEF SameMem, SameRest
<1>7. /\ queue["sto"] \in Seq(StoMessage) /\ queue["lsd"] \in Seq({DumpRequest})
      /\ Len(queue["sto"]) \in Nat /\ Len(queue["lsd"]) \in Nat /\ Depth \in Nat
      /\ DOMAIN queue = {"sto", "lsd"}
  BY <1>1, LenProperties, StorageAssumption DEF QueueTyped, StorageAssumption
<1> HIDE DEF s
<1>8. CASE t = "sto"
  <2>1. s = Send("lsd", DumpRequest)
    BY <1>4, <1>8 DEF StepFields
  <2>2. s.to = "lsd" /\ s.msg = DumpRequest
    BY <2>1, SendIs
  <2>3. /\ queue'["sto"] = queue["sto"] /\ queue'["lsd"] = Append(queue["lsd"], DumpRequest)
        /\ DOMAIN queue' = {"sto", "lsd"} /\ Len(queue["lsd"]) < Depth
    BY <1>3, <1>7, <2>2
  <2>4. Append(queue["lsd"], DumpRequest) \in Seq({DumpRequest})
        /\ Len(Append(queue["lsd"], DumpRequest)) = Len(queue["lsd"]) + 1
    BY <1>7, OneMore
  <2>5. QueueTyped'
    BY <1>1, <1>7, <2>3, <2>4 DEF QueueTyped
  <2>6. Sound'
    BY <1>2, <1>5, <1>6, <2>5, StepSound
  <2> QED
    BY <1>2, <1>4, <1>5, <1>8, <2>3, <2>6 DEF s
<1>9. CASE t # "sto"
  <2>1. s.to = "sto" /\ s.msg \in StoMessage
    BY <1>4, <1>9 DEF StepFields
  <2>2. /\ queue'["lsd"] = queue["lsd"] /\ queue'["sto"] = Append(queue["sto"], s.msg)
        /\ DOMAIN queue' = {"sto", "lsd"} /\ Len(queue["sto"]) < Depth
    BY <1>3, <1>7, <2>1
  <2>3. Append(queue["sto"], s.msg) \in Seq(StoMessage)
        /\ Len(Append(queue["sto"], s.msg)) = Len(queue["sto"]) + 1
    BY <1>7, <2>1, OneMore
  <2>4. QueueTyped'
    BY <1>1, <1>7, <2>2, <2>3 DEF QueueTyped
  <2>5. Sound'
    BY <1>2, <1>5, <1>6, <2>4, StepSound
  <2> QED
    BY <1>2, <1>4, <1>5, <1>9, <2>2, <2>5 DEF s
<1> QED
  BY <1>8, <1>9

(* What the handler has to do while it destroys a device.                  *)
LEMMA DestroyingIs ==
  ASSUME HandlerDeletes, TodoTyped, todo["handler"] # <<>>,
         Head(todo["handler"]).op \in {"clear", "destroy"}
  PROVE  \E d \in Device :
           \/ todo["handler"] = <<ClearStep(d), DestroyStep(d)>> /\ Head(todo["handler"]) = ClearStep(d)
           \/ /\ todo["handler"] = <<DestroyStep(d)>> /\ KeysOf(d, shadow) = {}
              /\ Head(todo["handler"]) = DestroyStep(d)
<1>1. Head(todo["handler"]) \in Steps("handler")
  BY FirstStep, StepsAre
<1>2. \/ \E d \in Device : todo["handler"] = <<ClearStep(d), DestroyStep(d)>>
      \/ \E d \in Device : todo["handler"] = <<DestroyStep(d)>> /\ KeysOf(d, shadow) = {}
  BY <1>1 DEF HandlerDeletes
<1>3. \A d : Head(<<ClearStep(d), DestroyStep(d)>>) = ClearStep(d) /\ Head(<<DestroyStep(d)>>) = DestroyStep(d)
  OBVIOUS
<1> QED
  BY <1>2, <1>3

LEMMA ClearSound ==
  ASSUME Sound, NEW t \in Thread, ClearDevice(t)
  PROVE  /\ Sound' /\ phase = "run" /\ t = "handler" /\ queue' = queue /\ SameRest
         /\ todo[t] # <<>> /\ Head(todo[t]).op = "clear"
         /\ \E d \in Device :
              /\ Head(todo[t]) = ClearStep(d)
              /\ \/ KeysOf(d, shadow) = {} /\ Goes(t, {}) /\ SameMem
                 \/ /\ todo' = todo /\ objects' = objects
                    /\ \E k \in DOMAIN shadow :
                         /\ DOMAIN shadow' = DOMAIN shadow \ {k}
                         /\ \A j \in DOMAIN shadow' : shadow'[j] = shadow[j]
                         /\ subs' = {s \in subs : s[1] # k} /\ raced' = NotRaced(k, Group)
<1>1. Typed /\ TodoTyped /\ MemTyped /\ Resting /\ HandlerDeletes
  BY TypesKept DEF Sound
<1>2. Doing(t, "clear") /\ queue' = queue /\ SameRest /\ objects' = objects
  BY DEF ClearDevice, SameRest, store, boot, used
<1>3. /\ todo[t] # <<>> /\ phase = "run" /\ Head(todo[t]).op = "clear"
      /\ StepFields(t, Head(todo[t]))
  BY <1>1, <1>2, DoingIs DEF Does
<1>4. t = "handler"
  BY <1>3 DEF StepFields
<1>5. PICK d \in Device : todo[t] = <<ClearStep(d), DestroyStep(d)>> /\ Head(todo[t]) = ClearStep(d)
  <2>1. \A d : DestroyStep(d).op # "clear"
    BY DEF DestroyStep
  <2> QED
    BY <1>1, <1>3, <1>4, <2>1, DestroyingIs
<1>6. Head(todo[t]).dev = d
  BY <1>5 DEF ClearStep
<1>7. QueueTyped' /\ RestTyped' /\ phase' = phase
  BY <1>1, <1>2, TypesKept DEF SameRest
<1>8. Resting'
  BY <1>3, <1>7 DEF Resting
<1>9. CASE KeysOf(d, shadow) = {}
  <2>1. Done(t) /\ shadow' = shadow /\ subs' = subs /\ raced' = raced
    BY <1>6, <1>9 DEF ClearDevice
  <2>2. TodoTyped' /\ Goes(t, {}) /\ todo'[t] = Tail(todo[t])
    BY <1>1, <1>3, <2>1, DoneGoes
  <2>3. todo'["handler"] = <<DestroyStep(d)>>
    BY <1>4, <1>5, <2>2
  <2>4. KeysOf(d, shadow') = {}
    BY <1>9, <2>1
  <2>5. HandlerDeletes'
    BY <2>3, <2>4 DEF HandlerDeletes
  <2>6. MemTyped'
    BY <1>1, <1>2, <2>1, TypesKept
  <2> QED
    BY <1>2, <1>3, <1>4, <1>5, <1>7, <1>8, <1>9, <2>1, <2>2, <2>5, <2>6 DEF Sound, Typed, SameMem
<1>10. CASE KeysOf(d, shadow) # {}
  <2>1. PICK k \in KeysOf(d, shadow) : Unlink(k)
    BY <1>6, <1>10 DEF ClearDevice
  <2>2. todo' = todo /\ k \in DOMAIN shadow
    BY <1>6, <1>10 DEF ClearDevice, KeysOf
  <2>3. /\ MemTyped' /\ DOMAIN shadow' = DOMAIN shadow \ {k}
        /\ \A j \in DOMAIN shadow' : shadow'[j] = shadow[j]
        /\ subs' = {s \in subs : s[1] # k} /\ raced' = NotRaced(k, Group)
    BY <1>1, <1>2, <2>1, <2>2, UnlinkLeaves
  <2>4. TodoTyped'
    BY <1>1, <2>2, TypesKept
  <2>5. HandlerDeletes'
    BY <1>1, <2>2, <2>3, HandlerKeeps
  <2>6. Sound'
    BY <1>7, <1>8, <2>3, <2>4, <2>5 DEF Sound, Typed
  <2> QED
    BY <1>2, <1>3, <1>4, <1>5, <2>2, <2>3, <2>6
<1> QED
  BY <1>9, <1>10

LEMMA DestroySound ==
  ASSUME Sound, NEW t \in Thread, DestroyObject(t)
  PROVE  /\ Sound' /\ phase = "run" /\ t = "handler" /\ queue' = queue /\ SameRest
         /\ shadow' = shadow /\ subs' = subs /\ raced' = raced
         /\ todo[t] # <<>> /\ Head(todo[t]).op = "destroy"
         /\ \E d \in Device :
              /\ Head(todo[t]) = DestroyStep(d) /\ KeysOf(d, shadow) = {}
              /\ Goes(t, {Send("sto", [type |-> "thingDeleted", dev |-> d])})
<1>1. Typed /\ TodoTyped /\ MemTyped /\ Resting /\ HandlerDeletes
  BY TypesKept DEF Sound
<1>2. Doing(t, "destroy") /\ queue' = queue /\ SameRest
      /\ shadow' = shadow /\ subs' = subs /\ raced' = raced
  BY DEF DestroyObject, SameRest, store, boot, used
<1>3. /\ todo[t] # <<>> /\ phase = "run" /\ Head(todo[t]).op = "destroy"
      /\ StepFields(t, Head(todo[t]))
  BY <1>1, <1>2, DoingIs DEF Does
<1>4. t = "handler"
  BY <1>3 DEF StepFields
<1>5. PICK d \in Device : /\ todo[t] = <<DestroyStep(d)>> /\ Head(todo[t]) = DestroyStep(d)
                          /\ KeysOf(d, shadow) = {}
  <2>1. \A d : ClearStep(d).op # "destroy"
    BY DEF ClearStep
  <2> QED
    BY <1>1, <1>3, <1>4, <2>1, DestroyingIs
<1> DEFINE m == [type |-> "thingDeleted", dev |-> d]
<1>6. Head(todo[t]).dev = d
  BY <1>5 DEF DestroyStep
<1>7. objects' = objects \ {d} /\ Instead(t, Send("sto", m))
  BY <1>6 DEF DestroyObject
<1>8. QueueTyped' /\ RestTyped' /\ phase' = phase
  BY <1>1, <1>2, TypesKept DEF SameRest
<1>9. Resting'
  BY <1>3, <1>8 DEF Resting
<1>10. MemTyped'
  <2>1. DOMAIN shadow \subseteq {k \in Key : k[1] \in objects \ {d}}
    BY <1>1, <1>5 DEF MemTyped, KeysOf
  <2> QED
    BY <1>1, <1>2, <1>7, <2>1 DEF MemTyped
<1>11. m \in Deletion
  BY DEF Deletion
<1>12. \A k \in DOMAIN shadow : ~Deletes(m, k)
  BY <1>5 DEF Deletes, KeysOf
<1> HIDE DEF m
<1>13. Send("sto", m).op = "send" /\ Send("sto", m).msg = m /\ Send("sto", m) \in StepsOf(t)
  BY <1>4, <1>11, SendIs, StepsAre DEF HandlerSteps
<1>14. TodoTyped' /\ Goes(t, {Send("sto", m)}) /\ todo'[t] = <<Send("sto", m)>> \o Tail(todo[t])
  BY <1>1, <1>3, <1>7, <1>13, InsteadGoes
<1>15. Steps("handler")' = {Send("sto", m)}
  <2>1. Tail(todo[t]) = <<>>
    BY <1>5
  <2>2. ToSet(<<Send("sto", m)>> \o Tail(todo[t])) = {Send("sto", m)} \cup ToSet(Tail(todo[t]))
    BY <1>1, <1>3, <1>13, OtherFirst DEF TodoTyped
  <2> QED
    BY <1>4, <1>14, <2>1, <2>2, NoElements DEF Steps
<1>16. HandlerDeletes'
  BY <1>2, <1>12, <1>13, <1>15 DEF HandlerDeletes
<1>17. Sound'
  BY <1>8, <1>9, <1>10, <1>14, <1>16 DEF Sound, Typed
<1> QED
  BY <1>2, <1>3, <1>4, <1>5, <1>14, <1>17 DEF m
----------------------------------------------------------------------------
(* The storage handler's thread, and the local shadow's.                   *)

\* The messages in a queue.
Messages(t) == ToSet(queue[t])

(* Receiving a message takes the first one.                                *)
LEMMA ReceiveLeaves ==
  ASSUME Typed, Resting, NEW t \in {"sto", "lsd"}, Receive(t)
  PROVE  /\ phase = "run" /\ todo[t] = <<>> /\ Steps(t) = {}
         /\ QueueTyped' /\ queue[t] # <<>> /\ queue'[t] = Tail(queue[t])
         /\ \A u \in {"sto", "lsd"} : u # t => queue'[u] = queue[u]
         /\ Messages(t) = {Head(queue[t])} \cup Messages(t)'
         /\ t = "sto" => Head(queue[t]) \in StoMessage
         /\ t = "lsd" => Head(queue[t]) = DumpRequest
<1>1. QueueTyped
  BY DEF Typed
<1>2. Idle(t) /\ queue[t] # <<>> /\ queue' = [queue EXCEPT ![t] = Tail(@)]
  BY DEF Receive
<1>3. t \in Thread
  BY StepsAre
<1>4. phase = "run" /\ todo[t] = <<>> /\ Steps(t) = {}
  BY <1>2, <1>3, IdleIs
<1>5. /\ DOMAIN queue = {"sto", "lsd"}
      /\ queue["sto"] \in Seq(StoMessage) /\ queue["lsd"] \in Seq({DumpRequest})
      /\ Len(queue["sto"]) <= Depth /\ Len(queue["lsd"]) <= Depth /\ Depth \in Nat
  BY <1>1, StorageAssumption DEF QueueTyped, StorageAssumption
<1>6. DOMAIN queue' = {"sto", "lsd"} /\ queue'[t] = Tail(queue[t])
      /\ \A u \in {"sto", "lsd"} : u # t => queue'[u] = queue[u]
  BY <1>2, <1>5
<1>7. CASE t = "sto"
  <2>1. /\ Head(queue[t]) \in StoMessage /\ Tail(queue[t]) \in Seq(StoMessage)
        /\ Len(queue[t]) \in Nat /\ Len(Tail(queue[t])) = Len(queue[t]) - 1
        /\ ToSet(queue[t]) = {Head(queue[t])} \cup ToSet(Tail(queue[t]))
    BY <1>2, <1>5, <1>7, FirstAndRest
  <2> QED
    BY <1>2, <1>4, <1>5, <1>6, <1>7, <2>1 DEF QueueTyped, Messages
<1>8. CASE t = "lsd"
  <2>1. /\ Head(queue[t]) \in {DumpRequest} /\ Tail(queue[t]) \in Seq({DumpRequest})
        /\ Len(queue[t]) \in Nat /\ Len(Tail(queue[t])) = Len(queue[t]) - 1
        /\ ToSet(queue[t]) = {Head(queue[t])} \cup ToSet(Tail(queue[t]))
    BY <1>2, <1>5, <1>8, FirstAndRest
  <2> QED
    BY <1>2, <1>4, <1>5, <1>6, <1>8, <2>1 DEF QueueTyped, Messages
<1> QED
  BY <1>7, <1>8

\* What a message makes the storage handler do.
Handling(m) ==
  CASE m.type = "delta" -> Writes(m) \o <<[op |-> "consolidate"]>>
    [] m.type = "propertyDeleted" -> <<RecordStep(PropertyGone(m.key))>>
    [] m.type = "thingDeleted"    -> <<RecordStep(DeviceGone(m.dev))>>

LEMMA HandlingIs ==
  ASSUME NEW m \in StoMessage
  PROVE  /\ m.type = "delta" => Handling(m) = Writes(m) \o <<[op |-> "consolidate"]>>
         /\ m.type = "propertyDeleted" => Handling(m) = <<RecordStep(PropertyGone(m.key))>>
         /\ m.type = "thingDeleted" => Handling(m) = <<RecordStep(DeviceGone(m.dev))>>
         /\ m.type # "dumpCompleted" => Handling(m) \in Seq(StoSteps)
<1>1. ASSUME m.type = "delta"
      PROVE  Handling(m) = Writes(m) \o <<[op |-> "consolidate"]>> /\ Handling(m) \in Seq(StoSteps)
  <2>1. Handling(m) = Writes(m) \o <<[op |-> "consolidate"]>>
    BY <1>1, Zenon DEF Handling
  <2> QED
    BY <1>1, <2>1, MessageIs, WritesTyped
<1>2. ASSUME m.type = "propertyDeleted"
      PROVE  Handling(m) = <<RecordStep(PropertyGone(m.key))>> /\ Handling(m) \in Seq(StoSteps)
  <2>1. Handling(m) = <<RecordStep(PropertyGone(m.key))>>
    BY <1>2 DEF Handling
  <2>2. PropertyGone(m.key) \in Record /\ PropertyGone(m.key).type # "torn"
    BY <1>2, MessageIs DEF PropertyGone, Record
  <2>3. RecordStep(PropertyGone(m.key)) \in StoSteps
    BY <2>2, RecordStepTyped DEF StoSteps
  <2> QED
    BY <2>1, <2>3
<1>3. ASSUME m.type = "thingDeleted"
      PROVE  Handling(m) = <<RecordStep(DeviceGone(m.dev))>> /\ Handling(m) \in Seq(StoSteps)
  <2>1. Handling(m) = <<RecordStep(DeviceGone(m.dev))>>
    BY <1>3 DEF Handling
  <2>2. DeviceGone(m.dev) \in Record /\ DeviceGone(m.dev).type # "torn"
    BY <1>3, MessageIs DEF DeviceGone, Record
  <2>3. RecordStep(DeviceGone(m.dev)) \in StoSteps
    BY <2>2, RecordStepTyped DEF StoSteps
  <2> QED
    BY <2>1, <2>3
<1> QED
  BY <1>1, <1>2, <1>3, MessageIs

(* The types after a message is taken up.                                  *)
LEMMA ReceiveSound ==
  ASSUME Sound, NEW t \in {"sto", "lsd"}, Receive(t), TodoTyped', RestTyped', SameMem,
         todo'["handler"] = todo["handler"], phase' = phase
  PROVE  Sound'
<1>1. Typed /\ Resting /\ HandlerDeletes
  BY DEF Sound
<1>2. QueueTyped' /\ phase = "run"
  BY <1>1, ReceiveLeaves
<1>3. MemTyped' /\ DOMAIN shadow' \subseteq DOMAIN shadow
  BY <1>1, TypesKept DEF SameMem
<1>4. HandlerDeletes'
  BY <1>1, <1>3, HandlerKeeps
<1> QED
  BY <1>2, <1>3, <1>4 DEF Sound, Typed, Resting

LEMMA StoReceiveSound ==
  ASSUME Sound, StoReceive
  PROVE  /\ Sound' /\ phase = "run" /\ SameMem /\ SameRest
         /\ \A u \in Thread \ {"sto"} : todo'[u] = todo[u] /\ Steps(u)' = Steps(u)
         /\ todo["sto"] = <<>> /\ Steps("sto") = {} /\ queue["sto"] # <<>>
         /\ queue'["sto"] = Tail(queue["sto"]) /\ queue'["lsd"] = queue["lsd"]
         /\ Messages("sto") = {Head(queue["sto"])} \cup Messages("sto")'
         /\ Head(queue["sto"]) \in StoMessage /\ Head(queue["sto"]).type # "dumpCompleted"
         /\ todo'["sto"] = Handling(Head(queue["sto"]))
<1> DEFINE m == Head(queue["sto"])
<1>1. Typed /\ Resting /\ TodoTyped
  BY DEF Sound, Typed
<1>2. Receive("sto") /\ SameMem /\ SameRest
  BY DEF StoReceive, SameMem, SameRest, mem, store, boot, used
<1>3. m.type # "dumpCompleted" /\ Begin("sto", Handling(m))
  BY DEF StoReceive, Handling, Writes
<1>4. /\ phase = "run" /\ todo["sto"] = <<>> /\ Steps("sto") = {} /\ queue["sto"] # <<>>
      /\ queue'["sto"] = Tail(queue["sto"]) /\ queue'["lsd"] = queue["lsd"]
      /\ Messages("sto") = {m} \cup Messages("sto")'
      /\ m \in StoMessage
  BY <1>1, <1>2, ReceiveLeaves
<1> HIDE DEF m
<1>5. Handling(m) \in Seq(StepsOf("sto")) /\ "sto" \in Thread
  BY <1>3, <1>4, HandlingIs, StepsAre
<1>6. /\ TodoTyped' /\ todo'["sto"] = Handling(m)
      /\ \A u \in Thread \ {"sto"} : todo'[u] = todo[u] /\ Steps(u)' = Steps(u)
  BY <1>1, <1>3, <1>5, BeginLeaves
<1>7. RestTyped' /\ phase' = phase
  BY <1>1, <1>2, TypesKept DEF SameRest
<1>8. todo'["handler"] = todo["handler"]
  BY <1>6, StepsAre
<1>9. Sound'
  BY <1>2, <1>6, <1>7, <1>8, ReceiveSound
<1> QED
  BY <1>2, <1>3, <1>4, <1>6, <1>9 DEF m

LEMMA DumpCompleteSound ==
  ASSUME Sound, DumpComplete
  PROVE  /\ Sound' /\ phase = "run" /\ SameMem /\ todo' = todo
         /\ cur' = cur /\ phase' = phase /\ crashes' = crashes
         /\ todo["sto"] = <<>> /\ Steps("sto") = {} /\ queue["sto"] # <<>>
         /\ queue'["sto"] = Tail(queue["sto"]) /\ queue'["lsd"] = queue["lsd"]
         /\ Messages("sto") = {Head(queue["sto"])} \cup Messages("sto")'
         /\ Head(queue["sto"]) = DumpCompleted
         /\ \/ dumpCount = 0 /\ dumpCount' = 1 /\ arc' = arc
            \/ dumpCount = 1 /\ dumpCount' = 0 /\ arc' = NoLog
<1>1. Typed /\ Resting /\ TodoTyped /\ RestTyped
  BY DEF Sound, Typed
<1>2. /\ Receive("sto") /\ Head(queue["sto"]).type = "dumpCompleted" /\ SameMem /\ todo' = todo
      /\ cur' = cur /\ phase' = phase /\ consolidate' = consolidate /\ crashes' = crashes
  BY DEF DumpComplete, SameMem, mem, boot, used
<1>3. /\ phase = "run" /\ todo["sto"] = <<>> /\ Steps("sto") = {} /\ queue["sto"] # <<>>
      /\ queue'["sto"] = Tail(queue["sto"]) /\ queue'["lsd"] = queue["lsd"]
      /\ Messages("sto") = {Head(queue["sto"])} \cup Messages("sto")'
      /\ Head(queue["sto"]) \in StoMessage
  BY <1>1, <1>2, ReceiveLeaves
<1>4. Head(queue["sto"]) = DumpCompleted
  BY <1>2, <1>3, MessageIs
<1>5. \/ dumpCount = 0 /\ dumpCount' = 1 /\ arc' = arc
      \/ dumpCount = 1 /\ dumpCount' = 0 /\ arc' = NoLog
  BY <1>1 DEF DumpComplete, RestTyped
<1>6. TodoTyped' /\ RestTyped'
  BY <1>1, <1>2, <1>5 DEF RestTyped, TodoTyped, Log
<1>7. Sound'
  BY <1>2, <1>6, ReceiveSound
<1> QED
  BY <1>2, <1>3, <1>4, <1>5, <1>7

LEMMA LsdReceiveSound ==
  ASSUME Sound, LsdReceive
  PROVE  /\ Sound' /\ phase = "run" /\ SameMem /\ SameRest
         /\ \A u \in Thread \ {"lsd"} : todo'[u] = todo[u] /\ Steps(u)' = Steps(u)
         /\ todo["lsd"] = <<>> /\ Steps("lsd") = {} /\ queue["lsd"] # <<>>
         /\ queue'["lsd"] = Tail(queue["lsd"]) /\ queue'["sto"] = queue["sto"]
         /\ \E order \in Seq(Device) : ToSet(order) = Device /\ todo'["lsd"] = DumpSteps(order)
<1>1. Typed /\ Resting /\ TodoTyped
  BY DEF Sound, Typed
<1>2. Receive("lsd") /\ SameMem /\ SameRest
  BY DEF LsdReceive, SameMem, SameRest, mem, store, boot, used
<1>3. PICK order \in SetToSeqs(Device) : Begin("lsd", DumpSteps(order))
  BY DEF LsdReceive, DumpSteps, Scans, CompletedStep, DumpCompleted
<1>4. order \in Seq(Device) /\ ToSet(order) = Device
  BY OrderIs, StorageAssumption DEF StorageAssumption
<1>5. /\ phase = "run" /\ todo["lsd"] = <<>> /\ Steps("lsd") = {} /\ queue["lsd"] # <<>>
      /\ queue'["lsd"] = Tail(queue["lsd"]) /\ queue'["sto"] = queue["sto"]
  BY <1>1, <1>2, ReceiveLeaves
<1>6. DumpSteps(order) \in Seq(StepsOf("lsd")) /\ "lsd" \in Thread
  BY <1>4, DumpStepsAre, StepsAre
<1>7. /\ TodoTyped' /\ todo'["lsd"] = DumpSteps(order)
      /\ \A u \in Thread \ {"lsd"} : todo'[u] = todo[u] /\ Steps(u)' = Steps(u)
  BY <1>1, <1>3, <1>6, BeginLeaves
<1>8. RestTyped' /\ phase' = phase
  BY <1>1, <1>2, TypesKept DEF SameRest
<1>9. todo'["handler"] = todo["handler"]
  BY <1>7, StepsAre
<1>10. Sound'
  BY <1>2, <1>7, <1>8, <1>9, ReceiveSound
<1> QED
  BY <1>2, <1>4, <1>5, <1>7, <1>10
LEMMA WriteRecordSound ==
  ASSUME Sound, WriteRecord
  PROVE  /\ Sound' /\ phase = "run" /\ SameMem /\ queue' = queue
         /\ arc' = arc /\ phase' = phase /\ dumpCount' = dumpCount /\ crashes' = crashes
         /\ Goes("sto", {}) /\ todo["sto"] # <<>> /\ todo'["sto"] = Tail(todo["sto"])
         /\ Head(todo["sto"]) \in Steps("sto")
         /\ \E r \in Record : 
              /\ r.type # "torn" /\ Head(todo["sto"]) = RecordStep(r)
              /\ \/ r.type = "set" /\ r.key \notin DOMAIN shadow /\ cur' = cur
                 \/ /\ r.type = "set" => r.key \in DOMAIN shadow
                    /\ cur' = Append(RecordsOf(cur), r)
<1> DEFINE r == Head(todo["sto"]).rec
<1>1. Typed /\ TodoTyped /\ Resting /\ RestTyped /\ "sto" \in Thread
  BY StepsAre DEF Sound, Typed
<1>2. /\ Doing("sto", "record") /\ SameMem /\ queue' = queue /\ arc' = arc /\ phase' = phase
      /\ dumpCount' = dumpCount /\ crashes' = crashes /\ consolidate' = consolidate /\ Done("sto")
  BY DEF WriteRecord, SameMem, mem, boot, used
<1>3. /\ todo["sto"] # <<>> /\ phase = "run" /\ Head(todo["sto"]).op = "record"
      /\ StepFields("sto", Head(todo["sto"])) /\ Head(todo["sto"]) \in Steps("sto")
  BY <1>1, <1>2, DoingIs DEF Does
<1>4. r \in Record /\ r.type # "torn" /\ Head(todo["sto"]) = RecordStep(r)
  BY <1>3 DEF StepFields
<1>5. cur' = IF r.type = "set" /\ r.key \notin DOMAIN shadow THEN cur ELSE Append(RecordsOf(cur), r)
  BY DEF WriteRecord, Dropped
<1>6. TodoTyped' /\ Goes("sto", {}) /\ todo'["sto"] = Tail(todo["sto"])
  BY <1>1, <1>2, <1>3, DoneGoes
<1> HIDE DEF r
<1>7. cur' \in Log
  <2>1. RecordsOf(cur) \in Seq(Record)
    BY <1>1, RecordsTyped DEF RestTyped
  <2>2. Append(RecordsOf(cur), r) \in Seq(Record)
    BY <1>4, <2>1, OneMore
  <2> QED
    BY <1>1, <1>5, <2>2 DEF RestTyped, Log
<1>8. RestTyped' /\ MemTyped' /\ QueueTyped' /\ DOMAIN shadow' \subseteq DOMAIN shadow
  BY <1>1, <1>2, <1>7, TypesKept DEF RestTyped, SameMem
<1>9. Sound'
  BY <1>1, <1>2, <1>6, <1>8, StepSound
<1> QED
  BY <1>2, <1>3, <1>4, <1>5, <1>6, <1>9

LEMMA RenameSound ==
  ASSUME Sound, Rename
  PROVE  /\ Sound' /\ phase = "run" /\ SameMem /\ queue' = queue
         /\ phase' = phase /\ dumpCount' = dumpCount /\ crashes' = crashes
         /\ todo["sto"] # <<>> /\ Head(todo["sto"]) = [op |-> "consolidate"]
         /\ \/ /\ arc = NoLog /\ cur # NoLog /\ arc' = cur /\ cur' = NoLog
               /\ Goes("sto", {NewLogStep}) /\ todo'["sto"] = <<NewLogStep>> \o Tail(todo["sto"])
            \/ /\ arc' = arc /\ cur' = cur
               /\ Goes("sto", {}) /\ todo'["sto"] = Tail(todo["sto"])
<1>1. Typed /\ TodoTyped /\ Resting /\ RestTyped /\ "sto" \in Thread
  BY StepsAre DEF Sound, Typed
<1>2. /\ Doing("sto", "consolidate") /\ SameMem /\ queue' = queue /\ phase' = phase
      /\ dumpCount' = dumpCount /\ crashes' = crashes /\ consolidate' = consolidate
  BY DEF Rename, SameMem, mem, boot, used
<1>3. /\ todo["sto"] # <<>> /\ phase = "run" /\ Head(todo["sto"]).op = "consolidate"
      /\ StepFields("sto", Head(todo["sto"]))
  BY <1>1, <1>2, DoingIs DEF Does
<1>4. Head(todo["sto"]) = [op |-> "consolidate"]
  BY <1>3 DEF StepFields
<1>5. MemTyped' /\ QueueTyped' /\ DOMAIN shadow' \subseteq DOMAIN shadow
  BY <1>1, <1>2, TypesKept DEF SameMem
<1>6. NewLogStep \in StepsOf("sto")
  BY StepsAre DEF StoSteps
<1>7. CASE arc = NoLog /\ cur # NoLog /\ arc' = cur /\ cur' = NoLog /\ Instead("sto", NewLogStep)
  <2>1. TodoTyped' /\ Goes("sto", {NewLogStep}) /\ todo'["sto"] = <<NewLogStep>> \o Tail(todo["sto"])
    BY <1>1, <1>3, <1>6, <1>7, InsteadGoes
  <2>2. RestTyped'
    BY <1>1, <1>2, <1>7 DEF RestTyped, Log
  <2>3. Sound'
    BY <1>1, <1>2, <1>5, <2>1, <2>2, StepSound
  <2> QED
    BY <1>2, <1>3, <1>4, <1>7, <2>1, <2>3
<1>8. CASE arc' = arc /\ cur' = cur /\ Done("sto")
  <2>1. TodoTyped' /\ Goes("sto", {}) /\ todo'["sto"] = Tail(todo["sto"])
    BY <1>1, <1>3, <1>8, DoneGoes
  <2>2. RestTyped'
    BY <1>1, <1>2, <1>8 DEF RestTyped
  <2>3. Sound'
    BY <1>1, <1>2, <1>5, <2>1, <2>2, StepSound
  <2> QED
    BY <1>2, <1>3, <1>4, <1>8, <2>1, <2>3
<1> QED
  BY <1>7, <1>8 DEF Rename, Renames, store, NewLogStep

LEMMA NewLogSound ==
  ASSUME Sound, NewLog
  PROVE  /\ Sound' /\ phase = "run" /\ SameMem /\ queue' = queue
         /\ arc' = arc /\ phase' = phase /\ dumpCount' = dumpCount /\ crashes' = crashes
         /\ todo["sto"] # <<>> /\ Head(todo["sto"]) = NewLogStep
         /\ cur' = <<>> /\ Goes("sto", {Send("lsd", DumpRequest)})
         /\ todo'["sto"] = <<Send("lsd", DumpRequest)>> \o Tail(todo["sto"])
<1>1. Typed /\ TodoTyped /\ Resting /\ RestTyped /\ "sto" \in Thread
  BY StepsAre DEF Sound, Typed
<1>2. /\ Doing("sto", "newLog") /\ SameMem /\ queue' = queue /\ phase' = phase /\ arc' = arc
      /\ dumpCount' = dumpCount /\ crashes' = crashes /\ consolidate' = consolidate
      /\ cur' = <<>> /\ Instead("sto", Send("lsd", DumpRequest))
  BY DEF NewLog, SameMem, mem, boot, used
<1>3. /\ todo["sto"] # <<>> /\ phase = "run" /\ Head(todo["sto"]).op = "newLog"
      /\ StepFields("sto", Head(todo["sto"]))
  BY <1>1, <1>2, DoingIs DEF Does
<1>4. Head(todo["sto"]) = NewLogStep
  BY <1>3 DEF StepFields
<1>5. MemTyped' /\ QueueTyped' /\ DOMAIN shadow' \subseteq DOMAIN shadow
  BY <1>1, <1>2, TypesKept DEF SameMem
<1>6. Send("lsd", DumpRequest) \in StepsOf("sto")
  BY StepsAre DEF StoSteps
<1>7. TodoTyped' /\ Goes("sto", {Send("lsd", DumpRequest)})
      /\ todo'["sto"] = <<Send("lsd", DumpRequest)>> \o Tail(todo["sto"])
  BY <1>1, <1>2, <1>3, <1>6, InsteadGoes
<1>8. RestTyped'
  BY <1>1, <1>2, NoElements DEF RestTyped, Log
<1>9. Sound'
  BY <1>1, <1>2, <1>5, <1>7, <1>8, StepSound
<1> QED
  BY <1>2, <1>3, <1>4, <1>7, <1>9

\* The message with the values of these properties, one for each.
ScanMessage(g, keys) == Delta(g, [i \in DOMAIN keys |-> <<keys[i], shadow[keys[i]][g]>>])

LEMMA ScanMessageIs ==
  ASSUME MemTyped, NEW g \in Group, NEW keys \in Seq(DOMAIN shadow)
  PROVE  /\ ScanMessage(g, keys) \in DeltaMessage
         /\ ScanMessage(g, keys).type = "delta" /\ ScanMessage(g, keys).group = g
         /\ DOMAIN ScanMessage(g, keys).deltas = DOMAIN keys
         /\ \A i \in DOMAIN keys :
              /\ ScanMessage(g, keys).deltas[i][1] = keys[i]
              /\ ScanMessage(g, keys).deltas[i][2] = shadow[keys[i]][g]
<1> DEFINE ds == [i \in DOMAIN keys |-> <<keys[i], shadow[keys[i]][g]>>]
<1>1. DOMAIN keys = 1 .. Len(keys) /\ Len(keys) \in Nat /\ \A i \in 1 .. Len(keys) : keys[i] \in DOMAIN shadow
  BY LenProperties, ElementOfSeq
<1>2. \A k \in DOMAIN shadow : k \in Key /\ shadow[k][g] \in Value
  BY PropsAre DEF MemTyped
<1>3. \A i \in 1 .. Len(keys) : <<keys[i], shadow[keys[i]][g]>> \in Key \X Value
  BY <1>1, <1>2
<1>4. ds \in Seq(Key \X Value)
  BY <1>1, <1>3
<1>5. DOMAIN ds = DOMAIN keys /\ \A i \in DOMAIN keys : ds[i][1] = keys[i] /\ ds[i][2] = shadow[keys[i]][g]
  OBVIOUS
<1>6. ScanMessage(g, keys) = Delta(g, ds)
  BY DEF ScanMessage
<1> HIDE DEF ds
<1>7. /\ Delta(g, ds) \in DeltaMessage /\ Delta(g, ds).deltas = ds
      /\ Delta(g, ds).group = g /\ Delta(g, ds).type = "delta"
  BY <1>4, DeltaTyped
<1> QED
  BY <1>5, <1>6, <1>7

\* Where the elements of batch b begin, and how many they are, of l in batches of m.
Before(m, b)    == (b - 1) * m
BatchSize(m, l, b)   == IF b * m <= l THEN m ELSE l % m
Batched(m, l)    == (l + m - 1) \div m

(* A product grows with its factor.                                        *)
LEMMA ProductGrows ==
  ASSUME NEW m \in Nat \ {0}, NEW a \in Nat, NEW b \in Nat, a < b
  PROVE  m * a + m <= m * b /\ m * a \in Nat /\ m * b \in Nat
<1>1. b - a \in Nat \ {0} /\ b = a + (b - a)
  OBVIOUS
<1>2. PICK c \in Nat : b - a = c + 1
  BY <1>1
<1>3. m * b = m * a + m * c + m /\ m * c >= 0 /\ m * a \in Nat /\ m * c \in Nat
  BY <1>1, <1>2
<1> QED
  BY <1>3

LEMMA Quotient ==
  ASSUME NEW m \in Nat \ {0}, NEW a \in Nat
  PROVE  a = m * (a \div m) + (a % m) /\ a \div m \in Nat /\ a % m \in 0 .. m - 1
OBVIOUS

(* Batch b holds no element behind the l-th.                               *)
LEMMA BatchEnds ==
  ASSUME NEW m \in Nat \ {0}, NEW l \in Nat, NEW b \in 1 .. Batched(m, l)
  PROVE  /\ Before(m, b) \in Nat /\ BatchSize(m, l, b) \in Nat /\ Before(m, b) + BatchSize(m, l, b) <= l
         /\ b * m > l => b - 1 = l \div m
<1> DEFINE q == l \div m
           r == l % m
           n == (l + m - 1) \div m
           t == (l + m - 1) % m
           p == m * (b - 1)
<1>0. l + m - 1 \in Nat
  OBVIOUS
<1>1. l = m * q + r /\ q \in Nat /\ r \in 0 .. m - 1
  BY Quotient
<1>2. l + m - 1 = m * n + t /\ n \in Nat /\ t \in 0 .. m - 1
  BY <1>0, Quotient
<1>3. b \in 1 .. n /\ n \in Nat
  BY <1>2 DEF Batched
<1> HIDE DEF q, r, n, t
<1>4. m * b <= m * n /\ m * n \in Nat /\ m * b \in Nat
  <2>1. CASE b = n
    BY <1>3, <2>1
  <2>2. CASE b < n
    <3>1. m * b + m <= m * n /\ m * n \in Nat /\ m * b \in Nat
      BY <1>3, <2>2, ProductGrows
    <3> QED
      BY <3>1
  <2> QED
    BY <1>3, <2>1, <2>2
<1>5. m * b = p + m /\ b * m = m * b /\ p = Before(m, b) /\ p \in Nat
  BY <1>3 DEF Before
<1> HIDE DEF p
<1>6. p + m <= l + m - 1
  BY <1>2, <1>4, <1>5
<1>7. CASE b * m <= l
  BY <1>5, <1>7 DEF BatchSize
<1>8. CASE ~(b * m <= l)
  <2>1. b - 1 = q
    <3>1. CASE b - 1 < q
      <4>1. m * (b - 1) + m <= m * q
        BY <1>1, <1>3, <3>1, ProductGrows
      <4> QED
        BY <1>1, <1>5, <1>8, <4>1 DEF p
    <3>2. CASE q < b - 1
      <4>1. m * q + m <= m * (b - 1)
        BY <1>1, <1>3, <3>2, ProductGrows
      <4> QED
        BY <1>1, <1>5, <1>6, <4>1 DEF p
    <3> QED
      BY <1>1, <1>3, <3>1, <3>2
  <2>2. p = m * q /\ BatchSize(m, l, b) = r
    BY <1>8, <2>1 DEF p, BatchSize, r
  <2> QED
    BY <1>1, <1>5, <2>1, <2>2 DEF q
<1> QED
  BY <1>7, <1>8

(* Every element is in a batch.                                            *)
LEMMA BatchOf ==
  ASSUME NEW m \in Nat \ {0}, NEW l \in Nat, NEW k \in 1 .. l
  PROVE  \E b \in 1 .. Batched(m, l) : \E i \in 1 .. BatchSize(m, l, b) : Before(m, b) + i = k
<1> DEFINE q == (k - 1) \div m
           r == (k - 1) % m
           n == (l + m - 1) \div m
           t == (l + m - 1) % m
<1>0. k - 1 \in Nat /\ l + m - 1 \in Nat
  OBVIOUS
<1>1. k - 1 = m * q + r /\ q \in Nat /\ r \in 0 .. m - 1
  BY <1>0, Quotient
<1>2. l + m - 1 = m * n + t /\ n \in Nat /\ t \in 0 .. m - 1 /\ n = Batched(m, l)
  BY <1>0, Quotient DEF Batched
<1> HIDE DEF q, r, n, t
<1>3. q + 1 \in 1 .. n
  <2>1. CASE n < q + 1
    <3>1. m * n + m <= m * (q + 1)
      BY <1>1, <1>2, <2>1, ProductGrows
    <3>2. m * (q + 1) = m * q + m
      BY <1>1
    <3>3. m * n \in Nat /\ m * q \in Nat
      BY <1>1, <1>2
    <3> QED
      BY <1>1, <1>2, <3>1, <3>2, <3>3
  <2> QED
    BY <1>1, <1>2, <2>1
<1>4. Before(m, q + 1) = m * q /\ (q + 1) * m = m * q + m /\ m * q \in Nat
  BY <1>1 DEF Before
<1>5. r + 1 \in 1 .. BatchSize(m, l, q + 1)
  <2>1. CASE (q + 1) * m <= l
    BY <1>1, <2>1 DEF BatchSize
  <2>2. CASE ~((q + 1) * m <= l)
    <3>0. q + 1 \in 1 .. Batched(m, l) /\ (q + 1) * m > l
      BY <1>2, <1>3, <1>4, <2>2
    <3>1. (q + 1) - 1 = l \div m
      BY <3>0, BatchEnds
    <3>2. q = l \div m
      BY <1>1, <3>1
    <3>3. l = m * q + (l % m) /\ l % m \in 0 .. m - 1
      BY <3>2, Quotient
    <3>4. BatchSize(m, l, q + 1) = l % m
      BY <2>2 DEF BatchSize
    <3> QED
      BY <1>1, <1>4, <3>3, <3>4
  <2> QED
    BY <2>1, <2>2
<1> QED
  <2>1. Before(m, q + 1) + (r + 1) = k
    BY <1>1, <1>4
  <2> QED
    BY <1>2, <1>3, <1>5, <2>1


Part(keys, b) == [i \in 1 .. BatchSize(MaxDeltas, Len(keys), b) |-> keys[Before(MaxDeltas, b) + i]]

(* What is sent of the properties in keys: messages of some of them each,  *)
(* which have them all.                                                    *)
LEMMA BatchesAre ==
  ASSUME MemTyped, NEW g \in Group, NEW keys \in Seq(DOMAIN shadow)
  PROVE  /\ Batches(g, keys) \in Seq(LsdSteps)
         /\ \A x \in ToSet(Batches(g, keys)) : \E p \in Seq(DOMAIN shadow) :
              x = Send("sto", ScanMessage(g, p)) /\ ToSet(p) \subseteq ToSet(keys)
         /\ \A k \in ToSet(keys) : \E p \in Seq(DOMAIN shadow) :
              Send("sto", ScanMessage(g, p)) \in ToSet(Batches(g, keys)) /\ k \in ToSet(p)
<1> DEFINE l == Len(keys)
           n == Batched(MaxDeltas, l)
           Nth(b) == Send("sto", ScanMessage(g, Part(keys, b)))
<1>1. MaxDeltas \in Nat \ {0} /\ l \in Nat /\ DOMAIN keys = 1 .. l /\ \A i \in 1 .. l : keys[i] \in DOMAIN shadow
  BY StorageAssumption, LenProperties, ElementOfSeq DEF StorageAssumption
<1>2. n \in Nat
  <2>1. l + MaxDeltas - 1 \in Nat
    BY <1>1
  <2> QED
    BY <1>1, <2>1, Quotient DEF Batched
<1>3. Batches(g, keys) = [b \in 1 .. n |-> Nth(b)]
  BY DEF Batches, Batched, BatchSize, Before, ScanMessage, Part
<1> HIDE DEF l, n, Nth
<1>4. ASSUME NEW b \in 1 .. n
      PROVE  /\ Part(keys, b) \in Seq(DOMAIN shadow)
             /\ DOMAIN Part(keys, b) = 1 .. BatchSize(MaxDeltas, l, b)
             /\ \A i \in 1 .. BatchSize(MaxDeltas, l, b) : /\ Part(keys, b)[i] = keys[Before(MaxDeltas, b) + i]
                                                   /\ Before(MaxDeltas, b) + i \in 1 .. l
  <2>1. /\ Before(MaxDeltas, b) \in Nat /\ BatchSize(MaxDeltas, l, b) \in Nat
        /\ Before(MaxDeltas, b) + BatchSize(MaxDeltas, l, b) <= l
    BY <1>1, BatchEnds DEF n
  <2>2. \A i \in 1 .. BatchSize(MaxDeltas, l, b) : Before(MaxDeltas, b) + i \in 1 .. l
    BY <1>1, <2>1
  <2>3. Part(keys, b) = [i \in 1 .. BatchSize(MaxDeltas, l, b) |-> keys[Before(MaxDeltas, b) + i]]
    BY DEF Part, l
  <2>4. Part(keys, b) \in [1 .. BatchSize(MaxDeltas, l, b) -> DOMAIN shadow]
    BY <1>1, <2>2, <2>3
  <2>5. Part(keys, b) \in Seq(DOMAIN shadow)
    BY <2>1, <2>4
  <2>6. DOMAIN Part(keys, b) = 1 .. BatchSize(MaxDeltas, l, b)
    BY <2>3
  <2>7. \A i \in 1 .. BatchSize(MaxDeltas, l, b) : Part(keys, b)[i] = keys[Before(MaxDeltas, b) + i]
    BY <2>3
  <2> QED
    BY <2>2, <2>5, <2>6, <2>7
<1>5. ASSUME NEW b \in 1 .. n PROVE Nth(b) \in LsdSteps /\ ToSet(Part(keys, b)) \subseteq ToSet(keys)
  <2>1. ScanMessage(g, Part(keys, b)) \in DeltaMessage
    BY <1>4, ScanMessageIs
  <2>2. Nth(b) \in LsdSteps
    BY <2>1, SendIs DEF LsdSteps, Nth
  <2> QED
    BY <1>1, <1>4, <2>2 DEF ToSet
<1>6. Batches(g, keys) \in Seq(LsdSteps)
  <2>1. Batches(g, keys) \in [1 .. n -> LsdSteps]
    BY <1>3, <1>5
  <2> QED
    BY <1>2, <2>1
<1>7. ToSet(Batches(g, keys)) = {Nth(b) : b \in 1 .. n}
  BY <1>3 DEF ToSet
<1>8. ASSUME NEW x \in ToSet(Batches(g, keys))
      PROVE  \E p \in Seq(DOMAIN shadow) : x = Send("sto", ScanMessage(g, p)) /\ ToSet(p) \subseteq ToSet(keys)
  <2>1. PICK b \in 1 .. n : x = Nth(b)
    BY <1>7, <1>8
  <2> QED
    BY <1>4, <1>5, <2>1 DEF Nth
<1>9. ASSUME NEW k \in ToSet(keys)
      PROVE  \E p \in Seq(DOMAIN shadow) : 
               Send("sto", ScanMessage(g, p)) \in ToSet(Batches(g, keys)) /\ k \in ToSet(p)
  <2>1. PICK j \in 1 .. l : k = keys[j]
    BY <1>1, <1>9 DEF ToSet
  <2>2. PICK b \in 1 .. n : \E i \in 1 .. BatchSize(MaxDeltas, l, b) : Before(MaxDeltas, b) + i = j
    BY <1>1, BatchOf DEF n
  <2>3. k \in ToSet(Part(keys, b))
    BY <1>4, <2>1, <2>2 DEF ToSet
  <2> QED
    BY <1>4, <1>7, <2>3 DEF Nth
<1> QED
  BY <1>6, <1>8, <1>9


(* The elements of two sequences in a row.                                 *)
LEMMA RowElements ==
  ASSUME NEW S, NEW p \in Seq(S), NEW q \in Seq(S)
  PROVE  ToSet(p \o q) = ToSet(p) \cup ToSet(q)
<1> DEFINE r == p \o q
<1>0. r \in Seq(S) /\ Row(r, p, Len(p), q, Len(q))
  BY InARow
<1>1. /\ DOMAIN p = 1 .. Len(p) /\ DOMAIN q = 1 .. Len(q) /\ DOMAIN r = 1 .. Len(r)
      /\ Len(p) \in Nat /\ Len(q) \in Nat
  BY <1>0, LenProperties
<1>2. /\ Len(r) = Len(p) + Len(q)
      /\ \A i \in 1 .. Len(p) : r[i] = p[i]
      /\ \A i \in 1 .. Len(q) : r[Len(p) + i] = q[i]
  BY <1>0 DEF Row
<1> HIDE DEF r
<1>3. ASSUME NEW i \in 1 .. Len(r) PROVE r[i] \in ToSet(p) \cup ToSet(q)
  <2>1. CASE i <= Len(p)
    <3>1. i \in 1 .. Len(p) /\ r[i] = p[i]
      BY <1>1, <1>2, <2>1
    <3> QED
      BY <1>1, <3>1 DEF ToSet
  <2>2. CASE ~(i <= Len(p))
    <3>1. i - Len(p) \in 1 .. Len(q) /\ i = Len(p) + (i - Len(p))
      BY <1>1, <1>2, <2>2
    <3>2. r[i] = q[i - Len(p)]
      BY <1>2, <3>1
    <3> QED
      BY <1>1, <3>1, <3>2 DEF ToSet
  <2> QED
    BY <2>1, <2>2
<1>4. ASSUME NEW i \in 1 .. Len(p) PROVE p[i] \in ToSet(r)
  <2>1. i \in 1 .. Len(r) /\ r[i] = p[i]
    BY <1>1, <1>2
  <2> QED
    BY <1>1, <2>1 DEF ToSet
<1>5. ASSUME NEW i \in 1 .. Len(q) PROVE q[i] \in ToSet(r)
  <2>1. Len(p) + i \in 1 .. Len(r) /\ r[Len(p) + i] = q[i]
    BY <1>1, <1>2
  <2> QED
    BY <1>1, <2>1 DEF ToSet
<1>6. ToSet(r) \subseteq ToSet(p) \cup ToSet(q)
  BY <1>1, <1>3 DEF ToSet
<1>7. ToSet(p) \subseteq ToSet(r) /\ ToSet(q) \subseteq ToSet(r)
  BY <1>1, <1>4, <1>5 DEF ToSet
<1> QED
  BY <1>6, <1>7 DEF r

(* What is put before the steps of a thread.                               *)
LEMMA BeforeGoes ==
  ASSUME TodoTyped, NEW t \in Thread, todo[t] # <<>>, NEW q \in Seq(StepsOf(t)), Begin(t, q \o Tail(todo[t]))
  PROVE  /\ TodoTyped' /\ Goes(t, ToSet(q)) /\ todo'[t] = q \o Tail(todo[t])
         /\ Tail(todo[t]) \in Seq(StepsOf(t))
<1>1. /\ todo[t] \in Seq(StepsOf(t)) /\ Tail(todo[t]) \in Seq(StepsOf(t))
      /\ ToSet(todo[t]) = {Head(todo[t])} \cup ToSet(Tail(todo[t]))
  BY FirstAndRest DEF TodoTyped
<1>2. q \o Tail(todo[t]) \in Seq(StepsOf(t))
  BY <1>1, InARow
<1>3. ToSet(q \o Tail(todo[t])) = ToSet(q) \cup ToSet(Tail(todo[t]))
  <2>1. ASSUME NEW rest \in Seq(StepsOf(t)) PROVE ToSet(q \o rest) = ToSet(q) \cup ToSet(rest)
    BY RowElements, Zenon
  <2> QED
    BY <1>1, <2>1, Zenon
<1>4. /\ TodoTyped'
      /\ \A u \in Thread \ {t} : todo'[u] = todo[u] /\ Steps(u)' = Steps(u)
      /\ todo'[t] = q \o Tail(todo[t]) /\ Steps(t)' = ToSet(q \o Tail(todo[t]))
  BY <1>2, BeginLeaves
<1> QED
  BY <1>1, <1>3, <1>4 DEF Goes, Steps

LEMMA ScanSound ==
  ASSUME Sound, ScanDevice
  PROVE  /\ Sound' /\ phase = "run" /\ SameMem /\ SameRest /\ queue' = queue
         /\ todo["lsd"] # <<>>
         /\ \E d \in Device, g \in Group, q \in Seq(LsdSteps) :
              /\ Head(todo["lsd"]) = [op |-> "scan", dev |-> d, group |-> g]
              /\ \A x \in ToSet(q) : \E p \in Seq(DOMAIN shadow) :
                   x = Send("sto", ScanMessage(g, p)) /\ ToSet(p) \subseteq KeysOf(d, shadow)
              /\ \A k \in KeysOf(d, shadow) : \E p \in Seq(DOMAIN shadow) :
                   Send("sto", ScanMessage(g, p)) \in ToSet(q) /\ k \in ToSet(p)
              /\ Goes("lsd", ToSet(q)) /\ todo'["lsd"] = q \o Tail(todo["lsd"])
<1> DEFINE s == Head(todo["lsd"])
           keys == SetToSeq(KeysOf(s.dev, shadow))
           q == Batches(s.group, keys)
<1>1. Typed /\ TodoTyped /\ Resting /\ MemTyped /\ "lsd" \in Thread
  BY StepsAre DEF Sound, Typed
<1>2. Doing("lsd", "scan") /\ SameMem /\ SameRest /\ queue' = queue
  BY DEF ScanDevice, SameMem, SameRest, mem, boot, store, used
<1>3. /\ todo["lsd"] # <<>> /\ phase = "run" /\ s.op = "scan" /\ StepFields("lsd", s)
  BY <1>1, <1>2, DoingIs DEF Does
<1>4. s.dev \in Device /\ s.group \in Group /\ s = [op |-> "scan", dev |-> s.dev, group |-> s.group]
  BY <1>3 DEF StepFields
<1>5. Begin("lsd", q \o Tail(todo["lsd"]))
  BY DEF ScanDevice
<1> HIDE DEF s
<1>6. /\ keys \in Seq(KeysOf(s.dev, shadow)) /\ ToSet(keys) = KeysOf(s.dev, shadow)
      /\ KeysOf(s.dev, shadow) \subseteq DOMAIN shadow
  BY <1>1, KeysAreFinite, SetToSeqIs DEF MemTyped
<1>7. keys \in Seq(DOMAIN shadow)
  BY <1>6
<1> HIDE DEF keys
<1>8. MemTyped' /\ QueueTyped' /\ RestTyped' /\ phase' = phase /\ DOMAIN shadow' \subseteq DOMAIN shadow
  BY <1>1, <1>2, TypesKept DEF SameMem, SameRest
<1>9. /\ q \in Seq(LsdSteps)
      /\ \A x \in ToSet(q) : \E p \in Seq(DOMAIN shadow) :
           x = Send("sto", ScanMessage(s.group, p)) /\ ToSet(p) \subseteq KeysOf(s.dev, shadow)
      /\ \A k \in KeysOf(s.dev, shadow) : \E p \in Seq(DOMAIN shadow) :
           Send("sto", ScanMessage(s.group, p)) \in ToSet(q) /\ k \in ToSet(p)
  BY <1>1, <1>4, <1>6, <1>7, BatchesAre
<1> HIDE DEF q
<1>10. TodoTyped' /\ Goes("lsd", ToSet(q)) /\ todo'["lsd"] = q \o Tail(todo["lsd"])
  BY <1>1, <1>3, <1>5, <1>9, BeforeGoes, StepsAre
<1>11. Sound'
  BY <1>1, <1>2, <1>8, <1>10, StepSound
<1> QED
  BY <1>2, <1>3, <1>4, <1>9, <1>10, <1>11 DEF s
----------------------------------------------------------------------------
(* Loading the logs, and restarts.                                         *)

\* The shadow as loading takes it for its start.
ShadowNow == [objs |-> objects, props |-> shadow, end |-> "ok"]

LEMMA ShadowNowTyped ==
  ASSUME MemTyped
  PROVE  ShadowNow \in Loaded /\ [ShadowNow EXCEPT !.end = "ok"] = ShadowNow
BY DEF MemTyped, ShadowNow, Loaded

\* The shadow is what has been loaded.
TookOver(s) == objects' = s.objs /\ shadow' = s.props /\ subs' = (DOMAIN s.props) \X Group /\ raced' = {}

LEMMA TookOverTyped ==
  ASSUME NEW s \in Loaded, TookOver(s)
  PROVE  MemTyped'
BY DEF Loaded, TookOver, MemTyped

(* Nothing is to do before and after a load.                               *)
LEMMA LoadKeeps ==
  ASSUME Typed, Resting, phase # "run", todo' = todo
  PROVE  TodoTyped' /\ HandlerDeletes' /\ \A t \in Thread : todo[t] = <<>> /\ Steps(t) = {} /\ Steps(t)' = {}
<1>1. \A t \in Thread : todo[t] = <<>> /\ todo'[t] = <<>>
  BY DEF Resting
<1>2. \A t \in Thread : Steps(t) = {} /\ Steps(t)' = {}
  BY <1>1, NoElements DEF Steps
<1>3. HandlerDeletes'
  BY <1>2, StepsAre DEF HandlerDeletes
<1>4. TodoTyped'
  BY TypesKept
<1> QED
  BY <1>1, <1>2, <1>3, <1>4

LEMMA LoadArchiveSound ==
  ASSUME Sound, LoadArchive
  PROVE  /\ Sound' /\ phase = "archive" /\ phase' = "current"
         /\ \A t \in Thread : todo[t] = <<>> /\ Steps(t) = {} /\ Steps(t)' = {}
         /\ todo' = todo /\ queue' = queue /\ queue["sto"] = <<>> /\ queue["lsd"] = <<>>
         /\ cur' = cur /\ dumpCount' = dumpCount /\ dumpCount = 0 /\ crashes' = crashes
         /\ LoadFrom(Blank, arc) \in Loaded /\ TookOver(LoadFrom(Blank, arc))
         /\ arc' = IF LoadFrom(Blank, arc).end = "failed" THEN NoLog ELSE arc
         /\ consolidate' = (arc' # NoLog)
<1> DEFINE s == LoadFrom(Blank, arc)
<1>1. Typed /\ Resting /\ QueueTyped /\ RestTyped
  BY DEF Sound, Typed
<1>2. /\ phase = "archive" /\ phase' = "current" /\ todo' = todo /\ queue' = queue /\ cur' = cur
      /\ dumpCount' = dumpCount /\ crashes' = crashes
      /\ TookOver(s) /\ arc' = (IF s.end = "failed" THEN NoLog ELSE arc) 
  BY DEF LoadArchive, LoadedArchive, TakeOver, TookOver, used
<1>3. consolidate' = (arc' # NoLog)
  BY DEF LoadArchive
<1>4. s \in Loaded
  BY <1>1, LoadTyped, BlankTyped DEF RestTyped
<1> HIDE DEF s
<1>5. MemTyped'
  BY <1>2, <1>4, TookOverTyped
<1>6. RestTyped'
  <2>1. arc' \in Log
    BY <1>1, <1>2 DEF RestTyped, Log
  <2>2. consolidate' \in BOOLEAN
    BY <1>3
  <2> QED
    BY <1>1, <1>2, <2>1, <2>2 DEF RestTyped
<1>7. TodoTyped' /\ HandlerDeletes' /\ \A t \in Thread : todo[t] = <<>> /\ Steps(t) = {} /\ Steps(t)' = {}
  BY <1>1, <1>2, LoadKeeps
<1>8. QueueTyped' /\ queue["sto"] = <<>> /\ queue["lsd"] = <<>> /\ dumpCount = 0
  BY <1>1, <1>2, TypesKept DEF Resting
<1>9. Resting'
  BY <1>1, <1>2 DEF Resting
<1>10. Sound'
  BY <1>5, <1>6, <1>7, <1>8, <1>9 DEF Sound, Typed
<1> QED
  BY <1>2, <1>3, <1>4, <1>7, <1>8, <1>10 DEF s

LEMMA LoadCurrentSound ==
  ASSUME Sound, LoadCurrent
  PROVE  /\ Sound' /\ phase = "current" /\ phase' = "run"
         /\ \A t \in Thread : todo[t] = <<>> /\ Steps(t) = {} /\ Steps(t)' = {}
         /\ todo' = todo /\ queue["sto"] = <<>> /\ queue'["sto"] = <<>> /\ queue["lsd"] = <<>>
         /\ arc' = arc /\ dumpCount' = dumpCount /\ dumpCount = 0 /\ crashes' = crashes
         /\ LoadFrom(ShadowNow, cur) \in Loaded /\ TookOver(LoadFrom(ShadowNow, cur))
         /\ cur' = IF LoadFrom(ShadowNow, cur).end = "failed" THEN NoLog ELSE cur
         /\ \/ consolidate /\ queue'["lsd"] = <<DumpRequest>>
            \/ queue'["lsd"] = <<>>
<1> DEFINE s == LoadFrom(ShadowNow, cur)
<1>1. Typed /\ Resting /\ QueueTyped /\ RestTyped /\ MemTyped
  BY DEF Sound, Typed
<1>2. /\ phase = "current" /\ phase' = "run" /\ todo' = todo /\ arc' = arc
      /\ dumpCount' = dumpCount /\ crashes' = crashes /\ consolidate' = consolidate
      /\ TookOver(s) /\ cur' = (IF s.end = "failed" THEN NoLog ELSE cur)
  BY DEF LoadCurrent, LoadedCurrent, TakeOver, TookOver, used, ShadowNow
<1>3. \/ consolidate /\ queue' = [queue EXCEPT !["lsd"] = Append(@, DumpRequest)]
      \/ queue' = queue
  BY DEF LoadCurrent
<1>4. s \in Loaded
  BY <1>1, LoadTyped, ShadowNowTyped DEF RestTyped
<1> HIDE DEF s
<1>5. MemTyped'
  BY <1>2, <1>4, TookOverTyped
<1>6. RestTyped'
  <2>1. cur' \in Log
    BY <1>1, <1>2 DEF RestTyped, Log
  <2> QED
    BY <1>1, <1>2, <2>1 DEF RestTyped
<1>7. TodoTyped' /\ HandlerDeletes' /\ \A t \in Thread : todo[t] = <<>> /\ Steps(t) = {} /\ Steps(t)' = {}
  BY <1>1, <1>2, LoadKeeps
<1>8. queue["sto"] = <<>> /\ queue["lsd"] = <<>> /\ dumpCount = 0
  BY <1>1, <1>2 DEF Resting
<1>9. /\ queue'["sto"] = <<>> /\ DOMAIN queue' = {"sto", "lsd"}
      /\ \/ consolidate /\ queue'["lsd"] = <<DumpRequest>>
         \/ queue'["lsd"] = <<>>
  <2>1. Append(<<>>, DumpRequest) = <<DumpRequest>>
    OBVIOUS
  <2> QED
    BY <1>1, <1>3, <1>8, <2>1 DEF QueueTyped
<1>10. QueueTyped'
  <2>1. Depth \in Nat /\ Depth >= 1
    BY StorageAssumption DEF StorageAssumption
  <2>2. /\ <<>> \in Seq(StoMessage) /\ <<>> \in Seq({DumpRequest}) /\ <<DumpRequest>> \in Seq({DumpRequest})
        /\ Len(<<DumpRequest>>) = 1 /\ Len(<<>>) = 0
    OBVIOUS
  <2>3. queue'["lsd"] \in Seq({DumpRequest}) /\ Len(queue'["lsd"]) <= Depth
    <3>1. CASE queue'["lsd"] = <<DumpRequest>>
      BY <2>1, <2>2, <3>1
    <3>2. CASE queue'["lsd"] = <<>>
      BY <2>1, <2>2, <3>2
    <3> QED
      BY <1>9, <3>1, <3>2
  <2>4. queue'["sto"] \in Seq(StoMessage) /\ Len(queue'["sto"]) <= Depth
    BY <1>9, <2>1, <2>2
  <2> QED
    BY <1>9, <2>3, <2>4 DEF QueueTyped
<1>11. Resting'
  BY <1>2 DEF Resting
<1>12. Sound'
  BY <1>5, <1>6, <1>7, <1>10, <1>11 DEF Sound, Typed
<1> QED
  BY <1>2, <1>4, <1>7, <1>8, <1>9, <1>12 DEF s

\* Nothing is in memory yet.
Fresh ==
  /\ objects = {} /\ shadow = Blank.props /\ subs = {} /\ raced = {}
  /\ todo = [t \in Thread |-> <<>>] /\ queue = [t \in {"sto", "lsd"} |-> <<>>]
  /\ phase \in {"archive", "marred"} /\ consolidate = FALSE /\ dumpCount = 0

Empty ==
  /\ Sound /\ phase \in {"archive", "marred"} /\ dumpCount = 0 /\ DOMAIN shadow = {}
  /\ \A t \in Thread : todo[t] = <<>> /\ Steps(t) = {}
  /\ queue["sto"] = <<>> /\ queue["lsd"] = <<>>

LEMMA FreshIs == Fresh /\ arc \in Log /\ cur \in Log => Empty
<1> SUFFICES ASSUME Fresh, arc \in Log, cur \in Log PROVE Empty
  OBVIOUS
<1>1. \A t \in Thread : todo[t] = <<>> /\ Steps(t) = {}
  BY NoElements DEF Fresh, Steps
<1>2. TodoTyped
  BY <1>1, NoElements DEF Fresh, TodoTyped
<1>3. QueueTyped
  BY NoElements, StorageAssumption DEF Fresh, QueueTyped, StorageAssumption
<1>4. MemTyped /\ DOMAIN shadow = {}
  <2>1. Blank.props \in Props /\ DOMAIN Blank.props = {}
    BY BlankTyped DEF Loaded
  <2> QED
    BY <2>1 DEF Fresh, MemTyped
<1>5. RestTyped
  BY DEF Fresh, RestTyped
<1>6. Resting /\ HandlerDeletes
  BY <1>1, StepsAre DEF Fresh, Resting, HandlerDeletes
<1> QED
  BY <1>1, <1>2, <1>3, <1>4, <1>5, <1>6 DEF Fresh, Sound, Typed, Empty

LEMMA FreshAfter == (Fresh /\ arc \in Log /\ cur \in Log => Empty)'
BY FreshIs, PTL

(* What a loss of power leaves of a log is a log.                          *)
LEMMA TornTyped ==
  ASSUME NEW r \in Record
  PROVE  Torn(r) \subseteq Record
<1>1. \A d \in Device : TornRecord(d) \in Record
  BY DEF TornRecord, Record
<1>2. ASSUME r.type = "set" PROVE \A v \in Value : [r EXCEPT !.value = v] \in Record
  <2>1. r \in [type : {"set"}, key : Key, group : Group, value : Value]
    BY <1>2 DEF Record
  <2>2. \A v \in Value : [r EXCEPT !.value = v] \in [type : {"set"}, key : Key, group : Group, value : Value]
    BY <2>1
  <2> QED
    BY <2>2 DEF Record
<1> QED
  BY <1>1, <1>2 DEF Torn

LEMMA CutsTyped ==
  ASSUME NEW log \in Seq(Record)
  PROVE  Cuts(log) \subseteq Seq(Record)
<1> SUFFICES ASSUME NEW n \in DOMAIN log, NEW t \in Torn(log[n]), NEW d \in Device
             PROVE  CutAt(log, n, t, d) \in Seq(Record)
  BY DEF Cuts
<1>1. DOMAIN log = 1 .. Len(log) /\ Len(log) \in Nat /\ \A i \in 1 .. Len(log) : log[i] \in Record
  BY LenProperties, ElementOfSeq
<1>2. t \in Record /\ TornRecord(d) \in Record
  BY <1>1, TornTyped DEF TornRecord, Record
<1>3. CutAt(log, n, t, d) \in [1 .. Len(log) -> Record]
  BY <1>1, <1>2 DEF CutAt
<1> QED
  BY <1>1, <1>3

\* Power was lost inside an operation on a log.
LogsCut ==
  TornWrites = "always" \/ (TornWrites = "noArchive" /\ arc = NoLog /\ (arc' = NoLog \/ cur' = NoLog))

LEMMA CutIs ==
  ASSUME Sound, CutWrite \/ CutRename \/ CutRemove
  PROVE  /\ arc' \in Log /\ cur' \in Log /\ phase' \in {"archive", "marred"}
         /\ arc = NoLog => arc' = NoLog \/ cur' = NoLog
<1>1. arc \in Log /\ cur \in Log /\ NoLog \in Log /\ \A q \in Seq(Record) : q \in Log
  BY DEF Sound, Typed, RestTyped, Log
<1>2. RecordsOf(cur) \in Seq(Record)
  BY <1>1, RecordsTyped
<1>3. ASSUME NEW l, Headless(l) PROVE phase' \in {"archive", "marred"}
  BY <1>3 DEF Headless
<1>4. CASE CutWrite
  <2>1. Doing("sto", "record")
    BY <1>4 DEF CutWrite
  <2>2. Head(todo["sto"]).rec \in Record
    BY <2>1, DoingIs, StepsAre DEF Does, StepFields, Sound, Typed
  <2> DEFINE r == Head(todo["sto"]).rec
  <2>3. \A c \in Seq(Record), x \in Record : Append(c, x) \in Seq(Record)
    OBVIOUS
  <2>4. ASSUME NEW t \in Torn(r), cur' = Append(RecordsOf(cur), t) PROVE cur' \in Log
    BY <1>1, <1>2, <2>2, <2>3, <2>4, TornTyped
  <2>5. ASSUME NEW c \in Cuts(RecordsOf(cur)), NEW d \in Device, cur' = Append(c, TornRecord(d))
        PROVE  cur' \in Log
    <3>1. c \in Seq(Record)
      BY <1>2, CutsTyped
    <3>2. TornRecord(d) \in Record
      BY DEF TornRecord, Record
    <3> QED
      BY <1>1, <2>3, <2>5, <3>1, <3>2
  <2>6. arc' = arc
    BY <1>4 DEF CutWrite
  <2>7. \/ (\E t \in Torn(r) : cur' = Append(RecordsOf(cur), t)) /\ phase' = "archive"
        \/ /\ \E c \in Cuts(RecordsOf(cur)), d \in Device : cur' = Append(c, TornRecord(d))
           /\ phase' = "archive"
        \/ cur' = NoLog /\ Headless(cur)
    BY <1>4 DEF CutWrite
  <2> QED
    BY <1>1, <1>3, <2>4, <2>5, <2>6, <2>7
<1>5. CASE CutRename
  <2>1. cur \in Seq(Record)
    BY <1>1, <1>5 DEF CutRename, Renames, Log
  <2>2. cur' = NoLog
    BY <1>5 DEF CutRename
  <2>3. \/ arc' \in Cuts(cur) /\ phase' = "archive"
        \/ arc' = NoLog /\ Headless(cur)
    BY <1>5 DEF CutRename
  <2> QED
    BY <1>1, <1>3, <2>1, <2>2, <2>3, CutsTyped
<1>6. CASE CutRemove
  BY <1>1, <1>6 DEF CutRemove
<1> QED
  BY <1>4, <1>5, <1>6

LEMMA RestartSound ==
  ASSUME Sound, Restart
  PROVE  /\ Sound' /\ Fresh' /\ phase' \in {"archive", "marred"} /\ dumpCount' = 0 /\ DOMAIN shadow' = {}
         /\ \A t \in Thread : todo'[t] = <<>> /\ Steps(t)' = {}
         /\ queue'["sto"] = <<>> /\ queue'["lsd"] = <<>>
         /\ arc' \in Log /\ cur' \in Log /\ discarded' = discarded
         /\ (arc' = arc /\ cur' = cur) \/ (LogsCut /\ cut' = cut + 1)
<1>1. \/ arc' = arc /\ cur' = cur /\ phase' = "archive"
      \/ /\ TornWrites = "always" \/ (TornWrites = "noArchive" /\ arc = NoLog)
         /\ CutWrite \/ CutRename \/ CutRemove
         /\ cut' = cut + 1
  BY DEF Restart, store
<1>2. arc \in Log /\ cur \in Log
  BY DEF Sound, Typed, RestTyped
<1>3. /\ arc' \in Log /\ cur' \in Log /\ phase' \in {"archive", "marred"}
      /\ (arc' = arc /\ cur' = cur) \/ (LogsCut /\ cut' = cut + 1)
  <2>1. CASE CutWrite \/ CutRename \/ CutRemove
    BY <1>1, <1>2, <2>1, CutIs DEF LogsCut
  <2> QED
    BY <1>1, <1>2, <2>1
<1>4. Fresh' /\ discarded' = discarded
  BY <1>3 DEF Restart, Fresh
<1>5. /\ Sound' /\ dumpCount' = 0 /\ DOMAIN shadow' = {}
      /\ \A t \in Thread : todo'[t] = <<>> /\ Steps(t)' = {}
      /\ queue'["sto"] = <<>> /\ queue'["lsd"] = <<>>
  BY <1>3, <1>4, FreshAfter DEF Empty
<1> QED
  BY <1>3, <1>4, <1>5
----------------------------------------------------------------------------
(* The types, for every step.                                              *)

\* The steps of the program.
CallStep ==
  \/ \E k \in Key, v \in Value : CreateProperty(k, v)
  \/ \E t \in Thread, k \in Key, g \in Group, v \in Value : SetValue(t, k, g, v)
  \/ \E k \in Key : RemoveProperty(k)
  \/ \E d \in Device : DestroyDevice(d)
ThreadStep ==
  \E t \in Thread : \/ Announce(t) \/ Subscribe(t) \/ Notify(t) \/ SendMessage(t)
                    \/ ClearDevice(t) \/ DestroyObject(t)
StorageStep == StoReceive \/ WriteRecord \/ Rename \/ NewLog \/ DumpComplete
DumpStep    == LsdReceive \/ ScanDevice
StartStep   == LoadArchive \/ LoadCurrent \/ Restart

LEMMA NextIs ==
  ASSUME Next
  PROVE  CallStep \/ ThreadStep \/ StorageStep \/ DumpStep \/ StartStep
<1>1. Client \subseteq Thread /\ "sto" \in Thread /\ "lsd" \in Thread /\ "handler" \in Thread /\ "cloud" \in Thread
  BY StepsAre
<1>2. "reported" \in Group /\ "desired" \in Group
  BY DEF Group
<1>3. CASE ClientCall
  BY <1>1, <1>2, <1>3 DEF ClientCall, CallStep
<1>4. CASE \E t \in Client : ClientStep(t)
  BY <1>1, <1>4 DEF ClientStep, ThreadStep
<1>5. CASE StoStep
  BY <1>1, <1>5 DEF StoStep, StorageStep, ThreadStep
<1>6. CASE LsdStep
  BY <1>1, <1>6 DEF LsdStep, DumpStep, ThreadStep
<1>7. CASE Load
  BY <1>7 DEF Load, StartStep
<1>8. CASE Restart
  BY <1>8 DEF StartStep
<1> QED
  BY <1>3, <1>4, <1>5, <1>6, <1>7, <1>8 DEF Next

LEMMA SoundInit == Init => Sound
<1> SUFFICES ASSUME Init PROVE Sound
  OBVIOUS
<1>1. Fresh /\ arc \in Log /\ cur \in Log
  BY DEF Init, Fresh, Log
<1> QED
  BY <1>1, FreshIs DEF Empty

LEMMA SoundNext == Sound /\ [Next]_vars => Sound'
<1> SUFFICES ASSUME Sound, [Next]_vars PROVE Sound'
  OBVIOUS
<1>1. CASE UNCHANGED vars
  <2>1. Typed'
    BY <1>1, TypesKept DEF Sound, Typed, vars, mem, store, boot
  <2>2. Resting'
    BY <1>1 DEF Sound, Resting, vars, mem, store, boot
  <2>3. HandlerDeletes'
    BY <1>1, HandlerKeeps DEF Sound, vars, mem
  <2> QED
    BY <2>1, <2>2, <2>3 DEF Sound
<1>2. CASE CallStep
  BY <1>2, CreatePropertySound, SetValueSound, RemovePropertySound, DestroyDeviceSound DEF CallStep
<1>3. CASE ThreadStep
  BY <1>3, AnnounceSound, SubscribeSound, NotifySound, SendSound, ClearSound, DestroySound DEF ThreadStep
<1>4. CASE StorageStep
  BY <1>4, StoReceiveSound, WriteRecordSound, RenameSound, NewLogSound, DumpCompleteSound DEF StorageStep
<1>5. CASE DumpStep
  BY <1>5, LsdReceiveSound, ScanSound DEF DumpStep
<1>6. CASE StartStep
  BY <1>6, LoadArchiveSound, LoadCurrentSound, RestartSound DEF StartStep
<1> QED
  BY <1>1, <1>2, <1>3, <1>4, <1>5, <1>6, NextIs

\* The counters of the history.
Counted == crashes \in Nat /\ cut \in 0 .. crashes /\ discarded \in BOOLEAN

LEMMA CountedInit == Init => Counted
<1> SUFFICES ASSUME Init PROVE Counted
  OBVIOUS
<1>1. crashes = 0 /\ cut = 0 /\ discarded = FALSE
  BY DEF Init
<1>2. crashes \in Nat /\ cut \in 0 .. crashes
  BY <1>1
<1> QED
  BY <1>1, <1>2, Zenon DEF Counted

LEMMA CountedNext == Counted /\ [Next]_vars => Counted'
<1> SUFFICES ASSUME Counted, [Next]_vars PROVE Counted'
  OBVIOUS
<1>1. CASE crashes' = crashes /\ cut' = cut /\ discarded' = discarded
  BY <1>1 DEF Counted
<1>2. CASE UNCHANGED vars
  BY <1>1, <1>2 DEF vars, harm, used
<1>3. CASE CallStep
  <2>1. \E t \in Thread : \E s : StartOp(t, s)
    BY <1>3 DEF CallStep, CreateProperty, SetValue, RemoveProperty, DestroyDevice, Thread, Client
  <2>2. UNCHANGED <<harm, crashes>>
    BY <2>1 DEF StartOp
  <2> QED
    BY <1>1, <2>2 DEF harm
<1>4. CASE ThreadStep
  BY <1>1, <1>4 DEF ThreadStep, Announce, Subscribe, Notify, SendMessage, ClearDevice, DestroyObject, harm, used
<1>5. CASE StorageStep
  BY <1>1, <1>5 DEF StorageStep, StoReceive, WriteRecord, Rename, NewLog, DumpComplete, harm, used
<1>6. CASE DumpStep
  BY <1>1, <1>6 DEF DumpStep, LsdReceive, ScanDevice, harm, used
<1>7. CASE LoadArchive
  <2>1. crashes' = crashes /\ cut' = cut /\ discarded' \in BOOLEAN
    BY <1>7 DEF LoadArchive, used, Counted
  <2> QED
    BY <2>1 DEF Counted
<1>8. CASE LoadCurrent
  <2>1. crashes' = crashes /\ cut' = cut /\ discarded' \in BOOLEAN
    BY <1>8 DEF LoadCurrent, used, Counted
  <2> QED
    BY <2>1 DEF Counted
<1>9. CASE Restart
  <2>1. crashes' = crashes + 1 /\ cut' \in {cut, cut + 1} /\ discarded' = discarded
    BY <1>9 DEF Restart
  <2> QED
    BY <2>1 DEF Counted
<1> QED
  BY <1>2, <1>3, <1>4, <1>5, <1>6, <1>7, <1>8, <1>9, NextIs DEF StartStep

LEMMA SoundTypeOK == Sound /\ Counted => TypeOK
<1> SUFFICES ASSUME Sound, Counted PROVE TypeOK
  OBVIOUS
<1>1. TodoTyped /\ QueueTyped /\ MemTyped /\ RestTyped
  BY DEF Sound, Typed
<1>2. \A k \in DOMAIN shadow : shadow[k] \in [Group -> Value]
  BY <1>1, PropsAre DEF MemTyped
<1> QED
  BY <1>1, <1>2 DEF TypeOK, QueueTyped, MemTyped, RestTyped, Counted

(* Whatever the interleaving and the restarts, the storage handler, the    *)
(* shadow and the queues hold values of their types: every property is one *)
(* of an existing device, subscriptions are to existing properties, and no *)
(* queue holds more than its depth.                                        *)
THEOREM TypeCorrectness == Spec => []TypeOK
<1>1. Spec => [](Sound /\ Counted)
  BY SoundInit, SoundNext, CountedInit, CountedNext, PTL DEF Spec
<1> QED
  BY <1>1, SoundTypeOK, PTL
----------------------------------------------------------------------------
(* Proofs about the dump of Storage.tla: there is one at a time, and when  *)
(* it ends the current log holds everything the archive is kept for.       *)

\* Where a sequence has elements of X, and how many.
Places(q, X) == {i \in DOMAIN q : q[i] \in X}
Count(q, X)  == Cardinality(Places(q, X))

One(b) == IF b THEN 1 ELSE 0

(* Counts are numbers, and none is there when it is 0.                     *)
LEMMA CountIs ==
  ASSUME NEW S, NEW q \in Seq(S), NEW X
  PROVE  /\ IsFiniteSet(Places(q, X)) /\ Count(q, X) \in Nat
         /\ Count(q, X) = 0 <=> Places(q, X) = {}
         /\ Count(q, X) = 0 <=> \A x \in ToSet(q) : x \notin X
<1>1. Places(q, X) \in SUBSET (1 .. Len(q)) /\ Len(q) \in Nat /\ DOMAIN q = 1 .. Len(q)
  BY LenProperties DEF Places
<1>2. IsFiniteSet(1 .. Len(q))
  BY <1>1, FS_Interval
<1>3. IsFiniteSet(Places(q, X)) /\ Count(q, X) \in Nat
  BY <1>1, <1>2, FS_Subset, FS_CardinalityType DEF Count
<1>4. Count(q, X) = 0 <=> Places(q, X) = {}
  BY <1>3, FS_EmptySet DEF Count
<1>5. Places(q, X) = {} <=> \A x \in ToSet(q) : x \notin X
  BY DEF Places, ToSet
<1> QED
  BY <1>3, <1>4, <1>5

LEMMA CountEmpty ==
  ASSUME NEW X
  PROVE  Count(<<>>, X) = 0
<1>1. Places(<<>>, X) = {}
  BY DEF Places
<1> QED
  BY <1>1, FS_EmptySet DEF Count

(* One element more.                                                       *)
LEMMA CountAppended ==
  ASSUME NEW S, NEW q \in Seq(S), NEW x \in S, NEW X
  PROVE  Count(Append(q, x), X) = Count(q, X) + One(x \in X)
<1>1. /\ DOMAIN q = 1 .. Len(q) /\ DOMAIN Append(q, x) = 1 .. (Len(q) + 1) /\ Len(q) \in Nat
      /\ \A i \in 1 .. Len(q) : Append(q, x)[i] = q[i]
      /\ Append(q, x)[Len(q) + 1] = x
  BY OneMore
<1>2. CASE x \in X
  <2>1. Places(Append(q, x), X) = Places(q, X) \cup {Len(q) + 1}
    BY <1>1, <1>2 DEF Places
  <2>2. Len(q) + 1 \notin Places(q, X)
    BY <1>1 DEF Places
  <2>3. IsFiniteSet(Places(q, X))
    BY CountIs
  <2>4. Cardinality(Places(q, X) \cup {Len(q) + 1}) = Cardinality(Places(q, X)) + 1
    BY <2>2, <2>3, FS_AddElement
  <2> QED
    BY <1>2, <2>1, <2>4 DEF Count, One
<1>3. CASE x \notin X
  <2>1. Places(Append(q, x), X) = Places(q, X)
    BY <1>1, <1>3 DEF Places
  <2>2. Count(q, X) \in Nat
    BY CountIs
  <2> QED
    BY <1>3, <2>1, <2>2 DEF Count, One
<1> QED
  BY <1>2, <1>3

(* The first element and the others.                                       *)
LEMMA CountTail ==
  ASSUME NEW S, NEW q \in Seq(S), q # <<>>, NEW X
  PROVE  Count(q, X) = Count(Tail(q), X) + One(Head(q) \in X)
<1>1. /\ Tail(q) \in Seq(S) /\ Len(Tail(q)) = Len(q) - 1 /\ Head(q) = q[1]
      /\ Len(q) \in Nat \ {0}
      /\ DOMAIN q = 1 .. Len(q) /\ DOMAIN Tail(q) = 1 .. (Len(q) - 1)
      /\ \A i \in 1 .. (Len(q) - 1) : Tail(q)[i] = q[i + 1]
  BY FirstAndRest
<1> DEFINE later == Places(q, X) \ {1}
           next == [i \in Places(Tail(q), X) |-> i + 1]
<1>2. next \in Bijection(Places(Tail(q), X), later)
  <2>1. next \in [Places(Tail(q), X) -> later]
    BY <1>1 DEF Places
  <2>2. \A a, b \in Places(Tail(q), X) : next[a] = next[b] => a = b
    BY <1>1 DEF Places
  <2>3. ASSUME NEW t \in later PROVE \E i \in Places(Tail(q), X) : next[i] = t
    <3>1. t - 1 \in Places(Tail(q), X) /\ (t - 1) + 1 = t
      BY <1>1 DEF Places
    <3>2. next[t - 1] = t
      BY <3>1
    <3> QED
      BY <3>1, <3>2
  <2> QED
    BY <2>1, <2>2, <2>3, Fun_IsBij
<1>3. Cardinality(later) = Count(Tail(q), X)
  <2>1. IsFiniteSet(Places(Tail(q), X))
    BY <1>1, CountIs
  <2>2. ExistsBijection(Places(Tail(q), X), later)
    BY <1>2 DEF ExistsBijection
  <2> HIDE DEF later
  <2> QED
    BY <2>1, <2>2, FS_Bijection DEF Count
<1>4. 1 \in Places(q, X) <=> Head(q) \in X
  BY <1>1 DEF Places
<1>5. Cardinality(later) = IF 1 \in Places(q, X) THEN Count(q, X) - 1 ELSE Count(q, X)
  BY CountIs, FS_RemoveElement DEF Count
<1>6. Count(q, X) \in Nat /\ Count(Tail(q), X) \in Nat
  BY <1>1, CountIs
<1> QED
  BY <1>3, <1>4, <1>5, <1>6 DEF One

(* What is put before a sequence and does not count.                       *)
LEMMA CountBefore ==
  ASSUME NEW S, NEW q \in Seq(S), NEW p \in Seq(S), NEW X, \A x \in ToSet(q) : x \notin X
  PROVE  Count(q \o p, X) = Count(p, X)
<1> DEFINE r == q \o p
           n == Len(q)
<1>1. r \in Seq(S) /\ Row(r, q, Len(q), p, Len(p))
  BY InARow
<1>2. /\ DOMAIN p = 1 .. Len(p) /\ DOMAIN q = 1 .. n /\ DOMAIN r = 1 .. Len(r)
      /\ Len(p) \in Nat /\ n \in Nat
  BY <1>1, LenProperties
<1>3. /\ Len(r) = n + Len(p)
      /\ \A i \in 1 .. n : r[i] = q[i]
      /\ \A i \in 1 .. Len(p) : r[n + i] = p[i]
  BY <1>1 DEF Row
<1> HIDE DEF r, n
<1>4. \A i \in 1 .. n : r[i] \notin X
  BY <1>2, <1>3 DEF ToSet
<1> DEFINE moved == [i \in Places(p, X) |-> n + i]
<1>5. moved \in Bijection(Places(p, X), Places(r, X))
  <2>1. moved \in [Places(p, X) -> Places(r, X)]
    BY <1>2, <1>3 DEF Places
  <2>2. \A a, b \in Places(p, X) : moved[a] = moved[b] => a = b
    BY <1>2 DEF Places
  <2>3. ASSUME NEW t \in Places(r, X) PROVE \E i \in Places(p, X) : moved[i] = t
    <3>1. t \in 1 .. n + Len(p) /\ r[t] \in X
      BY <1>2, <1>3 DEF Places
    <3>2. t \notin 1 .. n
      BY <1>4, <3>1
    <3>3. t - n \in 1 .. Len(p) /\ n + (t - n) = t
      BY <1>2, <3>1, <3>2
    <3>4. p[t - n] \in X
      BY <1>3, <3>1, <3>3
    <3>5. t - n \in Places(p, X)
      BY <1>2, <3>3, <3>4 DEF Places
    <3>6. moved[t - n] = t
      BY <3>3, <3>5
    <3> QED
      BY <3>5, <3>6
  <2> QED
    BY <2>1, <2>2, <2>3, Fun_IsBij
<1>6. IsFiniteSet(Places(p, X))
  BY CountIs
<1>7. ExistsBijection(Places(p, X), Places(r, X))
  BY <1>5 DEF ExistsBijection
<1>8. Count(r, X) = Count(p, X)
  BY <1>6, <1>7, FS_Bijection DEF Count
<1> QED
  BY <1>8 DEF r

(* The first element replaced by another.                                  *)
LEMMA CountOther ==
  ASSUME NEW S, NEW q \in Seq(S), q # <<>>, NEW x \in S, NEW X
  PROVE  Count(<<x>> \o Tail(q), X) = Count(Tail(q), X) + One(x \in X)
<1>1. Tail(q) \in Seq(S)
  BY FirstAndRest
<1>2. <<x>> \o Tail(q) \in Seq(S) /\ <<x>> \o Tail(q) # <<>>
  BY OtherFirst
<1>3. Head(<<x>> \o Tail(q)) = x
  BY <1>2, FirstAndRest, OtherFirst
<1>4. Tail(<<x>> \o Tail(q)) = Tail(q)
  <2> DEFINE r == <<x>> \o Tail(q)
  <2>1. /\ Len(r) = Len(q) /\ \A i \in 2 .. Len(q) : r[i] = q[i]
    BY OtherFirst
  <2>2. r \in Seq(S) /\ r # <<>>
    BY <1>2
  <2> HIDE DEF r
  <2>3. /\ Tail(r) \in Seq(S) /\ Len(Tail(r)) = Len(q) - 1 /\ Len(q) \in Nat
        /\ \A i \in 1 .. (Len(q) - 1) : Tail(r)[i] = r[i + 1]
    BY <2>1, <2>2, FirstAndRest, LenProperties
  <2>4. Len(Tail(q)) = Len(q) - 1 /\ \A i \in 1 .. (Len(q) - 1) : Tail(q)[i] = q[i + 1]
    BY FirstAndRest
  <2>5. \A i \in 1 .. (Len(q) - 1) : i + 1 \in 2 .. Len(q)
    BY <2>3
  <2>6. \A i \in 1 .. Len(Tail(q)) : Tail(r)[i] = Tail(q)[i]
    BY <2>1, <2>3, <2>4, <2>5
  <2> QED
    BY <1>1, <2>3, <2>4, <2>6, SeqEqual DEF r
<1> QED
  BY <1>2, <1>3, <1>4, CountTail
----------------------------------------------------------------------------
(* There is one dump at a time.                                            *)

\* The steps that ask for a dump, and what the storage handler is owed: a
\* dump asked for owes it two messages.
Asking      == {NewLogStep, Send("lsd", DumpRequest)}
Completions == Count(queue["sto"], {DumpCompleted}) + Count(todo["lsd"], {CompletedStep})
Requests    == Count(queue["lsd"], {DumpRequest}) + Count(todo["sto"], Asking)
Owed        == dumpCount + Completions + 2 * Requests

EndsWith(q, x) == q # <<>> => q[Len(q)] = x

\* A dump is under way only while there is an archive, or one that has been
\* found by loading; a dump ends with its second message.
OneDump ==
  /\ Owed \in {0, 2}
  /\ Owed = 2 => arc # NoLog
  /\ phase = "current" /\ consolidate => arc # NoLog
  /\ EndsWith(todo["lsd"], CompletedStep)

(* The four counts are numbers.                                            *)
Tallied ==
  /\ Count(queue["sto"], {DumpCompleted}) \in Nat /\ Count(todo["lsd"], {CompletedStep}) \in Nat
  /\ Count(queue["lsd"], {DumpRequest}) \in Nat /\ Count(todo["sto"], Asking) \in Nat
  /\ dumpCount \in {0, 1}
  /\ queue["sto"] \in Seq(StoMessage) /\ queue["lsd"] \in Seq({DumpRequest})
  /\ todo["lsd"] \in Seq(LsdSteps) /\ todo["sto"] \in Seq(StoSteps)

LEMMA CountsAre == Typed => Tallied
<1> SUFFICES ASSUME Typed PROVE Tallied
  OBVIOUS
<1>1. /\ queue["sto"] \in Seq(StoMessage) /\ queue["lsd"] \in Seq({DumpRequest})
      /\ todo["lsd"] \in Seq(LsdSteps) /\ todo["sto"] \in Seq(StoSteps)
      /\ dumpCount \in {0, 1}
  BY StepsAre DEF Typed, QueueTyped, TodoTyped, RestTyped
<1> QED
  BY <1>1, CountIs DEF Tallied

LEMMA CountsAfter == (Typed => Tallied)'
BY CountsAre, PTL

LEMMA SumsAre == Tallied => /\ Requests \in Nat /\ Completions \in Nat
                            /\ Completions >= Count(todo["lsd"], {CompletedStep})
                            /\ Completions >= Count(queue["sto"], {DumpCompleted})
<1> DEFINE a == Count(queue["sto"], {DumpCompleted})
           b == Count(todo["lsd"], {CompletedStep})
           c == Count(queue["lsd"], {DumpRequest})
           d == Count(todo["sto"], Asking)
<1>1. Completions = a + b /\ Requests = c + d
  BY DEF Completions, Requests
<1>2. Tallied => a \in Nat /\ b \in Nat /\ c \in Nat /\ d \in Nat
  BY DEF Tallied
<1> HIDE DEF a, b, c, d
<1>3. Tallied => /\ Requests \in Nat /\ Completions \in Nat /\ Completions >= b /\ Completions >= a
  BY <1>1, <1>2
<1> QED
  BY <1>3 DEF a, b

LEMMA SumsAfter == (Tallied => /\ Requests \in Nat /\ Completions \in Nat
                               /\ Completions >= Count(todo["lsd"], {CompletedStep})
                               /\ Completions >= Count(queue["sto"], {DumpCompleted}))'
BY SumsAre, PTL

(* The last element stays when the first one goes, or gives way to another.*)
LEMMA LastStays ==
  ASSUME NEW S, NEW q \in Seq(S), q # <<>>, NEW x, EndsWith(q, x)
  PROVE  /\ EndsWith(Tail(q), x)
         /\ \A y \in S : Head(q) # x => EndsWith(<<y>> \o Tail(q), x) /\ Tail(q) # <<>>
<1>1. /\ Tail(q) \in Seq(S) /\ Len(q) \in Nat \ {0} /\ Len(Tail(q)) = Len(q) - 1
      /\ \A i \in 1 .. (Len(q) - 1) : Tail(q)[i] = q[i + 1]
      /\ Head(q) = q[1]
  BY FirstAndRest
<1>2. ASSUME Tail(q) # <<>> PROVE Tail(q)[Len(Tail(q))] = x
  <2>1. Len(q) - 1 # 0
    BY <1>1, <1>2, EmptySeq
  <2>2. Len(q) - 1 \in 1 .. (Len(q) - 1) /\ (Len(q) - 1) + 1 = Len(q)
    BY <1>1, <2>1
  <2> QED
    BY <1>1, <2>2 DEF EndsWith
<1>3. ASSUME NEW y \in S, Head(q) # x PROVE EndsWith(<<y>> \o Tail(q), x) /\ Tail(q) # <<>>
  <2>1. Len(q) # 1
    BY <1>1, <1>3 DEF EndsWith
  <2>2. Len(q) \in 2 .. Len(q)
    BY <1>1, <2>1
  <2>3. Len(<<y>> \o Tail(q)) = Len(q) /\ \A i \in 2 .. Len(q) : (<<y>> \o Tail(q))[i] = q[i]
    BY OtherFirst
  <2>4. (<<y>> \o Tail(q))[Len(q)] = q[Len(q)]
    BY <2>2, <2>3
  <2>5. Tail(q) # <<>>
    <3>1. Len(Tail(q)) # Len(<<>>)
      BY <1>1, <2>1
    <3> QED
      BY <3>1
  <2> QED
    BY <2>3, <2>4, <2>5 DEF EndsWith
<1> QED
  BY <1>2, <1>3 DEF EndsWith

LEMMA LastStaysBehind ==
  ASSUME NEW S, NEW q \in Seq(S), NEW p \in Seq(S), p # <<>>, NEW x, EndsWith(p, x)
  PROVE  EndsWith(q \o p, x)
<1>1. q \o p \in Seq(S) /\ Row(q \o p, q, Len(q), p, Len(p))
  BY InARow
<1>2. Len(p) \in Nat \ {0} /\ Len(q) \in Nat
  BY FirstAndRest, LenProperties
<1>3. Len(q \o p) = Len(q) + Len(p) /\ (q \o p)[Len(q) + Len(p)] = p[Len(p)]
  <2>1. Len(p) \in 1 .. Len(p)
    BY <1>2
  <2> QED
    BY <1>1, <2>1 DEF Row
<1> QED
  BY <1>3 DEF EndsWith

(* A step of a client, or a call, does nothing to a dump.                  *)
LEMMA ClientsDumpNothing ==
  ASSUME OneDump, queue' = queue, todo'["sto"] = todo["sto"], todo'["lsd"] = todo["lsd"],
         arc' = arc, dumpCount' = dumpCount, phase = "run", phase' = phase
  PROVE  OneDump'
BY DEF OneDump, Owed, Completions, Requests

(* What a dump owes is all that its steps change.                          *)
LEMMA CompletedIs ==
  /\ \A m : Send("sto", m) = CompletedStep <=> m = DumpCompleted
  /\ \A s : s.op # "send" => s # CompletedStep /\ s # Send("lsd", DumpRequest)
  /\ \A m : m.type # "dumpCompleted" => m # DumpCompleted
  /\ \A s : s.op # "newLog" => s # NewLogStep
  /\ NewLogStep.op = "newLog" /\ CompletedStep \notin Asking
BY DEF Send, CompletedStep, DumpCompleted, Asking, NewLogStep

LEMMA SendOwes ==
  ASSUME Sound, OneDump, NEW t \in Thread, SendMessage(t)
  PROVE  OneDump'
<1>1. Tallied /\ Tallied'
  BY SendSound, CountsAre, CountsAfter DEF Sound
<1>2. /\ phase = "run" /\ SameRest
      /\ todo[t] # <<>> /\ Goes(t, {}) /\ todo'[t] = Tail(todo[t])
      /\ StepFields(t, Head(todo[t])) /\ Head(todo[t]).op = "send"
      /\ t = "sto" => /\ queue'["sto"] = queue["sto"]
                      /\ queue'["lsd"] = Append(queue["lsd"], DumpRequest)
      /\ t # "sto" => /\ queue'["sto"] = Append(queue["sto"], Head(todo[t]).msg)
                      /\ queue'["lsd"] = queue["lsd"]
  BY SendSound
<1>3. \A u \in Thread \ {t} : todo'[u] = todo[u]
  BY <1>2 DEF Goes
<1>4. arc' = arc /\ dumpCount' = dumpCount /\ phase' = phase
  BY <1>2 DEF SameRest
<1>5. CASE t = "sto"
  <2>1. Head(todo["sto"]) = Send("lsd", DumpRequest)
    BY <1>2, <1>5 DEF StepFields
  <2>2. Count(todo["sto"], Asking) = Count(todo'["sto"], Asking) + 1
    <3>1. Count(todo["sto"], Asking) = Count(Tail(todo["sto"]), Asking) + One(Head(todo["sto"]) \in Asking)
      BY <1>1, <1>2, <1>5, CountTail DEF Tallied
    <3> QED
      BY <1>2, <1>5, <2>1, <3>1 DEF One, Asking
  <2>3. Count(queue'["lsd"], {DumpRequest}) = Count(queue["lsd"], {DumpRequest}) + 1
    <3>1. Count(Append(queue["lsd"], DumpRequest), {DumpRequest})
            = Count(queue["lsd"], {DumpRequest}) + One(DumpRequest \in {DumpRequest})
      BY <1>1, CountAppended DEF Tallied
    <3> QED
      BY <1>2, <1>5, <3>1 DEF One
  <2>4. queue'["sto"] = queue["sto"] /\ todo'["lsd"] = todo["lsd"]
    BY <1>2, <1>3, <1>5, StepsAre
  <2>5. Owed' = Owed
    <3>1. Count(todo["sto"], Asking)' \in Nat /\ Count(queue["lsd"], {DumpRequest}) \in Nat
      BY <1>1 DEF Tallied
    <3>2. Requests' = Requests
      BY <2>2, <2>3, <3>1 DEF Requests, Asking
    <3>3. Completions' = Completions
      BY <2>4 DEF Completions
    <3> QED
      BY <1>4, <3>2, <3>3 DEF Owed
  <2> QED
    BY <1>2, <1>4, <2>4, <2>5 DEF OneDump
<1>6. CASE t = "lsd"
  <2> DEFINE m == Head(todo["lsd"]).msg
  <2>1. Head(todo["lsd"]) = Send("sto", m) /\ m \in StoMessage
    BY <1>2, <1>6 DEF StepFields
  <2> HIDE DEF m
  <2>2. One(Head(todo["lsd"]) \in {CompletedStep}) = One(m \in {DumpCompleted})
    BY <2>1, CompletedIs DEF One
  <2>3. Count(todo["lsd"], {CompletedStep})
          = Count(todo'["lsd"], {CompletedStep}) + One(m \in {DumpCompleted})
    BY <1>1, <1>2, <1>6, <2>2, CountTail DEF Tallied
  <2>4. Count(queue'["sto"], {DumpCompleted})
          = Count(queue["sto"], {DumpCompleted}) + One(m \in {DumpCompleted})
    <3>1. Count(Append(queue["sto"], m), {DumpCompleted})
            = Count(queue["sto"], {DumpCompleted}) + One(m \in {DumpCompleted})
      BY <1>1, <2>1, CountAppended DEF Tallied
    <3> QED
      BY <1>2, <1>6, <3>1 DEF m
  <2>5. queue'["lsd"] = queue["lsd"] /\ todo'["sto"] = todo["sto"]
    BY <1>2, <1>3, <1>6, StepsAre
  <2>6. Owed' = Owed
    <3>1. Count(todo["lsd"], {CompletedStep})' \in Nat /\ Count(queue["sto"], {DumpCompleted}) \in Nat
          /\ One(m \in {DumpCompleted}) \in Nat
      BY <1>1 DEF Tallied, One
    <3>2. Completions' = Completions
      BY <2>3, <2>4, <3>1 DEF Completions
    <3>3. Requests' = Requests
      BY <2>5 DEF Requests
    <3> QED
      BY <1>4, <3>2, <3>3 DEF Owed
  <2>7. EndsWith(todo'["lsd"], CompletedStep)
    BY <1>1, <1>2, <1>6, LastStays DEF OneDump, Tallied
  <2> QED
    BY <1>2, <1>4, <2>6, <2>7 DEF OneDump
<1>7. CASE t \in Client
  <2>1. t # "sto" /\ t # "lsd"
    BY <1>7, StepsAre
  <2> DEFINE m == Head(todo[t]).msg
  <2>2. m \in StoMessage /\ m \notin {DumpCompleted}
    <3>1. m \in DeltaMessage \cup Deletion /\ m \in StoMessage
      BY <1>2, <1>7, <2>1, StepsAre DEF StepFields
    <3>2. m.type # "dumpCompleted"
      BY <3>1 DEF DeltaMessage, Deletion
    <3> QED
      BY <3>1, <3>2, CompletedIs
  <2> HIDE DEF m
  <2>3. Count(queue'["sto"], {DumpCompleted}) = Count(queue["sto"], {DumpCompleted})
    <3>1. Count(Append(queue["sto"], m), {DumpCompleted})
            = Count(queue["sto"], {DumpCompleted}) + One(m \in {DumpCompleted})
      BY <1>1, <2>2, CountAppended DEF Tallied
    <3>2. Count(queue["sto"], {DumpCompleted}) \in Nat
      BY <1>1 DEF Tallied
    <3>3. One(m \in {DumpCompleted}) = 0
      BY <2>2 DEF One
    <3>4. queue'["sto"] = Append(queue["sto"], m)
      BY <1>2, <2>1 DEF m
    <3> QED
      BY <3>1, <3>2, <3>3, <3>4
  <2>4. queue'["lsd"] = queue["lsd"] /\ todo'["sto"] = todo["sto"] /\ todo'["lsd"] = todo["lsd"]
    BY <1>2, <1>3, <2>1, StepsAre
  <2>5. Owed' = Owed
    BY <1>4, <2>3, <2>4 DEF Owed, Completions, Requests
  <2> QED
    BY <1>2, <1>4, <2>4, <2>5 DEF OneDump
<1> QED
  BY <1>5, <1>6, <1>7, StepsAre
(* A dump owes two messages.                                               *)
LEMMA DumpOwes ==
  ASSUME NEW order \in Seq(Device), ToSet(order) = Device
  PROVE  /\ Count(DumpSteps(order), {CompletedStep}) = 2
         /\ EndsWith(DumpSteps(order), CompletedStep)
<1>1. PICK n \in Nat : {i \in DOMAIN DumpSteps(order) : DumpSteps(order)[i] = CompletedStep}
                         = {n + 1, n + n + 2}
  BY DumpStepsAre
<1>2. Places(DumpSteps(order), {CompletedStep}) = {n + 1} \cup {n + n + 2}
  BY <1>1 DEF Places
<1>3. n + n + 2 \notin {n + 1}
  OBVIOUS
<1>4. IsFiniteSet({n + 1}) /\ Cardinality({n + 1}) = 1
  BY FS_Singleton
<1>5. Cardinality({n + 1} \cup {n + n + 2}) = 2
  <2>1. Cardinality({n + 1} \cup {n + n + 2}) = Cardinality({n + 1}) + 1
    BY <1>3, <1>4, FS_AddElement
  <2> QED
    BY <1>4, <2>1
<1> QED
  BY <1>2, <1>5, DumpStepsAre DEF Count, EndsWith

(* What a message makes the storage handler do asks for no dump.           *)
LEMMA HandlingAsksNothing ==
  ASSUME NEW m \in StoMessage, m.type # "dumpCompleted"
  PROVE  \A s \in ToSet(Handling(m)) : s \notin Asking /\ s.op \in {"record", "consolidate"}
<1>1. \A r : RecordStep(r).op = "record"
  BY DEF RecordStep
<1>2. [op |-> "consolidate"].op = "consolidate"
  OBVIOUS
<1>3. CASE m.type = "delta"
  <2>1. Handling(m) = Writes(m) \o <<[op |-> "consolidate"]>> /\ m \in DeltaMessage
    BY <1>3, HandlingIs, MessageIs
  <2>2. ToSet(Handling(m))
          = {RecordStep(SetRecord(m.deltas[i][1], m.group, m.deltas[i][2])) : i \in DOMAIN m.deltas}
              \cup {[op |-> "consolidate"]}
    BY <2>1, WritesTyped
  <2>3. \A s \in ToSet(Handling(m)) : s.op \in {"record", "consolidate"}
    BY <1>1, <1>2, <2>2
  <2> QED
    BY <2>3, CompletedIs DEF Asking
<1>4. CASE m.type \in {"propertyDeleted", "thingDeleted"}
  <2>1. \E r : Handling(m) = <<RecordStep(r)>>
    BY <1>4, HandlingIs
  <2>2. \A s \in ToSet(Handling(m)) : s.op = "record"
    BY <1>1, <2>1 DEF ToSet
  <2> QED
    BY <2>2, CompletedIs DEF Asking
<1> QED
  BY <1>3, <1>4, MessageIs

LEMMA StoReceiveOwes ==
  ASSUME Sound, OneDump, StoReceive
  PROVE  OneDump'
<1> DEFINE m == Head(queue["sto"])
<1>1. Tallied /\ Tallied'
  BY StoReceiveSound, CountsAre, CountsAfter DEF Sound
<1>2. /\ phase = "run" /\ SameRest /\ todo["sto"] = <<>> /\ queue["sto"] # <<>>
      /\ \A u \in Thread \ {"sto"} : todo'[u] = todo[u]
      /\ queue'["sto"] = Tail(queue["sto"]) /\ queue'["lsd"] = queue["lsd"]
      /\ m \in StoMessage /\ m.type # "dumpCompleted" /\ todo'["sto"] = Handling(m)
  BY StoReceiveSound
<1> HIDE DEF m
<1>3. todo'["lsd"] = todo["lsd"]
  BY <1>2, StepsAre
<1>4. Count(todo["sto"], Asking) = 0 /\ Count(todo["sto"], Asking)' = 0
  <2>1. \A s \in ToSet(Handling(m)) : s \notin Asking
    BY <1>2, HandlingAsksNothing
  <2>2. Handling(m) \in Seq(StoSteps)
    BY <1>2, HandlingIs
  <2>3. Count(Handling(m), Asking) = 0
    BY <2>1, <2>2, CountIs
  <2>4. Asking' = Asking
    BY DEF Asking
  <2> QED
    BY <1>2, <2>3, <2>4, CountEmpty
<1>5. Count(queue["sto"], {DumpCompleted}) = Count(queue["sto"], {DumpCompleted})'
  <2>1. Count(queue["sto"], {DumpCompleted})
          = Count(Tail(queue["sto"]), {DumpCompleted}) + One(m \in {DumpCompleted})
    BY <1>1, <1>2, CountTail DEF Tallied, m
  <2>2. One(m \in {DumpCompleted}) = 0
    BY <1>2, CompletedIs DEF One
  <2>3. Count(queue["sto"], {DumpCompleted})' \in Nat
    BY <1>1 DEF Tallied
  <2> QED
    BY <1>2, <2>1, <2>2, <2>3
<1>6. Owed' = Owed
  BY <1>2, <1>3, <1>4, <1>5 DEF Owed, Completions, Requests, SameRest
<1> QED
  BY <1>2, <1>3, <1>6 DEF OneDump, SameRest

LEMMA WriteRecordOwes ==
  ASSUME Sound, OneDump, WriteRecord
  PROVE  OneDump'
<1>1. Tallied /\ Tallied'
  BY WriteRecordSound, CountsAre, CountsAfter DEF Sound
<1>2. /\ phase = "run" /\ queue' = queue /\ arc' = arc /\ phase' = phase /\ dumpCount' = dumpCount
      /\ Goes("sto", {}) /\ todo["sto"] # <<>> /\ todo'["sto"] = Tail(todo["sto"])
  BY WriteRecordSound
<1>3. \E r : Head(todo["sto"]) = RecordStep(r)
  BY WriteRecordSound
<1>4. todo'["lsd"] = todo["lsd"]
  BY <1>2, StepsAre DEF Goes
<1>5. Count(todo["sto"], Asking) = Count(todo["sto"], Asking)'
  <2>1. One(Head(todo["sto"]) \in Asking) = 0
    <3>1. Head(todo["sto"]).op = "record"
      BY <1>3 DEF RecordStep
    <3> QED
      BY <3>1, CompletedIs DEF One, Asking
  <2>2. Count(todo["sto"], Asking) = Count(Tail(todo["sto"]), Asking) + One(Head(todo["sto"]) \in Asking)
    BY <1>1, <1>2, CountTail DEF Tallied
  <2>3. Asking' = Asking
    BY DEF Asking
  <2>4. Count(todo["sto"], Asking)' \in Nat
    BY <1>1 DEF Tallied
  <2> QED
    BY <1>2, <2>1, <2>2, <2>3, <2>4
<1>6. Owed' = Owed
  BY <1>2, <1>4, <1>5 DEF Owed, Completions, Requests
<1> QED
  BY <1>2, <1>4, <1>6 DEF OneDump

LEMMA RenameOwes ==
  ASSUME Sound, OneDump, Rename
  PROVE  OneDump'
<1>1. Tallied /\ Tallied'
  BY RenameSound, CountsAre, CountsAfter DEF Sound
<1>2. /\ phase = "run" /\ queue' = queue /\ phase' = phase /\ dumpCount' = dumpCount
      /\ todo["sto"] # <<>> /\ Head(todo["sto"]) = [op |-> "consolidate"]
      /\ \/ /\ arc = NoLog /\ cur # NoLog /\ arc' = cur
            /\ Goes("sto", {NewLogStep}) /\ todo'["sto"] = <<NewLogStep>> \o Tail(todo["sto"])
         \/ arc' = arc /\ Goes("sto", {}) /\ todo'["sto"] = Tail(todo["sto"])
  BY RenameSound
<1>3. todo'["lsd"] = todo["lsd"]
  BY <1>2, StepsAre DEF Goes
<1>4. Count(todo["sto"], Asking) = Count(Tail(todo["sto"]), Asking)
      /\ Count(Tail(todo["sto"]), Asking) \in Nat /\ Asking' = Asking
  <2>1. One(Head(todo["sto"]) \in Asking) = 0
    <3>1. Head(todo["sto"]).op = "consolidate"
      BY <1>2
    <3> QED
      BY <3>1, CompletedIs DEF One, Asking
  <2>2. Count(todo["sto"], Asking) = Count(Tail(todo["sto"]), Asking) + One(Head(todo["sto"]) \in Asking)
    BY <1>1, <1>2, CountTail DEF Tallied
  <2>3. Tail(todo["sto"]) \in Seq(StoSteps)
    BY <1>1, <1>2, FirstAndRest DEF Tallied
  <2>4. Count(Tail(todo["sto"]), Asking) \in Nat
    BY <2>3, CountIs
  <2> QED
    BY <2>1, <2>2, <2>4 DEF Asking
<1>5. CASE arc' = arc /\ todo'["sto"] = Tail(todo["sto"])
  <2>1. Owed' = Owed
    BY <1>2, <1>3, <1>4, <1>5 DEF Owed, Completions, Requests
  <2> QED
    BY <1>2, <1>3, <1>5, <2>1 DEF OneDump
<1>6. CASE arc = NoLog /\ cur # NoLog /\ arc' = cur /\ todo'["sto"] = <<NewLogStep>> \o Tail(todo["sto"])
  <2>1. Owed = 0
    BY <1>6 DEF OneDump
  <2>2. Count(todo["sto"], Asking)' = Count(todo["sto"], Asking) + 1
    <3>1. NewLogStep \in StoSteps /\ One(NewLogStep \in Asking) = 1
      BY DEF StoSteps, One, Asking
    <3>2. Count(<<NewLogStep>> \o Tail(todo["sto"]), Asking)
            = Count(Tail(todo["sto"]), Asking) + One(NewLogStep \in Asking)
      BY <1>1, <1>2, <3>1, CountOther DEF Tallied
    <3> QED
      BY <1>4, <1>6, <3>1, <3>2
  <2>3. Owed' = 2
    <3>1. Requests' = Requests + 1 /\ Completions' = Completions
      <4>1. /\ Count(queue["lsd"], {DumpRequest})' = Count(queue["lsd"], {DumpRequest})
            /\ Count(queue["lsd"], {DumpRequest}) \in Nat /\ Count(todo["sto"], Asking) \in Nat
        BY <1>1, <1>2 DEF Tallied
      <4>2. Requests' = Requests + 1
        BY <2>2, <4>1 DEF Requests
      <4> QED
        BY <1>2, <1>3, <4>2 DEF Completions
    <3>2. Requests \in Nat /\ Completions \in Nat
      BY <1>1, SumsAre
    <3>3. dumpCount \in Nat
      BY <1>1 DEF Tallied
    <3> QED
      BY <1>2, <2>1, <3>1, <3>2, <3>3 DEF Owed
  <2> QED
    BY <1>2, <1>3, <1>6, <2>3 DEF OneDump
<1> QED
  BY <1>2, <1>5, <1>6

LEMMA NewLogOwes ==
  ASSUME Sound, OneDump, NewLog
  PROVE  OneDump'
<1>1. Tallied /\ Tallied'
  BY NewLogSound, CountsAre, CountsAfter DEF Sound
<1>2. /\ phase = "run" /\ queue' = queue /\ arc' = arc /\ phase' = phase /\ dumpCount' = dumpCount
      /\ todo["sto"] # <<>> /\ Head(todo["sto"]) = NewLogStep /\ Goes("sto", {Send("lsd", DumpRequest)})
      /\ todo'["sto"] = <<Send("lsd", DumpRequest)>> \o Tail(todo["sto"])
  BY NewLogSound
<1>3. todo'["lsd"] = todo["lsd"]
  BY <1>2, StepsAre DEF Goes
<1>4. Count(todo["sto"], Asking)' = Count(todo["sto"], Asking)
  <2>1. /\ Send("lsd", DumpRequest) \in StoSteps
        /\ One(Send("lsd", DumpRequest) \in Asking) = 1 /\ One(Head(todo["sto"]) \in Asking) = 1
    BY <1>2 DEF StoSteps, One, Asking
  <2>2. Count(todo["sto"], Asking) = Count(Tail(todo["sto"]), Asking) + One(Head(todo["sto"]) \in Asking)
    BY <1>1, <1>2, CountTail DEF Tallied
  <2>3. Count(<<Send("lsd", DumpRequest)>> \o Tail(todo["sto"]), Asking)
          = Count(Tail(todo["sto"]), Asking) + One(Send("lsd", DumpRequest) \in Asking)
    BY <1>1, <1>2, <2>1, CountOther DEF Tallied
  <2>4. Asking' = Asking
    BY DEF Asking
  <2> QED
    BY <1>2, <2>1, <2>2, <2>3, <2>4
<1>5. Owed' = Owed
  BY <1>2, <1>3, <1>4 DEF Owed, Completions, Requests
<1> QED
  BY <1>2, <1>3, <1>5 DEF OneDump
LEMMA DumpCompleteOwes ==
  ASSUME Sound, OneDump, DumpComplete
  PROVE  /\ OneDump'
         /\ dumpCount = 1 => /\ Steps("lsd") = {} /\ Completions = 1 /\ Owed = 2
                             /\ Count(queue["sto"], {DumpCompleted})' = 0
<1>1. Tallied /\ Tallied' /\ Typed
  BY DumpCompleteSound, CountsAre, CountsAfter DEF Sound
<1>2. /\ phase = "run" /\ todo' = todo /\ phase' = phase /\ queue["sto"] # <<>>
      /\ queue'["sto"] = Tail(queue["sto"]) /\ queue'["lsd"] = queue["lsd"]
      /\ Head(queue["sto"]) = DumpCompleted
      /\ \/ dumpCount = 0 /\ dumpCount' = 1 /\ arc' = arc
         \/ dumpCount = 1 /\ dumpCount' = 0 /\ arc' = NoLog
  BY DumpCompleteSound
<1>3. Count(queue["sto"], {DumpCompleted}) = Count(queue["sto"], {DumpCompleted})' + 1
  <2>1. Count(queue["sto"], {DumpCompleted})
          = Count(Tail(queue["sto"]), {DumpCompleted}) + One(Head(queue["sto"]) \in {DumpCompleted})
    BY <1>1, <1>2, CountTail DEF Tallied
  <2>2. One(Head(queue["sto"]) \in {DumpCompleted}) = 1
    BY <1>2 DEF One
  <2> QED
    BY <1>2, <2>1, <2>2
<1>4. Requests' = Requests
  BY <1>2 DEF Requests, Asking
<1>5. Completions' = Completions - 1
  <2>1. Count(todo["lsd"], {CompletedStep})' = Count(todo["lsd"], {CompletedStep})
    BY <1>2
  <2> QED
    BY <1>1, <1>3, <2>1 DEF Completions, Tallied
<1>6. /\ Requests \in Nat /\ Completions \in Nat /\ Completions >= 1 /\ Completions' \in Nat
      /\ Completions >= Count(todo["lsd"], {CompletedStep}) + 1
  <2> DEFINE a == Count(queue["sto"], {DumpCompleted})'
             b == Count(todo["lsd"], {CompletedStep})
  <2>1. Completions = (a + 1) + b
    BY <1>3 DEF Completions
  <2>2. a \in Nat /\ b \in Nat /\ Requests \in Nat /\ Completions \in Nat
    BY <1>1, SumsAre DEF Tallied
  <2>3. Completions' \in Nat
    BY <1>1, SumsAfter
  <2> HIDE DEF a, b
  <2>4. Completions >= 1 /\ Completions >= b + 1
    BY <2>1, <2>2
  <2> QED
    BY <2>2, <2>3, <2>4 DEF b
<1>7. CASE dumpCount = 0 /\ dumpCount' = 1 /\ arc' = arc
  <2>1. Owed' = Owed
    BY <1>4, <1>5, <1>6, <1>7 DEF Owed
  <2> QED
    BY <1>2, <1>7, <2>1 DEF OneDump
<1>8. CASE dumpCount = 1 /\ dumpCount' = 0 /\ arc' = NoLog
  <2>1. Owed = 2 /\ Completions = 1 /\ Owed' = 0
    <3>1. Owed = 1 + Completions + 2 * Requests /\ Owed' = Completions' + 2 * Requests
      BY <1>4, <1>5, <1>6, <1>8 DEF Owed
    <3>2. Owed \in {0, 2}
      BY DEF OneDump
    <3> QED
      BY <1>5, <1>6, <3>1, <3>2
  <2>2. Count(todo["lsd"], {CompletedStep}) = 0 /\ Count(queue["sto"], {DumpCompleted})' = 0
    <3>1. /\ Count(todo["lsd"], {CompletedStep}) \in Nat /\ Count(queue["sto"], {DumpCompleted})' \in Nat
          /\ Completions = Count(queue["sto"], {DumpCompleted}) + Count(todo["lsd"], {CompletedStep})
      BY <1>1 DEF Tallied, Completions
    <3> HIDE DEF Completions
    <3> DEFINE a == Count(queue["sto"], {DumpCompleted})'
               b == Count(todo["lsd"], {CompletedStep})
    <3>2. a \in Nat /\ b \in Nat /\ (a + 1) + b = 1
      BY <1>3, <2>1, <3>1
    <3> HIDE DEF a, b
    <3>3. a = 0 /\ b = 0
      BY <3>2
    <3> QED
      BY <3>3 DEF a, b
  <2>3. todo["lsd"] = <<>>
    <3>1. SUFFICES ASSUME todo["lsd"] # <<>> PROVE FALSE
      OBVIOUS
    <3>2. todo["lsd"][Len(todo["lsd"])] = CompletedStep
      BY <3>1 DEF OneDump, EndsWith
    <3>3. Len(todo["lsd"]) \in DOMAIN todo["lsd"]
      BY <1>1, <3>1, FirstAndRest DEF Tallied
    <3>4. CompletedStep \in ToSet(todo["lsd"])
      BY <3>2, <3>3 DEF ToSet
    <3> QED
      BY <1>1, <2>2, <3>4, CountIs DEF Tallied
  <2>4. Steps("lsd") = {}
    BY <2>3, NoElements DEF Steps
  <2> QED
    BY <1>2, <1>8, <2>1, <2>2, <2>4 DEF OneDump
<1> QED
  BY <1>2, <1>7, <1>8

LEMMA LsdReceiveOwes ==
  ASSUME Sound, OneDump, LsdReceive
  PROVE  OneDump'
<1>1. Tallied /\ Tallied'
  BY LsdReceiveSound, CountsAre, CountsAfter DEF Sound
<1>2. /\ phase = "run" /\ SameRest /\ todo["lsd"] = <<>> /\ queue["lsd"] # <<>>
      /\ \A u \in Thread \ {"lsd"} : todo'[u] = todo[u]
      /\ queue'["lsd"] = Tail(queue["lsd"]) /\ queue'["sto"] = queue["sto"]
  BY LsdReceiveSound
<1>3. PICK order \in Seq(Device) : ToSet(order) = Device /\ todo'["lsd"] = DumpSteps(order)
  BY LsdReceiveSound
<1>4. todo'["sto"] = todo["sto"] /\ arc' = arc /\ dumpCount' = dumpCount /\ phase' = phase
  BY <1>2, StepsAre DEF SameRest
<1>5. Requests = Requests' + 1 /\ Requests' \in Nat
  <2>1. Count(queue["lsd"], {DumpRequest})
          = Count(Tail(queue["lsd"]), {DumpRequest}) + One(Head(queue["lsd"]) \in {DumpRequest})
    BY <1>1, <1>2, CountTail DEF Tallied
  <2>2. Head(queue["lsd"]) \in {DumpRequest}
    BY <1>1, <1>2, FirstAndRest DEF Tallied
  <2>3. Count(queue["lsd"], {DumpRequest}) = Count(queue["lsd"], {DumpRequest})' + 1
    BY <1>2, <2>1, <2>2 DEF One
  <2>4. Count(todo["sto"], Asking)' = Count(todo["sto"], Asking)
    BY <1>4 DEF Asking
  <2> QED
    <3> DEFINE a == Count(queue["lsd"], {DumpRequest})
               c == Count(queue["lsd"], {DumpRequest})'
               b == Count(todo["sto"], Asking)
    <3>1. Requests = a + b /\ Requests' = c + b /\ a = c + 1
      BY <2>3, <2>4 DEF Requests
    <3>2. b \in Nat /\ c \in Nat
      BY <1>1 DEF Tallied
    <3> HIDE DEF a, b, c
    <3> QED
      BY <3>1, <3>2
<1>6. Completions' = Completions + 2 /\ Completions \in Nat
  <2>1. Count(todo["lsd"], {CompletedStep}) = 0 /\ Count(todo["lsd"], {CompletedStep})' = 2
    BY <1>2, <1>3, CountEmpty, DumpOwes DEF CompletedStep
  <2> QED
    BY <1>1, <1>2, <2>1 DEF Completions, Tallied
<1>7. Owed' = Owed
  BY <1>1, <1>4, <1>5, <1>6 DEF Owed, Tallied
<1> QED
  BY <1>3, <1>4, <1>2, <1>7, DumpOwes DEF OneDump

LEMMA ScanOwes ==
  ASSUME Sound, OneDump, ScanDevice
  PROVE  OneDump'
<1>1. Tallied /\ Tallied' /\ MemTyped
  BY ScanSound, CountsAre, CountsAfter DEF Sound, Typed
<1>2. phase = "run" /\ SameRest /\ queue' = queue /\ todo["lsd"] # <<>>
  BY ScanSound
<1>3. PICK d \in Device, g \in Group, q \in Seq(LsdSteps) :
        /\ Head(todo["lsd"]) = [op |-> "scan", dev |-> d, group |-> g]
        /\ \A x \in ToSet(q) : \E p \in Seq(DOMAIN shadow) : x = Send("sto", ScanMessage(g, p))
        /\ Goes("lsd", ToSet(q)) /\ todo'["lsd"] = q \o Tail(todo["lsd"])
  BY ScanSound
<1>4. todo'["sto"] = todo["sto"] /\ arc' = arc /\ dumpCount' = dumpCount /\ phase' = phase
  BY <1>2, <1>3, StepsAre DEF SameRest, Goes
<1>5. Head(todo["lsd"]) # CompletedStep
  <2>1. Head(todo["lsd"]).op = "scan"
    BY <1>3
  <2> QED
    BY <2>1, CompletedIs
<1>6. Count(todo["lsd"], {CompletedStep}) = Count(Tail(todo["lsd"]), {CompletedStep})
      /\ Count(Tail(todo["lsd"]), {CompletedStep}) \in Nat
  <2>1. Count(todo["lsd"], {CompletedStep})
          = Count(Tail(todo["lsd"]), {CompletedStep}) + One(Head(todo["lsd"]) \in {CompletedStep})
    BY <1>1, <1>2, CountTail DEF Tallied
  <2>2. One(Head(todo["lsd"]) \in {CompletedStep}) = 0
    BY <1>5 DEF One
  <2>3. Tail(todo["lsd"]) \in Seq(LsdSteps)
    BY <1>1, <1>2, FirstAndRest DEF Tallied
  <2>4. Count(Tail(todo["lsd"]), {CompletedStep}) \in Nat
    BY <2>3, CountIs
  <2> QED
    BY <2>1, <2>2, <2>4
<1>7. /\ Count(todo["lsd"], {CompletedStep})' = Count(todo["lsd"], {CompletedStep})
      /\ EndsWith(todo'["lsd"], CompletedStep)
  <2>0. CompletedStep' = CompletedStep
    BY DEF CompletedStep, DumpCompleted
  <2>1. \A x \in ToSet(q) : x \notin {CompletedStep}
    <3> SUFFICES ASSUME NEW x \in ToSet(q) PROVE x # CompletedStep
      OBVIOUS
    <3>1. PICK p \in Seq(DOMAIN shadow) : x = Send("sto", ScanMessage(g, p))
      BY <1>3
    <3>2. ScanMessage(g, p).type = "delta"
      BY <1>1, ScanMessageIs
    <3> QED
      BY <3>1, <3>2, CompletedIs
  <2>2. Tail(todo["lsd"]) \in Seq(LsdSteps)
    BY <1>1, <1>2, FirstAndRest DEF Tallied
  <2>3. Count(q \o Tail(todo["lsd"]), {CompletedStep}) = Count(Tail(todo["lsd"]), {CompletedStep})
    BY <2>1, <2>2, CountBefore
  <2>4. EndsWith(Tail(todo["lsd"]), CompletedStep) /\ Tail(todo["lsd"]) # <<>>
    <3>1. todo["lsd"] \in Seq(LsdSteps) /\ Head(todo["lsd"]) \in LsdSteps
      BY <1>1, <1>2, FirstAndRest DEF Tallied
    <3> QED
      BY <1>1, <1>2, <1>5, <3>1, LastStays DEF OneDump
  <2>5. EndsWith(q \o Tail(todo["lsd"]), CompletedStep)
    BY <2>2, <2>4, LastStaysBehind
  <2> QED
    BY <1>3, <1>6, <2>0, <2>3, <2>5
<1>8. Owed' = Owed
  BY <1>2, <1>4, <1>7 DEF Owed, Completions, Requests
<1> QED
  BY <1>2, <1>4, <1>7, <1>8 DEF OneDump
(* Nothing is owed before and while the logs are loaded; a load that finds *)
(* an archive asks for a dump.                                             *)
LEMMA NothingOwed ==
  /\ queue["sto"] = <<>> /\ queue["lsd"] = <<>> /\ todo["sto"] = <<>> /\ todo["lsd"] = <<>>
  /\ dumpCount = 0
  => Owed = 0 /\ EndsWith(todo["lsd"], CompletedStep)
<1> SUFFICES ASSUME queue["sto"] = <<>>, queue["lsd"] = <<>>, todo["sto"] = <<>>, todo["lsd"] = <<>>,
                    dumpCount = 0
             PROVE  Owed = 0 /\ EndsWith(todo["lsd"], CompletedStep)
  OBVIOUS
<1>1. /\ Count(queue["sto"], {DumpCompleted}) = 0 /\ Count(todo["lsd"], {CompletedStep}) = 0
      /\ Count(queue["lsd"], {DumpRequest}) = 0 /\ Count(todo["sto"], Asking) = 0
  BY CountEmpty
<1>2. Completions = 0 /\ Requests = 0
  BY <1>1 DEF Completions, Requests
<1> QED
  BY <1>2 DEF Owed, EndsWith

LEMMA NothingOwedAfter ==
  (/\ queue["sto"] = <<>> /\ queue["lsd"] = <<>> /\ todo["sto"] = <<>> /\ todo["lsd"] = <<>>
   /\ dumpCount = 0
   => Owed = 0 /\ EndsWith(todo["lsd"], CompletedStep))'
BY NothingOwed, PTL

LEMMA EmptyOwes == Empty /\ consolidate = FALSE => OneDump
<1> SUFFICES ASSUME Empty, consolidate = FALSE PROVE OneDump
  OBVIOUS
<1>1. Owed = 0 /\ EndsWith(todo["lsd"], CompletedStep)
  BY NothingOwed, StepsAre DEF Empty
<1> QED
  BY <1>1 DEF OneDump, Empty

LEMMA EmptyOwesAfter == (Empty /\ consolidate = FALSE => OneDump)'
BY EmptyOwes, PTL

LEMMA StartOwes ==
  ASSUME Sound, OneDump, StartStep
  PROVE  OneDump'
<1>1. CASE LoadArchive
  <2>1. /\ \A t \in Thread : todo[t] = <<>>
        /\ todo' = todo /\ queue' = queue /\ queue["sto"] = <<>> /\ queue["lsd"] = <<>>
        /\ dumpCount' = dumpCount /\ dumpCount = 0 /\ phase' = "current"
        /\ consolidate' = (arc' # NoLog)
    BY <1>1, LoadArchiveSound
  <2>2. /\ todo'["sto"] = <<>> /\ todo'["lsd"] = <<>> /\ queue'["sto"] = <<>> /\ queue'["lsd"] = <<>>
        /\ dumpCount' = 0
    BY <2>1, StepsAre
  <2>3. Owed' = 0 /\ EndsWith(todo'["lsd"], CompletedStep)
    BY <2>2, NothingOwedAfter DEF EndsWith
  <2>4. consolidate' => arc' # NoLog
    BY <2>1, Zenon
  <2>5. Owed' \in {0, 2} /\ ~(Owed' = 2)
    BY <2>3
  <2> QED
    BY <2>3, <2>4, <2>5 DEF OneDump
<1>2. CASE LoadCurrent
  <2>1. /\ \A t \in Thread : todo[t] = <<>>
        /\ todo' = todo /\ queue'["sto"] = <<>>
        /\ dumpCount' = dumpCount /\ dumpCount = 0 /\ phase' = "run" /\ phase = "current"
        /\ arc' = arc
        /\ \/ consolidate /\ queue'["lsd"] = <<DumpRequest>>
           \/ queue'["lsd"] = <<>>
    BY <1>2, LoadCurrentSound
  <2>2. todo'["sto"] = <<>> /\ todo'["lsd"] = <<>> /\ dumpCount' = 0
    BY <2>1, StepsAre
  <2>3. CASE queue'["lsd"] = <<>>
    <3>1. Owed' = 0 /\ EndsWith(todo'["lsd"], CompletedStep)
      BY <2>1, <2>2, <2>3, NothingOwedAfter DEF EndsWith
    <3> QED
      BY <2>1, <3>1 DEF OneDump
  <2>4. CASE consolidate /\ queue'["lsd"] = <<DumpRequest>>
    <3>1. Count(<<DumpRequest>>, {DumpRequest}) = 1
      <4>1. Append(<<>>, DumpRequest) = <<DumpRequest>> /\ <<>> \in Seq({DumpRequest})
        OBVIOUS
      <4>2. Count(Append(<<>>, DumpRequest), {DumpRequest})
              = Count(<<>>, {DumpRequest}) + One(DumpRequest \in {DumpRequest})
        BY <4>1, CountAppended
      <4> QED
        BY <4>1, <4>2, CountEmpty DEF One
    <3>2. Count(queue["lsd"], {DumpRequest})' = 1
      BY <2>4, <3>1 DEF DumpRequest
    <3>3. /\ Count(queue["sto"], {DumpCompleted})' = 0 /\ Count(todo["lsd"], {CompletedStep})' = 0
          /\ Count(todo["sto"], Asking)' = 0
      BY <2>1, <2>2, CountEmpty DEF DumpCompleted, CompletedStep, Asking
    <3>4. Completions' = 0 /\ Requests' = 1
      BY <3>2, <3>3 DEF Completions, Requests
    <3>5. Owed' = 2
      BY <2>2, <3>4 DEF Owed
    <3>6. arc' # NoLog
      BY <2>1, <2>4 DEF OneDump
    <3> QED
      BY <2>1, <2>2, <3>5, <3>6 DEF OneDump, EndsWith
  <2> QED
    BY <2>1, <2>3, <2>4
<1>3. CASE Restart
  <2>1. Sound' /\ Fresh' /\ arc' \in Log /\ cur' \in Log
    BY <1>3, RestartSound DEF Sound, Typed, RestTyped
  <2>2. Empty' /\ consolidate' = FALSE
    BY <2>1, FreshAfter DEF Fresh
  <2> QED
    BY <2>2, EmptyOwesAfter
<1> QED
  BY <1>1, <1>2, <1>3 DEF StartStep

\* A call of a client: what it leaves alone.
ByAClient ==
  \E t \in Client : /\ \A u \in Thread \ {t} : todo'[u] = todo[u]
                    /\ queue' = queue /\ arc' = arc /\ cur' = cur /\ phase' = phase /\ phase = "run"
                    /\ dumpCount' = dumpCount

LEMMA CallsAreClients ==
  ASSUME Sound, CallStep
  PROVE  ByAClient
<1>1. ASSUME NEW k \in Key, NEW v \in Value, CreateProperty(k, v) PROVE ByAClient
  BY <1>1, CreatePropertySound, StepsAre DEF ByAClient
<1>2. ASSUME NEW t \in Thread, NEW k \in Key, NEW g \in Group, NEW v \in Value, SetValue(t, k, g, v)
      PROVE ByAClient
  BY <1>2, SetValueSound DEF ByAClient
<1>3. ASSUME NEW k \in Key, RemoveProperty(k) PROVE ByAClient
  BY <1>3, RemovePropertySound, StepsAre DEF ByAClient
<1>4. ASSUME NEW d \in Device, DestroyDevice(d) PROVE ByAClient
  BY <1>4, DestroyDeviceSound, StepsAre DEF ByAClient
<1> QED
  BY <1>1, <1>2, <1>3, <1>4 DEF CallStep

LEMMA CallOwes ==
  ASSUME Sound, OneDump, CallStep
  PROVE  OneDump'
<1>1. ByAClient
  BY CallsAreClients
<1> QED
  BY <1>1, ClientsDumpNothing, StepsAre DEF ByAClient

LEMMA ThreadOwes ==
  ASSUME Sound, OneDump, ThreadStep
  PROVE  OneDump'
<1> DEFINE Aside == /\ todo'["sto"] = todo["sto"] /\ todo'["lsd"] = todo["lsd"]
                    /\ queue' = queue /\ arc' = arc /\ phase' = phase /\ phase = "run"
                    /\ dumpCount' = dumpCount
<1>1. PICK t \in Thread : Announce(t) \/ Subscribe(t) \/ Notify(t) \/ SendMessage(t)
                           \/ ClearDevice(t) \/ DestroyObject(t)
  BY DEF ThreadStep
<1>2. \A u \in Client : \A X : Goes(u, X) => todo'["sto"] = todo["sto"] /\ todo'["lsd"] = todo["lsd"]
  BY StepsAre DEF Goes
<1>3. CASE Announce(t)
  <2>1. Aside
    BY <1>2, <1>3, AnnounceSound, StepsAre DEF SameRest
  <2> QED
    BY <2>1, ClientsDumpNothing
<1>4. CASE Subscribe(t)
  <2>1. Aside
    BY <1>2, <1>4, SubscribeSound, StepsAre DEF SameRest
  <2> QED
    BY <2>1, ClientsDumpNothing
<1>5. CASE Notify(t)
  <2>1. Aside
    BY <1>2, <1>5, NotifySound, StepsAre DEF SameRest
  <2> QED
    BY <2>1, ClientsDumpNothing
<1>6. CASE SendMessage(t)
  BY <1>6, SendOwes
<1>7. CASE ClearDevice(t)
  <2>1. Aside
    BY <1>2, <1>7, ClearSound, StepsAre DEF SameRest
  <2> QED
    BY <2>1, ClientsDumpNothing
<1>8. CASE DestroyObject(t)
  <2>1. Aside
    BY <1>2, <1>8, DestroySound, StepsAre DEF SameRest
  <2> QED
    BY <2>1, ClientsDumpNothing
<1> QED
  BY <1>1, <1>3, <1>4, <1>5, <1>6, <1>7, <1>8

LEMMA OneDumpInit == Init => OneDump
<1> SUFFICES ASSUME Init PROVE OneDump
  OBVIOUS
<1>1. Fresh /\ arc \in Log /\ cur \in Log /\ consolidate = FALSE
  BY DEF Init, Fresh, Log
<1> QED
  BY <1>1, FreshIs, EmptyOwes

LEMMA OneDumpNext == Sound /\ OneDump /\ [Next]_vars => OneDump'
<1> SUFFICES ASSUME Sound, OneDump, [Next]_vars PROVE OneDump'
  OBVIOUS
<1>1. CASE UNCHANGED vars
  BY <1>1 DEF OneDump, Owed, Completions, Requests, vars, mem, store, boot
<1>2. CASE Next
  <2>1. CASE StorageStep
    BY <2>1, StoReceiveOwes, WriteRecordOwes, RenameOwes, NewLogOwes, DumpCompleteOwes DEF StorageStep
  <2>2. CASE DumpStep
    BY <2>2, LsdReceiveOwes, ScanOwes DEF DumpStep
  <2> QED
    BY <1>2, <2>1, <2>2, CallOwes, ThreadOwes, StartOwes, NextIs
<1> QED
  BY <1>1, <1>2
----------------------------------------------------------------------------
(* What a dump covers.                                                     *)

SetsIn(m, k, g) == m.type = "delta" /\ m.group = g /\ \E i \in DOMAIN m.deltas : m.deltas[i][1] = k
IsSet(s, k, g)  == s.op = "record" /\ s.rec.type = "set" /\ s.rec.key = k /\ s.rec.group = g
Erases(r, k)    == \/ r.type = "propertyGone" /\ r.key = k
                   \/ r.type = "deviceGone" /\ r.dev = k[1]
Carry(s, k, g)  == \/ s.op = "announce" /\ s.key = k /\ s.group = g
                   \/ s.op = "send" /\ SetsIn(s.msg, k, g)

\* An element of X after which there is none of Y.
LastIn(q, X, Y) == \E i \in DOMAIN q : q[i] \in X /\ \A j \in DOMAIN q : j > i => q[j] \notin Y

Setters(k, g) == {m \in StoMessage : SetsIn(m, k, g)}
Deleters(k)   == {m \in StoMessage : Deletes(m, k)}

\* What is on its way to the log about a property.
QueuedDeletion(k) == \E m \in Messages("sto") : Deletes(m, k)
Erasing(k)        == \E s \in Steps("sto") : s.op = "record" /\ Erases(s.rec, k)
Carried(k, g)     == \E t \in Thread : \E s \in Steps(t) : Carry(s, k, g)
Queued(k, g)      == LastIn(queue["sto"], Setters(k, g), Deleters(k))
Writing(k, g)     == (\E s \in Steps("sto") : IsSet(s, k, g)) /\ ~QueuedDeletion(k)
OnTheWay(k, g)    == Carried(k, g) \/ Queued(k, g) \/ Writing(k, g)
Kept(k)           == ~QueuedDeletion(k) /\ ~Erasing(k)

\* A deletion is all that its message makes the storage handler do.
OneErasure ==
  \/ \A s \in Steps("sto") : s.op = "record" => s.rec.type = "set"
  \/ \E r \in Record : todo["sto"] = <<RecordStep(r)>>

\* From the first message of a dump to the last, a property is still to be
\* scanned, or on its way to the current log, or in it.
Whole(log) == Clean(RecordsOf(log))
Started == dumpCount = 1 \/ DumpCompleted \in Messages("sto") \/ CompletedStep \in Steps("lsd")
Unscanned(k, g) == [op |-> "scan", dev |-> k[1], group |-> g] \in Steps("lsd")
Covered(k, g) == Unscanned(k, g) \/ OnTheWay(k, g) \/ (Kept(k) /\ LiveIn(RecordsOf(cur), k, g))

DumpCovers == Started /\ Whole(cur) => \A k \in DOMAIN shadow, g \in Group : Covered(k, g)

CleanWhileArchived == TornWrites # "always" /\ arc # NoLog => Whole(cur)

\* What a step does to the logs.
LogsKept      == arc' = arc /\ cur' = cur
LogsAppended(r) == arc' = arc /\ cur' = Append(RecordsOf(cur), r)
LogsRenamed   == arc = NoLog /\ cur # NoLog /\ arc' = cur /\ cur' = NoLog
LogStarted    == arc' = arc /\ cur' = <<>>
ArchiveGone   == arc' = NoLog /\ cur' = cur
CurrentGone   == arc' = arc /\ cur' = NoLog

\* What no step of the running threads loses: what is on its way to the log
\* stays so until it is written, what is kept stays kept, what is to be scanned
\* stays so until it is sent.
Written(k, g) == \E r \in Record : LogsAppended(r) /\ r.type = "set" /\ r.key = k /\ r.group = g

GoesOn(k, g) ==
  /\ OnTheWay(k, g) => OnTheWay(k, g)' \/ (Kept(k)' /\ Written(k, g))
  /\ Kept(k) => Kept(k)'
  /\ Unscanned(k, g) => Unscanned(k, g)' \/ Carried(k, g)'
  /\ Started' => Started \/ Unscanned(k, g)'

(* A message more in a queue, and one less.                                *)
LEMMA LastAppended ==
  ASSUME NEW S, NEW q \in Seq(S), NEW m \in S, NEW X, NEW Y
  PROVE  /\ LastIn(q, X, Y) /\ m \notin Y => LastIn(Append(q, m), X, Y)
         /\ m \in X => LastIn(Append(q, m), X, Y)
         /\ LastIn(Append(q, m), X, Y) => m \in X \/ (LastIn(q, X, Y) /\ m \notin Y)
<1>1. /\ DOMAIN q = 1 .. Len(q) /\ DOMAIN Append(q, m) = 1 .. (Len(q) + 1) /\ Len(q) \in Nat
      /\ \A i \in 1 .. Len(q) : Append(q, m)[i] = q[i]
      /\ Append(q, m)[Len(q) + 1] = m
  BY OneMore
<1> DEFINE n == Len(q)
           r == Append(q, m)
<1> HIDE DEF n, r
<1>2. /\ DOMAIN q = 1 .. n /\ DOMAIN r = 1 .. n + 1 /\ n \in Nat
      /\ \A i \in 1 .. n : r[i] = q[i] /\ r[n + 1] = m
  BY <1>1 DEF n, r
<1>3. r[n + 1] = m
  BY <1>1 DEF n, r
<1>4. ASSUME LastIn(q, X, Y), m \notin Y PROVE LastIn(r, X, Y)
  <2>1. PICK i \in 1 .. n : q[i] \in X /\ \A j \in 1 .. n : j > i => q[j] \notin Y
    BY <1>2, <1>4 DEF LastIn
  <2>2. i \in 1 .. n + 1 /\ r[i] \in X
    BY <1>2, <2>1
  <2>3. \A j \in 1 .. n + 1 : j > i => r[j] \notin Y
    <3>1. \A j \in 1 .. n + 1 : j = n + 1 \/ j \in 1 .. n
      BY <1>2
    <3> QED
      BY <1>2, <1>3, <1>4, <2>1, <3>1
  <2> QED
    BY <1>2, <2>2, <2>3 DEF LastIn
<1>5. ASSUME m \in X PROVE LastIn(r, X, Y)
  <2>1. n + 1 \in 1 .. n + 1 /\ \A j \in 1 .. n + 1 : ~(j > n + 1)
    BY <1>2
  <2> QED
    BY <1>2, <1>3, <1>5, <2>1 DEF LastIn
<1>6. ASSUME LastIn(r, X, Y), m \notin X PROVE LastIn(q, X, Y) /\ m \notin Y
  <2>1. PICK i \in 1 .. n + 1 : r[i] \in X /\ \A j \in 1 .. n + 1 : j > i => r[j] \notin Y
    BY <1>2, <1>6 DEF LastIn
  <2>2. i \in 1 .. n /\ n + 1 \in 1 .. n + 1 /\ n + 1 > i /\ \A j \in 1 .. n : j \in 1 .. n + 1
    BY <1>2, <1>3, <1>6, <2>1
  <2>3. m \notin Y
    BY <1>3, <2>1, <2>2
  <2>4. q[i] \in X /\ \A j \in 1 .. n : j > i => q[j] \notin Y
    BY <1>2, <2>1, <2>2
  <2> QED
    BY <1>2, <2>2, <2>3, <2>4 DEF LastIn
<1> QED
  BY <1>4, <1>5, <1>6 DEF r

LEMMA LastOfTail ==
  ASSUME NEW S, NEW q \in Seq(S), q # <<>>, NEW X, NEW Y
  PROVE  /\ LastIn(q, X, Y) => \/ LastIn(Tail(q), X, Y)
                               \/ Head(q) \in X /\ \A m \in ToSet(Tail(q)) : m \notin Y
         /\ LastIn(Tail(q), X, Y) => LastIn(q, X, Y)
<1>1. /\ Len(q) \in Nat \ {0} /\ DOMAIN q = 1 .. Len(q) /\ Head(q) = q[1]
      /\ DOMAIN Tail(q) = 1 .. (Len(q) - 1)
      /\ \A i \in 1 .. (Len(q) - 1) : Tail(q)[i] = q[i + 1]
  BY FirstAndRest
<1>2. ASSUME LastIn(q, X, Y)
      PROVE  LastIn(Tail(q), X, Y) \/ (Head(q) \in X /\ \A m \in ToSet(Tail(q)) : m \notin Y)
  <2>1. PICK i \in 1 .. Len(q) : q[i] \in X /\ \A j \in 1 .. Len(q) : j > i => q[j] \notin Y
    BY <1>1, <1>2 DEF LastIn
  <2>2. \A j \in 1 .. (Len(q) - 1) : j + 1 \in 1 .. Len(q) /\ j + 1 > 1
    BY <1>1
  <2>3. CASE i = 1
    <3>1. \A j \in 1 .. (Len(q) - 1) : Tail(q)[j] \notin Y
      BY <1>1, <2>1, <2>2, <2>3
    <3> QED
      BY <1>1, <2>1, <2>3, <3>1 DEF ToSet
  <2>4. CASE i # 1
    <3>1. i - 1 \in 1 .. (Len(q) - 1) /\ (i - 1) + 1 = i
      BY <1>1, <2>4
    <3>2. \A j \in 1 .. (Len(q) - 1) : j > i - 1 => j + 1 > i
      BY <1>1
    <3>3. Tail(q)[i - 1] \in X /\ \A j \in 1 .. (Len(q) - 1) : j > i - 1 => Tail(q)[j] \notin Y
      BY <1>1, <2>1, <2>2, <3>1, <3>2
    <3> QED
      BY <1>1, <3>1, <3>3 DEF LastIn
  <2> QED
    BY <2>3, <2>4
<1>3. ASSUME LastIn(Tail(q), X, Y) PROVE LastIn(q, X, Y)
  <2>1. PICK i \in 1 .. (Len(q) - 1) :
          Tail(q)[i] \in X /\ \A j \in 1 .. (Len(q) - 1) : j > i => Tail(q)[j] \notin Y
    BY <1>1, <1>3 DEF LastIn
  <2>2. i + 1 \in 1 .. Len(q) /\ q[i + 1] \in X
    BY <1>1, <2>1
  <2>3. ASSUME NEW j \in 1 .. Len(q), j > i + 1 PROVE q[j] \notin Y
    <3>1. j - 1 \in 1 .. (Len(q) - 1) /\ j - 1 > i /\ (j - 1) + 1 = j
      BY <1>1, <2>1, <2>3
    <3> QED
      BY <1>1, <2>1, <3>1
  <2> QED
    BY <1>1, <2>2, <2>3 DEF LastIn
<1> QED
  BY <1>2, <1>3

(* Whether a dump has begun depends on the storage handler and the dump's  *)
(* own thread only.                                                        *)
LEMMA StartedStays ==
  ASSUME queue'["sto"] = queue["sto"], Steps("lsd")' = Steps("lsd"), dumpCount' = dumpCount
  PROVE  Started' = Started
BY DEF Started, Messages, DumpCompleted, CompletedStep

(* What a step of a client leaves, for what it does not carry itself.      *)
LEMMA ClientGoesOn ==
  ASSUME NEW k, NEW g, NEW t \in Client,
         \A u \in Thread \ {t} : Steps(u)' = Steps(u),
         queue'["sto"] = queue["sto"], dumpCount' = dumpCount,
         \A s \in Steps(t) : Carry(s, k, g) => \E x \in Steps(t)' : Carry(x, k, g)
  PROVE  GoesOn(k, g)
<1>1. Steps("sto")' = Steps("sto") /\ Steps("lsd")' = Steps("lsd") /\ Messages("sto")' = Messages("sto")
  BY StepsAre DEF Messages
<1>2. Unscanned(k, g) => Unscanned(k, g)'
  BY <1>1 DEF Unscanned
<1>3. Carried(k, g) => Carried(k, g)'
  BY DEF Carried
<1>4. Queued(k, g) => Queued(k, g)'
  BY DEF Queued
<1>5. QueuedDeletion(k)' = QueuedDeletion(k) /\ Erasing(k)' = Erasing(k)
  BY <1>1 DEF QueuedDeletion, Erasing
<1>6. Writing(k, g) => Writing(k, g)'
  BY <1>1, <1>5 DEF Writing
<1>7. Started' = Started
  BY <1>1, StartedStays
<1> QED
  BY <1>2, <1>3, <1>4, <1>5, <1>6, <1>7 DEF GoesOn, OnTheWay, Kept

(* A property that is new is announced.                                    *)
LEMMA NewIsCarried ==
  ASSUME Sound, NEW j \in Key, NEW v \in Value, CreateProperty(j, v), NEW g \in Group
  PROVE  Carried(j, g)'
<1>1. [op |-> "announce", key |-> j, group |-> g] \in Steps("handler")'
  BY CreatePropertySound
<1>2. Carry([op |-> "announce", key |-> j, group |-> g], j, g)
  BY DEF Carry
<1> QED
  BY <1>1, <1>2, StepsAre DEF Carried

LEMMA CallGoesOn ==
  ASSUME Sound, CallStep, NEW k, NEW g
  PROVE  GoesOn(k, g)
<1>1. ASSUME NEW j \in Key, NEW v \in Value, CreateProperty(j, v) PROVE GoesOn(k, g)
  <2>1. /\ \A u \in Thread \ {"handler"} : Steps(u)' = Steps(u)
        /\ queue' = queue /\ dumpCount' = dumpCount /\ Steps("handler") = {}
    BY <1>1, CreatePropertySound
  <2> QED
    BY <2>1, ClientGoesOn, StepsAre
<1>2. ASSUME NEW t \in Thread, NEW j \in Key, NEW h \in Group, NEW v \in Value, SetValue(t, j, h, v)
      PROVE  GoesOn(k, g)
  <2>1. /\ \A u \in Thread \ {t} : Steps(u)' = Steps(u)
        /\ queue' = queue /\ dumpCount' = dumpCount /\ Steps(t) = {} /\ t \in Client
    BY <1>2, SetValueSound
  <2> QED
    BY <2>1, ClientGoesOn
<1>3. ASSUME NEW j \in Key, RemoveProperty(j) PROVE GoesOn(k, g)
  <2>1. /\ \A u \in Thread \ {"handler"} : Steps(u)' = Steps(u)
        /\ queue' = queue /\ dumpCount' = dumpCount /\ Steps("handler") = {}
    BY <1>3, RemovePropertySound
  <2> QED
    BY <2>1, ClientGoesOn, StepsAre
<1>4. ASSUME NEW d \in Device, DestroyDevice(d) PROVE GoesOn(k, g)
  <2>1. /\ \A u \in Thread \ {"handler"} : Steps(u)' = Steps(u)
        /\ queue' = queue /\ dumpCount' = dumpCount /\ Steps("handler") = {}
    BY <1>4, DestroyDeviceSound
  <2> QED
    BY <2>1, ClientGoesOn, StepsAre
<1> QED
  BY <1>1, <1>2, <1>3, <1>4 DEF CallStep

(* A step of a client that carries nothing, or hands it on.                *)
LEMMA HandingOn ==
  ASSUME NEW t \in Client, NEW X, Goes(t, X), queue' = queue, dumpCount' = dumpCount,
         NEW k, NEW g, Carry(Head(todo[t]), k, g) => \E x \in X : Carry(x, k, g)
  PROVE  GoesOn(k, g)
<1>1. \A u \in Thread \ {t} : Steps(u)' = Steps(u)
  BY DEF Goes
<1>2. PICK rest : Steps(t) = {Head(todo[t])} \cup rest /\ Steps(t)' = X \cup rest
  BY DEF Goes
<1>3. \A s \in Steps(t) : Carry(s, k, g) => \E x \in Steps(t)' : Carry(x, k, g)
  BY <1>2
<1> QED
  BY <1>1, <1>3, ClientGoesOn

LEMMA ClientStepGoesOn ==
  ASSUME Sound, NEW t \in Thread,
         Announce(t) \/ Subscribe(t) \/ Notify(t) \/ ClearDevice(t) \/ DestroyObject(t),
         NEW k \in DOMAIN shadow, NEW g \in Group
  PROVE  GoesOn(k, g)
<1>1. CASE Announce(t)
  <2>1. t = "handler" /\ queue' = queue /\ SameRest
    BY <1>1, AnnounceSound
  <2>2. PICK j \in Key, h \in Group :
          /\ Head(todo[t]) = [op |-> "announce", key |-> j, group |-> h]
          /\ \/ j \notin DOMAIN shadow /\ Goes(t, {})
             \/ /\ j \in DOMAIN shadow /\ shadow[j][h] \in Value
                /\ Goes(t, {Send("sto", Delta(h, <<<<j, shadow[j][h]>>>>))})
    BY <1>1, AnnounceSound
  <2>3. Carry(Head(todo[t]), k, g) => k = j /\ g = h
    BY <2>2 DEF Carry
  <2>4. CASE j \notin DOMAIN shadow /\ Goes(t, {})
    BY <2>1, <2>3, <2>4, HandingOn, StepsAre DEF SameRest
  <2>5. CASE /\ j \in DOMAIN shadow /\ shadow[j][h] \in Value
             /\ Goes(t, {Send("sto", Delta(h, <<<<j, shadow[j][h]>>>>))})
    <3> DEFINE x == Send("sto", Delta(h, <<<<j, shadow[j][h]>>>>))
    <3>1. Carry(x, j, h)
      <4>1. SetsIn(Delta(h, <<<<j, shadow[j][h]>>>>), j, h)
        BY <2>5, OneDeltaTyped DEF SetsIn
      <4> QED
        BY <4>1, SendIs DEF Carry
    <3>2. Goes(t, {x})
      BY <2>5
    <3> HIDE DEF x
    <3>3. Carry(Head(todo[t]), k, g) => \E y \in {x} : Carry(y, k, g)
      BY <2>3, <3>1
    <3> QED
      BY <2>1, <3>2, <3>3, HandingOn, StepsAre DEF SameRest
  <2> QED
    BY <2>2, <2>4, <2>5
<1>2. CASE Subscribe(t)
  <2>1. /\ t = "handler" /\ queue' = queue /\ SameRest /\ Goes(t, {})
        /\ \E j \in Key, h \in Group : Head(todo[t]) = [op |-> "subscribe", key |-> j, group |-> h]
    BY <1>2, SubscribeSound
  <2>2. ~Carry(Head(todo[t]), k, g)
    BY <2>1 DEF Carry
  <2> QED
    BY <2>1, <2>2, HandingOn, StepsAre DEF SameRest
<1>3. CASE Notify(t)
  <2>1. t \in Client /\ queue' = queue /\ SameRest /\ (\E X : Goes(t, X)) /\ Head(todo[t]).op = "notify"
    BY <1>3, NotifySound
  <2>2. ~Carry(Head(todo[t]), k, g)
    BY <2>1 DEF Carry
  <2> QED
    BY <2>1, <2>2, HandingOn DEF SameRest
<1>4. CASE ClearDevice(t)
  <2>1. /\ t = "handler" /\ queue' = queue /\ SameRest /\ Head(todo[t]).op = "clear"
        /\ Goes(t, {}) \/ todo' = todo
    BY <1>4, ClearSound
  <2>2. ~Carry(Head(todo[t]), k, g)
    BY <2>1 DEF Carry
  <2>3. CASE Goes(t, {})
    BY <2>1, <2>2, <2>3, HandingOn, StepsAre DEF SameRest
  <2>4. CASE todo' = todo
    <3>1. \A u \in Thread : Steps(u)' = Steps(u)
      BY <2>4 DEF Steps
    <3> QED
      BY <2>1, <3>1, ClientGoesOn, StepsAre DEF SameRest
  <2> QED
    BY <2>1, <2>3, <2>4
<1>5. CASE DestroyObject(t)
  <2>1. t = "handler" /\ queue' = queue /\ SameRest /\ Head(todo[t]).op = "destroy" /\ \E X : Goes(t, X)
    BY <1>5, DestroySound
  <2>2. ~Carry(Head(todo[t]), k, g)
    BY <2>1 DEF Carry
  <2> QED
    BY <2>1, <2>2, HandingOn, StepsAre DEF SameRest
<1> QED
  BY <1>1, <1>2, <1>3, <1>4, <1>5

(* A message is on its way as long as it is not handled, and no message    *)
(* deletes what is in the shadow when it is sent.                          *)
LEMMA SentIs ==
  ASSUME Sound, NEW t \in Thread, SendMessage(t), t # "sto"
  PROVE  /\ Head(todo[t]).msg \in StoMessage /\ Head(todo[t]).op = "send"
         /\ queue["sto"] \in Seq(StoMessage)
         /\ queue'["sto"] = Append(queue["sto"], Head(todo[t]).msg)
         /\ Messages("sto")' = Messages("sto") \cup {Head(todo[t]).msg}
         /\ \A k \in DOMAIN shadow : ~Deletes(Head(todo[t]).msg, k)
         /\ Head(todo[t]).msg = DumpCompleted => t = "lsd" /\ Head(todo[t]) = CompletedStep
<1> DEFINE m == Head(todo[t]).msg
<1>1. /\ Head(todo[t]).op = "send" /\ Head(todo[t]) \in Steps(t) /\ StepFields(t, Head(todo[t]))
      /\ todo[t] # <<>> /\ queue'["sto"] = Append(queue["sto"], m)
  BY SendSound
<1>2. m \in StoMessage /\ Head(todo[t]) = Send("sto", m)
  BY <1>1 DEF StepFields
<1>3. queue["sto"] \in Seq(StoMessage)
  BY DEF Sound, Typed, QueueTyped
<1>4. Messages("sto")' = Messages("sto") \cup {m}
  <2>1. ToSet(Append(queue["sto"], m)) = ToSet(queue["sto"]) \cup {m}
    BY <1>2, <1>3, OneMore
  <2> QED
    BY <1>1, <2>1 DEF Messages
<1>5. ASSUME NEW k \in DOMAIN shadow PROVE ~Deletes(m, k)
  <2>1. CASE t = "handler"
    <3>1. \A s \in Steps("handler") : s.op = "send" => \A j \in DOMAIN shadow : ~Deletes(s.msg, j)
      <4>1. CASE \E d \in Device : todo["handler"] = <<ClearStep(d), DestroyStep(d)>>
        BY <1>1, <2>1, <4>1 DEF ClearStep
      <4>2. CASE \E d \in Device : todo["handler"] = <<DestroyStep(d)>> /\ KeysOf(d, shadow) = {}
        BY <1>1, <2>1, <4>2 DEF DestroyStep
      <4> QED
        BY <4>1, <4>2 DEF Sound, HandlerDeletes
    <3> QED
      BY <1>1, <2>1, <3>1
  <2>2. CASE t # "handler"
    <3>1. m \in DeltaMessage \cup {DumpCompleted}
      BY <1>1, <2>2, StepsAre DEF StepFields
    <3>2. m.type \in {"delta", "dumpCompleted"}
      BY <3>1 DEF DeltaMessage, DumpCompleted
    <3> QED
      BY <3>2 DEF Deletes
  <2> QED
    BY <2>1, <2>2
<1>6. ASSUME m = DumpCompleted PROVE t = "lsd" /\ Head(todo[t]) = CompletedStep
  <2>1. Head(todo[t]) = CompletedStep
    BY <1>2, <1>6 DEF CompletedStep
  <2>2. t \in Client => m \in DeltaMessage \cup Deletion
    BY <1>1, StepsAre DEF StepFields
  <2>3. t \notin Client
    BY <1>6, <2>2 DEF DumpCompleted, DeltaMessage, Deletion
  <2> QED
    BY <2>1, <2>3, StepsAre
<1> QED
  BY <1>1, <1>2, <1>3, <1>4, <1>5, <1>6

LEMMA SendGoesOn ==
  ASSUME Sound, NEW t \in Thread, SendMessage(t), NEW k \in DOMAIN shadow, NEW g \in Group
  PROVE  GoesOn(k, g)
<1>1. /\ SameRest /\ Goes(t, {}) /\ Head(todo[t]).op = "send" /\ Head(todo[t]) \in Steps(t)
      /\ t = "sto" => queue'["sto"] = queue["sto"]
      /\ StepFields(t, Head(todo[t]))
  BY SendSound
<1>2. /\ \A u \in Thread \ {t} : Steps(u)' = Steps(u)
      /\ Steps(t)' \subseteq Steps(t) /\ Steps(t) \subseteq Steps(t)' \cup {Head(todo[t])}
  BY <1>1 DEF Goes
<1>3. \A u \in Thread : \A s \in Steps(u) : s.op # "send" => s \in Steps(u)'
  BY <1>1, <1>2
<1>4. \A u \in Thread : \A s \in Steps(u)' : s \in Steps(u)
  BY <1>2
<1>6. Unscanned(k, g) => Unscanned(k, g)'
  BY <1>3, StepsAre DEF Unscanned
<1>7. (\E s \in Steps("sto") : IsSet(s, k, g)) => \E s \in Steps("sto")' : IsSet(s, k, g)
  BY <1>3, StepsAre DEF IsSet
<1>8. ~Erasing(k) => ~Erasing(k)'
  BY <1>4, StepsAre DEF Erasing
<1>9. CASE t = "sto"
  <2>1. Head(todo[t]) = Send("lsd", DumpRequest)
    BY <1>1, <1>9 DEF StepFields
  <2>2. ~Carry(Head(todo[t]), k, g)
    BY <2>1 DEF Carry, Send, SetsIn, DumpRequest
  <2>3. Messages("sto")' = Messages("sto") /\ queue'["sto"] = queue["sto"]
    BY <1>1, <1>9 DEF Messages
  <2>4. Started' = Started
    BY <1>1, <1>2, <1>9, <2>3, StartedStays, StepsAre DEF SameRest
  <2>5. Carried(k, g) => Carried(k, g)'
    BY <1>2, <2>2 DEF Carried
  <2>6. QueuedDeletion(k)' = QueuedDeletion(k) /\ Queued(k, g)' = Queued(k, g)
    BY <2>3 DEF QueuedDeletion, Queued, Setters, Deleters, StoMessage, DeltaMessage, Deletion, DumpCompleted
  <2> QED
    BY <1>6, <1>7, <1>8, <2>4, <2>5, <2>6 DEF GoesOn, OnTheWay, Writing, Kept
<1>10. CASE t # "sto"
  <2> DEFINE m == Head(todo[t]).msg
  <2>1. /\ m \in StoMessage /\ queue["sto"] \in Seq(StoMessage)
        /\ queue'["sto"] = Append(queue["sto"], m) /\ Messages("sto")' = Messages("sto") \cup {m}
        /\ ~Deletes(m, k)
        /\ m = DumpCompleted => t = "lsd" /\ Head(todo[t]) = CompletedStep
    BY <1>10, SentIs
  <2>2. Carry(Head(todo[t]), k, g) => SetsIn(m, k, g)
    BY <1>1 DEF Carry
  <2> HIDE DEF m
  <2>3. Started' => Started
    <3>1. DumpCompleted \in Messages("sto")' => Started
      BY <1>1, <2>1 DEF Started
    <3>2. CompletedStep \in Steps("lsd")' => Started
      BY <1>4, StepsAre DEF Started
    <3>3. dumpCount' = 1 => Started
      BY <1>1 DEF Started, SameRest
    <3>4. DumpCompleted' = DumpCompleted /\ CompletedStep' = CompletedStep
      BY DEF DumpCompleted, CompletedStep
    <3> QED
      BY <3>1, <3>2, <3>3, <3>4 DEF Started
  <2>5. QueuedDeletion(k)' = QueuedDeletion(k)
    BY <2>1 DEF QueuedDeletion
  <2>6. Setters(k, g)' = Setters(k, g) /\ Deleters(k)' = Deleters(k)
    BY DEF Setters, Deleters
  <2>7. m \notin Deleters(k) /\ (SetsIn(m, k, g) => m \in Setters(k, g))
    BY <2>1 DEF Deleters, Setters
  <2>8. Queued(k, g) => Queued(k, g)'
    <3>1. LastIn(queue["sto"], Setters(k, g), Deleters(k))
            => LastIn(Append(queue["sto"], m), Setters(k, g), Deleters(k))
      BY <2>1, <2>7, LastAppended
    <3> QED
      BY <2>1, <2>6, <3>1 DEF Queued
  <2>9. SetsIn(m, k, g) => Queued(k, g)'
    <3>1. SetsIn(m, k, g) => LastIn(Append(queue["sto"], m), Setters(k, g), Deleters(k))
      BY <2>1, <2>7, LastAppended
    <3> QED
      BY <2>1, <2>6, <3>1 DEF Queued
  <2>10. Carried(k, g) => Carried(k, g)' \/ Queued(k, g)'
    <3>1. Carry(Head(todo[t]), k, g) => Queued(k, g)'
      BY <2>2, <2>9
    <3>2. \A u \in Thread : \A s \in Steps(u) : s \in Steps(u)' \/ s = Head(todo[t])
      BY <1>2
    <3> QED
      BY <3>1, <3>2 DEF Carried
  <2> QED
    BY <1>6, <1>7, <1>8, <2>3, <2>5, <2>8, <2>10 DEF GoesOn, OnTheWay, Writing, Kept
<1> QED
  BY <1>9, <1>10
(* What a message makes the storage handler do.                            *)
LEMMA HandlingWrites ==
  ASSUME NEW m \in StoMessage, m.type # "dumpCompleted"
  PROVE  /\ \A k, g : SetsIn(m, k, g) => \E s \in ToSet(Handling(m)) : IsSet(s, k, g)
         /\ \A k, s : s \in ToSet(Handling(m)) /\ s.op = "record" /\ Erases(s.rec, k) => Deletes(m, k)
         /\ \/ \A s \in ToSet(Handling(m)) : s.op = "record" => s.rec.type = "set"
            \/ \E r \in Record : Handling(m) = <<RecordStep(r)>>
<1>1. CASE m.type = "delta"
  <2>1. Handling(m) = Writes(m) \o <<[op |-> "consolidate"]>> /\ m \in DeltaMessage
    BY <1>1, HandlingIs, MessageIs
  <2>2. ToSet(Handling(m))
          = {RecordStep(SetRecord(m.deltas[i][1], m.group, m.deltas[i][2])) : i \in DOMAIN m.deltas}
              \cup {[op |-> "consolidate"]}
    BY <2>1, WritesTyped
  <2>3. \A k, g, v : /\ RecordStep(SetRecord(k, g, v)).op = "record"
                     /\ RecordStep(SetRecord(k, g, v)).rec.type = "set"
                     /\ RecordStep(SetRecord(k, g, v)).rec.key = k
                     /\ RecordStep(SetRecord(k, g, v)).rec.group = g
    BY DEF RecordStep, SetRecord
  <2>4. [op |-> "consolidate"].op # "record"
    OBVIOUS
  <2>5. \A s \in ToSet(Handling(m)) : s.op = "record" => s.rec.type = "set"
    BY <2>2, <2>3, <2>4
  <2>6. ASSUME NEW k, NEW g, SetsIn(m, k, g) PROVE \E s \in ToSet(Handling(m)) : IsSet(s, k, g)
    <3>1. PICK i \in DOMAIN m.deltas : m.deltas[i][1] = k
      BY <2>6 DEF SetsIn
    <3> DEFINE s == RecordStep(SetRecord(m.deltas[i][1], m.group, m.deltas[i][2]))
    <3>2. s \in ToSet(Handling(m))
      BY <2>2
    <3>3. IsSet(s, k, g)
      BY <2>3, <2>6, <3>1 DEF IsSet, SetsIn
    <3> QED
      BY <3>2, <3>3
  <2> QED
    BY <2>5, <2>6 DEF Erases
<1>2. CASE m.type = "propertyDeleted"
  <2>1. Handling(m) = <<RecordStep(PropertyGone(m.key))>> /\ m.key \in Key
    BY <1>2, HandlingIs, MessageIs
  <2>2. PropertyGone(m.key) \in Record
    BY <2>1 DEF PropertyGone, Record
  <2>3. ToSet(Handling(m)) = {RecordStep(PropertyGone(m.key))}
    BY <2>1 DEF ToSet
  <2>4. /\ RecordStep(PropertyGone(m.key)).rec.type = "propertyGone"
        /\ RecordStep(PropertyGone(m.key)).rec.key = m.key
    BY DEF RecordStep, PropertyGone
  <2>5. \A k, s : s \in ToSet(Handling(m)) /\ s.op = "record" /\ Erases(s.rec, k) => Deletes(m, k)
    BY <1>2, <2>3, <2>4 DEF Erases, Deletes
  <2> QED
    BY <1>2, <2>1, <2>2, <2>5 DEF SetsIn
<1>3. CASE m.type = "thingDeleted"
  <2>1. Handling(m) = <<RecordStep(DeviceGone(m.dev))>> /\ m.dev \in Device
    BY <1>3, HandlingIs, MessageIs
  <2>2. DeviceGone(m.dev) \in Record
    BY <2>1 DEF DeviceGone, Record
  <2>3. ToSet(Handling(m)) = {RecordStep(DeviceGone(m.dev))}
    BY <2>1 DEF ToSet
  <2>4. /\ RecordStep(DeviceGone(m.dev)).rec.type = "deviceGone"
        /\ RecordStep(DeviceGone(m.dev)).rec.dev = m.dev
    BY DEF RecordStep, DeviceGone
  <2>5. \A k, s : s \in ToSet(Handling(m)) /\ s.op = "record" /\ Erases(s.rec, k) => Deletes(m, k)
    BY <1>3, <2>3, <2>4 DEF Erases, Deletes
  <2> QED
    BY <1>3, <2>1, <2>2, <2>5 DEF SetsIn
<1> QED
  BY <1>1, <1>2, <1>3, MessageIs

(* A deletion is written with nothing else to do.                          *)
LEMMA NextErasure ==
  ASSUME Sound, OneErasure, todo["sto"] # <<>>, NEW X, Goes("sto", X),
         \A x \in X : x.op # "record",
         X = {} => todo'["sto"] = Tail(todo["sto"]),
         X # {} => Head(todo["sto"]).op # "record"
  PROVE  /\ OneErasure'
         /\ \A s \in Steps("sto") : s.op = "record" /\ s.rec.type # "set" =>
              s = Head(todo["sto"]) /\ Steps("sto")' = {}
<1>1. CASE \A s \in Steps("sto") : s.op = "record" => s.rec.type = "set"
  <2>1. \A s \in Steps("sto")' : s.op = "record" => s \in Steps("sto")
    BY DEF Goes
  <2> QED
    BY <1>1, <2>1 DEF OneErasure
<1>2. CASE \E r \in Record : todo["sto"] = <<RecordStep(r)>>
  <2>1. PICK r \in Record : todo["sto"] = <<RecordStep(r)>>
    BY <1>2
  <2>2. Head(todo["sto"]) = RecordStep(r) /\ RecordStep(r).op = "record" /\ Tail(todo["sto"]) = <<>>
    BY <2>1 DEF RecordStep
  <2>3. todo'["sto"] = <<>>
    BY <2>2
  <2>4. Steps("sto")' = {} /\ Steps("sto") = {RecordStep(r)}
    BY <2>1, <2>3, NoElements DEF Steps, ToSet
  <2> QED
    BY <2>2, <2>4 DEF OneErasure
<1> QED
  BY <1>1, <1>2 DEF OneErasure

LEMMA OneErasureNext ==
  ASSUME Sound, OneErasure, [Next]_vars
  PROVE  OneErasure'
<1> DEFINE Same == todo'["sto"] = todo["sto"] \/ Steps("sto")' = {}
<1>1. Same => OneErasure'
  BY DEF OneErasure, Steps
<1>2. CASE UNCHANGED vars
  BY <1>1, <1>2 DEF vars
<1>3. CASE CallStep
  <2>1. Same
    BY <1>3, CallsAreClients, StepsAre DEF ByAClient
  <2> QED
    BY <1>1, <2>1
<1>4. CASE ThreadStep
  <2>1. PICK t \in Thread : Announce(t) \/ Subscribe(t) \/ Notify(t) \/ SendMessage(t)
                             \/ ClearDevice(t) \/ DestroyObject(t)
    BY <1>4 DEF ThreadStep
  <2>2. CASE SendMessage(t)
    <3>1. todo[t] # <<>> /\ Goes(t, {}) /\ todo'[t] = Tail(todo[t])
      BY <2>2, SendSound
    <3>2. CASE t = "sto"
      BY <3>1, <3>2, NextErasure
    <3>3. CASE t # "sto"
      <4>1. Same
        BY <3>1, <3>3, StepsAre DEF Goes
      <4> QED
        BY <1>1, <4>1
    <3> QED
      BY <3>2, <3>3
  <2>3. CASE ~SendMessage(t)
    <3>1. \A u \in Client : \A X : Goes(u, X) => Same
      BY StepsAre DEF Goes
    <3>2. Announce(t) => Same
      BY <3>1, AnnounceSound, StepsAre
    <3>3. Subscribe(t) => Same
      BY <3>1, SubscribeSound, StepsAre
    <3>4. Notify(t) => Same
      BY <3>1, NotifySound, StepsAre
    <3>5. ClearDevice(t) => Same
      BY <3>1, ClearSound, StepsAre
    <3>6. DestroyObject(t) => Same
      BY <3>1, DestroySound, StepsAre
    <3> QED
      BY <1>1, <2>1, <2>3, <3>2, <3>3, <3>4, <3>5, <3>6
  <2> QED
    BY <2>2, <2>3
<1>5. CASE StorageStep
  <2>1. CASE StoReceive
    <3>1. /\ Head(queue["sto"]) \in StoMessage /\ Head(queue["sto"]).type # "dumpCompleted"
          /\ todo'["sto"] = Handling(Head(queue["sto"]))
      BY <2>1, StoReceiveSound
    <3> DEFINE m == Head(queue["sto"])
    <3>2. \/ \A s \in ToSet(Handling(m)) : s.op = "record" => s.rec.type = "set"
          \/ \E r \in Record : Handling(m) = <<RecordStep(r)>>
      BY <3>1, HandlingWrites
    <3> HIDE DEF m
    <3>3. todo'["sto"] = Handling(m)
      BY <3>1 DEF m
    <3> QED
      BY <3>2, <3>3 DEF OneErasure, Steps
  <2>2. CASE WriteRecord
    BY <2>2, WriteRecordSound, NextErasure
  <2>3. CASE Rename
    <3>1. /\ todo["sto"] # <<>> /\ Head(todo["sto"]).op # "record" /\ NewLogStep.op # "record"
          /\ \/ Goes("sto", {NewLogStep})
             \/ Goes("sto", {}) /\ todo'["sto"] = Tail(todo["sto"])
      BY <2>3, RenameSound DEF NewLogStep
    <3> QED
      BY <3>1, NextErasure
  <2>4. CASE NewLog
    <3>1. /\ todo["sto"] # <<>> /\ Head(todo["sto"]).op # "record" /\ Send("lsd", DumpRequest).op # "record"
          /\ Goes("sto", {Send("lsd", DumpRequest)})
      BY <2>4, NewLogSound DEF NewLogStep, Send
    <3> QED
      BY <3>1, NextErasure
  <2>5. CASE DumpComplete
    <3>1. Same
      BY <2>5, DumpCompleteSound
    <3> QED
      BY <1>1, <3>1
  <2> QED
    BY <1>5, <2>1, <2>2, <2>3, <2>4, <2>5 DEF StorageStep
<1>6. CASE DumpStep
  <2>1. Same
    <3>1. LsdReceive => Same
      BY LsdReceiveSound, StepsAre
    <3>2. ScanDevice => Same
      BY ScanSound, StepsAre DEF Goes
    <3> QED
      BY <1>6, <3>1, <3>2 DEF DumpStep
  <2> QED
    BY <1>1, <2>1
<1>7. CASE StartStep
  <2>1. Steps("sto")' = {}
    BY <1>7, LoadArchiveSound, LoadCurrentSound, RestartSound, StepsAre DEF StartStep
  <2> QED
    BY <1>1, <2>1
<1> QED
  BY <1>2, <1>3, <1>4, <1>5, <1>6, <1>7, NextIs
(* A log with one record more.                                             *)
LEMMA AppendedLog ==
  ASSUME NEW log \in Log, NEW r \in Record
  PROVE  /\ RecordsOf(log) \in Seq(Record)
         /\ RecordsOf(Append(RecordsOf(log), r)) = Append(RecordsOf(log), r)
         /\ Whole(Append(RecordsOf(log), r)) <=> Whole(log) /\ ~IsTorn(r)
<1>1. RecordsOf(log) \in Seq(Record)
  BY RecordsTyped
<1>2. Append(RecordsOf(log), r) \in Seq(Record)
  BY <1>1, OneMore
<1>3. RecordsOf(Append(RecordsOf(log), r)) = Append(RecordsOf(log), r)
  BY <1>2, SequencesAreLogs
<1>4. Clean(Append(RecordsOf(log), r)) <=> Clean(RecordsOf(log)) /\ ~IsTorn(r)
  <2> DEFINE q == RecordsOf(log)
             n == Len(q)
             p == Append(q, r)
  <2>1. /\ DOMAIN q = 1 .. n /\ DOMAIN p = 1 .. (n + 1) /\ n \in Nat
        /\ (\A i \in 1 .. n : p[i] = q[i]) /\ p[n + 1] = r
    BY <1>1, OneMore
  <2> HIDE DEF q, n, p
  <2>2. Clean(p) <=> Clean(q) /\ ~IsTorn(r)
    <3>1. \A i \in 1 .. (n + 1) : i \in 1 .. n \/ i = n + 1
      BY <2>1
    <3>2. n + 1 \in 1 .. (n + 1) /\ \A i \in 1 .. n : i \in 1 .. (n + 1)
      BY <2>1
    <3> QED
      BY <2>1, <3>1, <3>2 DEF Clean
  <2> QED
    BY <2>2 DEF p, q
<1> QED
  BY <1>1, <1>3, <1>4 DEF Whole

LEMMA LiveAppended ==
  ASSUME NEW log \in Seq(Record), NEW r \in Record, Clean(log), ~IsTorn(r),
         NEW k \in Key, NEW g \in Group
  PROVE  /\ r.type = "set" /\ r.key = k /\ r.group = g => LiveIn(Append(log, r), k, g)
         /\ LiveIn(log, k, g) /\ ~Erases(r, k) => LiveIn(Append(log, r), k, g)
<1> DEFINE n == Len(log)
           q == Append(log, r)
<1>1. /\ DOMAIN log = 1 .. n /\ DOMAIN q = 1 .. n + 1 /\ n \in Nat
      /\ \A i \in 1 .. n : q[i] = log[i] /\ q[n + 1] = r
  BY OneMore
<1>2. q[n + 1] = r
  BY OneMore
<1> HIDE DEF n, q
<1>3. \A i \in 1 .. n : ~IsTorn(log[i])
  BY <1>1 DEF Clean
<1>4. \A i \in 1 .. n + 1 : i \in 1 .. n \/ i = n + 1
  BY <1>1
<1>5. \A i \in 1 .. n + 1 : ~IsTorn(q[i])
  BY <1>1, <1>2, <1>3, <1>4
<1>6. ASSUME r.type = "set", r.key = k, r.group = g PROVE LiveIn(q, k, g)
  <2>1. n + 1 \in 1 .. n + 1 /\ \A j \in 1 .. n + 1 : ~(j > n + 1)
    BY <1>1
  <2> QED
    BY <1>1, <1>2, <1>5, <1>6, <2>1 DEF LiveIn
<1>7. ASSUME LiveIn(log, k, g), ~Erases(r, k) PROVE LiveIn(q, k, g)
  <2>1. PICK i \in 1 .. n :
          /\ log[i].type = "set" /\ log[i].key = k /\ log[i].group = g
          /\ \A j \in 1 .. n : j > i => log[j].type = "set" \/ k \notin AboutRecord(log[j])
    BY <1>1, <1>7 DEF LiveIn
  <2>2. i \in 1 .. n + 1 /\ \A j \in 1 .. i : j \in 1 .. n + 1
    BY <1>1
  <2>3. q[i].type = "set" /\ q[i].key = k /\ q[i].group = g
    BY <1>1, <2>1
  <2>4. r.type = "set" \/ k \notin AboutRecord(r)
    <3>1. CASE r.type = "propertyGone"
      BY <1>7, <3>1 DEF Erases, AboutRecord
    <3>2. CASE r.type = "deviceGone"
      BY <1>7, <3>2 DEF Erases, AboutRecord
    <3>3. CASE r.type = "torn"
      BY <3>3 DEF AboutRecord
    <3> QED
      BY <3>1, <3>2, <3>3, RecordIs
  <2>5. \A j \in 1 .. n + 1 : j > i => q[j].type = "set" \/ k \notin AboutRecord(q[j])
    BY <1>1, <1>2, <1>4, <2>1, <2>4
  <2> QED
    BY <1>1, <1>5, <2>2, <2>3, <2>5 DEF LiveIn
<1> QED
  BY <1>6, <1>7 DEF q

(* A dump has begun only when nothing asks for one any more.               *)
LEMMA StartedIs ==
  ASSUME Typed, OneDump, Started
  PROVE  arc # NoLog /\ \A s \in Steps("sto") : s \notin Asking
<1>1. Tallied /\ Requests \in Nat /\ Completions \in Nat
      /\ Completions >= Count(todo["lsd"], {CompletedStep})
      /\ Completions >= Count(queue["sto"], {DumpCompleted})
  BY CountsAre, SumsAre
<1>2. dumpCount + Completions # 0
  <2>1. CASE dumpCount = 1
    BY <1>1, <2>1
  <2>2. CASE DumpCompleted \in Messages("sto")
    <3>1. Count(queue["sto"], {DumpCompleted}) # 0
      BY <1>1, <2>2, CountIs DEF Messages, Tallied
    <3>2. Count(queue["sto"], {DumpCompleted}) \in Nat
      BY <1>1 DEF Tallied
    <3>3. Completions # 0
      BY <1>1, <3>1, <3>2
    <3> QED
      BY <1>1, <3>3 DEF Tallied
  <2>3. CASE CompletedStep \in Steps("lsd")
    <3>1. Count(todo["lsd"], {CompletedStep}) # 0
      BY <1>1, <2>3, CountIs DEF Steps, Tallied
    <3>2. Count(todo["lsd"], {CompletedStep}) \in Nat
      BY <1>1 DEF Tallied
    <3>3. Completions # 0
      BY <1>1, <3>1, <3>2
    <3> QED
      BY <1>1, <3>3 DEF Tallied
  <2> QED
    BY <2>1, <2>2, <2>3 DEF Started
<1>3. Owed = 2 /\ Requests = 0
  <2>1. dumpCount \in Nat
    BY <1>1 DEF Tallied
  <2>2. Owed = dumpCount + Completions + 2 * Requests /\ Owed \in {0, 2}
    BY DEF Owed, OneDump
  <2> QED
    BY <1>1, <1>2, <2>1, <2>2
<1>4. Count(todo["sto"], Asking) = 0
  <2>1. Requests = Count(queue["lsd"], {DumpRequest}) + Count(todo["sto"], Asking)
    BY DEF Requests
  <2>2. Count(queue["lsd"], {DumpRequest}) \in Nat /\ Count(todo["sto"], Asking) \in Nat
    BY <1>1 DEF Tallied
  <2> QED
    BY <1>3, <2>1, <2>2
<1>5. \A s \in Steps("sto") : s \notin Asking
  BY <1>1, <1>4, CountIs DEF Steps, Tallied
<1> QED
  BY <1>3, <1>5 DEF OneDump

(* What a step of the storage handler leaves.                              *)
LEMMA StorageLeaves ==
  ASSUME NEW k, NEW g, Steps("lsd")' = Steps("lsd"),
         \A u \in Client : Steps(u)' = Steps(u), \A s \in Steps("sto") : s.op # "announce" /\ ~Carry(s, k, g)
  PROVE  /\ Unscanned(k, g) => Unscanned(k, g)'
         /\ Carried(k, g) => Carried(k, g)'
BY StepsAre DEF Unscanned, Carried

LEMMA StoCarriesNothing ==
  ASSUME TodoTyped, NEW k, NEW g
  PROVE  \A s \in Steps("sto") : s.op # "announce" /\ ~Carry(s, k, g)
<1> SUFFICES ASSUME NEW s \in Steps("sto") PROVE s.op # "announce" /\ ~Carry(s, k, g)
  OBVIOUS
<1>1. s \in StepsOf("sto") /\ "sto" \in Thread /\ "sto" # "handler"
  BY StepsTyped, StepsAre
<1>2. StepFields("sto", s)
  BY <1>1, StepIs
<1>3. s.op # "announce" /\ (s.op = "send" => s.msg = DumpRequest)
  BY <1>1, <1>2 DEF StepFields, Send
<1> QED
  BY <1>3 DEF Carry, SetsIn, DumpRequest
LEMMA StoReceiveGoesOn ==
  ASSUME Sound, StoReceive, NEW k \in DOMAIN shadow, NEW g \in Group
  PROVE  GoesOn(k, g)
<1> DEFINE m == Head(queue["sto"])
<1>1. /\ SameRest /\ todo["sto"] = <<>> /\ Steps("sto") = {} /\ queue["sto"] # <<>>
      /\ \A u \in Thread \ {"sto"} : todo'[u] = todo[u] /\ Steps(u)' = Steps(u)
      /\ queue'["sto"] = Tail(queue["sto"]) /\ Messages("sto") = {m} \cup Messages("sto")'
      /\ m \in StoMessage /\ m.type # "dumpCompleted" /\ todo'["sto"] = Handling(m)
  BY StoReceiveSound
<1>2. queue["sto"] \in Seq(StoMessage)
  BY DEF Sound, Typed, QueueTyped
<1>3. Steps("sto")' = ToSet(Handling(m))
  BY <1>1 DEF Steps
<1>4. LastIn(queue["sto"], Setters(k, g), Deleters(k)) =>
        \/ LastIn(Tail(queue["sto"]), Setters(k, g), Deleters(k))
        \/ m \in Setters(k, g) /\ \A x \in ToSet(Tail(queue["sto"])) : x \notin Deleters(k)
  BY <1>1, <1>2, LastOfTail
<1>5. ToSet(Tail(queue["sto"])) = Messages("sto")' /\ Messages("sto") \subseteq StoMessage
  <2>1. ToSet(queue["sto"]) \subseteq StoMessage
    BY <1>2 DEF ToSet
  <2> QED
    BY <1>1, <2>1 DEF Messages
<1> HIDE DEF m
<1>6. Started' => Started
  BY <1>1, StepsAre DEF Started, SameRest, DumpCompleted, CompletedStep
<1>8. Unscanned(k, g) => Unscanned(k, g)'
  BY <1>1, StepsAre DEF Unscanned
<1>9. Carried(k, g) => Carried(k, g)'
  BY <1>1, StepsAre DEF Carried
<1>10. ~Writing(k, g)
  BY <1>1 DEF Writing
<1>11. Queued(k, g) => Queued(k, g)' \/ Writing(k, g)'
  <2>1. Setters(k, g)' = Setters(k, g) /\ Deleters(k)' = Deleters(k)
    BY DEF Setters, Deleters
  <2>2. CASE LastIn(Tail(queue["sto"]), Setters(k, g), Deleters(k))
    BY <1>1, <2>1, <2>2 DEF Queued
  <2>3. CASE m \in Setters(k, g) /\ \A x \in ToSet(Tail(queue["sto"])) : x \notin Deleters(k)
    <3>1. \E s \in ToSet(Handling(m)) : IsSet(s, k, g)
      BY <1>1, <2>3, HandlingWrites DEF Setters
    <3>2. \A x \in Messages("sto")' : ~Deletes(x, k)
      BY <1>1, <1>5, <2>3 DEF Deleters
    <3>3. ~QueuedDeletion(k)'
      BY <3>2 DEF QueuedDeletion
    <3>4. \E s \in Steps("sto")' : IsSet(s, k, g)
      BY <1>3, <3>1
    <3> QED
      BY <3>3, <3>4 DEF Writing
  <2> QED
    BY <1>4, <2>2, <2>3 DEF Queued
<1>12. Kept(k) => Kept(k)'
  <2>1. ~QueuedDeletion(k) => ~QueuedDeletion(k)' /\ ~Deletes(m, k)
    BY <1>1 DEF QueuedDeletion
  <2>2. ~Deletes(m, k) => ~Erasing(k)'
    <3>1. \A s : s \in ToSet(Handling(m)) /\ s.op = "record" /\ Erases(s.rec, k) => Deletes(m, k)
      BY <1>1, HandlingWrites
    <3> QED
      BY <1>3, <3>1 DEF Erasing
  <2> QED
    BY <2>1, <2>2 DEF Kept
<1> QED
  BY <1>6, <1>8, <1>9, <1>10, <1>11, <1>12 DEF GoesOn, OnTheWay

LEMMA WriteRecordGoesOn ==
  ASSUME Sound, OneErasure, WriteRecord, NEW k \in DOMAIN shadow, NEW g \in Group
  PROVE  GoesOn(k, g)
<1>1. /\ arc' = arc /\ queue' = queue /\ dumpCount' = dumpCount /\ Goes("sto", {}) /\ todo["sto"] # <<>>
      /\ todo'["sto"] = Tail(todo["sto"])
  BY WriteRecordSound
<1>2. PICK r \in Record :
        /\ r.type # "torn" /\ Head(todo["sto"]) = RecordStep(r)
        /\ \/ r.type = "set" /\ r.key \notin DOMAIN shadow /\ cur' = cur
           \/ /\ r.type = "set" => r.key \in DOMAIN shadow
              /\ cur' = Append(RecordsOf(cur), r)
  BY WriteRecordSound
<1>3. TodoTyped
  BY DEF Sound, Typed
<1>4. RecordStep(r).op = "record" /\ RecordStep(r).rec = r
  BY DEF RecordStep
<1>7. \A u \in Thread \ {"sto"} : Steps(u)' = Steps(u)
  BY <1>1 DEF Goes
<1>8. PICK rest : Steps("sto") = {RecordStep(r)} \cup rest /\ Steps("sto")' = rest
  BY <1>1, <1>2 DEF Goes
<1>9. Started' = Started
  BY <1>1, <1>7, StartedStays, StepsAre
<1>11. /\ Unscanned(k, g) => Unscanned(k, g)'
       /\ Carried(k, g) => Carried(k, g)'
  BY <1>3, <1>7, StoCarriesNothing, StorageLeaves, StepsAre
<1>12. Queued(k, g)' = Queued(k, g) /\ QueuedDeletion(k)' = QueuedDeletion(k)
  BY <1>1 DEF Queued, Setters, Deleters, QueuedDeletion, Messages, StoMessage, DeltaMessage, Deletion,
              DumpCompleted
<1>13. \A s \in Steps("sto") : s.op = "record" /\ s.rec.type # "set" =>
         s = Head(todo["sto"]) /\ Steps("sto")' = {}
  BY <1>1, NextErasure
<1>14. Kept(k) => Kept(k)'
  BY <1>8, <1>12 DEF Kept, Erasing
<1>15. Writing(k, g) => Writing(k, g)' \/ (Kept(k)' /\ Written(k, g))
  <2> SUFFICES ASSUME Writing(k, g) PROVE Writing(k, g)' \/ (Kept(k)' /\ Written(k, g))
    OBVIOUS
  <2>1. PICK s \in Steps("sto") : IsSet(s, k, g)
    BY DEF Writing
  <2>2. CASE s \in Steps("sto")'
    BY <1>12, <2>1, <2>2 DEF Writing
  <2>3. CASE s = RecordStep(r)
    <3>1. r.type = "set" /\ r.key = k /\ r.group = g
      BY <1>4, <2>1, <2>3 DEF IsSet
    <3>2. ~Erasing(k)'
      <4>1. \A x \in Steps("sto")' : x.op = "record" => x.rec.type = "set"
        BY <1>8, <1>13
      <4> QED
        BY <4>1 DEF Erasing, Erases
    <3>3. Kept(k)'
      BY <1>12, <3>2 DEF Kept, Writing
    <3>4. Written(k, g)
      BY <1>1, <1>2, <3>1 DEF Written, LogsAppended
    <3> QED
      BY <3>3, <3>4
  <2> QED
    BY <1>8, <2>2, <2>3
<1> QED
  BY <1>9, <1>11, <1>12, <1>14, <1>15 DEF GoesOn, OnTheWay

LEMMA StorageGoesOn ==
  ASSUME Sound, OneErasure, StorageStep, NEW k \in DOMAIN shadow, NEW g \in Group
  PROVE  GoesOn(k, g)
<1>1. CASE StoReceive
  BY <1>1, StoReceiveGoesOn
<1>2. CASE WriteRecord
  BY <1>2, WriteRecordGoesOn
<1>3. ASSUME NEW X, Goes("sto", X), \A x \in X : x.op # "record", Head(todo["sto"]).op # "record",
             queue' = queue, dumpCount' = dumpCount
      PROVE  GoesOn(k, g)
  <2>1. \A u \in Thread \ {"sto"} : Steps(u)' = Steps(u)
    BY <1>3 DEF Goes
  <2>2. PICK rest : Steps("sto") = {Head(todo["sto"])} \cup rest /\ Steps("sto")' = X \cup rest
    BY <1>3 DEF Goes
  <2>3. Started' = Started
    BY <1>3, <2>1, StartedStays, StepsAre
  <2>4. /\ Unscanned(k, g) => Unscanned(k, g)'
        /\ Carried(k, g) => Carried(k, g)'
    BY <2>1, StoCarriesNothing, StorageLeaves, StepsAre DEF Sound, Typed
  <2>5. Queued(k, g)' = Queued(k, g) /\ QueuedDeletion(k)' = QueuedDeletion(k)
    BY <1>3 DEF Queued, Setters, Deleters, QueuedDeletion, Messages, StoMessage, DeltaMessage, Deletion,
                DumpCompleted
  <2>6. \A s \in Steps("sto") \cup Steps("sto")' :
          s.op = "record" => s \in Steps("sto") /\ s \in Steps("sto")'
    BY <1>3, <2>2
  <2>7. Writing(k, g) => Writing(k, g)'
    BY <2>5, <2>6 DEF Writing, IsSet
  <2>8. Kept(k) => Kept(k)'
    BY <2>5, <2>6 DEF Kept, Erasing
  <2> QED
    BY <2>3, <2>4, <2>5, <2>7, <2>8 DEF GoesOn, OnTheWay
<1>4. CASE Rename
  <2>1. /\ queue' = queue /\ dumpCount' = dumpCount
        /\ Head(todo["sto"]).op # "record" /\ NewLogStep.op # "record"
        /\ Goes("sto", {}) \/ Goes("sto", {NewLogStep})
    BY <1>4, RenameSound DEF NewLogStep
  <2> QED
    BY <1>3, <2>1
<1>5. CASE NewLog
  <2>1. /\ queue' = queue /\ dumpCount' = dumpCount /\ Head(todo["sto"]).op # "record"
        /\ Send("lsd", DumpRequest).op # "record" /\ Goes("sto", {Send("lsd", DumpRequest)})
    BY <1>5, NewLogSound DEF NewLogStep, Send
  <2> QED
    BY <1>3, <2>1
<1>6. CASE DumpComplete
  <2>1. /\ todo' = todo /\ queue["sto"] # <<>>
        /\ queue'["sto"] = Tail(queue["sto"])
        /\ Messages("sto") = {Head(queue["sto"])} \cup Messages("sto")'
        /\ Head(queue["sto"]) = DumpCompleted
    BY <1>6, DumpCompleteSound
  <2>2. queue["sto"] \in Seq(StoMessage)
    BY DEF Sound, Typed, QueueTyped
  <2>3. \A t \in Thread : Steps(t)' = Steps(t)
    BY <2>1 DEF Steps
  <2>4. Started
    BY <2>1 DEF Started
  <2>5. ~Deletes(DumpCompleted, k) /\ DumpCompleted \notin Setters(k, g)
    BY DEF Deletes, DumpCompleted, Setters, SetsIn
  <2>6. Queued(k, g) => Queued(k, g)'
    <3>1. LastIn(queue["sto"], Setters(k, g), Deleters(k)) =>
            LastIn(Tail(queue["sto"]), Setters(k, g), Deleters(k))
      BY <2>1, <2>2, <2>5, LastOfTail
    <3>2. Setters(k, g)' = Setters(k, g) /\ Deleters(k)' = Deleters(k)
      BY DEF Setters, Deleters
    <3> QED
      BY <2>1, <3>1, <3>2 DEF Queued
  <2>7. QueuedDeletion(k)' = QueuedDeletion(k)
    BY <2>1, <2>5 DEF QueuedDeletion
  <2>8. Unscanned(k, g)' = Unscanned(k, g) /\ Carried(k, g)' = Carried(k, g) /\ Erasing(k)' = Erasing(k)
        /\ Writing(k, g)' = Writing(k, g)
    BY <2>3, <2>7, StepsAre DEF Unscanned, Carried, Erasing, Writing
  <2> QED
    BY <2>4, <2>6, <2>7, <2>8 DEF GoesOn, OnTheWay, Kept
<1> QED
  BY <1>1, <1>2, <1>4, <1>5, <1>6 DEF StorageStep

(* The dump's own thread scans, or sends what it has scanned.              *)
LEMMA LsdGoesOn ==
  ASSUME NEW X, Goes("lsd", X), CompletedStep \notin X, SameRest, queue' = queue,
         NEW k \in DOMAIN shadow, NEW g \in Group,
         Head(todo["lsd"]).op = "scan",
         Head(todo["lsd"]) = [op |-> "scan", dev |-> k[1], group |-> g] => \E x \in X : Carry(x, k, g)
  PROVE  GoesOn(k, g)
<1>1. \A u \in Thread \ {"lsd"} : Steps(u)' = Steps(u)
  BY DEF Goes
<1>2. PICK rest : Steps("lsd") = {Head(todo["lsd"])} \cup rest /\ Steps("lsd")' = X \cup rest
  BY DEF Goes
<1>3. Messages("sto")' = Messages("sto") /\ dumpCount' = dumpCount
  BY DEF Messages, SameRest
<1>4. Started' => Started
  <2>1. CompletedStep \in Steps("lsd")' => CompletedStep \in Steps("lsd")
    BY <1>2
  <2> QED
    BY <1>3, <2>1 DEF Started, DumpCompleted, CompletedStep
<1>6. Unscanned(k, g) => Unscanned(k, g)' \/ Carried(k, g)'
  <2>1. CASE [op |-> "scan", dev |-> k[1], group |-> g] \in rest
    BY <1>2, <2>1 DEF Unscanned
  <2>2. CASE Head(todo["lsd"]) = [op |-> "scan", dev |-> k[1], group |-> g]
    <3>1. PICK x \in X : Carry(x, k, g)
      BY <2>2
    <3> QED
      BY <1>2, <3>1, StepsAre DEF Carried
  <2> QED
    BY <1>2, <2>1, <2>2 DEF Unscanned
<1>7. Carried(k, g) => Carried(k, g)'
  <2>1. ~Carry(Head(todo["lsd"]), k, g)
    BY DEF Carry
  <2>2. \A s \in Steps("lsd") : Carry(s, k, g) => s \in Steps("lsd")'
    BY <1>2, <2>1
  <2> QED
    BY <1>1, <2>2, StepsAre DEF Carried
<1>8. Queued(k, g)' = Queued(k, g)
  BY DEF Queued, Setters, Deleters, StoMessage, DeltaMessage, Deletion, DumpCompleted
<1>9. QueuedDeletion(k)' = QueuedDeletion(k) /\ Erasing(k)' = Erasing(k) /\ Writing(k, g)' = Writing(k, g)
  BY <1>1, <1>3, StepsAre DEF QueuedDeletion, Erasing, Writing
<1> QED
  BY <1>4, <1>6, <1>7, <1>8, <1>9 DEF GoesOn, OnTheWay, Kept

LEMMA DumpStepGoesOn ==
  ASSUME Sound, DumpStep, NEW k \in DOMAIN shadow, NEW g \in Group
  PROVE  GoesOn(k, g)
<1>1. CASE LsdReceive
  <2>1. /\ queue'["sto"] = queue["sto"] /\ SameRest /\ Steps("lsd") = {}
        /\ \A u \in Thread \ {"lsd"} : Steps(u)' = Steps(u)
    BY <1>1, LsdReceiveSound
  <2>2. PICK order \in Seq(Device) : ToSet(order) = Device /\ todo'["lsd"] = DumpSteps(order)
    BY <1>1, LsdReceiveSound
  <2>3. k[1] \in Device
    <3>1. k \in Key
      BY PropsAre DEF Sound, Typed, MemTyped
    <3> QED
      BY <3>1 DEF Key
  <2>4. [op |-> "scan", dev |-> k[1], group |-> g] \in ToSet(DumpSteps(order))
    BY <2>2, <2>3, DumpStepsAre
  <2>5. Unscanned(k, g)'
    BY <2>2, <2>4 DEF Unscanned, Steps
  <2>6. Carried(k, g) => Carried(k, g)'
    BY <2>1, StepsAre DEF Carried
  <2>7. Messages("sto")' = Messages("sto") /\ Queued(k, g)' = Queued(k, g)
    BY <2>1 DEF Messages, Queued, Setters, Deleters, StoMessage, DeltaMessage, Deletion, DumpCompleted
  <2>8. QueuedDeletion(k)' = QueuedDeletion(k) /\ Erasing(k)' = Erasing(k) /\ Writing(k, g)' = Writing(k, g)
    BY <2>1, <2>7, StepsAre DEF QueuedDeletion, Erasing, Writing
  <2> QED
    BY <2>5, <2>6, <2>7, <2>8 DEF GoesOn, OnTheWay, Kept
<1>2. CASE ScanDevice
  <2>1. SameRest /\ queue' = queue /\ MemTyped
    BY <1>2, ScanSound DEF Sound, Typed
  <2>2. PICK d \in Device, h \in Group, q \in Seq(LsdSteps) :
          /\ Head(todo["lsd"]) = [op |-> "scan", dev |-> d, group |-> h]
          /\ \A x \in ToSet(q) : \E p \in Seq(DOMAIN shadow) : x = Send("sto", ScanMessage(h, p))
          /\ \A j \in KeysOf(d, shadow) : \E p \in Seq(DOMAIN shadow) :
               Send("sto", ScanMessage(h, p)) \in ToSet(q) /\ j \in ToSet(p)
          /\ Goes("lsd", ToSet(q))
    BY <1>2, ScanSound
  <2>3. Head(todo["lsd"]).op = "scan"
    BY <2>2
  <2>4. Head(todo["lsd"]) = [op |-> "scan", dev |-> k[1], group |-> g] => k[1] = d /\ g = h
    BY <2>2
  <2>5. CompletedStep \notin ToSet(q)
    <3> SUFFICES ASSUME NEW x \in ToSet(q) PROVE x # CompletedStep
      OBVIOUS
    <3>1. PICK p \in Seq(DOMAIN shadow) : x = Send("sto", ScanMessage(h, p))
      BY <2>2
    <3>2. ScanMessage(h, p).type = "delta"
      BY <2>1, ScanMessageIs
    <3> QED
      BY <3>1, <3>2, CompletedIs
  <2>6. ASSUME k[1] = d, g = h PROVE \E x \in ToSet(q) : Carry(x, k, g)
    <3>1. k \in KeysOf(d, shadow)
      BY <2>6 DEF KeysOf
    <3>2. PICK p \in Seq(DOMAIN shadow) : Send("sto", ScanMessage(h, p)) \in ToSet(q) /\ k \in ToSet(p)
      BY <2>2, <3>1
    <3>3. /\ ScanMessage(h, p).type = "delta" /\ ScanMessage(h, p).group = h
          /\ DOMAIN ScanMessage(h, p).deltas = DOMAIN p
          /\ \A i \in DOMAIN p : ScanMessage(h, p).deltas[i][1] = p[i]
      BY <2>1, ScanMessageIs
    <3>4. \E i \in DOMAIN p : p[i] = k
      BY <3>2 DEF ToSet
    <3>5. SetsIn(ScanMessage(h, p), k, g)
      BY <2>6, <3>3, <3>4 DEF SetsIn
    <3>6. Carry(Send("sto", ScanMessage(h, p)), k, g)
      BY <3>5, SendIs DEF Carry
    <3> QED
      BY <3>2, <3>6
  <2> QED
    BY <2>1, <2>2, <2>3, <2>4, <2>5, <2>6, LsdGoesOn
<1> QED
  BY <1>1, <1>2 DEF DumpStep

LEMMA StartCovers ==
  ASSUME Sound, StartStep
  PROVE  ~Started' /\ DumpCovers'
<1>1. /\ Steps("lsd")' = {} /\ queue'["sto"] = <<>> /\ dumpCount' = 0
  <2>1. CASE LoadArchive
    <3>1. /\ \A t \in Thread : Steps(t)' = {}
          /\ queue' = queue /\ queue["sto"] = <<>> /\ dumpCount' = dumpCount /\ dumpCount = 0
      BY <2>1, LoadArchiveSound
    <3> QED
      BY <3>1, StepsAre
  <2>2. CASE LoadCurrent
    <3>1. /\ \A t \in Thread : Steps(t)' = {}
          /\ queue'["sto"] = <<>> /\ dumpCount' = dumpCount /\ dumpCount = 0
      BY <2>2, LoadCurrentSound
    <3> QED
      BY <3>1, StepsAre
  <2>3. CASE Restart
    BY <2>3, RestartSound, StepsAre
  <2> QED
    BY <2>1, <2>2, <2>3 DEF StartStep
<1>2. Messages("sto")' = {}
  BY <1>1, NoElements DEF Messages
<1>3. ~Started'
  BY <1>1, <1>2 DEF Started
<1> QED
  BY <1>3 DEF DumpCovers


LEMMA LogsAfter ==
  ASSUME Sound, [Next]_vars
  PROVE  \/ LogsKept
         \/ /\ WriteRecord
            /\ \E r \in Record : LogsAppended(r) /\ ~IsTorn(r) /\ RecordStep(r) \in Steps("sto")
         \/ Rename /\ LogsRenamed
         \/ NewLog /\ LogStarted /\ NewLogStep \in Steps("sto")
         \/ ArchiveGone /\ (DumpComplete \/ (LoadArchive /\ LoadFrom(Blank, arc).end = "failed"))
         \/ CurrentGone /\ LoadCurrent /\ LoadFrom(ShadowNow, cur).end = "failed"
         \/ LogsCut /\ Restart
<1>1. CASE UNCHANGED vars
  BY <1>1 DEF vars, store, LogsKept
<1>2. CASE CallStep
  BY <1>2, CallsAreClients DEF ByAClient, LogsKept
<1>3. CASE ThreadStep
  BY <1>3, AnnounceSound, SubscribeSound, NotifySound, SendSound, ClearSound, DestroySound
     DEF ThreadStep, SameRest, LogsKept
<1>4. CASE StoReceive
  BY <1>4, StoReceiveSound DEF SameRest, LogsKept
<1>5. CASE WriteRecord
  <2>1. /\ arc' = arc /\ Head(todo["sto"]) \in Steps("sto")
        /\ \/ cur' = cur
           \/ \E r \in Record : /\ r.type # "torn" /\ cur' = Append(RecordsOf(cur), r)
                               /\ Head(todo["sto"]) = RecordStep(r)
    BY <1>5, WriteRecordSound
  <2> QED
    BY <1>5, <2>1, RecordIs DEF LogsKept, LogsAppended, IsTorn
<1>6. CASE Rename
  BY <1>6, RenameSound DEF LogsKept, LogsRenamed
<1>7. CASE NewLog
  <2>1. /\ arc' = arc /\ cur' = <<>> /\ todo["sto"] # <<>> /\ Head(todo["sto"]) = NewLogStep
    BY <1>7, NewLogSound
  <2>2. NewLogStep \in Steps("sto")
    BY <2>1, FirstStep, StepsAre DEF Sound, Typed
  <2> QED
    BY <1>7, <2>1, <2>2 DEF LogStarted
<1>8. CASE DumpComplete
  BY <1>8, DumpCompleteSound DEF LogsKept, ArchiveGone
<1>9. CASE DumpStep
  BY <1>9, LsdReceiveSound, ScanSound DEF DumpStep, SameRest, LogsKept
<1>10. CASE LoadArchive
  BY <1>10, LoadArchiveSound DEF LogsKept, ArchiveGone
<1>11. CASE LoadCurrent
  BY <1>11, LoadCurrentSound DEF LogsKept, CurrentGone
<1>12. CASE Restart
  BY <1>12, RestartSound DEF LogsKept
<1> QED
  BY <1>1, <1>2, <1>3, <1>4, <1>5, <1>6, <1>7, <1>8, <1>9, <1>10, <1>11, <1>12, NextIs
     DEF StorageStep, StartStep

(* What the running threads do, none of which starts the board again.      *)
Running == CallStep \/ ThreadStep \/ StorageStep \/ DumpStep

LEMMA RunningIs ==
  ASSUME Sound, Running
  PROVE  phase = "run" /\ phase' = "run" /\ Sound' /\ crashes' = crashes
<1>1. CASE CallStep
  BY <1>1, CreatePropertySound, SetValueSound, RemovePropertySound, DestroyDeviceSound DEF CallStep
<1>2. CASE ThreadStep
  BY <1>2, AnnounceSound, SubscribeSound, NotifySound, SendSound, ClearSound, DestroySound
     DEF ThreadStep, SameRest
<1>3. CASE StorageStep
  BY <1>3, StoReceiveSound, WriteRecordSound, RenameSound, NewLogSound, DumpCompleteSound
     DEF StorageStep, SameRest
<1>4. CASE DumpStep
  BY <1>4, LsdReceiveSound, ScanSound DEF DumpStep, SameRest
<1> QED
  BY <1>1, <1>2, <1>3, <1>4 DEF Running

(* A property that is there after a step was there, or is created.         *)
LEMMA KeysAfter ==
  ASSUME Sound, Running, NEW k \in DOMAIN shadow'
  PROVE  k \in DOMAIN shadow \/ \E j \in Key, v \in Value : j = k /\ CreateProperty(j, v)
<1>1. CASE CallStep
  <2>1. ASSUME NEW j \in Key, NEW v \in Value, CreateProperty(j, v)
        PROVE  DOMAIN shadow' = DOMAIN shadow \cup {j}
    BY <2>1, CreatePropertySound
  <2>2. ASSUME NEW t \in Thread, NEW j \in Key, NEW h \in Group, NEW v \in Value, SetValue(t, j, h, v)
        PROVE  DOMAIN shadow' = DOMAIN shadow
    BY <2>2, SetValueSound
  <2>3. ASSUME NEW j \in Key, RemoveProperty(j) PROVE DOMAIN shadow' = DOMAIN shadow \ {j}
    BY <2>3, RemovePropertySound
  <2>4. ASSUME NEW d \in Device, DestroyDevice(d) PROVE shadow' = shadow
    BY <2>4, DestroyDeviceSound
  <2> QED
    BY <1>1, <2>1, <2>2, <2>3, <2>4 DEF CallStep
<1>2. CASE ThreadStep
  <2>1. PICK t \in Thread : \/ Announce(t) \/ Subscribe(t) \/ Notify(t) \/ SendMessage(t)
                            \/ ClearDevice(t) \/ DestroyObject(t)
    BY <1>2 DEF ThreadStep
  <2>2. CASE ClearDevice(t)
    BY <2>2, ClearSound DEF SameMem
  <2> QED
    BY <2>1, <2>2, AnnounceSound, SubscribeSound, NotifySound, SendSound, DestroySound DEF SameMem
<1>3. CASE StorageStep
  BY <1>3, StoReceiveSound, WriteRecordSound, RenameSound, NewLogSound, DumpCompleteSound
     DEF StorageStep, SameMem
<1>4. CASE DumpStep
  BY <1>4, LsdReceiveSound, ScanSound DEF DumpStep, SameMem
<1> QED
  BY <1>1, <1>2, <1>3, <1>4 DEF Running

LEMMA GoesOnNext ==
  ASSUME Sound, OneErasure, Running, NEW k \in DOMAIN shadow, NEW g \in Group
  PROVE  GoesOn(k, g)
<1>1. ASSUME NEW t \in Thread, SendMessage(t) PROVE GoesOn(k, g)
  BY <1>1, SendGoesOn
<1>2. ASSUME NEW t \in Thread,
             Announce(t) \/ Subscribe(t) \/ Notify(t) \/ ClearDevice(t) \/ DestroyObject(t)
      PROVE  GoesOn(k, g)
  BY <1>2, ClientStepGoesOn
<1>3. ASSUME ThreadStep PROVE GoesOn(k, g)
  BY <1>1, <1>2, <1>3 DEF ThreadStep
<1> QED
  BY <1>3, CallGoesOn, StorageGoesOn, DumpStepGoesOn DEF Running

(* A property whose record is written, or that is kept, has that record    *)
(* in a log without torn records.                                          *)
LEMMA LiveAfter ==
  ASSUME Sound, [Next]_vars, arc # NoLog, NewLogStep \notin Steps("sto"), Running,
         Whole(cur)', NEW k \in Key, NEW g \in Group
  PROVE  /\ Whole(cur)
         /\ Written(k, g) => LiveIn(RecordsOf(cur), k, g)'
         /\ Kept(k) /\ LiveIn(RecordsOf(cur), k, g) => LiveIn(RecordsOf(cur), k, g)'
<1>1. cur \in Log /\ RecordsOf(cur)' = RecordsOf(cur')
  BY DEF Sound, Typed, RestTyped, RecordsOf
<1>2. ASSUME NEW r \in Record, LogsAppended(r)
      PROVE  /\ Whole(cur) /\ ~IsTorn(r)
             /\ r.type = "set" /\ r.key = k /\ r.group = g => LiveIn(RecordsOf(cur), k, g)'
             /\ LiveIn(RecordsOf(cur), k, g) /\ ~Erases(r, k) => LiveIn(RecordsOf(cur), k, g)'
  <2>1. cur' = Append(RecordsOf(cur), r)
    BY <1>2 DEF LogsAppended
  <2>2. /\ RecordsOf(cur) \in Seq(Record)
        /\ RecordsOf(Append(RecordsOf(cur), r)) = Append(RecordsOf(cur), r)
        /\ Whole(Append(RecordsOf(cur), r)) <=> Whole(cur) /\ ~IsTorn(r)
    BY <1>1, AppendedLog
  <2>3. Whole(cur)' = Whole(Append(RecordsOf(cur), r))
    BY <2>1 DEF Whole, Clean, RecordsOf
  <2>4. Whole(cur) /\ ~IsTorn(r)
    BY <2>2, <2>3
  <2>5. /\ r.type = "set" /\ r.key = k /\ r.group = g => LiveIn(Append(RecordsOf(cur), r), k, g)
        /\ LiveIn(RecordsOf(cur), k, g) /\ ~Erases(r, k) => LiveIn(Append(RecordsOf(cur), r), k, g)
    BY <2>2, <2>4, LiveAppended DEF Whole
  <2> QED
    BY <1>1, <2>1, <2>2, <2>4, <2>5
<1>3. \/ LogsKept
      \/ \E r \in Record : LogsAppended(r) /\ RecordStep(r) \in Steps("sto")
      \/ ArchiveGone
  <2>1. phase = "run"
    BY RunningIs
  <2>2. phase # "run" \/ ~Restart
    BY RunningIs, RestartSound
  <2> QED
    BY <2>1, <2>2, LogsAfter, LoadArchiveSound, LoadCurrentSound DEF LogsRenamed
<1>4. CASE LogsKept \/ ArchiveGone
  <2>1. cur' = cur /\ ~Written(k, g)
    <3>1. cur' = cur
      BY <1>4 DEF LogsKept, ArchiveGone
    <3>2. ASSUME NEW r \in Record, LogsAppended(r) PROVE FALSE
      <4>1. cur = Append(RecordsOf(cur), r)
        BY <3>1, <3>2 DEF LogsAppended
      <4>2. /\ RecordsOf(cur) \in Seq(Record)
            /\ RecordsOf(Append(RecordsOf(cur), r)) = Append(RecordsOf(cur), r)
        BY <1>1, AppendedLog
      <4>3. RecordsOf(cur) = Append(RecordsOf(cur), r)
        BY <4>1, <4>2
      <4>4. Len(Append(RecordsOf(cur), r)) = Len(RecordsOf(cur)) + 1 /\ Len(RecordsOf(cur)) \in Nat
        BY <4>2, OneMore
      <4> QED
        BY <4>3, <4>4
    <3> QED
      BY <3>1, <3>2 DEF Written
  <2> QED
    BY <1>1, <2>1 DEF Whole, Clean
<1>5. ASSUME NEW r \in Record, LogsAppended(r), RecordStep(r) \in Steps("sto"), Kept(k) PROVE ~Erases(r, k)
  <2>1. RecordStep(r).op = "record" /\ RecordStep(r).rec = r
    BY DEF RecordStep
  <2> QED
    BY <1>5, <2>1 DEF Kept, Erasing
<1> QED
  BY <1>2, <1>3, <1>4, <1>5 DEF Written

LEMMA DumpCoversNext ==
  ASSUME Sound, OneErasure, OneDump, DumpCovers, [Next]_vars
  PROVE  DumpCovers'
<1>1. CASE UNCHANGED vars
  BY <1>1 DEF vars, mem, store, DumpCovers, Started, Whole, Clean, Covered, Unscanned, OnTheWay, Kept, Carried, Queued,
     Writing, QueuedDeletion, Erasing, Messages, Steps, Setters, Deleters, StoMessage, DeltaMessage, Deletion,
     DumpCompleted, CompletedStep, RecordsOf
<1>2. CASE Running
  <2> SUFFICES ASSUME Started', Whole(cur)', NEW k \in DOMAIN shadow', NEW g \in Group PROVE Covered(k, g)'
    BY DEF DumpCovers
  <2>1. CASE k \notin DOMAIN shadow
    <3>1. Carried(k, g)'
      BY <1>2, <2>1, KeysAfter, NewIsCarried
    <3> QED
      BY <3>1 DEF Covered, OnTheWay
  <2>2. CASE k \in DOMAIN shadow
    <3>1. GoesOn(k, g)
      BY <1>2, <2>2, GoesOnNext
    <3>2. CASE ~Started
      BY <3>1, <3>2 DEF GoesOn, Covered
    <3>3. CASE Started
      <4>1. arc # NoLog /\ NewLogStep \notin Steps("sto")
        BY <3>3, StartedIs DEF Sound, Asking
      <4>2. k \in Key
        BY <2>2, PropsAre DEF Sound, Typed, MemTyped
      <4>3. /\ Whole(cur)
            /\ Written(k, g) => LiveIn(RecordsOf(cur), k, g)'
            /\ Kept(k) /\ LiveIn(RecordsOf(cur), k, g) => LiveIn(RecordsOf(cur), k, g)'
        BY <1>2, <4>1, <4>2, LiveAfter
      <4>4. Covered(k, g)
        BY <2>2, <3>3, <4>3 DEF DumpCovers
      <4> QED
        BY <3>1, <4>3, <4>4 DEF GoesOn, Covered, OnTheWay
    <3> QED
      BY <3>2, <3>3
  <2> QED
    BY <2>1, <2>2
<1> QED
  BY <1>1, <1>2, StartCovers, NextIs DEF Running

LEMMA CleanLogs ==
  /\ Whole(NoLog) /\ Whole(<<>>)
BY SequencesAreLogs, NoElements DEF Whole, Clean, RecordsOf

LEMMA CleanNext ==
  ASSUME Sound, CleanWhileArchived, [Next]_vars
  PROVE  CleanWhileArchived'
<1> SUFFICES ASSUME TornWrites # "always", arc' # NoLog PROVE Whole(cur')
  BY DEF CleanWhileArchived, Whole, Clean, RecordsOf
<1>1. cur \in Log
  BY DEF Sound, Typed, RestTyped
<1>2. CASE LogsKept
  BY <1>2 DEF LogsKept, CleanWhileArchived
<1>3. CASE \E r \in Record : LogsAppended(r) /\ ~IsTorn(r)
  BY <1>1, <1>3, AppendedLog DEF LogsAppended, CleanWhileArchived
<1>4. CASE LogsRenamed \/ LogStarted \/ CurrentGone
  BY <1>4, CleanLogs DEF LogsRenamed, LogStarted, CurrentGone
<1>5. CASE ArchiveGone
  BY <1>5 DEF ArchiveGone
<1>6. CASE LogsCut
  BY <1>6, CleanLogs DEF LogsCut
<1> QED
  BY <1>2, <1>3, <1>4, <1>5, <1>6, LogsAfter

\* The inductive invariant.
Safe == Sound /\ OneErasure /\ OneDump /\ DumpCovers /\ CleanWhileArchived

LEMMA SafeInit == Init => Safe
<1> SUFFICES ASSUME Init PROVE Safe
  OBVIOUS
<1>1. Sound /\ OneDump
  BY SoundInit, OneDumpInit
<1>2. \A t \in Thread : Steps(t) = {}
  BY NoElements DEF Init, Steps
<1>3. OneErasure
  BY <1>2, StepsAre DEF OneErasure
<1>4. ~Started
  BY <1>2, NoElements, StepsAre DEF Init, Started, Messages
<1>5. CleanWhileArchived
  BY DEF Init, CleanWhileArchived
<1> QED
  BY <1>1, <1>3, <1>4, <1>5 DEF Safe, DumpCovers

LEMMA SafeNext == Safe /\ [Next]_vars => Safe'
BY SoundNext, OneErasureNext, OneDumpNext, DumpCoversNext, CleanNext DEF Safe

LEMMA AlwaysSafe == Spec => []Safe
BY SafeInit, SafeNext, PTL DEF Spec

(* A property that nothing is in flight for has nothing on its way.        *)
LEMMA AtRestIs ==
  ASSUME Typed, NEW k \in AtRest, NEW g \in Group
  PROVE  k \in DOMAIN shadow /\ ~OnTheWay(k, g)
<1>1. k \in DOMAIN shadow
  BY DEF AtRest
<1>2. ASSUME NEW t \in Thread, NEW s \in Steps(t) PROVE k \notin InHand(s)
  BY <1>2 DEF AtRest, InFlight
<1>3. ASSUME NEW m \in Messages("sto") PROVE k \notin About(m)
  BY <1>3 DEF AtRest, InFlight, Messages
<1>4. ASSUME NEW m, SetsIn(m, k, g) PROVE k \in About(m)
  BY <1>4 DEF SetsIn, About
<1>5. ASSUME NEW s, Carry(s, k, g) PROVE k \in InHand(s)
  BY <1>4, <1>5 DEF Carry, InHand
<1>6. ~Carried(k, g)
  BY <1>2, <1>5 DEF Carried
<1>7. ~Queued(k, g)
  BY <1>3, <1>4 DEF Queued, LastIn, Setters, Messages, ToSet
<1>8. ~Writing(k, g)
  <2> SUFFICES ASSUME NEW s \in Steps("sto"), IsSet(s, k, g) PROVE FALSE
    BY DEF Writing
  <2>1. s.op = "record" /\ s.rec.type = "set" /\ s.rec.key = k
    BY DEF IsSet
  <2>2. k \in AboutRecord(s.rec)
    BY <2>1 DEF AboutRecord
  <2>3. k \in InHand(s)
    BY <2>1, <2>2 DEF InHand
  <2> QED
    BY <1>2, <2>3, StepsAre
<1> QED
  BY <1>1, <1>6, <1>7, <1>8 DEF OnTheWay

(* Once the second message of a dump is there, the dump has scanned all.   *)
LEMMA DumpIsWhole ==
  ASSUME Safe, DumpComplete, arc # NoLog, arc' = NoLog
  PROVE  Steps("lsd") = {} /\ Started
<1>1. Head(queue["sto"]) = DumpCompleted /\ Messages("sto") = {Head(queue["sto"])} \cup Messages("sto")'
      /\ (dumpCount = 1 \/ arc' = arc)
  BY DumpCompleteSound DEF Safe
<1>2. dumpCount = 1
  BY <1>1
<1>3. Steps("lsd") = {}
  BY <1>2, DumpCompleteOwes DEF Safe
<1> QED
  BY <1>2, <1>3 DEF Started

(* However the dump, updates, deletions and restarts meet, the archive is  *)
(* removed only when the current log holds, for each property that nothing *)
(* is in flight for and for each of its groups, a record that a load will  *)
(* reach and nothing after it deletes.  A torn record in the current log   *)
(* while there is an archive is excluded: then it is not so, as a run of   *)
(* Storage.tla shows.                                                      *)
THEOREM ArchiveIsRemovedSafely == TornWrites # "always" /\ Spec => ArchiveRemovalSafe
<1> DEFINE Removal == phase = "run" /\ arc # NoLog /\ arc' = NoLog =>
                        \A k \in AtRest, g \in Group : LiveIn(RecordsOf(cur), k, g)
<1>1. ASSUME TornWrites # "always", Safe, [Next]_vars PROVE [Removal]_vars
  <2> SUFFICES ASSUME phase = "run", arc # NoLog, arc' = NoLog, NEW k \in AtRest, NEW g \in Group
               PROVE  LiveIn(RecordsOf(cur), k, g)
    OBVIOUS
  <2>1. DumpComplete
    BY <1>1, LogsAfter, LoadArchiveSound
       DEF Safe, LogsKept, LogsAppended, LogsRenamed, LogStarted, ArchiveGone, CurrentGone, LogsCut
  <2>2. Steps("lsd") = {} /\ Started
    BY <1>1, <2>1, DumpIsWhole
  <2>3. Whole(cur)
    BY <1>1 DEF Safe, CleanWhileArchived
  <2>4. k \in DOMAIN shadow /\ ~OnTheWay(k, g)
    BY <1>1, AtRestIs DEF Safe, Sound
  <2>5. ~Unscanned(k, g)
    BY <2>2 DEF Unscanned
  <2>6. Covered(k, g)
    BY <1>1, <2>2, <2>3, <2>4 DEF Safe, DumpCovers
  <2> QED
    BY <2>4, <2>5, <2>6 DEF Covered
<1>2. ASSUME TornWrites # "always" PROVE Spec => [][Removal]_vars
  <2>1. Safe /\ [Next]_vars => [Removal]_vars
    BY <1>1, <1>2
  <2> QED
    BY <2>1, AlwaysSafe, PTL DEF Spec
<1> QED
  BY <1>2 DEF ArchiveRemovalSafe
============================================================================
