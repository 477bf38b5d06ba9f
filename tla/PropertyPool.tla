---------------------------- MODULE PropertyPool ----------------------------
(***************************************************************************)
(* The property store of the local shadow                                  *)
(* (LocalShadow/ObjectStore/LSD_PropertyStore.c) with the object store     *)
(* whose lists it links (LSD_EnsoObjectStore.c).                           *)
(*                                                                         *)
(* One pool of elements is divided into a free list and one list for each  *)
(* object, all singly linked through nextContainerIndex.  Each operation   *)
(* on the pool holds lsdMutex, so it is one step; deleting a device is     *)
(* several; and LSD_NotifyDirectly walks a list without the mutex, one     *)
(* element a step.  The gateway's object and its first property exist from *)
(* SYS_Initialise on and are never removed; every other device belongs to  *)
(* the one thread of its device handler.                                   *)
(***************************************************************************)
EXTENDS Integers, FiniteSets

CONSTANTS
  PoolSize,   \* LSD_PROPERTY_POOL_SIZE
  MaxThing,   \* objects are numbered 0 .. LSD_MAX_THING
  Gateway, Device, NoDevice,
  Id,         \* agentSidePropertyID of a property; 0 is that of a free element
  MaxOps      \* bound of the search: operations on the pool

Slot   == 0 .. PoolSize - 1
Index  == -1 .. PoolSize - 1
Object == 0 .. MaxThing

ASSUME PoolAssumption ==
  /\ PoolSize \in Nat \ {0} /\ MaxThing \in Nat /\ MaxOps \in Nat
  /\ Gateway \notin Device /\ NoDevice \notin Device \cup {Gateway}
  /\ Id # {} /\ Id \subseteq Nat \ {0}

VARIABLES
  object,     \* prv_ObjectStore: each object's deviceId and propertyListStart
  id, next,   \* propertyPool: agentSidePropertyID and nextContainerIndex
  firstFree,  \* firstFreeProperty
  deleting,   \* the device LSD_DestroyEnsoDevice is working on, or NoDevice
  walk,       \* LSD_NotifyDirectly's search for a property that has changed
  ops

pool == <<object, id, next, firstFree>>
vars == <<pool, deleting, walk, ops>>

NoWalk  == [at |-> "idle"]
FirstId == CHOOSE p \in Id : \A q \in Id : p <= q

\* Mutant: the last element of the free list is not given its end.
InitUnterminated ==
  /\ object = [o \in Object |-> IF o = 0 THEN [dev |-> Gateway, start |-> 0]
                                ELSE [dev |-> NoDevice, start |-> 0]]
  /\ id = [i \in Slot |-> IF i = 0 THEN FirstId ELSE 0]
  /\ next = [i \in Slot |-> IF i = 0 THEN -1 ELSE i + 1]
  /\ firstFree = (IF PoolSize > 1 THEN 1 ELSE -1)
  /\ deleting = NoDevice /\ walk = NoWalk /\ ops = 0

\* prv_InitialisePropertyStore, then the gateway's first property.
Init ==
  /\ object = [o \in Object |-> IF o = 0 THEN [dev |-> Gateway, start |-> 0]
                                ELSE [dev |-> NoDevice, start |-> 0]]
  /\ id = [i \in Slot |-> IF i = 0 THEN FirstId ELSE 0]
  /\ next = [i \in Slot |-> IF i \in {0, PoolSize - 1} THEN -1 ELSE i + 1]
  /\ firstFree = (IF PoolSize > 1 THEN 1 ELSE -1)
  /\ deleting = NoDevice /\ walk = NoWalk /\ ops = 0
----------------------------------------------------------------------------
(* The n-th element of a list, and the elements of a list.                 *)

Chain(start) ==
  LET nth[n \in 0 .. PoolSize] ==
        IF n = 0 THEN start ELSE IF nth[n - 1] = -1 THEN -1 ELSE next[nth[n - 1]]
  IN  nth

Elements(start) == {Chain(start)[n] : n \in 0 .. PoolSize} \ {-1}
Ends(start)     == Chain(start)[PoolSize] = -1

Lowest(S) == CHOOSE x \in S : \A y \in S : x <= y

Find(d)    == {o \in Object : object[o].dev = d}
IdsOf(o)   == {id[i] : i \in Elements(object[o].start)}
Unused     == Find(NoDevice)

Op == ops < MaxOps /\ ops' = ops + 1
----------------------------------------------------------------------------
\* LSD_CreateEnsoObjectDirectly: the first object that is not in use.
CreateObject(d) ==
  /\ Op /\ deleting = NoDevice
  /\ Find(d) = {} /\ Unused # {}
  /\ object' = [object EXCEPT ![Lowest(Unused)] = [dev |-> d, start |-> -1]]
  /\ UNCHANGED <<id, next, firstFree, deleting, walk>>

\* Mutant: a second property with the same id is not refused.
CreatePropertyAgain(o, p) ==
  /\ Op /\ object[o].dev # NoDevice /\ object[o].dev # deleting
  /\ firstFree >= 0
  /\ firstFree' = next[firstFree]
  /\ id' = [id EXCEPT ![firstFree] = p]
  /\ next' = [next EXCEPT ![firstFree] = object[o].start]
  /\ object' = [object EXCEPT ![o].start = firstFree]
  /\ UNCHANGED <<deleting, walk>>

\* prv_CreateProperty: refused for an id in use, or when the pool is full.
CreateProperty(o, p) ==
  /\ Op /\ object[o].dev # NoDevice /\ object[o].dev # deleting
  /\ p \notin IdsOf(o) /\ firstFree >= 0
  /\ firstFree' = next[firstFree]
  /\ id' = [id EXCEPT ![firstFree] = p]
  /\ next' = [next EXCEPT ![firstFree] = object[o].start]
  /\ object' = [object EXCEPT ![o].start = firstFree]
  /\ UNCHANGED <<deleting, walk>>

Previous(o, i) == {j \in Elements(object[o].start) : next[j] = i}

\* History: the property sought leaves its list, or the element the walk is at.
Unlinked(i) ==
  IF \/ walk.at \in {"begin", "walking"} /\ walk.slot = i
     \/ walk.at = "walking" /\ walk.i = i
  THEN [walk EXCEPT !.linked = FALSE] ELSE walk

\* Mutant of Remove below: one more index is taken for "no previous element".
RemoveOffByOne(o, i) ==
  LET relink == {j \in Previous(o, i) : j > 1}
  IN  /\ object' = IF relink = {} THEN [object EXCEPT ![o].start = next[i]] ELSE object
      /\ next' = [j \in Slot |-> IF j = i THEN firstFree
                                 ELSE IF j \in relink THEN next[i] ELSE next[j]]
      /\ id' = [id EXCEPT ![i] = 0]
      /\ firstFree' = i
      /\ walk' = Unlinked(i)

\* LSD_RemoveProperty_Safe on the element i of object o's list.  Element 0 is
\* taken for "no previous element": its successor is never relinked.
Remove(o, i) ==
  LET relink == {j \in Previous(o, i) : j > 0}
  IN  /\ object' = IF relink = {} THEN [object EXCEPT ![o].start = next[i]] ELSE object
      /\ next' = [j \in Slot |-> IF j = i THEN firstFree
                                 ELSE IF j \in relink THEN next[i] ELSE next[j]]
      /\ id' = [id EXCEPT ![i] = 0]
      /\ firstFree' = i
      /\ walk' = Unlinked(i)

\* LSD_RemovePropertyByAgentSideId, called by the device handler.
RemoveProperty(o, p) ==
  /\ Op /\ object[o].dev \in Device \ {deleting}
  /\ \E i \in Elements(object[o].start) : id[i] = p /\ Remove(o, i)
  /\ UNCHANGED deleting
----------------------------------------------------------------------------
(* LSD_DestroyEnsoDevice: the first property is removed until there is     *)
(* none; the mutex is released in between; then the object is zeroed.      *)

DestroyDevice(d) ==
  /\ Op /\ deleting = NoDevice /\ Find(d) # {}
  /\ deleting' = d
  /\ UNCHANGED <<pool, walk>>

RemoveFirst ==
  /\ deleting # NoDevice
  /\ \E o \in Find(deleting) : object[o].start >= 0 /\ Remove(o, object[o].start)
  /\ UNCHANGED <<deleting, ops>>

\* memset(object, 0): the list start becomes element 0, the gateway's.
DestroyObject ==
  /\ deleting # NoDevice
  /\ \E o \in Find(deleting) :
       /\ object[o].start = -1
       /\ object' = [object EXCEPT ![o] = [dev |-> NoDevice, start |-> 0]]
  /\ deleting' = NoDevice
  /\ UNCHANGED <<id, next, firstFree, walk, ops>>

----------------------------------------------------------------------------
(* LSD_NotifyDirectly looks for the property p that another thread - the   *)
(* cloud's - has just set on object o, without the mutex.                  *)

WalkStart(o, i) ==
  /\ walk = NoWalk /\ Op
  /\ object[o].dev # NoDevice /\ i \in Elements(object[o].start)
  /\ walk' = [at |-> "begin", o |-> o, p |-> id[i], slot |-> i, linked |-> TRUE]
  /\ UNCHANGED <<pool, deleting>>

WalkBegin ==
  /\ walk.at = "begin"
  /\ walk' = [at |-> "walking", i |-> object[walk.o].start, o |-> walk.o, p |-> walk.p,
              slot |-> walk.slot, linked |-> walk.linked]
  /\ UNCHANGED <<pool, deleting, ops>>

\* Mutant: the search starts again at the end of the list.
WalkStepAround ==
  /\ walk.at = "walking"
  /\ walk' = IF walk.i = -1 THEN [walk EXCEPT !.i = object[walk.o].start]
             ELSE IF id[walk.i] = walk.p THEN [walk EXCEPT !.at = "found"]
             ELSE [walk EXCEPT !.i = next[walk.i]]
  /\ UNCHANGED <<pool, deleting, ops>>

\* Mutant: the last element of the list is not looked at.
WalkStepShort ==
  /\ walk.at = "walking"
  /\ walk' = IF walk.i = -1 \/ next[walk.i] = -1 THEN [walk EXCEPT !.at = "not found"]
             ELSE IF id[walk.i] = walk.p THEN [walk EXCEPT !.at = "found"]
             ELSE [walk EXCEPT !.i = next[walk.i]]
  /\ UNCHANGED <<pool, deleting, ops>>

\* One element: past the end of the list, found, or on to the next.
WalkStep ==
  /\ walk.at = "walking"
  /\ walk' = IF walk.i = -1 THEN [walk EXCEPT !.at = "not found"]
             ELSE IF id[walk.i] = walk.p THEN [walk EXCEPT !.at = "found"]
             ELSE [walk EXCEPT !.i = next[walk.i]]
  /\ UNCHANGED <<pool, deleting, ops>>

WalkDone ==
  /\ walk.at \in {"found", "not found"}
  /\ walk' = NoWalk
  /\ UNCHANGED <<pool, deleting, ops>>
----------------------------------------------------------------------------
Next ==
  \/ \E d \in Device : CreateObject(d) \/ DestroyDevice(d)
  \/ \E o \in Object, p \in Id : CreateProperty(o, p) \/ RemoveProperty(o, p)
  \/ \E o \in Object, i \in Slot : WalkStart(o, i)
  \/ RemoveFirst \/ DestroyObject
  \/ WalkBegin \/ WalkStep \/ WalkDone

Spec     == Init /\ [][Next]_vars
FairSpec == /\ Spec
            /\ WF_vars(RemoveFirst \/ DestroyObject)
            /\ WF_vars(WalkBegin \/ WalkStep \/ WalkDone)
----------------------------------------------------------------------------
Walks == {NoWalk}
  \cup [at : {"begin"}, o : Object, p : Id, slot : Slot, linked : BOOLEAN]
  \cup [at : {"walking", "found", "not found"}, i : Index, o : Object, p : Id,
        slot : Slot, linked : BOOLEAN]

\* Every variable has its type.
TypeOK ==
  /\ object \in [Object -> [dev : Device \cup {Gateway, NoDevice}, start : Index]]
  /\ id \in [Slot -> Id \cup {0}] /\ next \in [Slot -> Index] /\ firstFree \in Index
  /\ deleting \in Device \cup {NoDevice} /\ walk \in Walks /\ ops \in 0 .. MaxOps

Used == Object \ Unused

(* The free list and the lists of the objects in use end, share no element *)
(* and together hold the whole pool; exactly the free elements have id 0.  *)
(* It survives every sequence of creations and removals although removing  *)
(* an element misreads its predecessor when that is element 0: element 0   *)
(* stays last in the gateway's list.                                       *)
PoolIsPartitioned ==
  LET free == Elements(firstFree)
      of(o) == Elements(object[o].start)
  IN  /\ Ends(firstFree) /\ \A o \in Used : Ends(object[o].start)
      /\ \A o \in Used : of(o) \cap free = {}
      /\ \A o, q \in Used : o # q => of(o) \cap of(q) = {}
      /\ free \cup UNION {of(o) : o \in Used} = Slot
      /\ free = {i \in Slot : id[i] = 0}

(* No two properties of an object have the same agentSidePropertyID: the   *)
(* lookups return the first match.                                         *)
IdsAreUnique ==
  \A o \in Used : \A i, j \in Elements(object[o].start) : id[i] = id[j] => i = j

(* A search through a list that others are changing comes to an end.       *)
WalkEnds == walk.at # "idle" ~> walk.at = "idle"

(* LSD_NotifyDirectly: "send them a single delta message containing all    *)
(* properties that have changed".  The search, without the mutex, finds a  *)
(* property that stays in its list whatever else is created, removed or    *)
(* destroyed meanwhile, unless the very element it stands on is freed: it  *)
(* then goes on along the free list.                                       *)
FindsWhatIsThere == walk.at = "not found" => ~walk.linked
============================================================================
