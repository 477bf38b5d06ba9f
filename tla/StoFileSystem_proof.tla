------------------------ MODULE StoFileSystem_proof ------------------------
(***************************************************************************)
(* Proofs about StoFileSystem.tla, for any number and size of areas: every *)
(* variable keeps its type, a file name is never in two headers, a power   *)
(* loss leaves one of the outcomes CrashOutcome lists, and between two     *)
(* calls the flash holds what the return codes of this boot said.          *)
(***************************************************************************)
EXTENDS StoFileSystem, SequenceTheorems, WellFoundedInduction, TLAPS

(* getFileAddr, findEmptyBlock and getEmptySlot return the first match: a  *)
(* set of numbers that is not empty has a least element.                   *)
LEMMA LowestIsIn ==
  ASSUME NEW S \in SUBSET Nat, S # {}
  PROVE  Lowest(S) \in S /\ \A x \in S : Lowest(S) <= x
<1> DEFINE Less == {ss \in Nat \X Nat : ss[1] < ss[2]}
<1>1. IsWellFoundedOn(Less, Nat)
  BY NatLessThanWellFounded DEF OpToRel
<1>2. PICK b \in S : \A x \in S : ~(<<x, b>> \in Less)
  <2> HIDE DEF Less
  <2> QED
    BY <1>1, WFMin
<1>3. \A x \in S : b <= x
  <2> TAKE x \in S
  <2>1. b \in Nat /\ x \in Nat
    OBVIOUS
  <2>2. ~(x < b)
    <3>1. x < b => <<x, b>> \in Less
      BY <2>1
    <3> QED
      BY <1>2, <3>1
  <2> QED
    BY <2>1, <2>2
<1> QED
  BY <1>3 DEF Lowest

(* Where a lookup finds what it looks for.                                 *)
LEMMA LookupsAreInRange ==
  ASSUME TypeOK, NEW n \in Names
  PROVE  /\ Exists(n) => FileAddr(n) \in Blocks /\ flash[FileAddr(n)].name = n
         /\ EmptyAreas # {} => /\ Lowest(EmptyAreas) \in Blocks
                               /\ flash[Lowest(EmptyAreas)].size = -1
         /\ FreeSlots # {} => Lowest(FreeSlots) \in Slots
<1>1. AreasNamed(n) \in SUBSET Nat /\ EmptyAreas \in SUBSET Nat /\ FreeSlots \in SUBSET Nat
  BY SizesAssumption DEF AreasNamed, EmptyAreas, FreeSlots, Blocks, Slots
<1>2. Exists(n) => FileAddr(n) \in AreasNamed(n)
  BY <1>1, LowestIsIn DEF Exists, FileAddr
<1>3. EmptyAreas # {} => Lowest(EmptyAreas) \in EmptyAreas
  BY <1>1, LowestIsIn
<1>4. FreeSlots # {} => Lowest(FreeSlots) \in FreeSlots
  BY <1>1, LowestIsIn
<1> QED
  BY <1>2, <1>3, <1>4 DEF AreasNamed, EmptyAreas, FreeSlots

(* Erasing a sector of an area, or giving it a header, leaves an area.     *)
LEMMA FlashOperationsKeepAreas ==
  ASSUME NEW area \in Area, NEW s, NEW n \in Names
  PROVE  EraseSector(area, s) \in Area /\ NewFile(area, n) \in Area
<1>1. /\ area.cell \in [Cells -> Data \cup {Erased, Garbled}]
      /\ area.name \in Names \cup {NoName} /\ area.size \in -1 .. Capacity
  BY DEF Area
<1>2. -1 \in -1 .. Capacity /\ 0 \in -1 .. Capacity
  BY SizesAssumption
<1>3. EraseSector(area, s) \in Area
  BY <1>1, <1>2 DEF EraseSector, Area
<1>4. NewFile(area, n) \in Area
  BY <1>2 DEF NewFile, Area
<1> QED
  BY <1>3, <1>4

(* Programming a page of an image into an area leaves an area.             *)
LEMMA ProgrammingKeepsAreas ==
  ASSUME NEW area \in Area, NEW image \in Area, NEW page \in 0 .. HeadCells
  PROVE  ProgramPage(area, image, page) \in Area
<1>1. CASE page = 0
  BY <1>1 DEF ProgramPage, Area
<1>2. CASE page # 0
  <2> DEFINE cell == [area.cell EXCEPT ![page] = image.cell[page]]
  <2>1. page \in Cells
    BY <1>2, SizesAssumption DEF Cells
  <2>2. cell \in [Cells -> Data \cup {Erased, Garbled}]
    BY <2>1 DEF Area
  <2>3. ProgramPage(area, image, page) = [area EXCEPT !.cell = cell]
    BY <1>2 DEF ProgramPage, Area
  <2> HIDE DEF cell
  <2> QED
    BY <2>2, <2>3 DEF Area
<1> QED
  BY <1>1, <1>2
----------------------------------------------------------------------------
(* A header with a file name has a size; so has the one to be programmed.  *)
NamedHasSize ==
  /\ \A b \in Blocks : flash[b].name \in Names => flash[b].size # -1
  /\ call.at = "program" => call.image.name \in Names /\ call.image.size # -1

(* No other area has the name that a call in progress will program.        *)
ImageNameIsFree ==
  call.at = "program" => \A b \in Blocks \ {call.area} : flash[b].name # call.image.name

(* A record is appended to the area whose header names the current log.    *)
AppendIsToCurrent ==
  call.proc = "write" /\ call.at = "erase" => flash[call.area].name = Current

IInv == TypeOK /\ UniqueNames /\ NamedHasSize /\ ImageNameIsFree /\ AppendIsToCurrent

(* The call in progress is of the shape its proc and at say.               *)
LEMMA ShapeOfCall ==
  ASSUME TypeOK
  PROVE  /\ call.proc = "write" /\ call.at = "erase" => call \in Erasing
         /\ call.proc = "write" /\ call.at # "erase" => call \in Writing
         /\ call.proc = "rename" => call \in Renaming
         /\ call.proc = "remove" => call \in Removing
         /\ call.proc \in {"none", "create"} => call.at # "program" /\ call.at # "erase"
  BY DEF TypeOK, Calls, NoCall, Creating, Erasing, Writing, Renaming, Removing

(* The invariant holds of the erased flash the gateway is shipped with.    *)
THEOREM InitEstablishesInvariant == Init => IInv
  BY SizesAssumption, NamesAssumption
  DEF Init, IInv, TypeOK, UniqueNames, NamedHasSize, ImageNameIsFree, AppendIsToCurrent,
      Calls, NoCall, Area, Names

(* A step that starts no flash operation and changes no header.            *)
LEMMA QuietStep ==
  ASSUME IInv, UNCHANGED flash,
         call' = NoCall \/ call' = call \/ call' \in Removing
  PROVE  /\ UniqueNames' /\ NamedHasSize' /\ ImageNameIsFree' /\ AppendIsToCurrent'
         /\ call' \in Calls
  BY DEF IInv, TypeOK, UniqueNames, NamedHasSize, ImageNameIsFree, AppendIsToCurrent,
         NoCall, Removing, Calls

(* STO_Open for writing, whoever called it.                                *)
LEMMA OpeningKeepsNames ==
  ASSUME IInv, NEW n \in Names, CanOpen(n),
         flash' = (IF Exists(n) THEN flash
                   ELSE [flash EXCEPT ![OpenArea(n)] = NewFile(@, n)])
  PROVE  /\ OpenArea(n) \in Blocks /\ Lowest(FreeSlots) \in Slots
         /\ flash' \in [Blocks -> Area]
         /\ UniqueNames' /\ flash'[OpenArea(n)].name = n
         /\ \A b \in Blocks : flash'[b].name \in Names => flash'[b].size # -1
<1>1. /\ OpenArea(n) \in Blocks /\ Lowest(FreeSlots) \in Slots
      /\ Exists(n) => flash[OpenArea(n)].name = n
  BY LookupsAreInRange DEF CanOpen, OpenArea, IInv
<1>2. flash \in [Blocks -> Area]
  BY DEF IInv, TypeOK
<1>3. CASE Exists(n)
  BY <1>1, <1>2, <1>3 DEF IInv, UniqueNames, NamedHasSize
<1>4. CASE ~Exists(n)
  <2> DEFINE a == OpenArea(n)
  <2>1. flash' = [flash EXCEPT ![a] = NewFile(flash[a], n)]
    BY <1>4
  <2>2. NewFile(flash[a], n) \in Area
    BY <1>1, <1>2, FlashOperationsKeepAreas
  <2>3. NewFile(flash[a], n).name = n /\ NewFile(flash[a], n).size = 0
    BY <1>1, <1>2 DEF NewFile, Area
  <2>4. \A b \in Blocks : flash[b].name # n
    BY <1>4 DEF Exists, AreasNamed
  <2>5. flash'[a] = NewFile(flash[a], n) /\ \A b \in Blocks \ {a} : flash'[b] = flash[b]
    BY <1>1, <1>2, <2>1
  <2>6. flash' \in [Blocks -> Area]
    BY <1>1, <1>2, <2>1, <2>2
  <2>7. UniqueNames'
    BY <1>1, <2>3, <2>4, <2>5 DEF IInv, UniqueNames
  <2> QED
    BY <1>1, <2>3, <2>5, <2>6, <2>7 DEF IInv, NamedHasSize
<1> QED
  BY <1>3, <1>4

(* One flash operation on one area, which leaves it without a name or with *)
(* a name that no other area has, keeps the names unique.                  *)
LEMMA OneAreaChanges ==
  ASSUME IInv, NEW a \in Blocks, NEW new \in Area,
         flash' = [flash EXCEPT ![a] = new],
         new.name \in Names => /\ new.size # -1
                               /\ \A b \in Blocks \ {a} : flash[b].name # new.name
  PROVE  /\ flash' \in [Blocks -> Area] /\ UniqueNames'
         /\ \A b \in Blocks : flash'[b].name \in Names => flash'[b].size # -1
<1>1. flash \in [Blocks -> Area]
  BY DEF IInv, TypeOK
<1>2. flash'[a] = new /\ \A b \in Blocks \ {a} : flash'[b] = flash[b]
  BY <1>1
<1> QED
  BY <1>1, <1>2 DEF IInv, UniqueNames, NamedHasSize

(* updateFile programs one page of the image: the header, whose name no    *)
(* other area has, or a page behind it.                                    *)
LEMMA PageIsProgrammed ==
  ASSUME IInv, call.at = "program", call.area \in Blocks, call.image \in Area,
         call.page \in 0 .. HeadCells,
         flash' = [flash EXCEPT ![call.area] = ProgramPage(@, call.image, call.page)]
  PROVE  /\ flash' \in [Blocks -> Area] /\ UniqueNames'
         /\ \A b \in Blocks : flash'[b].name \in Names => flash'[b].size # -1
         /\ \A b \in Blocks \ {call.area} : flash'[b] = flash[b]
<1>1. flash \in [Blocks -> Area] /\ flash[call.area] \in Area
  BY DEF IInv, TypeOK
<1> DEFINE new == ProgramPage(flash[call.area], call.image, call.page)
<1>2. new \in Area
  BY <1>1, ProgrammingKeepsAreas
<1>3. /\ flash' = [flash EXCEPT ![call.area] = new]
      /\ \A b \in Blocks \ {call.area} : flash'[b] = flash[b]
  BY <1>1
<1>4. new.name \in Names => /\ new.size # -1
                            /\ \A b \in Blocks \ {call.area} : flash[b].name # new.name
  <2>1. CASE call.page = 0
    <3>1. new.name = call.image.name /\ new.size = call.image.size
      BY <1>1, <2>1 DEF ProgramPage, Area
    <3> HIDE DEF new
    <3> QED
      BY <3>1 DEF IInv, NamedHasSize, ImageNameIsFree
  <2>2. CASE call.page # 0
    <3>1. new.name = flash[call.area].name /\ new.size = flash[call.area].size
      BY <1>1, <2>2 DEF ProgramPage, Area
    <3> HIDE DEF new
    <3> QED
      BY <3>1 DEF IInv, NamedHasSize, UniqueNames
  <2> QED
    BY <2>1, <2>2
<1> HIDE DEF new
<1> QED
  BY <1>2, <1>3, <1>4, OneAreaChanges

(* STO_Write programs the record, wholly or in part: no header changes.    *)
LEMMA RecordIsProgrammed ==
  ASSUME IInv, call \in Writing, NEW x \in Data \cup {Erased, Garbled},
         flash' = [flash EXCEPT ![call.area].cell[call.start + 1] = x]
  PROVE  /\ flash' \in [Blocks -> Area] /\ UniqueNames'
         /\ \A b \in Blocks : flash'[b].name \in Names => flash'[b].size # -1
<1>1. call.area \in Blocks /\ call.start \in 0 .. Capacity
  BY DEF Writing
<1>2. flash \in [Blocks -> Area] /\ flash[call.area] \in Area
  BY <1>1 DEF IInv, TypeOK
<1> DEFINE cell == [flash[call.area].cell EXCEPT ![call.start + 1] = x]
           new  == [flash[call.area] EXCEPT !.cell = cell]
<1>3. flash' = [flash EXCEPT ![call.area] = new]
  BY <1>1, <1>2 DEF Area
<1>4. cell \in [Cells -> Data \cup {Erased, Garbled}]
  BY <1>1, <1>2 DEF Area
<1>5. new \in Area /\ new.name = flash[call.area].name /\ new.size = flash[call.area].size
  <2> HIDE DEF cell
  <2> QED
    BY <1>2, <1>4 DEF Area
<1> HIDE DEF new
<1>6. new.name \in Names => /\ new.size # -1
                            /\ \A b \in Blocks \ {call.area} : flash[b].name # new.name
  BY <1>1, <1>5 DEF IInv, NamedHasSize, UniqueNames
<1> QED
  BY <1>1, <1>3, <1>5, <1>6, OneAreaChanges

(* A step after which nothing is left to program.                          *)
LEMMA NothingToProgram ==
  ASSUME IInv, flash' \in [Blocks -> Area], UniqueNames',
         \A b \in Blocks : flash'[b].name \in Names => flash'[b].size # -1,
         call' \in {NoCall, Creating} \cup Removing,
         open' \in [Slots -> Blocks \cup {-1}], phase' \in {"archive", "current", "run"}
  PROVE  IInv'
  BY DEF IInv, TypeOK, NamedHasSize, ImageNameIsFree, AppendIsToCurrent, Calls,
         NoCall, Creating, Removing

(* STO_Open, STO_Write and STO_Close, wherever they stand between the      *)
(* erase and the last programmed byte, keep the invariant.                 *)
LEMMA WriteStepsKeepInvariant ==
  ASSUME IInv,
         (\E d \in Data : WriteOpen(d) \/ WriteDropped(d))
           \/ WriteErase \/ WriteProgram \/ WriteContent
  PROVE  IInv'
<1> USE NamesAssumption DEF Names
<1>1. CASE \E d \in Data : WriteOpen(d)
  <2>1. PICK d \in Data : WriteOpen(d)
    BY <1>1
  <2>2. /\ OpenArea(Current) \in Blocks /\ Lowest(FreeSlots) \in Slots
        /\ flash' \in [Blocks -> Area]
        /\ UniqueNames' /\ flash'[OpenArea(Current)].name = Current
        /\ \A b \in Blocks : flash'[b].name \in Names => flash'[b].size # -1
    BY <2>1, OpeningKeepsNames DEF WriteOpen, OpenForWriting
  <2>3. call' \in Erasing
    BY <2>1, <2>2 DEF WriteOpen, Erasing
  <2>4. TypeOK'
    BY <2>1, <2>2, <2>3 DEF IInv, TypeOK, WriteOpen, OpenForWriting, Calls
  <2>5. NamedHasSize' /\ ImageNameIsFree' /\ AppendIsToCurrent'
    BY <2>1, <2>2, <2>3 DEF WriteOpen, NamedHasSize, ImageNameIsFree, AppendIsToCurrent, Erasing
  <2> QED
    BY <2>2, <2>4, <2>5 DEF IInv
<1>2. CASE \E d \in Data : WriteDropped(d)
  <2>1. UNCHANGED <<flash, open, phase, call>>
    BY <1>2 DEF WriteDropped
  <2>2. TypeOK'
    BY <2>1 DEF IInv, TypeOK
  <2> QED
    BY <2>1, <2>2, QuietStep DEF IInv
<1>3. CASE WriteErase
  <2> DEFINE a == call.area
  <2>1. call \in Erasing
    BY <1>3, ShapeOfCall DEF IInv, WriteErase
  <2>2. a \in Blocks /\ call.data \in Data /\ call.slot \in Slots
    BY <2>1 DEF Erasing
  <2>3. flash \in [Blocks -> Area] /\ flash[a] \in Area
    BY <2>2 DEF IInv, TypeOK
  <2>4. flash[a].name = Current
    BY <1>3 DEF IInv, AppendIsToCurrent, WriteErase
  <2>5. flash[a].size \in 0 .. Capacity
    BY <2>2, <2>3, <2>4, SizesAssumption DEF IInv, NamedHasSize, Area
  <2> DEFINE wrote == Min2(1, Capacity - flash[a].size)
             image == [flash[a] EXCEPT !.size = @ + wrote]
  <2>6. wrote \in {0, 1} /\ flash[a].size + wrote \in 0 .. Capacity
    BY <2>5, SizesAssumption DEF Min2
  <2>7. image \in Area /\ image.name = Current /\ image.size # -1
    <3> DEFINE size == flash[a].size + wrote
    <3>1. size \in 0 .. Capacity
      BY <2>6
    <3>2. size \in -1 .. Capacity /\ size # -1
      BY <3>1, SizesAssumption
    <3> HIDE DEF size
    <3>3. [flash[a] EXCEPT !.size = size] \in Area
      BY <2>3, <3>2 DEF Area
    <3>4. image = [flash[a] EXCEPT !.size = size]
      BY DEF size
    <3>5. image.name = flash[a].name /\ image.size = size
      BY <2>3, <3>4 DEF Area
    <3> QED
      BY <2>4, <3>2, <3>3, <3>4, <3>5
  <2>8. call' = [proc |-> "write", at |-> "program", data |-> call.data, area |-> a,
                 slot |-> call.slot, page |-> 0, image |-> image, start |-> flash[a].size,
                 wrote |-> wrote]
    BY <1>3 DEF WriteErase
  <2>9. call' \in Writing
    <3> HIDE DEF image, wrote, a
    <3> QED
      BY SizesAssumption, <2>2, <2>5, <2>6, <2>7, <2>8 DEF Writing
  <2>10. EraseSector(flash[a], 0) \in Area /\ EraseSector(flash[a], 0).name = NoName
    BY <2>3, FlashOperationsKeepAreas DEF EraseSector
  <2>11. flash' = [flash EXCEPT ![a] = EraseSector(flash[a], 0)]
    BY <1>3 DEF WriteErase
  <2>12. /\ flash' \in [Blocks -> Area] /\ UniqueNames'
         /\ \A b \in Blocks : flash'[b].name \in Names => flash'[b].size # -1
    BY <2>2, <2>10, <2>11, OneAreaChanges
  <2>13. TypeOK'
    BY <1>3, <2>9, <2>12 DEF IInv, TypeOK, WriteErase, Calls
  <2>14. ImageNameIsFree'
    <3>1. \A b \in Blocks \ {a} : flash'[b] = flash[b] /\ flash[b].name # Current
      BY <2>2, <2>3, <2>4, <2>11 DEF IInv, UniqueNames
    <3>2. call'.area = a /\ call'.image = image
      BY <2>8
    <3> QED
      BY <2>7, <3>1, <3>2 DEF ImageNameIsFree
  <2>15. NamedHasSize' /\ AppendIsToCurrent'
    <3>1. call'.image = image /\ call'.at = "program"
      BY <2>8
    <3> QED
      BY <2>7, <2>12, <3>1 DEF NamedHasSize, AppendIsToCurrent
  <2> QED
    BY <2>12, <2>13, <2>14, <2>15 DEF IInv
<1>4. CASE WriteProgram
  <2>1. call \in Writing /\ call.at = "program"
    BY <1>4, ShapeOfCall DEF IInv, WriteProgram
  <2>2. call.area \in Blocks /\ call.image \in Area /\ call.page \in 0 .. HeadCells
    BY <2>1 DEF Writing
  <2>3. /\ flash' \in [Blocks -> Area] /\ UniqueNames'
        /\ \A b \in Blocks : flash'[b].name \in Names => flash'[b].size # -1
        /\ \A b \in Blocks \ {call.area} : flash'[b] = flash[b]
    BY <1>4, <2>1, <2>2, PageIsProgrammed DEF WriteProgram
  <2>4. call' = IF call.page < HeadCells THEN [call EXCEPT !.page = @ + 1]
                                         ELSE [call EXCEPT !.at = "content"]
    BY <1>4 DEF WriteProgram
  <2>5. /\ call' \in Writing /\ call'.image = call.image /\ call'.area = call.area
        /\ call'.at # "erase"
    BY <2>1, <2>2, <2>4, SizesAssumption DEF Writing
  <2>6. TypeOK'
    BY <1>4, <2>3, <2>5 DEF IInv, TypeOK, WriteProgram, Calls
  <2>7. NamedHasSize' /\ ImageNameIsFree' /\ AppendIsToCurrent'
    BY <2>1, <2>3, <2>5 DEF IInv, NamedHasSize, ImageNameIsFree, AppendIsToCurrent
  <2> QED
    BY <2>3, <2>6, <2>7 DEF IInv
<1>5. CASE WriteContent
  <2>1. call \in Writing
    BY <1>5, ShapeOfCall DEF IInv, WriteContent
  <2>2. call.area \in Blocks /\ call.data \in Data
    BY <2>1 DEF Writing
  <2>3. /\ flash' \in [Blocks -> Area] /\ UniqueNames'
        /\ \A b \in Blocks : flash'[b].name \in Names => flash'[b].size # -1
    <3>1. CASE call.wrote = 0
      BY <1>5, <3>1 DEF WriteContent, IInv, TypeOK, UniqueNames, NamedHasSize
    <3>2. CASE call.wrote # 0
      <4> DEFINE x == Programmed(flash[call.area].cell[call.start + 1], call.data)
      <4>1. x \in Data \cup {Erased, Garbled}
        BY <2>2 DEF Programmed
      <4>2. flash' = [flash EXCEPT ![call.area].cell[call.start + 1] = x]
        BY <1>5, <2>2, <3>2 DEF WriteContent, IInv, TypeOK
      <4> HIDE DEF x
      <4> QED
        BY <2>1, <4>1, <4>2, RecordIsProgrammed
    <3> QED
      BY <3>1, <3>2
  <2>4. call' = NoCall /\ open' \in [Slots -> Blocks \cup {-1}] /\ phase' = phase
    BY <1>5, <2>2 DEF IInv, TypeOK, WriteContent
  <2> QED
    BY <2>3, <2>4, NothingToProgram DEF IInv, TypeOK
<1> QED
  BY <1>1, <1>2, <1>3, <1>4, <1>5

(* STO_Rename and STO_CheckSizeAndConsolidate, which move the name of the  *)
(* current log to the archive and create a new current log, keep it.       *)
LEMMA ConsolidationStepsKeepInvariant ==
  ASSUME IInv, ConsolidateErase \/ ConsolidateProgram \/ ConsolidateCreate
  PROVE  IInv'
<1> USE NamesAssumption DEF Names
<1>0. flash \in [Blocks -> Area]
  BY DEF IInv, TypeOK
<1>1. CASE ConsolidateErase
  <2> DEFINE b == FileAddr(Current)
             image == [flash[b] EXCEPT !.name = Archive]
  <2>1. b \in Blocks /\ flash[b].name = Current /\ flash[b] \in Area
    BY <1>0, <1>1, LookupsAreInRange DEF IInv, ConsolidateErase
  <2>2. \A c \in Blocks : flash[c].name # Archive
    BY <1>1 DEF ConsolidateErase, Exists, AreasNamed
  <2>3. /\ call' = [proc |-> "rename", at |-> "program", area |-> b,
                    page |-> 0, image |-> image]
        /\ flash' = [flash EXCEPT ![b] = EraseSector(flash[b], 0)]
        /\ UNCHANGED <<open, phase>>
    BY <1>1 DEF ConsolidateErase
  <2>4. image \in Area /\ image.name = Archive /\ image.size # -1
    <3>1. flash[b].size # -1
      BY <2>1 DEF IInv, NamedHasSize
    <3> HIDE DEF b
    <3> QED
      BY <2>1, <3>1 DEF Area
  <2> HIDE DEF b, image
  <2>5. EraseSector(flash[b], 0) \in Area /\ EraseSector(flash[b], 0).name = NoName
    BY <2>1, FlashOperationsKeepAreas DEF EraseSector
  <2>6. /\ flash' \in [Blocks -> Area] /\ UniqueNames'
        /\ \A c \in Blocks : flash'[c].name \in Names => flash'[c].size # -1
    BY <2>1, <2>3, <2>5, OneAreaChanges
  <2>7. call' \in Renaming
    BY <2>1, <2>3, <2>4, SizesAssumption DEF Renaming
  <2>8. call'.image = image /\ call'.area = b /\ call'.proc = "rename"
    BY <2>3
  <2>9. \A c \in Blocks \ {b} : flash'[c].name # Archive
    BY <1>0, <2>2, <2>3
  <2>10. TypeOK'
    BY <2>3, <2>6, <2>7 DEF IInv, TypeOK, Calls
  <2> QED
    BY <2>4, <2>6, <2>8, <2>9, <2>10 DEF IInv, NamedHasSize, ImageNameIsFree, AppendIsToCurrent
<1>2. CASE ConsolidateProgram
  <2>1. call \in Renaming /\ call.at = "program"
    BY <1>2, ShapeOfCall DEF IInv, ConsolidateProgram
  <2>2. call.area \in Blocks /\ call.image \in Area /\ call.page \in 0 .. HeadCells
    BY <2>1 DEF Renaming
  <2>3. /\ flash' \in [Blocks -> Area] /\ UniqueNames'
        /\ \A c \in Blocks : flash'[c].name \in Names => flash'[c].size # -1
        /\ \A c \in Blocks \ {call.area} : flash'[c] = flash[c]
    BY <1>2, <2>1, <2>2, PageIsProgrammed DEF ConsolidateProgram
  <2>4. CASE call.page < HeadCells
    <3>1. call' = [call EXCEPT !.page = @ + 1] /\ UNCHANGED <<open, phase>>
      BY <1>2, <2>4 DEF ConsolidateProgram
    <3>2. call' \in Renaming /\ call'.image = call.image /\ call'.area = call.area
      BY <2>1, <2>2, <2>4, <3>1, SizesAssumption DEF Renaming
    <3>3. TypeOK'
      BY <2>3, <3>1, <3>2 DEF IInv, TypeOK, Calls
    <3>4. NamedHasSize' /\ ImageNameIsFree' /\ AppendIsToCurrent'
      BY <2>1, <2>3, <3>2 DEF IInv, NamedHasSize, ImageNameIsFree, AppendIsToCurrent, Renaming
    <3> QED
      BY <2>3, <3>3, <3>4 DEF IInv
  <2>5. CASE ~(call.page < HeadCells)
    BY <1>2, <2>3, <2>5, NothingToProgram DEF IInv, TypeOK, ConsolidateProgram
  <2> QED
    BY <2>4, <2>5
<1>3. CASE ConsolidateCreate
  <2>1. call' = NoCall /\ UNCHANGED <<open, phase>>
    BY <1>3 DEF ConsolidateCreate
  <2>2. CASE CanOpen(Current) /\ ~Exists(Current)
    <3>1. flash' = IF Exists(Current) THEN flash
                   ELSE [flash EXCEPT ![OpenArea(Current)] = NewFile(@, Current)]
      BY <1>3, <2>2 DEF ConsolidateCreate
    <3>2. /\ flash' \in [Blocks -> Area] /\ UniqueNames'
          /\ \A b \in Blocks : flash'[b].name \in Names => flash'[b].size # -1
      BY <2>2, <3>1, OpeningKeepsNames
    <3> QED
      BY <2>1, <3>2, NothingToProgram DEF IInv, TypeOK
  <2>3. CASE ~(CanOpen(Current) /\ ~Exists(Current))
    <3>1. UNCHANGED flash
      BY <1>3, <2>3 DEF ConsolidateCreate
    <3> QED
      BY <2>1, <3>1, NothingToProgram DEF IInv, TypeOK, UniqueNames, NamedHasSize
  <2> QED
    BY <2>2, <2>3
<1> QED
  BY <1>1, <1>2, <1>3

(* Removing a log, loading the logs, and losing power.                     *)
LEMMA OtherStepsKeepInvariant ==
  ASSUME IInv, RemoveArchive \/ RemoveStep \/ Load \/ LoadCorrupted \/ PowerLoss
  PROVE  IInv'
<1>0. flash \in [Blocks -> Area] /\ open \in [Slots -> Blocks \cup {-1}]
  BY DEF IInv, TypeOK
<1>1. ASSUME NEW n \in Names, Exists(n), StartRemove(n)
      PROVE  call' \in Removing
  <2>1. 0 \in Sectors
    <3>1. SectorOf(Capacity) \in Nat
      BY SizesAssumption DEF SectorOf
    <3> QED
      BY <3>1 DEF Sectors
  <2> QED
    BY <1>1, <2>1, LookupsAreInRange DEF IInv, StartRemove, Removing
<1>2. CASE RemoveArchive
  BY <1>0, <1>1, <1>2, NothingToProgram
  DEF IInv, TypeOK, RemoveArchive, Names, UniqueNames, NamedHasSize
<1>3. CASE RemoveStep
  <2>1. call \in Removing
    BY <1>3, ShapeOfCall DEF IInv, RemoveStep
  <2>2. call.area \in Blocks /\ call.sector \in Sectors /\ flash[call.area] \in Area
    BY <1>0, <2>1 DEF Removing
  <2> DEFINE new == EraseSector(flash[call.area], call.sector)
  <2>3. new \in Area
    BY <2>2, FlashOperationsKeepAreas, NamesAssumption DEF Names
  <2>4. flash' = [flash EXCEPT ![call.area] = new]
    BY <1>3 DEF RemoveStep
  <2>5. /\ flash' \in [Blocks -> Area] /\ UniqueNames'
        /\ \A b \in Blocks : flash'[b].name \in Names => flash'[b].size # -1
    <3>1. CASE call.sector = 0
      <4>1. new.name = NoName
        BY <3>1 DEF EraseSector
      <4>2. new.name \notin Names
        BY <4>1, NamesAssumption
      <4> HIDE DEF new
      <4> QED
        BY <2>2, <2>3, <2>4, <4>2, OneAreaChanges
    <3>2. CASE call.sector # 0
      <4>1. new.name = flash[call.area].name /\ new.size = flash[call.area].size
        BY <3>2 DEF EraseSector
      <4>2. new.name \in Names => /\ new.size # -1
                                  /\ \A b \in Blocks \ {call.area} : flash[b].name # new.name
        BY <2>2, <4>1 DEF IInv, UniqueNames, NamedHasSize
      <4> HIDE DEF new
      <4> QED
        BY <2>2, <2>3, <2>4, <4>2, OneAreaChanges
    <3> QED
      BY <3>1, <3>2
  <2>6. call' \in {NoCall} \cup Removing
    BY <1>3, <2>1 DEF RemoveStep, Removing
  <2> QED
    BY <1>0, <1>3, <2>5, <2>6, NothingToProgram DEF RemoveStep, IInv, TypeOK
<1>4. CASE Load
  <2>1. call' = call /\ UNCHANGED <<flash, open>> /\ phase' \in {"archive", "current", "run"}
    BY <1>4 DEF Load, PhaseAfter
  <2> QED
    BY <2>1, QuietStep DEF IInv, TypeOK
<1>5. CASE LoadCorrupted
  <2>1. PICK n \in Names : /\ Exists(n) /\ FreeSlots # {} /\ StartRemove(n)
                           /\ open' = [open EXCEPT ![Lowest(FreeSlots)] = FileAddr(n)]
    BY <1>5 DEF LoadCorrupted, NameAt, Names
  <2>2. FileAddr(n) \in Blocks
    BY <2>1, LookupsAreInRange DEF IInv
  <2>3. open' \in [Slots -> Blocks \cup {-1}]
    BY <1>0, <2>1, <2>2
  <2>4. UNCHANGED flash /\ phase' \in {"archive", "current", "run"}
    BY <1>5 DEF LoadCorrupted, PhaseAfter
  <2> QED
    BY <1>0, <1>1, <2>1, <2>3, <2>4, NothingToProgram DEF IInv, UniqueNames, NamedHasSize
<1>6. CASE PowerLoss
  <2>1. CASE UNCHANGED flash
    BY <1>0, <1>6, <2>1, NothingToProgram DEF PowerLoss, IInv, UniqueNames, NamedHasSize
  <2>2. CASE call.at = "content" /\ flash' = TearRecord
    <3>1. call \in Writing
      BY <2>2, ShapeOfCall DEF IInv, TypeOK, Calls, NoCall, Creating, Erasing, Writing,
                               Renaming, Removing
    <3>2. /\ flash' \in [Blocks -> Area] /\ UniqueNames'
          /\ \A b \in Blocks : flash'[b].name \in Names => flash'[b].size # -1
      BY <2>2, <3>1, RecordIsProgrammed DEF TearRecord
    <3> QED
      BY <1>6, <3>2, NothingToProgram DEF PowerLoss
  <2> QED
    BY <1>6, <2>1, <2>2 DEF PowerLoss
<1> QED
  BY <1>2, <1>3, <1>4, <1>5, <1>6

(* Every step of the file system, a loss of power included, keeps it.      *)
THEOREM StepsKeepInvariant == IInv /\ [Next]_vars => IInv'
<1> SUFFICES ASSUME IInv, [Next]_vars
             PROVE  IInv'
  OBVIOUS
<1>1. CASE Next
  BY <1>1, WriteStepsKeepInvariant, ConsolidationStepsKeepInvariant,
     OtherStepsKeepInvariant DEF Next
<1>2. CASE UNCHANGED vars
  BY <1>2 DEF vars, IInv, TypeOK, UniqueNames, NamedHasSize, ImageNameIsFree,
              AppendIsToCurrent
<1> QED
  BY <1>1, <1>2

(* The file system never leaves the inductive invariant: besides the two   *)
(* properties below, a named area has a size, the image of an area being   *)
(* rewritten carries a name no other area has, and what is appended goes   *)
(* to the current log.                                                     *)
THEOREM InvariantHolds == Spec => []IInv
<1>1. Init => IInv
  BY InitEstablishesInvariant
<1>2. IInv /\ [Next]_vars => IInv'
  BY StepsKeepInvariant
<1> QED
  BY <1>1, <1>2, PTL DEF Spec

(* Every variable of the file system and every call in progress has its    *)
(* type, whatever the number and the size of the areas.                    *)
THEOREM TypeCorrectness == Spec => []TypeOK
  BY InvariantHolds, PTL DEF IInv

(* Wherever power is lost, no two areas of the flash have the same name in *)
(* their headers: getFileAddr finds the only one.                          *)
THEOREM NamesAreUnique == Spec => []UniqueNames
  BY InvariantHolds, PTL DEF IInv
----------------------------------------------------------------------------
(* No file but the one a call is about changes.                            *)

(* The area a call works on has the name of the call's file, or none while *)
(* its header is erased.                                                   *)
CallOwnsArea ==
  /\ call.proc = "write" => /\ flash[call.area].name \in {Current, NoName}
                            /\ call.at = "program" => call.image.name = Current
  /\ call.proc = "remove" => flash[call.area].name \in {call.name, NoName}

(* A file is found where it was, and as it was, when areas of another name *)
(* change.                                                                 *)
LEMMA OtherFileStays ==
  ASSUME NEW n \in Names, NEW a \in Blocks,
         \A b \in Blocks \ {a} : flash'[b] = flash[b],
         flash[a].name # n, flash'[a].name # n
  PROVE  Contents(n)' = Contents(n)
<1>1. AreasNamed(n)' = AreasNamed(n)
  BY DEF AreasNamed
<1>2. Exists(n)' = Exists(n) /\ FileAddr(n)' = FileAddr(n)
  BY <1>1 DEF Exists, FileAddr
<1>3. CASE ~Exists(n)
  BY <1>2, <1>3 DEF Contents
<1>4. CASE Exists(n)
  <2> DEFINE b == FileAddr(n)
  <2>1. AreasNamed(n) \in SUBSET Nat
    BY SizesAssumption DEF AreasNamed, Blocks
  <2>2. b \in AreasNamed(n)
    BY <1>4, <2>1, LowestIsIn DEF FileAddr, Exists
  <2>3. flash'[b] = flash[b]
    BY <2>2 DEF AreasNamed
  <2> HIDE DEF b
  <2>4. Contents(n) = SubSeq(flash[b].cell, 1, flash[b].size)
    BY <1>4 DEF Contents, b
  <2>5. Contents(n)' = SubSeq(flash'[b].cell, 1, flash'[b].size)
    BY <1>2, <1>4 DEF Contents, b
  <2> QED
    BY <2>3, <2>4, <2>5
<1> QED
  BY <1>3, <1>4

(* A file also stays when the flash does.                                  *)
LEMMA SameFlashSameFile ==
  ASSUME NEW n \in Names, UNCHANGED flash
  PROVE  Contents(n)' = Contents(n)
  BY DEF Contents, Exists, FileAddr, AreasNamed, Lowest

(* Writing a record keeps to the area of the current log.                  *)
LEMMA WriteStepsKeepToArea ==
  ASSUME IInv, CallOwnsArea,
         (\E d \in Data : WriteOpen(d) \/ WriteDropped(d))
           \/ WriteErase \/ WriteProgram \/ WriteContent
  PROVE  /\ CallOwnsArea'
         /\ Contents(Archive)' = Contents(Archive)
         /\ UNCHANGED flash \/ Current \in Targets \cup Targets'
<1> USE NamesAssumption DEF Names
<1>0. flash \in [Blocks -> Area]
  BY DEF IInv, TypeOK
<1>1. CASE \E d \in Data : WriteOpen(d)
  <2> DEFINE a == OpenArea(Current)
  <2>1. PICK d \in Data : WriteOpen(d)
    BY <1>1
  <2>2. /\ a \in Blocks /\ flash'[a].name = Current
        /\ Exists(Current) => flash[a].name = Current
        /\ ~Exists(Current) => flash[a].size = -1
    BY <2>1, OpeningKeepsNames, LookupsAreInRange
    DEF WriteOpen, OpenForWriting, CanOpen, OpenArea, IInv
  <2>3. flash[a].name # Archive
    BY <2>2 DEF IInv, NamedHasSize
  <2>4. \A b \in Blocks \ {a} : flash'[b] = flash[b]
    BY <1>0, <2>1, <2>2 DEF WriteOpen, OpenForWriting
  <2>5. call'.proc = "write" /\ call'.at = "erase" /\ call'.area = a
    BY <2>1 DEF WriteOpen
  <2> HIDE DEF a
  <2>6. Contents(Archive)' = Contents(Archive)
    BY <2>2, <2>3, <2>4, OtherFileStays
  <2> QED
    BY <2>2, <2>5, <2>6 DEF CallOwnsArea, Targets
<1>2. CASE \E d \in Data : WriteDropped(d)
  BY <1>2, SameFlashSameFile DEF WriteDropped, CallOwnsArea
<1>3. CASE WriteErase
  <2>1. call \in Erasing
    BY <1>3, ShapeOfCall DEF IInv, WriteErase
  <2>2. call.area \in Blocks /\ flash[call.area].name = Current
    BY <1>3, <2>1 DEF WriteErase, IInv, AppendIsToCurrent, Erasing
  <2>3. /\ flash'[call.area].name = NoName
        /\ \A b \in Blocks \ {call.area} : flash'[b] = flash[b]
    BY <1>0, <1>3, <2>2 DEF WriteErase, EraseSector
  <2>4. Contents(Archive)' = Contents(Archive)
    BY <2>2, <2>3, OtherFileStays
  <2>5. /\ call'.proc = "write" /\ call'.area = call.area
        /\ call'.image.name = flash[call.area].name
    BY <1>0, <1>3, <2>2 DEF WriteErase, Area
  <2> QED
    BY <1>3, <2>2, <2>3, <2>4, <2>5 DEF CallOwnsArea, Targets, WriteErase
<1>4. CASE WriteProgram
  <2>1. call \in Writing /\ call.at = "program" /\ call.proc = "write"
    BY <1>4, ShapeOfCall DEF IInv, WriteProgram
  <2>2. call.area \in Blocks /\ call.image.name = Current
    BY <2>1 DEF Writing, CallOwnsArea
  <2>3. /\ flash'[call.area] = ProgramPage(flash[call.area], call.image, call.page)
        /\ \A b \in Blocks \ {call.area} : flash'[b] = flash[b]
    BY <1>0, <1>4, <2>2 DEF WriteProgram
  <2>4. flash'[call.area].name \in {flash[call.area].name, Current}
    BY <1>0, <2>2, <2>3 DEF ProgramPage, Area
  <2>5. flash[call.area].name \in {Current, NoName}
    BY <2>1 DEF CallOwnsArea
  <2>6. Contents(Archive)' = Contents(Archive)
    BY <2>2, <2>3, <2>4, <2>5, OtherFileStays
  <2>7. call'.proc = "write" /\ call'.area = call.area /\ call'.image = call.image
    BY <1>4, <2>1 DEF WriteProgram, Writing
  <2> QED
    BY <2>1, <2>2, <2>4, <2>5, <2>6, <2>7 DEF CallOwnsArea, Targets
<1>5. CASE WriteContent
  <2>1. call \in Writing /\ call.proc = "write"
    BY <1>5, ShapeOfCall DEF IInv, WriteContent
  <2>2. call.area \in Blocks /\ flash[call.area].name # Archive
    BY <2>1 DEF Writing, CallOwnsArea
  <2>3. /\ flash'[call.area].name = flash[call.area].name
        /\ \A b \in Blocks \ {call.area} : flash'[b] = flash[b]
    BY <1>0, <1>5, <2>2 DEF WriteContent, Area
  <2>4. Contents(Archive)' = Contents(Archive)
    BY <2>2, <2>3, OtherFileStays
  <2> QED
    BY <1>5, <2>1, <2>4 DEF WriteContent, CallOwnsArea, NoCall, Targets
<1> QED
  BY <1>1, <1>2, <1>3, <1>4, <1>5

(* A consolidation may change both files; removing a log keeps to its area *)
(* and the other steps leave the flash alone, but for a record torn by a   *)
(* loss of power.                                                          *)
LEMMA OtherStepsKeepToArea ==
  ASSUME IInv, CallOwnsArea,
         ConsolidateErase \/ ConsolidateProgram \/ ConsolidateCreate
           \/ RemoveArchive \/ RemoveStep \/ Load \/ LoadCorrupted \/ PowerLoss,
         NEW n \in Names \ (Targets \cup Targets')
  PROVE  Contents(n)' = Contents(n)
<1> USE NamesAssumption
<1>0. flash \in [Blocks -> Area]
  BY DEF IInv, TypeOK
<1>1. CASE ConsolidateErase \/ ConsolidateProgram \/ ConsolidateCreate
  <2>1. Targets = Names \/ Targets' = Names
    BY <1>1 DEF ConsolidateErase, ConsolidateProgram, ConsolidateCreate, Targets
  <2> QED
    BY <2>1
<1>2. CASE RemoveArchive \/ Load \/ LoadCorrupted
  BY <1>2, SameFlashSameFile DEF RemoveArchive, Load, LoadCorrupted
<1>3. CASE RemoveStep
  <2>1. call \in Removing /\ call.proc = "remove" /\ n # call.name
    BY <1>3, ShapeOfCall DEF IInv, RemoveStep, Targets
  <2>2. call.area \in Blocks /\ flash[call.area].name # n
    BY <2>1 DEF Removing, CallOwnsArea
  <2>3. /\ flash'[call.area] = EraseSector(flash[call.area], call.sector)
        /\ \A b \in Blocks \ {call.area} : flash'[b] = flash[b]
    BY <1>0, <1>3, <2>2 DEF RemoveStep
  <2>4. flash'[call.area].name # n
    BY <2>2, <2>3 DEF EraseSector
  <2> QED
    BY <2>2, <2>3, <2>4, OtherFileStays
<1>4. CASE PowerLoss
  <2>1. CASE UNCHANGED flash
    BY <2>1, SameFlashSameFile
  <2>2. CASE call.at = "content" /\ flash' = TearRecord
    <3>1. call \in Writing /\ call.proc = "write"
      BY <2>2, ShapeOfCall DEF IInv, TypeOK, Calls, NoCall, Creating, Erasing, Writing,
                               Renaming, Removing
    <3>2. call.area \in Blocks /\ n # Current /\ flash[call.area].name # n
      BY <3>1 DEF Writing, CallOwnsArea, Targets
    <3>3. /\ flash'[call.area].name = flash[call.area].name
          /\ \A b \in Blocks \ {call.area} : flash'[b] = flash[b]
      BY <1>0, <2>2, <3>2 DEF TearRecord, Area
    <3> QED
      BY <3>2, <3>3, OtherFileStays
  <2> QED
    BY <1>4, <2>1, <2>2 DEF PowerLoss
<1> QED
  BY <1>1, <1>2, <1>3, <1>4

(* A removal starts at the area of the log it is about.                    *)
LEMMA OtherStepsKeepOwnArea ==
  ASSUME IInv, CallOwnsArea,
         ConsolidateErase \/ ConsolidateProgram \/ ConsolidateCreate
           \/ RemoveArchive \/ RemoveStep \/ Load \/ LoadCorrupted \/ PowerLoss
  PROVE  CallOwnsArea'
<1>1. CASE ConsolidateErase \/ ConsolidateProgram \/ ConsolidateCreate
  <2>1. call'.proc \in {"rename", "create", "none"}
    BY <1>1, ShapeOfCall
    DEF ConsolidateErase, ConsolidateProgram, ConsolidateCreate, Creating, NoCall, IInv, Renaming
  <2> QED
    BY <2>1 DEF CallOwnsArea
<1>2. CASE RemoveArchive \/ LoadCorrupted
  <2>1. PICK n \in Names : Exists(n) /\ StartRemove(n) /\ UNCHANGED flash
    BY <1>2 DEF RemoveArchive, LoadCorrupted, NameAt, Names
  <2>2. flash[FileAddr(n)].name = n
    BY <2>1, LookupsAreInRange DEF IInv
  <2> QED
    BY <2>1, <2>2 DEF StartRemove, CallOwnsArea
<1>3. CASE RemoveStep
  <2>1. call \in Removing /\ call.proc = "remove"
    BY <1>3, ShapeOfCall DEF IInv, RemoveStep
  <2>2. flash'[call.area] = EraseSector(flash[call.area], call.sector)
    BY <1>3, <2>1 DEF RemoveStep, Removing, IInv, TypeOK
  <2>3. flash'[call.area].name \in {call.name, NoName}
    BY <2>1, <2>2 DEF EraseSector, CallOwnsArea
  <2>4. \/ call'.proc = "none"
        \/ call'.proc = "remove" /\ call'.area = call.area /\ call'.name = call.name
    BY <1>3, <2>1 DEF RemoveStep, Removing, NoCall
  <2> QED
    BY <2>3, <2>4 DEF CallOwnsArea
<1>4. CASE Load
  BY <1>4 DEF Load, CallOwnsArea
<1>5. CASE PowerLoss
  BY <1>5 DEF PowerLoss, CallOwnsArea, NoCall
<1> QED
  BY <1>1, <1>2, <1>3, <1>4, <1>5

(* No step changes a file that the call in progress, or the call it        *)
(* starts, is not about.                                                   *)
LEMMA StepsKeepNeighbours ==
  IInv /\ CallOwnsArea /\ [Next]_vars
    => /\ CallOwnsArea'
       /\ \A n \in Names \ (Targets \cup Targets') : Contents(n)' = Contents(n)
<1> SUFFICES ASSUME IInv, CallOwnsArea, [Next]_vars
             PROVE  /\ CallOwnsArea'
                    /\ \A n \in Names \ (Targets \cup Targets') : Contents(n)' = Contents(n)
  OBVIOUS
<1>1. CASE (\E d \in Data : WriteOpen(d) \/ WriteDropped(d))
             \/ WriteErase \/ WriteProgram \/ WriteContent
  BY <1>1, WriteStepsKeepToArea, SameFlashSameFile DEF Names
<1>2. CASE ConsolidateErase \/ ConsolidateProgram \/ ConsolidateCreate
             \/ RemoveArchive \/ RemoveStep \/ Load \/ LoadCorrupted \/ PowerLoss
  BY <1>2, OtherStepsKeepToArea, OtherStepsKeepOwnArea
<1>3. CASE UNCHANGED vars
  BY <1>3, SameFlashSameFile DEF vars, CallOwnsArea
<1> QED
  BY <1>1, <1>2, <1>3 DEF Next

(* No step of any call, a loss of power included, changes a file that the  *)
(* call was not asked to change.                                           *)
THEOREM NeighboursAreUntouched == Spec => NeighbourUntouched
<1>1. Init => CallOwnsArea
  BY DEF Init, CallOwnsArea, NoCall
<1>2. [](IInv /\ CallOwnsArea) /\ [][Next]_vars => NeighbourUntouched
  <2>1. IInv /\ CallOwnsArea /\ [Next]_vars
        => [\A n \in Names \ (Targets \cup Targets') : Contents(n)' = Contents(n)]_vars
    BY StepsKeepNeighbours
  <2> QED
    BY <2>1, PTL DEF NeighbourUntouched
<1>3. IInv /\ CallOwnsArea /\ [Next]_vars => CallOwnsArea'
  BY StepsKeepNeighbours
<1> QED
  BY <1>1, <1>2, <1>3, InvariantHolds, PTL DEF Spec
----------------------------------------------------------------------------
(* What a power loss leaves on the flash of StoFileSystem.tla: one of the  *)
(* outcomes CrashOutcome lists.                                            *)

Cell == Data \cup {Erased, Garbled}
File == Seq(Cell) \cup {NoFile}

\* The records of a file, or none.
Records(file) == IF file = NoFile THEN <<>> ELSE file

(* The first records of an area are a sequence.                            *)
LEMMA FirstRecords ==
  ASSUME NEW cell \in [Cells -> Cell], NEW k \in 0 .. Capacity
  PROVE  /\ SubSeq(cell, 1, k) \in Seq(Cell)
         /\ Len(SubSeq(cell, 1, k)) = k
         /\ \A i \in 1 .. k : SubSeq(cell, 1, k)[i] = cell[i]
<1>1. \A i \in 1 .. k : cell[i] \in Cell
  BY SizesAssumption DEF Cells
<1>2. k \in Nat
  BY SizesAssumption
<1>3. /\ SubSeq(cell, 1, k) \in Seq(Cell)
      /\ Len(SubSeq(cell, 1, k)) = IF 1 <= k THEN k - 1 + 1 ELSE 0
      /\ \A i \in 1 .. k - 1 + 1 : SubSeq(cell, 1, k)[i] = cell[1 + i - 1]
  BY <1>1, <1>2, SubSeqProperties
<1> QED
  BY <1>2, <1>3

(* A file that has the records of an area one by one is what reading the   *)
(* area returns.                                                           *)
LEMMA SameRecords ==
  ASSUME NEW cell \in [Cells -> Cell], NEW file \in Seq(Cell),
         Len(file) \in 0 .. Capacity, \A i \in 1 .. Len(file) : file[i] = cell[i]
  PROVE  file = SubSeq(cell, 1, Len(file))
<1>1. /\ SubSeq(cell, 1, Len(file)) \in Seq(Cell)
      /\ Len(SubSeq(cell, 1, Len(file))) = Len(file)
      /\ \A i \in 1 .. Len(file) : file[i] = SubSeq(cell, 1, Len(file))[i]
  BY FirstRecords
<1> QED
  BY <1>1, SeqEqual

(* What is read from an area depends on the cells that are read.           *)
LEMMA SamePrefix ==
  ASSUME NEW old \in [Cells -> Cell], NEW new \in [Cells -> Cell], NEW k \in 0 .. Capacity,
         \A c \in Cells : c <= k => new[c] = old[c]
  PROVE  SubSeq(new, 1, k) = SubSeq(old, 1, k)
<1> DEFINE r == SubSeq(old, 1, k)
<1>1. r \in Seq(Cell) /\ Len(r) = k /\ \A i \in 1 .. k : r[i] = old[i]
  BY FirstRecords
<1> HIDE DEF r
<1>2. \A i \in 1 .. k : i \in Cells /\ i <= k
  BY SizesAssumption DEF Cells
<1>3. \A i \in 1 .. k : r[i] = new[i]
  BY <1>1, <1>2
<1>4. r = SubSeq(new, 1, k)
  BY <1>1, <1>3, SameRecords
<1> QED
  BY <1>4 DEF r

(* One more record is one more cell.                                       *)
LEMMA OneMoreRecord ==
  ASSUME NEW cell \in [Cells -> Cell], NEW k \in 0 .. Capacity, k < Capacity
  PROVE  SubSeq(cell, 1, k + 1) = Append(SubSeq(cell, 1, k), cell[k + 1])
<1> DEFINE old == SubSeq(cell, 1, k)
           new == Append(old, cell[k + 1])
<1>1. k + 1 \in 0 .. Capacity /\ k + 1 \in Cells /\ k \in Nat /\ cell[k + 1] \in Cell
  BY SizesAssumption DEF Cells
<1>2. old \in Seq(Cell) /\ Len(old) = k /\ \A i \in 1 .. k : old[i] = cell[i]
  BY FirstRecords
<1> HIDE DEF old
<1>3. /\ new \in Seq(Cell) /\ Len(new) = k + 1
      /\ \A i \in 1 .. k : new[i] = old[i]
      /\ new[k + 1] = cell[k + 1]
  BY <1>1, <1>2, AppendProperties
<1> HIDE DEF new
<1>4. \A i \in 1 .. k + 1 : new[i] = cell[i]
  BY <1>1, <1>2, <1>3
<1>5. new = SubSeq(cell, 1, Len(new))
  BY <1>1, <1>3, <1>4, SameRecords
<1> QED
  BY <1>3, <1>5 DEF new, old

(* Reading a file returns the records of the area that has its name.       *)
ReadsItsArea ==
  \A n \in Names :
    /\ \A a \in Blocks : flash[a].name = n =>
         Contents(n) = SubSeq(flash[a].cell, 1, flash[a].size)
    /\ (\A a \in Blocks : flash[a].name # n) => Contents(n) = NoFile

LEMMA ContentsOfArea == TypeOK /\ UniqueNames => ReadsItsArea
<1> SUFFICES ASSUME TypeOK, UniqueNames, NEW n \in Names
             PROVE  /\ \A a \in Blocks : flash[a].name = n =>
                         Contents(n) = SubSeq(flash[a].cell, 1, flash[a].size)
                    /\ (\A a \in Blocks : flash[a].name # n) => Contents(n) = NoFile
  BY DEF ReadsItsArea
<1>1. ASSUME NEW a \in Blocks, flash[a].name = n
      PROVE  Contents(n) = SubSeq(flash[a].cell, 1, flash[a].size)
  <2>1. Exists(n)
    BY <1>1 DEF Exists, AreasNamed
  <2>2. FileAddr(n) \in Blocks /\ flash[FileAddr(n)].name = n
    BY <2>1, LookupsAreInRange
  <2>3. FileAddr(n) = a
    BY <1>1, <2>2 DEF UniqueNames
  <2> QED
    BY <2>1, <2>3 DEF Contents
<1>2. ASSUME \A a \in Blocks : flash[a].name # n
      PROVE  Contents(n) = NoFile
  BY <1>2 DEF Contents, Exists, AreasNamed
<1> QED
  BY <1>1, <1>2

(* The same of the files after a step.                                     *)
LEMMA ContentsOfNextArea == TypeOK' /\ UniqueNames' => ReadsItsArea'
  BY ContentsOfArea, PTL

(* What is read is a file.                                                 *)
ReadsFiles == \A n \in Names : Contents(n) \in File

LEMMA ContentsAreFiles == TypeOK /\ UniqueNames /\ NamedHasSize => ReadsFiles
<1> SUFFICES ASSUME TypeOK, UniqueNames, NamedHasSize, NEW n \in Names
             PROVE  Contents(n) \in File
  BY DEF ReadsFiles
<1>1. CASE \A a \in Blocks : flash[a].name # n
  BY <1>1, ContentsOfArea DEF File, ReadsItsArea
<1>2. CASE \E a \in Blocks : flash[a].name = n
  <2>1. PICK a \in Blocks : flash[a].name = n
    BY <1>2
  <2>2. flash[a] \in Area /\ flash[a].size # -1
    BY <2>1 DEF TypeOK, NamedHasSize
  <2>3. flash[a].cell \in [Cells -> Cell] /\ flash[a].size \in 0 .. Capacity
    BY <2>2, SizesAssumption DEF Area, Cell
  <2>4. SubSeq(flash[a].cell, 1, flash[a].size) \in Seq(Cell)
    BY <2>3, FirstRecords
  <2> QED
    BY <2>1, <2>4, ContentsOfArea DEF File, ReadsItsArea
<1> QED
  BY <1>1, <1>2
----------------------------------------------------------------------------
(* What the call in progress has made of the area it is rewriting.         *)

(* updateFile has programmed the pages of the image before this one, the   *)
(* header being page 0; sectors behind the first were left alone.          *)
PartWay(area, image, page) ==
  /\ area.name = (IF page = 0 THEN NoName ELSE image.name)
  /\ area.size = (IF page = 0 THEN -1 ELSE image.size)
  /\ \A c \in Cells :
       area.cell[c] = IF c <= HeadCells /\ c >= page THEN Erased ELSE image.cell[c]

\* The page that comes next.
NextPage == IF call.at = "program" THEN call.page ELSE HeadCells + 1

(* The first sector has the header and the first records, the others none  *)
(* of them.                                                                *)
LEMMA FirstSector ==
  ASSUME NEW c \in Cells
  PROVE  /\ SectorOf(c) \in Sectors
         /\ SectorOf(c) = 0 <=> c <= HeadCells
<1>1. c \in Nat /\ c >= 1 /\ c <= Capacity /\ Capacity \in Nat /\ HeadCells \in Nat
      /\ SectorCells \in Nat \ {0} /\ HeadCells <= Capacity
  BY SizesAssumption DEF Cells
<1>2. CASE c <= HeadCells
  BY <1>1, <1>2 DEF SectorOf, Sectors
<1>3. CASE c > HeadCells
  <2> DEFINE x == c - HeadCells - 1
             y == Capacity - HeadCells - 1
  <2>1. x \in Nat /\ y \in Nat /\ x <= y
    BY <1>1, <1>3
  <2> HIDE DEF x, y
  <2>2. x \div SectorCells \in Nat /\ y \div SectorCells \in Nat
    BY <1>1, <2>1
  <2>3. x \div SectorCells <= y \div SectorCells
    BY <1>1, <2>1
  <2>4. SectorOf(c) = 1 + x \div SectorCells /\ SectorOf(Capacity) = 1 + y \div SectorCells
    BY <1>1, <1>3 DEF SectorOf, x, y
  <2> QED
    BY <1>1, <1>3, <2>2, <2>3, <2>4 DEF Sectors
<1> QED
  BY <1>1, <1>2, <1>3

(* Erasing the first sector begins the rewriting.                          *)
LEMMA ErasingBegins ==
  ASSUME NEW area \in Area, NEW image \in Area, image.cell = area.cell
  PROVE  PartWay(EraseSector(area, 0), image, 0)
<1>1. \A c \in Cells : c >= 0
  BY DEF Cells
<1> QED
  BY <1>1, FirstSector DEF PartWay, EraseSector

(* Programming a page takes it one page further.                           *)
LEMMA ProgrammingGoesOn ==
  ASSUME NEW area \in Area, NEW image \in Area, NEW page \in 0 .. HeadCells,
         PartWay(area, image, page)
  PROVE  PartWay(ProgramPage(area, image, page), image, page + 1)
<1> DEFINE new == ProgramPage(area, image, page)
<1>1. page \in Nat /\ HeadCells \in Nat /\ \A c \in Cells : c \in Nat /\ c >= 1
  BY SizesAssumption DEF Cells
<1>2. CASE page = 0
  <2>1. new.name = image.name /\ new.size = image.size /\ new.cell = area.cell
    BY <1>2 DEF ProgramPage, Area
  <2> HIDE DEF new
  <2>2. \A c \in Cells : area.cell[c] = IF c <= HeadCells THEN Erased ELSE image.cell[c]
    BY <1>1, <1>2 DEF PartWay
  <2>3. \A c \in Cells : new.cell[c] = IF c <= HeadCells /\ c >= page + 1
                                       THEN Erased ELSE image.cell[c]
    BY <1>1, <1>2, <2>1, <2>2
  <2> QED
    BY <1>2, <2>1, <2>3 DEF PartWay, new
<1>3. CASE page # 0
  <2>1. new.name = area.name /\ new.size = area.size
    BY <1>3 DEF ProgramPage, Area
  <2>2. \A c \in Cells : new.cell[c] = IF c = page THEN image.cell[page] ELSE area.cell[c]
    BY <1>3 DEF ProgramPage, Area
  <2> HIDE DEF new
  <2>3. \A c \in Cells : new.cell[c] = IF c <= HeadCells /\ c >= page + 1
                                       THEN Erased ELSE image.cell[c]
    BY <1>1, <2>2 DEF PartWay
  <2>4. page + 1 # 0
    BY <1>1
  <2> QED
    BY <1>1, <1>3, <2>1, <2>3, <2>4 DEF PartWay, new
<1> QED
  BY <1>2, <1>3

(* After the last page the area is the image.                              *)
LEMMA ProgrammingEnds ==
  ASSUME NEW area \in Area, NEW image \in Area, PartWay(area, image, HeadCells + 1)
  PROVE  area = image
<1>1. HeadCells \in Nat /\ \A c \in Cells : c \in Nat
  BY SizesAssumption DEF Cells
<1>2. area.name = image.name /\ area.size = image.size
      /\ \A c \in Cells : area.cell[c] = image.cell[c]
  BY <1>1 DEF PartWay
<1>3. area.cell = image.cell
  BY <1>2 DEF Area
<1> QED
  BY <1>2, <1>3 DEF Area
----------------------------------------------------------------------------
(* What before says of the files while a call is in progress.              *)

Histories == before \in [Names -> File] /\ told \in [Names -> File]

WriteRemembers ==
  call.proc = "write" =>
    /\ Contents(Archive) = before[Archive]
    /\ call.at = "erase" => Contents(Current) = Records(before[Current])
    /\ call.at # "erase" =>
         /\ PartWay(flash[call.area], call.image, NextPage)
         /\ SubSeq(call.image.cell, 1, call.start) = Records(before[Current])
         /\ call.wrote = Min2(1, Capacity - call.start)
         /\ call.image.size = call.start + call.wrote /\ call.image.name = Current

RenameRemembers ==
  call.proc = "rename" =>
    /\ PartWay(flash[call.area], call.image, NextPage)
    /\ call.image.name = Archive
    /\ SubSeq(call.image.cell, 1, call.image.size) = before[Current]
    /\ \A b \in Blocks : flash[b].name # Current

CreateRemembers == call.proc = "create" => \A n \in Names : Contents(n) = before[n]

RemoveRemembers ==
  call.proc = "remove" =>
    /\ \A n \in Names \ {call.name} : Contents(n) = before[n]
    /\ Contents(call.name) \in {before[call.name], NoFile}
    /\ call.sector # 0 => flash[call.area].name = NoName

CallRemembers == WriteRemembers /\ RenameRemembers /\ CreateRemembers /\ RemoveRemembers

HInv == IInv /\ CallOwnsArea /\ Histories /\ CallRemembers

(* Nothing to remember while no call is in progress.                       *)
LEMMA NothingToRemember ==
  ASSUME call'.proc = "none"
  PROVE  CallRemembers'
  BY DEF CallRemembers, WriteRemembers, RenameRemembers, CreateRemembers, RemoveRemembers

(* A file and one record more is a file.                                   *)
LEMMA AppendedIsFile ==
  ASSUME NEW file \in File, NEW d \in Cell
  PROVE  /\ Records(file) \in Seq(Cell)
         /\ Appended(file, d) = Append(Records(file), d)
         /\ Appended(file, d) \in Seq(Cell)
<1>1. Records(file) \in Seq(Cell)
  BY EmptySeq DEF File, Records
<1>2. Appended(file, d) = Append(Records(file), d)
  BY DEF Appended, Records
<1> QED
  BY <1>1, <1>2, AppendProperties

(* An append leaves the records before it.                                 *)
LEMMA AppendKeeps ==
  ASSUME NEW old \in Seq(Cell), NEW d \in Cell
  PROVE  SubSeq(Append(old, d), 1, Len(old)) = SubSeq(old, 1, Len(old))
<1> DEFINE new == Append(old, d)
           k   == Len(old)
<1>1. k \in Nat /\ new \in Seq(Cell) /\ Len(new) = k + 1
  BY AppendProperties
<1>2. \A i \in 1 .. k : new[i] = old[i] /\ old[i] \in Cell
  BY AppendProperties, ElementOfSeq
<1> HIDE DEF new, k
<1>3. /\ SubSeq(new, 1, k) \in Seq(Cell) /\ Len(SubSeq(new, 1, k)) = k
      /\ \A i \in 1 .. k : SubSeq(new, 1, k)[i] = new[i]
  BY <1>1, <1>2, SubSeqProperties
<1>4. /\ SubSeq(old, 1, k) \in Seq(Cell) /\ Len(SubSeq(old, 1, k)) = k
      /\ \A i \in 1 .. k : SubSeq(old, 1, k)[i] = old[i]
  BY <1>1, <1>2, SubSeqProperties
<1>5. SubSeq(new, 1, k) = SubSeq(old, 1, k)
  BY <1>2, <1>3, <1>4, SeqEqual
<1> QED
  BY <1>5 DEF new, k

(* The records of a file that was not cut are the file.                    *)
LEMMA WholeAsItIs ==
  ASSUME NEW file \in Seq(Cell), Len(file) < Capacity
  PROVE  Whole(file) = file
<1>1. Len(file) \in Nat /\ file # NoFile
  BY NamesAssumption DEF Cell
<1>2. Min2(Len(file), Capacity - 1) = Len(file)
  BY <1>1, SizesAssumption DEF Min2
<1> QED
  BY <1>1, <1>2, SubSeqFull DEF Whole

(* What is whole of a file is a file.                                      *)
LEMMA WholeIsFile ==
  /\ Whole(NoFile) = NoFile
  /\ Whole(<<>>) = <<>>
  /\ \A file \in File : Whole(file) \in File
<1>1. Whole(NoFile) = NoFile
  BY DEF Whole
<1>2. Whole(<<>>) = <<>>
  <2>1. <<>> \in Seq(Cell) /\ Len(<<>>) = 0
    BY EmptySeq
  <2>2. Len(<<>>) < Capacity
    BY <2>1, SizesAssumption
  <2> QED
    BY <2>1, <2>2, WholeAsItIs
<1>3. ASSUME NEW file \in Seq(Cell)
      PROVE  Whole(file) \in Seq(Cell)
  <2>1. Len(file) \in Nat /\ file # NoFile
    BY NamesAssumption DEF Cell
  <2> DEFINE k == Min2(Len(file), Capacity - 1)
  <2>2. k \in 0 .. Len(file)
    BY <2>1, SizesAssumption DEF Min2
  <2> HIDE DEF k
  <2>3. \A i \in 1 .. k : file[i] \in Cell
    BY <2>1, <2>2, ElementOfSeq
  <2>4. SubSeq(file, 1, k) \in Seq(Cell)
    BY <2>2, <2>3, SubSeqProperties
  <2> QED
    BY <2>1, <2>4 DEF Whole, k
<1> QED
  BY <1>1, <1>2, <1>3 DEF File

(* What is whole of a file to which a record, or a part of it, is added.   *)
LEMMA WholeOfAppended ==
  ASSUME NEW file \in File, NEW d \in Cell, Len(Records(file)) < Capacity
  PROVE  /\ Len(Records(file)) + 1 < Capacity =>
              Whole(Appended(file, d)) = Appended(Whole(file), d)
         /\ Len(Records(file)) + 1 = Capacity => Whole(Appended(file, d)) = Whole(file)
<1> DEFINE old == Records(file)
           new == Append(old, d)
<1>1. old \in Seq(Cell) /\ new \in Seq(Cell) /\ Appended(file, d) = new
  BY AppendedIsFile
<1> HIDE DEF old
<1>2. Len(old) \in Nat /\ Len(new) = Len(old) + 1
  BY <1>1, AppendProperties
<1>3. Whole(old) = old
  BY <1>1, WholeAsItIs DEF old
<1>4. Whole(file) = IF file = NoFile THEN NoFile ELSE old
  BY <1>3, WholeIsFile DEF Records, old
<1>5. ASSUME Len(old) + 1 < Capacity
      PROVE  Whole(Appended(file, d)) = Appended(Whole(file), d)
  <2>1. Whole(new) = new
    BY <1>1, <1>2, <1>5, WholeAsItIs
  <2>2. Whole(file) = file
    BY <1>4 DEF Records, old
  <2> QED
    BY <1>1, <2>1, <2>2
<1>6. ASSUME Len(old) + 1 = Capacity
      PROVE  Whole(Appended(file, d)) = Whole(file)
  <2>1. file # NoFile /\ Len(old) > 0
    <3>1. Len(old) # 0
      BY <1>6, SizesAssumption
    <3> QED
      BY <1>2, <3>1, EmptySeq DEF old, Records
  <2>2. Min2(Len(new), Capacity - 1) = Len(old)
    BY <1>2, <1>6, SizesAssumption DEF Min2
  <2>3. Whole(new) = SubSeq(new, 1, Len(old))
    <3>1. new # NoFile
      BY <1>1, NamesAssumption DEF Cell
    <3> HIDE DEF new
    <3> QED
      BY <2>2, <3>1 DEF Whole
  <2>4. SubSeq(new, 1, Len(old)) = old
    BY <1>1, SubSeqFull, AppendKeeps
  <2> QED
    BY <1>1, <1>4, <2>1, <2>3, <2>4
<1> QED
  BY <1>5, <1>6 DEF old

(* What a file on flash has is a sequence, which NoFile is not.            *)
LEMMA FileHasRecords ==
  ASSUME TypeOK, UniqueNames, NamedHasSize, NEW n \in Names, Exists(n)
  PROVE  /\ Contents(n) \in Seq(Cell) /\ Contents(n) # NoFile
         /\ Records(Contents(n)) = Contents(n)
<1>1. FileAddr(n) \in Blocks /\ flash[FileAddr(n)].name = n
  BY LookupsAreInRange
<1> DEFINE a == FileAddr(n)
<1>2. flash[a].cell \in [Cells -> Cell] /\ flash[a].size \in 0 .. Capacity
  BY <1>1, SizesAssumption DEF TypeOK, NamedHasSize, Area, Cell
<1>3. Contents(n) = SubSeq(flash[a].cell, 1, flash[a].size)
  BY DEF Contents
<1> HIDE DEF a
<1>4. Contents(n) \in Seq(Cell)
  BY <1>2, <1>3, FirstRecords
<1> QED
  BY <1>4, NamesAssumption DEF Records, Cell

(* Steps of a write.                                                       *)
LEMMA WriteStepsRemember ==
  ASSUME HInv, IInv', CallOwnsArea',
         \A n \in Names \ (Targets \cup Targets') : Contents(n)' = Contents(n),
         (\E d \in Data : WriteOpen(d) \/ WriteDropped(d))
           \/ WriteErase \/ WriteProgram \/ WriteContent
  PROVE  HInv'
<1> USE NamesAssumption DEF Names
<1>0. /\ flash \in [Blocks -> Area] /\ ReadsItsArea /\ ReadsItsArea'
      /\ TypeOK /\ UniqueNames /\ NamedHasSize
  BY ContentsOfArea, ContentsOfNextArea DEF HInv, IInv, TypeOK
<1>f. \A n \in Names : Contents(n) \in File
  BY <1>0, ContentsAreFiles DEF ReadsFiles
<1>1. CASE \E d \in Data : WriteOpen(d)
  <2> DEFINE a == OpenArea(Current)
  <2>1. PICK d \in Data : WriteOpen(d)
    BY <1>1
  <2>2. /\ Exists(Current) => flash' = flash
        /\ ~Exists(Current) => flash' = [flash EXCEPT ![a] = NewFile(flash[a], Current)]
    BY <2>1, OpeningKeepsNames DEF WriteOpen, OpenForWriting, HInv
  <2>3. /\ before' = Files /\ told' = told
        /\ call'.proc = "write" /\ call'.at = "erase" /\ call.proc = "none"
    BY <2>1 DEF WriteOpen, Idle
  <2>4. Contents(Archive)' = Contents(Archive)
    BY <2>3 DEF Targets
  <2>5. Contents(Current)' = Records(Contents(Current))
    <3>1. CASE Exists(Current)
      <4>1. Contents(Current)' = Contents(Current)
        BY <2>2, <3>1, SameFlashSameFile
      <4> QED
        BY <1>0, <3>1, <4>1, FileHasRecords
    <3>2. CASE ~Exists(Current)
      <4>1. a \in Blocks /\ flash'[a] = NewFile(flash[a], Current)
        BY <1>0, <2>1, <2>2, <3>2, LookupsAreInRange DEF WriteOpen, CanOpen, OpenArea
      <4>2. flash'[a].name = Current /\ flash'[a].size = 0
        BY <1>0, <4>1 DEF NewFile, Area
      <4>3. Contents(Current)' = SubSeq(flash'[a].cell, 1, 0)
        BY <1>0, <4>1, <4>2 DEF ReadsItsArea
      <4>4. Contents(Current)' = <<>>
        BY <4>3, SubSeqEmpty
      <4> QED
        BY <3>2, <4>4 DEF Contents, Records
    <3> QED
      BY <3>1, <3>2
  <2>6. Histories'
    BY <1>f, <2>3 DEF HInv, Histories, Files
  <2>7. CallRemembers'
    BY <2>3, <2>4, <2>5 DEF CallRemembers, WriteRemembers, RenameRemembers, CreateRemembers,
                            RemoveRemembers, Files
  <2> QED
    BY <2>6, <2>7 DEF HInv
<1>2. CASE \E d \in Data : WriteDropped(d)
  <2>1. PICK d \in Data : WriteDropped(d)
    BY <1>2
  <2>2. Appended(told[Current], d) \in File
    BY AppendedIsFile DEF HInv, Histories, File, Cell
  <2>3. Histories'
    BY <2>1, <2>2 DEF WriteDropped, HInv, Histories
  <2>4. call'.proc = "none"
    BY <2>1 DEF WriteDropped, Idle
  <2> QED
    BY <2>3, <2>4, NothingToRemember DEF HInv
<1>3. CASE WriteErase
  <2> DEFINE a == call.area
             image == call'.image
  <2>1. call \in Erasing /\ call.proc = "write" /\ call.at = "erase"
    BY <1>3, ShapeOfCall DEF HInv, IInv, WriteErase
  <2>2. a \in Blocks /\ flash[a] \in Area /\ flash[a].name = Current
    BY <1>0, <2>1 DEF HInv, IInv, AppendIsToCurrent, Erasing
  <2>3. /\ call'.proc = "write" /\ call'.at = "program" /\ call'.page = 0 /\ call'.area = a
        /\ call'.start = flash[a].size /\ call'.wrote = Min2(1, Capacity - flash[a].size)
        /\ image.cell = flash[a].cell /\ image.name = Current
        /\ image.size = call'.start + call'.wrote
        /\ flash'[a] = EraseSector(flash[a], 0)
        /\ UNCHANGED <<before, told>>
    BY <1>0, <1>3, <2>2 DEF WriteErase, Area
  <2>4. image \in Area
    <3>1. call' \in Writing
      BY <2>3 DEF IInv, TypeOK, Calls, NoCall, Creating, Erasing, Writing, Renaming, Removing
    <3> QED
      BY <3>1 DEF Writing
  <2>5. PartWay(flash'[a], image, 0)
    BY <2>2, <2>3, <2>4, ErasingBegins
  <2>6. SubSeq(image.cell, 1, call'.start) = Records(before[Current])
    BY <1>0, <2>1, <2>2, <2>3 DEF ReadsItsArea, HInv, CallRemembers, WriteRemembers
  <2>7. Contents(Archive)' = before'[Archive]
    BY <2>1, <2>3 DEF Targets, HInv, CallRemembers, WriteRemembers
  <2> QED
    BY <2>3, <2>5, <2>6, <2>7 DEF HInv, Histories, CallRemembers, WriteRemembers,
       RenameRemembers, CreateRemembers, RemoveRemembers, NextPage
<1>4. CASE WriteProgram
  <2>1. call \in Writing /\ call.at = "program" /\ call.proc = "write"
    BY <1>4, ShapeOfCall DEF HInv, IInv, WriteProgram
  <2>2. /\ call.area \in Blocks /\ call.image \in Area /\ call.page \in 0 .. HeadCells
        /\ flash[call.area] \in Area
    BY <1>0, <2>1 DEF Writing
  <2>3. /\ flash'[call.area] = ProgramPage(flash[call.area], call.image, call.page)
        /\ UNCHANGED <<before, told>>
    BY <1>0, <1>4, <2>2 DEF WriteProgram
  <2>4. PartWay(flash'[call.area], call.image, call.page + 1)
    BY <2>1, <2>2, <2>3, ProgrammingGoesOn DEF HInv, CallRemembers, WriteRemembers, NextPage
  <2>5. /\ call'.proc = "write" /\ call'.at # "erase" /\ call'.area = call.area
        /\ call'.image = call.image /\ call'.start = call.start /\ call'.wrote = call.wrote
        /\ NextPage' = call.page + 1
    <3>1. CASE call.page < HeadCells
      BY <1>4, <2>1, <3>1 DEF WriteProgram, NextPage, Writing
    <3>2. CASE ~(call.page < HeadCells)
      <4>1. call.page = HeadCells
        BY <2>2, <3>2, SizesAssumption
      <4> QED
        BY <1>4, <2>1, <3>2, <4>1 DEF WriteProgram, NextPage, Writing
    <3> QED
      BY <3>1, <3>2
  <2>6. Contents(Archive)' = before'[Archive]
    BY <2>1, <2>3, <2>5 DEF Targets, HInv, CallRemembers, WriteRemembers
  <2> QED
    BY <2>1, <2>3, <2>4, <2>5, <2>6 DEF HInv, Histories, CallRemembers, WriteRemembers,
       RenameRemembers, CreateRemembers, RemoveRemembers
<1>5. CASE WriteContent
  <2>1. call \in Writing
    BY <1>5, ShapeOfCall DEF HInv, IInv, WriteContent
  <2>2. Appended(told[Current], call.data) \in File
    BY <2>1, AppendedIsFile DEF HInv, Histories, File, Cell, Writing
  <2>3. Histories'
    BY <1>5, <2>2 DEF WriteContent, HInv, Histories
  <2>4. call'.proc = "none"
    BY <1>5 DEF WriteContent, NoCall
  <2> QED
    BY <2>3, <2>4, NothingToRemember DEF HInv
<1> QED
  BY <1>1, <1>2, <1>3, <1>4, <1>5

(* Steps of a consolidation: the records go from one name to the other.    *)
LEMMA ConsolidationStepsRemember ==
  ASSUME HInv, IInv', CallOwnsArea',
         ConsolidateErase \/ ConsolidateProgram \/ ConsolidateCreate
  PROVE  HInv'
<1> USE NamesAssumption DEF Names
<1>0. /\ flash \in [Blocks -> Area] /\ flash' \in [Blocks -> Area]
      /\ ReadsItsArea /\ ReadsItsArea' /\ TypeOK /\ UniqueNames /\ NamedHasSize
  BY ContentsOfArea, ContentsOfNextArea DEF HInv, IInv, TypeOK
<1>f. \A n \in Names : Contents(n) \in File
  BY <1>0, ContentsAreFiles DEF ReadsFiles
<1>1. CASE ConsolidateErase
  <2> DEFINE b == FileAddr(Current)
             image == call'.image
  <2>1. b \in Blocks /\ flash[b] \in Area /\ flash[b].name = Current
    BY <1>0, <1>1, LookupsAreInRange DEF ConsolidateErase
  <2>2. /\ before' = Files /\ told' = told
        /\ call'.proc = "rename" /\ call'.at = "program" /\ call'.page = 0 /\ call'.area = b
        /\ image.cell = flash[b].cell /\ image.size = flash[b].size /\ image.name = Archive
        /\ flash' = [flash EXCEPT ![b] = EraseSector(flash[b], 0)]
    BY <1>0, <1>1, <2>1 DEF ConsolidateErase, Area
  <2>3. image \in Area
    <3>1. call' \in Renaming
      BY <2>2 DEF IInv, TypeOK, Calls, NoCall, Creating, Erasing, Writing, Renaming, Removing
    <3> QED
      BY <3>1 DEF Renaming
  <2> HIDE DEF b, image
  <2>4. PartWay(flash'[b], image, 0)
    BY <1>0, <2>1, <2>2, <2>3, ErasingBegins
  <2>5. SubSeq(image.cell, 1, image.size) = before'[Current]
    BY <1>0, <2>1, <2>2 DEF ReadsItsArea, Files
  <2>6. \A c \in Blocks : flash'[c].name # Current
    <3>1. flash'[b].name = NoName
      BY <1>0, <2>1, <2>2 DEF EraseSector
    <3>2. \A c \in Blocks \ {b} : flash'[c] = flash[c] /\ flash[c].name # Current
      BY <1>0, <2>1, <2>2 DEF UniqueNames
    <3> QED
      BY <3>1, <3>2
  <2>7. Histories'
    BY <1>f, <2>2 DEF HInv, Histories, Files
  <2>8. NextPage' = 0
    BY <2>2 DEF NextPage
  <2> QED
    BY <2>2, <2>4, <2>5, <2>6, <2>7, <2>8 DEF HInv, CallRemembers, WriteRemembers,
       RenameRemembers, CreateRemembers, RemoveRemembers, image
<1>2. CASE ConsolidateProgram
  <2> DEFINE a == call.area
             new == flash'[a]
  <2>1. call \in Renaming /\ call.proc = "rename" /\ call.at = "program"
    BY <1>2, ShapeOfCall DEF HInv, IInv, ConsolidateProgram
  <2>2. /\ a \in Blocks /\ call.image \in Area /\ call.page \in 0 .. HeadCells
        /\ flash[a] \in Area
    BY <1>0, <2>1 DEF Renaming
  <2>3. /\ new = ProgramPage(flash[a], call.image, call.page)
        /\ \A c \in Blocks \ {a} : flash'[c] = flash[c]
    BY <1>0, <1>2, <2>2 DEF ConsolidateProgram
  <2>4. PartWay(new, call.image, call.page + 1)
    BY <2>1, <2>2, <2>3, ProgrammingGoesOn DEF HInv, CallRemembers, RenameRemembers, NextPage
  <2>5. /\ call.image.name = Archive
        /\ SubSeq(call.image.cell, 1, call.image.size) = before[Current]
        /\ \A c \in Blocks : flash[c].name # Current
    BY <2>1 DEF HInv, CallRemembers, RenameRemembers
  <2>6. new.name = Archive
    <3>1. call.page + 1 # 0
      BY <2>2, SizesAssumption
    <3> QED
      BY <2>4, <2>5, <3>1 DEF PartWay
  <2> HIDE DEF new
  <2>7. \A c \in Blocks : flash'[c].name # Current
    BY <2>3, <2>5, <2>6 DEF new
  <2>8. CASE call.page < HeadCells
    <3>1. /\ call'.proc = "rename" /\ call'.area = a /\ call'.image = call.image
          /\ NextPage' = call.page + 1 /\ UNCHANGED <<before, told>>
      BY <1>2, <2>1, <2>8 DEF ConsolidateProgram, Renaming, NextPage
    <3> QED
      BY <2>4, <2>5, <2>7, <3>1 DEF HInv, Histories, CallRemembers, WriteRemembers,
         RenameRemembers, CreateRemembers, RemoveRemembers, new
  <2>9. CASE ~(call.page < HeadCells)
    <3>1. call.page = HeadCells
      BY <2>2, <2>9, SizesAssumption
    <3>2. new \in Area
      BY <1>0, <2>2 DEF new
    <3>3. new = call.image
      BY <2>2, <2>4, <3>1, <3>2, ProgrammingEnds
    <3>4. /\ call'.proc = "create"
          /\ told' = [told EXCEPT ![Archive] = told[Current], ![Current] = NoFile]
          /\ before' = [before EXCEPT ![Archive] = before[Current], ![Current] = NoFile]
      BY <1>2, <2>9 DEF ConsolidateProgram, Creating
    <3>5. before'[Archive] = before[Current] /\ before'[Current] = NoFile
      BY <3>4 DEF HInv, Histories
    <3>6. Contents(Archive)' = before'[Archive]
      BY <1>0, <2>2, <2>5, <2>6, <3>3, <3>5 DEF ReadsItsArea, new
    <3>7. Contents(Current)' = before'[Current]
      BY <1>0, <2>7, <3>5 DEF ReadsItsArea
    <3>8. Histories'
      BY <3>4 DEF HInv, Histories, File
    <3> QED
      BY <3>4, <3>6, <3>7, <3>8 DEF HInv, CallRemembers, WriteRemembers,
         RenameRemembers, CreateRemembers, RemoveRemembers
  <2> QED
    BY <2>8, <2>9
<1>3. CASE ConsolidateCreate
  <2>1. call'.proc = "none" /\ before' = before
        /\ (told' = told \/ told' = [told EXCEPT ![Current] = <<>>])
    BY <1>3 DEF ConsolidateCreate, NoCall
  <2>2. <<>> \in File
    BY EmptySeq DEF File
  <2>3. Histories'
    BY <2>1, <2>2 DEF HInv, Histories
  <2> QED
    BY <2>1, <2>3, NothingToRemember DEF HInv
<1> QED
  BY <1>1, <1>2, <1>3

(* Removing a log, loading the logs, and losing power.                     *)
LEMMA OtherStepsRemember ==
  ASSUME HInv, IInv', CallOwnsArea',
         \A n \in Names \ (Targets \cup Targets') : Contents(n)' = Contents(n),
         RemoveArchive \/ RemoveStep \/ Load \/ LoadCorrupted \/ PowerLoss
  PROVE  HInv'
<1> USE NamesAssumption
<1>0. /\ flash \in [Blocks -> Area] /\ flash' \in [Blocks -> Area]
      /\ ReadsItsArea /\ ReadsItsArea' /\ TypeOK /\ UniqueNames /\ NamedHasSize
  BY ContentsOfArea, ContentsOfNextArea DEF HInv, IInv, TypeOK
<1>f. \A n \in Names : Contents(n) \in File
  BY <1>0, ContentsAreFiles DEF ReadsFiles
<1>1. CASE RemoveArchive \/ LoadCorrupted
  <2>1. PICK n \in Names : StartRemove(n) /\ UNCHANGED <<flash, told>>
    BY <1>1 DEF RemoveArchive, LoadCorrupted, NameAt, Names
  <2>2. call'.proc = "remove" /\ call'.name = n /\ call'.sector = 0 /\ before' = Files
    BY <2>1 DEF StartRemove
  <2>3. \A m \in Names : Contents(m)' = before'[m]
    BY <2>1, <2>2, SameFlashSameFile DEF Files
  <2>4. Histories'
    BY <1>f, <2>1, <2>2 DEF HInv, Histories, Files
  <2> QED
    BY <2>2, <2>3, <2>4 DEF HInv, CallRemembers, WriteRemembers, RenameRemembers,
       CreateRemembers, RemoveRemembers
<1>2. CASE RemoveStep
  <2> DEFINE a == call.area
  <2>1. call \in Removing /\ call.proc = "remove"
    BY <1>2, ShapeOfCall DEF HInv, IInv, RemoveStep
  <2>2. /\ a \in Blocks /\ call.name \in Names /\ call.sector \in Sectors
        /\ flash[a].name \in {call.name, NoName}
    BY <2>1 DEF Removing, HInv, CallOwnsArea
  <2>3. /\ flash' = [flash EXCEPT ![a] = EraseSector(flash[a], call.sector)]
        /\ before' = before
    BY <1>2 DEF RemoveStep
  <2>4. flash'[a].name = NoName /\ \A c \in Blocks \ {a} : flash'[c] = flash[c]
    BY <1>0, <2>1, <2>2, <2>3 DEF EraseSector, HInv, CallRemembers, RemoveRemembers
  <2>5. /\ \A n \in Names \ {call.name} : Contents(n) = before[n]
        /\ Contents(call.name) \in {before[call.name], NoFile}
    BY <2>1 DEF HInv, CallRemembers, RemoveRemembers
  <2>6. \A n \in Names \ {call.name} : Contents(n)' = before'[n]
    <3>1. \/ Targets' = {}
          \/ Targets' = {call.name}
      BY <1>2, <2>1 DEF RemoveStep, Targets, NoCall, Removing
    <3>2. Targets = {call.name}
      BY <2>1 DEF Targets
    <3> QED
      BY <2>3, <2>5, <3>1, <3>2
  <2>n. PICK n \in Names : n = call.name
    BY <2>2
  <2>7. Contents(n)' \in {before'[n], NoFile}
    <3>1. CASE flash[a].name = NoName
      <4>1. Contents(n)' = Contents(n)
        BY <2>2, <2>4, <3>1, OtherFileStays
      <4> QED
        BY <2>3, <2>5, <2>n, <4>1
    <3>2. CASE flash[a].name = n
      <4>1. \A c \in Blocks : flash'[c].name # n
        BY <1>0, <2>2, <2>4, <3>2 DEF UniqueNames
      <4> QED
        BY <1>0, <4>1 DEF ReadsItsArea
    <3> QED
      BY <2>2, <2>n, <3>1, <3>2
  <2>8. Histories'
    BY <1>2, <2>2 DEF RemoveStep, HInv, Histories, File
  <2>9. CASE call'.proc = "none"
    BY <2>8, <2>9, NothingToRemember DEF HInv
  <2>10. CASE call'.proc # "none"
    <3>1. call'.proc = "remove" /\ call'.name = call.name /\ call'.area = a
      BY <1>2, <2>1, <2>10 DEF RemoveStep, NoCall, Removing
    <3> QED
      BY <2>4, <2>6, <2>7, <2>8, <2>n, <3>1 DEF HInv, CallRemembers, WriteRemembers,
         RenameRemembers, CreateRemembers, RemoveRemembers
  <2> QED
    BY <2>9, <2>10
<1>3. CASE Load
  <2>1. call'.proc = "none" /\ UNCHANGED <<before, told>>
    BY <1>3 DEF Load, Idle
  <2> QED
    BY <2>1, NothingToRemember DEF HInv, Histories
<1>4. CASE PowerLoss
  <2>1. TypeOK' /\ UniqueNames' /\ NamedHasSize'
    BY DEF IInv
  <2>2. ReadsFiles'
    BY <2>1, ContentsAreFiles, PTL
  <2>3. /\ call'.proc = "none" /\ before' = Files'
        /\ told' = [n \in Names |-> Whole(Files'[n])]
    BY <1>4 DEF PowerLoss, NoCall
  <2>4. before' \in [Names -> File]
    BY <2>2, <2>3 DEF Files, ReadsFiles
  <2>5. told' \in [Names -> File]
    BY <2>3, <2>4, WholeIsFile
  <2> QED
    BY <2>3, <2>4, <2>5, NothingToRemember DEF HInv, Histories
<1> QED
  BY <1>1, <1>2, <1>3, <1>4

(* Every step keeps what before and the call in progress say.              *)
LEMMA StepsRemember == HInv /\ [Next]_vars => HInv'
<1> SUFFICES ASSUME HInv, [Next]_vars
             PROVE  HInv'
  OBVIOUS
<1>1. /\ IInv' /\ CallOwnsArea'
      /\ \A n \in Names \ (Targets \cup Targets') : Contents(n)' = Contents(n)
  BY StepsKeepInvariant, StepsKeepNeighbours DEF HInv
<1>2. CASE Next
  BY <1>1, <1>2, WriteStepsRemember, ConsolidationStepsRemember, OtherStepsRemember DEF Next
<1>3. CASE UNCHANGED vars
  <2>1. \A n \in Names : Contents(n)' = Contents(n)
    BY <1>3, SameFlashSameFile DEF vars
  <2>2. UNCHANGED <<flash, call, before, told>> /\ NextPage' = NextPage
    BY <1>3 DEF vars, NextPage
  <2>3. Histories' /\ CreateRemembers' /\ RenameRemembers'
    BY <2>1, <2>2 DEF HInv, Histories, CallRemembers, CreateRemembers, RenameRemembers
  <2>4. WriteRemembers'
    BY <2>1, <2>2 DEF HInv, CallRemembers, WriteRemembers, Names
  <2>5. RemoveRemembers'
    <3>1. PICK c : c = call.name
      OBVIOUS
    <3>2. call.proc = "remove" => c \in Names
      BY <3>1, ShapeOfCall DEF HInv, IInv, Removing
    <3> QED
      BY <2>1, <2>2, <3>1, <3>2 DEF HInv, CallRemembers, RemoveRemembers
  <2> QED
    BY <1>1, <2>3, <2>4, <2>5 DEF HInv, CallRemembers
<1> QED
  BY <1>2, <1>3
----------------------------------------------------------------------------
(* The outcomes of a power loss.                                           *)

(* What reading an area returns that has been rewritten up to a page.      *)
LEMMA HalfWritten ==
  ASSUME NEW area \in Area, NEW image \in Area, PartWay(area, image, NextPage),
         NextPage \in Nat \ {0}, NEW k \in 0 .. Capacity
  PROVE  SubSeq(area.cell, 1, k) = Reprogrammed(SubSeq(image.cell, 1, k))
<1> DEFINE file == SubSeq(image.cell, 1, k)
           read == SubSeq(area.cell, 1, k)
<1>1. area.cell \in [Cells -> Cell] /\ image.cell \in [Cells -> Cell]
  BY DEF Area, Cell
<1>2. /\ file \in Seq(Cell) /\ Len(file) = k /\ \A i \in 1 .. k : file[i] = image.cell[i]
      /\ read \in Seq(Cell) /\ Len(read) = k /\ \A i \in 1 .. k : read[i] = area.cell[i]
  BY <1>1, FirstRecords
<1> HIDE DEF file, read
<1>3. read \in [1 .. k -> Cell] /\ DOMAIN file = 1 .. k
  BY <1>2, LenProperties
<1>4. ASSUME NEW i \in 1 .. k
      PROVE  read[i] = Reprogrammed(file)[i]
  <2>1. i \in Cells /\ i \in Nat /\ i >= 1 /\ HeadCells \in Nat
    BY SizesAssumption DEF Cells
  <2>2. read[i] = IF i <= HeadCells /\ i >= NextPage THEN Erased ELSE file[i]
    BY <1>2, <2>1 DEF PartWay
  <2>3. i \in HeadRange <=> i <= HeadCells
    BY <2>1 DEF HeadRange
  <2>4. CASE call.at = "program"
    <3>1. call.page \in Nat
      BY <2>4 DEF NextPage
    <3> QED
      BY <1>3, <2>1, <2>2, <2>3, <2>4, <3>1 DEF Reprogrammed, NextPage
  <2>5. CASE call.at # "program"
    BY <1>3, <2>1, <2>2, <2>3, <2>5 DEF Reprogrammed, NextPage
  <2> QED
    BY <2>4, <2>5
<1>5. Reprogrammed(file) = [i \in 1 .. k |-> Reprogrammed(file)[i]]
  BY <1>3 DEF Reprogrammed
<1>6. read = [i \in 1 .. k |-> read[i]]
  BY <1>3
<1> QED
  BY <1>4, <1>5, <1>6 DEF file, read

(* An append of a record at start to a file, the header of which is back.  *)
PartOfAppend(area, image, start, file, read) ==
  /\ PartWay(area, image, NextPage) /\ NextPage \in Nat \ {0}
  /\ SubSeq(image.cell, 1, start) = Records(file)
  /\ read = SubSeq(area.cell, 1, start + Min2(1, Capacity - start))

LeftByAppend(file, read) ==
  \/ file # NoFile /\ read = Reprogrammed(file)
  \/ \E x \in Cell : read = Reprogrammed(Appended(file, x))

(* An append leaves the file without its last record, or with whatever is  *)
(* in the cell of that record; where a page of the first sector is missing *)
(* its records read as erased.                                             *)
LEMMA HalfAppended ==
  ASSUME NEW area \in Area, NEW image \in Area, NEW start \in 0 .. Capacity,
         NEW file \in File, NEW read, PartOfAppend(area, image, start, file, read)
  PROVE  LeftByAppend(file, read)
<1> USE DEF PartOfAppend, LeftByAppend
<1>0. start \in Nat /\ start <= Capacity /\ Capacity \in Nat \ {0}
  BY SizesAssumption
<1>1. image.cell \in [Cells -> Cell]
  BY DEF Area, Cell
<1>2. CASE start = Capacity
  <2>1. Min2(1, Capacity - start) = 0
    BY <1>0, <1>2 DEF Min2
  <2>2. Len(SubSeq(image.cell, 1, start)) = start
    BY <1>1, FirstRecords
  <2>3. file # NoFile
    BY <1>0, <1>2, <2>2, EmptySeq DEF Records
  <2>4. SubSeq(area.cell, 1, start) = Reprogrammed(SubSeq(image.cell, 1, start))
    BY HalfWritten
  <2>5. start + Min2(1, Capacity - start) = start /\ Records(file) = file
    BY <1>0, <2>1, <2>3 DEF Records
  <2> QED
    BY <2>3, <2>4, <2>5
<1>3. CASE start < Capacity
  <2> DEFINE x == image.cell[start + 1]
  <2>1. Min2(1, Capacity - start) = 1
    BY <1>0, <1>3 DEF Min2
  <2>2. start + 1 \in 0 .. Capacity /\ x \in Cell
    BY <1>0, <1>1, <1>3 DEF Cells
  <2>3. SubSeq(image.cell, 1, start + 1) = Appended(file, x)
    BY <1>1, <1>3, <2>2, OneMoreRecord, AppendedIsFile
  <2>4. SubSeq(area.cell, 1, start + 1) = Reprogrammed(SubSeq(image.cell, 1, start + 1))
    BY <2>2, HalfWritten
  <2> QED
    BY <2>1, <2>2, <2>3, <2>4
<1> QED
  BY <1>0, <1>2, <1>3

(* What CrashOutcome allows file n to be after a loss of power.            *)
Outcome(n) ==
  \/ Contents(n)' \in {before[n], NoFile}
  \/ Contents(n)' = <<>> /\ before[n] = NoFile
  \/ /\ call.proc = "write" /\ n = Current
     /\ \/ before[n] # NoFile /\ Contents(n)' = Reprogrammed(before[n])
        \/ \E x \in Cell : Contents(n)' = Reprogrammed(Appended(before[n], x))
  \/ /\ call.proc = "rename" /\ n = Archive
     /\ Contents(n)' = Reprogrammed(before[Current])

(* Power lost while the record itself is programmed, or before.            *)
LEMMA WriteOutcome ==
  ASSUME HInv, HInv', PowerLoss, call.proc = "write", call.at # "erase"
  PROVE  Outcome(Current)
<1> USE NamesAssumption DEF Names
<1>0. /\ flash \in [Blocks -> Area] /\ flash' \in [Blocks -> Area]
      /\ ReadsItsArea /\ ReadsItsArea'
  BY ContentsOfArea, ContentsOfNextArea DEF HInv, IInv, TypeOK
<1> DEFINE a == call.area
           start == call.start
<1>1. call \in Writing /\ call.image \in Area /\ a \in Blocks /\ start \in 0 .. Capacity
  BY ShapeOfCall DEF HInv, IInv, Writing
<1>2. /\ PartWay(flash[a], call.image, NextPage)
      /\ SubSeq(call.image.cell, 1, start) = Records(before[Current])
      /\ call.image.size = start + Min2(1, Capacity - start) /\ call.image.name = Current
      /\ before[Current] \in File
  BY DEF HInv, CallRemembers, WriteRemembers, Histories
<1>3. CASE call.at = "program"
  <2>1. flash' = flash /\ NextPage = call.page /\ call.page \in Nat
    BY <1>1, <1>3 DEF PowerLoss, NextPage, Writing
  <2>2. CASE call.page = 0
    <3>1. flash'[a].name = NoName
      BY <1>2, <2>1, <2>2 DEF PartWay
    <3>2. \A b \in Blocks \ {a} : flash'[b].name # Current
      BY <1>2, <1>3, <2>1 DEF HInv, IInv, ImageNameIsFree
    <3>3. Contents(Current)' = NoFile
      BY <1>0, <1>1, <3>1, <3>2 DEF ReadsItsArea
    <3> QED
      BY <3>3 DEF Outcome
  <2>3. CASE call.page # 0
    <3>1. NextPage \in Nat \ {0}
      BY <2>1, <2>3
    <3>2. flash[a].name = Current /\ flash[a].size = call.image.size
      BY <1>2, <3>1 DEF PartWay
    <3>3. Contents(Current)' = SubSeq(flash[a].cell, 1, start + Min2(1, Capacity - start))
      BY <1>0, <1>1, <1>2, <2>1, <3>2 DEF ReadsItsArea
    <3>4. flash[a] \in Area
      BY <1>0, <1>1
    <3>5. \/ before[Current] # NoFile /\ Contents(Current)' = Reprogrammed(before[Current])
          \/ \E x \in Cell : Contents(Current)' = Reprogrammed(Appended(before[Current], x))
      <4>1. PICK file \in File : file = before[Current]
        BY <1>2
      <4>2. PICK read : read = Contents(Current)'
        OBVIOUS
      <4>3. PICK area \in Area, image \in Area, k \in 0 .. Capacity :
              area = flash[a] /\ image = call.image /\ k = start
        BY <1>1, <3>4
      <4>4. PartOfAppend(area, image, k, file, read)
        BY <1>2, <3>1, <3>3, <4>1, <4>2, <4>3 DEF PartOfAppend
      <4>5. LeftByAppend(file, read)
        BY <4>4, HalfAppended
      <4> QED
        BY <4>1, <4>2, <4>5 DEF LeftByAppend
    <3> QED
      BY <3>5 DEF Outcome
  <2> QED
    BY <2>2, <2>3
<1>4. CASE call.at = "content"
  <2> DEFINE left == flash'[a]
  <2>1. flash[a] = call.image
    BY <1>0, <1>1, <1>2, <1>4, ProgrammingEnds DEF NextPage
  <2>2. NextPage = HeadCells + 1 /\ NextPage \in Nat \ {0}
    BY <1>4, SizesAssumption DEF NextPage
  <2>3. /\ left.name = Current /\ left.size = call.image.size
        /\ \A c \in Cells : c # start + 1 => left.cell[c] = call.image.cell[c]
    <3>1. CASE flash' = flash
      BY <1>2, <2>1, <3>1
    <3>2. CASE flash' = TearRecord
      BY <1>0, <1>1, <1>2, <2>1, <3>2 DEF TearRecord, Area
    <3> QED
      BY <3>1, <3>2 DEF PowerLoss
  <2>4. left \in Area
    BY <1>0, <1>1
  <2> HIDE DEF left
  <2>5. PartWay(left, left, NextPage)
    <3>1. \A c \in Cells : c \in Nat
      BY DEF Cells
    <3> QED
      BY <2>2, <3>1, SizesAssumption DEF PartWay
  <2>6. SubSeq(left.cell, 1, start) = Records(before[Current])
    <3>1. left.cell \in [Cells -> Cell] /\ call.image.cell \in [Cells -> Cell]
      BY <1>1, <2>4 DEF Area, Cell
    <3>2. \A c \in Cells : c <= start => left.cell[c] = call.image.cell[c]
      BY <1>1, <2>3, SizesAssumption DEF Cells
    <3>3. SubSeq(left.cell, 1, start) = SubSeq(call.image.cell, 1, start)
      BY <1>1, <3>1, <3>2, SamePrefix
    <3> QED
      BY <1>2, <3>3
  <2>7. Contents(Current)' = SubSeq(left.cell, 1, start + Min2(1, Capacity - start))
    BY <1>0, <1>1, <1>2, <2>3 DEF ReadsItsArea, left
  <2>8. \/ before[Current] # NoFile /\ Contents(Current)' = Reprogrammed(before[Current])
        \/ \E x \in Cell : Contents(Current)' = Reprogrammed(Appended(before[Current], x))
    <3>1. PICK file \in File : file = before[Current]
      BY <1>2
    <3>2. PICK read : read = Contents(Current)'
      OBVIOUS
    <3>3. PICK area \in Area, k \in 0 .. Capacity : area = left /\ k = start
      BY <1>1, <2>4
    <3>4. PartOfAppend(area, area, k, file, read)
      BY <2>2, <2>5, <2>6, <2>7, <3>1, <3>2, <3>3 DEF PartOfAppend
    <3>5. LeftByAppend(file, read)
      BY <3>3, <3>4, HalfAppended
    <3> QED
      BY <3>1, <3>2, <3>5 DEF LeftByAppend
  <2> QED
    BY <2>8 DEF Outcome
<1> QED
  BY <1>1, <1>3, <1>4 DEF Writing

(* Power lost before a call has changed the flash, or while it is idle or  *)
(* a removal is under way: the files read as they were, or are gone.       *)
LEMMA QuietOutcome ==
  ASSUME HInv, PowerLoss, ~Idle,
         call.at = "erase" \/ call.proc \in {"create", "remove"}, NEW n \in Names
  PROVE  Outcome(n)
<1>1. call.at # "content"
  BY ShapeOfCall DEF HInv, IInv, TypeOK, Calls, NoCall, Creating, Erasing, Writing,
                     Renaming, Removing
<1>2. flash' = flash
  BY <1>1 DEF PowerLoss
<1>3. Contents(n)' = Contents(n)
  BY <1>2, SameFlashSameFile
<1>4. CASE call.proc = "write"
  <2>1. call.at = "erase" /\ n \in {Archive, Current}
    BY <1>4 DEF Names
  <2>2. /\ Contents(Archive) = before[Archive]
        /\ Contents(Current) = Records(before[Current])
    BY <1>4, <2>1 DEF HInv, CallRemembers, WriteRemembers
  <2> QED
    BY <1>3, <2>1, <2>2 DEF Outcome, Records
<1>5. CASE call.proc = "create"
  BY <1>3, <1>5 DEF HInv, CallRemembers, CreateRemembers, Outcome
<1>6. CASE call.proc = "remove"
  <2>1. PICK m : m = call.name
    OBVIOUS
  <2>2. /\ \A x \in Names \ {m} : Contents(x) = before[x]
        /\ Contents(m) \in {before[m], NoFile}
    BY <1>6, <2>1 DEF HInv, CallRemembers, RemoveRemembers
  <2>3. Contents(n) \in {before[n], NoFile}
    BY <2>2
  <2> QED
    BY <1>3, <2>3 DEF Outcome
<1> QED
  BY <1>1, <1>4, <1>5, <1>6 DEF HInv, IInv, TypeOK, Calls, NoCall, Creating, Erasing, Writing,
                               Renaming, Removing, Idle

(* Power lost in the middle of a rename: there is no current log, and the  *)
(* archive is as far as its pages are back.                                *)
LEMMA RenameOutcome ==
  ASSUME HInv, HInv', PowerLoss, call.proc = "rename", NEW n \in Names
  PROVE  Outcome(n)
<1> DEFINE a == call.area
<1>0. ReadsItsArea' /\ flash \in [Blocks -> Area]
  BY ContentsOfNextArea DEF HInv, IInv, TypeOK
<1>1. call \in Renaming /\ call.image \in Area /\ a \in Blocks /\ call.at = "program"
  BY ShapeOfCall DEF HInv, IInv, Renaming
<1>2. flash' = flash /\ NextPage = call.page /\ call.page \in Nat
  BY <1>1 DEF PowerLoss, NextPage, Renaming
<1>3. /\ PartWay(flash[a], call.image, NextPage) /\ call.image.name = Archive
      /\ SubSeq(call.image.cell, 1, call.image.size) = before[Current]
      /\ \A b \in Blocks : flash[b].name # Current
  BY DEF HInv, CallRemembers, RenameRemembers
<1>4. CASE n = Current
  <2>1. Contents(n)' = NoFile
    BY <1>0, <1>2, <1>3, <1>4 DEF ReadsItsArea
  <2> QED
    BY <2>1 DEF Outcome
<1>5. CASE n = Archive /\ call.page = 0
  <2>1. \A b \in Blocks : flash[b].name # Archive
    <3>1. flash[a].name = NoName
      BY <1>2, <1>3, <1>5 DEF PartWay
    <3>2. \A b \in Blocks \ {a} : flash[b].name # Archive
      BY <1>1, <1>3 DEF HInv, IInv, ImageNameIsFree
    <3> QED
      BY <3>1, <3>2, NamesAssumption DEF Names
  <2>2. Contents(n)' = NoFile
    BY <1>0, <1>2, <1>5, <2>1 DEF ReadsItsArea
  <2> QED
    BY <2>2 DEF Outcome
<1>6. CASE n = Archive /\ call.page # 0
  <2>1. /\ flash[a].name = Archive /\ flash[a].size = call.image.size
        /\ NextPage \in Nat \ {0} /\ flash[a] \in Area
    BY <1>0, <1>1, <1>2, <1>3, <1>6 DEF PartWay
  <2>2. call.image.size \in 0 .. Capacity
    BY <1>1, SizesAssumption DEF HInv, IInv, NamedHasSize, Area
  <2>3. PICK area \in Area, image \in Area, k \in 0 .. Capacity :
          area = flash[a] /\ image = call.image /\ k = call.image.size
    BY <1>1, <2>1, <2>2
  <2>4. SubSeq(area.cell, 1, k) = Reprogrammed(SubSeq(image.cell, 1, k))
    BY <1>3, <2>1, <2>3, HalfWritten
  <2>5. Contents(n)' = SubSeq(area.cell, 1, k)
    BY <1>0, <1>1, <1>2, <1>6, <2>1, <2>3 DEF ReadsItsArea
  <2>6. Contents(n)' = Reprogrammed(before[Current])
    BY <1>3, <2>3, <2>4, <2>5
  <2> QED
    BY <1>6, <2>6 DEF Outcome
<1> QED
  BY <1>4, <1>5, <1>6 DEF Names

(* Wherever a call is when power is lost, each file has an outcome.        *)
LEMMA EveryOutcome ==
  ASSUME HInv, HInv', PowerLoss, ~Idle, NEW n \in Names
  PROVE  Outcome(n)
<1>1. CASE call.proc = "write" /\ call.at # "erase" /\ n = Current
  BY <1>1, WriteOutcome
<1>2. CASE call.proc = "write" /\ call.at # "erase" /\ n = Archive
  <2>1. Targets = {Current} /\ Targets' = {} /\ Archive # Current
    BY <1>2, NamesAssumption DEF Targets, PowerLoss, NoCall
  <2>2. \A m \in Names \ (Targets \cup Targets') : Contents(m)' = Contents(m)
    BY StepsKeepNeighbours DEF HInv, Next
  <2>3. Contents(n)' = before[n]
    BY <1>2, <2>1, <2>2 DEF HInv, CallRemembers, WriteRemembers
  <2> QED
    BY <2>3 DEF Outcome
<1>3. CASE call.proc = "rename"
  BY <1>3, RenameOutcome
<1>4. CASE call.at = "erase" \/ call.proc \in {"create", "remove"}
  BY <1>4, QuietOutcome
<1> QED
  BY <1>1, <1>2, <1>3, <1>4 DEF HInv, IInv, TypeOK, Calls, NoCall, Creating, Erasing, Writing,
                               Renaming, Removing, Idle, Names

(* The erased flash the gateway is shipped with has no file.               *)
LEMMA InitRemembers == Init => HInv
<1>1. Init => CallOwnsArea /\ Histories
  BY DEF Init, CallOwnsArea, NoCall, Histories, File
<1>2. Init => CallRemembers
  BY DEF Init, NoCall, CallRemembers, WriteRemembers, RenameRemembers, CreateRemembers,
         RemoveRemembers
<1> QED
  BY <1>1, <1>2, InitEstablishesInvariant DEF HInv

(* What is remembered holds at every state.                                *)
LEMMA AlwaysRemembered == Spec => []HInv
  BY InitRemembers, StepsRemember, PTL DEF Spec

(* A loss of power at any step of any call has one of the outcomes that    *)
(* CrashOutcome lists.                                                     *)
THEOREM PowerLossOutcomes == Spec => CrashOutcome
<1>1. HInv /\ HInv' /\ [Next]_vars
        => [PowerLoss /\ ~Idle => \A n \in Names :
             \/ Contents(n)' \in {before[n], NoFile}
             \/ Contents(n)' = <<>> /\ before[n] = NoFile
             \/ /\ call.proc = "write" /\ n = Current
                /\ \/ before[n] # NoFile /\ Contents(n)' = Reprogrammed(before[n])
                   \/ \E x \in Data \cup {Erased, Garbled} :
                        Contents(n)' = Reprogrammed(Appended(before[n], x))
             \/ /\ call.proc = "rename" /\ n = Archive
                /\ Contents(n)' = Reprogrammed(before[Current])]_vars
  BY EveryOutcome DEF Outcome, Cell
<1> QED
  BY <1>1, AlwaysRemembered, PTL DEF Spec, CrashOutcome
----------------------------------------------------------------------------
(* Between two calls the flash holds what the return codes of the calls    *)
(* of this boot said (ToldIsOnFlash of StoFileSystem.tla).                 *)

(* An area without a file name counts as empty, so that findEmptyBlock     *)
(* can find it.                                                            *)
NamelessIsEmpty == \A b \in Blocks : flash[b].name \notin Names => flash[b].size = -1

(* No step leaves an area with a size but no name.                         *)
LEMMA NamelessStaysEmpty ==
  ASSUME IInv, IInv', NamelessIsEmpty, [Next]_vars
  PROVE  NamelessIsEmpty'
<1> USE NamesAssumption DEF Names
<1>0. flash \in [Blocks -> Area]
  BY DEF IInv, TypeOK
<1> DEFINE Fine(area) == area.name \notin Names => area.size = -1
<1>1. ASSUME NEW a \in Blocks, NEW new, flash' = [flash EXCEPT ![a] = new], Fine(new)
      PROVE  NamelessIsEmpty'
  BY <1>0, <1>1 DEF NamelessIsEmpty
<1>2. ASSUME NEW a \in Blocks
      PROVE  flash[a] \in Area /\ Fine(flash[a])
  BY <1>0, <1>2 DEF NamelessIsEmpty
<1>3. ASSUME NEW a \in Blocks, NEW s
      PROVE  Fine(EraseSector(flash[a], s))
  BY <1>2 DEF EraseSector
<1>4. ASSUME NEW a \in Blocks
      PROVE  Fine(NewFile(flash[a], Current))
  BY <1>2 DEF NewFile, Area
<1>5. ASSUME NEW a \in Blocks, NEW image, NEW page, image.name \in Names
      PROVE  Fine(ProgramPage(flash[a], image, page))
  BY <1>2, <1>5 DEF ProgramPage, Area
<1>6. ASSUME NEW a \in Blocks, NEW c, NEW x, flash' = [flash EXCEPT ![a].cell[c] = x]
      PROVE  NamelessIsEmpty'
  BY <1>0, <1>2, <1>6 DEF NamelessIsEmpty, Area
<1> HIDE DEF Fine
<1>7. CASE UNCHANGED flash
  BY <1>7 DEF NamelessIsEmpty
<1>8. CASE (\E d \in Data : WriteOpen(d)) \/ ConsolidateCreate
  <2>1. \/ UNCHANGED flash
        \/ /\ CanOpen(Current) /\ ~Exists(Current)
           /\ flash' = [flash EXCEPT ![OpenArea(Current)] = NewFile(@, Current)]
    BY <1>8 DEF WriteOpen, OpenForWriting, ConsolidateCreate
  <2>2. CASE CanOpen(Current) /\ flash' = [flash EXCEPT ![OpenArea(Current)] = NewFile(@, Current)]
    <3>1. OpenArea(Current) \in Blocks
      BY <2>2, LookupsAreInRange DEF CanOpen, OpenArea, IInv
    <3> QED
      BY <1>0, <1>1, <1>4, <2>2, <3>1
  <2> QED
    BY <1>7, <2>1, <2>2
<1>9. CASE WriteErase
  <2>1. call.area \in Blocks
    BY <1>9, ShapeOfCall DEF IInv, WriteErase, Erasing
  <2> QED
    BY <1>0, <1>1, <1>3, <1>9, <2>1 DEF WriteErase
<1>10. CASE WriteProgram \/ ConsolidateProgram
  <2>1. call.area \in Blocks /\ call.at = "program"
    BY <1>10, ShapeOfCall DEF IInv, WriteProgram, ConsolidateProgram, Writing, Renaming
  <2>2. call.image.name \in Names
    BY <2>1 DEF IInv, NamedHasSize
  <2>3. flash' = [flash EXCEPT ![call.area] =
                     ProgramPage(flash[call.area], call.image, call.page)]
    BY <1>10 DEF WriteProgram, ConsolidateProgram
  <2>4. Fine(ProgramPage(flash[call.area], call.image, call.page))
    BY <1>5, <2>1, <2>2
  <2> QED
    BY <1>1, <2>1, <2>3, <2>4
<1>11. CASE WriteContent
  <2>1. call.area \in Blocks
    BY <1>11, ShapeOfCall DEF IInv, WriteContent, Writing
  <2>2. \/ UNCHANGED flash
        \/ flash' = [flash EXCEPT ![call.area].cell[call.start + 1] =
                       Programmed(flash[call.area].cell[call.start + 1], call.data)]
    BY <1>0, <1>11, <2>1 DEF WriteContent
  <2> QED
    BY <1>6, <1>7, <2>1, <2>2
<1>12. CASE ConsolidateErase
  <2>1. FileAddr(Current) \in Blocks
    BY <1>12, LookupsAreInRange DEF IInv, ConsolidateErase
  <2> QED
    BY <1>0, <1>1, <1>3, <1>12, <2>1 DEF ConsolidateErase
<1>13. CASE RemoveStep
  <2>1. call.area \in Blocks
    BY <1>13, ShapeOfCall DEF IInv, RemoveStep, Removing
  <2> QED
    BY <1>0, <1>1, <1>3, <1>13, <2>1 DEF RemoveStep
<1>14. CASE PowerLoss
  <2>1. CASE call.at = "content" /\ flash' = TearRecord
    <3>1. call.area \in Blocks
      BY <2>1 DEF IInv, TypeOK, Calls, NoCall, Creating, Erasing, Writing, Renaming, Removing
    <3> QED
      BY <1>6, <2>1, <3>1 DEF TearRecord
  <2> QED
    BY <1>7, <1>14, <2>1 DEF PowerLoss
<1>15. CASE (\E d \in Data : WriteDropped(d)) \/ RemoveArchive \/ Load \/ LoadCorrupted
              \/ UNCHANGED vars
  BY <1>7, <1>15 DEF WriteDropped, RemoveArchive, Load, LoadCorrupted, vars
<1> QED
  BY <1>8, <1>9, <1>10, <1>11, <1>12, <1>13, <1>14, <1>15 DEF Next

(* The two logs have areas enough: as long as a handle is free, the        *)
(* current log can be opened for writing.                                  *)
LEMMA RoomForTheLog ==
  ASSUME IInv, NamelessIsEmpty, FreeSlots # {}
  PROVE  CanOpen(Current)
<1>1. CASE Exists(Current)
  BY <1>1 DEF CanOpen
<1>2. CASE ~Exists(Current)
  <2>1. 0 \in Blocks /\ 1 \in Blocks
    BY SizesAssumption DEF Blocks
  <2>2. PICK b \in Blocks : flash[b].name # Archive
    BY <2>1, NamesAssumption DEF IInv, UniqueNames, Names
  <2>3. flash[b].name \notin Names
    BY <1>2, <2>2 DEF Exists, AreasNamed, Names
  <2>4. b \in EmptyAreas
    BY <2>3 DEF NamelessIsEmpty, EmptyAreas
  <2> QED
    BY <2>4 DEF CanOpen
<1> QED
  BY <1>1, <1>2
----------------------------------------------------------------------------
(* No records behind the end of a file: ~Leftover.                         *)
Tidy(area) == \A c \in Cells : c > area.size => area.cell[c] = Erased

(* The area of which only a part is on flash.                              *)
Reworked == IF \/ call.proc \in {"none", "create"}
               \/ call.proc = "write" /\ call.at = "erase"
            THEN {} ELSE {call.area}

\* What a table of files is told to be.
AsTold(codes, files) == \A n \in Names : codes[n] = Whole(files[n])

CodesAgree == /\ Idle => AsTold(told, Files)
              /\ ~Idle => AsTold(told, before)

AreasAreTidy == \A b \in Blocks \ Reworked : Tidy(flash[b])

ImageIsTidy ==
  /\ call.proc = "write" /\ call.at # "erase" =>
       \A c \in Cells : c > call.start => call.image.cell[c] = Erased
  /\ call.proc = "rename" => Tidy(call.image)

RemovedSoFar ==
  call.proc = "remove" =>
    /\ \A c \in Cells : SectorOf(c) < call.sector => flash[call.area].cell[c] = Erased
    /\ \A b \in Blocks \ {call.area} : flash[b].name # call.name

OnFlash == CodesAgree /\ AreasAreTidy /\ ImageIsTidy /\ RemovedSoFar

(* No power loss has torn a file, and the handles are not all leaked.      *)
Undisturbed == ~torn /\ (FreeSlots # {} \/ call.proc = "write")

TInv == HInv /\ NamelessIsEmpty /\ (Undisturbed => OnFlash)

(* One more record, programmed over an erased cell.                        *)
LEMMA RecordIsAppended ==
  ASSUME NEW image \in Area, NEW new \in Area, NEW file \in File, NEW d \in Data,
         NEW start \in 0 .. Capacity, start < Capacity,
         SubSeq(image.cell, 1, start) = Records(file),
         \A c \in Cells : new.cell[c] = IF c = start + 1 THEN d ELSE image.cell[c]
  PROVE  SubSeq(new.cell, 1, start + 1) = Appended(file, d)
<1>1. /\ new.cell \in [Cells -> Cell] /\ image.cell \in [Cells -> Cell] /\ d \in Cell
      /\ start + 1 \in Cells
  BY SizesAssumption DEF Area, Cell, Cells
<1>2. SubSeq(new.cell, 1, start) = SubSeq(image.cell, 1, start)
  <2>1. \A c \in Cells : c <= start => new.cell[c] = image.cell[c]
    BY SizesAssumption DEF Cells
  <2> QED
    BY <1>1, <2>1, SamePrefix
<1>3. SubSeq(new.cell, 1, start + 1) = Append(SubSeq(new.cell, 1, start), d)
  BY <1>1, OneMoreRecord
<1>4. Appended(file, d) = Append(Records(file), d)
  BY <1>1, AppendedIsFile
<1> QED
  BY <1>2, <1>3, <1>4

(* An append that has reached its end leaves what its return code says.    *)
LEMMA WriteContentIsTold ==
  ASSUME HInv, HInv', Undisturbed, OnFlash, WriteContent
  PROVE  OnFlash'
<1> USE NamesAssumption DEF Names
<1>0. /\ flash \in [Blocks -> Area] /\ flash' \in [Blocks -> Area] /\ ReadsItsArea'
  BY ContentsOfNextArea DEF HInv, IInv, TypeOK
<1> DEFINE a == call.area
           start == call.start
<1>1. /\ call \in Writing /\ call.proc = "write" /\ call.at = "content"
      /\ call.image \in Area /\ a \in Blocks /\ start \in 0 .. Capacity /\ call.data \in Data
  BY ShapeOfCall DEF HInv, IInv, WriteContent, Writing
<1>2. /\ PartWay(flash[a], call.image, NextPage)
      /\ SubSeq(call.image.cell, 1, start) = Records(before[Current])
      /\ call.wrote = Min2(1, Capacity - start)
      /\ call.image.size = start + call.wrote /\ call.image.name = Current
      /\ before[Current] \in File /\ Contents(Archive) = before[Archive]
  BY <1>1 DEF HInv, CallRemembers, WriteRemembers, Histories
<1>3. flash[a] = call.image
  BY <1>0, <1>1, <1>2, ProgrammingEnds DEF NextPage
<1>4. AsTold(told, before) /\ \A c \in Cells : c > start => call.image.cell[c] = Erased
  BY <1>1 DEF OnFlash, CodesAgree, ImageIsTidy, Idle
<1>5. call' = NoCall
  BY <1>1 DEF WriteContent
<1>6. told'[Archive] = Whole(Contents(Archive)')
  <2>1. Targets = {Current} /\ Targets' = {}
    BY <1>1, <1>5 DEF Targets, NoCall
  <2>2. Contents(Archive)' = Contents(Archive)
    BY <2>1, StepsKeepNeighbours DEF HInv, Next
  <2>3. told'[Archive] = told[Archive]
    BY DEF WriteContent, HInv, Histories
  <2> QED
    BY <1>2, <1>4, <2>2, <2>3 DEF AsTold
<1>7. told'[Current] = Whole(Contents(Current)') /\ Tidy(flash'[a])
  <2>0. start \in Nat /\ start <= Capacity /\ Capacity \in Nat \ {0}
    BY <1>1, SizesAssumption
  <2>1. CASE start = Capacity
    <3>1. call.wrote = 0 /\ call.image.size = start
      BY <1>2, <2>0, <2>1 DEF Min2
    <3>2. flash' = flash /\ told' = told
      BY <2>0, <2>1, <3>1 DEF WriteContent
    <3>3. Contents(Current)' = SubSeq(call.image.cell, 1, start)
      BY <1>0, <1>1, <1>2, <1>3, <3>1, <3>2 DEF ReadsItsArea
    <3>4. call.image.cell \in [Cells -> Cell]
      BY <1>1 DEF Area, Cell
    <3>5. Len(Records(before[Current])) = start
      BY <1>1, <1>2, <3>4, FirstRecords
    <3>6. Records(before[Current]) = before[Current]
      BY <2>0, <2>1, <3>5, EmptySeq DEF Records
    <3>7. Tidy(flash'[a])
      BY <1>3, <2>0, <2>1, <3>1, <3>2 DEF Tidy, Cells
    <3> QED
      BY <1>2, <1>4, <3>2, <3>3, <3>6, <3>7 DEF AsTold
  <2>2. CASE start < Capacity
    <3> DEFINE new == flash'[a]
    <3>1. call.wrote = 1 /\ call.image.size = start + 1 /\ start + 1 \in Cells
      <4>1. Min2(1, Capacity - start) = 1 /\ start + 1 \in Cells
        BY <2>0, <2>2 DEF Min2, Cells
      <4> QED
        BY <1>2, <4>1
    <3>2. call.image.cell[start + 1] = Erased
      <4>1. start + 1 > start
        BY <2>0
      <4> QED
        BY <1>4, <3>1, <4>1
    <3>3. /\ new.name = Current /\ new.size = start + 1
          /\ \A c \in Cells : new.cell[c] = IF c = start + 1 THEN call.data
                                                             ELSE call.image.cell[c]
      BY <1>0, <1>1, <1>2, <1>3, <3>1, <3>2 DEF WriteContent, Programmed, Area
    <3>4. new \in Area
      BY <1>0, <1>1
    <3>5. told'[Current] = IF start + 1 < Capacity THEN Appended(told[Current], call.data)
                                                   ELSE told[Current]
      BY <3>1 DEF WriteContent, HInv, Histories
    <3>6. Contents(Current)' = SubSeq(new.cell, 1, start + 1)
      BY <1>0, <1>1, <3>3 DEF ReadsItsArea
    <3> HIDE DEF new
    <3>7. SubSeq(new.cell, 1, start + 1) = Appended(before[Current], call.data)
      <4>1. PICK area \in Area, image \in Area, k \in 0 .. Capacity, d \in Data, file \in File :
              /\ area = new /\ image = call.image /\ k = start /\ d = call.data
              /\ file = before[Current]
        BY <1>1, <1>2, <3>4
      <4>2. /\ SubSeq(image.cell, 1, k) = Records(file) /\ k < Capacity
            /\ \A c \in Cells : area.cell[c] = IF c = k + 1 THEN d ELSE image.cell[c]
        BY <1>2, <2>2, <3>3, <4>1
      <4>3. SubSeq(area.cell, 1, k + 1) = Appended(file, d)
        BY <4>2, RecordIsAppended
      <4> QED
        BY <4>1, <4>3
    <3>8. \A c \in Cells : c \in Nat
      BY DEF Cells
    <3>9. Tidy(new)
      BY <1>4, <2>0, <3>3, <3>8 DEF Tidy
    <3>10. Len(Records(before[Current])) = start /\ call.data \in Cell
      <4>1. call.image.cell \in [Cells -> Cell]
        BY <1>1 DEF Area, Cell
      <4> QED
        BY <1>1, <1>2, <4>1, FirstRecords DEF Cell
    <3>11. told[Current] = Whole(before[Current])
      BY <1>4 DEF AsTold
    <3>12. told'[Current] = Whole(Appended(before[Current], call.data))
      <4>1. start + 1 < Capacity \/ start + 1 = Capacity
        BY <2>0, <2>2
      <4>2. /\ start + 1 < Capacity =>
                 Whole(Appended(before[Current], call.data))
                   = Appended(Whole(before[Current]), call.data)
            /\ start + 1 = Capacity =>
                 Whole(Appended(before[Current], call.data)) = Whole(before[Current])
        BY <1>2, <2>2, <3>10, WholeOfAppended
      <4> QED
        BY <2>0, <3>5, <3>11, <4>1, <4>2
    <3> QED
      BY <3>6, <3>7, <3>9, <3>12 DEF new
  <2> QED
    BY <2>0, <2>1, <2>2
<1>8. \A b \in Blocks \ {a} : Tidy(flash'[b])
  <2>1. \A b \in Blocks \ {a} : flash'[b] = flash[b]
    BY <1>0, <1>1 DEF WriteContent
  <2> QED
    BY <1>1, <2>1 DEF OnFlash, AreasAreTidy, Reworked
<1> QED
  BY <1>5, <1>6, <1>7, <1>8 DEF OnFlash, CodesAgree, AsTold, Files, AreasAreTidy, ImageIsTidy,
                                RemovedSoFar, Idle, NoCall

(* A file created in an area without records is without records.           *)
LEMMA NewFileIsTidy ==
  ASSUME NEW area \in Area, area.size = -1, Tidy(area), NEW n
  PROVE  Tidy(NewFile(area, n))
<1>1. \A c \in Cells : c > -1 /\ c > 0
  BY DEF Cells
<1>2. NewFile(area, n).cell = area.cell /\ NewFile(area, n).size = 0
  BY DEF NewFile, Area
<1> QED
  BY <1>1, <1>2 DEF Tidy

(* Opening the current log for an append or creating it.                   *)
LEMMA OpeningIsTold ==
  ASSUME HInv, HInv', AreasAreTidy, Reworked = {}, CanOpen(Current),
         flash' = (IF Exists(Current) THEN flash
                   ELSE [flash EXCEPT ![OpenArea(Current)] = NewFile(@, Current)])
  PROVE  /\ \A b \in Blocks : Tidy(flash'[b])
         /\ Contents(Archive)' = Contents(Archive)
         /\ ~Exists(Current) => Contents(Current)' = <<>>
<1> USE NamesAssumption DEF Names
<1> DEFINE a == OpenArea(Current)
<1>0. flash \in [Blocks -> Area] /\ ReadsItsArea' /\ TypeOK /\ NamedHasSize
  BY ContentsOfNextArea DEF HInv, IInv, TypeOK
<1>1. CASE Exists(Current)
  BY <1>1, SameFlashSameFile DEF AreasAreTidy
<1>2. CASE ~Exists(Current)
  <2>1. a \in Blocks /\ flash[a].size = -1 /\ flash[a] \in Area
    BY <1>0, <1>2, LookupsAreInRange DEF CanOpen, OpenArea
  <2> HIDE DEF a
  <2>2. /\ flash'[a] = NewFile(flash[a], Current)
        /\ \A b \in Blocks \ {a} : flash'[b] = flash[b]
    BY <1>0, <1>2, <2>1 DEF a
  <2>3. flash'[a].name = Current /\ flash'[a].size = 0
    BY <2>1, <2>2 DEF NewFile, Area
  <2>4. Tidy(flash'[a])
    BY <2>1, <2>2, NewFileIsTidy DEF AreasAreTidy
  <2>5. flash[a].name # Archive
    BY <1>0, <2>1 DEF NamedHasSize
  <2>6. Contents(Archive)' = Contents(Archive)
    BY <2>1, <2>2, <2>3, <2>5, OtherFileStays
  <2>7. Contents(Current)' = SubSeq(flash'[a].cell, 1, 0)
    BY <1>0, <2>1, <2>3 DEF ReadsItsArea
  <2>8. Contents(Current)' = <<>>
    BY <2>7, SubSeqEmpty
  <2> QED
    BY <2>1, <2>2, <2>4, <2>6, <2>8 DEF AreasAreTidy
<1> QED
  BY <1>1, <1>2

(* While an append is under way the files are told as they were before.    *)
LEMMA WriteStepsAreTold ==
  ASSUME HInv, HInv', Undisturbed, OnFlash,
         (\E d \in Data : WriteOpen(d)) \/ WriteErase \/ WriteProgram
  PROVE  OnFlash'
<1>0. flash \in [Blocks -> Area]
  BY DEF HInv, IInv, TypeOK
<1>1. CASE \E d \in Data : WriteOpen(d)
  <2>1. PICK d \in Data : WriteOpen(d)
    BY <1>1
  <2>2. /\ Idle /\ Reworked = {} /\ call'.proc = "write" /\ call'.at = "erase"
        /\ before' = Files /\ told' = told
    BY <2>1 DEF WriteOpen, Idle, Reworked
  <2>3. \A b \in Blocks : Tidy(flash'[b])
    BY <2>1, <2>2, OpeningIsTold DEF WriteOpen, OpenForWriting, OnFlash
  <2>4. AsTold(told', before')
    BY <2>2 DEF OnFlash, CodesAgree
  <2> QED
    BY <2>2, <2>3, <2>4 DEF OnFlash, CodesAgree, AreasAreTidy, ImageIsTidy, RemovedSoFar, Idle
<1>2. CASE WriteErase
  <2> DEFINE a == call.area
  <2>1. call \in Erasing /\ call.proc = "write" /\ call.at = "erase" /\ a \in Blocks
    BY <1>2, ShapeOfCall DEF HInv, IInv, WriteErase, Erasing
  <2>2. /\ call'.proc = "write" /\ call'.at = "program" /\ call'.area = a
        /\ call'.start = flash[a].size /\ call'.image.cell = flash[a].cell
        /\ UNCHANGED <<before, told>>
    BY <1>0, <1>2, <2>1 DEF WriteErase, Area
  <2>3. \A b \in Blocks \ {a} : flash'[b] = flash[b]
    BY <1>0, <1>2, <2>1 DEF WriteErase
  <2>4. AsTold(told', before') /\ ~Idle'
    BY <2>1, <2>2 DEF OnFlash, CodesAgree, Idle
  <2>5. \A b \in Blocks : Tidy(flash[b])
    BY <2>1 DEF OnFlash, AreasAreTidy, Reworked
  <2>6. \A c \in Cells : c > call'.start => call'.image.cell[c] = Erased
    BY <2>1, <2>2, <2>5 DEF Tidy
  <2>7. Reworked' = {a}
    BY <2>2 DEF Reworked
  <2> QED
    BY <2>2, <2>3, <2>4, <2>5, <2>6, <2>7
    DEF OnFlash, CodesAgree, AreasAreTidy, ImageIsTidy, RemovedSoFar
<1>3. CASE WriteProgram
  <2> DEFINE a == call.area
  <2>1. call \in Writing /\ call.proc = "write" /\ call.at = "program" /\ a \in Blocks
    BY <1>3, ShapeOfCall DEF HInv, IInv, WriteProgram, Writing
  <2>2. /\ call'.proc = "write" /\ call'.at # "erase" /\ call'.area = a
        /\ call'.start = call.start /\ call'.image = call.image
        /\ UNCHANGED <<before, told>>
    BY <1>3, <2>1 DEF WriteProgram, Writing
  <2>3. \A b \in Blocks \ {a} : flash'[b] = flash[b]
    BY <1>0, <1>3, <2>1 DEF WriteProgram
  <2>4. AsTold(told', before') /\ ~Idle'
    BY <2>1, <2>2 DEF OnFlash, CodesAgree, Idle
  <2>5. Reworked = {a} /\ Reworked' = {a}
    BY <2>1, <2>2 DEF Reworked
  <2>6. AreasAreTidy'
    BY <2>3, <2>5 DEF OnFlash, AreasAreTidy
  <2>7. ImageIsTidy'
    BY <2>1, <2>2 DEF OnFlash, ImageIsTidy
  <2> QED
    BY <2>2, <2>4, <2>6, <2>7 DEF OnFlash, CodesAgree, RemovedSoFar
<1> QED
  BY <1>1, <1>2, <1>3

(* The records keep to what was told of them while they change their name. *)
LEMMA ConsolidationIsTold ==
  ASSUME HInv, HInv', Undisturbed, OnFlash,
         ConsolidateErase \/ ConsolidateProgram \/ ConsolidateCreate
  PROVE  OnFlash'
<1> USE NamesAssumption DEF Names
<1>0. flash \in [Blocks -> Area] /\ flash' \in [Blocks -> Area]
  BY DEF HInv, IInv, TypeOK
<1>1. CASE ConsolidateErase
  <2> DEFINE b == FileAddr(Current)
  <2>1. b \in Blocks /\ flash[b] \in Area
    BY <1>0, <1>1, LookupsAreInRange DEF HInv, IInv, ConsolidateErase
  <2>2. /\ Idle /\ Reworked = {} /\ call'.proc = "rename" /\ call'.area = b
        /\ call'.image.cell = flash[b].cell /\ call'.image.size = flash[b].size
        /\ before' = Files /\ told' = told
    BY <1>1, <2>1 DEF ConsolidateErase, Idle, Reworked, Area
  <2>3. \A c \in Blocks \ {b} : flash'[c] = flash[c]
    BY <1>0, <1>1, <2>1 DEF ConsolidateErase
  <2>4. AsTold(told', before') /\ ~Idle'
    BY <2>2 DEF OnFlash, CodesAgree, Idle
  <2>5. \A c \in Blocks : Tidy(flash[c])
    BY <2>2 DEF OnFlash, AreasAreTidy
  <2>6. Reworked' = {b}
    BY <2>2 DEF Reworked
  <2>7. Tidy(call'.image)
    BY <2>1, <2>2, <2>5 DEF Tidy
  <2> HIDE DEF b
  <2> QED
    BY <2>2, <2>3, <2>4, <2>5, <2>6, <2>7
    DEF OnFlash, CodesAgree, AreasAreTidy, ImageIsTidy, RemovedSoFar
<1>2. CASE ConsolidateProgram
  <2> DEFINE a == call.area
  <2>1. /\ call \in Renaming /\ call.proc = "rename" /\ call.at = "program" /\ a \in Blocks
        /\ call.image \in Area /\ call.page \in 0 .. HeadCells /\ flash[a] \in Area
    BY <1>0, <1>2, ShapeOfCall DEF HInv, IInv, ConsolidateProgram, Renaming
  <2>2. /\ flash'[a] = ProgramPage(flash[a], call.image, call.page)
        /\ \A b \in Blocks \ {a} : flash'[b] = flash[b]
    BY <1>0, <1>2, <2>1 DEF ConsolidateProgram
  <2>3. AsTold(told, before) /\ Tidy(call.image) /\ Reworked = {a}
    BY <2>1 DEF OnFlash, CodesAgree, ImageIsTidy, Idle, Reworked
  <2>4. \A b \in Blocks \ {a} : Tidy(flash'[b])
    BY <2>2, <2>3 DEF OnFlash, AreasAreTidy
  <2>5. CASE call.page < HeadCells
    <3>1. /\ call'.proc = "rename" /\ call'.area = a /\ call'.image = call.image
          /\ UNCHANGED <<before, told>>
      BY <1>2, <2>1, <2>5 DEF ConsolidateProgram, Renaming
    <3>2. Reworked' = {a} /\ ~Idle'
      BY <3>1 DEF Reworked, Idle
    <3>3. Tidy(call'.image)
      BY <2>3, <3>1
    <3> QED
      BY <2>3, <2>4, <3>1, <3>2, <3>3
      DEF OnFlash, CodesAgree, AreasAreTidy, ImageIsTidy, RemovedSoFar
  <2>6. CASE ~(call.page < HeadCells)
    <3>1. call.page = HeadCells
      BY <2>1, <2>6, SizesAssumption
    <3>2. PartWay(flash'[a], call.image, HeadCells + 1)
      BY <2>1, <2>2, <3>1, ProgrammingGoesOn DEF HInv, CallRemembers, RenameRemembers, NextPage
    <3>3. flash'[a] = call.image
      BY <1>0, <2>1, <3>2, ProgrammingEnds
    <3>4. /\ call'.proc = "create" /\ AsTold(told', before')
      <4> DEFINE Moved(h) == [h EXCEPT ![Archive] = h[Current], ![Current] = NoFile]
      <4>1. call' = Creating /\ told' = Moved(told) /\ before' = Moved(before)
        BY <1>2, <2>6 DEF ConsolidateProgram
      <4>2. AsTold(Moved(told), Moved(before))
        BY <2>3, WholeIsFile, NamesAssumption DEF AsTold, HInv, Histories, Names
      <4> HIDE DEF Moved
      <4> QED
        BY <4>1, <4>2 DEF Creating
    <3>5. \A b \in Blocks : Tidy(flash'[b])
      BY <2>3, <2>4, <3>3
    <3> QED
      BY <3>4, <3>5 DEF OnFlash, CodesAgree, AreasAreTidy, ImageIsTidy, RemovedSoFar, Idle
  <2> QED
    BY <2>5, <2>6
<1>3. CASE ConsolidateCreate
  <2>1. /\ call.proc = "create" /\ call' = NoCall /\ Reworked = {}
        /\ \A n \in Names : told[n] = Whole(Contents(n))
    BY <1>3 DEF ConsolidateCreate, Reworked, OnFlash, CodesAgree, AsTold, Idle, HInv,
                CallRemembers, CreateRemembers
  <2>2. CASE CanOpen(Current) /\ ~Exists(Current)
    <3>1. /\ flash' = [flash EXCEPT ![OpenArea(Current)] = NewFile(@, Current)]
          /\ told' = [told EXCEPT ![Current] = <<>>]
      BY <1>3, <2>2 DEF ConsolidateCreate
    <3>2. /\ \A b \in Blocks : Tidy(flash'[b])
          /\ Contents(Archive)' = Contents(Archive) /\ Contents(Current)' = <<>>
      BY <2>1, <2>2, <3>1, OpeningIsTold DEF OnFlash
    <3>3. told'[Current] = <<>> /\ told'[Archive] = told[Archive]
      BY <3>1 DEF HInv, Histories
    <3> QED
      BY <2>1, <3>2, <3>3, WholeIsFile
      DEF OnFlash, CodesAgree, AsTold, Files, AreasAreTidy, ImageIsTidy, RemovedSoFar, Idle,
          NoCall, Names
  <2>3. CASE ~(CanOpen(Current) /\ ~Exists(Current))
    <3>1. UNCHANGED <<flash, told>>
      BY <1>3, <2>3 DEF ConsolidateCreate
    <3>2. \A n \in Names : Contents(n)' = Contents(n)
      BY <3>1, SameFlashSameFile
    <3> QED
      BY <2>1, <3>1, <3>2
      DEF OnFlash, CodesAgree, AsTold, Files, AreasAreTidy, ImageIsTidy, RemovedSoFar, Idle,
          NoCall
  <2> QED
    BY <2>2, <2>3
<1> QED
  BY <1>1, <1>2, <1>3

(* Removing a log: told once its last sector is erased.                    *)
LEMMA RemovalIsTold ==
  ASSUME HInv, HInv', Undisturbed, OnFlash, RemoveArchive \/ LoadCorrupted \/ RemoveStep
  PROVE  OnFlash'
<1> USE NamesAssumption
<1>0. /\ flash \in [Blocks -> Area] /\ flash' \in [Blocks -> Area] /\ ReadsItsArea'
      /\ TypeOK /\ UniqueNames
  BY ContentsOfNextArea DEF HInv, IInv, TypeOK
<1>1. CASE RemoveArchive \/ LoadCorrupted
  <2>1. PICK n \in Names : Exists(n) /\ StartRemove(n) /\ UNCHANGED <<flash, told>>
    BY <1>1 DEF RemoveArchive, LoadCorrupted, NameAt, Names
  <2>2. Idle /\ Reworked = {}
    BY <1>1 DEF RemoveArchive, LoadCorrupted, Idle, Reworked
  <2>3. PICK a \in Blocks : a = FileAddr(n) /\ flash[a].name = n
    BY <1>0, <2>1, LookupsAreInRange
  <2>4. /\ call'.proc = "remove" /\ call'.name = n /\ call'.area = a /\ call'.sector = 0
        /\ before' = Files
    BY <2>1, <2>3 DEF StartRemove
  <2>5. AsTold(told', before') /\ ~Idle'
    BY <2>1, <2>2, <2>4 DEF OnFlash, CodesAgree, Idle
  <2>6. AreasAreTidy'
    BY <2>1, <2>2 DEF OnFlash, AreasAreTidy
  <2>7. \A c \in Cells : ~(SectorOf(c) < 0)
    BY FirstSector DEF Sectors
  <2>8. \A b \in Blocks \ {a} : flash'[b].name # n
    BY <1>0, <2>1, <2>3 DEF UniqueNames
  <2> QED
    BY <2>4, <2>5, <2>6, <2>7, <2>8 DEF OnFlash, CodesAgree, ImageIsTidy, RemovedSoFar
<1>2. CASE RemoveStep
  <2>1. call \in Removing /\ call.proc = "remove"
    BY <1>2, ShapeOfCall DEF HInv, IInv, RemoveStep
  <2>2. PICK a \in Blocks, n \in Names, s \in Sectors :
          a = call.area /\ n = call.name /\ s = call.sector
    BY <2>1 DEF Removing
  <2>3. /\ flash'[a] = EraseSector(flash[a], s) /\ flash[a].name \in {n, NoName}
        /\ \A b \in Blocks \ {a} : flash'[b] = flash[b]
    BY <1>0, <1>2, <2>1, <2>2 DEF RemoveStep, HInv, CallOwnsArea
  <2>4. /\ AsTold(told, before) /\ Reworked = {a}
        /\ \A c \in Cells : SectorOf(c) < s => flash[a].cell[c] = Erased
        /\ \A b \in Blocks \ {a} : flash[b].name # n /\ Tidy(flash[b])
    BY <2>1, <2>2 DEF OnFlash, CodesAgree, Idle, Reworked, RemovedSoFar, AreasAreTidy
  <2>5. \A c \in Cells : SectorOf(c) \in Nat /\ SectorOf(c) <= SectorOf(Capacity)
                         /\ s \in Nat
    BY FirstSector, SizesAssumption DEF Sectors
  <2>6. \A c \in Cells : SectorOf(c) < s + 1 => flash'[a].cell[c] = Erased
    <3>1. \A c \in Cells : flash'[a].cell[c] = IF SectorOf(c) = s THEN Erased
                                                                 ELSE flash[a].cell[c]
      BY <2>3 DEF EraseSector
    <3> QED
      BY <2>4, <2>5, <3>1
  <2>7. \A b \in Blocks \ {a} : flash'[b].name # n /\ Tidy(flash'[b])
    BY <2>3, <2>4
  <2>8. CASE s + 1 \in Sectors
    <3>1. /\ call'.proc = "remove" /\ call'.area = a /\ call'.name = n /\ call'.sector = s + 1
          /\ UNCHANGED <<before, told>>
      BY <1>2, <2>1, <2>2, <2>8 DEF RemoveStep, Removing
    <3>2. Reworked' = {a} /\ ~Idle'
      BY <3>1 DEF Reworked, Idle
    <3> QED
      BY <2>4, <2>6, <2>7, <3>1, <3>2
      DEF OnFlash, CodesAgree, AreasAreTidy, ImageIsTidy, RemovedSoFar
  <2>9. CASE s + 1 \notin Sectors
    <3>1. call' = NoCall /\ told' = [told EXCEPT ![n] = NoFile]
      BY <1>2, <2>2, <2>9 DEF RemoveStep
    <3>2. \A c \in Cells : SectorOf(c) < s + 1
      <4>1. Capacity \in Cells
        BY SizesAssumption DEF Cells
      <4>2. SectorOf(Capacity) \in Nat /\ s \in Nat
        BY <2>5, <4>1
      <4>3. s >= SectorOf(Capacity)
        BY <2>9, <4>2 DEF Sectors
      <4> QED
        BY <2>5, <4>2, <4>3
    <3>3. \A b \in Blocks : Tidy(flash'[b])
      BY <2>6, <2>7, <3>2 DEF Tidy
    <3>4. flash'[a].name # n
      <4>1. flash'[a].name = NoName
        BY <2>1, <2>2, <2>3 DEF EraseSector, HInv, CallRemembers, RemoveRemembers
      <4> QED
        BY <4>1
    <3>5. told'[n] = Whole(Contents(n)')
      <4>1. Contents(n)' = NoFile
        BY <1>0, <2>7, <3>4 DEF ReadsItsArea
      <4> QED
        BY <3>1, <4>1, WholeIsFile DEF HInv, Histories
    <3>6. ASSUME NEW m \in Names \ {n}
          PROVE  told'[m] = Whole(Contents(m)')
      <4>1. Targets = {n} /\ Targets' = {}
        BY <2>1, <2>2, <3>1 DEF Targets, NoCall
      <4>2. Contents(m)' = Contents(m)
        BY <1>2, <4>1, StepsKeepNeighbours DEF HInv, Next
      <4>3. Contents(m) = before[m]
        BY <2>1, <2>2 DEF HInv, CallRemembers, RemoveRemembers
      <4> QED
        BY <2>4, <3>1, <4>2, <4>3 DEF HInv, Histories, AsTold
    <3> QED
      BY <3>1, <3>3, <3>5, <3>6
      DEF OnFlash, CodesAgree, AsTold, Files, AreasAreTidy, ImageIsTidy, RemovedSoFar, Idle,
          NoCall
  <2> QED
    BY <2>8, <2>9
<1> QED
  BY <1>1, <1>2

(* A power loss and the restart tell the files anew.                       *)
LEMMA PowerLossIsTold ==
  ASSUME HInv', PowerLoss, Undisturbed'
  PROVE  OnFlash'
<1>1. /\ \A b \in Blocks : ~Leftover(flash'[b])
      /\ told' = [n \in Names |-> Whole(Files'[n])] /\ call'.proc = "none"
  BY DEF PowerLoss, Undisturbed, NoCall
<1>2. \A b \in Blocks : Tidy(flash'[b])
  BY <1>1 DEF Leftover, Tidy
<1>3. AsTold(told', Files')
  BY <1>1 DEF AsTold
<1> QED
  BY <1>1, <1>2, <1>3 DEF OnFlash, CodesAgree, AreasAreTidy, ImageIsTidy, RemovedSoFar, Idle

(* Every step keeps the flash and the return codes in agreement.           *)
LEMMA StepsKeepTold == TInv /\ [Next]_vars => TInv'
<1> SUFFICES ASSUME TInv, [Next]_vars
             PROVE  TInv'
  OBVIOUS
<1>1. HInv /\ HInv' /\ IInv /\ IInv' /\ NamelessIsEmpty'
  BY StepsRemember, NamelessStaysEmpty DEF TInv, HInv
<1>2. SUFFICES ASSUME Undisturbed'
               PROVE  OnFlash'
  BY <1>1 DEF TInv
<1>3. CASE PowerLoss
  BY <1>1, <1>2, <1>3, PowerLossIsTold
<1>4. CASE \E d \in Data : WriteDropped(d)
  <2>1. FreeSlots # {} /\ ~CanOpen(Current)
    BY <1>2, <1>4 DEF WriteDropped, Undisturbed, FreeSlots, Idle
  <2> QED
    BY <1>1, <2>1, RoomForTheLog DEF TInv
<1>5. CASE (\E d \in Data : WriteOpen(d)) \/ WriteErase \/ WriteProgram \/ WriteContent
  <2>1. Undisturbed
    BY <1>2, <1>5 DEF Undisturbed, WriteOpen, CanOpen, WriteErase, WriteProgram, WriteContent
  <2> QED
    BY <1>1, <1>5, <2>1, WriteStepsAreTold, WriteContentIsTold DEF TInv
<1>6. CASE ConsolidateErase \/ ConsolidateProgram \/ ConsolidateCreate
  <2>1. call'.proc # "write"
    BY <1>1, <1>6, ShapeOfCall DEF ConsolidateErase, ConsolidateProgram, ConsolidateCreate,
                                   Creating, NoCall, Renaming, IInv
  <2>2. UNCHANGED <<open, torn>>
    BY <1>6 DEF ConsolidateErase, ConsolidateProgram, ConsolidateCreate
  <2>3. Undisturbed
    BY <1>2, <2>1, <2>2 DEF Undisturbed, FreeSlots
  <2> QED
    BY <1>1, <1>6, <2>3, ConsolidationIsTold DEF TInv
<1>7. CASE RemoveArchive \/ LoadCorrupted \/ RemoveStep
  <2>1. Undisturbed
    <3>1. CASE LoadCorrupted
      BY <1>2, <3>1 DEF LoadCorrupted, Undisturbed
    <3>2. CASE RemoveArchive \/ RemoveStep
      <4>1. call'.proc # "write" /\ UNCHANGED <<open, torn>>
        BY <1>1, <3>2, ShapeOfCall DEF RemoveArchive, RemoveStep, StartRemove, NoCall,
                                       Removing, IInv
      <4> QED
        BY <1>2, <4>1 DEF Undisturbed, FreeSlots
    <3> QED
      BY <1>7, <3>1, <3>2
  <2> QED
    BY <1>1, <1>7, <2>1, RemovalIsTold DEF TInv
<1>8. CASE Load \/ UNCHANGED vars
  <2>1. UNCHANGED <<flash, open, call, before, told, torn>>
    BY <1>8 DEF Load, vars
  <2>2. Undisturbed
    BY <1>2, <2>1 DEF Undisturbed, FreeSlots
  <2>3. \A n \in Names : Contents(n)' = Contents(n)
    BY <2>1, SameFlashSameFile
  <2> QED
    BY <2>1, <2>2, <2>3 DEF TInv, OnFlash, CodesAgree, AsTold, Files, AreasAreTidy,
                            ImageIsTidy, RemovedSoFar, Idle, Reworked
<1> QED
  BY <1>3, <1>4, <1>5, <1>6, <1>7, <1>8 DEF Next

(* The erased flash is as the first boot is told.                          *)
LEMMA InitIsTold == Init => TInv
<1> SUFFICES ASSUME Init
             PROVE  TInv
  OBVIOUS
<1>1. HInv
  BY InitRemembers
<1>2. NamelessIsEmpty /\ \A b \in Blocks : Tidy(flash[b])
  BY DEF Init, NamelessIsEmpty, Tidy
<1>3. AsTold(told, Files)
  BY NamesAssumption, WholeIsFile DEF Init, AsTold, Files, Contents, Exists, AreasNamed
<1>4. call.proc = "none"
  BY DEF Init, NoCall
<1> QED
  BY <1>1, <1>2, <1>3, <1>4 DEF TInv, OnFlash, CodesAgree, AreasAreTidy, ImageIsTidy,
                               RemovedSoFar, Idle

(* What was told is on flash at every state.                               *)
LEMMA AlwaysTold == Spec => []TInv
  BY InitIsTold, StepsKeepTold, PTL DEF Spec

(* Between two calls the files are what the return codes said they are.    *)
THEOREM FlashIsAsTold == Spec => []ToldIsOnFlash
<1>1. TInv => ToldIsOnFlash
  <2> SUFFICES ASSUME TInv, Idle, FreeSlots # {}, ~torn
               PROVE  \A n \in Names : Whole(Contents(n)) = told[n]
    BY DEF ToldIsOnFlash
  <2> QED
    BY DEF TInv, Undisturbed, OnFlash, CodesAgree, AsTold, Files
<1> QED
  BY <1>1, AlwaysTold, PTL
============================================================================
