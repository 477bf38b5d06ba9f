--------------------------- MODULE StoFileSystem ---------------------------
(***************************************************************************)
(* The store file system (OSAL/RT1050/sto/STO_FileSystem.c) driven by its  *)
(* one client, the storage manager (Storage/STO_Manager.c).                *)
(*                                                                         *)
(* Each file owns a fixed area of NOR flash.  The first sector of the area *)
(* holds the header (name, size) and the first records; every append       *)
(* erases and reprograms that sector before it programs the record itself. *)
(* One step below erases a sector or programs a page, so that a power loss *)
(* may fall between any two of them.  A cell holds one record of the log,  *)
(* and is a page; the header is one too.  The last cell is what is left of *)
(* the area behind the last record that fits: STO_Write cuts the record it *)
(* puts there.  What a record says is left to Storage.tla.                 *)
(***************************************************************************)
EXTENDS Integers, Sequences, FiniteSets

CONSTANTS
  FileCount,     \* STO_MAX_FILE_COUNT: file areas in the flash
  MaxOpen,       \* STO_ALLOWED_MAX_OPEN_FILE_COUNT
  Capacity,      \* cells of a file (STO_MAX_FILE_CONTENT_LEN), a cut one included
  HeadCells,     \* records that share the first sector with the header
  SectorCells,   \* records that fit in any other sector
  MaxStore,      \* records at which the log is consolidated
  Data,          \* what a record may hold
  Current, Archive,            \* the two file names
  NoName, Erased, Garbled, NoFile,
  LoadMayFail    \* a log may be found corrupted when it is loaded

Names  == {Current, Archive}
Blocks == 0 .. FileCount - 1
Slots  == 1 .. MaxOpen
Cells  == 1 .. Capacity
HeadRange == 1 .. HeadCells

\* There is an area for each of the two logs, and room for a whole record.
ASSUME SizesAssumption ==
  /\ FileCount \in Nat \ {0, 1} /\ MaxOpen \in Nat
  /\ Capacity \in Nat \ {0, 1} /\ HeadCells \in 0 .. Capacity
  /\ SectorCells \in Nat \ {0} /\ MaxStore \in Nat

ASSUME NamesAssumption ==
  /\ Current # Archive /\ NoName \notin Names
  /\ Data \cap {Erased, Garbled} = {} /\ Erased # Garbled
  /\ NoFile \notin Seq(Data \cup {Erased, Garbled})
  /\ LoadMayFail \in BOOLEAN

VARIABLES
  flash,   \* for each file area: the name and size in its header, its cells
  open,    \* openFiles[]: the area each slot has open, or -1
  phase,   \* "archive", "current" while the logs are loaded, then "run"
  call,    \* the storage manager's call in progress, and its local state
  before,  \* history: the files on flash when that call started
  told,    \* history: the files as the return codes of this boot describe them
  torn     \* history: a power loss has left records that no file has

vars == <<flash, open, phase, call, before, told, torn>>

NoCall   == [proc |-> "none", at |-> "none"]
Creating == [proc |-> "create", at |-> "open"]
Idle     == call.proc = "none"
----------------------------------------------------------------------------
(* Flash: a sector is erased as a whole and programmed bit by bit.         *)

SectorOf(c) == IF c <= HeadCells THEN 0 ELSE 1 + (c - HeadCells - 1) \div SectorCells
Sectors     == 0 .. SectorOf(Capacity)

\* Programming can only clear bits: a cell that was not erased is garbled.
Programmed(old, d) == IF old = Erased THEN d ELSE Garbled

EraseSector(area, s) ==
  [name |-> IF s = 0 THEN NoName ELSE area.name,
   size |-> IF s = 0 THEN -1 ELSE area.size,
   cell |-> [c \in Cells |-> IF SectorOf(c) = s THEN Erased ELSE area.cell[c]]]

\* Mutant: only the header goes back, not the records beside it.
ProgramHeaderOnly(area, image, page) ==
  IF page = 0 THEN [area EXCEPT !.name = image.name, !.size = image.size] ELSE area

\* updateFile's second half: the sector image built in RAM goes back, a page
\* at a time, the header first.
ProgramPage(area, image, page) ==
  IF page = 0 THEN [area EXCEPT !.name = image.name, !.size = image.size]
              ELSE [area EXCEPT !.cell[page] = image.cell[page]]

\* STO_Open of a new name programs a fresh header and leaves the cells alone.
NewFile(area, n) == [area EXCEPT !.name = n, !.size = 0]
----------------------------------------------------------------------------
(* Directory lookups.                                                      *)

Lowest(S) == CHOOSE b \in S : \A x \in S : b <= x

AreasNamed(n) == {b \in Blocks : flash[b].name = n}
Exists(n)     == AreasNamed(n) # {}
FileAddr(n)   == Lowest(AreasNamed(n))

EmptyAreas == {b \in Blocks : flash[b].size = -1}

FreeSlots == {s \in Slots : open[s] = -1}

\* What reading a file from its start returns.
Contents(n) ==
  IF Exists(n) THEN SubSeq(flash[FileAddr(n)].cell, 1, flash[FileAddr(n)].size)
               ELSE NoFile
Files == [n \in Names |-> Contents(n)]

Min2(a, b) == IF a < b THEN a ELSE b

Appended(file, d) == Append(IF file = NoFile THEN <<>> ELSE file, d)

\* A file without the record that was cut at the end of its area.
IsCut(file) == file # NoFile /\ Len(file) = Capacity
Whole(file) == IF file = NoFile THEN NoFile
                                ELSE SubSeq(file, 1, Min2(Len(file), Capacity - 1))
----------------------------------------------------------------------------
Init ==
  /\ flash = [b \in Blocks |-> [name |-> NoName, size |-> -1,
                                cell |-> [c \in Cells |-> Erased]]]
  /\ open = [s \in Slots |-> -1]
  /\ phase = "archive"
  /\ call = NoCall
  /\ before = [n \in Names |-> NoFile]
  /\ told = [n \in Names |-> NoFile]
  /\ torn = FALSE

\* The area STO_Open(n) for writing uses, if it can have one.
CanOpen(n) == FreeSlots # {} /\ (Exists(n) \/ EmptyAreas # {})
OpenArea(n) == IF Exists(n) THEN FileAddr(n) ELSE Lowest(EmptyAreas)

(* STO_Open for writing; creates the file in an empty area if need be.     *)
OpenForWriting(n) ==
  /\ open' = [open EXCEPT ![Lowest(FreeSlots)] = OpenArea(n)]
  /\ flash' = IF Exists(n) THEN flash
              ELSE [flash EXCEPT ![OpenArea(n)] = NewFile(@, n)]
----------------------------------------------------------------------------
(* STO_WriteRecord: open the current log for appending, write, close.      *)

WriteOpen(d) ==
  /\ Idle /\ phase = "run"
  /\ CanOpen(Current)
  /\ OpenForWriting(Current)
  /\ call' = [proc |-> "write", at |-> "erase", data |-> d,
              area |-> OpenArea(Current), slot |-> Lowest(FreeSlots)]
  /\ before' = Files
  /\ UNCHANGED <<phase, told, torn>>

\* A NULL handle is not an error to STO_WriteRecord: it returns eecNoError.
\* (Bound: such writes are counted up to the capacity of a file.)
WriteDropped(d) ==
  /\ Idle /\ phase = "run"
  /\ ~CanOpen(Current)
  /\ told[Current] # NoFile => Len(told[Current]) < Capacity
  /\ told' = [told EXCEPT ![Current] = Appended(@, d)]
  /\ UNCHANGED <<flash, open, phase, call, before, torn>>

\* Mutant: the length is not clamped to what the file can still hold.
WriteEraseUnclamped ==
  /\ call.proc = "write" /\ call.at = "erase"
  /\ LET area == flash[call.area]
     IN  call' = [proc |-> "write", at |-> "program", data |-> call.data,
                  area |-> call.area, slot |-> call.slot, page |-> 0,
                  image |-> [area EXCEPT !.size = @ + 1],
                  start |-> area.size, wrote |-> 1]
  /\ flash' = [flash EXCEPT ![call.area] = EraseSector(@, 0)]
  /\ UNCHANGED <<open, phase, before, told, torn>>

\* The length is clamped: the last cell takes the first bytes of a record, and
\* once it is taken nothing is written.  The header is rewritten all the same.
WriteErase ==
  /\ call.proc = "write" /\ call.at = "erase"
  /\ LET area  == flash[call.area]
         wrote == Min2(1, Capacity - area.size)
     IN  call' = [proc |-> "write", at |-> "program", data |-> call.data,
                  area |-> call.area, slot |-> call.slot, page |-> 0,
                  image |-> [area EXCEPT !.size = @ + wrote],
                  start |-> area.size, wrote |-> wrote]
  /\ flash' = [flash EXCEPT ![call.area] = EraseSector(@, 0)]
  /\ UNCHANGED <<open, phase, before, told, torn>>

WriteProgram ==
  /\ call.proc = "write" /\ call.at = "program"
  /\ flash' = [flash EXCEPT ![call.area] = ProgramPage(@, call.image, call.page)]
  /\ call' = IF call.page < HeadCells THEN [call EXCEPT !.page = @ + 1]
                                      ELSE [call EXCEPT !.at = "content"]
  /\ UNCHANGED <<open, phase, before, told, torn>>

\* Mutant: the length that STO_Write returns is not compared.
WriteContentUnchecked ==
  /\ call.proc = "write" /\ call.at = "content"
  /\ flash' = IF call.wrote = 0 THEN flash
              ELSE [flash EXCEPT ![call.area].cell[call.start + 1] =
                                   Programmed(@, call.data)]
  /\ told' = [told EXCEPT ![Current] = Appended(@, call.data)]
  /\ open' = [open EXCEPT ![call.slot] = -1]
  /\ call' = NoCall
  /\ UNCHANGED <<phase, before, torn>>

\* The record itself, or its first bytes, then STO_Close.  STO_WriteRecord
\* returns eecWriteFailed if STO_Write did not take the whole record.
WriteContent ==
  /\ call.proc = "write" /\ call.at = "content"
  /\ flash' = IF call.wrote = 0 THEN flash
              ELSE [flash EXCEPT ![call.area].cell[call.start + 1] =
                                   Programmed(@, call.data)]
  /\ told' = IF call.start + call.wrote < Capacity
             THEN [told EXCEPT ![Current] = Appended(@, call.data)] ELSE told
  /\ open' = [open EXCEPT ![call.slot] = -1]
  /\ call' = NoCall
  /\ UNCHANGED <<phase, before, torn>>
----------------------------------------------------------------------------
(* STO_CheckSizeAndConsolidate: rename the full log, then create a new one.*)

StoreSize(n) == IF Exists(n) THEN flash[FileAddr(n)].size ELSE 0

\* Mutant: STO_Rename does not look for a file of the new name.
ConsolidateEraseOver ==
  /\ Idle /\ phase = "run"
  /\ StoreSize(Current) >= MaxStore
  /\ Exists(Current)
  /\ LET b == FileAddr(Current)
     IN  /\ call' = [proc |-> "rename", at |-> "program", area |-> b, page |-> 0,
                     image |-> [flash[b] EXCEPT !.name = Archive]]
         /\ flash' = [flash EXCEPT ![b] = EraseSector(@, 0)]
  /\ before' = Files
  /\ UNCHANGED <<open, phase, told, torn>>

ConsolidateErase ==
  /\ Idle /\ phase = "run"
  /\ StoreSize(Current) >= MaxStore
  /\ Exists(Current) /\ ~Exists(Archive)
  /\ LET b == FileAddr(Current)
     IN  /\ call' = [proc |-> "rename", at |-> "program", area |-> b, page |-> 0,
                     image |-> [flash[b] EXCEPT !.name = Archive]]
         /\ flash' = [flash EXCEPT ![b] = EraseSector(@, 0)]
  /\ before' = Files
  /\ UNCHANGED <<open, phase, told, torn>>

ConsolidateProgram ==
  /\ call.proc = "rename" /\ call.at = "program"
  /\ flash' = [flash EXCEPT ![call.area] = ProgramPage(@, call.image, call.page)]
  /\ IF call.page < HeadCells
     THEN call' = [call EXCEPT !.page = @ + 1] /\ UNCHANGED <<before, told>>
     ELSE /\ call' = Creating
          /\ told' = [told EXCEPT ![Archive] = told[Current], ![Current] = NoFile]
          /\ before' = [before EXCEPT ![Archive] = before[Current], ![Current] = NoFile]
  /\ UNCHANGED <<open, phase, torn>>

\* Open WRITE_ONLY and close at once; eecOpenFailed if there is no room.
ConsolidateCreate ==
  /\ call.proc = "create"
  /\ IF CanOpen(Current) /\ ~Exists(Current)
     THEN /\ flash' = [flash EXCEPT ![OpenArea(Current)] = NewFile(@, Current)]
          /\ told' = [told EXCEPT ![Current] = <<>>]
     ELSE UNCHANGED <<flash, told>>
  /\ call' = NoCall
  /\ UNCHANGED <<open, phase, before, torn>>
----------------------------------------------------------------------------
(* STO_Remove: the sectors of the area are erased one after the other.     *)

\* Mutant: the loop runs one sector too far, into the next area.
RemoveStepTooFar ==
  /\ call.proc = "remove"
  /\ flash' = IF call.sector \in Sectors
              THEN [flash EXCEPT ![call.area] = EraseSector(@, call.sector)]
              ELSE [b \in Blocks |-> IF b = call.area + 1 THEN EraseSector(flash[b], 0)
                                                          ELSE flash[b]]
  /\ IF call.sector \in Sectors
     THEN call' = [call EXCEPT !.sector = @ + 1] /\ UNCHANGED told
     ELSE call' = NoCall /\ told' = [told EXCEPT ![call.name] = NoFile]
  /\ UNCHANGED <<open, phase, before, torn>>

RemoveStep ==
  /\ call.proc = "remove"
  /\ flash' = [flash EXCEPT ![call.area] = EraseSector(@, call.sector)]
  /\ IF call.sector + 1 \in Sectors
     THEN call' = [call EXCEPT !.sector = @ + 1] /\ UNCHANGED told
     ELSE call' = NoCall /\ told' = [told EXCEPT ![call.name] = NoFile]
  /\ UNCHANGED <<open, phase, before, torn>>

StartRemove(n) ==
  /\ call' = [proc |-> "remove", at |-> "erase", name |-> n,
              area |-> FileAddr(n), sector |-> 0]
  /\ before' = Files

(* STO_LocalShadowDumpComplete: the dump has reached the log.              *)
RemoveArchive ==
  /\ Idle /\ phase = "run" /\ Exists(Archive)
  /\ StartRemove(Archive)
  /\ UNCHANGED <<flash, open, phase, told, torn>>
----------------------------------------------------------------------------
(* STO_LoadFromStorage: the archive first, then the current log.           *)

NameAt(p)  == IF p = "archive" THEN Archive ELSE Current
PhaseAfter == IF phase = "archive" THEN "current" ELSE "run"

\* No such log, no free slot, or a log read to its end and closed: one that
\* ends in a cut record is not, STO_ReadRecord returns eecReadFailed.
Load ==
  /\ Idle /\ phase \in {"archive", "current"}
  /\ FreeSlots = {} \/ ~IsCut(Contents(NameAt(phase)))
  /\ phase' = PhaseAfter
  /\ UNCHANGED <<flash, open, call, before, told, torn>>

\* A corrupted log is removed, but the handle it was read through stays open.
LoadCorrupted ==
  /\ LoadMayFail \/ IsCut(Contents(NameAt(phase)))
  /\ Idle /\ phase \in {"archive", "current"}
  /\ LET n == NameAt(phase)
     IN  /\ Exists(n) /\ FreeSlots # {}
         /\ open' = [open EXCEPT ![Lowest(FreeSlots)] = FileAddr(n)]
         /\ StartRemove(n)
  /\ phase' = PhaseAfter
  /\ UNCHANGED <<flash, told, torn>>

\* A record of which only the first bytes were programmed.
TearRecord ==
  [flash EXCEPT ![call.area].cell[call.start + 1] = Garbled]

\* Records behind the end of their file, or in an area without one.
Leftover(area) == \E c \in Cells : c > area.size /\ area.cell[c] # Erased

(* Power is lost and the gateway restarts: only the flash survives.        *)
PowerLoss ==
  /\ open' = [s \in Slots |-> -1]
  /\ phase' = "archive"
  /\ call' = NoCall
  /\ \/ UNCHANGED flash
     \/ call.at = "content" /\ call.wrote = 1 /\ flash' = TearRecord
  /\ before' = Files' /\ told' = [n \in Names |-> Whole(Files'[n])]
  /\ torn' = (torn \/ \E b \in Blocks : Leftover(flash'[b]))
----------------------------------------------------------------------------
Next ==
  \/ \E d \in Data : WriteOpen(d) \/ WriteDropped(d)
  \/ WriteErase \/ WriteProgram \/ WriteContent
  \/ ConsolidateErase \/ ConsolidateProgram \/ ConsolidateCreate
  \/ RemoveArchive \/ RemoveStep
  \/ Load \/ LoadCorrupted
  \/ PowerLoss

Spec == Init /\ [][Next]_vars
----------------------------------------------------------------------------
Area  == [name : Names \cup {NoName}, size : -1 .. Capacity,
          cell : [Cells -> Data \cup {Erased, Garbled}]]
\* A call in progress, by what it does next.
Erasing  == [proc : {"write"}, at : {"erase"}, data : Data, area : Blocks, slot : Slots]
Writing  == [proc : {"write"}, at : {"program", "content"}, data : Data, area : Blocks,
             slot : Slots, page : 0 .. HeadCells, image : Area, start : 0 .. Capacity, wrote : {0, 1}]
Renaming == [proc : {"rename"}, at : {"program"}, area : Blocks,
             page : 0 .. HeadCells, image : Area]
Removing == [proc : {"remove"}, at : {"erase"}, name : Names, area : Blocks,
             sector : Sectors]
Calls    == {NoCall, Creating} \cup Erasing \cup Writing \cup Renaming \cup Removing

TypeOK ==
  /\ flash \in [Blocks -> Area]
  /\ open \in [Slots -> Blocks \cup {-1}]
  /\ phase \in {"archive", "current", "run"}
  /\ call \in Calls

(* A name is in the header of at most one area, whatever step the power    *)
(* was lost at: getFileAddr returns the first match, so a second one would *)
(* be a log that is never read again.                                      *)
UniqueNames ==
  \A b, c \in Blocks : flash[b].name = flash[c].name /\ flash[b].name \in Names => b = c

(* Between two calls the flash holds exactly what the return codes of      *)
(* STO_WriteRecord, STO_CheckSizeAndConsolidate and STO_Remove say, power  *)
(* losses inside earlier calls included, and behind that at most the one   *)
(* record that was cut and reported as failed: as long as corrupted logs   *)
(* have not leaked every handle (then STO_WriteRecord returns eecNoError   *)
(* and writes nothing) and no power loss left records behind the end of a  *)
(* file, over which STO_Write programs without an erase.                   *)
ToldIsOnFlash ==
  Idle /\ FreeSlots # {} /\ ~torn => \A n \in Names : Whole(Contents(n)) = told[n]

(* The files a call may change.                                            *)
Targets ==
  CASE call.proc = "write"  -> {Current}
    [] call.proc = "remove" -> {call.name}
    [] call.proc \in {"rename", "create"} -> Names
    [] OTHER -> {}

(* No step of a call changes a file the call was not asked to change,      *)
(* although areas are reused and slots outlive the files they opened.      *)
NeighbourUntouched ==
  [][\A n \in Names \ (Targets \cup Targets') : Contents(n)' = Contents(n)]_vars

(* A file as reprogrammed up to the page that comes next: the header says  *)
(* how long it is, the records of later pages read as erased flash.        *)
Reprogrammed(file) ==
  LET done == IF call.at = "program" THEN call.page - 1 ELSE HeadCells
  IN  [i \in DOMAIN file |-> IF i \in HeadRange /\ i > done THEN Erased ELSE file[i]]

(* Wherever a power loss falls, the next boot finds each file as it was,   *)
(* or gone, or empty if it was being created, or - in the file that a call *)
(* was rewriting, under its new name or its new length - without the       *)
(* records that shared a sector with the header and were not yet back; an  *)
(* append may leave a last record that is not, or half, programmed.        *)
CrashOutcome ==
  [][PowerLoss /\ ~Idle => \A n \in Names :
       \/ Contents(n)' \in {before[n], NoFile}
       \/ Contents(n)' = <<>> /\ before[n] = NoFile
       \/ /\ call.proc = "write" /\ n = Current
          /\ \/ before[n] # NoFile /\ Contents(n)' = Reprogrammed(before[n])
             \/ \E x \in Data \cup {Erased, Garbled} :
                  Contents(n)' = Reprogrammed(Appended(before[n], x))
       \/ /\ call.proc = "rename" /\ n = Archive
          /\ Contents(n)' = Reprogrammed(before[Current])]_vars
============================================================================
