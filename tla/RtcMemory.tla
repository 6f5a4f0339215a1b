----------------------------- MODULE RtcMemory ------------------------------
(***************************************************************************)
(* The class RtcMemory: a structure in RAM, its copy in the RTC user       *)
(* memory under a CRC, and an optional backup file on flash.  The owner of *)
(* the object changes the structure through getData() at will; the class   *)
(* copies it out (save, persist) and in (begin).                           *)
(***************************************************************************)
CONSTANTS
    Values,     \* the values of the structure
    Zero,       \* the value all of whose bytes are zero
    HasPath,    \* was a file path given to the constructor?
    FlashFull   \* may the file system refuse a file, or take a part of it?

ASSUME ValuesAssumption == Zero \in Values
ASSUME PathAssumption == HasPath \in BOOLEAN /\ FlashFull \in BOOLEAN

VARIABLES
    ready,      \* begin() has been called
    data,       \* the structure in RAM
    rtc,        \* RTC user memory: does the CRC match, and the data
    flash,      \* the backup file: "absent", "short" or "full", and its data
    persisting, \* persist() has saved and is about to write the file
    result,     \* what the last call returned
    saved,      \* history: the value of the last save the RTC still holds
    backup      \* history: the value of the last complete backup

rvars == <<ready, data, rtc, flash, persisting, result, saved, backup>>

None == [some |-> FALSE, value |-> Zero]
Just(v) == [some |-> TRUE, value |-> v]

RtcInit ==
    /\ ready = FALSE /\ data = Zero
    /\ rtc = [sealed |-> FALSE, data |-> Zero]
    /\ flash = [state |-> "absent", data |-> Zero]
    /\ persisting = FALSE /\ result = FALSE
    /\ saved = None /\ backup = None

\* A file opened for writing is truncated; what write() returns is ignored.
writeToFlash(v, ok) ==
    \/ /\ HasPath /\ ok
       /\ flash' = [state |-> "full", data |-> v]
       /\ backup' = Just(v)
    \/ /\ HasPath /\ ok /\ FlashFull
       /\ flash' = [state |-> "short", data |-> Zero]
       /\ backup' = None
    \/ /\ ~ok /\ (HasPath => FlashFull)
       /\ UNCHANGED <<flash, backup>>

\* A file of another length than the structure is refused.
readFromFlash == HasPath /\ flash.state = "full"

\* Mutant: the backup is preferred to the RTC memory.
begin_FlashFirst ==
    /\ ~ready /\ ~persisting
    /\ data' = IF readFromFlash THEN flash.data ELSE rtc.data
    /\ ready' = TRUE /\ result' = TRUE
    /\ UNCHANGED <<rtc, flash, persisting, saved, backup>>

\* Mutant: memoryReset() is not called: what was read stays in RAM.
begin_NoReset ==
    /\ ~ready /\ ~rtc.sealed /\ ~readFromFlash
    /\ ready' = TRUE /\ result' = FALSE /\ data' = "noise"
    /\ UNCHANGED <<rtc, flash, persisting, saved, backup>>

\* The data of the RTC memory if the CRC matches, or else the backup, or else
\* zeros, which are written to the backup but not to the RTC memory.
begin ==
    /\ ~ready
    /\ ready' = TRUE
    /\ \/ /\ rtc.sealed
          /\ data' = rtc.data /\ result' = TRUE
          /\ UNCHANGED <<flash, backup>>
       \/ /\ ~rtc.sealed /\ readFromFlash
          /\ data' = flash.data /\ result' = TRUE
          /\ UNCHANGED <<flash, backup>>
       \/ /\ ~rtc.sealed /\ ~readFromFlash
          /\ data' = Zero /\ result' = FALSE
          /\ \E ok \in BOOLEAN : writeToFlash(Zero, ok)
    /\ UNCHANGED <<rtc, persisting, saved>>

beginAgain ==
    /\ ready /\ ~persisting
    /\ result' = TRUE
    /\ UNCHANGED <<ready, data, rtc, flash, persisting, saved, backup>>

\* Not a call: the owner writes through the pointer getData() returned.
assign ==
    /\ ready /\ ~persisting
    /\ data' \in Values
    /\ UNCHANGED <<ready, rtc, flash, persisting, result, saved, backup>>

\* The first half of persist() is a save(); a save() alone ends here.
save ==
    /\ ready /\ ~persisting
    /\ rtc' = [sealed |-> TRUE, data |-> data]
    /\ saved' = Just(data)
    /\ \/ persisting' = TRUE /\ UNCHANGED result
       \/ persisting' = FALSE /\ result' = TRUE
    /\ UNCHANGED <<ready, data, flash, backup>>

persistEnd ==
    /\ persisting
    /\ \E ok \in BOOLEAN : writeToFlash(data, ok) /\ result' = ok
    /\ persisting' = FALSE
    /\ UNCHANGED <<ready, data, rtc, saved>>

\* Every call but begin() refuses to work before begin().
notReady ==
    /\ ~ready
    /\ result' = FALSE
    /\ UNCHANGED <<ready, data, rtc, flash, persisting, saved, backup>>

Forget == ready' = FALSE /\ data' = Zero /\ persisting' = FALSE /\ result' = FALSE

\* A reset keeps the RTC memory; one that falls into save() leaves the words of
\* two versions, whose CRC does not match; a power loss leaves noise.
WarmReset == Forget /\ UNCHANGED <<rtc, flash, saved, backup>>

LoseRtc ==
    /\ Forget
    /\ rtc' = [sealed |-> FALSE, data |-> Zero] /\ saved' = None
    /\ UNCHANGED <<flash, backup>>

RtcNext ==
    \/ begin \/ beginAgain \/ assign \/ save \/ persistEnd \/ notReady
    \/ WarmReset \/ LoseRtc

RtcSpec == RtcInit /\ [][RtcNext]_rvars

-----------------------------------------------------------------------------
\* Every copy of the structure is a whole value: a torn one is never taken over.
RtcTypeOK ==
    /\ ready \in BOOLEAN /\ persisting \in BOOLEAN /\ result \in BOOLEAN
    /\ data \in Values
    /\ rtc \in [sealed : BOOLEAN, data : Values]
    /\ flash \in [state : {"absent", "short", "full"}, data : Values]
    /\ saved \in [some : BOOLEAN, value : Values]
    /\ backup \in [some : BOOLEAN, value : Values]

\* begin() gives back the value of the last save if the RTC memory outlived it,
\* else the last complete backup if there is one, else zeros, and says whether
\* it found anything: never a value that was only assigned, and never an old
\* backup when a newer save survived (rtc_memory.h:14-21).
BeginRecovers ==
    [][~ready /\ ready' =>
         /\ data' = IF saved.some THEN saved.value
                    ELSE IF backup.some THEN backup.value ELSE Zero
         /\ result' = (saved.some \/ backup.some)]_rvars
=============================================================================
