------------------------------- MODULE Update -------------------------------
(***************************************************************************)
(* How a new firmware gets into the device: by POST /update, whose pieces  *)
(* go to the global Update while callbacks may still run, or by a          *)
(* firmware.bin that setup() finds.  Both leave a command for the boot     *)
(* loader in the memory where rtcMemory keeps its data, and the next reset *)
(* obeys it.  What the rest of the program does is in module Firmware;     *)
(* here it starts, saves RTCDATA, stores files and restarts.               *)
(***************************************************************************)
CONSTANT UpdateFaults   \* the rare faults of this instance

ASSUME UpdateFaultsAssumption == UpdateFaults \subseteq {"reset", "powerLoss", "fsLost"}

VARIABLES
    run,        \* where main.cpp is; "up": in the loop or in the portal
    image,      \* the program in flash
    rtcUser,    \* RTC user memory: RTCDATA under its CRC, the command to
                \* install an image, or neither
    updater,    \* the global Update: "idle", or what it has taken so far
    uploading,  \* a POST /update is under way
    bin,        \* /firmware.bin: "absent", a "part" of an image or the "whole"
    removing,   \* firmware.bin was installed and is to be removed
    promised,   \* history: "OK" was answered and no reset came since
    spliced     \* history: an upload began over the rest of another one, or
                \* a firmware.bin was left incomplete

flashVars  == <<image, bin>>
uploadVars == <<updater, uploading>>
uhistory   == <<promised, spliced>>
uvars      == <<run, flashVars, rtcUser, uploadVars, removing, uhistory>>

Images == {"old", "new", "broken"}
Commands == {"new", "broken"}

UpdateInit ==
    /\ run \in {"boot", "up"} /\ image = "old" /\ rtcUser = "noise"
    /\ updater = "idle" /\ uploading = FALSE
    /\ bin = "absent" /\ removing = FALSE
    /\ promised = FALSE /\ spliced = FALSE

-----------------------------------------------------------------------------
(* POST /update.  handleClient() does not return before the upload ends, so  *)
(* no task runs meanwhile; callbacks do, when the handler yields.            *)

\* Update.begin(): a rest is not discarded, the pieces to come are appended.
UploadStart ==
    /\ run = "up" /\ ~uploading
    /\ uploading' = TRUE
    /\ \/ updater = "idle" /\ updater' \in {"idle", "empty"} /\ UNCHANGED spliced
       \/ updater = "empty" /\ UNCHANGED <<updater, spliced>>
       \/ updater \in {"part", "whole", "mixed"} /\ updater' = "mixed" /\ spliced' = TRUE
    /\ UNCHANGED <<run, flashVars, rtcUser, removing, promised>>

UploadPiece ==
    /\ uploading /\ updater \in {"empty", "part"}
    /\ updater' \in {"part", "whole"}
    /\ UNCHANGED <<run, flashVars, rtcUser, uploading, removing, uhistory>>

\* Mutant: no restart follows.
UploadEnd_Stays ==
    /\ uploading /\ updater \in {"whole", "mixed"}
    /\ rtcUser' = IF updater = "whole" THEN "new" ELSE "broken"
    /\ promised' = TRUE /\ updater' = "idle" /\ uploading' = FALSE
    /\ UNCHANGED <<run, flashVars, removing, spliced>>

\* Update.end(true) looks at the first byte of the image only; the command goes
\* to the first bytes of the RTC user memory, which rtcMemory uses too.
UploadEnd ==
    /\ uploading /\ updater \in {"whole", "mixed"}
    /\ rtcUser' = IF updater = "whole" THEN "new" ELSE "broken"
    /\ run' = "restart" /\ promised' = TRUE
    /\ updater' = "idle" /\ uploading' = FALSE
    /\ UNCHANGED <<flashVars, removing, spliced>>

\* No room, a write that failed or no image at all: "FAIL", and a restart.
UploadRefused ==
    /\ uploading /\ updater # "part"
    /\ run' = "restart"
    /\ updater' = "idle" /\ uploading' = FALSE
    /\ UNCHANGED <<flashVars, rtcUser, removing, uhistory>>

\* Mutant: whatever ends an upload ends the update.
UploadAborted_Ends ==
    /\ uploading /\ updater # "idle"
    /\ rtcUser' = IF updater = "whole" THEN "new" ELSE "broken"
    /\ updater' = "idle" /\ uploading' = FALSE
    /\ UNCHANGED <<run, flashVars, removing, uhistory>>

\* The client leaves: no branch of the handler is for that.
UploadAborted ==
    /\ uploading /\ uploading' = FALSE
    /\ UNCHANGED <<run, flashVars, rtcUser, updater, removing, uhistory>>

-----------------------------------------------------------------------------
(* firmware.bin *)

\* FTP or the file manager stores it, in whole or in part, or removes it.
StoreBin ==
    /\ run = "up" /\ ~uploading
    /\ bin' \in {"absent", "part", "whole"}
    /\ spliced' = (spliced \/ bin' = "part")
    /\ UNCHANGED <<run, image, rtcUser, uploadVars, removing, promised>>

\* The update has the size of the file, whatever that is.
TakeBin ==
    /\ run = "setup" /\ bin # "absent"
    /\ rtcUser' = IF bin = "whole" THEN "new" ELSE "broken"
    /\ run' = "restart" /\ removing' = TRUE
    /\ UNCHANGED <<flashVars, uploadVars, uhistory>>

\* Mutant: it is not removed.
RemoveBin_Forgotten ==
    /\ removing /\ removing' = FALSE
    /\ UNCHANGED <<run, flashVars, rtcUser, uploadVars, uhistory>>

RemoveBin ==
    /\ removing /\ removing' = FALSE
    /\ bin' = "absent"
    /\ UNCHANGED <<run, image, rtcUser, uploadVars, uhistory>>

\* No room, or no image: the file is removed and the start goes on.
RefuseBin ==
    /\ run = "setup" /\ bin # "absent"
    /\ bin' = "absent"
    /\ UNCHANGED <<run, image, rtcUser, uploadVars, removing, uhistory>>

-----------------------------------------------------------------------------
(* The rest of the program *)

\* An image that cannot run does none of this.
BeginSetup ==
    /\ run = "boot" /\ image # "broken"
    /\ run' = "setup"
    /\ UNCHANGED <<flashVars, rtcUser, uploadVars, removing, uhistory>>

FormatFs ==
    /\ "fsLost" \in UpdateFaults
    /\ run = "setup"
    /\ run' = "restart" /\ bin' = "absent"
    /\ UNCHANGED <<image, rtcUser, uploadVars, removing, uhistory>>

EndSetup ==
    /\ run = "setup" /\ bin = "absent"
    /\ run' = "up"
    /\ UNCHANGED <<flashVars, rtcUser, uploadVars, removing, uhistory>>

\* rtcMemory.save(), by a task, by the start of safe mode or by an answer of the
\* alarm API that opens the relay: that may come within an upload and after it,
\* as long as the restart takes.
SaveData ==
    /\ run = "up" \/ (run = "restart" /\ ~removing)
    /\ rtcUser' = "data"
    /\ UNCHANGED <<run, flashVars, uploadVars, removing, uhistory>>

\* A long press, or POST /restart.
AskRestart ==
    /\ run = "up" /\ ~uploading
    /\ run' = "restart"
    /\ UNCHANGED <<flashVars, rtcUser, uploadVars, removing, uhistory>>

\* The boot loader looks at the RTC memory before the program does, and clears
\* the command it has obeyed.
Reset(memory) ==
    /\ image' = IF memory \in Commands THEN memory ELSE image
    /\ rtcUser' = IF memory \in Commands THEN "noise" ELSE memory
    /\ run' = "boot"
    /\ updater' = "idle" /\ uploading' = FALSE
    /\ removing' = FALSE /\ promised' = FALSE
    /\ UNCHANGED <<bin, spliced>>

Restart == run = "restart" /\ ~removing /\ Reset(rtcUser)

\* A watchdog, an exception or the reset pin, perhaps within a save.
CrashReset == "reset" \in UpdateFaults /\ \E m \in {rtcUser, "noise"} : Reset(m)

LosePower == "powerLoss" \in UpdateFaults /\ Reset("noise")

Setup == BeginSetup \/ FormatFs \/ TakeBin \/ RefuseBin \/ EndSetup

UpdateNext ==
    \/ UploadStart \/ UploadPiece \/ UploadEnd \/ UploadRefused \/ UploadAborted
    \/ StoreBin \/ SaveData \/ AskRestart
    \/ Setup \/ RemoveBin \/ Restart \/ CrashReset \/ LosePower

UpdateSpec == UpdateInit /\ [][UpdateNext]_uvars

\* setup() and a restart run to their end; nothing else has to happen.
UpdateFairness == WF_uvars(Setup) /\ WF_uvars(RemoveBin) /\ WF_uvars(Restart)

FairUpdate == UpdateSpec /\ UpdateFairness

-----------------------------------------------------------------------------
\* With it, where an update can be under way: pieces only while pages are served,
\* a promise or a file to be removed only before a restart.
UpdateTypeOK ==
    /\ run \in {"boot", "setup", "up", "restart"}
    /\ image \in Images /\ rtcUser \in {"data", "noise"} \cup Commands
    /\ updater \in {"idle", "empty", "part", "whole", "mixed"}
    /\ uploading \in BOOLEAN
    /\ bin \in {"absent", "part", "whole"}
    /\ removing \in BOOLEAN /\ promised \in BOOLEAN /\ spliced \in BOOLEAN
    /\ uploading \/ updater # "idle" => run \in {"up", "restart"}
    /\ promised \/ removing => run = "restart"

\* An image that cannot run gets into the flash only by an upload over the rest
\* of an aborted one, or by an incomplete firmware.bin: no reset within an upload,
\* no aborted upload by itself and no lost command does it (WiFiSettings.cpp:310,
\* main.cpp:74).
WholeImages == "broken" \in {image, rtcUser} => spliced

\* Unless faults come again and again, the device does not go on restarting: a
\* firmware.bin is installed or refused, wherever a reset fell between its
\* installation and its removal, and the start then comes to its end.
BootEnds ==
    <>[][Restart \/ ~(CrashReset \/ LosePower \/ FormatFs)]_uvars
        => []<>(run = "up" \/ image = "broken")

\* WiFiSettings.cpp:299 answers "OK" and :319 prints "Update Success": what was
\* reported is what the restart starts.
OkMeansInstalled == [][promised /\ Restart => image' = "new"]_uvars
=============================================================================
