------------------------------ MODULE MCParts -------------------------------
(***************************************************************************)
(* The components whose models share no state, in one instance: a          *)
(* behaviour is one of a single component, named by part, while the others *)
(* stay where they are.                                                    *)
(***************************************************************************)
EXTENDS RtcMemory, Button, Update, FtpPath, FtpClient, Calendar

\* RtcMemory: the zero value and two others: enough to tell the last save, an
\* older backup and an assignment that was not saved from one another.
CONSTANTS v0, v1, v2
MCValues == {v0, v1, v2}

VARIABLE part

Parts == {"rtcMemory", "button", "update", "ftpPath", "ftpClient", "calendar"}

partsVars == <<part, rvars, bvars, uvars, pathVars, cvars, dvars>>

\* An update that is not looked at is not under way.
PartsInit ==
    /\ part \in Parts
    /\ RtcInit /\ ButtonInit /\ UpdateInit /\ PathInit /\ ClientInit /\ CalendarInit
    /\ part # "update" => run = "up"

Rest(p) ==
    /\ UNCHANGED part
    /\ IF p = "rtcMemory" THEN TRUE ELSE UNCHANGED rvars
    /\ IF p = "button" THEN TRUE ELSE UNCHANGED bvars
    /\ IF p = "update" THEN TRUE ELSE UNCHANGED uvars
    /\ IF p = "ftpPath" THEN TRUE ELSE UNCHANGED pathVars
    /\ IF p = "ftpClient" THEN TRUE ELSE UNCHANGED cvars
    /\ IF p = "calendar" THEN TRUE ELSE UNCHANGED dvars

\* The chip is not modelled beyond the last year: there its calendar stops.
PartsNext ==
    \/ part = "rtcMemory" /\ RtcNext /\ Rest("rtcMemory")
    \/ part = "button" /\ ButtonNext /\ Rest("button")
    \/ part = "update" /\ UpdateNext /\ Rest("update")
    \/ part = "ftpPath" /\ PathNext /\ Rest("ftpPath")
    \/ part = "ftpClient" /\ ClientNext /\ Rest("ftpClient")
    \/ part = "calendar" /\ CalendarNext /\ Rest("calendar")

\* The fairness of Update and FtpClient, of the component that runs.
PartsSpec ==
    /\ PartsInit /\ [][PartsNext]_partsVars
    /\ WF_uvars(part = "update" /\ Setup)
    /\ WF_uvars(part = "update" /\ RemoveBin)
    /\ WF_uvars(part = "update" /\ Restart)
    /\ WF_cvars(part = "ftpClient" /\ handleSilence)
    /\ WF_cvars(part = "ftpClient" /\ TransferReturns)
    /\ WF_cvars(part = "ftpClient" /\ TenSeconds)

\* Every component has the values of its types, and no pieces of an update, no
\* running timer and no buffer where the code cannot use them.
PartsTypeOK == RtcTypeOK /\ ButtonTypeOK /\ UpdateTypeOK /\ ClientTypeOK
=============================================================================
