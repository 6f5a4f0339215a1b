---------------------------- MODULE FirmwareProps ---------------------------
(***************************************************************************)
(* What must hold of the firmware, what the documentation promises of it,  *)
(* and the abstract specification of the contact that it implements.       *)
(***************************************************************************)
EXTENDS Firmware

\* Every variable keeps the values its C++ type and the code give it.
TypeOK ==
    /\ rtc \in [sealed : BOOLEAN, data : RTCdata]
    /\ stored \in Settings /\ conf \in Settings
    /\ contact \in BOOLEAN /\ RTCDATA \in RTCdata /\ saving \in BOOLEAN
    /\ phase \in Phases
    /\ wifi_status \in BOOLEAN /\ alert_status \in BOOLEAN
    /\ request \in {"unsent", "open", "done"} \cup Answers
    /\ relayPc \in {"idle", "alarm", "noAlarm", "turnOn", "turnOff"}
    /\ firstRun \in BOOLEAN
    /\ clock \in Hours /\ wall \in Hours /\ synced \in BOOLEAN
    /\ siren \in BOOLEAN
    /\ heardClear \in BOOLEAN /\ alarmFresh \in BOOLEAN /\ safeAsked \in BOOLEAN

\* As long as power stays, no reset falls between a pulse and its save and no
\* update is installed, relay_state tells the position of the contact, in RAM
\* once it is loaded and in RTC memory whenever a reset may read it back: the
\* guards of relay_on and relay_off, which look at nothing else, are then guards
\* on the contact.
MirrorRam == phase # "boot" => (RTCDATA.relay_state <=> contact)
MirrorRtc == ~saving => (contact <=> rtc.sealed /\ rtc.data.relay_state)
Mirror == MirrorRam /\ MirrorRtc

\* Whatever was lost, a running device that believes its contact closed is
\* right: init_relay repairs a relay_off whose save a reset cut off.
BelievedOnIsOn == phase = "loop" /\ RTCDATA.relay_state => contact

\* With the alert check on, the device does not switch on before an answer of
\* this boot has lowered the flag: init_alert raises it, init_relay opens.
OnOnlyAfterAllClear ==
    phase = "loop" /\ conf.alert /\ RTCDATA.relay_state => heardClear

\* A relay run that found the flag up leaves the relay off until the flag has
\* been down: a raised flag that is not new means an open relay, also when
\* the answer that raised it arrived in the middle of a run.
AlarmHonoured == alert_status /\ ~alarmFresh => ~RTCDATA.relay_state

\* The access point starts only to serve a long press that was not served yet,
\* however the device restarted meanwhile (setup clears the flag for good).
SafeModeOnlyByButton == [][phase' = "safe" /\ phase # "safe" => safeAsked]_vars

\* The contact never closes while the flag is up (alert.cpp raises it to
\* prevent just that).
AlarmBlocksSwitchOn == [][contact' /\ ~contact => ~alert_status]_vars

-----------------------------------------------------------------------------
(* Liveness, under FairSpec *)

\* With a network and a lasting siren, the contact of a device that checks for
\* alerts ends up open, whatever answer was under way when the siren started, if
\* from some time on the server reports it or fails (a body without the field
\* counts as an all-clear, one that does not parse is ignored).
SirenOpensContact ==
    <>[](/\ phase = "loop" /\ conf.alert /\ wifi_status /\ siren
         /\ request \notin {"noField", "badJson"}) => <>[]~contact

\* With the network up, polling never stops, whatever the answers are: no
\* answer and no relay run leaves the request in a state that blocks the next.
PollingGoesOn ==
    <>[](phase = "loop" /\ conf.alert /\ wifi_status) => []<>(request = "open")

\* A long press brings the access point up, unless the device restarts again and
\* again: the flag outlives every reset on the way, a formatted file system too.
SafeModeReached == <>[]safeAsked => []<>(phase = "boot")

\* The contact follows the promise of RelayPolicy; outside the loop no
\* decision is taken and the flag is not looked at.
Policy == INSTANCE RelayPolicy WITH
    alarm <- phase = "loop" /\ alert_status,
    due <- phase = "loop" /\ relay_buf[clock],
    decided <- relayPc = "turnOn"

ContactPolicy == Policy!PolicySafety
ContactProgress == Policy!PolicyLiveness

\* The firmware uses its RTC memory as the class allows, without a backup
\* file: whatever resets come in between, RTCDATA starts as it was last saved.
Memory == INSTANCE RtcMemory WITH
    Values <- RTCdata, Zero <- ZeroData, HasPath <- FALSE, FlashFull <- FALSE,
    ready <- phase # "boot", data <- RTCDATA, persisting <- FALSE,
    flash <- [state |-> "absent", data |-> ZeroData],
    result <- phase # "boot" /\ rtc.sealed,
    saved <- [some |-> rtc.sealed, value |-> rtc.data],
    backup <- [some |-> FALSE, value |-> ZeroData]

MemoryContract == Memory!RtcSpec

-----------------------------------------------------------------------------
(* What the README says of the device *)

\* README.md:91 "if, for some reason, there is no access to the alarm API -
\* deactivate the relay".
NoApiOpensContact ==
    <>[](phase = "loop" /\ conf.alert /\ ~wifi_status) => <>[]~contact

\* README.md:90 "check the alarm flag once a minute, and if it is active,
\* immediately turn off the relay".
AlarmTurnsOff == <>[](phase = "loop" /\ alert_status) => <>[]~contact
=============================================================================
