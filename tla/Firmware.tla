------------------------------ MODULE Firmware ------------------------------
(***************************************************************************)
(* main.cpp with the parts it composes: start-up, the loop, the portal's   *)
(* effect on the settings, the button, the clock, and every way the        *)
(* processor restarts.  One pass of the loop runs each due task once, so   *)
(* no task is starved by another (FairSpec).                               *)
(***************************************************************************)
EXTENDS Alert

Init ==
    /\ rtc = Unsealed /\ stored = Factory /\ contact = FALSE
    /\ RTCDATA = ZeroData /\ saving = FALSE
    /\ phase = "boot" /\ conf = Factory
    /\ wifi_status = FALSE /\ alert_status = FALSE /\ request = "unsent"
    /\ relayPc = "idle" /\ firstRun = TRUE
    /\ clock = UTC_OFFSET /\ synced = FALSE
    /\ siren \in BOOLEAN /\ wall \in Hours
    /\ heardClear = FALSE /\ alarmFresh = FALSE /\ safeAsked = FALSE

\* What a reset of the processor does to the globals.
ResetRam ==
    /\ RTCDATA' = ZeroData /\ saving' = FALSE
    /\ phase' = "boot" /\ conf' = Factory
    /\ wifi_status' = FALSE /\ alert_status' = FALSE /\ request' = "unsent"
    /\ relayPc' = "idle" /\ firstRun' = TRUE
    /\ clock' = UTC_OFFSET /\ synced' = FALSE
    /\ heardClear' = FALSE /\ alarmFresh' = FALSE
    /\ UNCHANGED <<stored, contact, siren, wall>>

-----------------------------------------------------------------------------
(* setup() *)

\* Mutant: what the RTC memory holds is not read back.
BeginRtc_Zeroed ==
    /\ phase = "boot" /\ ~saving
    /\ RTCDATA' = ZeroData /\ UNCHANGED <<contact, saving>>
    /\ phase' = "setup"
    /\ UNCHANGED <<rtc, stored, alertVars, relayVars, timeVars, conf,
                   wifi_status, siren, safeAsked>>

\* rtcMemory.begin(): without a valid CRC the structure is zeroed in RAM, and
\* main.cpp (once more) clears safe_mode and calls relay_off on the zeros.
BeginRtc ==
    /\ phase = "boot" /\ ~saving
    /\ IF rtc.sealed
         THEN RTCDATA' = rtc.data /\ UNCHANGED <<contact, saving>>
         ELSE relay_off(ZeroData)
    /\ phase' = "setup"
    /\ UNCHANGED <<rtc, stored, alertVars, relayVars, timeVars, conf,
                   wifi_status, siren, safeAsked>>

\* The file system does not mount: it is formatted, and the device restarts.
FormatFs ==
    /\ "fsLost" \in Faults /\ phase = "setup" /\ ~saving
    /\ stored' = Factory
    /\ phase' = "restart"
    /\ UNCHANGED <<rtc, contact, memory, alertVars, relayVars, timeVars, conf,
                   wifi_status, siren, safeAsked>>

\* Mutant: safe mode is left set for the boots to come.
EnterSafe_Sticky ==
    /\ phase = "setup" /\ ~saving /\ RTCDATA.safe_mode
    /\ conf' = stored
    /\ saving' = TRUE
    /\ phase' = "safe"
    /\ UNCHANGED <<persistent, RTCDATA, alertVars, relayVars, timeVars,
                   wifi_status, siren, safeAsked>>

\* Update.end(): the command for the boot loader is written to the first bytes
\* of the RTC user memory, which rtcMemory uses from its first byte on, so the
\* CRC does not match any more.  Then the device restarts.
Staged ==
    /\ "update" \in Faults
    /\ phase' = "restart"
    /\ rtc' = Unsealed
    /\ UNCHANGED <<stored, contact, memory, alertVars, relayVars, timeVars, conf,
                   wifi_status, siren, safeAsked>>

\* A firmware.bin on the file system is taken before safe_mode is looked at.
UpdateFromFs == phase = "setup" /\ ~saving /\ Staged

\* The settings are read, once.  The safe-mode flag is cleared and saved
\* before the access point's portal, which never returns, starts.
EnterSafe ==
    /\ phase = "setup" /\ ~saving /\ RTCDATA.safe_mode
    /\ conf' = stored
    /\ RTCDATA' = [RTCDATA EXCEPT !.safe_mode = FALSE]
    /\ saving' = TRUE
    /\ phase' = "safe"
    /\ UNCHANGED <<persistent, alertVars, relayVars, timeVars, wifi_status,
                   siren, safeAsked>>

EnterConnect ==
    /\ phase = "setup" /\ ~saving /\ ~RTCDATA.safe_mode
    /\ conf' = stored
    /\ phase' = "connect"
    /\ UNCHANGED <<persistent, memory, alertVars, relayVars, timeVars,
                   wifi_status, siren, safeAsked>>

\* Mutants: the flag starts low; the relay is left as it is.
init_alert_Low == alert_status' = FALSE

init_relay_Skipped == UNCHANGED <<RTCDATA, contact, saving>>

\* connect() waits five seconds at most; then every part is initialised.
\* init_alert raises the flag when the check is on, init_relay opens the relay.
init_alert == alert_status' = conf.alert

init_relay == relay_off(RTCDATA)

ConnectDone ==
    /\ phase = "connect" /\ ~saving
    /\ init_alert
    /\ init_relay
    /\ phase' = "loop"
    /\ UNCHANGED <<rtc, stored, request, heardClear, alarmFresh, relayVars,
                   timeVars, conf, wifi_status, siren, safeAsked>>

WifiHandlers == ~saving /\ phase \in {"connect", "loop", "restart"} /\ Yielding

GotIP ==
    /\ WifiHandlers
    /\ wifi_status' = TRUE
    /\ UNCHANGED <<persistent, memory, alertVars, relayVars, timeVars, phase,
                   conf, siren, safeAsked>>

Disconnected ==
    /\ WifiHandlers /\ wifi_status
    /\ wifi_status' = FALSE
    /\ UNCHANGED <<persistent, memory, alertVars, relayVars, timeVars, phase,
                   conf, siren, safeAsked>>

-----------------------------------------------------------------------------
(* The other tasks of loop() *)

\* timeClient.update() with an answer of the NTP server.
timer_task_callback ==
    /\ InLoop /\ wifi_status
    /\ clock' = wall /\ synced' = TRUE
    /\ UNCHANGED <<persistent, memory, alertVars, relayVars, wall, restVars>>

\* Mutant: the hour does not turn to 0.
HourTick_Endless ==
    /\ wall' = (wall + 1) % HOURS
    /\ clock' = IF phase = "boot" THEN clock ELSE clock + 1
    /\ clock < 2 * HOURS
    /\ UNCHANGED <<persistent, memory, alertVars, relayVars, synced, restVars>>

\* The hour turns, for the world and for the running clock alike.
HourTick ==
    /\ wall' = (wall + 1) % HOURS
    /\ clock' = IF phase = "boot" THEN clock ELSE (clock + 1) % HOURS
    /\ UNCHANGED <<persistent, memory, alertVars, relayVars, synced, restVars>>

\* Mutant: the device restarts without saving the flag.
LongPress_Unsaved ==
    /\ InLoop
    /\ RTCDATA' = [RTCDATA EXCEPT !.safe_mode = TRUE]
    /\ phase' = "restart"
    /\ safeAsked' = TRUE
    /\ UNCHANGED <<persistent, saving, alertVars, relayVars, timeVars, conf,
                   wifi_status, siren>>

\* A long press has just been released: safe mode is asked for, saved, and the
\* device restarts once the save is done.
LongPress ==
    /\ InLoop
    /\ RTCDATA' = [RTCDATA EXCEPT !.safe_mode = TRUE]
    /\ saving' = TRUE
    /\ phase' = "restart"
    /\ safeAsked' = TRUE
    /\ UNCHANGED <<persistent, alertVars, relayVars, timeVars, conf,
                   wifi_status, siren>>

\* POST /portal stores the settings; the globals keep what was read at boot.
Portal == ~saving /\ (phase = "safe" \/ InLoop)

PortalSave ==
    /\ Portal
    /\ stored' \in Settings
    /\ UNCHANGED <<rtc, contact, memory, alertVars, relayVars, timeVars,
                   restVars>>

\* POST /restart, and POST /update when the image is refused.
PortalRestart ==
    /\ Portal
    /\ phase' = "restart"
    /\ UNCHANGED <<persistent, memory, alertVars, relayVars, timeVars, conf,
                   wifi_status, siren, safeAsked>>

\* POST /update with an image that is accepted.
UpdateEnd == Portal /\ Staged

-----------------------------------------------------------------------------
(* Resets *)

\* ESP.restart() takes effect.
Restart ==
    /\ phase = "restart" /\ ~saving
    /\ ResetRam
    /\ UNCHANGED <<rtc, safeAsked>>

\* A watchdog, an exception or the reset pin: RTC memory keeps its content.
WarmReset ==
    /\ "reset" \in Faults /\ ~saving
    /\ ResetRam
    /\ UNCHANGED <<rtc, safeAsked>>

\* The same between a coil pulse, or a change of RTCDATA, and the end of the
\* save: nothing was written, or the CRC and the data do not match.
TornReset ==
    /\ "midSwitch" \in Faults /\ saving
    /\ ResetRam
    /\ rtc' \in {rtc, Unsealed}
    /\ safeAsked' = IF rtc' = Unsealed THEN FALSE ELSE safeAsked

\* Power is lost and returns: RTC memory is lost, the bistable relay is not.
PowerLoss ==
    /\ "powerLoss" \in Faults
    /\ ResetRam
    /\ rtc' = Unsealed
    /\ safeAsked' = FALSE

-----------------------------------------------------------------------------
Setup == BeginRtc \/ FormatFs \/ UpdateFromFs \/ EnterSafe \/ EnterConnect \/ ConnectDone
Network == GotIP \/ Disconnected \/ Serve \/ requestCB
Tasks ==
    \/ alert_task_callback \/ timer_task_callback \/ LongPress
    \/ PortalSave \/ PortalRestart \/ UpdateEnd
Resets == Restart \/ WarmReset \/ TornReset \/ PowerLoss

Next ==
    \/ Setup \/ Network \/ Tasks \/ relay_task_callback \/ Save
    \/ Resets \/ HourTick \/ SirenToggle

Spec == Init /\ [][Next]_vars

\* The scheduler runs every enabled task in each pass, callbacks are delivered
\* when the loop yields, start-up and saves run to their end, and the HTTP
\* client times out.  Nothing makes the hour turn, the siren, the network, the
\* button, the portal or a fault move.
Fairness ==
    /\ WF_vars(Save) /\ WF_vars(BeginRtc) /\ WF_vars(EnterSafe)
    /\ WF_vars(EnterConnect) /\ WF_vars(ConnectDone) /\ WF_vars(Restart)
    /\ SF_vars(relay_task_callback) /\ SF_vars(alert_task_callback)
    /\ WF_vars(Serve) /\ SF_vars(requestCB)

FairSpec == Spec /\ Fairness
=============================================================================
