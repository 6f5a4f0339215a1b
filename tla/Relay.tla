------------------------------- MODULE Relay --------------------------------
(* relay.cpp: the schedule task and the two functions that pulse the coil.  *)
EXTENDS Device

\* Mutant: switching on is not followed by a save.
relay_on_Unsaved(data) ==
    /\ contact' = TRUE
    /\ RTCDATA' = [data EXCEPT !.relay_state = TRUE]
    /\ UNCHANGED saving

\* A coil is pulsed only if RTCDATA says that the contact is not there yet;
\* the new position is then written to RAM, and saved by the step that follows.
relay_on(data) ==
    \/ /\ ~data.relay_state
       /\ contact' = TRUE
       /\ RTCDATA' = [data EXCEPT !.relay_state = TRUE]
       /\ saving' = TRUE
    \/ /\ data.relay_state
       /\ RTCDATA' = data
       /\ UNCHANGED <<contact, saving>>

relay_off(data) ==
    \/ /\ data.relay_state
       /\ contact' = FALSE
       /\ RTCDATA' = [data EXCEPT !.relay_state = FALSE]
       /\ saving' = TRUE
    \/ /\ ~data.relay_state
       /\ RTCDATA' = data
       /\ UNCHANGED <<contact, saving>>

\* relay_buf after conf_relay_cron.getBytes(relay_buf, 24): String::getBytes
\* copies one character less than it is given room for and ends with a NUL,
\* so the last hour of the day is never '1'.
relay_buf == [h \in Hours |-> conf.cron[h] /\ h # HOURS - 1]

\* The first iteration of the task is skipped.
RelayFirst ==
    /\ InLoop /\ firstRun
    /\ firstRun' = FALSE
    /\ UNCHANGED <<persistent, memory, alertVars, relayPc, timeVars, restVars>>

\* Mutant: the flag is not looked at.
RelayCheck_Deaf ==
    /\ InLoop /\ ~firstRun
    /\ relayPc' = "noAlarm" /\ alarmFresh' = FALSE
    /\ UNCHANGED <<persistent, memory, alert_status, request, heardClear,
                   firstRun, timeVars, restVars>>

\* Line 64 looks at the alarm flag; both branches print before they go on.
RelayCheck ==
    /\ InLoop /\ ~firstRun
    /\ relayPc' = IF alert_status THEN "alarm" ELSE "noAlarm"
    /\ UNCHANGED <<persistent, memory, alertVars, firstRun, timeVars, restVars>>

\* Mutant: '0' and '1' of the schedule are confused.
RelayHour_Swapped ==
    /\ relayPc = "noAlarm" /\ ~saving
    /\ relayPc' = IF relay_buf[clock] THEN "turnOff" ELSE "turnOn"
    /\ UNCHANGED <<persistent, memory, alertVars, firstRun, timeVars, restVars>>

\* Line 70 looks up the hour, and prints what is going to be done.
RelayHour ==
    /\ relayPc = "noAlarm" /\ ~saving
    /\ relayPc' = IF relay_buf[clock] THEN "turnOn" ELSE "turnOff"
    /\ UNCHANGED <<persistent, memory, alertVars, firstRun, timeVars, restVars>>

RelaySwitch ==
    /\ ~saving
    /\ \/ relayPc = "turnOn" /\ relay_on(RTCDATA) /\ UNCHANGED alarmFresh
       \/ relayPc = "turnOff" /\ relay_off(RTCDATA) /\ UNCHANGED alarmFresh
       \/ relayPc = "alarm" /\ relay_off(RTCDATA) /\ alarmFresh' = FALSE
    /\ relayPc' = "idle"
    /\ UNCHANGED <<rtc, stored, alert_status, request, heardClear, firstRun,
                   timeVars, restVars>>

relay_task_callback == RelayFirst \/ RelayCheck \/ RelayHour \/ RelaySwitch
=============================================================================
