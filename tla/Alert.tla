------------------------------- MODULE Alert --------------------------------
(* alert.cpp: polling the alert API and acting on its answers.             *)
EXTENDS Relay

\* Mutant: only the first request is ever sent.
alert_task_callback_Once ==
    /\ InLoop /\ conf.alert /\ wifi_status
    /\ request = "unsent"
    /\ request' = "open"
    /\ UNCHANGED <<persistent, memory, alert_status, heardClear, alarmFresh,
                   relayVars, timeVars, restVars>>

\* A poll starts only with a network and no request under way.  The task is
\* enabled only if the alert check was configured when the device started.
alert_task_callback ==
    /\ InLoop /\ conf.alert /\ wifi_status
    /\ request \in {"unsent", "done"}
    /\ request' = "open"
    /\ UNCHANGED <<persistent, memory, alert_status, heardClear, alarmFresh,
                   relayVars, timeVars, restVars>>

\* The server, or the HTTP client that gives up on it, ends a request.
Serve ==
    /\ request = "open"
    /\ request' \in {IF siren THEN "alert" ELSE "clear"} \cup BadAnswers
    /\ UNCHANGED <<persistent, memory, alert_status, heardClear, alarmFresh,
                   relayVars, timeVars, restVars>>

\* Mutant: the flag can only be lowered by an answer, never raised.
Report_Low ==
    /\ alert_status' = FALSE
    /\ request \in {"alert", "clear", "noField"} /\ UNCHANGED <<contact, memory>>

\* A 200 whose body parses: the flag is what it says, and a raised flag
\* switches the relay off at once.  A body without the field counts as FALSE.
Report ==
    \/ /\ request = "alert"
       /\ alert_status' = TRUE
       /\ relay_off(RTCDATA)
    \/ /\ request \in {"clear", "noField"}
       /\ alert_status' = FALSE
       /\ UNCHANGED <<contact, memory>>

\* A 200 whose body does not parse is ignored.
ParseError ==
    /\ request = "badJson"
    /\ UNCHANGED <<alert_status, contact, memory>>

\* Any other code, a lost connection and a timeout raise the flag.
ErrorResponse ==
    /\ request = "error"
    /\ alert_status' = TRUE
    /\ UNCHANGED <<contact, memory>>

requestCB ==
    /\ Yielding /\ phase \in {"loop", "restart"} /\ request \in Answers
    /\ Report \/ ParseError \/ ErrorResponse
    /\ request' = "done"
    /\ heardClear' = IF request \in {"clear", "noField"} THEN TRUE ELSE heardClear
    /\ alarmFresh' = IF alert_status /\ alert_status' THEN alarmFresh ELSE alert_status'
    /\ UNCHANGED <<rtc, stored, relayVars, timeVars, restVars>>

\* The air-raid alarm of the region starts and ends.
SirenToggle ==
    /\ siren' = ~siren
    /\ UNCHANGED <<persistent, memory, alertVars, relayVars, timeVars, phase,
                   conf, wifi_status, safeAsked>>
=============================================================================
