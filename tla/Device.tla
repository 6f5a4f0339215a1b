------------------------------- MODULE Device -------------------------------
(***************************************************************************)
(* The state that the parts of the street-light controller share: what     *)
(* survives a reset (RTC user memory, the settings files, the bistable     *)
(* relay itself), what does not (every global of the program), and the     *)
(* outside world (the siren, the hour, the alert server).                  *)
(***************************************************************************)
EXTENDS Naturals

CONSTANTS
    HOURS,        \* number of hours of a day, 24 in the product
    UTC_OFFSET,   \* conf_utc_offset in hours: the hour an unset clock shows
    Crons,        \* the schedules that may be stored in relay_cron
    BadAnswers,   \* answers of the server that are not an honest report
    Faults,       \* the rare faults of this instance
    DebugClient   \* is a /debug page open, so that print_DEBUG yields?

Hours == 0 .. HOURS - 1

Settings == [alert : BOOLEAN, cron : Crons]

NeverOn == [h \in Hours |-> FALSE]

\* Defaults of the settings main.cpp reads: no alert check, nothing scheduled.
Factory == [alert |-> FALSE, cron |-> NeverOn]

ASSUME HoursAssumption == HOURS \in Nat /\ HOURS >= 1 /\ UTC_OFFSET \in Hours
ASSUME CronsAssumption == Crons \subseteq [Hours -> BOOLEAN] /\ NeverOn \in Crons
ASSUME AnswersAssumption == BadAnswers \subseteq {"noField", "badJson", "error"}
ASSUME FaultsAssumption == Faults \subseteq {"reset", "midSwitch", "powerLoss", "fsLost", "update"}
ASSUME DebugAssumption == DebugClient \in BOOLEAN

VARIABLES
    \* survive a reset of the processor
    rtc,          \* RTC user memory: is its CRC right, and its RTCdata
    stored,       \* the settings files on flash
    contact,      \* the contact of the bistable relay: TRUE when it conducts
    \* globals, zeroed by every reset
    RTCDATA,      \* the RTCdata structure in RAM
    saving,       \* RTCDATA was changed and rtcMemory.save() comes next
    phase,        \* where main.cpp is
    conf,         \* the conf_ globals: settings read at boot
    wifi_status,  \* as in the code
    alert_status, \* as in the code
    request,      \* readyState of the API request, and its answer once there
    relayPc,      \* where relay_task_callback is
    firstRun,     \* RELAY_task.isFirstIteration()
    clock,        \* the hour timeClient.getHours() returns
    synced,       \* has NTP been answered since boot?
    \* the world
    siren,        \* is there an air-raid alarm in the region?
    wall,         \* the local hour
    \* history
    heardClear,   \* an answer lowered the alarm flag since boot
    alarmFresh,   \* the flag rose and no relay run has acted on it yet
    safeAsked     \* a long press whose safe mode is still to come

persistent == <<rtc, stored, contact>>
memory     == <<RTCDATA, saving>>
alertVars  == <<alert_status, request, heardClear, alarmFresh>>
relayVars  == <<relayPc, firstRun>>
timeVars   == <<clock, synced, wall>>
restVars   == <<phase, conf, wifi_status, siren, safeAsked>>

vars == <<persistent, memory, alertVars, relayVars, timeVars, restVars>>

RTCdata == [safe_mode : BOOLEAN, relay_state : BOOLEAN]

\* What memoryReset leaves, and what an RTC memory without a valid CRC is worth.
ZeroData == [safe_mode |-> FALSE, relay_state |-> FALSE]
Unsealed == [sealed |-> FALSE, data |-> ZeroData]

Phases == {"boot", "setup", "safe", "connect", "loop", "restart"}

Answers == {"alert", "clear"} \cup BadAnswers

(***************************************************************************)
(* The firmware has one stack.  The loop runs a task to its end; callbacks *)
(* of the network stack run when the loop yields.  Between tasks it always *)
(* does; inside the relay task only print_DEBUG can, when it sends its     *)
(* text to a /debug client.                                                *)
(***************************************************************************)
InLoop == phase = "loop" /\ relayPc = "idle" /\ ~saving

Yielding == ~saving /\ (relayPc = "idle" \/ (DebugClient /\ wifi_status))

\* rtcMemory.save(): RAM is written to RTC memory under a fresh CRC.
Save ==
    /\ saving
    /\ rtc' = [sealed |-> TRUE, data |-> RTCDATA]
    /\ saving' = FALSE
    /\ safeAsked' = IF phase = "safe" THEN FALSE ELSE safeAsked
    /\ UNCHANGED <<stored, contact, RTCDATA, alertVars, relayVars, timeVars,
                   phase, conf, wifi_status, siren>>
=============================================================================
