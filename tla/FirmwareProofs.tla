--------------------------- MODULE FirmwareProofs ---------------------------
(***************************************************************************)
(* Proofs about the firmware, for every number of hours, every set of      *)
(* schedules and, where a theorem does not say otherwise, every fault.     *)
(***************************************************************************)
EXTENDS FirmwareProps, TLAPS

USE DEF persistent, memory, alertVars, relayVars, timeVars, restVars

\* An assignment to a field of RTCdata keeps its type.
LEMMA FieldTypes ==
    ASSUME NEW d \in RTCdata, NEW b \in BOOLEAN
    PROVE  /\ [d EXCEPT !.relay_state = b] \in RTCdata
           /\ [d EXCEPT !.safe_mode = b] \in RTCdata
BY DEF RTCdata

\* The first values of the globals have the types of the variables.
LEMMA FirstTypes ==
    /\ ZeroData \in RTCdata
    /\ Unsealed \in [sealed : BOOLEAN, data : RTCdata]
    /\ Factory \in Settings
    /\ UTC_OFFSET \in Hours
<1>1. ZeroData \in RTCdata
  BY DEF ZeroData, RTCdata
<1>2. Unsealed \in [sealed : BOOLEAN, data : RTCdata]
  BY <1>1 DEF Unsealed
<1>3. Factory \in Settings
  <2>1. NeverOn \in Crons
    BY CronsAssumption
  <2> QED BY <2>1 DEF Factory, Settings
<1> QED BY <1>1, <1>2, <1>3, HoursAssumption

\* The two functions that pulse a coil.
LEMMA SwitchTypes ==
    ASSUME NEW d \in RTCdata, contact \in BOOLEAN, saving \in BOOLEAN,
           relay_on(d) \/ relay_off(d)
    PROVE  contact' \in BOOLEAN /\ saving' \in BOOLEAN /\ RTCDATA' \in RTCdata
BY FieldTypes DEF relay_on, relay_off

\* Start-up keeps the types.
LEMMA SetupTypes == ASSUME TypeOK, Setup PROVE TypeOK'
<1>1. CASE BeginRtc
  <2>1. RTCDATA' \in RTCdata /\ contact' \in BOOLEAN /\ saving' \in BOOLEAN
    <3>1. CASE rtc.sealed
      BY <1>1, <3>1 DEF BeginRtc, TypeOK
    <3>2. CASE ~rtc.sealed
      BY <1>1, <3>2, SwitchTypes, FirstTypes DEF BeginRtc, TypeOK
    <3> QED BY <3>1, <3>2
  <2>2. phase' \in Phases
    BY <1>1 DEF BeginRtc, Phases
  <2>3. UNCHANGED <<rtc, stored, alertVars, relayVars, timeVars, conf,
                    wifi_status, siren, safeAsked>>
    BY <1>1 DEF BeginRtc
  <2> QED BY <2>1, <2>2, <2>3 DEF TypeOK
<1>2. CASE FormatFs
  BY <1>2, FirstTypes DEF FormatFs, Phases, TypeOK
<1>3. CASE EnterSafe
  <2>1. RTCDATA' \in RTCdata /\ conf' \in Settings
    BY <1>3, FieldTypes DEF EnterSafe, TypeOK
  <2>2. saving' = TRUE /\ phase' \in Phases
    BY <1>3 DEF EnterSafe, Phases
  <2>3. UNCHANGED <<persistent, alertVars, relayVars, timeVars, wifi_status,
                    siren, safeAsked>>
    BY <1>3 DEF EnterSafe
  <2> QED BY <2>1, <2>2, <2>3 DEF TypeOK
<1>4. CASE EnterConnect
  BY <1>4 DEF EnterConnect, Phases, TypeOK
<1>5. CASE ConnectDone
  <2>1. alert_status' \in BOOLEAN
    BY <1>5 DEF ConnectDone, init_alert, TypeOK, Settings
  <2>2. RTCDATA' \in RTCdata /\ contact' \in BOOLEAN /\ saving' \in BOOLEAN
    BY <1>5, SwitchTypes DEF ConnectDone, init_relay, TypeOK
  <2> QED BY <1>5, <2>1, <2>2 DEF ConnectDone, Phases, TypeOK
<1>6. CASE UpdateFromFs
  BY <1>6, FirstTypes DEF UpdateFromFs, Staged, Phases, TypeOK
<1> QED BY <1>1, <1>2, <1>3, <1>4, <1>5, <1>6 DEF Setup

\* An answer of the alert API keeps the types.
LEMMA AnswerTypes == ASSUME TypeOK, requestCB PROVE TypeOK'
<1>1. /\ alert_status' \in BOOLEAN /\ heardClear' \in BOOLEAN
      /\ alarmFresh' \in BOOLEAN
  BY DEF requestCB, Report, ParseError, ErrorResponse, TypeOK
<1>2. contact' \in BOOLEAN /\ saving' \in BOOLEAN /\ RTCDATA' \in RTCdata
  BY SwitchTypes DEF requestCB, Report, ParseError, ErrorResponse, TypeOK
<1> QED BY <1>1, <1>2 DEF requestCB, TypeOK

\* A step of the relay task keeps the types.
LEMMA RelayTypes == ASSUME TypeOK, relay_task_callback PROVE TypeOK'
<1>1. CASE RelayFirst
  <2>1. firstRun' \in BOOLEAN
    BY <1>1 DEF RelayFirst
  <2>2. UNCHANGED <<persistent, memory, alertVars, relayPc, timeVars, restVars>>
    BY <1>1 DEF RelayFirst
  <2> QED BY <2>1, <2>2 DEF TypeOK
<1>2. CASE RelayCheck
  BY <1>2 DEF RelayCheck, TypeOK
<1>3. CASE RelayHour
  BY <1>3 DEF RelayHour, TypeOK
<1>4. CASE RelaySwitch
  <2>1. contact' \in BOOLEAN /\ saving' \in BOOLEAN /\ RTCDATA' \in RTCdata
    BY <1>4, SwitchTypes DEF RelaySwitch, TypeOK
  <2>2. alarmFresh' \in BOOLEAN /\ relayPc' = "idle"
    BY <1>4 DEF RelaySwitch, TypeOK
  <2>3. UNCHANGED <<rtc, stored, alert_status, request, heardClear, firstRun,
                    timeVars, restVars>>
    BY <1>4 DEF RelaySwitch
  <2> QED BY <2>1, <2>2, <2>3 DEF TypeOK
<1> QED BY <1>1, <1>2, <1>3, <1>4 DEF relay_task_callback

\* A reset gives every global its first value, whatever RTC memory keeps.
LEMMA ResetTypes == ASSUME TypeOK, Resets PROVE TypeOK'
<1>1. ResetRam
  BY DEF Resets, Restart, WarmReset, TornReset, PowerLoss
<1>2. rtc' \in {rtc, Unsealed} /\ safeAsked' \in {safeAsked, FALSE}
  BY DEF Resets, Restart, WarmReset, TornReset, PowerLoss
<1>3. rtc' \in [sealed : BOOLEAN, data : RTCdata] /\ safeAsked' \in BOOLEAN
  BY <1>2, FirstTypes DEF TypeOK
<1>4. RTCDATA' \in RTCdata /\ conf' \in Settings /\ clock' \in Hours
  BY <1>1, FirstTypes DEF ResetRam
<1>5. /\ phase' \in Phases /\ relayPc' = "idle" /\ request' = "unsent"
      /\ saving' = FALSE /\ wifi_status' = FALSE /\ firstRun' = TRUE
      /\ alert_status' = FALSE /\ synced' = FALSE
      /\ heardClear' = FALSE /\ alarmFresh' = FALSE
  BY <1>1 DEF ResetRam, Phases
<1>6. UNCHANGED <<stored, contact, siren, wall>>
  BY <1>1 DEF ResetRam
<1> QED BY <1>3, <1>4, <1>5, <1>6 DEF TypeOK

\* Every step, of every actor and every fault, keeps the types.
LEMMA TypeStep == ASSUME TypeOK, Next PROVE TypeOK'
<1>1. CASE Network
  <2>1. CASE GotIP
    BY <2>1 DEF GotIP, TypeOK
  <2>2. CASE Disconnected
    <3>1. wifi_status' \in BOOLEAN
      BY <2>2 DEF Disconnected
    <3>2. UNCHANGED <<persistent, memory, alertVars, relayVars, timeVars, phase,
                      conf, siren, safeAsked>>
      BY <2>2 DEF Disconnected
    <3> QED BY <3>1, <3>2 DEF TypeOK
  <2>3. CASE Serve
    BY <2>3 DEF Serve, Answers, TypeOK
  <2> QED BY <1>1, <2>1, <2>2, <2>3, AnswerTypes DEF Network
<1>2. CASE Tasks
  <2>1. CASE alert_task_callback
    BY <2>1 DEF alert_task_callback, TypeOK
  <2>2. CASE timer_task_callback
    BY <2>2 DEF timer_task_callback, TypeOK
  <2>3. CASE LongPress
    <3>1. RTCDATA' \in RTCdata
      BY <2>3, FieldTypes DEF LongPress, TypeOK
    <3>2. saving' = TRUE /\ phase' \in Phases /\ safeAsked' = TRUE
      BY <2>3 DEF LongPress, Phases
    <3>3. UNCHANGED <<persistent, alertVars, relayVars, timeVars, conf,
                      wifi_status, siren>>
      BY <2>3 DEF LongPress
    <3> QED BY <3>1, <3>2, <3>3 DEF TypeOK
  <2>4. CASE PortalSave
    BY <2>4 DEF PortalSave, TypeOK
  <2>5. CASE PortalRestart
    BY <2>5 DEF PortalRestart, Phases, TypeOK
  <2>6. CASE UpdateEnd
    BY <2>6, FirstTypes DEF UpdateEnd, Staged, Phases, TypeOK
  <2> QED BY <1>2, <2>1, <2>2, <2>3, <2>4, <2>5, <2>6 DEF Tasks
<1>3. CASE Save
  <2>1. rtc' \in [sealed : BOOLEAN, data : RTCdata]
    BY <1>3 DEF Save, TypeOK
  <2>2. saving' \in BOOLEAN /\ safeAsked' \in BOOLEAN
    BY <1>3 DEF Save, TypeOK
  <2>3. UNCHANGED <<stored, contact, RTCDATA, alertVars, relayVars, timeVars,
                    phase, conf, wifi_status, siren>>
    BY <1>3 DEF Save
  <2> QED BY <2>1, <2>2, <2>3 DEF TypeOK
<1>4. CASE HourTick
  <2>1. \A h \in Hours : (h + 1) % HOURS \in Hours
    BY HoursAssumption DEF Hours
  <2>2. wall' \in Hours /\ clock' \in Hours
    BY <1>4, <2>1 DEF HourTick, TypeOK
  <2> QED BY <1>4, <2>2 DEF HourTick, TypeOK
<1>5. CASE SirenToggle
  BY <1>5 DEF SirenToggle, TypeOK
<1> QED BY <1>1, <1>2, <1>3, <1>4, <1>5, SetupTypes, RelayTypes, ResetTypes DEF Next

\* Type correctness of the firmware.
THEOREM TypeCorrect == Spec => []TypeOK
<1>1. Init => TypeOK
  BY FirstTypes DEF Init, TypeOK, Phases
<1>2. TypeOK /\ [Next]_vars => TypeOK'
  <2>1. ASSUME TypeOK, UNCHANGED vars PROVE TypeOK'
    BY <2>1 DEF vars, TypeOK
  <2> QED BY <2>1, TypeStep
<1> QED BY <1>1, <1>2, PTL DEF Spec

-----------------------------------------------------------------------------
(* Safety: each invariant with the strengthening that makes it inductive.   *)

\* The steps that no safety invariant below can notice.
Quiet == UNCHANGED <<rtc, contact, RTCDATA, saving, phase, conf, alert_status,
                     heardClear, alarmFresh, relayPc, safeAsked>>

\* The steps it can notice, one by one.
Moves ==
    \/ BeginRtc \/ FormatFs \/ EnterSafe \/ EnterConnect \/ ConnectDone
    \/ requestCB \/ RelayCheck \/ RelayHour \/ RelaySwitch \/ Save
    \/ LongPress \/ PortalRestart \/ UpdateFromFs \/ UpdateEnd \/ Resets

\* An update, seen by the invariants.
LEMMA UpdateFields ==
    ASSUME UpdateFromFs \/ UpdateEnd
    PROVE  /\ "update" \in Faults /\ ~saving
           /\ phase \in {"setup", "safe", "loop"}
           /\ phase # "setup" => phase = "safe" \/ InLoop
           /\ phase' = "restart" /\ rtc' = Unsealed
           /\ UNCHANGED <<contact, memory, alertVars, relayVars, conf, safeAsked>>
BY DEF UpdateFromFs, UpdateEnd, Staged, Portal, InLoop

LEMMA QuietOrMoves == ASSUME [Next]_vars PROVE Quiet \/ Moves
<1> USE DEF Quiet
<1>1. CASE UNCHANGED vars
  BY <1>1 DEF vars
<1>2. CASE GotIP \/ Disconnected \/ Serve
  BY <1>2 DEF GotIP, Disconnected, Serve
<1>3. CASE alert_task_callback \/ timer_task_callback \/ PortalSave
  BY <1>3 DEF alert_task_callback, timer_task_callback, PortalSave
<1>4. CASE HourTick \/ SirenToggle \/ RelayFirst
  BY <1>4 DEF HourTick, SirenToggle, RelayFirst
<1>5. CASE Moves
  BY <1>5
<1> QED BY <1>1, <1>2, <1>3, <1>4, <1>5
        DEF Next, Setup, Network, Tasks, relay_task_callback, Moves

\* What the two switching functions do to the fields of RTCDATA.
LEMMA SwitchFields ==
    ASSUME NEW d \in RTCdata
    PROVE  /\ relay_off(d) => /\ RTCDATA'.relay_state = FALSE
                              /\ RTCDATA'.safe_mode = d.safe_mode
                              /\ d.relay_state => contact' = FALSE /\ saving' = TRUE
                              /\ ~d.relay_state => UNCHANGED <<contact, saving>>
           /\ relay_on(d) => /\ RTCDATA'.relay_state = TRUE
                             /\ RTCDATA'.safe_mode = d.safe_mode
                             /\ ~d.relay_state => contact' = TRUE /\ saving' = TRUE
                             /\ d.relay_state => UNCHANGED <<contact, saving>>
BY DEF relay_on, relay_off, RTCdata

LEMMA SafeModeField ==
    ASSUME NEW d \in RTCdata, NEW b \in BOOLEAN
    PROVE  /\ [d EXCEPT !.safe_mode = b].relay_state = d.relay_state
           /\ [d EXCEPT !.safe_mode = b].safe_mode = b
BY DEF RTCdata

\* A reset, seen by the invariants.
LEMMA ResetFields ==
    ASSUME Resets
    PROVE  /\ phase' = "boot" /\ relayPc' = "idle" /\ alert_status' = FALSE
           /\ RTCDATA' = ZeroData /\ saving' = FALSE /\ UNCHANGED contact
           /\ rtc' \in {rtc, Unsealed}
           /\ rtc' = Unsealed \/ safeAsked' = safeAsked
BY DEF Resets, Restart, WarmReset, TornReset, PowerLoss, ResetRam

\* An answer of the API, seen by the invariants: an alert, an all-clear, or an
\* answer that leaves the flag alone or raises it.
LEMMA AnswerEffect ==
    ASSUME requestCB
    PROVE  /\ phase \in {"loop", "restart"} /\ ~saving
           /\ UNCHANGED <<rtc, phase, conf, relayPc, safeAsked>>
           /\ \/ /\ relay_off(RTCDATA)
                 /\ alert_status' = TRUE /\ UNCHANGED heardClear
              \/ /\ UNCHANGED <<contact, RTCDATA, saving>>
                 /\ alert_status' = FALSE /\ heardClear' = TRUE
              \/ /\ UNCHANGED <<contact, RTCDATA, saving, heardClear>>
                 /\ alert_status' \in {alert_status, TRUE}
           /\ alarmFresh' = IF alert_status /\ alert_status' THEN alarmFresh
                            ELSE alert_status'
<1>1. /\ phase \in {"loop", "restart"} /\ ~saving
      /\ UNCHANGED <<rtc, phase, conf, relayPc, safeAsked>>
  BY DEF requestCB, Yielding
<1>2. CASE request = "alert"
  BY <1>1, <1>2 DEF requestCB, Report, ParseError, ErrorResponse
<1>3. CASE request \in {"clear", "noField"}
  BY <1>1, <1>3 DEF requestCB, Report, ParseError, ErrorResponse
<1>4. CASE request \in {"badJson", "error"}
  BY <1>1, <1>4 DEF requestCB, Report, ParseError, ErrorResponse
<1> QED BY <1>2, <1>3, <1>4 DEF requestCB, Report, ParseError, ErrorResponse

\* The relay task runs in the loop only.
TaskInLoop == relayPc # "idle" => phase = "loop"

LEMMA TaskInLoopStep == ASSUME TypeOK, TaskInLoop, [Next]_vars PROVE TaskInLoop'
<1>1. CASE Quiet
  BY <1>1 DEF Quiet, TaskInLoop
<1>2. CASE BeginRtc \/ FormatFs \/ EnterSafe \/ EnterConnect \/ ConnectDone
  BY <1>2 DEF BeginRtc, FormatFs, EnterSafe, EnterConnect, ConnectDone, TaskInLoop
<1>3. CASE requestCB \/ Save
  BY <1>3 DEF requestCB, Save, TaskInLoop
<1>4. CASE RelayCheck \/ RelayHour \/ RelaySwitch
  BY <1>4 DEF RelayCheck, RelayHour, RelaySwitch, InLoop, TaskInLoop
<1>5. CASE LongPress \/ PortalRestart
  BY <1>5 DEF LongPress, PortalRestart, Portal, InLoop, TaskInLoop
<1>6. CASE Resets
  BY <1>6, ResetFields DEF TaskInLoop
<1>7. CASE UpdateFromFs \/ UpdateEnd
  BY <1>7, UpdateFields DEF InLoop, TaskInLoop
<1> QED BY <1>1, <1>2, <1>3, <1>4, <1>5, <1>6, <1>7, QuietOrMoves DEF Moves

\* BelievedOnIsOn is inductive: init_relay leaves no belief, and from then on
\* every pulse moves the contact and the belief together.
LEMMA BelievedStep == ASSUME TypeOK, BelievedOnIsOn, [Next]_vars PROVE BelievedOnIsOn'
<1>0. RTCDATA \in RTCdata
  BY DEF TypeOK
<1>1. CASE Quiet
  BY <1>1 DEF Quiet, BelievedOnIsOn
<1>2. CASE BeginRtc \/ FormatFs \/ EnterSafe \/ EnterConnect
  BY <1>2 DEF BeginRtc, FormatFs, EnterSafe, EnterConnect, BelievedOnIsOn
<1>3. CASE ConnectDone
  BY <1>0, <1>3, SwitchFields DEF ConnectDone, init_relay, BelievedOnIsOn
<1>4. CASE requestCB
  BY <1>0, <1>4, SwitchFields, AnswerEffect DEF BelievedOnIsOn
<1>5. CASE RelayCheck \/ RelayHour \/ Save
  BY <1>5 DEF RelayCheck, RelayHour, Save, BelievedOnIsOn
<1>6. CASE RelaySwitch
  BY <1>0, <1>6, SwitchFields DEF RelaySwitch, BelievedOnIsOn
<1>7. CASE LongPress \/ PortalRestart
  BY <1>7 DEF LongPress, PortalRestart, BelievedOnIsOn
<1>8. CASE Resets
  BY <1>8, ResetFields DEF BelievedOnIsOn
<1>9. CASE UpdateFromFs \/ UpdateEnd
  BY <1>9, UpdateFields DEF BelievedOnIsOn
<1> QED BY <1>1, <1>2, <1>3, <1>4, <1>5, <1>6, <1>7, <1>8, <1>9, QuietOrMoves DEF Moves

\* A running device that believes its contact closed is right.
THEOREM BeliefIsRight == Spec => []BelievedOnIsOn
<1>1. Init => BelievedOnIsOn
  BY DEF Init, BelievedOnIsOn
<1>2. TypeOK /\ BelievedOnIsOn /\ [Next]_vars => BelievedOnIsOn'
  BY BelievedStep
<1> QED BY <1>1, <1>2, TypeCorrect, PTL DEF Spec

\* Until an answer has lowered the flag, the flag is up, the relay task has not
\* passed its check, and the relay is believed open.
NotYetClear ==
    phase = "loop" /\ conf.alert /\ ~heardClear =>
        /\ alert_status
        /\ relayPc \in {"idle", "alarm"}
        /\ ~RTCDATA.relay_state

LEMMA NotYetClearStep ==
    ASSUME TypeOK, TaskInLoop, NotYetClear, [Next]_vars PROVE NotYetClear'
<1>0. RTCDATA \in RTCdata
  BY DEF TypeOK
<1>1. CASE Quiet
  BY <1>1 DEF Quiet, NotYetClear
<1>2. CASE BeginRtc \/ FormatFs \/ EnterSafe \/ EnterConnect
  BY <1>2 DEF BeginRtc, FormatFs, EnterSafe, EnterConnect, NotYetClear
<1>3. CASE ConnectDone
  BY <1>0, <1>3, SwitchFields
     DEF ConnectDone, init_alert, init_relay, TaskInLoop, NotYetClear
<1>4. CASE requestCB
  BY <1>0, <1>4, SwitchFields, AnswerEffect DEF NotYetClear
<1>5. CASE RelayCheck \/ RelayHour \/ Save
  BY <1>5 DEF RelayCheck, RelayHour, Save, NotYetClear
<1>6. CASE RelaySwitch
  BY <1>0, <1>6, SwitchFields DEF RelaySwitch, NotYetClear
<1>7. CASE LongPress \/ PortalRestart
  BY <1>7 DEF LongPress, PortalRestart, NotYetClear
<1>8. CASE Resets
  BY <1>8, ResetFields DEF NotYetClear
<1>9. CASE UpdateFromFs \/ UpdateEnd
  BY <1>9, UpdateFields DEF NotYetClear
<1> QED BY <1>1, <1>2, <1>3, <1>4, <1>5, <1>6, <1>7, <1>8, <1>9, QuietOrMoves DEF Moves

\* With the alert check on, the device is not switched on before an answer of
\* the API has lowered the flag in this boot.
THEOREM AllClearFirst == Spec => []OnOnlyAfterAllClear
<1>1. Init => TaskInLoop /\ NotYetClear
  BY DEF Init, TaskInLoop, NotYetClear
<1>2. TypeOK /\ TaskInLoop /\ NotYetClear /\ [Next]_vars => (TaskInLoop /\ NotYetClear)'
  BY TaskInLoopStep, NotYetClearStep
<1>3. NotYetClear => OnOnlyAfterAllClear
  BY DEF NotYetClear, OnOnlyAfterAllClear
<1> QED BY <1>1, <1>2, <1>3, TypeCorrect, PTL DEF Spec

\* A raised flag that is not new: the relay is believed open and no run that
\* found the flag down is on its way to switch.  Before the loop it is down.
StaleFlag ==
    /\ alert_status /\ ~alarmFresh =>
         ~RTCDATA.relay_state /\ relayPc \in {"idle", "alarm"}
    /\ alert_status => phase \in {"loop", "restart"}

LEMMA StaleFlagStep ==
    ASSUME TypeOK, TaskInLoop, StaleFlag, [Next]_vars PROVE StaleFlag'
<1>0. RTCDATA \in RTCdata /\ alert_status \in BOOLEAN /\ alarmFresh \in BOOLEAN
  BY DEF TypeOK
<1>1. CASE Quiet
  BY <1>1 DEF Quiet, StaleFlag
<1>2. CASE BeginRtc \/ FormatFs \/ EnterSafe \/ EnterConnect
  BY <1>2 DEF BeginRtc, FormatFs, EnterSafe, EnterConnect, StaleFlag
<1>3. CASE ConnectDone
  BY <1>0, <1>3, SwitchFields
     DEF ConnectDone, init_alert, init_relay, TaskInLoop, StaleFlag
<1>4. CASE requestCB
  BY <1>0, <1>4, SwitchFields, AnswerEffect DEF StaleFlag
<1>5. CASE RelayCheck \/ RelayHour \/ Save
  <2>1. CASE RelayCheck
    BY <2>1 DEF RelayCheck, InLoop, StaleFlag
  <2>2. CASE RelayHour
    BY <2>2 DEF RelayHour, StaleFlag
  <2>3. CASE Save
    BY <2>3 DEF Save, StaleFlag
  <2> QED BY <1>5, <2>1, <2>2, <2>3
<1>6. CASE RelaySwitch
  <2>1. UNCHANGED <<alert_status, phase>> /\ relayPc' = "idle"
    BY <1>6 DEF RelaySwitch
  <2>2. CASE relayPc = "turnOn"
    <3>1. UNCHANGED alarmFresh
      BY <1>6, <2>2 DEF RelaySwitch
    <3>2. ~(alert_status /\ ~alarmFresh)
      BY <2>2 DEF StaleFlag
    <3> QED BY <2>1, <3>1, <3>2 DEF StaleFlag
  <2>3. CASE relayPc \in {"turnOff", "alarm"}
    <3>1. relay_off(RTCDATA)
      BY <1>6, <2>3 DEF RelaySwitch
    <3>2. ~RTCDATA'.relay_state
      BY <1>0, <3>1, SwitchFields
    <3> QED BY <2>1, <3>2 DEF StaleFlag
  <2> QED BY <1>6, <2>2, <2>3 DEF RelaySwitch
<1>7. CASE LongPress \/ PortalRestart
  BY <1>0, <1>7, SafeModeField DEF LongPress, PortalRestart, Portal, InLoop, StaleFlag
<1>8. CASE Resets
  BY <1>8, ResetFields DEF StaleFlag
<1>9. CASE UpdateFromFs \/ UpdateEnd
  BY <1>9, UpdateFields DEF StaleFlag
<1> QED BY <1>1, <1>2, <1>3, <1>4, <1>5, <1>6, <1>7, <1>8, <1>9, QuietOrMoves DEF Moves

\* A relay run that found the flag up leaves the relay off until the flag has
\* been down, with or without a /debug client, under every fault.
THEOREM FlagHonoured == Spec => []AlarmHonoured
<1>1. Init => TaskInLoop /\ StaleFlag
  BY DEF Init, TaskInLoop, StaleFlag
<1>2. TypeOK /\ TaskInLoop /\ StaleFlag /\ [Next]_vars => (TaskInLoop /\ StaleFlag)'
  BY TaskInLoopStep, StaleFlagStep
<1>3. StaleFlag => AlarmHonoured
  BY DEF StaleFlag, AlarmHonoured
<1> QED BY <1>1, <1>2, <1>3, TypeCorrect, PTL DEF Spec

\* Wherever the safe-mode flag is, a press is still to be served; the portal of
\* the access point runs with the flag already cleared in RAM.
Asked ==
    /\ rtc.sealed /\ rtc.data.safe_mode => safeAsked
    /\ RTCDATA.safe_mode => safeAsked
    /\ phase = "safe" => ~RTCDATA.safe_mode

LEMMA AskedStep == ASSUME TypeOK, Asked, [Next]_vars PROVE Asked'
<1>0. RTCDATA \in RTCdata /\ ~ZeroData.safe_mode /\ ~Unsealed.sealed /\ ZeroData \in RTCdata
  BY FirstTypes DEF TypeOK, ZeroData, Unsealed
<1>1. CASE Quiet
  BY <1>1 DEF Quiet, Asked
<1>2. CASE BeginRtc
  <2>1. CASE rtc.sealed
    BY <1>2, <2>1 DEF BeginRtc, Asked
  <2>2. CASE ~rtc.sealed
    BY <1>0, <1>2, <2>2, SwitchFields DEF BeginRtc, Asked
  <2> QED BY <2>1, <2>2
<1>3. CASE FormatFs \/ EnterConnect \/ PortalRestart
  BY <1>3 DEF FormatFs, EnterConnect, PortalRestart, Asked
<1>4. CASE EnterSafe
  BY <1>0, <1>4, SafeModeField DEF EnterSafe, Asked
<1>5. CASE ConnectDone
  BY <1>0, <1>5, SwitchFields DEF ConnectDone, init_relay, Asked
<1>6. CASE requestCB
  BY <1>0, <1>6, SwitchFields, AnswerEffect DEF Asked
<1>7. CASE RelayCheck \/ RelayHour
  BY <1>7 DEF RelayCheck, RelayHour, Asked
<1>8. CASE RelaySwitch
  BY <1>0, <1>8, SwitchFields DEF RelaySwitch, Asked
<1>9. CASE Save
  BY <1>9 DEF Save, Asked
<1>10. CASE LongPress
  BY <1>10, <1>0, SafeModeField DEF LongPress, Asked
<1>11. CASE Resets
  BY <1>0, <1>11, ResetFields DEF Asked
<1>12. CASE UpdateFromFs \/ UpdateEnd
  BY <1>0, <1>12, UpdateFields DEF Asked
<1> QED BY <1>1, <1>2, <1>3, <1>4, <1>5, <1>6, <1>7, <1>8, <1>9, <1>10, <1>11,
           <1>12, QuietOrMoves DEF Moves

\* The access point starts only to serve a long press that was not served yet,
\* whatever resets, torn saves and power losses came in between.
THEOREM SafeModeWasAsked == Spec => SafeModeOnlyByButton
<1>1. Init => Asked
  BY DEF Init, Asked, ZeroData, Unsealed
<1>2. TypeOK /\ Asked /\ [Next]_vars => Asked'
  BY AskedStep
<1>3. Asked /\ [Next]_vars => (phase' = "safe" /\ phase # "safe" => safeAsked)
  <2>1. ASSUME Quiet \/ Moves, phase' = "safe", phase # "safe" PROVE EnterSafe
    BY <2>1, ResetFields, UpdateFields, AnswerEffect
       DEF Quiet, Moves, BeginRtc, FormatFs, EnterConnect, ConnectDone,
           RelayCheck, RelayHour, RelaySwitch, Save, LongPress, PortalRestart
  <2>2. Asked /\ EnterSafe => safeAsked
    BY DEF Asked, EnterSafe
  <2> QED BY <2>1, <2>2, QuietOrMoves
<1> QED BY <1>1, <1>2, <1>3, TypeCorrect, PTL DEF Spec, SafeModeOnlyByButton

\* Mirror holds as long as neither power nor a save is lost; while a change
\* waits to be saved, the device is past its start.
Mirrored == Mirror /\ (saving => phase # "boot")

LEMMA MirrorStep ==
    ASSUME Faults \cap {"powerLoss", "midSwitch", "update"} = {},
           TypeOK, TaskInLoop, Mirrored, [Next]_vars
    PROVE  Mirrored'
<1> USE DEF Mirrored, Mirror, MirrorRam, MirrorRtc
<1>0. /\ RTCDATA \in RTCdata /\ rtc.data \in RTCdata /\ contact \in BOOLEAN
      /\ rtc.sealed \in BOOLEAN
      /\ ZeroData \in RTCdata /\ ~ZeroData.relay_state
  BY FirstTypes DEF TypeOK, ZeroData
<1>1. CASE Quiet
  BY <1>1 DEF Quiet
<1>2. CASE BeginRtc
  <2>1. CASE rtc.sealed
    BY <1>0, <1>2, <2>1 DEF BeginRtc
  <2>2. CASE ~rtc.sealed
    BY <1>0, <1>2, <2>2, SwitchFields DEF BeginRtc
  <2> QED BY <2>1, <2>2
<1>3. CASE FormatFs \/ EnterConnect \/ PortalRestart
  BY <1>3 DEF FormatFs, EnterConnect, PortalRestart, Portal, InLoop
<1>4. CASE EnterSafe
  BY <1>0, <1>4, SafeModeField DEF EnterSafe
<1>5. CASE ConnectDone
  BY <1>0, <1>5, SwitchFields DEF ConnectDone, init_relay
<1>6. CASE requestCB
  <2>1. UNCHANGED <<rtc, phase>> /\ ~saving /\ phase # "boot"
    BY <1>6, AnswerEffect
  <2>2. CASE relay_off(RTCDATA)
    BY <1>0, <2>1, <2>2, SwitchFields
  <2>3. CASE UNCHANGED <<contact, RTCDATA, saving>>
    BY <2>1, <2>3
  <2> QED BY <1>6, <2>2, <2>3, AnswerEffect
<1>7. CASE RelayCheck \/ RelayHour
  BY <1>7 DEF RelayCheck, RelayHour
<1>8. CASE RelaySwitch
  <2>1. relay_on(RTCDATA) \/ relay_off(RTCDATA)
    BY <1>8 DEF RelaySwitch
  <2>2. UNCHANGED <<rtc, phase>> /\ ~saving /\ phase # "boot"
    BY <1>8 DEF RelaySwitch, TaskInLoop
  <2>3. CASE relay_on(RTCDATA)
    BY <1>0, <2>2, <2>3, SwitchFields
  <2>4. CASE relay_off(RTCDATA)
    BY <1>0, <2>2, <2>4, SwitchFields
  <2> QED BY <2>1, <2>3, <2>4
<1>9. CASE Save
  BY <1>0, <1>9 DEF Save
<1>10. CASE LongPress
  <2>1. RTCDATA'.relay_state = RTCDATA.relay_state
    BY <1>0, <1>10, SafeModeField DEF LongPress
  <2>2. phase = "loop" /\ saving' = TRUE /\ UNCHANGED contact /\ phase' # "boot"
    BY <1>10 DEF LongPress, InLoop
  <2> QED BY <2>1, <2>2
<1>11. CASE Resets
  <2>1. ~saving /\ UNCHANGED rtc
    BY <1>11 DEF Resets, Restart, WarmReset, TornReset, PowerLoss
  <2>2. phase' = "boot" /\ saving' = FALSE /\ UNCHANGED contact
    BY <1>11, ResetFields
  <2> QED BY <2>1, <2>2
<1>12. CASE UpdateFromFs \/ UpdateEnd
  BY <1>12, UpdateFields
<1> QED BY <1>1, <1>2, <1>3, <1>4, <1>5, <1>6, <1>7, <1>8, <1>9, <1>10, <1>11,
           <1>12, QuietOrMoves DEF Moves

\* As long as power stays, no reset cuts off a save and no update is installed,
\* relay_state tells where the contact is, in RAM and in RTC memory.
THEOREM RelayStateIsContact ==
    ASSUME Faults \cap {"powerLoss", "midSwitch", "update"} = {}
    PROVE  Spec => []Mirror
<1>1. Init => TaskInLoop /\ Mirrored
  BY DEF Init, TaskInLoop, Mirrored, Mirror, MirrorRam, MirrorRtc, Unsealed
<1>2. TypeOK /\ TaskInLoop /\ Mirrored /\ [Next]_vars => (TaskInLoop /\ Mirrored)'
  BY MirrorStep, TaskInLoopStep
<1>3. Mirrored => Mirror
  BY DEF Mirrored
<1> QED BY <1>1, <1>2, <1>3, TypeCorrect, PTL DEF Spec
=============================================================================
