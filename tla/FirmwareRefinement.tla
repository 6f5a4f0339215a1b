------------------------- MODULE FirmwareRefinement -------------------------
(***************************************************************************)
(* The firmware implements two abstract specifications: the policy of the  *)
(* contact (RelayPolicy) and the class that keeps RTCDATA (RtcMemory).     *)
(***************************************************************************)
EXTENDS FirmwareProofs

USE DEF persistent, memory, alertVars, relayVars, timeVars, restVars

-----------------------------------------------------------------------------
(* The policy of the contact *)

\* Without a /debug client nothing runs between the check of the flag and the
\* switch, so the flag is still down when the relay is about to be closed.
DecidedUnderNoFlag == relayPc \in {"noAlarm", "turnOn"} => ~alert_status

LEMMA DecidedStep ==
    ASSUME DebugClient = FALSE, TypeOK, TaskInLoop, DecidedUnderNoFlag, [Next]_vars
    PROVE  DecidedUnderNoFlag'
<1>1. CASE Quiet
  BY <1>1 DEF Quiet, DecidedUnderNoFlag
<1>2. CASE BeginRtc \/ FormatFs \/ EnterSafe \/ EnterConnect
  BY <1>2 DEF BeginRtc, FormatFs, EnterSafe, EnterConnect, DecidedUnderNoFlag
<1>3. CASE ConnectDone
  BY <1>3 DEF ConnectDone, TaskInLoop, DecidedUnderNoFlag
<1>4. CASE requestCB
  BY <1>4 DEF requestCB, Yielding, DecidedUnderNoFlag
<1>5. CASE RelayCheck
  BY <1>5 DEF RelayCheck, DecidedUnderNoFlag
<1>6. CASE RelayHour
  BY <1>6 DEF RelayHour, DecidedUnderNoFlag
<1>7. CASE RelaySwitch
  BY <1>7 DEF RelaySwitch, DecidedUnderNoFlag
<1>8. CASE Save \/ LongPress \/ PortalRestart
  BY <1>8 DEF Save, LongPress, PortalRestart, DecidedUnderNoFlag
<1>9. CASE Resets
  BY <1>9, ResetFields DEF DecidedUnderNoFlag
<1>10. CASE UpdateFromFs \/ UpdateEnd
  BY <1>10, UpdateFields DEF DecidedUnderNoFlag
<1> QED BY <1>1, <1>2, <1>3, <1>4, <1>5, <1>6, <1>7, <1>8, <1>9, <1>10,
           QuietOrMoves DEF Moves

\* The steps of the policy, in terms of the firmware's variables.
LEMMA OutsideStep ==
    ASSUME UNCHANGED <<relayPc, contact>> PROVE Policy!Outside
BY DEF Policy!Outside

LEMMA OpenStep ==
    ASSUME relayPc' # "turnOn", contact' \in {contact, FALSE} PROVE Policy!Open
BY DEF Policy!Open

\* Every step of the firmware is a step of the policy.
LEMMA PolicyStep ==
    ASSUME DebugClient = FALSE, TypeOK, TaskInLoop, DecidedUnderNoFlag, [Next]_vars
    PROVE  Policy!Outside \/ Policy!Decide \/ Policy!Close \/ Policy!Open
<1>0. RTCDATA \in RTCdata /\ ZeroData \in RTCdata
  BY FirstTypes DEF TypeOK
<1>1. CASE Quiet
  BY <1>1, OutsideStep DEF Quiet
<1>2. CASE BeginRtc
  <2>1. contact' \in {contact, FALSE}
    BY <1>0, <1>2, SwitchFields DEF BeginRtc, relay_off
  <2>2. relayPc' # "turnOn"
    BY <1>2 DEF BeginRtc, TaskInLoop
  <2> QED BY <2>1, <2>2, OpenStep
<1>3. CASE FormatFs \/ EnterSafe \/ EnterConnect \/ Save \/ LongPress \/ PortalRestart
  BY <1>3, OutsideStep
     DEF FormatFs, EnterSafe, EnterConnect, Save, LongPress, PortalRestart
<1>4. CASE ConnectDone
  <2>1. contact' \in {contact, FALSE}
    BY <1>4 DEF ConnectDone, init_relay, relay_off
  <2>2. relayPc' # "turnOn"
    BY <1>4 DEF ConnectDone, TaskInLoop
  <2> QED BY <2>1, <2>2, OpenStep
<1>5. CASE requestCB
  <2>1. contact' \in {contact, FALSE}
    BY <1>5, AnswerEffect DEF relay_off
  <2>2. relayPc' # "turnOn"
    BY <1>5 DEF requestCB, Yielding
  <2> QED BY <2>1, <2>2, OpenStep
<1>6. CASE RelayCheck
  <2>1. contact' = contact /\ relayPc' # "turnOn"
    BY <1>6 DEF RelayCheck
  <2> QED BY <2>1, OpenStep
<1>7. CASE RelayHour
  <2>1. CASE relay_buf[clock]
    <3>1. relayPc = "noAlarm" /\ relayPc' = "turnOn" /\ phase = "loop" /\ ~alert_status
      BY <1>7, <2>1 DEF RelayHour, TaskInLoop, DecidedUnderNoFlag
    <3>2. UNCHANGED <<contact, alert_status, phase, clock, conf>>
      BY <1>7 DEF RelayHour
    <3>3. relay_buf' = relay_buf
      BY <3>2 DEF relay_buf
    <3> QED BY <2>1, <3>1, <3>2, <3>3 DEF Policy!Decide
  <2>2. CASE ~relay_buf[clock]
    <3>1. contact' = contact /\ relayPc' # "turnOn"
      BY <1>7, <2>2 DEF RelayHour
    <3> QED BY <3>1, OpenStep
  <2> QED BY <2>1, <2>2
<1>8. CASE RelaySwitch
  <2>1. relayPc' = "idle" /\ UNCHANGED <<alert_status, phase, clock, conf>>
    BY <1>8 DEF RelaySwitch
  <2>2. CASE relayPc = "turnOn" /\ ~RTCDATA.relay_state
    <3>1. contact' = TRUE
      BY <1>0, <1>8, <2>2, SwitchFields DEF RelaySwitch
    <3>2. ~alert_status
      BY <2>2 DEF DecidedUnderNoFlag
    <3>3. relay_buf' = relay_buf
      BY <2>1 DEF relay_buf
    <3> QED BY <2>1, <2>2, <3>1, <3>2, <3>3 DEF Policy!Close
  <2>3. CASE ~(relayPc = "turnOn" /\ ~RTCDATA.relay_state)
    <3>1. contact' \in {contact, FALSE}
      BY <1>8, <2>3 DEF RelaySwitch, relay_on, relay_off
    <3> QED BY <2>1, <3>1, OpenStep
  <2> QED BY <2>2, <2>3
<1>9. CASE Resets
  BY <1>9, ResetFields, OpenStep
<1>10. CASE UpdateFromFs \/ UpdateEnd
  BY <1>10, OutsideStep, UpdateFields
<1> QED BY <1>1, <1>2, <1>3, <1>4, <1>5, <1>6, <1>7, <1>8, <1>9, <1>10,
           QuietOrMoves DEF Moves

\* Without a /debug client the contact obeys RelayPolicy under every fault: it
\* closes only by a decision taken in a due hour, with the flag down from the
\* decision to the pulse.
THEOREM PolicyImplemented ==
    ASSUME DebugClient = FALSE
    PROVE  Spec => ContactPolicy
<1>1. Init => Policy!PolicyInit
  BY DEF Init, Policy!PolicyInit
<1>2. Init => TaskInLoop /\ DecidedUnderNoFlag
  BY DEF Init, TaskInLoop, DecidedUnderNoFlag
<1>3. TypeOK /\ TaskInLoop /\ DecidedUnderNoFlag /\ [Next]_vars
        => (TaskInLoop /\ DecidedUnderNoFlag)'
  BY TaskInLoopStep, DecidedStep
<1>4. TypeOK /\ TaskInLoop /\ DecidedUnderNoFlag /\ [Next]_vars
        => [Policy!Outside \/ Policy!Decide \/ Policy!Close \/ Policy!Open]_Policy!pvars
  BY PolicyStep
<1> QED BY <1>1, <1>2, <1>3, <1>4, TypeCorrect, PTL
        DEF Spec, ContactPolicy, Policy!PolicySafety

-----------------------------------------------------------------------------
(* The class RtcMemory *)

\* A change waits to be saved only after begin(), and RTC memory without a
\* valid CRC is worth zeros.
AfterBegin == (saving => phase # "boot") /\ (rtc.sealed \/ rtc = Unsealed)

LEMMA AfterBeginStep ==
    ASSUME TypeOK, TaskInLoop, AfterBegin, [Next]_vars PROVE AfterBegin'
<1>1. CASE Quiet
  BY <1>1 DEF Quiet, AfterBegin
<1>2. CASE BeginRtc \/ FormatFs \/ EnterSafe \/ EnterConnect \/ ConnectDone
  BY <1>2 DEF BeginRtc, FormatFs, EnterSafe, EnterConnect, ConnectDone, AfterBegin
<1>3. CASE requestCB
  BY <1>3, AnswerEffect DEF AfterBegin
<1>4. CASE RelayCheck \/ RelayHour \/ RelaySwitch
  BY <1>4 DEF RelayCheck, RelayHour, RelaySwitch, InLoop, TaskInLoop, AfterBegin
<1>5. CASE Save
  BY <1>5 DEF Save, AfterBegin
<1>6. CASE LongPress \/ PortalRestart
  BY <1>6 DEF LongPress, PortalRestart, AfterBegin
<1>7. CASE Resets
  BY <1>7, ResetFields DEF AfterBegin
<1>8. CASE UpdateFromFs \/ UpdateEnd
  BY <1>8, UpdateFields DEF AfterBegin
<1> QED BY <1>1, <1>2, <1>3, <1>4, <1>5, <1>6, <1>7, <1>8, QuietOrMoves DEF Moves

\* The steps of the class, in terms of the firmware's variables.
LEMMA AssignStep ==
    ASSUME phase # "boot", phase' # "boot", RTCDATA' \in RTCdata, UNCHANGED rtc
    PROVE  Memory!assign
BY DEF Memory!assign

LEMMA MemoryStutter ==
    ASSUME (phase' # "boot") <=> (phase # "boot"), UNCHANGED <<RTCDATA, rtc>>
    PROVE  UNCHANGED Memory!rvars
BY DEF Memory!rvars

LEMMA BeginStep == ASSUME TypeOK, BeginRtc PROVE Memory!begin
<1>1. phase = "boot" /\ phase' = "setup" /\ UNCHANGED rtc
  BY DEF BeginRtc
<1>2. CASE rtc.sealed
  BY <1>1, <1>2 DEF BeginRtc, Memory!begin
<1>3. CASE ~rtc.sealed
  <2>1. RTCDATA' = ZeroData
    BY <1>3 DEF BeginRtc, relay_off, ZeroData
  <2>2. Memory!writeToFlash(ZeroData, FALSE)
    BY DEF Memory!writeToFlash
  <2>3. ~Memory!readFromFlash
    BY DEF Memory!readFromFlash
  <2> QED BY <1>1, <1>3, <2>1, <2>2, <2>3 DEF Memory!begin
<1> QED BY <1>2, <1>3

LEMMA SaveStep == ASSUME AfterBegin, Save PROVE Memory!save
<1>1. phase # "boot" /\ UNCHANGED <<phase, RTCDATA>>
  BY DEF Save, AfterBegin
<1>2. rtc' = [sealed |-> TRUE, data |-> RTCDATA]
  BY DEF Save
<1>3. [some |-> rtc'.sealed, value |-> rtc'.data] = Memory!Just(RTCDATA)
  BY <1>2 DEF Memory!Just
<1> QED BY <1>1, <1>2, <1>3 DEF Memory!save

LEMMA ResetStep ==
    ASSUME Resets PROVE Memory!WarmReset \/ Memory!LoseRtc
<1>1. phase' = "boot" /\ RTCDATA' = ZeroData
  BY ResetFields
<1>2. Memory!Forget
  BY <1>1 DEF Memory!Forget
<1>3. CASE rtc' = rtc
  BY <1>2, <1>3 DEF Memory!WarmReset
<1>4. CASE rtc' = Unsealed
  BY <1>2, <1>4 DEF Memory!LoseRtc, Memory!None, Unsealed
<1> QED BY <1>3, <1>4, ResetFields

LEMMA MemoryStep ==
    ASSUME "update" \notin Faults, TypeOK, TypeOK', TaskInLoop, AfterBegin, [Next]_vars
    PROVE  [Memory!RtcNext]_Memory!rvars
<1>0. RTCDATA' \in RTCdata
  BY DEF TypeOK
<1> USE DEF Memory!RtcNext
<1>1. CASE Quiet \/ RelayCheck \/ RelayHour
  BY <1>1, MemoryStutter DEF Quiet, RelayCheck, RelayHour
<1>2. CASE FormatFs \/ EnterConnect \/ PortalRestart
  BY <1>2, MemoryStutter DEF FormatFs, EnterConnect, PortalRestart, Portal, InLoop
<1>3. CASE BeginRtc
  BY <1>3, BeginStep
<1>4. CASE EnterSafe \/ ConnectDone \/ LongPress
  BY <1>0, <1>4, AssignStep DEF EnterSafe, ConnectDone, LongPress, InLoop
<1>5. CASE requestCB
  BY <1>0, <1>5, AssignStep, AnswerEffect
<1>6. CASE RelaySwitch
  <2>1. phase # "boot" /\ UNCHANGED <<phase, rtc>>
    BY <1>6 DEF RelaySwitch, TaskInLoop
  <2> QED BY <1>0, <2>1, AssignStep
<1>7. CASE Save
  BY <1>7, SaveStep
<1>8. CASE Resets
  BY <1>8, ResetStep
<1> QED BY <1>1, <1>2, <1>3, <1>4, <1>5, <1>6, <1>7, <1>8, QuietOrMoves, UpdateFields
        DEF Moves

\* The firmware uses its RTC memory as the class allows, under every other fault:
\* every change of RTCDATA happens after begin(), each is saved as a whole or
\* lost as a whole, and a boot starts from the last save or from zeros.  An
\* update alone breaks the contract: it writes to the same memory from outside.
THEOREM MemoryImplemented ==
    ASSUME "update" \notin Faults
    PROVE  Spec => MemoryContract
<1>1. Init => Memory!RtcInit
  BY DEF Init, Memory!RtcInit, Memory!None, Unsealed
<1>2. Init => TaskInLoop /\ AfterBegin
  BY DEF Init, TaskInLoop, AfterBegin
<1>3. TypeOK /\ TaskInLoop /\ AfterBegin /\ [Next]_vars => (TaskInLoop /\ AfterBegin)'
  BY TaskInLoopStep, AfterBeginStep
<1>4. TypeOK /\ TypeOK' /\ TaskInLoop /\ AfterBegin /\ [Next]_vars
        => [Memory!RtcNext]_Memory!rvars
  BY MemoryStep
<1> QED BY <1>1, <1>2, <1>3, <1>4, TypeCorrect, PTL DEF Spec, MemoryContract, Memory!RtcSpec
=============================================================================
