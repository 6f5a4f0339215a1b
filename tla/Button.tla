------------------------------- MODULE Button -------------------------------
(***************************************************************************)
(* buttom.cpp: the button is sampled by a task of the loop, and a press is *)
(* classed by the difference of two readings of millis(), a counter of     *)
(* 2 * HALF values that wraps; the difference is stored in a signed        *)
(* integer of the same width.  Time is counted in units of the instance.   *)
(***************************************************************************)
EXTENDS Integers

CONSTANTS
    SHORT_PRESS_TIME,
    LONG_PRESS_TIME,
    HALF,       \* half the range of millis() and of long, 2^31 in the product
    MaxGap,     \* bound: the longest time between two samples
    MaxSetup,   \* bound: the longest time between reset and init_buttom
    MaxHeld     \* bound: the longest press

ASSUME TimesAssumption ==
    /\ SHORT_PRESS_TIME \in Nat /\ LONG_PRESS_TIME \in Nat /\ HALF \in Nat
    /\ MaxGap \in Nat \ {0} /\ MaxSetup \in Nat /\ MaxHeld \in Nat
    /\ SHORT_PRESS_TIME < LONG_PRESS_TIME
    /\ MaxHeld < HALF

VARIABLES
    pin,                 \* "LOW" while the button is down
    lastState,           \* the previous sample
    pressedTime,
    xPressButton_action,
    mode,                \* "setup", "polling", or "safe" once a restart is due
    now,                 \* millis()
    gap,                 \* time since the last sample
    down,                \* history: how long the button has been down, or was
    measured             \* history: time since the sample that saw the press
                         \* begin, -1 if no sample did

bvars == <<pin, lastState, pressedTime, xPressButton_action, mode, now, gap,
           down, measured>>

Width == 2 * HALF

\* The value of an unsigned difference in a signed integer of the same width.
Signed(n) == LET u == n % Width IN IF u < HALF THEN u ELSE u - Width

\* The button is on GPIO0: a processor that is reset while it is down waits for
\* a download and does not start the program.
ButtonInit ==
    /\ pin = "HIGH"
    /\ lastState = "LOW" /\ pressedTime = 0 /\ xPressButton_action = "NONE"
    /\ mode = "setup" /\ now = 0 /\ gap = 0 /\ down = 0 /\ measured = -1

Push ==
    /\ pin = "HIGH" /\ mode # "safe"
    /\ pin' = "LOW" /\ down' = 0
    /\ UNCHANGED <<lastState, pressedTime, xPressButton_action, mode, now, gap,
                   measured>>

LetGo ==
    /\ pin = "LOW" /\ mode # "safe"
    /\ pin' = "HIGH"
    /\ UNCHANGED <<lastState, pressedTime, xPressButton_action, mode, now, gap,
                   down, measured>>

\* Mutant: millis() does not wrap.
Pass_Endless ==
    /\ mode = "setup" /\ now < 2 * Width
    /\ now' = now + 1
    /\ UNCHANGED <<pin, lastState, pressedTime, xPressButton_action, mode, gap,
                   down, measured>>

\* One unit of time, within the bounds of the instance.
Pass ==
    /\ \/ mode = "setup" /\ now < MaxSetup
       \/ mode = "polling" /\ gap < MaxGap
    /\ pin = "LOW" => down < MaxHeld
    /\ lastState = "LOW" => measured < MaxHeld
    /\ now' = (now + 1) % Width
    /\ gap' = IF mode = "polling" THEN gap + 1 ELSE 0
    /\ down' = IF pin = "LOW" THEN down + 1 ELSE down
    /\ measured' = IF lastState = "LOW" /\ measured >= 0
                     THEN measured + 1 ELSE measured
    /\ UNCHANGED <<pin, lastState, pressedTime, xPressButton_action, mode>>

init_buttom ==
    /\ mode = "setup"
    /\ mode' = "polling" /\ lastState' = pin /\ gap' = 0
    /\ UNCHANGED <<pin, pressedTime, xPressButton_action, now, down, measured>>

SamplePress ==
    /\ lastState = "HIGH" /\ pin = "LOW"
    /\ pressedTime' = now /\ measured' = 0
    /\ UNCHANGED <<xPressButton_action, mode>>

\* Mutant: the difference is compared without regard to the wrap of millis().
SampleRelease_NoWrap ==
    /\ lastState = "LOW" /\ pin = "HIGH"
    /\ mode' = IF now - pressedTime > LONG_PRESS_TIME THEN "safe" ELSE mode
    /\ UNCHANGED <<pressedTime, measured, xPressButton_action>>

\* A duration equal to one of the two limits belongs to no class.
SampleRelease ==
    /\ lastState = "LOW" /\ pin = "HIGH"
    /\ LET pressDuration == Signed(now - pressedTime)
       IN  /\ mode' = IF pressDuration > LONG_PRESS_TIME THEN "safe" ELSE mode
           /\ xPressButton_action' =
                CASE pressDuration < SHORT_PRESS_TIME -> "PRESS_SHORT"
                  [] /\ pressDuration > SHORT_PRESS_TIME
                     /\ pressDuration < LONG_PRESS_TIME -> "PRESS_LONG"
                  [] OTHER -> xPressButton_action
    /\ UNCHANGED <<pressedTime, measured>>

SampleSame ==
    /\ lastState = pin
    /\ UNCHANGED <<pressedTime, measured, xPressButton_action, mode>>

buttom_task_callback ==
    /\ mode = "polling" /\ gap > 0
    /\ SamplePress \/ SampleRelease \/ SampleSame
    /\ lastState' = pin /\ gap' = 0
    /\ UNCHANGED <<pin, now, down>>

\* ESP.restart(), and the portal's until the button is up and the device polls
\* again: the globals are as at power-on.
Restarted ==
    /\ mode = "safe" /\ pin = "HIGH"
    /\ lastState' = "LOW" /\ pressedTime' = 0 /\ xPressButton_action' = "NONE"
    /\ mode' = "setup" /\ now' = 0 /\ gap' = 0 /\ measured' = -1
    /\ UNCHANGED <<pin, down>>

ButtonNext ==
    \/ Push \/ LetGo \/ Pass \/ init_buttom \/ buttom_task_callback
    \/ Restarted

ButtonSpec == ButtonInit /\ [][ButtonNext]_bvars

-----------------------------------------------------------------------------
\* Every variable keeps the values its C++ type and the code give it.
ButtonTypeOK ==
    /\ pin \in {"LOW", "HIGH"} /\ lastState \in {"LOW", "HIGH"}
    /\ pressedTime \in 0 .. Width - 1 /\ now \in 0 .. Width - 1
    /\ xPressButton_action \in {"NONE", "PRESS_SHORT", "PRESS_LONG"}
    /\ mode \in {"setup", "polling", "safe"}
    /\ gap \in 0 .. MaxGap /\ down \in 0 .. MaxHeld /\ measured \in -1 .. MaxHeld

\* A press whose begin was sampled starts safe mode if and only if more than
\* LONG_PRESS_TIME passed between the two samples, also when millis() wrapped
\* in between.
LongPressOnly ==
    [][lastState = "LOW" /\ lastState' = "HIGH" /\ mode = "polling" /\ measured >= 0
         => (mode' = "safe" <=> measured > LONG_PRESS_TIME)]_bvars
=============================================================================
