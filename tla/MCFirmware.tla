----------------------------- MODULE MCFirmware -----------------------------
EXTENDS FirmwareProps

\* Over two hours: the first may be scheduled, the last never switches on.
Always == [h \in 0 .. 1 |-> TRUE]
Never  == [h \in 0 .. 1 |-> FALSE]
MCCrons == {Always, Never}
=============================================================================
