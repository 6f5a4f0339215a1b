---------------------------- MODULE RelayPolicy -----------------------------
(***************************************************************************)
(* What the device promises about its contact, whatever the parts behind   *)
(* it: the contact closes only by a decision taken without an alarm in a   *)
(* due hour, never while the alarm is up, and it may open at any time; a   *)
(* lasting alarm ends with an open contact, a lasting due hour without an  *)
(* alarm with a closed one.                                                *)
(***************************************************************************)
VARIABLES
    alarm,     \* the alarm flag
    due,       \* the schedule wants light in this hour
    decided,   \* a decision to close the contact has been taken
    contact

pvars == <<alarm, due, decided, contact>>

PolicyInit ==
    /\ alarm \in BOOLEAN /\ due \in BOOLEAN
    /\ decided = FALSE /\ contact = FALSE

Outside ==
    /\ alarm' \in BOOLEAN /\ due' \in BOOLEAN
    /\ UNCHANGED <<decided, contact>>

Decide ==
    /\ ~alarm /\ due
    /\ decided' = TRUE
    /\ UNCHANGED <<alarm, due, contact>>

Close ==
    /\ decided /\ ~alarm
    /\ contact' = TRUE /\ decided' = FALSE
    /\ UNCHANGED <<alarm, due>>

\* The flag may rise in the step that opens the contact; a reset forgets a
\* decision.
Open ==
    /\ contact' \in {contact, FALSE} /\ decided' = FALSE
    /\ alarm' \in BOOLEAN /\ due' \in BOOLEAN

PolicySafety == PolicyInit /\ [][Outside \/ Decide \/ Close \/ Open]_pvars

PolicyLiveness ==
    /\ <>[]alarm => <>[]~contact
    /\ <>[](due /\ ~alarm) => <>[]contact

Policy == PolicySafety /\ PolicyLiveness
=============================================================================
