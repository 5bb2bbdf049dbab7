--------------------------- MODULE AirplaneSwitch ---------------------------
(***************************************************************************)
(* What airplane mode promises: entering it notes both radios and switches *)
(* them off, leaving it puts them back to what was noted, each at one      *)
(* instant.  Nothing else moves a radio but a hand from outside: the user, *)
(* or a switch that fails.  AirplaneDaemon takes four steps to a toggle    *)
(* and implements this; a hand it overrules on the way moves nothing.      *)
(***************************************************************************)
CONSTANT None  \* nothing is noted

VARIABLES
  alive,            \* whether somebody keeps the promise
  mode,             \* airplane mode
  wifi, bluetooth,  \* whether each radio is on
  noted,            \* the radios before airplane mode, or None
  hand              \* changes whenever a hand reaches for a radio

radios == <<wifi, bluetooth>>
vars == <<alive, mode, radios, noted, hand>>

Init ==
  /\ alive = FALSE /\ mode = FALSE /\ noted = None
  /\ wifi \in BOOLEAN /\ bluetooth \in BOOLEAN
  /\ hand \in BOOLEAN

Enter ==
  /\ alive /\ ~ mode /\ mode' = TRUE
  /\ noted' = radios /\ radios' = <<FALSE, FALSE>>
  /\ UNCHANGED <<alive, hand>>

Leave ==
  /\ alive /\ mode /\ mode' = FALSE
  /\ radios' = noted /\ noted' = None
  /\ UNCHANGED <<alive, hand>>

\* A hand moves one radio, or is overruled and moves none.
Hand ==
  /\ hand' = ~ hand
  /\ \/ wifi' \in BOOLEAN /\ UNCHANGED bluetooth
     \/ bluetooth' \in BOOLEAN /\ UNCHANGED wifi
  /\ UNCHANGED <<alive, mode, noted>>

\* The mode and its notes are gone, and a toggle under way is left half done.
Die ==
  /\ alive /\ alive' = FALSE
  /\ mode' = FALSE /\ noted' = None
  /\ wifi' \in BOOLEAN /\ bluetooth' \in BOOLEAN
  /\ UNCHANGED hand

Start ==
  /\ ~ alive /\ alive' = TRUE
  /\ UNCHANGED <<mode, radios, noted, hand>>

Next == Enter \/ Leave \/ Hand \/ Die \/ Start

Spec == Init /\ [][Next]_vars

=============================================================================
