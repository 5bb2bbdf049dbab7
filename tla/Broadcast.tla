----------------------------- MODULE Broadcast -----------------------------
(***************************************************************************)
(* What the touchpad key promises to the consumers: a status, asked for    *)
(* and decided anew by each press, and sent at one instant to whoever is a *)
(* member then, or not sent at all.  A service becomes a member when its   *)
(* arrival is heard of and stops when its leaving is.  Its view of the     *)
(* status is its own as it arrives, and as it changes it, which it owns    *)
(* up to; nothing else but a message alters it.  Touchpad implements this  *)
(* on one handler thread.                                                  *)
(***************************************************************************)
CONSTANTS Services,  \* who may become a member
          Unknown    \* the status while a press is being decided

VARIABLES
  value,    \* the status, or Unknown
  members,  \* the registered services
  view,     \* the status each service is in
  life,     \* whether each service is there, and heard of
  own       \* turns over with every change a service makes itself

vars == <<value, members, view, life, own>>

Init ==
  /\ value \in BOOLEAN /\ own \in BOOLEAN
  /\ members = {} /\ life = [s \in Services |-> "absent"]
  /\ view \in [Services -> BOOLEAN]

\* A press makes the status unknown until it is decided.
Ask    == value # Unknown /\ value' = Unknown /\ UNCHANGED <<members, view, life, own>>
Decide == value = Unknown /\ value' \in BOOLEAN /\ UNCHANGED <<members, view, life, own>>

\* One message reaches every member and nobody else.
Send ==
  /\ value # Unknown
  /\ view' = [s \in Services |-> IF s \in members THEN value ELSE view[s]]
  /\ UNCHANGED <<value, members, life, own>>

Step(s, from, to) == life[s] = from /\ life' = [life EXCEPT ![s] = to]
Set(s) == \E status \in BOOLEAN : view' = [view EXCEPT ![s] = status]

Arrive(s) == Step(s, "absent", "arriving") /\ Set(s) /\ UNCHANGED <<value, members, own>>
Join(s) ==
  /\ Step(s, "arriving", "present") /\ members' = members \cup {s}
  /\ UNCHANGED <<value, view, own>>
Depart(s) == Step(s, "present", "leaving") /\ UNCHANGED <<value, members, view, own>>
Leave(s) ==
  /\ Step(s, "leaving", "absent") /\ members' = members \ {s}
  /\ UNCHANGED <<value, view, own>>

\* One service that is there is in another status of its own accord.
Drift(s) ==
  /\ life[s] = "present"
  /\ Set(s) /\ own' = ~ own /\ UNCHANGED <<value, members, life>>

Next ==
  \/ Ask \/ Decide \/ Send
  \/ \E s \in Services : Arrive(s) \/ Join(s) \/ Depart(s) \/ Leave(s) \/ Drift(s)

Spec == Init /\ [][Next]_vars

=============================================================================
