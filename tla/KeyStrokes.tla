----------------------------- MODULE KeyStrokes -----------------------------
(***************************************************************************)
(* What macOS sees of the function keys: keys pressed and released, one at *)
(* a time, each as often as was ordered.  FnKeys implements this on one    *)
(* handler thread as long as every report can be posted.                   *)
(***************************************************************************)
EXTENDS Naturals

CONSTANTS Reports, Usages

VARIABLES
  key,    \* the report and usage of the strokes ordered last
  left,   \* strokes still to be completed
  down    \* the usages held down, per report

vars == <<key, left, down>>

Up == [r \in Reports |-> {}]
Held == [Up EXCEPT ![key[1]] = {key[2]}]

Init == key \in Reports \X Usages /\ left = 0 /\ down = Up

\* An event orders strokes; the ones of the event before are complete.
Order == left = 0 /\ key' \in Reports \X Usages /\ left' \in Nat /\ UNCHANGED down

Press   == left > 0 /\ down = Up /\ down' = Held /\ UNCHANGED <<key, left>>
Release == left > 0 /\ down = Held /\ down' = Up /\ left' = left - 1 /\ UNCHANGED key

Next == Order \/ Press \/ Release

Spec == Init /\ [][Next]_vars

=============================================================================
