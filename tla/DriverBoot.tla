----------------------------- MODULE DriverBoot -----------------------------
(***************************************************************************)
(* The driver's life cycle around the touchpad key: what meets a driver    *)
(* that is half built or half torn down.                                   *)
(*                                                                         *)
(* One thread runs probe, start and stop.  Meanwhile the platform may call *)
(* message (the driver is attached to its provider before probe), and      *)
(* consumers come and go.  This module composes that thread with Touchpad: *)
(* the steps of handlers and consumers are Touchpad's, as far as the gate  *)
(* and the notifiers they need exist.  A member used before it is made or  *)
(* after it is released is a null pointer, and the machine panics.         *)
(*                                                                         *)
(* addMatchingNotification first calls the handler for the services that   *)
(* are there already and returns the notifier then; until the result is    *)
(* assigned, the handler takes a service for neither published nor         *)
(* terminated.  External: IOKit, which calls it so.                        *)
(***************************************************************************)
EXTENDS Touchpad

CONSTANT EarlyKeys   \* the firmware may notify before start has returned

ASSUME EarlyAssumption == EarlyKeys \in BOOLEAN

VARIABLES
  stage,      \* where probe, start or stop is
  existing,   \* services addMatchingNotification has still to deliver
  unheard,    \* services whose last notification came to nothing
  panicked

bootVars == <<vars, stage, existing, unheard, panicked>>

\* start and stop in their order; "attached" stands for everything start does
\* before it makes the command gate.
Building == {"attached", "gated", "published", "publishInstalled",
             "publishAssigned", "terminateInstalled"}
Stages == Building \cup {"probing", "unmatched", "failed", "running",
                         "gateGone", "publishRemoved", "stopped"}

\* A plausible slip: start registers for notifications before it makes the gate.
HasGateLate == stage \in {"publishAssigned", "terminateInstalled", "running"}
HasGate == stage \in (Building \ {"attached"}) \cup {"running"}

BootTypeOK ==
  /\ TypeOK
  /\ stage \in Stages
  /\ existing \in SUBSET Services /\ unheard \in SUBSET Services
  /\ panicked \in BOOLEAN
  /\ existing # {} => stage = "publishInstalled"

BootInit ==
  /\ Init
  /\ stage = "probing" /\ existing = {} /\ unheard = {} /\ panicked = FALSE

Panic == panicked' = TRUE /\ UNCHANGED <<vars, stage, existing, unheard>>
To(next) == stage' = next /\ UNCHANGED <<existing, unheard, panicked>>

-----------------------------------------------------------------------------
(***************************************************************************)
(* probe, start and stop.                                                  *)
(***************************************************************************)

\* probe compares _UID with "ATK"; when the evaluation fails it looks at an
\* object pointer that was never set.
Probe ==
  /\ stage = "probing"
  /\ \/ To("attached") /\ UNCHANGED vars
     \/ To("unmatched") /\ UNCHANGED vars
     \/ Panic

\* start up to the command gate, for which work loop or memory may be missing.
MakeGate ==
  /\ stage = "attached"
  /\ To("gated") \/ To("failed")
  /\ UNCHANGED vars

\* start publishes the touchpad as enabled, whatever a handler has published.
PublishStatus ==
  /\ stage = "gated" /\ To("published")
  /\ touchpadProperty' = TRUE
  /\ UNCHANGED <<pc, gate, todo, seen, isTouchpadEnabled,
                 notificationServices, phase, touch, told, heard, own>>

\* registerNotifications: the publish notifier is installed ...
InstallPublish ==
  /\ stage = "published" /\ stage' = "publishInstalled"
  /\ existing' = {s \in Services : phase[s] = "arriving"}
  /\ UNCHANGED <<vars, unheard, panicked>>

\* A plausible slip: the notifier is assigned while services are still delivered.
AssignPublishAtOnce ==
  stage = "publishInstalled" /\ To("publishAssigned") /\ UNCHANGED vars

\* ... and, after the calls for the services that were there, assigned.
AssignPublish ==
  /\ stage = "publishInstalled" /\ existing = {}
  /\ To("publishAssigned") /\ UNCHANGED vars

\* The same for the terminate notifier; registerVSMC and registerService follow.
InstallTerminate ==
  /\ stage = "publishAssigned" /\ To("terminateInstalled") /\ UNCHANGED vars
AssignTerminate ==
  /\ stage = "terminateInstalled" /\ To("running") /\ UNCHANGED vars

\* A plausible slip: the gate is torn down under the thread that is inside it.
StopGateForced == stage = "running" /\ To("gateGone") /\ UNCHANGED vars

\* stop takes the gate from the work loop, which waits for the thread inside.
StopGate ==
  /\ stage = "running" /\ gate = Nobody
  /\ To("gateGone") /\ UNCHANGED vars

\* It removes the notifiers after that, and empties the set under no lock.
StopNotifiers ==
  \/ stage = "gateGone" /\ To("publishRemoved") /\ UNCHANGED vars
  \/ /\ stage = "publishRemoved" /\ To("stopped")
     /\ notificationServices' = {}
     /\ UNCHANGED <<pc, gate, todo, seen, isTouchpadEnabled, touchpadProperty,
                    phase, touch, told, heard, own>>

-----------------------------------------------------------------------------
(***************************************************************************)
(* Handlers and consumers.                                                 *)
(***************************************************************************)

\* The platform notifies of the touchpad key.
Notify(t) ==
  /\ stage \in {"running", "gateGone", "publishRemoved"} \/ (EarlyKeys /\ stage \in Building)
  /\ TouchpadKey(t) /\ UNCHANGED <<stage, existing, unheard, panicked>>

\* A handler goes on, and needs the gate where dispatchMessage does.
Handle(t) ==
  /\ pc[t] \in {"askWait", "tellWait"} => HasGate
  /\ Toggle(t) /\ UNCHANGED <<stage, existing, unheard, panicked>>

HandlePanics(t) == pc[t] \in {"askWait", "tellWait"} /\ ~ HasGate /\ Panic

\* A service comes, goes or changes as it likes.
Live(s) ==
  /\ Publish(s) \/ Terminate(s) \/ OwnChange(s)
  /\ UNCHANGED <<stage, existing, unheard, panicked>>

\* The notifier that hears of s, once it is installed and until it is removed.
Due(s) ==
  /\ s \notin unheard
  /\ \/ phase[s] = "arriving" /\ stage \in {"publishInstalled", "publishAssigned",
                                   "terminateInstalled", "running", "gateGone"}
     \/ phase[s] = "leaving" /\ stage \in {"terminateInstalled", "running",
                                  "gateGone", "publishRemoved"}

\* Whether the notifier that hears of s has been assigned to its member.
Assigned(s) ==
  IF phase[s] = "arriving" THEN stage # "publishInstalled"
                           ELSE stage # "terminateInstalled"

\* notificationHandler knows the notifier ...
Hear(s) ==
  /\ Due(s) /\ Assigned(s) /\ HasGate
  /\ NotificationHandler(s)
  /\ UNCHANGED <<stage, existing, unheard, panicked>>

\* ... or does not, for the service is there too early.
Ignore(s) ==
  /\ Due(s) /\ ~ Assigned(s) /\ gate = Nobody
  /\ unheard' = unheard \cup {s} /\ existing' = existing \ {s}
  /\ UNCHANGED <<vars, stage, panicked>>

\* No terminate notifier is installed yet: nobody hears that s leaves.
LeaveUnheard(s) ==
  /\ phase[s] = "leaving" /\ s \notin unheard /\ stage = "publishAssigned"
  /\ unheard' = unheard \cup {s}
  /\ UNCHANGED <<vars, stage, existing, panicked>>

\* The notifiers outlive the gate.
HearPanics(s) == Due(s) /\ ~ HasGate /\ Panic

-----------------------------------------------------------------------------
StartStep == Probe \/ MakeGate \/ PublishStatus \/ InstallPublish
             \/ AssignPublish \/ InstallTerminate \/ AssignTerminate
StopStep == StopGate \/ StopNotifiers
Notification(s) == Hear(s) \/ Ignore(s) \/ HearPanics(s)

BootNext ==
  /\ ~ panicked
  /\ \/ StartStep \/ StopStep
     \/ \E t \in Handlers : Notify(t) \/ Handle(t) \/ HandlePanics(t)
     \/ \E s \in Services : Live(s) \/ Notification(s) \/ LeaveUnheard(s)

BootSpec == BootInit /\ [][BootNext]_bootVars

\* start is not interrupted for ever, and the rest is as fair as in Touchpad.
BootFairness ==
  /\ WF_bootVars(~ panicked /\ StartStep)
  /\ \A t \in Handlers : SF_bootVars(~ panicked /\ Handle(t))
  /\ \A s \in Services : SF_bootVars(~ panicked /\ Notification(s))

FairBootSpec == BootSpec /\ BootFairness

-----------------------------------------------------------------------------
(***************************************************************************)
(* Properties.                                                             *)
(***************************************************************************)

\* The machine panics in probe, under a key that came before start, or after
\* stop has given the gate up -- but never because start makes things in the
\* wrong order: no notification meets a gate that is not there yet.
StartInOrder ==
  panicked => \/ stage \in {"probing", "gateGone", "publishRemoved", "stopped"}
              \/ EarlyKeys /\ stage \in {"attached", "failed"}

\* README.md:13 promises "Full Fn keys support": every consumer of a driver
\* that runs gets known to it, so that the touchpad key reaches it.
ConsumersKnown ==
  \A s \in Services :
    (stage = "running" /\ phase[s] = "arriving")
       ~> (phase[s] # "arriving" \/ stage # "running" \/ panicked)

=============================================================================
