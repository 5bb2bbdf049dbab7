------------------------------ MODULE Touchpad ------------------------------
(***************************************************************************)
(* The touchpad key (Fn + F9, event 0x6B) and the consumers of the         *)
(* driver's notifications.                                                 *)
(*                                                                         *)
(* Handlers are the threads on which the platform calls AsusSMC::message;  *)
(* toggleTouchpad runs on them.  It asks every registered consumer for the *)
(* touchpad's status, inverts the answer, tells every consumer, and        *)
(* publishes the registry property.  Both rounds of messages run under the *)
(* command gate, as does the handler of the publish and terminate          *)
(* notifications that maintains the set of consumers.  What lies between   *)
(* the rounds runs under no lock.                                          *)
(*                                                                         *)
(* External, modelled from how the driver uses it: IOCommandGate (a lock), *)
(* OSSet and its iterator, the notifications of IOKit (delivered to one    *)
(* service in the order they were raised), and the consumers, which answer *)
(* kKeyboardGetTouchStatus with their status and adopt the status of       *)
(* kKeyboardSetTouchStatus.                                                *)
(***************************************************************************)
CONSTANTS Handlers,  \* threads that deliver ACPI notifications to message()
          Services,  \* services that may ask for RM,deliverNotifications
          Nobody     \* owner of an open command gate, "no answer heard"

ASSUME NobodyAssumption == Nobody \notin Handlers /\ Nobody \notin BOOLEAN

VARIABLES
  pc,                     \* where each handler is in toggleTouchpad
  gate,                   \* the handler inside the command gate, or Nobody
  todo,                   \* services a handler's iterator has still to visit
  seen,                   \* isTouchpadEnabled as the handler last loaded it
  isTouchpadEnabled,      \* the driver's flag, shared by all handlers
  touchpadProperty,       \* registry property "IsTouchpadEnabled"
  notificationServices,   \* the set of registered consumers
  phase,                  \* each service's life as IOKit sees it
  touch,                  \* the touchpad status each consumer is in
  told,                   \* ghost: services whose status is what they were last told
  heard,                  \* ghost: the last answer a handler's question got
  own                     \* ghost: turns over with every change a consumer makes itself

vars == <<pc, gate, todo, seen, isTouchpadEnabled, touchpadProperty,
          notificationServices, phase, touch, told, heard, own>>

Phases == {"absent", "arriving", "present", "leaving"}
Steps == {"idle", "askWait", "asking", "loadFlag", "storeFlag",
          "tellWait", "telling", "checkFlag", "setProperty"}

\* The two rounds of dispatchMessage: where a round waits, runs and returns to.
InGate == {"asking", "telling"}
Enter(step) == IF step = "askWait" THEN "asking" ELSE "telling"
Leave(step) == IF step = "asking" THEN "loadFlag" ELSE "checkFlag"

TypeOK ==
  /\ pc \in [Handlers -> Steps]
  /\ gate \in Handlers \cup {Nobody}
  /\ todo \in [Handlers -> SUBSET Services]
  /\ seen \in [Handlers -> BOOLEAN]
  /\ isTouchpadEnabled \in BOOLEAN
  /\ touchpadProperty \in BOOLEAN
  /\ notificationServices \in SUBSET Services
  /\ phase \in [Services -> Phases]
  /\ touch \in [Services -> BOOLEAN]
  /\ told \in SUBSET Services
  /\ heard \in [Handlers -> BOOLEAN \cup {Nobody}]
  /\ own \in BOOLEAN

Init ==
  /\ pc = [t \in Handlers |-> "idle"]
  /\ gate = Nobody
  /\ todo = [t \in Handlers |-> {}]
  /\ seen = [t \in Handlers |-> FALSE]
  /\ isTouchpadEnabled = TRUE
  /\ touchpadProperty = TRUE
  /\ notificationServices = {}
  /\ phase = [s \in Services |-> "absent"]
  /\ touch \in [Services -> BOOLEAN]
  /\ told = {}
  /\ heard = [t \in Handlers |-> Nobody]
  /\ own = FALSE

-----------------------------------------------------------------------------
(***************************************************************************)
(* IOKit and the consumers.                                                *)
(***************************************************************************)

\* A service with RM,deliverNotifications is published, in a status of its own.
Publish(s) ==
  /\ phase[s] = "absent"
  /\ phase' = [phase EXCEPT ![s] = "arriving"]
  /\ \E status \in BOOLEAN : touch' = [touch EXCEPT ![s] = status]
  /\ told' = told \ {s}
  /\ UNCHANGED <<pc, gate, todo, seen, isTouchpadEnabled, touchpadProperty,
                 notificationServices, heard, own>>

\* A registered service is terminated: unplugged, unloaded, reset.
Terminate(s) ==
  /\ phase[s] = "present"
  /\ phase' = [phase EXCEPT ![s] = "leaving"]
  /\ UNCHANGED <<pc, gate, todo, seen, isTouchpadEnabled, touchpadProperty,
                 notificationServices, touch, told, heard, own>>

\* A consumer changes its status on its own account.
OwnChange(s) ==
  /\ phase[s] = "present"
  /\ touch' = [touch EXCEPT ![s] = ~ touch[s]]
  /\ told' = told \ {s}
  /\ own' = ~ own
  /\ UNCHANGED <<pc, gate, todo, seen, isTouchpadEnabled, touchpadProperty,
                 notificationServices, phase, heard>>

\* A plausible slip: the terminated consumer is never taken out of the set.
NotificationHandlerKeeps(s) ==
  /\ gate = Nobody
  /\ phase[s] \in {"arriving", "leaving"}
  /\ notificationServices' = notificationServices \cup {s}
  /\ phase' = [phase EXCEPT ![s] = IF phase[s] = "arriving" THEN "present" ELSE "absent"]
  /\ UNCHANGED <<pc, gate, todo, seen, isTouchpadEnabled, touchpadProperty,
                 touch, told, heard, own>>

\* notificationHandler runs notificationHandlerGated inside the command gate.
NotificationHandler(s) ==
  /\ gate = Nobody
  /\ \/ /\ phase[s] = "arriving"
        /\ notificationServices' = notificationServices \cup {s}
        /\ phase' = [phase EXCEPT ![s] = "present"]
     \/ /\ phase[s] = "leaving"
        /\ notificationServices' = notificationServices \ {s}
        /\ phase' = [phase EXCEPT ![s] = "absent"]
  /\ UNCHANGED <<pc, gate, todo, seen, isTouchpadEnabled, touchpadProperty,
                 touch, told, heard, own>>

-----------------------------------------------------------------------------
(***************************************************************************)
(* toggleTouchpad on handler t.                                            *)
(***************************************************************************)
Goto(t, step) == pc' = [pc EXCEPT ![t] = step]

\* handleMessage(0x6B) calls toggleTouchpad.
TouchpadKey(t) ==
  /\ pc[t] = "idle"
  /\ Goto(t, "askWait")
  /\ heard' = [heard EXCEPT ![t] = Nobody]
  /\ UNCHANGED <<gate, todo, seen, isTouchpadEnabled, touchpadProperty,
                 notificationServices, phase, touch, told, own>>

\* dispatchMessage enters the gate, whose lock is recursive; the iterator may
\* not be allocated, and then nobody gets the message.
BeginDispatch(t) ==
  /\ pc[t] \in {"askWait", "tellWait"}
  /\ gate \in {Nobody, t}
  /\ gate' = t
  /\ Goto(t, Enter(pc[t]))
  /\ \/ todo' = [todo EXCEPT ![t] = notificationServices] /\ told' = told
     \/ /\ todo' = [todo EXCEPT ![t] = {}]
        /\ told' = IF pc[t] = "tellWait" THEN told \ notificationServices ELSE told
  /\ UNCHANGED <<seen, isTouchpadEnabled, touchpadProperty,
                 notificationServices, phase, touch, heard, own>>

\* A plausible slip: the flag is overwritten with an answer not yet given.
AskBeforeAnswer(t, s) ==
  /\ pc[t] = "asking"
  /\ s \in todo[t]
  /\ todo' = [todo EXCEPT ![t] = @ \ {s}]
  /\ isTouchpadEnabled' = heard[t]
  /\ heard' = [heard EXCEPT ![t] = touch[s]]
  /\ UNCHANGED <<pc, gate, seen, touchpadProperty, notificationServices,
                 phase, touch, told, own>>

\* kKeyboardGetTouchStatus: the consumer writes through &isTouchpadEnabled.
Ask(t, s) ==
  /\ pc[t] = "asking"
  /\ s \in todo[t]
  /\ todo' = [todo EXCEPT ![t] = @ \ {s}]
  /\ isTouchpadEnabled' = touch[s]
  /\ heard' = [heard EXCEPT ![t] = touch[s]]
  /\ UNCHANGED <<pc, gate, seen, touchpadProperty, notificationServices,
                 phase, touch, told, own>>

\* kKeyboardSetTouchStatus: the consumer reads the flag through the pointer,
\* so it gets the flag's value at that moment.
Tell(t, s) ==
  /\ pc[t] = "telling"
  /\ s \in todo[t]
  /\ todo' = [todo EXCEPT ![t] = @ \ {s}]
  /\ touch' = [touch EXCEPT ![s] = isTouchpadEnabled]
  /\ told' = told \cup {s}
  /\ UNCHANGED <<pc, gate, seen, isTouchpadEnabled, touchpadProperty,
                 notificationServices, phase, heard, own>>

\* A plausible slip: the round ends one consumer too soon.
EndDispatchEarly(t) ==
  /\ pc[t] \in InGate
  /\ \E s \in Services : todo[t] \subseteq {s}
  /\ gate' = Nobody
  /\ Goto(t, Leave(pc[t]))
  /\ todo' = [todo EXCEPT ![t] = {}]
  /\ UNCHANGED <<seen, isTouchpadEnabled, touchpadProperty,
                 notificationServices, phase, touch, told, heard, own>>

\* The iterator is exhausted: dispatchMessageGated returns and leaves the gate.
EndDispatch(t) ==
  /\ pc[t] \in InGate
  /\ todo[t] = {}
  /\ gate' = Nobody
  /\ Goto(t, Leave(pc[t]))
  /\ UNCHANGED <<todo, seen, isTouchpadEnabled, touchpadProperty,
                 notificationServices, phase, touch, told, heard, own>>

\* isTouchpadEnabled is read: by the inversion, and to choose the property.
LoadFlag(t) ==
  /\ \/ pc[t] = "loadFlag" /\ Goto(t, "storeFlag")
     \/ pc[t] = "checkFlag" /\ Goto(t, "setProperty")
  /\ seen' = [seen EXCEPT ![t] = isTouchpadEnabled]
  /\ UNCHANGED <<gate, todo, isTouchpadEnabled, touchpadProperty,
                 notificationServices, phase, touch, told, heard, own>>

\* A plausible slip: the answer of the consumers is stored back uninverted.
StoreFlagUninverted(t) ==
  /\ pc[t] = "storeFlag"
  /\ isTouchpadEnabled' = seen[t]
  /\ Goto(t, "tellWait")
  /\ UNCHANGED <<gate, todo, seen, touchpadProperty, notificationServices,
                 phase, touch, told, heard, own>>

\* isTouchpadEnabled = !isTouchpadEnabled, the store.
StoreFlag(t) ==
  /\ pc[t] = "storeFlag"
  /\ isTouchpadEnabled' = ~ seen[t]
  /\ Goto(t, "tellWait")
  /\ UNCHANGED <<gate, todo, seen, touchpadProperty, notificationServices,
                 phase, touch, told, heard, own>>

\* setProperty("IsTouchpadEnabled", ...), and the handler returns.
SetProperty(t) ==
  /\ pc[t] = "setProperty"
  /\ touchpadProperty' = seen[t]
  /\ Goto(t, "idle")
  /\ UNCHANGED <<gate, todo, seen, isTouchpadEnabled, notificationServices,
                 phase, touch, told, heard, own>>

-----------------------------------------------------------------------------
Toggle(t) ==
  \/ BeginDispatch(t)
  \/ \E s \in Services : Ask(t, s) \/ Tell(t, s)
  \/ EndDispatch(t)
  \/ LoadFlag(t)
  \/ StoreFlag(t)
  \/ SetProperty(t)

Consumer(s) == Publish(s) \/ Terminate(s) \/ OwnChange(s) \/ NotificationHandler(s)

Next ==
  \/ \E t \in Handlers : TouchpadKey(t) \/ Toggle(t)
  \/ \E s \in Services : Consumer(s)

Spec == Init /\ [][Next]_vars

\* A handler and a notification thread that wait for the gate get it when it
\* is free again and again (the gate's lock does not starve a waiter); a
\* handler that needs no lock runs.  Nothing makes a user press a key or a
\* service come, go or change.
Fairness ==
  /\ \A t \in Handlers : SF_vars(Toggle(t))
  /\ \A s \in Services : SF_vars(NotificationHandler(s))

FairSpec == Spec /\ Fairness

-----------------------------------------------------------------------------
(***************************************************************************)
(* Properties.                                                             *)
(***************************************************************************)

\* The set of consumers never changes under an iterator (dispatchMessageGated
\* against notificationHandlerGated): OSCollectionIterator would stop short.
IterationIsolated ==
  [][(\E t \in Handlers : pc[t] \in InGate) =>
        notificationServices' = notificationServices]_vars

\* When no handler is between its first question and the end of its last
\* message, every registered consumer whose status is still the one it was
\* told is in the status the driver's flag says -- on any number of threads.
ConsumersAgree ==
  (\A t \in Handlers : pc[t] \in {"idle", "checkFlag", "setProperty"}) =>
     \A s \in notificationServices \cap told : touch[s] = isTouchpadEnabled

\* On one thread the key really toggles: the flag becomes the inverse of the
\* status the last consumer asked reported, whatever the driver believed, and
\* a finished toggle leaves flag and registry property equal.
KeyToggles ==
  [][\A t \in Handlers :
       /\ (pc[t] = "storeFlag" /\ pc'[t] # pc[t] /\ heard[t] # Nobody) =>
             isTouchpadEnabled' = (heard[t] = FALSE)
       /\ (pc[t] # "idle" /\ pc'[t] = "idle") =>
             touchpadProperty' = isTouchpadEnabled']_vars

\* On one thread the key is a broadcast.  The press is decided when the inverted
\* answer is stored, and the message is sent when its round has the gate: the
\* services still to be visited then count as told.
Undecided == \E t \in Handlers : pc[t] \in {"asking", "loadFlag", "storeFlag"}
Unvisited(s) == \E t \in Handlers : pc[t] = "telling" /\ s \in todo[t]

Promise == INSTANCE Broadcast WITH
  Unknown <- Nobody,
  value   <- IF Undecided THEN Nobody ELSE isTouchpadEnabled,
  members <- notificationServices,
  life    <- phase,
  view    <- [s \in Services |-> IF Unvisited(s) THEN isTouchpadEnabled ELSE touch[s]]

\* A round of messages takes effect at one instant, on exactly the services
\* registered then or, without an iterator, on none: a consumer that a round
\* misses, or whose status changes without a message and not of its own accord,
\* is no step of Broadcast (dispatchMessageGated, AsusSMC.cpp:795-805).
RoundsAtomic == Promise!Spec

\* A consumer that comes is eventually known to the driver, and one that goes
\* forgotten: its notification does not wait for the gate for ever.
ConsumersHeard ==
  \A s \in Services :
    /\ phase[s] = "arriving" ~> s \in notificationServices
    /\ phase[s] = "leaving" ~> s \notin notificationServices

=============================================================================
