--------------------------- MODULE TouchpadProofs ---------------------------
(***************************************************************************)
(* Proofs about the touchpad key, for every set of handler threads and     *)
(* every set of services.                                                  *)
(*                                                                         *)
(* ConsumersAgree is not inductive: it says nothing while a toggle runs.   *)
(* Told strengthens it: a consumer that was told something else than the   *)
(* flag's present value still has a message coming from some handler.      *)
(***************************************************************************)
EXTENDS Touchpad, TLAPS

\* The gate is owned by exactly the handler that is inside it.
GateHeld == \A t \in Handlers : pc[t] \in InGate <=> gate = t

\* An iterator is live only inside the gate and visits registered services.
TodoRegistered ==
  \A t \in Handlers : /\ todo[t] \subseteq notificationServices
                      /\ pc[t] \notin InGate => todo[t] = {}

\* Only services that were published, and not yet forgotten, are registered;
\* one whose publication is still to be handled was told nothing.
LifeCycle ==
  \A s \in Services :
    /\ s \in notificationServices => phase[s] \in {"present", "leaving"}
    /\ phase[s] = "arriving" => s \notin told

\* Handler t has still to tell consumer s the flag's value.
WillTell(t, s) ==
  \/ pc[t] \in {"asking", "loadFlag", "storeFlag", "tellWait"}
  \/ pc[t] = "telling" /\ s \in todo[t]

Told ==
  \A s \in notificationServices \cap told :
     touch[s] = isTouchpadEnabled \/ \E t \in Handlers : WillTell(t, s)

IInv == TypeOK /\ GateHeld /\ TodoRegistered /\ LifeCycle /\ Told

-----------------------------------------------------------------------------
\* No step takes a variable out of its type.
LEMMA TypeStep == ASSUME TypeOK, [Next]_vars PROVE TypeOK'
<1> USE NobodyAssumption
<1> USE DEF TypeOK, Steps, Phases, Goto, InGate
<1>1. ASSUME NEW t \in Handlers, TouchpadKey(t) PROVE TypeOK'
  BY <1>1 DEF TouchpadKey
<1>2. ASSUME NEW t \in Handlers, BeginDispatch(t) PROVE TypeOK'
  BY <1>2 DEF BeginDispatch, Enter
<1>3. ASSUME NEW t \in Handlers, NEW s \in Services, Ask(t, s) PROVE TypeOK'
  BY <1>3 DEF Ask
<1>4. ASSUME NEW t \in Handlers, NEW s \in Services, Tell(t, s) PROVE TypeOK'
  BY <1>4 DEF Tell
<1>5. ASSUME NEW t \in Handlers, EndDispatch(t) PROVE TypeOK'
  BY <1>5 DEF EndDispatch, Leave
<1>6. ASSUME NEW t \in Handlers, LoadFlag(t) PROVE TypeOK'
  BY <1>6 DEF LoadFlag
<1>7. ASSUME NEW t \in Handlers, StoreFlag(t) PROVE TypeOK'
  BY <1>7 DEF StoreFlag
<1>8. ASSUME NEW t \in Handlers, SetProperty(t) PROVE TypeOK'
  BY <1>8 DEF SetProperty
<1>9. ASSUME NEW s \in Services, Consumer(s) PROVE TypeOK'
  <2>1. CASE Publish(s)
    BY <2>1 DEF Publish
  <2>2. CASE Terminate(s)
    BY <2>2 DEF Terminate
  <2>3. CASE OwnChange(s)
    BY <2>3 DEF OwnChange
  <2>4. CASE NotificationHandler(s)
    BY <2>4 DEF NotificationHandler
  <2>5. QED
    BY <1>9, <2>1, <2>2, <2>3, <2>4 DEF Consumer
<1>10. CASE UNCHANGED vars
  BY <1>10 DEF vars
<1>11. QED
  BY <1>1, <1>2, <1>3, <1>4, <1>5, <1>6, <1>7, <1>8, <1>9, <1>10
  DEF Next, Toggle

\* The variables of the touchpad key stay within their types.
THEOREM TypeCorrect == Spec => []TypeOK
<1>1. Init => TypeOK
  BY NobodyAssumption DEF Init, TypeOK, Steps, Phases
<1>2. QED
  BY <1>1, TypeStep, PTL DEF Spec

-----------------------------------------------------------------------------
\* What holds of the gate, the iterators and the set of consumers, apart from
\* the flag: preserved by every step.
LEMMA RegistrationStep ==
  ASSUME TypeOK, GateHeld, TodoRegistered, LifeCycle, [Next]_vars
  PROVE  (GateHeld /\ TodoRegistered /\ LifeCycle)'
<1> USE NobodyAssumption DEF TypeOK, GateHeld, TodoRegistered, LifeCycle,
        Steps, Phases, Goto, InGate
<1>1. ASSUME NEW t \in Handlers, TouchpadKey(t)
      PROVE  (GateHeld /\ TodoRegistered /\ LifeCycle)'
  BY <1>1 DEF TouchpadKey
<1>2. ASSUME NEW t \in Handlers, BeginDispatch(t)
      PROVE  (GateHeld /\ TodoRegistered /\ LifeCycle)'
  <2>1. pc' = [pc EXCEPT ![t] = Enter(pc[t])] /\ Enter(pc[t]) \in InGate
    BY <1>2 DEF BeginDispatch, Enter
  <2>2. GateHeld'
    BY <1>2, <2>1 DEF BeginDispatch
  <2>3. TodoRegistered'
    BY <1>2, <2>1 DEF BeginDispatch
  <2>4. LifeCycle'
    BY <1>2 DEF BeginDispatch
  <2>5. QED
    BY <2>2, <2>3, <2>4
<1>3. ASSUME NEW t \in Handlers, NEW s \in Services, Ask(t, s)
      PROVE  (GateHeld /\ TodoRegistered /\ LifeCycle)'
  BY <1>3 DEF Ask
<1>4. ASSUME NEW t \in Handlers, NEW s \in Services, Tell(t, s)
      PROVE  (GateHeld /\ TodoRegistered /\ LifeCycle)'
  BY <1>4 DEF Tell
<1>5. ASSUME NEW t \in Handlers, EndDispatch(t)
      PROVE  (GateHeld /\ TodoRegistered /\ LifeCycle)'
  BY <1>5 DEF EndDispatch, Leave
<1>6. ASSUME NEW t \in Handlers, LoadFlag(t)
      PROVE  (GateHeld /\ TodoRegistered /\ LifeCycle)'
  BY <1>6 DEF LoadFlag
<1>7. ASSUME NEW t \in Handlers, StoreFlag(t)
      PROVE  (GateHeld /\ TodoRegistered /\ LifeCycle)'
  BY <1>7 DEF StoreFlag
<1>8. ASSUME NEW t \in Handlers, SetProperty(t)
      PROVE  (GateHeld /\ TodoRegistered /\ LifeCycle)'
  BY <1>8 DEF SetProperty
<1>9. ASSUME NEW s \in Services, Publish(s) \/ Terminate(s) \/ OwnChange(s)
      PROVE  (GateHeld /\ TodoRegistered /\ LifeCycle)'
  BY <1>9 DEF Publish, Terminate, OwnChange
<1>10. ASSUME NEW s \in Services, NotificationHandler(s)
       PROVE  (GateHeld /\ TodoRegistered /\ LifeCycle)'
  <2>1. \A t \in Handlers : pc[t] \notin InGate /\ todo[t] = {}
    BY <1>10 DEF NotificationHandler
  <2>2. GateHeld' /\ TodoRegistered'
    BY <1>10, <2>1 DEF NotificationHandler
  <2>3. LifeCycle'
    BY <1>10 DEF NotificationHandler
  <2>4. QED
    BY <2>2, <2>3
<1>11. CASE UNCHANGED vars
  BY <1>11 DEF vars
<1>12. QED
  BY <1>1, <1>2, <1>3, <1>4, <1>5, <1>6, <1>7, <1>8, <1>9, <1>10, <1>11
  DEF Next, Toggle, Consumer

-----------------------------------------------------------------------------
\* Told is preserved: whoever changes the flag has still to tell everybody.
LEMMA ToldStep ==
  ASSUME TypeOK, GateHeld, TodoRegistered, LifeCycle, Told, [Next]_vars
  PROVE  Told'
<1> USE NobodyAssumption DEF TypeOK, Told, WillTell, Steps, Phases, Goto, InGate
<1>1. ASSUME NEW t \in Handlers, TouchpadKey(t) PROVE Told'
  BY <1>1 DEF TouchpadKey
<1>2. ASSUME NEW t \in Handlers, BeginDispatch(t) PROVE Told'
  <2> SUFFICES ASSUME NEW s \in notificationServices, s \in told'
               PROVE  touch[s] = isTouchpadEnabled \/ (\E u \in Handlers : WillTell(u, s)')
    BY <1>2 DEF BeginDispatch
  <2>1. s \in told /\ s \in Services
    BY <1>2 DEF BeginDispatch
  <2>2. CASE pc[t] = "askWait"
    <3>1. pc'[t] = "asking"
      BY <1>2, <2>2 DEF BeginDispatch, Enter
    <3>2. QED
      BY <3>1
  <2>3. CASE pc[t] = "tellWait"
    <3>1. todo' = [todo EXCEPT ![t] = notificationServices] /\ pc'[t] = "telling"
      BY <1>2, <2>3 DEF BeginDispatch, Enter
    <3>2. QED
      BY <3>1
  <2>4. QED
    BY <1>2, <2>2, <2>3 DEF BeginDispatch
<1>3. ASSUME NEW t \in Handlers, NEW s \in Services, Ask(t, s) PROVE Told'
  BY <1>3 DEF Ask
<1>4. ASSUME NEW t \in Handlers, NEW s \in Services, Tell(t, s) PROVE Told'
  BY <1>4 DEF Tell
<1>5. ASSUME NEW t \in Handlers, EndDispatch(t) PROVE Told'
  BY <1>5 DEF EndDispatch, Leave
<1>6. ASSUME NEW t \in Handlers, LoadFlag(t) PROVE Told'
  BY <1>6 DEF LoadFlag
<1>7. ASSUME NEW t \in Handlers, StoreFlag(t) PROVE Told'
  BY <1>7 DEF StoreFlag
<1>8. ASSUME NEW t \in Handlers, SetProperty(t) PROVE Told'
  BY <1>8 DEF SetProperty
<1>9. ASSUME NEW s \in Services, Publish(s) \/ Terminate(s) \/ OwnChange(s)
      PROVE  Told'
  BY <1>9 DEF Publish, Terminate, OwnChange
<1>10. ASSUME NEW s \in Services, NotificationHandler(s) PROVE Told'
  BY <1>10 DEF NotificationHandler, LifeCycle
<1>11. CASE UNCHANGED vars
  BY <1>11 DEF vars
<1>12. QED
  BY <1>1, <1>2, <1>3, <1>4, <1>5, <1>6, <1>7, <1>8, <1>9, <1>10, <1>11
  DEF Next, Toggle, Consumer

-----------------------------------------------------------------------------
\* The inductive invariant holds of every behaviour of the touchpad key.
THEOREM Inductive == Spec => []IInv
<1>1. Init => IInv
  BY NobodyAssumption
  DEF Init, IInv, TypeOK, GateHeld, TodoRegistered, LifeCycle, Told,
      Steps, Phases, InGate
<1>2. IInv /\ TypeOK' /\ [Next]_vars => IInv'
  BY RegistrationStep, ToldStep DEF IInv
<1>3. QED
  BY <1>1, <1>2, TypeCorrect, PTL DEF Spec

\* Whatever the threads do, once no toggle is between its first question and
\* its last message, the consumers it told are in the status of the flag.
THEOREM Agreement == Spec => []ConsumersAgree
<1>1. IInv => ConsumersAgree
  BY DEF IInv, Told, WillTell, ConsumersAgree
<1>2. QED
  BY <1>1, Inductive, PTL

\* The command gate keeps the set of consumers still under every iterator.
THEOREM Isolation == Spec => IterationIsolated
<1>1. IInv /\ [Next]_vars =>
        [(\E t \in Handlers : pc[t] \in InGate) =>
            notificationServices' = notificationServices]_vars
  <2> SUFFICES ASSUME IInv, [Next]_vars, NEW t \in Handlers, pc[t] \in InGate
               PROVE  notificationServices' = notificationServices
    OBVIOUS
  <2>1. gate # Nobody
    BY NobodyAssumption DEF IInv, GateHeld
  <2>2. QED
    BY <2>1 DEF Next, Toggle, Consumer, vars, TouchpadKey, BeginDispatch, Ask,
            Tell, EndDispatch, LoadFlag, StoreFlag, SetProperty, Publish,
            Terminate, OwnChange, NotificationHandler
<1>2. QED
  BY <1>1, Inductive, PTL DEF Spec, IterationIsolated

-----------------------------------------------------------------------------
(***************************************************************************)
(* The refinement of Broadcast, on one handler thread.                     *)
(***************************************************************************)
Value == IF Undecided THEN Nobody ELSE isTouchpadEnabled
View == [s \in Services |-> IF Unvisited(s) THEN isTouchpadEnabled ELSE touch[s]]

\* What a step has to do to count as one of Broadcast, or as a stutter.
LEMMA SendsOrNot ==
  ASSUME UNCHANGED <<notificationServices, phase, own>>,
         \/ Value # Nobody /\ Value' = Nobody /\ View' = View
         \/ Value = Nobody /\ Value' \in BOOLEAN /\ View' = View
         \/ /\ Value # Nobody /\ Value' = Value
            /\ View' = [s \in Services |->
                          IF s \in notificationServices THEN Value ELSE View[s]]
         \/ Value' = Value /\ View' = View
  PROVE  [Promise!Next]_(Promise!vars)
  BY DEF Promise!Next, Promise!vars, Promise!Ask, Promise!Decide, Promise!Send,
         Value, View

\* What the arrival, the leaving or the own change of a service has to do.
LEMMA ComesOrGoes ==
  ASSUME NEW s \in Services, Value' = Value,
         \/ /\ phase[s] = "absent" /\ phase' = [phase EXCEPT ![s] = "arriving"]
            /\ \E status \in BOOLEAN : View' = [View EXCEPT ![s] = status]
            /\ UNCHANGED <<notificationServices, own>>
         \/ /\ phase[s] = "arriving" /\ phase' = [phase EXCEPT ![s] = "present"]
            /\ notificationServices' = notificationServices \cup {s}
            /\ View' = View /\ own' = own
         \/ /\ phase[s] = "present" /\ phase' = [phase EXCEPT ![s] = "leaving"]
            /\ View' = View /\ UNCHANGED <<notificationServices, own>>
         \/ /\ phase[s] = "leaving" /\ phase' = [phase EXCEPT ![s] = "absent"]
            /\ notificationServices' = notificationServices \ {s}
            /\ View' = View /\ own' = own
         \/ /\ phase[s] = "present" /\ own' = ~ own
            /\ \E status \in BOOLEAN : View' = [View EXCEPT ![s] = status]
            /\ UNCHANGED <<notificationServices, phase>>
  PROVE  [Promise!Next]_(Promise!vars)
  BY DEF Promise!Next, Promise!Arrive, Promise!Join, Promise!Depart, Promise!Leave,
         Promise!Drift, Promise!Step, Promise!Set, Value, View

LEMMA AtomicStep ==
  ASSUME NEW h, Handlers = {h}, IInv, TypeOK', [Next]_vars
  PROVE  [Promise!Next]_(Promise!vars)
<1> USE NobodyAssumption
<1>0. /\ Undecided <=> pc[h] \in {"asking", "loadFlag", "storeFlag"}
      /\ Undecided' <=> pc'[h] \in {"asking", "loadFlag", "storeFlag"}
      /\ \A s : Unvisited(s) <=> (pc[h] = "telling" /\ s \in todo[h])
      /\ \A s : Unvisited(s)' <=> (pc'[h] = "telling" /\ s \in todo'[h])
  BY DEF Undecided, Unvisited
<1> USE DEF IInv, TypeOK, Goto, Value, View, Steps
<1>1. CASE TouchpadKey(h)
  BY <1>1, <1>0, SendsOrNot DEF TouchpadKey
<1>2. CASE BeginDispatch(h)
  <2>1. CASE pc[h] = "askWait"
    BY <1>2, <2>1, <1>0, SendsOrNot DEF BeginDispatch, Enter
  <2>2. CASE pc[h] = "tellWait"
    BY <1>2, <2>2, <1>0, SendsOrNot DEF BeginDispatch, Enter
  <2>3. QED
    BY <1>2, <2>1, <2>2 DEF BeginDispatch
<1>3. ASSUME NEW s \in Services, Ask(h, s) PROVE [Promise!Next]_(Promise!vars)
  BY <1>3, <1>0, SendsOrNot DEF Ask
<1>4. ASSUME NEW s \in Services, Tell(h, s) PROVE [Promise!Next]_(Promise!vars)
  <2>1. pc' = pc /\ ~ Unvisited(s)' /\ touch'[s] = isTouchpadEnabled
    BY <1>4, <1>0 DEF Tell
  <2>2. ASSUME NEW r \in Services, r # s
        PROVE  (Unvisited(r)' <=> Unvisited(r)) /\ touch'[r] = touch[r]
    BY <1>4, <1>0, <2>2 DEF Tell
  <2>3. Unvisited(s) /\ isTouchpadEnabled' = isTouchpadEnabled
    BY <1>4, <1>0 DEF Tell
  <2>4. View' = View
    BY <2>1, <2>2, <2>3
  <2>5. Value' = Value /\ UNCHANGED <<notificationServices, phase, own>>
    BY <1>4, <1>0 DEF Tell
  <2>6. QED
    BY <2>4, <2>5, SendsOrNot
<1>5. CASE EndDispatch(h)
  BY <1>5, <1>0, SendsOrNot DEF EndDispatch, Leave, InGate
<1>6. CASE LoadFlag(h)
  BY <1>6, <1>0, SendsOrNot DEF LoadFlag
<1>7. CASE StoreFlag(h)
  BY <1>7, <1>0, SendsOrNot DEF StoreFlag
<1>8. CASE SetProperty(h)
  BY <1>8, <1>0, SendsOrNot DEF SetProperty
<1>9. ASSUME NEW s \in Services, Consumer(s) PROVE [Promise!Next]_(Promise!vars)
  <2>1. UNCHANGED <<pc, todo, isTouchpadEnabled>>
    BY <1>9 DEF Consumer, Publish, Terminate, OwnChange, NotificationHandler
  <2>2. Value' = Value /\ \A r : Unvisited(r)' <=> Unvisited(r)
    BY <2>1, <1>0
  <2>3. ASSUME NEW status \in BOOLEAN, touch' = [touch EXCEPT ![s] = status]
        PROVE  \E other \in BOOLEAN : View' = [View EXCEPT ![s] = other]
    <3>1. View' = IF Unvisited(s) THEN View ELSE [View EXCEPT ![s] = status]
      BY <2>1, <2>2, <2>3
    <3>2. View = [View EXCEPT ![s] = View[s]] /\ View[s] \in BOOLEAN
      OBVIOUS
    <3>3. QED
      BY <3>1, <3>2, Zenon
  <2>4. CASE Publish(s)
    BY <2>2, <2>3, <2>4, ComesOrGoes DEF Publish
  <2>5. CASE OwnChange(s)
    <3>1. \E other \in BOOLEAN : View' = [View EXCEPT ![s] = other]
      BY <2>3, <2>5 DEF OwnChange
    <3>2. QED
      BY <2>2, <2>5, <3>1, ComesOrGoes DEF OwnChange
  <2>6. View' = View \/ touch' # touch
    BY <2>1, <2>2
  <2>7. CASE Terminate(s)
    BY <2>2, <2>6, <2>7, ComesOrGoes DEF Terminate
  <2>8. CASE NotificationHandler(s)
    BY <2>2, <2>6, <2>8, ComesOrGoes DEF NotificationHandler
  <2>9. QED
    BY <1>9, <2>4, <2>5, <2>7, <2>8 DEF Consumer
<1>10. CASE UNCHANGED vars
  BY <1>10, <1>0, SendsOrNot DEF vars
<1>11. QED
  BY <1>1, <1>2, <1>3, <1>4, <1>5, <1>6, <1>7, <1>8, <1>9, <1>10 DEF Next, Toggle

\* On one handler thread each round of messages is as good as one instant and
\* reaches exactly the services registered then, or none, for any services:
\* Touchpad implements Broadcast, where nothing else alters a service's status
\* but the service itself.
THEOREM Atomicity == (\E h : Handlers = {h}) => (Spec => RoundsAtomic)
<1> SUFFICES ASSUME \E h : Handlers = {h} PROVE Spec => RoundsAtomic
  OBVIOUS
<1>1. Init => Promise!Init
  BY DEF Init, Promise!Init, Undecided, Unvisited
<1>2. IInv /\ TypeOK' /\ [Next]_vars => [Promise!Next]_(Promise!vars)
  BY AtomicStep
<1>3. QED
  BY <1>1, <1>2, TypeCorrect, Inductive, PTL DEF Spec, RoundsAtomic, Promise!Spec

-----------------------------------------------------------------------------
(***************************************************************************)
(* What a press of the key does, on one handler thread: nobody else writes *)
(* the flag while the handler has it in hand.                              *)
(***************************************************************************)

\* The last answer is the flag until it is inverted, and what was loaded is
\* still the flag when it is used.
InHand ==
  \A t \in Handlers :
    /\ pc[t] = "askWait" => heard[t] = Nobody
    /\ pc[t] \in {"asking", "loadFlag", "storeFlag"} =>
         heard[t] = Nobody \/ heard[t] = isTouchpadEnabled
    /\ pc[t] \in {"storeFlag", "setProperty"} => seen[t] = isTouchpadEnabled

LEMMA InHandStep ==
  ASSUME NEW h, Handlers = {h}, TypeOK, InHand, [Next]_vars
  PROVE  InHand'
<1> USE DEF InHand, Goto, TypeOK
<1>1. ASSUME TouchpadKey(h) PROVE InHand'
  BY <1>1 DEF TouchpadKey
<1>2. ASSUME BeginDispatch(h) PROVE InHand'
  BY <1>2 DEF BeginDispatch, Enter
<1>3. ASSUME NEW s \in Services, Ask(h, s) PROVE InHand'
  BY <1>3 DEF Ask
<1>4. ASSUME NEW s \in Services, Tell(h, s) PROVE InHand'
  BY <1>4 DEF Tell
<1>5. ASSUME EndDispatch(h) PROVE InHand'
  BY <1>5 DEF EndDispatch, Leave, InGate
<1>6. ASSUME LoadFlag(h) PROVE InHand'
  BY <1>6 DEF LoadFlag
<1>7. ASSUME StoreFlag(h) PROVE InHand'
  BY <1>7 DEF StoreFlag
<1>8. ASSUME SetProperty(h) PROVE InHand'
  BY <1>8 DEF SetProperty
<1>9. ASSUME NEW s \in Services, Consumer(s) PROVE InHand'
  BY <1>9 DEF Consumer, Publish, Terminate, OwnChange, NotificationHandler
<1>10. ASSUME UNCHANGED vars PROVE InHand'
  BY <1>10 DEF vars
<1>11. QED
  BY <1>1, <1>2, <1>3, <1>4, <1>5, <1>6, <1>7, <1>8, <1>9, <1>10
  DEF Next, Toggle

\* A press inverts what the last consumer asked is in, and a finished one
\* leaves flag and registry property equal, for any services.
THEOREM Toggling == (\E h : Handlers = {h}) => (Spec => KeyToggles)
<1> SUFFICES ASSUME NEW h, Handlers = {h} PROVE Spec => KeyToggles
  OBVIOUS
<1> DEFINE Press(t) ==
      /\ (pc[t] = "storeFlag" /\ pc'[t] # pc[t] /\ heard[t] # Nobody) =>
            isTouchpadEnabled' = (heard[t] = FALSE)
      /\ (pc[t] # "idle" /\ pc'[t] = "idle") =>
            touchpadProperty' = isTouchpadEnabled'
<1>1. Init => InHand
  BY DEF Init, InHand
<1>2. TypeOK /\ InHand /\ [Next]_vars => InHand'
  BY InHandStep
<1>3. TypeOK /\ InHand /\ [Next]_vars => [\A t \in Handlers : Press(t)]_vars
  <2> SUFFICES ASSUME TypeOK, InHand, Next PROVE Press(h)
    BY DEF vars
  <2> USE DEF TypeOK, Goto
  <2>1. CASE StoreFlag(h)
    <3>1. pc[h] = "storeFlag" /\ pc'[h] # "idle" /\ isTouchpadEnabled' = ~ seen[h]
      BY <2>1 DEF StoreFlag
    <3>2. heard[h] # Nobody => heard[h] \in BOOLEAN /\ heard[h] = seen[h]
      BY <3>1 DEF InHand
    <3>3. QED
      BY <3>1, <3>2
  <2>2. CASE SetProperty(h)
    BY <2>2 DEF SetProperty, InHand
  <2>3. CASE ~ StoreFlag(h) /\ ~ SetProperty(h)
    <3>1. pc[h] = "storeFlag" => pc'[h] = pc[h]
      BY <2>3 DEF Next, Toggle, Consumer, TouchpadKey, BeginDispatch, Ask, Tell,
              EndDispatch, LoadFlag, Publish, Terminate, OwnChange,
              NotificationHandler, InGate
    <3>2. pc[h] # "idle" => pc'[h] # "idle"
      BY <2>3 DEF Next, Toggle, Consumer, TouchpadKey, BeginDispatch, Ask, Tell,
              EndDispatch, LoadFlag, Publish, Terminate, OwnChange,
              NotificationHandler, InGate, Enter, Leave
    <3>3. QED
      BY <3>1, <3>2
  <2>4. QED
    BY <2>1, <2>2, <2>3
<1>4. QED
  BY <1>1, <1>2, <1>3, TypeCorrect, PTL DEF Spec, KeyToggles

=============================================================================
