-------------------------- MODULE DriverBootProofs --------------------------
(***************************************************************************)
(* Proofs about the driver's life cycle, for every set of handlers and     *)
(* services.                                                               *)
(*                                                                         *)
(* What TouchpadProofs shows of the touchpad key survives start and stop:  *)
(* each step of theirs is a step of Touchpad or leaves its variables alone *)
(* but for two writes, one of the registry property and one that empties   *)
(* the set of consumers, and by then nobody iterates over it (GateGone).   *)
(***************************************************************************)
EXTENDS DriverBoot, TouchpadProofs

\* Before the driver runs, no toggle begins unless the firmware notifies early.
Early == {"probing", "unmatched"}
QuietStart ==
  /\ stage \in Early => \A t \in Handlers : pc[t] = "idle"
  /\ ~ EarlyKeys /\ stage \in Building \cup Early \cup {"failed"} =>
       \A t \in Handlers : pc[t] = "idle"

\* Once stop has the gate, nobody is inside it any more.
GateGone == stage \in {"gateGone", "publishRemoved", "stopped"} => gate = Nobody

BootInv == BootTypeOK /\ IInv /\ GateGone

-----------------------------------------------------------------------------
\* The two writes start and stop make on their own.
Flush == stage = "publishRemoved" /\ StopNotifiers

\* Every other step of the life cycle is one of Touchpad or a stutter.
LEMMA StepKinds ==
  ASSUME [BootNext]_bootVars
  PROVE  [Next]_vars \/ PublishStatus \/ Flush
<1>1. CASE UNCHANGED bootVars
  BY <1>1 DEF bootVars
<1>2. CASE StartStep
  BY <1>2 DEF StartStep, Probe, MakeGate, InstallPublish, AssignPublish,
          InstallTerminate, AssignTerminate, Panic
<1>3. CASE StopStep
  BY <1>3 DEF StopStep, StopGate, StopNotifiers, To, Flush
<1>4. ASSUME NEW t \in Handlers, Notify(t) \/ Handle(t) \/ HandlePanics(t)
      PROVE  [Next]_vars
  BY <1>4 DEF Notify, Handle, HandlePanics, Panic, Next
<1>5. ASSUME NEW s \in Services, Live(s) \/ Notification(s) \/ LeaveUnheard(s)
      PROVE  [Next]_vars
  BY <1>5 DEF Live, Notification, Hear, Ignore, HearPanics, LeaveUnheard,
          Panic, Next, Consumer
<1>6. QED
  BY <1>1, <1>2, <1>3, <1>4, <1>5 DEF BootNext

\* The invariant of Touchpad survives the life cycle.
LEMMA TouchpadKept ==
  ASSUME IInv, GateGone, [BootNext]_bootVars
  PROVE  IInv'
<1>1. CASE [Next]_vars
  BY <1>1, TypeStep, RegistrationStep, ToldStep DEF IInv
<1>2. CASE PublishStatus
  BY <1>2 DEF PublishStatus, IInv, TypeOK, GateHeld, TodoRegistered, LifeCycle,
          Told, WillTell
<1>3. CASE Flush
  <2>1. gate = Nobody
    BY <1>3 DEF Flush, GateGone
  <2>2. notificationServices' = {}
    BY <1>3 DEF Flush, StopNotifiers, To
  <2>3. UNCHANGED <<pc, gate, todo, seen, isTouchpadEnabled, touchpadProperty,
                    phase, touch, told, heard, own>>
    BY <1>3 DEF Flush, StopNotifiers, To
  <2>4. \A t \in Handlers : pc[t] \notin InGate /\ todo[t] = {}
    BY <2>1, NobodyAssumption DEF IInv, GateHeld, TodoRegistered
  <2>5. TypeOK' /\ GateHeld'
    BY <2>2, <2>3 DEF IInv, TypeOK, GateHeld
  <2>6. TodoRegistered' /\ LifeCycle' /\ Told'
    BY <2>2, <2>3, <2>4 DEF IInv, TodoRegistered, LifeCycle, Told
  <2>7. QED
    BY <2>5, <2>6 DEF IInv
<1>4. QED
  BY <1>1, <1>2, <1>3, StepKinds

\* Nobody gets into a gate that stop has taken away.
LEMMA GateGoneStep ==
  ASSUME BootInv, [BootNext]_bootVars
  PROVE  GateGone'
<1> USE DEF GateGone, BootInv, BootTypeOK
<1>1. CASE UNCHANGED bootVars
  BY <1>1 DEF bootVars, vars
<1>2. CASE StartStep
  BY <1>2 DEF StartStep, Probe, MakeGate, PublishStatus, InstallPublish,
          AssignPublish, InstallTerminate, AssignTerminate, Panic, To, vars
<1>3. CASE StopStep
  BY <1>3 DEF StopStep, StopGate, StopNotifiers, To, vars
<1>4. ASSUME NEW t \in Handlers, Notify(t) \/ Handle(t) \/ HandlePanics(t)
      PROVE  GateGone'
  BY <1>4, NobodyAssumption DEF Notify, Handle, HandlePanics, HasGate, Building,
          Panic, vars, TouchpadKey, Toggle, BeginDispatch, Ask, Tell,
          EndDispatch, LoadFlag, StoreFlag, SetProperty
<1>5. ASSUME NEW s \in Services, Live(s) \/ Notification(s) \/ LeaveUnheard(s)
      PROVE  GateGone'
  BY <1>5 DEF Live, Notification, Hear, Ignore, HearPanics, LeaveUnheard,
          Panic, vars, Publish, Terminate, OwnChange, NotificationHandler
<1>6. QED
  BY <1>1, <1>2, <1>3, <1>4, <1>5 DEF BootNext

\* No step of the life cycle takes a variable out of its type.
LEMMA BootTypeStep ==
  ASSUME BootTypeOK, TypeOK', [BootNext]_bootVars
  PROVE  BootTypeOK'
<1> USE DEF BootTypeOK, Stages, Building
<1>1. CASE UNCHANGED bootVars
  BY <1>1 DEF bootVars
<1>2. CASE StartStep
  BY <1>2 DEF StartStep, Probe, MakeGate, PublishStatus, InstallPublish,
          AssignPublish, InstallTerminate, AssignTerminate, Panic, To
<1>3. CASE StopStep
  BY <1>3 DEF StopStep, StopGate, StopNotifiers, To
<1>4. ASSUME NEW t \in Handlers, Notify(t) \/ Handle(t) \/ HandlePanics(t)
      PROVE  BootTypeOK'
  BY <1>4 DEF Notify, Handle, HandlePanics, Panic
<1>5. ASSUME NEW s \in Services, Live(s) \/ Notification(s) \/ LeaveUnheard(s)
      PROVE  BootTypeOK'
  BY <1>5 DEF Live, Notification, Hear, Ignore, HearPanics, LeaveUnheard, Panic
<1>6. QED
  BY <1>1, <1>2, <1>3, <1>4, <1>5 DEF BootNext

\* No toggle begins before its time.
LEMMA QuietStep ==
  ASSUME BootTypeOK, QuietStart, [BootNext]_bootVars
  PROVE  QuietStart'
<1> USE DEF BootTypeOK, QuietStart, Stages, Building, Early
<1>1. CASE UNCHANGED bootVars
  BY <1>1 DEF bootVars, vars
<1>2. CASE StartStep
  BY <1>2 DEF StartStep, Probe, MakeGate, PublishStatus, InstallPublish,
          AssignPublish, InstallTerminate, AssignTerminate, Panic, To, vars
<1>3. CASE StopStep
  BY <1>3 DEF StopStep, StopGate, StopNotifiers, To
<1>4. ASSUME NEW t \in Handlers, Notify(t)
      PROVE  QuietStart'
  BY <1>4 DEF Notify
<1>5. ASSUME NEW t \in Handlers, Handle(t)
      PROVE  QuietStart'
  <2>1. pc[t] # "idle"
    BY <1>5 DEF Handle, Toggle, BeginDispatch, Ask, Tell, EndDispatch,
            LoadFlag, StoreFlag, SetProperty, InGate
  <2>2. stage' = stage
    BY <1>5 DEF Handle
  <2>3. QED
    BY <2>1, <2>2
<1>6. ASSUME NEW t \in Handlers, HandlePanics(t)
      PROVE  QuietStart'
  BY <1>6 DEF HandlePanics, Panic, vars
<1>7. ASSUME NEW s \in Services, Live(s) \/ Notification(s) \/ LeaveUnheard(s)
      PROVE  QuietStart'
  BY <1>7 DEF Live, Notification, Hear, Ignore, HearPanics, LeaveUnheard,
          Panic, vars, Publish, Terminate, OwnChange, NotificationHandler
<1>8. QED
  BY <1>1, <1>2, <1>3, <1>4, <1>5, <1>6, <1>7 DEF BootNext

\* A panic has one of the causes StartInOrder lists.
LEMMA PanicStep ==
  ASSUME BootTypeOK, QuietStart, StartInOrder, [BootNext]_bootVars
  PROVE  StartInOrder'
<1> USE DEF StartInOrder
<1>1. CASE UNCHANGED bootVars
  BY <1>1 DEF bootVars
<1>2. CASE StartStep /\ ~ panicked
  BY <1>2 DEF StartStep, Probe, MakeGate, PublishStatus, InstallPublish,
          AssignPublish, InstallTerminate, AssignTerminate, Panic, To
<1>3. CASE StopStep /\ ~ panicked
  BY <1>3 DEF StopStep, StopGate, StopNotifiers, To
<1>4. ASSUME NEW t \in Handlers, Notify(t) \/ Handle(t), ~ panicked
      PROVE  StartInOrder'
  BY <1>4 DEF Notify, Handle
<1>5. ASSUME NEW t \in Handlers, HandlePanics(t)
      PROVE  StartInOrder'
  <2>1. stage' = stage /\ ~ HasGate /\ pc[t] # "idle"
    BY <1>5 DEF HandlePanics, Panic
  <2>2. stage \in {"probing", "gateGone", "publishRemoved", "stopped"}
          \/ stage \in {"unmatched", "attached", "failed"}
    BY <2>1 DEF HasGate, Building, BootTypeOK, Stages
  <2>3. stage # "unmatched" /\ (stage \in {"attached", "failed"} => EarlyKeys)
    BY <2>1, EarlyAssumption DEF QuietStart, Building, Early
  <2>4. QED
    BY <2>1, <2>2, <2>3
<1>6. ASSUME NEW s \in Services, Live(s) \/ Notification(s) \/ LeaveUnheard(s),
             ~ panicked
      PROVE  StartInOrder'
  BY <1>6 DEF Live, Notification, Hear, Ignore, HearPanics, LeaveUnheard,
          Panic, Due, HasGate, Building
<1>7. QED
  BY <1>1, <1>2, <1>3, <1>4, <1>5, <1>6 DEF BootNext

-----------------------------------------------------------------------------
LEMMA BootStart == BootInit => BootInv /\ QuietStart /\ StartInOrder
  BY NobodyAssumption
  DEF BootInit, Init, BootInv, BootTypeOK, IInv, GateGone, TypeOK, GateHeld,
      TodoRegistered, LifeCycle, Told, Steps, Phases, InGate, Stages, Building,
      QuietStart, Early, StartInOrder

\* The invariants of the life cycle and, inside it, those of the touchpad key.
THEOREM BootInductive == BootSpec => [](BootInv /\ QuietStart /\ StartInOrder)
<1>1. BootInv /\ [BootNext]_bootVars => BootInv'
  <2> SUFFICES ASSUME BootInv, [BootNext]_bootVars PROVE BootInv'
    OBVIOUS
  <2>1. IInv' /\ TypeOK'
    BY TouchpadKept DEF BootInv, IInv
  <2>2. QED
    BY <2>1, BootTypeStep, GateGoneStep DEF BootInv
<1>2. BootInv /\ QuietStart /\ [BootNext]_bootVars => QuietStart'
  BY QuietStep DEF BootInv
<1>3. BootInv /\ QuietStart /\ StartInOrder /\ [BootNext]_bootVars => StartInOrder'
  BY PanicStep DEF BootInv
<1>4. QED
  BY <1>1, <1>2, <1>3, BootStart, PTL DEF BootSpec

\* The variables of the life cycle stay within their types, and no service is
\* delivered at registration once its notifier is assigned.
THEOREM BootTypeCorrect == BootSpec => []BootTypeOK
  BY BootInductive, PTL DEF BootInv

\* Start makes things in an order in which no notification finds one missing.
THEOREM Orderly == BootSpec => []StartInOrder
  BY BootInductive, PTL

\* Consumers and flag agree between toggles through start and stop, too, even
\* if keys come before start has returned.
THEOREM BootAgreement == BootSpec => []ConsumersAgree
<1>1. BootInv => ConsumersAgree
  BY DEF BootInv, IInv, Told, WillTell, ConsumersAgree
<1>2. QED
  BY <1>1, BootInductive, PTL

\* The set of consumers stays still under every iterator, though stop empties
\* it under no lock.
THEOREM BootIsolation == BootSpec => IterationIsolated
<1>1. BootInv /\ [BootNext]_bootVars =>
        [(\E t \in Handlers : pc[t] \in InGate) =>
            notificationServices' = notificationServices]_vars
  <2> SUFFICES ASSUME BootInv, [BootNext]_bootVars,
                      NEW t \in Handlers, pc[t] \in InGate
               PROVE  notificationServices' = notificationServices
    OBVIOUS
  <2>1. gate # Nobody
    BY NobodyAssumption DEF BootInv, IInv, GateHeld
  <2>2. CASE [Next]_vars
    BY <2>1, <2>2 DEF Next, Toggle, Consumer, vars, TouchpadKey, BeginDispatch,
            Ask, Tell, EndDispatch, LoadFlag, StoreFlag, SetProperty, Publish,
            Terminate, OwnChange, NotificationHandler
  <2>3. CASE PublishStatus
    BY <2>3 DEF PublishStatus
  <2>4. ~ Flush
    BY <2>1 DEF BootInv, GateGone, Flush
  <2>5. QED
    BY <2>2, <2>3, <2>4, StepKinds
<1>2. QED
  BY <1>1, BootInductive, PTL DEF BootSpec, IterationIsolated

-----------------------------------------------------------------------------
\* On one handler thread each round of messages is as good as one instant, on
\* exactly the services registered then or on none, in the whole life of the
\* driver, too: start and stop do not come between the messages of a round, and
\* only the emptying of the set at the end of stop is no step of Broadcast.
BootRoundsAtomic ==
  Promise!Init /\ [][stage' # "stopped" => Promise!Next]_(Promise!vars)

THEOREM BootAtomicity ==
  (\E h : Handlers = {h}) => (BootSpec => BootRoundsAtomic)
<1> SUFFICES ASSUME NEW h, Handlers = {h} PROVE BootSpec => BootRoundsAtomic
  OBVIOUS
<1>1. BootInit => Promise!Init
  BY DEF BootInit, Init, Promise!Init, Undecided, Unvisited
<1>2. BootInv /\ BootInv' /\ [BootNext]_bootVars =>
        [stage' # "stopped" => Promise!Next]_(Promise!vars)
  <2> SUFFICES ASSUME BootInv, BootInv', [BootNext]_bootVars, stage' # "stopped"
               PROVE  [Promise!Next]_(Promise!vars)
    OBVIOUS
  <2>1. CASE [Next]_vars
    BY <2>1, AtomicStep DEF BootInv, BootTypeOK
  <2>2. CASE PublishStatus
    <3>1. Value' = Value /\ View' = View /\ UNCHANGED <<notificationServices, phase, own>>
      BY <2>2 DEF PublishStatus, Value, View, Undecided, Unvisited
    <3>2. QED
      BY <3>1, SendsOrNot
  <2>3. ~ Flush
    BY DEF Flush, StopNotifiers, To
  <2>4. QED
    BY <2>1, <2>2, <2>3, StepKinds
<1>3. QED
  BY <1>1, <1>2, BootInductive, PTL DEF BootSpec, BootRoundsAtomic

=============================================================================
