---------------------------- MODULE SensorPolling ----------------------------
(***************************************************************************)
(* The ambient light sensor and the fan: how a reading of the firmware     *)
(* gets to the SMC keys ALV0 and F0Ac.                                     *)
(*                                                                         *)
(* start() looks for the two ACPI devices.  When VirtualSMC accepts the    *)
(* plugin, a one-shot timer is armed; its action, on the work loop, reads  *)
(* the sensors into two atomic variables and arms the timer again.  SMC    *)
(* clients read the keys on threads of their own, the light after the      *)
(* interrupt SmcEventALSChange, and the ALS key (event 0x7A) switches the  *)
(* light sensor on and off at any moment.                                  *)
(*                                                                         *)
(* External: the ACPI methods, whose next answers are the variables ali,   *)
(* tach and wmiFan; the timer event source; VirtualSMC and its clients.    *)
(* Not modelled: ALV0's highGain (it never leaves its initial value), byte *)
(* order, the other constant keys.                                         *)
(***************************************************************************)
EXTENDS Naturals

CONSTANTS
  Lux,          \* readings _ALI may give
  Rpm,          \* speeds TACH may give
  WmiSpeed,     \* fan states WMI may give, in units of 100 RPM
  Failed,       \* the evaluation of a method fails
  LuxModulus,   \* 2^32: currentLux and roomLux have 32 bits
  ChanModulus,  \* 2^16: chan0 has 16 bits
  RoomScale,    \* 2^14: roomLux has 14 fraction bits
  DisabledLux,  \* 150: the reading while the ALS key has the sensor off
  ForceWrites   \* what clients write to AL!: sets of fields to be frozen

Word16 == {n \in Nat : n < 65536}   \* uint16_t

ASSUME WordAssumption ==
  /\ LuxModulus \in Nat \ {0} /\ ChanModulus \in Nat \ {0} /\ RoomScale \in Nat
  /\ DisabledLux \in 0 .. LuxModulus - 2
ASSUME ReadingAssumption ==
  /\ Lux \subseteq 0 .. LuxModulus - 1
  /\ Rpm \subseteq Nat /\ WmiSpeed \subseteq Word16
ASSUME FailedAssumption == Failed \notin Nat
ASSUME ForceAssumption == ForceWrites \subseteq SUBSET {"chan", "lux"}

VARIABLES
  ali, tach, wmiFan,          \* what each firmware method would answer now
  alsDevice, isTACHAvailable, \* found by start()
  isALSEnabled,               \* the switch of the ALS key
  currentLux, currentFanSpeed,\* the atomics between work loop and SMC clients
  boot,                       \* where start() and the plugin submission are
  poller,                     \* the timer: none, idle or armed
  loop, sample,               \* the work loop: its step, the value it holds
  interrupt,                  \* SmcEventALSChange posted, not yet served
  forceBits, alv, f0ac,       \* data of the keys AL!, ALV0 and F0Ac
  polls                       \* ghost: stores since the ALS key, at most 2

firmware == <<ali, tach, wmiFan>>
devices == <<alsDevice, isTACHAvailable>>
smc == <<interrupt, forceBits, alv, f0ac>>
vars == <<firmware, devices, isALSEnabled, currentLux, currentFanSpeed, boot,
          poller, loop, sample, smc, polls>>

Alv == [valid : BOOLEAN, chan0 : 0 .. ChanModulus - 1,
        roomLux : 0 .. LuxModulus - 1]

InvalidLux == LuxModulus - 1    \* 0xFFFFFFFF
UnknownSpeed == 10000

LuxOf(answer) == IF answer = Failed THEN InvalidLux ELSE answer

\* refreshALS: while the ALS key has the sensor off the reading is fixed.
Reading == IF isALSEnabled THEN LuxOf(ali) ELSE DisabledLux

\* A plausible slip: the speed outgrows the atomic it is stored in.
SpeedOfUnbounded(byTach, rpm, hundreds) ==
  LET speed == IF byTach THEN rpm
               ELSE IF hundreds = Failed THEN Failed ELSE hundreds * 100
  IN IF speed = Failed THEN UnknownSpeed ELSE speed

\* refreshFan: TACH counts in RPM, WMI in hundreds; the atomic has 16 bits.
SpeedOf(byTach, rpm, hundreds) ==
  LET speed == IF byTach THEN rpm
               ELSE IF hundreds = Failed THEN Failed ELSE hundreds * 100
  IN (IF speed = Failed THEN UnknownSpeed ELSE speed) % 65536

\* F0Ac has type fpe2: 14 integer and 2 fraction bits.
EncodeFpe2(speed) == (speed * 4) % 65536
DecodeFpe2(data) == data \div 4

TypeOK ==
  /\ ali \in Lux \cup {Failed} /\ tach \in Rpm \cup {Failed}
  /\ wmiFan \in WmiSpeed \cup {Failed}
  /\ alsDevice \in BOOLEAN /\ isTACHAvailable \in BOOLEAN
  /\ isALSEnabled \in BOOLEAN
  /\ currentLux \in 0 .. LuxModulus - 1 /\ currentFanSpeed \in Word16
  /\ boot \in {"initALS", "initEC0", "startATK", "submit", "polling", "failed"}
  /\ poller \in {"none", "idle", "armed"}
  /\ loop \in {"wait", "readLux", "storeLux", "rearm", "readFan", "storeFan"}
  /\ sample \in Nat
  /\ interrupt \in BOOLEAN /\ forceBits \in SUBSET {"chan", "lux"}
  /\ alv \in Alv
  /\ f0ac \in Word16
  /\ polls \in 0 .. 2

Init ==
  /\ ali \in Lux \cup {Failed} /\ tach \in Rpm \cup {Failed}
  /\ wmiFan \in WmiSpeed \cup {Failed}
  /\ alsDevice = FALSE /\ isTACHAvailable = FALSE
  /\ isALSEnabled = TRUE
  /\ currentLux = 0 /\ currentFanSpeed = 0
  /\ boot = "initALS" /\ poller = "none"
  /\ loop = "wait" /\ sample = 0
  /\ interrupt = FALSE /\ forceBits = {}
  /\ alv = [valid |-> FALSE, chan0 |-> 0, roomLux |-> 0] /\ f0ac = 0
  /\ polls = 0

-----------------------------------------------------------------------------
(***************************************************************************)
(* The firmware.                                                           *)
(***************************************************************************)
FirmwareChange ==
  /\ \/ ali' \in (Lux \cup {Failed}) \ {ali} /\ UNCHANGED <<tach, wmiFan>>
     \/ tach' \in (Rpm \cup {Failed}) \ {tach} /\ UNCHANGED <<ali, wmiFan>>
     \/ wmiFan' \in (WmiSpeed \cup {Failed}) \ {wmiFan} /\ UNCHANGED <<ali, tach>>
  /\ UNCHANGED <<devices, isALSEnabled, currentLux, currentFanSpeed, boot,
                 poller, loop, sample, smc, polls>>

-----------------------------------------------------------------------------
(***************************************************************************)
(* start() and the submission of the plugin.                               *)
(***************************************************************************)

\* initALSDevice: no ACPI0008; one without _ALI; one that is read once.
InitALSDevice ==
  /\ boot = "initALS"
  /\ boot' = "initEC0"
  /\ \/ alsDevice' = FALSE /\ UNCHANGED currentLux
     \/ alsDevice' = TRUE /\ UNCHANGED currentLux
     \/ alsDevice' = TRUE /\ currentLux' = Reading
  /\ UNCHANGED <<firmware, isTACHAvailable, isALSEnabled, currentFanSpeed,
                 poller, loop, sample, smc, polls>>

\* initEC0Device: TACH is used for good if it is there and its first reading
\* is not the value that stands for a failure.
InitEC0Device ==
  /\ boot = "initEC0"
  /\ boot' = "startATK"
  /\ \/ isTACHAvailable' = FALSE /\ UNCHANGED currentFanSpeed
     \/ /\ tach \in {Failed, UnknownSpeed}
        /\ isTACHAvailable' = FALSE /\ currentFanSpeed' = UnknownSpeed
     \/ /\ tach \notin {Failed, UnknownSpeed}
        /\ isTACHAvailable' = TRUE /\ currentFanSpeed' = tach % 65536
  /\ UNCHANGED <<firmware, alsDevice, isALSEnabled, currentLux, poller, loop,
                 sample, smc, polls>>

\* startATKDevice: the switch is set on, whatever a key did meanwhile.
StartATKDevice ==
  /\ boot = "startATK"
  /\ boot' = "submit"
  /\ isALSEnabled' = TRUE
  /\ polls' = 0
  /\ UNCHANGED <<firmware, devices, currentLux, currentFanSpeed, poller, loop,
                 sample, smc>>

\* vsmcNotificationHandler: VirtualSMC takes the plugin and the timer is armed
\* for the first time, or a step of it fails and the handler gives up.
VsmcNotificationHandler ==
  /\ boot = "submit"
  /\ \/ boot' = "polling" /\ poller' = "armed"
     \/ boot' = "failed" /\ poller' \in {"none", "idle"}
  /\ UNCHANGED <<firmware, devices, isALSEnabled, currentLux, currentFanSpeed,
                 loop, sample, smc, polls>>

-----------------------------------------------------------------------------
(***************************************************************************)
(* The timer's action on the work loop: refreshALS(true), refreshFan().    *)
(***************************************************************************)
TimerFires ==
  /\ poller = "armed" /\ loop = "wait"
  /\ poller' = "idle" /\ loop' = "readLux"
  /\ UNCHANGED <<firmware, devices, isALSEnabled, currentLux, currentFanSpeed,
                 boot, sample, smc, polls>>

\* refreshALS without a device returns at once.
RefreshALSNoDevice ==
  /\ loop = "readLux" /\ ~ alsDevice
  /\ loop' = "readFan"
  /\ UNCHANGED <<firmware, devices, isALSEnabled, currentLux, currentFanSpeed,
                 boot, poller, sample, smc, polls>>

\* A plausible slip: the switch of the ALS key is not looked at.
RefreshALSReadAlways ==
  /\ loop = "readLux" /\ alsDevice
  /\ sample' = LuxOf(ali)
  /\ loop' = "storeLux"
  /\ UNCHANGED <<firmware, devices, isALSEnabled, currentLux, currentFanSpeed,
                 boot, poller, smc, polls>>

\* The switch is read and, if it is on, _ALI evaluated.
RefreshALSRead ==
  /\ loop = "readLux" /\ alsDevice
  /\ sample' = Reading
  /\ loop' = "storeLux"
  /\ UNCHANGED <<firmware, devices, isALSEnabled, currentLux, currentFanSpeed,
                 boot, poller, smc, polls>>

RefreshALSStore ==
  /\ loop = "storeLux"
  /\ currentLux' = sample
  /\ sample' = 0
  /\ loop' = "rearm"
  /\ polls' = IF polls = 2 THEN 2 ELSE polls + 1
  /\ UNCHANGED <<firmware, devices, isALSEnabled, currentFanSpeed, boot,
                 poller, smc>>

\* A plausible slip: nobody is told of a reading that failed.
RefreshALSRearmSilent ==
  /\ loop = "rearm"
  /\ interrupt' = (interrupt \/ currentLux # InvalidLux)
  /\ poller' = "armed"
  /\ loop' = "readFan"
  /\ UNCHANGED <<firmware, devices, isALSEnabled, currentLux, currentFanSpeed,
                 boot, sample, forceBits, alv, f0ac, polls>>

\* A plausible slip: after a failed reading the timer is not armed again.
RefreshALSRearmIfValid ==
  /\ loop = "rearm"
  /\ interrupt' = TRUE
  /\ poller' = IF currentLux = InvalidLux THEN poller ELSE "armed"
  /\ loop' = "readFan"
  /\ UNCHANGED <<firmware, devices, isALSEnabled, currentLux, currentFanSpeed,
                 boot, sample, forceBits, alv, f0ac, polls>>

\* postInterrupt(SmcEventALSChange), then setTimeoutMS.
RefreshALSRearm ==
  /\ loop = "rearm"
  /\ interrupt' = TRUE
  /\ poller' = "armed"
  /\ loop' = "readFan"
  /\ UNCHANGED <<firmware, devices, isALSEnabled, currentLux, currentFanSpeed,
                 boot, sample, forceBits, alv, f0ac, polls>>

RefreshFanRead ==
  /\ loop = "readFan"
  /\ sample' = SpeedOf(isTACHAvailable, tach, wmiFan)
  /\ loop' = "storeFan"
  /\ UNCHANGED <<firmware, devices, isALSEnabled, currentLux, currentFanSpeed,
                 boot, poller, smc, polls>>

RefreshFanStore ==
  /\ loop = "storeFan"
  /\ currentFanSpeed' = sample
  /\ sample' = 0
  /\ loop' = "wait"
  /\ UNCHANGED <<firmware, devices, isALSEnabled, currentLux, boot, poller,
                 smc, polls>>

Work == RefreshALSNoDevice \/ RefreshALSRead \/ RefreshALSStore
        \/ RefreshALSRearm \/ RefreshFanRead \/ RefreshFanStore

-----------------------------------------------------------------------------
(***************************************************************************)
(* Other threads: the ALS key, and the clients of the SMC.                 *)
(***************************************************************************)

\* handleMessage(0x7A): only the driver's switch; the hardware stays on.
ALSKey ==
  /\ isALSEnabled' = ~ isALSEnabled
  /\ polls' = 0
  /\ UNCHANGED <<firmware, devices, currentLux, currentFanSpeed, boot, poller,
                 loop, sample, smc>>

WriteForceBits ==
  /\ boot = "polling"
  /\ forceBits' \in ForceWrites
  /\ UNCHANGED <<firmware, devices, isALSEnabled, currentLux, currentFanSpeed,
                 boot, poller, loop, sample, interrupt, alv, f0ac, polls>>

\* A plausible slip: an invalid reading is handed out like any other.
ReadALV0Unchecked ==
  /\ boot = "polling"
  /\ alv' = [valid |-> TRUE, chan0 |-> currentLux % ChanModulus,
             roomLux |-> (currentLux * RoomScale) % LuxModulus]
  /\ interrupt' = FALSE
  /\ UNCHANGED <<firmware, devices, isALSEnabled, currentLux, currentFanSpeed,
                 boot, poller, loop, sample, forceBits, f0ac, polls>>

\* SMCALSValue::readAccess: the atomic is loaded once; an invalid reading
\* leaves the numbers of the last valid one; a forced field is not updated.
ReadALV0 ==
  /\ boot = "polling"
  /\ alv' = IF currentLux = InvalidLux THEN [alv EXCEPT !.valid = FALSE]
            ELSE [valid |-> TRUE,
                  chan0 |-> IF "chan" \in forceBits THEN alv.chan0
                            ELSE currentLux % ChanModulus,
                  roomLux |-> IF "lux" \in forceBits THEN alv.roomLux
                              ELSE (currentLux * RoomScale) % LuxModulus]
  /\ interrupt' = FALSE
  /\ UNCHANGED <<firmware, devices, isALSEnabled, currentLux, currentFanSpeed,
                 boot, poller, loop, sample, forceBits, f0ac, polls>>

\* F0Ac::readAccess.
ReadF0Ac ==
  /\ boot = "polling"
  /\ f0ac' = EncodeFpe2(currentFanSpeed)
  /\ UNCHANGED <<firmware, devices, isALSEnabled, currentLux, currentFanSpeed,
                 boot, poller, loop, sample, interrupt, forceBits, alv, polls>>

-----------------------------------------------------------------------------
Start == InitALSDevice \/ InitEC0Device \/ StartATKDevice
         \/ VsmcNotificationHandler
Client == WriteForceBits \/ ReadALV0 \/ ReadF0Ac
Next == FirmwareChange \/ Start \/ TimerFires \/ Work \/ ALSKey \/ Client

Spec == Init /\ [][Next]_vars

\* An armed timer fires and its action runs to its end.  A client serves the
\* interrupt it was sent, and only then need it read ALV0; a fan monitor reads
\* F0Ac again and again.
Fairness ==
  /\ WF_vars(TimerFires) /\ WF_vars(Work)
  /\ WF_vars(interrupt /\ ReadALV0) /\ WF_vars(ReadF0Ac)

FairSpec == Spec /\ Fairness

-----------------------------------------------------------------------------
(***************************************************************************)
(* Properties.                                                             *)
(***************************************************************************)

\* Once polling has begun on a machine with a light sensor it never stops:
\* the timer is armed, or its action is on the way to arming it.
NeverDisarmed ==
  (boot = "polling" /\ alsDevice) =>
     poller = "armed" \/ loop \in {"readLux", "storeLux", "rearm"}

\* The ALS key takes effect with the second store after it at the latest (the
\* first may hold a sample taken before): the reading is then the fixed one.
OffWithinTwoPolls == (~ isALSEnabled /\ polls = 2) => currentLux = DisabledLux

\* A client that reads ALV0 only when interrupted holds the reading stored last
\* whenever no interrupt is due to it: none is posted before its reading is
\* stored, and none is taken back by a read that came too early.  Of the
\* numbers, those count that no write to AL! freezes and that are valid.
Unread == [valid |-> FALSE, chan0 |-> 0, roomLux |-> 0]
ServedIsCurrent ==
  (~ interrupt /\ loop # "rearm" /\ alv # Unread) =>
    /\ alv.valid = (currentLux # InvalidLux)
    /\ alv.valid =>
         /\ "chan" \notin UNION ForceWrites => alv.chan0 = currentLux % ChanModulus
         /\ "lux" \notin UNION ForceWrites =>
              alv.roomLux = (currentLux * RoomScale) % LuxModulus

\* What ALV0 shows for a light of v lux, Failed standing for no reading.
Shows(v) ==
  IF LuxOf(v) = InvalidLux THEN alv.valid = FALSE
  ELSE alv = [valid |-> TRUE, chan0 |-> v % ChanModulus,
              roomLux |-> (v * RoomScale) % LuxModulus]

\* A client that reads ALV0 only when interrupted ends up with the light that
\* has settled, or with the fixed value once the ALS key has it off: the store
\* comes before the interrupt, and no update is lost.
LightFollows ==
  /\ \A v \in Lux \cup {Failed} :
       <>[](boot = "polling" /\ alsDevice /\ forceBits = {}
            /\ isALSEnabled /\ ali = v) => <>[]Shows(v)
  /\ <>[](boot = "polling" /\ alsDevice /\ forceBits = {} /\ ~ isALSEnabled)
       => <>[]Shows(DisabledLux)

\* The speed of a fan that settled at v hundred RPM is what F0Ac shows in the
\* end, as far as its 14 integer bits go -- on a machine with a light sensor.
WmiSettles(v) == boot = "polling" /\ ~ isTACHAvailable /\ wmiFan = v
FanFollows ==
  \A v \in {w \in WmiSpeed : w * 100 < 16384} :
    <>[](WmiSettles(v) /\ alsDevice) => <>[](DecodeFpe2(f0ac) = v * 100)

\* The same on every machine: "support for reading fan speed with WMI".
FanFollowsAlways ==
  \A v \in {w \in WmiSpeed : w * 100 < 16384} :
    <>[]WmiSettles(v) => <>[](DecodeFpe2(f0ac) = v * 100)

=============================================================================
