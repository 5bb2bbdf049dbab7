------------------------- MODULE SensorPollingProofs -------------------------
(***************************************************************************)
(* Proofs about SensorPolling for every set of readings, every width of    *)
(* the words and every behaviour of the firmware and the clients.          *)
(***************************************************************************)
EXTENDS SensorPolling, TLAPS

\* A value on its way to one of the atomics fits it.
SampleFits ==
  /\ loop = "storeLux" => sample \in 0 .. LuxModulus - 1
  /\ loop = "storeFan" => sample \in Word16

\* Nothing is polled before VirtualSMC has taken the plugin.
PollsAfterBoot ==
  /\ (poller = "armed" \/ loop # "wait") => boot = "polling"
  /\ boot # "polling" => polls = 0

\* A store since the ALS key means that the next sample was taken after it.
SampleAfterKey ==
  (~ isALSEnabled /\ polls > 0 /\ loop = "storeLux") => sample = DisabledLux

\* Clients come after the boot, and only they read ALV0 or freeze its fields.
ClientsAfterBoot ==
  /\ boot # "polling" => alv = Unread
  /\ forceBits \subseteq UNION ForceWrites

\* The inductive invariant.
IInv == TypeOK /\ SampleFits /\ PollsAfterBoot /\ SampleAfterKey
        /\ NeverDisarmed /\ OffWithinTwoPolls
        /\ ClientsAfterBoot /\ ServedIsCurrent

-----------------------------------------------------------------------------
\* A remainder is below its divisor.
LEMMA Remainder == \A n \in Nat, m \in Nat \ {0} : n % m \in 0 .. m - 1
  OBVIOUS

\* refreshALS yields a value that fits currentLux.
LEMMA ReadingFits == TypeOK => Reading \in 0 .. LuxModulus - 1
<1>1. \A a \in Lux \cup {Failed} : LuxOf(a) \in 0 .. LuxModulus - 1
  <2> TAKE a \in Lux \cup {Failed}
  <2>1. CASE a = Failed
    BY <2>1, WordAssumption DEF LuxOf, InvalidLux
  <2>2. CASE a # Failed
    BY <2>2, ReadingAssumption DEF LuxOf
  <2> QED
    BY <2>1, <2>2
<1> QED
  BY <1>1, WordAssumption DEF TypeOK, Reading

\* refreshFan yields a value that fits currentFanSpeed.
LEMMA SpeedFits ==
  \A byTach \in BOOLEAN, rpm \in Rpm \cup {Failed}, hundreds \in WmiSpeed \cup {Failed} :
     SpeedOf(byTach, rpm, hundreds) \in Word16
<1>1. \A n \in Nat : n % 65536 \in Word16
  BY DEF Word16
<1>2. UnknownSpeed % 65536 \in Word16
  BY <1>1 DEF UnknownSpeed
<1> TAKE byTach \in BOOLEAN, rpm \in Rpm \cup {Failed}, hundreds \in WmiSpeed \cup {Failed}
<1>3. CASE byTach /\ rpm # Failed
  <2>1. rpm \in Nat
    BY <1>3, ReadingAssumption
  <2> QED
    BY <1>1, <1>3, <2>1 DEF SpeedOf
<1>4. CASE ~ byTach /\ hundreds # Failed
  <2>1. hundreds * 100 \in Nat
    BY <1>4, ReadingAssumption DEF Word16
  <2>2. hundreds * 100 # Failed
    BY <2>1, FailedAssumption
  <2> QED
    BY <1>1, <1>4, <2>1, <2>2 DEF SpeedOf
<1>5. CASE (byTach /\ rpm = Failed) \/ (~ byTach /\ hundreds = Failed)
  BY <1>2, <1>5 DEF SpeedOf
<1> QED
  BY <1>3, <1>4, <1>5

\* F0Ac shows every speed of at most 14 bits as it is: fpe2 loses nothing.
THEOREM FanEncodingExact ==
  \A speed \in 0 .. 16383 : DecodeFpe2(EncodeFpe2(speed)) = speed
  BY DEF DecodeFpe2, EncodeFpe2

-----------------------------------------------------------------------------
\* The invariant holds at first.
LEMMA InitInv == Init => IInv
<1> SUFFICES ASSUME Init PROVE IInv
  OBVIOUS
<1>1. 0 \in 0 .. LuxModulus - 1 /\ 0 \in 0 .. ChanModulus - 1 /\ 0 \in Word16
  BY WordAssumption DEF Word16
<1>2. alv \in Alv
  BY <1>1 DEF Init, Alv
<1>3. forceBits \in SUBSET {"chan", "lux"} /\ sample \in Nat /\ polls \in 0 .. 2
  BY DEF Init
<1>4. TypeOK
  BY <1>1, <1>2, <1>3 DEF Init, TypeOK
<1>5. SampleFits /\ PollsAfterBoot /\ SampleAfterKey
  BY DEF Init, SampleFits, PollsAfterBoot, SampleAfterKey
<1>6. NeverDisarmed /\ OffWithinTwoPolls
  BY DEF Init, NeverDisarmed, OffWithinTwoPolls
<1>7. ClientsAfterBoot /\ ServedIsCurrent
  BY DEF Init, ClientsAfterBoot, ServedIsCurrent, Unread
<1> QED
  BY <1>4, <1>5, <1>6, <1>7 DEF IInv

\* Reading ALV0 leaves its data within their widths.
LEMMA ReadALV0Type ==
  TypeOK /\ ReadALV0 =>
    alv' \in Alv
<1> SUFFICES ASSUME TypeOK, ReadALV0
    PROVE alv' \in Alv
  OBVIOUS
<1>1. currentLux \in Nat /\ currentLux * RoomScale \in Nat
  BY WordAssumption DEF TypeOK
<1>2. /\ currentLux % ChanModulus \in 0 .. ChanModulus - 1
      /\ (currentLux * RoomScale) % LuxModulus \in 0 .. LuxModulus - 1
  BY <1>1, Remainder, WordAssumption
<1> QED
  BY <1>2 DEF TypeOK, ReadALV0, Alv

\* The first fan reading leaves a value that fits the atomic.
LEMMA InitEC0Type ==
  TypeOK /\ InitEC0Device => currentFanSpeed' \in Word16 /\ isTACHAvailable' \in BOOLEAN
<1> SUFFICES ASSUME TypeOK, InitEC0Device
    PROVE currentFanSpeed' \in Word16 /\ isTACHAvailable' \in BOOLEAN
  OBVIOUS
<1>1. \A n \in Nat : n % 65536 \in Word16
  BY DEF Word16
<1>2. currentFanSpeed \in Word16 /\ (tach # Failed => tach \in Nat)
  BY ReadingAssumption DEF TypeOK
<1>3. UnknownSpeed \in Word16
  BY DEF UnknownSpeed, Word16
<1>4. tach # Failed => tach % 65536 \in Word16
  BY <1>1, <1>2
<1>5. \/ currentFanSpeed' = currentFanSpeed \/ currentFanSpeed' = UnknownSpeed
      \/ tach # Failed /\ currentFanSpeed' = tach % 65536
  BY DEF InitEC0Device
<1>6. currentFanSpeed' \in Word16
  BY <1>2, <1>3, <1>4, <1>5
<1>7. isTACHAvailable' = FALSE \/ isTACHAvailable' = TRUE
  BY DEF InitEC0Device
<1>8. isTACHAvailable' \in BOOLEAN
  BY <1>7
<1> QED
  BY <1>6, <1>8

\* Every step keeps the invariant's types and the values in flight.
LEMMA TypeStep == TypeOK /\ SampleFits /\ [Next]_vars => TypeOK' /\ SampleFits'
<1> SUFFICES ASSUME TypeOK, SampleFits, [Next]_vars PROVE TypeOK' /\ SampleFits'
  OBVIOUS
<1>a. ReadALV0 => alv' \in Alv
  BY ReadALV0Type
<1>b. InitEC0Device => currentFanSpeed' \in Word16 /\ isTACHAvailable' \in BOOLEAN
  BY InitEC0Type
<1>c. EncodeFpe2(currentFanSpeed) \in Word16
  BY DEF TypeOK, Word16, EncodeFpe2
<1> USE DEF TypeOK, SampleFits, firmware, devices, smc
<1>1. CASE FirmwareChange
  BY <1>1 DEF FirmwareChange
<1>2. CASE InitALSDevice
  <2>1. alsDevice' = FALSE \/ alsDevice' = TRUE
    BY <1>2 DEF InitALSDevice
  <2>2. alsDevice' \in BOOLEAN
    BY <2>1
  <2>3. currentLux' = currentLux \/ currentLux' = Reading
    BY <1>2 DEF InitALSDevice
  <2>4. currentLux' \in 0 .. LuxModulus - 1
    BY <2>3, ReadingFits
  <2> QED
    BY <1>2, <2>2, <2>4 DEF InitALSDevice
<1>3. CASE InitEC0Device
  BY <1>3, <1>b DEF InitEC0Device
<1>4. CASE StartATKDevice
  BY <1>4 DEF StartATKDevice
<1>5. CASE VsmcNotificationHandler
  BY <1>5 DEF VsmcNotificationHandler
<1>6. CASE TimerFires
  BY <1>6 DEF TimerFires
<1>7. CASE RefreshALSNoDevice
  BY <1>7 DEF RefreshALSNoDevice
<1>8. CASE RefreshALSRead
  BY <1>8, ReadingFits, WordAssumption DEF RefreshALSRead
<1>9. CASE RefreshALSStore
  BY <1>9 DEF RefreshALSStore
<1>10. CASE RefreshALSRearm
  BY <1>10 DEF RefreshALSRearm
<1>11. CASE RefreshFanRead
  <2>1. SpeedOf(isTACHAvailable, tach, wmiFan) \in Word16
    BY SpeedFits
  <2> QED
    BY <1>11, <2>1 DEF RefreshFanRead, Word16
<1>12. CASE RefreshFanStore
  BY <1>12 DEF RefreshFanStore
<1>13. CASE ALSKey
  BY <1>13 DEF ALSKey
<1>14. CASE WriteForceBits
  BY <1>14, ForceAssumption DEF WriteForceBits
<1>15. CASE ReadALV0
  <2>1. alv' \in Alv
    BY <1>15, <1>a
  <2>2. /\ interrupt' = FALSE
        /\ UNCHANGED <<firmware, devices, isALSEnabled, currentLux,
                       currentFanSpeed, boot, poller, loop, sample, forceBits,
                       f0ac, polls>>
    BY <1>15 DEF ReadALV0
  <2>3. interrupt' \in BOOLEAN
    BY <2>2
  <2>4. TypeOK'
    BY <2>1, <2>2, <2>3
  <2>5. SampleFits'
    BY <2>2
  <2> QED
    BY <2>4, <2>5
<1>16. CASE ReadF0Ac
  <2>1. f0ac' \in Word16
    BY <1>16, <1>c DEF ReadF0Ac
  <2> QED
    BY <1>16, <2>1 DEF ReadF0Ac
<1>17. CASE UNCHANGED vars
  BY <1>17 DEF vars
<1> HIDE DEF TypeOK, SampleFits, firmware, devices, smc
<1> QED
  BY <1>1, <1>2, <1>3, <1>4, <1>5, <1>6, <1>7, <1>8, <1>9, <1>10, <1>11,
     <1>12, <1>13, <1>14, <1>15, <1>16, <1>17
  DEF Next, Start, Work, Client

\* Every step keeps the timer going and the ALS key's effect coming.
LEMMA PollingStep == IInv /\ [Next]_vars =>
  (PollsAfterBoot /\ SampleAfterKey /\ NeverDisarmed /\ OffWithinTwoPolls)'
<1> SUFFICES ASSUME IInv, [Next]_vars
    PROVE (PollsAfterBoot /\ SampleAfterKey /\ NeverDisarmed /\ OffWithinTwoPolls)'
  OBVIOUS
<1>0. /\ isALSEnabled \in BOOLEAN /\ alsDevice \in BOOLEAN
      /\ polls \in 0 .. 2
  BY DEF IInv, TypeOK
<1> USE <1>0 DEF IInv, PollsAfterBoot, SampleAfterKey, NeverDisarmed,
                 OffWithinTwoPolls, firmware, devices, smc
<1>1. CASE FirmwareChange \/ UNCHANGED vars \/ Client
  BY <1>1 DEF FirmwareChange, vars, Client, WriteForceBits, ReadALV0, ReadF0Ac
<1>2. CASE Start
  BY <1>2 DEF Start, InitALSDevice, InitEC0Device, StartATKDevice,
              VsmcNotificationHandler
<1>3. CASE TimerFires \/ RefreshALSNoDevice
  BY <1>3 DEF TimerFires, RefreshALSNoDevice
<1>4. CASE RefreshALSRead
  BY <1>4 DEF RefreshALSRead, Reading
<1>5. CASE RefreshALSStore
  BY <1>5 DEF RefreshALSStore
<1>6. CASE RefreshALSRearm
  BY <1>6 DEF RefreshALSRearm
<1>7. CASE RefreshFanRead \/ RefreshFanStore
  BY <1>7 DEF RefreshFanRead, RefreshFanStore
<1>8. CASE ALSKey
  BY <1>8 DEF ALSKey
<1> QED
  BY <1>1, <1>2, <1>3, <1>4, <1>5, <1>6, <1>7, <1>8 DEF Next, Work

\* A read of ALV0 shows the reading stored last in every field that is free.
LEMMA ReadShows ==
  TypeOK /\ ClientsAfterBoot /\ ReadALV0 => ServedIsCurrent'
<1> SUFFICES ASSUME TypeOK, ClientsAfterBoot, ReadALV0 PROVE ServedIsCurrent'
  OBVIOUS
<1>1. currentLux' = currentLux
  BY DEF ReadALV0
<1>2. CASE currentLux = InvalidLux
  <2>1. alv' = [alv EXCEPT !.valid = FALSE]
    BY <1>2 DEF ReadALV0
  <2>2. alv'.valid = FALSE
    BY <2>1 DEF TypeOK, Alv
  <2> QED
    BY <1>1, <1>2, <2>2 DEF ServedIsCurrent
<1>3. CASE currentLux # InvalidLux
  <2>1. /\ alv'.valid = TRUE
        /\ "chan" \notin forceBits => alv'.chan0 = currentLux % ChanModulus
        /\ "lux" \notin forceBits => alv'.roomLux = (currentLux * RoomScale) % LuxModulus
    BY <1>3 DEF ReadALV0
  <2> QED
    BY <1>1, <1>3, <2>1 DEF ServedIsCurrent, ClientsAfterBoot
<1> QED
  BY <1>2, <1>3

\* Every step leaves a client that has served its interrupts with what is
\* stored: a store is followed by its interrupt, and only a read takes one back.
LEMMA ServedStep == IInv /\ [Next]_vars => (ClientsAfterBoot /\ ServedIsCurrent)'
<1> SUFFICES ASSUME IInv, [Next]_vars PROVE (ClientsAfterBoot /\ ServedIsCurrent)'
  OBVIOUS
<1>1. ASSUME UNCHANGED <<alv, forceBits, interrupt, currentLux>>,
             boot = "polling" => boot' = "polling",
             loop # "rearm"
      PROVE  (ClientsAfterBoot /\ ServedIsCurrent)'
  BY <1>1 DEF IInv, ClientsAfterBoot, ServedIsCurrent
<1>2. CASE UNCHANGED <<alv, forceBits, interrupt, currentLux, boot, loop>>
  BY <1>2 DEF IInv, ClientsAfterBoot, ServedIsCurrent
<1>3. CASE FirmwareChange \/ ALSKey \/ ReadF0Ac \/ UNCHANGED vars
  BY <1>2, <1>3 DEF FirmwareChange, ALSKey, ReadF0Ac, vars, smc
<1>4. CASE InitALSDevice
  <2>1. /\ boot = "initALS" /\ boot' = "initEC0" /\ alv' = alv
        /\ forceBits' = forceBits
    BY <1>4 DEF InitALSDevice, smc
  <2>2. alv = Unread
    BY <2>1 DEF IInv, ClientsAfterBoot
  <2> QED
    BY <2>1, <2>2 DEF IInv, ClientsAfterBoot, ServedIsCurrent
<1>5. CASE InitEC0Device \/ StartATKDevice \/ VsmcNotificationHandler
  <2>1. /\ UNCHANGED <<alv, forceBits, interrupt, currentLux>>
        /\ boot # "polling"
    BY <1>5 DEF InitEC0Device, StartATKDevice, VsmcNotificationHandler, smc
  <2>2. loop # "rearm"
    BY <2>1 DEF IInv, PollsAfterBoot
  <2> QED
    BY <1>1, <2>1, <2>2
<1>6. CASE TimerFires \/ RefreshALSNoDevice \/ RefreshALSRead
           \/ RefreshFanRead \/ RefreshFanStore
  BY <1>1, <1>6 DEF TimerFires, RefreshALSNoDevice, RefreshALSRead,
                    RefreshFanRead, RefreshFanStore, smc
<1>7. CASE RefreshALSStore
  BY <1>7 DEF RefreshALSStore, smc, IInv, ClientsAfterBoot, ServedIsCurrent
<1>8. CASE RefreshALSRearm
  BY <1>8 DEF RefreshALSRearm, IInv, ClientsAfterBoot, ServedIsCurrent
<1>9. CASE WriteForceBits
  BY <1>9 DEF WriteForceBits, IInv, ClientsAfterBoot, ServedIsCurrent
<1>10. CASE ReadALV0
  <2>1. boot' = "polling" /\ forceBits' = forceBits
    BY <1>10 DEF ReadALV0
  <2> QED
    BY <1>10, <2>1, ReadShows DEF IInv, ClientsAfterBoot
<1> QED
  BY <1>3, <1>4, <1>5, <1>6, <1>7, <1>8, <1>9, <1>10 DEF Next, Start, Work, Client

\* IInv is an invariant of every behaviour.
THEOREM Inductive == Spec => []IInv
<1>1. IInv /\ [Next]_vars => IInv'
  BY TypeStep, PollingStep, ServedStep DEF IInv
<1> QED
  BY <1>1, InitInv, PTL DEF Spec

\* The variables keep their types; no atomic or key overflows its width.
THEOREM TypeCorrect == Spec => []TypeOK
  BY Inductive, PTL DEF IInv

\* With a light sensor, the timer is armed again after each of its actions.
THEOREM PollingGoesOn == Spec => []NeverDisarmed
  BY Inductive, PTL DEF IInv

\* However the key falls among the steps of the poll, at most one store after
\* it still comes from a sample taken before it.
THEOREM KeyTakesEffect == Spec => []OffWithinTwoPolls
  BY Inductive, PTL DEF IInv

\* No update of the light is lost on the way to a client that reads ALV0 when
\* interrupted: whenever it has served its interrupts, what it read is what the
\* work loop stored last, for every width of the words and every set of writes.
THEOREM NoUpdateLost == Spec => []ServedIsCurrent
  BY Inductive, PTL DEF IInv

=============================================================================
