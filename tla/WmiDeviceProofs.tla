-------------------------- MODULE WmiDeviceProofs --------------------------
(***************************************************************************)
(* Proofs about the calls into the firmware, for every set of _WDG tables  *)
(* and every data written to LKSB.                                         *)
(***************************************************************************)
EXTENDS WmiDevice, TLAPS

\* Only the management GUID is formatted to its string.
LEMMA GuidExact ==
  ASSUME NEW in \in [1 .. 16 -> Byte]
  PROVE  wmi_parse_guid(in) = MgmtGuid <=> in = MgmtBytes
<1>1. ASSUME wmi_parse_guid(in) = MgmtGuid PROVE in = MgmtBytes
  <2>1. /\ in[1] = 208 /\ in[2] = 94 /\ in[3] = 132 /\ in[4] = 151
        /\ in[5] = 109 /\ in[6] = 78 /\ in[7] = 222 /\ in[8] = 17
        /\ in[9] = 138 /\ in[10] = 57 /\ in[11] = 8 /\ in[12] = 0
        /\ in[13] = 32 /\ in[14] = 12 /\ in[15] = 154 /\ in[16] = 102
    BY <1>1 DEF wmi_parse_guid, MgmtGuid
  <2>2. \A i \in 1 .. 16 : in[i] = MgmtBytes[i]
    BY <2>1 DEF MgmtBytes
  <2>3. MgmtBytes \in [1 .. 16 -> Byte]
    BY DEF MgmtBytes, Byte
  <2>4. QED
    BY <2>2, <2>3
<1>2. ASSUME in = MgmtBytes PROVE wmi_parse_guid(in) = MgmtGuid
  BY <1>2 DEF wmi_parse_guid, MgmtGuid, MgmtBytes
<1>3. QED
  BY <1>1, <1>2

-----------------------------------------------------------------------------
\* SKBV gets the first byte of LKSB, a level.
LEMMA LevelExact ==
  ASSUME NEW lkb \in Byte \X Byte
  PROVE  LevelOf(lkb) = lkb[1] /\ lkb[1] \in Byte
<1>1. PICK a \in Byte, b \in Byte : lkb = <<a, b>>
  OBVIOUS
<1>2. lkb[1] = a /\ lkb[2] = b
  BY <1>1
<1>3. a \in 0 .. 255 /\ b \div 16 \in 0 .. 15
  BY DEF Byte
<1>4. (a * 16 + b \div 16) % 65536 = a * 16 + b \div 16
  BY <1>3
<1>5. (a * 16 + b \div 16) \div 16 = a
  BY <1>3
<1>6. QED
  BY <1>2, <1>4, <1>5 DEF LevelOf

\* Only the answer 1 counts as a success, and only a present device as present.
LEMMA StatusExact ==
  ASSUME NEW vals, NEW reply \in Replies(vals)
  PROVE  /\ wmi_evaluate_method(reply) = 1 => reply = [ok |-> TRUE, val |-> 1]
         /\ (vals = StatusValues /\ wmi_dev_is_present(wmi_evaluate_method(reply)))
              => machine.rsoc /\ wmi_method = machine.method
<1>1. CASE reply = Failed
  BY <1>1 DEF wmi_evaluate_method, wmi_dev_is_present, Failed
<1>2. ASSUME NEW v \in vals, wmi_method = machine.method,
             reply = [ok |-> TRUE, val |-> v]
      PROVE  /\ wmi_evaluate_method(reply) = 1 => reply = [ok |-> TRUE, val |-> 1]
             /\ (vals = StatusValues /\ wmi_dev_is_present(wmi_evaluate_method(reply)))
                   => machine.rsoc /\ wmi_method = machine.method
  <2>1. wmi_evaluate_method(reply) = IF v = -2 THEN -1 ELSE v
    BY <1>2 DEF wmi_evaluate_method
  <2>2. wmi_evaluate_method(reply) = 1 => v = 1
    BY <2>1
  <2>3. ASSUME vals = StatusValues, ~ machine.rsoc
        PROVE  ~ wmi_dev_is_present(wmi_evaluate_method(reply))
    <3>1. v \in {0, -1, -2}
      BY <1>2, <2>3 DEF StatusValues
    <3>2. wmi_evaluate_method(reply) \in {0, -1}
      BY <2>1, <3>1
    <3>3. QED
      BY <3>2 DEF wmi_dev_is_present
  <2>4. QED
    BY <1>2, <2>2, <2>3
<1>3. QED
  BY <1>1, <1>2 DEF Replies

\* What the driver knows of the battery: there is a key only where start found
\* the device, and it found it only on a machine that has it.
Known ==
  /\ ~ lightMissed => boot = "running" /\ hasKeyboardBacklight
  /\ boot # "running" => keys = {}
  /\ "BDVT" \in keys => isBatteryRSOCAvailable
  /\ isBatteryRSOCAvailable => /\ boot \notin {"parse_WDG", "initBattery"}
                               /\ machine.rsoc /\ wmi_method = machine.method

\* KeyTellsThreshold from the moment the device is found.
Agreed ==
  /\ boot # "running" => bdvt = 0
  /\ (isBatteryRSOCAvailable /\ ~ batteryMissed /\ bdvt \in {0, 1}) =>
        threshold = IF bdvt = 0 THEN 80 ELSE 100

Told == MethodFound /\ Known /\ Agreed /\ PropertyTellsThreshold /\ LightTellsLevel

\* What every call of toggleBatteryConservativeMode leaves behind.
LEMMA Toggled ==
  ASSUME TypeOK, PropertyTellsThreshold, NEW state \in BOOLEAN,
         ToggleBatteryConservativeMode(state)
  PROVE  /\ PropertyTellsThreshold'
         /\ threshold' \in {80, 100} /\ batteryProperty' \in {{}, {TRUE}, {FALSE}}
         /\ batteryMissed' \in BOOLEAN
         /\ ~ batteryMissed' => threshold' = IF state THEN 80 ELSE 100
<1>1. PICK reply \in Replies({0, 1, -2}) :
        LET set == reply = [ok |-> TRUE, val |-> 1] IN
        /\ threshold' = IF set THEN (IF state THEN 80 ELSE 100) ELSE threshold
        /\ batteryProperty' = IF wmi_evaluate_method(reply) # 1
                                THEN batteryProperty ELSE {state}
        /\ batteryMissed' = ~ set
  BY DEF ToggleBatteryConservativeMode
<1>2. wmi_evaluate_method(reply) = 1 <=> reply = [ok |-> TRUE, val |-> 1]
  <2>1. wmi_evaluate_method([ok |-> TRUE, val |-> 1]) = 1
    BY DEF wmi_evaluate_method
  <2>2. QED
    BY <2>1, StatusExact
<1>3. CASE reply = [ok |-> TRUE, val |-> 1]
  <2>1. threshold' = (IF state THEN 80 ELSE 100) /\ batteryMissed' = FALSE
    BY <1>1, <1>3
  <2>2. batteryProperty' = {state}
    BY <1>1, <1>2, <1>3
  <2>3. {state} \in {{}, {TRUE}, {FALSE}}
    OBVIOUS
  <2>4. QED
    BY <2>1, <2>2, <2>3 DEF PropertyTellsThreshold
<1>4. CASE reply # [ok |-> TRUE, val |-> 1]
  BY <1>1, <1>2, <1>4 DEF PropertyTellsThreshold, TypeOK
<1>5. QED
  BY <1>3, <1>4

-----------------------------------------------------------------------------
\* ParseWDG finds the first block with the management GUID.
LEMMA ParseFinds ==
  ASSUME TypeOK, ParseWDG
  PROVE  MethodFound' /\ wmi_method' \in Ids \cup {""}
<1>1. CASE machine.wdg = {} /\ wmi_method' = wmi_method
  BY <1>1 DEF ParseWDG, MethodFound, TypeOK
<1>2. ASSUME NEW w \in machine.wdg,
             \/ \E i \in DOMAIN w : /\ IsMgmt(w[i]) /\ \A j \in 1 .. i - 1 : ~ IsMgmt(w[j])
                                    /\ wmi_method' = w[i].id
             \/ (\A i \in DOMAIN w : ~ IsMgmt(w[i])) /\ wmi_method' = "WMNB"
      PROVE  MethodFound' /\ wmi_method' \in Ids \cup {""}
  <2>1. w \in Seq([guid : [1 .. 16 -> Byte], id : Ids]) /\ machine.wdg = {w}
    <3>1. machine.wdg \in {{}} \cup {{v} : v \in Wdgs}
      BY DEF TypeOK, Machines
    <3>2. PICK v \in Wdgs : machine.wdg = {v}
      BY <3>1
    <3>3. QED
      BY <3>2, WdgAssumption
  <2>2. \A i \in DOMAIN w : /\ w[i].guid \in [1 .. 16 -> Byte] /\ w[i].id \in Ids
                            /\ i \in Nat /\ \A j \in 1 .. i - 1 : j \in DOMAIN w
    <3>1. DOMAIN w = 1 .. Len(w) /\ Len(w) \in Nat
      BY <2>1
    <3>2. \A i \in DOMAIN w : w[i] \in [guid : [1 .. 16 -> Byte], id : Ids]
      <4>1. \A S : w \in Seq(S) => \A i \in 1 .. Len(w) : w[i] \in S
        OBVIOUS
      <4>2. QED
        BY <2>1, <3>1, <4>1
    <3>3. QED
      BY <3>1, <3>2
  <2>3. \A i \in DOMAIN w : IsMgmt(w[i]) <=> w[i].guid = MgmtBytes
    BY <2>2, GuidExact DEF IsMgmt
  <2>4. wmi_method' \in Ids
    BY <1>2, <2>2, IdAssumption
  <2>5. ASSUME NEW k \in DOMAIN w, w[k].guid = MgmtBytes,
               \A j \in 1 .. k - 1 : w[j].guid # MgmtBytes
        PROVE  wmi_method' = w[k].id
    <3>1. PICK i \in DOMAIN w : /\ IsMgmt(w[i]) /\ \A j \in 1 .. i - 1 : ~ IsMgmt(w[j])
                                /\ wmi_method' = w[i].id
      BY <1>2, <2>3, <2>5
    <3>2. ~ (i < k) /\ ~ (k < i)
      <4>1. i \in Nat /\ k \in Nat /\ i > 0 /\ k > 0
        <5>1. DOMAIN w = 1 .. Len(w) /\ Len(w) \in Nat
          BY <2>1
        <5>2. QED
          BY <5>1
      <4>2. i < k => i \in 1 .. k - 1
        BY <4>1
      <4>3. k < i => k \in 1 .. i - 1
        BY <4>1
      <4>4. QED
        BY <4>2, <4>3, <3>1, <2>3, <2>5
    <3>3. QED
      BY <3>1, <3>2, <2>2
  <2>6. machine' = machine
    BY DEF ParseWDG
  <2>7. QED
    BY <2>1, <2>4, <2>5, <2>6 DEF MethodFound
<1>3. QED
  BY <1>1, <1>2 DEF ParseWDG

LEMMA StepKeeps ==
  ASSUME TypeOK, Told, [Next]_vars
  PROVE  (TypeOK /\ Told)'
<1> USE DEF Told, Known, Agreed
<1>1. CASE ParseWDG
  BY <1>1, ParseFinds DEF ParseWDG, TypeOK, battery, light, PropertyTellsThreshold,
          LightTellsLevel
<1>2. CASE InitBattery
  <2>1. /\ boot = "initBattery" /\ boot' = "startATKDevice" /\ bdvt' = bdvt
        /\ UNCHANGED <<machine, wmi_method, hasKeyboardBacklight, keys, light>>
    BY <1>2 DEF InitBattery, battery
  <2>2. /\ ~ isBatteryRSOCAvailable /\ bdvt = 0 /\ keys = {}
    BY <2>1
  <2>3. MethodFound' /\ LightTellsLevel'
    BY <2>1 DEF MethodFound, LightTellsLevel, light
  <2>4. CASE UNCHANGED <<isBatteryRSOCAvailable, threshold, batteryProperty, batteryMissed>>
    BY <2>1, <2>2, <2>3, <2>4 DEF TypeOK, PropertyTellsThreshold, light
  <2>5. ASSUME NEW reply \in Replies(StatusValues),
               isBatteryRSOCAvailable' = wmi_dev_is_present(wmi_evaluate_method(reply)),
               \/ isBatteryRSOCAvailable' /\ ToggleBatteryConservativeMode(TRUE)
               \/ ~ isBatteryRSOCAvailable' /\ UNCHANGED <<threshold, batteryProperty, batteryMissed>>
        PROVE  (TypeOK /\ Told)'
    <3>1. isBatteryRSOCAvailable' \in BOOLEAN
      BY <2>5 DEF wmi_dev_is_present
    <3>2. isBatteryRSOCAvailable' => machine.rsoc /\ wmi_method = machine.method
      BY <2>5, StatusExact
    <3>3. CASE isBatteryRSOCAvailable' /\ ToggleBatteryConservativeMode(TRUE)
      BY <2>1, <2>2, <2>3, <3>1, <3>2, <3>3, Toggled DEF TypeOK, light
    <3>4. CASE ~ isBatteryRSOCAvailable' /\ UNCHANGED <<threshold, batteryProperty, batteryMissed>>
      BY <2>1, <2>2, <2>3, <3>1, <3>4 DEF TypeOK, light, PropertyTellsThreshold
    <3>5. QED
      BY <2>5, <3>3, <3>4
  <2>6. QED
    BY <1>2, <2>4, <2>5 DEF InitBattery, battery
<1>3. CASE StartATKDevice
  <2>1. machine.skbv \in BOOLEAN
    BY DEF TypeOK, Machines
  <2>2. hasKeyboardBacklight' \in BOOLEAN
    BY <1>3, <2>1 DEF StartATKDevice
  <2>3. TypeOK'
    BY <1>3, <2>2 DEF StartATKDevice, TypeOK, battery, light
  <2>4. Told'
    BY <1>3 DEF StartATKDevice, battery, light, MethodFound,
            PropertyTellsThreshold, LightTellsLevel
  <2>5. QED
    BY <2>3, <2>4
<1>4. CASE RegisterVSMC
  BY <1>4 DEF RegisterVSMC, TypeOK, Keys, battery, light, MethodFound,
          PropertyTellsThreshold, LightTellsLevel
<1>5. ASSUME NEW byte \in {0, 1, 2}, WriteBDVT(byte)
      PROVE  (TypeOK /\ Told)'
  <2>1. /\ bdvt' = byte /\ UNCHANGED <<machine, boot, driver, light>>
        /\ "BDVT" \in keys
    BY <1>5 DEF WriteBDVT
  <2>2. PICK state \in States(byte) : ToggleBatteryConservativeMode(~ state)
    BY <1>5 DEF WriteBDVT
  <2>3. state \in BOOLEAN /\ (byte = 0 => state = FALSE) /\ (byte = 1 => state = TRUE)
    BY <2>2 DEF States
  <2>4. PICK s \in BOOLEAN : s = ~ state
    BY <2>3
  <2>5. ToggleBatteryConservativeMode(s)
    BY <2>2, <2>4
  <2>6. /\ PropertyTellsThreshold'
        /\ threshold' \in {80, 100} /\ batteryProperty' \in {{}, {TRUE}, {FALSE}}
        /\ batteryMissed' \in BOOLEAN
        /\ ~ batteryMissed' => threshold' = IF s THEN 80 ELSE 100
    BY <2>5, Toggled
  <2>7. TypeOK'
    BY <2>1, <2>6 DEF TypeOK, driver, light
  <2>8. MethodFound' /\ LightTellsLevel' /\ Known'
    BY <2>1 DEF MethodFound, LightTellsLevel, driver, light
  <2>9. Agreed'
    BY <2>1, <2>3, <2>4, <2>6 DEF driver
  <2>10. QED
    BY <2>6, <2>7, <2>8, <2>9
<1>6. ASSUME NEW lkb \in Lkbs, WriteLKSB(lkb)
      PROVE  (TypeOK /\ Told)'
  <2>1. LevelOf(lkb) = lkb[1] /\ lkb[1] \in Byte
    BY LevelExact, LkbAssumption
  <2>2. lksb' = lkb /\ UNCHANGED <<machine, boot, driver, battery>>
    BY <1>6 DEF WriteLKSB
  <2>3. level' \in Byte /\ lightMissed' \in BOOLEAN /\ LightTellsLevel'
    <3>1. level \in Byte /\ lightMissed \in BOOLEAN /\ (~ lightMissed => hasKeyboardBacklight)
      BY DEF TypeOK
    <3>2. CASE level' = LevelOf(lkb) /\ lightMissed' = FALSE
      BY <2>1, <2>2, <3>2 DEF LightTellsLevel
    <3>3. CASE level' = level /\ lightMissed' = TRUE
      BY <3>1, <3>3 DEF LightTellsLevel
    <3>4. CASE ~ hasKeyboardBacklight /\ UNCHANGED <<level, lightMissed>>
      BY <3>1, <3>4 DEF LightTellsLevel
    <3>5. QED
      BY <1>6, <3>2, <3>3, <3>4 DEF WriteLKSB
  <2>4. QED
    <3>1. TypeOK'
      BY <2>2, <2>3 DEF TypeOK, driver, battery
    <3>2. ~ lightMissed' => boot' = "running" /\ hasKeyboardBacklight'
      BY <1>6, <2>2 DEF WriteLKSB, driver
    <3>3. boot = "running"
      BY <1>6 DEF WriteLKSB
    <3>4. Told'
      BY <2>2, <2>3, <3>2, <3>3 DEF MethodFound, PropertyTellsThreshold, driver, battery
    <3>5. QED
      BY <3>1, <3>4
<1>7. CASE UNCHANGED vars
  <2>1. TypeOK'
    BY <1>7 DEF vars, TypeOK, battery, light
  <2>2. Told'
    BY <1>7 DEF vars, MethodFound, PropertyTellsThreshold, LightTellsLevel
  <2>3. QED
    BY <2>1, <2>2
<1>8. QED
  BY <1>1, <1>2, <1>3, <1>4, <1>5, <1>6, <1>7 DEF Next, Start

-----------------------------------------------------------------------------
\* The inductive invariant holds of every behaviour.
THEOREM Inductive == Spec => [](TypeOK /\ Told)
<1>1. Init => TypeOK /\ Told
  <2> SUFFICES ASSUME Init PROVE TypeOK /\ Told
    OBVIOUS
  <2>1. TypeOK
    <3>1. level \in Byte
      <4>1. level = 0
        BY DEF Init
      <4>2. QED
        BY <4>1 DEF Byte
    <3>2. lksb \in Lkbs \cup {<<0, 1>>} /\ batteryProperty \in {{}, {TRUE}, {FALSE}}
      BY DEF Init
    <3>3. QED
      BY <3>1, <3>2 DEF Init, TypeOK
  <2>2. Told
    BY DEF Init, Told, MethodFound, Known, Agreed, PropertyTellsThreshold, LightTellsLevel
  <2>3. QED
    BY <2>1, <2>2
<1>2. QED
  BY <1>1, StepKeeps, PTL DEF Spec

\* No variable leaves its type: every level that reaches SKBV is a byte.
THEOREM TypeCorrect == Spec => []TypeOK
  BY Inductive, PTL

\* The driver calls the method of the first management block of any table.
THEOREM Lookup == Spec => []MethodFound
  BY Inductive, PTL DEF Told

\* The BDVT key is no phantom.
THEOREM NoPhantom == Spec => []NoPhantomBattery
<1>1. Told => NoPhantomBattery
  BY DEF Told, Known, NoPhantomBattery
<1>2. QED
  BY <1>1, Inductive, PTL

\* The registry property tells the threshold.
THEOREM PropertyHonest == Spec => []PropertyTellsThreshold
  BY Inductive, PTL DEF Told

\* BDVT tells the threshold unless the last call that was to set it failed.
THEOREM KeyHonest == Spec => []KeyTellsThreshold
<1>1. Told => KeyTellsThreshold
  BY DEF Told, Known, Agreed, KeyTellsThreshold
<1>2. QED
  BY <1>1, Inductive, PTL

\* The backlight is at the level LKSB shows unless the last call failed: no
\* pair of bytes is joined or cut to another level on the way to SKBV.
THEOREM LightHonest == Spec => []LightTellsLevel
  BY Inductive, PTL DEF Told

=============================================================================
