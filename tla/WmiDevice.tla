----------------------------- MODULE WmiDevice -----------------------------
(***************************************************************************)
(* The driver's calls into the ATK device of the firmware, and the two SMC *)
(* keys whose writing makes one: BDVT sets the battery's charge threshold  *)
(* through WMI, LKSB the keyboard backlight through SKBV.                  *)
(*                                                                         *)
(* start looks up the name of the WMI method in _WDG, asks whether there   *)
(* is a threshold, sets it, looks for SKBV and registers the keys.         *)
(* VirtualSMC then hands over one write at a time.  The calls of INIT and  *)
(* for the light sensor's power are left out: nothing depends on them.     *)
(*                                                                         *)
(* External: the firmware.  Any evaluation may fail, with no effect; a     *)
(* WMI method answers a 32-bit number, here a signed one, and answers a    *)
(* write of the threshold with 1 exactly when it has been set.             *)
(***************************************************************************)
EXTENDS Integers, Sequences

CONSTANTS Wdgs,   \* the _WDG tables a firmware may have: sequences of blocks
          Ids,    \* names of WMI methods
          Lkbs    \* pairs of bytes that clients write to LKSB

Byte == 0 .. 255

ASSUME WdgAssumption ==
  Wdgs \subseteq Seq([guid : [1 .. 16 -> Byte], id : Ids])
ASSUME IdAssumption == "WMNB" \in Ids /\ "" \notin Ids
ASSUME LkbAssumption == Lkbs \subseteq Byte \X Byte

VARIABLES
  machine,     \* kernel, _WDG table and what the firmware supports
  threshold,   \* the battery's charge threshold, in percent
  level,       \* the backlight level SKBV was last evaluated with
  boot,        \* what start has done
  wmi_method, isBatteryRSOCAvailable, hasKeyboardBacklight,
  batteryProperty,     \* "BatteryConservativeMode": a set of at most one BOOLEAN
  keys, bdvt, lksb,    \* registered SMC keys; the data of BDVT and LKSB
  batteryMissed, lightMissed  \* ghosts: the last write did not get through

vars == <<machine, threshold, level, boot, wmi_method, isBatteryRSOCAvailable,
          hasKeyboardBacklight, batteryProperty, keys, bdvt, lksb,
          batteryMissed, lightMissed>>
driver == <<wmi_method, isBatteryRSOCAvailable, hasKeyboardBacklight, keys>>
battery == <<threshold, batteryProperty, bdvt, batteryMissed>>
light == <<level, lksb, lightMissed>>

-----------------------------------------------------------------------------
(***************************************************************************)
(* Conversions.                                                            *)
(***************************************************************************)

\* ASUS_WMI_MGMT_GUID, digit pairs in the order of the string.
MgmtGuid == <<151, 132, 94, 208, 78, 109, 17, 222, 138, 57, 8, 0, 32, 12, 154, 102>>

\* A plausible slip: the bytes are written out in the order of the table.
StraightGuid(in) == in

\* The first three groups of a GUID lie in the table with their low byte first.
wmi_parse_guid(in) ==
  <<in[4], in[3], in[2], in[1], in[6], in[5], in[8], in[7], in[9], in[10],
    in[11], in[12], in[13], in[14], in[15], in[16]>>

\* The device's method by its name, as a call sees it: it may fail.
Failed == [ok |-> FALSE, val |-> 0]
Replies(vals) ==
  {Failed} \cup {[ok |-> TRUE, val |-> v] : v \in {u \in vals : wmi_method = machine.method}}

\* An answer of 0xfffffffe, -2 as a signed number, means an unknown method.
wmi_evaluate_method(reply) ==
  IF ~ reply.ok \/ reply.val = -2 THEN -1 ELSE reply.val

\* A plausible slip: -1, which has every bit, is not told from an answer.
PresentUnchecked(status) == (status \div 65536) % 2 = 1

\* ASUS_WMI_DSTS_PRESENCE_BIT of the status, which is in two's complement.
wmi_dev_is_present(status) == status # -1 /\ (status \div 65536) % 2 = 1

\* What DSTS answers for the threshold's device.
StatusValues == IF machine.rsoc THEN {65536, 65617} ELSE {0, -1, -2}

\* A plausible slip: the two bytes are joined the wrong way round.
SwappedLevel(lkb) == ((lkb[2] * 16 + lkb[1] \div 16) % 65536) \div 16

\* A plausible slip: SKBV gets the 12-bit value and not one of its 256 levels.
UndividedLevel(lkb) == (lkb[1] * 16 + lkb[2] \div 16) % 65536

\* SMCKBrdBLightValue::update and message: val1 << 4 | val2 >> 4, over 16.
LevelOf(lkb) == ((lkb[1] * 16 + lkb[2] \div 16) % 65536) \div 16

\* getKernelVersion and its minor: battery health came with 10.15.5.
Catalina == 19
HasBatteryHealth(kernel) ==
  ~ (kernel[1] < Catalina \/ (kernel[1] = Catalina /\ kernel[2] < 5))

\* The keys of registerVSMC.
Keys == {"AL!", "ALI0", "ALI1", "ALRV", "ALV0", "ALV1", "LKSB", "LKSS", "MSLD",
         "FNum", "F0Ac", "F0ID"} \cup (IF isBatteryRSOCAvailable THEN {"BDVT"} ELSE {})

-----------------------------------------------------------------------------
(***************************************************************************)
(* start.                                                                  *)
(***************************************************************************)
Machines == [kernel : {<<18, 7>>, <<19, 4>>, <<19, 5>>, <<20, 0>>},
             wdg : {{}} \cup {{w} : w \in Wdgs},   \* {}: no table, or no data
             method : Ids, rsoc : BOOLEAN, skbv : BOOLEAN]

Init ==
  /\ machine \in Machines
  /\ threshold = 100 /\ level = 0
  /\ boot = "parse_WDG"
  /\ wmi_method = "" /\ isBatteryRSOCAvailable = FALSE
  /\ hasKeyboardBacklight = FALSE /\ batteryProperty = {}
  /\ keys = {} /\ bdvt = 0 /\ lksb = <<0, 1>>
  /\ batteryMissed = FALSE /\ lightMissed = TRUE

\* The first block with the GUID names the method; without a table it stays empty.
IsMgmt(block) == wmi_parse_guid(block.guid) = MgmtGuid
ParseWDG ==
  /\ boot = "parse_WDG" /\ boot' = "initBattery"
  /\ \/ machine.wdg = {} /\ wmi_method' = wmi_method
     \/ \E w \in machine.wdg :
          \/ \E i \in DOMAIN w : /\ IsMgmt(w[i]) /\ \A j \in 1 .. i - 1 : ~ IsMgmt(w[j])
                                 /\ wmi_method' = w[i].id
          \/ (\A i \in DOMAIN w : ~ IsMgmt(w[i])) /\ wmi_method' = "WMNB"
  /\ UNCHANGED <<machine, isBatteryRSOCAvailable, hasKeyboardBacklight, keys,
                 battery, light>>

\* A plausible slip: the property is set whatever the firmware answers.
ToggleUnchecked(state) ==
  \E reply \in Replies({0, 1, -2}) :
    LET set == reply = [ok |-> TRUE, val |-> 1] IN
    /\ threshold' = IF set THEN (IF state THEN 80 ELSE 100) ELSE threshold
    /\ batteryProperty' = {state}
    /\ batteryMissed' = ~ set

\* toggleBatteryConservativeMode, on a machine with RSOC.
ToggleBatteryConservativeMode(state) ==
  \E reply \in Replies({0, 1, -2}) :
    LET set == reply = [ok |-> TRUE, val |-> 1] IN
    /\ threshold' = IF set THEN (IF state THEN 80 ELSE 100) ELSE threshold
    /\ batteryProperty' = IF wmi_evaluate_method(reply) # 1 THEN batteryProperty ELSE {state}
    /\ batteryMissed' = ~ set

InitBattery ==
  /\ boot = "initBattery" /\ boot' = "startATKDevice"
  /\ \/ ~ HasBatteryHealth(machine.kernel)
        /\ UNCHANGED <<isBatteryRSOCAvailable, battery>>
     \/ /\ HasBatteryHealth(machine.kernel)
        /\ \E reply \in Replies(StatusValues) :
             isBatteryRSOCAvailable' = wmi_dev_is_present(wmi_evaluate_method(reply))
        /\ \/ isBatteryRSOCAvailable' /\ ToggleBatteryConservativeMode(TRUE)
           \/ ~ isBatteryRSOCAvailable' /\ UNCHANGED <<threshold, batteryProperty, batteryMissed>>
        /\ bdvt' = bdvt
  /\ UNCHANGED <<machine, wmi_method, hasKeyboardBacklight, keys, light>>

StartATKDevice ==
  /\ boot = "startATKDevice" /\ boot' = "registerVSMC"
  /\ hasKeyboardBacklight' = machine.skbv
  /\ UNCHANGED <<machine, wmi_method, isBatteryRSOCAvailable, keys, battery, light>>

RegisterVSMC ==
  /\ boot = "registerVSMC" /\ boot' = "running" /\ keys' = Keys
  /\ UNCHANGED <<machine, wmi_method, isBatteryRSOCAvailable, hasKeyboardBacklight,
                 battery, light>>

-----------------------------------------------------------------------------
(***************************************************************************)
(* Clients of the SMC.                                                     *)
(***************************************************************************)

\* The byte is copied into a bool: one that is neither 0 nor 1 is undefined.
States(byte) == {state \in BOOLEAN : (byte = 0 => ~ state) /\ (byte = 1 => state)}

\* A plausible slip: the state is not inverted.
WriteBDVTStraight(byte) ==
  /\ "BDVT" \in keys
  /\ \E state \in States(byte) : ToggleBatteryConservativeMode(state)
  /\ bdvt' = byte
  /\ UNCHANGED <<machine, boot, driver, light>>

\* BDVT::update: the call, and then the data whatever came of it.
WriteBDVT(byte) ==
  /\ "BDVT" \in keys
  /\ \E state \in States(byte) : ToggleBatteryConservativeMode(~ state)
  /\ bdvt' = byte
  /\ UNCHANGED <<machine, boot, driver, light>>

\* SMCKBrdBLightValue::update, through message; the result is ignored.
WriteLKSB(lkb) ==
  /\ "LKSB" \in keys
  /\ \/ /\ hasKeyboardBacklight
        /\ \/ level' = LevelOf(lkb) /\ lightMissed' = FALSE
           \/ level' = level /\ lightMissed' = TRUE
     \/ ~ hasKeyboardBacklight /\ UNCHANGED <<level, lightMissed>>
  /\ lksb' = lkb
  /\ UNCHANGED <<machine, boot, driver, battery>>

Start == ParseWDG \/ InitBattery \/ StartATKDevice \/ RegisterVSMC

Next ==
  \/ Start
  \/ \E byte \in {0, 1, 2} : WriteBDVT(byte)
  \/ \E lkb \in Lkbs : WriteLKSB(lkb)

Spec == Init /\ [][Next]_vars

-----------------------------------------------------------------------------
(***************************************************************************)
(* Properties.                                                             *)
(***************************************************************************)
TypeOK ==
  /\ machine \in Machines
  /\ threshold \in {80, 100} /\ level \in Byte
  /\ boot \in {"parse_WDG", "initBattery", "startATKDevice", "registerVSMC", "running"}
  /\ wmi_method \in Ids \cup {""} /\ isBatteryRSOCAvailable \in BOOLEAN
  /\ hasKeyboardBacklight \in BOOLEAN /\ batteryProperty \in {{}, {TRUE}, {FALSE}}
  /\ bdvt \in {0, 1, 2} /\ lksb \in Lkbs \cup {<<0, 1>>}
  /\ batteryMissed \in BOOLEAN /\ lightMissed \in BOOLEAN

\* The method that is called is the first one the firmware's table has under
\* the management GUID, whose bytes lie there in the order of mixed endianness.
MgmtBytes == <<208, 94, 132, 151, 109, 78, 222, 17, 138, 57, 8, 0, 32, 12, 154, 102>>
MethodFound ==
  boot # "parse_WDG" =>
    \A w \in machine.wdg : \A i \in DOMAIN w :
      (w[i].guid = MgmtBytes /\ \A j \in 1 .. i - 1 : w[j].guid # MgmtBytes) =>
        wmi_method = w[i].id

\* BDVT is offered on a machine only whose firmware has the threshold and can
\* be reached -- a failed or unknown call is no sign of a device.
NoPhantomBattery ==
  "BDVT" \in keys => machine.rsoc /\ wmi_method = machine.method

\* The registry property, once there, is the firmware's threshold, whatever
\* calls failed on the way.
PropertyTellsThreshold ==
  \A state \in batteryProperty : threshold = IF state THEN 80 ELSE 100

\* BDVT tells the threshold whenever the last call that was to set it got
\* through, from the first one in start on.
KeyTellsThreshold ==
  ("BDVT" \in keys /\ ~ batteryMissed /\ bdvt \in {0, 1}) =>
     threshold = IF bdvt = 0 THEN 80 ELSE 100

\* The backlight is at the level that LKSB shows whenever the last call for it
\* got through: the two bytes become the first of them.
LightTellsLevel == ~ lightMissed => level = lksb[1]

=============================================================================
