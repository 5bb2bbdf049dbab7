------------------------------- MODULE FnKeys -------------------------------
(***************************************************************************)
(* The function keys: from an ACPI notification to HID reports of the      *)
(* virtual Apple keyboard, and the key that switches the display off.      *)
(*                                                                         *)
(* handleMessage maps an event code to a stroke: a usage is put into the   *)
(* report's array of keys, the report is posted, the usage is taken out    *)
(* and the report posted again, as often as the stroke repeats.  The two   *)
(* reports (consumer keys and Apple's top case) are members of the driver  *)
(* that all handler threads share without a lock.  displayOff is built of  *)
(* such strokes: 16 times brightness down, or as many times up as it takes *)
(* to get back to the level it read from the registry before.              *)
(*                                                                         *)
(* A scan of the array of keys reads it at one moment; the store that      *)
(* follows it is a step of its own.                                        *)
(*                                                                         *)
(* External: IOHIDDevice takes reports one after the other, a press is a   *)
(* usage that was not in the previous report of the kind, and macOS works  *)
(* off the brightness presses some time later, one step of the panel each. *)
(***************************************************************************)
EXTENDS Integers, Sequences

CONSTANTS
  Handlers,        \* threads that deliver ACPI notifications to message()
  Codes,           \* event codes the firmware may raise
  Slots,           \* places in an array of keys (32 in the code)
  NoKey,           \* an empty place
  DarkStrokes,     \* 16: strokes that take the panel to its darkest
  Unit,            \* 64: registry brightness per stroke
  MaxPending,      \* bound: no key is taken while more presses are pending
  PostMayFail,     \* withBytes may find no memory for the copy of a report
  EntryMayMiss,    \* the registry may have no AppleBacklightDisplay
  Nothing          \* no brightness remembered

ASSUME SlotAssumption == Slots # {}
\* The usages of HIDUsageTables.h (and of Apple's consumer page) it posts.
Usages == {"VolumeIncrement", "VolumeDecrement", "Mute", "ScanPreviousTrack",
           "ScanNextTrack", "PlayOrPause", "VideoMirror", "IlluminationUp",
           "IlluminationDown", "BrightnessUp", "BrightnessDown"}

ASSUME KeyAssumption == NoKey \notin Usages
ASSUME BrightnessAssumption ==
  /\ DarkStrokes \in Nat \ {0} /\ Unit \in Nat \ {0} /\ MaxPending \in Nat
  /\ Nothing \notin Nat /\ PostMayFail \in BOOLEAN
  /\ EntryMayMiss \in BOOLEAN

VARIABLES
  hasKeyboardBacklight,   \* the firmware has SKBV
  kbdDevice,              \* the virtual keyboard has started
  pc,                     \* where each handler is
  code,                   \* the event it handles
  stroke,                 \* the report and usage it dispatches
  loop,                   \* strokes still to go
  slots,                  \* places its scan has picked
  copy,                   \* the keys in its copy of the report
  keys,                   \* the arrays of the two reports
  delivered,              \* the keys in the last report the OS got, per report
  pending,                \* brightness presses macOS has not yet worked off
  brightness,             \* brightness of the panel as the registry has it
  panelBrightnessLevel,   \* the level to go back to
  isPanelBackLightOn,
  chosen,                 \* ghost: the brightness the user set, if only
                          \* displayOff has changed it since
  calm                    \* ghost: each displayOff since read it undisturbed

local == <<pc, code, stroke, loop, slots, copy>>
ghosts == <<chosen, calm>>
panel == <<brightness, panelBrightnessLevel, isPanelBackLightOn>>
vars == <<hasKeyboardBacklight, kbdDevice, local, keys, delivered, pending,
          panel, ghosts>>

Reports == {"csmr", "tc"}
Brightest == DarkStrokes * Unit

\* The switch of handleMessage, as far as it leads to a report.
DisplayCodes == {51, 52, 53}                       \* 0x33, 0x34, 0x35
IlluminationCodes == {196, 197}                    \* 0xC4, 0xC5
StrokeOf(c) ==
  CASE c = 48 -> <<"csmr", "VolumeIncrement">>     \* 0x30
    [] c = 49 -> <<"csmr", "VolumeDecrement">>     \* 0x31
    [] c = 50 -> <<"csmr", "Mute">>                \* 0x32
    [] c \in {64, 138} -> <<"csmr", "ScanPreviousTrack">>
    [] c \in {65, 130} -> <<"csmr", "ScanNextTrack">>
    [] c \in {69, 92} -> <<"csmr", "PlayOrPause">>
    [] c = 97 -> <<"tc", "VideoMirror">>           \* 0x61
    [] c = 196 -> <<"tc", "IlluminationUp">>
    [] c = 197 -> <<"tc", "IlluminationDown">>
    [] c \in 16 .. 31 -> <<"tc", "BrightnessUp">>
    [] c \in 32 .. 47 -> <<"tc", "BrightnessDown">>
StrokeCodes == (16 .. 50) \cup {64, 65, 69, 92, 97, 130, 138} \cup IlluminationCodes
BrightnessCodes == 16 .. 47

Report(t) == stroke[t][1]
Usage(t) == stroke[t][2]
Holding(r, usage) == {s \in Slots : keys[r][s] = usage}
Pressed(r) == {keys[r][s] : s \in Slots} \ {NoKey}
Quiet == \A t \in Handlers : pc[t] = "idle"

Steps == {"idle", "display", "insert", "insertStore", "copyDown", "sendDown",
          "erase", "eraseStore", "copyUp", "sendUp", "flip"}

TypeOK ==
  /\ hasKeyboardBacklight \in BOOLEAN /\ kbdDevice \in BOOLEAN
  /\ pc \in [Handlers -> Steps]
  /\ code \in [Handlers -> Codes \cup {0}]
  /\ stroke \in [Handlers -> Reports \X Usages]
  /\ loop \in [Handlers -> 0 .. DarkStrokes]
  /\ slots \in [Handlers -> SUBSET Slots]
  /\ copy \in [Handlers -> SUBSET Usages]
  /\ keys \in [Reports -> [Slots -> Usages \cup {NoKey}]]
  /\ delivered \in [Reports -> SUBSET Usages]
  /\ pending \in Seq({"BrightnessUp", "BrightnessDown"})
  /\ brightness \in 0 .. Brightest
  /\ panelBrightnessLevel \in 0 .. DarkStrokes
  /\ isPanelBackLightOn \in BOOLEAN
  /\ chosen \in 0 .. Brightest \cup {Nothing} /\ calm \in BOOLEAN

Init ==
  /\ hasKeyboardBacklight \in BOOLEAN /\ kbdDevice \in BOOLEAN
  /\ pc = [t \in Handlers |-> "idle"]
  /\ code = [t \in Handlers |-> 0]
  /\ stroke = [t \in Handlers |-> <<"csmr", "Mute">>]
  /\ loop = [t \in Handlers |-> 0]
  /\ slots = [t \in Handlers |-> {}]
  /\ copy = [t \in Handlers |-> {}]
  /\ keys = [r \in Reports |-> [s \in Slots |-> NoKey]]
  /\ delivered = [r \in Reports |-> {}]
  /\ pending = <<>>
  /\ brightness \in 0 .. Brightest
  /\ panelBrightnessLevel = DarkStrokes
  /\ isPanelBackLightOn = TRUE
  /\ chosen = brightness /\ calm = TRUE

-----------------------------------------------------------------------------
(***************************************************************************)
(* message() and handleMessage on handler t.                               *)
(***************************************************************************)
Goto(t, step) == pc' = [pc EXCEPT ![t] = step]

\* The code is the argument of the notification, or what _WED answers for it;
\* when _WED fails it is whatever was on the stack.
Message(t, c) ==
  /\ pc[t] = "idle" /\ Len(pending) <= MaxPending
  /\ code' = [code EXCEPT ![t] = c]
  /\ \/ /\ c \in DisplayCodes
        /\ Goto(t, "display")
        /\ UNCHANGED <<stroke, loop, chosen>>
     \/ /\ c \in StrokeCodes
        /\ c \in IlluminationCodes => hasKeyboardBacklight
        /\ stroke' = [stroke EXCEPT ![t] = StrokeOf(c)]
        /\ loop' = [loop EXCEPT ![t] = 1]
        /\ Goto(t, "insert")
        /\ chosen' = IF c \in BrightnessCodes THEN Nothing ELSE chosen
  /\ UNCHANGED <<hasKeyboardBacklight, kbdDevice, slots, copy, keys, delivered,
                 pending, panel, calm>>

\* A plausible slip: the registry's value is taken for a number of strokes.
LevelOfUnscaled(value) == value

LevelOf(value) == value \div Unit

\* displayOff up to its strokes.  On the way to dark it reads the brightness,
\* or finds no backlight entry in the registry and keeps the level it had.
DisplayOff(t) ==
  /\ pc[t] = "display"
  /\ \/ /\ isPanelBackLightOn
        /\ \/ /\ panelBrightnessLevel' = LevelOf(brightness)
              /\ calm' = (calm /\ pending = <<>> /\ kbdDevice)
           \/ EntryMayMiss /\ UNCHANGED panelBrightnessLevel /\ calm' = FALSE
        /\ stroke' = [stroke EXCEPT ![t] = <<"tc", "BrightnessDown">>]
        /\ loop' = [loop EXCEPT ![t] = DarkStrokes]
     \/ /\ ~ isPanelBackLightOn
        /\ stroke' = [stroke EXCEPT ![t] = <<"tc", "BrightnessUp">>]
        /\ loop' = [loop EXCEPT ![t] = panelBrightnessLevel]
        /\ UNCHANGED <<panelBrightnessLevel, calm>>
  /\ Goto(t, IF loop'[t] = 0 THEN "flip" ELSE "insert")
  /\ UNCHANGED <<hasKeyboardBacklight, kbdDevice, code, slots, copy, keys,
                 delivered, pending, brightness, isPanelBackLightOn, chosen>>

-----------------------------------------------------------------------------
(***************************************************************************)
(* dispatchCSMRReport and dispatchTCReport.                                *)
(***************************************************************************)

\* keys.insert: nothing to do if the usage is there or no place is free.
InsertScan(t) ==
  /\ pc[t] = "insert"
  /\ LET free == Holding(Report(t), NoKey) IN
       \/ /\ Holding(Report(t), Usage(t)) # {} \/ free = {}
          /\ Goto(t, "copyDown") /\ UNCHANGED slots
       \/ /\ Holding(Report(t), Usage(t)) = {}
          /\ \E s \in free : slots' = [slots EXCEPT ![t] = {s}]
          /\ Goto(t, "insertStore")
  /\ UNCHANGED <<hasKeyboardBacklight, kbdDevice, code, stroke, loop, copy,
                 keys, delivered, pending, panel, ghosts>>

Store(t, value) ==
  keys' = [keys EXCEPT ![Report(t)] =
             [s \in Slots |-> IF s \in slots[t] THEN value ELSE keys[Report(t)][s]]]

InsertStore(t) ==
  /\ pc[t] = "insertStore"
  /\ Store(t, Usage(t))
  /\ slots' = [slots EXCEPT ![t] = {}]
  /\ Goto(t, "copyDown")
  /\ UNCHANGED <<hasKeyboardBacklight, kbdDevice, code, stroke, loop, copy,
                 delivered, pending, panel, ghosts>>

\* keys.erase: every place that holds the usage.
EraseScan(t) ==
  /\ pc[t] = "erase"
  /\ slots' = [slots EXCEPT ![t] = Holding(Report(t), Usage(t))]
  /\ Goto(t, "eraseStore")
  /\ UNCHANGED <<hasKeyboardBacklight, kbdDevice, code, stroke, loop, copy,
                 keys, delivered, pending, panel, ghosts>>

EraseStore(t) ==
  /\ pc[t] = "eraseStore"
  /\ Store(t, NoKey)
  /\ slots' = [slots EXCEPT ![t] = {}]
  /\ Goto(t, "copyUp")
  /\ UNCHANGED <<hasKeyboardBacklight, kbdDevice, code, stroke, loop, copy,
                 delivered, pending, panel, ghosts>>

\* A plausible slip: the loop counts down before its test.
NextStrokeShort(t) ==
  /\ loop' = [loop EXCEPT ![t] = @ - 1]
  /\ Goto(t, IF loop[t] > 2 THEN "insert"
             ELSE IF code[t] \in DisplayCodes THEN "flip" ELSE "idle")

\* A stroke is over: the next one, the end of displayOff, or of the handler.
NextStroke(t) ==
  /\ loop' = [loop EXCEPT ![t] = @ - 1]
  /\ Goto(t, IF loop[t] > 1 THEN "insert"
             ELSE IF code[t] \in DisplayCodes THEN "flip" ELSE "idle")

\* A plausible slip: the usage is not taken out between the two posts.
AfterPostUnerased(t) ==
  \/ pc[t] \in {"copyDown", "sendDown"} /\ Goto(t, "copyUp") /\ UNCHANGED loop
  \/ pc[t] \in {"copyUp", "sendUp"} /\ NextStroke(t)

AfterPost(t) ==
  \/ pc[t] \in {"copyDown", "sendDown"} /\ Goto(t, "erase") /\ UNCHANGED loop
  \/ pc[t] \in {"copyUp", "sendUp"} /\ NextStroke(t)

\* postKeyboardInputReport copies the report into a buffer ...
CopyReport(t) ==
  /\ pc[t] \in {"copyDown", "copyUp"}
  /\ kbdDevice
  /\ copy' = [copy EXCEPT ![t] = Pressed(Report(t))]
  /\ Goto(t, IF pc[t] = "copyDown" THEN "sendDown" ELSE "sendUp")
  /\ UNCHANGED <<hasKeyboardBacklight, kbdDevice, code, stroke, loop, slots,
                 keys, delivered, pending, panel, ghosts>>

\* A plausible slip: a report that cannot be posted ends the stroke.
PostFailsGivesUp(t) ==
  /\ pc[t] \in {"copyDown", "copyUp"}
  /\ ~ kbdDevice \/ PostMayFail
  /\ NextStroke(t)
  /\ UNCHANGED <<hasKeyboardBacklight, kbdDevice, code, stroke, slots, copy,
                 keys, delivered, pending, panel, ghosts>>

\* ... unless there is no keyboard or no memory: the result is ignored ...
PostFails(t) ==
  /\ pc[t] \in {"copyDown", "copyUp"}
  /\ ~ kbdDevice \/ PostMayFail
  /\ AfterPost(t)
  /\ UNCHANGED <<hasKeyboardBacklight, kbdDevice, code, stroke, slots, copy,
                 keys, delivered, pending, panel, ghosts>>

\* ... and hands the buffer to handleReport.  New brightness keys of one report
\* are taken in either order.
BrightnessUsages == {"BrightnessUp", "BrightnessDown"}
Orders == {<<>>, <<"BrightnessUp">>, <<"BrightnessDown">>,
           <<"BrightnessUp", "BrightnessDown">>, <<"BrightnessDown", "BrightnessUp">>}
HandleReport(t) ==
  /\ pc[t] \in {"sendDown", "sendUp"}
  /\ delivered' = [delivered EXCEPT ![Report(t)] = copy[t]]
  /\ \E q \in Orders :
       /\ {q[i] : i \in DOMAIN q} =
            IF Report(t) = "tc" THEN (copy[t] \ delivered["tc"]) \cap BrightnessUsages ELSE {}
       /\ pending' = pending \o q
  /\ copy' = [copy EXCEPT ![t] = {}]
  /\ AfterPost(t)
  /\ UNCHANGED <<hasKeyboardBacklight, kbdDevice, code, stroke, slots, keys,
                 panel, ghosts>>

\* isPanelBackLightOn = !isPanelBackLightOn, after the strokes.
Flip(t) ==
  /\ pc[t] = "flip"
  /\ isPanelBackLightOn' = ~ isPanelBackLightOn
  /\ Goto(t, "idle")
  /\ UNCHANGED <<hasKeyboardBacklight, kbdDevice, code, stroke, loop, slots,
                 copy, keys, delivered, pending, brightness,
                 panelBrightnessLevel, ghosts>>

-----------------------------------------------------------------------------
(***************************************************************************)
(* macOS and its user.                                                     *)
(***************************************************************************)
WorkOff ==
  /\ pending # <<>>
  /\ pending' = Tail(pending)
  /\ brightness' =
       IF Head(pending) = "BrightnessUp"
       THEN IF brightness + Unit > Brightest THEN Brightest ELSE brightness + Unit
       ELSE IF brightness < Unit THEN 0 ELSE brightness - Unit
  /\ UNCHANGED <<hasKeyboardBacklight, kbdDevice, local, keys, delivered,
                 panelBrightnessLevel, isPanelBackLightOn, ghosts>>

\* The slider in the preferences, or automatic brightness.
Slide ==
  /\ pending = <<>>
  /\ brightness' \in (0 .. Brightest) \ {brightness}
  /\ chosen' = IF Quiet /\ isPanelBackLightOn THEN brightness' ELSE Nothing
  /\ calm' = TRUE
  /\ UNCHANGED <<hasKeyboardBacklight, kbdDevice, local, keys, delivered,
                 pending, panelBrightnessLevel, isPanelBackLightOn>>

-----------------------------------------------------------------------------
Handle(t) ==
  \/ DisplayOff(t) \/ InsertScan(t) \/ InsertStore(t) \/ EraseScan(t)
  \/ EraseStore(t) \/ CopyReport(t) \/ PostFails(t) \/ HandleReport(t) \/ Flip(t)

Next ==
  \/ \E t \in Handlers : Handle(t) \/ \E c \in Codes : Message(t, c)
  \/ WorkOff \/ Slide

Spec == Init /\ [][Next]_vars

-----------------------------------------------------------------------------
(***************************************************************************)
(* Properties.                                                             *)
(***************************************************************************)

\* However the handlers' scans and stores interleave, and whatever fails to be
\* posted, no usage is left in a report once no handler is inside a stroke
\* (insert and erase of HIDReport.hpp on the unlocked csmrreport and tcreport).
NoResidue == Quiet => \A r \in Reports : Pressed(r) = {}

\* On one thread the OS is never left with a key held down, and a report never
\* holds a key of an earlier stroke.
NoKeyStuck ==
  /\ Quiet => \A r \in Reports : delivered[r] = {}
  /\ \A r \in Reports : \A t \in Handlers :
       delivered[r] \subseteq {Usage(t)}

\* On one thread the OS sees whole strokes of one key at a time, and as many as
\* the event asks for: none doubled, merged with the next or left unreleased.
\* A keyboard that has not started sees none.
InStroke(t) == pc[t] \in Steps \ {"idle", "display", "flip"}
Thread == CHOOSE t \in Handlers : TRUE
Seen == INSTANCE KeyStrokes WITH
  key  <- stroke[Thread],
  left <- IF kbdDevice /\ InStroke(Thread) THEN loop[Thread] ELSE 0,
  down <- delivered
StrokesWhole == Seen!Spec

\* On one thread, once all presses are worked off: displayOff has left the
\* panel dark, or brought back the brightness the user chose, short of a
\* fraction of a step -- if each time it read the brightness undisturbed.
Rounded(value) == (value \div Unit) * Unit
RestoresBrightness ==
  (Quiet /\ pending = <<>> /\ chosen # Nothing /\ calm) =>
     IF isPanelBackLightOn THEN brightness \in {chosen, Rounded(chosen)}
     ELSE brightness = 0

\* AsusSMC.cpp:620: the brightness is read "to restore later with backlight
\* toggle".  When the display is on again and all presses are worked off, it
\* should be as bright as the user chose, short of a fraction of a step.
RestoresAlways ==
  (Quiet /\ pending = <<>> /\ chosen # Nothing /\ isPanelBackLightOn) =>
     brightness >= Rounded(chosen)

=============================================================================
