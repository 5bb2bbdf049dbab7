-------------------------- MODULE DisplayOffProofs --------------------------
(***************************************************************************)
(* displayOff restores the brightness, for any number of strokes, any unit *)
(* and any lag of macOS, on one handler thread whose reports can be posted.*)
(*                                                                         *)
(* When displayOff ends macOS may still have presses of it to work off,    *)
(* and of the one before.  So the invariant speaks of the brightness that  *)
(* the panel settles at: presses down, which end in the dark, and presses  *)
(* up after them.  Course says where that is at each place of displayOff.  *)
(***************************************************************************)
EXTENDS FnKeysProofs

\* h is inside displayOff, past its choice of strokes.
Switching(h) == pc[h] = "flip" \/ (InStroke(h) /\ code[h] \in DisplayCodes)

\* Presses displayOff has still to make.
ToPress(h) ==
  IF pc[h] = "flip" THEN 0 ELSE IF pc[h] \in Rest THEN loop[h] - 1 ELSE loop[h]

\* The first a presses that wait are down, the others up.
DownFirst(a) ==
  \A i \in 1 .. Len(pending) :
    pending[i] = IF i <= a THEN "BrightnessDown" ELSE "BrightnessUp"

\* The panel is at x once all presses are worked off.
Settles(x) ==
  \E a \in 0 .. Len(pending) :
    /\ DownFirst(a)
    /\ \/ a = 0 /\ brightness + Unit * Len(pending) = x
       \/ brightness <= Unit * a /\ Unit * (Len(pending) - a) = x

Bright(h) ==
  /\ isPanelBackLightOn /\ ~ Switching(h)
  /\ Settles(chosen) \/ Settles(Rounded(chosen))
Remembered == kbdDevice /\ panelBrightnessLevel = LevelOf(chosen)
Darkening(h) ==
  /\ isPanelBackLightOn /\ Switching(h) /\ Remembered
  /\ stroke[h] = <<"tc", "BrightnessDown">>
  /\ DownFirst(Len(pending))
  /\ brightness <= Unit * (Len(pending) + ToPress(h))
Dark(h) == ~ isPanelBackLightOn /\ ~ Switching(h) /\ Remembered /\ Settles(0)
Lighting(h) ==
  /\ ~ isPanelBackLightOn /\ Switching(h) /\ Remembered
  /\ stroke[h] = <<"tc", "BrightnessUp">>
  /\ ToPress(h) \in 0 .. panelBrightnessLevel
  /\ Settles(Unit * (panelBrightnessLevel - ToPress(h)))

Course(h) ==
  /\ pc[h] \in {"display", "flip"} => code[h] \in DisplayCodes
  /\ chosen # Nothing /\ InStroke(h) /\ ~ Switching(h) =>
       Usage(h) \notin BrightnessUsages
  /\ chosen # Nothing /\ calm =>
       Bright(h) \/ Darkening(h) \/ Dark(h) \/ Lighting(h)

-----------------------------------------------------------------------------
(***************************************************************************)
(* Arithmetic of levels.                                                   *)
(***************************************************************************)
LEMMA Units == /\ Unit \in Nat \ {0} /\ DarkStrokes \in Nat \ {0} /\ Brightest \in Nat
               /\ Brightest = Unit * DarkStrokes /\ Nothing \notin Nat
  BY BrightnessAssumption DEF Brightest

\* A brightness is a number of whole units and a rest, in one way only.
LEMMA WholeUnits ==
  ASSUME NEW b \in Nat, NEW n \in Nat, Unit * n <= b, b < Unit * (n + 1)
  PROVE  LevelOf(b) = n
<1> DEFINE q == b \div Unit
<1>1. q \in Nat /\ Unit * q <= b /\ b < Unit * q + Unit /\ Unit \in Nat \ {0}
  <2>1. q \in Nat /\ Unit \in Nat \ {0}
    BY Units
  <2>2. Unit * q <= b
    BY <2>1
  <2>3. b < Unit * q + Unit
    BY <2>1
  <2>4. QED
    BY <2>1, <2>2, <2>3
<1> HIDE DEF q
<1>2. q <= n
  <2> SUFFICES ASSUME q >= n + 1 PROVE FALSE
    BY <1>1
  <2>1. Unit * q >= Unit * (n + 1)
    BY <1>1
  <2>2. QED
    BY <1>1, <2>1
<1>3. q >= n
  <2> SUFFICES ASSUME q + 1 <= n PROVE FALSE
    BY <1>1
  <2>1. Unit * (q + 1) <= Unit * n
    BY <1>1
  <2>2. Unit * (q + 1) = Unit * q + Unit
    BY <1>1
  <2>3. QED
    BY <1>1, <2>1, <2>2
<1>4. QED
  BY <1>1, <1>2, <1>3 DEF LevelOf, q

\* The level of a brightness is the level of what is restored from it.
LEMMA SameLevel ==
  ASSUME NEW b \in 0 .. Brightest
  PROVE  /\ LevelOf(b) \in 0 .. DarkStrokes
         /\ Rounded(b) = Unit * LevelOf(b) /\ Rounded(b) \in 0 .. Brightest
         /\ LevelOf(Rounded(b)) = LevelOf(b)
<1> DEFINE q == LevelOf(b)
<1>1. q \in 0 .. DarkStrokes /\ b \in Nat
  BY LevelRange, Units
<1>2. Rounded(b) = Unit * q
  BY <1>1, Units DEF Rounded, LevelOf
<1> HIDE DEF q
<1>3. Unit * q \in Nat /\ Unit * q <= Unit * DarkStrokes
  BY <1>1, Units
<1>4. Unit * q < Unit * (q + 1)
  BY <1>1, Units
<1>5. LevelOf(Unit * q) = q
  BY <1>1, <1>3, <1>4, WholeUnits
<1>6. QED
  BY <1>1, <1>2, <1>3, <1>5, Units DEF q

-----------------------------------------------------------------------------
(***************************************************************************)
(* Presses that wait.                                                      *)
(***************************************************************************)
LEMMA Waiting ==
  ASSUME NEW s \in Seq(BrightnessUsages), NEW u \in BrightnessUsages
  PROVE  /\ Len(s) \in Nat
         /\ s \o <<u>> \in Seq(BrightnessUsages) /\ Len(s \o <<u>>) = Len(s) + 1
         /\ \A i \in 1 .. Len(s) : (s \o <<u>>)[i] = s[i]
         /\ (s \o <<u>>)[Len(s) + 1] = u
  OBVIOUS

\* One more press up is one more unit in the end.
LEMMA PressUp ==
  ASSUME NEW x \in Nat, Contents, Counts, Settles(x),
         pending' = pending \o <<"BrightnessUp">>, brightness' = brightness
  PROVE  Settles(x + Unit)'
<1>1. PICK a \in 0 .. Len(pending) :
        /\ DownFirst(a)
        /\ \/ a = 0 /\ brightness + Unit * Len(pending) = x
           \/ brightness <= Unit * a /\ Unit * (Len(pending) - a) = x
  BY DEF Settles
<1>2. /\ Len(pending) \in Nat /\ Len(pending') = Len(pending) + 1
      /\ \A i \in 1 .. Len(pending) : pending'[i] = pending[i]
      /\ pending'[Len(pending) + 1] = "BrightnessUp"
  BY Waiting DEF Contents, BrightnessUsages
<1>3. DownFirst(a)'
  BY <1>1, <1>2 DEF DownFirst
<1>4. brightness \in Nat /\ Unit \in Nat
  BY Units DEF Counts
<1>5. Unit * (Len(pending) + 1) = Unit * Len(pending) + Unit
  BY <1>2, <1>4
<1>6. Unit * (Len(pending) + 1 - a) = Unit * (Len(pending) - a) + Unit
  BY <1>2, <1>4
<1>7. a \in 0 .. Len(pending')
  BY <1>2
<1>8. \/ a = 0 /\ brightness' + Unit * Len(pending') = x + Unit
      \/ brightness' <= Unit * a /\ Unit * (Len(pending') - a) = x + Unit
  <2>1. CASE a = 0 /\ brightness + Unit * Len(pending) = x
    <3>1. Unit * Len(pending') = Unit * Len(pending) + Unit
      BY <1>2, <1>5
    <3>2. Unit * Len(pending) \in Nat
      BY <1>2, <1>4
    <3>3. QED
      BY <2>1, <3>1, <3>2, <1>4
  <2>2. CASE brightness <= Unit * a /\ Unit * (Len(pending) - a) = x
    BY <2>2, <1>2, <1>6
  <2>3. QED
    BY <1>1, <2>1, <2>2
<1>9. QED
  BY <1>3, <1>7, <1>8 DEF Settles

\* With nothing waiting the panel is where it settles.
LEMMA SettledNow ==
  ASSUME NEW x \in Nat, Counts, Settles(x), pending = <<>>
  PROVE  brightness = x
<1>1. Len(pending) = 0
  OBVIOUS
<1>2. brightness \in Nat /\ Unit * 0 = 0 /\ Unit * (0 - 0) = 0
  BY Units DEF Counts
<1>3. QED
  BY <1>1, <1>2 DEF Settles

\* Working one press off does not change where the panel settles.
LEMMA WorkOffSettles ==
  ASSUME NEW x \in 0 .. Brightest, Contents, Counts, Settles(x), WorkOff
  PROVE  Settles(x)'
<1>1. PICK a \in 0 .. Len(pending) :
        /\ DownFirst(a)
        /\ \/ a = 0 /\ brightness + Unit * Len(pending) = x
           \/ brightness <= Unit * a /\ Unit * (Len(pending) - a) = x
  BY DEF Settles
<1> DEFINE n == Len(pending)
<1>2. /\ n \in Nat \ {0} /\ Len(pending') = n - 1
      /\ \A i \in 1 .. n - 1 : pending'[i] = pending[i + 1]
      /\ Head(pending) = pending[1]
  BY DEF Contents, WorkOff
<1> HIDE DEF n
<1>3. brightness \in Nat /\ Unit \in Nat \ {0} /\ x <= Brightest /\ Brightest \in Nat
  BY Units DEF Counts
<1>n. n = Len(pending)
  BY DEF n
<1>4. CASE a = 0
  <2>1. DownFirst(0)' /\ pending[1] = "BrightnessUp"
    BY <1>1, <1>2, <1>4, <1>n DEF DownFirst
  <2>2. brightness + Unit * n = x
    BY <1>1, <1>2, <1>3, <1>4, <1>n
  <2>3. Unit * n = Unit * (n - 1) + Unit /\ Unit * (n - 1) >= 0
    BY <1>2, <1>3
  <2>4. brightness' = brightness + Unit
    <3>1. brightness + Unit <= Brightest
      BY <1>2, <1>3, <2>2, <2>3
    <3>2. QED
      BY <1>2, <1>3, <2>1, <3>1 DEF WorkOff
  <2>5. brightness' + Unit * Len(pending') = x
    BY <1>2, <1>3, <2>2, <2>3, <2>4
  <2>6. QED
    BY <1>2, <2>1, <2>5 DEF Settles
<1>5. CASE a > 0
  <2>1. DownFirst(a - 1)' /\ pending[1] = "BrightnessDown"
    BY <1>1, <1>2, <1>5, <1>n DEF DownFirst
  <2>2. brightness <= Unit * a /\ Unit * (n - a) = x
    BY <1>1, <1>5, <1>n
  <2>3. Unit * a = Unit * (a - 1) + Unit /\ Unit * (a - 1) >= 0
    BY <1>2, <1>3, <1>5, <1>n
  <2>4. brightness' = IF brightness < Unit THEN 0 ELSE brightness - Unit
    BY <1>2, <2>1 DEF WorkOff
  <2>5. brightness' <= Unit * (a - 1)
    BY <1>3, <2>2, <2>3, <2>4
  <2>6. Len(pending') - (a - 1) = n - a /\ a - 1 \in 0 .. Len(pending')
    BY <1>2, <1>5, <1>n
  <2>7. QED
    BY <2>1, <2>2, <2>5, <2>6 DEF Settles
<1>6. QED
  BY <1>4, <1>5, <1>n, <1>2

-----------------------------------------------------------------------------
(***************************************************************************)
(* The steps.                                                              *)
(***************************************************************************)
LEMMA Kept ==
  ASSUME pending' = pending, brightness' = brightness
  PROVE  \A x : (DownFirst(x)' <=> DownFirst(x)) /\ (Settles(x)' <=> Settles(x))
<1>1. \A x : DownFirst(x)' <=> DownFirst(x)
  BY DEF DownFirst
<1>2. QED
  BY <1>1 DEF Settles

LEMMA OtherStrokes ==
  \A c \in StrokeCodes : /\ c \notin DisplayCodes
                         /\ c \notin BrightnessCodes => StrokeOf(c)[2] \notin BrightnessUsages
  BY DEF StrokeCodes, StrokeOf, IlluminationCodes, BrightnessCodes, BrightnessUsages,
         DisplayCodes

\* What a report hands to macOS: a press of brightness with its key, else none.
LEMMA Presses ==
  ASSUME NEW h, Handlers = {h}, Typed, OneKey(h), HandleReport(h)
  PROVE  /\ pc[h] = "sendUp" \/ Usage(h) \notin BrightnessUsages => pending' = pending
         /\ pc[h] = "sendDown" /\ Report(h) = "tc" /\ Usage(h) \in BrightnessUsages =>
              pending' = pending \o <<Usage(h)>>
<1> DEFINE new == IF Report(h) = "tc" THEN (copy[h] \ delivered["tc"]) \cap BrightnessUsages ELSE {}
<1>1. PICK q \in Orders : {q[i] : i \in DOMAIN q} = new /\ pending' = pending \o q
  BY DEF HandleReport
<1>2. /\ pc[h] = "sendUp" => copy[h] = {}
      /\ pc[h] = "sendDown" => copy[h] = {Usage(h)} /\ delivered["tc"] = {}
  BY DEF OneKey, Rest, AllUp, Reports
<1>3. pc[h] \in {"sendDown", "sendUp"}
  BY DEF HandleReport
<1> HIDE DEF new
<1>4. new = {} => q = <<>>
  <2>1. new = {} => DOMAIN q = {}
    BY <1>1
  <2>2. QED
    BY <2>1 DEF Orders
<1>5. \A u : new = {u} => q = <<u>>
  <2> SUFFICES ASSUME NEW u, new = {u} PROVE q = <<u>>
    OBVIOUS
  <2>1. q # <<>>
    BY <1>1
  <2>2. \A i \in DOMAIN q : q[i] = u
    BY <1>1
  <2>3. CASE Len(q) = 2
    <3>1. q[1] = u /\ q[2] = u
      BY <2>2, <2>3 DEF Orders
    <3>2. QED
      BY <2>3, <3>1 DEF Orders
  <2>4. CASE Len(q) = 1
    BY <2>2, <2>4 DEF Orders
  <2>5. QED
    BY <2>1, <2>3, <2>4 DEF Orders
<1>6. pending \in Seq(BrightnessUsages)
  BY DEF Typed, Contents
<1>7. pending \o <<>> = pending
  BY <1>6
<1>8. pc[h] = "sendUp" \/ Usage(h) \notin BrightnessUsages => new = {}
  BY <1>2, <1>3 DEF new
<1>9. pc[h] = "sendDown" /\ Report(h) = "tc" /\ Usage(h) \in BrightnessUsages =>
        new = {Usage(h)}
  BY <1>2 DEF new
<1>10. QED
  BY <1>1, <1>4, <1>5, <1>7, <1>8, <1>9

\* displayOff makes its choice where the panel settles at what the user chose.
LEMMA Chooses ==
  ASSUME NEW h, Handlers = {h}, Typed, Course(h), DisplayOff(h)
  PROVE  Course(h)'
<1> USE Units DEF Goto, InStroke, Steps
<1>1. /\ pc[h] = "display" /\ code[h] \in DisplayCodes /\ ~ Switching(h)
      /\ pc' = [pc EXCEPT ![h] = IF loop'[h] = 0 THEN "flip" ELSE "insert"]
      /\ pc \in [Handlers -> Steps] /\ loop \in [Handlers -> Nat]
      /\ stroke \in [Handlers -> Reports \X Usages]
  BY DEF DisplayOff, Course, Switching, Typed, StrokeTypes, Numbers
<1>2. /\ code' = code /\ chosen' = chosen /\ brightness' = brightness /\ pending' = pending
      /\ kbdDevice' = kbdDevice /\ isPanelBackLightOn' = isPanelBackLightOn
  BY DEF DisplayOff
<1>3. pc'[h] \in {"flip", "insert"} /\ code'[h] \in DisplayCodes /\ Switching(h)'
  BY <1>1, <1>2 DEF Switching
<1> SUFFICES ASSUME chosen # Nothing, calm'
             PROVE  Darkening(h)' \/ Lighting(h)'
  BY <1>2, <1>3 DEF Course
<1>4. chosen \in 0 .. Brightest /\ brightness \in 0 .. Brightest /\ panelBrightnessLevel \in Nat
  BY DEF Typed, Switches, Counts, Numbers
<1>5. CASE isPanelBackLightOn
  <2>1. /\ calm /\ pending = <<>> /\ kbdDevice
        /\ panelBrightnessLevel' = LevelOf(brightness)
        /\ stroke' = [stroke EXCEPT ![h] = <<"tc", "BrightnessDown">>]
        /\ loop' = [loop EXCEPT ![h] = DarkStrokes]
    BY <1>5 DEF DisplayOff
  <2>2. Settles(chosen) \/ Settles(Rounded(chosen))
    BY <1>1, <1>5, <2>1 DEF Course, Bright, Darkening, Dark, Lighting
  <2>3. brightness = chosen \/ brightness = Rounded(chosen)
    BY <1>4, <2>1, <2>2, SettledNow, SameLevel DEF Typed
  <2>4. LevelOf(brightness) = LevelOf(chosen)
    BY <1>4, <2>3, SameLevel
  <2>5. Remembered'
    BY <1>2, <2>1, <2>4 DEF Remembered, LevelOf
  <2>6. pc'[h] = "insert" /\ ToPress(h)' = DarkStrokes /\ stroke'[h] = <<"tc", "BrightnessDown">>
    BY <1>1, <2>1 DEF ToPress, Rest
  <2>7. Len(pending') = 0
    BY <1>2, <2>1
  <2>8. DownFirst(Len(pending))'
    BY <2>7 DEF DownFirst
  <2>9. brightness' <= Unit * (Len(pending') + ToPress(h)')
    BY <1>2, <1>4, <2>6, <2>7
  <2>10. QED
    BY <1>2, <1>3, <1>5, <2>5, <2>6, <2>8, <2>9 DEF Darkening
<1>6. CASE ~ isPanelBackLightOn
  <2>1. /\ calm /\ UNCHANGED panelBrightnessLevel
        /\ stroke' = [stroke EXCEPT ![h] = <<"tc", "BrightnessUp">>]
        /\ loop' = [loop EXCEPT ![h] = panelBrightnessLevel]
    <3>1. calm' = calm
      BY <1>6 DEF DisplayOff
    <3>2. QED
      BY <1>6, <3>1 DEF DisplayOff
  <2>2. Remembered /\ Settles(0)
    BY <1>1, <1>6, <2>1 DEF Course, Bright, Darkening, Dark, Lighting
  <2>3. Remembered'
    BY <1>2, <2>1, <2>2 DEF Remembered, LevelOf
  <2>4. loop'[h] = panelBrightnessLevel /\ stroke'[h] = <<"tc", "BrightnessUp">>
    BY <1>1, <2>1
  <2>5. ToPress(h)' = panelBrightnessLevel
    BY <1>1, <2>4 DEF ToPress, Rest
  <2>6. Unit * (panelBrightnessLevel' - ToPress(h)') = 0
    BY <1>4, <2>1, <2>5
  <2>7. Settles(0)'
    BY <1>2, <2>2, Kept
  <2>8. Settles(Unit * (panelBrightnessLevel - ToPress(h)))'
    BY <2>6, <2>7 DEF Settles
  <2>9. QED
    BY <1>2, <1>3, <1>4, <1>6, <2>1, <2>3, <2>4, <2>5, <2>8 DEF Lighting
<1>7. QED
  BY <1>5, <1>6

\* The panel settles in the dark after the last press down, and at the level it
\* had after the last press up.
LEMMA Flips ==
  ASSUME NEW h, Handlers = {h}, Typed, Course(h), Flip(h)
  PROVE  Course(h)'
<1>1. /\ pc[h] = "flip" /\ pc' = [pc EXCEPT ![h] = "idle"]
      /\ isPanelBackLightOn' = ~ isPanelBackLightOn
      /\ pc \in [Handlers -> Steps]
  BY DEF Flip, Goto, Typed, StrokeTypes
<1>2. /\ chosen' = chosen /\ brightness' = brightness /\ pending' = pending
      /\ kbdDevice' = kbdDevice /\ panelBrightnessLevel' = panelBrightnessLevel
  BY DEF Flip, ghosts
<1>c. calm' = calm
  BY DEF Flip, ghosts
<1>3. Switching(h) /\ ToPress(h) = 0 /\ pc'[h] = "idle" /\ ~ Switching(h)'
  BY <1>1 DEF Switching, ToPress, InStroke
<1> SUFFICES ASSUME chosen # Nothing, calm PROVE Bright(h)' \/ Dark(h)'
  BY <1>2, <1>c, <1>3 DEF Course, InStroke
<1>4. chosen \in 0 .. Brightest /\ brightness \in Nat /\ panelBrightnessLevel \in Nat
  BY Units DEF Typed, Switches, Counts, Numbers
<1>5. CASE Darkening(h)
  <2>1. Len(pending) \in Nat
    BY DEF Typed, Contents
  <2>2. DownFirst(Len(pending)) /\ brightness <= Unit * Len(pending)
    BY <1>3, <1>5, <2>1 DEF Darkening
  <2>3. Unit * (Len(pending) - Len(pending)) = 0
    BY <2>1, Units
  <2>4. Settles(0)
    BY <2>1, <2>2, <2>3 DEF Settles
  <2>5. Settles(0)'
    BY <1>2, <2>4, Kept
  <2>6. Remembered'
    BY <1>2, <1>5 DEF Darkening, Remembered, LevelOf
  <2>7. QED
    BY <1>1, <1>3, <1>5, <2>5, <2>6 DEF Darkening, Dark
<1>6. CASE Lighting(h)
  <2>1. Settles(Unit * panelBrightnessLevel)
    <3>1. panelBrightnessLevel - ToPress(h) = panelBrightnessLevel
      BY <1>3, <1>4
    <3>2. QED
      BY <1>6, <3>1 DEF Lighting
  <2>2. Unit * panelBrightnessLevel = Rounded(chosen)
    BY <1>4, <1>6, SameLevel DEF Lighting, Remembered
  <2>3. Settles(Rounded(chosen))'
    <3>1. Settles(Rounded(chosen))
      BY <2>1, <2>2
    <3>2. Rounded(chosen)' = Rounded(chosen)
      BY <1>2 DEF Rounded
    <3>3. \A x : Settles(x)' <=> Settles(x)
      BY <1>2, Kept
    <3>4. QED
      BY <3>1, <3>2, <3>3 DEF Settles
  <2>4. QED
    BY <1>1, <1>3, <1>6, <2>3 DEF Lighting, Bright
<1>7. QED
  BY <1>3, <1>5, <1>6 DEF Course, Bright, Dark

\* A post that fails leaves displayOff nothing to remember.
LEMMA FailsBright ==
  ASSUME NEW h, Handlers = {h}, PostMayFail = FALSE, Typed, Course(h), PostFails(h)
  PROVE  Course(h)'
<1> USE DEF Goto, InStroke, Steps
<1>1. /\ ~ kbdDevice /\ pc[h] \in {"copyDown", "copyUp"}
      /\ code' = code /\ stroke' = stroke /\ isPanelBackLightOn' = isPanelBackLightOn
      /\ pending' = pending /\ brightness' = brightness /\ chosen' = chosen
      /\ pc \in [Handlers -> Steps]
  BY DEF PostFails, panel, ghosts, Typed, StrokeTypes
<1>c. calm' = calm
  BY DEF PostFails, ghosts
<1>2. pc'[h] = "erase" \/ pc'[h] = "insert"
      \/ pc'[h] = IF code[h] \in DisplayCodes THEN "flip" ELSE "idle"
  BY <1>1 DEF PostFails, AfterPost, NextStroke
<1>3. Switching(h)' <=> Switching(h)
  BY <1>1, <1>2 DEF Switching
<1>4. /\ pc'[h] \in {"display", "flip"} => code'[h] \in DisplayCodes
      /\ chosen' # Nothing /\ InStroke(h)' /\ ~ Switching(h)' =>
            Usage(h)' \notin BrightnessUsages
  BY <1>1, <1>2, <1>3 DEF Course, Usage
<1>5. ASSUME chosen # Nothing, calm PROVE Bright(h)'
  <2>1. Bright(h)
    BY <1>1, <1>5 DEF Course, Bright, Darkening, Dark, Lighting, Remembered
  <2>2. Rounded(chosen)' = Rounded(chosen)
    BY <1>1 DEF Rounded
  <2>3. \A x : Settles(x)' <=> Settles(x)
    BY <1>1, Kept
  <2>4. (Settles(chosen) \/ Settles(Rounded(chosen)))'
    BY <1>1, <2>1, <2>2, <2>3 DEF Bright, Settles
  <2>5. QED
    BY <1>1, <1>3, <2>1, <2>4 DEF Bright
<1>6. QED
  BY <1>1, <1>c, <1>4, <1>5 DEF Course

\* A report is handed over: one press less to make and one more to work off, or
\* a release and the loop's next stroke.
LEMMA HandsOver ==
  ASSUME NEW h, Handlers = {h}, Typed, OneKey(h), Course(h), HandleReport(h)
  PROVE  Course(h)'
<1> USE DEF Goto, InStroke, Steps
<1>1. /\ pc[h] \in {"sendDown", "sendUp"}
      /\ code' = code /\ stroke' = stroke /\ isPanelBackLightOn' = isPanelBackLightOn
      /\ brightness' = brightness /\ chosen' = chosen /\ kbdDevice' = kbdDevice
      /\ panelBrightnessLevel' = panelBrightnessLevel
      /\ pc \in [Handlers -> Steps] /\ loop \in [Handlers -> Nat] /\ loop[h] > 0
  BY DEF HandleReport, panel, ghosts, Typed, StrokeTypes, Numbers
<1>c. calm' = calm
  BY DEF HandleReport, ghosts
<1>2. /\ pc[h] = "sendDown" => pc'[h] = "erase" /\ loop' = loop
      /\ pc[h] = "sendUp" =>
           /\ loop'[h] = loop[h] - 1
           /\ pc'[h] = IF loop[h] > 1 THEN "insert"
                       ELSE IF code[h] \in DisplayCodes THEN "flip" ELSE "idle"
  BY <1>1 DEF HandleReport, AfterPost, NextStroke
<1>3. Switching(h)' <=> Switching(h)
  BY <1>1, <1>2 DEF Switching
<1>4. /\ pc'[h] \in {"display", "flip"} => code'[h] \in DisplayCodes
      /\ chosen' # Nothing /\ InStroke(h)' /\ ~ Switching(h)' =>
            Usage(h)' \notin BrightnessUsages
  BY <1>1, <1>2, <1>3 DEF Course, Usage
<1>5. chosen # Nothing => chosen \in 0 .. Brightest
  BY DEF Typed, Switches
<1>6. /\ pc[h] = "sendDown" => ToPress(h)' = ToPress(h) - 1
      /\ pc[h] = "sendUp" /\ Switching(h) => ToPress(h)' = ToPress(h)
      /\ ToPress(h) \in Nat
  BY <1>1, <1>2 DEF ToPress, Rest, Switching
<1>7. Remembered' <=> Remembered
  BY <1>1 DEF Remembered, LevelOf
<1>8. CASE pending' = pending
  <2>1. \A x : (DownFirst(x)' <=> DownFirst(x)) /\ (Settles(x)' <=> Settles(x))
    BY <1>1, <1>8, Kept
  <2>2. ASSUME Bright(h) PROVE Bright(h)'
    <3>1. Rounded(chosen)' = Rounded(chosen)
      BY <1>1 DEF Rounded
    <3>2. (Settles(chosen) \/ Settles(Rounded(chosen)))'
      BY <1>1, <2>1, <2>2, <3>1 DEF Bright, Settles
    <3>3. QED
      BY <1>1, <1>3, <2>2, <3>2 DEF Bright
  <2>3. ASSUME Dark(h) PROVE Dark(h)'
    <3>1. Settles(0)'
      BY <2>1, <2>3 DEF Dark
    <3>2. QED
      BY <1>1, <1>3, <1>7, <2>3, <3>1 DEF Dark
  <2>4. ASSUME Darkening(h), ToPress(h)' = ToPress(h) PROVE Darkening(h)'
    <3>1. DownFirst(Len(pending))'
      BY <1>8, <2>1, <2>4 DEF Darkening, DownFirst
    <3>2. brightness' <= Unit * (Len(pending') + ToPress(h)')
      BY <1>1, <1>8, <2>4 DEF Darkening
    <3>3. QED
      BY <1>1, <1>3, <1>7, <2>4, <3>1, <3>2 DEF Darkening
  <2>5. ASSUME Lighting(h), ToPress(h)' = ToPress(h) PROVE Lighting(h)'
    <3>1. Unit * (panelBrightnessLevel' - ToPress(h)') = Unit * (panelBrightnessLevel - ToPress(h))
      BY <1>1, <2>5
    <3>2. Settles(Unit * (panelBrightnessLevel - ToPress(h)))'
      BY <2>1, <2>5, <3>1 DEF Lighting, Settles
    <3>3. QED
      BY <1>1, <1>3, <1>7, <2>5, <3>2 DEF Lighting
  <2>6. ASSUME chosen # Nothing, calm, Switching(h) PROVE ToPress(h)' = ToPress(h)
    <3>1. pc[h] # "sendDown"
      <4> SUFFICES ASSUME pc[h] = "sendDown" PROVE FALSE
        OBVIOUS
      <4>1. stroke[h] \in {<<"tc", "BrightnessDown">>, <<"tc", "BrightnessUp">>}
        BY <2>6 DEF Course, Bright, Darkening, Dark, Lighting
      <4>2. Report(h) = "tc" /\ Usage(h) \in BrightnessUsages
        BY <4>1 DEF Report, Usage, BrightnessUsages
      <4>3. pending' = pending \o <<Usage(h)>>
        BY <4>2, Presses
      <4>4. Len(pending') = Len(pending) + 1 /\ Len(pending) \in Nat
        BY <4>2, <4>3, Waiting DEF Typed, Contents
      <4>5. QED
        BY <1>8, <4>4
    <3>2. QED
      BY <1>1, <1>6, <2>6, <3>1
  <2>7. QED
    BY <1>1, <1>c, <1>4, <2>2, <2>3, <2>4, <2>5, <2>6
    DEF Course, Bright, Darkening, Dark, Lighting
<1>9. CASE pending' # pending
  <2>1. pc[h] = "sendDown" /\ Usage(h) \in BrightnessUsages
    BY <1>1, <1>9, Presses
  <2>2. ASSUME chosen # Nothing, calm PROVE Darkening(h) \/ Lighting(h)
    BY <1>1, <2>1, <2>2 DEF Course, Bright, Dark
  <2>3. brightness \in Nat /\ panelBrightnessLevel \in Nat /\ Len(pending) \in Nat
    BY Units DEF Typed, Counts, Numbers, Contents
  <2>4. ASSUME Darkening(h) PROVE Darkening(h)'
    <3>1. Report(h) = "tc" /\ Usage(h) = "BrightnessDown"
      BY <2>4 DEF Darkening, Report, Usage
    <3>2. pending' = pending \o <<"BrightnessDown">>
      BY <2>1, <3>1, Presses
    <3>3. /\ Len(pending') = Len(pending) + 1
          /\ \A i \in 1 .. Len(pending) : pending'[i] = pending[i]
          /\ pending'[Len(pending) + 1] = "BrightnessDown"
      BY <3>2, Waiting DEF Typed, Contents, BrightnessUsages
    <3>4. DownFirst(Len(pending))'
      BY <2>3, <2>4, <3>3 DEF Darkening, DownFirst
    <3>5. Len(pending') + ToPress(h)' = Len(pending) + ToPress(h)
      BY <1>6, <2>1, <2>3, <3>3
    <3>6. brightness' <= Unit * (Len(pending') + ToPress(h)')
      BY <1>1, <2>4, <3>5 DEF Darkening
    <3>7. QED
      BY <1>1, <1>3, <1>7, <2>4, <3>4, <3>6 DEF Darkening
  <2>5. ASSUME Lighting(h) PROVE Lighting(h)'
    <3>1. Report(h) = "tc" /\ Usage(h) = "BrightnessUp"
      BY <2>5 DEF Lighting, Report, Usage
    <3>2. pending' = pending \o <<"BrightnessUp">>
      BY <2>1, <3>1, Presses
    <3>3. /\ ToPress(h) \in 0 .. panelBrightnessLevel
          /\ ToPress(h) > 0 /\ ToPress(h)' = ToPress(h) - 1
      BY <1>1, <1>6, <2>1, <2>5 DEF Lighting, ToPress, Rest
    <3>4. PICK up \in Nat : up = panelBrightnessLevel - ToPress(h)
      BY <2>3, <3>3
    <3>5. PICK x \in Nat : x = Unit * up
      BY Units
    <3>6. Settles(x)
      BY <2>5, <3>4, <3>5 DEF Lighting
    <3>7. Settles(x + Unit)'
      BY <1>1, <3>2, <3>6, PressUp DEF Typed
    <3>8. Unit * (panelBrightnessLevel' - ToPress(h)') = x + Unit
      <4>1. panelBrightnessLevel' - ToPress(h)' = up + 1
        BY <1>1, <2>3, <3>3, <3>4
      <4>2. Unit * (up + 1) = Unit * up + Unit
        BY Units
      <4>3. QED
        BY <3>5, <4>1, <4>2
    <3>9. Settles(Unit * (panelBrightnessLevel - ToPress(h)))'
      BY <3>7, <3>8 DEF Settles
    <3>10. QED
      BY <1>1, <1>3, <1>7, <2>3, <2>5, <3>3, <3>9 DEF Lighting
  <2>6. QED
    BY <1>1, <1>c, <1>4, <2>2, <2>4, <2>5 DEF Course
<1>10. QED
  BY <1>8, <1>9

\* macOS works off one press: it settles where it would have.
LEMMA WorksOff ==
  ASSUME NEW h, Handlers = {h}, Typed, Course(h), WorkOff
  PROVE  Course(h)'
<1>1. /\ pc' = pc /\ code' = code /\ loop' = loop /\ stroke' = stroke
      /\ kbdDevice' = kbdDevice /\ chosen' = chosen
      /\ panelBrightnessLevel' = panelBrightnessLevel
      /\ isPanelBackLightOn' = isPanelBackLightOn
  BY DEF WorkOff, local, ghosts
<1>c. calm' = calm
  BY DEF WorkOff, ghosts
<1>2. /\ Switching(h)' <=> Switching(h)
      /\ InStroke(h)' <=> InStroke(h)
      /\ Usage(h)' = Usage(h) /\ ToPress(h)' = ToPress(h)
      /\ Remembered' <=> Remembered
  BY <1>1 DEF Switching, InStroke, Usage, ToPress, Remembered, LevelOf
<1> SUFFICES ASSUME chosen # Nothing, calm
             PROVE  (Bright(h) \/ Darkening(h) \/ Dark(h) \/ Lighting(h))'
  BY <1>1, <1>c, <1>2 DEF Course
<1>3. /\ chosen \in 0 .. Brightest /\ panelBrightnessLevel \in 0 .. DarkStrokes
      /\ brightness \in Nat /\ loop[h] \in Nat
  BY Units DEF Typed, Switches, Counts, Numbers
<1>4. \A x \in 0 .. Brightest : Settles(x) => Settles(x)'
  BY WorkOffSettles DEF Typed
<1>5. ASSUME Bright(h) PROVE Bright(h)'
  <2>1. PICK x \in 0 .. Brightest : (x = chosen \/ x = Rounded(chosen)) /\ Settles(x)
    BY <1>3, <1>5, SameLevel DEF Bright
  <2>2. Settles(x)' /\ (x = chosen' \/ x = Rounded(chosen)')
    BY <1>1, <1>4, <2>1 DEF Rounded
  <2>3. (Settles(chosen) \/ Settles(Rounded(chosen)))'
    BY <2>2 DEF Settles
  <2>4. QED
    BY <1>1, <1>2, <1>5, <2>3 DEF Bright
<1>6. ASSUME Dark(h) PROVE Dark(h)'
  <2>1. Settles(0)'
    BY <1>4, <1>6, Units DEF Dark
  <2>2. QED
    BY <1>1, <1>2, <1>6, <2>1 DEF Dark
<1>7. ASSUME Lighting(h) PROVE Lighting(h)'
  <2>1. PICK up \in 0 .. DarkStrokes : up = panelBrightnessLevel - ToPress(h)
    BY <1>3, <1>7, Units DEF Lighting
  <2>2. PICK x \in 0 .. Brightest : x = Unit * up
    <3>1. Unit * up \in Nat /\ Unit * up <= Unit * DarkStrokes
      BY <2>1, Units
    <3>2. QED
      BY <3>1, Units
  <2>3. Settles(x)'
    BY <1>4, <1>7, <2>1, <2>2 DEF Lighting
  <2>4. x = Unit * (panelBrightnessLevel' - ToPress(h)')
    BY <1>1, <1>2, <2>1, <2>2
  <2>5. Settles(Unit * (panelBrightnessLevel - ToPress(h)))'
    BY <2>3, <2>4 DEF Settles
  <2>6. QED
    BY <1>1, <1>2, <1>7, <2>5 DEF Lighting
<1>8. ASSUME Darkening(h) PROVE Darkening(h)'
  <2> DEFINE n == Len(pending)
  <2>1. /\ n \in Nat \ {0} /\ Len(pending') = n - 1
        /\ \A i \in 1 .. n - 1 : pending'[i] = pending[i + 1]
        /\ Head(pending) = pending[1]
    BY DEF WorkOff, Typed, Contents
  <2>2. \A i \in 1 .. n : pending[i] = "BrightnessDown"
    BY <1>8 DEF Darkening, DownFirst
  <2>3. brightness <= Unit * (n + ToPress(h)) /\ ToPress(h) \in Nat
    BY <1>3, <1>8 DEF Darkening, ToPress, Switching, InStroke, Typed, Numbers
  <2> HIDE DEF n
  <2>4. DownFirst(Len(pending))'
    BY <2>1, <2>2 DEF DownFirst
  <2>5. brightness' = IF brightness < Unit THEN 0 ELSE brightness - Unit
    BY <2>1, <2>2 DEF WorkOff
  <2>6. PICK k \in Nat : k = n - 1 + ToPress(h)
    BY <2>1, <2>3
  <2>7. Unit * (k + 1) = Unit * k + Unit /\ Unit * k \in Nat /\ k + 1 = n + ToPress(h)
    BY <2>1, <2>3, <2>6, Units
  <2>8. brightness' <= Unit * k
    BY <1>3, <2>3, <2>5, <2>7, Units
  <2>9. Len(pending') + ToPress(h)' = k
    BY <1>2, <2>1, <2>3, <2>6
  <2>10. QED
    BY <1>1, <1>2, <1>8, <2>4, <2>8, <2>9 DEF Darkening
<1>9. QED
  BY <1>5, <1>6, <1>7, <1>8 DEF Course

\* The user moves the brightness: it is what he chose if the display is on and
\* nobody else is at it.
LEMMA Slides ==
  ASSUME NEW h, Handlers = {h}, Typed, Course(h), Slide
  PROVE  Course(h)'
<1>1. /\ pc' = pc /\ code' = code /\ pending = <<>> /\ pending' = pending
      /\ brightness' \in 0 .. Brightest
      /\ chosen' = IF Quiet /\ isPanelBackLightOn THEN brightness' ELSE Nothing
      /\ isPanelBackLightOn' = isPanelBackLightOn
  BY DEF Slide, local
<1>2. pc'[h] \in {"display", "flip"} => code'[h] \in DisplayCodes
  BY <1>1 DEF Course
<1>3. ASSUME chosen' # Nothing PROVE pc'[h] = "idle" /\ Bright(h)'
  <2>1. pc'[h] = "idle" /\ isPanelBackLightOn' /\ chosen' = brightness'
    BY <1>1, <1>3 DEF Quiet
  <2>2. Len(pending') = 0 /\ brightness' \in Nat
    BY <1>1, Units
  <2>3. brightness' + Unit * Len(pending') = chosen' /\ 0 \in 0 .. Len(pending')
    <3>1. Unit * 0 = 0
      BY Units
    <3>2. QED
      BY <2>1, <2>2, <3>1
  <2>4. Settles(chosen)'
    BY <2>2, <2>3 DEF Settles, DownFirst
  <2>5. QED
    BY <2>1, <2>4 DEF Bright, Switching, InStroke
<1>4. QED
  BY <1>2, <1>3 DEF Course, InStroke

\* A key that is not displayOff's moves no brightness the user chose.
LEMMA Begins ==
  ASSUME NEW h, Handlers = {h}, Typed, Course(h), NEW c \in Codes, Message(h, c)
  PROVE  Course(h)'
<1>1. /\ pc[h] = "idle" /\ code'[h] = c
      /\ pending' = pending /\ brightness' = brightness /\ kbdDevice' = kbdDevice
      /\ panelBrightnessLevel' = panelBrightnessLevel
      /\ isPanelBackLightOn' = isPanelBackLightOn
      /\ pc \in [Handlers -> Steps] /\ code \in [Handlers -> Codes \cup {0}]
      /\ stroke \in [Handlers -> Reports \X Usages]
  BY DEF Message, panel, Typed, StrokeTypes, Contents
<1>c. calm' = calm
  BY DEF Message
<1>2. \/ c \in DisplayCodes /\ pc'[h] = "display" /\ chosen' = chosen
      \/ /\ c \in StrokeCodes /\ pc'[h] = "insert" /\ stroke'[h] = StrokeOf(c)
         /\ chosen' = IF c \in BrightnessCodes THEN Nothing ELSE chosen
  BY <1>1 DEF Message, Goto
<1>3. ~ Switching(h) /\ ~ Switching(h)'
  BY <1>1, <1>2, OtherStrokes DEF Switching, InStroke
<1>4. /\ pc'[h] \in {"display", "flip"} => code'[h] \in DisplayCodes
      /\ chosen' # Nothing /\ InStroke(h)' => Usage(h)' \notin BrightnessUsages
  BY <1>1, <1>2, OtherStrokes DEF InStroke, Usage
<1>5. ASSUME chosen' # Nothing, calm PROVE Bright(h)' \/ Dark(h)'
  <2>1. chosen' = chosen
    BY <1>2, <1>5
  <2>2. Bright(h) \/ Dark(h)
    BY <1>3, <1>5, <2>1 DEF Course, Darkening, Lighting
  <2>3. Rounded(chosen)' = Rounded(chosen) /\ (Remembered' <=> Remembered)
    BY <1>1, <2>1 DEF Rounded, Remembered, LevelOf
  <2>4. \A x : Settles(x)' <=> Settles(x)
    BY <1>1, Kept
  <2>5. ASSUME Bright(h) PROVE Bright(h)'
    <3>1. (Settles(chosen) \/ Settles(Rounded(chosen)))'
      BY <2>1, <2>3, <2>4, <2>5 DEF Bright, Settles
    <3>2. QED
      BY <1>1, <1>3, <2>5, <3>1 DEF Bright
  <2>6. ASSUME Dark(h) PROVE Dark(h)'
    BY <1>1, <1>3, <2>3, <2>4, <2>6 DEF Dark, Settles
  <2>7. QED
    BY <2>2, <2>5, <2>6
<1>6. QED
  BY <1>c, <1>4, <1>5 DEF Course

\* The steps inside a stroke that concern the report only, or nothing at all.
LEMMA ReportSteps ==
  ASSUME NEW h, Handlers = {h}, Typed, Course(h),
         \/ InsertScan(h) \/ InsertStore(h) \/ EraseScan(h) \/ EraseStore(h)
         \/ CopyReport(h) \/ UNCHANGED vars
  PROVE  Course(h)'
<1>1. /\ code' = code /\ stroke' = stroke /\ loop' = loop
      /\ pending' = pending /\ brightness' = brightness /\ kbdDevice' = kbdDevice
      /\ panelBrightnessLevel' = panelBrightnessLevel /\ chosen' = chosen
      /\ isPanelBackLightOn' = isPanelBackLightOn
  BY DEF InsertScan, InsertStore, EraseScan, EraseStore, CopyReport, vars, local,
         panel, ghosts
<1>c. calm' = calm
  BY DEF InsertScan, InsertStore, EraseScan, EraseStore, CopyReport, vars, ghosts
<1>2. \/ pc'[h] = pc[h]
      \/ pc[h] \in Rest /\ pc'[h] \in Rest
      \/ /\ pc[h] \in {"insert", "insertStore", "copyDown", "sendDown"}
         /\ pc'[h] \in {"insert", "insertStore", "copyDown", "sendDown"}
  BY DEF InsertScan, InsertStore, EraseScan, EraseStore, CopyReport, vars, local,
         Goto, Rest, Typed, StrokeTypes
<1>3. /\ Switching(h)' <=> Switching(h)
      /\ InStroke(h)' <=> InStroke(h)
      /\ pc'[h] \in {"display", "flip"} => pc'[h] = pc[h]
      /\ Usage(h)' = Usage(h) /\ ToPress(h)' = ToPress(h)
      /\ Remembered' <=> Remembered
  BY <1>1, <1>2 DEF Switching, InStroke, Steps, Usage, ToPress, Rest, Remembered, LevelOf
<1>4. \A x : (DownFirst(x)' <=> DownFirst(x)) /\ (Settles(x)' <=> Settles(x))
  BY <1>1, Kept
<1>5. Bright(h) => Bright(h)'
  <2>1. Rounded(chosen)' = Rounded(chosen)
    BY <1>1 DEF Rounded
  <2>2. (Settles(chosen) \/ Settles(Rounded(chosen)))' <=> (Settles(chosen) \/ Settles(Rounded(chosen)))
    BY <1>1, <1>4, <2>1 DEF Settles
  <2>3. QED
    BY <1>1, <1>3, <2>2 DEF Bright
<1>6. Dark(h) => Dark(h)'
  BY <1>1, <1>3, <1>4 DEF Dark, Settles
<1>7. Darkening(h) => Darkening(h)'
  BY <1>1, <1>3, <1>4 DEF Darkening, DownFirst
<1>8. Lighting(h) => Lighting(h)'
  <2>1. Settles(Unit * (panelBrightnessLevel - ToPress(h)))'
          <=> Settles(Unit * (panelBrightnessLevel - ToPress(h)))
    BY <1>1, <1>3, <1>4 DEF Settles
  <2>2. QED
    BY <1>1, <1>3, <2>1 DEF Lighting
<1>9. QED
  BY <1>1, <1>c, <1>3, <1>5, <1>6, <1>7, <1>8 DEF Course

-----------------------------------------------------------------------------
LEMMA CourseStep ==
  ASSUME NEW h, Handlers = {h}, PostMayFail = FALSE, Typed, OneKey(h), Course(h),
         [Next]_vars
  PROVE  Course(h)'
BY Begins, Chooses, ReportSteps, FailsBright, HandsOver, Flips, WorksOff, Slides
DEF Next, Handle

\* On one thread whose reports can be posted, displayOff leaves the panel dark
\* and brings back the brightness the user chose, for any panel and any lag.
THEOREM Restores == Undisturbed => (Spec => []RestoresBrightness)
<1> SUFFICES ASSUME Undisturbed PROVE Spec => []RestoresBrightness
  OBVIOUS
<1>1. PICK h : Handlers = {h}
  BY DEF Undisturbed
<1>2. Init => Course(h)
  <2> SUFFICES ASSUME Init PROVE Course(h)
    OBVIOUS
  <2>1. /\ pc[h] = "idle" /\ isPanelBackLightOn /\ chosen = brightness
        /\ Len(pending) = 0 /\ brightness \in Nat
    BY <1>1, Units DEF Init
  <2>2. brightness + Unit * Len(pending) = chosen /\ 0 \in 0 .. Len(pending)
    BY <2>1, Units
  <2>3. Settles(chosen)
    BY <2>1, <2>2 DEF Settles, DownFirst
  <2>4. QED
    BY <2>1, <2>3 DEF Course, Bright, Switching, InStroke
<1>3. Typed /\ OneThread /\ Course(h) /\ [Next]_vars => Course(h)'
  BY <1>1, CourseStep DEF Undisturbed, OneThread
<1>4. Typed /\ Course(h) => RestoresBrightness
  <2> SUFFICES ASSUME Typed, Course(h), Quiet, pending = <<>>, chosen # Nothing, calm
               PROVE  IF isPanelBackLightOn THEN brightness \in {chosen, Rounded(chosen)}
                      ELSE brightness = 0
    BY DEF RestoresBrightness
  <2>1. ~ Switching(h)
    BY <1>1 DEF Quiet, Switching, InStroke
  <2>2. Bright(h) \/ Dark(h)
    BY <2>1 DEF Course, Darkening, Lighting
  <2>3. chosen \in 0 .. Brightest
    BY DEF Typed, Switches
  <2>4. \A x \in Nat : Settles(x) => brightness = x
    BY SettledNow DEF Typed
  <2>5. chosen \in Nat /\ Rounded(chosen) \in Nat
    BY <2>3, SameLevel, Units
  <2>6. QED
    BY <2>2, <2>4, <2>5 DEF Bright, Dark
<1>5. Spec => []Typed
  BY TypedAlways
<1>6. QED
  BY <1>2, <1>3, <1>4, <1>5, OneThreadAlways, PTL DEF Spec

=============================================================================
