---------------------------- MODULE FnKeysProofs ----------------------------
(***************************************************************************)
(* The arrays of keys are shared by all handlers without a lock, and yet   *)
(* nothing is left in them, for any number of handlers and places.  The    *)
(* reason is that every usage found in a place has an owner: a handler     *)
(* that is between its insert and its erase of that very usage, and that   *)
(* will clear this place unless somebody else does.                        *)
(***************************************************************************)
EXTENDS FnKeys, TLAPS

\* Handler t will clear place s of report r.
Owner(t, r, s) ==
  /\ pc[t] \in {"copyDown", "sendDown", "erase", "eraseStore"}
  /\ Report(t) = r /\ Usage(t) = keys[r][s]
  /\ pc[t] = "eraseStore" => s \in slots[t]

Owned ==
  \A r \in Reports, s \in Slots :
     keys[r][s] # NoKey => \E t \in Handlers : Owner(t, r, s)

\* The types the argument needs.
StrokeTypes ==
  /\ pc \in [Handlers -> Steps]
  /\ stroke \in [Handlers -> Reports \X Usages]
  /\ slots \in [Handlers -> SUBSET Slots]
  /\ keys \in [Reports -> [Slots -> Usages \cup {NoKey}]]

IInv == StrokeTypes /\ Owned

-----------------------------------------------------------------------------
\* handleMessage maps each code that leads to a report to a usage of it.
LEMMA StrokeOfType == \A c \in StrokeCodes : StrokeOf(c) \in Reports \X Usages
  BY DEF StrokeCodes, StrokeOf, Reports, Usages, IlluminationCodes

LEMMA InitInv == Init => IInv
<1> SUFFICES ASSUME Init PROVE IInv
  OBVIOUS
<1>1. <<"csmr", "Mute">> \in Reports \X Usages
  BY DEF Reports, Usages
<1>2. StrokeTypes
  BY <1>1 DEF Init, StrokeTypes, Steps
<1>3. Owned
  BY DEF Init, Owned
<1> QED
  BY <1>2, <1>3 DEF IInv

\* Every step keeps the types.
LEMMA TypeStep == StrokeTypes /\ [Next]_vars => StrokeTypes'
<1> SUFFICES ASSUME StrokeTypes, [Next]_vars PROVE StrokeTypes'
  OBVIOUS
<1> USE DEF StrokeTypes, Goto, local, Steps
<1>1. ASSUME NEW t \in Handlers, NEW c \in Codes, Message(t, c)
      PROVE  StrokeTypes'
  BY <1>1, StrokeOfType DEF Message
<1>2. ASSUME NEW t \in Handlers, DisplayOff(t)
      PROVE  StrokeTypes'
  <2>1. <<"tc", "BrightnessDown">> \in Reports \X Usages
        /\ <<"tc", "BrightnessUp">> \in Reports \X Usages
    BY DEF Reports, Usages
  <2> QED
    BY <1>2, <2>1 DEF DisplayOff
<1>3. ASSUME NEW t \in Handlers, InsertScan(t)
      PROVE  StrokeTypes'
  BY <1>3 DEF InsertScan, Holding
<1>4. ASSUME NEW t \in Handlers, InsertStore(t)
      PROVE  StrokeTypes'
  BY <1>4 DEF InsertStore, Store, Report, Usage
<1>5. ASSUME NEW t \in Handlers, EraseScan(t)
      PROVE  StrokeTypes'
  BY <1>5 DEF EraseScan, Holding
<1>6. ASSUME NEW t \in Handlers, EraseStore(t)
      PROVE  StrokeTypes'
  BY <1>6 DEF EraseStore, Store, Report
<1>7. ASSUME NEW t \in Handlers, CopyReport(t)
      PROVE  StrokeTypes'
  BY <1>7 DEF CopyReport
<1>8. ASSUME NEW t \in Handlers, PostFails(t) \/ HandleReport(t)
      PROVE  StrokeTypes'
  BY <1>8 DEF PostFails, HandleReport, AfterPost, NextStroke
<1>9. ASSUME NEW t \in Handlers, Flip(t)
      PROVE  StrokeTypes'
  BY <1>9 DEF Flip
<1>10. CASE WorkOff \/ Slide \/ UNCHANGED vars
  BY <1>10 DEF WorkOff, Slide, vars
<1> HIDE DEF StrokeTypes
<1> QED
  BY <1>1, <1>2, <1>3, <1>4, <1>5, <1>6, <1>7, <1>8, <1>9, <1>10
  DEF Next, Handle

-----------------------------------------------------------------------------
\* A step that leaves the arrays alone keeps every place owned if it lets no
\* owner go.
LEMMA OwnersStay ==
  ASSUME Owned, UNCHANGED keys,
         \A t \in Handlers, r \in Reports, s \in Slots :
            keys[r][s] # NoKey /\ Owner(t, r, s) => Owner(t, r, s)'
  PROVE  Owned'
  BY DEF Owned

\* Every step keeps every used place owned.
LEMMA OwnedStep == IInv /\ [Next]_vars => Owned'
<1> SUFFICES ASSUME StrokeTypes, Owned, [Next]_vars PROVE Owned'
  BY DEF IInv
<1> USE DEF StrokeTypes, Goto, local, Owner, Report, Usage
<1>1. ASSUME NEW t \in Handlers, NEW c \in Codes, Message(t, c)
      PROVE  Owned'
  BY <1>1, OwnersStay DEF Message
<1>2. ASSUME NEW t \in Handlers, DisplayOff(t)
      PROVE  Owned'
  BY <1>2, OwnersStay DEF DisplayOff
<1>3. ASSUME NEW t \in Handlers, InsertScan(t)
      PROVE  Owned'
  BY <1>3, OwnersStay DEF InsertScan
<1>4. ASSUME NEW t \in Handlers, InsertStore(t)
      PROVE  Owned'
  <2> SUFFICES ASSUME NEW r \in Reports, NEW s \in Slots, keys'[r][s] # NoKey
      PROVE \E o \in Handlers : Owner(o, r, s)'
    BY DEF Owned
  <2>1. CASE r = Report(t) /\ s \in slots[t]
    <3>1. keys'[r][s] = Usage(t)
      BY <1>4, <2>1 DEF InsertStore, Store
    <3>2. Owner(t, r, s)'
      BY <1>4, <2>1, <3>1 DEF InsertStore
    <3> QED
      BY <3>2
  <2>2. CASE ~ (r = Report(t) /\ s \in slots[t])
    <3>1. keys'[r][s] = keys[r][s]
      BY <1>4, <2>2 DEF InsertStore, Store
    <3>2. PICK o \in Handlers : Owner(o, r, s)
      BY <3>1 DEF Owned
    <3>3. o # t
      BY <1>4, <3>2 DEF InsertStore
    <3>4. Owner(o, r, s)'
      BY <1>4, <3>1, <3>2, <3>3 DEF InsertStore
    <3> QED
      BY <3>4
  <2> QED
    BY <2>1, <2>2
<1>5. ASSUME NEW t \in Handlers, EraseScan(t)
      PROVE  Owned'
  BY <1>5, OwnersStay DEF EraseScan, Holding
<1>6. ASSUME NEW t \in Handlers, EraseStore(t)
      PROVE  Owned'
  <2> SUFFICES ASSUME NEW r \in Reports, NEW s \in Slots, keys'[r][s] # NoKey
      PROVE \E o \in Handlers : Owner(o, r, s)'
    BY DEF Owned
  <2>1. ~ (r = Report(t) /\ s \in slots[t])
    BY <1>6 DEF EraseStore, Store
  <2>2. keys'[r][s] = keys[r][s]
    BY <1>6, <2>1 DEF EraseStore, Store
  <2>3. PICK o \in Handlers : Owner(o, r, s)
    BY <2>2 DEF Owned
  <2>4. o # t
    BY <1>6, <2>1, <2>3 DEF EraseStore
  <2>5. Owner(o, r, s)'
    BY <1>6, <2>2, <2>3, <2>4 DEF EraseStore
  <2> QED
    BY <2>5
<1>7. ASSUME NEW t \in Handlers, CopyReport(t)
      PROVE  Owned'
  BY <1>7, OwnersStay DEF CopyReport
<1>8. ASSUME NEW t \in Handlers, PostFails(t) \/ HandleReport(t)
      PROVE  Owned'
  BY <1>8, OwnersStay DEF PostFails, HandleReport, AfterPost, NextStroke
<1>9. ASSUME NEW t \in Handlers, Flip(t)
      PROVE  Owned'
  BY <1>9, OwnersStay DEF Flip
<1>10. CASE WorkOff \/ Slide \/ UNCHANGED vars
  BY <1>10, OwnersStay DEF WorkOff, Slide, vars
<1> HIDE DEF StrokeTypes, Owner, Report, Usage
<1> QED
  BY <1>1, <1>2, <1>3, <1>4, <1>5, <1>6, <1>7, <1>8, <1>9, <1>10
  DEF Next, Handle

\* Every used place of the arrays is owned in every state.
THEOREM Inductive == Spec => []IInv
<1>1. IInv /\ [Next]_vars => IInv'
  BY TypeStep, OwnedStep DEF IInv
<1> QED
  BY <1>1, InitInv, PTL DEF Spec

\* The unlocked arrays of keys are empty whenever no handler is in a stroke.
THEOREM NothingLeftBehind == Spec => []NoResidue
<1>1. IInv => NoResidue
  BY DEF IInv, StrokeTypes, Owned, Owner, NoResidue, Quiet, Pressed
<1> QED
  BY <1>1, Inductive, PTL

-----------------------------------------------------------------------------
(***************************************************************************)
(* One handler thread, and every report can be posted: the OS sees whole   *)
(* strokes.  OneKey relates the handler's place in the stroke to its copy  *)
(* of the report and to the last report the OS got.                        *)
(***************************************************************************)
Numbers ==
  /\ loop \in [Handlers -> Nat] /\ panelBrightnessLevel \in Nat /\ brightness \in Nat
  /\ \A t \in Handlers : InStroke(t) => loop[t] > 0

Rest == {"erase", "eraseStore", "copyUp", "sendUp"}
AllUp == [r \in Reports |-> {}]
Down(h) == [AllUp EXCEPT ![Report(h)] = {Usage(h)}]

OneKey(h) ==
  /\ copy \in [Handlers -> SUBSET Usages]
  /\ pc[h] = "insertStore" => slots[h] # {}
  /\ pc[h] = "copyDown" => \E s \in Slots : keys[Report(h)][s] = Usage(h)
  /\ pc[h] = "sendDown" => copy[h] = {Usage(h)}
  /\ pc[h] = "sendUp" => copy[h] = {}
  /\ pc[h] \in {"sendDown", "sendUp"} => kbdDevice
  /\ delivered = IF kbdDevice /\ pc[h] \in Rest THEN Down(h) ELSE AllUp

\* Loop counts and levels stay natural numbers.
LEMMA NumbersStep == StrokeTypes /\ Numbers /\ [Next]_vars => Numbers'
<1> SUFFICES ASSUME StrokeTypes, Numbers, [Next]_vars PROVE Numbers'
  OBVIOUS
<1> USE BrightnessAssumption DEF Numbers, local, panel, InStroke, Steps, Goto
<1>a. pc \in [Handlers -> Steps]
  BY DEF StrokeTypes
<1>0. Brightest \in Nat
  BY DEF Brightest
<1>1. ASSUME NEW t \in Handlers, NEW c \in Codes, Message(t, c)
      PROVE  Numbers'
  <2>1. UNCHANGED <<panelBrightnessLevel, brightness>>
    BY <1>1 DEF Message
  <2>2. CASE pc' = [pc EXCEPT ![t] = "display"] /\ loop' = loop
    BY <2>1, <2>2, <1>a
  <2>3. CASE pc' = [pc EXCEPT ![t] = "insert"] /\ loop' = [loop EXCEPT ![t] = 1]
    BY <2>1, <2>3, <1>a
  <2>4. QED
    BY <1>1, <2>2, <2>3 DEF Message
<1>2. ASSUME NEW t \in Handlers, DisplayOff(t)
      PROVE  Numbers'
  <2>1. LevelOf(brightness) \in Nat
    BY DEF LevelOf
  <2>2. panelBrightnessLevel' \in Nat /\ brightness' = brightness
    BY <1>2, <2>1 DEF DisplayOff
  <2>3. loop' \in [Handlers -> Nat] /\ \A u \in Handlers : u # t => loop'[u] = loop[u]
    BY <1>2, <2>2 DEF DisplayOff
  <2>4. pc' = [pc EXCEPT ![t] = IF loop'[t] = 0 THEN "flip" ELSE "insert"]
    BY <1>2 DEF DisplayOff
  <2>5. \A u \in Handlers : InStroke(u)' => loop'[u] > 0
    BY <2>3, <2>4, <1>a
  <2>6. QED
    BY <2>2, <2>3, <2>5
<1>3. ASSUME NEW t \in Handlers,
             InsertScan(t) \/ InsertStore(t) \/ EraseScan(t) \/ EraseStore(t)
               \/ CopyReport(t) \/ Flip(t)
      PROVE  Numbers'
  BY <1>3, <1>a DEF InsertScan, InsertStore, EraseScan, EraseStore, CopyReport, Flip
<1>4. ASSUME NEW t \in Handlers, PostFails(t) \/ HandleReport(t)
      PROVE  Numbers'
  <2>1. loop[t] \in Nat /\ loop[t] > 0
    BY <1>4 DEF PostFails, HandleReport
  <2>2. UNCHANGED <<panelBrightnessLevel, brightness>>
    BY <1>4 DEF PostFails, HandleReport
  <2>3. CASE pc' = [pc EXCEPT ![t] = "erase"] /\ loop' = loop
    BY <2>1, <2>2, <2>3, <1>a, <1>4 DEF PostFails, HandleReport
  <2>4. CASE NextStroke(t)
    <3>1. loop' = [loop EXCEPT ![t] = @ - 1]
      BY <2>4 DEF NextStroke
    <3>2. loop' \in [Handlers -> Nat]
      BY <2>1, <3>1
    <3>3. pc' = [pc EXCEPT ![t] = IF loop[t] > 1 THEN "insert"
                   ELSE IF code[t] \in DisplayCodes THEN "flip" ELSE "idle"]
      BY <2>4 DEF NextStroke
    <3>4. \A u \in Handlers : InStroke(u)' => loop'[u] > 0
      BY <3>1, <3>3, <2>1, <1>a
    <3>5. QED
      BY <2>2, <3>2, <3>4
  <2>5. QED
    BY <1>4, <2>3, <2>4 DEF PostFails, HandleReport, AfterPost
<1>5. CASE WorkOff \/ Slide \/ UNCHANGED vars
  <2>1. UNCHANGED <<pc, loop, panelBrightnessLevel>>
    BY <1>5 DEF WorkOff, Slide, vars
  <2>2. brightness' \in Nat
    BY <1>5, <1>0 DEF WorkOff, Slide, vars
  <2>3. QED
    BY <2>1, <2>2
<1>6. QED
  BY <1>1, <1>2, <1>3, <1>4, <1>5 DEF Next, Handle

\* A stroke's store fills a place, and its erasure empties all.
LEMMA ReportContents ==
  ASSUME NEW h, Handlers = {h}, IInv, OneKey(h)
  PROVE  /\ pc[h] = "copyDown" => Pressed(Report(h)) = {Usage(h)}
         /\ pc[h] = "copyUp" => Pressed(Report(h)) = {}
         /\ pc[h] = "insert" => \A s \in Slots : keys[Report(h)][s] = NoKey
<1> USE DEF IInv, StrokeTypes, Owned, Owner, Pressed, Report
<1>1. Usage(h) # NoKey /\ stroke[h] \in Reports \X Usages
  BY KeyAssumption DEF Usage
<1>2. \A s \in Slots : keys[Report(h)][s] # NoKey =>
         /\ pc[h] \in {"copyDown", "sendDown", "erase", "eraseStore"}
         /\ Usage(h) = keys[Report(h)][s]
  BY <1>1
<1>3. QED
  BY <1>1, <1>2 DEF OneKey

LEMMA OneKeyStep ==
  ASSUME NEW h, Handlers = {h}, PostMayFail = FALSE, IInv, OneKey(h), [Next]_vars
  PROVE  OneKey(h)'
<1> USE DEF OneKey, Rest, Down, AllUp, Goto, local, Report, Usage
<1>a. /\ pc \in [Handlers -> Steps] /\ slots \in [Handlers -> SUBSET Slots]
      /\ stroke \in [Handlers -> Reports \X Usages]
      /\ keys \in [Reports -> [Slots -> Usages \cup {NoKey}]]
  BY DEF IInv, StrokeTypes
<1>1. ASSUME NEW c \in Codes, Message(h, c)
      PROVE  OneKey(h)'
  BY <1>1, <1>a DEF Message
<1>2. CASE DisplayOff(h)
  BY <1>2, <1>a DEF DisplayOff
<1>3. CASE InsertScan(h)
  <2>1. Holding(Report(h), Usage(h)) = {} /\ Holding(Report(h), NoKey) # {}
    <3>1. pc[h] = "insert" /\ Usage(h) \in Usages
      BY <1>3, <1>a DEF InsertScan
    <3>2. \A s \in Slots : keys[Report(h)][s] = NoKey
      BY <3>1, ReportContents
    <3>3. QED
      BY <3>1, <3>2, SlotAssumption, KeyAssumption DEF Holding
  <2>2. PICK s \in Slots : slots' = [slots EXCEPT ![h] = {s}] /\ pc' = [pc EXCEPT ![h] = "insertStore"]
    BY <1>3, <2>1 DEF InsertScan, Holding
  <2>3. QED
    BY <1>3, <2>2, <1>a DEF InsertScan
<1>4. CASE InsertStore(h)
  <2>1. PICK s \in Slots : s \in slots[h]
    BY <1>4, <1>a DEF InsertStore
  <2>2. keys'[Report(h)][s] = Usage(h)
    BY <1>4, <2>1, <1>a DEF InsertStore, Store
  <2>3. QED
    BY <1>4, <2>1, <2>2, <1>a DEF InsertStore
<1>5. CASE EraseScan(h)
  BY <1>5, <1>a DEF EraseScan
<1>6. CASE EraseStore(h)
  BY <1>6, <1>a DEF EraseStore
<1>7. CASE CopyReport(h)
  <2>1. copy' = [copy EXCEPT ![h] = Pressed(Report(h))]
    BY <1>7 DEF CopyReport
  <2>2. Pressed(Report(h)) \in SUBSET Usages
    BY <1>a DEF Pressed
  <2>3. /\ pc[h] = "copyDown" => Pressed(Report(h)) = {Usage(h)}
        /\ pc[h] = "copyUp" => Pressed(Report(h)) = {}
    BY ReportContents
  <2>4. copy' \in [Handlers -> SUBSET Usages] /\ copy'[h] = Pressed(Report(h))
    BY <2>1, <2>2
  <2>5. CASE pc[h] = "copyDown"
    BY <1>7, <2>3, <2>4, <2>5, <1>a DEF CopyReport
  <2>6. CASE pc[h] = "copyUp"
    BY <1>7, <2>3, <2>4, <2>6, <1>a DEF CopyReport
  <2>7. QED
    BY <1>7, <2>5, <2>6 DEF CopyReport
<1>8. CASE PostFails(h)
  BY <1>8, <1>a DEF PostFails, AfterPost, NextStroke
<1>9. CASE HandleReport(h)
  BY <1>9, <1>a DEF HandleReport, AfterPost, NextStroke
<1>10. CASE Flip(h)
  BY <1>10, <1>a DEF Flip
<1>11. CASE WorkOff \/ Slide \/ UNCHANGED vars
  <2>1. UNCHANGED <<pc, stroke, slots, copy, keys, delivered, kbdDevice>>
    BY <1>11 DEF WorkOff, Slide, vars
  <2>2. QED
    BY <2>1
<1>12. QED
  BY <1>1, <1>2, <1>3, <1>4, <1>5, <1>6, <1>7, <1>8, <1>9, <1>10, <1>11
  DEF Next, Handle

\* What a step has to do to count as one of KeyStrokes, or as a stutter.
Left == IF kbdDevice /\ InStroke(Thread) THEN loop[Thread] ELSE 0

LEMMA SeenAs ==
  ASSUME NEW h, Handlers = {h},
         \/ /\ Left = 0 /\ stroke'[h] \in Reports \X Usages /\ Left' \in Nat
            /\ delivered' = delivered
         \/ /\ Left > 0 /\ delivered = AllUp /\ delivered' = Down(h)
            /\ stroke'[h] = stroke[h] /\ Left' = Left
         \/ /\ Left > 0 /\ delivered = Down(h) /\ delivered' = AllUp
            /\ stroke'[h] = stroke[h] /\ Left' = Left - 1
         \/ stroke'[h] = stroke[h] /\ Left' = Left /\ delivered' = delivered
  PROVE  [Seen!Next]_(Seen!vars)
<1>1. Thread = h
  BY DEF Thread
<1>2. QED
  BY <1>1 DEF Seen!Next, Seen!vars, Seen!Order, Seen!Press, Seen!Release, Seen!Up,
     Seen!Held, Left, AllUp, Down, Report, Usage

LEMMA SeenStep ==
  ASSUME NEW h, Handlers = {h}, PostMayFail = FALSE, IInv, IInv', Numbers, Numbers',
         OneKey(h), [Next]_vars
  PROVE  [Seen!Next]_(Seen!vars)
<1> USE DEF Goto, local, InStroke, Steps
<1>a. /\ pc \in [Handlers -> Steps] /\ stroke \in [Handlers -> Reports \X Usages]
      /\ stroke'[h] \in Reports \X Usages
      /\ loop \in [Handlers -> Nat] /\ loop'[h] \in Nat /\ Thread = h
  BY DEF IInv, StrokeTypes, Numbers, Thread
<1>b. /\ Left = IF kbdDevice /\ InStroke(h) THEN loop[h] ELSE 0
      /\ Left' = IF kbdDevice' /\ InStroke(h)' THEN loop'[h] ELSE 0
      /\ Left' \in Nat
  BY <1>a DEF Left
<1>1. ASSUME NEW c \in Codes, Message(h, c)
      PROVE  [Seen!Next]_(Seen!vars)
  <2>1. Left = 0 /\ delivered' = delivered
    BY <1>1, <1>a, <1>b DEF Message
  <2>2. QED
    BY <2>1, <1>a, <1>b, SeenAs
<1>2. CASE DisplayOff(h)
  <2>1. Left = 0 /\ delivered' = delivered
    BY <1>2, <1>a, <1>b DEF DisplayOff
  <2>2. QED
    BY <2>1, <1>a, <1>b, SeenAs
<1>3. CASE InsertScan(h) \/ InsertStore(h) \/ EraseScan(h) \/ EraseStore(h) \/ CopyReport(h)
  <2>1. Left' = Left /\ stroke' = stroke /\ delivered' = delivered
    BY <1>3, <1>a, <1>b DEF InsertScan, InsertStore, EraseScan, EraseStore, CopyReport
  <2>2. QED
    BY <2>1, SeenAs
<1>4. CASE PostFails(h)
  <2>1. Left' = 0 /\ Left = 0 /\ stroke' = stroke /\ delivered' = delivered
    BY <1>4, <1>b DEF PostFails
  <2>2. QED
    BY <2>1, SeenAs
<1>5. CASE HandleReport(h)
  <2>1. /\ kbdDevice /\ kbdDevice' = kbdDevice /\ stroke' = stroke
        /\ delivered' = [delivered EXCEPT ![Report(h)] = copy[h]]
        /\ Report(h) \in Reports
    BY <1>5, <1>a DEF HandleReport, OneKey, Report
  <2>2. CASE pc[h] = "sendDown"
    <3>1. pc' = [pc EXCEPT ![h] = "erase"] /\ loop' = loop
      BY <1>5, <2>2 DEF HandleReport, AfterPost
    <3>2. delivered = AllUp /\ delivered' = Down(h)
      BY <2>1, <2>2 DEF OneKey, Rest, Down
    <3>3. Left > 0 /\ Left' = Left
      BY <2>1, <2>2, <3>1, <1>a, <1>b DEF Numbers
    <3>4. QED
      BY <2>1, <3>2, <3>3, SeenAs
  <2>3. CASE pc[h] = "sendUp"
    <3>1. NextStroke(h)
      BY <1>5, <2>3 DEF HandleReport, AfterPost
    <3>2. delivered = Down(h) /\ delivered' = AllUp
      BY <2>1, <2>3 DEF OneKey, Rest, Down, AllUp
    <3>3. loop[h] > 0 /\ loop'[h] = loop[h] - 1
      BY <2>3, <3>1, <1>a DEF NextStroke, Numbers
    <3>4. pc'[h] = IF loop[h] > 1 THEN "insert"
                   ELSE IF code[h] \in DisplayCodes THEN "flip" ELSE "idle"
      BY <3>1, <1>a DEF NextStroke
    <3>5. Left > 0 /\ Left' = Left - 1
      BY <2>1, <2>3, <3>3, <3>4, <1>a, <1>b
    <3>6. QED
      BY <2>1, <3>2, <3>5, SeenAs
  <2>4. QED
    BY <1>5, <2>2, <2>3 DEF HandleReport
<1>6. CASE Flip(h)
  <2>1. Left' = 0 /\ Left = 0 /\ stroke' = stroke /\ delivered' = delivered
    BY <1>6, <1>a, <1>b DEF Flip
  <2>2. QED
    BY <2>1, SeenAs
<1>7. CASE WorkOff \/ Slide \/ UNCHANGED vars
  <2>1. UNCHANGED <<pc, stroke, loop, delivered, kbdDevice>>
    BY <1>7 DEF WorkOff, Slide, vars
  <2>2. QED
    BY <2>1, <1>b, SeenAs
<1>8. QED
  BY <1>1, <1>2, <1>3, <1>4, <1>5, <1>6, <1>7 DEF Next, Handle

\* One handler thread, and no report that cannot be posted.
Undisturbed == PostMayFail = FALSE /\ \E h : Handlers = {h}
OneThread == Numbers /\ \A h \in Handlers : OneKey(h)

LEMMA OneThreadAlways == Undisturbed => (Spec => [](IInv /\ OneThread))
<1> SUFFICES ASSUME Undisturbed PROVE Spec => [](IInv /\ OneThread)
  OBVIOUS
<1>1. PICK h : Handlers = {h}
  BY DEF Undisturbed
<1>2. Init => OneThread
  BY BrightnessAssumption
  DEF Init, OneThread, Numbers, OneKey, Rest, AllUp, InStroke, Brightest
<1>3. IInv /\ OneThread /\ [Next]_vars => OneThread'
  BY <1>1, OneKeyStep, NumbersStep DEF OneThread, IInv, Undisturbed
<1>4. QED
  BY <1>2, <1>3, Inductive, PTL DEF Spec

\* On one thread the OS never holds a key of an earlier stroke, nor any once
\* the handler is done.
THEOREM NoneStuck == Undisturbed => (Spec => []NoKeyStuck)
<1> SUFFICES ASSUME Undisturbed PROVE Spec => []NoKeyStuck
  OBVIOUS
<1>1. IInv /\ OneThread => NoKeyStuck
  <2> SUFFICES ASSUME IInv, OneThread PROVE NoKeyStuck
    OBVIOUS
  <2>1. PICK h : Handlers = {h}
    BY DEF Undisturbed
  <2>2. OneKey(h)
    BY <2>1 DEF OneThread
  <2>3. QED
    BY <2>1, <2>2 DEF NoKeyStuck, OneKey, Quiet, Rest, Down, AllUp
<1>2. QED
  BY <1>1, OneThreadAlways, PTL

\* On one thread FnKeys implements KeyStrokes: the OS sees whole strokes.
THEOREM Implements == Undisturbed => (Spec => StrokesWhole)
<1> SUFFICES ASSUME Undisturbed PROVE Spec => StrokesWhole
  OBVIOUS
<1>1. PICK h : Handlers = {h}
  BY DEF Undisturbed
<1>2. Init => Seen!Init
  <2> SUFFICES ASSUME Init PROVE Seen!Init
    OBVIOUS
  <2>1. <<"csmr", "Mute">> \in Reports \X Usages
    BY DEF Reports, Usages
  <2>2. Thread = h
    BY <1>1 DEF Thread
  <2>3. QED
    BY <1>1, <2>1, <2>2 DEF Init, Seen!Init, Seen!Up, InStroke
<1>3. IInv /\ IInv' /\ OneThread /\ OneThread' /\ [Next]_vars => [Seen!Next]_(Seen!vars)
  BY <1>1, SeenStep DEF OneThread, Undisturbed
<1>4. QED
  BY <1>2, <1>3, OneThreadAlways, PTL DEF Spec, StrokesWhole, Seen!Spec

-----------------------------------------------------------------------------
(***************************************************************************)
(* The whole type invariant.  That no loop runs below zero and no level    *)
(* beyond the 16 strokes of the panel rests on Numbers and on the division *)
(* of a brightness by its unit.                                            *)
(***************************************************************************)
Contents ==
  /\ code \in [Handlers -> Codes \cup {0}]
  /\ copy \in [Handlers -> SUBSET Usages]
  /\ delivered \in [Reports -> SUBSET Usages]
  /\ pending \in Seq(BrightnessUsages)

Counts ==
  /\ loop \in [Handlers -> 0 .. DarkStrokes]
  /\ brightness \in 0 .. Brightest
  /\ panelBrightnessLevel \in 0 .. DarkStrokes

Switches ==
  /\ hasKeyboardBacklight \in BOOLEAN /\ kbdDevice \in BOOLEAN
  /\ isPanelBackLightOn \in BOOLEAN
  /\ chosen \in 0 .. Brightest \cup {Nothing} /\ calm \in BOOLEAN

\* readPanelBrightnessValue's division gives no more strokes than darken it.
LEMMA LevelRange ==
  ASSUME NEW value \in 0 .. Brightest PROVE LevelOf(value) \in 0 .. DarkStrokes
<1> DEFINE q == value \div Unit
<1>1. /\ DarkStrokes \in Nat /\ Unit \in Nat \ {0} /\ value \in Nat
      /\ value <= DarkStrokes * Unit /\ q \in Nat
  BY BrightnessAssumption DEF Brightest
<1>2. q * Unit <= value
  BY <1>1
<1>3. q <= DarkStrokes
  <2> SUFFICES ASSUME q >= DarkStrokes + 1 PROVE FALSE
    BY <1>1
  <2> HIDE DEF q
  <2>1. q * Unit >= (DarkStrokes + 1) * Unit
    BY <1>1
  <2>2. (DarkStrokes + 1) * Unit = DarkStrokes * Unit + Unit
    BY <1>1
  <2>3. QED
    BY <1>1, <1>2, <2>1, <2>2
<1>4. QED
  BY <1>1, <1>3 DEF LevelOf

LEMMA ShortSeqs ==
  \A S : <<>> \in Seq(S) /\ \A a, b \in S : <<a>> \in Seq(S) /\ <<a, b>> \in Seq(S)
  OBVIOUS

LEMMA ContentsStep ==
  ASSUME StrokeTypes, Contents, [Next]_vars PROVE Contents'
<1> USE DEF Contents, local, Goto
<1>1. ASSUME NEW t \in Handlers, NEW c \in Codes, Message(t, c) PROVE Contents'
  BY <1>1 DEF Message
<1>2. ASSUME NEW t \in Handlers,
             DisplayOff(t) \/ InsertScan(t) \/ InsertStore(t) \/ EraseScan(t)
               \/ EraseStore(t) \/ PostFails(t) \/ Flip(t)
      PROVE Contents'
  BY <1>2 DEF DisplayOff, InsertScan, InsertStore, EraseScan, EraseStore, PostFails, Flip
<1>3. ASSUME NEW t \in Handlers, CopyReport(t) PROVE Contents'
  <2>1. Pressed(Report(t)) \in SUBSET Usages
    BY DEF Pressed, Report, StrokeTypes
  <2>2. QED
    BY <1>3, <2>1 DEF CopyReport
<1>4. ASSUME NEW t \in Handlers, HandleReport(t) PROVE Contents'
  <2>1. PICK q \in Orders : pending' = pending \o q
    BY <1>4 DEF HandleReport
  <2>2. q \in Seq(BrightnessUsages)
    <3>1. "BrightnessUp" \in BrightnessUsages /\ "BrightnessDown" \in BrightnessUsages
      BY DEF BrightnessUsages
    <3>2. QED
      BY <3>1, ShortSeqs DEF Orders
  <2>3. pending' \in Seq(BrightnessUsages)
    BY <2>1, <2>2
  <2>4. /\ copy' = [copy EXCEPT ![t] = {}] /\ code' = code
        /\ delivered' = [delivered EXCEPT ![Report(t)] = copy[t]]
    BY <1>4 DEF HandleReport
  <2>5. QED
    BY <2>3, <2>4
<1>5. CASE WorkOff
  <2>1. pending' \in Seq(BrightnessUsages)
    BY <1>5 DEF WorkOff
  <2>2. QED
    BY <1>5, <2>1 DEF WorkOff
<1>6. CASE Slide \/ UNCHANGED vars
  BY <1>6 DEF Slide, vars
<1>7. QED
  BY <1>1, <1>2, <1>3, <1>4, <1>5, <1>6 DEF Next, Handle

LEMMA CountsStep ==
  ASSUME StrokeTypes, Numbers, Counts, [Next]_vars PROVE Counts'
<1> USE DEF Counts, local, panel, Goto
<1>a. DarkStrokes \in Nat \ {0} /\ Unit \in Nat \ {0} /\ Brightest \in Nat
  BY BrightnessAssumption DEF Brightest
<1>1. ASSUME NEW t \in Handlers, NEW c \in Codes, Message(t, c) PROVE Counts'
  BY <1>1, <1>a DEF Message
<1>2. ASSUME NEW t \in Handlers, DisplayOff(t) PROVE Counts'
  <2>1. panelBrightnessLevel' \in 0 .. DarkStrokes /\ brightness' = brightness
    BY <1>2, LevelRange DEF DisplayOff
  <2>2. loop' = [loop EXCEPT ![t] = DarkStrokes]
        \/ loop' = [loop EXCEPT ![t] = panelBrightnessLevel]
    BY <1>2 DEF DisplayOff
  <2>3. QED
    BY <2>1, <2>2, <1>a
<1>3. ASSUME NEW t \in Handlers,
             InsertScan(t) \/ InsertStore(t) \/ EraseScan(t) \/ EraseStore(t)
               \/ CopyReport(t) \/ Flip(t)
      PROVE Counts'
  BY <1>3 DEF InsertScan, InsertStore, EraseScan, EraseStore, CopyReport, Flip
<1>4. ASSUME NEW t \in Handlers, PostFails(t) \/ HandleReport(t) PROVE Counts'
  <2>1. pc[t] \in {"copyDown", "copyUp", "sendDown", "sendUp"}
    BY <1>4 DEF PostFails, HandleReport
  <2>2. loop[t] > 0
    BY <2>1 DEF Numbers, InStroke, Steps
  <2>3. loop' = loop \/ loop' = [loop EXCEPT ![t] = @ - 1]
    BY <1>4 DEF PostFails, HandleReport, AfterPost, NextStroke
  <2>4. UNCHANGED <<panelBrightnessLevel, brightness>>
    BY <1>4 DEF PostFails, HandleReport
  <2>5. QED
    BY <2>2, <2>3, <2>4, <1>a
<1>5. CASE WorkOff
  <2>1. UNCHANGED <<loop, panelBrightnessLevel>>
    BY <1>5 DEF WorkOff
  <2>2. brightness' \in 0 .. Brightest
    BY <1>5, <1>a DEF WorkOff
  <2>3. QED
    BY <2>1, <2>2
<1>6. CASE Slide \/ UNCHANGED vars
  BY <1>6 DEF Slide, vars
<1>7. QED
  BY <1>1, <1>2, <1>3, <1>4, <1>5, <1>6 DEF Next, Handle

LEMMA SwitchesStep ==
  ASSUME Switches, Counts, [Next]_vars PROVE Switches'
<1> USE DEF Switches, local, panel, ghosts
<1>1. ASSUME NEW t \in Handlers, NEW c \in Codes, Message(t, c) PROVE Switches'
  BY <1>1 DEF Message
<1>2. ASSUME NEW t \in Handlers, DisplayOff(t) PROVE Switches'
  <2>1. calm' \in BOOLEAN
    BY <1>2 DEF DisplayOff
  <2>2. QED
    BY <1>2, <2>1 DEF DisplayOff
<1>3. ASSUME NEW t \in Handlers,
             InsertScan(t) \/ InsertStore(t) \/ EraseScan(t) \/ EraseStore(t)
               \/ CopyReport(t) \/ PostFails(t) \/ HandleReport(t)
      PROVE Switches'
  BY <1>3 DEF InsertScan, InsertStore, EraseScan, EraseStore, CopyReport,
              PostFails, HandleReport
<1>4. ASSUME NEW t \in Handlers, Flip(t) PROVE Switches'
  BY <1>4 DEF Flip
<1>5. CASE WorkOff \/ UNCHANGED vars
  BY <1>5 DEF WorkOff, vars
<1>6. CASE Slide
  <2>1. brightness' \in 0 .. Brightest /\ calm' = TRUE
    BY <1>6 DEF Slide
  <2>2. QED
    BY <1>6, <2>1 DEF Slide
<1>7. QED
  BY <1>1, <1>2, <1>3, <1>4, <1>5, <1>6 DEF Next, Handle

Typed == StrokeTypes /\ Numbers /\ Contents /\ Counts /\ Switches

LEMMA TypedAlways == Spec => []Typed
<1>1. Init => Typed
  <2> SUFFICES ASSUME Init PROVE Typed
    OBVIOUS
  <2>1. StrokeTypes
    BY InitInv DEF IInv
  <2>2. DarkStrokes \in Nat /\ Brightest \in Nat
    BY BrightnessAssumption DEF Brightest
  <2>3. Numbers
    BY <2>2 DEF Init, Numbers, InStroke
  <2>4. Contents
    <3>1. pending \in Seq(BrightnessUsages)
      BY DEF Init
    <3>2. QED
      BY <3>1 DEF Init, Contents
  <2>5. Counts
    BY <2>2 DEF Init, Counts
  <2>6. Switches
    BY DEF Init, Switches
  <2>7. QED
    BY <2>1, <2>3, <2>4, <2>5, <2>6 DEF Typed
<1>2. Typed /\ [Next]_vars => Typed'
  BY TypeStep, NumbersStep, ContentsStep, CountsStep, SwitchesStep DEF Typed
<1>3. QED
  BY <1>1, <1>2, PTL DEF Spec

\* Type correctness, for any number of handlers, places, strokes and units.
THEOREM TypeCorrect == Spec => []TypeOK
<1>1. Typed => TypeOK
  BY DEF Typed, StrokeTypes, Contents, Counts, Switches, TypeOK, BrightnessUsages
<1>2. QED
  BY <1>1, TypedAlways, PTL

=============================================================================
