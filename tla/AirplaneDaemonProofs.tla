------------------------ MODULE AirplaneDaemonProofs ------------------------
(***************************************************************************)
(* What holds of AirplaneDaemon for every size of the socket's buffer,     *)
(* with or without events that look like the driver's.                     *)
(*                                                                         *)
(* RadiosRestored speaks of the daemon between two events only.  What      *)
(* carries it through a toggle is Underway: at each place in               *)
(* toggleAirplaneMode, which radios are already switched and what has been *)
(* noted by then.                                                          *)
(***************************************************************************)
EXTENDS AirplaneDaemon, FiniteSetTheorems, TLAPS

Noted == <<lastWifiState, lastBluetoothState>>
Off == <<FALSE, FALSE>>

Between ==
  (pc = "recv" /\ before # Nothing) =>
     IF airplaneModeEnabled THEN radios = Off /\ Noted = before
                            ELSE radios = before

BeingNoted ==
  /\ pc \in {"noteWifi", "noteBluetooth"} => airplaneModeEnabled
  /\ (pc \in {"noteWifi", "noteBluetooth"} /\ before # Nothing) => radios = before
  /\ (pc = "noteBluetooth" /\ before # Nothing) =>
        <<lastWifiState, bluetooth>> = before

BeingSwitched ==
  /\ (pc = "setWifi" /\ before # Nothing) =>
        /\ Noted = before
        /\ radios = IF airplaneModeEnabled THEN before ELSE Off
  /\ (pc = "setBluetooth" /\ before # Nothing) =>
        /\ Noted = before
        /\ wifi = (~ airplaneModeEnabled /\ lastWifiState)

Underway ==
  /\ Between /\ BeingNoted /\ BeingSwitched
  /\ pc = "down" => before = Nothing

-----------------------------------------------------------------------------
\* Type correctness: no step of the daemon, the kernel or the user leaves the
\* types, and the buffer keeps its limit.
THEOREM TypeCorrect == Spec => []TypeOK
<1> USE DaemonAssumption
<1>1. Init => TypeOK
  <2> SUFFICES ASSUME Init PROVE TypeOK
    OBVIOUS
  <2>1. queue \in Seq(Events) /\ Len(queue) <= QueueLimit
    BY DEF Init
  <2>2. /\ airplaneModeEnabled \in BOOLEAN /\ lastWifiState \in BOOLEAN
        /\ lastBluetoothState \in BOOLEAN /\ odd \in BOOLEAN
    BY DEF Init
  <2> QED
    BY <2>1, <2>2 DEF Init, TypeOK
<1>2. TypeOK /\ [Next]_vars => TypeOK'
  <2> SUFFICES ASSUME TypeOK, [Next]_vars PROVE TypeOK'
    OBVIOUS
  <2>1. ASSUME NEW e \in Events, Post(e) PROVE TypeOK'
    <3>1. /\ queue' = Append(queue, e) /\ Len(queue) < QueueLimit
          /\ queue \in Seq(Events) /\ QueueLimit \in Nat
      BY <2>1 DEF Post, TypeOK
    <3>2. queue' \in Seq(Events) /\ Len(queue') <= QueueLimit
      BY <3>1
    <3>3. odd' \in BOOLEAN
      BY <2>1 DEF Post, TypeOK
    <3> QED
      BY <2>1, <3>2, <3>3 DEF Post, TypeOK, flags, radios
  <2>2. CASE StartDaemon
    <3>1. /\ socket' \in {"none", "open", "deaf"}
          /\ pc' \in {"down", "recv"} \cup Handling
          /\ before' \in (BOOLEAN \X BOOLEAN) \cup {Nothing}
      BY <2>2 DEF StartDaemon
    <3>2. /\ airplaneModeEnabled' \in BOOLEAN /\ lastWifiState' \in BOOLEAN
          /\ lastBluetoothState' \in BOOLEAN /\ odd' \in BOOLEAN
      BY <2>2 DEF StartDaemon
    <3>3. queue' = <<>> /\ queue' \in Seq(Events) /\ Len(queue') <= QueueLimit
      BY <2>2 DEF StartDaemon
    <3> QED
      BY <2>2, <3>1, <3>2, <3>3 DEF StartDaemon, TypeOK, radios
  <2>3. CASE Crash
    <3>1. queue' = <<>> /\ queue' \in Seq(Events) /\ Len(queue') <= QueueLimit
      BY <2>3 DEF Crash
    <3> QED
      BY <2>3, <3>1 DEF Crash, TypeOK, flags, radios
  <2>4. CASE Receive
    <3>1. Head(queue) \in Events /\ Tail(queue) \in Seq(Events)
          /\ Len(Tail(queue)) <= QueueLimit
      BY <2>4 DEF Receive, TypeOK
    <3>2. radios \in BOOLEAN \X BOOLEAN
      BY DEF TypeOK, radios
    <3>3. pc' \in {"recv", "noteWifi", "setWifi"}
      BY <2>4 DEF Receive
    <3>4. airplaneModeEnabled' \in BOOLEAN
      BY <2>4 DEF Receive, TypeOK
    <3>5. before' \in (BOOLEAN \X BOOLEAN) \cup {Nothing}
      BY <2>4, <3>2 DEF Receive, TypeOK
    <3> QED
      BY <2>4, <3>1, <3>3, <3>4, <3>5 DEF Receive, TypeOK, Handling, radios
  <2>5. CASE Note
    BY <2>5 DEF Note, TypeOK, Handling, radios, ghosts
  <2>6. CASE SetWifi
    BY <2>6 DEF SetWifi, TypeOK, Handling, flags
  <2>7. CASE SetBluetooth
    BY <2>7 DEF SetBluetooth, TypeOK, Handling, flags, ghosts
  <2>8. CASE UserSwitch
    BY <2>8 DEF UserSwitch, TypeOK, flags
  <2>9. CASE UNCHANGED vars
    BY <2>9 DEF vars, flags, radios, ghosts, TypeOK
  <2> QED
    BY <2>1, <2>2, <2>3, <2>4, <2>5, <2>6, <2>7, <2>8, <2>9 DEF Next, Daemon
<1> QED
  BY <1>1, <1>2, PTL DEF Spec

LEMMA UnderwayInductive ==
  ASSUME TypeOK, Underway, [Next]_vars PROVE Underway'
<1> USE DEF Noted, Off, radios
<1>1. ASSUME NEW e \in Events, Post(e) PROVE Underway'
  BY <1>1 DEF Post, Underway, Between, BeingNoted, BeingSwitched, flags
<1>2. CASE StartDaemon
  BY <1>2 DEF StartDaemon, Underway, Between, BeingNoted, BeingSwitched
<1>3. CASE Crash
  BY <1>3 DEF Crash, Underway, Between, BeingNoted, BeingSwitched
<1>4. CASE Receive
  <2>1. CASE Head(queue) \in {"sleep", "other"}
    <3>1. UNCHANGED <<pc, airplaneModeEnabled, before, lastWifiState,
                      lastBluetoothState, wifi, bluetooth>>
      BY <1>4, <2>1 DEF Receive
    <3> QED
      BY <3>1 DEF Underway, Between, BeingNoted, BeingSwitched
  <2>2. CASE Head(queue) \in {"airplane", "twin"} /\ airplaneModeEnabled
    <3>1. /\ pc = "recv" /\ pc' = "setWifi"
          /\ airplaneModeEnabled' = FALSE /\ before' = before
          /\ UNCHANGED <<lastWifiState, lastBluetoothState, wifi, bluetooth>>
      BY <1>4, <2>2 DEF Receive
    <3> QED
      BY <2>2, <3>1 DEF Underway, Between, BeingNoted, BeingSwitched
  <2>3. CASE Head(queue) \in {"airplane", "twin"} /\ ~ airplaneModeEnabled
    <3>1. /\ pc = "recv" /\ pc' = "noteWifi"
          /\ airplaneModeEnabled' = TRUE /\ before' = radios
          /\ UNCHANGED <<lastWifiState, lastBluetoothState, wifi, bluetooth>>
      BY <1>4, <2>3 DEF Receive
    <3> QED
      BY <3>1 DEF Underway, Between, BeingNoted, BeingSwitched
  <2> QED
    BY <1>4, <2>1, <2>2, <2>3 DEF Receive
<1>5. CASE Note
  BY <1>5 DEF Note, Underway, Between, BeingNoted, BeingSwitched, ghosts
<1>6. CASE SetWifi
  BY <1>6 DEF SetWifi, Underway, Between, BeingNoted, BeingSwitched, flags
<1>7. CASE SetBluetooth
  <2>1. /\ pc = "setBluetooth" /\ pc' = "recv"
        /\ UNCHANGED <<airplaneModeEnabled, lastWifiState, lastBluetoothState,
                      wifi, before>>
    BY <1>7 DEF SetBluetooth, flags, ghosts
  <2>2. CASE airplaneModeEnabled
    <3>1. bluetooth' = FALSE
      BY <1>7, <2>2 DEF SetBluetooth
    <3>2. before # Nothing => wifi = FALSE /\ Noted = before
      BY <2>1, <2>2 DEF Underway, BeingSwitched
    <3> QED
      BY <2>1, <2>2, <3>1, <3>2 DEF Underway, Between, BeingNoted, BeingSwitched
  <2>3. CASE ~ airplaneModeEnabled
    <3>1. bluetooth' = lastBluetoothState
      BY <1>7, <2>3 DEF SetBluetooth, TypeOK
    <3>2. before # Nothing => wifi = lastWifiState /\ Noted = before
      BY <2>1, <2>3 DEF Underway, BeingSwitched, TypeOK
    <3> QED
      BY <2>1, <2>3, <3>1, <3>2 DEF Underway, Between, BeingNoted, BeingSwitched
  <2> QED
    BY <2>2, <2>3
<1>8. CASE UserSwitch
  BY <1>8 DEF UserSwitch, Underway, Between, BeingNoted, BeingSwitched, flags
<1>9. CASE UNCHANGED vars
  BY <1>9 DEF vars, flags, ghosts, Underway, Between, BeingNoted, BeingSwitched
<1> QED
  BY <1>1, <1>2, <1>3, <1>4, <1>5, <1>6, <1>7, <1>8, <1>9 DEF Next, Daemon

\* toggleAirplaneMode restores what it took: radios that only the daemon has
\* switched since airplane mode was entered are off in it, and as they were
\* before once it has been left.
THEOREM Restored == Spec => []RadiosRestored
<1>1. Init => Underway
  BY DEF Init, Underway, Between, BeingNoted, BeingSwitched
<1>2. Underway => RadiosRestored
  BY DEF Underway, Between, RadiosRestored, Off
<1> QED
  BY <1>1, <1>2, TypeCorrect, UnderwayInductive, PTL DEF Spec

-----------------------------------------------------------------------------
(***************************************************************************)
(* Presses are counted by their places in the buffer: an append adds one   *)
(* place, and taking the first event shifts the others down by one.        *)
(***************************************************************************)
Press == {"airplane", "twin"}
Presses(q) == {i \in 1 .. Len(q) : q[i] \in Press}

LEMMA PressesFinite ==
  ASSUME NEW q, Len(q) \in Nat
  PROVE IsFiniteSet(Presses(q)) /\ Cardinality(Presses(q)) \in Nat
<1>1. IsFiniteSet(1 .. Len(q))
  BY FS_Interval
<1>2. IsFiniteSet(Presses(q))
  BY <1>1, FS_Subset DEF Presses
<1>3. QED
  BY <1>2, FS_CardinalityType

LEMMA AppendCounts ==
  ASSUME NEW S, NEW q \in Seq(S), NEW e \in S
  PROVE Cardinality(Presses(Append(q, e))) =
          Cardinality(Presses(q)) + IF e \in Press THEN 1 ELSE 0
<1>1. IsFiniteSet(Presses(q)) /\ Cardinality(Presses(q)) \in Nat
  BY PressesFinite
<1>2. Len(q) + 1 \notin Presses(q)
  BY DEF Presses
<1>3. Presses(Append(q, e)) = IF e \in Press THEN Presses(q) \cup {Len(q) + 1}
                                             ELSE Presses(q)
  BY DEF Presses
<1>4. Cardinality(Presses(q) \cup {Len(q) + 1}) = Cardinality(Presses(q)) + 1
  BY <1>1, <1>2, FS_AddElement
<1>5. QED
  BY <1>1, <1>3, <1>4

LEMMA TailCounts ==
  ASSUME NEW S, NEW q \in Seq(S), q # <<>>
  PROVE Cardinality(Presses(q)) =
          Cardinality(Presses(Tail(q))) + IF Head(q) \in Press THEN 1 ELSE 0
<1> DEFINE rest == Presses(q) \ {1}
           shift == [i \in Presses(Tail(q)) |-> i + 1]
<1>1. /\ Len(q) \in Nat \ {0} /\ Len(Tail(q)) = Len(q) - 1
      /\ Head(q) = q[1] /\ \A i \in 1 .. Len(Tail(q)) : Tail(q)[i] = q[i + 1]
  OBVIOUS
<1>2. IsFiniteSet(Presses(q)) /\ Cardinality(Presses(q)) \in Nat
  BY <1>1, PressesFinite
<1>3. IsFiniteSet(Presses(Tail(q))) /\ Cardinality(Presses(Tail(q))) \in Nat
  BY <1>1, PressesFinite
<1>4. shift \in Bijection(Presses(Tail(q)), rest)
  <2>1. \A i \in Presses(Tail(q)) : i \in Nat /\ i + 1 \in rest
    BY <1>1 DEF Presses
  <2>2. \A j \in rest : j - 1 \in Presses(Tail(q)) /\ j = (j - 1) + 1
    BY <1>1 DEF Presses
  <2>3. shift \in Injection(Presses(Tail(q)), rest)
    BY <2>1 DEF Injection, IsInjective
  <2>4. shift \in Surjection(Presses(Tail(q)), rest)
    BY <2>1, <2>2 DEF Surjection
  <2>5. QED
    BY <2>3, <2>4 DEF Bijection
<1>5. Cardinality(rest) = Cardinality(Presses(Tail(q)))
  <2>1. shift \in Injection(Presses(Tail(q)), rest)
        /\ shift \in Surjection(Presses(Tail(q)), rest)
    BY <1>4 DEF Bijection
  <2>2. IsFiniteSet(rest)
    BY <1>2, FS_RemoveElement
  <2>3. QED
    BY <2>1, <2>2, FS_Injection
<1>6. Cardinality(rest) = IF 1 \in Presses(q) THEN Cardinality(Presses(q)) - 1
                                              ELSE Cardinality(Presses(q))
  BY <1>2, FS_RemoveElement
<1>7. 1 \in Presses(q) <=> Head(q) \in Press
  BY <1>1 DEF Presses
<1>8. QED
  BY <1>2, <1>3, <1>5, <1>6, <1>7

LEMMA OddNext == ASSUME NEW n \in Nat PROVE Odd(n + 1) = ~ Odd(n)
  BY DEF Odd

LEMMA CountKept == ASSUME TypeOK, NoPressLost, [Next]_vars PROVE NoPressLost'
<1> USE DEF NoPressLost
<1>1. /\ queue \in Seq(Events) /\ Waiting = Presses(queue)
      /\ odd \in BOOLEAN /\ airplaneModeEnabled \in BOOLEAN
  BY DEF TypeOK, Waiting, Presses, Press
<1>2. ASSUME UNCHANGED <<socket, queue, airplaneModeEnabled, odd>> PROVE NoPressLost'
  BY <1>2 DEF Waiting
<1>3. ASSUME NEW e \in Events, Post(e) PROVE NoPressLost'
  <2>1. /\ queue' = Append(queue, e) /\ socket = "open"
        /\ airplaneModeEnabled' = airplaneModeEnabled
        /\ odd' = IF e \in Press THEN ~ odd ELSE odd
    BY <1>3 DEF Post, flags, Press
  <2>2. Waiting' = Presses(Append(queue, e))
    BY <1>1, <2>1 DEF Waiting, Presses, Press
  <2>3. Cardinality(Presses(queue)) \in Nat
    BY <1>1, PressesFinite
  <2>4. Odd(Cardinality(Waiting')) = IF e \in Press THEN ~ Odd(Cardinality(Waiting))
                                                    ELSE Odd(Cardinality(Waiting))
    BY <1>1, <2>2, <2>3, AppendCounts, OddNext
  <2>5. airplaneModeEnabled = (odd # Odd(Cardinality(Waiting)))
    BY <2>1
  <2>6. QED
    BY <1>1, <2>1, <2>4, <2>5 DEF Odd
<1>4. CASE Receive
  <2>1. /\ queue # <<>> /\ queue' = Tail(queue) /\ socket = "open" /\ odd' = odd
        /\ airplaneModeEnabled' = IF Head(queue) \in Press THEN ~ airplaneModeEnabled
                                                          ELSE airplaneModeEnabled
    BY <1>4 DEF Receive, Press
  <2>2. Waiting' = Presses(Tail(queue))
    BY <1>1, <2>1 DEF Waiting, Presses, Press
  <2>3. Cardinality(Presses(Tail(queue))) \in Nat
    BY <1>1, <2>1, PressesFinite
  <2>4. Odd(Cardinality(Waiting)) = IF Head(queue) \in Press
                                    THEN ~ Odd(Cardinality(Waiting'))
                                    ELSE Odd(Cardinality(Waiting'))
    <3>1. Cardinality(Presses(queue)) =
            Cardinality(Presses(Tail(queue))) + IF Head(queue) \in Press THEN 1 ELSE 0
      BY <1>1, <2>1, TailCounts
    <3>2. Odd(Cardinality(Presses(Tail(queue))) + 1) = ~ Odd(Cardinality(Presses(Tail(queue))))
      BY <2>3, OddNext
    <3>3. QED
      BY <1>1, <2>2, <2>3, <3>1, <3>2
  <2>5. airplaneModeEnabled = (odd # Odd(Cardinality(Waiting)))
    BY <2>1
  <2>6. QED
    BY <1>1, <2>1, <2>4, <2>5 DEF Odd
<1>5. CASE StartDaemon
  <2>1. queue' = <<>> /\ airplaneModeEnabled' = FALSE /\ odd' = FALSE
    BY <1>5 DEF StartDaemon
  <2>2. Waiting' = {}
    BY <2>1 DEF Waiting
  <2>3. Cardinality(Waiting') = 0
    BY <2>2, FS_EmptySet
  <2>4. ~ Odd(Cardinality(Waiting'))
    BY <2>3 DEF Odd
  <2>5. QED
    BY <2>1, <2>4 DEF Odd
<1>6. CASE Crash
  BY <1>6 DEF Crash
<1>7. CASE Note
  BY <1>2, <1>7 DEF Note, ghosts
<1>8. CASE SetWifi
  BY <1>2, <1>8 DEF SetWifi, flags
<1>9. CASE SetBluetooth
  BY <1>2, <1>9 DEF SetBluetooth, flags, ghosts
<1>10. CASE UserSwitch
  BY <1>2, <1>10 DEF UserSwitch, flags
<1>11. CASE UNCHANGED vars
  BY <1>2, <1>11 DEF vars, flags, ghosts
<1>12. QED
  BY <1>3, <1>4, <1>5, <1>6, <1>7, <1>8, <1>9, <1>10, <1>11 DEF Next, Daemon

\* Whatever the buffer's size, whoever posts and whenever the daemon dies: the
\* mode is what the presses that reached the socket make it.
THEOREM PressesCounted == Spec => []NoPressLost
<1>1. Init => NoPressLost
  BY DEF Init, NoPressLost
<1> QED
  BY <1>1, TypeCorrect, CountKept, PTL DEF Spec

-----------------------------------------------------------------------------
(***************************************************************************)
(* AirplaneDaemon implements AirplaneSwitch.  Of the four steps of a       *)
(* toggle one is Enter or Leave, and the others change nothing it sees.    *)
(***************************************************************************)
Seen == <<Alive, InMode, WifiSeen, BluetoothSeen, NotesSeen, hand>>

\* A step that leaves the toggle where it is and moves no radio is not seen.
LEMMA Unseen ==
  ASSUME UNCHANGED <<pc, flags, radios, hand>> PROVE UNCHANGED Seen
  BY DEF Seen, Alive, InMode, WifiSeen, BluetoothSeen, NotesSeen, flags, radios

\* The first note is not seen, the second one is the instant of entering.
LEMMA NoteSeen ==
  ASSUME TypeOK, Underway, Note PROVE UNCHANGED Seen \/ Switch!Enter
<1>1. airplaneModeEnabled /\ airplaneModeEnabled' = airplaneModeEnabled /\ hand' = hand
  BY DEF Note, Underway, BeingNoted, ghosts
<1>2. CASE pc = "noteWifi"
  <2>1. pc' = "noteBluetooth" /\ lastWifiState' = wifi /\ bluetooth' = bluetooth
    BY <1>2 DEF Note, radios
  <2>2. ~ InMode /\ ~ InMode' /\ NotesSeen = Nothing /\ NotesSeen' = Nothing
    BY <1>2, <2>1 DEF InMode, NotesSeen
  <2>3. WifiSeen' = WifiSeen /\ BluetoothSeen' = BluetoothSeen
    BY <1>2, <2>1 DEF WifiSeen, BluetoothSeen
  <2> QED
    BY <1>1, <1>2, <2>1, <2>2, <2>3 DEF Seen, Alive, InMode
<1>3. CASE pc = "noteBluetooth"
  <2>1. /\ pc' = "setWifi" /\ lastWifiState' = lastWifiState
        /\ lastBluetoothState' = bluetooth
    BY <1>3 DEF Note
  <2>2. InMode = FALSE /\ InMode' = TRUE
    BY <1>1, <1>3, <2>1 DEF InMode
  <2>3. WifiSeen = lastWifiState /\ BluetoothSeen = bluetooth
    BY <1>3 DEF WifiSeen, BluetoothSeen
  <2>4. WifiSeen' = FALSE /\ BluetoothSeen' = FALSE
    BY <1>1, <2>1 DEF WifiSeen, BluetoothSeen
  <2>5. NotesSeen' = <<lastWifiState, bluetooth>>
    BY <2>1, <2>2 DEF NotesSeen
  <2> QED
    BY <1>1, <1>3, <2>1, <2>2, <2>3, <2>4, <2>5 DEF Switch!Enter, Switch!radios, Alive
<1> QED
  BY <1>2, <1>3 DEF Note

\* A press that begins airplane mode is not seen yet, one that ends it is the
\* instant of leaving, and other events are not seen at all.
LEMMA ReceiveSeen ==
  ASSUME TypeOK, Receive PROVE UNCHANGED Seen \/ Switch!Leave
<1>1. /\ pc = "recv" /\ hand' = hand
      /\ UNCHANGED <<lastWifiState, lastBluetoothState, wifi, bluetooth>>
  BY DEF Receive, radios
<1>2. CASE UNCHANGED <<airplaneModeEnabled, pc>>
  BY <1>1, <1>2, Unseen DEF flags, radios
<1>3. CASE airplaneModeEnabled = FALSE /\ pc' = "noteWifi"
  BY <1>1, <1>3 DEF Seen, Alive, InMode, WifiSeen, BluetoothSeen, NotesSeen
<1>4. CASE airplaneModeEnabled = TRUE /\ airplaneModeEnabled' = FALSE /\ pc' = "setWifi"
  <2>1. InMode = TRUE /\ InMode' = FALSE
    BY <1>1, <1>4 DEF InMode
  <2>2. NotesSeen = <<lastWifiState, lastBluetoothState>> /\ NotesSeen' = Nothing
    BY <2>1 DEF NotesSeen
  <2>3. WifiSeen' = lastWifiState /\ BluetoothSeen' = lastBluetoothState
    BY <1>1, <1>4 DEF WifiSeen, BluetoothSeen, TypeOK
  <2> QED
    BY <1>1, <1>4, <2>1, <2>2, <2>3 DEF Switch!Leave, Switch!radios, Alive
<1> QED
  BY <1>2, <1>3, <1>4 DEF Receive, TypeOK

\* A setPower that succeeds was seen before it came; one that fails is a hand.
LEMMA SetSeen ==
  ASSUME TypeOK, SetWifi \/ SetBluetooth PROVE UNCHANGED Seen \/ Switch!Hand
<1>1. UNCHANGED flags /\ Alive' = Alive /\ InMode' = InMode /\ NotesSeen' = NotesSeen
  <2>1. UNCHANGED flags
    BY DEF SetWifi, SetBluetooth
  <2>2. InMode' = InMode
    BY <2>1 DEF SetWifi, SetBluetooth, InMode, flags
  <2>3. Alive' = Alive
    BY DEF SetWifi, SetBluetooth, Alive
  <2> QED
    BY <2>1, <2>2, <2>3 DEF NotesSeen, flags
<1>2. CASE SetWifi
  <2>1. BluetoothSeen' = BluetoothSeen
    BY <1>1, <1>2 DEF SetWifi, BluetoothSeen, flags
  <2>2. WifiSeen = (~ airplaneModeEnabled /\ lastWifiState) /\ WifiSeen' = wifi'
    BY <1>2 DEF SetWifi, WifiSeen
  <2>3. CASE wifi' = (~ airplaneModeEnabled /\ lastWifiState) /\ hand' = hand
    BY <1>1, <2>1, <2>2, <2>3 DEF Seen
  <2>4. CASE wifi' = wifi /\ hand' = ~ hand
    <3>1. WifiSeen' \in BOOLEAN
      BY <2>2, <2>4 DEF TypeOK
    <3> QED
      BY <1>1, <2>1, <2>4, <3>1 DEF Switch!Hand
  <2> QED
    BY <1>2, <2>3, <2>4 DEF SetWifi
<1>3. CASE SetBluetooth
  <2>1. WifiSeen' = WifiSeen /\ hand' = hand
    BY <1>3 DEF SetBluetooth, WifiSeen, ghosts
  <2>2. BluetoothSeen' = BluetoothSeen
    BY <1>3 DEF SetBluetooth, BluetoothSeen
  <2> QED
    BY <1>1, <2>1, <2>2 DEF Seen
<1> QED
  BY <1>2, <1>3

\* A switch by the user is a hand, overruled if the radio is settled already.
LEMMA UserSeen ==
  ASSUME TypeOK, UserSwitch PROVE Switch!Hand
<1>1. /\ UNCHANGED <<pc, flags>> /\ hand' = ~ hand
      /\ Alive' = Alive /\ InMode' = InMode /\ NotesSeen' = NotesSeen
  BY DEF UserSwitch, Alive, InMode, NotesSeen, flags
<1>2. WifiSeen' \in BOOLEAN /\ BluetoothSeen' \in BOOLEAN
  <2>1. wifi' \in BOOLEAN /\ bluetooth' \in BOOLEAN
    BY DEF UserSwitch, TypeOK
  <2>2. lastWifiState' \in BOOLEAN /\ lastBluetoothState' \in BOOLEAN
    BY <1>1 DEF flags, TypeOK
  <2> QED
    BY <2>1, <2>2 DEF WifiSeen, BluetoothSeen
<1>3. CASE UNCHANGED bluetooth
  <2>1. BluetoothSeen' = BluetoothSeen
    BY <1>1, <1>3 DEF BluetoothSeen, flags
  <2> QED
    BY <1>1, <1>2, <2>1 DEF Switch!Hand
<1>4. CASE UNCHANGED wifi
  <2>1. WifiSeen' = WifiSeen
    BY <1>1, <1>4 DEF WifiSeen, flags
  <2> QED
    BY <1>1, <1>2, <2>1 DEF Switch!Hand
<1> QED
  BY <1>3, <1>4 DEF UserSwitch

\* A death is a death, and a fresh process a start.
LEMMA DeathSeen ==
  ASSUME TypeOK, Crash \/ StartDaemon PROVE Switch!Die \/ Switch!Start
<1>1. CASE Crash
  <2>1. pc # "down" /\ pc' = "down" /\ UNCHANGED radios /\ hand' = hand
    BY <1>1 DEF Crash
  <2>2. InMode' = FALSE
    BY <2>1 DEF InMode
  <2>3. /\ NotesSeen' = Nothing
        /\ WifiSeen' \in BOOLEAN /\ BluetoothSeen' \in BOOLEAN
    BY <2>1, <2>2 DEF NotesSeen, WifiSeen, BluetoothSeen, radios, TypeOK
  <2> QED
    BY <2>1, <2>2, <2>3 DEF Switch!Die, Alive
<1>2. CASE StartDaemon
  <2>1. /\ pc = "down" /\ pc' = "recv" /\ airplaneModeEnabled' = FALSE
        /\ UNCHANGED radios /\ hand' = hand
    BY <1>2 DEF StartDaemon
  <2>2. InMode = FALSE /\ InMode' = FALSE
    BY <2>1 DEF InMode
  <2>3. WifiSeen' = WifiSeen /\ BluetoothSeen' = BluetoothSeen
    BY <2>1 DEF WifiSeen, BluetoothSeen, radios
  <2> QED
    BY <2>1, <2>2, <2>3 DEF Switch!Start, Switch!radios, Alive, NotesSeen
<1> QED
  BY <1>1, <1>2

\* toggleAirplaneMode is as good as atomic, whatever the user switches between
\* its steps and whenever the daemon dies: the daemon implements AirplaneSwitch.
THEOREM Atomic == Spec => TogglesAtomic
<1>1. Init => Switch!Init
  BY DEF Init, Switch!Init, Alive, InMode, WifiSeen, BluetoothSeen, NotesSeen
<1>2. Init => Underway
  BY DEF Init, Underway, Between, BeingNoted, BeingSwitched
<1>3. TypeOK /\ Underway /\ [Next]_vars => [Switch!Next]_Switch!vars
  <2> SUFFICES ASSUME TypeOK, Underway, [Next]_vars
               PROVE  UNCHANGED Seen \/ Switch!Next
    BY DEF Seen, Switch!vars, Switch!radios
  <2>1. ASSUME NEW e \in Events, Post(e) PROVE UNCHANGED Seen
    BY <2>1, Unseen DEF Post
  <2>2. CASE UNCHANGED vars
    BY <2>2, Unseen DEF vars, ghosts
  <2> QED
    BY <2>1, <2>2, NoteSeen, ReceiveSeen, SetSeen, UserSeen, DeathSeen
       DEF Next, Daemon, Switch!Next
<1> QED
  BY <1>1, <1>2, <1>3, TypeCorrect, UnderwayInductive, PTL
     DEF Spec, TogglesAtomic, Switch!Spec

=============================================================================
