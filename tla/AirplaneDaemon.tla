--------------------------- MODULE AirplaneDaemon ---------------------------
(***************************************************************************)
(* Airplane mode and sleep: the driver posts kernel events, AsusSMCDaemon  *)
(* in user space receives them on a system socket and acts.                *)
(*                                                                         *)
(* The daemon asks the kernel for the events of every vendor and class, so *)
(* what other parts of the kernel post shares the socket's buffer with the *)
(* driver's.  A toggle of airplane mode first inverts a flag, then notes   *)
(* the state of both radios and switches them off, or switches them back   *)
(* to what it noted; the user may switch a radio between any two steps.    *)
(* The flag and the notes are variables of the process: launchd starts a   *)
(* daemon that died again (KeepAlive), and the new one begins afresh.      *)
(*                                                                         *)
(* External: the kernel's event queue of the socket, the two radios and    *)
(* their user, launchd.  Left out: the keyboard backlight display (the     *)
(* driver never sends that event) and how sleep is brought about.  A post  *)
(* the kernel drops (no memory, no socket, a full buffer) changes nothing  *)
(* here: it is a stuttering step, as the driver ignores its result.        *)
(***************************************************************************)
EXTENDS Naturals, Sequences, FiniteSets

CONSTANTS
  QueueLimit,   \* events the socket's buffer holds
  Twins,        \* whether some vendor uses the driver's event code and size
  Nothing

ASSUME DaemonAssumption ==
  QueueLimit \in Nat \ {0} /\ Twins \in BOOLEAN /\ Nothing \notin BOOLEAN \X BOOLEAN

VARIABLES
  socket,               \* of the daemon: none, open, or not created ("deaf")
  queue,                \* events in the socket's buffer
  pc,                   \* where the daemon is
  airplaneModeEnabled, lastWifiState, lastBluetoothState,
  wifi, bluetooth,      \* whether each radio is on
  odd,                  \* ghost: parity of airplane events put in this queue
  before,               \* ghost: the radios when airplane mode was entered, if
                        \* since then only the daemon has switched them
  source,               \* ghost: who posted the event handled last
  hand                  \* ghost: changes when another than the daemon switches
                        \* a radio, or the daemon's setPower fails

flags == <<airplaneModeEnabled, lastWifiState, lastBluetoothState>>
radios == <<wifi, bluetooth>>
ghosts == <<odd, before, source, hand>>
vars == <<socket, queue, pc, flags, radios, ghosts>>

\* What a kernel event may be: the driver's two, another vendor's, and one of
\* another vendor that looks like the driver's.
Events == {"airplane", "sleep", "other"} \cup (IF Twins THEN {"twin"} ELSE {})
Handling == {"noteWifi", "noteBluetooth", "setWifi", "setBluetooth"}

Odd(n) == n % 2 = 1
Waiting == {i \in DOMAIN queue : queue[i] \in {"airplane", "twin"}}

TypeOK ==
  /\ socket \in {"none", "open", "deaf"}
  /\ queue \in Seq(Events) /\ Len(queue) <= QueueLimit
  /\ pc \in {"down", "recv"} \cup Handling
  /\ airplaneModeEnabled \in BOOLEAN /\ lastWifiState \in BOOLEAN
  /\ lastBluetoothState \in BOOLEAN
  /\ wifi \in BOOLEAN /\ bluetooth \in BOOLEAN
  /\ odd \in BOOLEAN
  /\ before \in (BOOLEAN \X BOOLEAN) \cup {Nothing}
  /\ source \in Events \cup {"none"}
  /\ hand \in BOOLEAN
  /\ (socket # "open") => queue = <<>>

Init ==
  /\ socket = "none" /\ queue = <<>> /\ pc = "down"
  /\ airplaneModeEnabled = FALSE /\ lastWifiState = FALSE
  /\ lastBluetoothState = FALSE
  /\ wifi \in BOOLEAN /\ bluetooth \in BOOLEAN
  /\ odd = FALSE /\ before = Nothing /\ source = "none" /\ hand = FALSE

-----------------------------------------------------------------------------
(***************************************************************************)
(* The kernel's side.                                                      *)
(***************************************************************************)

\* A plausible slip: the buffer's limit is not kept.
PostUnbounded(e) ==
  /\ socket = "open" /\ Len(queue) <= QueueLimit
  /\ queue' = Append(queue, e)
  /\ odd' = IF e \in {"airplane", "twin"} THEN ~ odd ELSE odd
  /\ UNCHANGED <<socket, pc, flags, radios, before, source, hand>>

\* letSleep and toggleAirplaneMode of the driver through sendMessage, or a post
\* by somebody else.
Post(e) ==
  /\ socket = "open" /\ Len(queue) < QueueLimit
  /\ queue' = Append(queue, e)
  /\ odd' = IF e \in {"airplane", "twin"} THEN ~ odd ELSE odd
  /\ UNCHANGED <<socket, pc, flags, radios, before, source, hand>>

-----------------------------------------------------------------------------
(***************************************************************************)
(* The daemon.                                                             *)
(***************************************************************************)

\* main: a fresh process; the result of socket() is not looked at.
StartDaemon ==
  /\ pc = "down"
  /\ pc' = "recv"
  /\ socket' \in {"open", "deaf"} /\ queue' = <<>>
  /\ airplaneModeEnabled' = FALSE /\ lastWifiState' = FALSE
  /\ lastBluetoothState' = FALSE
  /\ odd' = FALSE /\ before' = Nothing
  /\ UNCHANGED <<radios, source, hand>>

\* The process dies, and its socket with it; launchd will start it again.
Crash ==
  /\ pc # "down"
  /\ pc' = "down" /\ socket' = "none" /\ queue' = <<>>
  /\ before' = Nothing
  /\ UNCHANGED <<flags, radios, odd, source, hand>>

\* A plausible slip: events that came while one was handled are thrown away.
ReceiveDrains ==
  /\ pc = "recv" /\ socket = "open" /\ queue # <<>>
  /\ queue' = <<>> /\ source' = Head(queue)
  /\ \/ /\ Head(queue) \in {"airplane", "twin"}
        /\ airplaneModeEnabled' = ~ airplaneModeEnabled
        /\ before' = IF airplaneModeEnabled THEN before ELSE radios
        /\ pc' = IF airplaneModeEnabled THEN "setWifi" ELSE "noteWifi"
     \/ /\ Head(queue) \in {"sleep", "other"}
        /\ UNCHANGED <<airplaneModeEnabled, before, pc>>
  /\ UNCHANGED <<socket, lastWifiState, lastBluetoothState, radios, odd, hand>>

\* A plausible slip: an event that is not the driver's stays in the socket.
ReceivePeeks ==
  /\ pc = "recv" /\ socket = "open" /\ queue # <<>>
  /\ queue' = IF Head(queue) = "other" THEN queue ELSE Tail(queue)
  /\ source' = Head(queue)
  /\ \/ /\ Head(queue) \in {"airplane", "twin"}
        /\ airplaneModeEnabled' = ~ airplaneModeEnabled
        /\ before' = IF airplaneModeEnabled THEN before ELSE radios
        /\ pc' = IF airplaneModeEnabled THEN "setWifi" ELSE "noteWifi"
     \/ /\ Head(queue) \in {"sleep", "other"}
        /\ UNCHANGED <<airplaneModeEnabled, before, pc>>
  /\ UNCHANGED <<socket, lastWifiState, lastBluetoothState, radios, odd, hand>>

\* recv, the filter on size and event code, and the switch on the type;
\* toggleAirplaneMode inverts its flag first.  On a socket that was never
\* created recv fails at once and for ever.
Receive ==
  /\ pc = "recv" /\ socket = "open" /\ queue # <<>>
  /\ queue' = Tail(queue) /\ source' = Head(queue)
  /\ \/ /\ Head(queue) \in {"airplane", "twin"}
        /\ airplaneModeEnabled' = ~ airplaneModeEnabled
        /\ before' = IF airplaneModeEnabled THEN before ELSE radios
        /\ pc' = IF airplaneModeEnabled THEN "setWifi" ELSE "noteWifi"
     \/ /\ Head(queue) \in {"sleep", "other"}
        /\ UNCHANGED <<airplaneModeEnabled, before, pc>>
  /\ UNCHANGED <<socket, lastWifiState, lastBluetoothState, radios, odd, hand>>

\* A plausible slip: Bluetooth is waited for before its state is noted.
NoteWaits ==
  /\ \/ pc = "noteWifi" /\ pc' = "noteBluetooth"
        /\ lastWifiState' = wifi /\ UNCHANGED lastBluetoothState
     \/ pc = "noteBluetooth" /\ bluetooth /\ pc' = "setWifi"
        /\ lastBluetoothState' = bluetooth /\ UNCHANGED lastWifiState
  /\ UNCHANGED <<socket, queue, airplaneModeEnabled, radios, ghosts>>

\* The states of the radios are noted, the wireless LAN's first.
Note ==
  /\ \/ pc = "noteWifi" /\ pc' = "noteBluetooth"
        /\ lastWifiState' = wifi /\ UNCHANGED lastBluetoothState
     \/ pc = "noteBluetooth" /\ pc' = "setWifi"
        /\ lastBluetoothState' = bluetooth /\ UNCHANGED lastWifiState
  /\ UNCHANGED <<socket, queue, airplaneModeEnabled, radios, ghosts>>

\* A plausible slip: the two notes are mixed up.
SetWifiMixedUp ==
  /\ pc = "setWifi" /\ pc' = "setBluetooth"
  /\ \/ /\ wifi' = (~ airplaneModeEnabled /\ lastBluetoothState)
        /\ UNCHANGED <<before, hand>>
     \/ UNCHANGED wifi /\ before' = Nothing /\ hand' = ~ hand
  /\ UNCHANGED <<socket, queue, flags, bluetooth, odd, source>>

\* setPower, whose error is not looked at.
SetWifi ==
  /\ pc = "setWifi" /\ pc' = "setBluetooth"
  /\ \/ /\ wifi' = (~ airplaneModeEnabled /\ lastWifiState)
        /\ UNCHANGED <<before, hand>>
     \/ UNCHANGED wifi /\ before' = Nothing /\ hand' = ~ hand
  /\ UNCHANGED <<socket, queue, flags, bluetooth, odd, source>>

\* A plausible slip: leaving airplane mode always switches Bluetooth on.
SetBluetoothOn ==
  /\ pc = "setBluetooth" /\ pc' = "recv"
  /\ bluetooth' = ~ airplaneModeEnabled
  /\ UNCHANGED <<socket, queue, flags, wifi, ghosts>>

SetBluetooth ==
  /\ pc = "setBluetooth" /\ pc' = "recv"
  /\ bluetooth' = (~ airplaneModeEnabled /\ lastBluetoothState)
  /\ UNCHANGED <<socket, queue, flags, wifi, ghosts>>

\* The user switches a radio.
UserSwitch ==
  /\ \/ wifi' = ~ wifi /\ UNCHANGED bluetooth
     \/ bluetooth' = ~ bluetooth /\ UNCHANGED wifi
  /\ before' = Nothing /\ hand' = ~ hand
  /\ UNCHANGED <<socket, queue, pc, flags, odd, source>>

-----------------------------------------------------------------------------
Daemon == Receive \/ Note \/ SetWifi \/ SetBluetooth
Next ==
  \/ \E e \in Events : Post(e)
  \/ StartDaemon \/ Crash \/ Daemon \/ UserSwitch

Spec == Init /\ [][Next]_vars

\* The daemon runs, and launchd starts it when it has died.
FairSpec == Spec /\ WF_vars(Daemon) /\ WF_vars(StartDaemon)

-----------------------------------------------------------------------------
(***************************************************************************)
(* Properties.                                                             *)
(***************************************************************************)

\* No press that reached the socket is lost or counted twice: the mode is what
\* the presses make it, those still waiting in the socket aside.
NoPressLost ==
  socket = "open" => airplaneModeEnabled = (odd # Odd(Cardinality(Waiting)))

\* toggleAirplaneMode undone by the next press: radios that only the daemon
\* has switched are off in airplane mode, and after it as they were before,
\* however many events, sleeps and presses came between.
RadiosRestored ==
  (pc = "recv" /\ before # Nothing) =>
     radios = IF airplaneModeEnabled THEN <<FALSE, FALSE>> ELSE before

\* How AirplaneSwitch sees the daemon.  A toggle happens when its outcome is
\* settled: with the second note, or with the press that ends airplane mode.
\* From then on a radio counts as switched, though setPower is still to come;
\* and a radio that is noted counts as it was noted.
Alive == pc # "down"
InMode == airplaneModeEnabled /\ pc \in {"setWifi", "setBluetooth", "recv"}
WifiSeen ==
  IF pc = "noteBluetooth" THEN lastWifiState
  ELSE IF pc = "setWifi" THEN ~ airplaneModeEnabled /\ lastWifiState
  ELSE wifi
BluetoothSeen ==
  IF pc \in {"setWifi", "setBluetooth"} THEN ~ airplaneModeEnabled /\ lastBluetoothState
  ELSE bluetooth
NotesSeen == IF InMode THEN <<lastWifiState, lastBluetoothState>> ELSE Nothing
Switch == INSTANCE AirplaneSwitch
  WITH None <- Nothing, alive <- Alive, mode <- InMode, noted <- NotesSeen,
       wifi <- WifiSeen, bluetooth <- BluetoothSeen

\* toggleAirplaneMode is as good as atomic: whatever the user switches between
\* its steps, each toggle notes, switches off or puts back both radios as they
\* were at one instant, and nobody but the user moves them between toggles.
TogglesAtomic == Switch!Spec

\* A toggle never stays half done: it is finished, or the daemon dies.
ToggleEnds == pc \in Handling ~> pc \in {"recv", "down"}

\* A full buffer, at which presses are lost, never stays full: the daemon takes
\* events out whoever posted them, and does not wait for a radio.
SocketDrains == Len(queue) = QueueLimit ~> Len(queue) < QueueLimit

\* main.m:203: "only care about events sent by AsusSMC".
OnlyOwnEvents == source # "twin"

=============================================================================
