# AsusSMC in TLA+

AsusSMC is a macOS kernel extension for Asus laptops: it turns ACPI
notifications of the ATK device into key presses of a virtual Apple keyboard,
serves ambient light, fan, keyboard backlight and battery keys of the emulated
SMC, and tells a user-space daemon to put the machine to sleep or to switch its
radios off. This directory holds a TLA+ model of it, TLC runs and TLAPS proofs.

## The system

| Part | Source | State it keeps | Operations | Talks to |
|---|---|---|---|---|
| Event handling | `AsusSMC.cpp` `message`, `handleMessage` | – | one handler per ACPI notification (direct, or through `_WED`) | everything below |
| Touchpad, notifications | `AsusSMC.cpp` 582-594, 757-809 | `isTouchpadEnabled`, `_notificationServices`, registry property | `toggleTouchpad`, `dispatchMessage`, `notificationHandler` | consumers (other drivers) by `message()`, under the command gate |
| HID reports, display off | `AsusSMC.cpp` 618-755, `HIDReport.hpp` | `csmrreport`, `tcreport`, `isPanelBackLightOn`, `panelBrightnessLevel` | `dispatchCSMRReport`, `dispatchTCReport`, `displayOff`, `readPanelBrightnessValue` | virtual keyboard, IORegistry |
| Virtual keyboard | `VirtualAppleKeyboard.*` | constant descriptors | `handleReport` of IOHIDDevice | macOS HID system |
| Sensors | `AsusSMC.cpp` 277-377, 426-480, 880-923 | `currentLux`, `currentFanSpeed`, `isALSEnabled`, `isTACHAvailable`, timer | `refreshALS`, `refreshFan`, one-shot timer | ACPI, VirtualSMC |
| SMC keys | `KeyImplementations.*`, `registerVSMC` | data of `ALV0`, `AL!`, `F0Ac`, `LKSB`, `BDVT` | `readAccess`, `update` | VirtualSMC and its clients |
| WMI, battery | `AsusSMC.cpp` 176-275, 379-390, 596-616 | `wmi_method`, `isBatteryRSOCAvailable`, registry property | `wmi_evaluate_method`, `toggleBatteryConservativeMode`, `toggleALS` | ACPI |
| Driver life cycle | `AsusSMC.cpp` 16-139 | gate, work loop, notifiers, keyboard | `init`, `probe`, `start`, `stop` | IOKit |
| Kernel events | `KernEventServer.*` | vendor and event code | `sendMessage` | daemon, through a system socket |
| Daemon | `AsusSMCDaemon/main.m` | `airplaneModeEnabled`, last Wi-Fi and Bluetooth state | receive loop, `toggleAirplaneMode`, `goToSleep` | CoreWLAN, IOBluetooth |
| Build, install, DSDT patches | `Scripts/`, `patches/`, `*.sh` | – | – | – |

Events come in on threads of the ACPI platform (`message`), notifications of
consumers on IOKit's own threads, the timer runs on the work loop, SMC keys are
read and written on threads of VirtualSMC's clients, and the daemon is a process
of its own. The command gate orders notifications and rounds of messages; the
readings pass through two atomics; everything else the threads share is bare.

What is hard here, and what would make each part correct:

- **Touchpad**: two toggles overlap between the two rounds of messages, and
  consumers come and go meanwhile. Correct: the set of consumers never changes
  under an iterator, consumers and flag agree in the end, a press inverts what
  the consumers really are in, a round misses no member, and whoever comes or
  goes is heard of in the end.
- **HID reports**: handlers insert into and erase from shared arrays without a
  lock, a post may fail, and macOS works off presses later than `displayOff`
  believes. Two handlers may double, overwrite or drop each other's keys, and post
  a copy that is out of date. Correct: nothing of that stays behind, the next
  stroke that is alone is seen as it should be, the host takes the bytes for the
  keys the driver means, the display comes back as bright as it was.
- **Sensors**: the timer arms itself again from its own action; the ALS key
  changes `isALSEnabled` between a reading and its store; values outgrow their
  words. Correct: polling never stops, the ALS key takes effect, clients that
  trust the interrupt see the settled light, the fan's speed reaches its key.
- **Kernel events and daemon**: events are dropped without a trace, the daemon
  dies and restarts without its memory, the user switches radios in the middle of
  a toggle. Correct: no received press is lost or doubled, airplane mode is
  undone by the next press, the daemon always comes back to its socket.
- **SMC keys that write through** (`BDVT`, `LKSB`): the call behind a write fails
  and the data is stored all the same. Correct: key and firmware agree after a
  call that succeeded.
- **Life cycle**: notifications, events and VirtualSMC meet a driver that is half
  built or half torn down. Correct: no gate, notifier or set is used before it
  exists or after it is gone, and no consumer is missed.

`PROJECT.json` lists the hazards line by line with the properties aimed at them.

## The modules

| Module | Models | Checked by | Proofs |
|---|---|---|---|
| `Touchpad` | `toggleTouchpad`, the two gated operations, consumers | `MCTouchpad`, `MCDriverBoot` | `TouchpadProofs` |
| `Broadcast` | abstract: one message reaches exactly the members of one instant, or nobody | through `Touchpad` | through `TouchpadProofs` |
| `DriverBoot` | `probe`, `start`, `registerNotifications`, `stop`, around `Touchpad` | `MCDriverBoot` | `DriverBootProofs` |
| `SensorPolling` | device search, timer, `refreshALS`, `refreshFan`, keys `ALV0`, `AL!`, `F0Ac` | `MCSensorPolling` | `SensorPollingProofs` |
| `FnKeys` | `handleMessage`, reports and their key arrays, `displayOff` | `MCFnKeys` | `FnKeysProofs`, `DisplayOffProofs` |
| `KeyStrokes` | abstract: keys pressed and released, as often as ordered | through `FnKeys` | through `FnKeysProofs` |
| `HidReports` | the arrays of `HIDReport.hpp` place by place, as unlocked handlers share them, their posts, the report descriptor, how a host reads one by the other | `MCHidReports` | `HidReportsProofs` |
| `WmiDevice` | `parse_WDG`, `wmi_evaluate_method`, `initBattery`, keys `BDVT` and `LKSB` | `MCWmiDevice` | `WmiDeviceProofs` |
| `AirplaneDaemon` | `sendMessage`, the daemon's loop and `toggleAirplaneMode` | `MCAirplaneDaemon` | `AirplaneDaemonProofs` |
| `AirplaneSwitch` | abstract: airplane mode entered and left at one instant | through `AirplaneDaemon` | through `AirplaneDaemonProofs` |

`DriverBoot` extends `Touchpad`, whose handlers and consumers meet a driver that
is being started and stopped. The other modules share no state, because the parts
of the driver they model do not: each key event leads into exactly one of them.
`FnKeys` and `HidReports` look at the reports from two sides, and both let
handlers interleave without a lock and posts fail. `FnKeys` asks what becomes of an
event: its strokes, `displayOff`, the keys macOS works off; it scans an array at
one moment. `HidReports` asks what becomes of the bytes: it compares, stores and
copies as the loops do, and has the descriptor that gives the bytes a meaning.

In every module a definition that begins "A plausible slip" is a faulty variant
of the definition after it. No run uses it as it stands; put in the other's
place it makes one named property fail, and shows that the property can fail.

### Touchpad and Broadcast

A handler is a thread inside `message`. `pc` walks through `toggleTouchpad`:
enter the gate (`BeginDispatch`, where the iterator may find no memory and the
round stays empty), one message per consumer (`Ask`, `Tell`), leave it
(`EndDispatch`), load the flag, store its inverse, load it again for the registry
property. Loads and stores of the flag are separate steps since no lock holds
them together. A consumer's answer is written straight into the driver's flag, as
the code passes its address. The gate's lock is recursive: it is closed to other
threads only. `NotificationHandler` needs the gate open; the notification of a
service's end comes after the one of its arrival. Ghost: `own`, which turns over
when a consumer changes its status itself.

`Broadcast` is what the consumers may rely on: a status decided anew by each
press and sent at one instant to every member and to nobody else, or, where the
iterator finds no memory, not sent. A service becomes a member when its arrival
is heard of and stops when its leaving is, and no step but `Send` alters the view
of a service that does not own up to it (`own`, seen on both sides). So a round
that misses a member, or tells one that has left, is no step of `Broadcast`.
`RoundsAtomic` says that `Touchpad` implements it on one handler thread. Under the
mapping the status is unknown from the first question to the store of its
inverse, and a consumer that has still to be told counts as told. On two threads
this does not hold, and the code promises no such thing; `ConsumersAgree` is what
is left.

### DriverBoot

`stage` walks one thread through `probe`, `start` and `stop`; each notifier is
installed in one step and assigned to its member in another, since
`addMatchingNotification` calls the handler for services that are there already
before it returns. `existing` are the services it has still to call for, `unheard`
those whose notification came to nothing. A gate that is used where there is
none makes the machine panic. With `EarlyKeys` the firmware may notify before
`start` is done. Two writes to the touchpad's state are not `toggleTouchpad`'s:
`stop` empties the set of consumers, and `start` publishes the registry property as
on, over what an early key may have published. What `start` does before the gate is in `SensorPolling` and `WmiDevice`.

### SensorPolling

`loop` walks through the timer's action, split where the code reads a method,
stores into an atomic, arms the timer and posts the interrupt. A client may read
a key between any two steps. `currentFanSpeed` has 16 bits, `currentLux` and
`roomLux` have `LuxModulus` values, `chan0` has `ChanModulus`, so truncation and the
failure values 0xFFFFFFFF and 10000 are what they are in the code. `EncodeFpe2` is
VirtualSMC's conversion, with 14 integer bits. `FirmwareChange` lets every method
answer anything, failure included, at any time. The forced fields of `AL!`
freeze what `ALV0` shows. Ghost: `polls` counts stores since the ALS key.

`ServedIsCurrent` is the safety half of "the light reaches the client": a client
that has served its interrupts holds the reading stored last, save between a store
and the interrupt that follows it. Of the numbers it counts those that no write to
`AL!` freezes. That the settled light is stored at all is `LightFollows`.

### FnKeys and KeyStrokes

A handler's event becomes a stroke: insert, post, erase, post, `loop` times over.
`insert` and `erase` are a scan of the array and a later store, each over the array
all handlers share; the post copies the report in one step and hands it over in
another, or fails. `displayOff` reads the brightness once, goes dark with
`DarkStrokes` presses, or goes up as many as the level it read. macOS works the
presses off later (`WorkOff`), the user may move the brightness at any time
(`Slide`). Where the registry has no backlight entry, `displayOff` keeps the level it
had (`EntryMayMiss`; `fn_restore` excludes it, so what it shows comes from presses
that are pending). Ghosts: `chosen`, the brightness the user set, and `calm`, that nothing
was pending and nobody else was at the brightness when it was read.

`KeyStrokes` is what macOS should see of it: a key pressed and released, one at a
time, as often as was ordered. `StrokesWhole` says that `FnKeys` implements it on
one thread; the arrays, the scans and the copies vanish under the mapping, which
keeps the strokes still to come and the keys in the last report delivered.

### HidReports

A stroke walks through `stage`: the loop of `exists`, one comparison a step, at
`place`; the search for a free place; the store, which may come after another
handler's; a copy of the report; its delivery, whatever has been stored or posted
meanwhile; then the loop of `erase`, where comparison and store are two steps, and
a second post. Each post may fail. `keys` are the two arrays, `copy` each
handler's copy. A copy is one step: a torn one would mix bytes of two moments, which
are keys of the same report all the same, and nothing reads it but its own post.
Ghost: `crowded`, the reports whose last stroke began inside another one.

`virt_reportDescriptor` is the descriptor as a sequence of items with their bytes,
collections and local usages left out. `Fields` reads it as HID 1.11 says: each
Input item is a field, under the last item of each kind before it (`InForce`; a
local item only up to the next main item), with signed logical limits. `host` is
what the host takes as held after the last post: the usages, with their page, of
the field whose id and length fit the bytes.

While strokes overlap, a key may be dropped, doubled, cut short or posted out of
date, and the module makes no claim that it is not. What it does claim: an array
is empty once nobody uses it, and a stroke that then has the report to itself
(`Alone`) finds its key and no other in it (`ArraysExact`) and shows the host that
key and then none (`HostSeesStrokes`), also after strokes that were not alone;
each post, alone or not, is read as the bytes in it are meant (`HostReadsBytes`).

### WmiDevice

The firmware is a `_WDG` table, the name of the method that really is the
device's, and whether there is a threshold and a backlight. `start` finds a
method in the table (the first block with the management GUID, whose first three
groups lie there byte-swapped), asks for the threshold's device, sets it, looks
for `SKBV` and registers the keys; clients then write `BDVT` and `LKSB`. Any
evaluation may fail, and one that names the wrong method does. Numbers are
signed 32-bit ones, so that -1 has the presence bit, as in the code. A byte that
is neither 0 nor 1, copied into a `bool`, may count as either. Ghosts:
`batteryMissed` and `lightMissed`, that the last call did not get through.

### AirplaneDaemon

The driver and others post into the buffer of the daemon's socket; what the
kernel drops leaves no trace. `Receive` takes one event out, filters it and inverts
the mode if it is the airplane key; `Note` and the two setters follow one by one, with
posts, user switches and the daemon's death between any two of them. A restart
clears the mode and the notes, as they are plain variables. Ghosts: `odd`, the
parity of presses that got into this socket, `before`, what the radios were,
`source`, who posted the event handled last, and `hand`, which changes when
another than the daemon switches a radio, or a `setPower` fails.

### AirplaneSwitch

Airplane mode as one would promise it: `Enter` notes both radios and switches them
off, `Leave` puts both back, each in one step, and nothing else moves a radio but a
hand from outside. `TogglesAtomic` says that `AirplaneDaemon` implements it, though
the user may switch a radio between any two of the four steps of a toggle. Under the
mapping a toggle takes effect with the second note, or with the press that ends
airplane mode; a radio counts as noted from its own note on, and as switched from
the toggle on. A user who switches a radio in between is a hand that is overruled.
A death in the middle of a toggle leaves the radios anyhow (`Die`): the code has
nothing left to finish it with.

## The runs

| Run | Instance | Shows |
|---|---|---|
| `touchpad_one` | 1 handler, 2 services, fair | a press inverts, and reaches exactly the consumers of one instant, or none; arrivals and departures are heard |
| `boot_stop` | 2 handlers, 2 services, early keys, symmetry | `start` makes things in the right order; no round meets a changing set; consumers agree with the flag |
| `boot_known` | 1 handler, 2 services, fair | *violation*: a consumer that is there before the driver never gets known to it |
| `sensor_polls` | light of 20, failure and a fixed 9; fan by TACH or by WMI; `AL!` may force the lux; fair | the timer stays armed; the ALS key works; interrupts lead to the settled light, and a client that served them holds the last reading; `F0Ac` follows the fan |
| `sensor_nolight` | 2500 RPM by WMI, fair | *violation*: no light sensor, no fan polling |
| `fn_display` | 1 handler, 5 codes, 3 strokes of 2 units | whole strokes, no stuck key; display off restores |
| `fn_shared` | 2 handlers, 4 codes, 2 slots, posts fail | no residue in the reports |
| `fn_restore` | event 0x35, 2 pending presses, the backlight entry always there | *violation*: the display comes back darker |
| `hid_posts` | 3 handlers, 2 places, 2 codes of one report and 1 of the other, posts fail, symmetry | nothing is left in an array out of use; a stroke alone shows its key and then none; a post is read as its bytes are meant |
| `wmi_writes` | 5 tables, 2 method names, 4 kernels, bytes 0 to 2 for `BDVT`, 4 pairs for `LKSB` | the right method; no battery key without a battery; key, property and firmware agree after calls that got through |
| `airplane_radios` | buffer of 3, fair | no press lost, radios restored, toggles atomic and finished, the buffer drains |
| `airplane_twin` | buffer of 1, a foreign twin | *violation*: a foreign event is taken for the driver's |

Bounds. Two handlers are enough for every pair of racing steps, and the proofs
cover the rest. Two consumers let one be met and one be missed by a round. The
words of 6 and 4 bits reach with 20 and 63 what 32 and 16 bits reach with 2^16
and 2^32 - 1: a value that fits, one that is cut, and the failure value. The fan
runs at 2500 RPM by WMI, at 10000 by TACH, which is the failure value, and at
65600, which outgrows the 16 bits of the atomic. Three strokes of two units make
a level that is a whole number of steps and one that is not, where the code has
16 of 64. `MaxPending` limits when a key is taken while macOS lags behind: 1
allows a press on top of an unfinished one. Two slots are as many as two handlers
of `fn_shared` can fill. The three of `hid_posts` have two places as well, so that
an array fills up and a key finds none, which with 32 places takes as many threads;
the places beyond are there for the host, and stay empty. Two codes of one report
let keys differ and be equal, the third belongs to the other report. The proofs have
any number of handlers, all eleven codes and any `Count` up to 32.
The tables of `wmi_writes` have the management block first, second, twice, not at
all and with its bytes in the order of the string; the kernels lie on both sides
of 10.15.5; the pairs for `LKSB` are the ends of the levels and what is cut
between them. Three events let a press wait behind another while a third is being
handled, and fill the buffer.

Symmetry is used only in runs without liveness. Deadlock is checked in all runs
but those of `DriverBoot`, where a driver that panicked, does not match its
device or has been stopped has nothing left to do.

## Fairness

- `Touchpad`: a handler inside a toggle goes on, and a raised notification is
  delivered, strongly fair because both wait for the gate and the gate is given
  to one waiter at a time; IOCommandGate sleeps on a recursive lock whose waiters
  are woken in turn. Presses, arrivals and departures are not fair.
- `DriverBoot`: the same, and `probe` and `start` go on. `stop`, keys and what the
  services do are not fair.
- `SensorPolling`: an armed timer fires, the work loop finishes its action, a client
  that was interrupted reads `ALV0`, and somebody reads `F0Ac` now and then. A key
  press, a firmware change and a write to `AL!` are not fair.
- `AirplaneDaemon`: the running daemon takes its next step and launchd starts a
  dead one (KeepAlive). Weak fairness suffices, since nothing but its death stops
  a step that is possible. Posts, the user and crashes are not fair.
- `FnKeys`, `HidReports`, `WmiDevice`: safety only.

## The proofs

All theorems hold for every value of the constants that meets the named
assumptions; those say that markers such as `Nobody`, `NoKey` or `Nothing` are no
real values, that numbers are numbers, and that bytes are bytes. TLC evaluates
them in the runs. Where a theorem needs more it says so: `Toggling` and `Atomicity`
that there is one handler thread, `NoneStuck`, `Implements` and `Restores` (in
`Undisturbed`) also that no post fails for want of memory.

- `TouchpadProofs`: `TypeCorrect`, `Isolation`, `Agreement`, `Toggling`, `Atomicity`.
  That consumers agree with the flag says nothing while a toggle runs, so it is not
  inductive: `Told` adds that a consumer told something else than the flag's present
  value still has a message coming from some handler, and `GateHeld`, `TodoRegistered`
  and `LifeCycle` that the gate belongs to the handler inside it, that an iterator
  visits registered services only, and that nobody was told before it was registered.
  `InHand` says that what one handler has loaded is still the flag. `Atomicity` maps
  every step to one of `Broadcast` or to a stutter (`AtomicStep`): a handler's steps
  in `SendsOrNot`, where the round's first message is `Send` and each later one
  brings up a view that `Broadcast` has changed already, a service's in `ComesOrGoes`.
- `DriverBootProofs`: `BootTypeCorrect`, `Orderly`, `BootAgreement`, `BootIsolation`,
  `BootAtomicity`. Each step is a step of `Touchpad`, the emptying of the set in `stop` or
  the publishing in `start` (`StepKinds`), so `TouchpadProofs`' lemmas are used again;
  `GateGoneStep` adds that nobody is inside the gate when it is given up, and
  `QuietStep` that without early keys nothing happens before the gate is made.
  `BootAtomicity` carries `Atomicity` over to the whole life of the driver on one
  handler thread, the last step of `stop` aside.
- `SensorPollingProofs`: `TypeCorrect`, `PollingGoesOn`, `KeyTakesEffect`,
  `NoUpdateLost`, and `FanEncodingExact`, that fpe2 is exact below 16384 RPM.
  `SampleFits` bounds the sample in flight, `PollsAfterBoot` and `ClientsAfterBoot`
  say that nothing is polled and no key read before VirtualSMC took the plugin
  (or `currentLux` could change at boot without an interrupt), and `SampleAfterKey`
  that after one store since the ALS key the next sample is the fixed value.
- `FnKeysProofs`: `TypeCorrect`, `NothingLeftBehind`, `NoneStuck`, `Implements`. That
  nothing is left behind needs no mutual exclusion: every key in an array belongs to
  a handler that is inside a stroke of that usage, or to one that has scanned it and
  is about to take it out (`Owned`). So when no handler is inside a stroke the arrays
  are empty, for any number of handlers and places. `OneKey` relates the place in the
  stroke to the copy of the report and to the last report delivered; `LevelRange`
  is why no level exceeds the strokes that darken the panel.
- `DisplayOffProofs`: `Restores`. When `displayOff` ends, macOS may have presses of it
  and of the one before to work off, so the invariant (`Course`) speaks of the
  brightness the panel settles at: presses down, which end in the dark however
  many there are, and presses up after them, which must never saturate.
  `SameLevel` is the arithmetic behind it: the level of a brightness is the level of
  what is restored from it, so that switching off and on again loses nothing more.
- `HidReportsProofs`: `TypeCorrect`, `Exact`, `ReadAsMeant`, `Seen`. No mutual exclusion
  is needed for an array to come out empty: each key in it has an owner that is yet
  to erase it and whose loop is not past its place (`Owned`), since a loop starts at
  the first place (`Fresh`). A report that is not `crowded` has one user at most
  (`Single`), who finds the array empty until it stores, and then its own key in it
  and in its copy (`Lone`). Each action has a lemma that says it keeps the four.
  `ReadAsMeant` reads the descriptor: `Reads` says which item is in force at an Input
  item, `Unsigned1`, `Signed1` and `Signed2` what its bytes are worth (a limit of one
  byte with the top bit set is negative, so it has two), `KeyFields` that exactly two
  fields have 32 places, and `Decoded` that a host gets from the bytes the keys in
  the array, on the page of the class. `Seen` is both together.
- `WmiDeviceProofs`: `TypeCorrect`, `Lookup`, `NoPhantom`, `PropertyHonest`, `KeyHonest`,
  `LightHonest`.
  `GuidExact` and `LevelExact` say what the shuffling of GUID bytes and of the two bytes
  of `LKSB` amounts to, `StatusExact` that only a status the device gave has the
  presence bit; `Told` ties key, property and threshold together across calls that
  failed.
- `AirplaneDaemonProofs`: `TypeCorrect`, `Restored`, `PressesCounted`, `Atomic`. `Underway` says at
  each place of `toggleAirplaneMode` which radios are switched and what has been
  noted; that presses are counted rests on how appending and removing an event
  changes their number (`AppendCounts`, `TailCounts`). `Atomic` is the refinement
  of `AirplaneSwitch`: of a toggle's steps one is `Enter` or `Leave` (`NoteSeen`,
  `ReceiveSeen`), for which `Underway` says that radios are noted in airplane mode
  only, and the two setters change nothing that was not seen before (`SetSeen`).

Every invariant and every action property of the passing runs is proved, under the
conditions just named, and so are the refinements of `Broadcast`, `KeyStrokes` and
`AirplaneSwitch`. Only model-checked is everything under fairness (`ConsumersHeard`,
`LightFollows`, `FanFollows`, `ToggleEnds`, `SocketDrains`), for which the proof
system has no usable rules.

## Findings

1. Without a light sensor the fan is polled once (`sensor_nolight`): `refreshALS`
   returns before it arms the timer.
2. `displayOff` pressed again while macOS has the presses of the one before still to
   work off remembers a brightness on the way, and the display comes back darker
   (`fn_restore`; the registry has its backlight entry all along).
3. The daemon filters by event code alone, the vendor code it looks up is not used
   (`airplane_twin`).
4. A consumer that exists before the driver is never registered (`boot_known`):
   its notification comes before `_publishNotify` is assigned, with which the
   handler compares.

Met on the way, without a run of their own: the events commented "hardwired On" and
"hardwired Off" both only toggle (`AsusSMC.cpp:517`); `BDVT` stores what a client
wrote though the call behind it failed (`KeyImplementations.cpp:64`); between the
release of the gate in `stop` and the removal of the notifiers a notification finds
no gate (`AsusSMC.cpp:121`, the reason `StartInOrder` names these stages).

## Not modelled

- `getReport` of the virtual keyboard, which the driver never calls, and its constant
  device properties.
- The on-screen displays, how the machine is put to sleep, and the lookup of the
  vendor code: straight calls whose results nothing reads again.
- Attributes and constants of the registered keys, and what a VirtualSMC that is
  already there does with a plugin whose keys are still being added: whether it
  copies the list is not in this repository. For the same reason a notifier for
  VirtualSMC that `stop` leaves behind.
- Removal of the poller in `stop`, which `kern_stop` refuses in practice.
- The WMI calls that initialise the device and power the light sensor: nothing in
  the driver depends on them.
- Build and install scripts and DSDT patches: no state of the running program.

## Plan

1. `FnKeys`' strokes over the arrays of `HidReports`: on one thread the loops place by
   place as a refinement of scan and store.
2. A register that is eventually right as the abstract specification of
   `SensorPolling`, of which `ServedIsCurrent` is the safety half.
3. `stop` with the poller, and VirtualSMC's handler against a driver that is being
   stopped, once what VirtualSMC promises is written down.
