# Water flow meter: specifications, checks and proofs

The repository is the firmware of an ESP32-S3 (StampPLC) that meters water with up to eight pulse
sensors, shows it on a small display and reports it over Modbus RTU and over MQTT to Home Assistant.
This directory models the parts of it whose correctness depends on the order of things: two tasks and
a frame handler that share settings, a bounded queue that must keep some messages and may drop others,
a session that another task establishes and loses, counters and shadow copies read on one core and
written on the other, flash that can fail or be cut off between two writes, three buttons polled
against timers, and a menu whose pages come and go while somebody stands on them.

Paths below are relative to `src/Water-Flow-Meter-PlatformIO/src/`, the firmware proper.

## 1. Inventory

### Tasks

| task | core, priority | what it does |
|---|---|---|
| polling (`pollingTaskCode`) | 0, 2 | reads the inputs, increments `pulseCount` |
| logic (`logicTaskCode`, "the pass") | 1, 1 | buttons and UI, engine once a second, saving once a minute, MQTT, WiFi, link restart and rollback |
| eModbus server | 1, 8 | a frame's handler: reads and writes registers, preempts the pass anywhere |
| esp-mqtt | 1 | connects, reconnects, raises events into latches |
| web server | inside the pass (`drivePortal`) | the configuration page: receives a body in callbacks, stages and applies network settings |

There is hardly a lock in the program: the tasks meet through plain variables, flags ("latches") that
one task raises and another takes, and the order in which they are read and cleared. The consequence for
the models: *a frame's handler is one step* of a task that the logic task cannot interrupt, while *the
pass is cut* wherever a frame or an event in between makes a difference.

### Components

| component | state it keeps | operations | status |
|---|---|---|---|
| link settings and rollback, `modbus/link_settings.*` | live, staged, previous settings; window; revision | begin, stage, apply, noteValidFrame, rollbackDue, rollback | `LinkSettings` |
| Modbus dispatcher, `modbus/modbus_manager.*` | registers, restart flag, overrides | read, write single, write multiple, side effects of a register | in `LinkSettings` and `Metering`, partly |
| metering engine, `sensors/sensor_state_engine.*` | session and lifetime volumes, flow | update, once a second | `Metering`, partly |
| pulse polling, `sensors/pulse_counter.h`, `firmware.cpp` | `pulseCount` | increment on an edge | `Metering` |
| persistence, `modbus/sensor_config_nvs.h`, `storage/nvs_write_health.h` | shadow copies, failure counts | save what changed, note results | `Metering`, partly |
| MQTT publisher, `net/mqtt_publisher.*` | ring, baselines, cadence | configure, onConnected, onDisconnected, enqueue, tick, pump | `MqttPublisher` |
| discovery policy, `net/ha_discovery.*` | connected, published, bitmap | onConnected, onStatusMessage, onSensorBitmap, notePublished | `MqttPublisher`, partly |
| reconnect ladder, `net/mqtt_reconnect.*` | phase, due edge, deadlines | update, note..., reset | `MqttSession` |
| transport, `net/mqtt_transport_esp.h` | client handle, connected flag | begin, end, onEvent, publish | `MqttSession`, `MqttPublisher`, partly |
| command router, `net/mqtt_command_router.*`, and its slot in `firmware.cpp` | the slot between two tasks; last accepted times and epochs | onMqttData, serviceMqttCommand, evaluate | `MqttCommand` |
| network settings, `net/net_settings*`, `net/net_register_map.*` | live and pending copies, revision, keys | stage, apply, applyExcept, reset, save, load | `NetSettings`, partly |
| WiFi manager, `net/wifi_manager.*`, `net/wifi_radio_arduino.h` | state, retries, AP window | update, noteProvisioningComplete | `WifiManager` |
| time requests, `time/ntp_policy.h` | associated, due, in flight | note..., consumeDueRequest | `WifiManager`, partly |
| configuration page, `net/portal_*` | whether the server is up; the body being received | lifecycle, route, handlePost, submit | `WifiManager`, `PortalRequest`, `NetSettings`, partly |
| SPI arbiter, `bus/spi_arbiter.*` | owner of the bus, the repaint owed | request, release, frames | `MenuCard`, partly |
| pack loader, `ui/pack/*` | attempt counter, pointer, what is mounted | load, confirm, the Select Menu page, the commit | `MenuCard`, `Panel`, partly |
| renderer, `ui/core/ui_renderer.*` | what it last drew | update | `MenuCard`, partly |
| buttons, `input/button_input.*` | how long each is held | update | `Panel` |
| interactions, `input/interaction_handler.*` | chords, ramp, countdown, toasts, idle | update and its handlers | `Panel` |
| controller and actions, `ui/core/ui_controller.*`, `ui_actions.cpp` | editor, idle mode | dispatch of flows, commit, discard | `Panel`, `Navigation`, partly |
| navigator, `ui/core/ui_navigator.*` | screen, stack, sensor | siblings, descend, back, position | `Navigation`, `Panel` |
| screen table, `ui/generated/GeneratedUi.*` | data | | `Screens` |
| bindings, `ui/core/ui_bindings.cpp`, `ui_settings*.cpp` | none | what a value of a screen shows, what an editor edits | `Bindings`, partly |
| device clock, topology, temperature, LEDs, snapshot, pack format | | | not modelled, section 8 |

### How they interact

* Frame -> `ModbusManager::applyHoldingWrite` -> link settings, sensors, calibrations, clock, network
  settings. The panel and MQTT commands call the same function from the logic task, where a frame can come
  between what it checks and what it stores.
* `linkRestartPending_` carries an applied link change from the frame to the pass, which saves the
  settings, rebinds the slave ID and reopens the port; the pass also asks `rollbackDue`.
* esp-mqtt's events become `connected_` and two latches; the pass takes the latches, asks the ladder
  whether an attempt is due, creates or stops the client, and then lets the publisher tick and pump.
* `connectedSensorsBitmap` is written by a frame and read by the polling loop, the engine, the saving
  pass and the discovery policy.
* `configs`, `sensors` and the bitmap reach flash only through the shadow copies of the saving pass,
  except that resets write their zero totals themselves.
* `NetSettings` has one pending copy, which a frame, the panel and the page all stage into and any of
  them applies. Its revision tells the pass to save, the MQTT session to reconfigure, and the WiFi
  manager that somebody has provisioned the device.
* The WiFi manager's state decides whether the configuration page is up, its connection edge starts
  the time requests, and its link is what the MQTT session needs.
* A message on a command topic is copied into one slot by esp-mqtt's task; the pass copies it out,
  releases the slot, and performs a reset through the register a master would write.
* The interaction handler reports what the pass has to do: open the Select Menu page, commit a
  selection, restart. The page and the card share the display's bus through the arbiter.

### What is hard to test here, and what makes a component correct

* **Link settings.** Applies by the bus, commits at the display, factory resets and rollbacks in any
  order, with a clock that wraps. Correct: an armed window guards exactly the unconfirmed bus
  settings and has something to go back to; nobody is locked out for good; the hardware follows the
  live settings; an untouched change lives for its whole window.
* **Publisher.** A full ring, eviction from its middle across the wrap, refused messages, lost
  connections, bursts larger than the ring. Correct: only telemetry is lost, oldest first; what change
  detection believes it said last is what it said last; the broker catches up; the heartbeat comes.
* **Session.** Events of another task between any two steps of the pass, settings that change while a
  client is created from them. Correct: the flag is not a dead client's, each session is subscribed,
  "off" stops the client whatever state it is in, attempts go on.
* **Metering.** Increments on one core and read-and-clear on the other, a calibration replaced in the
  middle of a computation, resets in the middle of a save, a store that fails for one key and not for
  the next, power cuts. Correct: no pulse is metered twice, volumes stay finite; but where a frame
  overtakes the panel, an override never outlives its calibration and a valid one is not demolished;
  flash ends up with what is in memory, and a dead flash raises the alarm.

* **Network settings.** Three surfaces in one pending copy, a form that is checked in one pass over its
  rows and stored in another, a register that holds two flags, a save that fails at any key and is
  overtaken. Correct: each surface changes what its operator edited and nothing else; the answer is
  what happened; what counts as saved comes back after a power cut.
* **WiFi.** Settings that change between the two reads of a connection, refusals by the driver, windows
  and backoffs. Correct: the radio is in the mode the state reports; a device with good credentials
  ends up on its network, with the credentials that are stored.
* **Configuration page.** A body in callbacks that may be too long, aborted, multipart or missing.
  Correct: what is submitted is the whole body of the request being served.
* **Commands.** A slot written by one task and read by another without a lock, rate limits by a wrapping
  counter within a boot and by a clock across boots. Correct: two resets keep their distance.
* **Menu card.** Crashes and power cuts anywhere in the boot ladder, a bus handed to and fro between the
  card and the display. Correct: no pack keeps the device restarting; the panel shows what the UI
  stands on.
* **Panel.** Presses, holds, chords, toasts and timeouts in any order. Correct: no editor and no
  countdown outlives its screen; a guarded action takes its whole hold; UP and DOWN walk a ring of the
  pages shown; what a page shows and edits is about the sensor it was entered for.

The complete list, each at its line, is under `hazards` in `PROJECT.json`, with the properties that
cover it or the reason why none does yet.

## 2. Plan

In order of importance; modules marked * exist.

1. \* `LinkSettings` with the abstract `LinkTrial`, and `LinkSettingsProofs`.
2. \* `MqttPublisher` with the abstract `LossyQueue`, and `MqttPublisherProofs`.
3. \* `MqttSession` and `MqttSessionProofs`.
4. \* `Metering` and `MeteringProofs`.
5. \* `NetSettings` and `NetSettingsProofs`: three surfaces staging into one pending copy, the save.
6. \* `WifiManager`, with the lifecycle of the page; \* `PortalRequest`, the body it receives.
7. \* `MenuCard`: the boot ladder, the arbiter, the frames.
8. \* `MqttCommand`: the slot between two tasks, the router. \* `DeviceProofs` is about the modules of 6, 7 and
   8 and about `Navigation`, as `MCDevice` runs them.
9. \* `Panel` and `PanelProofs`: the buttons and everything timed, over any table of the kind
   \* `PanelTable` describes. \* `Screens`, `Bindings` and `Navigation`: the whole table, what its
   values show, and where the operator can get to in it.
10. Compositions: `MqttSession` with `MqttPublisher` (a stop of the client against the ring, and old base
    topics on a new connection) and with `NetSettings` (the newest settings reach the client).
11. The link manager at the grain of single assignments (section 4, atomicity).
12. `DeviceClock` with a wrapping counter; the grouping of sensors.

Abstract specifications worth stating: the trial of settings (done), the lossy queue (done), a
transactional register for the network settings, an at-most-once command.

Theorems: every safety property the runs check has one (section 7); what is only model-checked is liveness.

## 3. Modules

| module | what it is |
|---|---|
| `LinkTrial` | abstract: settings are trusted or on trial; a trial is accepted or undone |
| `LinkSettings` | manager, frames, logic pass, boot, clock |
| `LinkSettingsProofs` | inductive invariant, refinement of `LinkTrial` |
| `Counting` | lemmas: remainders and rings, least and greatest members, functions given step by step |
| `LossyQueue` | abstract: a queue that loses only droppable messages, oldest first, when full |
| `MqttPublisher` | ring, baselines, cadence, latches, discovery bursts |
| `MqttPublisherProofs` | inductive invariant, refinement of `LossyQueue` |
| `MCMqttPublisher` | the topics of one or two sensors, for TLC |
| `MqttSession` | ladder, pass, client task, settings |
| `MqttSessionProofs` | inductive invariant |
| `Metering` | polling, engine, registers, saving pass, flash |
| `MeteringProofs` | inductive invariants, action property |
| `NetSettings` | the pending copy, bus, panel and page, save and load |
| `NetSettingsProofs` | inductive invariant, action properties |
| `WifiManager` | state machine, driver, time requests, lifecycle of the page |
| `PortalRequest` | the body of a submission |
| `MqttCommand` | slot, router, epochs, power cuts |
| `MenuCard` | pack loader, card, arbiter, renderer |
| `PanelTable` | the kind of screen table `Panel` runs on |
| `Panel` | buttons, interactions, editor, countdowns, Select Menu page |
| `PanelProofs` | inductive invariant, action properties |
| `MCPanel` | one screen of each kind, for TLC |
| `Screens` | the generated table |
| `Bindings` | what a binding shows in a situation |
| `Navigation` | navigator and actions over the table |
| `MCDevice` | five parts that share no state; what the generated table is like |
| `DeviceProofs` | inductive invariants and action properties of the five |

### LinkSettings

The manager's six fields are `live`, `staged`, `previous`, `awaiting`, `appliedAt`, `revision`; `pending` is
`linkRestartPending_`; `uart`, `workers` and `bound` are what the hardware and eModbus really use. The pass
is `BeginPass` (which reads `now`), the UI (`SkipUi`, `DisplayStage` then `DisplayApply`, or `FactoryReset`),
`ConsumeRead` and `ConsumeClear`, the restart (`SaveId`, `SaveLine`, `ClosePort`, `BindNew`, `UnbindOld`,
`OpenPort`), `CheckRollback`, `DoRollback`, `EndPass`. A frame (`ServeRead`, `ServeStage`, `ServeApply`)
may come between any two of these while the port is open and its ID registered. Baud index, parity and stop
bits are one value, `line`, since nothing tells them apart once a value is valid. A multiple write is a
sequence of such frames, as its loop is; that is more than the code allows (the pass could only run after
the loop), never less. `age` and `owner` are history.

### MqttPublisher

`ring` is the array with its head and count, so the wrap-around and the shifting are the code's; a message
is its class, and for telemetry its slot and reading. `TakeConnect`, `TakeDisconnect`, `TestLink`, `TakeBirth`,
`TestChannels`, `Announce`, `Tick` and `Pump` are the parts of a pass in their order; a connection can come or go
between any two of them, and each is one step because what it shares with other tasks is read once in it.
Whether there is a connection is asked once, for discovery and `tick()` together. The bitmap of channels is
read three times: to test for a change, to enumerate the entities of a burst (`BurstInto`), and to record them
(`NotePublished`, a step of its own after each burst); frames come between. `whole` says whether the ring took
all of the burst; `announced` is history. A policy whose first burst was refused announces no change of
channels until one has gone out whole. That an event sets the
transport's flag and then a latch is one step here and two in `MqttSession`. Uptime and signal strength, which change the
diagnostics payload all the time, are left out: change detection of a payload that always changes says
nothing.

### MqttSession

The pass in ten steps, the client's task in five, and the writers of settings. `raising` is the event the
client's task is reporting: it sets the transport's flag (`RaiseFlag`) and then calls the handler that raises
the latch (`RaiseLatch`). `end()` returns when the task has stopped, which it does between events. The ladder's
times are not counted: a deadline of the present phase passes at any moment. The rung's length and its
jitter are therefore not modelled, and nothing here says they are right.

### Metering

A calibration is two figures: `range` (q_max) and `factor` (the multiplier, or the pulses per litre of the
other form); zero is "not set"; the offset, the form and the negative multipliers are folded into them.
`Samplable` is the sampling limit against `rate`, which is 0 at boot and measured once a second (`MeasureRate`, any
other rate of `Rates`); no override is judged again when it changes, and `judged` is the history of the rate
it was judged by. A pulse metered is one unit of volume.
`Look`, `Clear`, `ComputeRate`, `AddSession`, `AddTotal` and `StoreTotal` are the reads and writes of the engine,
cut where a frame or the other core matters. The saving pass compares, puts and advances a shadow copy
step by step; a put takes effect if the flash takes writes at that moment. `Frames` are the registers that
reset or calibrate, whole handlers each. The panel's edit of a calibration runs the same handler in the
logic task, so it is cut: the candidate is copied (`PanelEdit`), judged (`PanelJudge`), refused if it is incomplete
and what is in force by then is not (`PanelRefuse`), and stored whole (`PanelPut`); its reset blanks the figures
(`PanelBlank`) before the override (`PanelForget`). `torn` is the history of the channels a frame came to meanwhile.

### NetSettings

`live`, `pending` and `revision` are the class's fields; `residue` says that a master may have left bytes behind a
terminator, which the bytewise comparison of an apply takes for a change. Six fields stand for the block: two that are
shaped like a topic and can therefore be malformed (`topic`, `prefix`), two secrets that a form renders
blank (`login`, `psk`), and the two flags that share register 564 (`ha`, `qos`). A frame (`BusStage`,
`BusApply`, `BusPortalReset`) comes between any two steps of the logic task, which is in the middle of
one thing (`at`): the panel's read, stage and apply of a flag, a submission (`Submit` is its first pass,
`FormStage` one row of the second, `FormApply` the apply, `FormClock` the third pass, which hands the clock's row to
the clock, and `FormAnswer` the answer, in which both count), or the save, key by key. `quiet`
records that nobody else wrote meanwhile: the code has no lock, and promises nothing if somebody did.

### WifiManager and PortalRequest

One action per state of `update()`, then the time requests, the notice of new settings and the page's
lifecycle, in the order of the pass. `beginConnect` reads two strings; `Join` is the rest of it, and an
apply may come between. The driver is free until `WorldSettles`, then it answers. `PortalRequest` has the
callback's four events, the requests that come without them, and `handlePost`; chunks are numbered and
marked with their request, so a body can be told from another's.

### MqttCommand

`Arrive` and `Latch` are `onMqttData`, cut between the topic and the rest; `CopyTopic`, `CopyRest` and one of
`Drop`, `Answer`, `Perform` are `serviceMqttCommand`; `TakeDisconnect` is the notice of a loss, which discards a
command that waits; `Persist` is the save of the epoch, which may fail. The
counter has a width (`Wrap`), the clock may be unset, set and stepped, and a power cut may come at any
step. `last` is history.

### MenuCard

`pc` walks the boot ladder and then the pass (render, confirm, menu, LED). A pack is good, missing,
invalid, or *wild*: it validates, and may take the device down while its first frame is drawn. A card
operation is a step, since one task does it with no frame open; it leaves the old picture (`shown = "old"`)
and owes a repaint. To go back to the built-in pages needs a pointer to remove (`Storable`); without one the page
just closes. `lastScreen` and `idlePainted` are what the renderer believes.

### Panel

A pass is the cycle of `pc`: the buttons are polled, then each handler of `InteractionHandler::update` is an
action in the order the code calls them, then the idle check and what the pass does with the result.
Time is counted in passes and a timer is the age it has reached. The screen table is given by constants
(`PanelTable`): a set of screens, what each press does on them, and which have a hold, a toast or an editor.
`MCPanel` has an excerpt with one page of each kind.

### Screens, Bindings, Navigation

`Screens` is the table itself: every screen with its flows, the values it shows and the calibration form
it is shown for. `Bindings` says, for a situation, which texts a binding can give: the resolver that
answers and the kinds of text it gives, not the digits. `Navigation` is the navigator with the actions that
move it, over the table and the page the firmware appends to its root, while the bus changes the
calibration forms that hide pages. A press is a flow of the current screen here; when it counts as one is
`Panel`'s. The table and the places in it are parameters of the instance in `MCDevice`, so that TLC computes
them once. What the moves suppose of a table is written down at the end of the two modules: levels that nest
(`LevelsNest`), rings that close (`RingsClose`), editors entered and left one way (`EditorsApart`), a sensor's
menu entered from its page, and bindings that can be answered where they stand (`SensorMenu`, `Answerable`).

### MCDevice

Five parts share no state: `WifiManager`, `PortalRequest`, `MqttCommand`, `MenuCard` and `Navigation`. Their
product would show nothing each alone does not, so `part` says which one a behaviour runs. The properties
are those of the modules, under their names. Since it has the whole table at hand, `MCDevice` also reads it as
a `PanelTable`: TLC evaluates there that the generated table is of the kind `Panel` assumes. It computes the
rings and the levels of the table (`Ring`, `Level`), and TLC evaluates that they are what `Navigation` supposes.

## 4. Assumptions

* *Atomicity.* The manager's methods (`stage`, `apply`, `rollback`, `begin`) are single steps. Each is a few
  assignments made by the logic task or by the frame task; a frame arriving inside one of the logic
  task's is possible in principle and is listed as a hazard.
* *Pass and clock.* In `LinkSettings` at most `MaxLag` ticks pass between two starts of the pass; in
  `MqttPublisher` the clock does not tick twice without a `tick()`. A pass takes milliseconds, the intervals
  are seconds.
* *Client library.* It waits ten seconds before it reconnects, so the pass has taken the notice of a loss by
  then. It reports one event at a time.
* *Discovery* is enabled and configured.
* *Who writes.* A command from the panel or MQTT reaches the handler a frame reaches, but in the logic task, where
  frames preempt it. The panel's edits and resets of a calibration and its flags of register 564 are cut for
  that reason. Its and MQTT's resets of volumes are taken as a frame's, in one step: they store zeros, with
  nothing read before. That a struct copy of a calibration, or the flags `prepareConfigUpdate()` leaves, are
  several stores which a frame could come between is below the grain of `Metering`.
* *One thing at a time.* The web server is polled by the pass, so a submission, an edit at the panel and
  a save do not overlap; frames come between any of their steps.
* *Sent forms.* A browser sends every row of the page it was given, a checked box after its hidden
  companion; the operator edits up to two rows.
* *The wider world* (what is metered, which frames come, when the power goes, whether a connection or a
  put succeeds) is free, up to the bounds.

The constants' own assumptions, which TLC evaluates and the proofs start from:

* `LinkSettings`: the defaults are settings, the window is positive, the revision's and the clock's ranges
  are too, the clock's is larger than window and lag together, and a closed port is no line
  (`LineAssumption`: `uart` says either).
* `MqttPublisher` (`PublisherAssumption`): a ring of at least one, a burst of at least one message, intervals
  shorter than the clock's range (60 s and an hour at most, against 49.7 days), and `Slots` is a sequence.
* `Metering`, `MqttSession`: the bounds are numbers, zero is a figure and a rate, the marks for "none" and for the
  result of 0/0 are not values.
* `DeviceAssumption`: the bounds are numbers, a passphrase exists, a body has a limit, and the interval
  between resets is at most half of the counter's range (a minute against 49.7 days). Beyond half, the signed comparison could not work.
* `Panel` (`TimesAssumption`): times are positive, and one of the countdowns is the longest. The table
  (`KindsApart`, `FlowsLead`, `BelowSensor`): flows lead to declared screens, an editor's to no
  sibling, the root is no editor, toast or countdown, and below a sensor's page only that sensor's menu is
  reached. The generated table is of this kind: `GeneratedTable` in `MCDevice`.
* `Navigation` (`GeneratedMenu` in `MCDevice`): of the generated table, which is no constant but a definition of
  `Screens`, that its levels nest no deeper than the stack, that each ring closes within `kMaxRing` and off
  the root level names its neighbours both ways, that the root and the tail are shown for every form, that an
  editor is entered from the page that shows its setting and left by the ways back only, that the same goes
  for a sensor's menu, and that what a screen binds can be answered there. TLC evaluates it over the whole
  table; it says nothing of hidden screens, of the walks, or of where the operator gets to.

## 5. Runs

| run | distinct states | shows |
|---|---|---|
| `LinkSettings` | 891,736 | types; `UndoExists`, `TrialIsArmed`, `BoundIsServed`; implements `LinkTrial`; `UnconfirmedResolves`, `IdHeals` |
| `LinkEarlyRollback` | violation | a rollback long before the window is over |
| `MqttPublisher` | 2,259,000 | types; `BaselineIsNewest`, `PolicyKnowsLink`; implements `LossyQueue`; `BrokerCatchesUp` |
| `DiscoveryStorm` | violation | a burst larger than the ring silences telemetry |
| `MqttSession` | 110,478 | `ConnectedIsReal`, `SessionNotOverlooked`; `SessionsSubscribe`, `OffMeansOff` |
| `SessionStuck` | violation | a ladder that is connected to nothing |
| `Metering` | 763,317 | types; `ExemptionFits`, `NotDemolished`, `FlashCatchesUp`, `AlarmTells` |
| `Panel` | 1,926,482 | types; `EditorOnItsScreen`, `SensorFollowsStack`, `FullHold`, `RampOwnsItsRelease`; `ToastLeaves`, `RestartHappens` |
| `NetSettings` | 2,332,756 | `SavedMeansStored`; `FormSavesEdits`, `AnswerIsTrue`, `PanelEditsOneFlag` |
| `Device` | 609,472 | `RadioMatchesState`, `Associates`; `SubmitsOwnWholeBody`; `ResetsSpaced`; `PanelIsCurrent`, `BootLoopEnds`; `LevelsWork`, `PageShowsItsOwn` |
| `CommandWrap` | violation | a reset refused as too early long after the interval |
| `MenuStuck` | violation | a guard that clears selections it never tried |

The runs of the link, the publisher, the session, the engine and the panel check for deadlock: those
systems may not stop. `NetSettings`, `Device`, `MenuStuck` and `CommandWrap` do not, because there the world's
budgets run out and a request buffer, a slot or a settings block with nothing asked of it rests. The
type invariants of the modules in `Device`, of `NetSettings` and of `MqttSession` were checked with the same
bounds; no run repeats them, and the last two are theorems. Each property of a passing run has a
mutant, a definition beside the original with a plausible mistake in it, under which TLC finds the property
violated; the mutants are commented as such in the modules and are used by nothing else.

### Bounds, and why they are enough

* `LinkSettings`: two IDs and two lines, the least with which a setting can change, be undone and be confused
  with another. `Window` 1, `Wrap` 3 and `MaxLag` 1: the clock wraps within three steps, so every position of
  the time stamps around the wrap occurs; `Wrap > Window + MaxLag` is the one relation the code's numbers
  have. `RevMod` 2 makes the revision wrap. `LinkEarlyRollback` has a window of two, so that an expiry is told
  from an early one.
* `MqttPublisher`: a ring of three with one sensor and the total, of which one, two or all cells are telemetry
  when it overflows; a burst (two messages with the sensor in service) fits, evicts or is refused in part
  after the two "online" messages. `Changes` 2: two of losses, births, readings, refusals and the rest in any order.
  `DiscoveryStorm` needs two sensors and a burst of five against a ring of four, the proportion of the
  code's burst of up to 31 to its ring of 16.
* `MqttSession`: five changes of settings or radio: enough to turn MQTT off and on, move the settings during the
  creation and drop the radio in one behaviour. The client's events are not bounded.
* `Metering`: one channel, so the OR over channels in a result is not exercised by TLC (the proofs are for any
  number); ranges 0, 1 and 2 with factors 0 and 1 and rates 0 and 1 give incomplete calibrations, two valid
  ones that are both too fast at boot, and later one that is samplable and one that still is not. One edge,
  and three changes: an override takes two writes, and a reset or an edit that a frame overtakes a third or a
  second. The failure count stops at the alarm's threshold, where the code goes on to 255.
* `Panel`: a long press of three passes, chords of two, a toast of two, an inactivity timeout of five, a restart
  delay of one, countdowns of two and three. They keep the order of the code's times (a chord is held
  longer than a press, the timeout outlasts everything on the panel but a long countdown), and every pair of
  timers runs out in either order. Two values to step between, two packs, a stack of three.
* `NetSettings`: two changes by anyone, one power cut or reset, one failed write. Two changes are a stage and
  an apply, a form against a frame, or the panel against a frame; each submission edits up to two of six rows; its
  clock's row is blank, a good time, the ceiling's second, or beyond it.
* `Device`: three changes of the WiFi settings with a delay that saturates at the second attempt; three
  requests of up to two chunks, so one can inherit from the one before and hand on to the next; two messages,
  one power cut, an interval of one in a counter of eight over a horizon of two; two edits of the card and
  one failed write, with restarts unbounded; the whole table of screens, with three channels whose forms
  change: the first two, which are neighbours, and the last.
* `CommandWrap`: a counter of four over a horizon of three, so half its range passes after a reset.
  `MenuStuck`: as in `Device`.

### Fairness

* `LinkSettings`: weak fairness of the pass and of the clock: the logic task runs, and `millis()` counts. Strong
  fairness of `ScheduledRestart`: after a factory reset the reboot is due at the end of every pass from some time
  on, so a pass cannot skip it for ever. Frames, operators and power cuts are not fair.
* `MqttPublisher`: weak fairness of "a step moves `pc`" (some step of the pass is always enabled, and each
  moves it) and of "the clock moves" (unless a `tick()` is due). Both hold of a loop that never blocks. A
  connection is not fair: properties that need one have it in their premise.
* `MqttSession`: weak fairness of the pass, of an event being reported, and of a deadline. That a connection
  succeeds or lasts is not assumed.
* `Metering`: weak fairness of the logic task (the panel, the engine, the saving pass), and strong fairness of `SaveDue`: at the end of an engine round
  the minute is over again and again. The polling loop, frames and the flash are not fair.
* `Panel`: weak fairness of the next step: the pass goes on. Presses are free; `ToastLeaves` and `RestartHappens`
  hold whatever the operator does.
* `WifiManager` (in `Device`): weak fairness of the pass, of the deadlines and of the time; after `WorldSettles`, which
  need not come, a joining station gets an answer. `Associates` has in its premise that the world is settled
  and the settings steady.
* `MenuCard` (in `Device`): weak fairness of the boot and the pass. Crashes, power cuts and operators are not fair.
* `NetSettings`, `PortalRequest`, `MqttCommand` and `Navigation` state none: their properties are safety.

## 6. Where the code and its documents disagree

Five are runs of their own; the quotations are in `PROJECT.json`.

* **A change by the bus can be rolled back at once** (`LinkEarlyRollback`). The pass reads `now` at its top. A
  frame applies afterwards and stamps a later time. `nowMs - appliedAtMs_` wraps to nearly 2^32.
* **Discovery can silence telemetry** (`DiscoveryStorm`). A refused burst is never recorded as published, so the
  next change of channels asks for it in every pass, and the ring holds discovery only. The documents know that
  part of a large burst is refused (`DF30`), not that it repeats.
* **The session can stay down** (`SessionStuck`). A connection reported while the client is being stopped leaves a
  latch; taken after the reset, it makes the ladder believe in a session.
* **The boot-loop guard fires for ever** (`MenuStuck`). It returns without resetting the counter of attempts,
  which only a rendered pack resets, so it clears every later selection at the next boot.
* **A reset is refused for weeks** (`CommandWrap`). The rate limit compares wrapping times as signed numbers: from
  half the counter's range after an accepted reset until it comes round, the next one is "too early".

Others are stated in the modules, where TLC finds them violated, and are in no run:

* `LinkSettings!HardwareMatchesLive`: a restart request can be lost, because the flag is read and then cleared;
  `IdHeals` shows that the slave ID recovers.
* `MqttPublisher!RecordedIsAnnounced`: a channel that a frame puts in service while a burst is queued is recorded
  as published (`firmware.cpp:610` reads the bitmap again) though no entity of it was announced, where `firmware.cpp:606`
  says that is what recording only whole sets prevents.
* `Metering!PulsesCountedOnce`: a pulse can be metered twice, since increment and read-and-clear are not
  atomic. `GrossStaysFinite`: the engine tests one calibration and divides by another, and 0/0 reaches the
  total. `EveryConfigReachesFlash`: a calibration can stay wrong in flash, if half of it landed and the operator
  went back to the old value. `NeverDemolished`: a frame that completes a calibration between the panel's check
  and its store is overwritten by an incomplete copy, where `modbus/modbus_manager.cpp:898` says a valid one cannot be
  demolished field by field. `ExemptionStillNeeded`: an exemption granted before the rate was measured, or at a
  lower one, stays when the loop can sample the channel after all, where the project document (line 117) says
  it resets when the sensor passes validation.
* `NetSettings!FormAllOrNothing`: a submission can be refused in part after its first pass accepted it (a topic
  may be within its length and yet not committable), where `net/portal_form.cpp` says one bad field refuses the
  whole. `ClockBoundsAgree`: so can one whose time is 4102444800, which the page lets through and the clock does
  not take. `ShadowIsTrue`: an apply during the save is taken for saved, as the revision is read after the keys.
* `Panel!SelectorOwnsButtons`: the countdown of a guarded action is advanced before the Select Menu page takes
  the buttons. `WakesOnP0`: the press that wakes the display can act on P0 in the same pass.
* `MenuCard!BusGivenBack`: a pointer that cannot be written leaves the bus with the card, and the panel is not
  drawn until the next card operation.

Met on the way and not the subject of a run: `net/mqtt_reconnect.h` describes attempts rationed by the
ladder, while the client it creates keeps reconnecting by itself every ten seconds; a comment in the pass
says the client is recreated where it is only created if there is none. A connection that comes and goes
between the pass's two latch tests leaves the republish policy connected with no connection; that is
harmless, since the pass asks the transport first, and `PolicyKnowsLink` claims the other direction only. The
panel's change of one flag of register 564 is a read, a stage and an apply: a frame in between is undone
(`PanelEditsOneFlag` has `quiet` in its premise). A hold of UP that becomes one of DOWN within a pass restarts
the ramp and keeps the release of UP as a press. A page that a bus write hides while the operator stands on
it is on no ring: UP then lands on an arbitrary member (`LevelsWork` speaks of pages that are shown).

## 7. Proofs

Checked by TLAPS from the assumptions named in the modules and listed in section 4. Each theorem is for every
value of the constants they allow. An invariant is seldom inductive by itself; for each, what had to be added
and why.

**`LinkSettingsProofs`**

* `WindowGuardsTrial`: `Spec => [](TypeOK /\ UndoExists /\ TrialIsArmed)`. The conjunction is inductive (`Safe`): that
  an armed window has something to go back to is preserved by an apply because it does nothing for equal
  settings, which needs the types, and a rollback keeps `TrialIsArmed` because both sides fall together.
  `TypesAlwaysHold` and `UndoAlwaysExists` are its parts.
* `BoundAlwaysServed`: `Spec => []BoundIsServed`. The workers say where the rebind stands (`RebindFits`): between its
  halves two IDs answer, and no frame can move the live one then, because the port is closed. That is why
  the order of `restartRs485()` matters.
* `SettingsFollowTrial`: `Spec => ImplementsTrial`. Each action is a step of the abstract trial or a stutter; `Safe` is
  what makes a confirmation an `Accept` and a rollback a `Revert`, since both need the settings to be on
  trial. `LinkTrial` has no fairness, so this is safety only.

**`MqttPublisherProofs`** (any topics, ring length, burst size, batch and intervals)

* The ring's arithmetic is in two lemmas: a position is a cell, one step or one turn away (`CellFacts`), and what an
  eviction leaves is the sequence before without its oldest telemetry (`EvictFacts`). From them, a message
  is taken in one of three ways (`Took`): refused, appended, or appended after the oldest telemetry has gone.
  All else is about sequences.
* `TypesAlwaysHold`: head and count stay in the ring, and the occupied cells, and no others, hold messages.
* `BaselineAlwaysNewest`. Inductive with the ring (`QueueFits`): what gives way is *older* than any other
  message of its slot, so it uncovers nothing; a baseline moves only when its message is taken. The
  mutant that evicts the newest breaks just that.
* `PolicyAlwaysKnows`, whether or not the ring took the burst that greeted the connection. Added (`LinkFits`): a loss still to be noticed has not been made good, so that noticing it
  late takes nothing from a later connection.
* `QueueLosesOnlyTelemetry`: `Spec => OnlyTelemetryIsLost`, the refinement of `LossyQueue`. A pass's step may take dozens
  of messages; that all of them together lose only the oldest telemetry is carried along (`Loses`): the
  queue now is what is left of the old one without its n oldest, followed by newer messages, and is full if
  n is not 0.
* `tick()` and a burst are loops of a length the constants decide. Their recursive functions are shown to exist
  step by step (`Counting!StepByStep`), and what holds after each turn is shown by its least counterexample
  (`Counting!LeastNumber`), which takes the place of an induction.

**`MqttSessionProofs`**

* `ConnectionIsReal`: `Spec => []ConnectedIsReal`. Not inductive alone: the flag follows an event, so the invariant
  `Session` says what the client is while an event is being reported (`EventsMatch`).
* `SessionsAreNoticed`: `Spec => []SessionNotOverlooked`, from the same invariant.
* `TypesAlwaysHold`. Its part about the ladder is separate (`LadderTyped`), because the ladder moves in almost every
  step of the pass.

**`MeteringProofs`** (any number of channels)

* `ExemptionAlwaysFits`: `Spec => []ExemptionFits`, at every rate and through every change of it. The invariant
  (`Fitting`) has the types of the calibrations, and what the panel knows of its candidate at each of its steps
  (`EditFits`): once judged, the override is already the candidate's, and an incomplete one is only stored over
  one that was incomplete too. Both hold of a channel until a frame comes to it in the middle of the command;
  such channels are the exception (`Unsettled`). A case per register: a reset clears the override with the
  calibration, and a write decides both in one handler.
* `CalibrationNotDemolished`: `Spec => NotDemolished`, an action property, from the same invariant: only a store that a
  frame overtook can demolish.
* `TypesAlwaysHold`. `Fitting` is in its invariant, as what is saved is the calibration in force or what a
  save began with.

**`NetSettingsProofs`**

* `SavedIsStored`: `Spec => []SavedMeansStored`. Not inductive: during a save the invariant says that
  each key is on the flash or still to do, unless a write failed or an apply overtook it (`SaveFits`), and that
  the shadow is behind, so a failed save cannot pass for a good one. What a boot restores from what it has
  restored is the same (`RestoredHolds`), which covers the power cut.
* `PanelSetsOneFlag`, `FormsSaveEdits`, `AnswersAreTrue`: the three action properties. They relate the end of an edit to
  its start, so the invariant (`Surfaces`) says what holds on the way. While nobody else wrote, a page shows
  the live settings and nothing is pending behind it; of a submission under way, each row is staged with
  what it should come to, or still to do (`FormFits`). A checked box follows its hidden companion, which has
  staged the opposite; so the invariant also says that the companion is never the last of the two. For the
  panel it says that the word it read differs from the master's in the edited flag only (`PanelFits`).
  The answer is true because an `apply` of equal settings does not count as a change, unless there is a residue
  (`Applied`), and because the clock counts exactly when it was set (`AnswerFits`).
* `TypesAlwaysHold`: what is staged, live, on a page or on the flash is a block of settings.

**`DeviceProofs`** is about `MCDevice`'s specification, whose steps are steps of one part (`PartsPlay`), so the theorems
are the properties the `Device` run checks.

* `ResetsKeepDistance`: `Spec => ResetsSpaced`, if the interval is at most half the counter's range. A
  remainder is unique (`Counting!Remainder`), so less than the interval after a reset the signed comparison says
  "before" however often the counter came round (`TooEarlyIsSeen`); across boots, a kept epoch is what the
  router is seeded with (`Remembers`), and a reset about to be written is the one just made (`WritesLatest`).
* `RadioAlwaysMatches`: `Spec => []RadioMatchesState`. The invariant adds what holds between the two
  reads of a connection (`JoinIsReady`).
* `OnlyOwnBodies`: `Spec => SubmitsOwnWholeBody`. The invariant says what the buffer holds at each
  point of a request (`BufferFits`): nothing between requests, the first chunks of its own while they come,
  all of them or nothing complete at its handler.
* `FramesAreCurrent`: `Spec => PanelIsCurrent`. What the renderer believes is on the panel unless a
  repaint is owed or the card has the bus (`MemoryIsTrue`).
* `LevelsAlwaysWork`: `Spec => []LevelsWork`. The invariant (`Standing`) says where the operator stands: each screen on
  the stack is a level deeper than the one below it (`Places`), past a sensor's page all are of that sensor's menu
  (`SensorKnown`), and an open editor is the one of the screen shown, above the page with its setting
  (`EditorFits`). So the ring of a page is one of the table's, with some members hidden. The members that are
  shown can be listed in the order of the ring (`Counting!Ascending`), and three walks are shown to keep to that
  list, turn by turn: the next visible sibling is the next in the list (`NextShown`), since what lies between two
  neighbours is hidden and the gap is no longer than the ring; the walk once round meets every other member
  once and stops (`ForwardRound`), so UP ends on the one before (`PreviousShown`); and the position is the distance
  to a member on which every page of the ring agrees (`AnchorExists`, `CountsFrom`), so it moves by one. The
  walks being recursive functions, they exist by `Counting!StepByStep`, and each fact about all of their turns is
  shown by its least counterexample.
* `PagesShowTheirOwn`: `Spec => []PageShowsItsOwn`, from the same invariant. Resolver by resolver, no answer is a mark the
  screen must not show (`Fine`): a sensor's rows need a chosen sensor, which `SensorKnown` gives on the screens of its
  menu; a screen that only a formula shows needs terms, which the form that shows it gives. What the table binds has
  a resolver that answers (`BoundAnswers`), and the first that does is one of them (`FirstAnswers`).
* `PositionsAreTyped`: `Spec => []N!TypeOK`. That the stack fits its array is `Places`: no level is deeper.
* `PartsAreTyped`: `Spec => [](W!TypeOK /\ P!TypeOK /\ C!TypeOK /\ K!TypeOK)`, each with the invariant of its part above: a
  connection returns to one of the two steps that may begin one (`JoinIsReady`), a chunk is appended only below the
  capacity, a stamp is a remainder, and the boot counts an attempt only below the guard's limit.

**`PanelProofs`** (every table of the kind `PanelTable` describes, all times) has one invariant, `PanelInv`:

* `EditorStaysOnItsScreen`: an editor was *descended* to (`EditorFits`), so something is on the stack, which is why a
  countdown that the timeout has left behind for the root level (`HoldFits`) cannot complete over it; its
  flows name no sibling, and every other way off its screen closes it.
* `SensorAlwaysFollows`: whatever is above a sensor's page is of that sensor's menu (`SensorFits`), not only the
  screen shown; otherwise a step back would show a screen nothing is known of.
* `HoldsAreWhole`: `Spec => FullHold`. A countdown's age never exceeds the time ENTER has been down, and is less until the
  countdown's handler has run (`HoldFits`); and it belongs to the screen shown, unless the inactivity
  timeout has just left that for P0, in which case the handler aborts it before it counts.
* `RampsOwnTheirRelease`: `Spec => RampOwnsItsRelease`. From the ramp's handler on, the ring holds nothing of the ramp's
  button (`RampFits`); before it, the button is still the ramp's.
* `TypesAlwaysHold`: also that the ring never needs a fourth event (a poll gives each button one at most) and that
  the stack stays within its array.

Only model-checked:

* everything temporal (`UnconfirmedResolves`, `IdHeals`, `BrokerCatchesUp`, `SessionsSubscribe`, `OffMeansOff`,
  `FlashCatchesUp`, `AlarmTells`, `ToastLeaves`, `RestartHappens`, `Associates`, `BootLoopEnds`): liveness under fairness is
  out of the prover's reach;
* the five disagreements of section 6 and those stated in the modules, which are counterexamples.

## 8. Not modelled, and why

* Text: payloads, discovery documents, the page's HTML, names, units, the display's number formats. Only their
  effect on the ring (one message), the state (a staged value) or the screen (which resolver answers) is of
  interest to the properties.
* Flow rates, maxima, diagnostics flags, sensor groups and board temperature: derived or cached values with no
  order of events of their own.
* The device clock: `base + elapsed`, and which source may overwrite which. That the elapsed milliseconds wrap after
  49.7 days without a rebase is listed as a hazard.
* LEDs (the card LED apart), the network status and the MQTT snapshot: presentation of state kept elsewhere.
* The pack format: the loader's models need only whether a pack validates. A loaded pack is parsed and
  confirmed, while the screens stay those of the built-in table, since the router is built on it.
* The portal's password check and its rows for sensors and links; registers that only read out.
* Lengths of delays and their jitter.
* The theme, the desktop sandbox, the web mock-up and the tools: no firmware behaviour.
