# A verification development for ha-config

This directory holds TLA+ models of the parts of this Home Assistant
configuration whose behaviour depends on the order of events, the TLC
configurations that check them on small instances, and theorems about them
that TLAPS checks for every value of the constants. Paths are relative to the
root of the repository; `AU`, `SC`, `A` and `S` stand for `automations.yaml`,
`scripts.yaml`, `custom_components/alarmo/alarm_control_panel.py` and
`custom_components/alarmo/sensors.py`, `RM` for
`custom_components/update_manager/rollout_manager.py`, `VR` and `WC` for
`video-rtc.js` and `webrtc-camera.js` of `custom_components/webrtc/www`.

    tlc -workers 2 -config AlarmoArea_codes.cfg MCAlarmoArea
    tlapm AlarmoAreaProofs.tla

## 1. The system

Home Assistant runs integrations, scripts and automations on one event loop. A
Python callback is atomic; a coroutine, and the run of a script or automation,
gives up the loop at every service call, delay and wait. So what interleaves is
the steps of runs with each other, with timers, with changes of entities and
with people. A script or automation has a mode (`single`: a call during a run
is dropped; `restart`: the run is cancelled; `queued`: runs wait, up to `max`).
Runs, timers and callbacks do not survive a restart of Home Assistant; helpers
(`input_boolean`, `input_number`) and the state of entities that ask for it do.

### Inventory

| Component | State | Operations | What is hard | What makes it correct |
|---|---|---|---|---|
| **Alarmo area** (A) | alarm state, `_arm_mode`, `_revert_state`, one timer, bypassed sensors | arm, disarm, skip delay, trigger, three timer callbacks, restore | the code of a request is checked while the loop runs; switches that fail; restart in any state | the timer belongs to the state; the mode is the one the sensors are filtered by; countdowns end and are not extended |
| **Alarmo sensors** (S) | watched sensors, `_unavailable_state_mem`, `delay_on` and arm-on-close timers | state change, timer callbacks, validation, evaluation on startup, renewal of the listener | the listener is renewed in a thread, behind the state; a timer that ends in another mode; a sensor that comes back; sensors unknown until startup | an armed area reacts to every active sensor; a disarmed one only to always-on sensors |
| **Announcements** (SC 2-87, AU 780-950) | volumes, the script's queue, one run per doorbell automation | call, boost, speak, turn back, fanfare | three users of the same speakers, two of them outside the queue; failing services | volumes are put back; every call ends |
| **Patio door** (AU 1605-1633) | the helper that turns rear camera detection off, the run that turns it on | scan, announce, wait for the door, time out | it waits in the announcements' queue; door closes meanwhile; errors; restarts | detection does not stay off |
| **Electricity cost** (AU 301-408, 688-728, 1254-1294) | sum, rate, marks, baseline | four rate changes, snapshot, baseline, grid-free check | each is several awaited steps with readings of their own; missed triggers; unavailable sensor | the sum is what the units cost; an error reaches the next day only by way of a missed snapshot or night automation |
| **Strobe** (SC 88-274, AU 1295-1332) | one scene, the run of the script | call, flash, darken, restore | two areas and others compete for a `single` script; `restart`, failing calls and restarts cut runs off | lights end as someone set them; the strobe stops with the alarm |
| **Alarmo master** (A 1204-1600) | the areas' combined state and mode, what it is arming to, what it goes back to | arm, disarm, trigger all areas; hear of their changes, failures and expired alarms | it calls areas at once and hears of them later; areas fail one by one, or are armed in different modes | what it shows fits the areas; areas keep a mode that fits; an alarm is not silenced in passing |
| **Camera card** (VR, WC) | one web socket, one peer connection, their states, three timers, the signing request | given `hass`, put in, taken out, shown, hidden, click; open, close, answer, failure, first frame | callbacks are not told of which socket or peer they are; a request is answered after the card has gone; two timers against the page | nothing runs that the card does not know; a card that was taken out stops; a watched card plays |
| **Update rollout** (RM) | a queue per Zigbee network, updates held back by the tier gate, what is in flight, their file | request, cancel, pause, stop waiting; completion, tick, recovery | every save suspends its coroutine; a tick starts three coroutines; devices doze off; Core's install ends in a restart | one install at a time; everyone's turn comes; the file is what the memory is |
| Update Manager's other parts (install manager, staging, coordinator, panel) | which updates are offered, votes, postponements | stage, skip, install by itself | - | - |
| Own dashboard cards (`www/*.js`) | rows shown | fetch, draw | an older answer after a newer one | what is shown is the newest |
| Sensor groups, readiness (S 642-726) | trigger times in a group | group event | timeouts within a group | a group triggers when enough sensors did in time |
| Cat alarm (AU 1564-1661, 1859-1874, 2093-2155) | helper, light strip, scene | toggle, announce, colour, restore, disable at sundown | queue of three runs with one scene | the strip is put back |
| Bins (AU 1-104, 3296-3319) | seen-out latch | remind, check, latch | the latch is set by one automation, read and reset by another | one reminder when no bin was seen |
| Occupancy lighting (AU 558-, 1440-1531) | scene, run with delays | enter, leave, fade | `restart` runs with delays | lights go off, not under people |
| Solis alerts, string imbalance (AU 2450-2683, 2789-2914) | alert latches, streak of days | alert, clear, count | waits of 15 minutes against latches that persist | one alert per outage |
| Maintenance (AU 2277-2394) | latches of done jobs | mark, reset, sync | - | - |
| Rest: appliance counters, dimmers and scenes, weather, parcels, cameras, printer, batteries, packages, report scripts, front end, vendored integrations, Node-RED flows (not in the repository) | - | one trigger, one message or command | - | - |

How they interact: the sensor handler calls the area entity and the entity asks
the handler to validate an arming; the master fans out to areas; the areas'
states trigger the strobe; the patio door, cat alarm, parcel and bins call
`script.tts_announce` and wait for it; the doorbell automations share its
speakers; every 'Electricity Rate' automation reads what the previous one
marked. The camera card speaks with the integration's server through a signed
web socket and with the camera's peer; the rollout is asked by the panel (over
the websocket API) and by the install manager, calls `update.install`, and
hears of the end of an install from the coordinator.

`PROJECT.json` repeats the list with what is modelled of each, and lists under
`hazards` the lines where the orderings above bite.

## 2. The modules

| Module | Models | Built on |
|---|---|---|
| `AlarmoArea` | one alarm area and its sensor handler | |
| `MCAlarmoArea`, `AlarmoAreaProofs` | TLC instance, proofs, with the proof that the contract below is kept | `AlarmoArea` |
| `AreaEntity`, `AreaContract` | an area as its callers see it: its operations on state, mode and `_revert_state`, and the steps that it promises | implemented by `AlarmoArea` |
| `AlarmoMaster`, `MCAlarmoMaster`, `AlarmoMasterProofs` | the master entity and the signals between it and its areas | composes areas that keep `AreaContract` |
| `VolumeContract` | what announcements may do to a volume | |
| `Announce` | the queued script, the two doorbell automations, their speakers | refines `VolumeContract` |
| `MCAnnounce`, `AnnounceProofs` | | `Announce` |
| `PatioDoor` | the patio door's automation in the script's queue | composes with `Announce` |
| `MCPatioDoor`, `PatioDoorProofs` | | `PatioDoor`, `AnnounceProofs` |
| `ImportCost`, `MCImportCost`, `ImportCostProofs` | rates, snapshot, baseline and grid-free check | |
| `Strobe` | the strobe script, the automations of both areas, other callers | |
| `MCStrobe`, `StrobeProofs` | | `Strobe` |
| `CameraStream`, `MCCameraStream`, `CameraStreamProofs` | one camera card: sockets, peers, timers, page | |
| `Rollout`, `MCRollout`, `RolloutProofs` | the rollout manager: one network's queue, Core, saves, ticks, restarts | |

A definition that begins with a comment "Mutant:" is a plausible bug in the
definition that follows it. It is used by no specification; each property is
known to fail when its mutant takes that definition's place.

### AlarmoArea

The entity's fields are one record `area` (`state`, `mode` for `_arm_mode`,
`revert` for `_revert_state`, the one timer with the time left, the bypassed
sensors, `_bypass_open_sensors`). The methods are operators from such a record
to the next (`Arm`, `ArmNow`, `ArmDelayed`, `ArmFailure`, `Trigger`, `Sound`,
`TriggerExpired`, `UpdateState`), composed as the methods call one another. An
action is what the loop delivers:

| Action | Event |
|---|---|
| `RequestNoCode`, `RequestWithCode`, `CodeRight`, `CodeWrong` | an arm or disarm request; with a code, it is accepted on the state of that moment (`Accepts`) and performed later, when `_validate_code` has returned |
| `SkipDelay`, `TriggerService` | the two services |
| `LeaveTimerFinished`, `EntryTimerFinished`, `TriggerTimerFinished` | the entity's timer |
| `SensorChanges` | a sensor's state changes; `Handle` is `async_sensor_state_changed` |
| `DelayOnFinished`, `ArmTimerFinished` | the handler's timers |
| `Lists`, `Listens` | the two halves of `async_watch_sensor_states`: the list is made and the old listener given up; the new one is set |
| `Stop`, `Restore`, `Started`, `Evaluate` | a clean stop, the entity added again, Home Assistant started, one sensor of the evaluation on startup |
| `Tick` | time passes; only when no timer is due |

Left out: sensor groups, ready-to-arm modes, the attributes and events that are
only reported (`open_sensors`, `delay`, MQTT and bus events), entities that do
not exist, changes of the configuration while running, an unclean stop (the
last saved state may then be minutes old). The evaluation on startup is a loop
that gives up the event loop nowhere, so no step of the loop comes between its
`Evaluate` steps. One `CodeRequired` stands for the code settings of all
requests. In `ConfigAssumption`, a sensor can always be closed, and
`LongestTriggerTime` is the operator `LongestOf` of the modes' times, given as
a constant so that the proofs need no `CHOOSE`.

`watch` is the listener. A change of state sends a signal (`Tells`, A 871), and
`async_watch_sensor_states` is no callback, so that the dispatcher runs it in a
thread: some time later it makes the list (`ToWatch`), gives the old listener
up (`Lists`), and then sets the new one (`Listens`, S 224-230). A sensor that
is not in `list` when it changes is not handled (`SensorChanges`). So an opening
may be lost before the list is renewed, and while there is no listener; and a
change of the mode or of the bypassed sensors that sends no signal leaves the
list as it was. `astray` remembers the latter, and that two renewals have
crossed: then the older list may be the one that stays. Other areas and the
master send the same signal (`SignalsElsewhere`). Left out: of two renewals that
cross, one listener may be lost sight of and never given up; the sensors would
then be handled twice.

### AreaEntity, AreaContract, AlarmoMaster

`AreaEntity` reduces an area to state, mode and `_revert_state`, and sensors and
delays to an outcome: `ok` when nothing blocks an arming, `now` when a trigger
waits for no entry delay. `AreaContract` is the specification of one area over
these operators; `KeepsContract` of `AlarmoArea` says that the detailed area
implements it while Home Assistant is up.

`AlarmoMaster` has a function `area` of such entities, whose steps
(`AreaArms`, `AreaDisarms`, `ArmingEnds`, `AreaTriggers`, `SirenEnds`) are those
of the contract, and the master's fields. What the master does to its areas
(`ArmRight`, `DisarmRight`, `SkipsExit`, `TriggersAll`) is one step, as the code
never gives up the loop inside; what the areas tell the master
(`alarmo_state_updated`, two of the `alarmo_event`s) is in `inbox` until
`Shows`, `HearsOfFailure` or `HearsOfExpiry` takes it. A request is checked
before its code and performed after; by then the master may be in any state, so
`ArmRight` asks for none. `SkipsExitOfMixed` is the exception of A 1509-1513
when areas arm in different modes; `crashed` remembers it. Left out: restart,
configuration changes, the attributes, the passing on of events to automations.

### Announce, VolumeContract

A run is a record: the step it is in, the speakers it has turned up (`on`), the
volume to put back on each (`back`), the time left of its delay. `StartRun` is
the beginning of a queued run up to the boost, `Speaks` the call of the
speaking service, `FinishRun` the end of the delay and the restoring.
`Rings`, `DelayEnds`, `PlayFanfare` and `TurnsBack` are the doorbell
automations. `Fails` is an error of any of the services that a run calls, to
turn up, to speak or to turn back (`AtCall`); it ends the run where it is, and
the next one of the queue begins. `Restart` loses all runs.

Three variables are history: `asked`, the volume that a person chose last;
`loud`, the speakers at full volume that nothing is going to turn back; and
`misread`, per run, the speakers whose full volume it took for the volume to
put back.

`VolumeContract` is what the script alone (no doorbell automation) does to the
volumes people choose, as steps of its own: a choice made while an announcement
is on that speaker comes to nothing (`PersonSets`, the restore of SC 81-87
overwrites it); an announcement keeps a level or makes it the usual one
(`Begins`); it turns back all that it turned up (`Ends`), or breaks off and
leaves its speakers at full volume, except those that someone has turned down
since (`BreaksOff`). The level of the contract is `settled`: the volume, or,
during a run, the one to put back.

Assumptions: the `volume_level` attribute is up to date after `volume_set`
returns; a speaker that is off reports none, and the code's fallback (0.5 or
0.4) is used; the two minutes of the greeting start at an arbitrary moment, so
the delay ends at any moment; the order in which several speakers are turned
back is arbitrary; a caller waits for its queued run, and a call over the
queue's `max` returns at once; a call that sets several speakers, and fails, has
set none. The group is turned to 0.5 at the end rather than restored (SC
60-68): the contract says so, "the usual volume".

### PatioDoor

The automation's run is `patio`: to call, calling, waiting, to call, calling.
`flag` is the helper, `lost` a history variable. An error of
the announcement ends the caller's run (`RunFails`). Only this automation sets
the helper here; the dashboard's toggle and what reads it (Node-RED, Frigate)
are not modelled.

### ImportCost

Time is the cycle of instants at which something is triggered; between two of
them the meter advances. A run is the sequence of the `set_value` calls of the
automation, and the runs of an instant interleave. Rates and units are
integers; rounding is left out, the fixed charges are one constant, and the
other `yesterday_*` helpers are not modelled. Faults: an instant missed because
Home Assistant is down (time triggers are not caught up), a crash between two
steps, a sensor that becomes unavailable and so reads as 0, and a unit that
arrives between two steps. Three variables of the history tell what is known of
an error: `clean`, whether all of today's runs were in time and complete and
found the sensor; `undone`, which were not; and `wrong`, by how much the sum of
a clean day is off, because of the sum that the day began with (`Midnight`), the
rate that it began with, or a unit that came between two steps of a run
(`Astray`). Units between 23:58 and midnight belong, by the
automations' design, to no day's cost.

### Strobe

`alarm` is the set of triggered areas, `owner` the caller whose run of the
`single` script is under way. A run breaks off (`BreaksOff`), and never comes
to its `scene.turn_on`, in three ways: its area goes off again (`Triggers` is
the area's `restart` automation, and the run that it awaits is cancelled with
it), a call of a light or scene service fails (`Fails`, `CannotStart`), or Home
Assistant restarts (`Restarts`), which also loses the scene. A restored area
that is still triggered may or may not start its automation again. `left` is
history: the lights are as such a run left them, flashing or dark, and nobody
has set them since; `spoilt`: the scene remembers such lights. Brightness and
colours are abstracted to a set of looks; other callers, who ask for a count of
flashes, are `Guest`s. The lights of the group are set together: a call that
fails has set all or none.

### CameraStream

The variables are the fields of the two classes (`ws`, `wsState`, `pc`,
`pcState`, the timers), what each socket and each peer is at, and the text of
the mode label, by which `onconnect` tells that a request is on its way (WC
146). `hass` is given to the card before or after it is put in: `onconnect`
turns away a card that has none (WC 143), and the setter does not ask again, as
its own comment says (WC 80-81: the call is commented out). A callback of a
socket or a peer is an action with that socket or peer as parameter; where the
code's callback is not told which one it was, the action works on `this.ws` and
`this.pc` as the code does. `socket` and `peer` are the other side: `Drops`,
`MediaStarts`, `Answered`, `PeerConnects` are what server, network and camera
do. A socket that was closed is "closing" until its close event; identities are
used again when nothing refers to them. What a stream carries is one bit: a
socket plays or not, and whichever is the better stream (VR 586) is either one,
MSE only when `mseCodecs` says so. Timers that can no longer be called off are
counted (`reconnects`), as `reconnectTID` holds only the last.

`mishaps` is history: "close", when `onclose` was called for one socket and
forgot another (VR 392); "gone", when a peer was given up for the stream of a
socket that was no longer there (`mseCodecs` is emptied by nobody but the next
`onopen`).

### Rollout

`rm` is the manager's memory and an operation of the manager a function from
such a memory to the next (`Advance`, `AdvancePastStalledFront`, `Enqueue`,
`Retry`, `RecheckStuckInstalls`, `RecheckQueueFronts`), composed as the methods
call one another: the tick is the composition of four. A coroutine runs until
its save, so an action ends there and leaves in `rm.writes` what the coroutine
does next (a resume record: whom to dispatch, an entry to ask for again, a
retry). `Write` is the end of a save and the rest of that coroutine. The list
that `_async_advance` holds across its save (`entries`, RM 1034) is the queue
only while nobody puts another list in its place: `Foremost` is "whatever heads
that list then", `Detached` what becomes of it when a pause replaces the list
or it has been emptied.

Saves are written one at a time, each with what the store was given last.
`Brisk` says that they are over before the next tick; without it a tick may
come in the middle of any. In either case the save before a dispatch takes less
than the minute of `_FRONT_GRACE` (`Ages`). The call of `update.install`
returns at once, as with Zigbee2MQTT: the device's own `in_progress` comes
later (`Starts`), which is why the minute is there (RM 166-178). `Fails` ends an
install, or loses a request that never starts; `Dozes` is the sleepy device
whose `in_progress` goes away in the middle (RM 1077-1081). `CoreRestarts` and
`Crash` restart Home Assistant: memory is loaded from the file, `in_progress`
of a device survives, coroutines and calls do not, and the coordinator tells
what ended before again or not.

`rm.wrong` is history: a front gave way "early", while its install was under way
or a coroutine was about to dispatch it; a verdict fell on a front that "never"
had its turn; a front was dispatched again "unsaved", while its first dispatch
was still in its save; "late" news of another version of the front took its
minute away. That "early" is an exception `OneAtATime` needs was found while
its invariant was worked out: RM 1248-1250 holds it "always safe to advance
immediately" past a front that has its target version, but with two devices and
a second version the front may have the version of its entry while a newer one
is being installed on it (asked for after a restart that dispatched it again,
or by the request of an `ask` that found it at the front); it gives way, and
the next device starts beside it. The runs are too small for that (one version,
or one device), TLC finds it with `MaxVersion = 2` and two devices.

A request names a version, whatever is known of the update (`Known`): nothing
asks whether it is pending or being installed already, and the call of
`update.install` refuses what cannot be done. After a crash `Restart` asks again
for whatever the file holds, Core still blocked in it included.

Left out: who asked, texts, other networks, tiers between firmware and Core,
entities that are unavailable between restarts, renames, the clock of the stuck
issue, and ZHA, whose call lasts as long as the install.

## 3. Properties

One type invariant per module, and:

| Property | Statement | Exceptions it states, each seen in the code |
|---|---|---|
| `TimerFitsState` | the entity's one timer is that of its state | an arming restored after a restart has no `_revert_state`: when its delay ends over an open sensor there is nothing to go back to, and it stays arming without a timer |
| `ModeFitsState` | the armed or arming mode is the mode by which sensors are filtered | |
| `EntryNeverExtended` | nothing moves the end of a running entry delay away | a restart begins the delay again |
| `DisarmedStaysQuiet` | a disarmed area is set off by an always-on sensor or the service only, whatever timers are left | |
| `ReturnsToItsMode` | an alarm arms again by itself only at the end of the siren's time, and only in its mode | a request accepted before it went off, while its code was checked |
| `NoSilentOpening` | an area comes to be armed over an open active sensor in five ways only | the sensor was open before it was unavailable; an abandoned switch puts the old mode back; a switch that bypasses others drops it from the bypassed (A 938-939); the option to ignore blocking sensors; the opening is not heard (`Unheard`), the list of watched sensors being behind (S 209-230) |
| `CountdownsEnd` | an arming with a delay and an entry delay end | an arming without a timer (see `TimerFitsState`) |
| `KeepsContract` | to its callers an area does no more than `AreaContract` says | a start of Home Assistant is outside the contract |
| `MasterShowsAreas` | the master shows what its areas amount to | a signal that makes it look is under way, or the areas have no state in common: then it shows the last one they had |
| `AreaModesFit` | however the master arms and puts back, the area's mode fits its state | skip_delay while areas arm in different modes has failed and left an area without a mode |
| `AlarmKept` | an alarm is silenced by a request to its area, the end of a siren's time, disarming the master, or a failed arming of the master | that a failed arming silences an alarm is what the code does (A 1546-1548), while the master has a target left, be it of an arming that was given up; so does the end of another area's siren, if that area is disarmed when the signal is heard |
| `FullOnlyWhileRaised` | full volume is always about to be turned back, and to less, by script and doorbell automations | a person likes it so; the run that turned it up broke off; a run read the volume while it was loud or turned up by another (`misread`) |
| `ScriptSettles` | the script implements `VolumeContract` | of the script without the doorbell automations; the contract itself has the choice that is overwritten and the run that breaks off |
| `CallEnds`, `DoorbellEnds` | accepted calls, and runs of the doorbell automations, end | |
| `OffIsOwned`, `OffEnds` | detection that is off has a run that turns it on, and comes on | an error of the announcement (AU 1616) or a restart has ended that run (`lost`): then nothing turns it on until the door's next round. The properties say that these two are all |
| `SaysWhatIs` | what is said of the cameras is true while it is said | |
| `AddsUp` | sum and running leg are what the units cost | days that are not `clean`: an instant missed, a run interrupted, the sensor away; on the others what is known to be `wrong` |
| `StartsAfresh` | a day's error ends with the day | the sum is carried over midnight when the snapshot was missed or cut off, the rate when the night's automation was |
| `ReportsTheDay` | the cost that is kept is that of the day's units | as `AddsUp` |
| `GridFreeIsTrue` | who is told of a grid-free day has imported nothing since 8 am | the sensor is unavailable at 20:00 and reads as 0; the baseline was missed or cut off |
| `LeftAsSet` | the lights flash only during a run, which puts back a look that someone set | lights that a broken-off run has left (`left`); the scene of a run that began with such lights (`spoilt`) |
| `StopsWhenCleared`, `EndsQuiet` | a strobe stops with its alarm; in the end the lights are as set | for the lights, as before |
| `OneStream` | a live socket is the card's, a live peer is the card's | a close that was taken for that of a newer socket |
| `QuietWhenAway` | a card that was taken out holds no connection once no stop is due | |
| `Streams` | a card that stays on the screen comes to play | `hass` that came after `onconnect` had been turned away for want of it; an error it shows; a peer that was never answered or was refused, and outlives its socket (`Orphaned`); the two `mishaps` |
| `OneAtATime` | one device of the network is being installed at a time | a front gave way that was under way or about to be dispatched, or was dispatched again in its save |
| `FrontHasItsTurn` | the front has been dispatched, or the coroutine that will dispatch it is in its save | late news of another version of the front |
| `DiskAgrees` | once nothing is being written, the file is what the memory is | a retry that is in its call for Core |
| `Drains`, `CoreHasItsTurn` | every entry's turn comes or it is let go; Core does not wait for ever | |

## 4. Runs

| Run | Instance | States | What it shows |
|---|---|---|---|
| `AlarmoArea_codes` | two modes, a door and a sensor in the hall, one request at a time being checked, the listener not renewed; fair | 128,520 | timers, mode and reactions stay consistent although requests land in states they did not test; countdowns end; the contract is kept |
| `AlarmoArea_restart` | with a motion sensor, a smoke alarm that is always on, bypass, no code, restarts, blocking ignored after an alarm, one renewal of the listener at a time | 694,568 | the same over a stop and start in any state, with the list of watched sensors behind the state |
| `AlarmoMaster_areas` | two areas, two modes, one of them with an exit delay | 883,259 | what the master shows, puts back and silences, with anything happening before a signal is delivered |
| `Announce_script` | two speakers, three callers, a queue of two, one caller on the group, people who choose low or full volume, failures, restarts | 6,096 | what becomes of people's volumes is what the contract says |
| `Announce_all` | one speaker, two callers and a queue of two, both doorbell automations, failures at every call, restarts; fair | 107,104 | everything ends, also behind a run that fails; speakers are left loud in the known ways only |
| `PatioDoor_queue` | two other callers, a queue of two, failures, restarts; fair | 9,060 | detection comes on again |
| `ImportCost_faults` | one unit at most per band, one fault of any kind, any number of days | 380,498 | the sum adds up, and what of an error reaches the next day |
| `Strobe_areas` | two areas, a guest, two looks, two flashes, failing calls, restarts; fair | 3,136 | strobes stop and lights are put back |
| `CameraStream_page` | two sockets, two peers, page and viewport, `hass` early or late, two failures or clicks, two reconnections at once; fair | 884,523 | nothing is left running, and a watched card plays |
| `Rollout_queue` | two devices of a network, one version each, two saves at once, one fault; fair | 213,213 | one at a time, and everyone's turn comes |
| `Rollout_core` | one device of two versions, and Core, otherwise the same; fair | 174,989 | file and memory agree, Core's turn comes |

The small numbers are enough for the cases that matter: two modes give a switch
and a failed switch; the sensors differ in every option that the code asks
about; delays of 1 and 2 order timers before, after and at each other's end; a
queue of two with three callers is running, waiting and full; a band with no
unit or one tells each band's rate apart (rates 1, 10, 100, fixed charges
1000), and a fault in one day is followed by days without; two sockets are an
old and a new one, which is where callbacks go wrong; two devices are a front
and one behind it, and a save of each is what can overlap. `MaxRequests`,
`MaxRenewals`, `MaxUnits`, `MaxFaults`, `MaxInbox`, `MaxTimers`, `MaxVersion`
and `MaxWrites` are the only bounds that the code does not have. `MaxRenewals =
1` has an opening before, during and after a renewal of the listener; two that
cross, or that the signals of other areas start, are in the proof only. It is 0
in `AlarmoArea_codes`, where the listener keeps all sensors. `MaxInbox = 1`:
something new may happen before the last signal of an earlier call is
delivered, as when a second area changes before the master has heard of the
first; after an exception (`crashed`) only when none is under way. Deadlock is
checked in every run: none of these systems may stop.

**Fairness.** The event loop takes each step of a run and each due timer (weak
fairness of those actions), and time passes. Nobody is obliged to act: no
fairness for requests, sensors, doors, scans, calls, tags, switches, errors or
restarts. Liveness is checked without restarts for the area, with them for the
announcements, the patio door and the rollout. For the camera card, timers run
out, signing requests are answered, sockets open and close events come, a
server that has media sends it and an answered peer connects or is given up;
nobody is obliged to answer an offer. For the rollout, saves end, ticks and
minutes pass, and a device that was asked starts, ends or wakes in some way.

### Disagreements between code and text

`Claim_StalledHadStarted` is expected to find a violation. RM 1105 (and RM 89)
say of the notification "Update didn't finish", and of the verdict behind it,
that it is about "an install that started normally and simply never finished".
The run finds a device that was never dispatched: a front ends without its
update; the next tick starts `_async_advance`, which drops it and suspends in
its save; in the same tick `_async_recheck_queue_fronts` looks at the next
entry, which is the front now, has no `_in_flight` entry and so no minute of
grace, and drops that, too. A queue loses two entries for one that stalls, and
the user is told of both.

Other places where the code does something else than a text says, or than one
may expect, met while modelling; the properties state them as exceptions or the
models let them happen:

- A 515 "Check if conditions are met for starting arm procedure.": they are
  tested before the code is checked; an arm request that is accepted, and whose
  code is still being checked when the alarm goes off, silences it.
- S 449 "sensor is not active in this arm mode, ignore": the end of a
  `delay_on` wait that began in another mode does not ask.
- S 209-230: a sensor that opens after a change of state and before the list of
  watched sensors is renewed is not heard, and the area stays armed over it.
- WC 80-81: `hass` may be assigned after `onconnect`, and then nothing connects
  until the card is scrolled, hidden or put in again.
- A strobe that broke off (re-trigger, failing call, restart) leaves the lights
  flashing or dark, and the next run takes them for the look to restore.
- AU 782 "volume boosted then restored": a greeting that starts during an
  announcement reads, and puts back, full volume.
- AU 1608 "re-enables when patio door closes or after 6-hour timeout": a door
  that closes before the announcement has been made is missed: six hours.
- The master silences an alarm when an arming fails; its `_target_state`
  survives a disarming; the arm-on-close timer outlives its arming; an
  always-on sensor stays bypassed when the area falls back to disarmed (A 881);
  the strobe of a second area is dropped while that of the first is running (AU
  1316, SC 93); the group's volume is set and not restored.
- RM 1189-1193 "Advances past it immediately": a dispatch that fails within its
  front's minute is not advanced past until a later tick.
- The tier gate asks for `in_progress`, so an install that was dispatched and
  has not reported yet does not hold Core back; a cleared entry for Core is
  saved only after its dispatch (RM 852), so that Core's restart finds it
  blocked still and, if a newer version is there, installs again.
- A version that comes out between a request and its install makes the install
  end at another `installed_version` than the entry's: it is taken for a stall.
- A recovery whose front is not loaded yet dispatches it again (RM 1410).
- `onclose` and `onopen` (VR 300-305) do not say which socket: a late close
  forgets the newer socket, which goes on without its card. A refused offer
  (VR 532) closes the peer but `this.pc` keeps it, and `onconnect` is turned
  away by it for ever. A card that fails to get its path signed never asks
  again by itself. A card attached in a hidden tab starts all the same.

## 5. Proofs

All theorems are for every value of the constants under the named assumptions
of the modules (`ModeAssumption`, `ConfigAssumption`, `SpeakerAssumption`,
`LevelAssumption`, `TimeAssumption`, `PatioAssumption`, `StrobeAssumption`,
`MasterAssumption`, `RateAssumption`, `CameraAssumption`, `RolloutAssumption`),
which TLC evaluates in the runs.

- **`AlarmoAreaProofs`**: `TypeCorrect`, `TimersCorrect`, `ModeCorrect`,
  `EntryDeadlineHolds`, `DisarmedIsQuiet`, `AlarmReturns`, `OpeningsAreSeen`.
  None of the three invariants is inductive alone: the deadline of a countdown
  needs the types, a failed switch needs mode and `revert` together, the timers
  need the mode to look up the siren's time. The inductive invariant is their
  conjunction (`Inv`). Its proof follows the code: one lemma per operation of
  the entity says what it needs of the area and that its result fits
  (`RestFits`, `CountdownFits`, `SoundFits`, `TriggerFits`, `FailureFits`,
  `ArmNowFits`, `ArmDelayedFits`, `ArmFits`, `TriggerExpiredFits`,
  `SensorTriggerFits`), the lemmas on steps (`PerformStep`, `HandleStep`,
  `RestoreStep`, `TickStep`) combine them, `StepsKeepArea` and `StepsKeepRest`
  go through the actions. What sets an area off and what it does afterwards
  follows from what each operation leads to (`Calm` or `Alarm`). For
  `OpeningsAreSeen` two lemmas say what an arming leaves of an open sensor
  (`ArmNowOverOpen`, `ArmOverOpen`) and one that no reading "open" is
  overlooked in an armed area (`OpenIsHandled`); while the sensors are looked
  at on startup it needs the invariant `LooksAtOpen`: an open sensor of an
  armed area is still to be looked at or waits for its own delay. That a
  listener which is not being renewed and has not gone astray has the current
  list is the invariant `ListCurrent`, with a lemma for each thing that can
  happen to it (`TellsKeepsCurrent`, `SameKeepsCurrent`,
  `RenewalKeepsCurrent`).

  `AreaImplementsContract`, in the same module, is the refinement, under
  `~MayRestart`. The refinement mapping `View` keeps the three fields that
  callers see. One lemma per operation (`ViewOfUpdate` ... `ViewOfTrigger`,
  `ViewOfExpired`) says that `View` turns it into the contract's; sensors and
  delays become the outcome the contract chooses. The lemmas on steps
  (`PerformKept`, `SensorTriggerKept`, `StepsKept`) use the invariant `Inv`:
  without it a timer could end in a state that the contract does not let it
  end.
- **`AlarmoMasterProofs`**: `MasterFields`, `AreaModesAlwaysFit` and
  `AlarmsAreKept`, from the conjunction of the first two: a failed arming puts
  back what `_revert_state` says, so the fit of mode and state needs its type.
  One lemma per operation (`UpdateFits`, `FailureFits`, `ArmNowFits`,
  `RequestedFits`, ...), for any state in which the operation may land.

  `MasterTypes` and `MasterShows` are about the signals as well, for an inbox
  of any length. `Shown` says that the master shows what its areas amount to or
  will look again; the lemmas say of each operation on areas that it tells
  whatever it changes (`ChangedTells`, `StepsShow`, `ArmAllShows`, ...), and of
  the operators on signals that nothing is lost when they are joined and
  delivered (`ThenKeeps`, `InOrderKeeps`, `TailLooks`). What `InOrder` returns
  is defined by a function over the areas that refers to itself; that there is
  such a function, and that it keeps every signal to look, is an induction. It
  is made without an induction theorem: of the lengths at which it fails there
  would be a least (`Least`, from the well-foundedness of `<`), which the step
  contradicts.
- **`AnnounceProofs`**: `AnnounceTypes` and `LoudOnlyByThese` for all of it,
  with both doorbell automations, failures and restarts. The types need `Busy`
  (a run of the script has the head of the queue). `FullOnlyWhileRaised` is
  inductive with them; one lemma for each thing that happens to volumes
  (`BoostsFull`, `PutsBackFull`, `BreakOffFull`) says that it keeps it.
  `ScriptImplementsContract` is under `Doorbell = {}` alone: the contract is
  about the script. The refinement maps a speaker's level to the volume it has,
  or will have when the run is over (`settled`); speaking is a stutter, the
  boost the beginning of an announcement, the restore its end, an error or a
  restart a run that breaks off. For that, the invariant `Overheard` says what
  a speaker of the run under way is at: full volume, or what a person has
  chosen since.
- **`PatioDoorProofs`**: `PatioTypes`, `PatioSaysWhatIs`, `PatioOffIsOwned`,
  with failures and restarts, from `FlagFits`, which ties the helper to the
  step of the run. The types of the queue are those of `AnnounceProofs`: a step
  of the patio door is, for the script, a step of one of its callers.
- **`StrobeProofs`**: `StrobeTypes`, and `StrobeLeavesAsSet` from `Owned` (the
  run has a caller that awaits it, `step` is idle exactly without a run);
  `BrokenOff` is the lemma on the three ways to break off.
- **`ImportCostProofs`**: `ImportTypes`, `ImportAddsUp`, `ImportStartsAfresh`,
  `ImportReportsTheDay`, `ImportGridFreeIsTrue`: all that the run checks, for
  any rates and any faults. `Runs` says what each automation may have left at
  each instant; `Adding` what the sum is at every step of the day: before a run
  the band is counted from its mark, after its first step the sum is what is
  due, after its second the mark is the meter, after its third the next band is
  counted from there. `Product` and `CountsOn` keep the one product of two
  variables in lemmas of their own; `AstrayAt` says of each moment at which a
  unit may come what it adds to `wrong`. `Afresh` carries a day over midnight:
  what the sum and the rate are once the runs that set them are over and not
  undone. `Based` ties the baseline to what is imported after it, also on days
  that are not clean.
- **`CameraStreamProofs`**: `CameraQuietWhenAway`, for any number of sockets
  and peers. The invariant says that whoever holds a connection has not been
  told to stop: `ws` or `pc` set without `attached` means that a stop is due,
  as every way to a connection asks `isConnected` and every way out of the page
  sets the timer. `CameraOneStream` needs `Single`: what is live is `this.ws`
  and `this.pc`, and a socket that is not open yet has no peer beside it, or
  its opening would start a second one.

- **`RolloutProofs`**: `RolloutTypes`, `RolloutOneAtATime`,
  `RolloutFrontHasItsTurn` and `RolloutDiskAgrees`, for any (finite) network,
  any versions, faults, and any number of saves under way, `Brisk` or not. The
  invariant `Good` is about a memory, a file and what the updates are at, not
  about the state, so that each operation of the manager has one lemma
  (`AdvanceGood`, `EnqueueGood`, `RetryKeeps`, `PastStalledGood`,
  `QueueFrontsGood`, `StuckInstallsGood`) and the tick, which makes four, cites
  four. None of the three properties is inductive. One at a time: a device that
  is under way has to be the front in memory, in the file, and in every save
  that is waiting (`Flying`), as a restart may come back with any of them; and
  so has a device that a coroutine is going to dispatch, from its own save on
  (`Waiting`). `AdvanceGood` is the heart: a front that gives way with care
  leaves nothing under way and no coroutine that is about to start something
  (`PoppedIsQuiet`). No front is forgotten: `HasTurn` leaves out the callers of
  requests, who do not note the dispatch after their save, because the manager
  noted it before. The file: what was given to the store last is the memory
  (`Agrees`). `RecheckStuckInstalls` is again a function that refers to itself,
  with the least counterexample as induction (`JudgedExists`, `JudgedGood`).

Model-checked only: all liveness, as `ENABLED` and fairness are out of the
prover's reach, and `StalledHadStarted`, which is false. Every invariant and
every action property that the runs check is proved; `ScriptSettles` for a
house without the doorbell automations, as its run has it.

## 6. Plan

Done in this order: the area, the announcements and their contract, the patio
door, the electricity cost, the strobe, the contract of an area with the proof
that it is kept, the master over such areas, the camera card, the rollout, and
the proofs of the electricity cost and of the camera card, those of what an
area and the master may do about an alarm and of what the master shows, and
those of the rollout. Next:

1. The own activity cards (`www/*.js`): fetches that answer out of order.
2. `CatAlarm`: a queue of three, a scene that runs take and put back.
   Home Assistant reports `unknown` for a scene never turned on, so the test of
   AU 2144 deserves a close reading.
3. The requests of the install manager, and a second network, for `Rollout`.
4. Sensor groups and ready-to-arm modes in `AlarmoArea`; the bins' latch, the
   Solis alert latches, the streak of unbalanced days, occupancy lighting.

## 7. Not modelled

Node-RED's flows are not in the repository. Configuration storage, websocket
commands, MQTT and message formatting of Alarmo, reports, templates and
statistics sensors hold no protocol between several steps. By far the most
lines of JavaScript and of Python belong to other projects that are installed
here and not written here: built front ends (`mushroom.js`, `card-mod.js`,
`browser_mod.js`, `stack-in-card.js`, `device_manager.js`, `alarm-panel.js`)
and the integrations under `custom_components`. Of those, the ones on which the
house depends are modelled: Alarmo, the camera card and the rollout of
updates. So the share of the repository's lines that a definition stands for is
small, and is meant to be. The parts of this configuration's own that are
listed as not modelled in `PROJECT.json` are those of the plan and those with
one trigger and one command.
