# Odyssey hub: TLA+ models, checks and proofs

The hub server tracks light-gun devices that appear over USB, over BLE through
a dongle, or both at once, and serves them to clients over gRPC.  What is hard
about it is concurrency: a USB scan, one manager task per dongle, one handler
task per device, a forwarder and any number of client calls share a table of
handlers, bounded queues and a device list, and a device may come, go, change
its mode or be replugged between any two of their steps.  The desktop app adds
tasks of many calls that overlap on one page, and files that are read, changed
and written back.  The models are about that.

Line numbers without a file are those of `odyssey_hub_server/src/device_tasks.rs`.

## 1. The system

| Component | State it keeps | Operations | Talks to |
|---|---|---|---|
| USB scan, `usb_device_manager` (220-1380) | `device_handles` (uuid to queue and task, a lock), `direct_usb_handler_uuids`, `hub_managers`, `direct_usb_id_to_uuid`, `dfu_device_id_to_info` | one pass every 2 s: enumerate, abort managers of gone dongles, evict finished handlers, visit every device (connect and start a manager; probe, merge or spawn; surface in DFU mode), reconcile ids that are gone | handlers through their queue (32), forwarder through `message_channel` (12) |
| Dongle manager (416-999) | `hub_devices`, `hub_device_uuids`, the mux connection | register the dongle, apply snapshots (merge or spawn, tell a handler its device is gone), pairing and bond commands, cleanup | handlers, forwarder, `device_handles` |
| Device handler, `device_handler_task` (1522-2532) | the control and events connections, the sensor streams and their pause and retry timers, its copy of the metadata, protocol version and camera models | 17 messages, two timers, the shot delay watch, stream events, Disconnect at its end | the device (`ats_usb`), forwarder, event broadcast, reply channels of calls |
| Stream processing, `handle_stream_event` (2540-2834), zero offsets (2836-2913) | pose filter, previous timestamp | one event per packet | event broadcast |
| Forwarder (`lib.rs` 347-507) | device list, dongle list | Connect, Disconnect, UpdateDevice, UpdateName, the dongle messages | subscribers through broadcast channels (12, 16) |
| gRPC service (`server.rs`) | none of its own | calls on a device (look up its queue, send, await the reply), subscriptions, shot delays, accessories | handlers, lists, maps |
| Shot delays and zero offsets (`server.rs` 169-210 and 383-530, `odyssey_hub_common/src/config.rs`) | `device_shot_delays`, `shot_delay_watch`, `device_offsets`, JSON files | set, reset, save, subscribe | handlers |
| Accessories (`accessories.rs`, `server.rs` 305-380, the app's `views/accessories.rs`) | `accessory_map.json`, a watch channel of the list, the merged map, the connections and the tasks that forward their shots | edit the list, scan every 5 s, connect, broadcast the map | clients, the event broadcast, BLE (`btleplug`) |
| Firmware update (`firmware.rs`, `odyssey_desktop/src/components/firmware_update.rs`) | versions found, one task per update | download, detach to DFU, wait, flash, wait for the device | the device, device list |
| Device Settings (`odyssey_desktop/src/components/sensor_settings.rs`) | the text fields of a device's panels, `loading`, `status` | load, apply, save, load defaults | the registers and settings of a device, by gRPC |
| The app's hub loop (`odyssey_desktop/src/hub.rs`, `odyssey_hub_client`) | the lists last received | connect, ask, subscribe, start over when the events end | gRPC service |
| Rest of the app, `TrackingHistory`, FFI | views, bounded history | display, wrap | client library |

How the parts meet: the scan and the managers create handlers and enter them in
`device_handles`; later they merge connections into a handler, or take them
away, by the messages AddControlDevice, RemoveControlDevice, AddEventsDevice
and RemoveEventsDevice in the same queue that carries client calls.  A handler
ends itself when its last connection is gone.  Its end shows in two places that
are cleaned at different times: the list, by its Disconnect, and
`device_handles`, when somebody notices that the task has finished.

What makes each part correct:

- handler: its metadata says what its connections are; it streams exactly when
  it has an events source and is not paused; every call returns; it ends when it
  is of no use, and not before;
- scan and managers: at most one handler per device, none forgotten; the
  handler that commands reach is the one clients see; nobody waits in a circle;
- forwarder and lists: after the last message they show what there is;
- lists in the app: once they stop changing they are shown as they are, as long
  as their streams last, and the loop that follows the hub comes back;
- shot delays: map and watch channel agree in the end, whoever writes them; a
  delay whose save was acknowledged is still there after a restart;
- accessories: an acknowledged edit is what shots are judged by and what a
  restart finds; no shot counts twice (which a lost connection breaks, section
  5); the page shows the list in force;
- Device Settings: "Loaded", "Applied" and "Saved" are true of every field of
  every sensor; the buttons come back after every failure;
- firmware update: an update that nothing disturbs installs what it chose, on the
  device it was meant for; no row is stuck in a stage; every update ends.

The hazards list of `PROJECT.json` names, line by line, where this could go wrong.

## 2. Modules

| Module | What it models |
|---|---|
| `DeviceHandler` | one run of `device_handler_task`, and what the scan, the managers and clients put into its queue |
| `LinkOutcomes` | what a connection change may do to a handler's connections, as plain operators |
| `LinkHandler` | abstract specification: what a handler promises to the scan and the managers |
| `DeviceHandlerLinks` | `DeviceHandler` implements `LinkHandler`: the mapping and the property |
| `DeviceHandlerProofs` | theorems about `DeviceHandler`, the refinement among them, with proofs |
| `DeviceRegistry` | scan, managers, handlers (by `LinkOutcomes`) and forwarder around one uuid |
| `DeviceRegistryProofs` | theorems about `DeviceRegistry` for all constants, with proofs |
| `DeviceRegistryPathProofs` | theorems about the cable alone and about one path to a device, with proofs |
| `FirmwareVersions` | which firmware a device is offered and which one an update installs, as plain operators |
| `FirmwareUpdate` | the rows of the desktop app, the state manager, one task per update, and the devices of one product id |
| `FirmwareUpdateProofs` | theorems about `FirmwareVersions` and `FirmwareUpdate`, with proofs |
| `SensorRegisters` | how a text field becomes sensor registers and back, as plain operators |
| `SensorSettings` | the Device Settings section: the load coroutine, a task per click, the user, the device and its flash |
| `SensorSettingsProofs` | theorems about `SensorSettings`, with proofs |
| `ShotDelay`, `ShotDelayProofs` | shot delays: map, watch channel, handler, subscriptions, file and restarts; theorems |
| `ListFeed`, `ListFeedProofs` | device and dongle list from the hub to the app: broadcast, subscriptions and the app's loop; a theorem |
| `Accessories`, `AccessoriesProofs` | page, list, file, merged map and manager of the accessories; theorems |
| `MCDeviceHandler`, `MCDeviceRegistry`, `MCFirmwareUpdate`, `MCShotDelay` | instances for TLC |
| `MCParts` | one instance of `SensorSettings`, `ShotDelay`, `ListFeed` and `Accessories` |

### DeviceHandler

A variable stands for a variable of the task (`control`, `events`, `streams`,
`has_sensor_streams`, `streams_paused`, `streams_resume_armed`,
`protocol_version`, `device`, `camera`), `inbox` for the queue, `published` for
the metadata last sent, `reply` and `waiters` for calls and for pairing waiters
that outlive an arm.  The variables from `direct` on are what others know of
this handler.  One action is one arm of the select loop, from the message to the
end of the arm; the biased order of the select is the conjunct `Idle` of every
arm below the queue.  A call into the device, with its timeout, is a choice
between success and failure.

An arm is one step although it awaits.  That loses nothing: during an arm the
task reads nothing that others write, except `direct_usb_handler_uuids`, which
it only removes itself from; others see its queue, which they can fill before
or after, and its messages.

A handler begins as the scan or as a dongle spawns it.  A dongle's handler may
begin with a mark in `direct_usb_handler_uuids` that an earlier handler of the
device has left (section 5), and with the scan knowing
the device or not.

Abstracted: versions are numbers, of which only the battery threshold counts;
names and firmware versions are values; data of the streams is left out.  The
arms that touch neither connections nor metadata (zero offset, vendor packet,
shot delay: 1720-1831, 2447-2457) leave every variable unchanged.

### LinkHandler and the refinement

`LinkHandler` keeps the connections, the phase and a queue of connection changes
and calls.  It takes them in order, a change with one of its `Outcomes`, a call
without touching the connections unless it changes the transport mode; it leaves
its loop only for that, for its last connection or for a closed queue, and takes
nothing after.  `DeviceHandlerLinks` maps the detailed handler to it, message by
message; timers, streams and metadata are stutters.  `DeviceRegistry` then uses
`Outcomes` in place of the detailed handler.

### DeviceRegistry

All tables are keyed by uuid, so the model is the view of one uuid.  Devices
meet only in the lock of `device_handles` and in the room of `message_channel`,
which are both there.  A step reaches from one await that may wait to the next:
`holder` is the task that keeps the lock across an await, `scan.pc` and
`manager[h].pc` say where a task waits.  An abort of a manager takes effect at
its await, releases its lock and drops the sender it had created.  A dongle is
identified by its USB id: one that is replugged is another member of `Hubs`.
The order in which a pass visits devices and dongles is free, as the order of
the enumeration is.

Not modelled here: the fallback to the BLE address when the uuid cannot be read
(660-673), which makes the device another uuid; bond names; dongle commands;
an error of the enumeration itself, after which the pass starts over.
`ScanSurfacesDfu` takes the check under the lock (1116) and the Connect it sends
after letting go (1133) as one step, which waits for room before the check
instead of after it.

### FirmwareVersions and FirmwareUpdate

`FirmwareVersions` has the comparisons of `firmware.rs` and the two places that
choose a firmware: `Offer`, what a row shows (`firmware_update.rs` 167-252), and
`Chosen`, what an update installs (409-424).  The manifest is the constant
`Firmwares`; versions are triples of naturals and stand for u16, on which the
code only compares.

`FirmwareUpdate` has `states` and `updating`, the two maps of the
`FirmwareUpdateManager`, and for each click a task whose `pc` is the await of
`run_firmware_update` it waits at.  A row reads a state and sets the next one
in two steps (`DrawReads`, `DrawWrites`; 158 and 254), since tasks write from
other threads.  A click, and a new device list, are handled by the thread that
draws, so they wait.  `button` is what the row shows last, which may be older
than the state.

The devices are external: each has two banks, runs from one and has its
bootloader expose the other (the comments at `firmware.rs` 383-406).
`find_device` returns any device of the product id, `find_device_by_uuid` the
one with the serial number and otherwise any.  What is written to the bank it
was not built for does not boot (`Bad`).  The listing of a device follows its
handler in `DeviceHandler` and `DeviceRegistry`, and is here a choice among what
those can publish (`Shown`).

### SensorRegisters and SensorSettings

`SensorRegisters` has the tables of the two panels: which registers a field is
read from (363-635), which it is written to (814-929), the width its text is
parsed with and the value that stands for one that does not parse.  PAJ fields
such as the gain are written to bank 12 and read from bank 1, so that reading
back what was applied depends on the device as well (`WriteRegister` in
`SensorSettings`, external): a sync of bank 1 takes the values over.  A text is
the number it spells, or `NoNumber`.

`SensorSettings` has the coroutine that loads (`queued`, `loader`), a task per
click (`jobs`) and the fields.  A step is one call to the hub with what the page
does until the next; a call may fail, done or not done.  A task reads the fields
as it goes, so the user may change them under it.  A Dioxus signal whose read
guard is held across the writes of a section (1243) panics when it is written:
`panicked`.  `clean` is history that says that nothing else happened since a
task began.

### ShotDelay

`delays` is the map the calls read, `watch` the channel of a device, `handler`
what `device_handler_task` does with both, `file` the JSON file, which is `Torn`
between its truncation and its write.  A step reaches from one lock or file
access to the next.  The channel is tokio's: `send` stores nothing while nobody
listens, a stream over a new receiver begins with the value it finds.  `kept` is
history: the entry each acknowledged save put into the file.

### ListFeed

A list is its version; a notice carries nothing, and what is sent is the list
when the notice is taken.  `feed` is the subscription a list's task reads, `made`
the one a new round of the loop is making, in the three steps the hub takes for
it (listen, snapshot, spawn; `server.rs` 83-95).  A subscriber that lags is
ended.  The app's loop is `pc`; `topic` is the list that it subscribes, the devices
and then the dongles.

### Accessories

`saved` is the file, `info` the watch channel that the manager follows, `merged`
the map of the server, `page` what the page shows and its subscription.  An edit
is the call the page makes with the whole list, from the truncation of the file
to the reply.  A scan is one step: what it does about an accessory is chosen
(`Outcomes`: nothing, connected and subscribed, connected and then failed).
`heard` counts the tasks that forward an accessory's shots.  A notification
stream of `btleplug` outlives the connection, and the task that reads it goes on
and hears the next connection too; `lost` is history, the connections lost since
the hub started.  A save that overlaps another may leave a file that does not
parse, as in `ShotDelay`.

## 3. Runs

| Run | Question |
|---|---|
| `handler` | do connections, streams, metadata and replies stay consistent in every order of link changes, calls, timers and failures, does the handler implement `LinkHandler`, and do pauses end, calls return and useless handlers end? |
| `registry` | with every queue at capacity one, a device on USB and BLE and one dongle: does a dead device stay listed, is the dongle listed as it is, can a registration be overtaken? |
| `registry_usb` | across replugs: is the live handler the listed one, is a plugged device listed in the end? |
| `registry_dongle` | do clients see what the handler of a BLE device has, is no update lost, does anybody wait in a circle over the lock and the full queues? |
| `registry_delisting` | is a USB device, DFU mode included, delisted when it goes? |
| `firmware` | with two devices of one product id, two updates and a plug change: does an undisturbed update install what it chose, does it keep its device bootable, is a row ever stuck in a stage, does every update end whose calls are answered? |
| `parts` | settings page: are its messages true, do its buttons come back? shot delays: do map, channel and subscribers agree, is a saved delay kept? lists: is no change missed, does the app catch up? accessories: is an edit in force, is an accessory listened to once per connection, does the page settle? |
| `handler_unplug` | violated, see section 5 |
| `registry_dfu_lost` | violated, see section 5 |
| `registry_two_handlers` | violated, see section 5 |
| `firmware_offer` | violated, see section 5 |
| `shot_delay_lost` | violated, see section 5 |

The runs do not check deadlock: a handler that has finished and a bound that is
met stop the system rightfully.  `ScanPassesEnd` and `EveryCallReturns` are what
a circular wait would violate.

Bounds, and why they are enough:

- handler: one dongle, one call of every kind, one basic stream and the battery
  stream, a queue of 2 for 32, 3 link changes (`MaxLinks`); `handler_unplug` has
  two dongles, no calls and 4 link changes.  The conflicts are between at most two
  connections and one call; three link changes are an attach and a detach of one
  beside a change of the other.  A queue of two already has something behind the
  message in work, and is full.  `FewStarts` leaves out what makes no difference:
  which of two firmware versions is there first, and that the scan has found a
  dongle's device before its handler starts, as it may find it in one link change.
  The proofs of section 4 have no such bounds.
- registry: one device, one dongle or none, one or two USB ids, a handler queue
  of 1 or 2 (32), a channel of 1 or 2 (12), 2 or 3 handlers (`MaxSpawns`),
  3 to 6 plug and reach changes (`MaxChanges`).  Two handlers are
  the least that can be confused.  The combinations are split over the runs:
  USB and BLE with tight queues, USB alone with replugs, BLE alone, USB with
  DFU.  Where a property only holds without one of them, section 5 says so.
  Liveness properties are excused when `MaxSpawns` is met (`BoundMet`), where
  the model would stop and the program would not.
- firmware: two devices of one product id, of which one is listed and has a row;
  two updates (`MaxUpdates`), which may be of one device, side by side; one plug
  or unplug (`MaxChanges`); one old version and one entry that replaces it.
  Any start is possible: each device in its application, in its bootloader or
  away.  Two are the least devices, and the least updates, that can be confused;
  `undisturbed` is history that says when an update was not.  Which entry is
  chosen does not matter to the run's properties; `firmware_offer` has a
  manifest with two.

- parts: the four parts share no state, so one of them moves per behaviour
  (`part`) and every part is checked as if alone.  Settings: four sessions, each
  with its budget of toggles, clicks, typing, resets and faults; two have every
  field of a sensor, two have few fields and let loads and clicks overlap.
  Delays: four loads of at most three calls, which race each other, a handler,
  a subscriber, another device's save and a restart; a queue of 1 for 32.
  Lists: channels of 1 for 12 and 16, up to three changes, so that a subscriber
  lags, and a fault, an ended event stream or a restart.  Accessories: one of
  them and one device to assign it to, up to three edits one after the other or
  two that overlap (`overlap`), a subscriber that is
  dropped when one map behind, one fault, lost connection or restart.  Two
  tasks are the least that can overlap, and every channel is full at one.
- shot_delay_lost: one device, two sets and one start of a handler.

Fairness.  Handler: weak fairness of the task's own actions; nothing of links,
clients or the device.  This assumes that calls into the device return; most
are under `tokio::time::timeout`, `clear_all_streams` (1857, 1891, 1923, 1973)
and the starts of the streams (1456-1499) are not.  The retry timer needs no
fairness.  Registry: strong fairness of every task, because the tokio mutex and
channel serve those who wait in order, so that a task cannot be passed over for
ever, and of a probe that can succeed again and again; weak fairness of the
forwarder, which waits for nobody.  Nothing is assumed of the device, the
dongles or clients.  Firmware: weak fairness of the drawing of a row, which is
polled every 100 ms, and strong fairness of a task, except at the detach, the
download and the transfer (`Untimed`), which have no timeout and of which nothing
is assumed: `EveryUpdateEnds` says that a row is released again and again unless
some update of it stays in one of these for ever.  Every other wait has a timeout.  The
conjunct `Drawn` assumes that a bus reset and a download take longer than the
time from one drawing to the next; without it a drawing could hang on to an old
state for a whole update.  A progress updater that was woken before its abort is
assumed to have written before the 5 s of `Clear` are over.  Settings, delays,
lists, accessories: weak fairness of every task that has a call or a message to
go on with, since calls return; of the scan of the accessories, which is on a
timer of 5 s, and of the page that reads its stream, which keeps up with that
rate.  A list task writes nothing after its abort.  Nothing is assumed of the
user, of the device, of failures, subscriptions or restarts.

Every property of a passing run has a mutant: a definition beside the one it
changes, headed "Mutant:", that the property refutes.

## 4. Proofs

`DeviceHandlerProofs` proves for all values of the constants, any number of
dongles, calls, streams, versions and any queue capacity, from the assumption
`Parameters` alone:

| Theorem | Property | Argument |
|---|---|---|
| `TypeCorrect` | `TypeOK` | inductive as it stands; lemmas `PushType`, `ReceiveType`, `AnswerType`, `StartType`, `PauseType`, `WithModeType` for the shared operators |
| `PausedAlwaysArmed`, `StreamsAlwaysHaveDevice`, `ControlFollowsDevice`, `EventsFollowDevice`, `PublishedAlwaysCurrent` | `PausedIsArmed`, `StreamsHaveDevice`, `ControlIsAdvertised`, `EventsAreAdvertised`, `PublishedIsCurrent` | one inductive invariant, `Consistent`: each alone is not inductive, since an arm that edits metadata looks at the connections and the other way round |
| `MarkAlwaysGoesWithControl` | `MarkGoesWithControl` | an action property, from the types and `Consistent` (`MarkStep`): the only arm that gives a control device up is RemoveControlDevice, which ends the handler or takes its mark; a stale mark is there from the spawn and is no step of the handler's |
| `NeverIdle` | `NoIdleHandler` | strengthened by `OnlyRequestsYet`: while the dongle that registers holds the lock, the queue holds nothing but calls, so that its AddEventsDevice is the first link change |
| `WaitingAlwaysQueued` | `WaitingIsQueued` | inductive over the queue: a push adds a call that is not there, a receive takes the only place of one |

At the end it proves the refinement, from `Parameters` alone:

| Theorem | Property | Argument |
|---|---|---|
| `HandlerImplementsLinks` | `ImplementsLinkHandler` | every spawn maps to `LinkInit`, every step to a `Send`, `Take`, `Leave` or `Finish` or to a stutter.  The mapped queue is the image of the queue, message by message, so a push is an append and a receive a tail (`QueuedPush`, `QueuedReceive`).  Needs the types, `Consistent` (an AddEventsDevice that is ignored finds an events device), `WiredIsDirect` (the wired events connection never passes for a BLE one: only a handler that scans leave alone has it) and `SpawnIsRunning` (nothing makes a handler leave its loop before its dongle has sent its message) |

`DeviceRegistryProofs` proves, from `RegistryParameters` alone, for any number of
USB ids, dongles, handlers and plugs and any queue capacities:

| Theorem | Property | Argument |
|---|---|---|
| `RegistryTypeCorrect` | `TypeOK` | one inductive invariant, `Core`, which the other theorems rest on.  Besides the types: who holds the lock and reaches the table (`LockOwners`); handlers that are spoken of have been spawned (`Known`); a handler that is being registered has been spawned by one task (`Spawns`), has heard and done nothing yet (`Fresh`), and clients have not heard of it (`Unconnected`) |
| `FirstEventsComeFirst` | `FirstEventsFirst` | from `Fresh`: from its entry in the table to its AddEventsDevice the dongle holds the lock, and nobody else reaches the handler |
| `DeadDevicesAreDelisted` | `NoGhost` | `Ghosts`: behind a Connect of a handler that has finished there is a Disconnect in the channel; the forwarder takes them in order |
| `AnnouncedBeforeUpdated` | `ConnectBeforeUpdate` | `ConnectsFirst`, with `Unconnected`: nothing of a handler is posted before its Connect, except on the USB path, whose Connect carries control |
| `DonglesStayCurrent` | `DongleIsCurrent` | `Tracked`: while a manager is at work its dongle is listed, or has a DongleConnect behind every DongleDisconnect (`Registered`); while it waits, the last message about the dongle, or else its entry, shows the devices it has (`Shown`) |

`DeviceRegistryPathProofs` proves, from `RegistryParameters` and `EntryIsSome`
(`None` is no entry of the list), what holds for some ways to reach a device only.
The hypotheses are about the constants; TLC finds counterexamples without them.

| Theorem | Property | Hypothesis | Argument |
|---|---|---|---|
| `ListStaysCurrent` | `ListIsCurrent` | `OnePath`: no dongle, or no USB ids and one dongle | `Path`: who is about to enter a handler finds no other (`Vacant`); one that is not in the table has heard nothing and nothing is said of it (`Silent`), and if the scan registers it, it has what was probed (`Probed`); the last news in the channel, or else the entry, is as the handler is (`Told`).  With two paths the update of one handler changes the entry of another |
| `WiredHandlersAreSingle` | `OneHandlerPerUuid` | `Hubs = {}` | `Alone`: a handler that has not finished is in the table, or the scan is about to enter it.  With a dongle, run `registry_two_handlers` refutes it |
| `WiredHandlerIsListed` | `LiveHandlerIsListed` | `Hubs = {}`, no DFU mode | `AllAnnounced`: a handler that is registered and runs is listed, or its Connect is in the channel, and no Connect or Disconnect follows.  With DFU mode run `registry_dfu_lost` refutes it; with a dongle, the abort of a manager between the entry and its Connect |

`ShotDelayProofs` proves, from `ShotDelayParameters`, for any devices, calls,
handlers and restarts:

| Theorem | Property | Argument |
|---|---|---|
| `DelaysTyped` | `DelayTypeOK` | strengthened by the types of the calls in progress (`Types`) |
| `SavedDelaysKept` | `AckedSaveIsKept` | `Saves`: a save that is still alone holds a map that agrees with everything kept (`AloneIsRight`); only a save at its write leaves a torn file behind a kept entry (`HalfWritten`) |

`ListFeedProofs` proves, from `ListFeedParameters` (the lists are the devices, and
the dongles or not; the channels hold at least one), for any capacities, changes,
failures, reconnections and restarts:

| Theorem | Property | Argument |
|---|---|---|
| `NoVersionIsLost` | `NoChangeMissed` | `FeedInv`: the types; `FeedsFollow`, the property for the streams that are read; and `RoundFollows`, the same for what the round in progress makes.  A subscription whose task is not started collects notices, so that its snapshot is the list or a notice is waiting, unless the hub has gone; a subscription that is complete follows before anybody reads it, so that the new tasks begin with one that does.  One lemma about the hub's task (`ServeFollows`) serves both |

`AccessoriesProofs` proves, from `AccessoryParameters`, for any accessories,
owners, edits, losses and restarts:

| Theorem | Property | Argument |
|---|---|---|
| `ListensOncePerConnection` | `OneListenerPerConnection` | `Listened`: no more listeners than connections lost, and one more only while it is connected; a scan only subscribes to what is not |
| `AckedAlwaysInForce` | `AckedEditIsInForce` | `EditInv`: the types; an edit that is still alone has done its steps to file and channel so far (`AloneIsDone`); after an acknowledged edit no other is in progress (`AckedIsLast`) |

`FirmwareUpdateProofs` proves, from `ManifestParameters` and `UpdateParameters`
alone, for any manifest and any number of devices, rows, updates and plugs:

| Theorem | Property | Argument |
|---|---|---|
| `UpdateTypeCorrect`, `StageAlwaysHasUpdate` | `TypeOK`, `StageHasUpdate` | one inductive invariant, `Inv`: a task beyond its first step has an entry, one that flashes has a slot, a late progress updater has a task that still runs, and what does not boot is in its bootloader.  All but the third are needed for the types, the third so that a late write is covered by a task.  Lemma `TaskMoves`: whatever a running task does next, if it only sets the state of its own device; every action of an update is an instance of it |
| `QuietUpdatesWork` | `UndisturbedUpdateWorks` | `Calm`: an undisturbed update is the only one (so a late write, a second click or another target cannot be), and stands to its device as `Settled` says: the device is the only one on the bus, so that all three lookups find it; the slot it chose is the bank that is still free; what it holds open is its device; from the reboot on the device runs the entry.  A plug, a click or a second task ends the history variable `undisturbed`, so the invariant is about one task at a time (`CalmMoves`) |
| `OfferedNeverDowngrades` | | an update offered to a device that is not in its bootloader installs a newer version or nothing, in any manifest, sorted or not: the compatible firmware is the first entry that fits (`CompatibleIsFirstFit`, by `FirstExists` from the well-foundedness of the naturals) |
| `NewerIsStrictOrder` | | `version_newer` is irreflexive, transitive and total |

`SensorSettingsProofs` proves, from `NoNumberAssumption` and `SettingsParameters`
(a session has a field, and only fields of its sensor's panel; every register of
the sensor holds a byte at first; texts are numbers or none), for any sessions,
texts, first contents of the registers and number of clicks:

| Theorem | Property | Argument |
|---|---|---|
| `BusyPageHasTask` | `LoadingHasTask` | `Inv`: with the types (`Types`), in which a click is always at one of its calls (`AtCall`).  A click has at least one register to write (`RegisterIsWritten`), so that it never begins past its end, and whatever fails, `NextCall` and `AfterSection` lead to a later call or to the end, which clears `loading` |
| `LoadShowsRegisters` | `LoadedIsRead` | `Undisturbed`: since an undisturbed load began no click is under way, what it has is what the registers hold, and it has every register behind it unless one failed.  `LoadCallsAre` says that its calls are the bytes of every field of every port, and `Named` that a name stands for one field, so at the end nothing is missing |
| `SettingsTyped` | `SettingsTypeOK` | `Values`, that registers hold bytes and fields numbers or nothing, is inductive only with `BytesRead`: what a load has is bytes, of every register behind it unless a section failed.  Each row of the tables then gives numbers (`FromBytes`) and takes bytes (`ToBytes`) |
| `ClickIsDone` | `DoneIsDone` | `Progress`: a click that nothing disturbed is the only one, and every register behind it holds what it wrote unless a call failed.  For this no later call may undo an earlier one: no byte is written twice with different contents, and after a sync of bank 1 only syncs come (`SyncCallsLast`), so that what was taken over is what was written (`LaterCallsKeep`).  `AllReadsBack` brings the registers of the calls to those a load reads.  `FlashIsWhole`: a save flashes only what was written whole, and no call follows |
| `FieldsReadBack` | | by cases over the rows of both tables: the bytes written for a text, at the places that are read, give the text, if the registers can hold it |

All rest on what `FlattenSeq` builds (`FlattenIs`).  The library's induction
theorems cannot be used, but a least place at which it would be something else
leads to a contradiction (`LeastExists`).  `Kept` and `Put` are written out with
`FlattenSeq` and as a function, since the provers have no `SelectSeq`, `:>` or
`@@`; the bytes of a row are sums written out, not a fold.

Every safety property that a passing run checks is so stated by a theorem, two of
them (`ListIsCurrent`, `LiveHandlerIsListed`) under a hypothesis about the constants.
Only model-checked are the liveness properties (`PausedStreamsResume`,
`EveryCallReturns`, `UselessHandlerEnds`, `PluggedIsListed`, `ScanPassesEnd`,
`UnpluggedIsDelisted`, `EveryUpdateEnds`, `LoadingEnds`, `DelaysSettle`,
`FeedCatchesUp`, `PageSettles`): temporal reasoning under fairness is out of the
prover's reach.

## 5. Where code and comments disagree

Shown by a run:

- `handler_unplug`: 2363 says a BLE events connection survives a USB
  disconnect.  The test is on `events_transport`, which AddEventsDevice does not
  set: when BLE replaces the events of a handler that was wired, unplugging USB
  ends the handler.
- `registry_dfu_lost`: 2506 says the handler is kept alive so that the device
  stays in the list.  When a device surfaced in DFU mode comes back, the pass
  that spawns its handler and sends Connect ends with the Disconnect of the DFU
  entry, for the same uuid; nothing sends Connect again.
- `registry_two_handlers`: 741 and 1152 say that the check for a connected
  device comes before a handler is created.  The lock is released in between,
  on both paths, so scan and manager can both create one.

- `firmware_offer`: `firmware_update.rs` 185 says a connected device is shown the
  latest firmware, also across versions that are not compatible, and its button
  offers that one.  The update installs the latest only if the device has the
  DFU capability (411), which a BLE handler does not get when its USB connection
  is merged (2331; 1227 says a device has it whenever it exposes the interface).
  Then the newest compatible version is installed instead and reported as
  Complete, or the update fails.
- `shot_delay_lost`: `server.rs` 464 says a set applies the delay and notifies
  the watchers.  While nobody listens, the channel keeps the value it was created
  with; of two sets before a handler runs the second only reaches the map, and
  the handler writes the first back over it.

Met while modelling, and visible in the models without a run of their own:

- `events_connected` is set by AddControlDevice for a device in USB mode
  although the handler has no events device (2316-2319); `device.rs:72` says it
  means that events are being received.
- RemoveEventsDevice does not say which dongle it comes from (821 says a manager
  only removes its own): with two, the first to lose the device takes away the
  events of the other.
- An AddEventsDevice is skipped as redundant while streaming (2171), also if the
  configuration has never been read.
- The USB path enters a handler before it sends Connect (1303-1315), so that an
  UpdateDevice can come first and is lost; `ConnectBeforeUpdate` excuses the
  handlers that the USB path announces, which are the ones that have control.
- An UpdateDevice is matched by uuid (`lib.rs`), so with two handlers for a uuid
  the update of one changes the entry of the other: `ListIsCurrent` is proved for
  one path to the device.
- A manager aborted by the scan (298-313) skips its cleanup (971-997): the
  dongle and a BLE-only device stay listed.
- The dongle path evicts a finished handler without its mark in
  `direct_usb_handler_uuids` (748-753, compare 334 and 1172), and one it enters
  over a direct handler takes over the mark too.  1180 takes a marked handler for
  one with a control device (so does 240): with the device still on USB, scans
  pass over the successor, which has no control, as long as it lives.
  `DeviceRegistry` has the steps, and `PluggedIsListed` is checked without a
  dongle; `DeviceHandler` starts with a stale mark or without.
- With two devices of one product id in their bootloader, an update may flash
  the other one and report Complete for the first, and of two updates side by
  side the second may write an image to a bank it was not built for; a later
  update of that device, alone, may fail and leave it so.
  `UndisturbedUpdateWorks` holds for one device and one update at a time.
- An update is Complete also when the device does not come back in 15 s
  (`firmware_update.rs` 569-575, beside "Verifying the new firmware version" at
  43), and no step compares versions.
- `abort()` does not stop a progress updater that has already woken (534): the
  row may show Flashing again, or instead of a failure, until it is cleared.
- `server.rs` 113 takes a lag behind the broadcast for a closed channel: the
  stream ends, and the app shows the list it had until its event stream ends.
- `client.rs` 47 unwraps the answer of get_device_list: a hub that goes away
  between connect and this call panics the app's loop, which has an error path
  for it (`hub.rs` 74-81).
- The client connects to `/tmp/odyhub.sock` (`client.rs` 23), the server names
  `/tmp/@odyhub.sock` (`lib.rs` 140); this is not modelled.
- An edit, a Load Defaults or a load that ends while a section is being written
  panics the app (`sensor_settings.rs` 1243): the guard of the signal is held
  over the awaits.
- After a failed load the fields are empty, Apply and Save are offered, and an
  empty field is written as its default (`sensor_settings.rs` 814-929).
- The exposure of a PAG sensor is cast to a byte and or-ed with bit 7: what is
  not a multiple of 100 us below 12.8 ms reads back differently, and from
  25.6 ms on it wraps.
- A removed accessory stays in the server's merged map and comes back to the
  page with the next broadcast, until the manager's map follows; the connected
  flags of that map are never set.
- An accessory whose discovery or subscription fails stays connected and is
  skipped by later scans (`accessories.rs` 126): its shots are lost.
- Two edits of the accessories that overlap are each a whole list: one is lost.
- An accessory that is lost and connected again is forwarded by two tasks, since
  the stream of the first goes on (`accessories.rs` 158-227): each shot counts
  twice.  `OneListenerPerConnection` allows for one task per connection, no more.
- The detach, the download and the transfer of an update have no timeout
  (`firmware_update.rs` 437, 470, 523): one that stalls keeps its row in its
  stage for ever, which `EveryUpdateEnds` allows for.

## 6. Not modelled, and what could follow

- `TrackingHistory`: a bounded queue behind a lock, only read by its own
  caller.  It could be shown to be the last N events.
- Dongle commands, pairing and bonds beyond `HandleStartPairing`: timeouts and
  one event per waiter, worth a module of its own.
- Zero offsets: a map and a file of poses like those of the shot delays, without
  channel or handler message; what `ShotDelay` says of the file holds for it.
- The transport mode panel and the zeroing page of the app.
- Stream events, pose estimation and zero offset mathematics (floating point),
  the user interface's layout, generated protocol code, FFI wrappers, and
  `ats_usb` and `btleplug`, whose calls are choices of outcome.
