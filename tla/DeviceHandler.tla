--------------------------- MODULE DeviceHandler ---------------------------
(***************************************************************************)
(* One run of device_handler_task (odyssey_hub_server/src/device_tasks.rs): *)
(* the task that owns the connections, the sensor streams and the metadata *)
(* of one physical device, from its spawn to the Disconnect it sends.      *)
(*                                                                         *)
(* The task is a biased select loop over its command queue, a debounce     *)
(* timer, a retry timer and the sensor streams.  The queue is fed by the   *)
(* USB scan (AddControlDevice, RemoveControlDevice), by the managers of    *)
(* the dongles (AddEventsDevice, RemoveEventsDevice) and by the gRPC calls *)
(* of clients, concurrently.                                               *)
(*                                                                         *)
(* Calls into the device (ats_usb, not in this repository) return what     *)
(* they may return: an \E over success and failure, timeouts included.     *)
(* The arms that only touch the zero offset and the shot delay of the      *)
(* device (1720-1831, 2447-2457) leave every variable of this module       *)
(* unchanged.                                                              *)
(***************************************************************************)
EXTENDS Naturals, Sequences, FiniteSets

CONSTANTS
  Hubs,          \* dongles the device may be reachable through
  Requests,      \* one identity per gRPC call that expects a reply
  BasicStreams,  \* sensor streams every firmware has (markers, accel, impact)
  Battery,       \* the battery stream, only from BatteryVersion on
  MaxVersion,    \* events protocol versions, in order; 0 is an unread [0,0,0]
  BatteryVersion,\* [0,1,1]
  Firmwares,     \* firmware versions a read may return
  Names,         \* device names
  NoDevice,      \* events_device = None
  WiredVm,       \* events_device is the USB connection itself
  NoArg,         \* a message without an argument
  QueueCap,      \* mpsc::channel(32)
  MaxLinks       \* bound: link changes the scan and the dongles report

ASSUME Parameters ==
  /\ MaxVersion \in Nat
  /\ BatteryVersion \in Nat
  /\ QueueCap \in Nat \ {0}
  /\ MaxLinks \in Nat
  /\ Battery \notin BasicStreams
  /\ NoDevice # WiredVm
  /\ NoDevice \notin Hubs
  /\ WiredVm \notin Hubs
  /\ NoArg \notin Hubs \cup Requests
  /\ Hubs \cap Requests = {}

VARIABLES
  phase,                 \* where the task is
  inbox,                 \* control_rx
  control,               \* connections.control_device.is_some()
  events,                \* connections.events_device
  device,                \* the task's own copy of the metadata
  published,             \* the metadata last put on message_channel
  streams,               \* sensor_streams
  has_sensor_streams,
  streams_paused,
  streams_resume_armed,
  protocol_version,
  camera,                \* camera models: read from the device, or dummies
  reply,                 \* what each gRPC call has got back
  waiters,               \* spawned tasks that wait for a pairing event
  direct,                \* uuid \in direct_usb_handler_uuids
  usb_known,             \* the scan has the device in direct_usb_id_to_uuid
  hub_devices,           \* dongles that have the device in their hub_devices
  registering,           \* spawning dongle holds device_handles, queue unfilled
  aborted,               \* the spawning dongle was aborted before it was done
  open,                  \* some sender of control_rx is alive
  links                  \* link changes reported so far

conns   == <<control, events>>
meta    == <<device, published>>
stream  == <<streams, has_sensor_streams, streams_paused, streams_resume_armed>>
config  == <<protocol_version, camera>>
rpc     == <<reply, waiters>>
outside == <<direct, usb_known, hub_devices, registering, aborted, open, links>>
vars    == <<phase, inbox, conns, meta, stream, config, rpc, outside>>

Versions == 0 .. MaxVersion

RequestKinds == {"ReadRegister", "WriteRegister", "ReadConfig", "WriteConfig",
                 "FlashSettings", "StartPairing", "CancelPairing", "ClearBond",
                 "SetTransportMode", "SetDeviceName"}
Message == [kind : RequestKinds, arg : Requests]
             \cup [kind : {"AddEventsDevice"}, arg : Hubs]
             \cup [kind : {"AddControlDevice", "RemoveControlDevice",
                           "RemoveEventsDevice"}, arg : {NoArg}]

Capabilities == {"CONTROL", "EVENTS", "DFU"}
Device == [caps : SUBSET Capabilities, transport : {"Usb", "UsbMux"},
           events_transport : {"Wired", "Bluetooth"},
           events_connected : BOOLEAN, firmware : Firmwares, name : Names]

(***************************************************************************)
(* Spawning.  The USB scan spawns a handler that owns the control          *)
(* connection; in USB transport mode the same connection carries events.   *)
(***************************************************************************)
InitDirect(usb_mode) ==
  /\ control = TRUE
  /\ events = IF usb_mode THEN WiredVm ELSE NoDevice
  /\ \E dfu \in SUBSET {"DFU"}, fw \in Firmwares, n \in Names :
       device = [caps |-> {"CONTROL"} \cup dfu
                            \cup (IF usb_mode THEN {"EVENTS"} ELSE {}),
                 transport |-> "Usb",
                 events_transport |-> IF usb_mode THEN "Wired" ELSE "Bluetooth",
                 events_connected |-> usb_mode, firmware |-> fw, name |-> n]
  /\ protocol_version \in IF usb_mode THEN Versions ELSE {0}
  /\ direct = TRUE
  /\ usb_known = TRUE
  /\ hub_devices = {}
  /\ registering = FALSE

\* A dongle spawns a handler with nothing attached; it queues
\* AddEventsDevice before it lets go of device_handles.  A handler before it
\* may have left its mark in direct_usb_handler_uuids: the dongle evicts a
\* finished one without taking its uuid out (748-753, compare 334 and 1172),
\* or enters this one in its place (800).  The scan may know the device.
InitMux ==
  /\ control = FALSE
  /\ events = NoDevice
  /\ \E fw \in Firmwares, n \in Names :
       device = [caps |-> {}, transport |-> "UsbMux",
                 events_transport |-> "Bluetooth",
                 events_connected |-> FALSE, firmware |-> fw, name |-> n]
  /\ protocol_version \in Versions
  /\ direct \in BOOLEAN
  /\ usb_known \in BOOLEAN
  /\ hub_devices \in {{h} : h \in Hubs}
  /\ registering = TRUE

Init ==
  /\ phase = "startup"
  /\ inbox = << >>
  /\ (\E usb_mode \in BOOLEAN : InitDirect(usb_mode)) \/ InitMux
  /\ published = device
  /\ streams = {}
  /\ has_sensor_streams = FALSE
  /\ streams_paused = FALSE
  /\ streams_resume_armed = FALSE
  /\ camera = "dummy"
  /\ reply = [r \in Requests |-> "none"]
  /\ waiters = {}
  /\ aborted = FALSE
  /\ open = TRUE
  /\ links = 0

(***************************************************************************)
(* What the rest of the server puts into the queue.                        *)
(***************************************************************************)
\* Mutant: a send that does not wait for room in the queue.
PushUnbounded(k, a) == inbox' = Append(inbox, [kind |-> k, arg |-> a])

\* mpsc send: waits for room.
Push(k, a) ==
  /\ Len(inbox) < QueueCap
  /\ inbox' = Append(inbox, [kind |-> k, arg |-> a])

\* A send is possible while the task still holds the receiver; device_handles
\* is locked by the spawning dongle until it has queued its own message.
Link ==
  /\ phase # "finished"
  /\ open
  /\ ~registering
  /\ links < MaxLinks
  /\ links' = links + 1
  /\ UNCHANGED <<phase, conns, meta, stream, config, rpc, registering, aborted,
                 open>>

\* Mutant: the dongle forgets to queue AddEventsDevice.
MuxSpawnedSilently ==
  /\ registering
  /\ registering' = FALSE
  /\ UNCHANGED <<phase, inbox, conns, meta, stream, config, rpc, direct,
                 usb_known, hub_devices, aborted, open, links>>

\* The dongle that spawned the handler queues the events device it found.
MuxSpawned ==
  /\ registering
  /\ registering' = FALSE
  /\ \E h \in hub_devices : Push("AddEventsDevice", h)
  /\ UNCHANGED <<phase, conns, meta, stream, config, rpc, direct, usb_known,
                 hub_devices, aborted, open, links>>

\* The scan aborts the manager of a dongle that is unplugged: nothing is sent
\* for the devices it had.  A manager aborted while it registers the handler
\* may have inserted it in device_handles (a sender stays) or not.
HubAborted(h) ==
  /\ links < MaxLinks
  /\ links' = links + 1
  /\ h \in hub_devices
  /\ hub_devices' = hub_devices \ {h}
  /\ registering' = FALSE
  /\ aborted' = (aborted \/ registering)
  /\ open' \in IF registering THEN BOOLEAN ELSE {open}
  /\ UNCHANGED <<phase, inbox, conns, meta, stream, config, rpc, direct,
                 usb_known>>

\* A scan probes the device over USB.  A direct handler is left alone, any
\* other one is given the control connection, on every scan.
ScanFindsDevice ==
  /\ Link
  /\ usb_known' = TRUE
  /\ IF direct THEN UNCHANGED inbox ELSE Push("AddControlDevice", NoArg)
  /\ UNCHANGED <<direct, hub_devices>>

\* A known device is missing from a scan.
ScanMissesDevice ==
  /\ Link
  /\ usb_known
  /\ usb_known' = FALSE
  /\ Push("RemoveControlDevice", NoArg)
  /\ UNCHANGED <<direct, hub_devices>>

\* A snapshot of dongle h has the device and the last one had not.
HubAddsDevice(h) ==
  /\ Link
  /\ h \notin hub_devices
  /\ hub_devices' = hub_devices \cup {h}
  /\ Push("AddEventsDevice", h)
  /\ UNCHANGED <<direct, usb_known>>

\* The device is gone from dongle h, or the manager of h ends.  The message
\* does not say which dongle it is from.
HubDropsDevice(h) ==
  /\ Link
  /\ h \in hub_devices
  /\ hub_devices' = hub_devices \ {h}
  /\ Push("RemoveEventsDevice", NoArg)
  /\ UNCHANGED <<direct, usb_known>>

\* A gRPC call; it waits on its oneshot channel.  With the receiver gone the
\* send fails and the call returns at once.
Call(r, k) ==
  /\ open
  /\ reply[r] = "none"
  /\ IF phase = "finished"
       THEN reply' = [reply EXCEPT ![r] = "dropped"] /\ UNCHANGED inbox
       ELSE reply' = [reply EXCEPT ![r] = "waiting"] /\ Push(k, r)
  /\ UNCHANGED <<phase, conns, meta, stream, config, waiters, outside>>

\* Another handler has taken this one's place in device_handles (inserted over
\* it at 1305 or 800, or after its eviction) and in the device list: the last
\* senders are gone.  The mark is the other one's from here on, and of no
\* effect on this one.
Orphaned ==
  /\ ~registering
  /\ open
  /\ open' = FALSE
  /\ UNCHANGED <<phase, inbox, conns, meta, stream, config, rpc, direct,
                 usb_known, hub_devices, registering, aborted, links>>

(***************************************************************************)
(* Sensor streams.                                                         *)
(***************************************************************************)

\* start_sensor_streams: each stream starts or fails on its own.
start_sensor_streams(version) ==
  \E s \in SUBSET (BasicStreams \cup
                     (IF version >= BatteryVersion THEN {Battery} ELSE {})) :
    /\ streams' = s
    /\ has_sensor_streams' = (s # {})

\* Mutant: the streams are stopped and no debounce is armed.
PauseStreamsUnarmed ==
  /\ streams_paused' = (streams_paused \/ has_sensor_streams)
  /\ streams' = IF has_sensor_streams THEN {} ELSE streams
  /\ has_sensor_streams' = FALSE
  /\ UNCHANGED streams_resume_armed

\* Before a register or config access: stop the streams once per batch, and
\* (re)start the debounce that brings them back.
PauseStreams ==
  /\ streams_paused' = (streams_paused \/ has_sensor_streams)
  /\ streams' = IF has_sensor_streams THEN {} ELSE streams
  /\ has_sensor_streams' = FALSE
  /\ streams_resume_armed' = (streams_resume_armed \/ streams_paused')

\* The task up to its loop: read the configuration from the events device or
\* else the control device, then start the streams of the events device.
Startup ==
  /\ phase = "startup"
  /\ phase' = "loop"
  /\ camera' \in IF events # NoDevice \/ control THEN {"read", "dummy"}
                                                 ELSE {"dummy"}
  /\ IF events # NoDevice THEN start_sensor_streams(protocol_version)
                          ELSE UNCHANGED <<streams, has_sensor_streams>>
  /\ UNCHANGED <<inbox, conns, meta, streams_paused, streams_resume_armed,
                 protocol_version, rpc, outside>>

\* The select is biased: a queued message goes before every timer and stream.
Idle == phase = "loop" /\ inbox = << >>

\* Mutant: the debounce expires and the pause is not lifted.
ResumeTimerStaysPaused ==
  /\ Idle
  /\ streams_resume_armed
  /\ streams_resume_armed' = FALSE
  /\ UNCHANGED <<phase, inbox, conns, meta, streams, has_sensor_streams,
                 streams_paused, config, rpc, outside>>

\* 100 ms without a register access.
ResumeTimer ==
  /\ Idle
  /\ streams_resume_armed
  /\ streams_resume_armed' = FALSE
  /\ streams_paused' = FALSE
  /\ IF ~has_sensor_streams /\ events # NoDevice
       THEN start_sensor_streams(protocol_version)
       ELSE UNCHANGED <<streams, has_sensor_streams>>
  /\ UNCHANGED <<phase, inbox, conns, meta, config, rpc, outside>>

\* Every 5 s while there is an events device and nothing streams.
RetryTimer ==
  /\ Idle
  /\ ~has_sensor_streams
  /\ ~streams_paused
  /\ events # NoDevice
  /\ start_sensor_streams(protocol_version)
  /\ UNCHANGED <<phase, inbox, conns, meta, streams_paused,
                 streams_resume_armed, config, rpc, outside>>

\* The device side closes one stream; SelectAll drops it.
StreamCloses(s) ==
  /\ phase = "loop"
  /\ s \in streams
  /\ streams' = streams \ {s}
  /\ UNCHANGED <<phase, inbox, conns, meta, has_sensor_streams, streams_paused,
                 streams_resume_armed, config, rpc, outside>>

\* The last stream has ended: the loop goes on, to retry.
StreamsEnded ==
  /\ Idle
  /\ has_sensor_streams
  /\ streams = {}
  /\ has_sensor_streams' = FALSE
  /\ UNCHANGED <<phase, inbox, conns, meta, streams, streams_paused,
                 streams_resume_armed, config, rpc, outside>>

(***************************************************************************)
(* Commands.                                                               *)
(***************************************************************************)
Receive(kinds) ==
  /\ phase = "loop"
  /\ inbox # << >>
  /\ Head(inbox).kind \in kinds
  /\ inbox' = Tail(inbox)

\* Mutant: an arm returns without using its reply channel.
NoAnswer(result) == UNCHANGED reply

Answer(result) == reply' = [reply EXCEPT ![Head(inbox).arg] = result]

\* ReadRegister and WriteRegister.
HandleRegister ==
  /\ Receive({"ReadRegister", "WriteRegister"})
  /\ IF device.events_connected /\ events # NoDevice
       THEN PauseStreams /\ \E res \in {"ok", "err"} : Answer(res)
       ELSE Answer("err") /\ UNCHANGED stream
  /\ UNCHANGED <<phase, conns, meta, config, waiters, outside>>

\* ReadConfig and WriteConfig: an unknown kind is refused; the events device
\* is used if there is one, else the control device.
HandleConfig ==
  /\ Receive({"ReadConfig", "WriteConfig"})
  /\ \E known \in BOOLEAN :
       \/ /\ known /\ events # NoDevice
          /\ PauseStreams
          /\ \E res \in {"ok", "err"} : Answer(res)
       \/ /\ known /\ events = NoDevice /\ control
          /\ \E res \in {"ok", "err"} : Answer(res)
          /\ UNCHANGED stream
       \/ /\ ~known \/ (events = NoDevice /\ ~control)
          /\ Answer("err")
          /\ UNCHANGED stream
  /\ UNCHANGED <<phase, conns, meta, config, waiters, outside>>

HandleFlashSettings ==
  /\ Receive({"FlashSettings"})
  /\ \E res \in IF events # NoDevice \/ control THEN {"ok", "err"} ELSE {"err"} :
       Answer(res)
  /\ UNCHANGED <<phase, conns, meta, stream, config, waiters, outside>>

\* StartPairing answers at once; the outcome comes from a spawned waiter.
HandleStartPairing ==
  /\ Receive({"StartPairing"})
  /\ \/ /\ control
        /\ Answer("ok")
        /\ waiters' = waiters \cup {Head(inbox).arg}
     \/ Answer("err") /\ UNCHANGED waiters
  /\ UNCHANGED <<phase, conns, meta, stream, config, outside>>

\* The waiter emits its PairingResult event; it outlives the handler.
PairingResult(r) ==
  /\ r \in waiters
  /\ waiters' = waiters \ {r}
  /\ UNCHANGED <<phase, inbox, conns, meta, stream, config, reply, outside>>

\* CancelPairing and ClearBond.
HandleBondOp ==
  /\ Receive({"CancelPairing", "ClearBond"})
  /\ \E res \in IF control THEN {"ok", "err"} ELSE {"err"} : Answer(res)
  /\ UNCHANGED <<phase, conns, meta, stream, config, waiters, outside>>

\* SetTransportMode with a control device: answer, reboot the device and
\* leave the loop, whatever the device said.
HandleSetTransportMode ==
  /\ Receive({"SetTransportMode"})
  /\ IF control
       THEN phase' = "ending" /\ \E res \in {"ok", "err"} : Answer(res)
       ELSE Answer("err") /\ UNCHANGED phase
  /\ UNCHANGED <<conns, meta, stream, config, waiters, outside>>

\* SetDeviceName: a success changes the metadata and sends UpdateName.
HandleSetDeviceName ==
  /\ Receive({"SetDeviceName"})
  /\ \/ /\ control \/ events # NoDevice
        /\ \E n \in Names :
             /\ device' = [device EXCEPT !.name = n]
             /\ published' = [published EXCEPT !.name = n]
        /\ Answer("ok")
     \/ Answer("err") /\ UNCHANGED meta
  /\ UNCHANGED <<phase, conns, stream, config, waiters, outside>>

(***************************************************************************)
(* Merging and splitting connections.                                      *)
(***************************************************************************)

\* Mutant: the metadata changes and the device list is not told.
UpdateSilently(d) == device' = d /\ UNCHANGED published

\* Message::UpdateDevice(device.clone())
UpdateDevice(d) == device' = d /\ published' = d

\* Ignored while streaming, apart from the protocol version.
HandleAddEventsDevice ==
  /\ Receive({"AddEventsDevice"})
  /\ \E v \in Versions :
       protocol_version' = IF v > protocol_version THEN v ELSE protocol_version
  /\ IF has_sensor_streams
       THEN UNCHANGED <<events, streams, has_sensor_streams, camera, meta>>
       ELSE /\ events' = Head(inbox).arg
            /\ start_sensor_streams(protocol_version')
            /\ camera' \in {camera, "read"}
            /\ UpdateDevice([device EXCEPT !.caps = @ \cup {"EVENTS"},
                                           !.events_connected = TRUE])
  /\ UNCHANGED <<phase, control, streams_paused, streams_resume_armed, rpc,
                 outside>>

\* Mutant: BLE mode means no events, even with an events device attached.
WithModeAlone(d, mode) ==
  CASE mode = "Usb" ->
         [d EXCEPT !.events_transport = "Wired", !.events_connected = TRUE,
                   !.caps = @ \cup {"EVENTS"}]
    [] mode = "Ble" ->
         [d EXCEPT !.events_transport = "Bluetooth", !.events_connected = FALSE,
                   !.caps = @ \ {"EVENTS"}]
    [] mode = "unread" -> d

\* What AddControlDevice makes of the transport mode it reads back.
WithMode(d, mode) ==
  CASE mode = "Usb" ->
         [d EXCEPT !.events_transport = "Wired", !.events_connected = TRUE,
                   !.caps = @ \cup {"EVENTS"}]
    [] mode = "Ble" /\ events # NoDevice ->
         [d EXCEPT !.events_transport = "Bluetooth"]
    [] mode = "Ble" /\ events = NoDevice ->
         [d EXCEPT !.events_transport = "Bluetooth", !.events_connected = FALSE,
                   !.caps = @ \ {"EVENTS"}]
    [] mode = "unread" -> d

HandleAddControlDevice ==
  /\ Receive({"AddControlDevice"})
  /\ control' = TRUE
  /\ \E fw \in Firmwares, mode \in {"Usb", "Ble", "unread"} :
       LET d == WithMode([device EXCEPT !.firmware = fw], mode)
       IN  UpdateDevice([d EXCEPT !.caps = @ \cup {"CONTROL"},
                                  !.transport = "Usb"])
  /\ UNCHANGED <<phase, events, stream, config, rpc, outside>>

\* Mutant: only the DFU interface is taken off the capabilities.
WithoutDfu(d) == [d EXCEPT !.caps = @ \ {"DFU"}]

\* Both interfaces are only reachable over USB.
WithoutUsb(d) == [d EXCEPT !.caps = @ \ {"CONTROL", "DFU"}]

\* Mutant: the uuid stays in direct_usb_handler_uuids.
StillDirect == UNCHANGED direct

\* The next scan that finds the device must offer its control connection.
NoLongerDirect == direct' = FALSE

HandleRemoveControlDevice ==
  /\ Receive({"RemoveControlDevice"})
  /\ control' = FALSE
  /\ LET d == WithoutUsb(device)
         has_independent_ble_events ==
           /\ events # NoDevice
           /\ device.events_transport = "Bluetooth"
           /\ device.events_connected
     IN  IF has_independent_ble_events
           THEN /\ UpdateDevice([d EXCEPT !.transport = "UsbMux"])
                /\ NoLongerDirect
                /\ UNCHANGED <<phase, events, streams>>
           ELSE /\ device' = d
                /\ events' = NoDevice
                /\ streams' = {}
                /\ phase' = "ending"
                /\ UNCHANGED <<published, direct>>
  /\ UNCHANGED <<has_sensor_streams, streams_paused, streams_resume_armed,
                 config, rpc, usb_known, hub_devices, registering, aborted,
                 open, links>>

\* Mutant: the streams are cleared and still count as running.
ClearStreamsOnly == streams' = {} /\ UNCHANGED has_sensor_streams

ClearStreams == streams' = {} /\ has_sensor_streams' = FALSE

HandleRemoveEventsDevice ==
  /\ Receive({"RemoveEventsDevice"})
  /\ events' = NoDevice
  /\ ClearStreams
  /\ LET d == [device EXCEPT !.caps = @ \ {"EVENTS"}, !.events_connected = FALSE]
     IN  IF control
           THEN /\ UpdateDevice([d EXCEPT !.transport =
                                  IF @ = "UsbMux" THEN "Usb" ELSE @])
                /\ UNCHANGED phase
           ELSE /\ device' = d
                /\ phase' = "ending"
                /\ UNCHANGED published
  /\ UNCHANGED <<control, streams_paused, streams_resume_armed, config, rpc,
                 outside>>

\* Mutant: the closed queue is polled again and again.
HandleClosedAgain == Idle /\ ~open /\ UNCHANGED vars

\* control_stream yields None.
HandleClosed ==
  /\ Idle
  /\ ~open
  /\ phase' = "ending"
  /\ UNCHANGED <<inbox, conns, meta, stream, config, rpc, outside>>

\* Mutant: the queue outlives the task with the calls in it.
FinishKeepingQueue ==
  /\ phase = "ending"
  /\ phase' = "finished"
  /\ UNCHANGED <<inbox, conns, meta, stream, config, rpc, outside>>

\* Message::Disconnect, then the task returns: the receiver and every reply
\* channel still in the queue are dropped.
Finish ==
  /\ phase = "ending"
  /\ phase' = "finished"
  /\ inbox' = << >>
  /\ reply' = [r \in Requests |->
                 IF reply[r] = "waiting" THEN "dropped" ELSE reply[r]]
  /\ UNCHANGED <<conns, meta, stream, config, waiters, outside>>

-----------------------------------------------------------------------------
HandleMessage ==
  \/ HandleRegister
  \/ HandleConfig
  \/ HandleFlashSettings
  \/ HandleStartPairing
  \/ HandleBondOp
  \/ HandleSetTransportMode
  \/ HandleSetDeviceName
  \/ HandleAddEventsDevice
  \/ HandleAddControlDevice
  \/ HandleRemoveControlDevice
  \/ HandleRemoveEventsDevice

Next ==
  \/ Startup
  \/ HandleMessage
  \/ ResumeTimer
  \/ RetryTimer
  \/ StreamsEnded
  \/ HandleClosed
  \/ Finish
  \/ MuxSpawned
  \/ ScanFindsDevice
  \/ ScanMissesDevice
  \/ Orphaned
  \/ \E h \in Hubs : HubAddsDevice(h) \/ HubDropsDevice(h) \/ HubAborted(h)
  \/ \E r \in Requests : PairingResult(r) \/ \E k \in RequestKinds : Call(r, k)
  \/ \E s \in BasicStreams \cup {Battery} : StreamCloses(s)

\* The runtime polls a task that can move, and the calls into the device
\* return (most are under a timeout).  Nothing is assumed of the links, the
\* clients or the device.
Fairness ==
  /\ WF_vars(Startup)
  /\ WF_vars(HandleMessage)
  /\ WF_vars(ResumeTimer)
  /\ WF_vars(StreamsEnded)
  /\ WF_vars(HandleClosed)
  /\ WF_vars(Finish)
  /\ WF_vars(MuxSpawned)

Spec == Init /\ [][Next]_vars
FairSpec == Spec /\ Fairness

(***************************************************************************)
(* Safety.                                                                 *)
(***************************************************************************)

\* Every variable has the type the code gives it.
TypeOK ==
  /\ phase \in {"startup", "loop", "ending", "finished"}
  /\ inbox \in Seq(Message)
  /\ Len(inbox) <= QueueCap
  /\ control \in BOOLEAN
  /\ events \in Hubs \cup {NoDevice, WiredVm}
  /\ device \in Device
  /\ published \in Device
  /\ streams \subseteq BasicStreams \cup {Battery}
  /\ has_sensor_streams \in BOOLEAN
  /\ streams_paused \in BOOLEAN
  /\ streams_resume_armed \in BOOLEAN
  /\ protocol_version \in Versions
  /\ camera \in {"read", "dummy"}
  /\ reply \in [Requests -> {"none", "waiting", "ok", "err", "dropped"}]
  /\ waiters \subseteq Requests
  /\ direct \in BOOLEAN
  /\ usb_known \in BOOLEAN
  /\ hub_devices \subseteq Hubs
  /\ registering \in BOOLEAN
  /\ aborted \in BOOLEAN
  /\ open \in BOOLEAN
  /\ links \in 0 .. MaxLinks

Running == phase \in {"startup", "loop"}

\* Streams stopped for a batch of register accesses always have the debounce
\* armed that brings them back (1853-1873, 2458-2473): the retry arm is
\* disabled while streams_paused holds, so nothing else would.
PausedIsArmed == streams_paused => streams_resume_armed

\* The loop only polls streams of an events device it still has: whatever
\* takes events_device away also stops the streams (2404-2409, 2389-2390).
StreamsHaveDevice ==
  Running /\ has_sensor_streams => events # NoDevice

\* Clients see CONTROL exactly while a control connection is held, across
\* every merge and split of the USB and BLE connections.
ControlIsAdvertised ==
  Running => ("CONTROL" \in device.caps <=> control)

\* An events device is never held without EVENTS and events_connected being
\* reported.  (The converse fails: AddControlDevice also reports both when a
\* device in USB mode has no events device, 2316-2319.)
EventsAreAdvertised ==
  Running =>
    /\ "EVENTS" \in device.caps <=> device.events_connected
    /\ events # NoDevice => device.events_connected

\* Between two commands the device list has been sent exactly the metadata
\* the handler holds: no arm changes it without an UpdateDevice, UpdateName.
PublishedIsCurrent == Running => published = device

NothingAttached == ~control /\ events = NoDevice
EventsOnTheWay ==
  \E i \in 1 .. Len(inbox) :
    /\ inbox[i].kind = "AddEventsDevice"
    /\ \A j \in 1 .. i - 1 : inbox[j].kind \in RequestKinds

\* A handler with nothing attached does not linger as a dead entry of the
\* device list: it only exists until its first AddEventsDevice, which no
\* connection change can overtake (799-817, 2352-2440), unless the dongle was
\* aborted before it could queue it.
NoIdleHandler ==
  Running /\ NothingAttached =>
    registering \/ aborted \/ EventsOnTheWay

\* A call is waiting exactly if its message is in the queue, and then once:
\* every arm answers, on all of its early returns, before it takes the next
\* message.
WaitingIsQueued ==
  /\ \A r \in Requests :
       reply[r] = "waiting" <=> \E i \in 1 .. Len(inbox) : inbox[i].arg = r
  /\ \A i, j \in 1 .. Len(inbox) :
       inbox[i].arg = inbox[j].arg /\ inbox[i].arg \in Requests => i = j

\* No step leaves a running handler in direct_usb_handler_uuids, which scans
\* therefore never give a control device again (1177-1187), without one: a
\* handler that goes on over BLE after an unplug gives up its mark (2375), and
\* only a mark it found when it was spawned outlives that.
MarkGoesWithControl ==
  [][Running' /\ direct' /\ ~control' => direct /\ ~control]_vars

(***************************************************************************)
(* Liveness.                                                               *)
(***************************************************************************)

\* Paused streams are released again, whatever calls, link changes and
\* stream failures come in between.
PausedStreamsResume == streams_paused ~> ~streams_paused \/ phase # "loop"

\* Every gRPC call on the device returns, also when the handler leaves its
\* loop with the call still queued (2108, 2395, 2438).
EveryCallReturns ==
  \A r \in Requests : reply[r] = "waiting" ~> reply[r] # "waiting"

\* A handler that has left its loop, or lost its last connection or its last
\* sender, sends its Disconnect and ends; one that an aborted dongle left in
\* device_handles may stay with nothing attached.
UselessHandlerEnds ==
  /\ phase = "ending" \/ ~open ~> phase = "finished"
  /\ NothingAttached ~> phase = "finished" \/ ~NothingAttached \/ aborted

(***************************************************************************)
(* What the comments say and the code does not do.                         *)
(***************************************************************************)

\* device_tasks.rs:2363: "A device with an active BLE events connection has
\* genuinely independent events that survive USB disconnect."
BleSurvivesUnplug ==
  [][HandleRemoveControlDevice /\ events \in Hubs /\ has_sensor_streams
       => phase' = "loop"]_vars
=============================================================================
