--------------------------- MODULE DeviceRegistry ---------------------------
(***************************************************************************)
(* Who creates and removes the handlers and the list entries of one        *)
(* physical device (odyssey_hub_server/src/device_tasks.rs and lib.rs):    *)
(* the USB scan, one manager task per dongle, the handlers themselves, and *)
(* the forwarder that applies their messages to the device list.           *)
(*                                                                         *)
(* All tables are keyed by uuid; this is the view of one uuid.  Different  *)
(* devices meet only in the lock of device_handles and in the capacity of  *)
(* message_channel, which are kept.  A step reaches from one await that    *)
(* may wait to the next.  Handlers behave as LinkHandler does.             *)
(***************************************************************************)
EXTENDS Naturals, Sequences, FiniteSets, LinkOutcomes

CONSTANTS
  Hubs,        \* dongles
  UsbIds,      \* ids the operating system gives the device, one per plug
  DfuCapable,  \* the device shows a DFU interface (class 0xFE)
  None,        \* no handler, no id, no list entry, lock free
  Scan,        \* the scan task, as holder of the lock
  Dfu,         \* owner of a list entry surfaced for firmware update
  ChannelCap,  \* message_channel: mpsc::channel(12)
  QueueCap,    \* a handler's queue: mpsc::channel(32)
  MaxSpawns,   \* bound: handlers spawned
  MaxChanges   \* bound: plug, unplug and reach changes

ASSUME RegistryParameters ==
  /\ ChannelCap \in Nat \ {0}
  /\ QueueCap \in Nat \ {0}
  /\ MaxSpawns \in Nat \ {0}
  /\ MaxChanges \in Nat
  /\ DfuCapable \in BOOLEAN
  /\ None \notin UsbIds \cup Hubs \cup Nat \cup BOOLEAN
  /\ Scan \notin Hubs \cup {None}
  /\ Dfu \notin Nat \cup {None}

VARIABLES
  usb,           \* the device's port: its id and whether it is in DFU mode
  reach,         \* dongles the device is connected to
  plugged,       \* dongles that are plugged in
  changes,       \* changes of the three so far
  scan,          \* where the scan is and what it carries across awaits
  usb_ids,       \* direct_usb_id_to_uuid: ids probed as this device
  dfu_ids,       \* dfu_device_id_to_info: ids surfaced as this device
  manager,       \* per dongle: where its manager is and what it carries
  device_handles,\* the handler entered for this uuid
  holder,        \* the task that holds device_handles across an await
  direct,        \* uuid \in direct_usb_handler_uuids
  handler,       \* the handlers spawned so far; seen: it has been listed
  channel,       \* message_channel
  device_list,   \* the entry of this uuid
  dongle_list    \* per dongle: None, or whether it shows the device

surroundings == <<usb, reach, plugged, changes>>
scanning     == <<scan, usb_ids, dfu_ids>>
tables       == <<device_handles, holder, direct>>
lists        == <<device_list, dongle_list>>
vars == <<surroundings, scanning, manager, tables, handler, channel, lists>>

Ids == 1 .. MaxSpawns

Port == [id : UsbIds \cup {None}, dfu : BOOLEAN]
NoPort == [id |-> None, dfu |-> FALSE]

DeviceMessage == [kind : {"Connect", "Update"}, by : Ids \cup {Dfu},
                  control : BOOLEAN, events : Sources]
Message == DeviceMessage \cup [kind : {"Disconnect"}, by : Ids \cup {Dfu}]
             \cup [kind : {"DongleConnect", "DongleDisconnect"}, by : Hubs]
             \cup [kind : {"DongleUpdate"}, by : Hubs, has : BOOLEAN]
Entry == [commands : Ids \cup {Dfu}, control : BOOLEAN, events : Sources]

\* An entry is something: device_list has pairs (server.rs 29-30).
ASSUME EntryIsSome == None \notin Entry

\* port, hubs: what the pass has enumerated (hubs: not visited yet);
\* visit: the device is still to be visited; events: what its transport mode
\* gives;
\* spawned: the handler it is about to enter.
IdleScan == [pc |-> "list", port |-> NoPort, hubs |-> {}, visit |-> FALSE,
             present_dfu |-> FALSE, events |-> "none", spawned |-> None]
\* has: the device's address is in hub_devices.
NoManager == [pc |-> "none", has |-> FALSE, spawned |-> None]

Init ==
  /\ usb = NoPort
  /\ reach = {}
  /\ plugged = {}
  /\ changes = 0
  /\ scan = IdleScan
  /\ usb_ids = {}
  /\ dfu_ids = {}
  /\ manager = [h \in Hubs |-> NoManager]
  /\ device_handles = None
  /\ holder = None
  /\ direct = FALSE
  /\ handler = << >>
  /\ channel = << >>
  /\ device_list = None
  /\ dongle_list = [h \in Hubs |-> None]

(***************************************************************************)
(* The device and the dongles come and go.                                 *)
(***************************************************************************)
Change ==
  /\ changes < MaxChanges
  /\ changes' = changes + 1
  /\ UNCHANGED <<scanning, manager, tables, handler, channel, lists>>

\* Each plug gets an id that is not in use.
PlugDevice ==
  /\ Change
  /\ usb = NoPort
  /\ \E i \in UsbIds, dfu \in {FALSE, DfuCapable} :
       usb' = [id |-> i, dfu |-> dfu]
  /\ UNCHANGED <<reach, plugged>>

UnplugDevice ==
  /\ Change
  /\ usb # NoPort
  /\ usb' = NoPort
  /\ UNCHANGED <<reach, plugged>>

\* Firmware update and its end: the device re-enumerates.
SwitchDfu ==
  /\ Change
  /\ usb # NoPort
  /\ DfuCapable
  /\ \E i \in UsbIds : usb' = [id |-> i, dfu |-> ~usb.dfu]
  /\ UNCHANGED <<reach, plugged>>

PlugHub(h) ==
  /\ Change
  /\ h \notin plugged
  /\ plugged' = plugged \cup {h}
  /\ UNCHANGED <<usb, reach>>

UnplugHub(h) ==
  /\ Change
  /\ h \in plugged
  /\ plugged' = plugged \ {h}
  /\ reach' = reach \ {h}
  /\ UNCHANGED usb

\* The device connects to a dongle over BLE, or leaves it.
ReachHub(h) ==
  /\ Change
  /\ h \in plugged
  /\ reach' = IF h \in reach THEN reach \ {h} ELSE reach \cup {h}
  /\ UNCHANGED <<usb, plugged>>

(***************************************************************************)
(* Shared state.                                                           *)
(***************************************************************************)
\* Mutant: the registering manager does not keep the lock.
LockIgnored == TRUE

LockFree == holder = None

\* Mutant: a send that does not wait for room in the channel.
PostUnbounded(m) == channel' = Append(channel, m)

Post(m) ==
  /\ Len(channel) < ChannelCap
  /\ channel' = Append(channel, m)

DeviceNews(kind, i) ==
  [kind |-> kind, by |-> i, control |-> handler[i].control,
   events |-> handler[i].events]

Running(i) == i \in DOMAIN handler /\ handler[i].phase = "running"
Finished(i) == i \in DOMAIN handler /\ handler[i].phase = "finished"

\* A send to the handler's queue; it is lost if the receiver is gone.
SendTo(i, kind) ==
  IF Finished(i)
    THEN UNCHANGED handler
    ELSE /\ Len(handler[i].queue) < QueueCap
         /\ handler' = [handler EXCEPT ![i].queue = Append(@, kind)]

Spawn(control, events) ==
  /\ Len(handler) < MaxSpawns
  /\ handler' = Append(handler, [phase |-> "running", queue |-> << >>,
                                 control |-> control, events |-> events,
                                 seen |-> FALSE])

\* Mutant: a handler on its way out is taken for a finished one.
EvictedEarly ==
  IF device_handles # None /\ ~Running(device_handles) THEN None ELSE device_handles

\* Mutant: a finished handler keeps its place.
EvictedNever == device_handles

\* An entry whose handler has finished is dropped before it is used.
Evicted == IF Finished(device_handles) THEN None ELSE device_handles

(***************************************************************************)
(* The USB scan, one pass every 2 s.                                       *)
(***************************************************************************)
At(pc) == scan.pc = pc

\* Managers of dongles that are gone are aborted wherever they wait: what
\* they hold is dropped, and nothing is sent for the devices they had.
AbortManagers ==
  /\ manager' = [h \in Hubs |-> IF h \in plugged THEN manager[h] ELSE NoManager]
  /\ holder' = IF holder \in plugged \cup {Scan} THEN holder ELSE None

ScanLists ==
  /\ At("list")
  /\ scan' = [IdleScan EXCEPT !.pc = "clean", !.port = usb, !.hubs = plugged,
                              !.visit = (usb # NoPort)]
  /\ AbortManagers
  /\ UNCHANGED <<surroundings, usb_ids, dfu_ids, device_handles, direct, handler,
                 channel, lists>>

ScanCleans ==
  /\ At("clean")
  /\ LockFree
  /\ scan' = [scan EXCEPT !.pc = "walk"]
  /\ device_handles' = Evicted
  /\ direct' = (direct /\ ~Finished(device_handles))
  /\ UNCHANGED <<surroundings, usb_ids, dfu_ids, manager, holder, handler,
                 channel, lists>>

\* A dongle without a running manager is connected, or fails to be.
ScanVisitsHub(h) ==
  /\ At("walk")
  /\ h \in scan.hubs
  /\ scan' = [scan EXCEPT !.hubs = @ \ {h}]
  /\ IF manager[h].pc \in {"none", "finished"}
       THEN \E connected \in {FALSE, (h \in plugged)} :
              manager' = [manager EXCEPT ![h] =
                [NoManager EXCEPT !.pc = IF connected THEN "start" ELSE "none"]]
       ELSE UNCHANGED manager
  /\ UNCHANGED <<surroundings, usb_ids, dfu_ids, tables, handler, channel, lists>>

\* The device answers: its uuid is known from here on.
ScanProbes ==
  /\ At("walk")
  /\ scan.visit
  /\ ~scan.port.dfu
  /\ usb = scan.port
  /\ usb_ids' = usb_ids \cup {scan.port.id}
  /\ \E events \in {"none", "wired"} :
       scan' = [scan EXCEPT !.pc = "check", !.visit = FALSE, !.events = events]
  /\ UNCHANGED <<surroundings, dfu_ids, manager, tables, handler, channel, lists>>

\* It does not answer, or not with its uuid.
ScanProbeFails ==
  /\ At("walk")
  /\ scan.visit
  /\ scan' = [scan EXCEPT !.visit = FALSE]
  /\ UNCHANGED <<surroundings, usb_ids, dfu_ids, manager, tables, handler,
                 channel, lists>>

\* The uuid is tracked already, by a handler or as a DFU device.
AlreadyTracked == device_handles # None \/ dfu_ids # {}

\* Connecting fails and there is a DFU interface: unless a handler explains
\* the failure, the device is surfaced for a firmware update.
ScanSurfacesDfu ==
  /\ At("walk")
  /\ scan.visit
  /\ DfuCapable
  /\ LockFree
  /\ ~(scan.port.id \in usb_ids /\ device_handles # None)
  /\ scan' = [scan EXCEPT !.visit = FALSE, !.present_dfu = TRUE]
  /\ IF AlreadyTracked
       THEN UNCHANGED <<dfu_ids, channel>>
       ELSE /\ dfu_ids' = dfu_ids \cup {scan.port.id}
            /\ Post([kind |-> "Connect", by |-> Dfu, control |-> FALSE,
                     events |-> "none"])
  /\ UNCHANGED <<surroundings, usb_ids, manager, tables, handler, lists>>

\* Under the lock: merge into the handler there is, or decide to create one,
\* which is spawned after the lock is released.
ScanChecks ==
  /\ At("check")
  /\ LockFree
  /\ device_handles' = Evicted
  /\ direct' = (direct /\ ~Finished(device_handles))
  /\ CASE Evicted = None ->
            /\ Spawn(TRUE, scan.events)
            /\ scan' = [scan EXCEPT !.pc = "insert", !.spawned = Len(handler) + 1]
            /\ UNCHANGED holder
       [] Evicted # None /\ direct ->
            /\ scan' = [scan EXCEPT !.pc = "walk"]
            /\ UNCHANGED <<handler, holder>>
       [] Evicted # None /\ ~direct ->
            /\ scan' = [scan EXCEPT !.pc = "merge"]
            /\ holder' = Scan
            /\ UNCHANGED handler
  /\ UNCHANGED <<surroundings, usb_ids, dfu_ids, manager, channel, lists>>

ScanMerges ==
  /\ At("merge")
  /\ SendTo(device_handles, "AddControlDevice")
  /\ scan' = [scan EXCEPT !.pc = "walk"]
  /\ holder' = None
  /\ UNCHANGED <<surroundings, usb_ids, dfu_ids, manager, device_handles, direct,
                 channel, lists>>

ScanInserts ==
  /\ At("insert")
  /\ LockFree
  /\ device_handles' = scan.spawned
  /\ direct' = TRUE
  /\ scan' = [scan EXCEPT !.pc = "connect"]
  /\ UNCHANGED <<surroundings, usb_ids, dfu_ids, manager, holder, handler,
                 channel, lists>>

\* The metadata of the Connect is that of the probe.
ScanConnects ==
  /\ At("connect")
  /\ Post([kind |-> "Connect", by |-> scan.spawned, control |-> TRUE,
           events |-> scan.events])
  /\ scan' = [scan EXCEPT !.pc = "walk", !.spawned = None]
  /\ UNCHANGED <<surroundings, usb_ids, dfu_ids, manager, tables, handler, lists>>

\* Mutant: ids that are gone are forgotten and their handler is not told.
ForgetGone == FALSE

\* An id known as this device was not enumerated (there is at most one), and
\* there is a handler to tell.
GoneWithHandler == ~(usb_ids \subseteq {scan.port.id}) /\ device_handles # None

ScanReconciles ==
  /\ At("walk")
  /\ scan.hubs = {}
  /\ ~scan.visit
  /\ usb_ids \subseteq {scan.port.id} \/ LockFree
  /\ usb_ids' = usb_ids \cap {scan.port.id}
  /\ scan' = [scan EXCEPT !.pc = IF GoneWithHandler THEN "gone" ELSE "dfu"]
  /\ holder' = IF GoneWithHandler THEN Scan ELSE holder
  /\ UNCHANGED <<surroundings, dfu_ids, manager, device_handles, direct, handler,
                 channel, lists>>

ScanTellsGone ==
  /\ At("gone")
  /\ SendTo(device_handles, "RemoveControlDevice")
  /\ scan' = [scan EXCEPT !.pc = "dfu"]
  /\ holder' = None
  /\ UNCHANGED <<surroundings, usb_ids, dfu_ids, manager, device_handles, direct,
                 channel, lists>>

\* The same for ids surfaced in DFU mode; the scan then sleeps.
ScanReconcilesDfu ==
  /\ At("dfu")
  /\ dfu_ids' = IF scan.present_dfu THEN dfu_ids \cap {scan.port.id} ELSE {}
  /\ IF dfu_ids' = dfu_ids
       THEN UNCHANGED channel
       ELSE Post([kind |-> "Disconnect", by |-> Dfu])
  /\ scan' = IdleScan
  /\ UNCHANGED <<surroundings, usb_ids, manager, tables, handler, lists>>

(***************************************************************************)
(* The manager of dongle h: snapshots of the devices connected to it.      *)
(***************************************************************************)
Managing(h, pc) == manager[h].pc = pc
Goto(h, pc) == manager' = [manager EXCEPT ![h].pc = pc]

\* Mutant: the dongle is only registered once it has a device.
HubStartsSilently(h) ==
  /\ Managing(h, "start")
  /\ Goto(h, "idle")
  /\ UNCHANGED <<surroundings, scanning, tables, handler, channel, lists>>

HubStarts(h) ==
  /\ Managing(h, "start")
  /\ Post([kind |-> "DongleConnect", by |-> h])
  /\ Goto(h, "idle")
  /\ UNCHANGED <<surroundings, scanning, tables, handler, lists>>

\* A snapshot has the device, which connects and answers, or does not.
HubFindsDevice(h) ==
  /\ Managing(h, "idle")
  /\ ~manager[h].has
  /\ h \in reach
  /\ \E pc \in {"found", "update"} : Goto(h, pc)
  /\ UNCHANGED <<surroundings, scanning, tables, handler, channel, lists>>

\* Under the lock: merge into the handler there is, or decide to create one.
\* A finished handler is evicted here without its mark in
\* direct_usb_handler_uuids, which its successor takes over: with the device
\* still on USB, the scan then passes over a handler that has no control.
HubChecks(h) ==
  /\ Managing(h, "found")
  /\ LockFree
  /\ device_handles' = Evicted
  /\ IF Evicted # None
       THEN /\ Goto(h, "merge")
            /\ holder' = h
            /\ UNCHANGED handler
       ELSE /\ Spawn(FALSE, "none")
            /\ manager' = [manager EXCEPT ![h].pc = "spawned",
                                          ![h].spawned = Len(handler) + 1]
            /\ UNCHANGED holder
  /\ UNCHANGED <<surroundings, scanning, direct, channel, lists>>

HubMerges(h) ==
  /\ Managing(h, "merge")
  /\ SendTo(device_handles, "AddEventsDevice")
  /\ manager' = [manager EXCEPT ![h].pc = "update", ![h].has = TRUE]
  /\ holder' = None
  /\ UNCHANGED <<surroundings, scanning, device_handles, direct, channel, lists>>

\* Mutant: the handler's first message goes ahead of its Connect.
HubInsertsQueueing(h) ==
  /\ Managing(h, "spawned")
  /\ LockFree
  /\ holder' = h
  /\ device_handles' = manager[h].spawned
  /\ manager' = [manager EXCEPT ![h].has = TRUE, ![h].pc = "connect"]
  /\ SendTo(manager[h].spawned, "AddEventsDevice")
  /\ UNCHANGED <<surroundings, scanning, direct, channel, lists>>

\* From here the lock is kept until the handler has its first message.
HubInserts(h) ==
  /\ Managing(h, "spawned")
  /\ LockFree
  /\ holder' = h
  /\ device_handles' = manager[h].spawned
  /\ manager' = [manager EXCEPT ![h].has = TRUE, ![h].pc = "connect"]
  /\ UNCHANGED <<surroundings, scanning, direct, handler, channel, lists>>

HubConnects(h) ==
  /\ Managing(h, "connect")
  /\ Post([kind |-> "Connect", by |-> manager[h].spawned, control |-> FALSE,
           events |-> "none"])
  /\ Goto(h, "queue")
  /\ UNCHANGED <<surroundings, scanning, tables, handler, lists>>

HubQueues(h) ==
  /\ Managing(h, "queue")
  /\ SendTo(manager[h].spawned, "AddEventsDevice")
  /\ manager' = [manager EXCEPT ![h].pc = "update", ![h].spawned = None]
  /\ holder' = None
  /\ UNCHANGED <<surroundings, scanning, device_handles, direct, channel, lists>>

\* The device is taken out of hub_devices; its handler, if any, is told under
\* the lock, and the manager goes on at pc.
Drop(h, telling, pc) ==
  /\ LockFree
  /\ IF device_handles = None
       THEN /\ manager' = [manager EXCEPT ![h].has = FALSE, ![h].pc = pc]
            /\ UNCHANGED holder
       ELSE /\ manager' = [manager EXCEPT ![h].has = FALSE, ![h].pc = telling]
            /\ holder' = h

Tell(h, telling, pc) ==
  /\ Managing(h, telling)
  /\ SendTo(device_handles, "RemoveEventsDevice")
  /\ Goto(h, pc)
  /\ holder' = None
  /\ UNCHANGED <<surroundings, scanning, device_handles, direct, channel, lists>>

\* A snapshot no longer has the device.
HubLosesDevice(h) ==
  /\ Managing(h, "idle")
  /\ manager[h].has
  /\ h \notin reach
  /\ Drop(h, "detach", "update")
  /\ UNCHANGED <<surroundings, scanning, device_handles, direct, handler, channel,
                 lists>>

HubDetaches(h) == Tell(h, "detach", "update")

\* Every snapshot ends with the dongle's devices.
HubUpdates(h) ==
  /\ Managing(h, "update")
  /\ Post([kind |-> "DongleUpdate", by |-> h, has |-> manager[h].has])
  /\ Goto(h, "idle")
  /\ UNCHANGED <<surroundings, scanning, tables, handler, lists>>

\* receive_snapshot fails: the manager leaves its loop.
HubFails(h) ==
  /\ Managing(h, "idle")
  /\ h \notin plugged
  /\ Post([kind |-> "DongleDisconnect", by |-> h])
  /\ Goto(h, "cleanup")
  /\ UNCHANGED <<surroundings, scanning, tables, handler, lists>>

HubCleansUp(h) ==
  /\ Managing(h, "cleanup")
  /\ IF manager[h].has THEN Drop(h, "bye", "finished")
                       ELSE Goto(h, "finished") /\ UNCHANGED holder
  /\ UNCHANGED <<surroundings, scanning, device_handles, direct, handler, channel,
                 lists>>

HubSaysBye(h) == Tell(h, "bye", "finished")

(***************************************************************************)
(* The handlers, as LinkHandler has them, and what they tell the list.     *)
(***************************************************************************)
\* Some sender of the handler's queue is alive.
Open(i) ==
  \/ device_handles = i
  \/ scan.spawned = i
  \/ \E h \in Hubs : manager[h].spawned = i
  \/ device_list # None /\ device_list.commands = i
  \/ \E k \in DOMAIN channel : channel[k].kind = "Connect" /\ channel[k].by = i

Conn(i) == [phase |-> handler[i].phase, control |-> handler[i].control,
            events |-> handler[i].events, direct |-> direct]

\* A handler that goes on tells its new metadata, except that an
\* AddEventsDevice it ignores changes none.
HandlerTakes(i) ==
  /\ Running(i)
  /\ handler[i].queue # << >>
  /\ LET kind == Head(handler[i].queue)
     IN \E c \in Outcomes(Conn(i), kind) :
          /\ handler' = [handler EXCEPT
               ![i] = [handler[i] EXCEPT !.phase = c.phase,
                         !.queue = Tail(handler[i].queue),
                         !.control = c.control, !.events = c.events]]
          /\ direct' = c.direct
          /\ \/ /\ c.phase = "running"
                /\ Post([kind |-> "Update", by |-> i, control |-> c.control,
                         events |-> c.events])
             \/ /\ \/ c.phase = "ending"
                   \/ kind = "AddEventsDevice" /\ c = Conn(i)
                /\ UNCHANGED channel
  /\ UNCHANGED <<surroundings, scanning, manager, device_handles, holder, lists>>

\* A client that found the device in the list changes the transport mode, or
\* nobody can reach the handler.
HandlerLeaves(i) ==
  /\ Running(i)
  /\ \/ handler[i].control /\ handler[i].seen
     \/ handler[i].queue = << >> /\ ~Open(i)
  /\ handler' = [handler EXCEPT ![i].phase = "ending"]
  /\ UNCHANGED <<surroundings, scanning, manager, tables, channel, lists>>

\* Mutant: the handler returns without its Disconnect.
FinishSilently(i) == UNCHANGED channel

\* Mutant: the handler locks device_handles before it goes.
GoodbyeUnderLock(i) == LockFree /\ Post([kind |-> "Disconnect", by |-> i])

SayGoodbye(i) == Post([kind |-> "Disconnect", by |-> i])

HandlerFinishes(i) ==
  /\ i \in DOMAIN handler
  /\ handler[i].phase = "ending"
  /\ SayGoodbye(i)
  /\ handler' = [handler EXCEPT ![i].phase = "finished", ![i].queue = << >>]
  /\ UNCHANGED <<surroundings, scanning, manager, tables, lists>>

(***************************************************************************)
(* The forwarder of lib.rs.                                                *)
(***************************************************************************)
\* A Connect replaces the entry of its uuid; without a command channel it
\* leaves the channel of the entry in place.
Listed(m) ==
  [commands |-> IF m.by = Dfu /\ device_list # None
                  THEN device_list.commands ELSE m.by,
   control |-> m.control, events |-> m.events]

\* Mutant: new metadata is only taken over with the next Connect.
UpdatedLater(m) == device_list

\* An UpdateDevice for a uuid that is not listed has no effect.
Updated(m) ==
  IF device_list = None
    THEN None
    ELSE [device_list EXCEPT !.control = m.control, !.events = m.events]

Forward ==
  /\ channel # << >>
  /\ channel' = Tail(channel)
  /\ LET m == Head(channel)
     IN  /\ device_list' =
              CASE m.kind = "Connect" -> Listed(m)
                [] m.kind = "Disconnect" -> None
                [] m.kind = "Update" -> Updated(m)
                [] OTHER -> device_list
         /\ dongle_list' =
              CASE m.kind = "DongleConnect" ->
                     [dongle_list EXCEPT ![m.by] = FALSE]
                [] m.kind = "DongleUpdate" /\ dongle_list[m.by] # None ->
                     [dongle_list EXCEPT ![m.by] = m.has]
                [] m.kind = "DongleDisconnect" ->
                     [dongle_list EXCEPT ![m.by] = None]
                [] OTHER -> dongle_list
         /\ handler' = IF m.kind = "Connect" /\ m.by # Dfu
                         THEN [handler EXCEPT ![m.by].seen = TRUE]
                         ELSE handler
  /\ UNCHANGED <<surroundings, scanning, manager, tables>>

-----------------------------------------------------------------------------
ScanStep ==
  \/ ScanLists
  \/ ScanCleans
  \/ \E h \in Hubs : ScanVisitsHub(h)
  \/ ScanProbes
  \/ ScanProbeFails
  \/ ScanSurfacesDfu
  \/ ScanChecks
  \/ ScanMerges
  \/ ScanInserts
  \/ ScanConnects
  \/ ScanReconciles
  \/ ScanTellsGone
  \/ ScanReconcilesDfu

HubStep(h) ==
  \/ HubStarts(h)
  \/ HubFindsDevice(h)
  \/ HubChecks(h)
  \/ HubMerges(h)
  \/ HubInserts(h)
  \/ HubConnects(h)
  \/ HubQueues(h)
  \/ HubLosesDevice(h)
  \/ HubDetaches(h)
  \/ HubUpdates(h)
  \/ HubFails(h)
  \/ HubCleansUp(h)
  \/ HubSaysBye(h)

\* What a handler does on its own account, without a client.
HandlerStep(i) ==
  \/ HandlerTakes(i)
  \/ HandlerFinishes(i)
  \/ ~Open(i) /\ HandlerLeaves(i)

Surroundings ==
  \/ PlugDevice
  \/ UnplugDevice
  \/ SwitchDfu
  \/ \E h \in Hubs : PlugHub(h) \/ UnplugHub(h) \/ ReachHub(h)

Next ==
  \/ Surroundings
  \/ ScanStep
  \/ \E h \in Hubs : HubStep(h)
  \/ \E i \in Ids : HandlerTakes(i) \/ HandlerLeaves(i) \/ HandlerFinishes(i)
  \/ Forward

\* Every task that can move is polled again, and the lock and the channel
\* serve those who wait in their order, so that nobody waits while others are
\* served for ever; a device that keeps answering is probed with success in
\* the end.  Nothing is assumed of the device, the dongles or the clients.
Fairness ==
  /\ SF_vars(ScanStep)
  /\ SF_vars(ScanProbes)
  /\ \A h \in Hubs : SF_vars(HubStep(h))
  /\ \A i \in Ids : SF_vars(HandlerStep(i))
  /\ WF_vars(Forward)

Spec == Init /\ [][Next]_vars
FairSpec == Spec /\ Fairness

(***************************************************************************)
(* Safety.                                                                 *)
(***************************************************************************)
ScanState == [pc : {"list", "clean", "walk", "check", "merge", "insert",
                    "connect", "gone", "dfu"},
              port : Port, hubs : SUBSET Hubs, visit : BOOLEAN,
              present_dfu : BOOLEAN, events : Sources, spawned : Ids \cup {None}]

ManagerState == [pc : {"none", "start", "idle", "found", "merge", "spawned",
                       "connect", "queue", "detach", "update", "cleanup", "bye",
                       "finished"},
                 has : BOOLEAN, spawned : Ids \cup {None}]

HandlerState == [phase : {"running", "ending", "finished"},
                 queue : Seq(LinkKinds), control : BOOLEAN, events : Sources,
                 seen : BOOLEAN]

\* Every variable has the type the code gives it, and no queue is over its
\* capacity.
TypeOK ==
  /\ usb \in Port
  /\ plugged \subseteq Hubs
  /\ reach \subseteq plugged
  /\ changes \in 0 .. MaxChanges
  /\ scan \in ScanState
  /\ usb_ids \subseteq UsbIds
  /\ dfu_ids \subseteq UsbIds
  /\ manager \in [Hubs -> ManagerState]
  /\ device_handles \in {None} \cup DOMAIN handler
  /\ holder \in Hubs \cup {Scan, None}
  /\ direct \in BOOLEAN
  /\ handler \in Seq(HandlerState)
  /\ Len(handler) <= MaxSpawns
  /\ \A i \in DOMAIN handler : Len(handler[i].queue) <= QueueCap
  /\ channel \in Seq(Message)
  /\ Len(channel) <= ChannelCap
  /\ device_list \in Entry \cup {None}
  /\ dongle_list \in [Hubs -> BOOLEAN \cup {None}]

Queued(kind, i) ==
  \E k \in DOMAIN channel : channel[k].kind = kind /\ channel[k].by = i

Registering(i) ==
  \/ scan.spawned = i
  \/ \E h \in Hubs : manager[h].spawned = i
  \/ Queued("Connect", i)

\* No dead device stays in the list: an entry whose commands go to a handler
\* that has finished is about to be taken off, in every interleaving of
\* registrations and endings (766-818, 1287-1315, 2522-2532).
NoGhost ==
  device_list # None /\ Finished(device_list.commands) =>
    \E k \in DOMAIN channel : channel[k].kind = "Disconnect"

\* The handler that commands and connection changes are sent to is the one
\* clients see, once it is registered.
LiveHandlerIsListed ==
  \A i \in Ids :
    device_handles = i /\ Running(i) /\ ~Registering(i) =>
      device_list # None /\ device_list.commands = i

\* With nothing left to forward, clients see the connections there are.
ListIsCurrent ==
  \A i \in Ids :
    channel = << >> /\ Running(i) /\ device_list # None
      /\ device_list.commands = i =>
      /\ device_list.control = handler[i].control
      /\ device_list.events = handler[i].events

\* A dongle whose manager waits for a snapshot is listed, with the devices it
\* has: no late message of an earlier manager takes it off or empties it
\* (517-519, 892-894, 972-974; lib.rs 454-487).
DongleIsCurrent ==
  \A h \in Hubs :
    manager[h].pc = "idle"
      /\ (\A k \in DOMAIN channel : channel[k].by # h) =>
      dongle_list[h] = manager[h].has

Unannounced(i) ==
  \E h \in Hubs : manager[h].spawned = i /\ manager[h].pc # "queue"

\* A dongle's new handler is announced "before UpdateDevice can arrive" (803):
\* an UpdateDevice that came first would be lost, and the entry made after it
\* stale.  (Not so the Connect with control of the USB path, which lets go of
\* device_handles before it is sent, 1303-1315.)
ConnectBeforeUpdate ==
  \A k \in DOMAIN channel :
    channel[k].kind = "Update" =>
      /\ ~Unannounced(channel[k].by)
      /\ \A l \in k + 1 .. Len(channel) :
           channel[l].kind = "Connect" /\ channel[l].by = channel[k].by =>
             channel[l].control

\* The first message a dongle's new handler gets is its AddEventsDevice: no
\* RemoveEventsDevice, RemoveControlDevice or AddControlDevice comes between
\* its entry in device_handles and that message (799-817).
FirstEventsFirst ==
  \A h \in Hubs :
    manager[h].pc \in {"connect", "queue"} =>
      handler[manager[h].spawned].queue = << >>

(***************************************************************************)
(* Liveness.                                                               *)
(***************************************************************************)
BoundMet == Len(handler) = MaxSpawns

\* The scan, the managers, the handlers and the forwarder never wait for one
\* another in a circle through the lock, the queues and the channel: every
\* scan pass ends (799-817, 1193, 1337; the bound on spawns may stop it here).
ScanPassesEnd == []<>(At("list") \/ BoundMet)

\* A device that stays away disappears from the list, whatever it and the
\* scan were doing when it left.
UnpluggedIsDelisted ==
  <>[](usb = NoPort /\ reach = {}) => <>[](device_list = None) \/ <>BoundMet

\* A device that stays plugged in, and is not in DFU mode, is listed with
\* control in the end, if no dongle has it: one may leave a mark that makes
\* the scan pass it over for good (see HubChecks).
PluggedIsListed ==
  <>[](usb # NoPort /\ ~usb.dfu) =>
    <>[](device_list # None /\ device_list.control) \/ <>BoundMet

(***************************************************************************)
(* What the comments say and the code does not do.                         *)
(***************************************************************************)

\* device_tasks.rs:741 and 1152: the check whether the "device is already
\* connected" comes before a handler is created, so that there is one.
OneHandlerPerUuid == Cardinality({i \in Ids : Running(i)}) <= 1
=============================================================================
