------------------------ MODULE DeviceRegistryProofs ------------------------
(***************************************************************************)
(* Proofs about DeviceRegistry, for any dongles, ids, capacities and any   *)
(* number of handlers and changes.                                         *)
(***************************************************************************)
EXTENDS DeviceRegistry, SequenceTheorems, TLAPS

(***************************************************************************)
(* The shared state: what a send, a spawn and a forwarded message do.      *)
(***************************************************************************)
HandlersOK ==
  /\ handler \in Seq(HandlerState)
  /\ Len(handler) <= MaxSpawns
  /\ \A i \in DOMAIN handler : Len(handler[i].queue) <= QueueCap

ChannelOK ==
  /\ channel \in Seq(Message)
  /\ Len(channel) <= ChannelCap

LEMMA HandlerIds ==
  ASSUME HandlersOK
  PROVE  /\ Len(handler) \in Nat
         /\ DOMAIN handler = 1 .. Len(handler)
         /\ DOMAIN handler \subseteq Ids
         /\ \A i \in DOMAIN handler : handler[i] \in HandlerState
  <1>1. Len(handler) \in Nat /\ DOMAIN handler = 1 .. Len(handler)
    BY LenProperties DEF HandlersOK
  <1>2. Len(handler) <= MaxSpawns /\ MaxSpawns \in Nat
    BY RegistryParameters DEF HandlersOK
  <1>3. \A i \in 1 .. Len(handler) : handler[i] \in HandlerState
    BY ElementOfSeq DEF HandlersOK
  <1>4. QED  BY <1>1, <1>2, <1>3 DEF Ids

\* One handler changes, the others stay.
LEMMA OneHandler ==
  ASSUME HandlersOK, NEW i \in DOMAIN handler, NEW r \in HandlerState,
         Len(r.queue) <= QueueCap, handler' = [handler EXCEPT ![i] = r]
  PROVE  /\ HandlersOK'
         /\ Len(handler') = Len(handler)
         /\ DOMAIN handler' = DOMAIN handler
         /\ handler'[i] = r
         /\ \A j \in DOMAIN handler : j # i => handler'[j] = handler[j]
  <1>1. handler \in Seq(HandlerState) /\ DOMAIN handler = 1 .. Len(handler)
    BY HandlerIds DEF HandlersOK
  <1>2. /\ handler' \in Seq(HandlerState) /\ Len(handler') = Len(handler)
        /\ \A j \in 1 .. Len(handler) : handler'[j] = IF j = i THEN r ELSE handler[j]
    BY <1>1, ExceptSeq
  <1>3. DOMAIN handler' = 1 .. Len(handler')  BY <1>2, LenProperties
  <1>4. QED  BY <1>1, <1>2, <1>3 DEF HandlersOK

\* A send adds to the queue of its handler, if at all, and changes nothing else.
LEMMA SendChanges ==
  ASSUME HandlersOK, NEW i \in DOMAIN handler, NEW kind \in LinkKinds, SendTo(i, kind)
  PROVE  /\ HandlersOK'
         /\ Len(handler') = Len(handler)
         /\ DOMAIN handler' = DOMAIN handler
         /\ \A j \in DOMAIN handler :
              /\ j # i => handler'[j] = handler[j]
              /\ handler'[j].phase = handler[j].phase
              /\ handler'[j].control = handler[j].control
              /\ handler'[j].events = handler[j].events
              /\ handler'[j].seen = handler[j].seen
         /\ handler'[i].queue \in {handler[i].queue, Append(handler[i].queue, kind)}
  <1>1. handler[i] \in HandlerState  BY HandlerIds
  <1>2. CASE Finished(i)
    BY <1>2 DEF SendTo, HandlersOK
  <1>3. CASE ~Finished(i)
    <2> DEFINE q == Append(handler[i].queue, kind)
               r == [handler[i] EXCEPT !.queue = q]
    <2>1. Len(handler[i].queue) < QueueCap /\ handler' = [handler EXCEPT ![i] = r]
      BY <1>3 DEF SendTo
    <2>2. handler[i].queue \in Seq(LinkKinds)  BY <1>1 DEF HandlerState
    <2>3. q \in Seq(LinkKinds) /\ Len(q) = Len(handler[i].queue) + 1
      BY <2>2, AppendProperties
    <2>4. Len(handler[i].queue) \in Nat /\ QueueCap \in Nat
      BY <2>2, LenProperties, RegistryParameters
    <2>5. r \in HandlerState /\ r.queue = q /\ Len(r.queue) <= QueueCap
      BY <1>1, <2>1, <2>3, <2>4 DEF HandlerState
    <2>6. /\ r.phase = handler[i].phase /\ r.control = handler[i].control
          /\ r.events = handler[i].events /\ r.seen = handler[i].seen
      BY <1>1 DEF HandlerState
    <2> HIDE DEF r
    <2>7. /\ HandlersOK' /\ Len(handler') = Len(handler)
          /\ DOMAIN handler' = DOMAIN handler /\ handler'[i] = r
          /\ \A j \in DOMAIN handler : j # i => handler'[j] = handler[j]
      BY <2>1, <2>5, OneHandler
    <2>8. QED  BY <2>5, <2>6, <2>7
  <1>4. QED  BY <1>2, <1>3

\* A spawned handler is the last one, runs and has had no message.
LEMMA SpawnAppends ==
  ASSUME HandlersOK, NEW control \in BOOLEAN, NEW events \in Sources,
         Spawn(control, events)
  PROVE  LET n == Len(handler) + 1
         IN  /\ HandlersOK'
             /\ n \in Ids /\ n \notin DOMAIN handler
             /\ DOMAIN handler' = DOMAIN handler \cup {n}
             /\ Len(handler') = n
             /\ \A j \in DOMAIN handler : handler'[j] = handler[j]
             /\ handler'[n] = [phase |-> "running", queue |-> << >>,
                               control |-> control, events |-> events, seen |-> FALSE]
  <1> DEFINE n == Len(handler) + 1
             r == [phase |-> "running", queue |-> << >>,
                   control |-> control, events |-> events, seen |-> FALSE]
  <1>1. /\ Len(handler) \in Nat /\ DOMAIN handler = 1 .. Len(handler)
        /\ handler \in Seq(HandlerState)
        /\ \A i \in DOMAIN handler : Len(handler[i].queue) <= QueueCap
    BY HandlerIds DEF HandlersOK
  <1>2. Len(handler) < MaxSpawns /\ handler' = Append(handler, r)  BY DEF Spawn
  <1>3. << >> \in Seq(LinkKinds) /\ Len(<< >>) = 0  BY EmptySeq
  <1>4. r \in HandlerState /\ Len(r.queue) <= QueueCap
    BY <1>3, RegistryParameters DEF HandlerState
  <1> HIDE DEF r
  <1>5. /\ handler' \in Seq(HandlerState) /\ Len(handler') = n /\ handler'[n] = r
        /\ \A j \in 1 .. Len(handler) : handler'[j] = handler[j]
    BY <1>1, <1>2, <1>4, AppendProperties
  <1>6. DOMAIN handler' = 1 .. n  BY <1>5, LenProperties
  <1>7. MaxSpawns \in Nat /\ n \in Ids /\ n \notin DOMAIN handler
    BY <1>1, <1>2, RegistryParameters DEF Ids
  <1>8. HandlersOK'
    BY <1>1, <1>2, <1>4, <1>5, <1>6, <1>7 DEF HandlersOK
  <1>9. QED  BY <1>1, <1>5, <1>6, <1>7, <1>8 DEF r

LEMMA ChannelIndices ==
  ASSUME ChannelOK
  PROVE  /\ Len(channel) \in Nat
         /\ DOMAIN channel = 1 .. Len(channel)
         /\ \A k \in DOMAIN channel : channel[k] \in Message
  <1>1. Len(channel) \in Nat /\ DOMAIN channel = 1 .. Len(channel)
    BY LenProperties DEF ChannelOK
  <1>2. \A k \in 1 .. Len(channel) : channel[k] \in Message
    BY ElementOfSeq DEF ChannelOK
  <1>3. QED  BY <1>1, <1>2

LEMMA PostAppends ==
  ASSUME ChannelOK, NEW m \in Message, Post(m)
  PROVE  LET n == Len(channel) + 1
         IN  /\ ChannelOK'
             /\ Len(channel') = n
             /\ DOMAIN channel' = DOMAIN channel \cup {n}
             /\ \A k \in DOMAIN channel : k < n /\ channel'[k] = channel[k]
             /\ channel'[n] = m
  <1>1. /\ Len(channel) \in Nat /\ DOMAIN channel = 1 .. Len(channel)
        /\ channel \in Seq(Message) /\ ChannelCap \in Nat
    BY ChannelIndices, RegistryParameters DEF ChannelOK
  <1>2. Len(channel) < ChannelCap /\ channel' = Append(channel, m)  BY DEF Post
  <1>3. /\ channel' \in Seq(Message) /\ Len(channel') = Len(channel) + 1
        /\ channel'[Len(channel) + 1] = m
        /\ \A k \in 1 .. Len(channel) : channel'[k] = channel[k]
    BY <1>1, <1>2, AppendProperties
  <1>4. DOMAIN channel' = 1 .. Len(channel) + 1  BY <1>3, LenProperties
  <1>5. QED  BY <1>1, <1>2, <1>3, <1>4 DEF ChannelOK

\* What is left after a message is forwarded, one place further ahead.
LEMMA ForwardShifts ==
  ASSUME ChannelOK, channel # << >>, channel' = Tail(channel)
  PROVE  /\ ChannelOK'
         /\ 1 \in DOMAIN channel /\ Head(channel) = channel[1]
         /\ Len(channel') = Len(channel) - 1
         /\ DOMAIN channel' = 1 .. Len(channel) - 1
         /\ \A k \in DOMAIN channel' : k + 1 \in DOMAIN channel
                                       /\ channel'[k] = channel[k + 1]
         /\ \A k \in DOMAIN channel : k # 1 => k - 1 \in DOMAIN channel'
                                               /\ channel'[k - 1] = channel[k]
  <1>1. /\ Len(channel) \in Nat /\ DOMAIN channel = 1 .. Len(channel)
        /\ channel \in Seq(Message) /\ ChannelCap \in Nat /\ Len(channel) <= ChannelCap
    BY ChannelIndices, RegistryParameters DEF ChannelOK
  <1>2. /\ channel' \in Seq(Message) /\ Len(channel') = Len(channel) - 1
        /\ \A k \in 1 .. Len(channel') : channel'[k] = channel[k + 1]
    BY <1>1, HeadTailProperties
  <1>3. Len(channel') \in Nat /\ DOMAIN channel' = 1 .. Len(channel')
    BY <1>2, LenProperties
  <1>4. Head(channel) = channel[1] /\ Len(channel) >= 1
    BY <1>1, <1>2, <1>3
  <1>5. QED  BY <1>1, <1>2, <1>3, <1>4 DEF ChannelOK

(***************************************************************************)
(* The core of the invariant.                                              *)
(***************************************************************************)
Locking == {"merge", "connect", "queue", "detach", "bye"}

\* The lock is held by the task that is in a section of it, of which there is
\* at most one, and it is held to reach the handler in the table.
LockOwners ==
  /\ holder = Scan <=> scan.pc \in {"merge", "gone"}
  /\ \A h \in Hubs : holder = h <=> manager[h].pc \in Locking
  /\ holder # None => device_handles # None

\* Handlers that are spoken of have been spawned.
Known ==
  /\ \A k \in DOMAIN channel :
       /\ channel[k].kind \in {"Connect", "Disconnect"} =>
            channel[k].by \in {Dfu} \cup DOMAIN handler
       /\ channel[k].kind = "Update" => channel[k].by \in DOMAIN handler
  /\ device_list # None => device_list.commands \in {Dfu} \cup DOMAIN handler

\* A handler that is being registered has been spawned by one task, which has
\* entered it in the table or not.
Spawns ==
  /\ scan.spawned # None <=> scan.pc \in {"insert", "connect"}
  /\ \A h \in Hubs : manager[h].spawned # None
                       <=> manager[h].pc \in {"spawned", "connect", "queue"}
  /\ \A i \in Ids : scan.spawned = i =>
       /\ i \in DOMAIN handler
       /\ scan.pc = "insert" => device_handles # i
       /\ \A h \in Hubs : manager[h].spawned # i
  /\ \A i \in Ids, h \in Hubs : manager[h].spawned = i =>
       /\ i \in DOMAIN handler
       /\ device_handles = i <=> manager[h].pc # "spawned"
       /\ \A g \in Hubs \ {h} : manager[g].spawned # i

\* A handler the scan has not announced yet: nothing can make it leave.
ScanFresh(i) ==
  /\ Running(i)
  /\ handler[i].control
  /\ ~handler[i].seen
  /\ \A q \in DOMAIN handler[i].queue : handler[i].queue[q] # "RemoveControlDevice"

\* A handler that waits for the first message of the dongle that spawned it:
\* nobody else has sent to it.
HubFresh(i) ==
  /\ Running(i)
  /\ ~handler[i].control
  /\ handler[i].events = "none"
  /\ handler[i].queue = << >>

Fresh ==
  /\ \A i \in Ids : scan.spawned = i => ScanFresh(i)
  /\ \A i \in Ids, h \in Hubs : manager[h].spawned = i => HubFresh(i)

\* Clients have not heard of handler i, and will not before its Connect.
NotOut(i) ==
  /\ \A k \in DOMAIN channel : channel[k].kind = "Connect" => channel[k].by # i
  /\ device_list # None => device_list.commands # i

NoUpdate(i) ==
  \A k \in DOMAIN channel : channel[k].kind = "Update" => channel[k].by # i

Unconnected ==
  /\ \A i \in Ids : scan.spawned = i => NotOut(i)
  /\ \A h \in Hubs, i \in Ids :
       manager[h].spawned = i /\ manager[h].pc # "queue" => NotOut(i) /\ NoUpdate(i)

\* A pass visits the device where the operating system showed it.
Visited ==
  /\ usb # NoPort => usb.id \in UsbIds
  /\ scan.visit => scan.port.id \in UsbIds

Core == TypeOK /\ Visited /\ LockOwners /\ Known /\ Spawns /\ Fresh
          /\ Unconnected

(***************************************************************************)
(* Types.                                                                  *)
(***************************************************************************)
LEMMA TypeParts ==
  ASSUME TypeOK
  PROVE  HandlersOK /\ ChannelOK
  BY DEF TypeOK, HandlersOK, ChannelOK

LEMMA SurroundingsType == TypeOK /\ Surroundings => TypeOK'
  <1> SUFFICES ASSUME TypeOK, Surroundings PROVE TypeOK'  OBVIOUS
  <1>1. MaxChanges \in Nat /\ DfuCapable \in BOOLEAN  BY RegistryParameters
  <1>2. Change => changes' \in 0 .. MaxChanges
    BY <1>1 DEF Change, TypeOK
  <1>3. Change => UNCHANGED <<scanning, manager, tables, handler, channel, lists>>
    BY DEF Change
  <1> DEFINE Places == usb' \in Port /\ plugged' \subseteq Hubs /\ reach' \subseteq plugged'
  <1>4. ASSUME Change, Places PROVE TypeOK'
    BY <1>2, <1>3, <1>4 DEF TypeOK, scanning, tables, lists
  <1>5. CASE PlugDevice
    <2>1. PICK i \in UsbIds, dfu \in {FALSE, DfuCapable} : usb' = [id |-> i, dfu |-> dfu]
      BY <1>5 DEF PlugDevice
    <2>2. dfu \in BOOLEAN  BY <1>1
    <2>3. usb' \in Port  BY <2>1, <2>2 DEF Port
    <2>4. QED  BY <1>4, <1>5, <2>3 DEF PlugDevice, TypeOK
  <1>6. CASE UnplugDevice
    <2>1. NoPort \in Port  BY DEF NoPort, Port
    <2>2. QED  BY <1>4, <1>6, <2>1 DEF UnplugDevice, TypeOK
  <1>7. CASE SwitchDfu
    <2>1. PICK i \in UsbIds : usb' = [id |-> i, dfu |-> ~usb.dfu]
      BY <1>7 DEF SwitchDfu
    <2>2. usb' \in Port  BY <2>1 DEF Port
    <2>3. QED  BY <1>4, <1>7, <2>2 DEF SwitchDfu, TypeOK
  <1>8. ASSUME NEW h \in Hubs, PlugHub(h) \/ UnplugHub(h) \/ ReachHub(h) PROVE TypeOK'
    BY <1>4, <1>8 DEF PlugHub, UnplugHub, ReachHub, TypeOK
  <1>9. QED  BY <1>5, <1>6, <1>7, <1>8 DEF Surroundings

\* What a task sends is typed.
LEMMA SentByTasks ==
  ASSUME Core
  PROVE  /\ [kind |-> "Connect", by |-> Dfu, control |-> FALSE,
               events |-> "none"] \in Message
         /\ [kind |-> "Disconnect", by |-> Dfu] \in Message
         /\ scan.pc = "connect" =>
              [kind |-> "Connect", by |-> scan.spawned, control |-> TRUE,
               events |-> scan.events] \in Message
         /\ \A h \in Hubs :
              /\ [kind |-> "DongleConnect", by |-> h] \in Message
              /\ [kind |-> "DongleDisconnect", by |-> h] \in Message
              /\ [kind |-> "DongleUpdate", by |-> h, has |-> manager[h].has] \in Message
              /\ manager[h].pc = "connect" =>
                   [kind |-> "Connect", by |-> manager[h].spawned, control |-> FALSE,
                    events |-> "none"] \in Message
  <1>1. /\ scan \in ScanState
        /\ scan.pc = "connect" => scan.spawned # None
    BY DEF Core, TypeOK, Spawns
  <1>2. \A h \in Hubs : /\ manager[h] \in ManagerState
                        /\ manager[h].pc = "connect" => manager[h].spawned # None
    BY DEF Core, TypeOK, Spawns
  <1>3. scan.pc = "connect" =>
          [kind |-> "Connect", by |-> scan.spawned, control |-> TRUE,
           events |-> scan.events] \in Message
    <2>1. scan.events \in Sources /\ (scan.pc = "connect" => scan.spawned \in Ids)
      BY <1>1 DEF ScanState
    <2>2. QED  BY <2>1 DEF Message, DeviceMessage
  <1>4. ASSUME NEW h \in Hubs
        PROVE  /\ [kind |-> "DongleConnect", by |-> h] \in Message
               /\ [kind |-> "DongleDisconnect", by |-> h] \in Message
               /\ [kind |-> "DongleUpdate", by |-> h, has |-> manager[h].has] \in Message
               /\ manager[h].pc = "connect" =>
                    [kind |-> "Connect", by |-> manager[h].spawned, control |-> FALSE,
                     events |-> "none"] \in Message
    <2> DEFINE m == manager[h]
    <2>0. m \in ManagerState /\ (m.pc = "connect" => m.spawned # None)  BY <1>2
    <2> HIDE DEF m
    <2>1. m.has \in BOOLEAN  BY <2>0 DEF ManagerState
    <2>2. m.pc = "connect" => m.spawned \in Ids  BY <2>0 DEF ManagerState
    <2>3. [kind |-> "DongleUpdate", by |-> h, has |-> m.has] \in Message
      BY <2>1 DEF Message
    <2>4. QED  BY <2>2, <2>3 DEF m, Message, DeviceMessage, Sources
  <1>5. /\ [kind |-> "Connect", by |-> Dfu, control |-> FALSE,
             events |-> "none"] \in Message
        /\ [kind |-> "Disconnect", by |-> Dfu] \in Message
    BY DEF Message, DeviceMessage, Sources
  <1>6. QED  BY <1>3, <1>4, <1>5

\* A handler in use can be sent to.
LEMMA HandlersInUse ==
  ASSUME Core
  PROVE  /\ device_handles # None => device_handles \in DOMAIN handler
         /\ holder # None => device_handles \in DOMAIN handler
         /\ scan.spawned # None => scan.spawned \in DOMAIN handler /\ scan.spawned \in Ids
         /\ \A h \in Hubs : manager[h].spawned # None =>
              manager[h].spawned \in DOMAIN handler /\ manager[h].spawned \in Ids
         /\ Evicted \in {None, device_handles}
         /\ None \notin DOMAIN handler /\ None \notin Ids
         /\ Dfu \notin DOMAIN handler /\ Dfu \notin Ids
  <1>1. DOMAIN handler \subseteq Ids  BY TypeParts, HandlerIds DEF Core
  <1>2. Ids \subseteq Nat  BY DEF Ids
  <1>3. None \notin Nat /\ Dfu \notin Nat  BY RegistryParameters
  <1>4. /\ scan.spawned \in Ids \cup {None}
        /\ \A h \in Hubs : manager[h].spawned \in Ids \cup {None}
        /\ device_handles \in {None} \cup DOMAIN handler
    BY DEF Core, TypeOK, ScanState, ManagerState
  <1>5. /\ \A i \in Ids : scan.spawned = i => i \in DOMAIN handler
        /\ \A h \in Hubs, i \in Ids : manager[h].spawned = i => i \in DOMAIN handler
    BY DEF Core, Spawns
  <1>6. QED  BY <1>1, <1>2, <1>3, <1>4, <1>5 DEF Core, LockOwners, Evicted

LEMMA ScanType == Core /\ ScanStep => TypeOK'
  <1> SUFFICES ASSUME Core, ScanStep PROVE TypeOK'  OBVIOUS
  <1>1. /\ TypeOK /\ HandlersOK /\ ChannelOK
        /\ scan \in ScanState /\ manager \in [Hubs -> ManagerState]
    BY TypeParts DEF Core, TypeOK
  <1>2. CASE ScanLists
    <2>1. scan' \in ScanState
      <3>1. usb \in Port /\ plugged \in SUBSET Hubs  BY <1>1 DEF TypeOK
      <3>2. IdleScan \in ScanState
        BY DEF IdleScan, ScanState, NoPort, Port, Sources
      <3>3. scan' = [IdleScan EXCEPT !.pc = "clean", !.port = usb, !.hubs = plugged,
                                     !.visit = (usb # NoPort)]
        BY <1>2 DEF ScanLists
      <3> HIDE DEF IdleScan
      <3>4. QED  BY <3>1, <3>2, <3>3 DEF ScanState
    <2>2. manager' \in [Hubs -> ManagerState]
      BY <1>1, <1>2 DEF ScanLists, AbortManagers, ManagerState, NoManager
    <2>3. holder' \in Hubs \cup {Scan, None}
      BY <1>1, <1>2 DEF ScanLists, AbortManagers, TypeOK
    <2>4. QED
      BY <1>1, <1>2, <2>1, <2>2, <2>3 DEF ScanLists, surroundings, lists, TypeOK
  <1>3. CASE ScanCleans
    <2>1. scan' \in ScanState  BY <1>1, <1>3 DEF ScanCleans, ScanState
    <2>2. QED
      BY <1>1, <1>3, <2>1, HandlersInUse DEF ScanCleans, surroundings, lists, TypeOK
  <1>4. ASSUME NEW h \in Hubs, ScanVisitsHub(h) PROVE TypeOK'
    <2>1. scan' \in ScanState  BY <1>1, <1>4 DEF ScanVisitsHub, ScanState
    <2>2. manager' \in [Hubs -> ManagerState]
      <3>1. \A pc \in {"start", "none"} : [NoManager EXCEPT !.pc = pc] \in ManagerState
        BY DEF NoManager, ManagerState
      <3>2. \/ manager' = manager
            \/ \E pc \in {"start", "none"} :
                 manager' = [manager EXCEPT ![h] = [NoManager EXCEPT !.pc = pc]]
        BY <1>4 DEF ScanVisitsHub
      <3>3. QED  BY <1>1, <3>1, <3>2
    <2>3. QED
      BY <1>1, <1>4, <2>1, <2>2 DEF ScanVisitsHub, surroundings, tables, lists, TypeOK
  <1>5. CASE ScanProbes
    <2>1. scan.port.id \in UsbIds  BY <1>5 DEF ScanProbes, Core, Visited
    <2>2. scan' \in ScanState
      <3>1. PICK events \in {"none", "wired"} :
              scan' = [scan EXCEPT !.pc = "check", !.visit = FALSE, !.events = events]
        BY <1>5 DEF ScanProbes
      <3>2. QED  BY <1>1, <3>1 DEF ScanState, Sources
    <2>3. QED
      BY <1>1, <1>5, <2>1, <2>2 DEF ScanProbes, surroundings, tables, lists, TypeOK
  <1>6. CASE ScanProbeFails
    <2>1. scan' = [scan EXCEPT !.visit = FALSE]  BY <1>6 DEF ScanProbeFails
    <2>2. scan' \in ScanState  BY <1>1, <2>1 DEF ScanState
    <2>3. QED
      BY <1>1, <1>6, <2>2 DEF ScanProbeFails, surroundings, tables, lists, TypeOK
  <1>7. CASE ScanSurfacesDfu
    <2>1. scan' = [scan EXCEPT !.visit = FALSE, !.present_dfu = TRUE]
      BY <1>7 DEF ScanSurfacesDfu
    <2>2. scan' \in ScanState  BY <1>1, <2>1 DEF ScanState
    <2>3. scan.port.id \in UsbIds  BY <1>7 DEF ScanSurfacesDfu, Core, Visited
    <2>4. ChannelOK' /\ dfu_ids' \subseteq UsbIds
      BY <1>1, <1>7, <2>3, SentByTasks, PostAppends
      DEF ScanSurfacesDfu, ChannelOK, TypeOK
    <2>5. QED
      BY <1>1, <1>7, <2>2, <2>4
      DEF ScanSurfacesDfu, surroundings, tables, lists, TypeOK, ChannelOK
  <1>8. CASE ScanChecks
    <2>1. HandlersOK' /\ DOMAIN handler \subseteq DOMAIN handler'
      <3>1. scan.events \in Sources  BY <1>1 DEF ScanState
      <3>2. Spawn(TRUE, scan.events) \/ UNCHANGED handler  BY <1>8 DEF ScanChecks
      <3>3. QED  BY <1>1, <3>1, <3>2, SpawnAppends DEF HandlersOK
    <2>2. scan' \in ScanState
      <3>1. CASE scan' = [scan EXCEPT !.pc = "walk"] \/ scan' = [scan EXCEPT !.pc = "merge"]
        BY <1>1, <3>1 DEF ScanState
      <3>2. CASE /\ scan' = [scan EXCEPT !.pc = "insert", !.spawned = Len(handler) + 1]
                 /\ Spawn(TRUE, scan.events)
        <4>1. scan.events \in Sources  BY <1>1 DEF ScanState
        <4>2. Len(handler) + 1 \in Ids  BY <1>1, <3>2, <4>1, SpawnAppends
        <4>3. QED  BY <1>1, <3>2, <4>2 DEF ScanState
      <3>3. QED  BY <1>8, <3>1, <3>2 DEF ScanChecks
    <2>3. /\ device_handles' \in {None} \cup DOMAIN handler'
          /\ holder' \in Hubs \cup {Scan, None}
      BY <1>1, <1>8, <2>1, HandlersInUse DEF ScanChecks, TypeOK
    <2>4. direct' \in BOOLEAN  BY <1>8 DEF ScanChecks
    <2>5. QED
      BY <1>1, <1>8, <2>1, <2>2, <2>3, <2>4
      DEF ScanChecks, surroundings, lists, TypeOK, HandlersOK
  <1>9. ASSUME NEW kind \in LinkKinds, NEW pc \in {"walk", "dfu"},
               scan.pc \in {"merge", "gone"}, SendTo(device_handles, kind),
               scan' = [scan EXCEPT !.pc = pc], holder' = None,
               UNCHANGED <<surroundings, usb_ids, dfu_ids, manager, device_handles,
                           direct, channel, lists>>
        PROVE  TypeOK'
    <2>1. Scan # None  BY RegistryParameters
    <2>2. device_handles \in DOMAIN handler
      BY <1>9, <2>1, HandlersInUse DEF Core, LockOwners
    <2>3. HandlersOK' /\ DOMAIN handler' = DOMAIN handler
      BY <1>1, <1>9, <2>2, SendChanges
    <2>4. scan' \in ScanState  BY <1>1, <1>9 DEF ScanState
    <2>5. QED
      BY <1>1, <1>9, <2>3, <2>4 DEF surroundings, lists, TypeOK, HandlersOK
  <1>10. CASE ScanMerges
    BY <1>9, <1>10 DEF ScanMerges, At, LinkKinds
  <1>11. CASE ScanTellsGone
    BY <1>9, <1>11 DEF ScanTellsGone, At, LinkKinds
  <1>12. CASE ScanInserts
    <2>1. scan' \in ScanState  BY <1>1, <1>12 DEF ScanInserts, ScanState
    <2>2. scan.spawned \in DOMAIN handler
      <3>1. scan.pc = "insert"  BY <1>12 DEF ScanInserts, At
      <3>2. QED  BY <3>1, HandlersInUse DEF Core, Spawns
    <2>3. QED
      BY <1>1, <1>12, <2>1, <2>2 DEF ScanInserts, surroundings, lists, TypeOK
  <1>13. CASE ScanConnects
    <2>1. scan' \in ScanState  BY <1>1, <1>13 DEF ScanConnects, ScanState
    <2>2. ChannelOK'
      BY <1>1, <1>13, SentByTasks, PostAppends DEF ScanConnects, At
    <2>3. QED
      BY <1>1, <1>13, <2>1, <2>2
      DEF ScanConnects, surroundings, tables, lists, TypeOK, ChannelOK
  <1>14. CASE ScanReconciles
    <2>1. scan' \in ScanState  BY <1>1, <1>14 DEF ScanReconciles, ScanState
    <2>2. holder' \in Hubs \cup {Scan, None} /\ usb_ids' \subseteq UsbIds
      BY <1>1, <1>14 DEF ScanReconciles, TypeOK
    <2>3. QED
      BY <1>1, <1>14, <2>1, <2>2 DEF ScanReconciles, surroundings, lists, TypeOK
  <1>15. CASE ScanReconcilesDfu
    <2>1. scan' \in ScanState
      BY <1>15 DEF ScanReconcilesDfu, IdleScan, ScanState, NoPort, Port, Sources
    <2>2. ChannelOK' /\ dfu_ids' \subseteq UsbIds
      BY <1>1, <1>15, SentByTasks, PostAppends DEF ScanReconcilesDfu, TypeOK, ChannelOK
    <2>3. QED
      BY <1>1, <1>15, <2>1, <2>2
      DEF ScanReconcilesDfu, surroundings, tables, lists, TypeOK, ChannelOK
  <1>16. QED
    BY <1>2, <1>3, <1>4, <1>5, <1>6, <1>7, <1>8, <1>10, <1>11, <1>12, <1>13, <1>14,
       <1>15 DEF ScanStep

LEMMA HubType ==
  ASSUME Core, NEW h \in Hubs, HubStep(h)
  PROVE  TypeOK'
  <1>1. /\ TypeOK /\ HandlersOK /\ ChannelOK
        /\ manager \in [Hubs -> ManagerState] /\ manager[h] \in ManagerState
    BY TypeParts DEF Core, TypeOK
  <1> DEFINE PCs == {"none", "start", "idle", "found", "merge", "spawned", "connect",
                     "queue", "detach", "update", "cleanup", "bye", "finished"}
  <1>2. /\ \A pc \in PCs : [manager[h] EXCEPT !.pc = pc] \in ManagerState
        /\ \A pc \in PCs, has \in BOOLEAN :
             [manager[h] EXCEPT !.pc = pc, !.has = has] \in ManagerState
        /\ \A pc \in PCs, i \in Ids \cup {None} :
             [manager[h] EXCEPT !.pc = pc, !.spawned = i] \in ManagerState
    BY <1>1 DEF ManagerState
  <1>3. \A pc \in PCs : Goto(h, pc) => manager' \in [Hubs -> ManagerState]
    BY <1>1, <1>2 DEF Goto
  <1> HIDE DEF PCs
  <1> DEFINE Others == UNCHANGED <<surroundings, scanning, direct, lists>>
  <1>4. ASSUME Others, manager' \in [Hubs -> ManagerState], HandlersOK', ChannelOK',
               device_handles' \in {None} \cup DOMAIN handler',
               holder' \in Hubs \cup {Scan, None}
        PROVE  TypeOK'
    BY <1>1, <1>4 DEF surroundings, scanning, lists, TypeOK, HandlersOK, ChannelOK
  <1> HIDE DEF Others
  <1>5. /\ device_handles \in {None} \cup DOMAIN handler
        /\ holder \in Hubs \cup {Scan, None}
    BY <1>1 DEF TypeOK
  \* What sends to the channel and keeps the lock.
  <1>6. ASSUME NEW m \in Message, NEW pc \in PCs, Post(m), Goto(h, pc),
               UNCHANGED <<surroundings, scanning, tables, handler, lists>>
        PROVE  TypeOK'
    <2>1. Others  BY <1>6 DEF Others, tables
    <2>2. ChannelOK'  BY <1>1, <1>6, PostAppends
    <2>3. UNCHANGED <<device_handles, holder, handler>>  BY <1>6 DEF tables
    <2>4. HandlersOK'  BY <1>1, <2>3 DEF HandlersOK
    <2>5. QED  BY <1>3, <1>4, <1>5, <1>6, <2>1, <2>2, <2>3, <2>4
  \* What sends to the handler and releases the lock.
  <1>7. ASSUME NEW i \in DOMAIN handler, NEW kind \in LinkKinds, SendTo(i, kind),
               manager' \in [Hubs -> ManagerState], holder' = None,
               UNCHANGED <<surroundings, scanning, device_handles, direct, channel, lists>>
        PROVE  TypeOK'
    <2>1. Others  BY <1>7 DEF Others
    <2>2. HandlersOK' /\ DOMAIN handler' = DOMAIN handler  BY <1>1, <1>7, SendChanges
    <2>3. ChannelOK'  BY <1>1, <1>7 DEF ChannelOK
    <2>4. QED  BY <1>4, <1>5, <1>7, <2>1, <2>2, <2>3
  \* What leaves handlers and channel as they are.
  <1>8. ASSUME manager' \in [Hubs -> ManagerState], holder' \in Hubs \cup {Scan, None},
               device_handles' \in {None} \cup DOMAIN handler,
               UNCHANGED <<surroundings, scanning, direct, handler, channel, lists>>
        PROVE  TypeOK'
    <2>1. Others  BY <1>8 DEF Others
    <2>2. HandlersOK' /\ ChannelOK'  BY <1>1, <1>8 DEF HandlersOK, ChannelOK
    <2>3. QED  BY <1>4, <1>8, <2>1, <2>2
  <1>9. CASE HubStarts(h)  BY <1>6, <1>9, SentByTasks DEF HubStarts, PCs
  <1>10. CASE HubFindsDevice(h)
    <2>1. manager' \in [Hubs -> ManagerState]  BY <1>3, <1>10 DEF HubFindsDevice, PCs
    <2>2. QED  BY <1>5, <1>8, <1>10, <2>1 DEF HubFindsDevice, tables
  <1>11. CASE HubChecks(h)
    <2>1. Others /\ device_handles' \in {None, device_handles} /\ UNCHANGED channel
      BY <1>11, HandlersInUse DEF HubChecks, Others
    <2>2. ChannelOK'  BY <1>1, <2>1 DEF ChannelOK
    <2>3. CASE Evicted # None
      <3>1. manager' \in [Hubs -> ManagerState] /\ holder' = h /\ UNCHANGED handler
        BY <1>3, <1>11, <2>3 DEF HubChecks, PCs
      <3>2. HandlersOK'  BY <1>1, <3>1 DEF HandlersOK
      <3>3. QED  BY <1>4, <1>5, <2>1, <2>2, <3>1, <3>2
    <2>4. CASE Evicted = None
      <3>1. Spawn(FALSE, "none") /\ UNCHANGED holder  BY <1>11, <2>4 DEF HubChecks
      <3>2. /\ HandlersOK' /\ DOMAIN handler \subseteq DOMAIN handler'
            /\ Len(handler) + 1 \in Ids
        BY <1>1, <3>1, SpawnAppends DEF Sources
      <3>3. manager' = [manager EXCEPT
              ![h] = [@ EXCEPT !.pc = "spawned", !.spawned = Len(handler) + 1]]
        BY <1>1, <1>11, <2>4 DEF HubChecks
      <3>4. manager' \in [Hubs -> ManagerState]
        BY <1>1, <1>2, <3>2, <3>3 DEF PCs
      <3>5. QED  BY <1>4, <1>5, <2>1, <2>2, <3>1, <3>2, <3>4
    <2>5. QED  BY <2>3, <2>4
  <1>12. h # None  BY RegistryParameters
  <1>13. manager[h].pc \in Locking => device_handles \in DOMAIN handler
    BY <1>12, HandlersInUse DEF Core, LockOwners
  <1>14. CASE HubMerges(h)
    <2>1. manager' = [manager EXCEPT ![h] = [@ EXCEPT !.pc = "update", !.has = TRUE]]
      BY <1>1, <1>14 DEF HubMerges
    <2>2. manager' \in [Hubs -> ManagerState]  BY <1>1, <1>2, <2>1 DEF PCs
    <2>3. QED
      BY <1>7, <1>13, <1>14, <2>2 DEF HubMerges, Managing, Locking, LinkKinds
  <1>15. CASE HubInserts(h)
    <2>1. manager' = [manager EXCEPT ![h] = [@ EXCEPT !.has = TRUE, !.pc = "connect"]]
      BY <1>1, <1>15 DEF HubInserts
    <2>2. [manager[h] EXCEPT !.has = TRUE, !.pc = "connect"] \in ManagerState
      BY <1>1 DEF ManagerState
    <2>3. manager' \in [Hubs -> ManagerState]  BY <1>1, <2>1, <2>2
    <2>4. manager[h].spawned \in DOMAIN handler
      BY <1>15, HandlersInUse DEF HubInserts, Managing, Core, Spawns
    <2>5. QED  BY <1>8, <1>15, <2>3, <2>4 DEF HubInserts
  <1>16. CASE HubConnects(h)
    BY <1>6, <1>16, SentByTasks DEF HubConnects, Managing, PCs
  <1>17. CASE HubQueues(h)
    <2>1. manager' = [manager EXCEPT ![h] = [@ EXCEPT !.pc = "update", !.spawned = None]]
      BY <1>1, <1>17 DEF HubQueues
    <2>2. manager' \in [Hubs -> ManagerState]  BY <1>1, <1>2, <2>1 DEF PCs
    <2>3. manager[h].spawned \in DOMAIN handler
      BY <1>17, HandlersInUse DEF HubQueues, Managing, Core, Spawns
    <2>4. QED  BY <1>7, <1>17, <2>2, <2>3 DEF HubQueues, LinkKinds
  <1>18. ASSUME NEW telling \in {"detach", "bye"}, NEW pc \in {"update", "finished"},
                Drop(h, telling, pc),
                UNCHANGED <<surroundings, scanning, device_handles, direct, handler,
                            channel, lists>>
         PROVE  TypeOK'
    <2>1. \E at \in {telling, pc} :
            manager' = [manager EXCEPT ![h] = [@ EXCEPT !.has = FALSE, !.pc = at]]
      BY <1>1, <1>18 DEF Drop
    <2>2. \A at \in PCs : [manager[h] EXCEPT !.has = FALSE, !.pc = at] \in ManagerState
      BY <1>1 DEF ManagerState, PCs
    <2>3. {telling, pc} \subseteq PCs  BY DEF PCs
    <2>4. manager' \in [Hubs -> ManagerState]  BY <1>1, <2>1, <2>2, <2>3
    <2>5. holder' \in Hubs \cup {Scan, None}  BY <1>5, <1>18 DEF Drop
    <2>6. QED  BY <1>5, <1>8, <1>18, <2>4, <2>5
  <1>19. ASSUME NEW telling \in {"detach", "bye"}, NEW pc \in {"update", "finished"},
                Tell(h, telling, pc)
         PROVE  TypeOK'
    <2>1. manager' \in [Hubs -> ManagerState]  BY <1>3, <1>19 DEF Tell, PCs
    <2>2. QED
      BY <1>7, <1>13, <1>19, <2>1 DEF Tell, Managing, Locking, LinkKinds
  <1>20. CASE HubLosesDevice(h)  BY <1>18, <1>20 DEF HubLosesDevice
  <1>21. CASE HubDetaches(h)  BY <1>19, <1>21 DEF HubDetaches
  <1>22. CASE HubUpdates(h)  BY <1>6, <1>22, SentByTasks DEF HubUpdates, PCs
  <1>23. CASE HubFails(h)  BY <1>6, <1>23, SentByTasks DEF HubFails, PCs
  <1>24. CASE HubCleansUp(h)
    <2>1. CASE manager[h].has  BY <1>18, <1>24, <2>1 DEF HubCleansUp
    <2>2. CASE ~manager[h].has
      <3>1. manager' \in [Hubs -> ManagerState]
        BY <1>3, <1>24, <2>2 DEF HubCleansUp, PCs
      <3>2. QED  BY <1>5, <1>8, <1>24, <2>2, <3>1 DEF HubCleansUp
    <2>3. QED  BY <2>1, <2>2
  <1>25. CASE HubSaysBye(h)  BY <1>19, <1>25 DEF HubSaysBye
  <1>26. QED
    BY <1>9, <1>10, <1>11, <1>14, <1>15, <1>16, <1>17, <1>20, <1>21, <1>22, <1>23,
       <1>24, <1>25 DEF HubStep

\* A connection change leaves connections, and a handler that has control
\* keeps it unless it is taken away.
LEMMA OutcomesKeep ==
  ASSUME NEW c \in Connections, c.phase = "running", NEW kind \in LinkKinds,
         NEW d \in Outcomes(c, kind)
  PROVE  /\ d \in Connections
         /\ d.phase \in {"running", "ending"}
         /\ c.control /\ kind # "RemoveControlDevice" => d.control /\ d.phase = "running"
  <1>1. CASE kind = "AddEventsDevice"
    <2>1. d \in {[c EXCEPT !.events = "ble"], c}  BY <1>1 DEF Outcomes
    <2>2. QED  BY <2>1 DEF Connections, Sources
  <1>2. CASE kind = "AddControlDevice"
    <2>1. d = [c EXCEPT !.control = TRUE]  BY <1>2 DEF Outcomes
    <2>2. QED  BY <2>1 DEF Connections
  <1>3. CASE kind = "RemoveControlDevice"
    <2>1. \/ d = [c EXCEPT !.control = FALSE, !.events = "none", !.phase = "ending"]
          \/ d = [c EXCEPT !.control = FALSE, !.direct = FALSE]
      BY <1>3 DEF Outcomes
    <2>2. QED  BY <1>3, <2>1 DEF Connections, Sources
  <1>4. CASE kind = "RemoveEventsDevice"
    <2>1. d = [c EXCEPT !.events = "none", !.phase = IF c.control THEN @ ELSE "ending"]
      BY <1>4 DEF Outcomes
    <2>2. c.control \in BOOLEAN  BY DEF Connections
    <2>3. CASE c.control
      <3>1. d = [c EXCEPT !.events = "none", !.phase = "running"]  BY <2>1, <2>3
      <3>2. QED  BY <2>3, <3>1 DEF Connections, Sources
    <2>4. CASE ~c.control
      <3>1. d = [c EXCEPT !.events = "none", !.phase = "ending"]  BY <2>1, <2>4
      <3>2. QED  BY <2>4, <3>1 DEF Connections, Sources
    <2>5. QED  BY <2>3, <2>4
  <1>5. QED  BY <1>1, <1>2, <1>3, <1>4 DEF LinkKinds

\* A handler takes the first message of its queue; it goes on or leaves, and
\* what it publishes, if anything, is what it has.
LEMMA TakeChanges ==
  ASSUME TypeOK, NEW i \in DOMAIN handler, HandlerTakes(i)
  PROVE  /\ HandlersOK' /\ ChannelOK' /\ direct' \in BOOLEAN
         /\ Len(handler') = Len(handler)
         /\ DOMAIN handler' = DOMAIN handler
         /\ \A j \in DOMAIN handler : j # i => handler'[j] = handler[j]
         /\ Running(i) /\ handler[i].queue # << >>
         /\ handler'[i].phase \in {"running", "ending"}
         /\ handler'[i].seen = handler[i].seen
         /\ handler'[i].queue = Tail(handler[i].queue)
         /\ handler[i].control /\ Head(handler[i].queue) # "RemoveControlDevice" =>
              handler'[i].control /\ handler'[i].phase = "running"
         /\ LET m == [kind |-> "Update", by |-> i, control |-> handler'[i].control,
                      events |-> handler'[i].events]
            IN  \/ Post(m) /\ m \in Message
                \/ /\ UNCHANGED channel
                   /\ handler'[i].phase = "running" =>
                        /\ handler'[i].control = handler[i].control
                        /\ handler'[i].events = handler[i].events
  <1> DEFINE kind == Head(handler[i].queue)
             c == Conn(i)
             q == Tail(handler[i].queue)
  <1>1. HandlersOK /\ ChannelOK /\ direct \in BOOLEAN  BY TypeParts DEF TypeOK
  <1>2. handler[i] \in HandlerState /\ i \in Ids  BY <1>1, HandlerIds
  <1>3. Running(i) /\ handler[i].phase = "running" /\ handler[i].queue # << >>
    BY DEF HandlerTakes, Running
  <1>4. handler[i].queue \in Seq(LinkKinds)  BY <1>2 DEF HandlerState
  <1>5. kind \in LinkKinds /\ q \in Seq(LinkKinds) /\ Len(q) = Len(handler[i].queue) - 1
    BY <1>3, <1>4, HeadTailProperties
  <1>6. c \in Connections /\ c.phase = "running"
    BY <1>1, <1>2, <1>3 DEF Conn, Connections, HandlerState
  <1>7. PICK d \in Outcomes(c, kind) :
          /\ handler' = [handler EXCEPT
               ![i] = [handler[i] EXCEPT !.phase = d.phase,
                         !.queue = Tail(handler[i].queue),
                         !.control = d.control, !.events = d.events]]
          /\ direct' = d.direct
          /\ \/ /\ d.phase = "running"
                /\ Post([kind |-> "Update", by |-> i, control |-> d.control,
                         events |-> d.events])
             \/ /\ \/ d.phase = "ending"
                   \/ kind = "AddEventsDevice" /\ d = c
                /\ UNCHANGED channel
    BY DEF HandlerTakes
  <1>8. /\ d \in Connections /\ d.phase \in {"running", "ending"}
        /\ c.control /\ kind # "RemoveControlDevice" => d.control /\ d.phase = "running"
    BY <1>5, <1>6, OutcomesKeep
  <1>9. c.control = handler[i].control /\ c.events = handler[i].events  BY DEF Conn
  <1> DEFINE r == [handler[i] EXCEPT !.phase = d.phase, !.queue = q,
                                     !.control = d.control, !.events = d.events]
             m == [kind |-> "Update", by |-> i, control |-> d.control,
                   events |-> d.events]
  <1>10. d.control \in BOOLEAN /\ d.events \in Sources /\ d.direct \in BOOLEAN
    BY <1>8 DEF Connections
  <1> HIDE DEF q, kind, c
  <1>11. /\ r \in HandlerState /\ r.phase = d.phase /\ r.queue = q
         /\ r.control = d.control /\ r.events = d.events /\ r.seen = handler[i].seen
    BY <1>2, <1>5, <1>8, <1>10 DEF HandlerState
  <1>12. handler' = [handler EXCEPT ![i] = r]  BY <1>7 DEF q
  <1>13. Len(q) <= QueueCap
    <2>1. Len(handler[i].queue) <= QueueCap  BY <1>1 DEF HandlersOK
    <2>2. Len(handler[i].queue) \in Nat /\ Len(q) \in Nat /\ QueueCap \in Nat
      BY <1>4, <1>5, LenProperties, RegistryParameters
    <2>3. QED  BY <1>5, <2>1, <2>2
  <1> HIDE DEF r
  <1>14. /\ HandlersOK' /\ Len(handler') = Len(handler)
         /\ DOMAIN handler' = DOMAIN handler /\ handler'[i] = r
         /\ \A j \in DOMAIN handler : j # i => handler'[j] = handler[j]
    BY <1>1, <1>11, <1>12, <1>13, OneHandler
  <1>15. m \in Message  BY <1>2, <1>10 DEF Message, DeviceMessage
  <1>16. ChannelOK'
    <2>1. Post(m) \/ UNCHANGED channel  BY <1>7
    <2> HIDE DEF m
    <2>2. QED  BY <1>1, <1>15, <2>1, PostAppends DEF ChannelOK
  <1>17. m = [kind |-> "Update", by |-> i, control |-> handler'[i].control,
              events |-> handler'[i].events]
    BY <1>11, <1>14
  <1>18. \/ Post(m)
         \/ UNCHANGED channel /\ (d.phase = "ending" \/ d = c)
    BY <1>7
  <1>19. (d.phase = "ending" \/ d = c) /\ handler'[i].phase = "running" =>
           handler'[i].control = handler[i].control /\ handler'[i].events = handler[i].events
    BY <1>9, <1>11, <1>14
  <1>20. /\ handler'[i].phase \in {"running", "ending"}
         /\ handler'[i].seen = handler[i].seen /\ handler'[i].queue = q
         /\ handler[i].control /\ kind # "RemoveControlDevice" =>
              handler'[i].control /\ handler'[i].phase = "running"
    BY <1>8, <1>9, <1>11, <1>14
  <1>21. direct' \in BOOLEAN  BY <1>7, <1>10
  <1> HIDE DEF m
  <1>22. QED
    BY <1>1, <1>3, <1>14, <1>15, <1>16, <1>17, <1>18, <1>19, <1>20, <1>21 DEF q, kind

LEMMA LeaveChanges ==
  ASSUME TypeOK, NEW i \in DOMAIN handler, HandlerLeaves(i)
  PROVE  /\ HandlersOK'
         /\ Len(handler') = Len(handler)
         /\ DOMAIN handler' = DOMAIN handler
         /\ \A j \in DOMAIN handler : j # i => handler'[j] = handler[j]
         /\ Running(i)
         /\ handler'[i] = [handler[i] EXCEPT !.phase = "ending"]
  <1> DEFINE r == [handler[i] EXCEPT !.phase = "ending"]
  <1>1. HandlersOK /\ handler[i] \in HandlerState  BY TypeParts, HandlerIds
  <1>2. r \in HandlerState /\ r.queue = handler[i].queue  BY <1>1 DEF HandlerState
  <1>3. Len(handler[i].queue) <= QueueCap  BY <1>1 DEF HandlersOK
  <1>4. handler' = [handler EXCEPT ![i] = r]  BY DEF HandlerLeaves
  <1> HIDE DEF r
  <1>5. /\ HandlersOK' /\ Len(handler') = Len(handler)
        /\ DOMAIN handler' = DOMAIN handler /\ handler'[i] = r
        /\ \A j \in DOMAIN handler : j # i => handler'[j] = handler[j]
    BY <1>1, <1>2, <1>3, <1>4, OneHandler
  <1>6. QED  BY <1>5 DEF r, HandlerLeaves

\* The goodbye is the last message in the channel.
LEMMA FinishChanges ==
  ASSUME TypeOK, NEW i \in Ids, HandlerFinishes(i)
  PROVE  LET n == Len(channel) + 1
         IN  /\ i \in DOMAIN handler
             /\ handler[i].phase = "ending"
             /\ HandlersOK'
             /\ Len(handler') = Len(handler)
             /\ DOMAIN handler' = DOMAIN handler
             /\ \A j \in DOMAIN handler : j # i => handler'[j] = handler[j]
             /\ handler'[i] = [handler[i] EXCEPT !.phase = "finished", !.queue = << >>]
             /\ ChannelOK'
             /\ Len(channel') = n
             /\ DOMAIN channel' = DOMAIN channel \cup {n}
             /\ \A k \in DOMAIN channel : k < n /\ channel'[k] = channel[k]
             /\ channel'[n] = [kind |-> "Disconnect", by |-> i]
  <1> DEFINE r == [handler[i] EXCEPT !.phase = "finished", !.queue = << >>]
  <1>1. /\ i \in DOMAIN handler /\ handler[i].phase = "ending"
        /\ Post([kind |-> "Disconnect", by |-> i])
    BY DEF HandlerFinishes, SayGoodbye
  <1>2. HandlersOK /\ ChannelOK /\ handler[i] \in HandlerState
    BY <1>1, TypeParts, HandlerIds
  <1>3. << >> \in Seq(LinkKinds) /\ Len(<< >>) = 0  BY EmptySeq
  <1>4. r \in HandlerState /\ r.queue = << >>  BY <1>2, <1>3 DEF HandlerState
  <1>5. Len(r.queue) <= QueueCap  BY <1>3, <1>4, RegistryParameters
  <1>6. handler' = [handler EXCEPT ![i] = r]
    <2>1. handler' = [handler EXCEPT ![i].phase = "finished", ![i].queue = << >>]
      BY DEF HandlerFinishes
    <2>2. handler \in [1 .. Len(handler) -> HandlerState] /\ i \in 1 .. Len(handler)
      BY <1>1, <1>2, LenProperties DEF HandlersOK
    <2>3. QED  BY <2>1, <2>2 DEF HandlerState
  <1> HIDE DEF r
  <1>7. /\ HandlersOK' /\ Len(handler') = Len(handler)
        /\ DOMAIN handler' = DOMAIN handler /\ handler'[i] = r
        /\ \A j \in DOMAIN handler : j # i => handler'[j] = handler[j]
    BY <1>1, <1>2, <1>4, <1>5, <1>6, OneHandler
  <1>8. [kind |-> "Disconnect", by |-> i] \in Message  BY DEF Message
  <1>9. QED  BY <1>1, <1>2, <1>7, <1>8, PostAppends DEF r

LEMMA HandlerType ==
  ASSUME Core, NEW i \in Ids, HandlerTakes(i) \/ HandlerLeaves(i) \/ HandlerFinishes(i)
  PROVE  TypeOK'
  <1>1. TypeOK /\ HandlersOK /\ ChannelOK  BY TypeParts DEF Core
  <1>2. CASE HandlerTakes(i)
    <2>1. i \in DOMAIN handler  BY <1>2 DEF HandlerTakes, Running
    <2>2. /\ HandlersOK' /\ ChannelOK' /\ direct' \in BOOLEAN
          /\ DOMAIN handler' = DOMAIN handler
      BY <1>1, <1>2, <2>1, TakeChanges
    <2>3. UNCHANGED <<surroundings, scanning, manager, device_handles, holder, lists>>
      BY <1>2 DEF HandlerTakes
    <2>4. QED
      BY <1>1, <2>2, <2>3
      DEF surroundings, scanning, lists, TypeOK, HandlersOK, ChannelOK
  <1>3. CASE HandlerLeaves(i)
    <2>1. i \in DOMAIN handler  BY <1>3 DEF HandlerLeaves, Running
    <2>2. HandlersOK' /\ DOMAIN handler' = DOMAIN handler
      BY <1>1, <1>3, <2>1, LeaveChanges
    <2>3. UNCHANGED <<surroundings, scanning, manager, tables, channel, lists>>
      BY <1>3 DEF HandlerLeaves
    <2>4. QED
      BY <1>1, <2>2, <2>3
      DEF surroundings, scanning, tables, lists, TypeOK, HandlersOK
  <1>4. CASE HandlerFinishes(i)
    <2>1. HandlersOK' /\ ChannelOK' /\ DOMAIN handler' = DOMAIN handler
      BY <1>1, <1>4, FinishChanges
    <2>2. UNCHANGED <<surroundings, scanning, manager, tables, lists>>
      BY <1>4 DEF HandlerFinishes
    <2>3. QED
      BY <1>1, <2>1, <2>2
      DEF surroundings, scanning, tables, lists, TypeOK, HandlersOK, ChannelOK
  <1>5. QED  BY <1>2, <1>3, <1>4

\* Only the mark that it has been listed changes in a handler.
LEMMA ForwardChanges ==
  ASSUME Core, Forward
  PROVE  /\ HandlersOK'
         /\ Len(handler') = Len(handler)
         /\ DOMAIN handler' = DOMAIN handler
         /\ \A j \in DOMAIN handler :
              /\ handler'[j].phase = handler[j].phase
              /\ handler'[j].queue = handler[j].queue
              /\ handler'[j].control = handler[j].control
              /\ handler'[j].events = handler[j].events
              /\ ~(channel[1].kind = "Connect" /\ channel[1].by = j) =>
                   handler'[j].seen = handler[j].seen
  <1>1. HandlersOK /\ ChannelOK /\ channel # << >> /\ channel' = Tail(channel)
    BY TypeParts DEF Core, Forward
  <1>2. Head(channel) = channel[1] /\ 1 \in DOMAIN channel  BY <1>1, ForwardShifts
  <1> DEFINE m == channel[1]
  <1>3. handler' = IF m.kind = "Connect" /\ m.by # Dfu
                     THEN [handler EXCEPT ![m.by].seen = TRUE] ELSE handler
    BY <1>2 DEF Forward
  <1>4. CASE m.kind = "Connect" /\ m.by # Dfu
    <2> DEFINE i == m.by
               r == [handler[i] EXCEPT !.seen = TRUE]
    <2>1. i \in DOMAIN handler  BY <1>2, <1>4 DEF Core, Known
    <2>2. handler[i] \in HandlerState  BY <1>1, <2>1, HandlerIds
    <2>3. /\ r \in HandlerState /\ r.phase = handler[i].phase
          /\ r.queue = handler[i].queue /\ r.control = handler[i].control
          /\ r.events = handler[i].events
      BY <2>2 DEF HandlerState
    <2>4. Len(handler[i].queue) <= QueueCap  BY <1>1, <2>1 DEF HandlersOK
    <2>5. handler' = [handler EXCEPT ![i] = r]  BY <1>3, <1>4
    <2> HIDE DEF r, i
    <2>6. /\ HandlersOK' /\ Len(handler') = Len(handler)
          /\ DOMAIN handler' = DOMAIN handler /\ handler'[i] = r
          /\ \A j \in DOMAIN handler : j # i => handler'[j] = handler[j]
      BY <1>1, <2>1, <2>3, <2>4, <2>5, OneHandler
    <2>7. ASSUME NEW j \in DOMAIN handler
          PROVE  /\ handler'[j].phase = handler[j].phase
                 /\ handler'[j].queue = handler[j].queue
                 /\ handler'[j].control = handler[j].control
                 /\ handler'[j].events = handler[j].events
                 /\ j # i => handler'[j].seen = handler[j].seen
      BY <2>3, <2>6
    <2>8. QED  BY <1>4, <2>6, <2>7 DEF i
  <1>5. CASE ~(m.kind = "Connect" /\ m.by # Dfu)
    <2>1. handler' = handler  BY <1>3, <1>5
    <2>2. QED  BY <1>1, <2>1 DEF HandlersOK
  <1>6. QED  BY <1>4, <1>5

LEMMA ForwardType == Core /\ Forward => TypeOK'
  <1> SUFFICES ASSUME Core, Forward PROVE TypeOK'  OBVIOUS
  <1> DEFINE m == channel[1]
  <1>1. TypeOK /\ ChannelOK /\ channel # << >> /\ channel' = Tail(channel)
    BY TypeParts DEF Core, Forward
  <1>2. /\ ChannelOK' /\ 1 \in DOMAIN channel /\ Head(channel) = m /\ m \in Message
    BY <1>1, ForwardShifts, ChannelIndices
  <1>3. HandlersOK' /\ DOMAIN handler' = DOMAIN handler  BY ForwardChanges
  <1>4. device_list \in Entry \cup {None}  BY <1>1 DEF TypeOK
  <1>5. device_list' \in Entry \cup {None}
    <2>1. CASE m.kind = "Connect"
      <3>1. m \in DeviceMessage  BY <1>2, <2>1 DEF Message
      <3>2. device_list' = Listed(m)  BY <1>2, <2>1 DEF Forward
      <3>3. /\ m.by \in Ids \cup {Dfu} /\ m.events \in Sources
            /\ device_list # None => device_list.commands \in Ids \cup {Dfu}
        BY <1>4, <3>1 DEF DeviceMessage, Entry
      <3>4. m.control \in BOOLEAN  BY <3>1 DEF DeviceMessage
      <3>5. QED  BY <3>2, <3>3, <3>4 DEF Listed, Entry
    <2>2. CASE m.kind = "Disconnect"  BY <1>2, <2>2 DEF Forward
    <2>3. CASE m.kind = "Update"
      <3>1. m \in DeviceMessage  BY <1>2, <2>3 DEF Message
      <3>2. device_list' = Updated(m)  BY <1>2, <2>3 DEF Forward
      <3>3. m.control \in BOOLEAN /\ m.events \in Sources  BY <3>1 DEF DeviceMessage
      <3>4. QED  BY <1>4, <3>2, <3>3 DEF Updated, Entry
    <2>4. CASE m.kind \notin {"Connect", "Disconnect", "Update"}
      BY <1>2, <1>4, <2>4 DEF Forward
    <2>5. QED  BY <2>1, <2>2, <2>3, <2>4
  <1>6. dongle_list' \in [Hubs -> BOOLEAN \cup {None}]
    <2>1. dongle_list \in [Hubs -> BOOLEAN \cup {None}]  BY <1>1 DEF TypeOK
    <2>2. m.kind = "DongleUpdate" => m.has \in BOOLEAN  BY <1>2 DEF Message, DeviceMessage
    <2>3. \/ dongle_list' = dongle_list
          \/ dongle_list' = [dongle_list EXCEPT ![m.by] = FALSE]
          \/ dongle_list' = [dongle_list EXCEPT ![m.by] = None]
          \/ m.kind = "DongleUpdate" /\ dongle_list' = [dongle_list EXCEPT ![m.by] = m.has]
      BY <1>2 DEF Forward
    <2>4. QED  BY <2>1, <2>2, <2>3
  <1>7. UNCHANGED <<surroundings, scanning, manager, tables>>  BY DEF Forward
  <1>8. QED
    BY <1>1, <1>2, <1>3, <1>5, <1>6, <1>7
    DEF surroundings, scanning, tables, TypeOK, HandlersOK, ChannelOK

(***************************************************************************)
(* The lock.                                                               *)
(***************************************************************************)
\* A step of a dongle's manager changes nothing of the others.
LEMMA ManagerMoves ==
  ASSUME TypeOK, NEW h \in Hubs, HubStep(h)
  PROVE  /\ UNCHANGED <<surroundings, scanning, lists>>
         /\ \A g \in Hubs : g # h => manager'[g] = manager[g]
  BY DEF HubStep, HubStarts, HubFindsDevice, HubChecks, HubMerges, HubInserts,
         HubConnects, HubQueues, HubLosesDevice, HubDetaches, HubUpdates, HubFails,
         HubCleansUp, HubSaysBye, Goto, Drop, Tell, TypeOK

LEMMA ScanKeepsLock == Core /\ ScanStep => LockOwners'
  <1> SUFFICES ASSUME Core, ScanStep PROVE LockOwners'  OBVIOUS
  <1>1. /\ scan \in ScanState /\ manager \in [Hubs -> ManagerState] /\ LockOwners
        /\ device_handles # None => Evicted \in {None, device_handles}
    BY HandlersInUse DEF Core, TypeOK
  <1>2. Scan \notin Hubs /\ None \notin Hubs /\ Scan # None  BY RegistryParameters
  <1>3. CASE ScanLists
    <2>1. scan'.pc = "clean" /\ scan.pc = "list"
      BY <1>3 DEF ScanLists, At, IdleScan
    <2>2. holder # Scan  BY <1>1, <2>1 DEF LockOwners
    <2>3. ASSUME NEW h \in Hubs PROVE holder' = h <=> manager'[h].pc \in Locking
      <3>1. manager'[h] = IF h \in plugged THEN manager[h] ELSE NoManager
        BY <1>3, <2>3 DEF ScanLists, AbortManagers
      <3>2. holder' = h <=> holder = h /\ h \in plugged
        BY <1>2, <1>3 DEF ScanLists, AbortManagers
      <3>3. QED  BY <1>1, <3>1, <3>2 DEF LockOwners, NoManager, Locking
    <2>4. holder' # Scan /\ (holder' # None => holder # None)
      BY <1>2, <1>3, <2>2 DEF ScanLists, AbortManagers
    <2>5. QED  BY <1>1, <1>3, <2>1, <2>3, <2>4 DEF ScanLists, LockOwners
  <1>4. ASSUME NEW h \in Hubs, ScanVisitsHub(h) PROVE LockOwners'
    <2>1. scan'.pc = "walk" /\ scan.pc = "walk"  BY <1>1, <1>4 DEF ScanVisitsHub, At, ScanState
    <2>2. \A g \in Hubs : manager'[g].pc \in Locking <=> manager[g].pc \in Locking
      BY <1>1, <1>4 DEF ScanVisitsHub, NoManager, Locking
    <2>3. QED  BY <1>1, <1>4, <2>1, <2>2 DEF ScanVisitsHub, LockOwners, tables
  \* Steps that leave the managers alone.
  <1>5. ASSUME UNCHANGED manager,
               \/ UNCHANGED <<holder, device_handles>>
               \/ holder = None /\ holder' = None
               \/ holder = None /\ holder' = Scan /\ device_handles' # None
               \/ holder = Scan /\ holder' = None,
               holder' = Scan <=> scan'.pc \in {"merge", "gone"}
        PROVE  LockOwners'
    BY <1>1, <1>2, <1>5 DEF LockOwners
  <1>6. CASE ScanCleans
    BY <1>1, <1>2, <1>5, <1>6 DEF ScanCleans, LockFree, At, ScanState
  <1>7. CASE ScanProbes \/ ScanProbeFails \/ ScanSurfacesDfu
    <2>1. scan.pc = "walk" /\ scan'.pc \in {"walk", "check"}
      BY <1>1, <1>7 DEF ScanProbes, ScanProbeFails, ScanSurfacesDfu, At, ScanState
    <2>2. UNCHANGED <<manager, holder, device_handles>>
      BY <1>7 DEF ScanProbes, ScanProbeFails, ScanSurfacesDfu, tables
    <2>3. QED  BY <1>1, <1>5, <2>1, <2>2 DEF LockOwners
  <1>8. CASE ScanChecks
    <2>1. holder = None /\ UNCHANGED manager  BY <1>8 DEF ScanChecks, LockFree
    <2>2. \/ scan'.pc \in {"insert", "walk"} /\ holder' = None
          \/ scan'.pc = "merge" /\ holder' = Scan /\ device_handles' # None
      BY <1>1, <1>8, <2>1 DEF ScanChecks, ScanState
    <2>3. QED  BY <1>2, <1>5, <2>1, <2>2
  <1>9. CASE ScanMerges \/ ScanTellsGone
    <2>1. /\ scan.pc \in {"merge", "gone"} /\ scan'.pc \in {"walk", "dfu"}
          /\ holder' = None /\ UNCHANGED <<manager, device_handles>>
      BY <1>1, <1>9 DEF ScanMerges, ScanTellsGone, At, ScanState
    <2>2. QED  BY <1>1, <1>2, <1>5, <2>1 DEF LockOwners
  <1>10. CASE ScanInserts
    <2>1. scan'.pc = "connect" /\ holder = None /\ UNCHANGED <<manager, holder>>
      BY <1>1, <1>10 DEF ScanInserts, LockFree, ScanState
    <2>2. QED  BY <1>2, <1>5, <2>1
  <1>11. CASE ScanConnects
    <2>1. /\ scan.pc = "connect" /\ scan'.pc = "walk"
          /\ UNCHANGED <<manager, holder, device_handles>>
      BY <1>1, <1>11 DEF ScanConnects, At, ScanState, tables
    <2>2. QED  BY <1>1, <1>5, <2>1 DEF LockOwners
  <1>12. CASE ScanReconciles
    <2>1. scan.pc = "walk" /\ UNCHANGED <<manager, device_handles>>
      BY <1>12 DEF ScanReconciles, At
    <2>2. holder # Scan  BY <1>1, <2>1 DEF LockOwners
    <2>3. CASE GoneWithHandler
      <3>1. scan'.pc = "gone" /\ holder' = Scan /\ device_handles # None
        BY <1>1, <1>12, <2>3 DEF ScanReconciles, GoneWithHandler, ScanState
      <3>2. holder = None
        BY <1>12, <2>3 DEF ScanReconciles, GoneWithHandler, LockFree
      <3>3. QED  BY <1>5, <2>1, <3>1, <3>2
    <2>4. CASE ~GoneWithHandler
      <3>1. scan'.pc = "dfu" /\ holder' = holder
        BY <1>1, <1>12, <2>4 DEF ScanReconciles, ScanState
      <3>2. QED  BY <1>5, <2>1, <2>2, <3>1
    <2>5. QED  BY <2>3, <2>4
  <1>13. CASE ScanReconcilesDfu
    <2>1. /\ scan.pc = "dfu" /\ scan'.pc = "list"
          /\ UNCHANGED <<manager, holder, device_handles>>
      BY <1>13 DEF ScanReconcilesDfu, At, IdleScan, tables
    <2>2. QED  BY <1>1, <1>5, <2>1 DEF LockOwners
  <1>14. QED
    BY <1>3, <1>4, <1>6, <1>7, <1>8, <1>9, <1>10, <1>11, <1>12, <1>13 DEF ScanStep

LEMMA HubKeepsLock ==
  ASSUME Core, NEW h \in Hubs, HubStep(h)
  PROVE  LockOwners'
  <1>1. /\ manager \in [Hubs -> ManagerState] /\ LockOwners
        /\ UNCHANGED scan /\ \A g \in Hubs : g # h => manager'[g] = manager[g]
    BY ManagerMoves DEF Core, TypeOK, scanning
  <1>2. Scan \notin Hubs /\ None \notin Hubs /\ Scan # None  BY RegistryParameters
  <1> DEFINE pc == manager[h].pc
  <1>3. ASSUME NEW at, manager'[h].pc = at,
               \/ /\ holder = None /\ holder' = h /\ at \in Locking
                  /\ device_handles' # None
               \/ pc \in Locking /\ holder' = None /\ at \notin Locking
               \/ /\ pc \in Locking <=> at \in Locking
                  /\ holder' = holder
                  /\ holder = None \/ UNCHANGED device_handles
        PROVE  LockOwners'
    BY <1>1, <1>2, <1>3 DEF LockOwners
  <1>4. \A at : Goto(h, at) => manager'[h].pc = at  BY <1>1 DEF Goto, ManagerState
  <1>5. CASE HubStarts(h)
    BY <1>3, <1>4, <1>5 DEF HubStarts, Managing, tables, Locking
  <1>6. CASE HubFindsDevice(h)
    BY <1>3, <1>4, <1>6 DEF HubFindsDevice, Managing, tables, Locking
  <1>7. CASE HubChecks(h)
    <2>1. CASE Evicted # None
      BY <1>3, <1>4, <1>7, <2>1 DEF HubChecks, LockFree, Locking
    <2>2. CASE Evicted = None
      <3>1. manager'[h].pc = "spawned"  BY <1>1, <1>7, <2>2 DEF HubChecks, ManagerState
      <3>2. QED
        BY <1>3, <1>7, <2>2, <3>1 DEF HubChecks, Managing, LockFree, Locking
    <2>3. QED  BY <2>1, <2>2
  <1>8. CASE HubMerges(h)
    <2>1. manager'[h].pc = "update"  BY <1>1, <1>8 DEF HubMerges, ManagerState
    <2>2. QED  BY <1>3, <1>8, <2>1 DEF HubMerges, Managing, Locking
  <1>9. CASE HubInserts(h)
    <2>1. manager'[h].pc = "connect"  BY <1>1, <1>9 DEF HubInserts, ManagerState
    <2>2. device_handles' # None  BY <1>9 DEF HubInserts, Managing, Core, Spawns
    <2>3. QED  BY <1>3, <1>9, <2>1, <2>2 DEF HubInserts, LockFree, Locking
  <1>10. CASE HubConnects(h)
    BY <1>3, <1>4, <1>10 DEF HubConnects, Managing, tables, Locking
  <1>11. CASE HubQueues(h)
    <2>1. manager'[h].pc = "update"  BY <1>1, <1>11 DEF HubQueues, ManagerState
    <2>2. QED  BY <1>3, <1>11, <2>1 DEF HubQueues, Managing, Locking
  <1>12. ASSUME NEW telling \in {"detach", "bye"}, NEW then \in {"update", "finished"},
                pc \in {"idle", "cleanup"}, Drop(h, telling, then), UNCHANGED device_handles
         PROVE  LockOwners'
    <2>1. CASE device_handles = None
      <3>1. manager'[h].pc = then  BY <1>1, <1>12, <2>1 DEF Drop, ManagerState
      <3>2. QED  BY <1>3, <1>12, <2>1, <3>1 DEF Drop, Locking
    <2>2. CASE device_handles # None
      <3>1. manager'[h].pc = telling  BY <1>1, <1>12, <2>2 DEF Drop, ManagerState
      <3>2. QED  BY <1>3, <1>12, <2>2, <3>1 DEF Drop, LockFree, Locking
    <2>3. QED  BY <2>1, <2>2
  <1>13. ASSUME NEW telling \in {"detach", "bye"}, NEW then \in {"update", "finished"},
                Tell(h, telling, then)
         PROVE  LockOwners'
    BY <1>3, <1>4, <1>13 DEF Tell, Managing, Locking
  <1>14. CASE HubLosesDevice(h)  BY <1>12, <1>14 DEF HubLosesDevice, Managing
  <1>15. CASE HubDetaches(h) \/ HubSaysBye(h)
    BY <1>13, <1>15 DEF HubDetaches, HubSaysBye
  <1>16. CASE HubUpdates(h)
    BY <1>3, <1>4, <1>16 DEF HubUpdates, Managing, tables, Locking
  <1>17. CASE HubFails(h)
    BY <1>3, <1>4, <1>17 DEF HubFails, Managing, tables, Locking
  <1>18. CASE HubCleansUp(h)
    <2>1. CASE manager[h].has  BY <1>12, <1>18, <2>1 DEF HubCleansUp, Managing
    <2>2. CASE ~manager[h].has
      BY <1>3, <1>4, <1>18, <2>2 DEF HubCleansUp, Managing, Locking
    <2>3. QED  BY <2>1, <2>2
  <1>19. QED
    BY <1>5, <1>6, <1>7, <1>8, <1>9, <1>10, <1>11, <1>14, <1>15, <1>16, <1>17, <1>18
    DEF HubStep

(***************************************************************************)
(* Who has spawned what.                                                   *)
(***************************************************************************)
\* While the lock is free, a dongle that spawns has not entered its handler.
LEMMA FreeLock ==
  ASSUME Core, LockFree
  PROVE  \A h \in Hubs : /\ manager[h].pc \notin Locking
                         /\ manager[h].spawned # None => manager[h].pc = "spawned"
  BY RegistryParameters DEF Core, LockOwners, Spawns, LockFree, Locking

LEMMA EvictedIs ==
  ASSUME Core
  PROVE  /\ Evicted \in {None, device_handles}
         /\ Evicted # None => ~Finished(device_handles)
  BY HandlersInUse DEF Evicted

LEMMA ScanKeepsSpawns == Core /\ ScanStep => Spawns'
  <1> SUFFICES ASSUME Core, ScanStep PROVE Spawns'  OBVIOUS
  <1>1. /\ scan \in ScanState /\ manager \in [Hubs -> ManagerState] /\ Spawns
        /\ TypeOK /\ HandlersOK
    BY TypeParts DEF Core, TypeOK
  <1>2. None \notin Ids /\ None \notin DOMAIN handler  BY HandlersInUse
  \* What does not begin or end a registration.
  <1>3. ASSUME scan'.spawned = scan.spawned,
               scan'.pc = scan.pc \/ {scan.pc, scan'.pc} \cap {"insert", "connect"} = {},
               UNCHANGED manager, DOMAIN handler \subseteq DOMAIN handler',
               UNCHANGED device_handles
                 \/ (LockFree /\ device_handles' \in {None, device_handles})
        PROVE  Spawns'
    BY <1>1, <1>2, <1>3, FreeLock DEF Spawns
  <1>4. CASE ScanLists
    <2>1. scan.pc = "list" /\ scan'.pc = "clean" /\ scan'.spawned = None
      BY <1>4 DEF ScanLists, At, IdleScan
    <2>2. \A h \in Hubs : manager'[h] \in {manager[h], NoManager}
      BY <1>1, <1>4 DEF ScanLists, AbortManagers
    <2>3. UNCHANGED <<device_handles, handler>>  BY <1>4 DEF ScanLists
    <2>4. NoManager.spawned = None /\ NoManager.pc = "none"  BY DEF NoManager
    <2> HIDE DEF NoManager
    <2>5. \A h \in Hubs : manager'[h] = manager[h] \/ manager'[h].spawned = None
      BY <2>2, <2>4
    <2>6. \A h \in Hubs : manager'[h].spawned # None
                            <=> manager'[h].pc \in {"spawned", "connect", "queue"}
      BY <1>1, <2>2, <2>4 DEF Spawns
    <2>7. \A i \in Ids, h \in Hubs : manager'[h].spawned = i =>
            /\ i \in DOMAIN handler'
            /\ device_handles' = i <=> manager'[h].pc # "spawned"
            /\ \A g \in Hubs \ {h} : manager'[g].spawned # i
      BY <1>1, <1>2, <2>3, <2>5 DEF Spawns
    <2>8. QED  BY <1>2, <2>1, <2>6, <2>7 DEF Spawns
  <1>5. CASE ScanCleans
    <2>1. scan.pc = "clean" /\ scan'.pc = "walk" /\ scan'.spawned = scan.spawned
      BY <1>1, <1>5 DEF ScanCleans, At, ScanState
    <2>2. QED  BY <1>3, <1>5, <2>1, EvictedIs DEF ScanCleans
  <1>6. ASSUME NEW h \in Hubs, ScanVisitsHub(h) PROVE Spawns'
    <2>1. scan.pc = "walk" /\ scan'.pc = scan.pc /\ scan'.spawned = scan.spawned
      BY <1>1, <1>6 DEF ScanVisitsHub, At, ScanState
    <2>2. \/ UNCHANGED manager
          \/ /\ manager[h].pc \in {"none", "finished"}
             /\ \E pc \in {"start", "none"} :
                  manager' = [manager EXCEPT ![h] = [NoManager EXCEPT !.pc = pc]]
      BY <1>6 DEF ScanVisitsHub
    <2>3. UNCHANGED <<device_handles, handler>>  BY <1>6 DEF ScanVisitsHub, tables
    <2>4. \A pc \in {"start", "none"} : /\ [NoManager EXCEPT !.pc = pc].spawned = None
                                        /\ [NoManager EXCEPT !.pc = pc].pc = pc
      BY DEF NoManager
    <2> HIDE DEF NoManager
    <2>5. \A g \in Hubs :
            \/ manager'[g] = manager[g]
            \/ /\ manager'[g].spawned = None /\ manager'[g].pc \in {"start", "none"}
      BY <1>1, <2>2, <2>4
    <2>6. QED  BY <1>1, <1>2, <2>1, <2>3, <2>5 DEF Spawns
  <1>7. CASE ScanProbes \/ ScanProbeFails \/ ScanSurfacesDfu
    <2>1. /\ scan.pc = "walk" /\ scan'.pc \in {"walk", "check"}
          /\ scan'.spawned = scan.spawned
      BY <1>1, <1>7 DEF ScanProbes, ScanProbeFails, ScanSurfacesDfu, At, ScanState
    <2>2. UNCHANGED <<manager, handler, device_handles>>
      BY <1>7 DEF ScanProbes, ScanProbeFails, ScanSurfacesDfu, tables
    <2>3. QED  BY <1>3, <2>1, <2>2
  <1>8. CASE ScanChecks
    <2>1. /\ scan.pc = "check" /\ LockFree /\ UNCHANGED manager
          /\ device_handles' \in {None, device_handles}
      BY <1>8, EvictedIs DEF ScanChecks, At
    <2>2. CASE Evicted = None
      <3> DEFINE n == Len(handler) + 1
      <3>1. /\ scan' = [scan EXCEPT !.pc = "insert", !.spawned = n]
            /\ Spawn(TRUE, scan.events)
        BY <1>8, <2>2 DEF ScanChecks
      <3>2. scan'.pc = "insert" /\ scan'.spawned = n  BY <1>1, <3>1 DEF ScanState
      <3>3. scan.events \in Sources  BY <1>1 DEF ScanState
      <3>4. n \in Ids /\ n \notin DOMAIN handler /\ DOMAIN handler' = DOMAIN handler \cup {n}
        BY <1>1, <3>1, <3>3, SpawnAppends
      <3> HIDE DEF n
      <3>5. /\ device_handles # n
            /\ \A h \in Hubs : manager[h].spawned # n
        BY <1>2, <3>4, HandlersInUse DEF Core
      <3>6. QED
        BY <1>1, <1>2, <2>1, <3>2, <3>4, <3>5, FreeLock DEF Spawns
    <2>3. CASE Evicted # None
      <3>1. scan'.pc \in {"walk", "merge"} /\ scan'.spawned = scan.spawned /\ UNCHANGED handler
        BY <1>1, <1>8, <2>3 DEF ScanChecks, ScanState
      <3>2. QED  BY <1>3, <2>1, <3>1
    <2>4. QED  BY <2>2, <2>3
  <1>9. CASE ScanMerges \/ ScanTellsGone
    <2>1. /\ scan.pc \in {"merge", "gone"} /\ scan'.pc \in {"walk", "dfu"}
          /\ scan'.spawned = scan.spawned /\ UNCHANGED <<manager, device_handles>>
      BY <1>1, <1>9 DEF ScanMerges, ScanTellsGone, At, ScanState
    <2>2. Scan # None  BY RegistryParameters
    <2>3. device_handles \in DOMAIN handler
      BY <2>1, <2>2, HandlersInUse DEF Core, LockOwners
    <2>4. DOMAIN handler' = DOMAIN handler
      BY <1>1, <1>9, <2>3, SendChanges DEF ScanMerges, ScanTellsGone, LinkKinds
    <2>5. QED  BY <1>3, <2>1, <2>4
  <1>10. CASE ScanInserts
    <2>1. /\ scan.pc = "insert" /\ scan'.pc = "connect" /\ scan'.spawned = scan.spawned
          /\ LockFree /\ device_handles' = scan.spawned /\ UNCHANGED <<manager, handler>>
      BY <1>1, <1>10 DEF ScanInserts, At, ScanState
    <2>2. scan.spawned \in Ids  BY <2>1, HandlersInUse DEF Core, Spawns
    <2>3. QED  BY <1>1, <1>2, <2>1, <2>2, FreeLock DEF Spawns
  <1>11. CASE ScanConnects
    <2>1. /\ scan.pc = "connect" /\ scan'.pc = "walk" /\ scan'.spawned = None
          /\ UNCHANGED <<manager, handler, device_handles>>
      BY <1>1, <1>11 DEF ScanConnects, At, ScanState, tables
    <2>2. QED  BY <1>1, <1>2, <2>1 DEF Spawns
  <1>12. CASE ScanReconciles
    <2>1. /\ scan.pc = "walk" /\ scan'.pc \in {"gone", "dfu"}
          /\ scan'.spawned = scan.spawned /\ UNCHANGED <<manager, handler, device_handles>>
      BY <1>1, <1>12 DEF ScanReconciles, At, ScanState
    <2>2. QED  BY <1>3, <2>1
  <1>13. CASE ScanReconcilesDfu
    <2>1. /\ scan.pc = "dfu" /\ scan'.pc = "list" /\ scan'.spawned = None
          /\ UNCHANGED <<manager, handler, device_handles>>
      BY <1>13 DEF ScanReconcilesDfu, At, IdleScan, tables
    <2>2. QED  BY <1>1, <1>2, <2>1 DEF Spawns
  <1>14. QED
    BY <1>4, <1>5, <1>6, <1>7, <1>8, <1>9, <1>10, <1>11, <1>12, <1>13 DEF ScanStep

LEMMA HubKeepsSpawns ==
  ASSUME Core, NEW h \in Hubs, HubStep(h)
  PROVE  Spawns'
  <1>1. /\ manager \in [Hubs -> ManagerState] /\ Spawns /\ TypeOK /\ HandlersOK
        /\ UNCHANGED scan /\ \A g \in Hubs : g # h => manager'[g] = manager[g]
    BY TypeParts, ManagerMoves DEF Core, TypeOK, scanning
  <1>2. None \notin Ids /\ None \notin DOMAIN handler  BY HandlersInUse
  <1> DEFINE pc == manager[h].pc
             New == {"spawned", "connect", "queue"}
  <1>3. ASSUME pc \notin New, manager'[h].pc \notin New,
               manager'[h].spawned = manager[h].spawned,
               DOMAIN handler \subseteq DOMAIN handler',
               UNCHANGED device_handles
                 \/ (LockFree /\ device_handles' \in {None, device_handles})
        PROVE  Spawns'
    BY <1>1, <1>2, <1>3, FreeLock DEF Spawns
  <1>4. \A at : Goto(h, at) => manager'[h].pc = at /\ manager'[h].spawned = manager[h].spawned
    BY <1>1 DEF Goto, ManagerState
  <1>5. CASE HubStarts(h)
    BY <1>3, <1>4, <1>5 DEF HubStarts, Managing, tables
  <1>6. CASE HubFindsDevice(h)
    BY <1>3, <1>4, <1>6 DEF HubFindsDevice, Managing, tables
  <1>7. CASE HubChecks(h)
    <2>1. pc = "found" /\ LockFree /\ device_handles' \in {None, device_handles}
      BY <1>7, EvictedIs DEF HubChecks, Managing
    <2>2. CASE Evicted # None
      BY <1>3, <1>4, <1>7, <2>1, <2>2 DEF HubChecks
    <2>3. CASE Evicted = None
      <3> DEFINE n == Len(handler) + 1
      <3>1. manager'[h].pc = "spawned" /\ manager'[h].spawned = n
        BY <1>1, <1>7, <2>3 DEF HubChecks, ManagerState
      <3>2. Spawn(FALSE, "none")  BY <1>7, <2>3 DEF HubChecks
      <3>3. n \in Ids /\ n \notin DOMAIN handler /\ DOMAIN handler' = DOMAIN handler \cup {n}
        BY <1>1, <3>2, SpawnAppends DEF Sources
      <3> HIDE DEF n
      <3>4. /\ device_handles # n /\ scan.spawned # n
            /\ \A g \in Hubs : manager[g].spawned # n
        BY <1>2, <3>3, HandlersInUse DEF Core
      <3>5. QED
        BY <1>1, <1>2, <2>1, <3>1, <3>3, <3>4, FreeLock DEF Spawns
    <2>4. QED  BY <2>2, <2>3
  <1>8. h # None  BY RegistryParameters
  <1>9. pc \in Locking => device_handles \in DOMAIN handler
    BY <1>8, HandlersInUse DEF Core, LockOwners
  <1>10. CASE HubMerges(h)
    <2>1. /\ pc = "merge" /\ manager'[h].pc = "update"
          /\ manager'[h].spawned = manager[h].spawned /\ UNCHANGED device_handles
      BY <1>1, <1>10 DEF HubMerges, Managing, ManagerState
    <2>2. DOMAIN handler' = DOMAIN handler
      BY <1>1, <1>9, <1>10, <2>1, SendChanges DEF HubMerges, LinkKinds, Locking
    <2>3. QED  BY <1>3, <2>1, <2>2
  <1>11. CASE HubInserts(h)
    <2>1. /\ pc = "spawned" /\ manager'[h].pc = "connect" /\ LockFree
          /\ manager'[h].spawned = manager[h].spawned
          /\ device_handles' = manager[h].spawned /\ UNCHANGED handler
      BY <1>1, <1>11 DEF HubInserts, Managing, ManagerState
    <2>2. manager[h].spawned \in Ids  BY <2>1, HandlersInUse DEF Core, Spawns
    <2>3. QED  BY <1>1, <1>2, <2>1, <2>2, FreeLock DEF Spawns
  <1>12. CASE HubConnects(h)
    <2>1. /\ pc = "connect" /\ manager'[h].pc = "queue"
          /\ manager'[h].spawned = manager[h].spawned
          /\ UNCHANGED <<handler, device_handles>>
      BY <1>4, <1>12 DEF HubConnects, Managing, tables
    <2>2. QED  BY <1>1, <1>2, <2>1 DEF Spawns
  <1>13. CASE HubQueues(h)
    <2>1. /\ pc = "queue" /\ manager'[h].pc = "update" /\ manager'[h].spawned = None
          /\ UNCHANGED device_handles
      BY <1>1, <1>13 DEF HubQueues, Managing, ManagerState
    <2>2. manager[h].spawned \in DOMAIN handler  BY <2>1, HandlersInUse DEF Core, Spawns
    <2>3. DOMAIN handler' = DOMAIN handler
      BY <1>1, <1>13, <2>2, SendChanges DEF HubQueues, LinkKinds
    <2>4. QED  BY <1>1, <1>2, <2>1, <2>3 DEF Spawns
  <1>14. ASSUME NEW telling \in {"detach", "bye"}, NEW then \in {"update", "finished"},
                pc \in {"idle", "cleanup"}, Drop(h, telling, then),
                UNCHANGED <<handler, device_handles>>
         PROVE  Spawns'
    <2>1. manager'[h].pc \in {telling, then} /\ manager'[h].spawned = manager[h].spawned
      BY <1>1, <1>14 DEF Drop, ManagerState
    <2>2. QED  BY <1>3, <1>14, <2>1
  <1>15. ASSUME NEW telling \in {"detach", "bye"}, NEW then \in {"update", "finished"},
                Tell(h, telling, then)
         PROVE  Spawns'
    <2>1. DOMAIN handler' = DOMAIN handler
      BY <1>1, <1>9, <1>15, SendChanges DEF Tell, Managing, LinkKinds, Locking
    <2>2. QED  BY <1>3, <1>4, <1>15, <2>1 DEF Tell, Managing
  <1>16. CASE HubLosesDevice(h)  BY <1>14, <1>16 DEF HubLosesDevice, Managing
  <1>17. CASE HubDetaches(h) \/ HubSaysBye(h)
    BY <1>15, <1>17 DEF HubDetaches, HubSaysBye
  <1>18. CASE HubUpdates(h)
    BY <1>3, <1>4, <1>18 DEF HubUpdates, Managing, tables
  <1>19. CASE HubFails(h)
    BY <1>3, <1>4, <1>19 DEF HubFails, Managing, tables
  <1>20. CASE HubCleansUp(h)
    <2>1. CASE manager[h].has  BY <1>14, <1>20, <2>1 DEF HubCleansUp, Managing
    <2>2. CASE ~manager[h].has
      BY <1>3, <1>4, <1>20, <2>2 DEF HubCleansUp, Managing
    <2>3. QED  BY <2>1, <2>2
  <1>21. QED
    BY <1>5, <1>6, <1>7, <1>10, <1>11, <1>12, <1>13, <1>16, <1>17, <1>18, <1>19, <1>20
    DEF HubStep

(***************************************************************************)
(* Handlers that are being registered are left alone.                      *)
(***************************************************************************)
LEMMA FreshKept ==
  ASSUME Core, scan'.spawned \in {scan.spawned, None},
         \A h \in Hubs : manager'[h].spawned \in {manager[h].spawned, None},
         \A i \in DOMAIN handler : scan.spawned = i => ScanFresh(i)',
         \A i \in DOMAIN handler, h \in Hubs : manager[h].spawned = i => HubFresh(i)'
  PROVE  Fresh'
  BY HandlersInUse DEF Fresh

LEMMA FreshUntouched ==
  ASSUME Core, scan'.spawned \in {scan.spawned, None}, UNCHANGED handler,
         \A h \in Hubs : manager'[h].spawned \in {manager[h].spawned, None}
  PROVE  Fresh'
  BY FreshKept, HandlersInUse DEF Core, Fresh, ScanFresh, HubFresh, Running

\* A spawn gives the new handler to one task.
LEMMA FreshSpawned ==
  ASSUME Core, NEW control \in BOOLEAN, NEW events \in Sources, Spawn(control, events),
         \/ /\ control /\ scan'.spawned = Len(handler) + 1
            /\ UNCHANGED manager
         \/ /\ ~control /\ events = "none" /\ UNCHANGED scan
            /\ \A h \in Hubs :
                 manager'[h].spawned \in {manager[h].spawned, Len(handler) + 1}
  PROVE  Fresh'
  <1>0. PICK n \in Ids : n = Len(handler) + 1
    BY TypeParts, SpawnAppends DEF Core
  <1>1. /\ n \notin DOMAIN handler
        /\ DOMAIN handler' = DOMAIN handler \cup {n}
        /\ \A j \in DOMAIN handler : handler'[j] = handler[j]
        /\ handler'[n] = [phase |-> "running", queue |-> << >>,
                          control |-> control, events |-> events, seen |-> FALSE]
    BY <1>0, TypeParts, SpawnAppends DEF Core
  <1>2. DOMAIN (handler'[n].queue) = {}  BY <1>1
  <1>3. /\ \A i \in DOMAIN handler : ScanFresh(i) => ScanFresh(i)'
        /\ \A i \in DOMAIN handler : HubFresh(i) => HubFresh(i)'
    BY <1>1 DEF ScanFresh, HubFresh, Running
  <1>4. /\ Running(n)' /\ handler'[n].control = control
        /\ handler'[n].seen = FALSE /\ handler'[n].events = events
        /\ handler'[n].queue = << >>
    BY <1>1 DEF Running
  <1>5. /\ \A i \in Ids : scan.spawned = i => i \in DOMAIN handler /\ ScanFresh(i)
        /\ \A i \in Ids, h \in Hubs : manager[h].spawned = i =>
             i \in DOMAIN handler /\ HubFresh(i)
    BY HandlersInUse DEF Core, Fresh
  <1>6. CASE control /\ scan'.spawned = n /\ UNCHANGED manager
    <2>1. ScanFresh(n)'  BY <1>2, <1>4, <1>6 DEF ScanFresh
    <2>2. QED  BY <1>1, <1>3, <1>5, <1>6, <2>1 DEF Fresh
  <1>7. CASE /\ ~control /\ events = "none" /\ UNCHANGED scan
             /\ \A h \in Hubs : manager'[h].spawned \in {manager[h].spawned, n}
    <2>1. HubFresh(n)'  BY <1>4, <1>7 DEF HubFresh
    <2>2. ASSUME NEW i \in Ids, scan'.spawned = i PROVE ScanFresh(i)'
      BY <1>3, <1>5, <1>7, <2>2
    <2>3. ASSUME NEW i \in Ids, NEW h \in Hubs, manager'[h].spawned = i PROVE HubFresh(i)'
      BY <1>3, <1>5, <1>7, <2>1, <2>3
    <2>4. QED  BY <2>2, <2>3 DEF Fresh
  <1>8. QED  BY <1>0, <1>6, <1>7

\* A send to a handler that is not being registered by a dongle, and that does
\* not take the control away from one the scan registers.
LEMMA FreshSend ==
  ASSUME Core, NEW i \in DOMAIN handler, NEW kind \in LinkKinds, SendTo(i, kind),
         \A h \in Hubs : manager'[h].spawned \in {manager[h].spawned, None} \ {i},
         scan'.spawned = scan.spawned,
         scan.spawned = i => kind # "RemoveControlDevice"
  PROVE  Fresh'
  <1>1. /\ HandlersOK /\ DOMAIN handler' = DOMAIN handler
        /\ \A j \in DOMAIN handler :
             /\ j # i => handler'[j] = handler[j]
             /\ handler'[j].phase = handler[j].phase
             /\ handler'[j].control = handler[j].control
             /\ handler'[j].seen = handler[j].seen
        /\ handler'[i].queue \in {handler[i].queue, Append(handler[i].queue, kind)}
    BY TypeParts, SendChanges DEF Core
  <1>2. ASSUME NEW j \in Ids, scan'.spawned = j PROVE ScanFresh(j)'
    <2>1. ScanFresh(j) /\ j \in DOMAIN handler  BY <1>2, HandlersInUse DEF Core, Fresh
    <2>2. CASE j # i  BY <1>1, <2>1, <2>2 DEF ScanFresh, Running
    <2>3. CASE j = i
      <3>1. handler[i].queue \in Seq(LinkKinds)  BY <1>1, HandlerIds DEF HandlerState
      <3>2. ASSUME NEW q \in DOMAIN (handler'[i].queue)
            PROVE  handler'[i].queue[q] # "RemoveControlDevice"
        <4>1. CASE handler'[i].queue = handler[i].queue
          BY <2>1, <2>3, <3>2, <4>1 DEF ScanFresh
        <4>2. CASE handler'[i].queue = Append(handler[i].queue, kind)
          <5>1. /\ DOMAIN (handler'[i].queue) = 1 .. Len(handler[i].queue) + 1
                /\ DOMAIN (handler[i].queue) = 1 .. Len(handler[i].queue)
                /\ Len(handler[i].queue) \in Nat
                /\ handler'[i].queue[Len(handler[i].queue) + 1] = kind
                /\ \A k \in 1 .. Len(handler[i].queue) :
                     handler'[i].queue[k] = handler[i].queue[k]
            BY <3>1, <4>2, AppendProperties, LenProperties
          <5>2. kind # "RemoveControlDevice"  BY <1>2, <2>3
          <5>3. QED  BY <2>1, <2>3, <3>2, <5>1, <5>2 DEF ScanFresh
        <4>3. QED  BY <1>1, <4>1, <4>2
      <3>3. QED  BY <1>1, <2>1, <2>3, <3>2 DEF ScanFresh, Running
    <2>4. QED  BY <2>2, <2>3
  <1>3. ASSUME NEW j \in Ids, NEW h \in Hubs, manager'[h].spawned = j PROVE HubFresh(j)'
    <2>1. j # i /\ j \in DOMAIN handler /\ HubFresh(j)
      BY <1>3, HandlersInUse DEF Core, Fresh
    <2>2. QED  BY <1>1, <2>1 DEF HubFresh, Running
  <1>4. QED  BY <1>2, <1>3 DEF Fresh

\* The handler in the table is not one that another task registers than the
\* one that holds the lock.
LEMMA HeldAlone ==
  ASSUME Core
  PROVE  /\ holder # None => \A h \in Hubs : h # holder /\ manager[h].spawned # None =>
                               manager[h].spawned # device_handles
         /\ scan.pc \in {"merge", "gone"} => scan.spawned = None
         /\ \A h \in Hubs : manager[h].pc \in {"merge", "detach", "bye"} =>
              holder = h /\ manager[h].spawned = None
  <1>1. ASSUME holder # None, NEW h \in Hubs, h # holder, manager[h].spawned # None
        PROVE  manager[h].spawned # device_handles
    <2>1. manager[h].pc \notin Locking  BY <1>1 DEF Core, LockOwners
    <2>2. manager[h].pc = "spawned"  BY <1>1, <2>1 DEF Core, Spawns, Locking
    <2>3. manager[h].spawned \in Ids  BY <1>1, HandlersInUse
    <2>4. QED  BY <2>2, <2>3 DEF Core, Spawns
  <1>2. scan.pc \in {"merge", "gone"} => scan.spawned = None  BY DEF Core, Spawns
  <1>3. \A h \in Hubs : manager[h].pc \in {"merge", "detach", "bye"} =>
          holder = h /\ manager[h].spawned = None
    BY DEF Core, Spawns, LockOwners, Locking
  <1>4. QED  BY <1>1, <1>2, <1>3

LEMMA ScanKeepsFresh == Core /\ ScanStep => Fresh'
  <1> SUFFICES ASSUME Core, ScanStep PROVE Fresh'  OBVIOUS
  <1>1. /\ scan \in ScanState /\ manager \in [Hubs -> ManagerState] /\ TypeOK
        /\ Scan # None /\ Scan \notin Hubs
    BY RegistryParameters DEF Core, TypeOK
  <1>2. CASE ScanLists
    <2>1. /\ scan'.spawned = None /\ UNCHANGED handler
          /\ \A h \in Hubs : manager'[h].spawned \in {manager[h].spawned, None}
      BY <1>1, <1>2 DEF ScanLists, AbortManagers, IdleScan, NoManager
    <2>2. QED  BY <2>1, FreshUntouched
  <1>3. ASSUME NEW h \in Hubs, ScanVisitsHub(h) PROVE Fresh'
    <2>1. scan'.spawned = scan.spawned /\ UNCHANGED handler
      BY <1>1, <1>3 DEF ScanVisitsHub, ScanState
    <2>2. \A g \in Hubs : manager'[g].spawned \in {manager[g].spawned, None}
      BY <1>1, <1>3 DEF ScanVisitsHub, NoManager
    <2>3. QED  BY <2>1, <2>2, FreshUntouched
  <1>4. CASE \/ ScanCleans \/ ScanProbes \/ ScanProbeFails \/ ScanSurfacesDfu
             \/ ScanInserts \/ ScanConnects \/ ScanReconciles \/ ScanReconcilesDfu
    <2>1. UNCHANGED <<handler, manager>>
      BY <1>4 DEF ScanCleans, ScanProbes, ScanProbeFails, ScanSurfacesDfu, ScanInserts,
                  ScanConnects, ScanReconciles, ScanReconcilesDfu
    <2>2. CASE ScanConnects \/ ScanReconcilesDfu
      <3>1. scan'.spawned = None
        <4>1. ScanConnects => scan'.spawned = None
          BY <1>1 DEF ScanConnects, ScanState
        <4>2. ScanReconcilesDfu => scan'.spawned = None
          BY DEF ScanReconcilesDfu, IdleScan
        <4>3. QED  BY <2>2, <4>1, <4>2
      <3>2. QED  BY <2>1, <3>1, FreshUntouched
    <2>3. CASE ~(ScanConnects \/ ScanReconcilesDfu)
      <3>1. scan'.spawned = scan.spawned
        BY <1>1, <1>4, <2>3
        DEF ScanCleans, ScanProbes, ScanProbeFails, ScanSurfacesDfu, ScanInserts,
            ScanReconciles, ScanState
      <3>2. QED  BY <2>1, <3>1, FreshUntouched
    <2>4. QED  BY <2>2, <2>3
  <1>5. CASE ScanChecks
    <2>1. UNCHANGED manager /\ scan.events \in Sources
      BY <1>1, <1>5 DEF ScanChecks, ScanState
    <2>2. CASE Evicted = None
      <3>1. Spawn(TRUE, scan.events) /\ scan'.spawned = Len(handler) + 1
        BY <1>1, <1>5, <2>2 DEF ScanChecks, ScanState
      <3>2. QED  BY <2>1, <3>1, FreshSpawned
    <2>3. CASE Evicted # None
      <3>1. UNCHANGED handler /\ scan'.spawned = scan.spawned
        BY <1>1, <1>5, <2>3 DEF ScanChecks, ScanState
      <3>2. QED  BY <2>1, <3>1, FreshUntouched
    <2>4. QED  BY <2>2, <2>3
  <1>6. CASE ScanMerges \/ ScanTellsGone
    <2>1. /\ scan.pc \in {"merge", "gone"} /\ UNCHANGED manager
          /\ scan'.spawned = scan.spawned
          /\ \E kind \in LinkKinds : SendTo(device_handles, kind)
      BY <1>1, <1>6 DEF ScanMerges, ScanTellsGone, At, ScanState, LinkKinds
    <2>2. holder = Scan  BY <2>1 DEF Core, LockOwners
    <2>3. device_handles \in DOMAIN handler  BY <1>1, <2>2, HandlersInUse
    <2>4. scan.spawned # device_handles  BY <2>1, <2>3, HeldAlone, HandlersInUse
    <2>5. \A h \in Hubs : manager'[h].spawned \in {manager[h].spawned, None} \ {device_handles}
      BY <1>1, <2>1, <2>2, <2>3, HeldAlone, HandlersInUse
    <2>6. QED  BY <2>1, <2>3, <2>4, <2>5, FreshSend
  <1>7. QED  BY <1>2, <1>3, <1>4, <1>5, <1>6 DEF ScanStep

LEMMA HubKeepsFresh ==
  ASSUME Core, NEW h \in Hubs, HubStep(h)
  PROVE  Fresh'
  <1>1. /\ manager \in [Hubs -> ManagerState] /\ TypeOK
        /\ UNCHANGED scan /\ \A g \in Hubs : g # h => manager'[g] = manager[g]
        /\ h # None
    BY ManagerMoves, RegistryParameters DEF Core, TypeOK, scanning
  <1>2. CASE \/ HubStarts(h) \/ HubFindsDevice(h) \/ HubInserts(h) \/ HubConnects(h)
             \/ HubLosesDevice(h) \/ HubUpdates(h) \/ HubFails(h) \/ HubCleansUp(h)
    <2>1. UNCHANGED handler
      BY <1>2 DEF HubStarts, HubFindsDevice, HubInserts, HubConnects, HubLosesDevice,
                  HubUpdates, HubFails, HubCleansUp
    <2>2. manager'[h].spawned = manager[h].spawned
      BY <1>1, <1>2
      DEF HubStarts, HubFindsDevice, HubInserts, HubConnects, HubLosesDevice,
          HubUpdates, HubFails, HubCleansUp, Goto, Drop, ManagerState
    <2>3. QED  BY <1>1, <2>1, <2>2, FreshUntouched
  <1>3. CASE HubChecks(h)
    <2>1. CASE Evicted # None
      <3>1. UNCHANGED handler /\ manager'[h].spawned = manager[h].spawned
        BY <1>1, <1>3, <2>1 DEF HubChecks, Goto, ManagerState
      <3>2. QED  BY <1>1, <3>1, FreshUntouched
    <2>2. CASE Evicted = None
      <3>1. Spawn(FALSE, "none")  BY <1>3, <2>2 DEF HubChecks
      <3>2. manager' = [manager EXCEPT
              ![h] = [@ EXCEPT !.pc = "spawned", !.spawned = Len(handler) + 1]]
        BY <1>1, <1>3, <2>2 DEF HubChecks
      <3>3. manager'[h].spawned = Len(handler) + 1
        BY <1>1, <3>2 DEF ManagerState
      <3>4. QED  BY <1>1, <3>1, <3>3, FreshSpawned DEF Sources
    <2>3. QED  BY <2>1, <2>2
  <1>4. CASE HubMerges(h) \/ HubDetaches(h) \/ HubSaysBye(h)
    <2>1. /\ manager[h].pc \in {"merge", "detach", "bye"}
          /\ manager'[h].spawned = manager[h].spawned
      BY <1>1, <1>4
      DEF HubMerges, HubDetaches, HubSaysBye, Tell, Managing, Goto, ManagerState
    <2>2. PICK kind \in LinkKinds \ {"RemoveControlDevice"} : SendTo(device_handles, kind)
      BY <1>4 DEF HubMerges, HubDetaches, HubSaysBye, Tell, LinkKinds
    <2>3. holder = h /\ manager[h].spawned = None  BY <2>1, HeldAlone
    <2>4. device_handles \in DOMAIN handler  BY <1>1, <2>3, HandlersInUse
    <2>5. \A g \in Hubs : manager'[g].spawned \in {manager[g].spawned, None} \ {device_handles}
      BY <1>1, <2>1, <2>3, <2>4, HeldAlone, HandlersInUse
    <2>6. QED  BY <1>1, <2>2, <2>4, <2>5, FreshSend
  <1>5. CASE HubQueues(h)
    <2> DEFINE i == manager[h].spawned
    <2>1. /\ manager[h].pc = "queue" /\ manager'[h].spawned = None
          /\ SendTo(i, "AddEventsDevice")
      BY <1>1, <1>5 DEF HubQueues, Managing, ManagerState
    <2>2. i \in DOMAIN handler /\ i \in Ids  BY <2>1, HandlersInUse DEF Core, Spawns
    <2>3. \A g \in Hubs : manager'[g].spawned \in {manager[g].spawned, None} \ {i}
      <3>1. None # i  BY <2>2, HandlersInUse
      <3>2. \A g \in Hubs : g # h => manager[g].spawned # i
        BY <2>2 DEF Core, Spawns
      <3>3. QED  BY <1>1, <2>1, <3>1, <3>2
    <2>4. scan'.spawned = scan.spawned /\ "AddEventsDevice" \in LinkKinds
      BY <1>1 DEF LinkKinds
    <2> HIDE DEF i
    <2>5. QED  BY <2>1, <2>2, <2>3, <2>4, FreshSend
  <1>6. QED  BY <1>2, <1>3, <1>4, <1>5 DEF HubStep

\* Until it has the first message of its dongle, a handler has nothing to take
\* and no reason to leave.
LEMMA FreshWaits ==
  ASSUME Core, NEW i \in Ids, HandlerTakes(i) \/ HandlerLeaves(i) \/ HandlerFinishes(i)
  PROVE  \A h \in Hubs : manager[h].spawned # i
  <1>1. SUFFICES ASSUME NEW h \in Hubs, manager[h].spawned = i PROVE FALSE  OBVIOUS
  <1>2. HubFresh(i)  BY <1>1 DEF Core, Fresh
  <1>3. ~HandlerTakes(i)  BY <1>2 DEF HandlerTakes, HubFresh
  <1>4. ~HandlerLeaves(i)  BY <1>1, <1>2 DEF HandlerLeaves, HubFresh, Open
  <1>5. ~HandlerFinishes(i)  BY <1>2 DEF HandlerFinishes, HubFresh, Running
  <1>6. QED  BY <1>3, <1>4, <1>5

LEMMA HandlerKeepsFresh ==
  ASSUME Core, NEW i \in Ids, HandlerTakes(i) \/ HandlerLeaves(i) \/ HandlerFinishes(i)
  PROVE  Fresh'
  <1>1. TypeOK /\ HandlersOK  BY TypeParts DEF Core
  <1>2. UNCHANGED <<scan, manager>>
    BY DEF HandlerTakes, HandlerLeaves, HandlerFinishes, scanning
  <1>3. /\ i \in DOMAIN handler /\ DOMAIN handler' = DOMAIN handler
        /\ \A j \in DOMAIN handler : j # i => handler'[j] = handler[j]
    <2>1. i \in DOMAIN handler
      BY DEF HandlerTakes, HandlerLeaves, HandlerFinishes, Running
    <2>2. QED  BY <1>1, <2>1, TakeChanges, LeaveChanges, FinishChanges
  <1>4. \A j \in DOMAIN handler : j # i =>
          (ScanFresh(j) => ScanFresh(j)') /\ (HubFresh(j) => HubFresh(j)')
    BY <1>3 DEF ScanFresh, HubFresh, Running
  <1>5. ASSUME scan.spawned = i PROVE ScanFresh(i)'
    <2>1. ScanFresh(i)  BY <1>5 DEF Core, Fresh
    <2>2. CASE HandlerTakes(i)
      <3> DEFINE q == handler[i].queue
      <3>1. /\ q \in Seq(LinkKinds) /\ q # << >>
        BY <1>1, <1>3, <2>2, HandlerIds, TakeChanges DEF HandlerState
      <3>2. /\ Head(q) = q[1] /\ 1 \in DOMAIN q
            /\ \A k \in DOMAIN Tail(q) : k + 1 \in DOMAIN q /\ Tail(q)[k] = q[k + 1]
        BY <3>1, HeadTailProperties, LenProperties
      <3>3. Head(q) # "RemoveControlDevice" /\ handler[i].control
        BY <2>1, <3>2 DEF ScanFresh
      <3>4. /\ handler'[i].phase = "running" /\ handler'[i].control
            /\ handler'[i].seen = handler[i].seen /\ handler'[i].queue = Tail(q)
        BY <1>1, <1>3, <2>2, <3>3, TakeChanges
      <3>5. QED  BY <1>3, <2>1, <3>2, <3>4 DEF ScanFresh, Running
    <2>3. ~HandlerLeaves(i)
      BY <1>5, <2>1 DEF HandlerLeaves, ScanFresh, Open
    <2>4. ~HandlerFinishes(i)  BY <2>1 DEF HandlerFinishes, ScanFresh, Running
    <2>5. QED  BY <2>2, <2>3, <2>4
  <1>6. \A h \in Hubs : manager[h].spawned # i  BY FreshWaits
  <1>7. ASSUME NEW j \in DOMAIN handler, scan.spawned = j PROVE ScanFresh(j)'
    <2>1. ScanFresh(j)  BY <1>7, HandlersInUse DEF Core, Fresh
    <2>2. QED  BY <1>4, <1>5, <1>7, <2>1
  <1>8. ASSUME NEW j \in DOMAIN handler, NEW h \in Hubs, manager[h].spawned = j
        PROVE  HubFresh(j)'
    <2>1. HubFresh(j) /\ j # i  BY <1>6, <1>8, HandlersInUse DEF Core, Fresh
    <2>2. QED  BY <1>4, <2>1
  <1>9. QED  BY <1>2, <1>7, <1>8, FreshKept

\* What is forwarded is not yet the Connect of a handler being registered.
LEMMA ForwardKeepsFresh == Core /\ Forward => Fresh'
  <1> SUFFICES ASSUME Core, Forward PROVE Fresh'  OBVIOUS
  <1>1. UNCHANGED <<scan, manager>>  BY DEF Forward, scanning
  <1>2. /\ DOMAIN handler' = DOMAIN handler
        /\ \A j \in DOMAIN handler :
             /\ handler'[j].phase = handler[j].phase
             /\ handler'[j].queue = handler[j].queue
             /\ handler'[j].control = handler[j].control
             /\ handler'[j].events = handler[j].events
             /\ ~(channel[1].kind = "Connect" /\ channel[1].by = j) =>
                  handler'[j].seen = handler[j].seen
    BY ForwardChanges
  <1>3. ASSUME NEW j \in DOMAIN handler, scan.spawned = j PROVE ScanFresh(j)'
    <2>1. ScanFresh(j) /\ NotOut(j)
      BY <1>3, HandlersInUse DEF Core, Fresh, Unconnected
    <2>2. 1 \in DOMAIN channel
      BY TypeParts, ForwardShifts DEF Core, Forward
    <2>3. ~(channel[1].kind = "Connect" /\ channel[1].by = j)  BY <2>1, <2>2 DEF NotOut
    <2>4. QED  BY <1>2, <2>1, <2>3 DEF ScanFresh, Running
  <1>4. ASSUME NEW j \in DOMAIN handler, NEW h \in Hubs, manager[h].spawned = j
        PROVE  HubFresh(j)'
    <2>1. HubFresh(j)  BY <1>4, HandlersInUse DEF Core, Fresh
    <2>2. QED  BY <1>2, <2>1 DEF HubFresh, Running
  <1>5. QED  BY <1>1, <1>3, <1>4, FreshKept


(***************************************************************************)
(* What the scan and the managers do to the handlers and the channel.      *)
(***************************************************************************)
\* Handlers stay, in their phase; there may be a new one.
LEMMA ScanHandlers ==
  ASSUME Core, ScanStep
  PROVE  /\ HandlersOK' /\ DOMAIN handler \subseteq DOMAIN handler'
         /\ \A j \in DOMAIN handler : /\ handler'[j].phase = handler[j].phase
                                      /\ handler'[j].control = handler[j].control
                                      /\ handler'[j].events = handler[j].events
                                      /\ handler'[j].seen = handler[j].seen
  <1>1. HandlersOK /\ scan \in ScanState  BY TypeParts DEF Core, TypeOK
  <1>2. CASE ScanChecks
    <2>1. Spawn(TRUE, scan.events) \/ UNCHANGED handler  BY <1>2 DEF ScanChecks
    <2>2. scan.events \in Sources  BY <1>1 DEF ScanState
    <2>3. QED  BY <1>1, <2>1, <2>2, SpawnAppends DEF HandlersOK
  <1>3. CASE ScanMerges \/ ScanTellsGone
    <2>1. scan.pc \in {"merge", "gone"} /\ \E kind \in LinkKinds : SendTo(device_handles, kind)
      BY <1>3 DEF ScanMerges, ScanTellsGone, At, LinkKinds
    <2>2. device_handles \in DOMAIN handler
      BY <2>1, RegistryParameters, HandlersInUse DEF Core, LockOwners
    <2>3. QED  BY <1>1, <2>1, <2>2, SendChanges
  <1>4. CASE ~(ScanChecks \/ ScanMerges \/ ScanTellsGone)
    <2>1. UNCHANGED handler
      BY <1>4
      DEF ScanStep, ScanLists, ScanCleans, ScanVisitsHub, ScanProbes, ScanProbeFails,
          ScanSurfacesDfu, ScanInserts, ScanConnects, ScanReconciles, ScanReconcilesDfu
    <2>2. QED  BY <1>1, <2>1 DEF HandlersOK
  <1>5. QED  BY <1>2, <1>3, <1>4

LEMMA HubHandlers ==
  ASSUME Core, NEW h \in Hubs, HubStep(h)
  PROVE  /\ HandlersOK' /\ DOMAIN handler \subseteq DOMAIN handler'
         /\ \A j \in DOMAIN handler : /\ handler'[j].phase = handler[j].phase
                                      /\ handler'[j].control = handler[j].control
                                      /\ handler'[j].events = handler[j].events
                                      /\ handler'[j].seen = handler[j].seen
  <1>1. HandlersOK /\ h # None  BY TypeParts, RegistryParameters DEF Core
  <1>2. CASE HubChecks(h)
    <2>1. Spawn(FALSE, "none") \/ UNCHANGED handler  BY <1>2 DEF HubChecks
    <2>2. QED  BY <1>1, <2>1, SpawnAppends DEF HandlersOK, Sources
  <1>3. ASSUME NEW i \in DOMAIN handler, NEW kind \in LinkKinds, SendTo(i, kind)
        PROVE  /\ HandlersOK' /\ DOMAIN handler \subseteq DOMAIN handler'
               /\ \A j \in DOMAIN handler : /\ handler'[j].phase = handler[j].phase
                                            /\ handler'[j].control = handler[j].control
                                            /\ handler'[j].events = handler[j].events
                                            /\ handler'[j].seen = handler[j].seen
    BY <1>1, <1>3, SendChanges
  <1>4. CASE HubMerges(h) \/ HubDetaches(h) \/ HubSaysBye(h)
    <2>1. /\ manager[h].pc \in Locking
          /\ \E kind \in LinkKinds : SendTo(device_handles, kind)
      BY <1>4 DEF HubMerges, HubDetaches, HubSaysBye, Tell, Managing, Locking, LinkKinds
    <2>2. device_handles \in DOMAIN handler
      BY <1>1, <2>1, HandlersInUse DEF Core, LockOwners
    <2>3. QED  BY <1>3, <2>1, <2>2
  <1>5. CASE HubQueues(h)
    <2>1. manager[h].spawned \in DOMAIN handler
      BY <1>5, HandlersInUse DEF HubQueues, Managing, Core, Spawns
    <2>2. SendTo(manager[h].spawned, "AddEventsDevice") /\ "AddEventsDevice" \in LinkKinds
      BY <1>5 DEF HubQueues, LinkKinds
    <2>3. QED  BY <1>3, <2>1, <2>2
  <1>6. CASE \/ HubStarts(h) \/ HubFindsDevice(h) \/ HubInserts(h) \/ HubConnects(h)
             \/ HubLosesDevice(h) \/ HubUpdates(h) \/ HubFails(h) \/ HubCleansUp(h)
    <2>1. UNCHANGED handler
      BY <1>6 DEF HubStarts, HubFindsDevice, HubInserts, HubConnects, HubLosesDevice,
                  HubUpdates, HubFails, HubCleansUp
    <2>2. QED  BY <1>1, <2>1 DEF HandlersOK
  <1>7. QED  BY <1>2, <1>4, <1>5, <1>6 DEF HubStep

\* The scan speaks of the DFU entry, or announces the handler it registers,
\* with control.
LEMMA ScanSends ==
  ASSUME Core, ScanStep
  PROVE  /\ UNCHANGED lists
         /\ \/ UNCHANGED channel
            \/ \E m \in Message :
                 /\ Post(m)
                 /\ \/ m.by = Dfu /\ m.kind \in {"Connect", "Disconnect"}
                    \/ /\ m.kind = "Connect" /\ m.by = scan.spawned /\ m.control = TRUE
                       /\ m.events = scan.events
                       /\ scan.pc = "connect" /\ scan'.spawned = None
                       /\ UNCHANGED <<manager, handler>>
  <1>1. UNCHANGED lists
    BY DEF ScanStep, ScanLists, ScanCleans, ScanVisitsHub, ScanProbes, ScanProbeFails,
           ScanSurfacesDfu, ScanChecks, ScanMerges, ScanInserts, ScanConnects,
           ScanReconciles, ScanTellsGone, ScanReconcilesDfu, lists
  <1>2. CASE ScanSurfacesDfu
    BY <1>1, <1>2, SentByTasks DEF ScanSurfacesDfu
  <1>3. CASE ScanReconcilesDfu
    BY <1>1, <1>3, SentByTasks DEF ScanReconcilesDfu
  <1>4. CASE ScanConnects
    <2> DEFINE m == [kind |-> "Connect", by |-> scan.spawned, control |-> TRUE,
                     events |-> scan.events]
    <2>1. scan.pc = "connect" /\ Post(m) /\ UNCHANGED <<manager, handler>>
      BY <1>4 DEF ScanConnects, At
    <2>2. m \in Message  BY <2>1, SentByTasks
    <2>3. /\ m.kind = "Connect" /\ m.by = scan.spawned /\ m.control = TRUE
          /\ m.events = scan.events
      OBVIOUS
    <2> HIDE DEF m
    <2>4. scan'.spawned = None
      <3>1. scan \in ScanState  BY DEF Core, TypeOK
      <3>2. QED  BY <1>4, <3>1 DEF ScanConnects, ScanState
    <2>5. QED  BY <1>1, <2>1, <2>2, <2>3, <2>4
  <1>5. CASE ~(ScanSurfacesDfu \/ ScanReconcilesDfu \/ ScanConnects)
    <2>1. UNCHANGED channel
      BY <1>5
      DEF ScanStep, ScanLists, ScanCleans, ScanVisitsHub, ScanProbes, ScanProbeFails,
          ScanChecks, ScanMerges, ScanInserts, ScanReconciles, ScanTellsGone
    <2>2. QED  BY <1>1, <2>1
  <1>6. QED  BY <1>2, <1>3, <1>4, <1>5

\* A manager speaks of its dongle, or announces the handler it registers.
LEMMA HubSends ==
  ASSUME Core, NEW h \in Hubs, HubStep(h)
  PROVE  \/ UNCHANGED channel
         \/ \E m \in Message :
              /\ Post(m)
              /\ \/ m.by = h /\ m.kind \in {"DongleConnect", "DongleUpdate",
                                            "DongleDisconnect"}
                 \/ /\ m.kind = "Connect" /\ m.by = manager[h].spawned
                    /\ m.control = FALSE /\ m.events = "none"
                    /\ manager[h].pc = "connect" /\ UNCHANGED handler
  <1>1. CASE HubStarts(h)  BY <1>1, SentByTasks DEF HubStarts
  <1>2. CASE HubUpdates(h)  BY <1>2, SentByTasks DEF HubUpdates
  <1>3. CASE HubFails(h)  BY <1>3, SentByTasks DEF HubFails
  <1>4. CASE HubConnects(h)
    <2> DEFINE m == [kind |-> "Connect", by |-> manager[h].spawned, control |-> FALSE,
                     events |-> "none"]
    <2>1. manager[h].pc = "connect" /\ Post(m) /\ UNCHANGED handler
      BY <1>4 DEF HubConnects, Managing
    <2>2. m \in Message  BY <2>1, SentByTasks
    <2>3. /\ m.kind = "Connect" /\ m.by = manager[h].spawned /\ m.control = FALSE
          /\ m.events = "none"
      OBVIOUS
    <2> HIDE DEF m
    <2>4. QED  BY <2>1, <2>2, <2>3
  <1>5. CASE ~(HubStarts(h) \/ HubUpdates(h) \/ HubFails(h) \/ HubConnects(h))
    BY <1>5
    DEF HubStep, HubFindsDevice, HubChecks, HubMerges, HubInserts, HubQueues,
        HubLosesDevice, HubDetaches, HubCleansUp, HubSaysBye, Tell
  <1>6. QED  BY <1>1, <1>2, <1>3, <1>4, <1>5

\* A handler speaks of itself.
LEMMA HandlerSends ==
  ASSUME Core, NEW i \in Ids, HandlerTakes(i) \/ HandlerLeaves(i) \/ HandlerFinishes(i)
  PROVE  /\ UNCHANGED lists
         /\ \/ UNCHANGED channel
            \/ \E m \in Message :
                 Post(m) /\ m.kind \in {"Update", "Disconnect"} /\ m.by = i
  <1>1. UNCHANGED lists  BY DEF HandlerTakes, HandlerLeaves, HandlerFinishes
  <1>2. CASE HandlerTakes(i)
    <2> DEFINE m == [kind |-> "Update", by |-> i, control |-> handler'[i].control,
                     events |-> handler'[i].events]
    <2>1. i \in DOMAIN handler  BY <1>2 DEF HandlerTakes, Running
    <2>2. (Post(m) /\ m \in Message) \/ UNCHANGED channel
      BY <1>2, <2>1, TakeChanges DEF Core
    <2>3. m.kind = "Update" /\ m.by = i  OBVIOUS
    <2> HIDE DEF m
    <2>4. QED  BY <1>1, <2>2, <2>3
  <1>3. CASE HandlerLeaves(i)  BY <1>1, <1>3 DEF HandlerLeaves
  <1>4. CASE HandlerFinishes(i)
    <2> DEFINE m == [kind |-> "Disconnect", by |-> i]
    <2>1. Post(m)  BY <1>4 DEF HandlerFinishes, SayGoodbye
    <2>2. m \in Message /\ m.kind = "Disconnect" /\ m.by = i  BY DEF Message
    <2> HIDE DEF m
    <2>3. QED  BY <1>1, <2>1, <2>2
  <1>5. QED  BY <1>2, <1>3, <1>4

(***************************************************************************)
(* What is said of a handler, and when.                                    *)
(***************************************************************************)
LEMMA KnownKept ==
  ASSUME Core, UNCHANGED device_list, DOMAIN handler \subseteq DOMAIN handler',
         \/ UNCHANGED channel
         \/ \E m \in Message :
              /\ Post(m)
              /\ m.kind \in {"Connect", "Disconnect"} => m.by \in {Dfu} \cup DOMAIN handler
              /\ m.kind = "Update" => m.by \in DOMAIN handler
  PROVE  Known'
  <1>1. CASE UNCHANGED channel  BY <1>1 DEF Core, Known
  <1>2. CASE ~UNCHANGED channel
    <2>1. PICK m \in Message :
            /\ Post(m)
            /\ m.kind \in {"Connect", "Disconnect"} => m.by \in {Dfu} \cup DOMAIN handler
            /\ m.kind = "Update" => m.by \in DOMAIN handler
      BY <1>2
    <2> DEFINE n == Len(channel) + 1
    <2>2. /\ DOMAIN channel' = DOMAIN channel \cup {n} /\ channel'[n] = m
          /\ \A k \in DOMAIN channel : channel'[k] = channel[k]
      BY <2>1, TypeParts, PostAppends DEF Core
    <2> HIDE DEF n
    <2>3. QED  BY <2>1, <2>2 DEF Core, Known
  <1>3. QED  BY <1>1, <1>2

\* Whose Connect or Update is posted is not, or no longer, to be announced.
LEMMA UnconnectedKept ==
  ASSUME Core, UNCHANGED device_list,
         \A i \in DOMAIN handler : scan'.spawned = i => scan.spawned = i,
         \A i \in DOMAIN handler, h \in Hubs :
           manager'[h].spawned = i /\ manager'[h].pc # "queue" =>
             manager[h].spawned = i /\ manager[h].pc # "queue",
         \/ UNCHANGED channel
         \/ \E m \in Message :
              /\ Post(m)
              /\ m.kind = "Connect" => m.by # scan'.spawned
              /\ m.kind \in {"Connect", "Update"} =>
                   \A h \in Hubs : m.by = manager'[h].spawned => manager'[h].pc = "queue"
              /\ m.kind \in {"Connect", "Update"} => m.by \in {Dfu} \cup DOMAIN handler
  PROVE  Unconnected'
  <1>1. \A i \in Ids : i \notin DOMAIN handler => NotOut(i) /\ NoUpdate(i)
    BY HandlersInUse DEF Core, Known, NotOut, NoUpdate
  <1>2. /\ \A i \in Ids : scan'.spawned = i => NotOut(i)
        /\ \A i \in Ids, h \in Hubs :
             manager'[h].spawned = i /\ manager'[h].pc # "queue" => NotOut(i) /\ NoUpdate(i)
    BY <1>1 DEF Core, Unconnected
  <1>3. CASE UNCHANGED channel  BY <1>2, <1>3 DEF Unconnected, NotOut, NoUpdate
  <1>4. CASE ~UNCHANGED channel
    <2>1. PICK m \in Message :
            /\ Post(m)
            /\ m.kind = "Connect" => m.by # scan'.spawned
            /\ m.kind \in {"Connect", "Update"} =>
                 \A h \in Hubs : m.by = manager'[h].spawned => manager'[h].pc = "queue"
      BY <1>4
    <2> DEFINE n == Len(channel) + 1
    <2>2. /\ DOMAIN channel' = DOMAIN channel \cup {n} /\ channel'[n] = m
          /\ \A k \in DOMAIN channel : channel'[k] = channel[k]
      BY <2>1, TypeParts, PostAppends DEF Core
    <2> HIDE DEF n
    <2>3. ASSUME NEW i \in Ids
          PROVE  /\ NotOut(i) /\ ~(m.kind = "Connect" /\ m.by = i) => NotOut(i)'
                 /\ NoUpdate(i) /\ ~(m.kind = "Update" /\ m.by = i) => NoUpdate(i)'
      BY <2>2 DEF NotOut, NoUpdate
    <2>4. QED  BY <1>2, <2>1, <2>3 DEF Unconnected
  <1>5. QED  BY <1>3, <1>4

LEMMA ScanSaysKnown == Core /\ ScanStep => Known' /\ Unconnected'
  <1> SUFFICES ASSUME Core, ScanStep PROVE Known' /\ Unconnected'  OBVIOUS
  <1>1. /\ scan \in ScanState /\ manager \in [Hubs -> ManagerState] /\ TypeOK
        /\ HandlersOK /\ None \notin DOMAIN handler /\ None \notin Ids
        /\ Dfu \notin DOMAIN handler
    BY TypeParts, HandlersInUse DEF Core, TypeOK
  <1>2. UNCHANGED device_list  BY ScanSends DEF lists
  <1>3. DOMAIN handler \subseteq DOMAIN handler'  BY ScanHandlers
  \* No step of the scan begins a registration by a dongle.
  <1>4. \A i \in DOMAIN handler, h \in Hubs :
          manager'[h].spawned = i =>
            manager[h].spawned = i /\ manager'[h].pc = manager[h].pc
    <2>1. CASE ScanLists
      BY <1>1, <2>1 DEF ScanLists, AbortManagers, NoManager
    <2>2. ASSUME NEW h \in Hubs, ScanVisitsHub(h)
          PROVE  \A i \in DOMAIN handler, g \in Hubs :
                   manager'[g].spawned = i =>
                     manager[g].spawned = i /\ manager'[g].pc = manager[g].pc
      BY <1>1, <2>2 DEF ScanVisitsHub, NoManager
    <2>3. CASE ~(ScanLists \/ \E h \in Hubs : ScanVisitsHub(h))
      BY <2>3
      DEF ScanStep, ScanCleans, ScanProbes, ScanProbeFails, ScanSurfacesDfu, ScanChecks,
          ScanMerges, ScanInserts, ScanConnects, ScanReconciles, ScanTellsGone,
          ScanReconcilesDfu
    <2>4. QED  BY <2>1, <2>2, <2>3
  <1>5. \A i \in DOMAIN handler : scan'.spawned = i => scan.spawned = i
    <2>1. CASE ScanChecks
      <3>1. scan'.spawned \in {scan.spawned, Len(handler) + 1}
        BY <1>1, <2>1 DEF ScanChecks, ScanState
      <3>2. Len(handler) + 1 \notin DOMAIN handler  BY <1>1, HandlerIds
      <3>3. QED  BY <3>1, <3>2
    <2>2. CASE ScanLists \/ ScanReconcilesDfu
      <3>1. scan'.spawned = None
        <4>1. ScanLists => scan'.spawned = None  BY DEF ScanLists, IdleScan
        <4>2. ScanReconcilesDfu => scan'.spawned = None
          BY DEF ScanReconcilesDfu, IdleScan
        <4>3. QED  BY <2>2, <4>1, <4>2
      <3>2. QED  BY <1>1, <3>1
    <2>3. CASE ScanConnects
      <3>1. scan'.spawned = None  BY <1>1, <2>3 DEF ScanConnects, ScanState
      <3>2. QED  BY <1>1, <3>1
    <2>4. CASE ~(ScanChecks \/ ScanLists \/ ScanReconcilesDfu \/ ScanConnects)
      <3>1. scan'.spawned = scan.spawned
        BY <1>1, <2>4
        DEF ScanStep, ScanCleans, ScanVisitsHub, ScanProbes, ScanProbeFails,
            ScanSurfacesDfu, ScanMerges, ScanInserts, ScanReconciles, ScanTellsGone,
            ScanState
      <3>2. QED  BY <3>1
    <2>5. QED  BY <2>1, <2>2, <2>3, <2>4
  <1>6. CASE UNCHANGED channel
    BY <1>2, <1>3, <1>4, <1>5, <1>6, KnownKept, UnconnectedKept
  <1>7. ASSUME NEW m \in Message, Post(m), m.by = Dfu, m.kind \in {"Connect", "Disconnect"}
        PROVE  Known' /\ Unconnected'
    <2>1. m.by # scan'.spawned /\ \A h \in Hubs : m.by # manager'[h].spawned
      <3>1. /\ scan' \in ScanState /\ manager' \in [Hubs -> ManagerState]
        BY ScanType DEF TypeOK
      <3>2. scan'.spawned \in Ids \cup {None}  BY <3>1 DEF ScanState
      <3>3. \A h \in Hubs : manager'[h].spawned \in Ids \cup {None}
        BY <3>1 DEF ManagerState
      <3>4. Dfu \notin Ids \cup {None}  BY HandlersInUse, RegistryParameters
      <3>5. QED  BY <1>7, <3>2, <3>3, <3>4
    <2>2. Known'  BY <1>2, <1>3, <1>7, KnownKept
    <2>3. Unconnected'  BY <1>2, <1>4, <1>5, <1>7, <2>1, UnconnectedKept
    <2>4. QED  BY <2>2, <2>3
  <1>8. ASSUME NEW m \in Message, Post(m), m.kind = "Connect", m.by = scan.spawned,
               scan.pc = "connect", scan'.spawned = None, UNCHANGED <<manager, handler>>
        PROVE  Known' /\ Unconnected'
    <2>1. scan.spawned \in DOMAIN handler /\ scan.spawned \in Ids
      BY <1>8, HandlersInUse DEF Core, Spawns
    <2>2. \A h \in Hubs : manager'[h].spawned # scan.spawned
      BY <1>8, <2>1 DEF Core, Spawns
    <2>3. Known'  BY <1>2, <1>3, <1>8, <2>1, KnownKept
    <2>4. Unconnected'
      BY <1>1, <1>2, <1>4, <1>5, <1>8, <2>1, <2>2, UnconnectedKept
    <2>5. QED  BY <2>3, <2>4
  <1>9. QED  BY <1>6, <1>7, <1>8, ScanSends

LEMMA HubSaysKnown ==
  ASSUME Core, NEW h \in Hubs, HubStep(h)
  PROVE  Known' /\ Unconnected'
  <1>1. /\ manager \in [Hubs -> ManagerState] /\ TypeOK /\ HandlersOK
        /\ UNCHANGED <<scan, device_list>>
        /\ \A g \in Hubs : g # h => manager'[g] = manager[g]
        /\ h # None /\ None \notin DOMAIN handler /\ Dfu \notin DOMAIN handler
    BY ManagerMoves, TypeParts, HandlersInUse, RegistryParameters
    DEF Core, TypeOK, scanning, lists
  <1>2. manager[h].pc \in Locking => device_handles \in DOMAIN handler
    BY <1>1, HandlersInUse DEF Core, LockOwners
  \* The next place in the channel after the step, and the new manager.
  <1>3. ASSUME DOMAIN handler \subseteq DOMAIN handler',
               manager'[h].spawned = manager[h].spawned \/ manager'[h].spawned \notin DOMAIN handler,
               manager'[h].pc # "queue" /\ manager'[h].spawned = manager[h].spawned
                 /\ manager[h].spawned \in DOMAIN handler =>
                   manager[h].pc # "queue",
               \/ UNCHANGED channel
               \/ \E m \in Message :
                    /\ Post(m)
                    /\ \/ m.kind \notin {"Connect", "Update", "Disconnect"}
                       \/ /\ m.kind = "Connect" /\ m.by = manager[h].spawned
                          /\ manager[h].spawned \in DOMAIN handler
                          /\ manager'[h].pc = "queue"
        PROVE  Known' /\ Unconnected'
    <2>1. /\ \A i \in DOMAIN handler : scan'.spawned = i => scan.spawned = i
          /\ \A i \in DOMAIN handler, g \in Hubs :
               manager'[g].spawned = i /\ manager'[g].pc # "queue" =>
                 manager[g].spawned = i /\ manager[g].pc # "queue"
      BY <1>1, <1>3
    <2>2. CASE UNCHANGED channel
      BY <1>1, <1>3, <2>1, <2>2, KnownKept, UnconnectedKept
    <2>3. ASSUME NEW m \in Message, Post(m),
                 m.kind \notin {"Connect", "Update", "Disconnect"}
          PROVE  Known' /\ Unconnected'
      <3>1. Known'  BY <1>1, <1>3, <2>3, KnownKept
      <3>2. Unconnected'  BY <1>1, <2>1, <2>3, UnconnectedKept
      <3>3. QED  BY <3>1, <3>2
    <2>4. ASSUME NEW m \in Message, Post(m),
                 m.kind = "Connect", m.by = manager[h].spawned,
                 manager[h].spawned \in DOMAIN handler, manager'[h].pc = "queue"
          PROVE  Known' /\ Unconnected'
      <3>1. Known'  BY <1>1, <1>3, <2>4, KnownKept
      <3>2. manager[h].spawned \in Ids  BY <2>4, TypeParts, HandlerIds DEF Core
      <3>3. m.by # scan'.spawned /\ \A g \in Hubs \ {h} : manager'[g].spawned # m.by
        BY <1>1, <2>4, <3>2 DEF Core, Spawns
      <3>4. Unconnected'  BY <1>1, <2>1, <2>4, <3>3, UnconnectedKept
      <3>5. QED  BY <3>1, <3>4
    <2>5. QED  BY <1>3, <2>2, <2>3, <2>4
  <1>4. \A at : Goto(h, at) => manager'[h].pc = at /\ manager'[h].spawned = manager[h].spawned
    BY <1>1 DEF Goto, ManagerState
  <1>5. ASSUME NEW m \in Message, Post(m), NEW at, Goto(h, at), UNCHANGED handler,
               m.kind \in {"DongleConnect", "DongleUpdate", "DongleDisconnect"},
               manager[h].pc # "queue"
        PROVE  Known' /\ Unconnected'
    BY <1>3, <1>4, <1>5
  <1>6. CASE HubStarts(h)
    BY <1>5, <1>6, SentByTasks DEF HubStarts, Managing
  <1>7. CASE HubUpdates(h)
    BY <1>5, <1>7, SentByTasks DEF HubUpdates, Managing
  <1>8. CASE HubFails(h)
    BY <1>5, <1>8, SentByTasks DEF HubFails, Managing
  <1>9. CASE HubConnects(h)
    <2> DEFINE m == [kind |-> "Connect", by |-> manager[h].spawned, control |-> FALSE,
                     events |-> "none"]
    <2>1. manager[h].pc = "connect" /\ Post(m) /\ Goto(h, "queue") /\ UNCHANGED handler
      BY <1>9 DEF HubConnects, Managing
    <2>2. m \in Message  BY <2>1, SentByTasks
    <2>3. m.by = manager[h].spawned /\ m.kind = "Connect"  OBVIOUS
    <2> HIDE DEF m
    <2>4. manager[h].spawned \in DOMAIN handler
      BY <2>1, HandlersInUse DEF Core, Spawns
    <2>5. QED  BY <1>3, <1>4, <2>1, <2>2, <2>3, <2>4
  \* What a send to the handler changes.
  <1>10. ASSUME NEW i \in DOMAIN handler, NEW kind \in LinkKinds, SendTo(i, kind),
                UNCHANGED channel, manager[h].pc # "queue" \/ manager'[h].spawned = None,
                manager'[h].spawned \in {manager[h].spawned, None}
         PROVE  Known' /\ Unconnected'
    <2>1. DOMAIN handler' = DOMAIN handler  BY <1>1, <1>10, SendChanges
    <2>2. QED  BY <1>1, <1>3, <1>10, <2>1
  <1>11. CASE HubMerges(h)
    <2>1. manager[h].pc = "merge" /\ manager'[h].spawned = manager[h].spawned
      BY <1>1, <1>11 DEF HubMerges, Managing, ManagerState
    <2>2. QED  BY <1>2, <1>10, <1>11, <2>1 DEF HubMerges, LinkKinds, Locking
  <1>12. CASE HubQueues(h)
    <2>1. manager[h].pc = "queue" /\ manager'[h].spawned = None
      BY <1>1, <1>12 DEF HubQueues, Managing, ManagerState
    <2>2. manager[h].spawned \in DOMAIN handler
      BY <2>1, HandlersInUse DEF Core, Spawns
    <2>3. QED  BY <1>10, <1>12, <2>1, <2>2 DEF HubQueues, LinkKinds
  <1>13. ASSUME NEW telling \in {"detach", "bye"}, NEW then, Tell(h, telling, then)
         PROVE  Known' /\ Unconnected'
    BY <1>2, <1>4, <1>10, <1>13 DEF Tell, Managing, LinkKinds, Locking
  <1>14. CASE HubDetaches(h) \/ HubSaysBye(h)
    BY <1>13, <1>14 DEF HubDetaches, HubSaysBye
  \* What sends nothing.
  <1>15. CASE HubFindsDevice(h)
    BY <1>3, <1>4, <1>15 DEF HubFindsDevice, Managing
  <1>16. CASE HubChecks(h)
    <2>1. CASE Evicted # None
      BY <1>3, <1>4, <1>16, <2>1 DEF HubChecks, Managing
    <2>2. CASE Evicted = None
      <3>1. manager' = [manager EXCEPT
              ![h] = [@ EXCEPT !.pc = "spawned", !.spawned = Len(handler) + 1]]
        BY <1>1, <1>16, <2>2 DEF HubChecks
      <3>2. manager'[h].spawned = Len(handler) + 1  BY <1>1, <3>1 DEF ManagerState
      <3>3. /\ Len(handler) + 1 \notin DOMAIN handler
            /\ DOMAIN handler \subseteq DOMAIN handler'
        BY <1>1, <1>16, <2>2, SpawnAppends DEF HubChecks, Sources
      <3>4. UNCHANGED channel /\ manager[h].pc # "queue"
        BY <1>16 DEF HubChecks, Managing
      <3>5. QED  BY <1>3, <3>2, <3>3, <3>4
    <2>3. QED  BY <2>1, <2>2
  <1>17. CASE HubInserts(h)
    <2>1. /\ manager[h].pc = "spawned" /\ manager'[h].spawned = manager[h].spawned
          /\ UNCHANGED <<channel, handler>>
      BY <1>1, <1>17 DEF HubInserts, Managing, ManagerState
    <2>2. QED  BY <1>3, <2>1
  <1>18. CASE HubLosesDevice(h) \/ HubCleansUp(h)
    <2>1. /\ manager[h].pc # "queue" /\ manager'[h].spawned = manager[h].spawned
          /\ UNCHANGED <<channel, handler>>
      BY <1>1, <1>18
      DEF HubLosesDevice, HubCleansUp, Drop, Goto, Managing, ManagerState
    <2>2. QED  BY <1>3, <2>1
  <1>19. QED
    BY <1>6, <1>7, <1>8, <1>9, <1>11, <1>12, <1>14, <1>15, <1>16, <1>17, <1>18
    DEF HubStep

LEMMA HandlerSaysKnown ==
  ASSUME Core, NEW i \in Ids, HandlerTakes(i) \/ HandlerLeaves(i) \/ HandlerFinishes(i)
  PROVE  Known' /\ Unconnected'
  <1>1. UNCHANGED <<scan, manager, device_list>>
    BY DEF HandlerTakes, HandlerLeaves, HandlerFinishes, scanning, lists
  <1>2. i \in DOMAIN handler
    BY DEF HandlerTakes, HandlerLeaves, HandlerFinishes, Running
  <1>3. DOMAIN handler' = DOMAIN handler
    BY <1>2, TakeChanges, LeaveChanges, FinishChanges DEF Core
  <1>4. \/ UNCHANGED channel
        \/ \E m \in Message : Post(m) /\ m.kind \in {"Update", "Disconnect"} /\ m.by = i
    BY HandlerSends
  <1>5. \A h \in Hubs : manager'[h].spawned # i  BY <1>1, FreshWaits
  <1>6. Known'  BY <1>1, <1>2, <1>3, <1>4, KnownKept
  <1>7. Unconnected'  BY <1>1, <1>2, <1>4, <1>5, UnconnectedKept
  <1>8. QED  BY <1>6, <1>7

\* The new entry is that of the Connect, or has the handler of the old one.
LEMMA ForwardLists ==
  ASSUME Core, Forward
  PROVE  \/ device_list' = None
         \/ channel[1].kind = "Connect" /\ device_list'.commands = channel[1].by
         \/ /\ channel[1].kind # "Disconnect" /\ device_list # None
            /\ device_list'.commands = device_list.commands
  <1> DEFINE m == channel[1]
  <1>1. Head(channel) = m  BY TypeParts, ForwardShifts DEF Core, Forward
  <1>2. device_list \in Entry \cup {None}  BY DEF Core, TypeOK
  <1>3. CASE m.kind = "Connect"
    <2>1. device_list' = Listed(m)  BY <1>1, <1>3 DEF Forward
    <2>2. QED  BY <1>3, <2>1 DEF Listed
  <1>4. CASE m.kind = "Update"
    <2>1. device_list' = Updated(m)  BY <1>1, <1>4 DEF Forward
    <2>2. QED  BY <1>2, <1>4, <2>1 DEF Updated, Entry
  <1>5. CASE m.kind \notin {"Connect", "Update"}
    BY <1>1, <1>5 DEF Forward
  <1>6. QED  BY <1>3, <1>4, <1>5

\* Forwarding puts nothing into the channel, and lists nobody but who was
\* announced.
LEMMA ForwardAddsNone ==
  ASSUME Core, Forward, NEW i
  PROVE  (NotOut(i) => NotOut(i)') /\ (NoUpdate(i) => NoUpdate(i)')
  <1>1. /\ 1 \in DOMAIN channel
        /\ \A k \in DOMAIN channel' : k + 1 \in DOMAIN channel
                                      /\ channel'[k] = channel[k + 1]
    BY TypeParts, ForwardShifts DEF Core, Forward
  <1>2. QED  BY <1>1, ForwardLists DEF NotOut, NoUpdate

LEMMA ForwardSaysKnown == Core /\ Forward => Known' /\ Unconnected'
  <1> SUFFICES ASSUME Core, Forward PROVE Known' /\ Unconnected'  OBVIOUS
  <1>1. UNCHANGED <<scan, manager>>  BY DEF Forward, scanning
  <1>2. /\ 1 \in DOMAIN channel
        /\ \A k \in DOMAIN channel' : k + 1 \in DOMAIN channel
                                      /\ channel'[k] = channel[k + 1]
    BY TypeParts, ForwardShifts DEF Core, Forward
  <1>3. DOMAIN handler' = DOMAIN handler  BY ForwardChanges
  <1>4. Known'
    <2>1. \A k \in DOMAIN channel :
            /\ channel[k].kind \in {"Connect", "Disconnect"} =>
                 channel[k].by \in {Dfu} \cup DOMAIN handler
            /\ channel[k].kind = "Update" => channel[k].by \in DOMAIN handler
      BY DEF Core, Known
    <2>2. device_list # None => device_list.commands \in {Dfu} \cup DOMAIN handler
      BY DEF Core, Known
    <2>3. device_list' # None => device_list'.commands \in {Dfu} \cup DOMAIN handler
      BY <1>2, <2>1, <2>2, ForwardLists
    <2>4. QED  BY <1>2, <1>3, <2>1, <2>3 DEF Known
  <1>5. Unconnected'  BY <1>1, ForwardAddsNone DEF Core, Unconnected
  <1>6. QED  BY <1>4, <1>5

(***************************************************************************)
(* The core holds.                                                         *)
(***************************************************************************)
\* The device and the dongles change nothing but themselves.
LEMMA SurroundingsLeave ==
  Surroundings => UNCHANGED <<scanning, manager, tables, handler, channel, lists>>
  BY DEF Surroundings, PlugDevice, UnplugDevice, SwitchDfu, PlugHub, UnplugHub,
         ReachHub, Change

LEMMA SurroundingsKeepCore == Core /\ Surroundings => Core'
  <1> SUFFICES ASSUME Core, Surroundings PROVE Core'  OBVIOUS
  <1>1. UNCHANGED <<scanning, manager, tables, handler, channel, lists>>
    BY SurroundingsLeave
  <1>2. TypeOK'  BY SurroundingsType DEF Core
  <1>3. usb' = usb \/ usb' = NoPort \/ usb'.id \in UsbIds
    BY DEF Surroundings, PlugDevice, UnplugDevice, SwitchDfu, PlugHub, UnplugHub, ReachHub
  <1>4. Visited'  BY <1>1, <1>3 DEF Core, Visited, scanning, NoPort
  <1>5. LockOwners' /\ Known' /\ Spawns'
    BY <1>1 DEF Core, LockOwners, Known, Spawns, scanning, tables, lists
  <1>6. Fresh' /\ Unconnected'
    BY <1>1 DEF Core, Fresh, ScanFresh, HubFresh, Running, Unconnected, NotOut, NoUpdate,
                scanning, lists
  <1>7. QED  BY <1>2, <1>4, <1>5, <1>6 DEF Core

LEMMA ScanKeepsVisited == Core /\ ScanStep => Visited'
  <1> SUFFICES ASSUME Core, ScanStep PROVE Visited'  OBVIOUS
  <1>1. scan \in ScanState /\ Visited  BY DEF Core, TypeOK
  <1>2. UNCHANGED usb
    BY DEF ScanStep, ScanLists, ScanCleans, ScanVisitsHub, ScanProbes, ScanProbeFails,
           ScanSurfacesDfu, ScanChecks, ScanMerges, ScanInserts, ScanConnects,
           ScanReconciles, ScanTellsGone, ScanReconcilesDfu, surroundings
  <1>3. CASE ScanLists
    <2>1. scan'.port = usb /\ (scan'.visit => usb # NoPort)
      BY <1>3 DEF ScanLists, IdleScan
    <2>2. QED  BY <1>1, <1>2, <2>1 DEF Visited
  <1>4. CASE ScanReconcilesDfu
    <2>1. ~scan'.visit  BY <1>4 DEF ScanReconcilesDfu, IdleScan
    <2>2. QED  BY <1>1, <1>2, <2>1 DEF Visited
  <1>5. ASSUME scan'.port = scan.port, scan'.visit => scan.visit
        PROVE  Visited'
    BY <1>1, <1>2, <1>5 DEF Visited
  <1>6. CASE \/ ScanCleans \/ (\E h \in Hubs : ScanVisitsHub(h)) \/ ScanMerges
             \/ ScanInserts \/ ScanConnects \/ ScanReconciles \/ ScanTellsGone
    <2>1. scan'.port = scan.port /\ scan'.visit = scan.visit
      BY <1>1, <1>6
      DEF ScanCleans, ScanVisitsHub, ScanMerges, ScanInserts, ScanConnects,
          ScanReconciles, ScanTellsGone, ScanState
    <2>2. QED  BY <1>5, <2>1
  <1>7. CASE ScanProbes \/ ScanProbeFails \/ ScanSurfacesDfu
    <2>1. scan'.port = scan.port /\ scan'.visit = FALSE
      BY <1>1, <1>7 DEF ScanProbes, ScanProbeFails, ScanSurfacesDfu, ScanState
    <2>2. QED  BY <1>5, <2>1
  <1>8. CASE ScanChecks
    <2>1. scan'.port = scan.port /\ scan'.visit = scan.visit
      BY <1>1, <1>8 DEF ScanChecks, ScanState
    <2>2. QED  BY <1>5, <2>1
  <1>9. QED  BY <1>3, <1>4, <1>6, <1>7, <1>8 DEF ScanStep

LEMMA InitCore == Init => Core
  <1> SUFFICES ASSUME Init PROVE Core  OBVIOUS
  <1>1. /\ IdleScan \in ScanState /\ NoManager \in ManagerState /\ NoPort \in Port
        /\ IdleScan.pc = "list" /\ IdleScan.spawned = None /\ ~IdleScan.visit
        /\ NoManager.pc = "none" /\ NoManager.spawned = None
    BY DEF IdleScan, ScanState, NoManager, ManagerState, NoPort, Port, Sources
  <1>2. /\ << >> \in Seq(HandlerState) /\ << >> \in Seq(Message)
        /\ Len(<< >>) = 0 /\ DOMAIN << >> = {}
    BY EmptySeq
  <1>3. /\ ChannelCap \in Nat /\ QueueCap \in Nat /\ MaxSpawns \in Nat
        /\ MaxChanges \in Nat /\ Scan # None /\ None \notin Hubs /\ None \notin Ids
    BY RegistryParameters DEF Ids
  <1> HIDE DEF IdleScan, NoManager, NoPort
  <1>4. TypeOK
    <2>1. 0 \in 0 .. MaxChanges /\ 0 <= MaxSpawns /\ 0 <= ChannelCap  BY <1>3
    <2>2. /\ usb \in Port /\ plugged \subseteq Hubs /\ reach \subseteq plugged
          /\ changes \in 0 .. MaxChanges /\ scan \in ScanState
          /\ usb_ids \subseteq UsbIds /\ dfu_ids \subseteq UsbIds
          /\ manager \in [Hubs -> ManagerState]
          /\ device_handles \in {None} \cup DOMAIN handler
          /\ holder \in Hubs \cup {Scan, None} /\ direct \in BOOLEAN
      BY <1>1, <2>1 DEF Init
    <2>3. /\ handler \in Seq(HandlerState) /\ Len(handler) <= MaxSpawns
          /\ \A i \in DOMAIN handler : Len(handler[i].queue) <= QueueCap
          /\ channel \in Seq(Message) /\ Len(channel) <= ChannelCap
      BY <1>2, <2>1 DEF Init
    <2>4. device_list \in Entry \cup {None} /\ dongle_list \in [Hubs -> BOOLEAN \cup {None}]
      BY DEF Init
    <2>5. QED  BY <2>2, <2>3, <2>4 DEF TypeOK
  <1>5. Visited  BY <1>1 DEF Init, Visited
  <1>6. LockOwners  BY <1>1, <1>3 DEF Init, LockOwners, Locking
  <1>7. Known  BY <1>2 DEF Init, Known
  <1>8. Spawns /\ Fresh /\ Unconnected
    BY <1>1, <1>3 DEF Init, Spawns, Fresh, Unconnected
  <1>9. QED  BY <1>4, <1>5, <1>6, <1>7, <1>8 DEF Core

LEMMA StepKeepsCore == Core /\ [Next]_vars => Core'
  <1> SUFFICES ASSUME Core, [Next]_vars PROVE Core'  OBVIOUS
  <1>1. CASE Surroundings  BY <1>1, SurroundingsKeepCore
  <1>2. CASE ScanStep
    BY <1>2, ScanType, ScanKeepsVisited, ScanKeepsLock, ScanSaysKnown, ScanKeepsSpawns,
       ScanKeepsFresh DEF Core
  <1>3. ASSUME NEW h \in Hubs, HubStep(h) PROVE Core'
    <2>1. Visited'
      BY <1>3, ManagerMoves DEF Core, Visited, surroundings, scanning
    <2>2. QED
      BY <1>3, <2>1, HubType, HubKeepsLock, HubSaysKnown, HubKeepsSpawns, HubKeepsFresh
      DEF Core
  <1>4. ASSUME NEW i \in Ids, HandlerTakes(i) \/ HandlerLeaves(i) \/ HandlerFinishes(i)
        PROVE  Core'
    <2>1. UNCHANGED <<surroundings, scanning, manager, device_handles, holder>>
      BY <1>4 DEF HandlerTakes, HandlerLeaves, HandlerFinishes, tables
    <2>2. DOMAIN handler' = DOMAIN handler
      <3>1. i \in DOMAIN handler
        BY <1>4 DEF HandlerTakes, HandlerLeaves, HandlerFinishes, Running
      <3>2. QED  BY <1>4, <3>1, TakeChanges, LeaveChanges, FinishChanges DEF Core
    <2>3. Visited' /\ LockOwners' /\ Spawns'
      BY <2>1, <2>2 DEF Core, Visited, LockOwners, Spawns, surroundings, scanning
    <2>4. QED
      BY <1>4, <2>3, HandlerType, HandlerKeepsFresh, HandlerSaysKnown DEF Core
  <1>5. CASE Forward
    <2>1. UNCHANGED <<surroundings, scanning, manager, tables>>  BY <1>5 DEF Forward
    <2>2. DOMAIN handler' = DOMAIN handler  BY <1>5, ForwardChanges
    <2>3. Visited' /\ LockOwners' /\ Spawns'
      BY <2>1, <2>2 DEF Core, Visited, LockOwners, Spawns, surroundings, scanning, tables
    <2>4. QED  BY <1>5, <2>3, ForwardType, ForwardKeepsFresh, ForwardSaysKnown DEF Core
  <1>6. CASE UNCHANGED vars
    BY <1>6
    DEF Core, TypeOK, Visited, LockOwners, Known, Spawns, Fresh, ScanFresh, HubFresh,
        Running, Unconnected, NotOut, NoUpdate, vars, surroundings, scanning, tables,
        lists
  <1>7. QED  BY <1>1, <1>2, <1>3, <1>4, <1>5, <1>6 DEF Next

\* What every step may rely on.
THEOREM CoreHolds == Spec => []Core
  BY InitCore, StepKeepsCore, PTL DEF Spec

\* Every variable of the registry has its type and no queue outgrows its
\* capacity, however many handlers, dongles and plugs there are
\* (device_tasks.rs 783, 1266; lib.rs 188).
THEOREM RegistryTypeCorrect == Spec => []TypeOK
  <1>1. Core => TypeOK  BY DEF Core
  <1>2. QED  BY CoreHolds, <1>1, PTL

(***************************************************************************)
(* The first message of a dongle's handler.                                *)
(***************************************************************************)
\* The AddEventsDevice of the dongle that spawned a handler is the first
\* message the handler gets, for any number of dongles that see the device
\* (799-817).
THEOREM FirstEventsComeFirst == Spec => []FirstEventsFirst
  <1>1. Core => FirstEventsFirst
    <2> SUFFICES ASSUME Core, NEW h \in Hubs, manager[h].pc \in {"connect", "queue"}
                 PROVE  handler[manager[h].spawned].queue = << >>
      BY DEF FirstEventsFirst
    <2>1. manager[h].spawned # None  BY DEF Core, Spawns
    <2>2. manager[h].spawned \in Ids  BY <2>1, HandlersInUse
    <2>3. HubFresh(manager[h].spawned)  BY <2>2 DEF Core, Fresh
    <2>4. QED  BY <2>3 DEF HubFresh
  <1>2. QED  BY CoreHolds, <1>1, PTL

(***************************************************************************)
(* Dead devices leave the list.                                            *)
(***************************************************************************)
\* What is listed, or about to be, of a finished handler is taken off later.
Ghosts ==
  /\ NoGhost
  /\ \A k \in DOMAIN channel :
       channel[k].kind = "Connect" /\ Finished(channel[k].by) =>
         \E l \in DOMAIN channel : l > k /\ channel[l].kind = "Disconnect"

\* What posts no Connect of a finished handler, and finishes none.
LEMMA GhostsKept ==
  ASSUME Core, Ghosts, UNCHANGED device_list,
         DOMAIN handler \subseteq DOMAIN handler',
         \A j \in DOMAIN handler : Finished(j)' => Finished(j),
         Dfu \notin DOMAIN handler',
         \/ UNCHANGED channel
         \/ \E m \in Message : Post(m) /\ (m.kind = "Connect" => ~Finished(m.by)')
  PROVE  Ghosts'
  <1>1. \A j \in {Dfu} \cup DOMAIN handler : Finished(j)' => Finished(j)
    BY DEF Finished
  <1>2. /\ device_list # None /\ Finished(device_list.commands) =>
             \E k \in DOMAIN channel : channel[k].kind = "Disconnect"
        /\ \A k \in DOMAIN channel :
             channel[k].kind = "Connect" /\ Finished(channel[k].by) =>
               \E l \in DOMAIN channel : l > k /\ channel[l].kind = "Disconnect"
    BY DEF Ghosts, NoGhost
  <1>3. PICK n, m :
          /\ \/ UNCHANGED channel
             \/ /\ DOMAIN channel' = DOMAIN channel \cup {n} /\ channel'[n] = m
                /\ \A k \in DOMAIN channel : channel'[k] = channel[k]
          /\ m.kind = "Connect" => ~Finished(m.by)'
    <2>1. CASE UNCHANGED channel
      <3>1. [kind |-> "Update"].kind # "Connect"  OBVIOUS
      <3>2. QED  BY <2>1, <3>1
    <2>2. ASSUME NEW m \in Message, Post(m), m.kind = "Connect" => ~Finished(m.by)'
          PROVE  \E n : /\ DOMAIN channel' = DOMAIN channel \cup {n} /\ channel'[n] = m
                        /\ \A k \in DOMAIN channel : channel'[k] = channel[k]
      BY <2>2, TypeParts, PostAppends DEF Core
    <2>3. QED  BY <2>1, <2>2
  <1>4. /\ DOMAIN channel \subseteq DOMAIN channel'
        /\ \A k \in DOMAIN channel : channel'[k] = channel[k]
    BY <1>3
  <1>5. ASSUME NEW k \in DOMAIN channel', channel'[k].kind = "Connect",
               NEW j, j = channel'[k].by, Finished(j)'
        PROVE  \E l \in DOMAIN channel' : l > k /\ channel'[l].kind = "Disconnect"
    <2>1. k \in DOMAIN channel /\ channel[k] = channel'[k]  BY <1>3, <1>5
    <2>2. j \in {Dfu} \cup DOMAIN handler  BY <1>5, <2>1 DEF Core, Known
    <2>3. Finished(j)  BY <1>1, <1>5, <2>2
    <2>4. PICK l \in DOMAIN channel : l > k /\ channel[l].kind = "Disconnect"
      BY <1>2, <1>5, <2>1, <2>3
    <2>5. QED  BY <1>4, <2>4
  <1>6. ASSUME device_list' # None, NEW j, j = device_list'.commands, Finished(j)'
        PROVE  \E k \in DOMAIN channel' : channel'[k].kind = "Disconnect"
    <2>1. j \in {Dfu} \cup DOMAIN handler  BY <1>6 DEF Core, Known
    <2>2. Finished(j)  BY <1>1, <1>6, <2>1
    <2>3. PICK k \in DOMAIN channel : channel[k].kind = "Disconnect"
      BY <1>2, <1>6, <2>2
    <2>4. QED  BY <1>4, <2>3
  <1>7. QED  BY <1>5, <1>6 DEF Ghosts, NoGhost, Finished

\* A finishing handler has the last word.
LEMMA FinishKeepsGhosts ==
  ASSUME Core, Ghosts, NEW i \in Ids, HandlerFinishes(i)
  PROVE  Ghosts'
  <1>1. PICK n : /\ n \in DOMAIN channel' /\ channel'[n].kind = "Disconnect"
                 /\ DOMAIN channel' = DOMAIN channel \cup {n}
                 /\ \A k \in DOMAIN channel : k < n /\ channel'[k] = channel[k]
    <2> DEFINE n == Len(channel) + 1
    <2>1. /\ channel'[n] = [kind |-> "Disconnect", by |-> i]
          /\ DOMAIN channel' = DOMAIN channel \cup {n}
          /\ \A k \in DOMAIN channel : k < n /\ channel'[k] = channel[k]
      BY FinishChanges DEF Core
    <2> HIDE DEF n
    <2>2. QED  BY <2>1
  <1>2. \A k \in DOMAIN channel' : channel'[k].kind = "Connect" => k < n
    BY <1>1
  <1>3. n \in Nat /\ \A k \in DOMAIN channel' : k \in Nat
    <2>1. ChannelOK'  BY FinishChanges DEF Core
    <2>2. \A k \in DOMAIN channel' : k \in Nat
      BY <2>1, LenProperties DEF ChannelOK
    <2>3. QED  BY <1>1, <2>2
  <1>4. QED  BY <1>1, <1>2, <1>3 DEF Ghosts, NoGhost

\* What is forwarded is listed as it was announced; a Disconnect lists nothing.
LEMMA ForwardKeepsGhosts ==
  ASSUME Core, Ghosts, Forward
  PROVE  Ghosts'
  <1> DEFINE m == channel[1]
  <1>1. /\ ChannelOK /\ ChannelOK' /\ 1 \in DOMAIN channel /\ Head(channel) = m
        /\ \A k \in DOMAIN channel' : k + 1 \in DOMAIN channel
                                      /\ channel'[k] = channel[k + 1]
        /\ \A k \in DOMAIN channel : k # 1 => k - 1 \in DOMAIN channel'
                                              /\ channel'[k - 1] = channel[k]
    BY TypeParts, ForwardShifts DEF Core, Forward
  <1>2. \A k \in DOMAIN channel : k \in Nat /\ k >= 1
    BY <1>1, ChannelIndices
  <1>3. \A j : Finished(j)' <=> Finished(j)  BY ForwardChanges DEF Finished
  <1>4. \/ device_list' = None
        \/ m.kind = "Connect" /\ device_list'.commands = m.by
        \/ /\ m.kind # "Disconnect" /\ device_list # None
           /\ device_list'.commands = device_list.commands
    BY ForwardLists
  <1>5. /\ device_list # None /\ Finished(device_list.commands) =>
             \E k \in DOMAIN channel : channel[k].kind = "Disconnect"
        /\ \A k \in DOMAIN channel :
             channel[k].kind = "Connect" /\ Finished(channel[k].by) =>
               \E l \in DOMAIN channel : l > k /\ channel[l].kind = "Disconnect"
    BY DEF Ghosts, NoGhost
  <1>6. \A l \in DOMAIN channel : l # 1 /\ channel[l].kind = "Disconnect" =>
          l - 1 \in DOMAIN channel' /\ channel'[l - 1].kind = "Disconnect"
    BY <1>1
  <1>7. ASSUME device_list' # None, Finished(device_list'.commands)
        PROVE  \E k \in DOMAIN channel' : channel'[k].kind = "Disconnect"
    <2>1. CASE m.kind = "Connect" /\ device_list'.commands = m.by
      <3>1. PICK l \in DOMAIN channel : l > 1 /\ channel[l].kind = "Disconnect"
        BY <1>1, <1>5, <1>7, <2>1
      <3>2. QED  BY <1>6, <3>1
    <2>2. CASE /\ m.kind # "Disconnect" /\ device_list # None
               /\ device_list'.commands = device_list.commands
      <3>1. PICK l \in DOMAIN channel : channel[l].kind = "Disconnect"
        BY <1>5, <1>7, <2>2
      <3>2. l # 1  BY <2>2, <3>1
      <3>3. QED  BY <1>6, <3>1, <3>2
    <2>3. QED  BY <1>4, <1>7, <2>1, <2>2
  <1>8. ASSUME NEW k \in DOMAIN channel', channel'[k].kind = "Connect",
               Finished(channel'[k].by)
        PROVE  \E l \in DOMAIN channel' : l > k /\ channel'[l].kind = "Disconnect"
    <2>1. k \in Nat /\ k + 1 \in DOMAIN channel /\ channel'[k] = channel[k + 1]
      <3>1. k \in Nat  BY <1>1, LenProperties DEF ChannelOK
      <3>2. QED  BY <1>1, <3>1
    <2>2. PICK l \in DOMAIN channel : l > k + 1 /\ channel[l].kind = "Disconnect"
      BY <1>5, <1>8, <2>1
    <2>3. l \in Nat /\ l - 1 > k /\ l # 1  BY <1>2, <2>1, <2>2
    <2>4. QED  BY <1>6, <2>2, <2>3
  <1>9. NoGhost'
    BY <1>3, <1>7 DEF NoGhost
  <1>10. QED  BY <1>3, <1>8, <1>9 DEF Ghosts

LEMMA StepKeepsGhosts == Core /\ Ghosts /\ [Next]_vars => Ghosts'
  <1> SUFFICES ASSUME Core, Ghosts, [Next]_vars PROVE Ghosts'  OBVIOUS
  <1>0. Dfu \notin DOMAIN handler'
    BY StepKeepsCore, HandlersInUse, RegistryParameters, TypeParts, HandlerIds
  <1>1. CASE Surroundings
    <2>1. UNCHANGED <<handler, channel, device_list>>
      BY <1>1, SurroundingsLeave DEF lists
    <2>2. QED  BY <1>0, <2>1, GhostsKept DEF Finished
  <1>2. CASE ScanStep
    <2>1. /\ DOMAIN handler \subseteq DOMAIN handler' /\ UNCHANGED device_list
          /\ \A j \in DOMAIN handler : Finished(j)' => Finished(j)
      BY <1>2, ScanHandlers, ScanSends DEF Finished, lists
    <2>2. ~Finished(Dfu)'  BY <1>0 DEF Finished
    <2>3. scan.pc = "connect" => ~Finished(scan.spawned)
      BY HandlersInUse DEF Core, Spawns, Fresh, ScanFresh, Running, Finished
    <2>4. UNCHANGED <<handler, scan.spawned>> /\ ~Finished(scan.spawned)
            => \A m : m.by = scan.spawned => ~Finished(m.by)'
      BY DEF Finished
    <2>5. QED  BY <1>0, <1>2, <2>1, <2>2, <2>3, ScanSends, GhostsKept DEF Finished
  <1>3. ASSUME NEW h \in Hubs, HubStep(h) PROVE Ghosts'
    <2>1. /\ DOMAIN handler \subseteq DOMAIN handler' /\ UNCHANGED device_list
          /\ \A j \in DOMAIN handler : Finished(j)' => Finished(j)
      BY <1>3, HubHandlers, ManagerMoves DEF Core, Finished, lists
    <2>2. manager[h].pc = "connect" => ~Finished(manager[h].spawned)
      BY HandlersInUse DEF Core, Spawns, Fresh, HubFresh, Running, Finished
    <2>3. QED  BY <1>0, <1>3, <2>1, <2>2, HubSends, GhostsKept DEF Finished
  <1>4. ASSUME NEW i \in Ids, HandlerTakes(i) PROVE Ghosts'
    <2>1. i \in DOMAIN handler /\ UNCHANGED device_list
      BY <1>4 DEF HandlerTakes, Running, lists
    <2>2. /\ DOMAIN handler' = DOMAIN handler
          /\ \A j \in DOMAIN handler : Finished(j)' => Finished(j)
      BY <1>4, <2>1, TakeChanges DEF Core, Finished
    <2> DEFINE m == [kind |-> "Update", by |-> i, control |-> handler'[i].control,
                     events |-> handler'[i].events]
    <2>3. (Post(m) /\ m \in Message) \/ UNCHANGED channel
      BY <1>4, <2>1, TakeChanges DEF Core
    <2>4. m.kind # "Connect"  OBVIOUS
    <2> HIDE DEF m
    <2>5. QED  BY <1>0, <2>1, <2>2, <2>3, <2>4, GhostsKept
  <1>5. ASSUME NEW i \in Ids, HandlerLeaves(i) PROVE Ghosts'
    <2>1. i \in DOMAIN handler /\ UNCHANGED <<device_list, channel>>
      BY <1>5 DEF HandlerLeaves, Running, lists
    <2>2. handler[i] \in HandlerState  BY <2>1, TypeParts, HandlerIds DEF Core
    <2>3. /\ DOMAIN handler' = DOMAIN handler
          /\ \A j \in DOMAIN handler : Finished(j)' => Finished(j)
      BY <1>5, <2>1, <2>2, LeaveChanges DEF Core, Finished, HandlerState
    <2>4. QED  BY <1>0, <2>1, <2>3, GhostsKept
  <1>6. ASSUME NEW i \in Ids, HandlerFinishes(i) PROVE Ghosts'
    BY <1>6, FinishKeepsGhosts
  <1>7. CASE Forward  BY <1>7, ForwardKeepsGhosts
  <1>8. CASE UNCHANGED vars
    BY <1>0, <1>8, GhostsKept DEF vars, lists, Finished
  <1>9. QED  BY <1>1, <1>2, <1>3, <1>4, <1>5, <1>6, <1>7, <1>8 DEF Next

\* No dead device stays in the list, in every interleaving of any number of
\* registrations and endings: an entry whose commands go to a handler that has
\* finished is about to be taken off (766-818, 1287-1315, 2522-2532).
THEOREM DeadDevicesAreDelisted == Spec => []NoGhost
  <1>1. Init => Ghosts
    BY EmptySeq DEF Init, Ghosts, NoGhost
  <1>2. Ghosts => NoGhost  BY DEF Ghosts
  <1>3. QED  BY CoreHolds, StepKeepsGhosts, <1>1, <1>2, PTL DEF Spec

(***************************************************************************)
(* Announced before it is updated.                                         *)
(***************************************************************************)
ConnectsFirst ==
  \A k, l \in DOMAIN channel :
    channel[k].kind = "Update" /\ l > k
      /\ channel[l].kind = "Connect" /\ channel[l].by = channel[k].by =>
      channel[l].control

\* What is posted is no Connect without control that comes too late.
LEMMA ConnectsFirstKept ==
  ASSUME Core, ConnectsFirst,
         \/ UNCHANGED channel
         \/ \E m \in Message : Post(m) /\ (m.kind = "Connect" => m.control \/ NoUpdate(m.by))
  PROVE  ConnectsFirst'
  <1>1. CASE UNCHANGED channel  BY <1>1 DEF ConnectsFirst
  <1>2. ASSUME NEW m \in Message, Post(m), m.kind = "Connect" => m.control \/ NoUpdate(m.by)
        PROVE  ConnectsFirst'
    <2> DEFINE n == Len(channel) + 1
    <2>1. /\ DOMAIN channel' = DOMAIN channel \cup {n} /\ channel'[n] = m
          /\ \A k \in DOMAIN channel : k < n /\ channel'[k] = channel[k]
          /\ n \in Nat /\ \A k \in DOMAIN channel : k \in Nat
      BY <1>2, TypeParts, PostAppends, ChannelIndices DEF Core
    <2> HIDE DEF n
    <2>2. SUFFICES ASSUME NEW k \in DOMAIN channel', NEW l \in DOMAIN channel',
                          channel'[k].kind = "Update", l > k,
                          channel'[l].kind = "Connect", channel'[l].by = channel'[k].by
                   PROVE  channel'[l].control
      BY DEF ConnectsFirst
    <2>3. k \in DOMAIN channel /\ channel'[k] = channel[k]  BY <2>1, <2>2
    <2>4. CASE l \in DOMAIN channel
      <3>1. channel'[l] = channel[l]  BY <2>1, <2>4
      <3>2. QED  BY <2>2, <2>3, <2>4, <3>1 DEF ConnectsFirst
    <2>5. CASE l = n
      <3>1. ~NoUpdate(m.by)  BY <2>1, <2>2, <2>3, <2>5 DEF NoUpdate
      <3>2. QED  BY <1>2, <2>1, <2>2, <2>5, <3>1
    <2>6. QED  BY <2>1, <2>4, <2>5
  <1>3. QED  BY <1>1, <1>2

LEMMA ForwardKeepsConnectsFirst == Core /\ ConnectsFirst /\ Forward => ConnectsFirst'
  <1> SUFFICES ASSUME Core, ConnectsFirst, Forward PROVE ConnectsFirst'  OBVIOUS
  <1>1. \A k \in DOMAIN channel' : /\ k + 1 \in DOMAIN channel /\ k \in Nat
                                   /\ channel'[k] = channel[k + 1]
    <2>1. /\ ChannelOK'
          /\ \A k \in DOMAIN channel' : k + 1 \in DOMAIN channel
                                        /\ channel'[k] = channel[k + 1]
      BY TypeParts, ForwardShifts DEF Core, Forward
    <2>2. QED  BY <2>1, LenProperties DEF ChannelOK
  <1>2. SUFFICES ASSUME NEW k \in DOMAIN channel', NEW l \in DOMAIN channel',
                        channel'[k].kind = "Update", l > k,
                        channel'[l].kind = "Connect", channel'[l].by = channel'[k].by
                 PROVE  channel'[l].control
    BY DEF ConnectsFirst
  <1>3. k + 1 \in DOMAIN channel /\ l + 1 \in DOMAIN channel /\ l + 1 > k + 1
    BY <1>1, <1>2
  <1>4. channel[k + 1] = channel'[k] /\ channel[l + 1] = channel'[l]  BY <1>1
  <1>5. QED  BY <1>2, <1>3, <1>4 DEF ConnectsFirst

LEMMA StepKeepsConnectsFirst == Core /\ ConnectsFirst /\ [Next]_vars => ConnectsFirst'
  <1> SUFFICES ASSUME Core, ConnectsFirst, [Next]_vars PROVE ConnectsFirst'  OBVIOUS
  <1>1. CASE Surroundings
    BY <1>1, SurroundingsLeave, ConnectsFirstKept
  <1>2. CASE ScanStep
    <2>1. NoUpdate(Dfu)  BY HandlersInUse DEF Core, Known, NoUpdate
    <2>2. QED  BY <1>2, <2>1, ScanSends, ConnectsFirstKept
  <1>3. ASSUME NEW h \in Hubs, HubStep(h) PROVE ConnectsFirst'
    <2>1. manager[h].pc = "connect" => NoUpdate(manager[h].spawned)
      BY HandlersInUse DEF Core, Spawns, Unconnected
    <2>2. QED  BY <1>3, <2>1, HubSends, ConnectsFirstKept
  <1>4. ASSUME NEW i \in Ids, HandlerTakes(i) \/ HandlerLeaves(i) \/ HandlerFinishes(i)
        PROVE  ConnectsFirst'
    BY <1>4, HandlerSends, ConnectsFirstKept
  <1>5. CASE Forward  BY <1>5, ForwardKeepsConnectsFirst
  <1>6. CASE UNCHANGED vars  BY <1>6, ConnectsFirstKept DEF vars
  <1>7. QED  BY <1>1, <1>2, <1>3, <1>4, <1>5, <1>6 DEF Next

\* A dongle's new handler is announced before it is updated, so that no update
\* is lost and no entry made after it is stale (803), whatever the USB path
\* and other dongles do with the device.
THEOREM AnnouncedBeforeUpdated == Spec => []ConnectBeforeUpdate
  <1>1. Core /\ ConnectsFirst => ConnectBeforeUpdate
    <2> SUFFICES ASSUME Core, ConnectsFirst, NEW k \in DOMAIN channel,
                        channel[k].kind = "Update"
                 PROVE  /\ ~Unannounced(channel[k].by)
                        /\ \A l \in k + 1 .. Len(channel) :
                             channel[l].kind = "Connect" /\ channel[l].by = channel[k].by =>
                               channel[l].control
      BY DEF ConnectBeforeUpdate
    <2>1. Len(channel) \in Nat /\ DOMAIN channel = 1 .. Len(channel)
      BY TypeParts, ChannelIndices DEF Core
    <2>2. channel[k].by \in Ids
      BY TypeParts, HandlerIds DEF Core, Known
    <2>3. ~Unannounced(channel[k].by)
      BY <2>2 DEF Core, Unconnected, NoUpdate, Unannounced
    <2>4. \A l \in k + 1 .. Len(channel) : l \in DOMAIN channel /\ l > k
      BY <2>1
    <2>5. QED  BY <2>3, <2>4 DEF ConnectsFirst
  <1>2. Init => ConnectsFirst  BY EmptySeq DEF Init, ConnectsFirst
  <1>3. QED  BY CoreHolds, StepKeepsConnectsFirst, <1>1, <1>2, PTL DEF Spec

(***************************************************************************)
(* Dongles are listed with the devices they have.                          *)
(***************************************************************************)
OfDongle(h, m) ==
  m.kind \in {"DongleConnect", "DongleUpdate", "DongleDisconnect"} /\ m.by = h

Active == {"idle", "found", "merge", "spawned", "connect", "queue", "detach", "update"}

\* A dongle whose manager is at work stays listed, or is listed again.
Registered(h) ==
  /\ \A k \in DOMAIN channel :
       channel[k].kind = "DongleDisconnect" /\ channel[k].by = h =>
         \E l \in DOMAIN channel :
           l > k /\ channel[l].kind = "DongleConnect" /\ channel[l].by = h
  /\ \/ \E k \in DOMAIN channel : channel[k].kind = "DongleConnect" /\ channel[k].by = h
     \/ dongle_list[h] # None

Shows(m, has) ==
  \/ m.kind = "DongleConnect" /\ ~has
  \/ m.kind = "DongleUpdate" /\ m.has = has

\* The last that was said of it, or else the list, shows the devices it has.
Shown(h) ==
  /\ \A k \in DOMAIN channel :
       OfDongle(h, channel[k])
         /\ (\A l \in DOMAIN channel : l > k => ~OfDongle(h, channel[l])) =>
         Shows(channel[k], manager[h].has)
  /\ (\A k \in DOMAIN channel : ~OfDongle(h, channel[k])) => dongle_list[h] = manager[h].has

Tracked(h) ==
  /\ manager[h].pc \in {"none", "start"} => ~manager[h].has
  /\ manager[h].pc \in Active => Registered(h)
  /\ manager[h].pc = "idle" => Shown(h)

\* What is said of others does not matter.
LEMMA RegisteredKept ==
  ASSUME Core, NEW h \in Hubs, UNCHANGED dongle_list,
         \/ UNCHANGED channel
         \/ \E m \in Message : Post(m) /\ ~OfDongle(h, m)
  PROVE  /\ Registered(h) => Registered(h)'
         /\ Shown(h) /\ UNCHANGED manager[h].has => Shown(h)'
  <1>1. CASE UNCHANGED channel  BY <1>1 DEF Registered, Shown
  <1>2. ASSUME NEW m \in Message, Post(m), ~OfDongle(h, m)
        PROVE  /\ Registered(h) => Registered(h)'
               /\ Shown(h) /\ UNCHANGED manager[h].has => Shown(h)'
    <2> DEFINE n == Len(channel) + 1
    <2>1. /\ DOMAIN channel' = DOMAIN channel \cup {n} /\ channel'[n] = m
          /\ \A k \in DOMAIN channel : channel'[k] = channel[k]
      BY <1>2, TypeParts, PostAppends DEF Core
    <2> HIDE DEF n
    <2>2. Registered(h) => Registered(h)'
      BY <1>2, <2>1 DEF Registered, OfDongle
    <2>3. ASSUME Shown(h), UNCHANGED manager[h].has PROVE Shown(h)'
      <3>1. \A k \in DOMAIN channel' : OfDongle(h, channel'[k]) =>
              k \in DOMAIN channel /\ channel'[k] = channel[k] /\ OfDongle(h, channel[k])
        BY <1>2, <2>1
      <3>2. ASSUME NEW k \in DOMAIN channel', OfDongle(h, channel'[k]),
                   \A l \in DOMAIN channel' : l > k => ~OfDongle(h, channel'[l])
            PROVE  Shows(channel'[k], manager'[h].has)
        <4>1. k \in DOMAIN channel /\ channel'[k] = channel[k] /\ OfDongle(h, channel[k])
          BY <3>1, <3>2
        <4>2. \A l \in DOMAIN channel : l > k => ~OfDongle(h, channel[l])
          BY <2>1, <3>2
        <4>3. Shows(channel[k], manager[h].has)  BY <2>3, <4>1, <4>2 DEF Shown
        <4>4. QED  BY <2>3, <4>1, <4>3
      <3>3. (\A k \in DOMAIN channel' : ~OfDongle(h, channel'[k])) =>
              dongle_list'[h] = manager'[h].has
        BY <2>1, <2>3 DEF Shown
      <3>4. QED  BY <3>2, <3>3 DEF Shown, OfDongle, Shows
    <2>4. QED  BY <2>2, <2>3
  <1>3. QED  BY <1>1, <1>2

LEMMA TrackedKept ==
  ASSUME Core, NEW h \in Hubs, Tracked(h), UNCHANGED <<dongle_list, manager[h]>>,
         \/ UNCHANGED channel
         \/ \E m \in Message : Post(m) /\ ~OfDongle(h, m)
  PROVE  Tracked(h)'
  BY RegisteredKept DEF Tracked

\* What a manager says of its dongle is the last that was said of it.
LEMMA SaysLast ==
  ASSUME Core, NEW h \in Hubs, NEW m \in Message, Post(m), m.by = h,
         m.kind \in {"DongleConnect", "DongleUpdate"}, UNCHANGED dongle_list,
         m.kind = "DongleConnect" \/ Registered(h), Shows(m, manager'[h].has)
  PROVE  Registered(h)' /\ Shown(h)'
  <1> DEFINE n == Len(channel) + 1
  <1>1. /\ DOMAIN channel' = DOMAIN channel \cup {n} /\ channel'[n] = m
        /\ \A k \in DOMAIN channel : k < n /\ channel'[k] = channel[k]
    BY TypeParts, PostAppends DEF Core
  <1> HIDE DEF n
  <1>2. OfDongle(h, m)  BY DEF OfDongle
  <1>3. n \in Nat /\ \A k \in DOMAIN channel' : k \in Nat
    <2>1. ChannelOK'  BY TypeParts, PostAppends DEF Core
    <2>2. \A k \in DOMAIN channel' : k \in Nat  BY <2>1, LenProperties DEF ChannelOK
    <2>3. QED  BY <1>1, <2>2
  <1>4. ASSUME NEW k \in DOMAIN channel', channel'[k].kind = "DongleDisconnect",
               channel'[k].by = h
        PROVE  \E l \in DOMAIN channel' :
                 l > k /\ channel'[l].kind = "DongleConnect" /\ channel'[l].by = h
    <2>1. k \in DOMAIN channel /\ channel'[k] = channel[k] /\ n > k
      <3>1. k # n  BY <1>1, <1>4
      <3>2. k \in DOMAIN channel /\ channel'[k] = channel[k] /\ k < n  BY <1>1, <3>1
      <3>3. n \in Nat /\ k \in Nat  BY <1>3, <1>4
      <3>4. QED  BY <3>2, <3>3
    <2>2. CASE m.kind = "DongleConnect"  BY <1>1, <2>1, <2>2
    <2>3. CASE Registered(h)  BY <1>1, <1>4, <2>1, <2>3 DEF Registered
    <2>4. QED  BY <2>2, <2>3
  <1>5. \/ \E k \in DOMAIN channel' : channel'[k].kind = "DongleConnect" /\ channel'[k].by = h
        \/ dongle_list'[h] # None
    BY <1>1 DEF Registered
  <1>6. ASSUME NEW k \in DOMAIN channel', OfDongle(h, channel'[k]),
               \A l \in DOMAIN channel' : l > k => ~OfDongle(h, channel'[l])
        PROVE  Shows(channel'[k], manager'[h].has)
    <2>1. ~(n > k)  BY <1>1, <1>2, <1>6
    <2>2. n \in Nat /\ k \in Nat  BY <1>3, <1>6
    <2>3. k = n  BY <1>1, <1>6, <2>1, <2>2
    <2>4. QED  BY <1>1, <2>3
  <1>7. ~ \A k \in DOMAIN channel' : ~OfDongle(h, channel'[k])  BY <1>1, <1>2
  <1>8. Registered(h)'  BY <1>4, <1>5 DEF Registered
  <1>9. Shown(h)'  BY <1>6, <1>7 DEF Shown, OfDongle, Shows
  <1>10. QED  BY <1>8, <1>9

LEMMA HubKeepsTracked ==
  ASSUME Core, NEW h \in Hubs, Tracked(h), HubStep(h)
  PROVE  Tracked(h)'
  <1>1. manager \in [Hubs -> ManagerState] /\ UNCHANGED dongle_list
    BY ManagerMoves DEF Core, TypeOK, lists
  <1>2. \A at : Goto(h, at) => manager'[h].pc = at /\ manager'[h].has = manager[h].has
    BY <1>1 DEF Goto, ManagerState
  <1>3. CASE HubStarts(h)
    <2> DEFINE m == [kind |-> "DongleConnect", by |-> h]
    <2>1. Post(m) /\ manager[h].pc = "start" /\ Goto(h, "idle")
      BY <1>3 DEF HubStarts, Managing
    <2>2. m \in Message  BY SentByTasks
    <2>3. m.by = h /\ m.kind = "DongleConnect"  OBVIOUS
    <2> HIDE DEF m
    <2>4. ~manager'[h].has /\ manager'[h].pc = "idle"  BY <1>2, <2>1 DEF Tracked
    <2>5. Shows(m, manager'[h].has)  BY <2>3, <2>4 DEF Shows
    <2>6. Registered(h)' /\ Shown(h)'
      BY <1>1, <2>1, <2>2, <2>3, <2>5, SaysLast
    <2>7. QED  BY <2>4, <2>6 DEF Tracked
  <1>4. CASE HubUpdates(h)
    <2> DEFINE m == [kind |-> "DongleUpdate", by |-> h, has |-> manager[h].has]
    <2>1. Post(m) /\ manager[h].pc = "update" /\ Goto(h, "idle")
      BY <1>4 DEF HubUpdates, Managing
    <2>2. m \in Message  BY SentByTasks
    <2>3. m.by = h /\ m.kind = "DongleUpdate" /\ m.has = manager[h].has  OBVIOUS
    <2> HIDE DEF m
    <2>4. manager'[h].has = manager[h].has /\ manager'[h].pc = "idle"  BY <1>2, <2>1
    <2>5. Shows(m, manager'[h].has)  BY <2>3, <2>4 DEF Shows
    <2>6. Registered(h)  BY <2>1 DEF Tracked, Active
    <2>7. Registered(h)' /\ Shown(h)'
      BY <1>1, <2>1, <2>2, <2>3, <2>5, <2>6, SaysLast
    <2>8. QED  BY <2>4, <2>7 DEF Tracked
  \* The manager leaves.
  <1>5. CASE HubFails(h) \/ HubCleansUp(h) \/ HubSaysBye(h)
    <2>1. manager'[h].pc \in {"cleanup", "bye", "finished"}
      BY <1>1, <1>5
      DEF HubFails, HubCleansUp, HubSaysBye, Tell, Drop, Goto, ManagerState
    <2>2. QED  BY <2>1 DEF Tracked, Active
  \* It is at work, and says nothing of its dongle.
  <1>6. ASSUME manager[h].pc \in Active, manager'[h].pc \in Active \ {"idle"},
               \/ UNCHANGED channel
               \/ \E m \in Message : Post(m) /\ m.kind = "Connect"
        PROVE  Tracked(h)'
    <2>1. Registered(h)  BY <1>6 DEF Tracked
    <2>2. Registered(h)'  BY <1>1, <1>6, <2>1, RegisteredKept DEF OfDongle
    <2>3. QED  BY <1>6, <2>2 DEF Tracked, Active
  <1>7. CASE HubFindsDevice(h)
    BY <1>2, <1>6, <1>7 DEF HubFindsDevice, Managing, Active
  <1>8. CASE HubChecks(h)
    <2>1. CASE Evicted # None
      BY <1>2, <1>6, <1>8, <2>1 DEF HubChecks, Managing, Active
    <2>2. CASE Evicted = None
      <3>1. manager'[h].pc = "spawned"  BY <1>1, <1>8, <2>2 DEF HubChecks, ManagerState
      <3>2. QED  BY <1>6, <1>8, <3>1 DEF HubChecks, Managing, Active
    <2>3. QED  BY <2>1, <2>2
  <1>9. CASE HubMerges(h) \/ HubInserts(h) \/ HubQueues(h) \/ HubLosesDevice(h)
             \/ HubDetaches(h)
    <2>1. /\ manager[h].pc \in Active /\ manager'[h].pc \in Active \ {"idle"}
          /\ UNCHANGED channel
      BY <1>1, <1>9
      DEF HubMerges, HubInserts, HubQueues, HubLosesDevice, HubDetaches, Managing, Drop,
          Tell, Goto, ManagerState, Active
    <2>2. QED  BY <1>6, <2>1
  <1>10. CASE HubConnects(h)
    <2>1. manager[h].pc = "connect" /\ manager'[h].pc = "queue"
      BY <1>2, <1>10 DEF HubConnects, Managing
    <2>2. \E m \in Message : Post(m) /\ m.kind = "Connect"
      BY <1>10, <2>1, SentByTasks DEF HubConnects
    <2>3. QED  BY <1>6, <2>1, <2>2 DEF Active
  <1>11. QED
    BY <1>3, <1>4, <1>5, <1>7, <1>8, <1>9, <1>10 DEF HubStep

LEMMA ForwardKeepsTracked ==
  ASSUME Core, NEW h \in Hubs, Tracked(h), Forward
  PROVE  Tracked(h)'
  <1> DEFINE m == channel[1]
  <1>1. UNCHANGED manager  BY DEF Forward
  <1>2. /\ ChannelOK /\ 1 \in DOMAIN channel /\ Head(channel) = m /\ m \in Message
        /\ \A k \in DOMAIN channel' : k + 1 \in DOMAIN channel
                                      /\ channel'[k] = channel[k + 1]
        /\ \A k \in DOMAIN channel : k # 1 => k - 1 \in DOMAIN channel'
                                              /\ channel'[k - 1] = channel[k]
        /\ \A k \in DOMAIN channel : k \in Nat /\ k >= 1
        /\ \A k \in DOMAIN channel' : k \in Nat /\ k >= 1
    <2>1. ChannelOK /\ ChannelOK' /\ channel # << >> /\ channel' = Tail(channel)
      BY TypeParts, ForwardShifts DEF Core, Forward
    <2>2. \A k \in DOMAIN channel' : k \in Nat /\ k >= 1
      BY <2>1, LenProperties DEF ChannelOK
    <2>3. QED  BY <2>1, <2>2, ForwardShifts, ChannelIndices
  <1>3. /\ dongle_list \in [Hubs -> BOOLEAN \cup {None}] /\ None \notin BOOLEAN
        /\ manager[h].has \in BOOLEAN
    <2>1. manager[h] \in ManagerState  BY DEF Core, TypeOK
    <2>2. dongle_list \in [Hubs -> BOOLEAN \cup {None}]  BY DEF Core, TypeOK
    <2>3. QED  BY <2>1, <2>2, RegistryParameters DEF ManagerState
  <1>4. dongle_list' =
          CASE m.kind = "DongleConnect" -> [dongle_list EXCEPT ![m.by] = FALSE]
            [] m.kind = "DongleUpdate" /\ dongle_list[m.by] # None ->
                 [dongle_list EXCEPT ![m.by] = m.has]
            [] m.kind = "DongleDisconnect" -> [dongle_list EXCEPT ![m.by] = None]
            [] OTHER -> dongle_list
    BY <1>2 DEF Forward
  <1>5. /\ m.kind = "DongleConnect" /\ m.by = h => dongle_list'[h] = FALSE
        /\ m.kind = "DongleUpdate" /\ m.by = h /\ dongle_list[h] # None =>
             dongle_list'[h] = m.has
        /\ m.kind = "DongleUpdate" /\ m.by = h /\ dongle_list[h] = None =>
             dongle_list'[h] = None
        /\ ~OfDongle(h, m) => dongle_list'[h] = dongle_list[h]
    BY <1>3, <1>4 DEF OfDongle
  <1>6. m.kind = "DongleUpdate" => m.has \in BOOLEAN
    BY <1>2 DEF Message, DeviceMessage
  <1>7. ASSUME Registered(h) PROVE Registered(h)'
    <2>1. ASSUME NEW k \in DOMAIN channel', channel'[k].kind = "DongleDisconnect",
                 channel'[k].by = h
          PROVE  \E l \in DOMAIN channel' :
                   l > k /\ channel'[l].kind = "DongleConnect" /\ channel'[l].by = h
      <3>1. PICK l \in DOMAIN channel :
              l > k + 1 /\ channel[l].kind = "DongleConnect" /\ channel[l].by = h
        BY <1>2, <1>7, <2>1 DEF Registered
      <3>2. l - 1 > k /\ l # 1  BY <1>2, <3>1
      <3>3. QED  BY <1>2, <3>1, <3>2
    <2>2. ASSUME NEW l \in DOMAIN channel, l # 1, channel[l].kind = "DongleConnect",
                 channel[l].by = h
          PROVE  \E k \in DOMAIN channel' :
                   channel'[k].kind = "DongleConnect" /\ channel'[k].by = h
      BY <1>2, <2>2
    <2>3. \/ \E k \in DOMAIN channel' :
               channel'[k].kind = "DongleConnect" /\ channel'[k].by = h
          \/ dongle_list'[h] # None
      <3>1. CASE m.kind = "DongleConnect" /\ m.by = h
        BY <1>3, <1>5, <3>1
      <3>2. CASE m.kind = "DongleDisconnect" /\ m.by = h
        <4>1. PICK l \in DOMAIN channel :
                l > 1 /\ channel[l].kind = "DongleConnect" /\ channel[l].by = h
          BY <1>2, <1>7, <3>2 DEF Registered
        <4>2. QED  BY <2>2, <4>1
      <3>3. CASE ~(m.kind \in {"DongleConnect", "DongleDisconnect"} /\ m.by = h)
        <4>1. CASE \E k \in DOMAIN channel :
                     channel[k].kind = "DongleConnect" /\ channel[k].by = h
          BY <2>2, <3>3, <4>1
        <4>2. CASE dongle_list[h] # None
          BY <1>3, <1>5, <1>6, <3>3, <4>2 DEF OfDongle
        <4>3. QED  BY <1>7, <4>1, <4>2 DEF Registered
      <3>4. QED  BY <3>1, <3>2, <3>3
    <2>4. QED  BY <2>1, <2>3 DEF Registered
  <1>8. ASSUME Registered(h), Shown(h) PROVE Shown(h)'
    <2>1. ASSUME NEW k \in DOMAIN channel', OfDongle(h, channel'[k]),
                 \A l \in DOMAIN channel' : l > k => ~OfDongle(h, channel'[l])
          PROVE  Shows(channel'[k], manager[h].has)
      <3>1. k + 1 \in DOMAIN channel /\ channel'[k] = channel[k + 1] /\ k \in Nat
        BY <1>2, <2>1
      <3>2. ASSUME NEW l \in DOMAIN channel, l > k + 1 PROVE ~OfDongle(h, channel[l])
        <4>1. l # 1 /\ l - 1 > k  BY <1>2, <3>1, <3>2
        <4>2. l - 1 \in DOMAIN channel' /\ channel'[l - 1] = channel[l]
          BY <1>2, <3>2, <4>1
        <4>3. QED  BY <2>1, <4>1, <4>2
      <3>3. Shows(channel[k + 1], manager[h].has)
        BY <1>8, <2>1, <3>1, <3>2 DEF Shown
      <3>4. QED  BY <3>1, <3>3
    <2>2. ASSUME \A k \in DOMAIN channel' : ~OfDongle(h, channel'[k])
          PROVE  dongle_list'[h] = manager[h].has
      <3>1. \A l \in DOMAIN channel : l # 1 => ~OfDongle(h, channel[l])
        BY <1>2, <2>2
      <3>2. CASE ~OfDongle(h, m)
        <4>1. \A l \in DOMAIN channel : ~OfDongle(h, channel[l])  BY <3>1, <3>2
        <4>2. dongle_list[h] = manager[h].has  BY <1>8, <4>1 DEF Shown
        <4>3. QED  BY <1>5, <3>2, <4>2
      <3>3. CASE OfDongle(h, m)
        <4>1. \A l \in DOMAIN channel : l > 1 => ~OfDongle(h, channel[l])
          BY <1>2, <3>1
        <4>2. Shows(m, manager[h].has)  BY <1>2, <1>8, <3>3, <4>1 DEF Shown
        <4>3. CASE m.kind = "DongleConnect" /\ ~manager[h].has
          <5>1. manager[h].has = FALSE  BY <1>3, <4>3
          <5>2. dongle_list'[h] = FALSE  BY <1>5, <3>3, <4>3 DEF OfDongle
          <5>3. QED  BY <5>1, <5>2
        <4>4. CASE m.kind = "DongleUpdate" /\ m.has = manager[h].has
          <5>1. dongle_list[h] # None
            BY <1>2, <1>8, <3>1, <4>4 DEF Registered, OfDongle
          <5>2. dongle_list'[h] = m.has  BY <1>5, <3>3, <4>4, <5>1 DEF OfDongle
          <5>3. QED  BY <4>4, <5>2
        <4>5. QED  BY <4>2, <4>3, <4>4 DEF Shows
      <3>4. QED  BY <3>2, <3>3
    <2>3. QED  BY <1>1, <2>1, <2>2 DEF Shown, OfDongle, Shows
  <1>9. QED  BY <1>1, <1>7, <1>8 DEF Tracked, Active

LEMMA StepKeepsTracked ==
  ASSUME Core, [Next]_vars, NEW h \in Hubs, Tracked(h)
  PROVE  Tracked(h)'
  <1>1. CASE Surroundings
    BY <1>1, SurroundingsLeave, TrackedKept DEF lists
  <1>2. CASE ScanStep
    <2>1. manager \in [Hubs -> ManagerState]  BY DEF Core, TypeOK
    <2>2. UNCHANGED dongle_list  BY <1>2, ScanSends DEF lists
    <2>3. UNCHANGED channel \/ \E m \in Message : Post(m) /\ ~OfDongle(h, m)
      BY <1>2, ScanSends DEF OfDongle
    <2>4. CASE UNCHANGED manager[h]  BY <2>2, <2>3, <2>4, TrackedKept
    <2>5. CASE \E pc \in {"none", "start"} : manager'[h] = [NoManager EXCEPT !.pc = pc]
      BY <2>5 DEF Tracked, NoManager, Active
    <2>6. CASE ScanLists
      <3>1. manager'[h] = manager[h] \/ manager'[h] = NoManager
        BY <2>6 DEF ScanLists, AbortManagers
      <3>2. manager'[h] = NoManager => Tracked(h)'  BY DEF Tracked, NoManager, Active
      <3>3. QED  BY <2>4, <3>1, <3>2
    <2>7. ASSUME NEW g \in Hubs, ScanVisitsHub(g) PROVE Tracked(h)'
      <3>1. \/ manager'[h] = manager[h]
            \/ \E pc \in {"none", "start"} : manager'[h] = [NoManager EXCEPT !.pc = pc]
        BY <2>1, <2>7 DEF ScanVisitsHub
      <3>2. QED  BY <2>4, <2>5, <3>1
    <2>8. CASE ~(ScanLists \/ \E g \in Hubs : ScanVisitsHub(g))
      <3>1. UNCHANGED manager
        BY <1>2, <2>8
        DEF ScanStep, ScanCleans, ScanProbes, ScanProbeFails, ScanSurfacesDfu,
            ScanChecks, ScanMerges, ScanInserts, ScanConnects, ScanReconciles,
            ScanTellsGone, ScanReconcilesDfu
      <3>2. QED  BY <2>4, <3>1
    <2>9. QED  BY <2>6, <2>7, <2>8
  <1>3. ASSUME NEW g \in Hubs, HubStep(g) PROVE Tracked(h)'
    <2>1. CASE g = h  BY <1>3, <2>1, HubKeepsTracked
    <2>2. CASE g # h
      <3>1. UNCHANGED <<dongle_list, manager[h]>>
        BY <1>3, <2>2, ManagerMoves DEF Core, lists
      <3>2. QED  BY <1>3, <2>2, <3>1, HubSends, TrackedKept DEF OfDongle
    <2>3. QED  BY <2>1, <2>2
  <1>4. ASSUME NEW i \in Ids, HandlerTakes(i) \/ HandlerLeaves(i) \/ HandlerFinishes(i)
        PROVE  Tracked(h)'
    <2>1. UNCHANGED <<dongle_list, manager>>
      BY <1>4 DEF HandlerTakes, HandlerLeaves, HandlerFinishes, lists
    <2>2. QED  BY <1>4, <2>1, HandlerSends, TrackedKept DEF OfDongle
  <1>5. CASE Forward  BY <1>5, ForwardKeepsTracked
  <1>6. CASE UNCHANGED vars  BY <1>6, TrackedKept DEF vars, lists
  <1>7. QED  BY <1>1, <1>2, <1>3, <1>4, <1>5, <1>6 DEF Next

\* A dongle whose manager waits for a snapshot is listed, with the devices it
\* has, for any dongles that come and go in any order: no late message of an
\* earlier manager takes it off or empties it (517-519, 892-894, 972-974;
\* lib.rs 454-487).
THEOREM DonglesStayCurrent == Spec => []DongleIsCurrent
  <1> DEFINE AllTracked == \A h \in Hubs : Tracked(h)
  <1>1. Init => AllTracked
    BY DEF Init, Tracked, NoManager, Active
  <1>2. Core /\ AllTracked /\ [Next]_vars => AllTracked'
    BY StepKeepsTracked
  <1>3. AllTracked => DongleIsCurrent
    BY DEF Tracked, Shown, OfDongle, DongleIsCurrent
  <1> HIDE DEF AllTracked
  <1>4. QED  BY CoreHolds, <1>1, <1>2, <1>3, PTL DEF Spec

=============================================================================
