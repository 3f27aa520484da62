---------------------- MODULE DeviceRegistryPathProofs ----------------------
(***************************************************************************)
(* What DeviceRegistry promises of a device that is seen on one path only, *)
(* by USB or through one dongle: with two, handlers of one uuid overlap    *)
(* and TLC refutes each of these properties.                               *)
(***************************************************************************)
EXTENDS DeviceRegistryProofs, FiniteSetTheorems

OnePath ==
  \/ Hubs = {}
  \/ UsbIds = {} /\ \A g, h \in Hubs : g = h

\* The scan only comes to a handler if it is the only path.
OnlyScan == scan.pc \in {"check", "merge", "insert", "connect"} => Hubs = {}

\* A task that is about to enter its handler finds no other one.
Vacant ==
  /\ scan.pc = "insert" => device_handles = None
  /\ \A h \in Hubs : manager[h].pc = "spawned" => device_handles = None

\* A handler that is not in the table has heard nothing and nothing is said
\* of it.
Silent ==
  \A i \in DOMAIN handler :
    device_handles # i /\ ~Finished(i) => handler[i].queue = << >> /\ NotOut(i)

\* A handler that the scan registers has what was probed.
Probed ==
  \A i \in Ids : scan.spawned = i =>
    /\ handler[i].queue = << >>
    /\ handler[i].control
    /\ handler[i].events = scan.events
    /\ scan.pc = "connect" => device_handles = i

\* The last news in the channel, or else the entry, is as handler i is.
News(m) == m.kind \in {"Connect", "Update"}
Matches(m, r) == m.control = r.control /\ m.events = r.events

TellsOf(i) ==
  /\ \A k \in DOMAIN channel :
       News(channel[k]) /\ (\A l \in DOMAIN channel : l > k => ~News(channel[l])) =>
         Matches(channel[k], handler[i])
  /\ (\A k \in DOMAIN channel : ~News(channel[k]))
       /\ device_list # None /\ device_list.commands = i =>
         Matches(device_list, handler[i])

Told == \A i \in DOMAIN handler : Running(i) /\ ~NotOut(i) => TellsOf(i)

Path == OnlyScan /\ Vacant /\ Silent /\ Probed /\ Told

(***************************************************************************)
(* Who comes to the table.                                                 *)
(***************************************************************************)
LEMMA ScanKeepsOnlyScan ==
  ASSUME OnePath, Core, OnlyScan, ScanStep
  PROVE  OnlyScan'
  <1>1. scan \in ScanState  BY DEF Core, TypeOK
  <1>2. CASE ScanProbes
    <2>1. scan.port.id \in UsbIds  BY <1>2 DEF ScanProbes, Core, Visited
    <2>2. QED  BY <2>1 DEF OnePath, OnlyScan
  <1>3. CASE ScanChecks \/ ScanInserts
    BY <1>3 DEF ScanChecks, ScanInserts, At, OnlyScan
  <1>4. CASE \/ ScanLists \/ ScanReconcilesDfu
    <2>1. ScanLists => scan'.pc = "clean"  BY DEF ScanLists, IdleScan
    <2>2. ScanReconcilesDfu => scan'.pc = "list"  BY DEF ScanReconcilesDfu, IdleScan
    <2>3. QED  BY <1>4, <2>1, <2>2 DEF OnlyScan
  <1>5. CASE \/ ScanCleans \/ (\E h \in Hubs : ScanVisitsHub(h)) \/ ScanProbeFails
             \/ ScanSurfacesDfu \/ ScanMerges \/ ScanConnects \/ ScanReconciles
             \/ ScanTellsGone
    <2>1. scan'.pc \in {"walk", "gone", "dfu"}
      BY <1>1, <1>5
      DEF ScanCleans, ScanVisitsHub, ScanProbeFails, ScanSurfacesDfu, ScanMerges,
          ScanConnects, ScanReconciles, ScanTellsGone, At, ScanState
    <2>2. QED  BY <2>1 DEF OnlyScan
  <1>6. QED  BY <1>2, <1>3, <1>4, <1>5 DEF ScanStep

\* What the scan makes of the table: an entry is dropped if its handler has
\* finished, or made where there is none.
LEMMA ScanEnters ==
  ASSUME Core, OnlyScan, Vacant, ScanStep
  PROVE  \/ UNCHANGED device_handles
         \/ device_handles' = None /\ Finished(device_handles)
         \/ /\ device_handles = None /\ device_handles' = scan.spawned
            /\ scan.pc = "insert" /\ scan'.pc = "connect"
            /\ scan'.spawned = scan.spawned
  <1>1. scan \in ScanState  BY DEF Core, TypeOK
  <1>2. Evicted = device_handles \/ (Evicted = None /\ Finished(device_handles))
    BY DEF Evicted
  <1>3. CASE ScanCleans \/ ScanChecks  BY <1>2, <1>3 DEF ScanCleans, ScanChecks
  <1>4. CASE ScanInserts
    BY <1>1, <1>4 DEF ScanInserts, At, Vacant, ScanState
  <1>5. CASE ~(ScanCleans \/ ScanChecks \/ ScanInserts)
    BY <1>5
    DEF ScanStep, ScanLists, ScanVisitsHub, ScanProbes, ScanProbeFails, ScanSurfacesDfu,
        ScanMerges, ScanConnects, ScanReconciles, ScanTellsGone, ScanReconcilesDfu,
        tables
  <1>6. QED  BY <1>3, <1>4, <1>5

LEMMA HubEnters ==
  ASSUME Core, Vacant, NEW h \in Hubs, HubStep(h)
  PROVE  \/ UNCHANGED device_handles
         \/ device_handles' = None /\ Finished(device_handles)
         \/ /\ device_handles = None /\ device_handles' = manager[h].spawned
            /\ manager[h].pc = "spawned" /\ manager'[h].pc = "connect"
  <1>1. manager \in [Hubs -> ManagerState]  BY DEF Core, TypeOK
  <1>2. CASE HubChecks(h)
    <2>1. Evicted = device_handles \/ (Evicted = None /\ Finished(device_handles))
      BY DEF Evicted
    <2>2. QED  BY <1>2, <2>1 DEF HubChecks
  <1>3. CASE HubInserts(h)
    <2>1. manager'[h].pc = "connect"  BY <1>1, <1>3 DEF HubInserts, ManagerState
    <2>2. QED  BY <1>3, <2>1 DEF HubInserts, Managing, Vacant
  <1>4. CASE ~(HubChecks(h) \/ HubInserts(h))
    BY <1>4
    DEF HubStep, HubStarts, HubFindsDevice, HubMerges, HubConnects, HubQueues,
        HubLosesDevice, HubDetaches, HubUpdates, HubFails, HubCleansUp, HubSaysBye, Tell,
        tables
  <1>5. QED  BY <1>2, <1>3, <1>4

LEMMA ScanKeepsVacant ==
  ASSUME OnePath, Core, OnlyScan, Vacant, ScanStep
  PROVE  Vacant'
  <1>1. scan \in ScanState /\ manager \in [Hubs -> ManagerState]  BY DEF Core, TypeOK
  <1>2. scan'.pc = "insert" => device_handles' = None
    <2>1. CASE ScanChecks
      <3>1. Evicted # None => scan'.pc \in {"walk", "merge"}
        BY <1>1, <2>1 DEF ScanChecks, ScanState
      <3>2. QED  BY <2>1, <3>1 DEF ScanChecks
    <2>2. CASE ScanProbes
      <3>1. scan'.pc = "check"  BY <1>1, <2>2 DEF ScanProbes, ScanState
      <3>2. QED  BY <3>1
    <2>3. CASE ScanLists \/ ScanReconcilesDfu
      <3>1. ScanLists => scan'.pc = "clean"  BY DEF ScanLists, IdleScan
      <3>2. ScanReconcilesDfu => scan'.pc = "list"  BY DEF ScanReconcilesDfu, IdleScan
      <3>3. QED  BY <2>3, <3>1, <3>2
    <2>4. CASE ~(ScanChecks \/ ScanProbes \/ ScanLists \/ ScanReconcilesDfu)
      <3>1. scan'.pc \in {"walk", "connect", "gone", "dfu"}
        BY <1>1, <2>4
        DEF ScanStep, ScanCleans, ScanVisitsHub, ScanProbeFails, ScanSurfacesDfu,
            ScanMerges, ScanInserts, ScanConnects, ScanReconciles, ScanTellsGone, At,
            ScanState
      <3>2. QED  BY <3>1
    <2>5. QED  BY <2>1, <2>2, <2>3, <2>4
  <1>3. ASSUME NEW h \in Hubs, manager'[h].pc = "spawned" PROVE device_handles' = None
    <2>1. manager[h].pc = "spawned"
      <3>1. CASE ScanLists  BY <1>3, <3>1 DEF ScanLists, AbortManagers, NoManager
      <3>2. CASE \E g \in Hubs : ScanVisitsHub(g)
        BY <1>1, <1>3, <3>2 DEF ScanVisitsHub, NoManager
      <3>3. CASE ~(ScanLists \/ \E g \in Hubs : ScanVisitsHub(g))
        BY <1>3, <3>3
        DEF ScanStep, ScanCleans, ScanProbes, ScanProbeFails, ScanSurfacesDfu,
            ScanChecks, ScanMerges, ScanInserts, ScanConnects, ScanReconciles,
            ScanTellsGone, ScanReconcilesDfu
      <3>4. QED  BY <3>1, <3>2, <3>3
    <2>2. scan.pc # "insert"  BY <1>3 DEF OnlyScan
    <2>3. device_handles = None  BY <1>3, <2>1 DEF Vacant
    <2>4. QED  BY <2>2, <2>3, ScanEnters
  <1>4. QED  BY <1>2, <1>3 DEF Vacant

LEMMA HubKeepsVacant ==
  ASSUME OnePath, Core, OnlyScan, Vacant, NEW h \in Hubs, HubStep(h)
  PROVE  Vacant'
  <1>1. /\ manager \in [Hubs -> ManagerState] /\ UNCHANGED scan
        /\ \A g \in Hubs : g = h
    BY ManagerMoves DEF Core, TypeOK, scanning, OnePath
  <1>2. scan'.pc # "insert"  BY <1>1 DEF OnlyScan
  <1>3. ASSUME manager'[h].pc = "spawned" PROVE device_handles' = None
    <2>1. HubChecks(h)
      BY <1>1, <1>3
      DEF HubStep, HubStarts, HubFindsDevice, HubMerges, HubInserts, HubConnects,
          HubQueues, HubLosesDevice, HubDetaches, HubUpdates, HubFails, HubCleansUp,
          HubSaysBye, Tell, Drop, Goto, ManagerState
    <2>2. Evicted # None => manager'[h].pc = "merge"
      BY <1>1, <2>1 DEF HubChecks, Goto, ManagerState
    <2>3. QED  BY <1>3, <2>1, <2>2 DEF HubChecks
  <1>4. QED  BY <1>1, <1>2, <1>3 DEF Vacant

(***************************************************************************)
(* Nobody speaks to, or of, a handler that is not in the table.            *)
(***************************************************************************)
LEMMA SilentKept ==
  ASSUME Core, Silent, UNCHANGED device_list, Dfu \notin DOMAIN handler',
         device_handles' # device_handles => device_handles = None \/ Finished(device_handles),
         \A j \in DOMAIN handler : ~Finished(j)' =>
           /\ ~Finished(j)
           /\ j # device_handles' => handler'[j].queue = handler[j].queue,
         \A j \in DOMAIN handler' \ DOMAIN handler : handler'[j].queue = << >>,
         \/ UNCHANGED channel
         \/ \E m \in Message :
              Post(m) /\ (m.kind = "Connect" => m.by \in {Dfu, device_handles'})
  PROVE  Silent'
  <1> SUFFICES ASSUME NEW i \in DOMAIN handler', device_handles' # i, ~Finished(i)'
               PROVE  (handler'[i].queue = << >>) /\ NotOut(i)'
    BY DEF Silent
  <1>1. (handler'[i].queue = << >>) /\ NotOut(i)
    <2>1. CASE i \in DOMAIN handler
      <3>1. ~Finished(i) /\ handler'[i].queue = handler[i].queue  BY <2>1
      <3>2. device_handles # i  BY <2>1, <3>1, HandlersInUse
      <3>3. QED  BY <2>1, <3>1, <3>2 DEF Silent
    <2>2. CASE i \notin DOMAIN handler
      BY <2>2 DEF Core, Known, NotOut
    <2>3. QED  BY <2>1, <2>2
  <1>2. CASE UNCHANGED channel  BY <1>1, <1>2 DEF NotOut
  <1>3. ASSUME NEW m \in Message, Post(m), m.kind = "Connect" => m.by \in {Dfu, device_handles'}
        PROVE  NotOut(i)'
    <2> DEFINE n == Len(channel) + 1
    <2>1. /\ DOMAIN channel' = DOMAIN channel \cup {n} /\ channel'[n] = m
          /\ \A k \in DOMAIN channel : channel'[k] = channel[k]
      BY <1>3, TypeParts, PostAppends DEF Core
    <2> HIDE DEF n
    <2>2. ~(m.kind = "Connect" /\ m.by = i)  BY <1>3
    <2>3. QED  BY <1>1, <2>1, <2>2 DEF NotOut
  <1>4. QED  BY <1>1, <1>2, <1>3

\* A send to the handler in the table, and to no other.
LEMMA SendKeepsQueues ==
  ASSUME Core, NEW kind \in LinkKinds, device_handles \in DOMAIN handler,
         SendTo(device_handles, kind), UNCHANGED device_handles
  PROVE  /\ \A j \in DOMAIN handler : ~Finished(j)' =>
              /\ ~Finished(j)
              /\ j # device_handles' => handler'[j].queue = handler[j].queue
         /\ \A j \in DOMAIN handler' \ DOMAIN handler : handler'[j].queue = << >>
  BY TypeParts, SendChanges DEF Core, Finished

LEMMA SpawnKeepsQueues ==
  ASSUME Core, NEW control \in BOOLEAN, NEW events \in Sources, Spawn(control, events)
  PROVE  /\ \A j \in DOMAIN handler : ~Finished(j)' =>
              ~Finished(j) /\ handler'[j].queue = handler[j].queue
         /\ \A j \in DOMAIN handler' \ DOMAIN handler : handler'[j].queue = << >>
  <1>1. PICK n : /\ DOMAIN handler' = DOMAIN handler \cup {n}
                 /\ \A j \in DOMAIN handler : handler'[j] = handler[j]
                 /\ handler'[n].queue = << >>
    <2> DEFINE n == Len(handler) + 1
    <2>1. /\ DOMAIN handler' = DOMAIN handler \cup {n}
          /\ \A j \in DOMAIN handler : handler'[j] = handler[j]
          /\ handler'[n] = [phase |-> "running", queue |-> << >>, control |-> control,
                            events |-> events, seen |-> FALSE]
      BY TypeParts, SpawnAppends DEF Core
    <2> HIDE DEF n
    <2>2. QED  BY <2>1
  <1>2. QED  BY <1>1 DEF Finished

LEMMA ScanKeepsQueues ==
  ASSUME Core, ScanStep
  PROVE  /\ \A j \in DOMAIN handler : ~Finished(j)' =>
              /\ ~Finished(j)
              /\ j # device_handles' => handler'[j].queue = handler[j].queue
         /\ \A j \in DOMAIN handler' \ DOMAIN handler : handler'[j].queue = << >>
  <1>1. CASE ScanChecks
    <2>1. Spawn(TRUE, scan.events) \/ UNCHANGED handler  BY <1>1 DEF ScanChecks
    <2>2. scan.events \in Sources  BY DEF Core, TypeOK, ScanState
    <2>3. QED  BY <2>1, <2>2, SpawnKeepsQueues DEF Finished
  <1>2. CASE ScanMerges \/ ScanTellsGone
    <2>1. /\ scan.pc \in {"merge", "gone"} /\ UNCHANGED device_handles
          /\ \E kind \in LinkKinds : SendTo(device_handles, kind)
      BY <1>2 DEF ScanMerges, ScanTellsGone, At, LinkKinds
    <2>2. device_handles \in DOMAIN handler
      BY <2>1, RegistryParameters, HandlersInUse DEF Core, LockOwners
    <2>3. QED  BY <2>1, <2>2, SendKeepsQueues
  <1>3. CASE ~(ScanChecks \/ ScanMerges \/ ScanTellsGone)
    <2>1. UNCHANGED handler
      BY <1>3
      DEF ScanStep, ScanLists, ScanCleans, ScanVisitsHub, ScanProbes, ScanProbeFails,
          ScanSurfacesDfu, ScanInserts, ScanConnects, ScanReconciles, ScanReconcilesDfu
    <2>2. QED  BY <2>1 DEF Finished
  <1>4. QED  BY <1>1, <1>2, <1>3

LEMMA HubKeepsQueues ==
  ASSUME Core, NEW h \in Hubs, HubStep(h)
  PROVE  /\ \A j \in DOMAIN handler : ~Finished(j)' =>
              /\ ~Finished(j)
              /\ j # device_handles' => handler'[j].queue = handler[j].queue
         /\ \A j \in DOMAIN handler' \ DOMAIN handler : handler'[j].queue = << >>
  <1>1. CASE HubChecks(h)
    <2>1. Spawn(FALSE, "none") \/ UNCHANGED handler  BY <1>1 DEF HubChecks
    <2>2. "none" \in Sources  BY DEF Sources
    <2>3. QED  BY <2>1, <2>2, SpawnKeepsQueues DEF Finished
  <1>2. CASE HubMerges(h) \/ HubDetaches(h) \/ HubSaysBye(h)
    <2>1. /\ manager[h].pc \in Locking /\ UNCHANGED device_handles
          /\ \E kind \in LinkKinds : SendTo(device_handles, kind)
      BY <1>2 DEF HubMerges, HubDetaches, HubSaysBye, Tell, Managing, Locking, LinkKinds
    <2>2. device_handles \in DOMAIN handler
      BY <2>1, RegistryParameters, HandlersInUse DEF Core, LockOwners
    <2>3. QED  BY <2>1, <2>2, SendKeepsQueues
  <1>3. CASE HubQueues(h)
    <2>1. manager[h].spawned \in DOMAIN handler /\ manager[h].spawned = device_handles
      BY <1>3, HandlersInUse DEF HubQueues, Managing, Core, Spawns
    <2>2. SendTo(manager[h].spawned, "AddEventsDevice") /\ UNCHANGED device_handles
      BY <1>3 DEF HubQueues
    <2>3. QED  BY <2>1, <2>2, SendKeepsQueues DEF LinkKinds
  <1>4. CASE \/ HubStarts(h) \/ HubFindsDevice(h) \/ HubInserts(h) \/ HubConnects(h)
             \/ HubLosesDevice(h) \/ HubUpdates(h) \/ HubFails(h) \/ HubCleansUp(h)
    <2>1. UNCHANGED handler
      BY <1>4 DEF HubStarts, HubFindsDevice, HubInserts, HubConnects, HubLosesDevice,
                  HubUpdates, HubFails, HubCleansUp
    <2>2. QED  BY <2>1 DEF Finished
  <1>5. QED  BY <1>1, <1>2, <1>3, <1>4 DEF HubStep

\* The scan announces the handler in the table, or the DFU device.
LEMMA ScanConnectsTabled ==
  ASSUME Core, Probed, ScanStep
  PROVE  \/ UNCHANGED channel
         \/ \E m \in Message :
              Post(m) /\ (m.kind = "Connect" => m.by \in {Dfu, device_handles'})
  <1>1. CASE ScanConnects
    <2>1. scan.pc = "connect" /\ UNCHANGED device_handles
      BY <1>1 DEF ScanConnects, At, tables
    <2>2. device_handles' = scan.spawned
      BY <2>1, HandlersInUse DEF Probed, Core, Spawns
    <2>3. QED  BY <2>2, ScanSends
  <1>2. CASE ~ScanConnects
    <2>1. CASE ScanSurfacesDfu
      BY <2>1, SentByTasks DEF ScanSurfacesDfu
    <2>2. CASE ScanReconcilesDfu
      BY <2>2, SentByTasks DEF ScanReconcilesDfu
    <2>3. CASE ~(ScanSurfacesDfu \/ ScanReconcilesDfu)
      BY <1>2, <2>3
      DEF ScanStep, ScanLists, ScanCleans, ScanVisitsHub, ScanProbes, ScanProbeFails,
          ScanChecks, ScanMerges, ScanInserts, ScanReconciles, ScanTellsGone
    <2>4. QED  BY <2>1, <2>2, <2>3
  <1>3. QED  BY <1>1, <1>2

LEMMA HubConnectsTabled ==
  ASSUME Core, NEW h \in Hubs, HubStep(h)
  PROVE  \/ UNCHANGED channel
         \/ \E m \in Message :
              Post(m) /\ (m.kind = "Connect" => m.by \in {Dfu, device_handles'})
  <1>1. CASE HubConnects(h)
    <2>1. manager[h].pc = "connect" /\ UNCHANGED device_handles
      BY <1>1 DEF HubConnects, Managing, tables
    <2>2. device_handles' = manager[h].spawned
      BY <2>1, HandlersInUse DEF Core, Spawns
    <2>3. QED  BY <2>2, HubSends
  <1>2. CASE HubStarts(h) \/ HubUpdates(h) \/ HubFails(h)
    BY <1>2, SentByTasks DEF HubStarts, HubUpdates, HubFails
  <1>3. CASE ~(HubConnects(h) \/ HubStarts(h) \/ HubUpdates(h) \/ HubFails(h))
    BY <1>3
    DEF HubStep, HubFindsDevice, HubChecks, HubMerges, HubInserts, HubQueues,
        HubLosesDevice, HubDetaches, HubCleansUp, HubSaysBye, Tell
  <1>4. QED  BY <1>1, <1>2, <1>3

LEMMA NotDfu == HandlersOK' => Dfu \notin DOMAIN handler'
  <1> SUFFICES ASSUME HandlersOK' PROVE Dfu \notin DOMAIN handler'  OBVIOUS
  <1>1. DOMAIN handler' = 1 .. Len(handler') /\ Len(handler') \in Nat
    BY LenProperties DEF HandlersOK
  <1>2. QED  BY <1>1, RegistryParameters

LEMMA ScanKeepsSilent ==
  ASSUME Core, OnlyScan, Vacant, Silent, Probed, ScanStep
  PROVE  Silent'
  <1>1. UNCHANGED device_list  BY ScanSends DEF lists
  <1>2. Dfu \notin DOMAIN handler'
    BY ScanHandlers, NotDfu
  <1>3. device_handles' # device_handles => device_handles = None \/ Finished(device_handles)
    BY ScanEnters
  <1>4. QED
    BY <1>1, <1>2, <1>3, ScanKeepsQueues, ScanConnectsTabled, SilentKept

LEMMA HubKeepsSilent ==
  ASSUME Core, Vacant, Silent, NEW h \in Hubs, HubStep(h)
  PROVE  Silent'
  <1>1. UNCHANGED device_list  BY ManagerMoves DEF Core, lists
  <1>2. Dfu \notin DOMAIN handler'
    BY HubHandlers, NotDfu
  <1>3. device_handles' # device_handles => device_handles = None \/ Finished(device_handles)
    BY HubEnters
  <1>4. QED
    BY <1>1, <1>2, <1>3, HubKeepsQueues, HubConnectsTabled, SilentKept

\* A handler that has a message to take is the one in the table.
LEMMA HandlerKeepsSilent ==
  ASSUME Core, Silent, NEW i \in Ids, HandlerTakes(i) \/ HandlerLeaves(i) \/ HandlerFinishes(i)
  PROVE  Silent'
  <1>1. UNCHANGED <<device_list, device_handles>>
    BY DEF HandlerTakes, HandlerLeaves, HandlerFinishes, lists, tables
  <1>2. i \in DOMAIN handler
    BY DEF HandlerTakes, HandlerLeaves, HandlerFinishes, Running
  <1>3. /\ DOMAIN handler' = DOMAIN handler
        /\ \A j \in DOMAIN handler : j # i => handler'[j] = handler[j]
    BY <1>2, TakeChanges, LeaveChanges, FinishChanges DEF Core
  <1>4. ~Finished(i)' => /\ ~Finished(i)
                         /\ i # device_handles' => handler'[i].queue = handler[i].queue
    <2>1. handler[i] \in HandlerState  BY <1>2, TypeParts, HandlerIds DEF Core
    <2>2. CASE HandlerTakes(i)
      <3>1. Running(i) /\ handler[i].queue # << >>  BY <1>2, <2>2, TakeChanges DEF Core
      <3>2. ~Finished(i)  BY <3>1 DEF Running, Finished
      <3>3. device_handles = i  BY <1>2, <3>1, <3>2 DEF Silent
      <3>4. QED  BY <1>1, <3>2, <3>3
    <2>3. CASE HandlerLeaves(i)
      <3>1. Running(i) /\ handler'[i] = [handler[i] EXCEPT !.phase = "ending"]
        BY <1>2, <2>3, LeaveChanges DEF Core
      <3>2. handler'[i].queue = handler[i].queue  BY <2>1, <3>1 DEF HandlerState
      <3>3. QED  BY <3>1, <3>2 DEF Running, Finished
    <2>4. CASE HandlerFinishes(i)
      <3>1. handler'[i] = [handler[i] EXCEPT !.phase = "finished", !.queue = << >>]
        BY <2>4, FinishChanges DEF Core
      <3>2. handler'[i].phase = "finished"  BY <2>1, <3>1 DEF HandlerState
      <3>3. QED  BY <1>2, <1>3, <3>2 DEF Finished
    <2>5. QED  BY <2>2, <2>3, <2>4
  <1>5. \A j \in DOMAIN handler : ~Finished(j)' =>
          /\ ~Finished(j)
          /\ j # device_handles' => handler'[j].queue = handler[j].queue
    BY <1>3, <1>4 DEF Finished
  <1>6. \/ UNCHANGED channel
        \/ \E m \in Message :
             Post(m) /\ (m.kind = "Connect" => m.by \in {Dfu, device_handles'})
    BY HandlerSends
  <1>7. QED  BY <1>1, <1>3, <1>5, <1>6, HandlersInUse, SilentKept

LEMMA ForwardKeepsSilent ==
  ASSUME Core, Silent, Forward
  PROVE  Silent'
  <1>1. UNCHANGED device_handles  BY DEF Forward, tables
  <1>2. ASSUME NEW i \in DOMAIN handler', device_handles' # i, ~Finished(i)'
        PROVE  (handler'[i].queue = << >>) /\ NotOut(i)'
    <2>1. /\ i \in DOMAIN handler /\ handler'[i].queue = handler[i].queue /\ ~Finished(i)
      BY <1>2, ForwardChanges DEF Finished
    <2>2. handler[i].queue = << >> /\ NotOut(i)  BY <1>1, <1>2, <2>1 DEF Silent
    <2>3. QED  BY <2>1, <2>2, ForwardAddsNone
  <1>3. QED  BY <1>2 DEF Silent

(***************************************************************************)
(* What the scan registers is what it probed.                              *)
(***************************************************************************)
LEMMA ScanKeepsProbed ==
  ASSUME Core, OnlyScan, Vacant, Probed, ScanStep
  PROVE  Probed'
  <1>1. scan \in ScanState /\ HandlersOK  BY TypeParts DEF Core, TypeOK
  <1> SUFFICES ASSUME NEW i \in Ids, scan'.spawned = i
               PROVE  /\ handler'[i].queue = << >>
                      /\ handler'[i].control
                      /\ handler'[i].events = scan'.events
                      /\ scan'.pc = "connect" => device_handles' = i
    BY DEF Probed
  <1>2. CASE ScanChecks
    <2>0. scan.pc = "check" /\ scan.events \in Sources
      BY <1>1, <1>2 DEF ScanChecks, At, ScanState
    <2>1. scan.spawned = None  BY <2>0 DEF Core, Spawns
    <2>2. Evicted = None
      <3>1. Evicted # None => scan'.spawned = None
        BY <1>1, <1>2, <2>1 DEF ScanChecks, ScanState
      <3>2. QED  BY <3>1, HandlersInUse
    <2>3. Spawn(TRUE, scan.events)  BY <1>2, <2>2 DEF ScanChecks
    <2>4. /\ scan'.spawned = Len(handler) + 1 /\ scan'.events = scan.events
          /\ scan'.pc = "insert"
      BY <1>1, <1>2, <2>2 DEF ScanChecks, ScanState
    <2> DEFINE n == Len(handler) + 1
    <2>5. handler'[n] = [phase |-> "running", queue |-> << >>, control |-> TRUE,
                         events |-> scan.events, seen |-> FALSE]
      BY <1>1, <2>0, <2>3, SpawnAppends
    <2>6. i = n  BY <2>4
    <2> HIDE DEF n
    <2>7. handler'[n].queue = << >> /\ handler'[n].events = scan.events
      BY <2>5
    <2>8. handler'[n].control  BY <2>5
    <2>9. QED  BY <2>4, <2>6, <2>7, <2>8
  <1>3. CASE ScanInserts
    <2>1. /\ scan'.spawned = scan.spawned /\ scan'.events = scan.events
          /\ device_handles' = scan.spawned /\ UNCHANGED handler
      BY <1>1, <1>3 DEF ScanInserts, ScanState
    <2>2. QED  BY <2>1 DEF Probed
  <1>4. CASE ~(ScanChecks \/ ScanInserts)
    <2>1. scan'.spawned = None
      <3>1. CASE ScanLists \/ ScanReconcilesDfu
        <4>1. ScanLists => scan'.spawned = None  BY DEF ScanLists, IdleScan
        <4>2. ScanReconcilesDfu => scan'.spawned = None
          BY DEF ScanReconcilesDfu, IdleScan
        <4>3. QED  BY <3>1, <4>1, <4>2
      <3>2. CASE ScanConnects  BY <1>1, <3>2 DEF ScanConnects, ScanState
      <3>3. CASE ~(ScanLists \/ ScanReconcilesDfu \/ ScanConnects)
        <4>1. /\ scan.pc \in {"clean", "walk", "merge", "gone"}
              /\ scan'.spawned = scan.spawned
          BY <1>1, <1>4, <3>3
          DEF ScanStep, ScanCleans, ScanVisitsHub, ScanProbes, ScanProbeFails,
              ScanSurfacesDfu, ScanMerges, ScanReconciles, ScanTellsGone, At, ScanState
        <4>2. QED  BY <4>1 DEF Core, Spawns
      <3>4. QED  BY <3>1, <3>2, <3>3
    <2>2. QED  BY <2>1, HandlersInUse
  <1>5. QED  BY <1>2, <1>3, <1>4

LEMMA HubKeepsProbed ==
  ASSUME Core, OnlyScan, NEW h \in Hubs, HubStep(h)
  PROVE  Probed'
  <1>1. UNCHANGED scan  BY ManagerMoves DEF Core, scanning
  <1>2. scan.spawned = None  BY DEF OnlyScan, Core, Spawns
  <1>3. QED  BY <1>1, <1>2, HandlersInUse DEF Probed

LEMMA HandlerKeepsProbed ==
  ASSUME Core, Probed, NEW i \in Ids, HandlerTakes(i) \/ HandlerLeaves(i) \/ HandlerFinishes(i)
  PROVE  Probed'
  <1>1. UNCHANGED <<scan, device_handles>>
    BY DEF HandlerTakes, HandlerLeaves, HandlerFinishes, scanning, tables
  <1>2. i \in DOMAIN handler
    BY DEF HandlerTakes, HandlerLeaves, HandlerFinishes, Running
  <1>3. \A j \in DOMAIN handler : j # i => handler'[j] = handler[j]
    BY <1>2, TakeChanges, LeaveChanges, FinishChanges DEF Core
  <1>4. scan.spawned # i
    <2> SUFFICES ASSUME scan.spawned = i PROVE FALSE  OBVIOUS
    <2>1. ScanFresh(i) /\ handler[i].queue = << >>  BY DEF Core, Fresh, Probed
    <2>2. ~HandlerTakes(i)  BY <2>1 DEF HandlerTakes
    <2>3. ~HandlerLeaves(i)  BY <2>1 DEF HandlerLeaves, ScanFresh, Open
    <2>4. ~HandlerFinishes(i)  BY <2>1 DEF HandlerFinishes, ScanFresh, Running
    <2>5. QED  BY <2>2, <2>3, <2>4
  <1>5. QED  BY <1>1, <1>3, <1>4, HandlersInUse DEF Probed

LEMMA ForwardKeepsProbed ==
  ASSUME Core, Probed, Forward
  PROVE  Probed'
  <1>1. UNCHANGED <<scan, device_handles>>  BY DEF Forward, scanning, tables
  <1>2. QED  BY <1>1, ForwardChanges, HandlersInUse DEF Probed

(***************************************************************************)
(* The last news of a handler is how it is.                                *)
(***************************************************************************)
\* A handler that clients hear of has been announced before.
LEMMA StillNotOut ==
  ASSUME Core, UNCHANGED device_list, NEW i,
         \/ UNCHANGED channel
         \/ \E m \in Message : Post(m) /\ ~(m.kind = "Connect" /\ m.by = i)
  PROVE  /\ NotOut(i) => NotOut(i)'
         /\ i \notin DOMAIN handler /\ i # Dfu => NotOut(i)'
  <1>1. i \notin DOMAIN handler /\ i # Dfu => NotOut(i)  BY DEF Core, Known, NotOut
  <1>2. CASE UNCHANGED channel  BY <1>1, <1>2 DEF NotOut
  <1>3. ASSUME NEW m \in Message, Post(m), ~(m.kind = "Connect" /\ m.by = i)
        PROVE  NotOut(i) => NotOut(i)'
    <2> DEFINE n == Len(channel) + 1
    <2>1. /\ DOMAIN channel' = DOMAIN channel \cup {n} /\ channel'[n] = m
          /\ \A k \in DOMAIN channel : channel'[k] = channel[k]
      BY <1>3, TypeParts, PostAppends DEF Core
    <2> HIDE DEF n
    <2>2. QED  BY <1>3, <2>1 DEF NotOut
  <1>4. QED  BY <1>1, <1>2, <1>3

\* Nothing new is said and handlers stay as they are, or end.
LEMMA ToldKept ==
  ASSUME Core, Told, UNCHANGED device_list, Dfu \notin DOMAIN handler',
         \A j \in DOMAIN handler : Running(j)' =>
           /\ Running(j)
           /\ handler'[j].control = handler[j].control
           /\ handler'[j].events = handler[j].events,
         UNCHANGED channel \/ \E m \in Message : Post(m) /\ ~News(m)
  PROVE  Told'
  <1> SUFFICES ASSUME NEW i \in DOMAIN handler', Running(i)', ~NotOut(i)'
               PROVE  TellsOf(i)'
    BY DEF Told
  <1>1. \/ UNCHANGED channel
        \/ \E m \in Message : Post(m) /\ ~(m.kind = "Connect" /\ m.by = i)
    BY DEF News
  <1>2. i \in DOMAIN handler /\ ~NotOut(i)  BY <1>1, StillNotOut
  <1>3. /\ Running(i) /\ handler'[i].control = handler[i].control
        /\ handler'[i].events = handler[i].events
    BY <1>2
  <1>4. TellsOf(i)  BY <1>2, <1>3 DEF Told
  <1>5. CASE UNCHANGED channel
    <2>1. \A m : Matches(m, handler[i]) => Matches(m, handler'[i])
      BY <1>3 DEF Matches
    <2>2. QED  BY <1>4, <1>5, <2>1 DEF TellsOf
  <1>6. ASSUME NEW m \in Message, Post(m), ~News(m) PROVE TellsOf(i)'
    <2> DEFINE n == Len(channel) + 1
    <2>1. /\ DOMAIN channel' = DOMAIN channel \cup {n} /\ channel'[n] = m
          /\ \A k \in DOMAIN channel : channel'[k] = channel[k]
      BY <1>6, TypeParts, PostAppends DEF Core
    <2> HIDE DEF n
    <2>2. \A k \in DOMAIN channel' : News(channel'[k]) =>
            k \in DOMAIN channel /\ channel'[k] = channel[k]
      BY <1>6, <2>1
    <2>3. \A l : Matches(l, handler[i]) => Matches(l, handler'[i])
      BY <1>3 DEF Matches
    <2>4. ASSUME NEW k \in DOMAIN channel', News(channel'[k]),
                 \A l \in DOMAIN channel' : l > k => ~News(channel'[l])
          PROVE  Matches(channel'[k], handler'[i])
      <3>1. k \in DOMAIN channel /\ channel'[k] = channel[k]  BY <2>2, <2>4
      <3>2. \A l \in DOMAIN channel : l > k => ~News(channel[l])  BY <2>1, <2>4
      <3>3. Matches(channel[k], handler[i])  BY <1>4, <2>4, <3>1, <3>2 DEF TellsOf
      <3>4. QED  BY <2>3, <3>1, <3>3
    <2>5. ASSUME \A k \in DOMAIN channel' : ~News(channel'[k]),
                 device_list' # None, device_list'.commands = i
          PROVE  Matches(device_list', handler'[i])
      <3>1. \A k \in DOMAIN channel : ~News(channel[k])  BY <2>1, <2>5
      <3>2. QED  BY <1>4, <2>3, <2>5, <3>1 DEF TellsOf
    <2>6. QED  BY <2>4, <2>5 DEF TellsOf
  <1>7. QED  BY <1>5, <1>6

\* News is of the handler in the table, and right; of the others clients have
\* not heard.
LEMMA ToldPosted ==
  ASSUME Core, Silent, Told, UNCHANGED device_list, Dfu \notin DOMAIN handler',
         DOMAIN handler' = DOMAIN handler,
         \A j \in DOMAIN handler : Running(j)' => Running(j),
         NEW m \in Message, Post(m), News(m),
         m.kind = "Connect" => m.by \in {Dfu, device_handles},
         device_handles # None => Matches(m, handler'[device_handles])
  PROVE  Told'
  <1> SUFFICES ASSUME NEW i \in DOMAIN handler', Running(i)', ~NotOut(i)'
               PROVE  TellsOf(i)'
    BY DEF Told
  <1>1. i \in DOMAIN handler /\ Running(i) /\ ~Finished(i)
    BY DEF Running, Finished
  <1>2. device_handles = i
    <2> SUFFICES ASSUME device_handles # i PROVE FALSE  OBVIOUS
    <2>1. NotOut(i)  BY <1>1 DEF Silent
    <2>2. ~(m.kind = "Connect" /\ m.by = i)  OBVIOUS
    <2>3. QED  BY <2>1, <2>2, StillNotOut
  <1>3. Matches(m, handler'[i])  BY <1>1, <1>2, HandlersInUse
  <1>4. PICK n \in Nat :
           /\ DOMAIN channel' = DOMAIN channel \cup {n} /\ channel'[n] = m
           /\ \A k \in DOMAIN channel : k < n /\ channel'[k] = channel[k]
           /\ \A k \in DOMAIN channel' : k \in Nat
    <2> DEFINE n == Len(channel) + 1
    <2>1. /\ DOMAIN channel' = DOMAIN channel \cup {n} /\ channel'[n] = m
          /\ \A k \in DOMAIN channel : k < n /\ channel'[k] = channel[k]
      BY TypeParts, PostAppends DEF Core
    <2> HIDE DEF n
    <2>2. ChannelOK'  BY TypeParts, PostAppends DEF Core
    <2>3. \A k \in DOMAIN channel' : k \in Nat  BY <2>2, LenProperties DEF ChannelOK
    <2>4. QED  BY <2>1, <2>3
  <1>5. ASSUME NEW k \in DOMAIN channel',
               \A l \in DOMAIN channel' : l > k => ~News(channel'[l])
        PROVE  Matches(channel'[k], handler'[i])
    <2>1. ~(n > k)  BY <1>4, <1>5
    <2>2. k = n  BY <1>4, <1>5, <2>1
    <2>3. QED  BY <1>3, <1>4, <2>2
  <1>6. ~ \A k \in DOMAIN channel' : ~News(channel'[k])  BY <1>4
  <1>7. QED  BY <1>5, <1>6 DEF TellsOf

\* The news of a DFU device comes when there is no handler.
LEMMA ScanKeepsTold ==
  ASSUME Core, Silent, Probed, Told, ScanStep
  PROVE  Told'
  <1>1. UNCHANGED device_list  BY ScanSends DEF lists
  <1>2. Dfu \notin DOMAIN handler'  BY ScanHandlers, NotDfu
  <1>3. \A j \in DOMAIN handler : Running(j)' =>
          /\ Running(j)
          /\ handler'[j].control = handler[j].control
          /\ handler'[j].events = handler[j].events
    BY ScanHandlers DEF Running
  <1>4. CASE ScanSurfacesDfu
    <2> DEFINE m == [kind |-> "Connect", by |-> Dfu, control |-> FALSE, events |-> "none"]
    <2>1. UNCHANGED channel \/ (device_handles = None /\ Post(m))
      BY <1>4 DEF ScanSurfacesDfu, AlreadyTracked
    <2>2. /\ m \in Message /\ m.by = Dfu /\ News(m) /\ UNCHANGED handler
      BY <1>4, SentByTasks DEF ScanSurfacesDfu, News
    <2> HIDE DEF m
    <2>3. QED  BY <1>1, <1>2, <1>3, <2>1, <2>2, ToldKept, ToldPosted
  <1>5. CASE ScanReconcilesDfu
    <2> DEFINE m == [kind |-> "Disconnect", by |-> Dfu]
    <2>1. UNCHANGED channel \/ Post(m)  BY <1>5 DEF ScanReconcilesDfu
    <2>2. m \in Message /\ ~News(m)  BY SentByTasks DEF News
    <2> HIDE DEF m
    <2>3. QED  BY <1>1, <1>2, <1>3, <2>1, <2>2, ToldKept
  <1>6. CASE ScanConnects
    <2> DEFINE m == [kind |-> "Connect", by |-> scan.spawned, control |-> TRUE,
                     events |-> scan.events]
               i == scan.spawned
    <2>1. scan.pc = "connect" /\ Post(m) /\ UNCHANGED handler
      BY <1>6 DEF ScanConnects, At
    <2>2. i \in Ids /\ i \in DOMAIN handler
      BY <2>1, HandlersInUse DEF Core, Spawns
    <2>3. device_handles = i /\ handler[i].control /\ handler[i].events = scan.events
      BY <2>1, <2>2 DEF Probed
    <2>4. handler[i].control = TRUE
      <3>1. handler[i].control \in BOOLEAN
        BY <2>2, TypeParts, HandlerIds DEF Core, HandlerState
      <3>2. QED  BY <2>3, <3>1
    <2>5. /\ m \in Message /\ News(m) /\ m.by = device_handles
          /\ Matches(m, handler[device_handles])
      BY <2>1, <2>3, <2>4, SentByTasks DEF News, Matches
    <2> HIDE DEF m, i
    <2>6. QED  BY <1>1, <1>2, <1>3, <2>1, <2>5, ToldPosted
  <1>7. CASE ~(ScanSurfacesDfu \/ ScanReconcilesDfu \/ ScanConnects)
    <2>1. UNCHANGED channel
      BY <1>7
      DEF ScanStep, ScanLists, ScanCleans, ScanVisitsHub, ScanProbes, ScanProbeFails,
          ScanChecks, ScanMerges, ScanInserts, ScanReconciles, ScanTellsGone
    <2>2. QED  BY <1>1, <1>2, <1>3, <2>1, ToldKept
  <1>8. QED  BY <1>4, <1>5, <1>6, <1>7

LEMMA HubKeepsTold ==
  ASSUME Core, Silent, Told, NEW h \in Hubs, HubStep(h)
  PROVE  Told'
  <1>1. UNCHANGED device_list  BY ManagerMoves DEF Core, lists
  <1>2. Dfu \notin DOMAIN handler'  BY HubHandlers, NotDfu
  <1>3. \A j \in DOMAIN handler : Running(j)' =>
          /\ Running(j)
          /\ handler'[j].control = handler[j].control
          /\ handler'[j].events = handler[j].events
    BY HubHandlers DEF Running
  <1>4. CASE UNCHANGED channel  BY <1>1, <1>2, <1>3, <1>4, ToldKept
  <1>5. ASSUME NEW m \in Message, Post(m), m.by = h,
               m.kind \in {"DongleConnect", "DongleUpdate", "DongleDisconnect"}
        PROVE  Told'
    BY <1>1, <1>2, <1>3, <1>5, ToldKept DEF News
  <1>6. ASSUME NEW m \in Message, Post(m), m.kind = "Connect", m.by = manager[h].spawned,
               m.control = FALSE, m.events = "none", manager[h].pc = "connect",
               UNCHANGED handler
        PROVE  Told'
    <2>1. PICK i \in Ids : i = manager[h].spawned /\ i \in DOMAIN handler
      BY <1>6, HandlersInUse DEF Core, Spawns
    <2>2. device_handles = i /\ HubFresh(i)  BY <1>6, <2>1 DEF Core, Spawns, Fresh
    <2>3. handler[i].control = FALSE /\ handler[i].events = "none"
      <3>1. handler[i].control \in BOOLEAN
        BY <2>1, TypeParts, HandlerIds DEF Core, HandlerState
      <3>2. QED  BY <2>2, <3>1 DEF HubFresh
    <2>4. News(m) /\ Matches(m, handler[i])  BY <1>6, <2>3 DEF News, Matches
    <2>5. QED  BY <1>1, <1>2, <1>3, <1>6, <2>1, <2>2, <2>4, ToldPosted
  <1>7. QED  BY <1>4, <1>5, <1>6, HubSends

LEMMA HandlerKeepsTold ==
  ASSUME Core, Silent, Told, NEW i \in Ids, HandlerTakes(i) \/ HandlerLeaves(i) \/ HandlerFinishes(i)
  PROVE  Told'
  <1>1. UNCHANGED device_list
    BY DEF HandlerTakes, HandlerLeaves, HandlerFinishes, lists
  <1>2. i \in DOMAIN handler
    BY DEF HandlerTakes, HandlerLeaves, HandlerFinishes, Running
  <1>3. /\ DOMAIN handler' = DOMAIN handler
        /\ \A j \in DOMAIN handler : j # i => handler'[j] = handler[j]
    BY <1>2, TakeChanges, LeaveChanges, FinishChanges DEF Core
  <1>4. Dfu \notin DOMAIN handler'  BY <1>3, HandlersInUse
  <1>5. handler[i] \in HandlerState  BY <1>2, TypeParts, HandlerIds DEF Core
  <1>6. CASE HandlerTakes(i)
    <2>1. Running(i) /\ handler[i].queue # << >>  BY <1>2, <1>6, TakeChanges DEF Core
    <2>2. ~Finished(i)  BY <2>1 DEF Running, Finished
    <2>3. device_handles = i  BY <1>2, <2>1, <2>2 DEF Silent
    <2> DEFINE m == [kind |-> "Update", by |-> i, control |-> handler'[i].control,
                     events |-> handler'[i].events]
    <2>4. \/ Post(m) /\ m \in Message
          \/ /\ UNCHANGED channel
             /\ handler'[i].phase = "running" =>
                  /\ handler'[i].control = handler[i].control
                  /\ handler'[i].events = handler[i].events
      BY <1>2, <1>6, TakeChanges DEF Core
    <2>5. m.kind = "Update" /\ News(m) /\ Matches(m, handler'[i])  BY DEF News, Matches
    <2> HIDE DEF m
    <2>6. \A j \in DOMAIN handler : Running(j)' => Running(j)
      BY <1>3, <2>1 DEF Running
    <2>7. CASE Post(m) /\ m \in Message
      BY <1>1, <1>3, <1>4, <2>3, <2>5, <2>6, <2>7, ToldPosted
    <2>8. CASE /\ UNCHANGED channel
               /\ handler'[i].phase = "running" =>
                    /\ handler'[i].control = handler[i].control
                    /\ handler'[i].events = handler[i].events
      <3>1. \A j \in DOMAIN handler : Running(j)' =>
              /\ Running(j)
              /\ handler'[j].control = handler[j].control
              /\ handler'[j].events = handler[j].events
        BY <1>3, <2>6, <2>8 DEF Running
      <3>2. QED  BY <1>1, <1>4, <2>8, <3>1, ToldKept
    <2>9. QED  BY <2>4, <2>7, <2>8
  <1>7. CASE HandlerLeaves(i)
    <2>1. handler'[i] = [handler[i] EXCEPT !.phase = "ending"]
      BY <1>2, <1>7, LeaveChanges DEF Core
    <2>2. handler'[i].phase = "ending"  BY <1>5, <2>1 DEF HandlerState
    <2>3. UNCHANGED channel  BY <1>7 DEF HandlerLeaves
    <2>4. \A j \in DOMAIN handler : Running(j)' =>
            /\ Running(j)
            /\ handler'[j].control = handler[j].control
            /\ handler'[j].events = handler[j].events
      BY <1>3, <2>2 DEF Running
    <2>5. QED  BY <1>1, <1>4, <2>3, <2>4, ToldKept
  <1>8. CASE HandlerFinishes(i)
    <2>1. handler'[i] = [handler[i] EXCEPT !.phase = "finished", !.queue = << >>]
      BY <1>8, FinishChanges DEF Core
    <2>2. handler'[i].phase = "finished"  BY <1>5, <2>1 DEF HandlerState
    <2> DEFINE m == [kind |-> "Disconnect", by |-> i]
    <2>3. Post(m)  BY <1>8 DEF HandlerFinishes, SayGoodbye
    <2>4. m \in Message /\ ~News(m)  BY DEF Message, News
    <2> HIDE DEF m
    <2>5. \A j \in DOMAIN handler : Running(j)' =>
            /\ Running(j)
            /\ handler'[j].control = handler[j].control
            /\ handler'[j].events = handler[j].events
      BY <1>3, <2>2 DEF Running
    <2>6. QED  BY <1>1, <1>4, <2>3, <2>4, <2>5, ToldKept
  <1>9. QED  BY <1>6, <1>7, <1>8

\* What is forwarded last is what the entry shows.
LEMMA ForwardKeepsTold ==
  ASSUME Core, Told, Forward
  PROVE  Told'
  <1> SUFFICES ASSUME NEW i \in DOMAIN handler', Running(i)', ~NotOut(i)'
               PROVE  TellsOf(i)'
    BY DEF Told
  <1> DEFINE m == channel[1]
  <1>1. /\ ChannelOK /\ ChannelOK' /\ 1 \in DOMAIN channel /\ Head(channel) = m
        /\ \A k \in DOMAIN channel' : k + 1 \in DOMAIN channel
                                      /\ channel'[k] = channel[k + 1]
        /\ \A k \in DOMAIN channel : k # 1 => k - 1 \in DOMAIN channel'
                                              /\ channel'[k - 1] = channel[k]
    BY TypeParts, ForwardShifts DEF Core, Forward
  <1>2. \A k \in DOMAIN channel : k \in Nat /\ k >= 1
    BY <1>1, ChannelIndices
  <1>3. \A k \in DOMAIN channel' : k \in Nat  BY <1>1, LenProperties DEF ChannelOK
  <1>4. /\ i \in DOMAIN handler /\ Running(i)
        /\ handler'[i].control = handler[i].control
        /\ handler'[i].events = handler[i].events
    BY ForwardChanges DEF Running
  <1>5. ~NotOut(i)  BY ForwardAddsNone
  <1>6. TellsOf(i)  BY <1>4, <1>5 DEF Told
  <1>7. \A l : Matches(l, handler[i]) => Matches(l, handler'[i])
    BY <1>4 DEF Matches
  <1>8. ASSUME NEW k \in DOMAIN channel', News(channel'[k]),
               \A l \in DOMAIN channel' : l > k => ~News(channel'[l])
        PROVE  Matches(channel'[k], handler'[i])
    <2>1. k \in Nat /\ k + 1 \in DOMAIN channel /\ channel'[k] = channel[k + 1]
      BY <1>1, <1>3
    <2>2. ASSUME NEW l \in DOMAIN channel, l > k + 1 PROVE ~News(channel[l])
      <3>1. l \in Nat /\ l - 1 > k /\ l # 1  BY <1>2, <2>1, <2>2
      <3>2. l - 1 \in DOMAIN channel' /\ channel'[l - 1] = channel[l]  BY <1>1, <3>1
      <3>3. QED  BY <1>8, <3>1, <3>2
    <2>3. Matches(channel[k + 1], handler[i])  BY <1>6, <1>8, <2>1, <2>2 DEF TellsOf
    <2>4. QED  BY <1>7, <2>1, <2>3
  <1>9. ASSUME \A k \in DOMAIN channel' : ~News(channel'[k]),
               device_list' # None, device_list'.commands = i
        PROVE  Matches(device_list', handler'[i])
    <2>1. ASSUME NEW l \in DOMAIN channel, l > 1 PROVE ~News(channel[l])
      <3>1. l # 1  BY <1>2, <2>1
      <3>2. l - 1 \in DOMAIN channel' /\ channel'[l - 1] = channel[l]  BY <1>1, <3>1
      <3>3. QED  BY <1>9, <3>2
    <2>2. CASE News(m)
      <3>1. Matches(m, handler[i])  BY <1>1, <1>6, <2>1, <2>2 DEF TellsOf
      <3>2. device_list'.control = m.control /\ device_list'.events = m.events
        <4>1. CASE m.kind = "Connect"
          <5>1. device_list' = Listed(m)  BY <1>1, <4>1 DEF Forward
          <5>2. QED  BY <5>1 DEF Listed
        <4>2. CASE m.kind = "Update"
          <5>1. device_list' = Updated(m)  BY <1>1, <4>2 DEF Forward
          <5>2. device_list \in Entry \cup {None}  BY DEF Core, TypeOK
          <5>3. device_list # None  BY <1>9, <5>1 DEF Updated
          <5>4. QED  BY <5>1, <5>2, <5>3 DEF Updated, Entry
        <4>3. QED  BY <2>2, <4>1, <4>2 DEF News
      <3>3. QED  BY <1>7, <3>1, <3>2 DEF Matches
    <2>3. CASE ~News(m)
      <3>1. m.kind \notin {"Connect", "Update"}  BY <2>3 DEF News
      <3>2. device_list' = device_list
        BY <1>1, <1>9, <3>1 DEF Forward
      <3>3. \A k \in DOMAIN channel : ~News(channel[k])
        BY <1>2, <2>1, <2>3
      <3>4. Matches(device_list, handler[i])  BY <1>6, <1>9, <3>2, <3>3 DEF TellsOf
      <3>5. QED  BY <1>7, <3>2, <3>4
    <2>4. QED  BY <2>2, <2>3
  <1>10. QED  BY <1>8, <1>9 DEF TellsOf

LEMMA InitPath == Init => Path
  <1> SUFFICES ASSUME Init PROVE Path  OBVIOUS
  <1>1. DOMAIN << >> = {}  BY EmptySeq
  <1>2. IdleScan.pc = "list" /\ IdleScan.spawned = None /\ NoManager.pc = "none"
    BY DEF IdleScan, NoManager
  <1>3. None \notin Ids  BY RegistryParameters DEF Ids
  <1>4. QED
    BY <1>1, <1>2, <1>3 DEF Init, Path, OnlyScan, Vacant, Silent, Probed, Told

LEMMA StepKeepsPath == OnePath /\ Core /\ Path /\ [Next]_vars => Path'
  <1> SUFFICES ASSUME OnePath, Core, Path, [Next]_vars PROVE Path'  OBVIOUS
  <1>1. OnlyScan /\ Vacant /\ Silent /\ Probed /\ Told  BY DEF Path
  <1>2. CASE Surroundings \/ UNCHANGED vars
    <2>1. UNCHANGED <<scan, manager, device_handles, handler, channel, device_list>>
      BY <1>2, SurroundingsLeave DEF vars, scanning, tables, lists
    <2>2. OnlyScan' /\ Vacant' /\ Probed'
      BY <1>1, <2>1 DEF OnlyScan, Vacant, Probed
    <2>3. Silent'  BY <1>1, <2>1 DEF Silent, Finished, NotOut
    <2>4. Told'  BY <1>1, <2>1 DEF Told, TellsOf, NotOut, Running
    <2>5. QED  BY <2>2, <2>3, <2>4 DEF Path
  <1>3. CASE ScanStep
    BY <1>1, <1>3, ScanKeepsOnlyScan, ScanKeepsVacant, ScanKeepsSilent, ScanKeepsProbed,
       ScanKeepsTold DEF Path
  <1>4. ASSUME NEW h \in Hubs, HubStep(h) PROVE Path'
    <2>1. OnlyScan'  BY <1>1, <1>4, ManagerMoves DEF Core, OnlyScan, scanning
    <2>2. QED
      BY <1>1, <1>4, <2>1, HubKeepsVacant, HubKeepsSilent, HubKeepsProbed, HubKeepsTold
      DEF Path
  <1>5. ASSUME NEW i \in Ids, HandlerTakes(i) \/ HandlerLeaves(i) \/ HandlerFinishes(i)
        PROVE  Path'
    <2>1. UNCHANGED <<scan, manager, device_handles>>
      BY <1>5 DEF HandlerTakes, HandlerLeaves, HandlerFinishes, scanning, tables
    <2>2. OnlyScan' /\ Vacant'  BY <1>1, <2>1 DEF OnlyScan, Vacant
    <2>3. QED
      BY <1>1, <1>5, <2>2, HandlerKeepsSilent, HandlerKeepsProbed, HandlerKeepsTold
      DEF Path
  <1>6. CASE Forward
    <2>1. UNCHANGED <<scan, manager, device_handles>>
      BY <1>6 DEF Forward, scanning, tables
    <2>2. OnlyScan' /\ Vacant'  BY <1>1, <2>1 DEF OnlyScan, Vacant
    <2>3. QED
      BY <1>1, <1>6, <2>2, ForwardKeepsSilent, ForwardKeepsProbed, ForwardKeepsTold
      DEF Path
  <1>7. QED  BY <1>2, <1>3, <1>4, <1>5, <1>6 DEF Next

\* Of a device with one path, by USB or one dongle, clients see the connections
\* there are as soon as nothing is left to forward, whatever fails and comes
\* back and however many handlers it has had (777-817, 1287-1315, 2229-2427;
\* lib.rs 362-446).
THEOREM ListStaysCurrent == OnePath => (Spec => []ListIsCurrent)
  <1>1. Core /\ Path => ListIsCurrent
    <2> SUFFICES ASSUME Core, Path, NEW i \in Ids, channel = << >>, Running(i),
                        device_list # None, device_list.commands = i
                 PROVE  /\ device_list.control = handler[i].control
                        /\ device_list.events = handler[i].events
      BY DEF ListIsCurrent
    <2>1. i \in DOMAIN handler /\ ~NotOut(i)  BY DEF Running, NotOut
    <2>2. DOMAIN channel = {}  BY EmptySeq
    <2>3. TellsOf(i)  BY <2>1 DEF Path, Told
    <2>4. Matches(device_list, handler[i])  BY <2>2, <2>3 DEF TellsOf
    <2>5. QED  BY <2>4 DEF Matches
  <1>2. SUFFICES ASSUME OnePath PROVE Spec => []ListIsCurrent  OBVIOUS
  <1>3. Core /\ Path /\ [Next]_vars => Path'  BY <1>2, StepKeepsPath
  <1>4. QED  BY CoreHolds, InitPath, <1>1, <1>3, PTL DEF Spec

(***************************************************************************)
(* The wired path alone: one handler at a time, and it is listed.          *)
(***************************************************************************)
Alone ==
  \A i \in DOMAIN handler :
    ~Finished(i) => device_handles = i \/ scan.spawned = i

LEMMA AloneKept ==
  ASSUME Core, Alone, DOMAIN handler' = DOMAIN handler, scan'.spawned = scan.spawned,
         \A j \in DOMAIN handler : ~Finished(j)' => ~Finished(j),
         device_handles' = device_handles \/ Finished(device_handles)
  PROVE  Alone'
  <1> SUFFICES ASSUME NEW i \in DOMAIN handler', ~Finished(i)'
               PROVE  device_handles' = i \/ scan'.spawned = i
    BY DEF Alone
  <1>1. i \in DOMAIN handler /\ ~Finished(i)  OBVIOUS
  <1>2. QED  BY <1>1 DEF Alone

LEMMA ScanKeepsAlone ==
  ASSUME Core, OnlyScan, Vacant, Probed, Alone, ScanStep
  PROVE  Alone'
  <1>1. scan \in ScanState /\ HandlersOK  BY TypeParts DEF Core, TypeOK
  <1>2. \A j \in DOMAIN handler : ~Finished(j)' => ~Finished(j)
    BY ScanHandlers DEF Finished
  <1>3. CASE ScanChecks
    <2>1. /\ device_handles' = Evicted /\ scan.pc = "check" /\ scan.events \in Sources
      BY <1>1, <1>3 DEF ScanChecks, At, ScanState
    <2>2. scan.spawned = None  BY <2>1 DEF Core, Spawns
    <2>3. CASE Evicted # None
      <3>1. UNCHANGED handler /\ scan'.spawned = scan.spawned /\ device_handles' = device_handles
        BY <1>1, <1>3, <2>1, <2>3, EvictedIs DEF ScanChecks, ScanState
      <3>2. QED  BY <1>2, <3>1, AloneKept
    <2>4. CASE Evicted = None
      <3>1. Spawn(TRUE, scan.events) /\ scan'.spawned = Len(handler) + 1
        BY <1>1, <1>3, <2>4 DEF ScanChecks, ScanState
      <3>2. DOMAIN handler' = DOMAIN handler \cup {scan'.spawned}
        BY <1>1, <2>1, <3>1, SpawnAppends
      <3>3. \A j \in DOMAIN handler : Finished(j)
        BY <2>2, <2>4, HandlersInUse DEF Alone, Evicted
      <3>4. QED  BY <1>2, <3>2, <3>3 DEF Alone
    <2>5. QED  BY <2>3, <2>4
  <1>4. CASE ScanInserts
    <2>1. /\ scan'.spawned = scan.spawned /\ device_handles' = scan.spawned
          /\ UNCHANGED handler /\ device_handles = None
      BY <1>1, <1>4 DEF ScanInserts, At, ScanState, Vacant
    <2>2. QED  BY <2>1, HandlersInUse DEF Alone, Finished
  <1>5. CASE ScanConnects
    <2>1. scan.pc = "connect" /\ UNCHANGED <<device_handles, handler>>
      BY <1>5 DEF ScanConnects, At, tables
    <2>2. device_handles = scan.spawned
      BY <2>1, HandlersInUse DEF Probed, Core, Spawns
    <2>3. QED  BY <2>1, <2>2 DEF Alone, Finished
  <1>6. CASE ~(ScanChecks \/ ScanInserts \/ ScanConnects)
    <2>1. scan'.spawned = scan.spawned
      <3>1. CASE ScanLists \/ ScanReconcilesDfu
        <4>1. scan.pc \in {"list", "dfu"} /\ scan'.spawned = None
          <5>1. ScanLists => scan.pc = "list" /\ scan'.spawned = None
            BY DEF ScanLists, IdleScan, At
          <5>2. ScanReconcilesDfu => scan.pc = "dfu" /\ scan'.spawned = None
            BY DEF ScanReconcilesDfu, IdleScan, At
          <5>3. QED  BY <3>1, <5>1, <5>2
        <4>2. QED  BY <4>1 DEF Core, Spawns
      <3>2. CASE ~(ScanLists \/ ScanReconcilesDfu)
        BY <1>1, <1>6, <3>2
        DEF ScanStep, ScanCleans, ScanVisitsHub, ScanProbes, ScanProbeFails,
            ScanSurfacesDfu, ScanMerges, ScanReconciles, ScanTellsGone, ScanState
      <3>3. QED  BY <3>1, <3>2
    <2>2. DOMAIN handler' = DOMAIN handler
      <3>1. CASE ScanMerges \/ ScanTellsGone
        <4>1. scan.pc \in {"merge", "gone"} /\ \E kind \in LinkKinds : SendTo(device_handles, kind)
          BY <3>1 DEF ScanMerges, ScanTellsGone, At, LinkKinds
        <4>2. device_handles \in DOMAIN handler
          BY <4>1, RegistryParameters, HandlersInUse DEF Core, LockOwners
        <4>3. QED  BY <1>1, <4>1, <4>2, SendChanges
      <3>2. CASE ~(ScanMerges \/ ScanTellsGone)
        BY <1>6, <3>2
        DEF ScanStep, ScanLists, ScanCleans, ScanVisitsHub, ScanProbes, ScanProbeFails,
            ScanSurfacesDfu, ScanReconciles, ScanReconcilesDfu
      <3>3. QED  BY <3>1, <3>2
    <2>3. device_handles' = device_handles \/ Finished(device_handles)
      <3>1. CASE ScanCleans  BY <3>1, EvictedIs DEF ScanCleans, Evicted
      <3>2. CASE ~ScanCleans
        BY <1>6, <3>2
        DEF ScanStep, ScanLists, ScanVisitsHub, ScanProbes, ScanProbeFails,
            ScanSurfacesDfu, ScanMerges, ScanReconciles, ScanTellsGone,
            ScanReconcilesDfu, tables
      <3>3. QED  BY <3>1, <3>2
    <2>4. QED  BY <1>2, <2>1, <2>2, <2>3, AloneKept
  <1>7. QED  BY <1>3, <1>4, <1>5, <1>6

LEMMA StepKeepsAlone ==
  Hubs = {} /\ Core /\ Path /\ Alone /\ [Next]_vars => Alone'
  <1> SUFFICES ASSUME Hubs = {}, Core, Path, Alone, [Next]_vars PROVE Alone'  OBVIOUS
  <1>1. CASE Surroundings \/ UNCHANGED vars
    <2>1. UNCHANGED <<scan, device_handles, handler>>
      BY <1>1, SurroundingsLeave DEF vars, scanning, tables
    <2>2. QED  BY <2>1 DEF Alone, Finished
  <1>2. CASE ScanStep  BY <1>2, ScanKeepsAlone DEF Path
  <1>3. ASSUME NEW i \in Ids, HandlerTakes(i) \/ HandlerLeaves(i) \/ HandlerFinishes(i)
        PROVE  Alone'
    <2>1. UNCHANGED <<scan, device_handles>>
      BY <1>3 DEF HandlerTakes, HandlerLeaves, HandlerFinishes, scanning, tables
    <2>2. i \in DOMAIN handler
      BY <1>3 DEF HandlerTakes, HandlerLeaves, HandlerFinishes, Running
    <2>3. /\ DOMAIN handler' = DOMAIN handler
          /\ \A j \in DOMAIN handler : j # i => handler'[j] = handler[j]
      BY <1>3, <2>2, TakeChanges, LeaveChanges, FinishChanges DEF Core
    <2>4. ~Finished(i)
      BY <1>3 DEF HandlerTakes, HandlerLeaves, HandlerFinishes, Running, Finished
    <2>5. \A j \in DOMAIN handler : ~Finished(j)' => ~Finished(j)
      BY <2>3, <2>4 DEF Finished
    <2>6. QED  BY <2>1, <2>3, <2>5, AloneKept
  <1>4. CASE Forward
    <2>1. UNCHANGED <<scan, device_handles>>  BY <1>4 DEF Forward, scanning, tables
    <2>2. QED  BY <1>4, <2>1, ForwardChanges, AloneKept DEF Finished
  <1>5. QED  BY <1>1, <1>2, <1>3, <1>4 DEF Next

LEMMA AloneHolds == Hubs = {} => (Spec => [](Core /\ Path /\ Alone))
  <1>1. SUFFICES ASSUME Hubs = {} PROVE Spec => [](Core /\ Path /\ Alone)  OBVIOUS
  <1>2. Core /\ Path /\ [Next]_vars => Path'  BY <1>1, StepKeepsPath DEF OnePath
  <1>3. Core /\ Path /\ Alone /\ [Next]_vars => Alone'  BY <1>1, StepKeepsAlone
  <1>4. Init => Alone
    <2>1. DOMAIN << >> = {}  BY EmptySeq
    <2>2. QED  BY <2>1 DEF Init, Alone
  <1>5. QED  BY CoreHolds, InitPath, <1>2, <1>3, <1>4, PTL DEF Spec

\* By USB alone there is one handler for a uuid at a time, as the comments say
\* (741, 1152): only the scan spawns one, and only when the last has finished.
\* (A manager that is aborted between the spawn and the registration leaves one
\* behind.)
THEOREM WiredHandlersAreSingle == Hubs = {} => (Spec => []OneHandlerPerUuid)
  <1>1. Core /\ Path /\ Alone => OneHandlerPerUuid
    <2> SUFFICES ASSUME Core, Path, Alone PROVE OneHandlerPerUuid  OBVIOUS
    <2> DEFINE S == {i \in Ids : Running(i)}
    <2>1. \A i \in S : device_handles = i \/ scan.spawned = i
      BY DEF Alone, Running, Finished
    <2>2. PICK x : S \subseteq {x}
      <3>1. CASE scan.pc \notin {"insert", "connect"}
        <4>1. scan.spawned = None  BY <3>1 DEF Core, Spawns
        <4>2. S \subseteq {device_handles}  BY <2>1, <4>1, HandlersInUse
        <4>3. QED  BY <4>2
      <3>2. CASE scan.pc = "insert"
        <4>1. device_handles = None  BY <3>2 DEF Path, Vacant
        <4>2. S \subseteq {scan.spawned}  BY <2>1, <4>1, HandlersInUse
        <4>3. QED  BY <4>2
      <3>3. CASE scan.pc = "connect"
        <4>1. device_handles = scan.spawned
          BY <3>3, HandlersInUse DEF Path, Probed, Core, Spawns
        <4>2. S \subseteq {scan.spawned}  BY <2>1, <4>1
        <4>3. QED  BY <4>2
      <3>4. QED  BY <3>1, <3>2, <3>3
    <2>3. IsFiniteSet({x}) /\ Cardinality({x}) = 1  BY FS_Singleton
    <2>4. Cardinality(S) <= Cardinality({x})  BY <2>2, <2>3, FS_Subset
    <2>5. QED  BY <2>3, <2>4 DEF OneHandlerPerUuid
  <1>2. QED  BY AloneHolds, <1>1, PTL

(***************************************************************************)
(* It is listed.                                                           *)
(***************************************************************************)
Quiet(m) == m.kind \notin {"Connect", "Disconnect"}

\* The last of Connects and Disconnects is that of handler i, or else the entry
\* is.
Announced(i) ==
  \/ \E k \in DOMAIN channel :
       /\ channel[k].kind = "Connect" /\ channel[k].by = i
       /\ \A l \in DOMAIN channel : l > k => Quiet(channel[l])
  \/ /\ device_list # None /\ device_list.commands = i
     /\ \A k \in DOMAIN channel : Quiet(channel[k])

NoDfu == dfu_ids = {}

AllAnnounced ==
  \A i \in DOMAIN handler : Running(i) /\ scan.spawned # i => Announced(i)

LEMMA AnnouncedKept ==
  ASSUME Core, UNCHANGED device_list, NEW i, Announced(i),
         UNCHANGED channel \/ \E m \in Message : Post(m) /\ Quiet(m)
  PROVE  Announced(i)'
  <1>1. CASE UNCHANGED channel  BY <1>1 DEF Announced
  <1>2. ASSUME NEW m \in Message, Post(m), Quiet(m) PROVE Announced(i)'
    <2> DEFINE n == Len(channel) + 1
    <2>1. /\ DOMAIN channel' = DOMAIN channel \cup {n} /\ channel'[n] = m
          /\ \A k \in DOMAIN channel : channel'[k] = channel[k]
      BY <1>2, TypeParts, PostAppends DEF Core
    <2> HIDE DEF n
    <2>2. \A k \in DOMAIN channel' : k \in DOMAIN channel \/ Quiet(channel'[k])
      BY <1>2, <2>1
    <2>3. QED  BY <2>1, <2>2 DEF Announced
  <1>3. QED  BY <1>1, <1>2

\* The Connect of the scan is the last message, and of the only handler.
LEMMA ScanAnnounces ==
  ASSUME ~DfuCapable, Core, Probed, Alone, NoDfu, AllAnnounced, ScanStep
  PROVE  NoDfu' /\ AllAnnounced'
  <1>1. scan \in ScanState /\ HandlersOK  BY TypeParts DEF Core, TypeOK
  <1>2. ~ScanSurfacesDfu  BY DEF ScanSurfacesDfu
  <1>3. UNCHANGED dfu_ids
    <2>1. ScanReconcilesDfu => dfu_ids' = {}  BY DEF ScanReconcilesDfu, NoDfu
    <2>2. QED
      BY <1>2, <2>1
      DEF ScanStep, ScanLists, ScanCleans, ScanVisitsHub, ScanProbes, ScanProbeFails,
          ScanChecks, ScanMerges, ScanInserts, ScanConnects, ScanReconciles,
          ScanTellsGone, NoDfu, scanning
  <1>4. UNCHANGED device_list  BY ScanSends DEF lists
  <1>5. CASE ScanConnects
    <2> DEFINE m == [kind |-> "Connect", by |-> scan.spawned, control |-> TRUE,
                     events |-> scan.events]
    <2>1. scan.pc = "connect" /\ Post(m) /\ UNCHANGED handler
      BY <1>5 DEF ScanConnects, At
    <2>2. m \in Message  BY <2>1, SentByTasks
    <2>3. device_handles = scan.spawned
      BY <2>1, HandlersInUse DEF Probed, Core, Spawns
    <2>4. m.kind = "Connect" /\ m.by = scan.spawned  OBVIOUS
    <2> HIDE DEF m
    <2>5. ASSUME NEW i \in DOMAIN handler', Running(i)' PROVE Announced(i)'
      <3>1. i \in DOMAIN handler /\ ~Finished(i)
        BY <2>1, <2>5 DEF Running, Finished
      <3>2. i = scan.spawned  BY <2>3, <3>1 DEF Alone
      <3>3. PICK n \in Nat :
               /\ DOMAIN channel' = DOMAIN channel \cup {n} /\ channel'[n] = m
               /\ \A k \in DOMAIN channel : k < n
               /\ \A k \in DOMAIN channel' : k \in Nat
        <4> DEFINE n == Len(channel) + 1
        <4>1. /\ DOMAIN channel' = DOMAIN channel \cup {n} /\ channel'[n] = m
              /\ \A k \in DOMAIN channel : k < n
          BY <2>1, <2>2, TypeParts, PostAppends DEF Core
        <4> HIDE DEF n
        <4>2. ChannelOK'  BY <2>1, <2>2, TypeParts, PostAppends DEF Core
        <4>3. \A k \in DOMAIN channel' : k \in Nat  BY <4>2, LenProperties DEF ChannelOK
        <4>4. QED  BY <4>1, <4>3
      <3>4. \A l \in DOMAIN channel' : ~(l > n)  BY <3>3
      <3>5. QED  BY <2>4, <3>2, <3>3, <3>4 DEF Announced
    <2>6. QED  BY <1>3, <2>5 DEF NoDfu, AllAnnounced
  <1>6. CASE ~ScanConnects
    <2>1. UNCHANGED channel
      <3>1. ScanReconcilesDfu => UNCHANGED channel
        BY <1>3 DEF ScanReconcilesDfu
      <3>2. QED
        BY <1>2, <1>6, <3>1
        DEF ScanStep, ScanLists, ScanCleans, ScanVisitsHub, ScanProbes, ScanProbeFails,
            ScanChecks, ScanMerges, ScanInserts, ScanReconciles, ScanTellsGone
    <2>2. ASSUME NEW i \in DOMAIN handler', Running(i)', scan'.spawned # i
          PROVE  i \in DOMAIN handler /\ Running(i) /\ scan.spawned # i
      <3>1. CASE ScanChecks
        <4>1. scan.spawned = None /\ scan.events \in Sources
          <5>1. scan.pc = "check"  BY <3>1 DEF ScanChecks, At
          <5>2. scan.events \in Sources  BY <1>1 DEF ScanState
          <5>3. QED  BY <5>1, <5>2 DEF Core, Spawns
        <4>2. CASE Evicted # None
          <5>1. UNCHANGED handler  BY <3>1, <4>2 DEF ScanChecks
          <5>2. QED  BY <2>2, <4>1, <5>1, HandlersInUse DEF Running
        <4>3. CASE Evicted = None
          <5>1. Spawn(TRUE, scan.events) /\ scan'.spawned = Len(handler) + 1
            BY <1>1, <3>1, <4>3 DEF ScanChecks, ScanState
          <5>2. /\ DOMAIN handler' = DOMAIN handler \cup {scan'.spawned}
                /\ \A j \in DOMAIN handler : handler'[j] = handler[j]
            BY <1>1, <4>1, <5>1, SpawnAppends
          <5>3. i \in DOMAIN handler  BY <2>2, <5>2
          <5>4. QED  BY <2>2, <4>1, <5>2, <5>3, HandlersInUse DEF Running
        <4>4. QED  BY <4>2, <4>3
      <3>2. CASE ScanMerges \/ ScanTellsGone
        <4>1. /\ scan.pc \in {"merge", "gone"}
              /\ \E kind \in LinkKinds : SendTo(device_handles, kind)
          BY <3>2 DEF ScanMerges, ScanTellsGone, At, LinkKinds
        <4>2. device_handles \in DOMAIN handler
          BY <4>1, RegistryParameters, HandlersInUse DEF Core, LockOwners
        <4>3. /\ DOMAIN handler' = DOMAIN handler
              /\ \A j \in DOMAIN handler : handler'[j].phase = handler[j].phase
          BY <1>1, <4>1, <4>2, SendChanges
        <4>4. scan.spawned = None  BY <4>1 DEF Core, Spawns
        <4>5. QED  BY <2>2, <4>3, <4>4, HandlersInUse DEF Running
      <3>3. CASE ScanInserts
        <4>1. scan'.spawned = scan.spawned /\ UNCHANGED handler
          BY <1>1, <3>3 DEF ScanInserts, ScanState
        <4>2. QED  BY <2>2, <4>1 DEF Running
      <3>4. CASE \/ ScanLists \/ ScanCleans \/ (\E h \in Hubs : ScanVisitsHub(h))
                 \/ ScanProbes \/ ScanProbeFails \/ ScanReconciles \/ ScanReconcilesDfu
        <4>1. scan.pc \in {"list", "clean", "walk", "dfu"} /\ UNCHANGED handler
          BY <3>4
          DEF ScanLists, ScanCleans, ScanVisitsHub, ScanProbes, ScanProbeFails,
              ScanReconciles, ScanReconcilesDfu, At
        <4>2. scan.spawned = None  BY <4>1 DEF Core, Spawns
        <4>3. QED  BY <2>2, <4>1, <4>2, HandlersInUse DEF Running
      <3>5. QED  BY <1>2, <1>6, <3>1, <3>2, <3>3, <3>4 DEF ScanStep
    <2>3. AllAnnounced'
      BY <1>4, <2>1, <2>2, AnnouncedKept DEF AllAnnounced
    <2>4. QED  BY <1>3, <2>3 DEF NoDfu
  <1>7. QED  BY <1>5, <1>6

\* A handler that takes its leave is the only one there is, or is followed by
\* one that is still to be announced.
LEMMA HandlerAnnounces ==
  ASSUME Core, Probed, Alone, AllAnnounced, NEW j \in Ids,
         HandlerTakes(j) \/ HandlerLeaves(j) \/ HandlerFinishes(j)
  PROVE  AllAnnounced'
  <1>1. UNCHANGED <<scan, device_list>>
    BY DEF HandlerTakes, HandlerLeaves, HandlerFinishes, scanning, lists
  <1>2. j \in DOMAIN handler
    BY DEF HandlerTakes, HandlerLeaves, HandlerFinishes, Running
  <1>3. /\ DOMAIN handler' = DOMAIN handler
        /\ \A i \in DOMAIN handler : i # j => handler'[i] = handler[i]
    BY <1>2, TakeChanges, LeaveChanges, FinishChanges DEF Core
  <1> SUFFICES ASSUME NEW i \in DOMAIN handler', Running(i)', scan'.spawned # i
               PROVE  Announced(i)'
    BY DEF AllAnnounced
  <1>4. CASE HandlerTakes(j) \/ HandlerLeaves(j)
    <2>1. Running(j)  BY <1>4 DEF HandlerTakes, HandlerLeaves
    <2>2. Running(i)  BY <1>3, <2>1 DEF Running
    <2>3. Announced(i)  BY <1>1, <2>2 DEF AllAnnounced, Running
    <2>4. UNCHANGED channel \/ \E m \in Message : Post(m) /\ Quiet(m)
      <3>1. CASE HandlerTakes(j)
        <4> DEFINE m == [kind |-> "Update", by |-> j, control |-> handler'[j].control,
                         events |-> handler'[j].events]
        <4>1. (Post(m) /\ m \in Message) \/ UNCHANGED channel
          BY <1>2, <3>1, TakeChanges DEF Core
        <4>2. Quiet(m)  BY DEF Quiet
        <4> HIDE DEF m
        <4>3. QED  BY <4>1, <4>2
      <3>2. CASE HandlerLeaves(j)  BY <3>2 DEF HandlerLeaves
      <3>3. QED  BY <1>4, <3>1, <3>2
    <2>5. QED  BY <1>1, <2>3, <2>4, AnnouncedKept
  <1>5. CASE HandlerFinishes(j)
    <2>1. handler[j].phase = "ending"  BY <1>5 DEF HandlerFinishes
    <2>2. handler'[j].phase = "finished"
      <3>1. handler[j] \in HandlerState  BY <1>2, TypeParts, HandlerIds DEF Core
      <3>2. handler'[j] = [handler[j] EXCEPT !.phase = "finished", !.queue = << >>]
        BY <1>5, FinishChanges DEF Core
      <3>3. QED  BY <3>1, <3>2 DEF HandlerState
    <2>3. i # j /\ Running(i)  BY <1>3, <2>2 DEF Running
    <2>4. device_handles = i  BY <1>1, <1>3, <2>3 DEF Alone, Running, Finished
    <2>5. scan.spawned = j  BY <1>2, <2>1, <2>3, <2>4 DEF Alone, Finished
    <2>6. ScanFresh(j)  BY <2>5 DEF Core, Fresh
    <2>7. QED  BY <2>1, <2>6 DEF ScanFresh, Running
  <1>6. QED  BY <1>4, <1>5

LEMMA ForwardAnnounces ==
  ASSUME Core, AllAnnounced, Forward
  PROVE  AllAnnounced'
  <1> SUFFICES ASSUME NEW i \in DOMAIN handler', Running(i)', scan'.spawned # i
               PROVE  Announced(i)'
    BY DEF AllAnnounced
  <1> DEFINE m == channel[1]
  <1>1. /\ ChannelOK /\ ChannelOK' /\ 1 \in DOMAIN channel /\ Head(channel) = m
        /\ \A k \in DOMAIN channel' : k + 1 \in DOMAIN channel
                                      /\ channel'[k] = channel[k + 1]
        /\ \A k \in DOMAIN channel : k # 1 => k - 1 \in DOMAIN channel'
                                              /\ channel'[k - 1] = channel[k]
    BY TypeParts, ForwardShifts DEF Core, Forward
  <1>2. \A k \in DOMAIN channel : k \in Nat /\ k >= 1
    BY <1>1, ChannelIndices
  <1>3. \A k \in DOMAIN channel' : k \in Nat  BY <1>1, LenProperties DEF ChannelOK
  <1>4. i \in DOMAIN handler /\ Running(i) /\ UNCHANGED scan
    BY ForwardChanges DEF Forward, Running, scanning
  <1>5. Announced(i)  BY <1>4 DEF AllAnnounced
  <1>6. ASSUME NEW k \in DOMAIN channel, channel[k].kind = "Connect", channel[k].by = i,
               \A l \in DOMAIN channel : l > k => Quiet(channel[l])
        PROVE  Announced(i)'
    <2>1. ASSUME NEW l \in DOMAIN channel', l + 1 > k PROVE Quiet(channel'[l])
      BY <1>1, <1>6, <2>1
    <2>2. CASE k = 1
      <3>1. i # Dfu  BY <1>4, HandlersInUse
      <3>2. device_list' = Listed(m)  BY <1>1, <1>6, <2>2 DEF Forward
      <3>3. device_list'.commands = i  BY <1>6, <2>2, <3>1, <3>2 DEF Listed
      <3>4. device_list' # None
        <4>1. m \in DeviceMessage
          <5>1. m \in Message  BY <1>1, ChannelIndices
          <5>2. QED  BY <1>6, <2>2, <5>1 DEF Message
        <4>2. m.control \in BOOLEAN /\ m.events \in Sources /\ i \in Ids
          BY <1>4, <4>1, TypeParts, HandlerIds DEF Core, DeviceMessage
        <4>3. Listed(m) = [commands |-> i, control |-> m.control, events |-> m.events]
          BY <1>6, <2>2, <3>1 DEF Listed
        <4>4. Listed(m) \in Entry
          <5>1. \A c \in BOOLEAN : [commands |-> i, control |-> c, events |-> m.events] \in Entry
            BY <4>2 DEF Entry
          <5>2. QED  BY <4>2, <4>3, <5>1
        <4>5. QED  BY <3>2, <4>4, EntryIsSome
      <3>5. \A l \in DOMAIN channel' : Quiet(channel'[l])
        <4>1. ASSUME NEW l \in DOMAIN channel' PROVE Quiet(channel'[l])
          <5>1. l + 1 \in DOMAIN channel /\ l \in Nat /\ l >= 1
            BY <1>1, <1>3, LenProperties DEF ChannelOK
          <5>2. QED  BY <2>1, <2>2, <5>1
        <4>2. QED  BY <4>1
      <3>6. QED  BY <3>3, <3>4, <3>5 DEF Announced
    <2>3. CASE k # 1
      <3>1. k - 1 \in DOMAIN channel' /\ channel'[k - 1] = channel[k]  BY <1>1, <2>3
      <3>2. \A l \in DOMAIN channel' : l > k - 1 => Quiet(channel'[l])
        BY <1>2, <1>3, <2>1
      <3>3. QED  BY <1>6, <3>1, <3>2 DEF Announced
    <2>4. QED  BY <2>2, <2>3
  <1>7. ASSUME device_list # None, device_list.commands = i,
               \A k \in DOMAIN channel : Quiet(channel[k])
        PROVE  Announced(i)'
    <2>1. \A k \in DOMAIN channel' : Quiet(channel'[k])  BY <1>1, <1>7
    <2>2. Quiet(m)  BY <1>1, <1>7
    <2>3. device_list' # None /\ device_list'.commands = i
      <3>1. CASE m.kind = "Update"
        <4>1. device_list' = Updated(m)  BY <1>1, <3>1 DEF Forward
        <4>2. device_list \in Entry  BY <1>7 DEF Core, TypeOK
        <4>3. device_list' = [device_list EXCEPT !.control = m.control, !.events = m.events]
          BY <1>7, <4>1 DEF Updated
        <4>4. device_list'.commands = i  BY <1>7, <4>2, <4>3 DEF Entry
        <4>5. device_list' # None
          <5>1. m \in DeviceMessage
            <6>1. m \in Message  BY <1>1, ChannelIndices
            <6>2. QED  BY <3>1, <6>1 DEF Message
          <5>2. m.control \in BOOLEAN /\ m.events \in Sources  BY <5>1 DEF DeviceMessage
          <5>3. device_list' \in Entry  BY <4>2, <4>3, <5>2 DEF Entry
          <5>4. QED  BY <5>3, EntryIsSome
        <4>6. QED  BY <4>4, <4>5
      <3>2. CASE m.kind # "Update"
        <4>1. device_list' = device_list  BY <1>1, <2>2, <3>2 DEF Forward, Quiet
        <4>2. QED  BY <1>7, <4>1
      <3>3. QED  BY <3>1, <3>2
    <2>4. QED  BY <2>1, <2>3 DEF Announced
  <1>8. QED  BY <1>5, <1>6, <1>7 DEF Announced

LEMMA StepAnnounces ==
  Hubs = {} /\ ~DfuCapable /\ Core /\ Path /\ Alone /\ NoDfu /\ AllAnnounced /\ [Next]_vars
    => NoDfu' /\ AllAnnounced'
  <1> SUFFICES ASSUME Hubs = {}, ~DfuCapable, Core, Path, Alone, NoDfu, AllAnnounced,
                      [Next]_vars
               PROVE  NoDfu' /\ AllAnnounced'
    OBVIOUS
  <1>1. CASE Surroundings \/ UNCHANGED vars
    <2>1. UNCHANGED <<scan, dfu_ids, handler, channel, device_list>>
      BY <1>1, SurroundingsLeave DEF vars, scanning, lists
    <2>2. QED  BY <2>1 DEF NoDfu, AllAnnounced, Announced, Running
  <1>2. CASE ScanStep  BY <1>2, ScanAnnounces DEF Path
  <1>3. ASSUME NEW i \in Ids, HandlerTakes(i) \/ HandlerLeaves(i) \/ HandlerFinishes(i)
        PROVE  NoDfu' /\ AllAnnounced'
    <2>1. UNCHANGED dfu_ids
      BY <1>3 DEF HandlerTakes, HandlerLeaves, HandlerFinishes, scanning
    <2>2. QED  BY <1>3, <2>1, HandlerAnnounces DEF Path, NoDfu
  <1>4. CASE Forward
    <2>1. UNCHANGED dfu_ids  BY <1>4 DEF Forward, scanning
    <2>2. QED  BY <1>4, <2>1, ForwardAnnounces DEF NoDfu
  <1>5. QED  BY <1>1, <1>2, <1>3, <1>4 DEF Next

\* By USB alone, and without a DFU interface, the handler that gets the commands
\* and connection changes is the one in the list, once it is registered: no
\* Disconnect of an earlier handler takes it off (1287-1315, 2522-2532).
THEOREM WiredHandlerIsListed ==
  Hubs = {} /\ ~DfuCapable => (Spec => []LiveHandlerIsListed)
  <1>1. SUFFICES ASSUME Hubs = {}, ~DfuCapable PROVE Spec => []LiveHandlerIsListed
    OBVIOUS
  <1>2. Core /\ Path /\ Alone /\ NoDfu /\ AllAnnounced /\ [Next]_vars
          => NoDfu' /\ AllAnnounced'
    BY <1>1, StepAnnounces
  <1>3. Init => NoDfu /\ AllAnnounced
    <2>1. DOMAIN << >> = {}  BY EmptySeq
    <2>2. QED  BY <2>1 DEF Init, NoDfu, AllAnnounced
  <1>4. Spec => [](Core /\ Path /\ Alone)  BY <1>1, AloneHolds
  <1>5. Core /\ AllAnnounced => LiveHandlerIsListed
    <2> SUFFICES ASSUME Core, AllAnnounced, NEW i \in Ids,
                        device_handles = i, Running(i), ~Registering(i)
                 PROVE  device_list # None /\ device_list.commands = i
      BY DEF LiveHandlerIsListed
    <2>1. i \in DOMAIN handler /\ scan.spawned # i /\ ~Queued("Connect", i)
      BY DEF Running, Registering
    <2>2. Announced(i)  BY <2>1 DEF AllAnnounced
    <2>3. QED  BY <2>1, <2>2 DEF Announced, Queued
  <1>6. QED  BY <1>2, <1>3, <1>4, <1>5, PTL DEF Spec

=============================================================================
