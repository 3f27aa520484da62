------------------------ MODULE FirmwareUpdateProofs ------------------------
(***************************************************************************)
(* Proofs about FirmwareVersions and FirmwareUpdate, for every manifest,   *)
(* any number of devices, rows, updates and plug changes.                  *)
(***************************************************************************)
EXTENDS FirmwareUpdate, SequenceTheorems, WellFoundedInduction, TLAPS

(***************************************************************************)
(* Choosing a firmware.                                                    *)
(***************************************************************************)

\* A set of positions has a first one, which the search in the manifest
\* stops at (firmware.rs:127-136).
LEMMA FirstExists ==
  ASSUME NEW S, S \subseteq Nat, S # {}
  PROVE  \E i \in S : \A j \in S : i <= j
  <1>1. PICK i \in S : \A j \in S : ~ (<<j, i>> \in OpToRel(<, Nat))
    BY NatLessThanWellFounded, WFMin
  <1>2. ASSUME NEW j \in S PROVE i <= j
    <2>1. i \in Nat /\ j \in Nat  OBVIOUS
    <2>2. j < i => <<j, i>> \in OpToRel(<, Nat)  BY <2>1 DEF OpToRel
    <2>3. ~ (j < i)  BY <1>1, <2>2
    <2>4. QED  BY <2>1, <2>3
  <1>3. QED  BY <1>2

\* What the search returns is an entry that fits the device, and every entry
\* before it does not (firmware.rs:119-137).
LEMMA CompatibleIsFirstFit ==
  ASSUME NEW v
  PROVE  \/ /\ find_compatible_firmware(v) = Nothing
            /\ \A i \in DOMAIN Firmwares : ~ Fits(v, i)
         \/ \E i \in DOMAIN Firmwares :
              /\ find_compatible_firmware(v) = Firmwares[i]
              /\ Fits(v, i)
              /\ \A j \in DOMAIN Firmwares : j < i => ~ Fits(v, j)
  <1> DEFINE fitting == {i \in DOMAIN Firmwares : Fits(v, i)}
  <1>1. CASE fitting = {}  BY <1>1 DEF find_compatible_firmware
  <1>2. CASE fitting # {}
    <2> DEFINE i == CHOOSE n \in fitting : \A j \in fitting : n <= j
    <2>1. DOMAIN Firmwares \subseteq Nat
      BY ManifestParameters, LenProperties
    <2>2. fitting \subseteq Nat  BY <2>1
    <2>3. i \in fitting /\ \A j \in fitting : i <= j
      <3> HIDE DEF fitting
      <3>1. \E n \in fitting : \A j \in fitting : n <= j
        BY <1>2, <2>2, FirstExists
      <3>2. QED  BY <3>1
    <2>4. find_compatible_firmware(v) = Firmwares[i]
      BY <1>2 DEF find_compatible_firmware
    <2>5. ASSUME NEW j \in DOMAIN Firmwares, j < i PROVE ~ Fits(v, j)
      <3>1. i \in Nat /\ j \in Nat  BY <2>1, <2>3
      <3>2. ~ (i <= j)  BY <2>5, <3>1
      <3>3. QED  BY <2>3, <3>2
    <2>6. QED  BY <2>3, <2>4, <2>5
  <1>3. QED  BY <1>1, <1>2

\* The order of versions is strict and total, so that of two releases one
\* replaces the other and none replaces itself (firmware.rs:85-93).
THEOREM NewerIsStrictOrder ==
  ASSUME NEW u \in Version, NEW v \in Version, NEW w \in Version
  PROVE  /\ ~ version_newer(u, u)
         /\ version_newer(u, v) /\ version_newer(v, w) => version_newer(u, w)
         /\ u = v \/ version_newer(u, v) \/ version_newer(v, u)
  BY SMT DEF version_newer, Version

\* Whatever the manifest lists, in whatever order, an update offered to a
\* device that is not in its bootloader installs nothing or a newer version
\* (firmware_update.rs:187-193, 411-424).
THEOREM OfferedNeverDowngrades ==
  ASSUME NEW device \in Listing, ~ InBootloader(device),
         Offer(device) = "Available"
  PROVE  \/ Chosen(device) = Nothing
         \/ Chosen(device) \in Version
            /\ version_newer(device.version, Chosen(device))
  <1>1. CASE device.dfu
    <2>1. /\ find_latest_firmware \notin {Nothing, Unreadable}
          /\ version_newer(device.version, find_latest_firmware)
      BY <1>1 DEF Offer
    <2>2. find_latest_firmware = Firmwares[1] /\ Firmwares # << >>
      BY <2>1 DEF find_latest_firmware
    <2>3. Firmwares[1] \in Version \cup {Unreadable}
      BY <2>2, ManifestParameters, LenProperties, ElementOfSeq, EmptySeq
    <2>4. QED  BY <1>1, <2>1, <2>2, <2>3 DEF Chosen
  <1>2. CASE ~ device.dfu
    <2>1. CASE device.version = NoVersion  BY <1>2, <2>1 DEF Chosen
    <2>2. CASE device.version # NoVersion
      <3>1. Chosen(device) = find_compatible_firmware(device.version)
        BY <1>2, <2>2 DEF Chosen
      <3>2. CASE find_compatible_firmware(device.version) = Nothing
        BY <3>1, <3>2
      <3>3. CASE \E i \in DOMAIN Firmwares :
                   /\ find_compatible_firmware(device.version) = Firmwares[i]
                   /\ Fits(device.version, i)
        <4>1. PICK i \in DOMAIN Firmwares :
                     /\ find_compatible_firmware(device.version) = Firmwares[i]
                     /\ Fits(device.version, i)
          BY <3>3
        <4>2. Firmwares[i] \in Version \cup {Unreadable}
          BY ManifestParameters, LenProperties, ElementOfSeq
        <4>3. QED  BY <3>1, <4>1, <4>2 DEF Fits
      <3>4. QED  BY <3>2, <3>3, CompatibleIsFirstFit
    <2>3. QED  BY <2>1, <2>2
  <1>3. QED  BY <1>1, <1>2

(***************************************************************************)
(* The invariant.                                                          *)
(***************************************************************************)
EntryIsKnown ==
  \A t \in DOMAIN task :
    task[t].pc \notin {"begin", "linger", "done"} => task[t].entry # Nothing

SlotIsKnown ==
  \A t \in DOMAIN task :
    task[t].pc \in {"download", "open", "write"} => task[t].slot \in Banks

LateRuns == \A t \in DOMAIN task : task[t].late => task[t].pc # "done"

\* What does not boot never runs as an application.
BusOK == /\ port \in [Devices -> {"app", "dfu", "away"}]
         /\ bank \in [Devices -> Banks]
         /\ fw \in [Devices -> Version \cup {Unreadable, Bad}]
         /\ \A d \in Devices : fw[d] = Bad => port[d] # "app"

Inv == /\ TypeOK /\ BusOK
       /\ EntryIsKnown /\ SlotIsKnown /\ LateRuns
       /\ StageHasUpdate

AllStates == Offers \cup Stages \cup {"Complete", "Failed"}

\* A record that a task may have while it runs.
Sound(r) == /\ r \in Task
            /\ r.pc # "done"
            /\ r.pc \notin {"begin", "linger"} => r.entry # Nothing
            /\ r.pc \in {"download", "open", "write"} => r.slot \in Banks

\* What the device of a listing would be updated to is an entry of the
\* manifest or nothing.
LEMMA ChosenType ==
  ASSUME NEW device
  PROVE  Chosen(device) \in Version \cup {Unreadable, Nothing}
  <1>1. find_latest_firmware \in Version \cup {Unreadable, Nothing}
    <2>1. CASE Firmwares = << >>  BY <2>1 DEF find_latest_firmware
    <2>2. CASE Firmwares # << >>
      BY <2>2, ManifestParameters, LenProperties, ElementOfSeq, EmptySeq
         DEF find_latest_firmware
    <2>3. QED  BY <2>1, <2>2
  <1>2. find_compatible_firmware(device.version)
          \in Version \cup {Unreadable, Nothing}
    BY CompatibleIsFirstFit, ManifestParameters, LenProperties, ElementOfSeq
  <1>3. QED  BY <1>1, <1>2 DEF Chosen

\* A running task that moves on, and sets no state but that of its own device,
\* keeps the invariant.
LEMMA TaskMoves ==
  ASSUME Inv, NEW t \in DOMAIN task, NEW r, Sound(r),
         r.uuid = task[t].uuid,
         task' = [task EXCEPT ![t] = r],
         NEW s \in AllStates,
         \/ states' = states
         \/ states' = [states EXCEPT ![task[t].uuid] = s],
         BusOK', UNCHANGED <<changes, rows, updating>>
  PROVE  Inv'
  <1>1. task \in Seq(Task) /\ DOMAIN task = 1 .. Len(task)
    BY LenProperties DEF Inv, TypeOK
  <1>2. r \in Task  BY DEF Sound
  <1>3. /\ task' \in Seq(Task) /\ Len(task') = Len(task)
        /\ task'[t] = r
        /\ \A u \in DOMAIN task : u # t => task'[u] = task[u]
    BY <1>1, <1>2, ExceptSeq
  <1>4. DOMAIN task' = DOMAIN task  BY <1>1, <1>3, LenProperties
  <1>5. task[t].uuid \in Rows
    <2>1. task[t] \in Task  BY <1>1, ElementOfSeq
    <2>2. QED  BY <2>1 DEF Task
  <1>6. TypeOK'
    BY <1>3, <1>5 DEF Inv, TypeOK, BusOK, rows, AllStates
  <1>7. EntryIsKnown'  BY <1>3, <1>4 DEF Inv, EntryIsKnown, Sound
  <1>8. SlotIsKnown'  BY <1>3, <1>4 DEF Inv, SlotIsKnown, Sound
  <1>9. LateRuns'  BY <1>3, <1>4 DEF Inv, LateRuns, Sound
  <1>10. StageHasUpdate'
    <2>1. SUFFICES ASSUME NEW d \in Rows,
                          states'[d] \in Stages \cup {"Complete", "Failed"}
                   PROVE  \E u \in DOMAIN task' :
                            task'[u].pc # "done" /\ task'[u].uuid = d
      BY DEF StageHasUpdate, Running
    <2>2. CASE d = task[t].uuid
      BY <2>2, <1>3, <1>4 DEF Sound
    <2>3. CASE d # task[t].uuid
      <3>1. states'[d] = states[d]  BY <2>3 DEF Inv, TypeOK
      <3>2. PICK u \in DOMAIN task : task[u].pc # "done" /\ task[u].uuid = d
        BY <2>1, <3>1 DEF Inv, StageHasUpdate, Running
      <3>3. u # t  BY <2>3, <3>2
      <3>4. QED  BY <3>2, <3>3, <1>3, <1>4
    <2>4. QED  BY <2>2, <2>3
  <1>11. QED  BY <1>6, <1>7, <1>8, <1>9, <1>10 DEF Inv

\* The bus is typed, and a task that is not done has a sound record.
LEMMA RunningIsSound ==
  ASSUME Inv, NEW t \in DOMAIN task, task[t].pc # "done"
  PROVE  Sound(task[t]) /\ BusOK
  <1>1. task[t] \in Task
    BY LenProperties, ElementOfSeq DEF Inv, TypeOK
  <1>2. QED
    BY <1>1 DEF Inv, EntryIsKnown, SlotIsKnown, Sound

Pcs == {"begin", "detach", "wait", "slot", "download", "open", "write",
        "reboot", "verify", "linger", "done"}

\* The same when only the task's place in the program changes.
LEMMA PcMoves ==
  ASSUME Inv, NEW t \in DOMAIN task, task[t].pc # "done",
         NEW p \in Pcs \ {"done", "begin", "download"},
         p = "linger" \/ task[t].entry # Nothing,
         p \in {"open", "write"} => task[t].slot \in Banks,
         task' = [task EXCEPT ![t].pc = p],
         NEW s \in AllStates,
         states' = states \/ states' = [states EXCEPT ![task[t].uuid] = s],
         BusOK', UNCHANGED <<changes, rows, updating>>
  PROVE  Inv'
  <1> DEFINE r == [task[t] EXCEPT !.pc = p]
  <1>1. Sound(task[t])  BY RunningIsSound
  <1>2. Sound(r) /\ r.uuid = task[t].uuid  BY <1>1 DEF Sound, Task, Pcs
  <1>3. task' = [task EXCEPT ![t] = r]  OBVIOUS
  <1> HIDE DEF r
  <1>4. QED  BY <1>2, <1>3, TaskMoves

\* A failure before the flash keeps the invariant.
LEMMA FailsStep ==
  ASSUME Inv, NEW t \in DOMAIN task, task[t].pc # "done", Fails(t),
         UNCHANGED <<changes, rows, updating>>
  PROVE  Inv'
  <1>1. BusOK  BY RunningIsSound
  <1>2. BusOK'  BY <1>1 DEF BusOK, Fails, bus
  <1>3. QED
    BY <1>2, PcMoves DEF Fails, Enter, AllStates, Pcs

\* The end of a flash keeps it, whatever follows and whether or not the
\* progress updater is late.
LEMMA FlashEndsStep ==
  ASSUME Inv, NEW t \in DOMAIN task, task[t].pc # "done",
         NEW p \in {"linger", "reboot"}, NEW s \in {"Failed", "Rebooting"},
         task[t].entry # Nothing, FlashEnds(t, p, s),
         BusOK', UNCHANGED <<changes, rows, updating>>
  PROVE  Inv'
  <1>1. PICK late \in BOOLEAN :
          /\ task' = [task EXCEPT ![t] =
                        [@ EXCEPT !.pc = p, !.target = Nothing,
                                  !.slot = Nothing, !.late = late]]
          /\ states' = [states EXCEPT ![task[t].uuid] = s]
    BY DEF FlashEnds
  <1> DEFINE r == [task[t] EXCEPT !.pc = p, !.target = Nothing,
                                  !.slot = Nothing, !.late = late]
  <1>2. Sound(task[t])  BY RunningIsSound
  <1>3. Sound(r) /\ r.uuid = task[t].uuid  BY <1>2 DEF Sound, Task
  <1>4. task' = [task EXCEPT ![t] = r]  BY <1>1
  <1>5. s \in AllStates  BY DEF AllStates, Stages
  <1> HIDE DEF r
  <1>6. QED  BY <1>1, <1>3, <1>4, <1>5, TaskMoves

\* Every step of an update keeps the invariant.
LEMMA TaskStep ==
  ASSUME Inv, NEW t \in DOMAIN task, run_firmware_update(t)
  PROVE  Inv'
  <1> DEFINE Others == UNCHANGED <<changes, rows, updating>>
  <1>1. Others  BY DEF run_firmware_update
  <1>2. BusOK  BY DEF Inv
  <1>3. bus' = bus => BusOK'  BY <1>2 DEF bus, BusOK
  <1> DEFINE record == task[t]
  <1>4. record.pc # "done" => Sound(record)  BY RunningIsSound
  <1>5. \A state \in Stages \cup {"Complete", "Failed"} : state \in AllStates
    BY DEF AllStates
  <1>6. ASSUME record.pc # "done", Fails(t) PROVE Inv'
    BY <1>1, <1>6, FailsStep
  <1>7. ASSUME record.pc = "begin", record.entry # Nothing, Proceeds(t)
        PROVE  Inv'
    <2>1. BusOK'  BY <1>3, <1>7 DEF Proceeds
    <2>2. CASE /\ task' = [task EXCEPT ![t].pc = "slot"]
               /\ UNCHANGED states
      <3>1. "Failed" \in AllStates  BY <1>5
      <3>2. QED  BY <1>1, <1>7, <2>1, <2>2, <3>1, PcMoves DEF Pcs
    <2>3. CASE Enter(t, "detach", "Detaching")
      BY <1>1, <1>5, <1>7, <2>1, <2>3, PcMoves DEF Enter, Pcs, Stages
    <2>4. QED  BY <1>7, <2>2, <2>3 DEF Proceeds
  <1>8. CASE Begin(t)
    <2>1. CASE record.entry = Nothing  BY <1>6, <1>8, <2>1 DEF Begin
    <2>2. CASE record.entry # Nothing  BY <1>7, <1>8, <2>2 DEF Begin
    <2>3. QED  BY <2>1, <2>2
  <1>9. CASE Detach(t)
    <2>1. record.pc = "detach" /\ record.entry # Nothing
      BY <1>4, <1>9 DEF Detach, Sound
    <2>2. CASE Fails(t)  BY <1>6, <2>1, <2>2
    <2>3. CASE /\ \E d \in find_device_by_uuid(record.uuid) \ Held :
                    \E after \in IF port[d] = "app" THEN {"dfu"}
                                ELSE {"dfu", Boots(d)} :
                      port' = [port EXCEPT ![d] = after]
               /\ Enter(t, "wait", "WaitingForDfu")
               /\ UNCHANGED <<bank, fw>>
      <3>1. BusOK'  BY <1>2, <2>3 DEF BusOK, Boots
      <3>2. QED
        BY <1>1, <1>5, <2>1, <2>3, <3>1, PcMoves DEF Enter, Pcs, Stages
    <2>4. QED  BY <1>9, <2>2, <2>3 DEF Detach
  <1>10. CASE WaitForDfu(t)
    <2>1. record.pc = "wait" /\ record.entry # Nothing
      BY <1>4, <1>10 DEF WaitForDfu, Sound
    <2>2. CASE Fails(t)  BY <1>6, <2>1, <2>2
    <2>3. CASE /\ task' = [task EXCEPT ![t].pc = "slot"]
               /\ UNCHANGED <<bus, states>>
      <3>1. "Failed" \in AllStates  BY <1>5
      <3>2. QED  BY <1>1, <1>3, <2>1, <2>3, <3>1, PcMoves DEF Pcs
    <2>4. QED  BY <1>10, <2>2, <2>3 DEF WaitForDfu
  <1>11. CASE DetermineSlot(t)
    <2>1. record.pc = "slot" /\ Sound(record)
      BY <1>4, <1>11 DEF DetermineSlot
    <2>2. CASE Fails(t)  BY <1>6, <2>1, <2>2
    <2>3. ASSUME NEW d \in Devices,
                 task' = [task EXCEPT ![t] =
                           [@ EXCEPT !.pc = "download", !.slot = TargetSlot(d)]],
                 states' = [states EXCEPT ![record.uuid] = "Downloading"],
                 UNCHANGED bus
          PROVE  Inv'
      <3> DEFINE r == [record EXCEPT !.pc = "download", !.slot = TargetSlot(d)]
      <3>1. TargetSlot(d) \in Banks  BY <1>2 DEF TargetSlot, BusOK
      <3>2. Sound(r) /\ r.uuid = record.uuid
        BY <2>1, <3>1 DEF Sound, Task
      <3>3. task' = [task EXCEPT ![t] = r]  BY <2>3
      <3>4. "Downloading" \in AllStates  BY <1>5 DEF Stages
      <3> HIDE DEF r
      <3>5. QED  BY <1>1, <1>3, <2>3, <3>2, <3>3, <3>4, TaskMoves
    <2>4. QED  BY <1>11, <2>2, <2>3 DEF DetermineSlot, Plugged
  <1>12. CASE Download(t)
    <2>1. record.pc = "download" /\ record.entry # Nothing
          /\ record.slot \in Banks
      BY <1>4, <1>12 DEF Download, Sound
    <2>2. CASE Fails(t)  BY <1>6, <2>1, <2>2
    <2>3. CASE Enter(t, "open", "Flashing") /\ UNCHANGED bus
      BY <1>1, <1>3, <1>5, <2>1, <2>3, PcMoves DEF Enter, Pcs, Stages
    <2>4. QED  BY <1>12, <2>2, <2>3 DEF Download
  <1>13. ASSUME record.pc # "done", record.entry # Nothing, FlashFails(t)
         PROVE  Inv'
    BY <1>1, <1>3, <1>13, FlashEndsStep DEF FlashFails
  <1>14. CASE OpenForFlash(t)
    <2>1. record.pc = "open" /\ Sound(record) /\ record.entry # Nothing
      BY <1>4, <1>14 DEF OpenForFlash, Sound
    <2>2. CASE FlashFails(t)  BY <1>13, <2>1, <2>2
    <2>3. ASSUME NEW d \in Devices,
                 task' = [task EXCEPT ![t] =
                           [@ EXCEPT !.pc = "write", !.target = d]],
                 UNCHANGED <<bus, states>>
          PROVE  Inv'
      <3> DEFINE r == [record EXCEPT !.pc = "write", !.target = d]
      <3>1. Sound(r) /\ r.uuid = record.uuid  BY <2>1 DEF Sound, Task
      <3>2. task' = [task EXCEPT ![t] = r]  BY <2>3
      <3>3. "Failed" \in AllStates  BY <1>5
      <3> HIDE DEF r
      <3>4. QED  BY <1>1, <1>3, <2>3, <3>1, <3>2, <3>3, TaskMoves
    <2>4. QED  BY <1>14, <2>2, <2>3 DEF OpenForFlash, Plugged
  <1>15. CASE Write(t)
    <2>1. record.pc = "write" /\ Sound(record) /\ record.entry # Nothing
      BY <1>4, <1>15 DEF Write, Sound
    <2>2. CASE FlashFails(t)  BY <1>13, <2>1, <2>2
    <2>3. ASSUME FlashEnds(t, "reboot", "Rebooting"), BusOK'
          PROVE  Inv'
      BY <1>1, <2>1, <2>3, FlashEndsStep
    <2>4. CASE UNCHANGED bus /\ FlashEnds(t, "reboot", "Rebooting")
      BY <1>3, <2>3, <2>4
    <2> DEFINE d == record.target
               fits == record.slot = bank[d]
    <2>5. CASE /\ d # Nothing
               /\ fw' = [fw EXCEPT ![d] = IF fits THEN record.entry ELSE Bad]
               /\ bank' = [bank EXCEPT ![d] = IF fits THEN OtherBank(@) ELSE @]
               /\ port' = [port EXCEPT ![d] = IF fits THEN "app" ELSE "dfu"]
               /\ FlashEnds(t, "reboot", "Rebooting")
      <3>1. d \in Devices  BY <2>1, <2>5 DEF Sound, Task
      <3>2. record.entry \in Version \cup {Unreadable}
        BY <2>1 DEF Sound, Task
      <3>3. OtherBank(bank[d]) \in Banks
        <4>1. \E c \in Banks : c # bank[d]  BY DEF Banks
        <4>2. QED  BY <4>1 DEF OtherBank
      <3>4. BusOK'
        BY <1>2, <2>5, <3>1, <3>2, <3>3, UpdateParameters DEF BusOK
      <3>5. QED  BY <2>3, <2>5, <3>4
    <2>6. QED  BY <1>15, <2>2, <2>4, <2>5 DEF Write
  <1>16. CASE LateProgress(t)
    <2> DEFINE r == [record EXCEPT !.late = FALSE]
    <2>1. Sound(record)  BY <1>4, <1>16 DEF LateProgress, Inv, LateRuns
    <2>2. Sound(r) /\ r.uuid = record.uuid  BY <2>1 DEF Sound, Task
    <2>3. task' = [task EXCEPT ![t] = r]  BY <1>16 DEF LateProgress
    <2>4. "Flashing" \in AllStates  BY <1>5 DEF Stages
    <2> HIDE DEF r
    <2>5. QED
      BY <1>1, <1>3, <1>16, <2>2, <2>3, <2>4, TaskMoves DEF LateProgress
  <1>17. CASE Reboot(t)
    <2>1. record.pc = "reboot" /\ record.entry # Nothing
      BY <1>4, <1>17 DEF Reboot, Sound
    <2>2. QED
      BY <1>1, <1>3, <1>5, <1>17, <2>1, PcMoves DEF Reboot, Enter, Pcs, Stages
  <1>18. CASE Verify(t)
    BY <1>1, <1>3, <1>5, <1>18, PcMoves DEF Verify, Enter, Pcs
  <1>19. QED
    BY <1>8, <1>9, <1>10, <1>11, <1>12, <1>14, <1>15, <1>16, <1>17, <1>18
       DEF run_firmware_update

\* The end of an update keeps it: the state it leaves is Idle.
LEMMA ClearStep ==
  ASSUME Inv, NEW t \in DOMAIN task, Clear(t)
  PROVE  Inv'
  <1> DEFINE r == Over(task[t])
  <1>1. task[t].pc = "linger" /\ ~ task[t].late  BY DEF Clear
  <1>2. Sound(task[t]) /\ BusOK  BY <1>1, RunningIsSound
  <1>3. r \in Task /\ r.uuid = task[t].uuid /\ r.pc = "done" /\ ~ r.late
    BY <1>1, <1>2 DEF Over, Sound, Task
  <1>4. task \in Seq(Task) /\ DOMAIN task = 1 .. Len(task)
    BY LenProperties DEF Inv, TypeOK
  <1>5. task' = [task EXCEPT ![t] = r]  BY DEF Clear
  <1> HIDE DEF r
  <1>6. /\ task' \in Seq(Task) /\ Len(task') = Len(task)
        /\ task'[t] = r
        /\ \A u \in DOMAIN task : u # t => task'[u] = task[u]
    BY <1>3, <1>4, <1>5, ExceptSeq
  <1>7. DOMAIN task' = DOMAIN task  BY <1>4, <1>6, LenProperties
  <1>8. task[t].uuid \in Rows  BY <1>2 DEF Sound, Task
  <1>9. states' = [states EXCEPT ![task[t].uuid] = "Idle"]
        /\ updating' \subseteq updating
    BY DEF Clear, clear_state
  <1>10. TypeOK'
    BY <1>6, <1>8, <1>9 DEF Inv, TypeOK, Clear, bus, rows, Offers
  <1>11. EntryIsKnown' /\ SlotIsKnown' /\ LateRuns'
    BY <1>3, <1>6, <1>7 DEF Inv, EntryIsKnown, SlotIsKnown, LateRuns
  <1>12. StageHasUpdate'
    <2>1. SUFFICES ASSUME NEW d \in Rows,
                          states'[d] \in Stages \cup {"Complete", "Failed"}
                   PROVE  \E u \in DOMAIN task' :
                            task'[u].pc # "done" /\ task'[u].uuid = d
      BY DEF StageHasUpdate, Running
    <2>2. d # task[t].uuid /\ states'[d] = states[d]
      BY <1>8, <1>9, <2>1 DEF Inv, TypeOK, Stages
    <2>3. PICK u \in DOMAIN task : task[u].pc # "done" /\ task[u].uuid = d
      BY <2>1, <2>2 DEF Inv, StageHasUpdate, Running
    <2>4. QED  BY <1>6, <1>7, <2>2, <2>3
  <1>13. BusOK'  BY <1>2 DEF Clear, bus, BusOK
  <1>14. QED  BY <1>10, <1>11, <1>12, <1>13 DEF Inv

\* A row offers an update, asks for USB or shows nothing.
LEMMA OfferType ==
  ASSUME NEW device
  PROVE  Offer(device) \in Offers
  BY DEF Offer, Offers

\* Rows and list changes keep it: what a row sets is no stage of an update.
LEMMA RowStep ==
  ASSUME Inv, NEW d \in Rows,
         \/ ListChanges(d) \/ DrawReads(d) \/ DrawWrites(d) \/ DrawStage(d)
  PROVE  Inv'
  <1>1. TypeOK  BY DEF Inv
  <1>2. task' = task /\ UNCHANGED <<bus, changes, updating>>
    BY DEF ListChanges, DrawReads, DrawWrites, DrawStage
  <1>3. EntryIsKnown' /\ SlotIsKnown' /\ LateRuns'
    BY <1>2 DEF Inv, EntryIsKnown, SlotIsKnown, LateRuns
  <1>4. BusOK'  BY <1>2 DEF Inv, BusOK, bus
  <1>5. CASE ListChanges(d)
    <2>1. Shown(d) \subseteq Listing \cup {Nothing}
      <3>1. d \in Devices /\ port[d] \in {"app", "dfu", "away"}
        BY <1>1, UpdateParameters DEF TypeOK
      <3>2. NoVersion \in Version  BY DEF NoVersion, Version
      <3>3. fw[d] # Bad => Reported(d) \subseteq Version
        BY <1>1, <3>1, <3>2, UpdateParameters DEF TypeOK, Reported
      <3>4. CASE port[d] = "app"
        <4>1. fw[d] # Bad  BY <3>1, <3>4 DEF Inv, BusOK
        <4>2. QED  BY <3>3, <3>4, <4>1 DEF Shown, Listing
      <3>5. CASE port[d] = "dfu"  BY <3>2, <3>5 DEF Shown, Listing
      <3>6. CASE port[d] = "away"
        BY <3>3, <3>6 DEF Shown, Listing
      <3>7. QED  BY <3>1, <3>4, <3>5, <3>6
    <2>2. QED
      BY <1>1, <1>2, <1>3, <1>4, <1>5, <2>1
         DEF ListChanges, Inv, TypeOK, StageHasUpdate, Running, bus
  <1>6. CASE DrawReads(d) \/ DrawStage(d)
    <2>1. states' = states /\ listed' = listed
      BY <1>6 DEF DrawReads, DrawStage
    <2>2. drawing' \in [Rows -> Offers \cup {Nothing}]
      BY <1>1, <1>6, OfferType DEF DrawReads, DrawStage, TypeOK
    <2>3. button' \in [Rows -> BOOLEAN]
      <3>1. PICK b \in BOOLEAN : button' = [button EXCEPT ![d] = b]
        BY <1>6 DEF DrawReads, DrawStage
      <3>2. QED  BY <1>1, <3>1 DEF TypeOK
    <2>4. TypeOK'  BY <1>1, <1>2, <2>1, <2>2, <2>3 DEF TypeOK, bus
    <2>5. StageHasUpdate'
      BY <1>2, <2>1 DEF Inv, StageHasUpdate, Running
    <2>6. QED  BY <1>3, <1>4, <2>4, <2>5 DEF Inv
  <1>7. CASE DrawWrites(d)
    <2>1. drawing[d] \in Offers  BY <1>1, <1>7 DEF DrawWrites, TypeOK
    <2>2. drawing[d] \notin Stages \cup {"Complete", "Failed"}
      BY <2>1 DEF Offers, Stages
    <2>3. TypeOK'  BY <1>1, <1>7, <2>1 DEF DrawWrites, TypeOK, bus
    <2>4. StageHasUpdate'
      BY <1>1, <1>2, <1>7, <2>2
         DEF DrawWrites, Inv, TypeOK, StageHasUpdate, Running
    <2>5. QED  BY <1>3, <1>4, <2>3, <2>4 DEF Inv
  <1>8. QED  BY <1>5, <1>6, <1>7

\* Two records of a task that the invariant does not tell apart.
Alike(a, b) == /\ a \in Task
               /\ a.pc = b.pc /\ a.uuid = b.uuid /\ a.entry = b.entry
               /\ a.slot = b.slot /\ a.late = b.late

\* A function over the places of a sequence is a sequence of the same length.
LEMMA SameLength ==
  ASSUME NEW S, NEW n \in Nat, NEW f \in [1 .. n -> S]
  PROVE  f \in Seq(S) /\ Len(f) = n
  <1>1. f \in Seq(S)  BY SeqDef
  <1>2. 1 .. Len(f) = 1 .. n /\ Len(f) \in Nat
    BY <1>1, LenProperties
  <1>3. QED  BY <1>1, <1>2

\* A plug or a click disturbs running updates and nothing else about them.
LEMMA DisturbAlike ==
  ASSUME TypeOK
  PROVE  /\ Disturb(task) \in [DOMAIN task -> Task]
         /\ \A t \in DOMAIN task : Alike(Disturb(task)[t], task[t])
  <1> SUFFICES ASSUME NEW t \in DOMAIN task
               PROVE  Alike([task[t] EXCEPT !.undisturbed = FALSE], task[t])
    BY DEF Disturb, Alike
  <1>1. task[t] \in Task  BY LenProperties, ElementOfSeq DEF TypeOK
  <1>2. QED  BY <1>1 DEF Alike, Task

\* Plugs keep the invariant.
LEMMA PlugStep ==
  ASSUME Inv, NEW d \in Devices, PlugIn(d) \/ Unplug(d)
  PROVE  Inv'
  <1>1. TypeOK /\ BusOK  BY DEF Inv
  <1>2. /\ changes < MaxChanges /\ changes' = changes + 1
        /\ UNCHANGED <<bank, fw, rows, states, updating>>
    BY DEF PlugIn, Unplug, Change
  <1>3. BusOK'
    BY <1>1, <1>2 DEF PlugIn, Unplug, Boots, BusOK
  <1>4. /\ task' \in [DOMAIN task -> Task]
        /\ \A t \in DOMAIN task : Alike(task'[t], task[t])
    <2>1. CASE PlugIn(d)  BY <1>1, <2>1, DisturbAlike DEF PlugIn
    <2>2. CASE Unplug(d)
      <3>1. task' = [t \in DOMAIN task |->
                       IF task[t].target = d
                       THEN [Disturb(task)[t] EXCEPT !.target = Nothing]
                       ELSE Disturb(task)[t]]
        BY <2>2 DEF Unplug
      <3>2. ASSUME NEW t \in DOMAIN task
            PROVE  Alike([Disturb(task)[t] EXCEPT !.target = Nothing], task[t])
        <4>1. Alike(Disturb(task)[t], task[t])  BY <1>1, DisturbAlike
        <4>2. QED  BY <4>1 DEF Alike, Task
      <3>3. \A t \in DOMAIN task : Alike(task'[t], task[t])
        BY <1>1, <3>1, <3>2, DisturbAlike
      <3>4. QED  BY <3>1, <3>3 DEF Alike
    <2>3. QED  BY <2>1, <2>2
  <1>5. /\ task \in Seq(Task) /\ Len(task) <= MaxUpdates
        /\ DOMAIN task = 1 .. Len(task) /\ Len(task) \in Nat
    BY <1>1, LenProperties DEF TypeOK
  <1>6. task' \in Seq(Task) /\ Len(task') = Len(task) /\ DOMAIN task' = DOMAIN task
    BY <1>4, <1>5, SameLength
  <1>7. changes' \in 0 .. MaxChanges
    BY <1>1, <1>2, UpdateParameters DEF TypeOK
  <1>8. TypeOK'
    BY <1>1, <1>2, <1>3, <1>5, <1>6, <1>7 DEF TypeOK, BusOK, rows
  <1>9. EntryIsKnown' /\ SlotIsKnown' /\ LateRuns'
    BY <1>4, <1>6 DEF Inv, EntryIsKnown, SlotIsKnown, LateRuns, Alike
  <1>10. StageHasUpdate'
    BY <1>2, <1>4, <1>6 DEF Inv, StageHasUpdate, Running, Alike
  <1>11. QED  BY <1>3, <1>8, <1>9, <1>10 DEF Inv

\* A click keeps it: the new task runs and sets no state yet.
LEMMA StartStep ==
  ASSUME Inv, NEW d \in Rows, start_firmware_update(d)
  PROVE  Inv'
  <1> DEFINE before == IF Running = {} THEN task ELSE Disturb(task)
             first == [pc |-> "begin", uuid |-> d, entry |-> Chosen(listed[d]),
                       slot |-> Nothing, target |-> Nothing, late |-> FALSE,
                       undisturbed |-> Running = {} /\ Plugged = {d}]
             n == Len(task)
  <1>1. /\ task' = Append(before, first) /\ n < MaxUpdates
        /\ updating' = updating \cup {d}
        /\ UNCHANGED <<bus, changes, rows, states>>
    BY DEF start_firmware_update
  <1>2. TypeOK /\ BusOK  BY DEF Inv
  <1>3. task \in Seq(Task) /\ DOMAIN task = 1 .. n /\ n \in Nat
    BY <1>2, LenProperties DEF TypeOK
  <1>4. \A t \in 1 .. n : Alike(before[t], task[t])
    <2>1. \A t \in 1 .. n : Alike(task[t], task[t])
      BY <1>3, ElementOfSeq DEF Alike
    <2>2. QED  BY <1>2, <1>3, <2>1, DisturbAlike
  <1>5. before \in Seq(Task) /\ Len(before) = n
    BY <1>2, <1>3, DisturbAlike, SameLength
  <1>6. first \in Task
    BY ChosenType DEF Task
  <1> HIDE DEF before
  <1>7. first.pc = "begin" /\ ~ first.late  OBVIOUS
  <1> HIDE DEF first
  <1>8. /\ task' \in Seq(Task) /\ Len(task') = n + 1
        /\ \A t \in 1 .. n : Alike(task'[t], task[t])
        /\ task'[n + 1] = first
    BY <1>1, <1>4, <1>5, <1>6, AppendProperties
  <1>9. DOMAIN task' = 1 .. n + 1  BY <1>8, LenProperties
  <1>10. \A t \in DOMAIN task' : t = n + 1 \/ t \in DOMAIN task
    BY <1>3, <1>9
  <1>11. DOMAIN task \subseteq DOMAIN task'  BY <1>3, <1>9
  <1>12. TypeOK'
    BY <1>1, <1>2, <1>3, <1>8, UpdateParameters DEF TypeOK, bus, rows
  <1>13. EntryIsKnown' /\ SlotIsKnown' /\ LateRuns'
    BY <1>3, <1>7, <1>8, <1>10
       DEF Inv, EntryIsKnown, SlotIsKnown, LateRuns, Alike
  <1>14. StageHasUpdate'
    BY <1>1, <1>3, <1>8, <1>11 DEF Inv, StageHasUpdate, Running, Alike
  <1>15. BusOK'  BY <1>1, <1>2 DEF BusOK, bus
  <1>16. QED  BY <1>12, <1>13, <1>14, <1>15 DEF Inv

\* The invariant holds at the start and is kept by every step.
LEMMA InitInv == Init => Inv
  <1> SUFFICES ASSUME Init PROVE Inv  OBVIOUS
  <1>1. TypeOK /\ BusOK
    <2>1. task \in Seq(Task) /\ Len(task) = 0  BY EmptySeq DEF Init
    <2>2. QED
      BY <2>1, UpdateParameters DEF Init, TypeOK, BusOK, Banks, Offers
  <1>2. DOMAIN task = {}  BY DEF Init
  <1>3. EntryIsKnown /\ SlotIsKnown /\ LateRuns
    BY <1>2 DEF EntryIsKnown, SlotIsKnown, LateRuns
  <1>4. StageHasUpdate  BY DEF Init, StageHasUpdate, Stages
  <1>5. QED  BY <1>1, <1>3, <1>4 DEF Inv

LEMMA NextInv == Inv /\ [Next]_vars => Inv'
  <1> SUFFICES ASSUME Inv, [Next]_vars PROVE Inv'  OBVIOUS
  <1>1. CASE UNCHANGED vars
    BY <1>1 DEF vars, bus, rows, Inv, TypeOK, BusOK, EntryIsKnown, SlotIsKnown,
                LateRuns, StageHasUpdate, Running
  <1>2. CASE Next
    BY <1>2, PlugStep, RowStep, StartStep, TaskStep, ClearStep DEF Next
  <1>3. QED  BY <1>1, <1>2

LEMMA Invariance == Spec => []Inv
  BY InitInv, NextInv, PTL DEF Spec

\* Every variable keeps its type: for any number of devices, rows, updates and
\* plug changes, whatever the manifest lists (firmware_update.rs:54-57).
THEOREM UpdateTypeCorrect == Spec => []TypeOK
  <1>1. Inv => TypeOK  BY DEF Inv
  <1>2. QED  BY <1>1, Invariance, PTL

\* No row is left in a stage of an update that no task runs, however many
\* updates of one device overlap, fail or write late (firmware_update.rs:
\* 384-395).
THEOREM StageAlwaysHasUpdate == Spec => []StageHasUpdate
  <1>1. Inv => StageHasUpdate  BY DEF Inv
  <1>2. QED  BY <1>1, Invariance, PTL

(***************************************************************************)
(* Updates that nothing disturbs.                                          *)
(***************************************************************************)
Success == {"Rebooting", "Verifying", "Complete"}

\* How a running task r stands to its device on a bus with ports p, free banks
\* b and firmware f, when the rows are in states s: the device is the only one,
\* the slot it chose is the free bank, what it holds open is its device, and
\* from the reboot on the device runs its entry.
Settled(r, p, b, f, s) ==
  LET d == r.uuid
  IN /\ {e \in Devices : p[e] # "away"} = {d}
     /\ r.pc \in {"download", "open", "write"} => r.slot = b[d]
     /\ r.pc = "write" => r.target = d
     /\ s[d] \in Success => r.pc \in {"reboot", "verify", "linger"}
     /\ r.pc \in {"reboot", "verify"} \/ s[d] \in Success
          => f[d] = r.entry /\ p[d] = "app"

\* An undisturbed update is the only one, and so stands to its device.
Calm ==
  \A t \in DOMAIN task :
    task[t].undisturbed
      => Running = {t} /\ Settled(task[t], port, bank, fw, states)

\* A step of one task only has to settle that task: no other is undisturbed.
LEMMA CalmMoves ==
  ASSUME Inv, Calm, NEW t \in Running, NEW r, r.pc # "done",
         task' = [task EXCEPT ![t] = r],
         r.undisturbed = task[t].undisturbed,
         r.undisturbed => Settled(r, port', bank', fw', states')
  PROVE  Calm'
  <1>1. task \in Seq(Task) /\ DOMAIN task = 1 .. Len(task) /\ t \in DOMAIN task
    BY LenProperties DEF Inv, TypeOK, Running
  <1>2. /\ DOMAIN task' = DOMAIN task /\ task'[t] = r
        /\ \A u \in DOMAIN task : u # t => task'[u] = task[u]
    BY <1>1
  <1>3. Running' = Running  BY <1>2 DEF Running
  <1>4. ASSUME NEW u \in DOMAIN task, task'[u].undisturbed
        PROVE  /\ Running = {u}
               /\ Settled(task'[u], port', bank', fw', states')
    <2>1. task[u].undisturbed  BY <1>2, <1>4
    <2>2. Running = {u}  BY <2>1 DEF Calm
    <2>3. u = t  BY <2>2
    <2>4. QED  BY <1>2, <1>4, <2>2, <2>3
  <1>5. QED  BY <1>2, <1>3, <1>4 DEF Calm

\* The same when only the task's place in the program changes.
LEMMA CalmPcMoves ==
  ASSUME Inv, Calm, NEW t \in Running, NEW q \in Pcs \ {"done"},
         task' = [task EXCEPT ![t].pc = q],
         task[t].undisturbed
           => Settled([task[t] EXCEPT !.pc = q], port', bank', fw', states')
  PROVE  Calm'
  <1> DEFINE r == [task[t] EXCEPT !.pc = q]
  <1>1. task[t] \in Task
    BY LenProperties, ElementOfSeq DEF Inv, TypeOK, Running
  <1>2. r.pc = q /\ r.undisturbed = task[t].undisturbed  BY <1>1 DEF Task
  <1>3. task' = [task EXCEPT ![t] = r]  OBVIOUS
  <1>4. q # "done"  OBVIOUS
  <1>5. r.undisturbed => Settled(r, port', bank', fw', states')
    BY <1>2
  <1> HIDE DEF r
  <1>6. QED  BY <1>2, <1>3, <1>4, <1>5, CalmMoves

\* A failure leaves nothing to be settled but that it is one.
LEMMA CalmFails ==
  ASSUME Inv, Calm, NEW t \in Running, Fails(t)
  PROVE  Calm'
  <1>1. Sound(task[t])  BY RunningIsSound DEF Running
  <1>2. /\ task' = [task EXCEPT ![t].pc = "linger"]
        /\ states' = [states EXCEPT ![task[t].uuid] = "Failed"]
        /\ UNCHANGED <<port, bank, fw>>
    BY DEF Fails, Enter, bus
  <1>3. ASSUME task[t].undisturbed
        PROVE  Settled([task[t] EXCEPT !.pc = "linger"],
                       port', bank', fw', states')
    <2>1. Settled(task[t], port, bank, fw, states)  BY <1>3 DEF Calm, Running
    <2>2. states'[task[t].uuid] = "Failed"
      BY <1>1, <1>2 DEF Inv, TypeOK, Sound, Task
    <2>3. QED  BY <1>1, <1>2, <2>1, <2>2 DEF Settled, Sound, Task, Success
  <1>4. "linger" \in Pcs \ {"done"}  BY DEF Pcs
  <1>5. QED  BY <1>2, <1>3, <1>4, CalmPcMoves

\* The end of a flash: a success has to have changed the device.
LEMMA CalmFlashEnds ==
  ASSUME Inv, Calm, NEW t \in Running,
         NEW q \in {"linger", "reboot"}, NEW s,
         \/ q = "linger" /\ s = "Failed"
         \/ q = "reboot" /\ s = "Rebooting",
         FlashEnds(t, q, s),
         task[t].undisturbed
           => /\ Plugged' = {task[t].uuid}
              /\ q = "reboot" => /\ fw'[task[t].uuid] = task[t].entry
                                 /\ port'[task[t].uuid] = "app"
  PROVE  Calm'
  <1>1. PICK late \in BOOLEAN :
          /\ task' = [task EXCEPT ![t] =
                        [@ EXCEPT !.pc = q, !.target = Nothing,
                                  !.slot = Nothing, !.late = late]]
          /\ states' = [states EXCEPT ![task[t].uuid] = s]
    BY DEF FlashEnds
  <1> DEFINE r == [task[t] EXCEPT !.pc = q, !.target = Nothing,
                                  !.slot = Nothing, !.late = late]
  <1>2. Sound(task[t])  BY RunningIsSound DEF Running
  <1>3. /\ r.pc = q /\ r.undisturbed = task[t].undisturbed
        /\ r.uuid = task[t].uuid /\ r.entry = task[t].entry
    BY <1>2 DEF Sound, Task
  <1>4. task' = [task EXCEPT ![t] = r]  BY <1>1
  <1> HIDE DEF r
  <1>5. states'[task[t].uuid] = s
    BY <1>1, <1>2 DEF Inv, TypeOK, Sound, Task
  <1>6. ASSUME r.undisturbed PROVE Settled(r, port', bank', fw', states')
    <2>1. s = "Failed" \/ s = "Rebooting"  OBVIOUS
    <2>2. Plugged' = {e \in Devices : port'[e] # "away"}  BY DEF Plugged
    <2>3. QED  BY <1>3, <1>5, <1>6, <2>2 DEF Settled, Success
  <1>7. QED  BY <1>3, <1>4, <1>6, CalmMoves

\* Every step of an update keeps it: each lookup finds the one device there is.
LEMMA CalmTaskStep ==
  ASSUME Inv, Calm, NEW t \in DOMAIN task, run_firmware_update(t)
  PROVE  Calm'
  <1> DEFINE record == task[t]
             d == record.uuid
             Alright == Settled(record, port, bank, fw, states)
  <1>1. record.pc # "done" /\ t \in Running
    BY DEF run_firmware_update, Begin, Detach, WaitForDfu, DetermineSlot,
           Download, OpenForFlash, Write, LateProgress, Reboot, Verify,
           Inv, LateRuns, Running
  <1>2. Sound(record) /\ BusOK /\ TypeOK  BY <1>1, RunningIsSound DEF Inv
  <1>3. record \in Task /\ d \in Rows /\ d \in Devices
    BY <1>2, UpdateParameters DEF Sound, Task
  <1>4. record.undisturbed => Alright /\ Plugged = {d} /\ port[d] # "away"
    BY <1>1, <1>3 DEF Calm, Settled, Plugged
  <1>5. \A e : e \in Plugged <=> e \in Devices /\ port[e] # "away"
    BY DEF Plugged
  <1>6. \A q : [record EXCEPT !.pc = q].uuid = d
               /\ [record EXCEPT !.pc = q].pc = q
               /\ [record EXCEPT !.pc = q].entry = record.entry
               /\ [record EXCEPT !.pc = q].slot = record.slot
               /\ [record EXCEPT !.pc = q].target = record.target
    BY <1>3 DEF Task
  <1>7. ASSUME Fails(t) PROVE Calm'  BY <1>1, <1>7, CalmFails
  <1>8. ASSUME record.undisturbed, UNCHANGED bus
        PROVE  {e \in Devices : port'[e] # "away"} = {d}
    BY <1>4, <1>8 DEF Plugged, bus
  \* A step without a write that sets no state of success.
  <1>9. ASSUME NEW q \in {"slot", "detach", "open"},
               record.pc \in {"begin", "wait", "download"},
               q = "open" => record.pc = "download",
               task' = [task EXCEPT ![t].pc = q],
               \/ states' = states
               \/ \E s \in {"Detaching", "Flashing"} :
                    states' = [states EXCEPT ![d] = s],
               UNCHANGED bus
        PROVE  Calm'
    <2>1. ASSUME record.undisturbed
          PROVE  Settled([record EXCEPT !.pc = q], port', bank', fw', states')
      <3>1. states[d] \notin Success  BY <1>4, <1>9, <2>1 DEF Settled
      <3>2. states'[d] \notin Success
        BY <1>2, <1>3, <1>9, <3>1 DEF TypeOK, Success
      <3>3. q = "open" => record.slot = bank'[d]
        BY <1>4, <1>9, <2>1 DEF Settled, bus
      <3>4. q # "write" /\ q # "download" /\ q \notin {"reboot", "verify"}
        OBVIOUS
      <3>5. QED  BY <1>6, <1>8, <1>9, <2>1, <3>2, <3>3, <3>4 DEF Settled
    <2>2. q \in Pcs \ {"done"}  BY DEF Pcs
    <2>3. QED  BY <1>1, <1>9, <2>1, <2>2, CalmPcMoves
  <1>10. CASE Begin(t)
    BY <1>7, <1>9, <1>10 DEF Begin, Proceeds, Enter
  <1>11. CASE WaitForDfu(t)
    BY <1>7, <1>9, <1>11 DEF WaitForDfu, bus
  <1>12. CASE Download(t)
    BY <1>7, <1>9, <1>12 DEF Download, Enter
  <1>13. CASE Detach(t)
    <2>1. CASE Fails(t)  BY <1>7, <2>1
    <2>2. ASSUME NEW e \in find_device_by_uuid(d) \ Held,
                 NEW after \in {"dfu", Boots(e)},
                 port' = [port EXCEPT ![e] = after],
                 Enter(t, "wait", "WaitingForDfu"),
                 UNCHANGED <<bank, fw>>
          PROVE  Calm'
      <3>1. after # "away"  BY DEF Boots
      <3>2. e \in Plugged  BY DEF find_device_by_uuid
      <3>3. Plugged' = Plugged
        BY <1>2, <2>2, <3>1, <3>2 DEF Plugged, TypeOK
      <3>4. states'[d] = "WaitingForDfu"
        BY <1>2, <1>3, <2>2 DEF Enter, TypeOK
      <3>5. ASSUME record.undisturbed
            PROVE  Settled([record EXCEPT !.pc = "wait"],
                           port', bank', fw', states')
        <4>1. {x \in Devices : port'[x] # "away"} = {d}
          BY <1>4, <3>3, <3>5 DEF Plugged
        <4>2. states'[d] \notin Success  BY <3>4 DEF Success
        <4>3. QED  BY <1>6, <4>1, <4>2 DEF Settled
      <3>6. "wait" \in Pcs \ {"done"}  BY DEF Pcs
      <3>7. QED  BY <1>1, <2>2, <3>5, <3>6, CalmPcMoves DEF Enter
    <2>3. QED  BY <1>13, <2>1, <2>2 DEF Detach
  <1>14. CASE DetermineSlot(t)
    <2>1. CASE Fails(t)  BY <1>7, <2>1
    <2>2. ASSUME NEW e \in Plugged,
                 task' = [task EXCEPT ![t] =
                           [@ EXCEPT !.pc = "download", !.slot = TargetSlot(e)]],
                 states' = [states EXCEPT ![d] = "Downloading"],
                 UNCHANGED bus
          PROVE  Calm'
      <3> DEFINE r == [record EXCEPT !.pc = "download", !.slot = TargetSlot(e)]
      <3>1. /\ r.pc = "download" /\ r.undisturbed = record.undisturbed
            /\ r.uuid = d /\ r.slot = bank[e]
        BY <1>3 DEF Task, TargetSlot
      <3>2. task' = [task EXCEPT ![t] = r]  BY <2>2
      <3> HIDE DEF r
      <3>3. states'[d] = "Downloading"  BY <1>2, <1>3, <2>2 DEF TypeOK
      <3>4. ASSUME r.undisturbed PROVE Settled(r, port', bank', fw', states')
        <4>1. e = d  BY <1>4, <3>1, <3>4
        <4>2. states'[d] \notin Success  BY <3>3 DEF Success
        <4>3. r.slot = bank'[d]  BY <2>2, <3>1, <4>1 DEF bus
        <4>4. QED  BY <1>8, <2>2, <3>1, <3>4, <4>2, <4>3 DEF Settled
      <3>5. QED  BY <1>1, <3>1, <3>2, <3>4, CalmMoves
    <2>3. QED  BY <1>14, <2>1, <2>2 DEF DetermineSlot
  <1>15. ASSUME FlashFails(t) PROVE Calm'
    <2>1. record.undisturbed => Plugged' = {d}
      BY <1>8, <1>15 DEF FlashFails, Plugged
    <2>2. QED  BY <1>1, <1>15, <2>1, CalmFlashEnds DEF FlashFails
  <1>16. CASE OpenForFlash(t)
    <2>1. CASE FlashFails(t)  BY <1>15, <2>1
    <2>2. ASSUME NEW e \in Plugged,
                 task' = [task EXCEPT ![t] =
                           [@ EXCEPT !.pc = "write", !.target = e]],
                 UNCHANGED <<bus, states>>
          PROVE  Calm'
      <3> DEFINE r == [record EXCEPT !.pc = "write", !.target = e]
      <3>1. /\ r.pc = "write" /\ r.undisturbed = record.undisturbed
            /\ r.uuid = d /\ r.slot = record.slot /\ r.target = e
        BY <1>3 DEF Task
      <3>2. task' = [task EXCEPT ![t] = r]  BY <2>2
      <3> HIDE DEF r
      <3>3. record.pc = "open"  BY <1>16 DEF OpenForFlash
      <3>4. ASSUME r.undisturbed PROVE Settled(r, port', bank', fw', states')
        <4>1. e = d  BY <1>4, <3>1, <3>4
        <4>2. states'[d] \notin Success
          BY <1>4, <2>2, <3>1, <3>3, <3>4 DEF Settled
        <4>3. r.slot = bank'[d]
          BY <1>4, <2>2, <3>1, <3>3, <3>4 DEF Settled, bus
        <4>4. QED
          BY <1>8, <2>2, <3>1, <3>4, <4>1, <4>2, <4>3 DEF Settled
      <3>5. QED  BY <1>1, <3>1, <3>2, <3>4, CalmMoves
    <2>3. QED  BY <1>16, <2>1, <2>2 DEF OpenForFlash
  <1>17. CASE Write(t)
    <2>1. record.pc = "write"  BY <1>17 DEF Write
    <2>2. record.undisturbed => record.target = d /\ record.slot = bank[d]
      BY <1>4, <2>1 DEF Settled
    <2>3. CASE FlashFails(t)  BY <1>15, <2>3
    <2>4. CASE record.target = Nothing /\ FlashEnds(t, "reboot", "Rebooting")
               /\ UNCHANGED bus
      <3>1. ~ record.undisturbed
        BY <1>3, <2>2, <2>4, UpdateParameters
      <3>2. QED  BY <1>1, <2>4, <3>1, CalmFlashEnds
    <2> DEFINE e == record.target
               fits == record.slot = bank[e]
    <2>5. CASE /\ e # Nothing
               /\ fw' = [fw EXCEPT ![e] = IF fits THEN record.entry ELSE Bad]
               /\ port' = [port EXCEPT ![e] = IF fits THEN "app" ELSE "dfu"]
               /\ FlashEnds(t, "reboot", "Rebooting")
      <3>1. ASSUME record.undisturbed
            PROVE  /\ Plugged' = {d}
                   /\ fw'[d] = record.entry /\ port'[d] = "app"
        <4>1. e = d /\ fits  BY <2>2, <3>1
        <4>2. port' = [port EXCEPT ![d] = "app"] /\ fw'[d] = record.entry
          BY <1>2, <1>3, <2>5, <4>1 DEF TypeOK
        <4>3. port'[d] = "app" /\ \A x \in Devices : x # d => port'[x] = port[x]
          BY <1>2, <1>3, <4>2 DEF TypeOK
        <4>4. Plugged' = {d}
          BY <1>3, <1>4, <3>1, <4>3 DEF Plugged
        <4>5. QED  BY <4>2, <4>3, <4>4
      <3>2. QED  BY <1>1, <2>5, <3>1, CalmFlashEnds
    <2>6. QED  BY <1>17, <2>3, <2>4, <2>5 DEF Write
  <1>18. CASE LateProgress(t)
    <2> DEFINE r == [record EXCEPT !.late = FALSE]
    <2>1. /\ r.pc = record.pc /\ r.undisturbed = record.undisturbed
          /\ r.uuid = d /\ r.slot = record.slot /\ r.target = record.target
          /\ r.entry = record.entry
      BY <1>3 DEF Task
    <2>2. task' = [task EXCEPT ![t] = r] /\ UNCHANGED bus
      BY <1>18 DEF LateProgress
    <2> HIDE DEF r
    <2>3. states'[d] \notin Success
      BY <1>2, <1>3, <1>18 DEF LateProgress, TypeOK, Success
    <2>4. ASSUME r.undisturbed PROVE Settled(r, port', bank', fw', states')
      BY <1>4, <1>8, <2>1, <2>2, <2>3, <2>4 DEF Settled, bus
    <2>5. QED  BY <1>1, <2>1, <2>2, <2>4, CalmMoves
  \* What follows a reboot finds the entry installed.
  <1>19. ASSUME NEW q \in {"verify", "linger"}, NEW s \in Success,
                record.pc \in {"reboot", "verify"}, Enter(t, q, s),
                UNCHANGED bus
         PROVE  Calm'
    <2>1. ASSUME record.undisturbed
          PROVE  Settled([record EXCEPT !.pc = q], port', bank', fw', states')
      <3>1. fw'[d] = record.entry /\ port'[d] = "app"
        BY <1>4, <1>19, <2>1 DEF Settled, bus
      <3>2. QED  BY <1>6, <1>8, <1>19, <2>1, <3>1 DEF Settled
    <2>2. q \in Pcs \ {"done"}  BY DEF Pcs
    <2>3. QED  BY <1>1, <1>19, <2>1, <2>2, CalmPcMoves DEF Enter
  <1>20. CASE Reboot(t)  BY <1>19, <1>20 DEF Reboot, Success
  <1>21. CASE Verify(t)  BY <1>19, <1>21 DEF Verify, Success
  <1>22. QED
    BY <1>10, <1>11, <1>12, <1>13, <1>14, <1>16, <1>17, <1>18, <1>20, <1>21
       DEF run_firmware_update

\* Rows and list changes keep it: what a row sets is no success.
LEMMA CalmRowStep ==
  ASSUME Inv, Calm, NEW d \in Rows,
         \/ ListChanges(d) \/ DrawReads(d) \/ DrawWrites(d) \/ DrawStage(d)
  PROVE  Calm'
  <1>1. TypeOK  BY DEF Inv
  <1>2. UNCHANGED <<task, port, bank, fw>>
    BY DEF ListChanges, DrawReads, DrawWrites, DrawStage, bus
  <1>3. \A e \in Rows : states'[e] \in Success => states'[e] = states[e]
    <2>1. CASE DrawWrites(d)
      <3>1. drawing[d] \in Offers  BY <1>1, <2>1 DEF DrawWrites, TypeOK
      <3>2. QED
        BY <1>1, <2>1, <3>1 DEF DrawWrites, TypeOK, Offers, Success
    <2>2. CASE ListChanges(d) \/ DrawReads(d) \/ DrawStage(d)
      BY <2>2 DEF ListChanges, DrawReads, DrawStage
    <2>3. QED  BY <2>1, <2>2
  <1>4. ASSUME NEW t \in DOMAIN task, task[t].undisturbed
        PROVE  Settled(task[t], port, bank, fw, states')
    <2>1. task[t].uuid \in Rows
      <3>1. task[t] \in Task
        BY <1>1, LenProperties, ElementOfSeq DEF TypeOK
      <3>2. QED  BY <3>1 DEF Task
    <2>2. Settled(task[t], port, bank, fw, states)  BY <1>4 DEF Calm
    <2>3. QED  BY <1>3, <2>1, <2>2 DEF Settled
  <1>5. Running' = Running  BY <1>2 DEF Running
  <1>6. QED  BY <1>2, <1>4, <1>5 DEF Calm

\* A plug disturbs every update.
LEMMA CalmPlugStep ==
  ASSUME Inv, Calm, NEW d \in Devices, PlugIn(d) \/ Unplug(d)
  PROVE  Calm'
  <1>1. TypeOK  BY DEF Inv
  <1>2. \A t \in DOMAIN task : task[t] \in Task
    BY <1>1, LenProperties, ElementOfSeq DEF TypeOK
  <1>3. \A t \in DOMAIN task' : t \in DOMAIN task /\ ~ task'[t].undisturbed
    <2> DEFINE quiet == Disturb(task)
    <2>1. quiet = [t \in DOMAIN task |-> [task[t] EXCEPT !.undisturbed = FALSE]]
      BY DEF Disturb
    <2>2. ASSUME NEW t \in DOMAIN task
          PROVE  quiet[t] \in Task /\ ~ quiet[t].undisturbed
      <3>1. task[t] \in Task  BY <1>2
      <3>2. [task[t] EXCEPT !.undisturbed = FALSE] \in Task
            /\ ~ [task[t] EXCEPT !.undisturbed = FALSE].undisturbed
        BY <3>1 DEF Task
      <3>3. QED  BY <2>1, <3>2
    <2>3. CASE PlugIn(d)  BY <2>1, <2>2, <2>3 DEF PlugIn
    <2>4. CASE Unplug(d)
      <3>1. \A t \in DOMAIN task :
              ~ [quiet[t] EXCEPT !.target = Nothing].undisturbed
        BY <2>2 DEF Task
      <3>2. task' = [t \in DOMAIN task |->
                       IF task[t].target = d
                       THEN [quiet[t] EXCEPT !.target = Nothing]
                       ELSE quiet[t]]
        BY <2>4 DEF Unplug
      <3> HIDE DEF quiet
      <3>3. QED  BY <2>2, <3>1, <3>2
    <2>5. QED  BY <2>3, <2>4
  <1>4. QED  BY <1>3 DEF Calm

\* The end of an update leaves no other that was undisturbed.
LEMMA CalmClear ==
  ASSUME Inv, Calm, NEW t \in DOMAIN task, Clear(t)
  PROVE  Calm'
  <1>1. t \in Running  BY DEF Clear, Running
  <1>2. task[t] \in Task
    BY LenProperties, ElementOfSeq DEF Inv, TypeOK
  <1>3. ~ Over(task[t]).undisturbed  BY <1>2 DEF Over, Task
  <1>4. /\ DOMAIN task' = DOMAIN task /\ ~ task'[t].undisturbed
        /\ \A u \in DOMAIN task : u # t => task'[u] = task[u]
    BY <1>3, LenProperties DEF Clear, Inv, TypeOK
  <1>5. \A u \in DOMAIN task : u # t => ~ task[u].undisturbed
    BY <1>1 DEF Calm
  <1>6. QED  BY <1>4, <1>5 DEF Calm

\* A click disturbs those that run; the new update is undisturbed if there are
\* none and its device is the only one.
LEMMA CalmStart ==
  ASSUME Inv, Calm, NEW d \in Rows, start_firmware_update(d)
  PROVE  Calm'
  <1> DEFINE before == IF Running = {} THEN task ELSE Disturb(task)
             first == [pc |-> "begin", uuid |-> d, entry |-> Chosen(listed[d]),
                       slot |-> Nothing, target |-> Nothing, late |-> FALSE,
                       undisturbed |-> Running = {} /\ Plugged = {d}]
             n == Len(task)
  <1>1. task' = Append(before, first) /\ UNCHANGED <<bus, states>>
    BY DEF start_firmware_update
  <1>2. task \in Seq(Task) /\ DOMAIN task = 1 .. n /\ n \in Nat
    BY LenProperties DEF Inv, TypeOK
  <1>3. before \in Seq(Task) /\ Len(before) = n
    BY <1>2, DisturbAlike, SameLength DEF Inv
  <1>4. first \in Task  BY ChosenType DEF Task
  <1>5. \A t \in 1 .. n : task[t] \in Task  BY <1>2, ElementOfSeq
  <1>6. ASSUME NEW t \in 1 .. n
        PROVE  ~ before[t].undisturbed
    <2>1. CASE Running = {}  BY <1>2, <2>1 DEF Calm
    <2>2. CASE Running # {}
      <3>1. before[t] = [task[t] EXCEPT !.undisturbed = FALSE]
        BY <1>2, <2>2 DEF Disturb
      <3>2. QED  BY <1>5, <3>1 DEF Task
    <2>3. QED  BY <2>1, <2>2
  <1> HIDE DEF before
  <1>7. /\ first.pc = "begin" /\ first.uuid = d
        /\ first.undisturbed => Running = {} /\ Plugged = {d}
    OBVIOUS
  <1> HIDE DEF first
  <1>8. /\ DOMAIN task' = 1 .. n + 1
        /\ \A t \in 1 .. n : task'[t] = before[t]
        /\ task'[n + 1] = first
    BY <1>1, <1>3, <1>4, AppendProperties, LenProperties
  <1>9. \A t \in DOMAIN task' : t = n + 1 \/ t \in 1 .. n
    BY <1>2, <1>8
  <1> HIDE DEF n
  <1>10. ASSUME NEW t \in DOMAIN task', task'[t].undisturbed
         PROVE  /\ Running' = {t}
                /\ Settled(task'[t], port', bank', fw', states')
    <2>1. t = n + 1 /\ task'[t] = first
      BY <1>6, <1>8, <1>9, <1>10
    <2>2. Running = {} /\ Plugged = {d}  BY <1>7, <1>10, <2>1
    <2>3. \A u \in 1 .. n : task'[u] = task[u] /\ task[u].pc = "done"
      BY <1>2, <1>8, <2>2 DEF Running, before
    <2>4. Running' = {t}
      BY <1>7, <1>9, <1>10, <2>1, <2>3 DEF Running
    <2>5. states[d] \notin Success
      BY <2>2 DEF Inv, StageHasUpdate, Stages, Success
    <2>6. Settled(first, port', bank', fw', states')
      BY <1>1, <1>7, <2>2, <2>5 DEF Settled, Plugged, bus
    <2>7. QED  BY <2>1, <2>4, <2>6
  <1>11. QED  BY <1>10 DEF Calm

LEMMA CalmNext == Inv /\ Calm /\ [Next]_vars => Calm'
  <1> SUFFICES ASSUME Inv, Calm, [Next]_vars PROVE Calm'  OBVIOUS
  <1>1. CASE UNCHANGED vars
    BY <1>1 DEF vars, bus, rows, Calm, Running
  <1>2. CASE Next
    BY <1>2, CalmPlugStep, CalmRowStep, CalmStart, CalmTaskStep, CalmClear
       DEF Next
  <1>3. QED  BY <1>1, <1>2

LEMMA CalmHolds == Spec => [](Inv /\ Calm)
  <1>1. Init => Calm  BY DEF Init, Calm, Running
  <1>2. QED  BY <1>1, InitInv, NextInv, CalmNext, PTL DEF Spec

\* No update is forgotten.
LEMMA DomainGrows ==
  ASSUME Inv, Next
  PROVE  DOMAIN task \subseteq DOMAIN task'
  <1>1. CASE \E d \in Rows : start_firmware_update(d)
    <2> DEFINE before == IF Running = {} THEN task ELSE Disturb(task)
    <2>1. task \in Seq(Task) /\ DOMAIN task = 1 .. Len(task) /\ Len(task) \in Nat
      BY LenProperties DEF Inv, TypeOK
    <2>2. before \in Seq(Task) /\ Len(before) = Len(task)
      BY <2>1, DisturbAlike, SameLength DEF Inv
    <2>3. PICK first \in Task : task' = Append(before, first)
      <3>1. PICK d \in Rows : start_firmware_update(d)  BY <1>1
      <3> DEFINE first == [pc |-> "begin", uuid |-> d,
                           entry |-> Chosen(listed[d]),
                           slot |-> Nothing, target |-> Nothing, late |-> FALSE,
                           undisturbed |-> Running = {} /\ Plugged = {d}]
      <3>2. first \in Task  BY ChosenType DEF Task
      <3>3. task' = Append(before, first)
        BY <3>1 DEF start_firmware_update
      <3> HIDE DEF before, first
      <3>4. QED  BY <3>2, <3>3
    <2> HIDE DEF before
    <2>4. task' \in Seq(Task) /\ Len(task') = Len(task) + 1
      BY <2>2, <2>3, AppendProperties
    <2>5. QED  BY <2>1, <2>4, LenProperties
  <1>2. CASE \E d \in Devices : PlugIn(d) \/ Unplug(d)
    BY <1>2 DEF PlugIn, Unplug, Disturb
  <1>3. CASE \E d \in Rows : ListChanges(d) \/ DrawReads(d) \/ DrawWrites(d)
                             \/ DrawStage(d)
    BY <1>3 DEF ListChanges, DrawReads, DrawWrites, DrawStage
  <1>4. CASE \E t \in DOMAIN task : run_firmware_update(t) \/ Clear(t)
    BY <1>4 DEF run_firmware_update, Begin, Proceeds, Fails, FlashFails, Enter,
       FlashEnds, Detach, WaitForDfu, DetermineSlot, Download, OpenForFlash,
       Write, LateProgress, Reboot, Verify, Clear
  <1>5. QED  BY <1>1, <1>2, <1>3, <1>4 DEF Next

\* The end of a flash is about one update and keeps whose it is.
LEMMA FlashEndsKeeps ==
  ASSUME Inv, NEW u \in DOMAIN task, NEW q, NEW s, FlashEnds(u, q, s)
  PROVE  /\ \A v \in DOMAIN task : v # u => task'[v] = task[v]
         /\ task'[u].uuid = task[u].uuid
         /\ task'[u].undisturbed = task[u].undisturbed
  <1>1. PICK late \in BOOLEAN :
          task' = [task EXCEPT ![u] =
                     [@ EXCEPT !.pc = q, !.target = Nothing,
                               !.slot = Nothing, !.late = late]]
    BY DEF FlashEnds
  <1>2. task[u] \in Task  BY LenProperties, ElementOfSeq DEF Inv, TypeOK
  <1>3. QED  BY <1>1, <1>2 DEF Task

\* An update that nothing disturbs makes no device unbootable, and one that
\* reports success has installed its entry: for any number of devices, rows,
\* earlier updates and plug changes (firmware.rs:395-416, 602,
\* firmware_update.rs:454-577).
THEOREM QuietUpdatesWork == Spec => UndisturbedUpdateWorks
  <1> DEFINE Works ==
        \A t \in Running :
          LET d == task'[t].uuid
          IN task'[t].undisturbed =>
               /\ fw'[d] = Bad => fw[d] = Bad
               /\ states'[d] \in {"Rebooting", "Verifying", "Complete"}
                    => fw'[d] = task'[t].entry /\ port'[d] = "app"
  <1>1. Inv /\ Calm /\ [Next]_vars => [Works]_vars
    <2> SUFFICES ASSUME Inv, Calm, Next, NEW t \in Running,
                        task'[t].undisturbed
                 PROVE  LET d == task'[t].uuid
                        IN /\ fw'[d] = Bad => fw[d] = Bad
                           /\ states'[d] \in Success
                                => fw'[d] = task'[t].entry /\ port'[d] = "app"
      BY DEF Works, Success
    <2> DEFINE d == task'[t].uuid
    <2>1. t \in DOMAIN task /\ task[t].pc # "done"  BY DEF Running
    <2>2. t \in DOMAIN task'
      BY <2>1, DomainGrows
    <2>3. states'[d] \in Success => fw'[d] = task'[t].entry /\ port'[d] = "app"
      BY <2>2, CalmNext DEF Calm, Settled
    <2>4. ASSUME fw'[d] = Bad, fw[d] # Bad PROVE FALSE
      <3>1. fw' # fw  BY <2>4
      <3>2. PICK u \in DOMAIN task : Write(u) /\ fw' # fw
        BY <3>1 DEF Next, PlugIn, Unplug, Change, ListChanges, DrawReads,
           DrawWrites, DrawStage, start_firmware_update, run_firmware_update,
           Begin, Proceeds, Fails, FlashFails, Detach, WaitForDfu,
           DetermineSlot, Download, OpenForFlash, LateProgress, Reboot, Verify,
           Clear, bus
      <3>3. FlashEnds(u, "reboot", "Rebooting")
        BY <3>2 DEF Write, FlashFails, bus
      <3>4. u \in Running  BY <3>2 DEF Write, Running
      <3>5. /\ \A v \in DOMAIN task : v # u => task'[v] = task[v]
            /\ task'[u].uuid = task[u].uuid
            /\ task'[u].undisturbed = task[u].undisturbed
        BY <3>2, <3>3, FlashEndsKeeps
      <3>6. u = t /\ task[t].undisturbed /\ d = task[t].uuid
        BY <2>1, <3>4, <3>5 DEF Calm
      <3>7. task[t].pc = "write"  BY <3>2, <3>6 DEF Write
      <3>8. task[t].target = d /\ task[t].slot = bank[d]
        BY <2>1, <3>6, <3>7 DEF Calm, Settled
      <3>9. Sound(task[t]) /\ TypeOK  BY <2>1, RunningIsSound DEF Inv
      <3>10. d \in Devices /\ task[t].entry # Bad
        <4>1. d \in Devices  BY <3>6, <3>9, UpdateParameters DEF Sound, Task
        <4>2. task[t].entry \in Version \cup {Unreadable, Nothing}
          BY <3>9 DEF Sound, Task
        <4>3. QED  BY <4>1, <4>2, UpdateParameters
      <3>11. fw' = [fw EXCEPT ![d] = task[t].entry]
        BY <3>2, <3>6, <3>8 DEF Write, FlashFails, bus
      <3>12. fw'[d] = task[t].entry  BY <3>9, <3>10, <3>11 DEF TypeOK
      <3>13. QED  BY <2>4, <3>10, <3>12
    <2>5. QED  BY <2>3, <2>4
  <1>2. Works <=> (\A t \in Running :
          LET d == task'[t].uuid
          IN task'[t].undisturbed =>
               /\ fw'[d] = Bad => fw[d] = Bad
               /\ states'[d] \in {"Rebooting", "Verifying", "Complete"}
                    => fw'[d] = task'[t].entry /\ port'[d] = "app")
    BY DEF Works
  <1> HIDE DEF Works
  <1>3. QED  BY <1>1, <1>2, CalmHolds, PTL DEF Spec, UndisturbedUpdateWorks

=============================================================================
