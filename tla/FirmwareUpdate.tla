--------------------------- MODULE FirmwareUpdate ---------------------------
(***************************************************************************)
(* Firmware updates of the desktop app: the rows that offer them, one task *)
(* per click, and the devices on the bus, all with the same vendor and     *)
(* product id (odyssey_desktop/src/components/firmware_update.rs and       *)
(* odyssey_hub_server/src/firmware.rs).                                    *)
(*                                                                         *)
(* A device has two banks and runs from one; its bootloader exposes the    *)
(* other.  Which device find_device returns is the operating system's      *)
(* choice.  The rows and the tasks share only the FirmwareUpdateManager.   *)
(***************************************************************************)
EXTENDS FirmwareVersions, FiniteSets

CONSTANTS
  Devices,     \* the devices of one product id
  Rows,        \* bound: those the app lists; the others are only on the bus
  Installed,   \* versions they may run at first
  Bad,         \* an image in the bank it was not built for: it does not boot
  MaxUpdates,  \* bound: clicks
  MaxChanges   \* bound: plugs and unplugs

ASSUME UpdateParameters ==
  /\ Rows \subseteq Devices
  /\ Installed \subseteq Version \ {NoVersion}
  /\ Bad \notin Version \cup {Unreadable, Nothing}
  /\ Nothing \notin Devices
  /\ MaxUpdates \in Nat
  /\ MaxChanges \in Nat

VARIABLES
  port,      \* application, bootloader ("dfu") or not plugged in
  bank,      \* the bank a device does not run from
  fw,        \* what it runs
  changes,   \* plugs and unplugs so far
  listed,    \* the app's device list
  drawing,   \* a row's next_state, computed and not yet set
  button,    \* whether the row shows the Update button
  states,    \* FirmwareUpdateManager.states; no entry is Idle
  updating,  \* FirmwareUpdateManager.updating
  task       \* the updates started so far

bus  == <<port, bank, fw>>
rows == <<listed, drawing, button>>
vars == <<bus, changes, rows, states, updating, task>>

Offers == {"Idle", "NeedsUsbConnection", "Available"}
Stages == {"Detaching", "WaitingForDfu", "Downloading", "Flashing",
           "Rebooting", "Verifying"}
Banks  == {"APP_A", "APP_B"}

\* entry: what it installs; slot: the bank its image is for; target: the device
\* it holds open, lost when that one is unplugged; late: its progress updater,
\* woken before the abort, has still to write; undisturbed: since it began it
\* has been the only update, its device the only one, and nobody touched a plug.
Task == [pc : {"begin", "detach", "wait", "slot", "download", "open", "write",
               "reboot", "verify", "linger", "done"},
         uuid : Rows, entry : Version \cup {Unreadable, Nothing},
         slot : Banks \cup {Nothing},
         target : Devices \cup {Nothing}, late : BOOLEAN,
         undisturbed : BOOLEAN]

Plugged == {d \in Devices : port[d] # "away"}

Init ==
  /\ port \in [Devices -> {"app", "dfu", "away"}]
  /\ bank = [d \in Devices |-> "APP_B"]
  /\ fw \in [Devices -> Installed]
  /\ changes = 0
  /\ listed = [d \in Rows |-> Nothing]
  /\ drawing = [d \in Rows |-> Nothing]
  /\ button = [d \in Rows |-> FALSE]
  /\ states = [d \in Rows |-> "Idle"]
  /\ updating = {}
  /\ task = << >>

(***************************************************************************)
(* The bus and the list the hub sends.                                     *)
(***************************************************************************)
Boots(d) == IF fw[d] = Bad THEN "dfu" ELSE "app"

Disturb(tasks) ==
  [t \in DOMAIN tasks |-> [tasks[t] EXCEPT !.undisturbed = FALSE]]

Change ==
  /\ changes < MaxChanges
  /\ changes' = changes + 1
  /\ UNCHANGED <<bank, fw, rows, states, updating>>

PlugIn(d) ==
  /\ Change
  /\ port[d] = "away"
  /\ port' = [port EXCEPT ![d] = Boots(d)]
  /\ task' = Disturb(task)

\* A task that holds the device open is left with a dead handle.
Unplug(d) ==
  /\ Change
  /\ port[d] # "away"
  /\ port' = [port EXCEPT ![d] = "away"]
  /\ task' = [t \in DOMAIN task |->
                IF task[t].target = d
                THEN [Disturb(task)[t] EXCEPT !.target = Nothing]
                ELSE Disturb(task)[t]]

\* The version that was read, if it was.  An image whose entry has no readable
\* version still reports one (bound: one of Installed).
Reported(d) ==
  {NoVersion} \cup IF fw[d] = Unreadable THEN Installed ELSE {fw[d]}

\* The list entry of a device: with USB control (which lacks the DFU
\* capability when control was merged into a BLE handler), surfaced from its
\* bootloader, or reached over BLE.
Shown(d) ==
  CASE port[d] = "app" ->
         [version : Reported(d), control : {TRUE}, dfu : BOOLEAN]
    [] port[d] = "dfu" ->
         {[version |-> NoVersion, control |-> FALSE, dfu |-> TRUE]}
    [] port[d] = "away" /\ fw[d] = Bad -> {Nothing}
    [] OTHER ->
         [version : Reported(d), control : {FALSE}, dfu : {FALSE}] \cup {Nothing}

ListChanges(d) ==
  /\ drawing[d] = Nothing
  /\ \E e \in Shown(d) \ {listed[d]} : listed' = [listed EXCEPT ![d] = e]
  /\ UNCHANGED <<bus, changes, drawing, button, states, updating, task>>

(***************************************************************************)
(* A row draws itself.  It reads the state and sets the next one in two    *)
(* steps: the tasks run on other threads, but clicks and new lists wait.   *)
(***************************************************************************)
MayDraw(state) == state \in Offers

DrawReads(d) ==
  /\ listed[d] # Nothing
  /\ drawing[d] = Nothing
  /\ MayDraw(states[d])
  /\ drawing' = [drawing EXCEPT ![d] = Offer(listed[d])]
  /\ button' = [button EXCEPT ![d] = states[d] = "Available"]
  /\ UNCHANGED <<bus, changes, listed, states, updating, task>>

DrawWrites(d) ==
  /\ drawing[d] # Nothing
  /\ states' = [states EXCEPT ![d] = drawing[d]]
  /\ drawing' = [drawing EXCEPT ![d] = Nothing]
  /\ UNCHANGED <<bus, changes, listed, button, updating, task>>

\* A row in a stage of an update shows it and has no button, and a device
\* that left the list has no row of its own.
DrawStage(d) ==
  /\ button[d]
  /\ listed[d] = Nothing \/ ~MayDraw(states[d])
  /\ button' = [button EXCEPT ![d] = FALSE]
  /\ UNCHANGED <<bus, changes, listed, drawing, states, updating, task>>

(***************************************************************************)
(* An update.                                                              *)
(***************************************************************************)
Running == {t \in DOMAIN task : task[t].pc # "done"}

start_firmware_update(d) ==
  /\ Len(task) < MaxUpdates
  /\ button[d] /\ drawing[d] = Nothing
  /\ listed[d] # Nothing
  /\ updating' = updating \cup {d}
  /\ task' = Append(IF Running = {} THEN task ELSE Disturb(task),
                    [pc |-> "begin", uuid |-> d,
                     entry |-> Chosen(listed[d]),
                     slot |-> Nothing, target |-> Nothing, late |-> FALSE,
                     undisturbed |-> Running = {} /\ Plugged = {d}])
  /\ UNCHANGED <<bus, changes, rows, states>>

\* The device with that serial number, or else any of the product id.
find_device_by_uuid(d) == IF d \in Plugged THEN {d} ELSE Plugged

Held == {task[t].target : t \in DOMAIN task}

Enter(t, pc, state) ==
  /\ task' = [task EXCEPT ![t].pc = pc]
  /\ states' = [states EXCEPT ![task[t].uuid] = state]

\* Err(..): the message is shown.
Fails(t) ==
  /\ Enter(t, "linger", "Failed")
  /\ UNCHANGED bus

\* A device that is already in its bootloader is not detached.
Proceeds(t) ==
  LET found == find_device_by_uuid(task[t].uuid)
  IN /\ \/ /\ \E d \in found : port[d] = "dfu"
           /\ task' = [task EXCEPT ![t].pc = "slot"]
           /\ UNCHANGED states
        \/ /\ found = {} \/ \E d \in found : port[d] = "app"
           /\ Enter(t, "detach", "Detaching")
     /\ UNCHANGED bus

\* Mutant: goes on without an entry.
BeginUnchecked(t) == task[t].pc = "begin" /\ Proceeds(t)

Begin(t) ==
  /\ task[t].pc = "begin"
  /\ IF task[t].entry = Nothing THEN Fails(t) ELSE Proceeds(t)

\* Detach and reset: an application enters the bootloader, a bootloader that
\* another update woke first may leave it.
Detach(t) ==
  /\ task[t].pc = "detach"
  /\ \/ /\ \E d \in find_device_by_uuid(task[t].uuid) \ Held :
             \E after \in IF port[d] = "app" THEN {"dfu"} ELSE {"dfu", Boots(d)} :
               port' = [port EXCEPT ![d] = after]
        /\ Enter(t, "wait", "WaitingForDfu")
        /\ UNCHANGED <<bank, fw>>
     \/ Fails(t)

\* A bus reset and a download take longer than the 100 ms between two drawings
\* of a row.
Drawn(d) == drawing[d] = Nothing /\ (button[d] => MayDraw(states[d]))

\* Mutant: a wait without its timeout.
WaitUntilDfu(t) ==
  /\ task[t].pc = "wait"
  /\ Drawn(task[t].uuid)
  /\ \E d \in Plugged : port[d] = "dfu"
  /\ task' = [task EXCEPT ![t].pc = "slot"]
  /\ UNCHANGED <<bus, states>>

\* Any device of the product id in its bootloader ends the wait; so do 10 s.
WaitForDfu(t) ==
  /\ task[t].pc = "wait"
  /\ Drawn(task[t].uuid)
  /\ \/ /\ \E d \in Plugged : port[d] = "dfu"
        /\ task' = [task EXCEPT ![t].pc = "slot"]
        /\ UNCHANGED <<bus, states>>
     \/ Fails(t)

OtherBank(b) == CHOOSE c \in Banks : c # b

\* Mutant: the image for the bank the device runs from.
ActiveSlot(d) == OtherBank(bank[d])

\* The image for the bank that the bootloader exposes.
TargetSlot(d) == bank[d]

DetermineSlot(t) ==
  /\ task[t].pc = "slot"
  /\ \/ /\ \E d \in Plugged :
             /\ port[d] = "dfu"
             /\ task' = [task EXCEPT ![t] =
                           [@ EXCEPT !.pc = "download", !.slot = TargetSlot(d)]]
        /\ states' = [states EXCEPT ![task[t].uuid] = "Downloading"]
        /\ UNCHANGED bus
     \/ Fails(t)

Download(t) ==
  /\ task[t].pc = "download"
  /\ Drawn(task[t].uuid)
  /\ \/ Enter(t, "open", "Flashing") /\ UNCHANGED bus
     \/ Fails(t)

\* The flash ends.  abort() does not reach a progress updater that has just
\* woken; it sets Flashing once more.
FlashEnds(t, pc, state) ==
  \E late \in BOOLEAN :
    /\ task' = [task EXCEPT ![t] =
                  [@ EXCEPT !.pc = pc, !.target = Nothing, !.slot = Nothing,
                            !.late = late]]
    /\ states' = [states EXCEPT ![task[t].uuid] = state]

FlashFails(t) == FlashEnds(t, "linger", "Failed") /\ UNCHANGED bus

OpenForFlash(t) ==
  /\ task[t].pc = "open"
  /\ \/ /\ \E d \in Plugged \ Held :
             /\ port[d] = "dfu"
             /\ task' = [task EXCEPT ![t] =
                           [@ EXCEPT !.pc = "write", !.target = d]]
        /\ UNCHANGED <<bus, states>>
     \/ FlashFails(t)

\* The device boots what was written; what does not boot leaves it in its
\* bootloader.  On a dead handle a transfer that is cancelled after its last
\* byte was read counts as done.
Write(t) ==
  LET d == task[t].target
      fits == task[t].slot = bank[d]
  IN /\ task[t].pc = "write"
     /\ \/ /\ d # Nothing
           /\ fw' = [fw EXCEPT ![d] = IF fits THEN task[t].entry ELSE Bad]
           /\ bank' = [bank EXCEPT ![d] = IF fits THEN OtherBank(@) ELSE @]
           /\ port' = [port EXCEPT ![d] = IF fits THEN "app" ELSE "dfu"]
           /\ FlashEnds(t, "reboot", "Rebooting")
        \/ d = Nothing /\ FlashEnds(t, "reboot", "Rebooting") /\ UNCHANGED bus
        \/ FlashFails(t)

LateProgress(t) ==
  /\ task[t].late
  /\ task' = [task EXCEPT ![t].late = FALSE]
  /\ states' = [states EXCEPT ![task[t].uuid] = "Flashing"]
  /\ UNCHANGED bus

Reboot(t) ==
  /\ task[t].pc = "reboot"
  /\ Enter(t, "verify", "Verifying")
  /\ UNCHANGED bus

\* The device is back in its application, or 15 s are over: complete in both.
Verify(t) ==
  /\ task[t].pc = "verify"
  /\ Enter(t, "linger", "Complete")
  /\ UNCHANGED bus

Over(record) ==
  [record EXCEPT !.pc = "done", !.entry = Nothing, !.slot = Nothing,
                 !.undisturbed = FALSE]

\* Mutant: the state stays.
ClearUpdating(d) == updating' = updating \ {d} /\ UNCHANGED states

clear_state(d) ==
  /\ updating' = updating \ {d}
  /\ states' = [states EXCEPT ![d] = "Idle"]

\* 5 s after the end; a woken updater has written by then.
Clear(t) ==
  /\ task[t].pc = "linger"
  /\ ~task[t].late
  /\ clear_state(task[t].uuid)
  /\ task' = [task EXCEPT ![t] = Over(@)]
  /\ UNCHANGED <<bus, changes, rows>>

run_firmware_update(t) ==
  /\ \/ Begin(t) \/ Detach(t) \/ WaitForDfu(t) \/ DetermineSlot(t)
     \/ Download(t) \/ OpenForFlash(t) \/ Write(t) \/ LateProgress(t)
     \/ Reboot(t) \/ Verify(t)
  /\ UNCHANGED <<changes, rows, updating>>

Next ==
  \/ \E d \in Devices : PlugIn(d) \/ Unplug(d)
  \/ \E d \in Rows : \/ ListChanges(d)
                     \/ DrawReads(d) \/ DrawWrites(d) \/ DrawStage(d)
                     \/ start_firmware_update(d)
  \/ \E t \in DOMAIN task : run_firmware_update(t) \/ Clear(t)

Spec == Init /\ [][Next]_vars

\* Awaits without a timeout: the answer to the detach, the download and the
\* transfer (437, 470-477, 523-531).  Nothing says that they end.
Untimed == {"detach", "download", "write"}

GoesOn(t) ==
  /\ t \in DOMAIN task
  /\ task[t].pc \notin Untimed
  /\ run_firmware_update(t) \/ Clear(t)

\* A row is drawn every 100 ms, and every other wait of a task is over in time:
\* with strong fairness, as Drawn only puts a drawing before the end of a wait
\* and drawings recur.
FairSpec ==
  /\ Spec
  /\ \A d \in Rows : WF_vars(DrawWrites(d) \/ DrawStage(d))
  /\ \A t \in 1 .. MaxUpdates : SF_vars(GoesOn(t))

(***************************************************************************)
(* Properties                                                              *)
(***************************************************************************)
TypeOK ==
  /\ port \in [Devices -> {"app", "dfu", "away"}]
  /\ bank \in [Devices -> Banks]
  /\ fw \in [Devices -> Version \cup {Unreadable, Bad}]
  /\ changes \in 0 .. MaxChanges
  /\ listed \in [Rows -> Listing \cup {Nothing}]
  /\ drawing \in [Rows -> Offers \cup {Nothing}]
  /\ button \in [Rows -> BOOLEAN]
  /\ states \in [Rows -> Offers \cup Stages \cup {"Complete", "Failed"}]
  /\ updating \subseteq Rows
  /\ task \in Seq(Task) /\ Len(task) <= MaxUpdates

\* An update that nothing disturbs never makes its device one that does not
\* boot, whether it succeeds or fails, and if it reports success the device runs
\* its entry, whatever bank was free, whether the device had to be detached
\* first and whatever was done to it before.  The bank, the image and the device
\* are looked up apart, by product id (firmware.rs:395-416, 426, 602).
UndisturbedUpdateWorks ==
  [][\A t \in Running :
       LET d == task'[t].uuid
       IN task'[t].undisturbed =>
            /\ fw'[d] = Bad => fw[d] = Bad
            /\ states'[d] \in {"Rebooting", "Verifying", "Complete"}
                 => fw'[d] = task'[t].entry /\ port'[d] = "app"]_vars

\* A row is in a stage of an update only while an update of its device runs:
\* the row only offers an update again from Idle (firmware_update.rs:160-166),
\* so a stage left behind would lock it until the app restarts.
StageHasUpdate ==
  \A d \in Rows :
    states[d] \in Stages \cup {"Complete", "Failed"}
      => \E t \in Running : task[t].uuid = d

Stalled(t, d) ==
  t \in Running /\ task[t].uuid = d /\ task[t].pc \in Untimed

\* The only thing that keeps a row from being released is a detach, a download
\* or a transfer that never answers: whatever else fails, whoever else updates
\* and wherever the device goes, the update ends (firmware_update.rs:387-394,
\* 437-439, 556-565).
EveryUpdateEnds ==
  \A d \in Rows :
    \/ []<>(d \notin updating)
    \/ \E t \in 1 .. MaxUpdates : <>[]Stalled(t, d)

\* An undisturbed update that reports success has installed the version its
\* button offered: "show latest firmware only if it is actually newer,
\* allowing cross-major/minor updates" (firmware_update.rs:185-186).
OfferIsInstalled ==
  \A t \in Running :
    /\ task[t].undisturbed
    /\ states[task[t].uuid] = "Complete"
    => fw[task[t].uuid] = find_latest_firmware
=============================================================================
