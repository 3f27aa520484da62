---------------------------- MODULE Accessories ----------------------------
(***************************************************************************)
(* The accessories, shot sensors on BLE: the Accessories page of the app   *)
(* that edits their list (odyssey_desktop/src/views/accessories.rs), the   *)
(* calls of the hub that keep it (odyssey_hub_server/src/server.rs         *)
(* 305-380), and the manager that connects them and turns their            *)
(* notifications into impacts (odyssey_hub_server/src/accessories.rs).     *)
(*                                                                         *)
(* A list is a function from the accessories in it to the device each is   *)
(* assigned to.                                                            *)
(***************************************************************************)
EXTENDS Integers, Sequences, FiniteSets, Functions

CONSTANTS
  Ids,         \* accessories, by address
  Owners,      \* what one may be assigned to; Unassigned is one of them
  Unassigned,
  BadFile,     \* a file that does not parse
  MapCap,      \* maps a subscriber may be behind (12 + 16)
  EditLoads    \* bound: [of : the edits the user may make, edits, faults, losses,
               \* restarts : how often one is made, a call or a step of a
               \* connection fails, a connection is lost, the hub starts
               \* again; overlap : how many edits a new one may overlap]

Infos == UNION {[S -> Owners] : S \in SUBSET Ids}

EditOps == [op : {"add", "remove", "assign"}, id : Ids, owner : Owners]

EditBudgets == [of : SUBSET EditOps, edits : Nat, faults : Nat, losses : Nat,
                restarts : Nat, overlap : Nat]

ASSUME AccessoryParameters ==
  /\ Unassigned \in Owners
  /\ BadFile \notin Infos
  /\ MapCap \in Nat \ {0}
  /\ EditLoads \subseteq EditBudgets

VARIABLES
  saved,      \* accessory_map.json
  info,       \* the watch channel of the list, accessory_info_sender
  merged,     \* accessory_map
  manager,    \* on, news: info has a value it has not seen, known: info_map
  conn,       \* the connected accessories
  heard,      \* how many tasks forward the notifications of each
  lost,       \* ghost: how often the connection of each was lost
  page,       \* info_map of the page, and its subscription
  feedback,   \* the lists the subscription has not delivered
  edits,      \* the edits in progress
  acked,      \* ghost: {the list last acknowledged}, {} if edits overlapped
  budget      \* what is left of the load

accVars == <<saved, info, merged, manager, conn, heard, lost, page, feedback, edits,
             acked, budget>>

NoList == << >>

\* accessory_map_async
ReadList(f) == IF f = BadFile THEN NoList ELSE f

Pay(what) == budget[what] > 0 /\ budget' = [budget EXCEPT ![what] = @ - 1]

NewManager(list) == [on |-> FALSE, news |-> TRUE, known |-> list]

AccInit ==
  /\ saved = NoList
  /\ info = ReadList(saved)
  /\ merged = info
  /\ manager = NewManager(info)
  /\ conn = {}
  /\ heard = [id \in Ids |-> 0]
  /\ lost = heard
  /\ page = [list |-> NoList, sub |-> "no"]
  /\ feedback = << >>
  /\ edits = << >>
  /\ acked = {}
  /\ budget \in EditLoads

(***************************************************************************)
(* The broadcast of maps; the connected flags are left out.  A subscriber  *)
(* too far behind is dropped.                                              *)
(***************************************************************************)
send_if_changed(list) ==
  IF page.sub = "yes" /\ Len(feedback) < MapCap
  THEN feedback' = Append(feedback, list) /\ UNCHANGED page
  ELSE /\ feedback' = << >>
       /\ page' = IF page.sub = "yes" THEN [page EXCEPT !.sub = "lost"] ELSE page

Quiet == UNCHANGED <<page, feedback>>

(***************************************************************************)
(* The page.                                                               *)
(***************************************************************************)
\* get_accessory_map, and the snapshot subscribe_accessory_map starts with.
Seed ==
  /\ page.sub = "no"
  /\ page' = [list |-> merged, sub |-> "seeded"]
  /\ UNCHANGED <<saved, info, merged, manager, conn, heard, lost, feedback, edits,
                 acked, budget>>

\* The snapshot was taken before: a map sent in between does not come.
Subscribes ==
  /\ page.sub = "seeded"
  /\ page' = [page EXCEPT !.sub = "yes"]
  /\ UNCHANGED <<saved, info, merged, manager, conn, heard, lost, feedback, edits,
                 acked, budget>>

Delivers ==
  /\ page.sub = "yes" /\ feedback # << >>
  /\ page' = [page EXCEPT !.list = Head(feedback)]
  /\ feedback' = Tail(feedback)
  /\ UNCHANGED <<saved, info, merged, manager, conn, heard, lost, edits, acked, budget>>

\* What the page sends for an edit of the list it shows.
Edited(e) ==
  CASE e.op = "add"    -> [id \in DOMAIN page.list \cup {e.id} |->
                             IF id = e.id THEN Unassigned ELSE page.list[id]]
    [] e.op = "remove" -> Restrict(page.list, DOMAIN page.list \ {e.id})
    [] e.op = "assign" -> [id \in DOMAIN page.list |->
                             IF id = e.id THEN e.owner ELSE page.list[id]]

\* Add is offered for what is not in the list, the others for what is.
Submit(e) ==
  /\ page.sub # "no"
  /\ Len(edits) <= budget.overlap
  /\ (e.op = "add") # (e.id \in DOMAIN page.list)
  /\ Pay("edits")
  /\ edits' = Append([i \in DOMAIN edits |-> [edits[i] EXCEPT !.alone = FALSE]],
                     [next |-> Edited(e), fresh |-> NoList, at |-> "truncate",
                      alone |-> edits = << >>])
  /\ acked' = {}
  /\ UNCHANGED <<saved, info, merged, manager, conn, heard, lost, page, feedback>>

(***************************************************************************)
(* update_accessory_info_map.                                              *)
(***************************************************************************)
Reaches(i, at) == edits' = [edits EXCEPT ![i].at = at]

Truncates(i) ==
  /\ edits[i].at = "truncate"
  /\ saved' = BadFile
  /\ Reaches(i, "write")
  /\ Quiet
  /\ UNCHANGED <<info, merged, manager, conn, heard, lost, acked, budget>>

\* A save over what another wrote since the truncation may leave the end of
\* that.  One that fails ends the call; the page ignores the error.
Saves == {"written", "mixed", "error"}

SavesList(i, outcome) ==
  /\ edits[i].at = "write"
  /\ CASE outcome = "written" -> saved' = edits[i].next
       [] outcome = "mixed"   -> saved # BadFile /\ saved' = BadFile
       [] outcome = "error"   -> UNCHANGED saved
  /\ IF outcome = "error" THEN Reaches(i, "failed") /\ Pay("faults")
                          ELSE Reaches(i, "reload") /\ UNCHANGED budget
  /\ Quiet
  /\ UNCHANGED <<info, merged, manager, conn, heard, lost, acked>>

\* Mutant: what is read back counts as empty.
ReloadsDefault(i) ==
  /\ edits[i].at = "reload"
  /\ edits' = [edits EXCEPT ![i].at = "send"]
  /\ Quiet
  /\ UNCHANGED <<saved, info, merged, manager, conn, heard, lost, acked, budget>>

Reloads(i) ==
  /\ edits[i].at = "reload"
  /\ edits' = [edits EXCEPT ![i].at = "send",
                 ![i].fresh = IF saved = BadFile THEN edits[i].next ELSE saved]
  /\ Quiet
  /\ UNCHANGED <<saved, info, merged, manager, conn, heard, lost, acked, budget>>

\* The channel always has a receiver: device_tasks keeps one (lib.rs 305, 323).
Sends(i) ==
  /\ edits[i].at = "send"
  /\ info' = edits[i].fresh
  /\ manager' = [manager EXCEPT !.news = TRUE]
  /\ Reaches(i, "merge")
  /\ Quiet
  /\ UNCHANGED <<saved, merged, conn, heard, lost, acked, budget>>

\* What is not in the list stays in accessory_map.
Merges(i) ==
  /\ edits[i].at = "merge"
  /\ merged' = [id \in DOMAIN edits[i].fresh \cup DOMAIN merged |->
                  IF id \in DOMAIN edits[i].fresh THEN edits[i].fresh[id] ELSE merged[id]]
  /\ Reaches(i, "broadcast")
  /\ Quiet
  /\ UNCHANGED <<saved, info, manager, conn, heard, lost, acked, budget>>

Broadcasts(i) ==
  /\ edits[i].at = "broadcast"
  /\ send_if_changed(merged)
  /\ Reaches(i, "reply")
  /\ UNCHANGED <<saved, info, merged, manager, conn, heard, lost, acked, budget>>

\* The page takes the list it sent for the list, whatever came meanwhile.
Replies(i) ==
  /\ edits[i].at \in {"reply", "failed"}
  /\ page' = [page EXCEPT !.list = edits[i].next]
  /\ acked' = IF edits[i].at = "reply" /\ edits[i].alone THEN {edits[i].next} ELSE acked
  /\ edits' = [j \in 1 .. Len(edits) - 1 |-> edits[IF j < i THEN j ELSE j + 1]]
  /\ UNCHANGED <<saved, info, merged, manager, conn, heard, lost, feedback, budget>>

EditStep(i) ==
  \/ Truncates(i) \/ Reloads(i) \/ Sends(i) \/ Merges(i) \/ Broadcasts(i)
  \/ Replies(i)
  \/ \E outcome \in Saves : SavesList(i, outcome)

(***************************************************************************)
(* accessory_manager.                                                      *)
(***************************************************************************)
ManagerStarts ==
  /\ ~manager.on
  /\ manager' = [on |-> TRUE, news |-> TRUE, known |-> info]
  /\ send_if_changed(info)
  /\ UNCHANGED <<saved, info, merged, conn, heard, lost, edits, acked, budget>>

\* Mutant: the list the manager started with is kept.
InfoChangedOnce ==
  /\ manager.on /\ manager.news
  /\ manager' = [manager EXCEPT !.news = FALSE]
  /\ send_if_changed(manager.known)
  /\ UNCHANGED <<saved, info, merged, conn, heard, lost, edits, acked, budget>>

InfoChanged ==
  /\ manager.on /\ manager.news
  /\ manager' = [manager EXCEPT !.news = FALSE, !.known = info]
  /\ send_if_changed(info)
  /\ UNCHANGED <<saved, info, merged, conn, heard, lost, edits, acked, budget>>

\* What a scan does about an accessory of the list: connect it if it is in sight
\* and not connected, discover, subscribe, and start a task that forwards its
\* notifications, beside those of its earlier connections.  deaf: it is connected
\* and a later step failed.
Outcomes == {"none", "deaf", "heard"}

\* Mutant: what is connected is subscribed to again.
ConnectsAgain(outcome) == {id \in DOMAIN manager.known : outcome[id] # "none"}

Connects(outcome) == {id \in DOMAIN manager.known \ conn : outcome[id] # "none"}

ScanComplete(outcome) ==
  /\ manager.on
  /\ IF \A id \in DOMAIN outcome : outcome[id] = "heard" THEN UNCHANGED budget
     ELSE Pay("faults")
  /\ conn' = conn \cup Connects(outcome)
  /\ heard' = [id \in Ids |->
                 IF id \in Connects(outcome) /\ outcome[id] = "heard"
                 THEN heard[id] + 1 ELSE heard[id]]
  /\ send_if_changed(manager.known)
  /\ UNCHANGED <<lost, saved, info, merged, manager, edits, acked>>

\* The connection is lost.  A notification stream of btleplug outlives it, and
\* with it the task that reads it.
LinkLost(id) ==
  /\ id \in conn /\ Pay("losses")
  /\ conn' = conn \ {id}
  /\ lost' = [lost EXCEPT ![id] = @ + 1]
  /\ UNCHANGED <<heard, saved, info, merged, manager, page, feedback, edits, acked>>

\* The hub starts again.  The system may have kept the connections; the page
\* is not subscribed again.
HubRestart(still) ==
  /\ still \subseteq conn /\ Pay("restarts")
  /\ info' = ReadList(saved)
  /\ merged' = info'
  /\ manager' = NewManager(info')
  /\ conn' = still
  /\ heard' = [id \in Ids |-> 0]
  /\ lost' = heard'
  /\ page' = [page EXCEPT !.sub = IF @ = "no" THEN @ ELSE "lost"]
  /\ feedback' = << >>
  /\ edits' = [i \in DOMAIN edits |-> [edits[i] EXCEPT !.at = "failed"]]
  /\ UNCHANGED <<saved, acked>>

Scan == \E outcome \in [DOMAIN manager.known -> Outcomes] : ScanComplete(outcome)

AccNext ==
  \/ Seed \/ Subscribes \/ Delivers
  \/ \E e \in budget.of : Submit(e)
  \/ \E i \in DOMAIN edits : EditStep(i)
  \/ ManagerStarts \/ InfoChanged \/ Scan
  \/ \E id \in Ids : LinkLost(id)
  \/ \E still \in SUBSET conn : HubRestart(still)

AccSpec == AccInit /\ [][AccNext]_accVars

\* Calls return, the page reads its stream, the manager goes on; its scans come
\* every five seconds, and the page keeps up with them.
AccFairness ==
  /\ WF_accVars(Delivers)
  /\ WF_accVars(\E i \in DOMAIN edits : EditStep(i))
  /\ WF_accVars(InfoChanged) /\ WF_accVars(Scan)

AccFairSpec == AccSpec /\ AccFairness

(***************************************************************************)
(* Properties.                                                             *)
(***************************************************************************)

\* An edit whose call has returned and that overlapped no other (the page starts
\* a task per edit, accessories.rs 170-181) is what the hub uses for shots and
\* what a restart finds, until the next edit.
AckedEditIsInForce == acked # {} => acked = {saved} /\ acked = {info}

\* At most one task forwards the notifications of an accessory per connection
\* it has had (accessories.rs 126-227): what the user does to the list, removing
\* and adding an accessory again included, and failing scans never make a shot
\* count twice.  A lost connection does: its task goes on beside the next one's.
OneListenerPerConnection == \A id \in Ids : heard[id] <= 1 + lost[id]

\* While the manager runs, a page with a subscription comes to show the list
\* the hub uses, whatever it set itself (accessories.rs 176-180) and whatever the
\* merged map told it (server.rs 366-376).
PageSettles ==
  <>[](page.sub = "yes" /\ manager.on => page.list = info)
=============================================================================
