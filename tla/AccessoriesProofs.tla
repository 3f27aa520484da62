-------------------------- MODULE AccessoriesProofs --------------------------
(***************************************************************************)
(* Proofs about Accessories, for any accessories, devices and edits, any   *)
(* number of edits, failures, lost connections and restarts.               *)
(***************************************************************************)
EXTENDS Accessories, SequenceTheorems, TLAPS

(***************************************************************************)
(* One listener per connection.                                            *)
(***************************************************************************)

\* Whoever listens was started for a connection: one that was lost, or the one
\* there is.
Listened ==
  /\ heard \in [Ids -> Nat] /\ lost \in [Ids -> Nat]
  /\ \A id \in Ids : heard[id] <= lost[id] + IF id \in conn THEN 1 ELSE 0

\* A scan subscribes to what was not connected, so nobody listens to this
\* connection yet.
LEMMA ScanListens ==
  ASSUME Listened, NEW outcome, ScanComplete(outcome)
  PROVE  Listened'
  <1>1. heard' \in [Ids -> Nat] /\ lost' = lost
    BY DEF Listened, ScanComplete
  <1>2. ASSUME NEW id \in Ids
        PROVE  heard'[id] <= lost[id] + IF id \in conn' THEN 1 ELSE 0
    <2>1. heard[id] \in Nat /\ lost[id] \in Nat  BY DEF Listened
    <2>2. CASE id \in Connects(outcome) /\ outcome[id] = "heard"
      <3>1. id \notin conn /\ id \in conn'  BY <2>2 DEF Connects, ScanComplete
      <3>2. heard'[id] = heard[id] + 1  BY <2>2 DEF ScanComplete
      <3>3. heard[id] <= lost[id] + 0  BY <3>1 DEF Listened
      <3>4. QED  BY <2>1, <3>1, <3>2, <3>3
    <2>3. CASE ~(id \in Connects(outcome) /\ outcome[id] = "heard")
      <3>1. heard'[id] = heard[id]  BY <2>3 DEF ScanComplete
      <3>2. id \in conn => id \in conn'  BY DEF ScanComplete
      <3>3. QED  BY <2>1, <3>1, <3>2 DEF Listened
    <2>4. QED  BY <2>2, <2>3
  <1>3. QED  BY <1>1, <1>2 DEF Listened

\* The task of a lost connection stays, and the loss is counted.
LEMMA LossListens ==
  ASSUME Listened, NEW id \in Ids, LinkLost(id)
  PROVE  Listened'
  <1>1. /\ heard' = heard /\ conn' = conn \ {id} /\ id \in conn
        /\ lost' = [lost EXCEPT ![id] = lost[id] + 1]
    BY DEF LinkLost
  <1>2. lost' \in [Ids -> Nat]  BY <1>1 DEF Listened
  <1>3. ASSUME NEW j \in Ids
        PROVE  heard[j] <= lost'[j] + IF j \in conn' THEN 1 ELSE 0
    <2>1. heard[j] \in Nat /\ lost[j] \in Nat  BY DEF Listened
    <2>2. CASE j = id
      <3>1. lost'[j] = lost[j] + 1  BY <1>1, <2>2 DEF Listened
      <3>2. heard[j] <= lost[j] + 1  BY <1>1, <2>2 DEF Listened
      <3>3. QED  BY <1>1, <2>1, <2>2, <3>1, <3>2
    <2>3. CASE j # id
      <3>1. lost'[j] = lost[j] /\ (j \in conn' <=> j \in conn)
        BY <1>1, <2>3 DEF Listened
      <3>2. QED  BY <2>1, <3>1 DEF Listened
    <2>4. QED  BY <2>2, <2>3
  <1>4. QED  BY <1>1, <1>2, <1>3 DEF Listened

LEMMA NextListens == Listened /\ [AccNext]_accVars => Listened'
  <1> SUFFICES ASSUME Listened, [AccNext]_accVars PROVE Listened'  OBVIOUS
  <1>1. CASE Scan  BY <1>1, ScanListens DEF Scan
  <1>2. ASSUME NEW id \in Ids, LinkLost(id) PROVE Listened'
    BY <1>2, LossListens
  <1>3. ASSUME NEW still \in SUBSET conn, HubRestart(still) PROVE Listened'
    BY <1>3 DEF HubRestart, Listened
  <1>4. CASE UNCHANGED <<heard, lost, conn>>  BY <1>4 DEF Listened
  <1>5. CASE Seed \/ Subscribes \/ Delivers \/ \E e \in budget.of : Submit(e)
    BY <1>4, <1>5 DEF Seed, Subscribes, Delivers, Submit
  <1>6. ASSUME NEW i \in DOMAIN edits, EditStep(i) PROVE Listened'
    BY <1>4, <1>6 DEF EditStep, Truncates, SavesList, Reloads, Sends, Merges,
                      Broadcasts, Replies
  <1>7. CASE ManagerStarts \/ InfoChanged
    BY <1>4, <1>7 DEF ManagerStarts, InfoChanged
  <1>8. CASE UNCHANGED accVars  BY <1>4, <1>8 DEF accVars
  <1>9. QED  BY <1>1, <1>2, <1>3, <1>5, <1>6, <1>7, <1>8 DEF AccNext

\* Nobody listens to an accessory more than once per connection, whatever is
\* removed, added again, failing, lost and connected again
\* (odyssey_hub_server/src/accessories.rs 125-227).
THEOREM ListensOncePerConnection == AccSpec => []OneListenerPerConnection
  <1>1. AccInit => Listened  BY DEF AccInit, Listened
  <1>2. Listened => OneListenerPerConnection
    BY DEF Listened, OneListenerPerConnection
  <1>3. QED  BY <1>1, <1>2, NextListens, PTL DEF AccSpec

(***************************************************************************)
(* An acknowledged edit is in force.                                       *)
(***************************************************************************)
Phases == {"truncate", "write", "reload", "send", "merge", "broadcast", "reply",
           "failed"}

EditTypes == [next : Infos, fresh : Infos, at : Phases, alone : BOOLEAN]

AccTypeOK ==
  /\ saved \in Infos \cup {BadFile}
  /\ {info, merged} \subseteq Infos
  /\ manager \in [on : BOOLEAN, news : BOOLEAN, known : Infos]
  /\ page \in [list : Infos, sub : {"no", "seeded", "yes", "lost"}]
  /\ feedback \in Seq(Infos)
  /\ edits \in Seq(EditTypes)
  /\ budget \in EditBudgets

\* Lists: the empty one, and how the others come about.
LEMMA EmptyList == NoList \in Infos
  <1>1. NoList \in [{} -> Owners]  BY DEF NoList
  <1>2. {} \in SUBSET Ids  OBVIOUS
  <1>3. QED  BY <1>1, <1>2 DEF Infos

LEMMA ListOf ==
  ASSUME NEW S, S \subseteq Ids, NEW f \in [S -> Owners]
  PROVE  f \in Infos
  BY DEF Infos

LEMMA InList ==
  ASSUME NEW f \in Infos
  PROVE  DOMAIN f \subseteq Ids /\ f \in [DOMAIN f -> Owners]
  BY DEF Infos

LEMMA EditedList ==
  ASSUME AccTypeOK, NEW e \in EditOps
  PROVE  Edited(e) \in Infos
  <1> DEFINE list == page.list
  <1>1. list \in Infos  BY DEF AccTypeOK
  <1>2. DOMAIN list \subseteq Ids /\ list \in [DOMAIN list -> Owners]  BY <1>1, InList
  <1>3. e.op \in {"add", "remove", "assign"} /\ e.id \in Ids /\ e.owner \in Owners
    BY DEF EditOps
  <1>4. CASE e.op = "add"
    <2>1. Edited(e) \in [DOMAIN list \cup {e.id} -> Owners]
      BY <1>2, <1>4, AccessoryParameters DEF Edited
    <2>2. QED  BY <1>2, <1>3, <2>1, ListOf
  <1>5. CASE e.op = "remove"
    <2>1. Edited(e) = Restrict(list, DOMAIN list \ {e.id})  BY <1>5 DEF Edited
    <2>2. Edited(e) \in [DOMAIN list \ {e.id} -> Owners]
      BY <1>2, <2>1 DEF Restrict
    <2>3. QED  BY <1>2, <2>2, ListOf
  <1>6. CASE e.op = "assign"
    <2>1. Edited(e) \in [DOMAIN list -> Owners]  BY <1>2, <1>3, <1>6 DEF Edited
    <2>2. QED  BY <1>2, <2>1, ListOf
  <1>7. QED  BY <1>3, <1>4, <1>5, <1>6

LEMMA ReadListType ==
  ASSUME NEW f \in Infos \cup {BadFile}
  PROVE  ReadList(f) \in Infos
  BY EmptyList DEF ReadList

\* A broadcast leaves page and subscription typed.
LEMMA BroadcastType ==
  ASSUME AccTypeOK, NEW list \in Infos, send_if_changed(list)
  PROVE  /\ feedback' \in Seq(Infos)
         /\ page' \in [list : Infos, sub : {"no", "seeded", "yes", "lost"}]
  <1>1. CASE page.sub = "yes" /\ Len(feedback) < MapCap
    BY <1>1, AppendProperties DEF AccTypeOK, send_if_changed
  <1>2. CASE ~(page.sub = "yes" /\ Len(feedback) < MapCap)
    BY <1>2, EmptySeq DEF AccTypeOK, send_if_changed
  <1>3. QED  BY <1>1, <1>2

\* An edit that overlapped no other is the only one, and what it has done so
\* far still holds.
AloneIsDone ==
  \A i \in DOMAIN edits : edits[i].alone =>
    /\ Len(edits) = 1
    /\ edits[i].at = "write" => saved = BadFile
    /\ edits[i].at \in {"reload", "send", "merge", "broadcast", "reply"}
         => saved = edits[i].next
    /\ edits[i].at \in {"send", "merge", "broadcast", "reply"}
         => edits[i].fresh = edits[i].next
    /\ edits[i].at \in {"merge", "broadcast", "reply"} => info = edits[i].next

\* A list is acknowledged only while no edit is under way.
AckedIsLast ==
  /\ acked \subseteq Infos
  /\ acked # {} => edits = << >>

EditInv == AccTypeOK /\ AloneIsDone /\ AckedIsLast /\ AckedEditIsInForce

LEMMA InitEdits == AccInit => EditInv
  <1> SUFFICES ASSUME AccInit PROVE EditInv  OBVIOUS
  <1>1. info \in Infos  BY ReadListType, EmptyList DEF AccInit
  <1>2. edits \in Seq(EditTypes) /\ feedback \in Seq(Infos) /\ DOMAIN edits = {}
    BY EmptySeq DEF AccInit
  <1>3. budget \in EditBudgets  BY AccessoryParameters DEF AccInit
  <1>4. AccTypeOK
    BY <1>1, <1>2, <1>3, EmptyList DEF AccInit, AccTypeOK, NewManager
  <1>5. QED
    BY <1>2, <1>4 DEF AccInit, EditInv, AloneIsDone, AckedIsLast, AckedEditIsInForce

\* What does not touch the edits, the file and the list in force keeps the rest.
LEMMA EditsKept ==
  ASSUME EditInv, AccTypeOK', UNCHANGED <<saved, info, edits, acked>>
  PROVE  EditInv'
  BY DEF EditInv, AloneIsDone, AckedIsLast, AckedEditIsInForce

\* A bound on the model's steps stays what it is.
LEMMA PayType ==
  ASSUME AccTypeOK, NEW what \in {"edits", "faults", "losses", "restarts"}, Pay(what)
  PROVE  budget' \in EditBudgets
  <1>1. budget \in EditBudgets  BY DEF AccTypeOK
  <1>2. budget[what] > 0 /\ budget' = [budget EXCEPT ![what] = budget[what] - 1]
    BY DEF Pay
  <1>3. budget[what] \in Nat  BY <1>1 DEF EditBudgets
  <1>4. budget[what] - 1 \in Nat  BY <1>2, <1>3
  <1>5. QED  BY <1>1, <1>2, <1>4 DEF EditBudgets

\* The user's edits overlap when another is under way.
LEMMA SubmitStep ==
  ASSUME EditInv, NEW e \in budget.of, Submit(e)
  PROVE  EditInv'
  <1> DEFINE others == [i \in DOMAIN edits |-> [edits[i] EXCEPT !.alone = FALSE]]
             new == [next |-> Edited(e), fresh |-> NoList, at |-> "truncate",
                     alone |-> edits = << >>]
             n == Len(edits)
  <1>1. AccTypeOK /\ e \in EditOps  BY DEF EditInv, AccTypeOK, EditBudgets
  <1>2. /\ edits' = Append(others, new) /\ acked' = {}
        /\ UNCHANGED <<saved, info, merged, manager, conn, heard, lost, page, feedback>>
    BY DEF Submit
  <1>3. edits \in Seq(EditTypes) /\ n \in Nat /\ DOMAIN edits = 1 .. n
    BY <1>1, LenProperties DEF AccTypeOK
  <1>4. new \in EditTypes /\ (new.alone => n = 0) /\ new.at = "truncate"
    BY <1>1, <1>3, EditedList, EmptyList, EmptySeq DEF EditTypes, Phases
  <1>5. \A i \in 1 .. n : others[i] \in EditTypes /\ ~others[i].alone
    <2>1. \A i \in 1 .. n : edits[i] \in EditTypes  BY <1>3, ElementOfSeq
    <2>2. QED  BY <1>3, <2>1 DEF EditTypes
  <1>6. others \in Seq(EditTypes) /\ Len(others) = n
    BY <1>3, <1>5, IsASeq, LenProperties
  <1> HIDE DEF others, new
  <1>7. /\ edits' \in Seq(EditTypes) /\ Len(edits') = n + 1
        /\ \A i \in 1 .. n : edits'[i] = others[i]
        /\ edits'[n + 1] = new
    BY <1>2, <1>4, <1>6, AppendProperties
  <1>8. DOMAIN edits' = 1 .. n + 1  BY <1>7, LenProperties
  <1>9. AccTypeOK'
    BY <1>1, <1>2, <1>7, PayType DEF AccTypeOK, Submit
  <1>10. AloneIsDone'
    <2> SUFFICES ASSUME NEW i \in DOMAIN edits', edits'[i].alone
                 PROVE  Len(edits') = 1 /\ edits'[i].at = "truncate"
      BY DEF AloneIsDone
    <2>1. i = n + 1  BY <1>3, <1>5, <1>7, <1>8
    <2>2. QED  BY <1>3, <1>4, <1>7, <2>1
  <1>11. QED  BY <1>2, <1>9, <1>10 DEF EditInv, AckedIsLast, AckedEditIsInForce

(***************************************************************************)
(* One step of an edit's call.                                             *)
(***************************************************************************)
\* What an edit that overlaps no other has done when it is at a step.
Done(r, file, inUse) ==
  /\ r.at = "write" => file = BadFile
  /\ r.at \in {"reload", "send", "merge", "broadcast", "reply"} => file = r.next
  /\ r.at \in {"send", "merge", "broadcast", "reply"} => r.fresh = r.next
  /\ r.at \in {"merge", "broadcast", "reply"} => inUse = r.next

\* A call that goes on, alone, has done what its step says.
LEMMA OneMoves ==
  ASSUME EditInv, NEW i \in DOMAIN edits, NEW r \in EditTypes,
         edits' = [edits EXCEPT ![i] = r], r.alone = edits[i].alone,
         acked' = acked, saved' \in Infos \cup {BadFile}, {info', merged'} \subseteq Infos,
         manager' \in [on : BOOLEAN, news : BOOLEAN, known : Infos],
         page' \in [list : Infos, sub : {"no", "seeded", "yes", "lost"}],
         feedback' \in Seq(Infos), budget' \in EditBudgets,
         edits[i].alone => Done(r, saved', info')
  PROVE  EditInv'
  <1> DEFINE n == Len(edits)
  <1>1. AccTypeOK /\ AloneIsDone /\ AckedIsLast /\ AckedEditIsInForce
    BY DEF EditInv
  <1>2. edits \in Seq(EditTypes) /\ n \in Nat /\ DOMAIN edits = 1 .. n
    BY <1>1, LenProperties DEF AccTypeOK
  <1>3. /\ edits' \in Seq(EditTypes) /\ Len(edits') = n /\ edits'[i] = r
        /\ \A j \in 1 .. n : j # i => edits'[j] = edits[j]
    BY <1>2, ExceptSeq
  <1>4. DOMAIN edits' = 1 .. n  BY <1>3, LenProperties
  <1>5. AccTypeOK'  BY <1>1, <1>3 DEF AccTypeOK
  <1>6. AloneIsDone'
    <2> SUFFICES ASSUME NEW j \in 1 .. n, edits'[j].alone
                 PROVE  n = 1 /\ Done(edits'[j], saved', info')
      BY <1>3, <1>4 DEF AloneIsDone, Done
    <2>1. edits[j].alone  BY <1>2, <1>3
    <2>2. n = 1  BY <1>1, <1>2, <2>1 DEF AloneIsDone
    <2>3. j = i  BY <1>2, <2>2
    <2>4. QED  BY <1>3, <2>1, <2>2, <2>3
  <1>7. edits # << >>  BY <1>2
  <1>8. acked = {}  BY <1>1, <1>7 DEF AckedIsLast
  <1>9. QED  BY <1>5, <1>6, <1>8 DEF EditInv, AckedIsLast, AckedEditIsInForce

\* The call of an edit does one step of update_accessory_info_map (server.rs
\* 325-380), or the page takes its answer.
LEMMA CallStep ==
  ASSUME EditInv, NEW i \in DOMAIN edits, EditStep(i)
  PROVE  EditInv'
  <1> DEFINE e == edits[i]
             n == Len(edits)
  <1>1. AccTypeOK /\ AloneIsDone /\ AckedIsLast /\ AckedEditIsInForce
    BY DEF EditInv
  <1>2. edits \in Seq(EditTypes) /\ n \in Nat /\ DOMAIN edits = 1 .. n
    BY <1>1, LenProperties DEF AccTypeOK
  <1>3. e \in EditTypes  BY <1>2, ElementOfSeq
  <1>4. e.alone => n = 1 /\ Done(e, saved, info)
    BY <1>1 DEF AloneIsDone, Done
  <1>5. /\ saved \in Infos \cup {BadFile} /\ {info, merged} \subseteq Infos
        /\ manager \in [on : BOOLEAN, news : BOOLEAN, known : Infos]
        /\ page \in [list : Infos, sub : {"no", "seeded", "yes", "lost"}]
        /\ feedback \in Seq(Infos) /\ budget \in EditBudgets
    BY <1>1 DEF AccTypeOK
  <1>6. \A at \in Phases : [e EXCEPT !.at = at] \in EditTypes
    BY <1>3 DEF EditTypes
  <1>7. \A at \in Phases : Reaches(i, at) => edits' = [edits EXCEPT ![i] = [e EXCEPT !.at = at]]
    BY <1>2 DEF Reaches
  <1>8. CASE Truncates(i)
    <2> DEFINE r == [e EXCEPT !.at = "write"]
    <2>1. r \in EditTypes /\ edits' = [edits EXCEPT ![i] = r] /\ r.alone = e.alone
      BY <1>3, <1>6, <1>7, <1>8 DEF Truncates, Phases, EditTypes
    <2>2. Done(r, saved', info')  BY <1>3, <1>8 DEF Done, EditTypes, Truncates
    <2> HIDE DEF r
    <2>3. QED  BY <1>5, <1>8, <2>1, <2>2, OneMoves DEF Truncates, Quiet
  <1>9. ASSUME NEW outcome \in Saves, SavesList(i, outcome) PROVE EditInv'
    <2> DEFINE at == IF outcome = "error" THEN "failed" ELSE "reload"
               r == [e EXCEPT !.at = at]
    <2>1. at \in Phases /\ Reaches(i, at)  BY <1>9 DEF SavesList, Phases
    <2>2. r \in EditTypes /\ edits' = [edits EXCEPT ![i] = r] /\ r.alone = e.alone
      BY <1>3, <1>6, <1>7, <2>1 DEF EditTypes
    <2>3. e.next \in Infos /\ e.at = "write"
      BY <1>3, <1>9 DEF SavesList, EditTypes
    <2>4. /\ outcome = "written" => saved' = e.next
          /\ outcome = "mixed" => saved # BadFile /\ saved' = BadFile
          /\ outcome = "error" => saved' = saved /\ Pay("faults")
          /\ outcome # "error" => budget' = budget
      BY <1>9 DEF SavesList
    <2>5. outcome \in {"written", "mixed", "error"}  BY DEF Saves
    <2>6. e.alone => Done(r, saved', info')
      <3>1. e.alone => outcome # "mixed"  BY <1>4, <2>3, <2>4 DEF Done
      <3>2. r.at = at /\ r.next = e.next  BY <1>3 DEF EditTypes
      <3>3. e.alone /\ at = "reload" => saved' = r.next
        BY <2>4, <2>5, <3>1, <3>2
      <3>4. QED  BY <3>2, <3>3 DEF Done
    <2>7. saved' \in Infos \cup {BadFile}  BY <1>5, <2>3, <2>4, <2>5
    <2>8. budget' \in EditBudgets  BY <1>1, <1>5, <2>4, <2>5, PayType
    <2>9. acked' = acked /\ UNCHANGED <<info, merged, manager, page, feedback>>
      BY <1>9 DEF SavesList, Quiet
    <2> HIDE DEF r, at
    <2>10. QED  BY <1>5, <2>2, <2>6, <2>7, <2>8, <2>9, OneMoves
  <1>10. CASE Reloads(i)
    <2> DEFINE back == IF saved = BadFile THEN e.next ELSE saved
               r == [e EXCEPT !.at = "send", !.fresh = back]
    <2>1. back \in Infos  BY <1>3, <1>5 DEF EditTypes
    <2>2. edits' = [edits EXCEPT ![i] = r]  BY <1>2, <1>10 DEF Reloads
    <2>3. r \in EditTypes /\ r.alone = e.alone
      BY <1>3, <2>1 DEF EditTypes, Phases
    <2>4. UNCHANGED <<saved, info, merged, manager, page, feedback, acked, budget>>
      BY <1>10 DEF Reloads, Quiet
    <2>5. e.alone => Done(r, saved', info')
      <3>1. e.at = "reload"  BY <1>10 DEF Reloads
      <3>2. e.alone => saved = e.next /\ back = e.next  BY <1>4, <3>1 DEF Done
      <3>3. QED  BY <1>3, <2>4, <3>2 DEF Done, EditTypes
    <2> HIDE DEF r, back
    <2>6. QED  BY <1>5, <2>2, <2>3, <2>4, <2>5, OneMoves
  <1>11. CASE Sends(i)
    <2> DEFINE r == [e EXCEPT !.at = "merge"]
    <2>1. r \in EditTypes /\ edits' = [edits EXCEPT ![i] = r] /\ r.alone = e.alone
      BY <1>3, <1>6, <1>7, <1>11 DEF Sends, Phases, EditTypes
    <2>2. /\ info' = e.fresh /\ info' \in Infos
          /\ manager' \in [on : BOOLEAN, news : BOOLEAN, known : Infos]
          /\ UNCHANGED <<saved, merged, page, feedback, acked, budget>>
      BY <1>3, <1>5, <1>11 DEF Sends, Quiet, EditTypes
    <2>3. e.alone => Done(r, saved', info')
      <3>1. e.at = "send"  BY <1>11 DEF Sends
      <3>2. QED  BY <1>3, <1>4, <2>2, <3>1 DEF Done, EditTypes
    <2> HIDE DEF r
    <2>4. QED  BY <1>5, <2>1, <2>2, <2>3, OneMoves
  <1>12. CASE Merges(i)
    <2> DEFINE r == [e EXCEPT !.at = "broadcast"]
    <2>1. r \in EditTypes /\ edits' = [edits EXCEPT ![i] = r] /\ r.alone = e.alone
      BY <1>3, <1>6, <1>7, <1>12 DEF Merges, Phases, EditTypes
    <2>2. UNCHANGED <<saved, info, manager, page, feedback, acked, budget>>
      BY <1>12 DEF Merges, Quiet
    <2>3. merged' \in Infos
      <3> DEFINE S == DOMAIN e.fresh \cup DOMAIN merged
      <3>1. /\ DOMAIN e.fresh \subseteq Ids /\ e.fresh \in [DOMAIN e.fresh -> Owners]
            /\ DOMAIN merged \subseteq Ids /\ merged \in [DOMAIN merged -> Owners]
        BY <1>3, <1>5, InList DEF EditTypes
      <3>2. S \subseteq Ids /\ merged' \in [S -> Owners]
        BY <1>12, <3>1 DEF Merges
      <3>3. QED  BY <3>2, ListOf
    <2>4. e.alone => Done(r, saved', info')
      <3>1. e.at = "merge"  BY <1>12 DEF Merges
      <3>2. QED  BY <1>3, <1>4, <2>2, <3>1 DEF Done, EditTypes
    <2> HIDE DEF r
    <2>5. QED  BY <1>5, <2>1, <2>2, <2>3, <2>4, OneMoves
  <1>13. CASE Broadcasts(i)
    <2> DEFINE r == [e EXCEPT !.at = "reply"]
    <2>1. r \in EditTypes /\ edits' = [edits EXCEPT ![i] = r] /\ r.alone = e.alone
      BY <1>3, <1>6, <1>7, <1>13 DEF Broadcasts, Phases, EditTypes
    <2>2. UNCHANGED <<saved, info, merged, manager, acked, budget>>
      BY <1>13 DEF Broadcasts
    <2>3. /\ feedback' \in Seq(Infos)
          /\ page' \in [list : Infos, sub : {"no", "seeded", "yes", "lost"}]
      BY <1>1, <1>5, <1>13, BroadcastType DEF Broadcasts
    <2>4. e.alone => Done(r, saved', info')
      <3>1. e.at = "broadcast"  BY <1>13 DEF Broadcasts
      <3>2. QED  BY <1>3, <1>4, <2>2, <3>1 DEF Done, EditTypes
    <2> HIDE DEF r
    <2>5. QED  BY <1>5, <2>1, <2>2, <2>3, <2>4, OneMoves
  <1>14. CASE Replies(i)
    <2> DEFINE from(j) == IF j < i THEN j ELSE j + 1
    <2>1. /\ edits' = [j \in 1 .. n - 1 |-> edits[from(j)]]
          /\ acked' = IF e.at = "reply" /\ e.alone THEN {e.next} ELSE acked
          /\ page' = [page EXCEPT !.list = e.next]
          /\ UNCHANGED <<saved, info, merged, manager, feedback, budget>>
      BY <1>14 DEF Replies
    <2>2. \A j \in 1 .. n - 1 : from(j) \in 1 .. n  BY <1>2
    <2>3. \A j \in 1 .. n - 1 : edits[from(j)] \in EditTypes
      BY <1>2, <2>2, ElementOfSeq
    <2>4. n - 1 \in Nat  BY <1>2
    <2> HIDE DEF from
    <2>5. edits' \in Seq(EditTypes) /\ Len(edits') = n - 1
      BY <2>1, <2>3, <2>4, IsASeq, LenProperties
    <2>6. DOMAIN edits' = 1 .. n - 1  BY <2>5, LenProperties
    <2>7. page' \in [list : Infos, sub : {"no", "seeded", "yes", "lost"}]
      BY <1>3, <1>5, <2>1 DEF EditTypes
    <2>8. AccTypeOK'  BY <1>1, <2>1, <2>5, <2>7 DEF AccTypeOK
    <2>9. AloneIsDone'
      <3> SUFFICES ASSUME NEW j \in 1 .. n - 1, edits'[j].alone PROVE FALSE
        BY <2>6 DEF AloneIsDone
      <3>1. edits'[j] = edits[from(j)] /\ from(j) \in 1 .. n  BY <2>1, <2>2
      <3>2. n = 1  BY <1>1, <1>2, <3>1 DEF AloneIsDone
      <3>3. QED  BY <3>2
    <2>10. acked = {}
      <3>1. edits # << >>  BY <1>2
      <3>2. QED  BY <1>1, <3>1 DEF AckedIsLast
    <2>11. CASE e.at = "reply" /\ e.alone
      <3>1. n = 1 /\ e.next = saved /\ e.next = info
        BY <1>4, <2>11 DEF Done
      <3>2. edits' = << >>  BY <2>5, <3>1, EmptySeq
      <3>3. acked' \subseteq Infos  BY <1>3, <2>1, <2>11 DEF EditTypes
      <3>4. QED
        BY <2>1, <2>8, <2>9, <2>11, <3>1, <3>2, <3>3
           DEF EditInv, AckedIsLast, AckedEditIsInForce
    <2>12. CASE ~(e.at = "reply" /\ e.alone)
      BY <2>1, <2>8, <2>9, <2>10, <2>12 DEF EditInv, AckedIsLast, AckedEditIsInForce
    <2>13. QED  BY <2>11, <2>12
  <1>15. QED  BY <1>8, <1>9, <1>10, <1>11, <1>12, <1>13, <1>14 DEF EditStep

(***************************************************************************)
(* The other steps.                                                        *)
(***************************************************************************)
\* The hub starts again with the file as it is; the calls under way fail.
LEMMA RestartStep ==
  ASSUME EditInv, NEW still \in SUBSET conn, HubRestart(still)
  PROVE  EditInv'
  <1> DEFINE n == Len(edits)
  <1>1. AccTypeOK /\ AloneIsDone /\ AckedIsLast /\ AckedEditIsInForce
    BY DEF EditInv
  <1>2. edits \in Seq(EditTypes) /\ n \in Nat /\ DOMAIN edits = 1 .. n
    BY <1>1, LenProperties DEF AccTypeOK
  <1>3. /\ edits' = [i \in 1 .. n |-> [edits[i] EXCEPT !.at = "failed"]]
        /\ info' = ReadList(saved) /\ merged' = info' /\ manager' = NewManager(info')
        /\ page' = [page EXCEPT !.sub = IF @ = "no" THEN @ ELSE "lost"]
        /\ feedback' = << >> /\ saved' = saved /\ acked' = acked
    BY <1>2 DEF HubRestart
  <1>4. \A i \in 1 .. n : /\ [edits[i] EXCEPT !.at = "failed"] \in EditTypes
                          /\ [edits[i] EXCEPT !.at = "failed"].at = "failed"
                          /\ [edits[i] EXCEPT !.at = "failed"].alone = edits[i].alone
    <2> TAKE i \in 1 .. n
    <2>1. edits[i] \in EditTypes  BY <1>2, ElementOfSeq
    <2>2. QED  BY <2>1 DEF EditTypes, Phases
  <1>5. edits' \in Seq(EditTypes) /\ Len(edits') = n
    BY <1>2, <1>3, <1>4, IsASeq, LenProperties
  <1>6. DOMAIN edits' = 1 .. n  BY <1>5, LenProperties
  <1>7. info' \in Infos  BY <1>1, <1>3, ReadListType DEF AccTypeOK
  <1>8. budget' \in EditBudgets  BY <1>1, PayType DEF HubRestart
  <1>9. page' \in [list : Infos, sub : {"no", "seeded", "yes", "lost"}]
    BY <1>1, <1>3 DEF AccTypeOK
  <1>10. AccTypeOK'
    BY <1>1, <1>3, <1>5, <1>7, <1>8, <1>9, EmptySeq DEF AccTypeOK, NewManager
  <1>11. AloneIsDone'
    <2> SUFFICES ASSUME NEW i \in 1 .. n, edits'[i].alone
                 PROVE  n = 1 /\ edits'[i].at = "failed"
      BY <1>5, <1>6 DEF AloneIsDone
    <2>1. edits[i].alone /\ edits'[i].at = "failed"  BY <1>3, <1>4
    <2>2. QED  BY <1>1, <1>2, <2>1 DEF AloneIsDone
  <1>12. acked # {} => edits' = << >> /\ info' = info
    <2> SUFFICES ASSUME acked # {} PROVE edits' = << >> /\ info' = info  OBVIOUS
    <2>1. edits = << >> /\ acked = {saved} /\ acked = {info} /\ acked \subseteq Infos
      BY <1>1 DEF AckedIsLast, AckedEditIsInForce
    <2>2. n = 0  BY <2>1, EmptySeq
    <2>3. edits' = << >>  BY <1>5, <2>2, EmptySeq
    <2>4. saved # BadFile /\ saved = info
      BY <2>1, AccessoryParameters
    <2>5. QED  BY <1>3, <2>3, <2>4 DEF ReadList
  <1>13. QED
    BY <1>1, <1>3, <1>10, <1>11, <1>12 DEF EditInv, AckedIsLast, AckedEditIsInForce

LEMMA NextEdits == EditInv /\ [AccNext]_accVars => EditInv'
  <1> SUFFICES ASSUME EditInv, [AccNext]_accVars PROVE EditInv'  OBVIOUS
  <1>1. AccTypeOK  BY DEF EditInv
  <1>2. CASE Seed
    <2>1. AccTypeOK'  BY <1>1, <1>2 DEF AccTypeOK, Seed
    <2>2. QED  BY <1>2, <2>1, EditsKept DEF Seed
  <1>3. CASE Subscribes
    <2>1. AccTypeOK'  BY <1>1, <1>3 DEF AccTypeOK, Subscribes
    <2>2. QED  BY <1>3, <2>1, EditsKept DEF Subscribes
  <1>4. CASE Delivers
    <2>1. feedback' \in Seq(Infos) /\ Head(feedback) \in Infos
      BY <1>1, <1>4, HeadTailProperties DEF AccTypeOK, Delivers
    <2>2. AccTypeOK'  BY <1>1, <1>4, <2>1 DEF AccTypeOK, Delivers
    <2>3. QED  BY <1>4, <2>2, EditsKept DEF Delivers
  <1>5. ASSUME NEW e \in budget.of, Submit(e) PROVE EditInv'
    BY <1>5, SubmitStep
  <1>6. ASSUME NEW i \in DOMAIN edits, EditStep(i) PROVE EditInv'
    BY <1>6, CallStep
  <1>7. CASE ManagerStarts
    <2>1. info \in Infos  BY <1>1 DEF AccTypeOK
    <2>2. /\ feedback' \in Seq(Infos)
          /\ page' \in [list : Infos, sub : {"no", "seeded", "yes", "lost"}]
      BY <1>1, <1>7, <2>1, BroadcastType DEF ManagerStarts
    <2>3. AccTypeOK'  BY <1>1, <1>7, <2>2 DEF AccTypeOK, ManagerStarts
    <2>4. QED  BY <1>7, <2>3, EditsKept DEF ManagerStarts
  <1>8. CASE InfoChanged
    <2>1. info \in Infos  BY <1>1 DEF AccTypeOK
    <2>2. /\ feedback' \in Seq(Infos)
          /\ page' \in [list : Infos, sub : {"no", "seeded", "yes", "lost"}]
      BY <1>1, <1>8, <2>1, BroadcastType DEF InfoChanged
    <2>3. AccTypeOK'  BY <1>1, <1>8, <2>2 DEF AccTypeOK, InfoChanged
    <2>4. QED  BY <1>8, <2>3, EditsKept DEF InfoChanged
  <1>9. ASSUME NEW outcome, ScanComplete(outcome) PROVE EditInv'
    <2>1. manager.known \in Infos  BY <1>1 DEF AccTypeOK
    <2>2. /\ feedback' \in Seq(Infos)
          /\ page' \in [list : Infos, sub : {"no", "seeded", "yes", "lost"}]
      BY <1>1, <1>9, <2>1, BroadcastType DEF ScanComplete
    <2>3. budget' \in EditBudgets
      <3>1. budget' = budget \/ Pay("faults")  BY <1>9 DEF ScanComplete
      <3>2. QED  BY <1>1, <3>1, PayType DEF AccTypeOK
    <2>4. UNCHANGED <<saved, info, merged, manager, edits, acked>>
      BY <1>9 DEF ScanComplete
    <2>5. AccTypeOK'  BY <1>1, <2>2, <2>3, <2>4 DEF AccTypeOK
    <2>6. QED  BY <2>4, <2>5, EditsKept
  <1>10. ASSUME NEW id \in Ids, LinkLost(id) PROVE EditInv'
    <2>1. budget' \in EditBudgets  BY <1>1, <1>10, PayType DEF LinkLost
    <2>2. AccTypeOK'  BY <1>1, <1>10, <2>1 DEF AccTypeOK, LinkLost
    <2>3. QED  BY <1>10, <2>2, EditsKept DEF LinkLost
  <1>11. ASSUME NEW still \in SUBSET conn, HubRestart(still) PROVE EditInv'
    BY <1>11, RestartStep
  <1>12. CASE UNCHANGED accVars
    <2>1. AccTypeOK'  BY <1>1, <1>12 DEF AccTypeOK, accVars
    <2>2. QED  BY <1>12, <2>1, EditsKept DEF accVars
  <1>13. QED
    BY <1>2, <1>3, <1>4, <1>5, <1>6, <1>7, <1>8, <1>9, <1>10, <1>11, <1>12
       DEF AccNext, Scan

\* What the hub uses for shots, and what a restart finds, is the list of the edit
\* acknowledged last, unless edits overlapped (odyssey_hub_server/src/server.rs
\* 325-380, and 305-324 for the start).
THEOREM AckedAlwaysInForce == AccSpec => []AckedEditIsInForce
  <1>1. EditInv => AckedEditIsInForce  BY DEF EditInv
  <1>2. QED  BY <1>1, InitEdits, NextEdits, PTL DEF AccSpec

=============================================================================
