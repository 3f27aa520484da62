------------------------------ MODULE MCParts ------------------------------
(***************************************************************************)
(* An instance for TLC of four parts that share no state, one moving per   *)
(* behaviour: the Device Settings of the app, the shot delays of the hub,  *)
(* the lists on their way to the app, and the accessories.                 *)
(***************************************************************************)
EXTENDS SensorSettings, MCShotDelay, ListFeed, Accessories

CONSTANTS none, a1

VARIABLE part

SomeTexts == {none, 12000}

Budget(toggles, clicks, typing, resets, faults) ==
  [toggles |-> toggles, clicks |-> clicks, edits |-> typing, resets |-> resets,
   faults |-> faults]

\* Every field of either sensor, one thing at a time; and few fields, with
\* loads and clicks that overlap.
SomeSessions ==
  {[sensor |-> "PAJ", fields |-> DOMAIN PajDefault, typed |-> {},
    overlap |-> FALSE,
    left |-> Budget(1, 1, 0, 0, 2)],
   [sensor |-> "PAG", fields |-> DOMAIN PagDefault, typed |-> {"exposure_us"},
    overlap |-> FALSE,
    left |-> Budget(2, 1, 1, 0, 1)],
   [sensor |-> "PAJ", fields |-> {"gain_index", "exposure_time"}, typed |-> {"gain_index"},
    overlap |-> TRUE,
    left |-> Budget(1, 2, 0, 0, 0)],
   [sensor |-> "PAG", fields |-> {"area_upper"}, typed |-> {"area_upper", "suppress_ms"},
    overlap |-> TRUE,
    left |-> Budget(1, 2, 1, 1, 0)]}

Factory ==
  [PAJ |-> [p \in {0, 1} |-> [paj_load_defaults(p) EXCEPT !.gain_index = 33 + p,
                               !.exposure_time = 513 + p]],
   PAG |-> [p \in {0} |-> pag_load_defaults]]

\* The registers of a port, a byte each, after these values were written to it, and
\* taken over.
Holding(sensor, values) ==
  LET writes == Range(IF sensor = "PAJ" THEN PajWrites ELSE PagWrites)
  IN  [x \in Registers(sensor) |->
         LET from == IF x \in DOMAIN TakenFrom THEN TakenFrom[x] ELSE x
             w    == CHOOSE w \in writes : from \in Range(w.at)
             i    == CHOOSE i \in DOMAIN w.at : w.at[i] = from
         IN  Written(w, IF w.name = "sync" THEN none ELSE values[w.name])[i] % 256]

FactoryRegs ==
  [sensor \in {"PAJ", "PAG"} |->
     [p \in DOMAIN Factory[sensor] |-> Holding(sensor, Factory[sensor][p])]]

FactoryGeneral ==
  [impact_threshold |-> 5, suppress_ms |-> 6, shot_delay |-> 7]

List(of, changes, faults, drops, restarts) ==
  [of |-> of, changes |-> changes, faults |-> faults, drops |-> drops,
   restarts |-> restarts]

SomeFeeds ==
  {List({"devices"}, 3, 0, 1, 0), List({"dongles"}, 3, 0, 0, 0),
   List({"devices"}, 1, 1, 0, 1), List({"dongles"}, 1, 0, 1, 1)}

EditOf(op, id, owner) == [op |-> op, id |-> id, owner |-> owner]
AddOf(id) == EditOf("add", id, Unassigned)
RemoveOf(id) == EditOf("remove", id, Unassigned)

Edits(of, count, overlap, faults, losses, restarts) ==
  [of |-> of, edits |-> count, overlap |-> overlap, faults |-> faults,
   losses |-> losses, restarts |-> restarts]

\* An accessory that is added again; edits that overlap, and a restart; two of
\* them, or a failure, and a lost connection.
SomeEdits ==
  {Edits({AddOf(a1), RemoveOf(a1)}, 3, 0, 0, 1, 0),
   Edits({AddOf(a1), EditOf("assign", a1, d1)}, 2, 1, 0, 0, 1),
   Edits({AddOf(a1), RemoveOf(a1)}, 2, 1, 1, 1, 0)}

Parts == {"settings", "delays", "lists", "accessories"}

\* A part that does not move has the same load in every behaviour.
PartsInit ==
  /\ part \in Parts
  /\ SettingsInit /\ DelayInit /\ FeedInit /\ AccInit
  /\ part # "settings" => session = CHOOSE s \in Sessions : TRUE
  /\ part # "delays" => togo = CHOOSE l \in Loads : TRUE
  /\ part # "lists" => quota = CHOOSE l \in FeedLoads : TRUE
  /\ part # "accessories" => budget = CHOOSE l \in EditLoads : TRUE

PartsNext ==
  /\ UNCHANGED part
  /\ \/ part = "settings" /\ SettingsNext /\ UNCHANGED <<delayVars, feedVars, accVars>>
     \/ part = "delays" /\ DelayNext /\ UNCHANGED <<settingsVars, feedVars, accVars>>
     \/ part = "lists" /\ FeedNext /\ UNCHANGED <<settingsVars, delayVars, accVars>>
     \/ part = "accessories" /\ AccNext
          /\ UNCHANGED <<settingsVars, delayVars, feedVars>>

partsVars == <<part, settingsVars, delayVars, feedVars, accVars>>

\* The fairness of the parts, each while it is the one that moves.
PartsFairness ==
  /\ WF_settingsVars(part = "settings" /\ Load)
  /\ \A j \in 1 .. 2 : WF_settingsVars(part = "settings" /\ j \in DOMAIN jobs /\ Job(j))
  /\ WF_delayVars(part = "delays" /\ \E c \in DOMAIN rpc : CallStep(c))
  /\ \A d \in Devices : /\ WF_delayVars(part = "delays" /\ HandlerStep(d))
                        /\ WF_delayVars(part = "delays" /\ Tells(d))
  /\ WF_feedVars(part = "lists" /\ Loop)
  /\ \A k \in Lists : /\ WF_feedVars(part = "lists" /\ ServeFeed(k))
                      /\ WF_feedVars(part = "lists" /\ ShowList(k))
  /\ WF_accVars(part = "accessories" /\ Delivers)
  /\ WF_accVars(part = "accessories" /\ \E i \in DOMAIN edits : EditStep(i))
  /\ WF_accVars(part = "accessories" /\ InfoChanged)
  /\ WF_accVars(part = "accessories" /\ Scan)

PartsSpec == PartsInit /\ [][PartsNext]_partsVars /\ PartsFairness
=============================================================================
