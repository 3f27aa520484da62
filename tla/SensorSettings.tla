--------------------------- MODULE SensorSettings ---------------------------
(***************************************************************************)
(* The Device Settings section of one device (odyssey_desktop/src/         *)
(* components/sensor_settings.rs 1101-1455): one coroutine that loads, a   *)
(* task per click on Apply or Save, the user at the fields, and the device *)
(* behind them, which may lose power.                                      *)
(*                                                                         *)
(* A step of a load or of a click is one call to the hub with what the     *)
(* page does until the next call.  Every call may fail, done or not.       *)
(***************************************************************************)
EXTENDS SensorRegisters, FiniteSetsExt

CONSTANTS
  Sessions,    \* bound: [sensor : "PAJ" (ATS VM, ATS Lite) or "PAG" (ATS Pro),
               \* fields : those of the panels that exist, typed : those the user
               \* may edit, overlap : whether the user clicks while a load is
               \* pending, left : how often each of Acts may happen]
  Texts,       \* bound: what the user may type
  OldRegs,     \* what the registers held before, by sensor and port
  OldGeneral   \* what the general settings were

\* A PAJ device has a sensor for the near field and one for the wide field.
PortsOf(s) == IF s.sensor = "PAJ" THEN {0, 1} ELSE {0}

ASSUME SettingsParameters ==
  /\ \A s \in Sessions :
       /\ s.sensor \in {"PAJ", "PAG"}
       /\ s.fields # {}
       /\ s.fields \subseteq DOMAIN (IF s.sensor = "PAJ" THEN PajDefault ELSE PagDefault)
       /\ s.overlap \in BOOLEAN
       /\ s.left \in [{"toggles", "clicks", "edits", "resets", "faults"} -> Nat]
  /\ Texts \subseteq Nat \cup {NoNumber}
  /\ \A s \in Sessions : \A p \in PortsOf(s) :
       OldRegs[s.sensor][p] \in [Registers(s.sensor) -> Byte]
  /\ OldGeneral \in [{"impact_threshold", "suppress_ms", "shot_delay"} -> Nat]

VARIABLES
  session,   \* the sensor, after the product id, and the bounds
  regs,      \* the registers of every port
  config,    \* the device's general settings, and the shot delay of the hub
  flash,     \* what regs and config become when power is lost
  general,   \* texts: impact_threshold, suppress_ms, shot_delay
  panel,     \* texts: paj_nf_state and paj_wf_state, or pag_state, by port
  open,      \* is_open
  status,
  loading,
  queued,    \* load requests not yet taken by the coroutine
  loader,    \* the load in progress
  jobs,      \* the clicks so far; those at 0 are done
  panicked,  \* a signal was written while borrowed: the app is gone
  left       \* what is left of session.left

device == <<regs, config, flash>>
texts  == <<general, panel>>
settingsVars == <<session, device, texts, open, status, loading, queued, loader,
                  jobs, panicked, left>>

General == <<"impact_threshold", "suppress_ms", "shot_delay">>
Acts == {"toggles", "clicks", "edits", "resets", "faults"}

Kept(s, fields) ==
  FlattenSeq([i \in DOMAIN fields |->
    IF fields[i].name \in s.fields \cup {"sync"} THEN <<fields[i]>> ELSE << >>])

Reads == [s \in Sessions |->
            Kept(s, IF s.sensor = "PAJ" THEN PajReads ELSE PagReads)]
Writes == [s \in Sessions |->
             Kept(s, IF s.sensor = "PAJ" THEN PajWrites ELSE PagWrites)]

Ports == PortsOf(session)

Defaults(p) ==
  IF session.sensor = "PAJ" THEN paj_load_defaults(p) ELSE pag_load_defaults

(***************************************************************************)
(* The calls a load and a click make, in order.                            *)
(***************************************************************************)
Flat(fields, p) ==
  FlattenSeq([i \in DOMAIN fields |->
    [j \in DOMAIN fields[i].at |->
       [op |-> "register", port |-> p, field |-> i, byte |-> j]]])

Sections(s, fields) ==
  IF s.sensor = "PAJ" THEN Flat(fields, 0) \o Flat(fields, 1) ELSE Flat(fields, 0)

GeneralCall(name) == [op |-> name, port |-> 2, field |-> 0, byte |-> 0]
FlashCall == [op |-> "flash", port |-> 3, field |-> 0, byte |-> 0]

LoadCalls ==
  [s \in Sessions |->
     [i \in 1 .. 3 |-> GeneralCall(General[i])] \o Sections(s, Reads[s])]

JobCalls ==
  [s \in Sessions |->
     [apply |-> [i \in 1 .. 3 |-> GeneralCall(General[i])] \o Sections(s, Writes[s]),
      save  |-> [i \in 1 .. 2 |-> GeneralCall(General[i])] \o Sections(s, Writes[s])
                  \o <<FlashCall>>]]

(***************************************************************************)
(* The device.  A PAJ sensor takes exposure and gain over from bank 12     *)
(* into the registers of bank 1 that it reports when bank 1 is synced.     *)
(***************************************************************************)
TakenFrom ==
  [at \in {<<1, 14>>, <<1, 15>>, <<1, 5>>, <<1, 6>>} |->
     <<12, CASE at[2] = 14 -> 15 [] at[2] = 15 -> 16 [] at[2] = 5 -> 11
             [] OTHER -> 12>>]

WriteRegister(port, at, byte) ==
  LET written == [port EXCEPT ![at] = byte]
  IN  IF at = <<1, 1>>
      THEN [x \in DOMAIN port |->
              IF x \in DOMAIN TakenFrom THEN written[TakenFrom[x]] ELSE written[x]]
      ELSE written

\* What a load has read, with one more.
Put(f, key, value) ==
  [x \in DOMAIN f \cup {key} |-> IF x = key THEN value ELSE f[x]]

\* The texts of a panel's fields.
TextsOf(values) == [name \in session.fields |-> values[name]]

NoLoad == [at |-> 0, got |-> << >>, failed |-> FALSE, clean |-> FALSE]

SettingsInit ==
  /\ session \in Sessions
  /\ regs = [p \in Ports |-> OldRegs[session.sensor][p]]
  /\ config = OldGeneral
  /\ flash = [regs |-> regs, config |-> config]
  /\ general = [n \in Range(General) |-> NoNumber]
  /\ panel = [p \in Ports |-> TextsOf(IF session.sensor = "PAJ" THEN PajDefault
                                     ELSE PagDefault)]
  /\ open = FALSE
  /\ status = ""
  /\ loading = FALSE
  /\ queued = 0
  /\ loader = NoLoad
  /\ jobs = << >>
  /\ panicked = FALSE
  /\ left = session.left

(***************************************************************************)
(* What the tasks know of each other.  clean: since it began, the task has *)
(* been the only one, no text was edited and the device kept its power.    *)
(***************************************************************************)
Use(act) == left[act] > 0 /\ left' = [left EXCEPT ![act] = @ - 1]

Fault(ok) == IF ok THEN UNCHANGED left ELSE Use("faults")

Dirty(tasks) == [j \in DOMAIN tasks |-> [tasks[j] EXCEPT !.clean = FALSE]]

Disturb ==
  /\ jobs' = Dirty(jobs)
  /\ loader' = [loader EXCEPT !.clean = FALSE]

Busy(j) == jobs[j].at # 0
NoTask == loader.at = 0 /\ \A j \in DOMAIN jobs : ~Busy(j)

CallOf(j) == JobCalls[session][jobs[j].kind][jobs[j].at]

\* The guard of a panel's signal is held across the writes of its section.
Borrowed(p) ==
  \E j \in DOMAIN jobs : Busy(j) /\ CallOf(j).op = "register" /\ CallOf(j).port = p

\* The first call that is not of the section of calls[k].
AfterSection(calls, k) ==
  Min({l \in k .. Len(calls) : calls[l].port # calls[k].port}
        \cup {Len(calls) + 1})

(***************************************************************************)
(* The user and the device.                                                *)
(***************************************************************************)
Toggle ==
  /\ ~panicked
  /\ open' = ~open
  /\ queued' = IF open THEN queued ELSE queued + 1
  /\ Use("toggles")
  /\ UNCHANGED <<session, device, texts, status, loading, loader, jobs, panicked>>

Reload ==
  /\ ~panicked /\ open /\ ~loading
  /\ queued' = queued + 1
  /\ Use("toggles")
  /\ UNCHANGED <<session, device, texts, open, status, loading, loader, jobs,
                 panicked>>

Edit(p, name, text) ==
  /\ ~panicked /\ open
  /\ Use("edits")
  /\ IF Borrowed(p) THEN panicked' = TRUE /\ UNCHANGED panel
     ELSE panel' = [panel EXCEPT ![p][name] = text] /\ UNCHANGED panicked
  /\ Disturb
  /\ UNCHANGED <<session, device, general, open, status, loading, queued>>

EditGeneral(name, text) ==
  /\ ~panicked /\ open
  /\ Use("edits")
  /\ general' = [general EXCEPT ![name] = text]
  /\ Disturb
  /\ UNCHANGED <<session, device, panel, open, status, loading, queued, panicked>>

LoadDefaults ==
  /\ ~panicked /\ open /\ ~loading
  /\ Use("edits")
  /\ general' = [general EXCEPT !["impact_threshold"] = 25, !["suppress_ms"] = 25]
  /\ IF \E p \in Ports : Borrowed(p)
     THEN panicked' = TRUE /\ UNCHANGED <<panel, status>>
     ELSE /\ panel' = [p \in Ports |-> TextsOf(Defaults(p))]
          /\ status' = "Defaults loaded"
          /\ UNCHANGED panicked
  /\ Disturb
  /\ UNCHANGED <<session, device, open, loading, queued>>

LosePower ==
  /\ Use("resets")
  /\ regs' = flash.regs
  /\ config' = [flash.config EXCEPT !["shot_delay"] = config["shot_delay"]]
  /\ Disturb
  /\ UNCHANGED <<session, flash, texts, open, status, loading, queued, panicked>>

(***************************************************************************)
(* The load coroutine.                                                     *)
(***************************************************************************)
LoadStarts ==
  /\ ~panicked /\ queued > 0 /\ loader.at = 0
  /\ queued' = queued - 1
  /\ loader' = [at |-> 1, got |-> << >>, failed |-> FALSE, clean |-> NoTask]
  /\ jobs' = Dirty(jobs)
  /\ loading' = TRUE
  /\ status' = "Reading..."
  /\ UNCHANGED <<session, device, texts, open, panicked, left>>

\* Mutant: the panel of the wide field gets the near field.
PanelsOfPort0(got) ==
  [p \in Ports |->
     [name \in DOMAIN panel[p] |->
        LET read == CHOOSE r \in Range(Reads[session]) : r.name = name
        IN  Shown(name, [i \in DOMAIN read.at |-> got[<<0, read.at[i]>>]])]]

\* What the panels show for the bytes read so far, a map by port and address.
Panels(got) ==
  [p \in Ports |->
     [name \in DOMAIN panel[p] |->
        LET read == CHOOSE r \in Range(Reads[session]) : r.name = name
        IN  Shown(name, [i \in DOMAIN read.at |-> got[<<p, read.at[i]>>]])]]

\* The load goes on with call k, or ends: only a load of every port that
\* failed nowhere sets the panels.
LoadGoesOn(k, got, failed) ==
  IF k <= Len(LoadCalls[session])
  THEN /\ loader' = [loader EXCEPT !.at = k, !.got = got, !.failed = failed]
       /\ UNCHANGED <<panel, status, loading, panicked>>
  ELSE /\ loader' = NoLoad
       /\ IF failed
          THEN status' = "Error" /\ loading' = FALSE /\ UNCHANGED <<panel, panicked>>
          ELSE IF \E p \in Ports : Borrowed(p)
          THEN panicked' = TRUE /\ UNCHANGED <<panel, status, loading>>
          ELSE /\ panel' = Panels(got)
               /\ status' = "Loaded"
               /\ loading' = FALSE
               /\ UNCHANGED panicked

LoadGeneral(answered) ==
  LET call == LoadCalls[session][loader.at]
  IN  /\ ~panicked /\ loader.at \in 1 .. 3
      /\ general' = IF answered THEN [general EXCEPT ![call.op] = config[call.op]]
                    ELSE general
      /\ LoadGoesOn(loader.at + 1, loader.got, loader.failed)
      /\ UNCHANGED <<session, device, open, queued, jobs>>
      /\ Fault(answered)

LoadRegister(answered) ==
  LET call == LoadCalls[session][loader.at]
      at   == Reads[session][call.field].at[call.byte]
  IN  /\ ~panicked /\ loader.at > 3
      /\ IF answered
         THEN LoadGoesOn(loader.at + 1,
                         Put(loader.got, <<call.port, at>>, regs[call.port][at]),
                         loader.failed)
         ELSE LoadGoesOn(AfterSection(LoadCalls[session], loader.at), loader.got,
                         TRUE)
      /\ UNCHANGED <<session, device, general, open, queued, jobs>>
      /\ Fault(answered)

(***************************************************************************)
(* Apply and Save.                                                         *)
(***************************************************************************)
Width(name) == IF name = "shot_delay" THEN 2 ELSE 1

\* The first of the calls from k on that is made: a general setting whose
\* text does not parse is skipped, and a save that failed does not flash.
NextCall(calls, k, failed) ==
  LET made(c) == /\ c.op \in Range(General) => Parses(general[c.op], Width(c.op))
                 /\ c.op = "flash" => ~failed
  IN  Min({l \in k .. Len(calls) : made(calls[l])} \cup {Len(calls) + 1})

\* A job at call k; a general setting is sent as its text is when it gets there.
At(job, calls, k) ==
  [job EXCEPT !.at = k,
     !.value = IF calls[k].op \in Range(General) THEN general[calls[k].op] ELSE 0]

Click(kind) ==
  LET calls == JobCalls[session][kind]
      job   == [kind |-> kind, at |-> 0, value |-> 0, failed |-> FALSE,
                clean |-> NoTask]
  IN  /\ ~panicked /\ open /\ ~loading
      /\ session.overlap \/ (NoTask /\ queued = 0)
      /\ Use("clicks")
      /\ jobs' = Append(Dirty(jobs), At(job, calls, NextCall(calls, 1, FALSE)))
      /\ loader' = [loader EXCEPT !.clean = FALSE]
      /\ loading' = TRUE
      /\ status' = IF kind = "apply" THEN "Applying..." ELSE "Applying & saving..."
      /\ UNCHANGED <<session, device, texts, open, queued, panicked>>

\* Mutant: a save that failed returns at once, with loading still set.
GoOnStuck(j, k, failed) ==
  LET calls == JobCalls[session][jobs[j].kind]
      next  == NextCall(calls, k, failed)
  IN  IF next <= Len(calls)
      THEN /\ jobs' = [jobs EXCEPT ![j] =
                         At([jobs[j] EXCEPT !.failed = failed], calls, next)]
           /\ UNCHANGED <<status, loading>>
      ELSE /\ jobs' = [jobs EXCEPT ![j].at = 0, ![j].failed = failed]
           /\ status' = IF failed THEN "Error" ELSE "Saved"
           /\ loading' = (failed /\ loading)

\* Mutant: only a failure of the last section counts.
GoOnForgetting(j, k, failed) ==
  LET calls == JobCalls[session][jobs[j].kind]
      next  == NextCall(calls, k, failed)
  IN  IF next <= Len(calls)
      THEN /\ jobs' = [jobs EXCEPT ![j] =
                         At([jobs[j] EXCEPT !.failed = FALSE], calls, next)]
           /\ UNCHANGED <<status, loading>>
      ELSE /\ jobs' = [jobs EXCEPT ![j].at = 0, ![j].failed = failed]
           /\ status' = IF failed THEN "Error"
                        ELSE IF jobs[j].kind = "apply" THEN "Applied" ELSE "Saved"
           /\ loading' = FALSE

\* Mutant: a call that failed is made again, and its failure not forgotten.
GoOnAgain(j, k, failed) ==
  LET calls == JobCalls[session][jobs[j].kind]
      next  == IF failed THEN jobs[j].at ELSE NextCall(calls, k, failed)
  IN  IF next <= Len(calls)
      THEN /\ jobs' = [jobs EXCEPT ![j] =
                         At([jobs[j] EXCEPT !.failed = failed], calls, next)]
           /\ UNCHANGED <<status, loading>>
      ELSE /\ jobs' = [jobs EXCEPT ![j].at = 0, ![j].failed = failed]
           /\ status' = IF failed THEN "Error"
                        ELSE IF jobs[j].kind = "apply" THEN "Applied" ELSE "Saved"
           /\ loading' = FALSE

\* Job j goes on after a call: with the first one that is made from k on, or
\* it ends and says how.
GoOn(j, k, failed) ==
  LET calls == JobCalls[session][jobs[j].kind]
      next  == NextCall(calls, k, failed)
  IN  IF next <= Len(calls)
      THEN /\ jobs' = [jobs EXCEPT ![j] =
                         At([jobs[j] EXCEPT !.failed = failed], calls, next)]
           /\ UNCHANGED <<status, loading>>
      ELSE /\ jobs' = [jobs EXCEPT ![j].at = 0, ![j].failed = failed]
           /\ status' = IF failed THEN "Error"
                        ELSE IF jobs[j].kind = "apply" THEN "Applied" ELSE "Saved"
           /\ loading' = FALSE

JobStep(j) ==
  /\ ~panicked /\ Busy(j)
  /\ UNCHANGED <<session, texts, open, queued, loader, panicked>>

\* Their errors are ignored.
WriteGeneral(j, done) ==
  LET call == CallOf(j)
  IN  /\ JobStep(j) /\ call.op \in Range(General)
      /\ config' = IF done THEN [config EXCEPT ![call.op] = jobs[j].value] ELSE config
      /\ Fault(done)
      /\ GoOn(j, jobs[j].at + 1, jobs[j].failed)
      /\ UNCHANGED <<regs, flash>>

WritePanel(j, done, answered) ==
  LET call == CallOf(j)
      w    == Writes[session][call.field]
      text == IF w.name = "sync" THEN NoNumber ELSE panel[call.port][w.name]
  IN  /\ JobStep(j) /\ call.op = "register" /\ (answered => done)
      /\ Fault(answered)
      /\ regs' = IF done
                 THEN [regs EXCEPT ![call.port] =
                         WriteRegister(@, w.at[call.byte],
                                       Written(w, text)[call.byte])]
                 ELSE regs
      /\ IF answered THEN GoOn(j, jobs[j].at + 1, jobs[j].failed)
         ELSE GoOn(j, AfterSection(JobCalls[session][jobs[j].kind], jobs[j].at),
                   TRUE)
      /\ UNCHANGED <<config, flash>>

FlashSettings(j, done, answered) ==
  /\ JobStep(j) /\ CallOf(j).op = "flash" /\ (answered => done)
  /\ Fault(answered)
  /\ flash' = IF done THEN [regs |-> regs, config |-> config] ELSE flash
  /\ GoOn(j, jobs[j].at + 1, ~answered)
  /\ UNCHANGED <<regs, config>>

Load == LoadStarts \/ \E answered \in BOOLEAN :
                        LoadGeneral(answered) \/ LoadRegister(answered)

Job(j) == \E done, answered \in BOOLEAN :
            \/ WriteGeneral(j, done)
            \/ WritePanel(j, done, answered)
            \/ FlashSettings(j, done, answered)

Type ==
  \/ \E p \in Ports, name \in session.typed \cap session.fields, text \in Texts :
       Edit(p, name, text)
  \/ \E name \in session.typed \cap Range(General), text \in Texts : EditGeneral(name, text)

SettingsNext ==
  \/ Toggle \/ Reload \/ Type \/ LoadDefaults \/ LosePower
  \/ Load
  \/ \E kind \in {"apply", "save"} : Click(kind)
  \/ \E j \in DOMAIN jobs : Job(j)

SettingsSpec == SettingsInit /\ [][SettingsNext]_settingsVars

\* Every call returns, so the coroutine and the tasks go on.
SettingsFairness ==
  /\ WF_settingsVars(Load)
  /\ \A j \in 1 .. Max({s.left["clicks"] : s \in Sessions}) :
       WF_settingsVars(j \in DOMAIN jobs /\ Job(j))

SettingsFairSpec == SettingsSpec /\ SettingsFairness

(***************************************************************************)
(* Properties.                                                             *)
(***************************************************************************)
Text == Nat \cup {NoNumber}

SettingsTypeOK ==
  /\ session \in Sessions
  /\ regs \in [Ports -> [Registers(session.sensor) -> Byte]]
  /\ flash.regs \in [Ports -> [Registers(session.sensor) -> Byte]]
  /\ config \in [Range(General) -> Nat] /\ flash.config \in [Range(General) -> Nat]
  /\ general \in [Range(General) -> Text]
  /\ panel \in [Ports -> [session.fields -> Text]]
  /\ {open, loading, panicked, loader.clean, loader.failed} \subseteq BOOLEAN
  /\ queued \in Nat
  /\ loader.at \in 0 .. Len(LoadCalls[session])
  /\ \A j \in DOMAIN jobs : jobs[j].at \in 0 .. Len(JobCalls[session][jobs[j].kind])

\* The buttons are disabled (1348-1371) only while a load, an apply or a save
\* is under way to enable them again, whatever failed and whatever overlapped.
LoadingHasTask == loading /\ ~panicked => ~NoTask

\* A register can hold what the text says: it parses, the gain is in the table,
\* and a PAG exposure is a number of 100 us that fits seven bits.
Fits(w, text) ==
  /\ Parses(text, w.width)
  /\ CASE w.name = "gain_index"  -> text <= LastGain
       [] w.name = "exposure_us" -> text % 100 = 0 /\ text < 12800
       [] OTHER                  -> Len(w.at) < 4 => text < 256 * Place[Len(w.at)]

\* What ports r hold reads back as the texts the panels t show, as far as these fit.
ReadsBack(r, t) ==
  \A p \in Ports, read \in Range(Reads[session]), w \in Range(Writes[session]) :
    w.name = read.name /\ Fits(w, t[p][w.name]) =>
      t[p][w.name] = Shown(read.name, [i \in DOMAIN read.at |-> r[p][read.at[i]]])

\* An Apply or Save that nothing disturbed and that says "Applied" or "Saved"
\* (1245, 1303) has brought every field of both sensors where a later load
\* reads it, and where it survives a loss of power if it was a Save.
DoneIsDone ==
  [][\A j \in DOMAIN jobs :
       Busy(j) /\ jobs[j].clean /\ jobs'[j].at = 0 =>
         /\ status' = "Applied" => ReadsBack(regs', panel)
         /\ status' = "Saved" => ReadsBack(flash'.regs, panel)]_settingsVars

\* A load that nothing disturbed and that says "Loaded" (1185) shows in every
\* field of both sensors what their registers hold, and none left from before.
LoadedIsRead ==
  [][loader.clean /\ loader'.at = 0 /\ status' = "Loaded" =>
       \A p \in Ports, read \in Range(Reads[session]) :
         panel'[p][read.name] =
           Shown(read.name, [i \in DOMAIN read.at |-> regs[p][read.at[i]]])]_settingsVars

\* The page is usable again in the end: its buttons are not disabled for good.
LoadingEnds == loading ~> (~loading \/ panicked)
=============================================================================
