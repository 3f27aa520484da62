----------------------------- MODULE ShotDelay -----------------------------
(***************************************************************************)
(* The shot delays of the hub: the map the calls read, the watch channel   *)
(* that tells of changes, what a device handler does with both, and the    *)
(* file (odyssey_hub_server/src/server.rs 169-210 and 383-530, odyssey_hub *)
(* _common/src/config.rs 68-139, device_tasks.rs 1546-1570, 1767-1783 and  *)
(* 2447-2457).                                                             *)
(*                                                                         *)
(* A step reaches from one lock or file access to the next.                *)
(***************************************************************************)
EXTENDS Integers, Sequences, FiniteSets

CONSTANTS
  Devices,
  Unset,        \* no entry, no channel
  Torn,         \* a file that does not parse
  InboxCap,     \* bound on the handler's queue (32 in the code)
  Loads         \* bound: [calls : the calls that are made, each once,
                \* starts, restarts : how often a handler and the hub may start]

Calls == [op : {"set", "setsave", "save", "subscribe"}, dev : Devices, ms : Nat]

LoadBounds == [calls : SUBSET Calls, starts : Nat, restarts : Nat]

ASSUME ShotDelayParameters ==
  /\ Unset \notin Nat /\ Torn \notin [Devices -> Nat \cup {Unset}]
  /\ InboxCap \in Nat
  /\ Loads \subseteq LoadBounds

VARIABLES
  delays,    \* device_shot_delays
  watch,     \* shot_delay_watch: the value of the channel
  handler,   \* on, pc, val: what its arm holds, seen: the channel's value
  inbox,     \* SetShotDelay messages in a handler's queue
  listener,  \* a subscription: its receiver, seen, and the value told last
  file,      \* device_shot_delays.json; one that is missing is empty
  warned,    \* the corruption warning is open, with the path of the file
  rpc,       \* the calls in progress
  kept,      \* ghost: what must be in the file, by the last acknowledged saves
  asked,     \* ghost: the delay set last, unless two sets overlapped
  togo       \* what is left of the load

delayVars == <<delays, watch, handler, inbox, listener, file, warned, rpc, kept,
               asked, togo>>

NoEntries   == [d \in Devices |-> Unset]
NoHandler  == [on |-> FALSE, pc |-> "idle", val |-> 0, seen |-> TRUE]
NoListener == [rx |-> "none", seen |-> TRUE, told |-> 0]

\* Mutant: a save starts from an empty map.
ContentsEmpty(f) == NoEntries

\* device_shot_delays_async: a file that cannot be read gives the defaults.
Contents(f) == IF f = Torn THEN NoEntries ELSE f

OrZero(x) == IF x = Unset THEN 0 ELSE x

DelayInit ==
  /\ file = NoEntries
  /\ delays = Contents(file)
  /\ watch = NoEntries
  /\ handler = [d \in Devices |-> NoHandler]
  /\ inbox = [d \in Devices |-> << >>]
  /\ listener = [d \in Devices |-> NoListener]
  /\ warned = FALSE
  /\ rpc = << >>
  /\ kept = NoEntries
  /\ asked = NoEntries
  /\ togo \in Loads

Spend(what) == togo[what] > 0 /\ togo' = [togo EXCEPT ![what] = @ - 1]

(***************************************************************************)
(* The watch channel of tokio.  send stores nothing when there is no       *)
(* receiver; a stream over a receiver starts with the value it finds.      *)
(***************************************************************************)
Receivers(d) == handler[d].on \/ listener[d].rx # "none"

\* Handler and listener after a send on the channel of d.
Unseen(d) ==
  /\ handler' = [handler EXCEPT ![d].seen = ~handler[d].on]
  /\ listener' = [listener EXCEPT ![d].seen = (@ /\ listener[d].rx = "none")]

Send(d, ms) ==
  IF watch[d] = Unset \/ Receivers(d)
  THEN watch' = [watch EXCEPT ![d] = ms] /\ Unseen(d)
  ELSE UNCHANGED <<watch, handler, listener>>

(***************************************************************************)
(* Calls.  Set and Reset (a set to zero) write the map, then the channel,  *)
(* and tell the handler.  The Save button of the zero page sets before it  *)
(* saves; the call alone saves what the map has.  ms is what the call's    *)
(* truncation to 16 bits leaves of the delay (462).                        *)
(***************************************************************************)
Sets == {"set", "setsave"}

First == [set |-> "insert", setsave |-> "insert", save |-> "look",
          subscribe |-> "current"]

Call(call) ==
  /\ togo' = [togo EXCEPT !.calls = @ \ {call}]
  /\ rpc' = Append(rpc, [op |-> call.op, dev |-> call.dev, ms |-> call.ms,
                         pc |-> First[call.op], map |-> NoEntries, alone |-> TRUE])
  /\ asked' = IF call.op \notin Sets THEN asked
              ELSE [asked EXCEPT ![call.dev] =
                      IF \E c \in DOMAIN rpc : rpc[c].op \in Sets /\ rpc[c].dev = call.dev
                      THEN Unset ELSE call.ms]
  /\ UNCHANGED <<delays, watch, handler, inbox, listener, file, warned, kept>>

\* The call goes on at pc, or returns.
Goes(c, pc) == rpc' = [rpc EXCEPT ![c].pc = pc]
Returns(c) == rpc' = [j \in 1 .. Len(rpc) - 1 |-> rpc[IF j < c THEN j ELSE j + 1]]

Insert(c) ==
  /\ rpc[c].pc = "insert"
  /\ delays' = [delays EXCEPT ![rpc[c].dev] = rpc[c].ms]
  /\ Goes(c, "notify")
  /\ UNCHANGED <<watch, handler, inbox, listener, file, warned, kept, asked, togo>>

Notify(c) ==
  /\ rpc[c].pc = "notify"
  /\ Send(rpc[c].dev, rpc[c].ms)
  /\ Goes(c, "message")
  /\ UNCHANGED <<delays, inbox, file, warned, kept, asked, togo>>

\* Mutant: the queue has no bound.
MessageUnbounded(c) ==
  LET d == rpc[c].dev
  IN  /\ rpc[c].pc = "message"
      /\ inbox' = IF handler[d].on THEN [inbox EXCEPT ![d] = Append(@, rpc[c].ms)]
                  ELSE inbox
      /\ IF rpc[c].op = "setsave" THEN Goes(c, "look") ELSE Returns(c)
      /\ UNCHANGED <<delays, watch, handler, listener, file, warned, kept, asked, togo>>

\* A full queue is only logged.
Message(c) ==
  LET d == rpc[c].dev
  IN  /\ rpc[c].pc = "message"
      /\ inbox' = IF handler[d].on /\ Len(inbox[d]) < InboxCap
                  THEN [inbox EXCEPT ![d] = Append(@, rpc[c].ms)] ELSE inbox
      /\ IF rpc[c].op = "setsave" THEN Goes(c, "look") ELSE Returns(c)
      /\ UNCHANGED <<delays, watch, handler, listener, file, warned, kept, asked, togo>>

get_or_default_shot_delay(d) ==
  IF delays[d] # Unset THEN delays[d] ELSE OrZero(Contents(file)[d])

\* The value to save, or the one a new subscription would start its channel with.
Look(c) ==
  /\ rpc[c].pc \in {"look", "current"}
  /\ rpc' = [rpc EXCEPT ![c].ms = get_or_default_shot_delay(rpc[c].dev),
                        ![c].pc = IF @ = "look" THEN "read" ELSE "join"]
  /\ UNCHANGED <<delays, watch, handler, inbox, listener, file, warned, kept,
                 asked, togo>>

Join(c) ==
  LET d == rpc[c].dev
  IN  /\ rpc[c].pc = "join"
      /\ watch' = IF watch[d] = Unset THEN [watch EXCEPT ![d] = rpc[c].ms] ELSE watch
      /\ listener' = [listener EXCEPT ![d] =
                        [rx |-> "open", seen |-> TRUE, told |-> watch'[d]]]
      /\ Returns(c)
      /\ UNCHANGED <<delays, handler, inbox, file, warned, kept, asked, togo>>

\* A save reads the whole file, replaces one entry, truncates and writes.
Saving == {c \in DOMAIN rpc : rpc[c].pc \in {"truncate", "write"}}

ReadFile(c) ==
  /\ rpc[c].pc = "read"
  /\ rpc' = [x \in DOMAIN rpc |->
               IF x = c
               THEN [rpc[c] EXCEPT !.pc = "truncate",
                       !.map = [Contents(file) EXCEPT ![rpc[c].dev] = rpc[c].ms],
                       !.alone = (Saving = {})]
               ELSE [rpc[x] EXCEPT !.alone = @ /\ x \notin Saving]]
  /\ UNCHANGED <<delays, watch, handler, inbox, listener, file, warned, kept,
                 asked, togo>>

Truncate(c) ==
  /\ rpc[c].pc = "truncate"
  /\ file' = Torn
  /\ Goes(c, "write")
  /\ UNCHANGED <<delays, watch, handler, inbox, listener, warned, kept, asked, togo>>

\* What was written since the truncation may stick out behind what is written
\* now.  An error leaves the file as it is.
WriteFile(c, outcome) ==
  /\ rpc[c].pc = "write"
  /\ CASE outcome = "written" -> file' = rpc[c].map
       [] outcome = "mixed"   -> file # Torn /\ file' = Torn
       [] outcome = "error"   -> UNCHANGED file
  /\ kept' = IF outcome = "written" /\ rpc[c].alone
             THEN [kept EXCEPT ![rpc[c].dev] = rpc[c].ms] ELSE NoEntries
  /\ Returns(c)
  /\ UNCHANGED <<delays, watch, handler, inbox, listener, warned, asked, togo>>

CallStep(c) ==
  \/ Insert(c) \/ Notify(c) \/ Message(c)
  \/ Look(c) \/ Join(c) \/ ReadFile(c) \/ Truncate(c)
  \/ \E outcome \in {"written", "mixed", "error"} : WriteFile(c, outcome)

(***************************************************************************)
(* The handler of a device.                                                *)
(***************************************************************************)
HandlerStarts(d) ==
  /\ ~handler[d].on /\ Spend("starts")
  /\ watch' = IF watch[d] = Unset THEN [watch EXCEPT ![d] = OrZero(delays[d])]
              ELSE watch
  /\ handler' = [handler EXCEPT ![d] = [NoHandler EXCEPT !.on = TRUE, !.seen = FALSE]]
  /\ UNCHANGED <<delays, inbox, listener, file, warned, rpc, kept, asked>>

HandlerEnds(d) ==
  /\ handler[d].on /\ handler[d].pc = "idle"
  /\ handler' = [handler EXCEPT ![d] = NoHandler]
  /\ inbox' = [inbox EXCEPT ![d] = << >>]
  /\ UNCHANGED <<delays, watch, listener, file, warned, rpc, kept, asked, togo>>

\* SetShotDelay: the map, then the channel.
TakesMessage(d) ==
  /\ handler[d].pc = "idle" /\ inbox[d] # << >>
  /\ delays' = [delays EXCEPT ![d] = Head(inbox[d])]
  /\ handler' = [handler EXCEPT ![d].pc = "sending", ![d].val = Head(inbox[d])]
  /\ inbox' = [inbox EXCEPT ![d] = Tail(@)]
  /\ UNCHANGED <<watch, listener, file, warned, rpc, kept, asked, togo>>

SendsOn(d) ==
  /\ handler[d].pc = "sending"
  /\ watch' = [watch EXCEPT ![d] = handler[d].val]
  /\ handler' = [handler EXCEPT ![d].pc = "idle", ![d].seen = FALSE]
  /\ listener' = [listener EXCEPT ![d].seen = (@ /\ listener[d].rx = "none")]
  /\ UNCHANGED <<delays, inbox, file, warned, rpc, kept, asked, togo>>

\* The arm of the watch stream, when the queue is empty (the select is biased).
SeesDelay(d) ==
  /\ handler[d].on /\ handler[d].pc = "idle" /\ inbox[d] = << >> /\ ~handler[d].seen
  /\ handler' = [handler EXCEPT ![d].pc = "writing", ![d].val = watch[d],
                                ![d].seen = TRUE]
  /\ UNCHANGED <<delays, watch, inbox, listener, file, warned, rpc, kept, asked, togo>>

\* Mutant: the value is not written back.
DropsDelay(d) ==
  /\ handler[d].pc = "writing"
  /\ handler' = [handler EXCEPT ![d].pc = "idle"]
  /\ UNCHANGED <<delays, watch, inbox, listener, file, warned, rpc, kept, asked, togo>>

WritesDelay(d) ==
  /\ handler[d].pc = "writing"
  /\ delays' = [delays EXCEPT ![d] = handler[d].val]
  /\ handler' = [handler EXCEPT ![d].pc = "idle"]
  /\ UNCHANGED <<watch, inbox, listener, file, warned, rpc, kept, asked, togo>>

HandlerStep(d) == TakesMessage(d) \/ SendsOn(d) \/ SeesDelay(d) \/ WritesDelay(d)

(***************************************************************************)
(* Subscriptions and restarts.                                             *)
(***************************************************************************)
Tells(d) ==
  /\ listener[d].rx # "none" /\ ~listener[d].seen
  /\ listener' = [listener EXCEPT ![d] =
                    IF @.rx = "open" THEN [@ EXCEPT !.seen = TRUE, !.told = watch[d]]
                    ELSE NoListener]
  /\ UNCHANGED <<delays, watch, handler, inbox, file, warned, rpc, kept, asked, togo>>

\* The client is gone; the task notices when it has something to send.
Leaves(d) ==
  /\ listener[d].rx = "open"
  /\ listener' = [listener EXCEPT ![d].rx = "left"]
  /\ UNCHANGED <<delays, watch, handler, inbox, file, warned, rpc, kept, asked, togo>>

\* The process ends, at any step, and starts again.
Restart ==
  /\ Spend("restarts")
  /\ delays' = Contents(file)
  /\ watch' = NoEntries
  /\ handler' = [d \in Devices |-> NoHandler]
  /\ inbox' = [d \in Devices |-> << >>]
  /\ listener' = [d \in Devices |-> NoListener]
  /\ warned' = (file = Torn)
  /\ rpc' = << >>
  /\ kept' = IF file = Torn THEN NoEntries ELSE kept
  /\ asked' = NoEntries
  /\ UNCHANGED file

\* The button of the warning deletes what is at the path now.  Bound: not in
\* the middle of a write.
DeleteFiles ==
  /\ warned /\ \A c \in DOMAIN rpc : rpc[c].pc # "write"
  /\ file' = NoEntries
  /\ warned' = FALSE
  /\ kept' = NoEntries
  /\ UNCHANGED <<delays, watch, handler, inbox, listener, rpc, asked, togo>>

DelayNext ==
  \/ \E call \in togo.calls : Call(call)
  \/ \E c \in DOMAIN rpc : CallStep(c)
  \/ \E d \in Devices : \/ HandlerStarts(d) \/ HandlerEnds(d) \/ HandlerStep(d)
                        \/ Tells(d) \/ Leaves(d)
  \/ Restart \/ DeleteFiles

DelaySpec == DelayInit /\ [][DelayNext]_delayVars

\* Calls, handlers and subscriptions go on; nothing starts or ends by itself.
DelayFairness ==
  /\ WF_delayVars(\E c \in DOMAIN rpc : CallStep(c))
  /\ \A d \in Devices : WF_delayVars(HandlerStep(d)) /\ WF_delayVars(Tells(d))

DelayFairSpec == DelaySpec /\ DelayFairness

(***************************************************************************)
(* Properties.                                                             *)
(***************************************************************************)
Entries == [Devices -> Nat \cup {Unset}]

DelayTypeOK ==
  /\ {delays, watch, kept, asked} \subseteq Entries
  /\ file \in Entries \cup {Torn}
  /\ warned \in BOOLEAN
  /\ \A d \in Devices :
       /\ handler[d] \in [on : BOOLEAN, pc : {"idle", "sending", "writing"},
                          val : Nat, seen : BOOLEAN]
       /\ inbox[d] \in Seq(Nat) /\ Len(inbox[d]) <= InboxCap
       /\ listener[d] \in [rx : {"none", "open", "left"}, seen : BOOLEAN, told : Nat]

\* With a handler, the map and the watch channel (written one after the other
\* at server.rs 183-190 and device_tasks.rs 1773-1781, by several tasks) agree in
\* the end, and who is subscribed has been told that value.
DelaysSettle ==
  \A d \in Devices : <>[](/\ handler[d].on => delays[d] = watch[d]
                          /\ listener[d].rx = "open" => listener[d].told = watch[d])

\* A delay whose save was acknowledged (server.rs 528-529) is in the file until it
\* is saved again, through restarts and saves for other devices, unless two
\* saves overlapped, a write was interrupted, or the user deleted the file.
AckedSaveIsKept ==
  (\A c \in DOMAIN rpc : rpc[c].pc # "write") =>
    \A d \in Devices : kept[d] # Unset => file # Torn /\ file[d] = kept[d]

\* When nothing is under way for a device with a handler, its delay is the one
\* set last ("Apply live in-server state & notify watchers", server.rs 464).
SetIsInForce ==
  \A d \in Devices :
    /\ asked[d] # Unset
    /\ \A c \in DOMAIN rpc : rpc[c].dev # d
    /\ inbox[d] = << >> /\ handler[d].on /\ handler[d].pc = "idle" /\ handler[d].seen
    => delays[d] = asked[d]
=============================================================================
