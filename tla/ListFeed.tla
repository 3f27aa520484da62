------------------------------ MODULE ListFeed ------------------------------
(***************************************************************************)
(* How the device list and the dongle list of the hub reach the desktop    *)
(* app: a task of the hub per subscription (odyssey_hub_server/src/        *)
(* server.rs 77-159), and the app's loop that connects, subscribes and     *)
(* starts over when the event stream ends (odyssey_desktop/src/hub.rs).    *)
(*                                                                         *)
(* A list is its version.  A change notice carries nothing; what is sent   *)
(* is the list as it is when the notice is taken.                          *)
(***************************************************************************)
EXTENDS Integers, Sequences

CONSTANTS
  Lists,       \* "devices", the one the app also asks for, and "dongles"
  NoticeCap,   \* the broadcast channel of a list (12 and 16)
  StreamCap,   \* the channel of a subscription (16)
  FeedLoads    \* bound: [of : the lists that change, changes, faults, drops,
               \* restarts : how often one does, a call of the app fails, the
               \* event stream ends and the hub starts again]

ASSUME ListFeedParameters ==
  /\ "devices" \in Lists /\ Lists \subseteq {"devices", "dongles"}
  /\ {NoticeCap, StreamCap} \subseteq Nat \ {0}

VARIABLES
  list,    \* the lists of the hub
  feed,    \* the subscription the app's task for a list reads
  made,    \* the one a new round of the loop has made
  shown,   \* the lists of the app
  got,     \* the answer of get_device_list
  pc,      \* where the app's loop is
  topic,   \* the list whose subscription its round makes, or makes first
  link,    \* the connection of the last round still leads to the hub
  quota    \* what is left of the load

feedVars == <<list, feed, made, shown, got, pc, topic, link, quota>>

\* srv: the hub's task, which is new, or waits for a notice, waits for room in the stream
\* with what it holds, or has ended; on: the app still reads the stream.
NoFeed  == [srv |-> "off", notices |-> 0, held |-> 0, stream |-> << >>, on |-> FALSE]

FeedInit ==
  /\ list = [k \in Lists |-> 0]
  /\ feed = [k \in Lists |-> NoFeed]
  /\ made = [k \in Lists |-> NoFeed]
  /\ shown = [k \in Lists |-> 0]
  /\ got = 0
  /\ pc = "closed"
  /\ topic = "devices"
  /\ link = FALSE
  /\ quota \in FeedLoads

Take(what) == quota[what] > 0 /\ quota' = [quota EXCEPT ![what] = @ - 1]

(***************************************************************************)
(* The hub.                                                                *)
(***************************************************************************)
\* Mutant: the task subscribes when it runs.
NotifiedInTask(f) == IF f.srv \in {"off", "new"} THEN f ELSE [f EXCEPT !.notices = @ + 1]

Notified(f) == IF f.srv = "off" THEN f ELSE [f EXCEPT !.notices = @ + 1]

Change(k) ==
  /\ k \in quota.of /\ Take("changes")
  /\ list' = [list EXCEPT ![k] = @ + 1]
  /\ feed' = [feed EXCEPT ![k] = Notified(@)]
  /\ made' = [made EXCEPT ![k] = Notified(@)]
  /\ UNCHANGED <<shown, got, pc, topic, link>>

\* A task that is more notices behind than the channel keeps gets Lagged, takes
\* it for the end of the channel and ends.
TakesNotice(f, k) ==
  IF f.notices > NoticeCap THEN [f EXCEPT !.srv = "off"]
  ELSE [f EXCEPT !.notices = @ - 1, !.srv = "send", !.held = list[k]]

Serve(f, k) ==
  IF f.srv = "recv" THEN TakesNotice(f, k)
  ELSE [f EXCEPT !.srv = "recv", !.stream = Append(@, f.held)]

MayServe(f) ==
  \/ f.srv = "recv" /\ f.notices > 0
  \/ f.srv = "send" /\ Len(f.stream) < StreamCap

ServeFeed(k) ==
  /\ MayServe(feed[k])
  /\ feed' = [feed EXCEPT ![k] = Serve(@, k)]
  /\ UNCHANGED <<list, made, shown, got, pc, topic, link, quota>>

ServeMade(k) ==
  /\ MayServe(made[k])
  /\ made' = [made EXCEPT ![k] = Serve(@, k)]
  /\ UNCHANGED <<list, feed, shown, got, pc, topic, link, quota>>

(***************************************************************************)
(* The app's loop.                                                         *)
(***************************************************************************)
\* The round takes a step, a call while the hub is there.
Comes(here, next) == pc = here /\ pc' = next
CallsHub(here, next) ==
  Comes(here, next) /\ link /\ UNCHANGED <<list, feed, shown, link, quota>>

\* The app is opened, if it is.
Opens ==
  /\ Comes("closed", "connect")
  /\ UNCHANGED <<list, feed, made, shown, got, topic, link, quota>>

Connect ==
  /\ Comes("connect", "get")
  /\ link' = TRUE
  /\ UNCHANGED <<list, feed, made, shown, got, topic, quota>>

get_device_list ==
  /\ CallsHub("get", "subscribe")
  /\ got' = list["devices"]
  /\ UNCHANGED <<made, topic>>

\* What the hub does for a subscription: it listens for changes, sends the list
\* as it is, and starts the task.
Subscribe ==
  /\ CallsHub("subscribe", "snapshot")
  /\ made' = [made EXCEPT ![topic] = [NoFeed EXCEPT !.srv = "new", !.on = TRUE]]
  /\ UNCHANGED <<got, topic>>

Snapshot ==
  /\ CallsHub("snapshot", "spawn")
  /\ made' = [made EXCEPT ![topic].stream = <<list[topic]>>]
  /\ UNCHANGED <<got, topic>>

Spawn ==
  /\ \/ topic = "devices" /\ "dongles" \in Lists
        /\ CallsHub("spawn", "subscribe") /\ topic' = "dongles"
     \/ (topic = "dongles" \/ "dongles" \notin Lists)
        /\ CallsHub("spawn", "events") /\ topic' = "devices"
  /\ made' = [made EXCEPT ![topic].srv = "recv"]
  /\ UNCHANGED got

SubscribeEvents ==
  /\ CallsHub("events", "replace")
  /\ UNCHANGED <<made, got, topic>>

replace_devices ==
  /\ Comes("replace", "start")
  /\ shown' = [shown EXCEPT !["devices"] = got]
  /\ UNCHANGED <<list, feed, made, got, topic, link, quota>>

\* The old tasks are aborted and new ones read the new streams.
StartTasks ==
  /\ Comes("start", "running")
  /\ feed' = made
  /\ made' = [k \in Lists |-> NoFeed]
  /\ UNCHANGED <<list, shown, got, topic, link, quota>>

\* A call of the round fails.  get_device_list of the client unwraps its answer:
\* the loop panics instead of trying again.
RoundFails ==
  /\ pc \notin {"replace", "start", "running", "wait", "panicked", "closed"}
  /\ IF ~link /\ pc # "connect" THEN UNCHANGED quota ELSE Take("faults")
  /\ pc' = IF pc = "get" THEN "panicked" ELSE "wait"
  /\ made' = [k \in Lists |-> NoFeed]
  /\ topic' = "devices"
  /\ UNCHANGED <<list, feed, shown, got, link>>

\* Mutant: the loop ends with the event stream.
EventsEndLoop ==
  /\ pc = "running"
  /\ IF link THEN Take("drops") ELSE UNCHANGED quota
  /\ pc' = "ended"
  /\ UNCHANGED <<list, feed, made, shown, got, topic, link>>

\* Of the event stream only its end matters here: its task ends, or the hub is
\* gone.
EventsEnd ==
  /\ pc = "running"
  /\ IF link THEN Take("drops") ELSE UNCHANGED quota
  /\ pc' = "wait"
  /\ UNCHANGED <<list, feed, made, shown, got, topic, link>>

Sleep ==
  /\ Comes("wait", "connect")
  /\ UNCHANGED <<list, feed, made, shown, got, topic, link, quota>>

\* The hub starts again, with other lists; every stream ends with what it has.
HubGone ==
  /\ Take("restarts")
  /\ list' = [k \in Lists |-> list[k] + 1]
  /\ feed' = [k \in Lists |-> [feed[k] EXCEPT !.srv = "off"]]
  /\ made' = [k \in Lists |-> [made[k] EXCEPT !.srv = "off"]]
  /\ link' = FALSE
  /\ UNCHANGED <<shown, got, pc, topic>>

\* A list task takes what its stream has, and ends with it.
ShowList(k) ==
  /\ feed[k].on
  /\ IF feed[k].stream # << >>
     THEN /\ shown' = [shown EXCEPT ![k] = Head(feed[k].stream)]
          /\ feed' = [feed EXCEPT ![k].stream = Tail(@)]
     ELSE /\ feed[k].srv = "off"
          /\ feed' = [feed EXCEPT ![k] = NoFeed]
          /\ UNCHANGED shown
  /\ UNCHANGED <<list, made, got, pc, topic, link, quota>>

Loop == \/ Connect \/ get_device_list \/ Subscribe \/ Snapshot \/ Spawn
        \/ SubscribeEvents \/ replace_devices \/ StartTasks \/ Sleep
        \/ ~link /\ (RoundFails \/ EventsEnd)

FeedNext ==
  \/ Opens \/ Loop \/ RoundFails \/ EventsEnd \/ HubGone
  \/ \E k \in Lists : Change(k) \/ ServeFeed(k) \/ ServeMade(k) \/ ShowList(k)

FeedSpec == FeedInit /\ [][FeedNext]_feedVars

FeedFairness ==
  /\ WF_feedVars(Loop)
  /\ \A k \in Lists : WF_feedVars(ServeFeed(k)) /\ WF_feedVars(ShowList(k))

FeedFairSpec == FeedSpec /\ FeedFairness

(***************************************************************************)
(* Properties.                                                             *)
(***************************************************************************)

\* The newest version on its way from the hub's task to the app, or else what
\* the app shows.
Newest(k) ==
  LET f == feed[k]
  IN  IF f.srv = "send" THEN f.held
      ELSE IF f.stream # << >> THEN f.stream[Len(f.stream)] ELSE shown[k]

\* While the hub serves the stream a list task reads, either a notice is still to
\* be taken or the newest version on its way, or shown, is the list as it is: no
\* change falls between the snapshot a subscription starts with and its first
\* notice (server.rs 83-90), none is lost between two notices, and no reconnection
\* leaves what an older stream said.  In between the app puts the answer it asked
\* for first over the list (hub.rs 115), until the new tasks start.
NoChangeMissed ==
  \A k \in Lists :
    /\ feed[k].on /\ feed[k].srv # "off"
    /\ k = "devices" => pc # "start"
    => feed[k].notices > 0 \/ Newest(k) = list[k]

\* The loop gets back to where it follows the hub, unless it has panicked, and
\* once the lists stop changing the app shows each as it is, as long as the
\* stream of that list has not ended (hub.rs 114-168).
FeedCatchesUp ==
  /\ <>[](pc \in {"closed", "running", "panicked"})
  /\ \A k \in Lists : <>[](feed[k].on => shown[k] = list[k])
=============================================================================
