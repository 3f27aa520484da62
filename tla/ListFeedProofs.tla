--------------------------- MODULE ListFeedProofs ---------------------------
(***************************************************************************)
(* Proofs about ListFeed, for one list or both, any capacities of the      *)
(* channels, and any number of changes, failures, reconnections and        *)
(* restarts of the hub.                                                    *)
(***************************************************************************)
EXTENDS ListFeed, SequenceTheorems, TLAPS

Feed == [srv : {"off", "new", "recv", "send"}, notices : Nat, held : Nat,
         stream : Seq(Nat), on : BOOLEAN]

Stages == {"closed", "connect", "get", "subscribe", "snapshot", "spawn", "events",
           "replace", "start", "running", "wait", "panicked"}

FeedTypes ==
  /\ list \in [Lists -> Nat] /\ shown \in [Lists -> Nat] /\ got \in Nat
  /\ feed \in [Lists -> Feed] /\ made \in [Lists -> Feed]
  /\ pc \in Stages /\ topic \in Lists /\ link \in BOOLEAN

\* A notice is still to be taken, or the newest version that a subscription has,
\* or else the one shown, is this one.
Follows(f, version, showing) ==
  \/ f.notices > 0
  \/ version = IF f.srv = "send" THEN f.held
               ELSE IF f.stream # << >> THEN f.stream[Len(f.stream)] ELSE showing

\* No version: of a subscription that no task reads yet nothing is shown.
Unseen == -1

\* The subscriptions of this round that the hub serves already.
Complete(k) == pc \in {"events", "replace", "start"} \/ (topic # "devices" /\ k = "devices")

\* What the hub serves for a list task is followed.
FeedsFollow ==
  \A k \in Lists :
    /\ feed[k].srv # "new"
    /\ feed[k].on /\ feed[k].srv # "off" /\ (k = "devices" => pc # "start")
         => Follows(feed[k], list[k], shown[k])

\* So is what it serves for the round in progress; a subscription whose task is
\* not started yet collects notices, unless the hub has gone.
RoundFollows ==
  /\ topic # "devices" => pc \in {"subscribe", "snapshot", "spawn"}
  /\ \A k \in Lists : Complete(k) =>
       /\ made[k].srv # "new"
       /\ made[k].srv # "off" => Follows(made[k], list[k], Unseen)
  /\ pc \in {"snapshot", "spawn"} /\ link => made[topic].srv = "new"
  /\ pc = "spawn" /\ link => Follows(made[topic], list[topic], Unseen)

FeedInv == FeedTypes /\ FeedsFollow /\ RoundFollows

(***************************************************************************)
(* The hub's task.                                                         *)
(***************************************************************************)
\* The last element of a sequence with something appended, and of a tail.
LEMMA LastOfAppend ==
  ASSUME NEW s \in Seq(Nat), NEW x \in Nat
  PROVE  /\ Append(s, x) \in Seq(Nat) /\ Append(s, x) # << >>
         /\ Append(s, x)[Len(Append(s, x))] = x
  <1>1. /\ Append(s, x) \in Seq(Nat) /\ Len(Append(s, x)) = Len(s) + 1
        /\ Append(s, x)[Len(s) + 1] = x
    BY AppendProperties
  <1>2. Len(s) \in Nat  BY LenProperties
  <1>3. Len(<< >>) = 0  BY EmptySeq
  <1>4. QED  BY <1>1, <1>2, <1>3

LEMMA LastOfTail ==
  ASSUME NEW s \in Seq(Nat), s # << >>
  PROVE  /\ Tail(s) \in Seq(Nat) /\ Head(s) \in Nat
         /\ s[Len(s)] = IF Tail(s) # << >> THEN Tail(s)[Len(Tail(s))] ELSE Head(s)
  <1>1. /\ Tail(s) \in Seq(Nat) /\ Head(s) \in Nat /\ Len(Tail(s)) = Len(s) - 1
        /\ \A i \in 1 .. Len(Tail(s)) : Tail(s)[i] = s[i + 1]
    BY HeadTailProperties
  <1>2. Len(s) \in Nat \ {0} /\ Head(s) = s[1]
    BY EmptySeq, LenProperties, HeadTailProperties
  <1> DEFINE n == Len(s)
             m == Len(Tail(s))
  <1>3. CASE Tail(s) = << >>
    <2>1. Len(Tail(s)) = 0  BY <1>3, EmptySeq
    <2>2. n = 1
      <3>1. n \in Nat /\ m = 0 /\ m = n - 1  BY <1>1, <1>2, <2>1
      <3> HIDE DEF n, m
      <3>2. QED  BY <3>1
    <2>3. QED  BY <2>2, <1>1, <1>2, <1>3
  <1>4. CASE Tail(s) # << >>
    <2>1. Len(Tail(s)) \in Nat \ {0}  BY <1>1, <1>4, EmptySeq, LenProperties
    <2>2. Tail(s)[Len(Tail(s))] = s[Len(Tail(s)) + 1]  BY <1>1, <2>1
    <2>3. Len(Tail(s)) + 1 = Len(s)  BY <1>1, <1>2, <2>1
    <2>4. QED  BY <2>2, <2>3, <1>1, <1>4
  <1>5. QED  BY <1>3, <1>4

\* What the task of a subscription does (server.rs 94-116) keeps the subscription
\* typed, and followed if it still serves it: between a notice and its list
\* nothing is lost.
LEMMA ServeFollows ==
  ASSUME NEW k \in Lists, NEW f \in Feed, list \in [Lists -> Nat], NEW old,
         MayServe(f)
  PROVE  LET g == Serve(f, k)
         IN  /\ g \in Feed /\ g.srv # "new" /\ g.on = f.on /\ f.srv # "off"
             /\ Follows(f, list[k], old) /\ g.srv # "off" => Follows(g, list[k], old)
  <1> DEFINE g == Serve(f, k)
  <1>1. CASE f.srv = "recv" /\ f.notices > NoticeCap
    <2>1. g = [f EXCEPT !.srv = "off"]  BY <1>1 DEF Serve, TakesNotice
    <2>2. g \in Feed /\ g.srv = "off" /\ g.on = f.on  BY <2>1 DEF Feed
    <2>3. QED  BY <2>2, <1>1
  <1>2. CASE f.srv = "recv" /\ ~(f.notices > NoticeCap)
    <2>1. g = [f EXCEPT !.notices = @ - 1, !.srv = "send", !.held = list[k]]
      BY <1>2 DEF Serve, TakesNotice
    <2>2. f.notices - 1 \in Nat /\ list[k] \in Nat
      <3>1. f.notices > 0  BY <1>2 DEF MayServe
      <3>2. f.notices \in Nat  BY DEF Feed
      <3>3. QED  BY <3>1, <3>2
    <2>3. g \in Feed /\ g.srv = "send" /\ g.held = list[k] /\ g.on = f.on
      BY <2>1, <2>2 DEF Feed
    <2>4. QED  BY <2>3, <1>2 DEF Follows
  <1>3. CASE f.srv # "recv"
    <2>1. f.srv = "send"  BY <1>3 DEF MayServe
    <2>2. g = [f EXCEPT !.srv = "recv", !.stream = Append(@, f.held)]
      BY <1>3 DEF Serve
    <2>3. /\ Append(f.stream, f.held) \in Seq(Nat) /\ Append(f.stream, f.held) # << >>
          /\ Append(f.stream, f.held)[Len(Append(f.stream, f.held))] = f.held
      BY LastOfAppend DEF Feed
    <2>4. /\ g \in Feed /\ g.srv = "recv" /\ g.on = f.on /\ g.notices = f.notices
          /\ g.stream # << >> /\ g.stream[Len(g.stream)] = f.held
      BY <2>2, <2>3 DEF Feed
    <2>5. QED  BY <2>1, <2>4 DEF Follows
  <1>4. QED  BY <1>1, <1>2, <1>3

\* A notice for a subscription the hub serves, or is about to, makes it follow.
LEMMA NotifiedFollows ==
  ASSUME NEW f \in Feed, NEW v, NEW old
  PROVE  /\ Notified(f) \in Feed /\ Notified(f).srv = f.srv /\ Notified(f).on = f.on
         /\ f.srv # "off" => Follows(Notified(f), v, old)
  BY DEF Feed, Notified, Follows

(***************************************************************************)
(* The steps.                                                              *)
(***************************************************************************)
LEMMA FeedInitInv == FeedInit => FeedInv
  <1> SUFFICES ASSUME FeedInit PROVE FeedInv  OBVIOUS
  <1>1. NoFeed \in Feed /\ NoFeed.srv = "off"
    <2>1. << >> \in Seq(Nat)  BY EmptySeq
    <2>2. QED  BY <2>1 DEF NoFeed, Feed
  <1>2. FeedTypes  BY <1>1, ListFeedParameters DEF FeedInit, FeedTypes, Stages
  <1>3. FeedsFollow  BY <1>1 DEF FeedInit, FeedsFollow
  <1>4. RoundFollows  BY DEF FeedInit, RoundFollows, Complete
  <1>5. QED  BY <1>2, <1>3, <1>4 DEF FeedInv

\* A change reaches every subscription that is served or about to be.
LEMMA ChangeStep ==
  ASSUME FeedInv, NEW k \in Lists, Change(k)
  PROVE  FeedInv'
  <1> USE DEF FeedInv, Change
  <1>1. /\ list' = [list EXCEPT ![k] = @ + 1] /\ list' \in [Lists -> Nat]
        /\ feed' = [feed EXCEPT ![k] = Notified(@)] /\ feed' \in [Lists -> Feed]
        /\ made' = [made EXCEPT ![k] = Notified(@)] /\ made' \in [Lists -> Feed]
    <2>1. Notified(feed[k]) \in Feed /\ Notified(made[k]) \in Feed
      BY NotifiedFollows DEF FeedTypes
    <2>2. QED  BY <2>1 DEF FeedTypes
  <1>2. FeedTypes'  BY <1>1 DEF FeedTypes
  <1>3. \A l \in Lists : l # k =>
          feed'[l] = feed[l] /\ made'[l] = made[l] /\ list'[l] = list[l]
    BY <1>1 DEF FeedTypes
  <1>4. /\ feed'[k].srv = feed[k].srv /\ feed'[k].on = feed[k].on
        /\ made'[k].srv = made[k].srv
        /\ feed'[k].srv # "off" => Follows(feed'[k], list'[k], shown[k])
        /\ made'[k].srv # "off" => Follows(made'[k], list'[k], Unseen)
    <2>1. feed'[k] = Notified(feed[k]) /\ made'[k] = Notified(made[k])
      BY <1>1 DEF FeedTypes
    <2>2. feed[k] \in Feed /\ made[k] \in Feed  BY DEF FeedTypes
    <2>3. QED  BY <2>1, <2>2, NotifiedFollows
  <1>5. FeedsFollow'
    <2> SUFFICES ASSUME NEW l \in Lists
                 PROVE  /\ feed'[l].srv # "new"
                        /\ feed'[l].on /\ feed'[l].srv # "off"
                             /\ (l = "devices" => pc # "start")
                             => Follows(feed'[l], list'[l], shown[l])
      BY DEF FeedsFollow, Follows
    <2>1. QED  BY <1>3, <1>4 DEF FeedsFollow
  <1>6. RoundFollows'
    <2>1. \A l \in Lists : Complete(l) =>
            /\ made'[l].srv # "new"
            /\ made'[l].srv # "off" => Follows(made'[l], list'[l], Unseen)
      BY <1>3, <1>4 DEF RoundFollows
    <2>2. pc \in {"snapshot", "spawn"} /\ link => made'[topic].srv = "new"
      BY <1>3, <1>4 DEF RoundFollows, FeedTypes
    <2>3. pc = "spawn" /\ link => Follows(made'[topic], list'[topic], Unseen)
      BY <1>3, <1>4 DEF RoundFollows, FeedTypes
    <2>4. QED  BY <2>1, <2>2, <2>3 DEF RoundFollows, Complete, Follows
  <1>7. QED  BY <1>2, <1>5, <1>6

\* The task of a subscription moves.
LEMMA ServeStep ==
  ASSUME FeedInv, NEW k \in Lists, ServeFeed(k) \/ ServeMade(k)
  PROVE  FeedInv'
  <1> USE DEF FeedInv
  <1>1. CASE ServeFeed(k)
    <2> DEFINE g == Serve(feed[k], k)
    <2>1. feed[k] \in Feed /\ list \in [Lists -> Nat]  BY DEF FeedTypes
    <2>2. /\ g \in Feed /\ g.srv # "new" /\ g.on = feed[k].on /\ feed[k].srv # "off"
          /\ Follows(feed[k], list[k], shown[k]) /\ g.srv # "off"
               => Follows(g, list[k], shown[k])
      BY <1>1, <2>1, ServeFollows DEF ServeFeed
    <2>3. /\ feed' = [feed EXCEPT ![k] = g]
          /\ UNCHANGED <<list, made, shown, got, pc, topic, link, quota>>
      BY <1>1 DEF ServeFeed
    <2> HIDE DEF g
    <2>4. FeedTypes'  BY <2>2, <2>3 DEF FeedTypes
    <2>5. FeedsFollow'
      <3> SUFFICES ASSUME NEW l \in Lists
                   PROVE  /\ feed'[l].srv # "new"
                          /\ feed'[l].on /\ feed'[l].srv # "off"
                               /\ (l = "devices" => pc # "start")
                               => Follows(feed'[l], list[l], shown[l])
        BY <2>3 DEF FeedsFollow, Follows
      <3>1. feed'[l] = IF l = k THEN g ELSE feed[l]  BY <2>3 DEF FeedTypes
      <3>2. QED  BY <2>2, <3>1 DEF FeedsFollow
    <2>6. RoundFollows'  BY <2>3 DEF RoundFollows, Complete, Follows
    <2>7. QED  BY <2>4, <2>5, <2>6
  <1>2. CASE ServeMade(k)
    <2> DEFINE g == Serve(made[k], k)
    <2>1. made[k] \in Feed /\ list \in [Lists -> Nat]  BY DEF FeedTypes
    <2>2. /\ g \in Feed /\ g.srv # "new" /\ made[k].srv # "off"
          /\ Follows(made[k], list[k], Unseen) /\ g.srv # "off"
               => Follows(g, list[k], Unseen)
      BY <1>2, <2>1, ServeFollows DEF ServeMade
    <2>3. /\ made' = [made EXCEPT ![k] = g]
          /\ UNCHANGED <<list, feed, shown, got, pc, topic, link, quota>>
      BY <1>2 DEF ServeMade
    <2>4. made[k].srv # "new"  BY <1>2 DEF ServeMade, MayServe
    <2> HIDE DEF g
    <2>5. FeedTypes'  BY <2>2, <2>3 DEF FeedTypes
    <2>6. FeedsFollow'  BY <2>3 DEF FeedsFollow, Follows
    <2>7. \A l \in Lists : made'[l] = IF l = k THEN g ELSE made[l]
      BY <2>3 DEF FeedTypes
    <2>8. \A l \in Lists : Complete(l) =>
            /\ made'[l].srv # "new"
            /\ made'[l].srv # "off" => Follows(made'[l], list[l], Unseen)
      BY <2>2, <2>7 DEF RoundFollows
    <2>9. pc \in {"snapshot", "spawn"} /\ link => made'[topic] = made[topic]
      BY <2>4, <2>7 DEF RoundFollows, FeedTypes
    <2>10. RoundFollows'
      BY <2>3, <2>8, <2>9 DEF RoundFollows, Complete, Follows
    <2>11. QED  BY <2>5, <2>6, <2>10
  <1>3. QED  BY <1>1, <1>2

\* A list task takes what its stream has, or ends with it.
LEMMA ShowStep ==
  ASSUME FeedInv, NEW k \in Lists, ShowList(k)
  PROVE  FeedInv'
  <1> USE DEF FeedInv
  <1>1. UNCHANGED <<list, made, got, pc, topic, link, quota>>  BY DEF ShowList
  <1>2. RoundFollows'  BY <1>1 DEF RoundFollows, Complete, Follows
  <1>3. feed[k] \in Feed  BY DEF FeedTypes
  <1>4. CASE feed[k].stream # << >>
    <2> DEFINE s == feed[k].stream
               g == [feed[k] EXCEPT !.stream = Tail(s)]
    <2>1. /\ shown' = [shown EXCEPT ![k] = Head(s)]
          /\ feed' = [feed EXCEPT ![k] = g]
      BY <1>4 DEF ShowList
    <2>2. /\ Tail(s) \in Seq(Nat) /\ Head(s) \in Nat
          /\ s[Len(s)] = IF Tail(s) # << >> THEN Tail(s)[Len(Tail(s))] ELSE Head(s)
      BY <1>3, <1>4, LastOfTail DEF Feed
    <2>3. /\ g \in Feed /\ g.srv = feed[k].srv /\ g.on = feed[k].on
          /\ g.notices = feed[k].notices /\ g.held = feed[k].held /\ g.stream = Tail(s)
      BY <1>3, <2>2 DEF Feed
    <2> HIDE DEF g
    <2>4. \A l \in Lists : /\ feed'[l] = IF l = k THEN g ELSE feed[l]
                           /\ shown'[l] = IF l = k THEN Head(s) ELSE shown[l]
      BY <2>1 DEF FeedTypes
    <2>5. FeedTypes'  BY <1>1, <2>1, <2>2, <2>3 DEF FeedTypes
    <2>6. Follows(feed[k], list[k], shown[k]) => Follows(g, list[k], Head(s))
      BY <1>4, <2>2, <2>3 DEF Follows
    <2>7. FeedsFollow'
      <3> SUFFICES ASSUME NEW l \in Lists
                   PROVE  /\ feed'[l].srv # "new"
                          /\ feed'[l].on /\ feed'[l].srv # "off"
                               /\ (l = "devices" => pc # "start")
                               => Follows(feed'[l], list[l], shown'[l])
        BY <1>1 DEF FeedsFollow, Follows
      <3>1. QED  BY <2>3, <2>4, <2>6 DEF FeedsFollow
    <2>8. QED  BY <1>2, <2>5, <2>7
  <1>5. CASE feed[k].stream = << >>
    <2>1. feed' = [feed EXCEPT ![k] = NoFeed] /\ UNCHANGED shown
      BY <1>5 DEF ShowList
    <2>2. NoFeed \in Feed /\ NoFeed.srv = "off"
      BY EmptySeq DEF NoFeed, Feed
    <2>3. FeedTypes'  BY <1>1, <2>1, <2>2 DEF FeedTypes
    <2>4. \A l \in Lists : feed'[l] = IF l = k THEN NoFeed ELSE feed[l]
      BY <2>1 DEF FeedTypes
    <2>5. FeedsFollow'  BY <1>1, <2>1, <2>2, <2>4 DEF FeedsFollow, Follows
    <2>6. QED  BY <1>2, <2>3, <2>5
  <1>6. QED  BY <1>4, <1>5

\* The steps of a round that make a subscription.
LEMMA SubscriptionStep ==
  ASSUME FeedInv, Subscribe \/ Snapshot \/ Spawn
  PROVE  FeedInv'
  <1> USE DEF FeedInv, CallsHub, Comes
  <1>1. /\ UNCHANGED <<list, feed, shown, got, link, quota>> /\ link
        /\ pc \in {"subscribe", "snapshot", "spawn"}
        /\ pc' \in {"subscribe", "snapshot", "spawn", "events"}
    BY DEF Subscribe, Snapshot, Spawn
  <1>2. FeedsFollow'  BY <1>1 DEF FeedsFollow, Follows
  <1>3. made \in [Lists -> Feed] /\ list \in [Lists -> Nat] /\ topic \in Lists
        /\ made[topic] \in Feed
    BY DEF FeedTypes
  <1>4. CASE Subscribe
    <2> DEFINE g == [NoFeed EXCEPT !.srv = "new", !.on = TRUE]
    <2>1. g \in Feed /\ g.srv = "new"  BY EmptySeq DEF NoFeed, Feed
    <2>2. made' = [made EXCEPT ![topic] = g] /\ topic' = topic /\ pc' = "snapshot"
      BY <1>4 DEF Subscribe
    <2> HIDE DEF g
    <2>3. FeedTypes'  BY <1>1, <2>1, <2>2 DEF FeedTypes, Stages
    <2>4. \A l \in Lists : made'[l] = IF l = topic THEN g ELSE made[l]
      BY <1>3, <2>2
    <2>5. RoundFollows'
      BY <1>1, <1>3, <2>1, <2>2, <2>4 DEF RoundFollows, Complete, Follows
    <2>6. QED  BY <1>2, <2>3, <2>5
  <1>5. CASE Snapshot
    <2> DEFINE g == [made[topic] EXCEPT !.stream = <<list[topic]>>]
    <2>1. /\ <<list[topic]>> \in Seq(Nat) /\ <<list[topic]>> # << >>
          /\ <<list[topic]>>[Len(<<list[topic]>>)] = list[topic]
      BY <1>3
    <2>2. /\ g \in Feed /\ g.srv = made[topic].srv /\ g.stream = <<list[topic]>>
      BY <1>3, <2>1 DEF Feed
    <2>3. made' = [made EXCEPT ![topic] = g] /\ topic' = topic /\ pc' = "spawn"
          /\ pc = "snapshot"
      BY <1>5 DEF Snapshot
    <2>4. g.srv = "new"  BY <1>1, <2>2, <2>3 DEF RoundFollows
    <2>5. Follows(g, list[topic], Unseen)  BY <2>1, <2>2, <2>4 DEF Follows
    <2> HIDE DEF g
    <2>6. FeedTypes'  BY <1>1, <2>2, <2>3 DEF FeedTypes, Stages
    <2>7. \A l \in Lists : made'[l] = IF l = topic THEN g ELSE made[l]
      BY <1>3, <2>3
    <2>8. RoundFollows'
      <3>1. Follows(made'[topic'], list'[topic'], Unseen)
        BY <1>1, <1>3, <2>3, <2>5, <2>7
      <3>2. QED
        BY <1>1, <1>3, <2>3, <2>4, <2>7, <3>1 DEF RoundFollows, Complete, Follows
    <2>9. QED  BY <1>2, <2>6, <2>8
  <1>6. CASE Spawn
    <2> DEFINE g == [made[topic] EXCEPT !.srv = "recv"]
    <2>1. made' = [made EXCEPT ![topic] = g] /\ pc = "spawn"
      BY <1>6 DEF Spawn
    <2>2. made[topic].srv = "new" /\ Follows(made[topic], list[topic], Unseen)
      BY <1>1, <2>1 DEF RoundFollows
    <2>3. /\ g \in Feed /\ g.srv = "recv" /\ g.stream = made[topic].stream
          /\ g.notices = made[topic].notices
      BY <1>3 DEF Feed
    <2>4. Follows(g, list[topic], Unseen)  BY <2>2, <2>3 DEF Follows
    <2> HIDE DEF g
    <2>5. topic' \in Lists  BY <1>6, <1>3, ListFeedParameters DEF Spawn
    <2>6. FeedTypes'  BY <1>1, <2>1, <2>3, <2>5 DEF FeedTypes, Stages
    <2>7. \A l \in Lists : made'[l] = IF l = topic THEN g ELSE made[l]
      BY <1>3, <2>1
    <2>8. \A l \in Lists : Complete(l)' => l = topic \/ Complete(l)
      BY <1>3, <1>6, ListFeedParameters DEF Spawn, Complete
    <2>9. /\ topic' # "devices" => pc' = "subscribe"
          /\ pc' \in {"subscribe", "events"}
      BY <1>6 DEF Spawn
    <2>10. \A l \in Lists : Complete(l)' =>
             /\ made'[l].srv # "new"
             /\ made'[l].srv # "off" => Follows(made'[l], list[l], Unseen)
      BY <2>3, <2>4, <2>7, <2>8 DEF RoundFollows
    <2>11. RoundFollows'
      BY <1>1, <2>9, <2>10 DEF RoundFollows, Complete, Follows
    <2>12. QED  BY <1>2, <2>6, <2>11
  <1>7. QED  BY <1>4, <1>5, <1>6

\* The new tasks read what the round has made.
LEMMA StartStep ==
  ASSUME FeedInv, StartTasks
  PROVE  FeedInv'
  <1> USE DEF FeedInv
  <1>1. /\ pc = "start" /\ pc' = "running" /\ feed' = made
        /\ made' = [k \in Lists |-> NoFeed]
        /\ UNCHANGED <<list, shown, got, topic, link, quota>>
    BY DEF StartTasks, Comes
  <1>2. NoFeed \in Feed  BY EmptySeq DEF NoFeed, Feed
  <1>3. FeedTypes'  BY <1>1, <1>2 DEF FeedTypes, Stages
  <1>4. topic = "devices"  BY <1>1 DEF RoundFollows
  <1>5. RoundFollows'  BY <1>1, <1>4 DEF RoundFollows, Complete
  <1>6. FeedsFollow'
    <2> SUFFICES ASSUME NEW k \in Lists
                 PROVE  /\ made[k].srv # "new"
                        /\ made[k].srv # "off" => Follows(made[k], list[k], shown[k])
      BY <1>1 DEF FeedsFollow, Follows
    <2>1. Complete(k)  BY <1>1 DEF Complete
    <2>2. /\ made[k].srv # "new"
          /\ made[k].srv # "off" => Follows(made[k], list[k], Unseen)
      BY <2>1 DEF RoundFollows
    <2>3. list[k] # Unseen  BY DEF FeedTypes, Unseen
    <2>4. QED  BY <2>2, <2>3 DEF Follows
  <1>7. QED  BY <1>3, <1>5, <1>6

\* The other steps leave the subscriptions alone, drop those of the round, or end
\* them all.
LEMMA OtherStep ==
  ASSUME FeedInv,
         \/ Opens \/ Connect \/ get_device_list \/ SubscribeEvents \/ replace_devices
         \/ Sleep \/ RoundFails \/ EventsEnd \/ HubGone
  PROVE  FeedInv'
  <1> USE DEF FeedInv, CallsHub, Comes
  <1>1. CASE Opens \/ Connect \/ get_device_list \/ Sleep \/ EventsEnd
    <2>1. /\ UNCHANGED <<list, feed, made, shown, topic>>
          /\ got' \in Nat /\ link' \in BOOLEAN
          /\ pc \in {"closed", "connect", "get", "wait", "running"}
          /\ pc' \in {"connect", "get", "subscribe", "wait"}
      BY <1>1, ListFeedParameters
      DEF Opens, Connect, get_device_list, Sleep, EventsEnd, FeedTypes
    <2>2. FeedTypes'  BY <2>1 DEF FeedTypes, Stages
    <2>3. FeedsFollow'  BY <2>1 DEF FeedsFollow, Follows
    <2>4. RoundFollows'  BY <2>1 DEF RoundFollows, Complete
    <2>5. QED  BY <2>2, <2>3, <2>4
  <1>2. CASE SubscribeEvents
    <2>1. /\ UNCHANGED <<list, feed, made, shown, got, topic, link>>
          /\ pc = "events" /\ pc' = "replace"
      BY <1>2 DEF SubscribeEvents
    <2>2. FeedTypes'  BY <2>1 DEF FeedTypes, Stages
    <2>3. FeedsFollow'  BY <2>1 DEF FeedsFollow, Follows
    <2>4. RoundFollows'  BY <2>1 DEF RoundFollows, Complete, Follows
    <2>5. QED  BY <2>2, <2>3, <2>4
  <1>3. CASE replace_devices
    <2>1. /\ UNCHANGED <<list, feed, made, got, topic, link>>
          /\ shown' = [shown EXCEPT !["devices"] = got]
          /\ pc = "replace" /\ pc' = "start"
      BY <1>3 DEF replace_devices
    <2>2. FeedTypes'  BY <2>1 DEF FeedTypes, Stages
    <2>3. \A k \in Lists : k # "devices" => shown'[k] = shown[k]
      BY <2>1 DEF FeedTypes
    <2>4. FeedsFollow'  BY <2>1, <2>3 DEF FeedsFollow, Follows
    <2>5. RoundFollows'  BY <2>1 DEF RoundFollows, Complete, Follows
    <2>6. QED  BY <2>2, <2>4, <2>5
  <1>4. CASE RoundFails
    <2>1. /\ UNCHANGED <<list, feed, shown, got, link>>
          /\ made' = [k \in Lists |-> NoFeed] /\ topic' = "devices"
          /\ pc # "start" /\ pc' \in {"wait", "panicked"}
      BY <1>4 DEF RoundFails
    <2>2. NoFeed \in Feed  BY EmptySeq DEF NoFeed, Feed
    <2>3. FeedTypes'  BY <2>1, <2>2, ListFeedParameters DEF FeedTypes, Stages
    <2>4. FeedsFollow'  BY <2>1 DEF FeedsFollow, Follows
    <2>5. RoundFollows'  BY <2>1 DEF RoundFollows, Complete
    <2>6. QED  BY <2>3, <2>4, <2>5
  <1>5. CASE HubGone
    <2>1. /\ list' = [k \in Lists |-> list[k] + 1]
          /\ feed' = [k \in Lists |-> [feed[k] EXCEPT !.srv = "off"]]
          /\ made' = [k \in Lists |-> [made[k] EXCEPT !.srv = "off"]]
          /\ link' = FALSE /\ UNCHANGED <<shown, got, pc, topic>>
      BY <1>5 DEF HubGone
    <2>2. \A f \in Feed : /\ [f EXCEPT !.srv = "off"] \in Feed
                          /\ [f EXCEPT !.srv = "off"].srv = "off"
      BY DEF Feed
    <2>3. FeedTypes'
      <3>1. list' \in [Lists -> Nat]  BY <2>1 DEF FeedTypes
      <3>2. feed' \in [Lists -> Feed] /\ made' \in [Lists -> Feed]
        BY <2>1, <2>2 DEF FeedTypes
      <3>3. QED  BY <2>1, <3>1, <3>2 DEF FeedTypes
    <2>4. \A k \in Lists : feed'[k].srv = "off" /\ made'[k].srv = "off"
      BY <2>1, <2>2 DEF FeedTypes
    <2>5. FeedsFollow'  BY <2>4 DEF FeedsFollow
    <2>6. RoundFollows'  BY <2>1, <2>4 DEF RoundFollows, Complete
    <2>7. QED  BY <2>3, <2>5, <2>6
  <1>6. QED  BY <1>1, <1>2, <1>3, <1>4, <1>5

LEMMA FeedStep == FeedInv /\ [FeedNext]_feedVars => FeedInv'
  <1> SUFFICES ASSUME FeedInv, [FeedNext]_feedVars PROVE FeedInv'  OBVIOUS
  <1>1. CASE \E k \in Lists : Change(k) \/ ServeFeed(k) \/ ServeMade(k) \/ ShowList(k)
    BY <1>1, ChangeStep, ServeStep, ShowStep
  <1>2. CASE Subscribe \/ Snapshot \/ Spawn  BY <1>2, SubscriptionStep
  <1>3. CASE StartTasks  BY <1>3, StartStep
  <1>4. CASE \/ Opens \/ Connect \/ get_device_list \/ SubscribeEvents
             \/ replace_devices \/ Sleep \/ RoundFails \/ EventsEnd \/ HubGone
    BY <1>4, OtherStep
  <1>5. CASE UNCHANGED feedVars
    BY <1>5 DEF FeedInv, FeedTypes, FeedsFollow, RoundFollows, Complete, Follows, feedVars
  <1>6. QED  BY <1>1, <1>2, <1>3, <1>4, <1>5 DEF FeedNext, Loop

\* While the hub serves the stream a list task reads, no version is missing behind
\* what is on its way to the app, in any order of changes, lags, failures of the
\* round, reconnections and restarts of the hub.
THEOREM NoVersionIsLost == FeedSpec => []NoChangeMissed
  <1>1. FeedInv => NoChangeMissed
    <2> SUFFICES ASSUME FeedInv, NEW k \in Lists,
                        feed[k].on, feed[k].srv # "off", k = "devices" => pc # "start"
                 PROVE  feed[k].notices > 0 \/ Newest(k) = list[k]
      BY DEF NoChangeMissed
    <2>1. Follows(feed[k], list[k], shown[k])  BY DEF FeedInv, FeedsFollow
    <2>2. QED  BY <2>1 DEF Follows, Newest
  <1>2. QED  BY <1>1, FeedInitInv, FeedStep, PTL DEF FeedSpec
=============================================================================
