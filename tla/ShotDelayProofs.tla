--------------------------- MODULE ShotDelayProofs ---------------------------
(***************************************************************************)
(* Proofs about ShotDelay, for any devices, any calls made, any number of  *)
(* handlers, subscriptions and restarts, and any size of the queue.        *)
(***************************************************************************)
EXTENDS ShotDelay, SequenceTheorems, TLAPS

(***************************************************************************)
(* Types.                                                                  *)
(***************************************************************************)
HandlerTypes  == [on : BOOLEAN, pc : {"idle", "sending", "writing"}, val : Nat,
                  seen : BOOLEAN]
ListenerTypes == [rx : {"none", "open", "left"}, seen : BOOLEAN, told : Nat]

Steps == {"insert", "notify", "message", "look", "current", "read", "join",
          "truncate", "write"}

CallTypes == [op : {"set", "setsave", "save", "subscribe"}, dev : Devices, ms : Nat,
              pc : Steps, map : Entries, alone : BOOLEAN]

\* Who listens to a channel finds a value in it.
Types ==
  /\ delays \in Entries /\ watch \in Entries /\ kept \in Entries /\ asked \in Entries
  /\ file \in Entries \cup {Torn}
  /\ warned \in BOOLEAN
  /\ handler \in [Devices -> HandlerTypes]
  /\ inbox \in [Devices -> Seq(Nat)]
  /\ \A d \in Devices : Len(inbox[d]) <= InboxCap
  /\ listener \in [Devices -> ListenerTypes]
  /\ \A d \in Devices : Receivers(d) => watch[d] \in Nat
  /\ rpc \in Seq(CallTypes)
  /\ togo \in LoadBounds

LEMMA NoEntriesType == NoEntries \in Entries
  BY DEF NoEntries, Entries

LEMMA ContentsType ==
  ASSUME NEW f \in Entries \cup {Torn}
  PROVE  Contents(f) \in Entries
  BY NoEntriesType DEF Contents

LEMMA EntryType ==
  ASSUME NEW f \in Entries, NEW d \in Devices
  PROVE  OrZero(f[d]) \in Nat
  BY DEF OrZero, Entries

LEMMA SetEntry ==
  ASSUME NEW f \in Entries, NEW d \in Devices, NEW x \in Nat \cup {Unset}
  PROVE  [f EXCEPT ![d] = x] \in Entries
  BY DEF Entries

LEMMA SpendType ==
  ASSUME Types, NEW what \in {"starts", "restarts"}, Spend(what)
  PROVE  togo' \in LoadBounds
  <1>1. togo \in LoadBounds  BY DEF Types
  <1>2. togo[what] > 0 /\ togo' = [togo EXCEPT ![what] = togo[what] - 1]
    BY DEF Spend
  <1>3. togo[what] \in Nat  BY <1>1 DEF LoadBounds
  <1>4. togo[what] - 1 \in Nat  BY <1>2, <1>3
  <1>5. QED  BY <1>1, <1>2, <1>4 DEF LoadBounds

LEMMA TypesImply == Types => DelayTypeOK
  <1> SUFFICES ASSUME Types PROVE DelayTypeOK  OBVIOUS
  <1>1. \A d \in Devices : handler[d] \in HandlerTypes /\ listener[d] \in ListenerTypes
                           /\ inbox[d] \in Seq(Nat) /\ Len(inbox[d]) <= InboxCap
    BY DEF Types
  <1>2. QED  BY <1>1 DEF Types, DelayTypeOK, HandlerTypes, ListenerTypes

LEMMA InitTypes == DelayInit => Types
  <1> SUFFICES ASSUME DelayInit PROVE Types  OBVIOUS
  <1>1. delays \in Entries  BY NoEntriesType, ContentsType DEF DelayInit
  <1>2. /\ handler \in [Devices -> HandlerTypes] /\ listener \in [Devices -> ListenerTypes]
        /\ inbox \in [Devices -> Seq(Nat)] /\ rpc \in Seq(CallTypes)
    BY EmptySeq DEF DelayInit, NoHandler, NoListener, HandlerTypes, ListenerTypes
  <1>3. \A d \in Devices : Len(inbox[d]) <= InboxCap /\ ~Receivers(d)
    BY EmptySeq, ShotDelayParameters DEF DelayInit, NoHandler, NoListener, Receivers
  <1>4. togo \in LoadBounds  BY ShotDelayParameters DEF DelayInit
  <1>5. QED  BY <1>1, <1>2, <1>3, <1>4, NoEntriesType DEF DelayInit, Types

\* The calls in progress when one goes on with r, or returns.
LEMMA OneGoes ==
  ASSUME rpc \in Seq(CallTypes), NEW c \in DOMAIN rpc, NEW r \in CallTypes,
         rpc' = [rpc EXCEPT ![c] = r]
  PROVE  /\ rpc' \in Seq(CallTypes) /\ DOMAIN rpc' = DOMAIN rpc /\ rpc'[c] = r
         /\ \A x \in DOMAIN rpc : x # c => rpc'[x] = rpc[x]
  BY ExceptSeq, LenProperties

From(j, c) == IF j < c THEN j ELSE j + 1

LEMMA OneReturns ==
  ASSUME rpc \in Seq(CallTypes), NEW c \in DOMAIN rpc, Returns(c)
  PROVE  /\ rpc' \in Seq(CallTypes)
         /\ \A j \in DOMAIN rpc' : From(j, c) \in DOMAIN rpc \ {c}
                                   /\ rpc'[j] = rpc[From(j, c)]
         /\ \A i, j \in DOMAIN rpc' : From(i, c) = From(j, c) => i = j
         /\ \A k \in DOMAIN rpc \ {c} : \E j \in DOMAIN rpc' : From(j, c) = k
  <1> DEFINE n == Len(rpc)
  <1>1. n \in Nat /\ DOMAIN rpc = 1 .. n  BY LenProperties
  <1>2. rpc' = [j \in 1 .. n - 1 |-> rpc[From(j, c)]] /\ n - 1 \in Nat
    BY <1>1 DEF Returns, From
  <1>3. \A j \in 1 .. n - 1 : From(j, c) \in 1 .. n /\ From(j, c) # c
    BY <1>1 DEF From
  <1>4. \A j \in 1 .. n - 1 : rpc[From(j, c)] \in CallTypes
    BY <1>3, ElementOfSeq
  <1>5. rpc' \in Seq(CallTypes) /\ Len(rpc') = n - 1
    BY <1>2, <1>4, IsASeq, LenProperties
  <1>6. DOMAIN rpc' = 1 .. n - 1  BY <1>5, LenProperties
  <1>7. \A i, j \in 1 .. n - 1 : From(i, c) = From(j, c) => i = j
    BY <1>1 DEF From
  <1>8. ASSUME NEW k \in 1 .. n, k # c
        PROVE  \E j \in 1 .. n - 1 : From(j, c) = k
    <2>1. CASE k < c  BY <1>1, <1>8, <2>1 DEF From
    <2>2. CASE k > c
      <3>1. k - 1 \in 1 .. n - 1 /\ From(k - 1, c) = k  BY <1>1, <1>8, <2>2 DEF From
      <3>2. QED  BY <3>1
    <2>3. QED  BY <1>1, <1>8, <2>1, <2>2
  <1>9. QED  BY <1>1, <1>2, <1>3, <1>5, <1>6, <1>7, <1>8

LEMMA GoesOn ==
  ASSUME Types, NEW c \in DOMAIN rpc, NEW pc \in Steps, Goes(c, pc)
  PROVE  /\ rpc' \in Seq(CallTypes) /\ DOMAIN rpc' = DOMAIN rpc
         /\ rpc'[c] = [rpc[c] EXCEPT !.pc = pc]
         /\ \A x \in DOMAIN rpc : x # c => rpc'[x] = rpc[x]
  <1>1. rpc \in Seq(CallTypes)  BY DEF Types
  <1>2. rpc[c] \in CallTypes  BY <1>1, ElementOfSeq, LenProperties
  <1>3. [rpc[c] EXCEPT !.pc = pc] \in CallTypes  BY <1>2 DEF CallTypes
  <1>4. rpc' = [rpc EXCEPT ![c] = [rpc[c] EXCEPT !.pc = pc]]  BY <1>1 DEF Goes
  <1>5. QED  BY <1>1, <1>3, <1>4, OneGoes

\* A send to a channel someone listens to leaves a value in it.
LEMMA SendTyped ==
  ASSUME Types, NEW d \in Devices, NEW ms \in Nat, Send(d, ms)
  PROVE  /\ watch' \in Entries /\ handler' \in [Devices -> HandlerTypes]
         /\ listener' \in [Devices -> ListenerTypes]
         /\ \A x \in Devices : Receivers(x)' => watch'[x] \in Nat
  <1>1. CASE watch[d] = Unset \/ Receivers(d)
    <2>1. watch' = [watch EXCEPT ![d] = ms] /\ Unseen(d)  BY <1>1 DEF Send
    <2>2. watch' \in Entries  BY <2>1 DEF Types, Entries
    <2>3. handler' \in [Devices -> HandlerTypes]
      BY <2>1 DEF Types, Unseen, HandlerTypes
    <2>4. listener' \in [Devices -> ListenerTypes]
      BY <2>1 DEF Types, Unseen, ListenerTypes
    <2>5. \A x \in Devices : x # d => handler'[x] = handler[x] /\ listener'[x] = listener[x]
                                      /\ watch'[x] = watch[x]
      BY <2>1 DEF Types, Unseen, Entries
    <2>6. watch'[d] = ms  BY <2>1 DEF Types, Entries
    <2>7. QED  BY <2>2, <2>3, <2>4, <2>5, <2>6 DEF Types, Receivers
  <1>2. CASE ~(watch[d] = Unset \/ Receivers(d))
    BY <1>2 DEF Send, Types, Receivers
  <1>3. QED  BY <1>1, <1>2

LEMMA CallTyped ==
  ASSUME Types, NEW call \in togo.calls, Call(call)
  PROVE  Types'
  <1> DEFINE new == [op |-> call.op, dev |-> call.dev, ms |-> call.ms,
                     pc |-> First[call.op], map |-> NoEntries, alone |-> TRUE]
  <1>1. call \in Calls /\ togo \in LoadBounds  BY DEF Types, LoadBounds
  <1>2. new \in CallTypes
    BY <1>1, NoEntriesType DEF Calls, CallTypes, First, Steps
  <1>3. rpc' = Append(rpc, new)  BY DEF Call
  <1> HIDE DEF new
  <1>4. rpc' \in Seq(CallTypes)  BY <1>2, <1>3, AppendProperties DEF Types
  <1>5. togo' \in LoadBounds
    <2>1. togo' = [togo EXCEPT !.calls = @ \ {call}]  BY DEF Call
    <2>2. QED  BY <1>1, <2>1 DEF LoadBounds
  <1>6. asked' \in Entries
    <2>1. asked' = asked \/ \E x \in {Unset, call.ms} : asked' = [asked EXCEPT ![call.dev] = x]
      BY DEF Call
    <2>2. call.dev \in Devices /\ call.ms \in Nat  BY <1>1 DEF Calls
    <2>3. \A x \in {Unset, call.ms} : [asked EXCEPT ![call.dev] = x] \in Entries
      BY <2>2, SetEntry DEF Types
    <2>4. QED  BY <2>1, <2>3 DEF Types
  <1>7. UNCHANGED <<delays, watch, handler, inbox, listener, file, warned, kept>>
    BY DEF Call
  <1>8. QED  BY <1>4, <1>5, <1>6, <1>7 DEF Types, Receivers

\* A step of a call of set_shot_delay, reset_shot_delay, save_shot_delay,
\* get_shot_delay or subscribe_shot_delay (server.rs 169-210, 383-530).
LEMMA StepTyped ==
  ASSUME Types, NEW c \in DOMAIN rpc, CallStep(c)
  PROVE  Types'
  <1> DEFINE r == rpc[c]
  <1>1. rpc \in Seq(CallTypes) /\ DOMAIN rpc = 1 .. Len(rpc)
    BY LenProperties DEF Types
  <1>2. r \in CallTypes  BY <1>1, ElementOfSeq
  <1>3. r.dev \in Devices /\ r.ms \in Nat /\ r.map \in Entries
    BY <1>2 DEF CallTypes
  <1>4. CASE Insert(c)
    <2>1. rpc' \in Seq(CallTypes)  BY <1>4, GoesOn DEF Insert, Steps
    <2>2. delays' \in Entries  BY <1>3, <1>4, SetEntry DEF Insert, Types
    <2>3. QED  BY <1>4, <2>1, <2>2 DEF Insert, Types, Receivers
  <1>5. CASE Notify(c)
    <2>1. rpc' \in Seq(CallTypes)  BY <1>5, GoesOn DEF Notify, Steps
    <2>2. /\ watch' \in Entries /\ handler' \in [Devices -> HandlerTypes]
          /\ listener' \in [Devices -> ListenerTypes]
          /\ \A x \in Devices : Receivers(x)' => watch'[x] \in Nat
      BY <1>3, <1>5, SendTyped DEF Notify
    <2>3. UNCHANGED <<delays, inbox, file, warned, kept, asked, togo>>
      BY <1>5 DEF Notify
    <2>4. QED  BY <2>1, <2>2, <2>3 DEF Types
  <1>6. CASE Message(c)
    <2>1. rpc' \in Seq(CallTypes)
      <3>1. Goes(c, "look") \/ Returns(c)  BY <1>6 DEF Message
      <3>2. QED  BY <1>1, <3>1, GoesOn, OneReturns DEF Steps
    <2>2. /\ inbox' \in [Devices -> Seq(Nat)]
          /\ \A d \in Devices : Len(inbox'[d]) <= InboxCap
      <3> DEFINE d == r.dev
      <3>1. CASE handler[d].on /\ Len(inbox[d]) < InboxCap
        <4>1. inbox' = [inbox EXCEPT ![d] = Append(inbox[d], r.ms)]
          BY <1>6, <3>1 DEF Message
        <4>2. inbox[d] \in Seq(Nat)  BY <1>3 DEF Types
        <4>3. /\ Append(inbox[d], r.ms) \in Seq(Nat)
              /\ Len(Append(inbox[d], r.ms)) = Len(inbox[d]) + 1
          BY <1>3, <4>2, AppendProperties
        <4>4. Len(inbox[d]) + 1 <= InboxCap
          BY <3>1, <4>2, LenProperties, ShotDelayParameters
        <4>5. \A x \in Devices : inbox'[x] = IF x = d THEN Append(inbox[d], r.ms)
                                             ELSE inbox[x]
          BY <1>3, <4>1 DEF Types
        <4>6. inbox' \in [Devices -> Seq(Nat)]
          BY <4>1, <4>3 DEF Types
        <4>7. QED  BY <4>3, <4>4, <4>5, <4>6 DEF Types
      <3>2. CASE ~(handler[d].on /\ Len(inbox[d]) < InboxCap)
        BY <1>6, <3>2 DEF Message, Types
      <3>3. QED  BY <3>1, <3>2
    <2>3. UNCHANGED <<delays, watch, handler, listener, file, warned, kept, asked, togo>>
      BY <1>6 DEF Message
    <2>4. QED  BY <2>1, <2>2, <2>3 DEF Types, Receivers
  <1>7. CASE Look(c)
    <2> DEFINE ms == get_or_default_shot_delay(r.dev)
               pc == IF r.pc = "look" THEN "read" ELSE "join"
               new == [r EXCEPT !.ms = ms, !.pc = pc]
    <2>1. ms \in Nat
      <3>1. delays[r.dev] \in Nat \cup {Unset} /\ Contents(file) \in Entries
        BY <1>3, ContentsType DEF Types, Entries
      <3>2. QED  BY <1>3, <3>1, EntryType DEF get_or_default_shot_delay
    <2> HIDE DEF ms
    <2>2. new \in CallTypes  BY <1>2, <2>1 DEF CallTypes, Steps
    <2>3. rpc' = [rpc EXCEPT ![c] = new]  BY <1>1, <1>7 DEF Look, ms
    <2>4. rpc' \in Seq(CallTypes)  BY <1>1, <2>2, <2>3, OneGoes
    <2>5. QED  BY <1>7, <2>4 DEF Look, Types, Receivers
  <1>8. CASE Join(c)
    <2> DEFINE d == r.dev
    <2>1. rpc' \in Seq(CallTypes)  BY <1>1, <1>8, OneReturns DEF Join
    <2>2. watch' \in Entries /\ watch'[d] \in Nat
          /\ \A x \in Devices : x # d => watch'[x] = watch[x]
      BY <1>3, <1>8 DEF Join, Types, Entries
    <2>3. listener' = [listener EXCEPT ![d] =
                         [rx |-> "open", seen |-> TRUE, told |-> watch'[d]]]
      BY <1>8 DEF Join
    <2>4. listener' \in [Devices -> ListenerTypes]
      BY <1>3, <2>2, <2>3 DEF Types, ListenerTypes
    <2>5. \A x \in Devices : x # d => listener'[x] = listener[x]
      BY <2>3 DEF Types
    <2>6. UNCHANGED <<delays, handler, inbox, file, warned, kept, asked, togo>>
      BY <1>8 DEF Join
    <2>7. QED  BY <2>1, <2>2, <2>4, <2>5, <2>6 DEF Types, Receivers
  <1>9. CASE ReadFile(c)
    <2> DEFINE map == [Contents(file) EXCEPT ![r.dev] = r.ms]
    <2>1. map \in Entries  BY <1>3, SetEntry, ContentsType DEF Types
    <2>2. rpc' \in Seq(CallTypes)
      <3>1. \A x \in 1 .. Len(rpc) : rpc[x] \in CallTypes  BY <1>1, ElementOfSeq
      <3> DEFINE new == [r EXCEPT !.pc = "truncate", !.map = map, !.alone = (Saving = {})]
      <3>2. new \in CallTypes  BY <1>2, <2>1 DEF CallTypes, Steps
      <3> DEFINE old(x) == [rpc[x] EXCEPT !.alone = @ /\ x \notin Saving]
      <3>3. \A x \in 1 .. Len(rpc) : old(x) \in CallTypes  BY <3>1 DEF CallTypes
      <3>4. rpc' = [x \in 1 .. Len(rpc) |-> IF x = c THEN new ELSE old(x)]
        BY <1>1, <1>9 DEF ReadFile
      <3> HIDE DEF new, old
      <3>5. QED  BY <1>1, <3>2, <3>3, <3>4, IsASeq, LenProperties
    <2>3. QED  BY <1>9, <2>2 DEF ReadFile, Types, Receivers
  <1>10. CASE Truncate(c)
    <2>1. rpc' \in Seq(CallTypes)  BY <1>10, GoesOn DEF Truncate, Steps
    <2>2. QED  BY <1>10, <2>1 DEF Truncate, Types, Receivers
  <1>11. ASSUME NEW outcome \in {"written", "mixed", "error"}, WriteFile(c, outcome)
         PROVE  Types'
    <2>1. rpc' \in Seq(CallTypes)  BY <1>1, <1>11, OneReturns DEF WriteFile
    <2>2. file' \in Entries \cup {Torn}
      BY <1>3, <1>11 DEF WriteFile, Types
    <2>3. kept' \in Entries
      <3>1. kept' = NoEntries \/ kept' = [kept EXCEPT ![r.dev] = r.ms]
        BY <1>11 DEF WriteFile
      <3>2. QED  BY <1>3, <3>1, SetEntry, NoEntriesType DEF Types
    <2>4. UNCHANGED <<delays, watch, handler, inbox, listener, warned, asked, togo>>
      BY <1>11 DEF WriteFile
    <2>5. QED  BY <2>1, <2>2, <2>3, <2>4 DEF Types, Receivers
  <1>12. QED
    BY <1>4, <1>5, <1>6, <1>7, <1>8, <1>9, <1>10, <1>11 DEF CallStep

\* A step of a handler (device_tasks.rs 1546-1570, 1767-1783, 2447-2457), of a
\* subscription, or of the hub as a whole.
LEMMA HandlerTyped ==
  ASSUME Types, NEW d \in Devices,
         HandlerStarts(d) \/ HandlerEnds(d) \/ HandlerStep(d)
  PROVE  Types'
  <1>1. handler[d] \in HandlerTypes /\ listener[d] \in ListenerTypes /\ inbox[d] \in Seq(Nat)
    BY DEF Types
  <1>2. CASE HandlerStarts(d)
    <2>1. watch' \in Entries /\ watch'[d] \in Nat
          /\ \A x \in Devices : x # d => watch'[x] = watch[x]
      <3>1. OrZero(delays[d]) \in Nat  BY EntryType DEF Types
      <3>2. watch[d] \in Nat \cup {Unset}  BY DEF Types, Entries
      <3>3. watch' = watch \/ watch' = [watch EXCEPT ![d] = OrZero(delays[d])]
        BY <1>2 DEF HandlerStarts
      <3>4. CASE watch[d] = Unset
        <4>1. watch' = [watch EXCEPT ![d] = OrZero(delays[d])]
          BY <1>2, <3>4 DEF HandlerStarts
        <4>2. QED  BY <3>1, <4>1 DEF Types, Entries
      <3>5. CASE watch[d] # Unset
        BY <1>2, <3>2, <3>5 DEF HandlerStarts, Types
      <3>6. QED  BY <3>4, <3>5
    <2>2. handler' = [handler EXCEPT ![d] = [NoHandler EXCEPT !.on = TRUE, !.seen = FALSE]]
      BY <1>2 DEF HandlerStarts
    <2>3. handler' \in [Devices -> HandlerTypes]
          /\ \A x \in Devices : x # d => handler'[x] = handler[x]
      BY <2>2 DEF Types, NoHandler, HandlerTypes
    <2>4. togo' \in LoadBounds  BY <1>2, SpendType DEF HandlerStarts
    <2>5. UNCHANGED <<delays, inbox, listener, file, warned, rpc, kept, asked>>
      BY <1>2 DEF HandlerStarts
    <2>6. QED  BY <2>1, <2>3, <2>4, <2>5 DEF Types, Receivers
  <1>3. CASE HandlerEnds(d)
    <2>1. handler' \in [Devices -> HandlerTypes]
          /\ handler'[d].on = FALSE
          /\ \A x \in Devices : x # d => handler'[x] = handler[x]
      BY <1>3 DEF HandlerEnds, Types, NoHandler, HandlerTypes
    <2>2. inbox' \in [Devices -> Seq(Nat)] /\ \A x \in Devices : Len(inbox'[x]) <= InboxCap
      BY <1>3, EmptySeq, ShotDelayParameters DEF HandlerEnds, Types
    <2>3. UNCHANGED <<delays, watch, listener, file, warned, rpc, kept, asked, togo>>
      BY <1>3 DEF HandlerEnds
    <2>4. QED  BY <2>1, <2>2, <2>3 DEF Types, Receivers
  <1>4. CASE TakesMessage(d)
    <2>1. /\ Head(inbox[d]) \in Nat /\ Tail(inbox[d]) \in Seq(Nat)
          /\ Len(Tail(inbox[d])) = Len(inbox[d]) - 1
      BY <1>1, <1>4, HeadTailProperties DEF TakesMessage
    <2>2. delays' \in Entries  BY <1>4, <2>1, SetEntry DEF TakesMessage, Types
    <2>3. handler' \in [Devices -> HandlerTypes]
          /\ \A x \in Devices : handler'[x].on = handler[x].on
      BY <1>4, <2>1 DEF TakesMessage, Types, HandlerTypes
    <2>4. inbox' = [inbox EXCEPT ![d] = Tail(inbox[d])]  BY <1>4 DEF TakesMessage
    <2>5. inbox' \in [Devices -> Seq(Nat)] /\ \A x \in Devices : Len(inbox'[x]) <= InboxCap
      <3>1. Len(inbox[d]) <= InboxCap /\ Len(inbox[d]) \in Nat
        BY <1>1, LenProperties DEF Types
      <3>2. Len(Tail(inbox[d])) <= InboxCap  BY <2>1, <3>1, ShotDelayParameters
      <3>3. \A x \in Devices : inbox'[x] = IF x = d THEN Tail(inbox[d]) ELSE inbox[x]
        BY <2>4 DEF Types
      <3>4. inbox' \in [Devices -> Seq(Nat)]  BY <2>1, <2>4 DEF Types
      <3>5. QED  BY <3>2, <3>3, <3>4 DEF Types
    <2>6. UNCHANGED <<watch, listener, file, warned, rpc, kept, asked, togo>>
      BY <1>4 DEF TakesMessage
    <2>7. QED  BY <2>2, <2>3, <2>5, <2>6 DEF Types, Receivers
  <1>5. CASE SendsOn(d)
    <2>1. handler[d].val \in Nat  BY <1>1 DEF HandlerTypes
    <2>2. watch' \in Entries /\ watch'[d] \in Nat
          /\ \A x \in Devices : x # d => watch'[x] = watch[x]
      BY <1>5, <2>1 DEF SendsOn, Types, Entries
    <2>3. handler' \in [Devices -> HandlerTypes]
          /\ \A x \in Devices : handler'[x].on = handler[x].on
      BY <1>5 DEF SendsOn, Types, HandlerTypes
    <2>4. listener' \in [Devices -> ListenerTypes]
          /\ \A x \in Devices : listener'[x].rx = listener[x].rx
      BY <1>5 DEF SendsOn, Types, ListenerTypes
    <2>5. UNCHANGED <<delays, inbox, file, warned, rpc, kept, asked, togo>>
      BY <1>5 DEF SendsOn
    <2>6. QED  BY <2>2, <2>3, <2>4, <2>5 DEF Types, Receivers
  <1>6. CASE SeesDelay(d)
    <2>1. watch[d] \in Nat  BY <1>6 DEF SeesDelay, Types, Receivers
    <2>2. handler' \in [Devices -> HandlerTypes]
          /\ \A x \in Devices : handler'[x].on = handler[x].on
      BY <1>6, <2>1 DEF SeesDelay, Types, HandlerTypes
    <2>3. UNCHANGED <<delays, watch, inbox, listener, file, warned, rpc, kept, asked, togo>>
      BY <1>6 DEF SeesDelay
    <2>4. QED  BY <2>2, <2>3 DEF Types, Receivers
  <1>7. CASE WritesDelay(d)
    <2>1. handler[d].val \in Nat  BY <1>1 DEF HandlerTypes
    <2>2. delays' \in Entries  BY <1>7, <2>1, SetEntry DEF WritesDelay, Types
    <2>3. handler' \in [Devices -> HandlerTypes]
          /\ \A x \in Devices : handler'[x].on = handler[x].on
      BY <1>7 DEF WritesDelay, Types, HandlerTypes
    <2>4. UNCHANGED <<watch, inbox, listener, file, warned, rpc, kept, asked, togo>>
      BY <1>7 DEF WritesDelay
    <2>5. QED  BY <2>2, <2>3, <2>4 DEF Types, Receivers
  <1>8. QED  BY <1>2, <1>3, <1>4, <1>5, <1>6, <1>7 DEF HandlerStep

LEMMA ListenerTyped ==
  ASSUME Types, NEW d \in Devices, Tells(d) \/ Leaves(d)
  PROVE  Types'
  <1>1. CASE Tells(d)
    <2>1. watch[d] \in Nat  BY <1>1 DEF Tells, Types, Receivers
    <2>2. listener' \in [Devices -> ListenerTypes]
          /\ \A x \in Devices : listener'[x].rx # "none" => listener[x].rx # "none"
      BY <1>1, <2>1 DEF Tells, Types, ListenerTypes, NoListener
    <2>3. UNCHANGED <<delays, watch, handler, inbox, file, warned, rpc, kept, asked, togo>>
      BY <1>1 DEF Tells
    <2>4. QED  BY <2>2, <2>3 DEF Types, Receivers
  <1>2. CASE Leaves(d)
    <2>1. listener' \in [Devices -> ListenerTypes]
          /\ \A x \in Devices : listener'[x].rx # "none" => listener[x].rx # "none"
      BY <1>2 DEF Leaves, Types, ListenerTypes
    <2>2. UNCHANGED <<delays, watch, handler, inbox, file, warned, rpc, kept, asked, togo>>
      BY <1>2 DEF Leaves
    <2>3. QED  BY <2>1, <2>2 DEF Types, Receivers
  <1>3. QED  BY <1>1, <1>2

LEMMA HubTyped ==
  ASSUME Types, Restart \/ DeleteFiles
  PROVE  Types'
  <1>1. CASE Restart
    <2>1. delays' \in Entries /\ watch' \in Entries /\ kept' \in Entries /\ asked' \in Entries
      BY <1>1, NoEntriesType, ContentsType DEF Restart, Types
    <2>2. /\ handler' \in [Devices -> HandlerTypes]
          /\ listener' \in [Devices -> ListenerTypes]
          /\ inbox' \in [Devices -> Seq(Nat)] /\ rpc' \in Seq(CallTypes)
      BY <1>1, EmptySeq DEF Restart, NoHandler, NoListener, HandlerTypes, ListenerTypes
    <2>3. \A x \in Devices : Len(inbox'[x]) <= InboxCap /\ ~Receivers(x)'
      BY <1>1, EmptySeq, ShotDelayParameters DEF Restart, NoHandler, NoListener, Receivers
    <2>4. togo' \in LoadBounds  BY <1>1, SpendType DEF Restart
    <2>5. file' \in Entries \cup {Torn} /\ warned' \in BOOLEAN
      BY <1>1 DEF Restart, Types
    <2>6. QED  BY <2>1, <2>2, <2>3, <2>4, <2>5 DEF Types
  <1>2. CASE DeleteFiles
    BY <1>2, NoEntriesType DEF DeleteFiles, Types, Receivers
  <1>3. QED  BY <1>1, <1>2

LEMMA NextTypes == Types /\ [DelayNext]_delayVars => Types'
  <1> SUFFICES ASSUME Types, [DelayNext]_delayVars PROVE Types'  OBVIOUS
  <1>1. CASE UNCHANGED delayVars  BY <1>1 DEF delayVars, Types, Receivers
  <1>2. ASSUME NEW call \in togo.calls, Call(call) PROVE Types'  BY <1>2, CallTyped
  <1>3. ASSUME NEW c \in DOMAIN rpc, CallStep(c) PROVE Types'  BY <1>3, StepTyped
  <1>4. ASSUME NEW d \in Devices,
               HandlerStarts(d) \/ HandlerEnds(d) \/ HandlerStep(d)
        PROVE  Types'
    BY <1>4, HandlerTyped
  <1>5. ASSUME NEW d \in Devices, Tells(d) \/ Leaves(d) PROVE Types'
    BY <1>5, ListenerTyped
  <1>6. CASE Restart \/ DeleteFiles  BY <1>6, HubTyped
  <1>7. QED  BY <1>1, <1>2, <1>3, <1>4, <1>5, <1>6 DEF DelayNext

\* Delays, queues and calls stay what they are: a channel someone listens to has a
\* value (server.rs 190-210, device_tasks.rs 1546-1570), and the queue of a handler
\* its bound.
THEOREM DelaysTyped == DelaySpec => []DelayTypeOK
  BY InitTypes, NextTypes, TypesImply, PTL DEF DelaySpec

(***************************************************************************)
(* What a save that was acknowledged wrote stays in the file.              *)
(***************************************************************************)
\* A save that overlaps no other has read the file as it must be.
AloneIsRight ==
  \A c \in Saving : rpc[c].alone =>
    /\ Saving = {c}
    /\ rpc[c].map[rpc[c].dev] = rpc[c].ms
    /\ \A d \in Devices \ {rpc[c].dev} : kept[d] # Unset => rpc[c].map[d] = kept[d]

\* Between truncation and write the file does not parse, or another save has
\* written, which then overlapped.
Writing == \E c \in DOMAIN rpc : rpc[c].pc = "write"

HalfWritten == Writing => file = Torn \/ kept = NoEntries

Saves == AloneIsRight /\ HalfWritten /\ AckedSaveIsKept

\* With nothing to keep there is nothing to lose.
LEMMA NothingKept ==
  ASSUME NEW d \in Devices
  PROVE  NoEntries[d] = Unset
  BY DEF NoEntries

\* Saves that go on as they were, whatever else the calls do.
LEMMA SavesGoOn ==
  ASSUME Saves, UNCHANGED <<file, kept>>, NEW g \in [Saving' -> Saving],
         \A x \in Saving' : rpc'[x] = rpc[g[x]],
         \A x, y \in Saving' : g[x] = g[y] => x = y,
         Writing => Writing'
  PROVE  Saves'
  <1>1. AloneIsRight'
    <2> SUFFICES ASSUME NEW c \in Saving', rpc'[c].alone
                 PROVE  /\ Saving' = {c}
                        /\ rpc'[c].map[rpc'[c].dev] = rpc'[c].ms
                        /\ \A d \in Devices \ {rpc'[c].dev} :
                             kept[d] # Unset => rpc'[c].map[d] = kept[d]
      BY DEF AloneIsRight
    <2>1. g[c] \in Saving /\ rpc'[c] = rpc[g[c]]  OBVIOUS
    <2>2. /\ Saving = {g[c]}
          /\ rpc[g[c]].map[rpc[g[c]].dev] = rpc[g[c]].ms
          /\ \A d \in Devices \ {rpc[g[c]].dev} :
               kept[d] # Unset => rpc[g[c]].map[d] = kept[d]
      BY <2>1 DEF Saves, AloneIsRight
    <2>3. \A y \in Saving' : y = c  BY <2>2
    <2>4. QED  BY <2>1, <2>2, <2>3
  <1>2. Writing' => Writing
    <2> SUFFICES ASSUME NEW x \in DOMAIN rpc', rpc'[x].pc = "write" PROVE Writing
      BY DEF Writing
    <2>1. x \in Saving'  BY DEF Saving
    <2>2. g[x] \in Saving /\ rpc[g[x]].pc = "write"  BY <2>1
    <2>3. QED  BY <2>2 DEF Saving, Writing
  <1>3. HalfWritten'  BY <1>2 DEF Saves, HalfWritten
  <1>4. AckedSaveIsKept'
    BY DEF Saves, AckedSaveIsKept, Writing
  <1>5. QED  BY <1>1, <1>3, <1>4 DEF Saves

\* The calls stay where they are, but for one that is not saving.
LEMMA OthersSave ==
  ASSUME Saves, UNCHANGED <<file, kept>>, NEW c,
         c \in Saving' => FALSE, c \in Saving => FALSE,
         DOMAIN rpc \subseteq DOMAIN rpc',
         \A x \in DOMAIN rpc' : x # c => x \in DOMAIN rpc /\ rpc'[x] = rpc[x]
  PROVE  Saves'
  <1> DEFINE g == [x \in Saving' |-> x]
  <1>1. \A x \in Saving' : x \in Saving /\ rpc'[x] = rpc[x]  BY DEF Saving
  <1>2. Writing => Writing'  BY DEF Writing, Saving
  <1>3. g \in [Saving' -> Saving] /\ \A x \in Saving' : g[x] = x  BY <1>1
  <1> HIDE DEF g
  <1>4. QED  BY <1>1, <1>2, <1>3, SavesGoOn

LEMMA ReturnsSaving ==
  ASSUME Types, Saves, UNCHANGED <<file, kept>>, NEW c \in DOMAIN rpc, c \notin Saving,
         Returns(c)
  PROVE  Saves'
  <1> DEFINE g == [x \in Saving' |-> From(x, c)]
  <1>1. /\ \A j \in DOMAIN rpc' : From(j, c) \in DOMAIN rpc \ {c}
                                  /\ rpc'[j] = rpc[From(j, c)]
        /\ \A i, j \in DOMAIN rpc' : From(i, c) = From(j, c) => i = j
        /\ \A k \in DOMAIN rpc \ {c} : \E j \in DOMAIN rpc' : From(j, c) = k
    BY OneReturns DEF Types
  <1>2. \A x \in Saving' : x \in DOMAIN rpc' /\ From(x, c) \in Saving
    BY <1>1 DEF Saving
  <1>3. Writing => Writing'
    <2> SUFFICES ASSUME NEW k \in DOMAIN rpc, rpc[k].pc = "write" PROVE Writing'
      BY DEF Writing
    <2>1. k # c  BY DEF Saving
    <2>2. PICK j \in DOMAIN rpc' : From(j, c) = k  BY <1>1, <2>1
    <2>3. rpc'[j].pc = "write"  BY <1>1, <2>2
    <2>4. QED  BY <2>3 DEF Writing
  <1>4. g \in [Saving' -> Saving] /\ \A x \in Saving' : g[x] = From(x, c)
    BY <1>2
  <1> HIDE DEF g
  <1>5. QED  BY <1>1, <1>2, <1>3, <1>4, SavesGoOn

\* A save reads the file (config.rs 132-139): whole, unless another is under way.
LEMMA ReadSaves ==
  ASSUME Types, Saves, NEW c \in DOMAIN rpc, ReadFile(c)
  PROVE  Saves'
  <1> DEFINE r == rpc[c]
             map == [Contents(file) EXCEPT ![r.dev] = r.ms]
  <1>1. rpc \in Seq(CallTypes) /\ DOMAIN rpc = 1 .. Len(rpc) /\ Len(rpc) \in Nat
    BY LenProperties DEF Types
  <1>2. \A x \in DOMAIN rpc : rpc[x] \in CallTypes  BY <1>1, ElementOfSeq
  <1>3. r.dev \in Devices /\ r.ms \in Nat /\ r.pc = "read"
    BY <1>2 DEF CallTypes, ReadFile
  <1>4. /\ DOMAIN rpc' = DOMAIN rpc
        /\ \A x \in DOMAIN rpc : rpc'[x] =
             IF x = c
             THEN [r EXCEPT !.pc = "truncate", !.map = map, !.alone = (Saving = {})]
             ELSE [rpc[x] EXCEPT !.alone = @ /\ x \notin Saving]
    BY <1>1 DEF ReadFile
  <1>5. UNCHANGED <<file, kept>>  BY DEF ReadFile
  <1>6. /\ rpc'[c].pc = "truncate" /\ rpc'[c].map = map /\ rpc'[c].dev = r.dev
        /\ rpc'[c].ms = r.ms /\ rpc'[c].alone = (Saving = {})
    <2> DEFINE new == map
               quiet == Saving = {}
    <2>1. rpc'[c] = [r EXCEPT !.pc = "truncate", !.map = new, !.alone = quiet]
      BY <1>4
    <2>2. r \in CallTypes  BY <1>2
    <2> HIDE DEF new, quiet, r, map
    <2>3. /\ rpc'[c].pc = "truncate" /\ rpc'[c].map = new /\ rpc'[c].dev = r.dev
          /\ rpc'[c].ms = r.ms /\ rpc'[c].alone = quiet
      BY <2>1, <2>2 DEF CallTypes
    <2>4. QED  BY <2>3 DEF new, quiet
  <1>7. \A x \in DOMAIN rpc : x # c =>
          rpc'[x].pc = rpc[x].pc /\ (rpc'[x].alone => x \notin Saving)
    <2> SUFFICES ASSUME NEW x \in DOMAIN rpc, x # c
                 PROVE  rpc'[x].pc = rpc[x].pc /\ (rpc'[x].alone => x \notin Saving)
      OBVIOUS
    <2> DEFINE a == rpc[x].alone /\ x \notin Saving
    <2>1. rpc'[x] = [rpc[x] EXCEPT !.alone = a]  BY <1>4
    <2>2. a \in BOOLEAN /\ (a => x \notin Saving)  OBVIOUS
    <2> HIDE DEF a
    <2>3. rpc'[x].pc = rpc[x].pc /\ rpc'[x].alone = a
      BY <1>2, <2>1 DEF CallTypes
    <2>4. QED  BY <2>2, <2>3
  <1>8. Saving' = Saving \cup {c}
    <2>1. DOMAIN rpc' = DOMAIN rpc /\ r.pc = "read"  BY <1>3, <1>4
    <2>2. ASSUME NEW x \in DOMAIN rpc PROVE x \in Saving' <=> x \in Saving \cup {c}
      <3>1. CASE x = c  BY <1>6, <2>1, <3>1 DEF Saving
      <3>2. CASE x # c  BY <1>7, <2>1, <3>2 DEF Saving
      <3>3. QED  BY <3>1, <3>2
    <2>3. Saving \subseteq DOMAIN rpc /\ Saving' \subseteq DOMAIN rpc
      BY <2>1 DEF Saving
    <2>4. QED  BY <2>2, <2>3
  <1>9. Writing' <=> Writing
    <2>1. DOMAIN rpc' = DOMAIN rpc /\ r.pc = "read"  BY <1>3, <1>4
    <2>2. \A x \in DOMAIN rpc : rpc'[x].pc = "write" <=> rpc[x].pc = "write"
      BY <1>6, <1>7, <2>1
    <2>3. QED  BY <2>1, <2>2 DEF Writing
  <1>10. AloneIsRight'
    <2> SUFFICES ASSUME NEW x \in Saving', rpc'[x].alone
                 PROVE  /\ Saving' = {x}
                        /\ rpc'[x].map[rpc'[x].dev] = rpc'[x].ms
                        /\ \A d \in Devices \ {rpc'[x].dev} :
                             kept[d] # Unset => rpc'[x].map[d] = kept[d]
      BY <1>5 DEF AloneIsRight
    <2>1. x = c  BY <1>7, <1>8 DEF Saving
    <2>2. Saving = {}  BY <1>6, <2>1
    <2>3. ~Writing  BY <2>2 DEF Writing, Saving
    <2>4. \A d \in Devices : kept[d] # Unset => Contents(file)[d] = kept[d]
      BY <2>3 DEF Saves, AckedSaveIsKept, Writing, Contents
    <2>5. map[r.dev] = r.ms
          /\ \A d \in Devices \ {r.dev} : map[d] = Contents(file)[d]
      BY <1>3, ContentsType DEF Types, Entries
    <2> HIDE DEF map
    <2>6. QED  BY <1>6, <1>8, <2>1, <2>2, <2>4, <2>5
  <1>11. QED
    BY <1>5, <1>9, <1>10 DEF Saves, HalfWritten, AckedSaveIsKept, Writing

\* A save empties the file.
LEMMA TruncateSaves ==
  ASSUME Types, Saves, NEW c \in DOMAIN rpc, Truncate(c)
  PROVE  Saves'
  <1>1. /\ DOMAIN rpc' = DOMAIN rpc
        /\ rpc'[c] = [rpc[c] EXCEPT !.pc = "write"]
        /\ \A x \in DOMAIN rpc : x # c => rpc'[x] = rpc[x]
    BY GoesOn DEF Truncate, Steps
  <1>2. rpc[c] \in CallTypes  BY ElementOfSeq, LenProperties DEF Types
  <1>3. rpc[c].pc = "truncate" /\ file' = Torn /\ kept' = kept  BY DEF Truncate
  <1>4. /\ rpc'[c].pc = "write" /\ rpc'[c].map = rpc[c].map /\ rpc'[c].dev = rpc[c].dev
        /\ rpc'[c].ms = rpc[c].ms /\ rpc'[c].alone = rpc[c].alone
    BY <1>1, <1>2 DEF CallTypes
  <1>5. Saving' = Saving /\ c \in Saving  BY <1>1, <1>3, <1>4 DEF Saving
  <1>6. \A x \in Saving : x \in DOMAIN rpc  BY DEF Saving
  <1>7. AloneIsRight'
    <2> SUFFICES ASSUME NEW x \in Saving, rpc'[x].alone
                 PROVE  /\ Saving = {x}
                        /\ rpc'[x].map[rpc'[x].dev] = rpc'[x].ms
                        /\ \A d \in Devices \ {rpc'[x].dev} :
                             kept[d] # Unset => rpc'[x].map[d] = kept[d]
      BY <1>3, <1>5 DEF AloneIsRight
    <2>1. CASE x = c  BY <1>4, <1>5, <2>1 DEF Saves, AloneIsRight
    <2>2. CASE x # c  BY <1>1, <1>6, <2>2 DEF Saves, AloneIsRight
    <2>3. QED  BY <2>1, <2>2
  <1>8. Writing'  BY <1>1, <1>4 DEF Writing
  <1>9. QED  BY <1>3, <1>7, <1>8 DEF Saves, HalfWritten, AckedSaveIsKept, Writing

\* A save writes what it has read and changed.
LEMMA WriteSaves ==
  ASSUME Types, Saves, NEW c \in DOMAIN rpc,
         NEW outcome \in {"written", "mixed", "error"}, WriteFile(c, outcome)
  PROVE  Saves'
  <1> DEFINE r == rpc[c]
  <1>1. r \in CallTypes  BY ElementOfSeq, LenProperties DEF Types
  <1>2. c \in Saving /\ r.dev \in Devices /\ r.map \in Entries /\ r.ms \in Nat
    BY <1>1 DEF WriteFile, Saving, CallTypes
  <1>3. \A j \in DOMAIN rpc' : From(j, c) \in DOMAIN rpc \ {c} /\ rpc'[j] = rpc[From(j, c)]
    BY OneReturns DEF Types, WriteFile
  <1>4. \A j \in Saving' : From(j, c) \in Saving \ {c} /\ rpc'[j] = rpc[From(j, c)]
    BY <1>3 DEF Saving
  <1>5. \A j \in Saving' : ~rpc'[j].alone
    <2> SUFFICES ASSUME NEW j \in Saving', rpc'[j].alone PROVE FALSE  OBVIOUS
    <2>1. From(j, c) \in Saving \ {c} /\ rpc[From(j, c)].alone  BY <1>4
    <2>2. Saving = {From(j, c)}  BY <2>1 DEF Saves, AloneIsRight
    <2>3. QED  BY <1>2, <2>1, <2>2
  <1>6. AloneIsRight'  BY <1>5 DEF AloneIsRight
  <1>7. CASE outcome = "written" /\ r.alone
    <2>1. /\ file' = r.map /\ kept' = [kept EXCEPT ![r.dev] = r.ms]
      BY <1>7 DEF WriteFile
    <2>2. /\ Saving = {c} /\ r.map[r.dev] = r.ms
          /\ \A d \in Devices \ {r.dev} : kept[d] # Unset => r.map[d] = kept[d]
      BY <1>2, <1>7 DEF Saves, AloneIsRight
    <2>3. \A d \in Devices : kept'[d] = IF d = r.dev THEN r.ms ELSE kept[d]
      BY <1>2, <2>1 DEF Types, Entries
    <2>4. r.map # Torn
      BY <1>2, ShotDelayParameters DEF Entries
    <2>5. AckedSaveIsKept'
      BY <2>1, <2>2, <2>3, <2>4 DEF AckedSaveIsKept
    <2>6. ~Writing'
      <3>1. Saving' = {}  BY <1>4, <2>2
      <3>2. QED  BY <3>1 DEF Writing, Saving
    <2>7. QED  BY <1>6, <2>5, <2>6 DEF Saves, HalfWritten
  <1>8. CASE ~(outcome = "written" /\ r.alone)
    <2>1. kept' = NoEntries  BY <1>8 DEF WriteFile
    <2>2. AckedSaveIsKept'  BY <2>1, NothingKept DEF AckedSaveIsKept
    <2>3. QED  BY <1>6, <2>1, <2>2 DEF Saves, HalfWritten
  <1>9. QED  BY <1>7, <1>8

LEMMA StepSaves ==
  ASSUME Types, Saves, NEW c \in DOMAIN rpc, CallStep(c)
  PROVE  Saves'
  <1>1. rpc \in Seq(CallTypes) /\ DOMAIN rpc = 1 .. Len(rpc) /\ Len(rpc) \in Nat
    BY LenProperties DEF Types
  <1>2. rpc[c] \in CallTypes  BY <1>1, ElementOfSeq
  <1>3. ASSUME NEW pc \in Steps, Goes(c, pc), c \notin Saving,
               pc \notin {"truncate", "write"}, UNCHANGED <<file, kept>>
        PROVE  Saves'
    <2>1. /\ DOMAIN rpc' = DOMAIN rpc
          /\ rpc'[c] = [rpc[c] EXCEPT !.pc = pc]
          /\ \A x \in DOMAIN rpc : x # c => rpc'[x] = rpc[x]
      BY <1>3, GoesOn
    <2>2. rpc'[c].pc = pc  BY <1>2, <2>1 DEF CallTypes
    <2>3. c \notin Saving'  BY <1>3, <2>2 DEF Saving
    <2>4. QED  BY <1>3, <2>1, <2>3, OthersSave
  <1>4. CASE Insert(c)
    <2>1. c \notin Saving  BY <1>4 DEF Insert, Saving
    <2>2. QED  BY <1>3, <1>4, <2>1 DEF Insert, Steps
  <1>5. CASE Notify(c)
    <2>1. c \notin Saving  BY <1>5 DEF Notify, Saving
    <2>2. QED  BY <1>3, <1>5, <2>1 DEF Notify, Steps
  <1>6. CASE Message(c)
    <2>1. c \notin Saving /\ (Goes(c, "look") \/ Returns(c)) /\ UNCHANGED <<file, kept>>
      BY <1>6 DEF Message, Saving
    <2>2. QED  BY <1>3, <2>1, ReturnsSaving DEF Steps
  <1>7. CASE Look(c)
    <2> DEFINE ms == get_or_default_shot_delay(rpc[c].dev)
               pc == IF rpc[c].pc = "look" THEN "read" ELSE "join"
    <2>1. c \notin Saving /\ UNCHANGED <<file, kept>>  BY <1>7 DEF Look, Saving
    <2>2. rpc' = [rpc EXCEPT ![c] = [rpc[c] EXCEPT !.ms = ms, !.pc = pc]]
      BY <1>1, <1>7 DEF Look
    <2> HIDE DEF ms
    <2>3. /\ DOMAIN rpc' = DOMAIN rpc /\ rpc'[c].pc = pc
          /\ \A x \in DOMAIN rpc : x # c => rpc'[x] = rpc[x]
      BY <1>1, <1>2, <2>2 DEF CallTypes
    <2>4. c \notin Saving'  BY <2>3 DEF Saving
    <2>5. QED  BY <2>1, <2>3, <2>4, OthersSave
  <1>8. CASE Join(c)
    <2>1. c \notin Saving /\ Returns(c) /\ UNCHANGED <<file, kept>>
      BY <1>8 DEF Join, Saving
    <2>2. QED  BY <2>1, ReturnsSaving
  <1>9. CASE ReadFile(c)  BY <1>9, ReadSaves
  <1>10. CASE Truncate(c)  BY <1>10, TruncateSaves
  <1>11. ASSUME NEW outcome \in {"written", "mixed", "error"}, WriteFile(c, outcome)
         PROVE  Saves'
    BY <1>11, WriteSaves
  <1>12. QED
    BY <1>4, <1>5, <1>6, <1>7, <1>8, <1>9, <1>10, <1>11 DEF CallStep

LEMMA NextSaves ==
  Types /\ Saves /\ [DelayNext]_delayVars => Saves'
  <1> SUFFICES ASSUME Types, Saves, [DelayNext]_delayVars PROVE Saves'  OBVIOUS
  <1>1. ASSUME UNCHANGED <<rpc, file, kept>> PROVE Saves'
    BY <1>1 DEF Saves, AloneIsRight, HalfWritten, Writing, AckedSaveIsKept, Saving
  <1>2. CASE UNCHANGED delayVars  BY <1>1, <1>2 DEF delayVars
  <1>3. ASSUME NEW call \in togo.calls, Call(call) PROVE Saves'
    <2> DEFINE new == [op |-> call.op, dev |-> call.dev, ms |-> call.ms,
                       pc |-> First[call.op], map |-> NoEntries, alone |-> TRUE]
               n == Len(rpc)
    <2>1. call \in Calls  BY DEF Types, LoadBounds
    <2>2. new \in CallTypes /\ new.pc \notin {"truncate", "write"}
      BY <2>1, NoEntriesType DEF Calls, CallTypes, First, Steps
    <2>3. rpc' = Append(rpc, new) /\ UNCHANGED <<file, kept>>  BY <1>3 DEF Call
    <2> HIDE DEF new
    <2>4. n \in Nat /\ DOMAIN rpc = 1 .. n  BY LenProperties DEF Types
    <2>5. /\ rpc' \in Seq(CallTypes) /\ Len(rpc') = n + 1 /\ rpc'[n + 1] = new
          /\ \A x \in 1 .. n : rpc'[x] = rpc[x]
      BY <2>2, <2>3, AppendProperties DEF Types
    <2>6. DOMAIN rpc' = 1 .. n + 1  BY <2>5, LenProperties
    <2>7. n + 1 \notin Saving' /\ n + 1 \notin Saving
      BY <2>2, <2>4, <2>5 DEF Saving
    <2>8. DOMAIN rpc \subseteq DOMAIN rpc'
          /\ \A x \in DOMAIN rpc' : x # n + 1 => x \in DOMAIN rpc /\ rpc'[x] = rpc[x]
      BY <2>4, <2>5, <2>6
    <2>9. QED  BY <2>3, <2>7, <2>8, OthersSave
  <1>4. ASSUME NEW c \in DOMAIN rpc, CallStep(c) PROVE Saves'  BY <1>4, StepSaves
  <1>5. ASSUME NEW d \in Devices,
               HandlerStarts(d) \/ HandlerEnds(d) \/ HandlerStep(d)
        PROVE  Saves'
    BY <1>1, <1>5 DEF HandlerStarts, HandlerEnds, HandlerStep, TakesMessage, SendsOn,
                      SeesDelay, WritesDelay
  <1>6. ASSUME NEW d \in Devices, Tells(d) \/ Leaves(d) PROVE Saves'
    BY <1>1, <1>6 DEF Tells, Leaves
  <1>7. CASE Restart
    <2>1. /\ file' = file /\ rpc' = << >>
          /\ kept' = IF file = Torn THEN NoEntries ELSE kept
      BY <1>7 DEF Restart
    <2>2. DOMAIN rpc' = {}  BY <2>1
    <2>3. Saving' = {} /\ ~Writing'  BY <2>2 DEF Saving, Writing
    <2>4. AckedSaveIsKept'
      <3>1. CASE kept' = NoEntries  BY <3>1, NothingKept DEF AckedSaveIsKept
      <3>2. CASE kept' # NoEntries
        <4>1. file # Torn /\ kept' = kept /\ kept # NoEntries  BY <2>1, <3>2
        <4>2. ~Writing  BY <4>1 DEF Saves, HalfWritten
        <4>3. QED  BY <2>1, <4>1, <4>2 DEF Saves, AckedSaveIsKept, Writing
      <3>3. QED  BY <3>1, <3>2
    <2>5. QED  BY <2>3, <2>4 DEF Saves, AloneIsRight, HalfWritten
  <1>8. CASE DeleteFiles
    <2>1. kept' = NoEntries /\ rpc' = rpc /\ file' = NoEntries  BY <1>8 DEF DeleteFiles
    <2>2. AckedSaveIsKept'  BY <2>1, NothingKept DEF AckedSaveIsKept
    <2>3. AloneIsRight'
      BY <2>1, NothingKept DEF Saves, AloneIsRight, Saving
    <2>4. QED  BY <2>1, <2>2, <2>3 DEF Saves, HalfWritten
  <1>9. QED  BY <1>2, <1>3, <1>4, <1>5, <1>6, <1>7, <1>8 DEF DelayNext

\* A delay saved on its own is in the file until it is saved again, through the
\* saves of other devices, handlers and restarts (server.rs 506-530, config.rs
\* 120-139).
THEOREM SavedDelaysKept == DelaySpec => []AckedSaveIsKept
  <1>1. DelayInit => Saves
    <2> SUFFICES ASSUME DelayInit PROVE Saves  OBVIOUS
    <2>1. kept = NoEntries /\ DOMAIN rpc = {}  BY DEF DelayInit
    <2>2. QED
      BY <2>1, NothingKept DEF Saves, AloneIsRight, HalfWritten, AckedSaveIsKept,
                               Saving, Writing
  <1>2. Saves => AckedSaveIsKept  BY DEF Saves
  <1>3. QED  BY <1>1, <1>2, InitTypes, NextTypes, NextSaves, PTL DEF DelaySpec
=============================================================================
