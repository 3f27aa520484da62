------------------------ MODULE DeviceHandlerProofs ------------------------
(***************************************************************************)
(* Proofs about DeviceHandler, for every number of dongles, of concurrent  *)
(* calls and of link changes, and every queue length; at the end, that it  *)
(* implements LinkHandler.                                                 *)
(***************************************************************************)
EXTENDS DeviceHandlerLinks, SequenceTheorems, TLAPS

\* A message that fits keeps the queue typed and within its capacity
\* (mpsc::channel(32)).
LEMMA PushType ==
  ASSUME TypeOK, NEW k, NEW a, [kind |-> k, arg |-> a] \in Message, Push(k, a)
  PROVE  inbox' \in Seq(Message) /\ Len(inbox') <= QueueCap
  BY Parameters DEF TypeOK, Push

\* Taking the first message keeps the queue typed; the message is one of the
\* messages the senders build.
LEMMA ReceiveType ==
  ASSUME TypeOK, NEW kinds, Receive(kinds)
  PROVE  /\ inbox' \in Seq(Message) /\ Len(inbox') <= QueueCap
         /\ Head(inbox) \in Message /\ Head(inbox).kind \in kinds
  <1>1. inbox \in Seq(Message) /\ inbox # << >> /\ Len(inbox) <= QueueCap
    BY DEF TypeOK, Receive
  <1>2. Head(inbox) \in Message /\ Tail(inbox) \in Seq(Message)
        /\ Len(Tail(inbox)) = Len(inbox) - 1
    BY <1>1, HeadTailProperties
  <1>3. QED  BY <1>1, <1>2, Parameters, LenProperties DEF Receive

\* Answering the call of a request message keeps the replies typed.
LEMMA AnswerType ==
  ASSUME TypeOK, Head(inbox) \in Message, Head(inbox).kind \in RequestKinds,
         NEW res \in {"ok", "err"}, Answer(res)
  PROVE  /\ Head(inbox).arg \in Requests
         /\ reply' \in [Requests -> {"none", "waiting", "ok", "err", "dropped"}]
  <1>1. Head(inbox).arg \in Requests  BY DEF Message, RequestKinds
  <1>2. QED  BY <1>1 DEF TypeOK, Answer

\* Starting streams starts known streams only.
LEMMA StartType ==
  ASSUME NEW v, start_sensor_streams(v)
  PROVE  /\ streams' \subseteq BasicStreams \cup {Battery}
         /\ has_sensor_streams' \in BOOLEAN
  BY DEF start_sensor_streams

\* Stopping the streams for a register access keeps the stream state typed.
LEMMA PauseType ==
  ASSUME TypeOK, PauseStreams
  PROVE  /\ streams' \subseteq BasicStreams \cup {Battery}
         /\ has_sensor_streams' \in BOOLEAN
         /\ streams_paused' \in BOOLEAN
         /\ streams_resume_armed' \in BOOLEAN
  BY DEF TypeOK, PauseStreams

\* Re-reading the transport mode yields well-formed metadata.
LEMMA WithModeType ==
  ASSUME NEW d \in Device, NEW mode \in {"Usb", "Ble", "unread"}
  PROVE  WithMode(d, mode) \in Device
  BY DEF WithMode, Device, Capabilities

\* Every spawn of a handler starts it in a well-typed state.
LEMMA InitType == Init => TypeOK
  <1> SUFFICES ASSUME Init PROVE TypeOK  OBVIOUS
  <1>1. device \in Device
    <2>1. CASE \E usb_mode \in BOOLEAN : InitDirect(usb_mode)
      BY <2>1 DEF InitDirect, Device, Capabilities
    <2>2. CASE InitMux  BY <2>2 DEF InitMux, Device, Capabilities
    <2>3. QED  BY <2>1, <2>2 DEF Init
  <1> DEFINE Spawned == /\ control \in BOOLEAN
                        /\ events \in Hubs \cup {NoDevice, WiredVm}
                        /\ protocol_version \in Versions
                        /\ direct \in BOOLEAN
                        /\ usb_known \in BOOLEAN
                        /\ hub_devices \subseteq Hubs
                        /\ registering \in BOOLEAN
  <1>2. Spawned
    <2>1. ASSUME NEW usb_mode \in BOOLEAN, InitDirect(usb_mode)
          PROVE  Spawned
      <3>1. 0 \in Versions  BY Parameters DEF Versions
      <3>2. CASE usb_mode = TRUE  BY <2>1, <3>2 DEF InitDirect
      <3>3. CASE usb_mode = FALSE  BY <2>1, <3>1, <3>3 DEF InitDirect
      <3>4. QED  BY <3>2, <3>3
    <2>2. CASE InitMux  BY <2>2 DEF InitMux
    <2>3. QED  BY <2>1, <2>2 DEF Init
  <1>3. inbox \in Seq(Message) /\ Len(inbox) <= QueueCap
    BY Parameters DEF Init
  <1>4. links \in 0 .. MaxLinks  BY Parameters DEF Init
  <1>5. QED  BY <1>1, <1>2, <1>3, <1>4 DEF Init, TypeOK

\* Every step of the handler and of its surroundings keeps the state typed.
LEMMA TypeStep == TypeOK /\ [Next]_vars => TypeOK'
  <1> SUFFICES ASSUME TypeOK, [Next]_vars PROVE TypeOK'  OBVIOUS
  <1> USE DEF conns, meta, stream, config, rpc, outside
  <1>1. CASE Startup
    <2>1. /\ streams' \subseteq BasicStreams \cup {Battery}
          /\ has_sensor_streams' \in BOOLEAN
      BY <1>1, StartType DEF Startup, TypeOK
    <2>2. QED  BY <1>1, <2>1 DEF Startup, TypeOK
  <1>2. CASE HandleRegister
    <2>1. /\ inbox' \in Seq(Message) /\ Len(inbox') <= QueueCap
          /\ Head(inbox) \in Message /\ Head(inbox).kind \in RequestKinds
      BY <1>2, ReceiveType DEF HandleRegister, RequestKinds
    <2>2. reply' \in [Requests -> {"none", "waiting", "ok", "err", "dropped"}]
      BY <1>2, <2>1, AnswerType DEF HandleRegister
    <2>3. CASE device.events_connected /\ events # NoDevice
      BY <1>2, <2>1, <2>2, <2>3, PauseType DEF HandleRegister, TypeOK
    <2>4. CASE ~(device.events_connected /\ events # NoDevice)
      BY <1>2, <2>1, <2>2, <2>4 DEF HandleRegister, TypeOK
    <2>5. QED  BY <2>3, <2>4
  <1>3. CASE HandleConfig
    <2>1. /\ inbox' \in Seq(Message) /\ Len(inbox') <= QueueCap
          /\ Head(inbox) \in Message /\ Head(inbox).kind \in RequestKinds
      BY <1>3, ReceiveType DEF HandleConfig, RequestKinds
    <2>2. reply' \in [Requests -> {"none", "waiting", "ok", "err", "dropped"}]
      BY <1>3, <2>1, AnswerType DEF HandleConfig
    <2>3. PauseStreams \/ UNCHANGED stream  BY <1>3 DEF HandleConfig
    <2>4. QED  BY <1>3, <2>1, <2>2, <2>3, PauseType DEF HandleConfig, TypeOK
  <1>4. CASE HandleFlashSettings
    <2>1. /\ inbox' \in Seq(Message) /\ Len(inbox') <= QueueCap
          /\ Head(inbox) \in Message /\ Head(inbox).kind \in RequestKinds
      BY <1>4, ReceiveType DEF HandleFlashSettings, RequestKinds
    <2>2. /\ Head(inbox).arg \in Requests
          /\ reply' \in [Requests -> {"none", "waiting", "ok", "err", "dropped"}]
      BY <1>4, <2>1, AnswerType DEF HandleFlashSettings
    <2>3. QED  BY <1>4, <2>1, <2>2 DEF HandleFlashSettings, TypeOK
  <1>5. CASE HandleStartPairing
    <2>1. /\ inbox' \in Seq(Message) /\ Len(inbox') <= QueueCap
          /\ Head(inbox) \in Message /\ Head(inbox).kind \in RequestKinds
      BY <1>5, ReceiveType DEF HandleStartPairing, RequestKinds
    <2>2. /\ Head(inbox).arg \in Requests
          /\ reply' \in [Requests -> {"none", "waiting", "ok", "err", "dropped"}]
      BY <1>5, <2>1, AnswerType DEF HandleStartPairing
    <2>3. QED  BY <1>5, <2>1, <2>2 DEF HandleStartPairing, TypeOK
  <1>6. CASE HandleBondOp
    <2>1. /\ inbox' \in Seq(Message) /\ Len(inbox') <= QueueCap
          /\ Head(inbox) \in Message /\ Head(inbox).kind \in RequestKinds
      BY <1>6, ReceiveType DEF HandleBondOp, RequestKinds
    <2>2. /\ Head(inbox).arg \in Requests
          /\ reply' \in [Requests -> {"none", "waiting", "ok", "err", "dropped"}]
      BY <1>6, <2>1, AnswerType DEF HandleBondOp
    <2>3. QED  BY <1>6, <2>1, <2>2 DEF HandleBondOp, TypeOK
  <1>7. CASE HandleSetTransportMode
    <2>1. /\ inbox' \in Seq(Message) /\ Len(inbox') <= QueueCap
          /\ Head(inbox) \in Message /\ Head(inbox).kind \in RequestKinds
      BY <1>7, ReceiveType DEF HandleSetTransportMode, RequestKinds
    <2>2. /\ Head(inbox).arg \in Requests
          /\ reply' \in [Requests -> {"none", "waiting", "ok", "err", "dropped"}]
      BY <1>7, <2>1, AnswerType DEF HandleSetTransportMode
    <2>3. QED  BY <1>7, <2>1, <2>2 DEF HandleSetTransportMode, TypeOK
  <1>8. CASE HandleSetDeviceName
    <2>1. /\ inbox' \in Seq(Message) /\ Len(inbox') <= QueueCap
          /\ Head(inbox) \in Message /\ Head(inbox).kind \in RequestKinds
      BY <1>8, ReceiveType DEF HandleSetDeviceName, RequestKinds
    <2>2. /\ Head(inbox).arg \in Requests
          /\ reply' \in [Requests -> {"none", "waiting", "ok", "err", "dropped"}]
      BY <1>8, <2>1, AnswerType DEF HandleSetDeviceName
    <2>3. device' \in Device /\ published' \in Device
      BY <1>8 DEF HandleSetDeviceName, TypeOK, Device
    <2>4. UNCHANGED <<phase, conns, stream, config, waiters, outside>>
      BY <1>8 DEF HandleSetDeviceName
    <2>5. QED  BY <2>1, <2>2, <2>3, <2>4 DEF TypeOK
  <1>9. CASE HandleAddEventsDevice
    <2>1. /\ inbox' \in Seq(Message) /\ Len(inbox') <= QueueCap
          /\ Head(inbox) \in Message /\ Head(inbox).kind = "AddEventsDevice"
      BY <1>9, ReceiveType DEF HandleAddEventsDevice
    <2>2. Head(inbox).arg \in Hubs  BY <2>1 DEF Message, RequestKinds
    <2>3. protocol_version' \in Versions
      BY <1>9 DEF HandleAddEventsDevice, TypeOK
    <2>4. CASE has_sensor_streams
      BY <1>9, <2>1, <2>3, <2>4 DEF HandleAddEventsDevice, TypeOK
    <2>5. CASE ~has_sensor_streams
      <3>0. [device EXCEPT !.caps = @ \cup {"EVENTS"},
                           !.events_connected = TRUE] \in Device
        BY DEF TypeOK, Device, Capabilities
      <3>1. device' \in Device /\ published' = device'
        BY <1>9, <2>5, <3>0 DEF HandleAddEventsDevice, UpdateDevice
      <3>2. QED  BY <1>9, <2>1, <2>2, <2>3, <2>5, <3>1, StartType
                 DEF HandleAddEventsDevice, TypeOK
    <2>6. QED  BY <2>4, <2>5
  <1>10. CASE HandleAddControlDevice
    <2>1. inbox' \in Seq(Message) /\ Len(inbox') <= QueueCap
      BY <1>10, ReceiveType DEF HandleAddControlDevice
    <2>2. device' \in Device /\ published' = device'
      <3>1. PICK fw \in Firmwares, mode \in {"Usb", "Ble", "unread"} :
              UpdateDevice([WithMode([device EXCEPT !.firmware = fw], mode)
                              EXCEPT !.caps = @ \cup {"CONTROL"},
                                     !.transport = "Usb"])
        BY <1>10 DEF HandleAddControlDevice
      <3>2. [device EXCEPT !.firmware = fw] \in Device  BY DEF TypeOK, Device
      <3>3. WithMode([device EXCEPT !.firmware = fw], mode) \in Device
        BY <3>2, WithModeType
      <3>4. QED  BY <3>1, <3>3 DEF UpdateDevice, Device, Capabilities
    <2>3. QED  BY <1>10, <2>1, <2>2 DEF HandleAddControlDevice, TypeOK
  <1>11. CASE HandleRemoveControlDevice
    <2>1. inbox' \in Seq(Message) /\ Len(inbox') <= QueueCap
      BY <1>11, ReceiveType DEF HandleRemoveControlDevice
    <2>2. WithoutUsb(device) \in Device
          /\ [WithoutUsb(device) EXCEPT !.transport = "UsbMux"] \in Device
      BY DEF TypeOK, WithoutUsb, Device, Capabilities
    <2>3. device' \in Device /\ published' \in Device
      BY <1>11, <2>2 DEF HandleRemoveControlDevice, UpdateDevice, TypeOK
    <2>4. /\ phase' \in {"startup", "loop", "ending", "finished"}
          /\ control' \in BOOLEAN
          /\ events' \in Hubs \cup {NoDevice, WiredVm}
          /\ streams' \subseteq BasicStreams \cup {Battery}
          /\ direct' \in BOOLEAN
      BY <1>11 DEF HandleRemoveControlDevice, NoLongerDirect, TypeOK
    <2>5. UNCHANGED <<has_sensor_streams, streams_paused, streams_resume_armed,
                      config, rpc, usb_known, hub_devices, registering, aborted,
                      open, links>>
      BY <1>11 DEF HandleRemoveControlDevice
    <2>6. QED  BY <2>1, <2>3, <2>4, <2>5 DEF TypeOK
  <1>12. CASE HandleRemoveEventsDevice
    <2>1. inbox' \in Seq(Message) /\ Len(inbox') <= QueueCap
      BY <1>12, ReceiveType DEF HandleRemoveEventsDevice
    <2>2. device' \in Device /\ published' \in Device
      <3> DEFINE d == [device EXCEPT !.caps = @ \ {"EVENTS"},
                                     !.events_connected = FALSE]
                 e == [d EXCEPT !.transport = IF @ = "UsbMux" THEN "Usb" ELSE @]
      <3>1. d \in Device  BY DEF TypeOK, Device, Capabilities
      <3>2. e \in Device  BY <3>1 DEF Device
      <3>3. CASE control
        BY <1>12, <3>2, <3>3 DEF HandleRemoveEventsDevice, UpdateDevice
      <3>4. CASE ~control
        BY <1>12, <3>1, <3>4 DEF HandleRemoveEventsDevice, TypeOK
      <3>5. QED  BY <3>3, <3>4
    <2>3. QED  BY <1>12, <2>1, <2>2
               DEF HandleRemoveEventsDevice, ClearStreams, TypeOK
  <1>13. CASE ResumeTimer
    <2>1. /\ streams' \subseteq BasicStreams \cup {Battery}
          /\ has_sensor_streams' \in BOOLEAN
      BY <1>13, StartType DEF ResumeTimer, TypeOK
    <2>2. streams_paused' \in BOOLEAN /\ streams_resume_armed' \in BOOLEAN
      BY <1>13 DEF ResumeTimer
    <2>3. UNCHANGED <<phase, inbox, conns, meta, config, rpc, outside>>
      BY <1>13 DEF ResumeTimer
    <2>4. QED  BY <2>1, <2>2, <2>3 DEF TypeOK
  <1>14. CASE RetryTimer
    BY <1>14, StartType DEF RetryTimer, TypeOK
  <1>15. CASE StreamsEnded
    <2>1. has_sensor_streams' \in BOOLEAN  BY <1>15 DEF StreamsEnded
    <2>2. UNCHANGED <<phase, inbox, conns, meta, streams, streams_paused,
                      streams_resume_armed, config, rpc, outside>>
      BY <1>15 DEF StreamsEnded
    <2>3. QED  BY <2>1, <2>2 DEF TypeOK
  <1>16. CASE HandleClosed  BY <1>16 DEF HandleClosed, TypeOK
  <1>17. CASE Finish
    <2>1. inbox' \in Seq(Message) /\ Len(inbox') <= QueueCap
      BY <1>17, Parameters DEF Finish
    <2>2. QED  BY <1>17, <2>1 DEF Finish, TypeOK
  <1>18. CASE MuxSpawned
    <2>1. inbox' \in Seq(Message) /\ Len(inbox') <= QueueCap
      BY <1>18, PushType DEF MuxSpawned, Message, TypeOK
    <2>2. registering' \in BOOLEAN  BY <1>18 DEF MuxSpawned
    <2>3. UNCHANGED <<phase, conns, meta, stream, config, rpc, direct,
                      usb_known, hub_devices, aborted, open, links>>
      BY <1>18 DEF MuxSpawned
    <2>4. QED  BY <2>1, <2>2, <2>3 DEF TypeOK
  <1>19. CASE ScanFindsDevice
    <2>1. inbox' \in Seq(Message) /\ Len(inbox') <= QueueCap
      BY <1>19, PushType DEF ScanFindsDevice, Message, TypeOK
    <2>2. links' \in 0 .. MaxLinks
      BY <1>19, Parameters DEF ScanFindsDevice, Link, TypeOK
    <2>3. QED  BY <1>19, <2>1, <2>2 DEF ScanFindsDevice, Link, TypeOK
  <1>20. CASE ScanMissesDevice
    <2>1. inbox' \in Seq(Message) /\ Len(inbox') <= QueueCap
      BY <1>20, PushType DEF ScanMissesDevice, Message
    <2>2. links' \in 0 .. MaxLinks
      BY <1>20, Parameters DEF ScanMissesDevice, Link, TypeOK
    <2>3. QED  BY <1>20, <2>1, <2>2 DEF ScanMissesDevice, Link, TypeOK
  <1>21. CASE Orphaned
    <2>1. open' \in BOOLEAN  BY <1>21 DEF Orphaned
    <2>2. UNCHANGED <<phase, inbox, conns, meta, stream, config, rpc, direct,
                      usb_known, hub_devices, registering, aborted, links>>
      BY <1>21 DEF Orphaned
    <2>3. QED  BY <2>1, <2>2 DEF TypeOK
  <1>22. ASSUME NEW h \in Hubs, HubAddsDevice(h) PROVE TypeOK'
    <2>1. inbox' \in Seq(Message) /\ Len(inbox') <= QueueCap
      BY <1>22, PushType DEF HubAddsDevice, Message
    <2>2. links' \in 0 .. MaxLinks
      BY <1>22, Parameters DEF HubAddsDevice, Link, TypeOK
    <2>3. QED  BY <1>22, <2>1, <2>2 DEF HubAddsDevice, Link, TypeOK
  <1>23. ASSUME NEW h \in Hubs, HubDropsDevice(h) PROVE TypeOK'
    <2>1. inbox' \in Seq(Message) /\ Len(inbox') <= QueueCap
      BY <1>23, PushType DEF HubDropsDevice, Message
    <2>2. links' \in 0 .. MaxLinks
      BY <1>23, Parameters DEF HubDropsDevice, Link, TypeOK
    <2>3. QED  BY <1>23, <2>1, <2>2 DEF HubDropsDevice, Link, TypeOK
  <1>24. ASSUME NEW r \in Requests, PairingResult(r) PROVE TypeOK'
    BY <1>24 DEF PairingResult, TypeOK
  <1>25. ASSUME NEW r \in Requests, NEW k \in RequestKinds, Call(r, k)
         PROVE  TypeOK'
    <2>1. inbox' \in Seq(Message) /\ Len(inbox') <= QueueCap
      BY <1>25, PushType DEF Call, Message, TypeOK
    <2>2. QED  BY <1>25, <2>1 DEF Call, TypeOK
  <1>26. ASSUME NEW s \in BasicStreams \cup {Battery}, StreamCloses(s)
         PROVE  TypeOK'
    BY <1>26 DEF StreamCloses, TypeOK
  <1>27. ASSUME NEW h \in Hubs, HubAborted(h) PROVE TypeOK'
    <2>1. /\ registering' \in BOOLEAN /\ aborted' \in BOOLEAN
          /\ open' \in BOOLEAN
      BY <1>27 DEF HubAborted, TypeOK
    <2>2. links' \in 0 .. MaxLinks
      BY <1>27, Parameters DEF HubAborted, TypeOK
    <2>3. QED  BY <1>27, <2>1, <2>2 DEF HubAborted, TypeOK
  <1>28. CASE UNCHANGED vars  BY <1>28 DEF vars, TypeOK
  <1>29. QED
    BY <1>1, <1>2, <1>3, <1>4, <1>5, <1>6, <1>7, <1>8, <1>9, <1>10, <1>11,
       <1>12, <1>13, <1>14, <1>15, <1>16, <1>17, <1>18, <1>19, <1>20, <1>21,
       <1>22, <1>23, <1>24, <1>25, <1>26, <1>27, <1>28
    DEF Next, HandleMessage

\* The handler's state always has the types the code declares, and its queue
\* never exceeds its capacity.
THEOREM TypeCorrect == Spec => []TypeOK
  BY InitType, TypeStep, PTL DEF Spec

\* The connections, the streams and the metadata of a handler agree: the
\* conjunction that the merge and split arms preserve together.
Consistent ==
  /\ PausedIsArmed
  /\ StreamsHaveDevice
  /\ ControlIsAdvertised
  /\ EventsAreAdvertised
  /\ PublishedIsCurrent

\* A handler is spawned with agreeing connections and metadata.
LEMMA InitConsistent == Init => Consistent
  BY DEF Init, InitDirect, InitMux, Consistent, Running, PausedIsArmed,
         StreamsHaveDevice, ControlIsAdvertised, EventsAreAdvertised,
         PublishedIsCurrent

\* Every step keeps the connections, the streams and the metadata in
\* agreement.  The arms that answer calls and the senders do not touch them.
LEMMA ConsistentStep == TypeOK /\ Consistent /\ [Next]_vars => Consistent'
  <1> SUFFICES ASSUME TypeOK, Consistent, [Next]_vars PROVE Consistent'  OBVIOUS
  <1> USE DEF conns, meta, stream, config, rpc, outside, Running, Consistent,
              PausedIsArmed, StreamsHaveDevice, ControlIsAdvertised,
              EventsAreAdvertised, PublishedIsCurrent
  <1>0. ASSUME UNCHANGED <<phase, conns, meta, stream>>
        PROVE  Consistent'
    BY <1>0
  <1>1. CASE Startup  BY <1>1 DEF Startup, start_sensor_streams
  <1>2. CASE HandleRegister
    BY <1>2 DEF HandleRegister, PauseStreams, TypeOK
  <1>3. CASE HandleConfig  BY <1>3 DEF HandleConfig, PauseStreams, TypeOK
  <1>4. CASE HandleFlashSettings \/ HandleStartPairing \/ HandleBondOp
    BY <1>0, <1>4 DEF HandleFlashSettings, HandleStartPairing, HandleBondOp
  <1>5. CASE HandleSetTransportMode  BY <1>5 DEF HandleSetTransportMode
  <1>6. CASE HandleSetDeviceName
    BY <1>6 DEF HandleSetDeviceName, TypeOK, Device
  <1>7. CASE HandleAddEventsDevice
    <2>1. /\ phase = "loop" /\ phase' = "loop"
          /\ UNCHANGED <<control, streams_paused, streams_resume_armed>>
      BY <1>7 DEF HandleAddEventsDevice, Receive
    <2>2. CASE has_sensor_streams
      BY <1>0, <1>7, <2>1, <2>2 DEF HandleAddEventsDevice
    <2>3. CASE ~has_sensor_streams
      <3>1. /\ device' = [device EXCEPT !.caps = @ \cup {"EVENTS"},
                                        !.events_connected = TRUE]
            /\ published' = device'
        BY <1>7, <2>3 DEF HandleAddEventsDevice, UpdateDevice
      <3>2. /\ device'.caps = device.caps \cup {"EVENTS"}
            /\ device'.events_connected = TRUE
        BY <3>1 DEF TypeOK, Device
      <3>3. events' # NoDevice
        <4>1. Head(inbox).arg \in Hubs
          BY <1>7, ReceiveType DEF HandleAddEventsDevice, Message, RequestKinds
        <4>2. QED  BY <1>7, <2>3, <4>1, Parameters DEF HandleAddEventsDevice
      <3>4. ControlIsAdvertised'  BY <2>1, <3>2
      <3>5. QED  BY <2>1, <3>1, <3>2, <3>3, <3>4
    <2>4. QED  BY <2>2, <2>3
  <1>8. CASE HandleAddControlDevice
    BY <1>8 DEF HandleAddControlDevice, UpdateDevice, WithMode, TypeOK, Device
  <1>9. CASE HandleRemoveControlDevice
    <2>1. /\ control' = FALSE
          /\ UNCHANGED <<has_sensor_streams, streams_paused,
                         streams_resume_armed>>
      BY <1>9 DEF HandleRemoveControlDevice
    <2>2. CASE phase' = "ending"  BY <2>1, <2>2
    <2>3. CASE phase' # "ending"
      <3>1. /\ device' = [WithoutUsb(device) EXCEPT !.transport = "UsbMux"]
            /\ published' = device'
            /\ UNCHANGED <<phase, events>>
        BY <1>9, <2>3 DEF HandleRemoveControlDevice, UpdateDevice
      <3>2. /\ device'.caps = device.caps \ {"CONTROL", "DFU"}
            /\ device'.events_connected = device.events_connected
        BY <3>1 DEF WithoutUsb, TypeOK, Device
      <3>3. EventsAreAdvertised'  BY <3>1, <3>2
      <3>4. ControlIsAdvertised'  BY <2>1, <3>2
      <3>5. QED  BY <2>1, <3>1, <3>3, <3>4
    <2>4. QED  BY <2>2, <2>3
  <1>10. CASE HandleRemoveEventsDevice
    <2>1. /\ events' = NoDevice /\ has_sensor_streams' = FALSE
          /\ UNCHANGED <<control, streams_paused, streams_resume_armed>>
      BY <1>10 DEF HandleRemoveEventsDevice, ClearStreams
    <2>2. CASE ~control  BY <1>10, <2>1, <2>2 DEF HandleRemoveEventsDevice
    <2>3. CASE control
      <3> DEFINE d == [device EXCEPT !.caps = @ \ {"EVENTS"},
                                     !.events_connected = FALSE]
      <3>1. /\ device' = [d EXCEPT !.transport =
                            IF @ = "UsbMux" THEN "Usb" ELSE @]
            /\ published' = device'
            /\ UNCHANGED phase
        BY <1>10, <2>3 DEF HandleRemoveEventsDevice, UpdateDevice
      <3>2. /\ device'.caps = device.caps \ {"EVENTS"}
            /\ device'.events_connected = FALSE
        BY <3>1 DEF TypeOK, Device
      <3>3. EventsAreAdvertised'  BY <2>1, <3>2
      <3>4. ControlIsAdvertised'  BY <2>1, <3>1, <3>2
      <3>5. QED  BY <2>1, <3>1, <3>3, <3>4
    <2>4. QED  BY <2>2, <2>3
  <1>11. CASE ResumeTimer  BY <1>11 DEF ResumeTimer, start_sensor_streams
  <1>12. CASE RetryTimer  BY <1>12 DEF RetryTimer, start_sensor_streams
  <1>13. CASE StreamsEnded  BY <1>13 DEF StreamsEnded
  <1>14. CASE HandleClosed  BY <1>14 DEF HandleClosed
  <1>15. CASE Finish  BY <1>15 DEF Finish
  <1>16. CASE MuxSpawned \/ Orphaned
    BY <1>0, <1>16 DEF MuxSpawned, Orphaned
  <1>17. CASE ScanFindsDevice \/ ScanMissesDevice
    BY <1>0, <1>17 DEF ScanFindsDevice, ScanMissesDevice, Link
  <1>18. ASSUME NEW h \in Hubs,
                HubAddsDevice(h) \/ HubDropsDevice(h) \/ HubAborted(h)
         PROVE  Consistent'
    BY <1>0, <1>18 DEF HubAddsDevice, HubDropsDevice, HubAborted, Link
  <1>19. ASSUME NEW r \in Requests, PairingResult(r) PROVE Consistent'
    BY <1>0, <1>19 DEF PairingResult
  <1>20. ASSUME NEW r \in Requests, NEW k \in RequestKinds, Call(r, k)
         PROVE  Consistent'
    BY <1>0, <1>20 DEF Call
  <1>21. ASSUME NEW s \in BasicStreams \cup {Battery}, StreamCloses(s)
         PROVE  Consistent'
    BY <1>21 DEF StreamCloses
  <1>22. CASE UNCHANGED vars  BY <1>0, <1>22 DEF vars
  <1>23. QED
    BY <1>1, <1>2, <1>3, <1>4, <1>5, <1>6, <1>7, <1>8, <1>9, <1>10, <1>11,
       <1>12, <1>13, <1>14, <1>15, <1>16, <1>17, <1>18, <1>19, <1>20, <1>21,
       <1>22
    DEF Next, HandleMessage

\* The conjunction is an invariant of every run of a handler.
LEMMA AlwaysConsistent == Spec => []Consistent
  BY InitType, TypeStep, InitConsistent, ConsistentStep, PTL DEF Spec

\* While streams are paused for register accesses the timer that restarts
\* them is armed, so no interleaving of accesses, link changes and stream
\* failures leaves a device paused for good.
THEOREM PausedAlwaysArmed == Spec => []PausedIsArmed
  BY AlwaysConsistent, PTL DEF Consistent

\* Streams that the loop polls belong to an events device it holds.
THEOREM StreamsAlwaysHaveDevice == Spec => []StreamsHaveDevice
  BY AlwaysConsistent, PTL DEF Consistent

\* Clients see CONTROL exactly as the handler has a control device, through
\* every merge and split.
THEOREM ControlFollowsDevice == Spec => []ControlIsAdvertised
  BY AlwaysConsistent, PTL DEF Consistent

\* An events device is never held without EVENTS and the report that events
\* are connected, through every merge and split.
THEOREM EventsFollowDevice == Spec => []EventsAreAdvertised
  BY AlwaysConsistent, PTL DEF Consistent

\* The device list is never left with metadata the handler has moved on from.
THEOREM PublishedAlwaysCurrent == Spec => []PublishedIsCurrent
  BY AlwaysConsistent, PTL DEF Consistent

\* Only RemoveControlDevice takes the control device away from a handler, and
\* where the handler goes on it gives up its mark; no step of the handler or
\* of those who send to it makes a mark.
LEMMA MarkStep ==
  ASSUME [Next]_vars, Running', direct', ~control'
  PROVE  direct /\ ~control
  <1> USE DEF conns, meta, stream, config, rpc, outside
  <1>1. CASE UNCHANGED <<control, direct>>  BY <1>1
  <1>2. CASE HandleMessage
    <2>1. CASE HandleAddControlDevice  BY <2>1 DEF HandleAddControlDevice
    <2>2. CASE HandleRemoveControlDevice
      <3>1. phase' = "ending" \/ direct' = FALSE
        BY <2>2 DEF HandleRemoveControlDevice, NoLongerDirect
      <3>2. QED  BY <3>1 DEF Running
    <2>3. CASE HandleAddEventsDevice \/ HandleRemoveEventsDevice
      BY <1>1, <2>3 DEF HandleAddEventsDevice, HandleRemoveEventsDevice
    <2>4. CASE HandleRegister \/ HandleConfig \/ HandleFlashSettings
      BY <1>1, <2>4 DEF HandleRegister, HandleConfig, HandleFlashSettings
    <2>5. CASE HandleStartPairing \/ HandleBondOp
      BY <1>1, <2>5 DEF HandleStartPairing, HandleBondOp
    <2>6. CASE HandleSetTransportMode \/ HandleSetDeviceName
      BY <1>1, <2>6 DEF HandleSetTransportMode, HandleSetDeviceName
    <2>7. QED
      BY <1>2, <2>1, <2>2, <2>3, <2>4, <2>5, <2>6 DEF HandleMessage
  <1>3. CASE Startup \/ ResumeTimer \/ RetryTimer \/ StreamsEnded
    BY <1>1, <1>3 DEF Startup, ResumeTimer, RetryTimer, StreamsEnded
  <1>4. CASE HandleClosed \/ Finish \/ MuxSpawned \/ Orphaned
    BY <1>1, <1>4 DEF HandleClosed, Finish, MuxSpawned, Orphaned
  <1>5. CASE ScanFindsDevice \/ ScanMissesDevice
    BY <1>1, <1>5 DEF ScanFindsDevice, ScanMissesDevice, Link
  <1>6. ASSUME NEW h \in Hubs,
               HubAddsDevice(h) \/ HubDropsDevice(h) \/ HubAborted(h)
        PROVE  direct /\ ~control
    BY <1>1, <1>6 DEF HubAddsDevice, HubDropsDevice, HubAborted, Link
  <1>7. ASSUME NEW r \in Requests,
               PairingResult(r) \/ \E k \in RequestKinds : Call(r, k)
        PROVE  direct /\ ~control
    BY <1>1, <1>7 DEF PairingResult, Call
  <1>8. ASSUME NEW s \in BasicStreams \cup {Battery}, StreamCloses(s)
        PROVE  direct /\ ~control
    BY <1>1, <1>8 DEF StreamCloses
  <1>9. CASE UNCHANGED vars  BY <1>1, <1>9 DEF vars
  <1>10. QED
    BY <1>2, <1>3, <1>4, <1>5, <1>6, <1>7, <1>8, <1>9 DEF Next

\* A handler that keeps running never makes the scan believe it has a control
\* device it lost, whatever mark it was spawned under.
THEOREM MarkAlwaysGoesWithControl == Spec => MarkGoesWithControl
  <1>1. [Next]_vars =>
          [Running' /\ direct' /\ ~control' => direct /\ ~control]_vars
    BY MarkStep
  <1>2. QED  BY <1>1, PTL DEF Spec, MarkGoesWithControl

-----------------------------------------------------------------------------
\* A further message leaves an awaited AddEventsDevice where it is.
LEMMA PushOnTheWay ==
  ASSUME TypeOK, NEW k, NEW a, Push(k, a), EventsOnTheWay
  PROVE  EventsOnTheWay'
  <1>1. PICK i \in 1 .. Len(inbox) :
          /\ inbox[i].kind = "AddEventsDevice"
          /\ \A j \in 1 .. i - 1 : inbox[j].kind \in RequestKinds
    BY DEF EventsOnTheWay
  <1>2. inbox \in Seq(Message)  BY DEF TypeOK
  <1>3. /\ Len(inbox') = Len(inbox) + 1
        /\ \A j \in 1 .. Len(inbox) : inbox'[j] = inbox[j]
    BY <1>2, AppendProperties DEF Push
  <1>4. i \in 1 .. Len(inbox') /\ \A j \in 1 .. i : inbox'[j] = inbox[j]
    BY <1>2, <1>3, LenProperties
  <1>5. QED  BY <1>1, <1>4 DEF EventsOnTheWay

\* Once it is queued it is also next to change the connections: any other
\* message taken before it is a request, and brings it one place forward.
LEMMA ReceiveOnTheWay ==
  ASSUME TypeOK, NEW kinds, Receive(kinds), EventsOnTheWay,
         "AddEventsDevice" \notin kinds
  PROVE  Head(inbox).kind \in RequestKinds /\ EventsOnTheWay'
  <1>1. PICK i \in 1 .. Len(inbox) :
          /\ inbox[i].kind = "AddEventsDevice"
          /\ \A j \in 1 .. i - 1 : inbox[j].kind \in RequestKinds
    BY DEF EventsOnTheWay
  <1>2. inbox \in Seq(Message) /\ inbox # << >> /\ inbox' = Tail(inbox)
    BY DEF TypeOK, Receive
  <1>3. /\ Len(inbox') = Len(inbox) - 1
        /\ \A j \in 1 .. Len(inbox') : inbox'[j] = inbox[j + 1]
        /\ Head(inbox) = inbox[1]
        /\ Len(inbox) \in Nat
    BY <1>2, HeadTailProperties, LenProperties
  <1>4. i # 1  BY <1>1, <1>3 DEF Receive
  <1>5. i - 1 \in 1 .. Len(inbox')
    BY <1>3, <1>4
  <1>6. Head(inbox).kind \in RequestKinds  BY <1>1, <1>3, <1>4
  <1>7. inbox'[i - 1].kind = "AddEventsDevice"  BY <1>1, <1>3, <1>5
  <1>8. \A j \in 1 .. (i - 1) - 1 : inbox'[j].kind \in RequestKinds
    BY <1>1, <1>3, <1>5
  <1>9. QED  BY <1>5, <1>6, <1>7, <1>8 DEF EventsOnTheWay

\* While the spawning dongle holds device_handles only requests can have been
\* queued: its AddEventsDevice will be the first connection change.
OnlyRequestsYet ==
  registering => \A i \in 1 .. Len(inbox) : inbox[i].kind \in RequestKinds

\* Queueing keeps both parts, a request in any state and a connection change
\* once the handler is registered.
LEMMA PushIdle ==
  ASSUME TypeOK, NoIdleHandler, OnlyRequestsYet, NEW k, NEW a, Push(k, a),
         UNCHANGED <<phase, conns, registering, aborted>>,
         k \in RequestKinds \/ ~registering
  PROVE  NoIdleHandler' /\ OnlyRequestsYet'
  <1>1. NoIdleHandler'
    BY PushOnTheWay DEF NoIdleHandler, NothingAttached, Running, conns
  <1>2. OnlyRequestsYet'
    <2>1. CASE registering
      <3>1. inbox \in Seq(Message)  BY DEF TypeOK
      <3>2. /\ Len(inbox') = Len(inbox) + 1 /\ Len(inbox) \in Nat
            /\ inbox'[Len(inbox) + 1] = [kind |-> k, arg |-> a]
            /\ \A j \in 1 .. Len(inbox) : inbox'[j] = inbox[j]
        BY <3>1, AppendProperties, LenProperties DEF Push
      <3>3. QED  BY <2>1, <3>2 DEF OnlyRequestsYet
    <2>2. CASE ~registering  BY <2>2 DEF OnlyRequestsYet
    <2>3. QED  BY <2>1, <2>2
  <1>3. QED  BY <1>1, <1>2

\* Taking a message other than AddEventsDevice keeps both parts, if a
\* handler that goes on with nothing attached had nothing attached before.
LEMMA ReceiveIdle ==
  ASSUME TypeOK, NoIdleHandler, OnlyRequestsYet, NEW kinds, Receive(kinds),
         "AddEventsDevice" \notin kinds, UNCHANGED <<registering, aborted>>,
         Running' /\ NothingAttached' => NothingAttached
  PROVE  NoIdleHandler' /\ OnlyRequestsYet'
  <1>1. NoIdleHandler'
    BY ReceiveOnTheWay DEF NoIdleHandler, Running, Receive
  <1>2. OnlyRequestsYet'
    <2>1. inbox \in Seq(Message) /\ inbox # << >> /\ inbox' = Tail(inbox)
      BY DEF TypeOK, Receive
    <2>2. /\ Len(inbox') = Len(inbox) - 1 /\ Len(inbox) \in Nat
          /\ \A j \in 1 .. Len(inbox') : inbox'[j] = inbox[j + 1]
      BY <2>1, HeadTailProperties, LenProperties
    <2>3. QED  BY <2>2 DEF OnlyRequestsYet
  <1>3. QED  BY <1>1, <1>2

\* A handler starts with a connection, or with the dongle about to queue one.
LEMMA InitIdle == Init => NoIdleHandler /\ OnlyRequestsYet
  BY DEF Init, InitDirect, InitMux, NoIdleHandler, NothingAttached,
         OnlyRequestsYet

\* Every step keeps both parts.
LEMMA IdleStep ==
  TypeOK /\ Consistent /\ NoIdleHandler /\ OnlyRequestsYet /\ [Next]_vars
    => NoIdleHandler' /\ OnlyRequestsYet'
  <1> SUFFICES ASSUME TypeOK, Consistent, NoIdleHandler, OnlyRequestsYet,
                      [Next]_vars
               PROVE  NoIdleHandler' /\ OnlyRequestsYet'
    OBVIOUS
  <1> USE DEF conns, meta, stream, config, rpc, outside
  <1>0. ASSUME UNCHANGED <<inbox, conns, registering, aborted>>,
               Running' => Running
        PROVE  NoIdleHandler' /\ OnlyRequestsYet'
    BY <1>0 DEF NoIdleHandler, OnlyRequestsYet, NothingAttached, EventsOnTheWay
  <1>1. CASE Startup  BY <1>0, <1>1 DEF Startup, Running
  <1>2. CASE HandleRegister
    BY <1>2, ReceiveIdle DEF HandleRegister, NothingAttached
  <1>3. CASE HandleConfig
    BY <1>3, ReceiveIdle DEF HandleConfig, NothingAttached
  <1>4. CASE HandleFlashSettings
    BY <1>4, ReceiveIdle DEF HandleFlashSettings, NothingAttached
  <1>5. CASE HandleStartPairing
    BY <1>5, ReceiveIdle DEF HandleStartPairing, NothingAttached
  <1>6. CASE HandleBondOp
    BY <1>6, ReceiveIdle DEF HandleBondOp, NothingAttached
  <1>7. CASE HandleSetTransportMode
    BY <1>7, ReceiveIdle DEF HandleSetTransportMode, NothingAttached
  <1>8. CASE HandleSetDeviceName
    BY <1>8, ReceiveIdle DEF HandleSetDeviceName, NothingAttached
  <1>9. CASE HandleAddEventsDevice
    <2>1. Head(inbox) \in Message /\ Head(inbox).kind = "AddEventsDevice"
      BY <1>9, ReceiveType DEF HandleAddEventsDevice
    <2>2. events' # NoDevice
      <3>1. CASE has_sensor_streams
        BY <1>9, <3>1 DEF HandleAddEventsDevice, Receive, Running, Consistent,
                          StreamsHaveDevice
      <3>2. CASE ~has_sensor_streams
        <4>1. Head(inbox).arg \in Hubs  BY <2>1 DEF Message, RequestKinds
        <4>2. QED  BY <1>9, <3>2, <4>1, Parameters DEF HandleAddEventsDevice
      <3>3. QED  BY <3>1, <3>2
    <2>3. ~registering
      <3>1. inbox \in Seq(Message) /\ inbox # << >>
        BY <1>9 DEF HandleAddEventsDevice, Receive, TypeOK
      <3>2. 1 \in 1 .. Len(inbox) /\ Head(inbox) = inbox[1]
        BY <3>1, HeadTailProperties, EmptySeq, LenProperties
      <3>3. "AddEventsDevice" \notin RequestKinds  BY DEF RequestKinds
      <3>4. QED  BY <2>1, <3>2, <3>3 DEF OnlyRequestsYet
    <2>4. QED  BY <1>9, <2>2, <2>3 DEF HandleAddEventsDevice, NoIdleHandler,
                                       NothingAttached, OnlyRequestsYet
  <1>10. CASE HandleAddControlDevice
    BY <1>10, ReceiveIdle DEF HandleAddControlDevice, NothingAttached
  <1>11. CASE HandleRemoveControlDevice
    BY <1>11, ReceiveIdle
       DEF HandleRemoveControlDevice, NothingAttached, Running
  <1>12. CASE HandleRemoveEventsDevice
    BY <1>12, ReceiveIdle
       DEF HandleRemoveEventsDevice, NothingAttached, Running
  <1>13. CASE ResumeTimer \/ RetryTimer \/ StreamsEnded
    BY <1>0, <1>13 DEF ResumeTimer, RetryTimer, StreamsEnded, Running
  <1>14. CASE HandleClosed  BY <1>0, <1>14 DEF HandleClosed, Running
  <1>15. CASE Finish
    <2>1. Len(inbox') = 0  BY <1>15 DEF Finish
    <2>2. QED  BY <1>15, <2>1
               DEF Finish, NoIdleHandler, Running, OnlyRequestsYet
  <1>16. CASE MuxSpawned
    <2>1. PICK h \in hub_devices : Push("AddEventsDevice", h)
      BY <1>16 DEF MuxSpawned
    <2>2. inbox \in Seq(Message)  BY DEF TypeOK
    <2>3. /\ Len(inbox') = Len(inbox) + 1 /\ Len(inbox) \in Nat
          /\ inbox'[Len(inbox) + 1] = [kind |-> "AddEventsDevice", arg |-> h]
          /\ \A j \in 1 .. Len(inbox) : inbox'[j] = inbox[j]
      BY <2>1, <2>2, AppendProperties, LenProperties DEF Push
    <2>4. EventsOnTheWay'
      <3>1. \A j \in 1 .. (Len(inbox) + 1) - 1 : inbox'[j].kind \in RequestKinds
        BY <1>16, <2>3 DEF OnlyRequestsYet, MuxSpawned
      <3>2. QED  BY <2>3, <3>1 DEF EventsOnTheWay
    <2>5. QED  BY <1>16, <2>4 DEF MuxSpawned, NoIdleHandler, OnlyRequestsYet
  <1>17. CASE ScanFindsDevice
    <2>1. CASE direct
      BY <1>0, <1>17, <2>1 DEF ScanFindsDevice, Link, Running
    <2>2. CASE ~direct
      BY <1>17, <2>2, PushIdle DEF ScanFindsDevice, Link
    <2>3. QED  BY <2>1, <2>2
  <1>18. CASE ScanMissesDevice  BY <1>18, PushIdle DEF ScanMissesDevice, Link
  <1>19. CASE Orphaned  BY <1>0, <1>19 DEF Orphaned, Running
  <1>20. ASSUME NEW h \in Hubs, HubAddsDevice(h) \/ HubDropsDevice(h)
         PROVE  NoIdleHandler' /\ OnlyRequestsYet'
    BY <1>20, PushIdle DEF HubAddsDevice, HubDropsDevice, Link
  <1>21. ASSUME NEW r \in Requests, PairingResult(r)
         PROVE  NoIdleHandler' /\ OnlyRequestsYet'
    BY <1>0, <1>21 DEF PairingResult, Running
  <1>22. ASSUME NEW r \in Requests, NEW k \in RequestKinds, Call(r, k)
         PROVE  NoIdleHandler' /\ OnlyRequestsYet'
    <2>1. CASE phase = "finished"
      BY <1>0, <1>22, <2>1 DEF Call, Running
    <2>2. CASE phase # "finished"  BY <1>22, <2>2, PushIdle DEF Call
    <2>3. QED  BY <2>1, <2>2
  <1>23. ASSUME NEW s \in BasicStreams \cup {Battery}, StreamCloses(s)
         PROVE  NoIdleHandler' /\ OnlyRequestsYet'
    BY <1>0, <1>23 DEF StreamCloses, Running
  <1>24. ASSUME NEW h \in Hubs, HubAborted(h)
         PROVE  NoIdleHandler' /\ OnlyRequestsYet'
    BY <1>24 DEF HubAborted, NoIdleHandler, OnlyRequestsYet, Running,
                 NothingAttached, EventsOnTheWay
  <1>25. CASE UNCHANGED vars  BY <1>0, <1>25 DEF vars, Running
  <1>26. QED
    BY <1>1, <1>2, <1>3, <1>4, <1>5, <1>6, <1>7, <1>8, <1>9, <1>10, <1>11,
       <1>12, <1>13, <1>14, <1>15, <1>16, <1>17, <1>18, <1>19, <1>20, <1>21,
       <1>22, <1>23, <1>24, <1>25
    DEF Next, HandleMessage

\* A handler with nothing attached is one whose first AddEventsDevice is
\* still to be taken, or was never sent because its dongle was unplugged: no
\* order of link changes leaves a dead device in the list.
THEOREM NeverIdle == Spec => []NoIdleHandler
  BY InitType, TypeStep, InitConsistent, ConsistentStep, InitIdle, IdleStep, PTL
     DEF Spec

-----------------------------------------------------------------------------
\* A connection change is queued and no call is concerned.
LEMMA PushLinkWaiting ==
  ASSUME TypeOK, WaitingIsQueued, NEW k, NEW a, a \notin Requests, Push(k, a),
         UNCHANGED reply
  PROVE  WaitingIsQueued'
  <1>1. inbox \in Seq(Message)  BY DEF TypeOK
  <1>2. /\ Len(inbox') = Len(inbox) + 1 /\ Len(inbox) \in Nat
        /\ inbox'[Len(inbox) + 1] = [kind |-> k, arg |-> a]
        /\ \A j \in 1 .. Len(inbox) : inbox'[j] = inbox[j]
    BY <1>1, AppendProperties, LenProperties DEF Push
  <1>3. \A r \in Requests :
          (\E i \in 1 .. Len(inbox') : inbox'[i].arg = r)
            <=> \E i \in 1 .. Len(inbox) : inbox[i].arg = r
    BY <1>2
  <1>4. \A i, j \in 1 .. Len(inbox') :
          inbox'[i].arg = inbox'[j].arg /\ inbox'[i].arg \in Requests => i = j
    BY <1>2 DEF WaitingIsQueued
  <1>5. QED  BY <1>3, <1>4 DEF WaitingIsQueued

\* Taking a message that is not a call's keeps the calls waiting.
LEMMA ReceiveLinkWaiting ==
  ASSUME TypeOK, WaitingIsQueued, NEW kinds, Receive(kinds),
         Head(inbox).arg \notin Requests, UNCHANGED reply
  PROVE  WaitingIsQueued'
  <1>1. inbox \in Seq(Message) /\ inbox # << >> /\ inbox' = Tail(inbox)
    BY DEF TypeOK, Receive
  <1>2. /\ Len(inbox') = Len(inbox) - 1 /\ Len(inbox) \in Nat
        /\ Head(inbox) = inbox[1]
        /\ \A j \in 1 .. Len(inbox') : inbox'[j] = inbox[j + 1]
    BY <1>1, HeadTailProperties, LenProperties
  <1>3. \A r \in Requests :
          (\E i \in 1 .. Len(inbox') : inbox'[i].arg = r)
            <=> \E i \in 1 .. Len(inbox) : inbox[i].arg = r
    <2> SUFFICES ASSUME NEW r \in Requests
                 PROVE  (\E i \in 1 .. Len(inbox') : inbox'[i].arg = r)
                          <=> \E i \in 1 .. Len(inbox) : inbox[i].arg = r
      OBVIOUS
    <2>1. ASSUME NEW i \in 1 .. Len(inbox'), inbox'[i].arg = r
          PROVE  i + 1 \in 1 .. Len(inbox) /\ inbox[i + 1].arg = r
      BY <1>2, <2>1
    <2>2. ASSUME NEW i \in 1 .. Len(inbox), inbox[i].arg = r
          PROVE  i - 1 \in 1 .. Len(inbox') /\ inbox'[i - 1].arg = r
      <3>1. i # 1  BY <1>2, <2>2
      <3>2. i - 1 \in 1 .. Len(inbox')  BY <1>2, <3>1
      <3>3. inbox'[i - 1] = inbox[(i - 1) + 1]  BY <1>2, <3>2
      <3>4. QED  BY <2>2, <3>2, <3>3
    <2>3. QED  BY <2>1, <2>2
  <1>4. ASSUME NEW i \in 1 .. Len(inbox'), NEW j \in 1 .. Len(inbox'),
               inbox'[i].arg = inbox'[j].arg, inbox'[i].arg \in Requests
        PROVE  i = j
    <2>1. i + 1 \in 1 .. Len(inbox) /\ j + 1 \in 1 .. Len(inbox)  BY <1>2
    <2>2. inbox[i + 1] = inbox'[i] /\ inbox[j + 1] = inbox'[j]  BY <1>2
    <2>3. i + 1 = j + 1  BY <1>4, <2>1, <2>2 DEF WaitingIsQueued
    <2>4. QED  BY <2>3
  <1>5. QED  BY <1>3, <1>4 DEF WaitingIsQueued

\* Taking a call's message answers that call and no other: its message was
\* the only one in the queue.
LEMMA AnswerWaiting ==
  ASSUME TypeOK, WaitingIsQueued, Receive(RequestKinds),
         NEW res \in {"ok", "err"}, Answer(res)
  PROVE  WaitingIsQueued'
  <1>1. inbox \in Seq(Message) /\ inbox # << >> /\ inbox' = Tail(inbox)
    BY DEF TypeOK, Receive
  <1>2. /\ Len(inbox') = Len(inbox) - 1 /\ Len(inbox) \in Nat
        /\ Head(inbox) = inbox[1]
        /\ \A j \in 1 .. Len(inbox') : inbox'[j] = inbox[j + 1]
    BY <1>1, HeadTailProperties, LenProperties
  <1>3. Head(inbox).arg \in Requests
    BY ReceiveType DEF Message, RequestKinds
  <1>4. ASSUME NEW i \in 1 .. Len(inbox'), NEW j \in 1 .. Len(inbox'),
               inbox'[i].arg = inbox'[j].arg, inbox'[i].arg \in Requests
        PROVE  i = j
    <2>1. i + 1 \in 1 .. Len(inbox) /\ j + 1 \in 1 .. Len(inbox)  BY <1>2
    <2>2. inbox[i + 1] = inbox'[i] /\ inbox[j + 1] = inbox'[j]  BY <1>2
    <2>3. i + 1 = j + 1  BY <1>4, <2>1, <2>2 DEF WaitingIsQueued
    <2>4. QED  BY <2>3
  <1>5. ASSUME NEW r \in Requests
        PROVE  reply'[r] = "waiting"
                 <=> \E i \in 1 .. Len(inbox') : inbox'[i].arg = r
    <2>1. CASE r = Head(inbox).arg
      <3>1. reply'[r] = res  BY <2>1 DEF Answer, TypeOK
      <3>2. ASSUME NEW i \in 1 .. Len(inbox'), inbox'[i].arg = r PROVE FALSE
        <4>1. /\ i + 1 \in 1 .. Len(inbox) /\ 1 \in 1 .. Len(inbox)
              /\ inbox[i + 1].arg = inbox[1].arg
          BY <1>2, <2>1, <3>2
        <4>2. i + 1 = 1  BY <1>2, <1>3, <4>1 DEF WaitingIsQueued
        <4>3. QED  BY <4>2
      <3>3. QED  BY <3>1, <3>2
    <2>2. CASE r # Head(inbox).arg
      <3>1. reply'[r] = reply[r]  BY <2>2 DEF Answer, TypeOK
      <3>2. ASSUME NEW i \in 1 .. Len(inbox'), inbox'[i].arg = r
            PROVE  i + 1 \in 1 .. Len(inbox) /\ inbox[i + 1].arg = r
        BY <1>2, <3>2
      <3>3. ASSUME NEW i \in 1 .. Len(inbox), inbox[i].arg = r
            PROVE  i - 1 \in 1 .. Len(inbox') /\ inbox'[i - 1].arg = r
        <4>1. i # 1  BY <1>2, <2>2, <3>3
        <4>2. i - 1 \in 1 .. Len(inbox')  BY <1>2, <4>1
        <4>3. inbox'[i - 1] = inbox[(i - 1) + 1]  BY <1>2, <4>2
        <4>4. QED  BY <3>3, <4>2, <4>3
      <3>4. QED  BY <3>1, <3>2, <3>3 DEF WaitingIsQueued
    <2>3. QED  BY <2>1, <2>2
  <1>6. QED  BY <1>4, <1>5 DEF WaitingIsQueued

\* Every step keeps the calls that wait and the messages that are queued in
\* step with one another.
LEMMA WaitingStep ==
  TypeOK /\ WaitingIsQueued /\ [Next]_vars => WaitingIsQueued'
  <1> SUFFICES ASSUME TypeOK, WaitingIsQueued, [Next]_vars
               PROVE  WaitingIsQueued'
    OBVIOUS
  <1> USE DEF conns, meta, stream, config, rpc, outside
  <1>0. ASSUME UNCHANGED <<inbox, reply>> PROVE WaitingIsQueued'
    BY <1>0 DEF WaitingIsQueued
  <1>1. ASSUME NEW kinds, kinds \subseteq RequestKinds, Receive(kinds)
        PROVE  Receive(RequestKinds)
    BY <1>1 DEF Receive
  <1>2. ASSUME NEW kinds,
               kinds \subseteq {"AddEventsDevice", "RemoveEventsDevice",
                                "AddControlDevice", "RemoveControlDevice"},
               Receive(kinds), UNCHANGED reply
        PROVE  WaitingIsQueued'
    <2>1. Head(inbox) \in Message /\ Head(inbox).kind \in kinds
      BY <1>2, ReceiveType
    <2>2. Head(inbox).arg \in Hubs \cup {NoArg}
      BY <1>2, <2>1 DEF Message, RequestKinds
    <2>3. QED  BY <1>2, <2>2, Parameters, ReceiveLinkWaiting
  <1>3. ASSUME NEW k, NEW a \in Hubs \cup {NoArg}, Push(k, a), UNCHANGED reply
        PROVE  WaitingIsQueued'
    BY <1>3, Parameters, PushLinkWaiting
  <1>4. CASE HandleRegister
    BY <1>1, <1>4, AnswerWaiting DEF HandleRegister, RequestKinds
  <1>5. CASE HandleConfig
    BY <1>1, <1>5, AnswerWaiting DEF HandleConfig, RequestKinds
  <1>6. CASE HandleFlashSettings
    BY <1>1, <1>6, AnswerWaiting DEF HandleFlashSettings, RequestKinds
  <1>7. CASE HandleStartPairing
    BY <1>1, <1>7, AnswerWaiting DEF HandleStartPairing, RequestKinds
  <1>8. CASE HandleBondOp
    BY <1>1, <1>8, AnswerWaiting DEF HandleBondOp, RequestKinds
  <1>9. CASE HandleSetTransportMode
    BY <1>1, <1>9, AnswerWaiting DEF HandleSetTransportMode, RequestKinds
  <1>10. CASE HandleSetDeviceName
    BY <1>1, <1>10, AnswerWaiting DEF HandleSetDeviceName, RequestKinds
  <1>11. CASE HandleAddEventsDevice
    BY <1>2, <1>11 DEF HandleAddEventsDevice
  <1>12. CASE HandleAddControlDevice
    BY <1>2, <1>12 DEF HandleAddControlDevice
  <1>13. CASE HandleRemoveControlDevice
    BY <1>2, <1>13 DEF HandleRemoveControlDevice
  <1>14. CASE HandleRemoveEventsDevice
    BY <1>2, <1>14 DEF HandleRemoveEventsDevice
  <1>15. CASE Startup \/ ResumeTimer \/ RetryTimer \/ StreamsEnded \/ HandleClosed
    BY <1>0, <1>15
       DEF Startup, ResumeTimer, RetryTimer, StreamsEnded, HandleClosed
  <1>16. CASE Finish
    <2>1. Len(inbox') = 0  BY <1>16 DEF Finish
    <2>2. \A r \in Requests : reply'[r] # "waiting"  BY <1>16 DEF Finish
    <2>3. QED  BY <2>1, <2>2 DEF WaitingIsQueued
  <1>17. CASE MuxSpawned
    BY <1>3, <1>17 DEF MuxSpawned, TypeOK
  <1>18. CASE ScanFindsDevice
    <2>1. CASE direct  BY <1>0, <1>18, <2>1 DEF ScanFindsDevice, Link
    <2>2. CASE ~direct  BY <1>3, <1>18, <2>2 DEF ScanFindsDevice, Link
    <2>3. QED  BY <2>1, <2>2
  <1>19. CASE ScanMissesDevice  BY <1>3, <1>19 DEF ScanMissesDevice, Link
  <1>20. CASE Orphaned  BY <1>0, <1>20 DEF Orphaned
  <1>21. ASSUME NEW h \in Hubs,
                HubAddsDevice(h) \/ HubDropsDevice(h) \/ HubAborted(h)
         PROVE  WaitingIsQueued'
    BY <1>0, <1>3, <1>21 DEF HubAddsDevice, HubDropsDevice, HubAborted, Link
  <1>22. ASSUME NEW r \in Requests, PairingResult(r) PROVE WaitingIsQueued'
    BY <1>0, <1>22 DEF PairingResult
  <1>23. ASSUME NEW r \in Requests, NEW k \in RequestKinds, Call(r, k)
         PROVE  WaitingIsQueued'
    <2>1. CASE phase = "finished"
      <3>1. inbox' = inbox /\ reply' = [reply EXCEPT ![r] = "dropped"]
            /\ reply[r] = "none"
        BY <1>23, <2>1 DEF Call
      <3>2. \A q \in Requests : reply'[q] = "waiting" <=> reply[q] = "waiting"
        BY <3>1 DEF TypeOK
      <3>3. QED  BY <3>1, <3>2 DEF WaitingIsQueued
    <2>2. CASE phase # "finished"
      <3>1. /\ reply' = [reply EXCEPT ![r] = "waiting"]
            /\ reply[r] = "none"
            /\ Push(k, r)
        BY <1>23, <2>2 DEF Call
      <3>2. inbox \in Seq(Message)  BY DEF TypeOK
      <3>3. /\ Len(inbox') = Len(inbox) + 1 /\ Len(inbox) \in Nat
            /\ inbox'[Len(inbox) + 1] = [kind |-> k, arg |-> r]
            /\ \A j \in 1 .. Len(inbox) : inbox'[j] = inbox[j]
        BY <3>1, <3>2, AppendProperties, LenProperties DEF Push
      <3>4. \A j \in 1 .. Len(inbox) : inbox[j].arg # r
        BY <3>1 DEF WaitingIsQueued
      <3>5. \A i, j \in 1 .. Len(inbox') :
              inbox'[i].arg = inbox'[j].arg /\ inbox'[i].arg \in Requests
                => i = j
        BY <3>3, <3>4 DEF WaitingIsQueued
      <3>6. ASSUME NEW q \in Requests
            PROVE  reply'[q] = "waiting"
                     <=> \E i \in 1 .. Len(inbox') : inbox'[i].arg = q
        <4>1. CASE q = r
          <5>1. reply'[q] = "waiting"  BY <3>1, <4>1 DEF TypeOK
          <5>2. Len(inbox) + 1 \in 1 .. Len(inbox')  BY <3>3
          <5>3. QED  BY <3>3, <4>1, <5>1, <5>2
        <4>2. CASE q # r
          <5>1. reply'[q] = reply[q]  BY <3>1, <4>2 DEF TypeOK
          <5>2. (\E i \in 1 .. Len(inbox') : inbox'[i].arg = q)
                  <=> \E i \in 1 .. Len(inbox) : inbox[i].arg = q
            BY <3>3, <4>2
          <5>3. QED  BY <5>1, <5>2 DEF WaitingIsQueued
        <4>3. QED  BY <4>1, <4>2
      <3>7. QED  BY <3>5, <3>6 DEF WaitingIsQueued
    <2>3. QED  BY <2>1, <2>2
  <1>24. ASSUME NEW s \in BasicStreams \cup {Battery}, StreamCloses(s)
         PROVE  WaitingIsQueued'
    BY <1>0, <1>24 DEF StreamCloses
  <1>25. CASE UNCHANGED vars  BY <1>0, <1>25 DEF vars
  <1>26. QED
    BY <1>4, <1>5, <1>6, <1>7, <1>8, <1>9, <1>10, <1>11, <1>12, <1>13, <1>14,
       <1>15, <1>16, <1>17, <1>18, <1>19, <1>20, <1>21, <1>22, <1>23, <1>24,
       <1>25
    DEF Next, HandleMessage

\* A gRPC call waits exactly as long as its message is queued: no arm of the
\* loop drops a reply channel unused, and ending the task releases the rest.
THEOREM WaitingAlwaysQueued == Spec => []WaitingIsQueued
  <1>1. Init => WaitingIsQueued
    <2> SUFFICES ASSUME Init PROVE WaitingIsQueued  OBVIOUS
    <2>1. Len(inbox) = 0 /\ \A r \in Requests : reply[r] = "none"  BY DEF Init
    <2>2. QED  BY <2>1 DEF WaitingIsQueued
  <1>2. QED  BY <1>1, InitType, TypeStep, WaitingStep, PTL DEF Spec

(***************************************************************************)
(* The refinement.                                                         *)
(***************************************************************************)
Kinds == {"AddEventsDevice", "RemoveEventsDevice", "AddControlDevice",
          "RemoveControlDevice", "Call"}

\* What is queued is a sequence of connection changes and calls.
LEMMA QueuedType ==
  ASSUME TypeOK
  PROVE  /\ Queued \in Seq(Kinds) /\ Len(Queued) = Len(inbox)
         /\ Len(inbox) \in Nat
         /\ \A i \in 1 .. Len(inbox) : Queued[i] = KindOf(inbox[i])
  <1>1. /\ inbox \in Seq(Message) /\ Len(inbox) \in Nat
    BY LenProperties DEF TypeOK
  <1>2. \A i \in 1 .. Len(inbox) : inbox[i] \in Message
    BY <1>1, ElementOfSeq
  <1>3. \A m \in Message : KindOf(m) \in Kinds
    BY DEF Message, KindOf, Kinds
  <1>4. Queued \in [1 .. Len(inbox) -> Kinds]  BY <1>2, <1>3 DEF Queued
  <1>5. QED  BY <1>1, <1>4, LenProperties DEF Queued

\* A message queued is a kind queued.
LEMMA QueuedPush ==
  ASSUME TypeOK, NEW k, NEW a, [kind |-> k, arg |-> a] \in Message, Push(k, a)
  PROVE  Queued' = Append(Queued, IF k \in RequestKinds THEN "Call" ELSE k)
  <1> DEFINE e == IF k \in RequestKinds THEN "Call" ELSE k
             m == [kind |-> k, arg |-> a]
  <1>1. inbox \in Seq(Message) /\ inbox' = Append(inbox, m)
    BY DEF TypeOK, Push
  <1>2. /\ Len(inbox') = Len(inbox) + 1
        /\ \A i \in 1 .. Len(inbox) : inbox'[i] = inbox[i]
        /\ inbox'[Len(inbox) + 1] = m
    BY <1>1, AppendProperties
  <1>3. KindOf(m) = e /\ e \in Kinds
    BY DEF KindOf, Message, Kinds
  <1>4. /\ Append(Queued, e) \in Seq(Kinds)
        /\ Len(Append(Queued, e)) = Len(inbox) + 1
        /\ \A i \in 1 .. Len(inbox) : Append(Queued, e)[i] = KindOf(inbox[i])
        /\ Append(Queued, e)[Len(inbox) + 1] = e
    BY <1>3, QueuedType, AppendProperties
  <1>5. /\ Queued' \in Seq(Kinds) /\ Len(Queued') = Len(inbox')
        /\ \A i \in 1 .. Len(inbox') : Queued'[i] = KindOf(inbox'[i])
    <2>1. inbox' \in Seq(Message)  BY <1>1, PushType
    <2>2. \A i \in 1 .. Len(inbox') : inbox'[i] \in Message
      BY <2>1, ElementOfSeq
    <2>3. \A x \in Message : KindOf(x) \in Kinds
      BY DEF Message, KindOf, Kinds
    <2>4. Queued' \in [1 .. Len(inbox') -> Kinds]
      BY <2>2, <2>3 DEF Queued, KindOf
    <2>5. Len(inbox') \in Nat  BY <2>1, LenProperties
    <2>6. QED  BY <2>4, <2>5, LenProperties DEF Queued, KindOf
  <1>6. Len(inbox) \in Nat  BY <1>1, LenProperties
  <1>7. \A i \in 1 .. Len(inbox') : Queued'[i] = Append(Queued, e)[i]
    BY <1>2, <1>3, <1>4, <1>5, <1>6
  <1> HIDE DEF e
  <1>8. Queued' = Append(Queued, e)
    BY <1>2, <1>4, <1>5, <1>7, SeqEqual
  <1>9. QED  BY <1>8 DEF e

\* A message taken is a kind taken.
LEMMA QueuedReceive ==
  ASSUME TypeOK, NEW kinds, Receive(kinds)
  PROVE  /\ Queued # << >>
         /\ Head(Queued) = KindOf(Head(inbox))
         /\ Queued' = Tail(Queued)
  <1>1. inbox \in Seq(Message) /\ inbox # << >> /\ inbox' = Tail(inbox)
    BY DEF TypeOK, Receive
  <1>2. /\ Len(inbox) \in Nat \ {0} /\ inbox' \in Seq(Message)
        /\ Len(inbox') = Len(inbox) - 1
        /\ \A i \in 1 .. Len(inbox') : inbox'[i] = inbox[i + 1]
    BY <1>1, EmptySeq, HeadTailProperties
  <1>3. /\ Queued \in Seq(Kinds) /\ Len(Queued) = Len(inbox)
        /\ \A i \in 1 .. Len(inbox) : Queued[i] = KindOf(inbox[i])
    BY QueuedType
  <1>4. Queued # << >>  BY <1>2, <1>3, EmptySeq
  <1>5. Head(Queued) = Queued[1] /\ Head(inbox) = inbox[1]  BY <1>1, <1>3
  <1>6. /\ Tail(Queued) \in Seq(Kinds) /\ Len(Tail(Queued)) = Len(inbox) - 1
        /\ \A i \in 1 .. Len(inbox) - 1 : Tail(Queued)[i] = Queued[i + 1]
    BY <1>3, <1>4, HeadTailProperties
  <1>7. /\ Queued' \in Seq(Kinds) /\ Len(Queued') = Len(inbox')
        /\ \A i \in 1 .. Len(inbox') : Queued'[i] = KindOf(inbox'[i])
    <2>1. \A i \in 1 .. Len(inbox') : inbox'[i] \in Message
      BY <1>2, ElementOfSeq
    <2>2. \A x \in Message : KindOf(x) \in Kinds
      BY DEF Message, KindOf, Kinds
    <2>3. Queued' \in [1 .. Len(inbox') -> Kinds]
      BY <2>1, <2>2 DEF Queued, KindOf
    <2>4. Len(inbox') \in Nat  BY <1>2, LenProperties
    <2>5. QED  BY <2>3, <2>4, LenProperties DEF Queued, KindOf
  <1>8. \A i \in 1 .. Len(inbox') : Queued'[i] = Tail(Queued)[i]
    BY <1>2, <1>3, <1>6, <1>7
  <1>9. Queued' = Tail(Queued)
    BY <1>2, <1>6, <1>7, <1>8, SeqEqual
  <1>10. QED  BY <1>2, <1>3, <1>4, <1>5, <1>9

\* What the connections look like from outside.
LEMMA Seen ==
  ASSUME TypeOK
  PROVE  /\ Connected \in LinkSide!Connections
         /\ Connected.phase = IF Running THEN "running" ELSE phase
         /\ Connected.control = control
         /\ Connected.direct = direct
         /\ events = NoDevice => Connected.events = "none"
         /\ events = WiredVm => Connected.events = "wired"
         /\ events \in Hubs => Connected.events = "ble"
  <1>1. events \in Hubs => events # NoDevice /\ events # WiredVm
    BY Parameters
  <1>2. NoDevice # WiredVm  BY Parameters
  <1>3. QED
    BY <1>1, <1>2
    DEF TypeOK, Running, Connected, Source, LinkSide!Connections,
        LinkSide!Sources

\* The connection that carries events in USB mode: only a handler that scans
\* leave alone has it, so that no other mode is ever read back for it.
WiredIsDirect ==
  /\ events = WiredVm => direct /\ device.events_transport = "Wired"
  /\ direct => \A i \in 1 .. Len(inbox) : inbox[i].kind # "AddControlDevice"

LEMMA InitWired == Init => WiredIsDirect
  <1> SUFFICES ASSUME Init PROVE WiredIsDirect  OBVIOUS
  <1>1. Len(inbox) = 0  BY DEF Init
  <1>2. events = WiredVm => direct /\ device.events_transport = "Wired"
    <2>1. ASSUME NEW usb_mode \in BOOLEAN, InitDirect(usb_mode)
          PROVE  events = WiredVm => direct /\ device.events_transport = "Wired"
      <3>1. CASE usb_mode = TRUE  BY <2>1, <3>1 DEF InitDirect
      <3>2. CASE usb_mode = FALSE  BY <2>1, <3>2, Parameters DEF InitDirect
      <3>3. QED  BY <3>1, <3>2
    <2>2. CASE InitMux  BY <2>2, Parameters DEF InitMux
    <2>3. QED  BY <2>1, <2>2 DEF Init
  <1>3. QED  BY <1>1, <1>2 DEF WiredIsDirect

\* Only a scan that finds the device queues AddControlDevice.
LEMMA PushWired ==
  ASSUME TypeOK, WiredIsDirect, NEW k, NEW a, Push(k, a),
         direct => k # "AddControlDevice", UNCHANGED <<events, direct>>,
         events = WiredVm => device'.events_transport = device.events_transport
  PROVE  WiredIsDirect'
  <1> DEFINE m == [kind |-> k, arg |-> a]
  <1>1. inbox \in Seq(Message) /\ inbox' = Append(inbox, m)
    BY DEF TypeOK, Push
  <1>2. /\ Len(inbox) \in Nat /\ Len(inbox') = Len(inbox) + 1
        /\ \A i \in 1 .. Len(inbox) : inbox'[i] = inbox[i]
        /\ inbox'[Len(inbox) + 1] = m
    BY <1>1
  <1>3. m.kind = k  OBVIOUS
  <1>4. ASSUME direct, NEW i \in 1 .. Len(inbox')
        PROVE  inbox'[i].kind # "AddControlDevice"
    <2>1. CASE i \in 1 .. Len(inbox)  BY <1>2, <1>4, <2>1 DEF WiredIsDirect
    <2>2. CASE i = Len(inbox) + 1  BY <1>2, <1>3, <1>4, <2>2
    <2>3. QED  BY <1>2, <2>1, <2>2
  <1>5. QED  BY <1>4 DEF WiredIsDirect

LEMMA ReceiveWired ==
  ASSUME TypeOK, WiredIsDirect, NEW kinds, Receive(kinds),
         direct' => direct,
         events' = WiredVm => events = WiredVm /\ direct'
                     /\ device'.events_transport = device.events_transport
  PROVE  WiredIsDirect'
  <1>1. inbox \in Seq(Message) /\ inbox # << >> /\ inbox' = Tail(inbox)
    BY DEF TypeOK, Receive
  <1>2. /\ Len(inbox) \in Nat /\ Len(inbox') = Len(inbox) - 1
        /\ \A i \in 1 .. Len(inbox') : inbox'[i] = inbox[i + 1]
    BY <1>1, LenProperties, HeadTailProperties
  <1>3. ASSUME direct', NEW i \in 1 .. Len(inbox')
        PROVE  inbox'[i].kind # "AddControlDevice"
    <2>1. i + 1 \in 1 .. Len(inbox)  BY <1>2
    <2>2. QED  BY <1>2, <1>3, <2>1 DEF WiredIsDirect
  <1>4. QED  BY <1>3 DEF WiredIsDirect

LEMMA WiredStep == TypeOK /\ WiredIsDirect /\ [Next]_vars => WiredIsDirect'
  <1> SUFFICES ASSUME TypeOK, WiredIsDirect, [Next]_vars PROVE WiredIsDirect'
    OBVIOUS
  <1> USE DEF conns, meta, stream, config, rpc, outside
  <1>1. ASSUME UNCHANGED <<inbox, events, direct, device>>
        PROVE  WiredIsDirect'
    BY <1>1 DEF WiredIsDirect
  <1>2. ASSUME NEW kinds, Receive(kinds), UNCHANGED <<conns, outside>>,
               device'.events_transport = device.events_transport
        PROVE  WiredIsDirect'
    BY <1>2, ReceiveWired DEF WiredIsDirect
  <1>3. CASE HandleMessage
    <2>1. CASE HandleRegister  BY <1>2, <2>1 DEF HandleRegister
    <2>2. CASE HandleConfig  BY <1>2, <2>2 DEF HandleConfig
    <2>3. CASE HandleFlashSettings  BY <1>2, <2>3 DEF HandleFlashSettings
    <2>4. CASE HandleStartPairing  BY <1>2, <2>4 DEF HandleStartPairing
    <2>5. CASE HandleBondOp  BY <1>2, <2>5 DEF HandleBondOp
    <2>6. CASE HandleSetTransportMode
      BY <1>2, <2>6 DEF HandleSetTransportMode
    <2>7. CASE HandleSetDeviceName
      <3>1. device'.events_transport = device.events_transport
        BY <2>7 DEF HandleSetDeviceName, TypeOK, Device
      <3>2. QED  BY <1>2, <2>7, <3>1 DEF HandleSetDeviceName
    <2>8. CASE HandleAddEventsDevice
      <3>1. Receive({"AddEventsDevice"})  BY <2>8 DEF HandleAddEventsDevice
      <3>2. CASE has_sensor_streams
        BY <2>8, <3>1, <3>2, ReceiveWired
        DEF HandleAddEventsDevice, WiredIsDirect
      <3>3. CASE ~has_sensor_streams
        <4>1. Head(inbox).arg \in Hubs
          BY <3>1, ReceiveType DEF Message, RequestKinds
        <4>2. events' # WiredVm
          BY <2>8, <3>3, <4>1, Parameters DEF HandleAddEventsDevice
        <4>3. QED  BY <2>8, <3>1, <4>2, ReceiveWired DEF HandleAddEventsDevice
      <3>4. QED  BY <3>2, <3>3
    <2>9. CASE HandleAddControlDevice
      <3>1. Receive({"AddControlDevice"})  BY <2>9 DEF HandleAddControlDevice
      <3>2. ~direct
        <4>1. inbox \in Seq(Message) /\ inbox # << >>
          BY <3>1 DEF TypeOK, Receive
        <4>2. Len(inbox) \in Nat \ {0} /\ Head(inbox) = inbox[1]
          BY <4>1, EmptySeq
        <4>3. QED  BY <3>1, <4>2 DEF WiredIsDirect, Receive
      <3>3. events' # WiredVm
        BY <2>9, <3>2 DEF HandleAddControlDevice, WiredIsDirect
      <3>4. QED  BY <2>9, <3>1, <3>3, ReceiveWired DEF HandleAddControlDevice
    <2>10. CASE HandleRemoveControlDevice
      <3>1. Receive({"RemoveControlDevice"})
        BY <2>10 DEF HandleRemoveControlDevice
      <3>2. direct' => direct
        BY <2>10 DEF HandleRemoveControlDevice, NoLongerDirect
      <3>3. events' # WiredVm
        BY <2>10, Parameters
        DEF HandleRemoveControlDevice, NoLongerDirect, WiredIsDirect
      <3>4. QED  BY <3>1, <3>2, <3>3, ReceiveWired
    <2>11. CASE HandleRemoveEventsDevice
      <3>1. /\ Receive({"RemoveEventsDevice"})
            /\ events' # WiredVm /\ direct' = direct
        BY <2>11, Parameters DEF HandleRemoveEventsDevice
      <3>2. QED  BY <3>1, ReceiveWired
    <2>12. QED
      BY <1>3, <2>1, <2>2, <2>3, <2>4, <2>5, <2>6, <2>7, <2>8, <2>9, <2>10,
         <2>11
      DEF HandleMessage
  <1>4. CASE Startup  BY <1>1, <1>4 DEF Startup
  <1>5. CASE ResumeTimer  BY <1>1, <1>5 DEF ResumeTimer
  <1>6. CASE RetryTimer  BY <1>1, <1>6 DEF RetryTimer
  <1>7. CASE StreamsEnded  BY <1>1, <1>7 DEF StreamsEnded
  <1>8. CASE HandleClosed  BY <1>1, <1>8 DEF HandleClosed
  <1>9. CASE Finish
    <2>1. Len(inbox') = 0  BY <1>9 DEF Finish
    <2>2. QED  BY <1>9, <2>1 DEF Finish, WiredIsDirect
  <1>10. CASE MuxSpawned
    <2>1. PICK h \in hub_devices : Push("AddEventsDevice", h)
      BY <1>10 DEF MuxSpawned
    <2>2. QED  BY <1>10, <2>1, PushWired DEF MuxSpawned
  <1>11. CASE ScanFindsDevice
    <2>1. CASE direct  BY <1>1, <1>11, <2>1 DEF ScanFindsDevice, Link
    <2>2. CASE ~direct
      BY <1>11, <2>2, PushWired DEF ScanFindsDevice, Link
    <2>3. QED  BY <2>1, <2>2
  <1>12. CASE ScanMissesDevice
    BY <1>12, PushWired DEF ScanMissesDevice, Link
  <1>13. CASE Orphaned  BY <1>1, <1>13 DEF Orphaned
  <1>14. ASSUME NEW h \in Hubs, HubAddsDevice(h) PROVE WiredIsDirect'
    BY <1>14, PushWired DEF HubAddsDevice, Link
  <1>15. ASSUME NEW h \in Hubs, HubDropsDevice(h) PROVE WiredIsDirect'
    BY <1>15, PushWired DEF HubDropsDevice, Link
  <1>16. ASSUME NEW h \in Hubs, HubAborted(h) PROVE WiredIsDirect'
    BY <1>1, <1>16 DEF HubAborted
  <1>17. ASSUME NEW r \in Requests, PairingResult(r) PROVE WiredIsDirect'
    BY <1>1, <1>17 DEF PairingResult
  <1>18. ASSUME NEW r \in Requests, NEW k \in RequestKinds, Call(r, k)
         PROVE  WiredIsDirect'
    <2>1. CASE phase = "finished"  BY <1>1, <1>18, <2>1 DEF Call
    <2>2. CASE phase # "finished"
      <3>1. k # "AddControlDevice"  BY DEF RequestKinds
      <3>2. QED  BY <1>18, <2>2, <3>1, PushWired DEF Call
    <2>3. QED  BY <2>1, <2>2
  <1>19. ASSUME NEW s \in BasicStreams \cup {Battery}, StreamCloses(s)
         PROVE  WiredIsDirect'
    BY <1>1, <1>19 DEF StreamCloses
  <1>20. CASE UNCHANGED vars  BY <1>1, <1>20 DEF vars
  <1>21. QED
    BY <1>3, <1>4, <1>5, <1>6, <1>7, <1>8, <1>9, <1>10, <1>11, <1>12, <1>13,
       <1>14, <1>15, <1>16, <1>17, <1>18, <1>19, <1>20
    DEF Next

\* Every spawn is a spawn of LinkHandler.
LEMMA InitLinks == Init => LinkSide!LinkInit
  <1> SUFFICES ASSUME Init PROVE LinkSide!LinkInit  OBVIOUS
  <1>1. TypeOK  BY InitType
  <1>2. phase = "startup" /\ inbox = << >>  BY DEF Init
  <1>3. /\ control => direct
        /\ events \in {NoDevice, WiredVm}
        /\ events = WiredVm => control
    <2>1. ASSUME NEW usb_mode \in BOOLEAN, InitDirect(usb_mode)
          PROVE  /\ control => direct
                 /\ events \in {NoDevice, WiredVm}
                 /\ events = WiredVm => control
      BY <2>1 DEF InitDirect
    <2>2. CASE InitMux  BY <2>2, Parameters DEF InitMux
    <2>3. QED  BY <2>1, <2>2 DEF Init
  <1>4. Queued = << >>
    <2>1. Queued \in Seq(Kinds) /\ Len(Queued) = Len(inbox)
      BY <1>1, QueuedType
    <2>2. QED  BY <1>2, <2>1, EmptySeq
  <1>5. /\ Connected.phase = "running"
        /\ Connected.control => Connected.direct
        /\ Connected.events \in {"none", "wired"}
        /\ Connected.events = "wired" => Connected.control
    BY <1>1, <1>2, <1>3, Seen, Parameters DEF Running
  <1>6. QED  BY <1>1, <1>4, <1>5, Seen DEF LinkSide!LinkInit

\* The connections are taken field by field.
LEMMA SameConnections ==
  ASSUME UNCHANGED <<conns, direct>>, phase' = phase \/ (Running /\ Running')
  PROVE  Connected' = Connected
  BY DEF conns, Connected, Source, Running

LEMMA SameQueue ==
  ASSUME UNCHANGED inbox
  PROVE  Queued' = Queued
  BY DEF Queued, KindOf

\* Streams, timers and metadata do not show.
LEMMA Unseen ==
  ASSUME UNCHANGED <<inbox, conns, direct>>,
         phase' = phase \/ (Running /\ Running')
  PROVE  UNCHANGED LinkSide!linkVars
  BY SameConnections, SameQueue DEF LinkSide!linkVars

\* A message queued is a Send.
LEMMA Sent ==
  ASSUME TypeOK, phase # "finished", NEW k, NEW a,
         [kind |-> k, arg |-> a] \in Message, Push(k, a),
         UNCHANGED <<phase, conns, direct>>
  PROVE  LinkSide!LinkNext
  <1> DEFINE e == IF k \in RequestKinds THEN "Call" ELSE k
  <1>1. Queued' = Append(Queued, e)  BY QueuedPush
  <1>2. Connected' = Connected  BY SameConnections
  <1>3. Connected.phase # "finished"  BY Seen
  <1>4. e \in LinkSide!LinkKinds \cup {"Call"}
    BY DEF Message, LinkSide!LinkKinds
  <1>5. LinkSide!Send(e)  BY <1>1, <1>2, <1>3 DEF LinkSide!Send
  <1>6. QED  BY <1>4, <1>5 DEF LinkSide!LinkNext

\* A message taken, with one of the known outcomes, is a Take.
LEMMA Taken ==
  ASSUME TypeOK, NEW kinds, Receive(kinds),
         Connected' \in LinkSide!Left(Connected, KindOf(Head(inbox)))
  PROVE  LinkSide!LinkNext
  <1>1. Connected.phase = "running"  BY Seen DEF Receive, Running
  <1>2. LinkSide!Take  BY <1>1, QueuedReceive DEF LinkSide!Take
  <1>3. QED  BY <1>2 DEF LinkSide!LinkNext

\* A call that leaves the connections alone.
LEMMA CallTaken ==
  ASSUME TypeOK, Receive(RequestKinds), UNCHANGED <<phase, conns, direct>>
  PROVE  LinkSide!LinkNext
  <1>1. KindOf(Head(inbox)) = "Call"  BY DEF KindOf, Receive
  <1>2. Connected' = Connected  BY SameConnections
  <1>3. Connected' \in LinkSide!Left(Connected, KindOf(Head(inbox)))
    BY <1>1, <1>2 DEF LinkSide!Left
  <1>4. QED  BY <1>3, Taken

\* The connections after a step, field by field.
LEMMA SeenNext ==
  ASSUME TypeOK, TypeOK', Running
  PROVE  /\ phase' = "ending" /\ UNCHANGED <<control, events, direct>>
           => Connected' = [Connected EXCEPT !.phase = "ending"]
         /\ control' = TRUE /\ UNCHANGED <<phase, events, direct>>
           => Connected' = [Connected EXCEPT !.control = TRUE]
         /\ events' \in Hubs /\ UNCHANGED <<phase, control, direct>>
           => Connected' = [Connected EXCEPT !.events = "ble"]
         /\ control' = FALSE /\ direct' = FALSE /\ UNCHANGED <<phase, events>>
           => Connected' = [Connected EXCEPT !.control = FALSE,
                                             !.direct = FALSE]
         /\ control' = FALSE /\ events' = NoDevice /\ phase' = "ending"
            /\ UNCHANGED direct
           => Connected' = [Connected EXCEPT !.control = FALSE,
                                             !.events = "none",
                                             !.phase = "ending"]
         /\ events' = NoDevice /\ UNCHANGED <<phase, control, direct>>
           => Connected' = [Connected EXCEPT !.events = "none"]
         /\ events' = NoDevice /\ phase' = "ending"
            /\ UNCHANGED <<control, direct>>
           => Connected' = [Connected EXCEPT !.events = "none",
                                             !.phase = "ending"]
  <1>1. Connected \in LinkSide!Connections /\ Connected.phase = "running"
        /\ Connected.control = control /\ Connected.direct = direct
    BY Seen
  <1>2. /\ Connected' \in LinkSide!Connections
        /\ Connected'.control = control' /\ Connected'.direct = direct'
        /\ events' = NoDevice => Connected'.events = "none"
        /\ events' \in Hubs => Connected'.events = "ble"
    <2>1. events' \in Hubs => events' # NoDevice /\ events' # WiredVm
      BY Parameters
    <2>2. NoDevice # WiredVm  BY Parameters
    <2>3. QED
      BY <2>1, <2>2
      DEF TypeOK, Running, Connected, Source, LinkSide!Connections,
          LinkSide!Sources
  <1>3. /\ UNCHANGED phase => Connected'.phase = "running"
        /\ phase' = "ending" => Connected'.phase = "ending"
    BY DEF Connected, Running
  <1>4. ASSUME UNCHANGED events PROVE Connected'.events = Connected.events
    BY <1>4 DEF Connected, Source
  <1> HIDE DEF Connected
  <1>5. ASSUME phase' = "ending", UNCHANGED <<control, events, direct>>
        PROVE  Connected' = [Connected EXCEPT !.phase = "ending"]
    BY <1>1, <1>2, <1>3, <1>4, <1>5 DEF LinkSide!Connections
  <1>6. ASSUME control' = TRUE, UNCHANGED <<phase, events, direct>>
        PROVE  Connected' = [Connected EXCEPT !.control = TRUE]
    BY <1>1, <1>2, <1>3, <1>4, <1>6 DEF LinkSide!Connections
  <1>7. ASSUME events' \in Hubs, UNCHANGED <<phase, control, direct>>
        PROVE  Connected' = [Connected EXCEPT !.events = "ble"]
    BY <1>1, <1>2, <1>3, <1>7 DEF LinkSide!Connections
  <1>8. ASSUME control' = FALSE, direct' = FALSE, UNCHANGED <<phase, events>>
        PROVE  Connected' = [Connected EXCEPT !.control = FALSE,
                                              !.direct = FALSE]
    BY <1>1, <1>2, <1>3, <1>4, <1>8 DEF LinkSide!Connections
  <1>9. ASSUME control' = FALSE, events' = NoDevice, phase' = "ending",
               UNCHANGED direct
        PROVE  Connected' = [Connected EXCEPT !.control = FALSE,
                                              !.events = "none",
                                              !.phase = "ending"]
    BY <1>1, <1>2, <1>3, <1>9 DEF LinkSide!Connections
  <1>10. ASSUME events' = NoDevice, UNCHANGED <<phase, control, direct>>
         PROVE  Connected' = [Connected EXCEPT !.events = "none"]
    BY <1>1, <1>2, <1>3, <1>10 DEF LinkSide!Connections
  <1>11. ASSUME events' = NoDevice, phase' = "ending",
               UNCHANGED <<control, direct>>
        PROVE  Connected' = [Connected EXCEPT !.events = "none",
                                              !.phase = "ending"]
    BY <1>1, <1>2, <1>3, <1>11 DEF LinkSide!Connections
  <1>12. QED  BY <1>5, <1>6, <1>7, <1>8, <1>9, <1>10, <1>11

LEMMA HandleMessageLinks ==
  TypeOK /\ TypeOK' /\ Consistent /\ WiredIsDirect /\ HandleMessage
    => LinkSide!LinkNext
  <1> SUFFICES ASSUME TypeOK, TypeOK', Consistent, WiredIsDirect, HandleMessage
               PROVE  LinkSide!LinkNext
    OBVIOUS
  <1> USE DEF conns, meta, stream, config, rpc, outside
  <1>a. /\ {"ReadRegister", "WriteRegister"} \subseteq RequestKinds
        /\ {"ReadConfig", "WriteConfig"} \subseteq RequestKinds
        /\ {"CancelPairing", "ClearBond"} \subseteq RequestKinds
        /\ {"FlashSettings", "StartPairing", "SetTransportMode",
            "SetDeviceName"} \subseteq RequestKinds
        /\ LinkSide!LinkKinds \cap RequestKinds = {}
    BY DEF RequestKinds, LinkSide!LinkKinds
  <1>b. ASSUME NEW k \in LinkSide!LinkKinds, Receive({k})
        PROVE  LinkSide!Left(Connected, KindOf(Head(inbox)))
                 = LinkSide!Outcomes(Connected, k)
    <2>1. KindOf(Head(inbox)) = k  BY <1>a, <1>b DEF KindOf, Receive
    <2>2. k # "Call"  BY DEF LinkSide!LinkKinds
    <2>3. QED  BY <2>1, <2>2 DEF LinkSide!Left
  <1>c. ASSUME NEW kinds, Receive(kinds)
        PROVE  Running
    BY <1>c DEF Receive, Running
  <1>1. CASE HandleRegister
    BY <1>a, <1>1, CallTaken DEF HandleRegister, Receive
  <1>2. CASE HandleConfig
    BY <1>a, <1>2, CallTaken DEF HandleConfig, Receive
  <1>3. CASE HandleFlashSettings
    BY <1>a, <1>3, CallTaken DEF HandleFlashSettings, Receive
  <1>4. CASE HandleStartPairing
    BY <1>a, <1>4, CallTaken DEF HandleStartPairing, Receive
  <1>5. CASE HandleBondOp
    BY <1>a, <1>5, CallTaken DEF HandleBondOp, Receive
  <1>6. CASE HandleSetTransportMode
    <2>1. Receive({"SetTransportMode"})  BY <1>6 DEF HandleSetTransportMode
    <2>2. CASE control
      <3>1. Connected' = [Connected EXCEPT !.phase = "ending"]
        <4>1. phase' = "ending" /\ UNCHANGED <<control, events, direct>>
          BY <1>6, <2>2 DEF HandleSetTransportMode
        <4>2. QED  BY <1>c, <2>1, <4>1, SeenNext
      <3>2. Connected.control  BY <2>2, Seen
      <3>3. KindOf(Head(inbox)) = "Call"  BY <1>a, <2>1 DEF KindOf, Receive
      <3>4. Connected' \in LinkSide!Left(Connected, KindOf(Head(inbox)))
        BY <3>1, <3>2, <3>3 DEF LinkSide!Left
      <3>5. QED  BY <2>1, <3>4, Taken
    <2>3. CASE ~control
      BY <1>a, <1>6, <2>3, CallTaken DEF HandleSetTransportMode, Receive
    <2>4. QED  BY <2>2, <2>3
  <1>7. CASE HandleSetDeviceName
    BY <1>a, <1>7, CallTaken DEF HandleSetDeviceName, Receive
  <1>8. CASE HandleAddEventsDevice
    <2>1. Receive({"AddEventsDevice"})
          /\ "AddEventsDevice" \in LinkSide!LinkKinds
      BY <1>8 DEF HandleAddEventsDevice, LinkSide!LinkKinds
    <2>2. Connected'
            \in LinkSide!Outcomes(Connected, "AddEventsDevice")
      <3>1. CASE has_sensor_streams /\ Connected.events # "none"
        <4>1. Connected' = Connected
          BY <1>8, <3>1, SameConnections DEF HandleAddEventsDevice
        <4>2. QED  BY <3>1, <4>1 DEF LinkSide!Outcomes
      <3>2. CASE ~has_sensor_streams
        <4>1. Head(inbox).arg \in Hubs
          BY <2>1, ReceiveType DEF Message, RequestKinds
        <4>2. events' \in Hubs /\ UNCHANGED <<phase, control, direct>>
          BY <1>8, <3>2, <4>1 DEF HandleAddEventsDevice
        <4>3. Connected' = [Connected EXCEPT !.events = "ble"]
          BY <1>c, <2>1, <4>2, SeenNext
        <4>4. QED  BY <4>3 DEF LinkSide!Outcomes
      <3>3. has_sensor_streams => Connected.events # "none"
        <4>1. has_sensor_streams => events \in Hubs \cup {WiredVm}
          BY <1>c, <2>1 DEF Consistent, StreamsHaveDevice, TypeOK
        <4>2. QED  BY <4>1, Seen
      <3>4. QED  BY <3>1, <3>2, <3>3
    <2>3. QED  BY <1>b, <2>1, <2>2, Taken
  <1>9. CASE HandleAddControlDevice
    <2>1. Receive({"AddControlDevice"})
          /\ "AddControlDevice" \in LinkSide!LinkKinds
      BY <1>9 DEF HandleAddControlDevice, LinkSide!LinkKinds
    <2>2. Connected' = [Connected EXCEPT !.control = TRUE]
      <3>1. control' = TRUE /\ UNCHANGED <<phase, events, direct>>
        BY <1>9 DEF HandleAddControlDevice
      <3>2. QED  BY <1>c, <2>1, <3>1, SeenNext
    <2>3. Connected' \in LinkSide!Outcomes(Connected, "AddControlDevice")
      BY <2>2 DEF LinkSide!Outcomes
    <2>4. QED  BY <1>b, <2>1, <2>3, Taken
  <1>10. CASE HandleRemoveControlDevice
    <2>1. Receive({"RemoveControlDevice"})
          /\ "RemoveControlDevice" \in LinkSide!LinkKinds
      BY <1>10 DEF HandleRemoveControlDevice, LinkSide!LinkKinds
    <2> DEFINE has_independent_ble_events ==
                 /\ events # NoDevice
                 /\ device.events_transport = "Bluetooth"
                 /\ device.events_connected
    <2>2. CASE has_independent_ble_events
      <3>1. events \in Hubs  BY <2>2 DEF TypeOK, WiredIsDirect
      <3>2. Connected.events = "ble"  BY <3>1, Seen
      <3>3. Connected' = [Connected EXCEPT !.control = FALSE, !.direct = FALSE]
        <4>1. /\ control' = FALSE /\ direct' = FALSE
              /\ UNCHANGED <<phase, events>>
          BY <1>10, <2>2 DEF HandleRemoveControlDevice, NoLongerDirect
        <4>2. QED  BY <1>c, <2>1, <4>1, SeenNext
      <3>4. Connected' \in LinkSide!Outcomes(Connected, "RemoveControlDevice")
        BY <3>2, <3>3 DEF LinkSide!Outcomes
      <3>5. QED  BY <1>b, <2>1, <3>4, Taken
    <2>3. CASE ~has_independent_ble_events
      <3>1. Connected' = [Connected EXCEPT !.control = FALSE, !.events = "none",
                                           !.phase = "ending"]
        <4>1. /\ control' = FALSE /\ events' = NoDevice /\ phase' = "ending"
              /\ UNCHANGED direct
          BY <1>10, <2>3 DEF HandleRemoveControlDevice
        <4>2. QED  BY <1>c, <2>1, <4>1, SeenNext
      <3>2. Connected' \in LinkSide!Outcomes(Connected, "RemoveControlDevice")
        BY <3>1 DEF LinkSide!Outcomes
      <3>3. QED  BY <1>b, <2>1, <3>2, Taken
    <2>4. QED  BY <2>2, <2>3
  <1>11. CASE HandleRemoveEventsDevice
    <2>1. Receive({"RemoveEventsDevice"})
          /\ "RemoveEventsDevice" \in LinkSide!LinkKinds
      BY <1>11 DEF HandleRemoveEventsDevice, LinkSide!LinkKinds
    <2>2. CASE control
      <3>1. events' = NoDevice /\ UNCHANGED <<phase, control, direct>>
        BY <1>11, <2>2 DEF HandleRemoveEventsDevice
      <3>2. Connected' = [Connected EXCEPT !.events = "none"]
        BY <1>c, <2>1, <3>1, SeenNext
      <3>3. Connected.control /\ Connected \in LinkSide!Connections
        BY <2>2, Seen
      <3>4. [Connected EXCEPT !.events = "none"]
              = [Connected EXCEPT !.events = "none", !.phase = @]
        BY <3>3 DEF LinkSide!Connections
      <3>5. Connected' \in LinkSide!Outcomes(Connected, "RemoveEventsDevice")
        BY <3>2, <3>3, <3>4 DEF LinkSide!Outcomes
      <3>6. QED  BY <1>b, <2>1, <3>5, Taken
    <2>3. CASE ~control
      <3>1. /\ events' = NoDevice /\ phase' = "ending"
            /\ UNCHANGED <<control, direct>>
        BY <1>11, <2>3 DEF HandleRemoveEventsDevice
      <3>2. Connected' = [Connected EXCEPT !.events = "none",
                                           !.phase = "ending"]
        BY <1>c, <2>1, <3>1, SeenNext
      <3>3. ~Connected.control  BY <2>3, Seen
      <3>4. Connected' \in LinkSide!Outcomes(Connected, "RemoveEventsDevice")
        BY <3>2, <3>3 DEF LinkSide!Outcomes
      <3>5. QED  BY <1>b, <2>1, <3>4, Taken
    <2>4. QED  BY <2>2, <2>3
  <1>12. QED
    BY <1>1, <1>2, <1>3, <1>4, <1>5, <1>6, <1>7, <1>8, <1>9, <1>10, <1>11
    DEF HandleMessage

\* As long as the spawning dongle has not queued its message nothing can make
\* the handler leave its loop: the message is never sent to a finished task.
SpawnIsRunning == registering => Running /\ open /\ ~control

LEMMA InitSpawn == Init => SpawnIsRunning
  BY DEF Init, InitDirect, InitMux, SpawnIsRunning, Running

LEMMA SpawnStep ==
  TypeOK /\ OnlyRequestsYet /\ SpawnIsRunning /\ [Next]_vars
    => SpawnIsRunning'
  <1> SUFFICES ASSUME TypeOK, OnlyRequestsYet, SpawnIsRunning, [Next]_vars
               PROVE  SpawnIsRunning'
    OBVIOUS
  <1> USE DEF conns, meta, stream, config, rpc, outside, SpawnIsRunning
  <1>1. ASSUME UNCHANGED <<control, registering, open>>, Running => Running'
        PROVE  SpawnIsRunning'
    BY <1>1
  <1>2. CASE HandleMessage
    <2>1. ASSUME NEW kinds, Receive(kinds), kinds \cap RequestKinds = {}
          PROVE  ~registering
      <3>1. inbox \in Seq(Message) /\ inbox # << >>
        BY <2>1 DEF Receive, TypeOK
      <3>2. 1 \in 1 .. Len(inbox) /\ Head(inbox) = inbox[1]
        BY <3>1, EmptySeq
      <3>3. Head(inbox).kind \notin RequestKinds  BY <2>1 DEF Receive
      <3>4. QED  BY <3>2, <3>3 DEF OnlyRequestsYet
    <2>2. {"AddEventsDevice", "AddControlDevice", "RemoveControlDevice",
           "RemoveEventsDevice"} \cap RequestKinds = {}
      BY DEF RequestKinds
    <2>3. CASE HandleAddEventsDevice
      BY <2>1, <2>2, <2>3 DEF HandleAddEventsDevice
    <2>4. CASE HandleAddControlDevice
      BY <2>1, <2>2, <2>4 DEF HandleAddControlDevice
    <2>5. CASE HandleRemoveControlDevice
      <3>1. ~registering  BY <2>1, <2>2, <2>5 DEF HandleRemoveControlDevice
      <3>2. QED  BY <2>5, <3>1 DEF HandleRemoveControlDevice
    <2>6. CASE HandleRemoveEventsDevice
      BY <2>1, <2>2, <2>6 DEF HandleRemoveEventsDevice
    <2>7. CASE HandleSetTransportMode
      BY <1>1, <2>7 DEF HandleSetTransportMode, Running
    <2>8. CASE HandleRegister \/ HandleConfig \/ HandleFlashSettings
                 \/ HandleStartPairing \/ HandleBondOp \/ HandleSetDeviceName
      BY <1>1, <2>8
      DEF HandleRegister, HandleConfig, HandleFlashSettings, HandleStartPairing,
          HandleBondOp, HandleSetDeviceName, Running
    <2>9. QED
      BY <1>2, <2>3, <2>4, <2>5, <2>6, <2>7, <2>8 DEF HandleMessage
  <1>3. CASE Startup  BY <1>1, <1>3 DEF Startup, Running
  <1>4. CASE ResumeTimer \/ RetryTimer \/ StreamsEnded
    BY <1>1, <1>4 DEF ResumeTimer, RetryTimer, StreamsEnded, Running
  <1>5. CASE HandleClosed  BY <1>5 DEF HandleClosed
  <1>6. CASE Finish  BY <1>6 DEF Finish, Running
  <1>7. CASE MuxSpawned  BY <1>7 DEF MuxSpawned
  <1>8. CASE ScanFindsDevice \/ ScanMissesDevice
    BY <1>8 DEF ScanFindsDevice, ScanMissesDevice, Link
  <1>9. CASE Orphaned  BY <1>9 DEF Orphaned
  <1>10. ASSUME NEW h \in Hubs,
                HubAddsDevice(h) \/ HubDropsDevice(h) \/ HubAborted(h)
         PROVE  SpawnIsRunning'
    BY <1>10 DEF HubAddsDevice, HubDropsDevice, HubAborted, Link
  <1>11. ASSUME NEW r \in Requests, PairingResult(r) PROVE SpawnIsRunning'
    BY <1>1, <1>11 DEF PairingResult, Running
  <1>12. ASSUME NEW r \in Requests, NEW k \in RequestKinds, Call(r, k)
         PROVE  SpawnIsRunning'
    BY <1>1, <1>12 DEF Call, Running
  <1>13. ASSUME NEW s \in BasicStreams \cup {Battery}, StreamCloses(s)
         PROVE  SpawnIsRunning'
    BY <1>1, <1>13 DEF StreamCloses, Running
  <1>14. CASE UNCHANGED vars  BY <1>1, <1>14 DEF vars, Running
  <1>15. QED
    BY <1>2, <1>3, <1>4, <1>5, <1>6, <1>7, <1>8, <1>9, <1>10, <1>11, <1>12,
       <1>13, <1>14
    DEF Next

\* Every step of the handler and of its surroundings is a step of LinkHandler,
\* or does not show.
LEMMA LinkStep ==
  TypeOK /\ TypeOK' /\ Consistent /\ WiredIsDirect /\ SpawnIsRunning
         /\ [Next]_vars
    => [LinkSide!LinkNext]_LinkSide!linkVars
  <1> SUFFICES ASSUME TypeOK, TypeOK', Consistent, WiredIsDirect,
                      SpawnIsRunning, [Next]_vars
               PROVE  LinkSide!LinkNext \/ UNCHANGED LinkSide!linkVars
    OBVIOUS
  <1> USE DEF conns, meta, stream, config, rpc, outside
  <1>a. /\ [kind |-> "AddControlDevice", arg |-> NoArg] \in Message
        /\ [kind |-> "RemoveControlDevice", arg |-> NoArg] \in Message
        /\ [kind |-> "RemoveEventsDevice", arg |-> NoArg] \in Message
        /\ \A h \in Hubs :
             [kind |-> "AddEventsDevice", arg |-> h] \in Message
    BY DEF Message
  <1>1. CASE Startup
    BY <1>1, Unseen DEF Startup, Running
  <1>2. CASE HandleMessage  BY <1>2, HandleMessageLinks
  <1>3. CASE ResumeTimer  BY <1>3, Unseen DEF ResumeTimer
  <1>4. CASE RetryTimer  BY <1>4, Unseen DEF RetryTimer
  <1>5. CASE StreamsEnded  BY <1>5, Unseen DEF StreamsEnded
  <1>6. CASE HandleClosed
    <2>1. phase = "loop" /\ inbox = << >>  BY <1>6 DEF HandleClosed, Idle
    <2>2. Queued = << >>
      <3>1. Queued \in Seq(Kinds) /\ Len(Queued) = Len(inbox)
        BY QueuedType
      <3>2. QED  BY <2>1, <3>1, EmptySeq
    <2>3. Connected.phase = "running"  BY <2>1, Seen DEF Running
    <2>4. Connected' = [Connected EXCEPT !.phase = "ending"]
      BY <1>6, <2>1, SeenNext DEF HandleClosed, Running
    <2>5. Queued' = Queued  BY <1>6, SameQueue DEF HandleClosed
    <2>6. LinkSide!Leave  BY <2>2, <2>3, <2>4, <2>5 DEF LinkSide!Leave
    <2>7. QED  BY <2>6 DEF LinkSide!LinkNext
  <1>7. CASE Finish
    <2>1. Queued' = << >>
      <3>1. Len(inbox') = 0  BY <1>7 DEF Finish
      <3>2. Queued' \in [{} -> Kinds]  BY <3>1 DEF Queued, KindOf
      <3>3. QED  BY <3>1, <3>2 DEF Queued, KindOf
    <2>2. Connected.phase = "ending"  BY <1>7, Seen DEF Finish, Running
    <2>3. Connected' = [Connected EXCEPT !.phase = "finished"]
      BY <1>7 DEF Finish, Connected, Source, Running
    <2>4. LinkSide!Finish  BY <2>1, <2>2, <2>3 DEF LinkSide!Finish
    <2>5. QED  BY <2>4 DEF LinkSide!LinkNext
  <1>8. CASE MuxSpawned
    <2>1. PICK h \in hub_devices : Push("AddEventsDevice", h)
      BY <1>8 DEF MuxSpawned
    <2>2. h \in Hubs  BY DEF TypeOK
    <2>3. phase # "finished"
      BY <1>8 DEF MuxSpawned, SpawnIsRunning, Running
    <2>4. QED  BY <1>a, <1>8, <2>1, <2>2, <2>3, Sent DEF MuxSpawned
  <1>9. CASE ScanFindsDevice
    <2>1. CASE direct
      BY <1>9, <2>1, Unseen DEF ScanFindsDevice, Link
    <2>2. CASE ~direct
      BY <1>a, <1>9, <2>2, Sent DEF ScanFindsDevice, Link
    <2>3. QED  BY <2>1, <2>2
  <1>10. CASE ScanMissesDevice
    BY <1>a, <1>10, Sent DEF ScanMissesDevice, Link
  <1>11. CASE Orphaned  BY <1>11, Unseen DEF Orphaned
  <1>12. ASSUME NEW h \in Hubs, HubAddsDevice(h) PROVE LinkSide!LinkNext
    BY <1>a, <1>12, Sent DEF HubAddsDevice, Link
  <1>13. ASSUME NEW h \in Hubs, HubDropsDevice(h) PROVE LinkSide!LinkNext
    BY <1>a, <1>13, Sent DEF HubDropsDevice, Link
  <1>14. ASSUME NEW h \in Hubs, HubAborted(h)
         PROVE  UNCHANGED LinkSide!linkVars
    BY <1>14, Unseen DEF HubAborted
  <1>15. ASSUME NEW r \in Requests, PairingResult(r)
         PROVE  UNCHANGED LinkSide!linkVars
    BY <1>15, Unseen DEF PairingResult
  <1>16. ASSUME NEW r \in Requests, NEW k \in RequestKinds, Call(r, k)
         PROVE  LinkSide!LinkNext \/ UNCHANGED LinkSide!linkVars
    <2>1. CASE phase = "finished"  BY <1>16, <2>1, Unseen DEF Call
    <2>2. CASE phase # "finished"
      <3>1. [kind |-> k, arg |-> r] \in Message  BY DEF Message
      <3>2. QED  BY <1>16, <2>2, <3>1, Sent DEF Call
    <2>3. QED  BY <2>1, <2>2
  <1>17. ASSUME NEW s \in BasicStreams \cup {Battery}, StreamCloses(s)
         PROVE  UNCHANGED LinkSide!linkVars
    BY <1>17, Unseen DEF StreamCloses
  <1>18. CASE UNCHANGED vars  BY <1>18, Unseen DEF vars
  <1>19. QED
    BY <1>1, <1>2, <1>3, <1>4, <1>5, <1>6, <1>7, <1>8, <1>9, <1>10, <1>11,
       <1>12, <1>13, <1>14, <1>15, <1>16, <1>17, <1>18
    DEF Next

\* The handler keeps the promises of LinkHandler: the scan and the dongles can
\* rely on their connection changes being taken in order, each with a known
\* outcome, whatever streams, timers, metadata and calls do in between.
THEOREM HandlerImplementsLinks == Spec => ImplementsLinkHandler
  <1>1. Spec => LinkSide!LinkInit  BY InitLinks DEF Spec
  <1>2. Spec => [][LinkSide!LinkNext]_LinkSide!linkVars
    BY InitType, TypeStep, InitConsistent, ConsistentStep, InitIdle, IdleStep,
       InitWired, WiredStep, InitSpawn, SpawnStep, LinkStep, PTL
    DEF Spec
  <1>3. QED  BY <1>1, <1>2 DEF ImplementsLinkHandler, LinkSide!LinkSpec
=============================================================================
