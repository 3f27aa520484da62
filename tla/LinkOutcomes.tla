---------------------------- MODULE LinkOutcomes ----------------------------
(***************************************************************************)
(* What a device handler may make of a connection change, as its           *)
(* connections show it: DeviceHandler without streams, metadata and calls. *)
(* LinkHandler gives one handler these outcomes and DeviceHandler          *)
(* implements it; DeviceRegistry composes several such handlers with the   *)
(* tasks that feed them.                                                   *)
(***************************************************************************)

LinkKinds == {"AddEventsDevice", "RemoveEventsDevice",
              "AddControlDevice", "RemoveControlDevice"}

\* events_device: none, the USB connection itself, or through a dongle.
Sources == {"none", "wired", "ble"}

\* A handler's connections: control_device, events_device, and its membership
\* in direct_usb_handler_uuids.
Connections == [phase : {"running", "ending", "finished"}, control : BOOLEAN,
                events : Sources, direct : BOOLEAN]

\* The states that message kind may lead to from c.  An AddEventsDevice may
\* come while there are streams, and is ignored then; whether a dongle's
\* events outlive the control device depends on metadata not kept here.
Outcomes(c, kind) ==
  CASE kind = "AddEventsDevice" ->
         {[c EXCEPT !.events = "ble"]}
           \cup IF c.events = "none" THEN {} ELSE {c}
    [] kind = "AddControlDevice" -> {[c EXCEPT !.control = TRUE]}
    [] kind = "RemoveControlDevice" ->
         {[c EXCEPT !.control = FALSE, !.events = "none", !.phase = "ending"]}
           \cup IF c.events = "ble"
                  THEN {[c EXCEPT !.control = FALSE, !.direct = FALSE]}
                  ELSE {}
    [] kind = "RemoveEventsDevice" ->
         {[c EXCEPT !.events = "none",
                    !.phase = IF c.control THEN @ ELSE "ending"]}
=============================================================================
