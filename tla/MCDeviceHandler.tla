-------------------------- MODULE MCDeviceHandler --------------------------
(***************************************************************************)
(* Instances of DeviceHandler for TLC.                                     *)
(***************************************************************************)
EXTENDS DeviceHandlerLinks

CONSTANTS h1, h2, r1, r2, markers, battery, n1, n2, none, wired, noarg

OneHub     == {h1}
TwoHubs    == {h1, h2}
NoRequests == {}
OneCall    == {r1}
TwoCalls   == {r1, r2}
Basic      == {markers}
OneName    == {n1}
TwoNames   == {n1, n2}
OneFw      == {1}
TwoFws     == {1, 2}

\* The firmware versions are only compared, so which one the device has at
\* first makes no difference; and the scan is yet to find a dongle's device,
\* which is one link change.
FewInit ==
  /\ Init
  /\ device.firmware = 1
  /\ registering => ~usb_known

FewStarts == FewInit /\ [][Next]_vars /\ Fairness
=============================================================================
