-------------------------- MODULE MCDeviceRegistry --------------------------
(***************************************************************************)
(* Instances of DeviceRegistry for TLC.                                    *)
(***************************************************************************)
EXTENDS DeviceRegistry

CONSTANTS h1, h2, u1, u2, none, dfu, scantask

NoIds   == {}
NoHubs  == {}
OneHub  == {h1}
TwoHubs == {h1, h2}
OneId   == {u1}
TwoIds  == {u1, u2}
=============================================================================
