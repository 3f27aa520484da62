-------------------------- MODULE MCFirmwareUpdate --------------------------
EXTENDS FirmwareUpdate

CONSTANTS d1, d2

OneDevice  == {d1}
TwoDevices == {d1, d2}

\* A new minor version and a patch of the old one, or the patch alone.
Manifest == <<<<0, 2, 0>>, <<0, 1, 1>>>>
OldOnly  == {<<0, 1, 0>>}
Patch    == <<<<0, 1, 1>>>>
=============================================================================
