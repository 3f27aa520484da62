-------------------------- MODULE FirmwareVersions --------------------------
(***************************************************************************)
(* Which firmware a device is offered and which one an update installs     *)
(* (odyssey_hub_server/src/firmware.rs and the render and run functions of *)
(* odyssey_desktop/src/components/firmware_update.rs).                     *)
(***************************************************************************)
EXTENDS Naturals, Sequences

CONSTANTS
  Firmwares,  \* the versions the manifest lists for the device type, in order
  Unreadable, \* a version string that version_parts cannot parse
  Nothing     \* no such firmware

Version == Nat \X Nat \X Nat

\* Sent by a device that cannot tell its version.
NoVersion == <<0, 0, 0>>

ASSUME ManifestParameters ==
  /\ Firmwares \in Seq(Version \cup {Unreadable})
  /\ Unreadable \notin Version
  /\ Nothing \notin Version \cup {Unreadable}

\* Before 1.0 the minor version must match, from 1.0 on the major one.
versions_compatible(device, manifest) ==
  IF device[1] = 0 /\ manifest[1] = 0
  THEN device[2] = manifest[2]
  ELSE device[1] = manifest[1]

version_newer(device, manifest) ==
  \/ manifest[1] > device[1]
  \/ /\ manifest[1] = device[1]
     /\ \/ manifest[2] > device[2]
        \/ manifest[2] = device[2] /\ manifest[3] > device[3]

Fits(device, i) ==
  /\ Firmwares[i] # Unreadable
  /\ versions_compatible(device, Firmwares[i])
  /\ version_newer(device, Firmwares[i])

\* The first entry that fits.
find_compatible_firmware(device) ==
  LET fitting == {i \in DOMAIN Firmwares : Fits(device, i)}
  IN IF fitting = {} THEN Nothing
     ELSE Firmwares[CHOOSE i \in fitting : \A j \in fitting : i <= j]

find_latest_firmware == IF Firmwares = << >> THEN Nothing ELSE Firmwares[1]

(***************************************************************************)
(* A device as the app's list shows it.                                    *)
(***************************************************************************)
Listing == [version : Version, control : BOOLEAN, dfu : BOOLEAN]

InBootloader(device) == device.dfu /\ ~device.control

\* What the row of a device offers; the version offered is always the latest.
Offer(device) ==
  LET latest == find_latest_firmware
      newer  == /\ latest \notin {Nothing, Unreadable}
                /\ version_newer(device.version, latest)
  IN IF InBootloader(device)
     THEN IF latest = Nothing THEN "Idle" ELSE "Available"
     ELSE IF device.version = NoVersion \/ ~newer THEN "Idle"
     ELSE IF device.control THEN "Available" ELSE "NeedsUsbConnection"

\* What an update of the device installs.
Chosen(device) ==
  IF device.dfu THEN find_latest_firmware
  ELSE IF device.version = NoVersion THEN Nothing
  ELSE find_compatible_firmware(device.version)
=============================================================================
