------------------------- MODULE DeviceHandlerLinks -------------------------
(***************************************************************************)
(* DeviceHandler implements LinkHandler: whatever streams, metadata and    *)
(* calls do in between, the connections change as LinkHandler says.        *)
(***************************************************************************)
EXTENDS DeviceHandler

Source == CASE events = NoDevice -> "none"
            [] events = WiredVm  -> "wired"
            [] OTHER             -> "ble"

Connected == [phase |-> IF Running THEN "running" ELSE phase,
              control |-> control, direct |-> direct, events |-> Source]

KindOf(m) == IF m.kind \in RequestKinds THEN "Call" ELSE m.kind

Queued == [i \in 1 .. Len(inbox) |-> KindOf(inbox[i])]

LinkSide == INSTANCE LinkHandler WITH conn <- Connected, queue <- Queued

\* The handler keeps the promises of LinkHandler to the scan and the dongles:
\* connection changes are taken in the order they were queued, across every
\* pause, retry and call, and none is taken after the loop is left.
ImplementsLinkHandler == LinkSide!LinkSpec
=============================================================================
