---------------------------- MODULE MCShotDelay ----------------------------
(***************************************************************************)
(* An instance of ShotDelay for TLC.                                       *)
(***************************************************************************)
EXTENDS ShotDelay

CONSTANTS d1, d2

Op(op, d, ms) == [op |-> op, dev |-> d, ms |-> ms]

\* Setters that race each other, the handler and a subscriber; saves that race
\* each other and restarts.
SomeLoads ==
  {[calls |-> {Op("set", d1, 7), Op("set", d1, 0), Op("subscribe", d1, 0)},
    starts |-> 1, restarts |-> 0],
   [calls |-> {Op("set", d1, 7), Op("set", d1, 0)}, starts |-> 2, restarts |-> 0],
   [calls |-> {Op("setsave", d1, 7), Op("setsave", d2, 8), Op("save", d1, 0)},
    starts |-> 0, restarts |-> 1],
   [calls |-> {Op("setsave", d1, 7), Op("set", d1, 8)},
    starts |-> 1, restarts |-> 1]}

OneByOne ==
  {[calls |-> {Op("set", d1, 7), Op("set", d1, 8)}, starts |-> 1, restarts |-> 0]}
=============================================================================
