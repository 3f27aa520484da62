---------------------------- MODULE LinkHandler -----------------------------
(***************************************************************************)
(* What a device handler promises to the scan and to the dongle managers:  *)
(* it takes connection changes in the order they were queued, each with    *)
(* one of the known outcomes, leaves its loop only for the known reasons,  *)
(* and takes nothing any more once it has left.                            *)
(***************************************************************************)
EXTENDS Naturals, Sequences, LinkOutcomes

VARIABLES conn,    \* the handler's connections
          queue    \* what it has not taken yet: connection changes, and calls

linkVars == <<conn, queue>>

\* A handler is spawned by the scan, with the control connection and marked,
\* or by a dongle, with nothing, where an earlier handler of the device may
\* have left its mark.
LinkInit ==
  /\ conn \in {c \in Connections : c.phase = "running"
                                   /\ (c.control => c.direct)
                                   /\ c.events \in {"none", "wired"}
                                   /\ (c.events = "wired" => c.control)}
  /\ queue = << >>

\* A call of a client leaves the connections as they are, or, if it changes the
\* transport mode, ends a handler that has control.
Left(c, kind) ==
  IF kind = "Call"
  THEN {c} \cup IF c.control THEN {[c EXCEPT !.phase = "ending"]} ELSE {}
  ELSE Outcomes(c, kind)

Send(kind) ==
  /\ conn.phase # "finished"
  /\ queue' = Append(queue, kind)
  /\ UNCHANGED conn

Take ==
  /\ conn.phase = "running"
  /\ queue # << >>
  /\ conn' \in Left(conn, Head(queue))
  /\ queue' = Tail(queue)

\* The queue is closed and everything in it taken.
Leave ==
  /\ conn.phase = "running"
  /\ queue = << >>
  /\ conn' = [conn EXCEPT !.phase = "ending"]
  /\ UNCHANGED queue

Finish ==
  /\ conn.phase = "ending"
  /\ conn' = [conn EXCEPT !.phase = "finished"]
  /\ queue' = << >>

LinkNext ==
  \/ \E kind \in LinkKinds \cup {"Call"} : Send(kind)
  \/ Take
  \/ Leave
  \/ Finish

LinkSpec == LinkInit /\ [][LinkNext]_linkVars
=============================================================================
