--------------------------- MODULE MCDarkNetMesh ---------------------------
(***************************************************************************)
(* Instances of DarkNetMesh for TLC.  Node ids are numbers because the     *)
(* gateway byte 0 is special, so no symmetry is declared.                  *)
(***************************************************************************)
EXTENDS DarkNetMesh

CONSTANTS t1, s1, odd

OneText   == {t1}
OneStatus == {s1}

(* A name STATUS_FROM_NAME has not: it is sent as "online".                *)
Names      == {odd}
CodedNames == [name \in Names |-> s1]

Silent == [kind \in Asking |-> 0]

(* Two messages; every pair of other packets; what drives discovery.       *)
MessageBudget == [Silent EXCEPT !["MSG"] = 2]
StatusBudget  == [kind \in Asking |-> IF kind \in {"MSG", "RT"} THEN 0 ELSE 1]
RouteBudget   == [Silent EXCEPT !["HELLO"] = 1, !["RT"] = 1]

(* Some time after discovery: every daemon has heard T-Beam 3 first, its   *)
(* BEACON is gone from the air, its key and its route have expired.        *)
InitHeard ==
  /\ air = {} /\ nextMid = 0 /\ delivered = {} /\ restarts = 0
  /\ peer      = [n \in Daemons |-> [Peers0(n) EXCEPT ![3] = "online"]]
  /\ shown     = [n \in Daemons |-> Shown0]
  /\ table     = [n \in Daemons |-> DeleteRoutes(AdoptGateway(EmptyTable, 3), Node)]
  /\ requested = [n \in Daemons |-> "no"]
  /\ seen      = [n \in Daemons |-> {}]
  /\ pending   = [n \in Daemons |-> {}]
  /\ ui        = [n \in Daemons |-> None]
  /\ inbox     = [n \in Daemons |-> << >>]
  /\ rx        = [n \in Daemons |-> None]
  /\ doomed    = [n \in Daemons |-> NoRoutes] /\ dead = {}

SpecHeard == InitHeard /\ [][Next]_vars
=============================================================================
