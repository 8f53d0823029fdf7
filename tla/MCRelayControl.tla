--------------------------- MODULE MCRelayControl ---------------------------
(***************************************************************************)
(* Instances of RelayControl for TLC: policies, nonces and traffic.        *)
(***************************************************************************)
EXTENDS RelayControl

Policy(mode, limit, ttl, cap) ==
  [mode |-> mode, floor |-> -120, cap |-> cap, mask |-> {"HELLO"},
   limit |-> limit, ttl |-> ttl]

Heard(type, dst, rssi, airtime) ==
  [type |-> type, dst |-> dst, rssi |-> rssi, airtime |-> airtime]

(* Messages for two nodes that come and go, under store-and-forward with   *)
(* several limits, one above the hard maximum, and under plain flooding.   *)
QueueCommands == {Policy("STORE_FWD", 2, 1, 0), Policy("STORE_FWD", 1, 3, 0),
                  Policy("FLOOD", 9, 9, 0)}
QueueTraffic == {Heard("MSG", 1, -90, 0), Heard("MSG", 2, -90, 0)}

(* The same with a limit of 0.                                             *)
ZeroCommands == QueueCommands \cup {Policy("STORE_FWD", 0, 2, 0)}

(* Every mode, an unknown mode byte, weak and strong packets, a duty cap.  *)
PolicyCommands == {Policy("ROUTED", 1, 1, 50), Policy("SELECTIVE", 1, 1, 50),
                   Policy("OFF", 1, 1, 0), Policy("mode-9", 1, 1, 50)}
PolicyTraffic == {Heard("MSG", 1, -90, 1), Heard("HELLO", 255, -90, 2),
                  Heard("HELLO", 255, -125, 1)}
=============================================================================
