------------------------------ MODULE RouteTable ------------------------------
(***************************************************************************)
(* The per-node route cache, class RouteTable of routing/router.py, as     *)
(* operators on a record.  A table maps each destination to the next hop   *)
(* stored for it and remembers one default gateway.                        *)
(*                                                                         *)
(* Abstracted: cost, hops and the expiry instant of a route, which no      *)
(* decision of the daemon reads; when routes age is the caller's choice.   *)
(***************************************************************************)
EXTENDS Integers

CONSTANTS
  Node,     \* the byte ids on the mesh
  None,     \* Python's None: no route, no gateway
  Direct    \* the string "direct" that add_direct stores as a next hop

ASSUME RouteTableAssumption ==
  /\ Node \subseteq 0..254
  /\ None \notin Int
  /\ Direct \notin Int
  /\ None # Direct

(* What a ROUTE_TABLE packet can carry: a byte per listed destination.     *)
RouteMap == [Node -> Node \cup {None}]

Table == [routes  : [Node -> Node \cup {None, Direct}],
          gateway : Node \cup {None}]

NoRoutes == [d \in Node |-> None]

EmptyTable == [routes |-> NoRoutes, gateway |-> None]

(* Faults: routes of two announcements are merged; a falsy gateway byte    *)
(* takes the stored gateway away.                                          *)
UpdateByMerging(t, routes, gw) ==
  [routes  |-> [d \in Node |-> IF routes[d] # None THEN routes[d] ELSE t.routes[d]],
   gateway |-> IF gw # 0 THEN gw ELSE t.gateway]
UpdateClearingGateway(t, routes, gw) ==
  [routes |-> routes, gateway |-> IF gw # 0 THEN gw ELSE None]

(* `if default_gw:` - the gateway byte 0 is falsy and is not stored.       *)
UpdateFromRoot(t, routes, gw) ==
  [routes |-> routes, gateway |-> IF gw # 0 THEN gw ELSE t.gateway]

AddDirect(t, n) == [t EXCEPT !.routes = [@ EXCEPT ![n] = Direct]]

SetDefaultGateway(t, n) ==
  IF t.gateway = None THEN [t EXCEPT !.gateway = n] ELSE t

(* The destinations that have a route, and the deletions of expire.        *)
Routed(routes) == {d \in Node : routes[d] # None}

DeleteRoutes(t, D) ==
  [t EXCEPT !.routes = [d \in Node |-> IF d \in D THEN None ELSE @[d]]]
=============================================================================
