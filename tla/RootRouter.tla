----------------------------- MODULE RootRouter -----------------------------
(***************************************************************************)
(* The root's link graph and routes, classes LinkStateGraph and RootRouter *)
(* and function dijkstra of routing/router.py, as the two threads of       *)
(* darknet_node.py run them without a lock: rx on every packet it hears    *)
(* and bc, the route broadcast loop.                                       *)
(*                                                                         *)
(* Abstracted: a link's age is one bit, turned while both threads rest (a  *)
(* round takes milliseconds, and an expiry compares with the instant of    *)
(* its start); a loop over a node's links takes effect at its end; the     *)
(* expiry of the root's own table, which DarkNetMesh has; snr.             *)
(***************************************************************************)
EXTENDS Integers, FiniteSets

CONSTANTS
  Node,      \* the byte ids on the mesh
  Root,      \* root_node_id
  None,      \* Python's None, or a missing key
  Rssi,      \* signal strengths
  Packets,   \* what the root hears: sender, rssi, LINK body (or nothing)
  MaxHeard   \* bound: packets the root hears

Thread == {"rx", "bc"}

ASSUME RouterAssumption ==
  /\ Node \subseteq 0..254 /\ Root \in Node
  /\ None \notin Int \cup [cost : Nat, old : BOOLEAN]
                 \cup [hop : Node, cost : Nat, hops : Nat]
                 \cup [cost : Nat, hops : Nat, prev : Node \cup {None}]
  /\ Rssi \subseteq -128..127
  /\ \A p \in Packets : /\ p.src \in Node \ {Root} /\ p.rssi \in Rssi
                        /\ p.report \subseteq ((Node \ {p.src}) \X Rssi)
  /\ MaxHeard \in Nat

VARIABLES
  edges,      \* graph.edges: a link or None for each ordered pair
  dirty,      \* _dirty
  routes,     \* routes: [hop, cost, hops] or None for each destination
  table,      \* route_table.routes, the root's own route cache
  announced,  \* the routes of the last RT broadcast
  thread,     \* what each thread is at, with its local variables
  heard,      \* history: number of packets heard
  raced       \* history: the last recalculation overlapped another thread's

vars == <<edges, dirty, routes, table, announced, thread, heard, raced>>

NoRoutes == [n \in Node |-> None]

Idle == [pc |-> "idle", links |-> {}, report |-> {}, todo |-> {}, at |-> None,
         found |-> {}, label |-> NoRoutes, visited |-> {}, out |-> NoRoutes,
         changed |-> FALSE]

Init ==
  /\ edges = [n \in Node |-> NoRoutes]
  /\ dirty = FALSE
  /\ routes = NoRoutes /\ table = NoRoutes /\ announced = NoRoutes
  /\ thread = [t \in Thread |-> Idle]
  /\ heard = 0 /\ raced = FALSE

Busy(t) == thread[t].pc \notin {"idle", "dead"}

(* Thread t goes on from pc with other local variables.                    *)
Step(t, pc, local) ==
  thread[t].pc = pc /\ thread' = [thread EXCEPT ![t] = local]

shared == <<edges, dirty, routes, table, announced, heard, raced>>

(* Fault: the floor of 1 is missing.                                       *)
RssiToCostUnclamped(rssi) == (IF rssi < 0 THEN -rssi ELSE rssi) - 49

RssiToCost(rssi) ==
  LET cost == (IF rssi < 0 THEN -rssi ELSE rssi) - 49
  IN  IF cost < 1 THEN 1 ELSE cost

Neighbours(n) == {m \in Node : edges[n][m] # None}

-----------------------------------------------------------------------------
(* The rx thread: apply_hello with the sender of any packet, a round of    *)
(* recalculation, then for a LINK apply_link_update and another round.     *)

Updating(links, report) ==
  [Idle EXCEPT !.pc = "update", !.links = links, !.report = report]

Hear(p) ==
  /\ heard < MaxHeard /\ heard' = heard + 1
  /\ raced' = Busy("bc")
  /\ Step("rx", "idle", Updating({<<Root, p.src, p.rssi, FALSE>>},
                                 {<<p.src, r[1], r[2], FALSE>> : r \in p.report}))
  /\ UNCHANGED <<edges, dirty, routes, table, announced>>

(* update_link, one direction and then back.                               *)
UpdateLink ==
  /\ \E l \in thread["rx"].links :
       /\ (\E m \in thread["rx"].links : m[4]) => l[4]
       /\ Step("rx", "update", [thread["rx"] EXCEPT !.links =
                 (@ \ {l}) \cup IF l[4] THEN {} ELSE {<<l[2], l[1], l[3], TRUE>>}])
       /\ edges' = [edges EXCEPT ![l[1]][l[2]] = [cost |-> RssiToCost(l[3]), old |-> FALSE]]
  /\ UNCHANGED <<dirty, routes, table, announced, heard, raced>>

MarkDirty ==
  /\ thread["rx"].links = {}
  /\ Step("rx", "update", [thread["rx"] EXCEPT !.pc = "check"])
  /\ dirty' = TRUE
  /\ UNCHANGED <<edges, routes, table, announced, heard, raced>>

(* The broadcast loop, every ROUTE_BROADCAST seconds.                      *)
BeginBroadcast ==
  /\ Step("bc", "idle", [Idle EXCEPT !.pc = "check"])
  /\ raced' = (Busy("rx") \/ (raced /\ ~dirty))
  /\ UNCHANGED <<edges, dirty, routes, table, announced, heard>>

-----------------------------------------------------------------------------
(* recalculate, for either thread.                                         *)

(* A LINK has its second round.                                            *)
GoesOn(t) ==
  IF thread[t].report = {} THEN Idle ELSE Updating(thread[t].report, {})

(* Fault: the loop too broadcasts changes only.                            *)
ReturnedSilently(t, changed) ==
  IF changed THEN [Idle EXCEPT !.pc = "announce", !.report = thread[t].report]
  ELSE GoesOn(t)

(* Back in the caller: rx broadcasts a change, bc always broadcasts.       *)
Returned(t, changed) ==
  IF t = "bc" \/ changed
  THEN [Idle EXCEPT !.pc = "announce", !.report = thread[t].report]
  ELSE GoesOn(t)

(* _rx_loop logs an exception and goes on; nothing catches one in          *)
(* _route_broadcast_loop.                                                  *)
Raised(t) == IF t = "bc" THEN [Idle EXCEPT !.pc = "dead"] ELSE Idle

Check(t) ==
  /\ Step(t, "check",
          IF dirty THEN [thread[t] EXCEPT !.pc = "expire",
                                          !.todo = {n \in Node : Neighbours(n) # {}}]
          ELSE Returned(t, FALSE))
  /\ UNCHANGED shared

(* A dict of links that another thread resizes cannot be looped over to    *)
(* the end: RuntimeError.  A loop over none is over at once.               *)
Loop(t, n, pc) ==
  [thread[t] EXCEPT !.pc = pc, !.at = n, !.found = Neighbours(n)]

Resized(t) ==
  thread[t].found # {} /\ Cardinality(Neighbours(thread[t].at)) # Cardinality(thread[t].found)

NextScan(t) ==
  /\ \E n \in thread[t].todo :
       Step(t, "expire", [Loop(t, n, "scan") EXCEPT !.todo = @ \ {n}])
  /\ UNCHANGED shared

(* Fault: the test of the age is the wrong way round.                      *)
FreshLinks(n) == {m \in Neighbours(n) : ~edges[n][m].old}

StaleLinks(n) == {m \in Neighbours(n) : edges[n][m].old}

Scanned(t) == [thread[t] EXCEPT !.pc = "expire", !.at = None, !.found = {}]

ScanLinks(t) ==
  /\ Step(t, "scan",
          IF Resized(t) THEN Raised(t)
          ELSE IF StaleLinks(thread[t].at) = {} THEN Scanned(t)
          ELSE [thread[t] EXCEPT !.pc = "delete", !.found = StaleLinks(thread[t].at)])
  /\ UNCHANGED shared

(* A link that the other thread has deleted meanwhile: KeyError after some *)
(* of the deletions.                                                       *)
DeleteLinks(t) ==
  LET n == thread[t].at
      stale == thread[t].found
      present == stale \cap Neighbours(n)
  IN  /\ Step(t, "delete", IF present # stale THEN Raised(t) ELSE Scanned(t))
      /\ \E gone \in SUBSET present :
           /\ present = stale => gone = stale
           /\ edges' = [edges EXCEPT ![n] =
                          [m \in Node |-> IF m \in gone THEN None ELSE @[m]]]
      /\ UNCHANGED <<dirty, routes, table, announced, heard, raced>>

-----------------------------------------------------------------------------
(* dijkstra: a label [cost, hops, prev] for each node reached.             *)

BeginSearch(t) ==
  /\ thread[t].todo = {}
  /\ Step(t, "expire", [thread[t] EXCEPT !.pc = "search", !.label =
            [@ EXCEPT ![Root] = [cost |-> 0, hops |-> 0, prev |-> None]]])
  /\ UNCHANGED shared

Frontier(t) == {n \in Node \ thread[t].visited : thread[t].label[n] # None}

(* Fault: the heap gives the costliest entry first.                        *)
PopsCostliest(t, n) ==
  \A m \in Frontier(t) : thread[t].label[n].cost >= thread[t].label[m].cost

(* heapq orders pairs (cost, node).                                        *)
PopsFirst(t, n) ==
  \A m \in Frontier(t) : LET a == thread[t].label[n].cost
                             b == thread[t].label[m].cost
                         IN  a < b \/ (a = b /\ n <= m)

Pop(t) ==
  /\ \E n \in Frontier(t) :
       PopsFirst(t, n) /\ Step(t, "search", [Loop(t, n, "relax") EXCEPT !.visited = @ \cup {n}])
  /\ UNCHANGED shared

(* Fault: a node that has a label keeps it.                                *)
BetterIfNone(label, n, m) == label[m] = None

Better(label, n, m) ==
  label[m] # None => label[n].cost + edges[n][m].cost < label[m].cost

Relaxed(label, n) ==
  [m \in Node |->
    IF m \in Neighbours(n) /\ Better(label, n, m)
    THEN [cost |-> label[n].cost + edges[n][m].cost, hops |-> label[n].hops + 1, prev |-> n]
    ELSE label[m]]

Relax(t) ==
  /\ Step(t, "relax",
          IF Resized(t) THEN Raised(t)
          ELSE [thread[t] EXCEPT !.pc = "search", !.at = None, !.found = {},
                                 !.label = Relaxed(@, thread[t].at)])
  /\ UNCHANGED shared

(* Fault: the trace back stops one node too late.                          *)
TraceToSource(label, d) ==
  LET back[n \in Node] == IF label[n].prev = None THEN n ELSE back[label[n].prev]
  IN  back[d]

(* The trace ends at a node whose prev is the source or missing.           *)
Traced(label, n) == label[n] = None \/ label[n].prev \in {Root, None}

FirstHop(label, d) ==
  LET back[n \in Node] == IF Traced(label, n) THEN n ELSE back[label[n].prev]
  IN  back[d]

RoutesOf(label) ==
  [d \in Node |->
    IF d = Root \/ label[d] = None THEN None
    ELSE [hop |-> FirstHop(label, d), cost |-> label[d].cost, hops |-> label[d].hops]]

(* Fault: _dirty is left set.                                              *)
LeavesDirty == dirty

Cleared == FALSE

(* The new routes are compared with the old ones, and then installed.      *)
Compare(t) ==
  /\ Frontier(t) = {}
  /\ LET new == RoutesOf(thread[t].label)
     IN  Step(t, "search", [Idle EXCEPT !.pc = "install", !.report = thread[t].report,
                                        !.out = new, !.changed = new # routes])
  /\ UNCHANGED shared

Install(t) ==
  /\ Step(t, "install", Returned(t, thread[t].changed))
  /\ routes' = thread[t].out
  /\ dirty' = Cleared
  /\ UNCHANGED <<edges, table, announced, heard, raced>>

(* _broadcast_route_table: the routes are read, stored in the root's own   *)
(* table by update_from_root, which empties it first, and sent.            *)
ReadRoutes(t) ==
  /\ Step(t, "announce", [thread[t] EXCEPT !.pc = "apply", !.out = routes])
  /\ UNCHANGED shared

EmptyTable(t) ==
  /\ Step(t, "apply", [thread[t] EXCEPT !.pc = "fill",
                          !.todo = {d \in Node : thread[t].out[d] # None}])
  /\ table' = NoRoutes
  /\ UNCHANGED <<edges, dirty, routes, announced, heard, raced>>

FillTable(t) ==
  /\ \E d \in thread[t].todo :
       /\ Step(t, "fill", [thread[t] EXCEPT !.todo = @ \ {d}])
       /\ table' = [table EXCEPT ![d] = thread[t].out[d]]
  /\ UNCHANGED <<edges, dirty, routes, announced, heard, raced>>

SendRoutes(t) ==
  /\ thread[t].todo = {}
  /\ Step(t, "fill", GoesOn(t))
  /\ announced' = thread[t].out
  /\ UNCHANGED <<edges, dirty, routes, table, heard, raced>>

-----------------------------------------------------------------------------
(* 120 seconds without news of a link.                                     *)
LinkAges(a, b) ==
  /\ \A t \in Thread : ~Busy(t)
  /\ edges[a][b] # None /\ ~edges[a][b].old
  /\ edges' = [m \in Node |-> [n \in Node |->
                 IF {m, n} = {a, b} /\ edges[m][n] # None
                 THEN [edges[m][n] EXCEPT !.old = TRUE] ELSE edges[m][n]]]
  /\ UNCHANGED <<dirty, routes, table, announced, thread, heard, raced>>

Round(t) ==
  \/ Check(t) \/ NextScan(t) \/ ScanLinks(t) \/ DeleteLinks(t)
  \/ BeginSearch(t) \/ Pop(t) \/ Relax(t) \/ Compare(t) \/ Install(t)
  \/ ReadRoutes(t) \/ EmptyTable(t) \/ FillTable(t) \/ SendRoutes(t)

RxStep == UpdateLink \/ MarkDirty \/ Round("rx")
BcStep == BeginBroadcast \/ Round("bc")

Next ==
  \/ \E p \in Packets : Hear(p)
  \/ RxStep \/ BcStep
  \/ \E a, b \in Node : LinkAges(a, b)

(* A thread that has work goes on, and the broadcast loop wakes up.        *)
Fairness == WF_vars(RxStep) /\ WF_vars(BcStep)

Spec == Init /\ [][Next]_vars /\ Fairness

-----------------------------------------------------------------------------
(* Properties.                                                             *)

Label == [cost : Nat, hops : 0..Cardinality(Node), prev : Node \cup {None}]

(* Every variable has its type; every cost is at least 1.                  *)
TypeOK ==
  /\ \A a, b \in Node :
       edges[a][b] = None \/ edges[a][b] \in [cost : Nat \ {0}, old : BOOLEAN]
  /\ dirty \in BOOLEAN /\ raced \in BOOLEAN /\ heard \in 0..MaxHeard
  /\ \A r \in {routes, table, announced} : \A d \in Node :
       r[d] = None \/ r[d] \in [hop : Node, cost : Nat \ {0}, hops : 1..Cardinality(Node)]
  /\ \A t \in Thread : \A n \in Node :
       thread[t].label[n] = None \/ thread[t].label[n] \in Label

(* However the threads interleave, a first hop is its own first hop and    *)
(* the root has no route to itself: the route maps that DarkNetMesh lets   *)
(* a root announce (Computable).                                           *)
FirstHopsDirect ==
  /\ routes[Root] = None
  /\ \A d \in Node : routes[d] # None =>
       LET via == routes[d].hop
       IN  routes[via] # None /\ routes[via].hop = via

(* The label of a visited node is final although costs and links change    *)
(* under the search, which is why the trace back ends.                     *)
VisitedIsFinal ==
  [][\A t \in Thread : \A n \in thread[t].visited \cap thread'[t].visited :
       thread'[t].label[n] = thread[t].label[n]]_vars

(* The cheapest cost over paths whose inner nodes are in N; no path costs  *)
(* Unreachable, since no link costs more than 79.                          *)
Unreachable == 80 * Cardinality(Node)

LinkCosts ==
  [a \in Node |-> [b \in Node |->
     IF a = b THEN 0 ELSE IF edges[a][b] = None THEN Unreachable ELSE edges[a][b].cost]]

Via(rest, n) ==
  [a \in Node |-> [b \in Node |->
     LET detour == rest[a][n] + rest[n][b]
     IN  IF detour < rest[a][b] THEN detour ELSE rest[a][b]]]

PathCost ==
  LET cost[N \in SUBSET Node] ==
        IF N = {} THEN LinkCosts
        ELSE LET n == CHOOSE n \in N : TRUE IN Via(cost[N \ {n}], n)
  IN  cost[Node]

(* When both threads rest and the last recalculation had the graph for     *)
(* itself, routes are cheapest paths of the graph by a first hop that lies *)
(* on one.                                                                 *)
CurrentWhenAlone ==
  ~raced /\ (\A t \in Thread : ~Busy(t)) =>
    \A d \in Node \ {Root} :
      LET best == PathCost[Root][d] IN
      IF best >= Unreachable THEN routes[d] = None
      ELSE /\ routes[d] # None /\ routes[d].cost = best
           /\ edges[Root][routes[d].hop] # None
           /\ edges[Root][routes[d].hop].cost + PathCost[routes[d].hop][d] = best

(* Only a link that nobody reported for 120 seconds leaves the graph,      *)
(* unless the other thread could refresh it between scan and deletion.     *)
FreshLinkKept ==
  [][\A a, b \in Node :
       edges[a][b] # None /\ ~edges[a][b].old /\ edges'[a][b] = None
         => raced]_vars

(* A change of the topology gets through to the routes, to the root's own  *)
(* table and to the mesh, although an exception may keep the rx thread     *)
(* from it, a thread may send routes that the other has replaced since and *)
(* both may fill the table at once, as long as the broadcast loop lives.   *)
Served == ~dirty /\ table = routes /\ announced = routes

ChangesGetThrough == ~Served ~> (Served \/ thread["bc"].pc = "dead")
=============================================================================
