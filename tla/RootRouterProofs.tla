-------------------------- MODULE RootRouterProofs --------------------------
(***************************************************************************)
(* What the root's route computation promises, proved for every set of     *)
(* nodes, every sequence of packets and every interleaving of the rx       *)
(* thread and the broadcast loop, which share the graph without a lock.    *)
(***************************************************************************)
EXTENDS RootRouter, FiniteSetTheorems, WellFoundedInduction, TLAPS

-----------------------------------------------------------------------------
(* The inductive invariants.                                               *)

Link == [cost : Nat \ {0}, old : BOOLEAN]
Route == [hop : Node, cost : Nat \ {0}, hops : 1..Cardinality(Node)]
Routes == [Node -> Route \cup {None}]
Direction == Node \X Node \X Rssi \X BOOLEAN

Pcs == {"idle", "dead", "update", "check", "expire", "scan", "delete", "search",
        "relax", "install", "announce", "apply", "fill"}

Local == [pc : Pcs, links : SUBSET Direction, report : SUBSET Direction,
          todo : SUBSET Node, at : Node \cup {None}, found : SUBSET Node,
          label : [Node -> Label \cup {None}], visited : SUBSET Node,
          out : Routes, changed : BOOLEAN]

(* What one thread knows of the search it is in: a label's prev is visited *)
(* and closer, visited nodes are no farther than others, hops are counted  *)
(* by visited nodes.                                                       *)
Searching(l) ==
  /\ l.pc \in {"search", "relax"} =>
       l.label[Root] = [cost |-> 0, hops |-> 0, prev |-> None]
  /\ l.pc \notin {"search", "relax"} => l.label = NoRoutes /\ l.visited = {}
  /\ l.pc \in {"scan", "delete", "relax"} => l.at \in Node
  /\ \A n \in l.visited : l.label[n] # None
  /\ \A n \in l.visited, m \in Node \ l.visited :
       l.label[m] # None => l.label[n].cost <= l.label[m].cost
  /\ l.pc = "relax" => /\ l.at \in l.visited
                       /\ \A n \in l.visited : l.label[n].cost <= l.label[l.at].cost
  /\ \A n \in Node : l.label[n] # None => l.label[n].hops <= Cardinality(l.visited \ {n})
  /\ \A n \in Node \ {Root} : l.label[n] # None =>
       /\ l.label[n].prev \in l.visited
       /\ l.label[n].cost > l.label[l.label[n].prev].cost
       /\ l.label[n].hops = l.label[l.label[n].prev].hops + 1

(* A route map whose first hops are their own first hops.                  *)
Direct(r) ==
  /\ r[Root] = None
  /\ \A d \in Node : r[d] # None =>
       r[r[d].hop] # None /\ r[r[d].hop].hop = r[d].hop

Typed ==
  /\ edges \in [Node -> [Node -> Link \cup {None}]]
  /\ dirty \in BOOLEAN /\ raced \in BOOLEAN /\ heard \in 0..MaxHeard
  /\ routes \in Routes /\ table \in Routes /\ announced \in Routes
  /\ thread \in [Thread -> Local]

Sound ==
  /\ Typed /\ Direct(routes)
  /\ \A t \in Thread : Searching(thread[t]) /\ Direct(thread[t].out)

(* Threads that overlap are recorded as such, and what a thread is about   *)
(* to delete is old unless they did.                                       *)
Alone ==
  /\ Busy("rx") /\ Busy("bc") => raced
  /\ \A t \in Thread : thread[t].pc = "delete" /\ ~raced =>
       \A m \in thread[t].found :
         edges[thread[t].at][m] # None => edges[thread[t].at][m].old

Good(l) == l \in Local /\ Searching(l) /\ Direct(l.out)

-----------------------------------------------------------------------------
(* The constants.                                                          *)

LEMMA Nodes ==
  /\ Node \subseteq Nat /\ IsFiniteSet(Node) /\ Cardinality(Node) \in Nat
  /\ Root \in Node /\ None \notin Int /\ None \notin Node
<1>1. 0 \in Int /\ 254 \in Int
  OBVIOUS
<1>2. IsFiniteSet(0..254)
  BY <1>1, FS_Interval, Zenon
<1>3. Node \subseteq 0..254 /\ Root \in Node /\ None \notin Int
  BY RouterAssumption
<1>4. IsFiniteSet(Node)
  BY <1>2, <1>3, FS_Subset, Zenon
<1>5. Cardinality(Node) \in Nat
  BY <1>4, FS_CardinalityType, Zenon
<1>6. Node \subseteq Nat
  BY <1>3
<1>7. Node \subseteq Int
  BY <1>3
<1>8. None \notin Node
  BY <1>3, <1>7, Zenon
<1> QED
  BY <1>3, <1>4, <1>5, <1>6, <1>8, Zenon

LEMMA Inputs ==
  \A p \in Packets : /\ p.src \in Node \ {Root} /\ p.rssi \in Rssi
                     /\ p.report \subseteq ((Node \ {p.src}) \X Rssi)
BY RouterAssumption

LEMMA Strengths == Rssi \subseteq Int /\ MaxHeard \in Nat
BY RouterAssumption

(* Links, routes and labels are not Python's None.                         *)
LEMMA NoneIsNoRecord == None \notin Link /\ None \notin Route /\ None \notin Label
<1>1. /\ None \notin [cost : Nat, old : BOOLEAN]
      /\ None \notin [hop : Node, cost : Nat, hops : Nat]
      /\ None \notin [cost : Nat, hops : Nat, prev : Node \cup {None}]
  BY RouterAssumption
<1>2. Link \subseteq [cost : Nat, old : BOOLEAN]
  BY DEF Link
<1>3. Route \subseteq [hop : Node, cost : Nat, hops : Nat]
  BY Nodes DEF Route
<1>4. Label \subseteq [cost : Nat, hops : Nat, prev : Node \cup {None}]
  BY Nodes DEF Label
<1> QED
  BY <1>1, <1>2, <1>3, <1>4

(* Every link costs something.                                             *)
LEMMA CostIsPositive ==
  ASSUME NEW rssi \in Rssi
  PROVE  RssiToCost(rssi) \in Nat \ {0}
BY Strengths DEF RssiToCost

(* The weakest signal costs 79.                                            *)
LEMMA CostIsBounded ==
  ASSUME NEW rssi \in Rssi
  PROVE  RssiToCost(rssi) <= 79
<1>1. Rssi \subseteq -128..127
  BY RouterAssumption
<1>2. rssi \in -128..127
  BY <1>1, Zenon
<1> QED
  BY <1>2 DEF RssiToCost

LEMMA NothingRouted == NoRoutes \in [Node -> {None}] /\ NoRoutes \in Routes /\ Direct(NoRoutes)
BY Nodes DEF NoRoutes, Routes, Direct
-----------------------------------------------------------------------------
(* Threads outside a search.                                               *)

LEMMA RestingIsGood ==
  ASSUME NEW l \in Local, l.pc \notin {"search", "relax", "scan", "delete"},
         l.label = NoRoutes, l.visited = {}, Direct(l.out)
  PROVE  Good(l)
<1>1. \A n \in Node : l.label[n] = None
  BY DEF NoRoutes
<1>2. Searching(l)
  BY <1>1 DEF Searching
<1> QED
  BY <1>2 DEF Good

LEMMA IdleIsGood ==
  /\ Idle \in Local
  /\ Good(Idle) /\ Good([Idle EXCEPT !.pc = "dead"]) /\ Good([Idle EXCEPT !.pc = "check"])
<1>1. Idle \in Local
  BY Nodes, NothingRouted DEF Idle, Local, Pcs
<1>2. [Idle EXCEPT !.pc = "dead"] \in Local /\ [Idle EXCEPT !.pc = "check"] \in Local
  BY <1>1 DEF Local, Pcs
<1>3. \A l \in {Idle, [Idle EXCEPT !.pc = "dead"], [Idle EXCEPT !.pc = "check"]} :
        /\ l.pc \notin {"search", "relax", "scan", "delete"}
        /\ l.label = NoRoutes /\ l.visited = {} /\ l.out = NoRoutes
  BY DEF Idle
<1> QED
  BY <1>1, <1>2, <1>3, RestingIsGood, NothingRouted

LEMMA UpdatingIsGood ==
  ASSUME NEW links \in SUBSET Direction, NEW report \in SUBSET Direction
  PROVE  Good(Updating(links, report))
<1>1. Updating(links, report) \in Local
  BY IdleIsGood DEF Updating, Local, Pcs
<1>2. /\ Updating(links, report).pc = "update"
      /\ Updating(links, report).label = NoRoutes
      /\ Updating(links, report).visited = {}
      /\ Updating(links, report).out = NoRoutes
  BY DEF Updating, Idle
<1> QED
  BY <1>1, <1>2, RestingIsGood, NothingRouted

(* What a thread returns to is as it should be.                            *)
LEMMA ReturnIsGood ==
  ASSUME Typed, NEW t \in Thread, NEW changed
  PROVE  Good(GoesOn(t)) /\ Good(Returned(t, changed)) /\ Good(Raised(t))
<1>1. thread[t].report \in SUBSET Direction
  BY DEF Typed, Local
<1>2. Good(GoesOn(t))
  BY <1>1, IdleIsGood, UpdatingIsGood DEF GoesOn
<1> DEFINE l == [Idle EXCEPT !.pc = "announce", !.report = thread[t].report]
<1>3. l \in Local
  BY <1>1, IdleIsGood DEF Local, Pcs
<1>4. l.pc = "announce" /\ l.label = NoRoutes /\ l.visited = {} /\ l.out = NoRoutes
  BY DEF Idle
<1>5. Good(l)
  BY <1>3, <1>4, RestingIsGood, NothingRouted
<1>6. Good(Returned(t, changed))
  BY <1>2, <1>5 DEF Returned
<1>7. Good(Raised(t))
  BY IdleIsGood DEF Raised
<1> QED
  BY <1>2, <1>6, <1>7

(* A thread that keeps its search where it is stays as it should be.       *)
LEMMA SameSearch ==
  ASSUME NEW l, Good(l), NEW k \in Local,
         k.label = l.label, k.visited = l.visited, k.out = l.out,
         k.pc \in {"search", "relax"} <=> l.pc \in {"search", "relax"},
         k.pc \in {"scan", "delete"} => k.at \in Node,
         k.pc # "relax"
  PROVE  Good(k)
BY DEF Good, Searching

-----------------------------------------------------------------------------
(* The steps of a thread that leave its search alone.                      *)

LEMMA ThreadIs ==
  ASSUME Sound, NEW t \in Thread
  PROVE  thread[t] \in Local /\ Good(thread[t])
BY DEF Sound, Typed, Good

(* A step that takes one thread to a sound state keeps all threads sound.  *)
LEMMA ThreadGoesOn ==
  ASSUME Sound, NEW t \in Thread, NEW pc, NEW l, Good(l), Step(t, pc, l)
  PROVE  /\ thread' \in [Thread -> Local]
         /\ \A u \in Thread : Searching(thread'[u]) /\ Direct(thread'[u].out)
         /\ thread'[t] = l /\ thread[t].pc = pc
         /\ \A u \in Thread \ {t} : thread'[u] = thread[u]
<1>1. thread \in [Thread -> Local] /\ l \in Local /\ thread' = [thread EXCEPT ![t] = l]
  BY DEF Sound, Typed, Good, Step
<1>2. thread' \in [Thread -> Local]
  BY <1>1
<1>3. thread'[t] = l /\ \A u \in Thread \ {t} : thread'[u] = thread[u]
  BY <1>1
<1>4. \A u \in Thread : Good(thread'[u])
  BY <1>3, ThreadIs
<1> QED
  BY <1>2, <1>3, <1>4 DEF Good, Step
(* A step that leaves the shared state alone.                              *)
LEMMA SharedKept ==
  ASSUME Sound, NEW t \in Thread, NEW pc, NEW l, Good(l), Step(t, pc, l),
         UNCHANGED shared
  PROVE  Sound'
<1>1. /\ thread' \in [Thread -> Local]
      /\ \A u \in Thread : Searching(thread'[u]) /\ Direct(thread'[u].out)
  BY ThreadGoesOn
<1> QED
  BY <1>1 DEF Sound, Typed, shared

LEMMA CheckIsSound ==
  ASSUME Sound, NEW t \in Thread, Check(t)
  PROVE  Sound'
<1> DEFINE k == [thread[t] EXCEPT !.pc = "expire",
                                  !.todo = {n \in Node : Neighbours(n) # {}}]
           l == IF dirty THEN k ELSE Returned(t, FALSE)
<1>1. Step(t, "check", l) /\ UNCHANGED shared
  BY DEF Check
<1>2. thread[t] \in Local /\ Good(thread[t]) /\ thread[t].pc = "check"
  BY <1>1, ThreadIs DEF Step
<1>3. k \in Local
  BY <1>2, Zenon DEF Local, Pcs
<1>4. /\ k.label = thread[t].label /\ k.visited = thread[t].visited
      /\ k.out = thread[t].out /\ k.pc = "expire"
  BY <1>2 DEF Local
<1>5. Good(k)
  <2> HIDE DEF k
  <2> QED
    BY <1>2, <1>3, <1>4, SameSearch
<1>6. Good(l)
  BY <1>5, ReturnIsGood DEF Sound
<1> QED
  <2> HIDE DEF l
  <2> QED
    BY <1>1, <1>6, SharedKept

LEMMA NextScanIsSound ==
  ASSUME Sound, NEW t \in Thread, NextScan(t)
  PROVE  Sound'
<1>1. PICK n \in thread[t].todo :
        Step(t, "expire", [Loop(t, n, "scan") EXCEPT !.todo = @ \ {n}])
  BY DEF NextScan
<1> DEFINE k == [Loop(t, n, "scan") EXCEPT !.todo = @ \ {n}]
<1>2. thread[t] \in Local /\ Good(thread[t]) /\ thread[t].pc = "expire"
  BY <1>1, ThreadIs DEF Step
<1>3. n \in Node /\ Neighbours(n) \in SUBSET Node
  BY <1>2 DEF Local, Neighbours
<1>4. k \in Local
  BY <1>2, <1>3 DEF Local, Pcs, Loop
<1>5. /\ k.label = thread[t].label /\ k.visited = thread[t].visited
      /\ k.out = thread[t].out /\ k.pc = "scan" /\ k.at = n
  BY <1>2 DEF Local, Loop
<1>6. Good(k) /\ Step(t, "expire", k) /\ UNCHANGED shared
  <2>1. Step(t, "expire", k) /\ UNCHANGED shared
    BY <1>1 DEF NextScan
  <2> HIDE DEF k
  <2> QED
    BY <1>2, <1>3, <1>4, <1>5, <2>1, SameSearch
<1> QED
  <2> HIDE DEF k
  <2> QED
    BY <1>6, SharedKept

(* A thread that is back from a node's links.                              *)
LEMMA ScannedIsGood ==
  ASSUME Sound, NEW t \in Thread, thread[t].pc \in {"scan", "delete"}
  PROVE  Good(Scanned(t))
<1> DEFINE k == Scanned(t)
<1>1. thread[t] \in Local /\ Good(thread[t])
  BY ThreadIs
<1>2. k \in Local
  BY <1>1 DEF Local, Pcs, Scanned
<1>3. /\ k.label = thread[t].label /\ k.visited = thread[t].visited
      /\ k.out = thread[t].out /\ k.pc = "expire"
  BY <1>1 DEF Local, Scanned
<1> HIDE DEF k
<1>4. Good(k)
  BY <1>1, <1>2, <1>3, SameSearch
<1> QED
  BY <1>4 DEF k

LEMMA ScanLinksIsSound ==
  ASSUME Sound, NEW t \in Thread, ScanLinks(t)
  PROVE  Sound'
<1> DEFINE k == [thread[t] EXCEPT !.pc = "delete", !.found = StaleLinks(thread[t].at)]
           l == IF Resized(t) THEN Raised(t)
                ELSE IF StaleLinks(thread[t].at) = {} THEN Scanned(t) ELSE k
<1>1. Step(t, "scan", l) /\ UNCHANGED shared
  BY DEF ScanLinks
<1>2. /\ thread[t] \in Local /\ Good(thread[t]) /\ thread[t].pc = "scan"
      /\ thread[t].at \in Node
  <2> HIDE DEF k, l
  <2>1. thread[t].pc = "scan"
    BY <1>1 DEF Step
  <2>2. thread[t] \in Local /\ Good(thread[t])
    BY ThreadIs, Zenon
  <2> QED
    BY <2>1, <2>2 DEF Good, Searching
<1>3. k \in Local
  BY <1>2, Zenon DEF Local, Pcs, StaleLinks, Neighbours
<1>4. /\ k.label = thread[t].label /\ k.visited = thread[t].visited
      /\ k.out = thread[t].out /\ k.pc = "delete" /\ k.at = thread[t].at
  BY <1>2 DEF Local
<1>5. Good(k)
  <2> HIDE DEF k
  <2> QED
    BY <1>2, <1>3, <1>4, SameSearch
<1>6. Good(l)
  BY <1>2, <1>5, ReturnIsGood, ScannedIsGood DEF Sound
<1> QED
  <2> HIDE DEF l
  <2> QED
    BY <1>1, <1>6, SharedKept

LEMMA DeleteLinksIsSound ==
  ASSUME Sound, NEW t \in Thread, DeleteLinks(t)
  PROVE  Sound'
<1> DEFINE n == thread[t].at
           present == thread[t].found \cap Neighbours(n)
           l == IF present # thread[t].found THEN Raised(t) ELSE Scanned(t)
<1>1. Step(t, "delete", l)
  BY DEF DeleteLinks
<1>2. PICK gone \in SUBSET present :
        edges' = [edges EXCEPT ![n] = [m \in Node |-> IF m \in gone THEN None ELSE @[m]]]
  BY DEF DeleteLinks
<1>3. UNCHANGED <<dirty, routes, table, announced, heard, raced>>
  BY DEF DeleteLinks
<1>4. Good(l)
  BY <1>1, ReturnIsGood, ScannedIsGood DEF Sound, Step
<1>5. /\ thread' \in [Thread -> Local]
      /\ \A u \in Thread : Searching(thread'[u]) /\ Direct(thread'[u].out)
  <2> HIDE DEF l
  <2> QED
    BY <1>1, <1>4, ThreadGoesOn
<1>6. edges' \in [Node -> [Node -> Link \cup {None}]]
  <2>1. edges \in [Node -> [Node -> Link \cup {None}]]
    BY DEF Sound, Typed
  <2> HIDE DEF n
  <2> QED
    BY <1>2, <2>1
<1> QED
  BY <1>3, <1>5, <1>6 DEF Sound, Typed
LEMMA InstallIsSound ==
  ASSUME Sound, NEW t \in Thread, Install(t)
  PROVE  Sound'
<1>1. /\ Step(t, "install", Returned(t, thread[t].changed))
      /\ routes' = thread[t].out /\ dirty' = FALSE
      /\ UNCHANGED <<edges, table, announced, heard, raced>>
  BY DEF Install, Cleared
<1>2. /\ thread' \in [Thread -> Local]
      /\ \A u \in Thread : Searching(thread'[u]) /\ Direct(thread'[u].out)
  BY <1>1, ReturnIsGood, ThreadGoesOn DEF Sound
<1>3. thread[t].out \in Routes /\ Direct(thread[t].out)
  BY ThreadIs DEF Local, Good
<1>4. routes' \in Routes /\ Direct(routes')
  BY <1>1, <1>3, Zenon
<1> QED
  BY <1>1, <1>2, <1>4 DEF Sound, Typed

LEMMA ReadRoutesIsSound ==
  ASSUME Sound, NEW t \in Thread, ReadRoutes(t)
  PROVE  Sound'
<1> DEFINE k == [thread[t] EXCEPT !.pc = "apply", !.out = routes]
<1>1. Step(t, "announce", k) /\ UNCHANGED shared
  BY DEF ReadRoutes
<1>2. /\ thread[t] \in Local /\ Good(thread[t]) /\ thread[t].pc = "announce"
      /\ routes \in Routes /\ Direct(routes)
  BY <1>1, ThreadIs DEF Step, Sound, Typed
<1>3. k \in Local
  BY <1>2 DEF Local, Pcs
<1>4. k.pc = "apply" /\ k.label = NoRoutes /\ k.visited = {} /\ k.out = routes
  BY <1>2 DEF Local, Good, Searching
<1> HIDE DEF k
<1>5. Good(k)
  BY <1>2, <1>3, <1>4, RestingIsGood
<1> QED
  BY <1>1, <1>5, SharedKept

(* A thread that stores the routes it has read.                            *)
LEMMA StoringIsGood ==
  ASSUME Sound, NEW t \in Thread, thread[t].pc \in {"apply", "fill"},
         NEW todo \in SUBSET Node
  PROVE  Good([thread[t] EXCEPT !.pc = "fill", !.todo = todo])
<1> DEFINE k == [thread[t] EXCEPT !.pc = "fill", !.todo = todo]
<1>1. thread[t] \in Local /\ Good(thread[t])
  BY ThreadIs
<1>2. k \in Local
  BY <1>1 DEF Local, Pcs
<1>3. k.pc = "fill" /\ k.label = NoRoutes /\ k.visited = {} /\ k.out = thread[t].out
  BY <1>1 DEF Local, Good, Searching
<1>4. Direct(thread[t].out)
  BY <1>1 DEF Good
<1> HIDE DEF k
<1>5. Good(k)
  BY <1>2, <1>3, <1>4, RestingIsGood
<1> QED
  BY <1>5 DEF k

LEMMA EmptyTableIsSound ==
  ASSUME Sound, NEW t \in Thread, EmptyTable(t)
  PROVE  Sound'
<1> DEFINE todo == {d \in Node : thread[t].out[d] # None}
           k == [thread[t] EXCEPT !.pc = "fill", !.todo = todo]
<1>1. /\ Step(t, "apply", k) /\ table' = NoRoutes
      /\ UNCHANGED <<edges, dirty, routes, announced, heard, raced>>
  BY DEF EmptyTable
<1>2. Good(k)
  <2>1. todo \in SUBSET Node /\ thread[t].pc = "apply"
    BY <1>1 DEF Step
  <2> HIDE DEF todo
  <2> QED
    BY <2>1, StoringIsGood, Zenon
<1>3. /\ thread' \in [Thread -> Local]
      /\ \A u \in Thread : Searching(thread'[u]) /\ Direct(thread'[u].out)
  <2> HIDE DEF k
  <2> QED
    BY <1>1, <1>2, ThreadGoesOn
<1>4. table' \in Routes
  BY <1>1, NothingRouted
<1> QED
  BY <1>1, <1>3, <1>4 DEF Sound, Typed

LEMMA FillTableIsSound ==
  ASSUME Sound, NEW t \in Thread, FillTable(t)
  PROVE  Sound'
<1>1. PICK d \in thread[t].todo :
        /\ Step(t, "fill", [thread[t] EXCEPT !.todo = @ \ {d}])
        /\ table' = [table EXCEPT ![d] = thread[t].out[d]]
  BY DEF FillTable
<1>2. UNCHANGED <<edges, dirty, routes, announced, heard, raced>>
  BY DEF FillTable
<1> DEFINE todo == thread[t].todo \ {d}
           k == [thread[t] EXCEPT !.pc = "fill", !.todo = todo]
<1>3. thread[t] \in Local /\ thread[t].pc = "fill"
  BY <1>1, ThreadIs DEF Step
<1>4. [thread[t] EXCEPT !.todo = @ \ {d}] = k
  BY <1>3 DEF Local
<1>5. Good(k)
  <2>1. todo \in SUBSET Node
    BY <1>3 DEF Local
  <2> HIDE DEF todo
  <2> QED
    BY <1>3, <2>1, StoringIsGood, Zenon
<1>6. /\ thread' \in [Thread -> Local]
      /\ \A u \in Thread : Searching(thread'[u]) /\ Direct(thread'[u].out)
  <2> HIDE DEF k
  <2> QED
    BY <1>1, <1>4, <1>5, ThreadGoesOn
<1>7. table' \in Routes
  <2>1. table \in Routes /\ thread[t].out \in Routes /\ d \in Node
    BY <1>3 DEF Sound, Typed, Local
  <2> QED
    BY <1>1, <2>1 DEF Routes
<1> QED
  BY <1>2, <1>6, <1>7 DEF Sound, Typed

LEMMA SendRoutesIsSound ==
  ASSUME Sound, NEW t \in Thread, SendRoutes(t)
  PROVE  Sound'
<1>1. /\ Step(t, "fill", GoesOn(t)) /\ announced' = thread[t].out
      /\ UNCHANGED <<edges, dirty, routes, table, heard, raced>>
  BY DEF SendRoutes
<1>2. /\ thread' \in [Thread -> Local]
      /\ \A u \in Thread : Searching(thread'[u]) /\ Direct(thread'[u].out)
  BY <1>1, ReturnIsGood, ThreadGoesOn DEF Sound
<1>3. announced' \in Routes
  BY <1>1, ThreadIs DEF Local
<1> QED
  BY <1>1, <1>2, <1>3 DEF Sound, Typed

-----------------------------------------------------------------------------
(* The steps of the rx thread and the loop before a recalculation, and the *)
(* ageing of links.                                                        *)

LEMMA HearIsSound ==
  ASSUME Sound, NEW p \in Packets, Hear(p)
  PROVE  Sound'
<1> DEFINE links == {<<Root, p.src, p.rssi, FALSE>>}
           report == {<<p.src, r[1], r[2], FALSE>> : r \in p.report}
<1>1. /\ heard < MaxHeard /\ heard' = heard + 1 /\ raced' = Busy("bc")
      /\ Step("rx", "idle", Updating(links, report))
      /\ UNCHANGED <<edges, dirty, routes, table, announced>>
  BY DEF Hear
<1>2. p.src \in Node /\ p.rssi \in Rssi /\ p.report \subseteq Node \X Rssi
  BY Inputs
<1>3. links \in SUBSET Direction
  <2>1. <<Root, p.src, p.rssi, FALSE>> \in Direction
    BY <1>2, Nodes DEF Direction
  <2> QED
    BY <2>1
<1>4. report \in SUBSET Direction
  <2>1. \A r \in p.report : r[1] \in Node /\ r[2] \in Rssi
    BY <1>2
  <2>2. \A r \in p.report : <<p.src, r[1], r[2], FALSE>> \in Direction
    BY <1>2, <2>1 DEF Direction
  <2> QED
    BY <2>2
<1>5. Good(Updating(links, report))
  BY <1>3, <1>4, UpdatingIsGood
<1>6. "rx" \in Thread
  BY DEF Thread
<1>7. /\ thread' \in [Thread -> Local]
      /\ \A u \in Thread : Searching(thread'[u]) /\ Direct(thread'[u].out)
  <2> HIDE DEF links, report
  <2> QED
    BY <1>1, <1>5, <1>6, ThreadGoesOn
<1>8. heard' \in 0..MaxHeard /\ raced' \in BOOLEAN
  <2>1. heard \in 0..MaxHeard /\ heard < MaxHeard /\ heard' = heard + 1
    BY <1>1 DEF Sound, Typed
  <2>2. raced' \in BOOLEAN
    BY <1>1 DEF Busy
  <2> QED
    BY <2>1, <2>2, Strengths
<1> QED
  BY <1>1, <1>7, <1>8 DEF Sound, Typed

LEMMA UpdateLinkIsSound ==
  ASSUME Sound, UpdateLink
  PROVE  Sound'
<1>1. PICK l \in thread["rx"].links :
        /\ Step("rx", "update", [thread["rx"] EXCEPT !.links =
                 (@ \ {l}) \cup IF l[4] THEN {} ELSE {<<l[2], l[1], l[3], TRUE>>}])
        /\ edges' = [edges EXCEPT ![l[1]][l[2]] = [cost |-> RssiToCost(l[3]), old |-> FALSE]]
  BY DEF UpdateLink
<1>2. UNCHANGED <<dirty, routes, table, announced, heard, raced>>
  BY DEF UpdateLink
<1> DEFINE k == [thread["rx"] EXCEPT !.links =
                   (@ \ {l}) \cup IF l[4] THEN {} ELSE {<<l[2], l[1], l[3], TRUE>>}]
<1>3. "rx" \in Thread
  BY DEF Thread
<1>4. thread["rx"] \in Local /\ Good(thread["rx"]) /\ thread["rx"].pc = "update"
  BY <1>1, <1>3, ThreadIs DEF Step
<1>5. l \in Direction /\ thread["rx"].links \subseteq Direction
  BY <1>4 DEF Local
<1>6. l[1] \in Node /\ l[2] \in Node /\ l[3] \in Rssi /\ l[4] \in BOOLEAN
  BY <1>5 DEF Direction
<1>7. <<l[2], l[1], l[3], TRUE>> \in Direction
  BY <1>6 DEF Direction
<1>8. k \in Local
  BY <1>4, <1>5, <1>7 DEF Local
<1>9. /\ k.label = thread["rx"].label /\ k.visited = thread["rx"].visited
      /\ k.out = thread["rx"].out /\ k.pc = "update"
  BY <1>4 DEF Local
<1>10. Good(k)
  <2> HIDE DEF k
  <2> QED
    BY <1>4, <1>8, <1>9, SameSearch
<1>11. /\ thread' \in [Thread -> Local]
       /\ \A u \in Thread : Searching(thread'[u]) /\ Direct(thread'[u].out)
  <2>1. Step("rx", "update", k)
    BY <1>1
  <2> HIDE DEF k
  <2> QED
    BY <1>3, <1>10, <2>1, ThreadGoesOn
<1>12. edges' \in [Node -> [Node -> Link \cup {None}]]
  <2>1. edges \in [Node -> [Node -> Link \cup {None}]]
    BY DEF Sound, Typed
  <2>2. [cost |-> RssiToCost(l[3]), old |-> FALSE] \in Link
    BY <1>6, CostIsPositive DEF Link
  <2> QED
    BY <1>1, <1>6, <2>1, <2>2
<1> QED
  BY <1>2, <1>11, <1>12 DEF Sound, Typed

LEMMA MarkDirtyIsSound ==
  ASSUME Sound, MarkDirty
  PROVE  Sound'
<1> DEFINE k == [thread["rx"] EXCEPT !.pc = "check"]
<1>1. /\ Step("rx", "update", k) /\ dirty' = TRUE
      /\ UNCHANGED <<edges, routes, table, announced, heard, raced>>
  BY DEF MarkDirty
<1>2. "rx" \in Thread
  BY DEF Thread
<1>3. thread["rx"] \in Local /\ Good(thread["rx"]) /\ thread["rx"].pc = "update"
  BY <1>1, <1>2, ThreadIs DEF Step
<1>4. k \in Local
  BY <1>3 DEF Local, Pcs
<1>5. /\ k.label = thread["rx"].label /\ k.visited = thread["rx"].visited
      /\ k.out = thread["rx"].out /\ k.pc = "check"
  BY <1>3 DEF Local
<1> HIDE DEF k
<1>6. Good(k)
  BY <1>3, <1>4, <1>5, SameSearch
<1>7. /\ thread' \in [Thread -> Local]
      /\ \A u \in Thread : Searching(thread'[u]) /\ Direct(thread'[u].out)
  BY <1>1, <1>2, <1>6, ThreadGoesOn
<1> QED
  BY <1>1, <1>7 DEF Sound, Typed

LEMMA BeginBroadcastIsSound ==
  ASSUME Sound, BeginBroadcast
  PROVE  Sound'
<1>1. /\ Step("bc", "idle", [Idle EXCEPT !.pc = "check"])
      /\ raced' = (Busy("rx") \/ (raced /\ ~dirty))
      /\ UNCHANGED <<edges, dirty, routes, table, announced, heard>>
  BY DEF BeginBroadcast
<1>2. "bc" \in Thread
  BY DEF Thread
<1>3. /\ thread' \in [Thread -> Local]
      /\ \A u \in Thread : Searching(thread'[u]) /\ Direct(thread'[u].out)
  BY <1>1, <1>2, IdleIsGood, ThreadGoesOn
<1>4. raced' \in BOOLEAN
  BY <1>1 DEF Sound, Typed, Busy
<1> QED
  BY <1>1, <1>3, <1>4 DEF Sound, Typed

LEMMA LinkAgesIsSound ==
  ASSUME Sound, NEW a \in Node, NEW b \in Node, LinkAges(a, b)
  PROVE  Sound'
<1>1. /\ edges' = [m \in Node |-> [n \in Node |->
                    IF {m, n} = {a, b} /\ edges[m][n] # None
                    THEN [edges[m][n] EXCEPT !.old = TRUE] ELSE edges[m][n]]]
      /\ UNCHANGED <<dirty, routes, table, announced, thread, heard, raced>>
  BY DEF LinkAges
<1>2. edges \in [Node -> [Node -> Link \cup {None}]]
  BY DEF Sound, Typed
<1>3. \A e \in Link : [e EXCEPT !.old = TRUE] \in Link
  BY DEF Link
<1>4. edges' \in [Node -> [Node -> Link \cup {None}]]
  BY <1>1, <1>2, <1>3
<1> QED
  BY <1>1, <1>4 DEF Sound, Typed
-----------------------------------------------------------------------------
(* The search.                                                             *)

LEMMA Sizes ==
  ASSUME NEW V \in SUBSET Node
  PROVE  /\ IsFiniteSet(V) /\ Cardinality(V) \in Nat /\ Cardinality(V) <= Cardinality(Node)
         /\ \A U \in SUBSET V : /\ IsFiniteSet(U) /\ Cardinality(U) \in Nat
                                /\ Cardinality(U) <= Cardinality(V)
<1>1. IsFiniteSet(Node) /\ V \subseteq Node
  BY Nodes
<1>2. IsFiniteSet(V) /\ Cardinality(V) <= Cardinality(Node)
  BY <1>1, FS_Subset, Zenon
<1>3. Cardinality(V) \in Nat
  BY <1>2, FS_CardinalityType, Zenon
<1>4. ASSUME NEW U \in SUBSET V
      PROVE  IsFiniteSet(U) /\ Cardinality(U) \in Nat /\ Cardinality(U) <= Cardinality(V)
  <2>1. U \subseteq V
    OBVIOUS
  <2>2. IsFiniteSet(U) /\ Cardinality(U) <= Cardinality(V)
    BY <1>2, <2>1, FS_Subset, Zenon
  <2> QED
    BY <2>2, FS_CardinalityType, Zenon
<1> QED
  BY <1>2, <1>3, <1>4, Zenon

(* A search begins at the root, before any node is visited.                *)
LEMMA BeginSearchIsSound ==
  ASSUME Sound, NEW t \in Thread, BeginSearch(t)
  PROVE  Sound'
<1> DEFINE source == [cost |-> 0, hops |-> 0, prev |-> None]
           k == [thread[t] EXCEPT !.pc = "search", !.label = [@ EXCEPT ![Root] = source]]
<1>1. Step(t, "expire", k) /\ UNCHANGED shared
  BY DEF BeginSearch
<1>2. thread[t] \in Local /\ Good(thread[t]) /\ thread[t].pc = "expire"
  BY <1>1, ThreadIs DEF Step
<1>3. thread[t].label = NoRoutes /\ thread[t].visited = {}
  BY <1>2 DEF Good, Searching
<1>4. source \in Label
  BY Nodes DEF Label
<1>5. /\ k.label = [n \in Node |-> IF n = Root THEN source ELSE None]
      /\ k.visited = {} /\ k.out = thread[t].out /\ k.pc = "search"
  BY <1>2, <1>3, Nodes DEF Local, NoRoutes
<1>6. k \in Local
  <2>1. [n \in Node |-> IF n = Root THEN source ELSE None] \in [Node -> Label \cup {None}]
    <3> HIDE DEF source
    <3> QED
      BY <1>4
  <2> QED
    BY <1>2, <1>5, <2>1 DEF Local, Pcs
<1>7. Searching(k)
  <2>1. Root \in Node /\ \A n \in Node : k.label[n] # None => n = Root /\ k.label[n] = source
    BY <1>5, Nodes
  <2>2. k.label[Root] = source
    BY <1>5, Nodes
  <2>3. \A n \in Node : Cardinality({} \ {n}) \in Nat
    BY Sizes
  <2>4. k.visited = {} /\ k.pc = "search" /\ source.hops = 0
    BY <1>5
  <2> HIDE DEF k
  <2> QED
    BY <2>1, <2>2, <2>3, <2>4 DEF Searching
<1>8. Good(k)
  BY <1>2, <1>5, <1>6, <1>7 DEF Good
<1> QED
  <2> HIDE DEF k
  <2> QED
    BY <1>1, <1>8, SharedKept

(* The cheapest node of the frontier is visited.                           *)
LEMMA VisitCheapest ==
  ASSUME NEW l, Good(l), l.pc = "search",
         NEW n \in Node \ l.visited, l.label[n] # None,
         \A m \in Node \ l.visited : l.label[m] # None => l.label[n].cost <= l.label[m].cost,
         NEW k \in Local, k.label = l.label, k.visited = l.visited \cup {n},
         k.out = l.out, k.pc = "relax", k.at = n
  PROVE  Good(k)
<1>1. l \in Local /\ l.visited \subseteq Node /\ l.label \in [Node -> Label \cup {None}]
  BY DEF Good, Local
<1>2. \A m \in Node : l.label[m] # None => l.label[m].cost \in Nat /\ l.label[m].hops \in Nat
  BY <1>1, Nodes DEF Label
<1>3. /\ \A m \in l.visited : l.label[m] # None
      /\ \A a \in l.visited, b \in Node \ l.visited :
           l.label[b] # None => l.label[a].cost <= l.label[b].cost
      /\ \A m \in Node : l.label[m] # None => l.label[m].hops <= Cardinality(l.visited \ {m})
      /\ l.label[Root] = [cost |-> 0, hops |-> 0, prev |-> None]
  BY DEF Good, Searching
<1>4. \A m \in k.visited : k.label[m] # None
  BY <1>3
<1>5. \A a \in k.visited, b \in Node \ k.visited :
        k.label[b] # None => k.label[a].cost <= k.label[b].cost
  BY <1>3
<1>6. /\ k.at \in k.visited /\ k.at \in Node
      /\ \A m \in k.visited : k.label[m].cost <= k.label[k.at].cost
  BY <1>2, <1>3
<1>7. \A m \in Node : k.label[m] # None => k.label[m].hops <= Cardinality(k.visited \ {m})
  <2> SUFFICES ASSUME NEW m \in Node, k.label[m] # None
               PROVE  k.label[m].hops <= Cardinality(k.visited \ {m})
    OBVIOUS
  <2>1. l.visited \ {m} \in SUBSET (k.visited \ {m}) /\ k.visited \ {m} \in SUBSET Node
    BY <1>1
  <2>2. /\ Cardinality(l.visited \ {m}) <= Cardinality(k.visited \ {m})
        /\ Cardinality(l.visited \ {m}) \in Nat /\ Cardinality(k.visited \ {m}) \in Nat
    BY <2>1, Sizes
  <2> QED
    BY <1>2, <1>3, <2>2
<1>8. \A m \in Node \ {Root} : k.label[m] # None =>
        /\ k.label[m].prev \in k.visited
        /\ k.label[m].cost > k.label[k.label[m].prev].cost
        /\ k.label[m].hops = k.label[k.label[m].prev].hops + 1
  BY DEF Good, Searching
<1>9. Searching(k)
  BY <1>3, <1>4, <1>5, <1>6, <1>7, <1>8 DEF Searching
<1> QED
  BY <1>9 DEF Good

LEMMA PopIsSound ==
  ASSUME Sound, NEW t \in Thread, Pop(t)
  PROVE  Sound'
<1>1. PICK n \in Frontier(t) :
        /\ PopsFirst(t, n)
        /\ Step(t, "search", [Loop(t, n, "relax") EXCEPT !.visited = @ \cup {n}])
  BY DEF Pop
<1> DEFINE k == [Loop(t, n, "relax") EXCEPT !.visited = @ \cup {n}]
           l == thread[t]
<1>2. l \in Local /\ Good(l) /\ l.pc = "search"
  BY <1>1, ThreadIs DEF Step
<1>3. n \in Node \ l.visited /\ l.label[n] # None
  BY <1>1 DEF Frontier
<1>4. \A m \in Node \ l.visited : l.label[m] # None => l.label[n].cost <= l.label[m].cost
  <2> SUFFICES ASSUME NEW m \in Node \ l.visited, l.label[m] # None
               PROVE  l.label[n].cost <= l.label[m].cost
    OBVIOUS
  <2>1. l.label[n] \in Label /\ l.label[m] \in Label
    BY <1>2, <1>3 DEF Local
  <2>2. l.label[n].cost \in Nat /\ l.label[m].cost \in Nat
    BY <2>1 DEF Label
  <2>3. m \in Frontier(t)
    BY DEF Frontier
  <2>4. l.label[n].cost < l.label[m].cost \/ l.label[n].cost = l.label[m].cost
    BY <1>1, <2>3 DEF PopsFirst
  <2> QED
    BY <2>2, <2>4
<1>5. k \in Local
  BY <1>2, <1>3, Zenon DEF Local, Pcs, Loop, Neighbours
<1>6. /\ k.label = l.label /\ k.visited = l.visited \cup {n}
      /\ k.out = l.out /\ k.pc = "relax" /\ k.at = n
  BY <1>2 DEF Local, Loop
<1>7. Step(t, "search", k) /\ UNCHANGED shared
  BY <1>1 DEF Pop
<1> HIDE DEF k, l
<1>8. Good(k)
  BY <1>2, <1>3, <1>4, <1>5, <1>6, VisitCheapest
<1> QED
  BY <1>7, <1>8, SharedKept
(* What relaxing the links of a node does to labels: those of the root and *)
(* of visited nodes stay, others may come to lead to the node.             *)
LeadsTo(label, n, at, via) ==
  /\ label[n].prev = at
  /\ label[n].hops = via.hops + 1
  /\ label[n].cost \in Nat /\ label[n].cost > via.cost
  /\ label[n] = [cost |-> label[n].cost, hops |-> label[n].hops, prev |-> label[n].prev]

Relabelled(new, old, visited, at) ==
  /\ \A n \in visited \cup {Root} : new[n] = old[n]
  /\ \A n \in Node : new[n] # old[n] => LeadsTo(new, n, at, old[at])

(* It does so whatever the links cost by now.                              *)
LEMMA RelaxingKeeps ==
  ASSUME edges \in [Node -> [Node -> Link \cup {None}]],
         NEW l, Good(l), l.pc = "relax"
  PROVE  Relabelled(Relaxed(l.label, l.at), l.label, l.visited, l.at)
<1> DEFINE label == l.label
           at == l.at
           new == Relaxed(label, at)
<1>1. /\ l \in Local /\ l.visited \subseteq Node /\ label \in [Node -> Label \cup {None}]
      /\ at \in l.visited /\ at \in Node
  BY DEF Good, Local, Searching
<1>2. /\ \A m \in l.visited : label[m] # None /\ label[m].cost <= label[at].cost
      /\ label[Root] = [cost |-> 0, hops |-> 0, prev |-> None]
  BY DEF Good, Searching
<1>3. \A m \in Node : label[m] # None => label[m].cost \in Nat /\ label[m].hops \in Nat
  BY <1>1, Nodes DEF Label
<1>4. label[at].cost \in Nat /\ label[at].hops \in Nat
  BY <1>1, <1>2, <1>3
<1>5. label[Root] # None
  <2>1. [cost |-> 0, hops |-> 0, prev |-> None] \in Label
    BY Nodes DEF Label
  <2> QED
    BY <1>2, <2>1, NoneIsNoRecord
<1>6. ASSUME NEW m \in Neighbours(at)
      PROVE  edges[at][m].cost \in Nat \ {0} /\ m \in Node
  <2>1. m \in Node /\ edges[at][m] # None
    BY DEF Neighbours
  <2>2. edges[at][m] \in Link
    BY <1>1, <2>1
  <2> QED
    BY <2>1, <2>2 DEF Link
<1>7. ASSUME NEW m \in Neighbours(at), m \in l.visited \cup {Root}
      PROVE  ~ Better(label, at, m)
  <2>1. CASE m \in l.visited
    <3>1. label[m] # None /\ label[m].cost <= label[at].cost /\ label[m].cost \in Nat
      BY <1>1, <1>2, <1>3, <2>1
    <3> QED
      BY <1>4, <1>6, <3>1 DEF Better
  <2>2. CASE m = Root
    <3>1. label[m] # None /\ label[m].cost = 0
      BY <1>2, <1>5, <2>2
    <3> QED
      BY <1>4, <1>6, <3>1 DEF Better
  <2> QED
    BY <1>7, <2>1, <2>2
<1>8. \A m \in Node : new[m] =
        IF m \in Neighbours(at) /\ Better(label, at, m)
        THEN [cost |-> label[at].cost + edges[at][m].cost,
              hops |-> label[at].hops + 1, prev |-> at]
        ELSE label[m]
  BY DEF Relaxed
<1> HIDE DEF new, label, at
<1>9. \A m \in l.visited \cup {Root} : new[m] = label[m]
  BY <1>1, <1>7, <1>8, Nodes
<1>10. ASSUME NEW m \in Node, new[m] # label[m]
       PROVE  LeadsTo(new, m, at, label[at])
  <2>1. m \in Neighbours(at)
    BY <1>8, <1>10
  <2>2. edges[at][m].cost \in Nat \ {0}
    BY <1>6, <2>1
  <2>3. new[m] = [cost |-> label[at].cost + edges[at][m].cost,
                  hops |-> label[at].hops + 1, prev |-> at]
    BY <1>8, <1>10
  <2> QED
    BY <1>4, <2>2, <2>3 DEF LeadsTo
<1> QED
  BY <1>9, <1>10 DEF Relabelled, new, label, at

LEMMA RelaxIsGood ==
  ASSUME edges \in [Node -> [Node -> Link \cup {None}]],
         NEW l, Good(l), l.pc = "relax",
         NEW k, k = [l EXCEPT !.pc = "search", !.at = None, !.found = {},
                              !.label = Relaxed(l.label, l.at)]
  PROVE  Good(k)
<1> DEFINE label == l.label
           at == l.at
           V == l.visited
<1>1. /\ l \in Local /\ V \in SUBSET Node /\ label \in [Node -> Label \cup {None}]
      /\ at \in V /\ at \in Node
      /\ \A m \in V : label[m] # None /\ label[m].cost <= label[at].cost
      /\ label[Root] = [cost |-> 0, hops |-> 0, prev |-> None]
  BY DEF Good, Local, Searching
<1>2. \A m \in Node : label[m] # None => label[m].cost \in Nat /\ label[m].hops \in Nat
  BY <1>1, Nodes DEF Label
<1>3. /\ k.label = Relaxed(label, at) /\ k.visited = V /\ k.out = l.out
      /\ k.pc = "search" /\ k.at = None /\ k.found = {}
      /\ k.links = l.links /\ k.report = l.report /\ k.todo = l.todo
      /\ k.changed = l.changed
  BY <1>1 DEF Local
<1>4. Relabelled(k.label, label, V, at)
  BY <1>3, RelaxingKeeps
<1> HIDE DEF label, at, V
<1>5. \A n \in V \cup {Root} : k.label[n] = label[n]
  BY <1>4 DEF Relabelled
<1>6. \A n \in Node : k.label[n] # label[n] =>
        n \notin V /\ n # Root /\ LeadsTo(k.label, n, at, label[at])
  BY <1>4, <1>5 DEF Relabelled
(* The hops of a new label count the visited nodes.                        *)
<1>7. \A n \in Node : k.label[n] # None => k.label[n].hops <= Cardinality(V \ {n})
  <2> SUFFICES ASSUME NEW n \in Node, k.label[n] # None
               PROVE  k.label[n].hops <= Cardinality(V \ {n})
    OBVIOUS
  <2>1. \A m \in Node : label[m] # None => label[m].hops <= Cardinality(V \ {m})
    BY DEF Good, Searching, label, V
  <2>2. CASE k.label[n] = label[n]
    BY <2>1, <2>2
  <2>3. CASE k.label[n] # label[n]
    <3>1. n \notin V /\ k.label[n].hops = label[at].hops + 1
      BY <1>6, <2>3 DEF LeadsTo
    <3>2. label[at].hops <= Cardinality(V \ {at}) /\ label[at].hops \in Nat
      BY <1>1, <1>2, <2>1
    <3>3. Cardinality(V \ {at}) = Cardinality(V) - 1
      <4>1. IsFiniteSet(V)
        BY <1>1, Sizes
      <4> QED
        BY <1>1, <4>1, FS_RemoveElement
    <3>4. Cardinality(V \ {n}) = Cardinality(V) /\ Cardinality(V) \in Nat
      <4>1. V \ {n} = V
        BY <3>1
      <4> QED
        BY <1>1, <4>1, Sizes, Zenon
    <3> QED
      BY <3>1, <3>2, <3>3, <3>4
  <2> QED
    BY <2>2, <2>3
<1>8. k.label \in [Node -> Label \cup {None}]
  <2>1. ASSUME NEW n \in Node, k.label[n] # label[n], k.label[n] # None
        PROVE  k.label[n] \in Label
    <3>1. /\ k.label[n].prev \in Node /\ k.label[n].cost \in Nat
          /\ k.label[n].hops \in Nat
          /\ k.label[n] = [cost |-> k.label[n].cost,
                           hops |-> k.label[n].hops, prev |-> k.label[n].prev]
      BY <1>1, <1>2, <1>6, <2>1 DEF LeadsTo
    <3>2. k.label[n].hops <= Cardinality(V \ {n}) /\ V \ {n} \in SUBSET Node
      BY <1>1, <1>7, <2>1
    <3>3. /\ Cardinality(V \ {n}) \in Nat /\ Cardinality(Node) \in Nat
          /\ Cardinality(V \ {n}) <= Cardinality(Node)
      BY <3>2, Sizes, Nodes
    <3>4. k.label[n].hops \in 0..Cardinality(Node)
      BY <3>1, <3>2, <3>3
    <3> QED
      BY <3>1, <3>4 DEF Label
  <2>2. \A n \in Node : k.label[n] \in Label \cup {None}
    BY <1>1, <2>1
  <2>3. k.label = [n \in Node |-> k.label[n]]
    BY <1>3 DEF Relaxed
  <2> QED
    BY <2>2, <2>3
<1>9. k \in Local
  BY <1>1, <1>3, <1>8 DEF Local, Pcs, label, at, V
<1>10. \A n \in k.visited : k.label[n] # None
  BY <1>1, <1>3, <1>5
<1>11. \A n \in k.visited, m \in Node \ k.visited :
         k.label[m] # None => k.label[n].cost <= k.label[m].cost
  <2> SUFFICES ASSUME NEW n \in V, NEW m \in Node \ V, k.label[m] # None
               PROVE  k.label[n].cost <= k.label[m].cost
    BY <1>3
  <2>1. k.label[n] = label[n] /\ label[n] # None /\ label[n].cost \in Nat
    BY <1>1, <1>2, <1>5
  <2>2. CASE k.label[m] = label[m]
    BY <2>1, <2>2 DEF Good, Searching, label, V
  <2>3. CASE k.label[m] # label[m]
    <3>1. /\ label[n].cost <= label[at].cost /\ label[at].cost \in Nat
          /\ k.label[m].cost > label[at].cost /\ k.label[m].cost \in Nat
      BY <1>1, <1>2, <1>6, <2>3 DEF LeadsTo
    <3> QED
      BY <2>1, <3>1
  <2> QED
    BY <2>2, <2>3
<1>12. ASSUME NEW n \in Node \ {Root}, k.label[n] # None
       PROVE  /\ k.label[n].prev \in k.visited
              /\ k.label[n].cost > k.label[k.label[n].prev].cost
              /\ k.label[n].hops = k.label[k.label[n].prev].hops + 1
  <2>1. CASE k.label[n] = label[n]
    <3>1. /\ label[n].prev \in V
          /\ label[n].cost > label[label[n].prev].cost
          /\ label[n].hops = label[label[n].prev].hops + 1
      BY <1>12, <2>1 DEF Good, Searching, label, V
    <3>2. k.label[label[n].prev] = label[label[n].prev]
      BY <1>5, <3>1
    <3> QED
      BY <1>3, <2>1, <3>1, <3>2
  <2>2. CASE k.label[n] # label[n]
    <3>1. /\ k.label[n].prev = at /\ k.label[n].cost > label[at].cost
          /\ k.label[n].hops = label[at].hops + 1
      BY <1>6, <2>2 DEF LeadsTo
    <3>2. k.label[at] = label[at]
      BY <1>1, <1>5
    <3> QED
      BY <1>1, <1>3, <3>1, <3>2
  <2> QED
    BY <2>1, <2>2
<1>13. k.label[Root] = [cost |-> 0, hops |-> 0, prev |-> None]
  BY <1>1, <1>5
<1>14. Searching(k)
  BY <1>3, <1>7, <1>10, <1>11, <1>12, <1>13 DEF Searching
<1> QED
  BY <1>3, <1>9, <1>14 DEF Good

LEMMA RelaxIsSound ==
  ASSUME Sound, NEW t \in Thread, Relax(t)
  PROVE  Sound'
<1> DEFINE k == [thread[t] EXCEPT !.pc = "search", !.at = None, !.found = {},
                                  !.label = Relaxed(thread[t].label, thread[t].at)]
           l == IF Resized(t) THEN Raised(t) ELSE k
<1>1. Step(t, "relax", l) /\ UNCHANGED shared
  BY DEF Relax
<1>2. Good(thread[t]) /\ thread[t].pc = "relax"
  BY <1>1, ThreadIs DEF Step
<1>3. edges \in [Node -> [Node -> Link \cup {None}]]
  BY DEF Sound, Typed
<1>4. Good(k)
  BY <1>2, <1>3, RelaxIsGood, Zenon
<1>5. Good(l)
  BY <1>4, ReturnIsGood DEF Sound
<1> QED
  <2> HIDE DEF l
  <2> QED
    BY <1>1, <1>5, SharedKept
-----------------------------------------------------------------------------
(* The trace back from a label to the first hop.                           *)

(* Of some naturals one is the least.                                      *)
LEMMA LeastOf ==
  ASSUME NEW S, S \subseteq Nat, S # {}
  PROVE  \E i \in S : \A j \in S : i <= j
<1> DEFINE Below == {ss \in Nat \X Nat : ss[1] < ss[2]}
<1>1. IsWellFoundedOn(Below, Nat)
  BY NatLessThanWellFounded, Zenon DEF OpToRel
<1>2. \A i, j \in Nat : j < i => <<j, i>> \in Below
  OBVIOUS
<1> HIDE DEF Below
<1>3. PICK i \in S : \A j \in S : ~ (<<j, i>> \in Below)
  BY <1>1, WFMin, Zenon
<1>4. \A j \in S : ~ (j < i)
  BY <1>2, <1>3, Zenon
<1> QED
  BY <1>4

(* Labels that lead back to the root, one hop at a time.                   *)
Rooted(label) ==
  /\ label \in [Node -> Label \cup {None}]
  /\ label[Root] = [cost |-> 0, hops |-> 0, prev |-> None]
  /\ \A n \in Node \ {Root} : label[n] # None =>
       /\ label[n].prev \in Node /\ label[label[n].prev] # None
       /\ label[n].cost > label[label[n].prev].cost
       /\ label[n].hops = label[label[n].prev].hops + 1

(* The function that FirstHop is about.                                    *)
IsTrace(label, f) ==
  f = [n \in Node |-> IF Traced(label, n) THEN n ELSE f[label[n].prev]]

LEMMA FirstHopTraces ==
  ASSUME NEW label, NEW d, NEW f, IsTrace(label, f)
  PROVE  \E g : IsTrace(label, g) /\ FirstHop(label, d) = g[d]
<1> DEFINE back == CHOOSE g : g = [n \in Node |-> IF Traced(label, n) THEN n ELSE g[label[n].prev]]
<1>1. back = [n \in Node |-> IF Traced(label, n) THEN n ELSE back[label[n].prev]]
  BY DEF IsTrace
<1>2. FirstHop(label, d) = back[d]
  BY DEF FirstHop
<1> HIDE DEF back
<1> QED
  BY <1>1, <1>2 DEF IsTrace

(* Where a trace goes on, it comes closer.                                 *)
LEMMA TraceGoesOn ==
  ASSUME NEW label, Rooted(label), NEW n \in Node, ~ Traced(label, n)
  PROVE  /\ label[n].prev \in Node \ {Root} /\ label[label[n].prev] # None
         /\ label[n].hops \in Nat /\ label[label[n].prev].hops \in Nat
         /\ label[n].hops = label[label[n].prev].hops + 1
<1>1. label[n] # None /\ label[n].prev # Root /\ label[n].prev # None
  BY DEF Traced
<1>2. n # Root
  BY <1>1 DEF Rooted
<1>3. /\ label[n].prev \in Node /\ label[label[n].prev] # None
      /\ label[n].hops = label[label[n].prev].hops + 1
  BY <1>1, <1>2 DEF Rooted
<1>4. label[n] \in Label /\ label[label[n].prev] \in Label
  BY <1>1, <1>3 DEF Rooted
<1>5. label[n].hops \in Nat /\ label[label[n].prev].hops \in Nat
  BY <1>4, Nodes DEF Label
<1> QED
  BY <1>1, <1>3, <1>5
(* The trace is defined: hops decrease along it.                           *)
LEMMA TraceExists ==
  ASSUME NEW label, Rooted(label)
  PROVE  \E f : IsTrace(label, f)
<1> DEFINE Hop(f, n) == IF Traced(label, n) THEN n ELSE f[label[n].prev]
           Near(k) == {n \in Node : Traced(label, n) \/ label[n].hops < k}
           P(k) == \E f \in [Node -> Node] : \A n \in Near(k) : f[n] = Hop(f, n)
<1>1. P(0)
  <2>1. \A n \in Near(0) : Traced(label, n)
    <3> SUFFICES ASSUME NEW n \in Node, ~ Traced(label, n)
                 PROVE  ~ (label[n].hops < 0)
      OBVIOUS
    <3>1. label[n].hops \in Nat
      BY TraceGoesOn
    <3> QED
      BY <3>1
  <2>2. [n \in Node |-> n] \in [Node -> Node]
    OBVIOUS
  <2>3. \A n \in Near(0) : [m \in Node |-> m][n] = Hop([m \in Node |-> m], n)
    BY <2>1
  <2> HIDE DEF Near, Hop
  <2> QED
    BY <2>2, <2>3
<1>2. ASSUME NEW k \in Nat, P(k)
      PROVE  P(k + 1)
  <2>1. PICK f \in [Node -> Node] : \A n \in Near(k) : f[n] = Hop(f, n)
    BY <1>2
  <2> DEFINE g == [n \in Node |-> IF Traced(label, n) \/ label[n].prev \notin Node
                                  THEN n ELSE f[label[n].prev]]
  <2>2. g \in [Node -> Node]
    BY <2>1
  <2>3. ASSUME NEW n \in Near(k + 1)
        PROVE  g[n] = Hop(g, n)
    <3>1. CASE Traced(label, n)
      BY <3>1
    <3>2. CASE ~ Traced(label, n)
      <4>1. n \in Node /\ label[n].hops < k + 1
        BY <3>2
      <4> DEFINE m == label[n].prev
      <4>2. /\ m \in Node /\ label[n].hops \in Nat /\ label[m].hops \in Nat
            /\ label[n].hops = label[m].hops + 1
        BY <3>2, <4>1, TraceGoesOn
      <4>3. m \in Near(k)
        BY <4>1, <4>2
      <4>4. f[m] = Hop(f, m)
        BY <2>1, <4>3
      <4>5. g[n] = f[m]
        BY <3>2, <4>1, <4>2
      <4>6. g[m] = f[m]
        <5>1. CASE Traced(label, m)
          BY <4>2, <4>4, <5>1
        <5>2. CASE ~ Traced(label, m)
          <6>1. label[m].prev \in Node
            BY <4>2, <5>2, TraceGoesOn
          <6> QED
            BY <4>2, <4>4, <5>2, <6>1
        <5> QED
          BY <5>1, <5>2
      <4> QED
        BY <3>2, <4>5, <4>6
    <3> QED
      BY <3>1, <3>2
  <2> HIDE DEF g, Near, Hop
  <2> QED
    BY <2>2, <2>3
<1>3. \A k \in Nat : P(k)
  <2> DEFINE S == {k \in Nat : ~ P(k)}
  <2> HIDE DEF P
  <2> SUFFICES ASSUME S # {}
               PROVE  FALSE
    OBVIOUS
  <2>1. S \subseteq Nat
    OBVIOUS
  <2>2. PICK k \in S : \A j \in S : k <= j
    BY <2>1, LeastOf
  <2>3. k \in Nat /\ ~ P(k) /\ k # 0
    BY <1>1
  <2>4. k - 1 \in Nat /\ k - 1 \notin S
    BY <2>2, <2>3
  <2>5. P(k - 1)
    BY <2>4
  <2>6. P((k - 1) + 1)
    BY <1>2, <2>4, <2>5
  <2>7. (k - 1) + 1 = k
    BY <2>3
  <2> QED
    BY <2>3, <2>6, <2>7
<1>4. Cardinality(Node) + 1 \in Nat
  BY Nodes
<1>5. P(Cardinality(Node) + 1)
  <2> HIDE DEF P
  <2> QED
    BY <1>3, <1>4
<1>6. PICK f \in [Node -> Node] : \A n \in Near(Cardinality(Node) + 1) : f[n] = Hop(f, n)
  BY <1>5
<1>7. ASSUME NEW n \in Node
      PROVE  n \in Near(Cardinality(Node) + 1)
  <2> SUFFICES ASSUME ~ Traced(label, n)
               PROVE  label[n].hops < Cardinality(Node) + 1
    OBVIOUS
  <2>1. label[n] \in Label
    BY DEF Rooted, Traced
  <2>2. label[n].hops \in 0..Cardinality(Node)
    BY <2>1 DEF Label
  <2> QED
    BY <2>2, Nodes
<1>8. f = [n \in Node |-> Hop(f, n)]
  <2>1. \A n \in Node : f[n] = Hop(f, n)
    BY <1>6, <1>7
  <2> HIDE DEF Hop
  <2> QED
    BY <2>1
<1> QED
  BY <1>8 DEF IsTrace

(* A labelled node's trace ends at a labelled node one hop from the root.  *)
LEMMA TraceEnds ==
  ASSUME NEW label, Rooted(label), NEW f, IsTrace(label, f),
         NEW d \in Node \ {Root}, label[d] # None
  PROVE  /\ f[d] \in Node \ {Root} /\ label[f[d]] # None
         /\ Traced(label, f[d]) /\ f[f[d]] = f[d]
<1> DEFINE Ends(n) == /\ f[n] \in Node \ {Root} /\ label[f[n]] # None
                      /\ Traced(label, f[n])
           Lost == {n \in Node \ {Root} : label[n] # None /\ ~ Ends(n)}
           ranks == {label[n].hops : n \in Lost}
<1>1. \A n \in Node : f[n] = IF Traced(label, n) THEN n ELSE f[label[n].prev]
  BY DEF IsTrace
<1>2. Lost = {}
  <2> SUFFICES ASSUME Lost # {}
               PROVE  FALSE
    OBVIOUS
  <2>1. \A n \in Node : label[n] # None => label[n].hops \in Nat
    <3> SUFFICES ASSUME NEW n \in Node, label[n] # None
                 PROVE  label[n].hops \in Nat
      OBVIOUS
    <3>1. label[n] \in Label
      BY DEF Rooted
    <3> QED
      BY <3>1, Nodes DEF Label
  <2>2. ranks \subseteq Nat /\ ranks # {}
    BY <2>1
  <2>3. PICK r \in ranks : \A q \in ranks : r <= q
    <3> HIDE DEF ranks
    <3> QED
      BY <2>2, LeastOf
  <2>4. PICK n \in Lost : r = label[n].hops
    BY <2>3
  <2>5. n \in Node \ {Root} /\ label[n] # None /\ ~ Ends(n)
    BY <2>4
  <2>6. ~ Traced(label, n)
    BY <1>1, <2>5
  <2> DEFINE m == label[n].prev
  <2>7. /\ m \in Node \ {Root} /\ label[m] # None /\ label[m].hops \in Nat
        /\ label[n].hops \in Nat /\ label[n].hops = label[m].hops + 1
    BY <2>5, <2>6, TraceGoesOn
  <2>8. f[n] = f[m]
    BY <1>1, <2>5, <2>6
  <2>9. m \in Lost
    BY <2>5, <2>7, <2>8
  <2>10. r <= label[m].hops
    BY <2>3, <2>9
  <2> QED
    BY <2>4, <2>7, <2>10
<1>3. Ends(d)
  BY <1>2
<1>4. f[f[d]] = f[d]
  BY <1>1, <1>3
<1> QED
  BY <1>3, <1>4
(* Every first hop of the routes is a neighbour's own first hop.           *)
LEMMA RoutesAreDirect ==
  ASSUME NEW label, Rooted(label)
  PROVE  RoutesOf(label) \in Routes /\ Direct(RoutesOf(label))
<1> DEFINE r == RoutesOf(label)
<1>1. PICK f : IsTrace(label, f)
  BY TraceExists
<1>2. ASSUME NEW d \in Node \ {Root}, label[d] # None
      PROVE  /\ r[d] \in Route
             /\ r[r[d].hop] # None /\ r[r[d].hop].hop = r[d].hop
  <2>1. PICK g : IsTrace(label, g) /\ FirstHop(label, d) = g[d]
    BY <1>1, FirstHopTraces
  <2> DEFINE via == g[d]
  <2>2. via \in Node \ {Root} /\ label[via] # None /\ Traced(label, via)
    BY <1>2, <2>1, TraceEnds
  <2>3. r[d] = [hop |-> via, cost |-> label[d].cost, hops |-> label[d].hops]
    BY <1>2, <2>1 DEF RoutesOf
  <2>4. PICK h : IsTrace(label, h) /\ FirstHop(label, via) = h[via]
    BY <1>1, FirstHopTraces
  <2>5. h[via] = via
    BY <2>2, <2>4 DEF IsTrace
  <2>6. r[via] = [hop |-> via, cost |-> label[via].cost, hops |-> label[via].hops]
    BY <2>2, <2>4, <2>5 DEF RoutesOf
  <2>7. ASSUME NEW n \in Node \ {Root}, label[n] # None
        PROVE  label[n].cost \in Nat \ {0} /\ label[n].hops \in 1..Cardinality(Node)
    <3>1. /\ label[n].prev \in Node /\ label[label[n].prev] # None
          /\ label[n].cost > label[label[n].prev].cost
          /\ label[n].hops = label[label[n].prev].hops + 1
      BY <2>7 DEF Rooted
    <3>2. label[n] \in Label /\ label[label[n].prev] \in Label
      BY <2>7, <3>1 DEF Rooted
    <3>3. /\ label[n].cost \in Nat /\ label[label[n].prev].cost \in Nat
          /\ label[n].hops \in 0..Cardinality(Node)
          /\ label[label[n].prev].hops \in 0..Cardinality(Node)
      BY <3>2 DEF Label
    <3> QED
      BY <3>1, <3>3, Nodes
  <2>8. r[d] \in Route /\ r[via] \in Route
    <3>1. /\ label[d].cost \in Nat \ {0} /\ label[d].hops \in 1..Cardinality(Node)
          /\ label[via].cost \in Nat \ {0} /\ label[via].hops \in 1..Cardinality(Node)
      BY <1>2, <2>2, <2>7
    <3> HIDE DEF r
    <3> QED
      BY <2>2, <2>3, <2>6, <3>1 DEF Route
  <2> HIDE DEF r
  <2> QED
    BY <2>3, <2>6, <2>8, NoneIsNoRecord
<1>3. \A d \in Node : d = Root \/ label[d] = None => r[d] = None
  BY DEF RoutesOf
<1>4. r = [d \in Node |-> r[d]]
  BY DEF RoutesOf
<1> HIDE DEF r
<1>5. r \in Routes
  BY <1>2, <1>3, <1>4 DEF Routes
<1>6. Direct(r)
  BY <1>2, <1>3, Nodes DEF Direct
<1> QED
  BY <1>5, <1>6 DEF r

LEMMA CompareIsSound ==
  ASSUME Sound, NEW t \in Thread, Compare(t)
  PROVE  Sound'
<1> DEFINE new == RoutesOf(thread[t].label)
           k == [Idle EXCEPT !.pc = "install", !.report = thread[t].report,
                             !.out = new, !.changed = new # routes]
<1>1. Step(t, "search", k) /\ UNCHANGED shared
  BY DEF Compare
<1>2. thread[t] \in Local /\ Good(thread[t]) /\ thread[t].pc = "search"
  BY <1>1, ThreadIs DEF Step
<1>3. Rooted(thread[t].label)
  BY <1>2 DEF Good, Searching, Local, Rooted
<1>4. new \in Routes /\ Direct(new)
  BY <1>3, RoutesAreDirect
<1>5. thread[t].report \in SUBSET Direction
  BY <1>2 DEF Local
<1> HIDE DEF new
<1>6. k \in Local
  BY <1>4, <1>5, IdleIsGood DEF Local, Pcs
<1>7. k.pc = "install" /\ k.label = NoRoutes /\ k.visited = {} /\ k.out = new
  BY DEF Idle
<1> HIDE DEF k
<1>8. Good(k)
  BY <1>4, <1>6, <1>7, RestingIsGood
<1> QED
  BY <1>1, <1>8, SharedKept

-----------------------------------------------------------------------------
(* All steps.                                                              *)

LEMMA RoundIsSound ==
  ASSUME Sound, NEW t \in Thread, Round(t)
  PROVE  Sound'
BY CheckIsSound, NextScanIsSound, ScanLinksIsSound, DeleteLinksIsSound,
   BeginSearchIsSound, PopIsSound, RelaxIsSound, CompareIsSound, InstallIsSound,
   ReadRoutesIsSound, EmptyTableIsSound, FillTableIsSound, SendRoutesIsSound
DEF Round

LEMMA SoundInvariant ==
  /\ Init => Sound
  /\ Sound /\ [Next]_vars => Sound'
<1>1. ASSUME Init
      PROVE  Sound
  <2>1. Good(Idle) /\ thread = [t \in Thread |-> Idle]
    BY <1>1, IdleIsGood DEF Init
  <2>2. thread \in [Thread -> Local]
    BY <2>1 DEF Good
  <2>3. \A t \in Thread : Searching(thread[t]) /\ Direct(thread[t].out)
    BY <2>1 DEF Good
  <2>4. edges \in [Node -> [Node -> Link \cup {None}]]
    BY <1>1 DEF Init, NoRoutes
  <2>5. /\ dirty \in BOOLEAN /\ raced \in BOOLEAN
        /\ routes \in Routes /\ table \in Routes /\ announced \in Routes /\ Direct(routes)
    BY <1>1, NothingRouted DEF Init
  <2>6. heard \in 0..MaxHeard
    BY <1>1, Strengths DEF Init
  <2> QED
    BY <2>2, <2>3, <2>4, <2>5, <2>6 DEF Sound, Typed
<1>2. ASSUME Sound, Next
      PROVE  Sound'
  <2>1. "rx" \in Thread /\ "bc" \in Thread
    BY DEF Thread
  <2>2. CASE \E p \in Packets : Hear(p)
    BY <1>2, <2>2, HearIsSound
  <2>3. CASE RxStep
    BY <1>2, <2>1, <2>3, UpdateLinkIsSound, MarkDirtyIsSound, RoundIsSound DEF RxStep
  <2>4. CASE BcStep
    BY <1>2, <2>1, <2>4, BeginBroadcastIsSound, RoundIsSound DEF BcStep
  <2>5. CASE \E a, b \in Node : LinkAges(a, b)
    BY <1>2, <2>5, LinkAgesIsSound
  <2> QED
    BY <1>2, <2>2, <2>3, <2>4, <2>5 DEF Next
<1>3. Sound /\ UNCHANGED vars => Sound'
  BY DEF vars, Sound, Typed
<1> QED
  BY <1>1, <1>2, <1>3

LEMMA SoundAlways == Spec => []Sound
BY SoundInvariant, PTL DEF Spec

-----------------------------------------------------------------------------
(* The theorems.                                                           *)

(* Every variable has its type, whatever the threads do to each other: the *)
(* cost of a link and of a route is at least 1, a route has a hop for each *)
(* node at most.                                                           *)
THEOREM TypeCorrect == Spec => []TypeOK
<1>1. Sound => TypeOK
  <2> SUFFICES ASSUME Sound
               PROVE  TypeOK
    OBVIOUS
  <2>1. /\ edges \in [Node -> [Node -> Link \cup {None}]]
        /\ dirty \in BOOLEAN /\ raced \in BOOLEAN /\ heard \in 0..MaxHeard
        /\ routes \in Routes /\ table \in Routes /\ announced \in Routes
        /\ thread \in [Thread -> Local]
    BY DEF Sound, Typed
  <2>2. \A a, b \in Node : edges[a][b] = None \/ edges[a][b] \in [cost : Nat \ {0}, old : BOOLEAN]
    BY <2>1 DEF Link
  <2>3. \A r \in {routes, table, announced} : \A d \in Node :
          r[d] = None \/ r[d] \in [hop : Node, cost : Nat \ {0}, hops : 1..Cardinality(Node)]
    BY <2>1 DEF Routes, Route
  <2>4. \A t \in Thread : \A n \in Node :
          thread[t].label[n] = None \/ thread[t].label[n] \in Label
    BY <2>1 DEF Local
  <2> QED
    BY <2>1, <2>2, <2>3, <2>4 DEF TypeOK
<1> QED
  BY <1>1, SoundAlways, PTL

(* Whatever the threads do to each other's search, the routes installed    *)
(* have first hops that are their own first hops, and none to the root.    *)
THEOREM FirstHopsAlwaysDirect == Spec => []FirstHopsDirect
<1>1. Sound => FirstHopsDirect
  BY DEF Sound, Direct, FirstHopsDirect
<1> QED
  BY <1>1, SoundAlways, PTL
-----------------------------------------------------------------------------
(* What a search has settled.                                              *)

Keeps(l, k) == \A n \in l.visited \cap k.visited : k.label[n] = l.label[n]

LEMMA StepsKeep ==
  ASSUME Sound, NEW t \in Thread, NEW pc, NEW l, Step(t, pc, l), Keeps(thread[t], l)
  PROVE  \A u \in Thread : Keeps(thread[u], thread'[u])
<1>1. thread \in [Thread -> Local] /\ thread' = [thread EXCEPT ![t] = l]
  BY DEF Sound, Typed, Step
<1>2. thread'[t] = l /\ \A u \in Thread \ {t} : thread'[u] = thread[u]
  BY <1>1
<1>3. \A u \in Thread \ {t} : Keeps(thread[u], thread'[u])
  BY <1>2 DEF Keeps
<1>4. Keeps(thread[t], thread'[t])
  BY <1>2, Zenon
<1> QED
  BY <1>3, <1>4

(* Outside a search nothing is visited.                                    *)
LEMMA OutsideSearchKeeps ==
  ASSUME Sound, NEW t \in Thread, NEW pc, pc \notin {"search", "relax"},
         NEW l, Step(t, pc, l)
  PROVE  \A u \in Thread : Keeps(thread[u], thread'[u])
<1>1. thread[t].visited = {}
  BY ThreadIs DEF Step, Good, Searching
<1>2. Keeps(thread[t], l)
  BY <1>1 DEF Keeps
<1> QED
  BY <1>2, StepsKeep

LEMMA PopKeeps ==
  ASSUME Sound, NEW t \in Thread, Pop(t)
  PROVE  \A u \in Thread : Keeps(thread[u], thread'[u])
<1>1. PICK n \in Frontier(t) :
        Step(t, "search", [Loop(t, n, "relax") EXCEPT !.visited = @ \cup {n}])
  BY DEF Pop
<1> DEFINE k == [Loop(t, n, "relax") EXCEPT !.visited = @ \cup {n}]
<1>2. thread[t] \in Local
  BY ThreadIs
<1>3. k.label = thread[t].label
  BY <1>2 DEF Local, Loop
<1>4. Keeps(thread[t], k) /\ Step(t, "search", k)
  BY <1>1, <1>3 DEF Keeps
<1> HIDE DEF k
<1> QED
  BY <1>4, StepsKeep

LEMMA RelaxKeeps ==
  ASSUME Sound, NEW t \in Thread, Relax(t)
  PROVE  \A u \in Thread : Keeps(thread[u], thread'[u])
<1> DEFINE k == [thread[t] EXCEPT !.pc = "search", !.at = None, !.found = {},
                                  !.label = Relaxed(thread[t].label, thread[t].at)]
           l == IF Resized(t) THEN Raised(t) ELSE k
<1>1. Step(t, "relax", l)
  BY DEF Relax
<1>2. thread[t] \in Local /\ Good(thread[t]) /\ thread[t].pc = "relax"
  BY <1>1, ThreadIs DEF Step
<1>3. edges \in [Node -> [Node -> Link \cup {None}]]
  BY DEF Sound, Typed
<1>4. k.label = Relaxed(thread[t].label, thread[t].at)
  BY <1>2 DEF Local
<1>5. Relabelled(k.label, thread[t].label, thread[t].visited, thread[t].at)
  BY <1>2, <1>3, <1>4, RelaxingKeeps
<1>6. Keeps(thread[t], k)
  <2> HIDE DEF k
  <2> QED
    BY <1>5 DEF Relabelled, Keeps
<1>7. Keeps(thread[t], Raised(t))
  <2>1. Raised(t).visited = {}
    BY DEF Raised, Idle
  <2> QED
    BY <2>1 DEF Keeps
<1>8. Keeps(thread[t], l)
  <2> HIDE DEF k
  <2> QED
    BY <1>6, <1>7
<1> HIDE DEF l
<1> QED
  BY <1>1, <1>8, StepsKeep

LEMMA CompareKeeps ==
  ASSUME Sound, NEW t \in Thread, Compare(t)
  PROVE  \A u \in Thread : Keeps(thread[u], thread'[u])
<1> DEFINE new == RoutesOf(thread[t].label)
           k == [Idle EXCEPT !.pc = "install", !.report = thread[t].report,
                             !.out = new, !.changed = new # routes]
<1>1. Step(t, "search", k)
  BY DEF Compare
<1>2. k.visited = {}
  BY DEF Idle
<1>3. Keeps(thread[t], k)
  BY <1>2 DEF Keeps
<1> HIDE DEF k
<1> QED
  BY <1>1, <1>3, StepsKeep

LEMMA RoundKeeps ==
  ASSUME Sound, NEW t \in Thread, Round(t)
  PROVE  \A u \in Thread : Keeps(thread[u], thread'[u])
<1>1. CASE Pop(t) \/ Relax(t) \/ Compare(t)
  BY <1>1, PopKeeps, RelaxKeeps, CompareKeeps
<1>2. ASSUME ~ (Pop(t) \/ Relax(t) \/ Compare(t))
      PROVE  \E pc, l : pc \notin {"search", "relax"} /\ Step(t, pc, l)
  <2>1. CASE Check(t)
    BY <2>1, Zenon DEF Check
  <2>2. CASE NextScan(t)
    BY <2>2, Zenon DEF NextScan
  <2>3. CASE ScanLinks(t)
    BY <2>3, Zenon DEF ScanLinks
  <2>4. CASE DeleteLinks(t)
    BY <2>4, Zenon DEF DeleteLinks
  <2>5. CASE BeginSearch(t)
    BY <2>5, Zenon DEF BeginSearch
  <2>6. CASE Install(t)
    BY <2>6, Zenon DEF Install
  <2>7. CASE ReadRoutes(t)
    BY <2>7, Zenon DEF ReadRoutes
  <2>8. CASE EmptyTable(t)
    BY <2>8, Zenon DEF EmptyTable
  <2>9. CASE FillTable(t)
    BY <2>9, Zenon DEF FillTable
  <2>10. CASE SendRoutes(t)
    BY <2>10, Zenon DEF SendRoutes
  <2> QED
    BY <1>2, <2>1, <2>2, <2>3, <2>4, <2>5, <2>6, <2>7, <2>8, <2>9, <2>10 DEF Round
<1> QED
  BY <1>1, <1>2, OutsideSearchKeeps

(* The label of a visited node is final, although the costs and the links  *)
(* of the graph change under the search.                                   *)
THEOREM VisitedStaysFinal == Spec => VisitedIsFinal
<1>1. Sound /\ [Next]_vars =>
        [\A t \in Thread : \A n \in thread[t].visited \cap thread'[t].visited :
           thread'[t].label[n] = thread[t].label[n]]_vars
  <2> SUFFICES ASSUME Sound, Next
               PROVE  \A t \in Thread : Keeps(thread[t], thread'[t])
    BY DEF Keeps
  <2>1. "rx" \in Thread /\ "bc" \in Thread
    BY DEF Thread
  <2>2. ASSUME NEW p \in Packets, Hear(p)
        PROVE  \A t \in Thread : Keeps(thread[t], thread'[t])
    <3>1. \E l : Step("rx", "idle", l)
      BY <2>2, Zenon DEF Hear
    <3> QED
      BY <2>1, <3>1, OutsideSearchKeeps
  <2>3. ASSUME UpdateLink \/ MarkDirty
        PROVE  \A t \in Thread : Keeps(thread[t], thread'[t])
    <3>1. \E l : Step("rx", "update", l)
      BY <2>3, Zenon DEF UpdateLink, MarkDirty
    <3> QED
      BY <2>1, <3>1, OutsideSearchKeeps
  <2>4. ASSUME BeginBroadcast
        PROVE  \A t \in Thread : Keeps(thread[t], thread'[t])
    <3>1. \E l : Step("bc", "idle", l)
      BY <2>4, Zenon DEF BeginBroadcast
    <3> QED
      BY <2>1, <3>1, OutsideSearchKeeps
  <2>5. ASSUME NEW a \in Node, NEW b \in Node, LinkAges(a, b)
        PROVE  \A t \in Thread : Keeps(thread[t], thread'[t])
    BY <2>5 DEF LinkAges, Keeps
  <2> QED
    BY <2>1, <2>2, <2>3, <2>4, <2>5, RoundKeeps DEF Next, RxStep, BcStep
<1> QED
  BY <1>1, SoundAlways, PTL DEF Spec, VisitedIsFinal

-----------------------------------------------------------------------------
(* What a thread does while the other one rests.                           *)

(* What a step of a recalculation can do to the graph, to pc and raced.    *)
RoundOf(t) ==
  /\ raced' = raced /\ Busy(t)
  /\ \A u \in Thread \ {t} : thread'[u] = thread[u]
  /\ edges' = edges \/ DeleteLinks(t)
  /\ thread'[t].pc = "delete" => ScanLinks(t)

LEMMA StepIs ==
  ASSUME Sound, NEW t \in Thread, NEW pc, NEW l, Step(t, pc, l)
  PROVE  /\ thread[t].pc = pc /\ thread'[t] = l
         /\ \A u \in Thread \ {t} : thread'[u] = thread[u]
<1>1. thread \in [Thread -> Local] /\ thread' = [thread EXCEPT ![t] = l]
  BY DEF Sound, Typed, Step
<1> QED
  BY <1>1 DEF Step

LEMMA RoundStep ==
  ASSUME Sound, NEW t \in Thread, NEW pc, NEW l, Step(t, pc, l),
         pc \notin {"idle", "dead"}, raced' = raced,
         edges' = edges \/ DeleteLinks(t), thread'[t].pc = "delete" => ScanLinks(t)
  PROVE  RoundOf(t)
BY StepIs DEF RoundOf, Busy

LEMMA ReturnsElsewhere ==
  ASSUME NEW t \in Thread, NEW changed
  PROVE  /\ GoesOn(t).pc # "delete" /\ Returned(t, changed).pc # "delete"
         /\ Raised(t).pc # "delete"
BY DEF GoesOn, Returned, Raised, Updating, Idle

LEMMA RoundIs ==
  ASSUME Sound, NEW t \in Thread, Round(t)
  PROVE  RoundOf(t)
<1>0. thread[t] \in Local /\ thread \in [Thread -> Local]
  BY ThreadIs DEF Sound, Typed
<1>1. CASE Check(t)
  <2>1. PICK l : Step(t, "check", l)
    BY <1>1, Zenon DEF Check
  <2>2. thread'[t].pc # "delete"
    BY <1>0, <1>1, ReturnsElsewhere DEF Check, Step, Local
  <2> QED
    BY <1>1, <2>1, <2>2, RoundStep DEF Check, shared
<1>2. CASE NextScan(t)
  <2>1. PICK l : Step(t, "expire", l)
    BY <1>2, Zenon DEF NextScan
  <2>2. thread'[t].pc # "delete"
    BY <1>0, <1>2 DEF NextScan, Step, Loop, Local
  <2> QED
    BY <1>2, <2>1, <2>2, RoundStep DEF NextScan, shared
<1>3. CASE ScanLinks(t)
  <2>1. PICK l : Step(t, "scan", l)
    BY <1>3, Zenon DEF ScanLinks
  <2> QED
    BY <1>3, <2>1, RoundStep, Zenon DEF ScanLinks, shared
<1>4. CASE DeleteLinks(t)
  <2>1. PICK l : Step(t, "delete", l)
    BY <1>4, Zenon DEF DeleteLinks
  <2>2. thread'[t].pc # "delete"
    BY <1>0, <1>4, ReturnsElsewhere DEF DeleteLinks, Step, Scanned, Local
  <2> QED
    BY <1>4, <2>1, <2>2, RoundStep DEF DeleteLinks
<1>5. CASE BeginSearch(t)
  <2>1. PICK l : Step(t, "expire", l)
    BY <1>5, Zenon DEF BeginSearch
  <2>2. thread'[t].pc # "delete"
    BY <1>0, <1>5 DEF BeginSearch, Step, Local
  <2> QED
    BY <1>5, <2>1, <2>2, RoundStep DEF BeginSearch, shared
<1>6. CASE Pop(t)
  <2>1. PICK l : Step(t, "search", l)
    BY <1>6, Zenon DEF Pop
  <2>2. thread'[t].pc # "delete"
    BY <1>0, <1>6 DEF Pop, Step, Loop, Local
  <2> QED
    BY <1>6, <2>1, <2>2, RoundStep DEF Pop, shared
<1>7. CASE Relax(t)
  <2>1. PICK l : Step(t, "relax", l)
    BY <1>7, Zenon DEF Relax
  <2>2. thread'[t].pc # "delete"
    BY <1>0, <1>7, ReturnsElsewhere DEF Relax, Step, Local
  <2> QED
    BY <1>7, <2>1, <2>2, RoundStep DEF Relax, shared
<1>8. CASE Compare(t)
  <2>1. PICK l : Step(t, "search", l)
    BY <1>8, Zenon DEF Compare
  <2>2. thread'[t].pc # "delete"
    BY <1>0, <1>8 DEF Compare, Step, Idle
  <2> QED
    BY <1>8, <2>1, <2>2, RoundStep DEF Compare, shared
<1>9. CASE Install(t)
  <2>1. PICK l : Step(t, "install", l)
    BY <1>9, Zenon DEF Install
  <2>2. thread'[t].pc # "delete"
    BY <1>0, <1>9, ReturnsElsewhere DEF Install, Step
  <2> QED
    BY <1>9, <2>1, <2>2, RoundStep DEF Install
<1>10. CASE ReadRoutes(t)
  <2>1. PICK l : Step(t, "announce", l)
    BY <1>10, Zenon DEF ReadRoutes
  <2>2. thread'[t].pc # "delete"
    BY <1>0, <1>10 DEF ReadRoutes, Step, Local
  <2> QED
    BY <1>10, <2>1, <2>2, RoundStep DEF ReadRoutes, shared
<1>11. CASE EmptyTable(t)
  <2>1. PICK l : Step(t, "apply", l)
    BY <1>11, Zenon DEF EmptyTable
  <2>2. thread'[t].pc # "delete"
    BY <1>0, <1>11 DEF EmptyTable, Step, Local
  <2> QED
    BY <1>11, <2>1, <2>2, RoundStep DEF EmptyTable
<1>12. CASE FillTable(t)
  <2>1. PICK l : Step(t, "fill", l)
    BY <1>12, Zenon DEF FillTable
  <2>2. thread'[t].pc # "delete"
    BY <1>0, <1>12 DEF FillTable, Step, Local
  <2> QED
    BY <1>12, <2>1, <2>2, RoundStep DEF FillTable
<1>13. CASE SendRoutes(t)
  <2>1. PICK l : Step(t, "fill", l)
    BY <1>13, Zenon DEF SendRoutes
  <2>2. thread'[t].pc # "delete"
    BY <1>0, <1>13, ReturnsElsewhere DEF SendRoutes, Step
  <2> QED
    BY <1>13, <2>1, <2>2, RoundStep DEF SendRoutes
<1> QED
  BY <1>1, <1>2, <1>3, <1>4, <1>5, <1>6, <1>7, <1>8, <1>9, <1>10, <1>11, <1>12, <1>13
  DEF Round
(* A deletion takes links away that the scan has found.                    *)
LEMMA DeletesFound ==
  ASSUME Sound, NEW t \in Thread, DeleteLinks(t), NEW a \in Node, NEW b \in Node,
         edges'[a][b] # edges[a][b]
  PROVE  /\ a = thread[t].at /\ b \in thread[t].found /\ thread[t].pc = "delete"
         /\ edges'[a][b] = None /\ edges[a][b] # None
<1> DEFINE n == thread[t].at
           present == thread[t].found \cap Neighbours(n)
<1>1. PICK gone \in SUBSET present :
        edges' = [edges EXCEPT ![n] = [m \in Node |-> IF m \in gone THEN None ELSE @[m]]]
  BY DEF DeleteLinks
<1>2. edges \in [Node -> [Node -> Link \cup {None}]] /\ thread[t].pc = "delete"
  BY DEF Sound, Typed, DeleteLinks, Step
<1>3. n \in Node
  BY <1>2, ThreadIs DEF Good, Searching
<1>4. edges'[n] = [m \in Node |-> IF m \in gone THEN None ELSE edges[n][m]]
      /\ \A m \in Node \ {n} : edges'[m] = edges[m]
  <2> HIDE DEF n
  <2> QED
    BY <1>1, <1>2, <1>3
<1>5. a = n /\ b \in gone /\ edges'[a][b] = None
  BY <1>4
<1>6. b \in thread[t].found /\ edges[a][b] # None
  BY <1>5 DEF Neighbours
<1> QED
  BY <1>2, <1>5, <1>6

(* Stale links stay stale or go while the other thread rests.              *)
LEMMA RoundAlone ==
  ASSUME Sound, Alone, NEW t \in Thread, Round(t)
  PROVE  Alone'
<1>1. RoundOf(t)
  BY RoundIs
<1>2. Thread = {"rx", "bc"}
  BY DEF Thread
<1>3. (Busy("rx") /\ Busy("bc"))' => raced'
  <2>1. \A u \in Thread : Busy(u)' => Busy(u)
    BY <1>1 DEF RoundOf, Busy
  <2> QED
    BY <1>1, <1>2, <2>1 DEF RoundOf, Alone
<1>4. ASSUME NEW u \in Thread, thread'[u].pc = "delete", ~ raced',
             NEW m \in thread'[u].found, edges'[thread'[u].at][m] # None
      PROVE  edges'[thread'[u].at][m].old
  <2>1. thread \in [Thread -> Local] /\ Good(thread[u]) /\ Good(thread[t])
    BY ThreadIs DEF Sound, Typed
  <2>2. CASE u = t
    <3>1. ScanLinks(t)
      BY <1>1, <1>4, <2>2 DEF RoundOf
    <3>2. edges' = edges
      BY <3>1 DEF ScanLinks, shared
    <3> DEFINE k == [thread[t] EXCEPT !.pc = "delete", !.found = StaleLinks(thread[t].at)]
    <3>3. thread'[t] = k
      <4>1. thread'[t] = IF Resized(t) THEN Raised(t)
                         ELSE IF StaleLinks(thread[t].at) = {} THEN Scanned(t) ELSE k
        BY <2>1, <3>1 DEF ScanLinks, Step
      <4>2. Raised(t).pc # "delete" /\ Scanned(t).pc # "delete"
        BY <2>1, ReturnsElsewhere DEF Scanned, Local
      <4> HIDE DEF k
      <4> QED
        BY <1>4, <2>2, <4>1, <4>2
    <3>4. k.found = StaleLinks(thread[t].at) /\ k.at = thread[t].at
      BY <2>1 DEF Local
    <3> HIDE DEF k
    <3>5. m \in StaleLinks(thread[t].at) /\ thread'[u].at = thread[t].at
      BY <1>4, <2>2, <3>3, <3>4
    <3> QED
      BY <3>2, <3>5 DEF StaleLinks
  <2>3. CASE u # t
    <3>1. thread'[u] = thread[u] /\ raced' = raced
      BY <1>1, <2>3 DEF RoundOf
    <3>2. Busy(t) /\ Busy(u)
      BY <1>1, <1>4, <3>1 DEF RoundOf, Busy
    <3>3. raced
      BY <1>2, <2>3, <3>2 DEF Alone
    <3> QED
      BY <1>4, <3>1, <3>3
  <2> QED
    BY <2>2, <2>3
<1> QED
  BY <1>3, <1>4 DEF Alone

LEMMA AloneInvariant ==
  /\ Init => Alone
  /\ Sound /\ Alone /\ [Next]_vars => Alone'
<1>0. "rx" \in Thread /\ "bc" \in Thread /\ Thread = {"rx", "bc"}
  BY DEF Thread
<1>1. ASSUME Init
      PROVE  Alone
  <2>1. \A t \in Thread : thread[t].pc = "idle"
    BY <1>1 DEF Init, Idle
  <2> QED
    BY <1>0, <2>1 DEF Alone, Busy
<1>2. ASSUME Sound, Alone, NEW p \in Packets, Hear(p)
      PROVE  Alone'
  <2>1. /\ thread'["rx"].pc = "update" /\ thread["rx"].pc = "idle"
        /\ thread'["bc"] = thread["bc"]
        /\ edges' = edges /\ raced' = Busy("bc")
    <3>1. PICK links, report : Step("rx", "idle", Updating(links, report))
      BY <1>2, Zenon DEF Hear
    <3>2. Updating(links, report).pc = "update"
      BY DEF Updating, Idle
    <3>3. thread["rx"].pc = "idle" /\ thread'["rx"] = Updating(links, report)
          /\ thread'["bc"] = thread["bc"]
      BY <1>0, <1>2, <3>1, StepIs
    <3> QED
      BY <1>2, <3>2, <3>3 DEF Hear
  <2>2. Busy("bc")' => raced'
    BY <2>1 DEF Busy
  <2>3. \A t \in Thread : thread'[t].pc = "delete" => t = "bc" /\ Busy("bc")'
    BY <1>0, <2>1 DEF Busy
  <2> QED
    BY <2>2, <2>3 DEF Alone
<1>3. ASSUME Sound, Alone, UpdateLink \/ MarkDirty
      PROVE  Alone'
  <2>1. PICK l : Step("rx", "update", l)
    BY <1>3, Zenon DEF UpdateLink, MarkDirty
  <2>2. /\ thread["rx"].pc = "update" /\ thread'["bc"] = thread["bc"]
        /\ raced' = raced
    BY <1>0, <1>3, <2>1, StepIs DEF UpdateLink, MarkDirty
  <2>3. thread'["rx"].pc # "delete"
    <3>1. thread["rx"] \in Local /\ thread \in [Thread -> Local]
      BY <1>0, <1>3, ThreadIs DEF Sound, Typed
    <3>2. CASE UpdateLink
      <4>1. PICK links : Step("rx", "update", [thread["rx"] EXCEPT !.links = links])
        BY <3>2, Zenon DEF UpdateLink
      <4> QED
        BY <1>0, <2>2, <3>1, <4>1 DEF Step, Local
    <3>3. CASE MarkDirty
      BY <1>0, <3>1, <3>3 DEF MarkDirty, Step, Local
    <3> QED
      BY <1>3, <3>2, <3>3
  <2>4. Busy("rx") /\ (Busy("bc")' => Busy("bc"))
    BY <2>2 DEF Busy
  <2>5. Busy("bc")' => raced'
    BY <1>3, <2>2, <2>4 DEF Alone
  <2>6. \A t \in Thread : thread'[t].pc = "delete" => t = "bc" /\ Busy("bc")'
    BY <1>0, <2>3 DEF Busy
  <2> QED
    BY <2>5, <2>6 DEF Alone
<1>4. ASSUME Sound, Alone, BeginBroadcast
      PROVE  Alone'
  <2>1. /\ thread'["rx"] = thread["rx"] /\ thread'["bc"].pc = "check"
        /\ raced' = (Busy("rx") \/ (raced /\ ~dirty))
    <3>1. Step("bc", "idle", [Idle EXCEPT !.pc = "check"])
      BY <1>4 DEF BeginBroadcast
    <3>2. [Idle EXCEPT !.pc = "check"].pc = "check"
      BY DEF Idle
    <3>3. thread'["bc"] = [Idle EXCEPT !.pc = "check"] /\ thread'["rx"] = thread["rx"]
      BY <1>0, <1>4, <3>1, StepIs
    <3> QED
      BY <1>4, <3>2, <3>3 DEF BeginBroadcast
  <2>2. Busy("rx")' => raced'
    BY <2>1 DEF Busy
  <2>3. \A t \in Thread : thread'[t].pc = "delete" => t = "rx" /\ Busy("rx")'
    BY <1>0, <2>1 DEF Busy
  <2> QED
    BY <2>2, <2>3 DEF Alone
<1>5. ASSUME Alone, NEW a \in Node, NEW b \in Node, LinkAges(a, b)
      PROVE  Alone'
  <2>1. thread' = thread /\ \A t \in Thread : ~ Busy(t)
    BY <1>5 DEF LinkAges
  <2>2. \A t \in Thread : ~ Busy(t)' /\ thread'[t].pc # "delete"
    BY <2>1 DEF Busy
  <2> QED
    BY <1>0, <2>2 DEF Alone
<1>6. Alone /\ UNCHANGED vars => Alone'
  BY DEF vars, Alone, Busy
<1> QED
  BY <1>0, <1>1, <1>2, <1>3, <1>4, <1>5, <1>6, RoundAlone DEF Next, RxStep, BcStep

LEMMA AloneAlways == Spec => [](Sound /\ Alone)
BY SoundInvariant, AloneInvariant, PTL DEF Spec

(* Only a link that nobody reported for 120 seconds leaves the graph,      *)
(* unless the two threads overlapped: the other one may have refreshed it  *)
(* between scan and deletion.                                              *)
THEOREM FreshLinkStays == Spec => FreshLinkKept
<1>1. Sound /\ Alone /\ [Next]_vars =>
        [\A a, b \in Node :
           edges[a][b] # None /\ ~edges[a][b].old /\ edges'[a][b] = None
             => raced]_vars
  <2> SUFFICES ASSUME Sound, Alone, Next, NEW a \in Node, NEW b \in Node,
                      edges[a][b] # None, ~ edges[a][b].old, edges'[a][b] = None
               PROVE  raced
    OBVIOUS
  <2>1. "rx" \in Thread /\ "bc" \in Thread
    BY DEF Thread
  <2>2. edges' # edges
    OBVIOUS
  <2>3. edges \in [Node -> [Node -> Link \cup {None}]]
    BY DEF Sound, Typed
  <2>4. ASSUME NEW t \in Thread, Round(t)
        PROVE  raced
    <3>1. DeleteLinks(t)
      BY <2>2, <2>4, RoundIs DEF RoundOf
    <3>2. a = thread[t].at /\ b \in thread[t].found /\ thread[t].pc = "delete"
      BY <2>2, <3>1, DeletesFound
    <3> QED
      BY <3>2 DEF Alone
  <2>5. ~ UpdateLink
    <3> SUFFICES ASSUME UpdateLink
                 PROVE  FALSE
      OBVIOUS
    <3>1. PICK l \in thread["rx"].links :
            edges' = [edges EXCEPT ![l[1]][l[2]] = [cost |-> RssiToCost(l[3]), old |-> FALSE]]
      BY DEF UpdateLink
    <3>2. l \in Direction
      BY <2>1, <3>1, ThreadIs DEF Local
    <3>3. l[1] \in Node /\ l[2] \in Node /\ l[3] \in Rssi
      BY <3>2 DEF Direction
    <3>4. [cost |-> RssiToCost(l[3]), old |-> FALSE] \in Link
      BY <3>3, CostIsPositive DEF Link
    <3> QED
      BY <2>3, <3>1, <3>3, <3>4, NoneIsNoRecord
  <2>6. \A m, n \in Node : ~ LinkAges(m, n)
    <3> SUFFICES ASSUME NEW m \in Node, NEW n \in Node, LinkAges(m, n)
                 PROVE  FALSE
      OBVIOUS
    <3> DEFINE Ages(i, j) == {i, j} = {m, n} /\ edges[i][j] # None
    <3>1. edges' = [i \in Node |-> [j \in Node |->
                     IF Ages(i, j) THEN [edges[i][j] EXCEPT !.old = TRUE] ELSE edges[i][j]]]
      BY DEF LinkAges
    <3> HIDE DEF Ages
    <3>2. edges'[a][b] = edges[a][b] \/ edges'[a][b] = [edges[a][b] EXCEPT !.old = TRUE]
      BY <3>1
    <3>3. edges[a][b] \in Link
      BY <2>3
    <3>4. [edges[a][b] EXCEPT !.old = TRUE] \in Link
      BY <3>3 DEF Link
    <3> QED
      BY <3>2, <3>4, NoneIsNoRecord
  <2>7. ~ MarkDirty /\ ~ BeginBroadcast /\ \A p \in Packets : ~ Hear(p)
    BY <2>2 DEF MarkDirty, BeginBroadcast, Hear
  <2> QED
    BY <2>1, <2>4, <2>5, <2>6, <2>7 DEF Next, RxStep, BcStep
<1> QED
  BY <1>1, AloneAlways, PTL DEF Spec, FreshLinkKept

-----------------------------------------------------------------------------
(* Path costs.                                                             *)

Graph == edges \in [Node -> [Node -> Link \cup {None}]]

Matrix == [Node -> [Node -> Nat]]

(* Costs of paths with inner nodes in N: at most a link's, and at most     *)
(* that of the detour by a node of N.                                      *)
Shortest(N, m) ==
  /\ m \in Matrix
  /\ \A a, b \in Node : m[a][b] <= LinkCosts[a][b]
  /\ \A a, b \in Node, n \in N : m[a][b] <= m[a][n] + m[n][b]

(* Paths of that cost from a labelled node lead to nodes labelled no more. *)
Above(label, m) ==
  \A a, b \in Node : label[a] # None /\ m[a][b] < Unreachable =>
    label[b] # None /\ label[b].cost <= label[a].cost + m[a][b]

LEMMA LinkCostsAre ==
  ASSUME Graph
  PROVE  /\ LinkCosts \in Matrix /\ Unreachable \in Nat
         /\ \A a \in Node : LinkCosts[a][a] = 0
         /\ \A a, b \in Node : a # b =>
              LinkCosts[a][b] = IF edges[a][b] = None THEN Unreachable ELSE edges[a][b].cost
<1>1. Unreachable \in Nat
  BY Nodes DEF Unreachable
<1>2. \A a, b \in Node : edges[a][b] # None => edges[a][b].cost \in Nat
  BY DEF Graph, Link
<1>3. \A a, b \in Node : LinkCosts[a][b] =
        IF a = b THEN 0 ELSE IF edges[a][b] = None THEN Unreachable ELSE edges[a][b].cost
  BY DEF LinkCosts
<1>4. LinkCosts \in Matrix
  BY <1>1, <1>2 DEF LinkCosts, Matrix
<1> QED
  BY <1>1, <1>3, <1>4

LEMMA ViaIs ==
  ASSUME NEW r \in Matrix, NEW n \in Node
  PROVE  /\ Via(r, n) \in Matrix
         /\ \A a, b \in Node :
              /\ r[a][b] \in Nat /\ Via(r, n)[a][b] \in Nat
              /\ Via(r, n)[a][b] = IF r[a][n] + r[n][b] < r[a][b]
                                   THEN r[a][n] + r[n][b] ELSE r[a][b]
<1>1. \A a, b \in Node : r[a][b] \in Nat
  BY DEF Matrix
<1>2. \A a, b \in Node :
        Via(r, n)[a][b] = IF r[a][n] + r[n][b] < r[a][b]
                          THEN r[a][n] + r[n][b] ELSE r[a][b]
  BY DEF Via
<1>3. \A a, b \in Node : Via(r, n)[a][b] \in Nat
  BY <1>1, <1>2
<1>4. Via(r, n) \in Matrix
  BY <1>1 DEF Via, Matrix
<1> QED
  BY <1>1, <1>2, <1>3, <1>4

LEMMA ViaShortens ==
  ASSUME Graph, NEW N \in SUBSET Node, NEW r, Shortest(N, r), NEW k \in Node
  PROVE  Shortest(N \cup {k}, Via(r, k))
<1> DEFINE v == Via(r, k)
<1>1. r \in Matrix
  BY DEF Shortest
<1>2. /\ v \in Matrix
      /\ \A a, b \in Node :
           /\ r[a][b] \in Nat /\ v[a][b] \in Nat
           /\ v[a][b] = IF r[a][k] + r[k][b] < r[a][b] THEN r[a][k] + r[k][b] ELSE r[a][b]
  BY <1>1, ViaIs
<1> HIDE DEF v
<1>3. \A a, b \in Node : v[a][b] <= r[a][b] /\ v[a][b] <= r[a][k] + r[k][b]
  BY <1>2
<1>4. \A a, b \in Node : LinkCosts[a][b] \in Nat
  BY LinkCostsAre DEF Matrix
<1>5. \A a, b \in Node : v[a][b] <= LinkCosts[a][b]
  BY <1>2, <1>3, <1>4 DEF Shortest
<1>6. r[k][k] = 0
  BY <1>2, LinkCostsAre DEF Shortest
<1>7. ASSUME NEW a \in Node, NEW b \in Node, NEW n \in N \cup {k}
      PROVE  v[a][b] <= v[a][n] + v[n][b]
  <2>1. n \in Node
    OBVIOUS
  <2>2. CASE n = k
    <3>1. v[a][k] = r[a][k] /\ v[k][b] = r[k][b]
      BY <1>2, <1>6
    <3> QED
      BY <1>3, <2>2, <3>1
  <2>3. CASE n \in N
    <3>1. /\ r[a][b] <= r[a][n] + r[n][b]
          /\ r[a][k] <= r[a][n] + r[n][k]
          /\ r[k][b] <= r[k][n] + r[n][b]
      BY <2>3 DEF Shortest
    <3>2. /\ v[a][n] = r[a][n] \/ v[a][n] = r[a][k] + r[k][n]
          /\ v[n][b] = r[n][b] \/ v[n][b] = r[n][k] + r[k][b]
          /\ v[a][b] <= r[a][b] /\ v[a][b] <= r[a][k] + r[k][b]
      BY <1>2, <1>3, <2>1
    <3>3. /\ r[a][b] \in Nat /\ r[a][n] \in Nat /\ r[n][b] \in Nat /\ r[a][k] \in Nat
          /\ r[n][k] \in Nat /\ r[k][n] \in Nat /\ r[k][b] \in Nat /\ v[a][b] \in Nat
      BY <1>2, <2>1
    <3> QED
      BY <3>1, <3>2, <3>3
  <2> QED
    BY <2>2, <2>3
<1> QED
  BY <1>2, <1>5, <1>7 DEF Shortest, v

LEMMA ViaStaysAbove ==
  ASSUME NEW label \in [Node -> Label \cup {None}], NEW r \in Matrix, Above(label, r),
         NEW k \in Node, Graph
  PROVE  Above(label, Via(r, k))
<1> DEFINE v == Via(r, k)
<1>1. \A a, b \in Node :
        /\ r[a][b] \in Nat /\ v[a][b] \in Nat
        /\ v[a][b] = IF r[a][k] + r[k][b] < r[a][b] THEN r[a][k] + r[k][b] ELSE r[a][b]
  BY ViaIs
<1> HIDE DEF v
<1>2. Unreachable \in Nat
  BY LinkCostsAre
<1>3. \A n \in Node : label[n] # None => label[n].cost \in Nat
  BY DEF Label
<1>4. ASSUME NEW a \in Node, NEW b \in Node, label[a] # None, v[a][b] < Unreachable
      PROVE  label[b] # None /\ label[b].cost <= label[a].cost + v[a][b]
  <2>1. CASE v[a][b] = r[a][b]
    BY <1>4, <2>1 DEF Above
  <2>2. CASE v[a][b] = r[a][k] + r[k][b]
    <3>1. /\ r[a][k] \in Nat /\ r[k][b] \in Nat
          /\ r[a][k] < Unreachable /\ r[k][b] < Unreachable
      BY <1>1, <1>2, <1>4, <2>2
    <3>2. label[k] # None /\ label[k].cost <= label[a].cost + r[a][k]
      BY <1>4, <3>1 DEF Above
    <3>3. label[b] # None /\ label[b].cost <= label[k].cost + r[k][b]
      BY <3>1, <3>2 DEF Above
    <3>4. label[a].cost \in Nat /\ label[b].cost \in Nat /\ label[k].cost \in Nat
      BY <1>3, <1>4, <3>2, <3>3
    <3> QED
      BY <2>2, <3>1, <3>2, <3>3, <3>4
  <2> QED
    BY <1>1, <2>1, <2>2
<1> QED
  BY <1>4 DEF Above, v

(* Sets of nodes are built node by node.                                   *)
LEMMA SetsOfNodes ==
  ASSUME NEW S, {} \in S,
         \A N \in SUBSET Node : N # {} /\ N \ {CHOOSE n \in N : TRUE} \in S => N \in S
  PROVE  SUBSET Node \subseteq S
<1> DEFINE Lost == {N \in SUBSET Node : N \notin S}
           sizes == {Cardinality(N) : N \in Lost}
<1> SUFFICES ASSUME Lost # {}
             PROVE  FALSE
  OBVIOUS
<1>1. \A N \in SUBSET Node : IsFiniteSet(N) /\ Cardinality(N) \in Nat
  BY Nodes, FS_Subset, FS_CardinalityType
<1>2. sizes \subseteq Nat /\ sizes # {}
  BY <1>1
<1>3. PICK k \in sizes : \A j \in sizes : k <= j
  <2> HIDE DEF sizes
  <2> QED
    BY <1>2, LeastOf
<1>4. PICK N \in Lost : k = Cardinality(N)
  BY <1>3
<1>5. N \in SUBSET Node /\ N \notin S /\ N # {}
  BY <1>4
<1> DEFINE n == CHOOSE n \in N : TRUE
           M == N \ {n}
<1>6. n \in N /\ M \in SUBSET Node
  BY <1>5
<1>7. M \in Lost
  BY <1>5, <1>6
<1>8. Cardinality(M) = Cardinality(N) - 1
  BY <1>1, <1>5, <1>6, FS_RemoveElement
<1>9. k <= Cardinality(M)
  BY <1>3, <1>7
<1> QED
  BY <1>1, <1>4, <1>5, <1>8, <1>9

(* The function that PathCost is about.                                    *)
CostBy(c, N) ==
  IF N = {} THEN LinkCosts
  ELSE LET n == CHOOSE n \in N : TRUE IN Via(c[N \ {n}], n)

IsCost(c) == c = [N \in SUBSET Node |-> CostBy(c, N)]

LEMMA CostExists ==
  ASSUME Graph
  PROVE  \E c : IsCost(c)
<1> DEFINE P(k) == \E f \in [SUBSET Node -> Matrix] :
                     \A N \in SUBSET Node : Cardinality(N) < k => f[N] = CostBy(f, N)
<1>0. \A N \in SUBSET Node : IsFiniteSet(N) /\ Cardinality(N) \in Nat
  BY Nodes, FS_Subset, FS_CardinalityType
<1>1. P(0)
  <2>1. [N \in SUBSET Node |-> LinkCosts] \in [SUBSET Node -> Matrix]
    BY LinkCostsAre
  <2>2. \A N \in SUBSET Node : ~ (Cardinality(N) < 0)
    BY <1>0
  <2> QED
    BY <2>1, <2>2
<1>2. ASSUME NEW k \in Nat, P(k)
      PROVE  P(k + 1)
  <2>1. PICK f \in [SUBSET Node -> Matrix] :
          \A N \in SUBSET Node : Cardinality(N) < k => f[N] = CostBy(f, N)
    BY <1>2
  <2> DEFINE g == [N \in SUBSET Node |-> CostBy(f, N)]
  <2>2. ASSUME NEW N \in SUBSET Node
        PROVE  CostBy(f, N) \in Matrix
    <3>1. CASE N = {}
      BY <3>1, LinkCostsAre DEF CostBy
    <3>2. CASE N # {}
      <4> DEFINE n == CHOOSE n \in N : TRUE
      <4>1. n \in Node /\ f[N \ {n}] \in Matrix
        BY <2>1, <3>2
      <4> HIDE DEF n
      <4>2. Via(f[N \ {n}], n) \in Matrix
        BY <4>1, ViaIs
      <4> QED
        BY <3>2, <4>2 DEF CostBy, n
    <3> QED
      BY <3>1, <3>2
  <2>3. g \in [SUBSET Node -> Matrix]
    BY <2>2
  <2>4. ASSUME NEW N \in SUBSET Node, Cardinality(N) < k + 1
        PROVE  g[N] = CostBy(g, N)
    <3>1. CASE N = {}
      BY <3>1 DEF CostBy
    <3>2. CASE N # {}
      <4> DEFINE n == CHOOSE n \in N : TRUE
                 M == N \ {n}
      <4>1. n \in N /\ M \in SUBSET Node
        BY <3>2
      <4>2. Cardinality(M) = Cardinality(N) - 1
        BY <1>0, <4>1, FS_RemoveElement
      <4>3. Cardinality(M) < k
        BY <1>0, <2>4, <4>1, <4>2
      <4>4. g[M] = f[M]
        BY <2>1, <4>1, <4>3
      <4>5. CostBy(f, N) = Via(f[M], n) /\ CostBy(g, N) = Via(g[M], n)
        BY <3>2 DEF CostBy
      <4>6. g[N] = CostBy(f, N)
        OBVIOUS
      <4> QED
        BY <4>4, <4>5, <4>6
    <3> QED
      BY <3>1, <3>2
  <2> HIDE DEF g
  <2> QED
    BY <2>3, <2>4
<1>3. \A k \in Nat : P(k)
  <2> DEFINE S == {k \in Nat : ~ P(k)}
  <2> HIDE DEF P
  <2> SUFFICES ASSUME S # {}
               PROVE  FALSE
    OBVIOUS
  <2>1. S \subseteq Nat
    OBVIOUS
  <2>2. PICK k \in S : \A j \in S : k <= j
    BY <2>1, LeastOf
  <2>3. k \in Nat /\ ~ P(k) /\ k # 0
    BY <1>1
  <2>4. k - 1 \in Nat /\ k - 1 \notin S
    BY <2>2, <2>3
  <2>5. P(k - 1)
    BY <2>4
  <2>6. P((k - 1) + 1)
    BY <1>2, <2>4, <2>5
  <2>7. (k - 1) + 1 = k
    BY <2>3
  <2> QED
    BY <2>3, <2>6, <2>7
<1>4. Cardinality(Node) + 1 \in Nat
  BY Nodes
<1>5. P(Cardinality(Node) + 1)
  <2> HIDE DEF P
  <2> QED
    BY <1>3, <1>4
<1>6. PICK f \in [SUBSET Node -> Matrix] :
        \A N \in SUBSET Node : Cardinality(N) < Cardinality(Node) + 1 => f[N] = CostBy(f, N)
  BY <1>5
<1>7. \A N \in SUBSET Node : Cardinality(N) <= Cardinality(Node)
  BY Nodes, FS_Subset
<1>8. \A N \in SUBSET Node : f[N] = CostBy(f, N)
  BY <1>0, <1>6, <1>7, Nodes
<1>9. f = [N \in SUBSET Node |-> CostBy(f, N)]
  BY <1>6, <1>8
<1> QED
  BY <1>9 DEF IsCost

LEMMA PathCostIs ==
  ASSUME Graph
  PROVE  \E c : IsCost(c) /\ PathCost = c[Node]
<1> DEFINE cost == CHOOSE c : c = [N \in SUBSET Node |->
                     IF N = {} THEN LinkCosts
                     ELSE LET n == CHOOSE n \in N : TRUE IN Via(c[N \ {n}], n)]
<1>1. \E c : c = [N \in SUBSET Node |->
                    IF N = {} THEN LinkCosts
                    ELSE LET n == CHOOSE n \in N : TRUE IN Via(c[N \ {n}], n)]
  BY CostExists DEF IsCost, CostBy
<1>2. cost = [N \in SUBSET Node |->
                IF N = {} THEN LinkCosts
                ELSE LET n == CHOOSE n \in N : TRUE IN Via(cost[N \ {n}], n)]
  BY <1>1
<1>3. PathCost = cost[Node]
  BY DEF PathCost
<1> HIDE DEF cost
<1> QED
  BY <1>2, <1>3 DEF IsCost, CostBy

(* A path costs no more than a detour, and no less than labels differ that *)
(* no link makes cheaper.                                                  *)
LEMMA PathCosts ==
  ASSUME Graph, NEW label \in [Node -> Label \cup {None}], Above(label, LinkCosts)
  PROVE  Shortest(Node, PathCost) /\ Above(label, PathCost)
<1>1. PICK c : IsCost(c) /\ PathCost = c[Node]
  BY PathCostIs
<1> DEFINE S == {N \in SUBSET Node : Shortest(N, c[N]) /\ Above(label, c[N])}
<1>2. \A N \in SUBSET Node : c[N] = CostBy(c, N)
  BY <1>1 DEF IsCost
<1>3. {} \in S
  <2>1. c[{}] = LinkCosts
    BY <1>2 DEF CostBy
  <2>2. LinkCosts \in Matrix
    BY LinkCostsAre
  <2>3. \A a, b \in Node : LinkCosts[a][b] <= LinkCosts[a][b]
    BY <2>2 DEF Matrix
  <2>4. Shortest({}, LinkCosts)
    BY <2>2, <2>3 DEF Shortest
  <2> QED
    BY <2>1, <2>4
<1>4. ASSUME NEW N \in SUBSET Node, N # {}, N \ {CHOOSE n \in N : TRUE} \in S
      PROVE  N \in S
  <2> DEFINE n == CHOOSE n \in N : TRUE
             M == N \ {n}
  <2>1. n \in N /\ n \in Node /\ M \in SUBSET Node /\ N = M \cup {n}
    BY <1>4
  <2>2. Shortest(M, c[M]) /\ Above(label, c[M])
    BY <1>4
  <2>3. c[N] = Via(c[M], n)
    BY <1>2, <1>4 DEF CostBy
  <2> HIDE DEF n, M
  <2>4. Shortest(N, c[N])
    BY <2>1, <2>2, <2>3, ViaShortens
  <2>5. c[M] \in Matrix
    BY <2>2 DEF Shortest
  <2>6. Above(label, c[N])
    BY <2>1, <2>2, <2>3, <2>5, ViaStaysAbove
  <2> QED
    BY <2>4, <2>6
<1>5. Node \in S
  <2> HIDE DEF S
  <2>1. SUBSET Node \subseteq S
    BY <1>3, <1>4, SetsOfNodes
  <2> QED
    BY <2>1
<1> QED
  BY <1>1, <1>5

-----------------------------------------------------------------------------
(* Labels that certify routes.                                             *)

(* In graph g a label's cost is that of its prev and of the link from it.  *)
Explained(g, label) ==
  \A n \in Node \ {Root} : label[n] # None =>
    LET p == label[n].prev
    IN  g[p][n] # None /\ label[n].cost = label[p].cost + g[p][n].cost

(* No link from a node of N makes a label cheaper.                         *)
Settled(g, label, N) ==
  \A n \in N, m \in Node : g[n][m] # None =>
    label[m] # None /\ label[m].cost <= label[n].cost + g[n][m].cost

Certificate(g, label) ==
  /\ Rooted(label) /\ Explained(g, label)
  /\ Settled(g, label, {n \in Node : label[n] # None})

Certified(g, r) == \E label : Certificate(g, label) /\ r = RoutesOf(label)

(* No link costs more than the weakest signal strength.                    *)
Affordable(g) == \A a, b \in Node : g[a][b] # None => g[a][b].cost <= 79

LEMMA LabelIs ==
  ASSUME NEW label, Rooted(label), NEW n \in Node, label[n] # None
  PROVE  /\ label[n].cost \in Nat /\ label[n].hops \in Nat
         /\ label[n].hops <= Cardinality(Node)
         /\ n # Root => /\ label[n].prev \in Node \ {n} /\ label[label[n].prev] # None
                        /\ label[n].hops = label[label[n].prev].hops + 1
<1>1. label[n] \in Label
  BY DEF Rooted
<1>2. label[n].cost \in Nat /\ label[n].hops \in 0..Cardinality(Node)
  BY <1>1 DEF Label
<1>3. n # Root => /\ label[n].prev \in Node /\ label[label[n].prev] # None
                  /\ label[n].cost > label[label[n].prev].cost
                  /\ label[n].hops = label[label[n].prev].hops + 1
  BY DEF Rooted
<1>4. n # Root => label[n].prev # n
  BY <1>2, <1>3
<1> QED
  BY <1>2, <1>3, <1>4, Nodes

(* What passes on from each label's prev holds for all labelled nodes.     *)
LEMMA HopByHop ==
  ASSUME NEW label, Rooted(label), NEW S,
         \A n \in Node : label[n] # None /\ (n # Root => label[n].prev \in S) => n \in S
  PROVE  \A n \in Node : label[n] # None => n \in S
<1> DEFINE Lost == {n \in Node : label[n] # None /\ n \notin S}
           ranks == {label[n].hops : n \in Lost}
<1> SUFFICES ASSUME Lost # {}
             PROVE  FALSE
  OBVIOUS
<1>1. ranks \subseteq Nat /\ ranks # {}
  <2>1. \A n \in Lost : label[n].hops \in Nat
    BY LabelIs
  <2> QED
    BY <2>1
<1>2. PICK r \in ranks : \A q \in ranks : r <= q
  <2> HIDE DEF ranks
  <2> QED
    BY <1>1, LeastOf
<1>3. PICK n \in Lost : r = label[n].hops
  BY <1>2
<1>4. n \in Node /\ label[n] # None /\ n # Root /\ label[n].prev \notin S
  BY <1>3
<1> DEFINE p == label[n].prev
<1>5. p \in Node /\ label[p] # None /\ label[n].hops = label[p].hops + 1
  BY <1>4, LabelIs
<1>6. label[p].hops \in Nat /\ label[n].hops \in Nat
  BY <1>4, <1>5, LabelIs
<1>7. p \in Lost
  BY <1>4, <1>5
<1>8. r <= label[p].hops
  BY <1>2, <1>7
<1> QED
  BY <1>3, <1>5, <1>6, <1>8

LEMMA LabelsAreCheap ==
  ASSUME Graph, Affordable(edges), NEW label, Rooted(label), Explained(edges, label),
         NEW d \in Node, label[d] # None
  PROVE  label[d].cost < Unreachable
<1> DEFINE S == {n \in Node : label[n] # None /\ label[n].cost <= 79 * label[n].hops}
<1>1. ASSUME NEW n \in Node, label[n] # None, n # Root => label[n].prev \in S
      PROVE  n \in S
  <2>1. CASE n = Root
    BY <1>1, <2>1 DEF Rooted
  <2>2. CASE n # Root
    <3> DEFINE p == label[n].prev
    <3>1. p \in Node /\ label[p] # None /\ label[p].cost <= 79 * label[p].hops
      BY <1>1, <2>2
    <3>2. label[n].hops = label[p].hops + 1 /\ label[p].hops \in Nat /\ label[p].cost \in Nat
      BY <1>1, <2>2, <3>1, LabelIs
    <3>3. edges[p][n] # None /\ label[n].cost = label[p].cost + edges[p][n].cost
      BY <1>1, <2>2 DEF Explained
    <3>4. edges[p][n].cost \in Nat /\ edges[p][n].cost <= 79
      BY <3>1, <3>3 DEF Graph, Link, Affordable
    <3> HIDE DEF p
    <3>5. label[n].cost <= 79 * label[n].hops
      BY <3>1, <3>2, <3>3, <3>4
    <3> QED
      BY <1>1, <3>5
  <2> QED
    BY <2>1, <2>2
<1>2. d \in S
  <2> HIDE DEF S
  <2> QED
    BY <1>1, HopByHop
<1>3. label[d].cost <= 79 * label[d].hops
  BY <1>2
<1>4. /\ label[d].hops \in Nat /\ label[d].hops <= Cardinality(Node) /\ label[d].cost \in Nat
      /\ Cardinality(Node) \in Nat /\ Cardinality(Node) # 0
  BY LabelIs, Nodes, FS_EmptySet
<1> QED
  BY <1>3, <1>4 DEF Unreachable

LEMMA LabelsAboveLinks ==
  ASSUME Graph, NEW label, Certificate(edges, label)
  PROVE  Above(label, LinkCosts)
<1> SUFFICES ASSUME NEW a \in Node, NEW b \in Node, label[a] # None,
                    LinkCosts[a][b] < Unreachable
             PROVE  label[b] # None /\ label[b].cost <= label[a].cost + LinkCosts[a][b]
  BY DEF Above
<1>1. label[a].cost \in Nat
  BY LabelIs DEF Certificate
<1>2. CASE a = b
  BY <1>1, <1>2, LinkCostsAre
<1>3. CASE a # b
  <2>1. edges[a][b] # None /\ LinkCosts[a][b] = edges[a][b].cost
    BY <1>3, LinkCostsAre
  <2> QED
    BY <2>1 DEF Certificate, Settled
<1> QED
  BY <1>2, <1>3

(* A path leads to a labelled node at the cost of its label, and on from   *)
(* its first hop at what the first hop's label leaves of it.               *)
LEMMA PathsToLabels ==
  ASSUME Graph, NEW m, Shortest(Node, m), NEW label, Certificate(edges, label),
         NEW f, IsTrace(label, f)
  PROVE  \A d \in Node : label[d] # None =>
           /\ m[Root][d] <= label[d].cost
           /\ d # Root => label[f[d]].cost + m[f[d]][d] <= label[d].cost
<1>0. Rooted(label) /\ Explained(edges, label) /\ m \in [Node -> [Node -> Nat]]
  BY DEF Certificate, Shortest, Matrix
<1>1. \A a, b, n \in Node : m[a][b] \in Nat /\ m[a][b] <= m[a][n] + m[n][b]
  BY <1>0 DEF Shortest
<1>2. \A a \in Node : m[a][a] = 0
  BY <1>1, LinkCostsAre DEF Shortest
<1>3. ASSUME NEW n \in Node \ {Root}, label[n] # None
      PROVE  /\ label[n].prev \in Node /\ label[label[n].prev] # None
             /\ label[label[n].prev].cost + m[label[n].prev][n] <= label[n].cost
  <2> DEFINE p == label[n].prev
  <2>1. p \in Node \ {n} /\ label[p] # None
    BY <1>0, <1>3, LabelIs
  <2>2. edges[p][n] # None /\ label[n].cost = label[p].cost + edges[p][n].cost
    BY <1>0, <1>3 DEF Explained
  <2> HIDE DEF p
  <2>3. LinkCosts[p][n] = edges[p][n].cost /\ edges[p][n].cost \in Nat
    BY <2>1, <2>2, LinkCostsAre DEF Graph, Link
  <2>4. m[p][n] <= edges[p][n].cost
    BY <2>1, <2>3 DEF Shortest
  <2>5. label[p].cost \in Nat /\ m[p][n] \in Nat
    BY <1>0, <1>1, <2>1, LabelIs
  <2> QED
    BY <2>1, <2>2, <2>3, <2>4, <2>5 DEF p
<1>4. \A n \in Node : label[n] # None => label[n].cost \in Nat
  BY <1>0, LabelIs
<1> DEFINE S == {n \in Node : label[n] # None /\ m[Root][n] <= label[n].cost}
           Q == {n \in Node : n # Root => label[f[n]].cost + m[f[n]][n] <= label[n].cost}
<1>5. ASSUME NEW n \in Node, label[n] # None, n # Root => label[n].prev \in S
      PROVE  n \in S
  <2>1. CASE n = Root
    BY <1>2, <1>4, <1>5, <2>1
  <2>2. CASE n # Root
    <3> DEFINE p == label[n].prev
    <3>1. p \in Node /\ label[p] # None /\ label[p].cost + m[p][n] <= label[n].cost
      BY <1>3, <1>5, <2>2
    <3>2. m[Root][p] <= label[p].cost
      BY <1>5, <2>2
    <3> HIDE DEF p
    <3>3. m[Root][n] <= m[Root][p] + m[p][n] /\ m[Root][p] \in Nat /\ m[p][n] \in Nat
          /\ m[Root][n] \in Nat
      BY <1>1, <3>1, Nodes
    <3>4. label[p].cost \in Nat /\ label[n].cost \in Nat
      BY <1>4, <1>5, <3>1
    <3> QED
      BY <1>5, <3>1, <3>2, <3>3, <3>4
  <2> QED
    BY <2>1, <2>2
<1>6. ASSUME NEW n \in Node, label[n] # None, n # Root => label[n].prev \in Q
      PROVE  n \in Q
  <2> SUFFICES ASSUME n # Root
               PROVE  label[f[n]].cost + m[f[n]][n] <= label[n].cost
    OBVIOUS
  <2>1. f[n] = IF Traced(label, n) THEN n ELSE f[label[n].prev]
    BY DEF IsTrace
  <2>2. CASE Traced(label, n)
    BY <1>2, <1>4, <1>6, <2>1, <2>2
  <2>3. CASE ~ Traced(label, n)
    <3> DEFINE p == label[n].prev
               via == f[p]
    <3>1. p \in Node \ {Root} /\ label[p] # None
      BY <1>0, <2>3, TraceGoesOn
    <3>2. label[via].cost + m[via][p] <= label[p].cost
      BY <1>6, <3>1
    <3>3. label[p].cost + m[p][n] <= label[n].cost
      BY <1>3, <1>6
    <3>4. via \in Node /\ label[via] # None
      BY <1>0, <3>1, TraceEnds
    <3>5. f[n] = via
      BY <2>1, <2>3
    <3> HIDE DEF p, via
    <3>6. m[via][n] <= m[via][p] + m[p][n] /\ m[via][p] \in Nat /\ m[p][n] \in Nat
          /\ m[via][n] \in Nat
      BY <1>1, <3>1, <3>4
    <3>7. label[p].cost \in Nat /\ label[n].cost \in Nat /\ label[via].cost \in Nat
      BY <1>4, <1>6, <3>1, <3>4
    <3> QED
      BY <3>2, <3>3, <3>5, <3>6, <3>7
  <2> QED
    BY <2>2, <2>3
<1>7. (\A n \in Node : label[n] # None => n \in S) /\ (\A n \in Node : label[n] # None => n \in Q)
  <2> HIDE DEF S, Q
  <2>1. \A n \in Node : label[n] # None => n \in S
    BY <1>0, <1>5, HopByHop
  <2>2. \A n \in Node : label[n] # None => n \in Q
    BY <1>0, <1>6, HopByHop
  <2> QED
    BY <2>1, <2>2
<1> QED
  BY <1>7

(* Certified routes are cheapest paths.                                    *)
LEMMA CertifiedIsCheapest ==
  ASSUME Graph, Affordable(edges), Certified(edges, routes), NEW d \in Node \ {Root}
  PROVE  LET best == PathCost[Root][d] IN
         IF best >= Unreachable THEN routes[d] = None
         ELSE /\ routes[d] # None /\ routes[d].cost = best
              /\ edges[Root][routes[d].hop] # None
              /\ edges[Root][routes[d].hop].cost + PathCost[routes[d].hop][d] = best
<1>1. PICK label : Certificate(edges, label) /\ routes = RoutesOf(label)
  BY DEF Certified
<1>2. /\ Rooted(label) /\ Explained(edges, label) /\ label \in [Node -> Label \cup {None}]
      /\ label[Root] # None /\ label[Root].cost = 0 /\ Root \in Node
  <2>1. /\ Rooted(label) /\ Explained(edges, label) /\ label \in [Node -> Label \cup {None}]
        /\ label[Root] = [cost |-> 0, hops |-> 0, prev |-> None]
    BY <1>1 DEF Certificate, Rooted
  <2>2. label[Root] # None
    <3>1. [cost |-> 0, hops |-> 0, prev |-> None] \in Label
      BY Nodes DEF Label
    <3> QED
      BY <2>1, <3>1, NoneIsNoRecord
  <2> QED
    BY <2>1, <2>2, Nodes
<1>3. Shortest(Node, PathCost) /\ Above(label, PathCost)
  BY <1>1, <1>2, LabelsAboveLinks, PathCosts
<1> DEFINE m == PathCost
           best == m[Root][d]
<1> HIDE DEF m
<1>4. \A a, b \in Node : m[a][b] \in Nat
  BY <1>3 DEF Shortest, Matrix, m
<1>5. Unreachable \in Nat
  BY LinkCostsAre
<1>6. CASE label[d] = None
  <2>1. routes[d] = None
    BY <1>1, <1>6 DEF RoutesOf
  <2>2. ~ (best < Unreachable)
    BY <1>2, <1>3, <1>6 DEF Above, m
  <2>3. best >= Unreachable
    BY <1>2, <1>4, <1>5, <2>2
  <2> QED
    BY <2>1, <2>3 DEF m
<1>7. CASE label[d] # None
  <2>1. PICK f : IsTrace(label, f)
    BY <1>2, TraceExists
  <2>2. PICK g : IsTrace(label, g) /\ FirstHop(label, d) = g[d]
    BY <2>1, FirstHopTraces
  <2> DEFINE via == g[d]
  <2>3. via \in Node \ {Root} /\ label[via] # None /\ Traced(label, via)
    BY <1>2, <1>7, <2>2, TraceEnds
  <2>4. routes[d] = [hop |-> via, cost |-> label[d].cost, hops |-> label[d].hops]
    BY <1>1, <1>7, <2>2 DEF RoutesOf
  <2>5. m[Root][d] <= label[d].cost /\ label[via].cost + m[via][d] <= label[d].cost
    BY <1>1, <1>3, <1>7, <2>2, PathsToLabels DEF m
  <2> HIDE DEF via
  <2>6. label[via].prev = Root
    BY <1>2, <2>3, LabelIs, Nodes DEF Traced
  <2>7. edges[Root][via] # None /\ label[via].cost = edges[Root][via].cost
    <3>1. edges[Root][via] # None /\ label[via].cost = 0 + edges[Root][via].cost
      BY <1>2, <2>3, <2>6 DEF Explained
    <3>2. edges[Root][via].cost \in Nat
      BY <1>2, <2>3, <3>1 DEF Graph, Link
    <3> QED
      BY <3>1, <3>2
  <2>8. label[d].cost < Unreachable /\ label[d].cost \in Nat /\ label[via].cost \in Nat
    BY <1>2, <1>7, <2>3, LabelsAreCheap, LabelIs
  <2>9. best < Unreachable /\ best \in Nat /\ m[via][d] \in Nat /\ m[via][d] < Unreachable
    BY <1>2, <1>4, <1>5, <2>3, <2>5, <2>8
  <2>10. label[d].cost <= 0 + best
    BY <1>2, <1>3, <2>9 DEF Above, m
  <2>11. label[d].cost <= label[via].cost + m[via][d]
    BY <1>3, <2>3, <2>9 DEF Above, m
  <2>12. best = label[d].cost /\ label[via].cost + m[via][d] = best
    BY <2>5, <2>8, <2>9, <2>10, <2>11
  <2>13. ~ (best >= Unreachable)
    BY <1>5, <2>9
  <2>14. routes[d] # None
    <3>1. [hop |-> via, cost |-> label[d].cost, hops |-> label[d].hops] \in
            [hop : Node, cost : Nat, hops : Nat]
      BY <1>2, <1>7, <2>3, LabelIs
    <3> QED
      BY <2>4, <3>1, RouterAssumption
  <2> QED
    BY <2>4, <2>7, <2>12, <2>13, <2>14 DEF m
<1> QED
  BY <1>6, <1>7

-----------------------------------------------------------------------------
(* What a thread that has the graph for itself has achieved.               *)

Progress(t) ==
  /\ thread[t].pc \in {"announce", "apply", "fill"} => Certified(edges, routes)
  /\ thread[t].pc = "check" => dirty \/ (t = "bc" /\ Certified(edges, routes))
  /\ thread[t].pc \in {"scan", "relax"} => thread[t].found = Neighbours(thread[t].at)
  /\ thread[t].pc = "delete" => thread[t].found \subseteq Neighbours(thread[t].at)
  /\ thread[t].pc = "search" => /\ Explained(edges, thread[t].label)
                                /\ Settled(edges, thread[t].label, thread[t].visited)
  /\ thread[t].pc = "relax" =>
       /\ Explained(edges, thread[t].label)
       /\ Settled(edges, thread[t].label, thread[t].visited \ {thread[t].at})
  /\ thread[t].pc = "install" => Certified(edges, thread[t].out)

(* Routes are certified whenever no round is on its way to replace them.   *)
Current ==
  /\ Affordable(edges)
  /\ ~raced => /\ \A t \in Thread : Progress(t)
               /\ (\A t \in Thread : ~Busy(t)) => Certified(edges, routes)

LEMMA RestingIsProgress ==
  ASSUME NEW t \in Thread, thread[t].pc \in {"idle", "dead", "update", "expire"}
  PROVE  Progress(t)
BY DEF Progress

(* Before any link is known no label but the root's is needed.             *)
LEMMA NoRoutesAreCertified ==
  Certified([n \in Node |-> NoRoutes], NoRoutes)
<1> DEFINE g == [n \in Node |-> NoRoutes]
           start == [cost |-> 0, hops |-> 0, prev |-> None]
           label == [NoRoutes EXCEPT ![Root] = start]
<1>1. start \in Label
  BY Nodes DEF Label
<1>2. label \in [Node -> Label \cup {None}] /\ label[Root] = start
      /\ \A n \in Node \ {Root} : label[n] = None
  BY <1>1, Nodes DEF NoRoutes
<1> HIDE DEF label
<1>3. Rooted(label)
  BY <1>2 DEF Rooted
<1>4. \A a, b \in Node : g[a][b] = None
  BY DEF NoRoutes
<1>5. Explained(g, label) /\ Settled(g, label, {n \in Node : label[n] # None})
  <2> HIDE DEF g
  <2> QED
    BY <1>2, <1>4 DEF Explained, Settled
<1>6. RoutesOf(label) = NoRoutes
  BY <1>2 DEF RoutesOf, NoRoutes
<1> QED
  BY <1>3, <1>5, <1>6 DEF Certified, Certificate

(* Relaxing a node's links settles it.                                     *)
LEMMA RelaxingSettles ==
  ASSUME Graph, NEW l, Good(l), l.pc = "relax", Explained(edges, l.label),
         Settled(edges, l.label, l.visited \ {l.at})
  PROVE  /\ Explained(edges, Relaxed(l.label, l.at))
         /\ Settled(edges, Relaxed(l.label, l.at), l.visited)
<1> DEFINE label == l.label
           at == l.at
           new == Relaxed(label, at)
<1>1. /\ l \in Local /\ l.visited \subseteq Node /\ label \in [Node -> Label \cup {None}]
      /\ at \in l.visited /\ at \in Node
      /\ \A m \in l.visited : label[m] # None
      /\ \A n \in Node \ {Root} : label[n] # None => label[n].prev \in l.visited
  BY DEF Good, Local, Searching
<1>2. \A m \in Node : label[m] # None => label[m].cost \in Nat
  BY <1>1 DEF Label
<1>3. Relabelled(new, label, l.visited, at)
  BY RelaxingKeeps DEF Graph
<1>4. \A m \in l.visited : new[m] = label[m]
  BY <1>3 DEF Relabelled
<1>5. \A m \in Node : new[m] =
        IF m \in Neighbours(at) /\ Better(label, at, m)
        THEN [cost |-> label[at].cost + edges[at][m].cost,
              hops |-> label[at].hops + 1, prev |-> at]
        ELSE label[m]
  BY DEF Relaxed
<1>6. \A n, m \in Node : edges[n][m] # None => edges[n][m].cost \in Nat
  BY DEF Graph, Link
<1>7. \A m \in Neighbours(at) : edges[at][m] # None /\ m \in Node
  BY DEF Neighbours
<1>8. Explained(edges, label) /\ Settled(edges, label, l.visited \ {at})
  OBVIOUS
<1> HIDE DEF new, label, at
<1>9. ASSUME NEW m \in Node, m \in Neighbours(at), Better(label, at, m)
      PROVE  /\ new[m].prev = at /\ new[m] # None
             /\ new[m].cost = label[at].cost + edges[at][m].cost
             /\ label[m] # None => new[m].cost <= label[m].cost
  <2>1. new[m] = [cost |-> label[at].cost + edges[at][m].cost,
                  hops |-> label[at].hops + 1, prev |-> at]
    BY <1>5, <1>9
  <2>2. label[at].cost \in Nat /\ edges[at][m].cost \in Nat
    BY <1>1, <1>2, <1>6, <1>7, <1>9
  <2>3. new[m] # None
    <3>1. new[m].cost \in Nat /\ label[at].hops + 1 \in Nat
      BY <1>1, <2>1, <2>2, Nodes DEF Label
    <3>2. new[m] \in [cost : Nat, hops : Nat, prev : Node \cup {None}]
      BY <1>1, <2>1, <3>1
    <3> QED
      BY <3>2, RouterAssumption
  <2>4. label[m] # None => new[m].cost <= label[m].cost
    BY <1>2, <1>9, <2>1, <2>2 DEF Better
  <2> QED
    BY <2>1, <2>3, <2>4
<1>10. ASSUME NEW n \in Node \ {Root}, new[n] # None
       PROVE  /\ edges[new[n].prev][n] # None
              /\ new[n].cost = new[new[n].prev].cost + edges[new[n].prev][n].cost
  <2>1. CASE n \in Neighbours(at) /\ Better(label, at, n)
    <3>1. new[n].prev = at /\ new[n].cost = label[at].cost + edges[at][n].cost
      BY <1>9, <2>1
    <3> QED
      BY <1>1, <1>4, <1>7, <2>1, <3>1
  <2>2. CASE ~ (n \in Neighbours(at) /\ Better(label, at, n))
    <3>1. new[n] = label[n]
      BY <1>5, <2>2
    <3>2. label[n].prev \in l.visited /\ new[label[n].prev] = label[label[n].prev]
      BY <1>1, <1>4, <1>10, <3>1
    <3>3. edges[label[n].prev][n] # None
          /\ label[n].cost = label[label[n].prev].cost + edges[label[n].prev][n].cost
      BY <1>8, <1>10, <3>1 DEF Explained
    <3> QED
      BY <3>1, <3>2, <3>3
  <2> QED
    BY <2>1, <2>2
<1>11. ASSUME NEW n \in l.visited, NEW m \in Node, edges[n][m] # None
       PROVE  new[m] # None /\ new[m].cost <= new[n].cost + edges[n][m].cost
  <2>1. n \in Node /\ new[n] = label[n] /\ label[n].cost \in Nat /\ edges[n][m].cost \in Nat
    BY <1>1, <1>2, <1>4, <1>6, <1>11
  <2>2. CASE n = at
    <3>1. m \in Neighbours(at)
      BY <1>11, <2>2 DEF Neighbours
    <3>2. CASE Better(label, at, m)
      BY <1>9, <2>1, <2>2, <3>1, <3>2
    <3>3. CASE ~ Better(label, at, m)
      <4>1. new[m] = label[m] /\ label[m] # None
        BY <1>5, <3>3 DEF Better
      <4>2. ~ (label[at].cost + edges[at][m].cost < label[m].cost)
        BY <3>3, <4>1 DEF Better
      <4>3. label[m].cost \in Nat
        BY <1>2, <4>1
      <4> QED
        BY <2>1, <2>2, <4>1, <4>2, <4>3
    <3> QED
      BY <3>2, <3>3
  <2>3. CASE n # at
    <3>1. label[m] # None /\ label[m].cost <= label[n].cost + edges[n][m].cost
      BY <1>8, <1>11, <2>3 DEF Settled
    <3>2. CASE m \in Neighbours(at) /\ Better(label, at, m)
      <4>1. new[m] # None /\ new[m].cost <= label[m].cost
            /\ new[m].cost = label[at].cost + edges[at][m].cost
        BY <1>9, <3>1, <3>2
      <4>2. label[at].cost \in Nat /\ edges[at][m].cost \in Nat /\ label[m].cost \in Nat
        BY <1>1, <1>2, <1>6, <1>7, <3>1, <3>2
      <4> QED
        BY <2>1, <3>1, <4>1, <4>2
    <3>3. CASE ~ (m \in Neighbours(at) /\ Better(label, at, m))
      BY <1>5, <2>1, <3>1, <3>3
    <3> QED
      BY <3>2, <3>3
  <2> QED
    BY <2>2, <2>3
<1> QED
  BY <1>10, <1>11 DEF Explained, Settled, new, label, at

(* A search that has visited all it has labelled has its certificate.      *)
LEMMA SearchEnds ==
  ASSUME Sound, NEW t \in Thread, thread[t].pc = "search", Frontier(t) = {},
         Explained(edges, thread[t].label),
         Settled(edges, thread[t].label, thread[t].visited)
  PROVE  Certified(edges, RoutesOf(thread[t].label))
<1> DEFINE label == thread[t].label
<1>1. thread[t] \in Local /\ Good(thread[t])
  BY ThreadIs
<1>2. Rooted(label)
  BY <1>1 DEF Good, Searching, Local, Rooted
<1>3. {n \in Node : label[n] # None} = thread[t].visited
  BY <1>1 DEF Frontier, Good, Searching, Local
<1> QED
  BY <1>2, <1>3 DEF Certified, Certificate

(* What a step of a round must show while the other thread rests.          *)
LEMMA ProgressIsCurrent ==
  ASSUME Sound, Alone, ~ raced, NEW t \in Thread, Round(t), Affordable(edges'),
         Progress(t)', thread'[t].pc \in {"idle", "dead"} => Certified(edges', routes')
  PROVE  Current'
<1>1. RoundOf(t)
  BY RoundIs
<1>2. Busy(t) /\ \A u \in Thread \ {t} : ~ Busy(u) /\ thread'[u] = thread[u]
  BY <1>1 DEF RoundOf, Alone, Thread
<1>3. \A u \in Thread \ {t} : thread'[u].pc \in {"idle", "dead"}
  BY <1>2 DEF Busy
<1>4. \A u \in Thread \ {t} : Progress(u)'
  BY <1>3 DEF Progress
<1>5. (\A u \in Thread : ~Busy(u))' => thread'[t].pc \in {"idle", "dead"}
  BY DEF Busy
<1> QED
  BY <1>4, <1>5 DEF Current

-----------------------------------------------------------------------------
(* Its steps, one by one.                                                  *)

LEMMA CheckIsCurrent ==
  ASSUME Sound, Alone, Current, ~ raced, NEW t \in Thread, Check(t)
  PROVE  Current'
<1>1. Affordable(edges) /\ Progress(t)
  BY DEF Current
<1>2. /\ edges' = edges /\ routes' = routes /\ thread[t].pc = "check"
      /\ thread'[t] = IF dirty THEN [thread[t] EXCEPT !.pc = "expire",
                                       !.todo = {n \in Node : Neighbours(n) # {}}]
                      ELSE Returned(t, FALSE)
  BY StepIs DEF Check, shared
<1>3. CASE dirty
  <2>1. thread'[t].pc = "expire"
    BY <1>2, <1>3, ThreadIs DEF Local
  <2> QED
    BY <1>1, <1>2, <2>1, ProgressIsCurrent DEF Progress, Round
<1>4. CASE ~ dirty
  <2>1. t = "bc" /\ Certified(edges, routes)
    BY <1>1, <1>2, <1>4 DEF Progress
  <2>2. thread'[t].pc = "announce"
    BY <1>2, <1>4, <2>1 DEF Returned, Idle
  <2> QED
    BY <1>1, <1>2, <2>1, <2>2, ProgressIsCurrent DEF Progress, Round
<1> QED
  BY <1>3, <1>4

LEMMA NextScanIsCurrent ==
  ASSUME Sound, Alone, Current, ~ raced, NEW t \in Thread, NextScan(t)
  PROVE  Current'
<1>1. PICK n \in thread[t].todo : Step(t, "expire", [Loop(t, n, "scan") EXCEPT !.todo = @ \ {n}])
  BY DEF NextScan
<1>2. edges' = edges /\ thread'[t] = [Loop(t, n, "scan") EXCEPT !.todo = @ \ {n}]
  BY <1>1, StepIs DEF NextScan, shared
<1>3. thread'[t].pc = "scan" /\ thread'[t].at = n /\ thread'[t].found = Neighbours(n)
  BY <1>2, ThreadIs DEF Loop, Local
<1>4. Progress(t)'
  BY <1>2, <1>3 DEF Progress, Neighbours
<1> QED
  BY <1>2, <1>3, <1>4, ProgressIsCurrent DEF Current, Round

LEMMA NotResized ==
  ASSUME Sound, NEW t \in Thread, thread[t].found = Neighbours(thread[t].at)
  PROVE  ~ Resized(t)
BY DEF Resized

LEMMA ScanLinksIsCurrent ==
  ASSUME Sound, Alone, Current, ~ raced, NEW t \in Thread, ScanLinks(t)
  PROVE  Current'
<1> DEFINE k == [thread[t] EXCEPT !.pc = "delete", !.found = StaleLinks(thread[t].at)]
<1>1. Affordable(edges) /\ Progress(t)
  BY DEF Current
<1>2. /\ edges' = edges /\ thread[t].pc = "scan"
      /\ thread'[t] = IF Resized(t) THEN Raised(t)
                      ELSE IF StaleLinks(thread[t].at) = {} THEN Scanned(t) ELSE k
  BY StepIs DEF ScanLinks, shared
<1>3. ~ Resized(t)
  BY <1>1, <1>2, NotResized DEF Progress
<1>4. Scanned(t).pc = "expire"
  BY ThreadIs DEF Scanned, Local
<1>5. k.pc = "delete" /\ k.at = thread[t].at /\ k.found \subseteq Neighbours(thread[t].at)
  BY ThreadIs DEF StaleLinks, Local
<1> HIDE DEF k
<1>6. thread'[t].pc = "expire" \/ thread'[t] = k
  BY <1>2, <1>3, <1>4
<1>7. Progress(t)' /\ thread'[t].pc \in {"expire", "delete"}
  BY <1>2, <1>5, <1>6 DEF Progress, Neighbours
<1> QED
  BY <1>1, <1>2, <1>7, ProgressIsCurrent DEF Round

LEMMA DeleteLinksIsCurrent ==
  ASSUME Sound, Alone, Current, ~ raced, NEW t \in Thread, DeleteLinks(t)
  PROVE  Current'
<1> DEFINE n == thread[t].at
           stale == thread[t].found
<1>1. Affordable(edges) /\ Progress(t)
  BY DEF Current
<1>2. /\ thread[t].pc = "delete"
      /\ thread'[t] = IF stale \cap Neighbours(n) # stale THEN Raised(t) ELSE Scanned(t)
  BY StepIs DEF DeleteLinks
<1>3. stale \cap Neighbours(n) = stale
  BY <1>1, <1>2 DEF Progress
<1>4. thread'[t].pc = "expire"
  BY <1>2, <1>3, ThreadIs DEF Scanned, Local
<1>5. \A a, b \in Node : edges'[a][b] = edges[a][b] \/ edges'[a][b] = None
  BY DeletesFound
<1>6. Affordable(edges')
  BY <1>1, <1>5 DEF Affordable
<1> QED
  BY <1>4, <1>6, ProgressIsCurrent DEF Progress, Round

LEMMA BeginSearchIsCurrent ==
  ASSUME Sound, Alone, Current, ~ raced, NEW t \in Thread, BeginSearch(t)
  PROVE  Current'
<1> DEFINE start == [cost |-> 0, hops |-> 0, prev |-> None]
           k == [thread[t] EXCEPT !.pc = "search", !.label = [@ EXCEPT ![Root] = start]]
<1>1. edges' = edges /\ thread[t].pc = "expire" /\ thread'[t] = k
  BY StepIs DEF BeginSearch, shared
<1>2. thread[t] \in Local /\ thread[t].label = NoRoutes /\ thread[t].visited = {}
  BY <1>1, ThreadIs DEF Good, Searching
<1>3. k.pc = "search" /\ k.visited = {} /\ k.label = [NoRoutes EXCEPT ![Root] = start]
  BY <1>2 DEF Local
<1>4. \A n \in Node \ {Root} : k.label[n] = None
  BY <1>3 DEF NoRoutes
<1> HIDE DEF k
<1>5. Explained(edges, k.label) /\ Settled(edges, k.label, {})
  BY <1>4 DEF Explained, Settled
<1>6. Progress(t)'
  BY <1>1, <1>3, <1>5 DEF Progress
<1> QED
  BY <1>1, <1>3, <1>6, ProgressIsCurrent DEF Current, Round

LEMMA PopIsCurrent ==
  ASSUME Sound, Alone, Current, ~ raced, NEW t \in Thread, Pop(t)
  PROVE  Current'
<1>1. PICK n \in Frontier(t) :
        Step(t, "search", [Loop(t, n, "relax") EXCEPT !.visited = @ \cup {n}])
  BY DEF Pop
<1> DEFINE k == [Loop(t, n, "relax") EXCEPT !.visited = @ \cup {n}]
<1>2. edges' = edges /\ thread[t].pc = "search" /\ thread'[t] = k
  BY <1>1, StepIs DEF Pop, shared
<1>3. /\ k.pc = "relax" /\ k.at = n /\ k.found = Neighbours(n)
      /\ k.label = thread[t].label /\ k.visited = thread[t].visited \cup {n}
  BY ThreadIs DEF Loop, Local
<1> HIDE DEF k
<1>4. k.visited \ {n} = thread[t].visited
  BY <1>1, <1>3 DEF Frontier
<1>5. Explained(edges, k.label) /\ Settled(edges, k.label, k.visited \ {n})
  <2>1. /\ Explained(edges, thread[t].label)
        /\ Settled(edges, thread[t].label, thread[t].visited)
    BY <1>2 DEF Current, Progress
  <2> QED
    BY <1>3, <1>4, <2>1, Zenon
<1>6. Progress(t)'
  BY <1>2, <1>3, <1>5 DEF Progress, Neighbours
<1> QED
  BY <1>2, <1>3, <1>6, ProgressIsCurrent DEF Current, Round

LEMMA RelaxIsCurrent ==
  ASSUME Sound, Alone, Current, ~ raced, NEW t \in Thread, Relax(t)
  PROVE  Current'
<1> DEFINE l == thread[t]
           k == [thread[t] EXCEPT !.pc = "search", !.at = None, !.found = {},
                                  !.label = Relaxed(thread[t].label, thread[t].at)]
<1>1. /\ edges' = edges /\ l.pc = "relax"
      /\ thread'[t] = IF Resized(t) THEN Raised(t) ELSE k
  BY StepIs DEF Relax, shared
<1>2. ~ Resized(t) /\ Explained(edges, l.label) /\ Settled(edges, l.label, l.visited \ {l.at})
  BY <1>1, NotResized DEF Current, Progress
<1>3. k.pc = "search" /\ k.label = Relaxed(l.label, l.at) /\ k.visited = l.visited
  BY ThreadIs DEF Local
<1> HIDE DEF k
<1>4. Good(l) /\ Graph
  BY ThreadIs DEF Graph, Sound, Typed
<1> HIDE DEF l
<1>5. Explained(edges, k.label) /\ Settled(edges, k.label, k.visited)
  BY <1>1, <1>2, <1>3, <1>4, RelaxingSettles
<1>6. Progress(t)'
  BY <1>1, <1>2, <1>3, <1>5 DEF Progress
<1> QED
  BY <1>1, <1>2, <1>3, <1>6, ProgressIsCurrent DEF Current, Round

LEMMA CompareIsCurrent ==
  ASSUME Sound, Alone, Current, ~ raced, NEW t \in Thread, Compare(t)
  PROVE  Current'
<1> DEFINE new == RoutesOf(thread[t].label)
           k == [Idle EXCEPT !.pc = "install", !.report = thread[t].report,
                             !.out = new, !.changed = new # routes]
<1>1. edges' = edges /\ thread[t].pc = "search" /\ thread'[t] = k /\ Frontier(t) = {}
  BY StepIs DEF Compare, shared
<1>2. k.pc = "install" /\ k.out = new
  BY DEF Idle
<1>3. Certified(edges, new)
  BY <1>1, SearchEnds DEF Current, Progress
<1> HIDE DEF k, new
<1>4. Progress(t)'
  BY <1>1, <1>2, <1>3 DEF Progress
<1> QED
  BY <1>1, <1>2, <1>4, ProgressIsCurrent DEF Current, Round

(* A thread that returns with certified routes has nothing else to show.   *)
LEMMA ReturnIsCurrent ==
  ASSUME Sound, Alone, Current, ~ raced, NEW t \in Thread, Round(t), edges' = edges,
         Certified(edges, routes'), thread'[t].pc \in {"announce", "idle", "update"}
  PROVE  Current'
<1>1. Progress(t)'
  BY DEF Progress
<1> QED
  BY <1>1, ProgressIsCurrent DEF Current

LEMMA InstallIsCurrent ==
  ASSUME Sound, Alone, Current, ~ raced, NEW t \in Thread, Install(t)
  PROVE  Current'
<1>1. /\ edges' = edges /\ routes' = thread[t].out /\ thread[t].pc = "install"
      /\ thread'[t] = Returned(t, thread[t].changed)
  BY StepIs DEF Install
<1>2. thread'[t].pc \in {"announce", "idle", "update"}
  BY <1>1 DEF Returned, GoesOn, Updating, Idle
<1>3. Certified(edges, routes')
  BY <1>1 DEF Current, Progress
<1> QED
  BY <1>1, <1>2, <1>3, ReturnIsCurrent DEF Round

LEMMA AnnouncingIsCurrent ==
  ASSUME Sound, Alone, Current, ~ raced, NEW t \in Thread,
         ReadRoutes(t) \/ EmptyTable(t) \/ FillTable(t) \/ SendRoutes(t)
  PROVE  Current'
<1>1. /\ edges' = edges /\ routes' = routes
      /\ thread[t].pc \in {"announce", "apply", "fill"}
  BY StepIs DEF ReadRoutes, EmptyTable, FillTable, SendRoutes, Step, shared
<1>2. Certified(edges, routes')
  BY <1>1 DEF Current, Progress
<1>3. thread'[t].pc \in {"apply", "fill", "idle", "update"}
  <2>1. CASE ReadRoutes(t)
    <3>1. thread'[t] = [thread[t] EXCEPT !.pc = "apply", !.out = routes]
      BY <2>1, StepIs DEF ReadRoutes
    <3> QED
      BY <3>1, ThreadIs DEF Local
  <2>2. CASE EmptyTable(t)
    <3>1. thread'[t] = [thread[t] EXCEPT !.pc = "fill",
                          !.todo = {d \in Node : thread[t].out[d] # None}]
      BY <2>2, StepIs DEF EmptyTable
    <3> QED
      BY <3>1, ThreadIs DEF Local
  <2>3. CASE FillTable(t)
    <3>1. PICK d : Step(t, "fill", [thread[t] EXCEPT !.todo = @ \ {d}])
      BY <2>3, Zenon DEF FillTable
    <3>2. thread'[t] = [thread[t] EXCEPT !.todo = @ \ {d}] /\ thread[t].pc = "fill"
      BY <3>1, StepIs
    <3> QED
      BY <3>2, ThreadIs DEF Local
  <2>4. CASE SendRoutes(t)
    <3>1. thread'[t] = GoesOn(t)
      BY <2>4, StepIs DEF SendRoutes
    <3> QED
      BY <3>1 DEF GoesOn, Updating, Idle
  <2> QED
    BY <2>1, <2>2, <2>3, <2>4
<1>4. Progress(t)'
  BY <1>1, <1>2, <1>3 DEF Progress
<1> QED
  BY <1>1, <1>2, <1>4, ProgressIsCurrent DEF Current, Round

LEMMA RoundIsCurrent ==
  ASSUME Sound, Alone, Current, NEW t \in Thread, Round(t)
  PROVE  Current'
<1>1. CASE ~ raced
  BY <1>1, CheckIsCurrent, NextScanIsCurrent, ScanLinksIsCurrent, DeleteLinksIsCurrent,
     BeginSearchIsCurrent, PopIsCurrent, RelaxIsCurrent, CompareIsCurrent,
     InstallIsCurrent, AnnouncingIsCurrent DEF Round
<1>2. CASE raced
  <2>1. RoundOf(t)
    BY RoundIs
  <2>2. \A a, b \in Node : edges'[a][b] = edges[a][b] \/ edges'[a][b] = None
    BY <2>1, DeletesFound DEF RoundOf
  <2> QED
    BY <1>2, <2>1, <2>2 DEF Current, Affordable, RoundOf
<1> QED
  BY <1>1, <1>2

(* A change of a link's age changes nothing that labels are about.         *)
LEMMA AgeIsNoMatter ==
  ASSUME NEW g, NEW h, NEW r, Certified(g, r),
         \A a, b \in Node : /\ h[a][b] = None <=> g[a][b] = None
                            /\ g[a][b] # None => h[a][b].cost = g[a][b].cost
  PROVE  Certified(h, r)
<1>1. PICK label : Certificate(g, label) /\ r = RoutesOf(label)
  BY DEF Certified
<1>2. Rooted(label) /\ Explained(g, label)
      /\ Settled(g, label, {n \in Node : label[n] # None})
  BY <1>1 DEF Certificate
<1>3. \A n \in Node \ {Root} : label[n] # None => label[n].prev \in Node
  BY <1>2 DEF Rooted
<1>4. Explained(h, label)
  BY <1>2, <1>3 DEF Explained
<1>5. Settled(h, label, {n \in Node : label[n] # None})
  BY <1>2 DEF Settled
<1> QED
  BY <1>1, <1>2, <1>4, <1>5 DEF Certified, Certificate

LEMMA CurrentInvariant ==
  /\ Init => Current
  /\ Sound /\ Alone /\ Current /\ [Next]_vars => Current'
<1>0. "rx" \in Thread /\ "bc" \in Thread /\ Thread = {"rx", "bc"}
  BY DEF Thread
<1>1. ASSUME Init
      PROVE  Current
  <2>1. \A t \in Thread : thread[t].pc = "idle"
    BY <1>1 DEF Init, Idle
  <2>2. edges = [n \in Node |-> NoRoutes] /\ routes = NoRoutes
    BY <1>1 DEF Init
  <2>3. Affordable(edges)
    BY <2>2 DEF Affordable, NoRoutes
  <2>4. \A t \in Thread : Progress(t)
    BY <2>1, RestingIsProgress
  <2> QED
    BY <2>2, <2>3, <2>4, NoRoutesAreCertified DEF Current
<1>2. ASSUME Sound, Alone, Current, NEW p \in Packets, Hear(p)
      PROVE  Current'
  <2>1. PICK links, report : Step("rx", "idle", Updating(links, report))
    BY <1>2, Zenon DEF Hear
  <2>2. Updating(links, report).pc = "update"
    BY DEF Updating, Idle
  <2>3. /\ thread'["rx"].pc = "update" /\ thread'["bc"] = thread["bc"]
        /\ edges' = edges /\ raced' = Busy("bc")
    <3>1. thread'["rx"] = Updating(links, report) /\ thread'["bc"] = thread["bc"]
      BY <1>0, <1>2, <2>1, StepIs
    <3> QED
      BY <1>2, <2>2, <3>1 DEF Hear
  <2>4. ~ raced' => \A t \in Thread : Progress(t)'
    BY <1>0, <2>3 DEF Progress, Busy
  <2>5. Busy("rx")'
    BY <2>3 DEF Busy
  <2> QED
    BY <1>0, <1>2, <2>3, <2>4, <2>5 DEF Current
<1>3. ASSUME Sound, Alone, Current, UpdateLink
      PROVE  Current'
  <2>1. PICK l \in thread["rx"].links :
          /\ \E links : Step("rx", "update", [thread["rx"] EXCEPT !.links = links])
          /\ edges' = [edges EXCEPT ![l[1]][l[2]] = [cost |-> RssiToCost(l[3]), old |-> FALSE]]
    BY <1>3 DEF UpdateLink
  <2>2. PICK links : Step("rx", "update", [thread["rx"] EXCEPT !.links = links])
    BY <2>1
  <2>3. /\ thread["rx"].pc = "update" /\ thread'["rx"] = [thread["rx"] EXCEPT !.links = links]
        /\ thread'["bc"] = thread["bc"]
    BY <1>0, <1>3, <2>2, StepIs
  <2>4. thread'["rx"].pc = "update" /\ thread["rx"] \in Local
    BY <1>0, <1>3, <2>3, ThreadIs DEF Local
  <2>5. l[1] \in Node /\ l[2] \in Node /\ l[3] \in Rssi
    <3>1. l \in Direction
      BY <2>1, <2>4 DEF Local
    <3> QED
      BY <3>1 DEF Direction
  <2>6. RssiToCost(l[3]) <= 79
    BY <2>5, CostIsBounded
  <2>7. Affordable(edges')
    <3>1. edges \in [Node -> [Node -> Link \cup {None}]]
      BY <1>3 DEF Sound, Typed
    <3>2. \A a, b \in Node :
            edges'[a][b] = edges[a][b] \/ edges'[a][b] = [cost |-> RssiToCost(l[3]), old |-> FALSE]
      BY <2>1, <2>5, <3>1
    <3> QED
      BY <1>3, <2>6, <3>2 DEF Affordable, Current
  <2>8. Busy("rx") /\ Busy("rx")' /\ raced' = raced
    BY <1>3, <2>3, <2>4 DEF Busy, UpdateLink
  <2>9. ~ raced' => \A t \in Thread : Progress(t)'
    BY <1>0, <1>3, <2>3, <2>4, <2>8 DEF Progress, Busy, Alone
  <2> QED
    BY <1>0, <2>7, <2>8, <2>9 DEF Current
<1>4. ASSUME Sound, Alone, Current, MarkDirty
      PROVE  Current'
  <2>1. /\ thread["rx"].pc = "update" /\ thread'["rx"] = [thread["rx"] EXCEPT !.pc = "check"]
        /\ thread'["bc"] = thread["bc"]
        /\ edges' = edges /\ raced' = raced /\ dirty' = TRUE
    BY <1>0, <1>4, StepIs DEF MarkDirty
  <2>2. thread'["rx"].pc = "check"
    BY <1>0, <1>4, <2>1, ThreadIs DEF Local
  <2>3. Busy("rx") /\ Busy("rx")'
    BY <2>1, <2>2 DEF Busy
  <2>4. ~ raced' => \A t \in Thread : Progress(t)'
    BY <1>0, <1>4, <2>1, <2>2, <2>3 DEF Progress, Busy, Alone
  <2> QED
    BY <1>0, <1>4, <2>1, <2>3, <2>4 DEF Current
<1>5. ASSUME Sound, Alone, Current, BeginBroadcast
      PROVE  Current'
  <2>1. /\ thread["bc"].pc = "idle" /\ thread'["bc"] = [Idle EXCEPT !.pc = "check"]
        /\ thread'["rx"] = thread["rx"]
        /\ edges' = edges /\ routes' = routes /\ dirty' = dirty
        /\ raced' = (Busy("rx") \/ (raced /\ ~dirty))
    BY <1>0, <1>5, StepIs DEF BeginBroadcast
  <2>2. thread'["bc"].pc = "check"
    BY <2>1 DEF Idle
  <2>3. Busy("bc")' /\ ~ Busy("bc")
    BY <2>1, <2>2 DEF Busy
  <2>4. ~ raced' => ~ Busy("rx") /\ (dirty \/ Certified(edges, routes))
    BY <1>0, <1>5, <2>1, <2>3 DEF Current
  <2>5. ~ raced' => \A t \in Thread : Progress(t)'
    BY <1>0, <2>1, <2>2, <2>4 DEF Progress, Busy
  <2> QED
    BY <1>0, <1>5, <2>1, <2>3, <2>5 DEF Current
<1>6. ASSUME Sound, Alone, Current, NEW a \in Node, NEW b \in Node, LinkAges(a, b)
      PROVE  Current'
  <2>1. /\ thread' = thread /\ routes' = routes /\ raced' = raced
        /\ \A t \in Thread : ~ Busy(t)
        /\ edges' = [m \in Node |-> [n \in Node |->
                       IF {m, n} = {a, b} /\ edges[m][n] # None
                       THEN [edges[m][n] EXCEPT !.old = TRUE] ELSE edges[m][n]]]
    BY <1>6 DEF LinkAges
  <2>2. \A m, n \in Node : edges[m][n] \in Link \cup {None}
    BY <1>6 DEF Sound, Typed
  <2>3. ASSUME NEW m \in Node, NEW n \in Node
        PROVE  /\ edges'[m][n] = None <=> edges[m][n] = None
               /\ edges[m][n] # None => edges'[m][n].cost = edges[m][n].cost
    <3>1. /\ \/ edges'[m][n] = edges[m][n]
             \/ edges'[m][n] = [edges[m][n] EXCEPT !.old = TRUE]
          /\ edges[m][n] = None => edges'[m][n] = None
      BY <2>1
    <3>2. edges[m][n] # None => /\ [edges[m][n] EXCEPT !.old = TRUE] \in Link
                                /\ [edges[m][n] EXCEPT !.old = TRUE].cost = edges[m][n].cost
      BY <2>2 DEF Link
    <3> QED
      BY <3>1, <3>2, NoneIsNoRecord
  <2>4. Affordable(edges')
    BY <1>6, <2>3 DEF Affordable, Current
  <2>5. \A t \in Thread : Progress(t)'
    BY <2>1 DEF Progress, Busy
  <2>6. Certified(edges, routes) => Certified(edges', routes)
    BY <2>3, AgeIsNoMatter
  <2> QED
    BY <1>6, <2>1, <2>4, <2>5, <2>6 DEF Current, Busy
<1>7. Current /\ UNCHANGED vars => Current'
  BY DEF vars, Current, Progress, Busy, Neighbours
<1> QED
  BY <1>0, <1>1, <1>2, <1>3, <1>4, <1>5, <1>6, <1>7, RoundIsCurrent DEF Next, RxStep, BcStep

(* Whenever both threads rest and the last recalculation overlapped no     *)
(* other, the routes are cheapest paths of the graph, each by a first hop  *)
(* that lies on one: for every graph, and whatever came before.            *)
THEOREM RoutesAreCurrent == Spec => []CurrentWhenAlone
<1>1. Sound /\ Current => CurrentWhenAlone
  <2>1. ASSUME Sound, Current
        PROVE  Graph /\ Affordable(edges)
    BY <2>1 DEF Sound, Typed, Graph, Current
  <2> QED
    BY <2>1, CertifiedIsCheapest DEF Current, CurrentWhenAlone
<1>2. Spec => [](Sound /\ Alone /\ Current)
  BY SoundInvariant, AloneInvariant, CurrentInvariant, PTL DEF Spec
<1> QED
  BY <1>1, <1>2, PTL
=============================================================================
