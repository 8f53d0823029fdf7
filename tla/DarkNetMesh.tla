----------------------------- MODULE DarkNetMesh -----------------------------
(***************************************************************************)
(* The mesh of DarkNet daemons (node/darknet_node.py): what each daemon    *)
(* sends, what it does with a packet it hears, and what its threads do     *)
(* between two packets.                                                    *)
(*                                                                         *)
(* `air` keeps every transmission for ever: hearing a packet does not      *)
(* remove it, so loss, duplication, reordering and delay all come for free.*)
(* The rx thread works in two steps, Hear (node table, root router) and    *)
(* one of the dispatch actions, so the expiry thread and the UI socket     *)
(* thread may run in between.                                              *)
(*                                                                         *)
(* Abstracted: rssi, snr, names, keys, flags and GPS; the content of LINK  *)
(* and the route computation, which is any map Dijkstra could return       *)
(* (Computable); instants, which become "any subset may have aged".        *)
(***************************************************************************)
EXTENDS RouteTable, Sequences, FiniteSets

CONSTANTS
  Daemons,      \* nodes that run darknet_node.py; the others are T-Beams
  Roots,        \* daemons started with --root
  MaxHops,      \* P.MAX_HOPS, the ttl of a new packet
  Recipients,   \* nodes that users send messages to
  Text,         \* what message payloads read as at the receiver
  StatusName,   \* status names users choose
  Status,       \* status names as STATE packets carry them
  Coded,        \* STATUS_FROM_NAME: the status a chosen name is sent as
  Budget,       \* bound: spontaneous packets, by type
  Repeated,     \* mids the 16-bit draw may return again; {}: no collision
  MaxAsked,     \* bound: mids drawn before spontaneous packets stop
  MaxMid,       \* bound: mids drawn before answers stop
  MaxRestarts,  \* bound: daemon restarts
  MaxDeaths     \* bound: expiry threads dead at a time

(* The packets a daemon or a T-Beam sends without having been asked.       *)
Asking == {"HELLO", "PING", "BEACON", "STATE", "LINK", "RT", "MSG"}

ASSUME MeshAssumption ==
  /\ Roots \subseteq Daemons /\ Daemons \subseteq Node /\ Recipients \subseteq Node
  /\ MaxHops \in Nat /\ MaxAsked \in Nat /\ MaxMid \in Nat /\ MaxRestarts \in Nat
  /\ MaxDeaths \in Nat
  /\ Repeated \subseteq Nat
  /\ Budget \in [Asking -> Nat]
  /\ None \notin Status \cup StatusName
  /\ Coded \in [StatusName -> Status]

VARIABLES
  air,        \* every packet transmitted so far
  nextMid,    \* number of mids drawn
  peer,       \* peer[n][m]: effective_status n lists m with
  shown,      \* shown[n][m]: status n shows for m
  table,      \* route_table
  requested,  \* _route_req_sent and its Timer: "no", "timer", "done"
  seen,       \* _seen_mids, without the instants
  pending,    \* _pending, without the instants
  ui,         \* mid sent by the UI thread and not yet in _pending
  inbox,      \* _inbox
  doomed,     \* routes the expiry thread found expired, not yet deleted
  dead,       \* daemons whose expiry thread an exception has ended
  rx,         \* packet between Hear and dispatch in the rx thread
  delivered,  \* history: <<node, src, mid>> of MSGs and STATEs taken in
  restarts    \* bound on Restart

vars == <<air, nextMid, peer, shown, table, requested, seen, pending, ui,
          inbox, doomed, dead, rx, delivered, restarts>>

-----------------------------------------------------------------------------
(* Packets.                                                                *)

Broadcast == 255

MsgBody   == [next : Node, text : Text]
AckBody   == [acked : Nat]
StateBody == [status : Status]
RtBody    == [gateway : Node, routes : RouteMap]

Plain  == {"HELLO", "PING", "PONG", "BEACON", "LINK", "ROUTE_REQ"}
AckTypes == {"ACK", "MSG_ACK"}

Packets(types, Body) ==
  [type : types, src : Node, dst : Node \cup {Broadcast}, mid : Nat,
   hops : Nat, ttl : Nat, body : Body]

Packet == Packets(Plain, {None}) \cup Packets({"MSG"}, MsgBody)
          \cup Packets(AckTypes, AckBody) \cup Packets({"STATE"}, StateBody)
          \cup Packets({"RT"}, RtBody)

(* build_packet: a fresh packet starts at hops 0 with a full ttl.          *)
NewPacket(type, src, dst, mid, body) ==
  [type |-> type, src |-> src, dst |-> dst, mid |-> mid,
   hops |-> 0, ttl |-> MaxHops, body |-> body]

(* random_mid: a fresh mid, or an earlier one when the 16 bits collide.    *)
DrawMid == {nextMid} \cup {mid \in Repeated : mid < nextMid}

Send(type, src, dst, mid, body) ==
  /\ air' = air \cup {NewPacket(type, src, dst, mid, body)}
  /\ nextMid' = nextMid + 1

Say(type, src, dst, body) == \E mid \in DrawMid : Send(type, src, dst, mid, body)

Key(p) == <<p.mid, p.src>>

MayAsk(kind) ==
  /\ nextMid < MaxAsked
  /\ Cardinality({p \in air : p.type = kind /\ p.hops = 0}) < Budget[kind]

-----------------------------------------------------------------------------
(* What one daemon knows.                                                  *)

(* effective_status of a node table entry: heard directly, heard through   *)
(* relays, not heard for OFFLINE_TIMEOUT; "unknown" is no entry.           *)
PeerStatus == {"unknown", "online", "relay", "offline"}

Peers0(n) == [m \in Node |-> IF m = n THEN "online" ELSE "unknown"]

Shown0     == [m \in Node |-> None]

IsDirect(n, m) == peer[n][m] = "online"

IsOnline(n, m) == peer[n][m] \in {"online", "relay"}

(* send_message's choice of next hop; None is "No route".                  *)
NextHop(n, to) ==
  IF IsDirect(n, to) THEN to
  ELSE IF table[n].routes[to] # None THEN table[n].routes[to]
  ELSE table[n].gateway

(* Route maps RootRouter.recalculate can produce: a first hop is a direct  *)
(* neighbour, hence its own next hop, and the root is not listed.          *)
Computable(root) ==
  {r \in RouteMap : /\ r[root] = None
                    /\ \A d \in Node : r[d] # None => r[r[d]] = r[d]}

-----------------------------------------------------------------------------
Init ==
  /\ air = {} /\ nextMid = 0 /\ delivered = {} /\ restarts = 0
  /\ peer      = [n \in Daemons |-> Peers0(n)]
  /\ shown     = [n \in Daemons |-> Shown0]
  /\ table     = [n \in Daemons |-> EmptyTable]
  /\ requested = [n \in Daemons |-> "no"]
  /\ seen      = [n \in Daemons |-> {}]
  /\ pending   = [n \in Daemons |-> {}]
  /\ ui        = [n \in Daemons |-> None]
  /\ inbox     = [n \in Daemons |-> << >>]
  /\ rx        = [n \in Daemons |-> None]
  /\ doomed    = [n \in Daemons |-> NoRoutes] /\ dead = {}

-----------------------------------------------------------------------------
(* The UI socket thread.                                                   *)

(* SEND_MSG.  With no next hop the call returns False; with next hop       *)
(* "direct" pack_msg raises.  Neither changes anything.                    *)
SendMessage(n, to, text) ==
  /\ MayAsk("MSG") /\ ui[n] = None
  /\ NextHop(n, to) \in Node
  /\ \E mid \in DrawMid :
       /\ Send("MSG", n, to, mid, [next |-> NextHop(n, to), text |-> text])
       /\ ui' = [ui EXCEPT ![n] = mid]
  /\ UNCHANGED <<peer, shown, table, requested, seen, pending, inbox,
                 doomed, dead, rx, delivered, restarts>>

(* SET_STATE: our own entry first, as typed, then the packet, unless the  *)
(* serial write fails and the mid is None.                                 *)
BroadcastState(n, name) ==
  /\ MayAsk("STATE") /\ ui[n] = None
  /\ shown' = [shown EXCEPT ![n][n] = name]
  /\ \/ \E mid \in DrawMid :
          /\ Send("STATE", n, Broadcast, mid, [status |-> Coded[name]])
          /\ ui' = [ui EXCEPT ![n] = mid]
     \/ UNCHANGED <<air, nextMid, ui>>
  /\ UNCHANGED <<peer, table, requested, seen, pending, inbox,
                 doomed, dead, rx, delivered, restarts>>

(* Both calls enter the mid in _pending only after the packet is out.      *)
RecordPending(n) ==
  /\ ui[n] # None
  /\ pending' = [pending EXCEPT ![n] = @ \cup {ui[n]}]
  /\ ui' = [ui EXCEPT ![n] = None]
  /\ UNCHANGED <<air, nextMid, peer, shown, table, requested, seen, inbox,
                 doomed, dead, rx, delivered, restarts>>

-----------------------------------------------------------------------------
(* The periodic threads and the one-shot timer.                            *)

PeriodicBroadcast(n, kind) ==
  /\ MayAsk(kind)
  /\ Say(kind, n, Broadcast, None)
  /\ UNCHANGED <<peer, shown, table, requested, seen, pending, ui, inbox,
                 doomed, dead, rx, delivered, restarts>>

BroadcastHello(n) == PeriodicBroadcast(n, "HELLO")

BroadcastPing(n) == PeriodicBroadcast(n, "PING")

ReportLinks(n) ==
  /\ n \notin Roots
  /\ \E m \in Node \ {n} : IsOnline(n, m)
  /\ PeriodicBroadcast(n, "LINK")

(* _broadcast_route_table: apply the computed routes here, then send them. *)
AnnounceRoutes(n) ==
  \E routes \in Computable(n) :
    /\ table' = [table EXCEPT ![n] = UpdateFromRoot(@, routes, n)]
    /\ Say("RT", n, Broadcast, [gateway |-> n, routes |-> routes])

RouteBroadcast(n) ==
  /\ n \in Roots /\ MayAsk("RT")
  /\ AnnounceRoutes(n)
  /\ UNCHANGED <<peer, shown, requested, seen, pending, ui, inbox,
                 doomed, dead, rx, delivered, restarts>>

RequestRouteTable(n) ==
  /\ requested[n] = "timer"
  /\ requested' = [requested EXCEPT ![n] = "done"]
  /\ Say("ROUTE_REQ", n, Broadcast, None)
  /\ UNCHANGED <<peer, shown, table, seen, pending, ui, inbox,
                 doomed, dead, rx, delivered, restarts>>

(* The expiry thread reads _seen_mids and the routes without excluding the *)
(* rx thread, which is why this is three actions.                          *)

Scanning(n) == n \notin dead /\ doomed[n] = NoRoutes

(* Some pending mids and seen keys have passed their age, and so have the  *)
(* routes if `stale`.                                                      *)
ExpireScan(n) ==
  /\ Scanning(n)
  /\ \E P \in SUBSET pending[n] : pending' = [pending EXCEPT ![n] = @ \ P]
  /\ \E S \in SUBSET seen[n] : seen' = [seen EXCEPT ![n] = @ \ S]
  /\ \E stale \in BOOLEAN :
       doomed' = IF stale THEN [doomed EXCEPT ![n] = table[n].routes] ELSE doomed
  /\ UNCHANGED <<air, nextMid, peer, shown, table, requested, ui, inbox, dead,
                 rx, delivered, restarts>>

MayDie == Cardinality(dead) < MaxDeaths

(* A key the rx thread enters during the scan raises RuntimeError.         *)
ScanDies(n) ==
  /\ Scanning(n) /\ MayDie
  /\ seen[n] # {} /\ rx[n] # None /\ Key(rx[n]) \notin seen[n]
  /\ \E P \in SUBSET pending[n] : pending' = [pending EXCEPT ![n] = @ \ P]
  /\ dead' = dead \cup {n}
  /\ UNCHANGED <<air, nextMid, peer, shown, table, requested, seen, ui, inbox,
                 doomed, rx, delivered, restarts>>

(* The destinations found are deleted from whatever the table is by now;   *)
(* at one that is gone the rest stays and KeyError ends the thread.        *)
ExpireRoutes(n) ==
  LET found == Routed(doomed[n])
      here  == Routed(table[n].routes)
  IN
  /\ found # {}
  /\ doomed' = [doomed EXCEPT ![n] = NoRoutes]
  /\ \/ /\ found \subseteq here
        /\ table' = [table EXCEPT ![n] = DeleteRoutes(@, found)]
        /\ UNCHANGED dead
     \/ /\ ~(found \subseteq here) /\ MayDie
        /\ \E D \in SUBSET (found \cap here) :
             table' = [table EXCEPT ![n] = DeleteRoutes(@, D)]
        /\ dead' = dead \cup {n}
  /\ UNCHANGED <<air, nextMid, peer, shown, requested, seen, pending, ui, inbox,
                 rx, delivered, restarts>>

(* m was not heard for OFFLINE_TIMEOUT; the expiry thread keeps our own    *)
(* entry fresh.                                                            *)
PeerFades(n, m) ==
  /\ m # n \/ n \in dead
  /\ IsOnline(n, m)
  /\ peer' = [peer EXCEPT ![n][m] = "offline"]
  /\ UNCHANGED <<air, nextMid, shown, table, requested, seen, pending, ui,
                 inbox, doomed, dead, rx, delivered, restarts>>

-----------------------------------------------------------------------------
(* The rx thread, first half of _on_lora_recv: before the duplicate check. *)

NotePeer(n, p) ==
  peer' = [peer EXCEPT ![n][p.src] = IF p.hops = 0 THEN "online" ELSE "relay"]

(* A non-root adopts the first node it hears as its gateway.               *)
AdoptGateway(t, src) ==
  IF t.gateway = None THEN AddDirect(SetDefaultGateway(t, src), src) ELSE t

Idle(n) == rx[n] = None

(* A packet arrives directly or repeated by T-Beams, one hop each, as far  *)
(* as its ttl goes (their sketch is outside the repository).               *)
Arrivals(p) ==
  {[p EXCEPT !.hops = @ + k, !.ttl = @ - k] :
     k \in 0..(IF Node = Daemons THEN 0 ELSE p.ttl)}

(* Packets that make a daemon draw a mid are not heard past the bound.     *)
Answerable(n, p) ==
  n \in Roots \/ p.type \in {"MSG", "STATE", "PING"} => nextMid < MaxMid

HearAsRoot(n) ==
  \/ UNCHANGED <<table, air, nextMid>>     \* nothing recalculated, or no change
  \/ AnnounceRoutes(n)

Hear(n, p) ==
  /\ Idle(n) /\ p.src # n /\ Answerable(n, p)
  /\ NotePeer(n, p)
  /\ IF n \in Roots
     THEN HearAsRoot(n)
     ELSE /\ table' = [table EXCEPT ![n] = AdoptGateway(@, p.src)]
          /\ UNCHANGED <<air, nextMid>>
  /\ rx' = [rx EXCEPT ![n] = p]
  /\ UNCHANGED <<shown, requested, seen, pending, ui, inbox, doomed, dead,
                 delivered, restarts>>

-----------------------------------------------------------------------------
(* The rx thread, second half: duplicate check and dispatch.               *)

(* Fault: the packet is looked up in _seen_mids but never entered.         *)
NotMarked(n, p) == seen[n]

Marked(n, p) == seen[n] \cup {Key(p)}

Finish(n) == rx' = [rx EXCEPT ![n] = None]

DropDuplicate(n) ==
  /\ ~Idle(n) /\ Key(rx[n]) \in seen[n]
  /\ Finish(n)
  /\ UNCHANGED <<air, nextMid, peer, shown, table, requested, seen, pending,
                 ui, inbox, doomed, dead, delivered, restarts>>

Dispatch(n, types) ==
  /\ ~Idle(n) /\ rx[n].type \in types
  /\ Key(rx[n]) \notin seen[n]
  /\ seen' = [seen EXCEPT ![n] = Marked(n, rx[n])]
  /\ Finish(n)
  /\ UNCHANGED <<peer, ui, doomed, dead, restarts>>

(* Fault: only the root asks.                                              *)
RootNeedsRoutes(n) == n \in Roots /\ requested[n] = "no"

NeedsRoutes(n) == n \notin Roots /\ requested[n] = "no"

HandleHello(n) ==
  /\ Dispatch(n, {"HELLO"})
  /\ requested' = IF NeedsRoutes(n)
                  THEN [requested EXCEPT ![n] = "timer"] ELSE requested
  /\ UNCHANGED <<air, nextMid, shown, table, pending, inbox, delivered>>

HandlePing(n) ==
  /\ Dispatch(n, {"PING"})
  /\ Say("PONG", n, rx[n].src, None)
  /\ UNCHANGED <<shown, table, requested, pending, inbox, delivered>>

(* Fault: the ack names its own mid instead of the packet's.               *)
AckOfItself(p) == [acked |-> nextMid]

AckOf(p) == [acked |-> p.mid]

(* Fault: the entries of the node table share one state dictionary.        *)
FiledInShared(n, p) == [m \in Node |-> p.body.status]

Filed(n, p) == [shown[n] EXCEPT ![p.src] = p.body.status]

HandleState(n) ==
  LET p == rx[n] IN
  /\ Dispatch(n, {"STATE"})
  /\ shown' = [shown EXCEPT ![n] = Filed(n, p)]
  /\ delivered' = delivered \cup {<<n, p.src, p.mid>>}
  /\ Say("ACK", n, p.src, AckOf(p))
  /\ UNCHANGED <<table, requested, pending, inbox>>

(* _handle_ack and _handle_msg_ack: neither looks at the addressee.        *)
HandleAck(n) ==
  /\ Dispatch(n, AckTypes)
  /\ pending' = [pending EXCEPT ![n] = @ \ {rx[n].body.acked}]
  /\ UNCHANGED <<air, nextMid, shown, table, requested, inbox, delivered>>

(* _handle_link and _handle_route_req.                                     *)
HandleRouting(n) ==
  /\ Dispatch(n, {"LINK", "ROUTE_REQ"})
  /\ IF n \notin Roots THEN UNCHANGED <<table, air, nextMid>>
     ELSE IF rx[n].type = "ROUTE_REQ" THEN AnnounceRoutes(n) ELSE HearAsRoot(n)
  /\ UNCHANGED <<shown, requested, pending, inbox, delivered>>

HandleRt(n) ==
  LET body == rx[n].body IN
  /\ Dispatch(n, {"RT"})
  /\ table' = [table EXCEPT ![n] = UpdateFromRoot(@, body.routes, body.gateway)]
  /\ UNCHANGED <<air, nextMid, shown, requested, pending, inbox, delivered>>

(* PONG needs nothing; a T-Beam's BEACON updates only display fields.      *)
HandleOther(n) ==
  /\ Dispatch(n, {"PONG", "BEACON"})
  /\ UNCHANGED <<air, nextMid, shown, table, requested, pending, inbox,
                 delivered>>

(* Faults: no duplicate check; an inbox that is full after one message.    *)
NeverInInbox(n, mid) == FALSE
InboxFull(n, mid) == inbox[n] # << >>

InInbox(n, mid) == \E i \in DOMAIN inbox[n] : inbox[n][i].mid = mid

(* _handle_msg, addressed to us.                                           *)
DeliverMsg(n) ==
  LET p == rx[n] IN
  /\ Dispatch(n, {"MSG"}) /\ p.dst = n
  /\ IF InInbox(n, p.mid)
     THEN UNCHANGED <<inbox, delivered>>
     ELSE /\ inbox' = [inbox EXCEPT ![n] = Append(@,
               [from |-> p.src, mid |-> p.mid, text |-> p.body.text])]
          /\ delivered' = delivered \cup {<<n, p.src, p.mid>>}
  /\ Say("MSG_ACK", n, p.src, AckOf(p))
  /\ UNCHANGED <<shown, table, requested, pending>>

RouteHop(n, to) ==
  IF table[n].routes[to] # None THEN table[n].routes[to] ELSE table[n].gateway

(* Fault: forwarding checks neither duplicates nor the hop budget.         *)
ForwardedUnchecked(n, p, marked) ==
  IF RouteHop(n, p.dst) \notin Node THEN {}
  ELSE {[p EXCEPT !.hops = @ + 1, !.ttl = @ - 1,
                  !.body = [@ EXCEPT !.next = RouteHop(n, p.dst)]]}

(* The forwarding half of _handle_msg, reached with `marked` as _seen_mids:*)
(* the copies it transmits.  A next hop "direct" makes pack_msg raise.     *)
Forwarded(n, p, marked) ==
  IF \/ Key(p) \in marked
     \/ p.ttl = 0 \/ p.hops >= MaxHops
     \/ RouteHop(n, p.dst) \notin Node
  THEN {}
  ELSE {[p EXCEPT !.hops = @ + 1, !.ttl = @ - 1,
                  !.body = [@ EXCEPT !.next = RouteHop(n, p.dst)]]}

OverhearMsg(n) ==
  LET p == rx[n] IN
  /\ Dispatch(n, {"MSG"}) /\ p.dst # n
  /\ air' = air \cup Forwarded(n, p, Marked(n, p))
  /\ UNCHANGED <<nextMid, shown, table, requested, pending, inbox, delivered>>

-----------------------------------------------------------------------------
(* Beacons of T-Beams, and daemon restarts.                                *)

RelayBeacon(relay) == PeriodicBroadcast(relay, "BEACON")

(* Nothing below survives the process.                                     *)
Restart(n) ==
  /\ restarts < MaxRestarts /\ restarts' = restarts + 1
  /\ peer'      = [peer EXCEPT ![n] = Peers0(n)]
  /\ shown'     = [shown EXCEPT ![n] = Shown0]
  /\ table'     = [table EXCEPT ![n] = EmptyTable]
  /\ requested' = [requested EXCEPT ![n] = "no"]
  /\ seen'      = [seen EXCEPT ![n] = {}]
  /\ pending'   = [pending EXCEPT ![n] = {}]
  /\ ui'        = [ui EXCEPT ![n] = None]
  /\ inbox'     = [inbox EXCEPT ![n] = << >>]
  /\ rx'        = [rx EXCEPT ![n] = None]
  /\ doomed'    = [doomed EXCEPT ![n] = NoRoutes] /\ dead' = dead \ {n}
  /\ UNCHANGED <<air, nextMid, delivered>>

-----------------------------------------------------------------------------
RxDispatch(n) ==
  \/ DropDuplicate(n) \/ HandleHello(n) \/ HandlePing(n) \/ HandleState(n)
  \/ HandleAck(n) \/ HandleRouting(n) \/ HandleRt(n) \/ HandleOther(n)
  \/ DeliverMsg(n) \/ OverhearMsg(n)

DaemonStep(n) ==
  \/ \E to \in Recipients, text \in Text : SendMessage(n, to, text)
  \/ \E name \in StatusName : BroadcastState(n, name)
  \/ RecordPending(n)
  \/ BroadcastHello(n) \/ BroadcastPing(n) \/ ReportLinks(n)
  \/ RouteBroadcast(n) \/ RequestRouteTable(n)
  \/ ExpireScan(n) \/ ScanDies(n) \/ ExpireRoutes(n)
  \/ \E m \in Node : PeerFades(n, m)
  \/ \E p \in air : \E copy \in Arrivals(p) : Hear(n, copy)
  \/ RxDispatch(n)
  \/ Restart(n)

Next ==
  \/ \E n \in Daemons : DaemonStep(n)
  \/ \E relay \in Node \ Daemons : RelayBeacon(relay)

Spec == Init /\ [][Next]_vars

(* Running threads and timers go on; the radio and the users need not.     *)
Fairness ==
  \A n \in Daemons : /\ WF_vars(RecordPending(n))
                     /\ WF_vars(RxDispatch(n))
                     /\ WF_vars(RequestRouteTable(n))

FairSpec == Spec /\ Fairness

-----------------------------------------------------------------------------
(* Properties.                                                             *)

(* Every variable has its type; the packets are well formed.               *)
TypeOK ==
  /\ air \subseteq Packet
  /\ nextMid \in Nat /\ restarts \in 0..MaxRestarts
  /\ peer \in [Daemons -> [Node -> PeerStatus]]
  /\ shown \in [Daemons -> [Node -> Status \cup StatusName \cup {None}]]
  /\ table \in [Daemons -> Table]
  /\ requested \in [Daemons -> {"no", "timer", "done"}]
  /\ seen \in [Daemons -> SUBSET (Nat \X Node)]
  /\ pending \in [Daemons -> SUBSET Nat]
  /\ ui \in [Daemons -> Nat \cup {None}]
  /\ inbox \in [Daemons -> Seq([from : Node, mid : Nat, text : Text])]
  /\ doomed \in [Daemons -> [Node -> Node \cup {None, Direct}]]
  /\ dead \subseteq Daemons
  /\ rx \in [Daemons -> Packet \cup {None}]
  /\ delivered \subseteq Daemons \X Node \X Nat

(* An ACK or MSG_ACK on the air is the truth: the node that sent it has    *)
(* taken in the very packet it names from the node it is addressed to,     *)
(* through duplicates, expiry of _seen_mids and restarts (_handle_msg,     *)
(* _handle_state).                                                         *)
AckMeansDelivered ==
  \A p \in air : p.type \in AckTypes =>
                 <<p.src, p.dst, p.body.acked>> \in delivered

(* An entry leaves _pending through the rx thread only when that very      *)
(* message of this node was taken in somewhere, although _handle_ack and   *)
(* _handle_msg_ack match on the mid alone and hear everybody's acks.       *)
PendingClearedByDelivery ==
  [][\A n \in Daemons : \A mid \in pending[n] \ pending'[n] :
       (~Idle(n) /\ restarts' = restarts /\ rx'[n] = None) =>
         \E q \in Daemons : <<q, n, mid>> \in delivered]_vars

(* The inbox holds every message once, each one sent to this node with     *)
(* this text by the node it is shown from (_handle_msg), also when         *)
(* _seen_mids has forgotten the packet and a late copy is dispatched again.*)
InboxFaithful ==
  \A n \in Daemons : \A i \in DOMAIN inbox[n] : LET e == inbox[n][i] IN
    /\ \A j \in DOMAIN inbox[n] : inbox[n][j].mid = e.mid => j = i
    /\ \E p \in air : /\ p.type = "MSG" /\ p.dst = n /\ p.src = e.from
                     /\ p.mid = e.mid /\ p.body.text = e.text

(* All copies of a packet carry what its sender wrote, next hop included,  *)
(* and together the hops made and left are the budget: daemons never       *)
(* rewrite a packet on its way, so _handle_msg forwards nothing.           *)
CopiesAgree ==
  \A p \in air :
    /\ p.hops + p.ttl = MaxHops
    /\ \A q \in air : Key(p) = Key(q) =>
         p.type = q.type /\ p.dst = q.dst /\ p.body = q.body

(* A status shown for another node is one that node broadcast.             *)
StatusWasAnnounced ==
  \A n \in Daemons : \A m \in Node \ {n} : shown[n][m] # None =>
    \E p \in air : /\ p.type = "STATE" /\ p.src = m
                  /\ p.body.status = shown[n][m]

(* A non-root that lists any other node has a default gateway, so from     *)
(* the first packet on send_message always finds a route: neither a route  *)
(* table with gateway byte 0 nor expiry takes the gateway away.            *)
HeardImpliesGateway ==
  \A n \in Daemons \ Roots : \A m \in Node \ {n} :
    peer[n][m] # "unknown" => table[n].gateway # None

(* The route table of a non-root is never a mixture of two announcements:  *)
(* what expiry has left of it is part of a single one, or the first node   *)
(* heard before any.                                                       *)
TableIsOneAnnouncement ==
  \A n \in Daemons \ Roots : LET routes == table[n].routes IN
    \/ \E m \in Node : Routed(routes) \subseteq {m} /\ routes[m] \in {None, Direct}
    \/ \E p \in air : /\ p.type = "RT"
                     /\ \A d \in Routed(routes) : routes[d] = p.body.routes[d]

(* A non-root that has taken in a HELLO puts a ROUTE_REQ on the air        *)
(* (_handle_hello's one-time Timer), unless a daemon restarts.             *)
RouteRequested ==
  \A n \in Daemons \ Roots :
    (\E p \in air : p.type = "HELLO" /\ Key(p) \in seen[n])
      ~> (\/ \E q \in air : q.type = "ROUTE_REQ" /\ q.src = n
          \/ restarts > 0)

-----------------------------------------------------------------------------
(* What the documentation says and the code does not do.                   *)

(* darknet_node.py:535 "Repack with bumped hops/ttl and new next_hop": a   *)
(* first copy of a message for somebody else, with hops left and a route   *)
(* to follow, is sent on when it is dispatched.                            *)
MessagesForwarded ==
  [][\A n \in Daemons : LET p == rx[n] IN
       (/\ ~Idle(n) /\ rx'[n] = None /\ restarts' = restarts
        /\ p.type = "MSG" /\ p.dst # n /\ Key(p) \notin seen[n]
        /\ p.ttl > 0 /\ RouteHop(n, p.dst) \in Node)
       => Forwarded(n, p, seen[n]) \subseteq air']_vars

(* router.py:207 "Remove expired routes": a route that expiry removes is   *)
(* one that was found expired.                                             *)
OnlyExpiredRemoved ==
  [][\A n \in Daemons, d \in Node :
       (/\ doomed[n] # NoRoutes /\ doomed'[n] = NoRoutes /\ restarts' = restarts
        /\ table'[n].routes[d] # table[n].routes[d])
       => table[n].routes[d] = doomed[n][d]]_vars

(* darknet_node.py:667 "Returns True on success": what send_message looks  *)
(* up is an address it can pack, or no route at all.                       *)
NextHopIsAddress ==
  \A n \in Daemons, to \in Node : NextHop(n, to) \in Node \cup {None}
=============================================================================
