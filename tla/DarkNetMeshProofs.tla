------------------------- MODULE DarkNetMeshProofs -------------------------
(***************************************************************************)
(* Proofs about DarkNetMesh, for every set of nodes and every bound.       *)
(***************************************************************************)
EXTENDS DarkNetMesh, TLAPS

USE RouteTableAssumption, MeshAssumption

-----------------------------------------------------------------------------
(* Packets.                                                                *)

(* A body has the shape its packet's type calls for.                       *)
LEMMA BodyOfPacket ==
  ASSUME NEW p \in Packet
  PROVE  /\ p.type = "MSG" => p.body \in MsgBody
         /\ p.type \in AckTypes => p.body \in AckBody
         /\ p.type = "STATE" => p.body \in StateBody
         /\ p.type = "RT" => p.body \in RtBody
         /\ p.src \in Node /\ p.dst \in Node \cup {Broadcast}
         /\ p.mid \in Nat /\ p.hops \in Nat /\ p.ttl \in Nat
BY DEF Packet, Packets, Plain, AckTypes

(* What the daemons build are packets.                                     *)
LEMMA NewPacketIsPacket ==
  ASSUME NEW src \in Node, NEW dst \in Node \cup {Broadcast}, NEW mid \in Nat
  PROVE  /\ \A type \in Plain : NewPacket(type, src, dst, mid, None) \in Packet
         /\ \A body \in MsgBody : NewPacket("MSG", src, dst, mid, body) \in Packet
         /\ \A type \in AckTypes, body \in AckBody :
              NewPacket(type, src, dst, mid, body) \in Packet
         /\ \A body \in StateBody : NewPacket("STATE", src, dst, mid, body) \in Packet
         /\ \A body \in RtBody : NewPacket("RT", src, dst, mid, body) \in Packet
BY DEF NewPacket, Packet, Packets, Plain, AckTypes

(* A repeated packet is a packet, alike but for hops and ttl.              *)
LEMMA ArrivalIsPacket ==
  ASSUME NEW p \in Packet, NEW q \in Arrivals(p)
  PROVE  /\ q \in Packet
         /\ q.type = p.type /\ q.src = p.src /\ q.dst = p.dst
         /\ q.mid = p.mid /\ q.body = p.body
         /\ q.hops + q.ttl = p.hops + p.ttl
<1>1. PICK k \in 0..(IF Node = Daemons THEN 0 ELSE p.ttl) :
        q = [p EXCEPT !.hops = @ + k, !.ttl = @ - k]
  BY DEF Arrivals
<1>2. p.hops \in Nat /\ p.ttl \in Nat
  BY BodyOfPacket
<1>3. p.hops + k \in Nat /\ p.ttl - k \in Nat
  BY <1>2
<1>4. ASSUME NEW types, NEW Body, p \in Packets(types, Body)
      PROVE  /\ q \in Packets(types, Body)
             /\ q.type = p.type /\ q.src = p.src /\ q.dst = p.dst
             /\ q.mid = p.mid /\ q.body = p.body
             /\ q.hops = p.hops + k /\ q.ttl = p.ttl - k
  BY <1>1, <1>3, <1>4 DEF Packets
<1>5. \E types, Body : p \in Packets(types, Body)
  BY DEF Packet
<1>6. q \in Packet
  BY <1>4 DEF Packet
<1>7. (p.hops + k) + (p.ttl - k) = p.hops + p.ttl
  BY <1>2
<1> QED
  BY <1>4, <1>5, <1>6, <1>7

(* A mid is drawn from the natural numbers.                                *)
LEMMA DrawMidNat == nextMid \in Nat => DrawMid \subseteq Nat
BY DEF DrawMid

(* Sending packets keeps the air and the mids well typed.                  *)
LEMMA SayTyped ==
  ASSUME NEW type, NEW src, NEW dst, NEW body, Say(type, src, dst, body),
         air \subseteq Packet, nextMid \in Nat,
         \A mid \in Nat : NewPacket(type, src, dst, mid, body) \in Packet
  PROVE  air' \subseteq Packet /\ nextMid' \in Nat
BY DrawMidNat DEF Say, Send

(* The operators of a route table keep its type.                           *)
LEMMA TableTyped ==
  /\ EmptyTable \in Table
  /\ \A t \in Table : /\ \A D \in SUBSET Node : DeleteRoutes(t, D) \in Table
                     /\ \A n \in Node : AdoptGateway(t, n) \in Table
                     /\ \A routes \in RouteMap, gw \in Node :
                          UpdateFromRoot(t, routes, gw) \in Table
<1>1. EmptyTable \in Table
  BY DEF EmptyTable, NoRoutes, Table
<1>2. ASSUME NEW t \in Table, NEW D \in SUBSET Node PROVE DeleteRoutes(t, D) \in Table
  BY DEF DeleteRoutes, Table
<1>3. ASSUME NEW t \in Table, NEW n \in Node PROVE AdoptGateway(t, n) \in Table
  BY DEF AdoptGateway, AddDirect, SetDefaultGateway, Table
<1>4. ASSUME NEW t \in Table, NEW routes \in RouteMap, NEW gw \in Node
      PROVE  UpdateFromRoot(t, routes, gw) \in Table
  BY DEF UpdateFromRoot, Table, RouteMap
<1> QED
  BY <1>1, <1>2, <1>3, <1>4

(* An announcement is well typed.                                          *)
LEMMA AnnounceTyped ==
  ASSUME NEW n \in Daemons, AnnounceRoutes(n), TypeOK
  PROVE  /\ air' \subseteq Packet /\ nextMid' \in Nat
         /\ table' \in [Daemons -> Table]
<1>1. PICK routes \in Computable(n) :
        /\ table' = [table EXCEPT ![n] = UpdateFromRoot(@, routes, n)]
        /\ Say("RT", n, Broadcast, [gateway |-> n, routes |-> routes])
  BY DEF AnnounceRoutes
<1>2. routes \in RouteMap /\ n \in Node
  BY DEF Computable
<1>3. [gateway |-> n, routes |-> routes] \in RtBody
  BY <1>2 DEF RtBody
<1>4. air \subseteq Packet /\ nextMid \in Nat
  BY DEF TypeOK
<1>5. ASSUME NEW mid \in Nat
      PROVE  NewPacket("RT", n, Broadcast, mid,
                       [gateway |-> n, routes |-> routes]) \in Packet
  BY <1>2, <1>3, NewPacketIsPacket
<1>6. air' \subseteq Packet /\ nextMid' \in Nat
  BY <1>1, <1>4, <1>5, SayTyped
<1>7. table' \in [Daemons -> Table]
  BY <1>1, <1>2, TableTyped DEF TypeOK
<1> QED
  BY <1>6, <1>7

(* So is what a root does with the news of a packet.                       *)
LEMMA HearAsRootTyped ==
  ASSUME NEW n \in Daemons, HearAsRoot(n), TypeOK
  PROVE  /\ air' \subseteq Packet /\ nextMid' \in Nat
         /\ table' \in [Daemons -> Table]
<1>1. CASE AnnounceRoutes(n)
  BY <1>1, AnnounceTyped
<1>2. CASE UNCHANGED <<table, air, nextMid>>
  BY <1>2 DEF TypeOK
<1> QED
  BY <1>1, <1>2 DEF HearAsRoot

(* A dispatched packet is a packet, and its key is one.                    *)
LEMMA DispatchTyped ==
  ASSUME NEW n \in Daemons, NEW types, Dispatch(n, types), TypeOK
  PROVE  /\ rx[n] \in Packet /\ rx[n].type \in types
         /\ seen' \in [Daemons -> SUBSET (Nat \X Node)]
         /\ rx' \in [Daemons -> Packet \cup {None}]
         /\ peer' = peer /\ ui' = ui /\ restarts' = restarts
         /\ doomed' = doomed /\ dead' = dead
<1>1. rx[n] \in Packet
  BY DEF TypeOK, Dispatch, Idle
<1>2. Key(rx[n]) \in Nat \X Node
  BY <1>1, BodyOfPacket DEF Key
<1> QED
  BY <1>1, <1>2 DEF TypeOK, Dispatch, Marked, Finish

-----------------------------------------------------------------------------
(* Type correctness.                                                       *)

LEMMA InitTypeOK == Init => TypeOK
<1> SUFFICES ASSUME Init PROVE TypeOK
  OBVIOUS
<1>1. table \in [Daemons -> Table]
  BY TableTyped DEF Init
<1>2. peer \in [Daemons -> [Node -> PeerStatus]]
  BY DEF Init, Peers0, PeerStatus
<1>3. shown \in [Daemons -> [Node -> Status \cup StatusName \cup {None}]]
  BY DEF Init, Shown0
<1>4. inbox \in [Daemons -> Seq([from : Node, mid : Nat, text : Text])]
  BY DEF Init
<1>5. doomed \in [Daemons -> [Node -> Node \cup {None, Direct}]]
  BY DEF Init, NoRoutes
<1> QED
  BY <1>1, <1>2, <1>3, <1>4, <1>5 DEF Init, TypeOK

(* What the user, a timer or a periodic thread makes a daemon do.          *)
LEMMA SendMessageTyped ==
  ASSUME TypeOK, NEW n \in Daemons, NEW to \in Recipients, NEW text \in Text,
         SendMessage(n, to, text)
  PROVE  TypeOK'
<1>1. PICK mid \in DrawMid :
        /\ Send("MSG", n, to, mid, [next |-> NextHop(n, to), text |-> text])
        /\ ui' = [ui EXCEPT ![n] = mid]
  BY DEF SendMessage
<1>2. mid \in Nat /\ n \in Node /\ to \in Node
  BY DrawMidNat DEF TypeOK
<1>3. [next |-> NextHop(n, to), text |-> text] \in MsgBody
  BY DEF MsgBody, SendMessage
<1>4. NewPacket("MSG", n, to, mid, [next |-> NextHop(n, to), text |-> text]) \in Packet
  BY <1>2, <1>3, NewPacketIsPacket
<1>5. air' \subseteq Packet /\ nextMid' \in Nat
  BY <1>1, <1>4 DEF Send, TypeOK
<1> QED
  BY <1>1, <1>2, <1>5 DEF TypeOK, SendMessage

LEMMA BroadcastStateTyped ==
  ASSUME TypeOK, NEW n \in Daemons, NEW name \in StatusName, BroadcastState(n, name)
  PROVE  TypeOK'
<1>1. shown' \in [Daemons -> [Node -> Status \cup StatusName \cup {None}]]
  BY DEF BroadcastState, TypeOK
<1>2. CASE UNCHANGED <<air, nextMid, ui>>
  BY <1>1, <1>2 DEF BroadcastState, TypeOK
<1>3. ASSUME NEW mid \in DrawMid,
             Send("STATE", n, Broadcast, mid, [status |-> Coded[name]]),
             ui' = [ui EXCEPT ![n] = mid]
      PROVE  TypeOK'
  <2>1. mid \in Nat /\ n \in Node
    BY DrawMidNat DEF TypeOK
  <2>2. [status |-> Coded[name]] \in StateBody
    BY DEF StateBody
  <2>3. NewPacket("STATE", n, Broadcast, mid, [status |-> Coded[name]]) \in Packet
    BY <2>1, <2>2, NewPacketIsPacket
  <2>4. air' \subseteq Packet /\ nextMid' \in Nat
    BY <1>3, <2>3 DEF Send, TypeOK
  <2> QED
    BY <1>1, <1>3, <2>1, <2>4 DEF BroadcastState, TypeOK
<1> QED
  BY <1>2, <1>3 DEF BroadcastState

LEMMA PeriodicTyped ==
  ASSUME TypeOK, NEW n \in Node, NEW kind \in Plain, PeriodicBroadcast(n, kind)
  PROVE  TypeOK'
<1>1. \A mid \in Nat : NewPacket(kind, n, Broadcast, mid, None) \in Packet
  BY NewPacketIsPacket
<1>2. air' \subseteq Packet /\ nextMid' \in Nat
  BY <1>1, SayTyped DEF PeriodicBroadcast, TypeOK
<1> QED
  BY <1>2 DEF PeriodicBroadcast, TypeOK

LEMMA BackgroundTyped ==
  ASSUME TypeOK, NEW n \in Daemons,
         \/ RecordPending(n) \/ RouteBroadcast(n) \/ RequestRouteTable(n)
         \/ ExpireScan(n) \/ ScanDies(n) \/ ExpireRoutes(n)
         \/ \E m \in Node : PeerFades(n, m)
  PROVE  TypeOK'
<1>1. CASE RecordPending(n)
  BY <1>1 DEF RecordPending, TypeOK
<1>2. CASE RouteBroadcast(n)
  BY <1>2, AnnounceTyped DEF RouteBroadcast, TypeOK
<1>3. CASE RequestRouteTable(n)
  <2>1. \A mid \in Nat : NewPacket("ROUTE_REQ", n, Broadcast, mid, None) \in Packet
    BY NewPacketIsPacket DEF Plain
  <2>2. air' \subseteq Packet /\ nextMid' \in Nat
    BY <1>3, <2>1, SayTyped DEF RequestRouteTable, TypeOK
  <2> QED
    BY <1>3, <2>2 DEF RequestRouteTable, TypeOK
<1>4. CASE ExpireScan(n)
  <2>1. PICK stale \in BOOLEAN :
          doomed' = IF stale THEN [doomed EXCEPT ![n] = table[n].routes] ELSE doomed
    BY <1>4 DEF ExpireScan
  <2>2. table[n].routes \in [Node -> Node \cup {None, Direct}]
    BY DEF TypeOK, Table
  <2>3. doomed' \in [Daemons -> [Node -> Node \cup {None, Direct}]]
    BY <2>1, <2>2 DEF TypeOK
  <2>4. /\ pending' \in [Daemons -> SUBSET Nat]
        /\ seen' \in [Daemons -> SUBSET (Nat \X Node)]
    BY <1>4 DEF ExpireScan, TypeOK
  <2> QED
    BY <1>4, <2>3, <2>4 DEF ExpireScan, TypeOK
<1>5. CASE ScanDies(n)
  <2>1. pending' \in [Daemons -> SUBSET Nat] /\ dead' \subseteq Daemons
    BY <1>5 DEF ScanDies, TypeOK
  <2> QED
    BY <1>5, <2>1 DEF ScanDies, TypeOK
<1>6. CASE ExpireRoutes(n)
  <2>1. doomed' \in [Daemons -> [Node -> Node \cup {None, Direct}]]
    BY <1>6 DEF ExpireRoutes, NoRoutes, TypeOK
  <2>2. PICK D \in SUBSET Node : table' = [table EXCEPT ![n] = DeleteRoutes(@, D)]
    BY <1>6 DEF ExpireRoutes, Routed
  <2>3. table' \in [Daemons -> Table] /\ dead' \subseteq Daemons
    BY <1>6, <2>2, TableTyped DEF ExpireRoutes, TypeOK
  <2> QED
    BY <1>6, <2>1, <2>3 DEF ExpireRoutes, TypeOK
<1>7. CASE \E m \in Node : PeerFades(n, m)
  <2>1. PICK m \in Node : PeerFades(n, m)
    BY <1>7
  <2>2. peer' \in [Daemons -> [Node -> PeerStatus]]
    BY <2>1 DEF PeerFades, TypeOK, PeerStatus
  <2> QED
    BY <2>1, <2>2 DEF PeerFades, TypeOK
<1> QED
  BY <1>1, <1>2, <1>3, <1>4, <1>5, <1>6, <1>7

(* The two halves of the rx thread.                                        *)
LEMMA HearTyped ==
  ASSUME TypeOK, NEW n \in Daemons, NEW p \in Packet, Hear(n, p)
  PROVE  TypeOK'
<1>1. p.src \in Node
  BY BodyOfPacket
<1>2. peer' \in [Daemons -> [Node -> PeerStatus]]
  BY <1>1 DEF Hear, NotePeer, TypeOK, PeerStatus
<1>3. /\ air' \subseteq Packet /\ nextMid' \in Nat
      /\ table' \in [Daemons -> Table]
  <2>1. CASE n \in Roots
    BY <2>1, HearAsRootTyped DEF Hear
  <2>2. CASE n \notin Roots
    <3>1. table[n] \in Table
      BY DEF TypeOK
    <3>2. AdoptGateway(table[n], p.src) \in Table
      BY <1>1, <3>1, TableTyped
    <3>3. /\ table' = [table EXCEPT ![n] = AdoptGateway(@, p.src)]
          /\ UNCHANGED <<air, nextMid>>
      BY <2>2 DEF Hear
    <3>4. table \in [Daemons -> Table] /\ air \subseteq Packet /\ nextMid \in Nat
      BY DEF TypeOK
    <3> QED
      BY <3>2, <3>3, <3>4
  <2> QED
    BY <2>1, <2>2
<1> QED
  BY <1>2, <1>3 DEF Hear, TypeOK

(* Copies that a daemon passes on are packets, alike but for hops, ttl and *)
(* next hop.                                                               *)
LEMMA ForwardedIsPacket ==
  ASSUME TypeOK, NEW n \in Daemons, NEW p \in Packet, p.type = "MSG", NEW marked,
         NEW q \in Forwarded(n, p, marked)
  PROVE  q \in Packet
<1>1. /\ p.ttl # 0 /\ RouteHop(n, p.dst) \in Node
      /\ q = [p EXCEPT !.hops = @ + 1, !.ttl = @ - 1,
                       !.body = [@ EXCEPT !.next = RouteHop(n, p.dst)]]
  BY DEF Forwarded
<1>2. p \in Packets({"MSG"}, MsgBody)
  BY DEF Packet, Packets, Plain, AckTypes
<1>3. [p.body EXCEPT !.next = RouteHop(n, p.dst)] \in MsgBody
  BY <1>1, <1>2 DEF Packets, MsgBody
<1>4. p.hops + 1 \in Nat /\ p.ttl - 1 \in Nat
  BY <1>1, <1>2 DEF Packets
<1>5. q \in Packets({"MSG"}, MsgBody)
  BY <1>1, <1>2, <1>3, <1>4 DEF Packets
<1> QED
  BY <1>5 DEF Packet

LEMMA AppendTyped ==
  ASSUME NEW S, NEW s \in Seq(S), NEW e \in S PROVE Append(s, e) \in Seq(S)
OBVIOUS

LEMMA DeliverMsgTyped ==
  ASSUME TypeOK, NEW n \in Daemons, DeliverMsg(n)
  PROVE  TypeOK'
<1> DEFINE p == rx[n]
           entry == [from |-> p.src, mid |-> p.mid, text |-> p.body.text]
<1>1. /\ p \in Packet /\ p.type = "MSG"
      /\ seen' \in [Daemons -> SUBSET (Nat \X Node)]
      /\ rx' \in [Daemons -> Packet \cup {None}]
      /\ peer' = peer /\ ui' = ui /\ restarts' = restarts
      /\ doomed' = doomed /\ dead' = dead
  BY DispatchTyped DEF DeliverMsg
<1>2. p.src \in Node /\ p.mid \in Nat /\ p.body \in MsgBody
  BY <1>1, BodyOfPacket
<1>3. entry \in [from : Node, mid : Nat, text : Text]
  BY <1>2 DEF MsgBody
<1>4. inbox' \in [Daemons -> Seq([from : Node, mid : Nat, text : Text])]
  <2>1. CASE InInbox(n, p.mid)
    BY <2>1 DEF DeliverMsg, TypeOK
  <2>2. CASE ~InInbox(n, p.mid)
    <3>1. inbox' = [inbox EXCEPT ![n] = Append(@, entry)]
      BY <2>2 DEF DeliverMsg
    <3>2. inbox[n] \in Seq([from : Node, mid : Nat, text : Text])
      BY DEF TypeOK
    <3>3. Append(inbox[n], entry) \in Seq([from : Node, mid : Nat, text : Text])
      BY <1>3, <3>2, AppendTyped
    <3> QED
      BY <3>1, <3>3 DEF TypeOK
  <2> QED
    BY <2>1, <2>2
<1>5. delivered' \subseteq Daemons \X Node \X Nat
  BY <1>2 DEF DeliverMsg, TypeOK
<1>6. AckOf(p) \in AckBody
  BY <1>2 DEF AckOf, AckBody
<1>7. \A mid \in Nat : NewPacket("MSG_ACK", n, p.src, mid, AckOf(p)) \in Packet
  BY <1>2, <1>6, NewPacketIsPacket DEF AckTypes
<1>8. air' \subseteq Packet /\ nextMid' \in Nat
  BY <1>7, SayTyped DEF DeliverMsg, TypeOK
<1> QED
  BY <1>1, <1>4, <1>5, <1>8 DEF DeliverMsg, TypeOK

LEMMA HandleStateTyped ==
  ASSUME TypeOK, NEW n \in Daemons, HandleState(n)
  PROVE  TypeOK'
<1> DEFINE p == rx[n]
<1>1. /\ p \in Packet /\ p.type = "STATE"
      /\ seen' \in [Daemons -> SUBSET (Nat \X Node)]
      /\ rx' \in [Daemons -> Packet \cup {None}]
      /\ peer' = peer /\ ui' = ui /\ restarts' = restarts
      /\ doomed' = doomed /\ dead' = dead
  BY DispatchTyped DEF HandleState
<1>2. p.src \in Node /\ p.mid \in Nat /\ p.body.status \in Status
  BY <1>1, BodyOfPacket DEF StateBody
<1>3. shown' \in [Daemons -> [Node -> Status \cup StatusName \cup {None}]]
  BY <1>2 DEF HandleState, Filed, TypeOK
<1>4. delivered' \subseteq Daemons \X Node \X Nat
  BY <1>2 DEF HandleState, TypeOK
<1>5. AckOf(p) \in AckBody
  BY <1>2 DEF AckOf, AckBody
<1>6. \A mid \in Nat : NewPacket("ACK", n, p.src, mid, AckOf(p)) \in Packet
  BY <1>2, <1>5, NewPacketIsPacket DEF AckTypes
<1>7. air' \subseteq Packet /\ nextMid' \in Nat
  BY <1>6, SayTyped DEF HandleState, TypeOK
<1> QED
  BY <1>1, <1>3, <1>4, <1>7 DEF HandleState, TypeOK

LEMMA RxDispatchTyped ==
  ASSUME TypeOK, NEW n \in Daemons, RxDispatch(n)
  PROVE  TypeOK'
<1> DEFINE Dispatched == /\ seen' \in [Daemons -> SUBSET (Nat \X Node)]
                         /\ rx' \in [Daemons -> Packet \cup {None}]
                         /\ peer' = peer /\ ui' = ui /\ restarts' = restarts
                         /\ doomed' = doomed /\ dead' = dead
<1>1. CASE DropDuplicate(n)
  BY <1>1 DEF DropDuplicate, Finish, TypeOK
<1>2. CASE HandleHello(n)
  <2>1. Dispatched
    BY <1>2, DispatchTyped DEF HandleHello
  <2>2. requested' \in [Daemons -> {"no", "timer", "done"}]
    BY <1>2 DEF HandleHello, TypeOK
  <2> QED
    BY <1>2, <2>1, <2>2 DEF HandleHello, TypeOK
<1>3. CASE HandlePing(n)
  <2>1. Dispatched /\ rx[n] \in Packet
    BY <1>3, DispatchTyped DEF HandlePing
  <2>2. \A mid \in Nat : NewPacket("PONG", n, rx[n].src, mid, None) \in Packet
    BY <2>1, BodyOfPacket, NewPacketIsPacket DEF Plain
  <2>3. air' \subseteq Packet /\ nextMid' \in Nat
    BY <1>3, <2>2, SayTyped DEF HandlePing, TypeOK
  <2> QED
    BY <1>3, <2>1, <2>3 DEF HandlePing, TypeOK
<1>4. CASE HandleState(n)
  BY <1>4, HandleStateTyped
<1>5. CASE HandleAck(n)
  <2>1. Dispatched
    BY <1>5, DispatchTyped DEF HandleAck
  <2> QED
    BY <1>5, <2>1 DEF HandleAck, TypeOK
<1>6. CASE HandleRouting(n)
  <2>1. Dispatched
    BY <1>6, DispatchTyped DEF HandleRouting
  <2>2. /\ air' \subseteq Packet /\ nextMid' \in Nat
        /\ table' \in [Daemons -> Table]
    <3>1. CASE UNCHANGED <<table, air, nextMid>>
      BY <3>1 DEF TypeOK
    <3>2. CASE AnnounceRoutes(n) \/ HearAsRoot(n)
      BY <3>2, AnnounceTyped, HearAsRootTyped
    <3> QED
      BY <1>6, <3>1, <3>2 DEF HandleRouting
  <2> QED
    BY <1>6, <2>1, <2>2 DEF HandleRouting, TypeOK
<1>7. CASE HandleRt(n)
  <2>1. Dispatched /\ rx[n] \in Packet /\ rx[n].type = "RT"
    BY <1>7, DispatchTyped DEF HandleRt
  <2>2. rx[n].body.routes \in RouteMap /\ rx[n].body.gateway \in Node
    BY <2>1, BodyOfPacket DEF RtBody
  <2>3. table' \in [Daemons -> Table]
    BY <1>7, <2>2, TableTyped DEF HandleRt, TypeOK
  <2> QED
    BY <1>7, <2>1, <2>3 DEF HandleRt, TypeOK
<1>8. CASE HandleOther(n)
  <2>1. Dispatched
    BY <1>8, DispatchTyped DEF HandleOther
  <2> QED
    BY <1>8, <2>1 DEF HandleOther, TypeOK
<1>9. CASE DeliverMsg(n)
  BY <1>9, DeliverMsgTyped
<1>10. CASE OverhearMsg(n)
  <2>1. Dispatched /\ rx[n] \in Packet /\ rx[n].type = "MSG"
    BY <1>10, DispatchTyped DEF OverhearMsg
  <2>2. air' \subseteq Packet
    BY <1>10, <2>1, ForwardedIsPacket DEF OverhearMsg, TypeOK
  <2> QED
    BY <1>10, <2>1, <2>2 DEF OverhearMsg, TypeOK
<1> QED
  BY <1>1, <1>2, <1>3, <1>4, <1>5, <1>6, <1>7, <1>8, <1>9, <1>10 DEF RxDispatch

LEMMA RestartTyped ==
  ASSUME TypeOK, NEW n \in Daemons, Restart(n)
  PROVE  TypeOK'
<1>1. Peers0(n) \in [Node -> PeerStatus] /\ Shown0 \in [Node -> Status \cup StatusName \cup {None}]
  BY DEF Peers0, Shown0, PeerStatus
<1>2. table' \in [Daemons -> Table]
  BY TableTyped DEF Restart, TypeOK
<1>3. inbox' \in [Daemons -> Seq([from : Node, mid : Nat, text : Text])]
  <2>1. << >> \in Seq([from : Node, mid : Nat, text : Text])
    OBVIOUS
  <2> QED
    BY <2>1 DEF Restart, TypeOK
<1>4. /\ peer' \in [Daemons -> [Node -> PeerStatus]]
      /\ shown' \in [Daemons -> [Node -> Status \cup StatusName \cup {None}]]
  BY <1>1 DEF Restart, TypeOK
<1>5. restarts' \in 0..MaxRestarts
  BY DEF Restart, TypeOK
<1>6. /\ requested' \in [Daemons -> {"no", "timer", "done"}]
      /\ seen' \in [Daemons -> SUBSET (Nat \X Node)]
      /\ pending' \in [Daemons -> SUBSET Nat]
  BY DEF Restart, TypeOK
<1>7. /\ ui' \in [Daemons -> Nat \cup {None}]
      /\ rx' \in [Daemons -> Packet \cup {None}]
  BY DEF Restart, TypeOK
<1>8. UNCHANGED <<air, nextMid, delivered>>
  BY DEF Restart
<1>9. /\ doomed' \in [Daemons -> [Node -> Node \cup {None, Direct}]]
      /\ dead' \subseteq Daemons
  BY DEF Restart, NoRoutes, TypeOK
<1> QED
  BY <1>2, <1>3, <1>4, <1>5, <1>6, <1>7, <1>8, <1>9 DEF TypeOK

LEMMA NextTypeOK == TypeOK /\ [Next]_vars => TypeOK'
<1> SUFFICES ASSUME TypeOK, [Next]_vars PROVE TypeOK'
  OBVIOUS
<1>1. ASSUME NEW n \in Daemons, DaemonStep(n) PROVE TypeOK'
  <2>1. CASE \E to \in Recipients, text \in Text : SendMessage(n, to, text)
    BY <2>1, SendMessageTyped
  <2>2. CASE \E name \in StatusName : BroadcastState(n, name)
    BY <2>2, BroadcastStateTyped
  <2>3. CASE BroadcastHello(n) \/ BroadcastPing(n) \/ ReportLinks(n)
    BY <2>3, PeriodicTyped DEF BroadcastHello, BroadcastPing, ReportLinks, Plain
  <2>4. CASE \/ RecordPending(n) \/ RouteBroadcast(n) \/ RequestRouteTable(n)
             \/ ExpireScan(n) \/ ScanDies(n) \/ ExpireRoutes(n)
             \/ \E m \in Node : PeerFades(n, m)
    BY <2>4, BackgroundTyped
  <2>5. CASE \E p \in air : \E copy \in Arrivals(p) : Hear(n, copy)
    BY <2>5, ArrivalIsPacket, HearTyped DEF TypeOK
  <2>6. CASE RxDispatch(n)
    BY <2>6, RxDispatchTyped
  <2>7. CASE Restart(n)
    BY <2>7, RestartTyped
  <2> QED
    BY <1>1, <2>1, <2>2, <2>3, <2>4, <2>5, <2>6, <2>7 DEF DaemonStep
<1>2. ASSUME NEW relay \in Node \ Daemons, RelayBeacon(relay) PROVE TypeOK'
  BY <1>2, PeriodicTyped DEF RelayBeacon, Plain
<1>3. CASE UNCHANGED vars
  BY <1>3 DEF vars, TypeOK
<1> QED
  BY <1>1, <1>2, <1>3 DEF Next

(* Every packet ever transmitted is well formed, and every variable of     *)
(* every daemon has its type.                                              *)
THEOREM TypeCorrect == Spec => []TypeOK
  BY InitTypeOK, NextTypeOK, PTL DEF Spec

-----------------------------------------------------------------------------
(* The default gateway of a node that is not a root.                       *)

(* No operator on route tables takes a gateway away.                       *)
LEMMA GatewayStays ==
  ASSUME NEW t \in Table, t.gateway # None
  PROVE  /\ \A D \in SUBSET Node : DeleteRoutes(t, D).gateway # None
         /\ \A n \in Node : AdoptGateway(t, n).gateway # None
         /\ \A routes \in RouteMap, gw \in Node :
              UpdateFromRoot(t, routes, gw).gateway # None
BY DEF DeleteRoutes, AdoptGateway, AddDirect, SetDefaultGateway,
       UpdateFromRoot, Table

(* Whatever it held before, a table has a gateway once it adopts one.      *)
LEMMA AdoptGives ==
  ASSUME NEW t \in Table, NEW n \in Node
  PROVE  AdoptGateway(t, n).gateway # None
BY DEF AdoptGateway, AddDirect, SetDefaultGateway, Table

(* Daemon n lists nobody new and keeps the gateway it has.                 *)
NothingLost(n) ==
  /\ \A m \in Node : peer'[n][m] # "unknown" => peer[n][m] # "unknown"
  /\ table[n].gateway # None => table'[n].gateway # None

(* One daemon's share of the invariant.                                    *)
LEMMA NothingLostKeeps ==
  ASSUME HeardImpliesGateway, NEW n \in Daemons \ Roots, NothingLost(n),
         NEW m \in Node \ {n}, peer'[n][m] # "unknown"
  PROVE  table'[n].gateway # None
BY DEF HeardImpliesGateway, NothingLost

(* Dispatching a packet loses nothing: a route table with gateway byte 0   *)
(* leaves the stored gateway alone, and only a root computes routes.       *)
LEMMA DispatchLosesNothing ==
  ASSUME TypeOK, NEW n \in Daemons, RxDispatch(n), NEW m \in Daemons \ Roots
  PROVE  NothingLost(m)
<1>1. CASE HandleRt(n)
  <2>1. rx[n] \in Packet /\ rx[n].type = "RT" /\ peer' = peer
    BY <1>1, DispatchTyped DEF HandleRt
  <2>2. rx[n].body.routes \in RouteMap /\ rx[n].body.gateway \in Node
    BY <2>1, BodyOfPacket DEF RtBody
  <2>3. table' = [table EXCEPT ![n] =
                    UpdateFromRoot(@, rx[n].body.routes, rx[n].body.gateway)]
    BY <1>1 DEF HandleRt
  <2>4. table[n] \in Table /\ table \in [Daemons -> Table]
    BY DEF TypeOK
  <2>5. table[n].gateway # None => table'[n].gateway # None
    BY <2>2, <2>3, <2>4, GatewayStays
  <2> QED
    BY <2>1, <2>3, <2>4, <2>5 DEF NothingLost
<1>2. CASE HandleRouting(n)
  <2>1. peer' = peer
    BY <1>2 DEF HandleRouting, Dispatch
  <2>2. CASE UNCHANGED table
    BY <2>1, <2>2 DEF NothingLost
  <2>3. CASE n \in Roots /\ AnnounceRoutes(n)
    BY <2>1, <2>3 DEF AnnounceRoutes, NothingLost, TypeOK
  <2>4. CASE n \notin Roots
    <3>1. UNCHANGED table
      BY <1>2, <2>4 DEF HandleRouting
    <3> QED
      BY <2>2, <3>1
  <2>5. CASE n \in Roots
    <3>1. AnnounceRoutes(n) \/ HearAsRoot(n)
      BY <1>2, <2>5 DEF HandleRouting
    <3> QED
      BY <2>2, <2>3, <2>5, <3>1 DEF HearAsRoot
  <2> QED
    BY <2>4, <2>5
<1>3. CASE ~HandleRt(n) /\ ~HandleRouting(n)
  <2>1. peer' = peer /\ table' = table
    BY <1>3 DEF RxDispatch, DropDuplicate, HandleHello, HandlePing, HandleState,
                HandleAck, HandleOther, DeliverMsg, OverhearMsg, Dispatch
  <2> QED
    BY <2>1 DEF NothingLost
<1> QED
  BY <1>1, <1>2, <1>3

(* Hearing a packet lists its sender only after a gateway is adopted.      *)
LEMMA HearKeepsGateway ==
  ASSUME TypeOK, HeardImpliesGateway, NEW n \in Daemons, NEW p \in Packet, Hear(n, p)
  PROVE  HeardImpliesGateway'
<1> SUFFICES ASSUME NEW a \in Daemons \ Roots, NEW m \in Node \ {a},
                    peer'[a][m] # "unknown"
             PROVE  table'[a].gateway # None
  BY DEF HeardImpliesGateway
<1>1. table \in [Daemons -> Table] /\ p.src \in Node
  BY BodyOfPacket DEF TypeOK
<1>2. CASE a = n
  <2>1. table'[n] = AdoptGateway(table[n], p.src)
    BY <1>1, <1>2 DEF Hear
  <2> QED
    BY <1>1, <1>2, <2>1, AdoptGives
<1>3. CASE a # n
  <2>1. peer'[a] = peer[a] /\ table'[a] = table[a]
    BY <1>3 DEF Hear, NotePeer, HearAsRoot, AnnounceRoutes, TypeOK
  <2> QED
    BY <2>1 DEF HeardImpliesGateway
<1> QED
  BY <1>2, <1>3

LEMMA NextHeardImpliesGateway ==
  TypeOK /\ HeardImpliesGateway /\ [Next]_vars => HeardImpliesGateway'
<1> SUFFICES ASSUME TypeOK, HeardImpliesGateway, [Next]_vars
             PROVE  HeardImpliesGateway'
  OBVIOUS
<1>1. ASSUME \A a \in Daemons \ Roots : NothingLost(a) PROVE HeardImpliesGateway'
  BY <1>1, NothingLostKeeps DEF HeardImpliesGateway
<1>2. CASE peer' = peer /\ table' = table
  BY <1>2 DEF HeardImpliesGateway
<1>3. ASSUME NEW n \in Daemons, DaemonStep(n) PROVE HeardImpliesGateway'
  <2>1. CASE \/ \E to \in Recipients, text \in Text : SendMessage(n, to, text)
             \/ \E name \in StatusName : BroadcastState(n, name)
             \/ RecordPending(n) \/ BroadcastHello(n) \/ BroadcastPing(n)
             \/ ReportLinks(n) \/ RequestRouteTable(n)
             \/ ExpireScan(n) \/ ScanDies(n)
    <3>1. peer' = peer /\ table' = table
      BY <2>1 DEF SendMessage, BroadcastState, RecordPending, BroadcastHello,
                  BroadcastPing, ReportLinks, RequestRouteTable, PeriodicBroadcast,
                  ExpireScan, ScanDies
    <3> QED
      BY <1>2, <3>1
  <2>2. CASE RouteBroadcast(n)
    <3>1. ASSUME NEW a \in Daemons \ Roots PROVE NothingLost(a)
      BY <2>2 DEF RouteBroadcast, AnnounceRoutes, NothingLost, TypeOK
    <3> QED
      BY <1>1, <3>1
  <2>3. CASE ExpireRoutes(n)
    <3>1. PICK D \in SUBSET Node : table' = [table EXCEPT ![n] = DeleteRoutes(@, D)]
      BY <2>3 DEF ExpireRoutes, Routed
    <3>2. table \in [Daemons -> Table] /\ peer' = peer
      BY <2>3 DEF ExpireRoutes, TypeOK
    <3>3. table[n].gateway # None => table'[n].gateway # None
      BY <3>1, <3>2, GatewayStays
    <3>4. ASSUME NEW a \in Daemons \ Roots PROVE NothingLost(a)
      BY <3>1, <3>2, <3>3 DEF NothingLost
    <3> QED
      BY <1>1, <3>4
  <2>4. CASE \E m \in Node : PeerFades(n, m)
    <3>1. ASSUME NEW a \in Daemons \ Roots PROVE NothingLost(a)
      BY <2>4 DEF PeerFades, IsOnline, NothingLost, TypeOK
    <3> QED
      BY <1>1, <3>1
  <2>5. CASE \E p \in air : \E copy \in Arrivals(p) : Hear(n, copy)
    BY <2>5, ArrivalIsPacket, HearKeepsGateway DEF TypeOK
  <2>6. CASE RxDispatch(n)
    BY <1>1, <2>6, DispatchLosesNothing
  <2>7. CASE Restart(n)
    BY <2>7 DEF Restart, Peers0, HeardImpliesGateway, TypeOK
  <2> QED
    BY <1>3, <2>1, <2>2, <2>3, <2>4, <2>5, <2>6, <2>7 DEF DaemonStep
<1>4. ASSUME NEW relay \in Node \ Daemons, RelayBeacon(relay)
      PROVE  HeardImpliesGateway'
  BY <1>2, <1>4 DEF RelayBeacon, PeriodicBroadcast
<1>5. CASE UNCHANGED vars
  BY <1>2, <1>5 DEF vars
<1> QED
  BY <1>3, <1>4, <1>5 DEF Next

(* From the first packet it hears a daemon that is not a root has a        *)
(* default gateway, for good: send_message always finds a next hop.        *)
THEOREM AlwaysAGateway == Spec => []HeardImpliesGateway
<1>1. Init => HeardImpliesGateway
  BY DEF Init, Peers0, HeardImpliesGateway
<1> QED
  BY <1>1, TypeCorrect, NextHeardImpliesGateway, PTL DEF Spec
=============================================================================
