------------------------ MODULE DarkNetMeshAckProofs ------------------------
(***************************************************************************)
(* What an acknowledgement means, proved for every mesh whose random mids  *)
(* do not collide (NoCollision).  AckMeansDelivered is not inductive: the  *)
(* ack of a message already in the inbox is sent on the strength of the    *)
(* inbox alone, so Ledger ties inbox, _pending, the packet in the rx       *)
(* thread and the history of deliveries to the packets on the air.         *)
(***************************************************************************)
EXTENDS DarkNetMeshProofs

USE RouteTableAssumption, MeshAssumption

NoCollision == Repeated = {}

Sent == {Key(p) : p \in air}

(* Keys on the air are older than the next mid, and a mid has one sender.  *)
Fresh ==
  /\ \A k \in Sent : k[1] < nextMid
  /\ \A k, l \in Sent : k[1] = l[1] => k = l

Truthful(p) ==
  p.type \in AckTypes => <<p.src, p.dst, p.body.acked>> \in delivered

(* What the rx thread is about to dispatch was sent by its sender.         *)
RxSent ==
  \A n \in Daemons : rx[n] # None => Key(rx[n]) \in Sent /\ Truthful(rx[n])

Awaited(n) == (pending[n] \cup {ui[n]}) \ {None}

(* A node awaits acks for its own packets only.                            *)
OwnSent == \A n \in Daemons : \A mid \in Awaited(n) : <<mid, n>> \in Sent

(* What is in an inbox was delivered there.                                *)
InboxTaken ==
  \A n \in Daemons : \A i \in DOMAIN inbox[n] :
    <<n, inbox[n][i].from, inbox[n][i].mid>> \in delivered

(* What was delivered was sent.                                            *)
DeliveredSent == \A d \in delivered : <<d[3], d[2]>> \in Sent

Ledger == /\ Fresh /\ RxSent /\ OwnSent /\ InboxTaken /\ DeliveredSent
          /\ AckMeansDelivered

-----------------------------------------------------------------------------
(* The air and the history of deliveries only grow.                        *)

Grows == Sent \subseteq Sent' /\ delivered \subseteq delivered'

(* A step that only forgets: nothing new is received, awaited or stored.   *)
Forgets ==
  /\ \A n \in Daemons : rx'[n] \in {rx[n], None}
  /\ \A n \in Daemons : Awaited(n)' \subseteq Awaited(n)
  /\ \A n \in Daemons : inbox'[n] \in {inbox[n], << >>}

LEMMA ForgettingKeeps ==
  ASSUME Ledger, Grows
  PROVE  /\ (\A n \in Daemons : rx'[n] \in {rx[n], None}) => RxSent'
         /\ (\A n \in Daemons : Awaited(n)' \subseteq Awaited(n)) => OwnSent'
         /\ (\A n \in Daemons : inbox'[n] \in {inbox[n], << >>}) => InboxTaken'
         /\ delivered' = delivered => DeliveredSent'
<1>1. ASSUME \A n \in Daemons : rx'[n] \in {rx[n], None} PROVE RxSent'
  BY <1>1 DEF Ledger, Grows, RxSent, Truthful
<1>2. ASSUME \A n \in Daemons : Awaited(n)' \subseteq Awaited(n) PROVE OwnSent'
  BY <1>2 DEF Ledger, Grows, OwnSent
<1>3. ASSUME \A n \in Daemons : inbox'[n] \in {inbox[n], << >>} PROVE InboxTaken'
  BY <1>3 DEF Ledger, Grows, InboxTaken
<1>4. ASSUME delivered' = delivered PROVE DeliveredSent'
  BY <1>4 DEF Ledger, Grows, DeliveredSent
<1> QED
  BY <1>1, <1>2, <1>3, <1>4

(* Sending under a fresh mid.                                              *)
LEMMA SendFresh ==
  ASSUME NoCollision, TypeOK, Fresh, NEW type, NEW src, NEW dst, NEW body,
         NEW mid \in DrawMid, Send(type, src, dst, mid, body)
  PROVE  /\ Fresh' /\ mid = nextMid
         /\ Sent' = Sent \cup {<<nextMid, src>>}
         /\ air' = air \cup {NewPacket(type, src, dst, nextMid, body)}
<1>1. mid = nextMid /\ nextMid \in Nat /\ nextMid' = nextMid + 1
  BY DEF NoCollision, DrawMid, Send, TypeOK
<1>2. air' = air \cup {NewPacket(type, src, dst, nextMid, body)}
  BY <1>1 DEF Send
<1>3. Key(NewPacket(type, src, dst, nextMid, body)) = <<nextMid, src>>
  BY DEF Key, NewPacket
<1>4. Sent' = Sent \cup {<<nextMid, src>>}
  BY <1>2, <1>3 DEF Sent
<1>5. \A k \in Sent : k[1] \in Nat
  BY BodyOfPacket DEF Sent, Key, TypeOK
<1>6. \A k \in Sent' : k[1] < nextMid'
  BY <1>1, <1>4, <1>5 DEF Fresh
<1>7. \A k, l \in Sent' : k[1] = l[1] => k = l
  BY <1>1, <1>4, <1>5 DEF Fresh
<1> QED
  BY <1>1, <1>2, <1>4, <1>6, <1>7 DEF Fresh

LEMMA SayFresh ==
  ASSUME NoCollision, TypeOK, Fresh, NEW type, NEW src, NEW dst, NEW body,
         Say(type, src, dst, body)
  PROVE  /\ Fresh'
         /\ Sent' = Sent \cup {<<nextMid, src>>}
         /\ air' = air \cup {NewPacket(type, src, dst, nextMid, body)}
BY SendFresh DEF Say

(* A packet that acknowledges nothing leaves every ack on the air true.    *)
LEMMA OtherPacketsKeepAcks ==
  ASSUME AckMeansDelivered, delivered \subseteq delivered', NEW p,
         p.type \notin AckTypes, air' = air \cup {p}
  PROVE  AckMeansDelivered'
BY DEF AckMeansDelivered

(* Saying something other than an ack, and forgetting.                     *)
LEMMA SayKeeps ==
  ASSUME NoCollision, TypeOK, Ledger, NEW type, type \notin AckTypes,
         NEW src, NEW dst, NEW body, Say(type, src, dst, body),
         delivered' = delivered
  PROVE  /\ Fresh' /\ Grows /\ AckMeansDelivered'
         /\ Forgets => Ledger'
<1>1. /\ Fresh'
      /\ Sent' = Sent \cup {<<nextMid, src>>}
      /\ air' = air \cup {NewPacket(type, src, dst, nextMid, body)}
  BY SayFresh DEF Ledger
<1>2. Grows
  BY <1>1 DEF Grows
<1>3. NewPacket(type, src, dst, nextMid, body).type \notin AckTypes
  BY DEF NewPacket
<1>4. AckMeansDelivered'
  BY <1>1, <1>3, OtherPacketsKeepAcks DEF Ledger
<1>5. ASSUME Forgets PROVE Ledger'
  BY <1>1, <1>2, <1>4, <1>5, ForgettingKeeps DEF Ledger, Forgets
<1> QED
  BY <1>1, <1>2, <1>4, <1>5

(* A silent step.                                                          *)
LEMMA SilenceKeeps ==
  ASSUME Ledger, air' = air, nextMid' = nextMid, delivered' = delivered
  PROVE  /\ Fresh' /\ Grows /\ AckMeansDelivered'
         /\ Forgets => Ledger'
<1>1. Sent' = Sent
  BY DEF Sent
<1>2. Fresh' /\ Grows /\ AckMeansDelivered'
  BY <1>1 DEF Ledger, Fresh, Grows, AckMeansDelivered
<1>3. ASSUME Forgets PROVE Ledger'
  BY <1>2, <1>3, ForgettingKeeps DEF Ledger, Forgets
<1> QED
  BY <1>2, <1>3

(* An announcement is silence or a packet that acknowledges nothing.       *)
LEMMA AnnounceKeeps ==
  ASSUME NoCollision, TypeOK, Ledger, NEW n \in Daemons, delivered' = delivered,
         AnnounceRoutes(n) \/ (air' = air /\ nextMid' = nextMid)
  PROVE  /\ Fresh' /\ Grows /\ AckMeansDelivered'
         /\ Forgets => Ledger'
<1>1. CASE AnnounceRoutes(n)
  <2>1. PICK routes \in Computable(n) :
          Say("RT", n, Broadcast, [gateway |-> n, routes |-> routes])
    BY <1>1 DEF AnnounceRoutes
  <2>2. "RT" \notin AckTypes
    BY DEF AckTypes
  <2> QED
    BY <2>1, <2>2, SayKeeps
<1>2. CASE air' = air /\ nextMid' = nextMid
  BY <1>2, SilenceKeeps
<1> QED
  BY <1>1, <1>2

-----------------------------------------------------------------------------
(* The ledger survives every step.                                         *)

(* The two calls of the UI thread: a packet, and its mid awaited.          *)
LEMMA UiKeepsLedger ==
  ASSUME NoCollision, TypeOK, Ledger, NEW n \in Daemons, NEW type,
         type \notin AckTypes, NEW dst, NEW body, NEW mid \in DrawMid,
         Send(type, n, dst, mid, body), ui' = [ui EXCEPT ![n] = mid],
         UNCHANGED <<pending, inbox, rx, delivered>>
  PROVE  Ledger'
<1>1. Fresh' /\ mid = nextMid /\ Sent' = Sent \cup {<<nextMid, n>>}
  BY SendFresh DEF Ledger
<1>2. Grows /\ AckMeansDelivered'
  BY SayKeeps DEF Say
<1>3. RxSent' /\ InboxTaken' /\ DeliveredSent'
  BY <1>2, ForgettingKeeps
<1>4. ASSUME NEW m \in Daemons, NEW k \in Awaited(m)' PROVE <<k, m>> \in Sent'
  <2>1. k \in Awaited(m) \/ (m = n /\ k = mid)
    BY <1>4 DEF Awaited, TypeOK
  <2> QED
    BY <1>1, <2>1 DEF Ledger, OwnSent
<1>5. OwnSent'
  BY <1>4 DEF OwnSent
<1> QED
  BY <1>1, <1>2, <1>3, <1>5 DEF Ledger

LEMMA HearKeepsLedger ==
  ASSUME NoCollision, TypeOK, Ledger, NEW n \in Daemons,
         NEW p \in air, NEW q \in Arrivals(p), Hear(n, q)
  PROVE  Ledger'
<1>1. /\ AnnounceRoutes(n) \/ (air' = air /\ nextMid' = nextMid)
      /\ rx' = [rx EXCEPT ![n] = q]
      /\ UNCHANGED <<ui, pending, inbox, delivered>>
  BY DEF Hear, HearAsRoot
<1>2. Fresh' /\ Grows /\ AckMeansDelivered'
  BY <1>1, AnnounceKeeps
<1>3. OwnSent' /\ InboxTaken' /\ DeliveredSent'
  BY <1>1, <1>2, ForgettingKeeps DEF Awaited
<1>4. Key(q) \in Sent /\ Truthful(q)
  <2>1. p \in Packet
    BY DEF TypeOK
  <2>2. /\ q.type = p.type /\ q.src = p.src /\ q.dst = p.dst
        /\ q.mid = p.mid /\ q.body = p.body
    BY <2>1, ArrivalIsPacket
  <2>3. Key(p) \in Sent /\ Truthful(p)
    BY DEF Sent, Ledger, AckMeansDelivered, Truthful
  <2> QED
    BY <2>2, <2>3 DEF Key, Truthful
<1>5. RxSent'
  BY <1>1, <1>2, <1>4 DEF Ledger, RxSent, Truthful, Grows, TypeOK
<1> QED
  BY <1>2, <1>3, <1>5 DEF Ledger

(* Taking in a packet and acknowledging it.                                *)
LEMMA AckingKeeps ==
  ASSUME NoCollision, TypeOK, Ledger, NEW n \in Daemons, NEW type,
         ~Idle(n), Say(type, n, rx[n].src, AckOf(rx[n])),
         rx' = [rx EXCEPT ![n] = None], ui' = ui, pending' = pending,
         delivered' = delivered \cup {<<n, rx[n].src, rx[n].mid>>}
  PROVE  /\ Fresh' /\ RxSent' /\ OwnSent' /\ DeliveredSent' /\ Grows
         /\ AckMeansDelivered'
<1> DEFINE p == rx[n]
           ack == NewPacket(type, n, p.src, nextMid, AckOf(p))
<1>1. /\ Fresh' /\ Sent' = Sent \cup {<<nextMid, n>>}
      /\ air' = air \cup {ack}
  BY SayFresh DEF Ledger
<1>2. Grows
  BY <1>1 DEF Grows
<1>3. RxSent' /\ OwnSent'
  BY <1>2, ForgettingKeeps DEF Awaited, TypeOK
<1>4. <<p.mid, p.src>> \in Sent
  BY DEF Ledger, RxSent, Idle, Key
<1>5. DeliveredSent'
  <2>1. \A d \in delivered : <<d[3], d[2]>> \in Sent'
    BY <1>1 DEF Ledger, DeliveredSent
  <2>2. <<p.mid, p.src>> \in Sent'
    BY <1>1, <1>4
  <2>3. ASSUME NEW d, d = <<n, p.src, p.mid>> PROVE <<d[3], d[2]>> \in Sent'
    BY <2>2, <2>3
  <2>4. \A d \in delivered' : <<d[3], d[2]>> \in Sent'
    BY <2>1, <2>3
  <2> QED
    BY <2>4 DEF DeliveredSent
<1>6. ack.src = n /\ ack.dst = p.src /\ ack.body.acked = p.mid
  BY DEF NewPacket, AckOf
<1>7. AckMeansDelivered'
  BY <1>1, <1>6 DEF Ledger, AckMeansDelivered
<1> QED
  BY <1>1, <1>2, <1>3, <1>5, <1>7

(* A message whose mid is in the inbox was delivered from its own sender,  *)
(* because no other node drew that mid.                                    *)
LEMMA InInboxMeansDelivered ==
  ASSUME TypeOK, Ledger, NEW n \in Daemons, ~Idle(n), InInbox(n, rx[n].mid)
  PROVE  <<n, rx[n].src, rx[n].mid>> \in delivered
<1>1. PICK i \in DOMAIN inbox[n] : inbox[n][i].mid = rx[n].mid
  BY DEF InInbox
<1>2. <<n, inbox[n][i].from, inbox[n][i].mid>> \in delivered
  BY DEF Ledger, InboxTaken
<1>3. <<inbox[n][i].mid, inbox[n][i].from>> \in Sent
  BY <1>2 DEF Ledger, DeliveredSent
<1>4. <<rx[n].mid, rx[n].src>> \in Sent
  BY DEF Ledger, RxSent, Idle, Key
<1>5. inbox[n][i].from = rx[n].src
  BY <1>1, <1>3, <1>4 DEF Ledger, Fresh
<1> QED
  BY <1>1, <1>2, <1>5

LEMMA DeliverKeepsLedger ==
  ASSUME NoCollision, TypeOK, Ledger, NEW n \in Daemons, DeliverMsg(n)
  PROVE  Ledger'
<1> DEFINE p == rx[n]
           entry == [from |-> p.src, mid |-> p.mid, text |-> p.body.text]
<1>1. /\ ~Idle(n) /\ rx' = [rx EXCEPT ![n] = None] /\ ui' = ui
      /\ pending' = pending
      /\ Say("MSG_ACK", n, p.src, AckOf(p))
  BY DEF DeliverMsg, Dispatch, Finish
<1>2. delivered' = delivered \cup {<<n, p.src, p.mid>>}
  BY <1>1, InInboxMeansDelivered DEF DeliverMsg
<1>3. /\ Fresh' /\ RxSent' /\ OwnSent' /\ DeliveredSent' /\ Grows
      /\ AckMeansDelivered'
  BY <1>1, <1>2, AckingKeeps
<1>4. CASE inbox' = inbox
  BY <1>3, <1>4, ForgettingKeeps DEF Ledger
<1>5. CASE inbox' = [inbox EXCEPT ![n] = Append(@, entry)]
  <2>1. inbox[n] \in Seq([from : Node, mid : Nat, text : Text])
    BY DEF TypeOK
  <2>2. ASSUME NEW i \in DOMAIN Append(inbox[n], entry)
        PROVE  \/ i \in DOMAIN inbox[n] /\ Append(inbox[n], entry)[i] = inbox[n][i]
               \/ Append(inbox[n], entry)[i] = entry
    BY <2>1
  <2>3. ASSUME NEW m \in Daemons, NEW i \in DOMAIN inbox'[m]
        PROVE  <<m, inbox'[m][i].from, inbox'[m][i].mid>> \in delivered'
    <3>1. CASE m = n
      <4>1. inbox'[m] = Append(inbox[n], entry)
        BY <1>5, <3>1 DEF TypeOK
      <4>2. CASE i \in DOMAIN inbox[n] /\ inbox'[m][i] = inbox[n][i]
        BY <1>2, <3>1, <4>2 DEF Ledger, InboxTaken
      <4>3. CASE inbox'[m][i] = entry
        BY <1>2, <3>1, <4>3
      <4> QED
        BY <2>2, <2>3, <4>1, <4>2, <4>3
    <3>2. CASE m # n
      <4>1. inbox'[m] = inbox[m]
        BY <1>5, <3>2 DEF TypeOK
      <4> QED
        BY <1>2, <2>3, <4>1 DEF Ledger, InboxTaken
    <3> QED
      BY <3>1, <3>2
  <2> QED
    BY <1>3, <2>3 DEF Ledger, InboxTaken
<1> QED
  BY <1>4, <1>5 DEF DeliverMsg

LEMMA HandleStateKeepsLedger ==
  ASSUME NoCollision, TypeOK, Ledger, NEW n \in Daemons, HandleState(n)
  PROVE  Ledger'
<1>1. /\ ~Idle(n) /\ rx' = [rx EXCEPT ![n] = None] /\ ui' = ui
      /\ UNCHANGED <<pending, inbox>>
      /\ delivered' = delivered \cup {<<n, rx[n].src, rx[n].mid>>}
      /\ Say("ACK", n, rx[n].src, AckOf(rx[n]))
  BY DEF HandleState, Dispatch, Finish
<1>2. /\ Fresh' /\ RxSent' /\ OwnSent' /\ DeliveredSent' /\ Grows
      /\ AckMeansDelivered'
  BY <1>1, AckingKeeps
<1> QED
  BY <1>1, <1>2, ForgettingKeeps DEF Ledger

(* A copy that a daemon passes on has the key of the packet it copies.     *)
LEMMA OverhearKeepsLedger ==
  ASSUME TypeOK, Ledger, NEW n \in Daemons, OverhearMsg(n)
  PROVE  Ledger'
<1> DEFINE p == rx[n]
<1>1. /\ ~Idle(n) /\ p \in Packet /\ p.type = "MSG"
      /\ rx' = [rx EXCEPT ![n] = None] /\ ui' = ui
      /\ UNCHANGED <<nextMid, pending, inbox, delivered>>
      /\ air' = air \cup Forwarded(n, p, Marked(n, p))
  BY DispatchTyped DEF OverhearMsg, Dispatch, Finish
<1>2. ASSUME NEW q \in Forwarded(n, p, Marked(n, p))
      PROVE  Key(q) = Key(p) /\ q.type \notin AckTypes
  <2>1. \E next : q = [p EXCEPT !.hops = @ + 1, !.ttl = @ - 1,
                                !.body = [@ EXCEPT !.next = next]]
    BY DEF Forwarded
  <2>2. q.mid = p.mid /\ q.src = p.src /\ q.type = p.type
    BY <1>1, <2>1 DEF Packet, Packets
  <2> QED
    BY <1>1, <2>2 DEF Key, AckTypes
<1>3. Key(p) \in Sent
  BY <1>1 DEF Ledger, RxSent, Idle
<1>4. Sent' = Sent
  BY <1>1, <1>2, <1>3 DEF Sent
<1>5. Grows /\ Fresh' /\ AckMeansDelivered'
  BY <1>1, <1>2, <1>4 DEF Grows, Ledger, Fresh, AckMeansDelivered
<1>6. Forgets
  BY <1>1 DEF Forgets, Awaited, TypeOK
<1> QED
  BY <1>1, <1>5, <1>6, ForgettingKeeps DEF Ledger, Forgets

LEMMA RxDispatchKeepsLedger ==
  ASSUME NoCollision, TypeOK, Ledger, NEW n \in Daemons, RxDispatch(n)
  PROVE  Ledger'
<1>1. CASE HandleState(n) \/ DeliverMsg(n) \/ OverhearMsg(n)
  BY <1>1, HandleStateKeepsLedger, DeliverKeepsLedger, OverhearKeepsLedger
<1>2. CASE HandlePing(n)
  <2>1. Say("PONG", n, rx[n].src, None) /\ delivered' = delivered
    BY <1>2 DEF HandlePing
  <2>2. Forgets
    BY <1>2 DEF HandlePing, Dispatch, Finish, Forgets, Awaited, TypeOK
  <2>3. "PONG" \notin AckTypes
    BY DEF AckTypes
  <2> QED
    BY <2>1, <2>2, <2>3, SayKeeps
<1>3. CASE HandleRouting(n)
  <2>1. AnnounceRoutes(n) \/ (air' = air /\ nextMid' = nextMid)
    BY <1>3 DEF HandleRouting, HearAsRoot
  <2>2. Forgets /\ delivered' = delivered
    BY <1>3 DEF HandleRouting, Dispatch, Finish, Forgets, Awaited, TypeOK
  <2> QED
    BY <2>1, <2>2, AnnounceKeeps
<1>4. CASE DropDuplicate(n) \/ HandleHello(n) \/ HandleAck(n) \/ HandleRt(n)
           \/ HandleOther(n)
  <2>1. /\ air' = air /\ nextMid' = nextMid /\ delivered' = delivered
        /\ rx' = [rx EXCEPT ![n] = None] /\ ui' = ui /\ inbox' = inbox
    BY <1>4 DEF DropDuplicate, HandleHello, HandleAck, HandleRt, HandleOther,
                Dispatch, Finish
  <2>2. \A m \in Daemons : pending'[m] \subseteq pending[m]
    <3>1. CASE HandleAck(n)
      BY <3>1 DEF HandleAck, TypeOK
    <3>2. CASE ~HandleAck(n)
      BY <1>4, <3>2 DEF DropDuplicate, HandleHello, HandleRt, HandleOther
    <3> QED
      BY <3>1, <3>2
  <2>3. Forgets
    BY <2>1, <2>2 DEF Forgets, Awaited, TypeOK
  <2> QED
    BY <2>1, <2>3, SilenceKeeps
<1> QED
  BY <1>1, <1>2, <1>3, <1>4 DEF RxDispatch

(* What the periodic threads and the timer send acknowledges nothing.      *)
LEMMA PeriodicKeepsLedger ==
  ASSUME NoCollision, TypeOK, Ledger, NEW n \in Node, NEW kind \in Plain,
         PeriodicBroadcast(n, kind)
  PROVE  Ledger'
<1>1. kind \notin AckTypes
  BY DEF Plain, AckTypes
<1>2. /\ Say(kind, n, Broadcast, None) /\ delivered' = delivered
      /\ Forgets
  BY DEF PeriodicBroadcast, Forgets, Awaited
<1> QED
  BY <1>1, <1>2, SayKeeps

LEMMA BackgroundKeepsLedger ==
  ASSUME NoCollision, TypeOK, Ledger, NEW n \in Daemons,
         \/ RecordPending(n) \/ RouteBroadcast(n) \/ RequestRouteTable(n)
         \/ ExpireScan(n) \/ ScanDies(n) \/ ExpireRoutes(n)
         \/ (\E m \in Node : PeerFades(n, m)) \/ Restart(n)
  PROVE  Ledger'
<1>1. CASE RecordPending(n)
  <2>1. UNCHANGED <<air, nextMid, delivered, rx, inbox>>
    BY <1>1 DEF RecordPending
  <2>2. \A m \in Daemons : Awaited(m)' \subseteq Awaited(m)
    BY <1>1 DEF RecordPending, Awaited, TypeOK
  <2> QED
    BY <2>1, <2>2, SilenceKeeps DEF Forgets
<1>2. CASE RouteBroadcast(n)
  <2>1. AnnounceRoutes(n) /\ UNCHANGED <<delivered, rx, inbox, pending, ui>>
    BY <1>2 DEF RouteBroadcast
  <2> QED
    BY <2>1, AnnounceKeeps DEF Forgets, Awaited
<1>3. CASE RequestRouteTable(n)
  <2>1. /\ Say("ROUTE_REQ", n, Broadcast, None)
        /\ UNCHANGED <<delivered, rx, inbox, pending, ui>>
    BY <1>3 DEF RequestRouteTable
  <2>2. "ROUTE_REQ" \notin AckTypes
    BY DEF AckTypes
  <2> QED
    BY <2>1, <2>2, SayKeeps DEF Forgets, Awaited
<1>4. CASE ExpireScan(n) \/ ScanDies(n) \/ ExpireRoutes(n)
  <2>1. /\ UNCHANGED <<air, nextMid, delivered, rx, inbox, ui>>
        /\ \A m \in Daemons : pending'[m] \subseteq pending[m]
    BY <1>4 DEF ExpireScan, ScanDies, ExpireRoutes, TypeOK
  <2> QED
    BY <2>1, SilenceKeeps DEF Forgets, Awaited
<1>5. CASE \E m \in Node : PeerFades(n, m)
  <2>1. UNCHANGED <<air, nextMid, delivered, rx, inbox, pending, ui>>
    BY <1>5 DEF PeerFades
  <2> QED
    BY <2>1, SilenceKeeps DEF Forgets, Awaited
<1>6. CASE Restart(n)
  <2>1. UNCHANGED <<air, nextMid, delivered>>
    BY <1>6 DEF Restart
  <2>2. Forgets
    BY <1>6 DEF Restart, Forgets, Awaited, TypeOK
  <2> QED
    BY <2>1, <2>2, SilenceKeeps
<1> QED
  BY <1>1, <1>2, <1>3, <1>4, <1>5, <1>6

LEMMA InitLedger == Init => Ledger
BY DEF Init, Ledger, Fresh, Sent, RxSent, OwnSent, Awaited, InboxTaken,
       DeliveredSent, AckMeansDelivered

LEMMA NextLedger ==
  ASSUME NoCollision, TypeOK, Ledger, [Next]_vars
  PROVE  Ledger'
<1>1. ASSUME NEW n \in Daemons, DaemonStep(n) PROVE Ledger'
  <2>1. ASSUME NEW to \in Recipients, NEW text \in Text, SendMessage(n, to, text)
        PROVE  Ledger'
    <3>1. PICK mid \in DrawMid :
            /\ Send("MSG", n, to, mid, [next |-> NextHop(n, to), text |-> text])
            /\ ui' = [ui EXCEPT ![n] = mid]
      BY <2>1 DEF SendMessage
    <3>2. "MSG" \notin AckTypes /\ UNCHANGED <<pending, inbox, rx, delivered>>
      BY <2>1 DEF SendMessage, AckTypes
    <3> QED
      BY <3>1, <3>2, UiKeepsLedger
  <2>2. ASSUME NEW name \in StatusName, BroadcastState(n, name) PROVE Ledger'
    <3>1. "STATE" \notin AckTypes /\ UNCHANGED <<pending, inbox, rx, delivered>>
      BY <2>2 DEF BroadcastState, AckTypes
    <3>2. CASE UNCHANGED <<air, nextMid, ui>>
      BY <3>1, <3>2, SilenceKeeps DEF Forgets, Awaited
    <3>3. CASE \E mid \in DrawMid :
                 /\ Send("STATE", n, Broadcast, mid, [status |-> Coded[name]])
                 /\ ui' = [ui EXCEPT ![n] = mid]
      BY <3>1, <3>3, UiKeepsLedger
    <3> QED
      BY <2>2, <3>2, <3>3 DEF BroadcastState
  <2>3. CASE BroadcastHello(n) \/ BroadcastPing(n) \/ ReportLinks(n)
    <3>1. n \in Node /\ \A kind \in {"HELLO", "PING", "LINK"} : kind \in Plain
      BY DEF Plain
    <3>2. \E kind \in {"HELLO", "PING", "LINK"} : PeriodicBroadcast(n, kind)
      BY <2>3 DEF BroadcastHello, BroadcastPing, ReportLinks
    <3> QED
      BY <3>1, <3>2, PeriodicKeepsLedger
  <2>4. CASE \/ RecordPending(n) \/ RouteBroadcast(n) \/ RequestRouteTable(n)
             \/ ExpireScan(n) \/ ScanDies(n) \/ ExpireRoutes(n)
             \/ (\E m \in Node : PeerFades(n, m)) \/ Restart(n)
    BY <2>4, BackgroundKeepsLedger
  <2>5. CASE \E p \in air : \E copy \in Arrivals(p) : Hear(n, copy)
    BY <2>5, HearKeepsLedger
  <2>6. CASE RxDispatch(n)
    BY <2>6, RxDispatchKeepsLedger
  <2> QED
    BY <1>1, <2>1, <2>2, <2>3, <2>4, <2>5, <2>6 DEF DaemonStep
<1>2. ASSUME NEW relay \in Node \ Daemons, RelayBeacon(relay) PROVE Ledger'
  BY <1>2, PeriodicKeepsLedger DEF RelayBeacon, Plain
<1>3. CASE UNCHANGED vars
  BY <1>3, SilenceKeeps DEF vars, Forgets, Awaited
<1> QED
  BY <1>1, <1>2, <1>3 DEF Next

-----------------------------------------------------------------------------
(* How an entry leaves _pending.                                           *)

(* Of the steps that end a dispatch only an ack takes a mid from _pending. *)
LEMMA OnlyAcksClear ==
  ASSUME TypeOK, [Next]_vars, NEW n \in Daemons, NEW mid \in pending[n],
         mid \notin pending'[n], ~Idle(n), restarts' = restarts, rx'[n] = None
  PROVE  HandleAck(n)
<1>1. rx' # rx /\ pending'[n] # pending[n] /\ vars' # vars
  BY DEF Idle, vars
<1>2. ASSUME NEW relay \in Node \ Daemons, RelayBeacon(relay) PROVE FALSE
  BY <1>1, <1>2 DEF RelayBeacon, PeriodicBroadcast
<1>3. PICK a \in Daemons : DaemonStep(a)
  BY <1>1, <1>2 DEF Next
<1>4. ~Restart(a)
  BY DEF Restart, TypeOK
<1>5. /\ \A to \in Recipients, text \in Text : ~SendMessage(a, to, text)
      /\ \A name \in StatusName : ~BroadcastState(a, name)
      /\ ~RecordPending(a) /\ ~BroadcastHello(a) /\ ~BroadcastPing(a)
      /\ ~ReportLinks(a) /\ ~RouteBroadcast(a) /\ ~RequestRouteTable(a)
      /\ ~ExpireScan(a) /\ ~ScanDies(a) /\ ~ExpireRoutes(a)
      /\ \A m \in Node : ~PeerFades(a, m)
  BY <1>1 DEF SendMessage, BroadcastState, RecordPending, BroadcastHello,
              BroadcastPing, ReportLinks, RouteBroadcast, RequestRouteTable,
              PeriodicBroadcast, ExpireScan, ScanDies, ExpireRoutes, PeerFades
<1>6. \A p \in air : \A copy \in Arrivals(p) : ~Hear(a, copy)
  BY <1>1 DEF Hear
<1>7. RxDispatch(a)
  BY <1>3, <1>4, <1>5, <1>6 DEF DaemonStep
<1>8. HandleAck(a)
  BY <1>1, <1>7 DEF RxDispatch, DropDuplicate, HandleHello, HandlePing,
        HandleState, HandleRouting, HandleRt, HandleOther, DeliverMsg, OverhearMsg
<1>9. a = n
  BY <1>1, <1>8 DEF HandleAck, TypeOK
<1> QED
  BY <1>8, <1>9

-----------------------------------------------------------------------------
(* The theorems.                                                           *)

(* The ledger is balanced in every reachable state.                        *)
THEOREM LedgerKept == ASSUME NoCollision PROVE Spec => []Ledger
  BY InitLedger, NextLedger, TypeCorrect, PTL DEF Spec

(* An ACK or MSG_ACK is sent only by a node that has taken in the packet   *)
(* it names from the node it is addressed to, for any number of nodes,     *)
(* hops, packets, expiries and restarts.                                   *)
THEOREM AcksAreTrue == ASSUME NoCollision PROVE Spec => []AckMeansDelivered
<1>1. Ledger => AckMeansDelivered
  BY DEF Ledger
<1> QED
  BY <1>1, LedgerKept, PTL

(* An ack that clears an entry of _pending acknowledged that very message  *)
(* of this node: the rx thread never drops a message nobody has.           *)
THEOREM ClearedMeansDelivered ==
  ASSUME NoCollision PROVE Spec => PendingClearedByDelivery
<1>1. ASSUME TypeOK, Ledger, [Next]_vars, NEW n \in Daemons,
             NEW mid \in pending[n] \ pending'[n],
             ~Idle(n), restarts' = restarts, rx'[n] = None
      PROVE  \E q \in Daemons : <<q, n, mid>> \in delivered
  <2>1. HandleAck(n)
    BY <1>1, OnlyAcksClear
  <2>2. /\ rx[n].type \in AckTypes /\ rx[n].body.acked = mid
    BY <1>1, <2>1 DEF HandleAck, Dispatch, TypeOK
  <2>3. <<rx[n].src, rx[n].dst, mid>> \in delivered
    BY <1>1, <2>2 DEF Ledger, RxSent, Truthful, Idle
  <2>4. <<mid, rx[n].dst>> \in Sent
    BY <1>1, <2>3 DEF Ledger, DeliveredSent
  <2>5. mid \in Awaited(n)
    <3>1. mid \in Nat
      BY <1>1 DEF TypeOK
    <3>2. mid # None
      BY <3>1
    <3> QED
      BY <1>1, <3>2 DEF Awaited
  <2>6. <<mid, n>> \in Sent
    BY <1>1, <2>5 DEF Ledger, OwnSent
  <2>7. rx[n].dst = n
    BY <1>1, <2>4, <2>6 DEF Ledger, Fresh
  <2> QED
    BY <1>1, <2>3, <2>7 DEF TypeOK
<1>2. TypeOK /\ Ledger /\ [Next]_vars =>
        [\A n \in Daemons : \A mid \in pending[n] \ pending'[n] :
           (~Idle(n) /\ restarts' = restarts /\ rx'[n] = None) =>
             \E q \in Daemons : <<q, n, mid>> \in delivered]_vars
  BY <1>1
<1> QED
  BY <1>2, LedgerKept, TypeCorrect, PTL DEF Spec, PendingClearedByDelivery
=============================================================================
