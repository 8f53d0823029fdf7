---------------------- MODULE DarkNetMeshContentProofs ----------------------
(***************************************************************************)
(* What packets carry and what daemons make of it, proved for every mesh:  *)
(* copies, inboxes, statuses and route tables.  The last three follow from *)
(* what a daemon knows of the air (Source): the packet in its rx thread is *)
(* a copy of one that was transmitted.                                     *)
(***************************************************************************)
EXTENDS DarkNetMeshAckProofs

-----------------------------------------------------------------------------
(* What a step can do to the air.                                          *)

(* The forwarding half of _handle_msg finds its own mark.                  *)
LEMMA NothingForwarded ==
  ASSUME NEW n, NEW p
  PROVE  Forwarded(n, p, Marked(n, p)) = {}
BY DEF Forwarded, Marked

Spoken == \E type, src, dst, body : Say(type, src, dst, body)

LEMMA Announcement ==
  ASSUME NEW n, AnnounceRoutes(n)
  PROVE  Spoken
BY DEF AnnounceRoutes, Spoken

LEMMA PeriodicSpeaks ==
  ASSUME NEW n, NEW kind, PeriodicBroadcast(n, kind)
  PROVE  Spoken
BY DEF PeriodicBroadcast, Spoken

(* A dispatch says one packet or none.                                     *)
LEMMA DispatchOnAir ==
  ASSUME NEW n \in Daemons, RxDispatch(n)
  PROVE  Spoken \/ UNCHANGED <<air, nextMid>>
<1>1. CASE DropDuplicate(n) \/ HandleHello(n) \/ HandleAck(n) \/ HandleRt(n) \/ HandleOther(n)
  BY <1>1 DEF DropDuplicate, HandleHello, HandleAck, HandleRt, HandleOther
<1>2. CASE HandlePing(n)
  BY <1>2 DEF HandlePing, Spoken
<1>3. CASE HandleState(n)
  BY <1>3 DEF HandleState, Spoken
<1>4. CASE HandleRouting(n)
  BY <1>4, Announcement DEF HandleRouting, HearAsRoot
<1>5. CASE DeliverMsg(n)
  BY <1>5 DEF DeliverMsg, Spoken
<1>6. CASE OverhearMsg(n)
  BY <1>6, NothingForwarded DEF OverhearMsg
<1> QED
  BY <1>1, <1>2, <1>3, <1>4, <1>5, <1>6 DEF RxDispatch

LEMMA StepOnAir ==
  ASSUME [Next]_vars
  PROVE  Spoken \/ UNCHANGED <<air, nextMid>>
<1>1. ASSUME NEW n \in Daemons, DaemonStep(n)
      PROVE  Spoken \/ UNCHANGED <<air, nextMid>>
  <2>1. CASE \E to \in Recipients, text \in Text : SendMessage(n, to, text)
    BY <2>1 DEF SendMessage, Spoken, Say
  <2>2. CASE \E name \in StatusName : BroadcastState(n, name)
    BY <2>2 DEF BroadcastState, Spoken, Say
  <2>3. CASE BroadcastHello(n) \/ BroadcastPing(n) \/ ReportLinks(n)
    BY <2>3, PeriodicSpeaks DEF BroadcastHello, BroadcastPing, ReportLinks
  <2>4. CASE RouteBroadcast(n)
    BY <2>4, Announcement DEF RouteBroadcast
  <2>5. CASE RequestRouteTable(n)
    BY <2>5 DEF RequestRouteTable, Spoken
  <2>6. CASE \/ RecordPending(n) \/ ExpireScan(n) \/ ScanDies(n) \/ ExpireRoutes(n)
             \/ (\E m \in Node : PeerFades(n, m)) \/ Restart(n)
    BY <2>6 DEF RecordPending, ExpireScan, ScanDies, ExpireRoutes, PeerFades, Restart
  <2>7. CASE \E p \in air : \E copy \in Arrivals(p) : Hear(n, copy)
    BY <2>7, Announcement DEF Hear, HearAsRoot
  <2>8. CASE RxDispatch(n)
    BY <2>8, DispatchOnAir
  <2> QED
    BY <1>1, <2>1, <2>2, <2>3, <2>4, <2>5, <2>6, <2>7, <2>8 DEF DaemonStep
<1>2. ASSUME NEW relay \in Node \ Daemons, RelayBeacon(relay)
      PROVE  Spoken
  BY <1>2, PeriodicSpeaks DEF RelayBeacon
<1>3. CASE UNCHANGED vars
  BY <1>3 DEF vars
<1> QED
  BY <1>1, <1>2, <1>3 DEF Next

LEMMA AirGrows ==
  ASSUME [Next]_vars
  PROVE  air \subseteq air'
BY StepOnAir DEF Spoken, Say, Send

-----------------------------------------------------------------------------
(* Copies.                                                                 *)

(* All packets with one key have one content.                              *)
LEMMA CopiesKept ==
  ASSUME NoCollision, TypeOK, Fresh, CopiesAgree, [Next]_vars
  PROVE  CopiesAgree'
<1>1. CASE UNCHANGED air
  BY <1>1 DEF CopiesAgree
<1>2. ASSUME NEW type, NEW src, NEW dst, NEW body, Say(type, src, dst, body)
      PROVE  CopiesAgree'
  <2> DEFINE new == NewPacket(type, src, dst, nextMid, body)
  <2>1. air' = air \cup {new}
    BY <1>2, SayFresh
  <2>2. new.hops + new.ttl = MaxHops /\ Key(new) = <<nextMid, src>>
    BY MeshAssumption DEF NewPacket, Key
  <2>3. \A p \in air : Key(p) # Key(new)
    <3>1. ASSUME NEW p \in air PROVE Key(p)[1] < nextMid
      BY DEF Fresh, Sent
    <3>2. nextMid \in Nat
      BY DEF TypeOK
    <3> QED
      BY <2>2, <3>1, <3>2
  <2> HIDE DEF new
  <2> QED
    BY <2>1, <2>2, <2>3 DEF CopiesAgree
<1> QED
  BY <1>1, <1>2, StepOnAir DEF Spoken

-----------------------------------------------------------------------------
(* Who changes what a daemon knows.                                        *)

(* The steps that leave inbox, statuses and route table alone.             *)
Indifferent(a) ==
  \/ \E to \in Recipients, text \in Text : SendMessage(a, to, text)
  \/ RecordPending(a) \/ BroadcastHello(a) \/ BroadcastPing(a) \/ ReportLinks(a)
  \/ RequestRouteTable(a) \/ ExpireScan(a) \/ ScanDies(a)
  \/ (\E m \in Node : PeerFades(a, m))
  \/ DropDuplicate(a) \/ HandleHello(a) \/ HandlePing(a) \/ HandleAck(a)
  \/ HandleOther(a) \/ OverhearMsg(a)

LEMMA IndifferentIsStill ==
  ASSUME NEW a, Indifferent(a)
  PROVE  UNCHANGED <<inbox, shown, table>>
<1>1. CASE \/ \E to \in Recipients, text \in Text : SendMessage(a, to, text)
           \/ RecordPending(a) \/ BroadcastHello(a) \/ BroadcastPing(a) \/ ReportLinks(a)
           \/ RequestRouteTable(a) \/ ExpireScan(a) \/ ScanDies(a)
           \/ \E m \in Node : PeerFades(a, m)
  BY <1>1 DEF SendMessage, RecordPending, BroadcastHello, BroadcastPing, ReportLinks,
              PeriodicBroadcast, RequestRouteTable, ExpireScan, ScanDies, PeerFades
<1>2. CASE \/ DropDuplicate(a) \/ HandleHello(a) \/ HandlePing(a) \/ HandleAck(a)
           \/ HandleOther(a) \/ OverhearMsg(a)
  BY <1>2 DEF DropDuplicate, HandleHello, HandlePing, HandleAck, HandleOther, OverhearMsg
<1> QED
  BY <1>1, <1>2 DEF Indifferent

Informed(a) ==
  \/ (\E name \in StatusName : BroadcastState(a, name))
  \/ RouteBroadcast(a) \/ ExpireRoutes(a)
  \/ (\E p \in air : \E copy \in Arrivals(p) : Hear(a, copy))
  \/ HandleState(a) \/ HandleRouting(a) \/ HandleRt(a) \/ DeliverMsg(a)
  \/ Restart(a)

LEMMA InformedOrStill ==
  ASSUME [Next]_vars
  PROVE  UNCHANGED <<inbox, shown, table>> \/ \E a \in Daemons : Informed(a)
<1>1. ASSUME NEW a \in Daemons, DaemonStep(a)
      PROVE  Indifferent(a) \/ Informed(a)
  BY <1>1, Zenon DEF DaemonStep, RxDispatch, Indifferent, Informed
<1>2. ASSUME NEW relay, RelayBeacon(relay)
      PROVE  UNCHANGED <<inbox, shown, table>>
  BY <1>2 DEF RelayBeacon, PeriodicBroadcast
<1>3. CASE UNCHANGED vars
  BY <1>3 DEF vars
<1> QED
  BY <1>1, <1>2, <1>3, IndifferentIsStill DEF Next

-----------------------------------------------------------------------------
(* The packet in the rx thread.                                            *)

Copied(q) ==
  \E p \in air : /\ p.src = q.src /\ p.mid = q.mid /\ p.type = q.type
                 /\ p.dst = q.dst /\ p.body = q.body

Source == \A n \in Daemons : rx[n] # None => Copied(rx[n])

LEMMA StaysCopied ==
  ASSUME [Next]_vars, NEW q, Copied(q)
  PROVE  Copied(q)'
BY AirGrows DEF Copied

LEMMA ArrivalIsCopied ==
  ASSUME TypeOK, NEW p \in air, NEW q \in Arrivals(p)
  PROVE  Copied(q)
BY ArrivalIsPacket DEF Copied, TypeOK

(* A packet is put into the rx thread by Hear, and taken out again.        *)
LEMMA RxChanges ==
  ASSUME TypeOK, [Next]_vars, NEW n \in Daemons
  PROVE  \/ rx'[n] \in {rx[n], None}
         \/ \E p \in air : \E q \in Arrivals(p) : Hear(n, q) /\ rx'[n] = q
<1>1. ASSUME NEW a \in Daemons, DaemonStep(a)
      PROVE  \/ rx'[n] \in {rx[n], None}
             \/ \E p \in air : \E q \in Arrivals(p) : Hear(n, q) /\ rx'[n] = q
  <2>1. CASE \/ \E to \in Recipients, text \in Text : SendMessage(a, to, text)
             \/ (\E name \in StatusName : BroadcastState(a, name))
             \/ RecordPending(a) \/ BroadcastHello(a) \/ BroadcastPing(a)
             \/ ReportLinks(a) \/ RouteBroadcast(a) \/ RequestRouteTable(a)
             \/ ExpireScan(a) \/ ScanDies(a) \/ ExpireRoutes(a)
             \/ \E m \in Node : PeerFades(a, m)
    BY <2>1 DEF SendMessage, BroadcastState, RecordPending, BroadcastHello, BroadcastPing,
                ReportLinks, PeriodicBroadcast, RouteBroadcast, RequestRouteTable,
                ExpireScan, ScanDies, ExpireRoutes, PeerFades
  <2>2. CASE RxDispatch(a) \/ Restart(a)
    <3>1. rx' = [rx EXCEPT ![a] = None]
      BY <2>2 DEF RxDispatch, DropDuplicate, HandleHello, HandlePing, HandleState,
                  HandleAck, HandleRouting, HandleRt, HandleOther, DeliverMsg,
                  OverhearMsg, Dispatch, Finish, Restart
    <3> QED
      BY <3>1 DEF TypeOK
  <2>3. ASSUME NEW p \in air, NEW q \in Arrivals(p), Hear(a, q)
        PROVE  \/ rx'[n] \in {rx[n], None}
               \/ Hear(n, q) /\ rx'[n] = q
    BY <2>3 DEF Hear, TypeOK
  <2> QED
    BY <1>1, <2>1, <2>2, <2>3 DEF DaemonStep
<1>2. ASSUME NEW relay, RelayBeacon(relay)
      PROVE  rx' = rx
  BY <1>2 DEF RelayBeacon, PeriodicBroadcast
<1>3. CASE UNCHANGED vars
  BY <1>3 DEF vars
<1> QED
  BY <1>1, <1>2, <1>3 DEF Next

LEMMA SourceKept ==
  ASSUME TypeOK, Source, [Next]_vars
  PROVE  Source'
<1> SUFFICES ASSUME NEW n \in Daemons, rx'[n] # None
             PROVE  Copied(rx[n])'
  BY DEF Source
<1>1. CASE rx'[n] = rx[n]
  <2>1. Copied(rx[n])
    BY <1>1 DEF Source
  <2> QED
    BY <1>1, <2>1, AirGrows DEF Copied
<1>2. CASE \E p \in air : \E q \in Arrivals(p) : rx'[n] = q
  BY <1>2, ArrivalIsCopied, AirGrows DEF Copied
<1> QED
  BY <1>1, <1>2, RxChanges

-----------------------------------------------------------------------------
(* The inbox.                                                              *)

Genuine(n, e) ==
  \E p \in air : /\ p.type = "MSG" /\ p.dst = n /\ p.src = e.from
                 /\ p.mid = e.mid /\ p.body.text = e.text

LEMMA StaysGenuine ==
  ASSUME [Next]_vars, NEW n, NEW e, Genuine(n, e)
  PROVE  Genuine(n, e)'
BY AirGrows DEF Genuine

InboxOf(n) ==
  \A i \in DOMAIN inbox[n] :
    /\ \A j \in DOMAIN inbox[n] : inbox[n][j].mid = inbox[n][i].mid => j = i
    /\ Genuine(n, inbox[n][i])

LEMMA InboxSplit == InboxFaithful <=> \A n \in Daemons : InboxOf(n)
BY DEF InboxFaithful, InboxOf, Genuine

LEMMA UnchangedInbox ==
  ASSUME [Next]_vars, NEW n, InboxOf(n), inbox'[n] = inbox[n]
  PROVE  InboxOf(n)'
BY StaysGenuine DEF InboxOf

(* A message is appended if no entry has its mid.                          *)
LEMMA DeliveredIsFaithful ==
  ASSUME TypeOK, Source, [Next]_vars, NEW n \in Daemons, InboxOf(n), DeliverMsg(n)
  PROVE  InboxOf(n)'
<1> DEFINE p == rx[n]
           entry == [from |-> p.src, mid |-> p.mid, text |-> p.body.text]
<1>1. CASE inbox' = inbox
  BY <1>1, UnchangedInbox
<1>2. CASE ~InInbox(n, p.mid) /\ inbox' = [inbox EXCEPT ![n] = Append(@, entry)]
  <2>1. ~Idle(n) /\ p.type = "MSG" /\ p.dst = n
    BY DEF DeliverMsg, Dispatch
  <2>2. Genuine(n, entry)
    BY <2>1 DEF Source, Copied, Idle, Genuine
  <2>3. /\ inbox[n] \in Seq([from : Node, mid : Nat, text : Text])
        /\ inbox'[n] = Append(inbox[n], entry)
    BY <1>2 DEF TypeOK
  <2> DEFINE k == Len(inbox[n]) + 1
  <2>4. /\ DOMAIN inbox'[n] = DOMAIN inbox[n] \cup {k} /\ k \notin DOMAIN inbox[n]
        /\ inbox'[n][k] = entry
        /\ \A i \in DOMAIN inbox[n] : inbox'[n][i] = inbox[n][i]
    BY <2>3
  <2>5. \A i \in DOMAIN inbox[n] : inbox[n][i].mid # entry.mid
    BY <1>2 DEF InInbox
  <2> HIDE DEF entry, k
  <2>6. \A i \in DOMAIN inbox'[n] : Genuine(n, inbox[n][i])'
    <3>1. ASSUME NEW i \in DOMAIN inbox[n]
          PROVE  Genuine(n, inbox[n][i])'
      <4>1. PICK q \in air : LET e == inbox[n][i] IN
              /\ q.type = "MSG" /\ q.dst = n /\ q.src = e.from
              /\ q.mid = e.mid /\ q.body.text = e.text
        BY DEF InboxOf, Genuine
      <4>2. q \in air'
        BY AirGrows
      <4> QED
        BY <2>4, <4>1, <4>2 DEF Genuine
    <3>2. ASSUME NEW i, i = k
          PROVE  Genuine(n, inbox[n][i])'
      <4>1. PICK q \in air : /\ q.type = "MSG" /\ q.dst = n /\ q.src = entry.from
                             /\ q.mid = entry.mid /\ q.body.text = entry.text
        BY <2>2 DEF Genuine
      <4>2. q \in air'
        BY AirGrows
      <4> QED
        BY <2>4, <3>2, <4>1, <4>2 DEF Genuine
    <3> QED
      BY <2>4, <3>1, <3>2
  <2>7. \A i, j \in DOMAIN inbox'[n] : inbox'[n][j].mid = inbox'[n][i].mid => j = i
    BY <2>4, <2>5 DEF InboxOf
  <2> QED
    BY <2>6, <2>7 DEF InboxOf
<1> QED
  BY <1>1, <1>2 DEF DeliverMsg

LEMMA InboxKept ==
  ASSUME TypeOK, Source, InboxFaithful, [Next]_vars
  PROVE  InboxFaithful'
<1> SUFFICES ASSUME NEW n \in Daemons
             PROVE  InboxOf(n)'
  BY InboxSplit DEF InboxFaithful, InboxOf, Genuine
<1>1. InboxOf(n)
  BY InboxSplit
<1>2. CASE inbox'[n] = inbox[n]
  BY <1>1, <1>2, UnchangedInbox
<1>3. ASSUME inbox'[n] # inbox[n]
      PROVE  DeliverMsg(n) \/ inbox'[n] = << >>
  <2>1. PICK a \in Daemons : Informed(a)
    BY <1>3, InformedOrStill
  <2>2. DeliverMsg(a) \/ Restart(a)
    BY <1>3, <2>1 DEF Informed, BroadcastState, RouteBroadcast, ExpireRoutes, Hear,
                      HandleState, HandleRouting, HandleRt
  <2>3. a = n
    BY <1>3, <2>2 DEF DeliverMsg, Restart, TypeOK
  <2> QED
    BY <2>2, <2>3 DEF Restart, TypeOK
<1>4. CASE inbox'[n] = << >>
  BY <1>4 DEF InboxOf
<1> QED
  BY <1>1, <1>2, <1>3, <1>4, DeliveredIsFaithful

-----------------------------------------------------------------------------
(* Statuses.                                                               *)

Announced(m, status) ==
  \E p \in air : p.type = "STATE" /\ p.src = m /\ p.body.status = status

LEMMA ShownChanges ==
  ASSUME TypeOK, [Next]_vars, NEW n \in Daemons, NEW m \in Node \ {n},
         shown'[n][m] # shown[n][m]
  PROVE  \/ HandleState(n) /\ m = rx[n].src /\ shown'[n][m] = rx[n].body.status
         \/ shown'[n][m] = None
<1>1. PICK a \in Daemons : Informed(a)
  BY InformedOrStill
<1>2. (\E name \in StatusName : BroadcastState(a, name)) \/ HandleState(a) \/ Restart(a)
  BY <1>1 DEF Informed, RouteBroadcast, ExpireRoutes, Hear, HandleRouting, HandleRt,
              DeliverMsg
<1>3. ~ \E name \in StatusName : BroadcastState(a, name)
  <2> SUFFICES ASSUME NEW name \in StatusName, BroadcastState(a, name)
               PROVE  FALSE
    OBVIOUS
  <2>1. shown' = [shown EXCEPT ![a] = [shown[a] EXCEPT ![a] = name]]
    BY DEF BroadcastState
  <2>2. shown'[n][m] = shown[n][m]
    BY <2>1 DEF TypeOK
  <2> QED
    BY <2>2
<1>4. CASE HandleState(a)
  BY <1>4 DEF HandleState, Filed, TypeOK
<1>5. CASE Restart(a)
  BY <1>5 DEF Restart, Shown0, TypeOK
<1> QED
  BY <1>2, <1>3, <1>4, <1>5

LEMMA StatusKept ==
  ASSUME TypeOK, Source, StatusWasAnnounced, [Next]_vars
  PROVE  StatusWasAnnounced'
<1> SUFFICES ASSUME NEW n \in Daemons, NEW m \in Node \ {n}, shown'[n][m] # None
             PROVE  \E p \in air' : /\ p.type = "STATE" /\ p.src = m
                                    /\ p.body.status = shown'[n][m]
  BY DEF StatusWasAnnounced
<1>1. CASE shown'[n][m] = shown[n][m]
  BY <1>1, AirGrows DEF StatusWasAnnounced
<1>2. CASE HandleState(n) /\ m = rx[n].src /\ shown'[n][m] = rx[n].body.status
  <2>1. ~Idle(n) /\ rx[n].type = "STATE"
    BY <1>2 DEF HandleState, Dispatch
  <2>2. PICK p \in air : /\ p.src = rx[n].src /\ p.type = rx[n].type
                         /\ p.body = rx[n].body
    BY <2>1 DEF Source, Copied, Idle
  <2> QED
    BY <1>2, <2>1, <2>2, AirGrows
<1> QED
  BY <1>1, <1>2, ShownChanges

-----------------------------------------------------------------------------
(* Route tables.                                                           *)

(* A node that has a packet in hand has a gateway, and routes come later:  *)
(* no Direct entry is added to the routes of an announcement.              *)
GatewayFirst ==
  \A n \in Daemons \ Roots :
    /\ rx[n] # None => table[n].gateway # None
    /\ table[n].gateway = None => table[n].routes = NoRoutes

OneSource(routes) ==
  \/ \E m \in Node : Routed(routes) \subseteq {m} /\ routes[m] \in {None, Direct}
  \/ \E p \in air : /\ p.type = "RT"
                   /\ \A d \in Routed(routes) : routes[d] = p.body.routes[d]

LEMMA TableSplit ==
  TableIsOneAnnouncement <=> \A n \in Daemons \ Roots : OneSource(table[n].routes)
BY DEF TableIsOneAnnouncement, OneSource

(* All that happens to the table of a node that is not a root.             *)
LEMMA TableChanges ==
  ASSUME TypeOK, [Next]_vars, NEW n \in Daemons \ Roots, table'[n] # table[n]
  PROVE  \/ \E D \in SUBSET Node : table'[n] = DeleteRoutes(table[n], D)
         \/ \E p \in air : \E q \in Arrivals(p) :
              Hear(n, q) /\ table'[n] = AdoptGateway(table[n], q.src)
         \/ /\ HandleRt(n)
            /\ table'[n] = UpdateFromRoot(table[n], rx[n].body.routes, rx[n].body.gateway)
         \/ Restart(n) /\ table'[n] = EmptyTable
<1>1. PICK a \in Daemons : Informed(a)
  BY InformedOrStill
<1>2. AnnounceRoutes(a) /\ a \in Roots => table'[n] = table[n]
  BY DEF AnnounceRoutes, TypeOK
<1>3. CASE \/ \E name \in StatusName : BroadcastState(a, name)
           \/ HandleState(a) \/ DeliverMsg(a)
  BY <1>3 DEF BroadcastState, HandleState, DeliverMsg
<1>4. CASE RouteBroadcast(a) \/ HandleRouting(a)
  BY <1>2, <1>4 DEF RouteBroadcast, HandleRouting, HearAsRoot
<1>5. CASE ExpireRoutes(a)
  <2>1. \E D \in SUBSET Node : table' = [table EXCEPT ![a] = DeleteRoutes(@, D)]
    BY <1>5 DEF ExpireRoutes, Routed
  <2> QED
    BY <2>1 DEF TypeOK
<1>6. ASSUME NEW p \in air, NEW q \in Arrivals(p), Hear(a, q)
      PROVE  Hear(n, q) /\ table'[n] = AdoptGateway(table[n], q.src)
  <2>1. a \notin Roots
    BY <1>2, <1>6 DEF Hear, HearAsRoot
  <2>2. table' = [table EXCEPT ![a] = AdoptGateway(@, q.src)]
    BY <1>6, <2>1 DEF Hear
  <2> QED
    BY <1>6, <2>2 DEF TypeOK
<1>7. CASE HandleRt(a)
  BY <1>7 DEF HandleRt, TypeOK
<1>8. CASE Restart(a)
  BY <1>8 DEF Restart, TypeOK
<1> QED
  BY <1>1, <1>3, <1>4, <1>5, <1>6, <1>7, <1>8 DEF Informed

LEMMA NodesAreBytes == \A n \in Node : n \in Int /\ n # None
BY RouteTableAssumption

LEMMA GatewayFirstKept ==
  ASSUME TypeOK, GatewayFirst, [Next]_vars
  PROVE  GatewayFirst'
<1> SUFFICES ASSUME NEW n \in Daemons \ Roots
             PROVE  /\ rx'[n] # None => table'[n].gateway # None
                    /\ table'[n].gateway = None => table'[n].routes = NoRoutes
  BY DEF GatewayFirst
<1> DEFINE t == table[n]
<1>1. /\ rx[n] # None => t.gateway # None
      /\ t.gateway = None => t.routes = NoRoutes
      /\ t \in Table
  BY DEF GatewayFirst, TypeOK
<1>2. ASSUME NEW p \in air, NEW q \in Arrivals(p), Hear(n, q)
      PROVE  table'[n].gateway # None
  <2>1. q.src \in Node
    BY ArrivalIsPacket, BodyOfPacket DEF TypeOK
  <2>2. table'[n] = AdoptGateway(t, q.src)
    BY <1>2 DEF Hear, TypeOK
  <2> QED
    BY <1>1, <2>1, <2>2, AdoptGives
<1>3. CASE table'[n] = t
  BY <1>1, <1>2, <1>3, RxChanges
<1>4. CASE \E D \in SUBSET Node : table'[n] = DeleteRoutes(t, D)
  <2>1. table'[n].gateway = t.gateway /\ (t.routes = NoRoutes => table'[n].routes = NoRoutes)
    BY <1>1, <1>4 DEF DeleteRoutes, NoRoutes, Table
  <2> QED
    BY <1>1, <1>2, <2>1, RxChanges
<1>5. CASE \E p \in air : \E q \in Arrivals(p) : Hear(n, q)
  BY <1>2, <1>5
<1>6. CASE /\ HandleRt(n)
           /\ table'[n] = UpdateFromRoot(t, rx[n].body.routes, rx[n].body.gateway)
  <2>1. t.gateway # None
    BY <1>1, <1>6 DEF HandleRt, Dispatch, Idle
  <2>2. rx[n].body.gateway \in Node
    BY <1>6, DispatchTyped, BodyOfPacket DEF HandleRt, RtBody
  <2>3. rx[n].body.gateway # None
    BY <2>2, NodesAreBytes
  <2>4. table'[n].gateway # None
    BY <1>6, <2>1, <2>3 DEF UpdateFromRoot
  <2> QED
    BY <2>4
<1>7. CASE Restart(n) /\ table'[n] = EmptyTable
  BY <1>7 DEF Restart, EmptyTable, TypeOK
<1> QED
  BY <1>3, <1>4, <1>5, <1>6, <1>7, TableChanges

LEMMA LessOfOneSource ==
  ASSUME NEW routes, OneSource(routes), NEW less,
         \A d \in Node : less[d] \in {None, routes[d]}
  PROVE  OneSource(less)
<1>1. \A d \in Routed(less) : d \in Routed(routes) /\ less[d] = routes[d]
  BY DEF Routed
<1> QED
  BY <1>1 DEF OneSource

LEMMA TableKept ==
  ASSUME TypeOK, Source, GatewayFirst, TableIsOneAnnouncement, [Next]_vars
  PROVE  TableIsOneAnnouncement'
<1> SUFFICES ASSUME NEW n \in Daemons \ Roots
             PROVE  OneSource(table[n].routes)'
  BY DEF TableIsOneAnnouncement, OneSource
<1> DEFINE t == table[n]
           new == table'[n]
<1>1. OneSource(t.routes) /\ t \in Table
  BY TableSplit DEF TypeOK
<1>2. OneSource(new.routes) => OneSource(t.routes)'
  BY AirGrows DEF OneSource
<1>3. CASE new = t
  BY <1>1, <1>2, <1>3
<1>4. CASE \E D \in SUBSET Node : new = DeleteRoutes(t, D)
  <2>1. \A d \in Node : new.routes[d] \in {None, t.routes[d]}
    BY <1>1, <1>4 DEF DeleteRoutes, Table
  <2> QED
    BY <1>1, <1>2, <2>1, LessOfOneSource
<1>5. ASSUME NEW p \in air, NEW q \in Arrivals(p), new = AdoptGateway(t, q.src)
      PROVE  OneSource(new.routes)
  <2>1. q.src \in Node
    BY ArrivalIsPacket, BodyOfPacket DEF TypeOK
  <2>2. CASE t.gateway # None
    BY <1>1, <1>5, <2>2 DEF AdoptGateway
  <2>3. CASE t.gateway = None
    <3>1. t.routes = NoRoutes
      BY <2>3 DEF GatewayFirst
    <3>2. new.routes = [NoRoutes EXCEPT ![q.src] = Direct]
      <4>1. SetDefaultGateway(t, q.src) = [t EXCEPT !.gateway = q.src]
        BY <2>3 DEF SetDefaultGateway
      <4>2. SetDefaultGateway(t, q.src).routes = NoRoutes /\ SetDefaultGateway(t, q.src) \in Table
        BY <1>1, <2>1, <3>1, <4>1 DEF Table
      <4>3. new = AddDirect(SetDefaultGateway(t, q.src), q.src)
        BY <1>5, <2>3 DEF AdoptGateway
      <4> QED
        BY <4>2, <4>3 DEF AddDirect, Table
    <3>3. Routed(new.routes) \subseteq {q.src} /\ new.routes[q.src] = Direct
      BY <2>1, <3>2 DEF Routed, NoRoutes
    <3> QED
      BY <2>1, <3>3 DEF OneSource
  <2> QED
    BY <2>2, <2>3
<1>6. CASE /\ HandleRt(n)
           /\ new = UpdateFromRoot(t, rx[n].body.routes, rx[n].body.gateway)
  <2>1. ~Idle(n) /\ rx[n].type = "RT"
    BY <1>6 DEF HandleRt, Dispatch
  <2>2. PICK p \in air : p.type = "RT" /\ p.body = rx[n].body
    BY <2>1 DEF Source, Copied, Idle
  <2>3. new.routes = p.body.routes
    BY <1>6, <2>2 DEF UpdateFromRoot
  <2>4. OneSource(new.routes)
    BY <2>2, <2>3 DEF OneSource
  <2> QED
    BY <1>2, <2>4
<1>7. CASE Restart(n) /\ new = EmptyTable
  <2>1. Routed(new.routes) = {} /\ \A m \in Node : new.routes[m] = None
    BY <1>7 DEF EmptyTable, NoRoutes, Routed
  <2> QED
    BY <1>2, <2>1, MeshAssumption DEF OneSource
<1> QED
  BY <1>2, <1>3, <1>4, <1>5, <1>6, <1>7, TableChanges

-----------------------------------------------------------------------------
(* The theorems.                                                           *)

LEMMA SourceAlways == Spec => []Source
<1>1. Init => Source
  BY DEF Init, Source
<1> QED
  BY <1>1, SourceKept, TypeCorrect, PTL DEF Spec

(* All copies of a packet carry what its sender wrote: no daemon rewrites  *)
(* a packet, and the mids of 16 random bits are taken to differ.           *)
THEOREM CopiesAlwaysAgree == ASSUME NoCollision PROVE Spec => []CopiesAgree
<1>1. Init => CopiesAgree
  BY DEF Init, CopiesAgree
<1>2. Ledger => Fresh
  BY DEF Ledger
<1>3. TypeOK /\ Fresh /\ CopiesAgree /\ [Next]_vars => CopiesAgree'
  BY CopiesKept
<1> QED
  BY <1>1, <1>2, <1>3, LedgerKept, TypeCorrect, PTL DEF Spec

(* Every inbox lists each message once, as its sender sent it to this      *)
(* node, whether or not mids collide.                                      *)
THEOREM InboxAlwaysFaithful == Spec => []InboxFaithful
<1>1. Init => InboxFaithful
  BY DEF Init, InboxFaithful
<1>2. TypeOK /\ Source /\ InboxFaithful /\ [Next]_vars => InboxFaithful'
  BY InboxKept
<1> QED
  BY <1>1, <1>2, SourceAlways, TypeCorrect, PTL DEF Spec

(* A status shown for another node is one that node broadcast.             *)
THEOREM StatusAlwaysAnnounced == Spec => []StatusWasAnnounced
<1>1. Init => StatusWasAnnounced
  BY DEF Init, StatusWasAnnounced, Shown0
<1>2. TypeOK /\ Source /\ StatusWasAnnounced /\ [Next]_vars => StatusWasAnnounced'
  BY StatusKept
<1> QED
  BY <1>1, <1>2, SourceAlways, TypeCorrect, PTL DEF Spec

(* The routes a node follows come from a single announcement, although the *)
(* expiry thread deletes from a table the rx thread may have replaced.     *)
THEOREM TableAlwaysOne == Spec => []TableIsOneAnnouncement
<1>1. Init => GatewayFirst /\ TableIsOneAnnouncement
  BY MeshAssumption
  DEF Init, GatewayFirst, TableIsOneAnnouncement, EmptyTable, NoRoutes, Routed
<1>2. /\ TypeOK /\ GatewayFirst /\ [Next]_vars => GatewayFirst'
      /\ TypeOK /\ Source /\ GatewayFirst /\ TableIsOneAnnouncement /\ [Next]_vars
            => TableIsOneAnnouncement'
  BY GatewayFirstKept, TableKept
<1> QED
  BY <1>1, <1>2, SourceAlways, TypeCorrect, PTL DEF Spec
=============================================================================
