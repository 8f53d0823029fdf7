------------------------- MODULE RelayControlProofs -------------------------
(***************************************************************************)
(* What the relay policy engine promises, proved for every size of its     *)
(* tables and queue, every set of nodes, policies and packets.             *)
(*                                                                         *)
(* The types hold without a condition.  The queue's promises hold when no  *)
(* policy sets its limit to 0, the neighbours' and the nonces' until       *)
(* millis() wraps: both conditions are needed, and both are named here.    *)
(***************************************************************************)
EXTENDS RelayControl, FiniteSetTheorems, TLAPS

HT == INSTANCE HeardTableProofs WITH TimeMax <- TimeMod - 1

(* millis() has not come near 2^32, 49.7 days after the boot.              *)
NoWrap == MaxClock + 2 < TimeMod

(* No policy sets the limit of the queue to 0.                             *)
LimitsPositive == InitialLimit >= 1 /\ \A c \in Commands : c.limit >= 1

(* As many administrators as nonces that the relay keeps.                  *)
AdminsFit == Cardinality(Admins) <= NonceSlots

-----------------------------------------------------------------------------
(* The inductive invariants.                                               *)

Entry == [dst : Ids, at : 0..(TimeMod - 1)]

(* Every packet held was stored at a time that has come.                   *)
HeldInThePast == \A i \in Held(sf) : sf.slots[i].at <= clock

Queue == /\ TypeOK /\ policy.limit >= 1 /\ clock <= TimeMod - 2
         /\ DepthIsOccupancy /\ HeldInThePast

(* The nonce table holds the administrators' entries, one for each whose   *)
(* command was obeyed, with the highest nonce of all.                      *)
NonceTable ==
  /\ HT!Tidy(nonces)
  /\ \A i \in 1..NonceSlots : HT!InUse(nonces, i) => nonces[i].id \in Admins
  /\ \A a \in applied : \E i \in 1..NonceSlots :
       /\ HT!InUse(nonces, i) /\ nonces[i].id = a[1] /\ nonces[i].nonce >= a[2]
  /\ NoReplay

(* A neighbour's entry is stamped by its last HELLO; one that has said     *)
(* HELLO and has no entry gave way to later ones.                          *)
NeighbourTable ==
  /\ HT!Tidy(nbrs)
  /\ \A i \in 1..NbrSlots : HT!InUse(nbrs, i) =>
       nbrs[i].id \in Ids /\ nbrs[i].at = heard[nbrs[i].id]
  /\ \A id \in Ids : heard[id] # Never =>
       /\ heard[id] \in 1..clock
       /\ \/ HT!Listed(nbrs, id)
          \/ \A i \in 1..NbrSlots : HT!InUse(nbrs, i) /\ nbrs[i].at >= heard[id]

(* What is at most the share of a cap and one packet.                      *)
Share(x) == x > 0 => \E c \in Commands, p \in Traffic : x <= Allowed(c.cap) + p.airtime

Before(t) == IF t > DutyWindow THEN t - DutyWindow ELSE 0

(* The airtime used in the window, and in as many milliseconds before it,  *)
(* is a share each; nothing is used yet in a window that is over.          *)
DutyLedger ==
  /\ window.start \in 1..clock
  /\ policy.cap > 0 => \E c \in Commands : policy.cap = c.cap
  /\ \A s, t \in 0..MaxClock : s <= t => used[s] <= used[t]
  /\ \A t \in 0..MaxClock : t > clock => used[t] = used[clock]
  /\ clock - window.start >= DutyWindow => used[clock] = used[clock - 1]
  /\ used[clock] - used[window.start - 1] <= window.airtime
  /\ Share(used[clock] - used[window.start - 1])
  /\ Share(used[window.start - 1] - used[Before(window.start)])

-----------------------------------------------------------------------------
(* Types.                                                                  *)

(* The numbers among the constants.                                        *)
LEMMA Numbers ==
  /\ QueueSlots \in Nat \ {0} /\ TimeMod \in Nat \ {0} /\ TimeMod > 1
  /\ DepthMod \in Nat /\ DepthMod > QueueSlots
  /\ NbrSlots \in Nat \ {0} /\ NonceSlots \in Nat \ {0}
  /\ NbrTtl \in Nat /\ TtlMax \in Nat /\ MaxClock \in Nat \ {0}
  /\ InitialLimit \in 0..QueueSlots
BY RelayAssumption, StoreForwardAssumption

USE Numbers

LEMMA Remainder ==
  ASSUME NEW n \in Nat \ {0}, NEW a \in Int
  PROVE  a % n \in 0..(n - 1) /\ (a \in 0..(n - 1) => a % n = a)
OBVIOUS

(* Nodes, nonces, packets and commands are what the protocol allows.       *)
LEMMA Inputs ==
  /\ Ids \subseteq 0..254 /\ Admins \subseteq 0..254 /\ Nonces \subseteq Nat
  /\ \A c \in Commands : c.limit \in Nat /\ c.ttl \in Nat /\ c.cap \in 0..255
  /\ \A p \in Traffic : p.airtime \in Nat /\ p.dst \in Ids \cup {255}
BY RelayAssumption

LEMMA MillisTyped ==
  ASSUME TypeOK
  PROVE  Millis \in 0..(TimeMod - 1)
<1>1. clock \in Nat
  BY DEF TypeOK
<1> QED
  BY <1>1 DEF Millis

LEMMA SlotInTable ==
  ASSUME NEW n \in Nat \ {0}, NEW t, t \in [1..n -> HeardEntry], NEW id
  PROVE  T!SlotFor(t, id) = HT!SlotFor(t, id) /\ HT!IsTable(t, n) /\ T!SlotFor(t, id) \in 1..n
<1>1. HT!IsTable(t, n)
  BY DEF HT!IsTable, HeardEntry
<1>2. HT!SlotFor(t, id) \in 1..n
  BY <1>1, HT!SlotInTable
<1>3. T!SlotFor(t, id) = HT!SlotFor(t, id)
  BY DEF T!SlotFor, HT!SlotFor, T!FirstOf, HT!FirstOf
<1> QED
  BY <1>1, <1>2, <1>3

LEMMA PutTyped ==
  ASSUME NEW n \in Nat \ {0}, NEW t \in [1..n -> HeardEntry], NEW e \in HeardEntry
  PROVE  T!Put(t, e) \in [1..n -> HeardEntry]
BY SlotInTable DEF T!Put

LEMMA SlotsFinite ==
  /\ IsFiniteSet(Slot) /\ Cardinality(Slot) = QueueSlots
  /\ \A S \in SUBSET Slot :
       IsFiniteSet(S) /\ Cardinality(S) \in Nat /\ Cardinality(S) <= QueueSlots
<1>1. 0 \in Int /\ QueueSlots - 1 \in Int
  OBVIOUS
<1>2. IsFiniteSet(Slot) /\ Cardinality(Slot) = QueueSlots
  BY <1>1, FS_Interval DEF Slot
<1> QED
  BY <1>2, FS_Subset, FS_CardinalityType

LEMMA ReleaseTyped ==
  ASSUME NEW q, q.slots \in [Slot -> Entry \cup {Free}], q.depth \in Int, NEW S \in SUBSET Slot
  PROVE  /\ Release(q, S).slots \in [Slot -> Entry \cup {Free}]
         /\ Release(q, S).depth \in 0..(DepthMod - 1)
<1>1. Cardinality(S) \in Nat
  BY SlotsFinite
<1> QED
  BY <1>1 DEF Release

LEMMA LowestIsMember ==
  ASSUME NEW S \in SUBSET Slot, S # {}
  PROVE  Lowest(S) \in S
<1>1. S \subseteq Nat
  BY DEF Slot
<1>2. \E i \in S : \A j \in S : i <= j
  BY <1>1, HT!LeastOf
<1> QED
  BY <1>2 DEF Lowest

LEMMA OldestInQueue ==
  ASSUME NEW q
  PROVE  OldestSlot(q) \in Slot
<1> DEFINE stamped == {i \in Held(q) : q.slots[i].at < TimeMod - 1}
           oldest  == {i \in stamped : \A j \in stamped : q.slots[i].at <= q.slots[j].at}
<1>1. oldest \in SUBSET Slot /\ 0 \in Slot
  BY DEF Held, Slot
<1> HIDE DEF oldest
<1>2. OldestSlot(q) = IF oldest = {} THEN 0 ELSE Lowest(oldest)
  BY DEF OldestSlot, oldest
<1> QED
  BY <1>1, <1>2, LowestIsMember

LEMMA StoreTyped ==
  ASSUME NEW q, q.slots \in [Slot -> Entry \cup {Free}], q.depth \in 0..(DepthMod - 1), NEW e \in Entry
  PROVE  /\ Store(q, e).slots \in [Slot -> Entry \cup {Free}]
         /\ Store(q, e).depth \in 0..(DepthMod - 1)
<1> DEFINE slot == Lowest(Slot \ Held(q))
<1>1. CASE Held(q) = Slot
  BY <1>1 DEF Store
<1>2. CASE Held(q) # Slot
  <2>1. /\ Store(q, e).slots = [q.slots EXCEPT ![slot] = e]
        /\ Store(q, e).depth = (q.depth + 1) % DepthMod
    BY <1>2 DEF Store
  <2> HIDE DEF slot
  <2>2. (q.depth + 1) % DepthMod \in 0..(DepthMod - 1)
    <3>1. q.depth + 1 \in Int /\ DepthMod \in Nat \ {0}
      OBVIOUS
    <3> QED
      BY <3>1, Remainder
  <2>3. [q.slots EXCEPT ![slot] = e] \in [Slot -> Entry \cup {Free}]
    OBVIOUS
  <2> QED
    BY <2>1, <2>2, <2>3
<1> QED
  BY <1>1, <1>2

LEMMA EnqueueTyped ==
  ASSUME TypeOK, NEW e \in Entry
  PROVE  /\ Enqueue(sf, policy.limit, e).slots \in [Slot -> Entry \cup {Free}]
         /\ Enqueue(sf, policy.limit, e).depth \in 0..(DepthMod - 1)
<1> DEFINE q == IF sf.depth >= policy.limit THEN Evict(sf) ELSE sf
<1>1. /\ sf.slots \in [Slot -> Entry \cup {Free}] /\ sf.depth \in 0..(DepthMod - 1)
  BY DEF TypeOK, Entry
<1>2. q.slots \in [Slot -> Entry \cup {Free}] /\ q.depth \in 0..(DepthMod - 1)
  <2>1. {OldestSlot(sf)} \in SUBSET Slot /\ sf.depth \in Int
    BY <1>1, OldestInQueue
  <2> QED
    BY <1>1, <2>1, ReleaseTyped DEF Evict
<1> HIDE DEF q
<1>3. Enqueue(sf, policy.limit, e) = Store(q, e)
  BY DEF Enqueue, q
<1> QED
  BY <1>2, <1>3, StoreTyped

LEMMA RelayTyped ==
  ASSUME TypeOK, NEW p \in Traffic, Relay(p)
  PROVE  TypeOK'
<1>1. Millis \in 0..(TimeMod - 1) /\ p.airtime \in Nat
  BY MillisTyped, Inputs
<1>2. window' \in [start : 0..(TimeMod - 1), airtime : Nat]
  <2>1. window' = [start |-> Millis, airtime |-> p.airtime]
        \/ window' = [window EXCEPT !.airtime = @ + p.airtime]
    BY DEF Relay, WindowAfter
  <2>2. window \in [start : 0..(TimeMod - 1), airtime : Nat]
    BY DEF TypeOK
  <2> QED
    BY <1>1, <2>1, <2>2
<1>3. used' \in [0..MaxClock -> Nat]
  <2>1. used \in [0..MaxClock -> Nat]
    BY DEF TypeOK
  <2>2. \/ used' = used
        \/ used' = [t \in 0..MaxClock |-> IF t < clock THEN used[t] ELSE used[t] + p.airtime]
    BY DEF Relay
  <2>3. \A t \in 0..MaxClock : used[t] \in Nat /\ used[t] + p.airtime \in Nat
    BY <1>1, <2>1
  <2>4. [t \in 0..MaxClock |-> IF t < clock THEN used[t] ELSE used[t] + p.airtime]
          \in [0..MaxClock -> Nat]
    BY <2>3
  <2> QED
    BY <2>1, <2>2, <2>4
<1> QED
  BY <1>2, <1>3 DEF Relay, TypeOK

LEMMA HoldTyped ==
  ASSUME TypeOK, NEW p \in Traffic, Hold(p)
  PROVE  TypeOK'
<1> DEFINE e == [dst |-> p.dst, at |-> Millis]
<1>1. e \in Entry
  BY MillisTyped, Inputs DEF Hold, ShouldHold, Reachable, Entry
<1>2. sf' = Enqueue(sf, policy.limit, e)
  BY DEF Hold
<1> HIDE DEF e
<1>3. sf'.slots \in [Slot -> Entry \cup {Free}] /\ sf'.depth \in 0..(DepthMod - 1)
  BY <1>1, <1>2, EnqueueTyped
<1> QED
  BY <1>3 DEF Hold, TypeOK, Entry

LEMMA HelloTyped ==
  ASSUME TypeOK, NEW id \in Ids, OnHello(id)
  PROVE  TypeOK'
<1> DEFINE e == [id |-> id, at |-> Millis, nonce |-> 0]
<1>1. e \in HeardEntry
  BY MillisTyped, Inputs DEF HeardEntry
<1>2. nbrs' = T!Put(nbrs, e)
  BY DEF OnHello
<1> HIDE DEF e
<1>3. nbrs' \in [1..NbrSlots -> HeardEntry]
  BY <1>1, <1>2, PutTyped DEF TypeOK
<1>4. sf'.slots \in [Slot -> Entry \cup {Free}] /\ sf'.depth \in 0..(DepthMod - 1)
  <2>1. sf' = sf \/ sf' = Release(sf, HeldFor(sf, id))
    BY DEF OnHello, FlushFor
  <2>2. HeldFor(sf, id) \in SUBSET Slot
    BY DEF HeldFor, Held
  <2>3. sf.slots \in [Slot -> Entry \cup {Free}] /\ sf.depth \in 0..(DepthMod - 1)
    BY DEF TypeOK, Entry
  <2> QED
    BY <2>1, <2>2, <2>3, ReleaseTyped
<1>5. heard' \in [Ids -> Nat \cup {Never}]
  BY DEF OnHello, TypeOK
<1> QED
  BY <1>3, <1>4, <1>5 DEF OnHello, TypeOK, Entry

LEMMA CtrlTyped ==
  ASSUME TypeOK, NEW src \in Admins, NEW nonce \in Nonces, NEW c \in Commands,
         HandleCtrl(src, nonce, c)
  PROVE  TypeOK'
<1> DEFINE e == [id |-> src, at |-> Millis, nonce |-> nonce]
<1>1. e \in HeardEntry
  BY MillisTyped, Inputs DEF HeardEntry
<1>2. nonces' = T!Put(nonces, e)
  BY DEF HandleCtrl
<1> HIDE DEF e
<1>3. nonces' \in [1..NonceSlots -> HeardEntry]
  BY <1>1, <1>2, PutTyped DEF TypeOK
<1>4. /\ policy'.mode \in Modes /\ policy'.cap \in 0..255
      /\ policy'.limit \in 0..QueueSlots /\ policy'.ttl \in 0..TtlMax
  <2>1. c.limit \in Nat /\ c.ttl \in Nat /\ c.cap \in 0..255
    BY Inputs
  <2>2. AtMost(c.limit, QueueSlots) \in 0..QueueSlots /\ AtMost(c.ttl, TtlMax) \in 0..TtlMax
    BY <2>1 DEF AtMost
  <2>3. policy' = ApplyCtrl(c) /\ policy.mode \in Modes
    BY DEF HandleCtrl, TypeOK
  <2> QED
    BY <2>1, <2>2, <2>3 DEF ApplyCtrl
<1>5. applied' \subseteq Admins \X Nonces /\ replayed' \subseteq applied'
  BY DEF HandleCtrl, TypeOK
<1> QED
  BY <1>3, <1>4, <1>5 DEF HandleCtrl, TypeOK

LEMMA LoopTyped ==
  ASSUME TypeOK, LoopGc
  PROVE  TypeOK'
<1>1. Expired(sf, Millis, policy.ttl) \in SUBSET Slot
  BY DEF Expired, Held
<1>2. sf' = Release(sf, Expired(sf, Millis, policy.ttl))
  BY DEF LoopGc, CollectGarbage
<1>3. sf'.slots \in [Slot -> Entry \cup {Free}] /\ sf'.depth \in 0..(DepthMod - 1)
  <2>1. sf.slots \in [Slot -> Entry \cup {Free}] /\ sf.depth \in Int
    BY DEF TypeOK, Entry
  <2> QED
    BY <1>1, <1>2, <2>1, ReleaseTyped
<1>4. lastGc' \in 0..(TimeMod - 1)
  BY MillisTyped DEF LoopGc, TypeOK
<1> QED
  BY <1>3, <1>4 DEF LoopGc, TypeOK, Entry

LEMMA TypeAtStart ==
  ASSUME Init
  PROVE  TypeOK
<1>1. T!Unused \in HeardEntry
  BY DEF T!Unused, HeardEntry
<1>2. EmptyQueue.slots \in [Slot -> Entry \cup {Free}] /\ EmptyQueue.depth \in 0..(DepthMod - 1)
  BY DEF EmptyQueue
<1>3. /\ policy.mode \in Modes /\ policy.cap \in 0..255
      /\ policy.limit \in 0..QueueSlots /\ policy.ttl \in 0..TtlMax
  BY DEF Init, Modes
<1>4. /\ clock \in 1..MaxClock /\ lastGc \in 0..(TimeMod - 1)
      /\ window \in [start : 0..(TimeMod - 1), airtime : Nat]
      /\ heard \in [Ids -> Nat \cup {Never}] /\ used \in [0..MaxClock -> Nat]
      /\ applied \subseteq Admins \X Nonces /\ replayed \subseteq applied
  BY DEF Init
<1>5. nbrs \in [1..NbrSlots -> HeardEntry] /\ nonces \in [1..NonceSlots -> HeardEntry]
  BY <1>1 DEF Init
<1> QED
  BY <1>2, <1>3, <1>4, <1>5 DEF Init, TypeOK, Entry

LEMMA TypeKept ==
  ASSUME TypeOK, [Next]_vars
  PROVE  TypeOK'
<1>1. CASE Tick
  BY <1>1 DEF Tick, TypeOK
<1>2. CASE UNCHANGED vars
  BY <1>2 DEF vars, TypeOK
<1> QED
  BY <1>1, <1>2, RelayTyped, HoldTyped, HelloTyped, CtrlTyped, LoopTyped DEF Next

(* Every variable keeps its type: no entry, stamp or counter leaves the    *)
(* range of its C type, whatever arrives.                                  *)
THEOREM TypeCorrect == Spec => []TypeOK
BY TypeAtStart, TypeKept, PTL DEF Spec

-----------------------------------------------------------------------------
(* The operators of the queue.                                             *)

Counted(q) == /\ q.slots \in [Slot -> Entry \cup {Free}]
              /\ q.depth = Cardinality(Held(q))

LEMMA EntryIsNotFree == Free \notin Entry
BY RelayAssumption DEF Entry

LEMMA HeldFinite ==
  ASSUME NEW q
  PROVE  /\ Held(q) \in SUBSET Slot /\ IsFiniteSet(Held(q))
         /\ Cardinality(Held(q)) \in 0..QueueSlots
<1>1. Held(q) \in SUBSET Slot
  BY DEF Held
<1>2. IsFiniteSet(Held(q)) /\ Cardinality(Held(q)) \in Nat /\ Cardinality(Held(q)) <= QueueSlots
  BY <1>1, SlotsFinite, Zenon
<1> QED
  BY <1>1, <1>2

(* The counter follows what is released.                                   *)
LEMMA ReleaseCounts ==
  ASSUME NEW q, Counted(q), NEW S \in SUBSET Held(q)
  PROVE  /\ Counted(Release(q, S)) /\ Held(Release(q, S)) = Held(q) \ S
         /\ \A i \in Slot : Release(q, S).slots[i] = IF i \in S THEN Free ELSE q.slots[i]
<1> DEFINE r == Release(q, S)
           n == Cardinality(Held(q))
<1>1. S \in SUBSET Slot /\ IsFiniteSet(S) /\ Cardinality(S) \in Nat
  BY HeldFinite, SlotsFinite
<1>2. \A i \in Slot : r.slots[i] = IF i \in S THEN Free ELSE q.slots[i]
  BY DEF Release
<1>3. Held(r) = Held(q) \ S
  BY <1>1, <1>2 DEF Held
<1>4. Cardinality(Held(q) \ S) = n - Cardinality(S)
  <2>1. Held(q) \cap S = S
    OBVIOUS
  <2> QED
    BY <2>1, HeldFinite, FS_Difference
<1>5. n - Cardinality(S) \in 0..(DepthMod - 1)
  <2>1. n \in 0..QueueSlots
    BY HeldFinite
  <2>2. Cardinality(Held(q) \ S) \in Nat
    BY HeldFinite, FS_Difference, FS_CardinalityType
  <2> QED
    BY <1>1, <1>4, <2>1, <2>2
<1>6. r.depth = (n - Cardinality(S)) % DepthMod
  BY DEF Release, Counted
<1>7. r.depth = n - Cardinality(S)
  <2>1. DepthMod \in Nat \ {0} /\ n - Cardinality(S) \in Int
    BY <1>5
  <2> QED
    BY <1>5, <1>6, <2>1, Remainder
<1>8. r.slots \in [Slot -> Entry \cup {Free}]
  BY DEF Release, Counted
<1> HIDE DEF r
<1>9. Counted(r)
  BY <1>3, <1>4, <1>7, <1>8 DEF Counted
<1> QED
  BY <1>2, <1>3, <1>9 DEF r

(* Room is made by the packet held longest.                                *)
LEMMA OldestIsHeld ==
  ASSUME NEW q, Held(q) # {}, \A i \in Held(q) : q.slots[i].at \in 0..(TimeMod - 2)
  PROVE  /\ OldestSlot(q) \in Held(q)
         /\ \A j \in Held(q) : q.slots[OldestSlot(q)].at <= q.slots[j].at
<1> DEFINE stamped == {i \in Held(q) : q.slots[i].at < TimeMod - 1}
           oldest  == {i \in stamped : \A j \in stamped : q.slots[i].at <= q.slots[j].at}
           ages == {q.slots[i].at : i \in Held(q)}
<1>1. stamped = Held(q)
  OBVIOUS
<1>2. ages \subseteq Nat /\ ages # {}
  OBVIOUS
<1>3. PICK a \in ages : \A b \in ages : a <= b
  BY <1>2, HT!LeastOf
<1>4. oldest # {} /\ oldest \in SUBSET Slot
  BY <1>1, <1>3, HeldFinite
<1>5. OldestSlot(q) = Lowest(oldest)
  BY <1>4 DEF OldestSlot
<1>6. Lowest(oldest) \in oldest
  <2> HIDE DEF oldest
  <2> QED
    BY <1>4, LowestIsMember
<1> QED
  BY <1>1, <1>5, <1>6

(* A packet is stored in a free slot, and counted, if there is one.        *)
LEMMA StoreCounts ==
  ASSUME NEW q, Counted(q), NEW e \in Entry
  PROVE  /\ Counted(Store(q, e))
         /\ \/ Held(q) = Slot /\ Store(q, e) = q
            \/ \E i \in Slot \ Held(q) :
                 /\ Held(Store(q, e)) = Held(q) \cup {i}
                 /\ Cardinality(Held(Store(q, e))) = Cardinality(Held(q)) + 1
                 /\ \A j \in Slot : Store(q, e).slots[j] = IF j = i THEN e ELSE q.slots[j]
<1> DEFINE r == Store(q, e)
           i == Lowest(Slot \ Held(q))
           n == Cardinality(Held(q))
<1>1. CASE Held(q) = Slot
  BY <1>1 DEF Store
<1>2. CASE Held(q) # Slot
  <2>1. i \in Slot \ Held(q)
    BY <1>2, HeldFinite, LowestIsMember
  <2>2. r.slots = [q.slots EXCEPT ![i] = e] /\ r.depth = (q.depth + 1) % DepthMod
    BY <1>2 DEF Store
  <2> HIDE DEF r, i
  <2>3. q.slots \in [Slot -> Entry \cup {Free}]
    BY DEF Counted
  <2>4. /\ r.slots \in [Slot -> Entry \cup {Free}]
        /\ \A j \in Slot : r.slots[j] = IF j = i THEN e ELSE q.slots[j]
    BY <2>1, <2>2, <2>3
  <2>5. Held(r) = Held(q) \cup {i}
    BY <2>1, <2>4, EntryIsNotFree DEF Held
  <2>6. Cardinality(Held(r)) = n + 1 /\ Cardinality(Held(r)) \in 0..QueueSlots
    <3>1. Cardinality(Held(q) \cup {i}) = n + 1
      BY <2>1, HeldFinite, FS_AddElement
    <3> QED
      BY <2>5, <3>1, HeldFinite
  <2>7. r.depth = n + 1
    <3>1. DepthMod \in Nat \ {0} /\ n + 1 \in 0..(DepthMod - 1) /\ n + 1 \in Int
      BY <2>6
    <3>2. r.depth = (n + 1) % DepthMod
      BY <2>2 DEF Counted
    <3> QED
      BY <3>1, <3>2, Remainder
  <2>8. Counted(r)
    BY <2>4, <2>6, <2>7 DEF Counted
  <2> QED
    BY <2>1, <2>4, <2>5, <2>6, <2>8 DEF r
<1> QED
  BY <1>1, <1>2

(* What sf_enqueue does to a queue whose limit is not 0.                   *)
LEMMA EnqueueCounts ==
  ASSUME NEW q, Counted(q), NEW limit \in Nat \ {0}, NEW e \in Entry,
         \A i \in Held(q) : q.slots[i].at \in 0..(TimeMod - 2)
  PROVE  LET r == Enqueue(q, limit, e) IN
         /\ Counted(r)
         /\ \A i \in Held(r) : r.slots[i] = e \/ (i \in Held(q) /\ r.slots[i] = q.slots[i])
         /\ Cardinality(Held(r)) > Cardinality(Held(q)) => Cardinality(Held(r)) <= limit
         /\ \A i \in Held(q) : r.slots[i] # q.slots[i] =>
              /\ Cardinality(Held(q)) >= limit
              /\ \A j \in Held(q) : q.slots[i].at <= q.slots[j].at
<1> DEFINE r == Enqueue(q, limit, e)
           n == Cardinality(Held(q))
<1>1. Held(q) \in SUBSET Slot /\ IsFiniteSet(Held(q)) /\ n \in 0..QueueSlots /\ q.depth = n
  BY HeldFinite DEF Counted
<1>2. CASE n >= limit
  <2> DEFINE o == OldestSlot(q)
             p == Evict(q)
  <2>1. Held(q) # {}
    BY <1>1, <1>2, FS_EmptySet
  <2>2. o \in Held(q) /\ \A j \in Held(q) : q.slots[o].at <= q.slots[j].at
    BY <2>1, OldestIsHeld
  <2>3. /\ Counted(p) /\ Held(p) = Held(q) \ {o}
        /\ \A i \in Slot : p.slots[i] = IF i = o THEN Free ELSE q.slots[i]
    <3>1. {o} \in SUBSET Held(q)
      BY <2>2
    <3> HIDE DEF o
    <3>2. /\ Counted(Release(q, {o})) /\ Held(Release(q, {o})) = Held(q) \ {o}
          /\ \A i \in Slot : Release(q, {o}).slots[i] = IF i \in {o} THEN Free ELSE q.slots[i]
      BY <3>1, ReleaseCounts
    <3> QED
      BY <3>2 DEF Evict, o
  <2>4. r = Store(p, e)
    BY <1>1, <1>2 DEF Enqueue
  <2> HIDE DEF o, p, r
  <2>5. Held(p) # Slot
    BY <1>1, <2>2, <2>3
  <2>6. PICK k \in Slot \ Held(p) :
          /\ Held(r) = Held(p) \cup {k} /\ Cardinality(Held(r)) = Cardinality(Held(p)) + 1
          /\ \A j \in Slot : r.slots[j] = IF j = k THEN e ELSE p.slots[j]
    <3>1. Counted(p)
      BY <2>3
    <3> QED
      BY <2>4, <2>5, <3>1, StoreCounts
  <2>7. Counted(r)
    BY <2>3, <2>4, StoreCounts
  <2>8. Cardinality(Held(p)) = n - 1
    BY <1>1, <2>2, <2>3, FS_RemoveElement
  <2>9. ~ (Cardinality(Held(r)) > n)
    BY <1>1, <2>6, <2>8
  <2>10. \A i \in Held(r) : r.slots[i] = e \/ (i \in Held(q) /\ r.slots[i] = q.slots[i])
    BY <1>1, <2>3, <2>6
  <2>11. \A i \in Held(q) : r.slots[i] # q.slots[i] => i = o
    BY <1>1, <2>3, <2>6
  <2> QED
    BY <1>2, <2>2, <2>7, <2>9, <2>10, <2>11 DEF r
<1>3. CASE n < limit
  <2>1. r = Store(q, e)
    BY <1>1, <1>3 DEF Enqueue
  <2> HIDE DEF r
  <2>2. Counted(r)
    BY <2>1, StoreCounts
  <2>3. CASE r = q
    BY <1>1, <2>2, <2>3 DEF r
  <2>4. CASE r # q
    <3>1. PICK k \in Slot \ Held(q) :
            /\ Held(r) = Held(q) \cup {k} /\ Cardinality(Held(r)) = n + 1
            /\ \A j \in Slot : r.slots[j] = IF j = k THEN e ELSE q.slots[j]
      BY <2>1, <2>4, StoreCounts
    <3>2. \A i \in Held(r) : r.slots[i] = e \/ (i \in Held(q) /\ r.slots[i] = q.slots[i])
      BY <1>1, <3>1
    <3>3. \A i \in Held(q) : r.slots[i] = q.slots[i]
      BY <1>1, <3>1
    <3>4. Cardinality(Held(r)) <= limit
      BY <1>1, <1>3, <3>1
    <3> QED
      BY <2>2, <3>2, <3>3, <3>4 DEF r
  <2> QED
    BY <2>3, <2>4
<1> QED
  BY <1>1, <1>2, <1>3

-----------------------------------------------------------------------------
(* The queue.                                                              *)

LEMMA QueueFacts ==
  ASSUME Queue
  PROVE  /\ Counted(sf) /\ clock \in 1..(TimeMod - 2) /\ Millis = clock
         /\ policy.limit \in Nat \ {0} /\ policy.ttl \in Nat
         /\ \A i \in Held(sf) : /\ sf.slots[i] \in Entry
                                /\ sf.slots[i].at \in 0..(TimeMod - 2)
                                /\ sf.slots[i].at <= clock
                                /\ Age(Millis, sf.slots[i].at) = clock - sf.slots[i].at
<1>1. Counted(sf)
  BY DEF Queue, TypeOK, Counted, Entry, DepthIsOccupancy
<1>2. clock \in 1..(TimeMod - 2)
  BY DEF Queue, TypeOK
<1>3. Millis = clock
  BY <1>2, Remainder DEF Millis
<1>4. policy.limit \in Nat \ {0} /\ policy.ttl \in Nat
  BY DEF Queue, TypeOK
<1>5. ASSUME NEW i \in Held(sf)
      PROVE  /\ sf.slots[i] \in Entry
             /\ sf.slots[i].at \in 0..(TimeMod - 2)
             /\ sf.slots[i].at <= clock
             /\ Age(Millis, sf.slots[i].at) = clock - sf.slots[i].at
  <2> DEFINE at == sf.slots[i].at
  <2>1. sf.slots[i] \in Entry
    BY <1>1 DEF Held, Counted
  <2>2. at \in 0..(TimeMod - 1) /\ at <= clock
    BY <2>1 DEF Entry, Queue, HeldInThePast
  <2> HIDE DEF at
  <2>3. clock - at \in 0..(TimeMod - 1) /\ clock - at \in Int
    BY <1>2, <2>2
  <2>4. Age(Millis, at) = clock - at
    BY <1>3, <2>3, Remainder DEF Age
  <2> QED
    BY <1>2, <2>1, <2>2, <2>4 DEF at
<1> QED
  BY <1>1, <1>2, <1>3, <1>4, <1>5

(* The steps that change the queue.                                        *)
LEMMA QueueSteps ==
  ASSUME [Next]_vars
  PROVE  \/ sf' = sf
         \/ \E p \in Traffic : Hold(p)
         \/ \E id \in Ids : /\ OnHello(id) /\ policy.mode = "STORE_FWD"
                            /\ sf' = Release(sf, HeldFor(sf, id))
         \/ LoopGc /\ sf' = Release(sf, Expired(sf, Millis, policy.ttl))
<1>1. ASSUME NEW p \in Traffic, Relay(p)
      PROVE  sf' = sf
  BY <1>1 DEF Relay
<1>2. ASSUME NEW id \in Ids, OnHello(id)
      PROVE  \/ sf' = sf
             \/ policy.mode = "STORE_FWD" /\ sf' = Release(sf, HeldFor(sf, id))
  BY <1>2 DEF OnHello, FlushFor
<1>3. ASSUME NEW src \in Admins, NEW nonce \in Nonces, NEW c \in Commands,
             HandleCtrl(src, nonce, c)
      PROVE  sf' = sf
  BY <1>3 DEF HandleCtrl
<1>4. Tick \/ UNCHANGED vars => sf' = sf
  BY DEF Tick, vars
<1>5. LoopGc => sf' = Release(sf, Expired(sf, Millis, policy.ttl))
  BY DEF LoopGc, CollectGarbage
<1> QED
  BY <1>1, <1>2, <1>3, <1>4, <1>5 DEF Next

(* What Hold does to the queue.                                            *)
LEMMA HoldSteps ==
  ASSUME Queue, NEW p \in Traffic, Hold(p)
  PROVE  /\ Counted(sf')
         /\ \A i \in Held(sf') :
              sf'.slots[i].at = clock \/ (i \in Held(sf) /\ sf'.slots[i] = sf.slots[i])
         /\ Cardinality(Held(sf')) > Cardinality(Held(sf)) =>
              Cardinality(Held(sf')) <= policy.limit
         /\ \A i \in Held(sf) : sf'.slots[i] # sf.slots[i] =>
              /\ Cardinality(Held(sf)) >= policy.limit
              /\ \A j \in Held(sf) : sf.slots[i].at <= sf.slots[j].at
<1> DEFINE e == [dst |-> p.dst, at |-> Millis]
           r == Enqueue(sf, policy.limit, e)
<1>1. e \in Entry
  BY MillisTyped, Inputs DEF Queue, Hold, ShouldHold, Reachable, Entry
<1>2. sf' = r
  BY DEF Hold
<1>3. e.at = clock
  BY QueueFacts
<1> HIDE DEF e
<1>4. /\ Counted(r)
      /\ \A i \in Held(r) : r.slots[i] = e \/ (i \in Held(sf) /\ r.slots[i] = sf.slots[i])
      /\ Cardinality(Held(r)) > Cardinality(Held(sf)) => Cardinality(Held(r)) <= policy.limit
      /\ \A i \in Held(sf) : r.slots[i] # sf.slots[i] =>
           /\ Cardinality(Held(sf)) >= policy.limit
           /\ \A j \in Held(sf) : sf.slots[i].at <= sf.slots[j].at
  BY <1>1, QueueFacts, EnqueueCounts
<1> HIDE DEF r
<1> QED
  BY <1>2, <1>3, <1>4

(* What a release does to it.                                              *)
LEMMA ReleaseSteps ==
  ASSUME Queue, NEW S \in SUBSET Held(sf), sf' = Release(sf, S)
  PROVE  /\ Counted(sf') /\ Held(sf') = Held(sf) \ S
         /\ \A i \in Held(sf) \ S : sf'.slots[i] = sf.slots[i]
         /\ ~ (Cardinality(Held(sf')) > Cardinality(Held(sf)))
<1>1. /\ Counted(sf') /\ Held(sf') = Held(sf) \ S
      /\ \A i \in Slot : sf'.slots[i] = IF i \in S THEN Free ELSE sf.slots[i]
  BY QueueFacts, ReleaseCounts
<1>2. Held(sf') \in SUBSET Held(sf) /\ Held(sf) \in SUBSET Slot /\ IsFiniteSet(Held(sf))
  BY <1>1, HeldFinite
<1>3. Cardinality(Held(sf')) <= Cardinality(Held(sf))
  BY <1>2, FS_Subset
<1>4. Cardinality(Held(sf')) \in Nat /\ Cardinality(Held(sf)) \in Nat
  BY <1>2, FS_Subset, FS_CardinalityType
<1> QED
  BY <1>1, <1>2, <1>3, <1>4

LEMMA QueueAtStart ==
  ASSUME NoWrap, LimitsPositive, Init
  PROVE  Queue
<1>1. TypeOK /\ clock <= TimeMod - 2
  BY TypeAtStart DEF Init, NoWrap
<1>2. Held(sf) = {}
  BY DEF Held, Init, EmptyQueue
<1>3. policy.limit >= 1 /\ sf.depth = 0
  BY DEF Init, LimitsPositive, EmptyQueue
<1> QED
  BY <1>1, <1>2, <1>3, FS_EmptySet DEF Queue, DepthIsOccupancy, HeldInThePast

LEMMA QueueKept ==
  ASSUME NoWrap, LimitsPositive, Queue, [Next]_vars
  PROVE  Queue'
<1>1. TypeOK' /\ clock' <= TimeMod - 2
  <2>1. TypeOK'
    BY TypeKept DEF Queue
  <2>2. clock' \in 1..(MaxClock + 1)
    BY <2>1 DEF TypeOK
  <2> QED
    BY <2>1, <2>2 DEF NoWrap
<1>2. policy'.limit >= 1
  <2>1. \A c \in Commands : ApplyCtrl(c).limit >= 1
    BY Inputs DEF ApplyCtrl, AtMost, LimitsPositive
  <2>2. policy' = policy \/ \E c \in Commands : policy' = ApplyCtrl(c)
    BY DEF Next, vars, Relay, Hold, OnHello, HandleCtrl, LoopGc, Tick
  <2> QED
    BY <2>1, <2>2 DEF Queue
<1>3. clock \in Nat /\ clock' \in {clock, clock + 1}
  <2>1. clock' \in {clock, clock + 1}
    BY DEF Next, vars, Relay, Hold, OnHello, HandleCtrl, LoopGc, Tick
  <2> QED
    BY <2>1 DEF Queue, TypeOK
<1>4. /\ Counted(sf')
      /\ \A i \in Held(sf') :
           sf'.slots[i].at = clock \/ (i \in Held(sf) /\ sf'.slots[i] = sf.slots[i])
  <2>1. CASE sf' = sf
    BY <2>1, QueueFacts
  <2>2. CASE \E p \in Traffic : Hold(p)
    BY <2>2, HoldSteps
  <2>3. CASE \E id \in Ids : sf' = Release(sf, HeldFor(sf, id))
    BY <2>3, ReleaseSteps DEF HeldFor
  <2>4. CASE sf' = Release(sf, Expired(sf, Millis, policy.ttl))
    BY <2>4, ReleaseSteps DEF Expired
  <2> QED
    BY <2>1, <2>2, <2>3, <2>4, QueueSteps
<1>5. DepthIsOccupancy'
  BY <1>4 DEF DepthIsOccupancy, Counted, Held
<1>6. HeldInThePast'
  <2>1. \A i \in Held(sf) : sf.slots[i].at \in Nat /\ sf.slots[i].at <= clock
    BY QueueFacts
  <2>2. \A i \in Held(sf') : sf'.slots[i].at <= clock'
    BY <1>3, <1>4, <2>1
  <2> QED
    BY <2>2 DEF HeldInThePast, Held
<1> QED
  BY <1>1, <1>2, <1>5, <1>6 DEF Queue

LEMMA QueueAlways ==
  ASSUME NoWrap, LimitsPositive
  PROVE  Spec => []Queue
<1>1. Init => Queue
  BY QueueAtStart
<1>2. Queue /\ [Next]_vars => Queue'
  BY QueueKept
<1> QED
  BY <1>1, <1>2, PTL DEF Spec

(* s_sf_depth is the number of packets held, through every store, eviction,*)
(* release and expiry, for policies whose limit is not 0.                  *)
THEOREM DepthAlwaysOccupancy ==
  ASSUME NoWrap, LimitsPositive
  PROVE  Spec => []DepthIsOccupancy
<1>1. Queue => DepthIsOccupancy
  BY DEF Queue
<1> QED
  BY <1>1, QueueAlways, PTL

(* The queue never grows past the limit in force.                          *)
THEOREM QueueGrowsWithinLimit ==
  ASSUME NoWrap, LimitsPositive
  PROVE  Spec => GrowsWithinLimit
<1> DEFINE Grows == Cardinality(Held(sf')) > Cardinality(Held(sf))
           Within == Grows => Cardinality(Held(sf')) <= policy.limit
<1>1. ASSUME Queue, [Next]_vars
      PROVE  Within
  <2>1. ~ (Cardinality(Held(sf)) > Cardinality(Held(sf)))
    BY HeldFinite
  <2>2. CASE sf' = sf
    BY <2>1, <2>2
  <2>3. CASE \E p \in Traffic : Hold(p)
    BY <1>1, <2>3, HoldSteps
  <2>4. CASE \E id \in Ids : sf' = Release(sf, HeldFor(sf, id))
    BY <1>1, <2>4, ReleaseSteps DEF HeldFor
  <2>5. CASE sf' = Release(sf, Expired(sf, Millis, policy.ttl))
    BY <1>1, <2>5, ReleaseSteps DEF Expired
  <2> QED
    BY <1>1, <2>2, <2>3, <2>4, <2>5, QueueSteps
<1>2. Queue /\ [Next]_vars => [Within]_vars
  BY <1>1
<1> QED
  BY <1>2, QueueAlways, PTL DEF Spec, GrowsWithinLimit

(* No packet leaves the queue but for a HELLO of its destination, its age, *)
(* or a full queue in which it was the oldest.                             *)
THEOREM PacketsLeaveForAReason ==
  ASSUME NoWrap, LimitsPositive
  PROVE  Spec => LeavesForAReason
<1>1. ASSUME Queue, [Next]_vars, NEW i \in Held(sf), sf'.slots[i] # sf.slots[i]
      PROVE  \/ policy.mode = "STORE_FWD" /\ heard'[sf.slots[i].dst] = clock
             \/ clock - sf.slots[i].at > policy.ttl
             \/ /\ Cardinality(Held(sf)) >= policy.limit
                /\ \A j \in Held(sf) : sf.slots[i].at <= sf.slots[j].at
  <2>1. CASE \E p \in Traffic : Hold(p)
    BY <1>1, <2>1, HoldSteps
  <2>2. ASSUME NEW id \in Ids, OnHello(id), policy.mode = "STORE_FWD",
               sf' = Release(sf, HeldFor(sf, id))
        PROVE  policy.mode = "STORE_FWD" /\ heard'[sf.slots[i].dst] = clock
    <3>1. i \in HeldFor(sf, id)
      <4>1. HeldFor(sf, id) \in SUBSET Held(sf)
        BY DEF HeldFor
      <4> QED
        BY <1>1, <2>2, <4>1, ReleaseSteps
    <3>2. heard'[id] = clock
      BY <1>1, <2>2 DEF OnHello, Queue, TypeOK
    <3> QED
      BY <2>2, <3>1, <3>2 DEF HeldFor
  <2>3. ASSUME sf' = Release(sf, Expired(sf, Millis, policy.ttl))
        PROVE  clock - sf.slots[i].at > policy.ttl
    <3>1. i \in Expired(sf, Millis, policy.ttl)
      <4>1. Expired(sf, Millis, policy.ttl) \in SUBSET Held(sf)
        BY DEF Expired
      <4> QED
        BY <1>1, <2>3, <4>1, ReleaseSteps
    <3> QED
      BY <1>1, <3>1, QueueFacts DEF Expired
  <2> QED
    BY <1>1, <2>1, <2>2, <2>3, QueueSteps
<1>2. Queue /\ [Next]_vars =>
        [\A i \in Held(sf) : LET e == sf.slots[i] IN sf'.slots[i] # e =>
           \/ policy.mode = "STORE_FWD" /\ heard'[e.dst] = clock
           \/ clock - e.at > policy.ttl
           \/ /\ Cardinality(Held(sf)) >= policy.limit
              /\ \A j \in Held(sf) : e.at <= sf.slots[j].at]_vars
  BY <1>1
<1> QED
  BY <1>2, QueueAlways, PTL DEF Spec, LeavesForAReason

(* A HELLO in STORE_FWD mode releases everything held for its sender: the  *)
(* guard s_sf_depth > 0 never skips a packet.                              *)
THEOREM HelloAlwaysReleases ==
  ASSUME NoWrap, LimitsPositive
  PROVE  Spec => HelloReleases
<1>1. ASSUME Queue, NEW id \in Ids, OnHello(id), policy.mode = "STORE_FWD"
      PROVE  HeldFor(sf', id) = {}
  <2>1. CASE sf.depth > 0
    <3>1. sf' = Release(sf, HeldFor(sf, id))
      BY <1>1, <2>1 DEF OnHello, FlushFor
    <3>2. HeldFor(sf, id) \in SUBSET Held(sf)
      BY DEF HeldFor
    <3>3. /\ Held(sf') = Held(sf) \ HeldFor(sf, id)
          /\ \A i \in Held(sf) \ HeldFor(sf, id) : sf'.slots[i] = sf.slots[i]
      BY <1>1, <3>1, <3>2, ReleaseSteps
    <3> QED
      BY <3>3 DEF HeldFor
  <2>2. CASE ~ (sf.depth > 0)
    <3>1. sf' = sf
      BY <1>1, <2>2 DEF OnHello
    <3>2. Cardinality(Held(sf)) = 0
      BY <1>1, <2>2, HeldFinite DEF Queue, DepthIsOccupancy
    <3>3. Held(sf) = {}
      BY <3>2, HeldFinite, FS_EmptySet
    <3> QED
      BY <3>1, <3>3 DEF HeldFor
  <2> QED
    BY <2>1, <2>2
<1>2. Queue /\ [Next]_vars =>
        [\A id \in Ids : OnHello(id) /\ policy.mode = "STORE_FWD"
                           => HeldFor(sf', id) = {}]_vars
  BY <1>1
<1> QED
  BY <1>2, QueueAlways, PTL DEF Spec, HelloReleases

-----------------------------------------------------------------------------
(* The neighbours.                                                         *)

LEMMA ClockFits ==
  ASSUME NoWrap, TypeOK
  PROVE  clock \in 1..(TimeMod - 2) /\ Millis = clock
<1>1. clock \in 1..(TimeMod - 2)
  BY DEF NoWrap, TypeOK
<1>2. clock \in 0..(TimeMod - 1) /\ clock \in Int
  BY <1>1
<1> QED
  BY <1>1, <1>2, Remainder DEF Millis

LEMMA PutIsPut ==
  ASSUME NEW n \in Nat \ {0}, NEW t, t \in [1..n -> HeardEntry], NEW e
  PROVE  T!Put(t, e) = HT!Put(t, e)
BY SlotInTable DEF T!Put, HT!Put

(* A full table takes as many ids as it has entries.                       *)
LEMMA FullTable ==
  ASSUME NEW n \in Nat, NEW t, DOMAIN t = 1..n, HT!Tidy(t),
         \A i \in 1..n : HT!InUse(t, i),
         NEW S, IsFiniteSet(S), \A i \in 1..n : t[i].id \in S
  PROVE  Cardinality(S) >= n
<1>1. HT!Cardinality(S) = Cardinality(S)
  BY DEF HT!Cardinality, Cardinality
<1>2. HT!IsFiniteSet(S)
  BY DEF HT!IsFiniteSet, IsFiniteSet
<1> QED
  BY <1>1, <1>2, HT!FullTable

(* Where the neighbours' stamps come from.                                 *)
LEMMA NeighbourStamps ==
  ASSUME TypeOK, NeighbourTable
  PROVE  /\ HT!IsTable(nbrs, NbrSlots) /\ DOMAIN nbrs = 1..NbrSlots
         /\ \A i \in 1..NbrSlots : HT!InUse(nbrs, i) =>
              /\ nbrs[i].id \in Ids /\ nbrs[i].at = heard[nbrs[i].id]
              /\ nbrs[i].at \in 1..clock
<1>1. nbrs \in [1..NbrSlots -> HeardEntry]
  BY DEF TypeOK
<1>2. ASSUME NEW i \in 1..NbrSlots, HT!InUse(nbrs, i)
      PROVE  /\ nbrs[i].id \in Ids /\ nbrs[i].at = heard[nbrs[i].id]
             /\ nbrs[i].at \in 1..clock
  <2>1. nbrs[i].id \in Ids /\ nbrs[i].at = heard[nbrs[i].id]
    BY <1>2 DEF NeighbourTable
  <2>2. nbrs[i].at # Never
    BY <1>1 DEF HeardEntry, Never
  <2> QED
    BY <2>1, <2>2 DEF NeighbourTable
<1> QED
  BY <1>1, <1>2, SlotInTable

LEMMA HelloNeighbours ==
  ASSUME NoWrap, TypeOK, NeighbourTable, NEW id \in Ids, OnHello(id)
  PROVE  NeighbourTable'
<1> DEFINE e == [id |-> id, at |-> clock, nonce |-> 0]
           s == HT!SlotFor(nbrs, id)
           n == NbrSlots
<1>1. /\ HT!IsTable(nbrs, n) /\ DOMAIN nbrs = 1..n /\ HT!Tidy(nbrs)
      /\ \A i \in 1..n : HT!InUse(nbrs, i) =>
           /\ nbrs[i].id \in Ids /\ nbrs[i].at = heard[nbrs[i].id]
           /\ nbrs[i].at \in 1..clock
  BY NeighbourStamps DEF NeighbourTable
<1>2. clock \in 1..(TimeMod - 2) /\ clock' = clock /\ heard \in [Ids -> Nat \cup {Never}]
  BY ClockFits DEF OnHello, TypeOK
<1>3. nbrs' = HT!Put(nbrs, e)
  BY ClockFits, PutIsPut DEF OnHello, TypeOK
<1>4. heard'[id] = clock /\ \A j \in Ids \ {id} : heard'[j] = heard[j]
  BY <1>2 DEF OnHello
<1>5. e.at \in Nat \ {0} /\ e.id = id /\ e.at = clock
  BY <1>2
<1> HIDE DEF e
<1>6. /\ s \in 1..n /\ DOMAIN nbrs' = 1..n /\ nbrs'[s] = e
      /\ \A i \in 1..n \ {s} : nbrs'[i] = nbrs[i]
  BY <1>1, <1>3, <1>5, HT!PutIs
<1>7. HT!Tidy(nbrs')
  BY <1>1, <1>3, <1>5, HT!PutIsTidy
<1>8. HT!Listed(nbrs, id) => nbrs[s].id = id
  <2> SUFFICES ASSUME HT!Listed(nbrs, id)
               PROVE  nbrs[s].id = id
    OBVIOUS
  <2>1. PICK k \in 1..n : HT!InUse(nbrs, k) /\ nbrs[k].id = id
    BY <1>1 DEF HT!Listed
  <2>2. s = k
    BY <1>1, <2>1, HT!SlotOfListed
  <2> QED
    BY <2>1, <2>2
<1>9. ASSUME ~ HT!Listed(nbrs, id), HT!InUse(nbrs, s)
      PROVE  \A i \in 1..n : HT!InUse(nbrs, i) /\ nbrs[s].at <= nbrs[i].at
  <2>1. /\ \A i \in 1..n : HT!InUse(nbrs, i)
        /\ \A i \in 1..n : nbrs[s].at <= nbrs[i].at \/ ~ (nbrs[i].at < TimeMod - 1)
    BY <1>1, <1>9, HT!SlotOfStranger
  <2> QED
    BY <1>1, <1>2, <2>1
<1> HIDE DEF s
<1>10. \A i \in 1..n : HT!InUse(nbrs', i) <=> (i = s \/ HT!InUse(nbrs, i))
  BY <1>5, <1>6 DEF HT!InUse
<1>11. ASSUME NEW i \in 1..n, HT!InUse(nbrs', i)
       PROVE  nbrs'[i].id \in Ids /\ nbrs'[i].at = heard'[nbrs'[i].id]
  <2>1. CASE i = s
    BY <1>4, <1>5, <1>6, <2>1
  <2>2. CASE i # s
    <3>1. nbrs'[i] = nbrs[i] /\ HT!InUse(nbrs, i)
      BY <1>6, <1>10, <1>11, <2>2
    <3>2. nbrs'[i].id # id
      <4>1. HT!InUse(nbrs', s) /\ nbrs'[s].id = id
        BY <1>5, <1>6, <1>10
      <4> QED
        BY <1>6, <1>7, <1>11, <2>2, <4>1 DEF HT!Tidy
    <3> QED
      BY <1>1, <1>4, <3>1, <3>2
  <2> QED
    BY <2>1, <2>2
<1>12. ASSUME NEW j \in Ids, heard'[j] # Never
       PROVE  /\ heard'[j] \in 1..clock
              /\ \/ HT!Listed(nbrs', j)
                 \/ \A i \in 1..n : HT!InUse(nbrs', i) /\ nbrs'[i].at >= heard'[j]
  <2>1. CASE j = id
    <3>1. HT!InUse(nbrs', s) /\ nbrs'[s].id = id
      BY <1>5, <1>6, <1>10
    <3> QED
      BY <1>2, <1>4, <1>6, <2>1, <3>1 DEF HT!Listed
  <2>2. CASE j # id
    <3>1. heard'[j] = heard[j] /\ heard[j] \in 1..clock
      BY <1>4, <1>12, <2>2 DEF NeighbourTable
    <3>2. ASSUME \A i \in 1..n : HT!InUse(nbrs, i) /\ nbrs[i].at >= heard[j]
          PROVE  \A i \in 1..n : HT!InUse(nbrs', i) /\ nbrs'[i].at >= heard'[j]
      BY <1>2, <1>5, <1>6, <1>10, <3>1, <3>2
    <3>3. ASSUME NEW k \in 1..n, HT!InUse(nbrs, k), nbrs[k].id = j
          PROVE  \/ HT!Listed(nbrs', j)
                 \/ \A i \in 1..n : HT!InUse(nbrs', i) /\ nbrs'[i].at >= heard'[j]
      <4>1. CASE k # s
        BY <1>6, <1>10, <3>3, <4>1 DEF HT!Listed
      <4>2. CASE k = s
        <5>1. ~ HT!Listed(nbrs, id)
          BY <1>8, <2>2, <3>3, <4>2
        <5>2. \A i \in 1..n : HT!InUse(nbrs, i) /\ nbrs[s].at <= nbrs[i].at
          BY <1>9, <3>3, <4>2, <5>1
        <5>3. nbrs[s].at = heard[j]
          BY <1>1, <3>3, <4>2
        <5>4. \A i \in 1..n : HT!InUse(nbrs, i) /\ nbrs[i].at >= heard[j]
          BY <1>1, <3>1, <5>2, <5>3
        <5> QED
          BY <3>2, <5>4
      <4> QED
        BY <4>1, <4>2
    <3>4. \/ HT!Listed(nbrs, j)
          \/ \A i \in 1..n : HT!InUse(nbrs, i) /\ nbrs[i].at >= heard[j]
      BY <1>12, <3>1 DEF NeighbourTable
    <3> QED
      BY <1>1, <3>1, <3>2, <3>3, <3>4 DEF HT!Listed
  <2> QED
    BY <2>1, <2>2
<1> QED
  BY <1>2, <1>7, <1>11, <1>12 DEF NeighbourTable

LEMMA NeighboursKept ==
  ASSUME NoWrap, TypeOK, NeighbourTable, [Next]_vars
  PROVE  NeighbourTable'
<1>1. CASE \E id \in Ids : OnHello(id)
  BY <1>1, HelloNeighbours
<1>2. CASE UNCHANGED <<nbrs, heard>>
  <2>1. clock \in Nat /\ clock' \in {clock, clock + 1}
    <3>1. clock' \in {clock, clock + 1}
      BY DEF Next, vars, Relay, Hold, OnHello, HandleCtrl, LoopGc, Tick
    <3> QED
      BY <3>1 DEF TypeOK
  <2>2. \A id \in Ids : heard[id] \in 1..clock => heard[id] \in 1..clock'
    BY <2>1
  <2> QED
    BY <1>2, <2>2 DEF NeighbourTable
<1> QED
  BY <1>1, <1>2 DEF Next, vars, Relay, Hold, HandleCtrl, LoopGc, Tick

LEMMA NeighboursExact ==
  ASSUME NoWrap, TypeOK, NeighbourTable
  PROVE  NeighbourExact
<1> SUFFICES ASSUME NEW id \in Ids
             PROVE  /\ NeighbourKnown(id) => heard[id] # Never /\ clock - heard[id] <= NbrTtl
                    /\ heard[id] # Never /\ clock - heard[id] <= NbrTtl /\ ~NeighbourKnown(id) =>
                         Cardinality({j \in Ids \ {id} : heard[j] >= heard[id]}) >= NbrSlots
  BY DEF NeighbourExact
<1> DEFINE n == NbrSlots
           later == {j \in Ids \ {id} : heard[j] >= heard[id]}
<1>1. /\ HT!IsTable(nbrs, n) /\ DOMAIN nbrs = 1..n /\ HT!Tidy(nbrs)
      /\ \A i \in 1..n : HT!InUse(nbrs, i) =>
           /\ nbrs[i].id \in Ids /\ nbrs[i].at = heard[nbrs[i].id]
           /\ nbrs[i].at \in 1..clock
  BY NeighbourStamps DEF NeighbourTable
<1>2. clock \in 1..(TimeMod - 2) /\ Millis = clock
  BY ClockFits
<1>3. \A a \in 1..clock : Age(Millis, a) = clock - a
  <2> TAKE a \in 1..clock
  <2>1. clock - a \in 0..(TimeMod - 1) /\ clock - a \in Int
    BY <1>2
  <2> QED
    BY <1>2, <2>1, Remainder DEF Age
<1>4. ASSUME NeighbourKnown(id)
      PROVE  heard[id] # Never /\ clock - heard[id] <= NbrTtl
  <2>1. PICK i \in 1..n : /\ nbrs[i].id = id /\ nbrs[i].at # 0
                          /\ Age(Millis, nbrs[i].at) <= NbrTtl
    BY <1>1, <1>4 DEF NeighbourKnown
  <2>2. nbrs[i].at = heard[id] /\ nbrs[i].at \in 1..clock
    BY <1>1, <2>1 DEF HT!InUse
  <2> QED
    BY <1>3, <2>1, <2>2 DEF Never
<1>5. ASSUME heard[id] # Never, clock - heard[id] <= NbrTtl, ~NeighbourKnown(id)
      PROVE  Cardinality(later) >= n
  <2>1. heard[id] \in 1..clock
    BY <1>5 DEF NeighbourTable
  <2>2. ~ HT!Listed(nbrs, id)
    <3>1. ASSUME NEW i \in 1..n, HT!InUse(nbrs, i), nbrs[i].id = id
          PROVE  FALSE
      <4>1. nbrs[i].at = heard[id] /\ Age(Millis, nbrs[i].at) <= NbrTtl
        BY <1>1, <1>3, <1>5, <2>1, <3>1
      <4> QED
        BY <1>1, <1>5, <3>1, <4>1 DEF NeighbourKnown, HT!InUse
    <3> QED
      BY <1>1, <3>1 DEF HT!Listed
  <2>3. \A i \in 1..n : HT!InUse(nbrs, i) /\ nbrs[i].at >= heard[id]
    BY <1>5, <2>2 DEF NeighbourTable
  <2>4. \A i \in 1..n : nbrs[i].id \in later
    BY <1>1, <2>2, <2>3 DEF HT!Listed
  <2>5. IsFiniteSet(later)
    <3>1. IsFiniteSet(0..254)
      <4>1. 0 \in Int /\ 254 \in Int
        OBVIOUS
      <4> QED
        BY <4>1, FS_Interval, Zenon
    <3>2. later \in SUBSET (0..254)
      BY Inputs
    <3> QED
      BY <3>1, <3>2, FS_Subset
  <2> HIDE DEF later
  <2>6. DOMAIN nbrs = 1..n /\ HT!Tidy(nbrs) /\ \A i \in 1..n : HT!InUse(nbrs, i)
    BY <1>1, <2>3
  <2> QED
    BY <2>4, <2>5, <2>6, FullTable
<1> QED
  BY <1>4, <1>5

(* A neighbour is known if its last HELLO is recent and only then, but for *)
(* one that NBR_TABLE_SIZE others have been heard since.                   *)
THEOREM NeighboursAlwaysExact ==
  ASSUME NoWrap
  PROVE  Spec => []NeighbourExact
<1>1. Init => NeighbourTable
  <2> SUFFICES ASSUME Init
               PROVE  NeighbourTable
    OBVIOUS
  <2>1. \A i \in 1..NbrSlots : nbrs[i].at = 0
    BY DEF Init, T!Unused
  <2> QED
    BY <2>1 DEF Init, NeighbourTable, HT!Tidy, HT!InUse
<1>2. TypeOK /\ NeighbourTable /\ [Next]_vars => NeighbourTable'
  BY NeighboursKept
<1>3. TypeOK /\ NeighbourTable => NeighbourExact
  BY NeighboursExact
<1> QED
  BY <1>1, <1>2, <1>3, TypeCorrect, PTL DEF Spec

-----------------------------------------------------------------------------
(* The nonces.                                                             *)

LEMMA NonceTyped ==
  ASSUME TypeOK
  PROVE  /\ HT!IsTable(nonces, NonceSlots) /\ DOMAIN nonces = 1..NonceSlots
         /\ \A i \in 1..NonceSlots : nonces[i].nonce \in Nat
<1>1. nonces \in [1..NonceSlots -> HeardEntry]
  BY DEF TypeOK
<1> QED
  BY <1>1, SlotInTable DEF HeardEntry

(* An administrator without an entry is given an unused one.               *)
LEMMA RoomForAdmin ==
  ASSUME AdminsFit, TypeOK, NonceTable, NEW src \in Admins, ~ HT!Listed(nonces, src)
  PROVE  ~ HT!InUse(nonces, HT!SlotFor(nonces, src))
<1> DEFINE others == Admins \ {src}
<1>1. IsFiniteSet(Admins)
  <2>1. IsFiniteSet(0..254)
    <3>1. 0 \in Int /\ 254 \in Int
      OBVIOUS
    <3> QED
      BY <3>1, FS_Interval, Zenon
  <2>2. Admins \in SUBSET (0..254)
    BY Inputs
  <2> QED
    BY <2>1, <2>2, FS_Subset
<1>2. IsFiniteSet(others) /\ Cardinality(others) = Cardinality(Admins) - 1
  BY <1>1, FS_RemoveElement
<1>3. SUFFICES ASSUME HT!InUse(nonces, HT!SlotFor(nonces, src))
               PROVE  FALSE
  OBVIOUS
<1>4. \A i \in 1..NonceSlots : HT!InUse(nonces, i)
  BY <1>3, NonceTyped, HT!SlotOfStranger
<1>5. \A i \in 1..NonceSlots : nonces[i].id \in others
  BY <1>4, NonceTyped DEF NonceTable, HT!Listed
<1>6. DOMAIN nonces = 1..NonceSlots /\ HT!Tidy(nonces)
  BY NonceTyped DEF NonceTable
<1> HIDE DEF others
<1>7. Cardinality(others) >= NonceSlots
  BY <1>2, <1>4, <1>5, <1>6, FullTable
<1>8. Cardinality(Admins) \in Nat
  BY <1>1, FS_CardinalityType
<1> QED
  BY <1>2, <1>7, <1>8 DEF AdminsFit

LEMMA CtrlNonces ==
  ASSUME NoWrap, AdminsFit, TypeOK, NonceTable,
         NEW src \in Admins, NEW nonce \in Nonces, NEW c \in Commands,
         HandleCtrl(src, nonce, c)
  PROVE  NonceTable'
<1> DEFINE e == [id |-> src, at |-> clock, nonce |-> nonce]
           s == HT!SlotFor(nonces, src)
           n == NonceSlots
<1>1. /\ HT!IsTable(nonces, n) /\ DOMAIN nonces = 1..n /\ HT!Tidy(nonces)
      /\ \A i \in 1..n : nonces[i].nonce \in Nat
      /\ \A i \in 1..n : HT!InUse(nonces, i) => nonces[i].id \in Admins
      /\ \A a \in applied : \E i \in 1..n :
           /\ HT!InUse(nonces, i) /\ nonces[i].id = a[1] /\ nonces[i].nonce >= a[2]
  BY NonceTyped DEF NonceTable
<1>2. nonces' = HT!Put(nonces, e)
  BY ClockFits, PutIsPut DEF HandleCtrl, TypeOK
<1>3. e.at \in Nat \ {0} /\ e.id = src /\ e.nonce = nonce /\ nonce \in Nat
  BY ClockFits, Inputs
<1> HIDE DEF e
<1>4. /\ s \in 1..n /\ DOMAIN nonces' = 1..n /\ nonces'[s] = e
      /\ \A i \in 1..n \ {s} : nonces'[i] = nonces[i]
  <2>1. e.id = src
    BY <1>3
  <2>2. HT!IsTable(nonces, n)
    BY <1>1
  <2> QED
    BY <1>2, <2>1, <2>2, HT!PutIs
<1>5. HT!Tidy(nonces')
  BY <1>1, <1>2, <1>3, HT!PutIsTidy
<1>6. HT!InUse(nonces, s) => nonces[s].id = src /\ nonce > nonces[s].nonce
  <2> SUFFICES ASSUME HT!InUse(nonces, s)
               PROVE  nonces[s].id = src /\ nonce > nonces[s].nonce
    OBVIOUS
  <2>1. PICK k \in 1..n : HT!InUse(nonces, k) /\ nonces[k].id = src
    BY <1>1, RoomForAdmin DEF HT!Listed
  <2>2. s = k
    BY <1>1, <2>1, HT!SlotOfListed
  <2>3. T!SlotFor(nonces, src) = s
    BY SlotInTable DEF TypeOK
  <2> QED
    BY <2>1, <2>2, <2>3 DEF HandleCtrl, T!Accepts, T!Recorded, HT!InUse
<1>7. \A i \in 1..n : HT!InUse(nonces, i) /\ nonces[i].id = src => i = s
  BY <1>1, HT!SlotOfListed
<1> HIDE DEF s
<1>8. \A i \in 1..n : HT!InUse(nonces', i) <=> (i = s \/ HT!InUse(nonces, i))
  BY <1>3, <1>4 DEF HT!InUse
<1>9. applied \subseteq Admins \X Nonces /\ applied' = applied \cup {<<src, nonce>>}
  BY DEF HandleCtrl, TypeOK
<1>10. \A a \in applied : a[2] \in Nat
  <2> TAKE a \in applied
  <2>1. a \in Admins \X Nonces
    BY <1>9
  <2>2. a[2] \in Nonces
    BY <2>1
  <2> QED
    BY <2>2, Inputs
<1>11. ASSUME NEW a \in applied, a[1] = src
       PROVE  a[2] < nonce
  <2>1. PICK i \in 1..n : HT!InUse(nonces, i) /\ nonces[i].id = src /\ nonces[i].nonce >= a[2]
    BY <1>1, <1>11
  <2>2. i = s
    BY <1>7, <2>1
  <2>3. a[2] \in Nat
    BY <1>10
  <2> QED
    BY <1>1, <1>3, <1>6, <2>1, <2>2, <2>3
<1>12. replayed' = {}
  <2>1. ~ \E a \in applied : a[1] = src /\ a[2] >= nonce
    <3>1. ASSUME NEW a \in applied, a[1] = src
          PROVE  ~ (a[2] >= nonce)
      <4>1. a[2] \in Nat
        BY <1>10
      <4> QED
        BY <1>3, <1>11, <3>1, <4>1
    <3> QED
      BY <3>1
  <2> QED
    BY <2>1 DEF HandleCtrl, NonceTable, NoReplay
<1>13. \A i \in 1..n : HT!InUse(nonces', i) => nonces'[i].id \in Admins
  BY <1>1, <1>3, <1>4, <1>8
<1>14. ASSUME NEW a \in applied'
       PROVE  \E i \in 1..n : /\ HT!InUse(nonces', i) /\ nonces'[i].id = a[1]
                              /\ nonces'[i].nonce >= a[2]
  <2>1. CASE a[1] = src
    <3>1. a[2] <= nonce
      <4>1. CASE a = <<src, nonce>>
        BY <1>3, <4>1
      <4>2. CASE a \in applied
        <5>1. a[2] \in Nat
          BY <1>10, <4>2
        <5> QED
          BY <1>3, <1>11, <2>1, <4>2, <5>1
      <4> QED
        BY <1>9, <1>14, <4>1, <4>2
    <3> QED
      BY <1>3, <1>4, <1>8, <2>1, <3>1
  <2>2. CASE a[1] # src
    <3>1. a \in applied
      BY <1>9, <1>14, <2>2
    <3>2. PICK i \in 1..n : HT!InUse(nonces, i) /\ nonces[i].id = a[1] /\ nonces[i].nonce >= a[2]
      BY <1>1, <3>1
    <3>3. i # s
      BY <1>6, <2>2, <3>2
    <3> QED
      BY <1>4, <1>8, <3>2, <3>3
  <2> QED
    BY <2>1, <2>2
<1> QED
  BY <1>5, <1>12, <1>13, <1>14 DEF NonceTable, NoReplay

(* No command is obeyed twice, or after a newer one of its source, by a    *)
(* relay that has room for the nonce of every administrator.               *)
THEOREM NeverReplayed ==
  ASSUME NoWrap, AdminsFit
  PROVE  Spec => []NoReplay
<1>1. Init => NonceTable
  <2> SUFFICES ASSUME Init
               PROVE  NonceTable
    OBVIOUS
  <2>1. \A i \in 1..NonceSlots : nonces[i].at = 0
    BY DEF Init, T!Unused
  <2> QED
    BY <2>1 DEF Init, NonceTable, NoReplay, HT!Tidy, HT!InUse
<1>2. ASSUME TypeOK, NonceTable, [Next]_vars
      PROVE  NonceTable'
  <2>1. CASE \E src \in Admins, nonce \in Nonces, c \in Commands : HandleCtrl(src, nonce, c)
    BY <1>2, <2>1, CtrlNonces
  <2>2. CASE UNCHANGED <<nonces, applied, replayed>>
    BY <1>2, <2>2 DEF NonceTable, NoReplay
  <2> QED
    BY <1>2, <2>1, <2>2 DEF Next, vars, Relay, Hold, OnHello, LoopGc, Tick
<1>3. NonceTable => NoReplay
  BY DEF NonceTable
<1> QED
  BY <1>1, <1>2, <1>3, TypeCorrect, PTL DEF Spec

-----------------------------------------------------------------------------
(* Airtime.                                                                *)

LEMMA AllowedIsNat ==
  ASSUME NEW cap \in 0..255
  PROVE  Allowed(cap) \in Nat
<1>1. DutyWindow * cap \in Nat
  BY RelayAssumption
<1>2. \A x \in Nat : x \div 100 \in Nat
  OBVIOUS
<1> QED
  BY <1>1, <1>2 DEF Allowed

LEMMA ShareIsNat ==
  ASSUME NEW c \in Commands, NEW p \in Traffic
  PROVE  Allowed(c.cap) \in Nat /\ p.airtime \in Nat
<1>1. c.cap \in 0..255 /\ p.airtime \in Nat
  BY Inputs
<1> QED
  BY <1>1, AllowedIsNat

LEMMA WindowIs == DutyWindow \in Nat /\ DutyWindow >= 1
BY RelayAssumption

LEMMA BeforeIs ==
  ASSUME NEW t \in Nat, t >= 1
  PROVE  /\ Before(t) \in Nat /\ Before(t) <= t - 1
         /\ \A u \in Nat : t <= u => Before(t) <= Before(u)
         /\ \A u \in Nat : u - t >= DutyWindow => t <= Before(u)
BY WindowIs DEF Before

(* Of the airtime used in parts, each of them a share, half is a share.    *)
LEMMA SharesAdd ==
  ASSUME NEW x \in Nat, NEW y \in Nat, Share(x), Share(y), x + y > 0
  PROVE  \E c \in Commands, p \in Traffic : x + y <= 2 * (Allowed(c.cap) + p.airtime)
<1>1. CASE x >= y
  <2>1. PICK c \in Commands, p \in Traffic : x <= Allowed(c.cap) + p.airtime
    BY <1>1 DEF Share
  <2>2. Allowed(c.cap) \in Nat /\ p.airtime \in Nat
    BY ShareIsNat
  <2>3. x + y <= 2 * (Allowed(c.cap) + p.airtime)
    BY <1>1, <2>1, <2>2
  <2> QED
    BY <2>3
<1>2. CASE x < y
  <2>1. PICK c \in Commands, p \in Traffic : y <= Allowed(c.cap) + p.airtime
    BY <1>2 DEF Share
  <2>2. Allowed(c.cap) \in Nat /\ p.airtime \in Nat
    BY ShareIsNat
  <2>3. x + y <= 2 * (Allowed(c.cap) + p.airtime)
    BY <1>2, <2>1, <2>2
  <2> QED
    BY <2>3
<1> QED
  BY <1>1, <1>2

LEMMA DutyFromLedger ==
  ASSUME TypeOK, DutyLedger
  PROVE  DutyBounded
<1> DEFINE s == window.start
           before == IF clock > DutyWindow THEN clock - DutyWindow ELSE 0
           x == used[clock] - used[s - 1]
           y == used[s - 1] - used[Before(s)]
           airtime == used[clock] - used[before]
<1>1. /\ used \in [0..MaxClock -> Nat] /\ clock \in 1..MaxClock /\ s \in 1..clock
      /\ \A i, j \in 0..MaxClock : i <= j => used[i] <= used[j]
  BY DEF TypeOK, DutyLedger
<1>2. Share(x) /\ Share(y)
  BY DEF DutyLedger
<1>3. /\ s - 1 \in 0..MaxClock /\ s - 1 <= clock /\ clock \in 0..MaxClock
      /\ s \in Nat /\ s >= 1 /\ s <= clock /\ clock \in Nat /\ clock <= MaxClock
  <2>1. clock \in 1..MaxClock
    BY DEF TypeOK
  <2>2. s \in 1..clock
    BY DEF DutyLedger
  <2> HIDE DEF s
  <2> QED
    BY <2>1, <2>2
<1>4. /\ Before(s) \in 0..MaxClock /\ before \in 0..MaxClock
      /\ Before(s) <= s - 1 /\ Before(s) <= before
  <2>1. before = Before(clock)
    BY DEF Before
  <2> HIDE DEF before
  <2> QED
    BY <1>3, <2>1, BeforeIs
<1>5. /\ used[clock] \in Nat /\ used[s - 1] \in Nat /\ used[Before(s)] \in Nat
      /\ used[before] \in Nat
      /\ used[s - 1] <= used[clock] /\ used[Before(s)] <= used[s - 1]
      /\ used[Before(s)] <= used[before]
  BY <1>1, <1>3, <1>4
<1>6. x \in Nat /\ y \in Nat /\ airtime \in Int /\ airtime <= x + y
  BY <1>5
<1> HIDE DEF x, y, airtime
<1>7. airtime > 0 => \E c \in Commands, p \in Traffic : airtime <= 2 * (Allowed(c.cap) + p.airtime)
  <2> SUFFICES ASSUME airtime > 0
               PROVE  \E c \in Commands, p \in Traffic : airtime <= 2 * (Allowed(c.cap) + p.airtime)
    OBVIOUS
  <2>1. PICK c \in Commands, p \in Traffic : x + y <= 2 * (Allowed(c.cap) + p.airtime)
    BY <1>2, <1>6, SharesAdd
  <2>2. Allowed(c.cap) \in Nat /\ p.airtime \in Nat
    BY ShareIsNat
  <2>3. airtime <= 2 * (Allowed(c.cap) + p.airtime)
    BY <1>6, <2>1, <2>2
  <2> QED
    BY <2>3
<1> QED
  BY <1>7 DEF DutyBounded, airtime

LEMMA RelayWithinDuty ==
  ASSUME NoWrap, TypeOK, DutyLedger, NEW p \in Traffic, Relay(p)
  PROVE  DutyLedger'
<1> DEFINE s == window.start
           x == used[clock] - used[s - 1]
<1>1. /\ used \in [0..MaxClock -> Nat] /\ clock \in 1..MaxClock /\ s \in 1..clock
      /\ policy.cap \in 0..255 /\ window \in [start : 0..(TimeMod - 1), airtime : Nat]
      /\ p.airtime \in Nat
  BY Inputs DEF TypeOK, DutyLedger
<1>0. /\ clock \in Nat /\ clock >= 1 /\ clock <= MaxClock
      /\ s \in Nat /\ s >= 1 /\ s <= clock
  BY <1>1
<1>2. /\ policy.cap > 0 => \E c \in Commands : policy.cap = c.cap
      /\ \A i, j \in 0..MaxClock : i <= j => used[i] <= used[j]
      /\ \A t \in 0..MaxClock : t > clock => used[t] = used[clock]
      /\ clock - s >= DutyWindow => used[clock] = used[clock - 1]
      /\ x <= window.airtime /\ Share(x) /\ Share(used[s - 1] - used[Before(s)])
  BY DEF DutyLedger
<1>3. Age(Millis, s) = clock - s
  <2>1. Millis = clock /\ clock \in 1..(TimeMod - 2)
    BY ClockFits
  <2>2. clock - s \in 0..(TimeMod - 1) /\ clock - s \in Int
    BY <1>1, <2>1
  <2> QED
    BY <2>1, <2>2, Remainder DEF Age
<1>4. /\ clock' = clock /\ policy' = policy
      /\ window' = IF clock - s >= DutyWindow THEN [start |-> clock, airtime |-> p.airtime]
                   ELSE [window EXCEPT !.airtime = @ + p.airtime]
      /\ used' = IF policy.cap = 0 THEN used
                 ELSE [t \in 0..MaxClock |-> IF t < clock THEN used[t] ELSE used[t] + p.airtime]
      /\ policy.cap = 0 \/ clock - s >= DutyWindow \/ window.airtime < Allowed(policy.cap)
  BY <1>3, ClockFits DEF Relay, WindowAfter, ShouldRelay, Passes, DutyAllows
<1>5. /\ \A t \in 0..(clock - 1) : used'[t] = used[t]
      /\ used'[clock] = used[clock] + (IF policy.cap = 0 THEN 0 ELSE p.airtime)
      /\ \A i, j \in 0..MaxClock : i <= j => used'[i] <= used'[j]
      /\ \A t \in 0..MaxClock : t > clock => used'[t] = used'[clock]
  <2>1. CASE policy.cap = 0
    BY <1>1, <1>2, <1>4, <2>1
  <2>2. CASE policy.cap # 0
    <3>1. \A t \in 0..MaxClock : used'[t] = IF t < clock THEN used[t] ELSE used[t] + p.airtime
      BY <1>4, <2>2
    <3>2. \A t \in 0..(clock - 1) : used'[t] = used[t]
      BY <1>1, <3>1
    <3>3. used'[clock] = used[clock] + p.airtime
      BY <1>1, <3>1
    <3>4. ASSUME NEW i \in 0..MaxClock, NEW j \in 0..MaxClock, i <= j
          PROVE  used'[i] <= used'[j]
      <4>1. used[i] \in Nat /\ used[j] \in Nat /\ used[i] <= used[j]
        BY <1>1, <1>2, <3>4
      <4>2. /\ used'[i] = IF i < clock THEN used[i] ELSE used[i] + p.airtime
            /\ used'[j] = IF j < clock THEN used[j] ELSE used[j] + p.airtime
        BY <3>1
      <4> QED
        BY <1>0, <1>1, <3>4, <4>1, <4>2
    <3>5. \A t \in 0..MaxClock : t > clock => used'[t] = used'[clock]
      BY <1>1, <1>2, <3>1
    <3> QED
      BY <2>2, <3>2, <3>3, <3>4, <3>5
  <2> QED
    BY <2>1, <2>2
<1>6. /\ clock - 1 \in 0..(clock - 1) /\ s - 1 \in 0..(clock - 1)
      /\ Before(s) \in 0..(clock - 1) /\ Before(clock) \in 0..(clock - 1)
      /\ \A t \in 0..(clock - 1) : used[t] \in Nat /\ used'[t] = used[t]
      /\ used[clock] \in Nat /\ x \in Int
  <2>1. /\ clock - 1 \in 0..(clock - 1) /\ s - 1 \in 0..(clock - 1)
        /\ Before(s) \in 0..(clock - 1) /\ Before(clock) \in 0..(clock - 1)
    BY <1>0, BeforeIs
  <2>2. \A t \in 0..(clock - 1) : used[t] \in Nat /\ used'[t] = used[t]
    <3>1. 0..(clock - 1) \subseteq 0..MaxClock
      BY <1>1
    <3> QED
      BY <1>1, <1>5, <3>1, Zenon
  <2>3. used[clock] \in Nat
    BY <1>1
  <2> QED
    BY <2>1, <2>2, <2>3
<1>7. ASSUME policy.cap # 0
      PROVE  /\ Share(p.airtime)
             /\ window.airtime < Allowed(policy.cap) => Share(x + p.airtime)
  <2>1. PICK c \in Commands : policy.cap = c.cap
    <3> DEFINE cap == policy.cap
    <3>0. cap \in 0..255
      BY DEF TypeOK
    <3>1. cap # 0
      BY <1>7
    <3> HIDE DEF cap
    <3>2. cap > 0
      BY <3>0, <3>1
    <3> QED
      BY <1>2, <3>2 DEF cap
  <2>2. Allowed(c.cap) \in Nat
    BY ShareIsNat
  <2>3. p.airtime <= Allowed(c.cap) + p.airtime
    BY <1>1, <2>2
  <2>4. window.airtime < Allowed(policy.cap) => x + p.airtime <= Allowed(c.cap) + p.airtime
    <3> DEFINE most == Allowed(c.cap)
               sum  == window.airtime
               air  == p.airtime
    <3>1. sum \in Nat /\ air \in Nat /\ most \in Nat /\ x \in Int /\ x <= sum
          /\ Allowed(policy.cap) = most
      BY <1>1, <1>2, <1>6, <2>1, <2>2
    <3> HIDE DEF most, sum, air, x
    <3>2. sum < most => x + air <= most + air
      BY <3>1
    <3> QED
      BY <3>1, <3>2 DEF most, sum, air
  <2> QED
    BY <2>3, <2>4 DEF Share
<1>8. CASE clock - s >= DutyWindow
  <2>1. window'.start = clock /\ window'.airtime = p.airtime
    BY <1>4, <1>8
  <2>2. used[clock] = used[clock - 1]
    BY <1>2, <1>8
  <2>3. used'[clock] - used'[clock - 1] = IF policy.cap = 0 THEN 0 ELSE p.airtime
    <3> DEFINE more == IF policy.cap = 0 THEN 0 ELSE p.airtime
               now  == used[clock]
    <3>1. now \in Nat /\ more \in Nat /\ used'[clock] = now + more /\ used'[clock - 1] = now
      BY <1>1, <1>5, <1>6, <2>2
    <3> HIDE DEF more, now
    <3>2. (now + more) - now = more
      BY <3>1
    <3> QED
      BY <3>1, <3>2 DEF more
  <2>4. Share(used'[clock] - used'[clock - 1])
    <3>1. CASE policy.cap = 0
      BY <2>3, <3>1 DEF Share
    <3>2. CASE policy.cap # 0
      BY <1>7, <2>3, <3>2
    <3> QED
      BY <3>1, <3>2
  <2>5. Share(used'[clock - 1] - used'[Before(clock)])
    <3> DEFINE y == used[clock - 1] - used[Before(clock)]
    <3>1. s - 1 <= Before(clock) /\ Before(clock) \in 0..MaxClock /\ s - 1 \in 0..MaxClock
      BY <1>0, <1>8, BeforeIs
    <3>2. used[s - 1] <= used[Before(clock)]
      BY <1>2, <3>1
    <3>3. y \in Int /\ y <= x
      BY <1>6, <2>2, <3>2
    <3> HIDE DEF x, y
    <3>4. Share(y)
      <4> SUFFICES ASSUME y > 0
                   PROVE  \E c \in Commands, q \in Traffic : y <= Allowed(c.cap) + q.airtime
        BY DEF Share
      <4>1. PICK c \in Commands, q \in Traffic : x <= Allowed(c.cap) + q.airtime
        BY <1>2, <1>6, <3>3 DEF Share
      <4>2. Allowed(c.cap) \in Nat /\ q.airtime \in Nat
        BY ShareIsNat
      <4>3. y <= Allowed(c.cap) + q.airtime
        BY <1>6, <3>3, <4>1, <4>2
      <4> QED
        BY <4>3
    <3> QED
      BY <1>6, <3>4 DEF y
  <2>6. used'[clock] - used'[clock - 1] <= p.airtime
    BY <1>1, <2>3
  <2>7. /\ window'.start \in 1..clock' /\ ~(clock' - window'.start >= DutyWindow)
    BY <1>1, <1>4, <2>1, WindowIs
  <2> QED
    BY <1>2, <1>4, <1>5, <2>1, <2>4, <2>5, <2>6, <2>7 DEF DutyLedger, Before
<1>9. CASE ~(clock - s >= DutyWindow)
  <2>1. window'.start = s /\ window'.airtime = window.airtime + p.airtime
    BY <1>1, <1>4, <1>9
  <2>2. used'[clock] - used'[s - 1] = x + (IF policy.cap = 0 THEN 0 ELSE p.airtime)
    <3> DEFINE more == IF policy.cap = 0 THEN 0 ELSE p.airtime
               now  == used[clock]
               old  == used[s - 1]
    <3>1. now \in Nat /\ old \in Nat /\ more \in Nat /\ used'[clock] = now + more
          /\ used'[s - 1] = old
      BY <1>1, <1>5, <1>6
    <3> HIDE DEF more, now, old
    <3>2. (now + more) - old = (now - old) + more
      BY <3>1
    <3> QED
      BY <3>1, <3>2 DEF more, now, old
  <2>3. used'[clock] - used'[s - 1] <= window.airtime + p.airtime
    <3> DEFINE sum == window.airtime
               air == p.airtime
               new == used'[clock] - used'[s - 1]
    <3>1. sum \in Nat /\ air \in Nat /\ x \in Int /\ x <= sum /\ (new = x \/ new = x + air)
      BY <1>1, <1>2, <1>6, <2>2
    <3> HIDE DEF sum, air, x, new
    <3>2. new <= sum + air
      BY <3>1
    <3> QED
      BY <3>2 DEF sum, air, new
  <2>4. Share(used'[clock] - used'[s - 1])
    <3>1. CASE policy.cap = 0
      BY <1>2, <1>6, <2>2, <3>1
    <3>2. CASE policy.cap # 0
      BY <1>4, <1>7, <1>9, <2>2, <3>2
    <3> QED
      BY <3>1, <3>2
  <2>5. Share(used'[s - 1] - used'[Before(s)])
    BY <1>2, <1>6
  <2>6. window'.start \in 1..clock' /\ ~(clock' - window'.start >= DutyWindow)
    BY <1>1, <1>4, <1>9, <2>1
  <2> QED
    BY <1>2, <1>4, <1>5, <2>1, <2>3, <2>4, <2>5, <2>6 DEF DutyLedger, Before
<1> QED
  BY <1>8, <1>9

LEMMA DutyKept ==
  ASSUME NoWrap, TypeOK, DutyLedger, [Next]_vars
  PROVE  DutyLedger'
<1>1. CASE Tick
  <2>1. /\ clock' = clock + 1 /\ clock + 1 \in 0..MaxClock /\ clock \in Nat
        /\ UNCHANGED <<policy, window, used>>
    BY <1>1 DEF Tick, TypeOK
  <2>2. used[clock + 1] = used[clock] /\ (clock + 1) - 1 = clock
    BY <2>1 DEF DutyLedger
  <2>3. window.start \in 1..(clock + 1)
    BY <2>1 DEF DutyLedger
  <2> QED
    BY <2>1, <2>2, <2>3 DEF DutyLedger, Before
<1>2. CASE \E src \in Admins, nonce \in Nonces, c \in Commands : HandleCtrl(src, nonce, c)
  <2>1. /\ UNCHANGED <<clock, window, used>>
        /\ \E c \in Commands : policy'.cap = c.cap
    BY <1>2 DEF HandleCtrl, ApplyCtrl
  <2> QED
    BY <2>1 DEF DutyLedger, Before
<1>3. CASE UNCHANGED <<clock, policy, window, used>>
  BY <1>3 DEF DutyLedger, Before
<1> QED
  BY <1>1, <1>2, <1>3, RelayWithinDuty DEF Next, vars, Hold, OnHello, LoopGc

(* While it has a cap the relay uses in any window of that length no more  *)
(* than two shares and two packets: one of each for the two windows that   *)
(* it may straddle (duty_allows, relay_ctrl_note_tx).                      *)
THEOREM DutyAlwaysBounded ==
  ASSUME NoWrap
  PROVE  Spec => []DutyBounded
<1>1. Init => DutyLedger
  <2> SUFFICES ASSUME Init
               PROVE  DutyLedger
    OBVIOUS
  <2>1. /\ clock = 1 /\ window.start = 1 /\ window.airtime = 0 /\ policy.cap = 0
        /\ \A t \in 0..MaxClock : used[t] = 0
    BY DEF Init
  <2>2. Before(1) = 0 /\ 0 \in 0..MaxClock /\ 1 \in 0..MaxClock /\ Share(0)
    BY WindowIs DEF Before, Share
  <2> QED
    BY <2>1, <2>2, WindowIs DEF DutyLedger
<1> QED
  BY <1>1, DutyKept, DutyFromLedger, TypeCorrect, PTL DEF Spec
=============================================================================
