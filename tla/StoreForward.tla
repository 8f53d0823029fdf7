---------------------------- MODULE StoreForward ----------------------------
(***************************************************************************)
(* The store-and-forward queue of a T-Beam relay (src/relay_control.cpp):  *)
(* the array s_sf and the counter s_sf_depth, as operators on one record.  *)
(* An entry keeps its destination, the millis() it was stored at and a     *)
(* packet; a free slot is one whose len is 0.                              *)
(***************************************************************************)
EXTENDS Integers, FiniteSets

CONSTANTS
  QueueSlots,  \* SF_QUEUE_HARD_MAX
  TimeMod,     \* millis() wraps here, 2^32
  DepthMod,    \* s_sf_depth wraps here, 2^16
  Free         \* content of a free slot

ASSUME StoreForwardAssumption ==
  /\ QueueSlots \in Nat \ {0}
  /\ TimeMod \in Nat /\ TimeMod > 1
  /\ DepthMod \in Nat /\ DepthMod > QueueSlots

Slot == 0..(QueueSlots - 1)

Held(q) == {i \in Slot : q.slots[i] # Free}

EmptyQueue == [slots |-> [i \in Slot |-> Free], depth |-> 0]

(* Milliseconds from `then` to `now`, in unsigned 32-bit arithmetic.       *)
Age(now, then) == (now - then) % TimeMod

Lowest(S) == CHOOSE i \in S : \A j \in S : i <= j

(* Fault: the slot is freed and s_sf_depth is forgotten.                   *)
ReleaseUncounted(q, S) ==
  [q EXCEPT !.slots = [i \in Slot |-> IF i \in S THEN Free ELSE @[i]]]

(* Free the slots S, decrementing s_sf_depth once for each.                *)
Release(q, S) ==
  [slots |-> [i \in Slot |-> IF i \in S THEN Free ELSE q.slots[i]],
   depth |-> (q.depth - Cardinality(S)) % DepthMod]

(* Fault: the newest entry makes room.                                     *)
NewestSlot(q) ==
  LET newest == {i \in Held(q) : \A j \in Held(q) : q.slots[j].at <= q.slots[i].at}
  IN  IF newest = {} THEN 0 ELSE Lowest(newest)

(* The scan starts from UINT32_MAX and slot 0, and needs a smaller stamp.  *)
OldestSlot(q) ==
  LET stamped == {i \in Held(q) : q.slots[i].at < TimeMod - 1}
      oldest  == {i \in stamped : \A j \in stamped : q.slots[i].at <= q.slots[j].at}
  IN  IF oldest = {} THEN 0 ELSE Lowest(oldest)

Evict(q) == Release(q, {OldestSlot(q)})

Store(q, entry) ==
  IF Held(q) = Slot THEN q
  ELSE [slots |-> [q.slots EXCEPT ![Lowest(Slot \ Held(q))] = entry],
        depth |-> (q.depth + 1) % DepthMod]

(* Fault: off by one, room is made only past the limit.                    *)
EnqueuePastLimit(q, limit, entry) ==
  Store(IF q.depth > limit THEN Evict(q) ELSE q, entry)

(* sf_enqueue                                                              *)
Enqueue(q, limit, entry) ==
  Store(IF q.depth >= limit THEN Evict(q) ELSE q, entry)

HeldFor(q, dst) == {i \in Held(q) : q.slots[i].dst = dst}

(* Fault: the scan stops at the first match.                               *)
FlushFirstFor(q, dst) ==
  IF HeldFor(q, dst) = {} THEN q ELSE Release(q, {Lowest(HeldFor(q, dst))})

(* sf_flush_for: an entry goes whether or not its transmission succeeds.   *)
FlushFor(q, dst) == Release(q, HeldFor(q, dst))

Expired(q, now, ttl) == {i \in Held(q) : Age(now, q.slots[i].at) > ttl}

(* sf_gc                                                                   *)
CollectGarbage(q, now, ttl) == Release(q, Expired(q, now, ttl))
=============================================================================
