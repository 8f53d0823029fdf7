---------------------------- MODULE RelayControl ----------------------------
(***************************************************************************)
(* The relay policy engine of a T-Beam (src/relay_control.cpp): what the   *)
(* relay repeats, what it holds for a node it has not heard, which         *)
(* RELAY_CTRL commands it obeys and how much airtime it uses.              *)
(*                                                                         *)
(* The sketch that calls it is outside the repository: it hands over every *)
(* packet that passed its own duplicate check, reports its                 *)
(* transmissions (relay_ctrl_note_tx), HELLOs and RELAY_CTRLs, and calls   *)
(* relay_ctrl_loop.                                                        *)
(*                                                                         *)
(* Abstracted: packet contents, the HMAC (a command that fails it changes  *)
(* a counter), the counters, and RELAY_STATUS, which only reports.         *)
(***************************************************************************)
EXTENDS StoreForward

CONSTANTS
  Ids,           \* nodes that say HELLO or are addressed
  Admins,        \* nodes that send RELAY_CTRL
  NbrSlots,      \* NBR_TABLE_SIZE
  NonceSlots,    \* NONCE_TABLE_SIZE
  NbrTtl,        \* NBR_TTL_MS
  GcPeriod,      \* relay_ctrl_loop collects garbage this often
  DutyWindow,    \* DUTY_WINDOW_MS
  TtlMax,        \* SF_TTL_HARD_MAX_S
  InitialLimit,  \* s_sf_queue_max at boot
  Commands,      \* policies that admins send
  Nonces,        \* nonces that admins use
  Traffic,       \* packets the sketch asks about: [type, dst, rssi, airtime]
  MaxClock,      \* bound: milliseconds since boot
  MaxAirtime     \* bound: airtime in a window without a cap

Never == -1

TypesInUse == {p.type : p \in Traffic}

T == INSTANCE HeardTable WITH TimeMax <- TimeMod - 1

Modes == {"OFF", "FLOOD", "ROUTED", "STORE_FWD", "SELECTIVE"}

ASSUME RelayAssumption ==
  /\ Ids \subseteq 0..254 /\ Admins \subseteq 0..254 /\ Nonces \subseteq Nat
  /\ NbrSlots \in Nat \ {0} /\ NonceSlots \in Nat \ {0}
  /\ NbrTtl \in Nat /\ GcPeriod \in Nat /\ DutyWindow \in Nat \ {0}
  /\ TtlMax \in Nat /\ MaxClock \in Nat \ {0} /\ MaxAirtime \in Nat
  /\ InitialLimit \in 0..QueueSlots
  /\ \A c \in Commands : c.limit \in Nat /\ c.ttl \in Nat /\ c.cap \in 0..255
  /\ \A p \in Traffic : p.airtime \in Nat /\ p.dst \in Ids \cup {255}
  /\ Free \notin [dst : Ids, at : 0..(TimeMod - 1)]

VARIABLES
  clock,     \* milliseconds since boot, not wrapped
  policy,    \* s_mode, s_rssi_floor, s_duty_cap_pct, s_type_mask, ...
  sf,        \* s_sf and s_sf_depth
  nbrs,      \* s_nbrs
  nonces,    \* s_nonces
  window,    \* s_window_start_ms and s_window_airtime_ms
  lastGc,    \* last_gc
  heard,     \* history: clock of the last HELLO of each id
  applied,   \* history: <<src, nonce>> of the commands obeyed
  replayed,  \* history: those obeyed after one as high from that source
  used       \* history: airtime used up to each clock while a cap was set

vars == <<clock, policy, sf, nbrs, nonces, window, lastGc, heard, applied,
          replayed, used>>

Millis == clock % TimeMod

Init ==
  /\ clock = 1
  /\ policy = [mode |-> "FLOOD", floor |-> -128, cap |-> 0, mask |-> TypesInUse,
               limit |-> InitialLimit, ttl |-> TtlMax]
  /\ sf = EmptyQueue
  /\ nbrs = [i \in 1..NbrSlots |-> T!Unused]
  /\ nonces = [i \in 1..NonceSlots |-> T!Unused]
  /\ window = [start |-> 1, airtime |-> 0]
  /\ lastGc = 0
  /\ heard = [id \in Ids |-> Never]
  /\ applied = {} /\ replayed = {}
  /\ used = [t \in 0..MaxClock |-> 0]

-----------------------------------------------------------------------------
(* relay_should_relay                                                      *)

(* Fault: an entry never goes out of date.                                 *)
NeighbourListed(id) == T!Recorded(nbrs, id)

NeighbourKnown(id) ==
  \E i \in DOMAIN nbrs : /\ nbrs[i].id = id /\ nbrs[i].at # 0
                         /\ Age(Millis, nbrs[i].at) <= NbrTtl

Allowed(cap) == (DutyWindow * cap) \div 100

DutyAllows ==
  \/ policy.cap = 0
  \/ Age(Millis, window.start) >= DutyWindow
  \/ window.airtime < Allowed(policy.cap)

Passes(p) == policy.mode # "OFF" /\ p.rssi >= policy.floor /\ DutyAllows

(* Addressed to everybody, or to a node this relay can reach.              *)
Reachable(p) == p.dst = 255 \/ NeighbourKnown(p.dst)

ShouldRelay(p) ==
  /\ Passes(p)
  /\ CASE policy.mode = "FLOOD"     -> TRUE
       [] policy.mode = "SELECTIVE" -> p.type \in policy.mask
       [] OTHER                     -> Reachable(p)

ShouldHold(p) ==
  /\ Passes(p) /\ policy.mode = "STORE_FWD"
  /\ ~Reachable(p) /\ p.type = "MSG"

(* Fault: the window is never started again.                               *)
WindowNeverReset(airtime) == [window EXCEPT !.airtime = @ + airtime]

(* relay_ctrl_note_tx                                                      *)
WindowAfter(airtime) ==
  IF Age(Millis, window.start) >= DutyWindow
  THEN [start |-> Millis, airtime |-> airtime]
  ELSE [window EXCEPT !.airtime = @ + airtime]

Relay(p) ==
  /\ ShouldRelay(p)
  /\ policy.cap = 0 => window.airtime <= MaxAirtime
  /\ window' = WindowAfter(p.airtime)
  /\ used' = IF policy.cap = 0 THEN used
             ELSE [t \in 0..MaxClock |-> IF t < clock THEN used[t] ELSE used[t] + p.airtime]
  /\ UNCHANGED <<clock, policy, sf, nbrs, nonces, lastGc, heard, applied,
                 replayed>>

Hold(p) ==
  /\ ShouldHold(p)
  /\ sf' = Enqueue(sf, policy.limit, [dst |-> p.dst, at |-> Millis])
  /\ UNCHANGED <<clock, policy, nbrs, nonces, window, lastGc, heard, applied,
                 replayed, used>>

-----------------------------------------------------------------------------
(* relay_ctrl_on_hello                                                     *)

OnHello(id) ==
  /\ nbrs' = T!Put(nbrs, [id |-> id, at |-> Millis, nonce |-> 0])
  /\ sf' = IF policy.mode = "STORE_FWD" /\ sf.depth > 0
           THEN FlushFor(sf, id) ELSE sf
  /\ heard' = [heard EXCEPT ![id] = clock]
  /\ UNCHANGED <<clock, policy, nonces, window, lastGc, applied, replayed,
                 used>>

-----------------------------------------------------------------------------
(* relay_ctrl_handle_packet, for a command to this relay or to all whose   *)
(* HMAC is right.                                                          *)

AtMost(x, bound) == IF x < bound THEN x ELSE bound

(* Fault: the limits of the command are taken as they come.                *)
ApplyVerbatim(c) == [c EXCEPT !.mode = IF @ \in Modes THEN @ ELSE policy.mode]

ApplyCtrl(c) ==
  [mode  |-> IF c.mode \in Modes THEN c.mode ELSE policy.mode,
   floor |-> c.floor, cap |-> c.cap, mask |-> c.mask,
   limit |-> AtMost(c.limit, QueueSlots),
   ttl   |-> AtMost(c.ttl, TtlMax)]

HandleCtrl(src, nonce, c) ==
  /\ T!Accepts(nonces, src, nonce)
  /\ nonces' = T!Put(nonces, [id |-> src, at |-> Millis, nonce |-> nonce])
  /\ policy' = ApplyCtrl(c)
  /\ applied' = applied \cup {<<src, nonce>>}
  /\ replayed' = IF \E a \in applied : a[1] = src /\ a[2] >= nonce
                 THEN replayed \cup {<<src, nonce>>} ELSE replayed
  /\ UNCHANGED <<clock, sf, nbrs, window, lastGc, heard, used>>

-----------------------------------------------------------------------------
(* relay_ctrl_loop: garbage collection; the status heartbeat is left out.  *)

LoopGc ==
  /\ Age(Millis, lastGc) >= GcPeriod
  /\ lastGc' = Millis
  /\ sf' = CollectGarbage(sf, Millis, policy.ttl)
  /\ UNCHANGED <<clock, policy, nbrs, nonces, window, heard, applied,
                 replayed, used>>

Tick ==
  /\ clock < MaxClock /\ clock' = clock + 1
  /\ UNCHANGED <<policy, sf, nbrs, nonces, window, lastGc, heard, applied,
                 replayed, used>>

Next ==
  \/ \E p \in Traffic : Relay(p) \/ Hold(p)
  \/ \E id \in Ids : OnHello(id)
  \/ \E src \in Admins, nonce \in Nonces, c \in Commands : HandleCtrl(src, nonce, c)
  \/ LoopGc
  \/ Tick

Spec == Init /\ [][Next]_vars

-----------------------------------------------------------------------------
(* Properties.                                                             *)

HeardEntry == [id : 0..254, at : 0..(TimeMod - 1), nonce : Nat]

(* Every variable has its type.                                            *)
TypeOK ==
  /\ clock \in 1..MaxClock
  /\ policy.mode \in Modes /\ policy.cap \in 0..255
  /\ policy.limit \in 0..QueueSlots /\ policy.ttl \in 0..TtlMax
  /\ sf.slots \in [Slot -> [dst : Ids, at : 0..(TimeMod - 1)] \cup {Free}]
  /\ sf.depth \in 0..(DepthMod - 1)
  /\ nbrs \in [1..NbrSlots -> HeardEntry]
  /\ nonces \in [1..NonceSlots -> HeardEntry]
  /\ window \in [start : 0..(TimeMod - 1), airtime : Nat]
  /\ lastGc \in 0..(TimeMod - 1)
  /\ heard \in [Ids -> Nat \cup {Never}]
  /\ applied \subseteq Admins \X Nonces /\ replayed \subseteq applied
  /\ used \in [0..MaxClock -> Nat]

(* s_sf_depth is the number of packets held.  The flush, the eviction and  *)
(* RELAY_STATUS (protocol.h:167 "currently held packets") rely on it.      *)
DepthIsOccupancy == sf.depth = Cardinality(Held(sf))

(* The queue grows only up to the limit in force (protocol.h:150).         *)
GrowsWithinLimit ==
  [][Cardinality(Held(sf')) > Cardinality(Held(sf))
       => Cardinality(Held(sf')) <= policy.limit]_vars

(* A held packet leaves for one of three reasons: its destination said     *)
(* HELLO in STORE_FWD mode, it outlived its ttl, or it was the oldest one  *)
(* in a full queue.                                                        *)
LeavesForAReason ==
  [][\A i \in Held(sf) : LET e == sf.slots[i] IN sf'.slots[i] # e =>
       \/ policy.mode = "STORE_FWD" /\ heard'[e.dst] = clock
       \/ clock - e.at > policy.ttl
       \/ /\ Cardinality(Held(sf)) >= policy.limit
          /\ \A j \in Held(sf) : e.at <= sf.slots[j].at]_vars

(* After a HELLO in STORE_FWD mode nothing is held for its sender.         *)
HelloReleases ==
  [][\A id \in Ids : OnHello(id) /\ policy.mode = "STORE_FWD"
                       => HeldFor(sf', id) = {}]_vars

(* No command is obeyed after one with as high a nonce from its source     *)
(* (protocol.h:140), as long as the sources fit in the table.              *)
NoReplay == replayed = {}

(* A neighbour is known only while its last HELLO is recent, and a recent  *)
(* one is unknown only if the table was needed for as many others since.   *)
NeighbourExact ==
  \A id \in Ids :
    LET recent == heard[id] # Never /\ clock - heard[id] <= NbrTtl
    IN  /\ NeighbourKnown(id) => recent
        /\ recent /\ ~NeighbourKnown(id) =>
             Cardinality({j \in Ids \ {id} : heard[j] >= heard[id]}) >= NbrSlots

(* In any DUTY_WINDOW_MS the relay uses, while it has a cap, no more than   *)
(* the share of a cap and one packet in each of the two windows that these *)
(* milliseconds may straddle.                                              *)
DutyBounded ==
  LET before  == IF clock > DutyWindow THEN clock - DutyWindow ELSE 0
      airtime == used[clock] - used[before]
  IN  airtime > 0 => \E c \in Commands, p \in Traffic :
        airtime <= 2 * (Allowed(c.cap) + p.airtime)
=============================================================================
