----------------------------- MODULE HeardTable -----------------------------
(***************************************************************************)
(* The two fixed tables of src/relay_control.cpp that are keyed by a node  *)
(* id and reuse the entry heard longest ago: s_nbrs and s_nonces.  An      *)
(* entry is [id, at, nonce]; at = 0 marks an unused one, and a neighbour   *)
(* has no nonce.                                                           *)
(***************************************************************************)
EXTENDS Integers

CONSTANT TimeMax   \* UINT32_MAX, where the scan for the oldest starts

Unused == [id |-> 0, at |-> 0, nonce |-> 0]

FirstOf(S) == CHOOSE i \in S : \A j \in S : i <= j

(* The first entry that is id's or unused, else the oldest.                *)
SlotFor(t, id) ==
  LET usable  == {i \in DOMAIN t : t[i].at = 0 \/ t[i].id = id}
      stamped == {i \in DOMAIN t : t[i].at < TimeMax}
      oldest  == {i \in stamped : \A j \in stamped : t[i].at <= t[j].at}
  IN  IF usable # {} THEN FirstOf(usable)
      ELSE IF oldest # {} THEN FirstOf(oldest)
      ELSE FirstOf(DOMAIN t)

Recorded(t, id) == t[SlotFor(t, id)].at # 0 /\ t[SlotFor(t, id)].id = id

(* Faults: the last nonce itself is accepted again; the entry compared may *)
(* be another source's.                                                    *)
AcceptsEqual(t, src, nonce) ==
  Recorded(t, src) => nonce >= t[SlotFor(t, src)].nonce
AcceptsAboveAny(t, src, nonce) == nonce > t[SlotFor(t, src)].nonce

(* The nonce is higher than the last one obeyed from its source.           *)
Accepts(t, src, nonce) ==
  Recorded(t, src) => nonce > t[SlotFor(t, src)].nonce

Put(t, entry) == [t EXCEPT ![SlotFor(t, entry.id)] = entry]
=============================================================================
