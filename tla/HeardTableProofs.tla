-------------------------- MODULE HeardTableProofs --------------------------
(***************************************************************************)
(* What the two tables of src/relay_control.cpp do for every number of     *)
(* entries: as long as no entry in use is stamped 0, the entries in use    *)
(* come first and are each another id's, an id finds its own entry, and    *)
(* only a full table forgets one, the one heard longest ago.               *)
(***************************************************************************)
EXTENDS HeardTable, FiniteSetTheorems, WellFoundedInduction, TLAPS

InUse(t, i) == t[i].at # 0

IsTable(t, n) == DOMAIN t = 1..n /\ \A i \in 1..n : t[i].at \in Nat

(* Entries in use come before the others, one for each id.                 *)
Tidy(t) ==
  /\ \A i, j \in DOMAIN t : i < j /\ InUse(t, j) => InUse(t, i)
  /\ \A i, j \in DOMAIN t :
       InUse(t, i) /\ InUse(t, j) /\ t[i].id = t[j].id => i = j

Listed(t, id) == \E i \in DOMAIN t : InUse(t, i) /\ t[i].id = id

-----------------------------------------------------------------------------
(* Minima.                                                                 *)

(* Of some naturals one is the least.                                      *)
LEMMA LeastOf ==
  ASSUME NEW S, S \subseteq Nat, S # {}
  PROVE  \E i \in S : \A j \in S : i <= j
<1> DEFINE Below == {ss \in Nat \X Nat : ss[1] < ss[2]}
<1>1. IsWellFoundedOn(Below, Nat)
  BY NatLessThanWellFounded, Zenon DEF OpToRel
<1>2. \A i, j \in Nat : j < i => <<j, i>> \in Below
  OBVIOUS
<1> HIDE DEF Below
<1>3. PICK i \in S : \A j \in S : ~ (<<j, i>> \in Below)
  BY <1>1, WFMin, Zenon
<1>4. \A j \in S : ~ (j < i)
  BY <1>2, <1>3, Zenon
<1>5. \A j \in S : i <= j
  BY <1>4
<1> QED
  BY <1>5

LEMMA FirstIsLeast ==
  ASSUME NEW S, S \subseteq Nat, S # {}
  PROVE  FirstOf(S) \in S /\ \A j \in S : FirstOf(S) <= j
<1>1. \E i \in S : \A j \in S : i <= j
  BY LeastOf
<1> QED
  BY <1>1 DEF FirstOf

-----------------------------------------------------------------------------
(* The slot an id is given.                                                *)

(* What SlotFor finds.                                                     *)
LEMMA SlotFound ==
  ASSUME NEW n \in Nat \ {0}, NEW t, IsTable(t, n), NEW id
  PROVE  LET s == SlotFor(t, id) IN
         /\ s \in 1..n
         /\ (\E i \in 1..n : t[i].at = 0 \/ t[i].id = id) =>
              /\ t[s].at = 0 \/ t[s].id = id
              /\ \A i \in 1..n : t[i].at = 0 \/ t[i].id = id => s <= i
         /\ ~ (\E i \in 1..n : t[i].at = 0 \/ t[i].id = id) =>
              \A j \in 1..n : t[s].at <= t[j].at \/ ~ (t[j].at < TimeMax)
<1> DEFINE usable  == {i \in DOMAIN t : t[i].at = 0 \/ t[i].id = id}
           stamped == {i \in DOMAIN t : t[i].at < TimeMax}
           oldest  == {i \in stamped : \A j \in stamped : t[i].at <= t[j].at}
           s == SlotFor(t, id)
<1>1. DOMAIN t = 1..n /\ DOMAIN t # {} /\ \A i \in 1..n : t[i].at \in Nat
  BY DEF IsTable
<1>2. s = IF usable # {} THEN FirstOf(usable)
          ELSE IF oldest # {} THEN FirstOf(oldest)
          ELSE FirstOf(DOMAIN t)
  BY DEF SlotFor
<1>3. stamped # {} => oldest # {}
  <2> SUFFICES ASSUME stamped # {}
               PROVE  oldest # {}
    OBVIOUS
  <2> DEFINE ages == {t[i].at : i \in stamped}
  <2>1. ages \subseteq Nat /\ ages # {}
    BY <1>1
  <2>2. PICK a \in ages : \A b \in ages : a <= b
    BY <2>1, LeastOf
  <2> QED
    BY <2>2
<1>4. usable \subseteq 1..n /\ oldest \subseteq stamped /\ stamped \subseteq 1..n
  BY <1>1
<1>5. \A S \in SUBSET (1..n) : S # {} =>
        FirstOf(S) \in S /\ \A j \in S : FirstOf(S) <= j
  <2> TAKE S \in SUBSET (1..n)
  <2>1. S \subseteq Nat
    OBVIOUS
  <2> QED
    BY <2>1, FirstIsLeast
<1>6. s \in 1..n
  <2> HIDE DEF usable, stamped, oldest, s
  <2> QED
    BY <1>1, <1>2, <1>4, <1>5
<1>7. CASE usable # {}
  <2>1. s \in usable /\ \A j \in usable : s <= j
    <3> HIDE DEF usable, stamped, oldest, s
    <3> QED
      BY <1>2, <1>4, <1>5, <1>7
  <2> HIDE DEF s
  <2>2. /\ t[s].at = 0 \/ t[s].id = id
        /\ \A i \in 1..n : t[i].at = 0 \/ t[i].id = id => s <= i
    BY <1>1, <2>1
  <2>3. \E i \in 1..n : t[i].at = 0 \/ t[i].id = id
    BY <1>1, <1>7
  <2> QED
    BY <1>6, <2>2, <2>3 DEF s
<1>8. CASE usable = {}
  <2>1. ~ \E i \in 1..n : t[i].at = 0 \/ t[i].id = id
    BY <1>1, <1>8
  <2>2. oldest # {} => s \in oldest
    <3> HIDE DEF usable, stamped, oldest, s
    <3> QED
      BY <1>2, <1>4, <1>5, <1>8
  <2> HIDE DEF s
  <2>3. \A j \in 1..n : t[s].at <= t[j].at \/ ~ (t[j].at < TimeMax)
    BY <1>1, <1>3, <2>2
  <2> QED
    BY <1>6, <2>1, <2>3 DEF s
<1> QED
  BY <1>7, <1>8

(* An id is looked for inside the table.                                   *)
LEMMA SlotInTable ==
  ASSUME NEW n \in Nat \ {0}, NEW t, IsTable(t, n), NEW id
  PROVE  SlotFor(t, id) \in 1..n
BY SlotFound

(* A listed id finds its own entry.                                        *)
LEMMA SlotOfListed ==
  ASSUME NEW n \in Nat \ {0}, NEW t, IsTable(t, n), Tidy(t), NEW id,
         NEW i \in 1..n, InUse(t, i), t[i].id = id
  PROVE  SlotFor(t, id) = i
<1> DEFINE s == SlotFor(t, id)
<1>1. s \in 1..n /\ (t[s].at = 0 \/ t[s].id = id) /\ s <= i /\ DOMAIN t = 1..n
  BY SlotFound DEF IsTable
<1> HIDE DEF s
<1>2. s < i => InUse(t, s)
  BY <1>1 DEF Tidy
<1>3. InUse(t, s) => s = i
  BY <1>1 DEF Tidy, InUse
<1> QED
  BY <1>1, <1>2, <1>3 DEF s

(* Another id is given an unused entry or, when there is none, the oldest. *)
LEMMA SlotOfStranger ==
  ASSUME NEW n \in Nat \ {0}, NEW t, IsTable(t, n), NEW id, ~ Listed(t, id)
  PROVE  LET s == SlotFor(t, id) IN
         /\ s \in 1..n
         /\ \A i \in 1..n : i < s => InUse(t, i) \/ InUse(t, s)
         /\ InUse(t, s) =>
              /\ \A i \in 1..n : InUse(t, i)
              /\ \A j \in 1..n : t[s].at <= t[j].at \/ ~ (t[j].at < TimeMax)
<1> DEFINE s == SlotFor(t, id)
<1>1. \A i \in 1..n : InUse(t, i) => t[i].id # id
  BY DEF Listed, IsTable
<1>2. s \in 1..n
  BY SlotFound
<1>3. CASE \E i \in 1..n : t[i].at = 0 \/ t[i].id = id
  <2>1. (t[s].at = 0 \/ t[s].id = id) /\ \A i \in 1..n : t[i].at = 0 \/ t[i].id = id => s <= i
    BY <1>3, SlotFound
  <2> HIDE DEF s
  <2>2. ~ InUse(t, s) /\ \A i \in 1..n : i < s => InUse(t, i)
    BY <1>1, <1>2, <2>1 DEF InUse
  <2> QED
    BY <1>2, <2>2 DEF s
<1>4. CASE ~ \E i \in 1..n : t[i].at = 0 \/ t[i].id = id
  <2>1. \A j \in 1..n : t[s].at <= t[j].at \/ ~ (t[j].at < TimeMax)
    BY <1>4, SlotFound
  <2> HIDE DEF s
  <2>2. \A i \in 1..n : InUse(t, i)
    BY <1>4 DEF InUse
  <2> QED
    BY <1>2, <2>1, <2>2 DEF s
<1> QED
  BY <1>3, <1>4

(* An id is recorded if and only if some entry in use is its own.          *)
LEMMA RecordedIsListed ==
  ASSUME NEW n \in Nat \ {0}, NEW t, IsTable(t, n), Tidy(t), NEW id
  PROVE  Recorded(t, id) <=> Listed(t, id)
<1>1. SlotFor(t, id) \in 1..n /\ DOMAIN t = 1..n
  BY SlotInTable DEF IsTable
<1>2. Recorded(t, id) => Listed(t, id)
  BY <1>1 DEF Recorded, Listed, InUse
<1>3. ASSUME Listed(t, id)
      PROVE  Recorded(t, id)
  <2>1. PICK i \in 1..n : InUse(t, i) /\ t[i].id = id
    BY <1>1, <1>3 DEF Listed
  <2>2. SlotFor(t, id) = i
    BY <2>1, SlotOfListed
  <2> QED
    BY <2>1, <2>2 DEF Recorded, InUse
<1> QED
  BY <1>2, <1>3

-----------------------------------------------------------------------------
(* The table after a Put.                                                  *)

LEMMA PutIs ==
  ASSUME NEW n \in Nat \ {0}, NEW t, IsTable(t, n), NEW e
  PROVE  LET s == SlotFor(t, e.id) IN
         /\ s \in 1..n /\ DOMAIN Put(t, e) = 1..n /\ Put(t, e)[s] = e
         /\ \A i \in 1..n \ {s} : Put(t, e)[i] = t[i]
BY SlotInTable DEF Put, IsTable

LEMMA PutIsTidy ==
  ASSUME NEW n \in Nat \ {0}, NEW t, IsTable(t, n), Tidy(t), NEW e, e.at \in Nat \ {0}
  PROVE  IsTable(Put(t, e), n) /\ Tidy(Put(t, e))
<1> DEFINE s == SlotFor(t, e.id)
           u == Put(t, e)
<1>1. /\ s \in 1..n /\ DOMAIN u = 1..n /\ u[s] = e
      /\ \A i \in 1..n \ {s} : u[i] = t[i]
  BY PutIs
<1>2. DOMAIN t = 1..n /\ \A i \in 1..n : t[i].at \in Nat
  BY DEF IsTable
<1>3. /\ \A i \in 1..n \ {s} : InUse(t, i) => t[i].id # e.id
      /\ \A i \in 1..n : i < s => InUse(t, i)
  <2>1. CASE Listed(t, e.id)
    <3>1. PICK k \in 1..n : InUse(t, k) /\ t[k].id = e.id
      BY <1>2, <2>1 DEF Listed
    <3>2. s = k
      BY <3>1, SlotOfListed
    <3> HIDE DEF s
    <3> QED
      BY <1>1, <1>2, <3>1, <3>2 DEF Tidy
  <2>2. CASE ~ Listed(t, e.id)
    <3>1. \A i \in 1..n : i < s => InUse(t, i) \/ InUse(t, s)
      BY <2>2, SlotOfStranger
    <3>2. InUse(t, s) => \A i \in 1..n : InUse(t, i)
      BY <2>2, SlotOfStranger
    <3> HIDE DEF s
    <3> QED
      BY <1>1, <1>2, <2>2, <3>1, <3>2 DEF Listed
  <2> QED
    BY <2>1, <2>2
<1> HIDE DEF s, u
<1>4. InUse(u, s) /\ \A i \in 1..n \ {s} : InUse(u, i) <=> InUse(t, i)
  BY <1>1 DEF InUse
<1>5. \A i, j \in 1..n : i < j /\ InUse(u, j) => InUse(u, i)
  <2> SUFFICES ASSUME NEW i \in 1..n, NEW j \in 1..n, i < j, InUse(u, j)
               PROVE  InUse(u, i)
    OBVIOUS
  <2>1. CASE i = s
    BY <1>4, <2>1
  <2>2. CASE i # s /\ j = s
    BY <1>3, <1>4, <2>2
  <2>3. CASE i # s /\ j # s
    BY <1>2, <1>4, <2>3 DEF Tidy
  <2> QED
    BY <2>1, <2>2, <2>3
<1>6. \A i, j \in 1..n : InUse(u, i) /\ InUse(u, j) /\ u[i].id = u[j].id => i = j
  <2> SUFFICES ASSUME NEW i \in 1..n, NEW j \in 1..n,
                      InUse(u, i), InUse(u, j), u[i].id = u[j].id
               PROVE  i = j
    OBVIOUS
  <2>1. CASE i = s \/ j = s
    BY <1>1, <1>3, <1>4, <2>1
  <2>2. CASE i # s /\ j # s
    BY <1>1, <1>2, <1>4, <2>2 DEF Tidy
  <2> QED
    BY <2>1, <2>2
<1>7. \A i \in 1..n : u[i].at \in Nat
  BY <1>1, <1>2
<1> QED
  BY <1>1, <1>5, <1>6, <1>7 DEF IsTable, Tidy, u

(* A full table takes as many ids as it has entries.                       *)
LEMMA FullTable ==
  ASSUME NEW n \in Nat, NEW t, DOMAIN t = 1..n, Tidy(t),
         \A i \in 1..n : InUse(t, i),
         NEW S, IsFiniteSet(S), \A i \in 1..n : t[i].id \in S
  PROVE  Cardinality(S) >= n
<1> DEFINE owner == [i \in 1..n |-> t[i].id]
<1>1. owner \in [1..n -> S]
  OBVIOUS
<1>2. IsFiniteSet(1..n) /\ Cardinality(1..n) = n /\ Cardinality(S) \in Nat
  BY FS_Interval, FS_CardinalityType
<1>3. ASSUME Cardinality(S) < n
      PROVE  FALSE
  <2>1. \E i, j \in 1..n : i # j /\ owner[i] = owner[j]
    <3> HIDE DEF owner
    <3> QED
      BY <1>1, <1>2, <1>3, FS_PigeonHole
  <2> QED
    BY <2>1 DEF Tidy
<1> QED
  BY <1>2, <1>3

LEMMA UnusedIsTidy ==
  ASSUME NEW n \in Nat, NEW t, DOMAIN t = 1..n, \A i \in 1..n : t[i] = Unused
  PROVE  IsTable(t, n) /\ Tidy(t)
BY DEF IsTable, Tidy, InUse, Unused
=============================================================================
