------------------------- MODULE ControlPlaneProofs -------------------------
(***************************************************************************)
(* What the control plane promises, proved for every set of stations and   *)
(* relays, every size of the nonce table and every bound.  Neither the     *)
(* order of nonces nor the absence of lockouts is inductive: Ledger ties   *)
(* the nonce in a station's memory, at each of its steps, to its file and  *)
(* to the air, and a relay's table to the commands it has obeyed.          *)
(***************************************************************************)
EXTENDS ControlPlane, FiniteSetTheorems, TLAPS

HT == INSTANCE HeardTableProofs

USE ControlAssumption

(* Commands are numbered in the order of their issue.                      *)
Numbered ==
  /\ IsFiniteSet(air)
  /\ \A s \in Stations : \A c \in Issued(s) : c.serial <= Cardinality(Issued(s))

(* The nonce in a station's memory is ahead of the air, and saved before   *)
(* it is used; the file covers the air; nonces follow the order of issue.  *)
InOrder(s) ==
  /\ At(s, "ready") => \A c \in Issued(s) : c.nonce <= admin[s].nonce
  /\ At(s, "counted") \/ At(s, "saved") =>
       \A c \in Issued(s) : c.nonce < admin[s].nonce
  /\ At(s, "saved") => file[s] \in {None, admin[s].nonce}
  /\ file[s] # None => \A c \in Issued(s) : c.nonce <= file[s]
  /\ \A c, d \in Issued(s) : c.serial < d.serial => c.nonce < d.nonce

Orderly == \A s \in Stations \ behind : InOrder(s)

ObeyedWasIssued == \A r \in Relays : \A i \in DOMAIN obeyed[r] : obeyed[r][i] \in air

(* Every entry in use stands for a command obeyed since the relay booted.  *)
TableIsObeyed ==
  \A r \in Relays : \A i \in 1..NonceSlots : nonces[r][i].at # 0 =>
    \E k \in DOMAIN obeyed[r] : /\ obeyed[r][k].src = nonces[r][i].id
                                /\ obeyed[r][k].nonce = nonces[r][i].nonce

(* The table still holds the command at k, or a newer one of its source.   *)
Remembered(r, k) ==
  \E i \in 1..NonceSlots :
    /\ HT!InUse(nonces[r], i) /\ nonces[r][i].id = obeyed[r][k].src
    /\ nonces[r][i].at >= k /\ nonces[r][i].nonce >= obeyed[r][k].nonce

Since(r, k) == {obeyed[r][m].src : m \in k..Len(obeyed[r])} \ {obeyed[r][k].src}

(* What a relay remembers of the commands it has obeyed: the last of each  *)
(* source, until it has obeyed NonceSlots other sources.                   *)
Memory(r) ==
  /\ Len(obeyed[r]) <= MaxObeyed
  /\ HT!Tidy(nonces[r])
  /\ \A i \in 1..NonceSlots : HT!InUse(nonces[r], i) =>
       /\ nonces[r][i].at \in DOMAIN obeyed[r]
       /\ obeyed[r][nonces[r][i].at].src = nonces[r][i].id
  /\ \A k \in DOMAIN obeyed[r] :
       Remembered(r, k) \/ Cardinality(Since(r, k)) >= NonceSlots

(* No two commands of a station have the same number.                      *)
Distinct ==
  \A s \in Stations : \A c, d \in Issued(s) : c.serial = d.serial => c = d

Ledger == TypeOK /\ Numbered /\ Orderly /\ ObeyedWasIssued /\ TableIsObeyed

-----------------------------------------------------------------------------
(* A station's entry is looked for inside the table.                       *)
LEMMA SlotInTable ==
  ASSUME NEW t, HT!IsTable(t, NonceSlots), NEW id
  PROVE  T!SlotFor(t, id) \in 1..NonceSlots /\ T!SlotFor(t, id) = HT!SlotFor(t, id)
<1>1. HT!SlotFor(t, id) \in 1..NonceSlots
  BY HT!SlotInTable
<1>2. T!SlotFor(t, id) = HT!SlotFor(t, id)
  BY DEF T!SlotFor, HT!SlotFor, T!FirstOf, HT!FirstOf
<1> QED
  BY <1>1, <1>2

LEMMA TableTyped ==
  ASSUME TypeOK, NEW r \in Relays
  PROVE  HT!IsTable(nonces[r], NonceSlots) /\ DOMAIN nonces[r] = 1..NonceSlots
BY DEF TypeOK, HT!IsTable

-----------------------------------------------------------------------------
(* Types.                                                                  *)

LEMMA NonceLoaded ==
  ASSUME TypeOK, NEW s \in Stations
  PROVE  LoadNonce(s) \in Nat
BY DEF TypeOK, LoadNonce

LEMMA StationTyped ==
  ASSUME TypeOK, NEW s \in Stations,
         \/ Start(s) \/ CountNonce(s) \/ SaveNonce(s)
         \/ Abandon(s) \/ Stop(s) \/ LoseFile(s)
  PROVE  TypeOK'
<1> DEFINE Process == [pc : {"down", "ready", "counted", "saved"}, nonce : Nat]
<1>1. admin \in [Stations -> Process] /\ file \in [Stations -> Nat \cup {None}]
  BY DEF TypeOK
<1>2. admin[s] \in Process
  BY <1>1
<1>3. admin' \in [Stations -> Process]
  <2>1. ASSUME NEW new \in Process, admin' = [admin EXCEPT ![s] = new]
        PROVE  admin' \in [Stations -> Process]
    BY <1>1, <2>1
  <2>2. CASE Start(s)
    BY <2>1, <2>2, NonceLoaded DEF Start
  <2>3. CASE CountNonce(s)
    BY <1>1, <1>2, <2>1, <2>3 DEF CountNonce
  <2>4. CASE SaveNonce(s) \/ Abandon(s)
    BY <1>1, <1>2, <2>4 DEF SaveNonce, Abandon, Goto
  <2>5. CASE Stop(s)
    BY <2>1, <2>5 DEF Stop
  <2>6. CASE LoseFile(s)
    BY <1>1, <2>6 DEF LoseFile
  <2> QED
    BY <2>2, <2>3, <2>4, <2>5, <2>6
<1>4. file' \in [Stations -> Nat \cup {None}]
  <2>1. UNCHANGED file \/ \E new \in Nat \cup {None} : file' = [file EXCEPT ![s] = new]
    BY <1>2 DEF Start, CountNonce, SaveNonce, Abandon, Stop, LoseFile
  <2> QED
    BY <1>1, <2>1
<1>5. mishaps' \in 0..MaxMishaps /\ behind' \subseteq Stations
  <2>1. UNCHANGED mishaps \/ Mishap
    BY DEF Start, CountNonce, SaveNonce, Abandon, Stop, LoseFile
  <2>2. behind' \in {behind, behind \cup {s}}
    BY DEF Start, CountNonce, SaveNonce, Abandon, Stop, LoseFile
  <2> QED
    BY <2>1, <2>2 DEF Mishap, TypeOK
<1>6. UNCHANGED <<wall, air, nonces, obeyed>>
  BY DEF Start, CountNonce, SaveNonce, Abandon, Stop, LoseFile
<1> QED
  BY <1>3, <1>4, <1>5, <1>6 DEF TypeOK

(* The command that SendRaw puts on the air.                               *)
Sent(s, dst) == [src |-> s, nonce |-> admin[s].nonce, dst |-> dst,
                 serial |-> Cardinality(Issued(s)) + 1]

LEMMA IssuedIsFinite ==
  ASSUME Numbered, NEW s \in Stations
  PROVE  /\ IsFiniteSet(Issued(s)) /\ Cardinality(Issued(s)) \in Nat
         /\ Cardinality(air) \in Nat /\ Cardinality(Issued(s)) <= Cardinality(air)
<1>1. Issued(s) \in SUBSET air
  BY DEF Issued
<1> QED
  BY <1>1, FS_Subset, FS_CardinalityType DEF Numbered

LEMMA SendRawTyped ==
  ASSUME TypeOK, Numbered, NEW s \in Stations, NEW dst \in Targets, SendRaw(s, dst)
  PROVE  TypeOK'
<1>1. Cardinality(Issued(s)) + 1 \in 1..MaxIssued
  BY IssuedIsFinite DEF SendRaw
<1>2. Sent(s, dst) \in Command
  BY <1>1 DEF Sent, Command, TypeOK
<1>3. air' = air \cup {Sent(s, dst)}
  BY DEF SendRaw, Sent
<1> QED
  BY <1>2, <1>3 DEF SendRaw, Goto, TypeOK

LEMMA RelayTyped ==
  ASSUME TypeOK, NEW r \in Relays, Reboot(r) \/ \E c \in air : HandleCtrl(r, c)
  PROVE  TypeOK'
<1> DEFINE Entry == [id : Stations \cup {0}, at : Nat, nonce : Nat]
<1>1. CASE Reboot(r)
  <2>1. NoNonces \in [1..NonceSlots -> Entry]
    BY DEF NoNonces, T!Unused
  <2>2. nonces' \in [Relays -> [1..NonceSlots -> Entry]]
    BY <1>1, <2>1 DEF Reboot, TypeOK
  <2>3. obeyed' \in [Relays -> Seq(Command)]
    BY <1>1 DEF Reboot, TypeOK
  <2>4. UNCHANGED <<wall, file, admin, air, behind>> /\ mishaps' \in 0..MaxMishaps
    BY <1>1 DEF Reboot, Mishap, TypeOK
  <2> QED
    BY <2>2, <2>3, <2>4 DEF TypeOK
<1>2. ASSUME NEW c \in air, HandleCtrl(r, c)
      PROVE  TypeOK'
  <2>1. c \in Command /\ obeyed[r] \in Seq(Command)
    BY DEF TypeOK
  <2> DEFINE entry == [id |-> c.src, at |-> Len(obeyed[r]) + 1, nonce |-> c.nonce]
  <2>2. entry \in Entry
    BY <2>1 DEF Command
  <2> HIDE DEF entry
  <2>3. T!Put(nonces[r], entry) \in [1..NonceSlots -> Entry]
    BY <2>2 DEF T!Put, TypeOK
  <2>4. nonces' \in [Relays -> [1..NonceSlots -> Entry]]
    BY <1>2, <2>3 DEF HandleCtrl, TypeOK, entry
  <2>5. obeyed' \in [Relays -> Seq(Command)]
    BY <1>2, <2>1 DEF HandleCtrl, TypeOK
  <2> QED
    BY <1>2, <2>4, <2>5 DEF HandleCtrl, TypeOK, Command
<1> QED
  BY <1>1, <1>2

LEMMA TypeKept ==
  ASSUME TypeOK, Numbered, [Next]_vars
  PROVE  TypeOK'
<1>1. CASE Tick
  BY <1>1 DEF Tick, TypeOK
<1>2. CASE UNCHANGED vars
  BY <1>2 DEF vars, TypeOK
<1>3. CASE \E s \in Stations : \/ Start(s) \/ CountNonce(s) \/ SaveNonce(s)
                              \/ Abandon(s) \/ Stop(s) \/ LoseFile(s)
                              \/ \E dst \in Targets : SendRaw(s, dst)
  BY <1>3, StationTyped, SendRawTyped, Zenon
<1>4. CASE \E r \in Relays : Reboot(r) \/ \E c \in air : HandleCtrl(r, c)
  BY <1>4, RelayTyped, Zenon
<1> QED
  BY <1>1, <1>2, <1>3, <1>4, Zenon DEF Next

-----------------------------------------------------------------------------
(* The air.                                                                *)

LEMMA AirStill ==
  ASSUME [Next]_vars, ~ \E s \in Stations, dst \in Targets : SendRaw(s, dst)
  PROVE  UNCHANGED air
BY DEF Next, vars, Start, CountNonce, SaveNonce, Abandon, Stop, LoseFile,
       Reboot, HandleCtrl, Tick

LEMMA AirGrows ==
  ASSUME TypeOK, Numbered, NEW s \in Stations, NEW dst \in Targets, SendRaw(s, dst)
  PROVE  /\ air' = air \cup {Sent(s, dst)} /\ Sent(s, dst).src = s
         /\ Issued(s)' = Issued(s) \cup {Sent(s, dst)}
         /\ \A t \in Stations \ {s} : Issued(t)' = Issued(t)
         /\ \A c \in Issued(s) : c.serial < Sent(s, dst).serial
         /\ Sent(s, dst).serial = Cardinality(Issued(s)) + 1
<1>1. air' = air \cup {Sent(s, dst)} /\ Sent(s, dst).src = s
  BY DEF SendRaw, Sent
<1>2. Sent(s, dst).serial = Cardinality(Issued(s)) + 1
  BY DEF Sent
<1>3. \A c \in Issued(s) : c.serial < Sent(s, dst).serial
  <2>1. \A c \in Issued(s) : c.serial \in Nat
    BY DEF Issued, TypeOK, Command
  <2> QED
    BY <1>2, <2>1, IssuedIsFinite DEF Numbered
<1> HIDE DEF Sent
<1>4. \A t \in Stations : Issued(t)' =
        IF t = s THEN Issued(t) \cup {Sent(s, dst)} ELSE Issued(t)
  BY <1>1 DEF Issued
<1> QED
  BY <1>1, <1>2, <1>3, <1>4

LEMMA NumberedKept ==
  ASSUME TypeOK, Numbered, [Next]_vars
  PROVE  Numbered'
<1>1. ASSUME UNCHANGED air
      PROVE  Numbered'
  BY <1>1 DEF Numbered, Issued
<1>2. ASSUME NEW s \in Stations, NEW dst \in Targets, SendRaw(s, dst)
      PROVE  Numbered'
  <2>1. IsFiniteSet(air')
    BY <1>2, AirGrows, FS_AddElement DEF Numbered
  <2>2. Sent(s, dst) \notin Issued(s)
    <3>1. Cardinality(Issued(s)) \in Nat
      BY IssuedIsFinite
    <3> QED
      BY <1>2, <3>1, AirGrows
  <2>3. Cardinality(Issued(s)') = Cardinality(Issued(s)) + 1
    BY <1>2, <2>2, AirGrows, IssuedIsFinite, FS_AddElement
  <2>4. \A c \in Issued(s)' : c.serial <= Cardinality(Issued(s)')
    <3>1. Cardinality(Issued(s)) \in Nat
      BY IssuedIsFinite
    <3>2. \A c \in Issued(s) : c.serial \in Nat
      BY DEF Issued, TypeOK, Command
    <3> QED
      BY <1>2, <2>3, <3>1, <3>2, AirGrows DEF Numbered
  <2>5. \A t \in Stations \ {s} : \A c \in Issued(t)' : c.serial <= Cardinality(Issued(t)')
    BY <1>2, AirGrows DEF Numbered
  <2> QED
    BY <2>1, <2>4, <2>5 DEF Numbered
<1> QED
  BY <1>1, <1>2, AirStill

-----------------------------------------------------------------------------
(* A station's order.                                                      *)

LEMMA OrderTyped ==
  ASSUME TypeOK, NEW s \in Stations
  PROVE  /\ admin[s].nonce \in Nat /\ file[s] \in Nat \cup {None}
         /\ DOMAIN admin = Stations /\ DOMAIN file = Stations
         /\ \A c \in Issued(s) : c.nonce \in Nat /\ c.serial \in Nat
BY DEF TypeOK, Issued, Command

(* A step of one station leaves the order of the others.                   *)
LEMMA OthersInOrder ==
  ASSUME NEW t, InOrder(t), UNCHANGED <<admin[t], file[t], Issued(t)>>
  PROVE  InOrder(t)'
BY DEF InOrder, At

LEMMA StationInOrder ==
  ASSUME TypeOK, NEW s \in Stations, s \notin behind => InOrder(s), s \notin behind',
         \/ Start(s) \/ CountNonce(s) \/ SaveNonce(s)
         \/ Abandon(s) \/ Stop(s) \/ LoseFile(s)
  PROVE  InOrder(s)'
<1>1. InOrder(s) /\ Issued(s)' = Issued(s)
  BY DEF Start, CountNonce, SaveNonce, Abandon, Stop, LoseFile, Issued
<1> DEFINE I == Issued(s)
           old == admin[s].nonce
<1>2. /\ \A c \in I : c.nonce \in Nat /\ c.serial \in Nat
      /\ old \in Nat /\ file[s] \in Nat \cup {None}
      /\ DOMAIN admin = Stations /\ DOMAIN file = Stations
  BY OrderTyped
<1>3. CASE Start(s)
  <2>1. At(s, "ready")' /\ admin'[s].nonce = LoadNonce(s) /\ file' = file
    BY <1>2, <1>3 DEF Start, At
  <2>2. \A c \in I : c.nonce <= LoadNonce(s)
    <3>1. CASE file[s] = None
      <4>1. ~ \E c \in I : c.nonce > wall
        BY <1>3, <3>1 DEF Start
      <4> QED
        BY <1>2, <3>1, <4>1 DEF LoadNonce, TypeOK
    <3>2. CASE file[s] # None
      BY <1>1, <3>2 DEF InOrder, LoadNonce
    <3> QED
      BY <3>1, <3>2
  <2> QED
    BY <1>1, <2>1, <2>2 DEF InOrder, At
<1>4. CASE CountNonce(s)
  <2>1. At(s, "counted")' /\ admin'[s].nonce = old + 1 /\ file' = file /\ At(s, "ready")
    BY <1>2, <1>4 DEF CountNonce, At
  <2>2. \A c \in I : c.nonce < old + 1
    BY <1>1, <1>2, <2>1 DEF InOrder
  <2> QED
    BY <1>1, <2>1, <2>2 DEF InOrder, At
<1>5. CASE SaveNonce(s)
  <2>1. /\ At(s, "saved")' /\ admin'[s].nonce = old /\ file'[s] = old
        /\ At(s, "counted")
    BY <1>2, <1>5 DEF SaveNonce, Goto, At
  <2>2. \A c \in I : c.nonce < old /\ c.nonce <= old
    BY <1>1, <1>2, <2>1 DEF InOrder
  <2> QED
    BY <1>1, <2>1, <2>2 DEF InOrder, At
<1>6. CASE Abandon(s)
  <2>1. /\ At(s, "ready")' /\ admin'[s].nonce = old /\ file' = file
        /\ At(s, "counted") \/ At(s, "saved")
    BY <1>2, <1>6 DEF Abandon, Goto, At
  <2>2. \A c \in I : c.nonce <= old
    BY <1>1, <1>2, <2>1 DEF InOrder
  <2> QED
    BY <1>1, <2>1, <2>2 DEF InOrder, At
<1>7. CASE Stop(s)
  <2>1. At(s, "down")' /\ file' = file
    BY <1>2, <1>7 DEF Stop, At
  <2> QED
    BY <1>1, <2>1 DEF InOrder, At
<1>8. CASE LoseFile(s)
  <2>1. file'[s] = None /\ admin' = admin
    BY <1>2, <1>8 DEF LoseFile
  <2> QED
    BY <1>1, <2>1 DEF InOrder, At
<1> QED
  BY <1>3, <1>4, <1>5, <1>6, <1>7, <1>8

LEMMA SendInOrder ==
  ASSUME TypeOK, Numbered, NEW s \in Stations, InOrder(s),
         NEW dst \in Targets, SendRaw(s, dst)
  PROVE  InOrder(s)'
<1> DEFINE new == Sent(s, dst)
           I == Issued(s)
<1>1. /\ Issued(s)' = I \cup {new} /\ new.nonce = admin[s].nonce /\ new.serial \in Nat
      /\ \A c \in I : c.serial < new.serial
  BY AirGrows, IssuedIsFinite DEF Sent
<1>2. /\ \A c \in I : c.nonce \in Nat /\ c.serial \in Nat
      /\ admin[s].nonce \in Nat /\ file[s] \in Nat \cup {None}
      /\ DOMAIN admin = Stations
  BY OrderTyped
<1>3. At(s, "saved") /\ At(s, "ready")' /\ admin'[s].nonce = admin[s].nonce /\ file' = file
  BY <1>2 DEF SendRaw, Built, Goto, At
<1>4. \A c \in I : c.nonce < new.nonce /\ c.nonce <= new.nonce
  BY <1>1, <1>2, <1>3 DEF InOrder
<1>5. file[s] # None => file[s] = new.nonce
  BY <1>1, <1>3 DEF InOrder
<1> HIDE DEF new, I
<1>6. \A c \in I \cup {new} : c.nonce <= new.nonce
  BY <1>1, <1>2, <1>4
<1>7. \A c, d \in I \cup {new} : c.serial < d.serial => c.nonce < d.nonce
  <2>1. \A c, d \in I : c.serial < d.serial => c.nonce < d.nonce
    BY DEF InOrder, I
  <2> QED
    BY <1>1, <1>2, <1>4, <2>1
<1> QED
  BY <1>1, <1>3, <1>5, <1>6, <1>7 DEF InOrder, At

LEMMA OrderKept ==
  ASSUME TypeOK, Numbered, Orderly, [Next]_vars
  PROVE  Orderly'
<1>1. ASSUME UNCHANGED <<file, admin, air, behind>>
      PROVE  Orderly'
  BY <1>1, OthersInOrder DEF Orderly, Issued
<1>2. ASSUME NEW s \in Stations,
             \/ Start(s) \/ CountNonce(s) \/ SaveNonce(s)
             \/ Abandon(s) \/ Stop(s) \/ LoseFile(s)
      PROVE  Orderly'
  <2>1. behind \subseteq behind'
    BY <1>2 DEF Start, CountNonce, SaveNonce, Abandon, Stop, LoseFile
  <2>2. \A t \in Stations \ {s} : UNCHANGED <<admin[t], file[t], Issued(t)>>
    BY <1>2, OrderTyped
    DEF Start, CountNonce, SaveNonce, Abandon, Stop, LoseFile, Goto, Issued
  <2>3. s \notin behind' => InOrder(s)'
    BY <1>2, StationInOrder DEF Orderly
  <2> QED
    BY <2>1, <2>2, <2>3, OthersInOrder DEF Orderly
<1>3. ASSUME NEW s \in Stations, NEW dst \in Targets, SendRaw(s, dst)
      PROVE  Orderly'
  <2>1. behind' = behind
    BY <1>3 DEF SendRaw
  <2>2. \A t \in Stations \ {s} : UNCHANGED <<admin[t], file[t], Issued(t)>>
    BY <1>3, OrderTyped, AirGrows DEF SendRaw, Goto
  <2>3. s \notin behind' => InOrder(s)'
    BY <1>3, <2>1, SendInOrder DEF Orderly
  <2> QED
    BY <2>1, <2>2, <2>3, OthersInOrder DEF Orderly
<1>4. CASE \E r \in Relays : Reboot(r) \/ \E c \in air : HandleCtrl(r, c)
  BY <1>1, <1>4 DEF Reboot, HandleCtrl
<1>5. CASE Tick \/ UNCHANGED vars
  BY <1>1, <1>5 DEF Tick, vars
<1> QED
  BY <1>2, <1>3, <1>4, <1>5, Zenon DEF Next

-----------------------------------------------------------------------------
(* A relay's table.                                                        *)

(* The stations' steps and the clock leave the relays alone, and nothing   *)
(* that was transmitted is taken back.                                     *)
LEMMA RelaysStill ==
  ASSUME [Next]_vars
  PROVE  /\ air \subseteq air'
         /\ \/ UNCHANGED <<nonces, obeyed>>
            \/ \E r \in Relays : Reboot(r) \/ \E c \in air : HandleCtrl(r, c)
BY DEF Next, vars, Start, CountNonce, SaveNonce, Abandon, Stop, LoseFile, SendRaw,
       Reboot, HandleCtrl, Tick

LEMMA RelayKept ==
  ASSUME TypeOK, ObeyedWasIssued, TableIsObeyed, [Next]_vars
  PROVE  ObeyedWasIssued' /\ TableIsObeyed'
<1>1. CASE UNCHANGED <<nonces, obeyed>>
  BY <1>1, RelaysStill DEF ObeyedWasIssued, TableIsObeyed
<1>2. ASSUME NEW r \in Relays, Reboot(r)
      PROVE  ObeyedWasIssued' /\ TableIsObeyed'
  <2>1. /\ air' = air /\ obeyed'[r] = <<>> /\ nonces'[r] = NoNonces
        /\ \A q \in Relays \ {r} : obeyed'[q] = obeyed[q] /\ nonces'[q] = nonces[q]
    BY <1>2 DEF Reboot, TypeOK
  <2>2. \A i \in 1..NonceSlots : nonces'[r][i].at = 0
    BY <2>1 DEF NoNonces, T!Unused
  <2> QED
    BY <2>1, <2>2 DEF ObeyedWasIssued, TableIsObeyed
<1>3. ASSUME NEW r \in Relays, NEW c \in air, HandleCtrl(r, c)
      PROVE  ObeyedWasIssued' /\ TableIsObeyed'
  <2> DEFINE n == Len(obeyed[r]) + 1
             slot == T!SlotFor(nonces[r], c.src)
  <2>1. /\ obeyed[r] \in Seq(Command) /\ c \in Command
        /\ nonces[r] \in [1..NonceSlots -> [id : Stations \cup {0}, at : Nat, nonce : Nat]]
    BY DEF TypeOK
  <2>2. /\ air' = air /\ obeyed'[r] = Append(obeyed[r], c)
        /\ nonces'[r] = [nonces[r] EXCEPT ![slot] = [id |-> c.src, at |-> n, nonce |-> c.nonce]]
        /\ \A q \in Relays \ {r} : obeyed'[q] = obeyed[q] /\ nonces'[q] = nonces[q]
    BY <1>3 DEF HandleCtrl, TypeOK, T!Put
  <2>3. slot \in 1..NonceSlots
    BY SlotInTable, TableTyped
  <2>4. /\ DOMAIN obeyed'[r] = DOMAIN obeyed[r] \cup {n} /\ obeyed'[r][n] = c
        /\ \A k \in DOMAIN obeyed[r] : obeyed'[r][k] = obeyed[r][k]
    BY <2>1, <2>2
  <2> HIDE DEF n, slot
  <2>5. \A i \in 1..NonceSlots : nonces'[r][i] =
          IF i = slot THEN [id |-> c.src, at |-> n, nonce |-> c.nonce] ELSE nonces[r][i]
    BY <2>1, <2>2, <2>3
  <2>6. \A i \in 1..NonceSlots : nonces'[r][i].at # 0 =>
          \E k \in DOMAIN obeyed'[r] : /\ obeyed'[r][k].src = nonces'[r][i].id
                                       /\ obeyed'[r][k].nonce = nonces'[r][i].nonce
    <3> SUFFICES ASSUME NEW i \in 1..NonceSlots, nonces'[r][i].at # 0
                 PROVE  \E k \in DOMAIN obeyed'[r] :
                          /\ obeyed'[r][k].src = nonces'[r][i].id
                          /\ obeyed'[r][k].nonce = nonces'[r][i].nonce
      OBVIOUS
    <3>1. CASE i = slot
      BY <2>4, <2>5, <3>1
    <3>2. CASE i # slot
      <4>1. nonces'[r][i] = nonces[r][i]
        BY <2>5, <3>2
      <4>2. PICK k \in DOMAIN obeyed[r] : /\ obeyed[r][k].src = nonces[r][i].id
                                          /\ obeyed[r][k].nonce = nonces[r][i].nonce
        BY <4>1 DEF TableIsObeyed
      <4> QED
        BY <2>4, <4>1, <4>2
    <3> QED
      BY <3>1, <3>2
  <2>7. \A i \in DOMAIN obeyed'[r] : obeyed'[r][i] \in air'
    BY <2>2, <2>4 DEF ObeyedWasIssued
  <2>8. ObeyedWasIssued'
    BY <2>2, <2>7 DEF ObeyedWasIssued
  <2>9. TableIsObeyed'
    <3>1. ASSUME NEW q \in Relays, NEW i \in 1..NonceSlots, nonces'[q][i].at # 0
          PROVE  \E k \in DOMAIN obeyed'[q] : /\ obeyed'[q][k].src = nonces'[q][i].id
                                              /\ obeyed'[q][k].nonce = nonces'[q][i].nonce
      <4>1. CASE q = r
        BY <2>6, <3>1, <4>1
      <4>2. CASE q # r
        <5>1. obeyed'[q] = obeyed[q] /\ nonces'[q] = nonces[q]
          BY <2>2, <4>2
        <5>2. PICK k \in DOMAIN obeyed[q] : /\ obeyed[q][k].src = nonces[q][i].id
                                            /\ obeyed[q][k].nonce = nonces[q][i].nonce
          BY <3>1, <5>1 DEF TableIsObeyed
        <5> QED
          BY <5>1, <5>2
      <4> QED
        BY <4>1, <4>2
    <3> QED
      BY <3>1 DEF TableIsObeyed
  <2> QED
    BY <2>8, <2>9
<1> QED
  BY <1>1, <1>2, <1>3, RelaysStill

-----------------------------------------------------------------------------
(* The theorems.                                                           *)

LEMMA LedgerAtStart ==
  ASSUME Init
  PROVE  Ledger
<1>1. TypeOK
  <2>1. NoNonces \in [1..NonceSlots -> [id : Stations \cup {0}, at : Nat, nonce : Nat]]
    BY DEF NoNonces, T!Unused
  <2> QED
    BY <2>1 DEF Init, TypeOK
<1>2. \A s \in Stations : Issued(s) = {}
  BY DEF Init, Issued
<1>3. Numbered
  BY <1>2, FS_EmptySet DEF Init, Numbered
<1>4. Orderly
  BY <1>2 DEF Init, Orderly, InOrder, At
<1>5. ObeyedWasIssued /\ TableIsObeyed
  BY DEF Init, ObeyedWasIssued, TableIsObeyed, NoNonces, T!Unused
<1> QED
  BY <1>1, <1>3, <1>4, <1>5 DEF Ledger

LEMMA LedgerKept ==
  ASSUME Ledger, [Next]_vars
  PROVE  Ledger'
BY TypeKept, NumberedKept, OrderKept, RelayKept DEF Ledger

LEMMA LedgerAlways == Spec => []Ledger
<1>1. Init => Ledger
  BY LedgerAtStart
<1>2. Ledger /\ [Next]_vars => Ledger'
  BY LedgerKept
<1> QED
  BY <1>1, <1>2, PTL DEF Spec

(* Every variable keeps its type through stops, reboots and lost files.    *)
THEOREM TypeCorrect == Spec => []TypeOK
<1>1. Ledger => TypeOK
  BY DEF Ledger
<1> QED
  BY <1>1, LedgerAlways, PTL

(* A station never transmits a command whose nonce its file does not yet   *)
(* hold: _next_nonce saves before build_ctrl packs.                        *)
THEOREM FileAlwaysCoversAir == Spec => []FileCoversAir
<1>1. Ledger => FileCoversAir
  BY DEF Ledger, Orderly, InOrder, FileCoversAir
<1> QED
  BY <1>1, LedgerAlways, PTL

(* Nonces grow in the order of issue, through any number of stops and lost *)
(* files, for every station whose clock stood in for its file in time.     *)
THEOREM NoncesInIssueOrder == Spec => []NoncesFollowIssueOrder
<1>1. Ledger => NoncesFollowIssueOrder
  BY DEF Ledger, Orderly, InOrder, NoncesFollowIssueOrder
<1> QED
  BY <1>1, LedgerAlways, PTL

(* No station is ever locked out: what a relay refuses was superseded by a *)
(* command that it has obeyed, however its table is evicted and rebooted.  *)
THEOREM NoLockout == Spec => []RefusedOnlyIfSuperseded
<1>1. ASSUME Ledger
      PROVE  RefusedOnlyIfSuperseded
  <2> SUFFICES ASSUME NEW r \in Relays, NEW c \in air,
                      ~T!Accepts(nonces[r], c.src, c.nonce), c.src \notin behind
               PROVE  \E i \in DOMAIN obeyed[r] :
                        obeyed[r][i].src = c.src /\ obeyed[r][i].serial >= c.serial
    BY DEF RefusedOnlyIfSuperseded
  <2> USE <1>1 DEF Ledger
  <2> DEFINE slot == T!SlotFor(nonces[r], c.src)
             entry == nonces[r][slot]
  <2>1. slot \in 1..NonceSlots
    BY SlotInTable, TableTyped
  <2>2. entry.at # 0 /\ entry.id = c.src /\ ~ (c.nonce > entry.nonce)
    BY DEF T!Accepts, T!Recorded
  <2>3. PICK k \in DOMAIN obeyed[r] :
          obeyed[r][k].src = entry.id /\ obeyed[r][k].nonce = entry.nonce
    BY <2>1, <2>2 DEF TableIsObeyed
  <2>4. obeyed[r][k] \in air
    BY DEF ObeyedWasIssued
  <2> DEFINE d == obeyed[r][k]
  <2> HIDE DEF slot, entry
  <2>5. c.src \in Stations /\ c \in Issued(c.src) /\ d \in Issued(c.src)
    BY <2>2, <2>3, <2>4 DEF Issued, TypeOK, Command
  <2>6. /\ c.nonce \in Nat /\ d.nonce \in Nat /\ c.serial \in Nat /\ d.serial \in Nat
        /\ ~ (c.nonce > d.nonce)
    BY <2>2, <2>3, <2>5, OrderTyped
  <2>7. d.serial < c.serial => d.nonce < c.nonce
    BY <2>5 DEF Orderly, InOrder
  <2> QED
    BY <2>2, <2>3, <2>6, <2>7
<1> QED
  BY <1>1, LedgerAlways, PTL

-----------------------------------------------------------------------------
(* What a relay forgets.                                                   *)

LEMMA DistinctKept ==
  ASSUME TypeOK, Numbered, Distinct, [Next]_vars
  PROVE  Distinct'
<1>1. CASE UNCHANGED air
  BY <1>1 DEF Distinct, Issued
<1>2. ASSUME NEW s \in Stations, NEW dst \in Targets, SendRaw(s, dst)
      PROVE  Distinct'
  <2> DEFINE new == Sent(s, dst)
  <2>1. /\ Issued(s)' = Issued(s) \cup {new}
        /\ \A t \in Stations \ {s} : Issued(t)' = Issued(t)
        /\ \A c \in Issued(s) : c.serial < new.serial
    BY <1>2, AirGrows
  <2>2. \A c \in Issued(s) : c.serial \in Nat
    BY OrderTyped
  <2>3. new.serial \in Nat
    BY <1>2, AirGrows, IssuedIsFinite
  <2> HIDE DEF new
  <2>4. \A c, d \in Issued(s)' : c.serial = d.serial => c = d
    BY <2>1, <2>2, <2>3 DEF Distinct
  <2>5. \A t \in Stations \ {s} : \A c, d \in Issued(t)' : c.serial = d.serial => c = d
    BY <2>1 DEF Distinct
  <2> QED
    BY <2>4, <2>5 DEF Distinct
<1> QED
  BY <1>1, <1>2, AirStill

LEMMA StationsFinite == IsFiniteSet(Stations)
<1>1. IsFiniteSet(0..254)
  <2>1. 0 \in Int /\ 254 \in Int
    OBVIOUS
  <2> QED
    BY <2>1, FS_Interval, Zenon
<1> QED
  BY <1>1, FS_Subset

(* A full table takes as many ids as it has entries.                       *)
LEMMA FullTable ==
  ASSUME NEW t, DOMAIN t = 1..NonceSlots, HT!Tidy(t),
         \A i \in 1..NonceSlots : HT!InUse(t, i),
         NEW S, IsFiniteSet(S), \A i \in 1..NonceSlots : t[i].id \in S
  PROVE  Cardinality(S) >= NonceSlots
<1>1. HT!Cardinality(S) = Cardinality(S)
  BY DEF HT!Cardinality, Cardinality
<1>2. HT!IsFiniteSet(S)
  BY DEF HT!IsFiniteSet, IsFiniteSet
<1> QED
  BY <1>1, <1>2, HT!FullTable

(* What HandleCtrl does to the relay's table and history.                  *)
LEMMA CtrlSteps ==
  ASSUME TypeOK, NEW r \in Relays, Memory(r), NEW c \in air, HandleCtrl(r, c)
  PROVE  LET n == Len(obeyed[r]) + 1
             slot == HT!SlotFor(nonces[r], c.src)
             e == [id |-> c.src, at |-> n, nonce |-> c.nonce]
         IN  /\ n \in 1..MaxObeyed /\ Len(obeyed'[r]) = n
             /\ DOMAIN obeyed[r] = 1..(n - 1) /\ DOMAIN obeyed'[r] = 1..n
             /\ obeyed'[r][n] = c /\ \A k \in 1..(n - 1) : obeyed'[r][k] = obeyed[r][k]
             /\ slot \in 1..NonceSlots
             /\ \A i \in 1..NonceSlots : nonces'[r][i] = IF i = slot THEN e ELSE nonces[r][i]
             /\ HT!IsTable(nonces'[r], NonceSlots) /\ HT!Tidy(nonces'[r])
             /\ HT!InUse(nonces[r], slot) /\ nonces[r][slot].id = c.src =>
                  c.nonce > nonces[r][slot].nonce
             /\ c.nonce \in Nat
<1> DEFINE n == Len(obeyed[r]) + 1
           slot == HT!SlotFor(nonces[r], c.src)
           e == [id |-> c.src, at |-> n, nonce |-> c.nonce]
<1>1. obeyed[r] \in Seq(Command) /\ c \in Command /\ obeyed'[r] = Append(obeyed[r], c)
  BY DEF TypeOK, HandleCtrl
<1>2. /\ n \in 1..MaxObeyed /\ Len(obeyed'[r]) = n
      /\ DOMAIN obeyed[r] = 1..(n - 1) /\ DOMAIN obeyed'[r] = 1..n
      /\ obeyed'[r][n] = c /\ \A k \in 1..(n - 1) : obeyed'[r][k] = obeyed[r][k]
  BY <1>1 DEF HandleCtrl
<1>3. nonces'[r] = HT!Put(nonces[r], e)
  <2>1. nonces'[r] = T!Put(nonces[r], e)
    BY DEF HandleCtrl, TypeOK
  <2> HIDE DEF e
  <2>2. T!Put(nonces[r], e) = HT!Put(nonces[r], e)
    BY SlotInTable, TableTyped DEF T!Put, HT!Put
  <2> QED
    BY <2>1, <2>2
<1>4. e.id = c.src /\ e.at \in Nat \ {0}
  BY <1>2
<1>5. HT!IsTable(nonces[r], NonceSlots) /\ HT!Tidy(nonces[r])
  BY TableTyped DEF Memory
<1>6. c.nonce \in Nat
  BY <1>1 DEF Command
<1>7. HT!InUse(nonces[r], slot) /\ nonces[r][slot].id = c.src =>
        c.nonce > nonces[r][slot].nonce
  <2>1. T!SlotFor(nonces[r], c.src) = slot
    BY SlotInTable, TableTyped
  <2> QED
    BY <2>1 DEF HandleCtrl, T!Accepts, T!Recorded, HT!InUse
<1> HIDE DEF e
<1>8. /\ slot \in 1..NonceSlots /\ nonces'[r][slot] = e
      /\ \A i \in 1..NonceSlots \ {slot} : nonces'[r][i] = nonces[r][i]
  <2>1. e.id = c.src
    BY <1>4
  <2>2. HT!IsTable(nonces[r], NonceSlots)
    BY <1>5
  <2> DEFINE at == HT!SlotFor(nonces[r], e.id)
             put == HT!Put(nonces[r], e)
  <2>3. /\ at \in 1..NonceSlots /\ put[at] = e
        /\ \A i \in 1..NonceSlots \ {at} : put[i] = nonces[r][i]
    BY <2>2, HT!PutIs
  <2>4. at = slot
    BY <2>1
  <2> HIDE DEF at, put, slot
  <2> QED
    BY <1>3, <2>3, <2>4 DEF put
<1>9. HT!IsTable(nonces'[r], NonceSlots) /\ HT!Tidy(nonces'[r])
  BY <1>3, <1>4, <1>5, HT!PutIsTidy
<1> QED
  BY <1>2, <1>6, <1>7, <1>8, <1>9 DEF e

LEMMA ObeyedTyped ==
  ASSUME TypeOK, NEW r \in Relays, Memory(r), NEW c \in air, HandleCtrl(r, c)
  PROVE  \A m \in 1..Len(obeyed'[r]) : obeyed'[r][m].src \in Stations
<1> DEFINE n == Len(obeyed[r]) + 1
<1>1. /\ n \in 1..MaxObeyed /\ Len(obeyed'[r]) = n
      /\ DOMAIN obeyed[r] = 1..(n - 1) /\ obeyed'[r][n] = c
      /\ \A m \in 1..(n - 1) : obeyed'[r][m] = obeyed[r][m]
  BY CtrlSteps
<1>2. c \in Command /\ obeyed[r] \in Seq(Command)
  BY DEF TypeOK
<1>3. \A m \in 1..(n - 1) : obeyed[r][m] \in Command
  BY <1>1, <1>2
<1>4. n \in Nat /\ \A m \in 1..n : m = n \/ m \in 1..(n - 1)
  BY <1>1
<1> HIDE DEF n
<1>5. \A m \in 1..n : obeyed'[r][m] \in Command
  BY <1>1, <1>2, <1>3, <1>4
<1> QED
  BY <1>1, <1>5 DEF Command

(* The entry evicted was the oldest: its source is forgotten only when     *)
(* NonceSlots others have been obeyed since.                               *)
LEMMA EvictedIsForgotten ==
  ASSUME TypeOK, NEW r \in Relays, Memory(r), NEW c \in air, HandleCtrl(r, c),
         NEW k \in DOMAIN obeyed[r], NEW i \in 1..NonceSlots,
         i = HT!SlotFor(nonces[r], c.src), HT!InUse(nonces[r], i),
         nonces[r][i].id = obeyed[r][k].src, nonces[r][i].at >= k,
         nonces[r][i].id # c.src
  PROVE  Cardinality({obeyed'[r][m].src : m \in k..Len(obeyed'[r])} \ {obeyed'[r][k].src})
           >= NonceSlots
<1> DEFINE n == Len(obeyed[r]) + 1
           t == nonces[r]
           u == nonces'[r]
           e == [id |-> c.src, at |-> n, nonce |-> c.nonce]
           since == {obeyed'[r][m].src : m \in k..Len(obeyed'[r])} \ {obeyed'[r][k].src}
<1>1. /\ n \in 1..MaxObeyed /\ Len(obeyed'[r]) = n
      /\ DOMAIN obeyed[r] = 1..(n - 1) /\ DOMAIN obeyed'[r] = 1..n
      /\ obeyed'[r][n] = c /\ \A m \in 1..(n - 1) : obeyed'[r][m] = obeyed[r][m]
      /\ \A j \in 1..NonceSlots : u[j] = IF j = i THEN e ELSE t[j]
      /\ HT!IsTable(u, NonceSlots) /\ HT!Tidy(u)
  BY CtrlSteps
<1>2. ~ HT!Listed(t, c.src)
  <2> SUFFICES ASSUME HT!Listed(t, c.src)
               PROVE  FALSE
    OBVIOUS
  <2>1. HT!IsTable(t, NonceSlots) /\ DOMAIN t = 1..NonceSlots /\ HT!Tidy(t)
    BY TableTyped DEF Memory
  <2>2. PICK j \in 1..NonceSlots : HT!InUse(t, j) /\ t[j].id = c.src
    BY <2>1 DEF HT!Listed
  <2>3. i = j
    BY <2>1, <2>2, HT!SlotOfListed
  <2> QED
    BY <2>2, <2>3
<1>3. \A j \in 1..NonceSlots : /\ HT!InUse(t, j) /\ t[j].at \in 1..(n - 1)
                               /\ obeyed[r][t[j].at].src = t[j].id
  <2>1. \A j \in 1..NonceSlots : HT!InUse(t, j)
    BY <1>2, TableTyped, HT!SlotOfStranger
  <2> QED
    BY <1>1, <2>1 DEF Memory
<1>4. \A j \in 1..NonceSlots : t[j].at >= k
  <2>1. \A j \in 1..NonceSlots : t[i].at <= t[j].at \/ ~ (t[j].at < TimeMax)
    BY <1>2, TableTyped, HT!SlotOfStranger
  <2>2. k \in Nat /\ t[i].at >= k
    BY <1>1
  <2>3. n - 1 < TimeMax
    BY <1>1
  <2> HIDE DEF t, n
  <2>4. \A j \in 1..NonceSlots : t[j].at \in Nat /\ t[j].at < TimeMax
    BY <1>1, <1>3, <2>3
  <2> QED
    BY <2>1, <2>2, <2>4
<1>5. k \in 1..(n - 1) /\ obeyed'[r][k].src = t[i].id
  BY <1>1
<1> HIDE DEF t, u, n
<1>6. ASSUME NEW j \in 1..NonceSlots
      PROVE  u[j].id \in since
  <2>1. CASE j = i
    <3>1. u[j].id = obeyed'[r][n].src /\ n \in k..Len(obeyed'[r])
      BY <1>1, <1>5, <2>1
    <3>2. u[j].id # obeyed'[r][k].src
      BY <1>1, <1>5, <2>1 DEF t
    <3> QED
      BY <3>1, <3>2
  <2>2. CASE j # i
    <3>1. u[j] = t[j] /\ t[j].at \in k..Len(obeyed'[r])
      BY <1>1, <1>3, <1>4, <1>5, <2>2
    <3>2. u[j].id = obeyed'[r][t[j].at].src
      BY <1>1, <1>3, <3>1
    <3>3. u[j].id # t[i].id
      <4>1. HT!Tidy(t) /\ DOMAIN t = 1..NonceSlots
        BY TableTyped DEF Memory, t
      <4> QED
        BY <1>3, <2>2, <3>1, <4>1 DEF HT!Tidy
    <3> QED
      BY <1>5, <3>1, <3>2, <3>3
  <2> QED
    BY <2>1, <2>2
<1>7. IsFiniteSet(since)
  <2>1. \A m \in 1..n : obeyed'[r][m].src \in Stations
    BY <1>1, ObeyedTyped
  <2>2. since \in SUBSET Stations
    BY <1>1, <1>5, <2>1
  <2> QED
    BY <2>2, StationsFinite, FS_Subset
<1>8. \A j \in 1..NonceSlots : HT!InUse(u, j)
  BY <1>1, <1>3 DEF HT!InUse
<1>9. DOMAIN u = 1..NonceSlots
  BY <1>1 DEF HT!IsTable
<1> HIDE DEF since
<1>10. Cardinality(since) >= NonceSlots
  BY <1>1, <1>6, <1>7, <1>8, <1>9, FullTable
<1> QED
  BY <1>10 DEF since

(* The set of sources obeyed since grows.                                  *)
LEMMA SinceGrows ==
  ASSUME TypeOK, NEW r \in Relays, Memory(r), NEW c \in air, HandleCtrl(r, c),
         NEW k \in DOMAIN obeyed[r], Cardinality(Since(r, k)) >= NonceSlots
  PROVE  Cardinality({obeyed'[r][m].src : m \in k..Len(obeyed'[r])} \ {obeyed'[r][k].src})
           >= NonceSlots
<1> DEFINE n == Len(obeyed[r]) + 1
           since == {obeyed'[r][m].src : m \in k..Len(obeyed'[r])} \ {obeyed'[r][k].src}
<1>1. /\ n \in 1..MaxObeyed /\ Len(obeyed'[r]) = n
      /\ DOMAIN obeyed[r] = 1..(n - 1)
      /\ \A m \in 1..(n - 1) : obeyed'[r][m] = obeyed[r][m]
  BY CtrlSteps
<1>2. Since(r, k) \in SUBSET since
  BY <1>1 DEF Since
<1>3. IsFiniteSet(since)
  <2>1. since \in SUBSET Stations
    BY <1>1, ObeyedTyped
  <2> QED
    BY <2>1, StationsFinite, FS_Subset
<1> HIDE DEF since
<1>4. Cardinality(Since(r, k)) <= Cardinality(since) /\ IsFiniteSet(Since(r, k))
  BY <1>2, <1>3, FS_Subset
<1>5. Cardinality(Since(r, k)) \in Nat /\ Cardinality(since) \in Nat
  BY <1>3, <1>4, FS_CardinalityType
<1>6. Cardinality(since) >= NonceSlots
  BY <1>4, <1>5
<1> QED
  BY <1>6 DEF since

LEMMA CtrlMemory ==
  ASSUME TypeOK, NEW r \in Relays, Memory(r), NEW c \in air, HandleCtrl(r, c)
  PROVE  Memory(r)'
<1> DEFINE n == Len(obeyed[r]) + 1
           t == nonces[r]
           u == nonces'[r]
           slot == HT!SlotFor(nonces[r], c.src)
           e == [id |-> c.src, at |-> n, nonce |-> c.nonce]
           Kept(k) == \E i \in 1..NonceSlots :
                        /\ HT!InUse(u, i) /\ u[i].id = obeyed'[r][k].src
                        /\ u[i].at >= k /\ u[i].nonce >= obeyed'[r][k].nonce
           Gone(k) == Cardinality({obeyed'[r][m].src : m \in k..Len(obeyed'[r])}
                                    \ {obeyed'[r][k].src}) >= NonceSlots
<1>1. /\ n \in 1..MaxObeyed /\ Len(obeyed'[r]) = n
      /\ DOMAIN obeyed[r] = 1..(n - 1) /\ DOMAIN obeyed'[r] = 1..n
      /\ obeyed'[r][n] = c /\ \A m \in 1..(n - 1) : obeyed'[r][m] = obeyed[r][m]
      /\ slot \in 1..NonceSlots
      /\ \A i \in 1..NonceSlots : u[i] = IF i = slot THEN e ELSE t[i]
      /\ HT!Tidy(u)
      /\ HT!InUse(t, slot) /\ t[slot].id = c.src => c.nonce > t[slot].nonce
      /\ c.nonce \in Nat
  BY CtrlSteps
<1>2. e.id = c.src /\ e.at = n /\ e.nonce = c.nonce
  OBVIOUS
<1>3. \A i \in 1..NonceSlots : HT!InUse(t, i) =>
        t[i].at \in 1..(n - 1) /\ obeyed[r][t[i].at].src = t[i].id
  BY <1>1 DEF Memory
<1>4. \A i \in 1..NonceSlots : t[i].nonce \in Nat /\ t[i].at \in Nat
  BY DEF TypeOK
<1>5. \A k \in 1..(n - 1) : obeyed[r][k].nonce \in Nat
  <2>1. obeyed[r] \in Seq(Command)
    BY DEF TypeOK
  <2>2. \A k \in 1..(n - 1) : obeyed[r][k] \in Command
    BY <1>1, <2>1
  <2> QED
    BY <2>2 DEF Command
<1>6. ASSUME NEW k \in 1..(n - 1), NEW i \in 1..NonceSlots,
             HT!InUse(t, i), t[i].id = obeyed[r][k].src,
             t[i].at >= k, t[i].nonce >= obeyed[r][k].nonce
      PROVE  Kept(k) \/ Gone(k)
  <2>1. CASE i # slot
    <3> HIDE DEF t, u, slot, e
    <3>1. u[i] = t[i] /\ obeyed'[r][k] = obeyed[r][k] /\ HT!InUse(u, i)
      BY <1>1, <1>6, <2>1 DEF HT!InUse
    <3> QED
      BY <1>6, <3>1
  <2>2. CASE i = slot /\ t[i].id = c.src
    <3> HIDE DEF t, u, slot, e
    <3>1. u[i] = e /\ obeyed'[r][k] = obeyed[r][k] /\ HT!InUse(u, i)
      BY <1>1, <1>2, <2>2 DEF HT!InUse
    <3>2. c.nonce > t[i].nonce /\ e.nonce >= obeyed[r][k].nonce /\ e.at >= k
      BY <1>1, <1>2, <1>4, <1>5, <1>6, <2>2
    <3> QED
      BY <1>2, <1>6, <2>2, <3>1, <3>2
  <2>3. CASE i = slot /\ t[i].id # c.src
    <3>1. Gone(k)
      BY <1>1, <1>6, <2>3, EvictedIsForgotten
    <3> QED
      BY <3>1
  <2> QED
    BY <2>1, <2>2, <2>3
<1>7. ASSUME NEW k \in 1..(n - 1)
      PROVE  Kept(k) \/ Gone(k)
  <2>1. Remembered(r, k) \/ Cardinality(Since(r, k)) >= NonceSlots
    BY <1>1 DEF Memory
  <2>2. Cardinality(Since(r, k)) >= NonceSlots => Gone(k)
    BY <1>1, SinceGrows
  <2>3. Remembered(r, k) => Kept(k) \/ Gone(k)
    <3> HIDE DEF Kept, Gone
    <3> QED
      BY <1>6 DEF Remembered
  <2> QED
    BY <2>1, <2>2, <2>3
<1>8. Kept(n)
  <2> HIDE DEF t, u, slot, e
  <2>1. u[slot] = e /\ HT!InUse(u, slot)
    BY <1>1, <1>2 DEF HT!InUse
  <2> QED
    BY <1>1, <1>2, <2>1
<1>9. \A i \in 1..NonceSlots : HT!InUse(u, i) =>
        u[i].at \in 1..n /\ obeyed'[r][u[i].at].src = u[i].id
  <2> HIDE DEF t, u, slot, e, n
  <2> SUFFICES ASSUME NEW i \in 1..NonceSlots, HT!InUse(u, i)
               PROVE  u[i].at \in 1..n /\ obeyed'[r][u[i].at].src = u[i].id
    OBVIOUS
  <2>1. CASE i = slot
    BY <1>1, <1>2, <2>1
  <2>2. CASE i # slot
    <3>1. u[i] = t[i] /\ HT!InUse(t, i)
      BY <1>1, <2>2 DEF HT!InUse
    <3>2. t[i].at \in 1..(n - 1) /\ obeyed[r][t[i].at].src = t[i].id
      BY <1>3, <3>1
    <3> QED
      BY <1>1, <3>1, <3>2
  <2> QED
    BY <2>1, <2>2
<1>10. Len(obeyed'[r]) <= MaxObeyed
  BY <1>1
<1>11. \A k \in DOMAIN obeyed'[r] : Kept(k) \/ Gone(k)
  <2> HIDE DEF Kept, Gone
  <2>1. \A k \in 1..n : k = n \/ k \in 1..(n - 1)
    BY <1>1
  <2> QED
    BY <1>1, <1>7, <1>8, <2>1
<1>12. \A k \in DOMAIN obeyed'[r] :
         Remembered(r, k)' \/ Cardinality(Since(r, k)') >= NonceSlots
  BY <1>11 DEF Remembered, Since
<1>13. \A i \in 1..NonceSlots : HT!InUse(u, i) =>
         u[i].at \in DOMAIN obeyed'[r] /\ obeyed'[r][u[i].at].src = u[i].id
  BY <1>1, <1>9
<1>14. HT!Tidy(u)
  BY <1>1
<1> QED
  BY <1>10, <1>12, <1>13, <1>14 DEF Memory

LEMMA MemoryKept ==
  ASSUME TypeOK, \A r \in Relays : Memory(r), [Next]_vars
  PROVE  \A r \in Relays : Memory(r)'
<1> TAKE r \in Relays
<1>1. ASSUME UNCHANGED <<nonces[r], obeyed[r]>>
      PROVE  Memory(r)'
  <2>1. obeyed'[r] = obeyed[r] /\ nonces'[r] = nonces[r] /\ Memory(r)
    BY <1>1
  <2>2. \A k \in DOMAIN obeyed[r] : Since(r, k)' = Since(r, k)
    BY <2>1 DEF Since
  <2>3. \A k \in DOMAIN obeyed[r] : Remembered(r, k)' <=> Remembered(r, k)
    BY <2>1 DEF Remembered
  <2>4. \A k \in DOMAIN obeyed'[r] :
          Remembered(r, k)' \/ Cardinality(Since(r, k)') >= NonceSlots
    BY <2>1, <2>2, <2>3 DEF Memory
  <2> QED
    BY <2>1, <2>4 DEF Memory
<1>2. CASE UNCHANGED <<nonces, obeyed>>
  BY <1>1, <1>2
<1>3. ASSUME NEW q \in Relays, Reboot(q)
      PROVE  Memory(r)'
  <2>1. CASE q = r
    <3>1. obeyed'[r] = <<>> /\ nonces'[r] = NoNonces
      BY <1>3, <2>1 DEF Reboot, TypeOK
    <3>2. HT!Tidy(nonces'[r]) /\ \A i \in 1..NonceSlots : ~ HT!InUse(nonces'[r], i)
      BY <3>1 DEF NoNonces, HT!Tidy, HT!InUse, T!Unused
    <3> QED
      BY <3>1, <3>2 DEF Memory
  <2>2. CASE q # r
    BY <1>1, <1>3, <2>2 DEF Reboot, TypeOK
  <2> QED
    BY <2>1, <2>2
<1>4. ASSUME NEW q \in Relays, NEW c \in air, HandleCtrl(q, c)
      PROVE  Memory(r)'
  <2>1. CASE q = r
    BY <1>4, <2>1, CtrlMemory
  <2>2. CASE q # r
    BY <1>1, <1>4, <2>2 DEF HandleCtrl, TypeOK
  <2> QED
    BY <2>1, <2>2
<1> QED
  BY <1>2, <1>3, <1>4, RelaysStill

(* What is obeyed after a newer command of its station is obeyed late.     *)
LEMMA ObeyedInOrder ==
  ASSUME Ledger, Distinct, StaleOnlyIfForgotten,
         NEW r \in Relays, Memory(r), NEW c \in air, HandleCtrl(r, c)
  PROVE  \A i, j \in DOMAIN obeyed'[r] :
           LET new == obeyed'[r][i]
               old == obeyed'[r][j]
           IN  i < j /\ new.src = old.src /\ new.src \notin behind /\ old.serial <= new.serial =>
                 Cardinality({obeyed'[r][k].src : k \in i..j} \ {new.src}) >= NonceSlots
<1> DEFINE n == Len(obeyed[r]) + 1
           t == nonces[r]
<1>0. TypeOK
  BY DEF Ledger
<1>1. /\ n \in 1..MaxObeyed /\ Len(obeyed'[r]) = n
      /\ DOMAIN obeyed[r] = 1..(n - 1) /\ DOMAIN obeyed'[r] = 1..n
      /\ obeyed'[r][n] = c /\ \A m \in 1..(n - 1) : obeyed'[r][m] = obeyed[r][m]
  BY <1>0, CtrlSteps
<1> SUFFICES ASSUME NEW i \in DOMAIN obeyed'[r], NEW j \in DOMAIN obeyed'[r], i < j,
                    obeyed'[r][i].src = obeyed'[r][j].src, obeyed'[r][i].src \notin behind,
                    obeyed'[r][j].serial <= obeyed'[r][i].serial
             PROVE  Cardinality({obeyed'[r][k].src : k \in i..j} \ {obeyed'[r][i].src})
                      >= NonceSlots
  OBVIOUS
<1>2. CASE j \in 1..(n - 1)
  <2>1. i \in 1..(n - 1) /\ \A k \in i..j : obeyed'[r][k] = obeyed[r][k]
    BY <1>1, <1>2
  <2>2. {obeyed'[r][k].src : k \in i..j} = {obeyed[r][k].src : k \in i..j}
    BY <2>1
  <2>3. obeyed'[r][i] = obeyed[r][i] /\ obeyed'[r][j] = obeyed[r][j]
    BY <1>1, <1>2, <2>1
  <2>4. Cardinality({obeyed[r][k].src : k \in i..j} \ {obeyed[r][i].src}) >= NonceSlots
    BY <1>1, <1>2, <2>1, <2>3 DEF StaleOnlyIfForgotten
  <2> QED
    BY <2>2, <2>3, <2>4
<1>3. CASE j = n
  <2> DEFINE d == obeyed[r][i]
  <2>1. i \in 1..(n - 1) /\ obeyed'[r][i] = d /\ obeyed'[r][j] = c
    BY <1>1, <1>3
  <2>2. d \in air
    BY <1>1, <2>1 DEF Ledger, ObeyedWasIssued
  <2>3. d.src \in Stations /\ c \in Issued(d.src) /\ d \in Issued(d.src)
    BY <1>0, <2>1, <2>2 DEF Issued, TypeOK, Command
  <2>4. c.nonce \in Nat /\ d.nonce \in Nat /\ c.serial \in Nat /\ d.serial \in Nat
    BY <1>0, <2>3, OrderTyped
  <2>5. c.serial < d.serial => c.nonce < d.nonce
    BY <2>1, <2>3 DEF Ledger, Orderly, InOrder
  <2>6. c.serial = d.serial => c = d
    BY <2>3 DEF Distinct
  <2>7. c.nonce <= d.nonce
    BY <2>1, <2>4, <2>5, <2>6
  <2>8. ~ Remembered(r, i)
    <3> SUFFICES ASSUME Remembered(r, i)
                 PROVE  FALSE
      OBVIOUS
    <3>1. PICK k \in 1..NonceSlots : /\ HT!InUse(t, k) /\ t[k].id = c.src
                                     /\ t[k].nonce >= d.nonce
      BY <2>1 DEF Remembered
    <3>2. HT!SlotFor(t, c.src) = k
      <4>1. HT!IsTable(t, NonceSlots) /\ HT!Tidy(t)
        BY <1>0, TableTyped DEF Memory
      <4> HIDE DEF t
      <4> QED
        BY <3>1, <4>1, HT!SlotOfListed
    <3>3. c.nonce > t[k].nonce
      BY <1>0, <3>1, <3>2, CtrlSteps
    <3>4. t[k].nonce \in Nat
      <4>1. t \in [1..NonceSlots -> [id : Stations \cup {0}, at : Nat, nonce : Nat]]
        BY <1>0 DEF TypeOK
      <4> HIDE DEF t
      <4> QED
        BY <4>1
    <3> QED
      BY <2>4, <2>7, <3>1, <3>3, <3>4
  <2>9. Cardinality(Since(r, i)) >= NonceSlots
    BY <1>1, <2>1, <2>8 DEF Memory
  <2>10. Cardinality({obeyed'[r][m].src : m \in i..Len(obeyed'[r])} \ {obeyed'[r][i].src})
           >= NonceSlots
    BY <1>0, <1>1, <2>1, <2>9, SinceGrows
  <2> QED
    BY <1>1, <1>3, <2>10
<1> QED
  BY <1>1, <1>2, <1>3

Archive == Distinct /\ (\A r \in Relays : Memory(r)) /\ StaleOnlyIfForgotten

LEMMA ArchiveKept ==
  ASSUME Ledger, Archive, [Next]_vars
  PROVE  Archive'
<1>1. TypeOK /\ Numbered
  BY DEF Ledger
<1>2. Distinct' /\ \A r \in Relays : Memory(r)'
  BY <1>1, DistinctKept, MemoryKept DEF Archive
<1>3. behind \subseteq behind'
  BY DEF Next, vars, Start, CountNonce, SaveNonce, Abandon, Stop, LoseFile, SendRaw,
         Reboot, HandleCtrl, Tick
<1>4. StaleOnlyIfForgotten'
  <2> SUFFICES ASSUME NEW r \in Relays
               PROVE  \A i, j \in DOMAIN obeyed'[r] :
                        LET new == obeyed'[r][i]
                            old == obeyed'[r][j]
                        IN  i < j /\ new.src = old.src /\ new.src \notin behind'
                            /\ old.serial <= new.serial =>
                              Cardinality({obeyed'[r][k].src : k \in i..j} \ {new.src})
                                >= NonceSlots
    BY DEF StaleOnlyIfForgotten
  <2>1. CASE obeyed'[r] = obeyed[r]
    <3>1. \A i, j \in DOMAIN obeyed[r] :
            LET new == obeyed[r][i]
                old == obeyed[r][j]
            IN  i < j /\ new.src = old.src /\ new.src \notin behind /\ old.serial <= new.serial =>
                  Cardinality({obeyed[r][k].src : k \in i..j} \ {new.src}) >= NonceSlots
      BY DEF Archive, StaleOnlyIfForgotten
    <3> DEFINE h == obeyed[r]
    <3>2. \A i, j \in DOMAIN h :
            LET new == h[i]
                old == h[j]
            IN  i < j /\ new.src = old.src /\ new.src \notin behind' /\ old.serial <= new.serial =>
                  Cardinality({h[k].src : k \in i..j} \ {new.src}) >= NonceSlots
      BY <1>3, <3>1
    <3> HIDE DEF h
    <3>3. obeyed'[r] = h
      BY <2>1 DEF h
    <3> QED
      BY <3>2, <3>3
  <2>2. CASE obeyed'[r] = <<>>
    BY <2>2
  <2>3. ASSUME NEW c \in air, HandleCtrl(r, c)
        PROVE  \A i, j \in DOMAIN obeyed'[r] :
                 LET new == obeyed'[r][i]
                     old == obeyed'[r][j]
                 IN  i < j /\ new.src = old.src /\ new.src \notin behind'
                     /\ old.serial <= new.serial =>
                       Cardinality({obeyed'[r][k].src : k \in i..j} \ {new.src})
                         >= NonceSlots
    <3>1. behind' = behind
      BY <2>3 DEF HandleCtrl
    <3> QED
      BY <2>3, <3>1, ObeyedInOrder DEF Archive
  <2>4. \/ obeyed'[r] = obeyed[r] \/ obeyed'[r] = <<>>
        \/ \E c \in air : HandleCtrl(r, c)
    <3>1. CASE \E q \in Relays : Reboot(q)
      BY <1>1, <3>1 DEF Reboot, TypeOK
    <3>2. ASSUME NEW q \in Relays, NEW c \in air, HandleCtrl(q, c)
          PROVE  \/ obeyed'[r] = obeyed[r]
                 \/ \E d \in air : HandleCtrl(r, d)
      <4>1. CASE q = r
        BY <3>2, <4>1
      <4>2. CASE q # r
        BY <1>1, <3>2, <4>2 DEF HandleCtrl, TypeOK
      <4> QED
        BY <4>1, <4>2
    <3> QED
      BY <3>1, <3>2, RelaysStill
  <2> QED
    BY <2>1, <2>2, <2>3, <2>4
<1> QED
  BY <1>2, <1>4 DEF Archive

(* A relay obeys an older command of a station after a newer one only when *)
(* it has rebooted, or obeyed NONCE_TABLE_SIZE other stations, in between. *)
THEOREM StaleIsForgotten == Spec => []StaleOnlyIfForgotten
<1>1. Init => Archive
  <2> SUFFICES ASSUME Init
               PROVE  Archive
    OBVIOUS
  <2>1. Distinct
    BY DEF Init, Distinct, Issued
  <2>2. \A r \in Relays : Memory(r)
    BY DEF Init, Memory, NoNonces, HT!Tidy, HT!InUse, T!Unused
  <2>3. StaleOnlyIfForgotten
    BY DEF Init, StaleOnlyIfForgotten
  <2> QED
    BY <2>1, <2>2, <2>3 DEF Archive
<1>2. Ledger /\ Archive /\ [Next]_vars => Archive'
  BY ArchiveKept
<1>3. Archive => StaleOnlyIfForgotten
  BY DEF Archive
<1> QED
  BY <1>1, <1>2, <1>3, LedgerAlways, PTL DEF Spec
=============================================================================
