---------------------------- MODULE ControlPlane ----------------------------
(***************************************************************************)
(* Relay commands from the administrators' stations to the relays: class   *)
(* RelayAdmin of node/relay_admin.py with its nonce and the file it keeps  *)
(* it in, SEND_RAW of the daemon, and the replay check of                  *)
(* src/relay_control.cpp, over an air that loses, repeats, delays and      *)
(* reorders.  Stations stop between any two steps, files are lost, relays  *)
(* reboot.                                                                 *)
(*                                                                         *)
(* Abstracted: the policy in a command (RelayControl applies it), its      *)
(* HMAC, byte layout, and the 32-bit mask on a nonce that is a time.       *)
(***************************************************************************)
EXTENDS Integers, Sequences, FiniteSets

CONSTANTS
  Stations,    \* ids of the nodes that RelayAdmin runs on, one process each
  Relays,      \* s_my_id of the relays
  Targets,     \* destinations of commands, 255 for all relays
  NonceSlots,  \* NONCE_TABLE_SIZE
  None,        \* no nonce file
  TimeMax,     \* UINT32_MAX
  MaxWall,     \* bound: seconds of wall clock
  MaxIssued,   \* bound: commands put on the air
  MaxObeyed,   \* bound: commands a relay obeys between two boots
  MaxMishaps   \* bound: stops, failures, lost files, reboots

ASSUME ControlAssumption ==
  /\ Stations \subseteq 0..254 /\ Relays \subseteq 0..254
  /\ Targets \subseteq 0..255
  /\ NonceSlots \in Nat \ {0} /\ None \notin Int
  /\ MaxWall \in Nat \ {0} /\ MaxIssued \in Nat /\ MaxObeyed \in Nat /\ MaxMishaps \in Nat
  /\ TimeMax \in Nat /\ MaxObeyed < TimeMax

VARIABLES
  wall,     \* int(time.time())
  file,     \* the nonce in each station's file
  admin,    \* each station's process: [pc, nonce]
  air,      \* every command ever transmitted
  nonces,   \* s_nonces of each relay
  obeyed,   \* history: the commands each relay has obeyed since it booted
  behind,   \* history: stations that loaded a nonce below one they had used
  mishaps   \* history: number of stops, failures, lost files, reboots

vars == <<wall, file, admin, air, nonces, obeyed, behind, mishaps>>

T == INSTANCE HeardTable

NoNonces == [i \in 1..NonceSlots |-> T!Unused]

Init ==
  /\ wall = 1
  /\ file = [s \in Stations |-> None]
  /\ admin = [s \in Stations |-> [pc |-> "down", nonce |-> 0]]
  /\ air = {}
  /\ nonces = [r \in Relays |-> NoNonces]
  /\ obeyed = [r \in Relays |-> <<>>]
  /\ behind = {} /\ mishaps = 0

Issued(s) == {c \in air : c.src = s}

-----------------------------------------------------------------------------
(* A station.                                                              *)

Mishap == mishaps < MaxMishaps /\ mishaps' = mishaps + 1

At(s, pc) == admin[s].pc = pc

Goto(s, pc) == admin' = [admin EXCEPT ![s].pc = pc]

(* Faults: the file is not read; nothing stands in for a missing one.      *)
LoadFromClock(s) == wall
LoadFromFile(s) == file[s]

(* _load_nonce: the wall clock stands in for a file that is missing.       *)
LoadNonce(s) == IF file[s] = None THEN wall ELSE file[s]

Start(s) ==
  /\ At(s, "down")
  /\ admin' = [admin EXCEPT ![s] = [pc |-> "ready", nonce |-> LoadNonce(s)]]
  /\ behind' = IF file[s] = None /\ \E c \in Issued(s) : c.nonce > wall
               THEN behind \cup {s} ELSE behind
  /\ UNCHANGED <<wall, file, air, nonces, obeyed, mishaps>>

(* build_ctrl: _next_nonce counts in memory and then saves; the file is    *)
(* replaced as a whole.                                                    *)
CountNonce(s) ==
  /\ At(s, "ready") /\ Cardinality(air) < MaxIssued
  /\ admin' = [admin EXCEPT ![s] = [pc |-> "counted", nonce |-> @.nonce + 1]]
  /\ UNCHANGED <<wall, file, air, nonces, obeyed, behind, mishaps>>

SaveNonce(s) ==
  /\ At(s, "counted")
  /\ file' = [file EXCEPT ![s] = admin[s].nonce]
  /\ Goto(s, "saved")
  /\ UNCHANGED <<wall, air, nonces, obeyed, behind, mishaps>>

(* Fault: the command goes out before its nonce is saved.                  *)
BuiltUnsaved(s) == At(s, "counted") \/ At(s, "saved")

Built(s) == At(s, "saved")

(* The daemon writes the packet to its bridge.                             *)
SendRaw(s, dst) ==
  /\ Built(s) /\ Cardinality(air) < MaxIssued
  /\ air' = air \cup {[src |-> s, nonce |-> admin[s].nonce, dst |-> dst,
                       serial |-> Cardinality(Issued(s)) + 1]}
  /\ Goto(s, "ready")
  /\ UNCHANGED <<wall, file, nonces, obeyed, behind, mishaps>>

(* The save, the packing or SEND_RAW fails and the caller goes on: the     *)
(* nonce is spent.                                                         *)
Abandon(s) ==
  /\ Mishap /\ (At(s, "counted") \/ At(s, "saved"))
  /\ Goto(s, "ready")
  /\ UNCHANGED <<wall, file, air, nonces, obeyed, behind>>

Stop(s) ==
  /\ Mishap /\ ~At(s, "down")
  /\ admin' = [admin EXCEPT ![s] = [pc |-> "down", nonce |-> 0]]
  /\ UNCHANGED <<wall, file, air, nonces, obeyed, behind>>

(* The file goes with its disk, or cannot be read as a number.             *)
LoseFile(s) ==
  /\ Mishap /\ file[s] # None
  /\ file' = [file EXCEPT ![s] = None]
  /\ UNCHANGED <<wall, admin, air, nonces, obeyed, behind>>

-----------------------------------------------------------------------------
(* A relay.  Entries are stamped by the number of commands obeyed: two     *)
(* packets are never received in the same millisecond.                     *)

HandleCtrl(r, c) ==
  /\ c.dst \in {r, 255} /\ Len(obeyed[r]) < MaxObeyed
  /\ T!Accepts(nonces[r], c.src, c.nonce)
  /\ nonces' = [nonces EXCEPT ![r] =
       T!Put(@, [id |-> c.src, at |-> Len(obeyed[r]) + 1, nonce |-> c.nonce])]
  /\ obeyed' = [obeyed EXCEPT ![r] = Append(@, c)]
  /\ UNCHANGED <<wall, file, admin, air, behind, mishaps>>

Reboot(r) ==
  /\ Mishap /\ obeyed[r] # <<>>
  /\ nonces' = [nonces EXCEPT ![r] = NoNonces]
  /\ obeyed' = [obeyed EXCEPT ![r] = <<>>]
  /\ UNCHANGED <<wall, file, admin, air, behind>>

Tick ==
  /\ wall < MaxWall /\ wall' = wall + 1
  /\ UNCHANGED <<file, admin, air, nonces, obeyed, behind, mishaps>>

Next ==
  \/ \E s \in Stations : \/ Start(s) \/ CountNonce(s) \/ SaveNonce(s)
                         \/ Abandon(s) \/ Stop(s) \/ LoseFile(s)
                         \/ \E dst \in Targets : SendRaw(s, dst)
  \/ \E r \in Relays : Reboot(r) \/ \E c \in air : HandleCtrl(r, c)
  \/ Tick

Spec == Init /\ [][Next]_vars

-----------------------------------------------------------------------------
(* Properties.                                                             *)

Command == [src : Stations, nonce : Nat, dst : Targets, serial : 1..MaxIssued]

(* Every variable has its type.                                            *)
TypeOK ==
  /\ wall \in 1..MaxWall /\ mishaps \in 0..MaxMishaps
  /\ file \in [Stations -> Nat \cup {None}]
  /\ admin \in [Stations -> [pc : {"down", "ready", "counted", "saved"}, nonce : Nat]]
  /\ air \subseteq Command /\ behind \subseteq Stations
  /\ nonces \in [Relays -> [1..NonceSlots -> [id : Stations \cup {0}, at : Nat, nonce : Nat]]]
  /\ obeyed \in [Relays -> Seq(Command)]

(* A station's file is never behind what it has transmitted, wherever the  *)
(* process stops, unless the file was lost and the clock was no help.      *)
FileCoversAir ==
  \A s \in Stations \ behind : file[s] # None =>
    \A c \in Issued(s) : c.nonce <= file[s]

(* A command that a station issues later has a higher nonce, through stops *)
(* and lost files, as long as fewer commands than seconds have gone by     *)
(* whenever the clock stands in for the file.                              *)
NoncesFollowIssueOrder ==
  \A s \in Stations \ behind : \A c, d \in Issued(s) :
    c.serial < d.serial => c.nonce < d.nonce

(* A relay obeys an older command of a station after a newer one only if   *)
(* it has rebooted, or obeyed NonceSlots other stations, in between.       *)
StaleOnlyIfForgotten ==
  \A r \in Relays : \A i, j \in DOMAIN obeyed[r] :
    LET new == obeyed[r][i]
        old == obeyed[r][j]
    IN  i < j /\ new.src = old.src /\ new.src \notin behind /\ old.serial <= new.serial =>
          Cardinality({obeyed[r][k].src : k \in i..j} \ {new.src}) >= NonceSlots

(* A relay refuses a command only if it has obeyed this one or a newer one *)
(* of its station: no station is ever locked out.                          *)
RefusedOnlyIfSuperseded ==
  \A r \in Relays : \A c \in air :
    ~T!Accepts(nonces[r], c.src, c.nonce) /\ c.src \notin behind =>
      \E i \in DOMAIN obeyed[r] :
        obeyed[r][i].src = c.src /\ obeyed[r][i].serial >= c.serial
=============================================================================
