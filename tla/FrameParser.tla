----------------------------- MODULE FrameParser -----------------------------
(***************************************************************************)
(* The serial frames between Pi and Heltec and the byte-wise parser that   *)
(* either side runs: class FrameParser of protocol/protocol.py and         *)
(* processSerialByte of src/main.cpp.  A side is "pi" or "bridge".         *)
(***************************************************************************)
EXTENDS Integers, Sequences

CONSTANTS
  PiMax,      \* max_frame of the daemon's parser
  BridgeMax   \* MAX_PKT_SIZE, the size of the sketch's buffer

Start1 == 170
Start2 == 85
Byte == 0..255

MaxLen(side) == IF side = "pi" THEN PiMax ELSE BridgeMax

(* Two bytes differ in the bit of weight w.                                *)
Differ(a, b, w) == w * (((a \div w) + (b \div w)) % 2)

Xor8 ==
  [a \in Byte |-> [b \in Byte |->
    Differ(a, b, 1) + Differ(a, b, 2) + Differ(a, b, 4) + Differ(a, b, 8)
      + Differ(a, b, 16) + Differ(a, b, 32) + Differ(a, b, 64) + Differ(a, b, 128)]]

(* The eight shifts of crc8 by the polynomial 7.                           *)
Shifted8 ==
  [b \in Byte |->
    LET crc[i \in 0..8] == IF i = 0 THEN b
                           ELSE IF crc[i-1] >= 128 THEN Xor8[(2 * crc[i-1]) % 256][7]
                           ELSE 2 * crc[i-1]
    IN  crc[8]]

Crc8(data) ==
  LET crc[i \in 0..Len(data)] == IF i = 0 THEN 0 ELSE Shifted8[Xor8[crc[i-1]][data[i]]]
  IN  crc[Len(data)]

EncodeFrame(f) ==
  <<Start1, Start2, f.type, Len(f.payload) % 256, Len(f.payload) \div 256>>
    \o f.payload \o <<Crc8(f.payload)>>

(* WAIT1; what the other fields hold is overwritten before it is read.     *)
Reset == [state |-> "WAIT1", type |-> 0, len |-> 0, buf |-> <<>>]

States == {"WAIT1", "WAIT2", "TYPE", "LEN_LO", "LEN_HI", "PAYLOAD", "CRC"}

(* Fault: any length is taken.                                             *)
AnyLength(side, n) == TRUE

FitsBuffer(side, n) == n <= MaxLen(side)

(* Only the daemon's parser lets a second 0xAA be the start.                *)
FeedByte(side, p, b) ==
  CASE p.state = "WAIT1" -> IF b = Start1 THEN [p EXCEPT !.state = "WAIT2"] ELSE p
    [] p.state = "WAIT2" ->
         [p EXCEPT !.state = IF b = Start2 THEN "TYPE"
                             ELSE IF b = Start1 /\ side = "pi" THEN "WAIT2" ELSE "WAIT1"]
    [] p.state = "TYPE"   -> [p EXCEPT !.state = "LEN_LO", !.type = b]
    [] p.state = "LEN_LO" -> [p EXCEPT !.state = "LEN_HI", !.len = b]
    [] p.state = "LEN_HI" ->
         LET n == p.len + 256 * b
         IN  IF ~FitsBuffer(side, n) THEN Reset
             ELSE [p EXCEPT !.len = n, !.state = IF n = 0 THEN "CRC" ELSE "PAYLOAD"]
    [] p.state = "PAYLOAD" ->
         [p EXCEPT !.buf = Append(@, b),
                   !.state = IF Len(p.buf) + 1 >= p.len THEN "CRC" ELSE @]
    [] p.state = "CRC"   -> Reset

(* This byte completes a frame.                                            *)
Yields(p, b) == p.state = "CRC" /\ b = Crc8(p.buf)

FrameIn(p) == [type |-> p.type, payload |-> p.buf]
=============================================================================
