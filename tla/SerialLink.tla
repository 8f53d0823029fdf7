----------------------------- MODULE SerialLink -----------------------------
(***************************************************************************)
(* One direction of the serial line between the daemon and its Heltec      *)
(* bridge.  Towards the bridge several threads of the daemon write under   *)
(* _ser_lock and the sketch parses byte by byte; towards the Pi the sketch *)
(* writes and _rx_loop parses what a read returns.                         *)
(*                                                                         *)
(* Abstracted: what is done with a frame, and why bytes get lost (full     *)
(* buffers while a handler sleeps or the radio transmits).                 *)
(***************************************************************************)
EXTENDS FrameParser, SequencesExt

CONSTANTS
  Frames,      \* frames that are written: [type, payload]
  Writers,     \* threads of the daemon that write
  Cuts,        \* numbers of bytes that part of a write may have
  MaxSent,     \* bound: frames written
  MaxFaults    \* bound: faults

ASSUME LinkAssumption ==
  /\ PiMax \in Nat /\ PiMax < 65536 /\ BridgeMax \in Nat
  /\ MaxSent \in Nat /\ MaxFaults \in Nat /\ Cuts \subseteq Nat
  /\ Frames \subseteq [type : Byte, payload : Seq(Byte)]
  /\ \A f \in Frames : Len(f.payload) <= PiMax

VARIABLES
  receiver,  \* "pi" or "bridge"
  unsent,    \* the bytes of its frame that each writer has yet to write
  wire,      \* bytes written and not read
  chunk,     \* bytes of the last read, not yet fed to the parser
  parser,    \* the receiver's parser
  sent,      \* history: frames written
  queue,     \* history: those of them that are to come
  got,       \* history: frames handled
  whole,     \* history: the parser is in step with the line
  faults,    \* history: number of faults
  stall      \* history: bytes fed since the fault, below 0 when it is ahead

vars == <<receiver, unsent, wire, chunk, parser, sent, queue, got, whole,
          faults, stall>>

Init ==
  /\ receiver \in {"pi", "bridge"}
  /\ unsent = [w \in Writers |-> <<>>]
  /\ wire = <<>> /\ chunk = <<>> /\ parser = Reset
  /\ sent = <<>> /\ queue = <<>> /\ got = <<>>
  /\ whole = TRUE /\ faults = 0 /\ stall = 0

(* Every byte that is still to be fed.                                     *)
Left ==
  LET busy == {w \in Writers : unsent[w] # <<>>}
  IN  chunk \o wire \o IF busy = {} THEN <<>> ELSE unsent[CHOOSE w \in busy : TRUE]

Code == [f \in Frames |-> EncodeFrame(f)]

Encoded(q) == FlattenSeq([i \in DOMAIN q |-> Code[q[i]]])

(* History: q is to come.  A parser out of step is in step again when it   *)
(* waits for a frame and whole frames are left.                            *)
Judge(q, intact) ==
  LET suffixes == {SubSeq(q, k, Len(q)) : k \in 1..(Len(q) + 1)}
      aligned  == {s \in suffixes : parser'.state = "WAIT1" /\ Left' = Encoded(s)}
  IN  /\ whole' = (intact \/ aligned # {})
      /\ queue' = IF intact \/ aligned = {} THEN q ELSE CHOOSE s \in aligned : TRUE

-----------------------------------------------------------------------------
(* Writing.                                                                *)

(* Fault: the writers do not exclude each other.                           *)
NobodyElse(w) == unsent[w] = <<>>

(* _ser_lock.                                                              *)
LockFree(w) == \A u \in Writers : unsent[u] = <<>>

(* A frame, or its first n bytes.  The sketch has one thread; a packet     *)
(* that the bridge could not take is not sent.                             *)
BeginWrite(w, f, n) ==
  LET bytes == Code[f] IN
  /\ LockFree(w) /\ Len(sent) < MaxSent /\ n <= Len(bytes)
  /\ receiver = "pi" => w = CHOOSE u \in Writers : TRUE
  /\ receiver = "bridge" => Len(f.payload) <= BridgeMax
  /\ wire' = wire \o SubSeq(bytes, 1, n)
  /\ unsent' = [unsent EXCEPT ![w] = SubSeq(bytes, n + 1, Len(bytes))]
  /\ sent' = Append(sent, f)
  /\ UNCHANGED <<receiver, chunk, parser, got, faults, stall>>
  /\ Judge(Append(queue, f), whole)

FinishWrite(w) ==
  /\ unsent[w] # <<>>
  /\ wire' = wire \o unsent[w]
  /\ unsent' = [unsent EXCEPT ![w] = <<>>]
  /\ UNCHANGED <<receiver, chunk, parser, sent, queue, got, whole, faults, stall>>

-----------------------------------------------------------------------------
(* Reading.                                                                *)

(* ser.read(256) returns what there is; the sketch reads one byte.         *)
Read(n) ==
  /\ chunk = <<>> /\ n <= Len(wire)
  /\ receiver = "bridge" => n = 1
  /\ chunk' = SubSeq(wire, 1, n)
  /\ wire' = SubSeq(wire, n + 1, Len(wire))
  /\ UNCHANGED <<receiver, unsent, parser, sent, queue, got, whole, faults, stall>>

(* One byte through the parser; a frame it completes is handled.           *)
Feed ==
  LET done == Yields(parser, Head(chunk)) IN
  /\ chunk # <<>>
  /\ chunk' = Tail(chunk)
  /\ parser' = FeedByte(receiver, parser, Head(chunk))
  /\ got' = IF done THEN Append(got, FrameIn(parser)) ELSE got
  /\ UNCHANGED <<receiver, unsent, wire, sent, faults>>
  /\ Judge(IF done /\ whole /\ queue # <<>> THEN Tail(queue) ELSE queue, whole)
  /\ stall' = IF whole' THEN 0 ELSE stall + 1

-----------------------------------------------------------------------------
(* Faults.                                                                 *)

(* The line is damaged behind its next n bytes.                            *)
Damage(n) ==
  /\ faults < MaxFaults /\ faults' = faults + 1
  /\ stall' = IF stall < -n THEN stall ELSE -n
  /\ UNCHANGED <<receiver, sent, got>>
  /\ Judge(queue, FALSE)

(* _rx_loop catches what a handler raises, outside its loop over feed():   *)
(* the rest of the chunk is dropped, and _feed_byte, left at its yield,    *)
(* does not reset the parser.                                              *)
HandlerRaises ==
  /\ receiver = "pi" /\ chunk # <<>> /\ Yields(parser, Head(chunk))
  /\ chunk' = <<>>
  /\ UNCHANGED <<unsent, wire, parser>>
  /\ Damage(0)

LoseByte(i) ==
  /\ i \in DOMAIN wire /\ wire' = RemoveAt(wire, i)
  /\ UNCHANGED <<unsent, chunk, parser>>
  /\ Damage(Len(chunk) + i - 1)

(* ser.write raises, or the writer stops, with a part of a frame written.  *)
WriteFails(w) ==
  /\ unsent[w] # <<>> /\ unsent' = [unsent EXCEPT ![w] = <<>>]
  /\ UNCHANGED <<wire, chunk, parser>>
  /\ Damage(Len(chunk) + Len(wire))

(* The receiver restarts.                                                  *)
Restart ==
  /\ parser' = Reset /\ chunk' = <<>>
  /\ UNCHANGED <<unsent, wire>>
  /\ Damage(0)

Next ==
  \/ \E w \in Writers, f \in Frames : \E n \in Cuts \cup {Len(Code[f])} : BeginWrite(w, f, n)
  \/ \E w \in Writers : FinishWrite(w) \/ WriteFails(w)
  \/ \E n \in 1..Len(wire) : Read(n)
  \/ Feed \/ HandlerRaises \/ Restart
  \/ \E i \in DOMAIN wire : LoseByte(i)

(* A writer that has the lock goes on, and the receiver reads and parses.  *)
Spec ==
  /\ Init /\ [][Next]_vars
  /\ \A w \in Writers : WF_vars(FinishWrite(w))
  /\ WF_vars(\E n \in 1..Len(wire) : Read(n)) /\ WF_vars(Feed)

-----------------------------------------------------------------------------
(* Properties.                                                             *)

(* Every variable has its type; the parser stays within its buffer, which  *)
(* in the sketch is serialBuf[MAX_PKT_SIZE].                               *)
TypeOK ==
  /\ receiver \in {"pi", "bridge"} /\ whole \in BOOLEAN
  /\ \A s \in {wire, chunk, parser.buf} \cup {unsent[w] : w \in Writers} :
       s \in Seq(Byte)
  /\ parser.state \in States /\ parser.type \in Byte
  /\ Len(parser.buf) <= MaxLen(receiver)
  /\ queue \in Seq(Frames) /\ sent \in Seq(Frames)
  /\ faults \in 0..MaxFaults /\ stall \in Int

Channel == INSTANCE FrameChannel

(* The line is a FrameChannel: between faults every frame is handled once, *)
(* in order and unaltered, whatever bytes it is made of, however reads cut *)
(* the stream and threads compete for the line; and it is handled at last. *)
ImplementsChannel == Channel!Spec

(* No frame so far has the first start byte anywhere but at its start.     *)
PlainSoFar ==
  \A i \in DOMAIN sent : \A k \in 2..Len(Code[sent[i]]) : Code[sent[i]][k] # Start1

Longest == 6 + MaxLen(receiver)

(* With such frames the parser is out of step for no more bytes behind the  *)
(* damage than two of the longest frames have: what it takes for a frame by *)
(* mistake ends, and so does the frame that it then finds itself in.        *)
StallBounded == ~whole /\ PlainSoFar => stall <= 2 * Longest
=============================================================================
