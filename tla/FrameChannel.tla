---------------------------- MODULE FrameChannel ----------------------------
(***************************************************************************)
(* What the serial line promises: frames are handed over in the order they *)
(* were written, each one once and as it was written, until a fault.       *)
(* After a fault anything may be handed over until the receiver is in step *)
(* again; some frames are gone then, and the promise holds for the rest.   *)
(***************************************************************************)
EXTENDS Sequences, Naturals

CONSTANT Frames

VARIABLES
  queue,   \* frames written and not yet handed over
  got,     \* frames handed over
  whole,   \* the receiver is in step
  faults   \* number of faults so far

vars == <<queue, got, whole, faults>>

Suffixes(q) == {SubSeq(q, k, Len(q)) : k \in 1..(Len(q) + 1)}

Init == queue = <<>> /\ got = <<>> /\ whole = TRUE /\ faults = 0

Send(f) == queue' = Append(queue, f) /\ UNCHANGED <<got, whole, faults>>

Deliver ==
  /\ whole /\ queue # <<>>
  /\ got' = Append(got, Head(queue)) /\ queue' = Tail(queue)
  /\ UNCHANGED <<whole, faults>>

Fault ==
  /\ faults' = faults + 1
  /\ whole' \in BOOLEAN /\ queue' \in Suffixes(queue)
  /\ UNCHANGED got

(* Out of step: noise may be handed over, and the receiver may recover.    *)
OutOfStep ==
  /\ ~whole /\ whole' \in BOOLEAN
  /\ \/ queue' \in Suffixes(queue)
     \/ \E f \in Frames : queue' \in Suffixes(Append(queue, f))
  /\ got' = got \/ (Len(got') = Len(got) + 1 /\ SubSeq(got', 1, Len(got)) = got)
  /\ UNCHANGED faults

Next == (\E f \in Frames : Send(f)) \/ Deliver \/ Fault \/ OutOfStep

(* What may happen, and that frames are handed over at last.               *)
Safety == Init /\ [][Next]_vars

Spec == Safety /\ WF_vars(Deliver)
=============================================================================
