---------------------------- MODULE MCSerialLink ----------------------------
(***************************************************************************)
(* An instance of SerialLink for TLC: a plain frame, one whose payload is  *)
(* the start of a frame, one without payload.                              *)
(***************************************************************************)
EXTENDS SerialLink

SomeFrames == {[type |-> 83, payload |-> <<1, 2>>],
               [type |-> 82, payload |-> <<170, 85, 73>>],
               [type |-> 73, payload |-> <<>>]}
=============================================================================
