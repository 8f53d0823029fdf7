---------------------------- MODULE MCRootRouter ----------------------------
(***************************************************************************)
(* An instance of RootRouter for TLC: strong and weak links, so that two   *)
(* strong hops are cheaper than one weak one; the HELLO of one neighbour,  *)
(* and LINKs of both that list the other one.                              *)
(***************************************************************************)
EXTENDS RootRouter

StrongAndWeak == {-40, -52}

Packet(src, rssi, report) == [src |-> src, rssi |-> rssi, report |-> report]

SomePackets ==
  {Packet(3, -52, {}), Packet(2, -40, {<<3, -40>>}),
   Packet(3, -40, {<<2, -52>>})}
=============================================================================
