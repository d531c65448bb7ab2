------------------------------ MODULE MCPacket ------------------------------
(* Bounds for model checking Packet. *)
EXTENDS PacketInvariant, TLC

\* Bounds that differ between the two chains.
OneWay2 == (A :> 2) @@ (B :> 0)
Heights23 == (A :> 2) @@ (B :> 3)
=============================================================================
