------------------------- MODULE MCChannelHandshake -------------------------
(* Connections and bounds for model checking ChannelHandshake. *)
EXTENDS ChannelHandshake, TLC

\* The second connection is left with unordered channels only.
TwoConnections == <<{"ORDERED", "UNORDERED"}, {"UNORDERED"}>>
TwoProposals == <<{"ORDERED", "UNORDERED"}, {"ORDERED", "UNORDERED"}>>

Channels12 == (A :> 1) @@ (B :> 2)
Heights33 == (A :> 3) @@ (B :> 3)
=============================================================================
