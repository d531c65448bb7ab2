----------------------------- MODULE MCTransfer -----------------------------
(* Chains and channels for model checking Transfer. *)
EXTENDS Transfer, TLC

CONSTANTS A, B, C

\* Three chains in a triangle; channel identifiers coincide as they do in practice.
Triangle ==
  (<<A, "channel-0">> :> <<B, "channel-1">>) @@ (<<B, "channel-1">> :> <<A, "channel-0">>) @@
  (<<B, "channel-0">> :> <<C, "channel-1">>) @@ (<<C, "channel-1">> :> <<B, "channel-0">>) @@
  (<<C, "channel-0">> :> <<A, "channel-1">>) @@ (<<A, "channel-1">> :> <<C, "channel-0">>)

\* One packet from each end, except back from C to B.
RoundPackets == [e \in DOMAIN Triangle |-> IF e = <<C, "channel-1">> THEN 0 ELSE 1]

NativeOfA == [c \in Chains |-> IF c = A THEN {"atom"} ELSE {}]
=============================================================================
