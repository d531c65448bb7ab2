----------------------------- MODULE Agreement ------------------------------
(***************************************************************************)
(* What an opening handshake promises: an end that opens is joined to one  *)
(* end of the other chain on the terms both hold, for good; no end is      *)
(* joined to two, and the second end to open joins the one that is already *)
(* joined to it.  Messages, proofs and half-open ends do not appear.       *)
(***************************************************************************)
EXTENDS Integers

CONSTANTS
  Ends,    \* the ends of connections, or of channels
  Terms    \* what two ends agree on

VARIABLE joined  \* the ends that opened, each with the end it is joined to and the terms

Joints == [end : Ends, with : Ends, terms : Terms]

Init == joined = {}

\* The same joint, seen from the end it is joined to.
OtherSide(joint) == [end |-> joint.with, with |-> joint.end, terms |-> joint.terms]

\* An end opens that is not open yet, towards one no other end is joined to.
Join(joint) ==
  /\ \A j \in joined :
       /\ j.end # joint.end
       /\ j.with # joint.with
       /\ j.end = joint.with => j = OtherSide(joint)
  /\ joined' = joined \cup {joint}

Next == joined' # joined /\ \E joint \in Joints : Join(joint)

Spec == Init /\ [][Next]_joined
=============================================================================
