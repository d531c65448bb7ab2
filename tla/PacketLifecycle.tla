-------------------------- MODULE PacketLifecycle --------------------------
(***************************************************************************)
(* What a channel promises its applications about the packets of one       *)
(* direction: a packet that was sent is delivered or times out, never      *)
(* both, and only a delivered packet is acknowledged.  An ordered channel  *)
(* delivers and acknowledges in the order of sending, and stops at the     *)
(* first timeout.  Chains, blocks, proofs and messages do not appear.      *)
(***************************************************************************)
EXTENDS Integers, Sequences

CONSTANT Ordered  \* whether the channel is ordered

VARIABLE status   \* status[seq]: where packet seq is in its life

Statuses == {"sent", "delivered", "acknowledged", "timedout"}

TypeOK == status \in Seq(Statuses)

Earlier(seq) == 1..(seq - 1)

Init == status = <<>>

Send ==
  /\ Ordered => \A seq \in DOMAIN status : status[seq] # "timedout"
  /\ status' = Append(status, "sent")

Deliver(seq) ==
  /\ status[seq] = "sent"
  /\ Ordered => \A s \in Earlier(seq) : status[s] \in {"delivered", "acknowledged"}
  /\ status' = [status EXCEPT ![seq] = "delivered"]

Acknowledge(seq) ==
  /\ status[seq] = "delivered"
  /\ Ordered => \A s \in Earlier(seq) : status[s] = "acknowledged"
  /\ status' = [status EXCEPT ![seq] = "acknowledged"]

TimeOut(seq) ==
  /\ status[seq] = "sent"
  /\ status' = [status EXCEPT ![seq] = "timedout"]

Next ==
  \/ Send
  \/ \E seq \in DOMAIN status : Deliver(seq) \/ Acknowledge(seq) \/ TimeOut(seq)

Spec == Init /\ [][Next]_status
=============================================================================
