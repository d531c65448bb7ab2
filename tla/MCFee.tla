------------------------------- MODULE MCFee -------------------------------
(* Fees and orderings for model checking Fee. *)
EXTENDS Fee, TLC

\* The three parts differ, so that none can stand for another.
OneFee == {[recv |-> 1, ack |-> 2, timeout |-> 4]}

\* The identifier of one channel begins with that of the other.
Few == ("channel-1" :> 1) @@ ("channel-10" :> 1)

OneRegisters == {<<"channel-10", "relayer-0">>}

AllUnordered == [ch \in Channels |-> FALSE]
=============================================================================
