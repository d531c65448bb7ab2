------------------------- MODULE MCTendermintClient -------------------------
(***************************************************************************)
(* Instances of TendermintClient: a chain of three blocks in revision 0    *)
(* that goes on in revision 1, with a validator set that changes at once   *)
(* at the upgrade, and headers its validators signed besides.              *)
(***************************************************************************)
EXTENDS TendermintClient, TLC

CONSTANTS v, w, c1, c2

FiveHeights == 1..5

TwoRevisions == [h \in 1..5 |-> IF h <= 3 THEN 0 ELSE 1]

FiveTimes == 1..5

Block(h, t, r) ==
  [height |-> h, time |-> t, root |-> r,
   validators |-> IF h <= 3 THEN v ELSE w, nextValidators |-> IF h < 3 THEN v ELSE w]

Skipping == {<<v, v>>, <<w, w>>}

\* The honest chain; block 4 is the first of the new revision.
Chain == {Block(1, 1, "r1"), Block(2, 2, "r2"), Block(3, 3, "r3"), Block(4, 4, "r4"), Block(5, 5, "r5")}

\* Block 3 twice, once no later than block 2: a client that was created with it, or
\* recovered with it, holds what the client of the chain would take for misbehaviour.
OutOfOrder == {Block(1, 1, "r1"), Block(2, 2, "r2"), Block(3, 3, "r3"), Block(3, 2, "f3")}

\* The chain upgrades to revision 1; the plan's time is that of the block before last.
Plan(r) ==
  [last |-> 3, root |-> r, latest |-> 4, unbonding |-> 7, time |-> 2, nextValidators |-> w]

OneUpgrade == {Plan("r3")}

AllRoots == {"r1", "r2", "r3", "r4", "r5", "f3"}

SomeDelays == {<<0, 0>>, <<2, 1>>, <<1, 2>>}

OnePeriod == [c \in Clients |-> {3}]

\* One client expires soon, and may be recovered from the other, which expires only
\* if it never gets beyond the first block: not even the early time in the plan of
\* the upgrade lets it expire before the end.
ShortAndLong == (c1 :> {2, 3}) @@ (c2 :> {4})

SymmetricClients == Permutations(Clients)
=============================================================================
