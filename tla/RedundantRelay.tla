--------------------------- MODULE RedundantRelay ---------------------------
(***************************************************************************)
(* The ante decorator that keeps redundant relays out of the mempool       *)
(* (core/ante).  Several relayers submit transactions for the same         *)
(* packets.  CheckTx runs the packet messages of a transaction on a check  *)
(* state, the last committed state with the transactions of the mempool on *)
(* top, and refuses it when none of them has an effect.  A block takes     *)
(* transactions in the order of the mempool; those that stay are checked   *)
(* again on the new state.  Mempool and blocks are those of the SDK.       *)
(***************************************************************************)
EXTENDS Integers, Sequences, FiniteSets, SequencesExt

CONSTANTS
  Packets,        \* packets to be relayed
  Txs,            \* the transactions relayers submit: sequences of messages
  MaxMempool      \* bound on the length of the mempool

\* A message carries a packet, or updates the client, or is of another type.
Messages == Packets \union {"update", "other"}

ASSUME RedundantRelayAssumption == Txs \subseteq Seq(Messages) /\ MaxMempool \in Nat

VARIABLES
  committed,      \* the committed state: packets received, and whether the client
                  \* is recent enough for proofs of the packets
  check,          \* the check state
  mempool,        \* accepted transactions, in order
  wasted          \* history: transactions of packets and updates that were put in a
                  \* block when their packets had all been received

vars == <<committed, check, mempool, wasted>>

Init ==
  /\ committed = [received |-> {}, updated |-> FALSE]
  /\ check = committed
  /\ mempool = <<>>
  /\ wasted = {}

-----------------------------------------------------------------------------

\* What the handler of a message does to a state.  RecvPacket verifies the proof
\* before it looks at the receipt, so that a packet received before, which is a
\* no-op, fails as well without a client that is recent enough.
Fails(state, msg) == msg \in Packets /\ ~state.updated

Handle(state, msg) ==
  IF msg = "update" THEN [state EXCEPT !.updated = TRUE]
  ELSE IF msg = "other" THEN state ELSE [state EXCEPT !.received = @ \union {msg}]

\* One message in AnteHandle; another type of message ends the loop.
AnteMessage(run, msg) ==
  IF run.failed \/ run.done THEN run
  ELSE IF msg = "other" THEN [run EXCEPT !.done = TRUE]
  ELSE IF Fails(run.state, msg) THEN [run EXCEPT !.failed = TRUE]
  ELSE [run EXCEPT
          !.packetMsgs = @ + IF msg \in Packets THEN 1 ELSE 0,
          !.redundancies = @ + IF msg \in run.state.received THEN 1 ELSE 0,
          !.state = Handle(@, msg)]

AnteRun(state, tx) ==
  FoldLeft(AnteMessage, [state |-> state, failed |-> FALSE, done |-> FALSE,
                         redundancies |-> 0, packetMsgs |-> 0], tx)

Redundant(run) ==
  ~run.done /\ run.redundancies = run.packetMsgs /\ run.packetMsgs > 0

\* The state after AnteHandle, which a refused transaction does not change.
Accepted(state, tx) ==
  LET run == AnteRun(state, tx) IN ~run.failed /\ ~Redundant(run)

AnteHandle(state, tx) == IF Accepted(state, tx) THEN AnteRun(state, tx).state ELSE state

CheckTx(tx) ==
  /\ Len(mempool) < MaxMempool
  /\ Accepted(check, tx)
  /\ check' = AnteHandle(check, tx)
  /\ mempool' = Append(mempool, tx)
  /\ UNCHANGED <<committed, wasted>>

\* The messages of a delivered transaction have their effects together or not at
\* all; it may also fail for lack of gas.
DeliverMessage(run, msg) ==
  IF run.failed \/ Fails(run.state, msg) THEN [run EXCEPT !.failed = TRUE]
  ELSE [run EXCEPT !.state = Handle(@, msg)]

DeliverTx(state, tx) ==
  LET run == FoldLeft(DeliverMessage, [state |-> state, failed |-> FALSE], tx)
  IN  IF run.failed THEN state ELSE run.state

Relays(tx) == ToSet(tx) \intersect Packets

\* Mutant of Commit: the check state is not set back.
CommitKeepsCheck(n, outOfGas) ==
  LET after[i \in 0..n] ==
        IF i = 0 THEN committed
        ELSE IF i \in outOfGas THEN after[i - 1] ELSE DeliverTx(after[i - 1], mempool[i])
  IN
  /\ committed' = after[n]
  /\ mempool' = SubSeq(mempool, n + 1, Len(mempool))
  /\ UNCHANGED <<check, wasted>>

\* A block of the first n transactions, those in outOfGas failing, then the
\* recheck of the others.
Commit(n, outOfGas) ==
  LET after[i \in 0..n] ==
        IF i = 0 THEN committed
        ELSE IF i \in outOfGas THEN after[i - 1] ELSE DeliverTx(after[i - 1], mempool[i])
      rechecked == FoldLeft(
        LAMBDA run, tx : IF Accepted(run.check, tx)
                         THEN [check |-> AnteHandle(run.check, tx), pool |-> Append(run.pool, tx)]
                         ELSE run,
        [check |-> after[n], pool |-> <<>>], SubSeq(mempool, n + 1, Len(mempool)))
  IN
  /\ committed' = after[n]
  /\ check' = rechecked.check
  /\ mempool' = rechecked.pool
  /\ wasted' = wasted \union {mempool[i] : i \in {j \in 1..n :
       /\ j \notin outOfGas
       /\ \A k \in 1..j : "other" \notin ToSet(mempool[k])
       /\ Relays(mempool[j]) # {} /\ Relays(mempool[j]) \subseteq after[j - 1].received}}

Block == \E n \in 1..Len(mempool) : \E outOfGas \in SUBSET (1..n) : Commit(n, outOfGas)

Next == Block \/ \E tx \in Txs : CheckTx(tx)

Spec == Init /\ [][Next]_vars

-----------------------------------------------------------------------------
(* Properties. *)

TypeOK ==
  /\ {committed, check} \subseteq [received : SUBSET Packets, updated : BOOLEAN]
  /\ committed.received \subseteq check.received
  /\ mempool \in Seq(Txs) /\ Len(mempool) <= MaxMempool
  /\ wasted \subseteq Txs

\* "This will ensure that relayers do not waste fees on multiMsg transactions when
\* another relayer has already submitted all packets": no transaction whose packets
\* had all been received gets into a block, though it had been accepted on a check
\* state that supposed earlier transactions to succeed.  (AnteHandle looks at no
\* message after one of another type, so a transaction with one, and those behind it
\* in a block, are not covered.)
NoFeesWasted == wasted = {}

\* A packet is redundant to CheckTx only when it has been received, or a transaction
\* still in the mempool relays it: one whose relay ran out of gas can be submitted
\* again after the block.
RedundantOnlyIfRelayed ==
  check.received \subseteq
    committed.received \union UNION {Relays(tx) : tx \in ToSet(mempool)}

\* The types, and both directions of the judgement of a relay, hold in every state.
RelayInv == TypeOK /\ NoFeesWasted /\ RedundantOnlyIfRelayed
=============================================================================
