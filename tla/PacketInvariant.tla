-------------------------- MODULE PacketInvariant --------------------------
(***************************************************************************)
(* The inductive invariants from which the safety of packets follows.      *)
(* The heart of PacketInv is LateReceipt: a packet that is in the store of *)
(* a chain but not in the store committed by header h was received in      *)
(* block h or later, so header h shows neither its timeout height nor its  *)
(* timeout timestamp reached, and is no ground for TimeoutPacket.  FateInv *)
(* adds what the two applications have seen to what the stores hold.       *)
(***************************************************************************)
EXTENDS Packet

\* BFT time: block times never decrease.
TimesIncrease(c) ==
  \A i, j \in 1..Height(c) : i <= j => blocks[c][i].time <= blocks[c][j].time

\* A sequence number names one packet, and nextSequenceSend is beyond them all.
SequencesUnique(c) ==
  /\ \A p \in app[c].sent : p.seq < store[c].nextSend
  /\ \A p, q \in app[c].sent : p.seq = q.seq => p = q

\* Only packets that were sent are committed to, now or in any header.
OnlySentCommitted(c) ==
  /\ store[c].commitments \subseteq app[c].sent
  /\ \A h \in 1..Height(c) : blocks[c][h].root.commitments \subseteq app[c].sent

\* Only packets that were sent are acknowledged or time out.
OnlySentTold(c) ==
  \A i \in DOMAIN app[c].told : app[c].told[i].packet \in app[c].sent

\* Only sequence numbers the other end has used are received.
OnlySentReceived(c) ==
  /\ store[c].nextRecv <= store[Other(c)].nextSend
  /\ \A seq \in store[c].receipts : seq < store[Other(c)].nextSend

\* What a header shows of receipts is still so, and once it shows the end closed
\* nothing is received any more.
RootsAgree(c) ==
  \A h \in 1..Height(c) : LET root == blocks[c][h].root IN
    /\ root.nextRecv <= store[c].nextRecv
    /\ root.receipts \subseteq store[c].receipts
    /\ root.state = "CLOSED" =>
         /\ store[c].state = "CLOSED"
         /\ root.nextRecv = store[c].nextRecv
         /\ root.receipts = store[c].receipts

LateReceipt(c) ==
  \A h \in 1..Height(c), p \in app[Other(c)].sent :
    HasReceived(store[c], p.seq) /\ ~HasReceived(blocks[c][h].root, p.seq)
      => ~TimeoutReached(p, h, blocks[c][h].time)

\* A packet that timed out was not received and can no longer be.
TimeoutFinal(c) ==
  \A p \in app[c].sent : Told(c, p, "timeout") =>
    /\ ~HasReceived(store[Other(c)], p.seq)
    /\ \/ TimeoutReached(p, Height(Other(c)), BlockTime(Other(c)))
       \/ store[Other(c)].state = "CLOSED"

\* The inductive invariant: every reachable state of the packet handlers
\* satisfies it, and every handler preserves it.
PacketInv ==
  /\ TypeOK
  /\ \A c \in Chains :
       /\ TimesIncrease(c)
       /\ SequencesUnique(c)
       /\ OnlySentCommitted(c)
       /\ OnlySentTold(c)
       /\ OnlySentReceived(c)
       /\ RootsAgree(c)
       /\ LateReceipt(c)
       /\ TimeoutFinal(c)

-----------------------------------------------------------------------------
(* What the applications have seen. *)

\* What the application of c received was sent, is recorded in the store and comes
\* once; on an ordered channel nextSequenceRecv counts it.
ReceivedOnce(c) ==
  LET received == app[c].received IN
  /\ \A i, j \in DOMAIN received : received[i].seq = received[j].seq => i = j
  /\ \A i \in DOMAIN received :
       /\ received[i] \in app[Other(c)].sent
       /\ HasReceived(store[c], received[i].seq)
  /\ Ordering = "ORDERED" =>
       /\ store[c].nextRecv = Len(received) + 1
       /\ \A i \in DOMAIN received : received[i].seq = i

\* Only what was received is executed, and only what was executed is left to
\* acknowledge later.
ExecutedReceived(c) ==
  /\ \A seq \in app[c].executed : HasReceived(store[c], seq)
  /\ app[c].async \subseteq app[c].executed
  /\ c \notin AsyncApps => app[c].async = {}

\* Only what was received is acknowledged, once and for all, and as it was executed.
AcknowledgedOnce(c) ==
  /\ \A a, b \in store[c].acks : a.seq = b.seq => a = b
  /\ \A h \in 1..Height(c) : blocks[c][h].root.acks \subseteq store[c].acks
  /\ \A a \in store[c].acks :
       /\ HasReceived(store[c], a.seq)
       /\ a.result = "ok" => a.seq \in app[c].executed
       /\ a.result = "error" /\ c \notin AsyncApps => a.seq \notin app[c].executed

\* The sender is told of a packet once, when its commitment goes, and of the
\* acknowledgement the other end wrote.
ToldAsWritten(c) ==
  LET told == app[c].told IN
  /\ \A i, j \in DOMAIN told : told[i].packet.seq = told[j].packet.seq => i = j
  /\ store[c].commitments = app[c].sent \ {told[i].packet : i \in DOMAIN told}
  /\ \A i \in DOMAIN told : told[i].outcome \in Results =>
       [seq |-> told[i].packet.seq, result |-> told[i].outcome] \in store[Other(c)].acks

\* While an ordered end is not closed nothing has timed out and nextSequenceAck
\* counts the acknowledgements.
ToldInOrder(c) ==
  Ordering = "ORDERED" => LET told == app[c].told IN
    /\ \A i \in DOMAIN told : told[i].outcome # "timeout" => told[i].packet.seq = i
    /\ store[c].state # "CLOSED" =>
         /\ store[c].nextAck = Len(told) + 1
         /\ \A i \in DOMAIN told : told[i].outcome # "timeout"

\* The inductive invariant of the histories: the stores and what the applications
\* have seen tell the same story, in every reachable state of the packet handlers.
FateInv ==
  /\ PacketInv
  /\ \A c \in Chains :
       /\ ReceivedOnce(c)
       /\ ExecutedReceived(c)
       /\ AcknowledgedOnce(c)
       /\ ToldAsWritten(c)
       /\ ToldInOrder(c)
=============================================================================
