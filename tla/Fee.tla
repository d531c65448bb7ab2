-------------------------------- MODULE Fee --------------------------------
(***************************************************************************)
(* The fee middleware (apps/29-fee): fees are escrowed in one module       *)
(* account for packets of all fee enabled channels, paid to the relayers   *)
(* of a packet when it is acknowledged or times out, and refunded when the *)
(* channel closes.  The chain that sends the packets holds the fees.  The  *)
(* chain that receives them keeps the addresses forward relayers ask to be *)
(* paid at, and names one in each acknowledgement.                         *)
(*                                                                         *)
(* The packet layer below is PacketLifecycle's; channels close as in       *)
(* ChannelHandshake, and an ordered one when a packet of it times out.     *)
(***************************************************************************)
EXTENDS Integers, Sequences, SequencesExt, FiniteSetsExt, Functions

CONSTANTS
  Channels,     \* fee enabled channels
  Ordered,      \* Ordered[ch]
  Async,        \* channels whose application may acknowledge later
  Payers,       \* accounts that pay for packets
  Relayers,
  Fees,         \* fees that may be paid for a packet
  Funds,        \* what each payer has
  MayBlock,     \* payers that an upgrade may put on the bank's list of blocked accounts
  MayRegister,  \* <<channel, relayer>>: relayers that register addresses to be paid at
  MayClose,     \* channels that may be closed by a message
  MaxPackets,   \* MaxPackets[ch]: bound on the packets of a channel
  MaxFees       \* bound on the fees for one packet

Fee == [recv : Nat, ack : Nat, timeout : Nat]

ASSUME FeeAssumption ==
  /\ Fees \subseteq Fee
  /\ {Funds, MaxFees} \subseteq Nat
  /\ MaxPackets \in [Channels -> Nat]
  /\ MayBlock \subseteq Payers
  /\ MayRegister \subseteq Channels \X Relayers

Module == "fee module"
NoAddress == "none"
BlockedAddress == "blocked"

Accounts == Payers \cup Relayers \cup {Module}
Addresses == Relayers \cup {NoAddress, BlockedAddress}

VARIABLES
  bank,               \* balances on the sending chain
  blocked,            \* payers that can no longer be paid
  feesInEscrow,       \* feesInEscrow[ch][seq]: the fees recorded for a packet
  locked,             \* whether the fee module is locked
  payee,              \* payee[ch][relayer] on the sending chain
  packets,            \* packets[ch]: the packets sent
  channel,            \* channel[ch]: the state of the two ends
  counterpartyPayee,  \* counterpartyPayee[ch][relayer] on the receiving chain
  forwardRelayer,     \* forwardRelayer[ch][seq]: kept for an asynchronous acknowledgement
  refundedKept        \* history: what was refunded of packets whose fees stayed on record

feeVars == <<bank, feesInEscrow, locked, refundedKept>>
receiverVars == <<counterpartyPayee, forwardRelayer>>
vars == <<feeVars, blocked, payee, packets, channel, receiverVars>>

Sequence == 1..Max(Range(MaxPackets)) + 1

Init ==
  /\ bank = [account \in Accounts |-> IF account \in Payers THEN Funds ELSE 0]
  /\ blocked = {}
  /\ feesInEscrow = [ch \in Channels |-> [seq \in Sequence |-> <<>>]]
  /\ locked = FALSE
  /\ payee = [ch \in Channels |-> [relayer \in Relayers |-> relayer]]
  /\ packets = [ch \in Channels |-> <<>>]
  /\ channel = [ch \in Channels |-> [source |-> "OPEN", dest |-> "OPEN"]]
  /\ counterpartyPayee = [ch \in Channels |-> [relayer \in Relayers |-> NoAddress]]
  /\ forwardRelayer = [ch \in Channels |-> [seq \in Sequence |-> NoAddress]]
  /\ refundedKept = 0

\* A packet: whether it is under way ("sent"), received but not acknowledged yet
\* ("received"), acknowledged by the receiver ("acknowledged") or over ("done"),
\* the relayer that delivered it and the address its acknowledgement names.
Packet == [status : {"sent", "received", "acknowledged", "done"},
           relayer : Relayers \cup {NoAddress}, forward : Addresses]

NextSequenceSend(ch) == Len(packets[ch]) + 1

HasCommitment(ch, seq) == seq \in DOMAIN packets[ch] /\ packets[ch][seq].status # "done"

-----------------------------------------------------------------------------
(* Escrowing fees. *)

Total(fee) == fee.recv + fee.ack + fee.timeout

EscrowPacketFee(ch, seq, fee, refund) ==
  /\ ~locked
  /\ refund \notin blocked
  /\ Total(fee) > 0
  /\ bank[refund] >= Total(fee)
  /\ bank' = [bank EXCEPT ![refund] = @ - Total(fee), ![Module] = @ + Total(fee)]
  /\ feesInEscrow' = [feesInEscrow EXCEPT ![ch][seq] =
       <<[fee |-> fee, refund |-> refund]>> \o @]
  /\ UNCHANGED <<locked, refundedKept, blocked, payee, packets, channel, receiverVars>>

\* For the packet that will be sent next, whatever the state of the channel.
PayPacketFee(ch, fee, refund) == EscrowPacketFee(ch, NextSequenceSend(ch), fee, refund)

\* Mutant of PayPacketFeeAsync: the packet may be over.
PayPacketFeeAsyncAny(ch, seq, fee, refund) ==
  /\ seq < NextSequenceSend(ch)
  /\ EscrowPacketFee(ch, seq, fee, refund)

\* For a packet that was sent and is not over.
PayPacketFeeAsync(ch, seq, fee, refund) ==
  /\ seq < NextSequenceSend(ch)
  /\ HasCommitment(ch, seq)
  /\ EscrowPacketFee(ch, seq, fee, refund)

-----------------------------------------------------------------------------
(* Paying out. *)

Payable(account) == account \in Accounts \ blocked

Move(balances, to, amount) == [balances EXCEPT ![Module] = @ - amount, ![to] = @ + amount]

\* To the receiver; when that fails to the refund address; when that fails too
\* the money stays where it is.
DistributeFee(balances, receiver, refund, amount) ==
  CASE Payable(receiver) -> Move(balances, receiver, amount)
    [] ~Payable(receiver) /\ Payable(refund) -> Move(balances, refund, amount)
    [] OTHER -> balances

OnAcknowledgementFee(balances, entry, forward, reverse) ==
  LET recv == DistributeFee(balances, forward, entry.refund, entry.fee.recv)
      ack  == DistributeFee(recv, reverse, entry.refund, entry.fee.ack)
  IN  DistributeFee(ack, entry.refund, entry.refund, entry.fee.timeout)

\* Mutant of OnTimeoutFee: the acknowledgement fee is forgotten.
OnTimeoutFeeNoAck(balances, entry, relayer) ==
  LET recv == DistributeFee(balances, entry.refund, entry.refund, entry.fee.recv)
  IN  DistributeFee(recv, relayer, entry.refund, entry.fee.timeout)

OnTimeoutFee(balances, entry, relayer) ==
  LET recv == DistributeFee(balances, entry.refund, entry.refund, entry.fee.recv)
      ack  == DistributeFee(recv, entry.refund, entry.refund, entry.fee.ack)
  IN  DistributeFee(ack, relayer, entry.refund, entry.fee.timeout)

\* All fees of a packet in turn, in a cached context, until the module account
\* cannot cover one.
DistributeAll(entries, pay(_, _)) ==
  FoldLeft(LAMBDA acc, entry :
             IF acc.short \/ acc.bank[Module] < Total(entry.fee)
             THEN [acc EXCEPT !.short = TRUE]
             ELSE [acc EXCEPT !.bank = pay(acc.bank, entry)],
           [bank |-> bank, short |-> FALSE], entries)

\* Mutant of DistributePacketFees: the record of the fees is not deleted.
DistributePacketFeesKeeps(ch, seq, result) ==
  /\ IF result.short
     THEN locked' = TRUE /\ UNCHANGED <<bank, feesInEscrow>>
     ELSE bank' = result.bank /\ UNCHANGED <<feesInEscrow, locked>>
  /\ UNCHANGED refundedKept

\* A shortfall discards the payments and locks the module.
DistributePacketFees(ch, seq, result) ==
  /\ IF result.short
     THEN locked' = TRUE /\ UNCHANGED <<bank, feesInEscrow>>
     ELSE /\ bank' = result.bank
          /\ feesInEscrow' = [feesInEscrow EXCEPT ![ch][seq] = <<>>]
          /\ UNCHANGED locked
  /\ UNCHANGED refundedKept

DistributePacketFeesOnAcknowledgement(ch, seq, forward, reverse) ==
  DistributePacketFees(ch, seq,
    DistributeAll(feesInEscrow[ch][seq],
      LAMBDA balances, entry : OnAcknowledgementFee(balances, entry, forward, reverse)))

DistributePacketFeesOnTimeout(ch, seq, relayer) ==
  DistributePacketFees(ch, seq,
    DistributeAll(feesInEscrow[ch][seq],
      LAMBDA balances, entry : OnTimeoutFee(balances, entry, relayer)))

\* The keys of the fees of a channel are looked up by a prefix that ends with its
\* identifier, and so with the keys of every channel whose identifier begins with
\* it: closing channel-1 goes through the fees of channel-10 as well, after its own.
KeyPrefixes(ch, other) == IsPrefix(ch, other)

ChannelsByKey ==
  [ch \in Channels |-> SetToSortSeq({c \in Channels : KeyPrefixes(ch, c)},
                                    LAMBDA c, d : c # d /\ KeyPrefixes(c, d))]

\* The fees under the prefix, packet by packet.
FeesOfPacket(ch, seq) ==
  [i \in DOMAIN feesInEscrow[ch][seq] |->
    [packet |-> <<ch, seq>>, fee |-> feesInEscrow[ch][seq][i].fee,
     refund |-> feesInEscrow[ch][seq][i].refund]]

FeesOfChannel(ch) ==
  FlattenSeq([i \in DOMAIN ChannelsByKey[ch] |->
    FlattenSeq([seq \in Sequence |-> FeesOfPacket(ChannelsByKey[ch][i], seq)])])

Refunds(entries) ==
  FoldLeft(LAMBDA acc, entry :
             CASE acc.short \/ acc.bank[Module] < Total(entry.fee) ->
                    [acc EXCEPT !.short = TRUE]
               [] ~Payable(entry.refund) -> [acc EXCEPT !.failed = @ \cup {entry.packet}]
               [] OTHER -> [acc EXCEPT !.bank = Move(@, entry.refund, Total(entry.fee))],
           [bank |-> bank, short |-> FALSE, failed |-> {}], entries)

\* The fees of a packet stay on record when one of them could not be refunded, the
\* ones that were refunded included.
RefundedOf(entries, kept) ==
  FoldLeft(LAMBDA sum, entry :
             IF entry.packet \in kept /\ Payable(entry.refund) THEN sum + Total(entry.fee) ELSE sum,
           0, entries)

RefundFeesOnChannelClosure(ch) ==
  \E entries \in {FeesOfChannel(ch)} : \E result \in {Refunds(entries)} :
    IF result.short
    THEN locked' = TRUE /\ UNCHANGED <<bank, feesInEscrow, refundedKept>>
    ELSE /\ bank' = result.bank
         /\ feesInEscrow' = [c \in Channels |-> [seq \in Sequence |->
              IF KeyPrefixes(ch, c) /\ <<c, seq>> \notin result.failed
              THEN <<>> ELSE feesInEscrow[c][seq]]]
         /\ refundedKept' = refundedKept + RefundedOf(entries, result.failed)
         /\ UNCHANGED locked

-----------------------------------------------------------------------------
(* The sending chain. *)

RegisterPayee(ch, relayer, account) ==
  /\ account \notin blocked
  /\ payee' = [payee EXCEPT ![ch][relayer] = account]
  /\ UNCHANGED <<feeVars, blocked, packets, channel, receiverVars>>

SendPacket(ch) ==
  /\ channel[ch].source = "OPEN"
  /\ packets' = [packets EXCEPT ![ch] = Append(@,
       [status |-> "sent", relayer |-> NoAddress, forward |-> NoAddress])]
  /\ UNCHANGED <<feeVars, blocked, payee, channel, receiverVars>>

Finish(ch, seq) == packets' = [packets EXCEPT ![ch][seq].status = "done"]

\* A locked module skips the fees, and a packet without fees has none to skip.
SkipFees(ch, seq) == locked \/ feesInEscrow[ch][seq] = <<>>

OnAcknowledgementPacket(ch, seq, relayer) ==
  /\ channel[ch].source = "OPEN"
  /\ packets[ch][seq].status = "acknowledged"
  /\ Ordered[ch] => \A i \in 1..seq - 1 : ~HasCommitment(ch, i)
  /\ Finish(ch, seq)
  /\ IF SkipFees(ch, seq) THEN UNCHANGED feeVars
     ELSE DistributePacketFeesOnAcknowledgement(
            ch, seq, packets[ch][seq].forward, payee[ch][relayer])
  /\ UNCHANGED <<blocked, payee, channel, receiverVars>>

TimeoutFees(ch, seq, relayer) ==
  IF SkipFees(ch, seq) THEN UNCHANGED feeVars
  ELSE DistributePacketFeesOnTimeout(ch, seq, payee[ch][relayer])

\* The packet was not received in time, or cannot be received any more because
\* the other end is closed.  An ordered channel is closed, without a callback.
OnTimeoutPacket(ch, seq, relayer) ==
  /\ packets[ch][seq].status = "sent"
  /\ channel[ch].source = "OPEN" \/ channel[ch].dest = "CLOSED"
  /\ Finish(ch, seq)
  /\ channel' = [channel EXCEPT ![ch].source = IF Ordered[ch] THEN "CLOSED" ELSE @]
  /\ TimeoutFees(ch, seq, relayer)
  /\ UNCHANGED <<blocked, payee, receiverVars>>

\* OnChanCloseInit and OnChanCloseConfirm: refused while the module is locked.
CloseSource(ch) ==
  /\ channel[ch].source = "OPEN"
  /\ ~locked
  /\ channel' = [channel EXCEPT ![ch].source = "CLOSED"]
  /\ RefundFeesOnChannelClosure(ch)
  /\ UNCHANGED <<blocked, payee, packets, receiverVars>>

OnChanCloseInit(ch) == ch \in MayClose /\ CloseSource(ch)

OnChanCloseConfirm(ch) == channel[ch].dest = "CLOSED" /\ CloseSource(ch)

\* An upgrade of the chain puts an account on the bank's blocked list.
BlockAccount(account) ==
  /\ account \in MayBlock \ blocked
  /\ blocked' = blocked \cup {account}
  /\ UNCHANGED <<feeVars, payee, packets, channel, receiverVars>>

-----------------------------------------------------------------------------
(* The receiving chain. *)

RegisterCounterpartyPayee(ch, relayer, address) ==
  /\ counterpartyPayee' = [counterpartyPayee EXCEPT ![ch][relayer] = address]
  /\ UNCHANGED <<feeVars, blocked, payee, packets, channel, forwardRelayer>>

\* Mutant of OnRecvPacket: the relayer is kept by the sequence number alone.
OnRecvPacketBySequence(ch, seq, relayer) ==
  /\ channel[ch].dest = "OPEN"
  /\ packets[ch][seq].status = "sent"
  /\ packets' = [packets EXCEPT ![ch][seq] =
       [@ EXCEPT !.status = "received", !.relayer = relayer]]
  /\ forwardRelayer' = [c \in Channels |-> [forwardRelayer[c] EXCEPT ![seq] = relayer]]
  /\ UNCHANGED <<feeVars, blocked, payee, channel, counterpartyPayee>>

\* The application acknowledges at once, or the relayer is kept until it does.
OnRecvPacket(ch, seq, relayer) ==
  /\ channel[ch].dest = "OPEN"
  /\ packets[ch][seq].status = "sent"
  /\ Ordered[ch] => \A i \in 1..seq - 1 : packets[ch][i].relayer # NoAddress
  /\ \/ /\ packets' = [packets EXCEPT ![ch][seq] =
               [status |-> "acknowledged", relayer |-> relayer,
                forward |-> counterpartyPayee[ch][relayer]]]
        /\ UNCHANGED forwardRelayer
     \/ /\ ch \in Async
        /\ packets' = [packets EXCEPT ![ch][seq] =
               [@ EXCEPT !.status = "received", !.relayer = relayer]]
        /\ forwardRelayer' = [forwardRelayer EXCEPT ![ch][seq] = relayer]
  /\ UNCHANGED <<feeVars, blocked, payee, channel, counterpartyPayee>>

WriteAcknowledgement(ch, seq) ==
  /\ channel[ch].dest = "OPEN"
  /\ packets[ch][seq].status = "received"
  /\ forwardRelayer[ch][seq] # NoAddress
  /\ packets' = [packets EXCEPT ![ch][seq] = [@ EXCEPT !.status = "acknowledged",
       !.forward = counterpartyPayee[ch][forwardRelayer[ch][seq]]]]
  /\ forwardRelayer' = [forwardRelayer EXCEPT ![ch][seq] = NoAddress]
  /\ UNCHANGED <<feeVars, blocked, payee, channel, counterpartyPayee>>

CloseDest(ch) ==
  /\ channel[ch].dest = "OPEN"
  /\ ch \in MayClose \/ channel[ch].source = "CLOSED"
  /\ channel' = [channel EXCEPT ![ch].dest = "CLOSED"]
  /\ UNCHANGED <<feeVars, blocked, payee, packets, receiverVars>>

-----------------------------------------------------------------------------

PayStep(ch) ==
  \E fee \in Fees, refund \in Payers, seq \in 1..NextSequenceSend(ch) :
    /\ Len(feesInEscrow[ch][seq]) < MaxFees
    /\ \/ seq = NextSequenceSend(ch) /\ PayPacketFee(ch, fee, refund)
       \/ PayPacketFeeAsync(ch, seq, fee, refund)

\* The addresses a relayer registers for itself on the receiving chain: the sending
\* chain pays to one of them, and cannot pay to the other.
Registers(relayer) == {relayer, BlockedAddress}

RegisterStep(ch) ==
  \E relayer \in {x \in Relayers : <<ch, x>> \in MayRegister} :
    \/ \E account \in {relayer} \cup MayBlock : RegisterPayee(ch, relayer, account)
    \/ \E address \in Registers(relayer) : RegisterCounterpartyPayee(ch, relayer, address)

SendStep(ch) == Len(packets[ch]) < MaxPackets[ch] /\ SendPacket(ch)

RelayStep(ch) ==
  \E seq \in DOMAIN packets[ch] : \E relayer \in Relayers :
    \/ OnRecvPacket(ch, seq, relayer)
    \/ OnAcknowledgementPacket(ch, seq, relayer)
    \/ OnTimeoutPacket(ch, seq, relayer)

AcknowledgeStep(ch) == \E seq \in DOMAIN packets[ch] : WriteAcknowledgement(ch, seq)

CloseStep(ch) == OnChanCloseInit(ch) \/ OnChanCloseConfirm(ch) \/ CloseDest(ch)

Next ==
  \/ \E ch \in Channels :
       \/ PayStep(ch) \/ RegisterStep(ch) \/ SendStep(ch)
       \/ RelayStep(ch) \/ AcknowledgeStep(ch) \/ CloseStep(ch)
  \/ \E account \in MayBlock : BlockAccount(account)

Spec == Init /\ [][Next]_vars

\* Relayers relay packets.  Nothing makes an application acknowledge what it left
\* for later, and nobody has to close a channel.
FairSpec == Spec /\ WF_vars(\E ch \in Channels : RelayStep(ch))

-----------------------------------------------------------------------------
(* Properties. *)

TypeOK ==
  /\ bank \in [Accounts -> Nat]
  /\ blocked \subseteq MayBlock
  /\ \A ch \in Channels : feesInEscrow[ch] \in [Sequence -> Seq([fee : Fees, refund : Payers])]
  /\ locked \in BOOLEAN
  /\ payee \in [Channels -> [Relayers -> Relayers \cup MayBlock]]
  /\ packets \in [Channels -> Seq(Packet)]
  /\ channel \in [Channels -> [source : {"OPEN", "CLOSED"}, dest : {"OPEN", "CLOSED"}]]
  /\ counterpartyPayee \in [Channels -> [Relayers -> Addresses]]
  /\ forwardRelayer \in [Channels -> [Sequence -> Relayers \cup {NoAddress}]]
  /\ refundedKept \in Nat

SumSeq(s) == FoldLeft(+, 0, s)

Recorded(ch, seq) ==
  SumSeq([i \in DOMAIN feesInEscrow[ch][seq] |-> Total(feesInEscrow[ch][seq][i].fee)])

TotalRecorded ==
  FoldFunction(+, 0, [x \in Channels \X Sequence |-> Recorded(x[1], x[2])])

\* One account holds the fees of all packets of all channels.  However payments,
\* pay-outs and refunds interleave it holds exactly what the records say as long as
\* every payer can be refunded, so that no packet is paid for with another one's
\* fees.  When one cannot, the account lacks at most what closings refunded of
\* packets whose fees they kept on record: no other pay-out takes too much.
EscrowBacksFees ==
  /\ blocked = {} => bank[Module] = TotalRecorded
  /\ bank[Module] + refundedKept >= TotalRecorded

\* "If the escrow account does not have sufficient funds then there must exist a
\* severe bug", say the comments where the module gets locked.  There is one way
\* to get there: a payer the bank no longer lets anyone pay.
OnlyBlockedPayersLock == locked => blocked # {}

\* Fees on record belong to a packet that can still be paid for: one that is not
\* over, or the next to be sent.  PayPacketFeeAsync races with the
\* acknowledgement or the timeout that clears the record.  (A locked module
\* leaves records behind.)
FeesFollowPackets ==
  ~locked => \A ch \in Channels : \A seq \in Sequence :
    feesInEscrow[ch][seq] # <<>> => HasCommitment(ch, seq) \/ seq = NextSequenceSend(ch)

\* The relayer an acknowledgement names for payment is one that the relayer who
\* delivered this packet registers, however late the acknowledgement is
\* written and whatever was delivered in between.
ForwardRelayerDelivered ==
  \A ch \in Channels : \A seq \in DOMAIN packets[ch] :
    packets[ch][seq].forward # NoAddress =>
      /\ <<ch, packets[ch][seq].relayer>> \in MayRegister
      /\ packets[ch][seq].forward \in Registers(packets[ch][seq].relayer)

\* The types, the reason for a lock and the place of fees hold in every state.
FeeInv == TypeOK /\ OnlyBlockedPayersLock /\ FeesFollowPackets

Owed(ch, seq) ==
  /\ channel[ch].source = "OPEN"
  /\ seq \in DOMAIN packets[ch]
  /\ feesInEscrow[ch][seq] # <<>>

\* Fees in escrow for a packet of an open channel do not stay there: the packet is
\* acknowledged or times out, or its channel closes, in whichever order messages of
\* the two chains are relayed, unless the packet waits for its application to
\* acknowledge it, or the module is locked.
FeesPaidOut ==
  \A ch \in Channels : \A seq \in 1..MaxPackets[ch] :
    Owed(ch, seq) ~>
      ~Owed(ch, seq) \/ packets[ch][seq].status = "received" \/ locked
=============================================================================
