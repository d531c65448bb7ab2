------------------------------ MODULE Transfer ------------------------------
(***************************************************************************)
(* Fungible token transfer (apps/transfer) between several chains over     *)
(* several channels: escrowing and burning when tokens leave, unescrowing  *)
(* and minting vouchers when they arrive, refunding when a packet fails or *)
(* times out, and the record each chain keeps of what is in escrow.        *)
(*                                                                         *)
(* Below it is the packet layer of PacketLifecycle, unordered: a packet is *)
(* delivered or times out, never both, and a delivered one is acknowledged *)
(* with the result OnRecvPacket gave.  State changes of OnRecvPacket are   *)
(* discarded when it returns an error acknowledgement.                     *)
(***************************************************************************)
EXTENDS Integers, Sequences, FiniteSetsExt, Functions

CONSTANTS
  Chains,
  Peer,         \* Peer[e]: the channel end that end e = <<chain, channel>> is joined to
  Native,       \* Native[c]: the base denominations of c
  Supply,       \* how much of each base denomination there is
  Amounts,      \* amounts a transfer may be for
  MayDisable,   \* chains whose parameters governance may change
  MaxPackets,   \* MaxPackets[e]: bound on the packets sent from end e
  MaxHops       \* bound on the length of a denomination trace

Ends == DOMAIN Peer

ASSUME TransferAssumption ==
  /\ \A e \in Ends : Peer[e] \in Ends /\ Peer[e] # e /\ Peer[Peer[e]] = e
  /\ \A e \in Ends : e[1] \in Chains
  /\ \A c, d \in Chains : c # d => Native[c] \cap Native[d] = {}
  /\ Amounts \subseteq Nat \ {0}
  /\ MaxPackets \in [Ends -> Nat]
  /\ {Supply, MaxHops} \subseteq Nat

ChannelIds == {e[2] : e \in Ends}

\* A denomination on a chain: the channels of that chain and of the chains before
\* it through which the token came, the last first, and its base.  The port is
\* always the one the module is bound to.
Paths == UNION {[1..n -> ChannelIds] : n \in 0..MaxHops}

Denoms == [path : Paths, base : UNION {Native[c] : c \in Chains}]

\* One account for all users of a chain, one escrow account per channel end, and
\* an account that may not receive funds.
User == "user"
Blocked == "blocked"

Accounts(c) == {User} \cup {e[2] : e \in {f \in Ends : f[1] = c}}

VARIABLES
  bank,         \* bank[c][account][denom]: the balances on c
  totalEscrow,  \* totalEscrow[c][denom]: what the module takes to be in escrow
  traces,       \* traces[c]: the denominations c has stored the trace of
  params,       \* params[c]: whether sending and receiving are enabled
  packets       \* packets[e]: the packets sent from e, with their status

vars == <<bank, totalEscrow, traces, params, packets>>

Statuses == {"sent", "ok", "error", "acknowledged", "refunded"}

Init ==
  /\ bank = [c \in Chains |-> [account \in Accounts(c) |-> [denom \in Denoms |->
       IF account = User /\ denom.path = <<>> /\ denom.base \in Native[c] THEN Supply ELSE 0]]]
  /\ totalEscrow = [c \in Chains |-> [denom \in Denoms |-> 0]]
  /\ traces = [c \in Chains |-> {}]
  /\ params = [c \in Chains |-> [sendEnabled |-> TRUE, receiveEnabled |-> TRUE]]
  /\ packets = [e \in Ends |-> <<>>]

-----------------------------------------------------------------------------
(* Denominations. *)

\* The token came to the sending chain over this channel.
ReceiverChainIsSource(channel, denom) ==
  denom.path # <<>> /\ Head(denom.path) = channel

SenderChainIsSource(channel, denom) == ~ReceiverChainIsSource(channel, denom)

Prefixed(channel, denom) == [denom EXCEPT !.path = <<channel>> \o @]

Unprefixed(denom) == [denom EXCEPT !.path = Tail(@)]

-----------------------------------------------------------------------------
(* The bank: what one message does to the balances of a chain. *)

SendCoins(balances, from, to, denom, amount) ==
  [balances EXCEPT ![from][denom] = @ - amount, ![to][denom] = @ + amount]

MintCoins(balances, to, denom, amount) == [balances EXCEPT ![to][denom] = @ + amount]

BurnCoins(balances, from, denom, amount) == [balances EXCEPT ![from][denom] = @ - amount]

EscrowToken(c, channel, denom, amount) ==
  /\ bank' = [bank EXCEPT ![c] = SendCoins(@, User, channel, denom, amount)]
  /\ totalEscrow' = [totalEscrow EXCEPT ![c][denom] = @ + amount]

UnescrowToken(c, channel, denom, amount) ==
  /\ bank[c][channel][denom] >= amount
  /\ bank' = [bank EXCEPT ![c] = SendCoins(@, channel, User, denom, amount)]
  /\ totalEscrow' = [totalEscrow EXCEPT ![c][denom] = @ - amount]

-----------------------------------------------------------------------------
(* Transfers. *)

AppendPacket(e, denom, amount, receiver) ==
  packets' = [packets EXCEPT ![e] = Append(@,
    [denom |-> denom, amount |-> amount, receiver |-> receiver, status |-> "sent"])]

SetStatus(e, seq, status) == packets' = [packets EXCEPT ![e][seq].status = status]

\* MsgTransfer.
SendTransfer(e, denom, amount, receiver) ==
  LET c == e[1] IN
  /\ params[c].sendEnabled
  /\ denom.path # <<>> => denom \in traces[c]
  /\ bank[c][User][denom] >= amount
  /\ IF SenderChainIsSource(e[2], denom)
     THEN EscrowToken(c, e[2], denom, amount)
     ELSE /\ bank' = [bank EXCEPT ![c] = BurnCoins(@, User, denom, amount)]
          /\ UNCHANGED totalEscrow
  /\ AppendPacket(e, denom, amount, receiver)
  /\ UNCHANGED <<traces, params>>

\* The packet cannot be received: receiving is disabled, its receiver may not be
\* paid, or the escrow account holds too little.
Refused(f, channel, packet) ==
  \/ ~params[f[1]].receiveEnabled
  \/ packet.receiver = Blocked
  \/ /\ ReceiverChainIsSource(channel, packet.denom)
     /\ bank[f[1]][f[2]][Unprefixed(packet.denom)] < packet.amount

\* OnRecvPacket fails, and an error acknowledgement is written.
RecvError(e, seq) ==
  /\ packets[e][seq].status = "sent"
  /\ Refused(Peer[e], e[2], packets[e][seq])
  /\ SetStatus(e, seq, "error")
  /\ UNCHANGED <<bank, totalEscrow, traces, params>>

\* OnRecvPacket: back where they came from, tokens are unescrowed.
RecvUnescrow(e, seq) ==
  LET packet == packets[e][seq]
      f == Peer[e]
  IN
  /\ packet.status = "sent"
  /\ ~Refused(f, e[2], packet)
  /\ ReceiverChainIsSource(e[2], packet.denom)
  /\ SetStatus(e, seq, "ok")
  /\ UnescrowToken(f[1], f[2], Unprefixed(packet.denom), packet.amount)
  /\ UNCHANGED <<traces, params>>

\* OnRecvPacket: anywhere else, vouchers are minted.
RecvMint(e, seq) ==
  LET packet == packets[e][seq]
      f == Peer[e]
      voucher == Prefixed(f[2], packet.denom)
  IN
  /\ packet.status = "sent"
  /\ ~Refused(f, e[2], packet)
  /\ ~ReceiverChainIsSource(e[2], packet.denom)
  /\ SetStatus(e, seq, "ok")
  /\ traces' = [traces EXCEPT ![f[1]] = @ \cup {voucher}]
  /\ bank' = [bank EXCEPT ![f[1]] = MintCoins(@, User, voucher, packet.amount)]
  /\ UNCHANGED <<totalEscrow, params>>

\* Mutants of RefundPacketToken: vouchers are minted for tokens in escrow too; the
\* choice is made by the receiving end's channel.
RefundPacketTokenMint(e, packet) ==
  /\ bank' = [bank EXCEPT ![e[1]] = MintCoins(@, User, packet.denom, packet.amount)]
  /\ UNCHANGED totalEscrow

RefundPacketTokenPeer(e, packet) ==
  IF SenderChainIsSource(Peer[e][2], packet.denom)
  THEN UnescrowToken(e[1], e[2], packet.denom, packet.amount)
  ELSE /\ bank' = [bank EXCEPT ![e[1]] = MintCoins(@, User, packet.denom, packet.amount)]
       /\ UNCHANGED totalEscrow

\* The tokens of the packet go back to the sender, the way they left.
RefundPacketToken(e, packet) ==
  IF SenderChainIsSource(e[2], packet.denom)
  THEN UnescrowToken(e[1], e[2], packet.denom, packet.amount)
  ELSE /\ bank' = [bank EXCEPT ![e[1]] = MintCoins(@, User, packet.denom, packet.amount)]
       /\ UNCHANGED totalEscrow

\* OnAcknowledgementPacket with a result, and with an error.
AcknowledgeResult(e, seq) ==
  /\ packets[e][seq].status = "ok"
  /\ SetStatus(e, seq, "acknowledged")
  /\ UNCHANGED <<bank, totalEscrow, traces, params>>

\* Mutant of AcknowledgeError: an error is taken for a result.
AcknowledgeErrorAsResult(e, seq) ==
  /\ packets[e][seq].status = "error"
  /\ SetStatus(e, seq, "acknowledged")
  /\ UNCHANGED <<bank, totalEscrow, traces, params>>

AcknowledgeError(e, seq) ==
  /\ packets[e][seq].status = "error"
  /\ SetStatus(e, seq, "refunded")
  /\ RefundPacketToken(e, packets[e][seq])
  /\ UNCHANGED <<traces, params>>

\* OnTimeoutPacket.
TimeoutTransfer(e, seq) ==
  /\ packets[e][seq].status = "sent"
  /\ SetStatus(e, seq, "refunded")
  /\ RefundPacketToken(e, packets[e][seq])
  /\ UNCHANGED <<traces, params>>

UpdateParams(c, sendEnabled, receiveEnabled) ==
  /\ c \in MayDisable
  /\ params[c] # [sendEnabled |-> sendEnabled, receiveEnabled |-> receiveEnabled]
  /\ params' = [params EXCEPT ![c] =
       [sendEnabled |-> sendEnabled, receiveEnabled |-> receiveEnabled]]
  /\ UNCHANGED <<bank, totalEscrow, traces, packets>>

-----------------------------------------------------------------------------

SendStep(e) ==
  /\ Len(packets[e]) < MaxPackets[e]
  /\ \E denom \in {d \in Denoms : bank[e[1]][User][d] > 0}, amount \in Amounts,
        receiver \in {User, Blocked} :
       /\ SenderChainIsSource(e[2], denom) => Len(denom.path) < MaxHops
       /\ SendTransfer(e, denom, amount, receiver)

RelayStep(e) ==
  \E seq \in DOMAIN packets[e] :
    \/ RecvError(e, seq) \/ RecvUnescrow(e, seq) \/ RecvMint(e, seq)
    \/ AcknowledgeResult(e, seq) \/ AcknowledgeError(e, seq)
    \/ TimeoutTransfer(e, seq)

Next ==
  \/ \E e \in Ends : SendStep(e) \/ RelayStep(e)
  \/ \E c \in Chains, s, r \in BOOLEAN : UpdateParams(c, s, r)

Spec == Init /\ [][Next]_vars

\* Relayers keep working while there is something to relay: Packet's liveness
\* properties say of the layer below that a packet is delivered or times out and
\* that its acknowledgement is processed.
FairSpec == Spec /\ WF_vars(\E e \in Ends : RelayStep(e))

-----------------------------------------------------------------------------
(* Properties. *)

TypeOK ==
  /\ \A c \in Chains :
       /\ bank[c] \in [Accounts(c) -> [Denoms -> Nat]]
       /\ totalEscrow[c] \in [Denoms -> Nat]
       /\ traces[c] \subseteq Denoms
       /\ params[c] \in [sendEnabled : BOOLEAN, receiveEnabled : BOOLEAN]
  /\ \A e \in Ends : packets[e] \in
       Seq([denom : Denoms, amount : Amounts, receiver : {User, Blocked}, status : Statuses])

\* Packets of e whose tokens have left the sender and are nowhere yet.
InFlight(e) == {seq \in DOMAIN packets[e] : packets[e][seq].status \in {"sent", "error"}}

SumOver(S, f(_)) == FoldFunction(+, 0, [x \in {y \in S : f(y) # 0} |-> f(x)])

AmountInFlight(e, denoms) ==
  SumOver({seq \in InFlight(e) : packets[e][seq].denom \in denoms},
          LAMBDA seq : packets[e][seq].amount)

SupplyOf(c, denom) == SumOver(Accounts(c), LAMBDA account : bank[c][account][denom])

\* What is in escrow for a channel end backs, to the last token, the vouchers on
\* the other chain and the packets between the two: sends, receipts, refunds after
\* an error or a timeout, and vouchers that travelled on to other chains and came
\* back, in any order.  So every voucher can be redeemed and every refund be paid.
EscrowBacksVouchers ==
  \A e \in Ends : LET f == Peer[e] IN
    \A denom \in {d \in Denoms : Len(d.path) < MaxHops /\ ~ReceiverChainIsSource(e[2], d)} :
      LET voucher == Prefixed(f[2], denom) IN
      bank[e[1]][e[2]][denom] =
        SupplyOf(f[1], voucher) + AmountInFlight(e, {denom}) + AmountInFlight(f, {voucher})

\* Nobody's tokens are created or lost: over all chains, what users hold of a base
\* denomination under any trace and what is in flight is what there was.
TokensConserved ==
  \A base \in UNION {Native[c] : c \in Chains} :
    LET denoms == {d \in Denoms : d.base = base} IN
    SumOver(Chains \X denoms, LAMBDA x : bank[x[1]][User][x[2]])
      + SumOver(Ends, LAMBDA e : AmountInFlight(e, denoms))
    = Supply

\* The amount the module stores as the total in escrow of a denomination is what
\* its escrow accounts hold, which TotalEscrowPerDenomInvariants relies on.
TotalEscrowTracked ==
  \A c \in Chains : \A denom \in Denoms :
    totalEscrow[c][denom] =
      SumOver(Accounts(c) \ {User}, LAMBDA account : bank[c][account][denom])

\* A voucher somebody holds can be sent on: DenomPathFromHash knows its trace.
VouchersTraceable ==
  \A c \in Chains : \A denom \in Denoms :
    denom.path # <<>> /\ bank[c][User][denom] > 0 => denom \in traces[c]

\* The books of all chains are right in every state: the types, the escrow behind
\* vouchers, the stored totals and the traces.
TransferInv == TypeOK /\ EscrowBacksVouchers /\ TotalEscrowTracked /\ VouchersTraceable

Unsettled ==
  {e \in Ends : \E seq \in DOMAIN packets[e] :
     packets[e][seq].status \notin {"acknowledged", "refunded"}}

\* Every transfer is settled: its tokens arrive and the sender learns it, or the
\* sender gets them back.  No refund waits for tokens that are not in escrow.
TransfersSettle == Unsettled # {} ~> Unsettled = {}
=============================================================================
