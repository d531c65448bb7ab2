------------------------------- MODULE Packet -------------------------------
(***************************************************************************)
(* The packet life cycle of one channel between two chains: sending,       *)
(* receiving, acknowledging (at once or later), timing out and timing out  *)
(* on close, with the channel steps that race with them (OpenConfirm,      *)
(* CloseInit, CloseConfirm) and the light client each chain keeps of the   *)
(* other.  Every message handler of core/keeper/msg_server.go is a         *)
(* transaction: it runs to completion or is reverted, so it is one action. *)
(* Relayers are the environment: any message may be submitted at any time, *)
(* twice, late, out of order or never, with a proof at any height whose    *)
(* header the light client holds.                                          *)
(*                                                                         *)
(* Messages that the code answers with ErrNoOpMsg or an error leave the    *)
(* state alone; they are the stuttering steps of the specification.        *)
(***************************************************************************)
EXTENDS Integers, Sequences, FiniteSetsExt

CONSTANTS
  A, B,               \* the chains; A ran ChanOpenInit, B ran ChanOpenTry
  Ordering,           \* "ORDERED" or "UNORDERED"
  TimeoutHeights,     \* timeout heights a sender may choose, 0 = none
  TimeoutTimestamps,  \* timeout timestamps a sender may choose, 0 = none
  AsyncApps,          \* chains whose application may acknowledge later
  ClosingApps,        \* chains whose application accepts OnChanCloseInit
  FaultyClients,      \* chains whose light client may expire or be frozen
  MaxSequence,        \* MaxSequence[c]: bound on the packets c sends
  MaxHeight,          \* MaxHeight[c]: bound on the height of c
  MaxBlockInterval    \* bound on the time between two blocks

Chains == {A, B}

ASSUME ChainsAssumption == A # B

ASSUME ConstantsAssumption ==
  /\ Ordering \in {"ORDERED", "UNORDERED"}
  /\ TimeoutHeights \subseteq Nat
  /\ TimeoutTimestamps \subseteq Nat
  /\ MaxSequence \in [Chains -> Nat]
  /\ MaxHeight \in [Chains -> Nat]
  /\ MaxBlockInterval \in Nat

Other(c) == IF c = A THEN B ELSE A

VARIABLES
  blocks,  \* blocks[c][h]: time of block h of c, and the store its header commits to
  store,   \* store[c]: the channel end of c and its packet state, in the block being executed
  client,  \* client[c]: the light client c keeps of the other chain
  app      \* app[c]: what the application of c has seen

vars == <<blocks, store, client, app>>

-----------------------------------------------------------------------------
(* The state. *)

ChannelStates == {"INIT", "TRYOPEN", "OPEN", "CLOSED"}

\* Source and destination are fixed by the end that sent the packet, and its
\* data plays no part in the protocol.
Packets ==
  [seq : Nat \ {0}, timeoutHeight : TimeoutHeights, timeoutTimestamp : TimeoutTimestamps]

Results == {"ok", "error"}

Acknowledgements == [seq : Nat \ {0}, result : Results]

\* The keys of the IBC store under one channel end.  The commitment of a packet
\* stands for the packet, CommitPacket being a hash of its fields.
Stores ==
  [state : ChannelStates,
   nextSend : Nat \ {0}, nextRecv : Nat \ {0}, nextAck : Nat \ {0},
   commitments : SUBSET Packets, receipts : SUBSET (Nat \ {0}),
   acks : SUBSET Acknowledgements]

\* The store committed by header h is the one left by block h - 1.
Headers == [time : Nat, root : Stores]

Callbacks == [packet : Packets, outcome : Results \cup {"timeout"}]

Apps ==
  [sent : SUBSET Packets,         \* packets it sent
   received : Seq(Packets),       \* OnRecvPacket calls, in order
   executed : SUBSET (Nat \ {0}), \* received packets whose state changes were written
   async : SUBSET (Nat \ {0}),    \* received packets it left to acknowledge later
   told : Seq(Callbacks)]         \* OnAcknowledgementPacket and OnTimeoutPacket calls

EmptyStore(state) ==
  [state |-> state, nextSend |-> 1, nextRecv |-> 1, nextAck |-> 1,
   commitments |-> {}, receipts |-> {}, acks |-> {}]

Height(c) == Len(blocks[c])

BlockTime(c) == blocks[c][Height(c)].time

LatestHeight(c) == Max(client[c].heights)

HasAcknowledgement(s, seq) == \E a \in s.acks : a.seq = seq

\* A packet the channel end has received, whatever the channel's ordering.
HasReceived(s, seq) ==
  IF Ordering = "ORDERED" THEN seq < s.nextRecv ELSE seq \in s.receipts

\* A has just run ChanOpenAck on a proof of B's TRYOPEN, B is to run ChanOpenConfirm.
Init ==
  /\ blocks = [c \in Chains |->
        <<[time |-> 1, root |-> EmptyStore(IF c = A THEN "INIT" ELSE "TRYOPEN")]>>]
  /\ store = [c \in Chains |-> EmptyStore(IF c = A THEN "OPEN" ELSE "TRYOPEN")]
  /\ client = [c \in Chains |-> [active |-> TRUE, heights |-> {1}]]
  /\ app = [c \in Chains |->
        [sent |-> {}, received |-> <<>>, executed |-> {}, async |-> {}, told |-> <<>>]]

-----------------------------------------------------------------------------
(* Verification against the light client. *)

\* The header of the other chain a proof at height h is checked against.
ConsensusState(c, h) == blocks[Other(c)][h]

Verifiable(c, h) == client[c].active /\ h \in client[c].heights

VerifyPacketCommitment(c, h, p) ==
  Verifiable(c, h) /\ p \in ConsensusState(c, h).root.commitments

VerifyPacketAcknowledgement(c, h, ack) ==
  Verifiable(c, h) /\ ack \in ConsensusState(c, h).root.acks

\* Mutant of VerifyPacketReceiptAbsence: no proof is asked for.
VerifyPacketReceiptAbsenceNot(c, h, seq) == Verifiable(c, h)

VerifyPacketReceiptAbsence(c, h, seq) ==
  Verifiable(c, h) /\ seq \notin ConsensusState(c, h).root.receipts

\* Mutant of VerifyNextSequenceRecv: the claimed sequence is taken on trust.
VerifyNextSequenceRecvNot(c, h, nextSequenceRecv) == Verifiable(c, h)

VerifyNextSequenceRecv(c, h, nextSequenceRecv) ==
  Verifiable(c, h) /\ nextSequenceRecv = ConsensusState(c, h).root.nextRecv

VerifyChannelState(c, h, state) ==
  Verifiable(c, h) /\ state = ConsensusState(c, h).root.state

-----------------------------------------------------------------------------
(* The chains and their light clients. *)

\* The block being executed is committed and the next one begins: its header
\* carries the store as it is now.
NextBlock(c) ==
  /\ Height(c) < MaxHeight[c]
  /\ \E interval \in 1..MaxBlockInterval :
       blocks' = [blocks EXCEPT ![c] =
         Append(@, [time |-> BlockTime(c) + interval, root |-> store[c]])]
  /\ UNCHANGED <<store, client, app>>

\* MsgUpdateClient with the header of any committed block, newer or older than
\* the latest height, verified from a lower height the client holds.  The oldest
\* consensus state is pruned if it has expired, and an expired one verifies no
\* header; the latest one of an active client has not expired.
UpdateClient(c, h) ==
  /\ client[c].active
  /\ h \in 1..Height(Other(c))
  /\ \E pruned \in SUBSET {Min(client[c].heights)} :
       /\ pruned # {} => c \in FaultyClients /\ LatestHeight(c) \notin pruned
       /\ \E trusted \in client[c].heights \ pruned : trusted < h
       /\ client' = [client EXCEPT ![c].heights = (@ \ pruned) \cup {h}]
  /\ UNCHANGED <<blocks, store, app>>

\* The trusting period runs out, or misbehaviour freezes the client.
LoseClient(c) ==
  /\ c \in FaultyClients
  /\ client[c].active
  /\ client' = [client EXCEPT ![c].active = FALSE]
  /\ UNCHANGED <<blocks, store, app>>

\* A governance proposal revives the client with the latest consensus state of
\* an active substitute, which must be newer than any the client had.
ClientUpdateProposal(c, h) ==
  /\ ~client[c].active
  /\ h \in 1..Height(Other(c))
  /\ h > LatestHeight(c)
  /\ client' = [client EXCEPT ![c] = [active |-> TRUE, heights |-> @.heights \cup {h}]]
  /\ UNCHANGED <<blocks, store, app>>

-----------------------------------------------------------------------------
(* Packets. *)

\* The timeout of p has not been reached by the sender's latest knowledge of
\* the destination.
TimeoutInFuture(c, p) ==
  LET h == LatestHeight(c) IN
  /\ p.timeoutHeight # 0 => h < p.timeoutHeight
  /\ p.timeoutTimestamp # 0 => ConsensusState(c, h).time < p.timeoutTimestamp

SetSent(s, p) == [s EXCEPT !.nextSend = @ + 1, !.commitments = @ \cup {p}]

SendPacket(c, timeoutHeight, timeoutTimestamp) ==
  LET p == [seq |-> store[c].nextSend,
            timeoutHeight |-> timeoutHeight, timeoutTimestamp |-> timeoutTimestamp]
  IN
  /\ store[c].nextSend <= MaxSequence[c]
  /\ store[c].state = "OPEN"
  /\ ~(timeoutHeight = 0 /\ timeoutTimestamp = 0)
  /\ client[c].active
  /\ TimeoutInFuture(c, p)
  /\ store' = [store EXCEPT ![c] = SetSent(@, p)]
  /\ app' = [app EXCEPT ![c].sent = @ \cup {p}]
  /\ UNCHANGED <<blocks, client>>

\* Mutant of TimedOutOnReceive: the timeout itself is still in time.
TimedOutOnReceiveLate(p, height, time) ==
  \/ p.timeoutHeight # 0 /\ height > p.timeoutHeight
  \/ p.timeoutTimestamp # 0 /\ time > p.timeoutTimestamp

\* RecvPacket refuses a packet whose timeout the destination has reached.
TimedOutOnReceive(p, height, time) ==
  \/ p.timeoutHeight # 0 /\ height >= p.timeoutHeight
  \/ p.timeoutTimestamp # 0 /\ time >= p.timeoutTimestamp

\* Mutants of ReplayProtection: no receipt is looked for; an ordered channel only
\* looks back.
ReplayProtectionOrdered(s, seq) == Ordering = "ORDERED" => seq = s.nextRecv

ReplayProtectionGaps(s, seq) ==
  IF Ordering = "ORDERED" THEN seq >= s.nextRecv ELSE seq \notin s.receipts

\* Not received yet and, on an ordered channel, the next one expected.
ReplayProtection(s, seq) ==
  IF Ordering = "ORDERED" THEN seq = s.nextRecv ELSE seq \notin s.receipts

SetReceived(s, seq) ==
  IF Ordering = "ORDERED"
  THEN [s EXCEPT !.nextRecv = @ + 1]
  ELSE [s EXCEPT !.receipts = @ \cup {seq}]

\* Mutant of MayWriteAcknowledgement: a second acknowledgement is accepted.
MayWriteAcknowledgementAgain(s, seq) == s.state = "OPEN"

\* WriteAcknowledgement refuses a second acknowledgement of a packet.
MayWriteAcknowledgement(s, seq) ==
  /\ s.state = "OPEN"
  /\ ~HasAcknowledgement(s, seq)

SetAcknowledgement(s, seq, result) ==
  [s EXCEPT !.acks = @ \cup {[seq |-> seq, result |-> result]}]

\* The application's state changes are written unless it returns an error
\* acknowledgement.
OnRecvPacket(a, p, result) ==
  [a EXCEPT !.received = Append(@, p),
            !.executed = IF result = "error" THEN @ ELSE @ \cup {p.seq},
            !.async = IF result = "async" THEN @ \cup {p.seq} ELSE @]

\* The receipt and the acknowledgement are written whatever the application
\* returns, but for the acknowledgement it leaves for later.
RecvPacket(c, p, h, result) ==
  /\ store[c].state = "OPEN"
  /\ ~TimedOutOnReceive(p, Height(c), BlockTime(c))
  /\ VerifyPacketCommitment(c, h, p)
  /\ ReplayProtection(store[c], p.seq)
  /\ IF result = "async"
     THEN /\ c \in AsyncApps
          /\ store' = [store EXCEPT ![c] = SetReceived(@, p.seq)]
     ELSE /\ MayWriteAcknowledgement(store[c], p.seq)
          /\ store' = [store EXCEPT ![c] =
                         SetAcknowledgement(SetReceived(@, p.seq), p.seq, result)]
  /\ app' = [app EXCEPT ![c] = OnRecvPacket(@, p, result)]
  /\ UNCHANGED <<blocks, client>>

\* The application acknowledges a packet it received before.  It may try again,
\* and with another result.
WriteAcknowledgement(c, seq, result) ==
  /\ seq \in app[c].async
  /\ MayWriteAcknowledgement(store[c], seq)
  /\ store' = [store EXCEPT ![c] = SetAcknowledgement(@, seq, result)]
  /\ UNCHANGED <<blocks, client, app>>

\* The application's callback, called once the handler's checks have passed.
Tell(c, p, outcome) ==
  app' = [app EXCEPT ![c].told = Append(@, [packet |-> p, outcome |-> outcome])]

\* Mutant of SetAcknowledged: the commitment stays.
SetAcknowledgedKeep(s, p) ==
  [s EXCEPT !.nextAck = IF Ordering = "ORDERED" THEN @ + 1 ELSE @]

SetAcknowledged(s, p) ==
  [s EXCEPT !.nextAck = IF Ordering = "ORDERED" THEN @ + 1 ELSE @,
            !.commitments = @ \ {p}]

AcknowledgePacket(c, p, h, result) ==
  /\ store[c].state = "OPEN"
  /\ p \in store[c].commitments
  /\ VerifyPacketAcknowledgement(c, h, [seq |-> p.seq, result |-> result])
  /\ Ordering = "ORDERED" => p.seq = store[c].nextAck
  /\ store' = [store EXCEPT ![c] = SetAcknowledged(@, p)]
  /\ Tell(c, p, result)
  /\ UNCHANGED <<blocks, client>>

\* Mutant of TimeoutReached: both timeouts are wanted.
TimeoutReachedBoth(p, height, time) ==
  ~ \/ p.timeoutHeight = 0 \/ height < p.timeoutHeight
    \/ p.timeoutTimestamp = 0 \/ time < p.timeoutTimestamp

\* TimeoutPacket wants the proof to be at or past the timeout.
TimeoutReached(p, height, time) ==
  ~ /\ p.timeoutHeight = 0 \/ height < p.timeoutHeight
    /\ p.timeoutTimestamp = 0 \/ time < p.timeoutTimestamp

\* Proof that the destination had not received the packet.
VerifyNotReceived(c, p, h) ==
  IF Ordering = "ORDERED"
  THEN \E nextSequenceRecv \in 1..p.seq : VerifyNextSequenceRecv(c, h, nextSequenceRecv)
  ELSE VerifyPacketReceiptAbsence(c, h, p.seq)

\* Mutant of TimeoutExecuted: the ordered channel stays open.
TimeoutExecutedOpen(s, p) == [s EXCEPT !.commitments = @ \ {p}]

\* The commitment is deleted and an ordered channel closes.
TimeoutExecuted(s, p) ==
  [s EXCEPT !.commitments = @ \ {p},
            !.state = IF Ordering = "ORDERED" THEN "CLOSED" ELSE @]

TimeoutPacket(c, p, h) ==
  /\ h \in client[c].heights
  /\ TimeoutReached(p, h, ConsensusState(c, h).time)
  /\ p \in store[c].commitments
  /\ store[c].state = "OPEN"
  /\ VerifyNotReceived(c, p, h)
  /\ Tell(c, p, "timeout")
  /\ store' = [store EXCEPT ![c] = TimeoutExecuted(@, p)]
  /\ UNCHANGED <<blocks, client>>

\* The destination's end is proved closed and the packet not received, both in
\* the same state; the timeout need not be reached, and the sender's own end may
\* be closed too.
TimeoutOnClose(c, p, h) ==
  /\ p \in store[c].commitments
  /\ VerifyChannelState(c, h, "CLOSED")
  /\ VerifyNotReceived(c, p, h)
  /\ Tell(c, p, "timeout")
  /\ store' = [store EXCEPT ![c] = TimeoutExecuted(@, p)]
  /\ UNCHANGED <<blocks, client>>

-----------------------------------------------------------------------------
(* Channel steps. *)

\* Mutant of ChanOpenConfirm: any end that is not open is opened.
ChanOpenConfirmReopen(c, h) ==
  /\ store[c].state # "OPEN"
  /\ VerifyChannelState(c, h, "OPEN")
  /\ store' = [store EXCEPT ![c].state = "OPEN"]
  /\ UNCHANGED <<blocks, client, app>>

ChanOpenConfirm(c, h) ==
  /\ store[c].state = "TRYOPEN"
  /\ VerifyChannelState(c, h, "OPEN")
  /\ store' = [store EXCEPT ![c].state = "OPEN"]
  /\ UNCHANGED <<blocks, client, app>>

ChanCloseInit(c) ==
  /\ c \in ClosingApps
  /\ store[c].state # "CLOSED"
  /\ client[c].active
  /\ store' = [store EXCEPT ![c].state = "CLOSED"]
  /\ UNCHANGED <<blocks, client, app>>

\* Mutant of ChanCloseConfirm: only an open end is closed.
ChanCloseConfirmOpen(c, h) ==
  /\ store[c].state = "OPEN"
  /\ VerifyChannelState(c, h, "CLOSED")
  /\ store' = [store EXCEPT ![c].state = "CLOSED"]
  /\ UNCHANGED <<blocks, client, app>>

ChanCloseConfirm(c, h) ==
  /\ store[c].state # "CLOSED"
  /\ VerifyChannelState(c, h, "CLOSED")
  /\ store' = [store EXCEPT ![c].state = "CLOSED"]
  /\ UNCHANGED <<blocks, client, app>>

-----------------------------------------------------------------------------

\* A message about a packet the sender never sent fails its proof or its
\* commitment check, so only packets that were sent need be tried.
PacketStep(c) ==
  \/ \E th \in TimeoutHeights, ts \in TimeoutTimestamps : SendPacket(c, th, ts)
  \/ \E p \in app[Other(c)].sent, h \in client[c].heights, r \in Results \cup {"async"} :
       RecvPacket(c, p, h, r)
  \/ \E seq \in app[c].async, r \in Results : WriteAcknowledgement(c, seq, r)
  \/ \E p \in app[c].sent, h \in client[c].heights :
       \/ \E r \in Results : AcknowledgePacket(c, p, h, r)
       \/ TimeoutPacket(c, p, h)
       \/ TimeoutOnClose(c, p, h)

ChannelStep(c) ==
  \/ ChanCloseInit(c)
  \/ \E h \in client[c].heights : ChanOpenConfirm(c, h) \/ ChanCloseConfirm(c, h)

ClientStep(c) ==
  \/ LoseClient(c)
  \/ \E h \in 1..Height(Other(c)) : UpdateClient(c, h) \/ ClientUpdateProposal(c, h)

Next ==
  \E c \in Chains : NextBlock(c) \/ ClientStep(c) \/ PacketStep(c) \/ ChannelStep(c)

Spec == Init /\ [][Next]_vars

-----------------------------------------------------------------------------
(* Properties. *)

TypeOK ==
  /\ blocks \in [Chains -> Seq(Headers)]
  /\ \A c \in Chains : Height(c) \in Nat \ {0}
  /\ store \in [Chains -> Stores]
  /\ client \in [Chains -> [active : BOOLEAN, heights : SUBSET Nat]]
  /\ \A c \in Chains : client[c].heights \subseteq 1..Height(Other(c))
  /\ app \in [Chains -> Apps]

Told(c, p, outcome) == \E i \in DOMAIN app[c].told :
  app[c].told[i] = [packet |-> p, outcome |-> outcome]

\* A packet the sender was told has timed out (OnTimeoutPacket, which refunds it)
\* was not and will never be received by the destination.  It is what the
\* comparison of RecvPacket with the block height and time, the comparison of
\* TimeoutPacket with the proof height and its timestamp, and the lag of one
\* block between a store and the header that commits to it must add up to.
NeverReceivedAndTimedOut ==
  \A c \in Chains : \A p \in app[c].sent :
    Told(c, p, "timeout") => ~HasReceived(store[Other(c)], p.seq)

\* OnRecvPacket is called at most once per packet, and only for packets the other
\* end sent: duplicated, late and reordered MsgRecvPacket have no second effect.
ExactlyOnce ==
  \A c \in Chains : LET received == app[c].received IN
    /\ \A i, j \in DOMAIN received : received[i].seq = received[j].seq => i = j
    /\ \A i \in DOMAIN received : received[i] \in app[Other(c)].sent

\* The sender's application is told the fate of a packet at most once, and as long
\* as it was not the commitment is there to prove one.
ToldOnce ==
  \A c \in Chains : LET told == app[c].told IN
    /\ \A i, j \in DOMAIN told : told[i].packet.seq = told[j].packet.seq => i = j
    /\ store[c].commitments = app[c].sent \ {told[i].packet : i \in DOMAIN told}

\* The acknowledgement OnAcknowledgementPacket is called with is the one the other
\* end wrote, the only one there is; a packet acknowledged with success was
\* executed, and one that failed left no state changes behind unless the
\* application had taken it over to acknowledge it later.
AcknowledgementsAgree ==
  \A c \in Chains : LET other == Other(c) IN
    /\ \A a, b \in store[other].acks : a.seq = b.seq => a = b
    /\ \A p \in app[c].sent, r \in Results : Told(c, p, r) =>
         /\ [seq |-> p.seq, result |-> r] \in store[other].acks
         /\ r = "ok" => p.seq \in app[other].executed
         /\ r = "error" /\ other \notin AsyncApps => p.seq \notin app[other].executed

\* On an ordered channel packets are received in the order they were sent without
\* gaps, and acknowledged in that order up to the first that times out.
OrderedDelivery ==
  Ordering = "ORDERED" => \A c \in Chains :
    /\ \A i \in DOMAIN app[c].received : app[c].received[i].seq = i
    /\ \A i \in DOMAIN app[c].told :
         app[c].told[i].outcome # "timeout" => app[c].told[i].packet.seq = i

\* A timeout closes an ordered channel, so that no packet sent after one that
\* timed out is ever received: the destination waits for that one for ever.
TimeoutBlocksOrderedChannel ==
  Ordering = "ORDERED" => \A c \in Chains : \A p \in app[c].sent :
    Told(c, p, "timeout") =>
      /\ store[c].state = "CLOSED"
      /\ store[Other(c)].nextRecv <= p.seq

\* A closed end stays closed, and all that changes in it is that commitments of
\* packets the other end never received are dropped, by TimeoutOnClose.
ClosedIsFinal ==
  [][\A c \in Chains : store[c].state = "CLOSED" =>
       /\ store'[c] = [store[c] EXCEPT !.commitments = store'[c].commitments]
       /\ \A p \in store[c].commitments \ store'[c].commitments :
            /\ p \in app[c].sent
            /\ ~HasReceived(store[Other(c)], p.seq)]_vars

-----------------------------------------------------------------------------
(* The channel implements PacketLifecycle. *)

StatusOf(c, seq) ==
  CASE \E p \in app[c].sent : p.seq = seq /\ Told(c, p, "timeout") -> "timedout"
    [] \E p \in app[c].sent, r \in Results : p.seq = seq /\ Told(c, p, r) -> "acknowledged"
    [] OTHER -> IF HasReceived(store[Other(c)], seq) THEN "delivered" ELSE "sent"

StatusesOf(c) == [seq \in 1..(store[c].nextSend - 1) |-> StatusOf(c, seq)]

FromA == INSTANCE PacketLifecycle WITH
  Ordered <- Ordering = "ORDERED", status <- StatusesOf(A)

\* The packets A sends go through the life cycle, in the steps the handlers of
\* both chains take: every transition of PacketLifecycle is one of theirs.
LifecycleFromA == FromA!Spec

-----------------------------------------------------------------------------
(* Liveness. *)

\* Blocks keep coming, and some relayer keeps the clients up to date and relays
\* acknowledgements, timeouts and channel closings.  Nothing is assumed of
\* MsgRecvPacket: a packet that is never relayed times out.
Fairness ==
  \A c \in Chains :
    /\ WF_vars(NextBlock(c))
    /\ \A h \in 1..MaxHeight[Other(c)] : WF_vars(UpdateClient(c, h))
    /\ WF_vars(\E p \in app[c].sent, h \in client[c].heights, r \in Results :
                 AcknowledgePacket(c, p, h, r))
    /\ WF_vars(\E p \in app[c].sent, h \in client[c].heights :
                 TimeoutPacket(c, p, h) \/ TimeoutOnClose(c, p, h))
    /\ WF_vars(\E h \in client[c].heights : ChanCloseConfirm(c, h))

FairSpec == Spec /\ Fairness

\* The last header within the bound does not commit to the closed end of c.
ClosedAtHorizon(c) ==
  /\ store[c].state = "CLOSED"
  /\ Height(c) = MaxHeight[c]
  /\ blocks[c][MaxHeight[c]].root.state # "CLOSED"

ClientLost == \E c \in Chains : ~client[c].active

\* The application of c left the packet to acknowledge later, and no header commits
\* to its acknowledgement.
AwaitsApplication(c, seq) ==
  seq \in app[c].async /\ ~HasAcknowledgement(blocks[c][Height(c)].root, seq)

\* Every packet sent is acknowledged or times out, unless the receiving application
\* does not acknowledge it or the sender's own end has been closed and the packet was
\* received: its acknowledgement can then no longer be processed (AcknowledgePacket
\* wants the end OPEN).  A packet that was not received is timed out even then,
\* once the other end is proved closed.  Nothing is promised once a client is lost.
EveryPacketResolved ==
  \A c \in Chains : \A seq \in 1..MaxSequence[c] :
    [](store[c].nextSend > seq =>
        \/ <>(\/ \E i \in DOMAIN app[c].told : app[c].told[i].packet.seq = seq
              \/ store[c].state = "CLOSED" /\ HasReceived(store[Other(c)], seq)
              \/ ClosedAtHorizon(c) \/ ClosedAtHorizon(Other(c)) \/ ClientLost)
        \/ <>[]AwaitsApplication(Other(c), seq))

\* When one end closes, by CloseInit or because an ordered packet timed out, the
\* other one does in the end: by CloseConfirm or by a timeout of its own.
BothEndsClose ==
  \A c \in Chains : (store[c].state = "CLOSED") ~>
    (store[Other(c)].state = "CLOSED" \/ ClosedAtHorizon(c) \/ ClientLost)
=============================================================================
