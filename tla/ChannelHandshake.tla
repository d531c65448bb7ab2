-------------------------- MODULE ChannelHandshake --------------------------
(***************************************************************************)
(* The opening and closing handshakes of 04-channel between two chains,    *)
(* over the connections they share, with the application callbacks the     *)
(* message server makes and the version the applications negotiate.  A     *)
(* channel may be proposed on a connection that is not open yet, an INIT   *)
(* end may be answered several times, over several connections and with    *)
(* several versions, and either end may be closed at any moment.           *)
(*                                                                         *)
(* A callback that returns an error undoes the message, which is then a    *)
(* stuttering step.                                                        *)
(***************************************************************************)
EXTENDS Integers, Sequences, FiniteSetsExt

CONSTANTS
  A, B,            \* the chains
  Connections,     \* Connections[k]: the orderings negotiated for connection k
  Proposed,        \* Proposed[k]: the orderings its INIT end proposed
  Ports,           \* the ports bound on each chain
  Orderings,       \* channel orderings an INIT may ask for
  AppVersions,     \* versions an application may return
  ClosingApps,     \* chains whose application accepts OnChanCloseInit
  FaultyClients,   \* chains whose light client may be lost
  Initiators,      \* chains on which someone starts a handshake
  MaxChannels,     \* MaxChannels[c]: bound on the channels of c
  MaxHeight        \* MaxHeight[c]: bound on the height of c

Chains == {A, B}

ASSUME ChannelAssumption ==
  /\ A # B
  /\ DOMAIN Proposed = DOMAIN Connections
  /\ \A k \in DOMAIN Connections :
       Connections[k] \subseteq Proposed[k] /\ Proposed[k] \subseteq {"ORDERED", "UNORDERED"}
  /\ MaxChannels \in [Chains -> Nat]
  /\ MaxHeight \in [Chains -> Nat \ {0}]

Other(c) == IF c = A THEN B ELSE A

\* The ends of connection k have different identifiers on the two chains; here
\* both are called k, as ConnectionHandshake shows that they name each other.
ConnectionIds == DOMAIN Connections

VARIABLES
  blocks,      \* blocks[c][h]: the channels of c that header h commits to
  channels,    \* channels[c]: the channel ends of c, by identifier
  connection,  \* connection[c][k]: the state of the end of connection k
  client,      \* client[c]: the light client of the other chain
  told         \* the ends whose application was told that they are open

vars == <<blocks, channels, connection, client, told>>

Height(c) == Len(blocks[c])

States == {"INIT", "TRYOPEN", "OPEN", "CLOSED"}

\* The counterparty's channel identifier is 0 when it is not known.
Counterparty(portId, channelId) == [portId |-> portId, channelId |-> channelId]

\* An end is stored under its port and identifier, the first of which is kept in
\* the record here.
Channel(state, portId, ordering, counterparty, hop, version) ==
  [state |-> state, portId |-> portId, ordering |-> ordering,
   counterparty |-> counterparty, hop |-> hop, version |-> version]

\* A has proposed the connections and B has answered.
Init ==
  /\ channels = [c \in Chains |-> <<>>]
  /\ blocks = [c \in Chains |-> <<channels[c]>>]
  /\ connection = [c \in Chains |->
       [k \in ConnectionIds |-> IF c = A THEN "INIT" ELSE "TRYOPEN"]]
  /\ client = [c \in Chains |-> [active |-> TRUE, heights |-> {1}]]
  /\ told = {}

-----------------------------------------------------------------------------
(* The layers below. *)

NextBlock(c) ==
  /\ Height(c) < MaxHeight[c]
  /\ blocks' = [blocks EXCEPT ![c] = Append(@, channels[c])]
  /\ UNCHANGED <<channels, connection, client, told>>

\* Headers the client of c has yet to see, brought in order with gaps.
Unseen(c) == {h \in 1..Height(Other(c)) : Max(client[c].heights) < h}

UpdateClient(c, h) ==
  /\ client[c].active
  /\ h \in Unseen(c)
  /\ client' = [client EXCEPT ![c].heights = @ \cup {h}]
  /\ UNCHANGED <<blocks, channels, connection, told>>

LoseClient(c) ==
  /\ c \in FaultyClients
  /\ client[c].active
  /\ client' = [client EXCEPT ![c].active = FALSE]
  /\ UNCHANGED <<blocks, channels, connection, told>>

\* ConnOpenAck on A, with the version B picked, and then ConnOpenConfirm on B.
ConnectionOpens(c, k) ==
  /\ \/ connection[c][k] = "INIT"
     \/ connection[c][k] = "TRYOPEN" /\ connection[Other(c)][k] = "OPEN"
  /\ connection' = [connection EXCEPT ![c][k] = "OPEN"]
  /\ UNCHANGED <<blocks, channels, client, told>>

\* Mutant of VerifyChannelState: the connection the other end uses is not compared.
VerifyChannelStateAnyHop(c, h, channelId, expected) ==
  /\ client[c].active
  /\ h \in client[c].heights
  /\ channelId \in DOMAIN blocks[Other(c)][h]
  /\ [blocks[Other(c)][h][channelId] EXCEPT !.hop = expected.hop] = expected

VerifyChannelState(c, h, channelId, expected) ==
  /\ client[c].active
  /\ h \in client[c].heights
  /\ channelId \in DOMAIN blocks[Other(c)][h]
  /\ blocks[Other(c)][h][channelId] = expected

-----------------------------------------------------------------------------
(* The opening handshake. *)

AddChannel(c, channel) ==
  /\ channels' = [channels EXCEPT ![c] = Append(@, channel)]
  /\ UNCHANGED <<blocks, connection, client, told>>

SetChannel(c, channelId, channel) ==
  /\ channels' = [channels EXCEPT ![c][channelId] = channel]
  /\ UNCHANGED <<blocks, connection, client>>

\* An end that opens, the end it is joined to and the terms.
Joint(c, channelId, channel) ==
  [end |-> <<c, channelId>>, with |-> <<Other(c), channel.counterparty.channelId>>,
   terms |-> [ordering |-> channel.ordering, version |-> channel.version, hop |-> channel.hop]]

\* The application of c learns that end channelId is open.
TellOpen(c, channelId, channel) == told' = told \cup {Joint(c, channelId, channel)}

\* The orderings of the one version that the end of connection k on c has.
Supports(c, k) == IF connection[c][k] = "INIT" THEN Proposed[k] ELSE Connections[k]

\* version is the one OnChanOpenInit returns.  The connection need not be open, and may
\* come to support less than it proposes.
ChanOpenInit(c, ordering, k, portId, counterpartyPortId, version) ==
  /\ ordering \in Supports(c, k)
  /\ client[c].active
  /\ AddChannel(c,
       Channel("INIT", portId, ordering, Counterparty(counterpartyPortId, 0), k, version))

\* version is the one OnChanOpenTry returns, counterpartyVersion the other end's.
ChanOpenTry(c, ordering, k, portId, counterparty, counterpartyVersion, version, h) ==
  /\ connection[c][k] = "OPEN"
  /\ ordering \in Supports(c, k)
  /\ VerifyChannelState(c, h, counterparty.channelId,
       Channel("INIT", counterparty.portId, ordering, Counterparty(portId, 0), k,
               counterpartyVersion))
  /\ AddChannel(c, Channel("TRYOPEN", portId, ordering, counterparty, k, version))

\* The other chain has an end that answers channelId.
VerifyAnswer(c, channelId, counterpartyVersion, counterpartyChannelId, h) ==
  LET channel == channels[c][channelId] IN
  /\ connection[c][channel.hop] = "OPEN"
  /\ VerifyChannelState(c, h, counterpartyChannelId,
       Channel("TRYOPEN", channel.counterparty.portId, channel.ordering,
               Counterparty(channel.portId, channelId), channel.hop, counterpartyVersion))

ChanOpenAckAgain(c, channelId, counterpartyVersion, counterpartyChannelId, h) ==
  LET opened == [channels[c][channelId] EXCEPT !.state = "OPEN", !.version = counterpartyVersion,
                   !.counterparty.channelId = counterpartyChannelId]
  IN
  /\ channels[c][channelId].state \in {"INIT", "OPEN"}
  /\ VerifyAnswer(c, channelId, counterpartyVersion, counterpartyChannelId, h)
  /\ SetChannel(c, channelId, opened)
  /\ TellOpen(c, channelId, opened)

ChanOpenAck(c, channelId, counterpartyVersion, counterpartyChannelId, h) ==
  LET opened == [channels[c][channelId] EXCEPT !.state = "OPEN", !.version = counterpartyVersion,
                   !.counterparty.channelId = counterpartyChannelId]
  IN
  /\ channels[c][channelId].state = "INIT"
  /\ VerifyAnswer(c, channelId, counterpartyVersion, counterpartyChannelId, h)
  /\ SetChannel(c, channelId, opened)
  /\ TellOpen(c, channelId, opened)

\* What the other end must look like, in the given state, to be joined to this one.
ExpectedPeer(state, channelId, channel) ==
  Channel(state, channel.counterparty.portId, channel.ordering,
          Counterparty(channel.portId, channelId), channel.hop, channel.version)

ChanOpenConfirm(c, channelId, h) ==
  LET channel == channels[c][channelId]
      opened == [channel EXCEPT !.state = "OPEN"]
  IN
  /\ channel.state = "TRYOPEN"
  /\ connection[c][channel.hop] = "OPEN"
  /\ VerifyChannelState(c, h, channel.counterparty.channelId,
                        ExpectedPeer("OPEN", channelId, channel))
  /\ SetChannel(c, channelId, opened)
  /\ TellOpen(c, channelId, opened)

-----------------------------------------------------------------------------
(* The closing handshake. *)

ChanCloseInit(c, channelId) ==
  LET channel == channels[c][channelId] IN
  /\ c \in ClosingApps
  /\ channel.state # "CLOSED"
  /\ client[c].active
  /\ connection[c][channel.hop] = "OPEN"
  /\ SetChannel(c, channelId, [channel EXCEPT !.state = "CLOSED"])
  /\ UNCHANGED told

\* Mutant of ChanCloseConfirm: an end that waits to be confirmed is not closed.
ChanCloseConfirmOpen(c, channelId, h) ==
  LET channel == channels[c][channelId] IN
  /\ channel.state = "OPEN"
  /\ connection[c][channel.hop] = "OPEN"
  /\ VerifyChannelState(c, h, channel.counterparty.channelId,
                        ExpectedPeer("CLOSED", channelId, channel))
  /\ SetChannel(c, channelId, [channel EXCEPT !.state = "CLOSED"])
  /\ UNCHANGED told

ChanCloseConfirm(c, channelId, h) ==
  LET channel == channels[c][channelId] IN
  /\ channel.state # "CLOSED"
  /\ connection[c][channel.hop] = "OPEN"
  /\ VerifyChannelState(c, h, channel.counterparty.channelId,
                        ExpectedPeer("CLOSED", channelId, channel))
  /\ SetChannel(c, channelId, [channel EXCEPT !.state = "CLOSED"])
  /\ UNCHANGED told

-----------------------------------------------------------------------------

ChannelIds == 1..Max({MaxChannels[c] : c \in Chains})

LayerStep(c) ==
  \/ NextBlock(c)
  \/ LoseClient(c)
  \/ \E h \in Unseen(c) : UpdateClient(c, h)
  \/ \E k \in ConnectionIds : ConnectionOpens(c, k)

InitStep(c) ==
  /\ c \in Initiators
  /\ Len(channels[c]) < MaxChannels[c]
  /\ \E ordering \in Orderings, k \in ConnectionIds, portId \in Ports, peer \in Ports,
        version \in AppVersions :
       ChanOpenInit(c, ordering, k, portId, peer, version)

TryStep(c) ==
  /\ Len(channels[c]) < MaxChannels[c]
  /\ \E h \in client[c].heights, k \in ConnectionIds, version \in AppVersions, portId \in Ports :
       \E channelId \in DOMAIN blocks[Other(c)][h] :
         LET peer == blocks[Other(c)][h][channelId] IN
         ChanOpenTry(c, peer.ordering, k, portId, Counterparty(peer.portId, channelId),
                     peer.version, version, h)

AckStep(c, channelId) ==
  \E h \in client[c].heights, peer \in ChannelIds, version \in AppVersions :
    ChanOpenAck(c, channelId, version, peer, h)

ConfirmStep(c, channelId) == \E h \in client[c].heights : ChanOpenConfirm(c, channelId, h)

CloseConfirmStep(c, channelId) == \E h \in client[c].heights : ChanCloseConfirm(c, channelId, h)

Next ==
  \E c \in Chains :
    \/ LayerStep(c) \/ InitStep(c) \/ TryStep(c)
    \/ \E channelId \in DOMAIN channels[c] :
         \/ AckStep(c, channelId) \/ ConfirmStep(c, channelId)
         \/ ChanCloseInit(c, channelId) \/ CloseConfirmStep(c, channelId)

Spec == Init /\ [][Next]_vars

\* Blocks are produced, the connection handshake ends and relayers do their work;
\* proposing, answering and closing a channel is nobody's duty.
Fairness ==
  \A c \in Chains :
    /\ WF_vars(NextBlock(c))
    /\ WF_vars(\E h \in Unseen(c) : UpdateClient(c, h))
    /\ WF_vars(\E k \in ConnectionIds : ConnectionOpens(c, k))
    /\ WF_vars(\E i \in DOMAIN channels[c] : AckStep(c, i) \/ ConfirmStep(c, i))
    /\ WF_vars(\E i \in DOMAIN channels[c] : CloseConfirmStep(c, i))

FairSpec == Spec /\ Fairness

-----------------------------------------------------------------------------
(* Properties. *)

Ends ==
  [state : States, portId : Ports, ordering : Orderings,
   counterparty : [portId : Ports, channelId : {0} \cup ChannelIds],
   hop : ConnectionIds, version : AppVersions]

\* The type of the channels and of the headers; an end that is not INIT names
\* its counterparty unless it was closed before it was answered.
TypeOK ==
  /\ connection \in [Chains -> [ConnectionIds -> {"INIT", "TRYOPEN", "OPEN"}]]
  /\ channels \in [Chains -> Seq(Ends)]
  /\ blocks \in [Chains -> Seq(Seq(Ends))]
  /\ client \in [Chains -> [active : BOOLEAN, heights : SUBSET Nat]]
  /\ \A c \in Chains :
       /\ Len(channels[c]) <= MaxChannels[c]
       /\ Height(c) \in 1..MaxHeight[c]
       /\ client[c].heights \subseteq 1..Height(Other(c))
       /\ \A i \in DOMAIN channels[c] :
            channels[c][i].state \in {"TRYOPEN", "OPEN"} =>
              channels[c][i].counterparty.channelId # 0

\* The end that end i of c names as its counterparty names it back, on the same terms,
\* and is past INIT.
PeerAgrees(c, i) ==
  LET end == channels[c][i]
      peers == channels[Other(c)]
      j == end.counterparty.channelId
  IN
  /\ j \in DOMAIN peers
  /\ peers[j].state # "INIT"
  /\ peers[j] = ExpectedPeer(peers[j].state, i, end)

\* An open channel has two ends that name each other and hold one ordering, which
\* their connection supports even if it supported more when the channel was proposed,
\* and one application version, whoever answered the
\* INIT first and with whatever version; the other end is open, waits to be or has
\* been closed since.
OpenEndsAgree ==
  \A c \in Chains : \A i \in DOMAIN channels[c] :
    channels[c][i].state = "OPEN" =>
      /\ channels[c][i].ordering \in Connections[channels[c][i].hop]
      /\ PeerAgrees(c, i)

\* What an end past INIT may become: all that changes is its state.
Continues(past, now) == now.state # "INIT" /\ now = [past EXCEPT !.state = now.state]

\* An end that a header shows past INIT is still what it was, but for its state: a
\* proof of an old header says what holds now.
HeadersLast(c) ==
  \A h \in 1..Height(c) : \A i \in DOMAIN blocks[c][h] :
    /\ i \in DOMAIN channels[c]
    /\ blocks[c][h][i].state # "INIT" => Continues(blocks[c][h][i], channels[c][i])

\* An end whose application was told that it is open has been so ever since or is
\* closed, on the terms it was told, and its peer agrees.
ToldAgree ==
  \A t \in told : \E c \in Chains : \E i \in DOMAIN channels[c] :
    /\ channels[c][i].state \in {"OPEN", "CLOSED"}
    /\ t = Joint(c, i, channels[c][i])
    /\ PeerAgrees(c, i)

\* The connection of an end that knows its counterparty supports the end's ordering.
Carried(end) == end.counterparty.channelId # 0 => end.ordering \in Connections[end.hop]

\* The inductive invariant of the handshakes: the types, the agreement of open ends,
\* what headers prove and what applications were told hold in every state.
ChannelInv ==
  /\ TypeOK
  /\ OpenEndsAgree
  /\ ToldAgree
  /\ \A c \in Chains :
       /\ HeadersLast(c)
       /\ \A i \in DOMAIN channels[c] :
            /\ Carried(channels[c][i])
            /\ channels[c][i].state = "OPEN" => Joint(c, i, channels[c][i]) \in told

Agreed ==
  INSTANCE Agreement WITH
    Ends <- Chains \X ChannelIds,
    Terms <- [ordering : Orderings, version : AppVersions, hop : ConnectionIds],
    joined <- told

\* Every handshake implements the abstract agreement: ends whose application was
\* told that they are open (OnChanOpenAck, OnChanOpenConfirm) are joined one to
\* one, on the same terms, and closing and answering again undo none of it.
HandshakeAgrees == Agreed!Spec

\* End i of c is to close: a header has the end it is joined to CLOSED.
ToClose(c, i) ==
  /\ i \in DOMAIN channels[c] /\ channels[c][i].state # "CLOSED"
  /\ LET end == channels[c][i] IN \E h \in DOMAIN blocks[Other(c)] :
       /\ end.counterparty.channelId \in DOMAIN blocks[Other(c)][h]
       /\ blocks[Other(c)][h][end.counterparty.channelId] = ExpectedPeer("CLOSED", i, end)

HalfClosed == {e \in Chains \X ChannelIds : ToClose(e[1], e[2])}

ClientLost == \E c \in Chains : ~client[c].active

\* When one end of a channel is closed, and a block says so, the other end closes
\* too, even if it never got to open: no half-open channel is left for packets to
\* be sent into.  Nothing is promised once a client is lost.
ClosureSpreads == HalfClosed # {} ~> HalfClosed = {} \/ ClientLost
=============================================================================
