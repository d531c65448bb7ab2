------------------------ MODULE ConnectionHandshake -------------------------
(***************************************************************************)
(* The opening handshake of 03-connection between two chains that keep     *)
(* several light clients and several connections each.  Anyone may start a *)
(* handshake on any client, both chains may start one for the same pair of *)
(* clients, an INIT end may be answered several times, and every message   *)
(* may be submitted late, twice, out of order or never, with a proof at    *)
(* any height whose header the client holds.                               *)
(*                                                                         *)
(* Clients are created by anyone for anything that calls itself by some    *)
(* chain's name.  A client that follows another chain than the one it is   *)
(* named for holds that chain's consensus states, and whatever it is shown *)
(* may be provable there.                                                  *)
(***************************************************************************)
EXTENDS Versions

CONSTANTS
  A, B,                  \* the chains
  Elsewhere,             \* any chain that is neither
  Clients,               \* Clients[c][id]: the chain a client of c is named for and the one it follows
  CompatibleVersions,    \* CompatibleVersions[c]: the versions c supports, the latest first
  ProposedVersions,      \* versions a MsgConnectionOpenInit may ask for, NoVersion if none
  DelayPeriods,          \* delay periods a MsgConnectionOpenInit may ask for
  Initiators,            \* chains on which someone starts a handshake
  HistoricalEntries,     \* how many past headers of its own a chain remembers
  FaultyClients,         \* chains whose clients may be frozen
  MaxConnections,        \* MaxConnections[c]: bound on the connections of c
  MaxHeight,             \* MaxHeight[c]: bound on the height of c
  Relayed                \* Relayed[c]: the headers of c that are relayed, after the first

Chains == {A, B}

ASSUME HandshakeAssumption ==
  /\ A # B /\ Elsewhere \notin Chains
  /\ \A c \in Chains : \A id \in DOMAIN Clients[c] :
       /\ Clients[c][id].chainId \in Chains \cup {Elsewhere}
       /\ Clients[c][id].follows \in (Chains \cup {Elsewhere}) \ {c}
  /\ CompatibleVersions \in [Chains -> Seq(AnyVersion)]
  /\ \A c \in Chains : UniqueIdentifiers(CompatibleVersions[c])
  /\ DelayPeriods \subseteq Nat
  /\ HistoricalEntries \in Nat
  /\ MaxConnections \in [Chains -> Nat]
  /\ MaxHeight \in [Chains -> Nat \ {0}]
  /\ Relayed \in [Chains -> SUBSET (Nat \ {0, 1})]

Other(c) == IF c = A THEN B ELSE A

VARIABLES
  blocks,  \* blocks[c][h]: the store of c that header h commits to
  store    \* store[c]: the clients and connections of c in the block being executed

vars == <<blocks, store>>

Height(c) == Len(blocks[c])

States == {"INIT", "TRYOPEN", "OPEN"}

\* The counterparty's connection identifier is 0 when it is not known.
ConnectionEnd(state, clientId, counterparty, versions, delayPeriod) ==
  [state |-> state, clientId |-> clientId, counterparty |-> counterparty,
   versions |-> versions, delayPeriod |-> delayPeriod]

Counterparty(clientId, connectionId) ==
  [clientId |-> clientId, connectionId |-> connectionId]

Init ==
  /\ store = [c \in Chains |->
       [clients |-> [id \in DOMAIN Clients[c] |-> [frozen |-> FALSE, heights |-> {1}]],
        connections |-> <<>>]]
  /\ blocks = [c \in Chains |-> <<store[c]>>]

-----------------------------------------------------------------------------
(* Clients, and verification against them. *)

NextBlock(c) ==
  /\ Height(c) < MaxHeight[c]
  /\ blocks' = [blocks EXCEPT ![c] = Append(@, store[c])]
  /\ UNCHANGED store

\* Headers client id of c has yet to see: relayers bring them in order, leaving out
\* what they like (TendermintClient has them in any order).
Unseen(c, id) ==
  {h \in Relayed[Other(c)] :
     Max(store[c].clients[id].heights) < h /\ h <= Height(Other(c))}

\* A client that follows the other chain learns one of its headers.
UpdateClient(c, id, h) ==
  /\ Clients[c][id].follows = Other(c)
  /\ ~store[c].clients[id].frozen
  /\ h \in Unseen(c, id)
  /\ store' = [store EXCEPT ![c].clients[id].heights = @ \cup {h}]
  /\ UNCHANGED blocks

FreezeClient(c, id) ==
  /\ c \in FaultyClients
  /\ ~store[c].clients[id].frozen
  /\ store' = [store EXCEPT ![c].clients[id].frozen = TRUE]
  /\ UNCHANGED blocks

Active(c, id) == ~store[c].clients[id].frozen

\* Whether client id of c accepts a proof at height h that Claim holds of the
\* store of the chain it follows.
VerifyMembership(c, id, h, Claim(_)) ==
  /\ Active(c, id)
  /\ h \in store[c].clients[id].heights
  /\ Clients[c][id].follows = Other(c) => Claim(blocks[Other(c)][h])

\* Mutants of VerifyConnectionState: the delay period is not compared; the other
\* end's connection identifier is not.
VerifyConnectionStateAnyDelay(c, id, h, connectionId, expected) ==
  VerifyMembership(c, id, h, LAMBDA root :
    /\ connectionId \in DOMAIN root.connections
    /\ [root.connections[connectionId] EXCEPT !.delayPeriod = expected.delayPeriod] = expected)

VerifyConnectionStateAnyPeer(c, id, h, connectionId, expected) ==
  VerifyMembership(c, id, h, LAMBDA root :
    /\ connectionId \in DOMAIN root.connections
    /\ [root.connections[connectionId] EXCEPT !.counterparty = expected.counterparty] = expected)

VerifyConnectionState(c, id, h, connectionId, expected) ==
  VerifyMembership(c, id, h, LAMBDA root :
    /\ connectionId \in DOMAIN root.connections
    /\ root.connections[connectionId] = expected)

\* The other chain's client of c, as it was at h, is one c accepts: named for c,
\* not frozen, and not ahead of c.
VerifyClientState(c, id, h, counterpartyClientId) ==
  VerifyMembership(c, id, h, LAMBDA root :
    /\ counterpartyClientId \in DOMAIN root.clients
    /\ LET clientState == root.clients[counterpartyClientId] IN
       /\ ~clientState.frozen
       /\ Clients[Other(c)][counterpartyClientId].chainId = c
       /\ Max(clientState.heights) < Height(c))

\* Mutant of VerifyClientConsensusState: that there is a consensus state will do.
VerifyClientConsensusStateAny(c, id, h, counterpartyClientId, consensusHeight) ==
  VerifyMembership(c, id, h, LAMBDA root :
    /\ counterpartyClientId \in DOMAIN root.clients
    /\ consensusHeight \in root.clients[counterpartyClientId].heights)

\* The consensus state it holds for consensusHeight is the one c had.
VerifyClientConsensusState(c, id, h, counterpartyClientId, consensusHeight) ==
  VerifyMembership(c, id, h, LAMBDA root :
    /\ counterpartyClientId \in DOMAIN root.clients
    /\ consensusHeight \in root.clients[counterpartyClientId].heights
    /\ Clients[Other(c)][counterpartyClientId].follows = c)

\* A past height of its own for which c can still tell its consensus state.
SelfConsensusHeight(c, consensusHeight) ==
  consensusHeight \in (Height(c) - HistoricalEntries)..(Height(c) - 1)

-----------------------------------------------------------------------------
(* The handshake. *)

AddConnection(c, connection) ==
  /\ store' = [store EXCEPT ![c].connections = Append(@, connection)]
  /\ UNCHANGED blocks

SetConnection(c, connectionId, connection) ==
  /\ store' = [store EXCEPT ![c].connections[connectionId] = connection]
  /\ UNCHANGED blocks

OfferedVersions(c, version) ==
  IF version = NoVersion THEN CompatibleVersions[c] ELSE <<version>>

ConnOpenInit(c, clientId, counterpartyClientId, version, delayPeriod) ==
  /\ version # NoVersion => IsSupportedVersion(CompatibleVersions[c], version)
  /\ Active(c, clientId)
  /\ AddConnection(c,
       ConnectionEnd("INIT", clientId, Counterparty(counterpartyClientId, 0),
                     OfferedVersions(c, version), delayPeriod))

\* What ConnOpenTry and ConnOpenAck have proved: the other chain holds the expected
\* end, and its client is a client of c.
VerifyCounterparty(c, clientId, h, consensusHeight, connectionId, expected) ==
  /\ SelfConsensusHeight(c, consensusHeight)
  /\ VerifyConnectionState(c, clientId, h, connectionId, expected)
  /\ VerifyClientState(c, clientId, h, expected.clientId)
  /\ VerifyClientConsensusState(c, clientId, h, expected.clientId, consensusHeight)

ConnOpenTry(c, clientId, counterparty, delayPeriod, counterpartyVersions, h, consensusHeight) ==
  LET version == PickVersion(CompatibleVersions[c], counterpartyVersions) IN
  /\ VerifyCounterparty(c, clientId, h, consensusHeight, counterparty.connectionId,
       ConnectionEnd("INIT", counterparty.clientId, Counterparty(clientId, 0),
                     counterpartyVersions, delayPeriod))
  /\ version # NoVersion
  /\ AddConnection(c,
       ConnectionEnd("TRYOPEN", clientId, counterparty, <<version>>, delayPeriod))

ConnOpenAck(c, connectionId, version, counterpartyConnectionId, h, consensusHeight) ==
  LET connection == store[c].connections[connectionId] IN
  /\ connection.state = "INIT"
  /\ VerifyCounterparty(c, connection.clientId, h, consensusHeight, counterpartyConnectionId,
       ConnectionEnd("TRYOPEN", connection.counterparty.clientId,
                     Counterparty(connection.clientId, connectionId),
                     <<version>>, connection.delayPeriod))
  /\ IsSupportedVersion(connection.versions, version)
  /\ SetConnection(c, connectionId,
       [connection EXCEPT !.state = "OPEN", !.versions = <<version>>,
                          !.counterparty.connectionId = counterpartyConnectionId])

\* Mutant of ConnOpenConfirm: the other end is expected not to know this one.
ConnOpenConfirmUnknown(c, connectionId, h) ==
  LET connection == store[c].connections[connectionId] IN
  /\ connection.state = "TRYOPEN"
  /\ VerifyConnectionState(c, connection.clientId, h, connection.counterparty.connectionId,
       ConnectionEnd("OPEN", connection.counterparty.clientId,
                     Counterparty(connection.clientId, 0),
                     connection.versions, connection.delayPeriod))
  /\ SetConnection(c, connectionId, [connection EXCEPT !.state = "OPEN"])

ConnOpenConfirm(c, connectionId, h) ==
  LET connection == store[c].connections[connectionId] IN
  /\ connection.state = "TRYOPEN"
  /\ VerifyConnectionState(c, connection.clientId, h, connection.counterparty.connectionId,
       ConnectionEnd("OPEN", connection.counterparty.clientId,
                     Counterparty(connection.clientId, connectionId),
                     connection.versions, connection.delayPeriod))
  /\ SetConnection(c, connectionId, [connection EXCEPT !.state = "OPEN"])

-----------------------------------------------------------------------------

\* What messages may carry.
ConnectionIds == 1..Max({MaxConnections[c] : c \in Chains})

VersionLists ==
  {OfferedVersions(c, version) : c \in Chains, version \in ProposedVersions \cup {NoVersion}}

Versions == UNION {{list[i] : i \in DOMAIN list} : list \in VersionLists}

\* Any version two of those may be negotiated to.
NegotiatedVersions ==
  {Version(v.identifier, GetFeatureSetIntersection(v.features, w.features)) :
     v \in Versions, w \in Versions}

ClientStep(c) ==
  \E id \in DOMAIN Clients[c] :
    \/ FreezeClient(c, id)
    \/ \E h \in Unseen(c, id) : UpdateClient(c, id, h)

OpenStep(c) ==
  /\ Len(store[c].connections) < MaxConnections[c]
  /\ \E clientId \in DOMAIN Clients[c], peer \in DOMAIN Clients[Other(c)],
        delayPeriod \in DelayPeriods :
       \/ \E version \in ProposedVersions :
            c \in Initiators /\ ConnOpenInit(c, clientId, peer, version, delayPeriod)
       \/ \E connectionId \in ConnectionIds, versions \in VersionLists,
             h \in store[c].clients[clientId].heights, consensusHeight \in 1..(Height(c) - 1) :
            ConnOpenTry(c, clientId, Counterparty(peer, connectionId), delayPeriod,
                        versions, h, consensusHeight)

\* The ends of c in a state; their handlers refuse the others.
EndsIn(c, state) ==
  {i \in DOMAIN store[c].connections : store[c].connections[i].state = state}

\* The heights a proof about end connectionId may be at.
ProofHeights(c, connectionId) ==
  store[c].clients[store[c].connections[connectionId].clientId].heights

AckStep(c) ==
  \E connectionId \in EndsIn(c, "INIT") :
    \E h \in ProofHeights(c, connectionId), consensusHeight \in 1..(Height(c) - 1),
       version \in NegotiatedVersions, peer \in ConnectionIds :
      ConnOpenAck(c, connectionId, version, peer, h, consensusHeight)

ConfirmStep(c) ==
  \E connectionId \in EndsIn(c, "TRYOPEN") : \E h \in ProofHeights(c, connectionId) :
    ConnOpenConfirm(c, connectionId, h)

Next ==
  \E c \in Chains : NextBlock(c) \/ ClientStep(c) \/ OpenStep(c) \/ AckStep(c) \/ ConfirmStep(c)

Spec == Init /\ [][Next]_vars

\* Blocks are produced and relayers do their work; starting and answering a
\* handshake is nobody's duty.
Fairness ==
  \A c \in Chains :
    /\ WF_vars(NextBlock(c))
    /\ WF_vars(\E id \in DOMAIN Clients[c] : \E h \in Unseen(c, id) : UpdateClient(c, id, h))
    /\ WF_vars(AckStep(c) \/ ConfirmStep(c))

FairSpec == Spec /\ Fairness

-----------------------------------------------------------------------------
(* Properties. *)

ConnectionEnds(c) ==
  [state : States, clientId : DOMAIN Clients[c],
   counterparty : [clientId : DOMAIN Clients[Other(c)], connectionId : {0} \cup ConnectionIds],
   versions : VersionLists \cup {<<v>> : v \in NegotiatedVersions},
   delayPeriod : DelayPeriods]

Stores(c) ==
  [clients : [DOMAIN Clients[c] -> [frozen : BOOLEAN, heights : SUBSET Nat]],
   connections : Seq(ConnectionEnds(c))]

\* The type of the stores and of the headers that commit to them; a client only
\* holds headers that exist.
TypeOK ==
  /\ DOMAIN store = Chains /\ DOMAIN blocks = Chains
  /\ \A c \in Chains :
       /\ store[c] \in Stores(c)
       /\ blocks[c] \in Seq(Stores(c))
       /\ Height(c) \in 1..MaxHeight[c]
       /\ Len(store[c].connections) <= MaxConnections[c]
       /\ \A id \in DOMAIN Clients[c] : store[c].clients[id].heights \subseteq 1..Height(Other(c))

\* An end of c that is on a client that follows the other chain.
Grounded(c, end) == Clients[c][end.clientId].follows = Other(c)

\* The end that end i of c names as its counterparty names it back, on the same clients
\* and terms, and is open or waits to be.
PeerAgrees(c, i) ==
  LET end == store[c].connections[i]
      peers == store[Other(c)].connections
      j == end.counterparty.connectionId
  IN
  /\ j \in DOMAIN peers
  /\ peers[j].state # "INIT"
  /\ peers[j] = ConnectionEnd(peers[j].state, end.counterparty.clientId,
                              Counterparty(end.clientId, i), end.versions, end.delayPeriod)

\* An open connection has two ends that name each other and hold one version and
\* one delay period: whichever relayer finished the handshake, with whatever
\* version, delay period or counterparty, and however many ends answered the same
\* INIT, the end ConnOpenAck or ConnOpenConfirm opens has a partner on the other
\* chain that is open towards it or waits to be.
OpenEndsAgree ==
  \A c \in Chains : \A i \in DOMAIN store[c].connections :
    LET end == store[c].connections[i] IN
    Grounded(c, end) /\ end.state = "OPEN" => PeerAgrees(c, i)

FollowsBack(c, end) ==
  Grounded(c, end) /\ end.state # "INIT" =>
    Clients[Other(c)][end.counterparty.clientId].follows = c

\* The two clients of a connection follow each other's chain: ConnOpenTry and
\* ConnOpenAck accept no partner whose client is only named for this chain, which
\* is what VerifyClientConsensusState is for.
ClientsFollowEachOther ==
  \A c \in Chains : \A i \in DOMAIN store[c].connections :
    FollowsBack(c, store[c].connections[i])

\* An answered or open end has exactly one version, with a feature, that its
\* chain supports, and so does its partner's chain: PickVersion only provides a
\* version in the intersection of the two chains' versions.
OneVersionOfBoth(c, end) ==
  end.state # "INIT" =>
    /\ \E version \in NegotiatedVersions : end.versions = <<version>>
    /\ end.versions[1].features # {}
    /\ IsSupportedVersion(CompatibleVersions[c], end.versions[1])
    /\ Grounded(c, end) => IsSupportedVersion(CompatibleVersions[Other(c)], end.versions[1])

\* An INIT end offers all versions its chain supports, or one that it supports.
OffersSupported(c, end) ==
  end.state = "INIT" =>
    \E version \in ProposedVersions \cup {NoVersion} :
      /\ end.versions = OfferedVersions(c, version)
      /\ version # NoVersion => IsSupportedVersion(CompatibleVersions[c], version)

Sound(c, end) == FollowsBack(c, end) /\ OneVersionOfBoth(c, end) /\ OffersSupported(c, end)

\* What an end past INIT may become: all that changes is its state.
Continues(past, now) == now.state # "INIT" /\ now = [past EXCEPT !.state = now.state]

\* An end that a header shows past INIT is still what it was, but for its state: a
\* proof of an old header says what holds now.
HeadersLast(c) ==
  \A h \in 1..Height(c) : \A i \in DOMAIN blocks[c][h].connections :
    LET past == blocks[c][h].connections[i] IN
    /\ i \in DOMAIN store[c].connections
    /\ past.state # "INIT" => Continues(past, store[c].connections[i])

\* The inductive invariant of the handshake: the types, the agreement of open ends, what
\* headers prove, and of every end, now and in headers, that its version is one its
\* chain supports and so does its partner's.
ConnectionInv ==
  /\ TypeOK
  /\ OpenEndsAgree
  /\ \A c \in Chains :
       /\ HeadersLast(c)
       /\ \A i \in DOMAIN store[c].connections : Sound(c, store[c].connections[i])
       /\ \A h \in 1..Height(c) : \A i \in DOMAIN blocks[c][h].connections :
            Sound(c, blocks[c][h].connections[i])

\* An open end, the end it is joined to and the terms.
Joint(c, i, end) ==
  [end |-> <<c, i>>,
   with |-> <<Other(c), end.counterparty.connectionId>>,
   terms |-> [version |-> end.versions[1], delayPeriod |-> end.delayPeriod]]

\* The ends that are open on clients that follow the other chain.
OpenEnds ==
  {e \in Chains \X ConnectionIds :
     /\ e[2] \in DOMAIN store[e[1]].connections
     /\ store[e[1]].connections[e[2]].state = "OPEN"
     /\ Grounded(e[1], store[e[1]].connections[e[2]])}

Joined == {Joint(e[1], e[2], store[e[1]].connections[e[2]]) : e \in OpenEnds}

\* The abstract agreement: an end is joined when it is open.
Agreed ==
  INSTANCE Agreement WITH
    Ends <- Chains \X ConnectionIds,
    Terms <- [version : NegotiatedVersions, delayPeriod : DelayPeriods],
    joined <- Joined

\* Every handshake implements the abstract agreement: ends that open are joined
\* one to one, on the same terms, and stay so.
HandshakeAgrees == Agreed!Spec

\* End j of the other chain, in a header, answers or is open towards end i of c, on
\* clients that follow each other.
Faces(c, i, j, h, state) ==
  LET connections == blocks[Other(c)][h].connections IN
  /\ i \in DOMAIN store[c].connections /\ Grounded(c, store[c].connections[i])
  /\ j \in DOMAIN connections
  /\ connections[j].state = state
  /\ connections[j].counterparty = Counterparty(store[c].connections[i].clientId, i)
  /\ connections[j].clientId = store[c].connections[i].counterparty.clientId
  /\ Clients[Other(c)][connections[j].clientId].follows = c

\* The bounds leave c a block after the last header of its own that is relayed.
Answered(c, i, j, h) == MaxHeight[c] \notin Relayed[c] /\ Faces(c, i, j, h, "TRYOPEN")

Acknowledged(c, i, j, h) == Faces(c, i, j, h, "OPEN")

\* End i of c is to open: a header that is relayed has the proof for it.
ToOpen(c, i) ==
  \E h \in DOMAIN blocks[Other(c)] \cap Relayed[Other(c)], j \in ConnectionIds :
    /\ Answered(c, i, j, h) \/ Acknowledged(c, i, j, h)
    /\ store[c].connections[i].state # "OPEN"

HalfOpen == {e \in Chains \X ConnectionIds : ToOpen(e[1], e[2])}

ClientLost == \E c \in Chains : \E id \in DOMAIN Clients[c] : ~Active(c, id)

\* Once an answer to an INIT end is in a block it opens, and once an opened end is
\* in a block the end that answered it opens: no handshake is left half open when
\* relayers deliver, although each message is refused until the clients of both
\* chains are recent enough and not too recent (consensusHeight, ValidateSelfClient).
\* Nothing is promised once a client is lost.
HandshakesFinish == HalfOpen # {} ~> HalfOpen = {} \/ ClientLost
=============================================================================
