-------------------------- MODULE ConnectionProofs --------------------------
(***************************************************************************)
(* The connection handshake, for any number of clients, connections,       *)
(* headers and versions: ConnectionInv is inductive, and the handshakes    *)
(* implement the abstract agreement.                                       *)
(***************************************************************************)
EXTENDS ConnectionHandshake, WellFoundedInduction, TLAPS

\* Zenon checks most of the leaves; those that calculate cite SMT.
USE ZenonT(40)

-----------------------------------------------------------------------------
(* Version negotiation. *)

\* A list of versions as a chain keeps or offers it: no identifier twice.
VersionList(versions) == UniqueIdentifiers(versions) /\ \E n \in Nat : DOMAIN versions = 1..n

\* A nonempty set of positions has a least one.
LEMMA LeastPosition ==
  ASSUME NEW T \in SUBSET Nat, T # {}
  PROVE  Min(T) \in T
<1>1. IsWellFoundedOn(OpToRel(<, Nat), Nat)
  BY NatLessThanWellFounded
<1> DEFINE R == OpToRel(<, Nat)
<1>2. \A x, y \in Nat : <<y, x>> \in R <=> y < x
  BY DEF OpToRel
<1> HIDE DEF R
<1>3. PICK m \in T : \A k \in T : <<k, m>> \notin R
  BY <1>1, WFMin DEF R
<1>4. ASSUME NEW k \in T PROVE m <= k
  <2>1. ~(k < m)
    BY <1>2, <1>3
  <2> QED BY <2>1, SMTT(30)
<1> QED
  BY <1>4 DEF Min

\* In a list without repeated identifiers FindSupportedVersion finds the one there is.
LEMMA FindsTheOne ==
  ASSUME NEW versions, VersionList(versions), NEW version,
         NEW i \in DOMAIN versions, versions[i].identifier = version.identifier
  PROVE  /\ Matches(version, versions) # {}
         /\ FindSupportedVersion(version, versions) = versions[i]
<1>1. Matches(version, versions) = {i}
  BY DEF VersionList, UniqueIdentifiers, Matches
<1>2. i \in Nat
  BY SMTT(30) DEF VersionList
<1>3. Min({i}) = i
  BY <1>2, SMTT(30) DEF Min
<1> QED
  BY <1>1, <1>3 DEF FindSupportedVersion

\* What IsSupportedVersion accepts: some of the features of a version in the list.
LEMMA SupportedMeans ==
  ASSUME NEW versions, VersionList(versions), NEW version
  PROVE  IsSupportedVersion(versions, version) <=>
           \E i \in DOMAIN versions :
             /\ versions[i].identifier = version.identifier
             /\ version.features # {} /\ version.features \subseteq versions[i].features
<1>1. ASSUME NEW i \in DOMAIN versions, versions[i].identifier = version.identifier
      PROVE  IsSupportedVersion(versions, version) <=>
               version.features # {} /\ version.features \subseteq versions[i].features
  BY <1>1, FindsTheOne DEF IsSupportedVersion, VerifyProposedVersion, AllowNilFeatureSet
<1>2. Matches(version, versions) # {} =>
        \E i \in DOMAIN versions : versions[i].identifier = version.identifier
  BY DEF Matches
<1>3. ASSUME IsSupportedVersion(versions, version)
      PROVE  \E i \in DOMAIN versions :
               /\ versions[i].identifier = version.identifier
               /\ version.features # {} /\ version.features \subseteq versions[i].features
  BY <1>1, <1>2, <1>3 DEF IsSupportedVersion
<1> QED
  BY <1>1, <1>3

LEMMA CompatibleList ==
  ASSUME NEW c \in Chains
  PROVE  VersionList(CompatibleVersions[c])
<1>1. CompatibleVersions[c] \in Seq(AnyVersion) /\ UniqueIdentifiers(CompatibleVersions[c])
  BY HandshakeAssumption
<1> QED
  BY <1>1, SMTT(30) DEF VersionList

LEMMA OfferedList ==
  ASSUME NEW c \in Chains, NEW version
  PROVE  VersionList(OfferedVersions(c, version))
<1>1. DOMAIN <<version>> = 1..1
  BY SMTT(30)
<1>2. VersionList(<<version>>)
  BY <1>1, SMTT(30) DEF VersionList, UniqueIdentifiers
<1> QED
  BY <1>2, CompatibleList DEF OfferedVersions

\* What is supported by an offer is supported by the chain that made it.
LEMMA OfferSupported ==
  ASSUME NEW c \in Chains, NEW offer, NEW version, NEW picked,
         offer = OfferedVersions(c, version),
         version # NoVersion => IsSupportedVersion(CompatibleVersions[c], version),
         IsSupportedVersion(offer, picked)
  PROVE  IsSupportedVersion(CompatibleVersions[c], picked)
<1>1. CASE version = NoVersion
  BY <1>1 DEF OfferedVersions
<1>2. CASE version # NoVersion
  <2>1. offer = <<version>> /\ VersionList(offer)
    BY <1>2, OfferedList DEF OfferedVersions
  <2>2. PICK i \in DOMAIN offer :
          /\ offer[i].identifier = picked.identifier
          /\ picked.features # {} /\ picked.features \subseteq offer[i].features
    BY <2>1, SupportedMeans
  <2>3. offer[i] = version
    BY <2>1, SMTT(30)
  <2>4. VersionList(CompatibleVersions[c])
    BY CompatibleList
  <2>5. PICK k \in DOMAIN CompatibleVersions[c] :
          /\ CompatibleVersions[c][k].identifier = version.identifier
          /\ version.features \subseteq CompatibleVersions[c][k].features
    BY <1>2, <2>4, SupportedMeans
  <2> QED BY <2>2, <2>3, <2>4, <2>5, SupportedMeans, SMTT(30)
<1> QED
  BY <1>1, <1>2

\* PickVersion picks a version with a feature that both lists support.
LEMMA PickedByBoth ==
  ASSUME NEW ours, NEW theirs, VersionList(ours), VersionList(theirs), NEW picked,
         picked = PickVersion(ours, theirs), picked # NoVersion
  PROVE  /\ picked.features # {}
         /\ IsSupportedVersion(ours, picked) /\ IsSupportedVersion(theirs, picked)
         /\ \E i \in DOMAIN ours, j \in DOMAIN theirs :
              picked = Version(ours[i].identifier,
                               GetFeatureSetIntersection(ours[i].features, theirs[j].features))
<1> DEFINE candidates == Candidates(ours, theirs)
           i == Min(candidates)
<1>1. candidates # {} /\ picked = Negotiated(ours[i], theirs)
  BY DEF PickVersion
<1>2. candidates \in SUBSET Nat
  BY SMTT(30) DEF Candidates, VersionList
<1>3. i \in candidates
  <2> HIDE DEF candidates
  <2> QED BY <1>1, <1>2, LeastPosition
<1> HIDE DEF i
<1>4. /\ i \in DOMAIN ours /\ Matches(ours[i], theirs) # {}
      /\ Negotiated(ours[i], theirs).features # {}
  BY <1>3 DEF Candidates, AllowNilFeatureSet
<1>5. PICK j \in DOMAIN theirs : theirs[j].identifier = ours[i].identifier
  BY <1>4 DEF Matches
<1>6. FindSupportedVersion(ours[i], theirs) = theirs[j]
  BY <1>4, <1>5, FindsTheOne
<1>7. picked = Version(ours[i].identifier,
                       GetFeatureSetIntersection(ours[i].features, theirs[j].features))
  BY <1>1, <1>6 DEF Negotiated
<1>8. /\ picked.identifier = ours[i].identifier /\ picked.identifier = theirs[j].identifier
      /\ picked.features = ours[i].features \cap theirs[j].features
  BY <1>5, <1>7, SMTT(30) DEF Version, GetFeatureSetIntersection
<1>9. picked.features # {}
  BY <1>1, <1>4
<1> QED
  BY <1>4, <1>7, <1>8, <1>9, SupportedMeans

-----------------------------------------------------------------------------
(* Types. *)

LEMMA OtherChain ==
  \A c \in Chains : Other(c) \in Chains /\ Other(c) # c /\ Other(Other(c)) = c
BY HandshakeAssumption DEF Chains, Other

\* The identifiers of connections are those within the bounds of either chain.
LEMMA ConnectionIdsCover ==
  /\ ConnectionIds \subseteq Nat \ {0}
  /\ \A c \in Chains : 1..MaxConnections[c] \subseteq ConnectionIds
<1> DEFINE bounds == {MaxConnections[c] : c \in Chains}
<1>1. /\ bounds = {MaxConnections[A], MaxConnections[B]}
      /\ MaxConnections[A] \in Nat /\ MaxConnections[B] \in Nat
  BY HandshakeAssumption DEF Chains
<1>2. \E x \in bounds : \A y \in bounds : x >= y
  <2>1. CASE MaxConnections[A] >= MaxConnections[B]
    BY <1>1, <2>1, SMTT(30)
  <2>2. CASE ~(MaxConnections[A] >= MaxConnections[B])
    BY <1>1, <2>2, SMTT(30)
  <2> QED BY <2>1, <2>2
<1>3. Max(bounds) \in bounds /\ \A y \in bounds : Max(bounds) >= y
  BY <1>2 DEF Max
<1>4. \A c \in Chains : MaxConnections[c] \in bounds
  OBVIOUS
<1> HIDE DEF bounds
<1>5. bounds \subseteq Nat
  BY <1>1
<1>6. ConnectionIds = 1..Max(bounds)
  BY DEF ConnectionIds, bounds
<1>7. /\ Max(bounds) \in Nat
      /\ \A c \in Chains : MaxConnections[c] \in Nat /\ MaxConnections[c] <= Max(bounds)
  BY <1>3, <1>4, <1>5
<1> QED
  BY <1>6, <1>7, SMTT(30)

ClientStates(c) == [DOMAIN Clients[c] -> [frozen : BOOLEAN, heights : SUBSET Nat]]

LEMMA StoreOf ==
  ASSUME NEW c, NEW clients \in ClientStates(c), NEW connections \in Seq(ConnectionEnds(c))
  PROVE  [clients |-> clients, connections |-> connections] \in Stores(c)
BY DEF Stores, ClientStates

\* What TypeOK says of one chain.
LEMMA ChainTypes ==
  ASSUME TypeOK, NEW c \in Chains
  PROVE  /\ store[c].connections \in Seq(ConnectionEnds(c))
         /\ store[c].clients \in ClientStates(c)
         /\ store[c] = [clients |-> store[c].clients, connections |-> store[c].connections]
         /\ Len(store[c].connections) \in Nat
         /\ Len(store[c].connections) <= MaxConnections[c]
         /\ MaxConnections[c] \in Nat /\ MaxHeight[c] \in Nat
         /\ blocks[c] \in Seq(Stores(c)) /\ Height(c) = Len(blocks[c])
         /\ Height(c) \in 1..MaxHeight[c] /\ Height(c) \in Nat
         /\ \A id \in DOMAIN Clients[c] : store[c].clients[id].heights \subseteq 1..Height(Other(c))
         /\ \A i \in DOMAIN store[c].connections :
              store[c].connections[i] \in ConnectionEnds(c) /\ i \in ConnectionIds
<1>1. MaxConnections[c] \in Nat /\ MaxHeight[c] \in Nat
  BY HandshakeAssumption
<1>2. /\ store[c] \in Stores(c) /\ blocks[c] \in Seq(Stores(c))
      /\ Len(store[c].connections) <= MaxConnections[c] /\ Height(c) \in 1..MaxHeight[c]
      /\ \A id \in DOMAIN Clients[c] : store[c].clients[id].heights \subseteq 1..Height(Other(c))
  BY DEF TypeOK
<1>3. /\ store[c].connections \in Seq(ConnectionEnds(c)) /\ store[c].clients \in ClientStates(c)
      /\ store[c] = [clients |-> store[c].clients, connections |-> store[c].connections]
  BY <1>2 DEF Stores, ClientStates
<1>4. \A i \in DOMAIN store[c].connections :
        store[c].connections[i] \in ConnectionEnds(c) /\ i \in 1..MaxConnections[c]
  BY <1>1, <1>2, <1>3, SMTT(30)
<1>5. Len(store[c].connections) \in Nat /\ Height(c) \in Nat
  BY <1>1, <1>2, <1>3, SMTT(30)
<1> QED
  BY <1>1, <1>2, <1>3, <1>4, <1>5, ConnectionIdsCover DEF Height

\* The same of its headers.
LEMMA HeaderTypes ==
  ASSUME TypeOK, NEW c \in Chains, NEW h \in 1..Height(c)
  PROVE  /\ blocks[c][h] \in Stores(c)
         /\ \A i \in DOMAIN blocks[c][h].connections :
              blocks[c][h].connections[i] \in ConnectionEnds(c)
<1>1. blocks[c] \in Seq(Stores(c)) /\ Height(c) = Len(blocks[c])
  BY ChainTypes
<1>2. blocks[c][h] \in Stores(c)
  BY <1>1, SMTT(30)
<1>3. blocks[c][h].connections \in Seq(ConnectionEnds(c))
  BY <1>2 DEF Stores
<1> QED
  BY <1>2, <1>3, SMTT(30)

\* What an accepted proof about an end shows when the client follows the other chain: an
\* end a header has past INIT is, but for its state, what the other chain has now.
LEMMA ProofShows ==
  ASSUME ConnectionInv, NEW c \in Chains, NEW id \in DOMAIN Clients[c], NEW h, NEW j, NEW expected,
         VerifyConnectionState(c, id, h, j, expected), Clients[c][id].follows = Other(c)
  PROVE  /\ expected \in ConnectionEnds(Other(c)) /\ Sound(Other(c), expected)
         /\ j \in DOMAIN store[Other(c)].connections /\ j \in ConnectionIds
         /\ expected.state # "INIT" => Continues(expected, store[Other(c)].connections[j])
<1> DEFINE d == Other(c)
<1>1. TypeOK /\ d \in Chains /\ HeadersLast(d)
  BY OtherChain DEF ConnectionInv
<1>2. /\ h \in store[c].clients[id].heights /\ j \in DOMAIN blocks[d][h].connections
      /\ blocks[d][h].connections[j] = expected
  BY DEF VerifyConnectionState, VerifyMembership
<1> HIDE DEF d
<1>3. h \in 1..Height(d)
  BY <1>1, <1>2, ChainTypes DEF d
<1>4. expected \in ConnectionEnds(d)
  BY <1>1, <1>2, <1>3, HeaderTypes
<1>5. Sound(d, expected)
  BY <1>1, <1>2, <1>3 DEF ConnectionInv
<1>6. /\ j \in DOMAIN store[d].connections
      /\ expected.state # "INIT" => Continues(expected, store[d].connections[j])
  BY <1>1, <1>2, <1>3 DEF HeadersLast
<1>7. j \in ConnectionIds
  BY <1>1, <1>6, ChainTypes
<1> QED
  BY <1>4, <1>5, <1>6, <1>7 DEF d

LEMMA ContinuesItself ==
  ASSUME NEW c, NEW end \in ConnectionEnds(c), end.state # "INIT"
  PROVE  Continues(end, end)
BY DEF Continues, ConnectionEnds

LEMMA ContinuesOn ==
  ASSUME NEW c, NEW past \in ConnectionEnds(c), NEW now, NEW next,
         Continues(past, now), Continues(now, next)
  PROVE  Continues(past, next)
BY DEF Continues, ConnectionEnds

-----------------------------------------------------------------------------
(* One lemma for each way the stores change. *)

LEMMA InitInv == Init => ConnectionInv
<1> SUFFICES ASSUME Init PROVE ConnectionInv
  OBVIOUS
<1> DEFINE fresh(c) == [id \in DOMAIN Clients[c] |-> [frozen |-> FALSE, heights |-> {1}]]
<1>1. /\ DOMAIN store = Chains /\ DOMAIN blocks = Chains
      /\ \A c \in Chains : store[c] = [clients |-> fresh(c), connections |-> <<>>]
      /\ \A c \in Chains : blocks[c] = <<store[c]>>
  BY DEF Init
<1>2. \A c \in Chains : fresh(c) \in ClientStates(c)
  BY SMTT(30) DEF ClientStates
<1>3. \A c \in Chains : \A id \in DOMAIN Clients[c] : fresh(c)[id].heights = {1}
  OBVIOUS
<1> HIDE DEF fresh
<1>4. \A c \in Chains : /\ DOMAIN store[c].connections = {} /\ Len(store[c].connections) = 0
                        /\ store[c].clients = fresh(c)
  BY <1>1, SMTT(30)
<1>5. ASSUME NEW c \in Chains PROVE Height(c) = 1 /\ blocks[c][1] = store[c]
  <2>1. blocks[c] = <<store[c]>>
    BY <1>1
  <2> QED BY <2>1, SMTT(30) DEF Height
<1>6. \A c \in Chains : \A h \in 1..Height(c) : DOMAIN blocks[c][h].connections = {}
  BY <1>4, <1>5, SMTT(30)
<1>7. ASSUME NEW c \in Chains PROVE store[c] \in Stores(c)
  <2>1. fresh(c) \in ClientStates(c) /\ <<>> \in Seq(ConnectionEnds(c))
    BY <1>2, SMTT(30)
  <2>2. store[c] = [clients |-> fresh(c), connections |-> <<>>]
    BY <1>1
  <2> QED BY <2>1, <2>2, StoreOf
<1>8. \A c \in Chains : blocks[c] \in Seq(Stores(c))
  BY <1>1, <1>7, SMTT(30)
<1>9. \A c \in Chains : Height(c) \in 1..MaxHeight[c] /\ Len(store[c].connections) <= MaxConnections[c]
  BY <1>4, <1>5, HandshakeAssumption, SMTT(30)
<1>10. \A c \in Chains : \A id \in DOMAIN Clients[c] :
         store[c].clients[id].heights \subseteq 1..Height(Other(c))
  BY <1>3, <1>4, <1>5, OtherChain, SMTT(30)
<1>11. TypeOK
  BY <1>1, <1>7, <1>8, <1>9, <1>10 DEF TypeOK
<1> QED
  BY <1>4, <1>6, <1>11 DEF ConnectionInv, OpenEndsAgree, HeadersLast

\* The new header shows the store as it is.
LEMMA NextBlockInv ==
  ASSUME ConnectionInv, NEW c \in Chains, NextBlock(c)
  PROVE  ConnectionInv'
<1>1. TypeOK /\ OpenEndsAgree /\ \A d \in Chains : HeadersLast(d)
  BY DEF ConnectionInv
<1>2. UNCHANGED store /\ Height(c) < MaxHeight[c]
  BY DEF NextBlock
<1>3. DOMAIN blocks = Chains /\ blocks' = [blocks EXCEPT ![c] = Append(blocks[c], store[c])]
  BY <1>1 DEF NextBlock, TypeOK
<1>4. \A d \in Chains : /\ blocks[d] \in Seq(Stores(d)) /\ Height(d) = Len(blocks[d])
                        /\ Height(d) \in Nat /\ MaxHeight[d] \in Nat /\ Height(d) \in 1..MaxHeight[d]
  BY <1>1, ChainTypes
<1>5. store[c] \in Stores(c)
  BY <1>1 DEF TypeOK
<1>6. /\ DOMAIN blocks' = Chains
      /\ blocks'[c] \in Seq(Stores(c))
      /\ Len(blocks'[c]) = Height(c) + 1 /\ blocks'[c][Height(c) + 1] = store[c]
      /\ \A h \in 1..Height(c) : blocks'[c][h] = blocks[c][h]
      /\ \A d \in Chains : d # c => blocks'[d] = blocks[d]
  BY <1>3, <1>4, <1>5, SMTT(30)
<1>7. \A d \in Chains : Height(d)' = (IF d = c THEN Height(c) + 1 ELSE Height(d))
  BY <1>4, <1>6 DEF Height
<1>8. TypeOK'
  <2>1. \A d \in Chains : Height(d)' \in 1..MaxHeight[d] /\ Height(d) <= Height(d)'
    BY <1>2, <1>4, <1>7, SMTT(30)
  <2>2. \A d \in Chains : \A id \in DOMAIN Clients[d] :
          store[d].clients[id].heights \subseteq 1..Height(Other(d))'
    <3> SUFFICES ASSUME NEW d \in Chains, NEW id \in DOMAIN Clients[d]
                 PROVE  store[d].clients[id].heights \subseteq 1..Height(Other(d))'
      OBVIOUS
    <3>1. store[d].clients[id].heights \subseteq 1..Height(Other(d))
      BY <1>1, ChainTypes
    <3>2. Height(Other(d)) \in Nat /\ Height(Other(d))' \in Nat /\ Height(Other(d)) <= Height(Other(d))'
      BY <1>4, <1>7, <2>1, OtherChain, SMTT(30)
    <3> QED BY <3>1, <3>2, SMTT(30)
  <2>3. \A d \in Chains : blocks'[d] \in Seq(Stores(d))
    BY <1>4, <1>6
  <2> QED BY <1>1, <1>2, <1>6, <2>1, <2>2, <2>3 DEF TypeOK
<1>9. \A d \in Chains : \A h \in 1..Height(d)' :
        \/ h \in 1..Height(d) /\ blocks'[d][h] = blocks[d][h]
        \/ d = c /\ blocks'[d][h] = store[d]
  <2> SUFFICES ASSUME NEW d \in Chains, NEW h \in 1..Height(d)'
               PROVE  \/ h \in 1..Height(d) /\ blocks'[d][h] = blocks[d][h]
                      \/ d = c /\ blocks'[d][h] = store[d]
    OBVIOUS
  <2>1. CASE d # c
    BY <1>6, <1>7, <2>1
  <2>2. CASE d = c /\ h \in 1..Height(c)
    BY <1>6, <2>2
  <2>3. CASE d = c /\ h = Height(c) + 1
    BY <1>6, <2>3
  <2> QED BY <1>4, <1>7, <2>1, <2>2, <2>3, SMTT(30)
<1>10. ASSUME NEW d \in Chains PROVE HeadersLast(d)'
  <2> SUFFICES ASSUME NEW h \in 1..Height(d)', NEW i \in DOMAIN blocks'[d][h].connections
               PROVE  /\ i \in DOMAIN store[d].connections
                      /\ blocks'[d][h].connections[i].state # "INIT" =>
                           Continues(blocks'[d][h].connections[i], store[d].connections[i])
    BY <1>2 DEF HeadersLast
  <2>1. CASE h \in 1..Height(d) /\ blocks'[d][h] = blocks[d][h]
    BY <1>1, <2>1 DEF HeadersLast
  <2>2. CASE blocks'[d][h] = store[d]
    <3>1. i \in DOMAIN store[d].connections /\ store[d].connections[i] \in ConnectionEnds(d)
      BY <1>1, <2>2, ChainTypes
    <3> QED BY <2>2, <3>1, ContinuesItself
  <2> QED BY <1>9, <2>1, <2>2
<1>11. OpenEndsAgree'
  BY <1>1, <1>2 DEF OpenEndsAgree, PeerAgrees
<1>12. \A d \in Chains : \A h \in 1..Height(d)' : \A i \in DOMAIN blocks'[d][h].connections :
         Sound(d, blocks'[d][h].connections[i])
  BY <1>9 DEF ConnectionInv
<1>13. \A d \in Chains : \A i \in DOMAIN store'[d].connections : Sound(d, store'[d].connections[i])
  BY <1>2 DEF ConnectionInv
<1> QED
  BY <1>8, <1>10, <1>11, <1>12, <1>13 DEF ConnectionInv, Sound, FollowsBack, OneVersionOfBoth,
     OffersSupported, Grounded

\* Steps of clients leave the connections alone.
LEMMA ConnectionsKeptInv ==
  ASSUME ConnectionInv, UNCHANGED blocks, TypeOK',
         \A d \in Chains : store'[d].connections = store[d].connections
  PROVE  ConnectionInv'
<1>1. OpenEndsAgree'
  <2>1. \A c \in Chains : \A i \in DOMAIN store[c].connections : PeerAgrees(c, i)' <=> PeerAgrees(c, i)
    BY OtherChain DEF PeerAgrees
  <2> QED BY <2>1 DEF ConnectionInv, OpenEndsAgree, Grounded
<1>2. \A c \in Chains : HeadersLast(c)'
  BY DEF ConnectionInv, HeadersLast, Height
<1>3. \A d \in Chains :
        /\ \A i \in DOMAIN store'[d].connections : Sound(d, store'[d].connections[i])
        /\ \A h \in 1..Height(d)' : \A i \in DOMAIN blocks'[d][h].connections :
             Sound(d, blocks'[d][h].connections[i])
  BY DEF ConnectionInv, Height
<1> QED
  BY <1>1, <1>2, <1>3 DEF ConnectionInv, Sound, FollowsBack, OneVersionOfBoth, OffersSupported,
     Grounded

LEMMA ClientStepInv ==
  ASSUME ConnectionInv, NEW c \in Chains, ClientStep(c)
  PROVE  ConnectionInv'
<1>1. TypeOK /\ DOMAIN store = Chains
  BY DEF ConnectionInv, TypeOK
<1>2. PICK id \in DOMAIN Clients[c] :
        FreezeClient(c, id) \/ \E h \in Unseen(c, id) : UpdateClient(c, id, h)
  BY DEF ClientStep
<1>3. /\ store[c].clients \in ClientStates(c)
      /\ store[c].connections \in Seq(ConnectionEnds(c))
      /\ store[c] = [clients |-> store[c].clients, connections |-> store[c].connections]
      /\ store[c].clients[id].heights \subseteq 1..Height(Other(c)) /\ Height(Other(c)) \in Nat
  BY <1>1, ChainTypes, OtherChain
<1>4. PICK client \in [frozen : BOOLEAN, heights : SUBSET Nat] :
        /\ client.heights \subseteq 1..Height(Other(c))
        /\ store' = [store EXCEPT ![c] = [store[c] EXCEPT !.clients =
                       [store[c].clients EXCEPT ![id] = client]]]
  <2>1. CASE FreezeClient(c, id)
    <3> DEFINE client == [store[c].clients[id] EXCEPT !.frozen = TRUE]
    <3>1. client \in [frozen : BOOLEAN, heights : SUBSET Nat]
          /\ client.heights = store[c].clients[id].heights
      BY <1>3 DEF ClientStates
    <3>2. store' = [store EXCEPT ![c] = [store[c] EXCEPT !.clients =
                      [store[c].clients EXCEPT ![id] = client]]]
      BY <2>1 DEF FreezeClient
    <3> QED BY <1>3, <3>1, <3>2
  <2>2. ASSUME NEW h \in Unseen(c, id), UpdateClient(c, id, h)
        PROVE  \E client \in [frozen : BOOLEAN, heights : SUBSET Nat] :
                 /\ client.heights \subseteq 1..Height(Other(c))
                 /\ store' = [store EXCEPT ![c] = [store[c] EXCEPT !.clients =
                                [store[c].clients EXCEPT ![id] = client]]]
    <3> DEFINE client == [store[c].clients[id] EXCEPT !.heights = store[c].clients[id].heights \cup {h}]
    <3>1. h \in Nat \ {0, 1} /\ h <= Height(Other(c))
      BY OtherChain, HandshakeAssumption DEF Unseen
    <3>2. client \in [frozen : BOOLEAN, heights : SUBSET Nat]
          /\ client.heights = store[c].clients[id].heights \cup {h}
      BY <1>3, <3>1 DEF ClientStates
    <3>3. store' = [store EXCEPT ![c] = [store[c] EXCEPT !.clients =
                      [store[c].clients EXCEPT ![id] = client]]]
      BY <2>2 DEF UpdateClient
    <3>4. client.heights \subseteq 1..Height(Other(c))
      BY <1>3, <3>1, <3>2, SMTT(30)
    <3> QED BY <3>2, <3>3, <3>4
  <2> QED BY <1>2, <2>1, <2>2
<1> DEFINE clients == [store[c].clients EXCEPT ![id] = client]
<1>5. /\ clients \in ClientStates(c)
      /\ \A i \in DOMAIN Clients[c] : clients[i] = (IF i = id THEN client ELSE store[c].clients[i])
  BY <1>3 DEF ClientStates
<1> HIDE DEF clients
<1>6. /\ DOMAIN store' = Chains
      /\ store'[c] = [clients |-> clients, connections |-> store[c].connections]
      /\ \A d \in Chains : d # c => store'[d] = store[d]
  BY <1>1, <1>3, <1>4 DEF clients
<1>7. store'[c] \in Stores(c)
  BY <1>3, <1>5, <1>6, SMTT(30) DEF Stores, ClientStates
<1>8. UNCHANGED blocks
  BY <1>2 DEF FreezeClient, UpdateClient
<1>9. \A d \in Chains : store'[d].connections = store[d].connections
  BY <1>6, SMTT(30)
<1>10. \A d \in Chains : \A i \in DOMAIN Clients[d] :
         store'[d].clients[i].heights \subseteq 1..Height(Other(d))
  <2>1. \A i \in DOMAIN Clients[c] : clients[i].heights \subseteq 1..Height(Other(c))
    BY <1>1, <1>4, <1>5, ChainTypes
  <2> QED BY <1>1, <1>6, <2>1, ChainTypes, SMTT(30)
<1>11. TypeOK'
  BY <1>1, <1>6, <1>7, <1>8, <1>9, <1>10 DEF TypeOK, Height
<1> QED
  BY <1>8, <1>9, <1>11, ConnectionsKeptInv

\* A new end changes nothing of those that are there.
LEMMA AddInv ==
  ASSUME ConnectionInv, NEW c \in Chains, NEW new \in ConnectionEnds(c), AddConnection(c, new),
         Len(store[c].connections) < MaxConnections[c], Sound(c, new), new.state # "OPEN"
  PROVE  ConnectionInv' /\ OpenEnds' = OpenEnds
         /\ \A e \in OpenEnds : store'[e[1]].connections[e[2]] = store[e[1]].connections[e[2]]
<1> DEFINE n == Len(store[c].connections) + 1
           old(d) == store[d].connections
           now(d) == store'[d].connections
<1>1. /\ TypeOK /\ OpenEndsAgree /\ DOMAIN store = Chains
      /\ \A d \in Chains : HeadersLast(d)
      /\ \A d \in Chains : \A i \in DOMAIN old(d) : Sound(d, old(d)[i])
      /\ \A d \in Chains : \A h \in 1..Height(d) : \A i \in DOMAIN blocks[d][h].connections :
           Sound(d, blocks[d][h].connections[i])
  BY DEF ConnectionInv, TypeOK
<1>2. UNCHANGED blocks
  BY DEF AddConnection
<1>3. store' = [store EXCEPT ![c] = [store[c] EXCEPT !.connections = Append(old(c), new)]]
  BY DEF AddConnection
<1>4. /\ old(c) \in Seq(ConnectionEnds(c)) /\ store[c].clients \in ClientStates(c)
      /\ store[c] = [clients |-> store[c].clients, connections |-> old(c)]
      /\ Len(old(c)) \in Nat /\ MaxConnections[c] \in Nat
  BY <1>1, ChainTypes
<1>5. /\ DOMAIN store' = Chains
      /\ store'[c] = [clients |-> store[c].clients, connections |-> Append(old(c), new)]
      /\ \A d \in Chains : d # c => store'[d] = store[d]
  BY <1>1, <1>3, <1>4
<1>6. now(c) = Append(old(c), new) /\ \A d \in Chains : store'[d].clients = store[d].clients
  BY <1>5, SMTT(30)
<1>7. /\ now(c) \in Seq(ConnectionEnds(c)) /\ Len(now(c)) = n
      /\ DOMAIN now(c) = DOMAIN old(c) \cup {n} /\ now(c)[n] = new /\ n \notin DOMAIN old(c)
      /\ \A i \in DOMAIN old(c) : now(c)[i] = old(c)[i]
  BY <1>4, <1>6, SMTT(30)
<1>8. n <= MaxConnections[c]
  BY <1>4, SMTT(30)
<1> HIDE DEF n
<1>9. \A d \in Chains : \A i \in DOMAIN old(d) : i \in DOMAIN now(d) /\ now(d)[i] = old(d)[i]
  BY <1>5, <1>7
<1>10. \A d \in Chains : \A i \in DOMAIN now(d) :
         \/ i \in DOMAIN old(d) /\ now(d)[i] = old(d)[i]
         \/ d = c /\ i = n /\ now(d)[i] = new
  BY <1>5, <1>7
<1>11. TypeOK'
  <2>1. store'[c] \in Stores(c)
    BY <1>4, <1>5, <1>6, <1>7 DEF Stores, ClientStates
  <2>2. Len(now(c)) <= MaxConnections[c]
    BY <1>7, <1>8
  <2> QED BY <1>1, <1>2, <1>5, <1>6, <2>1, <2>2 DEF TypeOK, Height
<1>12. ASSUME NEW d \in Chains, NEW i \in DOMAIN old(d), PeerAgrees(d, i)
       PROVE  PeerAgrees(d, i)'
  <2> DEFINE j == old(d)[i].counterparty.connectionId
             peer == old(Other(d))[j]
  <2>1. /\ j \in DOMAIN old(Other(d)) /\ peer.state # "INIT"
        /\ peer = ConnectionEnd(peer.state, old(d)[i].counterparty.clientId,
                                Counterparty(old(d)[i].clientId, i), old(d)[i].versions,
                                old(d)[i].delayPeriod)
    BY <1>12 DEF PeerAgrees
  <2>2. j \in DOMAIN now(Other(d)) /\ now(Other(d))[j] = peer /\ now(d)[i] = old(d)[i]
    BY <1>9, <2>1, OtherChain
  <2> HIDE DEF peer
  <2> QED BY <2>1, <2>2 DEF PeerAgrees
<1>13. OpenEndsAgree'
  BY <1>1, <1>10, <1>12 DEF OpenEndsAgree, Grounded
<1>14. \A d \in Chains : HeadersLast(d)'
  BY <1>1, <1>2, <1>9, SMTT(30) DEF HeadersLast, Height
<1>15. \A d \in Chains : \A i \in DOMAIN now(d) : Sound(d, now(d)[i])
  BY <1>1, <1>10
<1>16. ConnectionInv'
  <2>1. \A d \in Chains : \A h \in 1..Height(d)' : \A i \in DOMAIN blocks'[d][h].connections :
          Sound(d, blocks'[d][h].connections[i])
    BY <1>1, <1>2 DEF Height
  <2> QED BY <1>11, <1>13, <1>14, <1>15, <2>1 DEF ConnectionInv, Sound, FollowsBack,
             OneVersionOfBoth, OffersSupported, Grounded
<1>17. OpenEnds' = OpenEnds
  <2> SUFFICES ASSUME NEW e \in Chains \X ConnectionIds
               PROVE  e \in OpenEnds' <=> e \in OpenEnds
    BY DEF OpenEnds
  <2>1. e[1] \in Chains
    OBVIOUS
  <2>2. e \in OpenEnds => e \in OpenEnds'
    BY <1>9, <2>1 DEF OpenEnds, Grounded
  <2>3. e \in OpenEnds' => e \in OpenEnds
    BY <1>10, <2>1 DEF OpenEnds, Grounded
  <2> QED BY <2>2, <2>3
<1> QED
  BY <1>9, <1>16, <1>17 DEF OpenEnds

LEMMA InitStepInv ==
  ASSUME ConnectionInv, NEW c \in Chains, Len(store[c].connections) < MaxConnections[c],
         NEW clientId \in DOMAIN Clients[c], NEW peer \in DOMAIN Clients[Other(c)],
         NEW delayPeriod \in DelayPeriods, NEW version \in ProposedVersions,
         ConnOpenInit(c, clientId, peer, version, delayPeriod)
  PROVE  ConnectionInv' /\ OpenEnds' = OpenEnds
         /\ \A e \in OpenEnds : store'[e[1]].connections[e[2]] = store[e[1]].connections[e[2]]
<1> DEFINE new == ConnectionEnd("INIT", clientId, Counterparty(peer, 0),
                                OfferedVersions(c, version), delayPeriod)
<1>1. OfferedVersions(c, version) \in VersionLists
  BY SMTT(30) DEF VersionLists
<1>2. new \in ConnectionEnds(c) /\ new.state = "INIT" /\ new.versions = OfferedVersions(c, version)
  BY <1>1 DEF ConnectionEnd, Counterparty, ConnectionEnds, States
<1>3. /\ version # NoVersion => IsSupportedVersion(CompatibleVersions[c], version)
      /\ AddConnection(c, new)
  BY DEF ConnOpenInit
<1> HIDE DEF new
<1>4. Sound(c, new)
  BY <1>2, <1>3 DEF Sound, FollowsBack, OneVersionOfBoth, OffersSupported
<1> QED
  BY <1>2, <1>3, <1>4, AddInv

LEMMA TryStepInv ==
  ASSUME ConnectionInv, NEW c \in Chains, Len(store[c].connections) < MaxConnections[c],
         NEW clientId \in DOMAIN Clients[c], NEW peer \in DOMAIN Clients[Other(c)],
         NEW delayPeriod \in DelayPeriods, NEW j \in ConnectionIds,
         NEW theirs \in VersionLists, NEW h, NEW consensusHeight,
         ConnOpenTry(c, clientId, Counterparty(peer, j), delayPeriod, theirs, h, consensusHeight)
  PROVE  ConnectionInv' /\ OpenEnds' = OpenEnds
         /\ \A e \in OpenEnds : store'[e[1]].connections[e[2]] = store[e[1]].connections[e[2]]
<1> DEFINE ours == CompatibleVersions[c]
           version == PickVersion(ours, theirs)
           expected == ConnectionEnd("INIT", peer, Counterparty(clientId, 0), theirs, delayPeriod)
           new == ConnectionEnd("TRYOPEN", clientId, Counterparty(peer, j), <<version>>, delayPeriod)
<1>1. /\ VerifyConnectionState(c, clientId, h, j, expected)
      /\ VerifyClientConsensusState(c, clientId, h, peer, consensusHeight)
      /\ version # NoVersion /\ AddConnection(c, new)
  BY DEF ConnOpenTry, VerifyCounterparty, Counterparty, ConnectionEnd
<1>2. VersionList(ours) /\ VersionList(theirs)
  BY CompatibleList, OfferedList, SMTT(30) DEF VersionLists
<1> HIDE DEF version
<1>3. /\ version.features # {}
      /\ IsSupportedVersion(ours, version) /\ IsSupportedVersion(theirs, version)
      /\ \E m \in DOMAIN ours, n \in DOMAIN theirs :
           version = Version(ours[m].identifier,
                             GetFeatureSetIntersection(ours[m].features, theirs[n].features))
  BY <1>1, <1>2, PickedByBoth, SMTT(30) DEF version
<1>4. version \in NegotiatedVersions
  <2>1. ours = OfferedVersions(c, NoVersion)
    BY DEF OfferedVersions
  <2>2. ours \in VersionLists
    BY <2>1, SMTT(30) DEF VersionLists
  <2>3. \A list \in VersionLists : \A m \in DOMAIN list : list[m] \in Versions
    BY SMTT(30) DEF Versions
  <2> QED BY <1>3, <2>2, <2>3, SMTT(30) DEF NegotiatedVersions
<1>5. /\ new \in ConnectionEnds(c) /\ new.state = "TRYOPEN" /\ new.versions = <<version>>
      /\ new.counterparty.clientId = peer /\ new.clientId = clientId
  BY <1>4 DEF ConnectionEnd, Counterparty, ConnectionEnds, States
<1>6. expected.state = "INIT" /\ expected.versions = theirs
  BY DEF ConnectionEnd
<1> HIDE DEF new, expected
<1>7. ASSUME Clients[c][clientId].follows = Other(c)
      PROVE  /\ Clients[Other(c)][peer].follows = c
             /\ IsSupportedVersion(CompatibleVersions[Other(c)], version)
  <2>1. Clients[Other(c)][peer].follows = c
    BY <1>1, <1>7 DEF VerifyClientConsensusState, VerifyMembership
  <2>2. OffersSupported(Other(c), expected)
    BY <1>1, <1>7, ProofShows DEF Sound
  <2>3. PICK offered \in ProposedVersions \cup {NoVersion} :
          /\ theirs = OfferedVersions(Other(c), offered)
          /\ offered # NoVersion => IsSupportedVersion(CompatibleVersions[Other(c)], offered)
    BY <1>6, <2>2 DEF OffersSupported
  <2>4. IsSupportedVersion(CompatibleVersions[Other(c)], version)
    BY <1>3, <2>3, OfferSupported, OtherChain
  <2> QED BY <2>1, <2>4
<1>8. Sound(c, new)
  <2>1. new.versions[1] = version
    BY <1>5, SMTT(30)
  <2>2. FollowsBack(c, new)
    BY <1>5, <1>7 DEF FollowsBack, Grounded
  <2>3. OneVersionOfBoth(c, new)
    BY <1>3, <1>4, <1>5, <1>7, <2>1 DEF OneVersionOfBoth, Grounded
  <2>4. OffersSupported(c, new)
    BY <1>5 DEF OffersSupported
  <2> QED BY <2>2, <2>3, <2>4 DEF Sound
<1> QED
  BY <1>1, <1>5, <1>8, AddInv

\* What ConnOpenAck and ConnOpenConfirm have in common: an end that was not open opens,
\* and if its client follows the other chain, towards an end that is past INIT and agrees.
Opens(c, i, new) ==
  LET old == store[c].connections[i]
      peers == store[Other(c)].connections
      j == new.counterparty.connectionId
  IN
  /\ i \in DOMAIN store[c].connections /\ new \in ConnectionEnds(c)
  /\ old.state # "OPEN" /\ new.state = "OPEN"
  /\ old.state # "INIT" => new = [old EXCEPT !.state = new.state]
  /\ SetConnection(c, i, new)
  /\ Sound(c, new)
  /\ Grounded(c, new) =>
       /\ j \in DOMAIN peers /\ j \in ConnectionIds /\ peers[j].state # "INIT"
       /\ peers[j] = ConnectionEnd(peers[j].state, new.counterparty.clientId,
                                   Counterparty(new.clientId, i), new.versions, new.delayPeriod)

LEMMA AckOpens ==
  ASSUME ConnectionInv, NEW c \in Chains, NEW i \in DOMAIN store[c].connections,
         NEW version \in NegotiatedVersions, NEW j \in ConnectionIds, NEW h, NEW consensusHeight,
         ConnOpenAck(c, i, version, j, h, consensusHeight)
  PROVE  \E new \in ConnectionEnds(c) : Opens(c, i, new)
<1> DEFINE old == store[c].connections[i]
           new == [old EXCEPT !.state = "OPEN", !.versions = <<version>>,
                              !.counterparty.connectionId = j]
           expected == ConnectionEnd("TRYOPEN", old.counterparty.clientId,
                                     Counterparty(old.clientId, i), <<version>>, old.delayPeriod)
           peer == store[Other(c)].connections[j]
<1>1. /\ old.state = "INIT" /\ SetConnection(c, i, new)
      /\ VerifyConnectionState(c, old.clientId, h, j, expected)
      /\ VerifyClientConsensusState(c, old.clientId, h, old.counterparty.clientId, consensusHeight)
      /\ IsSupportedVersion(old.versions, version)
  BY DEF ConnOpenAck, VerifyCounterparty, ConnectionEnd
<1>2. old \in ConnectionEnds(c) /\ Sound(c, old)
  BY ChainTypes DEF ConnectionInv
<1>3. /\ expected.state = "TRYOPEN" /\ expected.versions = <<version>>
      /\ expected.clientId = old.counterparty.clientId
  BY DEF ConnectionEnd
<1>4. ASSUME Clients[c][old.clientId].follows = Other(c)
      PROVE  /\ j \in DOMAIN store[Other(c)].connections /\ peer.state # "INIT"
             /\ peer = [expected EXCEPT !.state = peer.state]
             /\ IsSupportedVersion(CompatibleVersions[Other(c)], version)
             /\ Clients[Other(c)][old.counterparty.clientId].follows = c
  <2>1. old.clientId \in DOMAIN Clients[c]
    BY <1>2 DEF ConnectionEnds
  <2> HIDE DEF expected
  <2>2. /\ j \in DOMAIN store[Other(c)].connections
        /\ Continues(expected, peer) /\ Sound(Other(c), expected)
    BY <1>1, <1>3, <1>4, <2>1, ProofShows
  <2>3. expected.versions[1] = version
    BY <1>3, SMTT(30)
  <2>4. IsSupportedVersion(CompatibleVersions[Other(c)], version)
    BY <1>3, <2>2, <2>3 DEF Sound, OneVersionOfBoth
  <2>5. Clients[Other(c)][old.counterparty.clientId].follows = c
    BY <1>1, <1>4 DEF VerifyClientConsensusState, VerifyMembership
  <2> QED BY <2>2, <2>4, <2>5 DEF Continues
<1> HIDE DEF old, peer
<1>5. /\ new \in ConnectionEnds(c) /\ new.state = "OPEN" /\ new.counterparty.connectionId = j
      /\ new.counterparty.clientId = old.counterparty.clientId /\ new.clientId = old.clientId
      /\ new.versions = <<version>> /\ new.delayPeriod = old.delayPeriod
  BY <1>2 DEF ConnectionEnds, States
<1> HIDE DEF new
<1>6. ASSUME Grounded(c, new)
      PROVE  peer = ConnectionEnd(peer.state, new.counterparty.clientId,
                                  Counterparty(new.clientId, i), new.versions, new.delayPeriod)
  BY <1>4, <1>5, <1>6 DEF ConnectionEnd, Grounded
<1>7. IsSupportedVersion(CompatibleVersions[c], version) /\ version.features # {}
  <2>1. PICK offered \in ProposedVersions \cup {NoVersion} :
          /\ old.versions = OfferedVersions(c, offered)
          /\ offered # NoVersion => IsSupportedVersion(CompatibleVersions[c], offered)
    BY <1>1, <1>2 DEF Sound, OffersSupported
  <2>2. IsSupportedVersion(CompatibleVersions[c], version)
    BY <1>1, <2>1, OfferSupported
  <2> QED BY <2>2, CompatibleList, SupportedMeans
<1>8. Sound(c, new)
  <2>1. new.versions[1] = version
    BY <1>5, SMTT(30)
  <2>2. FollowsBack(c, new)
    BY <1>4, <1>5 DEF FollowsBack, Grounded
  <2>3. OneVersionOfBoth(c, new)
    BY <1>4, <1>5, <1>7, <2>1 DEF OneVersionOfBoth, Grounded
  <2>4. OffersSupported(c, new)
    BY <1>5 DEF OffersSupported
  <2> QED BY <2>2, <2>3, <2>4 DEF Sound
<1>9. SetConnection(c, i, new)
  BY <1>1 DEF new
<1>10. Opens(c, i, new)
  BY <1>1, <1>4, <1>5, <1>6, <1>8, <1>9 DEF Opens, Grounded, old, peer
<1> QED
  BY <1>5, <1>10

LEMMA ConfirmOpens ==
  ASSUME ConnectionInv, NEW c \in Chains, NEW i \in DOMAIN store[c].connections, NEW h,
         ConnOpenConfirm(c, i, h)
  PROVE  \E new \in ConnectionEnds(c) : Opens(c, i, new)
<1> DEFINE old == store[c].connections[i]
           new == [old EXCEPT !.state = "OPEN"]
           j == old.counterparty.connectionId
           expected == ConnectionEnd("OPEN", old.counterparty.clientId,
                                     Counterparty(old.clientId, i), old.versions, old.delayPeriod)
           peer == store[Other(c)].connections[j]
<1>1. /\ old.state = "TRYOPEN" /\ SetConnection(c, i, new)
      /\ VerifyConnectionState(c, old.clientId, h, j, expected)
  BY DEF ConnOpenConfirm
<1>2. old \in ConnectionEnds(c) /\ Sound(c, old)
  BY ChainTypes DEF ConnectionInv
<1>3. expected.state = "OPEN"
  BY DEF ConnectionEnd
<1>4. ASSUME Clients[c][old.clientId].follows = Other(c)
      PROVE  /\ j \in DOMAIN store[Other(c)].connections /\ peer.state # "INIT"
             /\ peer = [expected EXCEPT !.state = peer.state] /\ j \in ConnectionIds
  <2>1. old.clientId \in DOMAIN Clients[c]
    BY <1>2 DEF ConnectionEnds
  <2> HIDE DEF expected
  <2>2. j \in DOMAIN store[Other(c)].connections /\ j \in ConnectionIds /\ Continues(expected, peer)
    BY <1>1, <1>3, <1>4, <2>1, ProofShows
  <2> QED BY <2>2 DEF Continues
<1> HIDE DEF old, peer
<1>5. /\ new \in ConnectionEnds(c) /\ new.state = "OPEN" /\ new.counterparty = old.counterparty
      /\ new.clientId = old.clientId /\ new.versions = old.versions
      /\ new.delayPeriod = old.delayPeriod /\ new = [old EXCEPT !.state = new.state]
  BY <1>2 DEF ConnectionEnds, States
<1> HIDE DEF new
<1>6. ASSUME Grounded(c, new)
      PROVE  peer = ConnectionEnd(peer.state, new.counterparty.clientId,
                                  Counterparty(new.clientId, i), new.versions, new.delayPeriod)
  BY <1>4, <1>5, <1>6 DEF ConnectionEnd, Grounded
<1>7. Sound(c, new)
  BY <1>1, <1>2, <1>5 DEF Sound, FollowsBack, OneVersionOfBoth, OffersSupported, Grounded
<1>8. SetConnection(c, i, new)
  BY <1>1 DEF new
<1>9. Opens(c, i, new)
  BY <1>1, <1>4, <1>5, <1>6, <1>7, <1>8 DEF Opens, Grounded, old, peer
<1> QED
  BY <1>5, <1>9

\* An end that opens undoes nothing that headers show or that other ends rely on.
LEMMA OpensInv ==
  ASSUME ConnectionInv, NEW c \in Chains, NEW i, NEW new, Opens(c, i, new)
  PROVE  /\ ConnectionInv' /\ i \in ConnectionIds /\ <<c, i>> \notin OpenEnds
         /\ store'[c].connections[i] = new
         /\ OpenEnds' = IF Grounded(c, new) THEN OpenEnds \cup {<<c, i>>} ELSE OpenEnds
         /\ \A e \in OpenEnds : store'[e[1]].connections[e[2]] = store[e[1]].connections[e[2]]
<1> DEFINE old(d) == store[d].connections
           now(d) == store'[d].connections
<1>1. /\ TypeOK /\ OpenEndsAgree /\ DOMAIN store = Chains
      /\ \A d \in Chains : HeadersLast(d)
      /\ \A d \in Chains : \A k \in DOMAIN old(d) : Sound(d, old(d)[k])
      /\ \A d \in Chains : \A h \in 1..Height(d) : \A k \in DOMAIN blocks[d][h].connections :
           Sound(d, blocks[d][h].connections[k])
  BY DEF ConnectionInv, TypeOK
<1>2. /\ i \in DOMAIN old(c) /\ new \in ConnectionEnds(c) /\ Sound(c, new)
      /\ old(c)[i].state # "OPEN" /\ new.state = "OPEN"
      /\ old(c)[i].state # "INIT" => new = [old(c)[i] EXCEPT !.state = new.state]
  BY DEF Opens
<1>3. /\ UNCHANGED blocks
      /\ store' = [store EXCEPT ![c] = [store[c] EXCEPT !.connections =
                     [old(c) EXCEPT ![i] = new]]]
  BY DEF Opens, SetConnection
<1>4. /\ old(c) \in Seq(ConnectionEnds(c)) /\ store[c].clients \in ClientStates(c)
      /\ store[c] = [clients |-> store[c].clients, connections |-> old(c)]
  BY <1>1, ChainTypes
<1>5. /\ DOMAIN store' = Chains
      /\ store'[c] = [clients |-> store[c].clients, connections |-> [old(c) EXCEPT ![i] = new]]
      /\ \A d \in Chains : d # c => store'[d] = store[d]
  BY <1>1, <1>3, <1>4
<1>6. now(c) = [old(c) EXCEPT ![i] = new] /\ \A d \in Chains : store'[d].clients = store[d].clients
  BY <1>5, SMTT(30)
<1>7. /\ now(c) \in Seq(ConnectionEnds(c)) /\ Len(now(c)) = Len(old(c))
      /\ DOMAIN now(c) = DOMAIN old(c) /\ now(c)[i] = new
      /\ \A k \in DOMAIN old(c) : k # i => now(c)[k] = old(c)[k]
  BY <1>2, <1>4, <1>6, SMTT(30)
<1>8. \A d \in Chains : DOMAIN now(d) = DOMAIN old(d)
  BY <1>5, <1>7
<1>9. \A d \in Chains : \A k \in DOMAIN old(d) :
        \/ now(d)[k] = old(d)[k] /\ <<d, k>> # <<c, i>>
        \/ d = c /\ k = i /\ now(d)[k] = new
  BY <1>5, <1>7
<1>10. TypeOK'
  <2>1. store'[c] \in Stores(c)
    BY <1>4, <1>5, <1>6, <1>7, StoreOf, SMTT(30)
  <2>2. \A d \in Chains : Len(now(d)) <= MaxConnections[d]
    BY <1>1, <1>5, <1>7, ChainTypes
  <2> QED BY <1>1, <1>3, <1>5, <1>6, <2>1, <2>2 DEF TypeOK, Height
<1>11. ASSUME NEW d \in Chains, NEW k \in DOMAIN old(d), old(d)[k].state # "INIT"
       PROVE  Continues(old(d)[k], now(d)[k])
  <2>1. old(d)[k] \in ConnectionEnds(d)
    BY <1>1, ChainTypes
  <2>2. CASE now(d)[k] = old(d)[k]
    BY <1>11, <2>1, <2>2, ContinuesItself
  <2>3. CASE d = c /\ k = i /\ now(d)[k] = new
    BY <1>2, <1>11, <2>3 DEF Continues
  <2> QED BY <1>9, <2>2, <2>3
<1>12. ASSUME NEW d \in Chains PROVE HeadersLast(d)'
  <2> SUFFICES ASSUME NEW h \in 1..Height(d), NEW k \in DOMAIN blocks[d][h].connections
               PROVE  /\ k \in DOMAIN now(d)
                      /\ blocks[d][h].connections[k].state # "INIT" =>
                           Continues(blocks[d][h].connections[k], now(d)[k])
    BY <1>3 DEF HeadersLast, Height
  <2> DEFINE past == blocks[d][h].connections[k]
  <2>1. /\ k \in DOMAIN old(d)
        /\ past.state # "INIT" => Continues(past, old(d)[k])
    BY <1>1 DEF HeadersLast
  <2>2. past \in ConnectionEnds(d)
    BY <1>1, HeaderTypes
  <2>3. ASSUME Continues(past, old(d)[k]) PROVE Continues(past, now(d)[k])
    <3>1. old(d)[k].state # "INIT"
      BY <2>3 DEF Continues
    <3>2. Continues(old(d)[k], now(d)[k])
      BY <1>11, <2>1, <3>1
    <3> HIDE DEF past, old, now
    <3> QED BY <2>2, <2>3, <3>2, ContinuesOn
  <2> QED BY <1>8, <2>1, <2>3
<1>13. ASSUME NEW d \in Chains, NEW k \in DOMAIN old(d), PeerAgrees(d, k), now(d)[k] = old(d)[k]
       PROVE  PeerAgrees(d, k)'
  <2> DEFINE end == old(d)[k]
             j == end.counterparty.connectionId
             peer == old(Other(d))[j]
             peer2 == now(Other(d))[j]
  <2>1. /\ j \in DOMAIN old(Other(d)) /\ peer.state # "INIT"
        /\ peer = ConnectionEnd(peer.state, end.counterparty.clientId,
                                Counterparty(end.clientId, k), end.versions, end.delayPeriod)
    BY <1>13 DEF PeerAgrees
  <2>2. j \in DOMAIN now(Other(d)) /\ Continues(peer, peer2)
    BY <1>8, <1>11, <2>1, OtherChain
  <2> HIDE DEF end, peer, peer2
  <2>3. peer2.state # "INIT" /\ peer2 = [peer EXCEPT !.state = peer2.state]
    BY <2>2 DEF Continues
  <2>4. peer2 = ConnectionEnd(peer2.state, end.counterparty.clientId,
                              Counterparty(end.clientId, k), end.versions, end.delayPeriod)
    BY <2>1, <2>3, SMTT(30) DEF ConnectionEnd
  <2> QED BY <1>13, <2>2, <2>3, <2>4 DEF PeerAgrees, end, peer2
<1>14. Grounded(c, new) => PeerAgrees(c, i)'
  <2>1. now(Other(c)) = old(Other(c))
    BY <1>5, OtherChain
  <2> QED BY <1>7, <2>1 DEF Opens, PeerAgrees
<1>15. OpenEndsAgree'
  <2> SUFFICES ASSUME NEW d \in Chains, NEW k \in DOMAIN now(d), Grounded(d, now(d)[k]),
                      now(d)[k].state = "OPEN"
               PROVE  PeerAgrees(d, k)'
    BY DEF OpenEndsAgree, Grounded
  <2>1. CASE now(d)[k] = old(d)[k]
    BY <1>1, <1>8, <1>13, <2>1 DEF OpenEndsAgree
  <2>2. CASE d = c /\ k = i /\ now(d)[k] = new
    BY <1>14, <2>2
  <2> QED BY <1>8, <1>9, <2>1, <2>2
<1>16. \A d \in Chains : \A k \in DOMAIN now(d) : Sound(d, now(d)[k])
  BY <1>1, <1>2, <1>8, <1>9, SMTT(30)
<1>17. ConnectionInv'
  <2>1. \A d \in Chains : \A h \in 1..Height(d)' : \A k \in DOMAIN blocks'[d][h].connections :
          Sound(d, blocks'[d][h].connections[k])
    BY <1>1, <1>3 DEF Height
  <2> QED BY <1>10, <1>12, <1>15, <1>16, <2>1 DEF ConnectionInv, Sound, FollowsBack,
             OneVersionOfBoth, OffersSupported, Grounded
<1>18. i \in ConnectionIds /\ <<c, i>> \notin OpenEnds
  BY <1>1, <1>2, ChainTypes DEF OpenEnds
<1>19. ASSUME NEW e \in OpenEnds
       PROVE  /\ e[1] \in Chains /\ e[2] \in DOMAIN old(e[1])
              /\ now(e[1])[e[2]] = old(e[1])[e[2]]
  <2>1. e[1] \in Chains /\ e[2] \in DOMAIN old(e[1]) /\ old(e[1])[e[2]].state = "OPEN"
    BY DEF OpenEnds
  <2> QED BY <1>2, <1>9, <2>1
<1>20. ASSUME NEW e \in Chains \X ConnectionIds
       PROVE  e \in OpenEnds' <=> e \in OpenEnds \/ (e = <<c, i>> /\ Grounded(c, new))
  <2>1. e[1] \in Chains /\ e = <<e[1], e[2]>>
    BY SMTT(30)
  <2>2. e \in OpenEnds => e \in OpenEnds'
    BY <1>8, <1>19 DEF OpenEnds, Grounded
  <2>3. e = <<c, i>> /\ Grounded(c, new) => e \in OpenEnds'
    BY <1>2, <1>7, SMTT(30) DEF OpenEnds, Grounded
  <2>4. ASSUME e \in OpenEnds' PROVE e \in OpenEnds \/ (e = <<c, i>> /\ Grounded(c, new))
    <3>1. /\ e[2] \in DOMAIN now(e[1]) /\ now(e[1])[e[2]].state = "OPEN"
          /\ Grounded(e[1], now(e[1])[e[2]])
      BY <2>4 DEF OpenEnds, Grounded
    <3>2. CASE now(e[1])[e[2]] = old(e[1])[e[2]]
      BY <1>8, <2>1, <3>1, <3>2 DEF OpenEnds
    <3>3. CASE e[1] = c /\ e[2] = i /\ now(e[1])[e[2]] = new
      BY <2>1, <3>1, <3>3
    <3> QED BY <1>8, <1>9, <2>1, <3>1, <3>2, <3>3
  <2> QED BY <2>2, <2>3, <2>4
<1>21. OpenEnds' = IF Grounded(c, new) THEN OpenEnds \cup {<<c, i>>} ELSE OpenEnds
  <2>1. OpenEnds \subseteq Chains \X ConnectionIds /\ OpenEnds' \subseteq Chains \X ConnectionIds
    BY DEF OpenEnds
  <2> QED BY <1>18, <1>20, <2>1
<1> QED
  BY <1>7, <1>17, <1>18, <1>19, <1>21

-----------------------------------------------------------------------------

\* A step of the handshake by what it does: an end opens, or the open ends stay as they are.
LEMMA NextEffect ==
  ASSUME ConnectionInv, Next
  PROVE  /\ ConnectionInv'
         /\ \/ UNCHANGED Joined
            \/ \E c \in Chains : \E i \in DOMAIN store[c].connections, new \in ConnectionEnds(c) :
                 Opens(c, i, new)
<1>1. PICK c \in Chains :
        NextBlock(c) \/ ClientStep(c) \/ OpenStep(c) \/ AckStep(c) \/ ConfirmStep(c)
  BY DEF Next
<1>2. ASSUME OpenEnds' = OpenEnds,
             \A e \in OpenEnds : store'[e[1]].connections[e[2]] = store[e[1]].connections[e[2]]
      PROVE  UNCHANGED Joined
  BY <1>2 DEF Joined, Joint
<1>3. CASE NextBlock(c)
  <2>1. UNCHANGED store
    BY <1>3 DEF NextBlock
  <2>2. UNCHANGED Joined
    BY <2>1 DEF Joined, Joint, OpenEnds, Grounded
  <2> QED BY <1>3, <2>2, NextBlockInv
<1>4. CASE ClientStep(c)
  <2>1. \A d \in Chains : store'[d].connections = store[d].connections
    <3>1. DOMAIN store = Chains
          /\ store[c] = [clients |-> store[c].clients, connections |-> store[c].connections]
      BY ChainTypes DEF ConnectionInv, TypeOK
    <3>2. PICK clients : store' = [store EXCEPT ![c] = [store[c] EXCEPT !.clients = clients]]
      BY <1>4 DEF ClientStep, FreezeClient, UpdateClient
    <3> QED BY <3>1, <3>2
  <2>2. OpenEnds' = OpenEnds
    BY <2>1 DEF OpenEnds, Grounded
  <2>3. \A e \in OpenEnds : e[1] \in Chains
    BY DEF OpenEnds
  <2>4. UNCHANGED Joined
    BY <1>2, <2>1, <2>2, <2>3
  <2> QED BY <1>4, <2>4, ClientStepInv
<1>5. CASE OpenStep(c)
  <2>1. PICK clientId \in DOMAIN Clients[c], peer \in DOMAIN Clients[Other(c)],
             delayPeriod \in DelayPeriods :
       \/ \E version \in ProposedVersions : ConnOpenInit(c, clientId, peer, version, delayPeriod)
       \/ \E j \in ConnectionIds, versions \in VersionLists,
             h \in store[c].clients[clientId].heights, consensusHeight \in 1..(Height(c) - 1) :
            ConnOpenTry(c, clientId, Counterparty(peer, j), delayPeriod, versions, h,
                        consensusHeight)
    BY <1>5 DEF OpenStep
  <2>2. Len(store[c].connections) < MaxConnections[c]
    BY <1>5 DEF OpenStep
  <2>3. /\ ConnectionInv' /\ OpenEnds' = OpenEnds
        /\ \A e \in OpenEnds : store'[e[1]].connections[e[2]] = store[e[1]].connections[e[2]]
    BY <2>1, <2>2, InitStepInv, TryStepInv
  <2> QED BY <1>2, <2>3
<1>6. CASE AckStep(c)
  <2>1. PICK i \in DOMAIN store[c].connections : \E h, consensusHeight :
          \E version \in NegotiatedVersions, j \in ConnectionIds :
            ConnOpenAck(c, i, version, j, h, consensusHeight)
    BY <1>6 DEF AckStep, EndsIn
  <2>2. PICK new \in ConnectionEnds(c) : Opens(c, i, new)
    BY <2>1, AckOpens
  <2> QED BY <2>2, OpensInv
<1>7. CASE ConfirmStep(c)
  <2>1. PICK i \in DOMAIN store[c].connections : \E h : ConnOpenConfirm(c, i, h)
    BY <1>7 DEF ConfirmStep, EndsIn
  <2>2. PICK new \in ConnectionEnds(c) : Opens(c, i, new)
    BY <2>1, ConfirmOpens
  <2> QED BY <2>2, OpensInv
<1> QED
  BY <1>1, <1>3, <1>4, <1>5, <1>6, <1>7

\* ConnectionInv is an inductive invariant: open ends agree with their peers, an answered
\* end has one version that both chains support, and what headers show past INIT lasts,
\* for any clients, versions, numbers of connections and answers to one INIT.
THEOREM ConnectionInvariance == Spec => []ConnectionInv
<1>1. ConnectionInv /\ [Next]_vars => ConnectionInv'
  <2>1. CASE Next
    BY <2>1, NextEffect
  <2>2. CASE UNCHANGED vars
    <3> SUFFICES ASSUME ConnectionInv PROVE ConnectionInv'
      BY <2>2
    <3>1. UNCHANGED <<blocks, store>>
      BY <2>2 DEF vars
    <3>2. TypeOK'
      BY <3>1 DEF ConnectionInv, TypeOK, Height
    <3> QED BY <3>1, <3>2, ConnectionsKeptInv
  <2> QED BY <2>1, <2>2
<1> QED
  BY InitInv, <1>1, PTL DEF Spec

\* The clients of an answered or open connection follow each other's chains, whatever
\* anyone calls a client: the consensus state proved to ConnOpenTry and ConnOpenAck is
\* one that this chain had.
THEOREM ConnectedClientsFollow == Spec => []ClientsFollowEachOther
<1>1. ConnectionInv => ClientsFollowEachOther
  BY DEF ConnectionInv, Sound, ClientsFollowEachOther
<1> QED
  BY <1>1, ConnectionInvariance, PTL

\* An end that opens is joined as the abstract agreement wants it: it was not joined, no
\* other end is joined to its peer, and if the peer is joined it is to this end.
LEMMA OpensJoins ==
  ASSUME ConnectionInv, NEW c \in Chains, NEW i, NEW new, Opens(c, i, new)
  PROVE  Agreed!Next \/ UNCHANGED Joined
<1> DEFINE joint == Joint(c, i, new)
           j == new.counterparty.connectionId
           peer == store[Other(c)].connections[j]
<1>1. /\ i \in ConnectionIds /\ <<c, i>> \notin OpenEnds
      /\ store'[c].connections[i] = new
      /\ OpenEnds' = IF Grounded(c, new) THEN OpenEnds \cup {<<c, i>>} ELSE OpenEnds
      /\ \A e \in OpenEnds : store'[e[1]].connections[e[2]] = store[e[1]].connections[e[2]]
  BY OpensInv
<1>2. CASE ~Grounded(c, new)
  BY <1>1, <1>2 DEF Joined, Joint
<1>3. CASE Grounded(c, new)
  <2>1. Joined' = Joined \cup {joint}
    <3> DEFINE before(e) == Joint(e[1], e[2], store[e[1]].connections[e[2]])
               after(e) == Joint(e[1], e[2], store'[e[1]].connections[e[2]])
    <3>1. Joined = {before(e) : e \in OpenEnds} /\ Joined' = {after(e) : e \in OpenEnds'}
      BY DEF Joined, Joint
    <3>2. /\ \A e \in OpenEnds : after(e) = before(e)
          /\ after(<<c, i>>) = joint
      BY <1>1
    <3> HIDE DEF before, after, joint
    <3> QED BY <1>1, <1>3, <3>1, <3>2
  <2>2. /\ j \in ConnectionIds
        /\ peer = ConnectionEnd(peer.state, new.counterparty.clientId,
                                Counterparty(new.clientId, i), new.versions, new.delayPeriod)
    BY <1>3 DEF Opens
  <2>3. joint = [end |-> <<c, i>>, with |-> <<Other(c), j>>,
                 terms |-> [version |-> new.versions[1], delayPeriod |-> new.delayPeriod]]
    BY DEF Joint
  <2>4. joint \in Agreed!Joints
    <3>1. new.versions[1] \in NegotiatedVersions /\ new.delayPeriod \in DelayPeriods
      <4>1. \E version \in NegotiatedVersions : new.versions = <<version>>
        BY DEF Opens, Sound, OneVersionOfBoth
      <4>2. new.delayPeriod \in DelayPeriods
        BY DEF Opens, ConnectionEnds
      <4> QED BY <4>1, <4>2, SMTT(30)
    <3> QED BY <1>1, <2>2, <2>3, <3>1, OtherChain, SMTT(30) DEF Agreed!Joints
  <2>5. /\ peer.counterparty.connectionId = i /\ peer.versions = new.versions
        /\ peer.delayPeriod = new.delayPeriod
    BY <2>2, SMTT(30) DEF ConnectionEnd, Counterparty
  <2> HIDE DEF joint
  <2>6. ASSUME NEW t \in Joined
        PROVE  /\ t.end # joint.end
               /\ t.with # joint.with
               /\ t.end = joint.with => t = Agreed!OtherSide(joint)
    <3>1. PICK e \in OpenEnds : t = Joint(e[1], e[2], store[e[1]].connections[e[2]])
      BY DEF Joined
    <3> DEFINE d == e[1]
               n == e[2]
               end == store[d].connections[n]
    <3>2. d \in Chains /\ e = <<d, n>> /\ PeerAgrees(d, n)
      BY SMTT(30) DEF OpenEnds, ConnectionInv, OpenEndsAgree
    <3> HIDE DEF d, n
    <3>3. t = [end |-> <<d, n>>, with |-> <<Other(d), end.counterparty.connectionId>>,
               terms |-> [version |-> end.versions[1], delayPeriod |-> end.delayPeriod]]
      BY <3>1 DEF Joint, d, n
    <3>4. <<d, n>> # <<c, i>>
      BY <1>1, <3>2
    <3>5. ASSUME t.with = joint.with PROVE FALSE
      <4>1. Other(d) = Other(c) /\ end.counterparty.connectionId = j
        BY <2>3, <3>3, <3>5
      <4>2. d = c
        BY <3>2, <4>1, OtherChain
      <4>3. peer = ConnectionEnd(peer.state, end.counterparty.clientId,
                                 Counterparty(end.clientId, n), end.versions, end.delayPeriod)
        BY <3>2, <4>1 DEF PeerAgrees
      <4>4. peer.counterparty.connectionId = n
        BY <4>3, SMTT(30) DEF ConnectionEnd, Counterparty
      <4> QED BY <2>5, <3>4, <4>2, <4>4
    <3>6. ASSUME t.end = joint.with
          PROVE  t = Agreed!OtherSide(joint)
      <4>1. d = Other(c) /\ n = j
        BY <2>3, <3>3, <3>6
      <4>2. Other(d) = c /\ end = peer
        BY <4>1, OtherChain
      <4>3. t.with = joint.end
        BY <2>3, <2>5, <3>3, <4>2
      <4>4. t.terms = joint.terms
        BY <2>3, <2>5, <3>3, <4>2
      <4>5. t = [end |-> t.end, with |-> t.with, terms |-> t.terms]
        BY <3>3
      <4> QED BY <3>6, <4>3, <4>4, <4>5 DEF Agreed!OtherSide
    <3> QED BY <2>3, <3>3, <3>4, <3>5, <3>6
  <2>7. Joined' # Joined
    BY <2>1, <2>6
  <2> QED BY <2>1, <2>4, <2>6, <2>7 DEF Agreed!Next, Agreed!Join
<1> QED
  BY <1>2, <1>3

\* The connection handshake implements the abstract agreement, step by step: the ends that
\* ConnOpenAck and ConnOpenConfirm open on clients that follow the other chain are joined
\* one to one, on the same version and delay period and for good, whoever answers an
\* INIT, how often, and whatever clients anyone has made.
THEOREM ConnectionsAgree == Spec => HandshakeAgrees
<1>1. Init => Agreed!Init
  <2> SUFFICES ASSUME Init PROVE Joined = {}
    BY DEF Agreed!Init
  <2>1. ASSUME NEW c \in Chains PROVE DOMAIN store[c].connections = {}
    <3>1. store[c].connections = <<>>
      BY DEF Init
    <3> QED BY <3>1, SMTT(30)
  <2>2. OpenEnds = {}
    BY <2>1 DEF OpenEnds
  <2> QED BY <2>2 DEF Joined
<1>2. ConnectionInv /\ [Next]_vars => [Agreed!Next]_Joined
  <2>1. ASSUME UNCHANGED vars PROVE UNCHANGED Joined
    BY <2>1 DEF vars, Joined, Joint, OpenEnds, Grounded
  <2> QED BY <2>1, NextEffect, OpensJoins
<1> QED
  BY <1>1, <1>2, ConnectionInvariance, PTL DEF Spec, HandshakeAgrees, Agreed!Spec
=============================================================================
