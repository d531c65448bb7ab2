--------------------------- MODULE ChannelProofs ----------------------------
(***************************************************************************)
(* What a Merkle proof of a channel end, or of anything else, shows.  Then *)
(* the channel handshakes, for any number of channels, headers,            *)
(* connections and versions: ChannelInv is inductive, and the handshakes   *)
(* implement the abstract agreement.                                       *)
(***************************************************************************)
EXTENDS ChannelHandshake, MerkleProof, TLAPS

-----------------------------------------------------------------------------
(* What the chained Merkle proof of a channel end, or of anything else, shows. *)

\* Whatever two proofs a relayer puts together, VerifyMembership accepts them only
\* if the value is under the path in the tree with that root.
THEOREM MembershipSound ==
  ASSUME NEW Stores, NEW Keys, NEW Values,
         NEW root \in Trees(Stores, Trees(Keys, Values)),
         NEW lower \in StoreProofs(Keys, Values),
         NEW upper \in UpperProofs(Stores, Keys, Values),
         NEW path \in Stores \X Keys, NEW value \in Values,
         VerifyMembership(<<lower, upper>>, root, path, value)
  PROVE  /\ path[1] \in DOMAIN root
         /\ path[2] \in DOMAIN root[path[1]]
         /\ root[path[1]][path[2]] = value
<1> DEFINE proofs == <<lower, upper>>
<1>1. /\ ProvesLeaf(lower, lower.tree, path[2], value)
      /\ ProvesLeaf(upper, upper.tree, path[1], lower.tree)
      /\ root = upper.tree
  <2>1. Len(proofs) = 2 /\ Len(path) = 2
    BY DEF VerifyMembership, ValidateVerificationArgs, SpecCount
  <2>2. /\ \A i \in 1..2 : ProvesLeaf(proofs[i], proofs[i].tree, path[2 - i + 1],
                                     Chained(proofs, value, 1, i))
        /\ root = Chained(proofs, value, 1, 3)
    BY <2>1 DEF VerifyMembership, VerifyChainedMembershipProof
  <2> QED BY <2>2 DEF Chained
<1>2. /\ lower.exists <=> lower.key \in DOMAIN lower.tree
      /\ upper.exists <=> upper.key \in DOMAIN upper.tree
  BY DEF StoreProofs, UpperProofs, ProofsOf
<1> QED BY <1>1, <1>2 DEF ProvesLeaf

\* VerifyNonMembership accepts two proofs only if the store is in the tree with that
\* root and has no such key; a store that is missing proves nothing.
THEOREM NonMembershipSound ==
  ASSUME NEW Stores, NEW Keys, NEW Values,
         NEW root \in Trees(Stores, Trees(Keys, Values)),
         NEW lower \in StoreProofs(Keys, Values),
         NEW upper \in UpperProofs(Stores, Keys, Values),
         NEW path \in Stores \X Keys,
         VerifyNonMembership(<<lower, upper>>, root, path)
  PROVE  path[1] \in DOMAIN root /\ path[2] \notin DOMAIN root[path[1]]
<1> DEFINE proofs == <<lower, upper>>
<1>1. /\ ProvesAbsence(lower, lower.tree, path[2])
      /\ ProvesLeaf(upper, upper.tree, path[1], lower.tree)
      /\ root = upper.tree
  <2>1. Len(proofs) = 2 /\ Len(path) = 2
    BY DEF VerifyNonMembership, ValidateVerificationArgs, SpecCount
  <2>2. ProvesAbsence(lower, lower.tree, path[2])
    BY <2>1 DEF VerifyNonMembership
  <2>3. /\ \A i \in 2..2 : ProvesLeaf(proofs[i], proofs[i].tree, path[2 - i + 1],
                                     Chained(proofs, proofs[1].tree, 2, i))
        /\ root = Chained(proofs, proofs[1].tree, 2, 3)
    BY <2>1 DEF VerifyNonMembership, VerifyChainedMembershipProof
  <2> QED BY <2>2, <2>3 DEF Chained
<1>2. /\ lower.exists <=> lower.key \in DOMAIN lower.tree
      /\ upper.exists <=> upper.key \in DOMAIN upper.tree
  BY DEF StoreProofs, UpperProofs, ProofsOf
<1> QED BY <1>1, <1>2 DEF ProvesLeaf, ProvesAbsence

\* The proofs a node gives are accepted: of the value that is under the path, unless
\* it has no bytes, and of a key's absence from a store that has others.  The code
\* refuses an empty value, and a proof from whose tree it can calculate no root.
THEOREM HonestProofsVerify ==
  ASSUME NEW Stores, NEW Keys, NEW Values,
         NEW root \in Trees(Stores, Trees(Keys, Values)),
         NEW path \in Stores \X Keys,
         path[1] \in DOMAIN root, DOMAIN root[path[1]] # {}
  PROVE  /\ path[2] \in DOMAIN root[path[1]] /\ root[path[1]][path[2]] # EmptyValue =>
              VerifyMembership(HonestProofs(root, path), root, path, root[path[1]][path[2]])
         /\ path[2] \notin DOMAIN root[path[1]] =>
              VerifyNonMembership(HonestProofs(root, path), root, path)
<1> DEFINE proofs == HonestProofs(root, path)
<1>1. Len(proofs) = 2 /\ Len(path) = 2
  BY DEF HonestProofs
<1>2. /\ proofs[1] = [exists |-> IF path[2] \in DOMAIN root[path[1]] THEN TRUE ELSE FALSE,
                      tree |-> root[path[1]], key |-> path[2]]
      /\ proofs[2] = [exists |-> TRUE, tree |-> root, key |-> path[1]]
  BY DEF HonestProofs
<1>5. Calculates(proofs[1]) /\ Calculates(proofs[2])
  BY <1>2 DEF Calculates
<1>3. ASSUME path[2] \in DOMAIN root[path[1]], root[path[1]][path[2]] # EmptyValue
      PROVE  VerifyMembership(proofs, root, path, root[path[1]][path[2]])
  <2>1. ProvesLeaf(proofs[1], proofs[1].tree, path[2], root[path[1]][path[2]])
    <3>1. proofs[1].exists BY <1>2, <1>3
    <3> QED BY <1>2, <3>1 DEF ProvesLeaf
  <2>3. ProvesLeaf(proofs[2], proofs[2].tree, path[1], proofs[1].tree)
    BY <1>2 DEF ProvesLeaf
  <2>4. \A i \in 1..2 :
          /\ Calculates(proofs[i])
          /\ ProvesLeaf(proofs[i], proofs[i].tree, path[2 - i + 1],
                        Chained(proofs, root[path[1]][path[2]], 1, i))
    BY <1>5, <2>1, <2>3 DEF Chained
  <2>2. root = Chained(proofs, root[path[1]][path[2]], 1, 3)
    BY <1>2 DEF Chained
  <2> QED BY <1>1, <1>3, <2>4, <2>2
    DEF VerifyMembership, ValidateVerificationArgs, SpecCount, VerifyChainedMembershipProof
<1>4. ASSUME path[2] \notin DOMAIN root[path[1]]
      PROVE  VerifyNonMembership(proofs, root, path)
  <2>1. ~proofs[1].exists /\ ProvesAbsence(proofs[1], proofs[1].tree, path[2])
    <3>1. ~proofs[1].exists BY <1>2, <1>4
    <3> QED BY <1>2, <3>1 DEF ProvesAbsence
  <2>2. \A i \in 2..2 :
          /\ Calculates(proofs[i])
          /\ ProvesLeaf(proofs[i], proofs[i].tree, path[2 - i + 1],
                        Chained(proofs, proofs[1].tree, 2, i))
    BY <1>2, <1>5 DEF ProvesLeaf, Chained
  <2>3. root = Chained(proofs, proofs[1].tree, 2, 3)
    BY <1>2 DEF Chained
  <2> QED BY <1>1, <1>5, <2>1, <2>2, <2>3
    DEF VerifyNonMembership, ValidateVerificationArgs, SpecCount, VerifyChainedMembershipProof
<1> QED BY <1>3, <1>4

-----------------------------------------------------------------------------
(* The handshake. *)

\* Zenon checks most of the leaves; those that calculate cite SMT.
USE ZenonT(40)

LEMMA OtherChain ==
  \A c \in Chains : Other(c) \in Chains /\ Other(c) # c /\ Other(Other(c)) = c
BY ChannelAssumption, SMTT(30) DEF Chains, Other

\* The identifiers of channels are those within the bounds of either chain.
LEMMA ChannelIdsCover ==
  /\ ChannelIds \subseteq Nat \ {0}
  /\ \A c \in Chains : 1..MaxChannels[c] \subseteq ChannelIds
<1> DEFINE bounds == {MaxChannels[c] : c \in Chains}
<1>1. bounds = {MaxChannels[A], MaxChannels[B]} /\ MaxChannels[A] \in Nat /\ MaxChannels[B] \in Nat
  BY ChannelAssumption DEF Chains
<1>2. \E x \in bounds : \A y \in bounds : x >= y
  <2>1. CASE MaxChannels[A] >= MaxChannels[B]
    BY <1>1, <2>1, SMTT(30)
  <2>2. CASE ~(MaxChannels[A] >= MaxChannels[B])
    BY <1>1, <2>2, SMTT(30)
  <2> QED BY <2>1, <2>2
<1>3. Max(bounds) \in bounds /\ \A y \in bounds : Max(bounds) >= y
  BY <1>2 DEF Max
<1>4. \A c \in Chains : MaxChannels[c] \in bounds
  OBVIOUS
<1> HIDE DEF bounds
<1>5. bounds \subseteq Nat
  BY <1>1
<1>6. ChannelIds = 1..Max(bounds)
  BY DEF ChannelIds, bounds
<1>7. Max(bounds) \in Nat /\ \A c \in Chains : MaxChannels[c] \in Nat /\ MaxChannels[c] <= Max(bounds)
  BY <1>3, <1>4, <1>5
<1> HIDE DEF bounds
<1> QED
  BY <1>6, <1>7, SMTT(30)

\* What TypeOK says of one chain.
LEMMA ChainTypes ==
  ASSUME TypeOK, NEW c \in Chains
  PROVE  /\ channels[c] \in Seq(Ends) /\ Len(channels[c]) <= MaxChannels[c]
         /\ MaxChannels[c] \in Nat /\ MaxHeight[c] \in Nat
         /\ blocks[c] \in Seq(Seq(Ends)) /\ Height(c) = Len(blocks[c])
         /\ Height(c) \in 1..MaxHeight[c]
         /\ client[c].heights \subseteq 1..Height(Other(c))
         /\ \A i \in DOMAIN channels[c] : channels[c][i] \in Ends /\ i \in ChannelIds
<1>1. MaxChannels[c] \in Nat /\ MaxHeight[c] \in Nat
  BY ChannelAssumption
<1>2. channels[c] \in Seq(Ends) /\ blocks[c] \in Seq(Seq(Ends))
  BY DEF TypeOK
<1>3. /\ Len(channels[c]) <= MaxChannels[c] /\ Height(c) \in 1..MaxHeight[c]
      /\ client[c].heights \subseteq 1..Height(Other(c))
  BY DEF TypeOK
<1>4. \A i \in DOMAIN channels[c] : channels[c][i] \in Ends /\ i \in 1..MaxChannels[c]
  BY <1>1, <1>2, <1>3, SMTT(30)
<1> QED
  BY <1>1, <1>2, <1>3, <1>4, ChannelIdsCover DEF Height

\* What an accepted proof shows of the other chain: an end a header has past INIT is,
\* but for its state, what the other chain has now.
LEMMA ProofShows ==
  ASSUME ChannelInv, NEW c \in Chains, NEW h, NEW j, NEW expected,
         VerifyChannelState(c, h, j, expected)
  PROVE  /\ h \in 1..Height(Other(c)) /\ j \in DOMAIN blocks[Other(c)][h]
         /\ blocks[Other(c)][h][j] = expected
         /\ expected \in Ends /\ j \in DOMAIN channels[Other(c)] /\ j \in ChannelIds
         /\ expected.state # "INIT" => Continues(expected, channels[Other(c)][j])
<1>1. TypeOK /\ Other(c) \in Chains /\ HeadersLast(Other(c))
  BY OtherChain DEF ChannelInv
<1>2. /\ h \in client[c].heights /\ j \in DOMAIN blocks[Other(c)][h]
      /\ blocks[Other(c)][h][j] = expected
  BY DEF VerifyChannelState
<1>3. h \in 1..Height(Other(c))
  BY <1>1, <1>2, ChainTypes
<1>4. blocks[Other(c)][h] \in Seq(Ends)
  <2>1. blocks[Other(c)] \in Seq(Seq(Ends)) /\ Height(Other(c)) = Len(blocks[Other(c)])
    BY <1>1, ChainTypes
  <2> QED BY <1>3, <2>1, SMTT(30)
<1>5. expected \in Ends
  BY <1>2, <1>4, SMTT(30)
<1>6. /\ j \in DOMAIN channels[Other(c)]
      /\ expected.state # "INIT" => Continues(expected, channels[Other(c)][j])
  BY <1>1, <1>2, <1>3 DEF HeadersLast
<1>7. j \in ChannelIds
  BY <1>1, <1>6, ChainTypes
<1> QED
  BY <1>2, <1>3, <1>5, <1>6, <1>7

LEMMA ContinuesItself ==
  ASSUME NEW end \in Ends, end.state # "INIT"
  PROVE  Continues(end, end)
BY DEF Continues, Ends

LEMMA ContinuesOn ==
  ASSUME NEW past \in Ends, NEW now, NEW next, Continues(past, now), Continues(now, next)
  PROVE  Continues(past, next)
BY DEF Continues, Ends

-----------------------------------------------------------------------------
(* One lemma for each way the channels change. *)

LEMMA InitInv == Init => ChannelInv
<1> SUFFICES ASSUME Init PROVE ChannelInv
  OBVIOUS
<1>1. /\ connection \in [Chains -> [ConnectionIds -> {"INIT", "TRYOPEN", "OPEN"}]]
      /\ told = {}
  BY DEF Init
<1>2. /\ channels = [c \in Chains |-> <<>>] /\ blocks = [c \in Chains |-> <<channels[c]>>]
      /\ client = [c \in Chains |-> [active |-> TRUE, heights |-> {1}]]
  BY DEF Init
<1>3. \A c \in Chains : DOMAIN channels[c] = {} /\ Len(channels[c]) = 0
  BY <1>2, SMTT(30)
<1>4. \A c \in Chains : blocks[c] = << <<>> >> /\ Height(c) = 1
  BY <1>2 DEF Height
<1>5. \A c \in Chains : \A h \in 1..Height(c) : DOMAIN blocks[c][h] = {}
  BY <1>4, SMTT(30)
<1>6. TypeOK
  <2>1. channels \in [Chains -> Seq(Ends)]
    BY <1>2, SMTT(30)
  <2>2. blocks \in [Chains -> Seq(Seq(Ends))]
    <3>1. << <<>> >> \in Seq(Seq(Ends))
      <4>1. <<>> \in Seq(Ends)
        BY SMTT(30)
      <4> QED BY <4>1, SMTT(30)
    <3>2. DOMAIN blocks = Chains /\ blocks = [c \in Chains |-> blocks[c]]
      BY <1>2
    <3> QED BY <1>4, <3>1, <3>2
  <2>3. client \in [Chains -> [active : BOOLEAN, heights : SUBSET Nat]]
    BY <1>2, SMTT(30)
  <2>4. \A c \in Chains : client[c].heights \subseteq 1..Height(Other(c))
    BY <1>2, <1>4, OtherChain, SMTT(30)
  <2>5. \A c \in Chains : Len(channels[c]) <= MaxChannels[c] /\ Height(c) \in 1..MaxHeight[c]
    BY <1>3, <1>4, ChannelAssumption, SMTT(30)
  <2> QED BY <1>1, <1>3, <2>1, <2>2, <2>3, <2>4, <2>5 DEF TypeOK
<1>7. \A c \in Chains : HeadersLast(c)
  BY <1>5 DEF HeadersLast
<1> QED
  BY <1>1, <1>3, <1>6, <1>7 DEF ChannelInv, OpenEndsAgree, ToldAgree

\* The new header shows the channels as they are.
LEMMA NextBlockInv ==
  ASSUME ChannelInv, NEW c \in Chains, NextBlock(c)
  PROVE  ChannelInv'
<1>1. TypeOK /\ OpenEndsAgree /\ ToldAgree /\ \A d \in Chains : HeadersLast(d)
  BY DEF ChannelInv
<1>2. UNCHANGED <<channels, connection, client, told>> /\ Height(c) < MaxHeight[c]
  BY DEF NextBlock
<1>3. /\ blocks \in [Chains -> Seq(Seq(Ends))] /\ channels[c] \in Seq(Ends)
      /\ blocks' = [blocks EXCEPT ![c] = Append(blocks[c], channels[c])]
  BY <1>1 DEF NextBlock, TypeOK
<1>4. \A d \in Chains : /\ blocks[d] \in Seq(Seq(Ends)) /\ Height(d) = Len(blocks[d])
                        /\ Height(d) \in Nat /\ MaxHeight[d] \in Nat /\ Height(d) \in 1..MaxHeight[d]
  BY <1>1, ChainTypes, SMTT(30)
<1>5. /\ blocks' \in [Chains -> Seq(Seq(Ends))]
      /\ Len(blocks'[c]) = Height(c) + 1 /\ blocks'[c][Height(c) + 1] = channels[c]
      /\ \A h \in 1..Height(c) : blocks'[c][h] = blocks[c][h]
      /\ \A d \in Chains : d # c => blocks'[d] = blocks[d]
  BY <1>3, <1>4, SMTT(30)
<1>6. \A d \in Chains : Height(d)' = (IF d = c THEN Height(c) + 1 ELSE Height(d))
  BY <1>4, <1>5 DEF Height
<1>7. TypeOK'
  <2>1. \A d \in Chains : Height(d)' \in 1..MaxHeight[d] /\ Height(d) <= Height(d)'
    BY <1>2, <1>4, <1>6, SMTT(30)
  <2>2. \A d \in Chains : client[d].heights \subseteq 1..Height(Other(d))'
    BY <1>1, <1>4, <2>1, OtherChain, ChainTypes, SMTT(30)
  <2> QED BY <1>1, <1>2, <1>5, <2>1, <2>2 DEF TypeOK
<1>8. ASSUME NEW d \in Chains PROVE HeadersLast(d)'
  <2>1. CASE d # c
    BY <1>1, <1>2, <1>5, <1>6, <2>1 DEF HeadersLast
  <2>2. CASE d = c
    <3> SUFFICES ASSUME NEW h \in 1..Height(c) + 1, NEW i \in DOMAIN blocks'[c][h]
                 PROVE  /\ i \in DOMAIN channels[c]
                        /\ blocks'[c][h][i].state # "INIT" =>
                             Continues(blocks'[c][h][i], channels[c][i])
      BY <1>2, <1>6, <2>2 DEF HeadersLast
    <3>1. CASE h \in 1..Height(c)
      BY <1>1, <1>5, <3>1 DEF HeadersLast
    <3>2. CASE h = Height(c) + 1
      <4>1. blocks'[c][h] = channels[c]
        BY <1>5, <3>2
      <4>2. channels[c][i] \in Ends
        BY <1>1, <4>1, ChainTypes
      <4> QED BY <4>1, <4>2, ContinuesItself
    <3> QED BY <1>4, <3>1, <3>2, SMTT(30)
  <2> QED BY <2>1, <2>2
<1>9. OpenEndsAgree' /\ ToldAgree'
  BY <1>1, <1>2 DEF OpenEndsAgree, ToldAgree, PeerAgrees
<1> QED
  BY <1>2, <1>7, <1>8, <1>9 DEF ChannelInv

LEMMA UnchangedInv ==
  ASSUME ChannelInv, UNCHANGED <<blocks, channels, told>>, TypeOK'
  PROVE  ChannelInv'
<1>1. OpenEndsAgree' /\ ToldAgree'
  BY DEF ChannelInv, OpenEndsAgree, ToldAgree, PeerAgrees
<1>2. \A c \in Chains : HeadersLast(c)'
  BY DEF ChannelInv, HeadersLast, Height
<1> QED
  BY <1>1, <1>2 DEF ChannelInv

\* Clients and connections are no part of what the ends agree on.
LEMMA LayerInv ==
  ASSUME ChannelInv, NEW c \in Chains, LayerStep(c)
  PROVE  ChannelInv'
<1>1. TypeOK
  BY DEF ChannelInv
<1>2. CASE NextBlock(c)
  BY <1>2, NextBlockInv
<1>3. ASSUME UNCHANGED <<blocks, channels, told>>, TypeOK' PROVE ChannelInv'
  BY <1>3, UnchangedInv
<1>4. CASE LoseClient(c)
  <2>1. UNCHANGED <<blocks, channels, connection, told>>
    BY <1>4 DEF LoseClient
  <2>2. /\ client \in [Chains -> [active : BOOLEAN, heights : SUBSET Nat]]
        /\ client' = [client EXCEPT ![c].active = FALSE]
    BY <1>1, <1>4 DEF LoseClient, TypeOK
  <2>3. /\ client' \in [Chains -> [active : BOOLEAN, heights : SUBSET Nat]]
        /\ \A d \in Chains : client'[d].heights = client[d].heights
    BY <2>2
  <2>4. TypeOK'
    BY <1>1, <2>1, <2>3 DEF TypeOK, Height
  <2> QED BY <1>3, <2>1, <2>4
<1>5. ASSUME NEW h \in Unseen(c), UpdateClient(c, h) PROVE ChannelInv'
  <2>1. UNCHANGED <<blocks, channels, connection, told>>
    BY <1>5 DEF UpdateClient
  <2>2. /\ client \in [Chains -> [active : BOOLEAN, heights : SUBSET Nat]]
        /\ client' = [client EXCEPT ![c].heights = client[c].heights \cup {h}]
        /\ h \in 1..Height(Other(c))
    BY <1>1, <1>5 DEF UpdateClient, Unseen, TypeOK
  <2>3. Height(Other(c)) \in Nat
    BY <1>1, OtherChain, ChainTypes, SMTT(30)
  <2>4. /\ client' \in [Chains -> [active : BOOLEAN, heights : SUBSET Nat]]
        /\ \A d \in Chains :
             client'[d].heights = (IF d = c THEN client[c].heights \cup {h} ELSE client[d].heights)
    BY <2>2, <2>3, SMTT(30)
  <2>5. \A d \in Chains : client'[d].heights \subseteq 1..Height(Other(d))
    BY <1>1, <2>2, <2>4, ChainTypes
  <2>6. TypeOK'
    BY <1>1, <2>1, <2>4, <2>5 DEF TypeOK, Height
  <2> QED BY <1>3, <2>1, <2>6
<1>6. ASSUME NEW k \in ConnectionIds, ConnectionOpens(c, k) PROVE ChannelInv'
  <2>1. UNCHANGED <<blocks, channels, client, told>>
    BY <1>6 DEF ConnectionOpens
  <2>2. connection' \in [Chains -> [ConnectionIds -> {"INIT", "TRYOPEN", "OPEN"}]]
    BY <1>1, <1>6 DEF ConnectionOpens, TypeOK
  <2>3. TypeOK'
    BY <1>1, <2>1, <2>2 DEF TypeOK, Height
  <2> QED BY <1>3, <2>1, <2>3
<1> QED
  BY <1>2, <1>4, <1>5, <1>6 DEF LayerStep

\* A new end changes nothing of those that are there.
LEMMA AddInv ==
  ASSUME ChannelInv, NEW c \in Chains, NEW channel \in Ends, AddChannel(c, channel),
         Len(channels[c]) < MaxChannels[c],
         Carried(channel),
         \/ channel.state = "INIT"
         \/ channel.state = "TRYOPEN" /\ channel.counterparty.channelId # 0
  PROVE  ChannelInv'
<1> DEFINE n == Len(channels[c]) + 1
<1>1. /\ TypeOK /\ OpenEndsAgree /\ ToldAgree
      /\ \A d \in Chains : HeadersLast(d)
      /\ \A d \in Chains : \A i \in DOMAIN channels[d] :
           /\ Carried(channels[d][i])
           /\ channels[d][i].state = "OPEN" => Joint(d, i, channels[d][i]) \in told
  BY DEF ChannelInv
<1>2. UNCHANGED <<blocks, connection, client, told>>
  BY DEF AddChannel
<1>3. /\ channels \in [Chains -> Seq(Ends)]
      /\ channels' = [channels EXCEPT ![c] = Append(channels[c], channel)]
  BY <1>1 DEF AddChannel, TypeOK
<1>4. channels[c] \in Seq(Ends) /\ Len(channels[c]) \in Nat /\ MaxChannels[c] \in Nat
  BY <1>1, ChainTypes, SMTT(30)
<1>5. /\ channels' \in [Chains -> Seq(Ends)]
      /\ Len(channels'[c]) = n /\ DOMAIN channels'[c] = DOMAIN channels[c] \cup {n}
      /\ channels'[c][n] = channel
      /\ \A i \in DOMAIN channels[c] : channels'[c][i] = channels[c][i]
      /\ \A d \in Chains : d # c => channels'[d] = channels[d]
  BY <1>3, <1>4, SMTT(30)
<1> HIDE DEF n
<1>6. \A d \in Chains : \A i \in DOMAIN channels[d] :
        i \in DOMAIN channels'[d] /\ channels'[d][i] = channels[d][i]
  BY <1>5
<1>7. \A d \in Chains : \A i \in DOMAIN channels'[d] :
        \/ i \in DOMAIN channels[d] /\ channels'[d][i] = channels[d][i]
        \/ d = c /\ i = n /\ channels'[d][i] = channel
  BY <1>5
<1>8. TypeOK'
  <2>1. \A d \in Chains : Len(channels'[d]) <= MaxChannels[d]
    <3>1. n <= MaxChannels[c]
      BY <1>4, SMTT(30) DEF n
    <3> QED BY <1>1, <1>5, <3>1, ChainTypes
  <2>2. \A d \in Chains : \A i \in DOMAIN channels'[d] :
          channels'[d][i].state \in {"TRYOPEN", "OPEN"} =>
            channels'[d][i].counterparty.channelId # 0
    <3>1. \A d \in Chains : \A i \in DOMAIN channels[d] :
            channels[d][i].state \in {"TRYOPEN", "OPEN"} =>
              channels[d][i].counterparty.channelId # 0
      BY <1>1 DEF TypeOK
    <3> QED BY <1>7, <3>1
  <2> QED BY <1>1, <1>2, <1>5, <2>1, <2>2 DEF TypeOK, Height
<1>9. ASSUME NEW d \in Chains, NEW i \in DOMAIN channels[d], PeerAgrees(d, i)
      PROVE  PeerAgrees(d, i)'
  <2> DEFINE j == channels[d][i].counterparty.channelId
             peer == channels[Other(d)][j]
  <2>1. j \in DOMAIN channels[Other(d)] /\ Other(d) \in Chains
    BY <1>9, OtherChain DEF PeerAgrees
  <2>2. /\ channels'[d][i] = channels[d][i]
        /\ j \in DOMAIN channels'[Other(d)] /\ channels'[Other(d)][j] = peer
    BY <1>6, <2>1
  <2> QED BY <1>9, <2>2 DEF PeerAgrees
<1>10. OpenEndsAgree'
  BY <1>1, <1>7, <1>9 DEF OpenEndsAgree
<1>11. ToldAgree'
  BY <1>1, <1>2, <1>6, <1>9, SMTT(30) DEF ToldAgree
<1>12. \A d \in Chains : HeadersLast(d)'
  BY <1>1, <1>2, <1>6 DEF HeadersLast, Height
<1> QED
  BY <1>1, <1>2, <1>7, <1>8, <1>10, <1>11, <1>12 DEF ChannelInv

LEMMA InitStepInv ==
  ASSUME ChannelInv, NEW c \in Chains, InitStep(c)
  PROVE  ChannelInv'
<1>1. PICK ordering \in Orderings, k \in ConnectionIds, portId \in Ports, peer \in Ports,
           version \in AppVersions : ChanOpenInit(c, ordering, k, portId, peer, version)
  BY DEF InitStep
<1> DEFINE channel == Channel("INIT", portId, ordering, Counterparty(peer, 0), k, version)
<1>2. /\ channel \in Ends /\ channel.state = "INIT"
      /\ Carried(channel)
  BY DEF Channel, Counterparty, Ends, States, Carried
<1>3. AddChannel(c, channel) /\ Len(channels[c]) < MaxChannels[c]
  BY <1>1 DEF ChanOpenInit, InitStep
<1> HIDE DEF channel
<1> QED
  BY <1>2, <1>3, AddInv

LEMMA TryStepInv ==
  ASSUME ChannelInv, NEW c \in Chains, TryStep(c)
  PROVE  ChannelInv'
<1>1. PICK h \in client[c].heights, k \in ConnectionIds, version \in AppVersions,
           portId \in Ports : \E id \in DOMAIN blocks[Other(c)][h] :
             LET peer == blocks[Other(c)][h][id] IN
             ChanOpenTry(c, peer.ordering, k, portId, Counterparty(peer.portId, id),
                         peer.version, version, h)
  BY DEF TryStep
<1>2. PICK id \in DOMAIN blocks[Other(c)][h] :
             LET peer == blocks[Other(c)][h][id] IN
             ChanOpenTry(c, peer.ordering, k, portId, Counterparty(peer.portId, id),
                         peer.version, version, h)
  BY <1>1
<1> DEFINE peer == blocks[Other(c)][h][id]
           channel == Channel("TRYOPEN", portId, peer.ordering, Counterparty(peer.portId, id),
                              k, version)
           expected == Channel("INIT", peer.portId, peer.ordering, Counterparty(portId, 0), k,
                               peer.version)
<1>3. ChanOpenTry(c, peer.ordering, k, portId, Counterparty(peer.portId, id), peer.version,
                  version, h)
  BY <1>2
<1> HIDE DEF peer
<1>4. /\ peer.ordering \in Connections[k] /\ AddChannel(c, channel)
      /\ VerifyChannelState(c, h, id, expected)
  BY <1>3 DEF ChanOpenTry, Counterparty, Supports
<1>5. peer \in Ends /\ id \in ChannelIds
  <2>1. blocks[Other(c)][h][id] = expected /\ expected \in Ends /\ id \in ChannelIds
    <3> HIDE DEF expected
    <3> QED BY <1>4, ProofShows
  <2> QED BY <2>1 DEF peer
<1>6. peer.ordering \in Orderings /\ peer.portId \in Ports /\ id # 0
  BY <1>5, ChannelIdsCover DEF Ends
<1>7. /\ channel \in Ends /\ channel.state = "TRYOPEN" /\ channel.counterparty.channelId = id
      /\ channel.ordering = peer.ordering /\ channel.hop = k
  BY <1>5, <1>6 DEF Channel, Counterparty, Ends, States
<1>8. Len(channels[c]) < MaxChannels[c]
  BY DEF TryStep
<1> HIDE DEF channel
<1> QED
  BY <1>4, <1>6, <1>7, <1>8, AddInv DEF Carried

\* Where end i of c goes on to OPEN or CLOSED, and is changed otherwise only if it was in
\* INIT, nothing that headers show or applications were told is undone.
LEMMA SetKeeps ==
  ASSUME ChannelInv, NEW c \in Chains, NEW i \in DOMAIN channels[c], NEW new \in Ends,
         SetChannel(c, i, new),
         new.state \in {"OPEN", "CLOSED"},
         new.state = "OPEN" => new.counterparty.channelId # 0,
         new.ordering = channels[c][i].ordering, new.hop = channels[c][i].hop,
         channels[c][i].state # "INIT" => new = [channels[c][i] EXCEPT !.state = new.state]
  PROVE  /\ TypeOK' /\ \A d \in Chains : HeadersLast(d)'
         /\ channels'[c][i] = new /\ DOMAIN channels'[c] = DOMAIN channels[c]
         /\ \A d \in Chains : DOMAIN channels'[d] = DOMAIN channels[d]
         /\ \A d \in Chains : \A j \in DOMAIN channels[d] :
              <<d, j>> # <<c, i>> => channels'[d][j] = channels[d][j]
         /\ \A d \in Chains : \A j \in DOMAIN channels[d] :
              channels[d][j].state # "INIT" => Continues(channels[d][j], channels'[d][j])
         /\ \A d \in Chains : \A j \in DOMAIN channels[d] :
              channels[d][j].state \in {"OPEN", "CLOSED"} /\ PeerAgrees(d, j) =>
                /\ channels'[d][j].state \in {"OPEN", "CLOSED"}
                /\ PeerAgrees(d, j)'
                /\ Joint(d, j, channels'[d][j]) = Joint(d, j, channels[d][j])
<1>1. TypeOK /\ \A d \in Chains : HeadersLast(d)
  BY DEF ChannelInv
<1>2. UNCHANGED <<blocks, connection, client>>
  BY DEF SetChannel
<1>3. /\ channels \in [Chains -> Seq(Ends)]
      /\ channels' = [channels EXCEPT ![c] = [channels[c] EXCEPT ![i] = new]]
  BY <1>1 DEF SetChannel, TypeOK
<1>4. channels[c] \in Seq(Ends) /\ \A d \in Chains : channels[d] \in Seq(Ends)
  BY <1>1, ChainTypes
<1>5. /\ channels' \in [Chains -> Seq(Ends)]
      /\ Len(channels'[c]) = Len(channels[c]) /\ DOMAIN channels'[c] = DOMAIN channels[c]
      /\ channels'[c][i] = new
      /\ \A j \in DOMAIN channels[c] : j # i => channels'[c][j] = channels[c][j]
      /\ \A d \in Chains : d # c => channels'[d] = channels[d]
  BY <1>3, <1>4, SMTT(30)
<1>6. \A d \in Chains : DOMAIN channels'[d] = DOMAIN channels[d]
  BY <1>5
<1>7. \A d \in Chains : \A j \in DOMAIN channels[d] :
        <<d, j>> # <<c, i>> => channels'[d][j] = channels[d][j]
  BY <1>5
<1>8. \A d \in Chains : \A j \in DOMAIN channels[d] : channels[d][j] \in Ends
  BY <1>1, ChainTypes
<1>9. ASSUME NEW d \in Chains, NEW j \in DOMAIN channels[d], channels[d][j].state # "INIT"
      PROVE  Continues(channels[d][j], channels'[d][j])
  <2>1. CASE <<d, j>> = <<c, i>>
    BY <1>5, <1>9, <2>1 DEF Continues
  <2>2. CASE <<d, j>> # <<c, i>>
    BY <1>7, <1>8, <1>9, <2>2, ContinuesItself
  <2> QED BY <2>1, <2>2
<1>10. TypeOK'
  <2>1. \A d \in Chains : Len(channels'[d]) <= MaxChannels[d]
    BY <1>1, <1>5, ChainTypes
  <2>2. \A d \in Chains : \A j \in DOMAIN channels'[d] :
          channels'[d][j].state \in {"TRYOPEN", "OPEN"} =>
            channels'[d][j].counterparty.channelId # 0
    <3>1. \A d \in Chains : \A j \in DOMAIN channels[d] :
            channels[d][j].state \in {"TRYOPEN", "OPEN"} =>
              channels[d][j].counterparty.channelId # 0
      BY <1>1 DEF TypeOK
    <3> QED BY <1>5, <1>6, <1>7, <3>1, SMTT(30)
  <2> QED BY <1>1, <1>2, <1>5, <2>1, <2>2 DEF TypeOK, Height
<1>11. ASSUME NEW d \in Chains PROVE HeadersLast(d)'
  <2> SUFFICES ASSUME NEW h \in 1..Height(d), NEW j \in DOMAIN blocks[d][h]
               PROVE  /\ j \in DOMAIN channels'[d]
                      /\ blocks[d][h][j].state # "INIT" =>
                           Continues(blocks[d][h][j], channels'[d][j])
    BY <1>2 DEF HeadersLast, Height
  <2>1. /\ j \in DOMAIN channels[d]
        /\ blocks[d][h][j].state # "INIT" => Continues(blocks[d][h][j], channels[d][j])
    BY <1>1 DEF HeadersLast
  <2>2. blocks[d][h][j] \in Ends
    <3>1. blocks[d] \in Seq(Seq(Ends)) /\ Height(d) = Len(blocks[d])
      BY <1>1, ChainTypes
    <3> QED BY <3>1, SMTT(30)
  <2>3. ASSUME Continues(blocks[d][h][j], channels[d][j])
        PROVE  Continues(blocks[d][h][j], channels'[d][j])
    <3>1. channels[d][j].state # "INIT"
      BY <2>3 DEF Continues
    <3> QED BY <1>9, <2>1, <2>2, <2>3, <3>1, ContinuesOn
  <2> QED BY <1>6, <2>1, <2>3
<1>12. ASSUME NEW d \in Chains, NEW j \in DOMAIN channels[d],
              channels[d][j].state \in {"OPEN", "CLOSED"}, PeerAgrees(d, j)
       PROVE  /\ channels'[d][j].state \in {"OPEN", "CLOSED"}
              /\ PeerAgrees(d, j)'
              /\ Joint(d, j, channels'[d][j]) = Joint(d, j, channels[d][j])
  <2> DEFINE end == channels[d][j]
             end2 == channels'[d][j]
             p == end.counterparty.channelId
             peer == channels[Other(d)][p]
             peer2 == channels'[Other(d)][p]
  <2>1. end2.state \in {"OPEN", "CLOSED"}
    BY <1>5, <1>7, <1>12
  <2>2. end2 = [end EXCEPT !.state = end2.state]
    BY <1>9, <1>12 DEF Continues
  <2>3. end \in Ends
    BY <1>8
  <2>4. p \in DOMAIN channels[Other(d)] /\ peer.state # "INIT" /\ peer = ExpectedPeer(peer.state, j, end)
    BY <1>12 DEF PeerAgrees
  <2>5. peer2.state # "INIT" /\ peer2 = [peer EXCEPT !.state = peer2.state]
    BY <1>9, <2>4, OtherChain DEF Continues
  <2>6. p \in DOMAIN channels'[Other(d)]
    BY <1>6, <2>4, OtherChain
  <2> HIDE DEF end, end2, peer, peer2
  <2>7. end2.counterparty = end.counterparty /\ end2.ordering = end.ordering
        /\ end2.version = end.version /\ end2.hop = end.hop /\ end2.portId = end.portId
    BY <2>2, <2>3 DEF Ends
  <2>8. peer2 = ExpectedPeer(peer2.state, j, end2)
    BY <2>4, <2>5, <2>7, SMTT(30) DEF ExpectedPeer, Channel
  <2>9. PeerAgrees(d, j)'
    BY <2>5, <2>6, <2>7, <2>8 DEF PeerAgrees, end2, end, peer2, ExpectedPeer
  <2>10. Joint(d, j, end2) = Joint(d, j, end)
    BY <2>7 DEF Joint
  <2> QED BY <2>1, <2>9, <2>10 DEF end, end2
<1> QED
  BY <1>5, <1>6, <1>7, <1>9, <1>10, <1>11, <1>12

\* What ChanOpenAck and ChanOpenConfirm have in common: an end that was not open opens
\* towards an end that is past INIT and agrees, and its application is told.
Opens(c, i, new) ==
  /\ i \in DOMAIN channels[c] /\ new \in Ends
  /\ channels[c][i].state \in {"INIT", "TRYOPEN"}
  /\ SetChannel(c, i, new) /\ TellOpen(c, i, new)
  /\ new.state = "OPEN" /\ new.counterparty.channelId \in ChannelIds
  /\ new.ordering = channels[c][i].ordering /\ new.hop = channels[c][i].hop
  /\ channels[c][i].state # "INIT" => new = [channels[c][i] EXCEPT !.state = new.state]
  /\ LET j == new.counterparty.channelId
         peers == channels[Other(c)] IN
     /\ j \in DOMAIN peers
     /\ peers[j].state # "INIT"
     /\ peers[j] = ExpectedPeer(peers[j].state, i, new)

LEMMA AckOpens ==
  ASSUME ChannelInv, NEW c \in Chains, NEW i \in DOMAIN channels[c], AckStep(c, i)
  PROVE  \E new \in Ends : Opens(c, i, new)
<1>1. PICK h \in client[c].heights, j \in ChannelIds, version \in AppVersions :
             ChanOpenAck(c, i, version, j, h)
  BY DEF AckStep
<1> DEFINE old == channels[c][i]
           new == [old EXCEPT !.state = "OPEN", !.version = version, !.counterparty.channelId = j]
           expected == Channel("TRYOPEN", old.counterparty.portId, old.ordering,
                               Counterparty(old.portId, i), old.hop, version)
           peer == channels[Other(c)][j]
<1>2. /\ old.state = "INIT" /\ SetChannel(c, i, new) /\ TellOpen(c, i, new)
      /\ VerifyChannelState(c, h, j, expected)
  BY <1>1 DEF ChanOpenAck, VerifyAnswer
<1>3. old \in Ends
  BY ChainTypes DEF ChannelInv
<1>4. expected.state # "INIT"
  BY DEF Channel
<1>5. /\ j \in DOMAIN channels[Other(c)] /\ peer.state # "INIT"
      /\ peer = [expected EXCEPT !.state = peer.state]
  <2>1. j \in DOMAIN channels[Other(c)] /\ j \in ChannelIds /\ Continues(expected, peer)
    <3> HIDE DEF expected
    <3> QED BY <1>2, <1>4, ProofShows
  <2> QED BY <2>1 DEF Continues
<1> HIDE DEF old, peer
<1>6. /\ new \in Ends /\ new.state = "OPEN" /\ new.counterparty.channelId = j
      /\ new.ordering = old.ordering /\ new.hop = old.hop
      /\ new.version = version /\ new.portId = old.portId
      /\ new.counterparty.portId = old.counterparty.portId
  BY <1>3 DEF Ends, States
<1>7. peer = ExpectedPeer(peer.state, i, new)
  BY <1>5, <1>6 DEF ExpectedPeer, Channel
<1> HIDE DEF new
<1>8. Opens(c, i, new)
  BY <1>2, <1>5, <1>6, <1>7 DEF Opens, old, peer
<1> QED
  BY <1>6, <1>8

LEMMA ConfirmOpens ==
  ASSUME ChannelInv, NEW c \in Chains, NEW i \in DOMAIN channels[c], ConfirmStep(c, i)
  PROVE  \E new \in Ends : Opens(c, i, new)
<1>1. PICK h \in client[c].heights : ChanOpenConfirm(c, i, h)
  BY DEF ConfirmStep
<1> DEFINE old == channels[c][i]
           new == [old EXCEPT !.state = "OPEN"]
           j == old.counterparty.channelId
           expected == ExpectedPeer("OPEN", i, old)
           peer == channels[Other(c)][j]
<1>2. /\ old.state = "TRYOPEN" /\ SetChannel(c, i, new) /\ TellOpen(c, i, new)
      /\ VerifyChannelState(c, h, j, expected)
  BY <1>1 DEF ChanOpenConfirm
<1>3. old \in Ends
  BY ChainTypes DEF ChannelInv
<1>4. expected.state # "INIT"
  BY DEF Channel, ExpectedPeer
<1>5. /\ j \in DOMAIN channels[Other(c)] /\ peer.state # "INIT" /\ j \in ChannelIds
      /\ peer = [expected EXCEPT !.state = peer.state]
  <2>1. j \in DOMAIN channels[Other(c)] /\ j \in ChannelIds /\ Continues(expected, peer)
    <3> HIDE DEF expected
    <3> QED BY <1>2, <1>4, ProofShows, SMTT(30)
  <2> QED BY <2>1 DEF Continues
<1> HIDE DEF old, peer
<1>6. /\ new \in Ends /\ new.state = "OPEN" /\ new.counterparty = old.counterparty
      /\ new.ordering = old.ordering /\ new.hop = old.hop
      /\ new.version = old.version /\ new.portId = old.portId
  BY <1>3 DEF Ends, States
<1>7. peer = ExpectedPeer(peer.state, i, new)
  BY <1>5, <1>6 DEF ExpectedPeer, Channel
<1>8. new = [old EXCEPT !.state = new.state]
  BY <1>6
<1> HIDE DEF new
<1>9. Opens(c, i, new)
  BY <1>2, <1>5, <1>6, <1>7, <1>8 DEF Opens, old, peer
<1> QED
  BY <1>6, <1>9

LEMMA OpensInv ==
  ASSUME ChannelInv, NEW c \in Chains, NEW i, NEW new, Opens(c, i, new)
  PROVE  ChannelInv'
<1>1. /\ i \in DOMAIN channels[c] /\ new \in Ends /\ SetChannel(c, i, new)
      /\ new.state = "OPEN" /\ new.counterparty.channelId # 0
      /\ new.ordering = channels[c][i].ordering /\ new.hop = channels[c][i].hop
      /\ channels[c][i].state # "INIT" => new = [channels[c][i] EXCEPT !.state = new.state]
  BY ChannelIdsCover DEF Opens
<1>2. /\ TypeOK' /\ \A d \in Chains : HeadersLast(d)'
      /\ channels'[c][i] = new
      /\ \A d \in Chains : DOMAIN channels'[d] = DOMAIN channels[d]
      /\ \A d \in Chains : \A j \in DOMAIN channels[d] :
           <<d, j>> # <<c, i>> => channels'[d][j] = channels[d][j]
      /\ \A d \in Chains : \A j \in DOMAIN channels[d] :
           channels[d][j].state \in {"OPEN", "CLOSED"} /\ PeerAgrees(d, j) =>
             /\ channels'[d][j].state \in {"OPEN", "CLOSED"}
             /\ PeerAgrees(d, j)'
             /\ Joint(d, j, channels'[d][j]) = Joint(d, j, channels[d][j])
  BY <1>1, SetKeeps, SMTT(30)
<1>3. /\ OpenEndsAgree /\ ToldAgree
      /\ \A d \in Chains : \A j \in DOMAIN channels[d] :
           /\ Carried(channels[d][j])
           /\ channels[d][j].state = "OPEN" => Joint(d, j, channels[d][j]) \in told
  BY DEF ChannelInv
<1>4. told' = told \cup {Joint(c, i, new)}
  BY DEF Opens, TellOpen
<1>5. PeerAgrees(c, i)'
  <2>1. channels'[Other(c)] = channels[Other(c)]
    BY OtherChain DEF Opens, SetChannel, ChannelInv, TypeOK
  <2> QED BY <1>2, <2>1 DEF Opens, PeerAgrees
\* The end that answered, or that was answered, knows this one.
<1>6. new.ordering \in Connections[new.hop]
  <2> DEFINE peer == channels[Other(c)][new.counterparty.channelId]
  <2>1. new.counterparty.channelId \in DOMAIN channels[Other(c)]
        /\ peer = ExpectedPeer(peer.state, i, new)
    BY DEF Opens
  <2>2. Carried(peer)
    BY <1>3, <2>1, OtherChain
  <2>3. i # 0
    BY <1>1, ChainTypes, ChannelIdsCover DEF ChannelInv
  <2> HIDE DEF peer
  <2>4. peer.counterparty.channelId = i /\ peer.ordering = new.ordering /\ peer.hop = new.hop
    BY <2>1, SMTT(30) DEF ExpectedPeer, Channel, Counterparty
  <2> QED BY <2>2, <2>3, <2>4 DEF Carried
<1>7. OpenEndsAgree'
  <2> SUFFICES ASSUME NEW d \in Chains, NEW j \in DOMAIN channels'[d],
                      channels'[d][j].state = "OPEN"
               PROVE  /\ channels'[d][j].ordering \in Connections[channels'[d][j].hop]
                      /\ PeerAgrees(d, j)'
    BY DEF OpenEndsAgree
  <2>1. CASE <<d, j>> = <<c, i>>
    BY <1>2, <1>5, <1>6, <2>1
  <2>2. CASE <<d, j>> # <<c, i>>
    BY <1>2, <1>3, <2>2 DEF OpenEndsAgree
  <2> QED BY <2>1, <2>2
<1>8. ToldAgree'
  <2> SUFFICES ASSUME NEW t \in told'
               PROVE  \E d \in Chains : \E j \in DOMAIN channels'[d] :
                        /\ channels'[d][j].state \in {"OPEN", "CLOSED"}
                        /\ t = Joint(d, j, channels'[d][j])
                        /\ PeerAgrees(d, j)'
    BY DEF ToldAgree
  <2>1. CASE t \in told
    BY <1>2, <1>3, <2>1 DEF ToldAgree
  <2>2. CASE t = Joint(c, i, new)
    BY <1>1, <1>2, <1>5, <2>2
  <2> QED BY <1>4, <2>1, <2>2
<1>9. ASSUME NEW d \in Chains, NEW j \in DOMAIN channels'[d]
      PROVE  /\ Carried(channels'[d][j])
             /\ channels'[d][j].state = "OPEN" => Joint(d, j, channels'[d][j]) \in told'
  <2>1. CASE <<d, j>> = <<c, i>>
    BY <1>2, <1>4, <1>6, <2>1 DEF Carried
  <2>2. CASE <<d, j>> # <<c, i>>
    BY <1>2, <1>3, <1>4, <2>2
  <2> QED BY <2>1, <2>2
<1> QED
  BY <1>2, <1>7, <1>8, <1>9 DEF ChannelInv

\* A closing end is otherwise what it was.
LEMMA CloseInv ==
  ASSUME ChannelInv, NEW c \in Chains, NEW i \in DOMAIN channels[c],
         SetChannel(c, i, [channels[c][i] EXCEPT !.state = "CLOSED"]), UNCHANGED told
  PROVE  ChannelInv'
<1> DEFINE new == [channels[c][i] EXCEPT !.state = "CLOSED"]
<1>1. channels[c][i] \in Ends
  BY ChainTypes DEF ChannelInv
<1>2. /\ new \in Ends /\ new.state = "CLOSED"
      /\ new.ordering = channels[c][i].ordering /\ new.hop = channels[c][i].hop
      /\ new.counterparty = channels[c][i].counterparty
      /\ new = [channels[c][i] EXCEPT !.state = new.state]
  BY <1>1 DEF Ends, States
<1> HIDE DEF new
<1>3. SetChannel(c, i, new)
  BY DEF new
<1>4. /\ TypeOK' /\ \A d \in Chains : HeadersLast(d)'
      /\ channels'[c][i] = new
      /\ \A d \in Chains : DOMAIN channels'[d] = DOMAIN channels[d]
      /\ \A d \in Chains : \A j \in DOMAIN channels[d] :
           <<d, j>> # <<c, i>> => channels'[d][j] = channels[d][j]
      /\ \A d \in Chains : \A j \in DOMAIN channels[d] :
           channels[d][j].state \in {"OPEN", "CLOSED"} /\ PeerAgrees(d, j) =>
             /\ channels'[d][j].state \in {"OPEN", "CLOSED"}
             /\ PeerAgrees(d, j)'
             /\ Joint(d, j, channels'[d][j]) = Joint(d, j, channels[d][j])
  BY <1>2, <1>3, SetKeeps, SMTT(30)
<1>5. /\ OpenEndsAgree /\ ToldAgree
      /\ \A d \in Chains : \A j \in DOMAIN channels[d] :
           /\ Carried(channels[d][j])
           /\ channels[d][j].state = "OPEN" => Joint(d, j, channels[d][j]) \in told
  BY DEF ChannelInv
<1>6. OpenEndsAgree'
  BY <1>2, <1>4, <1>5, SMTT(30) DEF OpenEndsAgree
<1>7. ToldAgree'
  BY <1>4, <1>5 DEF ToldAgree
<1>8. ASSUME NEW d \in Chains, NEW j \in DOMAIN channels'[d]
      PROVE  /\ Carried(channels'[d][j])
             /\ channels'[d][j].state = "OPEN" => Joint(d, j, channels'[d][j]) \in told'
  <2>1. CASE <<d, j>> = <<c, i>>
    <3>1. Carried(new)
      BY <1>2, <1>5 DEF Carried
    <3> QED BY <1>2, <1>4, <2>1, <3>1
  <2>2. CASE <<d, j>> # <<c, i>>
    BY <1>4, <1>5, <2>2
  <2> QED BY <2>1, <2>2
<1> QED
  BY <1>4, <1>6, <1>7, <1>8 DEF ChannelInv

-----------------------------------------------------------------------------

\* A step of the handshakes by what it does: an end opens, or nobody is told anything.
LEMMA NextEffect ==
  ASSUME ChannelInv, Next
  PROVE  /\ ChannelInv'
         /\ \/ UNCHANGED told
            \/ \E c \in Chains : \E i \in DOMAIN channels[c], new \in Ends : Opens(c, i, new)
<1>1. PICK c \in Chains :
        \/ LayerStep(c) \/ InitStep(c) \/ TryStep(c)
        \/ \E i \in DOMAIN channels[c] :
             AckStep(c, i) \/ ConfirmStep(c, i) \/ ChanCloseInit(c, i) \/ CloseConfirmStep(c, i)
  BY DEF Next
<1>2. CASE LayerStep(c)
  <2>1. UNCHANGED told
    BY <1>2 DEF LayerStep, NextBlock, LoseClient, UpdateClient, ConnectionOpens
  <2> QED BY <1>2, <2>1, LayerInv
<1>3. CASE InitStep(c)
  <2>1. UNCHANGED told
    BY <1>3 DEF InitStep, ChanOpenInit, AddChannel
  <2> QED BY <1>3, <2>1, InitStepInv
<1>4. CASE TryStep(c)
  <2>1. UNCHANGED told
    BY <1>4 DEF TryStep, ChanOpenTry, AddChannel
  <2> QED BY <1>4, <2>1, TryStepInv
<1>5. ASSUME NEW i \in DOMAIN channels[c], AckStep(c, i) \/ ConfirmStep(c, i)
      PROVE  ChannelInv' /\ \E new \in Ends : Opens(c, i, new)
  <2>1. PICK new \in Ends : Opens(c, i, new)
    BY <1>5, AckOpens, ConfirmOpens
  <2> QED BY <2>1, OpensInv
<1>6. ASSUME NEW i \in DOMAIN channels[c], ChanCloseInit(c, i) \/ CloseConfirmStep(c, i)
      PROVE  ChannelInv' /\ UNCHANGED told
  <2>1. /\ SetChannel(c, i, [channels[c][i] EXCEPT !.state = "CLOSED"])
        /\ UNCHANGED told
    BY <1>6 DEF ChanCloseInit, CloseConfirmStep, ChanCloseConfirm
  <2> QED BY <2>1, CloseInv
<1> QED
  BY <1>1, <1>2, <1>3, <1>4, <1>5, <1>6

\* ChannelInv is an inductive invariant: open ends of channels agree with their peers,
\* what headers show past INIT lasts and what applications were told stays true, for
\* any numbers of channels, answers to one INIT, connections and client failures.
THEOREM ChannelInvariance == Spec => []ChannelInv
<1>1. ChannelInv /\ [Next]_vars => ChannelInv'
  <2>1. CASE Next
    BY <2>1, NextEffect
  <2>2. CASE UNCHANGED vars
    <3> SUFFICES ASSUME ChannelInv PROVE ChannelInv'
      BY <2>2
    <3>1. TypeOK'
      BY <2>2 DEF vars, ChannelInv, TypeOK, Height
    <3> QED BY <2>2, <3>1, UnchangedInv DEF vars
  <2> QED BY <2>1, <2>2
<1> QED
  BY InitInv, <1>1, PTL DEF Spec

\* An end that opens is joined as the abstract agreement wants it: it was not joined, no
\* other end is joined to its peer, and if the peer is joined it is to this end.
LEMMA OpensJoins ==
  ASSUME ChannelInv, NEW c \in Chains, NEW i \in DOMAIN channels[c], NEW new \in Ends,
         Opens(c, i, new)
  PROVE  Agreed!Next
<1> DEFINE joint == Joint(c, i, new)
           j == new.counterparty.channelId
           peer == channels[Other(c)][j]
<1>1. /\ channels[c][i].state \in {"INIT", "TRYOPEN"} /\ j \in ChannelIds
      /\ peer = ExpectedPeer(peer.state, i, new)
      /\ told' = told \cup {joint}
  BY DEF Opens, TellOpen
<1>2. i \in ChannelIds /\ TypeOK /\ ToldAgree
  BY ChainTypes DEF ChannelInv
<1>3. /\ joint.end = <<c, i>> /\ joint.with = <<Other(c), j>>
      /\ joint = [end |-> <<c, i>>, with |-> <<Other(c), j>>,
                  terms |-> [ordering |-> new.ordering, version |-> new.version, hop |-> new.hop]]
  BY DEF Joint
<1>4. joint \in Agreed!Joints
  <2>1. new.ordering \in Orderings /\ new.version \in AppVersions /\ new.hop \in ConnectionIds
    BY DEF Ends
  <2> QED BY <1>1, <1>2, <1>3, <2>1, OtherChain, SMTT(30) DEF Agreed!Joints
<1>5. /\ peer.counterparty.channelId = i /\ peer.ordering = new.ordering
      /\ peer.version = new.version /\ peer.hop = new.hop
  BY <1>1, SMTT(30) DEF ExpectedPeer, Channel, Counterparty
<1> HIDE DEF joint
<1>6. ASSUME NEW t \in told
      PROVE  /\ t.end # joint.end
             /\ t.with # joint.with
             /\ t.end = joint.with => t = Agreed!OtherSide(joint)
  <2>1. PICK d \in Chains : \E n \in DOMAIN channels[d] :
               /\ channels[d][n].state \in {"OPEN", "CLOSED"}
               /\ t = Joint(d, n, channels[d][n])
               /\ PeerAgrees(d, n)
    BY <1>2 DEF ToldAgree
  <2>2. PICK n \in DOMAIN channels[d] :
               /\ channels[d][n].state \in {"OPEN", "CLOSED"}
               /\ t = Joint(d, n, channels[d][n])
               /\ PeerAgrees(d, n)
    BY <2>1
  <2> DEFINE end == channels[d][n]
  <2>3. t = [end |-> <<d, n>>, with |-> <<Other(d), end.counterparty.channelId>>,
             terms |-> [ordering |-> end.ordering, version |-> end.version, hop |-> end.hop]]
    BY <2>2 DEF Joint
  <2>4. <<d, n>> # <<c, i>>
    BY <1>1, <2>2
  <2>5. ASSUME t.with = joint.with PROVE FALSE
    <3>1. Other(d) = Other(c) /\ end.counterparty.channelId = j
      BY <1>3, <2>3, <2>5
    <3>2. d = c
      BY <3>1, OtherChain
    <3>3. peer = ExpectedPeer(peer.state, n, end)
      BY <2>2, <3>1 DEF PeerAgrees
    <3>4. peer.counterparty.channelId = n
      BY <3>3, SMTT(30) DEF ExpectedPeer, Channel, Counterparty
    <3> QED BY <1>5, <2>4, <3>2, <3>4
  <2>6. ASSUME t.end = joint.with
        PROVE  t = Agreed!OtherSide(joint)
    <3>1. d = Other(c) /\ n = j
      BY <1>3, <2>3, <2>6
    <3>2. Other(d) = c /\ end = peer
      BY <3>1, OtherChain
    <3>4. end.counterparty.channelId = i
      BY <1>5, <3>2
    <3>5. t.with = joint.end
      BY <1>3, <2>3, <3>2, <3>4
    <3>6. t.terms = joint.terms
      BY <1>3, <1>5, <2>3, <3>2
    <3>7. t = [end |-> t.end, with |-> t.with, terms |-> t.terms]
      BY <2>3
    <3> QED BY <2>6, <3>5, <3>6, <3>7 DEF Agreed!OtherSide
  <2> QED BY <1>3, <2>3, <2>4, <2>5, <2>6
<1>7. told' # told
  BY <1>1, <1>6
<1> QED
  BY <1>1, <1>4, <1>6, <1>7 DEF Agreed!Next, Agreed!Join

\* The channel handshakes implement the abstract agreement, step by step: the ends that
\* ChanOpenAck and ChanOpenConfirm open are joined one to one, on the same terms and for
\* good, whoever answers an INIT, how often, and whichever end closes.
THEOREM ChannelsAgree == Spec => HandshakeAgrees
<1>1. Init => Agreed!Init
  BY DEF Init, Agreed!Init
<1>2. ChannelInv /\ [Next]_vars => [Agreed!Next]_told
  BY NextEffect, OpensJoins DEF vars
<1> QED
  BY <1>1, <1>2, ChannelInvariance, PTL DEF Spec, HandshakeAgrees, Agreed!Spec

=============================================================================
