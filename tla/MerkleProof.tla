---------------------------- MODULE MerkleProof -----------------------------
(***************************************************************************)
(* Chained Merkle proofs (core/23-commitment).  A chain commits to a tree  *)
(* of its stores, whose leaves are the roots of the stores' own trees.  A  *)
(* proof is a sequence, from the lowest tree to the highest; the keys of a *)
(* path run the other way.                                                 *)
(*                                                                         *)
(* The ICS 23 library and its hashes are external: a root stands for the   *)
(* content of its tree, and there are proofs of just what is in a tree and *)
(* of what is not.  No root can be calculated from a proof of an empty     *)
(* tree.                                                                   *)
(***************************************************************************)
EXTENDS Integers, Sequences

\* A tree is a function from the keys in it to leaves; equal trees have equal roots.
Trees(keys, leaves) == UNION {[present -> leaves] : present \in SUBSET keys}

\* The proofs of what is in a tree, and of what is not.
ProofsOf(trees, keys) ==
  {p \in [exists : BOOLEAN, tree : trees, key : keys] :
     p.exists <=> p.key \in DOMAIN p.tree}

\* Calculate returns the tree of a proof; it fails if the tree is empty.
Calculates(p) == DOMAIN p.tree # {}

\* ics23.VerifyMembership and VerifyNonMembership.
ProvesLeaf(p, tree, key, value) ==
  p.exists /\ p.tree = tree /\ p.key = key /\ p.tree[key] = value

ProvesAbsence(p, tree, key) == ~p.exists /\ p.tree = tree /\ p.key = key

-----------------------------------------------------------------------------

\* A value is a string of bytes; the code refuses to look for one without any.
EmptyValue == <<>>

\* Specifications of the two kinds of tree.
SpecCount == 2

ValidateVerificationArgs(proofs) == Len(proofs) = SpecCount

\* The value that the i-th proof has to commit to: what the chain starts with, and
\* then the root that the proof before it calculated.
Chained(list, leaf, index, i) == IF i = index THEN leaf ELSE list[i - 1].tree

\* From the index-th proof on, each proof commits to the one before it, and the
\* last one calculates the root.
VerifyChainedMembershipProof(root, proofs, path, value, index) ==
  /\ \A i \in index..Len(proofs) :
       /\ Calculates(proofs[i])
       /\ ProvesLeaf(proofs[i], proofs[i].tree, path[Len(path) - i + 1],
                     Chained(proofs, value, index, i))
  /\ root = Chained(proofs, value, index, Len(proofs) + 1)

VerifyMembership(proofs, root, path, value) ==
  /\ ValidateVerificationArgs(proofs)
  /\ Len(path) = SpecCount
  /\ value # EmptyValue
  /\ VerifyChainedMembershipProof(root, proofs, path, value, 1)

\* The key is absent from the lowest tree, and that tree is in the one above it.
VerifyNonMembership(proofs, root, path) ==
  /\ ValidateVerificationArgs(proofs)
  /\ Len(path) = SpecCount
  /\ ~proofs[1].exists
  /\ Calculates(proofs[1])
  /\ ProvesAbsence(proofs[1], proofs[1].tree, path[Len(path)])
  /\ VerifyChainedMembershipProof(root, proofs, path, proofs[1].tree, 2)

-----------------------------------------------------------------------------
(* What a verification shows, for stores of any keys and values. *)

StoreProofs(Keys, Values) == ProofsOf(Trees(Keys, Values), Keys)

UpperProofs(Stores, Keys, Values) == ProofsOf(Trees(Stores, Trees(Keys, Values)), Stores)

\* What a node answers when asked for a path in a store it has.
HonestProofs(root, path) ==
  <<[exists |-> IF path[2] \in DOMAIN root[path[1]] THEN TRUE ELSE FALSE,
     tree |-> root[path[1]], key |-> path[2]],
    [exists |-> TRUE, tree |-> root, key |-> path[1]]>>
=============================================================================
