------------------------------ MODULE Versions ------------------------------
(***************************************************************************)
(* Version negotiation of the connection handshake (03-connection/types/   *)
(* version.go).  A version is an identifier and a set of features, a chain *)
(* offers a sequence of versions, the latest first.  The features of the   *)
(* code are the channel orderings the connection will carry.               *)
(***************************************************************************)
EXTENDS Integers, Sequences, FiniteSetsExt

Version(identifier, features) == [identifier |-> identifier, features |-> features]

SupportedOrderings == {"ORDERED", "UNORDERED"}

\* A version of the code's kind.
AnyVersion == [identifier : Nat, features : SUBSET SupportedOrderings]

DefaultIBCVersion == Version(1, SupportedOrderings)

\* Identifiers whose feature set may be empty.
AllowNilFeatureSet == {}

NoVersion == Version(0, {})

VerifyProposedVersion(supported, proposed) ==
  /\ proposed.identifier = supported.identifier
  /\ proposed.features = {} => proposed.identifier \in AllowNilFeatureSet
  /\ proposed.features \subseteq supported.features

VerifySupportedFeature(version, feature) == feature \in version.features

\* GetCompatibleVersions gives a set in descending order: no identifier comes twice.
UniqueIdentifiers(versions) ==
  \A i, j \in DOMAIN versions : versions[i].identifier = versions[j].identifier => i = j

\* Positions of the versions with the identifier of version.
Matches(version, versions) ==
  {i \in DOMAIN versions : versions[i].identifier = version.identifier}

\* The first version with the identifier of version, NoVersion if there is none.
FindSupportedVersion(version, versions) ==
  LET matches == Matches(version, versions) IN
  IF matches = {} THEN NoVersion ELSE versions[Min(matches)]

IsSupportedVersion(supportedVersions, proposed) ==
  /\ Matches(proposed, supportedVersions) # {}
  /\ VerifyProposedVersion(FindSupportedVersion(proposed, supportedVersions), proposed)

GetFeatureSetIntersection(source, counterparty) == source \cap counterparty

\* What supported, a version of ours, becomes when it meets the counterparty's.
Negotiated(supported, counterpartyVersions) ==
  Version(supported.identifier,
          GetFeatureSetIntersection(supported.features,
            FindSupportedVersion(supported, counterpartyVersions).features))

\* Our versions that PickVersion does not pass over.
Candidates(supportedVersions, counterpartyVersions) ==
  {i \in DOMAIN supportedVersions :
     /\ Matches(supportedVersions[i], counterpartyVersions) # {}
     /\ \/ Negotiated(supportedVersions[i], counterpartyVersions).features # {}
        \/ supportedVersions[i].identifier \in AllowNilFeatureSet}

\* The version both chains will use, NoVersion if they have none in common.
PickVersion(supportedVersions, counterpartyVersions) ==
  LET candidates == Candidates(supportedVersions, counterpartyVersions) IN
  IF candidates = {}
  THEN NoVersion
  ELSE Negotiated(supportedVersions[Min(candidates)], counterpartyVersions)
=============================================================================
