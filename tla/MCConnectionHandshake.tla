------------------------ MODULE MCConnectionHandshake -----------------------
(* Clients, versions and bounds for model checking ConnectionHandshake. *)
EXTENDS ConnectionHandshake, TLC

Client(chainId, follows) == [chainId |-> chainId, follows |-> follows]

\* A also has a client that is only named for B, and holds another chain's headers.
MixedClients ==
  (A :> <<Client(B, B), Client(B, Elsewhere)>>) @@
  (B :> <<Client(A, A)>>)

\* Chains on different releases: A knows fewer features of the newer version.
Releases ==
  (A :> <<Version(2, {"UNORDERED"}), DefaultIBCVersion>>) @@
  (B :> <<Version(2, SupportedOrderings), DefaultIBCVersion>>)

AnyOffer == {NoVersion}

\* Two ends of B may answer the one of A.
Connections12 == (A :> 1) @@ (B :> 2)

\* A handshake that A starts needs these headers of B and of A at least.
Heights53 == (A :> 5) @@ (B :> 3)
FewHeaders == (A :> {2, 4}) @@ (B :> {3})
=============================================================================
