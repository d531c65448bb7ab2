------------------------ MODULE MCInterchainAccounts ------------------------
(* Two owners for model checking InterchainAccounts: one opens a second       *)
(* channel when the first has closed, beside another that opens one.          *)
EXTENDS InterchainAccounts

Owners == {"icacontroller-0", "icacontroller-1"}

FirstOr(x, y) == [port \in Owners |-> IF port = "icacontroller-0" THEN x ELSE y]

TwoAndOne == FirstOr(2, 1)

TwoAndNone == FirstOr(2, 0)

AnyAndDisabled == FirstOr({"enabled", "disabled"}, {"disabled"})
=============================================================================
