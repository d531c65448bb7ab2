-------------------------- MODULE MCRedundantRelay --------------------------
(* Transactions for model checking RedundantRelay. *)
EXTENDS RedundantRelay

MixedTxs ==
  {<<"update", "p">>, <<"update", "p", "q">>, <<"q">>, <<"q", "p">>, <<"update">>, <<"p", "p">>,
   <<"update", "p", "other">>, <<"q", "other">>, <<"other", "p">>}
=============================================================================
