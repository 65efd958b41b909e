----------------------------- MODULE MCEcOrder -----------------------------
(* Model-checking instances of EcOrder. *)
EXTENDS EcOrder

TwoAttempts == <<"first", "second">>
OneAttempt == <<"first">>
=============================================================================
