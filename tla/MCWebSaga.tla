------------------------------ MODULE MCWebSaga ------------------------------
(* TLC instances of WebSaga: the seeded sponsor d, and accounts to be made. *)
EXTENDS WebSaga, TLC

CONSTANTS d, a1, a2, a3

MCAccounts == {d, a1, a2, a3}
MCPool     == <<d>>
NewIds     == Permutations({a1, a2, a3})
==============================================================================
