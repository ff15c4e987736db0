------------------------------ MODULE MCOAuthFlow ------------------------------
(* TLC instances of OAuthFlow: two subjects with one address, which is      *)
(* verified for x and for y nobody says.                                   *)
EXTENDS OAuthFlow, TLC

CONSTANTS google, facebook, microsoft, x, y, e1, e2

MCEmailOf    == [s \in Subjects |-> e1]
MCVerifiedOf == [s \in Subjects |-> IF s = y THEN "absent" ELSE "true"]

Ids == Permutations(UserIds) \cup Permutations(States) \cup Permutations(Codes)
       \cup Permutations(Slots) \cup Permutations(Browsers)
================================================================================
