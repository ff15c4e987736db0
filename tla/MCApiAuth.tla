------------------------------- MODULE MCApiAuth -------------------------------
(* TLC instances of ApiAuth.                                                *)
EXTENDS ApiAuth, TLC

Ids == Permutations(Slots) \cup Permutations(Emails) \cup Permutations(Links)
       \cup Permutations(Sessions) \cup Permutations(Challenges)
================================================================================
