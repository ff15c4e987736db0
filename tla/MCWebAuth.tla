------------------------------ MODULE MCWebAuth ------------------------------
(* TLC instances of WebAuth.                                               *)
EXTENDS WebAuth, TLC

Ids == Permutations(UserIds) \cup Permutations(Emails) \cup Permutations(Links)
       \cup Permutations(Challenges) \cup Permutations(States)
       \cup Permutations(Slots) \cup Permutations(Processes)
==============================================================================
