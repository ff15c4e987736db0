---- MODULE MCCoordinator ----
(***************************************************************************)
(* Instances of Coordinator for TLC.  Event numbers are the created_at     *)
(* order.  Account a1 cycles twice and graduates twice, account a2 once.   *)
(* A .cfg picks the events it wants.                                       *)
(***************************************************************************)
EXTENDS Coordinator, TLC

CONSTANTS a1, a2

MCAccountOf ==
  (1 :> a1) @@ (2 :> a1) @@ (3 :> a2) @@ (4 :> a1) @@ (5 :> a2) @@ (6 :> a1)

\* Only for the events of the instance.
MCOwners == [e \in Events |-> MCAccountOf[e]]

WorkerSymmetry == Permutations(Workers)
====
