-------------------------------- MODULE Saga --------------------------------
(***************************************************************************)
(* What the orchestrator promises, without saying how.  The matrix and     *)
(* flushline contexts publish events.  Each published event has its effect *)
(* on the contexts once.  An account owns exactly one free duplicate       *)
(* account from the moment both a "matrix cycled" and a "flushline         *)
(* graduated" event of it have had their effect, and none before.          *)
(*                                                                         *)
(* There is no flag, no inbox, no transaction and no daemon here: the      *)
(* number of free accounts is a function of the set of consumed events.    *)
(***************************************************************************)
EXTENDS Naturals

CONSTANTS Accounts, MatrixEvents, FlushlineEvents, AccountOf

VARIABLES published,      \* events the contexts have committed to an outbox
          effects,        \* per event, how often its effect is in the database
          freeAccounts    \* per account, the duplicates spawned for it

SagaVars == <<published, effects, freeAccounts>>

AllEvents == MatrixEvents \cup FlushlineEvents

\* The criteria that account a meets by the events in `evs`.
CycledBy(evs, a)    == \E m \in MatrixEvents : m \in evs /\ AccountOf[m] = a
GraduatedBy(evs, a) == \E f \in FlushlineEvents : f \in evs /\ AccountOf[f] = a
QualifiedBy(evs, a) == CycledBy(evs, a) /\ GraduatedBy(evs, a)

EarnedBy(evs) == [a \in Accounts |-> IF QualifiedBy(evs, a) THEN 1 ELSE 0]

Consumed(eff) == {e \in AllEvents : eff[e] > 0}

SagaInit == /\ published = {}
            /\ effects = [e \in AllEvents |-> 0]
            /\ freeAccounts = [a \in Accounts |-> 0]

\* The contexts publish some events.
SagaPublish == /\ published' \in SUBSET AllEvents
               /\ published \subseteq published'
               /\ UNCHANGED <<effects, freeAccounts>>

\* A published event takes effect, which may publish further events.
SagaConsume == /\ \E e \in published :
                    /\ effects[e] = 0
                    /\ effects' = [effects EXCEPT ![e] = 1]
               /\ freeAccounts' = EarnedBy(Consumed(effects'))
               /\ published' \in SUBSET AllEvents
               /\ published \subseteq published'

SagaNext == SagaPublish \/ SagaConsume

SagaSpec == SagaInit /\ [][SagaNext]_SagaVars
=============================================================================
