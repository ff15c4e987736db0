-------------------------- MODULE CoordinatorProofs --------------------------
(***************************************************************************)
(* Proofs about Coordinator, for every set of daemons, accounts and        *)
(* events, every batch limit and every number of faults.                   *)
(***************************************************************************)
EXTENDS Coordinator, TLAPS

\* An event sets one flag of a row and leaves the others.
LEMMA WithEventFlags ==
  ASSUME NEW s \in CoordinatedState, NEW e \in Events
  PROVE  /\ WithEvent(s, e) \in CoordinatedState
         /\ WithEvent(s, e).spawned = s.spawned
         /\ WithEvent(s, e).cycled = (s.cycled \/ e \in MatrixEvents)
         /\ WithEvent(s, e).graduated = (s.graduated \/ e \in FlushlineEvents)
<1>1. CASE e \in MatrixEvents
  BY <1>1, EventsAssumption DEF WithEvent, CoordinatedState
<1>2. CASE e \notin MatrixEvents
  BY <1>2 DEF WithEvent, CoordinatedState, Events
<1>3. QED
  BY <1>1, <1>2

LEMMA ConstantTypes ==
  /\ NewState \in CoordinatedState
  /\ SpawnedState \in CoordinatedState
  /\ NoEvent \notin Events
  /\ "poll" \in PCs /\ "next" \in PCs /\ "mark" \in PCs /\ "down" \in PCs
  /\ InTx \subseteq PCs
  /\ \A q \in Queues : OtherQueue(q) \in Queues
BY EventsAssumption
   DEF NewState, SpawnedState, CoordinatedState, NoEvent, Events, PCs, InTx, Queues, OtherQueue

-----------------------------------------------------------------------------
(* Types.  BusyWithRow is needed for the rows that are looked up.          *)

TypeInv == TypeOK /\ BusyWithRow

LEMMA TypeInit == Init => TypeInv
BY LimitsAssumption, ConstantTypes
   DEF Init, TypeInv, TypeOK, BusyWithRow, Queues, InTx

LEMMA TypeCommitTables ==
  ASSUME TypeInv, NEW w \in Workers, pc[w] = "commit", CommitTables(w)
  PROVE  /\ outbox' \subseteq Events /\ processed' \subseteq Events /\ inbox' \subseteq Events
         /\ coord' \in [Accounts -> CoordinatedState]
         /\ applied' \in [Events -> Nat]
         /\ spawns' \in [Accounts -> Nat]
<1>1. event[w] \in Events /\ AccountOf[event[w]] \in Accounts
  BY EventsAssumption DEF TypeInv, BusyWithRow, InTx
<1>2. QED
  BY <1>1 DEF TypeInv, TypeOK, CommitTables, Events

LEMMA TypeStep == TypeInv /\ [Next]_vars => TypeInv'
<1> SUFFICES ASSUME TypeInv, [Next]_vars PROVE TypeInv'
  OBVIOUS
<1> USE DEF TypeInv, TypeOK, BusyWithRow
<1>1. ASSUME NEW e \in Events, Publish(e) PROVE TypeInv'
  BY <1>1 DEF Publish, tx
<1>2. CASE PoolChanges
  BY <1>2 DEF PoolChanges, tables, tx
<1>3. CASE UNCHANGED vars
  BY <1>3 DEF vars, tables, tx
<1>4. ASSUME NEW w \in Workers, Poll(w) PROVE TypeInv'
  BY <1>4, ConstantTypes DEF Poll, tables, tx, Oldest, Unprocessed, InTx
<1>5. ASSUME NEW w \in Workers, EndBatch(w) PROVE TypeInv'
  BY <1>5, ConstantTypes DEF EndBatch, tables, tx, InTx
<1>6. ASSUME NEW w \in Workers, Mark(w) PROVE TypeInv'
  BY <1>6, ConstantTypes DEF Mark, tx, InTx
<1>7. ASSUME NEW w \in Workers, NEW e \in Events, ConsumeDuplicate(w, e) PROVE TypeInv'
  BY <1>7, ConstantTypes DEF ConsumeDuplicate, tables, tx, InTx
<1>8. ASSUME NEW w \in Workers, NEW e \in Events, Consume(w, e) PROVE TypeInv'
  BY <1>8, ConstantTypes DEF Consume, tables, tx, InTx
<1>9. ASSUME NEW w \in Workers, Read(w) PROVE TypeInv'
  <2>1. event[w] \in Events /\ coord[AccountOf[event[w]]] \in CoordinatedState
    BY <1>9, EventsAssumption DEF Read, InTx
  <2>2. WithEvent(coord[AccountOf[event[w]]], event[w]) \in CoordinatedState
    BY <2>1, WithEventFlags
  <2>3. QED
    BY <1>9, <2>1, <2>2, ConstantTypes DEF Read, tables, InTx
<1>10. ASSUME NEW w \in Workers, Forward(w) PROVE TypeInv'
  BY <1>10, ConstantTypes DEF Forward, tables, InTx, Unwritten
<1>11. ASSUME NEW w \in Workers, Save(w) PROVE TypeInv'
  BY <1>11, ConstantTypes DEF Save, tables, tx, InTx
<1>12. ASSUME NEW w \in Workers, SpawnNothing(w) PROVE TypeInv'
  BY <1>12, ConstantTypes DEF SpawnNothing, tables, tx, InTx
<1>13. ASSUME NEW w \in Workers, SpawnFreeAccount(w) PROVE TypeInv'
  BY <1>13, ConstantTypes DEF SpawnFreeAccount, tables, InTx, Unwritten
<1>14. ASSUME NEW w \in Workers, SpawnFails(w) PROVE TypeInv'
  BY <1>14, ConstantTypes DEF SpawnFails, HandlerFails, EndTx, tables, InTx
<1>15. ASSUME NEW w \in Workers, Commit(w) PROVE TypeInv'
  <2>1. pc[w] = "commit" /\ CommitTables(w) /\ event[w] \in Events
    BY <1>15 DEF Commit, InTx
  <2>2. QED
    BY <1>15, <2>1, TypeCommitTables, ConstantTypes DEF Commit, EndTx, InTx
<1>16. ASSUME NEW w \in Workers, StatementFails(w) PROVE TypeInv'
  BY <1>16, ConstantTypes, LimitsAssumption
     DEF StatementFails, HandlerFails, EndTx, Fault, tables, InTx
<1>17. ASSUME NEW w \in Workers, CommitUnacknowledged(w) PROVE TypeInv'
  <2>1. pc[w] = "commit" /\ CommitTables(w)
    BY <1>17 DEF CommitUnacknowledged
  <2>2. QED
    BY <1>17, <2>1, TypeCommitTables, ConstantTypes, LimitsAssumption
       DEF CommitUnacknowledged, HandlerFails, EndTx, Fault, InTx
<1>18. ASSUME NEW w \in Workers, PollOrMarkFails(w) PROVE TypeInv'
  BY <1>18, ConstantTypes, LimitsAssumption
     DEF PollOrMarkFails, Fault, tables, tx, InTx
<1>19. ASSUME NEW w \in Workers, Crash(w) PROVE TypeInv'
  BY <1>19, ConstantTypes, LimitsAssumption DEF Crash, EndTx, Fault, tables, InTx
<1>20. ASSUME NEW w \in Workers, Restart(w) PROVE TypeInv'
  BY <1>20, ConstantTypes DEF Restart, tables, tx, InTx, Queues
<1>21. QED
  BY <1>1, <1>2, <1>3, <1>4, <1>5, <1>6, <1>7, <1>8, <1>9, <1>10, <1>11, <1>12, <1>13,
     <1>14, <1>15, <1>16, <1>17, <1>18, <1>19, <1>20
     DEF Next, Step, Fail

\* Every variable keeps its type (the row types of the migrations).
THEOREM TypeCorrect == Spec => []TypeOK
<1>1. TypeInv => TypeOK
  BY DEF TypeInv
<1>2. QED
  BY <1>1, TypeInit, TypeStep, PTL DEF Spec

-----------------------------------------------------------------------------
(* The order of outbox, inbox log and processed flags, and the exclusion   *)
(* the inbox log's key enforces between open transactions.                 *)

OrderInv == TxIsFresh /\ RowsInOrder

LEMMA OrderInit == Init => OrderInv
BY DEF Init, OrderInv, TxIsFresh, RowsInOrder, InTx

LEMMA OrderStep == TypeInv /\ OrderInv /\ [Next]_vars => OrderInv'
<1> SUFFICES ASSUME TypeInv, OrderInv, [Next]_vars PROVE OrderInv'
  OBVIOUS
<1> USE DEF TypeInv, TypeOK, BusyWithRow, OrderInv, TxIsFresh, RowsInOrder, InTx
<1>1. ASSUME NEW e \in Events, Publish(e) PROVE OrderInv'
  BY <1>1 DEF Publish, tx
<1>2. CASE PoolChanges
  BY <1>2 DEF PoolChanges, tables, tx
<1>3. CASE UNCHANGED vars
  BY <1>3 DEF vars, tables, tx
<1>4. ASSUME NEW w \in Workers, Poll(w) PROVE OrderInv'
  BY <1>4 DEF Poll, tables, tx, Oldest, Unprocessed
<1>5. ASSUME NEW w \in Workers, EndBatch(w) PROVE OrderInv'
  BY <1>5 DEF EndBatch, tables, tx
<1>6. ASSUME NEW w \in Workers, Mark(w) PROVE OrderInv'
  BY <1>6 DEF Mark, tx
<1>7. ASSUME NEW w \in Workers, NEW e \in Events, ConsumeDuplicate(w, e) PROVE OrderInv'
  BY <1>7 DEF ConsumeDuplicate, tables, tx, IsFirst
<1>8. ASSUME NEW w \in Workers, NEW e \in Events, Consume(w, e) PROVE OrderInv'
  BY <1>8 DEF Consume, tables, tx, IsFirst, InboxFree, InsertedBy
<1>9. ASSUME NEW w \in Workers, Read(w) PROVE OrderInv'
  BY <1>9 DEF Read, tables
<1>10. ASSUME NEW w \in Workers, Forward(w) PROVE OrderInv'
  BY <1>10 DEF Forward, tables
<1>11. ASSUME NEW w \in Workers, Save(w) PROVE OrderInv'
  BY <1>11 DEF Save, tables, tx
<1>12. ASSUME NEW w \in Workers, SpawnNothing(w) PROVE OrderInv'
  BY <1>12 DEF SpawnNothing, tables, tx
<1>13. ASSUME NEW w \in Workers, SpawnFreeAccount(w) PROVE OrderInv'
  BY <1>13 DEF SpawnFreeAccount, tables
<1>14. ASSUME NEW w \in Workers, SpawnFails(w) PROVE OrderInv'
  BY <1>14 DEF SpawnFails, HandlerFails, EndTx, tables
<1>15. ASSUME NEW w \in Workers, Commit(w) PROVE OrderInv'
  BY <1>15 DEF Commit, CommitTables, EndTx
<1>16. ASSUME NEW w \in Workers, StatementFails(w) PROVE OrderInv'
  BY <1>16 DEF StatementFails, HandlerFails, EndTx, tables
<1>17. ASSUME NEW w \in Workers, CommitUnacknowledged(w) PROVE OrderInv'
  BY <1>17 DEF CommitUnacknowledged, CommitTables, HandlerFails, EndTx
<1>18. ASSUME NEW w \in Workers, PollOrMarkFails(w) PROVE OrderInv'
  BY <1>18 DEF PollOrMarkFails, tables, tx
<1>19. ASSUME NEW w \in Workers, Crash(w) PROVE OrderInv'
  BY <1>19 DEF Crash, EndTx, tables
<1>20. ASSUME NEW w \in Workers, Restart(w) PROVE OrderInv'
  BY <1>20 DEF Restart, tables, tx
<1>21. QED
  BY <1>1, <1>2, <1>3, <1>4, <1>5, <1>6, <1>7, <1>8, <1>9, <1>10, <1>11, <1>12,
     <1>13, <1>14, <1>15, <1>16, <1>17, <1>18, <1>19, <1>20
     DEF Next, Step, Fail

LEMMA OnceInit == Init => ExactlyOnce
BY DEF Init, ExactlyOnce

LEMMA OnceStep == TypeInv /\ OrderInv /\ ExactlyOnce /\ [Next]_vars => ExactlyOnce'
<1> SUFFICES ASSUME TypeInv, OrderInv, ExactlyOnce, [Next]_vars PROVE ExactlyOnce'
  OBVIOUS
<1> USE DEF TypeInv, TypeOK, BusyWithRow, OrderInv, TxIsFresh, ExactlyOnce, InTx
<1>1. ASSUME NEW e \in Events, Publish(e) PROVE ExactlyOnce'
  BY <1>1 DEF Publish, tx
<1>2. CASE PoolChanges
  BY <1>2 DEF PoolChanges, tables, tx
<1>3. CASE UNCHANGED vars
  BY <1>3 DEF vars, tables, tx
<1>4. ASSUME NEW w \in Workers, Poll(w) PROVE ExactlyOnce'
  BY <1>4 DEF Poll, tables, tx, Oldest, Unprocessed
<1>5. ASSUME NEW w \in Workers, EndBatch(w) PROVE ExactlyOnce'
  BY <1>5 DEF EndBatch, tables, tx
<1>6. ASSUME NEW w \in Workers, Mark(w) PROVE ExactlyOnce'
  BY <1>6 DEF Mark, tx
<1>7. ASSUME NEW w \in Workers, NEW e \in Events, ConsumeDuplicate(w, e) PROVE ExactlyOnce'
  BY <1>7 DEF ConsumeDuplicate, tables, tx, IsFirst
<1>8. ASSUME NEW w \in Workers, NEW e \in Events, Consume(w, e) PROVE ExactlyOnce'
  BY <1>8 DEF Consume, tables, tx, IsFirst, InboxFree, InsertedBy
<1>9. ASSUME NEW w \in Workers, Read(w) PROVE ExactlyOnce'
  BY <1>9 DEF Read, tables
<1>10. ASSUME NEW w \in Workers, Forward(w) PROVE ExactlyOnce'
  BY <1>10 DEF Forward, tables
<1>11. ASSUME NEW w \in Workers, Save(w) PROVE ExactlyOnce'
  BY <1>11 DEF Save, tables, tx
<1>12. ASSUME NEW w \in Workers, SpawnNothing(w) PROVE ExactlyOnce'
  BY <1>12 DEF SpawnNothing, tables, tx
<1>13. ASSUME NEW w \in Workers, SpawnFreeAccount(w) PROVE ExactlyOnce'
  BY <1>13 DEF SpawnFreeAccount, tables
<1>14. ASSUME NEW w \in Workers, SpawnFails(w) PROVE ExactlyOnce'
  BY <1>14 DEF SpawnFails, HandlerFails, EndTx, tables
<1>15. ASSUME NEW w \in Workers, Commit(w) PROVE ExactlyOnce'
  BY <1>15 DEF Commit, CommitTables, EndTx
<1>16. ASSUME NEW w \in Workers, StatementFails(w) PROVE ExactlyOnce'
  BY <1>16 DEF StatementFails, HandlerFails, EndTx, tables
<1>17. ASSUME NEW w \in Workers, CommitUnacknowledged(w) PROVE ExactlyOnce'
  BY <1>17 DEF CommitUnacknowledged, CommitTables, HandlerFails, EndTx
<1>18. ASSUME NEW w \in Workers, PollOrMarkFails(w) PROVE ExactlyOnce'
  BY <1>18 DEF PollOrMarkFails, tables, tx
<1>19. ASSUME NEW w \in Workers, Crash(w) PROVE ExactlyOnce'
  BY <1>19 DEF Crash, EndTx, tables
<1>20. ASSUME NEW w \in Workers, Restart(w) PROVE ExactlyOnce'
  BY <1>20 DEF Restart, tables, tx
<1>21. QED
  BY <1>1, <1>2, <1>3, <1>4, <1>5, <1>6, <1>7, <1>8, <1>9, <1>10, <1>11, <1>12,
     <1>13, <1>14, <1>15, <1>16, <1>17, <1>18, <1>19, <1>20
     DEF Next, Step, Fail

-----------------------------------------------------------------------------
(* Flags and spawns stand for consumed events.                             *)

EarnedInv == FlagsAreEarned /\ SpawnIsEarned

\* Consuming further events never takes a criterion away.
LEMMA CriteriaMonotone ==
  ASSUME NEW S, NEW T, S \subseteq T, NEW a
  PROVE  /\ Saga!CycledBy(S, a) => Saga!CycledBy(T, a)
         /\ Saga!GraduatedBy(S, a) => Saga!GraduatedBy(T, a)
         /\ Saga!QualifiedBy(S, a) => Saga!QualifiedBy(T, a)
BY DEF Saga!CycledBy, Saga!GraduatedBy, Saga!QualifiedBy

LEMMA EarnedInit == Init => EarnedInv
BY DEF Init, EarnedInv, FlagsAreEarned, SpawnIsEarned, NewState, InTx

\* A commit carries the flags of the handler's copy over to the table.
LEMMA EarnedCommit ==
  ASSUME TypeInv, EarnedInv, NEW w \in Workers, pc[w] = "commit", CommitTables(w), EndTx(w),
         \A v \in Workers : v # w => pc'[v] = pc[v] /\ event'[v] = event[v],
         pc'[w] \notin InTx
  PROVE  EarnedInv'
<1> DEFINE b == AccountOf[event[w]]
<1>1. event[w] \in Events /\ b \in Accounts
  BY EventsAssumption DEF TypeInv, BusyWithRow, InTx
<1>2. inbox' = WithOwn(w) /\ inbox \subseteq inbox'
  BY DEF CommitTables, WithOwn
<1>3. /\ row[w].cycled => Saga!CycledBy(inbox', b)
      /\ row[w].graduated => Saga!GraduatedBy(inbox', b)
      /\ spawn[w] => Saga!QualifiedBy(inbox', b)
  BY <1>2 DEF EarnedInv, FlagsAreEarned, InTx
<1>4. ASSUME NEW a \in Accounts
      PROVE  /\ coord'[a].cycled => Saga!CycledBy(inbox', a)
             /\ coord'[a].graduated => Saga!GraduatedBy(inbox', a)
             /\ spawns'[a] > 0 => Saga!QualifiedBy(inbox', a)
  <2>1. CASE a = b
    BY <1>1, <1>2, <1>3, <2>1, CriteriaMonotone
       DEF CommitTables, EarnedInv, SpawnIsEarned, TypeInv, TypeOK
  <2>2. CASE a # b
    BY <1>1, <1>2, <2>2, CriteriaMonotone
       DEF CommitTables, EarnedInv, FlagsAreEarned, SpawnIsEarned, TypeInv, TypeOK
  <2>3. QED
    BY <2>1, <2>2
<1>5. ASSUME NEW v \in Workers, pc'[v] \in InTx \ {"read"}
      PROVE  /\ row'[v].cycled => Saga!CycledBy(inbox' \cup {event'[v]}, AccountOf[event'[v]])
             /\ row'[v].graduated => Saga!GraduatedBy(inbox' \cup {event'[v]}, AccountOf[event'[v]])
             /\ spawn'[v] => Saga!QualifiedBy(inbox' \cup {event'[v]}, AccountOf[event'[v]])
  <2>1. v # w /\ pc[v] \in InTx \ {"read"} /\ event'[v] = event[v]
    BY <1>5
  <2>2. row'[v] = row[v] /\ spawn'[v] = spawn[v]
    BY <2>1 DEF EndTx, TypeInv, TypeOK
  <2>3. inbox \cup {event[v]} \subseteq inbox' \cup {event[v]}
    BY <1>2
  <2>4. QED
    BY <2>1, <2>2, <2>3, CriteriaMonotone DEF EarnedInv, FlagsAreEarned, WithOwn
<1>6. QED
  BY <1>4, <1>5 DEF EarnedInv, FlagsAreEarned, SpawnIsEarned, WithOwn

LEMMA EarnedStep == TypeInv /\ EarnedInv /\ [Next]_vars => EarnedInv'
<1> SUFFICES ASSUME TypeInv, EarnedInv, [Next]_vars PROVE EarnedInv'
  OBVIOUS
<1> USE DEF TypeInv, TypeOK, BusyWithRow, EarnedInv, FlagsAreEarned, SpawnIsEarned, WithOwn, InTx
<1>1. ASSUME NEW e \in Events, Publish(e) PROVE EarnedInv'
  BY <1>1 DEF Publish, tx
<1>2. CASE PoolChanges
  BY <1>2 DEF PoolChanges, tables, tx
<1>3. CASE UNCHANGED vars
  BY <1>3 DEF vars, tables, tx
<1>4. ASSUME NEW w \in Workers, Poll(w) PROVE EarnedInv'
  BY <1>4 DEF Poll, tables, tx, Oldest, Unprocessed
<1>5. ASSUME NEW w \in Workers, EndBatch(w) PROVE EarnedInv'
  BY <1>5 DEF EndBatch, tables, tx
<1>6. ASSUME NEW w \in Workers, Mark(w) PROVE EarnedInv'
  BY <1>6 DEF Mark, tx
<1>7. ASSUME NEW w \in Workers, NEW e \in Events, ConsumeDuplicate(w, e) PROVE EarnedInv'
  BY <1>7 DEF ConsumeDuplicate, tables, tx, IsFirst
<1>8. ASSUME NEW w \in Workers, NEW e \in Events, Consume(w, e) PROVE EarnedInv'
  BY <1>8 DEF Consume, tables, tx, IsFirst, InboxFree, InsertedBy
<1>9. ASSUME NEW w \in Workers, Read(w) PROVE EarnedInv'
  <2> DEFINE a == AccountOf[event[w]]
             s == WithEvent(coord[a], event[w])
  <2>1. event[w] \in Events /\ a \in Accounts /\ coord[a] \in CoordinatedState
    BY <1>9, EventsAssumption DEF Read
  <2>2. /\ s.cycled => coord[a].cycled \/ event[w] \in MatrixEvents
        /\ s.graduated => coord[a].graduated \/ event[w] \in FlushlineEvents
    BY <2>1, WithEventFlags DEF CoordinatedState
  <2>3. /\ s.cycled => Saga!CycledBy(inbox \cup {event[w]}, a)
        /\ s.graduated => Saga!GraduatedBy(inbox \cup {event[w]}, a)
    BY <2>1, <2>2, CriteriaMonotone DEF Saga!CycledBy, Saga!GraduatedBy
  <2>4. ~spawn[w] /\ row'[w] = s
    BY <1>9 DEF Read
  <2>5. QED
    BY <1>9, <2>1, <2>3, <2>4 DEF Read, tables
<1>10. ASSUME NEW w \in Workers, Forward(w) PROVE EarnedInv'
  BY <1>10 DEF Forward, tables
<1>11. ASSUME NEW w \in Workers, Save(w) PROVE EarnedInv'
  BY <1>11 DEF Save, tables, tx
<1>12. ASSUME NEW w \in Workers, SpawnNothing(w) PROVE EarnedInv'
  BY <1>12 DEF SpawnNothing, tables, tx
<1>13. ASSUME NEW w \in Workers, SpawnFreeAccount(w) PROVE EarnedInv'
  <2>1. Saga!QualifiedBy(inbox \cup {event[w]}, AccountOf[event[w]])
    BY <1>13 DEF SpawnFreeAccount, Qualifies, Saga!QualifiedBy
  <2>2. QED
    BY <1>13, <2>1 DEF SpawnFreeAccount, SpawnedState, tables
<1>14. ASSUME NEW w \in Workers, SpawnFails(w) PROVE EarnedInv'
  BY <1>14 DEF SpawnFails, HandlerFails, EndTx, tables
<1>15. ASSUME NEW w \in Workers, Commit(w) PROVE EarnedInv'
  <2>1. /\ \A v \in Workers : v # w => pc'[v] = pc[v] /\ event'[v] = event[v]
        /\ pc'[w] \notin InTx
    BY <1>15 DEF Commit
  <2>2. pc[w] = "commit" /\ CommitTables(w) /\ EndTx(w)
    BY <1>15 DEF Commit
  <2>3. QED
    BY <2>1, <2>2, EarnedCommit
<1>16. ASSUME NEW w \in Workers, StatementFails(w) PROVE EarnedInv'
  BY <1>16 DEF StatementFails, HandlerFails, EndTx, tables
<1>17. ASSUME NEW w \in Workers, CommitUnacknowledged(w) PROVE EarnedInv'
  <2>1. /\ \A v \in Workers : v # w => pc'[v] = pc[v] /\ event'[v] = event[v]
        /\ pc'[w] \notin InTx
    BY <1>17 DEF CommitUnacknowledged, HandlerFails
  <2>2. pc[w] = "commit" /\ CommitTables(w) /\ EndTx(w)
    BY <1>17 DEF CommitUnacknowledged, HandlerFails
  <2>3. QED
    BY <2>1, <2>2, EarnedCommit
<1>18. ASSUME NEW w \in Workers, PollOrMarkFails(w) PROVE EarnedInv'
  BY <1>18 DEF PollOrMarkFails, tables, tx
<1>19. ASSUME NEW w \in Workers, Crash(w) PROVE EarnedInv'
  BY <1>19 DEF Crash, EndTx, tables
<1>20. ASSUME NEW w \in Workers, Restart(w) PROVE EarnedInv'
  BY <1>20 DEF Restart, tables, tx
<1>21. QED
  BY <1>1, <1>2, <1>3, <1>4, <1>5, <1>6, <1>7, <1>8, <1>9, <1>10, <1>11, <1>12,
     <1>13, <1>14, <1>15, <1>16, <1>17, <1>18, <1>19, <1>20
     DEF Next, Step, Fail

-----------------------------------------------------------------------------
(* The safety theorems for any number of daemons.                          *)

LEMMA InvariantHolds == Spec => []IInv
<1>1. Init => TypeInv /\ OrderInv /\ ExactlyOnce /\ EarnedInv
  BY TypeInit, OrderInit, OnceInit, EarnedInit
<1>2. TypeInv /\ OrderInv /\ ExactlyOnce /\ EarnedInv /\ [Next]_vars
        => (TypeInv /\ OrderInv /\ ExactlyOnce /\ EarnedInv)'
  BY TypeStep, OrderStep, OnceStep, EarnedStep
<1>3. TypeInv /\ OrderInv /\ ExactlyOnce /\ EarnedInv => IInv
  BY DEF TypeInv, OrderInv, EarnedInv, IInv
<1>4. QED
  BY <1>1, <1>2, <1>3, PTL DEF Spec

\* An event's effects are committed once if its id is in the inbox log and
\* never otherwise: mark_event_consumed in the handler's own transaction makes
\* the at-least-once polling of any number of daemons exactly-once.
THEOREM EffectsOnce == Spec => []ExactlyOnce
<1>1. IInv => ExactlyOnce
  BY DEF IInv
<1>2. QED
  BY <1>1, InvariantHolds, PTL

\* No row is flagged processed before its effects are committed.
THEOREM NothingLost == Spec => []ProcessedTookEffect
<1>1. IInv => ProcessedTookEffect
  BY DEF IInv, RowsInOrder, ExactlyOnce, ProcessedTookEffect, TypeOK
<1>2. QED
  BY <1>1, InvariantHolds, PTL

\* A free account stands for a cycle and a graduation, however the handlers of
\* different daemons interleave.
THEOREM SpawnsAreEarned == Spec => []SpawnIsEarned
<1>1. IInv => SpawnIsEarned
  BY DEF IInv
<1>2. QED
  BY <1>1, InvariantHolds, PTL

-----------------------------------------------------------------------------
(* While no two daemons hold a copy of one account's coordination row, the *)
(* row is exact and the orchestrator implements the saga.                  *)

\* The handler of w has read the coordination row and will write it back.
HoldsCopy(w) == pc[w] \in {"forward", "save", "spawn", "commit"}

\* What a SELECT ... FOR UPDATE in get_or_create_coordination_state would give,
\* and what a single daemon has for nothing.
CopiesApart == \A v, w \in Workers :
                 v # w /\ HoldsCopy(v) /\ HoldsCopy(w)
                   => AccountOf[event[v]] # AccountOf[event[w]]

LEMMA CriteriaOfOneMore ==
  ASSUME NEW S, NEW e \in Events, NEW a
  PROVE  /\ Saga!CycledBy(S \cup {e}, a)
              <=> Saga!CycledBy(S, a) \/ (e \in MatrixEvents /\ AccountOf[e] = a)
         /\ Saga!GraduatedBy(S \cup {e}, a)
              <=> Saga!GraduatedBy(S, a) \/ (e \in FlushlineEvents /\ AccountOf[e] = a)
<1>1. Saga!CycledBy(S \cup {e}, a)
        <=> Saga!CycledBy(S, a) \/ (e \in MatrixEvents /\ AccountOf[e] = a)
  BY DEF Saga!CycledBy
<1>2. Saga!GraduatedBy(S \cup {e}, a)
        <=> Saga!GraduatedBy(S, a) \/ (e \in FlushlineEvents /\ AccountOf[e] = a)
  BY DEF Saga!GraduatedBy
<1>3. QED
  BY <1>1, <1>2

\* The commit of a handler whose copy is current keeps every row exact.
LEMMA SerialCommit ==
  ASSUME TypeInv, SerialInv, NEW w \in Workers, pc[w] = "commit", CommitTables(w)
  PROVE  \A a \in Accounts : RowIsExact(a)'
<1>0. PICK e \in Events, b \in Accounts : e = event[w] /\ b = AccountOf[e]
  BY EventsAssumption DEF TypeInv, BusyWithRow, InTx
<1> DEFINE s == WithEvent(coord[b], e)
<1>1. coord[b] \in CoordinatedState /\ spawns[b] \in Nat
  BY DEF TypeInv, TypeOK
<1>2. /\ inbox' = inbox \cup {e}
      /\ coord' = [coord EXCEPT ![b] = row[w]]
      /\ spawns' = [spawns EXCEPT ![b] = IF spawn[w] THEN @ + 1 ELSE @]
  BY <1>0 DEF CommitTables
<1>3. \/ Qualifies(s) /\ row[w] = SpawnedState /\ spawn[w]
      \/ ~Qualifies(s) /\ row[w] = s /\ ~spawn[w]
  BY <1>0 DEF SerialInv, CopyIsCurrent
<1>4. RowIsExact(b)
  BY DEF SerialInv
<1>5. /\ s.spawned = coord[b].spawned
      /\ s.cycled = (coord[b].cycled \/ e \in MatrixEvents)
      /\ s.graduated = (coord[b].graduated \/ e \in FlushlineEvents)
  BY <1>1, WithEventFlags
<1>6. /\ Saga!CycledBy(inbox', b) <=> (Saga!CycledBy(inbox, b) \/ e \in MatrixEvents)
      /\ Saga!GraduatedBy(inbox', b) <=> (Saga!GraduatedBy(inbox, b) \/ e \in FlushlineEvents)
  BY <1>0, <1>2, CriteriaOfOneMore
<1>7. coord'[b] = row[w] /\ spawns'[b] = (IF spawn[w] THEN spawns[b] + 1 ELSE spawns[b])
  BY <1>1, <1>2 DEF TypeInv, TypeOK
<1>8. RowIsExact(b)'
  <2>1. CASE coord[b].spawned
    <3>1. Saga!QualifiedBy(inbox, b) /\ spawns[b] = 1
      BY <1>4, <2>1 DEF RowIsExact
    <3>2. Saga!QualifiedBy(inbox', b)
      BY <1>6, <3>1 DEF Saga!QualifiedBy
    <3>3. row[w] = s /\ ~spawn[w] /\ s.spawned = TRUE
      BY <1>1, <1>3, <1>5, <2>1 DEF Qualifies, CoordinatedState
    <3>4. QED
      BY <1>7, <3>1, <3>2, <3>3 DEF RowIsExact
  <2>2. CASE ~coord[b].spawned
    <3>1. /\ s.cycled <=> Saga!CycledBy(inbox', b)
          /\ s.graduated <=> Saga!GraduatedBy(inbox', b)
          /\ ~s.spawned /\ spawns[b] = 0
      BY <1>4, <1>5, <1>6, <2>2 DEF RowIsExact
    <3>2. CASE Qualifies(s)
      BY <1>3, <1>7, <3>1, <3>2 DEF Qualifies, SpawnedState, RowIsExact, Saga!QualifiedBy
    <3>3. CASE ~Qualifies(s)
      <4>1. ~Saga!QualifiedBy(inbox', b)
        BY <3>1, <3>3 DEF Qualifies, Saga!QualifiedBy
      <4>2. row[w] = s /\ ~spawn[w] /\ s \in CoordinatedState
        BY <1>1, <1>3, <3>3, WithEventFlags
      <4>3. QED
        BY <1>7, <3>1, <4>1, <4>2 DEF RowIsExact, CoordinatedState, Saga!CycledBy, Saga!GraduatedBy
    <3>4. QED
      BY <3>2, <3>3
  <2>3. QED
    BY <2>1, <2>2
<1>9. ASSUME NEW a \in Accounts, a # b PROVE RowIsExact(a)'
  <2>1. /\ Saga!CycledBy(inbox', a) <=> Saga!CycledBy(inbox, a)
        /\ Saga!GraduatedBy(inbox', a) <=> Saga!GraduatedBy(inbox, a)
    BY <1>0, <1>2, <1>9, CriteriaOfOneMore
  <2>2. coord'[a] = coord[a] /\ spawns'[a] = spawns[a]
    BY <1>2, <1>9 DEF TypeInv, TypeOK
  <2>3. RowIsExact(a)
    BY DEF SerialInv
  <2>4. QED
    BY <2>1, <2>2, <2>3 DEF RowIsExact, Saga!QualifiedBy, Saga!CycledBy, Saga!GraduatedBy
<1>10. QED
  BY <1>8, <1>9

LEMMA SerialInit == Init => SerialInv
BY DEF Init, SerialInv, RowIsExact, CopyIsCurrent, NewState,
       Saga!QualifiedBy, Saga!CycledBy, Saga!GraduatedBy

\* The commit of w leaves the copies of the others current: they are copies of
\* rows of other accounts.
LEMMA OthersStayCurrent ==
  ASSUME TypeInv, SerialInv, CopiesApart, NEW w \in Workers, pc[w] = "commit",
         CommitTables(w), NEW v \in Workers, v # w,
         pc'[v] = pc[v], event'[v] = event[v], row'[v] = row[v], spawn'[v] = spawn[v]
  PROVE  CopyIsCurrent(v)'
<1>1. CASE HoldsCopy(v)
  <2>1. AccountOf[event[v]] # AccountOf[event[w]]
    BY <1>1 DEF CopiesApart, HoldsCopy
  <2>2. coord'[AccountOf[event[v]]] = coord[AccountOf[event[v]]]
    BY <1>1, <2>1, EventsAssumption
       DEF CommitTables, HoldsCopy, TypeInv, TypeOK, BusyWithRow, InTx
  <2>3. CopyIsCurrent(v)
    BY DEF SerialInv
  <2>4. QED
    BY <2>2, <2>3 DEF CopyIsCurrent
<1>2. CASE ~HoldsCopy(v)
  BY <1>2 DEF HoldsCopy, CopyIsCurrent
<1>3. QED
  BY <1>1, <1>2

LEMMA SerialStep ==
  TypeInv /\ SerialInv /\ CopiesApart /\ [Next]_vars => SerialInv'
<1> SUFFICES ASSUME TypeInv, SerialInv, CopiesApart, [Next]_vars PROVE SerialInv'
  OBVIOUS
<1> USE DEF TypeInv, TypeOK, BusyWithRow, SerialInv, RowIsExact, CopyIsCurrent, InTx
<1>1. ASSUME NEW e \in Events, Publish(e) PROVE SerialInv'
  BY <1>1 DEF Publish, tx
<1>2. CASE PoolChanges
  BY <1>2 DEF PoolChanges, tables, tx
<1>3. CASE UNCHANGED vars
  BY <1>3 DEF vars, tables, tx
<1>4. ASSUME NEW w \in Workers, Poll(w) PROVE SerialInv'
  BY <1>4 DEF Poll, tables, tx, Oldest, Unprocessed
<1>5. ASSUME NEW w \in Workers, EndBatch(w) PROVE SerialInv'
  BY <1>5 DEF EndBatch, tables, tx
<1>6. ASSUME NEW w \in Workers, Mark(w) PROVE SerialInv'
  BY <1>6 DEF Mark, tx
<1>7. ASSUME NEW w \in Workers, NEW e \in Events, ConsumeDuplicate(w, e) PROVE SerialInv'
  BY <1>7 DEF ConsumeDuplicate, tables, tx, IsFirst
<1>8. ASSUME NEW w \in Workers, NEW e \in Events, Consume(w, e) PROVE SerialInv'
  BY <1>8 DEF Consume, tables, tx, IsFirst, InboxFree, InsertedBy
<1>9. ASSUME NEW w \in Workers, Read(w) PROVE SerialInv'
  BY <1>9 DEF Read, tables
<1>10. ASSUME NEW w \in Workers, Forward(w) PROVE SerialInv'
  BY <1>10 DEF Forward, tables
<1>11. ASSUME NEW w \in Workers, Save(w) PROVE SerialInv'
  BY <1>11 DEF Save, tables, tx
<1>12. ASSUME NEW w \in Workers, SpawnNothing(w) PROVE SerialInv'
  BY <1>12 DEF SpawnNothing, tables, tx
<1>13. ASSUME NEW w \in Workers, SpawnFreeAccount(w) PROVE SerialInv'
  BY <1>13 DEF SpawnFreeAccount, tables
<1>14. ASSUME NEW w \in Workers, SpawnFails(w) PROVE SerialInv'
  BY <1>14 DEF SpawnFails, HandlerFails, EndTx, tables
<1>15. ASSUME NEW w \in Workers, Commit(w) PROVE SerialInv'
  <2>1. \A a \in Accounts : RowIsExact(a)'
    BY <1>15, SerialCommit DEF Commit
  <2>2. ASSUME NEW v \in Workers, v # w PROVE CopyIsCurrent(v)'
    BY <1>15, <2>2, OthersStayCurrent DEF Commit, EndTx
  <2>3. CopyIsCurrent(w)'
    BY <1>15 DEF Commit
  <2>4. QED
    BY <2>1, <2>2, <2>3 DEF SerialInv
<1>16. ASSUME NEW w \in Workers, StatementFails(w) PROVE SerialInv'
  BY <1>16 DEF StatementFails, HandlerFails, EndTx, tables
<1>17. ASSUME NEW w \in Workers, CommitUnacknowledged(w) PROVE SerialInv'
  <2>1. \A a \in Accounts : RowIsExact(a)'
    BY <1>17, SerialCommit DEF CommitUnacknowledged
  <2>2. ASSUME NEW v \in Workers, v # w PROVE CopyIsCurrent(v)'
    BY <1>17, <2>2, OthersStayCurrent DEF CommitUnacknowledged, HandlerFails, EndTx
  <2>3. CopyIsCurrent(w)'
    BY <1>17 DEF CommitUnacknowledged, HandlerFails
  <2>4. QED
    BY <2>1, <2>2, <2>3 DEF SerialInv
<1>18. ASSUME NEW w \in Workers, PollOrMarkFails(w) PROVE SerialInv'
  BY <1>18 DEF PollOrMarkFails, tables, tx
<1>19. ASSUME NEW w \in Workers, Crash(w) PROVE SerialInv'
  BY <1>19 DEF Crash, EndTx, tables
<1>20. ASSUME NEW w \in Workers, Restart(w) PROVE SerialInv'
  BY <1>20 DEF Restart, tables, tx
<1>21. QED
  BY <1>1, <1>2, <1>3, <1>4, <1>5, <1>6, <1>7, <1>8, <1>9, <1>10, <1>11, <1>12,
     <1>13, <1>14, <1>15, <1>16, <1>17, <1>18, <1>19, <1>20
     DEF Next, Step, Fail

\* The commit of a fresh event is the saga's Consume step.
LEMMA CommitConsumes ==
  ASSUME TypeInv, OrderInv, ExactlyOnce, SerialInv, ExactlyOnce', NEW w \in Workers,
         pc[w] = "commit", CommitTables(w)
  PROVE  Saga!SagaConsume
<1>0. PICK e \in Events : e = event[w]
  BY DEF TypeInv, BusyWithRow, InTx
<1>1. e \in outbox /\ applied[e] = 0
  BY <1>0 DEF OrderInv, TxIsFresh, ExactlyOnce, InTx
<1>2. applied' = [applied EXCEPT ![e] = 1]
  BY <1>0, <1>1 DEF CommitTables, TypeInv, TypeOK
<1>3. inbox' \in SUBSET Events /\ outbox' \in SUBSET Events /\ outbox \subseteq outbox'
  BY TypeCommitTables DEF CommitTables
<1>4. Saga!AllEvents = Events
  BY DEF Saga!AllEvents, Events
<1>5. Saga!Consumed(applied') = inbox'
  BY <1>3, <1>4 DEF Saga!Consumed, ExactlyOnce
<1>6. spawns' = Saga!EarnedBy(inbox')
  <2>1. \A a \in Accounts : spawns'[a] = IF Saga!QualifiedBy(inbox', a) THEN 1 ELSE 0
    BY SerialCommit DEF RowIsExact
  <2>2. spawns' \in [Accounts -> Nat]
    BY TypeCommitTables
  <2>3. QED
    BY <2>1, <2>2 DEF Saga!EarnedBy
<1>7. QED
  BY <1>1, <1>2, <1>3, <1>4, <1>5, <1>6 DEF Saga!SagaConsume

LEMMA SagaStep ==
  ASSUME TypeInv, OrderInv, ExactlyOnce, SerialInv, ExactlyOnce', [Next]_vars
  PROVE  [Saga!SagaNext]_(Saga!SagaVars)
<1> USE DEF Saga!SagaVars, tables
<1>1. ASSUME NEW e \in Events, Publish(e) PROVE Saga!SagaPublish
  BY <1>1 DEF Publish, Saga!SagaPublish, Saga!AllEvents, TypeInv, TypeOK, Events
<1>2. ASSUME NEW w \in Workers, Commit(w) PROVE Saga!SagaConsume
  BY <1>2, CommitConsumes DEF Commit
<1>3. ASSUME NEW w \in Workers, CommitUnacknowledged(w) PROVE Saga!SagaConsume
  BY <1>3, CommitConsumes DEF CommitUnacknowledged
<1>4. CASE PoolChanges \/ UNCHANGED vars
  BY <1>4 DEF PoolChanges, vars
<1>5. ASSUME NEW w \in Workers,
             Poll(w) \/ EndBatch(w) \/ Mark(w) \/ Read(w) \/ Forward(w) \/ Save(w)
      PROVE  UNCHANGED Saga!SagaVars
  BY <1>5 DEF Poll, EndBatch, Mark, Read, Forward, Save
<1>6. ASSUME NEW w \in Workers, NEW e \in Events, ConsumeDuplicate(w, e) \/ Consume(w, e)
      PROVE  UNCHANGED Saga!SagaVars
  BY <1>6 DEF ConsumeDuplicate, Consume
<1>7. ASSUME NEW w \in Workers, SpawnNothing(w) \/ SpawnFreeAccount(w) \/ SpawnFails(w)
      PROVE  UNCHANGED Saga!SagaVars
  BY <1>7 DEF SpawnNothing, SpawnFreeAccount, SpawnFails
<1>8. ASSUME NEW w \in Workers,
             StatementFails(w) \/ PollOrMarkFails(w) \/ Crash(w) \/ Restart(w)
      PROVE  UNCHANGED Saga!SagaVars
  BY <1>8 DEF StatementFails, PollOrMarkFails, Crash, Restart
<1>9. QED
  BY <1>1, <1>2, <1>3, <1>4, <1>5, <1>6, <1>7, <1>8 DEF Next, Step, Fail, Saga!SagaNext

LEMMA SerialHolds == Spec /\ []CopiesApart => []SerialInv
<1>1. TypeInv /\ SerialInv /\ CopiesApart /\ [Next]_vars => SerialInv'
  BY SerialStep
<1>2. QED
  BY <1>1, TypeInit, TypeStep, SerialInit, PTL DEF Spec

LEMMA SerialIsEnough ==
  SerialInv => NoDuplicateSpawn /\ QualifiedHasFreeAccount
<1> SUFFICES ASSUME SerialInv PROVE NoDuplicateSpawn /\ QualifiedHasFreeAccount
  OBVIOUS
<1>1. NoDuplicateSpawn
  BY DEF SerialInv, RowIsExact, NoDuplicateSpawn
<1>2. ASSUME NEW a \in Accounts, Saga!QualifiedBy(inbox, a) PROVE spawns[a] > 0
  <2>1. spawns[a] = 1
    BY <1>2 DEF SerialInv, RowIsExact
  <2>2. QED
    BY <2>1
<1>3. QED
  BY <1>1, <1>2 DEF QualifiedHasFreeAccount

\* However many API processes poll the tables, an account gets no second free
\* account while their handlers hold no two copies of its coordination row.
THEOREM OneSpawnEachApart == Spec /\ []CopiesApart => []NoDuplicateSpawn
BY SerialHolds, SerialIsEnough, PTL

\* ... and an account that has met both criteria has its free account: the flag
\* of the first event outlives everything between the two.
THEOREM QualifiedIsPaidApart == Spec /\ []CopiesApart => []QualifiedHasFreeAccount
BY SerialHolds, SerialIsEnough, PTL

\* ... and the orchestrator implements the saga: the transactions of lib.rs are
\* its atomic steps and everything else is invisible to it.  The overlapping
\* copies are therefore all that stands between two daemons and the saga.
THEOREM CoordinatorImplementsSagaApart == Spec /\ []CopiesApart => ImplementsSaga
<1>1. Init => Saga!SagaInit
  BY DEF Init, Saga!SagaInit, Saga!AllEvents, Events
<1>2. TypeInv /\ OrderInv /\ ExactlyOnce /\ SerialInv /\ ExactlyOnce' /\ [Next]_vars
        => [Saga!SagaNext]_(Saga!SagaVars)
  BY SagaStep
<1>3. IInv => TypeInv /\ OrderInv /\ ExactlyOnce
  BY DEF IInv, TypeInv, OrderInv
<1>4. QED
  BY <1>1, <1>2, <1>3, InvariantHolds, SerialHolds, PTL DEF Spec, ImplementsSaga, Saga!SagaSpec

-----------------------------------------------------------------------------
(* A single daemon handles one row at a time, so there is no second copy.  *)

LEMMA OneDaemonHoldsOneCopy == ASSUME NEW d, Workers = {d} PROVE Spec => []CopiesApart
<1>1. CopiesApart
  BY DEF CopiesApart
<1>2. QED
  BY <1>1, PTL

\* With one API process an account never gets a second free account.
THEOREM OneSpawnEach == ASSUME NEW d, Workers = {d} PROVE Spec => []NoDuplicateSpawn
BY OneDaemonHoldsOneCopy, OneSpawnEachApart, PTL

\* With one API process an account that has met both criteria has its free
\* account.
THEOREM QualifiedIsPaid == ASSUME NEW d, Workers = {d} PROVE Spec => []QualifiedHasFreeAccount
BY OneDaemonHoldsOneCopy, QualifiedIsPaidApart, PTL

\* With one API process the orchestrator implements the saga, with no condition.
THEOREM CoordinatorImplementsSaga == ASSUME NEW d, Workers = {d} PROVE Spec => ImplementsSaga
BY OneDaemonHoldsOneCopy, CoordinatorImplementsSagaApart, PTL

==============================================================================
