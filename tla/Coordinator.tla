----------------------------- MODULE Coordinator -----------------------------
(***************************************************************************)
(* The saga orchestrator: the daemon of coordinator/src/worker.rs polling  *)
(* the two outbox tables, and the handlers of coordinator/src/lib.rs it    *)
(* calls, each of which is one PostgreSQL transaction.                     *)
(*                                                                         *)
(* A daemon is a loop.  It reads a batch of unprocessed outbox rows, runs  *)
(* the handler of each row in created_at order and, when the handler       *)
(* returned Ok, flags the row processed in a statement of its own.  A      *)
(* handler inserts the event id into the inbox log, reads the coordination *)
(* row, forwards the event to the bounded contexts, writes the row back,   *)
(* spawns the free account if both criteria are met, and commits.          *)
(*                                                                         *)
(* Transactions run at READ COMMITTED, PostgreSQL's default: a read sees   *)
(* the last committed row and takes no lock; a second insert of a key that *)
(* a running transaction has inserted waits for it; an upsert waits for    *)
(* the transaction that has written the row.  What a transaction has       *)
(* written lives in the daemon's variables until Commit copies it to the   *)
(* tables, and a rollback drops it.                                        *)
(***************************************************************************)
EXTENDS Naturals, FiniteSets

CONSTANTS
  Workers,          \* daemons: one per running API process
  Accounts,         \* accounts that cycle and graduate
  MatrixEvents,     \* ids of matrix_outbox rows, numbered by created_at
  FlushlineEvents,  \* ids of flushline_outbox rows, likewise
  AccountOf,        \* the account_id column of an outbox row
  BatchLimit,       \* the LIMIT of the poll queries (50 in the code)
  MaxFaults         \* bound: database errors and crashes in one behaviour

Events == MatrixEvents \cup FlushlineEvents

ASSUME EventsAssumption ==
  /\ MatrixEvents \subseteq Nat \ {0}
  /\ FlushlineEvents \subseteq Nat \ {0}
  /\ MatrixEvents \cap FlushlineEvents = {}
  /\ AccountOf \in [Events -> Accounts]

ASSUME LimitsAssumption == BatchLimit \in Nat \ {0} /\ MaxFaults \in Nat

VARIABLES
  outbox,      \* rows present in matrix_outbox and flushline_outbox
  processed,   \* those with processed = TRUE
  inbox,       \* orchestrator_inbox_log
  coord,       \* orchestrator_coordination_states, an absent row all FALSE
  applied,     \* per event, how often its context effects were committed
  spawns,      \* per account, the free accounts committed for it
  poolOpen,    \* the sponsor pool has a sponsor with room
  pc,          \* where each daemon is in its loop
  queue,       \* the outbox table it is working on
  batch,       \* rows fetched and not yet handled
  event,       \* the row being handled
  row,         \* the CoordinatedState value of its handler
  emits,       \* outbox rows its open transaction has inserted
  spawn,       \* whether its open transaction has created a free account
  faults       \* faults so far

tables == <<outbox, processed, inbox, coord, applied, spawns>>
tx     == <<row, emits, spawn>>
vars   == <<tables, poolOpen, pc, queue, batch, event, tx, faults>>

CoordinatedState == [graduated : BOOLEAN, cycled : BOOLEAN, spawned : BOOLEAN]
NewState == [graduated |-> FALSE, cycled |-> FALSE, spawned |-> FALSE]
NoEvent  == 0

Queues == {"matrix", "flushline"}
InTx   == {"read", "forward", "save", "spawn", "commit"}
PCs    == InTx \cup {"poll", "next", "mark", "down"}

-----------------------------------------------------------------------------
(* The rows of a poll, and what an event does to a coordination row.       *)

RowsOf(q) == IF q = "matrix" THEN MatrixEvents ELSE FlushlineEvents

OtherQueue(q) == IF q = "matrix" THEN "flushline" ELSE "matrix"

\* Faulty variant: rows already in the inbox log are not fetched again.
UnloggedRows(q) == (outbox \cap RowsOf(q)) \ (processed \cup inbox)

\* WHERE processed = FALSE
Unprocessed(q) == (outbox \cap RowsOf(q)) \ processed

\* ORDER BY created_at ASC LIMIT BatchLimit
Oldest(S) == {e \in S : Cardinality({f \in S : f < e}) < BatchLimit}

IsFirst(e, S) == e \in S /\ \A f \in S : e <= f

\* Faulty variant: a fresh row is written instead of the one read.
WithEventOnly(s, e) == [NewState EXCEPT !.cycled = e \in MatrixEvents,
                                        !.graduated = e \in FlushlineEvents]

\* The flag the handler of e sets on the row it has read.
WithEvent(s, e) == IF e \in MatrixEvents
                   THEN [s EXCEPT !.cycled = TRUE]
                   ELSE [s EXCEPT !.graduated = TRUE]

\* Faulty variants: new_account_spawned is not tested; one criterion suffices.
QualifiesAgain(s) == s.graduated /\ s.cycled
QualifiesEarly(s) == (s.graduated \/ s.cycled) /\ ~s.spawned

Qualifies(s) == s.graduated /\ s.cycled /\ ~s.spawned

\* The row written after a spawn: both flags reset, new_account_spawned set.
SpawnedState == [graduated |-> FALSE, cycled |-> FALSE, spawned |-> TRUE]

\* Open transactions of other daemons that have inserted inbox row e, or
\* written the coordination row of account a.
InsertedBy(v, e)  == pc[v] \in InTx /\ event[v] = e
HoldsRow(v, a)    == pc[v] \in {"spawn", "commit"} /\ AccountOf[event[v]] = a

\* Flushline events that no committed or open transaction has written.
Unwritten == {e \in FlushlineEvents : e \notin outbox /\ \A v \in Workers : e \notin emits[v]}

-----------------------------------------------------------------------------
Init ==
  /\ outbox = {} /\ processed = {} /\ inbox = {}
  /\ coord   = [a \in Accounts |-> NewState]
  /\ applied = [e \in Events |-> 0]
  /\ spawns  = [a \in Accounts |-> 0]
  /\ poolOpen \in BOOLEAN
  /\ pc    = [w \in Workers |-> "poll"]
  /\ queue = [w \in Workers |-> "matrix"]
  /\ batch = [w \in Workers |-> {}]
  /\ event = [w \in Workers |-> NoEvent]
  /\ row   = [w \in Workers |-> NewState]
  /\ emits = [w \in Workers |-> {}]
  /\ spawn = [w \in Workers |-> FALSE]
  /\ faults = 0

-----------------------------------------------------------------------------
(* The environment.                                                        *)

\* signup_user commits a matrix cycle, award_points a graduation: the outbox
\* row appears together with the aggregate that caused it.
Publish(e) ==
  /\ e \notin outbox
  /\ \A w \in Workers : e \notin emits[w]
  /\ outbox' = outbox \cup {e}
  /\ UNCHANGED <<processed, inbox, coord, applied, spawns, poolOpen,
                 pc, queue, batch, event, tx, faults>>

\* The sponsor pool fills up, or a sponsor with room joins it.
PoolChanges ==
  /\ poolOpen' = ~poolOpen
  /\ UNCHANGED <<tables, pc, queue, batch, event, tx, faults>>

-----------------------------------------------------------------------------
(* The polling loop.                                                       *)

Poll(w) ==
  /\ pc[w] = "poll"
  /\ batch' = [batch EXCEPT ![w] = Oldest(Unprocessed(queue[w]))]
  /\ pc' = [pc EXCEPT ![w] = "next"]
  /\ UNCHANGED <<tables, poolOpen, queue, event, tx, faults>>

\* The for loop is over: the other outbox is next (after the tick, for matrix).
EndBatch(w) ==
  /\ pc[w] = "next"
  /\ batch[w] = {}
  /\ pc' = [pc EXCEPT ![w] = "poll"]
  /\ queue' = [queue EXCEPT ![w] = OtherQueue(@)]
  /\ UNCHANGED <<tables, poolOpen, batch, event, tx, faults>>

\* UPDATE ... SET processed = TRUE, on the pool and not in the transaction.
Mark(w) ==
  /\ pc[w] = "mark"
  /\ processed' = processed \cup {event[w]}
  /\ pc' = [pc EXCEPT ![w] = "next"]
  /\ event' = [event EXCEPT ![w] = NoEvent]
  /\ UNCHANGED <<outbox, inbox, coord, applied, spawns, poolOpen, queue, batch, tx, faults>>

-----------------------------------------------------------------------------
(* The handler, statement by statement.                                    *)

\* mark_event_consumed hits the unique key: the handler returns Ok(None).
ConsumeDuplicate(w, e) ==
  /\ pc[w] = "next"
  /\ IsFirst(e, batch[w])
  /\ e \in inbox
  /\ batch' = [batch EXCEPT ![w] = @ \ {e}]
  /\ event' = [event EXCEPT ![w] = e]
  /\ pc' = [pc EXCEPT ![w] = "mark"]
  /\ UNCHANGED <<tables, poolOpen, queue, tx, faults>>

\* Faulty variants: no wait for an uncommitted row; no unique key at all.
InboxFreeUnlocked(e) == e \notin inbox
InboxAlwaysFree(e)   == TRUE

\* The inbox row can be inserted: no committed row has its key, and no open
\* transaction has inserted one, for which the insert would wait.
InboxFree(e) == e \notin inbox /\ \A v \in Workers : ~InsertedBy(v, e)

\* mark_event_consumed inserts the inbox row.
Consume(w, e) ==
  /\ pc[w] = "next"
  /\ IsFirst(e, batch[w])
  /\ InboxFree(e)
  /\ batch' = [batch EXCEPT ![w] = @ \ {e}]
  /\ event' = [event EXCEPT ![w] = e]
  /\ pc' = [pc EXCEPT ![w] = "read"]
  /\ UNCHANGED <<tables, poolOpen, queue, tx, faults>>

\* get_or_create_coordination_state, then the event's flag is set on the copy.
Read(w) ==
  /\ pc[w] = "read"
  /\ row' = [row EXCEPT ![w] = WithEvent(coord[AccountOf[event[w]]], event[w])]
  /\ pc' = [pc EXCEPT ![w] = "forward"]
  /\ UNCHANGED <<tables, poolOpen, queue, batch, event, emits, spawn, faults>>

\* The sponsor and pot bonus contexts and, for a matrix cycle, the +9 points
\* in the flushline, whose graduations become outbox rows of this transaction.
Forward(w) ==
  /\ pc[w] = "forward"
  /\ \E S \in SUBSET Unwritten :
       /\ event[w] \in FlushlineEvents => S = {}
       /\ emits' = [emits EXCEPT ![w] = S]
  /\ pc' = [pc EXCEPT ![w] = "save"]
  /\ UNCHANGED <<tables, poolOpen, queue, batch, event, row, spawn, faults>>

\* save_coordination_state: the upsert waits for the row's lock.
Save(w) ==
  /\ pc[w] = "save"
  /\ \A v \in Workers : ~HoldsRow(v, AccountOf[event[w]])
  /\ pc' = [pc EXCEPT ![w] = "spawn"]
  /\ UNCHANGED <<tables, poolOpen, queue, batch, event, tx, faults>>

\* check_and_spawn_free_account_tx re-reads the row it has just written.
SpawnNothing(w) ==
  /\ pc[w] = "spawn"
  /\ ~Qualifies(row[w])
  /\ pc' = [pc EXCEPT ![w] = "commit"]
  /\ UNCHANGED <<tables, poolOpen, queue, batch, event, tx, faults>>

\* A sponsor is allocated, the new account enters the flushline, which may
\* graduate others, and gets its matrix; the row is overwritten.
SpawnFreeAccount(w) ==
  /\ pc[w] = "spawn"
  /\ Qualifies(row[w])
  /\ poolOpen
  /\ \E S \in SUBSET Unwritten : emits' = [emits EXCEPT ![w] = @ \cup S]
  /\ spawn' = [spawn EXCEPT ![w] = TRUE]
  /\ row' = [row EXCEPT ![w] = SpawnedState]
  /\ pc' = [pc EXCEPT ![w] = "commit"]
  /\ UNCHANGED <<tables, poolOpen, queue, batch, event, faults>>

\* What the tables hold once the transaction of w commits.
CommitTables(w) ==
  LET e == event[w]
      a == AccountOf[e]
  IN  /\ inbox' = inbox \cup {e}
      /\ outbox' = outbox \cup emits[w]
      /\ coord' = [coord EXCEPT ![a] = row[w]]
      /\ applied' = [applied EXCEPT ![e] = @ + 1]
      /\ spawns' = [spawns EXCEPT ![a] = IF spawn[w] THEN @ + 1 ELSE @]
      /\ UNCHANGED processed

\* The handler's local variables are gone.
EndTx(w) == /\ row' = [row EXCEPT ![w] = NewState]
            /\ emits' = [emits EXCEPT ![w] = {}]
            /\ spawn' = [spawn EXCEPT ![w] = FALSE]

\* Faulty variants: an Err is followed by the UPDATE like an Ok, with the row
\* id or without it; an Err leaves the batch.
HandlerFailsMarked(w) ==
  /\ EndTx(w)
  /\ pc' = [pc EXCEPT ![w] = "mark"]
  /\ UNCHANGED <<event, queue, batch>>

HandlerFailsMarkedBlind(w) ==
  /\ EndTx(w)
  /\ event' = [event EXCEPT ![w] = NoEvent]
  /\ pc' = [pc EXCEPT ![w] = "mark"]
  /\ UNCHANGED <<queue, batch>>

HandlerFailsEndingBatch(w) ==
  /\ EndTx(w)
  /\ event' = [event EXCEPT ![w] = NoEvent]
  /\ batch' = [batch EXCEPT ![w] = {}]
  /\ queue' = [queue EXCEPT ![w] = OtherQueue(@)]
  /\ pc' = [pc EXCEPT ![w] = "poll"]

\* The handler returns Err: the transaction is dropped, the error logged, and
\* the loop goes on with the next row.
HandlerFails(w) ==
  /\ EndTx(w)
  /\ event' = [event EXCEPT ![w] = NoEvent]
  /\ pc' = [pc EXCEPT ![w] = "next"]
  /\ UNCHANGED <<queue, batch>>

\* allocate_sponsor finds nobody: the whole transaction rolls back.
SpawnFails(w) ==
  /\ pc[w] = "spawn"
  /\ Qualifies(row[w])
  /\ ~poolOpen
  /\ HandlerFails(w)
  /\ UNCHANGED <<tables, poolOpen, faults>>

Commit(w) ==
  /\ pc[w] = "commit"
  /\ CommitTables(w)
  /\ EndTx(w)
  /\ pc' = [pc EXCEPT ![w] = "mark"]
  /\ UNCHANGED <<poolOpen, queue, batch, event, faults>>

-----------------------------------------------------------------------------
(* Faults: a statement fails, or the process is aborted at an await.       *)

Fault == faults < MaxFaults /\ faults' = faults + 1

\* A query of the handler fails, the inbox insert included.
StatementFails(w) ==
  /\ pc[w] \in InTx
  /\ HandlerFails(w)
  /\ Fault
  /\ UNCHANGED <<tables, poolOpen>>

\* COMMIT takes effect and its answer is lost: the handler returns Err.
CommitUnacknowledged(w) ==
  /\ pc[w] = "commit"
  /\ CommitTables(w)
  /\ HandlerFails(w)
  /\ Fault
  /\ UNCHANGED poolOpen

\* The poll, or the UPDATE of a processed row, fails: `?` leaves the batch.
PollOrMarkFails(w) ==
  /\ pc[w] \in {"poll", "mark"}
  /\ batch' = [batch EXCEPT ![w] = {}]
  /\ event' = [event EXCEPT ![w] = NoEvent]
  /\ queue' = [queue EXCEPT ![w] = OtherQueue(@)]
  /\ pc' = [pc EXCEPT ![w] = "poll"]
  /\ Fault
  /\ UNCHANGED <<tables, poolOpen, tx>>

\* The process dies or is shut down: PostgreSQL rolls its transaction back.
Crash(w) ==
  /\ pc[w] # "down"
  /\ EndTx(w)
  /\ batch' = [batch EXCEPT ![w] = {}]
  /\ event' = [event EXCEPT ![w] = NoEvent]
  /\ pc' = [pc EXCEPT ![w] = "down"]
  /\ Fault
  /\ UNCHANGED <<tables, poolOpen, queue>>

Restart(w) ==
  /\ pc[w] = "down"
  /\ pc' = [pc EXCEPT ![w] = "poll"]
  /\ queue' = [queue EXCEPT ![w] = "matrix"]
  /\ UNCHANGED <<tables, poolOpen, batch, event, tx, faults>>

-----------------------------------------------------------------------------
\* What a daemon does when nothing fails.
Step(w) ==
  \/ Poll(w) \/ EndBatch(w) \/ Mark(w)
  \/ \E e \in Events : ConsumeDuplicate(w, e) \/ Consume(w, e)
  \/ Read(w) \/ Forward(w) \/ Save(w)
  \/ SpawnNothing(w) \/ SpawnFreeAccount(w) \/ SpawnFails(w)
  \/ Commit(w)

Fail(w) == StatementFails(w) \/ CommitUnacknowledged(w) \/ PollOrMarkFails(w) \/ Crash(w)

Next == \/ \E e \in Events : Publish(e)
        \/ PoolChanges
        \/ \E w \in Workers : Step(w) \/ Fail(w) \/ Restart(w)

Spec == Init /\ [][Next]_vars

\* A running daemon keeps executing, and a stopped process is started again.
FairSpec == Spec /\ \A w \in Workers : WF_vars(Step(w)) /\ WF_vars(Restart(w))

-----------------------------------------------------------------------------
(* Properties.                                                             *)

\* The tables hold rows of the migrations' types, and a daemon is always in a
\* known place of its loop, with a row to flag when it is about to flag one.
TypeOK ==
  /\ outbox \subseteq Events /\ processed \subseteq Events /\ inbox \subseteq Events
  /\ coord \in [Accounts -> CoordinatedState]
  /\ applied \in [Events -> Nat]
  /\ spawns \in [Accounts -> Nat]
  /\ poolOpen \in BOOLEAN
  /\ pc \in [Workers -> PCs]
  /\ queue \in [Workers -> Queues]
  /\ batch \in [Workers -> SUBSET Events]
  /\ event \in [Workers -> Events \cup {NoEvent}]
  /\ row \in [Workers -> CoordinatedState]
  /\ emits \in [Workers -> SUBSET FlushlineEvents]
  /\ spawn \in [Workers -> BOOLEAN]
  /\ faults \in 0..MaxFaults

\* An event's effects on the contexts are in the database exactly as often as
\* its id is in the inbox log: once, or not yet.  However many daemons fetch
\* the same row, however often one dies between the commit and the UPDATE, a
\* cycle is never counted twice (lib.rs: handlers in one transaction with
\* mark_event_consumed).
ExactlyOnce == \A e \in Events : applied[e] = (IF e \in inbox THEN 1 ELSE 0)

\* A row flagged processed took effect: an error, a rollback or a crash never
\* loses an event, because only an Ok handler is followed by the UPDATE.
ProcessedTookEffect == \A e \in processed : e \in outbox /\ applied[e] > 0

\* The saga seen through the tables: committed rows, effects and free accounts.
Saga == INSTANCE Saga WITH published <- outbox, effects <- applied, freeAccounts <- spawns

\* A free account is only created for an account whose matrix has cycled and
\* which has graduated, both as events consumed by committed transactions.
SpawnIsEarned == \A a \in Accounts : spawns[a] > 0 => Saga!QualifiedBy(inbox, a)

\* An account never gets a second free account (check_and_spawn tests, and
\* then sets, new_account_spawned).
NoDuplicateSpawn == \A a \in Accounts : spawns[a] <= 1

\* As soon as both criteria are in the database the free account is too: the
\* flag of the first event is still there when the second is handled.
QualifiedHasFreeAccount == \A a \in Accounts : Saga!QualifiedBy(inbox, a) => spawns[a] > 0

\* The orchestrator implements the saga: every step of a daemon consumes one
\* published event with its whole effect, or changes nothing the saga sees.
ImplementsSaga == Saga!SagaSpec

\* If the sponsor pool has room from some point on, every outbox row is
\* eventually flagged processed, whatever crashed, failed or was repeated.
EventuallyProcessed ==
  <>[]poolOpen => \A e \in Events : e \in outbox ~> e \in processed

\* Rows that would spawn a free account and so wait for the sponsor pool.
AwaitingSponsor(q) ==
  {e \in Unprocessed(q) : e \notin inbox /\ Qualifies(WithEvent(coord[AccountOf[e]], e))}

\* As long as fewer than a batch of rows wait for a sponsor, they hold up no
\* other row: a failing handler does not end the batch.
ClosedPoolHoldsUpNobodyElse ==
  [](\A q \in Queues : Cardinality(AwaitingSponsor(q)) < BatchLimit) =>
    \A e \in Events :
      e \in outbox ~> e \in processed \cup AwaitingSponsor("matrix") \cup AwaitingSponsor("flushline")

-----------------------------------------------------------------------------
(* Why the properties hold: the inductive invariants of CoordinatorProofs. *)

\* A handler, and the UPDATE after it, has a row; between rows no transaction
\* is open, so nothing is left of one; a spawn is its last write.
BusyWithRow ==
  \A w \in Workers :
    /\ pc[w] \in InTx \cup {"mark"} => event[w] \in Events
    /\ pc[w] \notin InTx => emits[w] = {}
    /\ pc[w] # "commit" => ~spawn[w]

\* The row of an open transaction is in an outbox and not yet in the inbox
\* log, and no two open transactions handle the same row.
TxIsFresh ==
  /\ \A w \in Workers : pc[w] \in InTx => event[w] \in outbox \ inbox
  /\ \A v, w \in Workers : pc[v] \in InTx /\ pc[w] \in InTx /\ event[v] = event[w] => v = w

\* Fetched rows are outbox rows; the inbox log and the processed flags follow.
RowsInOrder ==
  /\ \A w \in Workers : batch[w] \subseteq outbox
  /\ \A w \in Workers : pc[w] = "mark" => event[w] \in inbox
  /\ inbox \subseteq outbox
  /\ processed \subseteq inbox

\* A flag in the table stands for a consumed event, a flag in a handler's copy
\* for a consumed one or its own, a spawn for one of each kind.
WithOwn(w) == inbox \cup {event[w]}
FlagsAreEarned ==
  /\ \A a \in Accounts : /\ coord[a].cycled => Saga!CycledBy(inbox, a)
                         /\ coord[a].graduated => Saga!GraduatedBy(inbox, a)
  /\ \A w \in Workers : pc[w] \in InTx \ {"read"} =>
       LET a == AccountOf[event[w]]
       IN  /\ row[w].cycled => Saga!CycledBy(WithOwn(w), a)
           /\ row[w].graduated => Saga!GraduatedBy(WithOwn(w), a)
           /\ spawn[w] => Saga!QualifiedBy(WithOwn(w), a)

\* For any number of daemons.
IInv == TypeOK /\ BusyWithRow /\ TxIsFresh /\ RowsInOrder /\ ExactlyOnce
           /\ FlagsAreEarned /\ SpawnIsEarned

\* While no two handlers of an account overlap, which a single daemon's never
\* do, its row tells exactly which criteria it has met: before the spawn by the
\* two flags, afterwards by `spawned`.
RowIsExact(a) ==
  /\ coord[a].spawned <=> Saga!QualifiedBy(inbox, a)
  /\ ~coord[a].spawned => /\ coord[a].cycled <=> Saga!CycledBy(inbox, a)
                          /\ coord[a].graduated <=> Saga!GraduatedBy(inbox, a)
  /\ spawns[a] = IF Saga!QualifiedBy(inbox, a) THEN 1 ELSE 0

\* Its handler's copy is still the stored row with the event's flag set.
CopyIsCurrent(w) ==
  LET s == WithEvent(coord[AccountOf[event[w]]], event[w])
  IN  /\ pc[w] \in {"forward", "save", "spawn"} => row[w] = s /\ ~spawn[w]
      /\ pc[w] = "commit" => \/ Qualifies(s) /\ row[w] = SpawnedState /\ spawn[w]
                             \/ ~Qualifies(s) /\ row[w] = s /\ ~spawn[w]

SerialInv == /\ \A a \in Accounts : RowIsExact(a)
             /\ \A w \in Workers : CopyIsCurrent(w)

==============================================================================
