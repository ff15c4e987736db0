------------------------------- MODULE WebSaga -------------------------------
(***************************************************************************)
(* The saga of the web application (web/src/rfn_store.rs), which runs      *)
(* inside a request and under the write lock of the store.  Placing an     *)
(* account may fill a matrix, which awards points, which may graduate the  *)
(* sponsor, which may spawn a free account, which is placed in turn.       *)
(*                                                                         *)
(* The four functions call each other, and save the whole store in the     *)
(* middle of it.  `todo` is what the request still has to do, the next     *)
(* call first; `disk` is the store as last saved.  A process that dies     *)
(* goes on from `disk`.  Left out of the store: what is only displayed     *)
(* (names, tiers, times, the cycle count of the sponsor statistics), and   *)
(* the users, sessions and challenges of the identity functions.           *)
(***************************************************************************)
EXTENDS Integers, FiniteSets, SequencesExt

CONSTANTS
  Accounts,      \* account ids
  Pool,          \* sponsor_pool: only ever what the store was seeded with
  MatrixSize,    \* slots of a matrix (7 in the code)
  SponsorCap,    \* allocations before the next sponsor's turn (10)
  AwardInputs,   \* the points a request may award, a u32
  Half,          \* 2^31: an i32 is in -Half..(Half - 1), a u32 in 0..(2 * Half - 1)
  MaxPoints,     \* bound: an account with more is awarded no further points
  MaxSignUps,    \* bound: sign-ups in one behaviour, lost ones not counted
  MaxCrashes     \* bound: crashes in one behaviour

ASSUME PoolAssumption == Pool \in Seq(Accounts)
ASSUME AccountsAssumption == IsFiniteSet(Accounts)
ASSUME SizesAssumption ==
  /\ MatrixSize \in Nat \ {0, 1} /\ SponsorCap \in Nat /\ Half \in Nat \ {0}
  /\ AwardInputs \subseteq 0..(2 * Half - 1)
  /\ MaxPoints \in Nat /\ MaxSignUps \in Nat /\ MaxCrashes \in Nat

VARIABLES store, disk, todo, crashes

vars == <<store, disk, todo, crashes>>

CyclePoints == 9      \* awarded to the owner of a full matrix
CardPoints  == 15     \* points that complete the flushline once

Sponsors == {Pool[i] : i \in 1..Len(Pool)}

NoFlags == [graduated |-> FALSE, cycled |-> FALSE, spawned |-> FALSE]
SpawnedFlags == [graduated |-> FALSE, cycled |-> FALSE, spawned |-> TRUE]

\* `signups` is history, for the properties: how often a user has signed up
\* with the id of a; downlines and free accounts are of no user.
EmptyStore ==
  [accounts  |-> {},                              \* keys of flushline_accounts
   signups   |-> [a \in Accounts |-> 0],
   points    |-> [a \in Accounts |-> 0],          \* current_pts
   cycles    |-> [a \in Accounts |-> 0],          \* cycle_count
   events    |-> [a \in Accounts |-> <<>>],       \* graduation_events of a
   graduated |-> {},
   flags     |-> [a \in Accounts |-> NoFlags],    \* coordination_states
   matrices  |-> <<>>,                            \* matrices with their slots
   sponsored |-> [a \in Accounts |-> 0],          \* sponsored_count
   freeOf    |-> [a \in Accounts |-> {}]]         \* FreeAccount_... made for a

-----------------------------------------------------------------------------
(* Points: i32 arithmetic.                                                 *)

AsI32(n) == ((n + Half) % (2 * Half)) - Half

\* Division truncates towards zero.
CardsOf(points) == IF points >= 0 THEN points \div CardPoints
                                  ELSE -((-points) \div CardPoints)

\* Faulty variant: an award completes one card at most.
CompletedOnce(old, new) == IF new > old THEN 1 ELSE 0

Completed(old, new) == IF new > old THEN new - old ELSE 0

\* The store after award_points has credited p points to a.
WithPoints(s, a, p) ==
  LET total == AsI32(s.points[a] + AsI32(p))
      old   == CardsOf(s.points[a])
      more  == Completed(old, CardsOf(total))
      first == total >= CardPoints /\ a \notin s.graduated
  IN  [s EXCEPT !.points[a] = total,
                !.cycles[a] = AsI32(@ + more),
                !.events[a] = @ \o [i \in 1..more |-> old + i],
                !.graduated = IF first THEN @ \cup {a} ELSE @,
                !.flags[a].graduated = @ \/ first]

-----------------------------------------------------------------------------
(* Matrices and sponsors.                                                  *)

NewMatrix(owner, slots) == [owner |-> owner, filling |-> TRUE, slots |-> slots]

WithMatrix(s, owner, slots) == [s EXCEPT !.matrices = Append(@, NewMatrix(owner, slots))]

\* Places of the sponsor's matrices that are "Filling".
FillingOf(s, owner) ==
  {i \in 1..Len(s.matrices) : s.matrices[i].owner = owner /\ s.matrices[i].filling}

CycledOf(s, owner) ==
  {i \in 1..Len(s.matrices) : s.matrices[i].owner = owner /\ ~s.matrices[i].filling}

\* Faulty variant: one criterion suffices.
QualifiesEarly(s, a) == (s.flags[a].graduated \/ s.flags[a].cycled) /\ ~s.flags[a].spawned

Qualifies(s, a) == s.flags[a].graduated /\ s.flags[a].cycled /\ ~s.flags[a].spawned

\* The first sponsor of the pool below the cap, or else the first of all.
AllocatedSponsor(s) ==
  LET i == SelectInSeq(Pool, LAMBDA p : s.sponsored[p] < SponsorCap)
  IN  Pool[IF i = 0 THEN 1 ELSE i]

\* A new account with its own matrix: signed up, or added by its sponsor.
WithAccount(s, a, slots) == WithMatrix([s EXCEPT !.accounts = @ \cup {a}], a, slots)

\* The account a user signs up with replaces the one there is: without points,
\* cycles and graduation.  Its events, flags, free account and matrices remain.
SignedUp(s, a) ==
  [WithAccount(s, a, <<a>>) EXCEPT !.points[a]  = 0,
                                   !.cycles[a]  = 0,
                                   !.graduated  = @ \ {a},
                                   !.signups[a] = @ + 1]

FreshIds == Accounts \ (store.accounts \cup Sponsors)

SignUps(s) == FoldFunction(+, 0, s.signups)

\* Users, whose id a challenge may name once more.
UserIds == {a \in store.accounts : store.signups[a] > 0}

-----------------------------------------------------------------------------
(* What a request still has to do.                                         *)

Place(a, s)  == [call |-> "place", account |-> a, sponsor |-> s]
Award(a, p)  == [call |-> "award", account |-> a, points |-> p]
Check(a)     == [call |-> "check", account |-> a]
Spawn(a, s)  == [call |-> "spawn", account |-> a, sponsor |-> s]
Refill(a)    == [call |-> "refill", account |-> a]
Save         == [call |-> "save"]

Doing(call) == todo # <<>> /\ todo[1].call = call

\* The rest of the request, after the calls that replace the first one.
Then(calls) == todo' = calls \o Tail(todo)

Init == store = EmptyStore /\ disk = EmptyStore /\ todo = <<>> /\ crashes = 0

-----------------------------------------------------------------------------
(* Requests.  The lock is free when nothing is left to do.  The sponsor is  *)
(* any id: a cookie or a parameter names it, or it is the pool's first.     *)

\* register_with_password and the other ways to sign up: the account has its
\* own matrix with itself in slot 1, and the request ends with a save.  The id
\* is fresh, but for register_passkey_finish_signup, which takes the id of its
\* challenge: that of a user when the challenge was made for a login and the
\* user has changed address since (WebAuth).
SignUp(a, s) ==
  /\ todo = <<>>
  /\ SignUps(store) < MaxSignUps
  /\ store' = SignedUp(store, a)
  /\ todo' = <<Place(a, s), Save>>
  /\ UNCHANGED <<disk, crashes>>

\* create_downline_account and simulate_downline_signup: the slots are empty.
AddDownline(a, s) ==
  /\ todo = <<>>
  /\ store' = WithAccount(store, a, <<>>)
  /\ todo' = <<Place(a, s), Save>>
  /\ UNCHANGED <<disk, crashes>>

\* The award_points request; an unknown account is an error before any change.
RequestAward(a, p) ==
  /\ todo = <<>>
  /\ store.points[a] <= MaxPoints
  /\ todo' = <<Award(a, p)>>
  /\ UNCHANGED <<store, disk, crashes>>

-----------------------------------------------------------------------------
(* place_in_matrix                                                         *)

\* The sponsor has no filling matrix: nothing is placed, and nothing said.
PlaceNowhere ==
  /\ Doing("place")
  /\ FillingOf(store, todo[1].sponsor) = {}
  /\ Then(<<Save>>)
  /\ UNCHANGED <<store, disk, crashes>>

\* Faulty variant: one more account is let in.
IsFullLate(slots) == Len(slots) > MatrixSize

IsFull(slots) == Len(slots) = MatrixSize

\* Faulty variants: without a new matrix; without points, hence no check.
AfterLastSlotBare(s)   == <<Award(s, CyclePoints), Save>>
AfterLastSlotUnpaid(s) == <<Refill(s), Save>>

\* The last slot cycles the matrix: points for its owner, then a fresh matrix.
AfterLastSlot(s) == <<Award(s, CyclePoints), Refill(s), Save>>

PlaceInMatrix ==
  /\ Doing("place")
  /\ \E i \in FillingOf(store, todo[1].sponsor) :
       LET slots == Append(store.matrices[i].slots, todo[1].account)
           full  == IsFull(slots)
           s     == todo[1].sponsor
       IN  /\ store' = [store EXCEPT !.matrices[i].slots   = slots,
                                     !.matrices[i].filling = ~full,
                                     !.flags[s].cycled     = @ \/ full]
           /\ Then(IF full THEN AfterLastSlot(s) ELSE <<Save>>)
  /\ UNCHANGED <<disk, crashes>>

RefillMatrix ==
  /\ Doing("refill")
  /\ store' = WithMatrix(store, todo[1].account, <<todo[1].account>>)
  /\ Then(<<>>)
  /\ UNCHANGED <<disk, crashes>>

\* save_state: at the end of place_in_matrix, of a spawn and of a request.
SaveState ==
  /\ Doing("save")
  /\ disk' = store
  /\ Then(<<>>)
  /\ UNCHANGED <<store, crashes>>

-----------------------------------------------------------------------------
(* award_points, check_and_spawn_free_account, allocate_sponsor            *)

\* Credits the points and saves, then checks for a free account.
AwardPoints ==
  /\ Doing("award")
  /\ store' = WithPoints(store, todo[1].account, todo[1].points)
  /\ disk' = store'
  /\ Then(<<Check(todo[1].account)>>)
  /\ UNCHANGED crashes

\* Not qualified, or no sponsor to allocate: that error ends an award request,
\* and place_in_matrix ignores it.
CheckNothing ==
  /\ Doing("check")
  /\ ~Qualifies(store, todo[1].account) \/ Pool = <<>>
  /\ Then(<<>>)
  /\ UNCHANGED <<store, disk, crashes>>

\* Faulty variant: an allocation is not counted.
Uncounted(s, p) == s

Counted(s, p) == [s EXCEPT !.sponsored[p] = @ + 1]

\* allocate_sponsor counts the allocation and saves.
CheckAllocates ==
  /\ Doing("check")
  /\ Qualifies(store, todo[1].account)
  /\ Pool # <<>>
  /\ LET s == AllocatedSponsor(store)
     IN  /\ store' = Counted(store, s)
         /\ Then(<<Spawn(todo[1].account, s)>>)
  /\ disk' = store'
  /\ UNCHANGED crashes

\* The free account gets its matrix and is placed under the allocated sponsor.
SpawnFreeAccount(new) ==
  /\ Doing("spawn")
  /\ LET a == todo[1].account
     IN  store' = [WithAccount(store, new, <<new>>) EXCEPT !.flags[a]  = SpawnedFlags,
                                                           !.freeOf[a] = @ \cup {new}]
  /\ Then(<<Place(new, todo[1].sponsor), Save>>)
  /\ UNCHANGED <<disk, crashes>>

-----------------------------------------------------------------------------
\* The process dies; get_state loads the last saved store.
Crash ==
  /\ crashes < MaxCrashes
  /\ crashes' = crashes + 1
  /\ store' = disk
  /\ todo' = <<>>
  /\ UNCHANGED disk

Request ==
  \/ \E a \in FreshIds : \E s \in Accounts \ {a} : SignUp(a, s) \/ AddDownline(a, s)
  \/ \E a \in UserIds, s \in Accounts : SignUp(a, s)
  \/ \E a \in store.accounts, p \in AwardInputs : RequestAward(a, p)

Continue ==
  \/ PlaceNowhere \/ PlaceInMatrix \/ RefillMatrix \/ SaveState
  \/ AwardPoints \/ CheckNothing \/ CheckAllocates
  \/ \E new \in FreshIds : SpawnFreeAccount(new)

Next == Request \/ Continue \/ Crash

Spec == Init /\ [][Next]_vars

-----------------------------------------------------------------------------
(* Properties, of the store in memory and of the one that was saved last.  *)

Matrices == [owner : Accounts, filling : BOOLEAN, slots : Seq(Accounts)]
Flags    == [graduated : BOOLEAN, cycled : BOOLEAN, spawned : BOOLEAN]
I32      == -Half..(Half - 1)

StoreOK(s) ==
  /\ s.accounts \subseteq Accounts /\ s.graduated \subseteq s.accounts
  /\ s.signups \in [Accounts -> Nat]
  /\ s.points \in [Accounts -> I32] /\ s.cycles \in [Accounts -> I32]
  /\ s.events \in [Accounts -> Seq(I32)]
  /\ s.flags \in [Accounts -> Flags]
  /\ s.matrices \in Seq(Matrices)
  /\ \A i \in 1..Len(s.matrices) : Len(s.matrices[i].slots) <= MatrixSize
  /\ s.sponsored \in [Accounts -> Nat]
  /\ s.freeOf \in [Accounts -> SUBSET s.accounts]

\* Both stores keep their types, and no matrix ever holds an eighth account.
TypeOK == StoreOK(store) /\ StoreOK(disk) /\ crashes \in 0..MaxCrashes

AtRest == todo = <<>>

\* How often the account has been started from nothing.
Starts(s, a) == IF s.signups[a] = 0 THEN 1 ELSE s.signups[a]

\* The places of the events of the card with number n.
EventsOf(s, a, n) == {i \in 1..Len(s.events[a]) : s.events[a][i] = n}

\* The cycle count is the number of completed cards, an account is graduated
\* from its first card on, and its last events are those of these cards, in
\* their order: cycles that come from awards, from filled matrices and after a
\* crash never make two of one card or skip one.  Only a user who signs up
\* once more completes a card again, and never more often than they signed up.
CyclesMatchPoints ==
  \A s \in {store, disk}, a \in Accounts :
    LET cards == s.cycles[a]
        older == Len(s.events[a]) - cards
    IN  /\ cards = CardsOf(s.points[a])
        /\ a \in s.graduated <=> cards > 0
        /\ older >= 0 /\ \A i \in 1..cards : s.events[a][older + i] = i
        /\ \A n \in ToSet(s.events[a]) : Cardinality(EventsOf(s, a, n)) <= Starts(s, a)

\* An account has at most one free account, through every save in the middle
\* of a spawn, every retry after a crash and every further sign-up of its
\* user, and it has once graduated and filled a matrix of its own.
FreeAccountEarnedOnce ==
  \A s \in {store, disk}, a \in Accounts :
    /\ Cardinality(s.freeOf[a]) = (IF s.flags[a].spawned THEN 1 ELSE 0)
    /\ s.freeOf[a] # {} => s.events[a] # <<>> /\ CycledOf(s, a) # {}

\* An account that has graduated and filled a matrix has its free account when
\* the request ends.  After a crash it may still be owed: then both flags are
\* set, so that its next points spawn it.
QualifiedIsPaid ==
  \A s \in {store, disk}, a \in Accounts :
    a \in s.graduated /\ CycledOf(s, a) # {} /\ s.freeOf[a] = {} =>
      /\ Qualifies(s, a)
      /\ AtRest /\ Pool # <<>> => crashes > 0

\* Every account has a matrix that others can be placed in, except that a crash
\* between the save of its points and the refill leaves one without; and none
\* has two, but that every further sign-up of its user adds one for good.
OwnersHaveAMatrix ==
  AtRest =>
    /\ \A a \in Accounts : Cardinality(FillingOf(store, a)) <= Starts(store, a)
    /\ Cardinality({a \in store.accounts : FillingOf(store, a) = {}}) <= crashes

\* Every allocation of a sponsor is for one free account; a crash before that
\* account is saved loses the allocation for good.
AllocationsMatchSpawns ==
  LET allocated == FoldFunction(+, 0, store.sponsored)
      spawned   == Cardinality(UNION {store.freeOf[a] : a \in Accounts})
  IN  AtRest => allocated - spawned \in 0..crashes

\* check_and_spawn_free_account: "Place the free account in the allocated
\* sponsor's matrix".
FreeAccountIsPlaced ==
  AtRest =>
    \A f \in UNION {store.freeOf[a] : a \in Accounts} :
      \E i \in 1..Len(store.matrices) :
        store.matrices[i].owner # f /\ f \in ToSet(store.matrices[i].slots)

==============================================================================
