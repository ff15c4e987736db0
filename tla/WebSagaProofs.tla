----------------------------- MODULE WebSagaProofs -----------------------------
(***************************************************************************)
(* Proofs about WebSaga for any pool and set of accounts, any size of      *)
(* matrices, any awards (also such that wrap) and any number of crashes.   *)
(*                                                                         *)
(* `Consistent(s)` is what every store satisfies that is ever saved, so    *)
(* that a crash preserves it.  `Plan` says what a request may still have   *)
(* to do: after its first call, only saves and at most one refill.  The    *)
(* rest relates the two: who lacks a matrix or is owed a free account is   *)
(* accounted for by what the request still does, or by a crash.            *)
(***************************************************************************)
EXTENDS WebSaga, SequenceTheorems, FiniteSetTheorems, WellFoundedInduction, TLAPS

-----------------------------------------------------------------------------
(* The invariant                                                           *)

Fields ==
  {"accounts", "signups", "points", "cycles", "events", "graduated", "flags", "matrices",
   "sponsored", "freeOf"}

\* A store as far as the properties look at it.
Typed(s) ==
  /\ s = [f \in Fields |-> s[f]]
  /\ s.accounts \subseteq Accounts /\ IsFiniteSet(s.accounts)
  /\ s.signups \in [Accounts -> Nat]
  /\ s.flags \in [Accounts -> Flags]
  /\ s.matrices \in Seq(Matrices)
  /\ s.freeOf \in [Accounts -> SUBSET s.accounts]

\* Owners have accounts, sponsors of the pool have none, and nobody has more
\* matrices that are filling than accounts started with its id.
Owned(s) ==
  /\ s.accounts \cap Sponsors = {}
  /\ \A i \in 1..Len(s.matrices) : s.matrices[i].owner \in s.accounts
  /\ \A a \in Accounts : Cardinality(FillingOf(s, a)) <= Starts(s, a)

\* What the flags of an account tell about its history.
FlagsTellOf(s, a) ==
  /\ s.flags[a].cycled => CycledOf(s, a) # {}
  /\ ~s.flags[a].spawned =>
       /\ s.freeOf[a] = {}
       /\ a \in s.graduated => s.flags[a].graduated
       /\ CycledOf(s, a) # {} => s.flags[a].cycled
  /\ s.flags[a].spawned =>
       /\ \E f \in s.accounts : s.freeOf[a] = {f}
       /\ CycledOf(s, a) # {}

FlagsTell(s) == \A a \in Accounts : FlagsTellOf(s, a)

\* Who has the points of a card is graduated, and who has graduated, if only
\* before another sign-up, has an event of it.
Earned(s) ==
  /\ s.points \in [Accounts -> Int] /\ s.events \in [Accounts -> Seq(Int)]
  /\ \A a \in Accounts :
       /\ s.points[a] >= CardPoints => a \in s.graduated
       /\ s.flags[a].graduated \/ s.flags[a].spawned => s.events[a] # <<>>

Consistent(s) == Typed(s) /\ Owned(s) /\ FlagsTell(s) /\ Earned(s)

Calls ==
  {Place(a, s) : a \in Accounts, s \in Accounts}
  \cup {Spawn(a, s) : a \in Accounts, s \in Sponsors}
  \cup {Award(a, p) : a \in Accounts, p \in AwardInputs \cup {CyclePoints}}
  \cup {Check(a) : a \in Accounts} \cup {Refill(a) : a \in Accounts} \cup {Save}

Refills(q)   == {i \in 1..Len(q) : q[i].call = "refill"}
Refilling(q) == {q[i].account : i \in Refills(q)}

\* What a request still has to do.
Plan(q) ==
  /\ q \in Seq(Calls)
  /\ \A i \in 2..Len(q) : q[i].call \in {"refill", "save"}
  /\ \A i, j \in Refills(q) : i = j
  /\ q # <<>> /\ q[1].call = "place" /\ Refills(q) # {} => q[1].sponsor \in Sponsors

\* The request ends with a save, or has done nothing since its last one.
SavesAtEnd ==
  /\ todo = <<>> => disk = store
  /\ todo # <<>> =>
       \/ todo[Len(todo)] = Save
       \/ /\ Len(todo) = 1
          /\ todo[1].call = "award" \/ (todo[1].call \in {"check", "spawn"} /\ disk = store)

Lacking(s) == {a \in s.accounts : FillingOf(s, a) = {}}

\* Accounts that may have one matrix more.
Refillable(s) == {a \in s.accounts : Cardinality(FillingOf(s, a)) < Starts(s, a)}

\* A request that is cut short may cost one account its matrix.
AtStake(q) == IF q = <<>> THEN 0 ELSE 1

\* Those without a matrix to be placed in, up to the refill of this request.
MatricesLost ==
  /\ Refilling(todo) \subseteq Refillable(store)
  /\ Cardinality(Lacking(store) \ Refilling(todo)) <= crashes
  /\ Cardinality(Lacking(disk)) <= crashes + AtStake(todo)

Owed(s) == {a \in Accounts : a \in s.graduated /\ CycledOf(s, a) # {} /\ s.freeOf[a] = {}}

\* Without a crash nobody is owed a free account but the one whose points this
\* request credits or checks.
NextIsPaid ==
  /\ todo # <<>> /\ todo[1].call = "spawn" => Qualifies(store, todo[1].account)
  /\ crashes = 0 /\ Pool # <<>> =>
       \A a \in Owed(store) :
         /\ todo # <<>> /\ todo[1].call \in {"award", "check", "spawn"}
         /\ todo[1].account = a

IInv ==
  /\ crashes \in Nat
  /\ Consistent(store) /\ Consistent(disk)
  /\ Plan(todo) /\ SavesAtEnd /\ MatricesLost /\ NextIsPaid
-----------------------------------------------------------------------------
(* What the operations do to a store                                       *)

Graduate(flags, a) == [flags EXCEPT ![a].graduated = TRUE]
Cycle(flags, a)    == [flags EXCEPT ![a].cycled = TRUE]

\* Points, cards and allocations are as before.
SameBook(s, t) ==
  /\ t.points = s.points /\ t.cycles = s.cycles /\ t.events = s.events
  /\ t.sponsored = s.sponsored /\ t.signups = s.signups

\* Points change nothing but those of the account, and may graduate it.
LEMMA PointsChange ==
  ASSUME NEW s, Typed(s), NEW a \in Accounts, NEW p, NEW t, t = WithPoints(s, a, p)
  PROVE  /\ t = [f \in Fields |-> t[f]]
         /\ t.accounts = s.accounts /\ t.matrices = s.matrices /\ t.freeOf = s.freeOf
         /\ t.signups = s.signups
         /\ \/ t.graduated = s.graduated /\ t.flags = s.flags
            \/ /\ a \notin s.graduated /\ t.graduated = s.graduated \cup {a}
               /\ t.flags = Graduate(s.flags, a)
<1> DEFINE total == AsI32(s.points[a] + AsI32(p))
           old   == CardsOf(s.points[a])
           more  == Completed(old, CardsOf(total))
           first == total >= CardPoints /\ a \notin s.graduated
           q1 == [s.points EXCEPT ![a] = total]
           q2 == [s.cycles EXCEPT ![a] = AsI32(@ + more)]
           q3 == [s.events EXCEPT ![a] = @ \o [i \in 1..more |-> old + i]]
           q4 == IF first THEN s.graduated \cup {a} ELSE s.graduated
           q5 == [s.flags EXCEPT ![a].graduated = @ \/ first]
<1>1. s = [f \in Fields |-> s[f]] /\ s.flags \in [Accounts -> Flags]
  BY DEF Typed
<1>2. t = [s EXCEPT !.points = q1, !.cycles = q2, !.events = q3, !.graduated = q4, !.flags = q5]
  BY DEF WithPoints
<1>0. first \in BOOLEAN
  OBVIOUS
<1> HIDE DEF q1, q2, q3, q4, q5, first
<1>3. /\ t = [f \in Fields |-> t[f]]
      /\ t.accounts = s.accounts /\ t.matrices = s.matrices /\ t.freeOf = s.freeOf
      /\ t.signups = s.signups /\ t.graduated = q4 /\ t.flags = q5
  BY <1>1, <1>2 DEF Fields
<1>4. q5 = IF first THEN Graduate(s.flags, a) ELSE s.flags
  BY <1>0, <1>1 DEF q5, Flags, Graduate
<1> QED BY <1>3, <1>4 DEF q4, first

\* The books after an award.
PointsBooked(s, a, t, total, old, more) ==
  /\ t.points = [s.points EXCEPT ![a] = total]
  /\ t.cycles = [s.cycles EXCEPT ![a] = AsI32(@ + more)]
  /\ t.events = [s.events EXCEPT ![a] = @ \o [i \in 1..more |-> old + i]]
  /\ t.graduated = IF total >= CardPoints THEN s.graduated \cup {a} ELSE s.graduated
  /\ t.sponsored = s.sponsored /\ t.accounts = s.accounts /\ t.freeOf = s.freeOf
  /\ t.matrices = s.matrices /\ t.signups = s.signups

LEMMA PointsBook ==
  ASSUME NEW s, Typed(s), NEW a \in Accounts, NEW p, NEW t, t = WithPoints(s, a, p),
         NEW total, total = AsI32(s.points[a] + AsI32(p)),
         NEW old, old = CardsOf(s.points[a]),
         NEW more, more = Completed(old, CardsOf(total))
  PROVE  PointsBooked(s, a, t, total, old, more)
<1> DEFINE first == total >= CardPoints /\ a \notin s.graduated
           q1 == [s.points EXCEPT ![a] = total]
           q2 == [s.cycles EXCEPT ![a] = AsI32(@ + more)]
           q3 == [s.events EXCEPT ![a] = @ \o [i \in 1..more |-> old + i]]
           q4 == IF first THEN s.graduated \cup {a} ELSE s.graduated
           q5 == [s.flags EXCEPT ![a].graduated = @ \/ first]
<1>1. s = [f \in Fields |-> s[f]]
  BY DEF Typed
<1>2. t = [s EXCEPT !.points = q1, !.cycles = q2, !.events = q3, !.graduated = q4, !.flags = q5]
  BY DEF WithPoints
<1>3. q4 = IF total >= CardPoints THEN s.graduated \cup {a} ELSE s.graduated
  <2>1. a \in s.graduated => s.graduated \cup {a} = s.graduated
    OBVIOUS
  <2> QED BY <2>1
<1> HIDE DEF q1, q2, q3, q4, q5
<1>4. /\ t.points = q1 /\ t.cycles = q2 /\ t.events = q3 /\ t.graduated = q4
      /\ t.sponsored = s.sponsored /\ t.accounts = s.accounts /\ t.freeOf = s.freeOf
      /\ t.matrices = s.matrices /\ t.signups = s.signups
  BY <1>1, <1>2 DEF Fields
<1> QED BY <1>3, <1>4 DEF q1, q2, q3, PointsBooked

\* An account in the last place of a filling matrix.
Filled(s, i, o, slots, full) ==
  [s EXCEPT !.matrices[i].slots = slots, !.matrices[i].filling = ~full,
            !.flags[o].cycled   = @ \/ full]

LEMMA FilledChange ==
  ASSUME NEW s, Typed(s), NEW o \in Accounts, NEW i \in FillingOf(s, o),
         NEW slots \in Seq(Accounts), NEW full \in BOOLEAN, NEW t, t = Filled(s, i, o, slots, full)
  PROVE  /\ t = [f \in Fields |-> t[f]]
         /\ t.accounts = s.accounts /\ t.graduated = s.graduated /\ t.freeOf = s.freeOf
         /\ t.matrices \in Seq(Matrices) /\ Len(t.matrices) = Len(s.matrices)
         /\ \A j \in 1..Len(s.matrices) :
              /\ t.matrices[j].owner = s.matrices[j].owner
              /\ t.matrices[j].filling = IF j = i THEN ~full ELSE s.matrices[j].filling
              /\ t.matrices[j].slots = IF j = i THEN slots ELSE s.matrices[j].slots
         /\ SameBook(s, t)
         /\ t.flags = IF full THEN Cycle(s.flags, o) ELSE s.flags
<1> DEFINE m == [s.matrices EXCEPT ![i] = [owner |-> s.matrices[i].owner, filling |-> ~full,
                                           slots |-> slots]]
           g == [s.flags EXCEPT ![o].cycled = @ \/ full]
<1>1. /\ s = [f \in Fields |-> s[f]] /\ s.flags \in [Accounts -> Flags]
      /\ s.matrices \in Seq(Matrices) /\ i \in 1..Len(s.matrices)
      /\ s.matrices[i] \in Matrices /\ s.matrices[i].owner \in Accounts
      /\ \A j \in 1..Len(s.matrices) : s.matrices[j] \in Matrices
      /\ DOMAIN s.matrices = 1..Len(s.matrices)
  BY LenProperties, ElementOfSeq DEF Typed, FillingOf, Matrices
<1>2. t = [s EXCEPT !.matrices = m, !.flags = g]
  <2> DEFINE m1 == [s.matrices EXCEPT ![i].slots = slots]
             m2 == [m1 EXCEPT ![i].filling = ~full]
  <2>1. m2 = m
    <3>1. [[s.matrices[i] EXCEPT !.slots = slots] EXCEPT !.filling = ~full]
            = [owner |-> s.matrices[i].owner, filling |-> ~full, slots |-> slots]
      <4> DEFINE r == s.matrices[i]
      <4>1. r = [owner |-> r.owner, filling |-> r.filling, slots |-> r.slots]
        BY <1>1 DEF Matrices
      <4> HIDE DEF r
      <4>2. [r EXCEPT !.slots = slots] = [owner |-> r.owner, filling |-> r.filling, slots |-> slots]
        BY <4>1
      <4>3. [[r EXCEPT !.slots = slots] EXCEPT !.filling = ~full]
              = [owner |-> r.owner, filling |-> ~full, slots |-> slots]
        <5>1. [[owner |-> r.owner, filling |-> r.filling, slots |-> slots] EXCEPT !.filling = ~full]
                = [owner |-> r.owner, filling |-> ~full, slots |-> slots]
          OBVIOUS
        <5> QED BY <4>2, <5>1
      <4> QED BY <4>3 DEF r
    <3> QED BY <1>1, <3>1
  <2>2. t = [s EXCEPT !.matrices = m2, !.flags = g]
    <3>1. t = [[[s EXCEPT !.matrices = m1] EXCEPT !.matrices[i].filling = ~full]
                 EXCEPT !.flags[o].cycled = @ \/ full]
      BY DEF Filled
    <3>2. [[s EXCEPT !.matrices = m1] EXCEPT !.matrices[i].filling = ~full]
            = [s EXCEPT !.matrices = m2]
      BY <1>1 DEF Fields
    <3> HIDE DEF m2
    <3> QED BY <1>1, <3>1, <3>2 DEF Fields
  <2> HIDE DEF m2
  <2> QED BY <2>1, <2>2
<1>3. [owner |-> s.matrices[i].owner, filling |-> ~full, slots |-> slots] \in Matrices
  BY <1>1 DEF Matrices
<1>4. /\ m \in Seq(Matrices) /\ Len(m) = Len(s.matrices)
      /\ \A j \in 1..Len(s.matrices) :
           /\ m[j].owner = s.matrices[j].owner
           /\ m[j].filling = IF j = i THEN ~full ELSE s.matrices[j].filling
           /\ m[j].slots = IF j = i THEN slots ELSE s.matrices[j].slots
  BY <1>1, <1>3, ExceptSeq
<1>5. g = IF full THEN Cycle(s.flags, o) ELSE s.flags
  BY <1>1, ZenonT(40) DEF Flags, Cycle
<1> HIDE DEF m, g
<1>6. /\ t = [f \in Fields |-> t[f]]
      /\ t.accounts = s.accounts /\ t.graduated = s.graduated /\ t.freeOf = s.freeOf
      /\ t.matrices = m /\ t.flags = g /\ SameBook(s, t)
  BY <1>1, <1>2 DEF Fields, SameBook
<1> QED BY <1>4, <1>5, <1>6

LEMMA MatrixChange ==
  ASSUME NEW s, Typed(s), NEW o \in Accounts, NEW slots \in Seq(Accounts),
         NEW t, t = WithMatrix(s, o, slots)
  PROVE  /\ t = [f \in Fields |-> t[f]]
         /\ t.accounts = s.accounts /\ t.graduated = s.graduated /\ t.freeOf = s.freeOf
         /\ t.flags = s.flags
         /\ t.matrices \in Seq(Matrices) /\ Len(t.matrices) = Len(s.matrices) + 1
         /\ \A j \in 1..Len(s.matrices) : t.matrices[j] = s.matrices[j]
         /\ t.matrices[Len(s.matrices) + 1].owner = o
         /\ t.matrices[Len(s.matrices) + 1].filling
         /\ t.matrices[Len(s.matrices) + 1].slots = slots
         /\ SameBook(s, t)
<1> DEFINE m == Append(s.matrices, NewMatrix(o, slots))
<1>1. s = [f \in Fields |-> s[f]] /\ s.matrices \in Seq(Matrices)
  BY DEF Typed
<1>2. NewMatrix(o, slots) \in Matrices /\ NewMatrix(o, slots).owner = o /\ NewMatrix(o, slots).filling
      /\ NewMatrix(o, slots).slots = slots
  BY DEF NewMatrix, Matrices
<1>3. t = [s EXCEPT !.matrices = m]
  BY DEF WithMatrix
<1>4. /\ m \in Seq(Matrices) /\ Len(m) = Len(s.matrices) + 1
      /\ \A j \in 1..Len(s.matrices) : m[j] = s.matrices[j]
      /\ m[Len(s.matrices) + 1] = NewMatrix(o, slots)
  BY <1>1, <1>2, AppendProperties
<1> HIDE DEF m
<1>5. /\ t = [f \in Fields |-> t[f]]
      /\ t.accounts = s.accounts /\ t.graduated = s.graduated /\ t.freeOf = s.freeOf
      /\ t.flags = s.flags /\ t.matrices = m /\ SameBook(s, t)
  BY <1>1, <1>3 DEF Fields, SameBook
<1> QED BY <1>2, <1>4, <1>5
\* A fresh account with its matrix.
LEMMA AccountChange ==
  ASSUME NEW s, Typed(s), NEW a \in Accounts, NEW slots \in Seq(Accounts),
         NEW t, t = WithAccount(s, a, slots)
  PROVE  /\ t = [f \in Fields |-> t[f]]
         /\ t.accounts = s.accounts \cup {a} /\ t.graduated = s.graduated
         /\ t.freeOf = s.freeOf /\ t.flags = s.flags
         /\ t.matrices \in Seq(Matrices) /\ Len(t.matrices) = Len(s.matrices) + 1
         /\ \A j \in 1..Len(s.matrices) : t.matrices[j] = s.matrices[j]
         /\ t.matrices[Len(s.matrices) + 1].owner = a
         /\ t.matrices[Len(s.matrices) + 1].filling
         /\ t.matrices[Len(s.matrices) + 1].slots = slots
         /\ SameBook(s, t)
<1> DEFINE r == [s EXCEPT !.accounts = @ \cup {a}]
<1>1. /\ r = [f \in Fields |-> r[f]]
      /\ r.accounts = s.accounts \cup {a} /\ r.graduated = s.graduated
      /\ r.freeOf = s.freeOf /\ r.flags = s.flags /\ r.matrices = s.matrices
      /\ SameBook(s, r)
  BY DEF Typed, Fields, SameBook
<1>2. t = WithMatrix(r, a, slots)
  BY DEF WithAccount
<1> HIDE DEF r
<1>3. Typed(r)
  <2>1. IsFiniteSet(s.accounts \cup {a})
    BY FS_AddElement DEF Typed
  <2>2. s.freeOf \in [Accounts -> SUBSET (s.accounts \cup {a})]
    BY DEF Typed
  <2>3. r.signups = s.signups
    BY <1>1 DEF SameBook
  <2> QED BY <1>1, <2>1, <2>2, <2>3 DEF Typed
<1>4. /\ t = [f \in Fields |-> t[f]]
      /\ t.accounts = r.accounts /\ t.graduated = r.graduated /\ t.freeOf = r.freeOf
      /\ t.flags = r.flags
      /\ t.matrices \in Seq(Matrices) /\ Len(t.matrices) = Len(r.matrices) + 1
      /\ \A j \in 1..Len(r.matrices) : t.matrices[j] = r.matrices[j]
      /\ t.matrices[Len(r.matrices) + 1].owner = a
      /\ t.matrices[Len(r.matrices) + 1].filling
      /\ t.matrices[Len(r.matrices) + 1].slots = slots
      /\ SameBook(r, t)
  BY <1>2, <1>3, MatrixChange
<1>5. SameBook(s, t)
  BY <1>1, <1>4 DEF SameBook
<1> QED BY <1>1, <1>4, <1>5, ZenonT(40)

-----------------------------------------------------------------------------
(* Consistency is kept                                                     *)

LEMMA GraduatedSet ==
  ASSUME NEW F \in [Accounts -> Flags], NEW a \in Accounts,
         NEW G, G = Graduate(F, a)
  PROVE  /\ G \in [Accounts -> Flags] /\ \A b \in Accounts \ {a} : G[b] = F[b]
         /\ G[a].graduated /\ G[a].cycled = F[a].cycled /\ G[a].spawned = F[a].spawned
<1>1. G \in [Accounts -> Flags]
  BY DEF Flags, Graduate
<1>2. \A b \in Accounts \ {a} : G[b] = F[b]
  BY DEF Flags, Graduate
<1>3. G[a].graduated
  BY DEF Flags, Graduate
<1>4. G[a].cycled = F[a].cycled /\ G[a].spawned = F[a].spawned
  BY DEF Flags, Graduate
<1> QED BY <1>1, <1>2, <1>3, <1>4

LEMMA CycledSet ==
  ASSUME NEW F \in [Accounts -> Flags], NEW a \in Accounts,
         NEW G, G = Cycle(F, a)
  PROVE  /\ G \in [Accounts -> Flags] /\ \A b \in Accounts \ {a} : G[b] = F[b]
         /\ G[a].cycled /\ G[a].graduated = F[a].graduated /\ G[a].spawned = F[a].spawned
<1>1. G \in [Accounts -> Flags]
  BY DEF Flags, Cycle
<1>2. \A b \in Accounts \ {a} : G[b] = F[b]
  BY DEF Flags, Cycle
<1>3. G[a].cycled
  BY DEF Flags, Cycle
<1>4. G[a].graduated = F[a].graduated /\ G[a].spawned = F[a].spawned
  BY DEF Flags, Cycle
<1> QED BY <1>1, <1>2, <1>3, <1>4

\* Nothing about matrices or accounts changes.
SameMatrices(s, t) ==
  /\ t.accounts = s.accounts /\ t.signups = s.signups /\ Len(t.matrices) = Len(s.matrices)
  /\ \A j \in 1..Len(s.matrices) :
       /\ t.matrices[j].owner = s.matrices[j].owner
       /\ t.matrices[j].filling = s.matrices[j].filling

LEMMA MatricesSame ==
  ASSUME NEW s, Typed(s), NEW t, SameMatrices(s, t)
  PROVE  /\ \A a \in Accounts : FillingOf(t, a) = FillingOf(s, a) /\ CycledOf(t, a) = CycledOf(s, a)
         /\ Lacking(t) = Lacking(s)
         /\ Refillable(t) = Refillable(s)
         /\ Owned(s) => Owned(t)
<1>1. \A a : FillingOf(t, a) = FillingOf(s, a) /\ CycledOf(t, a) = CycledOf(s, a)
  BY DEF SameMatrices, FillingOf, CycledOf
<1>2. Owned(s) => Owned(t)
  BY <1>1 DEF SameMatrices, Owned, Starts
<1>3. Refillable(t) = Refillable(s)
  BY <1>1 DEF SameMatrices, Refillable, Starts
<1> QED BY <1>1, <1>2, <1>3 DEF Lacking, SameMatrices

\* Neither points nor events nor who has graduated changes, nor are there flags
\* of anybody who has had none.
LEMMA EarnedAsBefore ==
  ASSUME NEW s, Earned(s), NEW t, t.points = s.points, t.events = s.events,
         t.graduated = s.graduated,
         \A a \in Accounts : t.flags[a].graduated \/ t.flags[a].spawned =>
                              s.flags[a].graduated \/ s.flags[a].spawned
  PROVE  Earned(t)
BY DEF Earned

\* The points of a card complete one that fewer points have not.
LEMMA FirstCard ==
  ASSUME NEW p \in Int, NEW q \in Int, p < CardPoints, q >= CardPoints
  PROVE  Completed(CardsOf(p), CardsOf(q)) >= 1
<1>1. CardsOf(q) >= 1 /\ CardsOf(q) \in Int
  <2>1. q \div 15 >= 1 /\ q \div 15 \in Int
    BY DEF CardPoints
  <2> QED BY <2>1 DEF CardsOf, CardPoints
<1>2. CardsOf(p) <= 0 /\ CardsOf(p) \in Int
  <2>1. CASE p >= 0
    <3>1. p \div 15 = 0
      BY <2>1 DEF CardPoints
    <3> QED BY <2>1, <3>1 DEF CardsOf, CardPoints
  <2>2. CASE p < 0
    <3>1. (-p) \div 15 \in Nat
      BY <2>2
    <3> QED BY <2>2, <3>1 DEF CardsOf, CardPoints
  <2> QED BY <2>1, <2>2
<1> QED BY <1>1, <1>2 DEF Completed

LEMMA PointsEarn ==
  ASSUME NEW s, Consistent(s), NEW a \in Accounts, NEW p \in Int,
         NEW t, t = WithPoints(s, a, p),
         \/ t.graduated = s.graduated /\ t.flags = s.flags
         \/ /\ a \notin s.graduated /\ t.graduated = s.graduated \cup {a}
            /\ t.flags = Graduate(s.flags, a)
  PROVE  Earned(t)
<1>1. PICK total : total = AsI32(s.points[a] + AsI32(p))
  OBVIOUS
<1>2. PICK old : old = CardsOf(s.points[a])
  OBVIOUS
<1>3. PICK more : more = Completed(old, CardsOf(total))
  OBVIOUS
<1>4. PICK cards : cards = [i \in 1..more |-> old + i]
  OBVIOUS
<1>5. /\ Typed(s) /\ s.flags \in [Accounts -> Flags]
      /\ s.points \in [Accounts -> Int] /\ s.events \in [Accounts -> Seq(Int)]
      /\ \A b \in Accounts :
           /\ s.points[b] >= CardPoints => b \in s.graduated
           /\ s.flags[b].graduated \/ s.flags[b].spawned => s.events[b] # <<>>
  BY DEF Consistent, Typed, Earned
<1>6. PointsBooked(s, a, t, total, old, more)
  BY <1>1, <1>2, <1>3, <1>5, PointsBook
<1>7. /\ t.points = [s.points EXCEPT ![a] = total]
      /\ t.events = [s.events EXCEPT ![a] = @ \o cards]
      /\ t.graduated = IF total >= CardPoints THEN s.graduated \cup {a} ELSE s.graduated
  BY <1>4, <1>6 DEF PointsBooked
<1>8. total \in Int /\ old \in Int /\ more \in Nat
  <2>1. ASSUME NEW n \in Int PROVE AsI32(n) \in Int
    <3>1. (n + Half) % (2 * Half) \in Int /\ Half \in Int
      BY SizesAssumption
    <3> QED BY <3>1 DEF AsI32
  <2>2. ASSUME NEW n \in Int PROVE CardsOf(n) \in Int
    BY <2>2 DEF CardsOf, CardPoints
  <2>3. s.points[a] \in Int
    BY <1>5
  <2>4. total \in Int
    <3>1. AsI32(p) \in Int
      BY <2>1
    <3>2. s.points[a] + AsI32(p) \in Int
      BY <2>3, <3>1
    <3> QED BY <1>1, <2>1, <3>2
  <2>5. old \in Int /\ CardsOf(total) \in Int
    BY <1>2, <2>2, <2>3, <2>4
  <2> QED BY <1>3, <2>4, <2>5 DEF Completed
<1>9. cards \in Seq(Int) /\ Len(cards) = more
  <2>1. \A i \in 1..more : old + i \in Int
    BY <1>8
  <2> QED BY <1>4, <1>8, <2>1
<1>10. /\ s.events[a] \o cards \in Seq(Int)
       /\ s.events[a] # <<>> \/ more >= 1 => s.events[a] \o cards # <<>>
  <2>1. s.events[a] \in Seq(Int)
    BY <1>5
  <2>2. /\ s.events[a] \o cards \in Seq(Int)
        /\ Len(s.events[a] \o cards) = Len(s.events[a]) + more
    BY <1>9, <2>1, ConcatProperties, ZenonT(30)
  <2>3. Len(s.events[a]) \in Nat /\ (s.events[a] # <<>> => Len(s.events[a]) # 0)
    BY <2>1, EmptySeq
  <2>4. s.events[a] # <<>> \/ more >= 1 => Len(s.events[a] \o cards) # 0
    BY <1>8, <2>2, <2>3
  <2> QED BY <2>2, <2>4, EmptySeq
<1>11. t.points \in [Accounts -> Int]
  BY <1>5, <1>7, <1>8
<1>12. t.events \in [Accounts -> Seq(Int)]
  <2>1. PICK e : e = s.events[a] \o cards
    OBVIOUS
  <2>2. t.events = [s.events EXCEPT ![a] = e] /\ e \in Seq(Int)
    BY <1>7, <1>10, <2>1
  <2> QED BY <1>5, <2>2
<1>13. ASSUME NEW b \in Accounts PROVE t.points[b] >= CardPoints => b \in t.graduated
  <2>1. t.points[b] = IF b = a THEN total ELSE s.points[b]
    BY <1>5, <1>7
  <2> QED BY <1>5, <1>7, <2>1
<1>14. ASSUME NEW b \in Accounts, t.flags[b].graduated \/ t.flags[b].spawned
       PROVE  t.events[b] # <<>>
  <2>1. t.events[b] = IF b = a THEN s.events[a] \o cards ELSE s.events[b]
    BY <1>5, <1>7
  <2>2. CASE s.flags[b].graduated \/ s.flags[b].spawned
    BY <1>5, <1>10, <2>1, <2>2
  <2>3. CASE ~(s.flags[b].graduated \/ s.flags[b].spawned)
    <3>1. a \notin s.graduated /\ a \in t.graduated /\ t.flags = Graduate(s.flags, a)
      BY <1>14, <2>3
    <3>2. \A c \in Accounts \ {a} : t.flags[c] = s.flags[c]
      <4>1. s.flags \in [Accounts -> Flags] /\ t.flags = Graduate(s.flags, a)
        BY <1>5, <3>1
      <4> QED BY <4>1, GraduatedSet
    <3>3. b = a
      BY <1>14, <2>3, <3>2
    <3>4. total >= CardPoints /\ ~(s.points[a] >= CardPoints)
      BY <1>5, <1>7, <3>1
    <3>5. more >= 1
      <4>1. s.points[a] \in Int /\ s.points[a] < CardPoints
        BY <1>5, <3>4 DEF CardPoints
      <4> QED BY <1>2, <1>3, <1>8, <3>4, <4>1, FirstCard
    <3> QED BY <1>10, <2>1, <3>3, <3>5
  <2> QED BY <2>2, <2>3
<1> QED BY <1>11, <1>12, <1>13, <1>14 DEF Earned

LEMMA PointsKeep ==
  ASSUME NEW s, Consistent(s), NEW a \in Accounts, NEW p \in Int, NEW t, t = WithPoints(s, a, p)
  PROVE  /\ Consistent(t) /\ Lacking(t) = Lacking(s) /\ Refillable(t) = Refillable(s)
         /\ Owed(t) \subseteq Owed(s) \cup {a}
<1>1. /\ t = [f \in Fields |-> t[f]] /\ Typed(s)
      /\ t.accounts = s.accounts /\ t.matrices = s.matrices /\ t.freeOf = s.freeOf
      /\ t.signups = s.signups
      /\ \/ t.graduated = s.graduated /\ t.flags = s.flags
         \/ /\ a \notin s.graduated /\ t.graduated = s.graduated \cup {a}
            /\ t.flags = Graduate(s.flags, a)
  BY PointsChange DEF Consistent
<1>2. SameMatrices(s, t)
  BY <1>1 DEF SameMatrices
<1>3. /\ \A b \in Accounts : CycledOf(t, b) = CycledOf(s, b)
      /\ Lacking(t) = Lacking(s) /\ Refillable(t) = Refillable(s) /\ Owned(t)
  BY <1>1, <1>2, MatricesSame DEF Consistent
<1>e. Earned(t)
  BY <1>1, PointsEarn
<1>4. CASE t.graduated = s.graduated /\ t.flags = s.flags
  <2>1. Typed(t)
    BY <1>1, <1>4 DEF Typed
  <2>2. FlagsTell(t)
    BY <1>1, <1>3, <1>4, SMTT(40) DEF Consistent, FlagsTell, FlagsTellOf
  <2> QED BY <1>1, <1>3, <1>4, <1>e, <2>1, <2>2 DEF Consistent, Owed
<1>5. CASE /\ a \notin s.graduated /\ t.graduated = s.graduated \cup {a}
           /\ t.flags = Graduate(s.flags, a)
  <2>1. s.flags \in [Accounts -> Flags]
    BY <1>1 DEF Typed
  <2>2. /\ t.flags \in [Accounts -> Flags]
        /\ \A b \in Accounts \ {a} : t.flags[b] = s.flags[b]
        /\ t.flags[a].graduated /\ t.flags[a].cycled = s.flags[a].cycled
        /\ t.flags[a].spawned = s.flags[a].spawned
    BY <1>5, <2>1, GraduatedSet
  <2>3. Typed(t)
    BY <1>1, <2>2 DEF Typed
  <2>4. FlagsTell(t)
    <3> SUFFICES ASSUME NEW b \in Accounts PROVE FlagsTellOf(t, b)
      BY DEF FlagsTell
    <3>1. FlagsTellOf(s, b)
      BY DEF Consistent, FlagsTell
    <3>2. CASE b = a
      BY <1>1, <1>3, <1>5, <2>2, <3>1, <3>2 DEF FlagsTellOf
    <3>3. CASE b # a
      BY <1>1, <1>3, <1>5, <2>2, <3>1, <3>3 DEF FlagsTellOf
    <3> QED BY <3>2, <3>3
  <2> QED BY <1>1, <1>3, <1>5, <1>e, <2>3, <2>4 DEF Consistent, Owed
<1> QED BY <1>1, <1>4, <1>5

\* A finite set without one of its members, and with one more at most.
LEMMA OneLess ==
  ASSUME NEW S, IsFiniteSet(S), NEW x
  PROVE  /\ Cardinality(S) \in Nat
         /\ x \in S => Cardinality(S \ {x}) = Cardinality(S) - 1
         /\ Cardinality(S \cup {x}) <= Cardinality(S) + 1
<1>1. Cardinality(S) \in Nat
  BY FS_CardinalityType
<1>2. x \in S => Cardinality(S \ {x}) = Cardinality(S) - 1
  BY FS_RemoveElement
<1>3. CASE x \in S
  <2>1. S \cup {x} = S
    BY <1>3
  <2> QED BY <1>1, <1>2, <2>1
<1>4. CASE x \notin S
  <2>1. Cardinality(S \cup {x}) = Cardinality(S) + 1
    BY <1>4, FS_AddElement
  <2> QED BY <1>1, <1>2, <2>1
<1> QED BY <1>3, <1>4

LEMMA FillingIsFinite ==
  ASSUME NEW s, Typed(s), NEW a
  PROVE  IsFiniteSet(FillingOf(s, a)) /\ Cardinality(FillingOf(s, a)) \in Nat
<1>1. Len(s.matrices) \in Nat
  BY LenProperties DEF Typed
<1>2. IsFiniteSet(1..Len(s.matrices)) /\ FillingOf(s, a) \subseteq 1..Len(s.matrices)
  <2>1. IsFiniteSet(1..Len(s.matrices))
    BY <1>1, FS_Interval
  <2> QED BY <2>1 DEF FillingOf
<1> QED BY <1>2, FS_Subset, FS_CardinalityType

LEMMA StartsTyped ==
  ASSUME NEW s, Typed(s), NEW a \in Accounts
  PROVE  Starts(s, a) \in Nat \ {0}
BY DEF Typed, Starts

LEMMA FilledKeeps ==
  ASSUME NEW s, Consistent(s), NEW o \in Accounts, NEW i \in FillingOf(s, o),
         NEW slots \in Seq(Accounts), NEW full \in BOOLEAN, NEW t, t = Filled(s, i, o, slots, full)
  PROVE  /\ Consistent(t)
         /\ o \in s.accounts /\ t.accounts = s.accounts
         /\ Lacking(t) \subseteq (IF full THEN Lacking(s) \cup {o} ELSE Lacking(s))
         /\ ~full => Lacking(t) = Lacking(s) /\ Refillable(t) = Refillable(s)
         /\ full => o \in Refillable(t)
         /\ Owed(t) \subseteq (IF full THEN Owed(s) \cup {o} ELSE Owed(s))
<1>1. /\ t = [f \in Fields |-> t[f]] /\ Typed(s)
      /\ t.accounts = s.accounts /\ t.graduated = s.graduated /\ t.freeOf = s.freeOf
      /\ t.matrices \in Seq(Matrices) /\ Len(t.matrices) = Len(s.matrices)
      /\ \A j \in 1..Len(s.matrices) :
           /\ t.matrices[j].owner = s.matrices[j].owner
           /\ t.matrices[j].filling = IF j = i THEN ~full ELSE s.matrices[j].filling
      /\ t.flags = (IF full THEN Cycle(s.flags, o) ELSE s.flags) /\ SameBook(s, t)
  BY FilledChange DEF Consistent
<1>2. /\ i \in 1..Len(s.matrices) /\ s.matrices[i].owner = o /\ s.matrices[i].filling
      /\ o \in s.accounts
  BY DEF FillingOf, Consistent, Owned
<1>5. t.points = s.points /\ t.events = s.events /\ t.signups = s.signups
  BY <1>1 DEF SameBook
<1>3. CASE ~full
  <2>1. SameMatrices(s, t)
    <3>1. \A j \in 1..Len(s.matrices) : s.matrices[j].filling \in BOOLEAN
      <4>1. \A j \in 1..Len(s.matrices) : s.matrices[j] \in Matrices
        BY <1>1, ElementOfSeq DEF Typed
      <4> QED BY <4>1 DEF Matrices
    <3>2. ASSUME NEW j \in 1..Len(s.matrices)
          PROVE  t.matrices[j].filling = s.matrices[j].filling
      BY <1>1, <1>2, <1>3, <3>1
    <3> QED BY <1>1, <1>5, <3>2 DEF SameMatrices
  <2>2. /\ \A b \in Accounts : CycledOf(t, b) = CycledOf(s, b)
        /\ Lacking(t) = Lacking(s) /\ Refillable(t) = Refillable(s) /\ Owned(t)
    BY <1>1, <2>1, MatricesSame DEF Consistent
  <2>3. Typed(t)
    BY <1>1, <1>3, <1>5 DEF Typed
  <2>4. FlagsTell(t)
    <3> SUFFICES ASSUME NEW b \in Accounts PROVE FlagsTellOf(t, b)
      BY DEF FlagsTell
    <3>1. FlagsTellOf(s, b)
      BY DEF Consistent, FlagsTell
    <3> QED BY <1>1, <1>3, <2>2, <3>1 DEF FlagsTellOf
  <2>5. Owed(t) = Owed(s)
    BY <1>1, <2>2 DEF Owed
  <2>6. Earned(t)
    BY <1>1, <1>3, <1>5, EarnedAsBefore DEF Consistent
  <2> QED BY <1>1, <1>2, <1>3, <2>2, <2>3, <2>4, <2>5, <2>6 DEF Consistent
<1>4. CASE full
  <2>0. ASSUME NEW j \in 1..Len(s.matrices)
        PROVE  t.matrices[j].filling <=> (j # i /\ s.matrices[j].filling)
    BY <1>1, <1>4
  <2>1. /\ CycledOf(t, o) = CycledOf(s, o) \cup {i}
        /\ \A b \in Accounts \ {o} : CycledOf(t, b) = CycledOf(s, b)
    <3>1. ASSUME NEW j, NEW b
          PROVE  j \in CycledOf(t, b) <=>
                   /\ j \in 1..Len(s.matrices) /\ s.matrices[j].owner = b
                   /\ j = i \/ ~s.matrices[j].filling
      BY <1>1, <2>0 DEF CycledOf
    <3>2. ASSUME NEW j, NEW b
          PROVE  j \in CycledOf(s, b) <=>
                   /\ j \in 1..Len(s.matrices) /\ s.matrices[j].owner = b
                   /\ ~s.matrices[j].filling
      BY DEF CycledOf
    <3>3. CycledOf(t, o) = CycledOf(s, o) \cup {i}
      <4>1. ASSUME NEW j PROVE j \in CycledOf(t, o) <=> j \in CycledOf(s, o) \/ j = i
        <5>1. CASE j = i
          BY <1>2, <3>1, <5>1
        <5>2. CASE j # i
          BY <3>1, <3>2, <5>2
        <5> QED BY <5>1, <5>2
      <4> QED BY <4>1
    <3>4. ASSUME NEW b \in Accounts \ {o} PROVE CycledOf(t, b) = CycledOf(s, b)
      <4>1. ASSUME NEW j PROVE j \in CycledOf(t, b) <=> j \in CycledOf(s, b)
        <5>1. CASE j = i
          BY <1>2, <3>1, <3>2, <5>1
        <5>2. CASE j # i
          BY <3>1, <3>2, <5>2
        <5> QED BY <5>1, <5>2
      <4> QED BY <4>1
    <3> QED BY <3>3, <3>4
  <2>2. /\ FillingOf(t, o) = FillingOf(s, o) \ {i}
        /\ \A b \in Accounts \ {o} : FillingOf(t, b) = FillingOf(s, b)
    <3>1. ASSUME NEW j, NEW b
          PROVE  j \in FillingOf(t, b) <=>
                   /\ j \in 1..Len(s.matrices) /\ s.matrices[j].owner = b
                   /\ j # i /\ s.matrices[j].filling
      BY <1>1, <2>0 DEF FillingOf
    <3>2. ASSUME NEW j, NEW b
          PROVE  j \in FillingOf(s, b) <=>
                   /\ j \in 1..Len(s.matrices) /\ s.matrices[j].owner = b
                   /\ s.matrices[j].filling
      BY DEF FillingOf
    <3>3. FillingOf(t, o) = FillingOf(s, o) \ {i}
      <4>1. ASSUME NEW j PROVE j \in FillingOf(t, o) <=> j \in FillingOf(s, o) /\ j # i
        BY <3>1, <3>2
      <4> QED BY <4>1
    <3>4. ASSUME NEW b \in Accounts \ {o} PROVE FillingOf(t, b) = FillingOf(s, b)
      <4>1. ASSUME NEW j PROVE j \in FillingOf(t, b) <=> j \in FillingOf(s, b)
        <5>1. CASE j = i
          BY <1>2, <3>1, <3>2, <5>1
        <5>2. CASE j # i
          BY <3>1, <3>2, <5>2
        <5> QED BY <5>1, <5>2
      <4> QED BY <4>1
    <3> QED BY <3>3, <3>4
  <2>3. Cardinality(FillingOf(t, o)) < Starts(t, o) /\ Starts(t, o) = Starts(s, o)
    <3>1. /\ Cardinality(FillingOf(t, o)) = Cardinality(FillingOf(s, o)) - 1
          /\ Cardinality(FillingOf(s, o)) \in Nat /\ Starts(s, o) \in Nat
      <4>1. i \in FillingOf(s, o) /\ IsFiniteSet(FillingOf(s, o))
        BY <1>1, FillingIsFinite
      <4>2. Cardinality(FillingOf(s, o) \ {i}) = Cardinality(FillingOf(s, o)) - 1
        BY <4>1, FS_RemoveElement
      <4>3. Cardinality(FillingOf(t, o)) = Cardinality(FillingOf(s, o)) - 1
        BY <2>2, <4>2
      <4> QED BY <1>1, <4>3, FillingIsFinite, StartsTyped
    <3>2. Cardinality(FillingOf(s, o)) <= Starts(s, o)
      BY DEF Consistent, Owned
    <3>3. Starts(t, o) = Starts(s, o)
      BY <1>5 DEF Starts
    <3> QED BY <3>1, <3>2, <3>3
  <2>4. s.flags \in [Accounts -> Flags]
    BY <1>1 DEF Typed
  <2>5. /\ t.flags \in [Accounts -> Flags]
        /\ \A b \in Accounts \ {o} : t.flags[b] = s.flags[b]
        /\ t.flags[o].cycled /\ t.flags[o].graduated = s.flags[o].graduated
        /\ t.flags[o].spawned = s.flags[o].spawned
    <3>1. t.flags = Cycle(s.flags, o)
      BY <1>1, <1>4
    <3> QED BY <2>4, <3>1, CycledSet
  <2>6. Typed(t)
    BY <1>1, <1>5, <2>5 DEF Typed
  <2>7. Owned(t)
    <3>1. Owned(s)
      BY DEF Consistent
    <3>2. \A j \in 1..Len(s.matrices) :
            t.matrices[j].owner = s.matrices[j].owner /\ (t.matrices[j].filling => s.matrices[j].filling)
      BY <1>1, <2>0
    <3>3. \A j \in 1..Len(t.matrices) : t.matrices[j].owner \in t.accounts
      BY <1>1, <3>1, <3>2 DEF Owned
    <3>4. ASSUME NEW b \in Accounts PROVE Cardinality(FillingOf(t, b)) <= Starts(t, b)
      <4>1. CASE b = o
        <5>1. Cardinality(FillingOf(t, o)) \in Nat /\ Starts(t, o) \in Nat
          BY <2>6, FillingIsFinite, StartsTyped
        <5> QED BY <2>3, <4>1, <5>1
      <4>2. CASE b # o
        BY <1>5, <2>2, <3>1, <4>2 DEF Owned, Starts
      <4> QED BY <4>1, <4>2
    <3> QED BY <1>1, <3>1, <3>3, <3>4 DEF Owned
  <2>8. FlagsTell(t)
    <3> SUFFICES ASSUME NEW b \in Accounts PROVE FlagsTellOf(t, b)
      BY DEF FlagsTell
    <3>1. FlagsTellOf(s, b)
      BY DEF Consistent, FlagsTell
    <3>2. CASE b = o
      BY <1>1, <2>1, <2>5, <3>1, <3>2 DEF FlagsTellOf
    <3>3. CASE b # o
      BY <1>1, <2>1, <2>5, <3>1, <3>3 DEF FlagsTellOf
    <3> QED BY <3>2, <3>3
  <2>9. Lacking(t) \subseteq Lacking(s) \cup {o}
    <3>1. \A b \in s.accounts : b \in Accounts
      BY <1>1 DEF Typed
    <3> QED BY <1>1, <2>2, <3>1 DEF Lacking
  <2>10. Owed(t) \subseteq Owed(s) \cup {o}
    BY <1>1, <2>1 DEF Owed
  <2>11. Earned(t)
    <3>1. \A b \in Accounts : t.flags[b].graduated \/ t.flags[b].spawned =>
                               s.flags[b].graduated \/ s.flags[b].spawned
      BY <2>5
    <3> QED BY <1>1, <1>5, <3>1, EarnedAsBefore DEF Consistent
  <2>12. o \in Refillable(t)
    BY <1>1, <1>2, <2>3 DEF Refillable
  <2> QED BY <1>1, <1>2, <1>4, <2>6, <2>7, <2>8, <2>9, <2>10, <2>11, <2>12 DEF Consistent
<1> QED BY <1>3, <1>4

\* A set of numbers has a least one.
LEMMA MinIsMember ==
  ASSUME NEW I \in SUBSET Nat, I # {}
  PROVE  Min(I) \in I
<1> DEFINE R == {ss \in Nat \X Nat : ss[1] < ss[2]}
<1>0. IsWellFoundedOn(R, Nat) /\ I \subseteq Nat
  BY NatLessThanWellFounded DEF OpToRel
<1> HIDE DEF R
<1>1. \E x \in I : \A y \in I : ~(<<y, x>> \in R)
  BY <1>0, WFMin
<1>2. PICK x \in I : \A y \in I : ~(<<y, x>> \in R)
  BY <1>1
<1>3. \A y \in I : x <= y
  <2>1. ASSUME NEW y \in I PROVE x <= y
    <3>1. x \in Nat /\ y \in Nat /\ ~(<<y, x>> \in R)
      BY <1>0, <1>2
    <3>2. ~(y < x)
      BY <3>1 DEF R
    <3> QED BY <3>1, <3>2
  <2> QED BY <2>1
<1> QED BY <1>3 DEF Min

LEMMA AllocatedIsSponsor ==
  ASSUME NEW s, Pool # <<>>
  PROVE  AllocatedSponsor(s) \in Sponsors
<1> DEFINE I == {i \in 1..Len(Pool) : s.sponsored[Pool[i]] < SponsorCap}
           n == IF I # {} THEN Min(I) ELSE 0
<1>1. AllocatedSponsor(s) = Pool[IF n = 0 THEN 1 ELSE n]
  BY DEF AllocatedSponsor, SelectInSeq
<1>2. ASSUME I # {} PROVE n \in I
  <2>1. I \in SUBSET Nat
    OBVIOUS
  <2> HIDE DEF I
  <2> QED BY <1>2, <2>1, MinIsMember
<1>3. 1 \in 1..Len(Pool)
  BY PoolAssumption
<1> QED BY <1>1, <1>2, <1>3 DEF Sponsors
\* One more matrix, filling, of an owner who may have one more.
Grown(s, t, o) ==
  /\ s.accounts \subseteq t.accounts /\ o \in t.accounts
  /\ Cardinality(FillingOf(s, o)) < Starts(t, o)
  /\ \A b \in Accounts \ {o} : Starts(t, b) = Starts(s, b)
  /\ t.matrices \in Seq(Matrices) /\ Len(t.matrices) = Len(s.matrices) + 1
  /\ \A j \in 1..Len(s.matrices) : t.matrices[j] = s.matrices[j]
  /\ t.matrices[Len(s.matrices) + 1].owner = o
  /\ t.matrices[Len(s.matrices) + 1].filling

LEMMA GrownMatrices ==
  ASSUME NEW s, Typed(s), Owned(s), NEW o \in Accounts, NEW t, Grown(s, t, o),
         Starts(t, o) \in Nat, t.accounts \cap Sponsors = {}
  PROVE  /\ \A b \in Accounts : CycledOf(t, b) = CycledOf(s, b)
         /\ \A b \in Accounts \ {o} : FillingOf(t, b) = FillingOf(s, b)
         /\ FillingOf(t, o) # {}
         /\ Owned(t)
<1> DEFINE n == Len(s.matrices)
<1>0. n \in Nat /\ n + 1 \in 1..Len(t.matrices)
  BY LenProperties DEF Typed, Grown
<1>1. ASSUME NEW j \in 1..Len(t.matrices)
      PROVE  j = n + 1 \/ j \in 1..n
  BY <1>0 DEF Grown
<1>2. \A j \in 1..n : j # n + 1 /\ j \in 1..Len(t.matrices) /\ t.matrices[j] = s.matrices[j]
  BY <1>0 DEF Grown
<1>3. t.matrices[n + 1].owner = o /\ t.matrices[n + 1].filling
  BY DEF Grown
<1> HIDE DEF n
<1>4. ASSUME NEW b \in Accounts PROVE CycledOf(t, b) = CycledOf(s, b)
  BY <1>1, <1>2, <1>3 DEF CycledOf, n
<1>5. ASSUME NEW b \in Accounts \ {o} PROVE FillingOf(t, b) = FillingOf(s, b)
  BY <1>1, <1>2, <1>3 DEF FillingOf, n
<1>6. FillingOf(t, o) = FillingOf(s, o) \cup {n + 1}
  BY <1>0, <1>1, <1>2, <1>3 DEF FillingOf, n
<1>7. Owned(t)
  <2>1. \A j \in 1..Len(t.matrices) : t.matrices[j].owner \in t.accounts
    BY <1>1, <1>2, <1>3 DEF Owned, Grown, n
  <2>2. Cardinality(FillingOf(t, o)) <= Starts(t, o)
    <3>1. IsFiniteSet(FillingOf(s, o)) /\ Cardinality(FillingOf(s, o)) \in Nat
      BY FillingIsFinite
    <3>2. Cardinality(FillingOf(t, o)) <= Cardinality(FillingOf(s, o)) + 1
      BY <1>6, <3>1, OneLess
    <3>3. Cardinality(FillingOf(t, o)) \in Nat
      <4>1. IsFiniteSet(FillingOf(t, o))
        BY <1>6, <3>1, FS_AddElement
      <4> QED BY <4>1, FS_CardinalityType
    <3>4. Cardinality(FillingOf(s, o)) < Starts(t, o)
      BY DEF Grown
    <3> QED BY <3>1, <3>2, <3>3, <3>4
  <2>3. ASSUME NEW b \in Accounts PROVE Cardinality(FillingOf(t, b)) <= Starts(t, b)
    <3>1. CASE b # o
      BY <1>5, <3>1 DEF Owned, Grown
    <3> QED BY <2>2, <3>1
  <2> QED BY <2>1, <2>3 DEF Owned
<1> QED BY <1>4, <1>5, <1>6, <1>7

\* The matrix is the only change, but for a new account or a new start of one.
StartedAnew(s, t, o) ==
  /\ t = [f \in Fields |-> t[f]] /\ t.accounts = s.accounts \cup {o}
  /\ t.signups \in [Accounts -> Nat] /\ t.flags = s.flags /\ t.freeOf = s.freeOf
  /\ t.graduated \subseteq s.graduated /\ s.graduated \subseteq t.graduated \cup {o}

LEMMA GrownIsConsistent ==
  ASSUME NEW s, Consistent(s), NEW o \in Accounts, o \notin Sponsors, NEW t, Grown(s, t, o),
         StartedAnew(s, t, o), Earned(t)
  PROVE  /\ Consistent(t) /\ Lacking(t) = Lacking(s) \ {o}
         /\ Refillable(s) \ {o} \subseteq Refillable(t)
         /\ Owed(t) \subseteq Owed(s) /\ Owed(s) \subseteq Owed(t) \cup {o}
<1>a. /\ t = [f \in Fields |-> t[f]] /\ t.accounts = s.accounts \cup {o}
      /\ t.signups \in [Accounts -> Nat] /\ t.flags = s.flags /\ t.freeOf = s.freeOf
      /\ t.graduated \subseteq s.graduated /\ s.graduated \subseteq t.graduated \cup {o}
  BY DEF StartedAnew
<1>0. /\ Typed(s) /\ Owned(s) /\ FlagsTell(s) /\ s.accounts \subseteq Accounts
      /\ t.matrices \in Seq(Matrices)
  BY DEF Consistent, Typed, Grown
<1>1. Typed(t)
  <2>0. IsFiniteSet(s.accounts)
    BY <1>0 DEF Typed
  <2>1. IsFiniteSet(t.accounts)
    <3>1. IsFiniteSet(s.accounts \cup {o})
      BY <2>0, FS_AddElement
    <3> QED BY <1>a, <3>1
  <2>2. t.freeOf \in [Accounts -> SUBSET t.accounts]
    BY <1>0, <1>a DEF Typed
  <2> QED BY <1>0, <1>a, <2>1, <2>2 DEF Typed
<1>2. /\ \A b \in Accounts : CycledOf(t, b) = CycledOf(s, b)
      /\ \A b \in Accounts \ {o} : FillingOf(t, b) = FillingOf(s, b)
      /\ FillingOf(t, o) # {} /\ Owned(t)
  <2>1. t.accounts \cap Sponsors = {} /\ Starts(t, o) \in Nat
    BY <1>0, <1>1, <1>a, StartsTyped DEF Owned
  <2> QED BY <1>0, <2>1, GrownMatrices
<1>3. FlagsTell(t)
  <2> SUFFICES ASSUME NEW b \in Accounts PROVE FlagsTellOf(t, b)
    BY DEF FlagsTell
  <2>1. FlagsTellOf(s, b)
    BY <1>0 DEF FlagsTell
  <2>2. \A f \in s.accounts : f \in t.accounts
    BY <1>a
  <2>3. b \in t.graduated => b \in s.graduated
    BY <1>a
  <2> QED BY <1>2, <1>a, <2>1, <2>2, <2>3 DEF FlagsTellOf
<1>4. Lacking(t) = Lacking(s) \ {o}
  BY <1>0, <1>2, <1>a DEF Lacking
<1>5. Owed(t) \subseteq Owed(s) /\ Owed(s) \subseteq Owed(t) \cup {o}
  BY <1>2, <1>a DEF Owed
<1>6. Refillable(s) \ {o} \subseteq Refillable(t)
  <2>1. \A b \in Accounts \ {o} : Starts(t, b) = Starts(s, b)
    BY DEF Grown
  <2> QED BY <1>0, <1>2, <1>a, <2>1 DEF Refillable
<1> QED BY <1>1, <1>2, <1>3, <1>4, <1>5, <1>6 DEF Consistent

LEMMA RefillKeeps ==
  ASSUME NEW s, Consistent(s), NEW o \in Refillable(s), NEW slots \in Seq(Accounts),
         NEW t, t = WithMatrix(s, o, slots)
  PROVE  Consistent(t) /\ Lacking(t) = Lacking(s) \ {o} /\ Owed(t) = Owed(s)
<1>0. /\ Typed(s) /\ Owned(s) /\ o \in s.accounts /\ o \in Accounts /\ o \notin Sponsors
      /\ Cardinality(FillingOf(s, o)) < Starts(s, o)
  BY DEF Consistent, Typed, Owned, Refillable
<1>1. /\ t = [f \in Fields |-> t[f]]
      /\ t.accounts = s.accounts /\ t.graduated = s.graduated /\ t.freeOf = s.freeOf
      /\ t.flags = s.flags
      /\ t.matrices \in Seq(Matrices) /\ Len(t.matrices) = Len(s.matrices) + 1
      /\ \A j \in 1..Len(s.matrices) : t.matrices[j] = s.matrices[j]
      /\ t.matrices[Len(s.matrices) + 1].owner = o
      /\ t.matrices[Len(s.matrices) + 1].filling
      /\ SameBook(s, t)
  BY <1>0, MatrixChange
<1>2. t.points = s.points /\ t.events = s.events /\ t.signups = s.signups
  BY <1>1 DEF SameBook
<1>3. Grown(s, t, o)
  BY <1>0, <1>1, <1>2 DEF Grown, Starts
<1>4. Earned(t)
  BY <1>1, <1>2, EarnedAsBefore DEF Consistent
<1>5. Consistent(t) /\ Lacking(t) = Lacking(s) \ {o}
  <2>1. t.accounts = s.accounts \cup {o} /\ t.signups \in [Accounts -> Nat]
    <3>1. t.accounts = s.accounts
      BY <1>1
    <3>2. s.accounts \cup {o} = s.accounts
      BY <1>0
    <3>3. s.signups \in [Accounts -> Nat]
      BY <1>0 DEF Typed
    <3> QED BY <1>2, <3>1, <3>2, <3>3
  <2>2. StartedAnew(s, t, o)
    <3>1. t.graduated = s.graduated /\ t.freeOf = s.freeOf /\ t.flags = s.flags
      BY <1>1
    <3>2. t = [f \in Fields |-> t[f]]
      BY <1>1
    <3> QED BY <2>1, <3>1, <3>2, ZenonT(20) DEF StartedAnew
  <2> QED BY <1>0, <1>3, <1>4, <2>2, GrownIsConsistent
<1>6. Owed(t) = Owed(s)
  <2>1. \A b \in Accounts : CycledOf(t, b) = CycledOf(s, b)
    <3>1. t.accounts \cap Sponsors = {} /\ Starts(t, o) \in Nat
      BY <1>0, <1>5, StartsTyped DEF Consistent, Owned
    <3> QED BY <1>0, <1>3, <3>1, GrownMatrices
  <2> QED BY <1>1, <2>1 DEF Owed
<1> QED BY <1>5, <1>6

LEMMA AccountKeeps ==
  ASSUME NEW s, Consistent(s), NEW a \in Accounts \ (s.accounts \cup Sponsors),
         NEW slots \in Seq(Accounts), NEW t, t = WithAccount(s, a, slots)
  PROVE  /\ Consistent(t) /\ Lacking(t) = Lacking(s) /\ Owed(t) = Owed(s)
         /\ Refillable(s) \subseteq Refillable(t)
<1>0. Typed(s) /\ Owned(s)
  BY DEF Consistent
<1>1. /\ t = [f \in Fields |-> t[f]]
      /\ t.accounts = s.accounts \cup {a} /\ t.graduated = s.graduated
      /\ t.freeOf = s.freeOf /\ t.flags = s.flags
      /\ t.matrices \in Seq(Matrices) /\ Len(t.matrices) = Len(s.matrices) + 1
      /\ \A j \in 1..Len(s.matrices) : t.matrices[j] = s.matrices[j]
      /\ t.matrices[Len(s.matrices) + 1].owner = a
      /\ t.matrices[Len(s.matrices) + 1].filling
      /\ SameBook(s, t)
  BY <1>0, AccountChange
<1>2. t.points = s.points /\ t.events = s.events /\ t.signups = s.signups
  BY <1>1 DEF SameBook
<1>3. Grown(s, t, a)
  <2>1. FillingOf(s, a) = {}
    BY <1>0 DEF FillingOf, Owned
  <2>2. Cardinality(FillingOf(s, a)) < Starts(t, a)
    BY <1>0, <1>2, <2>1, StartsTyped, FS_EmptySet DEF Starts
  <2> QED BY <1>1, <1>2, <2>2 DEF Grown, Starts
<1>4. Earned(t)
  BY <1>1, <1>2, EarnedAsBefore DEF Consistent
<1>5. /\ Consistent(t) /\ Lacking(t) = Lacking(s) \ {a}
      /\ Refillable(s) \ {a} \subseteq Refillable(t)
  <2>1. t.signups \in [Accounts -> Nat]
    BY <1>0, <1>2 DEF Typed
  <2>2. StartedAnew(s, t, a)
    BY <1>1, <2>1 DEF StartedAnew
  <2>3. a \in Accounts /\ a \notin Sponsors
    OBVIOUS
  <2> QED BY <1>3, <1>4, <2>2, <2>3, GrownIsConsistent
<1>6. Lacking(t) = Lacking(s)
  BY <1>5 DEF Lacking
<1>7. Owed(t) = Owed(s)
  <2>1. \A b \in Accounts : CycledOf(t, b) = CycledOf(s, b)
    <3>1. t.accounts \cap Sponsors = {} /\ Starts(t, a) \in Nat
      BY <1>5, StartsTyped DEF Consistent, Owned
    <3> QED BY <1>0, <1>3, <3>1, GrownMatrices
  <2> QED BY <1>1, <2>1 DEF Owed
<1>8. Refillable(s) \subseteq Refillable(t)
  <2>1. a \notin Refillable(s)
    BY DEF Refillable
  <2> QED BY <1>5, <2>1
<1> QED BY <1>5, <1>6, <1>7, <1>8

\* The books after a sign-up.
SignUpBooked(s, a, t) ==
  /\ t.points = [s.points EXCEPT ![a] = 0] /\ t.cycles = [s.cycles EXCEPT ![a] = 0]
  /\ t.graduated = s.graduated \ {a}
  /\ t.signups = [s.signups EXCEPT ![a] = @ + 1]
  /\ t.events = s.events /\ t.sponsored = s.sponsored

LEMMA SignedUpChange ==
  ASSUME NEW s, Typed(s), NEW a \in Accounts, NEW t, t = SignedUp(s, a)
  PROVE  /\ t = [f \in Fields |-> t[f]] /\ SignUpBooked(s, a, t)
         /\ t.accounts = s.accounts \cup {a} /\ t.freeOf = s.freeOf /\ t.flags = s.flags
         /\ t.matrices \in Seq(Matrices) /\ Len(t.matrices) = Len(s.matrices) + 1
         /\ \A j \in 1..Len(s.matrices) : t.matrices[j] = s.matrices[j]
         /\ t.matrices[Len(s.matrices) + 1].owner = a
         /\ t.matrices[Len(s.matrices) + 1].filling
         /\ Len(t.matrices[Len(s.matrices) + 1].slots) = 1
<1>1. PICK slots : slots = <<a>>
  OBVIOUS
<1>2. slots \in Seq(Accounts) /\ Len(slots) = 1
  BY <1>1
<1>3. PICK r : r = WithAccount(s, a, slots)
  OBVIOUS
<1>4. /\ r = [f \in Fields |-> r[f]]
      /\ r.accounts = s.accounts \cup {a} /\ r.graduated = s.graduated
      /\ r.freeOf = s.freeOf /\ r.flags = s.flags
      /\ r.matrices \in Seq(Matrices) /\ Len(r.matrices) = Len(s.matrices) + 1
      /\ \A j \in 1..Len(s.matrices) : r.matrices[j] = s.matrices[j]
      /\ r.matrices[Len(s.matrices) + 1].owner = a
      /\ r.matrices[Len(s.matrices) + 1].filling
      /\ r.matrices[Len(s.matrices) + 1].slots = slots
      /\ SameBook(s, r)
  BY <1>2, <1>3, AccountChange
<1> DEFINE q1 == [r.points EXCEPT ![a] = 0]
           q2 == [r.cycles EXCEPT ![a] = 0]
           q3 == r.graduated \ {a}
           q4 == [r.signups EXCEPT ![a] = @ + 1]
<1>5. t = [r EXCEPT !.points = q1, !.cycles = q2, !.graduated = q3, !.signups = q4]
  BY <1>1, <1>3 DEF SignedUp
<1> HIDE DEF q1, q2, q3, q4
<1>6. /\ t = [f \in Fields |-> t[f]]
      /\ t.points = q1 /\ t.cycles = q2 /\ t.graduated = q3 /\ t.signups = q4
      /\ t.events = r.events /\ t.sponsored = r.sponsored
      /\ t.accounts = r.accounts /\ t.freeOf = r.freeOf /\ t.flags = r.flags
      /\ t.matrices = r.matrices
  BY <1>4, <1>5 DEF Fields
<1>7. SignUpBooked(s, a, t)
  <2>1. /\ r.points = s.points /\ r.cycles = s.cycles /\ r.events = s.events
        /\ r.sponsored = s.sponsored /\ r.signups = s.signups /\ r.graduated = s.graduated
    BY <1>4 DEF SameBook
  <2>2. /\ q1 = [s.points EXCEPT ![a] = 0] /\ q2 = [s.cycles EXCEPT ![a] = 0]
        /\ q3 = s.graduated \ {a} /\ q4 = [s.signups EXCEPT ![a] = @ + 1]
    BY <2>1, Zenon DEF q1, q2, q3, q4
  <2> QED BY <1>6, <2>1, <2>2 DEF SignUpBooked
<1>8. Len(t.matrices[Len(s.matrices) + 1].slots) = 1
  BY <1>2, <1>4, <1>6
<1>9. /\ t.matrices \in Seq(Matrices) /\ Len(t.matrices) = Len(s.matrices) + 1
      /\ \A j \in 1..Len(s.matrices) : t.matrices[j] = s.matrices[j]
      /\ t.matrices[Len(s.matrices) + 1].owner = a
      /\ t.matrices[Len(s.matrices) + 1].filling
  <2>1. t.matrices = r.matrices
    BY <1>6
  <2> QED BY <1>4, <2>1, ZenonT(20)
<1> QED BY <1>4, <1>6, <1>7, <1>8, <1>9

\* The id is fresh, or one of a user who has signed up before.
LEMMA SignedUpKeeps ==
  ASSUME NEW s, Consistent(s), NEW a \in Accounts \ Sponsors,
         a \notin s.accounts \/ s.signups[a] > 0, NEW t, t = SignedUp(s, a)
  PROVE  Consistent(t) /\ Lacking(t) \subseteq Lacking(s) /\ Owed(t) \subseteq Owed(s)
<1>0. /\ Typed(s) /\ Owned(s) /\ Earned(s) /\ s.signups \in [Accounts -> Nat]
      /\ s.points \in [Accounts -> Int]
  BY DEF Consistent, Typed, Earned
<1>1. /\ t = [f \in Fields |-> t[f]] /\ SignUpBooked(s, a, t)
      /\ t.accounts = s.accounts \cup {a} /\ t.freeOf = s.freeOf /\ t.flags = s.flags
      /\ t.matrices \in Seq(Matrices) /\ Len(t.matrices) = Len(s.matrices) + 1
      /\ \A j \in 1..Len(s.matrices) : t.matrices[j] = s.matrices[j]
      /\ t.matrices[Len(s.matrices) + 1].owner = a
      /\ t.matrices[Len(s.matrices) + 1].filling
  BY <1>0, SignedUpChange
<1>2. /\ t.points = [s.points EXCEPT ![a] = 0] /\ t.graduated = s.graduated \ {a}
      /\ t.signups = [s.signups EXCEPT ![a] = @ + 1] /\ t.events = s.events
  BY <1>1 DEF SignUpBooked
<1>3. /\ t.signups \in [Accounts -> Nat] /\ t.signups[a] = s.signups[a] + 1
      /\ s.signups[a] \in Nat
      /\ \A b \in Accounts \ {a} : t.signups[b] = s.signups[b]
  BY <1>0, <1>2
<1>4. Grown(s, t, a)
  <2>1. Cardinality(FillingOf(s, a)) < Starts(t, a)
    <3>1. CASE a \notin s.accounts
      <4>1. FillingOf(s, a) = {}
        BY <1>0, <3>1 DEF FillingOf, Owned
      <4>2. Cardinality(FillingOf(s, a)) = 0
        BY <4>1, FS_EmptySet
      <4> QED BY <1>3, <4>2 DEF Starts
    <3>2. CASE s.signups[a] > 0
      <4>1. Cardinality(FillingOf(s, a)) \in Nat /\ Cardinality(FillingOf(s, a)) <= Starts(s, a)
        BY <1>0, FillingIsFinite DEF Owned
      <4>2. Starts(s, a) = s.signups[a] /\ Starts(t, a) = s.signups[a] + 1
        BY <1>3, <3>2 DEF Starts
      <4> QED BY <1>3, <4>1, <4>2
    <3> QED BY <3>1, <3>2
  <2>2. \A b \in Accounts \ {a} : Starts(t, b) = Starts(s, b)
    BY <1>3 DEF Starts
  <2> QED BY <1>1, <2>1, <2>2 DEF Grown
<1>5. Earned(t)
  <2>1. /\ t.points \in [Accounts -> Int] /\ t.points[a] = 0
        /\ \A b \in Accounts \ {a} : t.points[b] = s.points[b]
    BY <1>0, <1>2
  <2>2. \A b \in Accounts : t.points[b] >= CardPoints => b \in t.graduated
    BY <1>0, <1>2, <2>1 DEF Earned, CardPoints
  <2>3. t.events \in [Accounts -> Seq(Int)]
    BY <1>0, <1>2 DEF Earned
  <2>4. \A b \in Accounts : t.flags[b].graduated \/ t.flags[b].spawned => t.events[b] # <<>>
    BY <1>0, <1>1, <1>2 DEF Earned
  <2> QED BY <2>1, <2>2, <2>3, <2>4 DEF Earned
<1>6. Consistent(t) /\ Lacking(t) = Lacking(s) \ {a} /\ Owed(t) \subseteq Owed(s)
  <2>1. t.graduated \subseteq s.graduated /\ s.graduated \subseteq t.graduated \cup {a}
    BY <1>2
  <2>2. StartedAnew(s, t, a)
    BY <1>1, <1>3, <2>1 DEF StartedAnew
  <2>3. a \in Accounts /\ a \notin Sponsors
    OBVIOUS
  <2> QED BY <1>4, <1>5, <2>2, <2>3, GrownIsConsistent
<1> QED BY <1>6

LEMMA CountedKeeps ==
  ASSUME NEW s, Consistent(s), NEW p, NEW t, t = Counted(s, p)
  PROVE  /\ Consistent(t) /\ Lacking(t) = Lacking(s) /\ Owed(t) = Owed(s)
         /\ Refillable(t) = Refillable(s)
         /\ \A a : Qualifies(t, a) <=> Qualifies(s, a)
<1> DEFINE q == [s.sponsored EXCEPT ![p] = @ + 1]
<1>1. t = [s EXCEPT !.sponsored = q] /\ Typed(s) /\ s = [f \in Fields |-> s[f]]
  BY DEF Counted, Consistent, Typed
<1> HIDE DEF q
<1>2. /\ t = [f \in Fields |-> t[f]]
      /\ t.accounts = s.accounts /\ t.graduated = s.graduated /\ t.freeOf = s.freeOf
      /\ t.flags = s.flags /\ t.matrices = s.matrices /\ t.signups = s.signups
      /\ t.points = s.points /\ t.events = s.events
  BY <1>1 DEF Fields
<1>3. /\ \A b \in Accounts : CycledOf(t, b) = CycledOf(s, b)
      /\ Lacking(t) = Lacking(s) /\ Refillable(t) = Refillable(s) /\ Owned(t)
  BY <1>1, <1>2, MatricesSame DEF Consistent, SameMatrices
<1>4. Typed(t)
  BY <1>1, <1>2 DEF Typed
<1>5. FlagsTell(t)
  BY <1>2, <1>3, SMTT(40) DEF Consistent, FlagsTell, FlagsTellOf
<1>6. Earned(t)
  BY <1>2, EarnedAsBefore DEF Consistent
<1> QED BY <1>2, <1>3, <1>4, <1>5, <1>6 DEF Consistent, Owed, Qualifies
\* The free account of a, in the store where it has its matrix.
Spawned(r, a, new) ==
  [r EXCEPT !.flags[a] = SpawnedFlags, !.freeOf[a] = @ \cup {new}]

LEMMA SpawnKeeps ==
  ASSUME NEW s, Consistent(s), NEW a \in Accounts, Qualifies(s, a),
         NEW new \in Accounts \ (s.accounts \cup Sponsors),
         NEW slots \in Seq(Accounts), NEW r, r = WithAccount(s, new, slots),
         NEW t, t = Spawned(r, a, new)
  PROVE  /\ Consistent(t) /\ Lacking(t) = Lacking(s) /\ Owed(t) = Owed(s) \ {a}
         /\ Refillable(s) \subseteq Refillable(t)
<1> DEFINE g == [r.flags EXCEPT ![a] = SpawnedFlags]
           h == [r.freeOf EXCEPT ![a] = @ \cup {new}]
<1>1. Typed(s)
  BY DEF Consistent
<1>2. /\ Consistent(r) /\ Lacking(r) = Lacking(s) /\ Owed(r) = Owed(s)
      /\ Refillable(s) \subseteq Refillable(r)
  BY <1>1, AccountKeeps
<1>3. r.accounts = s.accounts \cup {new} /\ r.flags = s.flags /\ r.freeOf = s.freeOf
  BY <1>1, AccountChange
<1>4. t = [r EXCEPT !.flags = g, !.freeOf = h]
  BY DEF Spawned
<1>5. Typed(r) /\ FlagsTell(r) /\ r = [f \in Fields |-> r[f]]
  BY <1>2 DEF Consistent, Typed
<1>6. /\ g \in [Accounts -> Flags] /\ g[a] = SpawnedFlags
      /\ \A b \in Accounts \ {a} : g[b] = r.flags[b]
  BY <1>5 DEF Typed, Flags, SpawnedFlags
<1>7. r.flags[a].graduated /\ r.flags[a].cycled /\ ~r.flags[a].spawned
  BY <1>3 DEF Qualifies
<1>8. r.freeOf[a] = {} /\ CycledOf(r, a) # {}
  BY <1>5, <1>7 DEF FlagsTell, FlagsTellOf
<1>9. /\ h \in [Accounts -> SUBSET r.accounts] /\ h[a] = {new} /\ new \in r.accounts
      /\ \A b \in Accounts \ {a} : h[b] = r.freeOf[b]
  BY <1>3, <1>5, <1>8 DEF Typed
<1> HIDE DEF g, h
<1>10. /\ t = [f \in Fields |-> t[f]]
       /\ t.accounts = r.accounts /\ t.graduated = r.graduated /\ t.matrices = r.matrices
       /\ t.flags = g /\ t.freeOf = h /\ t.signups = r.signups
       /\ t.points = r.points /\ t.events = r.events
  BY <1>4, <1>5 DEF Fields
<1>11. /\ \A b \in Accounts : CycledOf(t, b) = CycledOf(r, b)
       /\ Lacking(t) = Lacking(r) /\ Refillable(t) = Refillable(r) /\ Owned(t)
  BY <1>2, <1>5, <1>10, MatricesSame, SMTT(40) DEF Consistent, SameMatrices
<1>12. Typed(t)
  BY <1>5, <1>6, <1>9, <1>10 DEF Typed
<1>13. FlagsTell(t)
  <2> SUFFICES ASSUME NEW b \in Accounts PROVE FlagsTellOf(t, b)
    BY DEF FlagsTell
  <2>1. FlagsTellOf(r, b)
    BY <1>5 DEF FlagsTell
  <2>2. CASE b = a
    <3>1. /\ t.flags[b].graduated = FALSE /\ t.flags[b].cycled = FALSE
          /\ t.flags[b].spawned = TRUE
      BY <1>6, <1>10, <2>2 DEF SpawnedFlags
    <3> QED BY <1>8, <1>9, <1>10, <1>11, <2>2, <3>1 DEF FlagsTellOf
  <2>3. CASE b # a
    <3>1. t.flags[b] = r.flags[b] /\ t.freeOf[b] = r.freeOf[b]
      BY <1>6, <1>9, <1>10, <2>3
    <3>2. CycledOf(t, b) = CycledOf(r, b) /\ t.accounts = r.accounts /\ t.graduated = r.graduated
      BY <1>10, <1>11
    <3> QED BY <2>1, <3>1, <3>2 DEF FlagsTellOf
  <2> QED BY <2>2, <2>3
<1>14. Owed(t) = Owed(r) \ {a}
  <2>1. ASSUME NEW b \in Accounts PROVE b \in Owed(t) <=> b \in Owed(r) /\ b # a
    <3>1. CASE b = a
      BY <1>9, <1>10, <3>1 DEF Owed
    <3>2. CASE b # a
      BY <1>9, <1>10, <1>11, <3>2 DEF Owed
    <3> QED BY <3>1, <3>2
  <2>2. Owed(t) \subseteq Accounts /\ Owed(r) \subseteq Accounts
    BY DEF Owed
  <2> QED BY <2>1, <2>2
<1>15. Earned(t)
  <2>1. \A b \in Accounts : t.flags[b].graduated \/ t.flags[b].spawned =>
                             r.flags[b].graduated \/ r.flags[b].spawned
    BY <1>6, <1>7, <1>10
  <2> QED BY <1>2, <1>10, <2>1, EarnedAsBefore DEF Consistent
<1> QED BY <1>2, <1>11, <1>12, <1>13, <1>14, <1>15 DEF Consistent

LEMMA EmptyIsConsistent ==
  Consistent(EmptyStore) /\ Lacking(EmptyStore) = {} /\ Owed(EmptyStore) = {}
<1>1. NoFlags \in Flags /\ ~NoFlags.graduated /\ ~NoFlags.cycled /\ ~NoFlags.spawned
  BY DEF NoFlags, Flags
<1>2. /\ EmptyStore = [f \in Fields |-> EmptyStore[f]]
      /\ EmptyStore.accounts = {} /\ EmptyStore.graduated = {} /\ EmptyStore.matrices = <<>>
      /\ EmptyStore.flags = [a \in Accounts |-> NoFlags]
      /\ EmptyStore.freeOf = [a \in Accounts |-> {}]
      /\ EmptyStore.signups = [a \in Accounts |-> 0]
      /\ EmptyStore.points = [a \in Accounts |-> 0]
      /\ EmptyStore.events = [a \in Accounts |-> <<>>]
  BY DEF EmptyStore, Fields
<1>3. Typed(EmptyStore)
  <2>1. <<>> \in Seq(Matrices) /\ IsFiniteSet({})
    BY FS_EmptySet
  <2>2. EmptyStore.signups \in [Accounts -> Nat]
    BY <1>2
  <2> QED BY <1>1, <1>2, <2>1, <2>2, ZenonT(40) DEF Typed
<1>4. \A a : FillingOf(EmptyStore, a) = {} /\ CycledOf(EmptyStore, a) = {}
  BY <1>2 DEF FillingOf, CycledOf
<1>5. Owned(EmptyStore)
  <2>1. 1..Len(EmptyStore.matrices) = {}
    BY <1>2
  <2>2. \A a \in Accounts : Cardinality(FillingOf(EmptyStore, a)) <= Starts(EmptyStore, a)
    BY <1>3, <1>4, StartsTyped, FS_EmptySet
  <2> QED BY <1>2, <2>1, <2>2, Zenon DEF Owned
<1>6. FlagsTell(EmptyStore)
  BY <1>1, <1>2, <1>4 DEF FlagsTell, FlagsTellOf
<1>7. Earned(EmptyStore)
  <2>1. <<>> \in Seq(Int) /\ ~(0 >= CardPoints)
    BY DEF CardPoints
  <2>2. /\ EmptyStore.points \in [Accounts -> Int]
        /\ EmptyStore.events \in [Accounts -> Seq(Int)]
    <3>1. EmptyStore.points \in [Accounts -> Int]
      BY <1>2
    <3>2. EmptyStore.events \in [Accounts -> Seq(Int)]
      BY <1>2, <2>1, Zenon
    <3> QED BY <3>1, <3>2
  <2>3. ASSUME NEW a \in Accounts
        PROVE  /\ ~(EmptyStore.points[a] >= CardPoints)
               /\ ~EmptyStore.flags[a].graduated /\ ~EmptyStore.flags[a].spawned
    BY <1>1, <1>2, <2>1
  <2> QED BY <2>2, <2>3 DEF Earned
<1> QED BY <1>2, <1>3, <1>4, <1>5, <1>6, <1>7 DEF Consistent, Lacking, Owed
-----------------------------------------------------------------------------
(* What is left of a request                                               *)

LEMMA Rest ==
  ASSUME NEW c \in Seq(Calls), NEW q \in Seq(Calls), q # <<>>, NEW z, z = c \o Tail(q)
  PROVE  /\ z \in Seq(Calls)
         /\ Len(c) \in Nat /\ Len(q) \in Nat \ {0} /\ Len(z) = Len(c) + Len(q) - 1
         /\ \A i \in 1..Len(c) : z[i] = c[i]
         /\ \A i \in 2..Len(q) : z[Len(c) + i - 1] = q[i]
<1>1. Len(c) \in Nat /\ Len(q) \in Nat /\ Len(q) # 0
  BY LenProperties, EmptySeq
<1>2. /\ Tail(q) \in Seq(Calls) /\ Len(Tail(q)) = Len(q) - 1
      /\ \A i \in 1..Len(Tail(q)) : Tail(q)[i] = q[i + 1]
  BY HeadTailProperties
<1>3. /\ z \in Seq(Calls) /\ Len(z) = Len(c) + Len(Tail(q))
      /\ \A i \in 1..Len(z) : z[i] = IF i <= Len(c) THEN c[i] ELSE Tail(q)[i - Len(c)]
  BY <1>2, ConcatProperties
<1>4. ASSUME NEW i \in 1..Len(c) PROVE z[i] = c[i]
  BY <1>1, <1>2, <1>3
<1>5. ASSUME NEW i \in 2..Len(q) PROVE z[Len(c) + i - 1] = q[i]
  <2>1. /\ Len(c) + i - 1 \in 1..Len(z) /\ ~(Len(c) + i - 1 <= Len(c))
        /\ Len(c) + i - 1 - Len(c) = i - 1 /\ i - 1 \in 1..Len(Tail(q)) /\ i - 1 + 1 = i
    BY <1>1, <1>2, <1>3
  <2>2. z[Len(c) + i - 1] = Tail(q)[i - 1]
    BY <1>3, <2>1
  <2> QED BY <1>2, <2>1, <2>2
<1> QED BY <1>1, <1>2, <1>3, <1>4, <1>5

\* Where a call of the rest comes from.
LEMMA RestIndex ==
  ASSUME NEW n \in Nat, NEW m \in Nat \ {0}, NEW i \in 1..(n + m - 1)
  PROVE  i \in 1..n \/ \E j \in 2..m : i = n + j - 1
<1>1. CASE i > n
  <2>1. i - n + 1 \in 2..m /\ i = n + (i - n + 1) - 1
    BY <1>1
  <2> QED BY <2>1
<1>2. CASE i <= n
  BY <1>2
<1> QED BY <1>1, <1>2

LEMMA RestIsPlan ==
  ASSUME NEW c \in Seq(Calls), NEW q, Plan(q), q # <<>>, NEW z, z = c \o Tail(q),
         \A i \in 1..Len(c) : c[i].call # "refill",
         \A i \in 2..Len(c) : c[i].call = "save",
         c # <<>> /\ c[1].call = "place" => c[1].sponsor \in Sponsors
  PROVE  /\ Plan(z)
         /\ Refilling(z) = (IF q[1].call = "refill" THEN {} ELSE Refilling(q))
<1>1. q \in Seq(Calls)
  BY DEF Plan
<1>2. /\ z \in Seq(Calls)
      /\ Len(c) \in Nat /\ Len(q) \in Nat \ {0} /\ Len(z) = Len(c) + Len(q) - 1
      /\ \A i \in 1..Len(c) : z[i] = c[i]
      /\ \A i \in 2..Len(q) : z[Len(c) + i - 1] = q[i]
  BY <1>1, Rest
<1> DEFINE n == Len(c)
           m == Len(q)
<1> HIDE DEF n, m
<1>3. ASSUME NEW i \in 1..Len(z) PROVE i \in 1..n \/ \E j \in 2..m : i = n + j - 1
  BY <1>2, RestIndex, ZenonT(40) DEF n, m
<1>4. ASSUME NEW i \in 2..Len(z) PROVE z[i].call \in {"refill", "save"}
  <2>1. CASE i \in 1..n
    <3>1. i \in 2..n
      BY <2>1
    <3> QED BY <1>2, <2>1, <3>1 DEF n
  <2>2. ASSUME NEW j \in 2..m, i = n + j - 1 PROVE z[i].call \in {"refill", "save"}
    BY <1>2, <2>2 DEF Plan, n, m
  <2>3. i \in 1..Len(z)
    OBVIOUS
  <2> QED BY <1>3, <2>1, <2>2, <2>3
\* The refills of the rest are those of q beyond its first call.
<1>5. ASSUME NEW i \in Refills(z) PROVE \E j \in Refills(q) : j \in 2..m /\ i = n + j - 1
  <2>1. i \in 1..Len(z) /\ z[i].call = "refill"
    BY DEF Refills
  <2>2. i \notin 1..n
    BY <1>2, <2>1 DEF n
  <2>3. PICK j \in 2..m : i = n + j - 1
    BY <1>3, <2>1, <2>2
  <2>4. j \in 1..Len(q) /\ q[j].call = "refill"
    BY <1>2, <2>1, <2>3 DEF n, m
  <2> QED BY <2>3, <2>4 DEF Refills
<1>6. ASSUME NEW j \in Refills(q), j # 1 PROVE n + j - 1 \in Refills(z) /\ z[n + j - 1] = q[j]
  <2>1. j \in 2..Len(q) /\ q[j].call = "refill"
    BY <1>2, <1>6 DEF Refills
  <2>2. z[n + j - 1] = q[j] /\ n + j - 1 \in 1..Len(z)
    BY <1>2, <2>1 DEF n
  <2> QED BY <2>1, <2>2 DEF Refills
<1>7. \A i, j \in Refills(z) : i = j
  BY <1>5 DEF Plan
<1>8. z # <<>> /\ z[1].call = "place" => z[1].sponsor \in Sponsors
  <2> SUFFICES ASSUME z # <<>>, z[1].call = "place" PROVE z[1].sponsor \in Sponsors
    OBVIOUS
  <2>1. 1 \in 1..Len(z)
    BY <1>2, EmptySeq
  <2>3. CASE 1 \in 1..n
    <3>1. c # <<>> /\ z[1] = c[1]
      BY <1>2, <2>3 DEF n
    <3> QED BY <3>1
  <2>4. ASSUME NEW j \in 2..m, 1 = n + j - 1 PROVE FALSE
    <3>1. z[1] = q[j] /\ q[j].call \in {"refill", "save"}
      BY <1>2, <2>4 DEF Plan, n, m
    <3> QED BY <3>1
  <2> QED BY <1>3, <2>1, <2>3, <2>4
<1>9. Plan(z)
  BY <1>2, <1>4, <1>7, <1>8 DEF Plan
<1>10. CASE q[1].call = "refill"
  <2>1. 1 \in Refills(q)
    BY <1>2, <1>10 DEF Refills
  <2>2. Refills(z) = {}
    BY <1>5, <2>1 DEF Plan
  <2> QED BY <1>9, <1>10, <2>2 DEF Refilling
<1>11. CASE q[1].call # "refill"
  <2>1. \A j \in Refills(q) : j # 1
    BY <1>11 DEF Refills
  <2>2. Refilling(z) = Refilling(q)
    <3>1. ASSUME NEW i \in Refills(z) PROVE z[i].account \in Refilling(q)
      <4>1. PICK j \in Refills(q) : j \in 2..m /\ i = n + j - 1
        BY <1>5
      <4>2. z[i] = q[j]
        BY <1>6, <2>1, <4>1
      <4> QED BY <4>2 DEF Refilling
    <3>2. ASSUME NEW j \in Refills(q) PROVE q[j].account \in Refilling(z)
      <4>1. n + j - 1 \in Refills(z) /\ z[n + j - 1] = q[j]
        BY <1>6, <2>1
      <4> QED BY <4>1 DEF Refilling
    <3> QED BY <3>1, <3>2 DEF Refilling
  <2> QED BY <1>9, <1>11, <2>2
<1> QED BY <1>10, <1>11
\* A full matrix: points, a refill and a save, when no refill was pending.
LEMMA FullIsPlan ==
  ASSUME NEW q, Plan(q), q # <<>>, Refills(q) = {}, NEW o \in Accounts,
         NEW c, c = AfterLastSlot(o), NEW z, z = c \o Tail(q)
  PROVE  /\ Plan(z) /\ Refilling(z) = {o} /\ z[1] = Award(o, CyclePoints)
         /\ c \in Seq(Calls) /\ Len(c) # 0 /\ c[Len(c)] = Save
<1>1. /\ c \in Seq(Calls) /\ Len(c) = 3
      /\ c[1] = Award(o, CyclePoints) /\ c[2] = Refill(o) /\ c[3] = Save
  <2>1. Award(o, CyclePoints) \in Calls /\ Refill(o) \in Calls /\ Save \in Calls
    BY DEF Calls
  <2> QED BY <2>1 DEF AfterLastSlot
<1>2. q \in Seq(Calls)
  BY DEF Plan
<1>3. /\ z \in Seq(Calls)
      /\ Len(c) \in Nat /\ Len(q) \in Nat \ {0} /\ Len(z) = Len(c) + Len(q) - 1
      /\ \A i \in 1..Len(c) : z[i] = c[i]
      /\ \A i \in 2..Len(q) : z[Len(c) + i - 1] = q[i]
  <2>1. c \in Seq(Calls)
    BY <1>1
  <2> QED BY <1>2, <2>1, Rest
<1>4. z[1] = Award(o, CyclePoints) /\ z[2] = Refill(o) /\ z[3] = Save
  BY <1>1, <1>3
<1>5. ASSUME NEW i \in 1..Len(z) PROVE i \in {1, 2, 3} \/ \E j \in 2..Len(q) : i = 3 + j - 1
  BY <1>1, <1>3, RestIndex
<1>6. \A j \in 2..Len(q) : q[j].call = "save"
  <2>1. \A j \in 2..Len(q) : j \notin Refills(q) /\ q[j].call \in {"refill", "save"} /\ j \in 1..Len(q)
    BY DEF Plan
  <2> QED BY <2>1 DEF Refills
<1>7. \A j \in 2..Len(q) : z[3 + j - 1].call = "save"
  BY <1>1, <1>3, <1>6
<1>8. /\ z[1].call = "award" /\ z[2].call = "refill" /\ z[2].account = o /\ z[3].call = "save"
  <2>1. Award(o, CyclePoints).call = "award"
    BY DEF Award
  <2>2. Refill(o).call = "refill" /\ Refill(o).account = o
    BY DEF Refill
  <2>3. Save.call = "save"
    BY DEF Save
  <2> QED BY <1>4, <2>1, <2>2, <2>3
<1>9. Refills(z) = {2}
  <2>1. 2 \in Refills(z)
    BY <1>1, <1>3, <1>8 DEF Refills
  <2>2. ASSUME NEW i \in Refills(z) PROVE i = 2
    <3>1. i \in 1..Len(z) /\ z[i].call = "refill"
      BY DEF Refills
    <3> QED BY <1>5, <1>7, <1>8, <3>1
  <2> QED BY <2>1, <2>2
<1>10. ASSUME NEW i \in 2..Len(z) PROVE z[i].call \in {"refill", "save"}
  <2>1. i \in 1..Len(z) /\ i # 1
    OBVIOUS
  <2> QED BY <1>5, <1>7, <1>8, <2>1
<1>11. Plan(z)
  BY <1>3, <1>8, <1>9, <1>10 DEF Plan
<1>12. Refilling(z) = {o}
  BY <1>8, <1>9 DEF Refilling
<1>13. Len(c) # 0 /\ c[Len(c)] = Save
  BY <1>1
<1> QED BY <1>1, <1>4, <1>11, <1>12, <1>13

\* The rest of a request that ends with a save ends with it too, and so does a
\* rest that begins with calls that do.
LEMMA RestEndsWithSave ==
  ASSUME NEW c \in Seq(Calls), NEW q \in Seq(Calls), q # <<>>, NEW z, z = c \o Tail(q),
         \/ Len(q) # 1 /\ q[Len(q)] = Save
         \/ /\ Len(c) # 0 /\ c[Len(c)] = Save
            /\ Len(q) = 1 \/ q[Len(q)] = Save
  PROVE  z # <<>> /\ z[Len(z)] = Save
<1>1. /\ z \in Seq(Calls)
      /\ Len(c) \in Nat /\ Len(q) \in Nat \ {0} /\ Len(z) = Len(c) + Len(q) - 1
      /\ \A i \in 1..Len(c) : z[i] = c[i]
      /\ \A i \in 2..Len(q) : z[Len(c) + i - 1] = q[i]
  BY Rest
<1>2. CASE Len(q) # 1
  <2> DEFINE n == Len(c)
             m == Len(q)
  <2>1. Len(q) \in 2..Len(q) /\ Len(z) = Len(c) + Len(q) - 1 /\ Len(z) # 0
    <3>1. n \in Nat /\ m \in Nat \ {0, 1} /\ Len(z) = n + m - 1
      BY <1>1, <1>2
    <3> HIDE DEF n, m
    <3>2. m \in 2..m /\ n + m - 1 # 0
      BY <3>1
    <3> QED BY <3>1, <3>2 DEF n, m
  <2>2. q[Len(q)] = Save
    BY <1>2
  <2> QED BY <1>1, <2>1, <2>2
<1>3. CASE Len(q) = 1
  <2>1. Len(c) # 0 /\ c[Len(c)] = Save
    BY <1>3
  <2>2. Len(z) = Len(c)
    BY <1>1, <1>3
  <2> QED BY <1>1, <2>1, <2>2
<1> QED BY <1>2, <1>3
\* The call after the first one, when there is one, is a refill or a save.
LEMMA NextCall ==
  ASSUME NEW q, Plan(q), q # <<>>, NEW z, z = <<>> \o Tail(q)
  PROVE  z # <<>> => z[1].call \in {"refill", "save"}
<1>1. q \in Seq(Calls) /\ <<>> \in Seq(Calls) /\ Len(<<>>) = 0
  BY DEF Plan
<1>2. /\ z \in Seq(Calls) /\ Len(q) \in Nat \ {0} /\ Len(z) = 0 + Len(q) - 1
      /\ \A i \in 2..Len(q) : z[0 + i - 1] = q[i]
  BY <1>1, Rest
<1>3. ASSUME z # <<>> PROVE z[1] = q[2] /\ 2 \in 2..Len(q)
  <2>1. Len(z) \in Nat \ {0}
    BY <1>2, <1>3, EmptySeq
  <2>2. 2 \in 2..Len(q)
    BY <1>2, <2>1
  <2> QED BY <1>2, <2>2
<1> QED BY <1>3 DEF Plan

\* A call, and perhaps a save, instead of the first call.
LEMMA CallFollows ==
  ASSUME NEW q, Plan(q), q # <<>>, q[1].call # "refill",
         Len(q) = 1 \/ q[Len(q)] = Save,
         NEW c \in Seq(Calls), Len(c) \in {1, 2}, Len(c) = 2 => c[2] = Save,
         c[1].call # "refill", c[1].call = "place" => c[1].sponsor \in Sponsors,
         NEW z, z = c \o Tail(q)
  PROVE  /\ Plan(z) /\ Refilling(z) = Refilling(q)
         /\ z # <<>> /\ z[1] = c[1]
         /\ z[Len(z)] = Save \/ Len(z) = 1
         /\ c[Len(c)] = Save => z[Len(z)] = Save
<1>1. q \in Seq(Calls) /\ Save.call = "save"
  BY DEF Plan, Save
<1>2. /\ \A i \in 1..Len(c) : c[i].call # "refill"
      /\ \A i \in 2..Len(c) : c[i].call = "save"
  <2>1. CASE Len(c) = 1
    BY <2>1
  <2>2. CASE Len(c) = 2
    <3>1. c[2].call = "save"
      BY <1>1, <2>2
    <3> QED BY <2>2, <3>1
  <2> QED BY <2>1, <2>2
<1>3. Plan(z) /\ Refilling(z) = Refilling(q)
  BY <1>2, RestIsPlan
<1>4. /\ z \in Seq(Calls)
      /\ Len(q) \in Nat \ {0} /\ Len(z) = Len(c) + Len(q) - 1
      /\ \A i \in 1..Len(c) : z[i] = c[i]
  BY <1>1, Rest
<1>5. z[1] = c[1]
  BY <1>4
<1>6. Len(z) # 0
  BY <1>4
<1>7. z # <<>>
  BY <1>6
<1>8. c[Len(c)] = Save => z[Len(z)] = Save
  BY <1>1, RestEndsWithSave
<1>9. CASE Len(q) = 1 /\ Len(c) = 1
  BY <1>3, <1>4, <1>5, <1>7, <1>8, <1>9
<1>10. CASE Len(c) = 2
  BY <1>3, <1>5, <1>7, <1>8, <1>10
<1>11. CASE Len(q) # 1
  <2>1. z[Len(z)] = Save
    BY <1>1, <1>11, RestEndsWithSave
  <2> QED BY <1>3, <1>5, <1>7, <2>1
<1> QED BY <1>9, <1>10, <1>11

\* The first call is done with.
LEMMA NothingFollows ==
  ASSUME NEW q, Plan(q), q # <<>>, Len(q) = 1 \/ q[Len(q)] = Save,
         NEW z, z = <<>> \o Tail(q)
  PROVE  /\ Plan(z)
         /\ Refilling(z) = (IF q[1].call = "refill" THEN {} ELSE Refilling(q))
         /\ z # <<>> => z[1].call \in {"refill", "save"} /\ z[Len(z)] = Save
         /\ z = <<>> => Len(q) = 1
<1>1. q \in Seq(Calls) /\ <<>> \in Seq(Calls) /\ Len(<<>>) = 0
  BY DEF Plan
<1>2. Plan(z) /\ Refilling(z) = (IF q[1].call = "refill" THEN {} ELSE Refilling(q))
  <2>1. /\ \A i \in 1..Len(<<>>) : <<>>[i].call # "refill"
        /\ \A i \in 2..Len(<<>>) : <<>>[i].call = "save"
    BY <1>1
  <2> QED BY <1>1, <2>1, RestIsPlan
<1>3. z \in Seq(Calls) /\ Len(q) \in Nat \ {0} /\ Len(z) = 0 + Len(q) - 1
  BY <1>1, Rest
<1>4. z # <<>> => z[1].call \in {"refill", "save"}
  BY NextCall
<1>5. Len(q) # 1 => z[Len(z)] = Save
  BY <1>1, RestEndsWithSave
<1>6. z # <<>> => Len(z) # 0
  BY <1>3, EmptySeq
<1>7. z = <<>> => Len(q) = 1
  <2>1. z = <<>> => Len(z) = 0
    BY <1>1, Zenon
  <2> QED BY <1>3, <2>1
<1> QED BY <1>2, <1>3, <1>4, <1>5, <1>6, <1>7

-----------------------------------------------------------------------------
(* One lemma per action: what each leaves of the invariant                 *)

\* The accounts a pending call names.
LEMMA CallTypes ==
  ASSUME NEW r \in Calls
  PROVE  /\ r.call = "place" => r.account \in Accounts /\ r.sponsor \in Accounts
         /\ r.call \in {"award", "check", "spawn", "refill"} => r.account \in Accounts
         /\ r.call = "spawn" => r.sponsor \in Sponsors
         /\ r.call = "award" => r.points \in Int
         /\ r.call = "save" => r = Save
<1>0. AwardInputs \cup {CyclePoints} \subseteq Int
  BY SizesAssumption DEF CyclePoints
<1> USE DEF Place, Award, Check, Spawn, Refill, Save
<1>1. CASE \E a, s \in Accounts : r = Place(a, s)
  BY <1>1
<1>2. CASE \E a \in Accounts, s \in Sponsors : r = Spawn(a, s)
  BY <1>2
<1>3. CASE \E a \in Accounts, p \in AwardInputs \cup {CyclePoints} : r = Award(a, p)
  BY <1>0, <1>3
<1>4. CASE \E a \in Accounts : r = Check(a)
  BY <1>4
<1>5. CASE \E a \in Accounts : r = Refill(a)
  BY <1>5
<1>6. CASE r = Save
  BY <1>6
<1> QED BY <1>1, <1>2, <1>3, <1>4, <1>5, <1>6 DEF Calls

LEMMA Pending ==
  ASSUME IInv, todo # <<>>
  PROVE  /\ todo \in Seq(Calls) /\ Len(todo) \in Nat \ {0} /\ todo[1] \in Calls
         /\ Len(todo) = 1 \/ todo[Len(todo)] = Save
         /\ todo[1].call \in {"place", "refill"} => todo[Len(todo)] = Save
         /\ todo[1].call \in {"place", "refill", "save"} /\ crashes = 0 /\ Pool # <<>> =>
              Owed(store) = {}
         /\ todo[1].call \in {"award", "check", "spawn"} /\ crashes = 0 /\ Pool # <<>> =>
              Owed(store) \subseteq {todo[1].account}
<1>1. todo \in Seq(Calls) /\ Len(todo) \in Nat \ {0} /\ todo[1] \in Calls
  <2>1. todo \in Seq(Calls)
    BY DEF IInv, Plan
  <2>2. Len(todo) \in Nat \ {0} /\ 1 \in 1..Len(todo)
    BY <2>1, EmptySeq
  <2> QED BY <2>1, <2>2, ElementOfSeq
<1>2. \/ todo[Len(todo)] = Save
      \/ Len(todo) = 1 /\ todo[1].call \in {"award", "check", "spawn"}
  BY DEF IInv, SavesAtEnd
<1>3. crashes = 0 /\ Pool # <<>> =>
        \A a \in Owed(store) :
          todo[1].call \in {"award", "check", "spawn"} /\ todo[1].account = a
  BY DEF IInv, NextIsPaid
<1>4. todo[1].call \in {"place", "refill", "save"} => todo[1].call \notin {"award", "check", "spawn"}
  OBVIOUS
<1> QED BY <1>1, <1>2, <1>3, <1>4

LEMMA LackingIsFinite ==
  ASSUME NEW s, Consistent(s)
  PROVE  IsFiniteSet(Lacking(s)) /\ Cardinality(Lacking(s)) \in Nat
<1>1. IsFiniteSet(Lacking(s))
  BY FS_Subset DEF Consistent, Typed, Lacking
<1> QED BY <1>1, FS_CardinalityType

LEMMA Stakes ==
  ASSUME NEW q
  PROVE  AtStake(q) \in {0, 1} /\ (q = <<>> => AtStake(q) = 0) /\ (q # <<>> => AtStake(q) = 1)
BY DEF AtStake

\* A request refills at most one matrix, so one account at most lacks one that
\* no crash has cost it.
LEMMA LostAtMost ==
  ASSUME IInv
  PROVE  Cardinality(Lacking(store)) <= crashes + AtStake(todo)
<1>1. /\ crashes \in Nat /\ IsFiniteSet(Lacking(store)) /\ Cardinality(Lacking(store)) \in Nat
      /\ Cardinality(Lacking(store) \ Refilling(todo)) <= crashes
  BY LackingIsFinite DEF IInv, MatricesLost
<1>0. AtStake(todo) \in {0, 1} /\ (todo # <<>> => AtStake(todo) = 1)
  BY Stakes
<1>2. CASE Refilling(todo) = {}
  <2>1. Lacking(store) \ Refilling(todo) = Lacking(store)
    BY <1>2
  <2>2. Cardinality(Lacking(store)) <= crashes
    BY <1>1, <2>1, Zenon
  <2> QED BY <1>0, <1>1, <2>2
<1>3. CASE Refilling(todo) # {}
  <2>1. PICK i \in Refills(todo) : Refills(todo) = {i}
    BY <1>3 DEF IInv, Plan, Refilling
  <2>2. Refilling(todo) = {todo[i].account}
    BY <2>1 DEF Refilling
  <2>3. PICK o : Refilling(todo) = {o}
    BY <2>2
  <2>4. CASE o \in Lacking(store)
    <3>1. Cardinality(Lacking(store) \ {o}) = Cardinality(Lacking(store)) - 1
      BY <1>1, <2>4, OneLess
    <3>2. todo # <<>>
      BY <2>1 DEF Refills
    <3> QED BY <1>0, <1>1, <2>3, <3>1, <3>2
  <2>5. CASE o \notin Lacking(store)
    <3>1. Lacking(store) \ Refilling(todo) = Lacking(store)
      BY <2>3, <2>5
    <3>2. Cardinality(Lacking(store)) <= crashes
      BY <1>1, <3>1, Zenon
    <3> QED BY <1>0, <1>1, <3>2
  <2> QED BY <2>4, <2>5
<1> QED BY <1>2, <1>3

\* Neither who lacks a matrix nor the pending refill changes.
LEMMA LostAsBefore ==
  ASSUME IInv, crashes' = crashes, Lacking(store') = Lacking(store),
         Refillable(store) \subseteq Refillable(store'), Refilling(todo') = Refilling(todo),
         \/ disk' = store' /\ (todo' = <<>> => Refilling(todo') = {})
         \/ disk' = disk /\ (todo' = <<>> => todo = <<>>)
  PROVE  MatricesLost'
<1>1. /\ crashes \in Nat /\ Cardinality(Lacking(disk)) \in Nat
      /\ Cardinality(Lacking(store)) \in Nat
      /\ Refilling(todo) \subseteq Refillable(store)
      /\ Cardinality(Lacking(store) \ Refilling(todo)) <= crashes
      /\ Cardinality(Lacking(disk)) <= crashes + AtStake(todo)
  BY LackingIsFinite DEF IInv, MatricesLost
<1>2. /\ Refilling(todo') \subseteq Refillable(store')
      /\ Cardinality(Lacking(store') \ Refilling(todo')) <= crashes'
  BY <1>1
<1>3. Cardinality(Lacking(disk')) <= crashes' + AtStake(todo')
  <2>1. CASE disk' = store' /\ (todo' = <<>> => Refilling(todo') = {})
    <3>1. CASE todo' = <<>>
      <4>1. Lacking(store) \ Refilling(todo) = Lacking(store)
        BY <2>1, <3>1
      <4>2. Cardinality(Lacking(store)) <= crashes
        BY <1>1, <4>1
      <4> QED BY <1>1, <2>1, <3>1, <4>2, Stakes
    <3>2. CASE todo' # <<>>
      <4>1. Cardinality(Lacking(store)) <= crashes + 1
        BY <1>1, LostAtMost, Stakes
      <4>2. AtStake(todo') = 1 /\ Lacking(disk') = Lacking(store) /\ crashes' = crashes
        BY <2>1, <3>2, Stakes
      <4> QED BY <4>1, <4>2
    <3> QED BY <3>1, <3>2
  <2>2. CASE disk' = disk /\ (todo' = <<>> => todo = <<>>)
    <3>1. AtStake(todo) \in {0, 1} /\ AtStake(todo') \in {0, 1} /\ AtStake(todo) <= AtStake(todo')
      BY <2>2, Stakes
    <3> QED BY <1>1, <2>2, <3>1
  <2> QED BY <2>1, <2>2
<1> QED BY <1>2, <1>3 DEF MatricesLost
LEMMA NothingLeft == \A q : q = <<>> => Refilling(q) = {}
BY DEF Refilling, Refills

LEMMA PlaceNowhereKeeps ==
  ASSUME IInv, PlaceNowhere
  PROVE  IInv'
<1>1. /\ todo # <<>> /\ todo[1].call = "place" /\ todo' = <<Save>> \o Tail(todo)
      /\ store' = store /\ disk' = disk /\ crashes' = crashes /\ Plan(todo)
  BY DEF PlaceNowhere, Doing, Then, IInv
<1>2. PICK c : c = <<Save>>
  OBVIOUS
<1>3. c \in Seq(Calls) /\ Len(c) = 1 /\ c[1] = Save /\ Save.call = "save"
  BY <1>2 DEF Calls, Save
<1>4. todo[1].call # "refill" /\ (Len(todo) = 1 \/ todo[Len(todo)] = Save)
  BY <1>1, Pending
<1>5. /\ Plan(todo') /\ Refilling(todo') = Refilling(todo)
      /\ todo' # <<>> /\ todo'[1] = Save /\ todo'[Len(todo')] = Save
  BY <1>1, <1>2, <1>3, <1>4, CallFollows, ZenonT(30)
<1>6. SavesAtEnd'
  BY <1>5 DEF SavesAtEnd
<1>7. MatricesLost'
  <2>1. Lacking(store') = Lacking(store) /\ Refillable(store') = Refillable(store)
    BY <1>1
  <2> QED BY <1>1, <1>5, <2>1, LostAsBefore
<1>8. NextIsPaid'
  <2>1. crashes = 0 /\ Pool # <<>> => Owed(store) = {}
    BY <1>1, Pending
  <2>2. Owed(store)' = Owed(store)
    BY <1>1 DEF Owed
  <2> QED BY <1>1, <1>3, <1>5, <2>1, <2>2 DEF NextIsPaid
<1>9. crashes' \in Nat /\ Consistent(store)' /\ Consistent(disk)'
  BY <1>1 DEF IInv
<1> QED BY <1>5, <1>6, <1>7, <1>8, <1>9 DEF IInv

LEMMA SaveStateKeeps ==
  ASSUME IInv, SaveState
  PROVE  IInv'
<1>1. /\ todo # <<>> /\ todo[1].call = "save" /\ todo' = <<>> \o Tail(todo)
      /\ store' = store /\ disk' = store /\ crashes' = crashes /\ Plan(todo)
  BY DEF SaveState, Doing, Then, IInv
<1>2. Len(todo) = 1 \/ todo[Len(todo)] = Save
  BY <1>1, Pending
<1>3. /\ Plan(todo') /\ Refilling(todo') = Refilling(todo)
      /\ todo' # <<>> => todo'[1].call \in {"refill", "save"} /\ todo'[Len(todo')] = Save
  BY <1>1, <1>2, NothingFollows
<1>4. SavesAtEnd'
  BY <1>1, <1>3 DEF SavesAtEnd
<1>5. MatricesLost'
  <2>1. Lacking(store') = Lacking(store) /\ Refillable(store') = Refillable(store)
    BY <1>1
  <2> QED BY <1>1, <1>3, <2>1, NothingLeft, LostAsBefore
<1>6. NextIsPaid'
  <2>1. crashes = 0 /\ Pool # <<>> => Owed(store) = {}
    BY <1>1, Pending
  <2>2. Owed(store)' = Owed(store)
    BY <1>1 DEF Owed
  <2> QED BY <1>1, <1>3, <2>1, <2>2 DEF NextIsPaid
<1>7. crashes' \in Nat /\ Consistent(store)' /\ Consistent(disk)'
  BY <1>1 DEF IInv
<1> QED BY <1>3, <1>4, <1>5, <1>6, <1>7 DEF IInv

LEMMA AwardPointsKeeps ==
  ASSUME IInv, AwardPoints
  PROVE  IInv'
<1> DEFINE a == todo[1].account
<1>1. /\ todo # <<>> /\ todo[1].call = "award" /\ todo' = <<Check(a)>> \o Tail(todo)
      /\ store' = WithPoints(store, a, todo[1].points) /\ disk' = store'
      /\ crashes' = crashes /\ Plan(todo) /\ Consistent(store)
  BY DEF AwardPoints, Doing, Then, IInv
<1>2. a \in Accounts
  BY <1>1, Pending, CallTypes
<1> HIDE DEF a
<1>3. PICK c : c = <<Check(a)>>
  OBVIOUS
<1>p. todo[1].points \in Int
  BY <1>1, Pending, CallTypes
<1>4. /\ c \in Seq(Calls) /\ Len(c) = 1 /\ c[1] = Check(a)
      /\ Check(a).call = "check" /\ Check(a).account = a
  BY <1>2, <1>3 DEF Calls, Check
<1>5. todo[1].call # "refill" /\ (Len(todo) = 1 \/ todo[Len(todo)] = Save)
  BY <1>1, Pending
<1>6. /\ Plan(todo') /\ Refilling(todo') = Refilling(todo)
      /\ todo' # <<>> /\ todo'[1] = Check(a)
      /\ todo'[Len(todo')] = Save \/ Len(todo') = 1
  <2>1. todo # <<>> /\ Plan(todo) /\ todo' = c \o Tail(todo)
    BY <1>1, <1>3
  <2>2. /\ Len(c) \in {1, 2} /\ (Len(c) = 2 => c[2] = Save)
        /\ c[1].call # "refill" /\ (c[1].call = "place" => c[1].sponsor \in Sponsors)
    BY <1>4
  <2>3. /\ Plan(todo') /\ Refilling(todo') = Refilling(todo)
        /\ todo' # <<>> /\ todo'[1] = c[1]
        /\ todo'[Len(todo')] = Save \/ Len(todo') = 1
    BY <1>4, <1>5, <2>1, <2>2, CallFollows
  <2> QED BY <1>4, <2>3
<1>7. /\ Consistent(store') /\ Lacking(store') = Lacking(store)
      /\ Refillable(store') = Refillable(store)
      /\ Owed(store') \subseteq Owed(store) \cup {a}
  BY <1>1, <1>2, <1>p, PointsKeep
<1>8. SavesAtEnd'
  BY <1>1, <1>4, <1>6 DEF SavesAtEnd
<1>9. MatricesLost'
  BY <1>1, <1>6, <1>7, LostAsBefore
<1>10. NextIsPaid'
  <2>1. crashes = 0 /\ Pool # <<>> => Owed(store) \subseteq {a}
    BY <1>1, Pending DEF a
  <2>2. crashes = 0 /\ Pool # <<>> => Owed(store') \subseteq {a}
    BY <1>7, <2>1
  <2> QED BY <1>1, <1>4, <1>6, <2>2 DEF NextIsPaid
<1>11. crashes' \in Nat /\ Consistent(store)' /\ Consistent(disk)'
  BY <1>1, <1>7 DEF IInv
<1> QED BY <1>6, <1>8, <1>9, <1>10, <1>11 DEF IInv
\* An account that is owed a free account, and has its flags, qualifies.
LEMMA OwedQualifies ==
  ASSUME NEW s, Consistent(s), NEW a \in Owed(s)
  PROVE  Qualifies(s, a)
<1>1. /\ a \in Accounts /\ a \in s.graduated /\ CycledOf(s, a) # {} /\ s.freeOf[a] = {}
      /\ FlagsTellOf(s, a)
  BY DEF Owed, Consistent, FlagsTell
<1>2. ~s.flags[a].spawned
  BY <1>1 DEF FlagsTellOf
<1> QED BY <1>1, <1>2 DEF FlagsTellOf, Qualifies

LEMMA CheckNothingKeeps ==
  ASSUME IInv, CheckNothing
  PROVE  IInv'
<1>1. /\ todo # <<>> /\ todo[1].call = "check" /\ todo' = <<>> \o Tail(todo)
      /\ store' = store /\ disk' = disk /\ crashes' = crashes /\ Plan(todo)
      /\ ~Qualifies(store, todo[1].account) \/ Pool = <<>>
  BY DEF CheckNothing, Doing, Then, IInv
<1>2. Len(todo) = 1 \/ todo[Len(todo)] = Save
  BY <1>1, Pending
<1>3. /\ Plan(todo') /\ Refilling(todo') = Refilling(todo)
      /\ todo' # <<>> => todo'[1].call \in {"refill", "save"} /\ todo'[Len(todo')] = Save
      /\ todo' = <<>> => Len(todo) = 1
  BY <1>1, <1>2, NothingFollows
<1>4. todo' = <<>> => disk = store
  <2>1. SavesAtEnd
    BY DEF IInv
  <2>2. CASE todo[Len(todo)] = Save
    <3>1. todo' = <<>> => todo[1] = Save
      BY <1>3, <2>2
    <3>2. todo[1] # Save
      BY <1>1 DEF Save
    <3> QED BY <3>1, <3>2
  <2>3. CASE Len(todo) = 1 /\ todo[1].call \in {"check", "spawn"} /\ disk = store
    BY <2>3
  <2> QED BY <1>1, <2>1, <2>2, <2>3 DEF SavesAtEnd
<1>5. SavesAtEnd'
  BY <1>1, <1>3, <1>4 DEF SavesAtEnd
<1>6. MatricesLost'
  <2>1. Lacking(store') = Lacking(store) /\ Refillable(store') = Refillable(store)
    BY <1>1
  <2>2. CASE todo' = <<>>
    <3>1. disk' = store' /\ Refilling(todo') = {} /\ Refilling(todo') = Refilling(todo)
      BY <1>1, <1>3, <1>4, <2>2, NothingLeft
    <3> QED BY <1>1, <2>1, <3>1, LostAsBefore
  <2>3. CASE todo' # <<>>
    BY <1>1, <1>3, <2>1, <2>3, LostAsBefore
  <2> QED BY <2>2, <2>3
<1>7. NextIsPaid'
  <2>1. crashes = 0 /\ Pool # <<>> => Owed(store) = {}
    <3>1. crashes = 0 /\ Pool # <<>> => Owed(store) \subseteq {todo[1].account}
      BY <1>1, Pending
    <3>2. \A a \in Owed(store) : Qualifies(store, a)
      BY OwedQualifies DEF IInv
    <3> QED BY <1>1, <3>1, <3>2
  <2>2. Owed(store)' = Owed(store)
    BY <1>1 DEF Owed
  <2> QED BY <1>1, <1>3, <2>1, <2>2 DEF NextIsPaid
<1>8. crashes' \in Nat /\ Consistent(store)' /\ Consistent(disk)'
  BY <1>1 DEF IInv
<1> QED BY <1>3, <1>5, <1>6, <1>7, <1>8 DEF IInv

LEMMA CheckAllocatesKeeps ==
  ASSUME IInv, CheckAllocates
  PROVE  IInv'
<1> DEFINE a == todo[1].account
<1>1. PICK p : p = AllocatedSponsor(store)
  OBVIOUS
<1>2. PICK c : c = <<Spawn(a, p)>>
  OBVIOUS
<1>3. /\ todo # <<>> /\ todo[1].call = "check" /\ todo' = c \o Tail(todo)
      /\ Qualifies(store, a) /\ store' = Counted(store, p) /\ disk' = store'
      /\ crashes' = crashes /\ Plan(todo) /\ Consistent(store) /\ p \in Sponsors
  BY <1>1, <1>2, AllocatedIsSponsor DEF CheckAllocates, Doing, Then, IInv
<1>4. a \in Accounts
  BY <1>3, Pending, CallTypes
<1> HIDE DEF a
<1>5. /\ c \in Seq(Calls) /\ Len(c) = 1 /\ c[1] = Spawn(a, p)
      /\ Spawn(a, p).call = "spawn" /\ Spawn(a, p).account = a
  BY <1>2, <1>3, <1>4 DEF Calls, Spawn
<1>6. todo[1].call # "refill" /\ (Len(todo) = 1 \/ todo[Len(todo)] = Save)
  BY <1>3, Pending
<1>7. /\ Plan(todo') /\ Refilling(todo') = Refilling(todo)
      /\ todo' # <<>> /\ todo'[1] = Spawn(a, p)
      /\ todo'[Len(todo')] = Save \/ Len(todo') = 1
  <2>1. todo # <<>> /\ Plan(todo) /\ todo' = c \o Tail(todo)
    BY <1>3
  <2>2. /\ Len(c) \in {1, 2} /\ (Len(c) = 2 => c[2] = Save)
        /\ c[1].call # "refill" /\ (c[1].call = "place" => c[1].sponsor \in Sponsors)
    BY <1>5
  <2>3. /\ Plan(todo') /\ Refilling(todo') = Refilling(todo)
        /\ todo' # <<>> /\ todo'[1] = c[1]
        /\ todo'[Len(todo')] = Save \/ Len(todo') = 1
    BY <1>5, <1>6, <2>1, <2>2, CallFollows
  <2> QED BY <1>5, <2>3
<1>8. /\ Consistent(store') /\ Lacking(store') = Lacking(store)
      /\ Refillable(store') = Refillable(store)
      /\ Owed(store') = Owed(store) /\ Qualifies(store', a)
  BY <1>3, CountedKeeps
<1>9. SavesAtEnd'
  BY <1>3, <1>5, <1>7 DEF SavesAtEnd
<1>10. MatricesLost'
  BY <1>3, <1>7, <1>8, LostAsBefore
<1>11. NextIsPaid'
  <2>1. crashes = 0 /\ Pool # <<>> => Owed(store') \subseteq {a}
    BY <1>3, <1>8, Pending DEF a
  <2> QED BY <1>3, <1>5, <1>7, <1>8, <2>1 DEF NextIsPaid
<1>12. crashes' \in Nat /\ Consistent(store)' /\ Consistent(disk)'
  BY <1>3, <1>8 DEF IInv
<1> QED BY <1>7, <1>9, <1>10, <1>11, <1>12 DEF IInv

LEMMA SpawnFreeAccountKeeps ==
  ASSUME IInv, NEW new \in FreshIds, SpawnFreeAccount(new)
  PROVE  IInv'
<1> DEFINE a == todo[1].account
           p == todo[1].sponsor
<1>1. PICK c : c = <<Place(new, p), Save>>
  OBVIOUS
<1>2. PICK r : r = WithAccount(store, new, <<new>>)
  OBVIOUS
<1>3. /\ todo # <<>> /\ todo[1].call = "spawn" /\ todo' = c \o Tail(todo)
      /\ store' = Spawned(r, a, new) /\ disk' = disk
      /\ crashes' = crashes /\ Plan(todo) /\ Consistent(store)
      /\ Qualifies(store, a)
  BY <1>1, <1>2 DEF SpawnFreeAccount, Spawned, Doing, Then, IInv, NextIsPaid
<1>4. /\ a \in Accounts /\ p \in Sponsors /\ p \in Accounts
      /\ new \in Accounts \ (store.accounts \cup Sponsors) /\ new \in Accounts
      /\ <<new>> \in Seq(Accounts)
  <2>1. new \in Accounts \ (store.accounts \cup Sponsors) /\ <<new>> \in Seq(Accounts)
    BY DEF FreshIds
  <2>2. todo[1] \in Calls
    BY <1>3, Pending
  <2>3. a \in Accounts /\ p \in Sponsors
    BY <1>3, <2>2, CallTypes
  <2>4. p \in Accounts
    BY <2>3, PoolAssumption DEF Sponsors
  <2> QED BY <2>1, <2>3, <2>4
<1> HIDE DEF a, p
<1>5. /\ c \in Seq(Calls) /\ Len(c) = 2 /\ c[1] = Place(new, p) /\ c[2] = Save
      /\ Place(new, p).call = "place" /\ Place(new, p).sponsor = p
  <2>1. Place(new, p) \in Calls /\ Save \in Calls
    BY <1>4 DEF Calls
  <2> QED BY <1>1, <2>1 DEF Place
<1>6. todo[1].call # "refill" /\ (Len(todo) = 1 \/ todo[Len(todo)] = Save)
  BY <1>3, Pending
<1>7. /\ Plan(todo') /\ Refilling(todo') = Refilling(todo)
      /\ todo' # <<>> /\ todo'[1] = Place(new, p) /\ todo'[Len(todo')] = Save
  <2>1. todo # <<>> /\ Plan(todo) /\ todo' = c \o Tail(todo)
    BY <1>3
  <2>2. /\ Len(c) \in {1, 2} /\ (Len(c) = 2 => c[2] = Save) /\ c[Len(c)] = Save
        /\ c[1].call # "refill" /\ (c[1].call = "place" => c[1].sponsor \in Sponsors)
    BY <1>4, <1>5
  <2>3. /\ Plan(todo') /\ Refilling(todo') = Refilling(todo)
        /\ todo' # <<>> /\ todo'[1] = c[1] /\ todo'[Len(todo')] = Save
    BY <1>5, <1>6, <2>1, <2>2, CallFollows
  <2> QED BY <1>5, <2>3
<1>8. /\ Consistent(store') /\ Lacking(store') = Lacking(store)
      /\ Refillable(store) \subseteq Refillable(store')
      /\ Owed(store') = Owed(store) \ {a}
  <2>1. PICK slots : slots = <<new>>
    OBVIOUS
  <2>2. slots \in Seq(Accounts) /\ r = WithAccount(store, new, slots)
    BY <1>2, <1>4, <2>1
  <2> QED BY <1>3, <1>4, <2>2, SpawnKeeps
<1>9. SavesAtEnd'
  BY <1>7 DEF SavesAtEnd
<1>10. MatricesLost'
  BY <1>3, <1>7, <1>8, LostAsBefore
<1>11. NextIsPaid'
  <2>1. crashes = 0 /\ Pool # <<>> => Owed(store') = {}
    BY <1>3, <1>8, Pending DEF a
  <2> QED BY <1>3, <1>5, <1>7, <2>1 DEF NextIsPaid
<1>12. crashes' \in Nat /\ Consistent(store)' /\ Consistent(disk)'
  BY <1>3, <1>8 DEF IInv
<1> QED BY <1>7, <1>9, <1>10, <1>11, <1>12 DEF IInv
LEMMA RefillMatrixKeeps ==
  ASSUME IInv, RefillMatrix
  PROVE  IInv'
<1> DEFINE o == todo[1].account
<1>1. PICK slots : slots = <<o>>
  OBVIOUS
<1>2. /\ todo # <<>> /\ todo[1].call = "refill" /\ todo' = <<>> \o Tail(todo)
      /\ store' = WithMatrix(store, o, slots) /\ disk' = disk /\ crashes' = crashes
      /\ Plan(todo) /\ Consistent(store) /\ Consistent(disk) /\ crashes \in Nat /\ MatricesLost
  BY <1>1 DEF RefillMatrix, Doing, Then, IInv
<1>3. /\ todo[Len(todo)] = Save /\ Len(todo) \in Nat \ {0} /\ todo[1] # Save
      /\ o \in Accounts /\ slots \in Seq(Accounts)
  <2>1. todo[Len(todo)] = Save /\ Len(todo) \in Nat \ {0} /\ o \in Accounts
    BY <1>2, Pending, CallTypes
  <2>2. todo[1] # Save
    BY <1>2 DEF Save
  <2> QED BY <1>1, <2>1, <2>2
<1>4. Refilling(todo) = {o} /\ o \in Refillable(store)
  <2>1. 1 \in Refills(todo)
    BY <1>2, <1>3 DEF Refills
  <2>2. Refills(todo) = {1}
    BY <1>2, <2>1 DEF Plan
  <2> QED BY <1>2, <2>2 DEF Refilling, MatricesLost
<1> HIDE DEF o
<1>5. Plan(todo') /\ Refilling(todo') = {}
  BY <1>2, <1>3, NothingFollows
<1>6. todo' # <<>> /\ todo'[1].call \in {"refill", "save"} /\ todo'[Len(todo')] = Save
  BY <1>2, <1>3, NothingFollows
<1>7. /\ Consistent(store') /\ Lacking(store') = Lacking(store) \ {o}
      /\ Owed(store') = Owed(store)
  BY <1>2, <1>3, <1>4, RefillKeeps
<1>8. SavesAtEnd'
  BY <1>6 DEF SavesAtEnd
<1>9. MatricesLost'
  <2>1. Cardinality(Lacking(store') \ Refilling(todo')) <= crashes
    <3>1. Lacking(store') \ Refilling(todo') = Lacking(store) \ Refilling(todo)
      BY <1>4, <1>5, <1>7
    <3> QED BY <1>2, <3>1 DEF MatricesLost
  <2>2. Cardinality(Lacking(disk)) <= crashes + 1
    BY <1>2, Stakes DEF MatricesLost
  <2>3. Lacking(disk') = Lacking(disk)
    BY <1>2
  <2>4. AtStake(todo') = 1
    BY <1>6, Stakes
  <2> QED BY <1>2, <1>5, <2>1, <2>2, <2>3, <2>4 DEF MatricesLost
<1>10. NextIsPaid'
  <2>1. crashes = 0 /\ Pool # <<>> => Owed(store') = {}
    BY <1>2, <1>7, Pending
  <2> QED BY <1>2, <1>6, <2>1 DEF NextIsPaid
<1>11. crashes' \in Nat /\ Consistent(store)' /\ Consistent(disk)'
  BY <1>2, <1>7
<1> QED BY <1>5, <1>8, <1>9, <1>10, <1>11 DEF IInv
LEMMA PlaceInMatrixKeeps ==
  ASSUME IInv, PlaceInMatrix
  PROVE  IInv'
<1>a. PICK o : o = todo[1].sponsor
  OBVIOUS
<1>0. PICK i \in FillingOf(store, o) :
        LET slots == Append(store.matrices[i].slots, todo[1].account)
            full  == IsFull(slots)
        IN  /\ store' = Filled(store, i, o, slots, full)
            /\ Then(IF full THEN AfterLastSlot(o) ELSE <<Save>>)
  BY <1>a, ZenonT(60) DEF PlaceInMatrix, Filled
<1>1. PICK slots : slots = Append(store.matrices[i].slots, todo[1].account)
  OBVIOUS
<1>2. PICK full \in BOOLEAN : full = IsFull(slots)
  BY DEF IsFull
<1>3. PICK c : c = IF full THEN AfterLastSlot(o) ELSE <<Save>>
  BY Zenon
<1>4. /\ todo # <<>> /\ todo[1].call = "place" /\ todo' = c \o Tail(todo)
      /\ store' = Filled(store, i, o, slots, full) /\ disk' = disk /\ crashes' = crashes
      /\ Plan(todo) /\ Consistent(store) /\ Consistent(disk) /\ crashes \in Nat /\ MatricesLost
  BY <1>0, <1>1, <1>2, <1>3 DEF PlaceInMatrix, Doing, Then, IInv
<1>5. /\ todo[1].account \in Accounts /\ o \in Accounts /\ todo \in Seq(Calls)
      /\ todo[Len(todo)] = Save
  BY <1>a, <1>4, Pending, CallTypes
<1>6. slots \in Seq(Accounts)
  <2>1. store.matrices \in Seq(Matrices) /\ i \in 1..Len(store.matrices)
    BY <1>4 DEF Consistent, Typed, FillingOf
  <2>2. store.matrices[i] \in Matrices
    BY <2>1, ElementOfSeq
  <2>3. store.matrices[i].slots \in Seq(Accounts)
    BY <2>2 DEF Matrices
  <2> QED BY <1>1, <1>5, <2>3, AppendProperties
<1>7. /\ Consistent(store') /\ o \in store.accounts
      /\ Lacking(store') \subseteq (IF full THEN Lacking(store) \cup {o} ELSE Lacking(store))
      /\ ~full => Lacking(store') = Lacking(store) /\ Refillable(store') = Refillable(store)
      /\ full => o \in Refillable(store')
      /\ Owed(store') \subseteq (IF full THEN Owed(store) \cup {o} ELSE Owed(store))
      /\ store'.accounts = store.accounts
  BY <1>4, <1>5, <1>6, FilledKeeps
<1>8. crashes = 0 /\ Pool # <<>> => Owed(store) = {}
  BY <1>4, Pending
<1>9. crashes' \in Nat /\ Consistent(store)' /\ Consistent(disk)'
  BY <1>4, <1>7
<1>10. CASE ~full
  <2>1. /\ c = <<Save>> /\ Lacking(store') = Lacking(store)
        /\ Refillable(store') = Refillable(store) /\ Owed(store') \subseteq Owed(store)
    BY <1>3, <1>7, <1>10
  <2>2. c \in Seq(Calls) /\ Len(c) = 1 /\ c[1] = Save /\ Save.call = "save"
    BY <2>1 DEF Calls, Save
  <2>3. /\ Plan(todo') /\ Refilling(todo') = Refilling(todo)
        /\ todo' # <<>> /\ todo'[1] = Save /\ todo'[Len(todo')] = Save
    <3>1. /\ todo # <<>> /\ Plan(todo) /\ todo' = c \o Tail(todo)
          /\ todo[1].call # "refill" /\ (Len(todo) = 1 \/ todo[Len(todo)] = Save)
      BY <1>4, <1>5
    <3>2. /\ Len(c) \in {1, 2} /\ (Len(c) = 2 => c[2] = Save) /\ c[Len(c)] = Save
          /\ c[1].call # "refill" /\ (c[1].call = "place" => c[1].sponsor \in Sponsors)
      BY <2>2
    <3> QED BY <2>2, <3>1, <3>2, CallFollows
  <2>4. SavesAtEnd'
    BY <2>3 DEF SavesAtEnd
  <2>5. MatricesLost'
    BY <1>4, <2>1, <2>3, LostAsBefore
  <2>6. NextIsPaid'
    <3>1. crashes = 0 /\ Pool # <<>> => Owed(store') = {}
      BY <1>8, <2>1
    <3> QED BY <1>4, <2>2, <2>3, <3>1 DEF NextIsPaid
  <2> QED BY <1>9, <2>3, <2>4, <2>5, <2>6 DEF IInv
<1>11. CASE full
  <2>1. /\ c = AfterLastSlot(o) /\ Lacking(store') \subseteq Lacking(store) \cup {o}
        /\ o \in Refillable(store')
        /\ Owed(store') \subseteq Owed(store) \cup {o}
    BY <1>3, <1>7, <1>11
  <2>2. Refills(todo) = {}
    <3>1. o \notin Sponsors
      BY <1>4, <1>7 DEF Consistent, Owned
    <3> QED BY <1>a, <1>4, <3>1 DEF Plan
  <2>3. /\ Plan(todo') /\ Refilling(todo') = {o} /\ todo'[1] = Award(o, CyclePoints)
        /\ c \in Seq(Calls) /\ Len(c) # 0 /\ c[Len(c)] = Save
    <3>1. /\ Plan(todo) /\ todo # <<>> /\ todo' = c \o Tail(todo)
          /\ o \in Accounts /\ c = AfterLastSlot(o)
      BY <1>4, <1>5, <2>1
    <3>2. Plan(todo') /\ Refilling(todo') = {o} /\ todo'[1] = Award(o, CyclePoints)
      BY <2>2, <3>1, FullIsPlan
    <3>3. c \in Seq(Calls) /\ Len(c) # 0 /\ c[Len(c)] = Save
      BY <2>2, <3>1, FullIsPlan
    <3> QED BY <3>2, <3>3
  <2>4. todo' # <<>> /\ todo'[Len(todo')] = Save
    BY <1>4, <1>5, <2>3, RestEndsWithSave
  <2>5. Award(o, CyclePoints).call = "award" /\ Award(o, CyclePoints).account = o
    BY DEF Award
  <2>6. SavesAtEnd'
    BY <2>4 DEF SavesAtEnd
  <2>7. MatricesLost'
    <3>1. Refilling(todo) = {}
      BY <2>2 DEF Refilling
    <3>2. /\ Cardinality(Lacking(store)) <= crashes
          /\ Cardinality(Lacking(disk)) <= crashes + 1
      <4>1. Lacking(store) \ Refilling(todo) = Lacking(store)
        BY <3>1
      <4> QED BY <1>4, <4>1, Stakes DEF MatricesLost
    <3>3. Cardinality(Lacking(store') \ {o}) <= crashes
      <4>1. Lacking(store') \ {o} \subseteq Lacking(store) /\ IsFiniteSet(Lacking(store))
        BY <1>4, <2>1, LackingIsFinite
      <4>2. /\ Cardinality(Lacking(store') \ {o}) <= Cardinality(Lacking(store))
            /\ Cardinality(Lacking(store') \ {o}) \in Nat /\ Cardinality(Lacking(store)) \in Nat
        BY <4>1, FS_Subset, FS_CardinalityType
      <4> QED BY <1>4, <3>2, <4>2
    <3>4. Lacking(disk') = Lacking(disk) /\ crashes' = crashes
      BY <1>4
    <3>5. {o} \subseteq Refillable(store')
      BY <2>1
    <3>6. AtStake(todo') = 1
      BY <2>4, Stakes
    <3> QED BY <2>3, <3>2, <3>3, <3>4, <3>5, <3>6 DEF MatricesLost
  <2>8. NextIsPaid'
    <3>1. crashes = 0 /\ Pool # <<>> => Owed(store') \subseteq {o}
      BY <1>8, <2>1
    <3> QED BY <1>4, <2>3, <2>4, <2>5, <3>1 DEF NextIsPaid
  <2> QED BY <1>9, <2>3, <2>6, <2>7, <2>8 DEF IInv
<1> QED BY <1>10, <1>11
\* Between two requests.
LEMMA Resting ==
  ASSUME IInv, todo = <<>>
  PROVE  /\ crashes \in Nat /\ Consistent(store) /\ disk = store
         /\ Cardinality(Lacking(store)) <= crashes
         /\ crashes = 0 /\ Pool # <<>> => Owed(store) = {}
<1>2. Cardinality(Lacking(store)) \in Nat /\ crashes \in Nat
  BY LackingIsFinite DEF IInv
<1>3. Cardinality(Lacking(store)) <= crashes
  BY <1>2, LostAtMost, Stakes
<1>4. crashes = 0 /\ Pool # <<>> => Owed(store) = {}
  BY DEF IInv, NextIsPaid
<1> QED BY <1>3, <1>4 DEF IInv, SavesAtEnd

LEMMA SignUpKeeps ==
  ASSUME IInv, NEW a, NEW s \in Accounts,
         \/ SignUp(a, s) /\ a \in FreshIds \cup UserIds
         \/ AddDownline(a, s) /\ a \in FreshIds
  PROVE  IInv'
<1>2. /\ todo = <<>> /\ todo' = <<Place(a, s), Save>> /\ disk' = disk /\ crashes' = crashes
  BY DEF SignUp, AddDownline
<1>3. /\ crashes \in Nat /\ Consistent(store) /\ disk = store
      /\ Cardinality(Lacking(store)) <= crashes /\ Cardinality(Lacking(store)) \in Nat
      /\ crashes = 0 /\ Pool # <<>> => Owed(store) = {}
  BY <1>2, Resting, LackingIsFinite
<1>1. a \in Accounts \ Sponsors /\ a \in Accounts
  <2>1. store.accounts \subseteq Accounts /\ store.accounts \cap Sponsors = {}
    BY <1>3 DEF Consistent, Typed, Owned
  <2> QED BY <2>1 DEF FreshIds, UserIds
<1>5. /\ Consistent(store') /\ Lacking(store') \subseteq Lacking(store)
      /\ Owed(store') \subseteq Owed(store)
  <2>1. CASE SignUp(a, s) /\ a \in FreshIds \cup UserIds
    <3>1. store' = SignedUp(store, a) /\ (a \notin store.accounts \/ store.signups[a] > 0)
      BY <2>1 DEF SignUp, FreshIds, UserIds
    <3> QED BY <1>1, <1>3, <3>1, SignedUpKeeps
  <2>2. CASE AddDownline(a, s) /\ a \in FreshIds
    <3>1. PICK slots : slots = <<>>
      OBVIOUS
    <3>2. slots \in Seq(Accounts) /\ store' = WithAccount(store, a, slots)
      BY <2>2, <3>1 DEF AddDownline
    <3>3. a \in Accounts \ (store.accounts \cup Sponsors)
      BY <2>2 DEF FreshIds
    <3> QED BY <1>3, <3>2, <3>3, AccountKeeps
  <2> QED BY <2>1, <2>2
<1>6. /\ todo' \in Seq(Calls) /\ Len(todo') = 2
      /\ todo'[1] = Place(a, s) /\ todo'[2] = Save
      /\ Place(a, s).call = "place" /\ Save.call = "save"
  <2>1. Place(a, s) \in Calls /\ Save \in Calls
    BY <1>1 DEF Calls
  <2> QED BY <1>2, <2>1 DEF Place, Save
<1>7. Refills(todo') = {} /\ Refilling(todo') = {}
  <2>1. \A i \in 1..Len(todo') : i = 1 \/ i = 2
    BY <1>6
  <2>2. Refills(todo') = {}
    BY <1>6, <2>1 DEF Refills
  <2> QED BY <2>2 DEF Refilling
<1>8. todo' # <<>>
  BY <1>2
<1>9. Plan(todo)'
  BY <1>6, <1>7 DEF Plan
<1>10. SavesAtEnd'
  BY <1>6, <1>8 DEF SavesAtEnd
<1>11. MatricesLost'
  <2>1. Lacking(disk') = Lacking(store)
    BY <1>2, <1>3
  <2>2. Cardinality(Lacking(store') \ Refilling(todo')) <= crashes
    <3>1. Lacking(store') \ Refilling(todo') \subseteq Lacking(store)
      BY <1>5
    <3>2. /\ Cardinality(Lacking(store') \ Refilling(todo')) <= Cardinality(Lacking(store))
          /\ Cardinality(Lacking(store') \ Refilling(todo')) \in Nat
      BY <1>3, <3>1, LackingIsFinite, FS_Subset, FS_CardinalityType
    <3> QED BY <1>3, <3>2
  <2>3. Cardinality(Lacking(disk')) <= crashes + AtStake(todo')
    BY <1>3, <1>8, <2>1, Stakes
  <2> QED BY <1>2, <1>7, <2>2, <2>3 DEF MatricesLost
<1>12. NextIsPaid'
  BY <1>2, <1>3, <1>5, <1>6 DEF NextIsPaid
<1>13. crashes' \in Nat /\ Consistent(store)' /\ Consistent(disk)'
  BY <1>2, <1>3, <1>5
<1> QED BY <1>9, <1>10, <1>11, <1>12, <1>13 DEF IInv

LEMMA RequestAwardKeeps ==
  ASSUME IInv, NEW a \in store.accounts, NEW p \in AwardInputs, RequestAward(a, p)
  PROVE  IInv'
<1>1. /\ todo = <<>> /\ todo' = <<Award(a, p)>> /\ store' = store /\ disk' = disk
      /\ crashes' = crashes
  BY DEF RequestAward
<1>2. /\ crashes \in Nat /\ Consistent(store) /\ disk = store
      /\ Cardinality(Lacking(store)) <= crashes /\ Cardinality(Lacking(store)) \in Nat
      /\ crashes = 0 /\ Pool # <<>> => Owed(store) = {}
  BY <1>1, Resting, LackingIsFinite
<1>3. /\ todo' \in Seq(Calls) /\ Len(todo') = 1 /\ todo'[1] = Award(a, p)
      /\ Award(a, p).call = "award"
  <2>1. a \in Accounts
    BY <1>2 DEF Consistent, Typed
  <2>2. Award(a, p) \in Calls
    BY <2>1 DEF Calls
  <2> QED BY <1>1, <2>2 DEF Award
<1>4. Refills(todo') = {} /\ Refilling(todo') = {}
  <2>1. Refills(todo') = {}
    BY <1>3 DEF Refills
  <2> QED BY <2>1 DEF Refilling
<1>5. todo' # <<>>
  BY <1>1
<1>6. Plan(todo)'
  BY <1>3, <1>4 DEF Plan
<1>7. SavesAtEnd'
  BY <1>3, <1>5 DEF SavesAtEnd
<1>8. MatricesLost'
  <2>1. Lacking(store') \ Refilling(todo') = Lacking(store) /\ Lacking(disk') = Lacking(store)
    BY <1>1, <1>2, <1>4
  <2>2. /\ Cardinality(Lacking(store') \ Refilling(todo')) <= crashes
        /\ Cardinality(Lacking(disk')) <= crashes + AtStake(todo')
    <3>1. AtStake(todo') = 1
      BY <1>5, Stakes
    <3>2. /\ Cardinality(Lacking(store') \ Refilling(todo')) = Cardinality(Lacking(store))
          /\ Cardinality(Lacking(disk')) = Cardinality(Lacking(store))
      BY <2>1, Zenon
    <3> QED BY <1>2, <3>1, <3>2
  <2> QED BY <1>1, <1>4, <2>2 DEF MatricesLost
<1>9. NextIsPaid'
  <2>1. Owed(store') = Owed(store)
    BY <1>1
  <2> QED BY <1>1, <1>2, <1>3, <2>1 DEF NextIsPaid
<1>10. crashes' \in Nat /\ Consistent(store)' /\ Consistent(disk)'
  BY <1>1, <1>2
<1> QED BY <1>6, <1>7, <1>8, <1>9, <1>10 DEF IInv

LEMMA CrashKeeps ==
  ASSUME IInv, Crash
  PROVE  IInv'
<1>1. /\ crashes' = crashes + 1 /\ store' = disk /\ disk' = disk /\ todo' = <<>>
      /\ crashes \in Nat /\ Consistent(disk) /\ MatricesLost
  BY DEF Crash, IInv
<1>2. Refills(<<>>) = {} /\ Refilling(<<>>) = {} /\ Plan(<<>>)
  BY DEF Refills, Refilling, Plan
<1>3. Plan(todo)' /\ SavesAtEnd'
  BY <1>1, <1>2 DEF SavesAtEnd
<1>4. MatricesLost'
  <2>1. Cardinality(Lacking(disk)) \in Nat /\ Cardinality(Lacking(disk)) <= crashes + 1
    BY <1>1, LackingIsFinite, Stakes DEF MatricesLost
  <2>2. Lacking(store') \ Refilling(todo') = Lacking(disk) /\ Lacking(disk') = Lacking(disk)
    BY <1>1, <1>2
  <2>3. /\ Cardinality(Lacking(store') \ Refilling(todo')) <= crashes'
        /\ Cardinality(Lacking(disk')) <= crashes' + AtStake(todo')
    <3>1. AtStake(todo') = 0
      BY <1>1, Stakes
    <3>2. /\ Cardinality(Lacking(store') \ Refilling(todo')) = Cardinality(Lacking(disk))
          /\ Cardinality(Lacking(disk')) = Cardinality(Lacking(disk))
      BY <2>2, Zenon
    <3> QED BY <1>1, <2>1, <3>1, <3>2
  <2> QED BY <1>1, <1>2, <2>3 DEF MatricesLost
<1>5. NextIsPaid'
  BY <1>1 DEF NextIsPaid
<1>6. crashes' \in Nat /\ Consistent(store)' /\ Consistent(disk)'
  BY <1>1
<1> QED BY <1>3, <1>4, <1>5, <1>6 DEF IInv

LEMMA StutterKeeps ==
  ASSUME IInv, UNCHANGED vars
  PROVE  IInv'
<1>1. store' = store /\ disk' = disk /\ todo' = todo /\ crashes' = crashes
  BY DEF vars
<1>2. /\ Lacking(store') = Lacking(store) /\ Lacking(disk') = Lacking(disk)
      /\ Owed(store') = Owed(store) /\ Refillable(store') = Refillable(store)
  BY <1>1
<1> QED BY <1>1, <1>2 DEF IInv, SavesAtEnd, MatricesLost, NextIsPaid

LEMMA Initially == Init => IInv
<1> SUFFICES ASSUME Init PROVE IInv
  OBVIOUS
<1>1. store = EmptyStore /\ disk = EmptyStore /\ todo = <<>> /\ crashes = 0
  BY DEF Init
<1>2. Refills(<<>>) = {} /\ Refilling(<<>>) = {} /\ Plan(<<>>)
  BY DEF Refills, Refilling, Plan
<1>3. Consistent(EmptyStore) /\ Lacking(EmptyStore) = {} /\ Owed(EmptyStore) = {}
  BY EmptyIsConsistent
<1>4. Cardinality(Lacking(EmptyStore)) = 0 /\ Cardinality(Lacking(EmptyStore) \ {}) = 0
  BY <1>3, FS_EmptySet
<1>5. SavesAtEnd /\ MatricesLost /\ NextIsPaid
  BY <1>1, <1>2, <1>3, <1>4, Stakes DEF SavesAtEnd, MatricesLost, NextIsPaid
<1> QED BY <1>1, <1>2, <1>3, <1>5 DEF IInv

LEMMA Inductive == IInv /\ [Next]_vars => IInv'
<1> SUFFICES ASSUME IInv, [Next]_vars PROVE IInv'
  OBVIOUS
<1>1. CASE Request
  <2>1. CASE \E a \in FreshIds : \E s \in Accounts \ {a} : SignUp(a, s) \/ AddDownline(a, s)
    BY <2>1, SignUpKeeps
  <2>2. CASE \E a \in UserIds, s \in Accounts : SignUp(a, s)
    BY <2>2, SignUpKeeps
  <2>3. CASE \E a \in store.accounts, p \in AwardInputs : RequestAward(a, p)
    BY <2>3, RequestAwardKeeps
  <2> QED BY <1>1, <2>1, <2>2, <2>3 DEF Request
<1>2. CASE Continue
  BY <1>2, PlaceNowhereKeeps, PlaceInMatrixKeeps, RefillMatrixKeeps, SaveStateKeeps,
     AwardPointsKeeps, CheckNothingKeeps, CheckAllocatesKeeps, SpawnFreeAccountKeeps
     DEF Continue
<1>3. CASE Crash
  BY <1>3, CrashKeeps
<1>4. CASE UNCHANGED vars
  BY <1>4, StutterKeeps
<1> QED BY <1>1, <1>2, <1>3, <1>4 DEF Next

\* Every behaviour keeps the invariant, whatever crashes.
LEMMA SagaInvariant == Spec => []IInv
<1>1. Init => IInv
  BY Initially
<1>2. IInv /\ [Next]_vars => IInv'
  BY Inductive
<1> QED BY <1>1, <1>2, PTL DEF Spec
-----------------------------------------------------------------------------
(* What follows from the invariant                                         *)

\* Every account has at most one free account, and when it has one, has a card
\* to show for it and a filled matrix of its own, in the store in memory and in
\* the saved one (check_and_spawn_free_account): the `spawned` flag and the free
\* account are always saved together, and a user who signs up once more keeps
\* both, so no crash, award or sign-up separates them.
THEOREM FreeAccountsAreEarned == Spec => []FreeAccountEarnedOnce
<1>1. ASSUME NEW s, Consistent(s), NEW a \in Accounts
      PROVE  /\ Cardinality(s.freeOf[a]) = (IF s.flags[a].spawned THEN 1 ELSE 0)
             /\ s.freeOf[a] # {} => s.events[a] # <<>> /\ CycledOf(s, a) # {}
  <2>1. FlagsTellOf(s, a) /\ (s.flags[a].spawned => s.events[a] # <<>>)
    BY <1>1 DEF Consistent, FlagsTell, Earned
  <2>2. CASE s.flags[a].spawned
    <3>1. PICK f \in s.accounts : s.freeOf[a] = {f}
      BY <2>1, <2>2 DEF FlagsTellOf
    <3>2. Cardinality(s.freeOf[a]) = 1
      BY <3>1, FS_Singleton
    <3> QED BY <2>1, <2>2, <3>2 DEF FlagsTellOf
  <2>3. CASE ~s.flags[a].spawned
    <3>1. s.freeOf[a] = {}
      BY <2>1, <2>3 DEF FlagsTellOf
    <3> QED BY <2>3, <3>1, FS_EmptySet
  <2> QED BY <2>2, <2>3
<1>2. IInv => FreeAccountEarnedOnce
  BY <1>1 DEF IInv, FreeAccountEarnedOnce
<1> QED BY <1>2, SagaInvariant, PTL

\* An account that has graduated and filled a matrix is paid its free account
\* by the end of the request in which it came to qualify (award_points,
\* check_and_spawn_free_account); after a crash the flags that earn it are
\* still set.
THEOREM QualifiedArePaid == Spec => []QualifiedIsPaid
<1>1. ASSUME IInv, NEW s \in {store, disk}, NEW a \in Accounts,
             a \in s.graduated /\ CycledOf(s, a) # {} /\ s.freeOf[a] = {}
      PROVE  Qualifies(s, a) /\ (AtRest /\ Pool # <<>> => crashes > 0)
  <2>1. Consistent(s) /\ a \in Owed(s)
    BY <1>1 DEF IInv, Owed
  <2>2. Qualifies(s, a)
    BY <2>1, OwedQualifies
  <2>3. ASSUME AtRest, Pool # <<>>, crashes = 0 PROVE FALSE
    <3>1. Owed(store) = {} /\ disk = store
      BY <1>1, <2>3, Resting DEF AtRest
    <3>2. s = store
      BY <3>1
    <3> QED BY <2>1, <3>1, <3>2
  <2> QED BY <1>1, <2>2, <2>3 DEF IInv
<1>2. IInv => QualifiedIsPaid
  BY <1>1 DEF QualifiedIsPaid
<1> QED BY <1>2, SagaInvariant, PTL

\* Nobody has more matrices to be placed in than accounts were started with its
\* id, one but for a user who signs up again, and at rest only as many accounts
\* have none as there were crashes (place_in_matrix: the matrix is saved as
\* cycled, with its points, before its successor exists).
THEOREM OwnersCanBeJoined == Spec => []OwnersHaveAMatrix
<1>1. ASSUME IInv, NEW a \in Accounts
      PROVE  Cardinality(FillingOf(store, a)) <= Starts(store, a)
  BY <1>1 DEF IInv, Consistent, Owned
<1>2. ASSUME IInv, AtRest
      PROVE  Cardinality({a \in store.accounts : FillingOf(store, a) = {}}) <= crashes
  BY <1>2, Resting DEF AtRest, Lacking
<1>3. IInv => OwnersHaveAMatrix
  BY <1>1, <1>2 DEF OwnersHaveAMatrix
<1> QED BY <1>3, SagaInvariant, PTL

================================================================================
