-------------------------- MODULE WebSagaBooksProofs --------------------------
(***************************************************************************)
(* Proofs about what WebSaga counts: the points of an account and the      *)
(* cards they complete, the places of a matrix, the allocations of a       *)
(* sponsor and the free accounts they are for.  They rest on the           *)
(* consistency of the stores and the plan of a request (WebSagaProofs).    *)
(*                                                                         *)
(* Only AwardPoints credits points, cards and events, only SignUp starts   *)
(* them anew, only CheckAllocates changes the allocations and only         *)
(* SpawnFreeAccount the free accounts; a crash brings back all of them     *)
(* together.  `Plain` says so of the other steps.                          *)
(***************************************************************************)
EXTENDS WebSagaProofs

-----------------------------------------------------------------------------
(* The arithmetic of points                                                *)

\* A conversion to i32 has an i32 as result, and changes no i32.
LEMMA AsI32InRange ==
  ASSUME NEW n \in Int
  PROVE  AsI32(n) \in I32 /\ (n \in I32 => AsI32(n) = n)
<1>1. Half \in Nat \ {0}
  BY SizesAssumption
<1>2. ((n + Half) % (2 * Half)) \in 0..(2 * Half - 1)
  BY <1>1
<1>3. n \in I32 => (n + Half) % (2 * Half) = n + Half
  BY <1>1 DEF I32
<1> QED BY <1>1, <1>2, <1>3 DEF AsI32, I32

\* Points complete at most as many cards, and no points below zero any.
LEMMA CardsInRange ==
  ASSUME NEW p \in I32
  PROVE  /\ CardsOf(p) \in I32
         /\ p >= 0 => CardsOf(p) \in 0..p /\ (CardsOf(p) > 0 <=> p >= CardPoints)
<1>1. Half \in Nat \ {0} /\ p \in Int /\ -Half <= p /\ p <= Half - 1
  BY SizesAssumption DEF I32
<1>2. CASE p >= 0
  <2>1. p \div 15 \in 0..p /\ (p \div 15 > 0 <=> p >= 15)
    BY <1>1, <1>2
  <2> QED BY <1>1, <1>2, <2>1 DEF CardsOf, CardPoints, I32
<1>3. CASE p < 0
  <2>1. (-p) \div 15 \in 0..(-p)
    BY <1>1, <1>3
  <2> QED BY <1>1, <1>3, <2>1 DEF CardsOf, CardPoints, I32
<1> QED BY <1>1, <1>2, <1>3

\* More points complete no fewer cards.
LEMMA CardsGrow ==
  ASSUME NEW p \in Nat, NEW q \in Nat, p <= q
  PROVE  CardsOf(p) <= CardsOf(q)
<1>1. p \div 15 <= q \div 15
  OBVIOUS
<1> QED BY <1>1 DEF CardsOf, CardPoints

-----------------------------------------------------------------------------
(* The sum of a function with finite domain                                *)

\* The equation of the recursive function by which Functions folds f.
Adds(f, it, s) ==
  it[s] = IF s = {} THEN 0
          ELSE LET x == CHOOSE x \in s : TRUE
               IN  f[x] + it[s \ {x}]

\* That function.
Iteration(f) ==
  CHOOSE it : it = [s \in SUBSET DOMAIN f |->
                      IF s = {} THEN 0
                      ELSE LET x == CHOOSE x \in s : TRUE
                           IN  f[x] + it[s \ {x}]]

SumOf(f) == FoldFunction(+, 0, f)

LEMMA SumIteration ==
  ASSUME NEW f
  PROVE  SumOf(f) = Iteration(f)[DOMAIN f]
BY DEF SumOf, Iteration, FoldFunction, FoldFunctionOnSet, MapThenFoldSet

\* A nonempty set of numbers has a least one.
LEMMA LeastNumber ==
  ASSUME NEW I \in SUBSET Nat, I # {}
  PROVE  \E n \in I : \A m \in I : n <= m
<1>1. IsWellFoundedOn(OpToRel(<, Nat), Nat) /\ I \subseteq Nat
  BY NatLessThanWellFounded
<1>2. PICK n \in I : \A m \in I : ~(<<m, n>> \in OpToRel(<, Nat))
  BY <1>1, WFMin
<1>3. ASSUME NEW m \in I PROVE n <= m
  <2>1. m \in Nat /\ n \in Nat /\ ~(m < n)
    BY <1>2 DEF OpToRel
  <2> QED BY <2>1
<1> QED BY <1>3

\* The recursion has a solution on the subsets of a finite set: one that is
\* good up to a size gives one that is good up to the next size.
LEMMA IterationExists ==
  ASSUME NEW f, IsFiniteSet(DOMAIN f)
  PROVE  /\ DOMAIN Iteration(f) = SUBSET DOMAIN f
         /\ \A s \in SUBSET DOMAIN f : Adds(f, Iteration(f), s)
<1> DEFINE D == DOMAIN f
           Step(g) == [s \in SUBSET D |->
                         IF s = {} THEN 0
                         ELSE LET x == CHOOSE x \in s : TRUE
                              IN  f[x] + g[s \ {x}]]
           Good(n) == \E g : \A s \in SUBSET D : Cardinality(s) <= n => g[s] = Step(g)[s]
           Bad == {n \in Nat : ~Good(n)}
<1>1. \A s \in SUBSET D : IsFiniteSet(s) /\ Cardinality(s) \in Nat
  BY FS_Subset, FS_CardinalityType
<1>2. \A s \in SUBSET D : Cardinality(s) = 0 <=> s = {}
  BY <1>1, FS_EmptySet
<1>3. \A s \in SUBSET D : \A x \in s :
        /\ s \ {x} \in SUBSET D
        /\ Cardinality(s \ {x}) = Cardinality(s) - 1
  BY <1>1, FS_RemoveElement
<1>4. Good(0)
  <2> DEFINE g0 == [s \in SUBSET D |-> 0]
  <2>1. ASSUME NEW s \in SUBSET D, Cardinality(s) <= 0 PROVE g0[s] = Step(g0)[s]
    <3>1. s = {}
      BY <1>1, <1>2, <2>1
    <3> QED BY <3>1
  <2> QED BY <2>1
<1>5. ASSUME NEW n \in Nat, Good(n) PROVE Good(n + 1)
  <2>1. PICK g : \A s \in SUBSET D : Cardinality(s) <= n => g[s] = Step(g)[s]
    BY <1>5
  <2> DEFINE h == Step(g)
  <2>2. ASSUME NEW s \in SUBSET D, Cardinality(s) <= n + 1 PROVE h[s] = Step(h)[s]
    <3>1. CASE s = {}
      BY <3>1
    <3>2. CASE s # {}
      <4> DEFINE x == CHOOSE x \in s : TRUE
      <4>1. x \in s
        BY <3>2
      <4>2. h[s] = f[x] + g[s \ {x}] /\ Step(h)[s] = f[x] + h[s \ {x}]
        BY <3>2
      <4>3. s \ {x} \in SUBSET D /\ Cardinality(s \ {x}) <= n
        <5> HIDE DEF x, D
        <5>1. s \ {x} \in SUBSET D /\ Cardinality(s \ {x}) = Cardinality(s) - 1
          BY <1>3, <4>1
        <5>2. Cardinality(s) \in Nat
          BY <1>1
        <5> QED BY <2>2, <5>1, <5>2
      <4>4. g[s \ {x}] = h[s \ {x}]
        BY <2>1, <4>3
      <4> QED BY <4>2, <4>4
    <3> QED BY <3>1, <3>2
  <2> HIDE DEF h
  <2> QED BY <2>2
<1>6. Bad = {}
  <2> SUFFICES ASSUME Bad # {} PROVE FALSE
    OBVIOUS
  <2>0. Bad \in SUBSET Nat
    OBVIOUS
  <2> HIDE DEF Bad, Good
  <2>1. PICK n \in Bad : \A m \in Bad : n <= m
    BY <2>0, LeastNumber
  <2>2. n \in Nat /\ ~Good(n)
    BY <2>1 DEF Bad
  <2>3. n # 0
    BY <1>4, <2>2
  <2>4. n - 1 \in Nat /\ n - 1 \notin Bad
    BY <2>0, <2>1, <2>2, <2>3
  <2>5. Good(n - 1)
    BY <2>4 DEF Bad
  <2>6. Good((n - 1) + 1) /\ (n - 1) + 1 = n
    BY <1>5, <2>2, <2>4, <2>5
  <2> QED BY <2>2, <2>6
<1>7. PICK g : \A s \in SUBSET D : Cardinality(s) <= Cardinality(D) => g[s] = Step(g)[s]
  <2>1. Cardinality(D) \in Nat /\ Cardinality(D) \notin Bad
    BY <1>1, <1>6
  <2> QED BY <2>1
<1>8. \A s \in SUBSET D : g[s] = Step(g)[s]
  <2>1. \A s \in SUBSET D : Cardinality(s) <= Cardinality(D)
    BY FS_Subset
  <2> QED BY <1>7, <2>1
<1> DEFINE it == Step(g)
<1>9. it = Step(it)
  <2>1. ASSUME NEW s \in SUBSET D PROVE Step(it)[s] = Step(g)[s]
    <3>1. CASE s = {}
      BY <3>1
    <3>2. CASE s # {}
      <4> DEFINE x == CHOOSE x \in s : TRUE
      <4>1. x \in s /\ s \ {x} \in SUBSET D
        BY <3>2
      <4>2. Step(g)[s] = f[x] + g[s \ {x}] /\ Step(it)[s] = f[x] + it[s \ {x}]
        BY <3>2
      <4>3. g[s \ {x}] = it[s \ {x}]
        BY <1>8, <4>1
      <4> QED BY <4>2, <4>3
    <3> QED BY <3>1, <3>2
  <2> QED BY <2>1
<1>10. Iteration(f) = Step(Iteration(f))
  <2> HIDE DEF it
  <2>1. \E k : k = Step(k)
    BY <1>9
  <2> QED BY <2>1 DEF Iteration
<1> QED BY <1>10 DEF Adds

\* Induction over the subsets of a finite set, for a property given as a set.
LEMMA SubsetInduction ==
  ASSUME NEW S, IsFiniteSet(S), NEW X, {} \in X,
         \A s \in SUBSET S : s # {} /\ (\A x \in s : s \ {x} \in X) => s \in X
  PROVE  SUBSET S \subseteq X
<1> DEFINE Bad == {n \in Nat : \E s \in SUBSET S : s \notin X /\ Cardinality(s) = n}
<1>1. \A s \in SUBSET S : IsFiniteSet(s) /\ Cardinality(s) \in Nat
  BY FS_Subset, FS_CardinalityType
<1>2. SUFFICES ASSUME NEW s0 \in SUBSET S, s0 \notin X PROVE FALSE
  OBVIOUS
<1>3. Bad \in SUBSET Nat /\ Bad # {}
  BY <1>1, <1>2
<1>4. PICK n \in Bad : \A m \in Bad : n <= m
  <2> HIDE DEF Bad
  <2> QED BY <1>3, LeastNumber
<1>5. PICK s \in SUBSET S : s \notin X /\ Cardinality(s) = n
  BY <1>4
<1>6. ASSUME NEW x \in s PROVE s \ {x} \in X
  <2>1. s \ {x} \in SUBSET S /\ Cardinality(s \ {x}) = n - 1 /\ n \in Nat
    BY <1>1, <1>5, <1>6, FS_RemoveElement
  <2>2. ASSUME s \ {x} \notin X PROVE FALSE
    <3>1. Cardinality(s \ {x}) \in Nat
      BY <1>1, <2>1
    <3>2. n - 1 \in Bad
      BY <2>1, <2>2, <3>1
    <3> HIDE DEF Bad
    <3> QED BY <1>4, <2>1, <3>2
  <2> QED BY <2>2
<1> QED BY <1>5, <1>6

LEMMA SumOfZeros ==
  ASSUME NEW S, IsFiniteSet(S), NEW f, f = [x \in S |-> 0]
  PROVE  SumOf(f) = 0
<1> DEFINE it == Iteration(f)
           X == {s \in SUBSET S : it[s] = 0}
<1>1. DOMAIN f = S /\ \A x \in S : f[x] = 0
  OBVIOUS
<1>2. \A s \in SUBSET S : Adds(f, it, s)
  BY <1>1, IterationExists
<1> HIDE DEF it
<1>3. {} \in X
  BY <1>2 DEF Adds
<1>4. ASSUME NEW s \in SUBSET S, s # {}, \A x \in s : s \ {x} \in X PROVE s \in X
  <2>1. PICK x \in s : it[s] = f[x] + it[s \ {x}]
    BY <1>2, <1>4 DEF Adds
  <2> QED BY <1>1, <1>4, <2>1
<1>5. SUBSET S \subseteq X
  <2> HIDE DEF X
  <2> QED BY <1>3, <1>4, SubsetInduction
<1> QED BY <1>1, <1>5, SumIteration DEF it

\* One more for one argument is one more in the sum.
LEMMA SumOfOneMore ==
  ASSUME NEW S, IsFiniteSet(S), NEW f \in [S -> Nat], NEW a \in S,
         NEW g, g = [f EXCEPT ![a] = @ + 1]
  PROVE  SumOf(f) \in Nat /\ SumOf(g) = SumOf(f) + 1
<1> DEFINE i == Iteration(f)
           j == Iteration(g)
           X == {s \in SUBSET S : i[s] \in Nat /\ j[s] = i[s] + (IF a \in s THEN 1 ELSE 0)}
<1>1. /\ DOMAIN f = S /\ DOMAIN g = S
      /\ \A x \in S : f[x] \in Nat /\ g[x] = f[x] + (IF x = a THEN 1 ELSE 0)
  OBVIOUS
<1>2. \A s \in SUBSET S : Adds(f, i, s) /\ Adds(g, j, s)
  BY <1>1, IterationExists
<1> HIDE DEF i, j
<1>3. {} \in X
  BY <1>2 DEF Adds
<1>4. ASSUME NEW s \in SUBSET S, s # {}, \A x \in s : s \ {x} \in X PROVE s \in X
  <2>1. PICK x \in s : i[s] = f[x] + i[s \ {x}] /\ j[s] = g[x] + j[s \ {x}]
    <3> DEFINE y == CHOOSE x \in s : TRUE
    <3>1. y \in s
      BY <1>4
    <3>2. Adds(f, i, s) /\ Adds(g, j, s)
      BY <1>2
    <3>3. i[s] = f[y] + i[s \ {y}] /\ j[s] = g[y] + j[s \ {y}]
      BY <1>4, <3>2, Zenon DEF Adds
    <3> HIDE DEF y
    <3> QED BY <3>1, <3>3
  <2>2. /\ x \in S /\ i[s \ {x}] \in Nat
        /\ j[s \ {x}] = i[s \ {x}] + (IF a \in s \ {x} THEN 1 ELSE 0)
    BY <1>4, <2>1
  <2>3. f[x] \in Nat /\ g[x] = f[x] + (IF x = a THEN 1 ELSE 0)
    BY <1>1, <2>2
  <2>4. a \in s <=> a = x \/ a \in s \ {x}
    BY <2>1
  <2>5. i[s] \in Nat /\ j[s] = i[s] + (IF a \in s THEN 1 ELSE 0)
    <3>1. CASE a = x
      <4>1. a \in s /\ a \notin s \ {x}
        BY <2>1, <3>1
      <4> QED BY <2>1, <2>2, <2>3, <3>1, <4>1
    <3>2. CASE a # x
      BY <2>1, <2>2, <2>3, <2>4, <3>2
    <3> QED BY <3>1, <3>2
  <2> QED BY <2>5
<1>5. SUBSET S \subseteq X
  <2> HIDE DEF X
  <2> QED BY <1>3, <1>4, SubsetInduction
<1>6. SumOf(f) = i[S] /\ SumOf(g) = j[S]
  BY <1>1, SumIteration DEF i, j
<1> QED BY <1>5, <1>6

-----------------------------------------------------------------------------
(* What the operations do to the books                                     *)

\* A matrix that is filling has a place left.
SlotsOK(s) ==
  \A i \in 1..Len(s.matrices) :
    /\ Len(s.matrices[i].slots) <= MatrixSize
    /\ s.matrices[i].filling => Len(s.matrices[i].slots) < MatrixSize

\* A step that changes no book, and keeps what it needs.
Plain(s, t) ==
  /\ SameBook(s, t) /\ t.graduated = s.graduated /\ t.freeOf = s.freeOf
  /\ s.accounts \subseteq t.accounts
  /\ SlotsOK(s) => SlotsOK(t)

LEMMA NothingIsPlain ==
  ASSUME NEW s, NEW t, t = s
  PROVE  Plain(s, t)
BY DEF Plain, SameBook

LEMMA SlotsOfOneMore ==
  ASSUME NEW s, Typed(s), NEW t, Len(t.matrices) = Len(s.matrices) + 1,
         \A j \in 1..Len(s.matrices) : t.matrices[j] = s.matrices[j],
         Len(t.matrices[Len(s.matrices) + 1].slots) \in {0, 1}
  PROVE  SlotsOK(s) => SlotsOK(t)
<1>1. Len(s.matrices) \in Nat
  BY LenProperties DEF Typed
<1>2. MatrixSize \in Nat /\ MatrixSize > 1
  BY SizesAssumption
<1>3. ASSUME SlotsOK(s), NEW i \in 1..Len(t.matrices)
      PROVE  /\ Len(t.matrices[i].slots) <= MatrixSize
             /\ t.matrices[i].filling => Len(t.matrices[i].slots) < MatrixSize
  <2>1. CASE i \in 1..Len(s.matrices)
    BY <1>3, <2>1 DEF SlotsOK
  <2>2. CASE i \notin 1..Len(s.matrices)
    <3>1. i = Len(s.matrices) + 1
      BY <1>1, <1>3, <2>2
    <3>2. PICK n \in {0, 1} : n = Len(t.matrices[i].slots)
      BY <3>1
    <3>3. n < MatrixSize
      BY <1>2
    <3> QED BY <1>2, <3>2, <3>3
  <2> QED BY <2>1, <2>2
<1> QED BY <1>3 DEF SlotsOK

LEMMA AccountIsPlain ==
  ASSUME NEW s, Typed(s), NEW a \in Accounts,
         NEW slots \in Seq(Accounts), Len(slots) \in {0, 1},
         NEW t, t = WithAccount(s, a, slots)
  PROVE  Plain(s, t)
<1>1. /\ t.accounts = s.accounts \cup {a} /\ t.graduated = s.graduated
      /\ t.freeOf = s.freeOf /\ SameBook(s, t) /\ Len(t.matrices) = Len(s.matrices) + 1
      /\ \A j \in 1..Len(s.matrices) : t.matrices[j] = s.matrices[j]
      /\ t.matrices[Len(s.matrices) + 1].slots = slots
  BY AccountChange
<1>2. SlotsOK(s) => SlotsOK(t)
  BY <1>1, SlotsOfOneMore
<1> QED BY <1>1, <1>2 DEF Plain

LEMMA RefillIsPlain ==
  ASSUME NEW s, Typed(s), NEW o \in Accounts,
         NEW slots \in Seq(Accounts), Len(slots) \in {0, 1},
         NEW t, t = WithMatrix(s, o, slots)
  PROVE  Plain(s, t)
<1>1. /\ t.accounts = s.accounts /\ t.graduated = s.graduated
      /\ t.freeOf = s.freeOf /\ SameBook(s, t) /\ Len(t.matrices) = Len(s.matrices) + 1
      /\ \A j \in 1..Len(s.matrices) : t.matrices[j] = s.matrices[j]
      /\ t.matrices[Len(s.matrices) + 1].slots = slots
  BY MatrixChange
<1>2. SlotsOK(s) => SlotsOK(t)
  BY <1>1, SlotsOfOneMore
<1> QED BY <1>1, <1>2 DEF Plain

\* The new account takes a place that was left, and the matrix is full with it
\* exactly when no other is left.
LEMMA FilledIsPlain ==
  ASSUME NEW s, Typed(s), NEW o \in Accounts, NEW i \in FillingOf(s, o),
         NEW slots \in Seq(Accounts), Len(slots) = Len(s.matrices[i].slots) + 1,
         NEW full \in BOOLEAN, full <=> Len(slots) = MatrixSize,
         NEW t, t = Filled(s, i, o, slots, full)
  PROVE  Plain(s, t)
<1>1. /\ t.accounts = s.accounts /\ t.graduated = s.graduated /\ t.freeOf = s.freeOf
      /\ SameBook(s, t) /\ Len(t.matrices) = Len(s.matrices)
      /\ \A j \in 1..Len(s.matrices) :
           /\ t.matrices[j].filling = IF j = i THEN ~full ELSE s.matrices[j].filling
           /\ t.matrices[j].slots = IF j = i THEN slots ELSE s.matrices[j].slots
  BY FilledChange
<1>2. ASSUME SlotsOK(s) PROVE SlotsOK(t)
  <2>1. i \in 1..Len(s.matrices) /\ s.matrices[i].filling
    BY DEF FillingOf
  <2>2. Len(s.matrices[i].slots) < MatrixSize /\ MatrixSize \in Nat
    BY <1>2, <2>1, SizesAssumption DEF SlotsOK
  <2>3. Len(slots) \in Nat
    BY LenProperties
  <2>4. Len(slots) <= MatrixSize /\ (~full => Len(slots) < MatrixSize)
    BY <2>2, <2>3
  <2>5. ASSUME NEW j \in 1..Len(t.matrices)
        PROVE  /\ Len(t.matrices[j].slots) <= MatrixSize
               /\ t.matrices[j].filling => Len(t.matrices[j].slots) < MatrixSize
    <3>1. CASE j = i
      BY <1>1, <2>1, <2>4, <3>1
    <3>2. CASE j # i
      BY <1>1, <1>2, <2>5, <3>2 DEF SlotsOK
    <3> QED BY <3>1, <3>2
  <2> QED BY <2>5 DEF SlotsOK
<1> QED BY <1>1, <1>2 DEF Plain

\* An allocation changes nothing but the count of the sponsor.
CountBooked(s, p, t) ==
  /\ t.points = s.points /\ t.cycles = s.cycles /\ t.events = s.events
  /\ t.graduated = s.graduated /\ t.freeOf = s.freeOf /\ t.accounts = s.accounts
  /\ t.matrices = s.matrices /\ t.signups = s.signups
  /\ t.sponsored = [s.sponsored EXCEPT ![p] = @ + 1]

LEMMA CountedBook ==
  ASSUME NEW s, Typed(s), NEW p, NEW t, t = Counted(s, p)
  PROVE  CountBooked(s, p, t)
<1> DEFINE q == [s.sponsored EXCEPT ![p] = @ + 1]
<1>1. t = [s EXCEPT !.sponsored = q] /\ s = [f \in Fields |-> s[f]]
  BY DEF Counted, Typed
<1> HIDE DEF q
<1>2. /\ t.points = s.points /\ t.cycles = s.cycles /\ t.events = s.events
      /\ t.graduated = s.graduated /\ t.freeOf = s.freeOf /\ t.accounts = s.accounts
      /\ t.matrices = s.matrices /\ t.signups = s.signups /\ t.sponsored = q
  BY <1>1 DEF Fields
<1> QED BY <1>2 DEF q, CountBooked

\* A free account changes nothing but what its owner has, besides its matrix.
LEMMA SpawnedBook ==
  ASSUME NEW s, Typed(s), NEW a \in Accounts, NEW new \in Accounts,
         NEW slots \in Seq(Accounts), Len(slots) \in {0, 1},
         NEW r, r = WithAccount(s, new, slots),
         NEW t, t = Spawned(r, a, new)
  PROVE  /\ SameBook(s, t) /\ t.graduated = s.graduated
         /\ t.accounts = s.accounts \cup {new}
         /\ t.freeOf = [s.freeOf EXCEPT ![a] = @ \cup {new}]
         /\ SlotsOK(s) => SlotsOK(t)
<1> DEFINE g == [r.flags EXCEPT ![a] = SpawnedFlags]
           h == [r.freeOf EXCEPT ![a] = @ \cup {new}]
<1>1. Plain(s, r)
  BY AccountIsPlain
<1>2. /\ r = [f \in Fields |-> r[f]] /\ r.accounts = s.accounts \cup {new}
      /\ r.freeOf = s.freeOf
  BY AccountChange
<1>3. t = [r EXCEPT !.flags = g, !.freeOf = h]
  BY DEF Spawned
<1> HIDE DEF g, h
<1>4. /\ t.accounts = r.accounts /\ t.graduated = r.graduated /\ t.matrices = r.matrices
      /\ t.freeOf = h /\ SameBook(r, t)
  BY <1>2, <1>3 DEF Fields, SameBook
<1>5. SameBook(s, t) /\ t.graduated = s.graduated
  BY <1>1, <1>4 DEF Plain, SameBook
<1>6. SlotsOK(s) => SlotsOK(t)
  BY <1>1, <1>4 DEF Plain, SlotsOK
<1> QED BY <1>2, <1>4, <1>5, <1>6 DEF h

-----------------------------------------------------------------------------
(* The kinds of steps                                                      *)

Awarding(q) == q # <<>> /\ q[1].call = "award"
Paying(q)   == q # <<>> /\ q[1].call = "spawn"

\* Points are only credited to an account of the store.
AwardKnown(q, s) == Awarding(q) => q[1].account \in s.accounts

PlainStep ==
  /\ Plain(store, store') /\ disk' \in {disk, store'} /\ crashes' = crashes
  /\ AwardKnown(todo, store) => AwardKnown(todo', store')
  /\ Paying(todo') <=> Paying(todo)

CreditStep(a, p) ==
  /\ Awarding(todo) /\ a = todo[1].account /\ p = todo[1].points
  /\ store' = WithPoints(store, a, p) /\ disk' = store' /\ crashes' = crashes
  /\ ~Awarding(todo') /\ ~Paying(todo')

StartStep(a) ==
  /\ store' = SignedUp(store, a) /\ disk' = disk /\ crashes' = crashes
  /\ a \in store.accounts => store.signups[a] > 0
  /\ ~Awarding(todo') /\ ~Paying(todo') /\ ~Paying(todo)

CountStep(p) ==
  /\ store' = Counted(store, p) /\ disk' = store' /\ crashes' = crashes
  /\ ~Awarding(todo') /\ Paying(todo') /\ ~Paying(todo)

FreeStep(a, new) ==
  /\ SameBook(store, store') /\ store'.graduated = store.graduated
  /\ store'.accounts = store.accounts \cup {new}
  /\ store'.freeOf = [store.freeOf EXCEPT ![a] = @ \cup {new}]
  /\ SlotsOK(store) => SlotsOK(store')
  /\ disk' = disk /\ crashes' = crashes
  /\ Paying(todo) /\ ~Paying(todo') /\ ~Awarding(todo')

\* The call that comes next is the first of those that replace this one.
LEMMA FirstCall ==
  ASSUME NEW c \in Seq(Calls), Len(c) # 0, NEW q \in Seq(Calls), q # <<>>,
         NEW z, z = c \o Tail(q)
  PROVE  z # <<>> /\ z[1] = c[1]
<1>1. /\ z \in Seq(Calls) /\ Len(c) \in Nat /\ Len(q) \in Nat \ {0}
      /\ Len(z) = Len(c) + Len(q) - 1 /\ \A i \in 1..Len(c) : z[i] = c[i]
  BY Rest
<1>2. 1 \in 1..Len(c) /\ Len(z) # 0
  BY <1>1
<1> QED BY <1>1, <1>2, EmptySeq

LEMMA SavesAfter ==
  ASSUME NEW q \in Seq(Calls), q # <<>>, NEW z, z = <<Save>> \o Tail(q)
  PROVE  z # <<>> /\ z[1].call = "save"
<1>1. PICK c : c = <<Save>>
  OBVIOUS
<1>2. Save \in Calls /\ Save.call = "save"
  BY DEF Calls, Save
<1>3. c \in Seq(Calls) /\ Len(c) = 1 /\ c[1] = Save
  BY <1>1, <1>2
<1>4. z # <<>> /\ z[1] = c[1]
  BY <1>1, <1>3, FirstCall
<1> QED BY <1>2, <1>3, <1>4

LEMMA SignUpStarts ==
  ASSUME NEW a, NEW s, SignUp(a, s), a \in FreshIds \cup UserIds
  PROVE  StartStep(a)
<1>1. /\ todo = <<>> /\ todo' = <<Place(a, s), Save>> /\ disk' = disk /\ crashes' = crashes
      /\ store' = SignedUp(store, a)
  BY DEF SignUp
<1>2. todo'[1].call = "place"
  BY <1>1 DEF Place
<1>3. a \in store.accounts => store.signups[a] > 0
  BY DEF FreshIds, UserIds
<1> QED BY <1>1, <1>2, <1>3 DEF StartStep, Awarding, Paying

LEMMA RequestIsPlain ==
  ASSUME IInv, Request
  PROVE  PlainStep \/ \E a \in FreshIds \cup UserIds : StartStep(a)
<1>1. Typed(store)
  BY DEF IInv, Consistent
<1>2. ASSUME NEW a \in FreshIds, NEW s \in Accounts, AddDownline(a, s)
      PROVE  PlainStep
  <2>1. PICK slots : slots = <<>>
    OBVIOUS
  <2>2. slots \in Seq(Accounts) /\ Len(slots) \in {0, 1} /\ store' = WithAccount(store, a, slots)
    BY <1>2, <2>1 DEF AddDownline
  <2>3. a \in Accounts
    BY DEF FreshIds
  <2>4. Plain(store, store')
    BY <1>1, <2>2, <2>3, AccountIsPlain
  <2>5. todo = <<>> /\ todo' = <<Place(a, s), Save>> /\ disk' = disk /\ crashes' = crashes
    BY <1>2 DEF AddDownline
  <2>6. todo'[1].call = "place"
    BY <2>5 DEF Place
  <2> QED BY <2>4, <2>5, <2>6 DEF PlainStep, AwardKnown, Awarding, Paying
<1>3. ASSUME NEW a \in store.accounts, NEW p, RequestAward(a, p)
      PROVE  PlainStep
  <2>1. /\ todo = <<>> /\ todo' = <<Award(a, p)>> /\ store' = store /\ disk' = disk
        /\ crashes' = crashes
    BY <1>3 DEF RequestAward
  <2>2. todo'[1].call = "award" /\ todo'[1].account = a
    BY <2>1 DEF Award
  <2>3. Plain(store, store')
    BY <2>1, NothingIsPlain
  <2> QED BY <2>1, <2>2, <2>3 DEF PlainStep, AwardKnown, Awarding, Paying
<1> QED BY <1>2, <1>3, SignUpStarts DEF Request

LEMMA PlaceIsPlain ==
  ASSUME IInv, PlaceNowhere \/ PlaceInMatrix
  PROVE  PlainStep
<1>1. /\ todo # <<>> /\ todo[1].call = "place" /\ todo \in Seq(Calls) /\ todo[1] \in Calls
      /\ Typed(store) /\ Consistent(store) /\ disk' = disk /\ crashes' = crashes
  BY Pending DEF IInv, Consistent, PlaceNowhere, PlaceInMatrix, Doing
<1>2. CASE PlaceNowhere
  <2>1. store' = store /\ todo' = <<Save>> \o Tail(todo)
    BY <1>2 DEF PlaceNowhere, Then
  <2>2. todo' # <<>> /\ todo'[1].call = "save"
    BY <1>1, <2>1, SavesAfter
  <2>3. Plain(store, store')
    BY <2>1, NothingIsPlain
  <2> QED BY <1>1, <2>2, <2>3 DEF PlainStep, AwardKnown, Awarding, Paying
<1>3. CASE PlaceInMatrix
  <2>1. PICK o : o = todo[1].sponsor
    OBVIOUS
  <2>2. PICK i \in FillingOf(store, o) :
          LET slots == Append(store.matrices[i].slots, todo[1].account)
              full  == IsFull(slots)
          IN  /\ store' = Filled(store, i, o, slots, full)
              /\ Then(IF full THEN AfterLastSlot(o) ELSE <<Save>>)
    BY <1>3, <2>1 DEF PlaceInMatrix, Filled
  <2>3. PICK slots : slots = Append(store.matrices[i].slots, todo[1].account)
    OBVIOUS
  <2>4. PICK full \in BOOLEAN : full = IsFull(slots)
    BY DEF IsFull
  <2>5. /\ store' = Filled(store, i, o, slots, full)
        /\ todo' = (IF full THEN AfterLastSlot(o) ELSE <<Save>>) \o Tail(todo)
    BY <2>2, <2>3, <2>4 DEF Then
  <2>6. todo[1].account \in Accounts /\ o \in Accounts
    BY <1>1, <2>1, CallTypes
  <2>7. /\ i \in 1..Len(store.matrices) /\ store.matrices[i].owner = o
        /\ store.matrices[i] \in Matrices /\ o \in store.accounts
    <3>1. i \in 1..Len(store.matrices) /\ store.matrices[i].owner = o
      BY DEF FillingOf
    <3> QED BY <1>1, <3>1, ElementOfSeq DEF Typed, Consistent, Owned
  <2>8. slots \in Seq(Accounts) /\ Len(slots) = Len(store.matrices[i].slots) + 1
    <3>1. store.matrices[i].slots \in Seq(Accounts)
      BY <2>7 DEF Matrices
    <3> QED BY <2>3, <2>6, <3>1, AppendProperties
  <2>9. full <=> Len(slots) = MatrixSize
    BY <2>4 DEF IsFull
  <2>10. Plain(store, store')
    BY <1>1, <2>5, <2>6, <2>8, <2>9, FilledIsPlain
  <2>11. store.accounts \subseteq store'.accounts
    BY <2>10 DEF Plain
  <2>12. CASE ~full
    <3>1. todo' # <<>> /\ todo'[1].call = "save"
      BY <1>1, <2>5, <2>12, SavesAfter
    <3> QED BY <1>1, <2>10, <3>1 DEF PlainStep, AwardKnown, Awarding, Paying
  <2>13. CASE full
    <3>1. PICK c : c = AfterLastSlot(o)
      OBVIOUS
    <3>2. /\ Award(o, CyclePoints) \in Calls /\ Refill(o) \in Calls /\ Save \in Calls
      BY <2>6 DEF Calls
    <3>3. c \in Seq(Calls) /\ Len(c) # 0 /\ c[1] = Award(o, CyclePoints)
      BY <3>1, <3>2 DEF AfterLastSlot
    <3>4. todo' = c \o Tail(todo)
      BY <2>5, <2>13, <3>1
    <3>5. todo' # <<>> /\ todo'[1] = Award(o, CyclePoints)
      BY <1>1, <3>3, <3>4, FirstCall
    <3>6. todo'[1].call = "award" /\ todo'[1].account = o
      BY <3>5 DEF Award
    <3> QED BY <1>1, <2>7, <2>10, <2>11, <3>5, <3>6 DEF PlainStep, AwardKnown, Awarding, Paying
  <2> QED BY <2>12, <2>13
<1> QED BY <1>2, <1>3

LEMMA RestIsPlain ==
  ASSUME IInv, RefillMatrix \/ SaveState \/ CheckNothing
  PROVE  PlainStep
<1>1. /\ todo # <<>> /\ todo[1].call \in {"refill", "save", "check"} /\ todo[1] \in Calls
      /\ todo' = <<>> \o Tail(todo) /\ Plan(todo) /\ Typed(store) /\ crashes' = crashes
  BY Pending DEF IInv, Consistent, RefillMatrix, SaveState, CheckNothing, Doing, Then
<1>2. todo' # <<>> => todo'[1].call \in {"refill", "save"}
  BY <1>1, NextCall
<1>3. ~Awarding(todo') /\ ~Paying(todo') /\ ~Paying(todo)
  BY <1>1, <1>2 DEF Awarding, Paying
<1>4. Plain(store, store') /\ disk' \in {disk, store'}
  <2>1. CASE RefillMatrix
    <3>1. PICK slots : slots = <<todo[1].account>>
      OBVIOUS
    <3>2. /\ todo[1].account \in Accounts /\ disk' = disk
          /\ store' = WithMatrix(store, todo[1].account, slots)
      BY <1>1, <2>1, <3>1, CallTypes DEF RefillMatrix, Doing
    <3>3. slots \in Seq(Accounts) /\ Len(slots) \in {0, 1}
      BY <3>1, <3>2
    <3> QED BY <1>1, <3>2, <3>3, RefillIsPlain
  <2>2. CASE SaveState
    <3>1. store' = store /\ disk' = store
      BY <2>2 DEF SaveState
    <3> QED BY <3>1, NothingIsPlain
  <2>3. CASE CheckNothing
    <3>1. store' = store /\ disk' = disk
      BY <2>3 DEF CheckNothing
    <3> QED BY <3>1, NothingIsPlain
  <2> QED BY <2>1, <2>2, <2>3
<1> QED BY <1>1, <1>3, <1>4 DEF PlainStep, AwardKnown

LEMMA AwardTypes ==
  ASSUME NEW r \in Calls, r.call = "award"
  PROVE  r.account \in Accounts /\ r.points \in AwardInputs \cup {CyclePoints}
BY DEF Calls, Place, Award, Check, Spawn, Refill, Save

LEMMA AwardCredits ==
  ASSUME IInv, AwardPoints
  PROVE  /\ CreditStep(todo[1].account, todo[1].points)
         /\ todo[1].account \in Accounts /\ todo[1].points \in AwardInputs \cup {CyclePoints}
<1>1. /\ todo # <<>> /\ todo[1].call = "award" /\ todo \in Seq(Calls) /\ todo[1] \in Calls
      /\ store' = WithPoints(store, todo[1].account, todo[1].points) /\ disk' = store'
      /\ crashes' = crashes /\ todo' = <<Check(todo[1].account)>> \o Tail(todo)
  BY Pending DEF AwardPoints, Doing, Then
<1>2. todo[1].account \in Accounts /\ todo[1].points \in AwardInputs \cup {CyclePoints}
  BY <1>1, AwardTypes
<1>3. PICK c : c = <<Check(todo[1].account)>>
  OBVIOUS
<1>4. Check(todo[1].account) \in Calls /\ Check(todo[1].account).call = "check"
  BY <1>2 DEF Calls, Check
<1>5. c \in Seq(Calls) /\ Len(c) = 1 /\ c[1].call = "check"
  BY <1>3, <1>4
<1>6. todo' # <<>> /\ todo'[1].call = "check"
  BY <1>1, <1>3, <1>5, FirstCall
<1> QED BY <1>1, <1>2, <1>6 DEF CreditStep, Awarding, Paying

LEMMA AllocationCounts ==
  ASSUME IInv, CheckAllocates
  PROVE  \E p \in Accounts : CountStep(p)
<1>1. PICK p : p = AllocatedSponsor(store)
  OBVIOUS
<1>2. PICK c : c = <<Spawn(todo[1].account, p)>>
  OBVIOUS
<1>3. /\ todo # <<>> /\ todo[1].call = "check" /\ todo' = c \o Tail(todo)
      /\ store' = Counted(store, p) /\ disk' = store' /\ crashes' = crashes
      /\ p \in Sponsors /\ todo \in Seq(Calls) /\ todo[1] \in Calls
  BY <1>1, <1>2, AllocatedIsSponsor, Pending DEF CheckAllocates, Doing, Then
<1>4. p \in Accounts /\ todo[1].account \in Accounts
  BY <1>3, CallTypes, PoolAssumption DEF Sponsors
<1>5. /\ Spawn(todo[1].account, p) \in Calls
      /\ Spawn(todo[1].account, p).call = "spawn"
  BY <1>3, <1>4 DEF Calls, Spawn
<1>6. c \in Seq(Calls) /\ Len(c) = 1 /\ c[1].call = "spawn"
  BY <1>2, <1>5
<1>7. todo' # <<>> /\ todo'[1] = c[1]
  <2>1. Len(c) # 0 /\ c \in Seq(Calls) /\ todo # <<>> /\ todo' = c \o Tail(todo)
    BY <1>3, <1>6
  <2> QED BY <1>3, <2>1, FirstCall
<1> QED BY <1>3, <1>4, <1>6, <1>7 DEF CountStep, Awarding, Paying

LEMMA SpawnFrees ==
  ASSUME IInv, NEW new \in FreshIds, SpawnFreeAccount(new)
  PROVE  \E a \in Accounts : FreeStep(a, new)
<1>1. PICK a : a = todo[1].account
  OBVIOUS
<1>2. PICK c : c = <<Place(new, todo[1].sponsor), Save>>
  OBVIOUS
<1>3. PICK slots : slots = <<new>>
  OBVIOUS
<1>4. PICK r : r = WithAccount(store, new, slots)
  OBVIOUS
<1>5. /\ todo # <<>> /\ todo[1].call = "spawn" /\ todo' = c \o Tail(todo)
      /\ store' = Spawned(r, a, new) /\ disk' = disk
      /\ crashes' = crashes /\ Typed(store) /\ todo \in Seq(Calls) /\ todo[1] \in Calls
  <2>1. todo # <<>> /\ Typed(store) /\ todo \in Seq(Calls) /\ todo[1] \in Calls
    BY Pending DEF SpawnFreeAccount, Doing, IInv, Consistent
  <2>2. todo[1].call = "spawn" /\ todo' = c \o Tail(todo)
    BY <1>2 DEF SpawnFreeAccount, Doing, Then
  <2>3. store' = Spawned(r, a, new) /\ disk' = disk /\ crashes' = crashes
    BY <1>1, <1>3, <1>4 DEF SpawnFreeAccount, Spawned
  <2> QED BY <2>1, <2>2, <2>3
<1>6. new \in Accounts /\ a \in Accounts /\ todo[1].sponsor \in Accounts
  <2>1. new \in Accounts /\ a \in Accounts /\ todo[1].sponsor \in Sponsors
    BY <1>1, <1>5, CallTypes DEF FreshIds
  <2>2. Sponsors \subseteq Accounts
    BY PoolAssumption DEF Sponsors
  <2> QED BY <2>1, <2>2
<1>7. slots \in Seq(Accounts) /\ Len(slots) \in {0, 1}
  BY <1>3, <1>6
<1>8. /\ SameBook(store, store') /\ store'.graduated = store.graduated
      /\ store'.accounts = store.accounts \cup {new}
      /\ store'.freeOf = [store.freeOf EXCEPT ![a] = @ \cup {new}]
      /\ SlotsOK(store) => SlotsOK(store')
  BY <1>4, <1>5, <1>6, <1>7, SpawnedBook
<1>9. /\ Place(new, todo[1].sponsor) \in Calls /\ Save \in Calls
      /\ Place(new, todo[1].sponsor).call = "place"
  BY <1>6 DEF Calls, Place
<1>10. c \in Seq(Calls) /\ Len(c) = 2 /\ c[1].call = "place"
  BY <1>2, <1>9
<1>11. todo' # <<>> /\ todo'[1] = c[1]
  <2>1. Len(c) # 0 /\ c \in Seq(Calls) /\ todo # <<>> /\ todo' = c \o Tail(todo)
    BY <1>5, <1>10
  <2> QED BY <1>5, <2>1, FirstCall
<1> QED BY <1>5, <1>6, <1>8, <1>10, <1>11 DEF FreeStep, Awarding, Paying

LEMMA EveryStep ==
  ASSUME IInv, [Next]_vars
  PROVE  \/ PlainStep
         \/ \E a \in FreshIds \cup UserIds : StartStep(a)
         \/ \E a \in Accounts, p \in AwardInputs \cup {CyclePoints} : CreditStep(a, p)
         \/ \E p \in Accounts : CountStep(p)
         \/ \E a \in Accounts, new \in FreshIds : FreeStep(a, new)
         \/ Crash
<1>1. CASE Request
  BY <1>1, RequestIsPlain
<1>2. CASE Continue
  <2>1. CASE PlaceNowhere \/ PlaceInMatrix
    BY <2>1, PlaceIsPlain
  <2>2. CASE RefillMatrix \/ SaveState \/ CheckNothing
    BY <2>2, RestIsPlain
  <2>3. CASE AwardPoints
    BY <2>3, AwardCredits
  <2>4. CASE CheckAllocates
    BY <2>4, AllocationCounts
  <2>5. CASE \E new \in FreshIds : SpawnFreeAccount(new)
    BY <2>5, SpawnFrees
  <2> QED BY <1>2, <2>1, <2>2, <2>3, <2>4, <2>5 DEF Continue
<1>3. CASE Crash
  BY <1>3
<1>4. CASE UNCHANGED vars
  <2>1. store' = store /\ disk' = disk /\ todo' = todo /\ crashes' = crashes
    BY <1>4 DEF vars
  <2>2. Plain(store, store')
    BY <2>1, NothingIsPlain
  <2> QED BY <2>1, <2>2 DEF PlainStep
<1> QED BY <1>1, <1>2, <1>3, <1>4 DEF Next

-----------------------------------------------------------------------------
(* Types                                                                   *)

\* The books of a store: i32 numbers and events, and no count below zero.
BooksTyped(s) ==
  /\ s.graduated \subseteq s.accounts
  /\ s.points \in [Accounts -> I32] /\ s.cycles \in [Accounts -> I32]
  /\ s.events \in [Accounts -> Seq(I32)]
  /\ s.sponsored \in [Accounts -> Nat]

TInv ==
  /\ BooksTyped(store) /\ SlotsOK(store) /\ BooksTyped(disk) /\ SlotsOK(disk)
  /\ AwardKnown(todo, store)
  /\ crashes \in 0..MaxCrashes

LEMMA CardIds ==
  ASSUME NEW old \in I32, NEW new \in I32, NEW more, more = Completed(old, new)
  PROVE  /\ more \in Nat
         /\ [i \in 1..more |-> old + i] \in Seq(I32)
<1>1. Half \in Nat \ {0} /\ old \in Int /\ new \in Int
  BY SizesAssumption DEF I32
<1>2. more \in Nat /\ (more > 0 => old + more = new)
  BY <1>1 DEF Completed
<1>3. \A i \in 1..more : old + i \in I32
  BY <1>1, <1>2 DEF I32
<1> QED BY <1>2, <1>3

LEMMA CreditKeepsTypes ==
  ASSUME NEW s, Typed(s), BooksTyped(s), NEW a \in s.accounts, NEW p \in Nat,
         NEW t, t = WithPoints(s, a, p)
  PROVE  BooksTyped(t)
<1>1. PICK total : total = AsI32(s.points[a] + AsI32(p))
  OBVIOUS
<1>2. PICK old : old = CardsOf(s.points[a])
  OBVIOUS
<1>3. PICK more : more = Completed(old, CardsOf(total))
  OBVIOUS
<1>4. a \in Accounts /\ s.points[a] \in I32 /\ s.cycles[a] \in I32 /\ s.events[a] \in Seq(I32)
  BY DEF Typed, BooksTyped
<1>5. \A n \in I32 : n \in Int
  BY SizesAssumption DEF I32
<1>6. total \in I32
  <2>1. AsI32(p) \in I32
    BY AsI32InRange
  <2>2. s.points[a] + AsI32(p) \in Int
    BY <1>4, <1>5, <2>1
  <2> QED BY <1>1, <2>2, AsI32InRange
<1>7. old \in I32 /\ CardsOf(total) \in I32
  BY <1>2, <1>4, <1>6, CardsInRange
<1>8. more \in Nat /\ [i \in 1..more |-> old + i] \in Seq(I32)
  BY <1>3, <1>7, CardIds
<1>9. AsI32(s.cycles[a] + more) \in I32
  <2>1. s.cycles[a] + more \in Int
    BY <1>4, <1>5, <1>8
  <2> QED BY <2>1, AsI32InRange
<1>10. s.events[a] \o [i \in 1..more |-> old + i] \in Seq(I32)
  BY <1>4, <1>8, ConcatProperties
<1>11. PointsBooked(s, a, t, total, old, more)
  BY <1>1, <1>2, <1>3, <1>4, PointsBook
<1>12. t.points \in [Accounts -> I32]
  <2>1. t.points = [s.points EXCEPT ![a] = total] /\ s.points \in [Accounts -> I32]
    BY <1>11 DEF PointsBooked, BooksTyped
  <2> QED BY <1>6, <2>1
<1>13. t.cycles \in [Accounts -> I32]
  <2>1. PICK n : n = AsI32(s.cycles[a] + more)
    OBVIOUS
  <2>2. t.cycles = [s.cycles EXCEPT ![a] = n] /\ s.cycles \in [Accounts -> I32]
    BY <1>11, <2>1 DEF PointsBooked, BooksTyped
  <2> QED BY <1>9, <2>1, <2>2
<1>14. t.events \in [Accounts -> Seq(I32)]
  <2>1. PICK e : e = s.events[a] \o [i \in 1..more |-> old + i]
    OBVIOUS
  <2>2. t.events = [s.events EXCEPT ![a] = e] /\ s.events \in [Accounts -> Seq(I32)]
    BY <1>11, <2>1, Zenon DEF PointsBooked, BooksTyped
  <2>3. e \in Seq(I32)
    BY <1>10, <2>1
  <2> QED BY <2>2, <2>3
<1>15. t.graduated \subseteq t.accounts /\ t.sponsored \in [Accounts -> Nat]
  <2>1. /\ t.graduated = (IF total >= CardPoints THEN s.graduated \cup {a} ELSE s.graduated)
        /\ t.sponsored = s.sponsored /\ t.accounts = s.accounts
    BY <1>11, Zenon DEF PointsBooked
  <2> QED BY <2>1 DEF BooksTyped
<1> QED BY <1>12, <1>13, <1>14, <1>15 DEF BooksTyped

LEMMA TypesInitially == Init => TInv
<1> SUFFICES ASSUME Init PROVE TInv
  OBVIOUS
<1>1. store = EmptyStore /\ disk = EmptyStore /\ todo = <<>> /\ crashes = 0
  BY DEF Init
<1>2. 0 \in I32 /\ MaxCrashes \in Nat
  BY SizesAssumption DEF I32
<1>3. BooksTyped(EmptyStore)
  BY <1>2 DEF BooksTyped, EmptyStore
<1>4. SlotsOK(EmptyStore)
  BY DEF SlotsOK, EmptyStore
<1> QED BY <1>1, <1>2, <1>3, <1>4 DEF TInv, AwardKnown, Awarding

LEMMA TypesKept ==
  ASSUME IInv, TInv, [Next]_vars
  PROVE  TInv'
<1>1. Typed(store) /\ store.accounts \subseteq Accounts
  BY DEF IInv, Consistent, Typed
<1>2. CASE PlainStep
  <2>1. /\ SameBook(store, store') /\ store'.graduated = store.graduated
        /\ store.accounts \subseteq store'.accounts /\ SlotsOK(store')
        /\ disk' \in {disk, store'} /\ crashes' = crashes /\ AwardKnown(todo', store')
    BY <1>2 DEF PlainStep, Plain, TInv
  <2>2. BooksTyped(store')
    BY <2>1 DEF TInv, BooksTyped, SameBook
  <2>3. BooksTyped(disk') /\ SlotsOK(disk')
    <3>1. CASE disk' = disk
      BY <3>1 DEF TInv
    <3>2. CASE disk' = store'
      BY <2>1, <2>2, <3>2
    <3> QED BY <2>1, <3>1, <3>2
  <2> QED BY <2>1, <2>2, <2>3 DEF TInv
<1>3. ASSUME NEW a \in Accounts, NEW p \in AwardInputs \cup {CyclePoints}, CreditStep(a, p)
      PROVE  TInv'
  <2>1. /\ store' = WithPoints(store, a, p) /\ disk' = store' /\ crashes' = crashes
        /\ ~Awarding(todo') /\ a \in store.accounts
    BY <1>3 DEF CreditStep, TInv, AwardKnown
  <2>2. p \in Nat
    BY SizesAssumption DEF CyclePoints
  <2>3. BooksTyped(store')
    BY <1>1, <2>1, <2>2, CreditKeepsTypes DEF TInv
  <2>4. store'.matrices = store.matrices
    BY <1>1, <2>1, PointsChange
  <2>5. SlotsOK(store')
    BY <2>4 DEF TInv, SlotsOK
  <2> QED BY <2>1, <2>3, <2>5 DEF TInv, AwardKnown
<1>4. ASSUME NEW p \in Accounts, CountStep(p) PROVE TInv'
  <2>1. /\ store'.points = store.points /\ store'.cycles = store.cycles
        /\ store'.events = store.events /\ store'.graduated = store.graduated
        /\ store'.accounts = store.accounts /\ store'.matrices = store.matrices
        /\ store'.sponsored = [store.sponsored EXCEPT ![p] = @ + 1]
    <3>1. CountBooked(store, p, store')
      BY <1>1, <1>4, CountedBook DEF CountStep
    <3> QED BY <3>1 DEF CountBooked
  <2>2. disk' = store' /\ crashes' = crashes /\ ~Awarding(todo')
    BY <1>4 DEF CountStep
  <2>3. BooksTyped(store')
    BY <2>1 DEF TInv, BooksTyped
  <2>4. SlotsOK(store')
    BY <2>1 DEF TInv, SlotsOK
  <2> QED BY <2>2, <2>3, <2>4 DEF TInv, AwardKnown
<1>5. ASSUME NEW a \in Accounts, NEW new \in FreshIds, FreeStep(a, new) PROVE TInv'
  <2>1. /\ SameBook(store, store') /\ store'.graduated = store.graduated
        /\ store.accounts \subseteq store'.accounts /\ SlotsOK(store')
        /\ disk' = disk /\ crashes' = crashes /\ ~Awarding(todo')
    BY <1>5 DEF FreeStep, TInv
  <2>2. BooksTyped(store')
    BY <2>1 DEF TInv, BooksTyped, SameBook
  <2> QED BY <2>1, <2>2 DEF TInv, AwardKnown
<1>6. CASE Crash
  <2>1. store' = disk /\ disk' = disk /\ todo' = <<>>
    BY <1>6 DEF Crash
  <2>2. crashes' \in 0..MaxCrashes
    BY <1>6, SizesAssumption DEF Crash, TInv
  <2> QED BY <2>1, <2>2 DEF TInv, AwardKnown, Awarding
<1>7. ASSUME NEW a \in FreshIds \cup UserIds, StartStep(a) PROVE TInv'
  <2>0. a \in Accounts
    BY <1>1 DEF FreshIds, UserIds
  <2>1. /\ store' = SignedUp(store, a) /\ disk' = disk /\ crashes' = crashes /\ ~Awarding(todo')
    BY <1>7 DEF StartStep
  <2>2. /\ SignUpBooked(store, a, store') /\ store'.accounts = store.accounts \cup {a}
        /\ Len(store'.matrices) = Len(store.matrices) + 1
        /\ \A j \in 1..Len(store.matrices) : store'.matrices[j] = store.matrices[j]
        /\ Len(store'.matrices[Len(store.matrices) + 1].slots) = 1
    BY <1>1, <2>0, <2>1, SignedUpChange
  <2>3. SlotsOK(store')
    BY <1>1, <2>2, SlotsOfOneMore DEF TInv
  <2>4. BooksTyped(store')
    <3>1. 0 \in I32
      BY SizesAssumption DEF I32
    <3>2. store'.graduated = store.graduated \ {a} /\ store.graduated \subseteq store.accounts
      BY <2>2 DEF SignUpBooked, TInv, BooksTyped
    <3>3. store'.graduated \subseteq store'.accounts
      BY <2>2, <3>2
    <3>4. store'.points \in [Accounts -> I32] /\ store'.cycles \in [Accounts -> I32]
      <4>1. /\ store'.points = [store.points EXCEPT ![a] = 0]
            /\ store'.cycles = [store.cycles EXCEPT ![a] = 0]
        BY <2>2 DEF SignUpBooked
      <4>2. store.points \in [Accounts -> I32] /\ store.cycles \in [Accounts -> I32]
        BY DEF TInv, BooksTyped
      <4> QED BY <3>1, <4>1, <4>2
    <3>5. store'.events = store.events /\ store'.sponsored = store.sponsored
      BY <2>2 DEF SignUpBooked
    <3> QED BY <3>3, <3>4, <3>5 DEF TInv, BooksTyped
  <2> QED BY <2>1, <2>3, <2>4 DEF TInv, AwardKnown
<1> QED BY <1>2, <1>3, <1>4, <1>5, <1>6, <1>7, EveryStep

LEMMA BooksInvariant == Spec => [](IInv /\ TInv)
<1>1. Init => IInv /\ TInv
  BY Initially, TypesInitially
<1>2. IInv /\ TInv /\ [Next]_vars => (IInv /\ TInv)'
  BY Inductive, TypesKept
<1> QED BY <1>1, <1>2, PTL DEF Spec

\* The store in memory and the saved one keep their types, whatever is awarded
\* and however it wraps, and no matrix ever holds more accounts than it has
\* places (place_in_matrix fills only a matrix whose status is "Filling", and
\* the last place ends that status in the same step).
THEOREM StoresKeepTypes == Spec => []TypeOK
<1>1. ASSUME NEW s, Consistent(s), BooksTyped(s), SlotsOK(s) PROVE StoreOK(s)
  BY <1>1 DEF StoreOK, Consistent, Typed, BooksTyped, SlotsOK
<1>2. IInv /\ TInv => TypeOK
  BY <1>1 DEF IInv, TInv, TypeOK
<1> QED BY <1>2, BooksInvariant, PTL

-----------------------------------------------------------------------------
(* Cards                                                                   *)

\* The points a request is about to credit fit an i32, and so does the sum.
NothingWraps ==
  Awarding(todo) =>
    /\ todo[1].points < Half
    /\ store.points[todo[1].account] + todo[1].points < Half

\* The last k of some events are those of the cards 1 to k.
LastAre(e, k) == Len(e) - k >= 0 /\ \A i \in 1..k : e[Len(e) - k + i] = i

Places(e, n) == {i \in 1..Len(e) : e[i] = n}

\* Each card has its event in every start of the account, but for the cards
\* that the last start has not come to.
Numbered(e, k, starts) ==
  \A n \in Int :
    /\ Cardinality(Places(e, n)) <= starts
    /\ n \notin 1..k => Cardinality(Places(e, n)) < starts

\* The cards of a store, none of its accounts having lost points to a wrap.
CardsMatchOf(s, a) ==
  /\ s.points[a] >= 0
  /\ s.cycles[a] = CardsOf(s.points[a])
  /\ a \in s.graduated <=> s.cycles[a] > 0
  /\ LastAre(s.events[a], s.cycles[a])
  /\ Numbered(s.events[a], s.cycles[a], Starts(s, a))
  /\ a \notin s.accounts => s.events[a] = <<>>

CardsMatch(s) == \A a \in Accounts : CardsMatchOf(s, a)

LEMMA PlacesAreFinite ==
  ASSUME NEW e, Len(e) \in Nat, NEW n
  PROVE  IsFiniteSet(Places(e, n)) /\ Cardinality(Places(e, n)) \in Nat
<1>1. IsFiniteSet(1..Len(e)) /\ Places(e, n) \subseteq 1..Len(e)
  <2>1. IsFiniteSet(1..Len(e))
    BY FS_Interval
  <2> QED BY <2>1 DEF Places
<1> QED BY <1>1, FS_Subset, FS_CardinalityType

\* The events of more cards, after those there are.
LEMMA MoreEvents ==
  ASSUME NEW e \in Seq(Int), NEW k \in Nat, NEW m \in Nat, k <= m,
         NEW f, f = e \o [i \in 1..(m - k) |-> k + i]
  PROVE  /\ Len(e) \in Nat /\ Len(f) = Len(e) + m - k
         /\ \A i \in 1..Len(e) : f[i] = e[i]
         /\ \A i \in 1..(m - k) : f[Len(e) + i] = k + i
<1>1. PICK g : g = [i \in 1..(m - k) |-> k + i]
  OBVIOUS
<1>2. g \in Seq(Int) /\ Len(g) = m - k /\ m - k \in Nat
  <2>1. m - k \in Nat /\ \A i \in 1..(m - k) : k + i \in Int
    OBVIOUS
  <2> QED BY <1>1, <2>1
<1>3. \A i \in 1..(m - k) : g[i] = k + i
  BY <1>1
<1>4. Len(e) \in Nat
  BY LenProperties
<1>5. /\ Len(f) = Len(e) + (m - k)
      /\ \A i \in 1..Len(f) : f[i] = IF i <= Len(e) THEN e[i] ELSE g[i - Len(e)]
  BY <1>1, <1>2, ConcatProperties
<1>l. PICK l : l = Len(e)
  OBVIOUS
<1>6. /\ l \in Nat /\ Len(f) = l + (m - k)
      /\ \A i \in 1..Len(f) : f[i] = IF i <= l THEN e[i] ELSE g[i - l]
  BY <1>4, <1>5, <1>l
<1>7. ASSUME NEW i \in 1..l PROVE f[i] = e[i]
  <2>1. i \in 1..Len(f) /\ i <= l
    BY <1>2, <1>6
  <2> QED BY <1>6, <2>1
<1>8. ASSUME NEW i \in 1..(m - k) PROVE f[l + i] = k + i
  <2>1. PICK j : j = l + i
    OBVIOUS
  <2>2. j \in 1..Len(f) /\ ~(j <= l) /\ j - l = i
    BY <1>2, <1>6, <2>1
  <2>3. f[j] = g[i]
    BY <1>6, <2>2
  <2> QED BY <1>3, <2>1, <2>3
<1> QED BY <1>4, <1>6, <1>7, <1>8, <1>l

LEMMA MoreCards ==
  ASSUME NEW e \in Seq(Int), NEW k \in Nat, NEW m \in Nat, k <= m, NEW starts \in Nat,
         LastAre(e, k), Numbered(e, k, starts),
         NEW f, f = e \o [i \in 1..(m - k) |-> k + i]
  PROVE  LastAre(f, m) /\ Numbered(f, m, starts)
<1>1. PICK l : l = Len(e)
  OBVIOUS
<1>2. /\ l \in Nat /\ Len(f) = l + m - k
      /\ \A i \in 1..l : f[i] = e[i]
      /\ \A i \in 1..(m - k) : f[l + i] = k + i
  BY <1>1, MoreEvents
<1>3. LastAre(f, m)
  <2>1. l - k >= 0 /\ \A i \in 1..k : e[l - k + i] = i
    BY <1>1 DEF LastAre
  <2>2. Len(f) - m = l - k
    BY <1>2
  <2>3. ASSUME NEW i \in 1..m PROVE f[l - k + i] = i
    <3>1. CASE i <= k
      <4>1. i \in 1..k /\ l - k + i \in 1..l
        BY <1>2, <2>1, <3>1
      <4> QED BY <1>2, <2>1, <4>1
    <3>2. CASE ~(i <= k)
      <4>1. PICK j : j = i - k
        OBVIOUS
      <4>2. PICK q : q = l + j
        OBVIOUS
      <4>3. j \in 1..(m - k) /\ q = l - k + i /\ k + j = i
        BY <1>2, <3>2, <4>1, <4>2
      <4>4. f[q] = k + j
        BY <1>2, <4>2, <4>3
      <4>5. f[q] = i
        BY <4>3, <4>4
      <4> QED BY <4>3, <4>5
    <3> QED BY <3>1, <3>2
  <2> QED BY <2>1, <2>2, <2>3 DEF LastAre
<1>4. ASSUME NEW n \in Int
      PROVE  /\ Cardinality(Places(f, n)) <= starts
             /\ n \notin 1..m => Cardinality(Places(f, n)) < starts
  <2>1. /\ Cardinality(Places(e, n)) <= starts
        /\ n \notin 1..k => Cardinality(Places(e, n)) < starts
    BY DEF Numbered
  <2>2. ASSUME NEW i \in Places(f, n), i \notin Places(e, n)
        PROVE  n \in (k + 1)..m /\ i = l + (n - k)
    <3>1. i \in 1..(l + m - k) /\ f[i] = n
      BY <1>2 DEF Places
    <3>2. i \notin 1..l
      BY <1>1, <1>2, <2>2, <3>1 DEF Places
    <3>3. PICK j \in 1..(m - k) : i = l + j
      <4>1. i - l \in 1..(m - k) /\ i = l + (i - l)
        BY <1>2, <3>1, <3>2
      <4> QED BY <4>1
    <3>4. n = k + j
      BY <1>2, <3>1, <3>3
    <3> QED BY <1>2, <3>3, <3>4
  <2>3. /\ IsFiniteSet(Places(e, n)) /\ Cardinality(Places(e, n)) \in Nat
        /\ IsFiniteSet(Places(f, n)) /\ Cardinality(Places(f, n)) \in Nat
    <3>1. Len(e) \in Nat /\ Len(f) \in Nat
      BY <1>1, <1>2
    <3> QED BY <3>1, PlacesAreFinite
  <2>4. CASE n \in (k + 1)..m
    <3>1. PICK x : x = l + (n - k)
      OBVIOUS
    <3>2. Places(f, n) \subseteq Places(e, n) \cup {x}
      BY <2>2, <3>1
    <3>3. /\ IsFiniteSet(Places(e, n) \cup {x})
          /\ Cardinality(Places(e, n) \cup {x}) <= Cardinality(Places(e, n)) + 1
      BY <2>3, OneLess, FS_AddElement
    <3>4. /\ Cardinality(Places(f, n)) <= Cardinality(Places(e, n) \cup {x})
          /\ Cardinality(Places(e, n) \cup {x}) \in Nat
      BY <3>2, <3>3, FS_Subset, FS_CardinalityType
    <3>5. n \notin 1..k /\ n \in 1..m
      BY <2>4
    <3> QED BY <2>1, <2>3, <3>3, <3>4, <3>5
  <2>5. CASE n \notin (k + 1)..m
    <3>1. Places(f, n) \subseteq Places(e, n)
      BY <2>2, <2>5
    <3>2. Cardinality(Places(f, n)) <= Cardinality(Places(e, n))
      BY <2>3, <3>1, FS_Subset
    <3>3. n \notin 1..m => n \notin 1..k
      OBVIOUS
    <3> QED BY <2>1, <2>3, <3>2, <3>3
  <2> QED BY <2>4, <2>5
<1> QED BY <1>3, <1>4 DEF Numbered

LEMMA CreditKeepsCards ==
  ASSUME NEW s, Typed(s), BooksTyped(s), CardsMatch(s), NEW a \in s.accounts, NEW p \in Nat,
         p < Half, s.points[a] + p < Half, NEW t, t = WithPoints(s, a, p)
  PROVE  CardsMatch(t)
<1>1. PICK total : total = AsI32(s.points[a] + AsI32(p))
  OBVIOUS
<1>2. PICK old : old = CardsOf(s.points[a])
  OBVIOUS
<1>3. PICK more : more = Completed(old, CardsOf(total))
  OBVIOUS
<1>4. Half \in Nat \ {0} /\ \A n \in 0..(Half - 1) : n \in I32
  BY SizesAssumption DEF I32
<1>0. a \in Accounts /\ s.accounts \subseteq Accounts
  BY DEF Typed
<1>5. s.points[a] \in Nat /\ s.points[a] \in I32
  <2>1. s.points[a] \in I32 /\ s.points[a] >= 0
    BY <1>0 DEF BooksTyped, CardsMatch, CardsMatchOf
  <2> QED BY <1>4, <2>1 DEF I32
<1>6. total = s.points[a] + p /\ total \in I32 /\ total \in Nat
  <2>1. p \in I32 /\ s.points[a] + p \in I32 /\ s.points[a] + p \in Nat
    BY <1>4, <1>5 DEF I32
  <2>2. AsI32(p) = p /\ AsI32(s.points[a] + p) = s.points[a] + p
    <3>1. \A n \in I32 : n \in Int
      BY <1>4 DEF I32
    <3> QED BY <2>1, <3>1, AsI32InRange
  <2> QED BY <1>1, <2>1, <2>2
<1>7. PICK new : new = CardsOf(total)
  OBVIOUS
<1>8. /\ old \in 0..(s.points[a]) /\ new \in 0..total /\ new \in I32
      /\ new > 0 <=> total >= CardPoints
      /\ old > 0 <=> s.points[a] >= CardPoints
  <2>1. total >= 0 /\ s.points[a] >= 0
    BY <1>5, <1>6
  <2> QED BY <1>2, <1>5, <1>6, <1>7, <2>1, CardsInRange
<1>9. old <= new
  <2>1. s.points[a] <= total
    BY <1>5, <1>6
  <2> QED BY <1>2, <1>5, <1>6, <1>7, <2>1, CardsGrow
<1>10. old \in Nat /\ new \in Nat /\ more = new - old
  <2>1. old \in Nat /\ new \in Nat
    BY <1>5, <1>6, <1>8
  <2> QED BY <1>3, <1>7, <1>9, <2>1 DEF Completed
<1>11. PointsBooked(s, a, t, total, old, more)
  BY <1>0, <1>1, <1>2, <1>3, PointsBook
<1>12. CardsMatchOf(s, a)
  BY <1>0 DEF CardsMatch
<1>s. /\ t.accounts = s.accounts /\ t.signups = s.signups
      /\ \A b : Starts(t, b) = Starts(s, b)
  BY <1>11 DEF PointsBooked, Starts
<1>13. AsI32(old + more) = new
  <2>1. old + more = new /\ new \in Int
    BY <1>10
  <2> QED BY <1>8, <2>1, AsI32InRange
<1>14. CardsMatchOf(t, a)
  <2>1. t.points[a] = total
    BY <1>0, <1>11 DEF PointsBooked, BooksTyped
  <2>2. t.cycles[a] = new
    <3>1. t.cycles[a] = AsI32(s.cycles[a] + more)
      BY <1>0, <1>11 DEF PointsBooked, BooksTyped
    <3> QED BY <1>2, <1>12, <1>13, <3>1 DEF CardsMatchOf
  <2>3. LastAre(t.events[a], new) /\ Numbered(t.events[a], new, Starts(t, a))
    <3>1. t.events[a] = s.events[a] \o [i \in 1..more |-> old + i]
      BY <1>0, <1>11 DEF PointsBooked, BooksTyped
    <3>2. LastAre(s.events[a], old) /\ Numbered(s.events[a], old, Starts(s, a))
      BY <1>2, <1>12 DEF CardsMatchOf
    <3>3. s.events[a] \in Seq(Int) /\ Starts(s, a) \in Nat
      <4>1. s.events[a] \in Seq(I32)
        BY <1>0 DEF BooksTyped
      <4>2. I32 \subseteq Int
        BY <1>4 DEF I32
      <4>3. s.events[a] \in Seq(Int)
        BY <4>1, <4>2
      <4>4. Starts(s, a) \in Nat
        BY <1>0, StartsTyped
      <4> QED BY <4>3, <4>4
    <3>4. t.events[a] = s.events[a] \o [i \in 1..(new - old) |-> old + i]
      BY <1>10, <3>1
    <3>5. LastAre(t.events[a], new) /\ Numbered(t.events[a], new, Starts(s, a))
      BY <1>9, <1>10, <3>2, <3>3, <3>4, MoreCards
    <3> QED BY <1>s, <3>5
  <2>4. a \in t.graduated <=> new > 0
    <3>1. t.graduated = IF total >= CardPoints THEN s.graduated \cup {a} ELSE s.graduated
      BY <1>11 DEF PointsBooked
    <3>2. CASE total >= CardPoints
      BY <1>8, <3>1, <3>2
    <3>3. CASE ~(total >= CardPoints)
      <4>1. ~(old > 0)
        BY <1>8, <1>9, <1>10, <3>3
      <4>2. a \notin s.graduated
        BY <1>2, <1>12, <4>1 DEF CardsMatchOf
      <4> QED BY <1>8, <3>1, <3>3, <4>2
    <3> QED BY <3>2, <3>3
  <2> QED BY <1>6, <1>7, <1>s, <2>1, <2>2, <2>3, <2>4 DEF CardsMatchOf
<1>15. ASSUME NEW b \in Accounts, b # a PROVE CardsMatchOf(t, b)
  <2>1. CardsMatchOf(s, b)
    BY DEF CardsMatch
  <2>2. /\ t.points[b] = s.points[b] /\ t.cycles[b] = s.cycles[b] /\ t.events[b] = s.events[b]
    BY <1>11, <1>15 DEF PointsBooked, BooksTyped
  <2>3. b \in t.graduated <=> b \in s.graduated
    BY <1>11, <1>15 DEF PointsBooked
  <2> QED BY <1>s, <2>1, <2>2, <2>3 DEF CardsMatchOf
<1> QED BY <1>14, <1>15 DEF CardsMatch

LEMMA SameCards ==
  ASSUME NEW s, CardsMatch(s), NEW t, t.points = s.points, t.cycles = s.cycles,
         t.events = s.events, t.graduated = s.graduated, t.signups = s.signups,
         s.accounts \subseteq t.accounts
  PROVE  CardsMatch(t)
<1> SUFFICES ASSUME NEW a \in Accounts PROVE CardsMatchOf(t, a)
  BY DEF CardsMatch
<1>1. CardsMatchOf(s, a)
  BY DEF CardsMatch
<1> QED BY <1>1 DEF CardsMatchOf, Starts

LEMMA NoCards == CardsOf(0) = 0
BY DEF CardsOf, CardPoints

\* Cards start anew with the account, after all events there are.
LEMMA StartKeepsCards ==
  ASSUME NEW s, Typed(s), BooksTyped(s), CardsMatch(s), NEW a \in Accounts,
         a \in s.accounts => s.signups[a] > 0, NEW t, t = SignedUp(s, a)
  PROVE  CardsMatch(t)
<1>1. SignUpBooked(s, a, t) /\ t.accounts = s.accounts \cup {a}
  BY SignedUpChange
<1>2. /\ t.points = [s.points EXCEPT ![a] = 0] /\ t.cycles = [s.cycles EXCEPT ![a] = 0]
      /\ t.graduated = s.graduated \ {a} /\ t.events = s.events
      /\ t.signups = [s.signups EXCEPT ![a] = @ + 1]
  BY <1>1 DEF SignUpBooked
<1>3. /\ s.points \in [Accounts -> I32] /\ s.cycles \in [Accounts -> I32]
      /\ s.events[a] \in Seq(I32) /\ s.signups \in [Accounts -> Nat]
  BY DEF Typed, BooksTyped
<1>4. Len(s.events[a]) \in Nat
  BY <1>3, LenProperties
<1>5. /\ t.points[a] = 0 /\ t.cycles[a] = 0 /\ t.signups[a] = s.signups[a] + 1
      /\ \A b \in Accounts \ {a} :
           t.points[b] = s.points[b] /\ t.cycles[b] = s.cycles[b] /\ t.signups[b] = s.signups[b]
  BY <1>2, <1>3
<1>6. CardsMatchOf(t, a)
  <2>1. CardsMatchOf(s, a)
    BY DEF CardsMatch
  <2>2. LastAre(t.events[a], 0)
    BY <1>2, <1>4 DEF LastAre
  <2>3. ASSUME NEW n \in Int PROVE Cardinality(Places(t.events[a], n)) < Starts(t, a)
    <3>1. Cardinality(Places(s.events[a], n)) \in Nat /\ s.signups[a] \in Nat
      BY <1>3, <1>4, PlacesAreFinite
    <3>2. CASE a \in s.accounts
      <4>1. Starts(t, a) = s.signups[a] + 1 /\ Starts(s, a) = s.signups[a]
        BY <1>5, <3>1, <3>2 DEF Starts
      <4>2. Cardinality(Places(s.events[a], n)) <= Starts(s, a)
        BY <2>1 DEF CardsMatchOf, Numbered
      <4> QED BY <1>2, <3>1, <4>1, <4>2
    <3>3. CASE a \notin s.accounts
      <4>1. s.events[a] = <<>>
        BY <2>1, <3>3 DEF CardsMatchOf
      <4>2. Places(s.events[a], n) = {}
        BY <4>1 DEF Places
      <4>3. Cardinality(Places(s.events[a], n)) = 0
        BY <4>2, FS_EmptySet
      <4>4. Starts(t, a) = s.signups[a] + 1
        BY <1>5, <3>1 DEF Starts
      <4> QED BY <1>2, <3>1, <4>3, <4>4
    <3> QED BY <3>2, <3>3
  <2>4. Numbered(t.events[a], 0, Starts(t, a))
    <3>1. Starts(t, a) \in Nat
      BY <1>3, <1>5 DEF Starts
    <3>2. ASSUME NEW n \in Int PROVE Cardinality(Places(t.events[a], n)) \in Nat
      BY <1>2, <1>4, PlacesAreFinite
    <3>3. ASSUME NEW n \in Int PROVE Cardinality(Places(t.events[a], n)) <= Starts(t, a)
      BY <2>3, <3>1, <3>2
    <3> QED BY <2>3, <3>3 DEF Numbered
  <2>5. a \in t.accounts /\ a \notin t.graduated
    BY <1>1, <1>2
  <2> QED BY <1>5, <2>2, <2>4, <2>5, NoCards DEF CardsMatchOf
<1>7. ASSUME NEW b \in Accounts, b # a PROVE CardsMatchOf(t, b)
  <2>1. CardsMatchOf(s, b)
    BY DEF CardsMatch
  <2>2. Starts(t, b) = Starts(s, b)
    BY <1>5, <1>7 DEF Starts
  <2>3. /\ t.points[b] = s.points[b] /\ t.cycles[b] = s.cycles[b] /\ t.events[b] = s.events[b]
        /\ b \in t.graduated <=> b \in s.graduated
        /\ b \in t.accounts <=> b \in s.accounts
    BY <1>1, <1>2, <1>5, <1>7
  <2> QED BY <2>1, <2>2, <2>3 DEF CardsMatchOf
<1> QED BY <1>6, <1>7 DEF CardsMatch

LEMMA CardsKept ==
  ASSUME IInv, TInv, NothingWraps, CardsMatch(store), CardsMatch(disk), [Next]_vars
  PROVE  CardsMatch(store') /\ CardsMatch(disk')
<1>1. Typed(store)
  BY DEF IInv, Consistent
<1>2. CASE PlainStep
  <2>1. CardsMatch(store')
    BY <1>2, SameCards DEF PlainStep, Plain, SameBook
  <2>2. disk' = disk \/ disk' = store'
    BY <1>2 DEF PlainStep
  <2> QED BY <2>1, <2>2
<1>3. ASSUME NEW a \in Accounts, NEW p \in AwardInputs \cup {CyclePoints}, CreditStep(a, p)
      PROVE  CardsMatch(store') /\ CardsMatch(disk')
  <2>1. store' = WithPoints(store, a, p) /\ disk' = store'
    BY <1>3 DEF CreditStep
  <2>2. p < Half /\ store.points[a] + p < Half
    BY <1>3 DEF CreditStep, NothingWraps
  <2>3. p \in Nat
    BY SizesAssumption DEF CyclePoints
  <2>4. BooksTyped(store) /\ a \in store.accounts
    BY <1>3 DEF TInv, CreditStep, AwardKnown
  <2> QED BY <1>1, <2>1, <2>2, <2>3, <2>4, CreditKeepsCards
<1>4. ASSUME NEW p \in Accounts, CountStep(p)
      PROVE  CardsMatch(store') /\ CardsMatch(disk')
  <2>1. store' = Counted(store, p) /\ disk' = store'
    BY <1>4 DEF CountStep
  <2>2. /\ store'.points = store.points /\ store'.cycles = store.cycles
        /\ store'.events = store.events /\ store'.graduated = store.graduated
        /\ store'.accounts = store.accounts /\ store'.signups = store.signups
    <3>1. CountBooked(store, p, store')
      BY <1>1, <2>1, CountedBook
    <3> QED BY <3>1 DEF CountBooked
  <2> QED BY <2>1, <2>2, SameCards
<1>5. ASSUME NEW a \in Accounts, NEW new \in FreshIds, FreeStep(a, new)
      PROVE  CardsMatch(store') /\ CardsMatch(disk')
  BY <1>5, SameCards DEF FreeStep, SameBook
<1>6. CASE Crash
  <2>1. store' = disk /\ disk' = disk
    BY <1>6 DEF Crash
  <2> QED BY <2>1
<1>7. ASSUME NEW a \in FreshIds \cup UserIds, StartStep(a)
      PROVE  CardsMatch(store') /\ CardsMatch(disk')
  <2>1. /\ store' = SignedUp(store, a) /\ disk' = disk /\ BooksTyped(store)
        /\ a \in store.accounts => store.signups[a] > 0
    BY <1>7 DEF StartStep, TInv
  <2>2. a \in Accounts
    BY <1>1 DEF FreshIds, UserIds, Typed
  <2> QED BY <1>1, <2>1, <2>2, StartKeepsCards
<1> QED BY <1>2, <1>3, <1>4, <1>5, <1>6, <1>7, EveryStep

LEMMA NoCardsInitially == Init => CardsMatch(store) /\ CardsMatch(disk)
<1> SUFFICES ASSUME NEW a \in Accounts PROVE CardsMatchOf(EmptyStore, a)
  BY DEF Init, CardsMatch
<1>1. /\ EmptyStore.points[a] = 0 /\ EmptyStore.cycles[a] = 0
      /\ EmptyStore.events[a] = <<>> /\ a \notin EmptyStore.graduated
      /\ Starts(EmptyStore, a) = 1
  BY DEF EmptyStore, Starts
<1>2. LastAre(<<>>, 0)
  BY DEF LastAre
<1>3. Numbered(<<>>, 0, 1)
  <2>1. \A n : Places(<<>>, n) = {}
    BY DEF Places
  <2> QED BY <2>1, FS_EmptySet DEF Numbered
<1> QED BY <1>1, <1>2, <1>3, NoCards DEF CardsMatchOf

\* In a behaviour in which no credited sum leaves the i32 range, the cycle
\* count of every account is the number of cards its points complete, its last
\* events are those of these cards in their order, the account is graduated
\* from its first card on (award_points), and no card has more events than
\* accounts were started with this id (register_passkey_finish_signup starts
\* that of a user once more and keeps the events); in the saved store too, so
\* that a crash makes no card count twice.  The hypothesis is needed:
\* award_points takes a u32 and adds it to an i32, and points lost to a wrap
\* leave the cards they had completed.
THEOREM CardsMatchPoints == Spec /\ []NothingWraps => []CyclesMatchPoints
<1>1. Init => CardsMatch(store) /\ CardsMatch(disk)
  BY NoCardsInitially
<1>2. /\ IInv /\ TInv /\ NothingWraps /\ CardsMatch(store) /\ CardsMatch(disk) /\ [Next]_vars
      => (CardsMatch(store) /\ CardsMatch(disk))'
  BY CardsKept
<1>3. ASSUME NEW s, BooksTyped(s), CardsMatch(s), NEW a \in Accounts
      PROVE  LET cards == s.cycles[a]
                 older == Len(s.events[a]) - cards
             IN  /\ cards = CardsOf(s.points[a])
                 /\ a \in s.graduated <=> cards > 0
                 /\ older >= 0 /\ \A i \in 1..cards : s.events[a][older + i] = i
                 /\ \A n \in ToSet(s.events[a]) : Cardinality(EventsOf(s, a, n)) <= Starts(s, a)
  <2>1. CardsMatchOf(s, a)
    BY <1>3 DEF CardsMatch
  <2>2. ASSUME NEW n \in ToSet(s.events[a])
        PROVE  Cardinality(EventsOf(s, a, n)) <= Starts(s, a)
    <3>1. s.events[a] \in Seq(I32)
      BY <1>3 DEF BooksTyped
    <3>2. n \in I32
      <4>1. PICK i \in DOMAIN s.events[a] : n = s.events[a][i]
        BY DEF ToSet
      <4> QED BY <3>1, <4>1
    <3>3. n \in Int
      BY <3>2, SizesAssumption DEF I32
    <3>4. EventsOf(s, a, n) = Places(s.events[a], n)
      BY DEF EventsOf, Places
    <3>5. Cardinality(Places(s.events[a], n)) <= Starts(s, a)
      BY <2>1, <3>3 DEF CardsMatchOf, Numbered
    <3> QED BY <3>4, <3>5
  <2>3. LastAre(s.events[a], s.cycles[a])
    BY <2>1 DEF CardsMatchOf
  <2> QED BY <2>1, <2>2, <2>3 DEF CardsMatchOf, LastAre
<1>4. TInv /\ CardsMatch(store) /\ CardsMatch(disk) => CyclesMatchPoints
  BY <1>3 DEF TInv, CyclesMatchPoints
<1> QED BY <1>1, <1>2, <1>4, BooksInvariant, PTL DEF Spec

-----------------------------------------------------------------------------
(* Allocations                                                             *)

\* The free accounts of a store, and how many allocations are for none.
Freed(s)  == UNION {s.freeOf[a] : a \in Accounts}
Wasted(s) == SumOf(s.sponsored) - Cardinality(Freed(s))

\* An allocation is for the free account that is being made, or was lost with
\* it in a crash.  The saved store may have the allocation and not yet the
\* account.
AInv ==
  /\ Wasted(store) - (IF Paying(todo) THEN 1 ELSE 0) \in 0..crashes
  /\ Wasted(disk) \in 0..(crashes + 1)

LEMMA FreedIsFinite ==
  ASSUME NEW s, Typed(s)
  PROVE  Freed(s) \subseteq s.accounts /\ IsFiniteSet(Freed(s)) /\ Cardinality(Freed(s)) \in Nat
<1>1. Freed(s) \subseteq s.accounts /\ IsFiniteSet(s.accounts)
  BY DEF Freed, Typed
<1> QED BY <1>1, FS_Subset, FS_CardinalityType

LEMMA OneMoreFreed ==
  ASSUME NEW s, Typed(s), NEW a \in Accounts, NEW new, new \notin s.accounts,
         NEW t, t.freeOf = [s.freeOf EXCEPT ![a] = @ \cup {new}]
  PROVE  Cardinality(Freed(t)) = Cardinality(Freed(s)) + 1
<1>1. /\ Freed(s) \subseteq s.accounts /\ IsFiniteSet(Freed(s))
  BY FreedIsFinite
<1>2. Freed(t) = Freed(s) \cup {new}
  <2>1. DOMAIN s.freeOf = Accounts
    BY DEF Typed
  <2>2. /\ t.freeOf[a] = s.freeOf[a] \cup {new}
        /\ \A b \in Accounts \ {a} : t.freeOf[b] = s.freeOf[b]
    BY <2>1
  <2>3. ASSUME NEW x PROVE x \in Freed(t) <=> x \in Freed(s) \cup {new}
    <3>1. x \in Freed(t) <=> \E b \in Accounts : x \in t.freeOf[b]
      BY DEF Freed
    <3>2. x \in Freed(s) <=> \E b \in Accounts : x \in s.freeOf[b]
      BY DEF Freed
    <3> QED BY <2>2, <3>1, <3>2
  <2> QED BY <2>3
<1>3. new \notin Freed(s)
  BY <1>1
<1> QED BY <1>1, <1>2, <1>3, FS_AddElement

\* The counts of a store.
LEMMA CountsTyped ==
  ASSUME NEW s, Typed(s), BooksTyped(s)
  PROVE  Wasted(s) \in Int /\ SumOf(s.sponsored) \in Nat
<1>1. Cardinality(Freed(s)) \in Nat
  BY FreedIsFinite
<1>2. SumOf(s.sponsored) \in Nat
  <2>1. CASE Accounts = {}
    <3>1. s.sponsored = [x \in Accounts |-> 0]
      BY <2>1 DEF BooksTyped
    <3>2. SumOf(s.sponsored) = 0
      BY <3>1, AccountsAssumption, SumOfZeros
    <3> QED BY <3>2
  <2>2. ASSUME NEW a \in Accounts PROVE SumOf(s.sponsored) \in Nat
    <3>1. s.sponsored \in [Accounts -> Nat]
      BY DEF BooksTyped
    <3>2. PICK g : g = [s.sponsored EXCEPT ![a] = @ + 1]
      OBVIOUS
    <3> QED BY <3>1, <3>2, AccountsAssumption, SumOfOneMore
  <2> QED BY <2>1, <2>2
<1> QED BY <1>1, <1>2 DEF Wasted

LEMMA SameCounts ==
  ASSUME NEW s, NEW t, t.sponsored = s.sponsored, t.freeOf = s.freeOf
  PROVE  Wasted(t) = Wasted(s)
BY DEF Wasted, Freed

LEMMA AllocationsKept ==
  ASSUME IInv, TInv, AInv, [Next]_vars
  PROVE  AInv'
<1>1. /\ Typed(store) /\ BooksTyped(store) /\ Wasted(store) \in Int /\ Wasted(disk) \in Int
      /\ crashes \in Nat
  BY CountsTyped, SizesAssumption DEF IInv, TInv, Consistent
<1>2. CASE PlainStep
  <2>1. Wasted(store') = Wasted(store)
    BY <1>2, SameCounts DEF PlainStep, Plain, SameBook
  <2>2. /\ disk' = disk \/ disk' = store'
        /\ crashes' = crashes /\ (Paying(todo') <=> Paying(todo))
    BY <1>2 DEF PlainStep
  <2>3. Wasted(disk') = Wasted(disk) \/ Wasted(disk') = Wasted(store)
    BY <2>1, <2>2
  <2> QED BY <1>1, <2>1, <2>2, <2>3 DEF AInv
<1>3. ASSUME NEW a \in Accounts, NEW p \in AwardInputs \cup {CyclePoints}, CreditStep(a, p)
      PROVE  AInv'
  <2>1. /\ store' = WithPoints(store, a, p) /\ disk' = store' /\ crashes' = crashes
        /\ ~Paying(todo') /\ ~Paying(todo)
    BY <1>3 DEF CreditStep, Awarding, Paying
  <2>2. store'.sponsored = store.sponsored /\ store'.freeOf = store.freeOf
    <3>1. PICK total : total = AsI32(store.points[a] + AsI32(p))
      OBVIOUS
    <3>2. PICK old : old = CardsOf(store.points[a])
      OBVIOUS
    <3>3. PICK more : more = Completed(old, CardsOf(total))
      OBVIOUS
    <3>4. PointsBooked(store, a, store', total, old, more)
      BY <1>1, <2>1, <3>1, <3>2, <3>3, PointsBook
    <3> QED BY <3>4 DEF PointsBooked
  <2>3. Wasted(store') = Wasted(store) /\ Wasted(disk') = Wasted(store)
    BY <2>1, <2>2, SameCounts
  <2> QED BY <1>1, <2>1, <2>3 DEF AInv
<1>4. ASSUME NEW p \in Accounts, CountStep(p) PROVE AInv'
  <2>1. /\ store' = Counted(store, p) /\ disk' = store' /\ crashes' = crashes
        /\ Paying(todo') /\ ~Paying(todo)
    BY <1>4 DEF CountStep
  <2>2. /\ store'.graduated = store.graduated /\ store'.freeOf = store.freeOf
        /\ store'.accounts = store.accounts /\ store'.matrices = store.matrices
        /\ store'.sponsored = [store.sponsored EXCEPT ![p] = @ + 1]
    <3>1. CountBooked(store, p, store')
      BY <1>1, <2>1, CountedBook
    <3> QED BY <3>1 DEF CountBooked
  <2>3. PICK g : g = [store.sponsored EXCEPT ![p] = @ + 1]
    OBVIOUS
  <2>4. SumOf(g) = SumOf(store.sponsored) + 1 /\ SumOf(store.sponsored) \in Nat
    <3>1. PICK f \in [Accounts -> Nat] : f = store.sponsored
      BY <1>1 DEF BooksTyped
    <3>2. g = [f EXCEPT ![p] = @ + 1]
      BY <2>3, <3>1
    <3>3. SumOf(f) \in Nat /\ SumOf(g) = SumOf(f) + 1
      BY <3>2, AccountsAssumption, SumOfOneMore
    <3> QED BY <3>1, <3>3
  <2>5. Freed(store') = Freed(store) /\ Cardinality(Freed(store)) \in Nat
    <3>1. Freed(store') = Freed(store)
      BY <2>2 DEF Freed
    <3> QED BY <1>1, <3>1, FreedIsFinite
  <2>6. Wasted(store') = Wasted(store) + 1 /\ Wasted(disk') = Wasted(store) + 1
    BY <2>1, <2>2, <2>3, <2>4, <2>5 DEF Wasted
  <2> QED BY <1>1, <2>1, <2>6 DEF AInv
<1>5. ASSUME NEW a \in Accounts, NEW new \in FreshIds, FreeStep(a, new) PROVE AInv'
  <2>1. /\ store'.sponsored = store.sponsored /\ disk' = disk /\ crashes' = crashes
        /\ store'.freeOf = [store.freeOf EXCEPT ![a] = @ \cup {new}]
        /\ Paying(todo) /\ ~Paying(todo')
    BY <1>5 DEF FreeStep, SameBook
  <2>2. new \notin store.accounts
    BY DEF FreshIds
  <2>3. Cardinality(Freed(store')) = Cardinality(Freed(store)) + 1
    BY <1>1, <2>1, <2>2, OneMoreFreed
  <2>4. Wasted(store') = Wasted(store) - 1
    <3>1. Cardinality(Freed(store)) \in Nat
      BY <1>1, FreedIsFinite
    <3>2. Wasted(store') = SumOf(store.sponsored) - (Cardinality(Freed(store)) + 1)
      BY <2>1, <2>3 DEF Wasted
    <3>3. SumOf(store.sponsored) \in Nat
      BY <1>1, CountsTyped
    <3> QED BY <3>1, <3>2, <3>3 DEF Wasted
  <2> QED BY <1>1, <2>1, <2>4 DEF AInv
<1>6. CASE Crash
  <2>1. store' = disk /\ disk' = disk /\ crashes' = crashes + 1 /\ ~Paying(todo')
    BY <1>6 DEF Crash, Paying
  <2> QED BY <1>1, <2>1 DEF AInv
<1>7. ASSUME NEW a \in FreshIds \cup UserIds, StartStep(a) PROVE AInv'
  <2>1. /\ store' = SignedUp(store, a) /\ disk' = disk /\ crashes' = crashes
        /\ ~Paying(todo) /\ ~Paying(todo')
    BY <1>7 DEF StartStep
  <2>2. a \in Accounts
    BY <1>1 DEF FreshIds, UserIds, Typed
  <2>3. store'.sponsored = store.sponsored /\ store'.freeOf = store.freeOf
    <3>1. SignUpBooked(store, a, store') /\ store'.freeOf = store.freeOf
      BY <1>1, <2>1, <2>2, SignedUpChange
    <3> QED BY <3>1 DEF SignUpBooked
  <2>4. Wasted(store') = Wasted(store)
    BY <2>3, SameCounts
  <2> QED BY <1>1, <2>1, <2>4 DEF AInv
<1> QED BY <1>2, <1>3, <1>4, <1>5, <1>6, <1>7, EveryStep

LEMMA NoAllocationsInitially == Init => AInv
<1> SUFFICES ASSUME Init PROVE AInv
  OBVIOUS
<1>1. store = EmptyStore /\ disk = EmptyStore /\ crashes = 0 /\ ~Paying(todo)
  BY DEF Init, Paying
<1>2. SumOf(EmptyStore.sponsored) = 0
  BY AccountsAssumption, SumOfZeros DEF EmptyStore
<1>3. Freed(EmptyStore) = {}
  BY DEF Freed, EmptyStore
<1>4. Wasted(EmptyStore) = 0
  BY <1>2, <1>3, FS_EmptySet DEF Wasted
<1>5. Wasted(store) = 0 /\ Wasted(disk) = 0
  BY <1>1, <1>4
<1>6. Wasted(store) - 0 \in 0..crashes /\ Wasted(disk) \in 0..(crashes + 1)
  BY <1>1, <1>5
<1>7. (IF Paying(todo) THEN 1 ELSE 0) = 0
  BY <1>1
<1> QED BY <1>6, <1>7 DEF AInv

\* Every allocation of a sponsor is for one free account, except that a crash
\* between the save of the allocation (allocate_sponsor) and that of the
\* account (check_and_spawn_free_account) loses it: at rest no more than one
\* for every crash.
THEOREM AllocationsAreSpent == Spec => []AllocationsMatchSpawns
<1>1. Init => AInv
  BY NoAllocationsInitially
<1>2. IInv /\ TInv /\ AInv /\ [Next]_vars => AInv'
  BY AllocationsKept
<1>3. IInv /\ TInv /\ AInv => AllocationsMatchSpawns
  <2> SUFFICES ASSUME IInv, TInv, AInv, AtRest PROVE Wasted(store) \in 0..crashes
    BY DEF AllocationsMatchSpawns, Wasted, Freed, SumOf
  <2>1. ~Paying(todo)
    BY DEF AtRest, Paying
  <2>2. Wasted(store) \in Int
    BY CountsTyped DEF IInv, Consistent, TInv
  <2> QED BY <2>1, <2>2 DEF AInv
<1> QED BY <1>1, <1>2, <1>3, BooksInvariant, PTL DEF Spec
==============================================================================
