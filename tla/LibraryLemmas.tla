--------------------------- MODULE LibraryLemmas ---------------------------
(***************************************************************************)
(* What the library operators of the models return.  A fact that needs     *)
(* induction is proved with the least natural number at which it fails:    *)
(* a set of natural numbers that is not empty has a minimum, and the set   *)
(* is given by the formula, where the library would take a predicate.      *)
(***************************************************************************)
EXTENDS Integers, FiniteSetsExt, FiniteSetTheorems, WellFoundedInduction, TLAPS

LEMMA LessIsWellFounded ==
  \E R : /\ IsWellFoundedOn(R, Nat)
         /\ \A x, y \in Nat : <<y, x>> \in R <=> y < x
<1>1. IsWellFoundedOn(OpToRel(<, Nat), Nat)
  BY NatLessThanWellFounded
<1>2. \A x, y \in Nat : <<y, x>> \in OpToRel(<, Nat) <=> y < x
  BY DEF OpToRel
<1>. QED
  BY <1>1, <1>2

LEMMA MinimumOfNaturals ==
  ASSUME NEW S, S \subseteq Nat, S # {}
  PROVE  Min(S) \in S /\ \A y \in S : Min(S) <= y
<1>1. PICK R : /\ IsWellFoundedOn(R, Nat)
               /\ \A x, y \in Nat : <<y, x>> \in R <=> y < x
  BY LessIsWellFounded
<1>2. PICK x \in S : \A y \in S : ~ (<<y, x>> \in R)
  BY <1>1, WFMin
<1>3. \A y \in S : x <= y
  <2>. TAKE y \in S
  <2>1. x \in Nat /\ y \in Nat /\ ~(y < x)
    BY <1>1, <1>2
  <2>. QED
    BY <2>1
<1>. QED
  BY <1>3 DEF Min

-----------------------------------------------------------------------------
(* MapThenSumSet, of the amounts that the orders of a set have filled      *)

FilledBy(os, S) == MapThenSumSet(LAMBDA o : os[o].filled, S)

Some(S) == CHOOSE x \in S : TRUE

LEMMA SomeIsIn == ASSUME NEW S, S # {} PROVE Some(S) \in S
BY DEF Some

\* The equation that defines the sum, g, of the subsets D of a set.
SumsUp(g, os, D) ==
  \A s \in D : g[s] = IF s = {} THEN 0
                      ELSE os[Some(s)].filled + g[s \ {Some(s)}]

UpTo(S, n) == {s \in SUBSET S : Cardinality(s) <= n}

LEMMA OneLess ==
  ASSUME NEW S, IsFiniteSet(S), NEW n \in Nat, NEW s \in UpTo(S, n), s # {}
  PROVE  /\ n > 0 /\ Some(s) \in s /\ s \ {Some(s)} \in UpTo(S, n - 1)
<1>1. Some(s) \in s /\ IsFiniteSet(s) /\ s \subseteq S /\ Cardinality(s) <= n
  BY SomeIsIn, FS_Subset DEF UpTo
<1>2. Cardinality(s) \in Nat /\ Cardinality(s) # 0
  BY <1>1, FS_CardinalityType, FS_EmptySet
<1>3. Cardinality(s \ {Some(s)}) = Cardinality(s) - 1
  BY <1>1, FS_RemoveElement
<1>. QED
  BY <1>1, <1>2, <1>3 DEF UpTo

LEMMA SumExists ==
  ASSUME NEW os, NEW S, IsFiniteSet(S), NEW n \in Nat
  PROVE  \E g : DOMAIN g = UpTo(S, n) /\ SumsUp(g, os, UpTo(S, n))
<1>. DEFINE Has(m) == \E g : DOMAIN g = UpTo(S, m) /\ SumsUp(g, os, UpTo(S, m))
            lacking == {m \in Nat : ~Has(m)}
<1>1. SUFFICES ASSUME lacking # {} PROVE FALSE
  OBVIOUS
<1>2. PICK m \in lacking : \A k \in lacking : m <= k
  BY <1>1, MinimumOfNaturals
<1>3. m = 0 \/ Has(m - 1)
  <2>. HIDE DEF Has
  <2>. QED
    BY <1>2
<1>4. PICK g : m > 0 => SumsUp(g, os, UpTo(S, m - 1))
  BY <1>3
<1>. DEFINE new == [s \in UpTo(S, m) |->
                      IF s = {} THEN 0
                      ELSE os[Some(s)].filled + g[s \ {Some(s)}]]
<1>5. ASSUME NEW s \in UpTo(S, m)
      PROVE  new[s] = IF s = {} THEN 0
                      ELSE os[Some(s)].filled + new[s \ {Some(s)}]
  <2>1. CASE s = {}
    BY <2>1
  <2>2. CASE s # {}
    <3>. DEFINE rest == s \ {Some(s)}
    <3>1. m > 0 /\ rest \in UpTo(S, m - 1) /\ rest \in UpTo(S, m)
      <4>1. m > 0 /\ rest \in UpTo(S, m - 1)
        BY <1>2, <2>2, OneLess
      <4>2. IsFiniteSet(rest) /\ Cardinality(rest) \in Nat
        BY <4>1, FS_Subset, FS_CardinalityType DEF UpTo
      <4>. QED
        BY <1>2, <4>1, <4>2 DEF UpTo
    <3>2. g[rest] = new[rest]
      BY <1>4, <3>1 DEF SumsUp
    <3>. QED
      BY <2>2, <3>2
  <2>. QED
    BY <2>1, <2>2
<1>6. Has(m)
  <2>1. DOMAIN new = UpTo(S, m)
    OBVIOUS
  <2>. HIDE DEF new
  <2>. QED
    BY <1>5, <2>1 DEF SumsUp
<1>. QED
  BY <1>2, <1>6

\* The sum is the value of a function that satisfies its equation.
LEMMA SumSatisfies ==
  ASSUME NEW os, NEW S, IsFiniteSet(S)
  PROVE  \E g : SumsUp(g, os, SUBSET S) /\ FilledBy(os, S) = g[S]
<1>. DEFINE Sums(g) == g = [s \in SUBSET S |->
                              IF s = {} THEN 0
                              ELSE os[Some(s)].filled + g[s \ {Some(s)}]]
            iter == CHOOSE g : Sums(g)
<1>1. \E g : Sums(g)
  <2>1. Cardinality(S) \in Nat /\ UpTo(S, Cardinality(S)) = SUBSET S
    <3>1. Cardinality(S) \in Nat
      BY FS_CardinalityType
    <3>2. \A s \in SUBSET S : Cardinality(s) <= Cardinality(S)
      BY FS_Subset
    <3>. QED
      BY <3>1, <3>2 DEF UpTo
  <2>2. PICK g : /\ DOMAIN g = UpTo(S, Cardinality(S))
                 /\ SumsUp(g, os, UpTo(S, Cardinality(S)))
    BY <2>1, SumExists
  <2>. DEFINE all == [s \in SUBSET S |-> g[s]]
  <2>3. ASSUME NEW s \in SUBSET S
        PROVE  all[s] = IF s = {} THEN 0
                        ELSE os[Some(s)].filled + all[s \ {Some(s)}]
    <3>1. s \ {Some(s)} \in SUBSET S
      OBVIOUS
    <3>. QED
      BY <2>1, <2>2, <3>1 DEF SumsUp
  <2>4. DOMAIN all = SUBSET S /\ all = [s \in SUBSET S |-> all[s]]
    OBVIOUS
  <2>. HIDE DEF all
  <2>5. [s \in SUBSET S |-> all[s]]
          = [s \in SUBSET S |-> IF s = {} THEN 0
                                ELSE os[Some(s)].filled + all[s \ {Some(s)}]]
    BY <2>3
  <2>6. Sums(all)
    BY <2>4, <2>5
  <2>. QED
    BY <2>6
<1>2. Sums(iter)
  <2>. HIDE DEF Sums
  <2>. QED
    BY <1>1
<1>3. SumsUp(iter, os, SUBSET S)
  <2>. HIDE DEF iter
  <2>. QED
    BY <1>2 DEF SumsUp
<1>4. FilledBy(os, S) = iter[S]
  BY DEF FilledBy, MapThenSumSet, MapThenFoldSet, Some
<1>. QED
  BY <1>3, <1>4

\* A sum of amounts is as large as any of them, and as any two of them.
LEMMA SumOfTwo ==
  ASSUME NEW os, NEW S, IsFiniteSet(S), \A o \in S : os[o].filled \in Nat
  PROVE  /\ FilledBy(os, S) \in Nat
         /\ \A a \in S : os[a].filled <= FilledBy(os, S)
         /\ \A a, b \in S :
              a # b => os[a].filled + os[b].filled <= FilledBy(os, S)
<1>. PICK g : SumsUp(g, os, SUBSET S) /\ FilledBy(os, S) = g[S]
  BY SumSatisfies
<1>. DEFINE Large(s) == /\ g[s] \in Nat
                        /\ \A a \in s : os[a].filled <= g[s]
                        /\ \A a, b \in s : a # b =>
                             os[a].filled + os[b].filled <= g[s]
            small == {n \in Nat : \E s \in UpTo(S, n) : ~Large(s)}
<1>1. small = {}
  <2>1. SUFFICES ASSUME small # {} PROVE FALSE
    OBVIOUS
  <2>2. PICK m \in small : \A n \in small : m <= n
    BY <2>1, MinimumOfNaturals
  <2>3. PICK s \in UpTo(S, m) : ~Large(s)
    <3>. HIDE DEF Large
    <3>. QED
      BY <2>2
  <2>4. s \in SUBSET S /\ m \in Nat
    BY <2>2 DEF UpTo
  <2>5. CASE s = {}
    <3>1. g[s] = 0
      BY <2>4, <2>5 DEF SumsUp
    <3>. QED
      BY <2>3, <2>5, <3>1
  <2>6. CASE s # {}
    <3>. DEFINE x == Some(s)
                rest == s \ {x}
    <3>1. m > 0 /\ x \in s /\ rest \in UpTo(S, m - 1)
      BY <2>4, <2>6, OneLess
    <3>2. Large(rest)
      <4>. HIDE DEF Large, x, rest
      <4>1. m - 1 \in Nat /\ ~(m <= m - 1)
        BY <2>4, <3>1
      <4>2. m - 1 \notin small
        BY <2>2, <4>1
      <4>. QED
        BY <3>1, <4>1, <4>2
    <3>3. g[s] = os[x].filled + g[rest] /\ os[x].filled \in Nat
      BY <2>4, <2>6, <3>1 DEF SumsUp
    <3>4. \A a \in s : a = x \/ a \in rest
      OBVIOUS
    <3>. HIDE DEF x, rest
    <3>5. \A a \in s : os[a].filled \in Nat
      BY <2>4
    <3>6. g[s] \in Nat /\ \A a \in s : os[a].filled <= g[s]
      BY <3>2, <3>3, <3>4, <3>5
    <3>7. \A a, b \in s : a # b => os[a].filled + os[b].filled <= g[s]
      BY <3>2, <3>3, <3>4, <3>5
    <3>. QED
      BY <2>3, <3>6, <3>7
  <2>. QED
    BY <2>5, <2>6
<1>2. Large(S)
  <2>1. Cardinality(S) \in Nat /\ S \in UpTo(S, Cardinality(S))
    BY FS_CardinalityType DEF UpTo
  <2>. HIDE DEF Large
  <2>. QED
    BY <1>1, <2>1
<1>. QED
  BY <1>2
=============================================================================
