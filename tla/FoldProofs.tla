----------------------------- MODULE FoldProofs -----------------------------
(***************************************************************************)
(* What the recursive operators the models use compute for every input:    *)
(* SumFunction of Functions, which adds up a function by a recursion over  *)
(* the subsets of its domain, and FlattenSeq of SequencesExt.  Induction   *)
(* is by the smallest number that does not have the property, which a      *)
(* non-empty set of numbers has.                                           *)
(***************************************************************************)
EXTENDS SequencesExt, FiniteSetTheorems, TLAPS

\* A non-empty set of natural numbers has a smallest element.
LEMMA Least ==
  ASSUME NEW T \in SUBSET Nat, T # {}
  PROVE  \E n \in T : \A m \in T : n <= m
<1> DEFINE Below == OpToRel(<, Nat)
<1>1. IsWellFoundedOn(Below, Nat)
  BY NatLessThanWellFounded
<1>2. PICK n \in T : \A m \in T : <<m, n>> \notin Below
  <2> HIDE DEF Below
  <2> QED
    BY <1>1, WFMin, Zenon
<1>3. ASSUME NEW m \in T PROVE n <= m
  <2>1. <<m, n>> \notin Below
    BY <1>2
  <2>2. ~(m < n)
    BY <2>1 DEF OpToRel
  <2> QED
    BY <2>2
<1> QED
  BY <1>3

\* A set of numbers that has 0, and n + 1 with n, has all of them.
LEMMA Induction ==
  ASSUME NEW T, 0 \in T, \A n \in Nat : n \in T => n + 1 \in T
  PROVE  Nat \subseteq T
<1> DEFINE Rest == Nat \ T
<1> SUFFICES ASSUME Rest # {} PROVE FALSE
  OBVIOUS
<1>1. PICK n \in Rest : \A m \in Rest : n <= m
  <2> HIDE DEF Rest
  <2>1. Rest \in SUBSET Nat
    BY DEF Rest
  <2> QED
    BY <2>1, Least
<1>2. n # 0 /\ n \in Nat
  OBVIOUS
<1>3. n - 1 \in Nat /\ n - 1 \notin Rest
  BY <1>1, <1>2
<1> QED
  BY <1>2, <1>3
-----------------------------------------------------------------------------
Some(s) == CHOOSE x \in s : TRUE

\* One step of the recursion.
SumStep(fun, iter, s) == IF s = {} THEN 0 ELSE fun[Some(s)] + iter[s \ {Some(s)}]

LEMMA SomeIsIn == ASSUME NEW s, s # {} PROVE Some(s) \in s
BY DEF Some

LEMMA SumIsRecursive ==
  ASSUME NEW fun
  PROVE  SumFunction(fun) =
           (CHOOSE iter : iter = [s \in SUBSET DOMAIN fun |-> SumStep(fun, iter, s)])[DOMAIN fun]
BY DEF SumFunction, SumFunctionOnSet, FoldFunctionOnSet, MapThenFoldSet, SumStep, Some

\* The recursion has a solution, since it only removes elements.
LEMMA SumExists ==
  ASSUME NEW fun, IsFiniteSet(DOMAIN fun)
  PROVE  \E iter : iter = [s \in SUBSET DOMAIN fun |-> SumStep(fun, iter, s)]
<1> DEFINE D == DOMAIN fun
           Solves(iter, n) == \A s \in SUBSET D :
                                Cardinality(s) <= n => iter[s] = SumStep(fun, iter, s)
           Good == {n \in Nat : \E iter : Solves(iter, n)}
<1>1. \A s \in SUBSET D : IsFiniteSet(s) /\ Cardinality(s) \in Nat
                         /\ Cardinality(s) <= Cardinality(D)
                         /\ (Cardinality(s) = 0 <=> s = {})
  BY FS_Subset, FS_CardinalityType, FS_EmptySet
<1>2. 0 \in Good
  <2> DEFINE g == [s \in SUBSET D |-> 0]
  <2>1. Solves(g, 0)
    BY <1>1 DEF SumStep
  <2> HIDE DEF Solves, g
  <2> QED
    BY <2>1
<1>3. ASSUME NEW n \in Nat, n \in Good PROVE n + 1 \in Good
  <2>1. PICK f : Solves(f, n)
    BY <1>3
  <2> DEFINE g == [s \in SUBSET D |-> IF Cardinality(s) <= n THEN f[s]
                                      ELSE SumStep(fun, f, s)]
  <2>2. ASSUME NEW s \in SUBSET D, Cardinality(s) <= n + 1
        PROVE  g[s] = SumStep(fun, g, s)
    <3>1. g[s] = SumStep(fun, f, s)
      BY <2>1
    <3>2. CASE s = {}
      BY <3>1, <3>2 DEF SumStep
    <3>3. CASE s # {}
      <4> DEFINE r == s \ {Some(s)}
      <4>1. r \in SUBSET D /\ Cardinality(r) = Cardinality(s) - 1
        BY <1>1, <3>3, SomeIsIn, FS_RemoveElement
      <4>2. Cardinality(r) <= n
        BY <1>1, <2>2, <4>1
      <4>3. g[r] = f[r]
        BY <4>1, <4>2
      <4> HIDE DEF g
      <4> QED
        BY <3>1, <3>3, <4>3 DEF SumStep
    <3> QED
      BY <3>2, <3>3
  <2>3. Solves(g, n + 1)
    BY <2>2
  <2> HIDE DEF Solves, g
  <2> QED
    BY <2>3
<1>4. Cardinality(D) \in Good
  <2> HIDE DEF Good
  <2> QED
    BY <1>1, <1>2, <1>3, Induction
<1>5. PICK f : Solves(f, Cardinality(D))
  BY <1>4
<1> DEFINE g == [s \in SUBSET D |-> f[s]]
<1>6. ASSUME NEW s \in SUBSET D PROVE g[s] = SumStep(fun, g, s)
  <2>1. f[s] = SumStep(fun, f, s)
    BY <1>1, <1>5
  <2>2. CASE s = {}
    BY <2>1, <2>2 DEF SumStep
  <2>3. CASE s # {}
    BY <2>1, <2>3 DEF SumStep
  <2> QED
    BY <2>2, <2>3
<1>7. g = [s \in SUBSET D |-> SumStep(fun, g, s)]
  BY <1>6
<1> QED
  BY <1>7

\* What a solution gives for a set depends on the set and the values in it only.
Solution(iter, fun, D) == \A s \in SUBSET D : iter[s] = SumStep(fun, iter, s)

LEMMA SolutionsAgree ==
  ASSUME NEW D, IsFiniteSet(D), NEW fun, NEW gun, \A x \in D : fun[x] = gun[x],
         NEW f, NEW g, Solution(f, fun, D), Solution(g, gun, D)
  PROVE  f[D] = g[D]
<1> DEFINE Good == {n \in Nat : \A s \in SUBSET D : Cardinality(s) <= n => f[s] = g[s]}
<1>1. \A s \in SUBSET D : IsFiniteSet(s) /\ Cardinality(s) \in Nat
                         /\ (Cardinality(s) = 0 <=> s = {})
  BY FS_Subset, FS_CardinalityType, FS_EmptySet
<1>2. 0 \in Good
  <2>1. f[{}] = 0 /\ g[{}] = 0
    BY DEF Solution, SumStep
  <2>2. ASSUME NEW s \in SUBSET D, Cardinality(s) <= 0 PROVE s = {}
    BY <1>1, <2>2
  <2> QED
    BY <2>1, <2>2
<1>3. ASSUME NEW n \in Nat, n \in Good PROVE n + 1 \in Good
  <2> SUFFICES ASSUME NEW s \in SUBSET D, Cardinality(s) <= n + 1
               PROVE  f[s] = g[s]
    OBVIOUS
  <2>1. f[s] = SumStep(fun, f, s) /\ g[s] = SumStep(gun, g, s)
    BY DEF Solution
  <2>2. CASE s = {}
    BY <2>1, <2>2 DEF SumStep
  <2>3. CASE s # {}
    <3> DEFINE r == s \ {Some(s)}
    <3>1. Some(s) \in D /\ r \in SUBSET D /\ Cardinality(r) = Cardinality(s) - 1
      BY <1>1, <2>3, SomeIsIn, FS_RemoveElement
    <3>2. f[r] = g[r]
      BY <1>1, <1>3, <3>1
    <3>3. fun[Some(s)] = gun[Some(s)]
      BY <3>1
    <3> QED
      BY <2>1, <2>3, <3>2, <3>3 DEF SumStep
  <2> QED
    BY <2>2, <2>3
<1>4. Cardinality(D) \in Good
  <2> HIDE DEF Good
  <2> QED
    BY <1>1, <1>2, <1>3, Induction
<1> QED
  BY <1>1, <1>4

\* The elements may be taken in any order.
LEMMA AnyElementFirst ==
  ASSUME NEW D, IsFiniteSet(D), NEW fun, \A x \in D : fun[x] \in Int,
         NEW f, Solution(f, fun, D)
  PROVE  /\ f[{}] = 0
         /\ f[D] \in Int
         /\ \A x \in D : f[D] = fun[x] + f[D \ {x}]
<1> DEFINE Good == {n \in Nat : \A s \in SUBSET D : Cardinality(s) <= n =>
                      f[s] \in Int /\ \A x \in s : f[s] = fun[x] + f[s \ {x}]}
<1>1. \A s \in SUBSET D : IsFiniteSet(s) /\ Cardinality(s) \in Nat
                         /\ (Cardinality(s) = 0 <=> s = {})
  BY FS_Subset, FS_CardinalityType, FS_EmptySet
<1>2. f[{}] = 0
  BY DEF Solution, SumStep
<1>3. 0 \in Good
  BY <1>1, <1>2
<1>4. ASSUME NEW n \in Nat, n \in Good PROVE n + 1 \in Good
  <2> SUFFICES ASSUME NEW s \in SUBSET D, Cardinality(s) <= n + 1
               PROVE  f[s] \in Int /\ \A x \in s : f[s] = fun[x] + f[s \ {x}]
    OBVIOUS
  <2>1. CASE s = {}
    BY <1>2, <2>1
  <2>2. CASE s # {}
    <3> DEFINE y == Some(s)
    <3>1. y \in s /\ f[s] = fun[y] + f[s \ {y}]
      BY <2>2, SomeIsIn DEF Solution, SumStep
    <3>2. ASSUME NEW x \in s
          PROVE  /\ s \ {x} \in SUBSET D /\ Cardinality(s \ {x}) <= n
                 /\ f[s \ {x}] \in Int
      <4>1. s \ {x} \in SUBSET D /\ Cardinality(s \ {x}) = Cardinality(s) - 1
        BY <1>1, FS_RemoveElement
      <4>2. Cardinality(s \ {x}) <= n
        BY <1>1, <4>1
      <4> QED
        BY <1>4, <4>1, <4>2
    <3>3. f[s] \in Int
      BY <3>1, <3>2
    <3>4. ASSUME NEW x \in s, x # y
          PROVE  f[s] = fun[x] + f[s \ {x}]
      <4> DEFINE rest == (s \ {y}) \ {x}
      <4>1. rest = (s \ {x}) \ {y} /\ y \in s \ {x} /\ x \in s \ {y}
        BY <3>1, <3>4
      <4>2. f[s \ {y}] = fun[x] + f[rest]
        BY <1>4, <3>1, <3>2, <4>1
      <4>3. f[s \ {x}] = fun[y] + f[rest]
        BY <1>4, <3>1, <3>2, <4>1
      <4>4. f[rest] \in Int /\ fun[x] \in Int /\ fun[y] \in Int
        <5>1. rest \in SUBSET D /\ Cardinality(rest) <= n
          <6>1. IsFiniteSet(s \ {y}) /\ Cardinality(s \ {y}) <= n /\ Cardinality(s \ {y}) \in Nat
            BY <1>1, <3>1, <3>2
          <6>2. Cardinality(rest) <= Cardinality(s \ {y}) /\ Cardinality(rest) \in Nat
            BY <6>1, FS_Subset, FS_CardinalityType
          <6> QED
            BY <6>1, <6>2
        <5> QED
          BY <1>4, <3>1, <5>1
      <4> HIDE DEF rest, y
      <4> QED
        BY <3>1, <4>2, <4>3, <4>4
    <3> QED
      BY <3>1, <3>3, <3>4
  <2> QED
    BY <2>1, <2>2
<1>5. Cardinality(D) \in Good
  <2> HIDE DEF Good
  <2> QED
    BY <1>1, <1>3, <1>4, Induction
<1> QED
  BY <1>1, <1>2, <1>5
-----------------------------------------------------------------------------
LEMMA SumSolves ==
  ASSUME NEW fun, IsFiniteSet(DOMAIN fun)
  PROVE  \E f : Solution(f, fun, DOMAIN fun) /\ SumFunction(fun) = f[DOMAIN fun]
<1> DEFINE Recursive(f) == f = [s \in SUBSET DOMAIN fun |-> SumStep(fun, f, s)]
           f == CHOOSE iter : Recursive(iter)
<1>1. Recursive(f)
  <2>1. \E iter : Recursive(iter)
    BY SumExists
  <2> HIDE DEF Recursive
  <2> QED
    BY <2>1
<1>2. SumFunction(fun) = f[DOMAIN fun]
  BY SumIsRecursive
<1> HIDE DEF f
<1>3. Solution(f, fun, DOMAIN fun)
  BY <1>1 DEF Solution
<1> QED
  BY <1>2, <1>3

\* The sum of no values is 0.
LEMMA SumOfNone ==
  ASSUME NEW fun, DOMAIN fun = {}
  PROVE  SumFunction(fun) = 0
<1>1. IsFiniteSet(DOMAIN fun)
  BY FS_EmptySet
<1>2. PICK f : Solution(f, fun, DOMAIN fun) /\ SumFunction(fun) = f[DOMAIN fun]
  BY <1>1, SumSolves
<1> QED
  BY <1>2 DEF Solution, SumStep

\* The sum of some is any of them and the sum of the others.
LEMMA SumSplits ==
  ASSUME NEW fun, IsFiniteSet(DOMAIN fun), \A x \in DOMAIN fun : fun[x] \in Int
  PROVE  /\ SumFunction(fun) \in Int
         /\ \A x \in DOMAIN fun :
              SumFunction(fun) = fun[x] + SumFunction([y \in DOMAIN fun \ {x} |-> fun[y]])
<1> DEFINE D == DOMAIN fun
<1>1. PICK f : Solution(f, fun, D) /\ SumFunction(fun) = f[D]
  BY SumSolves
<1>2. /\ f[D] \in Int
      /\ \A x \in D : f[D] = fun[x] + f[D \ {x}]
  <2>1. IsFiniteSet(D) /\ \A x \in D : fun[x] \in Int
    OBVIOUS
  <2> HIDE DEF D
  <2> QED
    <3>1. Solution(f, fun, D)
      BY <1>1
    <3>2. f[D] \in Int
      BY <2>1, <3>1, AnyElementFirst
    <3>3. \A x \in D : f[D] = fun[x] + f[D \ {x}]
      BY <2>1, <3>1, AnyElementFirst
    <3> QED
      BY <3>2, <3>3
<1>3. ASSUME NEW x \in D
      PROVE  f[D \ {x}] = SumFunction([y \in D \ {x} |-> fun[y]])
  <2> DEFINE E == D \ {x}
             gun == [y \in E |-> fun[y]]
  <2>1. DOMAIN gun = E /\ IsFiniteSet(E)
    BY FS_RemoveElement
  <2>2. PICK g : Solution(g, gun, E) /\ SumFunction(gun) = g[E]
    BY <2>1, SumSolves
  <2>3. Solution(f, fun, E)
    BY <1>1 DEF Solution
  <2>4. \A y \in E : fun[y] = gun[y]
    OBVIOUS
  <2>5. f[E] = g[E]
    <3> HIDE DEF E, gun
    <3> QED
      BY <2>1, <2>2, <2>3, <2>4, SolutionsAgree
  <2> QED
    BY <2>2, <2>5
<1> QED
  BY <1>1, <1>2, <1>3

\* The sum of the first n values is that of the first n - 1 and the last.
LEMMA SumUpTo ==
  ASSUME NEW n \in Nat, n > 0, NEW fun, DOMAIN fun = 1 .. n,
         \A j \in 1 .. n : fun[j] \in Int
  PROVE  SumFunction(fun) = SumFunction([j \in 1 .. n - 1 |-> fun[j]]) + fun[n]
<1>1. IsFiniteSet(1 .. n) /\ IsFiniteSet(1 .. n - 1)
  BY FS_Interval
<1>2. (1 .. n) \ {n} = 1 .. n - 1
  OBVIOUS
<1>3. SumFunction(fun) = fun[n] + SumFunction([j \in 1 .. n - 1 |-> fun[j]])
  <2>1. /\ IsFiniteSet(DOMAIN fun) /\ n \in DOMAIN fun
        /\ \A x \in DOMAIN fun : fun[x] \in Int
    BY <1>1
  <2>2. SumFunction(fun) = fun[n] + SumFunction([y \in DOMAIN fun \ {n} |-> fun[y]])
    BY <2>1, SumSplits
  <2>3. [y \in DOMAIN fun \ {n} |-> fun[y]] = [j \in 1 .. n - 1 |-> fun[j]]
    BY <1>2
  <2> QED
    BY <2>2, <2>3
<1>4. SumFunction([j \in 1 .. n - 1 |-> fun[j]]) \in Int
  BY <1>1, SumSplits
<1> QED
  BY <1>3, <1>4

\* A sum of natural numbers is one, and no less than any of them.
LEMMA SumOfNaturals ==
  ASSUME NEW fun, IsFiniteSet(DOMAIN fun), \A x \in DOMAIN fun : fun[x] \in Nat
  PROVE  /\ SumFunction(fun) \in Nat
         /\ \A x \in DOMAIN fun : fun[x] <= SumFunction(fun)
<1> DEFINE D == DOMAIN fun
           Part(s) == [y \in s |-> fun[y]]
           Good == {n \in Nat : \A s \in SUBSET D : Cardinality(s) <= n =>
                      SumFunction(Part(s)) \in Nat}
<1>1. \A s \in SUBSET D : IsFiniteSet(s) /\ Cardinality(s) \in Nat
                         /\ (Cardinality(s) = 0 <=> s = {})
  BY FS_Subset, FS_CardinalityType, FS_EmptySet
<1>2. ASSUME NEW s \in SUBSET D, NEW x \in s
      PROVE  SumFunction(Part(s)) = fun[x] + SumFunction(Part(s \ {x}))
  <2>1. DOMAIN Part(s) = s /\ \A y \in s : Part(s)[y] \in Int /\ Part(s)[y] = fun[y]
    OBVIOUS
  <2>2. [y \in s \ {x} |-> Part(s)[y]] = Part(s \ {x})
    OBVIOUS
  <2>3. SumFunction(Part(s)) = Part(s)[x] + SumFunction([y \in s \ {x} |-> Part(s)[y]])
    <3> HIDE DEF Part
    <3> QED
      BY <1>1, <2>1, SumSplits
  <2>4. Part(s)[x] = fun[x]
    BY <2>1
  <2> HIDE DEF Part
  <2> QED
    BY <2>2, <2>3, <2>4
<1>3. 0 \in Good
  BY <1>1, SumOfNone
<1>4. ASSUME NEW n \in Nat, n \in Good PROVE n + 1 \in Good
  <2> HIDE DEF Part
  <2> SUFFICES ASSUME NEW s \in SUBSET D, Cardinality(s) <= n + 1
               PROVE  SumFunction(Part(s)) \in Nat
    OBVIOUS
  <2>1. CASE s = {}
    BY <1>3, <1>1, <2>1
  <2>2. CASE s # {}
    <3>1. PICK x \in s : TRUE
      BY <2>2
    <3>2. s \ {x} \in SUBSET D /\ Cardinality(s \ {x}) = Cardinality(s) - 1
      BY <1>1, <3>1, FS_RemoveElement
    <3>3. SumFunction(Part(s \ {x})) \in Nat
      BY <1>1, <1>4, <3>2
    <3> QED
      BY <1>2, <3>1, <3>3
  <2> QED
    BY <2>1, <2>2
<1>5. \A s \in SUBSET D : SumFunction(Part(s)) \in Nat
  <2>1. Nat \subseteq Good
    <3> HIDE DEF Good
    <3> QED
      BY <1>3, <1>4, Induction
  <2> QED
    BY <1>1, <2>1
<1>6. ASSUME NEW x \in D
      PROVE  SumFunction(fun) = fun[x] + SumFunction(Part(D \ {x}))
  BY SumSplits
<1>7. CASE D = {}
  BY <1>7, SumOfNone
<1>8. ASSUME NEW x \in D
      PROVE  SumFunction(fun) \in Nat /\ fun[x] <= SumFunction(fun)
  <2>1. SumFunction(Part(D \ {x})) \in Nat /\ fun[x] \in Nat
    BY <1>5
  <2> HIDE DEF Part
  <2> QED
    BY <1>6, <2>1
<1> QED
  BY <1>7, <1>8
-----------------------------------------------------------------------------
(* FlattenSeq *)

\* The first k of a sequence of sequences, one after the other.
Flattening(f, seqs, k) ==
  \A i \in 1 .. k : f[i] = IF i = 1 THEN seqs[i] ELSE f[i - 1] \o seqs[i]

LEMMA FlattenIsRecursive ==
  ASSUME NEW seqs, Len(seqs) # 0
  PROVE  FlattenSeq(seqs) =
           (CHOOSE flatten :
              flatten = [i \in 1 .. Len(seqs) |->
                           IF i = 1 THEN seqs[i] ELSE flatten[i - 1] \o seqs[i]])[Len(seqs)]
BY DEF FlattenSeq

LEMMA FlattenSolves ==
  ASSUME NEW seqs, Len(seqs) \in Nat \ {0}
  PROVE  \E f : Flattening(f, seqs, Len(seqs)) /\ FlattenSeq(seqs) = f[Len(seqs)]
<1> DEFINE n == Len(seqs)
           Recursive(f) == f = [i \in 1 .. n |->
                                  IF i = 1 THEN seqs[i] ELSE f[i - 1] \o seqs[i]]
           Good == {k \in Nat : \E f : Flattening(f, seqs, k)}
<1>1. 0 \in Good
  BY DEF Flattening
<1>2. ASSUME NEW k \in Nat, k \in Good PROVE k + 1 \in Good
  <2>1. PICK f : Flattening(f, seqs, k)
    BY <1>2
  <2> DEFINE g == [i \in 1 .. k + 1 |->
                     IF i <= k THEN f[i]
                     ELSE IF i = 1 THEN seqs[i] ELSE f[i - 1] \o seqs[i]]
  <2>2. Flattening(g, seqs, k + 1)
    BY <2>1 DEF Flattening
  <2> HIDE DEF g
  <2> QED
    BY <2>2
<1>3. n \in Good
  <2> HIDE DEF Good
  <2> QED
    BY <1>1, <1>2, Induction
<1>4. PICK f : Flattening(f, seqs, n)
  BY <1>3
<1>5. Recursive([i \in 1 .. n |-> f[i]])
  BY <1>4 DEF Flattening
<1> DEFINE g == CHOOSE flatten : Recursive(flatten)
<1>6. Recursive(g)
  <2> HIDE DEF Recursive
  <2> QED
    BY <1>5
<1>7. FlattenSeq(seqs) = g[n]
  BY FlattenIsRecursive
<1> HIDE DEF g
<1>8. Flattening(g, seqs, n)
  BY <1>6 DEF Flattening
<1> QED
  BY <1>7, <1>8

\* Where the k-th of them starts.
Before(seqs, k) == SumFunction([j \in 1 .. k - 1 |-> Len(seqs[j])])

LEMMA BeforeNext ==
  ASSUME NEW S, NEW seqs \in Seq(Seq(S)), NEW k \in 1 .. Len(seqs)
  PROVE  /\ Before(seqs, 1) = 0
         /\ Before(seqs, k) \in Nat
         /\ Before(seqs, k + 1) = Before(seqs, k) + Len(seqs[k])
<1>1. \A j \in 1 .. k : Len(seqs[j]) \in Nat
  OBVIOUS
<1>2. Before(seqs, 1) = 0
  BY SumOfNone DEF Before
<1>3. Before(seqs, k) \in Nat
  <2> DEFINE fun == [j \in 1 .. k - 1 |-> Len(seqs[j])]
  <2>1. IsFiniteSet(DOMAIN fun) /\ \A x \in DOMAIN fun : fun[x] \in Nat
    BY <1>1, FS_Interval
  <2> HIDE DEF fun
  <2>2. SumFunction(fun) \in Nat
    BY <2>1, SumOfNaturals
  <2> QED
    BY <2>2 DEF Before, fun
<1>4. Before(seqs, k + 1) = Before(seqs, k) + Len(seqs[k])
  <2> DEFINE fun == [j \in 1 .. k |-> Len(seqs[j])]
  <2>1. /\ DOMAIN fun = 1 .. k /\ k \in Nat /\ k > 0 /\ fun[k] = Len(seqs[k])
        /\ \A j \in 1 .. k : fun[j] \in Int
        /\ [j \in 1 .. k - 1 |-> fun[j]] = [j \in 1 .. k - 1 |-> Len(seqs[j])]
        /\ k + 1 - 1 = k
    BY <1>1
  <2>2. Before(seqs, k + 1) = SumFunction(fun)
    BY <2>1 DEF Before
  <2> HIDE DEF fun
  <2>3. SumFunction(fun) = SumFunction([j \in 1 .. k - 1 |-> fun[j]]) + fun[k]
    BY <2>1, SumUpTo
  <2> QED
    BY <2>1, <2>2, <2>3 DEF Before
<1> QED
  BY <1>2, <1>3, <1>4

\* What concatenation does, element by element.
LEMMA Concatenated ==
  ASSUME NEW S, NEW a \in Seq(S), NEW b \in Seq(S)
  PROVE  /\ a \o b \in Seq(S)
         /\ Len(a \o b) = Len(a) + Len(b)
         /\ \A m \in 1 .. Len(a) : (a \o b)[m] = a[m]
         /\ \A m \in 1 .. Len(b) : (a \o b)[Len(a) + m] = b[m]
OBVIOUS

\* The m-th element of the k-th sequence is found behind those before it.
LEMMA FlattenedAt ==
  ASSUME NEW S, NEW seqs \in Seq(Seq(S))
  PROVE  /\ FlattenSeq(seqs) \in Seq(S)
         /\ \A k \in 1 .. Len(seqs) : \A m \in 1 .. Len(seqs[k]) :
              /\ Before(seqs, k) + m <= Len(FlattenSeq(seqs))
              /\ FlattenSeq(seqs)[Before(seqs, k) + m] = seqs[k][m]
<1>1. CASE Len(seqs) = 0
  BY <1>1 DEF FlattenSeq
<1>2. CASE Len(seqs) # 0
  <2> DEFINE n == Len(seqs)
  <2>1. n \in Nat \ {0}
    BY <1>2
  <2>2. PICK f : Flattening(f, seqs, n) /\ FlattenSeq(seqs) = f[n]
    BY <2>1, FlattenSolves
  <2> DEFINE At(i, k) == \A m \in 1 .. Len(seqs[k]) :
                            /\ Before(seqs, k) + m <= Len(f[i])
                            /\ f[i][Before(seqs, k) + m] = seqs[k][m]
             Right(i) == /\ f[i] \in Seq(S)
                         /\ Len(f[i]) = Before(seqs, i + 1)
                         /\ \A k \in 1 .. i : At(i, k)
             Good == {i \in Nat : i \in 1 .. n => Right(i)}
  <2> HIDE DEF n
  <2>3. \A i \in 1 .. n : /\ seqs[i] \in Seq(S) /\ Len(seqs[i]) \in Nat
                          /\ Before(seqs, i) \in Nat /\ Before(seqs, 1) = 0
                          /\ Before(seqs, i + 1) = Before(seqs, i) + Len(seqs[i])
    BY BeforeNext DEF n
  <2>4. 0 \in Good
    BY <2>1
  <2>5. 1 \in Good
    <3>1. 1 \in 1 .. n
      BY <2>1
    <3>2. f[1] = seqs[1]
      BY <2>2, <3>1 DEF Flattening
    <3>3. Right(1)
      BY <2>3, <3>1, <3>2
    <3> HIDE DEF Right
    <3> QED
      BY <3>3
  <2>6. ASSUME NEW i \in Nat, i # 0, i \in Good, i + 1 \in 1 .. n
        PROVE  Right(i + 1)
    <3>1. i \in 1 .. n /\ i + 1 # 1 /\ i + 1 - 1 = i
      BY <2>1, <2>6
    <3>2. f[i + 1] = f[i] \o seqs[i + 1]
      <4>1. ASSUME NEW j \in 1 .. n, NEW h, j # 1, j - 1 = h
            PROVE  f[j] = f[h] \o seqs[j]
        BY <2>2, <4>1 DEF Flattening
      <4> DEFINE j == i + 1
      <4>2. j \in 1 .. n /\ j # 1 /\ j - 1 = i
        BY <2>6, <3>1
      <4> HIDE DEF j
      <4>3. f[j] = f[i] \o seqs[j]
        BY <4>1, <4>2
      <4> QED
        BY <4>3 DEF j
    <3>3. Right(i)
      BY <2>6, <3>1
    <3> DEFINE a == f[i]
               b == seqs[i + 1]
    <3>4. a \in Seq(S) /\ b \in Seq(S) /\ Len(a) \in Nat /\ Len(b) \in Nat
          /\ Len(a) = Before(seqs, i + 1)
      BY <2>3, <2>6, <3>3
    <3>5. \A k \in 1 .. i : At(i, k)
      BY <3>3
    <3> HIDE DEF a, b, At, Right, Good
    <3>6. /\ a \o b \in Seq(S)
          /\ Len(a \o b) = Len(a) + Len(b)
      BY <3>4, Concatenated
    <3>7. \A m \in 1 .. Len(a) : (a \o b)[m] = a[m]
      BY <3>4, Concatenated
    <3>8. \A m \in 1 .. Len(b) : (a \o b)[Len(a) + m] = b[m]
      BY <3>4, Concatenated
    <3>9. f[i + 1] = a \o b
      BY <3>2 DEF a, b
    <3>10. Len(f[i + 1]) = Before(seqs, i + 1 + 1)
      BY <2>3, <2>6, <3>4, <3>6, <3>9 DEF b
    <3>11. ASSUME NEW k \in 1 .. i PROVE At(i + 1, k)
      <4>1. ASSUME NEW m \in 1 .. Len(seqs[k])
            PROVE  /\ Before(seqs, k) + m <= Len(f[i + 1])
                   /\ f[i + 1][Before(seqs, k) + m] = seqs[k][m]
        <5>1. Before(seqs, k) + m <= Len(a) /\ a[Before(seqs, k) + m] = seqs[k][m]
          BY <3>5 DEF At, a
        <5>2. k \in 1 .. n
          BY <2>1, <3>1
        <5>3. Before(seqs, k) \in Nat /\ Len(seqs[k]) \in Nat
          BY <2>3, <5>2
        <5>4. Before(seqs, k) + m \in 1 .. Len(a)
          BY <3>4, <5>1, <5>3
        <5>5. f[i + 1][Before(seqs, k) + m] = a[Before(seqs, k) + m]
          BY <3>7, <3>9, <5>4
        <5> QED
          BY <3>4, <3>6, <3>9, <5>1, <5>4, <5>5
      <4> QED
        BY <4>1 DEF At
    <3>12. At(i + 1, i + 1)
      <4>1. ASSUME NEW m \in 1 .. Len(seqs[i + 1])
            PROVE  /\ Before(seqs, i + 1) + m <= Len(f[i + 1])
                   /\ f[i + 1][Before(seqs, i + 1) + m] = seqs[i + 1][m]
        <5>1. m \in 1 .. Len(b) /\ b[m] = seqs[i + 1][m]
          BY DEF b
        <5>2. (a \o b)[Len(a) + m] = b[m] /\ Len(a) + m <= Len(a \o b)
          BY <3>4, <3>6, <3>8, <5>1
        <5> QED
          BY <3>4, <3>9, <5>1, <5>2
      <4> QED
        BY <4>1 DEF At
    <3>13. \A k \in 1 .. i + 1 : k \in 1 .. i \/ k = i + 1
      OBVIOUS
    <3>14. \A k \in 1 .. i + 1 : At(i + 1, k)
      BY <3>11, <3>12, <3>13
    <3> QED
      BY <3>6, <3>9, <3>10, <3>14 DEF Right
  <2>7. \A i \in Nat : i \in Good => i + 1 \in Good
    <3> HIDE DEF Right
    <3> QED
      BY <2>5, <2>6
  <2>8. n \in Good
    <3> HIDE DEF Good
    <3> QED
      BY <2>1, <2>4, <2>7, Induction
  <2>9. Right(n)
    <3> HIDE DEF Right
    <3> QED
      BY <2>1, <2>8
  <2> QED
    BY <2>2, <2>9 DEF n
<1> QED
  BY <1>1, <1>2

\* Flattening at most two sequences.
LEMMA FlattenTwo ==
  /\ FlattenSeq(<<>>) = <<>>
  /\ \A a : FlattenSeq(<<a>>) = a
  /\ \A a, b : FlattenSeq(<<a, b>>) = a \o b
<1>1. FlattenSeq(<<>>) = <<>>
  BY DEF FlattenSeq
<1>2. ASSUME NEW a
      PROVE  FlattenSeq(<<a>>) = a
  <2> DEFINE seqs == <<a>>
  <2>1. Len(seqs) \in Nat \ {0} /\ Len(seqs) = 1 /\ seqs[1] = a
    OBVIOUS
  <2> HIDE DEF seqs
  <2>2. PICK f : Flattening(f, seqs, Len(seqs)) /\ FlattenSeq(seqs) = f[Len(seqs)]
    BY <2>1, FlattenSolves
  <2>3. f[1] = seqs[1]
    BY <2>1, <2>2 DEF Flattening
  <2>4. FlattenSeq(seqs) = a
    BY <2>1, <2>2, <2>3
  <2> QED
    BY <2>4 DEF seqs
<1>3. ASSUME NEW a, NEW b
      PROVE  FlattenSeq(<<a, b>>) = a \o b
  <2> DEFINE seqs == <<a, b>>
  <2>1. Len(seqs) \in Nat \ {0} /\ Len(seqs) = 2 /\ seqs[1] = a /\ seqs[2] = b
    OBVIOUS
  <2> HIDE DEF seqs
  <2>2. PICK f : Flattening(f, seqs, Len(seqs)) /\ FlattenSeq(seqs) = f[Len(seqs)]
    BY <2>1, FlattenSolves
  <2>3. f[1] = seqs[1] /\ f[2] = f[1] \o seqs[2]
    BY <2>1, <2>2 DEF Flattening
  <2>4. FlattenSeq(seqs) = a \o b
    BY <2>1, <2>2, <2>3
  <2> QED
    BY <2>4 DEF seqs
<1> QED
  BY <1>1, <1>2, <1>3
=============================================================================
