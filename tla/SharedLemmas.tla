---------------------------- MODULE SharedLemmas ----------------------------
(***************************************************************************)
(* Lemmas about constants that several proofs share.  Induction over       *)
(* natural numbers and finite sets, and what it gives: the existence of    *)
(* functions defined by recursion over a number, what a filter keeps of a  *)
(* sequence, the laws of sums over a finite set, and that the depth first  *)
(* search of DependencyGraph orders a finite graph exactly when it has no  *)
(* cycle.                                                                  *)
(*                                                                         *)
(* Every induction here takes the set of the values for which a statement  *)
(* holds, or a least element of the set for which it fails; none needs a   *)
(* predicate as a parameter.                                               *)
(***************************************************************************)
EXTENDS Selections, DependencyGraph, FiniteSets, Functions, FiniteSetTheorems,
        WellFoundedInduction, TLAPS

-----------------------------------------------------------------------------
(* Induction.                                                              *)

(* Every set of natural numbers that is not empty has a least element.     *)
LEMMA LeastNumber ==
  ASSUME NEW T \in SUBSET Nat, T # {}
  PROVE  \E least \in T : \A n \in T : least <= n
  <1>1. PICK least \in T : \A n \in T : <<n, least>> \notin OpToRel(<, Nat)
    BY NatLessThanWellFounded, WFMin, Zenon
  <1>2. \A n \in T : ~ (n < least)
    BY <1>1, Zenon DEF OpToRel
  <1> QED
    BY <1>2

(* Induction over the natural numbers.                                     *)
LEMMA NumbersByInduction ==
  ASSUME NEW S, 0 \in S, \A n \in Nat : n \in S => n + 1 \in S
  PROVE  Nat \subseteq S
  <1> DEFINE T == Nat \ S
  <1> SUFFICES ASSUME T # {} PROVE FALSE
    BY Zenon
  <1>1. PICK least \in T : \A n \in T : least <= n
    BY LeastNumber, Zenon
  <1>2. least # 0 /\ least \in Nat
    BY <1>1, Zenon
  <1>3. least - 1 \in Nat /\ least - 1 \notin T
    BY <1>1, <1>2
  <1> QED
    BY <1>1, <1>2, <1>3

(* Every finite set of numbers that is not empty has a greatest element.   *)
LEMMA GreatestNumber ==
  ASSUME NEW bound \in Nat, NEW T \in SUBSET (0..bound), T # {}
  PROVE  \E greatest \in T : \A n \in T : n <= greatest
  <1> DEFINE U == {bound - n : n \in T}
  <1>1. U \in SUBSET Nat /\ U # {}
    <2>1. \A n \in T : bound - n \in Nat
      OBVIOUS
    <2> QED
      BY <2>1, Zenon
  <1>2. PICK least \in U : \A m \in U : least <= m
    BY <1>1, LeastNumber, Zenon
  <1>3. PICK greatest \in T : least = bound - greatest
    BY <1>2, Zenon
  <1>4. ASSUME NEW n \in T PROVE n <= greatest
    <2>1. least <= bound - n
      BY <1>2, Zenon
    <2> QED
      BY <1>3, <2>1
  <1> QED
    BY <1>4, Zenon

(* Induction over the finite sets, along their cardinality: a statement    *)
(* that fails for some finite set fails for a smallest one.                *)
LEMMA SmallestSet ==
  ASSUME NEW T, T # {}, \A s \in T : IsFiniteSet(s)
  PROVE  \E least \in T : \A s \in T : Cardinality(least) <= Cardinality(s)
  <1> DEFINE sizes == {Cardinality(s) : s \in T}
  <1>1. sizes \in SUBSET Nat /\ sizes # {}
    BY FS_CardinalityType, Zenon
  <1>2. PICK size \in sizes : \A n \in sizes : size <= n
    BY <1>1, LeastNumber, Zenon
  <1> QED
    BY <1>2, Zenon

-----------------------------------------------------------------------------
(* Functions defined by recursion over a number.                           *)

Recursion(f, base, last, step) ==
  /\ f[0] = base
  /\ \A n \in 1..last : f[n] = step[<<n, f[n - 1]>>]

(* There is a function with a given first value and a given step.          *)
LEMMA RecursionOverNumbers ==
  ASSUME NEW V, NEW base \in V, NEW last \in Nat,
         NEW step \in [(1..last) \X V -> V]
  PROVE  \E f \in [0..last -> V] : Recursion(f, base, last, step)
  <1> DEFINE Good(n) ==
               \E f \in [0..n -> V] :
                 /\ f[0] = base
                 /\ \A m \in 1..n : f[m] = step[<<m, f[m - 1]>>]
             S == {n \in Nat : n <= last => Good(n)}
  <1>1. 0 \in S
    <2> DEFINE f == [m \in 0..0 |-> base]
    <2>1. f \in [0..0 -> V] /\ f[0] = base /\ 1..0 = {}
      OBVIOUS
    <2>2. Good(0)
      BY <2>1, Zenon
    <2> QED
      BY <2>2, Zenon
  <1>2. ASSUME NEW n \in Nat, n \in S PROVE n + 1 \in S
    <2> SUFFICES ASSUME n + 1 <= last PROVE Good(n + 1)
      OBVIOUS
    <2>1. PICK f \in [0..n -> V] :
            /\ f[0] = base
            /\ \A m \in 1..n : f[m] = step[<<m, f[m - 1]>>]
      BY <1>2
    <2>2. step[<<n + 1, f[n]>>] \in V
      <3>1. n + 1 \in 1..last /\ f[n] \in V
        OBVIOUS
      <3> QED
        BY <3>1, Zenon
    <2> DEFINE g == [m \in 0..(n + 1) |-> IF m = n + 1
                                          THEN step[<<n + 1, f[n]>>]
                                          ELSE f[m]]
    <2>3. g \in [0..(n + 1) -> V] /\ g[0] = base
      BY <2>1, <2>2
    <2>4. ASSUME NEW m \in 1..(n + 1)
          PROVE  g[m] = step[<<m, g[m - 1]>>]
      <3>1. m - 1 \in 0..n /\ g[m - 1] = f[m - 1]
        OBVIOUS
      <3>2. CASE m = n + 1
        <4>1. m - 1 = n /\ n + 1 \in 0..(n + 1)
          BY <3>2
        <4>2. g[n + 1] = step[<<n + 1, f[n]>>]
          BY <4>1, Zenon
        <4>3. g[m - 1] = f[n]
          BY <3>1, <4>1, Zenon
        <4> HIDE DEF g
        <4> QED
          BY <3>2, <4>2, <4>3, Zenon
      <3>3. CASE m # n + 1
        BY <2>1, <3>1, <3>3
      <3> QED
        BY <3>2, <3>3, Zenon
    <2> HIDE DEF g
    <2> QED
      BY <2>3, <2>4, Zenon
  <1> HIDE DEF S
  <1>3. Nat \subseteq S
    BY <1>1, <1>2, NumbersByInduction, Zenon
  <1>4. Good(last)
    <2> HIDE DEF Good
    <2> QED
      BY <1>3 DEF S
  <1> QED
    BY <1>4, Zenon DEF Recursion

-----------------------------------------------------------------------------
(* What a filter keeps.                                                    *)

(* What a sequence holds after something was appended to it.               *)
LEMMA RangeOfAppend ==
  ASSUME NEW T, NEW s \in Seq(T), NEW x
  PROVE  Range(Append(s, x)) = Range(s) \cup {x}
  <1> DEFINE longer == Append(s, x)
  <1>1. /\ DOMAIN longer = (DOMAIN s) \cup {Len(s) + 1}
        /\ \A i \in DOMAIN s : longer[i] = s[i]
        /\ longer[Len(s) + 1] = x
    OBVIOUS
  <1> HIDE DEF longer
  <1>2. Range(longer) = {longer[i] : i \in DOMAIN s} \cup {longer[Len(s) + 1]}
    BY <1>1, Zenon DEF Range
  <1>3. {longer[i] : i \in DOMAIN s} = Range(s)
    BY <1>1, Zenon DEF Range
  <1> QED
    BY <1>1, <1>2, <1>3, Zenon DEF longer

(* InOrder returns the elements of the sequence that qualify, and all.     *)
LEMMA InOrderFinds ==
  ASSUME NEW T, NEW s \in Seq(T), NEW qualifying
  PROVE  /\ InOrder(s, qualifying) \in Seq(T \cap qualifying)
         /\ Range(InOrder(s, qualifying)) = Range(s) \cap qualifying
  <1> DEFINE V == Seq(T \cap qualifying)
             last == Len(s)
             Kept(n, before) ==
               IF s[n] \in qualifying THEN Append(before, s[n]) ELSE before
             step == [p \in (1..last) \X V |-> Kept(p[1], p[2])]
             Found(f) == f = [n \in 0..last |-> IF n = 0 THEN <<>>
                                ELSE IF s[n] \in qualifying
                                     THEN Append(f[n - 1], s[n])
                                     ELSE f[n - 1]]
             found == CHOOSE f : Found(f)
  <1>1. last \in Nat /\ <<>> \in V
    OBVIOUS
  <1>2. ASSUME NEW n \in 1..last, NEW before \in V
        PROVE  Kept(n, before) \in V
    OBVIOUS
  <1>3. step \in [(1..last) \X V -> V]
    <2> HIDE DEF Kept, V, last
    <2> QED
      BY <1>2, Zenon
  <1>4. PICK f \in [0..last -> V] : Recursion(f, <<>>, last, step)
    <2> HIDE DEF V, step, last
    <2> QED
      BY <1>1, <1>3, RecursionOverNumbers, Zenon
  <1>5. \A n \in 1..last : f[n] = Kept(n, f[n - 1])
    <2> SUFFICES ASSUME NEW n \in 1..last PROVE f[n] = Kept(n, f[n - 1])
      BY Zenon
    <2> HIDE DEF V, last, Kept
    <2>1. n - 1 \in 0..last
      BY <1>1
    <2>2. f[n - 1] \in V /\ f[n] = step[<<n, f[n - 1]>>]
      <3> HIDE DEF step
      <3> QED
        BY <1>4, <2>1, Zenon DEF Recursion
    <2> QED
      BY <2>2, Zenon
  <1>6. Found(f)
    <2>1. \A n \in 0..last : f[n] = IF n = 0 THEN <<>>
                                ELSE IF s[n] \in qualifying
                                     THEN Append(f[n - 1], s[n])
                                     ELSE f[n - 1]
      <3> HIDE DEF V, last, step
      <3>1. \A n \in 0..last : n = 0 \/ n \in 1..last
        BY <1>1
      <3> QED
        BY <1>4, <1>5, <3>1, Zenon DEF Recursion
    <2> HIDE DEF V, last
    <2> QED
      BY <2>1, Zenon
  <1>7. Found(found)
    <2> HIDE DEF Found
    <2> QED
      BY <1>6, Zenon
  <1>8. InOrder(s, qualifying) = found[last]
    BY Zenon DEF InOrder
  <1> HIDE DEF found
  <1> DEFINE Upto(n) == {s[i] : i \in 1..n} \cap qualifying
             S == {n \in Nat : n <= last => /\ found[n] \in V
                                           /\ Range(found[n]) = Upto(n)}
  <1>9. 0 \in S
    <2>1. found[0] = <<>> /\ <<>> \in V
      BY <1>1, <1>7
    <2>2. Range(<<>>) = {} /\ Upto(0) = {}
      BY DEF Range
    <2> QED
      BY <2>1, <2>2, Zenon
  <1>10. ASSUME NEW n \in Nat, n \in S PROVE n + 1 \in S
    <2> SUFFICES ASSUME n + 1 <= last
                 PROVE  found[n + 1] \in V /\ Range(found[n + 1]) = Upto(n + 1)
      OBVIOUS
    <2>1. /\ found[n] \in V /\ Range(found[n]) = Upto(n)
          /\ n + 1 \in 1..last /\ n + 1 \in 0..last
          /\ n + 1 # 0 /\ (n + 1) - 1 = n
      BY <1>1, <1>10
    <2>2. found[n + 1] = Kept(n + 1, found[n])
      <3> HIDE DEF V, last
      <3> QED
        BY <1>7, <2>1, Zenon
    <2>3. found[n + 1] \in V
      <3> HIDE DEF Kept, V, last, Upto
      <3> QED
        BY <1>2, <2>1, <2>2, Zenon
    <2>4. 1..(n + 1) = (1..n) \cup {n + 1}
      OBVIOUS
    <2>5. CASE s[n + 1] \in qualifying
      <3>1. found[n + 1] = Append(found[n], s[n + 1])
        BY <2>2, <2>5, Zenon
      <3>2. Range(found[n + 1]) = Range(found[n]) \cup {s[n + 1]}
        BY <2>1, <3>1, RangeOfAppend, Zenon
      <3> QED
        BY <2>1, <2>3, <2>4, <2>5, <3>2, Zenon
    <2>6. CASE s[n + 1] \notin qualifying
      <3>1. found[n + 1] = found[n]
        BY <2>2, <2>6, Zenon
      <3> QED
        BY <2>1, <2>3, <2>4, <2>6, <3>1, Zenon
    <2> QED
      BY <2>5, <2>6, Zenon
  <1>11. Nat \subseteq S
    <2> HIDE DEF S
    <2> QED
      BY <1>9, <1>10, NumbersByInduction, Zenon
  <1>12. Upto(last) = Range(s) \cap qualifying
    BY DEF Range
  <1> HIDE DEF Upto
  <1> QED
    BY <1>1, <1>8, <1>11, <1>12

-----------------------------------------------------------------------------
(* Sums over a finite set.                                                 *)

(* The element that SumFunctionOnSet takes first.                          *)
First(s) == CHOOSE x \in s : TRUE

(* g sums f over each of the sets of a family.                             *)
Sums(g, f, family) ==
  \A s \in family :
    g[s] = IF s = {} THEN 0 ELSE f[First(s)] + g[s \ {First(s)}]

(* The first element of a set is one of its elements.                      *)
LEMMA FirstIsIn == \A s : s # {} => First(s) \in s
  BY Zenon DEF First

(* What is left after the first element is finite and smaller.             *)
LEMMA RestIsSmaller ==
  ASSUME NEW s, IsFiniteSet(s), NEW x \in s
  PROVE  /\ IsFiniteSet(s \ {x})
         /\ Cardinality(s \ {x}) = Cardinality(s) - 1
         /\ Cardinality(s) \in Nat
         /\ Cardinality(s \ {x}) \in Nat
  BY FS_RemoveElement, FS_CardinalityType, Zenon

(* There is a function that sums f over the subsets of a finite set.       *)
LEMMA SumsExist ==
  ASSUME NEW S, IsFiniteSet(S), NEW f, \A x \in S : f[x] \in Int
  PROVE  \E g \in [SUBSET S -> Int] : Sums(g, f, SUBSET S)
  <1> DEFINE Upto(n) == {s \in SUBSET S : Cardinality(s) <= n}
             Good(n) == \E g \in [SUBSET S -> Int] : Sums(g, f, Upto(n))
             N == {n \in Nat : Good(n)}
  <1>0. \A s \in SUBSET S : IsFiniteSet(s) /\ Cardinality(s) \in Nat
    BY FS_Subset, FS_CardinalityType, Zenon
  <1>1. 0 \in N
    <2> DEFINE g == [s \in SUBSET S |-> 0]
    <2>1. \A s \in Upto(0) : s = {}
      BY <1>0, FS_EmptySet
    <2>2. g \in [SUBSET S -> Int] /\ Sums(g, f, Upto(0))
      BY <2>1 DEF Sums
    <2> QED
      BY <2>2, Zenon
  <1>2. ASSUME NEW n \in Nat, n \in N PROVE n + 1 \in N
    <2>1. PICK g \in [SUBSET S -> Int] : Sums(g, f, Upto(n))
      BY <1>2, Zenon
    <2> DEFINE next(s) == IF s = {} THEN 0 ELSE f[First(s)] + g[s \ {First(s)}]
               h == [s \in SUBSET S |-> IF Cardinality(s) <= n THEN g[s]
                                                              ELSE next(s)]
    <2>2. \A s \in SUBSET S : next(s) \in Int
      BY FirstIsIn
    <2>3. h \in [SUBSET S -> Int]
      BY <2>2, Zenon
    <2>4. ASSUME NEW s \in Upto(n + 1)
          PROVE  h[s] = IF s = {} THEN 0 ELSE f[First(s)] + h[s \ {First(s)}]
      <3>1. h[s] = next(s)
        BY <2>1, Zenon DEF Sums
      <3>2. CASE s = {}
        BY <3>1, <3>2, Zenon
      <3>3. CASE s # {}
        <4>1. /\ s \ {First(s)} \in SUBSET S
              /\ Cardinality(s \ {First(s)}) <= n
          BY <1>0, <3>3, FirstIsIn, RestIsSmaller
        <4>2. h[s \ {First(s)}] = g[s \ {First(s)}]
          BY <4>1, Zenon
        <4> QED
          BY <3>1, <3>3, <4>2, Zenon
      <3> QED
        BY <3>2, <3>3, Zenon
    <2> HIDE DEF h
    <2>5. Sums(h, f, Upto(n + 1))
      BY <2>4, Zenon DEF Sums
    <2>6. Good(n + 1)
      <3> HIDE DEF Upto
      <3> QED
        BY <2>3, <2>5, Zenon
    <2> HIDE DEF Good
    <2> QED
      BY <2>6
  <1> HIDE DEF N
  <1>3. Cardinality(S) \in N
    BY <1>0, <1>1, <1>2, NumbersByInduction, Zenon
  <1>4. \A s \in SUBSET S : Cardinality(s) <= Cardinality(S)
    BY FS_Subset, Zenon
  <1>5. Upto(Cardinality(S)) = SUBSET S
    BY <1>4, Zenon
  <1> QED
    BY <1>3, <1>5, Zenon DEF N

(* Two functions that sum over the subsets of S agree on them, also when   *)
(* they sum functions that are only equal on S.                            *)
LEMMA SumsAgree ==
  ASSUME NEW S, IsFiniteSet(S), NEW f, NEW h, \A x \in S : f[x] = h[x],
         NEW a, NEW b, Sums(a, f, SUBSET S), Sums(b, h, SUBSET S)
  PROVE  \A s \in SUBSET S : a[s] = b[s]
  <1> DEFINE T == {s \in SUBSET S : a[s] # b[s]}
  <1> SUFFICES ASSUME T # {} PROVE FALSE
    BY Zenon
  <1>1. \A s \in T : IsFiniteSet(s)
    BY FS_Subset, Zenon
  <1>2. PICK s \in T : \A t \in T : Cardinality(s) <= Cardinality(t)
    BY <1>1, SmallestSet, Zenon
  <1>3. s # {}
    BY <1>2, Zenon DEF Sums
  <1> DEFINE rest == s \ {First(s)}
  <1>4. First(s) \in s /\ rest \in SUBSET S
    BY <1>2, <1>3, FirstIsIn, Zenon
  <1>5. rest \notin T
    <2>1. Cardinality(rest) = Cardinality(s) - 1 /\ Cardinality(s) \in Nat
      BY <1>1, <1>4, RestIsSmaller, Zenon
    <2> HIDE DEF rest, T
    <2> QED
      BY <1>2, <2>1
  <1>6. a[s] = f[First(s)] + a[rest] /\ b[s] = h[First(s)] + b[rest]
    BY <1>2, <1>3, Zenon DEF Sums
  <1> QED
    BY <1>2, <1>4, <1>5, <1>6, Zenon

(* SumFunctionOnSet is what every such function gives for the whole set.   *)
LEMMA SumIsSums ==
  ASSUME NEW S, IsFiniteSet(S), NEW f, \A x \in S : f[x] \in Int,
         NEW a, Sums(a, f, SUBSET S)
  PROVE  SumFunctionOnSet(f, S) = a[S]
  <1> DEFINE Eq(g) == g = [s \in SUBSET S |->
                             IF s = {} THEN 0
                             ELSE f[First(s)] + g[s \ {First(s)}]]
             iter == CHOOSE g : Eq(g)
  <1>1. SumFunctionOnSet(f, S) = iter[S]
    BY Zenon DEF SumFunctionOnSet, FoldFunctionOnSet, MapThenFoldSet, First
  <1>2. PICK g \in [SUBSET S -> Int] : Sums(g, f, SUBSET S)
    BY SumsExist, Zenon
  <1>3. Eq(g)
    BY <1>2, Zenon DEF Sums
  <1>4. Eq(iter)
    <2> HIDE DEF Eq
    <2> QED
      BY <1>3, Zenon
  <1> HIDE DEF iter
  <1>5. Sums(iter, f, SUBSET S)
    BY <1>4, Zenon DEF Sums
  <1>6. iter[S] = a[S]
    BY <1>5, SumsAgree
  <1> QED
    BY <1>1, <1>6, Zenon

(* The sum of integers is an integer.                                      *)
LEMMA SumIsInt ==
  ASSUME NEW S, IsFiniteSet(S), NEW f, \A x \in S : f[x] \in Int
  PROVE  SumFunctionOnSet(f, S) \in Int
  <1>1. PICK g \in [SUBSET S -> Int] : Sums(g, f, SUBSET S)
    BY SumsExist, Zenon
  <1> QED
    BY <1>1, SumIsSums, Zenon

(* The empty sum.                                                          *)
LEMMA SumOfNothing == ASSUME NEW f PROVE SumFunctionOnSet(f, {}) = 0
  <1>1. PICK g \in [SUBSET {} -> Int] : Sums(g, f, SUBSET {})
    BY SumsExist, FS_EmptySet, Zenon
  <1>2. g[{}] = 0
    BY <1>1, Zenon DEF Sums
  <1> QED
    BY <1>1, <1>2, SumIsSums, FS_EmptySet, Zenon

(* The sum depends on f only inside the set.                               *)
LEMMA SumOfEqual ==
  ASSUME NEW S, IsFiniteSet(S), NEW f, NEW h,
         \A x \in S : f[x] \in Int /\ f[x] = h[x]
  PROVE  SumFunctionOnSet(f, S) = SumFunctionOnSet(h, S)
  <1>1. PICK a \in [SUBSET S -> Int] : Sums(a, f, SUBSET S)
    BY SumsExist, Zenon
  <1>2. PICK b \in [SUBSET S -> Int] : Sums(b, h, SUBSET S)
    BY SumsExist, Zenon
  <1>3. a[S] = b[S]
    BY <1>1, <1>2, SumsAgree
  <1> QED
    BY <1>1, <1>2, <1>3, SumIsSums, Zenon

(* Any element may be taken out first.                                     *)
LEMMA SumsInAnyOrder ==
  ASSUME NEW S, IsFiniteSet(S), NEW f, \A x \in S : f[x] \in Int,
         NEW g \in [SUBSET S -> Int], Sums(g, f, SUBSET S)
  PROVE  \A s \in SUBSET S : \A x \in s : g[s] = f[x] + g[s \ {x}]
  <1> DEFINE T == {s \in SUBSET S : \E x \in s : g[s] # f[x] + g[s \ {x}]}
  <1> SUFFICES ASSUME T # {} PROVE FALSE
    BY Zenon
  <1>1. \A s \in SUBSET S : IsFiniteSet(s)
    BY FS_Subset, Zenon
  <1>2. PICK s \in T : \A t \in T : Cardinality(s) <= Cardinality(t)
    BY <1>1, SmallestSet, Zenon
  <1>3. PICK x \in s : g[s] # f[x] + g[s \ {x}]
    BY <1>2, Zenon
  <1> DEFINE y == First(s)
  <1>4. y \in s /\ g[s] = f[y] + g[s \ {y}] /\ x # y
    BY <1>2, <1>3, FirstIsIn, Zenon DEF Sums
  <1> HIDE DEF y
  <1> DEFINE A == s \ {x}
             B == s \ {y}
  <1>5. /\ A \in SUBSET S /\ B \in SUBSET S /\ s \in SUBSET S
        /\ A \ {y} = B \ {x} /\ y \in A /\ x \in B
    BY <1>3, <1>4, Zenon
  <1>6. /\ Cardinality(A) = Cardinality(s) - 1
        /\ Cardinality(B) = Cardinality(s) - 1
        /\ Cardinality(s) \in Nat
    BY <1>1, <1>4, <1>5, RestIsSmaller, Zenon
  <1>7. g[s] # f[x] + g[A] /\ g[s] = f[y] + g[B]
    BY <1>3, <1>4, Zenon
  <1> HIDE DEF A, B
  <1>8. A \notin T /\ B \notin T
    <2> HIDE DEF T
    <2> QED
      BY <1>2, <1>6
  <1>9. g[A] = f[y] + g[A \ {y}] /\ g[B] = f[x] + g[B \ {x}]
    BY <1>5, <1>8, Zenon
  <1>10. f[x] \in Int /\ f[y] \in Int /\ g[B \ {x}] \in Int
    BY <1>4, <1>5, Zenon
  <1> DEFINE rest == g[B \ {x}]
  <1>11. g[A] = f[y] + rest /\ g[B] = f[x] + rest
    BY <1>5, <1>9, Zenon
  <1> HIDE DEF rest
  <1> QED
    BY <1>7, <1>10, <1>11 DEF rest

(* One more term.                                                          *)
LEMMA SumOfOneMore ==
  ASSUME NEW S, IsFiniteSet(S), NEW x, x \notin S,
         NEW f, \A y \in S \cup {x} : f[y] \in Int
  PROVE  SumFunctionOnSet(f, S \cup {x}) = SumFunctionOnSet(f, S) + f[x]
  <1> DEFINE U == S \cup {x}
  <1>1. IsFiniteSet(U)
    BY FS_AddElement, Zenon
  <1>2. PICK g \in [SUBSET U -> Int] : Sums(g, f, SUBSET U)
    BY <1>1, SumsExist, Zenon
  <1>3. SumFunctionOnSet(f, U) = g[U]
    BY <1>1, <1>2, SumIsSums, Zenon
  <1>4. SumFunctionOnSet(f, S) = g[S]
    <2>1. SUBSET S \subseteq SUBSET U
      BY Zenon
    <2>2. Sums(g, f, SUBSET S)
      BY <1>2, <2>1, Zenon DEF Sums
    <2> QED
      BY <2>2, SumIsSums, Zenon
  <1>5. /\ U \in SUBSET U /\ S \in SUBSET U /\ x \in U /\ U \ {x} = S
        /\ \A y \in U : f[y] \in Int
    BY Zenon
  <1> HIDE DEF U
  <1>6. g[U] = f[x] + g[S]
    BY <1>1, <1>2, <1>5, SumsInAnyOrder
  <1>7. g[S] \in Int /\ f[x] \in Int
    BY <1>5, Zenon
  <1>8. SumFunctionOnSet(f, U) = SumFunctionOnSet(f, S) + f[x]
    BY <1>3, <1>4, <1>6, <1>7
  <1> QED
    BY <1>8, Zenon DEF U

(* One term less.                                                          *)
LEMMA SumOfOneLess ==
  ASSUME NEW S, IsFiniteSet(S), NEW x \in S,
         NEW f, \A y \in S : f[y] \in Int
  PROVE  SumFunctionOnSet(f, S \ {x}) = SumFunctionOnSet(f, S) - f[x]
  <1> DEFINE T == S \ {x}
  <1>1. IsFiniteSet(T) /\ x \notin T /\ T \cup {x} = S
    BY FS_RemoveElement, Zenon
  <1> HIDE DEF T
  <1>2. \A y \in T : f[y] \in Int
    BY <1>1, Zenon
  <1>3. SumFunctionOnSet(f, S) = SumFunctionOnSet(f, T) + f[x]
    BY <1>1, <1>2, SumOfOneMore, Zenon
  <1>4. SumFunctionOnSet(f, T) \in Int
    BY <1>1, <1>2, SumIsInt, Zenon
  <1> QED
    BY <1>3, <1>4 DEF T

(* What one element contributes to a sum.                                  *)
Term(f, S, x) == IF x \in S THEN f[x] ELSE 0

(* Leaving one element aside.                                              *)
LEMMA SumBut ==
  ASSUME NEW S, IsFiniteSet(S), NEW x, NEW f, \A y \in S : f[y] \in Int
  PROVE  SumFunctionOnSet(f, S \ {x}) = SumFunctionOnSet(f, S) - Term(f, S, x)
  <1>1. CASE x \in S
    BY <1>1, SumOfOneLess, Zenon DEF Term
  <1>2. CASE x \notin S
    <2> DEFINE rest == S \ {x}
    <2>1. rest = S
      BY <1>2, Zenon
    <2> HIDE DEF rest
    <2>2. SumFunctionOnSet(f, rest) = SumFunctionOnSet(f, S) - Term(f, S, x)
      BY <1>2, <2>1, SumIsInt DEF Term
    <2> QED
      BY <2>2, Zenon DEF rest
  <1> QED
    BY <1>1, <1>2, Zenon

(* When only one element comes, goes or changes its value, the sum changes *)
(* by what that element contributes.                                       *)
LEMMA SumChange ==
  ASSUME NEW S, NEW T, IsFiniteSet(S), IsFiniteSet(T), NEW x,
         S \ {x} = T \ {x},
         NEW f, NEW h, \A y \in S : f[y] \in Int, \A y \in T : h[y] \in Int,
         \A y \in S \ {x} : f[y] = h[y]
  PROVE  SumFunctionOnSet(h, T)
           = SumFunctionOnSet(f, S) - Term(f, S, x) + Term(h, T, x)
  <1> DEFINE U == S \ {x}
  <1>1. IsFiniteSet(U) /\ U = T \ {x} /\ U \subseteq S
    BY FS_Subset, Zenon
  <1>2. SumFunctionOnSet(f, U) = SumFunctionOnSet(f, S) - Term(f, S, x)
    BY SumBut, Zenon
  <1>3. SumFunctionOnSet(h, U) = SumFunctionOnSet(h, T) - Term(h, T, x)
    BY <1>1, SumBut, Zenon
  <1>4. SumFunctionOnSet(f, U) = SumFunctionOnSet(h, U)
    <2>1. \A y \in U : f[y] \in Int /\ f[y] = h[y]
      BY Zenon
    <2> HIDE DEF U
    <2> QED
      BY <1>1, <2>1, SumOfEqual, Zenon
  <1>5. /\ SumFunctionOnSet(f, S) \in Int /\ SumFunctionOnSet(h, T) \in Int
        /\ Term(f, S, x) \in Int /\ Term(h, T, x) \in Int
    BY SumIsInt DEF Term
  <1> HIDE DEF U
  <1> QED
    BY <1>2, <1>3, <1>4, <1>5

-----------------------------------------------------------------------------
(* The depth first search of DependencyGraph, for any finite graph.        *)

(* A node is on the path or listed only after it was entered, and the loop *)
(* of a node that was not entered has not begun.                           *)
WalkRows(edges) ==
  [ok : BOOLEAN, order : Seq(DOMAIN edges), path : Seq(DOMAIN edges),
   at : [DOMAIN edges -> Nat], root : Nat]

Listed(w) == Range(w.order)
OnPath(w) == Range(w.path)

(* What is listed comes after all it depends on.                           *)
DependenciesFirst(edges, order) ==
  \A j \in DOMAIN order : \A i \in DOMAIN edges[order[j]] :
    \E k \in 1..(j - 1) : order[k] = edges[order[j]][i]

Distinct(s) == \A i, j \in DOMAIN s : s[i] = s[j] => i = j

(* The loop of the node at position k of the path is done with its         *)
(* dependencies before at, but for the last while that one is visited.     *)
LoopOK(edges, w, k) ==
  /\ w.at[w.path[k]] \in 1..(Len(edges[w.path[k]]) + 1)
  /\ \A i \in 1..(w.at[w.path[k]] - 1) :
       \/ edges[w.path[k]][i] \in Listed(w)
       \/ k < Len(w.path) /\ edges[w.path[k]][i] = w.path[k + 1]
  /\ k < Len(w.path) =>
       \E i \in DOMAIN edges[w.path[k]] : edges[w.path[k]][i] = w.path[k + 1]

RootsOK(roots, w) ==
  /\ w.root \in 1..(Len(roots) + 1)
  /\ \A i \in 1..(w.root - 1) :
       roots[i] \in Listed(w) \/ (w.path # <<>> /\ roots[i] = w.path[1])

(* The invariant of the search while it has found no fault.                *)
WalkOK(edges, roots, w) ==
  /\ Distinct(w.order) /\ Distinct(w.path)
  /\ Listed(w) \cap OnPath(w) = {}
  /\ DependenciesFirst(edges, w.order)
  /\ \A k \in DOMAIN w.path : LoopOK(edges, w, k)
  /\ \A p \in DOMAIN edges \ (Listed(w) \cup OnPath(w)) : w.at[p] = 1
  /\ RootsOK(roots, w)

WalkInv(edges, roots, w) ==
  w \in WalkRows(edges) /\ (w.ok => WalkOK(edges, roots, w))

(* The moves of the search, field by field: a node is entered, and a root  *)
(* is taken, an edge followed or a node left.                              *)
Entering(edges, w, v, d) ==
  /\ v.order = w.order
  /\ \/ d \in Listed(w) /\ v.ok = w.ok /\ v.path = w.path
     \/ /\ d \in OnPath(w) \/ d \notin DOMAIN edges
        /\ d \notin Listed(w) /\ v.ok = FALSE /\ v.path = w.path
     \/ /\ d \notin Listed(w) /\ d \notin OnPath(w) /\ d \in DOMAIN edges
        /\ v.ok = w.ok /\ v.path = Append(w.path, d)

RootMove(edges, roots, w, v) ==
  /\ w.path = <<>> /\ w.root <= Len(roots)
  /\ v.root = w.root + 1 /\ v.at = w.at
  /\ Entering(edges, w, v, roots[w.root])

EdgeMove(edges, w, v, p) ==
  /\ w.path # <<>> /\ p = w.path[Len(w.path)]
  /\ w.at[p] <= Len(edges[p])
  /\ v.root = w.root /\ v.at = [w.at EXCEPT ![p] = @ + 1]
  /\ Entering(edges, w, v, edges[p][w.at[p]])

LeaveMove(edges, w, v, p) ==
  /\ w.path # <<>> /\ p = w.path[Len(w.path)]
  /\ w.at[p] > Len(edges[p])
  /\ v.ok = w.ok /\ v.root = w.root /\ v.at = w.at
  /\ v.path = SubSeq(w.path, 1, Len(w.path) - 1)
  /\ v.order = Append(w.order, p)

(* visit enters a node that was not visited, passes by one that is listed, *)
(* and fails on any other.                                                 *)
LEMMA Enters ==
  ASSUME NEW edges, NEW w \in WalkRows(edges), NEW d
  PROVE  /\ Enter(edges, w, d) \in WalkRows(edges)
         /\ Enter(edges, w, d).root = w.root
         /\ Enter(edges, w, d).at = w.at
         /\ Entering(edges, w, Enter(edges, w, d), d)
  <1>1. CASE d \in Range(w.order)
    BY <1>1, Zenon DEF Enter, Entering, Listed
  <1>2. CASE d \notin Range(w.order) /\ (d \in Range(w.path) \/ d \notin DOMAIN edges)
    <2>1. Enter(edges, w, d) = [w EXCEPT !.ok = FALSE]
      BY <1>2, Zenon DEF Enter
    <2> QED
      BY <1>2, <2>1, Zenon DEF Entering, Listed, OnPath, WalkRows
  <1>3. CASE d \notin Range(w.order) /\ d \notin Range(w.path) /\ d \in DOMAIN edges
    <2>1. Enter(edges, w, d) = [w EXCEPT !.path = Append(w.path, d)]
      BY <1>3, Zenon DEF Enter
    <2>2. Append(w.path, d) \in Seq(DOMAIN edges)
      BY <1>3 DEF WalkRows
    <2> QED
      BY <1>3, <2>1, <2>2, Zenon DEF Entering, Listed, OnPath, WalkRows
  <1> QED
    BY <1>1, <1>2, <1>3, Zenon

(* A step takes the next root, follows the next edge of the node on top of *)
(* the path, or leaves that node.                                          *)
LEMMA StepMovesWalk ==
  ASSUME NEW N, NEW D, NEW edges \in [D -> Seq(N)], NEW roots \in Seq(N),
         NEW w \in WalkRows(edges), ~ Finished(roots, w), NEW v,
         v = VisitStep(edges, roots, w)
  PROVE  /\ w.ok /\ v \in WalkRows(edges)
         /\ \/ RootMove(edges, roots, w, v)
            \/ \E p \in D : EdgeMove(edges, w, v, p) \/ LeaveMove(edges, w, v, p)
  <1>1. /\ w.ok /\ DOMAIN edges = D
        /\ w.path \in Seq(D) /\ w.order \in Seq(D)
        /\ w.at \in [D -> Nat] /\ w.root \in Nat
    BY Zenon DEF Finished, WalkRows
  <1>2. CASE w.path = <<>>
    <2> DEFINE u == [w EXCEPT !.root = @ + 1]
    <2>1. v = Enter(edges, u, roots[w.root]) /\ w.root <= Len(roots)
      BY <1>1, <1>2 DEF VisitStep, Finished
    <2>0. w.root + 1 \in Nat
      BY <1>1
    <2>2. /\ u \in WalkRows(edges) /\ u.root = w.root + 1 /\ u.at = w.at
          /\ u.ok = w.ok /\ u.path = w.path /\ u.order = w.order
      BY <2>0, Zenon DEF WalkRows
    <2> HIDE DEF u
    <2>3. /\ v \in WalkRows(edges) /\ v.root = u.root /\ v.at = u.at
          /\ Entering(edges, u, v, roots[w.root])
      BY <2>1, <2>2, Enters
    <2>4. Entering(edges, w, v, roots[w.root])
      BY <2>2, <2>3, Zenon DEF Entering, Listed, OnPath
    <2> QED
      BY <1>1, <1>2, <2>1, <2>2, <2>3, <2>4, Zenon DEF RootMove
  <1>3. CASE w.path # <<>>
    <2> DEFINE p == w.path[Len(w.path)]
    <2>1. p \in D
      BY <1>1, <1>3
    <2>2. v = IF w.at[p] > Len(edges[p]) THEN Leave(w, p)
              ELSE Enter(edges, [w EXCEPT !.at[p] = @ + 1], edges[p][w.at[p]])
      BY <1>1, <1>3, Zenon DEF VisitStep
    <2> HIDE DEF p
    <2>3. edges[p] \in Seq(N) /\ w.at[p] \in Nat
      BY <1>1, <2>1, Zenon
    <2>4. CASE w.at[p] > Len(edges[p])
      <3>1. v = [w EXCEPT !.path = SubSeq(w.path, 1, Len(w.path) - 1),
                          !.order = Append(w.order, p)]
        BY <2>2, <2>4, Zenon DEF Leave, Postorder
      <3>2. /\ SubSeq(w.path, 1, Len(w.path) - 1) \in Seq(D)
            /\ Append(w.order, p) \in Seq(D)
        BY <1>1, <1>3, <2>1
      <3>3. v \in WalkRows(edges)
        BY <1>1, <3>1, <3>2, Zenon DEF WalkRows
      <3>4. LeaveMove(edges, w, v, p)
        BY <1>1, <1>3, <2>4, <3>1, Zenon DEF LeaveMove, p, WalkRows
      <3> QED
        BY <1>1, <2>1, <3>3, <3>4, Zenon
    <2>5. CASE w.at[p] <= Len(edges[p])
      <3> DEFINE u == [w EXCEPT !.at[p] = @ + 1]
                 d == edges[p][w.at[p]]
      <3>1. v = Enter(edges, u, d)
        BY <2>2, <2>3, <2>5
      <3>0. [w.at EXCEPT ![p] = w.at[p] + 1] \in [DOMAIN edges -> Nat]
        BY <1>1, <2>1, <2>3
      <3>2. /\ u \in WalkRows(edges) /\ u.root = w.root
            /\ u.at = [w.at EXCEPT ![p] = @ + 1]
            /\ u.ok = w.ok /\ u.path = w.path /\ u.order = w.order
        BY <3>0, Zenon DEF WalkRows
      <3> HIDE DEF u, d
      <3>3. /\ v \in WalkRows(edges) /\ v.root = u.root /\ v.at = u.at
            /\ Entering(edges, u, v, d)
        BY <3>1, <3>2, Enters
      <3>4. Entering(edges, w, v, d)
        BY <3>2, <3>3, Zenon DEF Entering, Listed, OnPath
      <3>5. EdgeMove(edges, w, v, p)
        BY <1>3, <2>5, <3>2, <3>3, <3>4, Zenon DEF EdgeMove, p, d
      <3> QED
        BY <1>1, <2>1, <3>3, <3>5, Zenon
    <2> QED
      BY <2>3, <2>4, <2>5
  <1> QED
    BY <1>2, <1>3, Zenon

(* The search starts in a state that satisfies its invariant.              *)
LEMMA WalkStarts ==
  ASSUME NEW N, NEW D, NEW edges \in [D -> Seq(N)], NEW roots \in Seq(N)
  PROVE  WalkInv(edges, roots, Unvisited(edges))
  <1> DEFINE w == Unvisited(edges)
  <1>1. w \in WalkRows(edges)
    BY DEF WalkRows, Unvisited
  <1>2. /\ w.order = <<>> /\ w.path = <<>> /\ w.root = 1
        /\ \A p \in DOMAIN edges : w.at[p] = 1
    BY Zenon DEF Unvisited
  <1> HIDE DEF w
  <1>3. Listed(w) = {} /\ OnPath(w) = {}
    BY <1>2 DEF Listed, OnPath, Range
  <1>4. Distinct(w.order) /\ Distinct(w.path) /\ DependenciesFirst(edges, w.order)
    BY <1>2 DEF Distinct, DependenciesFirst
  <1>5. RootsOK(roots, w)
    BY <1>2 DEF RootsOK
  <1> QED
    BY <1>1, <1>2, <1>3, <1>4, <1>5 DEF WalkInv, WalkOK, w

(* Taking a root keeps the invariant of the search.                        *)
LEMMA RootStep ==
  ASSUME NEW N, NEW D, NEW edges \in [D -> Seq(N)], NEW roots \in Seq(N),
         NEW w \in WalkRows(edges), NEW v \in WalkRows(edges),
         WalkOK(edges, roots, w), RootMove(edges, roots, w, v), v.ok
  PROVE  WalkOK(edges, roots, v)
  <1> DEFINE d == roots[w.root]
  <1>1. /\ DOMAIN edges = D /\ w.path = <<>> /\ w.root \in Nat /\ w.root <= Len(roots)
        /\ v.root = w.root + 1 /\ v.at = w.at /\ v.order = w.order
        /\ \/ d \in Listed(w) /\ v.path = w.path
           \/ d \notin Listed(w) /\ d \in D /\ v.path = Append(w.path, d)
    BY Zenon DEF RootMove, Entering, WalkRows
  <1>2. Listed(v) = Listed(w) /\ OnPath(w) = {}
    BY <1>1 DEF Listed, OnPath, Range
  <1>3. Distinct(v.order) /\ DependenciesFirst(edges, v.order)
    BY <1>1, Zenon DEF WalkOK
  <1>4. /\ w.root \in 1..Len(roots)
        /\ \A i \in 1..(w.root - 1) : roots[i] \in Listed(w)
    BY <1>1 DEF WalkOK, RootsOK
  <1>5. \A p \in D \ Listed(w) : w.at[p] = 1
    BY <1>1, <1>2, Zenon DEF WalkOK
  <1> HIDE DEF d
  <1>6. CASE d \in Listed(w) /\ v.path = w.path
    <2>1. RootsOK(roots, v)
      BY <1>1, <1>2, <1>4, <1>6 DEF RootsOK, d
    <2>2. OnPath(v) = {} /\ Distinct(v.path)
      BY <1>1, <1>2, <1>6 DEF OnPath, Distinct
    <2>3. \A k \in DOMAIN v.path : LoopOK(edges, v, k)
      BY <1>1, <1>6
    <2> QED
      BY <1>1, <1>2, <1>3, <1>5, <2>1, <2>2, <2>3, Zenon DEF WalkOK
  <1>7. CASE d \notin Listed(w) /\ d \in D /\ v.path = Append(w.path, d)
    <2>1. v.path = <<d>> /\ Len(v.path) = 1 /\ v.path[1] = d
      BY <1>1, <1>7
    <2>2. OnPath(v) = {d} /\ Distinct(v.path)
      BY <2>1 DEF OnPath, Distinct, Range
    <2>3. RootsOK(roots, v)
      BY <1>1, <1>2, <1>4, <2>1 DEF RootsOK, d
    <2>4. LoopOK(edges, v, 1)
      BY <1>1, <1>5, <1>7, <2>1 DEF LoopOK
    <2> QED
      BY <1>1, <1>2, <1>3, <1>5, <1>7, <2>1, <2>2, <2>3, <2>4 DEF WalkOK
  <1> QED
    BY <1>1, <1>6, <1>7, Zenon

(* Following an edge keeps the invariant of the search.                    *)
LEMMA EdgeStep ==
  ASSUME NEW N, NEW D, NEW edges \in [D -> Seq(N)], NEW roots \in Seq(N),
         NEW w \in WalkRows(edges), NEW v \in WalkRows(edges), NEW p \in D,
         WalkOK(edges, roots, w), EdgeMove(edges, w, v, p), v.ok
  PROVE  WalkOK(edges, roots, v)
  <1> DEFINE d == edges[p][w.at[p]]
             n == Len(w.path)
  <1>1. /\ DOMAIN edges = D /\ w.path \in Seq(D) /\ w.at \in [D -> Nat] /\ w.path # <<>>
        /\ p = w.path[n] /\ w.at[p] <= Len(edges[p])
        /\ v.root = w.root /\ v.at = [w.at EXCEPT ![p] = @ + 1] /\ v.order = w.order
        /\ \/ d \in Listed(w) /\ v.path = w.path
           \/ /\ d \notin Listed(w) /\ d \notin OnPath(w) /\ d \in D
              /\ v.path = Append(w.path, d)
    BY Zenon DEF EdgeMove, Entering, WalkRows
  <1>0. w.path \in Seq(D) /\ w.path # <<>> /\ edges[p] \in Seq(N)
    BY Zenon DEF EdgeMove, WalkRows
  <1>2. /\ n \in Nat /\ n >= 1 /\ edges[p] \in Seq(N)
        /\ DOMAIN w.path = 1..n /\ p = w.path[n]
        /\ \A k \in 1..n : w.path[k] \in D /\ w.path[k] \in OnPath(w)
    <2>1. n \in Nat /\ n >= 1 /\ DOMAIN w.path = 1..n
      BY <1>0
    <2>2. \A k \in 1..n : w.path[k] \in D
      BY <1>0
    <2>3. \A k \in DOMAIN w.path : w.path[k] \in OnPath(w)
      BY Zenon DEF OnPath, Range
    <2> QED
      BY <1>0, <2>1, <2>2, <2>3, Zenon DEF EdgeMove
  <1>3. /\ Listed(v) = Listed(w) /\ Distinct(v.order)
        /\ DependenciesFirst(edges, v.order)
    BY <1>1, Zenon DEF Listed, WalkOK
  <1>4. /\ \A k \in 1..n : LoopOK(edges, w, k)
        /\ Distinct(w.path) /\ Listed(w) \cap OnPath(w) = {} /\ RootsOK(roots, w)
        /\ \A q \in D \ (Listed(w) \cup OnPath(w)) : w.at[q] = 1
    BY <1>2, Zenon DEF WalkOK
  <1> HIDE DEF d, n
  <1>5. \A k \in 1..(n - 1) : w.path[k] # p
    <2> SUFFICES ASSUME NEW k \in 1..(n - 1)
                 PROVE  w.path[k] # w.path[n]
      BY <1>2, Zenon
    <2>1. k \in 1..n /\ n \in 1..n /\ k # n
      BY <1>2
    <2> QED
      BY <1>2, <1>4, <2>1, Zenon DEF Distinct
  <1>6. /\ w.at[p] \in 1..Len(edges[p])
        /\ \A i \in 1..(w.at[p] - 1) : edges[p][i] \in Listed(w)
    <2>1. LoopOK(edges, w, n) /\ w.at[p] <= Len(edges[p]) /\ Len(w.path) = n
      BY <1>1, <1>2, <1>4 DEF n
    <2> QED
      BY <1>2, <2>1 DEF LoopOK
  <1>7. v.at[p] = w.at[p] + 1 /\ \A q \in D \ {p} : v.at[q] = w.at[q]
    BY <1>1, Zenon
  <1>8. CASE d \in Listed(w) /\ v.path = w.path
    <2>1. OnPath(v) = OnPath(w) /\ RootsOK(roots, v)
      BY <1>1, <1>3, <1>4, <1>8, Zenon DEF OnPath, RootsOK
    <2>2. LoopOK(edges, v, n)
      <3>1. v.path[n] = p /\ Len(v.path) = n
        BY <1>1, <1>8, Zenon DEF n
      <3>2. \A i \in 1..w.at[p] : edges[p][i] \in Listed(v)
        BY <1>3, <1>6, <1>8 DEF d
      <3> QED
        BY <1>2, <1>6, <1>7, <3>1, <3>2 DEF LoopOK
    <2>3. ASSUME NEW k \in 1..(n - 1)
          PROVE  LoopOK(edges, v, k)
      <3>1. v.path = w.path /\ v.at[w.path[k]] = w.at[w.path[k]] /\ LoopOK(edges, w, k)
        BY <1>2, <1>4, <1>5, <1>7, <1>8
      <3> QED
        BY <1>3, <3>1, Zenon DEF LoopOK
    <2>4. \A k \in DOMAIN v.path : LoopOK(edges, v, k)
      BY <1>1, <1>2, <1>8, <2>2, <2>3 DEF n
    <2>5. \A q \in D \ (Listed(v) \cup OnPath(v)) : v.at[q] = 1
      BY <1>1, <1>2, <1>3, <1>4, <1>7, <2>1
    <2> QED
      BY <1>1, <1>3, <1>4, <1>8, <2>1, <2>4, <2>5, Zenon DEF WalkOK
  <1>9. CASE /\ d \notin Listed(w) /\ d \notin OnPath(w) /\ d \in D
             /\ v.path = Append(w.path, d)
    <2>1. /\ Len(v.path) = n + 1 /\ v.path[n + 1] = d /\ DOMAIN v.path = 1..(n + 1)
          /\ \A k \in 1..n : v.path[k] = w.path[k]
      BY <1>1, <1>9 DEF n
    <2>2. OnPath(v) = OnPath(w) \cup {d} /\ Distinct(v.path)
      <3>1. OnPath(v) = OnPath(w) \cup {d}
        BY <1>1, <1>9, RangeOfAppend DEF OnPath
      <3>2. \A k \in 1..n : v.path[k] # d
        BY <1>2, <1>9, <2>1, Zenon
      <3> QED
        <4>1. ASSUME NEW i \in 1..(n + 1), NEW j \in 1..(n + 1), v.path[i] = v.path[j]
              PROVE  i = j
          <5>1. (i \in 1..n \/ i = n + 1) /\ (j \in 1..n \/ j = n + 1)
            BY <1>2
          <5>2. i \in 1..n /\ j \in 1..n => i = j
            BY <1>2, <1>4, <2>1, <4>1, Zenon DEF Distinct
          <5> QED
            BY <2>1, <3>2, <4>1, <5>1, <5>2, Zenon
        <4> QED
          BY <2>1, <3>1, <4>1, Zenon DEF Distinct
    <2>3. RootsOK(roots, v)
      BY <1>1, <1>2, <1>3, <1>4, <2>1 DEF RootsOK
    <2>4. v.at[d] = 1
      BY <1>1, <1>2, <1>4, <1>7, <1>9
    <2>5. LoopOK(edges, v, n + 1)
      BY <1>2, <1>9, <2>1, <2>4 DEF LoopOK
    <2>6. LoopOK(edges, v, n)
      <3>1. v.path[n] = p
        BY <1>2, <2>1
      <3>2. \A i \in 1..w.at[p] : edges[p][i] \in Listed(v) \/ edges[p][i] = v.path[n + 1]
        BY <1>3, <1>6, <2>1 DEF d
      <3>3. \E i \in DOMAIN edges[p] : edges[p][i] = v.path[n + 1]
        BY <1>2, <1>6, <2>1 DEF d
      <3>4. /\ n < Len(v.path) /\ v.at[p] - 1 = w.at[p]
            /\ v.at[p] \in 1..(Len(edges[p]) + 1)
        BY <1>2, <1>6, <1>7, <2>1
      <3> QED
        BY <3>1, <3>2, <3>3, <3>4, Zenon DEF LoopOK
    <2>7. ASSUME NEW k \in 1..(n - 1)
          PROVE  LoopOK(edges, v, k)
      <3>1. /\ v.path[k] = w.path[k] /\ v.path[k + 1] = w.path[k + 1]
            /\ k < Len(v.path) /\ k < Len(w.path)
            /\ v.at[w.path[k]] = w.at[w.path[k]] /\ LoopOK(edges, w, k)
        <4>1. k \in 1..n /\ k + 1 \in 1..n /\ k < n /\ k < n + 1
          BY <1>2
        <4>2. Len(w.path) = n
          BY Zenon DEF n
        <4> QED
          BY <1>2, <1>4, <1>5, <1>7, <2>1, <4>1, <4>2, Zenon
      <3> QED
        BY <1>3, <3>1, Zenon DEF LoopOK
    <2>8. \A k \in DOMAIN v.path : LoopOK(edges, v, k)
      BY <1>2, <2>1, <2>5, <2>6, <2>7
    <2>9. \A q \in D \ (Listed(v) \cup OnPath(v)) : v.at[q] = 1
      BY <1>1, <1>2, <1>3, <1>4, <1>7, <2>2
    <2> QED
      BY <1>1, <1>3, <1>4, <1>9, <2>2, <2>3, <2>8, <2>9 DEF WalkOK
  <1> QED
    BY <1>1, <1>8, <1>9, Zenon

(* Leaving a node keeps the invariant of the search and lists the node for *)
(* the first time.                                                         *)
LEMMA LeaveStep ==
  ASSUME NEW N, NEW D, NEW edges \in [D -> Seq(N)], NEW roots \in Seq(N),
         NEW w \in WalkRows(edges), NEW v \in WalkRows(edges), NEW p \in D,
         WalkOK(edges, roots, w), LeaveMove(edges, w, v, p)
  PROVE  /\ WalkOK(edges, roots, v)
         /\ p \notin Listed(w) /\ Listed(v) = Listed(w) \cup {p}
  <1> DEFINE n == Len(w.path)
             m == Len(w.order)
  <1>1. /\ DOMAIN edges = D /\ w.path \in Seq(D) /\ w.order \in Seq(D)
        /\ w.path # <<>> /\ edges[p] \in Seq(N) /\ w.at[p] \in Nat
        /\ v.root = w.root /\ v.at = w.at
        /\ v.path = SubSeq(w.path, 1, n - 1) /\ v.order = Append(w.order, p)
    BY Zenon DEF LeaveMove, WalkRows
  <1>2. /\ n \in Nat /\ n >= 1 /\ DOMAIN w.path = 1..n /\ p = w.path[n]
        /\ Len(v.path) = n - 1 /\ DOMAIN v.path = 1..(n - 1)
        /\ \A k \in 1..(n - 1) : v.path[k] = w.path[k]
    <2>1. n \in Nat /\ n >= 1 /\ DOMAIN w.path = 1..n
      BY <1>1
    <2> QED
      BY <1>1, <2>1 DEF LeaveMove
  <1>3. /\ m \in Nat /\ DOMAIN w.order = 1..m /\ DOMAIN v.order = 1..(m + 1)
        /\ v.order[m + 1] = p /\ \A j \in 1..m : v.order[j] = w.order[j]
    BY <1>1
  <1>4. /\ \A k \in 1..n : LoopOK(edges, w, k)
        /\ Distinct(w.path) /\ Listed(w) \cap OnPath(w) = {} /\ RootsOK(roots, w)
        /\ \A q \in D \ (Listed(w) \cup OnPath(w)) : w.at[q] = 1
        /\ Distinct(w.order) /\ DependenciesFirst(edges, w.order)
    BY <1>1, <1>2, Zenon DEF WalkOK
  <1>5. w.at[p] > Len(edges[p]) /\ Len(w.path) = n
    BY Zenon DEF LeaveMove
  <1> HIDE DEF n, m
  <1>6. Listed(v) = Listed(w) \cup {p}
    BY <1>1, RangeOfAppend, Zenon DEF Listed
  <1>7. \A k \in 1..(n - 1) : w.path[k] # p
    <2> SUFFICES ASSUME NEW k \in 1..(n - 1)
                 PROVE  w.path[k] # w.path[n]
      BY <1>2, Zenon
    <2>1. k \in 1..n /\ n \in 1..n /\ k # n
      BY <1>2
    <2> QED
      BY <1>2, <1>4, <2>1, Zenon DEF Distinct
  <1>8. p \in OnPath(w) /\ OnPath(v) = OnPath(w) \ {p}
    <2>1. n \in 1..n /\ \A k \in 1..n : k \in 1..(n - 1) \/ k = n
      BY <1>2
    <2>2. \A k \in 1..(n - 1) : k \in 1..n
      BY <1>2
    <2>3. OnPath(w) = {w.path[k] : k \in 1..n} /\ OnPath(v) = {v.path[k] : k \in 1..(n - 1)}
      BY <1>2, Zenon DEF OnPath, Range
    <2> QED
      BY <1>2, <1>7, <2>1, <2>2, <2>3, Zenon
  <1>9. p \notin Listed(w)
    BY <1>4, <1>8, Zenon
  <1>10. Distinct(v.path)
    BY <1>2, <1>4 DEF Distinct
  <1>11. Distinct(v.order)
    <2>1. \A j \in 1..m : w.order[j] # p
      BY <1>3, <1>9, Zenon DEF Listed, Range
    <2>2. ASSUME NEW i \in 1..(m + 1), NEW j \in 1..(m + 1), v.order[i] = v.order[j]
          PROVE  i = j
      <3>1. (i \in 1..m \/ i = m + 1) /\ (j \in 1..m \/ j = m + 1)
        BY <1>3
      <3>2. i \in 1..m /\ j \in 1..m => i = j
        BY <1>3, <1>4, <2>2, Zenon DEF Distinct
      <3> QED
        BY <1>3, <2>1, <2>2, <3>1, <3>2, Zenon
    <2> QED
      BY <1>3, <2>2, Zenon DEF Distinct
  <1>12. \A i \in 1..Len(edges[p]) : edges[p][i] \in Listed(w)
    <2>1. LoopOK(edges, w, n)
      BY <1>2, <1>4
    <2>2. \A i \in 1..Len(edges[p]) : i \in 1..(w.at[p] - 1)
      BY <1>1, <1>5
    <2> QED
      BY <1>2, <1>5, <2>1, <2>2 DEF LoopOK
  <1>13. DependenciesFirst(edges, v.order)
    <2>1. ASSUME NEW j \in 1..(m + 1), NEW i \in DOMAIN edges[v.order[j]]
          PROVE  \E k \in 1..(j - 1) : v.order[k] = edges[v.order[j]][i]
      <3>1. CASE j \in 1..m
        <4>1. PICK k \in 1..(j - 1) : w.order[k] = edges[w.order[j]][i]
          BY <1>3, <1>4, <2>1, <3>1, Zenon DEF DependenciesFirst
        <4>2. k \in 1..m
          BY <1>3, <3>1
        <4> QED
          BY <1>3, <3>1, <4>1, <4>2, Zenon
      <3>2. CASE j = m + 1
        <4>1. i \in 1..Len(edges[p]) /\ v.order[j] = p
          BY <1>1, <1>3, <2>1, <3>2
        <4>2. edges[p][i] \in Listed(w)
          BY <1>12, <4>1, Zenon
        <4>3. PICK k \in 1..m : w.order[k] = edges[p][i]
          BY <1>3, <4>2, Zenon DEF Listed, Range
        <4>4. k \in 1..(j - 1)
          BY <1>3, <3>2
        <4> QED
          BY <1>3, <4>1, <4>3, <4>4, Zenon
      <3>3. j \in 1..m \/ j = m + 1
        BY <1>3
      <3> QED
        BY <3>1, <3>2, <3>3, Zenon
    <2> QED
      BY <1>3, <2>1, Zenon DEF DependenciesFirst
  <1>14. ASSUME NEW k \in 1..(n - 1)
         PROVE  LoopOK(edges, v, k)
    <2>1. /\ LoopOK(edges, w, k) /\ k < Len(w.path) /\ v.path[k] = w.path[k]
          /\ v.at = w.at
      <3>1. k \in 1..n /\ k < n
        BY <1>2
      <3> QED
        BY <1>1, <1>2, <1>4, <1>5, <3>1, Zenon
    <2>0. /\ k = n - 1 \/ (k < n - 1 /\ k + 1 \in 1..(n - 1))
          /\ k = n - 1 => k + 1 = n /\ ~ k < n - 1
      BY <1>2
    <2>2. k = n - 1 \/ (k < Len(v.path) /\ v.path[k + 1] = w.path[k + 1])
      BY <1>2, <2>0, Zenon
    <2>3. k = n - 1 => w.path[k + 1] = p /\ ~ k < Len(v.path)
      BY <1>2, <2>0, Zenon
    <2>4. CASE k = n - 1
      BY <1>6, <2>1, <2>3, <2>4, Zenon DEF LoopOK
    <2>5. CASE k # n - 1
      BY <1>6, <2>1, <2>2, <2>5, Zenon DEF LoopOK
    <2> QED
      BY <2>4, <2>5, Zenon
  <1>15. RootsOK(roots, v)
    <2>1. n # 1 => v.path # <<>> /\ v.path[1] = w.path[1]
      <3>1. n # 1 => 1 \in 1..(n - 1) /\ Len(v.path) # 0
        BY <1>2
      <3> QED
        BY <1>2, <3>1, Zenon
    <2>2. n = 1 => w.path[1] = p
      BY <1>2, Zenon
    <2> QED
      BY <1>1, <1>4, <1>6, <2>1, <2>2, Zenon DEF RootsOK
  <1>16. Listed(v) \cap OnPath(v) = {}
    BY <1>4, <1>6, <1>8, Zenon
  <1>17. \A q \in D \ (Listed(v) \cup OnPath(v)) : v.at[q] = 1
    BY <1>1, <1>4, <1>6, <1>8, Zenon
  <1> QED
    BY <1>1, <1>2, <1>6, <1>9, <1>10, <1>11, <1>13, <1>14, <1>15, <1>16, <1>17,
       Zenon DEF WalkOK

(* What the search has done of its chores.                                 *)
DoneChores(edges, w) ==
  {c \in Chores(edges) : IF c[2] = 0 THEN c[1] \in Listed(w)
                                     ELSE c[2] < w.at[c[1]]}

(* A finite graph has finitely many chores.                                *)
LEMMA ChoresAreFinite ==
  ASSUME NEW N, NEW D, IsFiniteSet(D), NEW edges \in [D -> Seq(N)]
  PROVE  IsFiniteSet(Chores(edges)) /\ Cardinality(Chores(edges)) \in Nat
  <1> DEFINE f == [p \in D |-> {p} \X (0..Len(edges[p]))]
             T == {{p} \X (0..Len(edges[p])) : p \in D}
  <1>1. f \in Surjection(D, T)
    BY Zenon DEF Surjection
  <1>2. IsFiniteSet(T)
    <2> HIDE DEF f, T
    <2> QED
      BY <1>1, FS_Surjection, Zenon
  <1>3. ASSUME NEW p \in D PROVE IsFiniteSet({p} \X (0..Len(edges[p])))
    <2>1. Len(edges[p]) \in Int /\ 0 \in Int
      OBVIOUS
    <2>2. IsFiniteSet({p}) /\ IsFiniteSet(0..Len(edges[p]))
      BY <2>1, FS_Singleton, FS_Interval, Zenon
    <2> QED
      BY <2>2, FS_Product, Zenon
  <1>4. \A t \in T : IsFiniteSet(t)
    BY <1>3, Zenon
  <1>5. Chores(edges) = UNION T
    BY Zenon DEF Chores
  <1> HIDE DEF T
  <1> QED
    BY <1>2, <1>4, <1>5, FS_UNION, FS_CardinalityType, Zenon

(* A chore of a node is one of its edges, or its leaving.                  *)
LEMMA ChoreIsAPair ==
  ASSUME NEW N, NEW D, NEW edges \in [D -> Seq(N)]
  PROVE  \A p \in D, i \in Nat : <<p, i>> \in Chores(edges) <=> i <= Len(edges[p])
  <1> SUFFICES ASSUME NEW p \in D, NEW i \in Nat
               PROVE  <<p, i>> \in Chores(edges) <=> i <= Len(edges[p])
    BY Zenon
  <1>1. <<p, i>> \in Chores(edges) <=> \E q \in D : <<p, i>> \in {q} \X (0..Len(edges[q]))
    BY Zenon DEF Chores
  <1>2. \A q \in D : <<p, i>> \in {q} \X (0..Len(edges[q])) <=>
                       p = q /\ i \in 0..Len(edges[q])
    BY Zenon
  <1>3. Len(edges[p]) \in Nat
    OBVIOUS
  <1> QED
    BY <1>1, <1>2, <1>3

(* Every chore is a pair of a node and a position.                         *)
LEMMA ChoresArePairs ==
  ASSUME NEW N, NEW D, NEW edges \in [D -> Seq(N)], NEW c \in Chores(edges)
  PROVE  c[1] \in D /\ c[2] \in Nat /\ c = <<c[1], c[2]>>
  <1>1. PICK p \in D : c \in {p} \X (0..Len(edges[p]))
    BY Zenon DEF Chores
  <1>2. Len(edges[p]) \in Nat
    OBVIOUS
  <1> QED
    BY <1>1, <1>2

(* A step of the search keeps its invariant, and does one more thing.      *)
LEMMA VisitStepMoves ==
  ASSUME NEW N, NEW D, IsFiniteSet(D), NEW edges \in [D -> Seq(N)],
         NEW roots \in Seq(N), NEW w, WalkInv(edges, roots, w),
         ~ Finished(roots, w), NEW v, v = VisitStep(edges, roots, w)
  PROVE  /\ WalkInv(edges, roots, v)
         /\ v.ok => v.root + Cardinality(DoneChores(edges, v)) =
                      w.root + Cardinality(DoneChores(edges, w)) + 1
  <1>1. /\ w \in WalkRows(edges) /\ v \in WalkRows(edges) /\ w.ok
        /\ WalkOK(edges, roots, w)
        /\ \/ RootMove(edges, roots, w, v)
           \/ \E p \in D : EdgeMove(edges, w, v, p) \/ LeaveMove(edges, w, v, p)
    BY StepMovesWalk, Zenon DEF WalkInv
  <1>2. /\ w.root \in Nat /\ w.at \in [D -> Nat] /\ DOMAIN edges = D
        /\ w.path \in Seq(D)
    BY <1>1, Zenon DEF WalkRows
  <1>3. /\ IsFiniteSet(DoneChores(edges, w))
        /\ Cardinality(DoneChores(edges, w)) \in Nat
    BY ChoresAreFinite, FS_Subset, FS_CardinalityType, Zenon DEF DoneChores
  <1>4. SUFFICES ASSUME v.ok
                 PROVE  /\ WalkOK(edges, roots, v)
                        /\ v.root + Cardinality(DoneChores(edges, v)) =
                             w.root + Cardinality(DoneChores(edges, w)) + 1
    BY <1>1, Zenon DEF WalkInv
  <1>5. CASE RootMove(edges, roots, w, v)
    <2>1. WalkOK(edges, roots, v)
      BY <1>1, <1>4, <1>5, RootStep, Zenon
    <2>2. v.order = w.order /\ v.at = w.at /\ v.root = w.root + 1
      BY <1>5, Zenon DEF RootMove, Entering
    <2>3. DoneChores(edges, v) = DoneChores(edges, w)
      BY <2>2, Zenon DEF DoneChores, Listed
    <2> QED
      BY <1>2, <1>3, <2>1, <2>2, <2>3
  <1>6. ASSUME NEW p \in D, EdgeMove(edges, w, v, p)
        PROVE  /\ WalkOK(edges, roots, v)
               /\ v.root + Cardinality(DoneChores(edges, v)) =
                    w.root + Cardinality(DoneChores(edges, w)) + 1
    <2>1. WalkOK(edges, roots, v)
      BY <1>1, <1>4, <1>6, EdgeStep, Zenon
    <2>2. /\ v.order = w.order /\ v.root = w.root /\ v.at = [w.at EXCEPT ![p] = @ + 1]
          /\ w.at[p] <= Len(edges[p]) /\ w.path # <<>> /\ p = w.path[Len(w.path)]
      BY <1>6, Zenon DEF EdgeMove, Entering
    <2>3. Listed(v) = Listed(w)
      BY <2>2, Zenon DEF Listed
    <2>4. w.at[p] \in Nat /\ w.at[p] # 0
      <3>1. Len(w.path) \in DOMAIN w.path
        BY <1>2, <2>2
      <3>2. LoopOK(edges, w, Len(w.path))
        BY <1>1, <3>1, Zenon DEF WalkOK
      <3> QED
        BY <1>2, <2>2, <3>2 DEF LoopOK
    <2> DEFINE c == <<p, w.at[p]>>
    <2>5. c \in Chores(edges)
      BY <2>2, <2>4, ChoreIsAPair, Zenon
    <2>6. c \notin DoneChores(edges, w)
      BY <2>4 DEF DoneChores
    <2>7. ASSUME NEW e \in Chores(edges)
          PROVE  e \in DoneChores(edges, v) <=> e \in DoneChores(edges, w) \/ e = c
      <3>1. e[1] \in D /\ e[2] \in Nat /\ e = <<e[1], e[2]>>
        BY ChoresArePairs, Zenon
      <3>2. e = c <=> e[1] = p /\ e[2] = w.at[p]
        BY <3>1
      <3>3. CASE e[2] = 0
        BY <2>3, <2>4, <3>2, <3>3, Zenon DEF DoneChores
      <3>4. CASE e[2] # 0 /\ e[1] # p
        <4>1. v.at[e[1]] = w.at[e[1]]
          BY <1>2, <2>2, <3>1, <3>4, Zenon
        <4> QED
          BY <3>2, <3>4, <4>1, Zenon DEF DoneChores
      <3>5. CASE e[2] # 0 /\ e[1] = p
        <4>1. v.at[e[1]] = w.at[p] + 1
          BY <1>2, <2>2, <3>5, Zenon
        <4>2. e[2] < w.at[p] + 1 <=> e[2] < w.at[p] \/ e[2] = w.at[p]
          BY <2>4, <3>1
        <4> QED
          BY <3>2, <3>5, <4>1, <4>2, Zenon DEF DoneChores
      <3> QED
        BY <3>3, <3>4, <3>5, Zenon
    <2>8. DoneChores(edges, v) = DoneChores(edges, w) \cup {c}
      <3> HIDE DEF c
      <3>1. /\ DoneChores(edges, v) \subseteq Chores(edges)
            /\ DoneChores(edges, w) \subseteq Chores(edges)
        BY Zenon DEF DoneChores
      <3> QED
        BY <2>5, <2>7, <3>1, Zenon
    <2> HIDE DEF c
    <2>9. Cardinality(DoneChores(edges, v)) = Cardinality(DoneChores(edges, w)) + 1
      BY <1>3, <2>6, <2>8, FS_AddElement, Zenon
    <2> QED
      <3>1. w.root \in Nat /\ v.root = w.root
        BY <1>2, <2>2, Zenon
      <3>2. v.root + Cardinality(DoneChores(edges, v)) =
              w.root + Cardinality(DoneChores(edges, w)) + 1
        BY <1>3, <2>9, <3>1
      <3> QED
        BY <2>1, <3>2, Zenon
  <1>7. ASSUME NEW p \in D, LeaveMove(edges, w, v, p)
        PROVE  /\ WalkOK(edges, roots, v)
               /\ v.root + Cardinality(DoneChores(edges, v)) =
                    w.root + Cardinality(DoneChores(edges, w)) + 1
    <2>1. /\ WalkOK(edges, roots, v)
          /\ p \notin Listed(w) /\ Listed(v) = Listed(w) \cup {p}
      BY <1>1, <1>7, LeaveStep
    <2>2. v.root = w.root /\ v.at = w.at
      BY <1>7, Zenon DEF LeaveMove
    <2> DEFINE c == <<p, 0>>
    <2>3. c \in Chores(edges)
      <3>1. 0 <= Len(edges[p]) /\ 0 \in Nat
        OBVIOUS
      <3> QED
        BY <3>1, ChoreIsAPair, Zenon
    <2>4. c \notin DoneChores(edges, w)
      BY <2>1, Zenon DEF DoneChores
    <2>5. ASSUME NEW e \in Chores(edges)
          PROVE  e \in DoneChores(edges, v) <=> e \in DoneChores(edges, w) \/ e = c
      <3>1. e[1] \in D /\ e[2] \in Nat /\ e = <<e[1], e[2]>>
        BY ChoresArePairs, Zenon
      <3>2. e = c <=> e[1] = p /\ e[2] = 0
        BY <3>1
      <3> QED
        BY <2>1, <2>2, <3>2, Zenon DEF DoneChores
    <2>6. DoneChores(edges, v) = DoneChores(edges, w) \cup {c}
      <3> HIDE DEF c
      <3>1. /\ DoneChores(edges, v) \subseteq Chores(edges)
            /\ DoneChores(edges, w) \subseteq Chores(edges)
        BY Zenon DEF DoneChores
      <3> QED
        BY <2>3, <2>5, <3>1, Zenon
    <2> HIDE DEF c
    <2>7. Cardinality(DoneChores(edges, v)) = Cardinality(DoneChores(edges, w)) + 1
      BY <1>3, <2>4, <2>6, FS_AddElement, Zenon
    <2> QED
      <3>1. w.root \in Nat /\ v.root = w.root
        BY <1>2, <2>2, Zenon
      <3>2. v.root + Cardinality(DoneChores(edges, v)) =
              w.root + Cardinality(DoneChores(edges, w)) + 1
        BY <1>3, <2>7, <3>1
      <3> QED
        BY <2>1, <3>2, Zenon
  <1> QED
    BY <1>1, <1>5, <1>6, <1>7, Zenon

(* Resolve ends the walk that visits step by step.                         *)
IsWalk(edges, roots, walk, last) ==
  /\ walk[0] = Unvisited(edges)
  /\ \A n \in 1..last : walk[n] = VisitStep(edges, roots, walk[n - 1])

(* Resolve is the last state of a walk of at most MaxSteps steps.          *)
LEMMA ResolveIsAWalk ==
  ASSUME NEW N, NEW D, IsFiniteSet(D), NEW edges \in [D -> Seq(N)],
         NEW roots \in Seq(N)
  PROVE  /\ MaxSteps(edges, roots) \in Nat
         /\ \E walk : /\ IsWalk(edges, roots, walk, MaxSteps(edges, roots))
                      /\ Resolve(edges, roots) = walk[MaxSteps(edges, roots)]
  <1> DEFINE V == WalkRows(edges)
             last == MaxSteps(edges, roots)
             step == [x \in (1..last) \X V |-> VisitStep(edges, roots, x[2])]
             Found(f) == f = [n \in 0..last |-> IF n = 0 THEN Unvisited(edges)
                                ELSE VisitStep(edges, roots, f[n - 1])]
             found == CHOOSE f : Found(f)
  <1>1. last \in Nat
    BY ChoresAreFinite DEF MaxSteps
  <1>2. Unvisited(edges) \in V
    BY WalkStarts, Zenon DEF WalkInv
  <1>3. \A w \in V : VisitStep(edges, roots, w) \in V
    <2> SUFFICES ASSUME NEW w \in V PROVE VisitStep(edges, roots, w) \in V
      BY Zenon
    <2>1. CASE Finished(roots, w)
      BY <2>1, Zenon DEF VisitStep
    <2>2. CASE ~ Finished(roots, w)
      BY <2>2, StepMovesWalk, Zenon
    <2> QED
      BY <2>1, <2>2, Zenon
  <1> HIDE DEF V, last
  <1>4. step \in [(1..last) \X V -> V]
    BY <1>3, Zenon
  <1>5. PICK f \in [0..last -> V] : Recursion(f, Unvisited(edges), last, step)
    <2> HIDE DEF step
    <2> QED
      BY <1>1, <1>2, <1>4, RecursionOverNumbers, Zenon
  <1>6. \A n \in 1..last : f[n] = VisitStep(edges, roots, f[n - 1])
    <2> SUFFICES ASSUME NEW n \in 1..last
                 PROVE  f[n] = VisitStep(edges, roots, f[n - 1])
      BY Zenon
    <2>1. n - 1 \in 0..last
      BY <1>1
    <2>2. f[n - 1] \in V /\ f[n] = step[<<n, f[n - 1]>>]
      <3> HIDE DEF step
      <3> QED
        BY <1>5, <2>1, Zenon DEF Recursion
    <2> QED
      BY <2>2, Zenon
  <1>7. Found(f)
    <2> HIDE DEF step
    <2>1. \A n \in 0..last : n = 0 \/ n \in 1..last
      BY <1>1
    <2>2. \A n \in 0..last : f[n] = IF n = 0 THEN Unvisited(edges)
                                ELSE VisitStep(edges, roots, f[n - 1])
      BY <1>5, <1>6, <2>1, Zenon DEF Recursion
    <2> QED
      BY <2>2, Zenon
  <1>8. Found(found)
    <2> HIDE DEF Found
    <2> QED
      BY <1>7, Zenon
  <1>9. Resolve(edges, roots) = found[last]
    BY Zenon DEF Resolve, last
  <1> HIDE DEF found
  <1>10. IsWalk(edges, roots, found, last)
    <2>1. 0 \in 0..last /\ \A n \in 1..last : n \in 0..last /\ n # 0
      BY <1>1
    <2> QED
      BY <1>8, <2>1, Zenon DEF IsWalk
  <1> QED
    BY <1>1, <1>9, <1>10, Zenon DEF last

(* The search ends, and its invariant holds at its end.                    *)
LEMMA ResolveEnds ==
  ASSUME NEW N, NEW D, IsFiniteSet(D), NEW edges \in [D -> Seq(N)],
         NEW roots \in Seq(N)
  PROVE  /\ WalkInv(edges, roots, Resolve(edges, roots))
         /\ Finished(roots, Resolve(edges, roots))
  <1> DEFINE last == MaxSteps(edges, roots)
  <1>1. last \in Nat
    BY ResolveIsAWalk, Zenon
  <1>2. PICK walk : IsWalk(edges, roots, walk, last) /\ Resolve(edges, roots) = walk[last]
    BY ResolveIsAWalk, Zenon
  <1> DEFINE Progress(n) ==
               walk[n].root + Cardinality(DoneChores(edges, walk[n])) = n + 1
             Good(n) == /\ WalkInv(edges, roots, walk[n])
                        /\ Finished(roots, walk[n]) \/ Progress(n)
             S == {n \in Nat : n <= last => Good(n)}
  <1>3. 0 \in S
    <2>1. walk[0] = Unvisited(edges) /\ WalkInv(edges, roots, walk[0])
      BY <1>2, WalkStarts, Zenon DEF IsWalk
    <2>2. /\ walk[0].root = 1 /\ walk[0].order = <<>>
          /\ \A p \in DOMAIN edges : walk[0].at[p] = 1
      BY <2>1 DEF Unvisited
    <2>3. DoneChores(edges, walk[0]) = {}
      <3>1. Listed(walk[0]) = {}
        BY <2>2 DEF Listed, Range
      <3>2. ASSUME NEW c \in Chores(edges) PROVE c \notin DoneChores(edges, walk[0])
        <4>1. c[1] \in D /\ c[2] \in Nat
          BY ChoresArePairs, Zenon
        <4>2. c[2] = 0 \/ ~ c[2] < walk[0].at[c[1]]
          BY <2>2, <4>1
        <4> QED
          BY <3>1, <4>2, Zenon DEF DoneChores
      <3> QED
        BY <3>2, Zenon DEF DoneChores
    <2>4. Progress(0)
      BY <2>2, <2>3, FS_EmptySet
    <2> QED
      BY <2>1, <2>4, Zenon
  <1>4. ASSUME NEW n \in Nat, n \in S PROVE n + 1 \in S
    <2> SUFFICES ASSUME n + 1 <= last PROVE Good(n + 1)
      OBVIOUS
    <2>1. Good(n) /\ n + 1 \in 1..last /\ (n + 1) - 1 = n
      BY <1>1, <1>4
    <2>2. walk[n + 1] = VisitStep(edges, roots, walk[n])
      BY <1>2, <2>1, Zenon DEF IsWalk
    <2>3. CASE Finished(roots, walk[n])
      BY <2>1, <2>2, <2>3, Zenon DEF VisitStep
    <2>4. CASE ~ Finished(roots, walk[n])
      <3>1. /\ WalkInv(edges, roots, walk[n + 1])
            /\ walk[n + 1].ok =>
                 walk[n + 1].root + Cardinality(DoneChores(edges, walk[n + 1])) =
                   walk[n].root + Cardinality(DoneChores(edges, walk[n])) + 1
        BY <2>1, <2>2, <2>4, VisitStepMoves
      <3>2. ~ walk[n + 1].ok => Finished(roots, walk[n + 1])
        BY Zenon DEF Finished
      <3>3. walk[n + 1].ok => Progress(n + 1)
        BY <2>1, <2>4, <3>1, Zenon
      <3> QED
        BY <3>1, <3>2, <3>3, Zenon
    <2> QED
      BY <2>3, <2>4, Zenon
  <1>5. Good(last)
    <2>1. Nat \subseteq S
      <3> HIDE DEF S
      <3> QED
        BY <1>3, <1>4, NumbersByInduction, Zenon
    <2> HIDE DEF Good
    <2> QED
      BY <1>1, <2>1
  <1> DEFINE w == walk[last]
  <1>6. ASSUME ~ Finished(roots, w) PROVE FALSE
    <2>1. /\ w.ok /\ WalkOK(edges, roots, w) /\ w \in WalkRows(edges)
          /\ w.root + Cardinality(DoneChores(edges, w)) = last + 1
      BY <1>5, <1>6, Zenon DEF Finished, WalkInv
    <2> HIDE DEF w
    <2>2. w.root \in 1..(Len(roots) + 1) /\ Len(roots) \in Nat
      BY <2>1 DEF WalkOK, RootsOK
    <2>3. /\ last = Len(roots) + Cardinality(Chores(edges))
          /\ Cardinality(Chores(edges)) \in Nat
          /\ Cardinality(DoneChores(edges, w)) \in Nat
          /\ Cardinality(DoneChores(edges, w)) <= Cardinality(Chores(edges))
          /\ Cardinality(DoneChores(edges, w)) = Cardinality(Chores(edges)) =>
               DoneChores(edges, w) = Chores(edges)
      BY ChoresAreFinite, FS_Subset, FS_CardinalityType, Zenon
         DEF MaxSteps, DoneChores
    <2> HIDE DEF last
    <2>4. /\ w.root = Len(roots) + 1
          /\ Cardinality(DoneChores(edges, w)) = Cardinality(Chores(edges))
      BY <2>1, <2>2, <2>3
    <2>5. DoneChores(edges, w) = Chores(edges) /\ w.root > Len(roots)
      BY <2>2, <2>3, <2>4
    <2>6. w.path # <<>> /\ w.path \in Seq(D)
      BY <1>6, <2>1, <2>5, Zenon DEF Finished, WalkRows, w
    <2>7. PICK p \in D : p \in OnPath(w)
      BY <2>6 DEF OnPath, Range
    <2>8. <<p, 0>> \in Chores(edges)
      <3>1. 0 <= Len(edges[p]) /\ 0 \in Nat
        OBVIOUS
      <3> QED
        BY <3>1, ChoreIsAPair, Zenon
    <2>9. p \in Listed(w)
      BY <2>5, <2>8 DEF DoneChores
    <2> QED
      BY <2>1, <2>7, <2>9, Zenon DEF WalkOK
  <1> QED
    BY <1>2, <1>5, <1>6, Zenon

(* A search that finds no fault lists its roots, each node once and after  *)
(* all it depends on.                                                      *)
LEMMA ResolveOrders ==
  ASSUME NEW N, NEW D, IsFiniteSet(D), NEW edges \in [D -> Seq(N)],
         NEW roots \in Seq(N), Resolve(edges, roots).ok, NEW order,
         order = Resolve(edges, roots).order
  PROVE  /\ order \in Seq(D) /\ Distinct(order) /\ DependenciesFirst(edges, order)
         /\ Range(roots) \subseteq Range(order)
  <1> DEFINE w == Resolve(edges, roots)
  <1>1. WalkInv(edges, roots, w) /\ Finished(roots, w) /\ w.ok /\ order = w.order
    BY ResolveEnds, Zenon
  <1> HIDE DEF w
  <1>2. /\ WalkOK(edges, roots, w) /\ w \in WalkRows(edges)
        /\ w.path = <<>> /\ w.root > Len(roots)
    BY <1>1, Zenon DEF WalkInv, Finished
  <1>3. \A i \in DOMAIN roots : roots[i] \in Listed(w)
    <2>1. RootsOK(roots, w) /\ w.root \in Nat
      BY <1>2, Zenon DEF WalkOK, WalkRows
    <2>2. DOMAIN roots = 1..Len(roots) /\ Len(roots) \in Nat
      OBVIOUS
    <2>3. \A i \in 1..Len(roots) : i \in 1..(w.root - 1)
      BY <1>2, <2>1, <2>2
    <2> QED
      BY <1>2, <2>1, <2>2, <2>3, Zenon DEF RootsOK
  <1>4. order \in Seq(D)
    BY <1>1, <1>2, Zenon DEF WalkRows
  <1> QED
    BY <1>1, <1>2, <1>3, <1>4, Zenon DEF WalkOK, Listed, Range

(* Every set of nodes has one that depends on none of them: there is no    *)
(* cycle.                                                                  *)
Acyclic(edges) ==
  \A S \in SUBSET DOMAIN edges : S # {} =>
    \E p \in S : \A i \in DOMAIN edges[p] : edges[p][i] \notin S

(* Every dependency is a node.                                             *)
Complete(edges) ==
  \A p \in DOMAIN edges : Range(edges[p]) \subseteq DOMAIN edges

(* What can be listed dependencies first has no cycle.                     *)
LEMMA OrderedHasNoCycle ==
  ASSUME NEW D, NEW edges, DOMAIN edges = D, NEW order \in Seq(D),
         DependenciesFirst(edges, order), NEW S \in SUBSET Range(order), S # {}
  PROVE  \E p \in S : \A i \in DOMAIN edges[p] : edges[p][i] \notin S
  <1> DEFINE T == {j \in 1..Len(order) : order[j] \in S}
  <1>1. DOMAIN order = 1..Len(order) /\ Len(order) \in Nat
    OBVIOUS
  <1>2. T \in SUBSET Nat /\ T # {}
    BY <1>1 DEF Range
  <1>3. PICK j \in T : \A k \in T : j <= k
    BY <1>2, LeastNumber, Zenon
  <1>4. ASSUME NEW i \in DOMAIN edges[order[j]], edges[order[j]][i] \in S
        PROVE  FALSE
    <2>1. PICK k \in 1..(j - 1) : order[k] = edges[order[j]][i]
      BY <1>1, <1>3, Zenon DEF DependenciesFirst
    <2>2. k \in T /\ k < j
      BY <1>1, <1>3, <1>4, <2>1
    <2> QED
      BY <1>2, <1>3, <2>2
  <1> QED
    BY <1>3, <1>4, Zenon

(* Nothing on the path leads back to the path where there is no cycle.     *)
LEMMA PathHasNoCycle ==
  ASSUME NEW N, NEW D, NEW edges \in [D -> Seq(N)], NEW roots \in Seq(N),
         NEW w \in WalkRows(edges), WalkOK(edges, roots, w), w.path # <<>>,
         NEW p, p = w.path[Len(w.path)], NEW i \in DOMAIN edges[p],
         edges[p][i] \in OnPath(w)
  PROVE  ~ Acyclic(edges)
  <1> DEFINE n == Len(w.path)
  <1>1. /\ w.path \in Seq(D) /\ DOMAIN edges = D
        /\ n \in Nat /\ n >= 1 /\ DOMAIN w.path = 1..n /\ p = w.path[n]
    BY DEF WalkRows
  <1>2. PICK k \in 1..n : edges[p][i] = w.path[k]
    BY <1>1, Zenon DEF OnPath, Range
  <1> DEFINE S == {w.path[j] : j \in k..n}
  <1>3. S \in SUBSET D /\ S # {}
    <2>1. \A j \in k..n : j \in 1..n
      BY <1>1, <1>2
    <2>2. \A j \in 1..n : w.path[j] \in D
      BY <1>1
    <2>3. n \in k..n
      BY <1>1, <1>2
    <2> HIDE DEF n
    <2> QED
      BY <2>1, <2>2, <2>3, Zenon
  <1> HIDE DEF n
  <1>4. ASSUME NEW q \in S PROVE \E e \in DOMAIN edges[q] : edges[q][e] \in S
    <2>1. PICK j \in k..n : q = w.path[j]
      BY Zenon
    <2>2. CASE j = n
      <3>1. k \in k..n
        BY <1>1, <1>2
      <3> QED
        BY <1>1, <1>2, <2>1, <2>2, <3>1, Zenon
    <2>3. CASE j # n
      <3>1. j \in 1..n /\ j < n /\ j + 1 \in k..n
        BY <1>1, <1>2, <2>3
      <3>2. LoopOK(edges, w, j) /\ j < Len(w.path)
        BY <1>1, <3>1, Zenon DEF WalkOK, n
      <3>3. \E e \in DOMAIN edges[q] : edges[q][e] = w.path[j + 1]
        BY <2>1, <3>2, Zenon DEF LoopOK
      <3> QED
        BY <3>1, <3>3, Zenon
    <2> QED
      BY <2>2, <2>3, Zenon
  <1> HIDE DEF S
  <1> QED
    BY <1>1, <1>3, <1>4, Zenon DEF Acyclic

(* A search of a graph without cycles finds no fault.                      *)
LEMMA ResolveSucceeds ==
  ASSUME NEW N, NEW D, IsFiniteSet(D), NEW edges \in [D -> Seq(N)],
         NEW roots \in Seq(N), Acyclic(edges), Complete(edges),
         Range(roots) \subseteq D
  PROVE  Resolve(edges, roots).ok
  <1> DEFINE last == MaxSteps(edges, roots)
  <1>1. last \in Nat
    BY ResolveIsAWalk, Zenon
  <1>2. PICK walk : IsWalk(edges, roots, walk, last) /\ Resolve(edges, roots) = walk[last]
    BY ResolveIsAWalk, Zenon
  <1> HIDE DEF last
  <1> DEFINE Good(n) == WalkInv(edges, roots, walk[n]) /\ walk[n].ok
             S == {n \in Nat : n <= last => Good(n)}
  <1>3. 0 \in S
    <2>1. walk[0] = Unvisited(edges) /\ WalkInv(edges, roots, walk[0])
      BY <1>2, WalkStarts, Zenon DEF IsWalk
    <2> QED
      BY <2>1 DEF Unvisited
  <1>4. ASSUME NEW n \in Nat, n \in S PROVE n + 1 \in S
    <2> SUFFICES ASSUME n + 1 <= last PROVE Good(n + 1)
      OBVIOUS
    <2> DEFINE w == walk[n]
               v == walk[n + 1]
    <2>1. Good(n) /\ n + 1 \in 1..last /\ (n + 1) - 1 = n
      BY <1>1, <1>4
    <2>2. v = VisitStep(edges, roots, w) /\ WalkInv(edges, roots, w) /\ w.ok
      BY <1>2, <2>1, Zenon DEF IsWalk
    <2>3. CASE Finished(roots, w)
      BY <2>1, <2>2, <2>3, Zenon DEF VisitStep
    <2>4. CASE ~ Finished(roots, w)
      <3> HIDE DEF w, v
      <3>1. WalkInv(edges, roots, v)
        BY <2>2, <2>4, VisitStepMoves, Zenon
      <3>2. w \in WalkRows(edges) /\ WalkOK(edges, roots, w)
        BY <2>2, Zenon DEF WalkInv
      <3>3. \/ RootMove(edges, roots, w, v)
            \/ \E p \in D : EdgeMove(edges, w, v, p) \/ LeaveMove(edges, w, v, p)
        BY <2>2, <2>4, <3>2, StepMovesWalk, Zenon
      <3>4. DOMAIN edges = D /\ w.root \in Nat /\ w.at \in [D -> Nat] /\ w.path \in Seq(D)
        BY <3>2, Zenon DEF WalkRows
      <3>5. ASSUME RootMove(edges, roots, w, v) PROVE v.ok
        <4>1. /\ w.path = <<>> /\ w.root <= Len(roots)
              /\ Entering(edges, w, v, roots[w.root])
          BY <3>5, Zenon DEF RootMove
        <4>2. w.root \in DOMAIN roots
          BY <3>2, <4>1 DEF WalkOK, RootsOK
        <4>3. roots[w.root] \in D /\ OnPath(w) = {}
          BY <4>1, <4>2 DEF Range, OnPath
        <4>4. v.ok = w.ok
          BY <3>4, <4>1, <4>3, Zenon DEF Entering
        <4> QED
          BY <2>2, <4>4, Zenon
      <3>6. ASSUME NEW p \in D, EdgeMove(edges, w, v, p) PROVE v.ok
        <4> DEFINE i == w.at[p]
        <4>1. /\ w.path # <<>> /\ p = w.path[Len(w.path)] /\ i <= Len(edges[p])
              /\ Entering(edges, w, v, edges[p][i])
          BY <3>6, Zenon DEF EdgeMove
        <4>2. i \in DOMAIN edges[p]
          <5>1. Len(w.path) \in DOMAIN w.path
            BY <3>4, <4>1
          <5>2. LoopOK(edges, w, Len(w.path))
            BY <3>2, <5>1, Zenon DEF WalkOK
          <5>3. i \in 1..(Len(edges[p]) + 1) /\ edges[p] \in Seq(N)
            BY <4>1, <5>2, Zenon DEF LoopOK
          <5> QED
            BY <4>1, <5>3
        <4> HIDE DEF i
        <4>3. edges[p][i] \in D
          BY <3>4, <4>2, Zenon DEF Complete, Range
        <4>4. edges[p][i] \notin OnPath(w)
          BY <3>2, <4>1, <4>2, PathHasNoCycle, Zenon
        <4> QED
          BY <2>2, <3>4, <4>1, <4>3, <4>4, Zenon DEF Entering
      <3>7. ASSUME NEW p \in D, LeaveMove(edges, w, v, p) PROVE v.ok
        BY <2>2, <3>7, Zenon DEF LeaveMove
      <3>8. v.ok
        BY <3>3, <3>5, <3>6, <3>7, Zenon
      <3> QED
        BY <3>1, <3>8, Zenon DEF v
    <2> QED
      BY <2>3, <2>4, Zenon
  <1>5. Nat \subseteq S
    <2> HIDE DEF S
    <2> QED
      BY <1>3, <1>4, NumbersByInduction, Zenon
  <1> HIDE DEF Good
  <1>6. Good(last)
    BY <1>1, <1>5
  <1> QED
    BY <1>2, <1>6, Zenon DEF Good

=============================================================================
