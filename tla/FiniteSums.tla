------------------------------ MODULE FiniteSums ------------------------------
(***************************************************************************)
(* What is known of SumFunctionOnSet over a finite set of integers, by     *)
(* induction on the size of the set: the quotas of the media stores are    *)
(* sums over the keys of a record.  The induction itself is over a set of  *)
(* numbers, since none of the provers can instantiate an operator.         *)
(***************************************************************************)
EXTENDS Integers, FiniteSets, Functions, FiniteSetTheorems, WellFoundedInduction, TLAPS

-----------------------------------------------------------------------------
(* Induction over a set of numbers                                          *)

Smaller == {p \in Nat \X Nat : p[1] < p[2]}

\* The order of the numbers is well-founded.
LEMMA SmallerIsWellFounded == IsWellFoundedOn(Smaller, Nat)
<1>1. Smaller = OpToRel(<, Nat)
  BY DEF Smaller, OpToRel
<1> QED BY <1>1, NatLessThanWellFounded

\* A set of numbers has a least one.
LEMMA LeastNumber ==
  ASSUME NEW T \in SUBSET Nat, T # {}
  PROVE  \E n \in T : \A m \in T : n <= m
<1>1. PICK x \in T : \A y \in T : ~ (<<y, x>> \in Smaller)
  BY SmallerIsWellFounded, WFMin
<1>2. ASSUME NEW m \in T PROVE x <= m
  <2>1. ~(<<m, x>> \in Smaller)
    BY <1>1
  <2>2. m \in Nat /\ x \in Nat
    OBVIOUS
  <2>3. <<m, x>> \in Smaller <=> m < x
    BY <2>2 DEF Smaller
  <2> QED BY <2>1, <2>2, <2>3
<1> QED BY <1>2

\* A set that holds 0, and with a number its successor, holds all of them.
LEMMA NumbersByInduction ==
  ASSUME NEW S, 0 \in S, \A n \in Nat : n \in S => n + 1 \in S
  PROVE  Nat \subseteq S
<1> DEFINE T == Nat \ S
<1>1. SUFFICES ASSUME T # {} PROVE FALSE
  OBVIOUS
<1>2. PICK n \in T : \A m \in T : n <= m
  BY <1>1, LeastNumber
<1>3. n # 0 /\ n - 1 \in Nat /\ n - 1 \notin T
  BY <1>2
<1> QED BY <1>2, <1>3

-----------------------------------------------------------------------------
(* The function of subsets by which the sum is defined                      *)

Chosen(s) == CHOOSE x \in s : TRUE
Extended(g, f, s) == IF s = {} THEN 0 ELSE f[Chosen(s)] + g[s \ {Chosen(s)}]
Adds(g, f, S) == g = [s \in SUBSET S |-> Extended(g, f, s)]
UpTo(S, n) == {s \in SUBSET S : Cardinality(s) <= n}

\* The library's definition, with the function it defines named.
LEMMA SumIsChosen ==
  ASSUME NEW f, NEW S
  PROVE  SumFunctionOnSet(f, S) = (CHOOSE g : Adds(g, f, S))[S]
BY DEF SumFunctionOnSet, FoldFunctionOnSet, MapThenFoldSet, Adds, Extended, Chosen

\* Taking the chosen element of a set away leaves a smaller set.
LEMMA ChosenTaken ==
  ASSUME NEW S, IsFiniteSet(S), NEW s \in SUBSET S, s # {}
  PROVE  /\ Chosen(s) \in s /\ s \ {Chosen(s)} \in SUBSET S
         /\ IsFiniteSet(s) /\ Cardinality(s) \in Nat /\ Cardinality(s) # 0
         /\ Cardinality(s \ {Chosen(s)}) = Cardinality(s) - 1
<1>1. Chosen(s) \in s
  BY DEF Chosen
<1>2. IsFiniteSet(s)
  BY FS_Subset
<1>3. Cardinality(s) \in Nat /\ Cardinality(s) # 0
  BY <1>2, FS_CardinalityType, FS_EmptySet
<1>4. Cardinality(s \ {Chosen(s)}) = Cardinality(s) - 1
  BY <1>1, <1>2, FS_RemoveElement
<1> QED BY <1>1, <1>2, <1>3, <1>4

\* What holds for {}, and for a set as soon as for it without any one of its elements,
\* holds for every subset.
LEMMA SubsetsByInduction ==
  ASSUME NEW S, IsFiniteSet(S), NEW K, {} \in K,
         \A s \in SUBSET S : s # {} /\ (\A x \in s : s \ {x} \in K) => s \in K
  PROVE  SUBSET S \subseteq K
<1> DEFINE N == {n \in Nat : UpTo(S, n) \subseteq K}
<1>1. ASSUME NEW s \in SUBSET S
      PROVE  /\ Cardinality(s) \in Nat
             /\ s # {} => Cardinality(s) # 0
             /\ \A x \in s : s \ {x} \in SUBSET S /\ Cardinality(s \ {x}) = Cardinality(s) - 1
  BY FS_Subset, FS_CardinalityType, FS_EmptySet, FS_RemoveElement
<1>2. 0 \in N
  <2>1. ASSUME NEW s \in UpTo(S, 0) PROVE s \in K
    <3>1. s \in SUBSET S /\ Cardinality(s) <= 0
      BY DEF UpTo
    <3>2. s = {}
      BY <1>1, <3>1
    <3> QED BY <3>2
  <2> QED BY <2>1
<1>3. ASSUME NEW n \in Nat, n \in N PROVE n + 1 \in N
  <2>1. ASSUME NEW s \in UpTo(S, n + 1) PROVE s \in K
    <3>1. s \in SUBSET S /\ Cardinality(s) <= n + 1
      BY DEF UpTo
    <3>2. CASE s # {}
      <4>1. ASSUME NEW x \in s PROVE s \ {x} \in K
        BY <1>1, <1>3, <3>1 DEF UpTo
      <4> QED BY <3>1, <3>2, <4>1
    <3> QED BY <3>2
  <2> QED BY <2>1
<1>4. Nat \subseteq N
  <2> HIDE DEF N
  <2> QED BY <1>2, <1>3, NumbersByInduction
<1>5. ASSUME NEW s \in SUBSET S PROVE s \in K
  <2>1. s \in UpTo(S, Cardinality(s))
    BY <1>1 DEF UpTo
  <2> QED BY <1>1, <1>4, <2>1
<1> QED BY <1>5

\* Such a function exists: for the sets up to a size, by induction, and so for all.
LEMMA AddsExists ==
  ASSUME NEW S, IsFiniteSet(S), NEW f, \A x \in S : f[x] \in Int
  PROVE  \E g \in [SUBSET S -> Int] : Adds(g, f, S)
<1> DEFINE Fits(g, n) == g \in [UpTo(S, n) -> Int] /\ \A s \in UpTo(S, n) : g[s] = Extended(g, f, s)
           K == {n \in Nat : \E g \in [UpTo(S, n) -> Int] : Fits(g, n)}
<1>1. 0 \in K
  <2>1. ASSUME NEW s \in UpTo(S, 0) PROVE s = {}
    <3>1. SUFFICES ASSUME s # {} PROVE FALSE
      OBVIOUS
    <3>2. Cardinality(s) \in Nat /\ Cardinality(s) # 0
      BY <3>1, ChosenTaken DEF UpTo
    <3>3. Cardinality(s) <= 0
      BY DEF UpTo
    <3> QED BY <3>2, <3>3
  <2>2. [s \in UpTo(S, 0) |-> 0] \in [UpTo(S, 0) -> Int]
    OBVIOUS
  <2>3. Fits([s \in UpTo(S, 0) |-> 0], 0)
    BY <2>1, <2>2 DEF Extended
  <2> QED BY <2>2, <2>3
<1>2. ASSUME NEW n \in Nat, n \in K PROVE n + 1 \in K
  <2>1. PICK g \in [UpTo(S, n) -> Int] : Fits(g, n)
    BY <1>2
  <2> DEFINE h == [s \in UpTo(S, n + 1) |-> Extended(g, f, s)]
  <2>2. ASSUME NEW s \in UpTo(S, n + 1), s # {}
        PROVE  s \ {Chosen(s)} \in UpTo(S, n) /\ Chosen(s) \in S
    BY <2>2, ChosenTaken DEF UpTo
  <2>3. ASSUME NEW s \in UpTo(S, n + 1) PROVE Extended(g, f, s) \in Int
    BY <2>2 DEF Extended
  <2>4. h \in [UpTo(S, n + 1) -> Int]
    BY <2>3
  <2>5. ASSUME NEW s \in UpTo(S, n) PROVE s \in UpTo(S, n + 1) /\ h[s] = g[s]
    <3>1. IsFiniteSet(s) /\ Cardinality(s) \in Nat
      BY FS_Subset, FS_CardinalityType DEF UpTo
    <3>2. s \in UpTo(S, n + 1)
      BY <3>1 DEF UpTo
    <3> QED BY <2>1, <3>2
  <2>6. ASSUME NEW s \in UpTo(S, n + 1) PROVE h[s] = Extended(h, f, s)
    <3>1. CASE s = {}
      BY <3>1 DEF Extended
    <3>2. CASE s # {}
      <4>1. h[s \ {Chosen(s)}] = g[s \ {Chosen(s)}]
        BY <3>2, <2>2, <2>5
      <4> QED BY <4>1, <3>2 DEF Extended
    <3> QED BY <3>1, <3>2
  <2>7. Fits(h, n + 1)
    BY <2>4, <2>6
  <2>8. \E e \in [UpTo(S, n + 1) -> Int] : Fits(e, n + 1)
    BY <2>4, <2>7
  <2>9. n + 1 \in Nat
    OBVIOUS
  <2> HIDE DEF Fits
  <2> QED BY <2>8, <2>9
<1>3. Nat \subseteq K
  <2> HIDE DEF K
  <2> QED BY <1>1, <1>2, NumbersByInduction
<1>4. Cardinality(S) \in K
  BY <1>3, FS_CardinalityType
<1>5. PICK g \in [UpTo(S, Cardinality(S)) -> Int] : Fits(g, Cardinality(S))
  BY <1>4
<1>6. UpTo(S, Cardinality(S)) = SUBSET S
  BY FS_Subset DEF UpTo
<1>7. Adds(g, f, S)
  BY <1>5, <1>6 DEF Adds
<1> QED BY <1>5, <1>6, <1>7

\* Two such functions agree on the sets that both add up.
LEMMA AddsAgree ==
  ASSUME NEW S, IsFiniteSet(S), NEW T \in SUBSET S, NEW f, NEW g, NEW h, Adds(g, f, S), Adds(h, f, T)
  PROVE  \A s \in SUBSET T : g[s] = h[s]
<1> DEFINE K == {s \in SUBSET T : g[s] = h[s]}
<1>1. IsFiniteSet(T)
  BY FS_Subset
<1>2. ASSUME NEW s \in SUBSET T PROVE g[s] = Extended(g, f, s) /\ h[s] = Extended(h, f, s)
  <2>1. s \in SUBSET S
    OBVIOUS
  <2> QED BY <2>1 DEF Adds
<1>3. {} \in K
  BY <1>2 DEF Extended
<1>4. ASSUME NEW s \in SUBSET T, s # {}, \A x \in s : s \ {x} \in K PROVE s \in K
  <2>1. Chosen(s) \in s
    BY <1>4 DEF Chosen
  <2>2. g[s \ {Chosen(s)}] = h[s \ {Chosen(s)}]
    BY <1>4, <2>1
  <2> QED BY <1>2, <2>2 DEF Extended
<1>5. SUBSET T \subseteq K
  <2> HIDE DEF K
  <2> QED BY <1>1, <1>3, <1>4, SubsetsByInduction
<1> QED BY <1>5

-----------------------------------------------------------------------------
(* The sum                                                                  *)

\* The sum over no key is 0.
LEMMA SumOfNone == ASSUME NEW f PROVE SumFunctionOnSet(f, {}) = 0
<1>1. IsFiniteSet({})
  BY FS_EmptySet
<1>2. PICK g \in [SUBSET {} -> Int] : Adds(g, f, {})
  BY <1>1, AddsExists
<1> DEFINE c == CHOOSE e : Adds(e, f, {})
<1>3. Adds(c, f, {})
  BY <1>2
<1>4. c[{}] = Extended(c, f, {})
  BY <1>3 DEF Adds
<1> QED BY <1>4, SumIsChosen DEF Extended

\* The sum takes the chosen key first.
LEMMA SumTakesChosen ==
  ASSUME NEW S, IsFiniteSet(S), S # {}, NEW f, \A x \in S : f[x] \in Int
  PROVE  /\ SumFunctionOnSet(f, S) = f[Chosen(S)] + SumFunctionOnSet(f, S \ {Chosen(S)})
         /\ SumFunctionOnSet(f, S) \in Int
<1> DEFINE T == S \ {Chosen(S)}
           c == CHOOSE e : Adds(e, f, S)
           d == CHOOSE e : Adds(e, f, T)
<1>1. T \in SUBSET S /\ IsFiniteSet(T) /\ S \in SUBSET S
  BY FS_Subset
<1>2. PICK g \in [SUBSET S -> Int] : Adds(g, f, S)
  BY AddsExists
<1>3. PICK h \in [SUBSET T -> Int] : Adds(h, f, T)
  <2>1. \A x \in T : f[x] \in Int
    BY <1>1
  <2> HIDE DEF T
  <2> QED BY <1>1, <2>1, AddsExists
<1>4. Adds(c, f, S) /\ Adds(d, f, T)
  BY <1>2, <1>3
<1>5. c[T] = d[T] /\ c[S] = g[S]
  <2> HIDE DEF T, c, d
  <2>1. T \in SUBSET T
    OBVIOUS
  <2>2. c[T] = d[T]
    BY <1>1, <1>4, <2>1, AddsAgree
  <2>3. \A s \in SUBSET S : c[s] = g[s]
    BY <1>1, <1>2, <1>4, AddsAgree
  <2> QED BY <1>1, <2>2, <2>3
<1>6. c[S] = f[Chosen(S)] + c[T]
  <2>1. c[S] = Extended(c, f, S)
    BY <1>1, <1>4 DEF Adds
  <2> QED BY <2>1 DEF Extended
<1>7. SumFunctionOnSet(f, S) = c[S] /\ SumFunctionOnSet(f, T) = d[T]
  BY SumIsChosen
<1> QED BY <1>1, <1>2, <1>5, <1>6, <1>7

\* The sum over a finite set is a number.
LEMMA SumIsNumber ==
  ASSUME NEW S, IsFiniteSet(S), NEW f, \A x \in S : f[x] \in Int
  PROVE  SumFunctionOnSet(f, S) \in Int
<1>1. CASE S = {}
  BY <1>1, SumOfNone
<1>2. CASE S # {}
  BY <1>2, SumTakesChosen
<1> QED BY <1>1, <1>2

\* Any key of the set can be taken first.
LEMMA SumSplits ==
  ASSUME NEW S, IsFiniteSet(S), NEW f, \A x \in S : f[x] \in Int, NEW k \in S
  PROVE  SumFunctionOnSet(f, S) = f[k] + SumFunctionOnSet(f, S \ {k})
<1> DEFINE Sum(s) == SumFunctionOnSet(f, s)
           K == {s \in SUBSET S : \A x \in s : Sum(s) = f[x] + Sum(s \ {x})}
<1>1. ASSUME NEW s \in SUBSET S
      PROVE  /\ IsFiniteSet(s) /\ Sum(s) \in Int /\ \A x \in s : f[x] \in Int
             /\ s # {} => Chosen(s) \in s /\ Sum(s) = f[Chosen(s)] + Sum(s \ {Chosen(s)})
  <2>1. IsFiniteSet(s) /\ \A x \in s : f[x] \in Int
    BY FS_Subset
  <2>2. Sum(s) \in Int
    BY <2>1, SumIsNumber
  <2>3. s # {} => Chosen(s) \in s /\ Sum(s) = f[Chosen(s)] + Sum(s \ {Chosen(s)})
    BY <2>1, SumTakesChosen DEF Chosen
  <2> QED BY <2>1, <2>2, <2>3
<1> HIDE DEF Sum
<1>2. {} \in K
  OBVIOUS
<1>3. ASSUME NEW s \in SUBSET S, s # {}, \A x \in s : s \ {x} \in K PROVE s \in K
  <2> DEFINE c == Chosen(s)
  <2>1. c \in s /\ Sum(s) = f[c] + Sum(s \ {c})
    BY <1>1, <1>3
  <2>2. ASSUME NEW x \in s PROVE Sum(s) = f[x] + Sum(s \ {x})
    <3> HIDE DEF c
    <3>1. CASE x = c
      BY <2>1, <3>1
    <3>2. CASE x # c
      <4>1. Sum(s \ {c}) = f[x] + Sum((s \ {c}) \ {x})
        BY <1>3, <2>1, <3>2
      <4>2. Sum(s \ {x}) = f[c] + Sum((s \ {x}) \ {c})
        BY <1>3, <2>1, <3>2
      <4>3. (s \ {c}) \ {x} = (s \ {x}) \ {c}
        OBVIOUS
      <4>4. f[x] \in Int /\ f[c] \in Int /\ Sum((s \ {c}) \ {x}) \in Int
        BY <1>1, <2>1
      <4>5. Sum(s) = f[c] + (f[x] + Sum((s \ {c}) \ {x}))
        BY <2>1, <4>1
      <4>6. Sum(s \ {x}) = f[c] + Sum((s \ {c}) \ {x})
        BY <4>2, <4>3
      <4> QED BY <4>4, <4>5, <4>6
    <3> QED BY <3>1, <3>2
  <2> QED BY <2>2
<1>4. SUBSET S \subseteq K
  <2> HIDE DEF K
  <2> QED BY <1>2, <1>3, SubsetsByInduction
<1> QED BY <1>4 DEF Sum

\* A sum over fewer keys, of values that are not larger, is not larger, when the values
\* of the keys it leaves out are not negative.
LEMMA SumGrows ==
  ASSUME NEW S, IsFiniteSet(S), NEW T \in SUBSET S, NEW f, NEW h,
         \A x \in S : h[x] \in Int,
         \A x \in T : f[x] \in Int /\ f[x] <= h[x],
         \A x \in S \ T : h[x] >= 0
  PROVE  SumFunctionOnSet(f, T) <= SumFunctionOnSet(h, S)
<1> DEFINE Less(s) == SumFunctionOnSet(f, s)
           More(s) == SumFunctionOnSet(h, s)
           K == {s \in SUBSET S : Less(s \cap T) <= More(s)}
<1>1. ASSUME NEW s \in SUBSET S
      PROVE  /\ Less(s \cap T) \in Int /\ More(s) \in Int
             /\ \A x \in s : More(s) = h[x] + More(s \ {x})
             /\ \A x \in s \cap T : Less(s \cap T) = f[x] + Less((s \cap T) \ {x})
  <2>1. IsFiniteSet(s) /\ IsFiniteSet(s \cap T)
    BY FS_Subset
  <2>2. (\A x \in s : h[x] \in Int) /\ (\A x \in s \cap T : f[x] \in Int)
    OBVIOUS
  <2>3. Less(s \cap T) \in Int /\ More(s) \in Int
    BY <2>1, <2>2, SumIsNumber
  <2>4. \A x \in s : More(s) = h[x] + More(s \ {x})
    BY <2>1, <2>2, SumSplits
  <2>5. \A x \in s \cap T : Less(s \cap T) = f[x] + Less((s \cap T) \ {x})
    BY <2>1, <2>2, SumSplits
  <2> QED BY <2>3, <2>4, <2>5
<1>2. {} \in K
  <2>1. {} \cap T = {}
    OBVIOUS
  <2> QED BY <2>1, SumOfNone
<1> HIDE DEF Less, More
<1>3. ASSUME NEW s \in SUBSET S, s # {}, \A x \in s : s \ {x} \in K PROVE s \in K
  <2>1. PICK x \in s : TRUE
    BY <1>3
  <2>2. /\ Less((s \ {x}) \cap T) <= More(s \ {x}) /\ More(s) = h[x] + More(s \ {x})
        /\ Less((s \ {x}) \cap T) \in Int /\ More(s \ {x}) \in Int /\ h[x] \in Int
    BY <1>1, <1>3
  <2>3. CASE x \in T
    <3>1. (s \ {x}) \cap T = (s \cap T) \ {x}
      OBVIOUS
    <3>2. Less(s \cap T) = f[x] + Less((s \ {x}) \cap T) /\ f[x] \in Int /\ f[x] <= h[x]
      BY <1>1, <2>3, <3>1
    <3>3. Less(s \cap T) <= More(s)
      BY <2>2, <3>2
    <3> QED BY <3>3
  <2>4. CASE x \notin T
    <3>1. (s \ {x}) \cap T = s \cap T /\ h[x] >= 0
      BY <2>4
    <3>2. Less(s \cap T) <= More(s)
      BY <2>2, <3>1
    <3> QED BY <3>2
  <2> QED BY <2>3, <2>4
<1>4. SUBSET S \subseteq K
  <2> HIDE DEF K
  <2> QED BY <1>2, <1>3, SubsetsByInduction
<1>5. S \cap T = T /\ S \in SUBSET S
  OBVIOUS
<1> QED BY <1>4, <1>5 DEF Less, More

\* Zeros add up to zero.
LEMMA SumOfZeros ==
  ASSUME NEW S, IsFiniteSet(S), NEW f, \A x \in S : f[x] = 0
  PROVE  SumFunctionOnSet(f, S) = 0
<1>1. \A x \in S : f[x] \in Int
  OBVIOUS
<1>2. SumFunctionOnSet(f, {}) = 0
  BY SumOfNone
<1> DEFINE K == {s \in SUBSET S : SumFunctionOnSet(f, s) = 0}
<1>4. ASSUME NEW s \in SUBSET S, s # {}, \A x \in s : s \ {x} \in K PROVE s \in K
  <2>1. PICK x \in s : s \ {x} \in K
    BY <1>4
  <2>2. IsFiniteSet(s)
    BY FS_Subset
  <2>3. SumFunctionOnSet(f, s) = f[x] + SumFunctionOnSet(f, s \ {x})
    BY <1>1, <2>2, SumSplits
  <2> QED BY <2>1, <2>3
<1>5. {} \in K
  BY <1>2
<1> HIDE DEF K
<1>6. SUBSET S \subseteq K
  BY <1>4, <1>5, SubsetsByInduction
<1> QED BY <1>6 DEF K
-----------------------------------------------------------------------------
(* The first n values of a function                                        *)
\* The sum of the first n values of a function.
Prefix(f, n) == SumFunctionOnSet(f, 0 .. n - 1)

\* The sum up to the next value.
LEMMA PrefixStep ==
  ASSUME NEW n \in Nat, NEW f, \A i \in 0 .. n : f[i] \in Int
  PROVE  Prefix(f, n) \in Int /\ Prefix(f, n + 1) = Prefix(f, n) + f[n]
<1>1. /\ 0 .. (n + 1) - 1 = 0 .. n /\ (0 .. n) \ {n} = 0 .. n - 1 /\ n \in 0 .. n
      /\ 0 .. n - 1 \in SUBSET (0 .. n)
  OBVIOUS
<1>2. IsFiniteSet(0 .. n) /\ IsFiniteSet(0 .. n - 1)
  BY FS_Interval
<1>3. SumFunctionOnSet(f, 0 .. n) = f[n] + SumFunctionOnSet(f, (0 .. n) \ {n})
  BY <1>1, <1>2, SumSplits
<1>4. SumFunctionOnSet(f, 0 .. n - 1) \in Int
  BY <1>1, <1>2, SumIsNumber
<1>5. f[n] \in Int
  BY <1>1
<1>6. SumFunctionOnSet(f, 0 .. n) = SumFunctionOnSet(f, 0 .. n - 1) + f[n]
  <2>1. SumFunctionOnSet(f, (0 .. n) \ {n}) = SumFunctionOnSet(f, 0 .. n - 1)
    BY <1>1, Zenon
  <2> DEFINE whole == SumFunctionOnSet(f, 0 .. n)
             rest == SumFunctionOnSet(f, 0 .. n - 1)
  <2>2. whole = f[n] + rest /\ rest \in Int
    BY <1>3, <1>4, <2>1
  <2> HIDE DEF whole, rest
  <2>3. whole = rest + f[n]
    BY <1>5, <2>2
  <2> QED BY <2>3 DEF whole, rest
<1>7. Prefix(f, n + 1) = SumFunctionOnSet(f, 0 .. n)
  BY <1>1 DEF Prefix
<1> QED BY <1>4, <1>6, <1>7 DEF Prefix

LEMMA PrefixOfNone == ASSUME NEW f PROVE Prefix(f, 0) = 0
<1>1. 0 .. 0 - 1 = {}
  OBVIOUS
<1> QED BY <1>1, SumOfNone DEF Prefix

LEMMA PrefixIsNumber ==
  ASSUME NEW n \in Nat, NEW f, \A i \in 0 .. n - 1 : f[i] \in Int
  PROVE  Prefix(f, n) \in Int
<1>1. IsFiniteSet(0 .. n - 1)
  BY FS_Interval
<1> QED BY <1>1, SumIsNumber DEF Prefix

\* Equal values add up to equal sums.
LEMMA PrefixSame ==
  ASSUME NEW n \in Nat, NEW f, NEW h, \A i \in 0 .. n - 1 : f[i] \in Int /\ h[i] = f[i]
  PROVE  Prefix(h, n) = Prefix(f, n)
<1>1. IsFiniteSet(0 .. n - 1)
  BY FS_Interval
<1>2. Prefix(f, n) \in Int /\ Prefix(h, n) \in Int
  BY PrefixIsNumber
<1>3. Prefix(f, n) <= Prefix(h, n)
  BY <1>1, SumGrows DEF Prefix
<1>4. Prefix(h, n) <= Prefix(f, n)
  BY <1>1, SumGrows DEF Prefix
<1> QED BY <1>2, <1>3, <1>4

\* One value changes.
LEMMA PrefixChange ==
  ASSUME NEW n \in Nat, NEW f, NEW h, NEW k \in 0 .. n - 1,
         h[k] \in Int,
         \A i \in 0 .. n - 1 : f[i] \in Int,
         \A i \in 0 .. n - 1 : i # k => h[i] = f[i]
  PROVE  Prefix(f, n) \in Int /\ Prefix(h, n) = Prefix(f, n) + (h[k] - f[k])
<1>h. \A i \in 0 .. n - 1 : h[i] \in Int
  OBVIOUS
<1> DEFINE D == 0 .. n - 1
           E == D \ {k}
<1>0. IsFiniteSet(D)
  BY FS_Interval
<1>1. IsFiniteSet(D) /\ IsFiniteSet(E) /\ E \in SUBSET D
  BY <1>0, FS_Subset
<1>2. /\ SumFunctionOnSet(f, D) = f[k] + SumFunctionOnSet(f, E)
      /\ SumFunctionOnSet(h, D) = h[k] + SumFunctionOnSet(h, E)
  BY <1>1, <1>h, SumSplits
<1>3. SumFunctionOnSet(f, E) \in Int /\ SumFunctionOnSet(h, E) \in Int
  BY <1>1, <1>h, SumIsNumber
<1>4. SumFunctionOnSet(f, E) <= SumFunctionOnSet(h, E)
  BY <1>1, <1>h, SumGrows
<1>5. SumFunctionOnSet(h, E) <= SumFunctionOnSet(f, E)
  BY <1>1, <1>h, SumGrows
<1>6. Prefix(f, n) = SumFunctionOnSet(f, D) /\ Prefix(h, n) = SumFunctionOnSet(h, D)
  BY DEF Prefix
<1>7. f[k] \in Int /\ h[k] \in Int
  BY <1>h
<1> HIDE DEF D, E
<1> QED BY <1>2, <1>3, <1>4, <1>5, <1>6, <1>7

\* A tick moves every value on by one place.
LEMMA PrefixShift ==
  ASSUME NEW m \in Nat, NEW f, NEW h, \A i \in 0 .. m - 1 : f[i] \in Int,
         h[0] = 0, \A i \in 1 .. m : h[i] = f[i - 1]
  PROVE  Prefix(h, m + 1) = Prefix(f, m)
<1> DEFINE K == {n \in Nat : n <= m => Prefix(h, n + 1) = Prefix(f, n)}
<1>1. \A i \in 0 .. m : h[i] \in Int
  <2> TAKE i \in 0 .. m
  <2>1. CASE i = 0
    BY <2>1
  <2>2. CASE i # 0
    <3>1. i \in 1 .. m /\ i - 1 \in 0 .. m - 1
      BY <2>2
    <3> QED BY <3>1
  <2> QED BY <2>1, <2>2
<1>2. 0 \in K
  <2>1. Prefix(f, 0) = 0 /\ Prefix(h, 0) = 0
    BY PrefixOfNone
  <2>2. \A i \in 0 .. 0 : h[i] \in Int
    OBVIOUS
  <2>3. Prefix(h, 0 + 1) = Prefix(h, 0) + h[0]
    BY <2>2, PrefixStep
  <2> QED BY <2>1, <2>3
<1>3. ASSUME NEW n \in Nat, n \in K PROVE n + 1 \in K
  <2>1. SUFFICES ASSUME n + 1 <= m PROVE Prefix(h, (n + 1) + 1) = Prefix(f, n + 1)
    OBVIOUS
  <2>2. Prefix(h, n + 1) = Prefix(f, n)
    BY <1>3, <2>1
  <2>3. Prefix(f, n + 1) = Prefix(f, n) + f[n]
    <3>1. \A i \in 0 .. n : f[i] \in Int
      BY <2>1
    <3> QED BY <3>1, PrefixStep
  <2>4. Prefix(h, (n + 1) + 1) = Prefix(h, n + 1) + h[n + 1]
    <3>1. \A i \in 0 .. n + 1 : h[i] \in Int
      BY <1>1, <2>1
    <3> QED BY <3>1, PrefixStep
  <2>5. h[n + 1] = f[n]
    <3>1. n + 1 \in 1 .. m /\ (n + 1) - 1 = n
      BY <2>1
    <3> QED BY <3>1
  <2> QED BY <2>2, <2>3, <2>4, <2>5
<1>4. Nat \subseteq K
  <2> HIDE DEF K
  <2> QED BY <1>2, <1>3, NumbersByInduction
<1>5. m \in K
  BY <1>4
<1> QED BY <1>5
===============================================================================
