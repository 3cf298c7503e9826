---------------------------- MODULE SumTheorems ----------------------------
(***************************************************************************)
(* Sums over finite sets, for the proofs of the other modules. The models  *)
(* add with SumFunction and SumFunctionOnSet of the community module       *)
(* Functions, which are folds: a function chosen to satisfy a recursive    *)
(* equation on the subsets of a set. The first lemmas show that there is   *)
(* exactly one such function on a finite set, by induction over the set;   *)
(* the others are what is said of a sum: one term more, one term changed,  *)
(* two sums in one, and the same sum by groups. The last ones are about    *)
(* sequences of sequences and their flattening.                            *)
(***************************************************************************)
EXTENDS Integers, SequencesExt, FiniteSetTheorems, WellFoundedInduction, TLAPS

(* Induction over the subsets of a finite set: a set G that holds every subset*)
(* all of whose proper subsets it holds, holds them all. G is a set, not an   *)
(* operator, so that the lemma can be cited.                                  *)
LEMMA SetInduction ==
  ASSUME NEW S, IsFiniteSet(S), NEW G,
         \A T \in SUBSET S : (\A U \in SUBSET T : U # T => U \in G) => T \in G
  PROVE  SUBSET S \subseteq G
  <1>0. FiniteSubsetsOf(S) = SUBSET S
    BY FS_FiniteSubsetsOfFinite, Zenon
  <1>a. IsWellFoundedOn(StrictSubsetOrdering(S), FiniteSubsetsOf(S))
    BY FS_StrictSubsetOrderingWellFounded, Zenon
  <1>1. IsWellFoundedOn(StrictSubsetOrdering(S), SUBSET S)
    BY <1>0, <1>a, Zenon
  <1> SUFFICES ASSUME ~(SUBSET S \subseteq G) PROVE FALSE
    OBVIOUS
  <1> DEFINE Bad == (SUBSET S) \ G
  <1>2. Bad \subseteq SUBSET S /\ Bad # {}
    OBVIOUS
  <1>3. PICK T \in Bad : \A U \in Bad : ~(<<U, T>> \in StrictSubsetOrdering(S))
    <2> HIDE DEF Bad
    <2>1. QED
      BY <1>1, <1>2, WFMin
  <1>4. T \in SUBSET S /\ T \notin G
    OBVIOUS
  <1>5. PICK U \in SUBSET T : U # T /\ U \notin G
    BY <1>4
  <1>6. <<U, T>> \in StrictSubsetOrdering(S)
    BY <1>4, <1>5 DEF StrictSubsetOrdering
  <1>7. QED
    BY <1>3, <1>4, <1>5, <1>6 DEF Bad

(* The element that the folds of the community modules take from s.           *)
OneOf(s) == CHOOSE x \in s : TRUE

(* One step of the fold behind SumFunctionOnSet, on the set s.                *)
Rec(f, s, it) == IF s = {} THEN 0 ELSE f[OneOf(s)] + it[s \ {OneOf(s)}]

(* The recursive function that adds f over every subset of S.                 *)
Iter(f, S, it) == it = [s \in SUBSET S |-> Rec(f, s, it)]

(* OneOf(s) is an element of s.                                                 *)
LEMMA OneOfIn == ASSUME NEW s, s # {} PROVE OneOf(s) \in s
  BY DEF OneOf

(* The sum over S is the value at S of the recursive function it chooses.     *)
LEMMA SumIs ==
  ASSUME NEW f, NEW S
  PROVE  SumFunctionOnSet(f, S) = (CHOOSE it : Iter(f, S, it))[S]
  BY DEF SumFunctionOnSet, FoldFunctionOnSet, MapThenFoldSet, OneOf, Rec, Iter

(* Two such functions agree on the subsets that both are defined on.          *)
LEMMA IterUnique ==
  ASSUME NEW f, NEW S, IsFiniteSet(S), NEW i, Iter(f, S, i),
         NEW T \in SUBSET S, NEW j, Iter(f, T, j)
  PROVE  \A s \in SUBSET T : i[s] = j[s]
  <1> DEFINE G == {s \in SUBSET T : i[s] = j[s]}
  <1>1. IsFiniteSet(T)
    BY FS_Subset
  <1>2. ASSUME NEW s \in SUBSET T, \A U \in SUBSET s : U # s => U \in G
        PROVE  s \in G
    <2>1. i[s] = Rec(f, s, i) /\ j[s] = Rec(f, s, j)
      BY DEF Iter
    <2>2. CASE s = {}
      BY <2>1, <2>2 DEF Rec
    <2>3. CASE s # {}
      <3>1. OneOf(s) \in s
        BY <2>3, OneOfIn
      <3>2. s \ {OneOf(s)} \in G
        BY <3>1, <1>2
      <3>3. QED
        BY <2>1, <2>3, <3>2 DEF Rec
    <2>4. QED
      BY <2>2, <2>3
  <1>3. SUBSET T \subseteq G
    <2> HIDE DEF G
    <2>1. QED
      BY <1>1, <1>2, SetInduction
  <1>4. QED
    BY <1>3

(* There is such a function for every finite set.                             *)
LEMMA IterExists ==
  ASSUME NEW f, NEW S, IsFiniteSet(S)
  PROVE  \A T \in SUBSET S : \E it : Iter(f, T, it)
  <1> DEFINE G == {T \in SUBSET S : \E it : Iter(f, T, it)}
  <1>2. ASSUME NEW T \in SUBSET S, \A U \in SUBSET T : U # T => U \in G
        PROVE  T \in G
    <2> DEFINE on(U) == CHOOSE it : Iter(f, U, it)
               below(U) == Rec(f, U, on(U \ {OneOf(U)}))
               all == [s \in SUBSET T |-> below(s)]
    <2>1. \A U \in SUBSET T : U # T => Iter(f, U, on(U))
      BY <1>2
    <2>f. \A U \in SUBSET T : IsFiniteSet(U)
      BY FS_Subset
    <2>2. ASSUME NEW s \in SUBSET T
          PROVE  below(s) = Rec(f, s, all)
      <3>1. CASE s = {}
        BY <3>1 DEF Rec
      <3>2. CASE s # {}
        <4> DEFINE r == s \ {OneOf(s)}
        <4>1. OneOf(s) \in s
          BY <3>2, OneOfIn
        <4>2. r \in SUBSET T /\ r # T
          BY <4>1
        <4>3. Iter(f, r, on(r))
          BY <2>1, <4>2
        <4>4. on(r)[r] = Rec(f, r, on(r))
          BY <4>3 DEF Iter
        <4>5. Rec(f, r, on(r)) = below(r)
          <5>1. CASE r = {}
            BY <5>1 DEF Rec
          <5>2. CASE r # {}
            <6> DEFINE q == r \ {OneOf(r)}
            <6>1. OneOf(r) \in r
              BY <5>2, OneOfIn
            <6>2. q \in SUBSET r /\ q # T /\ q \in SUBSET T
              BY <6>1, <4>2
            <6>3. Iter(f, q, on(q))
              BY <2>1, <6>2
            <6>4. on(r)[q] = on(q)[q]
              <7>1. IsFiniteSet(r)
                BY <4>2, <2>f
              <7>2. q \in SUBSET r
                BY <6>2
              <7>3. \A u \in SUBSET q : on(r)[u] = on(q)[u]
                <8> HIDE DEF on, q, r
                <8>1. QED
                  BY <4>3, <6>3, <7>1, <7>2, IterUnique
              <7>4. QED
                BY <7>3
            <6>5. QED
              BY <6>4, <5>2 DEF Rec
          <5>3. QED
            BY <5>1, <5>2
        <4>6. all[r] = on(r)[r]
          BY <4>2, <4>4, <4>5
        <4>7. QED
          BY <4>6, <3>2 DEF Rec
      <3>3. QED
        BY <3>1, <3>2
    <2>3. Iter(f, T, all)
      <3>1. all = [s \in SUBSET T |-> Rec(f, s, all)]
        <4> HIDE DEF below
        <4>1. QED
          BY <2>2
      <3>2. QED
        BY <3>1 DEF Iter
    <2>4. QED
      BY <2>3
  <1>3. SUBSET S \subseteq G
    <2> HIDE DEF G
    <2>1. QED
      BY <1>2, SetInduction
  <1>4. QED
    BY <1>3

(* Nothing adds up to zero.                                                   *)
LEMMA SumEmpty == ASSUME NEW f PROVE SumFunctionOnSet(f, {}) = 0
  <1> DEFINE it == CHOOSE it : Iter(f, {}, it)
  <1>1. Iter(f, {}, it)
    BY FS_EmptySet, IterExists
  <1>2. it[{}] = 0
    <2> HIDE DEF it
    <2>1. QED
      BY <1>1 DEF Iter, Rec
  <1>3. QED
    BY <1>2, SumIs

(* The sum takes one element and adds the sum of the others.                  *)
LEMMA SumStep ==
  ASSUME NEW f, NEW S, IsFiniteSet(S), S # {}
  PROVE SumFunctionOnSet(f, S) = f[OneOf(S)] + SumFunctionOnSet(f, S \ {OneOf(S)})
  <1> DEFINE i == CHOOSE it : Iter(f, S, it)
             R == S \ {OneOf(S)}
             j == CHOOSE it : Iter(f, R, it)
  <1>0. R \in SUBSET S
    OBVIOUS
  <1>1. Iter(f, S, i)
    BY IterExists
  <1>2. Iter(f, R, j)
    BY IterExists
  <1>3. i[R] = j[R]
    <2> HIDE DEF i, j, R
    <2>1. QED
      BY <1>0, <1>1, <1>2, IterUnique
  <1>4. i[S] = f[OneOf(S)] + i[R]
    <2> HIDE DEF i
    <2>1. QED
      BY <1>1 DEF Iter, Rec
  <1>5. SumFunctionOnSet(f, S) = i[S] /\ SumFunctionOnSet(f, R) = j[R]
    BY SumIs
  <1> HIDE DEF i, j
  <1>6. QED
    BY <1>3, <1>4, <1>5

(* The sum of integers is an integer, and any element can be taken out first. *)
LEMMA SumTerms ==
  ASSUME NEW f, NEW S, IsFiniteSet(S), \A y \in S : f[y] \in Int
  PROVE  /\ SumFunctionOnSet(f, S) \in Int
         /\ \A x \in S : SumFunctionOnSet(f, S) = f[x] + SumFunctionOnSet(f, S \ {x})
  <1> DEFINE Sum(T) == SumFunctionOnSet(f, T)
             Splits(T) == Sum(T) \in Int /\ \A x \in T : Sum(T) = f[x] + Sum(T \ {x})
             G == {T \in SUBSET S : Splits(T)}
  <1>1. ASSUME NEW T \in SUBSET S, \A U \in SUBSET T : U # T => U \in G
        PROVE  T \in G
    <2>1. CASE T = {}
      <3>1. Sum({}) = 0
        BY SumEmpty
      <3>2. QED
        BY <2>1, <3>1
    <2>2. CASE T # {}
      <3> DEFINE a == OneOf(T)
      <3>1. a \in T
        BY <2>2, OneOfIn
      <3>2. Sum(T) = f[a] + Sum(T \ {a})
        BY <2>2, SumStep, FS_Subset
      <3>3. Splits(T \ {a})
        BY <1>1, <3>1
      <3>4. Sum(T) \in Int
        BY <3>1, <3>2, <3>3
      <3>5. ASSUME NEW x \in T PROVE Sum(T) = f[x] + Sum(T \ {x})
        <4>1. CASE x = a
          BY <4>1, <3>2
        <4>2. CASE x # a
          <5>1. Splits(T \ {x})
            BY <1>1
          <5>2. (T \ {a}) \ {x} = (T \ {x}) \ {a}
            OBVIOUS
          <5>3. Sum(T \ {a}) = f[x] + Sum((T \ {x}) \ {a})
            BY <3>3, <4>2, <5>2
          <5>4. Sum(T \ {x}) = f[a] + Sum((T \ {x}) \ {a})
            BY <5>1, <4>2, <3>1
          <5>5. (T \ {x}) \ {a} \in G
            BY <1>1
          <5>6. Sum((T \ {x}) \ {a}) \in Int
            BY <5>5
          <5>7. f[x] \in Int /\ f[a] \in Int
            BY <3>1
          <5> HIDE DEF Sum, a
          <5>8. QED
            BY <3>2, <5>3, <5>4, <5>6, <5>7
        <4>3. QED
          BY <4>1, <4>2
      <3>6. QED
        BY <3>4, <3>5
    <2>3. QED
      BY <2>1, <2>2
  <1>2. SUBSET S \subseteq G
    <2> HIDE DEF G
    <2>1. QED
      BY <1>1, SetInduction
  <1>3. QED
    BY <1>2

(* Induction over a finite set, one element more at a time.                   *)
LEMMA AddInduction ==
  ASSUME NEW S, IsFiniteSet(S), NEW G, {} \in G,
         \A T \in SUBSET S : \A x \in S \ T : T \in G => T \cup {x} \in G
  PROVE  SUBSET S \subseteq G
  <1>1. ASSUME NEW T \in SUBSET S, \A U \in SUBSET T : U # T => U \in G
        PROVE  T \in G
    <2>1. CASE T = {}
      BY <2>1
    <2>2. CASE T # {}
      <3>1. PICK x \in T : TRUE
        BY <2>2
      <3>2. T \ {x} \in G /\ T \ {x} \in SUBSET S /\ x \in S \ (T \ {x})
        BY <1>1, <3>1
      <3>3. (T \ {x}) \cup {x} \in G
        BY <3>2
      <3>4. (T \ {x}) \cup {x} = T
        BY <3>1
      <3>5. QED
        BY <3>3, <3>4
    <2>3. QED
      BY <2>1, <2>2
  <1>2. QED
    BY <1>1, SetInduction

(* A finite set of numbers that is not empty has a greatest element.          *)
LEMMA HasGreatest ==
    ASSUME NEW S \in SUBSET Int, IsFiniteSet(S), S # {}
    PROVE  \E m \in S : \A x \in S : x <= m
<1> DEFINE G == {T \in SUBSET S : T = {} \/ \E m \in T : \A x \in T : x <= m}
<1>1. \A T \in SUBSET S : \A y \in S \ T : T \in G => T \cup {y} \in G
  <2> SUFFICES ASSUME NEW T \in SUBSET S, NEW y \in S \ T, T \in G
               PROVE  \E m \in T \cup {y} : \A x \in T \cup {y} : x <= m
    OBVIOUS
  <2>1. CASE T = {}
    BY <2>1
  <2>2. CASE \E m \in T : \A x \in T : x <= m
    <3>1. PICK m \in T : \A x \in T : x <= m
      BY <2>2
    <3>2. CASE y <= m
      BY <3>1, <3>2
    <3>3. CASE ~ (y <= m)
      <4>1. \A x \in T \cup {y} : x <= y
        BY <3>1, <3>3
      <4> QED
        BY <4>1
    <3> QED
      BY <3>2, <3>3
  <2> QED
    BY <2>1, <2>2
<1>2. {} \in G
  OBVIOUS
<1> HIDE DEF G
<1>3. S \in G
  BY <1>1, <1>2, AddInduction
<1> QED
  BY <1>3 DEF G

(* One element more adds its term.                                            *)
LEMMA SumAdd ==
  ASSUME NEW f, NEW S, IsFiniteSet(S), NEW x, x \notin S, \A y \in S \cup {x} : f[y] \in Int
  PROVE  SumFunctionOnSet(f, S \cup {x}) = f[x] + SumFunctionOnSet(f, S)
  <1>1. (S \cup {x}) \ {x} = S
    OBVIOUS
  <1>2. IsFiniteSet(S \cup {x})
    BY FS_AddElement
  <1>3. SumFunctionOnSet(f, S \cup {x}) = f[x] + SumFunctionOnSet(f, (S \cup {x}) \ {x})
    BY <1>2, SumTerms
  <1>4. QED
    BY <1>1, <1>3

(* The sum of naturals is a natural, and no term is larger than it.           *)
LEMMA SumNat ==
  ASSUME NEW f, NEW S, IsFiniteSet(S), \A y \in S : f[y] \in Nat
  PROVE  /\ SumFunctionOnSet(f, S) \in Nat
         /\ \A x \in S : f[x] <= SumFunctionOnSet(f, S)
  <1> DEFINE Sum(T) == SumFunctionOnSet(f, T)
             G == {T \in SUBSET S : Sum(T) \in Nat}
  <1>1. {} \in G
    BY SumEmpty
  <1>2. ASSUME NEW T \in SUBSET S, NEW x \in S \ T, T \in G PROVE T \cup {x} \in G
    <2>1. Sum(T \cup {x}) = f[x] + Sum(T)
      BY SumAdd, FS_Subset
    <2>2. QED
      BY <2>1, <1>2
  <1>3. SUBSET S \subseteq G
    <2> HIDE DEF G
    <2>1. QED
      BY <1>1, <1>2, AddInduction
  <1>4. ASSUME NEW x \in S PROVE f[x] <= Sum(S)
    <2>1. Sum(S) = f[x] + Sum(S \ {x})
      BY SumTerms
    <2>2. Sum(S \ {x}) \in Nat
      BY <1>3
    <2>3. QED
      BY <2>1, <2>2
  <1>5. QED
    BY <1>3, <1>4

(* Functions that agree on a set have the same sum over it.                   *)
LEMMA SumSame ==
  ASSUME NEW f, NEW g, NEW S, IsFiniteSet(S), \A y \in S : f[y] \in Int /\ f[y] = g[y]
  PROVE  SumFunctionOnSet(f, S) = SumFunctionOnSet(g, S)
  <1> DEFINE G == {T \in SUBSET S : SumFunctionOnSet(f, T) = SumFunctionOnSet(g, T)}
  <1>1. {} \in G
    BY SumEmpty
  <1>2. ASSUME NEW T \in SUBSET S, NEW x \in S \ T, T \in G PROVE T \cup {x} \in G
    <2>1. SumFunctionOnSet(f, T \cup {x}) = f[x] + SumFunctionOnSet(f, T)
      BY SumAdd, FS_Subset
    <2>2. SumFunctionOnSet(g, T \cup {x}) = g[x] + SumFunctionOnSet(g, T)
      BY SumAdd, FS_Subset
    <2>3. QED
      BY <2>1, <2>2, <1>2
  <1>3. SUBSET S \subseteq G
    <2> HIDE DEF G
    <2>1. QED
      BY <1>1, <1>2, AddInduction
  <1>4. QED
    BY <1>3

(* A function changed at one element has its sum changed by as much.          *)
LEMMA SumChange ==
  ASSUME NEW f, NEW g, NEW S, IsFiniteSet(S), NEW x \in S,
         \A y \in S : f[y] \in Int /\ g[y] \in Int,
         \A y \in S \ {x} : f[y] = g[y]
  PROVE  SumFunctionOnSet(g, S) = SumFunctionOnSet(f, S) + g[x] - f[x]
  <1>1. IsFiniteSet(S \ {x})
    BY FS_Subset
  <1>2. SumFunctionOnSet(f, S \ {x}) = SumFunctionOnSet(g, S \ {x})
    BY <1>1, SumSame
  <1>3. SumFunctionOnSet(f, S) = f[x] + SumFunctionOnSet(f, S \ {x})
    BY SumTerms
  <1>4. SumFunctionOnSet(g, S) = g[x] + SumFunctionOnSet(g, S \ {x})
    BY SumTerms
  <1>5. SumFunctionOnSet(f, S \ {x}) \in Int
    BY <1>1, SumTerms
  <1>6. QED
    BY <1>2, <1>3, <1>4, <1>5

(* Zeros add up to zero.                                                      *)
LEMMA SumZero ==
  ASSUME NEW f, NEW S, IsFiniteSet(S), \A y \in S : f[y] = 0
  PROVE  SumFunctionOnSet(f, S) = 0
  <1> DEFINE G == {T \in SUBSET S : SumFunctionOnSet(f, T) = 0}
  <1>1. {} \in G
    BY SumEmpty
  <1>2. ASSUME NEW T \in SUBSET S, NEW x \in S \ T, T \in G PROVE T \cup {x} \in G
    <2>1. SumFunctionOnSet(f, T \cup {x}) = f[x] + SumFunctionOnSet(f, T)
      BY SumAdd, FS_Subset
    <2>2. QED
      BY <2>1, <1>2
  <1>3. SUBSET S \subseteq G
    <2> HIDE DEF G
    <2>1. QED
      BY <1>1, <1>2, AddInduction
  <1>4. QED
    BY <1>3

(* Sums add term by term.                                                     *)
LEMMA SumPlus ==
  ASSUME NEW f, NEW g, NEW h, NEW S, IsFiniteSet(S),
         \A y \in S : f[y] \in Int /\ g[y] \in Int /\ h[y] = f[y] + g[y]
  PROVE  SumFunctionOnSet(h, S) = SumFunctionOnSet(f, S) + SumFunctionOnSet(g, S)
  <1> DEFINE F(T) == SumFunctionOnSet(f, T)
             E(T) == SumFunctionOnSet(g, T)
             H(T) == SumFunctionOnSet(h, T)
             G == {T \in SUBSET S : F(T) \in Int /\ E(T) \in Int /\ H(T) = F(T) + E(T)}
  <1>1. {} \in G
    <2>1. F({}) = 0 /\ E({}) = 0 /\ H({}) = 0
      BY SumEmpty
    <2>2. QED
      BY <2>1
  <1>2. ASSUME NEW T \in SUBSET S, NEW x \in S \ T, T \in G PROVE T \cup {x} \in G
    <2>0. IsFiniteSet(T)
      BY FS_Subset
    <2>1. F(T \cup {x}) = f[x] + F(T)
      BY <2>0, SumAdd
    <2>2. E(T \cup {x}) = g[x] + E(T)
      BY <2>0, SumAdd
    <2>4. \A y \in T \cup {x} : h[y] \in Int
      OBVIOUS
    <2>3. H(T \cup {x}) = h[x] + H(T)
      BY <2>0, <2>4, SumAdd
    <2>5. f[x] \in Int /\ g[x] \in Int /\ h[x] = f[x] + g[x]
      OBVIOUS
    <2>6. F(T) \in Int /\ E(T) \in Int /\ H(T) = F(T) + E(T)
      BY <1>2
    <2>7. T \cup {x} \in SUBSET S
      OBVIOUS
    <2> HIDE DEF F, E, H
    <2>8. QED
      BY <2>1, <2>2, <2>3, <2>5, <2>6, <2>7
  <1>3. SUBSET S \subseteq G
    <2> HIDE DEF G
    <2>1. QED
      BY <1>1, <1>2, AddInduction
  <1>4. QED
    BY <1>3

(* The sum over two disjoint sets.                                            *)
LEMMA SumUnion ==
  ASSUME NEW f, NEW S, IsFiniteSet(S), NEW U, IsFiniteSet(U), S \cap U = {},
         \A y \in S \cup U : f[y] \in Int
  PROVE  SumFunctionOnSet(f, S \cup U) = SumFunctionOnSet(f, S) + SumFunctionOnSet(f, U)
  <1> DEFINE Sum(T) == SumFunctionOnSet(f, T)
             G == {T \in SUBSET U : Sum(S \cup T) = Sum(S) + Sum(T)}
  <1>0. Sum(S) \in Int
    BY SumTerms
  <1>1. {} \in G
    <2>1. Sum({}) = 0 /\ S \cup {} = S
      BY SumEmpty
    <2>2. QED
      BY <2>1, <1>0
  <1>2. ASSUME NEW T \in SUBSET U, NEW x \in U \ T, T \in G PROVE T \cup {x} \in G
    <2>0. IsFiniteSet(T) /\ IsFiniteSet(S \cup T)
      BY FS_Subset, FS_Union
    <2>1. Sum(T \cup {x}) = f[x] + Sum(T)
      BY <2>0, SumAdd
    <2>2. Sum((S \cup T) \cup {x}) = f[x] + Sum(S \cup T)
      <3>1. x \notin S \cup T
        OBVIOUS
      <3>2. \A y \in (S \cup T) \cup {x} : f[y] \in Int
        OBVIOUS
      <3>3. QED
        BY <2>0, <3>1, <3>2, SumAdd
    <2>3. (S \cup T) \cup {x} = S \cup (T \cup {x})
      OBVIOUS
    <2>4. f[x] \in Int /\ T \cup {x} \in SUBSET U /\ Sum(S \cup T) = Sum(S) + Sum(T)
      BY <1>2
    <2>5. Sum(T) \in Int
      <3>1. \A y \in T : f[y] \in Int
        OBVIOUS
      <3>2. QED
        BY <2>0, <3>1, SumTerms
    <2>6. Sum(S \cup (T \cup {x})) = Sum(S) + Sum(T \cup {x})
      <3> DEFINE a == Sum(S \cup (T \cup {x}))
                 b == Sum(S \cup T)
                 c == Sum(S)
                 d == Sum(T)
                 e == Sum(T \cup {x})
                 z == f[x]
      <3>1. a = z + b /\ b = c + d /\ e = z + d
        BY <2>1, <2>2, <2>3, <2>4, Zenon
      <3>2. z \in Int /\ c \in Int /\ d \in Int
        BY <2>4, <2>5, <1>0
      <3> HIDE DEF a, b, c, d, e, z
      <3>3. a = c + e
        BY ONLY <3>1, <3>2
      <3>4. QED
        BY ONLY <3>3 DEF a, c, e
    <2>7. QED
      BY <2>4, <2>6
  <1>3. SUBSET U \subseteq G
    <2>1. IsFiniteSet(U)
      OBVIOUS
    <2> HIDE DEF G, Sum
    <2>2. QED
      BY ONLY <1>1, <1>2, <2>1, AddInduction
  <1>4. QED
    BY <1>3

(* Adding by groups, whatever the grouping, adds everything once.             *)
LEMMA SumByKey ==
  ASSUME NEW f, NEW S, IsFiniteSet(S), \A y \in S : f[y] \in Int,
         NEW K, IsFiniteSet(K), NEW key, \A y \in S : key[y] \in K
  PROVE  SumFunctionOnSet(f, S) =
           SumFunctionOnSet([k \in K |-> SumFunctionOnSet(f, {y \in S : key[y] = k})], K)
  <1> DEFINE Sum(T) == SumFunctionOnSet(f, T)
             group(T, k) == {y \in T : key[y] = k}
             groups(T) == [k \in K |-> Sum(group(T, k))]
             G == {T \in SUBSET S : Sum(T) = SumFunctionOnSet(groups(T), K)}
  <1>i. ASSUME NEW T \in SUBSET S, NEW k PROVE Sum(group(T, k)) \in Int /\ IsFiniteSet(group(T, k))
    <2>1. IsFiniteSet(group(T, k)) /\ group(T, k) \subseteq S
      BY FS_Subset
    <2>2. QED
      BY <2>1, SumTerms
  <1>1. {} \in G
    <2>1. Sum({}) = 0
      BY SumEmpty
    <2>2. \A k \in K : group({}, k) = {}
      OBVIOUS
    <2>3. \A k \in K : groups({})[k] = 0
      BY <2>1, <2>2
    <2>4. SumFunctionOnSet(groups({}), K) = 0
      <3> HIDE DEF groups
      <3>1. QED
        BY <2>3, SumZero
    <2>5. QED
      BY <2>1, <2>4
  <1>2. ASSUME NEW T \in SUBSET S, NEW x \in S \ T, T \in G PROVE T \cup {x} \in G
    <2> DEFINE U == T \cup {x}
    <2>0. IsFiniteSet(T) /\ U \in SUBSET S
      BY FS_Subset
    <2>1. Sum(U) = f[x] + Sum(T)
      BY <2>0, SumAdd
    <2>2. key[x] \in K
      OBVIOUS
    <2>3. \A k \in K \ {key[x]} : group(U, k) = group(T, k)
      OBVIOUS
    <2>4. group(U, key[x]) = group(T, key[x]) \cup {x} /\ x \notin group(T, key[x])
      OBVIOUS
    <2>5. Sum(group(U, key[x])) = f[x] + Sum(group(T, key[x]))
      <3>1. IsFiniteSet(group(T, key[x])) /\ group(T, key[x]) \subseteq S
        BY <1>i
      <3>2. Sum(group(T, key[x]) \cup {x}) = f[x] + Sum(group(T, key[x]))
        <4> HIDE DEF group
        <4>1. QED
          BY <3>1, <2>4, SumAdd
      <3>3. QED
        BY <3>2, <2>4
    <2>6. \A k \in K : groups(T)[k] \in Int /\ groups(U)[k] \in Int
      BY <1>i, <2>0
    <2>7. \A k \in K \ {key[x]} : groups(T)[k] = groups(U)[k]
      BY <2>3
    <2>8. groups(U)[key[x]] = f[x] + groups(T)[key[x]]
      BY <2>2, <2>5
    <2>9. Sum(T) = SumFunctionOnSet(groups(T), K)
      BY <1>2
    <2>10. SumFunctionOnSet(groups(U), K) =
             SumFunctionOnSet(groups(T), K) + groups(U)[key[x]] - groups(T)[key[x]]
      <3> HIDE DEF groups, U
      <3>1. QED
        BY <2>2, <2>6, <2>7, SumChange
    <2>11. SumFunctionOnSet(groups(T), K) \in Int
      <3> HIDE DEF groups
      <3>1. QED
        BY <2>6, SumTerms
    <2>12. f[x] \in Int
      OBVIOUS
    <2>13. Sum(U) = SumFunctionOnSet(groups(U), K)
      <3> HIDE DEF groups, U, Sum
      <3>1. QED
        BY <2>1, <2>2, <2>6, <2>8, <2>9, <2>10, <2>11, <2>12
    <2>14. QED
      BY <2>13, <2>0
  <1>3. SUBSET S \subseteq G
    <2> HIDE DEF G
    <2>1. QED
      BY <1>1, <1>2, AddInduction
  <1>4. QED
    BY <1>3

(* The sum of a sequence of terms that is one longer.                         *)
LEMMA SumLonger ==
  ASSUME NEW n \in Nat, NEW f, NEW g, \A i \in 1 .. n : f[i] \in Int /\ g[i] = f[i],
         g[n + 1] \in Int
  PROVE  SumFunctionOnSet(g, 1 .. n + 1) = SumFunctionOnSet(f, 1 .. n) + g[n + 1]
  <1>1. 1 .. n + 1 = (1 .. n) \cup {n + 1} /\ n + 1 \notin 1 .. n
    OBVIOUS
  <1>2. IsFiniteSet(1 .. n)
    BY FS_Interval
  <1>3. SumFunctionOnSet(g, 1 .. n + 1) = g[n + 1] + SumFunctionOnSet(g, 1 .. n)
    BY <1>1, <1>2, SumAdd
  <1>4. SumFunctionOnSet(f, 1 .. n) = SumFunctionOnSet(g, 1 .. n)
    BY <1>2, SumSame
  <1>5. SumFunctionOnSet(f, 1 .. n) \in Int
    BY <1>2, SumTerms
  <1>6. QED
    BY <1>3, <1>4, <1>5

(* Terms that are zero can be left out.                                       *)
LEMMA SumSupport ==
  ASSUME NEW f, NEW S, IsFiniteSet(S), NEW T \in SUBSET S,
         \A y \in S : f[y] \in Int, \A y \in S \ T : f[y] = 0
  PROVE  SumFunctionOnSet(f, S) = SumFunctionOnSet(f, T)
  <1>1. IsFiniteSet(T) /\ IsFiniteSet(S \ T)
    BY FS_Subset
  <1>2. S = T \cup (S \ T) /\ T \cap (S \ T) = {}
    OBVIOUS
  <1>3. SumFunctionOnSet(f, T \cup (S \ T)) = SumFunctionOnSet(f, T) + SumFunctionOnSet(f, S \ T)
    BY <1>1, <1>2, SumUnion
  <1>4. SumFunctionOnSet(f, S \ T) = 0
    BY <1>1, SumZero
  <1>5. SumFunctionOnSet(f, T) \in Int
    BY <1>1, SumTerms
  <1>6. SumFunctionOnSet(f, S) = SumFunctionOnSet(f, T \cup (S \ T))
    BY <1>2, Zenon
  <1>7. QED
    BY ONLY <1>3, <1>4, <1>5, <1>6

(* The sum does not depend on the names of the elements.                      *)
LEMMA SumRenamed ==
  ASSUME NEW f, NEW S, IsFiniteSet(S), \A y \in S : f[y] \in Int, NEW g, NEW r,
         \A x, y \in S : r[x] = r[y] => x = y, \A y \in S : g[r[y]] = f[y]
  PROVE  SumFunctionOnSet(g, {r[y] : y \in S}) = SumFunctionOnSet(f, S)
  <1> DEFINE image(T) == {r[y] : y \in T}
             G == {T \in SUBSET S : /\ IsFiniteSet(image(T))
                                    /\ SumFunctionOnSet(g, image(T)) = SumFunctionOnSet(f, T)}
  <1>1. {} \in G
    <2>1. image({}) = {}
      OBVIOUS
    <2>2. SumFunctionOnSet(g, {}) = 0 /\ SumFunctionOnSet(f, {}) = 0
      BY SumEmpty
    <2>3. QED
      BY <2>1, <2>2, FS_EmptySet
  <1>2. ASSUME NEW T \in SUBSET S, NEW x \in S \ T, T \in G PROVE T \cup {x} \in G
    <2>1. image(T \cup {x}) = image(T) \cup {r[x]} /\ r[x] \notin image(T)
      OBVIOUS
    <2>2. IsFiniteSet(T) /\ IsFiniteSet(image(T)) /\ IsFiniteSet(image(T) \cup {r[x]})
      <3>1. IsFiniteSet(T) /\ IsFiniteSet(image(T))
        BY <1>2, FS_Subset
      <3> HIDE DEF image
      <3>2. QED
        BY <3>1, FS_AddElement
    <2>3. \A z \in image(T) \cup {r[x]} : g[z] \in Int
      OBVIOUS
    <2>4. SumFunctionOnSet(g, image(T) \cup {r[x]}) = g[r[x]] + SumFunctionOnSet(g, image(T))
      <3> HIDE DEF image
      <3>1. QED
        BY <2>1, <2>2, <2>3, SumAdd
    <2>5. SumFunctionOnSet(f, T \cup {x}) = f[x] + SumFunctionOnSet(f, T)
      BY <2>2, SumAdd
    <2>6. g[r[x]] = f[x] /\ SumFunctionOnSet(g, image(T)) = SumFunctionOnSet(f, T)
      BY <1>2
    <2>7. SumFunctionOnSet(g, image(T \cup {x})) = SumFunctionOnSet(f, T \cup {x})
      BY <2>1, <2>4, <2>5, <2>6
    <2>8. IsFiniteSet(image(T \cup {x}))
      BY <2>1, <2>2
    <2>9. QED
      BY <2>7, <2>8
  <1>3. IsFiniteSet(S)
    OBVIOUS
  <1>4. SUBSET S \subseteq G
    <2> HIDE DEF G
    <2>1. QED
      BY ONLY <1>1, <1>2, <1>3, AddInduction
  <1>5. QED
    BY <1>4

(* SumLonger for the sum over the domain of a sequence.                       *)
LEMMA SumOneMore ==
  ASSUME NEW n \in Nat, NEW f, NEW g, DOMAIN f = 1 .. n, DOMAIN g = 1 .. n + 1,
         \A i \in 1 .. n : f[i] \in Int /\ g[i] = f[i], g[n + 1] \in Int
  PROVE  SumFunction(g) = SumFunction(f) + g[n + 1]
  BY SumLonger DEF SumFunction

(* A row appended: where it is, and that the others stay where they were.     *)
LEMMA OneMoreRow ==
  ASSUME NEW T, NEW s \in Seq(T), NEW x \in T
  PROVE  /\ Len(s) \in Nat /\ DOMAIN s = 1 .. Len(s)
         /\ \A i \in 1 .. Len(s) : s[i] \in T
         /\ Append(s, x) \in Seq(T) /\ DOMAIN Append(s, x) = 1 .. Len(s) + 1
         /\ Append(s, x)[Len(s) + 1] = x
         /\ \A i \in 1 .. Len(s) : Append(s, x)[i] = s[i]
  OBVIOUS

(* What is subtracted everywhere is subtracted from the sum.                 *)
LEMMA SumMinus ==
    ASSUME NEW f, NEW g, NEW S, IsFiniteSet(S), \A y \in S : f[y] \in Int /\ g[y] = -f[y]
    PROVE  SumFunctionOnSet(g, S) = -SumFunctionOnSet(f, S)
<1> DEFINE z == [y \in S |-> 0]
<1>1. \A y \in S : f[y] \in Int /\ g[y] \in Int /\ z[y] = f[y] + g[y]
  OBVIOUS
<1>2. \A y \in S : z[y] = 0
  OBVIOUS
<1> HIDE DEF z
<1>3. SumFunctionOnSet(z, S) = SumFunctionOnSet(f, S) + SumFunctionOnSet(g, S)
  BY <1>1, SumPlus
<1>4. SumFunctionOnSet(z, S) = 0
  BY <1>2, SumZero
<1>5. SumFunctionOnSet(f, S) \in Int
  BY <1>1, SumTerms
<1>6. SumFunctionOnSet(g, S) \in Int
  BY <1>1, SumTerms
<1>7. QED
  BY <1>3, <1>4, <1>5, <1>6

(* What is multiplied everywhere is multiplied in the sum.                   *)
LEMMA SumTimes ==
    ASSUME NEW f, NEW g, NEW S, IsFiniteSet(S), NEW d \in Int,
           \A y \in S : f[y] \in Int /\ g[y] = f[y] * d
    PROVE  SumFunctionOnSet(f, S) \in Int /\ SumFunctionOnSet(g, S) = SumFunctionOnSet(f, S) * d
<1> DEFINE F(T) == SumFunctionOnSet(f, T)
           H == {T \in SUBSET S : SumFunctionOnSet(g, T) = F(T) * d}
<1>1. \A T \in SUBSET S : IsFiniteSet(T) /\ F(T) \in Int
  <2> SUFFICES ASSUME NEW T \in SUBSET S
               PROVE  IsFiniteSet(T) /\ F(T) \in Int
    OBVIOUS
  <2>1. IsFiniteSet(T) /\ \A y \in T : f[y] \in Int
    BY FS_Subset
  <2> QED
    BY <2>1, SumTerms
<1>2. {} \in H
  <2>1. F({}) = 0 /\ SumFunctionOnSet(g, {}) = 0 /\ 0 * d = 0
    BY SumEmpty
  <2> QED
    BY <2>1
<1>3. ASSUME NEW T \in SUBSET S, NEW x \in S \ T, T \in H
      PROVE  T \cup {x} \in H
  <2>1. \A y \in S : f[y] \in Int /\ g[y] \in Int
    OBVIOUS
  <2>2. /\ F(T \cup {x}) = f[x] + F(T)
        /\ SumFunctionOnSet(g, T \cup {x}) = g[x] + SumFunctionOnSet(g, T)
    BY <1>1, <2>1, SumAdd
  <2>3. SumFunctionOnSet(g, T) = F(T) * d /\ g[x] = f[x] * d /\ f[x] \in Int /\ F(T) \in Int
    BY <1>1, <1>3
  <2> HIDE DEF F
  <2>4. (f[x] + F(T)) * d = f[x] * d + F(T) * d
    BY <2>3
  <2> QED
    BY <2>2, <2>3, <2>4
<1>4. S \in H
  <2> HIDE DEF H
  <2> QED
    BY <1>2, <1>3, AddInduction
<1> QED
  BY <1>1, <1>4

(* Numbers of tenths that are each rounded to units: the sums are apart by    *)
(* half a unit a term at most.                                               *)
LEMMA SumRounded ==
    ASSUME NEW f, NEW g, NEW S, IsFiniteSet(S),
           \A y \in S : f[y] \in Int /\ g[y] \in Int /\ 10 * g[y] - f[y] \in -5 .. 5
    PROVE  /\ SumFunctionOnSet(f, S) \in Int /\ SumFunctionOnSet(g, S) \in Int
           /\ 10 * SumFunctionOnSet(g, S) - SumFunctionOnSet(f, S)
                 \in -(5 * Cardinality(S)) .. 5 * Cardinality(S)
<1> DEFINE F(T) == SumFunctionOnSet(f, T)
           E(T) == SumFunctionOnSet(g, T)
           n(T) == Cardinality(T)
           H == {T \in SUBSET S : 10 * E(T) - F(T) \in -(5 * n(T)) .. 5 * n(T)}
<1>1. \A T \in SUBSET S : IsFiniteSet(T) /\ F(T) \in Int /\ E(T) \in Int /\ n(T) \in Nat
  <2> SUFFICES ASSUME NEW T \in SUBSET S
               PROVE  IsFiniteSet(T) /\ F(T) \in Int /\ E(T) \in Int /\ n(T) \in Nat
    OBVIOUS
  <2>1. IsFiniteSet(T) /\ \A y \in T : f[y] \in Int /\ g[y] \in Int
    BY FS_Subset
  <2>2. n(T) \in Nat
    BY <2>1, FS_CardinalityType
  <2> QED
    BY <2>1, <2>2, SumTerms
<1>2. {} \in H
  <2>1. F({}) = 0 /\ E({}) = 0 /\ n({}) = 0
    BY SumEmpty, FS_EmptySet
  <2> HIDE DEF F, E, n
  <2>2. 10 * E({}) - F({}) \in -(5 * n({})) .. 5 * n({})
    BY <2>1
  <2> QED
    BY <2>2
<1>3. ASSUME NEW T \in SUBSET S, NEW x \in S \ T, T \in H
      PROVE  T \cup {x} \in H
  <2>1. F(T \cup {x}) = f[x] + F(T) /\ E(T \cup {x}) = g[x] + E(T)
    BY <1>1, SumAdd
  <2>2. n(T \cup {x}) = n(T) + 1
    BY <1>1, FS_AddElement
  <2>3. /\ f[x] \in Int /\ g[x] \in Int /\ 10 * g[x] - f[x] \in -5 .. 5
        /\ F(T) \in Int /\ E(T) \in Int /\ n(T) \in Nat
        /\ 10 * E(T) - F(T) \in -(5 * n(T)) .. 5 * n(T)
    BY <1>1, <1>3
  <2> HIDE DEF F, E, n
  <2>4. 10 * E(T \cup {x}) - F(T \cup {x}) \in -(5 * n(T \cup {x})) .. 5 * n(T \cup {x})
    BY <2>1, <2>2, <2>3
  <2> QED
    BY <2>4
<1>4. S \in H
  <2> HIDE DEF H
  <2> QED
    BY <1>2, <1>3, AddInduction
<1> QED
  BY <1>1, <1>4

-----------------------------------------------------------------------------
(* Two sequences, one after the other.                                       *)
LEMMA Joined ==
    ASSUME NEW F, NEW a \in Seq(F), NEW b \in Seq(F)
    PROVE  /\ a \o b \in Seq(F) /\ Len(a \o b) = Len(a) + Len(b)
           /\ \A i \in 1 .. Len(a) : (a \o b)[i] = a[i]
           /\ \A i \in Len(a) + 1 .. Len(a) + Len(b) : (a \o b)[i] = b[i - Len(a)]
  OBVIOUS

(* Counting up to n.                                                         *)
LEMMA Counting ==
    ASSUME NEW n \in Nat, NEW G, 0 \in G, \A m \in 0 .. n - 1 : m \in G => m + 1 \in G
    PROVE  n \in G
<1> DEFINE H == {T \in SUBSET (1 .. n) : \A m \in 0 .. n : T = 1 .. m => m \in G}
<1>1. IsFiniteSet(1 .. n)
  BY FS_Interval
<1>2. ASSUME NEW T \in SUBSET (1 .. n), \A U \in SUBSET T : U # T => U \in H
      PROVE  T \in H
  <2>1. SUFFICES ASSUME NEW m \in 0 .. n, T = 1 .. m, m # 0
                 PROVE  m \in G
    OBVIOUS
  <2>2. m - 1 \in 0 .. n - 1 /\ m - 1 \in 0 .. n /\ (m - 1) + 1 = m
    BY <2>1
  <2>3. 1 .. (m - 1) \in SUBSET T /\ m \in T /\ m \notin 1 .. (m - 1)
    BY <2>1
  <2>4. 1 .. (m - 1) \in H
    BY <1>2, <2>3
  <2>5. m - 1 \in G
    BY <2>2, <2>4
  <2>6. QED
    BY <2>2, <2>5
<1>3. SUBSET (1 .. n) \subseteq H
  <2> DEFINE S == 1 .. n
  <2>1. IsFiniteSet(S)
    BY <1>1
  <2>2. \A T \in SUBSET S : (\A U \in SUBSET T : U # T => U \in H) => T \in H
    BY <1>2
  <2> HIDE DEF H, S
  <2>3. SUBSET S \subseteq H
    BY <2>1, <2>2, SetInduction
  <2>4. QED
    BY <2>3 DEF S
<1>4. QED
  <2>1. 1 .. n \in SUBSET (1 .. n)
    OBVIOUS
  <2>2. 1 .. n \in H
    BY <1>3, <2>1, Zenon
  <2>3. QED
    BY <2>2

\* f is the function that FlattenSeq computes, up to m
Flattens(p, f, m) == f = [i \in 1 .. m |-> IF i = 1 THEN p[i] ELSE f[i-1] \o p[i]]

(* There is such a function.                                                 *)
LEMMA FlattenExists ==
    ASSUME NEW n \in Nat, NEW p
    PROVE  \E f : Flattens(p, f, n)
<1> DEFINE G == {m \in 0 .. n : \E f : Flattens(p, f, m)}
<1>1. 0 \in G
  <2>1. Flattens(p, [i \in 1 .. 0 |-> p[i]], 0)
    BY DEF Flattens
  <2>2. QED
    BY <2>1
<1>2. ASSUME NEW m \in 0 .. n - 1, m \in G
      PROVE  m + 1 \in G
  <2>1. PICK f : Flattens(p, f, m)
    BY <1>2
  <2> DEFINE g == [i \in 1 .. m + 1 |-> IF i = 1 THEN p[i] ELSE f[i-1] \o p[i]]
  <2>2. \A i \in 1 .. m : g[i] = f[i]
    <3>1. TAKE i \in 1 .. m
    <3>2. i \in 1 .. m + 1
      OBVIOUS
    <3>3. f[i] = IF i = 1 THEN p[i] ELSE f[i-1] \o p[i]
      BY <2>1, Zenon DEF Flattens
    <3>4. QED
      BY <3>2, <3>3, Zenon
  <2>3. \A i \in 1 .. m + 1 : g[i] = IF i = 1 THEN p[i] ELSE g[i-1] \o p[i]
    <3>1. \A i \in 1 .. m + 1 : i = 1 \/ i - 1 \in 1 .. m
      OBVIOUS
    <3>2. QED
      BY <2>2, <3>1
  <2>4. DOMAIN g = 1 .. m + 1
    OBVIOUS
  <2>5. g = [i \in 1 .. m + 1 |-> g[i]]
    OBVIOUS
  <2> HIDE DEF g
  <2>6. Flattens(p, g, m + 1)
    BY <2>3, <2>5, Zenon DEF Flattens
  <2>7. QED
    BY <2>6
<1>3. n \in G
  <2> HIDE DEF G
  <2>1. QED
    BY <1>1, <1>2, Counting
<1>4. QED
  BY <1>3

(* FlattenSeq is what that function computes.                                *)
LEMMA FlattenIs ==
    ASSUME NEW n \in Nat \ {0}, NEW p, Len(p) = n
    PROVE  \E f : Flattens(p, f, n) /\ FlattenSeq(p) = f[n]
<1>1. \E f : Flattens(p, f, n)
  BY FlattenExists
<1>2. FlattenSeq(p) = (CHOOSE f : Flattens(p, f, n))[n]
  BY DEF FlattenSeq, Flattens
<1>3. QED
  BY <1>1, <1>2

(* What flattening makes of sequences over S is a sequence over S.           *)
LEMMA FlattenTypes ==
    ASSUME NEW S, NEW p \in Seq(Seq(S))
    PROVE  FlattenSeq(p) \in Seq(S)
<1>1. CASE Len(p) = 0
  <2>1. FlattenSeq(p) = p /\ p = <<>>
    BY <1>1 DEF FlattenSeq
  <2>2. QED
    BY <2>1
<1>2. CASE Len(p) # 0
  <2> DEFINE n == Len(p)
  <2>0. n \in Nat \ {0} /\ \A m \in 1 .. n : p[m] \in Seq(S)
    BY <1>2
  <2>1. PICK f : Flattens(p, f, n) /\ FlattenSeq(p) = f[n]
    BY <2>0, FlattenIs
  <2> HIDE DEF n
  <2>2. \A m \in 1 .. n : f[m] = IF m = 1 THEN p[m] ELSE f[m-1] \o p[m]
    BY <2>1, Zenon DEF Flattens
  <2> DEFINE G == {m \in 0 .. n : m = 0 \/ f[m] \in Seq(S)}
  <2>3. 0 \in G
    BY <2>0
  <2>4. ASSUME NEW m \in 0 .. n - 1, m \in G
        PROVE  m + 1 \in G
    <3>1. m + 1 \in 1 .. n /\ (m + 1) - 1 = m
      BY <2>0
    <3>2. m # 0 => f[m] \in Seq(S)
      BY <2>4
    <3>3. f[m + 1] = IF m + 1 = 1 THEN p[m + 1] ELSE f[m] \o p[m + 1]
      BY <2>2, <3>1
    <3>4. p[m + 1] \in Seq(S)
      BY <2>0, <3>1
    <3>5. f[m + 1] \in Seq(S)
      BY <3>1, <3>2, <3>3, <3>4
    <3>6. QED
      BY <2>0, <3>1, <3>5
  <2> HIDE DEF G
  <2>5. n \in G
    BY <2>0, <2>3, <2>4, Counting
  <2>6. QED
    BY <2>0, <2>1, <2>5 DEF G
<1>3. QED
  BY <1>1, <1>2

(* What is appended as a sequence of one element comes last.                 *)
LEMMA LastOfOne ==
    ASSUME NEW S, NEW t \in Seq(S), NEW q \in Seq(S), Len(q) = 1
    PROVE  (t \o q)[Len(t) + 1] = q[1]
<1>1. Len(t) \in Nat /\ (Len(t) + 1) - Len(t) = 1
  OBVIOUS
<1>2. Len(t) + 1 \in 1 .. Len(t) + Len(q) /\ ~(Len(t) + 1 <= Len(t))
  BY <1>1
<1>3. QED
  BY <1>1, <1>2

(* Flattening sequences of one element and empty ones keeps the elements.    *)
LEMMA FlattenSingles ==
    ASSUME NEW S, NEW p \in Seq(Seq(S)), \A k \in DOMAIN p : Len(p[k]) <= 1
    PROVE  LET r == FlattenSeq(p)
               full == {k \in DOMAIN p : p[k] # <<>>}
           IN /\ IsFiniteSet(full) /\ Len(r) = Cardinality(full)
              /\ \A i \in DOMAIN r : \E k \in full : r[i] = p[k][1]
              /\ \A k \in full : \E i \in DOMAIN r : r[i] = p[k][1]
<1> DEFINE r == FlattenSeq(p)
           full(m) == {k \in 1 .. m : p[k] # <<>>}
           n == Len(p)
           Whole(t, m) == /\ t \in Seq(S) /\ Len(t) = Cardinality(full(m))
                          /\ \A i \in DOMAIN t : \E k \in full(m) : t[i] = p[k][1]
                          /\ \A k \in full(m) : \E i \in DOMAIN t : t[i] = p[k][1]
<1>1. n \in Nat /\ DOMAIN p = 1 .. n
      /\ \A m \in 1 .. n : p[m] \in Seq(S) /\ Len(p[m]) \in {0, 1}
  <2>1. n \in Nat /\ DOMAIN p = 1 .. n /\ \A m \in 1 .. n : p[m] \in Seq(S)
    OBVIOUS
  <2>2. \A m \in 1 .. n : Len(p[m]) <= 1
    BY <2>1
  <2>3. \A m \in 1 .. n : Len(p[m]) \in Nat
    BY <2>1
  <2>4. \A x \in Nat : x <= 1 => x \in {0, 1}
    OBVIOUS
  <2>5. QED
    BY <2>1, <2>2, <2>3, <2>4, Zenon
<1>2. ASSUME NEW m \in 0 .. n
      PROVE  IsFiniteSet(full(m))
  <2>1. IsFiniteSet(1 .. m)
    BY <1>1, FS_Interval
  <2>2. QED
    BY <2>1, FS_Subset
<1>3. Whole(<<>>, 0)
  <2>1. full(0) = {}
    OBVIOUS
  <2>2. Cardinality(full(0)) = 0
    BY <2>1, FS_EmptySet
  <2>3. QED
    BY <2>1, <2>2
<1>4. ASSUME NEW m \in 0 .. n - 1, NEW t, Whole(t, m)
      PROVE  Whole(t \o p[m + 1], m + 1)
  <2> DEFINE q == p[m + 1]
             u == t \o q
  <2>1. m + 1 \in 1 .. n /\ m \in 0 .. n /\ q \in Seq(S) /\ Len(q) \in {0, 1}
    BY <1>1
  <2>2. /\ u \in Seq(S) /\ Len(u) = Len(t) + Len(q)
        /\ \A i \in 1 .. Len(t) : u[i] = t[i]
        /\ Len(q) = 1 => u[Len(t) + 1] = q[1]
    <3>1. t \in Seq(S) /\ q \in Seq(S)
      BY <1>4, <2>1
    <3> HIDE DEF q
    <3>2. u \in Seq(S) /\ Len(u) = Len(t) + Len(q)
      BY <3>1
    <3>3. \A i \in 1 .. Len(t) : u[i] = t[i]
      BY <3>1
    <3>4. Len(q) = 1 => u[Len(t) + 1] = q[1]
      BY <3>1, LastOfOne
    <3>5. QED
      BY <3>2, <3>3, <3>4
  <2>3. CASE Len(q) = 0
    <3>1. q = <<>> /\ u = t
      BY <1>4, <2>1, <2>3
    <3>2. full(m + 1) = full(m)
      BY <1>1, <3>1
    <3>3. QED
      BY <1>4, <3>1, <3>2
  <2>4. CASE Len(q) = 1
    <3>1. q # <<>>
      <4>1. Len(<<>>) = 0
        OBVIOUS
      <4>2. q = <<>> => Len(q) = Len(<<>>)
        OBVIOUS
      <4> HIDE DEF q
      <4>3. QED
        BY ONLY <2>4, <4>1, <4>2
    <3>2. full(m + 1) = full(m) \cup {m + 1} /\ m + 1 \notin full(m)
      BY <1>1, <3>1
    <3>3. Cardinality(full(m + 1)) = Cardinality(full(m)) + 1
      BY <1>2, <2>1, <3>2, FS_AddElement
    <3> HIDE DEF full, u, q
    <3>4. Len(u) = Cardinality(full(m + 1))
      BY <1>4, <2>2, <2>4, <3>3
    <3>5. DOMAIN t = 1 .. Len(t) /\ DOMAIN u = 1 .. Len(t) + 1 /\ Len(t) \in Nat
      BY <1>4, <2>2, <2>4
    <3>6. p[m + 1][1] = u[Len(t) + 1]
      BY <2>2, <2>4 DEF q
    <3>7. \A i \in DOMAIN u : \E k \in full(m + 1) : u[i] = p[k][1]
      <4>1. TAKE i \in DOMAIN u
      <4>2. CASE i = Len(t) + 1
        BY <3>2, <3>6, <4>2
      <4>3. CASE i # Len(t) + 1
        <5>1. i \in DOMAIN t /\ u[i] = t[i]
          BY <2>2, <3>5, <4>3
        <5>2. QED
          BY <1>4, <3>2, <5>1
      <4>4. QED
        BY <4>2, <4>3
    <3>8. \A k \in full(m + 1) : \E i \in DOMAIN u : u[i] = p[k][1]
      <4>1. TAKE k \in full(m + 1)
      <4>2. CASE k = m + 1
        <5>1. Len(t) + 1 \in DOMAIN u
          BY <3>5
        <5>2. QED
          BY <3>6, <4>2, <5>1
      <4>3. CASE k # m + 1
        <5>1. PICK i \in DOMAIN t : t[i] = p[k][1]
          BY <1>4, <3>2, <4>3
        <5>2. i \in DOMAIN u /\ u[i] = t[i]
          BY <2>2, <3>5
        <5>3. QED
          BY <5>1, <5>2
      <4>4. QED
        BY <4>2, <4>3
    <3>9. QED
      BY <2>2, <3>4, <3>7, <3>8 DEF q, u
  <2>5. QED
    BY <2>1, <2>3, <2>4
<1>5. Whole(r, n)
  <2>1. CASE n = 0
    <3>1. r = <<>>
      BY <2>1 DEF FlattenSeq
    <3>2. QED
      BY <1>3, <2>1, <3>1
  <2>2. CASE n # 0
    <3>1. PICK f : Flattens(p, f, n) /\ r = f[n]
      BY <1>1, <2>2, FlattenIs
    <3> HIDE DEF n, r, Whole
    <3>2. \A m \in 1 .. n : f[m] = IF m = 1 THEN p[m] ELSE f[m-1] \o p[m]
      BY <3>1, Zenon DEF Flattens
    <3> DEFINE G == {m \in 0 .. n : m = 0 \/ Whole(f[m], m)}
    <3>3. 0 \in G
      BY <1>1
    <3>4. ASSUME NEW m \in 0 .. n - 1, m \in G
          PROVE  m + 1 \in G
      <4>1. m + 1 \in 1 .. n /\ (m + 1) - 1 = m
        BY <1>1
      <4>2. f[m + 1] = IF m + 1 = 1 THEN p[m + 1] ELSE f[m] \o p[m + 1]
        BY <3>2, <4>1
      <4>3. CASE m = 0
        <5>1. p[1] = <<>> \o p[1]
          BY <1>1, <4>1, <4>3
        <5>2. Whole(<<>> \o p[m + 1], m + 1)
          BY <1>3, <1>4, <4>3
        <5>3. f[m + 1] = <<>> \o p[m + 1]
          BY <4>2, <4>3, <5>1
        <5>4. QED
          BY <1>1, <4>1, <5>2, <5>3
      <4>4. CASE m # 0
        <5>1. Whole(f[m], m)
          BY <3>4, <4>4
        <5>2. Whole(f[m] \o p[m + 1], m + 1)
          BY <1>4, <5>1
        <5>3. m + 1 # 1
          BY <4>4
        <5>4. f[m + 1] = f[m] \o p[m + 1]
          BY <4>2, <5>3, Zenon
        <5>5. m + 1 \in 0 .. n /\ Whole(f[m + 1], m + 1)
          BY <1>1, <4>1, <5>2, <5>4
        <5>6. QED
          BY <5>5
      <4>5. QED
        BY <4>3, <4>4
    <3> HIDE DEF G
    <3>5. n \in G
      BY <1>1, <3>3, <3>4, Counting
    <3>6. QED
      BY <2>2, <3>1, <3>5 DEF G
  <2>3. QED
    BY <2>1, <2>2
<1>6. full(n) = {k \in DOMAIN p : p[k] # <<>>}
  BY <1>1
<1>7. n \in 0 .. n
  BY <1>1
<1>8. IsFiniteSet(full(n))
  BY <1>2, <1>7
<1> HIDE DEF r
<1>9. QED
  BY <1>5, <1>6, <1>8, Zenon DEF r

-----------------------------------------------------------------------------
(* Recursive functions. A definition by recursion says something of a value  *)
(* only if some function satisfies its equation: there is one as soon as     *)
(* each step stays within a set V, over the subsets of a finite set, from    *)
(* each of which an element is picked, and over the numbers up to n.         *)

\* it is the fold of step over the sets of F
Folds(it, base, step, pick, F) ==
    \A s \in F : it[s] = IF s = {} THEN base ELSE step[<<pick[s], it[s \ {pick[s]}]>>]

(* There is a fold of step over the subsets of S.                            *)
LEMMA FoldExists ==
    ASSUME NEW S, IsFiniteSet(S), NEW V, NEW base \in V, NEW step \in [S \X V -> V],
           NEW pick, \A s \in SUBSET S : s # {} => pick[s] \in s
    PROVE  \E it \in [SUBSET S -> V] : Folds(it, base, step, pick, SUBSET S)
<1> DEFINE n == Cardinality(S)
           Upto(k) == {s \in SUBSET S : Cardinality(s) <= k}
           G == {k \in 0 .. n : \E it \in [SUBSET S -> V] : Folds(it, base, step, pick, Upto(k))}
<1>1. n \in Nat /\ \A s \in SUBSET S : Cardinality(s) \in Nat /\ Cardinality(s) <= n
  BY FS_Subset, FS_CardinalityType
<1>2. \A s \in SUBSET S : s # {} =>
          /\ s \ {pick[s]} \in SUBSET S
          /\ Cardinality(s \ {pick[s]}) = Cardinality(s) - 1
  <2> SUFFICES ASSUME NEW s \in SUBSET S, s # {}
               PROVE  Cardinality(s \ {pick[s]}) = Cardinality(s) - 1
    OBVIOUS
  <2>1. IsFiniteSet(s) /\ pick[s] \in s
    BY FS_Subset
  <2> QED
    BY <2>1, FS_RemoveElement
<1>3. 0 \in G
  <2> DEFINE it == [s \in SUBSET S |-> base]
  <2>1. \A s \in SUBSET S : Cardinality(s) <= 0 => s = {}
    <3> SUFFICES ASSUME NEW s \in SUBSET S, Cardinality(s) <= 0
                 PROVE  s = {}
      OBVIOUS
    <3>1. IsFiniteSet(s) /\ Cardinality(s) = 0
      BY <1>1, FS_Subset
    <3> QED
      BY <3>1, FS_EmptySet
  <2>2. it \in [SUBSET S -> V] /\ Folds(it, base, step, pick, Upto(0))
    BY <2>1 DEF Folds
  <2> HIDE DEF it, Upto
  <2> QED
    BY <1>1, <2>2
<1>4. ASSUME NEW k \in 0 .. n - 1, k \in G
      PROVE  k + 1 \in G
  <2>1. PICK it \in [SUBSET S -> V] : Folds(it, base, step, pick, Upto(k))
    BY <1>4
  <2> DEFINE next(s) == IF s = {} THEN base ELSE step[<<pick[s], it[s \ {pick[s]}]>>]
             new == [s \in SUBSET S |-> next(s)]
  <2>2. \A s \in SUBSET S : next(s) \in V
    BY <1>2
  <2>3. ASSUME NEW s \in SUBSET S, Cardinality(s) <= k + 1
        PROVE  new[s] = IF s = {} THEN base ELSE step[<<pick[s], new[s \ {pick[s]}]>>]
    <3>1. CASE s = {}
      BY <3>1
    <3>2. CASE s # {}
      <4> DEFINE r == s \ {pick[s]}
      <4>1. r \in SUBSET S /\ Cardinality(r) <= k
        BY <1>1, <1>2, <2>3, <3>2
      <4>2. it[r] = next(r)
        BY <2>1, <4>1 DEF Folds
      <4> QED
        BY <3>2, <4>1, <4>2
    <3> QED
      BY <3>1, <3>2
  <2>4. new \in [SUBSET S -> V]
    BY <2>2
  <2> HIDE DEF new
  <2>5. Folds(new, base, step, pick, Upto(k + 1))
    BY <2>3 DEF Folds
  <2> HIDE DEF Upto
  <2> QED
    BY <1>1, <2>4, <2>5
<1>5. n \in G
  <2> HIDE DEF G, n
  <2> QED
    BY <1>1, <1>3, <1>4, Counting
<1>6. Upto(n) = SUBSET S
  BY <1>1
<1> HIDE DEF Upto
<1>7. \E it \in [SUBSET S -> V] : Folds(it, base, step, pick, Upto(n))
  BY <1>5
<1> QED
  BY <1>6, <1>7

(* What a fold over the subsets of S computes is in V, if each step is.      *)
LEMMA FoldStays ==
    ASSUME NEW S, IsFiniteSet(S), NEW V, NEW it, it[{}] \in V,
           \A s \in SUBSET S : s # {} => \E i \in s : it[s \ {i}] \in V => it[s] \in V
    PROVE  it[S] \in V
<1> DEFINE G == {s \in SUBSET S : it[s] \in V}
<1>1. ASSUME NEW T \in SUBSET S, \A U \in SUBSET T : U # T => U \in G
      PROVE  T \in G
  <2>1. CASE T = {}
    BY <2>1
  <2>2. CASE T # {}
    <3>1. PICK i \in T : it[T \ {i}] \in V => it[T] \in V
      BY <2>2
    <3>2. T \ {i} \in G
      BY <1>1, <3>1
    <3> QED
      BY <3>1, <3>2
  <2> QED
    BY <2>1, <2>2
<1> HIDE DEF G
<1>2. SUBSET S \subseteq G
  BY <1>1, SetInduction
<1> QED
  BY <1>2 DEF G

\* up to k, f is computed by step
Computes(f, base, step, k) ==
    \A i \in 0 .. k : f[i] = IF i = 0 THEN base ELSE step[<<i, f[i - 1]>>]

(* There is a function that step computes up to n.                           *)
LEMMA CountExists ==
    ASSUME NEW n \in Nat, NEW V, NEW base \in V, NEW step \in [(1 .. n) \X V -> V]
    PROVE  \E f \in [0 .. n -> V] : Computes(f, base, step, n)
<1> DEFINE G == {k \in 0 .. n : \E f \in [0 .. n -> V] : Computes(f, base, step, k)}
<1>1. 0 \in G
  <2> DEFINE f == [i \in 0 .. n |-> base]
  <2>1. f \in [0 .. n -> V] /\ Computes(f, base, step, 0)
    BY DEF Computes
  <2> HIDE DEF f
  <2> QED
    BY <2>1
<1>2. ASSUME NEW k \in 0 .. n - 1, k \in G
      PROVE  k + 1 \in G
  <2>1. PICK f \in [0 .. n -> V] : Computes(f, base, step, k)
    BY <1>2
  <2> DEFINE next(i) == IF i = 0 THEN base ELSE step[<<i, f[i - 1]>>]
             new == [i \in 0 .. n |-> next(i)]
  <2>2. \A i \in 0 .. n : next(i) \in V
    <3> SUFFICES ASSUME NEW i \in 0 .. n, i # 0
                 PROVE  step[<<i, f[i - 1]>>] \in V
      OBVIOUS
    <3>1. i \in 1 .. n /\ i - 1 \in 0 .. n
      OBVIOUS
    <3> QED
      BY <3>1
  <2>3. ASSUME NEW i \in 0 .. n, i <= k + 1
        PROVE  new[i] = IF i = 0 THEN base ELSE step[<<i, new[i - 1]>>]
    <3>1. CASE i = 0
      BY <3>1
    <3>2. CASE i # 0
      <4>1. i - 1 \in 0 .. n /\ i - 1 <= k
        BY <2>3, <3>2
      <4>2. f[i - 1] = next(i - 1)
        BY <2>1, <4>1 DEF Computes
      <4>3. new[i - 1] = next(i - 1) /\ new[i] = next(i)
        BY <4>1
      <4> QED
        BY <3>2, <4>2, <4>3
    <3> QED
      BY <3>1, <3>2
  <2>4. new \in [0 .. n -> V]
    BY <2>2
  <2> HIDE DEF new
  <2>5. Computes(new, base, step, k + 1)
    BY <2>3 DEF Computes
  <2> QED
    BY <2>4, <2>5
<1>3. n \in G
  <2> HIDE DEF G
  <2> QED
    BY <1>1, <1>2, Counting
<1> QED
  BY <1>3

(* What such a function computes is in V, if each step is.                   *)
LEMMA CountStays ==
    ASSUME NEW n \in Nat, NEW V, NEW f, f[0] \in V,
           \A i \in 1 .. n : f[i - 1] \in V => f[i] \in V
    PROVE  \A i \in 0 .. n : f[i] \in V
<1> SUFFICES ASSUME NEW k \in 0 .. n
             PROVE  f[k] \in V
  OBVIOUS
<1> DEFINE G == {i \in 0 .. k : f[i] \in V}
<1>1. \A m \in 0 .. k - 1 : m \in G => m + 1 \in G
  <2> SUFFICES ASSUME NEW m \in 0 .. k - 1, m \in G
               PROVE  f[m + 1] \in V
    OBVIOUS
  <2>1. m + 1 \in 1 .. n /\ (m + 1) - 1 = m
    OBVIOUS
  <2> QED
    BY <2>1
<1>2. 0 \in G
  OBVIOUS
<1> HIDE DEF G
<1>3. k \in G
  BY <1>1, <1>2, Counting
<1> QED
  BY <1>3 DEF G
=============================================================================
