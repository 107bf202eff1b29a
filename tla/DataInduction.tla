---------------------------- MODULE DataInduction -----------------------------
(***************************************************************************)
(* Induction over data, for the proofs of this project, and what it gives  *)
(* for the sums of the Functions module.                                   *)
(*                                                                         *)
(* The induction theorems of the library take an operator as a parameter,  *)
(* which a first-order prover cannot instantiate.  That a well-founded     *)
(* relation has minimal elements (WFMin) takes a set instead: the set of   *)
(* the counterexamples.  So do the principles below.                       *)
(***************************************************************************)
EXTENDS Sequences, FiniteSetTheorems, TLAPS

Less == {ss \in Nat \X Nat : ss[1] < ss[2]}

\* The least number of a set of numbers.
LEMMA LeastNumber ==
  ASSUME NEW S, S \subseteq Nat, S # {}
  PROVE  \E m \in S : \A k \in S : m <= k
<1>1. IsWellFoundedOn(Less, Nat)
  BY NatLessThanWellFounded DEF OpToRel, Less
<1>2. PICK m \in S : \A k \in S : <<k, m>> \notin Less
  BY <1>1, WFMin
<1>3. ASSUME NEW k \in S PROVE m <= k
  <2>1. k \in Nat /\ m \in Nat /\ <<k, m>> \in Nat \X Nat
    OBVIOUS
  <2>2. ~(k < m)
    <3> DEFINE ss == <<k, m>>
    <3>1. ss \in Nat \X Nat /\ ss[1] = k /\ ss[2] = m /\ ss \notin Less
      BY <1>2, <2>1
    <3> HIDE DEF ss
    <3> QED BY <3>1 DEF Less
  <2> QED BY <2>1, <2>2
<1> QED BY <1>3

\* Induction over the numbers.
LEMMA NumberInduction ==
  ASSUME NEW S, 0 \in S, \A n \in Nat : n \in S => n + 1 \in S
  PROVE  Nat \subseteq S
<1> SUFFICES ASSUME Nat \ S # {} PROVE FALSE
  OBVIOUS
<1>1. PICK m \in Nat \ S : \A k \in Nat \ S : m <= k
  <2>1. Nat \ S \subseteq Nat
    OBVIOUS
  <2> QED BY <2>1, LeastNumber
<1>2. m - 1 \in Nat /\ m - 1 + 1 = m
  BY <1>1
<1>3. m - 1 \in S
  BY <1>1, <1>2
<1> QED BY <1>1, <1>2, <1>3

\* Induction over finite sets: a set is in F if all sets with one element less are.
LEMMA SetInduction ==
  ASSUME NEW U, NEW F,
         \A T \in SUBSET U : IsFiniteSet(T) /\ (\A x \in T : T \ {x} \in F) => T \in F
  PROVE  \A T \in SUBSET U : IsFiniteSet(T) => T \in F
<1> DEFINE Missing == {T \in SUBSET U : IsFiniteSet(T) /\ T \notin F}
           Sizes == {Cardinality(T) : T \in Missing}
<1> SUFFICES ASSUME Missing # {} PROVE FALSE
  OBVIOUS
<1>1. Sizes \subseteq Nat /\ Sizes # {}
  BY FS_CardinalityType
<1>2. PICK m \in Sizes : \A k \in Sizes : m <= k
  BY <1>1, LeastNumber
<1>3. PICK T \in Missing : Cardinality(T) = m
  BY <1>2
<1>4. ASSUME NEW x \in T PROVE T \ {x} \in F
  <2>1. IsFiniteSet(T \ {x}) /\ Cardinality(T \ {x}) = m - 1 /\ m \in Nat
    BY <1>1, <1>3, FS_RemoveElement
  <2>2. T \ {x} \notin Missing
    <3> SUFFICES ASSUME T \ {x} \in Missing PROVE FALSE
      OBVIOUS
    <3>1. m <= m - 1
      BY <1>2, <2>1
    <3> QED BY <2>1, <3>1
  <2> QED BY <2>1, <2>2
<1> QED BY <1>3, <1>4

-----------------------------------------------------------------------------
(***************************************************************************)
(* Sums.  SumFunction(w) is computed by a recursive function over the      *)
(* subsets of the domain of w that takes an element away at each step.     *)
(***************************************************************************)
Pick(T) == CHOOSE x \in T : TRUE

SumOf(w, f, T) == IF T = {} THEN 0 ELSE w[Pick(T)] + f[T \ {Pick(T)}]

IsSum(w, f, S) == f = [T \in SUBSET S |-> SumOf(w, f, T)]

LEMMA PickIn ==
  ASSUME NEW T, T # {}
  PROVE  Pick(T) \in T
BY DEF Pick

\* The recursive function exists.
LEMMA SumExists ==
  ASSUME NEW w, NEW S, IsFiniteSet(S)
  PROVE  \E f : IsSum(w, f, S)
<1> DEFINE Upto(n, f) == /\ f = [T \in SUBSET S |-> f[T]]
                         /\ \A T \in SUBSET S : Cardinality(T) <= n => f[T] = SumOf(w, f, T)
           Reached == {n \in Nat : \E f : Upto(n, f)}
<1>0. \A T \in SUBSET S : IsFiniteSet(T) /\ Cardinality(T) \in Nat
  BY FS_Subset, FS_CardinalityType
<1>1. 0 \in Reached
  <2> DEFINE f == [T \in SUBSET S |-> 0]
  <2>1. ASSUME NEW T \in SUBSET S, Cardinality(T) <= 0 PROVE f[T] = SumOf(w, f, T)
    <3>1. T = {}
      BY <1>0, <2>1, FS_EmptySet
    <3> QED BY <3>1 DEF SumOf
  <2>2. Upto(0, f)
    BY <2>1
  <2> QED BY <2>2
<1>2. ASSUME NEW n \in Nat, n \in Reached PROVE n + 1 \in Reached
  <2>1. PICK f : Upto(n, f)
    BY <1>2
  <2> DEFINE g == [T \in SUBSET S |-> IF Cardinality(T) = n + 1 THEN SumOf(w, f, T) ELSE f[T]]
  <2>2. ASSUME NEW T \in SUBSET S, Cardinality(T) <= n + 1
        PROVE  g[T] = SumOf(w, g, T)
    <3>1. SumOf(w, g, T) = SumOf(w, f, T)
      <4>1. CASE T = {}
        BY <4>1 DEF SumOf
      <4>2. CASE T # {}
        <5>1. Pick(T) \in T
          BY <4>2, PickIn
        <5>2. /\ T \ {Pick(T)} \in SUBSET S
              /\ Cardinality(T \ {Pick(T)}) = Cardinality(T) - 1
          BY <1>0, <5>1, FS_RemoveElement
        <5>3. Cardinality(T \ {Pick(T)}) # n + 1
          BY <1>0, <2>2, <5>2
        <5>4. g[T \ {Pick(T)}] = f[T \ {Pick(T)}]
          BY <5>2, <5>3
        <5> QED BY <5>4 DEF SumOf
      <4> QED BY <4>1, <4>2
    <3>2. CASE Cardinality(T) = n + 1
      BY <3>1, <3>2
    <3>3. CASE Cardinality(T) # n + 1
      <4>1. Cardinality(T) <= n /\ g[T] = f[T]
        BY <1>0, <2>2, <3>3
      <4>2. f[T] = SumOf(w, f, T)
        BY <2>1, <4>1
      <4> QED BY <3>1, <4>1, <4>2
    <3> QED BY <3>2, <3>3
  <2>3. Upto(n + 1, g)
    <3>1. g = [T \in SUBSET S |-> g[T]]
      OBVIOUS
    <3> HIDE DEF g
    <3> QED BY <2>2, <3>1
  <2>4. \E h : Upto(n + 1, h)
    <3> HIDE DEF g, Upto
    <3> QED BY <2>3
  <2> HIDE DEF Upto
  <2> QED BY <2>4
<1>3. Nat \subseteq Reached
  <2> HIDE DEF Reached
  <2> QED BY <1>1, <1>2, NumberInduction
<1>4. PICK f : Upto(Cardinality(S), f)
  BY <1>0, <1>3
<1>5. \A T \in SUBSET S : f[T] = SumOf(w, f, T)
  BY <1>4, FS_Subset
<1>6. IsSum(w, f, S)
  BY <1>4, <1>5 DEF IsSum
<1> QED BY <1>6

\* Its values are numbers.
LEMMA SumType ==
  ASSUME NEW S, NEW w, \A x \in S : w[x] \in Int, NEW f, IsSum(w, f, S)
  PROVE  \A T \in SUBSET S : IsFiniteSet(T) => f[T] \in Int
<1> DEFINE F == {T \in SUBSET S : f[T] \in Int}
<1>1. ASSUME NEW T \in SUBSET S, \A x \in T : T \ {x} \in F PROVE T \in F
  <2>1. f[T] = SumOf(w, f, T)
    BY DEF IsSum
  <2>2. CASE T = {}
    BY <2>1, <2>2 DEF SumOf
  <2>3. CASE T # {}
    <3>1. Pick(T) \in T /\ f[T] = w[Pick(T)] + f[T \ {Pick(T)}]
      BY <2>1, <2>3, PickIn DEF SumOf
    <3>2. w[Pick(T)] \in Int /\ f[T \ {Pick(T)}] \in Int
      BY <1>1, <3>1
    <3> QED BY <3>1, <3>2
  <2> QED BY <2>2, <2>3
<1>2. \A T \in SUBSET S : IsFiniteSet(T) => T \in F
  <2> HIDE DEF F
  <2> QED BY <1>1, SetInduction
<1> QED BY <1>2

\* The order in which the elements are taken does not matter: any of them can be
\* the first.
LEMMA SumAdd ==
  ASSUME NEW S, NEW w, \A x \in S : w[x] \in Int, NEW f, IsSum(w, f, S)
  PROVE  \A T \in SUBSET S : IsFiniteSet(T) =>
           \A x \in S \ T : f[T \cup {x}] = f[T] + w[x]
<1> DEFINE F == {T \in SUBSET S : \A x \in S \ T : f[T \cup {x}] = f[T] + w[x]}
<1>0. \A T \in SUBSET S : f[T] = SumOf(w, f, T)
  BY DEF IsSum
<1>1. ASSUME NEW T \in SUBSET S, IsFiniteSet(T), \A x \in T : T \ {x} \in F PROVE T \in F
  <2> SUFFICES ASSUME NEW x \in S \ T PROVE f[T \cup {x}] = f[T] + w[x]
    OBVIOUS
  <2> DEFINE y == Pick(T \cup {x})
  <2>1. /\ y \in T \cup {x} /\ T \cup {x} \in SUBSET S
        /\ f[T \cup {x}] = w[y] + f[(T \cup {x}) \ {y}]
    BY <1>0, PickIn DEF SumOf
  <2> HIDE DEF y
  <2>2. f[T] \in Int /\ w[x] \in Int /\ w[y] \in Int
    BY <1>1, <2>1, SumType
  <2>3. CASE y = x
    <3>1. (T \cup {x}) \ {y} = T
      BY <2>3
    <3>2. f[T \cup {x}] = w[x] + f[T]
      BY <2>1, <2>3, <3>1
    <3> QED BY <2>2, <3>2
  <2>4. CASE y # x
    <3> DEFINE R == T \ {y}
    <3>1. y \in T /\ R \in F /\ (T \cup {x}) \ {y} = R \cup {x} /\ R \cup {y} = T
      BY <1>1, <2>1, <2>4
    <3>2. f[R \cup {x}] = f[R] + w[x] /\ f[R \cup {y}] = f[R] + w[y]
      <4>1. x \in S \ R /\ y \in S \ R
        BY <3>1
      <4> HIDE DEF R
      <4> QED BY <3>1, <4>1
    <3>3. f[R] \in Int
      <4>1. IsFiniteSet(R) /\ R \in SUBSET S
        BY <1>1, FS_RemoveElement
      <4> QED BY <4>1, SumType
    <3> HIDE DEF R
    <3>4. f[T \cup {x}] = w[y] + f[R \cup {x}] /\ f[T] = f[R \cup {y}]
      BY <2>1, <3>1
    <3> QED BY <2>2, <3>2, <3>3, <3>4
  <2> QED BY <2>3, <2>4
<1>2. \A T \in SUBSET S : IsFiniteSet(T) => T \in F
  <2> HIDE DEF F
  <2> QED BY <1>1, SetInduction
<1> QED BY <1>2

\* Two sums agree on what their functions agree on.
LEMMA SumAgrees ==
  ASSUME NEW S, NEW w, NEW f, IsSum(w, f, S), NEW R \in SUBSET S,
         NEW v, NEW g, IsSum(v, g, R), \A x \in R : w[x] = v[x]
  PROVE  \A T \in SUBSET R : IsFiniteSet(T) => f[T] = g[T]
<1> DEFINE F == {T \in SUBSET R : f[T] = g[T]}
<1>1. ASSUME NEW T \in SUBSET R, \A x \in T : T \ {x} \in F PROVE T \in F
  <2>1. f[T] = SumOf(w, f, T) /\ g[T] = SumOf(v, g, T)
    BY DEF IsSum
  <2>2. CASE T = {}
    BY <2>1, <2>2 DEF SumOf
  <2>3. CASE T # {}
    BY <1>1, <2>1, <2>3, PickIn DEF SumOf
  <2> QED BY <2>2, <2>3
<1>2. \A T \in SUBSET R : IsFiniteSet(T) => T \in F
  <2> HIDE DEF F
  <2> QED BY <1>1, SetInduction
<1> QED BY <1>2

\* What SumFunction computes.
LEMMA SumFunctionIsSum ==
  ASSUME NEW w, IsFiniteSet(DOMAIN w)
  PROVE  \E f : IsSum(w, f, DOMAIN w) /\ SumFunction(w) = f[DOMAIN w]
<1> DEFINE f == CHOOSE f : IsSum(w, f, DOMAIN w)
<1>1. IsSum(w, f, DOMAIN w)
  BY SumExists
<1>2. SumFunction(w) = f[DOMAIN w]
  BY DEF SumFunction, SumFunctionOnSet, FoldFunctionOnSet, MapThenFoldSet, IsSum, SumOf, Pick
<1> QED BY <1>1, <1>2

\* A sum of numbers is one of them more than the sum of the others.
LEMMA SumWithout ==
  ASSUME NEW w, IsFiniteSet(DOMAIN w), \A x \in DOMAIN w : w[x] \in Int,
         NEW p \in DOMAIN w
  PROVE  /\ SumFunction(w) \in Int
         /\ SumFunction([x \in DOMAIN w \ {p} |-> w[x]]) \in Int
         /\ SumFunction(w) = SumFunction([x \in DOMAIN w \ {p} |-> w[x]]) + w[p]
<1> DEFINE S == DOMAIN w
           R == S \ {p}
           v == [x \in R |-> w[x]]
<1>1. IsFiniteSet(S) /\ IsFiniteSet(R) /\ R \in SUBSET S /\ S = R \cup {p} /\ DOMAIN v = R
  BY FS_RemoveElement
<1>2. PICK f : IsSum(w, f, S) /\ SumFunction(w) = f[S]
  BY SumFunctionIsSum
<1>3. PICK g : IsSum(v, g, R) /\ SumFunction(v) = g[R]
  BY <1>1, SumFunctionIsSum
<1>4. f[R] = g[R]
  <2>1. \A x \in R : w[x] = v[x]
    OBVIOUS
  <2> HIDE DEF S, R, v
  <2>2. \A T \in SUBSET R : IsFiniteSet(T) => f[T] = g[T]
    BY <1>1, <1>2, <1>3, <2>1, SumAgrees
  <2> QED BY <1>1, <2>2
<1>5. f[S] = f[R] + w[p]
  <2>1. p \in S \ R /\ \A x \in S : w[x] \in Int
    OBVIOUS
  <2> HIDE DEF S, R, v
  <2>2. \A T \in SUBSET S : IsFiniteSet(T) => \A x \in S \ T : f[T \cup {x}] = f[T] + w[x]
    BY <1>2, <2>1, SumAdd
  <2> QED BY <1>1, <2>1, <2>2
<1>6. f[S] \in Int /\ f[R] \in Int
  BY <1>1, <1>2, SumType
<1> QED BY <1>2, <1>3, <1>4, <1>5, <1>6

LEMMA SumOfNone == \A w : DOMAIN w = {} => SumFunction(w) = 0
<1> SUFFICES ASSUME NEW w, DOMAIN w = {} PROVE SumFunction(w) = 0
  OBVIOUS
<1>1. PICK f : IsSum(w, f, {}) /\ SumFunction(w) = f[{}]
  BY SumFunctionIsSum, FS_EmptySet
<1> QED BY <1>1 DEF IsSum, SumOf

\* A sum of natural numbers is one.
LEMMA SumOfNaturals ==
  ASSUME NEW w, IsFiniteSet(DOMAIN w), \A x \in DOMAIN w : w[x] \in Nat
  PROVE  SumFunction(w) \in Nat
<1> DEFINE S == DOMAIN w
<1>1. PICK f : IsSum(w, f, S) /\ SumFunction(w) = f[S]
  BY SumFunctionIsSum
<1> DEFINE F == {T \in SUBSET S : f[T] \in Nat}
<1>2. ASSUME NEW T \in SUBSET S, \A x \in T : T \ {x} \in F PROVE T \in F
  <2>1. f[T] = SumOf(w, f, T)
    BY <1>1 DEF IsSum
  <2>2. CASE T = {}
    BY <2>1, <2>2 DEF SumOf
  <2>3. CASE T # {}
    <3>1. Pick(T) \in T /\ f[T] = w[Pick(T)] + f[T \ {Pick(T)}]
      BY <2>1, <2>3, PickIn DEF SumOf
    <3>2. w[Pick(T)] \in Nat /\ f[T \ {Pick(T)}] \in Nat
      BY <1>2, <3>1
    <3> QED BY <3>1, <3>2
  <2> QED BY <2>2, <2>3
<1>3. \A T \in SUBSET S : IsFiniteSet(T) => T \in F
  <2> HIDE DEF F
  <2> QED BY <1>2, SetInduction
<1> QED BY <1>1, <1>3

\* A number in place of another, or a new one.
LEMMA SumPut ==
  ASSUME NEW w, IsFiniteSet(DOMAIN w), \A x \in DOMAIN w : w[x] \in Nat, NEW p, NEW n \in Nat
  PROVE  LET v == [x \in DOMAIN w \cup {p} |-> IF x = p THEN n ELSE w[x]] IN
         /\ IsFiniteSet(DOMAIN v) /\ \A x \in DOMAIN v : v[x] \in Nat
         /\ SumFunction(v) \in Nat /\ SumFunction(v) <= SumFunction(w) + n
<1> DEFINE D == DOMAIN w
           v == [x \in D \cup {p} |-> IF x = p THEN n ELSE w[x]]
           r == [x \in D \ {p} |-> w[x]]
<1>1. /\ IsFiniteSet(D) /\ IsFiniteSet(D \cup {p}) /\ DOMAIN v = D \cup {p}
      /\ \A x \in D \cup {p} : v[x] \in Nat
  BY FS_AddElement
<1>2. SumFunction(v) \in Nat /\ SumFunction(w) \in Nat
  <2> HIDE DEF v
  <2> QED BY <1>1, SumOfNaturals
<1>3. SumFunction(v) = SumFunction(r) + n
  <2>1. [x \in (D \cup {p}) \ {p} |-> v[x]] = r /\ v[p] = n
    OBVIOUS
  <2>2. SumFunction(v) = SumFunction([x \in (D \cup {p}) \ {p} |-> v[x]]) + v[p]
    <3> HIDE DEF v
    <3> QED BY <1>1, SumWithout
  <2> QED BY <2>1, <2>2
<1>4. SumFunction(r) \in Nat /\ SumFunction(r) <= SumFunction(w)
  <2>1. IsFiniteSet(D \ {p}) /\ DOMAIN r = D \ {p} /\ \A x \in D \ {p} : r[x] \in Nat
    BY <1>1, FS_RemoveElement
  <2>2. SumFunction(r) \in Nat
    <3> HIDE DEF r
    <3> QED BY <2>1, SumOfNaturals
  <2>3. CASE p \in D
    <3>1. SumFunction(w) = SumFunction(r) + w[p] /\ w[p] \in Nat
      BY <1>1, <2>3, SumWithout
    <3> QED BY <1>2, <2>2, <3>1
  <2>4. CASE p \notin D
    <3>1. r = [x \in D |-> w[x]] /\ D \ {p} = D
      BY <2>4
    <3>2. SumFunction(r) = SumFunction(w)
      <4>1. PICK f : IsSum(w, f, D) /\ SumFunction(w) = f[D]
        BY <1>1, SumFunctionIsSum
      <4>2. PICK g : IsSum(r, g, D) /\ SumFunction(r) = g[D]
        <5> HIDE DEF r
        <5> QED BY <2>1, <3>1, SumFunctionIsSum
      <4>3. \A T \in SUBSET D : IsFiniteSet(T) => f[T] = g[T]
        <5>1. \A x \in D : w[x] = r[x]
          BY <3>1
        <5> HIDE DEF r, D
        <5> QED BY <4>1, <4>2, <5>1, SumAgrees
      <4> QED BY <1>1, <4>1, <4>2, <4>3
    <3> QED BY <1>2, <3>2
  <2> QED BY <2>2, <2>3, <2>4
<1>5. SumFunction(v) <= SumFunction(w) + n
  <2> HIDE DEF v, r
  <2> QED BY <1>2, <1>3, <1>4
<1> QED BY <1>1, <1>2, <1>5

-----------------------------------------------------------------------------
(* Sums over sequences. *)

LEMMA SumOfSequence ==
  ASSUME NEW s \in Seq(Nat)
  PROVE  /\ IsFiniteSet(DOMAIN s) /\ \A i \in DOMAIN s : s[i] \in Nat
         /\ SumFunction(s) \in Nat
<1>1. IsFiniteSet(DOMAIN s) /\ \A i \in DOMAIN s : s[i] \in Nat
  BY FS_Interval
<1> QED BY <1>1, SumOfNaturals

\* The last element apart.
LEMMA SumLast ==
  ASSUME NEW s \in Seq(Nat), s # <<>>
  PROVE  SumFunction(s) = SumFunction(SubSeq(s, 1, Len(s) - 1)) + s[Len(s)]
<1>1. Len(s) \in DOMAIN s /\ \A i \in DOMAIN s : s[i] \in Int
  OBVIOUS
<1>2. SumFunction(s) = SumFunction([i \in DOMAIN s \ {Len(s)} |-> s[i]]) + s[Len(s)]
  BY <1>1, SumOfSequence, SumWithout
<1>3. [i \in DOMAIN s \ {Len(s)} |-> s[i]] = SubSeq(s, 1, Len(s) - 1)
  <2>1. DOMAIN s \ {Len(s)} = 1..(Len(s) - 1)
    OBVIOUS
  <2>2. SubSeq(s, 1, Len(s) - 1) = [i \in 1..(Len(s) - 1) |-> s[i]]
    OBVIOUS
  <2> QED BY <2>1, <2>2
<1> QED BY <1>2, <1>3

LEMMA SumAppend ==
  ASSUME NEW s \in Seq(Nat), NEW x \in Nat
  PROVE  SumFunction(Append(s, x)) = SumFunction(s) + x
<1> DEFINE t == Append(s, x)
<1>1. t \in Seq(Nat) /\ t # <<>> /\ SubSeq(t, 1, Len(t) - 1) = s /\ t[Len(t)] = x
  OBVIOUS
<1> HIDE DEF t
<1>2. SumFunction(t) = SumFunction(s) + x
  BY <1>1, SumLast
<1> QED BY <1>2 DEF t

LEMMA SumChangeLast ==
  ASSUME NEW s \in Seq(Nat), s # <<>>, NEW x \in Nat
  PROVE  SumFunction([s EXCEPT ![Len(s)] = x]) = SumFunction(s) - s[Len(s)] + x
<1> DEFINE t == [s EXCEPT ![Len(s)] = x]
<1>1. /\ t \in Seq(Nat) /\ t # <<>> /\ Len(t) = Len(s) /\ t[Len(t)] = x
      /\ SubSeq(t, 1, Len(t) - 1) = SubSeq(s, 1, Len(s) - 1)
  OBVIOUS
<1> HIDE DEF t
<1>2. SumFunction(t) = SumFunction(SubSeq(s, 1, Len(s) - 1)) + x
  BY <1>1, SumLast
<1>3. SumFunction(s) = SumFunction(SubSeq(s, 1, Len(s) - 1)) + s[Len(s)]
  BY SumLast
<1>4. SumFunction(SubSeq(s, 1, Len(s) - 1)) \in Nat /\ s[Len(s)] \in Nat
  <2>1. SubSeq(s, 1, Len(s) - 1) \in Seq(Nat)
    OBVIOUS
  <2>2. SumFunction(SubSeq(s, 1, Len(s) - 1)) \in Nat
    BY <2>1, SumOfSequence
  <2> QED BY <2>2
<1>5. SumFunction(t) = SumFunction(s) - s[Len(s)] + x
  BY <1>2, <1>3, <1>4
<1> QED BY <1>5 DEF t
==============================================================================
