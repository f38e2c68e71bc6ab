---------------------------- MODULE LibraryProofs ----------------------------
(* What the helpers of the specifications return, for arguments of any     *)
(* size: sums over finite sets (SumFunctionOnSet), joined sequences, and    *)
(* StableSort.                                                             *)
EXTENDS StableSort, FiniteSetsExt, FiniteSetTheorems, FunctionTheorems, SequenceTheorems, TLAPS

-----------------------------------------------------------------------------
(* Sums *)

(***************************************************************************)
(* Induction over the subsets of a finite set, about a set Q of them       *)
(* instead of a predicate.                                                 *)
(***************************************************************************)
LEMMA SubsetInduction ==
  ASSUME NEW S, IsFiniteSet(S), NEW Q,
         \A T \in SUBSET S : (\A U \in SUBSET T : U # T => U \in Q) => T \in Q
  PROVE  S \in Q
<1> DEFINE rest == (SUBSET S) \ Q
<1>1. SUFFICES ASSUME rest # {} PROVE FALSE
  OBVIOUS
<1>2. IsWellFoundedOn(StrictSubsetOrdering(S), SUBSET S)
  BY FS_StrictSubsetOrderingWellFounded, FS_FiniteSubsetsOfFinite
<1>3. PICK T \in rest : \A U \in rest : ~(<<U, T>> \in StrictSubsetOrdering(S))
  <2>1. rest \subseteq SUBSET S
    OBVIOUS
  <2> HIDE DEF rest
  <2> QED BY <1>1, <1>2, <2>1, WFMin
<1>4. \A U \in SUBSET T : U # T => U \in Q
  BY <1>3 DEF StrictSubsetOrdering
<1> QED BY <1>4

\* The recursion that MapThenFoldSet runs through, for SumFunctionOnSet.
Picked(s) == CHOOSE x \in s : TRUE
Others(s) == s \ {Picked(s)}
Recursion(w, T, f) ==
  f = [s \in SUBSET T |-> IF s = {} THEN 0 ELSE w[Picked(s)] + f[Others(s)]]
SumFrom(w, T) == CHOOSE f : Recursion(w, T, f)

LEMMA SumIsRecursion ==
  ASSUME NEW w, NEW T
  PROVE  SumFunctionOnSet(w, T) = SumFrom(w, T)[T]
BY DEF SumFunctionOnSet, FoldFunctionOnSet, MapThenFoldSet, Recursion, SumFrom, Picked, Others

LEMMA OthersAreFewer ==
  ASSUME NEW s, s # {}
  PROVE  Picked(s) \in s /\ Others(s) \in SUBSET s /\ Others(s) # s
BY DEF Picked, Others

\* A recursion over the subsets of a set agrees with one over fewer of them.
LEMMA RecursionsAgree ==
  ASSUME NEW w, NEW S, IsFiniteSet(S), NEW T \in SUBSET S, NEW f, NEW g,
         Recursion(w, S, f), Recursion(w, T, g)
  PROVE  f[T] = g[T]
<1> DEFINE Q == {s \in SUBSET T : f[s] = g[s]}
<1>1. ASSUME NEW s \in SUBSET T, \A u \in SUBSET s : u # s => u \in Q
      PROVE  f[s] = g[s]
  <2>1. CASE s = {}
    BY <2>1 DEF Recursion
  <2>2. CASE s # {}
    <3>1. f[Others(s)] = g[Others(s)]
      BY <1>1, <2>2, OthersAreFewer
    <3>2. f[s] = w[Picked(s)] + f[Others(s)] /\ g[s] = w[Picked(s)] + g[Others(s)]
      BY <2>2 DEF Recursion
    <3> QED BY <3>1, <3>2
  <2> QED BY <2>1, <2>2
<1>2. IsFiniteSet(T) /\ \A s \in SUBSET T : (\A u \in SUBSET s : u # s => u \in Q) => s \in Q
  BY <1>1, FS_Subset
<1>3. T \in Q
  <2> HIDE DEF Q
  <2> QED BY <1>2, SubsetInduction
<1> QED BY <1>3

LEMMA RecursionExists ==
  ASSUME NEW w, NEW S, IsFiniteSet(S)
  PROVE  Recursion(w, S, SumFrom(w, S))
<1> DEFINE Q == {T \in SUBSET S : \E f : Recursion(w, T, f)}
<1>1. ASSUME NEW T \in SUBSET S, \A U \in SUBSET T : U # T => U \in Q
      PROVE  T \in Q
  <2> DEFINE sum(s) == IF s = {} THEN 0 ELSE w[Picked(s)] + SumFrom(w, Others(s))[Others(s)]
             f == [s \in SUBSET T |-> sum(s)]
  <2>1. \A s \in SUBSET T : s # T => Recursion(w, s, SumFrom(w, s))
    BY <1>1 DEF SumFrom
  <2>2. ASSUME NEW s \in SUBSET T, s # T
        PROVE  SumFrom(w, s)[s] = sum(s)
    <3> DEFINE g == SumFrom(w, s)
    <3>1. ASSUME s # {} PROVE g[Others(s)] = SumFrom(w, Others(s))[Others(s)]
      <4>1. Others(s) \in SUBSET s /\ Others(s) \in SUBSET T /\ Others(s) # T
        BY <3>1, OthersAreFewer
      <4>2. Recursion(w, Others(s), SumFrom(w, Others(s))) /\ Recursion(w, s, g) /\ IsFiniteSet(s)
        BY <2>1, <2>2, <4>1, FS_Subset
      <4> QED BY <4>1, <4>2, RecursionsAgree
    <3>2. Recursion(w, s, g)
      BY <2>1, <2>2
    <3> HIDE DEF g
    <3>3. g[s] = IF s = {} THEN 0 ELSE w[Picked(s)] + g[Others(s)]
      BY <3>2 DEF Recursion
    <3> QED BY <3>1, <3>3 DEF g
  <2>3. \A s \in SUBSET T : s # {} => Others(s) \in SUBSET T /\ Others(s) # T
    BY OthersAreFewer
  <2>4. \A s \in SUBSET T : sum(s) = IF s = {} THEN 0 ELSE w[Picked(s)] + f[Others(s)]
    BY <2>2, <2>3
  <2>5. Recursion(w, T, f)
    BY <2>4 DEF Recursion
  <2> QED BY <2>5
<1>2. S \in Q
  <2> HIDE DEF Q
  <2> QED BY <1>1, SubsetInduction
<1> QED BY <1>2 DEF SumFrom

(***************************************************************************)
(* What the definition of SumFunctionOnSet comes to, for any finite set.   *)
(***************************************************************************)
LEMMA SumEquation ==
  ASSUME NEW w, NEW S, IsFiniteSet(S)
  PROVE  SumFunctionOnSet(w, S) =
           IF S = {} THEN 0 ELSE w[Picked(S)] + SumFunctionOnSet(w, Others(S))
<1> DEFINE f == SumFrom(w, S)
<1>1. Recursion(w, S, f)
  BY RecursionExists
<1>2. f[S] = IF S = {} THEN 0 ELSE w[Picked(S)] + f[Others(S)]
  <2> HIDE DEF f
  <2> QED BY <1>1 DEF Recursion
<1>3. f[Others(S)] = SumFrom(w, Others(S))[Others(S)]
  <2>1. Others(S) \in SUBSET S
    BY DEF Others
  <2>2. Recursion(w, Others(S), SumFrom(w, Others(S)))
    BY <2>1, FS_Subset, RecursionExists
  <2> QED BY <1>1, <2>1, <2>2, RecursionsAgree
<1> QED BY <1>2, <1>3, SumIsRecursion

LEMMA SumOfNone ==
  ASSUME NEW w
  PROVE  SumFunctionOnSet(w, {}) = 0
BY SumEquation, FS_EmptySet

LEMMA SumType ==
  ASSUME NEW w, NEW S, IsFiniteSet(S), \A x \in S : w[x] \in Nat
  PROVE  SumFunctionOnSet(w, S) \in Nat
<1> DEFINE Q == {T \in SUBSET S : SumFunctionOnSet(w, T) \in Nat}
<1>1. ASSUME NEW T \in SUBSET S, \A U \in SUBSET T : U # T => U \in Q
      PROVE  SumFunctionOnSet(w, T) \in Nat
  <2>1. CASE T = {}
    BY <2>1, SumOfNone
  <2>2. CASE T # {}
    <3>1. SumFunctionOnSet(w, Others(T)) \in Nat /\ Picked(T) \in S
      BY <1>1, <2>2, OthersAreFewer
    <3>2. SumFunctionOnSet(w, T) = w[Picked(T)] + SumFunctionOnSet(w, Others(T))
      BY <2>2, SumEquation, FS_Subset
    <3> QED BY <3>1, <3>2
  <2> QED BY <2>1, <2>2
<1>2. S \in Q
  <2>1. \A T \in SUBSET S : (\A U \in SUBSET T : U # T => U \in Q) => T \in Q
    BY <1>1
  <2> HIDE DEF Q
  <2> QED BY <2>1, SubsetInduction
<1> QED BY <1>2

LEMMA SumSame ==
  ASSUME NEW v, NEW w, NEW S, IsFiniteSet(S), \A x \in S : v[x] = w[x]
  PROVE  SumFunctionOnSet(v, S) = SumFunctionOnSet(w, S)
<1> DEFINE Q == {T \in SUBSET S : SumFunctionOnSet(v, T) = SumFunctionOnSet(w, T)}
<1>1. ASSUME NEW T \in SUBSET S, \A U \in SUBSET T : U # T => U \in Q
      PROVE  SumFunctionOnSet(v, T) = SumFunctionOnSet(w, T)
  <2>1. CASE T = {}
    BY <2>1, SumOfNone
  <2>2. CASE T # {}
    <3>1. SumFunctionOnSet(v, Others(T)) = SumFunctionOnSet(w, Others(T)) /\ Picked(T) \in S
      BY <1>1, <2>2, OthersAreFewer
    <3>2. /\ SumFunctionOnSet(v, T) = v[Picked(T)] + SumFunctionOnSet(v, Others(T))
          /\ SumFunctionOnSet(w, T) = w[Picked(T)] + SumFunctionOnSet(w, Others(T))
      BY <2>2, SumEquation, FS_Subset
    <3> QED BY <3>1, <3>2
  <2> QED BY <2>1, <2>2
<1>2. S \in Q
  <2>1. \A T \in SUBSET S : (\A U \in SUBSET T : U # T => U \in Q) => T \in Q
    BY <1>1
  <2> HIDE DEF Q
  <2> QED BY <2>1, SubsetInduction
<1> QED BY <1>2

\* Whichever element the definition picks, any other may be taken out first.
LEMMA SumWithout ==
  ASSUME NEW w, NEW S, IsFiniteSet(S), \A x \in S : w[x] \in Nat, NEW x \in S
  PROVE  SumFunctionOnSet(w, S) = SumFunctionOnSet(w, S \ {x}) + w[x]
<1> DEFINE sum(T) == SumFunctionOnSet(w, T)
           Q == {T \in SUBSET S : \A z \in T : sum(T) = sum(T \ {z}) + w[z]}
<1>1. ASSUME NEW T \in SUBSET S, \A U \in SUBSET T : U # T => U \in Q, NEW z \in T
      PROVE  sum(T) = sum(T \ {z}) + w[z]
  <2> DEFINE y == Picked(T)
  <2>1. \A U \in SUBSET T : U # T => \A u \in U : sum(U) = sum(U \ {u}) + w[u]
    BY <1>1
  <2>2. \A U \in SUBSET T : IsFiniteSet(U) /\ sum(U) \in Nat
    BY FS_Subset, SumType
  <2>3. y \in T /\ w[y] \in Nat /\ w[z] \in Nat
    BY OthersAreFewer
  <2>4. sum(T) = w[y] + sum(T \ {y})
    BY <2>2, SumEquation DEF Others
  <2> HIDE DEF sum, y, Q
  <2>5. CASE z = y
    BY <2>2, <2>3, <2>4, <2>5
  <2>6. CASE z # y
    <3>1. sum(T \ {y}) = sum((T \ {y}) \ {z}) + w[z]
      BY <2>1, <2>3, <2>6
    <3>2. sum(T \ {z}) = sum((T \ {y}) \ {z}) + w[y]
      <4>1. (T \ {z}) \ {y} = (T \ {y}) \ {z}
        OBVIOUS
      <4> QED BY <2>1, <2>3, <2>6, <4>1
    <3>3. sum((T \ {y}) \ {z}) \in Nat
      BY <2>2
    <3> QED BY <2>3, <2>4, <3>1, <3>2, <3>3
  <2> QED BY <2>5, <2>6
<1>2. S \in Q
  <2>1. \A T \in SUBSET S : (\A U \in SUBSET T : U # T => U \in Q) => T \in Q
    BY <1>1
  <2> HIDE DEF Q
  <2> QED BY <2>1, SubsetInduction
<1> QED BY <1>2

LEMMA SumWith ==
  ASSUME NEW w, NEW S, IsFiniteSet(S), \A x \in S : w[x] \in Nat,
         NEW a, a \notin S, w[a] \in Nat
  PROVE  SumFunctionOnSet(w, S \cup {a}) = SumFunctionOnSet(w, S) + w[a]
<1> DEFINE T == S \cup {a}
<1>1. IsFiniteSet(T) /\ (\A x \in T : w[x] \in Nat) /\ a \in T /\ T \ {a} = S
  BY FS_AddElement
<1> HIDE DEF T
<1>2. SumFunctionOnSet(w, T) = SumFunctionOnSet(w, T \ {a}) + w[a]
  BY <1>1, SumWithout
<1> QED BY <1>1, <1>2 DEF T

\* An element comes in, or grows.
LEMMA SumGrows ==
  ASSUME NEW v, NEW w, NEW S, IsFiniteSet(S), \A x \in S : w[x] \in Nat,
         NEW a, NEW d \in Nat, v[a] = (IF a \in S THEN w[a] ELSE 0) + d,
         \A x \in S : x # a => v[x] = w[x]
  PROVE  SumFunctionOnSet(v, S \cup {a}) = SumFunctionOnSet(w, S) + d
<1> DEFINE U == S \ {a}
<1>1. IsFiniteSet(U) /\ IsFiniteSet(S \cup {a}) /\ (S \cup {a}) \ {a} = U
  BY FS_Subset, FS_AddElement
<1>2. \A x \in S \cup {a} : v[x] \in Nat
  OBVIOUS
<1>3. SumFunctionOnSet(v, S \cup {a}) = SumFunctionOnSet(v, U) + v[a]
  BY <1>1, <1>2, SumWithout
<1>4. SumFunctionOnSet(v, U) = SumFunctionOnSet(w, U) /\ SumFunctionOnSet(w, U) \in Nat
  BY <1>1, SumSame, SumType
<1>5. CASE a \in S
  <2>1. SumFunctionOnSet(w, S) = SumFunctionOnSet(w, U) + w[a]
    BY <1>5, SumWithout
  <2>2. v[a] = w[a] + d /\ w[a] \in Nat
    BY <1>5
  <2> QED BY <1>3, <1>4, <2>1, <2>2
<1>6. CASE a \notin S
  <2>1. U = S /\ v[a] = d
    BY <1>6
  <2> QED BY <1>3, <1>4, <2>1
<1> QED BY <1>5, <1>6

\* The same of a function, and the sum of its values.
LEMMA SumOfFunctionGrows ==
  ASSUME NEW v, NEW w, IsFiniteSet(DOMAIN w), \A x \in DOMAIN w : w[x] \in Nat,
         NEW a, NEW d \in Nat, DOMAIN v = DOMAIN w \cup {a},
         v[a] = (IF a \in DOMAIN w THEN w[a] ELSE 0) + d,
         \A x \in DOMAIN w : x # a => v[x] = w[x]
  PROVE  SumFunction(v) = SumFunction(w) + d
<1> DEFINE S == DOMAIN w
<1>1. DOMAIN v = S \cup {a}
  OBVIOUS
<1>2. SumFunctionOnSet(v, S \cup {a}) = SumFunctionOnSet(w, S) + d
  <2> HIDE DEF S
  <2>1. IsFiniteSet(S) /\ (\A x \in S : w[x] \in Nat) /\ v[a] = (IF a \in S THEN w[a] ELSE 0) + d
        /\ (\A x \in S : x # a => v[x] = w[x])
    BY DEF S
  <2> QED BY <2>1, SumGrows
<1> QED BY <1>1, <1>2 DEF SumFunction

LEMMA SumOfZeros ==
  ASSUME NEW w, NEW S, IsFiniteSet(S), \A x \in S : w[x] = 0
  PROVE  SumFunctionOnSet(w, S) = 0
<1> DEFINE Q == {T \in SUBSET S : SumFunctionOnSet(w, T) = 0}
<1>1. ASSUME NEW T \in SUBSET S, \A U \in SUBSET T : U # T => U \in Q
      PROVE  T \in Q
  <2>1. CASE T = {}
    BY <2>1, SumOfNone
  <2>2. CASE T # {}
    <3>1. SumFunctionOnSet(w, Others(T)) = 0 /\ Picked(T) \in S /\ IsFiniteSet(T)
      BY <1>1, <2>2, OthersAreFewer, FS_Subset
    <3> QED BY <2>2, <3>1, SumEquation
  <2> QED BY <2>1, <2>2
<1>2. S \in Q
  <2> HIDE DEF Q
  <2> QED BY <1>1, SubsetInduction
<1> QED BY <1>2

\* Summing class by class makes no difference.
LEMMA SumByClass ==
  ASSUME NEW w, NEW S, IsFiniteSet(S), \A x \in S : w[x] \in Nat,
         NEW G, IsFiniteSet(G), NEW class, \A x \in S : class[x] \in G
  PROVE  SumFunctionOnSet(w, S) =
           SumFunctionOnSet([g \in G |-> SumFunctionOnSet(w, {x \in S : class[x] = g})], G)
<1> DEFINE of(T, g) == {x \in T : class[x] = g}
           by(T) == [g \in G |-> SumFunctionOnSet(w, of(T, g))]
           Q == {T \in SUBSET S : SumFunctionOnSet(w, T) = SumFunctionOnSet(by(T), G)}
<1>1. \A U \in SUBSET S : IsFiniteSet(U) /\ SumFunctionOnSet(w, U) \in Nat
  BY FS_Subset, SumType
<1>2. {} \in Q
  <2>1. \A g \in G : by({})[g] = 0
    <3>1. \A g \in G : of({}, g) = {}
      OBVIOUS
    <3> HIDE DEF of
    <3> QED BY <3>1, SumOfNone
  <2> HIDE DEF by
  <2>2. SumFunctionOnSet(by({}), G) = 0
    BY <2>1, SumOfZeros
  <2> QED BY <2>2, SumOfNone
<1>3. ASSUME NEW T \in SUBSET S, NEW a \in T, T \ {a} \in Q
      PROVE  SumFunctionOnSet(w, T) = SumFunctionOnSet(by(T), G)
  <2> DEFINE U == T \ {a}
  <2>1. SumFunctionOnSet(w, U) = SumFunctionOnSet(by(U), G)
    BY <1>3
  <2>2. U \in SUBSET S /\ w[a] \in Nat /\ class[a] \in G
    OBVIOUS
  <2>3. \A g \in G : by(U)[g] = SumFunctionOnSet(w, of(U, g)) /\ by(T)[g] = SumFunctionOnSet(w, of(T, g))
    OBVIOUS
  <2>4. /\ \A g \in G : of(U, g) \in SUBSET S /\ of(T, g) \in SUBSET S /\ (g # class[a] => of(T, g) = of(U, g))
        /\ of(U, class[a]) = of(T, class[a]) \ {a} /\ a \in of(T, class[a])
    OBVIOUS
  <2>5. SumFunctionOnSet(w, T) = SumFunctionOnSet(w, U) + w[a]
    BY <1>1, SumWithout
  <2> HIDE DEF of, by, U, Q
  <2>6. \A g \in G : by(U)[g] \in Nat /\ (g # class[a] => by(T)[g] = by(U)[g])
    BY <1>1, <2>3, <2>4
  <2>7. by(T)[class[a]] = by(U)[class[a]] + w[a]
    <3>1. \A x \in of(T, class[a]) : w[x] \in Nat
      BY <2>2, <2>4
    <3>2. SumFunctionOnSet(w, of(T, class[a])) = SumFunctionOnSet(w, of(U, class[a])) + w[a]
      BY <1>1, <2>2, <2>4, <3>1, SumWithout
    <3> QED BY <2>2, <2>3, <3>2
  <2>8. SumFunctionOnSet(by(T), G \cup {class[a]}) = SumFunctionOnSet(by(U), G) + w[a]
    <3> DEFINE v == by(T)
               u == by(U)
               c == class[a]
               d == w[a]
    <3>1. /\ \A g \in G : u[g] \in Nat
          /\ \A g \in G : g # c => v[g] = u[g]
          /\ v[c] = (IF c \in G THEN u[c] ELSE 0) + d /\ d \in Nat
      BY <2>2, <2>6, <2>7
    <3> HIDE DEF v, u, c, d
    <3>2. SumFunctionOnSet(v, G \cup {c}) = SumFunctionOnSet(u, G) + d
      BY <3>1, SumGrows
    <3> QED BY <3>2 DEF v, u, c, d
  <2>9. G \cup {class[a]} = G
    BY <2>2
  <2> QED BY <2>1, <2>5, <2>8, <2>9
<1>4. S \in Q
  <2>1. ASSUME NEW T \in SUBSET S, \A U \in SUBSET T : U # T => U \in Q
        PROVE  T \in Q
    <3>1. CASE T = {}
      BY <1>2, <3>1
    <3>2. CASE T # {}
      <4>1. PICK a \in T : TRUE
        BY <3>2
      <4>2. T \ {a} \in Q
        BY <2>1, <4>1
      <4> QED BY <1>3, <4>1, <4>2
    <3> QED BY <3>1, <3>2
  <2> HIDE DEF Q
  <2> QED BY <2>1, SubsetInduction
<1> QED BY <1>4

\* What is told apart may be renamed.
LEMMA SumOfImage ==
  ASSUME NEW w, NEW S, IsFiniteSet(S), \A x \in S : w[x] \in Nat,
         NEW f, \A x, y \in S : f[x] = f[y] => x = y,
         NEW v, NEW T, T = {f[x] : x \in S}, \A x \in S : v[f[x]] = w[x]
  PROVE  IsFiniteSet(T) /\ SumFunctionOnSet(v, T) = SumFunctionOnSet(w, S)
<1>1. IsFiniteSet(T)
  <2> DEFINE g == [x \in S |-> f[x]]
  <2>1. g \in Surjection(S, T)
    BY DEF Surjection
  <2> QED BY <2>1, FS_Surjection
<1>2. \A x \in S : {z \in S : f[z] = f[x]} = {x}
  OBVIOUS
<1>3. ASSUME NEW x \in S PROVE SumFunctionOnSet(w, {x}) = w[x]
  <2>1. SumFunctionOnSet(w, {} \cup {x}) = SumFunctionOnSet(w, {}) + w[x]
    BY FS_EmptySet, SumWith
  <2>2. {} \cup {x} = {x}
    OBVIOUS
  <2> QED BY <2>1, <2>2, SumOfNone
<1> DEFINE u == [y \in T |-> SumFunctionOnSet(w, {x \in S : f[x] = y})]
<1>4. SumFunctionOnSet(w, S) = SumFunctionOnSet(u, T)
  BY <1>1, SumByClass
<1>5. \A y \in T : u[y] = v[y]
  BY <1>2, <1>3
<1> HIDE DEF u
<1>6. SumFunctionOnSet(u, T) = SumFunctionOnSet(v, T)
  BY <1>1, <1>5, SumSame
<1> QED BY <1>1, <1>4, <1>6

LEMMA SumOfParts ==
  ASSUME NEW w, NEW S, IsFiniteSet(S), \A x \in S : w[x] \in Nat, NEW A \in SUBSET S
  PROVE  SumFunctionOnSet(w, S) = SumFunctionOnSet(w, A) + SumFunctionOnSet(w, S \ A)
<1> DEFINE G == {0, 1}
           class == [x \in S |-> IF x \in A THEN 1 ELSE 0]
           by == [g \in G |-> SumFunctionOnSet(w, {x \in S : class[x] = g})]
<1>1. SumFunctionOnSet(w, S) = SumFunctionOnSet(by, {0, 1})
  <2>1. IsFiniteSet(G)
    <3>1. IsFiniteSet({0}) /\ IsFiniteSet({0} \cup {1})
      BY FS_Singleton, FS_AddElement
    <3>2. G = {0} \cup {1}
      OBVIOUS
    <3> QED BY <3>1, <3>2, Zenon
  <2>2. \A x \in S : class[x] \in G
    OBVIOUS
  <2>3. SumFunctionOnSet(w, S) = SumFunctionOnSet(by, G)
    <3> HIDE DEF class, G
    <3> QED BY <2>1, <2>2, SumByClass
  <2> QED BY <2>3
<1>2. by[1] = SumFunctionOnSet(w, A) /\ by[0] = SumFunctionOnSet(w, S \ A)
  <2>1. {x \in S : class[x] = 1} = A /\ {x \in S : class[x] = 0} = S \ A
    OBVIOUS
  <2> HIDE DEF class
  <2> QED BY <2>1
<1>3. by[0] \in Nat /\ by[1] \in Nat
  BY <1>2, FS_Subset, SumType
<1> HIDE DEF by
<1>4. SumFunctionOnSet(by, {0}) = by[0]
  <2>1. {0} \ {0} = {}
    OBVIOUS
  <2> QED BY <1>3, <2>1, FS_Singleton, SumWithout, SumOfNone
<1>5. SumFunctionOnSet(by, {0, 1}) = SumFunctionOnSet(by, {0}) + by[1]
  <2>1. {0} \cup {1} = {0, 1}
    OBVIOUS
  <2> QED BY <1>3, <2>1, FS_Singleton, SumGrows
<1> QED BY <1>1, <1>2, <1>3, <1>4, <1>5

-----------------------------------------------------------------------------
(* Sequences that are joined *)

\* A sequence, of whatever elements.
IsSequence(s) == \E S : s \in Seq(S)

LEMMA JoinSequences ==
  ASSUME NEW s, NEW t, IsSequence(s), IsSequence(t)
  PROVE  /\ IsSequence(s \o t)
         /\ Len(s) \in Nat /\ Len(t) \in Nat
         /\ Len(s \o t) = Len(s) + Len(t)
         /\ \A i \in 1..Len(s) + Len(t) : (s \o t)[i] = IF i <= Len(s) THEN s[i] ELSE t[i - Len(s)]
<1>1. PICK S, T : s \in Seq(S) /\ t \in Seq(T)
  BY DEF IsSequence
<1>2. s \in Seq(S \cup T) /\ t \in Seq(S \cup T)
  BY <1>1, SeqMonotonic
<1> QED BY <1>2, ConcatProperties, LenProperties DEF IsSequence

\* s is a prefix of l.
StartsWith(l, s) == \A i \in 1..Len(s) : l[i] = s[i]

LEMMA TuplesAreSequences ==
  ASSUME NEW a, NEW b, NEW c
  PROVE  IsSequence(<<a>>) /\ IsSequence(<<a, b>>) /\ IsSequence(<<a, b, c>>)
<1>1. <<a>> \in Seq({a, b, c}) /\ <<a, b>> \in Seq({a, b, c}) /\ <<a, b, c>> \in Seq({a, b, c})
  OBVIOUS
<1> QED BY <1>1 DEF IsSequence

LEMMA JoinStarts ==
  ASSUME NEW s, NEW t, NEW u, IsSequence(s), IsSequence(t), IsSequence(u)
  PROVE  StartsWith(s \o t \o u, s)
<1> DEFINE v == s \o t
<1>1. /\ IsSequence(v)
      /\ Len(s) \in Nat /\ Len(t) \in Nat /\ Len(v) = Len(s) + Len(t)
      /\ \A i \in 1..Len(s) + Len(t) : v[i] = IF i <= Len(s) THEN s[i] ELSE t[i - Len(s)]
  BY JoinSequences
<1> HIDE DEF v
<1>2. /\ Len(u) \in Nat
      /\ \A i \in 1..Len(v) + Len(u) : (v \o u)[i] = IF i <= Len(v) THEN v[i] ELSE u[i - Len(v)]
  BY <1>1, JoinSequences
<1>3. \A i \in 1..Len(s) : v[i] = s[i]
  BY <1>1
<1>4. \A i \in 1..Len(s) : (v \o u)[i] = v[i]
  BY <1>1, <1>2
<1>5. StartsWith(v \o u, s)
  BY <1>3, <1>4 DEF StartsWith
<1> QED BY <1>5 DEF v


-----------------------------------------------------------------------------
(* The stable sort *)

(***************************************************************************)
(* InFront orders the positions totally, whatever less leaves open.        *)
(***************************************************************************)
LEMMA InFrontTotal ==
  ASSUME NEW n \in Nat, NEW less, StrictWeakOrder(less, n)
  PROVE  /\ \A i \in 1..n : ~InFront(less, i, i)
         /\ \A i, j \in 1..n : i # j => InFront(less, i, j) \/ InFront(less, j, i)
         /\ \A i, j, k \in 1..n : InFront(less, i, j) /\ InFront(less, j, k) => InFront(less, i, k)
BY DEF StrictWeakOrder, InFront

(***************************************************************************)
(* Every place is taken by one element: the sort loses and doubles none.   *)
(***************************************************************************)
LEMMA PlacesAreTaken ==
  ASSUME NEW n \in Nat, NEW less, StrictWeakOrder(less, n)
  PROVE  /\ \A i \in 1..n : Place(less, n, i) \in 1..n
         /\ \A i, j \in 1..n : InFront(less, i, j) => Place(less, n, i) < Place(less, n, j)
         /\ \A p \in 1..n : \E i \in 1..n : Place(less, n, i) = p
<1> DEFINE Ahead(i) == {j \in 1..n : InFront(less, j, i)}
           place == [i \in 1..n |-> Place(less, n, i)]
<1>1. IsFiniteSet(1..n) /\ Cardinality(1..n) = n
  BY FS_Interval
<1>2. \A i \in 1..n : IsFiniteSet(Ahead(i)) /\ Cardinality(Ahead(i)) \in Nat /\ Cardinality(Ahead(i)) < n
  <2>1. SUFFICES ASSUME NEW i \in 1..n
                 PROVE  IsFiniteSet(Ahead(i)) /\ Cardinality(Ahead(i)) \in Nat /\ Cardinality(Ahead(i)) < n
    OBVIOUS
  <2>2. Ahead(i) \in SUBSET (1..n) /\ i \notin Ahead(i)
    BY InFrontTotal
  <2>3. /\ IsFiniteSet(Ahead(i)) /\ Cardinality(Ahead(i)) <= n
        /\ Cardinality(Ahead(i)) = n => Ahead(i) = 1..n
    BY <1>1, <2>2, FS_Subset
  <2>4. Cardinality(Ahead(i)) \in Nat
    BY <2>3, FS_CardinalityType
  <2> QED BY <2>2, <2>3, <2>4
<1>3. \A i \in 1..n : Place(less, n, i) = Cardinality(Ahead(i)) + 1
  BY DEF Place
<1>4. \A i \in 1..n : Place(less, n, i) \in 1..n
  <2> HIDE DEF Ahead
  <2> QED BY <1>2, <1>3
<1>5. ASSUME NEW i \in 1..n, NEW j \in 1..n, InFront(less, i, j)
      PROVE  Place(less, n, i) < Place(less, n, j)
  <2>1. Ahead(i) \in SUBSET Ahead(j) /\ i \in Ahead(j) /\ i \notin Ahead(i)
    BY <1>5, InFrontTotal
  <2>2. /\ Cardinality(Ahead(i)) <= Cardinality(Ahead(j))
        /\ Cardinality(Ahead(i)) # Cardinality(Ahead(j))
    BY <1>2, <2>1, FS_Subset
  <2> HIDE DEF Ahead
  <2> QED BY <1>2, <1>3, <2>2
<1>6. place \in Injection(1..n, 1..n)
  <2>1. place \in [1..n -> 1..n]
    BY <1>4
  <2>2. \A i, j \in 1..n : place[i] = place[j] => i = j
    BY <1>4, <1>5, InFrontTotal
  <2> QED BY <2>1, <2>2 DEF Injection, IsInjective
<1>7. place \in Surjection(1..n, 1..n)
  BY <1>1, <1>6, FS_Injection
<1>8. \A p \in 1..n : \E i \in 1..n : Place(less, n, i) = p
  BY <1>7 DEF Surjection
<1> QED BY <1>4, <1>5, <1>8

(***************************************************************************)
(* The sorted sequence has the elements of s, each once, so that the less  *)
(* function never finds a later one smaller than an earlier one, and       *)
(* elements it does not tell apart are in the order they had in s.         *)
(***************************************************************************)
THEOREM StableSortSorts ==
  ASSUME NEW S, NEW s \in Seq(S), NEW less, StrictWeakOrder(less, Len(s))
  PROVE  /\ StableSort(s, less) \in Seq(S)
         /\ Len(StableSort(s, less)) = Len(s)
         /\ \E from \in Bijection(1..Len(s), 1..Len(s)) :
              /\ \A p \in 1..Len(s) : StableSort(s, less)[p] = s[from[p]]
              /\ \A p, q \in 1..Len(s) : p < q => InFront(less, from[p], from[q])
<1> DEFINE n == Len(s)
           from == [p \in 1..n |-> CHOOSE i \in 1..n : Place(less, n, i) = p]
<1>0. n \in Nat
  OBVIOUS
<1>1. \A p \in 1..n : from[p] \in 1..n /\ Place(less, n, from[p]) = p
  BY <1>0, PlacesAreTaken
<1>2. \A p \in 1..n : StableSort(s, less)[p] = s[from[p]]
  BY DEF StableSort
<1>3. StableSort(s, less) \in Seq(S) /\ Len(StableSort(s, less)) = n
  <2>1. StableSort(s, less) = [p \in 1..n |-> s[from[p]]]
    BY DEF StableSort
  <2>2. \A p \in 1..n : s[from[p]] \in S
    BY <1>1
  <2> HIDE DEF from
  <2> QED BY <1>0, <2>1, <2>2
<1>4. \A p, q \in 1..n : p < q => InFront(less, from[p], from[q])
  <2>1. SUFFICES ASSUME NEW p \in 1..n, NEW q \in 1..n, p < q
                 PROVE  InFront(less, from[p], from[q])
    OBVIOUS
  <2>2. from[p] # from[q] /\ from[p] \in 1..n /\ from[q] \in 1..n
    BY <1>1, <2>1
  <2>3. ~InFront(less, from[q], from[p])
    <3>1. InFront(less, from[q], from[p]) => Place(less, n, from[q]) < Place(less, n, from[p])
      BY <1>0, <2>2, PlacesAreTaken
    <3>2. Place(less, n, from[p]) = p /\ Place(less, n, from[q]) = q
      BY <1>1
    <3> QED BY <2>1, <3>1, <3>2
  <2> HIDE DEF from
  <2> QED BY <1>0, <2>2, <2>3, InFrontTotal
<1>5. from \in Bijection(1..n, 1..n)
  <2>1. from \in [1..n -> 1..n]
    BY <1>1
  <2>2. \A p, q \in 1..n : from[p] = from[q] => p = q
    BY <1>1
  <2>3. from \in Injection(1..n, 1..n)
    BY <2>1, <2>2 DEF Injection, IsInjective
  <2>4. IsFiniteSet(1..n) /\ Cardinality(1..n) = Cardinality(1..n)
    BY <1>0, FS_Interval
  <2>5. from \in Surjection(1..n, 1..n)
    BY <2>3, <2>4, FS_Injection
  <2> QED BY <2>3, <2>5 DEF Bijection
<1> QED BY <1>2, <1>3, <1>4, <1>5
=============================================================================
