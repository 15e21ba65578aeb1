------------------------------ MODULE SumLemmas ------------------------------
(***************************************************************************)
(* Least elements, induction over finite sets and the sums of the          *)
(* community modules, stated for functions and sets so that a proof can    *)
(* cite them.  An induction here is the least counterexample of a set.     *)
(***************************************************************************)
EXTENDS Integers, FiniteSets, FiniteSetsExt, FiniteSetTheorems,
        WellFoundedInduction, TLAPS

LEMMA LeastElement ==
  ASSUME NEW T, T \subseteq Nat, T # {}
  PROVE  \E x \in T : \A y \in T : x <= y
  <1> DEFINE R == OpToRel(<, Nat)
  <1>1. IsWellFoundedOn(R, Nat)
    BY NatLessThanWellFounded
  <1>2. \A x, y \in Nat : <<x, y>> \in R <=> x < y
    BY DEF OpToRel
  <1> HIDE DEF R
  <1>3. PICK x \in T : \A y \in T : ~(<<y, x>> \in R)
    BY <1>1, WFMin
  <1>4. ASSUME NEW y \in T
        PROVE  x <= y
    <2>1. x \in Nat /\ y \in Nat
      OBVIOUS
    <2>2. ~(y < x)
      BY <1>2, <1>3, <2>1
    <2> QED BY <2>1, <2>2
  <1> QED BY <1>4

\* Induction over the naturals, for a set of them.
LEMMA EveryNatural ==
  ASSUME NEW Good, 0 \in Good, \A n \in Nat : n \in Good => n + 1 \in Good
  PROVE  Nat \subseteq Good
  <1> DEFINE Bad == {n \in Nat : n \notin Good}
  <1> SUFFICES ASSUME Bad # {} PROVE FALSE
    OBVIOUS
  <1>1. PICK b \in Bad : \A c \in Bad : b <= c
    BY LeastElement
  <1>2. b \in Nat /\ b # 0
    OBVIOUS
  <1>3. b - 1 \in Nat /\ b - 1 \notin Bad
    BY <1>1, <1>2
  <1>4. (b - 1) + 1 = b
    BY <1>2
  <1> QED BY <1>2, <1>3, <1>4

\* A family of subsets of a finite set has one that contains no other.
LEMMA SmallestSet ==
  ASSUME NEW S, IsFiniteSet(S), NEW F, F \subseteq SUBSET S, F # {}
  PROVE  \E m \in F : \A t \in F : t \subseteq m => t = m
  <1> DEFINE R == StrictSubsetOrdering(S)
  <1>1. IsWellFoundedOn(R, FiniteSubsetsOf(S))
    BY FS_StrictSubsetOrderingWellFounded
  <1>2. FiniteSubsetsOf(S) = SUBSET S
    BY FS_FiniteSubsetsOfFinite
  <1>3. \A s, t \in SUBSET S : s \subseteq t /\ s # t => <<s, t>> \in R
    BY DEF StrictSubsetOrdering
  <1> HIDE DEF R
  <1>4. PICK m \in F : \A t \in F : ~(<<t, m>> \in R)
    BY <1>1, <1>2, WFMin
  <1> QED BY <1>3, <1>4

\* Induction over a finite set, for a family of its subsets.
LEMMA EverySubset ==
  ASSUME NEW S, IsFiniteSet(S), NEW Good, {} \in Good,
         \A T \in SUBSET S : \A x \in S : x \notin T /\ T \in Good => T \cup {x} \in Good
  PROVE  SUBSET S \subseteq Good
  <1> DEFINE Bad == {T \in SUBSET S : T \notin Good}
  <1> SUFFICES ASSUME Bad # {} PROVE FALSE
    OBVIOUS
  <1>1. \E m \in Bad : \A t \in Bad : t \subseteq m => t = m
    <2>1. Bad \subseteq SUBSET S
      OBVIOUS
    <2> HIDE DEF Bad
    <2> QED BY <2>1, SmallestSet
  <1>5. PICK m \in Bad : \A t \in Bad : t \subseteq m => t = m
    BY <1>1
  <1>2. PICK x : x \in m
    OBVIOUS
  <1>3. m \ {x} \in Good
    BY <1>5, <1>2
  <1>4. (m \ {x}) \cup {x} = m /\ x \in S
    BY <1>2
  <1> QED BY <1>3, <1>4

\* A finite set has finitely many values under a function.
LEMMA FiniteRange ==
  ASSUME NEW S, IsFiniteSet(S), NEW f
  PROVE  IsFiniteSet({f[x] : x \in S})
  <1> DEFINE T == {f[x] : x \in S}
             g == [x \in S |-> f[x]]
  <1>1. g \in Surjection(S, T)
    BY DEF Surjection
  <1> HIDE DEF g, T
  <1>2. IsFiniteSet(T)
    BY <1>1, FS_Surjection
  <1> QED BY <1>2 DEF T

\* Max and Min of the library are choices: these are the facts behind them.
LEMMA MaxOfFinite ==
  ASSUME NEW T, IsFiniteSet(T), T \subseteq Int, T # {}
  PROVE  Max(T) \in T /\ \A y \in T : Max(T) >= y
  <1> DEFINE Greatest(s) == \E x \in s : \A y \in s : x >= y
             Good == {s \in SUBSET T : s # {} => Greatest(s)}
  <1>1. ASSUME NEW s \in SUBSET T, NEW x \in T, x \notin s, s \in Good
        PROVE  s \cup {x} \in Good
    <2>1. CASE s = {}
      <3>1. \A y \in s \cup {x} : x >= y
        BY <2>1
      <3> QED BY <3>1
    <2>2. CASE s # {}
      <3>1. PICK g \in s : \A y \in s : g >= y
        BY <1>1, <2>2
      <3>2. CASE x >= g
        <4>1. \A y \in s \cup {x} : x >= y
          BY <3>1, <3>2
        <4> QED BY <4>1
      <3>3. CASE g >= x
        <4>1. \A y \in s \cup {x} : g >= y
          BY <3>1, <3>3
        <4> QED BY <3>1, <4>1
      <3>4. x >= g \/ g >= x
        BY <3>1
      <3> QED BY <3>2, <3>3, <3>4
    <2> QED BY <2>1, <2>2
  <1>2. {} \in Good
    OBVIOUS
  <1>3. SUBSET T \subseteq Good
    <2>1. \A s \in SUBSET T : \A x \in T : x \notin s /\ s \in Good => s \cup {x} \in Good
      BY <1>1
    <2> HIDE DEF Good
    <2> QED BY <1>2, <2>1, EverySubset
  <1>4. \E x \in T : \A y \in T : x >= y
    BY <1>3
  <1> QED BY <1>4 DEF Max

LEMMA MinOfFinite ==
  ASSUME NEW T, IsFiniteSet(T), T \subseteq Int, T # {}
  PROVE  Min(T) \in T /\ \A y \in T : Min(T) <= y
  <1> DEFINE Lowest(s) == \E x \in s : \A y \in s : x <= y
             Good == {s \in SUBSET T : s # {} => Lowest(s)}
  <1>1. ASSUME NEW s \in SUBSET T, NEW x \in T, x \notin s, s \in Good
        PROVE  s \cup {x} \in Good
    <2>1. CASE s = {}
      <3>1. \A y \in s \cup {x} : x <= y
        BY <2>1
      <3> QED BY <3>1
    <2>2. CASE s # {}
      <3>1. PICK g \in s : \A y \in s : g <= y
        BY <1>1, <2>2
      <3>2. CASE x <= g
        <4>1. \A y \in s \cup {x} : x <= y
          BY <3>1, <3>2
        <4> QED BY <4>1
      <3>3. CASE g <= x
        <4>1. \A y \in s \cup {x} : g <= y
          BY <3>1, <3>3
        <4> QED BY <3>1, <4>1
      <3>4. x <= g \/ g <= x
        BY <3>1
      <3> QED BY <3>2, <3>3, <3>4
    <2> QED BY <2>1, <2>2
  <1>2. {} \in Good
    OBVIOUS
  <1>3. SUBSET T \subseteq Good
    <2>1. \A s \in SUBSET T : \A x \in T : x \notin s /\ s \in Good => s \cup {x} \in Good
      BY <1>1
    <2> HIDE DEF Good
    <2> QED BY <1>2, <2>1, EverySubset
  <1>4. \E x \in T : \A y \in T : x <= y
    BY <1>3
  <1> QED BY <1>4 DEF Min

-----------------------------------------------------------------------------
(* What a sum of the community modules is, without its recursion.          *)

FirstTaken(s) == CHOOSE x \in s : TRUE
SumVia(f, h, s) == IF s = {} THEN 0 ELSE f[FirstTaken(s)] + h[s \ {FirstTaken(s)}]
SumTable(f, U, h) == h = [s \in SUBSET U |-> SumVia(f, h, s)]

LEMMA SumIs ==
  ASSUME NEW f, NEW U
  PROVE  SumFunctionOnSet(f, U) = (CHOOSE h : SumTable(f, U, h))[U]
  BY DEF SumFunctionOnSet, FoldFunctionOnSet, MapThenFoldSet, SumTable, SumVia, FirstTaken

LEMMA SumsExist ==
  ASSUME NEW f, NEW U, IsFiniteSet(U)
  PROVE  \E h : SumTable(f, U, h)
  <1> DEFINE Upto(n, h) == \A s \in SUBSET U : Cardinality(s) <= n => h[s] = SumVia(f, h, s)
             Good == {n \in Nat : \E h : Upto(n, h)}
             Next(h) == [s \in SUBSET U |-> SumVia(f, h, s)]
  <1>1. \A s \in SUBSET U : IsFiniteSet(s) /\ Cardinality(s) \in Nat
    BY FS_Subset, FS_CardinalityType
  <1>2. \A s \in SUBSET U : s # {} =>
          /\ FirstTaken(s) \in s /\ s \ {FirstTaken(s)} \in SUBSET U
          /\ Cardinality(s \ {FirstTaken(s)}) = Cardinality(s) - 1
    BY <1>1, FS_RemoveElement DEF FirstTaken
  <1>3. 0 \in Good
    <2>1. \A s \in SUBSET U : Cardinality(s) <= 0 => s = {}
      BY <1>1, FS_EmptySet
    <2>2. Upto(0, [s \in SUBSET U |-> 0])
      BY <2>1 DEF SumVia
    <2> QED BY <2>2
  <1>4. ASSUME NEW n \in Nat, NEW h, Upto(n, h)
        PROVE  Upto(n + 1, Next(h))
    <2> SUFFICES ASSUME NEW s \in SUBSET U, Cardinality(s) <= n + 1
                 PROVE  SumVia(f, h, s) = SumVia(f, Next(h), s)
      OBVIOUS
    <2>1. CASE s = {}
      BY <2>1 DEF SumVia
    <2>2. CASE s # {}
      <3> DEFINE r == s \ {FirstTaken(s)}
      <3>1. r \in SUBSET U /\ Cardinality(r) <= n
        BY <1>1, <1>2, <2>2
      <3>2. h[r] = SumVia(f, h, r)
        BY <1>4, <3>1
      <3>3. Next(h)[r] = SumVia(f, h, r)
        BY <3>1
      <3> QED BY <2>2, <3>2, <3>3 DEF SumVia
    <2> QED BY <2>1, <2>2
  <1>5. Nat \subseteq Good
    <2>1. ASSUME NEW n \in Nat, n \in Good
          PROVE  n + 1 \in Good
      <3>1. PICK h : Upto(n, h)
        BY <2>1
      <3>2. Upto(n + 1, Next(h))
        BY <1>4, <3>1
      <3> HIDE DEF Upto, Next
      <3> QED BY <3>2
    <2> HIDE DEF Good
    <2> QED BY <1>3, <2>1, EveryNatural
  <1>6. PICK h : Upto(Cardinality(U), h)
    BY <1>1, <1>5
  <1>7. \A s \in SUBSET U : h[s] = SumVia(f, h, s)
    BY <1>1, <1>6, FS_Subset
  <1>8. \A s \in SUBSET U : SumVia(f, h, s) = SumVia(f, Next(h), s)
    <2> TAKE s \in SUBSET U
    <2>1. s # {} => h[s \ {FirstTaken(s)}] = Next(h)[s \ {FirstTaken(s)}]
      BY <1>7
    <2> QED BY <2>1 DEF SumVia
  <1>9. SumTable(f, U, Next(h))
    BY <1>8 DEF SumTable
  <1> QED BY <1>9

LEMMA SumsAgree ==
  ASSUME NEW f, NEW U, NEW h, SumTable(f, U, h), NEW W, NEW g, SumTable(f, W, g),
         NEW T, IsFiniteSet(T), T \subseteq U, T \subseteq W
  PROVE  h[T] = g[T]
  <1> DEFINE Bad == {s \in SUBSET T : h[s] # g[s]}
  <1> SUFFICES ASSUME Bad # {} PROVE FALSE
    OBVIOUS
  <1>0. \E m \in Bad : \A t \in Bad : t \subseteq m => t = m
    <2>1. Bad \subseteq SUBSET T
      OBVIOUS
    <2> HIDE DEF Bad
    <2> QED BY <2>1, SmallestSet
  <1>1. PICK m \in Bad : \A t \in Bad : t \subseteq m => t = m
    BY <1>0
  <1>2. h[m] = SumVia(f, h, m) /\ g[m] = SumVia(f, g, m)
    <2>1. m \in SUBSET U /\ m \in SUBSET W
      OBVIOUS
    <2> QED BY <2>1 DEF SumTable
  <1>3. m # {} /\ FirstTaken(m) \in m
    BY <1>2 DEF SumVia, FirstTaken
  <1>4. h[m \ {FirstTaken(m)}] = g[m \ {FirstTaken(m)}]
    BY <1>1, <1>3
  <1> QED BY <1>2, <1>4 DEF SumVia

LEMMA SumStep ==
  ASSUME NEW f, NEW U, IsFiniteSet(U)
  PROVE  /\ SumFunctionOnSet(f, {}) = 0
         /\ U # {} => /\ FirstTaken(U) \in U
                      /\ SumFunctionOnSet(f, U)
                           = f[FirstTaken(U)] + SumFunctionOnSet(f, U \ {FirstTaken(U)})
  <1>1. ASSUME NEW V, IsFiniteSet(V)
        PROVE  \E h : SumTable(f, V, h) /\ SumFunctionOnSet(f, V) = h[V]
    <2>1. \E h : SumTable(f, V, h)
      BY <1>1, SumsExist
    <2>2. SumTable(f, V, CHOOSE h : SumTable(f, V, h))
      BY <2>1
    <2> QED BY <2>2, SumIs
  <1>2. SumFunctionOnSet(f, {}) = 0
    <2>1. PICK h : SumTable(f, {}, h) /\ SumFunctionOnSet(f, {}) = h[{}]
      BY <1>1, FS_EmptySet
    <2> QED BY <2>1 DEF SumTable, SumVia
  <1>3. ASSUME U # {}
        PROVE  /\ FirstTaken(U) \in U
               /\ SumFunctionOnSet(f, U)
                    = f[FirstTaken(U)] + SumFunctionOnSet(f, U \ {FirstTaken(U)})
    <2> DEFINE T == U \ {FirstTaken(U)}
    <2>1. FirstTaken(U) \in U
      BY <1>3 DEF FirstTaken
    <2>2. IsFiniteSet(T) /\ T \subseteq U
      BY FS_RemoveElement
    <2>3. PICK h : SumTable(f, U, h) /\ SumFunctionOnSet(f, U) = h[U]
      BY <1>1
    <2>4. PICK g : SumTable(f, T, g) /\ SumFunctionOnSet(f, T) = g[T]
      BY <1>1, <2>2
    <2>5. h[T] = g[T]
      BY <2>2, <2>3, <2>4, SumsAgree
    <2>6. h[U] = f[FirstTaken(U)] + h[T]
      BY <1>3, <2>3 DEF SumTable, SumVia
    <2> QED BY <2>1, <2>3, <2>4, <2>5, <2>6
  <1> QED BY <1>2, <1>3

-----------------------------------------------------------------------------
(* Facts about sums.                                                       *)

LEMMA SumEmpty ==
  ASSUME NEW f
  PROVE  SumFunctionOnSet(f, {}) = 0
  BY SumStep, FS_EmptySet

LEMMA SumType ==
  ASSUME NEW f, NEW U, IsFiniteSet(U), NEW N, N = Int \/ N = Nat, \A x \in U : f[x] \in N
  PROVE  SumFunctionOnSet(f, U) \in N
  <1> DEFINE Bad == {s \in SUBSET U : SumFunctionOnSet(f, s) \notin N}
  <1> SUFFICES ASSUME Bad # {} PROVE FALSE
    OBVIOUS
  <1>1. \E m \in Bad : \A t \in Bad : t \subseteq m => t = m
    <2>1. Bad \subseteq SUBSET U
      OBVIOUS
    <2> HIDE DEF Bad
    <2> QED BY <2>1, SmallestSet
  <1>2. PICK m \in Bad : \A t \in Bad : t \subseteq m => t = m
    BY <1>1
  <1>3. m \in SUBSET U /\ IsFiniteSet(m)
    BY FS_Subset
  <1>4. m # {}
    BY SumEmpty
  <1>5. /\ FirstTaken(m) \in m
        /\ SumFunctionOnSet(f, m) = f[FirstTaken(m)] + SumFunctionOnSet(f, m \ {FirstTaken(m)})
    BY <1>3, <1>4, SumStep
  <1>6. SumFunctionOnSet(f, m \ {FirstTaken(m)}) \in N
    BY <1>2, <1>3, <1>5
  <1>7. f[FirstTaken(m)] \in N
    BY <1>3, <1>5
  <1>8. \A i, j \in N : i + j \in N
    OBVIOUS
  <1>9. SumFunctionOnSet(f, m) \in N
    BY <1>5, <1>6, <1>7, <1>8
  <1> QED BY <1>2, <1>9

\* A sum does not depend on the element it starts with.
LEMMA SumRemove ==
  ASSUME NEW f, NEW U, IsFiniteSet(U), \A x \in U : f[x] \in Int, NEW y \in U
  PROVE  SumFunctionOnSet(f, U) = f[y] + SumFunctionOnSet(f, U \ {y})
  <1> DEFINE V(s) == SumFunctionOnSet(f, s)
             Bad == {s \in SUBSET U : \E x \in s : V(s) # f[x] + V(s \ {x})}
  <1> SUFFICES ASSUME Bad # {} PROVE FALSE
    OBVIOUS
  <1>1. \E m \in Bad : \A t \in Bad : t \subseteq m => t = m
    <2>1. Bad \subseteq SUBSET U
      OBVIOUS
    <2> HIDE DEF Bad
    <2> QED BY <2>1, SmallestSet
  <1>2. PICK m \in Bad : \A t \in Bad : t \subseteq m => t = m
    BY <1>1
  <1>3. PICK x \in m : V(m) # f[x] + V(m \ {x})
    BY <1>2
  <1>4. m \in SUBSET U /\ IsFiniteSet(m) /\ m # {}
    BY FS_Subset
  <1> DEFINE c == FirstTaken(m)
  <1>5. c \in m /\ V(m) = f[c] + V(m \ {c})
    BY <1>4, SumStep
  <1>6. \A t \in SUBSET m : t # m => \A z \in t : V(t) = f[z] + V(t \ {z})
    BY <1>2, <1>4
  <1> HIDE DEF Bad, V, c
  <1>7. c # x
    BY <1>3, <1>5
  <1>8. V(m \ {c}) = f[x] + V((m \ {c}) \ {x})
    <2>1. m \ {c} \in SUBSET m /\ m \ {c} # m /\ x \in m \ {c}
      BY <1>5, <1>7
    <2> QED BY <1>6, <2>1
  <1>9. V(m \ {x}) = f[c] + V((m \ {x}) \ {c})
    <2>1. m \ {x} \in SUBSET m /\ m \ {x} # m /\ c \in m \ {x}
      BY <1>5, <1>7
    <2> QED BY <1>6, <2>1
  <1>10. (m \ {x}) \ {c} = (m \ {c}) \ {x}
    OBVIOUS
  <1>11. V((m \ {c}) \ {x}) \in Int
    <2>1. IsFiniteSet((m \ {c}) \ {x}) /\ (m \ {c}) \ {x} \subseteq U
      BY <1>4, FS_Subset
    <2> QED BY <2>1, SumType DEF V
  <1>12. f[x] \in Int /\ f[c] \in Int
    BY <1>4, <1>5
  <1>13. PICK a : a = V((m \ {c}) \ {x})
    OBVIOUS
  <1>14. V(m) = f[c] + (f[x] + a) /\ V(m \ {x}) = f[c] + a /\ a \in Int
    BY <1>5, <1>8, <1>9, <1>10, <1>11, <1>13
  <1>15. V(m) = f[x] + V(m \ {x})
    BY <1>12, <1>14
  <1> QED BY <1>3, <1>15

LEMMA SumAdd ==
  ASSUME NEW f, NEW T, IsFiniteSet(T), NEW x, x \notin T,
         \A y \in T \cup {x} : f[y] \in Int
  PROVE  SumFunctionOnSet(f, T \cup {x}) = f[x] + SumFunctionOnSet(f, T)
  <1>1. IsFiniteSet(T \cup {x})
    BY FS_AddElement
  <1>2. (T \cup {x}) \ {x} = T /\ x \in T \cup {x}
    OBVIOUS
  <1> QED BY <1>1, <1>2, SumRemove

LEMMA SumOfOne ==
  ASSUME NEW f, NEW x, f[x] \in Int
  PROVE  SumFunctionOnSet(f, {x}) = f[x]
  <1>1. SumFunctionOnSet(f, {} \cup {x}) = f[x] + SumFunctionOnSet(f, {})
    BY SumAdd, FS_EmptySet
  <1>2. {} \cup {x} = {x}
    OBVIOUS
  <1> QED BY <1>1, <1>2, SumEmpty

\* Functions that agree on a set have one sum over it.
LEMMA SumSame ==
  ASSUME NEW U, IsFiniteSet(U), NEW f, NEW g, \A x \in U : f[x] = g[x]
  PROVE  SumFunctionOnSet(f, U) = SumFunctionOnSet(g, U)
  <1> DEFINE Bad == {s \in SUBSET U : SumFunctionOnSet(f, s) # SumFunctionOnSet(g, s)}
  <1> SUFFICES ASSUME Bad # {} PROVE FALSE
    OBVIOUS
  <1>1. \E m \in Bad : \A t \in Bad : t \subseteq m => t = m
    <2>1. Bad \subseteq SUBSET U
      OBVIOUS
    <2> HIDE DEF Bad
    <2> QED BY <2>1, SmallestSet
  <1>2. PICK m \in Bad : \A t \in Bad : t \subseteq m => t = m
    BY <1>1
  <1>3. m \in SUBSET U /\ IsFiniteSet(m)
    BY FS_Subset
  <1>4. m # {}
    BY SumEmpty
  <1>5. /\ FirstTaken(m) \in m
        /\ SumFunctionOnSet(f, m) = f[FirstTaken(m)] + SumFunctionOnSet(f, m \ {FirstTaken(m)})
        /\ SumFunctionOnSet(g, m) = g[FirstTaken(m)] + SumFunctionOnSet(g, m \ {FirstTaken(m)})
    BY <1>3, <1>4, SumStep
  <1>6. SumFunctionOnSet(f, m \ {FirstTaken(m)}) = SumFunctionOnSet(g, m \ {FirstTaken(m)})
    BY <1>2, <1>3, <1>5
  <1>7. f[FirstTaken(m)] = g[FirstTaken(m)]
    BY <1>3, <1>5
  <1> QED BY <1>2, <1>5, <1>6, <1>7

\* The sum of a sum and of a multiple.
LEMMA SumLinear ==
  ASSUME NEW U, IsFiniteSet(U), NEW f, NEW g, NEW h, NEW k \in Int,
         \A x \in U : f[x] \in Int /\ g[x] \in Int /\ h[x] = f[x] + k * g[x]
  PROVE  SumFunctionOnSet(h, U) = SumFunctionOnSet(f, U) + k * SumFunctionOnSet(g, U)
  <1> DEFINE V(s) == SumFunctionOnSet(f, s)
             W(s) == SumFunctionOnSet(g, s)
             X(s) == SumFunctionOnSet(h, s)
             Good == {s \in SUBSET U : X(s) = V(s) + k * W(s)}
  <1>1. {} \in Good
    BY SumEmpty
  <1>2. ASSUME NEW T \in SUBSET U, NEW x \in U, x \notin T, T \in Good
        PROVE  T \cup {x} \in Good
    <2>1. IsFiniteSet(T)
      BY FS_Subset
    <2>2. \A y \in T \cup {x} : f[y] \in Int /\ g[y] \in Int /\ h[y] \in Int
      OBVIOUS
    <2>3. /\ V(T \cup {x}) = f[x] + V(T)
          /\ W(T \cup {x}) = g[x] + W(T)
          /\ X(T \cup {x}) = h[x] + X(T)
      BY <1>2, <2>1, <2>2, SumAdd
    <2>4. V(T) \in Int /\ W(T) \in Int
      BY <2>1, <2>2, SumType
    <2>5. X(T) = V(T) + k * W(T) /\ h[x] = f[x] + k * g[x]
      BY <1>2
    <2>6. f[x] \in Int /\ g[x] \in Int
      OBVIOUS
    <2> HIDE DEF V, W, X
    <2>8. k * (g[x] + W(T)) = k * g[x] + k * W(T)
      BY <2>4, <2>6
    <2>9. k * g[x] \in Int /\ k * W(T) \in Int
      BY <2>4, <2>6
    <2>7. X(T \cup {x}) = V(T \cup {x}) + k * W(T \cup {x})
      BY <2>3, <2>4, <2>5, <2>6, <2>8, <2>9
    <2> QED BY <2>7
  <1>3. U \in Good
    <2> HIDE DEF Good
    <2> QED BY <1>1, <1>2, EverySubset
  <1> QED BY <1>3

LEMMA SumAtMost ==
  ASSUME NEW U, IsFiniteSet(U), NEW f, NEW g,
         \A x \in U : f[x] \in Int /\ g[x] \in Int /\ f[x] <= g[x]
  PROVE  SumFunctionOnSet(f, U) <= SumFunctionOnSet(g, U)
  <1> DEFINE V(s) == SumFunctionOnSet(f, s)
             W(s) == SumFunctionOnSet(g, s)
             Good == {s \in SUBSET U : V(s) <= W(s)}
  <1>1. {} \in Good
    BY SumEmpty
  <1>2. ASSUME NEW T \in SUBSET U, NEW x \in U, x \notin T, T \in Good
        PROVE  T \cup {x} \in Good
    <2>1. IsFiniteSet(T)
      BY FS_Subset
    <2>2. \A y \in T \cup {x} : f[y] \in Int /\ g[y] \in Int
      OBVIOUS
    <2>3. V(T \cup {x}) = f[x] + V(T) /\ W(T \cup {x}) = g[x] + W(T)
      BY <1>2, <2>1, <2>2, SumAdd
    <2>4. V(T) \in Int /\ W(T) \in Int /\ f[x] \in Int /\ g[x] \in Int
      BY <2>1, <2>2, SumType
    <2>5. V(T) <= W(T) /\ f[x] <= g[x]
      BY <1>2
    <2> HIDE DEF V, W
    <2>6. V(T \cup {x}) <= W(T \cup {x})
      BY <2>3, <2>4, <2>5
    <2> QED BY <2>6
  <1>3. U \in Good
    <2> HIDE DEF Good
    <2> QED BY <1>1, <1>2, EverySubset
  <1> QED BY <1>3

LEMMA SumUnion ==
  ASSUME NEW U, IsFiniteSet(U), NEW W, IsFiniteSet(W), \A x \in U : x \notin W,
         NEW f, \A x \in U : f[x] \in Int, \A x \in W : f[x] \in Int
  PROVE  SumFunctionOnSet(f, U \cup W) = SumFunctionOnSet(f, U) + SumFunctionOnSet(f, W)
  <1> DEFINE V(s) == SumFunctionOnSet(f, s)
             Good == {s \in SUBSET W : V(U \cup s) = V(U) + V(s)}
  <1>0. V(U) \in Int
    BY SumType
  <1>1. {} \in Good
    <2>1. U \cup {} = U
      OBVIOUS
    <2>2. V({}) = 0
      BY SumEmpty
    <2> HIDE DEF V
    <2> QED BY <1>0, <2>1, <2>2
  <1>2. ASSUME NEW T \in SUBSET W, NEW x \in W, x \notin T, T \in Good
        PROVE  T \cup {x} \in Good
    <2>1. IsFiniteSet(T) /\ IsFiniteSet(U \cup T)
      BY FS_Subset, FS_Union
    <2>2. \A y \in (U \cup T) \cup {x} : f[y] \in Int
      OBVIOUS
    <2>3. x \notin U \cup T
      BY <1>2
    <2>4. V((U \cup T) \cup {x}) = f[x] + V(U \cup T)
      BY <2>1, <2>2, <2>3, SumAdd
    <2>5. V(T \cup {x}) = f[x] + V(T)
      BY <1>2, <2>1, <2>2, SumAdd
    <2>6. V(T) \in Int /\ f[x] \in Int
      BY <2>1, <2>2, SumType
    <2>7. V(U \cup T) = V(U) + V(T)
      BY <1>2
    <2>8. U \cup (T \cup {x}) = (U \cup T) \cup {x}
      OBVIOUS
    <2> HIDE DEF V
    <2>10. V(U \cup (T \cup {x})) = f[x] + (V(U) + V(T))
      BY <2>4, <2>7, <2>8
    <2>9. V(U \cup (T \cup {x})) = V(U) + V(T \cup {x})
      BY <1>0, <2>5, <2>6, <2>10
    <2> QED BY <2>9
  <1>3. W \in Good
    <2> HIDE DEF Good
    <2>1. \A T \in SUBSET W : \A x \in W : x \notin T /\ T \in Good => T \cup {x} \in Good
      BY <1>2
    <2>2. SUBSET W \subseteq Good
      BY <1>1, <2>1, EverySubset
    <2> QED BY <2>2
  <1> QED BY <1>3

\* Parts of a whole, finite and disjoint, and a function that is f on each.
Split(P, part) ==
  /\ IsFiniteSet(P) /\ \A p \in P : IsFiniteSet(part[p])
  /\ \A p, q \in P : p # q => part[p] \cap part[q] = {}
Integral(P, part, f) == \A p \in P : \A x \in part[p] : f[x] \in Int
Pieces(P, part, f, piece) ==
  \A p \in P : \A x \in part[p] : f[x] \in Int /\ piece[p][x] = f[x]

\* The sum over a set cut into disjoint parts is the sum of the parts' sums.
LEMMA SumOfParts ==
  ASSUME NEW P, NEW part, Split(P, part), NEW f, Integral(P, part, f),
         NEW sums, \A p \in P : sums[p] = SumFunctionOnSet(f, part[p])
  PROVE  SumFunctionOnSet(f, UNION {part[p] : p \in P}) = SumFunctionOnSet(sums, P)
  <1> DEFINE All(s) == UNION {part[p] : p \in s}
             Good == {s \in SUBSET P : /\ IsFiniteSet(All(s))
                                       /\ SumFunctionOnSet(f, All(s)) = SumFunctionOnSet(sums, s)}
  <1>0. /\ IsFiniteSet(P) /\ \A p \in P : IsFiniteSet(part[p])
        /\ \A p, q \in P : p # q => part[p] \cap part[q] = {}
        /\ \A p \in P : \A x \in part[p] : f[x] \in Int
    BY DEF Split, Integral
  <1>1. {} \in Good
    <2>1. All({}) = {}
      OBVIOUS
    <2> QED BY <2>1, SumEmpty, FS_EmptySet
  <1>2. ASSUME NEW T \in SUBSET P, NEW x \in P, x \notin T, T \in Good
        PROVE  T \cup {x} \in Good
    <2>1. IsFiniteSet(T) /\ IsFiniteSet(All(T)) /\ IsFiniteSet(part[x])
      BY <1>0, <1>2, FS_Subset
    <2>2. All(T \cup {x}) = All(T) \cup part[x]
      OBVIOUS
    <2>3. All(T) \cap part[x] = {}
      BY <1>0, <1>2
    <2>4. \A y \in All(T) \cup part[x] : f[y] \in Int
      BY <1>0
    <2>5. \A q \in P : sums[q] \in Int
      BY <1>0, SumType
    <2>6. SumFunctionOnSet(sums, T \cup {x}) = sums[x] + SumFunctionOnSet(sums, T)
      BY <1>2, <2>1, <2>5, SumAdd
    <2>7. SumFunctionOnSet(f, All(T)) = SumFunctionOnSet(sums, T)
      BY <1>2
    <2>8. SumFunctionOnSet(sums, T) \in Int /\ sums[x] \in Int
      BY <2>1, <2>5, SumType
    <2>10. SumFunctionOnSet(f, part[x]) = sums[x]
      OBVIOUS
    <2> HIDE DEF All
    <2>9. SumFunctionOnSet(f, All(T) \cup part[x])
            = SumFunctionOnSet(f, All(T)) + SumFunctionOnSet(f, part[x])
      BY <2>1, <2>3, <2>4, SumUnion
    <2>11. IsFiniteSet(All(T) \cup part[x])
      BY <2>1, FS_Union
    <2>13. SumFunctionOnSet(f, All(T \cup {x})) = SumFunctionOnSet(sums, T) + sums[x]
      BY <2>2, <2>7, <2>9, <2>10
    <2>12. SumFunctionOnSet(f, All(T \cup {x})) = SumFunctionOnSet(sums, T \cup {x})
      BY <2>6, <2>8, <2>13
    <2> QED BY <2>2, <2>11, <2>12
  <1>3. P \in Good
    <2> HIDE DEF Good
    <2> QED BY <1>0, <1>1, <1>2, EverySubset
  <1> QED BY <1>3

LEMMA SumOfPieces ==
  ASSUME NEW P, NEW part, Split(P, part), NEW f, NEW piece, Pieces(P, part, f, piece),
         NEW sums, \A p \in P : sums[p] = SumFunctionOnSet(piece[p], part[p])
  PROVE  SumFunctionOnSet(f, UNION {part[p] : p \in P}) = SumFunctionOnSet(sums, P)
  <1>1. ASSUME NEW p \in P
        PROVE  SumFunctionOnSet(piece[p], part[p]) = SumFunctionOnSet(f, part[p])
    <2>1. IsFiniteSet(part[p]) /\ \A x \in part[p] : piece[p][x] = f[x]
      BY DEF Split, Pieces
    <2> QED BY <2>1, SumSame
  <1>2. \A p \in P : sums[p] = SumFunctionOnSet(f, part[p])
    BY <1>1
  <1>3. Integral(P, part, f)
    BY DEF Pieces, Integral
  <1> QED BY <1>2, <1>3, SumOfParts
=============================================================================
