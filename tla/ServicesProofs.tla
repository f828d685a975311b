--------------------------- MODULE ServicesProofs ---------------------------
(***************************************************************************)
(* Proofs about the parts beside the pool's page protocol: no frame is     *)
(* reported hotter than it is, the demotion choice is monotone in heat,    *)
(* the mock tier implements the contract of a storage backend, statistics  *)
(* and benchmark rows are exact, and the cost of residency misses no page. *)
(***************************************************************************)
EXTENDS Services, FiniteSetTheorems, SequenceTheorems, WellFoundedInduction, TLAPS

-----------------------------------------------------------------------------
(* Numbers. *)

(***************************************************************************)
(* Every non-empty set of natural numbers has a least element.             *)
(***************************************************************************)
LEMMA NatMinimum ==
    ASSUME NEW T \in SUBSET Nat, T # {}
    PROVE  \E n \in T : \A m \in T : n <= m
<1>1. PICK n \in T : \A m \in T : ~(<<m, n>> \in OpToRel(<, Nat))
  BY NatLessThanWellFounded, WFMin
<1>2. \A m \in T : ~(m < n)
  BY <1>1 DEF OpToRel
<1> QED
  BY <1>2

(***************************************************************************)
(* A larger factor makes a larger product.                                 *)
(***************************************************************************)
LEMMA Products ==
    ASSUME NEW a \in Nat, NEW b \in Nat, NEW c \in Nat
    PROVE  /\ a * c \in Nat /\ c * a = a * c
           /\ a <= b => a * c <= b * c
           /\ a < b /\ c > 0 => a * c < b * c
<1>1. a * c \in Nat /\ c * a = a * c
  OBVIOUS
<1>2. ASSUME a <= b PROVE a * c <= b * c
  <2>1. PICK d \in Nat : b = a + d
    <3>1. b - a \in Nat /\ b = a + (b - a)
      BY <1>2
    <3> QED
      BY <3>1
  <2>2. b * c = a * c + d * c /\ d * c \in Nat
    BY <2>1
  <2> QED
    BY <1>1, <2>2
<1>3. ASSUME a < b, c > 0 PROVE a * c < b * c
  <2>1. PICK d \in Nat \ {0} : b = a + d
    <3>1. b - a \in Nat \ {0} /\ b = a + (b - a)
      BY <1>3
    <3> QED
      BY <3>1
  <2>2. b * c = a * c + d * c
    BY <2>1
  <2>3. d * c \in Nat /\ d * c > 0
    BY <1>3, <2>1
  <2> QED
    BY <1>1, <2>2, <2>3
<1> QED
  BY <1>1, <1>2, <1>3

(***************************************************************************)
(* Induction up to m, on membership in a set.                              *)
(***************************************************************************)
LEMMA UpTo ==
    ASSUME NEW m \in Nat, NEW T, 0 \in T, \A k \in 0 .. m : k + 1 <= m /\ k \in T => k + 1 \in T
    PROVE  \A k \in 0 .. m : k \in T
<1> DEFINE Bad == {k \in 0 .. m : k \notin T}
<1>1. Bad = {}
  <2> SUFFICES ASSUME Bad # {} PROVE FALSE
    OBVIOUS
  <2>1. Bad \in SUBSET Nat
    OBVIOUS
  <2>2. PICK n \in Bad : \A k \in Bad : n <= k
    BY <2>1, NatMinimum
  <2>3. n \in 0 .. m /\ n \notin T /\ n # 0
    BY <2>2
  <2>4. n - 1 \in 0 .. m /\ n - 1 \notin Bad
    BY <2>2, <2>3
  <2> QED
    BY <2>3, <2>4
<1> QED
  BY <1>1

-----------------------------------------------------------------------------
(* Sums over finite sets. *)

\* sum maps each subset of S to the sum of f over it.
SumsOf(sum, f, S) ==
    /\ f \in [S -> Nat]
    /\ sum \in [SUBSET S -> Nat]
    /\ sum[{}] = 0
    /\ \A T \in SUBSET S : \A x \in T : sum[T] = sum[T \ {x}] + f[x]

(***************************************************************************)
(* The sums over a set with one more element follow from those over the    *)
(* set without it.                                                         *)
(***************************************************************************)
LEMMA SumsExtend ==
    ASSUME NEW T, NEW x \in T, NEW f \in [T -> Nat],
           NEW sum, SumsOf(sum, [y \in T \ {x} |-> f[y]], T \ {x})
    PROVE  \E new : SumsOf(new, f, T)
<1> DEFINE R == T \ {x}
           new == [U \in SUBSET T |-> IF x \in U THEN sum[U \ {x}] + f[x] ELSE sum[U]]
<1>1. /\ sum \in [SUBSET R -> Nat] /\ sum[{}] = 0
      /\ \A U \in SUBSET R : \A y \in U : sum[U] = sum[U \ {y}] + f[y]
  BY DEF SumsOf
<1>2. \A U \in SUBSET T : U \ {x} \in SUBSET R /\ (x \notin U => U \in SUBSET R)
  OBVIOUS
<1>3. new \in [SUBSET T -> Nat] /\ new[{}] = 0
  BY <1>1, <1>2
<1>4. \A U \in SUBSET T : new[U] = IF x \in U THEN sum[U \ {x}] + f[x] ELSE sum[U]
  OBVIOUS
<1> HIDE DEF new
<1>5. ASSUME NEW U \in SUBSET T, NEW y \in U PROVE new[U] = new[U \ {y}] + f[y]
  <2>1. CASE y = x
    BY <1>4, <2>1
  <2>2. CASE y # x /\ x \in U
    <3>1. (U \ {y}) \ {x} = (U \ {x}) \ {y}
      OBVIOUS
    <3>2. new[U] = sum[U \ {x}] + f[x] /\ new[U \ {y}] = sum[(U \ {x}) \ {y}] + f[x]
      BY <1>4, <2>2, <3>1
    <3>3. U \ {x} \in SUBSET R /\ y \in U \ {x} /\ (U \ {x}) \ {y} \in SUBSET R
      BY <2>2
    <3>4. sum[U \ {x}] = sum[(U \ {x}) \ {y}] + f[y]
      BY <1>1, <3>3
    <3>5. sum[(U \ {x}) \ {y}] \in Nat /\ f[y] \in Nat /\ f[x] \in Nat
      BY <1>1, <3>3
    <3> QED
      BY <3>2, <3>4, <3>5
  <2>3. CASE y # x /\ x \notin U
    <3>1. U \in SUBSET R /\ x \notin U \ {y} /\ U \ {y} \in SUBSET T
      BY <2>3
    <3> QED
      BY <1>1, <1>4, <2>3, <3>1
  <2> QED
    BY <2>1, <2>2, <2>3
<1>6. SumsOf(new, f, T)
  BY <1>3, <1>5 DEF SumsOf
<1> QED
  BY <1>6

(***************************************************************************)
(* A finite set has sums: by least counterexample on the cardinality.      *)
(***************************************************************************)
LEMMA SumsExist ==
    ASSUME NEW S, IsFiniteSet(S), NEW f \in [S -> Nat]
    PROVE  \E sum : SumsOf(sum, f, S)
<1> DEFINE On(T) == [x \in T |-> f[x]]
           Bad == {n \in Nat : \E T \in SUBSET S :
                      Cardinality(T) = n /\ ~\E sum : SumsOf(sum, On(T), T)}
<1>1. Bad = {}
  <2> SUFFICES ASSUME Bad # {} PROVE FALSE
    OBVIOUS
  <2>1. PICK n \in Bad : n \in Nat /\ \A m \in Bad : n <= m
    BY NatMinimum
  <2>2. PICK T \in SUBSET S : Cardinality(T) = n /\ ~\E sum : SumsOf(sum, On(T), T)
    BY <2>1
  <2>3. CASE T = {}
    <3> DEFINE none == [U \in SUBSET T |-> 0]
    <3>1. SumsOf(none, On(T), T)
      BY <2>3 DEF SumsOf
    <3> QED
      BY <2>2, <3>1
  <2>4. CASE T # {}
    <3>1. PICK x \in T : TRUE
      BY <2>4
    <3>2. IsFiniteSet(T)
      BY FS_Subset
    <3>3. Cardinality(T \ {x}) = n - 1 /\ Cardinality(T \ {x}) \in Nat
      BY <2>2, <3>1, <3>2, FS_RemoveElement, FS_CardinalityType
    <3>4. n - 1 \notin Bad
      <4> HIDE DEF Bad
      <4> QED
        BY <2>1, <3>3
    <3>5. T \ {x} \in SUBSET S
      OBVIOUS
    <3>6. PICK sum : SumsOf(sum, On(T \ {x}), T \ {x})
      BY <3>3, <3>4, <3>5
    <3>7. On(T) \in [T -> Nat] /\ [y \in T \ {x} |-> On(T)[y]] = On(T \ {x})
      OBVIOUS
    <3> HIDE DEF On
    <3>8. SumsOf(sum, [y \in T \ {x} |-> On(T)[y]], T \ {x})
      BY <3>6, <3>7
    <3>9. \E new : SumsOf(new, On(T), T)
      BY <3>1, <3>7, <3>8, SumsExtend
    <3> QED
      BY <2>2, <3>9
  <2> QED
    BY <2>3, <2>4
<1>2. Cardinality(S) \in Nat /\ On(S) = f
  BY FS_CardinalityType
<1> QED
  BY <1>1, <1>2

(***************************************************************************)
(* SumFunction is the sum over its domain: its recursion, which picks the  *)
(* elements in an order of its own, agrees with any such sums.             *)
(***************************************************************************)
LEMMA SumIs ==
    ASSUME NEW S, IsFiniteSet(S), NEW f, NEW sum, SumsOf(sum, f, S)
    PROVE  SumFunction(f) = sum[S]
<1> DEFINE Pick(s) == CHOOSE x \in s : TRUE
           Body(g) == [s \in SUBSET S |-> IF s = {} THEN 0
                          ELSE f[Pick(s)] + g[s \ {Pick(s)}]]
           iter == CHOOSE g : g = Body(g)
<1>1. f \in [S -> Nat] /\ sum \in [SUBSET S -> Nat] /\ sum[{}] = 0
  BY DEF SumsOf
<1>2. SumFunction(f) = iter[S]
  <2>1. DOMAIN f = S
    BY <1>1
  <2> QED
    BY <2>1 DEF SumFunction, SumFunctionOnSet, FoldFunctionOnSet, MapThenFoldSet
<1>3. \A s \in SUBSET S : s # {} => Pick(s) \in s
  OBVIOUS
<1>4. ASSUME NEW s \in SUBSET S, s # {}
      PROVE  sum[s] = f[Pick(s)] + sum[s \ {Pick(s)}]
  <2>1. Pick(s) \in s
    BY <1>3, <1>4
  <2> HIDE DEF Pick
  <2>2. sum[s] = sum[s \ {Pick(s)}] + f[Pick(s)]
    BY <2>1 DEF SumsOf
  <2>3. sum[s \ {Pick(s)}] \in Nat /\ f[Pick(s)] \in Nat
    BY <1>1, <2>1
  <2> QED
    BY <2>2, <2>3
<1>5. sum = Body(sum)
  <2>1. ASSUME NEW s \in SUBSET S
        PROVE  sum[s] = IF s = {} THEN 0 ELSE f[Pick(s)] + sum[s \ {Pick(s)}]
    <3> HIDE DEF Pick
    <3> QED
      BY <1>1, <1>4
  <2> QED
    BY <1>1, <2>1
<1>6. iter = Body(iter)
  <2> HIDE DEF Body
  <2> QED
    BY <1>5
<1> HIDE DEF iter
<1>7. \A s \in SUBSET S : iter[s] = IF s = {} THEN 0
                                    ELSE f[Pick(s)] + iter[s \ {Pick(s)}]
  BY <1>6
<1> DEFINE Bad == {n \in Nat : \E s \in SUBSET S : Cardinality(s) = n /\ iter[s] # sum[s]}
<1>8. Bad = {}
  <2> SUFFICES ASSUME Bad # {} PROVE FALSE
    OBVIOUS
  <2>1. PICK n \in Bad : \A m \in Bad : n <= m
    BY NatMinimum
  <2>2. PICK s \in SUBSET S : Cardinality(s) = n /\ iter[s] # sum[s]
    BY <2>1
  <2>3. s # {}
    BY <1>1, <1>7, <2>2
  <2> DEFINE x == Pick(s)
  <2>4. x \in s
    BY <1>3, <2>3
  <2> HIDE DEF x
  <2>5. IsFiniteSet(s)
    BY FS_Subset
  <2>6. Cardinality(s \ {x}) = n - 1 /\ Cardinality(s \ {x}) \in Nat
    BY <2>2, <2>4, <2>5, FS_RemoveElement, FS_CardinalityType
  <2>7. n - 1 \notin Bad
    BY <2>1, <2>6
  <2>8. iter[s \ {x}] = sum[s \ {x}]
    BY <2>6, <2>7
  <2>9. iter[s] = f[x] + iter[s \ {x}]
    BY <1>7, <2>3 DEF x
  <2>10. sum[s] = f[x] + sum[s \ {x}]
    BY <1>4, <2>3 DEF x
  <2> QED
    BY <2>2, <2>8, <2>9, <2>10
<1>9. Cardinality(S) \in Nat
  BY FS_CardinalityType
<1> QED
  BY <1>2, <1>8, <1>9

(***************************************************************************)
(* A sum is a number, is zero exactly when every term is, and adds up.     *)
(***************************************************************************)
LEMMA SumNat ==
    ASSUME NEW S, IsFiniteSet(S), NEW f \in [S -> Nat]
    PROVE  /\ SumFunction(f) \in Nat
           /\ \A x \in S : f[x] <= SumFunction(f)
<1>1. PICK sum : SumsOf(sum, f, S)
  BY SumsExist
<1>2. SumFunction(f) = sum[S]
  BY <1>1, SumIs
<1>3. sum[S] \in Nat
  BY <1>1 DEF SumsOf
<1>4. ASSUME NEW x \in S PROVE f[x] <= sum[S]
  <2>1. sum[S] = sum[S \ {x}] + f[x] /\ sum[S \ {x}] \in Nat /\ f[x] \in Nat
    BY <1>1 DEF SumsOf
  <2> QED
    BY <2>1
<1> QED
  BY <1>2, <1>3, <1>4

LEMMA SumZero ==
    ASSUME NEW S, IsFiniteSet(S), NEW f \in [S -> Nat], \A x \in S : f[x] = 0
    PROVE  SumFunction(f) = 0
<1> DEFINE zero == [T \in SUBSET S |-> 0]
<1>1. SumsOf(zero, f, S)
  BY DEF SumsOf
<1>2. SumFunction(f) = zero[S]
  <2> HIDE DEF zero
  <2> QED
    BY <1>1, SumIs
<1> QED
  BY <1>2

LEMMA SumAdds ==
    ASSUME NEW S, IsFiniteSet(S), NEW f \in [S -> Nat], NEW g \in [S -> Nat], NEW h \in [S -> Nat],
           \A x \in S : h[x] = f[x] + g[x]
    PROVE  SumFunction(h) = SumFunction(f) + SumFunction(g)
<1>1. PICK a : SumsOf(a, f, S)
  BY SumsExist
<1>2. PICK b : SumsOf(b, g, S)
  BY SumsExist
<1> DEFINE c == [T \in SUBSET S |-> a[T] + b[T]]
<1>3. a \in [SUBSET S -> Nat] /\ b \in [SUBSET S -> Nat]
  BY <1>1, <1>2 DEF SumsOf
<1>4. ASSUME NEW T \in SUBSET S, NEW x \in T PROVE c[T] = c[T \ {x}] + h[x]
  <2>1. a[T] = a[T \ {x}] + f[x] /\ b[T] = b[T \ {x}] + g[x]
    BY <1>1, <1>2 DEF SumsOf
  <2>2. a[T \ {x}] \in Nat /\ b[T \ {x}] \in Nat /\ f[x] \in Nat /\ g[x] \in Nat
    BY <1>3
  <2>3. c[T] = a[T] + b[T] /\ c[T \ {x}] = a[T \ {x}] + b[T \ {x}] /\ h[x] = f[x] + g[x]
    OBVIOUS
  <2> QED
    BY <2>1, <2>2, <2>3
<1>5. c \in [SUBSET S -> Nat] /\ c[{}] = 0
  BY <1>1, <1>2, <1>3 DEF SumsOf
<1>6. c[S] = a[S] + b[S]
  OBVIOUS
<1> HIDE DEF c
<1>7. SumsOf(c, h, S)
  BY <1>4, <1>5 DEF SumsOf
<1>8. SumFunction(h) = c[S] /\ SumFunction(f) = a[S] /\ SumFunction(g) = b[S]
  BY <1>1, <1>2, <1>7, SumIs
<1> QED
  BY <1>6, <1>8

(***************************************************************************)
(* Larger terms make a larger sum.                                         *)
(***************************************************************************)
LEMMA SumGrows ==
    ASSUME NEW S, IsFiniteSet(S), NEW f \in [S -> Nat], NEW g \in [S -> Nat],
           \A x \in S : f[x] <= g[x]
    PROVE  SumFunction(f) <= SumFunction(g)
<1> DEFINE d == [x \in S |-> g[x] - f[x]]
<1>1. d \in [S -> Nat] /\ \A x \in S : g[x] = f[x] + d[x]
  OBVIOUS
<1> HIDE DEF d
<1>2. SumFunction(g) = SumFunction(f) + SumFunction(d)
  BY <1>1, SumAdds
<1> QED
  BY <1>1, <1>2, SumNat

(***************************************************************************)
(* Changing one term changes the sum by the difference.                    *)
(***************************************************************************)
LEMMA SumChanges ==
    ASSUME NEW S, IsFiniteSet(S), NEW f \in [S -> Nat], NEW g \in [S -> Nat],
           NEW x \in S, \A y \in S \ {x} : g[y] = f[y]
    PROVE  SumFunction(g) + f[x] = SumFunction(f) + g[x]
<1> DEFINE F == [y \in S |-> IF y = x THEN f[x] ELSE 0]
           G == [y \in S |-> IF y = x THEN g[x] ELSE 0]
           h == [y \in S |-> f[y] + G[y]]
<1>1. /\ F \in [S -> Nat] /\ G \in [S -> Nat] /\ h \in [S -> Nat]
      /\ \A y \in S : h[y] = f[y] + G[y]
      /\ \A y \in S : h[y] = g[y] + F[y]
  OBVIOUS
<1>2. SumFunction(F) = f[x] /\ SumFunction(G) = g[x]
  <2>1. ASSUME NEW n \in Nat, NEW e \in [S -> Nat], e[x] = n, \A y \in S \ {x} : e[y] = 0
        PROVE  SumFunction(e) = n
    <3> DEFINE one == [T \in SUBSET S |-> IF x \in T THEN n ELSE 0]
    <3>1. SumsOf(one, e, S)
      <4>1. one \in [SUBSET S -> Nat] /\ one[{}] = 0
        OBVIOUS
      <4>2. ASSUME NEW T \in SUBSET S, NEW y \in T PROVE one[T] = one[T \ {y}] + e[y]
        <5>1. CASE y = x
          BY <2>1, <5>1
        <5>2. CASE y # x
          BY <2>1, <5>2
        <5> QED
          BY <5>1, <5>2
      <4> HIDE DEF one
      <4> QED
        BY <4>1, <4>2 DEF SumsOf
    <3>2. SumFunction(e) = one[S]
      <4> HIDE DEF one
      <4> QED
        BY <3>1, SumIs
    <3> QED
      BY <3>2
  <2>2. F[x] = f[x] /\ G[x] = g[x] /\ \A y \in S \ {x} : F[y] = 0 /\ G[y] = 0
    OBVIOUS
  <2>3. f[x] \in Nat /\ g[x] \in Nat
    OBVIOUS
  <2> HIDE DEF F, G
  <2> QED
    BY <1>1, <2>1, <2>2, <2>3
<1> HIDE DEF F, G, h
<1>3. SumFunction(h) = SumFunction(f) + SumFunction(G)
  BY <1>1, SumAdds
<1>4. SumFunction(h) = SumFunction(g) + SumFunction(F)
  BY <1>1, SumAdds
<1> QED
  BY <1>2, <1>3, <1>4

-----------------------------------------------------------------------------
(* The heat of a frame. *)

\* One line of the recursive function Shifted.
ShiftedAt(g, n) ==
    [heat \in Heats |-> IF n = 0 THEN heat ELSE g[n - 1][heat] \div 2]

(***************************************************************************)
(* The recursion has a solution, and so Shifted is one.                    *)
(***************************************************************************)
LEMMA ShiftedIs ==
    \A n \in 0 .. MaxShift : Shifted[n] = ShiftedAt(Shifted, n)
<1> DEFINE Body(g) == [n \in 0 .. MaxShift |-> ShiftedAt(g, n)]
           Upto(k) == \E g : \A n \in 0 .. k : g[n] = ShiftedAt(g, n)
           Good == {k \in Nat : Upto(k)}
<1>1. MaxShift \in Nat
  BY HeatAssumption
<1>2. 0 \in Good
  <2> DEFINE g == [n \in {0} |-> [heat \in Heats |-> heat]]
  <2>1. g[0] = ShiftedAt(g, 0)
    BY DEF ShiftedAt
  <2>2. \A n \in 0 .. 0 : n = 0
    OBVIOUS
  <2> HIDE DEF g
  <2>3. Upto(0)
    BY <2>1, <2>2
  <2> QED
    BY <2>3
<1>3. ASSUME NEW k \in Nat, Upto(k) PROVE Upto(k + 1)
  <2>1. PICK g : \A n \in 0 .. k : g[n] = ShiftedAt(g, n)
    BY <1>3
  <2> DEFINE h == [n \in 0 .. k + 1 |-> IF n <= k THEN g[n] ELSE ShiftedAt(g, n)]
  <2>2. \A n \in 0 .. k + 1 : h[n] = ShiftedAt(g, n)
    BY <2>1
  <2>3. \A n \in 0 .. k + 1 : n # 0 => h[n - 1] = g[n - 1]
    OBVIOUS
  <2> HIDE DEF h
  <2>4. \A n \in 0 .. k + 1 : ShiftedAt(g, n) = ShiftedAt(h, n)
    BY <2>3 DEF ShiftedAt
  <2>5. \A n \in 0 .. k + 1 : h[n] = ShiftedAt(h, n)
    BY <2>2, <2>4
  <2> QED
    BY <2>5
<1>4. Upto(MaxShift)
  <2> HIDE DEF Upto
  <2>1. \A k \in 0 .. MaxShift : k + 1 <= MaxShift /\ k \in Good => k + 1 \in Good
    BY <1>3
  <2> HIDE DEF Good
  <2>2. MaxShift \in Good
    BY <1>1, <1>2, <2>1, UpTo
  <2> QED
    BY <2>2 DEF Good
<1>5. PICK g : \A n \in 0 .. MaxShift : g[n] = ShiftedAt(g, n)
  BY <1>4
<1> DEFINE f == [n \in 0 .. MaxShift |-> g[n]]
<1>6. f = Body(f)
  <2>1. \A n \in 0 .. MaxShift : n # 0 => f[n - 1] = g[n - 1]
    BY <1>1
  <2>2. \A n \in 0 .. MaxShift : f[n] = g[n]
    OBVIOUS
  <2>3. f = [n \in 0 .. MaxShift |-> f[n]]
    OBVIOUS
  <2> HIDE DEF f
  <2>4. \A n \in 0 .. MaxShift : ShiftedAt(g, n) = ShiftedAt(f, n)
    BY <2>1 DEF ShiftedAt
  <2> QED
    BY <1>5, <2>2, <2>3, <2>4
<1>7. Shifted = CHOOSE s : s = Body(s)
  BY DEF Shifted, ShiftedAt
<1>8. Shifted = Body(Shifted)
  <2> HIDE DEF f, Body
  <2> QED
    BY <1>6, <1>7
<1> QED
  BY <1>8

(***************************************************************************)
(* No shift leaves the range of heats or increases the heat; none turns    *)
(* a larger heat into a smaller one by more than what it was larger by.    *)
(***************************************************************************)
LEMMA Shifts ==
    ASSUME NEW n \in 0 .. MaxShift, NEW x \in Heats, NEW y \in Heats, NEW c \in Nat
    PROVE  /\ Shifted[n][x] \in Heats
           /\ y <= x + c => Shifted[n][y] <= Shifted[n][x] + c
           /\ Shifted[0][x] = x
<1> DEFINE Fits(k) == Shifted[k][x] \in Heats /\ Shifted[k][y] \in Heats
           Near(k) == y <= x + c => Shifted[k][y] <= Shifted[k][x] + c
           Good == {k \in Nat : Fits(k) /\ Near(k)}
<1>1. MaxShift \in Nat /\ MaxHeat \in Nat
  BY HeatAssumption
<1>2. \A h \in Heats : Shifted[0][h] = h
  <2>1. Shifted[0] = ShiftedAt(Shifted, 0)
    BY <1>1, ShiftedIs
  <2> QED
    BY <2>1 DEF ShiftedAt
<1>3. 0 \in Good
  BY <1>2
<1>4. ASSUME NEW k \in 0 .. MaxShift, k + 1 <= MaxShift, k \in Good PROVE k + 1 \in Good
  <2>1. \A h \in Heats : Shifted[k + 1][h] = Shifted[k][h] \div 2
    <3>1. k + 1 \in 0 .. MaxShift /\ k + 1 # 0 /\ (k + 1) - 1 = k
      BY <1>1, <1>4
    <3>2. Shifted[k + 1] = ShiftedAt(Shifted, k + 1)
      BY <3>1, ShiftedIs
    <3> QED
      BY <3>1, <3>2 DEF ShiftedAt
  <2>2. PICK a, b : a = Shifted[k][x] /\ b = Shifted[k][y]
    OBVIOUS
  <2>3. a \in Heats /\ b \in Heats /\ (y <= x + c => b <= a + c)
    BY <1>4, <2>2
  <2>4. a \div 2 \in Heats /\ b \div 2 \in Heats
    BY <1>1, <2>3 DEF Heats
  <2>5. b <= a + c => b \div 2 <= (a \div 2) + c
    BY <1>1, <2>3 DEF Heats
  <2>6. Shifted[k + 1][x] = a \div 2 /\ Shifted[k + 1][y] = b \div 2
    BY <2>1, <2>2
  <2>7. Fits(k + 1) /\ Near(k + 1)
    BY <2>3, <2>4, <2>5, <2>6
  <2> QED
    BY <2>7
<1>5. n \in Good
  <2> HIDE DEF Good
  <2> QED
    BY <1>1, <1>3, <1>4, UpTo
<1> QED
  BY <1>2, <1>5

(***************************************************************************)
(* Two shifts are one by the sum of their places.                          *)
(***************************************************************************)
LEMMA ShiftsCompose ==
    ASSUME NEW a \in 0 .. MaxShift, NEW b \in 0 .. MaxShift, a + b <= MaxShift, NEW x \in Heats
    PROVE  Shifted[b][Shifted[a][x]] = Shifted[a + b][x]
<1> DEFINE Good == {k \in Nat : a + k <= MaxShift =>
                                   Shifted[k][Shifted[a][x]] = Shifted[a + k][x]}
<1>1. MaxShift \in Nat /\ Shifted[a][x] \in Heats
  BY HeatAssumption, Shifts
<1>2. 0 \in Good
  BY <1>1, Shifts
<1>3. ASSUME NEW k \in 0 .. MaxShift, k + 1 <= MaxShift, k \in Good PROVE k + 1 \in Good
  <2> SUFFICES ASSUME a + (k + 1) <= MaxShift
               PROVE  Shifted[k + 1][Shifted[a][x]] = Shifted[a + (k + 1)][x]
    OBVIOUS
  <2>1. ASSUME NEW m \in 0 .. MaxShift, m + 1 <= MaxShift, NEW h \in Heats
        PROVE  Shifted[m + 1][h] = Shifted[m][h] \div 2
    <3>1. m + 1 \in 0 .. MaxShift /\ m + 1 # 0 /\ (m + 1) - 1 = m
      BY <1>1, <2>1
    <3>2. Shifted[m + 1] = ShiftedAt(Shifted, m + 1)
      BY <3>1, ShiftedIs
    <3> QED
      BY <3>1, <3>2 DEF ShiftedAt
  <2>2. Shifted[k][Shifted[a][x]] = Shifted[a + k][x]
    BY <1>1, <1>3
  <2>3. a + k \in 0 .. MaxShift /\ (a + k) + 1 <= MaxShift /\ a + (k + 1) = (a + k) + 1
    BY <1>1
  <2>4. Shifted[(a + k) + 1][x] = Shifted[a + k][x] \div 2
    BY <2>1, <2>3
  <2>5. Shifted[k + 1][Shifted[a][x]] = Shifted[k][Shifted[a][x]] \div 2
    BY <1>1, <1>3, <2>1
  <2> QED
    BY <2>2, <2>3, <2>4, <2>5
<1>4. b \in Good
  <2> HIDE DEF Good
  <2> QED
    BY <1>1, <1>2, <1>3, UpTo
<1> QED
  BY <1>4

(***************************************************************************)
(* The remainder of a number below twice the divisor.                      *)
(***************************************************************************)
LEMMA Wraps ==
    ASSUME NEW d \in Nat \ {0}, NEW n \in Nat, n < 2 * d
    PROVE  n % d = IF n < d THEN n ELSE n - d
<1> DEFINE q == n \div d
           r == n % d
<1>1. q \in Nat /\ r \in 0 .. d - 1 /\ n = d * q + r
  OBVIOUS
<1> HIDE DEF q
<1>2. q >= 2 => d * q >= 2 * d
  <2>1. q >= 2 => 2 * d <= q * d
    BY <1>1, Products
  <2>2. q * d = d * q
    BY <1>1, Products
  <2> QED
    BY <1>1, <2>1, <2>2
<1>3. d * q \in Nat /\ r \in Nat /\ (q = 0 => d * q = 0) /\ (q = 1 => d * q = d)
  BY <1>1
<1>4. q = 0 \/ q = 1
  <2> HIDE DEF r
  <2> QED
    BY <1>1, <1>2, <1>3
<1> QED
  BY <1>1, <1>3, <1>4

LEMMA ElapsedIs ==
    ASSUME NEW now \in Epochs, NEW then \in Epochs
    PROVE  Elapsed(now, then) = IF then <= now THEN now - then ELSE (now - then) + EpochMod
<1>1. EpochMod \in Nat \ {0}
  BY HeatAssumption
<1>2. PICK n : n = (now - then) + EpochMod
  OBVIOUS
<1>3. n \in Nat /\ n < 2 * EpochMod /\ (n < EpochMod <=> ~(then <= now))
  BY <1>1, <1>2 DEF Epochs
<1>4. n % EpochMod = IF n < EpochMod THEN n ELSE n - EpochMod
  BY <1>1, <1>3, Wraps
<1>5. Elapsed(now, then) = n % EpochMod
  BY <1>2 DEF Elapsed
<1> QED
  BY <1>1, <1>2, <1>3, <1>4, <1>5 DEF Epochs

\* An epoch that was the global one in this behaviour.
Recent(e) == Elapsed(epoch, e) <= ticks

HeatTypeOK ==
    /\ epoch \in Epochs /\ ticks \in 0 .. MaxTicks
    /\ word \in Word
    /\ acc \in [Accessors -> [pc : {"idle", "observe", "cas"}, epoch : Epochs, seen : Word]]
    /\ ideal \in Heats

\* The inductive invariant of a frame's heat.
HeatInv ==
    /\ HeatTypeOK
    /\ word.heat = 0 \/ Recent(word.epoch)
    /\ \A t \in Accessors : acc[t].pc # "idle" => Recent(acc[t].epoch)
    /\ HeatNeverOverstated

(***************************************************************************)
(* A decayed heat is a heat, no larger than before.                        *)
(***************************************************************************)
LEMMA Decays ==
    ASSUME NEW h \in Heats, NEW e \in Nat
    PROVE  /\ decay(h, e) \in Heats
           /\ h = 0 => decay(h, e) = 0
           /\ e = 0 => decay(h, e) <= h
           /\ \A g \in Heats : h <= g => decay(h, e) <= decay(g, e)
<1>1. MaxShift \in Nat /\ MaxHeat \in Nat /\ 0 \in Heats
  BY HeatAssumption DEF Heats
<1>2. CASE e >= MaxShift
  BY <1>1, <1>2 DEF decay, Heats
<1>3. CASE e < MaxShift
  <2>1. e \in 0 .. MaxShift
    BY <1>1, <1>3
  <2>2. \A g \in Heats : decay(g, e) = Shifted[e][g]
    BY <1>1, <1>3 DEF decay
  <2>3. \A g \in Heats : Shifted[e][g] \in Heats
    BY <2>1, Shifts
  <2>4. ASSUME NEW g \in Heats, h <= g PROVE Shifted[e][h] <= Shifted[e][g]
    <3>1. Shifted[e][h] <= Shifted[e][g] + 0
      BY <1>1, <2>1, <2>4, Shifts DEF Heats
    <3> QED
      BY <1>1, <2>3, <3>1 DEF Heats
  <2>5. h = 0 => Shifted[e][h] = 0
    <3>1. Shifted[e][0] \in Heats
      BY <1>1, <2>3
    <3>2. \A k \in 0 .. MaxShift : Shifted[k][0] = 0
      <4> DEFINE Good == {k \in Nat : Shifted[k][0] = 0}
      <4>1. 0 \in Good
        BY <1>1, Shifts
      <4>2. ASSUME NEW k \in 0 .. MaxShift, k + 1 <= MaxShift, k \in Good PROVE k + 1 \in Good
        <5>1. k + 1 \in 0 .. MaxShift /\ k + 1 # 0 /\ (k + 1) - 1 = k
          BY <1>1, <4>2
        <5>2. Shifted[k + 1] = ShiftedAt(Shifted, k + 1)
          BY <5>1, ShiftedIs
        <5>3. Shifted[k + 1][0] = Shifted[k][0] \div 2
          BY <1>1, <5>1, <5>2 DEF ShiftedAt
        <5> QED
          BY <4>2, <5>3
      <4> HIDE DEF Good
      <4>3. \A k \in 0 .. MaxShift : k \in Good
        BY <1>1, <4>1, <4>2, UpTo
      <4> QED
        BY <4>3 DEF Good
    <3> QED
      BY <2>1, <3>2
  <2>6. e = 0 => Shifted[e][h] = h
    BY <1>1, Shifts
  <2> QED
    BY <1>1, <2>2, <2>3, <2>4, <2>5, <2>6 DEF Heats
<1> QED
  BY <1>1, <1>2, <1>3

(***************************************************************************)
(* Decaying by one epoch after another is no less than decaying at once,   *)
(* and an access added before a decay counts for no more than one added    *)
(* after it.                                                               *)
(***************************************************************************)
LEMMA DecaysCompose ==
    ASSUME NEW h \in Heats, NEW a \in Nat, NEW b \in Nat
    PROVE  decay(decay(h, a), b) = decay(h, a + b)
<1>1. MaxShift \in Nat /\ MaxHeat \in Nat /\ 0 \in Heats
  BY HeatAssumption DEF Heats
<1>2. CASE a >= MaxShift
  <2>1. decay(h, a) = 0 /\ decay(h, a + b) = 0
    BY <1>1, <1>2 DEF decay
  <2> QED
    BY <1>1, <2>1, Decays
<1>3. CASE a < MaxShift /\ b >= MaxShift
  BY <1>1, <1>3 DEF decay
<1>4. CASE a < MaxShift /\ b < MaxShift
  <2>1. a \in 0 .. MaxShift /\ b \in 0 .. MaxShift
    BY <1>1, <1>4
  <2>2. decay(h, a) = Shifted[a][h] /\ Shifted[a][h] \in Heats
    BY <1>1, <1>4, <2>1, Shifts DEF decay
  <2>3. decay(decay(h, a), b) = Shifted[b][Shifted[a][h]]
    BY <1>1, <1>4, <2>2 DEF decay
  <2>4. CASE a + b <= MaxShift
    <3>1. Shifted[b][Shifted[a][h]] = Shifted[a + b][h]
      BY <2>1, <2>4, ShiftsCompose
    <3>2. a + b >= MaxShift => a + b = MaxShift
      BY <1>1, <2>4
    <3>3. decay(h, a + b) = Shifted[a + b][h]
      BY <1>1, <3>2, WidthAssumption DEF decay
    <3> QED
      BY <2>3, <3>1, <3>3
  <2>5. CASE a + b > MaxShift
    <3> DEFINE k == MaxShift - a
               r == b - k
    <3>1. k \in 0 .. MaxShift /\ r \in 0 .. MaxShift /\ a + k = MaxShift /\ k + r = b /\ r < MaxShift
      BY <1>1, <1>4, <2>5
    <3> HIDE DEF k, r
    <3>2. Shifted[k][Shifted[a][h]] = Shifted[MaxShift][h]
      BY <1>1, <2>1, <3>1, ShiftsCompose
    <3>3. Shifted[k][Shifted[a][h]] = 0
      BY <3>2, WidthAssumption
    <3>4. Shifted[r][Shifted[k][Shifted[a][h]]] = Shifted[b][Shifted[a][h]]
      BY <1>1, <2>1, <2>2, <3>1, ShiftsCompose
    <3>5. decay(0, r) = 0 /\ decay(0, r) = Shifted[r][0]
      BY <1>1, <3>1, Decays DEF decay
    <3>6. decay(h, a + b) = 0
      BY <1>1, <2>5 DEF decay
    <3> QED
      BY <2>3, <3>3, <3>4, <3>5, <3>6
  <2> QED
    BY <1>1, <2>4, <2>5
<1> QED
  BY <1>1, <1>2, <1>3, <1>4

LEMMA AccessDecays ==
    ASSUME NEW h \in Heats, NEW e \in Nat
    PROVE  /\ AddAccess(h) \in Heats
           /\ \A g \in Heats : h <= g => AddAccess(h) <= AddAccess(g)
           /\ decay(AddAccess(h), e) <= AddAccess(decay(h, e))
<1>1. MaxShift \in Nat /\ MaxHeat \in Nat /\ HEAT_ONE \in Nat /\ 0 \in Heats
  BY HeatAssumption DEF Heats
<1>2. AddAccess(h) \in Heats /\ AddAccess(h) <= h + HEAT_ONE
  BY <1>1 DEF AddAccess, Heats
<1>3. \A g \in Heats : h <= g => AddAccess(h) <= AddAccess(g)
  BY <1>1 DEF AddAccess, Heats
<1>4. decay(h, e) \in Heats /\ decay(AddAccess(h), e) \in Heats
  BY <1>2, Decays
<1>5. CASE e >= MaxShift
  <2>1. decay(AddAccess(h), e) = 0
    BY <1>1, <1>5 DEF decay
  <2> QED
    BY <1>1, <1>2, <1>3, <1>4, <2>1 DEF AddAccess, Heats
<1>6. CASE e < MaxShift
  <2>1. e \in 0 .. MaxShift
    BY <1>1, <1>6
  <2>2. Shifted[e][AddAccess(h)] <= Shifted[e][h] + HEAT_ONE
    BY <1>1, <1>2, <2>1, Shifts
  <2>3. decay(AddAccess(h), e) = Shifted[e][AddAccess(h)] /\ decay(h, e) = Shifted[e][h]
    BY <1>1, <1>6 DEF decay
  <2>4. decay(AddAccess(h), e) <= decay(h, e) + HEAT_ONE
    BY <2>2, <2>3
  <2> QED
    BY <1>1, <1>2, <1>3, <1>4, <2>4 DEF AddAccess, Heats
<1> QED
  BY <1>1, <1>2, <1>3, <1>5, <1>6

(***************************************************************************)
(* The steps of a frame's heat keep its invariant.                         *)
(***************************************************************************)
LEMMA HeatNumbers ==
    /\ MaxShift \in Nat /\ MaxHeat \in Nat /\ HEAT_ONE \in Nat /\ MaxTicks \in Nat
    /\ EpochMod \in Nat \ {0} /\ MaxTicks + MaxShift < EpochMod
    /\ 0 \in Heats /\ 0 \in Epochs /\ NoHeat \in Word
  BY HeatAssumption DEF Heats, Epochs, NoHeat, Word

LEMMA ElapsedNat ==
    ASSUME NEW now \in Epochs, NEW then \in Epochs
    PROVE  Elapsed(now, then) \in Nat /\ Elapsed(now, now) = 0
  BY HeatNumbers, ElapsedIs DEF Epochs

LEMMA AccessKeeps ==
    ASSUME HeatInv, NEW t \in Accessors, LoadEpoch(t) \/ ObserveWord(t) \/ CasFails(t)
    PROVE  HeatInv'
<1>1. HeatTypeOK /\ UNCHANGED <<epoch, ticks, word, ideal>>
  BY DEF HeatInv, LoadEpoch, ObserveWord, CasFails
<1>2. /\ \A u \in Accessors \ {t} : acc'[u] = acc[u]
      /\ acc' \in [Accessors -> [pc : {"idle", "observe", "cas"}, epoch : Epochs, seen : Word]]
      /\ \/ acc'[t].epoch = acc[t].epoch /\ acc[t].pc # "idle"
         \/ acc'[t].epoch = epoch
  BY <1>1 DEF HeatTypeOK, LoadEpoch, ObserveWord, CasFails
<1>3. Elapsed(epoch, epoch) <= ticks
  <2>1. Elapsed(epoch, epoch) = 0
    BY <1>1, ElapsedNat DEF HeatTypeOK
  <2> QED
    BY <1>1, <2>1, HeatNumbers DEF HeatTypeOK
<1>4. HeatTypeOK'
  BY <1>1, <1>2 DEF HeatTypeOK
<1> QED
  BY <1>1, <1>2, <1>3, <1>4 DEF HeatInv, Recent, HeatNeverOverstated, HeatNow

LEMMA CasKeeps ==
    ASSUME HeatInv, NEW t \in Accessors, CasWord(t)
    PROVE  HeatInv'
<1>1. HeatTypeOK /\ UNCHANGED <<epoch, ticks>> /\ HeatNeverOverstated
  BY DEF HeatInv, CasWord
<1>2. PICK h, e, a : h = word.heat /\ e = word.epoch /\ a = acc[t].epoch
  OBVIOUS
<1>3. /\ h \in Heats /\ e \in Epochs /\ a \in Epochs /\ epoch \in Epochs
      /\ ticks \in 0 .. MaxTicks /\ ideal \in Heats
  BY <1>1, <1>2 DEF HeatTypeOK, Word
<1>4. Recent(a) /\ (h = 0 \/ Recent(e))
  BY <1>2 DEF HeatInv, CasWord
<1> DEFINE old == decay(h, Elapsed(a, e))
<1>5. /\ word' = [heat |-> AddAccess(old), epoch |-> a]
      /\ acc' = [acc EXCEPT ![t] = Outside] /\ ideal' = AddAccess(ideal)
  BY <1>2 DEF CasWord, Replacement
<1>6. PICK x, y, z : x = Elapsed(a, e) /\ y = Elapsed(epoch, a) /\ z = Elapsed(epoch, e)
  OBVIOUS
<1>7. x \in Nat /\ y \in Nat /\ z \in Nat
  BY <1>3, <1>6, ElapsedNat
<1>8. old \in Heats
  BY <1>3, <1>6, <1>7, Decays
<1>9. decay(old, y) <= decay(h, z)
  <2>1. CASE h = 0
    BY <1>3, <1>6, <1>7, <2>1, Decays, HeatNumbers DEF Heats
  <2>2. CASE h # 0
    <3>1. y <= ticks /\ z <= ticks
      BY <1>4, <1>6, <2>2 DEF Recent
    <3>2. z = x + y \/ x >= MaxShift
      BY <1>3, <1>6, <3>1, ElapsedIs, HeatNumbers DEF Epochs
    <3>3. CASE z = x + y
      <4>1. decay(old, y) = decay(h, z)
        BY <1>3, <1>6, <1>7, <3>3, DecaysCompose
      <4>2. decay(h, z) \in Heats
        BY <1>3, <1>7, Decays
      <4> QED
        BY <4>1, <4>2, HeatNumbers DEF Heats
    <3>4. CASE x >= MaxShift
      <4>1. old = 0
        BY <1>6, <3>4 DEF decay
      <4>2. decay(old, y) = 0 /\ decay(h, z) \in Heats
        BY <1>3, <1>7, <1>8, <4>1, Decays
      <4> QED
        BY <4>2, HeatNumbers DEF Heats
    <3> QED
      BY <3>2, <3>3, <3>4
  <2> QED
    BY <2>1, <2>2
<1> HIDE DEF old
<1>10. decay(AddAccess(old), y) <= AddAccess(ideal)
  <2>1. decay(h, z) <= ideal
    BY <1>1, <1>2, <1>6 DEF HeatNeverOverstated, HeatNow
  <2>2. decay(AddAccess(old), y) <= AddAccess(decay(old, y))
    BY <1>7, <1>8, AccessDecays
  <2>3. decay(old, y) \in Heats /\ decay(h, z) \in Heats
    BY <1>3, <1>7, <1>8, Decays
  <2>4. decay(old, y) <= ideal
    BY <1>3, <1>9, <2>1, <2>3, HeatNumbers DEF Heats
  <2>5. AddAccess(decay(old, y)) <= AddAccess(ideal)
    BY <1>3, <2>3, <2>4, AccessDecays, HeatNumbers
  <2>6. AddAccess(old) \in Heats /\ AddAccess(decay(old, y)) \in Heats /\ AddAccess(ideal) \in Heats
    BY <1>3, <1>8, <2>3, AccessDecays, HeatNumbers
  <2>7. decay(AddAccess(old), y) \in Heats
    BY <1>7, <2>6, Decays
  <2> QED
    BY <2>2, <2>5, <2>6, <2>7, HeatNumbers DEF Heats
<1>11. AddAccess(old) \in Heats /\ AddAccess(ideal) \in Heats
  BY <1>3, <1>8, AccessDecays, HeatNumbers
<1>12. HeatTypeOK'
  BY <1>1, <1>3, <1>5, <1>11, HeatNumbers DEF HeatTypeOK, Word, Outside
<1>13. \A u \in Accessors : acc'[u].pc # "idle" => acc'[u] = acc[u]
  BY <1>1, <1>5 DEF HeatTypeOK, Outside
<1>14. HeatNeverOverstated'
  BY <1>1, <1>5, <1>6, <1>10 DEF HeatNeverOverstated, HeatNow
<1> QED
  BY <1>1, <1>4, <1>5, <1>12, <1>13, <1>14 DEF HeatInv, Recent

LEMMA EpochKeeps ==
    ASSUME HeatInv, OnEpoch
    PROVE  HeatInv'
<1>1. /\ HeatTypeOK /\ HeatNeverOverstated /\ UNCHANGED <<word, acc>>
      /\ ticks' = ticks + 1 /\ ticks < MaxTicks /\ ideal' = ideal \div 2
      /\ epoch' = (epoch + 1) % EpochMod
  BY DEF HeatInv, OnEpoch
<1>2. epoch \in Epochs /\ ticks \in 0 .. MaxTicks /\ ideal \in Heats /\ word \in Word
  BY <1>1 DEF HeatTypeOK
<1>3. epoch' = IF epoch + 1 < EpochMod THEN epoch + 1 ELSE 0
  <2>1. epoch + 1 \in Nat /\ epoch + 1 < 2 * EpochMod
    BY <1>2, HeatNumbers DEF Epochs
  <2>2. (epoch + 1) % EpochMod = IF epoch + 1 < EpochMod THEN epoch + 1 ELSE (epoch + 1) - EpochMod
    BY <2>1, HeatNumbers, Wraps
  <2> QED
    BY <1>1, <1>2, <2>2, HeatNumbers DEF Epochs
<1>4. epoch' \in Epochs /\ ticks' \in 0 .. MaxTicks /\ ideal' \in Heats
  BY <1>1, <1>2, <1>3, HeatNumbers DEF Epochs, Heats
<1>5. ASSUME NEW e \in Epochs, Recent(e)
      PROVE  Elapsed(epoch', e) = Elapsed(epoch, e) + 1 /\ Recent(e)'
  <2>1. Elapsed(epoch, e) <= ticks
    BY <1>5 DEF Recent
  <2>2. Elapsed(epoch, e) = IF e <= epoch THEN epoch - e ELSE (epoch - e) + EpochMod
    BY <1>2, ElapsedIs
  <2>3. Elapsed(epoch', e) = IF e <= epoch' THEN epoch' - e ELSE (epoch' - e) + EpochMod
    BY <1>4, ElapsedIs
  <2>4. Elapsed(epoch', e) = Elapsed(epoch, e) + 1
    BY <1>1, <1>2, <1>3, <2>1, <2>2, <2>3, HeatNumbers DEF Epochs
  <2>5. Elapsed(epoch, e) \in Nat
    BY <1>2, ElapsedNat
  <2> QED
    BY <1>1, <1>2, <2>1, <2>4, <2>5, HeatNumbers DEF Recent
<1>6. HeatTypeOK'
  BY <1>1, <1>4 DEF HeatTypeOK
<1>7. HeatNeverOverstated'
  <2>1. PICK h, e : h = word.heat /\ e = word.epoch
    OBVIOUS
  <2>2. h \in Heats /\ e \in Epochs
    BY <1>2, <2>1 DEF Word
  <2>3. CASE h = 0
    <3>1. Elapsed(epoch', e) \in Nat
      BY <1>4, <2>2, ElapsedNat
    <3>2. decay(h, Elapsed(epoch', e)) = 0
      BY <2>2, <2>3, <3>1, Decays
    <3> QED
      BY <1>1, <1>4, <2>1, <3>2, HeatNumbers DEF HeatNeverOverstated, HeatNow, Heats
  <2>4. CASE h # 0
    <3>1. Recent(e)
      BY <2>1, <2>4 DEF HeatInv
    <3>2. PICK n : n = Elapsed(epoch, e)
      OBVIOUS
    <3>3. n \in Nat /\ Elapsed(epoch', e) = n + 1
      BY <1>2, <1>5, <2>2, <3>1, <3>2, ElapsedNat
    <3>4. decay(h, n) <= ideal /\ decay(h, n) \in Heats
      BY <1>1, <2>1, <2>2, <3>2, <3>3, Decays DEF HeatNeverOverstated, HeatNow
    <3>5. decay(h, n + 1) <= decay(h, n) \div 2
      <4>1. CASE n + 1 >= MaxShift
        <5>1. decay(h, n + 1) = 0
          BY <4>1 DEF decay
        <5> QED
          BY <3>4, <5>1, HeatNumbers DEF Heats
      <4>2. CASE n + 1 < MaxShift
        <5>1. n + 1 \in 0 .. MaxShift /\ n + 1 # 0 /\ (n + 1) - 1 = n /\ ~(n >= MaxShift) /\ ~(n + 1 >= MaxShift)
          BY <3>3, <4>2, HeatNumbers
        <5>2. Shifted[n + 1] = ShiftedAt(Shifted, n + 1)
          BY <5>1, ShiftedIs
        <5>3. decay(h, n + 1) = decay(h, n) \div 2
          BY <2>2, <5>1, <5>2 DEF ShiftedAt, decay
        <5> QED
          BY <3>4, <5>3, HeatNumbers DEF Heats
      <4> QED
        BY <3>3, <4>1, <4>2, HeatNumbers
    <3>6. decay(h, n + 1) \in Heats
      BY <2>2, <3>3, Decays
    <3>7. decay(h, n + 1) <= ideal'
      BY <1>1, <1>2, <3>4, <3>5, <3>6, HeatNumbers DEF Heats
    <3> QED
      BY <1>1, <2>1, <3>3, <3>7 DEF HeatNeverOverstated, HeatNow
  <2> QED
    BY <2>3, <2>4
<1>8. \A t \in Accessors : acc[t].epoch \in Epochs
  BY <1>1 DEF HeatTypeOK
<1>9. word.heat = 0 \/ Recent(word.epoch)'
  BY <1>1, <1>2, <1>5 DEF HeatInv, Word
<1>10. \A t \in Accessors : acc[t].pc # "idle" => Recent(acc[t].epoch)'
  BY <1>1, <1>5, <1>8 DEF HeatInv
<1> QED
  BY <1>1, <1>6, <1>7, <1>9, <1>10 DEF HeatInv, Recent

LEMMA ResetKeeps ==
    ASSUME HeatInv, ResetHeat
    PROVE  HeatInv'
<1>1. HeatTypeOK /\ UNCHANGED <<epoch, ticks, acc>> /\ word' = NoHeat /\ ideal' = 0
  BY DEF HeatInv, ResetHeat
<1>2. HeatTypeOK'
  BY <1>1, HeatNumbers DEF HeatTypeOK
<1>3. HeatNeverOverstated'
  <2>1. Elapsed(epoch, 0) \in Nat
    BY <1>1, HeatNumbers, ElapsedNat DEF HeatTypeOK
  <2>2. decay(0, Elapsed(epoch, 0)) = 0
    BY <2>1, HeatNumbers, Decays
  <2> QED
    BY <1>1, <2>2 DEF HeatNeverOverstated, HeatNow, NoHeat
<1> QED
  BY <1>1, <1>2, <1>3 DEF HeatInv, Recent, NoHeat

-----------------------------------------------------------------------------
(* The demotion choice. *)

(***************************************************************************)
(* Iterator::min_by finds the first of the least.                          *)
(***************************************************************************)
LEMMA FirstLeast ==
    ASSUME NEW S \in SUBSET Nat, S # {}, NEW key \in [S -> Nat]
    PROVE  LET m == Min({i \in S : \A j \in S : key[i] <= key[j]})
           IN /\ m \in S
              /\ \A j \in S : key[m] <= key[j] /\ (key[m] = key[j] => m <= j)
<1> DEFINE Least == {i \in S : \A j \in S : key[i] <= key[j]}
           m == Min(Least)
<1>1. Least # {}
  <2> DEFINE K == {key[i] : i \in S}
  <2>1. K \in SUBSET Nat /\ K # {}
    OBVIOUS
  <2>2. PICK n \in K : \A k \in K : n <= k
    BY <2>1, NatMinimum
  <2>3. PICK i \in S : n = key[i]
    BY <2>2
  <2> QED
    BY <2>2, <2>3
<1>2. \E x \in Least : \A y \in Least : x <= y
  <2>1. Least \in SUBSET Nat
    OBVIOUS
  <2> HIDE DEF Least
  <2> QED
    BY <1>1, <2>1, NatMinimum
<1>3. m \in Least /\ \A y \in Least : m <= y
  <2> HIDE DEF Least
  <2> QED
    BY <1>2 DEF Min
<1>4. \A j \in S : key[m] = key[j] => j \in Least
  BY <1>3
<1> HIDE DEF m
<1> QED
  BY <1>3, <1>4 DEF m

\* The tiers that a page of this heat is worth being moved to.
Worth(infos, heat) == {i \in Eligible(infos) : PaysOff(infos[i], heat)}

(***************************************************************************)
(* The demotion target is the first cheapest of the tiers worth it, or,    *)
(* when none is, the first fastest of the eligible ones.                   *)
(***************************************************************************)
LEMMA Target ==
    ASSUME NEW infos \in Seq(TierInfo), NEW heat, Eligible(infos) # {}
    PROVE  LET t == demotion_target(infos, heat)
               W == Worth(infos, heat)
           IN /\ t \in Eligible(infos)
              /\ W # {} => /\ t \in W
                           /\ \A j \in W : /\ infos[t].price <= infos[j].price
                                           /\ infos[t].price = infos[j].price => t <= j
              /\ W = {} => \A j \in Eligible(infos) : infos[t].latency <= infos[j].latency
<1> DEFINE E == Eligible(infos)
           W == Worth(infos, heat)
           t == demotion_target(infos, heat)
<1>1. /\ E \in SUBSET Nat /\ W \in SUBSET E
      /\ \A i \in E : infos[i].price \in Nat /\ infos[i].latency \in Nat
  <2>1. \A i \in 1 .. Len(infos) : infos[i] \in TierInfo
    OBVIOUS
  <2> QED
    BY <2>1 DEF Eligible, IsEligible, Worth, TierInfo
<1>2. CASE W # {}
  <2> DEFINE price == [i \in W |-> infos[i].price]
             m == Min({i \in W : \A j \in W : price[i] <= price[j]})
  <2>1. W \in SUBSET Nat /\ price \in [W -> Nat]
    BY <1>1
  <2>2. {i \in W : \A j \in W : price[i] <= price[j]}
           = {i \in W : \A j \in W : infos[i].price <= infos[j].price}
    OBVIOUS
  <2>3. t = Min({i \in W : \A j \in W : infos[i].price <= infos[j].price})
    BY <1>2 DEF demotion_target, FirstMinBy, Worth
  <2>4. t = m
    BY <2>2, <2>3
  <2> HIDE DEF W, price
  <2>5. m \in W /\ \A j \in W : price[m] <= price[j] /\ (price[m] = price[j] => m <= j)
    BY <1>2, <2>1, FirstLeast
  <2>6. \A j \in W : price[j] = infos[j].price
    BY DEF price
  <2> HIDE DEF t, m
  <2>7. t \in W /\ \A j \in W : infos[t].price <= infos[j].price
                               /\ (infos[t].price = infos[j].price => t <= j)
    BY <2>4, <2>5, <2>6
  <2> QED
    BY <1>1, <1>2, <2>7 DEF t, W
<1>3. CASE W = {}
  <2> DEFINE latency == [i \in E |-> infos[i].latency]
             m == Min({i \in E : \A j \in E : latency[i] <= latency[j]})
  <2>1. latency \in [E -> Nat]
    BY <1>1
  <2>2. {i \in E : \A j \in E : latency[i] <= latency[j]}
           = {i \in E : \A j \in E : infos[i].latency <= infos[j].latency}
    OBVIOUS
  <2>3. t = Min({i \in E : \A j \in E : infos[i].latency <= infos[j].latency})
    BY <1>3 DEF demotion_target, FirstMinBy, Worth
  <2>4. t = m
    BY <2>2, <2>3
  <2> HIDE DEF E, latency
  <2>5. m \in E /\ \A j \in E : latency[m] <= latency[j]
    BY <1>1, <2>1, FirstLeast DEF E
  <2>6. \A j \in E : latency[j] = infos[j].latency
    BY DEF latency
  <2> HIDE DEF t, m
  <2>7. t \in E /\ \A j \in E : infos[t].latency <= infos[j].latency
    BY <2>4, <2>5, <2>6
  <2> QED
    BY <1>3, <2>7 DEF t, E
<1> QED
  BY <1>2, <1>3

(***************************************************************************)
(* Of two heats the hotter is never sent to a slower tier.                 *)
(***************************************************************************)
LEMMA HotterFaster ==
    ASSUME NEW infos \in Seq(TierInfo), NEW cold \in Heats, NEW hot \in Heats, cold <= hot,
           Eligible(infos) # {}
    PROVE  infos[demotion_target(infos, hot)].latency <= infos[demotion_target(infos, cold)].latency
<1> DEFINE E == Eligible(infos)
<1>1. PICK c, h : c = demotion_target(infos, cold) /\ h = demotion_target(infos, hot)
  OBVIOUS
<1>2. c \in E /\ h \in E
  BY <1>1, Target
<1>3. /\ cold \in Nat /\ hot \in Nat /\ CpuCost \in Nat /\ FixedReadCost \in Nat
      /\ EpochSeconds \in Nat /\ HEAT_ONE \in Nat /\ DramPageCost \in Nat
  BY HeatNumbers, DemotionAssumption DEF Heats
<1>4. \A i \in E : infos[i].latency \in Nat /\ infos[i].price \in Nat
  <2>1. \A i \in 1 .. Len(infos) : infos[i] \in TierInfo
    OBVIOUS
  <2> QED
    BY <2>1 DEF Eligible, IsEligible, TierInfo
<1> DEFINE R(i) == infos[i].latency * CpuCost + FixedReadCost
           K == EpochSeconds * HEAT_ONE * DramPageCost
<1>5. K \in Nat /\ \A i \in E : R(i) \in Nat
  <2>1. PICK e \in Nat : e = EpochSeconds * HEAT_ONE
    BY <1>3, Products
  <2>2. K = e * DramPageCost /\ e * DramPageCost \in Nat
    BY <1>3, <2>1, Products
  <2>3. ASSUME NEW i \in E PROVE R(i) \in Nat
    <3>1. PICK l \in Nat : l = infos[i].latency * CpuCost
      BY <1>3, <1>4, Products
    <3>2. R(i) = l + FixedReadCost
      BY <3>1
    <3>3. l + FixedReadCost \in Nat
      BY <1>3
    <3> HIDE DEF R
    <3> QED
      BY <3>2, <3>3
  <2> HIDE DEF K, R
  <2> QED
    BY <2>2, <2>3
<1>6. \A i \in E, heat \in Nat : PaysOff(infos[i], heat) <=> heat = 0 \/ K >= R(i) * heat
  BY DEF PaysOff, ReadOpportunityCost
<1> HIDE DEF K, R
<1>7. ASSUME NEW i \in E, PaysOff(infos[i], hot) PROVE PaysOff(infos[i], cold)
  <2>1. CASE hot = 0
    BY <1>3, <1>6, <2>1
  <2>2. CASE hot # 0
    <3>1. K >= R(i) * hot
      BY <1>3, <1>6, <1>7, <2>2
    <3>2. /\ cold * R(i) <= hot * R(i) /\ R(i) * cold = cold * R(i) /\ R(i) * hot = hot * R(i)
          /\ cold * R(i) \in Nat /\ hot * R(i) \in Nat
      BY <1>3, <1>5, Products
    <3>3. K >= R(i) * cold
      BY <1>5, <3>1, <3>2
    <3> QED
      BY <1>3, <1>6, <3>3
  <2> QED
    BY <2>1, <2>2
<1>8. CASE Worth(infos, hot) = {}
  BY <1>1, <1>2, <1>8, Target
<1>9. CASE Worth(infos, hot) # {}
  <2>1. Worth(infos, hot) \subseteq Worth(infos, cold)
    BY <1>7 DEF Worth
  <2>2. /\ h \in Worth(infos, hot)
        /\ \A j \in Worth(infos, hot) : /\ infos[h].price <= infos[j].price
                                        /\ infos[h].price = infos[j].price => h <= j
    BY <1>1, <1>9, Target
  <2>3. /\ c \in Worth(infos, cold)
        /\ \A j \in Worth(infos, cold) : /\ infos[c].price <= infos[j].price
                                         /\ infos[c].price = infos[j].price => c <= j
    BY <1>1, <1>9, <2>1, Target
  <2>4. CASE c \in Worth(infos, hot)
    <3>1. infos[c].price = infos[h].price
      BY <1>2, <1>4, <2>1, <2>2, <2>3, <2>4
    <3>2. c \in Nat /\ h \in Nat
      BY <1>2 DEF Eligible
    <3>3. c = h
      BY <2>1, <2>2, <2>3, <2>4, <3>1, <3>2
    <3> QED
      BY <1>1, <1>2, <1>4, <3>3
  <2>5. CASE c \notin Worth(infos, hot)
    <3>1. ~PaysOff(infos[c], hot) /\ PaysOff(infos[h], hot)
      BY <1>2, <2>2, <2>5 DEF Worth
    <3>2. hot # 0 /\ ~(K >= R(c) * hot) /\ K >= R(h) * hot
      BY <1>2, <1>3, <1>6, <3>1
    <3>3. PICK rc \in Nat, rh \in Nat : rc = R(c) /\ rh = R(h)
      BY <1>2, <1>5
    <3>4. rc * hot \in Nat /\ rh * hot \in Nat /\ (rc <= rh => rc * hot <= rh * hot)
      BY <1>3, Products
    <3>5. rh < rc
      BY <1>5, <3>2, <3>3, <3>4
    <3>6. PICK lc \in Nat, lh \in Nat : lc = infos[c].latency /\ lh = infos[h].latency
      BY <1>2, <1>4
    <3>7. rc = lc * CpuCost + FixedReadCost /\ rh = lh * CpuCost + FixedReadCost
      BY <3>3, <3>6 DEF R
    <3>8. lc * CpuCost \in Nat /\ lh * CpuCost \in Nat /\ (lc <= lh => lc * CpuCost <= lh * CpuCost)
      BY <1>3, Products
    <3>9. ~(lc <= lh)
      BY <1>3, <3>5, <3>7, <3>8
    <3> QED
      BY <1>1, <3>6, <3>9
  <2> QED
    BY <2>4, <2>5
<1> QED
  BY <1>8, <1>9

\* The inductive invariant of demotion.
DemotionInv ==
    /\ tier \in Seq(TierInfo) /\ Len(tier) > 0
    /\ demote \in [pc : {"idle", "infos", "heat", "choose", "pay", "write"},
                   infos : Seq(TierInfo), seen : Word, at : Nat]
    /\ demote.pc = "infos" => Len(demote.infos) < Len(tier)

(***************************************************************************)
(* Whatever the tiers an evictor read are, its choice is monotone.         *)
(***************************************************************************)
LEMMA DemotionImplies == DemotionInv => HotterIsFaster
<1> SUFFICES ASSUME DemotionInv, NEW cold \in Heats, NEW hot \in Heats, cold <= hot,
                    demotion_target(demote.infos, cold) # NoTier
             PROVE  LET infos == demote.infos
                        to(h) == demotion_target(infos, h)
                    IN /\ infos[to(hot)].latency <= infos[to(cold)].latency
                       /\ infos[to(hot)].budget # NoTier => infos[to(hot)].budget >= PageBytes
  BY DEF HotterIsFaster
<1>1. PICK infos : infos = demote.infos
  OBVIOUS
<1>2. infos \in Seq(TierInfo)
  BY <1>1 DEF DemotionInv
<1>3. Eligible(infos) # {}
  BY <1>1 DEF demotion_target
<1>4. infos[demotion_target(infos, hot)].latency <= infos[demotion_target(infos, cold)].latency
  BY <1>2, <1>3, HotterFaster
<1>5. demotion_target(infos, hot) \in Eligible(infos)
  BY <1>2, <1>3, Target
<1>6. \A i \in Eligible(infos) : infos[i].budget # NoTier => infos[i].budget >= PageBytes
  BY DEF Eligible, IsEligible
<1> QED
  BY <1>1, <1>4, <1>5, <1>6

(***************************************************************************)
(* The steps of an evictor, and of the budgets under it, keep the          *)
(* invariant of demotion.                                                  *)
(***************************************************************************)
LEMMA DemotionKeeps ==
    ASSUME HeatInv, DemotionInv, DemotionStep
    PROVE  DemotionInv'
<1>1. /\ tier \in Seq(TierInfo) /\ Len(tier) \in Nat \ {0}
      /\ demote \in [pc : {"idle", "infos", "heat", "choose", "pay", "write"},
                     infos : Seq(TierInfo), seen : Word, at : Nat]
      /\ word \in Word /\ epoch \in Epochs
  BY DEF DemotionInv, HeatInv, HeatTypeOK
<1>2. \A i \in 1 .. Len(tier) : tier[i] \in TierInfo
  BY <1>1
<1>3. NotDemoting \in [pc : {"idle", "infos", "heat", "choose", "pay", "write"},
                       infos : Seq(TierInfo), seen : Word, at : Nat]
      /\ NotDemoting.pc = "idle" /\ NotDemoting.infos = <<>>
  BY HeatNumbers DEF NotDemoting
<1>4. PageBytes \in Nat /\ BudgetCap \in Nat /\ NoTier \notin Nat
  BY DemotionAssumption
<1>5. ASSUME NEW i \in 1 .. Len(tier), NEW b \in Nat, tier' = [tier EXCEPT ![i].budget = b]
      PROVE  tier' \in Seq(TierInfo) /\ Len(tier') = Len(tier)
  <2>1. [tier[i] EXCEPT !.budget = b] \in TierInfo
    BY <1>2 DEF TierInfo
  <2>2. tier' = [tier EXCEPT ![i] = [tier[i] EXCEPT !.budget = b]]
    BY <1>5
  <2> QED
    BY <1>1, <2>1, <2>2
<1>6. ASSUME DemoteStarts PROVE DemotionInv'
  BY <1>1, <1>3, <1>6 DEF DemoteStarts, DemotionInv
<1>7. ASSUME ReadTierInfo PROVE DemotionInv'
  <2>1. Len(demote.infos) < Len(tier) /\ demote.infos \in Seq(TierInfo)
    BY <1>1, <1>7 DEF ReadTierInfo, DemotionInv
  <2>2. PICK n : n = Len(demote.infos) + 1
    OBVIOUS
  <2>3. tier[n] \in TierInfo /\ n \in Nat
    BY <1>1, <1>2, <2>1, <2>2
  <2>4. Append(demote.infos, tier[n]) \in Seq(TierInfo) /\ Len(Append(demote.infos, tier[n])) = n
    BY <2>1, <2>2, <2>3
  <2>5. demote' = [demote EXCEPT !.infos = Append(demote.infos, tier[n]),
                                 !.pc = IF n = Len(tier) THEN "heat" ELSE "infos"]
    BY <1>7, <2>2 DEF ReadTierInfo
  <2>6. demote'.infos = Append(demote.infos, tier[n]) /\ (demote'.pc = "infos" => n # Len(tier))
    BY <1>1, <2>5
  <2>7. demote' \in [pc : {"idle", "infos", "heat", "choose", "pay", "write"},
                     infos : Seq(TierInfo), seen : Word, at : Nat]
    BY <1>1, <2>4, <2>5
  <2> QED
    BY <1>1, <1>7, <2>1, <2>2, <2>4, <2>6, <2>7 DEF ReadTierInfo, DemotionInv
<1>8. ASSUME ReadHeatWord PROVE DemotionInv'
  BY <1>1, <1>8 DEF ReadHeatWord, DemotionInv
<1>9. ASSUME ChooseTarget PROVE DemotionInv'
  <2>1. PICK target, heat : target = demotion_target(demote.infos, heat)
                            /\ demote' = [demote EXCEPT !.pc = "pay",
                                              !.at = IF target = NoTier THEN 1 ELSE target]
    BY <1>9 DEF ChooseTarget
  <2>2. target = NoTier \/ target \in Nat
    <3>1. CASE Eligible(demote.infos) = {}
      BY <2>1, <3>1 DEF demotion_target
    <3>2. CASE Eligible(demote.infos) # {}
      BY <1>1, <2>1, <3>2, Target DEF Eligible
    <3> QED
      BY <3>1, <3>2
  <2>3. PICK n \in Nat : demote' = [demote EXCEPT !.pc = "pay", !.at = n]
    BY <2>1, <2>2
  <2>4. /\ demote' \in [pc : {"idle", "infos", "heat", "choose", "pay", "write"},
                        infos : Seq(TierInfo), seen : Word, at : Nat]
        /\ demote'.pc # "infos"
    BY <1>1, <2>3
  <2> QED
    BY <1>1, <1>9, <2>4 DEF ChooseTarget, DemotionInv
<1>10. /\ Onwards \in [pc : {"idle", "infos", "heat", "choose", "pay", "write"},
                       infos : Seq(TierInfo), seen : Word, at : Nat]
       /\ Onwards.pc # "infos"
  <2>1. demote.at + 1 \in Nat /\ demote.at \in Nat
    BY <1>1
  <2>2. CASE demote.at = Len(tier)
    BY <1>3, <2>2 DEF Onwards
  <2>3. CASE demote.at # Len(tier)
    <3>1. PICK n \in Nat : Onwards = [demote EXCEPT !.pc = "pay", !.at = n]
      BY <2>1, <2>3 DEF Onwards
    <3> QED
      BY <1>1, <3>1
  <2> QED
    BY <2>2, <2>3
<1>11. ASSUME PayBudget PROVE DemotionInv'
  <2>1. CASE UNCHANGED tier /\ demote' \in {Onwards, [demote EXCEPT !.pc = "write"]}
    BY <1>1, <1>10, <2>1 DEF DemotionInv
  <2>2. CASE /\ tier[demote.at].budget # NoTier /\ tier[demote.at].budget >= PageBytes
             /\ tier' = [tier EXCEPT ![demote.at].budget = tier[demote.at].budget - PageBytes]
             /\ demote' = [demote EXCEPT !.pc = "write"]
    <3>1. CASE demote.at \in 1 .. Len(tier)
      <4>1. tier[demote.at].budget - PageBytes \in Nat
        BY <1>2, <1>4, <2>2, <3>1 DEF TierInfo
      <4>2. tier' \in Seq(TierInfo) /\ Len(tier') = Len(tier)
        BY <1>5, <2>2, <3>1, <4>1
      <4> QED
        BY <1>1, <2>2, <4>2 DEF DemotionInv
    <3>2. CASE demote.at \notin 1 .. Len(tier)
      <4>1. tier' = tier
        BY <1>1, <2>2, <3>2
      <4> QED
        BY <1>1, <2>2, <4>1 DEF DemotionInv
    <3> QED
      BY <3>1, <3>2
  <2> QED
    BY <1>11, <2>1, <2>2 DEF PayBudget
<1>12. ASSUME WriteFails PROVE DemotionInv'
  BY <1>1, <1>10, <1>12 DEF WriteFails, DemotionInv
<1>13. ASSUME Written PROVE DemotionInv'
  BY <1>1, <1>3, <1>13 DEF Written, DemotionInv
<1>14. ASSUME NEW i \in 1 .. Len(tier), BudgetMoves(i) PROVE DemotionInv'
  <2>1. tier[i].budget \in Nat
    BY <1>2, <1>14 DEF BudgetMoves, TierInfo
  <2>2. PICK b \in Nat : tier' = [tier EXCEPT ![i].budget = b]
    <3>1. CASE /\ tier[i].budget >= PageBytes
               /\ tier' = [tier EXCEPT ![i].budget = tier[i].budget - PageBytes]
      <4>1. tier[i].budget - PageBytes \in Nat
        BY <1>4, <2>1, <3>1
      <4> QED
        BY <3>1, <4>1
    <3>2. CASE tier' = [tier EXCEPT ![i].budget = tier[i].budget + 1]
      <4>1. tier[i].budget + 1 \in Nat
        BY <2>1
      <4> QED
        BY <3>2, <4>1
    <3> QED
      BY <1>14, <3>1, <3>2 DEF BudgetMoves
  <2>3. tier' \in Seq(TierInfo) /\ Len(tier') = Len(tier)
    BY <1>5, <2>2
  <2> QED
    BY <1>1, <1>14, <2>3 DEF BudgetMoves, DemotionInv
<1> QED
  BY <1>6, <1>7, <1>8, <1>9, <1>11, <1>12, <1>13, <1>14 DEF DemotionStep

(***************************************************************************)
(* An evictor leaves a frame's heat alone or forgets it.                   *)
(***************************************************************************)
LEMMA DemotionHeat ==
    ASSUME HeatInv, DemotionStep
    PROVE  HeatInv'
<1>1. CASE Written
  BY <1>1, ResetKeeps DEF Written
<1>2. CASE UNCHANGED heatVars
  BY <1>2 DEF heatVars, HeatInv, HeatTypeOK, Recent, HeatNeverOverstated, HeatNow
<1> QED
  BY <1>1, <1>2 DEF DemotionStep, DemoteStarts, ReadTierInfo, ReadHeatWord, ChooseTarget, PayBudget,
     WriteFails, BudgetMoves

(***************************************************************************)
(* Heat and demotion begin in order, in every part of Services.            *)
(***************************************************************************)
LEMMA InitHeat == Init => HeatInv /\ DemotionInv
<1> SUFFICES ASSUME Init PROVE HeatInv /\ DemotionInv
  OBVIOUS
<1>1. HeatTypeOK
  <2>1. CASE AnyHeat
    BY <2>1, HeatNumbers DEF AnyHeat, HeatTypeOK, Outside, Word
  <2>2. CASE HeatInit
    BY <2>2, HeatNumbers DEF HeatInit, HeatTypeOK, Outside, Word, Epochs
  <2> QED
    BY <2>1, <2>2 DEF Init
<1>2. \A t \in Accessors : acc[t].pc = "idle"
  BY DEF Init, AnyHeat, HeatInit, Outside
<1>3. word.heat = 0 \/ (word.epoch = 0 /\ epoch = 0)
  BY DEF Init, AnyHeat, HeatInit, NoHeat
<1>4. ticks = 0 /\ ideal = word.heat
  BY DEF Init, AnyHeat, HeatInit, NoHeat
<1>5. PICK h, e : h = word.heat /\ e = Elapsed(epoch, word.epoch)
  OBVIOUS
<1>6. h \in Heats /\ e \in Nat /\ (h = 0 \/ e = 0)
  BY <1>1, <1>3, <1>5, ElapsedNat DEF HeatTypeOK, Word
<1>7. decay(h, e) \in Heats /\ (h = 0 => decay(h, e) = 0) /\ (e = 0 => decay(h, e) <= h)
  BY <1>6, Decays
<1>8. HeatNeverOverstated
  BY <1>4, <1>5, <1>6, <1>7, HeatNumbers DEF HeatNeverOverstated, HeatNow, Heats
<1>9. HeatInv
  BY <1>1, <1>2, <1>3, <1>4, <1>5, <1>6, <1>8 DEF HeatInv, Recent
<1>10. tier \in Seq(TierInfo) /\ tier # <<>>
  BY DemotionAssumption DEF Init, DemotionInit
<1>11. Len(tier) > 0
  BY <1>10
<1>12. DemotionInv
  BY <1>10, <1>11, HeatNumbers DEF Init, DemotionInit, DemotionInv, NotDemoting
<1> QED
  BY <1>9, <1>12

\* What none of the other parts touches.
LEMMA HeatSideStep ==
    ASSUME HeatInv, DemotionInv, [Next]_vars
    PROVE  HeatInv' /\ DemotionInv'
<1>1. CASE UNCHANGED heatSide
  BY <1>1 DEF heatSide, heatVars, demotionVars, HeatInv, HeatTypeOK, Recent, HeatNeverOverstated,
     HeatNow, DemotionInv
<1>2. CASE HeatStep
  <2>1. UNCHANGED demotionVars
    BY <1>2 DEF HeatStep
  <2>2. DemotionInv'
    BY <2>1 DEF demotionVars, DemotionInv
  <2>3. HeatInv'
    BY <1>2, AccessKeeps, CasKeeps, EpochKeeps, ResetKeeps DEF HeatStep, AccessStep
  <2> QED
    BY <2>2, <2>3
<1>3. CASE Demotes
  <2>1. CASE DemotionStep
    BY <2>1, DemotionKeeps, DemotionHeat
  <2>2. CASE OnEpoch /\ UNCHANGED demotionVars
    BY <2>2, EpochKeeps DEF demotionVars, DemotionInv
  <2> QED
    BY <1>3, <2>1, <2>2 DEF Demotes
<1> QED
  BY <1>1, <1>2, <1>3 DEF Next, vars

(***************************************************************************)
(* Heat and demotion are in order in every reachable state.                *)
(***************************************************************************)
THEOREM HeatInductive == Spec => [](HeatInv /\ DemotionInv)
<1> QED
  BY InitHeat, HeatSideStep, PTL DEF Spec

(***************************************************************************)
(* Whatever accesses race with each other and with the epoch, a frame is   *)
(* never reported hotter than its accesses made it (on_access and          *)
(* current_heat_raw of heat.rs), for any widths and any number of threads. *)
(***************************************************************************)
THEOREM HeatTrue == Spec => []HeatNeverOverstated
<1>1. HeatInv => HeatNeverOverstated
  BY DEF HeatInv
<1> QED
  BY <1>1, HeatInductive, PTL

(***************************************************************************)
(* The hotter of two frames is never sent to a slower tier, nor any frame  *)
(* to a tier that cannot take a page (demotion_target of economic.rs), for *)
(* any tiers, prices and heats.                                            *)
(***************************************************************************)
THEOREM DemotionMonotone == Spec => []HotterIsFaster
  BY HeatInductive, DemotionImplies, PTL

-----------------------------------------------------------------------------
(* The mock tier. *)

\* The slots handed back and not reused, last freed last.
FreeAt(i, s) == i \in 1 .. Len(mock_free) /\ mock_free[i] = s

\* A slot holds no page exactly while it waits to be given out, for the
\* first time or again.
MockInv ==
    /\ mock_pages \in [SlotsOfMock -> MockData \cup {NoData}]
    /\ mock_free \in Seq(SlotsOfMock)
    /\ next_slot \in 0 .. MockSlots
    /\ \A s \in SlotsOfMock :
          mock_pages[s] = NoData <=> s >= next_slot \/ \E i : FreeAt(i, s)
    /\ \A i, j \in 1 .. Len(mock_free) : mock_free[i] = mock_free[j] => i = j
    /\ \A i \in 1 .. Len(mock_free) : mock_free[i] < next_slot

(***************************************************************************)
(* A page written to a slot of the stack's top, or to the next new one.    *)
(***************************************************************************)
LEMMA MockWriteContract ==
    ASSUME MockInv, NEW page \in MockData, MockWrite(page)
    PROVE  MockInv' /\ Contract!Next
<1>1. /\ mock_pages \in [SlotsOfMock -> MockData \cup {NoData}]
      /\ mock_free \in Seq(SlotsOfMock) /\ Len(mock_free) \in Nat
      /\ next_slot \in 0 .. MockSlots
      /\ MockSlots \in Nat \ {0} /\ NoData \notin MockData \cup Nat
  BY MockAssumption DEF MockInv
<1>2. Contract!Slots = SlotsOfMock
  BY DEF Contract!Slots, SlotsOfMock
<1>3. CASE mock_free # <<>>
  <2>1. PICK n : n = Len(mock_free)
    OBVIOUS
  <2>2. n \in Nat \ {0} /\ \A i \in 1 .. n : mock_free[i] \in SlotsOfMock
    BY <1>1, <1>3, <2>1
  <2>3. PICK s \in SlotsOfMock : s = mock_free[n]
    BY <2>2
  <2>4. /\ mock_free' = SubSeq(mock_free, 1, n - 1)
        /\ mock_pages' = [mock_pages EXCEPT ![s] = page]
        /\ mock_result' = <<"written", s>> /\ UNCHANGED next_slot
    BY <1>3, <2>1, <2>3 DEF MockWrite, Keep
  <2>5. /\ mock_free' \in Seq(SlotsOfMock) /\ Len(mock_free') = n - 1
        /\ \A i \in 1 .. (n - 1) : mock_free'[i] = mock_free[i]
    <3>1. \A i \in 1 .. (n - 1) : mock_free[i] \in SlotsOfMock
      BY <2>2
    <3>2. /\ SubSeq(mock_free, 1, n - 1) \in Seq(SlotsOfMock)
          /\ Len(SubSeq(mock_free, 1, n - 1)) = IF 1 <= n - 1 THEN n - 1 - 1 + 1 ELSE 0
          /\ \A i \in 1 .. (n - 1 - 1 + 1) : SubSeq(mock_free, 1, n - 1)[i] = mock_free[1 + i - 1]
      BY <1>1, <2>2, <3>1, SubSeqProperties, 1 \in Int, n - 1 \in Int
    <3>3. \A i \in 1 .. (n - 1) : 1 + i - 1 = i
      BY <2>2
    <3> QED
      BY <2>2, <2>4, <3>2, <3>3
  <2>6. mock_pages[s] = NoData
    BY <2>1, <2>2, <2>3 DEF MockInv, FreeAt
  <2>7. \A r \in SlotsOfMock : (\E i : FreeAt(i, r)') <=> (r # s /\ \E i : FreeAt(i, r))
    <3>1. \A r \in SlotsOfMock : \A i : FreeAt(i, r)' => FreeAt(i, r) /\ i # n
      BY <2>1, <2>2, <2>5 DEF FreeAt
    <3>2. \A r \in SlotsOfMock : \A i : FreeAt(i, r) /\ i # n => FreeAt(i, r)'
      BY <2>1, <2>2, <2>5 DEF FreeAt
    <3>3. \A i : FreeAt(i, s) <=> i = n
      BY <2>1, <2>2, <2>3 DEF MockInv, FreeAt
    <3>4. \A r \in SlotsOfMock : FreeAt(n, r) => r = s
      BY <2>3 DEF FreeAt
    <3> QED
      BY <3>1, <3>2, <3>3, <3>4
  <2>8. \A r \in SlotsOfMock : mock_pages'[r] = NoData <=> r # s /\ mock_pages[r] = NoData
    BY <1>1, <2>4
  <2>9. s < next_slot /\ s \in Int
    BY <2>1, <2>2, <2>3 DEF MockInv, SlotsOfMock
  <2>10. mock_pages' \in [SlotsOfMock -> MockData \cup {NoData}]
    BY <1>1, <2>4
  <2>11. \A r \in SlotsOfMock : mock_pages'[r] = NoData <=> r >= next_slot \/ \E i : FreeAt(i, r)'
    BY <1>1, <2>7, <2>8, <2>9 DEF MockInv, SlotsOfMock
  <2>12. MockInv'
    BY <1>1, <2>1, <2>2, <2>4, <2>5, <2>10, <2>11 DEF MockInv
  <2>13. Contract!Write(s, page)
    BY <2>4, <2>6 DEF Contract!Write
  <2> QED
    BY <1>2, <2>12, <2>13 DEF Contract!Next
<1>4. CASE mock_free = <<>> /\ next_slot < MockSlots
  <2>1. PICK s : s = next_slot
    OBVIOUS
  <2>2. s \in SlotsOfMock /\ s \in Nat
    BY <1>1, <1>4, <2>1 DEF SlotsOfMock
  <2>3. /\ mock_free' = mock_free /\ next_slot' = s + 1
        /\ mock_pages' = [mock_pages EXCEPT ![s] = page]
        /\ mock_result' = <<"written", s>>
    BY <1>1, <1>4, <2>1, next_slot # MockSlots DEF MockWrite, Keep
  <2>4. mock_pages[s] = NoData
    BY <2>1, <2>2 DEF MockInv
  <2>5. \A r \in SlotsOfMock : mock_pages'[r] = NoData <=> r # s /\ mock_pages[r] = NoData
    BY <1>1, <2>3
  <2>6. mock_pages' \in [SlotsOfMock -> MockData \cup {NoData}] /\ next_slot' \in 0 .. MockSlots
    BY <1>1, <1>4, <2>1, <2>2, <2>3
  <2>7. \A r \in SlotsOfMock : \A i : ~FreeAt(i, r) /\ ~FreeAt(i, r)'
    BY <1>4, <2>3 DEF FreeAt
  <2>8. \A r \in SlotsOfMock : mock_pages'[r] = NoData <=> r >= next_slot' \/ \E i : FreeAt(i, r)'
    <3>1. \A r \in SlotsOfMock : mock_pages[r] = NoData <=> r >= s
      BY <2>1, <2>7 DEF MockInv
    <3>2. \A r \in SlotsOfMock : r # s /\ r >= s <=> r >= s + 1
      BY <2>2 DEF SlotsOfMock
    <3>3. next_slot' = s + 1
      BY <2>3
    <3>4. TAKE r \in SlotsOfMock
    <3>5. ~\E i : FreeAt(i, r)'
      BY <2>7
    <3> QED
      BY <2>5, <3>1, <3>2, <3>3, <3>5
  <2>9. MockInv'
    BY <1>1, <1>4, <2>3, <2>6, <2>8 DEF MockInv
  <2>10. Contract!Write(s, page)
    BY <2>3, <2>4 DEF Contract!Write
  <2> QED
    BY <1>2, <2>2, <2>9, <2>10 DEF Contract!Next
<1>5. CASE mock_free = <<>> /\ next_slot = MockSlots
  <2>1. mock_result' = <<"err", "StorageFull">> /\ UNCHANGED <<mock_pages, mock_free, next_slot>>
    BY <1>1, <1>5 DEF MockWrite
  <2>2. MockInv'
    BY <2>1 DEF MockInv, FreeAt
  <2>3. \A s \in SlotsOfMock : mock_pages[s] # NoData
    BY <1>1, <1>5 DEF MockInv, FreeAt, SlotsOfMock
  <2>4. Contract!StorageFull
    BY <1>2, <2>1, <2>3 DEF Contract!StorageFull
  <2> QED
    BY <2>2, <2>4 DEF Contract!Next
<1> QED
  BY <1>1, <1>3, <1>4, <1>5

(***************************************************************************)
(* A slot is handed back once, whatever free is called with.               *)
(***************************************************************************)
LEMMA MockFreeContract ==
    ASSUME MockInv, NEW location \in Offsets, MockFree(location)
    PROVE  MockInv' /\ Contract!Next
<1>1. /\ mock_pages \in [SlotsOfMock -> MockData \cup {NoData}]
      /\ mock_free \in Seq(SlotsOfMock) /\ Len(mock_free) \in Nat
      /\ next_slot \in 0 .. MockSlots
      /\ MockSlots \in Nat \ {0} /\ NoData \notin MockData \cup Nat
  BY MockAssumption DEF MockInv
<1>2. Contract!Slots = SlotsOfMock
  BY DEF Contract!Slots, SlotsOfMock
<1>3. CASE location \in SlotsOfMock /\ mock_pages[location] # NoData
  <2>1. PICK n \in Nat : n = Len(mock_free)
    BY <1>1
  <2>2. /\ mock_pages' = [mock_pages EXCEPT ![location] = NoData]
        /\ mock_free' = Append(mock_free, location)
        /\ mock_result' = <<"freed">> /\ UNCHANGED next_slot
    BY <1>3 DEF MockFree
  <2>3. /\ mock_free' \in Seq(SlotsOfMock) /\ Len(mock_free') = n + 1
        /\ \A i \in 1 .. n : mock_free'[i] = mock_free[i]
        /\ mock_free'[n + 1] = location
    BY <1>1, <1>3, <2>1, <2>2, AppendProperties
  <2>4. location < next_slot /\ \A i : ~FreeAt(i, location)
    BY <1>1, <1>3 DEF MockInv, SlotsOfMock
  <2>5. \A r \in SlotsOfMock : (\E i : FreeAt(i, r)') <=> (r = location \/ \E i : FreeAt(i, r))
    <3>1. \A r \in SlotsOfMock : \A i : FreeAt(i, r) => FreeAt(i, r)'
      BY <2>1, <2>3 DEF FreeAt
    <3>2. FreeAt(n + 1, location)'
      BY <2>1, <2>3 DEF FreeAt
    <3>3. \A r \in SlotsOfMock : \A i : FreeAt(i, r)' => FreeAt(i, r) \/ r = location
      BY <2>1, <2>3 DEF FreeAt
    <3> QED
      BY <3>1, <3>2, <3>3
  <2>6. \A r \in SlotsOfMock : mock_pages'[r] = NoData <=> r = location \/ mock_pages[r] = NoData
    BY <1>1, <2>2
  <2>7. \A r \in SlotsOfMock : mock_pages'[r] = NoData <=> r >= next_slot \/ \E i : FreeAt(i, r)'
    BY <2>5, <2>6 DEF MockInv
  <2>8. mock_pages' \in [SlotsOfMock -> MockData \cup {NoData}]
    BY <1>1, <2>2
  <2>9. \A i, j \in 1 .. Len(mock_free') : mock_free'[i] = mock_free'[j] => i = j
    <3>1. \A i \in 1 .. n : mock_free[i] # location
      BY <2>1, <2>4 DEF FreeAt
    <3> QED
      BY <2>1, <2>3, <3>1 DEF MockInv
  <2>10. \A i \in 1 .. Len(mock_free') : mock_free'[i] < next_slot
    BY <2>1, <2>3, <2>4 DEF MockInv
  <2>11. MockInv'
    BY <1>1, <2>2, <2>3, <2>7, <2>8, <2>9, <2>10 DEF MockInv
  <2>12. Contract!Free(location)
    BY <2>2 DEF Contract!Free
  <2> QED
    BY <1>2, <1>3, <2>11, <2>12 DEF Contract!Next
<1>4. CASE ~(location \in SlotsOfMock /\ mock_pages[location] # NoData)
  <2>1. UNCHANGED <<mock_pages, mock_free, next_slot>> /\ mock_result' = <<"freed">>
    BY <1>4 DEF MockFree
  <2>2. MockInv'
    BY <2>1 DEF MockInv, FreeAt
  <2>3. Contract!Invalid
    BY <2>1 DEF Contract!Invalid
  <2> QED
    BY <2>2, <2>3 DEF Contract!Next
<1> QED
  BY <1>3, <1>4

(***************************************************************************)
(* Every call of the mock tier is an operation of the contract or changes  *)
(* nothing a caller sees.                                                  *)
(***************************************************************************)
LEMMA MockStepContract ==
    ASSUME MockInv, [Next]_vars
    PROVE  MockInv' /\ [Contract!Next]_(Contract!vars)
<1>1. CASE UNCHANGED mockVars
  BY <1>1 DEF mockVars, MockInv, FreeAt, Contract!vars
<1>2. ASSUME MockRefuses PROVE MockInv' /\ [Contract!Next]_(Contract!vars)
  <2>1. MockInv'
    BY <1>2 DEF MockRefuses, MockInv, FreeAt
  <2>2. Contract!Invalid
    BY <1>2 DEF MockRefuses, Contract!Invalid
  <2> QED
    BY <2>1, <2>2 DEF Contract!Next
<1>3. ASSUME NEW nth, MockFailNthRead(nth) PROVE MockInv' /\ [Contract!Next]_(Contract!vars)
  BY <1>3 DEF MockFailNthRead, MockInv, FreeAt, Contract!vars
<1>4. ASSUME NEW location \in Offsets, MockRead(location)
      PROVE  MockInv' /\ [Contract!Next]_(Contract!vars)
  <2>1. MockInv'
    BY <1>4 DEF MockRead, MockInv, FreeAt
  <2>2. location \in Contract!Slots /\ UNCHANGED mock_pages
    BY <1>4 DEF MockRead, Contract!Slots, SlotsOfMock
  <2>3. \/ mock_result' = <<"err", "Io">>
        \/ mock_pages[location] = NoData /\ mock_result' = <<"err", "NotFound">>
        \/ /\ mock_pages[location] # NoData
           /\ mock_result' = <<"page", location, mock_pages[location]>>
    BY <1>4 DEF MockRead
  <2>4. Contract!IoError \/ Contract!NotFound(location) \/ Contract!Read(location)
    BY <2>2, <2>3 DEF Contract!IoError, Contract!NotFound, Contract!Read
  <2> QED
    BY <2>1, <2>2, <2>4 DEF Contract!Next
<1>5. CASE MockStep
  BY <1>2, <1>3, <1>4, <1>5, MockWriteContract, MockFreeContract DEF MockStep
<1> QED
  BY <1>1, <1>5 DEF Next, vars

(***************************************************************************)
(* The mock tier keeps the contract of every tier: a page is written only  *)
(* where none is, refused only when every slot holds one, and read back as *)
(* written, whatever is freed (read, write and free of mock.rs).           *)
(***************************************************************************)
THEOREM MockRefinement == Spec => MockContract
<1>1. Init => MockInv
  BY MockAssumption DEF Init, MockInit, MockInv, FreeAt, SlotsOfMock
<1>2. Init => Contract!Init
  BY DEF Init, MockInit, Contract!Init, Contract!Slots, SlotsOfMock
<1> QED
  BY <1>1, <1>2, MockStepContract, PTL DEF Spec, MockContract, Contract!Spec


-----------------------------------------------------------------------------
(* The statistics. *)

\* Who has counted a transfer x and not yet its bytes.
Halfway(x) == {r \in Recorders : updating[r] = x}

StatsTypeOK ==
    /\ count \in [Counters -> 0 .. MaxCount]
    /\ bytes \in [Transfers -> 0 .. MaxCount]
    /\ updating \in [Recorders -> Transfers \cup {"none"}]

\* k transfers are complete, and one more for each recorder inside the gate.
TransfersMatch(x, k) ==
    /\ bytes[x] = saturating_add(0, PageLength * k)
    /\ count[x] = saturating_add(k, Cardinality(Halfway(x)))

StatsInv ==
    /\ StatsTypeOK
    /\ \A x \in Transfers : \E k \in Nat : TransfersMatch(x, k)

LEMMA HalfwayCount ==
    \A x : IsFiniteSet(Halfway(x)) /\ Cardinality(Halfway(x)) \in Nat
<1> TAKE x
<1>1. IsFiniteSet(Recorders) /\ Halfway(x) \subseteq Recorders
  BY StatsAssumption DEF Halfway
<1> QED
  BY <1>1, FS_Subset, FS_CardinalityType

\* One counter of many moves up.
LEMMA Grows ==
    ASSUME NEW C, NEW m \in Nat, NEW f \in [C -> 0 .. m], NEW c \in C, NEW n \in 0 .. m, f[c] <= n
    PROVE  /\ [f EXCEPT ![c] = n] \in [C -> 0 .. m]
           /\ \A d \in C : f[d] <= [f EXCEPT ![c] = n][d]
<1>1. \A d \in C : f[d] \in Int /\ f[d] <= f[d]
  OBVIOUS
<1>2. \A d \in C : [f EXCEPT ![c] = n][d] = IF d = c THEN n ELSE f[d]
  OBVIOUS
<1> QED
  BY <1>1, <1>2

(***************************************************************************)
(* Events of one counter leave the transfers alone.                        *)
(***************************************************************************)
LEMMA EventKeeps ==
    ASSUME StatsInv, NEW c \in Events, RecordEvent(c)
    PROVE  StatsInv' /\ (\A d \in Counters : count[d] <= count'[d])
<1>1. MaxCount \in Nat /\ c \in Counters /\ c \notin Transfers
  BY StatsAssumption DEF Counters
<1>2. count \in [Counters -> 0 .. MaxCount]
  BY DEF StatsInv, StatsTypeOK
<1>3. /\ count' = [count EXCEPT ![c] = saturating_add(count[c], 1)]
      /\ UNCHANGED <<bytes, updating>>
  BY DEF RecordEvent
<1>4. saturating_add(count[c], 1) \in 0 .. MaxCount /\ count[c] <= saturating_add(count[c], 1)
  BY <1>1, <1>2 DEF saturating_add
<1>5. count' \in [Counters -> 0 .. MaxCount] /\ \A d \in Counters : count[d] <= count'[d]
  BY <1>1, <1>2, <1>3, <1>4, Grows
<1>6. ASSUME NEW x \in Transfers PROVE count'[x] = count[x] /\ Halfway(x)' = Halfway(x)
  BY <1>1, <1>2, <1>3 DEF Halfway, Counters
<1>7. \A x \in Transfers : \E k \in Nat : TransfersMatch(x, k)'
  <2> TAKE x \in Transfers
  <2>1. PICK k \in Nat : TransfersMatch(x, k)
    BY DEF StatsInv
  <2>2. TransfersMatch(x, k)'
    BY <1>3, <1>6, <2>1 DEF TransfersMatch
  <2> QED
    BY <2>2
<1> QED
  BY <1>3, <1>5, <1>7 DEF StatsInv, StatsTypeOK

(***************************************************************************)
(* A transfer is counted: its recorder is inside the gate.                 *)
(***************************************************************************)
LEMMA TransferKeeps ==
    ASSUME StatsInv, NEW r \in Recorders, NEW x \in Transfers, RecordTransfer(r, x)
    PROVE  StatsInv' /\ (\A d \in Counters : count[d] <= count'[d])
<1>1. MaxCount \in Nat /\ x \in Counters /\ x # "none"
  BY StatsAssumption DEF Counters, Transfers
<1>2. count \in [Counters -> 0 .. MaxCount] /\ updating \in [Recorders -> Transfers \cup {"none"}]
  BY DEF StatsInv, StatsTypeOK
<1>3. /\ count' = [count EXCEPT ![x] = saturating_add(count[x], 1)]
      /\ updating' = [updating EXCEPT ![r] = x]
      /\ updating[r] = "none"
      /\ UNCHANGED bytes
  BY DEF RecordTransfer
<1>4. saturating_add(count[x], 1) \in 0 .. MaxCount /\ count[x] <= saturating_add(count[x], 1)
  BY <1>1, <1>2 DEF saturating_add
<1>5. /\ count' \in [Counters -> 0 .. MaxCount] /\ \A d \in Counters : count[d] <= count'[d]
      /\ updating' \in [Recorders -> Transfers \cup {"none"}]
  BY <1>1, <1>2, <1>3, <1>4, Grows
<1>6. ASSUME NEW y \in Transfers PROVE \E k \in Nat : TransfersMatch(y, k)'
  <2>1. PICK k \in Nat : TransfersMatch(y, k)
    BY DEF StatsInv
  <2>2. CASE y = x
    <3>1. Halfway(x)' = Halfway(x) \cup {r} /\ r \notin Halfway(x)
      BY <1>1, <1>2, <1>3 DEF Halfway
    <3>2. PICK n \in Nat : n = Cardinality(Halfway(x))
      BY HalfwayCount
    <3>3. Cardinality(Halfway(x)') = n + 1
      BY <3>1, <3>2, HalfwayCount, FS_AddElement
    <3>4. count'[x] = saturating_add(count[x], 1) /\ count[x] = saturating_add(k, n)
      BY <1>1, <1>2, <1>3, <2>1, <2>2, <3>2 DEF TransfersMatch
    <3>5. count'[x] = saturating_add(k, n + 1)
      BY <1>1, <2>1, <3>2, <3>4 DEF saturating_add
    <3>6. TransfersMatch(x, k)'
      BY <1>3, <2>1, <2>2, <3>3, <3>5 DEF TransfersMatch, saturating_add
    <3> QED
      BY <2>2, <3>6
  <2>3. CASE y # x
    <3>1. Halfway(y)' = Halfway(y) /\ count'[y] = count[y]
      BY <1>2, <1>3, <2>3 DEF Halfway, Transfers, Counters
    <3>2. TransfersMatch(y, k)'
      BY <1>3, <2>1, <3>1 DEF TransfersMatch
    <3> QED
      BY <3>2
  <2> QED
    BY <2>2, <2>3
<1> QED
  BY <1>3, <1>5, <1>6 DEF StatsInv, StatsTypeOK

(***************************************************************************)
(* Its bytes follow, and its recorder leaves the gate.                     *)
(***************************************************************************)
LEMMA BytesKeep ==
    ASSUME StatsInv, NEW r \in Recorders, RecordBytes(r)
    PROVE  StatsInv' /\ (\A y \in Transfers : bytes[y] <= bytes'[y]) /\ UNCHANGED count
<1>1. MaxCount \in Nat /\ PageLength \in Nat
  BY StatsAssumption
<1>2. /\ bytes \in [Transfers -> 0 .. MaxCount] /\ count \in [Counters -> 0 .. MaxCount]
      /\ updating \in [Recorders -> Transfers \cup {"none"}]
  BY DEF StatsInv, StatsTypeOK
<1>3. PICK x \in Transfers : x = updating[r]
  BY <1>2 DEF RecordBytes
<1>4. /\ bytes' = [bytes EXCEPT ![x] = saturating_add(bytes[x], PageLength)]
      /\ updating' = [updating EXCEPT ![r] = "none"]
      /\ UNCHANGED count
  BY <1>3 DEF RecordBytes
<1>5. saturating_add(bytes[x], PageLength) \in 0 .. MaxCount
      /\ bytes[x] <= saturating_add(bytes[x], PageLength)
  BY <1>1, <1>2 DEF saturating_add
<1>6. /\ bytes' \in [Transfers -> 0 .. MaxCount] /\ \A y \in Transfers : bytes[y] <= bytes'[y]
      /\ updating' \in [Recorders -> Transfers \cup {"none"}]
  BY <1>2, <1>4, <1>5
<1>7. ASSUME NEW y \in Transfers PROVE \E k \in Nat : TransfersMatch(y, k)'
  <2>1. PICK k \in Nat : TransfersMatch(y, k)
    BY DEF StatsInv
  <2>2. CASE y = x
    <3>1. Halfway(x)' = Halfway(x) \ {r} /\ r \in Halfway(x)
      BY <1>2, <1>3, <1>4 DEF Halfway, Transfers
    <3>2. PICK n \in Nat : n = Cardinality(Halfway(x))
      BY HalfwayCount
    <3>3. Cardinality(Halfway(x)') = n - 1
      BY <3>1, <3>2, HalfwayCount, FS_RemoveElement
    <3>4. Cardinality(Halfway(x)') \in Nat
      <4>1. IsFiniteSet(Halfway(x) \ {r})
        BY HalfwayCount, FS_Subset
      <4> QED
        BY <3>1, <4>1, FS_CardinalityType
    <3>5. count'[x] = saturating_add(k + 1, n - 1)
      <4>1. count[x] = saturating_add(k, n)
        BY <2>1, <2>2, <3>2 DEF TransfersMatch
      <4>2. k + n = (k + 1) + (n - 1)
        BY <2>1, <3>2
      <4> QED
        BY <1>4, <4>1, <4>2 DEF saturating_add
    <3>6. bytes'[x] = saturating_add(0, PageLength * (k + 1))
      <4>1. PICK m \in Nat : m = PageLength * k
        BY <1>1, <2>1
      <4>2. PageLength * (k + 1) = m + PageLength
        BY <1>1, <2>1, <4>1
      <4>3. bytes'[x] = saturating_add(bytes[x], PageLength) /\ bytes[x] = saturating_add(0, m)
        BY <1>2, <1>4, <2>1, <2>2, <4>1 DEF TransfersMatch
      <4> QED
        BY <1>1, <4>1, <4>2, <4>3 DEF saturating_add
    <3>7. TransfersMatch(x, k + 1)'
      BY <3>3, <3>5, <3>6 DEF TransfersMatch, saturating_add
    <3> QED
      BY <2>1, <2>2, <3>7
  <2>3. CASE y # x
    <3>1. Halfway(y)' = Halfway(y) /\ bytes'[y] = bytes[y]
      BY <1>2, <1>3, <1>4, <2>3 DEF Halfway, Transfers
    <3>2. TransfersMatch(y, k)'
      BY <1>4, <2>1, <3>1 DEF TransfersMatch
    <3> QED
      BY <3>2
  <2> QED
    BY <2>2, <2>3
<1> QED
  BY <1>4, <1>6, <1>7 DEF StatsInv, StatsTypeOK

(***************************************************************************)
(* Nobody inside the gate: the bytes are those of the transfers counted.   *)
(***************************************************************************)
LEMMA GateExact ==
    ASSUME StatsInv, GateFree, NEW x \in Transfers
    PROVE  bytes[x] = saturating_add(0, PageLength * count[x])
<1>1. PICK k \in Nat : TransfersMatch(x, k)
  BY DEF StatsInv
<1>2. Halfway(x) = {}
  BY DEF GateFree, Halfway, Transfers
<1>3. count[x] = saturating_add(k, 0)
  BY <1>1, <1>2, FS_EmptySet DEF TransfersMatch
<1>4. MaxCount \in Nat /\ PageLength \in Nat \ {0}
  BY StatsAssumption
<1>5. CASE k <= MaxCount
  <2>1. count[x] = k
    BY <1>3, <1>4, <1>5 DEF saturating_add
  <2> QED
    BY <1>1, <2>1 DEF TransfersMatch
<1>6. CASE k > MaxCount
  <2>1. count[x] = MaxCount
    BY <1>3, <1>4, <1>6 DEF saturating_add
  <2>2. \A n \in Nat : PageLength * n \in Nat /\ n <= PageLength * n
    <3> TAKE n \in Nat
    <3>1. 1 * n <= PageLength * n /\ PageLength * n \in Nat
      BY <1>4, Products
    <3> QED
      BY <3>1
  <2>3. PICK m \in Nat : m = PageLength * k /\ k <= m
    BY <1>1, <2>2
  <2>4. PICK n \in Nat : n = PageLength * MaxCount /\ MaxCount <= n
    BY <1>4, <2>2
  <2>5. bytes[x] = saturating_add(0, m)
    BY <1>1, <2>3 DEF TransfersMatch
  <2> QED
    BY <1>4, <1>6, <2>1, <2>3, <2>4, <2>5 DEF saturating_add
<1> QED
  BY <1>1, <1>4, <1>5, <1>6

-----------------------------------------------------------------------------
(* The benchmark: its types and its snapshots. *)

WorkerPlaces == {"ready", "start", "run", "fix", "reading", "count", "done", "failed"}
Sources == {"none", "dram_hit", "demand_hit"}
Drivers == {"ready", "publish", "start", "join", "phase_done", "report", "shutdown"}

WorkerState ==
    [pc : WorkerPlaces, kind : Kinds, source : Sources, operations : Nat, samples : Nat,
     ops : [Kinds -> Nat], dram_hits : [Kinds -> Nat], kind_samples : [Kinds -> Nat]]

BenchTypeOK ==
    /\ driver \in Drivers /\ phase \in {"Warmup", "Measurement"}
    /\ deadline \in {"none", "ahead", "passed"}
    /\ bench \in [BenchWorkers -> WorkerState]

\* A snapshot that is exact and that no counter fell behind.
Coherent(s) ==
    /\ s \in TierStats
    /\ \A x \in Transfers :
          /\ s.bytes[x] = saturating_add(0, PageLength * s.count[x])
          /\ s.bytes[x] <= bytes[x]
    /\ \A c \in Counters : s.count[c] <= count[c]

\* The second snapshot is taken once nothing is counted any more, but transfers.
SnapsOrdered ==
    /\ before = NoStats \/ Coherent(before)
    /\ after = NoStats \/ Coherent(after)
    /\ phase = "Measurement" => Coherent(before)
    /\ driver = "report" =>
          /\ phase = "Measurement"
          /\ Coherent(after)
          /\ \A c \in Events : after.count[c] = count[c]
          /\ \A c \in Counters : before.count[c] <= after.count[c]
          /\ \A x \in Transfers : before.bytes[x] <= after.bytes[x]

\* Every worker at the same place of a phase that counted nothing yet.
FreshIs(place) == bench = [w \in BenchWorkers |-> [Fresh EXCEPT !.pc = place]]

\* Where the workers are while the driver waits.
PhaseOrder ==
    /\ driver = "ready" => FreshIs("ready")
    /\ driver \in {"publish", "start"} => FreshIs("start")
    /\ driver = "join" => \A w \in BenchWorkers : bench[w].pc \notin {"ready", "start"}
    /\ driver \in {"phase_done", "report"} => All("done")

BenchFrame == BenchTypeOK /\ StatsInv /\ SnapsOrdered /\ PhaseOrder

\* A snapshot stays exact while counters grow.
LEMMA StaysCoherent ==
    ASSUME StatsInv, StatsInv', NEW s, Coherent(s),
           \A c \in Counters : count[c] <= count'[c], \A x \in Transfers : bytes[x] <= bytes'[x]
    PROVE  Coherent(s)'
<1>1. s.count \in [Counters -> 0 .. MaxCount] /\ s.bytes \in [Transfers -> 0 .. MaxCount]
  BY DEF Coherent, TierStats
<1>2. /\ count \in [Counters -> 0 .. MaxCount] /\ count' \in [Counters -> 0 .. MaxCount]
      /\ bytes \in [Transfers -> 0 .. MaxCount] /\ bytes' \in [Transfers -> 0 .. MaxCount]
  BY DEF StatsInv, StatsTypeOK
<1>3. \A c \in Counters : s.count[c] \in Nat /\ count[c] \in Nat /\ count'[c] \in Nat
  BY <1>1, <1>2, StatsAssumption
<1>4. \A x \in Transfers : s.bytes[x] \in Nat /\ bytes[x] \in Nat /\ bytes'[x] \in Nat
  BY <1>1, <1>2, StatsAssumption
<1>5. \A c \in Counters : s.count[c] <= count'[c]
  BY <1>3 DEF Coherent
<1>6. \A x \in Transfers : s.bytes[x] <= bytes'[x]
  BY <1>4 DEF Coherent
<1> QED
  BY <1>5, <1>6 DEF Coherent

\* A snapshot taken outside the gate is exact.
LEMMA SnapshotExact ==
    ASSUME StatsInv, GateFree
    PROVE  Coherent(snapshot)
<1>1. count \in [Counters -> 0 .. MaxCount] /\ bytes \in [Transfers -> 0 .. MaxCount]
  BY DEF StatsInv, StatsTypeOK
<1>2. snapshot \in TierStats /\ snapshot.count = count /\ snapshot.bytes = bytes
  BY <1>1 DEF snapshot, TierStats
<1>3. \A c \in Counters : count[c] <= count[c]
  BY <1>1, StatsAssumption
<1>4. \A x \in Transfers : bytes[x] <= bytes[x]
  BY <1>1, StatsAssumption
<1> QED
  BY <1>2, <1>3, <1>4, GateExact DEF Coherent

\* What a step does that takes no snapshot.
LEMMA SnapsStay ==
    ASSUME StatsInv, StatsInv', SnapsOrdered, UNCHANGED <<before, after, phase>>,
           \A c \in Counters : count[c] <= count'[c], \A x \in Transfers : bytes[x] <= bytes'[x],
           driver' = "report" => driver = "report" /\ \A c \in Events : count'[c] = count[c]
    PROVE  SnapsOrdered'
<1>1. Coherent(before) => Coherent(before)'
  <2> SUFFICES ASSUME Coherent(before) PROVE Coherent(before)'
    OBVIOUS
  <2>1. \A s : s = before => Coherent(s)'
    BY StaysCoherent
  <2> QED
    BY <2>1 DEF Coherent
<1>2. Coherent(after) => Coherent(after)'
  <2> SUFFICES ASSUME Coherent(after) PROVE Coherent(after)'
    OBVIOUS
  <2>1. \A s : s = after => Coherent(s)'
    BY StaysCoherent
  <2> QED
    BY <2>1 DEF Coherent
<1> QED
  BY <1>1, <1>2 DEF SnapsOrdered

\* Counters that do not move.
LEMMA StatsStay ==
    ASSUME StatsInv, UNCHANGED statsVars
    PROVE  /\ StatsInv'
           /\ \A c \in Counters : count[c] <= count'[c] /\ count'[c] = count[c]
           /\ \A x \in Transfers : bytes[x] <= bytes'[x]
<1>1. count \in [Counters -> 0 .. MaxCount] /\ bytes \in [Transfers -> 0 .. MaxCount]
  BY DEF StatsInv, StatsTypeOK
<1>2. \A c \in Counters : count[c] \in Nat
  BY <1>1, StatsAssumption
<1>3. \A x \in Transfers : bytes[x] \in Nat
  BY <1>1, StatsAssumption
<1>4. count' = count /\ bytes' = bytes /\ updating' = updating
  BY DEF statsVars
<1>5. StatsInv'
  BY <1>4 DEF StatsInv, StatsTypeOK, TransfersMatch, Halfway
<1> QED
  BY <1>2, <1>3, <1>4, <1>5

LEMMA FreshState ==
    /\ Fresh = [Fresh EXCEPT !.pc = "ready"]
    /\ \A place \in WorkerPlaces : [Fresh EXCEPT !.pc = place] \in WorkerState
BY DEF Fresh, WorkerState, WorkerPlaces, Sources, Kinds

\* A step of one worker, to a state of a worker of a running phase.
LEMMA OneWorker ==
    ASSUME BenchTypeOK, NEW w \in BenchWorkers, NEW new \in WorkerState,
           bench' = [bench EXCEPT ![w] = new]
    PROVE  /\ bench' \in [BenchWorkers -> WorkerState]
           /\ bench'[w] = new
           /\ \A v \in BenchWorkers \ {w} : bench'[v] = bench[v]
BY DEF BenchTypeOK

-----------------------------------------------------------------------------
(* What the workers of a phase have counted. *)

\* The hits of source c that a worker has had recorded in this phase.
DramHits(b) == b.dram_hits["point"] + b.dram_hits["scan"]
HitsIn(b, c) ==
    (IF c = "dram_hit" THEN DramHits(b) ELSE b.operations - DramHits(b))
    + (IF b.pc = "count" /\ b.source = c THEN 1 ELSE 0)
HitsOf(c) == [w \in BenchWorkers |-> HitsIn(bench[w], c)]

StartedIn(b) == b.operations + (IF b.pc \in {"fix", "reading", "count"} THEN 1 ELSE 0)
StartedOf == [w \in BenchWorkers |-> Started(w)]

\* The counts of a worker agree with each other, and what ran was sampled.
Counted(b) ==
    /\ b.ops["point"] + b.ops["scan"] = b.operations
    /\ \A k \in Kinds : b.dram_hits[k] <= b.ops[k]
    /\ b.pc = "count" => b.source # "none"
WasSampled(b) ==
    /\ b.operations > 0 => b.samples > 0
    /\ \A k \in Kinds : b.ops[k] > 0 => b.kind_samples[k] > 0
AllCounted == \A w \in BenchWorkers : Counted(bench[w])

\* What the manager had counted when the phase began.
Base(c) == IF phase = "Measurement" THEN before.count[c] ELSE 0

\* Unless a worker failed, the manager counted what the workers did.
BenchCounts ==
    /\ AllCounted
    /\ phase = "Measurement" => \A w \in BenchWorkers : WasSampled(bench[w])
    /\ SumFunction(StartedOf) <= MaxOps
    /\ (\A w \in BenchWorkers : bench[w].pc # "failed") =>
          \A c \in Events : count[c] = Base(c) + SumFunction(HitsOf(c))
    /\ phase = "Measurement" => Base("dram_hit") + Base("demand_hit") <= MaxOps

LEMMA BenchNumbers ==
    /\ IsFiniteSet(BenchWorkers) /\ BenchWorkers \subseteq Recorders
    /\ Prefetchers \subseteq Recorders
    /\ Events = {"dram_hit", "demand_hit"} /\ Events \subseteq Counters
    /\ MaxOps \in Nat /\ MaxCount \in Nat /\ 2 * MaxOps <= MaxCount
<1>1. IsFiniteSet(BenchWorkers)
  BY StatsAssumption, BenchAssumption, FS_Subset
<1> QED
  BY <1>1, StatsAssumption, BenchAssumption DEF Counters

\* A worker has been recorded at most once for each operation it started.
LEMMA HitsBelow ==
    ASSUME NEW b \in WorkerState, Counted(b)
    PROVE  /\ \A c \in Events : HitsIn(b, c) \in Nat
           /\ StartedIn(b) \in Nat
           /\ HitsIn(b, "dram_hit") + HitsIn(b, "demand_hit") <= StartedIn(b)
           /\ b.pc = "done" =>
                 HitsIn(b, "dram_hit") = DramHits(b)
                 /\ HitsIn(b, "dram_hit") + HitsIn(b, "demand_hit") = b.operations
<1>1. PICK o \in Nat, p \in Nat, s \in Nat, m \in Nat, n \in Nat :
         /\ o = b.operations /\ p = b.ops["point"] /\ s = b.ops["scan"]
         /\ m = b.dram_hits["point"] /\ n = b.dram_hits["scan"]
  BY DEF WorkerState, Kinds
<1>2. o = p + s /\ m <= p /\ n <= s
  BY <1>1 DEF Counted, Kinds
<1>3. DramHits(b) = m + n /\ m + n \in 0 .. o
  BY <1>1, <1>2 DEF DramHits
<1> QED
  BY <1>1, <1>3, BenchNumbers DEF HitsIn, StartedIn

HitsBounded ==
    /\ \A c \in Events : HitsOf(c) \in [BenchWorkers -> Nat] /\ SumFunction(HitsOf(c)) \in Nat
    /\ StartedOf \in [BenchWorkers -> Nat] /\ SumFunction(StartedOf) \in Nat
    /\ SumFunction(HitsOf("dram_hit")) + SumFunction(HitsOf("demand_hit")) <= SumFunction(StartedOf)

LEMMA HitsTotal ==
    ASSUME BenchTypeOK, AllCounted
    PROVE  HitsBounded
<1>1. \A w \in BenchWorkers : bench[w] \in WorkerState
  BY DEF BenchTypeOK
<1>2. \A w \in BenchWorkers : Started(w) = StartedIn(bench[w])
  BY DEF Started, StartedIn
<1>3. \A w \in BenchWorkers :
         /\ HitsIn(bench[w], "dram_hit") \in Nat /\ HitsIn(bench[w], "demand_hit") \in Nat
         /\ Started(w) \in Nat
         /\ HitsIn(bench[w], "dram_hit") + HitsIn(bench[w], "demand_hit") <= Started(w)
  BY <1>1, <1>2, HitsBelow, BenchNumbers DEF AllCounted
<1>4. /\ HitsOf("dram_hit") \in [BenchWorkers -> Nat] /\ HitsOf("demand_hit") \in [BenchWorkers -> Nat]
      /\ StartedOf \in [BenchWorkers -> Nat]
  BY <1>3 DEF HitsOf, StartedOf
<1> DEFINE both == [w \in BenchWorkers |-> HitsIn(bench[w], "dram_hit") + HitsIn(bench[w], "demand_hit")]
<1>5. both \in [BenchWorkers -> Nat] /\ \A w \in BenchWorkers : both[w] <= StartedOf[w]
  BY <1>3 DEF StartedOf
<1>6. \A w \in BenchWorkers : both[w] = HitsOf("dram_hit")[w] + HitsOf("demand_hit")[w]
  BY DEF HitsOf
<1> HIDE DEF both
<1>7. SumFunction(both) = SumFunction(HitsOf("dram_hit")) + SumFunction(HitsOf("demand_hit"))
  BY <1>4, <1>5, <1>6, BenchNumbers, SumAdds
<1>8. SumFunction(both) <= SumFunction(StartedOf)
  BY <1>4, <1>5, BenchNumbers, SumGrows
<1>9. /\ SumFunction(HitsOf("dram_hit")) \in Nat /\ SumFunction(HitsOf("demand_hit")) \in Nat
      /\ SumFunction(StartedOf) \in Nat
  BY <1>4, BenchNumbers, SumNat
<1> QED
  BY <1>4, <1>7, <1>8, <1>9, BenchNumbers DEF HitsBounded

(***************************************************************************)
(* One worker goes on: it starts no operation beyond the bound, and of the *)
(* hits recorded, if any, it accounts for each.                            *)
(***************************************************************************)
LEMMA WorkerMoves ==
    ASSUME BenchTypeOK, BenchTypeOK', StatsInv, BenchCounts,
           NEW w \in BenchWorkers, NEW new \in WorkerState,
           bench' = [bench EXCEPT ![w] = new], UNCHANGED <<phase, before>>,
           phase = "Measurement" => Coherent(before),
           Counted(new), phase = "Measurement" => WasSampled(new),
           bench[w].pc # "failed",
           \/ StartedIn(new) <= StartedIn(bench[w])
           \/ StartedIn(new) <= StartedIn(bench[w]) + 1 /\ SumFunction(StartedOf) < MaxOps,
           NEW d \in Events \cup {"none"},
           \A c \in Events : count'[c] = IF c = d THEN saturating_add(count[c], 1) ELSE count[c],
           \/ new.pc = "failed"
           \/ \A c \in Events : HitsIn(new, c) = HitsIn(bench[w], c) + (IF c = d THEN 1 ELSE 0)
    PROVE  BenchCounts'
<1>1. /\ bench'[w] = new
      /\ \A v \in BenchWorkers \ {w} : bench'[v] = bench[v]
      /\ bench[w] \in WorkerState
  BY OneWorker DEF BenchTypeOK
<1>2. AllCounted'
  BY <1>1 DEF BenchCounts, AllCounted, Counted
<1>3. (phase = "Measurement" => \A v \in BenchWorkers : WasSampled(bench[v]))'
  BY <1>1 DEF BenchCounts, WasSampled
<1>4. /\ \A c \in Events : HitsOf(c) \in [BenchWorkers -> Nat] /\ SumFunction(HitsOf(c)) \in Nat
      /\ StartedOf \in [BenchWorkers -> Nat] /\ SumFunction(StartedOf) \in Nat
  BY HitsTotal DEF BenchCounts, HitsBounded
<1>5. /\ \A c \in Events : HitsOf(c)' \in [BenchWorkers -> Nat] /\ SumFunction(HitsOf(c)') \in Nat
      /\ StartedOf' \in [BenchWorkers -> Nat] /\ SumFunction(StartedOf') \in Nat
      /\ SumFunction(HitsOf("dram_hit")') + SumFunction(HitsOf("demand_hit")') <= SumFunction(StartedOf')
  <2>1. HitsBounded'
    BY <1>2, HitsTotal, PTL
  <2> QED
    BY <2>1 DEF HitsBounded
<1>6. \A v \in BenchWorkers : StartedOf[v] = StartedIn(bench[v]) /\ StartedOf'[v] = StartedIn(bench'[v])
  BY DEF StartedOf, Started, StartedIn
<1>7. \A v \in BenchWorkers \ {w} : StartedOf'[v] = StartedOf[v]
  BY <1>1, <1>6
<1>8. SumFunction(StartedOf') + StartedOf[w] = SumFunction(StartedOf) + StartedOf'[w]
  BY <1>4, <1>5, <1>7, BenchNumbers, SumChanges
<1>9. SumFunction(StartedOf') <= MaxOps
  <2>1. StartedOf[w] = StartedIn(bench[w]) /\ StartedOf'[w] = StartedIn(new)
    BY <1>1, <1>6
  <2>2. StartedOf[w] \in Nat /\ StartedOf'[w] \in Nat
    BY <1>4, <1>5
  <2>3. SumFunction(StartedOf) <= MaxOps
    BY DEF BenchCounts
  <2> QED
    BY <1>4, <1>5, <1>8, <2>1, <2>2, <2>3, BenchNumbers
<1>10. \A c \in Events : Base(c)' = Base(c)
  BY DEF Base
<1>11. ASSUME \A v \in BenchWorkers : bench'[v].pc # "failed", NEW c \in Events
       PROVE  count'[c] = Base(c) + SumFunction(HitsOf(c)')
  <2>1. \A v \in BenchWorkers : bench[v].pc # "failed"
    BY <1>1, <1>11
  <2>2. count[c] = Base(c) + SumFunction(HitsOf(c))
    BY <2>1 DEF BenchCounts
  <2>3. \A v \in BenchWorkers : HitsOf(c)[v] = HitsIn(bench[v], c) /\ HitsOf(c)'[v] = HitsIn(bench'[v], c)
    BY DEF HitsOf, HitsIn, DramHits
  <2>4. \A v \in BenchWorkers \ {w} : HitsOf(c)'[v] = HitsOf(c)[v]
    BY <1>1, <2>3
  <2>5. SumFunction(HitsOf(c)') + HitsOf(c)[w] = SumFunction(HitsOf(c)) + HitsOf(c)'[w]
    BY <1>4, <1>5, <2>4, BenchNumbers, SumChanges
  <2>6. HitsOf(c)'[w] = HitsOf(c)[w] + (IF c = d THEN 1 ELSE 0)
    <3>1. new.pc # "failed"
      BY <1>1, <1>11
    <3> QED
      BY <1>1, <2>3, <3>1
  <2>7. HitsOf(c)[w] \in Nat /\ HitsOf(c)'[w] \in Nat
    BY <1>4, <1>5
  <2>8. SumFunction(HitsOf(c)') = SumFunction(HitsOf(c)) + (IF c = d THEN 1 ELSE 0)
    BY <1>4, <1>5, <2>5, <2>6, <2>7
  <2>9. Base(c) \in Nat /\ Base(c) <= MaxOps
    <3>1. CASE phase = "Measurement"
      <4>1. before.count \in [Counters -> 0 .. MaxCount]
        BY <3>1 DEF Coherent, TierStats
      <4>2. before.count["dram_hit"] \in Nat /\ before.count["demand_hit"] \in Nat
        BY <4>1, BenchNumbers
      <4>3. before.count["dram_hit"] + before.count["demand_hit"] <= MaxOps
        BY <3>1 DEF BenchCounts, Base
      <4> QED
        BY <3>1, <4>2, <4>3, BenchNumbers DEF Base
    <3>2. CASE phase # "Measurement"
      BY <3>2, BenchNumbers DEF Base
    <3> QED
      BY <3>1, <3>2
  <2>10. SumFunction(HitsOf(c)') <= MaxOps
    BY <1>5, <1>9, BenchNumbers
  <2>11. count[c] \in Nat
    BY <1>4, <2>2, <2>9
  <2>12. CASE c = d
    <3>1. SumFunction(HitsOf(c)') = SumFunction(HitsOf(c)) + 1
      BY <2>8, <2>12
    <3>2. count[c] + 1 <= MaxCount
      BY <1>4, <2>2, <2>9, <2>10, <3>1, BenchNumbers
    <3>3. count'[c] = count[c] + 1
      BY <2>11, <2>12, <3>2, BenchNumbers DEF saturating_add
    <3> QED
      BY <1>4, <2>2, <2>9, <3>1, <3>3
  <2>13. CASE c # d
    BY <1>4, <2>2, <2>8, <2>13
  <2> QED
    BY <2>12, <2>13
<1>12. ((\A v \in BenchWorkers : bench[v].pc # "failed") =>
           \A c \in Events : count[c] = Base(c) + SumFunction(HitsOf(c)))'
  BY <1>10, <1>11
<1>13. (phase = "Measurement" => Base("dram_hit") + Base("demand_hit") <= MaxOps)'
  BY <1>10, BenchNumbers DEF BenchCounts
<1> QED
  BY <1>2, <1>3, <1>9, <1>12, <1>13 DEF BenchCounts

\* Statistics, snapshots, phases and counts in order.
BenchInv == BenchFrame /\ BenchCounts

\* Workers that counted nothing.
NothingCounted(place) ==
    /\ bench \in [BenchWorkers -> WorkerState]
    /\ AllCounted
    /\ \A w \in BenchWorkers : WasSampled(bench[w]) /\ bench[w].pc = place
    /\ \A c \in Events : SumFunction(HitsOf(c)) = 0
    /\ SumFunction(StartedOf) = 0

LEMMA FreshCounts ==
    \A place \in {"ready", "start", "run"} : FreshIs(place) => NothingCounted(place)
<1> SUFFICES ASSUME NEW place \in {"ready", "start", "run"}, FreshIs(place)
             PROVE  NothingCounted(place)
  OBVIOUS
<1> DEFINE b == [Fresh EXCEPT !.pc = place]
<1>1. /\ b \in WorkerState /\ b.pc = place /\ b.operations = 0
      /\ \A k \in Kinds : b.ops[k] = 0 /\ b.dram_hits[k] = 0
  BY FreshState DEF Fresh, WorkerPlaces, Kinds
<1>2. \A w \in BenchWorkers : bench[w] = b
  BY DEF FreshIs
<1>3. bench \in [BenchWorkers -> WorkerState]
  BY <1>1 DEF FreshIs
<1> HIDE DEF b
<1>4. Counted(b) /\ WasSampled(b)
  BY <1>1 DEF Counted, WasSampled, Kinds
<1>5. \A c \in Events : HitsIn(b, c) = 0
  BY <1>1 DEF HitsIn, DramHits, Kinds
<1>6. StartedIn(b) = 0
  BY <1>1 DEF StartedIn
<1>7. ASSUME NEW c \in Events PROVE SumFunction(HitsOf(c)) = 0
  <2>1. HitsOf(c) \in [BenchWorkers -> Nat] /\ \A w \in BenchWorkers : HitsOf(c)[w] = 0
    BY <1>2, <1>5 DEF HitsOf
  <2> QED
    BY <2>1, BenchNumbers, SumZero
<1>8. SumFunction(StartedOf) = 0
  <2>1. StartedOf \in [BenchWorkers -> Nat] /\ \A w \in BenchWorkers : StartedOf[w] = 0
    BY <1>2, <1>6 DEF StartedOf, Started, StartedIn
  <2> QED
    BY <2>1, BenchNumbers, SumZero
<1> QED
  BY <1>1, <1>2, <1>3, <1>4, <1>7, <1>8 DEF AllCounted, NothingCounted

\* Steps that leave the workers and the hits alone.
LEMMA CountsStay ==
    ASSUME BenchCounts, UNCHANGED <<bench, phase, before>>, \A c \in Events : count'[c] = count[c]
    PROVE  BenchCounts'
BY DEF BenchCounts, AllCounted, Counted, WasSampled, StartedOf, Started, Base, HitsOf, HitsIn, DramHits

\* The workers pass a barrier together.
LEMMA CountsFresh ==
    ASSUME BenchCounts, UNCHANGED <<phase, before>>, \A c \in Events : count'[c] = count[c],
           NEW p \in {"ready", "start", "run"}, FreshIs(p), NEW q \in {"ready", "start", "run"}, FreshIs(q)'
    PROVE  BenchCounts'
<1>1. /\ \A w \in BenchWorkers : bench[w].pc # "failed"
      /\ \A c \in Events : SumFunction(HitsOf(c)) = 0
  <2>1. NothingCounted(p)
    BY FreshCounts
  <2> QED
    BY <2>1 DEF NothingCounted
<1>2. /\ AllCounted' /\ (\A w \in BenchWorkers : WasSampled(bench[w]))'
      /\ (\A c \in Events : SumFunction(HitsOf(c)) = 0)' /\ (SumFunction(StartedOf) = 0)'
  <2>1. (\A place \in {"ready", "start", "run"} : FreshIs(place) => NothingCounted(place))'
    BY FreshCounts, PTL
  <2>2. NothingCounted(q)'
    BY <2>1
  <2> QED
    BY <2>2 DEF NothingCounted
<1>3. \A c \in Events : count[c] = Base(c) + 0
  BY <1>1 DEF BenchCounts
<1>4. \A c \in Events : Base(c)' = Base(c) /\ (SumFunction(HitsOf(c)))' = 0
  BY <1>2 DEF Base
<1> QED
  BY <1>2, <1>3, <1>4, BenchNumbers DEF BenchCounts

LEMMA DriverStep ==
    ASSUME BenchInv, ReadyBarrier \/ PublishDeadline \/ StartBarrier \/ DeadlinePasses \/ JoinWorkers
           \/ ReportEnds
    PROVE  BenchInv'
<1>1. BenchTypeOK /\ StatsInv /\ SnapsOrdered /\ PhaseOrder /\ BenchCounts
  BY DEF BenchInv, BenchFrame
<1>2. UNCHANGED <<phase, transfers, before, after, statsVars>>
  BY DEF ReadyBarrier, PublishDeadline, StartBarrier, DeadlinePasses, JoinWorkers, ReportEnds, phaseVars
<1>3. /\ StatsInv' /\ \A c \in Counters : count[c] <= count'[c] /\ count'[c] = count[c]
      /\ \A x \in Transfers : bytes[x] <= bytes'[x]
  BY <1>1, <1>2, StatsStay
<1>4. driver' = "report" => driver = "report"
  BY DEF ReadyBarrier, PublishDeadline, StartBarrier, DeadlinePasses, JoinWorkers, ReportEnds
<1>5. SnapsOrdered'
  BY <1>1, <1>2, <1>3, <1>4, SnapsStay, BenchNumbers
<1>6. \A c \in Events : count'[c] = count[c]
  BY <1>3, BenchNumbers
<1>7. CASE ReadyBarrier
  <2>1. FreshIs("ready") /\ FreshIs("start")'
    BY <1>1, <1>7 DEF ReadyBarrier, PhaseOrder, FreshIs, AllGo, Fresh
  <2>2. BenchCounts'
    BY <1>1, <1>2, <1>6, <2>1, CountsFresh
  <2>3. bench' \in [BenchWorkers -> WorkerState]
    BY <2>1, FreshState DEF FreshIs, WorkerPlaces
  <2> QED
    BY <1>1, <1>2, <1>3, <1>5, <1>7, <2>1, <2>2, <2>3
    DEF ReadyBarrier, BenchInv, BenchFrame, BenchTypeOK, PhaseOrder, Drivers
<1>8. CASE StartBarrier
  <2>1. FreshIs("start") /\ FreshIs("run")'
    BY <1>1, <1>8 DEF StartBarrier, PhaseOrder, FreshIs, AllGo, Fresh
  <2>2. BenchCounts'
    BY <1>1, <1>2, <1>6, <2>1, CountsFresh
  <2>3. bench' \in [BenchWorkers -> WorkerState] /\ \A w \in BenchWorkers : bench'[w].pc = "run"
    BY <2>1, FreshState DEF FreshIs, WorkerPlaces, Fresh
  <2> QED
    BY <1>1, <1>2, <1>3, <1>5, <1>8, <2>1, <2>2, <2>3
    DEF StartBarrier, BenchInv, BenchFrame, BenchTypeOK, PhaseOrder, Drivers
<1>9. CASE UNCHANGED bench /\ (PublishDeadline \/ DeadlinePasses \/ JoinWorkers \/ ReportEnds)
  <2>1. BenchCounts'
    BY <1>1, <1>2, <1>6, <1>9, CountsStay
  <2>2. /\ FreshIs("ready")' <=> FreshIs("ready")
        /\ FreshIs("start")' <=> FreshIs("start")
        /\ All("done")' <=> All("done")
    BY <1>9 DEF FreshIs, All
  <2>3. ASSUME PublishDeadline PROVE PhaseOrder' /\ BenchTypeOK'
    BY <1>1, <1>2, <1>9, <2>2, <2>3 DEF BenchTypeOK, PhaseOrder, Drivers, PublishDeadline
  <2>4. ASSUME DeadlinePasses PROVE PhaseOrder' /\ BenchTypeOK'
    BY <1>1, <1>2, <1>9, <2>2, <2>4 DEF BenchTypeOK, PhaseOrder, Drivers, DeadlinePasses
  <2>5. ASSUME JoinWorkers PROVE PhaseOrder' /\ BenchTypeOK'
    BY <1>1, <1>2, <1>9, <2>2, <2>5 DEF BenchTypeOK, PhaseOrder, Drivers, JoinWorkers
  <2>6. ASSUME ReportEnds PROVE PhaseOrder' /\ BenchTypeOK'
    BY <1>1, <1>2, <1>9, <2>2, <2>6 DEF BenchTypeOK, PhaseOrder, Drivers, ReportEnds
  <2>7. PhaseOrder' /\ BenchTypeOK'
    BY <1>9, <2>3, <2>4, <2>5, <2>6
  <2> QED
    BY <1>3, <1>5, <2>1, <2>7 DEF BenchInv, BenchFrame
<1> QED
  BY <1>7, <1>8, <1>9 DEF PublishDeadline, DeadlinePasses, JoinWorkers, ReportEnds

\* The manager records a hit of source d, or none.
Records(d) ==
    \A c \in Events : count'[c] = IF c = d THEN saturating_add(count[c], 1) ELSE count[c]

\* A worker that goes on from old as new has seen that hit.
Sees(old, new, d) ==
    \/ new.pc = "failed"
    \/ \A c \in Events : HitsIn(new, c) = HitsIn(old, c) + (IF c = d THEN 1 ELSE 0)

\* It starts an operation only below the bound.
StartsBelow(old, new) ==
    \/ StartedIn(new) <= StartedIn(old)
    \/ StartedIn(new) <= StartedIn(old) + 1 /\ SumFunction(StartedOf) < MaxOps

(***************************************************************************)
(* A worker of a running phase goes on, and leaves everything in order.    *)
(***************************************************************************)
LEMMA WorkerStep ==
    ASSUME BenchInv, NEW w \in BenchWorkers, NEW new \in WorkerState,
           bench' = [bench EXCEPT ![w] = new],
           UNCHANGED <<driver, phase, deadline, before, after>>,
           StatsInv', \A c \in Counters : count[c] <= count'[c],
           \A x \in Transfers : bytes[x] <= bytes'[x],
           bench[w].pc \in {"run", "fix", "reading", "count"}, new.pc \notin {"ready", "start"},
           Counted(new), phase = "Measurement" => WasSampled(new),
           StartsBelow(bench[w], new),
           NEW d \in Events \cup {"none"}, Records(d), Sees(bench[w], new, d)
    PROVE  BenchInv'
<1>1. BenchTypeOK /\ StatsInv /\ SnapsOrdered /\ PhaseOrder /\ BenchCounts
  BY DEF BenchInv, BenchFrame
<1>2. /\ bench' \in [BenchWorkers -> WorkerState] /\ bench'[w] = new
      /\ \A v \in BenchWorkers \ {w} : bench'[v] = bench[v]
  BY <1>1, OneWorker
<1>3. BenchTypeOK'
  BY <1>1, <1>2 DEF BenchTypeOK
<1>4. driver \in {"join", "shutdown"}
  <2>1. ~FreshIs("ready") /\ ~FreshIs("start") /\ ~All("done")
    BY DEF FreshIs, All, Fresh
  <2> QED
    BY <1>1, <2>1 DEF PhaseOrder, BenchTypeOK, Drivers
<1>5. PhaseOrder'
  BY <1>1, <1>2, <1>4 DEF PhaseOrder
<1>6. SnapsOrdered'
  BY <1>1, <1>4, SnapsStay
<1>7. phase = "Measurement" => Coherent(before)
  BY <1>1 DEF SnapsOrdered
<1>8. bench[w].pc # "failed"
  OBVIOUS
<1>9. BenchCounts'
  BY <1>1, <1>3, <1>7, <1>8, WorkerMoves DEF Records, Sees, StartsBelow
<1> QED
  BY <1>3, <1>5, <1>6, <1>9 DEF BenchInv, BenchFrame

\* What a worker's step can take for granted.
LEMMA WorkerIs ==
    ASSUME BenchInv, NEW w \in BenchWorkers
    PROVE  /\ bench[w] \in WorkerState /\ Counted(bench[w])
           /\ phase = "Measurement" => WasSampled(bench[w])
           /\ StatsInv /\ BenchTypeOK
BY DEF BenchInv, BenchFrame, BenchTypeOK, BenchCounts, AllCounted

\* A worker with another place, source and kind.
Moved(b, pc, source, k) == [b EXCEPT !.pc = pc, !.source = source, !.kind = k]

\* Its place, its source and its kind are no part of its counts.
LEMMA MovedCounts ==
    ASSUME NEW b \in WorkerState, NEW pc \in WorkerPlaces, NEW source \in Sources, NEW k \in Kinds,
           pc = "count" => source # "none"
    PROVE  /\ Moved(b, pc, source, k) \in WorkerState
           /\ Moved(b, pc, source, k).pc = pc /\ Moved(b, pc, source, k).source = source
           /\ Counted(b) => Counted(Moved(b, pc, source, k))
           /\ WasSampled(b) => WasSampled(Moved(b, pc, source, k))
           /\ DramHits(Moved(b, pc, source, k)) = DramHits(b)
           /\ Moved(b, pc, source, k).operations = b.operations
<1>1. PICK new : new = Moved(b, pc, source, k)
  OBVIOUS
<1>2. /\ new \in WorkerState /\ new.pc = pc /\ new.source = source
      /\ new.operations = b.operations /\ new.samples = b.samples /\ new.ops = b.ops
      /\ new.dram_hits = b.dram_hits /\ new.kind_samples = b.kind_samples
  BY <1>1 DEF WorkerState, Moved
<1>3. Counted(b) => Counted(new)
  BY <1>2 DEF Counted
<1>4. WasSampled(b) => WasSampled(new)
  BY <1>2 DEF WasSampled
<1>5. DramHits(new) = DramHits(b)
  BY <1>2 DEF DramHits
<1> QED
  BY <1>1, <1>2, <1>3, <1>4, <1>5

(***************************************************************************)
(* A worker moves on without a hit and without counting.                   *)
(***************************************************************************)
LEMMA WorkerGoes ==
    ASSUME BenchInv, NEW w \in BenchWorkers, NEW pc \in {"run", "fix", "reading", "done", "failed"},
           NEW source \in Sources, NEW k \in Kinds,
           bench' = [bench EXCEPT ![w] = Moved(bench[w], pc, source, k)],
           UNCHANGED <<driver, phase, deadline, before, after>>,
           StatsInv', \A c \in Counters : count[c] <= count'[c],
           \A x \in Transfers : bytes[x] <= bytes'[x], \A c \in Events : count'[c] = count[c],
           \/ bench[w].pc \in {"run", "fix", "reading"}
           \/ bench[w].pc = "count" /\ pc = "failed",
           bench[w].pc = "run" /\ pc # "done" => SumFunction(StartedOf) < MaxOps
    PROVE  BenchInv'
<1>1. PICK b : b = bench[w]
  OBVIOUS
<1>2. PICK new : new = Moved(b, pc, source, k)
  OBVIOUS
<1>3. b \in WorkerState /\ Counted(b) /\ (phase = "Measurement" => WasSampled(b))
  BY <1>1, WorkerIs
<1>4. /\ new \in WorkerState /\ new.pc = pc /\ Counted(new)
      /\ WasSampled(b) => WasSampled(new)
      /\ DramHits(new) = DramHits(b) /\ new.operations = b.operations
  <2>1. pc \in WorkerPlaces /\ (pc = "count" => source # "none")
    BY DEF WorkerPlaces
  <2> QED
    BY <1>2, <1>3, <2>1, MovedCounts
<1>5. /\ \/ b.pc \in {"run", "fix", "reading"}
         \/ b.pc = "count" /\ pc = "failed"
      /\ b.pc = "run" /\ pc # "done" => SumFunction(StartedOf) < MaxOps
  BY <1>1
<1>6. \A c \in Events : HitsIn(b, c) \in Nat
  BY <1>3, HitsBelow
<1>7. new.pc = "failed" \/ \A c \in Events : HitsIn(new, c) = HitsIn(b, c)
  BY <1>4, <1>5 DEF HitsIn
<1>8. StartedIn(b) \in Nat /\ b.operations \in Nat
  BY <1>3, HitsBelow DEF WorkerState
<1>9. StartsBelow(b, new)
  BY <1>4, <1>5, <1>8 DEF StartedIn, StartsBelow
<1>10. Sees(b, new, "none") /\ Records("none")
  BY <1>6, <1>7, BenchNumbers DEF Sees, Records
<1> QED
  BY <1>1, <1>2, <1>3, <1>4, <1>5, <1>9, <1>10, WorkerStep

\* A worker that changes its place only.
LEMMA PlaceForms ==
    ASSUME BenchTypeOK, NEW w \in BenchWorkers, NEW pc
    PROVE  [bench EXCEPT ![w].pc = pc] =
              [bench EXCEPT ![w] = Moved(bench[w], pc, bench[w].source, bench[w].kind)]
BY DEF BenchTypeOK, WorkerState, Moved

LEMMA RunsAlone ==
    ASSUME BenchInv, NEW w \in BenchWorkers,
           \/ OperationStarts(w) \/ WorkerEnds(w) \/ FixReads(w) \/ FixRead(w)
           \/ FixRetried(w) \/ FixFails(w)
    PROVE  BenchInv'
<1>1. /\ bench[w] \in WorkerState /\ StatsInv /\ BenchTypeOK
      /\ bench[w].pc \in WorkerPlaces /\ bench[w].source \in Sources /\ bench[w].kind \in Kinds
  BY WorkerIs DEF WorkerState
<1>2. w \in Recorders
  BY BenchNumbers
<1>3. UNCHANGED statsVars =>
         /\ StatsInv' /\ \A c \in Counters : count[c] <= count'[c] /\ count'[c] = count[c]
         /\ \A x \in Transfers : bytes[x] <= bytes'[x]
         /\ \A c \in Events : count'[c] = count[c]
  BY <1>1, StatsStay, BenchNumbers
<1>4. CASE OperationStarts(w)
  <2>1. PICK k \in Kinds : bench' = [bench EXCEPT ![w].pc = "fix", ![w].kind = k]
    BY <1>4 DEF OperationStarts
  <2>2. bench' = [bench EXCEPT ![w] = Moved(bench[w], "fix", bench[w].source, k)]
    BY <1>1, <2>1 DEF BenchTypeOK, WorkerState, Moved
  <2>3. UNCHANGED <<driver, phase, deadline, before, after, statsVars>> /\ bench[w].pc = "run"
        /\ SumFunction(StartedOf) < MaxOps
    BY <1>4 DEF OperationStarts, phaseVars, StartedOf
  <2> QED
    BY <1>1, <1>3, <2>2, <2>3, WorkerGoes
<1>5. CASE WorkerEnds(w)
  <2>1. bench' = [bench EXCEPT ![w] = Moved(bench[w], "done", bench[w].source, bench[w].kind)]
    BY <1>1, <1>5, PlaceForms DEF WorkerEnds, Goes
  <2>2. UNCHANGED <<driver, phase, deadline, before, after, statsVars>> /\ bench[w].pc = "run"
    BY <1>5 DEF WorkerEnds, phaseVars
  <2> QED
    BY <1>1, <1>3, <2>1, <2>2, WorkerGoes
<1>6. CASE FixReads(w)
  <2>1. bench' = [bench EXCEPT ![w] = Moved(bench[w], "reading", bench[w].source, bench[w].kind)]
    BY <1>1, <1>6, PlaceForms DEF FixReads, Goes
  <2>2. UNCHANGED <<driver, phase, deadline, before, after, bytes>> /\ bench[w].pc = "fix"
        /\ RecordTransfer(w, "read")
    BY <1>6 DEF FixReads, RecordTransfer
  <2>3. StatsInv' /\ \A c \in Counters : count[c] <= count'[c]
    BY <1>1, <1>2, <2>2, TransferKeeps DEF Transfers
  <2>4. \A x \in Transfers : bytes[x] <= bytes'[x]
    BY <1>1, <2>2, StatsAssumption DEF StatsInv, StatsTypeOK
  <2>5. \A c \in Events : count'[c] = count[c]
    BY <1>1, <2>2, BenchNumbers DEF RecordTransfer, StatsInv, StatsTypeOK
  <2> QED
    BY <1>1, <2>1, <2>2, <2>3, <2>4, <2>5, WorkerGoes
<1>7. CASE FixRead(w)
  <2>1. bench' = [bench EXCEPT ![w] = Moved(bench[w], "fix", "demand_hit", bench[w].kind)]
    <3>1. bench' = [bench EXCEPT ![w].pc = "fix", ![w].source = "demand_hit"]
      BY <1>7 DEF FixRead
    <3> QED
      BY <1>1, <3>1 DEF BenchTypeOK, WorkerState, Moved
  <2>2. UNCHANGED <<driver, phase, deadline, before, after, count>> /\ bench[w].pc = "reading"
        /\ RecordBytes(w)
    BY <1>7 DEF FixRead, RecordBytes, phaseVars
  <2>3. StatsInv' /\ \A x \in Transfers : bytes[x] <= bytes'[x]
    BY <1>1, <1>2, <2>2, BytesKeep
  <2>4. \A c \in Counters : count[c] <= count'[c]
    BY <1>1, <2>2, StatsAssumption DEF StatsInv, StatsTypeOK
  <2>5. \A c \in Events : count'[c] = count[c]
    BY <2>2
  <2>6. "demand_hit" \in Sources
    BY DEF Sources
  <2> QED
    BY <1>1, <2>1, <2>2, <2>3, <2>4, <2>5, <2>6, WorkerGoes
<1>8. CASE FixRetried(w)
  <2>1. bench' = [bench EXCEPT ![w] = Moved(bench[w], "fix", "none", bench[w].kind)]
    <3>1. bench' = [bench EXCEPT ![w].source = "none"] /\ bench[w].pc = "fix"
      BY <1>8 DEF FixRetried
    <3> QED
      BY <1>1, <3>1 DEF BenchTypeOK, WorkerState, Moved
  <2>2. UNCHANGED <<driver, phase, deadline, before, after, statsVars>> /\ bench[w].pc = "fix"
    BY <1>8 DEF FixRetried, phaseVars
  <2>3. "none" \in Sources
    BY DEF Sources
  <2> QED
    BY <1>1, <1>3, <2>1, <2>2, <2>3, WorkerGoes
<1>9. CASE FixFails(w)
  <2>1. bench' = [bench EXCEPT ![w] = Moved(bench[w], "failed", "none", "point")]
    BY <1>1, <1>9 DEF FixFails, Leaves, Moved, BenchTypeOK, WorkerState
  <2>2. UNCHANGED <<driver, phase, deadline, before, after, statsVars>>
        /\ bench[w].pc \in {"fix", "count"}
    BY <1>9 DEF FixFails, phaseVars
  <2>3. "none" \in Sources /\ "point" \in Kinds
    BY DEF Sources, Kinds
  <2> QED
    BY <1>1, <1>3, <2>1, <2>2, <2>3, WorkerGoes
<1> QED
  BY <1>4, <1>5, <1>6, <1>7, <1>8, <1>9

\* A fix that succeeds is one hit, counted by the manager and, next, by the worker.
LEMMA SucceedsKeeps ==
    ASSUME BenchInv, NEW w \in BenchWorkers, FixSucceeds(w)
    PROVE  BenchInv'
<1>1. PICK b : b = bench[w]
  OBVIOUS
<1>2. /\ b \in WorkerState /\ Counted(b) /\ (phase = "Measurement" => WasSampled(b))
      /\ StatsInv /\ BenchTypeOK
  BY <1>1, WorkerIs
<1>3. /\ UNCHANGED <<driver, phase, deadline, before, after, bytes>> /\ b.pc = "fix"
      /\ b.kind \in Kinds
  BY <1>1, <1>2 DEF FixSucceeds, phaseVars, RecordEvent, WorkerState
<1>4. PICK source \in Events :
         /\ RecordEvent(source)
         /\ bench' = [bench EXCEPT ![w].pc = "count", ![w].source = source]
  BY DEF FixSucceeds
<1>5. PICK new : new = Moved(b, "count", source, b.kind)
  OBVIOUS
<1>6. bench' = [bench EXCEPT ![w] = new]
  BY <1>1, <1>2, <1>4, <1>5 DEF BenchTypeOK, WorkerState, Moved
<1>7. source \in Sources /\ source # "none" /\ "count" \in WorkerPlaces
  BY BenchNumbers DEF Sources, WorkerPlaces
<1>8. /\ new \in WorkerState /\ new.pc = "count" /\ new.source = source /\ Counted(new)
      /\ WasSampled(b) => WasSampled(new)
      /\ DramHits(new) = DramHits(b) /\ new.operations = b.operations
  BY <1>2, <1>3, <1>5, <1>7, MovedCounts
<1>9. StatsInv' /\ \A c \in Counters : count[c] <= count'[c]
  BY <1>2, <1>4, EventKeeps
<1>10. \A x \in Transfers : bytes[x] <= bytes'[x]
  BY <1>2, <1>3, StatsAssumption DEF StatsInv, StatsTypeOK
<1>11. Records(source)
  BY <1>2, <1>4, BenchNumbers DEF RecordEvent, Records, StatsInv, StatsTypeOK
<1>12. Sees(b, new, source)
  <2>1. DramHits(b) \in Nat /\ b.operations \in Nat
    BY <1>2 DEF DramHits, WorkerState, Kinds
  <2> QED
    BY <1>3, <1>8, <2>1 DEF HitsIn, Sees
<1>13. StartsBelow(b, new)
  BY <1>2, <1>3, <1>8 DEF StartsBelow, StartedIn, WorkerState
<1> QED
  BY <1>1, <1>2, <1>3, <1>6, <1>8, <1>9, <1>10, <1>11, <1>12, <1>13, WorkerStep

\* The first operation is sampled.
LEMMA SampledIs ==
    ASSUME NEW n \in Nat, NEW ops \in Nat
    PROVE  /\ Sampled(n, ops) \in Nat
           /\ phase = "Measurement" /\ (ops > 0 => n > 0) => Sampled(n, ops) > 0
<1>1. SampleEvery \in Nat \ {0} /\ SampleCapacity \in Nat \ {0}
  BY BenchAssumption
<1>2. 0 % SampleEvery = 0
  BY <1>1
<1> QED
  BY <1>1, <1>2 DEF Sampled

LEMMA CountsOne ==
    ASSUME NEW b \in WorkerState, Counted(b), b.pc = "count",
           phase = "Measurement" => WasSampled(b)
    PROVE  /\ CountedOp(b) \in WorkerState /\ CountedOp(b).pc = "run" /\ Counted(CountedOp(b))
           /\ phase = "Measurement" => WasSampled(CountedOp(b))
           /\ \A c \in Events : HitsIn(CountedOp(b), c) = HitsIn(b, c)
           /\ StartedIn(CountedOp(b)) = StartedIn(b)
<1>1. PICK new : new = CountedOp(b)
  OBVIOUS
<1>2. PICK k \in Kinds : k = b.kind
  BY DEF WorkerState
<1>3. PICK o \in Nat, s \in Nat, p \in Nat, q \in Nat, h \in Nat :
         /\ o = b.operations /\ s = b.samples
         /\ p = b.ops[k] /\ q = b.kind_samples[k] /\ h = b.dram_hits[k]
  BY DEF WorkerState
<1>4. Sampled(s, o) \in Nat /\ Sampled(q, p) \in Nat
  BY SampledIs
<1>5. PICK g \in Nat : g = IF b.source = "dram_hit" THEN h + 1 ELSE h
  OBVIOUS
<1>6. /\ new.pc = "run" /\ new.source = "none"
      /\ new.operations = o + 1 /\ new.samples = Sampled(s, o)
      /\ new.ops = [b.ops EXCEPT ![k] = p + 1]
      /\ new.kind_samples = [b.kind_samples EXCEPT ![k] = Sampled(q, p)]
      /\ new.dram_hits = [b.dram_hits EXCEPT ![k] = g]
      /\ new \in [pc : {"run"}, kind : Kinds, source : {"none"}, operations : Nat, samples : Nat,
                  ops : [Kinds -> Nat], dram_hits : [Kinds -> Nat], kind_samples : [Kinds -> Nat]]
  <2>1. PICK S, Q : S = Sampled(s, o) /\ Q = Sampled(q, p)
    OBVIOUS
  <2>2. S \in Nat /\ Q \in Nat
    BY <1>4, <2>1
  <2>3. new = [b EXCEPT !.pc = "run", !.kind = "point", !.source = "none", !.samples = S,
                        !.kind_samples = [b.kind_samples EXCEPT ![k] = Q],
                        !.operations = o + 1,
                        !.ops = [b.ops EXCEPT ![k] = p + 1],
                        !.dram_hits = [b.dram_hits EXCEPT ![k] = g]]
    BY <1>1, <1>2, <1>3, <1>5, <2>1 DEF CountedOp, Leaves, WorkerState
  <2>4. /\ [b.ops EXCEPT ![k] = p + 1] \in [Kinds -> Nat]
        /\ [b.kind_samples EXCEPT ![k] = Q] \in [Kinds -> Nat]
        /\ [b.dram_hits EXCEPT ![k] = g] \in [Kinds -> Nat]
    BY <1>2, <1>3, <1>5, <2>2 DEF WorkerState
  <2> QED
    <3>1. PICK A, B, C : /\ A = [b.ops EXCEPT ![k] = p + 1]
                         /\ B = [b.kind_samples EXCEPT ![k] = Q]
                         /\ C = [b.dram_hits EXCEPT ![k] = g]
      OBVIOUS
    <3>2. A \in [Kinds -> Nat] /\ B \in [Kinds -> Nat] /\ C \in [Kinds -> Nat]
      BY <2>4, <3>1
    <3>3. new = [b EXCEPT !.pc = "run", !.kind = "point", !.source = "none", !.samples = S,
                          !.kind_samples = B, !.operations = o + 1, !.ops = A, !.dram_hits = C]
      BY <2>3, <3>1
    <3>4. /\ new.pc = "run" /\ new.source = "none"
          /\ new.operations = o + 1 /\ new.samples = S
          /\ new.ops = A /\ new.kind_samples = B /\ new.dram_hits = C
      BY <1>2, <3>3 DEF WorkerState
    <3>5. new \in [pc : {"run"}, kind : Kinds, source : {"none"}, operations : Nat, samples : Nat,
                   ops : [Kinds -> Nat], dram_hits : [Kinds -> Nat], kind_samples : [Kinds -> Nat]]
      <4>1. new = [pc |-> "run", kind |-> "point", source |-> "none", operations |-> o + 1, samples |-> S,
                   ops |-> A, dram_hits |-> C, kind_samples |-> B]
        BY <3>3 DEF WorkerState
      <4> QED
        BY <2>2, <3>2, <4>1 DEF Kinds
    <3> QED
      BY <2>1, <3>1, <3>4, <3>5
<1>7. new \in WorkerState
  BY <1>6 DEF WorkerState, WorkerPlaces, Sources
<1>8. PICK other \in Kinds : other # k /\ Kinds = {k, other}
  BY DEF Kinds
<1>9. PICK p2 \in Nat, h2 \in Nat, q2 \in Nat :
         p2 = b.ops[other] /\ h2 = b.dram_hits[other] /\ q2 = b.kind_samples[other]
  BY <1>8 DEF WorkerState
<1>10. /\ new.ops[k] = p + 1 /\ new.ops[other] = p2
       /\ new.dram_hits[k] = g /\ new.dram_hits[other] = h2
       /\ new.kind_samples[k] = Sampled(q, p) /\ new.kind_samples[other] = q2
  BY <1>2, <1>6, <1>8, <1>9 DEF WorkerState
<1>11. p + p2 = o /\ h <= p /\ h2 <= p2 /\ b.source \in Events
  <2>1. b.ops["point"] + b.ops["scan"] = p + p2
    BY <1>3, <1>8, <1>9 DEF Kinds
  <2>2. b.source \in Events
    BY BenchNumbers DEF Counted, WorkerState, Sources
  <2> QED
    BY <1>3, <1>8, <1>9, <2>1, <2>2 DEF Counted
<1>12. Counted(new)
  <2>1. new.ops["point"] + new.ops["scan"] = (p + 1) + p2
    BY <1>8, <1>10 DEF Kinds
  <2> QED
    BY <1>5, <1>6, <1>8, <1>10, <1>11, <2>1 DEF Counted
<1>13. phase = "Measurement" => WasSampled(new)
  <2> SUFFICES ASSUME phase = "Measurement" PROVE WasSampled(new)
    OBVIOUS
  <2>1. (o > 0 => s > 0) /\ (p > 0 => q > 0) /\ (p2 > 0 => q2 > 0)
    BY <1>3, <1>8, <1>9 DEF WasSampled
  <2>2. Sampled(s, o) > 0 /\ Sampled(q, p) > 0
    BY <2>1, SampledIs
  <2> QED
    BY <1>6, <1>8, <1>10, <2>1, <2>2 DEF WasSampled
<1>14. DramHits(b) = h + h2 /\ DramHits(new) = g + h2
  BY <1>3, <1>8, <1>9, <1>10 DEF DramHits, Kinds
<1>15. \A c \in Events : HitsIn(new, c) = HitsIn(b, c)
  BY <1>3, <1>5, <1>6, <1>11, <1>14, BenchNumbers DEF HitsIn
<1>16. StartedIn(new) = StartedIn(b)
  BY <1>3, <1>6 DEF StartedIn
<1> QED
  BY <1>1, <1>6, <1>7, <1>12, <1>13, <1>15, <1>16

LEMMA CountKeeps ==
    ASSUME BenchInv, NEW w \in BenchWorkers, CountOperation(w)
    PROVE  BenchInv'
<1>1. PICK b : b = bench[w]
  OBVIOUS
<1>2. /\ b \in WorkerState /\ Counted(b) /\ (phase = "Measurement" => WasSampled(b))
      /\ StatsInv /\ BenchTypeOK
  BY <1>1, WorkerIs
<1>3. UNCHANGED <<driver, phase, deadline, before, after, statsVars>> /\ b.pc = "count"
  BY <1>1 DEF CountOperation, phaseVars
<1>4. PICK new : new = CountedOp(b)
  OBVIOUS
<1>5. bench' = [bench EXCEPT ![w] = new]
  BY <1>1, <1>4 DEF CountOperation
<1>6. /\ new \in WorkerState /\ new.pc = "run" /\ Counted(new)
      /\ phase = "Measurement" => WasSampled(new)
      /\ \A c \in Events : HitsIn(new, c) = HitsIn(b, c)
      /\ StartedIn(new) = StartedIn(b)
  BY <1>2, <1>3, <1>4, CountsOne
<1>7. /\ StatsInv' /\ \A c \in Counters : count[c] <= count'[c] /\ count'[c] = count[c]
      /\ \A x \in Transfers : bytes[x] <= bytes'[x]
  BY <1>2, <1>3, StatsStay
<1>8. /\ \A c \in Events : HitsIn(b, c) \in Nat
      /\ StartedIn(b) \in Nat
  BY <1>2, HitsBelow
<1>9. Records("none") /\ Sees(b, new, "none") /\ StartsBelow(b, new)
  BY <1>6, <1>7, <1>8, BenchNumbers DEF Records, Sees, StartsBelow
<1> QED
  BY <1>1, <1>3, <1>5, <1>6, <1>7, <1>9, WorkerStep

\* The transfers of the prefetchers are no hits.
LEMMA PrefetcherKeeps ==
    ASSUME BenchInv, NEW r \in Prefetchers, PrefetcherTransfers(r) \/ PrefetcherBytes(r)
    PROVE  BenchInv'
<1>1. BenchTypeOK /\ StatsInv /\ SnapsOrdered /\ PhaseOrder /\ BenchCounts
  BY DEF BenchInv, BenchFrame
<1>2. r \in Recorders
  BY BenchNumbers
<1>3. UNCHANGED <<phase, before, after, driver, deadline, bench>>
  BY DEF PrefetcherTransfers, PrefetcherBytes, phaseVars
<1>4. /\ count \in [Counters -> 0 .. MaxCount] /\ bytes \in [Transfers -> 0 .. MaxCount]
      /\ MaxCount \in Nat /\ Events \cap Transfers = {} /\ Events \subseteq Counters
  BY <1>1, StatsAssumption, BenchNumbers DEF StatsInv, StatsTypeOK
<1>5. /\ StatsInv' /\ \A c \in Counters : count[c] <= count'[c]
      /\ \A x \in Transfers : bytes[x] <= bytes'[x]
      /\ \A c \in Events : count'[c] = count[c]
  <2>1. CASE PrefetcherTransfers(r)
    <3>1. PICK x \in Transfers : RecordTransfer(r, x)
      BY <2>1 DEF PrefetcherTransfers
    <3>2. StatsInv' /\ \A c \in Counters : count[c] <= count'[c]
      BY <1>1, <1>2, <3>1, TransferKeeps
    <3>3. UNCHANGED bytes /\ count' = [count EXCEPT ![x] = saturating_add(count[x], 1)]
      BY <3>1 DEF RecordTransfer
    <3>4. \A c \in Events : count'[c] = count[c]
      BY <1>4, <3>3
    <3>5. \A y \in Transfers : bytes[y] <= bytes'[y]
      BY <1>4, <3>3
    <3> QED
      BY <3>2, <3>4, <3>5
  <2>2. CASE PrefetcherBytes(r)
    <3>1. RecordBytes(r)
      BY <2>2 DEF PrefetcherBytes
    <3>2. StatsInv' /\ (\A y \in Transfers : bytes[y] <= bytes'[y]) /\ UNCHANGED count
      BY <1>1, <1>2, <3>1, BytesKeep
    <3>3. \A c \in Counters : count[c] <= count'[c]
      BY <1>4, <3>2
    <3> QED
      BY <3>2, <3>3
  <2> QED
    BY <2>1, <2>2
<1>6. SnapsOrdered'
  BY <1>1, <1>3, <1>5, SnapsStay
<1>7. BenchCounts'
  BY <1>1, <1>3, <1>5, CountsStay
<1>8. BenchTypeOK' /\ PhaseOrder'
  BY <1>1, <1>3 DEF BenchTypeOK, PhaseOrder, FreshIs, All
<1> QED
  BY <1>5, <1>6, <1>7, <1>8 DEF BenchInv, BenchFrame

\* A snapshot is exact in the next state as well.
LEMMA SnapshotStays ==
    ASSUME StatsInv, GateFree, UNCHANGED statsVars, NEW s, s = snapshot
    PROVE  Coherent(s)'
<1>1. Coherent(s)
  BY SnapshotExact
<1>2. /\ StatsInv' /\ \A c \in Counters : count[c] <= count'[c]
      /\ \A x \in Transfers : bytes[x] <= bytes'[x]
  BY StatsStay
<1> QED
  BY <1>1, <1>2, StaysCoherent

\* A snapshot taken earlier stays exact when no counter moves.
LEMMA EarlierStays ==
    ASSUME StatsInv, UNCHANGED statsVars, NEW s, Coherent(s)
    PROVE  Coherent(s)'
<1>1. /\ StatsInv' /\ \A c \in Counters : count[c] <= count'[c]
      /\ \A x \in Transfers : bytes[x] <= bytes'[x]
  BY StatsStay
<1> QED
  BY <1>1, StaysCoherent

(***************************************************************************)
(* The first snapshot is the base of the second phase's hits.              *)
(***************************************************************************)
LEMMA BeforeKeeps ==
    ASSUME BenchInv, SnapshotBefore
    PROVE  BenchInv'
<1>1. BenchTypeOK /\ StatsInv /\ SnapsOrdered /\ PhaseOrder /\ BenchCounts
  BY DEF BenchInv, BenchFrame
<1>2. /\ driver = "phase_done" /\ phase = "Warmup" /\ GateFree
      /\ before' = snapshot /\ phase' = "Measurement" /\ deadline' = "none" /\ driver' = "ready"
      /\ bench' = [w \in BenchWorkers |-> Fresh]
      /\ UNCHANGED <<after, statsVars>>
  BY DEF SnapshotBefore
<1>3. FreshIs("ready")'
  BY <1>2, FreshState DEF FreshIs
<1>4. /\ bench' \in [BenchWorkers -> WorkerState] /\ AllCounted'
      /\ \A w \in BenchWorkers : WasSampled(bench[w])'
      /\ \A c \in Events : SumFunction(HitsOf(c))' = 0
      /\ SumFunction(StartedOf)' = 0
  <2>1. (\A place \in {"ready", "start", "run"} : FreshIs(place) => NothingCounted(place))'
    BY FreshCounts, PTL
  <2>2. NothingCounted("ready")'
    BY <1>3, <2>1
  <2> QED
    BY <2>2 DEF NothingCounted
<1>5. /\ StatsInv' /\ \A c \in Counters : count'[c] = count[c]
  BY <1>1, <1>2, StatsStay
<1>6. Coherent(before)'
  <2>1. PICK s : s = snapshot
    OBVIOUS
  <2>2. Coherent(s)'
    BY <1>1, <1>2, <2>1, SnapshotStays
  <2> QED
    BY <1>2, <2>1, <2>2 DEF Coherent
<1>7. Coherent(after) => Coherent(after)'
  <2> SUFFICES ASSUME Coherent(after) PROVE Coherent(after)'
    OBVIOUS
  <2>1. PICK s : s = after
    OBVIOUS
  <2>2. Coherent(s)'
    BY <1>1, <1>2, <2>1, EarlierStays
  <2> QED
    BY <1>2, <2>1, <2>2 DEF Coherent
<1>8. SnapsOrdered'
  BY <1>1, <1>2, <1>6, <1>7 DEF SnapsOrdered
<1>9. BenchTypeOK' /\ PhaseOrder'
  BY <1>2, <1>3, <1>4 DEF BenchTypeOK, PhaseOrder, Drivers
<1>10. \A c \in Events : Base(c)' = count[c]
  BY <1>2, BenchNumbers DEF Base, snapshot
<1>11. count["dram_hit"] + count["demand_hit"] <= MaxOps
  <2>1. \A w \in BenchWorkers : bench[w].pc # "failed"
    BY <1>1, <1>2 DEF PhaseOrder, All
  <2>2. \A c \in Events : count[c] = SumFunction(HitsOf(c))
    <3>1. \A c \in Events : count[c] = 0 + SumFunction(HitsOf(c)) /\ SumFunction(HitsOf(c)) \in Nat
      BY <1>1, <1>2, <2>1, HitsTotal DEF BenchCounts, Base, HitsBounded
    <3> QED
      BY <3>1
  <2>3. /\ SumFunction(HitsOf("dram_hit")) + SumFunction(HitsOf("demand_hit")) <= SumFunction(StartedOf)
        /\ \A c \in Events : SumFunction(HitsOf(c)) \in Nat
        /\ SumFunction(StartedOf) \in Nat /\ SumFunction(StartedOf) <= MaxOps
    BY <1>1, HitsTotal DEF BenchCounts, HitsBounded
  <2> QED
    BY <2>2, <2>3, BenchNumbers
<1>12. \A c \in Events : count'[c] = Base(c)' + SumFunction(HitsOf(c))'
  <2>1. \A c \in Events : count[c] \in Nat
    BY <1>1, BenchNumbers DEF StatsInv, StatsTypeOK
  <2> QED
    BY <1>4, <1>5, <1>10, <2>1, BenchNumbers
<1>13. BenchCounts'
  BY <1>4, <1>10, <1>11, <1>12, BenchNumbers DEF BenchCounts
<1> QED
  BY <1>5, <1>8, <1>9, <1>13 DEF BenchInv, BenchFrame

LEMMA AfterKeeps ==
    ASSUME BenchInv, SnapshotAfter
    PROVE  BenchInv'
<1>1. BenchTypeOK /\ StatsInv /\ SnapsOrdered /\ PhaseOrder /\ BenchCounts
  BY DEF BenchInv, BenchFrame
<1>2. /\ driver = "phase_done" /\ phase = "Measurement" /\ GateFree
      /\ after' = snapshot /\ driver' = "report"
      /\ UNCHANGED <<phase, deadline, bench, before, statsVars>>
  BY DEF SnapshotAfter
<1>3. /\ StatsInv' /\ \A c \in Counters : count'[c] = count[c]
  BY <1>1, <1>2, StatsStay
<1>4. Coherent(after)'
  <2>1. PICK s : s = snapshot
    OBVIOUS
  <2>2. Coherent(s)'
    BY <1>1, <1>2, <2>1, SnapshotStays
  <2> QED
    BY <1>2, <2>1, <2>2 DEF Coherent
<1>5. Coherent(before) /\ Coherent(before)'
  <2>1. PICK s : s = before
    OBVIOUS
  <2>2. Coherent(s)
    BY <1>1, <1>2, <2>1 DEF SnapsOrdered
  <2>3. Coherent(s)'
    BY <1>1, <1>2, <2>2, EarlierStays
  <2> QED
    BY <1>2, <2>1, <2>2, <2>3 DEF Coherent
<1>6. after'.count = count /\ after'.bytes = bytes /\ count' = count
  BY <1>2 DEF snapshot, statsVars
<1>7. /\ \A c \in Counters : before.count[c] <= after'.count[c]
      /\ \A x \in Transfers : before.bytes[x] <= after'.bytes[x]
  BY <1>5, <1>6 DEF Coherent
<1>8. SnapsOrdered'
  BY <1>2, <1>4, <1>5, <1>6, <1>7 DEF SnapsOrdered
<1>9. BenchTypeOK' /\ PhaseOrder'
  BY <1>1, <1>2 DEF BenchTypeOK, PhaseOrder, All, Drivers
<1>10. BenchCounts'
  BY <1>1, <1>2, <1>3, CountsStay, BenchNumbers
<1> QED
  BY <1>3, <1>8, <1>9, <1>10 DEF BenchInv, BenchFrame

LEMMA BenchStay ==
    ASSUME BenchInv, UNCHANGED benchVars
    PROVE  BenchInv'
<1>1. BenchTypeOK /\ StatsInv /\ SnapsOrdered /\ PhaseOrder /\ BenchCounts
  BY DEF BenchInv, BenchFrame
<1>2. UNCHANGED <<driver, phase, deadline, bench, before, after, statsVars>>
  BY DEF benchVars
<1>3. /\ StatsInv' /\ \A c \in Counters : count[c] <= count'[c] /\ count'[c] = count[c]
      /\ \A x \in Transfers : bytes[x] <= bytes'[x]
  BY <1>1, <1>2, StatsStay
<1>4. SnapsOrdered' /\ BenchCounts'
  BY <1>1, <1>2, <1>3, SnapsStay, CountsStay, BenchNumbers
<1>5. BenchTypeOK' /\ PhaseOrder'
  BY <1>1, <1>2 DEF BenchTypeOK, PhaseOrder, FreshIs, All
<1> QED
  BY <1>3, <1>4, <1>5 DEF BenchInv, BenchFrame

LEMMA InitBench == Init => BenchInv
<1> SUFFICES ASSUME BenchInit PROVE BenchInv
  BY DEF Init
<1>1. /\ driver = "ready" /\ phase = "Warmup" /\ deadline = "none"
      /\ bench = [w \in BenchWorkers |-> Fresh] /\ before = NoStats /\ after = NoStats
      /\ count = [c \in Counters |-> 0] /\ bytes = [x \in Transfers |-> 0]
      /\ updating = [r \in Recorders |-> "none"]
  BY DEF BenchInit, StatsInit
<1>2. MaxCount \in Nat /\ PageLength \in Nat /\ 0 \in 0 .. MaxCount
  BY StatsAssumption
<1>3. StatsTypeOK
  BY <1>1, <1>2 DEF StatsTypeOK
<1>4. ASSUME NEW x \in Transfers PROVE TransfersMatch(x, 0)
  <2>1. Halfway(x) = {} /\ Cardinality(Halfway(x)) = 0
    BY <1>1, FS_EmptySet DEF Halfway, Transfers
  <2>2. PageLength * 0 = 0
    BY <1>2
  <2>3. count[x] = 0 /\ bytes[x] = 0
    BY <1>1 DEF Counters
  <2> QED
    BY <1>2, <2>1, <2>2, <2>3 DEF TransfersMatch, saturating_add
<1>5. StatsInv
  BY <1>3, <1>4 DEF StatsInv
<1>6. FreshIs("ready")
  BY <1>1, FreshState DEF FreshIs
<1>7. NothingCounted("ready")
  BY <1>6, FreshCounts
<1>8. BenchTypeOK /\ PhaseOrder /\ SnapsOrdered
  BY <1>1, <1>6, <1>7 DEF BenchTypeOK, PhaseOrder, SnapsOrdered, Drivers, NothingCounted
<1>9. \A c \in Events : count[c] = Base(c) + SumFunction(HitsOf(c))
  BY <1>1, <1>7, BenchNumbers DEF Base, NothingCounted
<1>10. BenchCounts
  BY <1>1, <1>7, <1>9, BenchNumbers DEF BenchCounts, NothingCounted
<1> QED
  BY <1>5, <1>8, <1>10 DEF BenchInv, BenchFrame

LEMMA BenchStepKeeps ==
    ASSUME BenchInv, [Next]_vars
    PROVE  BenchInv'
<1>1. CASE UNCHANGED benchVars
  BY <1>1, BenchStay
<1>2. CASE BenchStep
  BY <1>2, DriverStep, RunsAlone, SucceedsKeeps, CountKeeps, BeforeKeeps, AfterKeeps, PrefetcherKeeps
  DEF BenchStep
<1> QED
  BY <1>1, <1>2 DEF Next, vars

\* The percentiles of any sample but an empty one.
LEMMA Percentiles ==
    ASSUME NEW n \in Nat \ {0}
    PROVE  HasPercentiles(n)
<1>1. ASSUME NEW q \in {50, 99} PROVE rank(n, q) \in 0 .. (n - 1)
  <2>1. (n * q + 99) \div 100 >= 1 /\ (n * q + 99) \div 100 <= n
    <3>1. CASE q = 50
      BY <3>1
    <3>2. CASE q = 99
      BY <3>2
    <3> QED
      BY <3>1, <3>2
  <2>2. (n * q + 99) \div 100 \in Int
    OBVIOUS
  <2> QED
    BY <2>1, <2>2 DEF rank
<1> QED
  BY <1>1 DEF HasPercentiles

\* The counts of the workers added up.
OpsOf(k) == [w \in BenchWorkers |-> bench[w].ops[k]]
DramOf(k) == [w \in BenchWorkers |-> bench[w].dram_hits[k]]
OperationsOf == [w \in BenchWorkers |-> bench[w].operations]
SamplesOf == [w \in BenchWorkers |-> bench[w].samples]
KindSamplesOf(k) == [w \in BenchWorkers |-> bench[w].kind_samples[k]]

LEMMA RowSums ==
    ASSUME BenchTypeOK, AllCounted
    PROVE  /\ operations \in Nat
           /\ kind_operations("point") + kind_operations("scan") = operations
           /\ \A k \in Kinds : /\ kind_operations(k) \in Nat /\ kind_dram_hits(k) \in Nat
                               /\ kind_dram_hits(k) <= kind_operations(k)
           /\ operations > 0 => \E w \in BenchWorkers : bench[w].operations > 0
           /\ \A k \in Kinds : kind_operations(k) > 0 => \E w \in BenchWorkers : bench[w].ops[k] > 0
           /\ \A w \in BenchWorkers : bench[w].samples > 0 => samples_taken \in Nat \ {0}
           /\ \A k \in Kinds : \A w \in BenchWorkers :
                 bench[w].kind_samples[k] > 0 => kind_samples(k) \in Nat \ {0}
<1>1. \A w \in BenchWorkers : bench[w] \in WorkerState
  BY DEF BenchTypeOK
<1>2. /\ OperationsOf \in [BenchWorkers -> Nat] /\ SamplesOf \in [BenchWorkers -> Nat]
      /\ \A k \in Kinds : /\ OpsOf(k) \in [BenchWorkers -> Nat] /\ DramOf(k) \in [BenchWorkers -> Nat]
                          /\ KindSamplesOf(k) \in [BenchWorkers -> Nat]
  BY <1>1 DEF WorkerState, OperationsOf, SamplesOf, OpsOf, DramOf, KindSamplesOf
<1>3. /\ operations = SumFunction(OperationsOf) /\ samples_taken = SumFunction(SamplesOf)
      /\ \A k \in Kinds : /\ kind_operations(k) = SumFunction(OpsOf(k))
                          /\ kind_dram_hits(k) = SumFunction(DramOf(k))
                          /\ kind_samples(k) = SumFunction(KindSamplesOf(k))
  BY DEF operations, samples_taken, kind_operations, kind_dram_hits, kind_samples,
     OperationsOf, SamplesOf, OpsOf, DramOf, KindSamplesOf
<1>4. /\ operations \in Nat /\ samples_taken \in Nat
      /\ \A k \in Kinds : kind_operations(k) \in Nat /\ kind_dram_hits(k) \in Nat /\ kind_samples(k) \in Nat
  BY <1>2, <1>3, SumNat, BenchNumbers
<1>5. kind_operations("point") + kind_operations("scan") = operations
  <2>1. \A w \in BenchWorkers : OperationsOf[w] = OpsOf("point")[w] + OpsOf("scan")[w]
    BY DEF OperationsOf, OpsOf, AllCounted, Counted
  <2>2. "point" \in Kinds /\ "scan" \in Kinds
    BY DEF Kinds
  <2> QED
    BY <1>2, <1>3, <2>1, <2>2, SumAdds, BenchNumbers
<1>6. ASSUME NEW k \in Kinds PROVE kind_dram_hits(k) <= kind_operations(k)
  <2>1. \A w \in BenchWorkers : DramOf(k)[w] <= OpsOf(k)[w]
    BY DEF DramOf, OpsOf, AllCounted, Counted
  <2> QED
    BY <1>2, <1>3, <2>1, SumGrows, BenchNumbers
<1>7. ASSUME operations > 0 PROVE \E w \in BenchWorkers : bench[w].operations > 0
  <2> SUFFICES ASSUME \A w \in BenchWorkers : ~(bench[w].operations > 0) PROVE FALSE
    OBVIOUS
  <2>1. \A w \in BenchWorkers : OperationsOf[w] = 0
    BY <1>1 DEF OperationsOf, WorkerState
  <2>2. SumFunction(OperationsOf) = 0
    BY <1>2, <2>1, SumZero, BenchNumbers
  <2> QED
    BY <1>3, <1>7, <2>2
<1>8. ASSUME NEW k \in Kinds, kind_operations(k) > 0 PROVE \E w \in BenchWorkers : bench[w].ops[k] > 0
  <2> SUFFICES ASSUME \A w \in BenchWorkers : ~(bench[w].ops[k] > 0) PROVE FALSE
    OBVIOUS
  <2>1. \A w \in BenchWorkers : OpsOf(k)[w] = 0
    BY <1>1 DEF OpsOf, WorkerState
  <2>2. SumFunction(OpsOf(k)) = 0
    BY <1>2, <2>1, SumZero, BenchNumbers
  <2> QED
    BY <1>3, <1>8, <2>2
<1>9. ASSUME NEW w \in BenchWorkers, bench[w].samples > 0 PROVE samples_taken \in Nat \ {0}
  <2>1. SamplesOf[w] <= samples_taken
    BY <1>2, <1>3, SumNat, BenchNumbers
  <2>2. SamplesOf[w] = bench[w].samples /\ SamplesOf[w] \in Nat
    BY <1>2 DEF SamplesOf
  <2> QED
    BY <1>4, <1>9, <2>1, <2>2
<1>10. ASSUME NEW k \in Kinds, NEW w \in BenchWorkers, bench[w].kind_samples[k] > 0
       PROVE  kind_samples(k) \in Nat \ {0}
  <2>1. KindSamplesOf(k)[w] <= kind_samples(k)
    BY <1>2, <1>3, SumNat, BenchNumbers
  <2>2. KindSamplesOf(k)[w] = bench[w].kind_samples[k] /\ KindSamplesOf(k)[w] \in Nat
    BY <1>2 DEF KindSamplesOf
  <2> QED
    BY <1>4, <1>10, <2>1, <2>2
<1> QED
  BY <1>4, <1>5, <1>6, <1>7, <1>8, <1>9, <1>10

\* When every worker is done, its hits are its operations.
LEMMA DoneSums ==
    ASSUME BenchTypeOK, AllCounted, All("done")
    PROVE  /\ SumFunction(HitsOf("dram_hit")) + SumFunction(HitsOf("demand_hit")) = operations
           /\ kind_dram_hits("point") + kind_dram_hits("scan") = SumFunction(HitsOf("dram_hit"))
<1>1. \A w \in BenchWorkers :
         /\ bench[w] \in WorkerState
         /\ HitsIn(bench[w], "dram_hit") = DramHits(bench[w])
         /\ HitsIn(bench[w], "dram_hit") + HitsIn(bench[w], "demand_hit") = bench[w].operations
  BY HitsBelow DEF BenchTypeOK, AllCounted, All
<1>2. /\ HitsOf("dram_hit") \in [BenchWorkers -> Nat] /\ HitsOf("demand_hit") \in [BenchWorkers -> Nat]
  BY HitsTotal, BenchNumbers DEF HitsBounded
<1>3. /\ OperationsOf \in [BenchWorkers -> Nat] /\ operations = SumFunction(OperationsOf)
      /\ DramOf("point") \in [BenchWorkers -> Nat] /\ DramOf("scan") \in [BenchWorkers -> Nat]
      /\ kind_dram_hits("point") = SumFunction(DramOf("point"))
      /\ kind_dram_hits("scan") = SumFunction(DramOf("scan"))
  BY <1>1 DEF WorkerState, Kinds, OperationsOf, DramOf, operations, kind_dram_hits
<1>4. \A w \in BenchWorkers : OperationsOf[w] = HitsOf("dram_hit")[w] + HitsOf("demand_hit")[w]
  BY <1>1 DEF OperationsOf, HitsOf
<1>5. \A w \in BenchWorkers : HitsOf("dram_hit")[w] = DramOf("point")[w] + DramOf("scan")[w]
  BY <1>1 DEF HitsOf, DramOf, DramHits
<1>6. SumFunction(OperationsOf) = SumFunction(HitsOf("dram_hit")) + SumFunction(HitsOf("demand_hit"))
  BY <1>2, <1>3, <1>4, SumAdds, BenchNumbers
<1>7. SumFunction(HitsOf("dram_hit")) = SumFunction(DramOf("point")) + SumFunction(DramOf("scan"))
  BY <1>2, <1>3, <1>5, SumAdds, BenchNumbers
<1> QED
  BY <1>3, <1>6, <1>7

(***************************************************************************)
(* The row of a finished measurement can be made.                          *)
(***************************************************************************)
LEMMA RowMade ==
    ASSUME BenchInv
    PROVE  MeasurementConsistent
<1> SUFFICES ASSUME driver = "report", operations > 0
             PROVE  /\ HasPercentiles(samples_taken)
                    /\ \A k \in Kinds : kind_operations(k) > 0 => HasPercentiles(kind_samples(k))
                    /\ kind_operations("point") + kind_operations("scan") = operations
                    /\ \A k \in Kinds : kind_dram_hits(k) <= kind_operations(k)
                    /\ delta("dram_hit") + delta("demand_hit") = operations
                    /\ kind_dram_hits("point") + kind_dram_hits("scan") = delta("dram_hit")
                    /\ \A c \in Counters : delta(c) >= 0
                    /\ \A x \in Transfers : bytes_delta(x) >= 0
  BY DEF MeasurementConsistent
<1>1. BenchTypeOK /\ StatsInv /\ SnapsOrdered /\ PhaseOrder /\ BenchCounts /\ AllCounted
  BY DEF BenchInv, BenchFrame, BenchCounts
<1>2. /\ phase = "Measurement" /\ Coherent(before) /\ Coherent(after) /\ All("done")
      /\ \A c \in Events : after.count[c] = count[c]
      /\ \A c \in Counters : before.count[c] <= after.count[c]
      /\ \A x \in Transfers : before.bytes[x] <= after.bytes[x]
  BY <1>1 DEF SnapsOrdered, PhaseOrder
<1>3. /\ before.count \in [Counters -> 0 .. MaxCount] /\ after.count \in [Counters -> 0 .. MaxCount]
      /\ before.bytes \in [Transfers -> 0 .. MaxCount] /\ after.bytes \in [Transfers -> 0 .. MaxCount]
      /\ MaxCount \in Nat
  BY <1>2, BenchNumbers DEF Coherent, TierStats
<1>4. /\ HasPercentiles(samples_taken)
      /\ \A k \in Kinds : kind_operations(k) > 0 => HasPercentiles(kind_samples(k))
  <2>1. \A w \in BenchWorkers : WasSampled(bench[w])
    BY <1>1, <1>2 DEF BenchCounts
  <2>2. samples_taken \in Nat \ {0}
    BY <1>1, <2>1, RowSums DEF WasSampled
  <2>3. \A k \in Kinds : kind_operations(k) > 0 => kind_samples(k) \in Nat \ {0}
    BY <1>1, <2>1, RowSums DEF WasSampled
  <2> QED
    BY <2>2, <2>3, Percentiles
<1>5. \A c \in Events : delta(c) = SumFunction(HitsOf(c))
  <2> SUFFICES ASSUME NEW c \in Events PROVE delta(c) = SumFunction(HitsOf(c))
    OBVIOUS
  <2>1. count[c] = before.count[c] + SumFunction(HitsOf(c))
    BY <1>1, <1>2 DEF BenchCounts, Base, All
  <2>2. before.count[c] \in Nat /\ SumFunction(HitsOf(c)) \in Nat
    BY <1>1, <1>3, HitsTotal, BenchNumbers DEF HitsBounded
  <2> QED
    BY <1>2, <2>1, <2>2 DEF delta
<1>6. /\ delta("dram_hit") + delta("demand_hit") = operations
      /\ kind_dram_hits("point") + kind_dram_hits("scan") = delta("dram_hit")
  BY <1>1, <1>2, <1>5, DoneSums, BenchNumbers
<1>7. \A c \in Counters : delta(c) >= 0
  BY <1>2, <1>3 DEF delta
<1>8. \A x \in Transfers : bytes_delta(x) >= 0
  BY <1>2, <1>3 DEF bytes_delta
<1> QED
  BY <1>1, <1>4, <1>6, <1>7, <1>8, RowSums

(***************************************************************************)
(* Statistics, snapshots and the counts of the workers are in order in     *)
(* every reachable state.                                                  *)
(***************************************************************************)
THEOREM BenchInductive == Spec => []BenchInv
BY InitBench, BenchStepKeeps, PTL DEF Spec

(***************************************************************************)
(* A snapshot's bytes and counts belong to the same events, whatever       *)
(* recorders run around it (StatsRecorder::snapshot of metrics.rs), for    *)
(* any number of recorders and any width of the counters.                  *)
(***************************************************************************)
THEOREM SnapshotsExact == Spec => []SnapshotCoherent
<1>1. BenchInv => SnapshotCoherent
  BY DEF BenchInv, BenchFrame, SnapsOrdered, Coherent, SnapshotCoherent
<1> QED
  BY <1>1, BenchInductive, PTL

(***************************************************************************)
(* A finished measurement always makes a row: its operations are the hits  *)
(* recorded between the snapshots, and what ran has percentiles            *)
(* (BenchRow::from_measurement of tierbuf-bench), for any number of        *)
(* workers and any sampling.                                               *)
(***************************************************************************)
THEOREM RowsConsistent == Spec => []MeasurementConsistent
BY RowMade, BenchInductive, PTL

-----------------------------------------------------------------------------
(* The cost of residency. *)

(***************************************************************************)
(* A sum is at least the number of its terms that are not zero.            *)
(***************************************************************************)
LEMMA SumCovers ==
    ASSUME NEW S, IsFiniteSet(S), NEW f \in [S -> Nat], NEW T \in SUBSET S, \A x \in T : f[x] > 0
    PROVE  Cardinality(T) <= SumFunction(f)
<1> DEFINE g == [x \in S |-> IF x \in T THEN 1 ELSE 0]
           size == [U \in SUBSET S |-> Cardinality(U \cap T)]
<1>1. g \in [S -> Nat] /\ \A x \in S : g[x] <= f[x]
  OBVIOUS
<1>2. \A U \in SUBSET S : IsFiniteSet(U \cap T) /\ Cardinality(U \cap T) \in Nat
  BY FS_Subset, FS_CardinalityType
<1>3. SumsOf(size, g, S)
  <2>1. size \in [SUBSET S -> Nat] /\ size[{}] = 0
    BY <1>2, FS_EmptySet
  <2>2. ASSUME NEW U \in SUBSET S, NEW x \in U PROVE size[U] = size[U \ {x}] + g[x]
    <3>1. (U \ {x}) \cap T = (U \cap T) \ {x}
      OBVIOUS
    <3>2. size[U] = Cardinality(U \cap T) /\ size[U \ {x}] = Cardinality((U \cap T) \ {x})
      BY <3>1
    <3>3. g[x] = IF x \in T THEN 1 ELSE 0
      OBVIOUS
    <3>4. PICK n \in Nat : n = Cardinality(U \cap T)
      BY <1>2
    <3> HIDE DEF size, g
    <3>5. CASE x \in T
      <4>1. x \in U \cap T
        BY <3>5
      <4>2. Cardinality((U \cap T) \ {x}) = n - 1
        BY <1>2, <3>4, <4>1, FS_RemoveElement
      <4> QED
        BY <3>2, <3>3, <3>4, <3>5, <4>2
    <3>6. CASE x \notin T
      <4>1. (U \cap T) \ {x} = U \cap T
        BY <3>6
      <4> QED
        BY <3>2, <3>3, <3>4, <3>6, <4>1
    <3> QED
      BY <3>5, <3>6
  <2> HIDE DEF size, g
  <2> QED
    BY <1>1, <2>1, <2>2 DEF SumsOf
<1>4. size[S] = Cardinality(T)
  <2>1. S \cap T = T
    OBVIOUS
  <2> QED
    BY <2>1
<1> HIDE DEF g, size
<1>5. SumFunction(g) = size[S]
  BY <1>3, SumIs
<1>6. SumFunction(g) <= SumFunction(f)
  BY <1>1, SumGrows
<1> QED
  BY <1>4, <1>5, <1>6

FrameNumbers == 0 .. (CostFrames - 1)

EvictorState ==
    [pc : {"idle", "unswizzle", "clear", "free"}, page : CostPages \cup {NoPage},
     frame : FrameNumbers \cup {NoPage}, frees : BOOLEAN]

PagesTypeOK ==
    /\ occupant \in [FrameNumbers -> CostPages \cup {NoPage}]
    /\ copies \in [CostPages -> Nat]
    /\ resides \in [CostPages -> FrameNumbers \cup {NoPage}]
    /\ evictor \in [CostEvictors -> EvictorState]

\* Where an evictor's page is, at each of its steps.
EvictorPlaced(e) ==
    /\ evictor[e].pc = "idle" => evictor[e] = NotEvicting
    /\ evictor[e].pc # "idle" => evictor[e].page \in CostPages
    /\ evictor[e].pc \in {"unswizzle", "clear"} =>
          /\ evictor[e].frame \in FrameNumbers
          /\ occupant[evictor[e].frame] = evictor[e].page
    /\ evictor[e].pc = "unswizzle" => resides[evictor[e].page] = evictor[e].frame
    /\ evictor[e].pc = "clear" => resides[evictor[e].page] # evictor[e].frame
    /\ evictor[e].pc = "free" => evictor[e].frame = NoPage

\* A page that resides is in its frame, and one evictor works on a frame.
PagesPlaced ==
    /\ \A p \in CostPages : resides[p] # NoPage => occupant[resides[p]] = p
    /\ \A e \in CostEvictors : EvictorPlaced(e)
    /\ \A d, e \in CostEvictors :
          evictor[d].frame = evictor[e].frame /\ evictor[d].frame # NoPage => d = e

\* The evictors about to free a superseded slot of page p.
Freeing(p) == {e \in CostEvictors : evictor[e].frees /\ evictor[e].page = p}

\* An evicted page keeps a slot that no evictor is about to free.
SlotRemains ==
    \A p \in CostPages :
        /\ copies[p] >= Cardinality(Freeing(p))
        /\ (\E e \in CostEvictors : evictor[e].page = p) => copies[p] > Cardinality(Freeing(p))

PagesInv == PagesTypeOK /\ PagesPlaced /\ SlotRemains

LEMMA CostNumbers ==
    /\ CostFrames \in Nat \ {0} /\ DramPrice \in Nat /\ NoPage \notin CostPages
    /\ NoPage \notin FrameNumbers /\ IsFiniteSet(CostPages)
    /\ \A p : IsFiniteSet(Freeing(p)) /\ Cardinality(Freeing(p)) \in Nat
<1>1. ASSUME NEW p PROVE IsFiniteSet(Freeing(p)) /\ Cardinality(Freeing(p)) \in Nat
  <2>1. Freeing(p) \subseteq CostEvictors /\ IsFiniteSet(CostEvictors)
    BY CostAssumption DEF Freeing
  <2> QED
    BY <2>1, FS_Subset, FS_CardinalityType
<1> QED
  BY <1>1, CostAssumption DEF FrameNumbers

\* What a page step does to the pages a tick may have to count.
PagesRemain ==
    \A p \in CostPages :
        /\ copies[p] > 0 => copies'[p] > 0
        /\ copies[p] = 0 /\ copies'[p] = 0 /\ resides[p] # NoPage => resides'[p] = resides[p]

LEMMA InstallKeeps ==
    ASSUME PagesInv, NEW p \in CostPages, NEW f \in DOMAIN occupant, InstallPage(p, f)
    PROVE  PagesInv' /\ PagesRemain
<1>1. /\ occupant \in [FrameNumbers -> CostPages \cup {NoPage}]
      /\ copies \in [CostPages -> Nat]
      /\ resides \in [CostPages -> FrameNumbers \cup {NoPage}]
      /\ evictor \in [CostEvictors -> EvictorState] /\ f \in FrameNumbers
  BY DEF PagesInv, PagesTypeOK
<1>2. /\ resides[p] = NoPage /\ occupant[f] = NoPage /\ \A e \in CostEvictors : evictor[e].frame # f
      /\ occupant' = [occupant EXCEPT ![f] = p]
      /\ resides' = [resides EXCEPT ![p] = f]
      /\ UNCHANGED <<copies, evictor>>
  BY DEF InstallPage, Evicting
<1>3. PagesTypeOK'
  BY <1>1, <1>2 DEF PagesTypeOK
<1>4. SlotRemains'
  BY <1>2 DEF PagesInv, SlotRemains, Freeing
<1>5. \A q \in CostPages : resides'[q] # NoPage => occupant'[resides'[q]] = q
  <2> SUFFICES ASSUME NEW q \in CostPages, resides'[q] # NoPage PROVE occupant'[resides'[q]] = q
    OBVIOUS
  <2>1. CASE q = p
    BY <1>1, <1>2, <2>1
  <2>2. CASE q # p
    <3>1. resides'[q] = resides[q] /\ resides[q] \in FrameNumbers
      BY <1>1, <1>2, <2>2
    <3>2. occupant[resides[q]] = q
      BY <1>2, <2>2, <3>1 DEF PagesInv, PagesPlaced
    <3>3. resides[q] # f
      BY <1>2, <3>2, CostNumbers
    <3> QED
      BY <1>1, <1>2, <3>1, <3>2, <3>3
  <2> QED
    BY <2>1, <2>2
<1>6. ASSUME NEW e \in CostEvictors PROVE EvictorPlaced(e)'
  <2>1. EvictorPlaced(e) /\ evictor'[e] = evictor[e] /\ evictor[e].frame # f
    BY <1>2 DEF PagesInv, PagesPlaced
  <2>2. CASE evictor[e].pc \in {"unswizzle", "clear"}
    <3>1. /\ evictor[e].frame \in FrameNumbers /\ evictor[e].page \in CostPages
          /\ occupant'[evictor[e].frame] = occupant[evictor[e].frame]
          /\ resides'[evictor[e].page] = IF evictor[e].page = p THEN f ELSE resides[evictor[e].page]
      BY <1>1, <1>2, <2>1, <2>2 DEF EvictorPlaced
    <3>2. evictor[e].pc = "unswizzle" => evictor[e].page # p
      BY <1>2, <2>1, <3>1, CostNumbers DEF EvictorPlaced
    <3> QED
      BY <2>1, <2>2, <3>1, <3>2 DEF EvictorPlaced
  <2>3. CASE evictor[e].pc \notin {"unswizzle", "clear"}
    BY <2>1, <2>3 DEF EvictorPlaced, NotEvicting
  <2> QED
    BY <2>2, <2>3
<1>7. PagesPlaced'
  BY <1>2, <1>5, <1>6 DEF PagesInv, PagesPlaced
<1>8. PagesRemain
  BY <1>1, <1>2 DEF PagesRemain
<1> QED
  BY <1>3, <1>4, <1>7, <1>8 DEF PagesInv

LEMMA WritesKeep ==
    ASSUME PagesInv, NEW e \in CostEvictors, NEW p \in CostPages, NEW writes \in BOOLEAN,
           EvictWrites(e, p, writes)
    PROVE  PagesInv' /\ PagesRemain
<1>1. /\ copies \in [CostPages -> Nat]
      /\ resides \in [CostPages -> FrameNumbers \cup {NoPage}]
      /\ evictor \in [CostEvictors -> EvictorState]
  BY DEF PagesInv, PagesTypeOK
<1>2. PICK f, n, frees : f = resides[p] /\ n = copies[p] /\ frees = (writes /\ n > 0)
  OBVIOUS
<1>3. /\ evictor[e].pc = "idle" /\ f \in FrameNumbers /\ n \in Nat /\ frees \in BOOLEAN
      /\ \A d \in CostEvictors : evictor[d].frame # f
      /\ writes \/ n > 0
      /\ copies' = [copies EXCEPT ![p] = IF writes THEN n + 1 ELSE n]
      /\ evictor' = [evictor EXCEPT ![e] =
                        [pc |-> "unswizzle", page |-> p, frame |-> f, frees |-> frees]]
      /\ UNCHANGED <<occupant, resides>>
  BY <1>1, <1>2, CostNumbers DEF EvictWrites, Evicting
<1>4. evictor[e] = NotEvicting
  BY <1>3 DEF PagesInv, PagesPlaced, EvictorPlaced
<1>5. PagesTypeOK'
  <2>1. (IF writes THEN n + 1 ELSE n) \in Nat
    BY <1>3
  <2>2. copies' \in [CostPages -> Nat]
    BY <1>1, <1>3, <2>1
  <2>3. [pc |-> "unswizzle", page |-> p, frame |-> f, frees |-> frees] \in EvictorState
    BY <1>3 DEF EvictorState
  <2>4. evictor' \in [CostEvictors -> EvictorState]
    BY <1>1, <1>3, <2>3
  <2> QED
    BY <1>3, <2>2, <2>4 DEF PagesInv, PagesTypeOK
<1>6. /\ evictor'[e].pc = "unswizzle" /\ evictor'[e].page = p /\ evictor'[e].frame = f
      /\ evictor'[e].frees = frees
      /\ \A d \in CostEvictors \ {e} : evictor'[d] = evictor[d]
  BY <1>1, <1>3
<1>7. PagesPlaced'
  <2>1. occupant[f] = p /\ resides[p] = f
    BY <1>2, <1>3, CostNumbers DEF PagesInv, PagesPlaced
  <2>2. \A q \in CostPages : resides'[q] # NoPage => occupant'[resides'[q]] = q
    BY <1>3 DEF PagesInv, PagesPlaced
  <2>3. EvictorPlaced(e)'
    BY <1>3, <1>6, <2>1 DEF EvictorPlaced
  <2>4. ASSUME NEW d \in CostEvictors \ {e} PROVE EvictorPlaced(d)'
    <3>1. EvictorPlaced(d) /\ evictor'[d] = evictor[d]
      BY <1>6 DEF PagesInv, PagesPlaced
    <3> QED
      BY <1>3, <3>1 DEF EvictorPlaced, NotEvicting
  <2>5. \A c, d \in CostEvictors :
           evictor'[c].frame = evictor'[d].frame /\ evictor'[c].frame # NoPage => c = d
    BY <1>3, <1>6 DEF PagesInv, PagesPlaced
  <2> QED
    BY <2>2, <2>3, <2>4, <2>5 DEF PagesPlaced
<1>8. \A q \in CostPages : Freeing(q)' = IF q = p /\ frees THEN Freeing(q) \cup {e} ELSE Freeing(q)
  BY <1>4, <1>6, CostNumbers DEF Freeing, NotEvicting
<1>9. e \notin Freeing(p)
  BY <1>4 DEF Freeing, NotEvicting
<1>10. SlotRemains'
  <2>1. PICK m \in Nat : m = Cardinality(Freeing(p))
    BY CostNumbers
  <2>2. n >= m /\ (n = 0 => m = 0) /\ (n > 0 => n > m)
    <3>1. n >= m
      BY <1>2, <2>1 DEF PagesInv, SlotRemains
    <3>2. CASE \E d \in CostEvictors : evictor[d].page = p
      BY <1>2, <1>3, <2>1, <3>1, <3>2 DEF PagesInv, SlotRemains
    <3>3. CASE ~\E d \in CostEvictors : evictor[d].page = p
      <4>1. Freeing(p) = {}
        BY <3>3 DEF Freeing
      <4>2. m = 0
        BY <2>1, <4>1, FS_EmptySet
      <4> QED
        BY <1>3, <3>1, <4>2
    <3> QED
      BY <3>2, <3>3
  <2>3. copies'[p] > Cardinality(Freeing(p)')
    <3>1. CASE frees
      <4>1. Cardinality(Freeing(p)') = m + 1
        <5>1. Freeing(p)' = Freeing(p) \cup {e}
          BY <1>8, <3>1
        <5> QED
          BY <1>9, <2>1, <5>1, CostNumbers, FS_AddElement
      <4>2. writes /\ n > 0
        BY <1>2, <3>1
      <4>3. copies'[p] = n + 1
        BY <1>1, <1>3, <4>2
      <4>4. n + 1 > m + 1
        BY <1>3, <2>1, <2>2, <4>2
      <4> QED
        BY <4>1, <4>3, <4>4
    <3>2. CASE ~frees
      <4>1. Freeing(p)' = Freeing(p)
        BY <1>8, <3>2
      <4>2. CASE writes
        <5>1. n = 0 /\ m = 0
          <6>1. ~(writes /\ n > 0)
            BY <1>2, <3>2
          <6>2. n = 0
            BY <1>3, <4>2, <6>1
          <6> QED
            BY <2>2, <6>2
        <5>2. copies'[p] = 0 + 1
          BY <1>1, <1>3, <4>2, <5>1
        <5> QED
          BY <2>1, <4>1, <5>1, <5>2
      <4>3. CASE ~writes
        <5>1. n > m
          BY <1>3, <2>2, <4>3
        <5>2. copies'[p] = n
          BY <1>1, <1>3, <4>3
        <5> QED
          BY <2>1, <4>1, <5>1, <5>2
      <4> QED
        BY <4>2, <4>3
    <3> QED
      BY <3>1, <3>2
  <2>4. \A q \in CostPages \ {p} :
           /\ copies'[q] = copies[q] /\ Freeing(q)' = Freeing(q)
           /\ (\E d \in CostEvictors : evictor'[d].page = q) => \E d \in CostEvictors : evictor[d].page = q
    BY <1>1, <1>3, <1>6, <1>8
  <2>5. Cardinality(Freeing(p)') \in Nat /\ copies'[p] \in Nat
    <3>1. Cardinality(Freeing(p)') \in {m, m + 1}
      BY <1>8, <1>9, <2>1, CostNumbers, FS_AddElement
    <3> QED
      BY <1>5, <2>1, <3>1 DEF PagesTypeOK
  <2>6. copies'[p] >= Cardinality(Freeing(p)')
    BY <2>3, <2>5
  <2>7. \A q \in CostPages \ {p} :
           /\ copies'[q] >= Cardinality(Freeing(q)')
           /\ (\E d \in CostEvictors : evictor'[d].page = q) => copies'[q] > Cardinality(Freeing(q)')
    BY <2>4 DEF PagesInv, SlotRemains
  <2> QED
    BY <2>3, <2>6, <2>7 DEF SlotRemains
<1>11. PagesRemain
  BY <1>1, <1>3 DEF PagesRemain
<1> QED
  BY <1>5, <1>7, <1>10, <1>11 DEF PagesInv

\* A page that an evictor works on has a slot that stays.
LEMMA EvictedHasSlot ==
    ASSUME PagesInv, NEW e \in CostEvictors, evictor[e].pc # "idle"
    PROVE  evictor[e].page \in CostPages /\ copies[evictor[e].page] > 0
<1>1. evictor[e].page \in CostPages
  BY DEF PagesInv, PagesPlaced, EvictorPlaced
<1>2. PICK n, m : n = copies[evictor[e].page] /\ m = Cardinality(Freeing(evictor[e].page))
  OBVIOUS
<1>3. n \in Nat /\ m \in Nat
  BY <1>1, <1>2, CostNumbers DEF PagesInv, PagesTypeOK
<1>4. n > m
  BY <1>1, <1>2 DEF PagesInv, SlotRemains
<1> QED
  BY <1>1, <1>2, <1>3, <1>4

LEMMA UnswizzlesKeep ==
    ASSUME PagesInv, NEW e \in CostEvictors, EvictUnswizzles(e)
    PROVE  PagesInv' /\ PagesRemain
<1>1. /\ copies \in [CostPages -> Nat]
      /\ resides \in [CostPages -> FrameNumbers \cup {NoPage}]
      /\ evictor \in [CostEvictors -> EvictorState]
  BY DEF PagesInv, PagesTypeOK
<1>2. PICK p, f : p = evictor[e].page /\ f = evictor[e].frame
  OBVIOUS
<1>3. /\ evictor[e].pc = "unswizzle"
      /\ resides' = [resides EXCEPT ![p] = NoPage]
      /\ evictor' = [evictor EXCEPT ![e].pc = "clear"]
      /\ UNCHANGED <<occupant, copies>>
  BY <1>2 DEF EvictUnswizzles
<1>4. p \in CostPages /\ copies[p] > 0 /\ f \in FrameNumbers /\ occupant[f] = p /\ resides[p] = f
  BY <1>2, <1>3, EvictedHasSlot DEF PagesInv, PagesPlaced, EvictorPlaced
<1>5. /\ evictor'[e].pc = "clear" /\ evictor'[e].page = p /\ evictor'[e].frame = f
      /\ evictor'[e].frees = evictor[e].frees /\ evictor' \in [CostEvictors -> EvictorState]
      /\ \A d \in CostEvictors \ {e} : evictor'[d] = evictor[d]
  BY <1>1, <1>2, <1>3 DEF EvictorState
<1>6. PagesTypeOK'
  BY <1>1, <1>3, <1>5 DEF PagesInv, PagesTypeOK
<1>7. PagesPlaced'
  <2>1. \A q \in CostPages : resides'[q] # NoPage => occupant'[resides'[q]] = q
    BY <1>1, <1>3 DEF PagesInv, PagesPlaced
  <2>2. EvictorPlaced(e)'
    BY <1>1, <1>3, <1>4, <1>5, CostNumbers DEF EvictorPlaced
  <2>3. ASSUME NEW d \in CostEvictors \ {e} PROVE EvictorPlaced(d)'
    <3>1. EvictorPlaced(d) /\ evictor'[d] = evictor[d]
      BY <1>5 DEF PagesInv, PagesPlaced
    <3>2. evictor[d].frame # f
      BY <1>2, <1>4, CostNumbers DEF PagesInv, PagesPlaced
    <3>3. CASE evictor[d].pc = "unswizzle"
      <4>1. evictor[d].page # p
        BY <1>4, <3>1, <3>2, <3>3 DEF EvictorPlaced
      <4> QED
        BY <1>1, <1>3, <3>1, <3>3, <4>1 DEF EvictorPlaced
    <3>4. CASE evictor[d].pc = "clear"
      <4>1. resides'[evictor[d].page] # evictor[d].frame
        BY <1>1, <1>3, <1>4, <3>1, <3>4, CostNumbers DEF EvictorPlaced
      <4> QED
        BY <1>3, <3>1, <3>4, <4>1 DEF EvictorPlaced
    <3>5. CASE evictor[d].pc \notin {"unswizzle", "clear"}
      BY <1>3, <3>1, <3>5 DEF EvictorPlaced, NotEvicting
    <3> QED
      BY <3>3, <3>4, <3>5
  <2>4. \A c, d \in CostEvictors :
           evictor'[c].frame = evictor'[d].frame /\ evictor'[c].frame # NoPage => c = d
    <3>1. \A d \in CostEvictors : evictor'[d].frame = evictor[d].frame
      BY <1>2, <1>5
    <3> QED
      BY <3>1 DEF PagesInv, PagesPlaced
  <2> QED
    BY <2>1, <2>2, <2>3, <2>4 DEF PagesPlaced
<1>8. SlotRemains'
  <2>1. \A d \in CostEvictors : evictor'[d].page = evictor[d].page /\ evictor'[d].frees = evictor[d].frees
    BY <1>2, <1>5
  <2>2. \A q \in CostPages : Freeing(q)' = Freeing(q)
    BY <2>1 DEF Freeing
  <2> QED
    BY <1>3, <2>1, <2>2 DEF PagesInv, SlotRemains
<1>9. PagesRemain
  BY <1>1, <1>3, <1>4 DEF PagesRemain
<1> QED
  BY <1>6, <1>7, <1>8, <1>9 DEF PagesInv

LEMMA ClearsKeep ==
    ASSUME PagesInv, NEW e \in CostEvictors, EvictClears(e)
    PROVE  PagesInv' /\ PagesRemain
<1>1. /\ occupant \in [FrameNumbers -> CostPages \cup {NoPage}]
      /\ resides \in [CostPages -> FrameNumbers \cup {NoPage}]
      /\ evictor \in [CostEvictors -> EvictorState]
  BY DEF PagesInv, PagesTypeOK
<1>2. PICK p, f : p = evictor[e].page /\ f = evictor[e].frame
  OBVIOUS
<1>3. /\ evictor[e].pc = "clear"
      /\ occupant' = [occupant EXCEPT ![f] = NoPage]
      /\ evictor' = [evictor EXCEPT ![e].pc = "free", ![e].frame = NoPage]
      /\ UNCHANGED <<copies, resides>>
  BY <1>2 DEF EvictClears
<1>4. p \in CostPages /\ f \in FrameNumbers /\ occupant[f] = p /\ resides[p] # f
  BY <1>2, <1>3 DEF PagesInv, PagesPlaced, EvictorPlaced
<1>5. /\ evictor'[e].pc = "free" /\ evictor'[e].page = p /\ evictor'[e].frame = NoPage
      /\ evictor'[e].frees = evictor[e].frees /\ evictor' \in [CostEvictors -> EvictorState]
      /\ \A d \in CostEvictors \ {e} : evictor'[d] = evictor[d]
  BY <1>1, <1>2, <1>3 DEF EvictorState
<1>6. PagesTypeOK'
  BY <1>1, <1>3, <1>5 DEF PagesInv, PagesTypeOK
<1>7. PagesPlaced'
  <2>1. ASSUME NEW q \in CostPages, resides'[q] # NoPage PROVE occupant'[resides'[q]] = q
    <3>1. occupant[resides[q]] = q /\ resides[q] \in FrameNumbers /\ resides'[q] = resides[q]
      BY <1>1, <1>3, <2>1 DEF PagesInv, PagesPlaced
    <3>2. resides[q] # f
      BY <1>4, <3>1
    <3> QED
      BY <1>1, <1>3, <3>1, <3>2
  <2>2. EvictorPlaced(e)'
    BY <1>4, <1>5 DEF EvictorPlaced
  <2>3. ASSUME NEW d \in CostEvictors \ {e} PROVE EvictorPlaced(d)'
    <3>1. EvictorPlaced(d) /\ evictor'[d] = evictor[d]
      BY <1>5 DEF PagesInv, PagesPlaced
    <3>2. evictor[d].frame # f
      BY <1>2, <1>4, CostNumbers DEF PagesInv, PagesPlaced
    <3>3. evictor[d].frame \in FrameNumbers => occupant'[evictor[d].frame] = occupant[evictor[d].frame]
      BY <1>1, <1>3, <3>2
    <3>4. CASE evictor[d].pc \in {"unswizzle", "clear"}
      BY <1>3, <3>1, <3>3, <3>4 DEF EvictorPlaced
    <3>5. CASE evictor[d].pc \notin {"unswizzle", "clear"}
      BY <3>1, <3>5 DEF EvictorPlaced, NotEvicting
    <3> QED
      BY <3>4, <3>5
  <2>4. \A c, d \in CostEvictors :
           evictor'[c].frame = evictor'[d].frame /\ evictor'[c].frame # NoPage => c = d
    BY <1>5 DEF PagesInv, PagesPlaced
  <2> QED
    BY <2>1, <2>2, <2>3, <2>4 DEF PagesPlaced
<1>8. SlotRemains'
  <2>1. \A d \in CostEvictors : evictor'[d].page = evictor[d].page /\ evictor'[d].frees = evictor[d].frees
    BY <1>2, <1>5
  <2>2. \A q \in CostPages : Freeing(q)' = Freeing(q)
    BY <2>1 DEF Freeing
  <2> QED
    BY <1>3, <2>1, <2>2 DEF PagesInv, SlotRemains
<1>9. PagesRemain
  BY <1>1, <1>3 DEF PagesRemain
<1> QED
  BY <1>6, <1>7, <1>8, <1>9 DEF PagesInv

LEMMA FreesKeep ==
    ASSUME PagesInv, NEW e \in CostEvictors, EvictFrees(e)
    PROVE  PagesInv' /\ PagesRemain
<1>1. /\ copies \in [CostPages -> Nat]
      /\ resides \in [CostPages -> FrameNumbers \cup {NoPage}]
      /\ evictor \in [CostEvictors -> EvictorState]
  BY DEF PagesInv, PagesTypeOK
<1>2. PICK p, n, frees : p = evictor[e].page /\ n = copies[p] /\ frees = evictor[e].frees
  OBVIOUS
<1>3. /\ evictor[e].pc = "free" /\ frees \in BOOLEAN
      /\ copies' = IF frees THEN [copies EXCEPT ![p] = n - 1] ELSE copies
      /\ evictor' = [evictor EXCEPT ![e] = NotEvicting]
      /\ UNCHANGED <<occupant, resides>>
  BY <1>1, <1>2 DEF EvictFrees, EvictorState
<1>4. p \in CostPages /\ n \in Nat
  BY <1>1, <1>2, <1>3, EvictedHasSlot
<1>5. PICK m \in Nat : m = Cardinality(Freeing(p))
  BY CostNumbers
<1>6. n > m /\ n >= m
  BY <1>2, <1>4, <1>5 DEF PagesInv, SlotRemains
<1>7. evictor'[e] = NotEvicting /\ \A d \in CostEvictors \ {e} : evictor'[d] = evictor[d]
  BY <1>1, <1>3
<1>8. /\ copies'[p] = IF frees THEN n - 1 ELSE n
      /\ \A q \in CostPages \ {p} : copies'[q] = copies[q]
      /\ (IF frees THEN n - 1 ELSE n) \in Nat
  BY <1>1, <1>2, <1>3, <1>4, <1>5, <1>6
<1>9. PagesTypeOK'
  <2>1. copies' \in [CostPages -> Nat]
    BY <1>1, <1>3, <1>8
  <2>2. NotEvicting \in EvictorState
    BY DEF EvictorState, NotEvicting
  <2>3. evictor' \in [CostEvictors -> EvictorState]
    BY <1>1, <1>3, <2>2
  <2> QED
    BY <1>3, <2>1, <2>3 DEF PagesInv, PagesTypeOK
<1>10. PagesPlaced'
  <2>1. ASSUME NEW d \in CostEvictors PROVE EvictorPlaced(d)'
    <3>1. CASE d = e
      BY <1>7, <3>1 DEF EvictorPlaced, NotEvicting
    <3>2. CASE d # e
      <4>1. EvictorPlaced(d) /\ evictor'[d] = evictor[d]
        BY <1>7, <3>2 DEF PagesInv, PagesPlaced
      <4>2. CASE evictor[d].pc \in {"unswizzle", "clear"}
        BY <1>3, <4>1, <4>2 DEF EvictorPlaced
      <4>3. CASE evictor[d].pc \notin {"unswizzle", "clear"}
        BY <4>1, <4>3 DEF EvictorPlaced, NotEvicting
      <4> QED
        BY <4>2, <4>3
    <3> QED
      BY <3>1, <3>2
  <2> QED
    BY <1>3, <1>7, <2>1 DEF PagesInv, PagesPlaced, NotEvicting
<1>11. \A q \in CostPages : Freeing(q)' = Freeing(q) \ {e}
  BY <1>7, CostNumbers DEF Freeing, NotEvicting
<1>12. \A q \in CostPages \ {p} : Freeing(q)' = Freeing(q)
  BY <1>2, <1>11 DEF Freeing
<1>13. copies'[p] > Cardinality(Freeing(p)') /\ copies'[p] >= Cardinality(Freeing(p)')
  <2>1. CASE frees
    <3>1. e \in Freeing(p)
      BY <1>2, <2>1 DEF Freeing
    <3>2. Cardinality(Freeing(p)') = m - 1
      BY <1>4, <1>5, <1>11, <3>1, CostNumbers, FS_RemoveElement
    <3>3. copies'[p] = n - 1 /\ n - 1 > m - 1
      BY <1>4, <1>5, <1>6, <1>8, <2>1
    <3> QED
      BY <1>4, <1>5, <3>2, <3>3
  <2>2. CASE ~frees
    <3>1. e \notin Freeing(p)
      BY <1>2, <2>2 DEF Freeing
    <3>2. Freeing(p)' = Freeing(p)
      BY <1>4, <1>11, <3>1
    <3> QED
      BY <1>5, <1>6, <1>8, <2>2, <3>2
  <2> QED
    BY <2>1, <2>2
<1>14. SlotRemains'
  <2>1. \A q \in CostPages \ {p} :
           /\ copies'[q] >= Cardinality(Freeing(q)')
           /\ (\E d \in CostEvictors : evictor'[d].page = q) => copies'[q] > Cardinality(Freeing(q)')
    <3>1. \A q \in CostPages \ {p} :
             (\E d \in CostEvictors : evictor'[d].page = q) => \E d \in CostEvictors : evictor[d].page = q
      BY <1>7, CostNumbers DEF NotEvicting
    <3> QED
      BY <1>8, <1>12, <3>1 DEF PagesInv, SlotRemains
  <2> QED
    BY <1>13, <2>1 DEF SlotRemains
<1>15. copies'[p] > 0
  <2>1. frees => m > 0
    <3>1. ASSUME frees PROVE e \in Freeing(p)
      BY <1>2, <3>1 DEF Freeing
    <3>2. m = 0 => Freeing(p) = {}
      BY <1>5, CostNumbers, FS_EmptySet
    <3> QED
      BY <1>5, <3>1, <3>2
  <2> QED
    BY <1>4, <1>5, <1>6, <1>8, <2>1
<1>16. PagesRemain
  BY <1>3, <1>8, <1>15 DEF PagesRemain
<1> QED
  BY <1>9, <1>10, <1>14, <1>16 DEF PagesInv

(***************************************************************************)
(* However a page moves, it stays where a tick looks for it.               *)
(***************************************************************************)
LEMMA PageStepKeeps ==
    ASSUME PagesInv, PageStep
    PROVE  PagesInv' /\ PagesRemain /\ UNCHANGED tickSide
<1>1. CASE \E p \in CostPages, f \in DOMAIN occupant : InstallPage(p, f)
  BY <1>1, InstallKeeps DEF InstallPage
<1>2. CASE \E e \in CostEvictors, p \in CostPages, writes \in BOOLEAN : EvictWrites(e, p, writes)
  BY <1>2, WritesKeep DEF EvictWrites
<1>3. CASE \E e \in CostEvictors : EvictUnswizzles(e)
  BY <1>3, UnswizzlesKeep DEF EvictUnswizzles
<1>4. CASE \E e \in CostEvictors : EvictClears(e)
  BY <1>4, ClearsKeep DEF EvictClears
<1>5. CASE \E e \in CostEvictors : EvictFrees(e)
  BY <1>5, FreesKeep DEF EvictFrees
<1> QED
  BY <1>1, <1>2, <1>3, <1>4, <1>5 DEF PageStep

(* What a tick has seen *)

\* The pages of L without a slot that the tick has passed.
Seen(L, n) == {p \in L : copies[p] = 0 /\ resides[p] \in 0 .. (n - 1)}

\* The tick has counted each page of L that it passed and that has no slot,
\* and L are the pages that were allocated when it began.
Counts(L, n) ==
    /\ L \subseteq AllocatedPages
    /\ Cardinality(L) = sampler.least
    /\ Cardinality(Seen(L, n)) <= sampler.dram

SamplerTypeOK ==
    /\ sampler.pc \in {"idle", "frames", "tier", "charge"}
    /\ sampler.next \in Nat /\ sampler.dram \in Nat /\ sampler.tier \in Nat
    /\ sampler.elapsed \in Nat /\ sampler.least \in Nat
    /\ DOMAIN sampler = DOMAIN NotSampling

SamplerMisses ==
    /\ sampler.pc = "frames" =>
          sampler.next < CostFrames /\ \E L \in SUBSET CostPages : Counts(L, sampler.next)
    /\ sampler.pc = "tier" => \E L \in SUBSET CostPages : Counts(L, CostFrames)
    /\ sampler.pc = "charge" => sampler.dram + sampler.tier >= sampler.least

SamplerInv == SamplerTypeOK /\ SamplerMisses

LEMMA SeenNumbers ==
    ASSUME NEW L \in SUBSET CostPages, NEW n
    PROVE  /\ IsFiniteSet(L) /\ Cardinality(L) \in Nat
           /\ IsFiniteSet(Seen(L, n)) /\ Cardinality(Seen(L, n)) \in Nat
<1>1. Seen(L, n) \subseteq L
  BY DEF Seen
<1> QED
  BY <1>1, CostNumbers, FS_Subset, FS_CardinalityType

\* While pages move, those a tick has passed remain counted.
LEMMA CountsRemain ==
    ASSUME PagesInv, PagesInv', PagesRemain, UNCHANGED tickSide, sampler.dram \in Nat,
           NEW L \in SUBSET CostPages, NEW n, Counts(L, n)
    PROVE  Counts(L, n)'
<1>1. ASSUME NEW p \in L PROVE p \in AllocatedPages'
  <2>1. p \in CostPages /\ (resides[p] # NoPage \/ copies[p] > 0)
    BY DEF Counts, AllocatedPages
  <2>2. copies[p] \in Nat /\ copies'[p] \in Nat
    BY <2>1 DEF PagesInv, PagesTypeOK
  <2>3. copies'[p] > 0 \/ resides'[p] # NoPage
    BY <2>1, <2>2 DEF PagesRemain
  <2> QED
    BY <2>1, <2>3 DEF AllocatedPages
<1>2. ASSUME NEW p \in L, p \in Seen(L, n)' PROVE p \in Seen(L, n)
  <2>1. copies'[p] = 0 /\ resides'[p] \in 0 .. (n - 1) /\ copies[p] \in Nat
    BY <1>2 DEF Seen, PagesInv, PagesTypeOK
  <2>2. copies[p] = 0
    BY <2>1 DEF PagesRemain
  <2>3. resides[p] # NoPage
    BY <2>2 DEF Counts, AllocatedPages
  <2>4. resides'[p] = resides[p]
    BY <2>1, <2>2, <2>3 DEF PagesRemain
  <2> QED
    BY <2>1, <2>2, <2>4 DEF Seen
<1>3. Seen(L, n)' \subseteq Seen(L, n)
  BY <1>2 DEF Seen
<1>4. Cardinality(Seen(L, n)') <= Cardinality(Seen(L, n)) /\ Cardinality(Seen(L, n)') \in Nat
  BY <1>3, SeenNumbers, FS_Subset, FS_CardinalityType
<1>5. sampler' = sampler
  BY DEF tickSide
<1>6. Cardinality(Seen(L, n)') <= sampler.dram
  <2>1. PICK m, k, h : m = Cardinality(Seen(L, n)') /\ k = Cardinality(Seen(L, n)) /\ h = sampler.dram
    OBVIOUS
  <2>2. m \in Nat /\ k \in Nat /\ m <= k /\ h \in Nat
    BY <1>4, <2>1, SeenNumbers
  <2>3. k <= h
    BY <2>1 DEF Counts
  <2> QED
    BY <2>1, <2>2, <2>3
<1> QED
  BY <1>1, <1>5, <1>6 DEF Counts

LEMMA PagesKeepSampler ==
    ASSUME PagesInv, PagesInv', PagesRemain, UNCHANGED tickSide, SamplerInv
    PROVE  SamplerInv'
<1>1. sampler' = sampler
  BY DEF tickSide
<1>2. SamplerTypeOK'
  BY <1>1 DEF SamplerInv, SamplerTypeOK
<1>3. ASSUME sampler'.pc = "frames"
      PROVE  sampler'.next < CostFrames /\ (\E L \in SUBSET CostPages : Counts(L, sampler.next))'
  <2>1. PICK L \in SUBSET CostPages : Counts(L, sampler.next)
    BY <1>1, <1>3 DEF SamplerInv, SamplerMisses
  <2>2. PICK n : n = sampler.next
    OBVIOUS
  <2>3. Counts(L, n)'
    BY <2>1, <2>2, CountsRemain DEF SamplerInv, SamplerTypeOK
  <2>4. n = sampler'.next
    BY <1>1, <2>2
  <2> QED
    BY <1>1, <1>3, <2>3, <2>4 DEF SamplerInv, SamplerMisses
<1>4. ASSUME sampler'.pc = "tier" PROVE \E L \in SUBSET CostPages : Counts(L, CostFrames)'
  <2>1. PICK L \in SUBSET CostPages : Counts(L, CostFrames)
    BY <1>1, <1>4 DEF SamplerInv, SamplerMisses
  <2>2. Counts(L, CostFrames)'
    BY <2>1, CountsRemain DEF SamplerInv, SamplerTypeOK
  <2> QED
    BY <2>2
<1>5. sampler'.pc = "charge" => sampler'.dram + sampler'.tier >= sampler'.least
  BY <1>1 DEF SamplerInv, SamplerMisses
<1>6. SamplerMisses'
  BY <1>3, <1>4, <1>5 DEF SamplerMisses
<1> QED
  BY <1>2, <1>6 DEF SamplerInv

(***************************************************************************)
(* A tick that begins has seen nothing, so it has missed nothing.          *)
(***************************************************************************)
LEMMA StartKeeps ==
    ASSUME PagesInv, SamplerInv, SampleStarts
    PROVE  SamplerInv'
<1>1. PICK e \in Elapses : sampler' = [NotSampling EXCEPT !.pc = "frames", !.elapsed = e,
                                                        !.least = Cardinality(AllocatedPages)]
  BY DEF SampleStarts
<1>2. /\ sampler'.pc = "frames" /\ sampler'.next = 0 /\ sampler'.dram = 0 /\ sampler'.tier = 0
      /\ sampler'.elapsed = e /\ sampler'.least = Cardinality(AllocatedPages)
      /\ DOMAIN sampler' = DOMAIN NotSampling /\ UNCHANGED pageSide
  BY <1>1 DEF NotSampling, SampleStarts
<1>3. AllocatedPages \in SUBSET CostPages /\ AllocatedPages' = AllocatedPages
  BY <1>2 DEF AllocatedPages, pageSide
<1>4. SamplerTypeOK'
  BY <1>2, <1>3, SeenNumbers, CostAssumption DEF SamplerTypeOK, NotSampling
<1>5. Seen(AllocatedPages, 0)' = {}
  BY DEF Seen
<1>6. Counts(AllocatedPages, 0)'
  <2>1. Cardinality(Seen(AllocatedPages, 0)') = 0
    BY <1>5, FS_EmptySet
  <2> QED
    BY <1>2, <1>3, <2>1 DEF Counts
<1>7. SamplerMisses'
  <2>1. PICK L \in SUBSET CostPages : Counts(L, 0)'
    BY <1>3, <1>6
  <2> QED
    BY <1>2, <2>1, CostNumbers DEF SamplerMisses
<1> QED
  BY <1>4, <1>7 DEF SamplerInv

(***************************************************************************)
(* The frame a tick passes holds at most one page it did not see before.   *)
(***************************************************************************)
LEMMA FrameAdds ==
    ASSUME PagesInv, NEW L \in SUBSET CostPages, NEW n \in FrameNumbers
    PROVE  /\ occupant[n] = NoPage => Seen(L, n + 1) = Seen(L, n)
           /\ Cardinality(Seen(L, n + 1)) <= Cardinality(Seen(L, n)) + 1
<1>1. \A p \in Seen(L, n + 1) : p \in CostPages /\ (p \in Seen(L, n) \/ resides[p] = n)
  BY DEF Seen, FrameNumbers
<1>2. \A p \in CostPages : resides[p] = n => occupant[n] = p
  BY CostNumbers DEF PagesInv, PagesPlaced
<1>3. \A p \in Seen(L, n) : p \in Seen(L, n + 1)
  BY DEF Seen, FrameNumbers
<1>4. ASSUME occupant[n] = NoPage PROVE Seen(L, n + 1) = Seen(L, n)
  <2>1. \A p \in CostPages : resides[p] # n
    BY <1>2, <1>4, CostNumbers
  <2> QED
    BY <1>1, <1>3, <2>1
<1>5. Cardinality(Seen(L, n + 1)) <= Cardinality(Seen(L, n)) + 1
  <2>1. PICK k \in Nat : k = Cardinality(Seen(L, n))
    BY SeenNumbers
  <2>2. CASE occupant[n] \in Seen(L, n)
    <3>1. Seen(L, n + 1) = Seen(L, n)
      BY <1>1, <1>2, <1>3, <2>2
    <3> QED
      BY <2>1, <3>1
  <2>3. CASE occupant[n] \notin Seen(L, n)
    <3>1. Seen(L, n + 1) \subseteq Seen(L, n) \cup {occupant[n]}
      BY <1>1, <1>2
    <3>2. /\ IsFiniteSet(Seen(L, n) \cup {occupant[n]})
          /\ Cardinality(Seen(L, n) \cup {occupant[n]}) = k + 1
      BY <2>1, <2>3, SeenNumbers, FS_AddElement
    <3> QED
      BY <2>1, <3>1, <3>2, FS_Subset
  <2> QED
    BY <2>2, <2>3
<1> QED
  BY <1>4, <1>5

LEMMA FrameKeeps ==
    ASSUME PagesInv, SamplerInv, SampleFrame
    PROVE  SamplerInv'
<1>1. PICK n, h : n = sampler.next /\ h = sampler.dram
  OBVIOUS
<1>2. /\ sampler.pc = "frames" /\ n \in Nat /\ n < CostFrames /\ h \in Nat /\ n \in FrameNumbers
      /\ CostFrames \in Nat
  BY <1>1, CostNumbers DEF SampleFrame, SamplerInv, SamplerTypeOK, FrameNumbers
<1>3. /\ sampler'.next = n + 1
      /\ sampler'.dram = IF occupant[n] = NoPage THEN h ELSE h + 1
      /\ sampler'.pc = IF n + 1 = CostFrames THEN "tier" ELSE "frames"
      /\ sampler'.tier = sampler.tier /\ sampler'.elapsed = sampler.elapsed
      /\ sampler'.least = sampler.least /\ DOMAIN sampler' = DOMAIN sampler
      /\ UNCHANGED pageSide
  <2>1. {"next", "dram", "pc", "tier", "elapsed", "least"} \subseteq DOMAIN sampler
    BY DEF SamplerInv, SamplerTypeOK, NotSampling
  <2> QED
    BY <1>1, <2>1 DEF SampleFrame
<1>4. SamplerTypeOK'
  BY <1>2, <1>3 DEF SamplerInv, SamplerTypeOK
<1>5. PICK L \in SUBSET CostPages : Counts(L, n)
  BY <1>1, <1>2 DEF SamplerInv, SamplerMisses
<1>6. Counts(L, n + 1)'
  <2>1. \A m : Seen(L, m)' = Seen(L, m)
    BY <1>3 DEF Seen, pageSide
  <2>2. L \subseteq AllocatedPages'
    BY <1>3, <1>5 DEF Counts, AllocatedPages, pageSide
  <2>3. PICK k, m : k = Cardinality(Seen(L, n)) /\ m = Cardinality(Seen(L, n + 1))
    OBVIOUS
  <2>4. k \in Nat /\ m \in Nat /\ k <= h /\ m <= k + 1 /\ (occupant[n] = NoPage => m = k)
    BY <1>1, <1>2, <1>5, <2>3, FrameAdds, SeenNumbers DEF Counts
  <2>5. m <= IF occupant[n] = NoPage THEN h ELSE h + 1
    BY <1>2, <2>4
  <2>6. Cardinality(Seen(L, n + 1)') <= sampler'.dram
    BY <1>3, <2>1, <2>3, <2>5
  <2> QED
    BY <1>3, <1>5, <2>2, <2>6 DEF Counts
<1>7. SamplerMisses'
  <2>1. CASE n + 1 = CostFrames
    <3>1. \E M \in SUBSET CostPages : Counts(M, CostFrames)'
      BY <1>6, <2>1
    <3>2. sampler'.pc = "tier"
      BY <1>3, <2>1
    <3> QED
      BY <3>1, <3>2 DEF SamplerMisses
  <2>2. CASE n + 1 # CostFrames
    <3>1. \E M \in SUBSET CostPages : Counts(M, n + 1)'
      BY <1>6
    <3>2. sampler'.pc = "frames" /\ sampler'.next < CostFrames /\ sampler'.next = n + 1
      BY <1>2, <1>3, <2>2
    <3>3. (\E M \in SUBSET CostPages : Counts(M, sampler.next))'
      BY <3>1, <3>2
    <3> QED
      BY <3>2, <3>3 DEF SamplerMisses
  <2> QED
    BY <2>1, <2>2
<1> QED
  BY <1>4, <1>7 DEF SamplerInv

(***************************************************************************)
(* A page without a slot is in a frame, and the tick has passed them all;  *)
(* every other page has a slot of its own.                                 *)
(***************************************************************************)
LEMMA TierCovers ==
    ASSUME PagesInv, NEW L \in SUBSET CostPages, L \subseteq AllocatedPages
    PROVE  Cardinality(L) <= Cardinality(Seen(L, CostFrames)) + SumFunction(copies)
<1> DEFINE Held == {p \in L : copies[p] > 0}
<1>1. copies \in [CostPages -> Nat] /\ resides \in [CostPages -> FrameNumbers \cup {NoPage}]
  BY DEF PagesInv, PagesTypeOK
<1>2. L = Seen(L, CostFrames) \cup Held /\ Seen(L, CostFrames) \cap Held = {}
  <2>1. ASSUME NEW p \in L, p \notin Held PROVE p \in Seen(L, CostFrames)
    <3>1. copies[p] = 0
      BY <1>1, <2>1
    <3>2. resides[p] \in FrameNumbers
      BY <1>1, <3>1 DEF AllocatedPages
    <3> QED
      BY <3>1, <3>2 DEF Seen, FrameNumbers
  <2> QED
    BY <2>1 DEF Seen
<1>3. Held \in SUBSET CostPages /\ \A p \in Held : copies[p] > 0
  OBVIOUS
<1> HIDE DEF Held
<1>4. IsFiniteSet(Held) /\ Cardinality(Held) \in Nat
  BY <1>3, CostNumbers, FS_Subset, FS_CardinalityType
<1>5. Cardinality(Held) <= SumFunction(copies)
  BY <1>1, <1>3, CostNumbers, SumCovers
<1>6. PICK a \in Nat : a = Cardinality(Seen(L, CostFrames))
  BY SeenNumbers
<1>7. Cardinality(L) = a + Cardinality(Held)
  <2>1. Cardinality(Seen(L, CostFrames) \cap Held) = 0
    BY <1>2, FS_EmptySet
  <2>2. Cardinality(L) = a + Cardinality(Held) - Cardinality(Seen(L, CostFrames) \cap Held)
    BY <1>2, <1>4, <1>6, SeenNumbers, FS_Union
  <2> QED
    BY <1>4, <2>1, <2>2
<1>8. SumFunction(copies) \in Nat
  BY <1>1, CostNumbers, SumNat
<1> QED
  BY <1>4, <1>5, <1>6, <1>7, <1>8

LEMMA TierKeeps ==
    ASSUME PagesInv, SamplerInv, SampleTier
    PROVE  SamplerInv'
<1>1. PICK L \in SUBSET CostPages : Counts(L, CostFrames)
  BY DEF SampleTier, SamplerInv, SamplerMisses
<1>2. PICK s : s = SumFunction(copies)
  OBVIOUS
<1>3. s \in Nat
  BY <1>2, CostNumbers, SumNat DEF PagesInv, PagesTypeOK
<1>4. /\ sampler'.pc = "charge" /\ sampler'.tier = s
      /\ sampler'.next = sampler.next /\ sampler'.dram = sampler.dram
      /\ sampler'.elapsed = sampler.elapsed /\ sampler'.least = sampler.least
      /\ DOMAIN sampler' = DOMAIN sampler
  <2>1. {"next", "dram", "pc", "tier", "elapsed", "least"} \subseteq DOMAIN sampler
    BY DEF SamplerInv, SamplerTypeOK, NotSampling
  <2> QED
    BY <1>2, <2>1 DEF SampleTier, UsedSlots
<1>5. SamplerTypeOK'
  BY <1>3, <1>4 DEF SamplerInv, SamplerTypeOK
<1>6. sampler.dram + s >= sampler.least
  <2>1. PICK a, b, h : a = Cardinality(Seen(L, CostFrames)) /\ b = Cardinality(L) /\ h = sampler.dram
    OBVIOUS
  <2>2. a \in Nat /\ b \in Nat /\ h \in Nat /\ a <= h /\ b = sampler.least
    BY <1>1, <2>1, SeenNumbers DEF Counts, SamplerInv, SamplerTypeOK
  <2>3. b <= a + s
    BY <1>1, <1>2, <2>1, TierCovers DEF Counts
  <2> QED
    BY <1>3, <2>1, <2>2, <2>3
<1>7. SamplerMisses'
  BY <1>4, <1>6 DEF SamplerMisses
<1> QED
  BY <1>5, <1>7 DEF SamplerInv

(* What the ticks have charged *)

CostTypeOK ==
    /\ cost.dram.usd \in Nat /\ cost.lower.usd \in Nat /\ cost.all_dram \in Nat
    /\ due \in Nat

\* AllDramCovers, also while nothing has been charged.
DramCharged ==
    /\ DramPrice * due <= cost.all_dram
    /\ (\A price \in TierPrices : price <= DramPrice) =>
          cost.dram.usd + cost.lower.usd <= cost.all_dram

CostInv == PagesInv /\ SamplerInv /\ CostTypeOK /\ DramCharged

(***************************************************************************)
(* Charging d + t pages covers the least there were, and charging t of     *)
(* them at most the DRAM price costs no more.                              *)
(***************************************************************************)
LEMMA Charges ==
    ASSUME NEW all \in Nat, NEW used \in Nat, NEW lower \in Nat, NEW d \in Nat, NEW t \in Nat,
           NEW e \in Nat, NEW least \in Nat, NEW charged \in Nat, NEW price \in Nat, NEW dram \in Nat,
           least <= d + t, dram * charged <= all
    PROVE  /\ used + (d * e) * dram \in Nat /\ lower + (t * e) * price \in Nat
           /\ all + ((d + t) * e) * dram \in Nat /\ charged + least * e \in Nat
           /\ dram * (charged + least * e) <= all + ((d + t) * e) * dram
           /\ price <= dram /\ used + lower <= all =>
                 (used + (d * e) * dram) + (lower + (t * e) * price) <= all + ((d + t) * e) * dram
<1>1. PICK x, y, z : x = d * e /\ y = t * e /\ z = least * e
  OBVIOUS
<1>2. x \in Nat /\ y \in Nat /\ z \in Nat /\ d + t \in Nat
  BY <1>1, Products
<1>3. (d + t) * e = x + y
  BY <1>1
<1>4. z <= x + y
  BY <1>1, <1>2, <1>3, Products
<1>5. z * dram \in Nat /\ (x + y) * dram \in Nat /\ z * dram <= (x + y) * dram /\ x + y \in Nat
  BY <1>2, <1>4, Products
<1>6. /\ x * dram \in Nat /\ y * dram \in Nat /\ y * price \in Nat
      /\ price <= dram => y * price <= y * dram
  BY <1>2, Products
<1>7. (x + y) * dram = x * dram + y * dram
  BY <1>2
<1>8. dram * (charged + z) = dram * charged + z * dram /\ dram * charged \in Nat
  BY <1>2
<1>9. dram * (charged + z) <= all + (x + y) * dram
  <2>1. PICK a, b, c : a = dram * charged /\ b = z * dram /\ c = (x + y) * dram
    OBVIOUS
  <2>2. a \in Nat /\ b \in Nat /\ c \in Nat /\ b <= c /\ a <= all
    BY <1>5, <1>8, <2>1
  <2>3. a + b <= all + c
    BY <2>2
  <2> QED
    BY <1>8, <2>1, <2>3
<1>10. ASSUME price <= dram, used + lower <= all
       PROVE  (used + x * dram) + (lower + y * price) <= all + (x + y) * dram
  <2>1. PICK a, b, c : a = x * dram /\ b = y * price /\ c = y * dram
    OBVIOUS
  <2>2. a \in Nat /\ b \in Nat /\ c \in Nat /\ b <= c
    BY <1>6, <1>10, <2>1
  <2>3. (used + a) + (lower + b) <= all + (a + c)
    BY <1>10, <2>2
  <2> QED
    BY <1>7, <2>1, <2>3
<1>11. /\ used + x * dram \in Nat /\ lower + y * price \in Nat
       /\ all + (x + y) * dram \in Nat /\ charged + z \in Nat
  BY <1>2, <1>5, <1>6
<1> QED
  BY <1>1, <1>3, <1>9, <1>10, <1>11

LEMMA ChargedCovers ==
    ASSUME CostTypeOK, DramCharged
    PROVE  AllDramCovers
<1>1. cost.all_dram > 0 => Ratio = <<cost.dram.usd + cost.lower.usd, cost.all_dram>>
  BY DEF Ratio, ActualCost
<1>2. ~(cost.all_dram > 0) => Ratio = <<>>
  BY DEF Ratio
<1>3. DramPrice * due \in Nat
  BY CostNumbers, Products DEF CostTypeOK
<1> QED
  BY <1>1, <1>2, <1>3 DEF CostTypeOK, AllDramCovers, DramCharged

(***************************************************************************)
(* ResidencyCost::tick charges what the tick has counted.                  *)
(***************************************************************************)
LEMMA TickCovers ==
    ASSUME CostTypeOK, DramCharged, SamplerTypeOK, sampler.dram + sampler.tier >= sampler.least, Tick
    PROVE  CostTypeOK' /\ DramCharged'
<1>1. PICK all, used, lower, d, t, e, least, charged :
         /\ all = cost.all_dram /\ used = cost.dram.usd /\ lower = cost.lower.usd
         /\ d = sampler.dram /\ t = sampler.tier /\ e = sampler.elapsed
         /\ least = sampler.least /\ charged = due
  OBVIOUS
<1>2. /\ all \in Nat /\ used \in Nat /\ lower \in Nat /\ d \in Nat /\ t \in Nat /\ e \in Nat
      /\ least \in Nat /\ charged \in Nat /\ least <= d + t
  BY <1>1 DEF CostTypeOK, SamplerTypeOK
<1>3. /\ DramPrice * charged <= all
      /\ (\A price \in TierPrices : price <= DramPrice) => used + lower <= all
  BY <1>1 DEF DramCharged
<1>4. due' = charged + least * e
  BY <1>1 DEF Tick
<1>5. CASE e = 0
  <2>1. cost' = cost /\ due' = due
    BY <1>1, <1>2, <1>4, <1>5 DEF Tick
  <2> QED
    BY <2>1 DEF CostTypeOK, DramCharged
<1>6. CASE e # 0
  <2>1. PICK price \in TierPrices :
           cost' = [dram |-> Charge(cost.dram, d * e, DramPrice),
                    lower |-> Charge(cost.lower, t * e, price),
                    all_dram |-> all + (d + t) * e * DramPrice]
    BY <1>1, <1>6 DEF Tick
  <2>2. price \in Nat /\ DramPrice \in Nat
    BY CostAssumption
  <2>3. /\ cost'.dram.usd = used + (d * e) * DramPrice
        /\ cost'.lower.usd = lower + (t * e) * price
        /\ cost'.all_dram = all + ((d + t) * e) * DramPrice
    BY <1>1, <2>1 DEF Charge
  <2>4. CostTypeOK'
    BY <1>2, <1>3, <1>4, <2>2, <2>3, Charges DEF CostTypeOK
  <2>5. DramPrice * due' <= cost'.all_dram
    BY <1>2, <1>3, <1>4, <2>2, <2>3, Charges
  <2>6. ASSUME \A q \in TierPrices : q <= DramPrice, used + lower <= all
        PROVE  cost'.dram.usd + cost'.lower.usd <= cost'.all_dram
    <3>1. price <= DramPrice
      BY <2>6
    <3> QED
      BY <1>2, <1>3, <2>2, <2>3, <2>6, <3>1, Charges
  <2>7. DramCharged'
    BY <1>3, <2>5, <2>6 DEF DramCharged
  <2> QED
    BY <2>4, <2>7
<1> QED
  BY <1>5, <1>6

(***************************************************************************)
(* A step of the sampling.                                                 *)
(***************************************************************************)
LEMMA SampleStepKeeps ==
    ASSUME CostInv, SampleStep
    PROVE  CostInv'
<1>1. PagesInv'
  <2>1. UNCHANGED pageSide
    BY DEF SampleStep, SampleStarts, SampleFrame, SampleTier, Tick
  <2>2. PagesTypeOK' /\ SlotRemains'
    BY <2>1 DEF CostInv, PagesInv, PagesTypeOK, SlotRemains, Freeing, pageSide
  <2>3. PagesPlaced'
    BY <2>1 DEF CostInv, PagesInv, PagesPlaced, EvictorPlaced, pageSide
  <2> QED
    BY <2>2, <2>3 DEF PagesInv
<1>2. CASE SampleStarts \/ SampleFrame \/ SampleTier
  <2>1. SamplerInv'
    BY <1>2, StartKeeps, FrameKeeps, TierKeeps DEF CostInv
  <2>2. UNCHANGED <<cost, due>>
    BY <1>2 DEF SampleStarts, SampleFrame, SampleTier
  <2> QED
    BY <1>1, <2>1, <2>2 DEF CostInv, CostTypeOK, DramCharged
<1>3. CASE Tick
  <2>1. sampler.dram + sampler.tier >= sampler.least
    BY <1>3 DEF Tick, CostInv, SamplerInv, SamplerMisses
  <2>2. CostTypeOK' /\ DramCharged'
    BY <1>3, <2>1, TickCovers DEF CostInv, SamplerInv
  <2>3. sampler' = NotSampling
    BY <1>3 DEF Tick
  <2>4. SamplerInv'
    BY <2>3 DEF SamplerInv, SamplerTypeOK, SamplerMisses, NotSampling
  <2> QED
    BY <1>1, <2>2, <2>4 DEF CostInv
<1> QED
  BY <1>2, <1>3 DEF SampleStep

LEMMA InitCost == Init => CostInv
<1> SUFFICES ASSUME Init PROVE CostInv
  OBVIOUS
<1>1. CostInit
  BY DEF Init
<1>2. PagesTypeOK
  <2>1. NotEvicting \in EvictorState
    BY DEF EvictorState, NotEvicting
  <2> QED
    BY <1>1, <2>1 DEF CostInit, PagesTypeOK, FrameNumbers
<1>3. \A e \in CostEvictors : evictor[e] = NotEvicting
  BY <1>1 DEF CostInit
<1>4. PagesPlaced
  <2>1. ASSUME NEW e \in CostEvictors PROVE EvictorPlaced(e)
    <3>1. evictor[e] = NotEvicting
      BY <1>3
    <3>2. NotEvicting.pc = "idle"
      BY DEF NotEvicting
    <3>3. evictor[e].pc = "idle"
      BY <3>1, <3>2
    <3> QED
      BY <3>1, <3>3 DEF EvictorPlaced
  <2> QED
    BY <1>1, <1>3, <2>1 DEF CostInit, PagesPlaced, NotEvicting
<1>5. SlotRemains
  <2>1. ASSUME NEW p \in CostPages PROVE Freeing(p) = {} /\ copies[p] = 0
    BY <1>1, <1>3 DEF CostInit, Freeing, NotEvicting
  <2>2. ASSUME NEW p \in CostPages PROVE ~\E e \in CostEvictors : evictor[e].page = p
    BY <1>3, CostNumbers DEF NotEvicting
  <2>3. ASSUME NEW p \in CostPages PROVE copies[p] >= Cardinality(Freeing(p))
    <3>1. Cardinality(Freeing(p)) = 0
      BY <2>1, FS_EmptySet
    <3> QED
      BY <2>1, <3>1
  <2> QED
    BY <2>2, <2>3 DEF SlotRemains
<1>6. SamplerInv
  BY <1>1 DEF CostInit, SamplerInv, SamplerTypeOK, SamplerMisses, NotSampling
<1>7. CostTypeOK /\ DramCharged
  <2>1. cost.dram.usd = 0 /\ cost.lower.usd = 0 /\ cost.all_dram = 0 /\ due = 0
    BY <1>1 DEF CostInit, NoCost
  <2>2. DramPrice * 0 = 0
    BY CostNumbers
  <2> QED
    BY <2>1, <2>2 DEF CostTypeOK, DramCharged
<1> QED
  BY <1>2, <1>4, <1>5, <1>6, <1>7 DEF CostInv, PagesInv

LEMMA CostStepKeeps == CostInv /\ [Next]_vars => CostInv'
<1> SUFFICES ASSUME CostInv, [Next]_vars PROVE CostInv'
  OBVIOUS
<1>1. CASE PageStep
  <2>1. PagesInv' /\ PagesRemain /\ UNCHANGED tickSide
    BY <1>1, PageStepKeeps DEF CostInv
  <2>2. SamplerInv'
    BY <2>1, PagesKeepSampler DEF CostInv
  <2> QED
    BY <2>1, <2>2 DEF CostInv, CostTypeOK, DramCharged, tickSide
<1>2. CASE SampleStep
  BY <1>2, SampleStepKeeps
<1>3. CASE UNCHANGED costVars
  <2>1. PagesTypeOK' /\ SlotRemains'
    BY <1>3 DEF CostInv, PagesInv, PagesTypeOK, SlotRemains, Freeing, costVars
  <2>2. PagesPlaced'
    BY <1>3 DEF CostInv, PagesInv, PagesPlaced, EvictorPlaced, costVars
  <2>3. PagesRemain /\ UNCHANGED tickSide
    BY <1>3 DEF PagesRemain, costVars, tickSide
  <2>4. SamplerInv'
    BY <2>1, <2>2, <2>3, PagesKeepSampler DEF CostInv, PagesInv
  <2> QED
    BY <2>1, <2>2, <2>3, <2>4 DEF CostInv, PagesInv, CostTypeOK, DramCharged, tickSide
<1> QED
  BY <1>1, <1>2, <1>3 DEF Next, vars

(***************************************************************************)
(* Where pages are, what a tick has seen of them and what it charges, in   *)
(* every reachable state: an evicted page keeps a slot that no evictor is  *)
(* about to free, and a tick has counted every page it passed.             *)
(***************************************************************************)
THEOREM CostInductive == Spec => []CostInv
BY InitCost, CostStepKeeps, PTL DEF Spec

(***************************************************************************)
(* The all-DRAM counterfactual covers every page that existed when a tick  *)
(* began, and as long as no tier costs more than DRAM tiering is never     *)
(* reported to cost more (tick_epoch and ResidencyCost::tick), for any     *)
(* number of frames, pages and evictors and any prices.                    *)
(***************************************************************************)
THEOREM DramCovers == Spec => []AllDramCovers
<1>1. CostInv => AllDramCovers
  BY ChargedCovers DEF CostInv
<1> QED
  BY <1>1, CostInductive, PTL
=============================================================================
