----------------------------- MODULE CostProofs -----------------------------
(***************************************************************************)
(* What is proved of Costs: the sums that the model and the code add up,   *)
(* the arithmetic that two pieces of code share, the one row a day of a    *)
(* threshold check, the one expense of a task or a link, the price of a    *)
(* link that its expense follows, the types, the money of an expense in    *)
(* all cost centres, the envelopes of budgets and their cycles, and the    *)
(* announcement of every budget that a checked change pushes over.         *)
(***************************************************************************)
EXTENDS Costs, FiniteSetTheorems, WellFoundedInduction, TLAPS

-----------------------------------------------------------------------------
\* Sums over finite sets, by induction on the set.

(* A family of finite sets has a member none of whose proper subsets is in it. *)
LEMMA Smallest ==
  ASSUME NEW S, IsFiniteSet(S), NEW family \in SUBSET SUBSET S, family # {}
  PROVE  \E T \in family : \A U \in family : U \subseteq T => U = T
<1>1. FiniteSubsetsOf(S) = SUBSET S
  BY FS_FiniteSubsetsOfFinite
<1>2. IsWellFoundedOn(StrictSubsetOrdering(S), SUBSET S)
  BY <1>1, FS_StrictSubsetOrderingWellFounded
<1>3. PICK T \in family : \A U \in family : ~ (<<U, T>> \in StrictSubsetOrdering(S))
  BY <1>2, WFMin
<1> QED BY <1>3 DEF StrictSubsetOrdering

\* The first element a sum takes, and a table of the sums of the subsets of S.
First(S) == CHOOSE x \in S : TRUE
Sums(f, S, sum) ==
  sum = [s \in SUBSET S |-> IF s = {} THEN 0 ELSE f[First(s)] + sum[s \ {First(s)}]]

(* What a sum takes first is an element of the set. *)
LEMMA FirstIsIn == ASSUME NEW S, S # {} PROVE First(S) \in S
  BY DEF First

(* A table of sums, read at any set below. *)
LEMMA SumsAt ==
  ASSUME NEW f, NEW S, NEW sum, Sums(f, S, sum), NEW T \in SUBSET S
  PROVE  /\ T = {} => sum[T] = 0
         /\ T # {} => sum[T] = f[First(T)] + sum[T \ {First(T)}]
  BY DEF Sums

(* Two tables agree where both are defined. *)
LEMMA SumsAgree ==
  ASSUME NEW f, NEW S, IsFiniteSet(S), NEW sum, Sums(f, S, sum), NEW R, NEW other, Sums(f, R, other),
         NEW T \in SUBSET S, T \in SUBSET R
  PROVE  sum[T] = other[T]
<1> DEFINE differ == {U \in SUBSET S : U \in SUBSET R /\ sum[U] # other[U]}
<1> SUFFICES differ = {}
  OBVIOUS
<1>1. SUFFICES ASSUME differ # {} PROVE FALSE
  OBVIOUS
<1>2. PICK U \in differ : \A V \in differ : V \subseteq U => V = U
  <2> HIDE DEF differ
  <2>1. differ \in SUBSET SUBSET S
    BY DEF differ
  <2> QED BY <1>1, <2>1, Smallest
<1>3. U # {}
  BY <1>2, SumsAt
<1>4. First(U) \in U
  BY <1>3, FirstIsIn
<1>5. U \ {First(U)} \notin differ
  BY <1>2, <1>4
<1>6. sum[U \ {First(U)}] = other[U \ {First(U)}]
  BY <1>2, <1>5
<1> QED BY <1>2, <1>3, <1>6, SumsAt

(* There is a table. *)
LEMMA SumsExist ==
  ASSUME NEW f, NEW S, IsFiniteSet(S)
  PROVE  \E sum : Sums(f, S, sum)
<1> DEFINE without == {U \in SUBSET S : ~ \E sum : Sums(f, U, sum)}
<1>1. SUFFICES ASSUME without # {} PROVE FALSE
  BY DEF without
<1>2. PICK U \in without : \A V \in without : V \subseteq U => V = U
  <2> HIDE DEF without
  <2>1. without \in SUBSET SUBSET S
    BY DEF without
  <2> QED BY <1>1, <2>1, Smallest
<1>3. \A x \in U : \E sum : Sums(f, U \ {x}, sum)
  BY <1>2
<1> DEFINE table(x) == CHOOSE sum : Sums(f, U \ {x}, sum)
           all == [s \in SUBSET U |-> IF s = {} THEN 0 ELSE f[First(s)] + table(First(s))[s \ {First(s)}]]
<1>4. ASSUME NEW s \in SUBSET U, s # {}
      PROVE  all[s \ {First(s)}] = table(First(s))[s \ {First(s)}]
  <2>1. PICK t : t = s \ {First(s)}
    OBVIOUS
  <2>2. First(s) \in s /\ t \in SUBSET U
    BY <1>4, <2>1, FirstIsIn
  <2>3. Sums(f, U \ {First(s)}, table(First(s)))
    BY <1>3, <2>2
  <2>4. CASE t = {}
    BY <2>1, <2>3, <2>4, SumsAt
  <2>5. CASE t # {}
    <3>1. First(t) \in t
      BY <2>5, FirstIsIn
    <3>2. Sums(f, U \ {First(t)}, table(First(t)))
      BY <1>3, <2>2, <3>1
    <3>3. PICK r : r = t \ {First(t)}
      OBVIOUS
    <3>4. r \in SUBSET (U \ {First(t)}) /\ r \in SUBSET (U \ {First(s)})
      BY <2>1, <2>2, <3>3
    <3>5. IsFiniteSet(U \ {First(t)})
      BY FS_Subset
    <3>6. table(First(t))[r] = table(First(s))[r]
      <4> HIDE DEF table
      <4> QED BY <2>3, <3>2, <3>4, <3>5, SumsAgree
    <3>7. all[t] = f[First(t)] + table(First(t))[r]
      BY <2>2, <2>5, <3>3
    <3>8. table(First(s))[t] = f[First(t)] + table(First(s))[r]
      <4> HIDE DEF table
      <4>1. t \in SUBSET (U \ {First(s)})
        BY <2>1, <2>2
      <4> QED BY <4>1, <2>3, <2>5, <3>3, SumsAt
    <3> QED BY <2>1, <3>6, <3>7, <3>8
  <2> QED BY <2>4, <2>5
<1>5. Sums(f, U, all)
  <2> DEFINE goal == [s \in SUBSET U |-> IF s = {} THEN 0 ELSE f[First(s)] + all[s \ {First(s)}]]
  <2>1. \A s \in SUBSET U : all[s] = goal[s]
    <3> HIDE DEF table
    <3> TAKE s \in SUBSET U
    <3>1. s # {} => all[s \ {First(s)}] = table(First(s))[s \ {First(s)}]
      BY <1>4
    <3>2. s # {} => all[s] = f[First(s)] + table(First(s))[s \ {First(s)}]
      OBVIOUS
    <3> HIDE DEF all
    <3>3. s # {} => all[s] = f[First(s)] + all[s \ {First(s)}]
      BY <3>1, <3>2
    <3>4. s = {} => all[s] = 0
      BY DEF all
    <3> QED BY <3>3, <3>4
  <2>2. all = goal
    BY <2>1
  <2> QED BY <2>2 DEF Sums
<1> QED BY <1>2, <1>5

(* A sum over a finite set takes its first element and goes on with the rest. *)
LEMMA SumFirst ==
  ASSUME NEW f, NEW S, IsFiniteSet(S)
  PROVE  /\ S = {} => SumFunctionOnSet(f, S) = 0
         /\ S # {} => SumFunctionOnSet(f, S) = f[First(S)] + SumFunctionOnSet(f, S \ {First(S)})
<1> DEFINE table(T) == CHOOSE sum : Sums(f, T, sum)
<1>1. ASSUME NEW T PROVE SumFunctionOnSet(f, T) = table(T)[T]
  BY DEF SumFunctionOnSet, FoldFunctionOnSet, MapThenFoldSet, Sums, First
<1>2. ASSUME NEW T \in SUBSET S PROVE Sums(f, T, table(T))
  BY FS_Subset, SumsExist
<1> HIDE DEF table
<1>3. CASE S = {}
  <2>1. Sums(f, S, table(S)) /\ table(S)[S] = 0
    BY <1>2, <1>3, SumsAt
  <2> QED BY <1>1, <1>3, <2>1
<1>4. CASE S # {}
  <2>1. PICK rest : rest = S \ {First(S)}
    OBVIOUS
  <2>0. rest \in SUBSET S /\ rest \in SUBSET rest
    BY <2>1
  <2>a. Sums(f, S, table(S)) /\ Sums(f, rest, table(rest))
    BY <1>2, <2>0
  <2>2. table(S)[rest] = table(rest)[rest]
    BY <2>0, <2>a, SumsAgree
  <2>3. table(S)[S] = f[First(S)] + table(S)[rest]
    BY <2>a, <1>4, <2>1, SumsAt
  <2> QED BY <1>1, <1>4, <2>1, <2>2, <2>3
<1> QED BY <1>3, <1>4

(* The sum of integers is one, and takes any of its elements first. *)
LEMMA SumAny ==
  ASSUME NEW f, NEW S, IsFiniteSet(S), \A x \in S : f[x] \in Int
  PROVE  /\ SumFunctionOnSet(f, S) \in Int
         /\ \A y \in S : SumFunctionOnSet(f, S) = f[y] + SumFunctionOnSet(f, S \ {y})
<1> DEFINE Good(T) == /\ SumFunctionOnSet(f, T) \in Int
                      /\ \A y \in T : SumFunctionOnSet(f, T) = f[y] + SumFunctionOnSet(f, T \ {y})
           bad == {T \in SUBSET S : ~ Good(T)}
<1>1. SUFFICES ASSUME bad # {} PROVE FALSE
  BY DEF bad
<1>2. PICK T \in bad : \A V \in bad : V \subseteq T => V = T
  <2> HIDE DEF bad
  <2>1. bad \in SUBSET SUBSET S
    BY DEF bad
  <2> QED BY <1>1, <2>1, Smallest
<1>3. \A x \in T : Good(T \ {x})
  <2> HIDE DEF Good
  <2> QED BY <1>2
<1>4. IsFiniteSet(T)
  BY <1>2, FS_Subset
<1>5. CASE T = {}
  <2>1. SumFunctionOnSet(f, T) = 0
    BY <1>4, <1>5, SumFirst
  <2> QED BY <1>2, <1>5, <2>1
<1>6. CASE T # {}
  <2>1. PICK a \in T : SumFunctionOnSet(f, T) = f[a] + SumFunctionOnSet(f, T \ {a})
    BY <1>4, <1>6, SumFirst, FirstIsIn
  <2>2. SumFunctionOnSet(f, T) \in Int
    BY <1>2, <1>3, <2>1
  <2>3. ASSUME NEW y \in T, y # a
        PROVE  SumFunctionOnSet(f, T) = f[y] + SumFunctionOnSet(f, T \ {y})
    <3> PICK rest : rest = (T \ {a}) \ {y}
      OBVIOUS
    <3>1. rest = (T \ {y}) \ {a}
      OBVIOUS
    <3>2. SumFunctionOnSet(f, T \ {a}) = f[y] + SumFunctionOnSet(f, rest)
      BY <1>3, <2>3
    <3>3. SumFunctionOnSet(f, T \ {y}) = f[a] + SumFunctionOnSet(f, rest)
      BY <1>3, <2>3, <3>1
    <3>4. SumFunctionOnSet(f, rest) \in Int /\ f[a] \in Int /\ f[y] \in Int
      <4>1. IsFiniteSet(T \ {a}) /\ y \in T \ {a}
        BY <1>4, <2>3, FS_RemoveElement
      <4>2. rest \in SUBSET S /\ rest # T /\ rest \subseteq T
        BY <1>2, <2>3
      <4>3. Good(rest)
        <5> HIDE DEF Good
        <5> QED BY <1>2, <4>2
      <4> QED BY <1>2, <4>3
    <3> QED BY <2>1, <3>2, <3>3, <3>4
  <2> QED BY <1>2, <2>1, <2>2, <2>3
<1> QED BY <1>5, <1>6

(* The empty sum. *)
LEMMA SumNone == ASSUME NEW f PROVE SumFunctionOnSet(f, {}) = 0
  BY SumFirst, FS_EmptySet

(* A sum does not decrease when its terms grow and terms of zero or more join. *)
LEMMA SumGrows ==
  ASSUME NEW f, NEW g, NEW T, IsFiniteSet(T), NEW S \in SUBSET T,
         \A x \in T : g[x] \in Int,
         \A x \in S : f[x] \in Int /\ f[x] <= g[x],
         \A x \in T \ S : 0 <= g[x]
  PROVE  SumFunctionOnSet(f, S) <= SumFunctionOnSet(g, T)
<1> DEFINE Good(U) == SumFunctionOnSet(f, U \cap S) <= SumFunctionOnSet(g, U)
           bad == {U \in SUBSET T : ~ Good(U)}
<1>1. SUFFICES ASSUME bad # {} PROVE FALSE
  <2>1. T \cap S = S
    OBVIOUS
  <2> QED BY <2>1
<1>2. PICK U \in bad : \A V \in bad : V \subseteq U => V = U
  <2> HIDE DEF bad
  <2>1. bad \in SUBSET SUBSET T
    BY DEF bad
  <2> QED BY <1>1, <2>1, Smallest
<1>3. \A x \in U : Good(U \ {x})
  <2> HIDE DEF Good
  <2> QED BY <1>2
<1>4. IsFiniteSet(U) /\ IsFiniteSet(U \cap S) /\ U \in SUBSET T
  BY <1>2, FS_Subset
<1>5. CASE U = {}
  <2>1. SumFunctionOnSet(g, U) = 0
    BY <1>5, SumNone
  <2>2. U \cap S = {}
    BY <1>5
  <2>3. SumFunctionOnSet(f, U \cap S) = 0
    BY <2>2, SumNone
  <2> QED BY <1>2, <2>1, <2>3
<1>6. ASSUME NEW y \in U PROVE FALSE
  <2>0. PICK V, W : V = U \ {y} /\ W = (U \cap S) \ {y}
    OBVIOUS
  <2>1. SumFunctionOnSet(g, U) = g[y] + SumFunctionOnSet(g, V)
    BY <1>4, <2>0, SumAny
  <2>2. SumFunctionOnSet(g, V) \in Int /\ SumFunctionOnSet(f, W) \in Int
    <3>1. IsFiniteSet(V) /\ IsFiniteSet(W) /\ V \subseteq T /\ W \subseteq S
      BY <1>4, <2>0, FS_RemoveElement
    <3> QED BY <3>1, SumAny
  <2>3. SumFunctionOnSet(f, W) <= SumFunctionOnSet(g, V)
    <3>1. V \cap S = W
      BY <2>0
    <3> QED BY <1>3, <2>0, <3>1
  <2>4. CASE y \in S
    <3>1. SumFunctionOnSet(f, U \cap S) = f[y] + SumFunctionOnSet(f, W)
      BY <1>4, <2>0, <2>4, SumAny
    <3> QED BY <1>2, <1>4, <2>1, <2>2, <2>3, <2>4, <3>1
  <2>5. CASE y \notin S
    <3>1. U \cap S = W
      BY <2>0, <2>5
    <3>2. y \in T \ S /\ g[y] \in Int /\ 0 <= g[y]
      BY <1>4, <2>5
    <3>3. SumFunctionOnSet(f, U \cap S) <= SumFunctionOnSet(g, U)
      BY <2>1, <2>2, <2>3, <3>1, <3>2
    <3> QED BY <1>2, <3>3
  <2> QED BY <2>4, <2>5
<1> QED BY <1>5, <1>6

(* Sums of the same terms are the same. *)
LEMMA SumSame ==
  ASSUME NEW f, NEW g, NEW S, IsFiniteSet(S), \A x \in S : f[x] \in Int /\ f[x] = g[x]
  PROVE  SumFunctionOnSet(f, S) = SumFunctionOnSet(g, S)
<1>1. SumFunctionOnSet(f, S) <= SumFunctionOnSet(g, S) /\ SumFunctionOnSet(g, S) <= SumFunctionOnSet(f, S)
  BY SumGrows
<1>2. SumFunctionOnSet(f, S) \in Int /\ SumFunctionOnSet(g, S) \in Int
  BY SumAny
<1> QED BY <1>1, <1>2

(* k times the sum of terms and those of another. *)
LEMMA SumLinear ==
  ASSUME NEW f, NEW g, NEW h, NEW j \in Int, NEW k \in Int, NEW S, IsFiniteSet(S),
         \A x \in S : f[x] \in Int /\ g[x] \in Int /\ h[x] \in Int /\ j * h[x] = k * f[x] + g[x]
  PROVE  j * SumFunctionOnSet(h, S) = k * SumFunctionOnSet(f, S) + SumFunctionOnSet(g, S)
<1> DEFINE Good(U) == j * SumFunctionOnSet(h, U) = k * SumFunctionOnSet(f, U) + SumFunctionOnSet(g, U)
           bad == {U \in SUBSET S : ~ Good(U)}
<1>1. SUFFICES ASSUME bad # {} PROVE FALSE
  OBVIOUS
<1>2. PICK U \in bad : \A V \in bad : V \subseteq U => V = U
  <2> HIDE DEF bad
  <2>1. bad \in SUBSET SUBSET S
    BY DEF bad
  <2> QED BY <1>1, <2>1, Smallest
<1>3. \A x \in U : Good(U \ {x})
  <2> HIDE DEF Good
  <2> QED BY <1>2
<1>4. IsFiniteSet(U) /\ U \in SUBSET S
  BY <1>2, FS_Subset
<1>5. CASE U = {}
  BY <1>2, <1>5, SumNone
<1>6. ASSUME NEW y \in U PROVE FALSE
  <2>0. PICK V : V = U \ {y}
    OBVIOUS
  <2>1. /\ SumFunctionOnSet(f, U) = f[y] + SumFunctionOnSet(f, V)
        /\ SumFunctionOnSet(g, U) = g[y] + SumFunctionOnSet(g, V)
        /\ SumFunctionOnSet(h, U) = h[y] + SumFunctionOnSet(h, V)
    BY <1>4, <2>0, SumAny
  <2>2. /\ SumFunctionOnSet(f, V) \in Int
        /\ SumFunctionOnSet(g, V) \in Int
        /\ SumFunctionOnSet(h, V) \in Int
    <3>1. IsFiniteSet(V) /\ V \subseteq S
      BY <1>4, <2>0, FS_RemoveElement
    <3> QED BY <3>1, SumAny
  <2>3. j * SumFunctionOnSet(h, V) = k * SumFunctionOnSet(f, V) + SumFunctionOnSet(g, V)
    BY <1>3, <2>0
  <2>4. f[y] \in Int /\ g[y] \in Int /\ h[y] \in Int /\ j * h[y] = k * f[y] + g[y]
    BY <1>4
  <2>5. j * (h[y] + SumFunctionOnSet(h, V)) = k * (f[y] + SumFunctionOnSet(f, V)) + (g[y] + SumFunctionOnSet(g, V))
    <3> PICK a, b, c, d, e, i : /\ a = h[y] /\ b = f[y] /\ c = g[y]
                               /\ d = SumFunctionOnSet(h, V) /\ e = SumFunctionOnSet(f, V)
                               /\ i = SumFunctionOnSet(g, V)
      OBVIOUS
    <3>1. /\ a \in Int /\ b \in Int /\ c \in Int /\ d \in Int /\ e \in Int /\ i \in Int
          /\ j * a = k * b + c /\ j * d = k * e + i
      BY <2>2, <2>3, <2>4
    <3>2. j * (a + d) = j * a + j * d /\ k * (b + e) = k * b + k * e
      BY <3>1
    <3>3. j * a \in Int /\ j * d \in Int /\ k * b \in Int /\ k * e \in Int
      BY <3>1
    <3>4. j * (a + d) = k * (b + e) + (c + i)
      BY <3>1, <3>2, <3>3
    <3> QED BY <3>4
  <2> QED BY <1>2, <2>1, <2>5
<1> QED BY <1>5, <1>6

(* A sum of zeros, and a sum over a set that holds all that is not zero. *)
LEMMA SumZero ==
  ASSUME NEW f, NEW S, IsFiniteSet(S), \A x \in S : f[x] = 0
  PROVE  SumFunctionOnSet(f, S) = 0
<1>1. \A x \in S : f[x] \in Int /\ 0 * f[x] = 0 * f[x] + f[x]
  OBVIOUS
<1>2. 0 * SumFunctionOnSet(f, S) = 0 * SumFunctionOnSet(f, S) + SumFunctionOnSet(f, S)
  BY <1>1, SumLinear
<1>3. SumFunctionOnSet(f, S) \in Int
  BY <1>1, SumAny
<1> QED BY <1>2, <1>3

(* A sum over a larger set is the same where the function is 0 outside the smaller one. *)
LEMMA SumWithin ==
  ASSUME NEW f, NEW g, NEW T, IsFiniteSet(T), NEW S \in SUBSET T,
         \A x \in S : f[x] \in Int /\ g[x] = f[x], \A x \in T \ S : g[x] = 0
  PROVE  SumFunctionOnSet(g, T) = SumFunctionOnSet(f, S)
<1>0. IsFiniteSet(S)
  BY FS_Subset
<1>1. \A x \in T : g[x] \in Int
  OBVIOUS
<1>2. SumFunctionOnSet(f, S) <= SumFunctionOnSet(g, T)
  BY <1>1, SumGrows
<1> PICK u, v : u = [x \in S |-> 0 - f[x]] /\ v = [x \in T |-> 0 - g[x]]
  OBVIOUS
<1>3. /\ \A x \in S : u[x] \in Int /\ u[x] = 0 - f[x]
      /\ \A x \in T : v[x] \in Int /\ v[x] = 0 - g[x]
      /\ \A x \in S : u[x] = v[x]
  BY <1>1
<1>4. SumFunctionOnSet(u, S) <= SumFunctionOnSet(v, T)
  <2>1. \A x \in T \ S : 0 <= v[x]
    BY <1>3
  <2> QED BY <1>3, <2>1, SumGrows
<1>5. 0 * SumFunctionOnSet(u, S) = 1 * SumFunctionOnSet(f, S) + SumFunctionOnSet(u, S)
  <2>1. \A x \in S : f[x] \in Int /\ u[x] \in Int /\ 0 * u[x] = 1 * f[x] + u[x]
    BY <1>3
  <2> QED BY <1>0, <2>1, SumLinear
<1>6. 0 * SumFunctionOnSet(v, T) = 1 * SumFunctionOnSet(g, T) + SumFunctionOnSet(v, T)
  <2>1. \A x \in T : g[x] \in Int /\ v[x] \in Int /\ 0 * v[x] = 1 * g[x] + v[x]
    BY <1>1, <1>3
  <2> QED BY <2>1, SumLinear
<1>7. /\ SumFunctionOnSet(u, S) \in Int /\ SumFunctionOnSet(v, T) \in Int
      /\ SumFunctionOnSet(f, S) \in Int /\ SumFunctionOnSet(g, T) \in Int
  BY <1>0, <1>1, <1>3, SumAny
<1> PICK a, b, c, d : /\ a = SumFunctionOnSet(u, S) /\ b = SumFunctionOnSet(v, T)
                      /\ c = SumFunctionOnSet(f, S) /\ d = SumFunctionOnSet(g, T)
  OBVIOUS
<1>8. a \in Int /\ b \in Int /\ c \in Int /\ d \in Int /\ c <= d /\ a <= b
  BY <1>2, <1>4, <1>7
<1>9. 0 * a = 1 * c + a /\ 0 * b = 1 * d + b
  BY <1>5, <1>6
<1>10. d <= c
  BY <1>8, <1>9
<1> QED BY <1>8, <1>10

(* The sum of sums. *)
LEMMA SumPlus ==
  ASSUME NEW f, NEW g, NEW h, NEW S, IsFiniteSet(S),
         \A x \in S : f[x] \in Int /\ g[x] \in Int /\ h[x] = f[x] + g[x]
  PROVE  SumFunctionOnSet(h, S) = SumFunctionOnSet(f, S) + SumFunctionOnSet(g, S)
<1>1. \A x \in S : f[x] \in Int /\ g[x] \in Int /\ h[x] \in Int /\ 1 * h[x] = 1 * f[x] + g[x]
  OBVIOUS
<1>2. 1 * SumFunctionOnSet(h, S) = 1 * SumFunctionOnSet(f, S) + SumFunctionOnSet(g, S)
  BY <1>1, SumLinear
<1>3. SumFunctionOnSet(h, S) \in Int /\ SumFunctionOnSet(f, S) \in Int
  BY <1>1, SumAny
<1> QED BY <1>2, <1>3

-----------------------------------------------------------------------------
\* The arithmetic of the report and of the batched query.

(* The longer of one month and n of them. *)
LEMMA MaxOne == ASSUME NEW n \in Int, n >= 1 PROVE Max({1, n}) = n
  BY DEF Max

(* Months follow their dates, and an even date begins a month. *)
LEMMA MonthMonotone ==
  ASSUME NEW a \in Int, NEW b \in Int
  PROVE  /\ Month(a) \in Int /\ Month(b) \in Int
         /\ a <= b => Month(a) <= Month(b)
         /\ a < b /\ (a % 2 = 1 \/ b % 2 = 0) => Month(a) < Month(b)
  BY DEF Month

\* The months of ReportedByMonth, and the ends of MonthsForRecurring.
Months(from, to, start, end) ==
  {m \in Month(from)..Month(to) : Month(start) <= m /\ (end # None => m <= Month(end))}

From(from, start) == IF start > from THEN start ELSE from
To(to, end) == IF end # None /\ end < to THEN end ELSE to

(* The months of the series are as many as the difference counts. *)
LEMMA MonthsCounted ==
  ASSUME NEW from \in Int, NEW to \in Int, NEW start \in Int, NEW end,
         end = None \/ (end \in Int /\ end # None /\ start <= end),
         from % 2 = 0, to % 2 = 1, from <= to
  PROVE  Cardinality(Months(from, to, start, end)) =
           IF From(from, start) > To(to, end) THEN 0 ELSE MonthsBetween(From(from, start), To(to, end))
<1> PICK f, t : f = From(from, start) /\ t = To(to, end)
  OBVIOUS
<1>1. f \in Int /\ t \in Int /\ Month(f) \in Int /\ Month(t) \in Int
  BY MonthMonotone DEF From, To
<1>2. CASE f <= t
  <2>1. Months(from, to, start, end) = Month(f)..Month(t)
    <3>1. ASSUME NEW m \in Int
          PROVE  (Month(from) <= m /\ Month(start) <= m) <=> Month(f) <= m
      BY MonthMonotone DEF From
    <3>2. ASSUME NEW m \in Int
          PROVE  (m <= Month(to) /\ (end # None => m <= Month(end))) <=> m <= Month(t)
      BY MonthMonotone DEF To
    <3>3. Month(from) \in Int /\ Month(to) \in Int
      BY MonthMonotone
    <3> QED BY <1>1, <3>1, <3>2, <3>3 DEF Months
  <2>2. Month(f) <= Month(t)
    BY <1>1, <1>2, MonthMonotone
  <2>3. Cardinality(Month(f)..Month(t)) = Month(t) - Month(f) + 1
    BY <1>1, <2>2, FS_Interval
  <2>4. MonthsBetween(f, t) = Month(t) - Month(f) + 1
    BY <1>1, <2>2, MaxOne DEF MonthsBetween
  <2> QED BY <1>1, <1>2, <2>1, <2>3, <2>4
<1>3. CASE f > t
  <2>1. (end # None /\ Month(end) < Month(from)) \/ Month(to) < Month(start)
    <3>1. (end # None /\ end < from) \/ to < start
      BY <1>3 DEF From, To
    <3> QED BY <3>1, MonthMonotone
  <2>2. Months(from, to, start, end) = {}
    BY <2>1, MonthMonotone DEF Months
  <2> QED BY <1>3, <2>2, FS_EmptySet
<1> QED BY <1>1, <1>2, <1>3

(* Over whole months, a report that spreads an expense over its months adds up
   to what a budget of that period counts (expenses.service.ts:578), whatever
   the dates are. *)
THEOREM ReportAgreesHolds == Spec => []ReportAgrees
<1>1. ReportAgrees
  <2> SUFFICES ASSUME NEW frequency \in {"ONE_TIME", "MONTHLY", "QUARTERLY", "YEARLY"},
                      NEW incurred \in ReportDates,
                      NEW start \in ReportDates, NEW end \in ReportDates \cup {None},
                      NEW from \in ReportDates, NEW to \in ReportDates,
                      from % 2 = 0, to % 2 = 1, from <= incurred, incurred <= to, end # None => start <= end
               PROVE  LET x == [totalAmount |-> 2, frequency |-> frequency, dateIncurred |-> incurred,
                                dateStart |-> start, dateEnd |-> end]
                      IN  ReportedByMonth(x, from, to) = x.totalAmount * Weight(x, from, to)
    BY DEF ReportAgrees
  <2> PICK x : x = [totalAmount |-> 2, frequency |-> frequency, dateIncurred |-> incurred,
                    dateStart |-> start, dateEnd |-> end]
    OBVIOUS
  <2> SUFFICES ReportedByMonth(x, from, to) = x.totalAmount * Weight(x, from, to)
    OBVIOUS
  <2>1. /\ incurred \in Int /\ start \in Int /\ from \in Int /\ to \in Int /\ from <= to
        /\ start # None /\ (end = None \/ (end \in Int /\ end # None /\ start <= end))
    BY DatesAssumption
  <2>2. /\ x.totalAmount = 2 /\ x.frequency = frequency /\ x.dateIncurred = incurred
        /\ x.dateStart = start /\ x.dateEnd = end
    OBVIOUS
  <2>3. CASE frequency = "ONE_TIME"
    BY <2>1, <2>2, <2>3 DEF ReportedByMonth, Weight
  <2>4. CASE frequency # "ONE_TIME"
    <3> PICK n, f : n = Cardinality(Months(from, to, start, end)) /\ f = Factor(frequency)
      OBVIOUS
    <3>1. ReportedByMonth(x, from, to) = n * f * 2
      BY <2>1, <2>2, <2>4 DEF ReportedByMonth, Months
    <3>2. Weight(x, from, to) = f * MonthsForRecurring(x, from, to)
      BY <2>2, <2>4 DEF Weight
    <3>3. MonthsForRecurring(x, from, to) = n
      BY <2>1, <2>2, MonthsCounted DEF MonthsForRecurring, From, To
    <3>4. f \in {12, 4, 1}
      BY <2>4 DEF Factor
    <3>5. n \in Int
      <4>1. Month(from) \in Int /\ Month(to) \in Int
        BY <2>1, MonthMonotone
      <4>2. IsFiniteSet(Month(from)..Month(to))
        BY <4>1, FS_Interval
      <4>3. IsFiniteSet(Months(from, to, start, end))
        BY <4>2, FS_Subset DEF Months
      <4> QED BY <4>3, FS_CardinalityType
    <3> QED BY <2>2, <3>1, <3>2, <3>3, <3>4, <3>5
  <2> QED BY <2>3, <2>4
<1> QED BY <1>1, PTL

(* The fetched expenses hold those each candidate counts. *)
LEMMA SameCounted ==
  ASSUME NEW cands, NEW b \in cands, NEW budgets, NEW rows
  PROVE LET found == Prefetched(cands, budgets, rows, Rows) IN
        /\ budgets[b].centre # None =>
            {i \in found : InWindow(rows[i], budgets[b]) /\ Touches(rows[i], budgets[b].centre)}
             = {i \in Rows : InWindow(rows[i], budgets[b]) /\ Touches(rows[i], budgets[b].centre)}
        /\ budgets[b].centre = None =>
          {i \in found : InWindow(rows[i], budgets[b]) /\ budgets[b].delegation \in {None, rows[i].delegation}}
           = {i \in Rows : InWindow(rows[i], budgets[b]) /\ budgets[b].delegation \in {None, rows[i].delegation}}
BY DEF Prefetched, InWindow

(* What the fetched expenses weigh in a candidate is what its own would. *)
LEMMA CountedAlike ==
  ASSUME NEW cands, NEW b \in cands, NEW budgets
  PROVE  Spent(budgets[b], expense, Prefetched(cands, budgets, expense, Rows)) = Spent(budgets[b], expense, Rows)
<1> PICK found : found = Prefetched(cands, budgets, expense, Rows)
  OBVIOUS
<1>1. CASE budgets[b].centre # None
  <2>1. {i \in found : InWindow(expense[i], budgets[b]) /\ Touches(expense[i], budgets[b].centre)}
         = {i \in Rows : InWindow(expense[i], budgets[b]) /\ Touches(expense[i], budgets[b].centre)}
    BY <1>1, SameCounted
  <2> QED BY <1>1, <2>1 DEF Spent
<1>2. CASE budgets[b].centre = None
  <2>1. {i \in found : InWindow(expense[i], budgets[b]) /\ budgets[b].delegation \in {None, expense[i].delegation}}
         = {i \in Rows : InWindow(expense[i], budgets[b]) /\ budgets[b].delegation \in {None, expense[i].delegation}}
    BY <1>2, SameCounted
  <2> QED BY <1>2, <2>1 DEF Spent
<1> QED BY <1>1, <1>2

(* The expenses fetched at once for all candidates give each of them the sum of
   its own queries (budgets.service.ts:509), whatever rows there are. *)
THEOREM BatchAgreesHolds == Spec => []BatchAgrees
<1>1. BatchAgrees
  BY CountedAlike DEF BatchAgrees, SpentNow
<1> QED BY <1>1, PTL

-----------------------------------------------------------------------------
\* The checks of thresholds and the rows they leave in the inboxes.

\* A check on the way has its fields, tells of budgets it read, and is at one
\* of the pairs left.
Check(k) ==
  /\ k \in [about : {k.about}, rows : {k.rows}, phase : {"read", "tell"},
             todo : SUBSET (Budgets \X Users), at : {k.at}]
  /\ DOMAIN k.rows \subseteq Budgets
  /\ k.phase = "read" => k.todo = {} /\ k.at = None
  /\ k.at # None => k.at \in k.todo

\* A pair two checks are to tell is of a budget they met on; a pair a check is
\* at has no row yet, and no pair has two.
OnceInv ==
  /\ inbox \in [Budgets \X Users -> Nat]
  /\ \A k \in running : Check(k)
  /\ \A bu \in Budgets \X Users : bu[1] \notin met =>
       /\ \A j, k \in running : bu \in j.todo /\ bu \in k.todo => j = k
       /\ inbox[bu] <= 1
       /\ \A k \in running : k.at = bu /\ k.at # None => inbox[bu] = 0

\* The check k at a pair, and past one.
AtPair(k, bu) == [k EXCEPT !.at = bu]
Passing(k, rest) == [k EXCEPT !.at = None, !.todo = rest]

(* A check that goes to one of its pairs. *)
LEMMA CheckAt ==
  ASSUME NEW k, Check(k), NEW bu \in k.todo, NEW j, j = AtPair(k, bu)
  PROVE  Check(j) /\ j.todo = k.todo /\ j.at = bu /\ j.rows = k.rows
<1>1. k.phase # "read" /\ k.todo \subseteq Budgets \X Users
  BY DEF Check
<1> PICK rows, set : rows = k.rows /\ DOMAIN rows \subseteq Budgets /\ set = Budgets \X Users
  BY DEF Check
<1>2. j = [about |-> k.about, rows |-> rows, phase |-> k.phase, todo |-> k.todo, at |-> bu]
  BY DEF Check, AtPair
<1>3. k.phase \in {"read", "tell"} /\ k.todo \in SUBSET set
  BY <1>1 DEF Check
<1> QED BY <1>1, <1>2, <1>3 DEF Check

(* A check that goes on with fewer pairs. *)
LEMMA CheckGoes ==
  ASSUME NEW k, Check(k), k.todo # {}, NEW rest \in SUBSET k.todo, NEW j, j = Passing(k, rest)
  PROVE  Check(j) /\ j.todo = rest /\ j.at = None /\ j.rows = k.rows
<1>1. k.phase # "read" /\ k.todo \subseteq Budgets \X Users
  BY DEF Check
<1> PICK rows, set : rows = k.rows /\ DOMAIN rows \subseteq Budgets /\ set = Budgets \X Users
  BY DEF Check
<1>2. j = [about |-> k.about, rows |-> rows, phase |-> k.phase, todo |-> rest, at |-> None]
  BY DEF Check, Passing
<1>3. k.phase \in {"read", "tell"} /\ rest \in SUBSET set
  BY <1>1 DEF Check
<1> QED BY <1>1, <1>2, <1>3 DEF Check

\* The check k once it has read.
Telling(k, todo) == [k EXCEPT !.phase = "tell", !.todo = todo]

(* A check that has read the expenses. *)
LEMMA CheckTells ==
  ASSUME NEW k, Check(k), k.at = None, NEW todo \in SUBSET (Budgets \X Users), NEW j,
         j = Telling(k, todo)
  PROVE  Check(j) /\ j.todo = todo /\ j.at = None
<1> PICK rows, set : rows = k.rows /\ DOMAIN rows \subseteq Budgets /\ set = Budgets \X Users
  BY DEF Check
<1>1. j = [about |-> k.about, rows |-> rows, phase |-> "tell", todo |-> todo, at |-> None]
  BY DEF Check, Telling
<1>2. "tell" \in {"read", "tell"} /\ todo \in SUBSET set
  OBVIOUS
<1> QED BY <1>1, <1>2 DEF Check

(* What is left of the checks when one of them gives way to j, or to none. *)
LEMMA Replaced ==
  ASSUME OnceInv, NEW k \in running, NEW j, Check(j), j.todo \subseteq k.todo,
         running' = (running \ {k}) \cup {j} \/ running' = running \ {k},
         met' = met, inbox' = inbox,
         j.at # None => inbox[j.at] = 0
  PROVE  OnceInv'
<1>1. \A i \in running' : Check(i)
  BY DEF OnceInv
<1>2. ASSUME NEW bu \in Budgets \X Users, bu[1] \notin met
      PROVE  /\ \A h, i \in running' : bu \in h.todo /\ bu \in i.todo => h = i
             /\ \A i \in running' : i.at = bu /\ i.at # None => inbox[bu] = 0
  BY <1>2 DEF OnceInv
<1> QED BY <1>1, <1>2 DEF OnceInv

(* Each step of a check keeps it. *)
LEMMA LookOnce == ASSUME OnceInv, NEW k \in running, NEW bu \in k.todo, Look(k, bu) PROVE OnceInv'
<1>0. Check(k) /\ bu \in Budgets \X Users /\ k.at = None
  BY DEF OnceInv, Look, Check
<1>1. met' = met /\ inbox' = inbox
  BY DEF Look
<1>2. CASE inbox[bu] = 0
  <2> PICK j : j = AtPair(k, bu)
    OBVIOUS
  <2>1. Check(j) /\ j.todo = k.todo /\ j.at = bu
    BY <1>0, CheckAt
  <2>2. running' = (running \ {k}) \cup {j}
    BY <1>2 DEF Look, AtPair
  <2> QED BY <1>1, <1>2, <2>1, <2>2, Replaced
<1>3. CASE inbox[bu] # 0
  <2> PICK j : j = [k EXCEPT !.todo = @ \ {bu}]
    OBVIOUS
  <2>1. Check(j) /\ j.todo \subseteq k.todo /\ j.at = None
    BY <1>0 DEF Check
  <2>2. running' = (running \ {k}) \cup {j} \/ running' = running \ {k}
    BY <1>3 DEF Look
  <2> QED BY <1>1, <2>1, <2>2, Replaced
<1> QED BY <1>2, <1>3

(* A check that fails ends, or passes over a budget. *)
LEMMA LoseOnce == ASSUME OnceInv, NEW k \in running, LoseCheck(k) PROVE OnceInv'
<1>0. Check(k) /\ met' = met /\ inbox' = inbox
  BY DEF OnceInv, LoseCheck
<1>1. CASE running' = running \ {k}
  <2> PICK j : j = [k EXCEPT !.at = None]
    OBVIOUS
  <2>1. Check(j) /\ j.todo = k.todo /\ j.at = None
    BY <1>0 DEF Check
  <2> QED BY <1>0, <1>1, <2>1, Replaced
<1>2. CASE \E bu \in IF k.at = None THEN k.todo ELSE {k.at} :
          LET rest == {o \in k.todo : o[1] # bu[1]} IN
          running' = (running \ {k}) \cup (IF rest = {} THEN {} ELSE {[k EXCEPT !.at = None, !.todo = rest]})
  <2>0. PICK rest \in SUBSET k.todo :
          /\ k.todo # {}
          /\ running' = (running \ {k}) \cup {Passing(k, rest)} \/ running' = running \ {k}
    <3> PICK bu \in IF k.at = None THEN k.todo ELSE {k.at} :
          LET rest == {o \in k.todo : o[1] # bu[1]} IN
          running' = (running \ {k}) \cup (IF rest = {} THEN {} ELSE {[k EXCEPT !.at = None, !.todo = rest]})
      BY <1>2
    <3>1. bu \in k.todo
      BY <1>0 DEF Check
    <3> PICK rest : rest = {o \in k.todo : o[1] # bu[1]}
      OBVIOUS
    <3>2. rest \in SUBSET k.todo
      OBVIOUS
    <3> QED BY <3>1, <3>2 DEF Passing
  <2> PICK j : j = Passing(k, rest)
    OBVIOUS
  <2>1. Check(j) /\ j.todo = rest /\ j.at = None
    BY <1>0, <2>0, CheckGoes
  <2>2. running' = (running \ {k}) \cup {j} \/ running' = running \ {k}
    BY <2>0
  <2> QED BY <1>0, <2>1, <2>2, Replaced
<1> QED BY <1>1, <1>2 DEF LoseCheck

(* A row is added where there was none and no other check is to add one. *)
LEMMA TellOnce == ASSUME OnceInv, NEW k \in running, Tell(k) PROVE OnceInv'
<1> PICK at, rest, j : at = k.at /\ rest = k.todo \ {at} /\ j = Passing(k, rest)
  OBVIOUS
<1>0. /\ Check(k) /\ at # None /\ at \in k.todo /\ at \in Budgets \X Users /\ met' = met
      /\ inbox \in [Budgets \X Users -> Nat] /\ inbox' = [inbox EXCEPT ![at] = @ + 1]
  BY DEF OnceInv, Tell, Check
<1>1. Check(j) /\ j.todo = rest /\ j.at = None
  <2>1. rest \in SUBSET k.todo
    OBVIOUS
  <2> QED BY <1>0, <2>1, CheckGoes
<1>2. running' = (running \ {k}) \cup {j} \/ running' = running \ {k}
  BY <1>0 DEF Tell, Passing
<1>3. /\ inbox' \in [Budgets \X Users -> Nat]
      /\ inbox'[at] = inbox[at] + 1
      /\ \A bu \in Budgets \X Users : bu # at => inbox'[bu] = inbox[bu]
  BY <1>0
<1>4. \A i \in running' : Check(i)
  BY <1>1, <1>2 DEF OnceInv
<1>5. ASSUME NEW bu \in Budgets \X Users, bu[1] \notin met
      PROVE  /\ \A h, i \in running' : bu \in h.todo /\ bu \in i.todo => h = i
             /\ inbox'[bu] <= 1
             /\ \A i \in running' : i.at = bu /\ i.at # None => inbox'[bu] = 0
  <2>1. \A h, i \in running' : bu \in h.todo /\ bu \in i.todo => h = i
    BY <1>1, <1>2, <1>5 DEF OnceInv
  <2>2. CASE bu # at
    BY <1>0, <1>1, <1>2, <1>3, <1>5, <2>1, <2>2 DEF OnceInv
  <2>3. CASE bu = at
    <3>1. inbox[at] = 0
      BY <1>0, <1>5, <2>3 DEF OnceInv
    <3>2. \A i \in running : i.at = at => i = k
      BY <1>0, <1>5, <2>3 DEF OnceInv, Check
    <3>3. \A i \in running' : i.at # at
      BY <1>0, <1>1, <1>2, <3>2
    <3> QED BY <1>3, <2>1, <2>3, <3>1, <3>3
  <2> QED BY <2>2, <2>3
<1> QED BY <1>0, <1>3, <1>4, <1>5 DEF OnceInv

(* A check that finds a pair in the hands of another meets it there. *)
LEMMA ReadOnce == ASSUME OnceInv, NEW k \in running, ReadExpenses(k) PROVE OnceInv'
<1>0. Check(k) /\ k.phase = "read" /\ k.todo = {} /\ k.at = None /\ inbox' = inbox
  BY DEF OnceInv, ReadExpenses, Check
<1> PICK found : found = Prefetched(DOMAIN k.rows, k.rows, expense, Rows)
  OBVIOUS
<1> PICK over : over = {b \in DOMAIN k.rows : ThresholdReached(k.rows[b], Spent(k.rows[b], expense, found))}
  OBVIOUS
<1> PICK todo : todo = {bu \in over \X Users : bu[1] \in Manages[bu[2]]}
  OBVIOUS
<1> PICK j : j = Telling(k, todo)
  OBVIOUS
<1>a. /\ running' = (running \ {k}) \cup (IF todo = {} THEN {} ELSE {j})
      /\ met' = met \cup {bu[1] : bu \in todo \cap UNION {h.todo : h \in running}}
  BY DEF ReadExpenses, Telling
<1>1. Check(j) /\ j.todo = todo /\ j.at = None
  <2>1. todo \in SUBSET (Budgets \X Users)
    <3>1. over \subseteq Budgets
      BY <1>0 DEF Check
    <3> QED BY <3>1
  <2> QED BY <1>0, <2>1, CheckTells
<1>2. running' \subseteq (running \ {k}) \cup {j}
  BY <1>a
<1>3. \A i \in running' : Check(i)
  BY <1>1, <1>2 DEF OnceInv
<1>4. ASSUME NEW bu \in Budgets \X Users, bu[1] \notin met'
      PROVE  /\ \A h, i \in running' : bu \in h.todo /\ bu \in i.todo => h = i
             /\ inbox[bu] <= 1
             /\ \A i \in running' : i.at = bu /\ i.at # None => inbox[bu] = 0
  <2>1. bu[1] \notin met /\ (bu \in todo => \A i \in running : bu \notin i.todo)
    BY <1>4, <1>a
  <2> QED BY <1>1, <1>2, <2>1 DEF OnceInv
<1> QED BY <1>0, <1>3, <1>4 DEF OnceInv

(* A check that begins has no pairs yet. *)
LEMMA BeginOnce == ASSUME OnceInv, NEW k \in pending, BeginCheck(k) PROVE OnceInv'
<1>1. inbox' = inbox /\ met' = met
  BY DEF BeginCheck
<1> PICK cands, rows, j :
      /\ cands = Candidates(k, budget, Live) /\ rows = [b \in cands |-> budget[b]]
      /\ j = [about |-> k, rows |-> rows, phase |-> "read", todo |-> {}, at |-> None]
  OBVIOUS
<1>2. running' \subseteq running \cup {j}
  BY DEF BeginCheck
<1>3. Check(j) /\ j.todo = {} /\ j.at = None
  BY DEF Check, Candidates, Live
<1>4. \A i \in running' : Check(i)
  BY <1>2, <1>3 DEF OnceInv
<1>5. ASSUME NEW bu \in Budgets \X Users, bu[1] \notin met
      PROVE  /\ \A h, i \in running' : bu \in h.todo /\ bu \in i.todo => h = i
             /\ \A i \in running' : i.at = bu /\ i.at # None => inbox[bu] = 0
  BY <1>2, <1>3, <1>5 DEF OnceInv
<1> QED BY <1>1, <1>4, <1>5 DEF OnceInv

(* Requests leave the inboxes alone; a restart loses the checks. *)
LEMMA RestOnce ==
  ASSUME OnceInv, inbox' = inbox, met' = met, running' = running \/ running' = {}
  PROVE  OnceInv'
BY DEF OnceInv

(* Every step keeps what OneRowADay rests on. *)
LEMMA StepOnce == ASSUME OnceInv, [Next]_vars PROVE OnceInv'
<1>1. CASE ExpenseStep
  <2>1. inbox' = inbox /\ met' = met /\ (running' = running \/ running' = {})
    BY <1>1 DEF ExpenseStep
  <2> QED BY <2>1, RestOnce
<1>2. CASE BudgetStep
  BY <1>2, RestOnce DEF BudgetStep, checkVars
<1>3. CASE UNCHANGED vars
  BY <1>3, RestOnce DEF vars, checkVars
<1> QED BY <1>1, <1>2, <1>3, BeginOnce, ReadOnce, TellOnce, LoseOnce, LookOnce DEF Next

(* A second row of a day for one user and budget appears only when two checks of
   the budget met (budgets.service.ts:682): a check that finds no row is the only
   one at that pair until it has added its own. *)
THEOREM OneRowADayHolds == Spec => []OneRowADay
<1>1. Init => OnceInv
  BY DEF Init, OnceInv
<1>2. OnceInv => OneRowADay
  <2> SUFFICES ASSUME OnceInv, NEW bu \in Budgets \X Users, inbox[bu] > 1, bu[1] \notin met PROVE FALSE
    BY DEF OneRowADay
  <2>1. inbox[bu] \in Nat /\ inbox[bu] <= 1
    BY DEF OnceInv
  <2> QED BY <2>1
<1> QED BY <1>1, <1>2, StepOnce, PTL DEF Spec

-----------------------------------------------------------------------------
\* The expenses, their sources and the requests on them.

UpdateCall == [op : {"update"}, id : Ids, amount : Amount \cup {Keep},
               split : Splits \cup {Keep}, seen : Amount]
MakeCall == [op : {"make"}, source : Sources, price : Amount]
BindCall == [op : {"bind"}, source : Sources, id : Ids]
ResyncCall == [op : {"resync"}, source : Sources, id : Ids, price : Amount]
LinkCall == [op : {"price", "sync"}, source : Sources, price : Amount, id : Ids \cup {None}]

(* An open request has the fields of its kind. *)
LEMMA CallFields ==
  ASSUME NEW c \in OpenCall
  PROVE  /\ c.op = "update" => c \in UpdateCall
         /\ c.op = "make" => c \in MakeCall
         /\ c.op = "bind" => c \in BindCall
         /\ c.op = "resync" => c \in ResyncCall
         /\ c.op \in {"price", "sync"} => c \in LinkCall
  BY DEF OpenCall, UpdateCall, MakeCall, BindCall, ResyncCall, LinkCall

(* The requests by the fields they have. *)
LEMMA CallSets ==
  OpenCall = UpdateCall \cup MakeCall \cup BindCall \cup ResyncCall \cup LinkCall
  BY DEF OpenCall, UpdateCall, MakeCall, BindCall, ResyncCall, LinkCall

(* The nulls are told from rows, requests and ids. *)
LEMMA Nulls ==
  /\ None # Gone /\ None \notin ExpenseRow /\ Gone \notin ExpenseRow
  /\ None \notin OpenCall /\ None \notin Ids /\ None \notin Sources /\ Gone \notin Ids
  BY NullAssumption

(* A row was composed from a shape, amounts and a split. *)
LEMMA RowParts ==
  ASSUME NEW row \in ExpenseRow
  PROVE  \E shape \in AnyShape, old \in Amount, part \in Amount, split \in AnySplit :
           row = Compose(shape, old, Allocate(split, part))
  BY DEF ExpenseRow

(* A composed row has the total it was given. *)
LEMMA Composed ==
  ASSUME NEW shape \in AnyShape, NEW amount \in Amount, NEW part \in Amount, NEW split \in AnySplit
  PROVE  /\ Compose(shape, amount, Allocate(split, part)) \in ExpenseRow
         /\ Compose(shape, amount, Allocate(split, part)).totalAmount = amount
<1>1. Compose(shape, amount, Allocate(split, part)) \in ExpenseRow
  BY DEF ExpenseRow
<1> QED BY <1>1 DEF Compose

(* So has one without allocations. *)
LEMMA ComposedPlain ==
  ASSUME NEW k \in Kinds, NEW amount \in Amount
  PROVE  /\ Compose(Generated[k], amount, NoSplit) \in ExpenseRow
         /\ Compose(Generated[k], amount, NoSplit).totalAmount = amount
<1>1. Allocate(NoSplit, amount) = NoSplit
  BY DEF Allocate, NoSplit
<1> QED BY <1>1, Composed DEF AnyShape, AnySplit

\* A row with another total, and with other allocations too.
Retotalled(row, amount) == [row EXCEPT !.totalAmount = amount]
Resplit(row, amount, alloc) == [row EXCEPT !.totalAmount = amount, !.allocations = alloc]

(* A total, or a total and allocations, replaced in a composed row. *)
LEMMA Recomposed ==
  ASSUME NEW shape, NEW old, NEW amount, NEW alloc, NEW new
  PROVE  /\ Retotalled(Compose(shape, old, alloc), amount) = Compose(shape, amount, alloc)
         /\ Resplit(Compose(shape, old, alloc), amount, new) = Compose(shape, amount, new)
<1> PICK row, bearer, delegation, frequency, incurred, start, end :
      /\ row = Compose(shape, old, alloc)
      /\ bearer = shape.bearer /\ delegation = shape.delegation /\ frequency = shape.frequency
      /\ incurred = shape.dateIncurred /\ start = shape.dateStart /\ end = shape.dateEnd
  OBVIOUS
<1>1. row \in [totalAmount : {old}, allocations : {alloc}, bearer : {bearer}, delegation : {delegation},
               frequency : {frequency}, dateIncurred : {incurred}, dateStart : {start}, dateEnd : {end}]
  BY DEF Compose
<1>2. Retotalled(row, amount) = Compose(shape, amount, alloc)
  BY <1>1 DEF Compose, Retotalled
<1>3. Resplit(row, amount, new) = Compose(shape, amount, new)
  <2> PICK mid : mid = Compose(shape, amount, alloc)
    OBVIOUS
  <2>1. mid \in [totalAmount : {amount}, allocations : {alloc}, bearer : {bearer}, delegation : {delegation},
                 frequency : {frequency}, dateIncurred : {incurred}, dateStart : {start}, dateEnd : {end}]
    BY DEF Compose
  <2>2. [mid EXCEPT !.allocations = new] = Compose(shape, amount, new)
    BY <2>1 DEF Compose
  <2>3. Resplit(row, amount, new) = [[row EXCEPT !.totalAmount = amount] EXCEPT !.allocations = new]
    BY DEF Resplit
  <2> QED BY <1>2, <2>2, <2>3 DEF Retotalled
<1> QED BY <1>2, <1>3

(* A row whose total is replaced stays a row. *)
LEMMA RowRetotalled ==
  ASSUME NEW row \in ExpenseRow, NEW amount \in Amount
  PROVE  Retotalled(row, amount) \in ExpenseRow /\ Retotalled(row, amount).totalAmount = amount
<1> PICK shape \in AnyShape, old \in Amount, part \in Amount,
         split \in AnySplit : row = Compose(shape, old, Allocate(split, part))
  BY RowParts
<1> PICK alloc : alloc = Allocate(split, part)
  OBVIOUS
<1>1. Retotalled(row, amount) = Compose(shape, amount, alloc)
  BY Recomposed
<1> QED BY <1>1, Composed

(* So does a row that is updated; its total stays where none is given. *)
LEMMA RowUpdated ==
  ASSUME NEW row \in ExpenseRow, NEW c \in UpdateCall
  PROVE  /\ Updated(c, row) \in ExpenseRow
         /\ c.amount = Keep => Updated(c, row).totalAmount = row.totalAmount
<1> PICK shape \in AnyShape, old \in Amount, part \in Amount,
         split \in AnySplit : row = Compose(shape, old, Allocate(split, part))
  BY RowParts
<1> PICK total, alloc : /\ total = IF c.amount = Keep THEN row.totalAmount ELSE c.amount
                        /\ alloc = IF c.split = Keep THEN row.allocations ELSE Allocate(c.split, SplitBase(c))
  OBVIOUS
<1>1. row.totalAmount = old /\ row.allocations = Allocate(split, part)
  BY DEF Compose
<1>2. total \in Amount /\ (c.amount = Keep => total = old)
  BY <1>1 DEF UpdateCall
<1>3. \E s \in AnySplit, p \in Amount : alloc = Allocate(s, p)
  BY <1>1 DEF UpdateCall, SplitBase, AnySplit
<1>4. Updated(c, row) = Resplit(row, total, alloc)
  BY DEF Updated, Resplit
<1>5. Updated(c, row) = Compose(shape, total, alloc)
  <2> PICK before : before = Allocate(split, part)
    OBVIOUS
  <2> QED BY <1>4, Recomposed
<1>6. PICK s \in AnySplit, p \in Amount : alloc = Allocate(s, p)
  BY <1>3
<1> PICK new : new = Compose(shape, total, alloc)
  OBVIOUS
<1>7. new \in ExpenseRow /\ new.totalAmount = total
  <2>1. total \in Amount
    BY <1>2
  <2>2. /\ Compose(shape, total, Allocate(s, p)) \in ExpenseRow
        /\ Compose(shape, total, Allocate(s, p)).totalAmount = total
    BY <2>1, Composed
  <2> QED BY <1>6, <2>2
<1> QED BY <1>1, <1>2, <1>5, <1>7

\* Request q is at op of source s; the expenses made from s that are left.
At(q, op, s) == call[q] # None /\ call[q].op = op /\ call[q].source = s
Made(s) == MadeFrom(s) \cap Rows

\* An expense that was never created has no source; the expense of a source was
\* made from it; a request names expenses that were created, and of its source.
Kinship ==
  /\ \A x \in Ids : expense[x] = None => origin[x] = None
  /\ \A s \in Sources, x \in Ids : source[s].expense = x => x \in Rows /\ origin[x] = s
  /\ \A q \in Calls, x \in Ids :
       /\ call[q] # None /\ call[q].op \in {"update", "resync"} /\ call[q].id = x => expense[x] # None
       /\ call[q] # None /\ call[q].op \in {"bind", "price", "sync"} /\ call[q].id = x =>
            expense[x] # None /\ origin[x] = call[q].source

\* A task or a link has one expense at most; it is bound, or a request is about to
\* bind it; while a request is to create one, any there is is about to be bound.
Single(s) == \A x, y \in Made(s) : x = y
Binding(s, x) == \E q \in Calls : At(q, "bind", s) /\ call[q].id = x
Found(s) == \A x \in Made(s) : source[s].expense = x \/ Binding(s, x)
Awaited(s) == (\E r \in Calls : At(r, "make", s)) => \A x \in Made(s) : Binding(s, x)

Sole == \A s \in Sources : source[s].kind # "asset" /\ s \notin orphaned => Single(s) /\ Found(s) /\ Awaited(s)

\* What a link costs is what its expense costs, or a request brings it; requests
\* at it go by its price and its expense.
Priced(s) ==
  /\ \A q \in Calls : At(q, "make", s) => call[q].price = source[s].price
  /\ \A q \in Calls : At(q, "bind", s) /\ call[q].id \in Rows => expense[call[q].id].totalAmount = source[s].price
  /\ \A q \in Calls : At(q, "price", s) => source[s].expense \in {call[q].id, None}
  /\ \A q \in Calls : At(q, "sync", s) => source[s].expense \in {call[q].id, None} /\ call[q].price = source[s].price
  /\ \A x \in Ids : source[s].expense = x =>
       expense[x].totalAmount = source[s].price \/ \E q \in Calls : At(q, "sync", s)
Mirror == \A s \in Sources : source[s].kind = "link" /\ s \notin retouched => Priced(s)
\* The inductive invariant.
ExpenseInv == ExpenseTypeOK /\ Kinship /\ Sole /\ Mirror

(* One row of an expense is written again, and stays one. *)
Rewritten(x, row) ==
  /\ x \in Ids /\ expense[x] \in ExpenseRow /\ row \in ExpenseRow
  /\ expense' = [expense EXCEPT ![x] = row]

(* What the write of an update does: nothing, or one row, and its sources are noted if the total changes. *)
LEMMA StoreUpdateWrites ==
  ASSUME ExpenseInv, NEW r \in Calls, StoreUpdate(r)
  PROVE  /\ call[r] \in UpdateCall /\ repriced' \subseteq Ids
         /\ \/ UNCHANGED <<expense, retouched>>
            \/ \E row : /\ Rewritten(call[r].id, row)
                        /\ \/ row.totalAmount = expense[call[r].id].totalAmount /\ retouched' = retouched
                           \/ retouched' = retouched \cup Linked(call[r].id)
<1> PICK c, new : c = call[r] /\ new = Updated(c, expense[c.id])
  OBVIOUS
<1>1. c \in UpdateCall /\ expense[c.id] # None /\ c.id \in Ids
  BY Nulls, CallFields DEF ExpenseInv, ExpenseTypeOK, Kinship, StoreUpdate, UpdateCall
<1>2. CASE expense[c.id] = Gone
  BY <1>1, <1>2 DEF StoreUpdate, ExpenseInv, ExpenseTypeOK
<1>3. CASE expense[c.id] # Gone
  <2>1. expense[c.id] \in ExpenseRow
    BY <1>1, <1>3 DEF ExpenseInv, ExpenseTypeOK
  <2>2. new \in ExpenseRow /\ (c.amount = Keep => new.totalAmount = expense[c.id].totalAmount)
    BY <1>1, <2>1, RowUpdated
  <2>3. Rewritten(c.id, new)
    BY <1>1, <1>3, <2>1, <2>2 DEF StoreUpdate, Rewritten
  <2>4. retouched' = IF c.amount = Keep THEN retouched ELSE retouched \cup Linked(c.id)
    BY <1>3 DEF StoreUpdate
  <2>5. repriced' \subseteq Ids
    BY <1>1, <1>3 DEF StoreUpdate, ExpenseInv, ExpenseTypeOK
  <2> QED BY <1>1, <2>2, <2>3, <2>4, <2>5
<1> QED BY <1>2, <1>3

(* What a write of the total does. *)
LEMMA SetTotalWrites ==
  ASSUME ExpenseInv, NEW x \in Rows, NEW amount \in Amount, SetTotal(x, amount)
  PROVE  /\ repriced' \subseteq Ids
         /\ \E row : Rewritten(x, row) /\ row.totalAmount = amount
<1>1. x \in Ids /\ expense[x] \in ExpenseRow
  BY DEF Rows, ExpenseInv, ExpenseTypeOK
<1> PICK row : row = Retotalled(expense[x], amount)
  OBVIOUS
<1>2. row \in ExpenseRow /\ row.totalAmount = amount
  BY <1>1, RowRetotalled
<1>3. expense' = [expense EXCEPT ![x] = row]
  BY DEF SetTotal, Retotalled
<1>4. repriced' \subseteq Ids
  BY <1>1 DEF SetTotal, ExpenseInv, ExpenseTypeOK
<1> QED BY <1>1, <1>2, <1>3, <1>4 DEF Rewritten

(* What a resync writes: nothing, or the price it read. *)
LEMMA ResyncWrites ==
  ASSUME ExpenseInv, NEW r \in Calls, Resync(r)
  PROVE  /\ call[r] \in ResyncCall /\ repriced' \subseteq Ids
         /\ \/ UNCHANGED <<expense, retouched>>
            \/ \E row : /\ Rewritten(call[r].id, row) /\ row.totalAmount = call[r].price
                        /\ retouched' = retouched \cup {s \in Linked(call[r].id) : source[s].price # call[r].price}
                                                \cup Overlap(call[r].source, r)
<1> PICK c : c = call[r]
  OBVIOUS
<1>1. c \in ResyncCall
  BY Nulls, CallFields DEF ExpenseInv, ExpenseTypeOK, Resync
<1>2. CASE c.id \in Rows
  BY <1>1, <1>2, SetTotalWrites DEF Resync, ResyncCall
<1>3. CASE c.id \notin Rows
  BY <1>1, <1>3 DEF Resync, ExpenseInv, ExpenseTypeOK
<1> QED BY <1>1, <1>2, <1>3

(* What follows a price change: nothing if the row is gone, or the price. *)
LEMMA SyncLinkWrites ==
  ASSUME ExpenseInv, NEW r \in Calls, SyncLink(r)
  PROVE  /\ call[r] \in LinkCall /\ repriced' \subseteq Ids
         /\ \/ call[r].id \notin Rows /\ UNCHANGED expense
            \/ \E row : Rewritten(call[r].id, row) /\ row.totalAmount = call[r].price
<1> PICK c : c = call[r]
  OBVIOUS
<1>1. c \in LinkCall
  BY Nulls, CallFields DEF ExpenseInv, ExpenseTypeOK, SyncLink
<1>2. CASE c.id \in Rows
  BY <1>1, <1>2, SetTotalWrites DEF SyncLink, LinkCall
<1>3. CASE c.id \notin Rows
  BY <1>1, <1>3 DEF SyncLink, ExpenseInv, ExpenseTypeOK
<1> QED BY <1>1, <1>2, <1>3

(* A request that takes the place of another. *)
LEMMA CallsKeepType ==
  ASSUME ExpenseTypeOK, NEW r, NEW new \in OpenCall \cup {None}, call' = [call EXCEPT ![r] = new]
  PROVE  call' \in [Calls -> OpenCall \cup {None}]
BY DEF ExpenseTypeOK

(* A row that takes the place of another. *)
LEMMA RowsKeepType ==
  ASSUME ExpenseTypeOK, NEW x, NEW row \in ExpenseRow, expense' = [expense EXCEPT ![x] = row]
  PROVE  expense' \in [Ids -> ExpenseRow \cup {None, Gone}]
BY DEF ExpenseTypeOK

(* The number of requests stays in its bound. *)
LEMMA OnceKeepsType == ASSUME ExpenseTypeOK, Once PROVE ops' \in 0..MaxOps
BY BoundAssumption DEF ExpenseTypeOK, Once

(* Totals are among the amounts. *)
LEMMA TotalKnown == ASSUME NEW row \in ExpenseRow PROVE row.totalAmount \in Amount
<1> PICK shape \in AnyShape, old \in Amount, part \in Amount,
         split \in AnySplit : row = Compose(shape, old, Allocate(split, part))
  BY RowParts
<1> QED BY Composed

(* ReadUpdate keeps the types. *)
LEMMA ReadUpdateTypes ==
  ASSUME ExpenseInv, NEW r \in Calls, NEW x \in Ids, NEW amount \in Amount \cup {Keep},
         NEW split \in Splits \cup {Keep}, ReadUpdate(r, x, amount, split)
  PROVE ExpenseTypeOK'
<1>1. [op |-> "update", id |-> x, amount |-> amount, split |-> split,
       seen |-> expense[x].totalAmount] \in UpdateCall
  BY TotalKnown DEF ExpenseInv, ExpenseTypeOK, ReadUpdate, Rows, UpdateCall
<1>2. call' \in [Calls -> OpenCall \cup {None}]
  BY <1>1, CallSets, CallsKeepType DEF ExpenseInv, ReadUpdate, Open
<1>3. ops' \in 0..MaxOps
  BY OnceKeepsType DEF ExpenseInv, ReadUpdate, Open
<1> QED BY <1>2, <1>3 DEF ExpenseInv, ExpenseTypeOK, ReadUpdate

(* ReadMake keeps the types. *)
LEMMA ReadMakeTypes ==
  ASSUME ExpenseInv, NEW r \in Calls, NEW s \in Sources, ReadMake(r, s)
  PROVE ExpenseTypeOK'
<1>1. [op |-> "make", source |-> s, price |-> source[s].price] \in MakeCall
  BY TotalKnown DEF ExpenseInv, ExpenseTypeOK, ReadMake, Rows, MakeCall
<1>2. call' \in [Calls -> OpenCall \cup {None}]
  BY <1>1, CallSets, CallsKeepType DEF ExpenseInv, ReadMake, Open
<1>3. ops' \in 0..MaxOps
  BY OnceKeepsType DEF ExpenseInv, ReadMake, Open
<1> QED BY <1>2, <1>3 DEF ExpenseInv, ExpenseTypeOK, ReadMake

(* ReadResync keeps the types. *)
LEMMA ReadResyncTypes ==
  ASSUME ExpenseInv, NEW r \in Calls, NEW s \in Sources, NEW x \in Ids, ReadResync(r, s, x)
  PROVE ExpenseTypeOK'
<1>1. [op |-> "resync", source |-> s, id |-> x, price |-> source[s].price] \in ResyncCall
  BY TotalKnown DEF ExpenseInv, ExpenseTypeOK, ReadResync, Rows, ResyncCall
<1>2. call' \in [Calls -> OpenCall \cup {None}]
  BY <1>1, CallSets, CallsKeepType DEF ExpenseInv, ReadResync, Open
<1>3. ops' \in 0..MaxOps
  BY OnceKeepsType DEF ExpenseInv, ReadResync, Open
<1> QED BY <1>2, <1>3 DEF ExpenseInv, ExpenseTypeOK, ReadResync

(* ReadLink keeps the types. *)
LEMMA ReadLinkTypes ==
  ASSUME ExpenseInv, NEW r \in Calls, NEW s \in Sources, NEW price \in Amount, ReadLink(r, s, price)
  PROVE ExpenseTypeOK'
<1>1. [op |-> "price", source |-> s, price |-> price, id |-> source[s].expense] \in LinkCall
  BY TotalKnown DEF ExpenseInv, ExpenseTypeOK, ReadLink, Rows, LinkCall
<1>2. call' \in [Calls -> OpenCall \cup {None}]
  BY <1>1, CallSets, CallsKeepType DEF ExpenseInv, ReadLink, Open
<1>3. ops' \in 0..MaxOps
  BY OnceKeepsType DEF ExpenseInv, ReadLink, Open
<1> QED BY <1>2, <1>3 DEF ExpenseInv, ExpenseTypeOK, ReadLink

(* Create keeps the types. *)
LEMMA CreateTypes ==
  ASSUME ExpenseInv, NEW x \in Ids, NEW shape \in Shapes, NEW amount \in Amount,
         NEW split \in Splits, Create(x, shape, amount, split)
  PROVE ExpenseTypeOK'
<1> PICK row : row = Compose(shape, amount, Allocate(split, amount))
  OBVIOUS
<1>1. row \in ExpenseRow
  BY Composed DEF AnyShape, AnySplit
<1>2. expense' \in [Ids -> ExpenseRow \cup {None, Gone}]
  BY <1>1, RowsKeepType DEF ExpenseInv, Create
<1>3. ops' \in 0..MaxOps
  BY OnceKeepsType DEF ExpenseInv, Create
<1> QED BY <1>2, <1>3 DEF ExpenseInv, ExpenseTypeOK, Create

(* Remove keeps the types. *)
LEMMA RemoveTypes == ASSUME ExpenseInv, NEW x \in Ids, Remove(x) PROVE ExpenseTypeOK'
<1>1. ops' \in 0..MaxOps
  BY OnceKeepsType DEF ExpenseInv, Remove
<1>2. expense' \in [Ids -> ExpenseRow \cup {None, Gone}]
  BY DEF ExpenseInv, ExpenseTypeOK, Remove
<1>3. source' \in [Sources -> [kind : Kinds, price : Amount, expense : Ids \cup {None}]]
  BY DEF ExpenseInv, ExpenseTypeOK, Remove
<1>4. repriced' \subseteq Ids
  BY DEF ExpenseInv, ExpenseTypeOK, Remove
<1> QED BY <1>1, <1>2, <1>3, <1>4 DEF ExpenseInv, ExpenseTypeOK, Remove

(* SetCost keeps the types. *)
LEMMA SetCostTypes ==
  ASSUME ExpenseInv, NEW s \in Sources, NEW price \in Amount, SetCost(s, price)
  PROVE ExpenseTypeOK'
<1>1. ops' \in 0..MaxOps
  BY OnceKeepsType DEF ExpenseInv, SetCost
<1>2. source' \in [Sources -> [kind : Kinds, price : Amount, expense : Ids \cup {None}]]
  BY DEF ExpenseInv, ExpenseTypeOK, SetCost
<1> QED BY <1>1, <1>2 DEF ExpenseInv, ExpenseTypeOK, SetCost

(* Bind keeps the types. *)
LEMMA BindTypes == ASSUME ExpenseInv, NEW r \in Calls, Bind(r) PROVE ExpenseTypeOK'
<1> PICK c : c = call[r]
  OBVIOUS
<1>1. c \in BindCall
  BY Nulls, CallFields DEF ExpenseInv, ExpenseTypeOK, Bind
<1>2. call' \in [Calls -> OpenCall \cup {None}]
  BY CallsKeepType DEF ExpenseInv, Bind, Close
<1>3. source' \in [Sources -> [kind : Kinds, price : Amount, expense : Ids \cup {None}]]
  BY <1>1 DEF ExpenseInv, ExpenseTypeOK, Bind, BindCall
<1>4. Overlap(c.source, r) \subseteq Sources
  BY <1>1 DEF Overlap, BindCall
<1> QED BY <1>2, <1>3, <1>4 DEF ExpenseInv, ExpenseTypeOK, Bind

(* PriceLink keeps the types. *)
LEMMA PriceLinkTypes == ASSUME ExpenseInv, NEW r \in Calls, PriceLink(r) PROVE ExpenseTypeOK'
<1> PICK c : c = call[r]
  OBVIOUS
<1>1. c \in LinkCall
  BY Nulls, CallFields DEF ExpenseInv, ExpenseTypeOK, PriceLink
<1>2. [c EXCEPT !.op = "sync"] \in LinkCall
  BY <1>1 DEF LinkCall
<1>3. call' \in [Calls -> OpenCall \cup {None}]
  BY <1>2, CallSets, CallsKeepType DEF ExpenseInv, PriceLink
<1>4. source' \in [Sources -> [kind : Kinds, price : Amount, expense : Ids \cup {None}]]
  BY <1>1 DEF ExpenseInv, ExpenseTypeOK, PriceLink, LinkCall
<1>5. Overlap(c.source, r) \subseteq Sources
  BY <1>1 DEF Overlap, LinkCall
<1> QED BY <1>3, <1>4, <1>5 DEF ExpenseInv, ExpenseTypeOK, PriceLink

(* Make keeps the types. *)
LEMMA MakeTypes == ASSUME ExpenseInv, NEW r \in Calls, NEW x \in Ids, Make(r, x) PROVE ExpenseTypeOK'
<1> PICK c : c = call[r]
  OBVIOUS
<1>1. c \in MakeCall
  BY Nulls, CallFields DEF ExpenseInv, ExpenseTypeOK, Make
<1>2. c.source \in Sources /\ c.price \in Amount /\ source[c.source].kind \in Kinds
  BY <1>1 DEF MakeCall, ExpenseInv, ExpenseTypeOK
<1>3. expense' \in [Ids -> ExpenseRow \cup {None, Gone}]
  BY <1>2, ComposedPlain, RowsKeepType DEF ExpenseInv, Make
<1>4. [op |-> "bind", source |-> c.source, id |-> x] \in BindCall
  BY <1>2 DEF BindCall
<1>5. call' \in [Calls -> OpenCall \cup {None}]
  BY <1>4, CallSets, CallsKeepType DEF ExpenseInv, Make
<1>6. origin' \in [Ids -> Sources \cup {None}] /\ Overlap(c.source, r) \subseteq Sources
  BY <1>2 DEF ExpenseInv, ExpenseTypeOK, Make, Overlap
<1> QED BY <1>3, <1>5, <1>6 DEF ExpenseInv, ExpenseTypeOK, Make

(* Crash keeps the types. *)
LEMMA CrashTypes == ASSUME ExpenseInv, Crash PROVE ExpenseTypeOK'
<1>1. crashes' \in 0..MaxCrashes
  BY BoundAssumption DEF ExpenseInv, ExpenseTypeOK, Crash
<1>2. \A r \in Calls : call[r] # None /\ call[r].op \in {"bind", "sync"} => call[r].source \in Sources
  BY CallFields DEF ExpenseInv, ExpenseTypeOK, BindCall, LinkCall
<1>3. orphaned' \subseteq Sources /\ retouched' \subseteq Sources
  BY <1>2 DEF ExpenseInv, ExpenseTypeOK, Crash
<1>4. call' \in [Calls -> OpenCall \cup {None}]
  BY DEF Crash
<1> QED BY <1>1, <1>3, <1>4 DEF ExpenseInv, ExpenseTypeOK, Crash

(* StoreUpdate keeps the types. *)
LEMMA StoreUpdateTypes == ASSUME ExpenseInv, NEW r \in Calls, StoreUpdate(r) PROVE ExpenseTypeOK'
<1>1. call' \in [Calls -> OpenCall \cup {None}]
  BY CallsKeepType DEF ExpenseInv, StoreUpdate, Close
<1>2. expense' \in [Ids -> ExpenseRow \cup {None, Gone}] /\ repriced' \subseteq Ids
  BY StoreUpdateWrites, RowsKeepType DEF Rewritten, ExpenseInv, ExpenseTypeOK
<1>3. retouched' \subseteq Sources
  <2>1. Linked(call[r].id) \subseteq Sources
    BY StoreUpdateWrites DEF Linked, UpdateCall, ExpenseInv, ExpenseTypeOK
  <2> QED BY <2>1, StoreUpdateWrites DEF ExpenseInv, ExpenseTypeOK
<1> QED BY <1>1, <1>2, <1>3 DEF ExpenseInv, ExpenseTypeOK, StoreUpdate

(* Resync keeps the types. *)
LEMMA ResyncTypes == ASSUME ExpenseInv, NEW r \in Calls, Resync(r) PROVE ExpenseTypeOK'
<1>1. call' \in [Calls -> OpenCall \cup {None}]
  BY CallsKeepType DEF ExpenseInv, Resync, Close
<1>2. expense' \in [Ids -> ExpenseRow \cup {None, Gone}] /\ repriced' \subseteq Ids
  BY ResyncWrites, RowsKeepType DEF Rewritten, ExpenseInv, ExpenseTypeOK
<1>3. retouched' \subseteq Sources
  <2>1. Linked(call[r].id) \subseteq Sources /\ Overlap(call[r].source, r) \subseteq Sources
    BY ResyncWrites DEF Linked, Overlap, ResyncCall, ExpenseInv, ExpenseTypeOK
  <2> QED BY <2>1, ResyncWrites DEF ExpenseInv, ExpenseTypeOK
<1> QED BY <1>1, <1>2, <1>3 DEF ExpenseInv, ExpenseTypeOK, Resync

(* SyncLink keeps the types. *)
LEMMA SyncLinkTypes == ASSUME ExpenseInv, NEW r \in Calls, SyncLink(r) PROVE ExpenseTypeOK'
<1>1. call' \in [Calls -> OpenCall \cup {None}]
  BY CallsKeepType DEF ExpenseInv, SyncLink, Close
<1>2. expense' \in [Ids -> ExpenseRow \cup {None, Gone}] /\ repriced' \subseteq Ids
  BY SyncLinkWrites, RowsKeepType DEF Rewritten, ExpenseInv, ExpenseTypeOK
<1>3. Overlap(call[r].source, r) \subseteq Sources
  BY SyncLinkWrites DEF Overlap, LinkCall
<1> QED BY <1>1, <1>2, <1>3 DEF ExpenseInv, ExpenseTypeOK, SyncLink

(* It holds at first: a task or a link has the expense that was made from it. *)
LEMMA InitExpenseInv == ASSUME ExpenseInit, 0 \in 0..MaxOps PROVE ExpenseInv
<1>1. \A x \in Ids : origin[x] # None => origin[x] \in Sources
  BY DEF ExpenseInit
<1>2. \A s \in Sources : /\ source[s].kind \in Kinds /\ source[s].price \in Amount
                         /\ source[s].expense \in Ids \cup {None}
  BY DEF ExpenseInit
<1>3. \A x \in Ids : /\ origin[x] = None => expense[x] = None
                     /\ origin[x] # None => /\ expense[x] \in ExpenseRow
                                            /\ expense[x].totalAmount = source[origin[x]].price
  BY <1>1, <1>2, ComposedPlain DEF ExpenseInit
<1>4. ExpenseTypeOK
  <2>1. expense \in [Ids -> ExpenseRow \cup {None, Gone}]
    BY <1>3 DEF ExpenseInit
  <2> QED BY <2>1, BoundAssumption DEF ExpenseInit, ExpenseTypeOK
<1>5. \A s \in Sources : \A x \in Ids : source[s].expense = x => x \in MadeFrom(s)
  BY Nulls DEF ExpenseInit
<1>6. \A s \in Sources : source[s].kind # "asset" => \A x \in MadeFrom(s) : source[s].expense = x
  BY DEF ExpenseInit
<1>7. \A s \in Sources : \A x \in MadeFrom(s) : x \in Ids /\ origin[x] = s /\ x \in Rows
  BY <1>3, Nulls DEF MadeFrom, Rows
<1>8. call = [r \in Calls |-> None]
  BY DEF ExpenseInit
<1>9. Kinship
  BY <1>3, <1>5, <1>7, <1>8, Nulls DEF Kinship
<1>a. Sole
  BY <1>6, <1>8 DEF Sole, Single, Found, Awaited, Made, At
<1>b. Mirror
  BY <1>3, <1>5, <1>7, <1>8, Nulls DEF Mirror, Priced, At
<1> QED BY <1>4, <1>9, <1>a, <1>b DEF ExpenseInv

(* A rewritten row leaves the other rows, and the set of rows. *)
LEMMA RowsKept ==
  ASSUME ExpenseInv, NEW x, NEW row, Rewritten(x, row)
  PROVE  /\ Rows' = Rows /\ x \in Rows /\ expense'[x].totalAmount = row.totalAmount
         /\ \A y \in Ids : y # x => expense'[y] = expense[y]
         /\ \A y \in Ids : expense'[y] = None => expense[y] = None
         /\ \A y \in Ids : expense[y] = None => expense'[y] = None
<1>1. expense' \in [Ids -> ExpenseRow \cup {None, Gone}] /\ expense'[x] = row
  BY DEF ExpenseInv, ExpenseTypeOK, Rewritten
<1>2. x \in Ids /\ expense[x] \in ExpenseRow /\ row \in ExpenseRow
  BY DEF Rewritten
<1>3. \A y \in Ids : y # x => expense'[y] = expense[y]
  BY DEF ExpenseInv, ExpenseTypeOK, Rewritten
<1> QED BY <1>1, <1>2, <1>3, Nulls DEF Rows

(* Requests that end with at most a rewritten row keep the relations. *)
LEMMA KinKept ==
  ASSUME ExpenseInv, NEW r \in Calls, Close(r), UNCHANGED <<source, origin>>,
         UNCHANGED expense \/ \E x, row : Rewritten(x, row)
  PROVE  Kinship'
<1>1. \A q \in Calls : call'[q] # None => call'[q] = call[q]
  BY DEF ExpenseInv, ExpenseTypeOK, Close
<1>2. Rows' = Rows /\ (\A y \in Ids : expense'[y] = None => expense[y] = None)
  <2>1. CASE UNCHANGED expense
    BY <2>1 DEF Rows
  <2>2. CASE \E x, row : Rewritten(x, row)
    BY <2>2, RowsKept
  <2> QED BY <2>1, <2>2
<1> QED BY <1>1, <1>2 DEF ExpenseInv, Kinship

(* StoreUpdate keeps the relations of expenses, sources and requests. *)
LEMMA StoreUpdateKin == ASSUME ExpenseInv, NEW r \in Calls, StoreUpdate(r) PROVE Kinship'
  BY StoreUpdateWrites, KinKept DEF StoreUpdate

(* Resync keeps the relations of expenses, sources and requests. *)
LEMMA ResyncKin == ASSUME ExpenseInv, NEW r \in Calls, Resync(r) PROVE Kinship'
  BY ResyncWrites, KinKept DEF Resync

(* SyncLink keeps the relations of expenses, sources and requests. *)
LEMMA SyncLinkKin == ASSUME ExpenseInv, NEW r \in Calls, SyncLink(r) PROVE Kinship'
  BY SyncLinkWrites, KinKept DEF SyncLink

(* A row that follows its link goes on to, unless it is given another total. *)
LEMMA PriceHeld ==
  ASSUME ExpenseInv, NEW s \in Sources, NEW x, NEW row, Rewritten(x, row),
         s \in Linked(x) => row.totalAmount \in {expense[x].totalAmount, source[s].price}
  PROVE  /\ Rows' = Rows
         /\ \A y \in Rows : s \in Linked(y) /\ expense[y].totalAmount = source[s].price
                           => expense'[y].totalAmount = source[s].price
<1>1. /\ Rows' = Rows /\ expense'[x].totalAmount = row.totalAmount
      /\ \A y \in Ids : y # x => expense'[y] = expense[y]
  BY RowsKept
<1> QED BY <1>1 DEF Rows

(* Requests that end and give no linked row another total keep the link's price mirrored. *)
LEMMA MirrorKept ==
  ASSUME ExpenseInv, NEW r \in Calls, Close(r), UNCHANGED <<source, origin>>,
         retouched \subseteq retouched',
         NEW s \in Sources, source[s].kind = "link", s \notin retouched', call[r].op = "sync" => call[r].source # s,
         Rows' = Rows,
         \A y \in Rows : s \in Linked(y) /\ expense[y].totalAmount = source[s].price
                        => expense'[y].totalAmount = source[s].price
  PROVE  Priced(s)'
<1>1. Priced(s)
  BY DEF ExpenseInv, Mirror
<1>2. \A q \in Calls : \A op : At(q, op, s)' => At(q, op, s) /\ call'[q] = call[q]
  BY DEF ExpenseInv, ExpenseTypeOK, Close, At
<1>3. \A q \in Calls : At(q, "sync", s) => At(q, "sync", s)'
  BY DEF ExpenseInv, ExpenseTypeOK, Close, At
<1>6. \A q \in Calls : At(q, "bind", s) /\ call[q].id \in Rows => s \in Linked(call[q].id)
  BY Nulls DEF ExpenseInv, Kinship, At, Linked, Rows
<1>7. \A y \in Ids : source[s].expense = y => y \in Rows /\ s \in Linked(y)
  BY DEF ExpenseInv, Kinship, Linked
<1> QED BY <1>1, <1>2, <1>3, <1>6, <1>7 DEF Priced

(* StoreUpdate keeps the price of a link mirrored, or on its way. *)
LEMMA StoreUpdateMirror ==
  ASSUME ExpenseInv, NEW r \in Calls, StoreUpdate(r) PROVE Mirror'
<1> SUFFICES ASSUME NEW s \in Sources, source[s].kind = "link", s \notin retouched' PROVE Priced(s)'
  BY DEF Mirror, StoreUpdate
<1>1. /\ Rows' = Rows
      /\ \A y \in Rows : s \in Linked(y) /\ expense[y].totalAmount = source[s].price
                        => expense'[y].totalAmount = source[s].price
  <2>1. CASE UNCHANGED <<expense, retouched>>
    BY <2>1 DEF Rows
  <2>2. CASE ~UNCHANGED <<expense, retouched>>
    <3> PICK row : /\ Rewritten(call[r].id, row)
                   /\ s \in Linked(call[r].id) => row.totalAmount \in {expense[call[r].id].totalAmount, source[s].price}
      BY <2>2, StoreUpdateWrites
    <3> QED BY PriceHeld
  <2> QED BY <2>1, <2>2
<1>2. retouched \subseteq retouched'
  BY StoreUpdateWrites
<1>3. call[r].op = "update" /\ Close(r) /\ UNCHANGED <<source, origin>>
  BY DEF StoreUpdate
<1> QED BY <1>1, <1>2, <1>3, MirrorKept

(* Resync keeps the price of a link mirrored, or on its way. *)
LEMMA ResyncMirror ==
  ASSUME ExpenseInv, NEW r \in Calls, Resync(r) PROVE Mirror'
<1> SUFFICES ASSUME NEW s \in Sources, source[s].kind = "link", s \notin retouched' PROVE Priced(s)'
  BY DEF Mirror, Resync
<1>1. /\ Rows' = Rows
      /\ \A y \in Rows : s \in Linked(y) /\ expense[y].totalAmount = source[s].price
                        => expense'[y].totalAmount = source[s].price
  <2>1. CASE UNCHANGED <<expense, retouched>>
    BY <2>1 DEF Rows
  <2>2. CASE ~UNCHANGED <<expense, retouched>>
    <3> PICK row : /\ Rewritten(call[r].id, row)
                   /\ s \in Linked(call[r].id) => row.totalAmount \in {expense[call[r].id].totalAmount, source[s].price}
      BY <2>2, ResyncWrites
    <3> QED BY PriceHeld
  <2> QED BY <2>1, <2>2
<1>2. retouched \subseteq retouched'
  BY ResyncWrites
<1>3. call[r].op = "resync" /\ Close(r) /\ UNCHANGED <<source, origin>>
  BY DEF Resync
<1> QED BY <1>1, <1>2, <1>3, MirrorKept

(* SyncLink keeps the price of a link mirrored, or on its way. *)
LEMMA SyncLinkMirror ==
  ASSUME ExpenseInv, NEW r \in Calls, SyncLink(r) PROVE Mirror'
<1> PICK c : c = call[r]
  OBVIOUS
<1> SUFFICES ASSUME NEW s \in Sources, source[s].kind = "link", s \notin retouched' PROVE Priced(s)'
  BY DEF Mirror, SyncLink
<1>1. /\ c # None /\ c \in LinkCall /\ c.op = "sync" /\ Close(r) /\ UNCHANGED <<source, origin>>
      /\ retouched' = retouched \cup Overlap(c.source, r)
  BY SyncLinkWrites DEF SyncLink
<1>2. UNCHANGED expense \/ \E row : Rewritten(c.id, row) /\ row.totalAmount = c.price
  BY SyncLinkWrites
<1>3. CASE c.source # s
  <2>1. c.id \in Ids => expense[c.id] = None \/ origin[c.id] = c.source
    BY <1>1 DEF ExpenseInv, Kinship
  <2>2. c.id \in Rows => s \notin Linked(c.id)
    BY <1>1, <1>3, <2>1 DEF ExpenseInv, Kinship, Linked, Rows
  <2>3. /\ Rows' = Rows
        /\ \A y \in Rows : s \in Linked(y) /\ expense[y].totalAmount = source[s].price
                          => expense'[y].totalAmount = source[s].price
    <3>1. CASE UNCHANGED expense
      BY <3>1 DEF Rows
    <3>2. ASSUME NEW row, Rewritten(c.id, row) 
          PROVE /\ Rows' = Rows
                /\ \A y \in Rows : s \in Linked(y) /\ expense[y].totalAmount = source[s].price
                                  => expense'[y].totalAmount = source[s].price
      BY <2>2, <3>2, RowsKept, PriceHeld
    <3> QED BY <1>2, <3>1, <3>2
  <2> QED BY <1>1, <1>2, <1>3, <2>3, MirrorKept
<1>4. CASE c.source = s
  <2>1. Busy(s) = {r}
    BY <1>1, <1>4 DEF Overlap
  <2>2. \A q \in Calls, op \in {"make", "bind", "price", "sync"} : ~At(q, op, s)'
    BY <1>1, <2>1 DEF Busy, At, Close, ExpenseInv, ExpenseTypeOK
  <2>3. source[s].expense \in {c.id, None} /\ c.price = source[s].price
    BY <1>1, <1>4, Nulls DEF ExpenseInv, Mirror, Priced, At, ExpenseTypeOK
  <2>4. ASSUME NEW y \in Ids, source[s].expense = y PROVE expense'[y].totalAmount = source[s].price
    <3>1. y = c.id /\ y \in Rows
      BY <2>3, <2>4, Nulls DEF ExpenseInv, Kinship
    <3> QED BY <2>3, <3>1, SyncLinkWrites, RowsKept
  <2> QED BY <1>1, <2>2, <2>4 DEF Priced
<1> QED BY <1>3, <1>4

(* What the creation from a source does. *)
LEMMA MakeStep ==
  ASSUME ExpenseInv, NEW r \in Calls, NEW x \in Ids, Make(r, x)
  PROVE  \E s, row :
           /\ s \in Sources /\ call[r] \in MakeCall /\ At(r, "make", s)
           /\ row \in ExpenseRow /\ row.totalAmount = call[r].price
           /\ expense[x] = None /\ expense' = [expense EXCEPT ![x] = row] /\ origin' = [origin EXCEPT ![x] = s]
           /\ \E new : /\ call' = [call EXCEPT ![r] = new]
                      /\ \/ source[s].kind = "asset" /\ new = None
                         \/ source[s].kind # "asset" /\ new = [op |-> "bind", source |-> s, id |-> x]
           /\ orphaned' = orphaned \cup Overlap(s, r) /\ UNCHANGED <<source, retouched>>
<1> PICK c, s : c = call[r] /\ s = c.source
  OBVIOUS
<1>1. c \in MakeCall /\ s \in Sources /\ source[s].kind \in Kinds
  BY Nulls, CallFields DEF ExpenseInv, ExpenseTypeOK, Make, MakeCall
<1> PICK row : row = Compose(Generated[source[s].kind], c.price, NoSplit)
  OBVIOUS
<1>2. row \in ExpenseRow /\ row.totalAmount = c.price
  BY <1>1, ComposedPlain DEF MakeCall
<1> QED BY <1>1, <1>2 DEF Make, At

(* Make keeps the relations of expenses, sources and requests. *)
LEMMA MakeKin ==
  ASSUME ExpenseInv, NEW r \in Calls, NEW x \in Ids, Make(r, x) PROVE Kinship'
<1> PICK s, row, new :
      /\ s \in Sources /\ row \in ExpenseRow /\ expense[x] = None /\ expense' = [expense EXCEPT ![x] = row]
      /\ origin' = [origin EXCEPT ![x] = s] /\ call' = [call EXCEPT ![r] = new] /\ source' = source
      /\ new = None \/ new = [op |-> "bind", source |-> s, id |-> x]
  BY MakeStep
<1>1. /\ \A y \in Ids : y # x => expense'[y] = expense[y] /\ origin'[y] = origin[y]
      /\ expense'[x] = row /\ origin'[x] = s /\ row # None /\ row # Gone /\ x # None
  BY Nulls DEF ExpenseInv, ExpenseTypeOK
<1>2. x \notin Rows /\ \A y \in Rows : y \in Rows' /\ origin'[y] = origin[y]
  BY <1>1 DEF Rows
<1>3. \A y \in Ids : expense'[y] = None => origin'[y] = None
  BY <1>1 DEF ExpenseInv, Kinship
<1>4. \A t \in Sources, y \in Ids : source'[t].expense = y => y \in Rows' /\ origin'[y] = t
  BY <1>2 DEF ExpenseInv, Kinship
<1>5. ASSUME NEW q \in Calls, call'[q] # None, NEW y \in Ids, call'[q].id = y
      PROVE  /\ call'[q].op \in {"update", "resync"} => expense'[y] # None
             /\ call'[q].op \in {"bind", "price", "sync"} => expense'[y] # None /\ origin'[y] = call'[q].source
  <2>1. CASE q = r
    <3>1. call'[q] = new
      BY <2>1 DEF ExpenseInv, ExpenseTypeOK
    <3> QED BY <1>1, <1>5, <3>1
  <2>2. CASE q # r
    <3>1. call'[q] = call[q]
      BY <2>2 DEF ExpenseInv, ExpenseTypeOK
    <3>2. y = x => call[q].op \notin {"update", "resync", "bind", "price", "sync"}
      BY <1>5, <3>1 DEF ExpenseInv, Kinship
    <3> QED BY <1>1, <1>5, <3>1, <3>2 DEF ExpenseInv, Kinship
  <2> QED BY <2>1, <2>2
<1> QED BY <1>3, <1>4, <1>5 DEF Kinship

(* Make keeps a single expense, bound or about to be. *)
LEMMA MakeSole ==
  ASSUME ExpenseInv, NEW r \in Calls, NEW x \in Ids, Make(r, x) PROVE Sole'
<1> PICK s, row, new :
      /\ s \in Sources /\ At(r, "make", s) /\ row \in ExpenseRow
      /\ expense[x] = None /\ expense' = [expense EXCEPT ![x] = row]
      /\ origin' = [origin EXCEPT ![x] = s] /\ call' = [call EXCEPT ![r] = new] /\ source' = source
      /\ source[s].kind # "asset" => new = [op |-> "bind", source |-> s, id |-> x]
      /\ new = None \/ new = [op |-> "bind", source |-> s, id |-> x]
      /\ orphaned' = orphaned \cup Overlap(s, r)
  BY MakeStep
<1>1. /\ \A y \in Ids : y # x => expense'[y] = expense[y] /\ origin'[y] = origin[y]
      /\ expense'[x] = row /\ origin'[x] = s /\ row # None /\ row # Gone /\ x # None
      /\ call'[r] = new /\ \A q \in Calls : q # r => call'[q] = call[q]
  BY Nulls DEF ExpenseInv, ExpenseTypeOK
<1>2. origin[x] = None /\ x \notin Rows
  BY DEF ExpenseInv, Kinship, Rows
<1> SUFFICES ASSUME NEW t \in Sources, source[t].kind # "asset", t \notin orphaned'
             PROVE  Single(t)' /\ Found(t)' /\ Awaited(t)'
  BY DEF Sole
<1>3. Single(t) /\ Found(t) /\ Awaited(t)
  BY DEF ExpenseInv, Sole
<1>4. CASE t # s
  <2>1. Made(t)' = Made(t)
    BY <1>1, <1>2, <1>4 DEF Made, MadeFrom, Rows
  <2>2. \A q \in Calls : \A op : q # r => (At(q, op, t)' => At(q, op, t)) /\ (At(q, op, t) => At(q, op, t)')
    BY <1>1 DEF At
  <2>3. \A op : ~At(r, op, t)' /\ ~At(r, op, t)
    BY <1>1, <1>4 DEF At
  <2>4. \A y : Binding(t, y) => Binding(t, y)'
    BY <1>1, <2>2, <2>3 DEF Binding
  <2> QED BY <1>3, <2>1, <2>2, <2>3, <2>4 DEF Single, Found, Awaited
<1>5. CASE t = s
  <2>1. Busy(s) = {r}
    BY <1>5 DEF Overlap
  <2>2. Made(s) = {}
    <3>1. \A q \in Calls : \A y : At(q, "bind", s) /\ call[q].id = y => q = r
      BY <2>1 DEF Busy, At
    <3>2. \A y \in Made(s) : Binding(s, y)
      BY <1>3, <1>5 DEF Awaited
    <3> QED BY <3>1, <3>2 DEF Binding, At
  <2>3. Made(s)' = {x}
    BY <1>1, <1>2, <2>2 DEF Made, MadeFrom, Rows
  <2>4. Binding(s, x)'
    <3>1. new \in BindCall
      BY <1>5 DEF BindCall
    <3>2. new # None /\ new.op = "bind" /\ new.source = s /\ new.id = x
      BY <1>5, <3>1, CallSets, Nulls
    <3> QED BY <1>1, <3>2 DEF Binding, At
  <2>5. \A q \in Calls : ~At(q, "make", s)'
    BY <1>1, <1>5, <2>1 DEF Busy, At
  <2> QED BY <1>5, <2>3, <2>4, <2>5 DEF Single, Found, Awaited
<1> QED BY <1>4, <1>5

(* Make keeps the price of a link mirrored, or on its way. *)
LEMMA MakeMirror ==
  ASSUME ExpenseInv, NEW r \in Calls, NEW x \in Ids, Make(r, x) PROVE Mirror'
<1> PICK s, row, new :
      /\ s \in Sources /\ At(r, "make", s) /\ row \in ExpenseRow
      /\ expense[x] = None /\ expense' = [expense EXCEPT ![x] = row]
      /\ row.totalAmount = call[r].price
      /\ call' = [call EXCEPT ![r] = new] /\ source' = source /\ retouched' = retouched
      /\ new = None \/ new = [op |-> "bind", source |-> s, id |-> x]
  BY MakeStep
<1>1. /\ \A y \in Ids : y # x => expense'[y] = expense[y]
      /\ expense'[x] = row /\ x # None
      /\ call'[r] = new /\ \A q \in Calls : q # r => call'[q] = call[q]
  BY Nulls DEF ExpenseInv, ExpenseTypeOK
<1> SUFFICES ASSUME NEW t \in Sources, source[t].kind = "link", t \notin retouched PROVE Priced(t)'
  BY DEF Mirror
<1>2. Priced(t)
  BY DEF ExpenseInv, Mirror
<1>3. x \notin Rows /\ \A y \in Ids : y # x => (y \in Rows' => y \in Rows)
  BY <1>1 DEF Rows
<1>4. \A q \in Calls : \A op : q # r => (At(q, op, t)' => At(q, op, t)) /\ (At(q, op, t) => At(q, op, t)')
  BY <1>1 DEF At
<1>5. \A op : At(r, op, t)' => op = "bind" /\ s = t /\ call'[r].id = x
  BY <1>1 DEF At
<1>6. s = t => row.totalAmount = source[t].price
  BY <1>2 DEF Priced
<1>7. \A q \in Calls : At(q, "bind", t) => call[q].id \in Ids /\ call[q].id # x
  BY CallFields, Nulls DEF At, BindCall, ExpenseInv, ExpenseTypeOK, Kinship
<1>8. \A y \in Ids : source[t].expense = y => y # x
  BY <1>3 DEF ExpenseInv, Kinship
<1>9. ~At(r, "sync", t)
  BY DEF At
<1>a. \A q \in Calls : At(q, "make", t)' => call'[q].price = source'[t].price
  BY <1>1, <1>2, <1>4, <1>5 DEF Priced
<1>b. \A q \in Calls :
        At(q, "bind", t)' /\ call'[q].id \in Rows' => expense'[call'[q].id].totalAmount = source'[t].price
  <2>1. ASSUME NEW q \in Calls, At(q, "bind", t)', call'[q].id \in Rows', q # r
        PROVE  expense'[call'[q].id].totalAmount = source'[t].price
    <3>1. call'[q] = call[q] /\ At(q, "bind", t)
      BY <1>1, <1>4, <2>1
    <3> PICK id : id = call[q].id
      OBVIOUS
    <3>2. id \in Ids /\ id # x
      BY <1>7, <3>1
    <3>3. id \in Rows /\ expense'[id] = expense[id]
      BY <1>1, <1>3, <2>1, <3>1, <3>2
    <3> QED BY <1>2, <3>1, <3>3 DEF Priced
  <2>2. At(r, "bind", t)' => expense'[call'[r].id].totalAmount = source'[t].price
    BY <1>1, <1>5, <1>6
  <2> QED BY <2>1, <2>2
<1>c. \A q \in Calls : At(q, "price", t)' => source'[t].expense \in {call'[q].id, None}
  BY <1>1, <1>2, <1>4, <1>5 DEF Priced
<1>d. \A q \in Calls :
        At(q, "sync", t)' => source'[t].expense \in {call'[q].id, None} /\ call'[q].price = source'[t].price
  BY <1>1, <1>2, <1>4, <1>5 DEF Priced
<1>e. \A y \in Ids : source'[t].expense = y =>
        expense'[y].totalAmount = source'[t].price \/ \E q \in Calls : At(q, "sync", t)'
  BY <1>1, <1>2, <1>4, <1>8, <1>9 DEF Priced
<1> QED BY <1>a, <1>b, <1>c, <1>d, <1>e DEF Priced

(* PriceLink keeps the price of a link mirrored, or on its way. *)
LEMMA PriceLinkMirror ==
  ASSUME ExpenseInv, NEW r \in Calls, PriceLink(r) PROVE Mirror'
<1> PICK c, s, price : c = call[r] /\ s = c.source /\ price = c.price
  OBVIOUS
<1>1. c \in LinkCall /\ At(r, "price", s) /\ s \in Sources /\ call[r] # None /\ c.id # Gone /\ c.id \in Ids \cup {None}
  BY Nulls, CallFields DEF ExpenseInv, ExpenseTypeOK, PriceLink, LinkCall, At
<1> PICK new : new = [c EXCEPT !.op = "sync"]
  OBVIOUS
<1>2. new.op = "sync" /\ new.source = s /\ new.price = price /\ new.id = c.id /\ new # None
  <2>1. new \in LinkCall
    BY <1>1 DEF LinkCall
  <2> QED BY <1>1, <2>1, CallSets, Nulls DEF LinkCall
<1>3. /\ source' = [source EXCEPT ![s].price = price]
      /\ call' = [call EXCEPT ![r] = IF c.id = None THEN None ELSE new]
      /\ retouched' = retouched \cup Overlap(s, r) /\ expense' = expense
  BY DEF PriceLink
<1>4. /\ \A t \in Sources : /\ t # s => source'[t] = source[t]
                            /\ source'[t].kind = source[t].kind /\ source'[t].expense = source[t].expense
      /\ source'[s].price = price
  BY <1>1, <1>3 DEF ExpenseInv, ExpenseTypeOK
<1>5. call'[r] = (IF c.id = None THEN None ELSE new) /\ \A q \in Calls : q # r => call'[q] = call[q]
  BY <1>3 DEF ExpenseInv, ExpenseTypeOK
<1> SUFFICES ASSUME NEW t \in Sources, source[t].kind = "link", t \notin retouched' PROVE Priced(t)'
  BY <1>4 DEF Mirror
<1>6. Priced(t)
  BY <1>3, <1>4 DEF ExpenseInv, Mirror
<1>7. CASE t # s
  <2>1. \A q \in Calls : \A op :
          (At(q, op, t)' => At(q, op, t) /\ call'[q] = call[q]) /\ (At(q, op, t) => At(q, op, t)')
    BY <1>1, <1>2, <1>5, <1>7 DEF At
  <2>2. Rows' = Rows /\ source'[t] = source[t]
    BY <1>3, <1>4, <1>7 DEF Rows
  <2>3. \A q \in Calls : At(q, "make", t)' => call'[q].price = source'[t].price
    BY <1>6, <2>1, <2>2 DEF Priced
  <2>4. \A q \in Calls :
          At(q, "bind", t)' /\ call'[q].id \in Rows' => expense'[call'[q].id].totalAmount = source'[t].price
    <3>1. ASSUME NEW q \in Calls, At(q, "bind", t)', call'[q].id \in Rows'
          PROVE  expense[call[q].id].totalAmount = source[t].price /\ call'[q] = call[q]
      BY <1>6, <2>1, <2>2, <3>1 DEF Priced
    <3> QED BY <1>3, <2>2, <3>1
  <2>5. \A q \in Calls : At(q, "price", t)' => source'[t].expense \in {call'[q].id, None}
    BY <1>6, <2>1, <2>2 DEF Priced
  <2>6. \A q \in Calls :
          At(q, "sync", t)' => source'[t].expense \in {call'[q].id, None} /\ call'[q].price = source'[t].price
    BY <1>6, <2>1, <2>2 DEF Priced
  <2>7. \A y \in Ids : source'[t].expense = y =>
          expense'[y].totalAmount = source'[t].price \/ \E q \in Calls : At(q, "sync", t)'
    BY <1>3, <1>6, <2>1, <2>2 DEF Priced
  <2> QED BY <2>3, <2>4, <2>5, <2>6, <2>7 DEF Priced
<1>8. CASE t = s
  <2>1. Busy(s) = {r}
    BY <1>3, <1>8 DEF Overlap
  <2>2. \A q \in Calls : \A op \in {"make", "bind", "price", "sync"} :
          At(q, op, s)' => q = r /\ op = "sync" /\ call'[q] = new
    <3>1. \A op : At(r, op, s)' => op = "sync" /\ call'[r] = new
      BY <1>2, <1>5 DEF At
    <3>2. ASSUME NEW q \in Calls, q # r, NEW op \in {"make", "bind", "price", "sync"}, At(q, op, s)'
          PROVE  FALSE
      BY <1>5, <2>1, <3>2 DEF Busy, At
    <3> QED BY <3>1, <3>2
  <2>3. source[s].expense \in {c.id, None}
    BY <1>1, <1>6, <1>8 DEF Priced
  <2>4. \A y \in Ids : source[s].expense = y => At(r, "sync", s)'
    BY <1>2, <1>5, <2>3, Nulls DEF At
  <2> QED BY <1>2, <1>4, <1>8, <2>2, <2>3, <2>4 DEF Priced
<1> QED BY <1>7, <1>8

(* Create keeps the relations of expenses, sources and requests. *)
LEMMA CreateKin ==
  ASSUME ExpenseInv, NEW x \in Ids, NEW shape \in Shapes, NEW amount \in Amount,
         NEW split \in Splits, Create(x, shape, amount, split)
  PROVE Kinship'
  BY DEF Create, ExpenseInv, Kinship, Rows

(* Create keeps a single expense, bound or about to be. *)
LEMMA CreateSole ==
  ASSUME ExpenseInv, Kinship', NEW x \in Ids, NEW shape \in Shapes, NEW amount \in Amount,
         NEW split \in Splits, Create(x, shape, amount, split)
  PROVE Sole'
  BY Nulls DEF Create, ExpenseInv, Kinship, Rows, Sole, Single, Found, Awaited, Binding, At,
     Made, MadeFrom

(* Create keeps the price of a link mirrored, or on its way. *)
LEMMA CreateMirror ==
  ASSUME ExpenseInv, Kinship', NEW x \in Ids, NEW shape \in Shapes, NEW amount \in Amount,
         NEW split \in Splits, Create(x, shape, amount, split)
  PROVE Mirror'
  BY DEF Create, ExpenseInv, Kinship, Rows, Mirror, Priced, At

(* ReadUpdate keeps the relations of expenses, sources and requests. *)
LEMMA ReadUpdateKin ==
  ASSUME ExpenseInv, NEW r \in Calls, NEW x \in Ids, NEW amount \in Amount \cup {Keep},
         NEW split \in Splits \cup {Keep}, ReadUpdate(r, x, amount, split)
  PROVE Kinship'
  BY DEF ReadUpdate, ExpenseInv, Kinship, Open, Rows

(* ReadUpdate keeps a single expense, bound or about to be. *)
LEMMA ReadUpdateSole ==
  ASSUME ExpenseInv, Kinship', NEW r \in Calls, NEW x \in Ids, NEW amount \in Amount \cup {Keep},
         NEW split \in Splits \cup {Keep}, ReadUpdate(r, x, amount, split)
  PROVE Sole'
  BY DEF ReadUpdate, ExpenseInv, Open, Rows, Sole, Single, Found, Awaited, Binding, At, Made,
     MadeFrom

(* ReadUpdate keeps the price of a link mirrored, or on its way. *)
LEMMA ReadUpdateMirror ==
  ASSUME ExpenseInv, Kinship', NEW r \in Calls, NEW x \in Ids, NEW amount \in Amount \cup {Keep},
         NEW split \in Splits \cup {Keep}, ReadUpdate(r, x, amount, split)
  PROVE Mirror'
  BY DEF ReadUpdate, ExpenseInv, Open, Rows, Mirror, Priced, At

(* StoreUpdate keeps a single expense, bound or about to be. *)
LEMMA StoreUpdateSole ==
  ASSUME ExpenseInv, Kinship', NEW r \in Calls, StoreUpdate(r)
  PROVE Sole'
  BY DEF StoreUpdate, ExpenseInv, ExpenseTypeOK, Kinship, Close, Rows, Sole, Single, Found,
     Awaited, Binding, At, Made, MadeFrom

(* Remove keeps the relations of expenses, sources and requests. *)
LEMMA RemoveKin ==
  ASSUME ExpenseInv, NEW x \in Ids, Remove(x)
  PROVE Kinship'
  BY Nulls DEF Remove, ExpenseInv, Kinship, Rows

(* Remove keeps a single expense, bound or about to be. *)
LEMMA RemoveSole ==
  ASSUME ExpenseInv, Kinship', NEW x \in Ids, Remove(x)
  PROVE Sole'
  BY DEF Remove, ExpenseInv, ExpenseTypeOK, Rows, Sole, Single, Found, Awaited, Binding, At,
     Made, MadeFrom

(* Remove keeps the price of a link mirrored, or on its way. *)
LEMMA RemoveMirror ==
  ASSUME ExpenseInv, Kinship', NEW x \in Ids, Remove(x)
  PROVE Mirror'
  BY Nulls DEF Remove, ExpenseInv, Rows, Mirror, Priced, At

(* ReadMake keeps the relations of expenses, sources and requests. *)
LEMMA ReadMakeKin ==
  ASSUME ExpenseInv, NEW r \in Calls, NEW s \in Sources, ReadMake(r, s)
  PROVE Kinship'
  BY DEF ReadMake, ExpenseInv, Kinship, Open, Rows

(* ReadMake keeps a single expense, bound or about to be. *)
LEMMA ReadMakeSole ==
  ASSUME ExpenseInv, Kinship', NEW r \in Calls, NEW s \in Sources, ReadMake(r, s)
  PROVE Sole'
  BY Nulls DEF ReadMake, ExpenseInv, Open, Rows, Sole, Single, Found, Awaited, Binding, At,
     Made, MadeFrom

(* ReadMake keeps the price of a link mirrored, or on its way. *)
LEMMA ReadMakeMirror ==
  ASSUME ExpenseInv, Kinship', NEW r \in Calls, NEW s \in Sources, ReadMake(r, s)
  PROVE Mirror'
  BY DEF ReadMake, ExpenseInv, Open, Rows, Mirror, Priced, At

(* Bind keeps the relations of expenses, sources and requests. *)
LEMMA BindKin ==
  ASSUME ExpenseInv, NEW r \in Calls, Bind(r)
  PROVE Kinship'
  BY DEF Bind, ExpenseInv, Kinship, Close, Rows

(* Bind keeps a single expense, bound or about to be. *)
LEMMA BindSole ==
  ASSUME ExpenseInv, Kinship', NEW r \in Calls, Bind(r)
  PROVE Sole'
  BY DEF Bind, ExpenseInv, ExpenseTypeOK, Kinship, Close, Rows, Sole, Single, Found, Awaited,
     Binding, At, Made, MadeFrom, Overlap, Busy

(* Bind keeps the price of a link mirrored, or on its way. *)
LEMMA BindMirror ==
  ASSUME ExpenseInv, Kinship', NEW r \in Calls, Bind(r)
  PROVE Mirror'
  BY DEF Bind, ExpenseInv, Close, Rows, Mirror, Priced, At, Overlap, Busy

(* ReadResync keeps the relations of expenses, sources and requests. *)
LEMMA ReadResyncKin ==
  ASSUME ExpenseInv, NEW r \in Calls, NEW s \in Sources, NEW x \in Ids, ReadResync(r, s, x)
  PROVE Kinship'
  BY DEF ReadResync, ExpenseInv, Kinship, Open, Rows

(* ReadResync keeps a single expense, bound or about to be. *)
LEMMA ReadResyncSole ==
  ASSUME ExpenseInv, Kinship', NEW r \in Calls, NEW s \in Sources, NEW x \in Ids,
         ReadResync(r, s, x)
  PROVE Sole'
  BY DEF ReadResync, ExpenseInv, Open, Rows, Sole, Single, Found, Awaited, Binding, At, Made,
     MadeFrom

(* ReadResync keeps the price of a link mirrored, or on its way. *)
LEMMA ReadResyncMirror ==
  ASSUME ExpenseInv, Kinship', NEW r \in Calls, NEW s \in Sources, NEW x \in Ids,
         ReadResync(r, s, x)
  PROVE Mirror'
  BY DEF ReadResync, ExpenseInv, Open, Rows, Mirror, Priced, At

(* Resync keeps a single expense, bound or about to be. *)
LEMMA ResyncSole ==
  ASSUME ExpenseInv, Kinship', NEW r \in Calls, Resync(r)
  PROVE Sole'
  BY DEF Resync, SetTotal, ExpenseInv, ExpenseTypeOK, Kinship, Close, Rows, Sole, Single, Found,
     Awaited, Binding, At, Made, MadeFrom

(* SetCost keeps the relations of expenses, sources and requests. *)
LEMMA SetCostKin ==
  ASSUME ExpenseInv, NEW s \in Sources, NEW price \in Amount, SetCost(s, price)
  PROVE Kinship'
  BY DEF SetCost, ExpenseInv, Kinship, Rows

(* SetCost keeps a single expense, bound or about to be. *)
LEMMA SetCostSole ==
  ASSUME ExpenseInv, Kinship', NEW s \in Sources, NEW price \in Amount, SetCost(s, price)
  PROVE Sole'
  BY DEF SetCost, ExpenseInv, Rows, Sole, Single, Found, Awaited, Binding, At, Made, MadeFrom

(* SetCost keeps the price of a link mirrored, or on its way. *)
LEMMA SetCostMirror ==
  ASSUME ExpenseInv, Kinship', NEW s \in Sources, NEW price \in Amount, SetCost(s, price)
  PROVE Mirror'
  BY DEF SetCost, ExpenseInv, Rows, Mirror, Priced, At

(* ReadLink keeps the relations of expenses, sources and requests. *)
LEMMA ReadLinkKin ==
  ASSUME ExpenseInv, NEW r \in Calls, NEW s \in Sources, NEW price \in Amount, ReadLink(r, s, price)
  PROVE Kinship'
  BY DEF ReadLink, ExpenseInv, Kinship, Open, Rows

(* ReadLink keeps a single expense, bound or about to be. *)
LEMMA ReadLinkSole ==
  ASSUME ExpenseInv, Kinship', NEW r \in Calls, NEW s \in Sources, NEW price \in Amount,
         ReadLink(r, s, price)
  PROVE Sole'
  BY DEF ReadLink, ExpenseInv, Open, Rows, Sole, Single, Found, Awaited, Binding, At, Made,
     MadeFrom

(* ReadLink keeps the price of a link mirrored, or on its way. *)
LEMMA ReadLinkMirror ==
  ASSUME ExpenseInv, Kinship', NEW r \in Calls, NEW s \in Sources, NEW price \in Amount,
         ReadLink(r, s, price)
  PROVE Mirror'
  BY DEF ReadLink, ExpenseInv, Open, Rows, Mirror, Priced, At

(* PriceLink keeps the relations of expenses, sources and requests. *)
LEMMA PriceLinkKin ==
  ASSUME ExpenseInv, NEW r \in Calls, PriceLink(r)
  PROVE Kinship'
  BY DEF PriceLink, ExpenseInv, Kinship, Rows

(* PriceLink keeps a single expense, bound or about to be. *)
LEMMA PriceLinkSole ==
  ASSUME ExpenseInv, Kinship', NEW r \in Calls, PriceLink(r)
  PROVE Sole'
  BY DEF PriceLink, ExpenseInv, Rows, Sole, Single, Found, Awaited, Binding, At, Made, MadeFrom

(* SyncLink keeps a single expense, bound or about to be. *)
LEMMA SyncLinkSole ==
  ASSUME ExpenseInv, Kinship', NEW r \in Calls, SyncLink(r)
  PROVE Sole'
  BY Nulls DEF SyncLink, SetTotal, ExpenseInv, ExpenseTypeOK, Close, Rows, Sole, Single, Found,
     Awaited, Binding, At, Made, MadeFrom, Overlap

(* Crash keeps the relations of expenses, sources and requests. *)
LEMMA CrashKin ==
  ASSUME ExpenseInv, Crash
  PROVE Kinship'
  BY DEF Crash, ExpenseInv, Kinship, Rows

(* Crash keeps a single expense, bound or about to be. *)
LEMMA CrashSole ==
  ASSUME ExpenseInv, Kinship', Crash
  PROVE Sole'
  BY DEF Crash, ExpenseInv, Rows, Sole, Single, Found, Awaited, Binding, At, Made, MadeFrom

(* Crash keeps the price of a link mirrored, or on its way. *)
LEMMA CrashMirror ==
  ASSUME ExpenseInv, Kinship', Crash
  PROVE Mirror'
  BY DEF Crash, ExpenseInv, Mirror, Priced, At

(* Create keeps the invariant. *)
LEMMA CreateInv ==
  ASSUME ExpenseInv, NEW x \in Ids, NEW shape \in Shapes, NEW amount \in Amount,
         NEW split \in Splits, Create(x, shape, amount, split)
  PROVE ExpenseInv'
  BY CreateTypes, CreateKin, CreateSole, CreateMirror DEF ExpenseInv

(* ReadUpdate keeps the invariant. *)
LEMMA ReadUpdateInv ==
  ASSUME ExpenseInv, NEW r \in Calls, NEW x \in Ids, NEW amount \in Amount \cup {Keep},
         NEW split \in Splits \cup {Keep}, ReadUpdate(r, x, amount, split)
  PROVE ExpenseInv'
  BY ReadUpdateTypes, ReadUpdateKin, ReadUpdateSole, ReadUpdateMirror DEF ExpenseInv

(* StoreUpdate keeps the invariant. *)
LEMMA StoreUpdateInv == ASSUME ExpenseInv, NEW r \in Calls, StoreUpdate(r) PROVE ExpenseInv'
  BY StoreUpdateTypes, StoreUpdateKin, StoreUpdateSole, StoreUpdateMirror DEF ExpenseInv

(* Remove keeps the invariant. *)
LEMMA RemoveInv == ASSUME ExpenseInv, NEW x \in Ids, Remove(x) PROVE ExpenseInv'
  BY RemoveTypes, RemoveKin, RemoveSole, RemoveMirror DEF ExpenseInv

(* ReadMake keeps the invariant. *)
LEMMA ReadMakeInv == ASSUME ExpenseInv, NEW r \in Calls, NEW s \in Sources, ReadMake(r, s) PROVE ExpenseInv'
  BY ReadMakeTypes, ReadMakeKin, ReadMakeSole, ReadMakeMirror DEF ExpenseInv

(* Make keeps the invariant. *)
LEMMA MakeInv == ASSUME ExpenseInv, NEW r \in Calls, NEW x \in Ids, Make(r, x) PROVE ExpenseInv'
  BY MakeTypes, MakeKin, MakeSole, MakeMirror DEF ExpenseInv

(* Bind keeps the invariant. *)
LEMMA BindInv == ASSUME ExpenseInv, NEW r \in Calls, Bind(r) PROVE ExpenseInv'
  BY BindTypes, BindKin, BindSole, BindMirror DEF ExpenseInv

(* ReadResync keeps the invariant. *)
LEMMA ReadResyncInv ==
  ASSUME ExpenseInv, NEW r \in Calls, NEW s \in Sources, NEW x \in Ids, ReadResync(r, s, x)
  PROVE ExpenseInv'
  BY ReadResyncTypes, ReadResyncKin, ReadResyncSole, ReadResyncMirror DEF ExpenseInv

(* Resync keeps the invariant. *)
LEMMA ResyncInv == ASSUME ExpenseInv, NEW r \in Calls, Resync(r) PROVE ExpenseInv'
  BY ResyncTypes, ResyncKin, ResyncSole, ResyncMirror DEF ExpenseInv

(* SetCost keeps the invariant. *)
LEMMA SetCostInv ==
  ASSUME ExpenseInv, NEW s \in Sources, NEW price \in Amount, SetCost(s, price)
  PROVE ExpenseInv'
  BY SetCostTypes, SetCostKin, SetCostSole, SetCostMirror DEF ExpenseInv

(* ReadLink keeps the invariant. *)
LEMMA ReadLinkInv ==
  ASSUME ExpenseInv, NEW r \in Calls, NEW s \in Sources, NEW price \in Amount, ReadLink(r, s, price)
  PROVE ExpenseInv'
  BY ReadLinkTypes, ReadLinkKin, ReadLinkSole, ReadLinkMirror DEF ExpenseInv

(* PriceLink keeps the invariant. *)
LEMMA PriceLinkInv == ASSUME ExpenseInv, NEW r \in Calls, PriceLink(r) PROVE ExpenseInv'
  BY PriceLinkTypes, PriceLinkKin, PriceLinkSole, PriceLinkMirror DEF ExpenseInv

(* SyncLink keeps the invariant. *)
LEMMA SyncLinkInv == ASSUME ExpenseInv, NEW r \in Calls, SyncLink(r) PROVE ExpenseInv'
  BY SyncLinkTypes, SyncLinkKin, SyncLinkSole, SyncLinkMirror DEF ExpenseInv

(* Crash keeps the invariant. *)
LEMMA CrashInv == ASSUME ExpenseInv, Crash PROVE ExpenseInv'
  BY CrashTypes, CrashKin, CrashSole, CrashMirror DEF ExpenseInv

(* Steps of budgets and checks keep it. *)
LEMMA ExpensesUntouched ==
  ASSUME ExpenseInv, UNCHANGED <<expense, source, call, ops, crashes, repriced, origin, orphaned,
         retouched>>
  PROVE  ExpenseInv'
<1>1. ExpenseTypeOK'
  BY DEF ExpenseInv, ExpenseTypeOK
<1>2. Kinship'
  BY DEF ExpenseInv, Kinship, Rows
<1>3. Sole'
  BY DEF ExpenseInv, Sole, Single, Found, Awaited, Binding, At, Made, MadeFrom, Rows
<1>4. Mirror'
  BY DEF ExpenseInv, Mirror, Priced, At, Rows
<1> QED BY <1>1, <1>2, <1>3, <1>4 DEF ExpenseInv

(* Every step keeps it. *)
LEMMA StepExpenseInv == ASSUME ExpenseInv, [Next]_vars PROVE ExpenseInv'
<1>1. CASE ExpenseNext
  BY <1>1, CreateInv, ReadUpdateInv, StoreUpdateInv, RemoveInv, ReadMakeInv, MakeInv, BindInv, ReadResyncInv,
     ResyncInv, SetCostInv, ReadLinkInv, PriceLinkInv, SyncLinkInv, CrashInv DEF ExpenseNext
<1>2. CASE UNCHANGED <<expense, source, call, ops, crashes, repriced, origin, orphaned, retouched>>
  BY <1>2, ExpensesUntouched
<1>3. ASSUME NEW k \in pending, BeginCheck(k) PROVE ExpenseInv'
  BY <1>2, <1>3 DEF BeginCheck
<1>4. ASSUME NEW k \in running, ReadExpenses(k) \/ Tell(k) \/ LoseCheck(k) PROVE ExpenseInv'
  BY <1>2, <1>4 DEF ReadExpenses, Tell, LoseCheck, expenseVars
<1>5. ASSUME NEW k \in running, NEW bu \in k.todo, Look(k, bu) PROVE ExpenseInv'
  BY <1>2, <1>5 DEF Look, expenseVars
<1>6. CASE BudgetStep
  BY <1>2, <1>6 DEF BudgetStep, expenseVars
<1>7. CASE UNCHANGED vars
  BY <1>2, <1>7 DEF vars, expenseVars
<1> QED BY <1>1, <1>3, <1>4, <1>5, <1>6, <1>7 DEF Next, ExpenseStep

(* The inductive invariant of the expenses and their sources. *)
LEMMA ExpenseInvHolds == Spec => []ExpenseInv
<1>1. Init => ExpenseInv
  BY InitExpenseInv, BoundAssumption DEF Init
<1> QED BY <1>1, StepExpenseInv, PTL DEF Spec

(* The rows of expenses, the sources and the open requests stay what the
   constants allow: an update, a resync or a followed price leaves a row a row. *)
THEOREM ExpenseTypes == Spec => []ExpenseTypeOK
  BY ExpenseInvHolds, PTL DEF ExpenseInv

(* A task or a link has at most one expense made from it, unless two requests
   were at it or the process stopped before it was bound (schema.prisma, "enforced
   1:1 at the service layer"): an expense that is not bound yet has its request. *)
THEOREM OneExpensePerSourceHolds == Spec => []OneExpensePerSource
<1>1. ExpenseInv => OneExpensePerSource
  <2> SUFFICES ASSUME ExpenseInv, NEW s \in Sources, source[s].kind # "asset", s \notin orphaned
               PROVE  Cardinality(Made(s)) <= 1
    BY DEF OneExpensePerSource, Made
  <2>1. Single(s)
    BY DEF ExpenseInv, Sole
  <2>2. CASE Made(s) = {}
    BY <2>2, FS_EmptySet
  <2>3. CASE Made(s) # {}
    <3> PICK x : Made(s) = {x}
      BY <2>1, <2>3 DEF Single
    <3>1. Cardinality({x}) = 1
      BY FS_Singleton
    <3> QED BY <3>1
  <2> QED BY <2>2, <2>3
<1> QED BY <1>1, ExpenseInvHolds, PTL

(* The expense of a link costs what the link costs once no request is at the
   link, unless it was set by hand or two requests met (connectivity.service.ts:183):
   a price that is ahead of its expense has a request on the way. *)
THEOREM LinkPriceMirroredHolds == Spec => []LinkPriceMirrored
<1>1. ExpenseInv => LinkPriceMirrored
  <2> SUFFICES ASSUME ExpenseInv, NEW s \in Sources, source[s].kind = "link",
                      source[s].expense # None, Busy(s) = {},
                      s \notin retouched
               PROVE  expense[source[s].expense].totalAmount = source[s].price
    BY DEF LinkPriceMirrored
  <2>1. source[s].expense \in Ids
    BY DEF ExpenseInv, ExpenseTypeOK
  <2>2. ~\E q \in Calls : At(q, "sync", s)
    BY DEF Busy, At
  <2> QED BY <2>1, <2>2 DEF ExpenseInv, Mirror, Priced
<1> QED BY <1>1, ExpenseInvHolds, PTL

-----------------------------------------------------------------------------
\* The budgets and the requests on them.

(* The nulls are told from rows, requests and ids. *)
LEMMA BudgetNulls == None # Keep /\ None \notin BudgetRow /\ None \notin OpenBudgetCall /\ None \notin Budgets
  BY BudgetNullAssumption

(* The fields of a budget that a request may change. *)
LEMMA RowFields ==
  ASSUME NEW row \in BudgetRow
  PROVE  row.amount \in AnyAmount /\ row.parent \in Budgets \cup {None}
<1> PICK b \in Budgets, amount \in AnyAmount, parent \in Budgets \cup {None} : row = Row(b, amount, parent)
  BY DEF BudgetRow
<1> QED BY DEF Row

\* A budget with another amount and parent.
Regrouped(row, amount, parent) == [row EXCEPT !.amount = amount, !.parent = parent]

(* A budget given another amount and parent stays a budget. *)
LEMMA RowRegrouped ==
  ASSUME NEW row \in BudgetRow, NEW amount \in AnyAmount, NEW parent \in Budgets \cup {None}
  PROVE  /\ Regrouped(row, amount, parent) \in BudgetRow
         /\ Regrouped(row, amount, parent).parent = parent /\ Regrouped(row, amount, parent).amount = amount
<1> PICK b \in Budgets, old \in AnyAmount, was \in Budgets \cup {None} : row = Row(b, old, was)
  BY DEF BudgetRow
<1> PICK delegation, centre, start, end, pct :
      /\ delegation = Drafts[b].delegation /\ centre = Drafts[b].centre
      /\ start = Drafts[b].startDate /\ end = Drafts[b].endDate /\ pct = Drafts[b].alertThresholdPct
  OBVIOUS
<1> PICK mid : mid = [row EXCEPT !.amount = amount]
  OBVIOUS
<1>1. row \in [delegation : {delegation}, centre : {centre}, startDate : {start}, endDate : {end},
               alertThresholdPct : {pct}, amount : {old}, parent : {was}]
  BY DEF Row
<1>2. mid \in [delegation : {delegation}, centre : {centre}, startDate : {start}, endDate : {end},
               alertThresholdPct : {pct}, amount : {amount}, parent : {was}]
  BY <1>1
<1> PICK new : new = [mid EXCEPT !.parent = parent]
  OBVIOUS
<1>6. new \in [delegation : {delegation}, centre : {centre}, startDate : {start}, endDate : {end},
               alertThresholdPct : {pct}, amount : {amount}, parent : {parent}]
  BY <1>2
<1>3. new = Row(b, amount, parent)
  BY <1>6 DEF Row
<1>4. Regrouped(row, amount, parent) = [mid EXCEPT !.parent = parent]
  BY DEF Regrouped
<1>5. /\ Row(b, amount, parent) \in BudgetRow
      /\ Row(b, amount, parent).parent = parent /\ Row(b, amount, parent).amount = amount
  <2>1. Row(b, amount, parent) \in BudgetRow
    BY DEF BudgetRow
  <2>2. new.parent = parent /\ new.amount = amount
    BY <1>6
  <2> QED BY <1>3, <2>1, <2>2
<1> QED BY <1>3, <1>4, <1>5

(* The fields of an open request, and that it may grow stale. *)
LEMMA BudgetCallFields ==
  ASSUME NEW c \in OpenBudgetCall
  PROVE  /\ c.id \in Budgets
         /\ c.op = "create" => c.amount \in Amounts /\ c.parent \in Budgets \cup {None}
         /\ c.op = "update" => c.amount \in Amounts \cup {Keep} /\ c.parent \in Budgets \cup {None, Keep}
         /\ [c EXCEPT !.stale = TRUE] \in OpenBudgetCall
  BY DEF OpenBudgetCall

(* The rows there are at first have parents among them. *)
LEMMA BudgetInitTypes == ASSUME BudgetInit PROVE BudgetTypeOK
<1>1. ASSUME NEW b \in Budgets
      PROVE  /\ budget[b] \in BudgetRow \cup {None}
             /\ Existing[b] # None => budget[b] \in BudgetRow /\ budget[b].parent = Existing[b].parent
  <2>1. CASE Existing[b] = None
    BY <2>1 DEF BudgetInit
  <2>2. CASE Existing[b] # None
    <3>1. Existing[b].amount \in AnyAmount /\ Existing[b].parent \in Budgets \cup {None}
      BY <2>2, ExistingAssumption DEF AnyAmount
    <3>2. budget[b] = Row(b, Existing[b].amount, Existing[b].parent)
      BY <2>2 DEF BudgetInit
    <3> PICK amount, parent : amount = Existing[b].amount /\ parent = Existing[b].parent
      OBVIOUS
    <3>3. Row(b, amount, parent) \in BudgetRow
      BY <3>1 DEF BudgetRow
    <3>4. Row(b, amount, parent).parent = parent
      BY DEF Row
    <3> QED BY <3>2, <3>3, <3>4
  <2> QED BY <2>1, <2>2
<1>2. ASSUME NEW b \in Live, budget[b].parent # None PROVE budget[b].parent \in Live
  <2>1. b \in Budgets /\ Existing[b] # None
    BY DEF Live, BudgetInit
  <2>2. budget[b].parent \in Budgets /\ Existing[budget[b].parent] # None
    BY <1>1, <1>2, <2>1, ExistingAssumption
  <2> QED BY <1>1, <2>2, BudgetNulls DEF Live
<1>3. budget \in [Budgets -> BudgetRow \cup {None}]
  BY <1>1 DEF BudgetInit
<1>4. loosened \subseteq Budgets
  BY DEF BudgetInit, Live, Circles
<1>5. bcall \in [BudgetCalls -> OpenBudgetCall \cup {None}] /\ bops \in 0..MaxBudgetOps
  BY BudgetBoundAssumption DEF BudgetInit
<1> QED BY <1>2, <1>3, <1>4, <1>5 DEF BudgetTypeOK

(* A request that begins. *)
LEMMA BeginTypes ==
  ASSUME BudgetTypeOK, NEW r, NEW c \in OpenBudgetCall, Begin(r, c)
  PROVE  BudgetTypeOK'
<1>1. bcall' \in [BudgetCalls -> OpenBudgetCall \cup {None}]
  BY DEF BudgetTypeOK, Begin
<1> QED BY <1>1, BudgetBoundAssumption DEF BudgetTypeOK, Begin, Live

(* The requests once one has written. *)
LEMMA StaleTypes ==
  ASSUME BudgetTypeOK, NEW r
  PROVE  [q \in BudgetCalls |-> IF q = r \/ bcall[q] = None THEN None ELSE [bcall[q] EXCEPT !.stale = TRUE]]
           \in [BudgetCalls -> OpenBudgetCall \cup {None}]
<1> SUFFICES ASSUME NEW q \in BudgetCalls, bcall[q] # None
             PROVE  [bcall[q] EXCEPT !.stale = TRUE] \in OpenBudgetCall
  OBVIOUS
<1>1. bcall[q] \in OpenBudgetCall
  BY DEF BudgetTypeOK
<1> PICK c : c = bcall[q]
  OBVIOUS
<1> QED BY <1>1, BudgetCallFields

(* The check of a new budget. *)
LEMMA CheckCreateTypes ==
  ASSUME BudgetTypeOK, NEW r \in BudgetCalls, NEW b \in Budgets, NEW a \in Amounts,
         NEW p \in Budgets \cup {None}, CheckCreate(r, b, a, p)
  PROVE  BudgetTypeOK'
<1>1. [op |-> "create", id |-> b, amount |-> a, parent |-> p, stale |-> FALSE] \in OpenBudgetCall
  BY DEF OpenBudgetCall
<1> QED BY <1>1, BeginTypes DEF CheckCreate

(* The check of a change. *)
LEMMA CheckUpdateTypes ==
  ASSUME BudgetTypeOK, NEW r \in BudgetCalls, NEW b \in Budgets, NEW a \in Amounts \cup {Keep},
         NEW p \in Budgets \cup {None, Keep}, CheckUpdate(r, b, a, p)
  PROVE  BudgetTypeOK'
<1>1. [op |-> "update", id |-> b, amount |-> a, parent |-> p, stale |-> FALSE] \in OpenBudgetCall
  BY DEF OpenBudgetCall
<1> QED BY <1>1, BeginTypes DEF CheckUpdate

(* A write that is refused. *)
LEMMA RefuseTypes == ASSUME BudgetTypeOK, NEW r, Refuse(r) PROVE BudgetTypeOK'
<1>1. bcall' \in [BudgetCalls -> OpenBudgetCall \cup {None}]
  BY DEF BudgetTypeOK, Refuse
<1> QED BY <1>1 DEF BudgetTypeOK, Refuse, Live

(* A row written over with a parent that is alive, or none. *)
LEMMA StoreTypes ==
  ASSUME BudgetTypeOK, NEW r, NEW b \in Budgets, NEW row \in BudgetRow,
         Store(r, [budget EXCEPT ![b] = row]), row.parent # None => row.parent \in Live,
         loosened' \subseteq Budgets
  PROVE  BudgetTypeOK'
<1>1. bcall' \in [BudgetCalls -> OpenBudgetCall \cup {None}]
  BY StaleTypes DEF Store
<1>2. budget' \in [Budgets -> BudgetRow \cup {None}] /\ budget' = [budget EXCEPT ![b] = row]
  BY DEF BudgetTypeOK, Store
<1>3. Live \subseteq Live' /\ \A o \in Live' : o # b => o \in Live /\ budget'[o] = budget[o]
  BY <1>2, BudgetNulls DEF Live, BudgetTypeOK
<1>4. \A o \in Live' : budget'[o].parent # None => budget'[o].parent \in Live'
  BY <1>2, <1>3 DEF BudgetTypeOK
<1> QED BY <1>1, <1>2, <1>4 DEF BudgetTypeOK, Store

(* The write of a new budget; the foreign key sees to its parent. *)
LEMMA WriteCreateTypes == ASSUME BudgetTypeOK, NEW r \in BudgetCalls, WriteCreate(r) PROVE BudgetTypeOK'
<1> PICK c, row : c = bcall[r] /\ row = Row(c.id, c.amount, c.parent)
  OBVIOUS
<1>1. c \in OpenBudgetCall /\ c.op = "create"
  BY DEF BudgetTypeOK, WriteCreate
<1>2. c.id \in Budgets /\ c.amount \in AnyAmount /\ c.parent \in Budgets \cup {None}
  BY <1>1, BudgetCallFields DEF AnyAmount
<1>3. row \in BudgetRow /\ row.parent = c.parent
  BY <1>2 DEF BudgetRow, Row
<1>4. CASE c.parent # None /\ budget[c.parent] = None
  BY <1>4, RefuseTypes DEF WriteCreate
<1>5. CASE ~(c.parent # None /\ budget[c.parent] = None)
  <2>1. Store(r, [budget EXCEPT ![c.id] = row])
    BY <1>5 DEF WriteCreate
  <2>2. loosened' \subseteq Budgets
    BY <1>2, <1>5 DEF WriteCreate, BudgetTypeOK
  <2>3. row.parent # None => row.parent \in Live
    BY <1>2, <1>3, <1>5 DEF Live
  <2> QED BY <1>2, <1>3, <2>1, <2>2, <2>3, StoreTypes
<1> QED BY <1>4, <1>5

(* The write of a change; the foreign key sees to its parent. *)
LEMMA WriteUpdateTypes == ASSUME BudgetTypeOK, NEW r \in BudgetCalls, WriteUpdate(r) PROVE BudgetTypeOK'
<1> PICK c, row, amount, parent :
      /\ c = bcall[r] /\ row = budget[c.id]
      /\ amount = IF c.amount = Keep THEN row.amount ELSE c.amount
      /\ parent = IF c.parent = Keep THEN row.parent ELSE c.parent
  OBVIOUS
<1>1. c \in OpenBudgetCall /\ c.op = "update"
  BY DEF BudgetTypeOK, WriteUpdate
<1>2. c.id \in Budgets /\ c.amount \in Amounts \cup {Keep} /\ c.parent \in Budgets \cup {None, Keep}
  BY <1>1, BudgetCallFields
<1>3. CASE row = None \/ (c.parent \notin {Keep, None} /\ budget[c.parent] = None)
  BY <1>3, RefuseTypes DEF WriteUpdate
<1>4. CASE ~(row = None \/ (c.parent \notin {Keep, None} /\ budget[c.parent] = None))
  <2>1. row \in BudgetRow /\ c.id \in Live
    BY <1>2, <1>4 DEF BudgetTypeOK, Live
  <2>2. amount \in AnyAmount /\ parent \in Budgets \cup {None}
    BY <1>2, <2>1, RowFields DEF AnyAmount
  <2> PICK new : new = Regrouped(row, amount, parent)
    OBVIOUS
  <2>3. new \in BudgetRow /\ new.parent = parent
    BY <2>1, <2>2, RowRegrouped
  <2>4. [budget EXCEPT ![c.id].amount = amount, ![c.id].parent = parent] = [budget EXCEPT ![c.id] = new]
    <3> PICK once : once = [budget EXCEPT ![c.id].amount = amount]
      OBVIOUS
    <3> QED BY <1>2 DEF BudgetTypeOK, Regrouped
  <2>5. Store(r, [budget EXCEPT ![c.id] = new])
    BY <1>4, <2>4 DEF WriteUpdate
  <2>6. loosened' \subseteq Budgets
    BY <1>2, <1>4, <2>2 DEF WriteUpdate, BudgetTypeOK
  <2>7. new.parent # None => new.parent \in Live
    BY <1>2, <1>4, <2>1, <2>2, <2>3 DEF Live, BudgetTypeOK
  <2> QED BY <1>2, <2>3, <2>5, <2>6, <2>7, StoreTypes
<1> QED BY <1>3, <1>4

(* A budget that is removed has no sub-budgets. *)
LEMMA RemoveBudgetTypes == ASSUME BudgetTypeOK, NEW b \in Budgets, RemoveBudget(b) PROVE BudgetTypeOK'
<1>1. bcall' \in [BudgetCalls -> OpenBudgetCall \cup {None}]
  <2> SUFFICES ASSUME NEW q \in BudgetCalls, bcall[q] # None
               PROVE  [bcall[q] EXCEPT !.stale = TRUE] \in OpenBudgetCall
    BY DEF RemoveBudget
  <2> PICK c : c = bcall[q]
    OBVIOUS
  <2> QED BY BudgetCallFields DEF BudgetTypeOK
<1>2. budget' \in [Budgets -> BudgetRow \cup {None}]
  BY DEF BudgetTypeOK, RemoveBudget
<1>3. Live' = Live \ {b} /\ \A o \in Live' : budget'[o] = budget[o]
  BY DEF BudgetTypeOK, RemoveBudget, Live
<1>4. \A o \in Live : budget[o].parent # b
  BY DEF RemoveBudget, Children
<1>5. \A o \in Live' : budget'[o].parent # None => budget'[o].parent \in Live'
  BY <1>3, <1>4 DEF BudgetTypeOK
<1>6. bops' \in 0..MaxBudgetOps
  BY BudgetBoundAssumption DEF BudgetTypeOK, RemoveBudget
<1> QED BY <1>1, <1>2, <1>5, <1>6 DEF BudgetTypeOK, RemoveBudget

(* Every step keeps the types of the budgets. *)
LEMMA BudgetStepTypes == ASSUME BudgetTypeOK, [Next]_vars PROVE BudgetTypeOK'
<1>1. CASE UNCHANGED budgetVars
  BY <1>1 DEF BudgetTypeOK, budgetVars, Live
<1>2. CASE ExpenseStep
  <2>1. bcall' \in [BudgetCalls -> OpenBudgetCall \cup {None}]
    BY <1>2 DEF ExpenseStep, BudgetTypeOK
  <2> QED BY <1>2, <2>1 DEF ExpenseStep, BudgetTypeOK, Live
<1>3. CASE BudgetStep
  BY <1>3, CheckCreateTypes, CheckUpdateTypes, WriteCreateTypes, WriteUpdateTypes, RemoveBudgetTypes
     DEF BudgetStep, BudgetNext
<1>4. ASSUME NEW k \in pending, BeginCheck(k) PROVE BudgetTypeOK'
  BY <1>1, <1>4 DEF BeginCheck
<1>5. ASSUME NEW k \in running, ReadExpenses(k) \/ Tell(k) \/ LoseCheck(k) PROVE BudgetTypeOK'
  BY <1>1, <1>5 DEF ReadExpenses, Tell, LoseCheck
<1>6. ASSUME NEW k \in running, NEW bu \in k.todo, Look(k, bu) PROVE BudgetTypeOK'
  BY <1>1, <1>6 DEF Look
<1>7. CASE UNCHANGED vars
  BY <1>1, <1>7 DEF vars
<1> QED BY <1>2, <1>3, <1>4, <1>5, <1>6, <1>7 DEF Next

\* What TypeOK rests on.
CostInv == /\ ExpenseInv /\ BudgetTypeOK /\ OnceInv
           /\ lost \in 0..MaxLost /\ unannounced \subseteq Budgets /\ met \subseteq Budgets

(* The rest of the variables. *)
LEMMA RestTypes ==
  ASSUME OnceInv, lost \in 0..MaxLost, unannounced \subseteq Budgets, met \subseteq Budgets,
         [Next]_vars
  PROVE  lost' \in 0..MaxLost /\ unannounced' \subseteq Budgets /\ met' \subseteq Budgets
<1>0. Account => unannounced' \subseteq Budgets
  BY DEF Account, Reached, Live
<1>1. CASE ExpenseStep
  BY <1>0, <1>1 DEF ExpenseStep
<1>2. CASE BudgetStep
  BY <1>0, <1>2 DEF BudgetStep, checkVars
<1>3. ASSUME NEW k \in pending, BeginCheck(k)
      PROVE  lost' = lost /\ unannounced' = unannounced /\ met' = met
  BY <1>3 DEF BeginCheck
<1>4. ASSUME NEW k \in running, ReadExpenses(k)
      PROVE  lost' = lost /\ unannounced' = unannounced /\ met' \subseteq Budgets
  <2> PICK todo : /\ \A bu \in todo : bu[1] \in DOMAIN k.rows
                  /\ met' = met \cup {bu[1] : bu \in todo \cap UNION {h.todo : h \in running}}
    BY <1>4 DEF ReadExpenses
  <2>1. DOMAIN k.rows \subseteq Budgets
    BY DEF OnceInv, Check
  <2> QED BY <1>4, <2>1 DEF ReadExpenses
<1>5. ASSUME NEW k \in running, Tell(k)
      PROVE  lost' = lost /\ unannounced' = unannounced /\ met' = met
  BY <1>5 DEF Tell
<1>6. ASSUME NEW k \in running, LoseCheck(k)
      PROVE  lost' \in 0..MaxLost /\ unannounced' = unannounced /\ met' = met
  <2>1. lost < MaxLost /\ lost' = lost + 1
    BY <1>6 DEF LoseCheck
  <2>2. unannounced' = unannounced /\ met' = met
    BY <1>6 DEF LoseCheck
  <2> QED BY <2>1, <2>2, LostAssumption
<1>7. ASSUME NEW k \in running, NEW bu \in k.todo, Look(k, bu)
      PROVE  lost' = lost /\ unannounced' = unannounced /\ met' = met
  BY <1>7 DEF Look
<1>8. CASE UNCHANGED vars
  BY <1>8 DEF vars, checkVars
<1> QED BY <1>1, <1>2, <1>3, <1>4, <1>5, <1>6, <1>7, <1>8 DEF Next

(* It holds at first. *)
LEMMA InitCostInv == ASSUME Init PROVE CostInv
<1>1. ExpenseInv /\ BudgetTypeOK
  BY InitExpenseInv, BudgetInitTypes, BoundAssumption DEF Init
<1>2. OnceInv
  BY DEF Init, OnceInv
<1> QED BY <1>1, <1>2, LostAssumption DEF Init, Reached, Live, CostInv

(* Every variable stays within its type; the parent of a budget is a budget. *)
THEOREM CostTypes == Spec => []TypeOK
<1>1. Init => CostInv
  BY InitCostInv
<1>2. CostInv /\ [Next]_vars => CostInv'
  BY StepExpenseInv, BudgetStepTypes, StepOnce, RestTypes DEF CostInv
<1>3. CostInv => TypeOK
  BY DEF ExpenseInv, OnceInv, Check, TypeOK, CostInv
<1> QED BY <1>1, <1>2, <1>3, PTL DEF Spec

-----------------------------------------------------------------------------
\* What an expense brings to a budget.

(* A product, and its hundredth part. *)
LEMMA NatProduct == ASSUME NEW a \in Nat, NEW b \in Nat PROVE a * b \in Nat /\ (a * b) \div 100 \in Nat
  OBVIOUS

(* The same for amounts that may be credits. *)
LEMMA IntProduct == ASSUME NEW a \in Int, NEW b \in Int PROVE a * b \in Int /\ (a * b) \div 100 \in Int
  OBVIOUS

(* A larger dividend has a larger quotient. *)
LEMMA QuotientGrows ==
  ASSUME NEW d \in Nat, d > 0, NEW a \in Int, NEW b \in Int, a <= b
  PROVE  a \div d \in Int /\ b \div d \in Int /\ a \div d <= b \div d
<1> PICK p, q : p = a \div d /\ q = b \div d
  OBVIOUS
<1>1. p \in Int /\ q \in Int /\ d * p <= a /\ b < d * q + d
  OBVIOUS
<1>2. CASE p > q
  <2>1. p - q - 1 \in Nat /\ d * (p - q - 1) >= 0
    BY <1>1, <1>2
  <2>2. d * (p - q - 1) = d * p - d * q - d
    BY <1>1
  <2> QED BY <1>1, <2>1, <2>2
<1> QED BY <1>1, <1>2

(* What a recurring expense weighs is never negative. *)
LEMMA WeightNat ==
  ASSUME NEW x, x.dateIncurred \in Int, {x.dateStart, x.dateEnd} \subseteq Int \cup {None},
         NEW start \in Int, NEW end \in Int
  PROVE  Weight(x, start, end) \in Nat
<1>1. Factor(x.frequency) \in Nat
  BY DEF Factor
<1>2. MonthsForRecurring(x, start, end) \in Nat
  <2> PICK from, to : /\ from = (IF x.dateStart # None /\ x.dateStart > start THEN x.dateStart ELSE start)
                      /\ to = (IF x.dateEnd # None /\ x.dateEnd < end THEN x.dateEnd ELSE end)
    OBVIOUS
  <2>1. from \in Int /\ to \in Int
    OBVIOUS
  <2>2. from <= to => MonthsBetween(from, to) \in Nat
    <3>1. from <= to => Month(to) - Month(from) + 1 \in Int /\ Month(to) - Month(from) + 1 >= 1
      BY <2>1, MonthMonotone
    <3> QED BY <3>1, MaxOne DEF MonthsBetween
  <2> QED BY <2>1, <2>2 DEF MonthsForRecurring
<1> QED BY <1>1, <1>2, NatProduct DEF Weight

(* A budget that has spent more is further on. *)
LEMMA ProgressGrows ==
  ASSUME NEW b, b.amount \in Nat, b.alertThresholdPct \in Int, NEW less \in Int, NEW more \in Int,
         less <= more, ThresholdReached(b, less)
  PROVE  ThresholdReached(b, more)
<1>1. CASE b.amount > 0
  <2>1. 200 * less + 12 * b.amount <= 200 * more + 12 * b.amount /\ 24 * b.amount \in Nat /\ 24 * b.amount > 0
    BY <1>1
  <2>2. (200 * less + 12 * b.amount) \div (24 * b.amount) <= (200 * more + 12 * b.amount) \div (24 * b.amount)
    BY <2>1, QuotientGrows
  <2>3. /\ (200 * less + 12 * b.amount) \div (24 * b.amount) \in Int
        /\ (200 * more + 12 * b.amount) \div (24 * b.amount) \in Int
    BY <2>1, QuotientGrows
  <2> QED BY <1>1, <2>2, <2>3 DEF ThresholdReached, Progress
<1>2. CASE ~(b.amount > 0)
  BY <1>2 DEF ThresholdReached, Progress
<1> QED BY <1>1, <1>2

Share(x, b) == IF b.centre # None THEN Contribution(x, b.centre) ELSE x.totalAmount
Counts(x, b) == /\ InWindow(x, b)
                /\ IF b.centre # None THEN Touches(x, b.centre) ELSE b.delegation \in {None, x.delegation}
Term(x, b) == Share(x, b) * Weight(x, b.startDate, b.endDate)
CountedBy(b, rows, ids) == {i \in ids : Counts(rows[i], b)}

(* What a budget has spent is the sum of the terms of the expenses it counts. *)
LEMMA SpentIs ==
  ASSUME NEW b, NEW rows, NEW ids
  PROVE  Spent(b, rows, ids) =
           SumFunctionOnSet([i \in CountedBy(b, rows, ids) |-> Term(rows[i], b)], CountedBy(b, rows, ids))
  BY DEF Spent, SumFunction, CountedBy, Counts, Term, Share

(* The money of a row. *)
LEMMA RowMoney ==
  ASSUME NEW row \in ExpenseRow
  PROVE  /\ row.totalAmount \in Int /\ row.bearer \in Centres
         /\ Targets(row) \subseteq Centres /\ IsFiniteSet(Targets(row))
         /\ \A t \in Targets(row) : /\ row.allocations[t].percentage \in Nat
                                    /\ row.allocations[t].amount \in Int
         /\ row.dateIncurred \in Int /\ {row.dateStart, row.dateEnd} \subseteq Int \cup {None}
<1> PICK shape \in AnyShape, total \in Amount, part \in Amount, split \in AnySplit :
         row = Compose(shape, total, Allocate(split, part))
  BY DEF ExpenseRow
<1>1. /\ row.totalAmount = total /\ row.bearer = shape.bearer /\ row.allocations = Allocate(split, part)
      /\ row.dateIncurred = shape.dateIncurred /\ row.dateStart = shape.dateStart /\ row.dateEnd = shape.dateEnd
  BY DEF Compose
<1>2. Targets(row) = DOMAIN split
  BY <1>1 DEF Targets, Allocate
<1>3. DOMAIN split \subseteq Centres /\ \A t \in DOMAIN split : split[t] \in Nat
  BY MoneyAssumption DEF AnySplit, NoSplit, Centres
<1>4. ASSUME NEW t \in DOMAIN split
      PROVE  row.allocations[t].percentage \in Nat /\ row.allocations[t].amount \in Int
  <2>1. row.allocations[t].percentage = split[t] /\ row.allocations[t].amount = (part * split[t]) \div 100
    BY <1>1 DEF Allocate
  <2> QED BY <1>3, <2>1, IntProduct, MoneyAssumption
<1>5. IsFiniteSet(DOMAIN split)
  BY <1>3, FS_Subset, CentresAssumption
<1>6. row.totalAmount \in Int /\ row.bearer \in Centres
  BY <1>1, MoneyAssumption DEF Centres
<1>7. row.dateIncurred \in Int /\ {row.dateStart, row.dateEnd} \subseteq Int \cup {None}
  BY <1>1, ShapeAssumption
<1> QED BY <1>2, <1>3, <1>4, <1>5, <1>6, <1>7

(* Zero, or more. *)
LEMMA MaxZero == ASSUME NEW n \in Int PROVE Max({0, n}) = IF n >= 0 THEN n ELSE 0
  BY DEF Max

(* What is passed on of an expense. *)
LEMMA PercentInt == ASSUME NEW row \in ExpenseRow PROVE PercentOut(row) \in Int
<1>1. PercentOut(row) = SumFunctionOnSet([t \in Targets(row) |-> row.allocations[t].percentage], Targets(row))
  BY DEF PercentOut, SumFunction
<1> QED BY <1>1, RowMoney, SumAny

(* What an expense brings to a budget; it is not negative unless it is a credit. *)
LEMMA TermNat ==
  ASSUME NEW row \in ExpenseRow, NEW b, b.startDate \in Int, b.endDate \in Int
  PROVE  Term(row, b) \in Int /\ (~Credit(row) => Term(row, b) \in Nat)
<1>1. Max({0, 100 - PercentOut(row)}) \in Nat
  BY PercentInt, MaxZero
<1> PICK rest : rest = Max({0, 100 - PercentOut(row)})
  OBVIOUS
<1>2. (row.totalAmount * rest) \div 100 \in Int /\ (~Credit(row) => (row.totalAmount * rest) \div 100 \in Nat)
  <2>1. row.totalAmount \in Int /\ (~Credit(row) => row.totalAmount \in Nat)
    BY RowMoney DEF Credit
  <2>2. (row.totalAmount * rest) \div 100 \in Int
    BY <1>1, <2>1, IntProduct
  <2>3. ~Credit(row) => (row.totalAmount * rest) \div 100 \in Nat
    BY <1>1, <2>1, NatProduct
  <2> QED BY <2>2, <2>3
<1>3. ASSUME NEW c PROVE Contribution(row, c) \in Int /\ (~Credit(row) => Contribution(row, c) \in Nat)
  <2>1. c \in Targets(row) => /\ row.allocations[c].amount \in Int
                              /\ ~Credit(row) => row.allocations[c].amount \in Nat
    BY RowMoney DEF Credit
  <2> QED BY <1>2, <2>1 DEF Contribution
<1>4. Share(row, b) \in Int /\ (~Credit(row) => Share(row, b) \in Nat)
  BY <1>3, RowMoney DEF Share, Credit
<1>5. Weight(row, b.startDate, b.endDate) \in Nat
  BY RowMoney, WeightNat
<1> QED BY <1>4, <1>5, NatProduct, IntProduct DEF Term

(* When rows that are no credits are changed to ones that a budget does not count,
   or go, the budget has not spent more. *)
LEMMA SpentShrinks ==
  ASSUME NEW b, b.startDate \in Int, b.endDate \in Int, NEW rows, NEW others,
         NEW ids \in SUBSET Ids, NEW left \in SUBSET Ids, \A i \in ids : rows[i] \in ExpenseRow,
         \A i \in left : Counts(others[i], b) => i \in ids /\ others[i] = rows[i],
         \A i \in ids : Credit(rows[i]) => i \in left /\ others[i] = rows[i]
  PROVE  /\ Spent(b, rows, ids) \in Int /\ Spent(b, others, left) \in Int
         /\ Spent(b, others, left) <= Spent(b, rows, ids)
<1> PICK S, T : S = CountedBy(b, others, left) /\ T = CountedBy(b, rows, ids)
  OBVIOUS
<1>1. S \in SUBSET T /\ T \in SUBSET Ids /\ \A i \in T : rows[i] \in ExpenseRow
  BY DEF CountedBy
<1>2. IsFiniteSet(T) /\ IsFiniteSet(S)
  BY <1>1, CentresAssumption, FS_Subset
<1> PICK f, g : f = [i \in S |-> Term(others[i], b)] /\ g = [i \in T |-> Term(rows[i], b)]
  OBVIOUS
<1>3. \A i \in T : g[i] \in Int
  BY <1>1, TermNat
<1>8. \A i \in T \ S : 0 <= g[i]
  <2> TAKE i \in T \ S
  <2>1. ~Credit(rows[i])
    BY DEF CountedBy
  <2>2. Term(rows[i], b) \in Nat
    BY <1>1, <2>1, TermNat
  <2> QED BY <2>2
<1>4. \A i \in S : f[i] = g[i]
  BY <1>1 DEF CountedBy
<1>5. SumFunctionOnSet(f, S) <= SumFunctionOnSet(g, T)
  BY <1>1, <1>2, <1>3, <1>4, <1>8, SumGrows
<1>6. SumFunctionOnSet(f, S) \in Int /\ SumFunctionOnSet(g, T) \in Int
  <2>1. (\A i \in S : f[i] \in Int) /\ (\A i \in T : g[i] \in Int)
    BY <1>1, <1>3, <1>4
  <2> QED BY <1>2, <2>1, SumAny
<1>7. Spent(b, rows, ids) = SumFunctionOnSet(g, T) /\ Spent(b, others, left) = SumFunctionOnSet(f, S)
  BY SpentIs
<1> QED BY <1>5, <1>6, <1>7

-----------------------------------------------------------------------------
\* The money of an expense, in all cost centres together.

\* The allocations are the shares of the total.
Shares(row) ==
  \E split \in AnySplit : SplitValid(split) /\ row.allocations = Allocate(split, row.totalAmount)

(* A share is whole. *)
LEMMA WholeShare ==
  ASSUME NEW split \in AnySplit, NEW t \in DOMAIN split, NEW total \in Amount
  PROVE  /\ split[t] \in Nat /\ total \in Int /\ total * split[t] \in Int
         /\ (total * split[t]) \div 100 \in Int
         /\ 100 * ((total * split[t]) \div 100) = total * split[t]
<1>1. split \in Splits
  BY DEF AnySplit, NoSplit
<1>2. split[t] \in Nat /\ (total * split[t]) % 100 = 0 /\ total \in Int
  BY <1>1, MoneyAssumption
<1> PICK n : n = total * split[t]
  OBVIOUS
<1>3. n \in Int /\ n % 100 = 0
  BY <1>2
<1>4. n \div 100 \in Int /\ 100 * (n \div 100) = n
  BY <1>3
<1> QED BY <1>2, <1>3, <1>4

(* What an expense weighs in all cost centres together is its total. *)
LEMMA SharesAddUp ==
  ASSUME NEW row \in ExpenseRow, Shares(row)
  PROVE  SumFunction([c \in Centres |-> Contribution(row, c)]) = row.totalAmount
<1> PICK split \in AnySplit : SplitValid(split) /\ row.allocations = Allocate(split, row.totalAmount)
  BY DEF Shares
<1> PICK total, D : total = row.totalAmount /\ D = DOMAIN split
  OBVIOUS
<1>1. total \in Amount /\ total \in Int
  BY TotalKnown, MoneyAssumption
<1>2. /\ D \in SUBSET Centres /\ IsFiniteSet(D) /\ IsFiniteSet(Centres) /\ row.bearer \in Centres
      /\ Targets(row) = D
  <2>1. Targets(row) = D
    BY DEF Targets, Allocate
  <2> QED BY <2>1, RowMoney, CentresAssumption
<1> PICK part, none, pct : /\ part = [t \in D |-> (total * split[t]) \div 100]
                           /\ none = [t \in D |-> 0]
                           /\ pct = [t \in D |-> split[t]]
  OBVIOUS
<1>3. \A t \in D : /\ part[t] \in Int /\ pct[t] \in Int /\ none[t] \in Int /\ pct[t] = split[t]
                   /\ 100 * part[t] = total * pct[t] + none[t]
  BY <1>1, WholeShare
<1> PICK A, P : A = SumFunctionOnSet(part, D) /\ P = SumFunctionOnSet(pct, D)
  OBVIOUS
<1>4. A \in Int /\ P \in Int /\ 100 * A = total * P
  <2>1. 100 * A = total * P + SumFunctionOnSet(none, D)
    BY <1>1, <1>2, <1>3, SumLinear
  <2>2. SumFunctionOnSet(none, D) = 0
    BY <1>2, SumZero
  <2>3. A \in Int /\ P \in Int
    BY <1>2, <1>3, SumAny
  <2>4. total * P \in Int
    BY <1>1, <2>3
  <2> QED BY <2>1, <2>2, <2>3, <2>4
<1>5. P <= 100 /\ PercentOut(row) = P
  <2>1. SumFunctionOnSet(split, D) = P
    BY <1>2, <1>3, SumSame
  <2>2. SumFunctionOnSet(split, D) <= 100
    BY DEF SplitValid, SumFunction
  <2> PICK out : out = [t \in Targets(row) |-> row.allocations[t].percentage]
    OBVIOUS
  <2>3. \A t \in D : out[t] = pct[t]
    BY <1>2, <1>3 DEF Allocate
  <2>4. SumFunctionOnSet(out, D) = P
    BY <1>2, <1>3, <2>3, SumSame
  <2>5. PercentOut(row) = SumFunctionOnSet(out, D)
    BY <1>2 DEF PercentOut, SumFunction
  <2> QED BY <2>1, <2>2, <2>4, <2>5
<1> PICK left : left = (total * Max({0, 100 - PercentOut(row)})) \div 100
  OBVIOUS
<1>6. left = total - A
  <2>1. Max({0, 100 - PercentOut(row)}) = 100 - P
    BY <1>4, <1>5, MaxZero
  <2>2. total * (100 - P) = 100 * (total - A)
    <3>1. total * (100 - P) = 100 * total - total * P
      BY <1>1, <1>4
    <3> QED BY <1>1, <1>4, <3>1
  <2>3. (100 * (total - A)) \div 100 = total - A
    BY <1>1, <1>4
  <2> QED BY <2>1, <2>2, <2>3
<1>k. PICK kept, got, all : /\ kept = [c \in Centres |-> IF row.bearer = c THEN left ELSE 0]
                            /\ got = [c \in Centres |-> IF c \in D THEN part[c] ELSE 0]
                            /\ all = [c \in Centres |-> Contribution(row, c)]
  OBVIOUS
<1>7. \A c \in Centres : /\ kept[c] \in Int /\ got[c] \in Int /\ all[c] = kept[c] + got[c]
  <2> TAKE c \in Centres
  <2>1. kept[c] \in Int /\ got[c] \in Int
    BY <1>1, <1>3, <1>4, <1>6, <1>k
  <2>2. c \in D => row.allocations[c].amount = part[c]
    BY DEF Allocate
  <2>3. all[c] = kept[c] + got[c]
    BY <1>2, <1>k, <2>2 DEF Contribution
  <2> QED BY <2>1, <2>3
<1>8. SumFunctionOnSet(all, Centres) = SumFunctionOnSet(kept, Centres) + SumFunctionOnSet(got, Centres)
  BY <1>2, <1>7, SumPlus
<1>9. SumFunctionOnSet(got, Centres) = A
  <2>1. \A c \in D : part[c] \in Int /\ got[c] = part[c]
    BY <1>2, <1>3, <1>k
  <2>2. \A c \in Centres \ D : got[c] = 0
    BY <1>k
  <2> QED BY <1>2, <2>1, <2>2, SumWithin
<1>10. SumFunctionOnSet(kept, Centres) = left
  <2>1. SumFunctionOnSet(kept, Centres) = kept[row.bearer] + SumFunctionOnSet(kept, Centres \ {row.bearer})
    <3>1. \A c \in Centres : kept[c] \in Int
      BY <1>7
    <3>2. \A y \in Centres : SumFunctionOnSet(kept, Centres) = kept[y] + SumFunctionOnSet(kept, Centres \ {y})
      BY <1>2, <3>1, SumAny
    <3> QED BY <1>2, <3>2
  <2>2. IsFiniteSet(Centres \ {row.bearer}) /\ \A c \in Centres \ {row.bearer} : kept[c] = 0
    BY <1>2, <1>k, FS_RemoveElement
  <2>3. SumFunctionOnSet(kept, Centres \ {row.bearer}) = 0
    BY <2>2, SumZero
  <2>4. kept[row.bearer] = left /\ left \in Int
    BY <1>1, <1>2, <1>4, <1>6, <1>k
  <2> QED BY <2>1, <2>3, <2>4
<1>12. SumFunction([c \in Centres |-> Contribution(row, c)]) = SumFunctionOnSet(all, Centres)
  BY <1>k DEF SumFunction
<1> QED BY <1>1, <1>4, <1>6, <1>8, <1>9, <1>10, <1>12

\* The allocations of an expense are the shares of its total, unless it was set
\* apart from them; a request that is to write others has checked them.
Shared ==
  /\ \A x \in Rows : x \notin repriced => Shares(expense[x])
  /\ \A q \in Calls : call[q] # None /\ call[q].op = "update" /\ call[q].split # Keep => SplitValid(call[q].split)

(* Open requests go on, end, or are none that writes allocations. *)
Onward == \A q \in Calls : call'[q] \in {call[q], None} \/ call'[q].op # "update"

(* Nothing is written. *)
LEMMA SharedKept ==
  ASSUME Shared, expense' = expense, repriced' = repriced, Onward
  PROVE  Shared'
BY DEF Shared, Rows, Onward

(* One expense is written. *)
LEMMA SharedWrite ==
  ASSUME ExpenseTypeOK, Shared, NEW x \in Ids, NEW row, expense' = [expense EXCEPT ![x] = row], Onward,
         \/ repriced' = repriced \cup {x}
         \/ repriced' \in {repriced, repriced \ {x}} /\ (row # Gone => Shares(row))
         \/ repriced' = repriced /\ x \in Rows /\ row = expense[x]
  PROVE  Shared'
<1>1. expense'[x] = row /\ \A y \in Ids : y # x => expense'[y] = expense[y]
  BY DEF ExpenseTypeOK
<1>2. ASSUME NEW y \in Rows', y \notin repriced' PROVE Shares(expense'[y])
  <2>1. CASE y = x
    BY <1>1, <1>2, <2>1 DEF Shared, Rows
  <2>2. CASE y # x
    BY <1>1, <1>2, <2>2 DEF Shared, Rows
  <2> QED BY <2>1, <2>2
<1> QED BY <1>2 DEF Shared, Onward

(* What is composed from a split and an amount has its shares. *)
LEMMA ComposedShares ==
  ASSUME NEW shape, NEW amount, NEW split \in AnySplit, SplitValid(split)
  PROVE  Shares(Compose(shape, amount, Allocate(split, amount)))
<1> PICK alloc : alloc = Allocate(split, amount)
  OBVIOUS
<1>1. /\ Compose(shape, amount, alloc).allocations = alloc
      /\ Compose(shape, amount, alloc).totalAmount = amount
  BY DEF Compose
<1> QED BY <1>1 DEF Shares

(* So has what is composed without a split. *)
LEMMA PlainShares == ASSUME NEW shape, NEW amount PROVE Shares(Compose(shape, amount, NoSplit))
<1>1. Allocate(NoSplit, amount) = NoSplit
  BY DEF Allocate, NoSplit
<1>2. SplitValid(NoSplit)
  <2>1. DOMAIN NoSplit = {}
    BY DEF NoSplit
  <2>2. SumFunction(NoSplit) = 0
    BY <2>1, SumNone DEF SumFunction
  <2> QED BY <2>2 DEF SplitValid
<1>3. NoSplit \in AnySplit
  BY DEF AnySplit
<1> QED BY <1>1, <1>2, <1>3, ComposedShares

(* The fields of a row that is updated. *)
LEMMA UpdatedFields ==
  ASSUME NEW row \in ExpenseRow, NEW c
  PROVE  /\ Updated(c, row).totalAmount = (IF c.amount = Keep THEN row.totalAmount ELSE c.amount)
         /\ Updated(c, row).allocations =
              (IF c.split = Keep THEN row.allocations ELSE Allocate(c.split, SplitBase(c)))
<1> PICK shape \in AnyShape, old \in Amount, part \in Amount,
         split \in AnySplit : row = Compose(shape, old, Allocate(split, part))
  BY RowParts
<1> PICK total, alloc : /\ total = IF c.amount = Keep THEN row.totalAmount ELSE c.amount
                        /\ alloc = IF c.split = Keep THEN row.allocations ELSE Allocate(c.split, SplitBase(c))
  OBVIOUS
<1>1. Updated(c, row) = Resplit(row, total, alloc)
  BY DEF Updated, Resplit
<1>2. Updated(c, row) = Compose(shape, total, alloc)
  <2> PICK before : before = Allocate(split, part)
    OBVIOUS
  <2> QED BY <1>1, Recomposed
<1>3. Compose(shape, total, alloc).totalAmount = total /\ Compose(shape, total, alloc).allocations = alloc
  BY DEF Compose
<1> QED BY <1>2, <1>3

(* The write of an update. *)
LEMMA StoreUpdateShared == ASSUME ExpenseInv, Shared, NEW r \in Calls, StoreUpdate(r) PROVE Shared'
<1> PICK c, row, new : c = call[r] /\ row = expense[c.id] /\ new = Updated(c, row)
  OBVIOUS
<1>1. /\ c \in UpdateCall /\ c.id \in Ids /\ row # None /\ c.op = "update" /\ c # None
      /\ c.split # Keep => SplitValid(c.split)
  BY Nulls, CallFields DEF ExpenseInv, ExpenseTypeOK, Kinship, StoreUpdate, UpdateCall, Shared
<1>2. Onward
  <2>1. call' = [call EXCEPT ![r] = None]
    BY DEF StoreUpdate, Close
  <2> QED BY <2>1 DEF Onward, ExpenseInv, ExpenseTypeOK
<1>3. CASE row = Gone
  BY <1>2, <1>3, SharedKept DEF StoreUpdate
<1>4. CASE row # Gone
  <2>1. row \in ExpenseRow /\ c.id \in Rows
    BY <1>1, <1>4 DEF ExpenseInv, ExpenseTypeOK, Rows
  <2>2. /\ expense' = [expense EXCEPT ![c.id] = new]
        /\ repriced' = IF c.split # Keep /\ SplitBase(c) = new.totalAmount THEN repriced \ {c.id}
                       ELSE IF c.split # Keep \/ new.totalAmount # row.totalAmount THEN repriced \cup {c.id}
                       ELSE repriced
    BY <1>4 DEF StoreUpdate
  <2>3. /\ new.totalAmount = (IF c.amount = Keep THEN row.totalAmount ELSE c.amount)
        /\ new.allocations = (IF c.split = Keep THEN row.allocations ELSE Allocate(c.split, SplitBase(c)))
    BY <2>1, UpdatedFields
  <2>4. CASE c.split # Keep /\ SplitBase(c) = new.totalAmount
    <3>1. c.split \in AnySplit
      BY <1>1, <2>4 DEF UpdateCall, AnySplit
    <3>2. Shares(new)
      BY <1>1, <2>3, <2>4, <3>1 DEF Shares
    <3>3. repriced' = repriced \ {c.id}
      BY <2>2, <2>4
    <3> QED BY <1>1, <1>2, <2>2, <3>2, <3>3, SharedWrite DEF ExpenseInv
  <2>5. CASE /\ ~(c.split # Keep /\ SplitBase(c) = new.totalAmount)
             /\ c.split # Keep \/ new.totalAmount # row.totalAmount
    <3>1. repriced' = repriced \cup {c.id}
      BY <2>2, <2>5
    <3> QED BY <1>1, <1>2, <2>2, <3>1, SharedWrite DEF ExpenseInv
  <2>6. CASE c.split = Keep /\ new.totalAmount = row.totalAmount
    <3>1. repriced' = repriced
      BY <2>2, <2>6
    <3>2. CASE c.id \in repriced
      <4>1. repriced' = repriced \cup {c.id}
        BY <3>1, <3>2
      <4> QED BY <1>1, <1>2, <2>2, <4>1, SharedWrite DEF ExpenseInv
    <3>3. CASE c.id \notin repriced
      <4>1. Shares(row)
        BY <2>1, <3>3 DEF Shared
      <4>2. Shares(new)
        BY <2>3, <2>6, <4>1 DEF Shares
      <4> QED BY <1>1, <1>2, <2>2, <3>1, <4>2, SharedWrite DEF ExpenseInv
    <3> QED BY <3>2, <3>3
  <2> QED BY <2>4, <2>5, <2>6
<1> QED BY <1>3, <1>4

(* A total is set alone. *)
LEMMA SetTotalShared ==
  ASSUME ExpenseInv, Shared, NEW x \in Rows, NEW amount, SetTotal(x, amount), Onward
  PROVE  Shared'
<1> PICK row, new : row = expense[x] /\ new = Retotalled(row, amount)
  OBVIOUS
<1>1. row \in ExpenseRow /\ x \in Ids
  BY DEF ExpenseInv, ExpenseTypeOK, Rows
<1>2. expense' = [expense EXCEPT ![x] = new]
  BY <1>1 DEF SetTotal, Retotalled, ExpenseInv, ExpenseTypeOK
<1>3. CASE amount = row.totalAmount
  <2> PICK shape \in AnyShape, old \in Amount, part \in Amount,
           split \in AnySplit : row = Compose(shape, old, Allocate(split, part))
    BY <1>1, RowParts
  <2> PICK alloc : alloc = Allocate(split, part)
    OBVIOUS
  <2>1. row.totalAmount = old
    BY DEF Compose
  <2>2. new = row
    BY <1>3, <2>1, Recomposed
  <2>3. repriced' = repriced
    BY <1>3 DEF SetTotal
  <2> QED BY <1>1, <1>2, <2>2, <2>3, SharedWrite DEF ExpenseInv
<1>4. CASE amount # row.totalAmount
  <2>1. repriced' = repriced \cup {x}
    BY <1>4 DEF SetTotal
  <2> QED BY <1>1, <1>2, <2>1, SharedWrite DEF ExpenseInv
<1> QED BY <1>3, <1>4

(* A request that opens, and one that ends. *)
LEMMA OnwardOpen ==
  ASSUME ExpenseTypeOK, NEW r \in Calls, NEW c, call' = [call EXCEPT ![r] = c], c = None \/ c.op # "update"
  PROVE  Onward
<1>1. \A q \in Calls : call'[q] = IF q = r THEN c ELSE call[q]
  BY DEF ExpenseTypeOK
<1> QED BY <1>1 DEF Onward

(* Every request keeps the shares. *)
LEMMA ExpenseShared == ASSUME ExpenseInv, Shared, ExpenseNext PROVE Shared'
<1>0. ExpenseTypeOK
  BY DEF ExpenseInv
<1>1. ASSUME NEW x \in Ids, NEW shape \in Shapes, NEW a \in Amount, NEW split \in Splits, Create(x, shape, a, split)
      PROVE  Shared'
  <2> PICK row : row = Compose(shape, a, Allocate(split, a))
    OBVIOUS
  <2>1. Shares(row)
    BY <1>1, ComposedShares DEF Create, AnySplit
  <2>2. expense' = [expense EXCEPT ![x] = row] /\ repriced' = repriced /\ call' = call
    BY <1>1 DEF Create
  <2>3. Onward
    BY <2>2 DEF Onward
  <2> QED BY <1>0, <2>1, <2>2, <2>3, SharedWrite
<1>2. ASSUME NEW r \in Calls, NEW x \in Ids, NEW a \in Amount \cup {Keep}, NEW split \in Splits \cup {Keep},
             ReadUpdate(r, x, a, split)
      PROVE  Shared'
  <2> PICK c : c = [op |-> "update", id |-> x, amount |-> a, split |-> split, seen |-> expense[x].totalAmount]
    OBVIOUS
  <2>1. \A q \in Calls : call'[q] = IF q = r THEN c ELSE call[q]
    BY <1>0, <1>2 DEF ReadUpdate, Open, ExpenseTypeOK
  <2>2. c.split # Keep => SplitValid(c.split)
    BY <1>2 DEF ReadUpdate
  <2>3. \A q \in Calls :
          call'[q] # None /\ call'[q].op = "update" /\ call'[q].split # Keep => SplitValid(call'[q].split)
    BY <2>1, <2>2 DEF Shared
  <2>4. expense' = expense /\ repriced' = repriced
    BY <1>2 DEF ReadUpdate
  <2> QED BY <2>3, <2>4 DEF Shared, Rows
<1>3. ASSUME NEW x \in Ids, Remove(x) PROVE Shared'
  <2>1. /\ expense' = [expense EXCEPT ![x] = Gone] /\ repriced' = repriced \ {x} /\ call' = call
    BY <1>3 DEF Remove
  <2>2. Onward
    BY <2>1 DEF Onward
  <2> QED BY <1>0, <2>1, <2>2, SharedWrite
<1>4. ASSUME NEW r \in Calls, NEW x \in Ids, Make(r, x) PROVE Shared'
  <2> PICK row, c : /\ row = Compose(Generated[source[call[r].source].kind], call[r].price, NoSplit)
                    /\ c = IF source[call[r].source].kind = "asset" THEN None
                           ELSE [op |-> "bind", source |-> call[r].source, id |-> x]
    OBVIOUS
  <2>1. expense' = [expense EXCEPT ![x] = row] /\ repriced' = repriced /\ call' = [call EXCEPT ![r] = c]
    BY <1>4 DEF Make
  <2>2. Shares(row) /\ (c = None \/ c.op # "update")
    BY PlainShares
  <2>3. Onward
    BY <1>0, <2>1, <2>2, OnwardOpen
  <2> QED BY <1>0, <2>1, <2>2, <2>3, SharedWrite
<1>5. ASSUME NEW r \in Calls, Resync(r) \/ SyncLink(r) PROVE Shared'
  <2>1. call' = [call EXCEPT ![r] = None]
    BY <1>5 DEF Resync, SyncLink, Close
  <2>2. Onward
    BY <1>0, <2>1, OnwardOpen
  <2>3. CASE call[r].id \in Rows
    <3>1. \E amount : SetTotal(call[r].id, amount)
      BY <1>5, <2>3 DEF Resync, SyncLink
    <3> QED BY <2>2, <2>3, <3>1, SetTotalShared
  <2>4. CASE call[r].id \notin Rows
    BY <1>5, <2>2, <2>4, SharedKept DEF Resync, SyncLink
  <2> QED BY <2>3, <2>4
<1>6. ASSUME expense' = expense, repriced' = repriced, NEW r \in Calls, NEW c,
             call' = [call EXCEPT ![r] = c], c = None \/ c.op # "update"
      PROVE  Shared'
  BY <1>0, <1>6, OnwardOpen, SharedKept
<1>7. ASSUME NEW r \in Calls, NEW s \in Sources, NEW x, NEW a,
             ReadMake(r, s) \/ ReadResync(r, s, x) \/ ReadLink(r, s, a)
      PROVE  Shared'
  <2>1. \E c : call' = [call EXCEPT ![r] = c] /\ c.op # "update"
    <3>1. CASE ReadMake(r, s)
      <4> PICK c : c = [op |-> "make", source |-> s, price |-> source[s].price]
        OBVIOUS
      <4>1. call' = [call EXCEPT ![r] = c] /\ c.op # "update"
        BY <3>1 DEF ReadMake, Open
      <4> QED BY <4>1
    <3>2. CASE ReadResync(r, s, x)
      <4> PICK c : c = [op |-> "resync", source |-> s, id |-> x, price |-> source[s].price]
        OBVIOUS
      <4>1. call' = [call EXCEPT ![r] = c] /\ c.op # "update"
        BY <3>2 DEF ReadResync, Open
      <4> QED BY <4>1
    <3>3. CASE ReadLink(r, s, a)
      <4> PICK c : c = [op |-> "price", source |-> s, price |-> a, id |-> source[s].expense]
        OBVIOUS
      <4>1. call' = [call EXCEPT ![r] = c] /\ c.op # "update"
        BY <3>3 DEF ReadLink, Open
      <4> QED BY <4>1
    <3> QED BY <1>7, <3>1, <3>2, <3>3
  <2> QED BY <1>6, <1>7, <2>1 DEF ReadMake, ReadResync, ReadLink
<1>8. ASSUME NEW r \in Calls, Bind(r) PROVE Shared'
  BY <1>6, <1>8 DEF Bind, Close
<1>9. ASSUME NEW r \in Calls, PriceLink(r) PROVE Shared'
  <2>1. call[r] \in OpenCall /\ call[r].op = "price"
    BY <1>0, <1>9 DEF ExpenseTypeOK, PriceLink
  <2>2. call[r] \in LinkCall
    BY <2>1, CallFields
  <2> PICK c : c = IF call[r].id = None THEN None ELSE [call[r] EXCEPT !.op = "sync"]
    OBVIOUS
  <2>3. c = None \/ c.op # "update"
    BY <2>2 DEF LinkCall
  <2>4. call' = [call EXCEPT ![r] = c]
    BY <1>9 DEF PriceLink
  <2> QED BY <1>6, <1>9, <2>3, <2>4 DEF PriceLink
<1>10. ASSUME NEW s \in Sources, NEW a \in Amount, SetCost(s, a) PROVE Shared'
  <2>1. Onward
    BY <1>10 DEF SetCost, Onward
  <2> QED BY <1>10, <2>1, SharedKept DEF SetCost
<1>11. ASSUME Crash PROVE Shared'
  <2>1. Onward
    BY <1>11 DEF Crash, Onward
  <2> QED BY <1>11, <2>1, SharedKept DEF Crash
<1> QED BY <1>1, <1>2, <1>3, <1>4, <1>5, <1>7, <1>8, <1>9, <1>10, <1>11, StoreUpdateShared DEF ExpenseNext

(* So does every step. *)
LEMMA StepShared == ASSUME ExpenseInv, Shared, [Next]_vars PROVE Shared'
<1>1. ASSUME expense' = expense, repriced' = repriced, call' = call PROVE Shared'
  <2>1. Onward
    BY <1>1 DEF Onward
  <2> QED BY <1>1, <2>1, SharedKept
<1>2. ASSUME NEW k \in pending, BeginCheck(k) PROVE Shared'
  BY <1>1, <1>2 DEF BeginCheck
<1>3. ASSUME NEW k \in running, ReadExpenses(k) \/ Tell(k) \/ LoseCheck(k) PROVE Shared'
  BY <1>1, <1>3 DEF ReadExpenses, Tell, LoseCheck, expenseVars
<1>4. ASSUME NEW k \in running, NEW bu \in k.todo, Look(k, bu) PROVE Shared'
  BY <1>1, <1>4 DEF Look, expenseVars
<1>5. ASSUME BudgetStep PROVE Shared'
  BY <1>1, <1>5 DEF BudgetStep, expenseVars
<1>6. ASSUME UNCHANGED vars PROVE Shared'
  BY <1>1, <1>6 DEF vars, expenseVars
<1> QED BY <1>2, <1>3, <1>4, <1>5, <1>6, ExpenseShared DEF Next, ExpenseStep

(* What an expense weighs in the budgets of all cost centres is its total, unless
   its total was set apart from its allocations (budgets.service.ts:191-199). *)
THEOREM MoneyConservedHolds == Spec => []MoneyConserved
<1>1. Init => ExpenseInv /\ Shared
  <2> SUFFICES ASSUME Init PROVE ExpenseInv /\ Shared
    OBVIOUS
  <2>1. ExpenseInv
    BY InitCostInv DEF CostInv
  <2>2. ASSUME NEW x \in Rows PROVE Shares(expense[x])
    <3>1. x \in Ids /\ expense[x] # None
      BY DEF Rows
    <3>2. \E shape, amount : expense[x] = Compose(shape, amount, NoSplit)
      BY <3>1 DEF Init, ExpenseInit
    <3> QED BY <3>2, PlainShares
  <2>3. \A q \in Calls : call[q] = None
    BY DEF Init, ExpenseInit
  <2> QED BY <2>1, <2>2, <2>3 DEF Shared
<1>2. ExpenseInv /\ Shared /\ [Next]_vars => (ExpenseInv /\ Shared)'
  BY StepExpenseInv, StepShared
<1>3. ExpenseInv /\ Shared => MoneyConserved
  <2> SUFFICES ASSUME ExpenseInv, Shared, NEW x \in Rows \ repriced
               PROVE  SumFunction([c \in Centres |-> Contribution(expense[x], c)]) = expense[x].totalAmount
    BY DEF MoneyConserved
  <2>1. expense[x] \in ExpenseRow
    BY DEF ExpenseInv, ExpenseTypeOK, Rows
  <2>2. Shares(expense[x])
    BY DEF Shared
  <2> QED BY <2>1, <2>2, SharesAddUp
<1> QED BY <1>1, <1>2, <1>3, PTL DEF Spec

-----------------------------------------------------------------------------
\* The envelopes.

(* The money of a budget. *)
LEMMA BudgetMoney ==
  ASSUME BudgetTypeOK, NEW b \in Live
  PROVE  budget[b] \in BudgetRow /\ budget[b].amount \in Nat
<1>1. budget[b] \in BudgetRow
  BY DEF BudgetTypeOK, Live
<1> QED BY <1>1, RowFields, BudgetMoneyAssumption

(* The amounts of some budgets add up to a number. *)
LEMMA TotalNat ==
  ASSUME BudgetTypeOK, NEW S \in SUBSET Live
  PROVE  IsFiniteSet(S) /\ TotalOf(S) = SumFunctionOnSet([b \in S |-> budget[b].amount], S) /\ TotalOf(S) \in Int
<1>1. IsFiniteSet(S)
  BY BudgetMoneyAssumption, FS_Subset DEF Live
<1> PICK f : f = [b \in S |-> budget[b].amount]
  OBVIOUS
<1>2. \A b \in S : f[b] \in Int
  BY BudgetMoney
<1>3. TotalOf(S) = SumFunctionOnSet(f, S)
  BY DEF TotalOf, SumFunction
<1> QED BY <1>1, <1>2, <1>3, SumAny

(* A parent whose sub-budgets are among those before, with their amounts, has no
   more under it. *)
LEMMA ChildrenFewer ==
  ASSUME BudgetTypeOK, BudgetTypeOK', NEW p,
         \A c \in Children(p)' : c \in Children(p) /\ budget'[c].amount = budget[c].amount
  PROVE  ChildrenTotal(p) \in Int /\ ChildrenTotal(p)' \in Int /\ ChildrenTotal(p)' <= ChildrenTotal(p)
<1> PICK S, T : S = Children(p)' /\ T = Children(p)
  OBVIOUS
<1> PICK f, g : f = [c \in S |-> budget'[c].amount] /\ g = [c \in T |-> budget[c].amount]
  OBVIOUS
<1>1. T \in SUBSET Live /\ S \in SUBSET T
  BY DEF Children
<1>2. IsFiniteSet(T) /\ ChildrenTotal(p) = SumFunctionOnSet(g, T)
  BY <1>1, TotalNat DEF ChildrenTotal
<1>3. ChildrenTotal(p)' = SumFunctionOnSet(f, S)
  BY DEF ChildrenTotal, TotalOf, SumFunction
<1>4. \A c \in T : g[c] \in Nat
  BY <1>1, BudgetMoney
<1>5. \A c \in S : f[c] = g[c]
  BY <1>1
<1>6. SumFunctionOnSet(f, S) <= SumFunctionOnSet(g, T)
  BY <1>1, <1>2, <1>4, <1>5, SumGrows
<1>7. SumFunctionOnSet(f, S) \in Int /\ SumFunctionOnSet(g, T) \in Int
  <2>1. IsFiniteSet(S) /\ \A c \in S : f[c] \in Int
    BY <1>1, <1>2, <1>4, <1>5, FS_Subset
  <2> QED BY <1>2, <1>4, <2>1, SumAny
<1> QED BY <1>2, <1>3, <1>6, <1>7

(* One that gets a sub-budget has at most its amount more than the others have. *)
LEMMA ChildrenWith ==
  ASSUME BudgetTypeOK, BudgetTypeOK', NEW p, NEW b \in Children(p)',
         \A c \in Children(p)' : c # b => c \in Children(p) /\ budget'[c].amount = budget[c].amount
  PROVE  /\ TotalOf(Children(p) \ {b}) \in Int /\ ChildrenTotal(p)' \in Int /\ budget'[b].amount \in Int
         /\ ChildrenTotal(p)' <= TotalOf(Children(p) \ {b}) + budget'[b].amount
<1> PICK S, T : S = Children(p)' /\ T = Children(p) \ {b}
  OBVIOUS
<1> PICK f, g, R : /\ f = [c \in S |-> budget'[c].amount] /\ g = [c \in T |-> budget[c].amount]
                  /\ R = S \ {b}
  OBVIOUS
<1>1. T \in SUBSET Live /\ R \in SUBSET T /\ S \in SUBSET Live' /\ b \in S
  BY DEF Children
<1>2. IsFiniteSet(T) /\ TotalOf(T) = SumFunctionOnSet(g, T)
  BY <1>1, TotalNat
<1>3. ChildrenTotal(p)' = SumFunctionOnSet(f, S)
  BY DEF ChildrenTotal, TotalOf, SumFunction
<1>4. \A c \in T : g[c] \in Nat
  BY <1>1, BudgetMoney
<1>5. \A c \in R : f[c] = g[c]
  BY <1>1
<1>6. f[b] = budget'[b].amount /\ f[b] \in Int
  <2>1. b \in Budgets /\ budget'[b] # None
    BY DEF Children, Live
  <2>2. budget'[b] \in BudgetRow
    BY <2>1 DEF BudgetTypeOK
  <2>3. budget'[b].amount \in Nat
    BY <2>2, RowFields, BudgetMoneyAssumption
  <2> QED BY <1>1, <2>3
<1>7. \A c \in S : f[c] \in Int
  BY <1>4, <1>5, <1>6, <1>1
<1>8. IsFiniteSet(S)
  <2>1. IsFiniteSet(R) /\ S = R \cup {b}
    BY <1>1, <1>2, FS_Subset
  <2> QED BY <2>1, FS_AddElement
<1>9. SumFunctionOnSet(f, S) \in Int /\ SumFunctionOnSet(f, S) = f[b] + SumFunctionOnSet(f, R)
  BY <1>1, <1>7, <1>8, SumAny
<1>10. SumFunctionOnSet(f, R) <= SumFunctionOnSet(g, T)
  BY <1>1, <1>2, <1>4, <1>5, SumGrows
<1>11. SumFunctionOnSet(f, R) \in Int /\ SumFunctionOnSet(g, T) \in Int
  <2>1. IsFiniteSet(R) /\ \A c \in R : f[c] \in Int
    BY <1>1, <1>7, <1>8, FS_Subset
  <2> QED BY <1>2, <1>4, <2>1, SumAny
<1> QED BY <1>2, <1>3, <1>6, <1>9, <1>10, <1>11

\* A request whose check is not stale still passes it; a budget that is to be
\* created is not there, and no other request names it.
Fits(self, amount, parent) ==
  parent # None =>
    parent # self /\ TotalOf(Children(parent) \ {self}) + amount <= budget[parent].amount
AmountAfter(c) == IF c.amount = Keep THEN budget[c.id].amount ELSE c.amount
ParentAfter(c) == IF c.parent = Keep THEN budget[c.id].parent ELSE c.parent
Vetted(c) ==
  /\ c.op = "create" => budget[c.id] = None
  /\ c.op = "create" /\ ~c.stale => Fits(c.id, c.amount, c.parent)
  /\ c.op = "update" /\ ~c.stale => Fits(c.id, AmountAfter(c), ParentAfter(c))
Requested ==
  /\ \A r \in BudgetCalls : bcall[r] # None => Vetted(bcall[r])
  /\ \A r, q \in BudgetCalls :
       bcall[r] # None /\ bcall[r].op = "create" /\ bcall[q] # None /\ bcall[q].id = bcall[r].id => q = r
Enveloped == \A p \in Live : p \notin loosened => ChildrenTotal(p) <= budget[p].amount
EnvelopeInv == BudgetTypeOK /\ Enveloped /\ Requested

(* A request that stays, or ends, keeps its check while no budget is written. *)
LEMMA RequestedKept ==
  ASSUME Requested, budget' = budget, \A q \in BudgetCalls : bcall'[q] \in {bcall[q], None}
  PROVE  Requested'
<1>1. ASSUME NEW c PROVE Vetted(c)' <=> Vetted(c)
  BY DEF Vetted, Fits, AmountAfter, ParentAfter, TotalOf, Children, Live
<1>2. ASSUME NEW r \in BudgetCalls, bcall'[r] # None PROVE Vetted(bcall[r])' /\ bcall'[r] = bcall[r]
  <2> PICK c : c = bcall[r]
    OBVIOUS
  <2>1. bcall'[r] = c /\ c # None /\ Vetted(c)
    BY <1>2 DEF Requested
  <2> QED BY <1>1, <2>1
<1> QED BY <1>2 DEF Requested

\* A request whose check is stale.
Aged(c) == [c EXCEPT !.stale = TRUE]

(* It is the same request. *)
LEMMA AgedFields ==
  ASSUME NEW c \in OpenBudgetCall
  PROVE  /\ Aged(c).id = c.id /\ Aged(c).op = c.op /\ Aged(c).stale
         /\ Aged(c) # None
<1>1. Aged(c).id = c.id /\ Aged(c).op = c.op /\ Aged(c).stale
  BY DEF OpenBudgetCall, Aged
<1>2. Aged(c) \in OpenBudgetCall
  BY BudgetCallFields DEF Aged
<1> QED BY <1>1, <1>2, BudgetNulls

(* Requests that are stale after a write. *)
LEMMA RequestedAged ==
  ASSUME BudgetTypeOK, Requested, NEW b \in Budgets, \A o \in Budgets : o # b => budget'[o] = budget[o],
         \A q \in BudgetCalls : bcall'[q] = None \/ (bcall[q] # None /\ bcall'[q] = Aged(bcall[q])),
         \/ budget'[b] = None
         \/ \A q \in BudgetCalls : bcall'[q] # None /\ bcall[q].op = "create" => bcall[q].id # b
  PROVE  Requested'
<1>1. ASSUME NEW q \in BudgetCalls, bcall'[q] # None
      PROVE  /\ bcall[q] # None /\ bcall[q] \in OpenBudgetCall
             /\ bcall'[q].id = bcall[q].id /\ bcall'[q].op = bcall[q].op /\ bcall'[q].stale
             /\ bcall[q].id \in Budgets
  <2> PICK c : c = bcall[q]
    OBVIOUS
  <2>1. c \in OpenBudgetCall /\ c # None /\ bcall'[q] = Aged(c)
    BY <1>1 DEF BudgetTypeOK
  <2> QED BY <2>1, AgedFields, BudgetCallFields
<1>2. ASSUME NEW q \in BudgetCalls, bcall'[q] # None
      PROVE  Vetted(bcall[q])'
  <2>1. bcall'[q].op = "create" => budget'[bcall'[q].id] = None
    <3>1. bcall[q].op = "create" => budget[bcall[q].id] = None
      BY <1>1, <1>2 DEF Requested, Vetted
    <3> QED BY <1>1, <1>2, <3>1
  <2> QED BY <1>1, <1>2, <2>1 DEF Vetted
<1>3. ASSUME NEW r \in BudgetCalls, NEW q \in BudgetCalls, bcall'[r] # None, bcall'[r].op = "create",
             bcall'[q] # None, bcall'[q].id = bcall'[r].id
      PROVE  q = r
  BY <1>1, <1>3 DEF Requested
<1> QED BY <1>2, <1>3 DEF Requested

(* Envelopes hold when the row of b is written if it fits under its parent and is
   an envelope for its own sub-budgets, or these are noted. *)
LEMMA EnvelopedWrite ==
  ASSUME BudgetTypeOK, BudgetTypeOK', Enveloped, loosened \subseteq loosened',
         NEW b \in Budgets, NEW row \in BudgetRow, budget' = [budget EXCEPT ![b] = row],
         row.parent # None => row.parent \in loosened' \/ Fits(b, row.amount, row.parent),
         \/ b \in loosened'
         \/ row.parent # b /\ (Children(b) = {} \/ (b \in Live /\ budget[b].amount <= row.amount))
  PROVE  Enveloped'
<1>0. /\ budget'[b] = row /\ \A o \in Budgets : o # b => budget'[o] = budget[o]
      /\ row.amount \in Nat
  <2>1. row.amount \in Nat
    BY RowFields, BudgetMoneyAssumption
  <2> QED BY <2>1 DEF BudgetTypeOK
<1> SUFFICES ASSUME NEW p \in Live', p \notin loosened' PROVE ChildrenTotal(p)' <= budget'[p].amount
  BY DEF Enveloped
<1>1. p \in Budgets /\ (p # b => p \in Live /\ p \notin loosened /\ budget'[p] = budget[p])
  BY <1>0 DEF Live
<1>2. ASSUME NEW c, c \in Children(p)', c # b
      PROVE  c \in Children(p) /\ budget'[c].amount = budget[c].amount
  BY <1>0, <1>2 DEF Children, Live
<1>3. p # b => ChildrenTotal(p) <= budget[p].amount
  BY <1>1 DEF Enveloped
<1>4. CASE p = b
  <2>1. row.parent # b /\ (Children(b) = {} \/ (b \in Live /\ budget[b].amount <= row.amount))
    BY <1>4
  <2>2. \A c \in Children(p)' : c # b
    BY <1>0, <1>4, <2>1 DEF Children
  <2>3. ChildrenTotal(p) \in Int /\ ChildrenTotal(p)' \in Int /\ ChildrenTotal(p)' <= ChildrenTotal(p)
    BY <1>2, <2>2, ChildrenFewer
  <2>4. CASE Children(b) = {}
    <3>1. ChildrenTotal(p) = 0
      BY <1>4, <2>4, SumNone DEF ChildrenTotal, TotalOf, SumFunction
    <3> QED BY <1>0, <1>4, <2>3, <3>1
  <2>5. CASE b \in Live /\ budget[b].amount <= row.amount
    <3>1. ChildrenTotal(p) <= budget[b].amount /\ budget[b].amount \in Nat
      BY <1>4, <2>5, BudgetMoney DEF Enveloped
    <3> QED BY <1>0, <1>4, <2>3, <2>5, <3>1
  <2> QED BY <2>1, <2>4, <2>5
<1>5. CASE p # b /\ b \in Children(p)'
  <2>1. row.parent = p
    BY <1>0, <1>5 DEF Children
  <2>2. TotalOf(Children(p) \ {b}) + row.amount <= budget[p].amount
    BY <1>1, <1>5, <2>1, BudgetNulls DEF Fits
  <2>3. /\ TotalOf(Children(p) \ {b}) \in Int /\ ChildrenTotal(p)' \in Int
        /\ ChildrenTotal(p)' <= TotalOf(Children(p) \ {b}) + row.amount
    BY <1>0, <1>2, <1>5, ChildrenWith
  <2>4. budget[p].amount \in Nat
    BY <1>1, <1>5, BudgetMoney
  <2> QED BY <1>0, <1>1, <1>5, <2>2, <2>3, <2>4
<1>6. CASE p # b /\ b \notin Children(p)'
  <2>1. ChildrenTotal(p) \in Int /\ ChildrenTotal(p)' \in Int /\ ChildrenTotal(p)' <= ChildrenTotal(p)
    BY <1>2, <1>6, ChildrenFewer
  <2>2. budget[p].amount \in Nat
    BY <1>1, <1>6, BudgetMoney
  <2> QED BY <1>1, <1>3, <1>6, <2>1, <2>2
<1> QED BY <1>4, <1>5, <1>6

(* Nothing is written, and one request begins with a check that it passes. *)
LEMMA BeginEnvelope ==
  ASSUME EnvelopeInv, BudgetTypeOK', NEW r \in BudgetCalls, NEW c \in OpenBudgetCall, Begin(r, c), Vetted(c),
         \A q \in BudgetCalls : bcall[q] # None /\ bcall[q].id = c.id => c.op # "create" /\ bcall[q].op # "create"
  PROVE  EnvelopeInv'
<1>1. budget' = budget /\ loosened' = loosened /\ bcall' = [bcall EXCEPT ![r] = c]
  BY DEF Begin
<1>2. Enveloped'
  BY <1>1 DEF EnvelopeInv, Enveloped, Live, Children, ChildrenTotal, TotalOf
<1>3. ASSUME NEW q \in BudgetCalls PROVE bcall'[q] = IF q = r THEN c ELSE bcall[q]
  BY <1>1 DEF EnvelopeInv, BudgetTypeOK
<1>4. ASSUME NEW d PROVE Vetted(d)' <=> Vetted(d)
  BY <1>1 DEF Vetted, Fits, AmountAfter, ParentAfter, TotalOf, Children, Live
<1>5. ASSUME NEW q \in BudgetCalls, bcall'[q] # None PROVE Vetted(bcall[q])'
  <2> PICK d : d = bcall'[q]
    OBVIOUS
  <2>1. Vetted(d)
    BY <1>3, <1>5 DEF EnvelopeInv, Requested
  <2> QED BY <1>4, <2>1
<1>6. ASSUME NEW q \in BudgetCalls, NEW p \in BudgetCalls, bcall'[q] # None, bcall'[q].op = "create",
             bcall'[p] # None, bcall'[p].id = bcall'[q].id
      PROVE  p = q
  BY <1>3, <1>6 DEF EnvelopeInv, Requested
<1>7. Requested'
  BY <1>5, <1>6 DEF Requested
<1> QED BY <1>2, <1>7 DEF EnvelopeInv

(* A write that is refused. *)
LEMMA RefuseEnvelope == ASSUME EnvelopeInv, NEW r \in BudgetCalls, Refuse(r) PROVE EnvelopeInv'
<1>1. BudgetTypeOK'
  BY RefuseTypes DEF EnvelopeInv
<1>2. Enveloped'
  BY DEF EnvelopeInv, Enveloped, Refuse, Live, Children, ChildrenTotal, TotalOf
<1>3. \A q \in BudgetCalls : bcall'[q] \in {bcall[q], None}
  BY DEF EnvelopeInv, BudgetTypeOK, Refuse
<1>4. Requested'
  BY <1>3, RequestedKept DEF EnvelopeInv, Refuse
<1> QED BY <1>1, <1>2, <1>4 DEF EnvelopeInv

(* The checks of new budgets and of changes. *)
LEMMA CheckCreateEnvelope ==
  ASSUME EnvelopeInv, NEW r \in BudgetCalls, NEW b \in Budgets, NEW a \in Amounts,
         NEW p \in Budgets \cup {None}, CheckCreate(r, b, a, p)
  PROVE  EnvelopeInv'
<1> PICK c : c = [op |-> "create", id |-> b, amount |-> a, parent |-> p, stale |-> FALSE]
  OBVIOUS
<1>1. c \in OpenBudgetCall /\ Begin(r, c)
  BY DEF OpenBudgetCall, CheckCreate
<1>2. Fits(b, a, p) /\ budget[b] = None
  BY DEF CheckCreate, HierarchyValid, Fits
<1>3. Vetted(c)
  BY <1>2 DEF Vetted
<1>4. BudgetTypeOK'
  BY CheckCreateTypes DEF EnvelopeInv
<1>5. \A q \in BudgetCalls : bcall[q] # None => bcall[q].id # c.id
  BY DEF CheckCreate
<1> QED BY <1>1, <1>3, <1>4, <1>5, BeginEnvelope

(* An update that passed the check is one whose outcome, were it written now, keeps the envelope. *)
LEMMA CheckUpdateEnvelope ==
  ASSUME EnvelopeInv, NEW r \in BudgetCalls, NEW b \in Budgets, NEW a \in Amounts \cup {Keep},
         NEW p \in Budgets \cup {None, Keep}, CheckUpdate(r, b, a, p)
  PROVE  EnvelopeInv'
<1> PICK c : c = [op |-> "update", id |-> b, amount |-> a, parent |-> p, stale |-> FALSE]
  OBVIOUS
<1>1. c \in OpenBudgetCall /\ Begin(r, c)
  BY DEF OpenBudgetCall, CheckUpdate
<1>2. Fits(b, AmountAfter(c), ParentAfter(c)) /\ budget[b] # None
  BY DEF CheckUpdate, HierarchyValid, Fits, AmountAfter, ParentAfter, Live
<1>3. Vetted(c)
  BY <1>2 DEF Vetted
<1>4. BudgetTypeOK'
  BY CheckUpdateTypes DEF EnvelopeInv
<1>5. \A q \in BudgetCalls : bcall[q] # None /\ bcall[q].id = c.id => bcall[q].op # "create"
  BY <1>2 DEF EnvelopeInv, Requested, Vetted
<1> QED BY <1>1, <1>3, <1>4, <1>5, BeginEnvelope

(* What a write does to the requests. *)
LEMMA StoreAges ==
  ASSUME NEW r \in BudgetCalls, NEW new, Store(r, new)
  PROVE  \A q \in BudgetCalls : /\ bcall'[q] = None \/ (bcall[q] # None /\ bcall'[q] = Aged(bcall[q]))
                                /\ q = r => bcall'[q] = None
  BY DEF Store, Aged

(* The write of a new budget. *)
LEMMA WriteCreateEnvelope ==
  ASSUME EnvelopeInv, NEW r \in BudgetCalls, WriteCreate(r) PROVE EnvelopeInv'
<1> PICK c, row : c = bcall[r] /\ row = Row(c.id, c.amount, c.parent)
  OBVIOUS
<1>1. c \in OpenBudgetCall /\ c.op = "create" /\ c # None /\ Vetted(c)
  BY DEF EnvelopeInv, BudgetTypeOK, WriteCreate, Requested
<1>2. c.id \in Budgets /\ c.amount \in AnyAmount /\ c.parent \in Budgets \cup {None} /\ budget[c.id] = None
  BY <1>1, BudgetCallFields DEF AnyAmount, Vetted
<1>3. row \in BudgetRow /\ row.parent = c.parent /\ row.amount = c.amount
  <2>1. row \in BudgetRow
    BY <1>2 DEF BudgetRow
  <2>2. row.parent = c.parent /\ row.amount = c.amount
    BY DEF Row
  <2> QED BY <2>1, <2>2
<1>4. CASE c.parent # None /\ budget[c.parent] = None
  BY <1>4, RefuseEnvelope DEF WriteCreate
<1>5. CASE ~(c.parent # None /\ budget[c.parent] = None)
  <2>1. /\ Store(r, [budget EXCEPT ![c.id] = row])
        /\ loosened' = IF c.stale THEN loosened \cup ({c.parent} \ {None}) ELSE loosened
    BY <1>5 DEF WriteCreate
  <2>2. BudgetTypeOK'
    BY WriteCreateTypes DEF EnvelopeInv
  <2>3. budget' = [budget EXCEPT ![c.id] = row]
    BY <2>1 DEF Store
  <2>4. row.parent # None => row.parent \in loosened' \/ Fits(c.id, row.amount, row.parent)
    BY <1>1, <1>3, <2>1 DEF Vetted
  <2>5. row.parent # c.id
    BY <1>2, <1>3, <1>5, BudgetNulls
  <2>6. Children(c.id) = {}
    BY <1>2, BudgetNulls DEF EnvelopeInv, BudgetTypeOK, Children, Live
  <2>7. Enveloped'
    BY <1>2, <1>3, <2>1, <2>2, <2>3, <2>4, <2>5, <2>6, EnvelopedWrite DEF EnvelopeInv
  <2>8. \A o \in Budgets : o # c.id => budget'[o] = budget[o]
    BY <2>3 DEF EnvelopeInv, BudgetTypeOK
  <2>9. \A q \in BudgetCalls : bcall'[q] # None /\ bcall[q].op = "create" => bcall[q].id # c.id
    BY <1>1, <2>1, StoreAges DEF EnvelopeInv, Requested
  <2>10. Requested'
    BY <1>2, <2>1, <2>8, <2>9, StoreAges, RequestedAged DEF EnvelopeInv
  <2> QED BY <2>2, <2>7, <2>10 DEF EnvelopeInv
<1> QED BY <1>4, <1>5

(* The write of a change. *)
LEMMA WriteUpdateEnvelope ==
  ASSUME EnvelopeInv, NEW r \in BudgetCalls, WriteUpdate(r) PROVE EnvelopeInv'
<1> PICK c, row, amount, parent :
      /\ c = bcall[r] /\ row = budget[c.id]
      /\ amount = IF c.amount = Keep THEN row.amount ELSE c.amount
      /\ parent = IF c.parent = Keep THEN row.parent ELSE c.parent
  OBVIOUS
<1>1. c \in OpenBudgetCall /\ c.op = "update" /\ c # None /\ Vetted(c)
  BY DEF EnvelopeInv, BudgetTypeOK, WriteUpdate, Requested
<1>2. c.id \in Budgets /\ c.amount \in Amounts \cup {Keep} /\ c.parent \in Budgets \cup {None, Keep}
  BY <1>1, BudgetCallFields
<1>3. CASE row = None \/ (c.parent \notin {Keep, None} /\ budget[c.parent] = None)
  BY <1>3, RefuseEnvelope DEF WriteUpdate
<1>4. CASE ~(row = None \/ (c.parent \notin {Keep, None} /\ budget[c.parent] = None))
  <2>1. row \in BudgetRow /\ c.id \in Live
    BY <1>2, <1>4 DEF EnvelopeInv, BudgetTypeOK, Live
  <2>2. amount \in AnyAmount /\ parent \in Budgets \cup {None}
    BY <1>2, <2>1, RowFields DEF AnyAmount
  <2> PICK new : new = Regrouped(row, amount, parent)
    OBVIOUS
  <2>3. new \in BudgetRow /\ new.parent = parent /\ new.amount = amount
    BY <2>1, <2>2, RowRegrouped
  <2>4. [budget EXCEPT ![c.id].amount = amount, ![c.id].parent = parent] = [budget EXCEPT ![c.id] = new]
    <3> PICK once : once = [budget EXCEPT ![c.id].amount = amount]
      OBVIOUS
    <3> QED BY <1>2 DEF EnvelopeInv, BudgetTypeOK, Regrouped
  <2>5. Store(r, [budget EXCEPT ![c.id] = new])
    BY <1>4, <2>4 DEF WriteUpdate
  <2>6. loosened' = loosened
               \cup (IF amount < row.amount /\ Children(c.id) # {} THEN {c.id} ELSE {})
               \cup (IF c.stale THEN {c.id, parent} \ {None} ELSE {})
    BY <1>4 DEF WriteUpdate
  <2>7. BudgetTypeOK' /\ budget' = [budget EXCEPT ![c.id] = new]
    BY <2>5, WriteUpdateTypes DEF EnvelopeInv, Store
  <2>8. ~c.stale => Fits(c.id, amount, parent)
    BY <1>1 DEF Vetted, AmountAfter, ParentAfter
  <2>9. new.parent # None => new.parent \in loosened' \/ Fits(c.id, new.amount, new.parent)
    BY <2>3, <2>6, <2>8
  <2>10. \/ c.id \in loosened'
         \/ new.parent # c.id /\ (Children(c.id) = {} \/ (c.id \in Live /\ budget[c.id].amount <= new.amount))
    <3>1. c.id # None /\ amount \in Nat /\ row.amount \in Nat
      BY <1>2, <2>1, <2>2, BudgetNulls, BudgetMoneyAssumption, RowFields
    <3>2. c.stale => c.id \in loosened'
      BY <2>6, <3>1
    <3>3. ~c.stale => new.parent # c.id
      BY <2>3, <2>8, <3>1, <1>2, BudgetNulls DEF Fits
    <3>4. amount < row.amount /\ Children(c.id) # {} => c.id \in loosened'
      BY <2>6
    <3> QED BY <2>1, <2>3, <3>1, <3>2, <3>3, <3>4
  <2>11. Enveloped'
    BY <1>2, <2>3, <2>6, <2>7, <2>9, <2>10, EnvelopedWrite DEF EnvelopeInv
  <2>12. \A o \in Budgets : o # c.id => budget'[o] = budget[o]
    BY <2>7 DEF EnvelopeInv, BudgetTypeOK
  <2>13. \A q \in BudgetCalls : bcall'[q] # None /\ bcall[q].op = "create" => bcall[q].id # c.id
    BY <1>4, <2>5, StoreAges DEF EnvelopeInv, Requested, Vetted
  <2>14. Requested'
    BY <1>2, <2>5, <2>12, <2>13, StoreAges, RequestedAged DEF EnvelopeInv
  <2> QED BY <2>7, <2>11, <2>14 DEF EnvelopeInv
<1> QED BY <1>3, <1>4

(* A budget that is removed has no sub-budgets, and leaves its parent more room. *)
LEMMA RemoveBudgetEnvelope ==
  ASSUME EnvelopeInv, NEW b \in Budgets, RemoveBudget(b) PROVE EnvelopeInv'
<1>1. BudgetTypeOK'
  BY RemoveBudgetTypes DEF EnvelopeInv
<1>2. budget'[b] = None /\ \A o \in Budgets : o # b => budget'[o] = budget[o]
  BY DEF EnvelopeInv, BudgetTypeOK, RemoveBudget
<1>3. \A q \in BudgetCalls : bcall'[q] = None \/ (bcall[q] # None /\ bcall'[q] = Aged(bcall[q]))
  BY DEF RemoveBudget, Aged
<1>4. Requested'
  BY <1>2, <1>3, RequestedAged DEF EnvelopeInv
<1>5. ASSUME NEW p \in Live', p \notin loosened' PROVE ChildrenTotal(p)' <= budget'[p].amount
  <2>1. p \in Live /\ p # b /\ budget'[p] = budget[p] /\ p \notin loosened
    BY <1>2, <1>5 DEF Live, RemoveBudget
  <2>2. \A c \in Children(p)' : c \in Children(p) /\ budget'[c].amount = budget[c].amount
    BY <1>2 DEF Children, Live
  <2>3. ChildrenTotal(p) \in Int /\ ChildrenTotal(p)' \in Int /\ ChildrenTotal(p)' <= ChildrenTotal(p)
    BY <1>1, <2>2, ChildrenFewer DEF EnvelopeInv
  <2>4. ChildrenTotal(p) <= budget[p].amount /\ budget[p].amount \in Nat
    BY <2>1, BudgetMoney DEF EnvelopeInv, Enveloped
  <2> QED BY <2>1, <2>3, <2>4
<1> QED BY <1>1, <1>4, <1>5 DEF EnvelopeInv, Enveloped

(* Every step keeps the envelopes. *)
LEMMA StepEnvelope == ASSUME EnvelopeInv, [Next]_vars PROVE EnvelopeInv'
<1>0. BudgetTypeOK'
  BY BudgetStepTypes DEF EnvelopeInv
<1>1. ASSUME budget' = budget, loosened' = loosened, \A q \in BudgetCalls : bcall'[q] \in {bcall[q], None}
      PROVE  EnvelopeInv'
  <2>1. Requested'
    BY <1>1, RequestedKept DEF EnvelopeInv
  <2>2. Enveloped'
    BY <1>1 DEF EnvelopeInv, Enveloped, Live, Children, ChildrenTotal, TotalOf
  <2> QED BY <1>0, <2>1, <2>2 DEF EnvelopeInv
<1>2. CASE UNCHANGED budgetVars
  BY <1>1, <1>2 DEF budgetVars
<1>3. CASE ExpenseStep
  <2>1. \A q \in BudgetCalls : bcall'[q] \in {bcall[q], None}
    BY <1>3 DEF ExpenseStep
  <2> QED BY <1>1, <1>3, <2>1 DEF ExpenseStep
<1>4. CASE BudgetStep
  BY <1>4, CheckCreateEnvelope, CheckUpdateEnvelope, WriteCreateEnvelope, WriteUpdateEnvelope, RemoveBudgetEnvelope
     DEF BudgetStep, BudgetNext
<1>5. ASSUME NEW k \in pending, BeginCheck(k) PROVE EnvelopeInv'
  BY <1>2, <1>5 DEF BeginCheck
<1>6. ASSUME NEW k \in running, ReadExpenses(k) \/ Tell(k) \/ LoseCheck(k) PROVE EnvelopeInv'
  BY <1>2, <1>6 DEF ReadExpenses, Tell, LoseCheck
<1>7. ASSUME NEW k \in running, NEW bu \in k.todo, Look(k, bu) PROVE EnvelopeInv'
  BY <1>2, <1>7 DEF Look
<1>8. CASE UNCHANGED vars
  BY <1>2, <1>8 DEF vars
<1> QED BY <1>3, <1>4, <1>5, <1>6, <1>7, <1>8 DEF Next

(* At first too: what is exceeded there is noted. *)
LEMMA InitEnvelope == ASSUME Init PROVE EnvelopeInv
<1>1. BudgetTypeOK
  BY BudgetInitTypes DEF Init
<1>2. Requested
  BY DEF Init, BudgetInit, Requested
<1>3. ASSUME NEW p \in Live, p \notin loosened PROVE ChildrenTotal(p) <= budget[p].amount
  <2>1. ~(ChildrenTotal(p) > budget[p].amount)
    BY <1>3 DEF Init, BudgetInit
  <2>2. ChildrenTotal(p) \in Int /\ budget[p].amount \in Nat
    BY <1>1, BudgetMoney, TotalNat DEF ChildrenTotal, Children
  <2> QED BY <2>1, <2>2
<1> QED BY <1>1, <1>2, <1>3 DEF EnvelopeInv, Enveloped

(* Sub-budgets exceed their parent only where it was lowered, or where a request
   wrote on a check made before another write (budgets.service.ts:798). *)
THEOREM EnvelopeExplainedHolds == Spec => []EnvelopeExplained
<1>1. Init => EnvelopeInv
  BY InitEnvelope
<1>2. EnvelopeInv => EnvelopeExplained
  <2> SUFFICES ASSUME EnvelopeInv, NEW p \in Live, ChildrenTotal(p) > budget[p].amount, p \notin loosened
               PROVE  FALSE
    BY DEF EnvelopeExplained
  <2>1. ChildrenTotal(p) \in Int /\ budget[p].amount \in Nat /\ ChildrenTotal(p) <= budget[p].amount
    BY BudgetMoney, TotalNat DEF EnvelopeInv, Enveloped, ChildrenTotal, Children
  <2> QED BY <2>1
<1> QED BY <1>1, <1>2, StepEnvelope, PTL DEF Spec

-----------------------------------------------------------------------------
\* Cycles.

(* What holds at 0, and at a number when it does at the one before, holds up to k. *)
LEMMA UpTo ==
  ASSUME NEW k \in Nat, NEW G \in SUBSET (0..k), 0 \in G, \A n \in 1..k : n - 1 \in G => n \in G
  PROVE  G = 0..k
<1> SUFFICES ASSUME NEW bad, bad = (0..k) \ G, bad # {} PROVE FALSE
  OBVIOUS
<1>0. PICK family : family = {0..m : m \in bad}
  OBVIOUS
<1>1. family \in SUBSET SUBSET (0..k) /\ family # {}
  BY <1>0
<1>2. IsFiniteSet(0..k)
  BY FS_Interval
<1>3. PICK T \in family : \A U \in family : U \subseteq T => U = T
  <2>0. PICK all : all = 0..k
    OBVIOUS
  <2>1. family \in SUBSET SUBSET all /\ family # {} /\ IsFiniteSet(all)
    BY <1>1, <1>2, <2>0
  <2> QED BY <2>1, Smallest
<1>4. PICK m \in bad : T = 0..m
  BY <1>0, <1>3
<1>5. m \in 1..k /\ m - 1 \in bad
  OBVIOUS
<1>6. 0..(m - 1) \in family
  BY <1>0, <1>5
<1>7. 0..(m - 1) \subseteq 0..m /\ m \in 0..m /\ m \notin 0..(m - 1)
  BY <1>5
<1> QED BY <1>3, <1>4, <1>6, <1>7

\* The table of the cursor, as far as level k.
Climb(p, k, up) == up = [n \in 0..k |-> IF n = 0 THEN p ELSE ParentOf(up[n - 1])]

(* There is one. *)
LEMMA ClimbExists == ASSUME NEW p, NEW k \in Nat PROVE \E up : Climb(p, k, up)
<1> DEFINE G == {m \in 0..k : \E up : Climb(p, m, up)}
<1>1. 0 \in G
  <2> PICK up : up = [n \in 0..0 |-> p]
    OBVIOUS
  <2>1. Climb(p, 0, up)
    BY DEF Climb
  <2> QED BY <2>1
<1>2. ASSUME NEW n \in 1..k, n - 1 \in G PROVE n \in G
  <2>1. PICK up : Climb(p, n - 1, up)
    BY <1>2
  <2> PICK top : top = [m \in 0..n |-> IF m = n THEN ParentOf(up[n - 1]) ELSE up[m]]
    OBVIOUS
  <2>2. ASSUME NEW m \in 0..n PROVE top[m] = IF m = 0 THEN p ELSE ParentOf(top[m - 1])
    <3>1. m # 0 => top[m - 1] = up[m - 1]
      OBVIOUS
    <3>2. m # n => up[m] = IF m = 0 THEN p ELSE ParentOf(up[m - 1])
      BY <2>1 DEF Climb
    <3> QED BY <3>1, <3>2
  <2>3. top = [m \in 0..n |-> IF m = 0 THEN p ELSE ParentOf(top[m - 1])]
    BY <2>2
  <2>4. Climb(p, n, top)
    BY <2>3 DEF Climb
  <2> QED BY <2>4
<1> HIDE DEF G
<1>3. G = 0..k
  <2>1. G \in SUBSET (0..k)
    BY DEF G
  <2> QED BY <1>1, <1>2, <2>1, UpTo
<1>4. k \in G
  BY <1>3
<1> QED BY <1>4 DEF G

(* What the cursor of the cycle check reads. *)
LEMMA CursorSteps ==
  ASSUME NEW p
  PROVE  /\ Cursor(p) = [n \in 0..MaxDepth |-> Cursor(p)[n]] /\ Cursor(p)[0] = p
         /\ \A n \in 1..MaxDepth : Cursor(p)[n] = ParentOf(Cursor(p)[n - 1])
<1>1. MaxDepth \in Nat
  BY BudgetBoundAssumption
<1>2. \E up : Climb(p, MaxDepth, up)
  BY <1>1, ClimbExists
<1>3. Climb(p, MaxDepth, Cursor(p))
  BY <1>2 DEF Climb, Cursor
<1> PICK up : up = Cursor(p)
  OBVIOUS
<1> QED BY <1>1, <1>3 DEF Climb

(* A budget that the check of its new parent does not meet closes no circle, or
   one that has more members than the check has steps. *)
LEMMA NoCircleCloses ==
  ASSUME BudgetTypeOK, CycleExplained, NEW b, NEW p, b \notin Above(p),
         NEW S \in SUBSET Live, b \in S, p \in S, \A x \in S \ {b} : budget[x].parent \in S,
         S \cap loosened = {}
  PROVE  ~(Cardinality(S) <= MaxDepth + 1)
<1> SUFFICES ASSUME Cardinality(S) <= MaxDepth + 1 PROVE FALSE
  OBVIOUS
<1>0. IsFiniteSet(S) /\ MaxDepth \in Nat
  BY BudgetMoneyAssumption, BudgetBoundAssumption, FS_Subset DEF Live
<1> PICK up : up = Cursor(p)
  OBVIOUS
<1>1. /\ up = [n \in 0..MaxDepth |-> up[n]] /\ up[0] = p
      /\ \A n \in 1..MaxDepth : up[n] = ParentOf(up[n - 1])
  BY CursorSteps
<1>2. \A n \in 0..MaxDepth : up[n] # b
  BY <1>1 DEF Above, Range
<1>3. \A n \in 0..MaxDepth : up[n] \in S \ {b}
  <2> PICK G : G = {n \in 0..MaxDepth : up[n] \in S \ {b}}
    OBVIOUS
  <2>1. 0 \in G
    BY <1>0, <1>1, <1>2
  <2>2. ASSUME NEW n \in 1..MaxDepth, n - 1 \in G PROVE n \in G
    <3> PICK x : x = up[n - 1]
      OBVIOUS
    <3>1. x \in S \ {b} /\ x # None
      BY <2>2, BudgetNulls DEF Live
    <3>2. up[n] = budget[x].parent
      BY <1>1, <3>1 DEF ParentOf
    <3> QED BY <1>0, <1>2, <3>1, <3>2
  <2>3. G = 0..MaxDepth
    BY <1>0, <2>1, <2>2, UpTo
  <2> QED BY <2>3
<1>4. ASSUME NEW i \in 0..MaxDepth, NEW j \in 0..MaxDepth, i < j, up[i] = up[j] PROVE FALSE
  <2> PICK T : T = {up[n] : n \in i..(j - 1)}
    OBVIOUS
  <2>1. T \subseteq S \ {b} /\ T # {}
    <3>1. up[i] \in T
      BY <1>4
    <3>2. \A n \in i..(j - 1) : n \in 0..MaxDepth
      BY <1>0
    <3> QED BY <1>3, <3>1, <3>2
  <2>2. ASSUME NEW x \in T PROVE budget[x].parent \in T
    <3>1. PICK n \in i..(j - 1) : x = up[n]
      OBVIOUS
    <3>2. n + 1 \in 1..MaxDepth /\ (n + 1) - 1 = n
      BY <1>0
    <3>3. up[n + 1] = ParentOf(up[n])
      BY <1>1, <3>2
    <3>4. x # None
      BY <2>1, BudgetNulls DEF Live
    <3>5. up[n + 1] = budget[x].parent
      BY <3>1, <3>3, <3>4 DEF ParentOf
    <3>6. CASE n = j - 1
      <4>1. up[n + 1] = up[i]
        BY <1>4, <3>6
      <4>2. i \in i..(j - 1)
        BY <1>4
      <4> QED BY <3>5, <4>1, <4>2
    <3>7. CASE n # j - 1
      <4>1. n + 1 \in i..(j - 1)
        BY <3>7
      <4> QED BY <3>5, <4>1
    <3> QED BY <3>6, <3>7
  <2>3. T \in Circles
    BY <2>1, <2>2 DEF Circles
  <2>4. Cardinality(T) <= Cardinality(S) /\ Cardinality(T) \in Nat /\ Cardinality(S) \in Nat
    BY <1>0, <2>1, FS_Subset, FS_CardinalityType
  <2>5. Cardinality(T) <= MaxDepth + 1
    BY <1>0, <2>4
  <2> QED BY <2>1, <2>3, <2>5 DEF CycleExplained
<1>5. up \in Injection(0..MaxDepth, S \ {b})
  <2>1. up \in [0..MaxDepth -> S \ {b}]
    BY <1>1, <1>3
  <2>2. \A i, j \in 0..MaxDepth : i # j => up[i] # up[j]
    <3> SUFFICES ASSUME NEW i \in 0..MaxDepth, NEW j \in 0..MaxDepth, i # j PROVE up[i] # up[j]
      OBVIOUS
    <3>1. i < j \/ j < i
      OBVIOUS
    <3> QED BY <1>4, <3>1
  <2> QED BY <2>1, <2>2 DEF Injection, IsInjective
<1>6. IsFiniteSet(S \ {b}) /\ Cardinality(S \ {b}) = Cardinality(S) - 1
  BY <1>0, FS_RemoveElement
<1>7. Cardinality(0..MaxDepth) <= Cardinality(S \ {b})
  BY <1>5, <1>6, FS_Injection
<1>8. Cardinality(0..MaxDepth) = MaxDepth + 1
  BY <1>0, FS_Interval
<1> QED BY <1>0, <1>6, <1>7, <1>8, FS_CardinalityType

\* A request that is to move a budget whose check still stands.
Clear(c) ==
  c.op = "update" /\ ~c.stale /\ ParentAfter(c) # None => c.id \notin Above(ParentAfter(c))
Cleared == \A r \in BudgetCalls : bcall[r] # None => Clear(bcall[r])
CycleInv == EnvelopeInv /\ CycleExplained /\ Cleared

(* A circle without the budget that is written was one before. *)
LEMMA OldCircle ==
  ASSUME NEW b, \A o \in Budgets : o # b => budget'[o] = budget[o], NEW S \in SUBSET Live', S # {},
         b \notin S, \A x \in S : budget'[x].parent \in S
  PROVE  S \in Circles
<1>1. \A x \in S : x \in Live /\ budget[x].parent \in S
  BY DEF Live
<1> QED BY <1>1 DEF Circles

(* No budget is written. *)
LEMMA CyclesKept ==
  ASSUME CycleInv, EnvelopeInv', budget' = budget, loosened' = loosened,
         \A q \in BudgetCalls : bcall'[q] # None => bcall'[q] = bcall[q] \/ Clear(bcall[q])'
  PROVE  CycleInv'
<1>1. CycleExplained'
  BY DEF CycleInv, CycleExplained, Circles, Live
<1>2. ASSUME NEW c PROVE Clear(c)' <=> Clear(c)
  BY DEF Clear, ParentAfter, Above, Cursor, ParentOf
<1>3. ASSUME NEW q \in BudgetCalls, bcall'[q] # None PROVE Clear(bcall[q])'
  <2>1. CASE bcall'[q] = bcall[q]
    <3> PICK c : c = bcall[q]
      OBVIOUS
    <3>1. Clear(c)
      BY <1>3, <2>1 DEF CycleInv, Cleared
    <3> QED BY <1>2, <2>1, <3>1
  <2> QED BY <1>3, <2>1
<1> QED BY <1>1, <1>3 DEF CycleInv, Cleared

(* A budget is written, and the other requests are stale. *)
LEMMA ClearedAged ==
  ASSUME EnvelopeInv,
         \A q \in BudgetCalls : bcall'[q] = None \/ (bcall[q] # None /\ bcall'[q] = Aged(bcall[q]))
  PROVE  Cleared'
<1>1. ASSUME NEW q \in BudgetCalls, bcall'[q] # None PROVE bcall'[q].stale
  <2> PICK c : c = bcall[q]
    OBVIOUS
  <2>1. c \in OpenBudgetCall /\ bcall'[q] = Aged(c)
    BY <1>1 DEF EnvelopeInv, BudgetTypeOK
  <2> QED BY <2>1, AgedFields
<1> QED BY <1>1 DEF Cleared, Clear

(* The check of a change. *)
LEMMA CheckUpdateCycles ==
  ASSUME CycleInv, NEW r \in BudgetCalls, NEW b \in Budgets, NEW a \in Amounts \cup {Keep},
         NEW p \in Budgets \cup {None, Keep}, CheckUpdate(r, b, a, p)
  PROVE  CycleInv'
<1> PICK c : c = [op |-> "update", id |-> b, amount |-> a, parent |-> p, stale |-> FALSE]
  OBVIOUS
<1>1. Begin(r, c)
  BY DEF CheckUpdate
<1>2. Clear(c)
  BY DEF CheckUpdate, HierarchyValid, Clear, ParentAfter
<1>3. budget' = budget /\ loosened' = loosened /\ bcall' = [bcall EXCEPT ![r] = c]
  BY <1>1 DEF Begin
<1>4. EnvelopeInv'
  BY CheckUpdateEnvelope DEF CycleInv
<1>5. ASSUME NEW d PROVE Clear(d)' <=> Clear(d)
  BY <1>3 DEF Clear, ParentAfter, Above, Cursor, ParentOf
<1>6. ASSUME NEW q \in BudgetCalls, bcall'[q] # None PROVE bcall'[q] = bcall[q] \/ Clear(bcall[q])'
  <2>1. bcall'[q] = IF q = r THEN c ELSE bcall[q]
    BY <1>3 DEF CycleInv, EnvelopeInv, BudgetTypeOK
  <2> QED BY <1>2, <1>5, <2>1
<1> QED BY <1>3, <1>4, <1>6, CyclesKept

(* The check of a new budget: nothing is below it. *)
LEMMA CheckCreateCycles ==
  ASSUME CycleInv, NEW r \in BudgetCalls, NEW b \in Budgets, NEW a \in Amounts,
         NEW p \in Budgets \cup {None}, CheckCreate(r, b, a, p)
  PROVE  CycleInv'
<1> PICK c : c = [op |-> "create", id |-> b, amount |-> a, parent |-> p, stale |-> FALSE]
  OBVIOUS
<1>1. Begin(r, c)
  BY DEF CheckCreate
<1>2. c.op = "create"
  OBVIOUS
<1>3. budget' = budget /\ loosened' = loosened /\ bcall' = [bcall EXCEPT ![r] = c]
  BY <1>1 DEF Begin
<1>4. EnvelopeInv'
  BY CheckCreateEnvelope DEF CycleInv
<1>5. ASSUME NEW q \in BudgetCalls, bcall'[q] # None PROVE bcall'[q] = bcall[q] \/ Clear(bcall[q])'
  <2>1. bcall'[q] = IF q = r THEN c ELSE bcall[q]
    BY <1>3 DEF CycleInv, EnvelopeInv, BudgetTypeOK
  <2> QED BY <1>2, <2>1 DEF Clear
<1> QED BY <1>3, <1>4, <1>5, CyclesKept

(* A new budget has none below it, so that a circle with it is one without it. *)
LEMMA WriteCreateCycles ==
  ASSUME CycleInv, NEW r \in BudgetCalls, WriteCreate(r) PROVE CycleInv'
<1> PICK c : c = bcall[r]
  OBVIOUS
<1>0. c \in OpenBudgetCall /\ c.op = "create" /\ c # None /\ Vetted(c)
  BY DEF CycleInv, EnvelopeInv, BudgetTypeOK, WriteCreate, Requested
<1>1. c.id \in Budgets /\ budget[c.id] = None
  BY <1>0, BudgetCallFields DEF Vetted
<1>2. EnvelopeInv'
  BY WriteCreateEnvelope DEF CycleInv
<1>3. CASE c.parent # None /\ budget[c.parent] = None
  <2>1. Refuse(r)
    BY <1>3 DEF WriteCreate
  <2>2. \A q \in BudgetCalls : bcall'[q] # None => bcall'[q] = bcall[q]
    BY <2>1 DEF Refuse, CycleInv, EnvelopeInv, BudgetTypeOK
  <2> QED BY <1>2, <2>1, <2>2, CyclesKept DEF Refuse
<1>4. CASE ~(c.parent # None /\ budget[c.parent] = None)
  <2>1. /\ Store(r, [budget EXCEPT ![c.id] = Row(c.id, c.amount, c.parent)])
        /\ loosened \subseteq loosened'
    BY <1>4 DEF WriteCreate
  <2>2. /\ budget'[c.id].parent = c.parent
        /\ \A o \in Budgets : o # c.id => budget'[o] = budget[o]
    BY <1>1, <2>1 DEF Store, Row, CycleInv, EnvelopeInv, BudgetTypeOK
  <2>3. Cleared'
    BY <2>1, StoreAges, ClearedAged DEF CycleInv
  <2>4. ASSUME NEW S \in Circles', Cardinality(S) <= MaxDepth + 1 PROVE S \cap loosened' # {}
    <3>1. S \in SUBSET Live' /\ S # {} /\ \A x \in S : budget'[x].parent \in S
      BY <2>4 DEF Circles
    <3>2. CASE c.id \notin S
      <4>1. S \in Circles
        BY <2>2, <3>1, <3>2, OldCircle
      <4> QED BY <2>1, <2>4, <4>1 DEF CycleInv, CycleExplained
    <3>3. CASE c.id \in S
      <4> PICK T : T = S \ {c.id}
        OBVIOUS
      <4>1. c.parent \in T
        <5>1. c.parent \in S /\ c.parent # None
          BY <2>2, <3>1, <3>3, BudgetNulls DEF Live
        <5> QED BY <1>1, <1>4, <5>1
      <4>2. ASSUME NEW x \in T PROVE x \in Live /\ budget[x].parent \in T
        <5>1. x \in Live /\ budget[x].parent \in S
          BY <2>2, <3>1 DEF Live
        <5>2. budget[x].parent \in Live
          BY <3>1, <5>1, BudgetNulls DEF CycleInv, EnvelopeInv, BudgetTypeOK, Live
        <5> QED BY <1>1, <5>1, <5>2 DEF Live
      <4>3. T \in Circles
        BY <4>1, <4>2 DEF Circles
      <4>4. Cardinality(T) <= MaxDepth + 1
        <5>1. IsFiniteSet(S) /\ MaxDepth \in Nat
          BY <3>1, BudgetMoneyAssumption, BudgetBoundAssumption, FS_Subset DEF Live
        <5>2. Cardinality(T) <= Cardinality(S) /\ Cardinality(T) \in Nat /\ Cardinality(S) \in Nat
          BY <5>1, FS_Subset, FS_CardinalityType
        <5> QED BY <2>4, <5>1, <5>2
      <4> QED BY <2>1, <4>3, <4>4 DEF CycleInv, CycleExplained
    <3> QED BY <3>2, <3>3
  <2> QED BY <1>2, <2>3, <2>4 DEF CycleInv, CycleExplained
<1> QED BY <1>3, <1>4

(* A budget that is moved on a check that stands closes no circle the check can
   see; one that is moved on a stale check is noted. *)
LEMMA WriteUpdateCycles ==
  ASSUME CycleInv, NEW r \in BudgetCalls, WriteUpdate(r) PROVE CycleInv'
<1> PICK c, row, amount, parent :
      /\ c = bcall[r] /\ row = budget[c.id]
      /\ amount = IF c.amount = Keep THEN row.amount ELSE c.amount
      /\ parent = IF c.parent = Keep THEN row.parent ELSE c.parent
  OBVIOUS
<1>0. c \in OpenBudgetCall /\ c.op = "update" /\ c # None /\ Clear(c) /\ c.id \in Budgets
  <2>1. c \in OpenBudgetCall /\ c.op = "update" /\ c # None /\ Clear(c)
    BY DEF CycleInv, EnvelopeInv, BudgetTypeOK, WriteUpdate, Cleared
  <2> QED BY <2>1, BudgetCallFields
<1>2. EnvelopeInv'
  BY WriteUpdateEnvelope DEF CycleInv
<1>3. CASE row = None \/ (c.parent \notin {Keep, None} /\ budget[c.parent] = None)
  <2>1. Refuse(r)
    BY <1>3 DEF WriteUpdate
  <2>2. \A q \in BudgetCalls : bcall'[q] # None => bcall'[q] = bcall[q]
    BY <2>1 DEF Refuse, CycleInv, EnvelopeInv, BudgetTypeOK
  <2> QED BY <1>2, <2>1, <2>2, CyclesKept DEF Refuse
<1>4. CASE ~(row = None \/ (c.parent \notin {Keep, None} /\ budget[c.parent] = None))
  <2>1. /\ Store(r, [budget EXCEPT ![c.id].amount = amount, ![c.id].parent = parent])
        /\ loosened \subseteq loosened'
        /\ c.stale => c.id \in loosened'
    BY <1>0, <1>4, BudgetNulls DEF WriteUpdate
  <2>2. /\ budget'[c.id].parent = parent
        /\ \A o \in Budgets : o # c.id => budget'[o] = budget[o]
    <3>1. row \in BudgetRow /\ amount \in AnyAmount /\ parent \in Budgets \cup {None}
      <4>1. row \in BudgetRow
        BY <1>0, <1>4 DEF CycleInv, EnvelopeInv, BudgetTypeOK
      <4> QED BY <1>0, <4>1, RowFields, BudgetCallFields DEF AnyAmount
    <3> PICK new : new = Regrouped(row, amount, parent)
      OBVIOUS
    <3>2. new.parent = parent
      BY <3>1, RowRegrouped
    <3>3. [budget EXCEPT ![c.id].amount = amount, ![c.id].parent = parent] = [budget EXCEPT ![c.id] = new]
      <4> PICK once : once = [budget EXCEPT ![c.id].amount = amount]
        OBVIOUS
      <4> QED BY <1>0 DEF CycleInv, EnvelopeInv, BudgetTypeOK, Regrouped
    <3>4. budget' = [budget EXCEPT ![c.id] = new]
      BY <2>1, <3>3 DEF Store
    <3> QED BY <1>0, <3>2, <3>4 DEF CycleInv, EnvelopeInv, BudgetTypeOK
  <2>3. Cleared'
    BY <2>1, StoreAges, ClearedAged DEF CycleInv
  <2>4. ASSUME NEW S \in Circles', Cardinality(S) <= MaxDepth + 1, S \cap loosened' = {} PROVE FALSE
    <3>1. S \in SUBSET Live' /\ S # {} /\ \A x \in S : budget'[x].parent \in S
      BY <2>4 DEF Circles
    <3>2. CASE c.id \notin S
      <4>1. S \in Circles
        BY <2>2, <3>1, <3>2, OldCircle
      <4> QED BY <2>1, <2>4, <4>1 DEF CycleInv, CycleExplained
    <3>3. CASE c.id \in S
      <4>1. S \in SUBSET Live
        BY <1>4, <2>2, <3>1 DEF Live
      <4>2. parent \in S /\ \A x \in S \ {c.id} : budget[x].parent \in S
        BY <2>2, <3>1, <3>3, <4>1 DEF Live
      <4>3. parent # None
        BY <4>1, <4>2, BudgetNulls DEF Live
      <4>4. c.id \notin Above(parent)
        BY <1>0, <2>1, <2>4, <3>3, <4>3 DEF Clear, ParentAfter
      <4>5. S \cap loosened = {}
        BY <2>1, <2>4
      <4>6. BudgetTypeOK /\ CycleExplained
        BY DEF CycleInv, EnvelopeInv
      <4> QED BY <2>4, <3>3, <4>1, <4>2, <4>4, <4>5, <4>6, NoCircleCloses
    <3> QED BY <3>2, <3>3
  <2> QED BY <1>2, <2>3, <2>4 DEF CycleInv, CycleExplained
<1> QED BY <1>3, <1>4

(* A budget that is removed was in no circle. *)
LEMMA RemoveBudgetCycles ==
  ASSUME CycleInv, NEW b \in Budgets, RemoveBudget(b) PROVE CycleInv'
<1>1. EnvelopeInv'
  BY RemoveBudgetEnvelope DEF CycleInv
<1>2. budget'[b] = None /\ \A o \in Budgets : o # b => budget'[o] = budget[o]
  BY DEF CycleInv, EnvelopeInv, BudgetTypeOK, RemoveBudget
<1>3. \A q \in BudgetCalls : bcall'[q] = None \/ (bcall[q] # None /\ bcall'[q] = Aged(bcall[q]))
  BY DEF RemoveBudget, Aged
<1>4. Cleared'
  BY <1>3, ClearedAged DEF CycleInv
<1>5. ASSUME NEW S \in Circles', Cardinality(S) <= MaxDepth + 1 PROVE S \cap loosened' # {}
  <2>1. S \in SUBSET Live' /\ S # {} /\ \A x \in S : budget'[x].parent \in S
    BY <1>5 DEF Circles
  <2>2. b \notin S
    BY <1>2, <2>1 DEF Live
  <2>3. S \in Circles
    BY <1>2, <2>1, <2>2, OldCircle
  <2>4. S \cap loosened # {}
    BY <1>5, <2>3 DEF CycleInv, CycleExplained
  <2> QED BY <2>2, <2>4 DEF RemoveBudget
<1> QED BY <1>1, <1>4, <1>5 DEF CycleInv, CycleExplained

(* Every step keeps the hierarchy. *)
LEMMA StepCycles == ASSUME CycleInv, [Next]_vars PROVE CycleInv'
<1>0. EnvelopeInv'
  BY StepEnvelope DEF CycleInv
<1>1. ASSUME budget' = budget, loosened' = loosened, \A q \in BudgetCalls : bcall'[q] \in {bcall[q], None}
      PROVE  CycleInv'
  BY <1>0, <1>1, CyclesKept
<1>2. CASE UNCHANGED budgetVars
  BY <1>1, <1>2 DEF budgetVars
<1>3. CASE ExpenseStep
  <2>1. \A q \in BudgetCalls : bcall'[q] \in {bcall[q], None}
    BY <1>3 DEF ExpenseStep
  <2> QED BY <1>1, <1>3, <2>1 DEF ExpenseStep
<1>4. CASE BudgetStep
  BY <1>4, CheckCreateCycles, CheckUpdateCycles, WriteCreateCycles, WriteUpdateCycles, RemoveBudgetCycles
     DEF BudgetStep, BudgetNext
<1>5. ASSUME NEW k \in pending, BeginCheck(k) PROVE CycleInv'
  BY <1>2, <1>5 DEF BeginCheck
<1>6. ASSUME NEW k \in running, ReadExpenses(k) \/ Tell(k) \/ LoseCheck(k) PROVE CycleInv'
  BY <1>2, <1>6 DEF ReadExpenses, Tell, LoseCheck
<1>7. ASSUME NEW k \in running, NEW bu \in k.todo, Look(k, bu) PROVE CycleInv'
  BY <1>2, <1>7 DEF Look
<1>8. CASE UNCHANGED vars
  BY <1>2, <1>8 DEF vars
<1> QED BY <1>3, <1>4, <1>5, <1>6, <1>7, <1>8 DEF Next

(* Budgets that are all below one another are more than the cycle check looks up,
   or a request wrote one of them on a stale check (budgets.service.ts:796). *)
THEOREM CycleExplainedHolds == Spec => []CycleExplained
<1>1. Init => CycleInv
  <2> SUFFICES ASSUME Init PROVE CycleInv
    OBVIOUS
  <2>1. EnvelopeInv
    BY InitEnvelope
  <2>2. Cleared
    BY DEF Init, BudgetInit, Cleared
  <2>3. ASSUME NEW S \in Circles PROVE S \cap loosened # {}
    <3>1. S # {} /\ S \subseteq loosened
      BY <2>3 DEF Init, BudgetInit, Circles
    <3> QED BY <3>1
  <2> QED BY <2>1, <2>2, <2>3 DEF CycleInv, CycleExplained
<1>2. CycleInv => CycleExplained
  BY DEF CycleInv
<1> QED BY <1>1, <1>2, StepCycles, PTL DEF Spec

-----------------------------------------------------------------------------
\* The announcement of the budgets that are over their threshold.

\* A budget keeps the scope it was drafted with.
Scope(row) == <<row.delegation, row.centre, row.startDate, row.endDate, row.alertThresholdPct>>
Scoped == \A b \in Live : Scope(budget[b]) = Scope(Drafts[b])

(* Its amount and parent are no part of it. *)
LEMMA ScopeKept ==
  ASSUME NEW row \in BudgetRow, NEW amount, NEW parent
  PROVE  Scope(Regrouped(row, amount, parent)) = Scope(row)
<1> PICK b \in Budgets, old \in AnyAmount, was \in Budgets \cup {None} : row = Row(b, old, was)
  BY DEF BudgetRow
<1> PICK mid : mid = [row EXCEPT !.amount = amount]
  OBVIOUS
<1>1. /\ mid.delegation = row.delegation /\ mid.centre = row.centre /\ mid.startDate = row.startDate
      /\ mid.endDate = row.endDate /\ mid.alertThresholdPct = row.alertThresholdPct
  BY DEF Row
<1> PICK new : new = [mid EXCEPT !.parent = parent]
  OBVIOUS
<1>2. /\ new.delegation = mid.delegation /\ new.centre = mid.centre /\ new.startDate = mid.startDate
      /\ new.endDate = mid.endDate /\ new.alertThresholdPct = mid.alertThresholdPct
  BY DEF Row
<1>3. Regrouped(row, amount, parent) = new
  BY DEF Regrouped
<1> QED BY <1>1, <1>2, <1>3 DEF Scope

(* One row written, with the scope of its draft. *)
LEMMA ScopedWrite ==
  ASSUME BudgetTypeOK, Scoped, NEW b \in Budgets, NEW row, Scope(row) = Scope(Drafts[b]),
         budget' = [budget EXCEPT ![b] = row]
  PROVE  Scoped'
BY DEF BudgetTypeOK, Scoped, Live

(* Every step keeps the scopes. *)
LEMMA StepScoped == ASSUME BudgetTypeOK, Scoped, [Next]_vars PROVE Scoped'
<1>1. ASSUME budget' = budget PROVE Scoped'
  BY <1>1 DEF Scoped, Live
<1>2. ASSUME NEW r \in BudgetCalls, WriteCreate(r) PROVE Scoped'
  <2> PICK c, row : c = bcall[r] /\ row = Row(c.id, c.amount, c.parent)
    OBVIOUS
  <2>1. c \in OpenBudgetCall
    BY <1>2 DEF BudgetTypeOK, WriteCreate
  <2>2. c.id \in Budgets /\ Scope(row) = Scope(Drafts[c.id])
    <3>1. c.id \in Budgets
      BY <2>1, BudgetCallFields
    <3>2. Scope(row) = Scope(Drafts[c.id])
      BY DEF Scope, Row
    <3> QED BY <3>1, <3>2
  <2>3. budget' = budget \/ budget' = [budget EXCEPT ![c.id] = row]
    BY <1>2 DEF WriteCreate, Store, Refuse
  <2> QED BY <1>1, <2>2, <2>3, ScopedWrite
<1>3. ASSUME NEW r \in BudgetCalls, WriteUpdate(r) PROVE Scoped'
  <2> PICK c, row, amount, parent :
        /\ c = bcall[r] /\ row = budget[c.id]
        /\ amount = IF c.amount = Keep THEN row.amount ELSE c.amount
        /\ parent = IF c.parent = Keep THEN row.parent ELSE c.parent
    OBVIOUS
  <2>1. c \in OpenBudgetCall
    BY <1>3 DEF BudgetTypeOK, WriteUpdate
  <2>2. c.id \in Budgets
    BY <2>1, BudgetCallFields
  <2>3. \/ budget' = budget
        \/ row # None /\ budget' = [budget EXCEPT ![c.id].amount = amount, ![c.id].parent = parent]
    BY <1>3 DEF WriteUpdate, Store, Refuse
  <2>4. CASE row # None /\ budget' = [budget EXCEPT ![c.id].amount = amount, ![c.id].parent = parent]
    <3> PICK new : new = Regrouped(row, amount, parent)
      OBVIOUS
    <3>1. [budget EXCEPT ![c.id].amount = amount, ![c.id].parent = parent] = [budget EXCEPT ![c.id] = new]
      <4> PICK once : once = [budget EXCEPT ![c.id].amount = amount]
        OBVIOUS
      <4> QED BY <2>2 DEF BudgetTypeOK, Regrouped
    <3>2. row \in BudgetRow /\ c.id \in Live
      BY <2>2, <2>4 DEF BudgetTypeOK, Live
    <3>3. Scope(new) = Scope(Drafts[c.id])
      BY <3>2, ScopeKept DEF Scoped
    <3>4. budget' = [budget EXCEPT ![c.id] = new]
      BY <2>4, <3>1
    <3> QED BY <2>2, <3>3, <3>4, ScopedWrite
  <2> QED BY <1>1, <2>3, <2>4
<1>4. ASSUME NEW b \in Budgets, RemoveBudget(b) PROVE Scoped'
  <2>1. budget'[b] = None /\ \A o \in Budgets : o # b => budget'[o] = budget[o]
    <3>1. budget' = [budget EXCEPT ![b] = None]
      BY <1>4 DEF RemoveBudget
    <3> QED BY <3>1 DEF BudgetTypeOK
  <2>2. \A o \in Live' : o \in Live /\ budget'[o] = budget[o]
    BY <2>1 DEF Live
  <2> QED BY <2>2 DEF Scoped
<1>5. CASE BudgetStep
  BY <1>1, <1>2, <1>3, <1>4, <1>5 DEF BudgetStep, BudgetNext, CheckCreate, CheckUpdate, Begin
<1>6. CASE ExpenseStep
  BY <1>1, <1>6 DEF ExpenseStep
<1>7. ASSUME NEW k \in pending, BeginCheck(k) PROVE Scoped'
  BY <1>1, <1>7 DEF BeginCheck, budgetVars
<1>8. ASSUME NEW k \in running, ReadExpenses(k) \/ Tell(k) \/ LoseCheck(k) PROVE Scoped'
  BY <1>1, <1>8 DEF ReadExpenses, Tell, LoseCheck, budgetVars
<1>9. ASSUME NEW k \in running, NEW bu \in k.todo, Look(k, bu) PROVE Scoped'
  BY <1>1, <1>9 DEF Look, budgetVars
<1>10. CASE UNCHANGED vars
  BY <1>1, <1>10 DEF vars, budgetVars
<1> QED BY <1>5, <1>6, <1>7, <1>8, <1>9, <1>10 DEF Next

(* What a budget counts goes by its scope. *)
LEMMA ScopeFields ==
  ASSUME Scoped, NEW b \in Live
  PROVE  /\ budget[b].startDate \in Int /\ budget[b].endDate \in Int /\ budget[b].alertThresholdPct \in Int
         /\ budget[b].startDate = Drafts[b].startDate /\ budget[b].endDate = Drafts[b].endDate
         /\ budget[b].centre = Drafts[b].centre /\ budget[b].delegation = Drafts[b].delegation
<1>1. Scope(budget[b]) = Scope(Drafts[b]) /\ b \in Budgets
  BY DEF Scoped, Live
<1>2. {Drafts[b].startDate, Drafts[b].endDate, Drafts[b].alertThresholdPct} \subseteq Int
  BY <1>1, DraftAssumption
<1> QED BY <1>1, <1>2 DEF Scope

(* A request writes one expense at most; unless the process restarts no check
   that was set off is lost. *)
LEMMA OneWritten ==
  ASSUME ExpenseInv, ExpenseNext
  PROVE  /\ \E x : \A y \in Ids : y # x => expense'[y] = expense[y]
         /\ (crashes' = crashes /\ pending \subseteq pending') \/ crashes' = crashes + 1
<1>0. ASSUME expense' = expense PROVE \E x : \A y \in Ids : y # x => expense'[y] = expense[y]
  BY <1>0
<1>a. ASSUME NEW x, NEW row, expense' = [expense EXCEPT ![x] = row]
      PROVE  \E z : \A y \in Ids : y # z => expense'[y] = expense[y]
  BY <1>a DEF ExpenseInv, ExpenseTypeOK
<1>1. ASSUME NEW x \in Ids, NEW shape \in Shapes, NEW a \in Amount, NEW split \in Splits, Create(x, shape, a, split)
      PROVE  crashes' = crashes /\ pending \subseteq pending'
             /\ \E z : \A y \in Ids : y # z => expense'[y] = expense[y]
  BY <1>1, <1>a DEF Create
<1>2. ASSUME NEW r \in Calls, StoreUpdate(r)
      PROVE  crashes' = crashes /\ pending \subseteq pending'
             /\ \E z : \A y \in Ids : y # z => expense'[y] = expense[y]
  <2>1. expense' = expense \/ \E row : expense' = [expense EXCEPT ![call[r].id] = row]
    BY <1>2 DEF StoreUpdate
  <2> QED BY <1>2, <1>0, <1>a, <2>1 DEF StoreUpdate
<1>3. ASSUME NEW r \in Calls, Bind(r) \/ Resync(r) \/ PriceLink(r) \/ SyncLink(r)
      PROVE  crashes' = crashes /\ pending \subseteq pending'
             /\ \E z : \A y \in Ids : y # z => expense'[y] = expense[y]
  <2>1. \/ expense' = expense
        \/ \E row : expense' = [expense EXCEPT ![call[r].id] = row]
    BY <1>3 DEF Bind, Resync, PriceLink, SyncLink, SetTotal
  <2> QED BY <1>3, <1>0, <1>a, <2>1 DEF Bind, Resync, PriceLink, SyncLink
<1>4. ASSUME NEW x \in Ids, Remove(x) \/ \E r \in Calls : Make(r, x)
      PROVE  crashes' = crashes /\ pending \subseteq pending'
             /\ \E z : \A y \in Ids : y # z => expense'[y] = expense[y]
  <2>1. \E row : expense' = [expense EXCEPT ![x] = row]
    BY <1>4 DEF Remove, Make
  <2> QED BY <1>4, <1>a, <2>1 DEF Remove, Make
<1>5. ASSUME expense' = expense, crashes' = crashes, pending' = pending
      PROVE  crashes' = crashes /\ pending \subseteq pending'
             /\ \E z : \A y \in Ids : y # z => expense'[y] = expense[y]
  BY <1>5, <1>0
<1>6. CASE Crash
  BY <1>6, <1>0 DEF Crash
<1> QED BY <1>1, <1>2, <1>3, <1>4, <1>5, <1>6
     DEF ExpenseNext, ReadUpdate, ReadMake, ReadResync, ReadLink, SetCost

(* A budget that an expense pushes over its threshold, unless it was missed, is a
   candidate of a check set off. *)
LEMMA CrossedIsCandidate ==
  ASSUME ExpenseInv, ExpenseInv', BudgetTypeOK, Scoped, ExpenseNext, budget' = budget,
         NEW b \in Reached', b \notin Reached, b \notin Missed
  PROVE  \E k \in pending' : b \in Candidates(k, budget, Live)
<1>1. b \in Live /\ b \in Budgets /\ Live' = Live
  BY DEF Reached, Live
<1> PICK row, rows, others, ids, left :
      row = budget[b] /\ rows = expense /\ others = expense' /\ ids = Rows /\ left = Rows'
  OBVIOUS
<1>2. /\ row.startDate \in Int /\ row.endDate \in Int /\ row.alertThresholdPct \in Int
      /\ row.amount \in Nat
  BY <1>1, ScopeFields, BudgetMoney
<1>3. ThresholdReached(row, Spent(row, others, left)) /\ ~ThresholdReached(row, Spent(row, rows, ids))
  BY <1>1 DEF Reached, SpentNow
<1>4. PICK x \in Ids : /\ others[x] # rows[x] /\ others[x] \in pending'
                       /\ x \notin ids \/ ~Credit(rows[x]) \/ b \in Candidates(others[x], budget, Live)
  BY <1>1 DEF Missed
<1>5. \A y \in Ids : y # x => others[y] = rows[y]
  BY <1>4, OneWritten
<1>6. SUFFICES ASSUME b \notin Candidates(others[x], budget, Live) PROVE FALSE
  BY <1>4
<1>7. ~Counts(others[x], row)
  BY <1>1, <1>6 DEF Candidates, Counts
<1>8. ids \in SUBSET Ids /\ left \in SUBSET Ids
  BY DEF Rows
<1>9. \A i \in ids : rows[i] \in ExpenseRow
  BY DEF Rows, ExpenseInv, ExpenseTypeOK
<1>10. \A i \in Ids : i # x => (i \in ids <=> i \in left)
  BY <1>5 DEF Rows
<1>11. \A i \in left : Counts(others[i], row) => i \in ids /\ others[i] = rows[i]
  BY <1>5, <1>7, <1>8, <1>10
<1>12. \A i \in ids : Credit(rows[i]) => i \in left /\ others[i] = rows[i]
  BY <1>4, <1>5, <1>6, <1>8, <1>10
<1>13. /\ Spent(row, rows, ids) \in Int /\ Spent(row, others, left) \in Int
       /\ Spent(row, others, left) <= Spent(row, rows, ids)
  BY <1>2, <1>8, <1>9, <1>11, <1>12, SpentShrinks
<1> QED BY <1>2, <1>3, <1>13, ProgressGrows

\* The user u is told of b, or will be by a check on the way: one that is to tell
\* them, one that read the row b has, or one that is to read the candidates.
Read(k, b) == k.phase = "read" /\ b \in DOMAIN k.rows /\ k.rows[b] = budget[b]
Pair(b, u) == <<b, u>>
Promised(b, u) ==
  \/ inbox[Pair(b, u)] > 0
  \/ \E k \in running : k.phase = "tell" /\ Pair(b, u) \in k.todo
  \/ \E k \in running : Read(k, b)
  \/ \E k \in pending : b \in Candidates(k, budget, Live)
Announced ==
  lost = 0 /\ crashes = 0 =>
    \A u \in Users : \A b \in Manages[u] \cap (Reached \ unannounced) : Promised(b, u)
CrossInv == CostInv /\ Scoped /\ Announced

(* The budgets that are over stay so while neither they nor expenses change. *)
LEMMA ReachedSame ==
  ASSUME budget' = budget, expense' = expense
  PROVE  Reached' = Reached /\ Live' = Live
BY DEF Reached, Live, SpentNow, Rows

(* A request on an expense. *)
LEMMA ExpenseAnnounced == ASSUME CrossInv, CostInv', ExpenseStep PROVE Announced'
<1>0. ExpenseNext /\ budget' = budget /\ lost' = lost /\ inbox' = inbox /\ Account
  BY DEF ExpenseStep
<1>1. crashes \in Nat
  BY BoundAssumption DEF CrossInv, CostInv, ExpenseInv, ExpenseTypeOK
<1>2. CASE crashes' = crashes + 1
  BY <1>1, <1>2 DEF Announced
<1>3. CASE crashes' = crashes /\ pending \subseteq pending'
  <2>1. running' = running
    BY <1>3 DEF ExpenseStep
  <2>2. SUFFICES ASSUME lost = 0, crashes = 0, NEW u \in Users, NEW b \in Manages[u], b \in Reached',
                        b \notin unannounced'
                 PROVE  Promised(b, u)'
    BY <1>0, <1>3 DEF Announced
  <2>3. Live' = Live
    BY <1>0 DEF Live
  <2>4. CASE b \in Reached
    <3>1. Promised(b, u)
      BY <1>0, <2>2, <2>4 DEF CrossInv, Announced, Account
    <3> QED BY <1>0, <1>3, <2>1, <2>3, <3>1 DEF Promised, Read
  <2>5. CASE b \notin Reached
    <3>1. b \notin Missed
      BY <1>0, <2>2, <2>5 DEF Account
    <3>2. PICK k \in pending' : b \in Candidates(k, budget, Live)
      BY <1>0, <2>2, <2>5, <3>1, CrossedIsCandidate DEF CrossInv, CostInv
    <3> QED BY <1>0, <2>3, <3>2 DEF Promised
  <2> QED BY <2>4, <2>5
<1> QED BY <1>0, <1>2, <1>3, OneWritten DEF CrossInv, CostInv

(* A request on a budget. *)
LEMMA BudgetAnnounced ==
  ASSUME CrossInv, Scoped', BudgetTypeOK', BudgetStep PROVE Announced'
<1>0. /\ expense' = expense /\ pending' = pending /\ crashes' = crashes
      /\ running' = running /\ inbox' = inbox /\ lost' = lost /\ Account
  BY DEF BudgetStep, expenseVars, checkVars
<1> SUFFICES ASSUME lost = 0, crashes = 0, NEW u \in Users, NEW b \in Manages[u], b \in Reached',
                    b \notin unannounced'
             PROVE  Promised(b, u)'
  BY <1>0 DEF Announced
<1>1. b \in Budgets /\ b \in Live'
  BY DEF Reached, Live
<1>2. b \in Missed
  BY <1>0, <1>1 DEF Missed
<1>3. b \in Reached /\ b \notin unannounced /\ b \notin Outdated
  BY <1>0, <1>2 DEF Account
<1>4. Promised(b, u)
  BY <1>3 DEF CrossInv, Announced
<1>5. b \in Live
  BY <1>3 DEF Reached
<1>6. CASE \E k \in running : Read(k, b)
  <2>1. PICK k \in running : Read(k, b)
    BY <1>6
  <2>2. budget'[b] = budget[b]
    BY <1>1, <1>3, <2>1 DEF Outdated, Read
  <2>3. Read(k, b)'
    BY <2>1, <2>2 DEF Read
  <2> QED BY <1>0, <2>3 DEF Promised
<1>7. CASE \E k \in pending : b \in Candidates(k, budget, Live)
  <2>1. PICK k \in pending : b \in Candidates(k, budget, Live)
    BY <1>7
  <2> PICK new, old : new = budget'[b] /\ old = budget[b]
    OBVIOUS
  <2>2. /\ new.startDate = old.startDate /\ new.endDate = old.endDate
        /\ new.centre = old.centre /\ new.delegation = old.delegation
    <3>1. /\ old.startDate = Drafts[b].startDate /\ old.endDate = Drafts[b].endDate
          /\ old.centre = Drafts[b].centre /\ old.delegation = Drafts[b].delegation
      BY <1>5, ScopeFields DEF CrossInv
    <3>2. /\ new.startDate = Drafts[b].startDate /\ new.endDate = Drafts[b].endDate
          /\ new.centre = Drafts[b].centre /\ new.delegation = Drafts[b].delegation
      BY <1>1 DEF Scoped, Scope
    <3> QED BY <3>1, <3>2
  <2>3. b \in Candidates(k, budget', Live')
    BY <1>1, <2>1, <2>2 DEF Candidates, InWindow
  <2> QED BY <1>0, <2>1, <2>3 DEF Promised
<1>8. CASE inbox[Pair(b, u)] > 0 \/ \E k \in running : k.phase = "tell" /\ Pair(b, u) \in k.todo
  BY <1>0, <1>8 DEF Promised
<1> QED BY <1>4, <1>6, <1>7, <1>8 DEF Promised

(* The steps of a check leave the budgets that are over, and what is promised of
   them may change hands. *)
LEMMA CheckAnnounced ==
  ASSUME CrossInv, budget' = budget, expense' = expense, unannounced' = unannounced, crashes' = crashes,
         lost' = lost, \A u \in Users : \A b \in Manages[u] \cap Reached : Promised(b, u) => Promised(b, u)'
  PROVE  Announced'
<1>1. Reached' = Reached
  BY ReachedSame
<1> QED BY <1>1 DEF CrossInv, Announced

(* A check that begins reads the rows of its candidates. *)
LEMMA BeginAnnounced == ASSUME CrossInv, NEW k \in pending, BeginCheck(k) PROVE Announced'
<1> PICK cands, rows, j :
      /\ cands = Candidates(k, budget, Live) /\ rows = [b \in cands |-> budget[b]]
      /\ j = [about |-> k, rows |-> rows, phase |-> "read", todo |-> {}, at |-> None]
  OBVIOUS
<1>1. /\ budget' = budget /\ expense' = expense /\ unannounced' = unannounced /\ crashes' = crashes
      /\ lost' = lost /\ inbox' = inbox /\ pending' = pending \ {k}
      /\ running' = IF cands = {} THEN running ELSE running \cup {j}
  BY DEF BeginCheck, budgetVars
<1>2. ASSUME NEW u \in Users, NEW b \in Manages[u] \cap Reached, Promised(b, u)
      PROVE  Promised(b, u)'
  <2>1. CASE b \in cands
    <3>1. j \in running' /\ j.phase = "read" /\ b \in DOMAIN j.rows /\ j.rows[b] = budget'[b]
      BY <1>1, <2>1
    <3> QED BY <3>1 DEF Promised, Read
  <2>2. CASE b \notin cands
    <3>1. Live' = Live /\ running \subseteq running'
      BY <1>1, ReachedSame
    <3>2. ASSUME NEW i \in pending, b \in Candidates(i, budget, Live)
          PROVE  i \in pending' /\ b \in Candidates(i, budget', Live')
      BY <1>1, <2>2, <3>1, <3>2
    <3>3. CASE \E i \in pending : b \in Candidates(i, budget, Live)
      BY <3>2, <3>3 DEF Promised
    <3>4. CASE \E i \in running : Read(i, b)
      BY <1>1, <3>1, <3>4 DEF Promised, Read
    <3>5. CASE inbox[Pair(b, u)] > 0 \/ \E i \in running : i.phase = "tell" /\ Pair(b, u) \in i.todo
      BY <1>1, <3>1, <3>5 DEF Promised
    <3> QED BY <1>2, <3>3, <3>4, <3>5 DEF Promised
  <2> QED BY <2>1, <2>2
<1> QED BY <1>1, <1>2, CheckAnnounced

(* A promise that does not rest on the check k outlives it. *)
LEMMA PromiseHeld ==
  ASSUME NEW k \in running, budget' = budget, expense' = expense, pending' = pending,
         running \ {k} \subseteq running', NEW b \in Budgets, NEW u \in Users,
         inbox[Pair(b, u)] > 0 => inbox'[Pair(b, u)] > 0,
         Promised(b, u), k.phase = "tell" => Pair(b, u) \notin k.todo, ~Read(k, b)
  PROVE  Promised(b, u)'
<1>1. Live' = Live
  BY ReachedSame
<1>2. CASE inbox[Pair(b, u)] > 0 \/ \E i \in pending : b \in Candidates(i, budget, Live)
  BY <1>1, <1>2 DEF Promised
<1>3. CASE \E i \in running : i.phase = "tell" /\ Pair(b, u) \in i.todo
  BY <1>3 DEF Promised
<1>4. CASE \E i \in running : Read(i, b)
  <2>1. PICK i \in running \ {k} : Read(i, b)
    BY <1>4
  <2>2. i \in running' /\ Read(i, b)'
    BY <2>1 DEF Read
  <2> QED BY <2>2 DEF Promised
<1> QED BY <1>2, <1>3, <1>4 DEF Promised

(* A check that read the row of a budget that is over will tell its managers. *)
LEMMA ReadAnnounced == ASSUME CrossInv, NEW k \in running, ReadExpenses(k) PROVE Announced'
<1> PICK found, over, todo, j :
      /\ found = Prefetched(DOMAIN k.rows, k.rows, expense, Rows)
      /\ over = {b \in DOMAIN k.rows : ThresholdReached(k.rows[b], Spent(k.rows[b], expense, found))}
      /\ todo = {bu \in over \X Users : bu[1] \in Manages[bu[2]]}
      /\ j = Telling(k, todo)
  OBVIOUS
<1>0. Check(k) /\ k.phase = "read" /\ k.at = None
  BY DEF CrossInv, CostInv, OnceInv, ReadExpenses, Check
<1>1. /\ budget' = budget /\ expense' = expense /\ unannounced' = unannounced /\ crashes' = crashes
      /\ lost' = lost /\ inbox' = inbox /\ pending' = pending
      /\ running' = (running \ {k}) \cup (IF todo = {} THEN {} ELSE {j})
  BY DEF ReadExpenses, expenseVars, budgetVars, Telling
<1>2. todo \in SUBSET (Budgets \X Users)
  <2>1. over \subseteq Budgets
    BY <1>0 DEF Check
  <2> QED BY <2>1
<1>3. j.todo = todo /\ j.phase = "tell"
  <2>1. j.todo = todo
    BY <1>0, <1>2, CheckTells
  <2>2. j.phase = "tell"
    <3> PICK rows, set : rows = k.rows /\ set = Budgets \X Users
      OBVIOUS
    <3>1. k \in [about : {k.about}, rows : {rows}, phase : {"read", "tell"},
                 todo : SUBSET set, at : {k.at}]
      BY <1>0 DEF Check
    <3> QED BY <3>1 DEF Telling
  <2> QED BY <2>1, <2>2
<1>4. ASSUME NEW u \in Users, NEW b \in Manages[u] \cap Reached, Promised(b, u)
      PROVE  Promised(b, u)'
  <2>0. b \in Budgets
    BY DEF Reached, Live
  <2>1. CASE Read(k, b)
    <3>1. b \in DOMAIN k.rows /\ k.rows[b] = budget[b]
      BY <2>1 DEF Read
    <3>2. Spent(k.rows[b], expense, found) = Spent(budget[b], expense, Rows)
      <4> PICK rows : rows = k.rows
        OBVIOUS
      <4>1. b \in DOMAIN rows
        BY <3>1
      <4>2. Spent(rows[b], expense, Prefetched(DOMAIN rows, rows, expense, Rows)) = Spent(rows[b], expense, Rows)
        BY <4>1, CountedAlike
      <4> QED BY <3>1, <4>2
    <3>3. ThresholdReached(budget[b], Spent(budget[b], expense, Rows))
      BY DEF Reached, SpentNow
    <3>4. b \in over
      BY <3>1, <3>2, <3>3
    <3>5. Pair(b, u) \in todo
      BY <3>4 DEF Pair
    <3> QED BY <1>1, <1>3, <3>5 DEF Promised
  <2>2. CASE ~Read(k, b)
    BY <1>0, <1>1, <1>4, <2>0, <2>2, PromiseHeld
  <2> QED BY <2>1, <2>2
<1> QED BY <1>1, <1>4, CheckAnnounced

(* A check goes to a pair, or passes over one that has a row. *)
LEMMA LookAnnounced == ASSUME CrossInv, NEW k \in running, NEW bu \in k.todo, Look(k, bu) PROVE Announced'
<1>0. Check(k) /\ k.phase = "tell" /\ k.at = None
  BY DEF CrossInv, CostInv, OnceInv, Look
<1>1. /\ budget' = budget /\ expense' = expense /\ unannounced' = unannounced /\ crashes' = crashes
      /\ lost' = lost /\ inbox' = inbox /\ pending' = pending /\ running \ {k} \subseteq running'
  BY DEF Look, expenseVars, budgetVars
<1>2. bu \in Budgets \X Users
  BY <1>0 DEF Check
<1>3. CASE inbox[bu] = 0
  <2> PICK j : j = AtPair(k, bu)
    OBVIOUS
  <2>1. j \in running'
    BY <1>3 DEF Look, AtPair
  <2>2. j.todo = k.todo
    BY <1>0, CheckAt
  <2>3. j.phase = "tell"
    <3> PICK rows, set : rows = k.rows /\ set = Budgets \X Users
      OBVIOUS
    <3>1. k \in [about : {k.about}, rows : {rows}, phase : {"read", "tell"},
                 todo : SUBSET set, at : {k.at}]
      BY <1>0 DEF Check
    <3> QED BY <1>0, <3>1 DEF AtPair
  <2>4. ASSUME NEW u \in Users, NEW b \in Manages[u] \cap Reached, Promised(b, u)
        PROVE  Promised(b, u)'
    <3>1. b \in Budgets /\ ~Read(k, b)
      BY <1>0 DEF Reached, Live, Read
    <3>2. CASE Pair(b, u) \in k.todo
      BY <2>1, <2>2, <2>3, <3>2 DEF Promised
    <3>3. CASE Pair(b, u) \notin k.todo
      BY <1>1, <2>4, <3>1, <3>3, PromiseHeld
    <3> QED BY <3>2, <3>3
  <2> QED BY <1>1, <2>4, CheckAnnounced
<1>4. CASE inbox[bu] # 0
  <2> PICK j : j = [k EXCEPT !.todo = @ \ {bu}]
    OBVIOUS
  <2>1. k.todo # {bu} => j \in running'
    BY <1>4 DEF Look
  <2>2. j.todo = k.todo \ {bu} /\ j.phase = "tell"
    <3> PICK rows, set : rows = k.rows /\ set = Budgets \X Users
      OBVIOUS
    <3>1. k \in [about : {k.about}, rows : {rows}, phase : {"read", "tell"},
                 todo : SUBSET set, at : {k.at}]
      BY <1>0 DEF Check
    <3> QED BY <1>0, <3>1
  <2>3. inbox[bu] > 0
    BY <1>2, <1>4 DEF CrossInv, CostInv, OnceInv
  <2>4. ASSUME NEW u \in Users, NEW b \in Manages[u] \cap Reached, Promised(b, u)
        PROVE  Promised(b, u)'
    <3>1. b \in Budgets /\ ~Read(k, b)
      BY <1>0 DEF Reached, Live, Read
    <3>2. CASE Pair(b, u) = bu
      BY <1>1, <2>3, <3>2 DEF Promised
    <3>3. CASE Pair(b, u) \in k.todo /\ Pair(b, u) # bu
      BY <2>1, <2>2, <3>3 DEF Promised
    <3>4. CASE Pair(b, u) \notin k.todo
      BY <1>1, <2>4, <3>1, <3>4, PromiseHeld
    <3> QED BY <3>2, <3>3, <3>4
  <2> QED BY <1>1, <2>4, CheckAnnounced
<1> QED BY <1>3, <1>4

(* A row is added for the pair the check is at. *)
LEMMA TellAnnounced == ASSUME CrossInv, NEW k \in running, Tell(k) PROVE Announced'
<1> PICK at, rest, j : at = k.at /\ rest = k.todo \ {at} /\ j = Passing(k, rest)
  OBVIOUS
<1>0. /\ Check(k) /\ k.phase = "tell" /\ at # None /\ at \in k.todo /\ at \in Budgets \X Users
      /\ inbox \in [Budgets \X Users -> Nat]
  BY DEF CrossInv, CostInv, OnceInv, Tell, Check
<1>1. /\ budget' = budget /\ expense' = expense /\ unannounced' = unannounced /\ crashes' = crashes
      /\ lost' = lost /\ pending' = pending /\ running \ {k} \subseteq running'
      /\ inbox' = [inbox EXCEPT ![at] = @ + 1]
  BY DEF Tell, expenseVars, budgetVars
<1>2. /\ inbox'[at] = inbox[at] + 1 /\ inbox[at] \in Nat
      /\ \A bu \in Budgets \X Users : bu # at => inbox'[bu] = inbox[bu]
  BY <1>0, <1>1
<1>3. rest # {} => j \in running'
  BY <1>0 DEF Tell, Passing
<1>4. j.todo = rest /\ j.phase = "tell"
  <2>1. rest \in SUBSET k.todo
    OBVIOUS
  <2>2. j.todo = rest
    BY <1>0, <2>1, CheckGoes
  <2>3. j.phase = "tell"
    <3> PICK rows, set : rows = k.rows /\ set = Budgets \X Users
      OBVIOUS
    <3>1. k \in [about : {k.about}, rows : {rows}, phase : {"read", "tell"},
                 todo : SUBSET set, at : {k.at}]
      BY <1>0 DEF Check
    <3> QED BY <1>0, <3>1 DEF Passing
  <2> QED BY <2>2, <2>3
<1>5. ASSUME NEW u \in Users, NEW b \in Manages[u] \cap Reached, Promised(b, u)
      PROVE  Promised(b, u)'
  <2>1. b \in Budgets /\ ~Read(k, b) /\ Pair(b, u) \in Budgets \X Users
    BY <1>0 DEF Reached, Live, Read, Pair
  <2>2. CASE Pair(b, u) = at
    BY <1>2, <2>2 DEF Promised
  <2>3. CASE Pair(b, u) \in rest
    BY <1>3, <1>4, <2>3 DEF Promised
  <2>4. CASE Pair(b, u) \notin k.todo
    <3>1. inbox[Pair(b, u)] > 0 => inbox'[Pair(b, u)] > 0
      BY <1>0, <1>2, <2>1, <2>4
    <3> QED BY <1>1, <1>5, <2>1, <2>4, <3>1, PromiseHeld
  <2> QED BY <2>2, <2>3, <2>4
<1> QED BY <1>1, <1>5, CheckAnnounced

(* Every step keeps what is promised. *)
LEMMA StepCross == ASSUME CrossInv, [Next]_vars PROVE CrossInv'
<1>1. CostInv'
  BY StepExpenseInv, BudgetStepTypes, StepOnce, RestTypes DEF CrossInv, CostInv
<1>2. Scoped'
  BY StepScoped DEF CrossInv, CostInv
<1>3. ASSUME ExpenseStep PROVE Announced'
  BY <1>1, <1>3, ExpenseAnnounced
<1>4. ASSUME BudgetStep PROVE Announced'
  BY <1>1, <1>2, <1>4, BudgetAnnounced DEF CostInv
<1>5. ASSUME NEW k \in running, LoseCheck(k) PROVE Announced'
  <2>1. lost' = lost + 1 /\ lost \in Nat
    <3>1. lost' = lost + 1
      BY <1>5 DEF LoseCheck
    <3>2. lost \in 0..MaxLost
      BY DEF CrossInv, CostInv
    <3> QED BY <3>1, <3>2, LostAssumption
  <2> QED BY <2>1 DEF Announced
<1>6. ASSUME UNCHANGED vars PROVE Announced'
  <2>1. /\ expense' = expense /\ budget' = budget /\ unannounced' = unannounced /\ crashes' = crashes
        /\ lost' = lost /\ inbox' = inbox /\ running' = running /\ pending' = pending
    BY <1>6 DEF vars, expenseVars, budgetVars, checkVars
  <2>2. Live' = Live
    BY <2>1, ReachedSame
  <2>3. ASSUME NEW u \in Users, NEW b \in Manages[u] \cap Reached, Promised(b, u)
        PROVE  Promised(b, u)'
    BY <2>1, <2>2, <2>3 DEF Promised, Read
  <2> QED BY <2>1, <2>3, CheckAnnounced
<1>7. Announced'
  BY <1>3, <1>4, <1>5, <1>6, BeginAnnounced, ReadAnnounced, LookAnnounced, TellAnnounced DEF Next
<1> QED BY <1>1, <1>2, <1>7 DEF CrossInv

(* Once no check is left, a budget at its threshold has been announced to those
   who manage it, except where no check was set off, or one was lost or went by an
   old row (expenses.service.ts:30-34). *)
THEOREM CrossingAnnouncedHolds == Spec => []CrossingAnnounced
<1>1. Init => CrossInv
  <2> SUFFICES ASSUME Init PROVE CrossInv
    OBVIOUS
  <2>1. CostInv
    BY InitCostInv
  <2>2. Scoped
    <3> SUFFICES ASSUME NEW b \in Live PROVE Scope(budget[b]) = Scope(Drafts[b])
      BY DEF Scoped
    <3>1. budget[b] = Row(b, Existing[b].amount, Existing[b].parent)
      BY DEF Init, BudgetInit, Live
    <3> QED BY <3>1 DEF Scope, Row
  <2> QED BY <2>1, <2>2 DEF Init, Announced, CrossInv
<1>2. CrossInv => CrossingAnnounced
  <2> SUFFICES ASSUME CrossInv, pending = {}, running = {}, lost = 0, crashes = 0,
                      NEW b \in Reached \ unannounced, NEW u \in Users, b \in Manages[u]
               PROVE  inbox[b, u] > 0
    BY DEF CrossingAnnounced
  <2>1. Promised(b, u)
    BY DEF CrossInv, Announced
  <2> QED BY <2>1 DEF Promised, Pair
<1> QED BY <1>1, <1>2, StepCross, PTL DEF Spec
=============================================================================
