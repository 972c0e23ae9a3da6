--------------------------- MODULE ContestProofs ---------------------------
(***************************************************************************)
(* Theorems about Contest for every set of contests, users and keys.       *)
(*                                                                         *)
(* First the settlement engine, for every list of entrants: its sums, its  *)
(* ranking, and what it promises a placement.  Then the service.  Its      *)
(* escrow holds exactly the stakes of the active participants until the    *)
(* contest ends, and nothing afterwards; that is not inductive alone, for  *)
(* it needs to know that a contest has a definition and no entrants before *)
(* it opens, and that the amounts in the journal are whole numbers, which  *)
(* a void adds back (IInv).  What the journal says of stakes, withdrawals  *)
(* and voids rests on every active participant pointing at a line nobody   *)
(* else points at (JournalInv), the closing of the books on what has been  *)
(* posted so far while a contest runs (BooksInv), and the refinement of    *)
(* StakePot on the names of the entries (EntriesAreNamed).                 *)
(***************************************************************************)
EXTENDS ContestPot, FiniteSetTheorems, TLAPS

-----------------------------------------------------------------------------
(* Induction, over the subsets of a finite set and over the numbers: what  *)
(* is to be shown of each is given as the set of those it holds for.       *)

\* What holds of the empty set, and of a set when it holds of the set without
\* any one of its elements, holds of every subset of a finite set.
LEMMA SetInduction ==
  ASSUME NEW S, IsFiniteSet(S), NEW Good, {} \in Good,
         \A s \in SUBSET S : s # {} /\ (\A x \in s : s \ {x} \in Good) => s \in Good
  PROVE  SUBSET S \subseteq Good
<1> DEFINE Bad == (SUBSET S) \ Good
<1> SUFFICES ASSUME Bad # {} PROVE FALSE
  OBVIOUS
<1>1. IsWellFoundedOn(StrictSubsetOrdering(S), SUBSET S)
  BY FS_StrictSubsetOrderingWellFounded, FS_FiniteSubsetsOfFinite
<1>2. PICK s \in Bad : \A u \in Bad : <<u, s>> \notin StrictSubsetOrdering(S)
  <2>1. Bad \subseteq SUBSET S
    OBVIOUS
  <2> HIDE DEF Bad
  <2> QED
    BY <1>1, <2>1, WFMin
<1>3. ASSUME NEW x \in s PROVE s \ {x} \in Good
  <2>1. s \ {x} \in SUBSET S /\ s \in SUBSET S /\ s \ {x} # s
    BY <1>2
  <2> QED
    BY <1>2, <2>1 DEF StrictSubsetOrdering
<1>4. s # {} /\ s \in SUBSET S /\ s \notin Good
  <2>1. s \in SUBSET S /\ s \notin Good
    BY <1>2
  <2> QED
    BY <2>1, Zenon
<1>5. s \in Good
  BY <1>3, <1>4
<1> QED
  BY <1>4, <1>5

\* What holds of zero, and of the successor of every number it holds of, holds
\* of every number.
LEMMA NumberInduction ==
  ASSUME NEW Good, 0 \in Good, \A n \in Nat : n \in Good => n + 1 \in Good
  PROVE  Nat \subseteq Good
<1> DEFINE Bad == Nat \ Good
<1> SUFFICES ASSUME Bad # {} PROVE FALSE
  OBVIOUS
<1>1. PICK n \in Bad : \A m \in Bad : <<m, n>> \notin OpToRel(<, Nat)
  <2>1. Bad \subseteq Nat
    OBVIOUS
  <2> HIDE DEF Bad
  <2> QED
    BY <2>1, NatLessThanWellFounded, WFMin
<1>2. n \in Nat /\ n # 0
  BY <1>1
<1>3. n - 1 \in Nat /\ n - 1 < n
  BY <1>2
<1>4. n - 1 \in Good
  BY <1>1, <1>2, <1>3 DEF OpToRel
<1>5. (n - 1) + 1 \in Good
  BY <1>3, <1>4
<1>6. (n - 1) + 1 = n
  BY <1>2
<1> QED
  BY <1>1, <1>5, <1>6

-----------------------------------------------------------------------------
(* Sums.  The fold of Functions is the function that every removal of an   *)
(* element takes the element's value from.                                 *)

SumsOver(g, f, S) ==
  /\ g \in [SUBSET S -> Int]
  /\ g[{}] = 0
  /\ \A s \in SUBSET S : \A x \in s : g[s] = f[x] + g[s \ {x}]

\* Such a function exists: the order in which elements are removed does not
\* matter.
LEMMA SumsExist ==
  ASSUME NEW S, IsFiniteSet(S), NEW f, \A x \in S : f[x] \in Int
  PROVE  \E g : SumsOver(g, f, S)
<1> DEFINE Good == {T \in SUBSET S : \E g : SumsOver(g, f, T)}
<1>1. {} \in Good
  <2> DEFINE g == [s \in SUBSET {} |-> 0]
  <2>1. SumsOver(g, f, {})
    BY DEF SumsOver
  <2> QED
    BY <2>1
<1>2. ASSUME NEW T \in SUBSET S, T # {}, \A x \in T : T \ {x} \in Good PROVE T \in Good
  <2>0. PICK x \in T : T \ {x} \in Good
    BY <1>2
  <2> DEFINE R == T \ {x}
  <2>1. PICK h : SumsOver(h, f, R)
    BY <2>0
  <2> DEFINE g == [s \in SUBSET T |-> IF x \in s THEN f[x] + h[s \ {x}] ELSE h[s]]
  <2>2. DOMAIN g = SUBSET T /\ g = [s \in SUBSET T |-> g[s]] /\ g[{}] = 0
    BY <2>1 DEF SumsOver
  <2>3. ASSUME NEW s \in SUBSET T PROVE g[s] \in Int
    BY <1>2, <2>1 DEF SumsOver
  <2>4. ASSUME NEW s \in SUBSET T, NEW y \in s PROVE g[s] = f[y] + g[s \ {y}]
    <3>0. f[x] \in Int /\ f[y] \in Int
      OBVIOUS
    <3>1. CASE x \notin s
      BY <3>1, <2>1 DEF SumsOver
    <3>2. CASE y = x
      BY <3>2
    <3>3. CASE x \in s /\ y # x
      <4>1. g[s] = f[x] + h[s \ {x}] /\ g[s \ {y}] = f[x] + h[(s \ {y}) \ {x}]
        BY <3>3
      <4>2. (s \ {y}) \ {x} = (s \ {x}) \ {y} /\ s \ {x} \in SUBSET R /\ y \in s \ {x}
        BY <3>3
      <4>3. h[s \ {x}] = f[y] + h[(s \ {x}) \ {y}] /\ h[(s \ {x}) \ {y}] \in Int
        BY <2>1, <4>2 DEF SumsOver
      <4>4. g[s \ {y}] = f[x] + h[(s \ {x}) \ {y}]
        BY <4>1, <4>2
      <4> HIDE DEF g, R
      <4> QED
        BY <3>0, <4>1, <4>3, <4>4
    <3> QED
      BY <3>1, <3>2, <3>3
  <2> HIDE DEF g
  <2>5. SumsOver(g, f, T)
    BY <2>2, <2>3, <2>4 DEF SumsOver
  <2> QED
    BY <2>5
<1>3. SUBSET S \subseteq Good
  <2> HIDE DEF Good
  <2> QED
    BY <1>1, <1>2, SetInduction
<1> QED
  BY <1>3

\* The fold is the value of that function.
LEMMA SumIsTheSum ==
  ASSUME NEW S, IsFiniteSet(S), NEW f, NEW g, SumsOver(g, f, S)
  PROVE  SumFunctionOnSet(f, S) = g[S]
<1> DEFINE Pick(s) == CHOOSE x \in s : TRUE
           Body(i) == [s \in SUBSET S |-> IF s = {} THEN 0 ELSE f[Pick(s)] + i[s \ {Pick(s)}]]
<1>1. g = Body(g)
  <2>1. ASSUME NEW s \in SUBSET S, s # {} PROVE Pick(s) \in s
    BY <2>1
  <2>2. \A s \in SUBSET S : g[s] = Body(g)[s]
    BY <2>1 DEF SumsOver
  <2>3. DOMAIN g = SUBSET S /\ g = [s \in SUBSET S |-> g[s]]
    BY DEF SumsOver
  <2> QED
    BY <2>2, <2>3
<1>2. ASSUME NEW h, h = Body(h) PROVE h = g
  <2> DEFINE Good == {s \in SUBSET S : h[s] = g[s]}
  <2>1. {} \in Good
    BY <1>1, <1>2
  <2>2. ASSUME NEW s \in SUBSET S, s # {}, \A x \in s : s \ {x} \in Good PROVE s \in Good
    <3>1. h[s \ {Pick(s)}] = g[s \ {Pick(s)}]
      BY <2>2
    <3>2. h[s] = f[Pick(s)] + h[s \ {Pick(s)}] /\ g[s] = f[Pick(s)] + g[s \ {Pick(s)}]
      BY <1>1, <1>2, <2>2
    <3> QED
      BY <3>1, <3>2
  <2>3. SUBSET S \subseteq Good
    <3> HIDE DEF Good
    <3> QED
      BY <2>1, <2>2, SetInduction
  <2>4. h = [s \in SUBSET S |-> h[s]] /\ g = [s \in SUBSET S |-> g[s]]
    BY <1>1, <1>2
  <2> QED
    BY <2>3, <2>4
<1>3. (CHOOSE i : i = Body(i)) = g
  BY <1>1, <1>2
<1>4. SumFunctionOnSet(f, S) = (CHOOSE i : i = Body(i))[S]
  BY Zenon DEF SumFunctionOnSet, FoldFunctionOnSet, MapThenFoldSet
<1> QED
  BY <1>3, <1>4


\* Taking one element out of a sum.
LEMMA SumRemove ==
  ASSUME NEW S, IsFiniteSet(S), NEW f, \A x \in S : f[x] \in Int, NEW x \in S
  PROVE  /\ SumFunctionOnSet(f, S \ {x}) \in Int
         /\ SumFunctionOnSet(f, S) = f[x] + SumFunctionOnSet(f, S \ {x})
<1>1. PICK g : SumsOver(g, f, S)
  BY SumsExist
<1> DEFINE R == S \ {x}
           h == [s \in SUBSET R |-> g[s]]
<1>2. SumsOver(h, f, R)
  BY <1>1 DEF SumsOver
<1>3. IsFiniteSet(R)
  BY FS_Subset
<1>4. SumFunctionOnSet(f, R) = h[R]
  BY <1>2, <1>3, SumIsTheSum
<1>5. SumFunctionOnSet(f, S) = g[S]
  BY <1>1, SumIsTheSum
<1> QED
  BY <1>1, <1>4, <1>5 DEF SumsOver

\* An empty sum is zero.
LEMMA SumEmpty == ASSUME NEW f PROVE SumFunctionOnSet(f, {}) = 0
<1> DEFINE g == [s \in SUBSET {} |-> 0]
<1>1. SumsOver(g, f, {})
  BY DEF SumsOver
<1> QED
  BY <1>1, SumIsTheSum, FS_EmptySet

\* Sums of whole numbers are whole.
LEMMA SumInt ==
  ASSUME NEW S, IsFiniteSet(S), NEW f, \A x \in S : f[x] \in Int
  PROVE  SumFunctionOnSet(f, S) \in Int
<1>1. CASE S = {}
  BY <1>1, SumEmpty
<1>2. CASE S # {}
  <2>1. PICK x \in S : TRUE
    BY <1>2
  <2>2. /\ SumFunctionOnSet(f, S \ {x}) \in Int
        /\ SumFunctionOnSet(f, S) = f[x] + SumFunctionOnSet(f, S \ {x})
    BY <2>1, SumRemove
  <2>3. f[x] \in Int
    BY <2>1
  <2> QED
    BY <2>2, <2>3
<1> QED
  BY <1>1, <1>2

\* Sums follow a bound on every element.
LEMMA SumBounded ==
  ASSUME NEW S, IsFiniteSet(S), NEW f, NEW g,
         \A x \in S : f[x] \in Int /\ g[x] \in Int /\ f[x] <= g[x]
  PROVE  SumFunctionOnSet(f, S) <= SumFunctionOnSet(g, S)
<1> DEFINE Good == {s \in SUBSET S : SumFunctionOnSet(f, s) <= SumFunctionOnSet(g, s)}
<1>1. {} \in Good
  BY SumEmpty
<1>2. ASSUME NEW s \in SUBSET S, s # {}, \A x \in s : s \ {x} \in Good PROVE s \in Good
  <2>1. PICK x \in s : TRUE
    BY <1>2
  <2>2. IsFiniteSet(s)
    BY FS_Subset
  <2>3. /\ SumFunctionOnSet(f, s) = f[x] + SumFunctionOnSet(f, s \ {x})
        /\ SumFunctionOnSet(g, s) = g[x] + SumFunctionOnSet(g, s \ {x})
        /\ SumFunctionOnSet(f, s \ {x}) \in Int /\ SumFunctionOnSet(g, s \ {x}) \in Int
    BY <2>1, <2>2, SumRemove
  <2>4. SumFunctionOnSet(f, s \ {x}) <= SumFunctionOnSet(g, s \ {x})
    BY <1>2, <2>1
  <2>5. f[x] \in Int /\ g[x] \in Int /\ f[x] <= g[x]
    BY <2>1
  <2> QED
    BY <2>3, <2>4, <2>5
<1>3. SUBSET S \subseteq Good
  <2> HIDE DEF Good
  <2> QED
    BY <1>1, <1>2, SetInduction
<1> QED
  BY <1>3

\* Sums of functions that agree are equal.
LEMMA SumAgree ==
  ASSUME NEW S, IsFiniteSet(S), NEW f, NEW g, \A x \in S : f[x] \in Int /\ g[x] = f[x]
  PROVE  SumFunctionOnSet(f, S) = SumFunctionOnSet(g, S)
<1>1. SumFunctionOnSet(f, S) <= SumFunctionOnSet(g, S) /\ SumFunctionOnSet(g, S) <= SumFunctionOnSet(f, S)
  BY SumBounded
<1>2. SumFunctionOnSet(f, S) \in Int /\ SumFunctionOnSet(g, S) \in Int
  BY SumInt
<1> QED
  BY <1>1, <1>2

\* Sums add up element by element.
LEMMA SumAdds ==
  ASSUME NEW S, IsFiniteSet(S), NEW f, NEW g, NEW h,
         \A x \in S : f[x] \in Int /\ g[x] \in Int /\ h[x] = f[x] + g[x]
  PROVE  SumFunctionOnSet(h, S) = SumFunctionOnSet(f, S) + SumFunctionOnSet(g, S)
<1> DEFINE b == [s \in SUBSET S |-> SumFunctionOnSet(f, s) + SumFunctionOnSet(g, s)]
<1>1. ASSUME NEW s \in SUBSET S
      PROVE  /\ SumFunctionOnSet(f, s) \in Int /\ SumFunctionOnSet(g, s) \in Int
             /\ \A x \in s : /\ SumFunctionOnSet(f, s) = f[x] + SumFunctionOnSet(f, s \ {x})
                             /\ SumFunctionOnSet(g, s) = g[x] + SumFunctionOnSet(g, s \ {x})
  BY FS_Subset, SumInt, SumRemove
<1>2. b \in [SUBSET S -> Int] /\ b[{}] = 0
  BY <1>1, SumEmpty
<1>3. ASSUME NEW s \in SUBSET S, NEW x \in s PROVE b[s] = h[x] + b[s \ {x}]
  <2>1. s \ {x} \in SUBSET S /\ h[x] = f[x] + g[x] /\ f[x] \in Int /\ g[x] \in Int
    OBVIOUS
  <2>2. /\ SumFunctionOnSet(f, s \ {x}) \in Int /\ SumFunctionOnSet(g, s \ {x}) \in Int
        /\ SumFunctionOnSet(f, s) = f[x] + SumFunctionOnSet(f, s \ {x})
        /\ SumFunctionOnSet(g, s) = g[x] + SumFunctionOnSet(g, s \ {x})
    BY <1>1, <2>1
  <2> QED
    BY <2>1, <2>2
<1>4. SumsOver(b, h, S)
  BY <1>2, <1>3 DEF SumsOver
<1> QED
  BY <1>4, SumIsTheSum

\* The sum over two sets without a common element.
LEMMA SumDisjoint ==
  ASSUME NEW S, NEW T, IsFiniteSet(S), IsFiniteSet(T), S \cap T = {},
         NEW f, \A x \in S \cup T : f[x] \in Int
  PROVE  SumFunctionOnSet(f, S \cup T) = SumFunctionOnSet(f, S) + SumFunctionOnSet(f, T)
<1> DEFINE b == [t \in SUBSET T |-> SumFunctionOnSet(f, S \cup t) - SumFunctionOnSet(f, S)]
<1>1. SumFunctionOnSet(f, S) \in Int
  BY SumInt
<1>2. ASSUME NEW t \in SUBSET T
      PROVE  /\ SumFunctionOnSet(f, S \cup t) \in Int
             /\ \A x \in t : SumFunctionOnSet(f, S \cup t) = f[x] + SumFunctionOnSet(f, S \cup (t \ {x}))
  <2>1. IsFiniteSet(S \cup t) /\ \A y \in S \cup t : f[y] \in Int
    BY FS_Subset, FS_Union
  <2>2. ASSUME NEW x \in t PROVE SumFunctionOnSet(f, S \cup t) = f[x] + SumFunctionOnSet(f, S \cup (t \ {x}))
    <3>1. (S \cup t) \ {x} = S \cup (t \ {x})
      OBVIOUS
    <3> QED
      BY <2>1, <3>1, SumRemove
  <2> QED
    BY <2>1, <2>2, SumInt
<1>3. b \in [SUBSET T -> Int] /\ b[{}] = 0
  <2>1. b \in [SUBSET T -> Int]
    BY <1>1, <1>2
  <2>2. S \cup {} = S
    OBVIOUS
  <2>3. b[{}] = SumFunctionOnSet(f, S) - SumFunctionOnSet(f, S)
    BY <2>2
  <2> HIDE DEF b
  <2> QED
    BY <1>1, <2>1, <2>3
<1>4. ASSUME NEW t \in SUBSET T, NEW x \in t PROVE b[t] = f[x] + b[t \ {x}]
  <2>1. t \ {x} \in SUBSET T /\ f[x] \in Int
    OBVIOUS
  <2>2. /\ SumFunctionOnSet(f, S \cup t) = f[x] + SumFunctionOnSet(f, S \cup (t \ {x}))
        /\ SumFunctionOnSet(f, S \cup (t \ {x})) \in Int
    BY <1>2, <2>1
  <2> QED
    BY <1>1, <2>1, <2>2
<1>5. SumsOver(b, f, T)
  BY <1>3, <1>4 DEF SumsOver
<1>6. SumFunctionOnSet(f, T) = b[T] /\ SumFunctionOnSet(f, S \cup T) \in Int
  BY <1>2, <1>5, SumIsTheSum
<1> QED
  BY <1>1, <1>6

\* A sum of zeros.
LEMMA SumOfZeros ==
  ASSUME NEW S, IsFiniteSet(S), NEW f, \A x \in S : f[x] = 0
  PROVE  SumFunctionOnSet(f, S) = 0
<1> DEFINE b == [s \in SUBSET S |-> 0]
<1>1. SumsOver(b, f, S)
  BY DEF SumsOver
<1> QED
  BY <1>1, SumIsTheSum

\* A sum of natural numbers is one.
LEMMA SumNat ==
  ASSUME NEW S, IsFiniteSet(S), NEW f, \A x \in S : f[x] \in Nat
  PROVE  SumFunctionOnSet(f, S) \in Nat
<1> DEFINE z == [x \in S |-> 0]
<1>1. SumFunctionOnSet(z, S) = 0
  BY SumOfZeros
<1>2. SumFunctionOnSet(z, S) <= SumFunctionOnSet(f, S)
  BY SumBounded
<1>3. SumFunctionOnSet(f, S) \in Int
  BY SumInt
<1> QED
  BY <1>1, <1>2, <1>3

\* The image of a finite set is finite.
LEMMA ImageIsFinite ==
  ASSUME NEW S, IsFiniteSet(S), NEW m
  PROVE  IsFiniteSet({m[x] : x \in S})
<1> DEFINE I == {m[x] : x \in S}
           e == [x \in S |-> m[x]]
<1>1. e \in Surjection(S, I)
  BY DEF Surjection
<1> HIDE DEF e, I
<1>2. IsFiniteSet(I)
  BY <1>1, FS_Surjection
<1> QED
  BY <1>2 DEF I

\* The values of f at the images of distinct elements.
LEMMA SumImage ==
  ASSUME NEW S, IsFiniteSet(S), NEW m, \A x, y \in S : m[x] = m[y] => x = y,
         NEW T, \A x \in S : m[x] \in T, \A i \in T : \E x \in S : m[x] = i,
         NEW f, NEW g, \A x \in S : f[m[x]] \in Int /\ g[x] = f[m[x]]
  PROVE  SumFunctionOnSet(g, S) = SumFunctionOnSet(f, T)
<1> DEFINE Image(s) == {m[x] : x \in s}
           b == [s \in SUBSET S |-> SumFunctionOnSet(f, Image(s))]
<1>1. ASSUME NEW s \in SUBSET S
      PROVE  /\ SumFunctionOnSet(f, Image(s)) \in Int
             /\ \A x \in s : SumFunctionOnSet(f, Image(s)) = g[x] + SumFunctionOnSet(f, Image(s \ {x}))
  <2>0. IsFiniteSet(s)
    BY FS_Subset
  <2>1. IsFiniteSet(Image(s)) /\ \A i \in Image(s) : f[i] \in Int
    BY <2>0, ImageIsFinite
  <2>2. ASSUME NEW x \in s PROVE SumFunctionOnSet(f, Image(s)) = g[x] + SumFunctionOnSet(f, Image(s \ {x}))
    <3>1. Image(s) \ {m[x]} = Image(s \ {x}) /\ m[x] \in Image(s) /\ g[x] = f[m[x]]
      OBVIOUS
    <3>2. SumFunctionOnSet(f, Image(s)) = f[m[x]] + SumFunctionOnSet(f, Image(s) \ {m[x]})
      <4> HIDE DEF Image
      <4> QED
        BY <2>1, <3>1, SumRemove
    <3> QED
      BY <3>1, <3>2
  <2> HIDE DEF Image
  <2> QED
    BY <2>1, <2>2, SumInt
<1>2. Image({}) = {}
  OBVIOUS
<1> HIDE DEF Image
<1>3. b \in [SUBSET S -> Int] /\ b[{}] = 0
  BY <1>1, <1>2, SumEmpty
<1>4. ASSUME NEW s \in SUBSET S, NEW x \in s PROVE b[s] = g[x] + b[s \ {x}]
  BY <1>1
<1>5. SumsOver(b, g, S)
  BY <1>3, <1>4 DEF SumsOver
<1>6. SumFunctionOnSet(g, S) = SumFunctionOnSet(f, Image(S))
  BY <1>5, SumIsTheSum
<1>7. Image(S) = T
  BY DEF Image
<1> QED
  BY <1>6, <1>7

-----------------------------------------------------------------------------
(* The amounts of the engine.                                              *)

\* g is the running total of f up to n.
RunningTotal(g, f, n) ==
  g[0] = 0 /\ \A i \in 1..n : f[i] \in Int /\ g[i] = g[i - 1] + f[i]

\* A running total ends with the sum.
LEMMA PrefixSum ==
  ASSUME NEW n \in Nat, NEW f, NEW g, RunningTotal(g, f, n)
  PROVE  SumFunctionOnSet(f, 1..n) = g[n]
<1>0. g[0] = 0 /\ \A i \in 1..n : f[i] \in Int /\ g[i] = g[i - 1] + f[i]
  BY DEF RunningTotal
<1> DEFINE Good == {m \in Nat : m <= n => SumFunctionOnSet(f, 1..m) = g[m]}
<1>1. 0 \in Good
  <2>1. 1..0 = {}
    OBVIOUS
  <2> QED
    BY <1>0, <2>1, SumEmpty
<1>2. ASSUME NEW m \in Nat, m \in Good PROVE m + 1 \in Good
  <2> SUFFICES ASSUME m + 1 <= n PROVE SumFunctionOnSet(f, 1..(m + 1)) = g[m + 1]
    OBVIOUS
  <2> DEFINE I == 1..(m + 1)
  <2>1. IsFiniteSet(I)
    <3>1. 1 \in Int /\ m + 1 \in Int
      OBVIOUS
    <3> QED
      BY <3>1, FS_Interval
  <2>2. /\ SumFunctionOnSet(f, I) = f[m + 1] + SumFunctionOnSet(f, 1..m)
        /\ SumFunctionOnSet(f, 1..m) \in Int
    <3>1. m + 1 \in I /\ \A i \in I : f[i] \in Int
      BY <1>0
    <3>2. I \ {m + 1} = 1..m
      OBVIOUS
    <3> HIDE DEF I
    <3>3. /\ SumFunctionOnSet(f, I) = f[m + 1] + SumFunctionOnSet(f, I \ {m + 1})
          /\ SumFunctionOnSet(f, I \ {m + 1}) \in Int
      BY <2>1, <3>1, SumRemove
    <3> QED
      BY <3>2, <3>3, Zenon
  <2>3. SumFunctionOnSet(f, 1..m) = g[m]
    BY <1>2
  <2>4. g[m + 1] = g[m] + f[m + 1] /\ f[m + 1] \in Int
    <3>1. m + 1 \in 1..n /\ (m + 1) - 1 = m
      OBVIOUS
    <3> QED
      BY <1>0, <3>1
  <2> QED
    BY <2>2, <2>3, <2>4
<1>3. Nat \subseteq Good
  <2> HIDE DEF Good
  <2> QED
    BY <1>1, <1>2, NumberInduction
<1> QED
  BY <1>3

\* A common factor.
LEMMA SumScaled ==
  ASSUME NEW S, IsFiniteSet(S), NEW c \in Int, NEW f, NEW g,
         \A x \in S : f[x] \in Int /\ g[x] = c * f[x]
  PROVE  SumFunctionOnSet(g, S) = c * SumFunctionOnSet(f, S)
<1> DEFINE b == [s \in SUBSET S |-> c * SumFunctionOnSet(f, s)]
<1>1. ASSUME NEW s \in SUBSET S
      PROVE  /\ SumFunctionOnSet(f, s) \in Int
             /\ \A x \in s : SumFunctionOnSet(f, s) = f[x] + SumFunctionOnSet(f, s \ {x})
  BY FS_Subset, SumInt, SumRemove
<1>2. b \in [SUBSET S -> Int] /\ b[{}] = 0
  BY <1>1, SumEmpty
<1>3. ASSUME NEW s \in SUBSET S, NEW x \in s PROVE b[s] = g[x] + b[s \ {x}]
  <2>1. s \ {x} \in SUBSET S /\ g[x] = c * f[x] /\ f[x] \in Int
    OBVIOUS
  <2>2. /\ SumFunctionOnSet(f, s \ {x}) \in Int
        /\ SumFunctionOnSet(f, s) = f[x] + SumFunctionOnSet(f, s \ {x})
    BY <1>1, <2>1
  <2>3. \A i, j \in Int : c * (i + j) = c * i + c * j
    OBVIOUS
  <2> QED
    BY <2>1, <2>2, <2>3
<1>4. SumsOver(b, g, S)
  BY <1>2, <1>3 DEF SumsOver
<1> QED
  BY <1>4, SumIsTheSum

\* The shares of an even split are whole and add up to what is split.
LEMMA EvenSplitPays ==
  ASSUME NEW total \in Nat, NEW n \in Nat \ {0}
  PROVE  /\ EvenSplit(total, n) \in [1..n -> Nat]
         /\ SumFunctionOnSet(EvenSplit(total, n), 1..n) = total
<1> DEFINE q == total \div n
           r == total % n
           g == [i \in 0..n |-> i * q + MinOf(i, r)]
           f == EvenSplit(total, n)
<1>1. q \in Nat /\ r \in 0..(n - 1) /\ total = n * q + r
  OBVIOUS
<1>2. f = [i \in 1..n |-> q + (IF i <= r THEN 1 ELSE 0)]
  BY DEF EvenSplit
<1> HIDE DEF q, r
<1>3. f \in [1..n -> Nat]
  BY <1>1, <1>2
<1>4. g[0] = 0
  BY <1>1 DEF MinOf
<1>5. ASSUME NEW i \in 1..n PROVE f[i] \in Int /\ g[i] = g[i - 1] + f[i]
  <2> DEFINE a == (i - 1) * q
             b == MinOf(i - 1, r)
             e == IF i <= r THEN 1 ELSE 0
  <2>1. i * q = a + q /\ a \in Int /\ b \in Int /\ e \in Int /\ MinOf(i, r) = b + e
    BY <1>1 DEF MinOf
  <2>2. g[i] = i * q + MinOf(i, r) /\ g[i - 1] = a + b
    BY <1>1
  <2>3. f[i] = q + e
    BY <1>2
  <2> HIDE DEF a, b, e, f, g
  <2> QED
    BY <1>1, <2>1, <2>2, <2>3
<1>6. g[n] = total
  BY <1>1 DEF MinOf
<1>7. SumFunctionOnSet(f, 1..n) = g[n]
  <2> HIDE DEF f, g
  <2>1. RunningTotal(g, f, n)
    BY <1>4, <1>5 DEF RunningTotal
  <2> QED
    BY <2>1, PrefixSum
<1> QED
  BY <1>3, <1>6, <1>7

\* A product is not larger than another by a common positive factor.
LEMMA ProductOrder ==
  ASSUME NEW a \in Int, NEW b \in Int, NEW c \in Nat \ {0}, c * a <= c * b
  PROVE  a <= b
<1> SUFFICES ASSUME a > b PROVE FALSE
  OBVIOUS
<1>1. PICK d \in Nat : a = b + 1 + d
  <2>1. a - b - 1 \in Nat /\ a = b + 1 + (a - b - 1)
    OBVIOUS
  <2> QED
    BY <2>1
<1>2. c * a = c * b + c + c * d
  BY <1>1
<1>3. c * b \in Int /\ c * d \in Nat
  OBVIOUS
<1> QED
  BY <1>2, <1>3

\* A quotient rounded down, times its divisor.
LEMMA QuotientBounds ==
  ASSUME NEW a \in Nat, NEW b \in Nat \ {0}
  PROVE  a \div b \in Nat /\ b * (a \div b) \in Nat /\ b * (a \div b) <= a /\ a <= b * (a \div b) + b
<1> DEFINE q == a \div b
           r == a % b
<1>1. q \in Nat /\ r \in 0..(b - 1) /\ a = b * q + r
  OBVIOUS
<1> HIDE DEF q, r
<1>2. b * q \in Nat
  BY <1>1
<1>3. b * q <= a /\ a <= b * q + b
  BY <1>1, <1>2
<1> QED
  BY <1>1, <1>2, <1>3 DEF q

\* Flooring the exact shares leaves at most one unit a slot.
LEMMA FloorsLeaveFew ==
  ASSUME NEW pool \in Nat, NEW m \in Nat, NEW weights \in [1..m -> Nat], NEW total \in Nat \ {0},
         total = SumFunctionOnSet(weights, 1..m),
         NEW floors, \A i \in 1..m : floors[i] = (pool * weights[i]) \div total
  PROVE  /\ \A i \in 1..m : floors[i] \in Nat
         /\ pool - SumFunctionOnSet(floors, 1..m) \in 0..m
<1> DEFINE I == 1..m
           low == [i \in I |-> total * floors[i]]
           exact == [i \in I |-> pool * weights[i]]
           high == [i \in I |-> low[i] + total]
           every == [i \in I |-> total]
<1>1. IsFiniteSet(I) /\ 1..m = I
  BY FS_Interval
<1>2. ASSUME NEW i \in I
      PROVE  /\ floors[i] \in Nat /\ floors[i] \in Int
             /\ low[i] = total * floors[i] /\ low[i] \in Int
             /\ exact[i] = pool * weights[i] /\ exact[i] \in Int
             /\ high[i] = low[i] + total /\ high[i] \in Int
             /\ low[i] <= exact[i] /\ exact[i] <= high[i]
  <2> DEFINE p == pool * weights[i]
             q == p \div total
  <2>1. weights[i] \in Nat /\ p \in Nat
    OBVIOUS
  <2>2. floors[i] = q /\ low[i] = total * floors[i] /\ exact[i] = p /\ high[i] = low[i] + total
    OBVIOUS
  <2>3. q \in Nat /\ total * q \in Nat /\ total * q <= p /\ p <= total * q + total
    <3> HIDE DEF p
    <3> QED
      BY <2>1, QuotientBounds
  <2> HIDE DEF p, q, low, exact, high
  <2>4. exact[i] = pool * weights[i]
    BY <2>2 DEF p
  <2> QED
    BY <2>1, <2>2, <2>3, <2>4
<1> DEFINE F == SumFunctionOnSet(floors, I)
<1> HIDE DEF low, exact, high
<1>3. F \in Int
  <2>1. \A i \in I : floors[i] \in Int
    BY <1>2
  <2> HIDE DEF I
  <2> QED
    BY <1>1, <2>1, SumInt
<1>4. SumFunctionOnSet(low, I) = total * F
  <2>1. \A i \in I : floors[i] \in Int /\ low[i] = total * floors[i]
    BY <1>2
  <2>2. total \in Int
    OBVIOUS
  <2>3. IsFiniteSet(I)
    BY <1>1
  <2> HIDE DEF I, F
  <2>4. SumFunctionOnSet(low, I) = total * SumFunctionOnSet(floors, I)
    BY ONLY <2>1, <2>2, <2>3, SumScaled
  <2> QED
    BY <2>4 DEF F
<1>5. SumFunctionOnSet(exact, I) = pool * total
  <2>1. \A i \in I : weights[i] \in Int /\ exact[i] = pool * weights[i]
    BY <1>2
  <2>2. SumFunctionOnSet(exact, I) = pool * SumFunctionOnSet(weights, I)
    <3>1. pool \in Int
      OBVIOUS
    <3> HIDE DEF I
    <3> QED
      BY <1>1, <2>1, <3>1, SumScaled
  <2> QED
    BY <2>2
<1>6. SumFunctionOnSet(every, I) = m * total
  <2> DEFINE g == [i \in 0..m |-> i * total]
  <2>1. g[0] = 0 /\ g[m] = m * total
    OBVIOUS
  <2>2. \A i \in 1..m : every[i] \in Int /\ g[i] = g[i - 1] + every[i]
    <3> TAKE i \in 1..m
    <3>1. g[i] = i * total /\ g[i - 1] = (i - 1) * total /\ every[i] = total
      OBVIOUS
    <3>2. i * total = (i - 1) * total + total
      OBVIOUS
    <3> QED
      BY <3>1, <3>2
  <2>3. SumFunctionOnSet(every, 1..m) = g[m]
    <3> HIDE DEF g, every
    <3>1. RunningTotal(g, every, m)
      BY <2>1, <2>2 DEF RunningTotal
    <3> QED
      BY <3>1, PrefixSum
  <2> QED
    BY <2>1, <2>3
<1>7. SumFunctionOnSet(high, I) = total * F + m * total
  <2>1. \A i \in I : low[i] \in Int /\ every[i] \in Int /\ high[i] = low[i] + every[i]
    BY <1>2
  <2>2. SumFunctionOnSet(high, I) = SumFunctionOnSet(low, I) + SumFunctionOnSet(every, I)
    <3> HIDE DEF I, every
    <3> QED
      BY <1>1, <2>1, SumAdds
  <2> QED
    BY <1>4, <1>6, <2>2
<1>8. total * F <= pool * total
  <2>1. SumFunctionOnSet(low, I) <= SumFunctionOnSet(exact, I)
    <3> HIDE DEF I
    <3> QED
      BY <1>1, <1>2, SumBounded
  <2> QED
    BY <1>4, <1>5, <2>1
<1>9. pool * total <= total * F + m * total
  <2>1. SumFunctionOnSet(exact, I) <= SumFunctionOnSet(high, I)
    <3> HIDE DEF I
    <3> QED
      BY <1>1, <1>2, SumBounded
  <2> QED
    BY <1>5, <1>7, <2>1
<1> HIDE DEF F
<1>10. F <= pool
  <2>1. total * F <= total * pool
    BY <1>3, <1>8
  <2>2. pool \in Int /\ F + m \in Int
    BY <1>3
  <2> QED
    BY <1>3, <2>1, <2>2, ProductOrder
<1>11. pool <= F + m
  <2>1. total * pool <= total * (F + m)
    BY <1>3, <1>9
  <2>2. pool \in Int /\ F + m \in Int
    BY <1>3
  <2> QED
    BY <1>3, <2>1, <2>2, ProductOrder
<1> QED
  BY <1>2, <1>3, <1>10, <1>11 DEF F

\* One unit for each of the first slots.
LEMMA UnitsToTheFirst ==
  ASSUME NEW m \in Nat, NEW left \in 0..m, NEW f, \A i \in 1..m : f[i] = IF i <= left THEN 1 ELSE 0
  PROVE  SumFunctionOnSet(f, 1..m) = left
<1> DEFINE g == [i \in 0..m |-> MinOf(i, left)]
<1>1. g[0] = 0 /\ g[m] = left
  BY DEF MinOf
<1>2. \A i \in 1..m : f[i] \in Int /\ g[i] = g[i - 1] + f[i]
  <2> TAKE i \in 1..m
  <2>1. g[i] = MinOf(i, left) /\ g[i - 1] = MinOf(i - 1, left) /\ f[i] = IF i <= left THEN 1 ELSE 0
    OBVIOUS
  <2> QED
    BY <2>1 DEF MinOf
<1>3. SumFunctionOnSet(f, 1..m) = g[m]
  <2> HIDE DEF g
  <2>1. RunningTotal(g, f, m)
    BY <1>1, <1>2 DEF RunningTotal
  <2> QED
    BY <2>1, PrefixSum
<1> QED
  BY <1>1, <1>3

\* The proportional split pays exactly the pool.
LEMMA ProportionalPays ==
  ASSUME NEW pool \in Nat, NEW m \in Nat \ {0}, NEW weights \in [1..m -> Nat]
  PROVE  /\ Proportional(pool, weights) \in [1..m -> Nat]
         /\ SumFunctionOnSet(Proportional(pool, weights), 1..m) = pool
<1> DEFINE I == 1..m
           total == SumFunctionOnSet(weights, I)
           floors == [i \in I |-> (pool * weights[i]) \div total]
           left == pool - SumFunctionOnSet(floors, I)
           split == Proportional(pool, weights)
<1>0. DOMAIN weights = I /\ IsFiniteSet(I)
  BY FS_Interval
<1>1. total \in Nat
  <2>1. \A i \in I : weights[i] \in Nat
    OBVIOUS
  <2> HIDE DEF I
  <2> QED
    BY <1>0, <2>1, SumNat
<1>2. split = IF total = 0 THEN [i \in I |-> IF i = 1 THEN pool ELSE 0]
              ELSE [i \in I |-> floors[i] + (IF i <= left THEN 1 ELSE 0)]
  <2>1. SumFunction(weights) = total
    BY <1>0 DEF SumFunction
  <2>2. SumFunction(floors) = SumFunctionOnSet(floors, I)
    BY DEF SumFunction
  <2> QED
    BY <1>0, <2>1, <2>2 DEF Proportional
<1>3. CASE total = 0
  <2> DEFINE g == [i \in 0..m |-> IF i = 0 THEN 0 ELSE pool]
  <2>1. split = [i \in I |-> IF i = 1 THEN pool ELSE 0]
    BY <1>2, <1>3
  <2> HIDE DEF split, total
  <2>2. g[0] = 0 /\ g[m] = pool /\ \A i \in 1..m : split[i] \in Int /\ g[i] = g[i - 1] + split[i]
    BY <2>1
  <2>3. SumFunctionOnSet(split, 1..m) = pool
    <3> HIDE DEF g
    <3>1. RunningTotal(g, split, m)
      BY <2>2 DEF RunningTotal
    <3> QED
      BY <2>2, <3>1, PrefixSum
  <2> QED
    BY <2>1, <2>3 DEF split
<1>4. CASE total # 0
  <2> DEFINE units == [i \in I |-> IF i <= left THEN 1 ELSE 0]
  <2>1. /\ \A i \in I : floors[i] \in Nat
        /\ left \in 0..m
    <3>1. total \in Nat \ {0} /\ \A i \in I : floors[i] = (pool * weights[i]) \div total
      BY <1>1, <1>4
    <3>2. total = SumFunctionOnSet(weights, 1..m)
      OBVIOUS
    <3> HIDE DEF total, floors
    <3> QED
      BY <3>1, <3>2, FloorsLeaveFew
  <2>2. split = [i \in I |-> floors[i] + units[i]]
    BY <1>2, <1>4
  <2> HIDE DEF split, total, floors
  <2>3. SumFunctionOnSet(units, I) = left
    <3> HIDE DEF left
    <3> QED
      BY <2>1, UnitsToTheFirst
  <2>4. \A i \in I : floors[i] \in Int /\ units[i] \in Int /\ split[i] = floors[i] + units[i]
    BY <2>1, <2>2
  <2>5. SumFunctionOnSet(split, I) = SumFunctionOnSet(floors, I) + SumFunctionOnSet(units, I)
    <3> HIDE DEF I, units
    <3> QED
      BY <1>0, <2>4, SumAdds
  <2>6. SumFunctionOnSet(floors, I) \in Int
    <3> HIDE DEF I
    <3> QED
      BY <1>0, <2>4, SumInt
  <2>7. SumFunctionOnSet(split, I) = pool
    BY <2>3, <2>5, <2>6
  <2>8. split \in [I -> Nat]
    BY <2>1, <2>2
  <2> QED
    BY <2>7, <2>8 DEF split
<1> QED
  BY <1>3, <1>4

\* The sum over one number more.
LEMMA SumStep ==
  ASSUME NEW i \in Nat \ {0}, NEW f, \A j \in 1..i : f[j] \in Int
  PROVE  /\ SumFunctionOnSet(f, 1..(i - 1)) \in Int
         /\ SumFunctionOnSet(f, 1..i) = f[i] + SumFunctionOnSet(f, 1..(i - 1))
<1> DEFINE I == 1..i
<1>1. IsFiniteSet(I)
  <2>1. 1 \in Int /\ i \in Int
    OBVIOUS
  <2> QED
    BY <2>1, FS_Interval
<1>2. I \ {i} = 1..(i - 1) /\ i \in I /\ \A j \in I : f[j] \in Int
  OBVIOUS
<1>3. SumFunctionOnSet(f, I \ {i}) \in Int /\ SumFunctionOnSet(f, I) = f[i] + SumFunctionOnSet(f, I \ {i})
  <2> HIDE DEF I
  <2> QED
    BY <1>1, <1>2, SumRemove
<1> QED
  BY <1>2, <1>3, Zenon

\* A pool smaller than the minimums is paid out whole, best placement first.
LEMMA BestFirstPays ==
  ASSUME NEW pool \in Nat, NEW m \in Nat, NEW minimums \in [1..m -> Nat],
         pool <= SumFunctionOnSet(minimums, 1..m)
  PROVE  /\ BestFirst(pool, minimums) \in [1..m -> Nat]
         /\ SumFunctionOnSet(BestFirst(pool, minimums), 1..m) = pool
<1> DEFINE f == BestFirst(pool, minimums)
           M(i) == SumFunctionOnSet(minimums, 1..i)
           g == [i \in 0..m |-> MinOf(pool, M(i))]
<1>1. M(0) = 0
  <2>1. 1..0 = {}
    OBVIOUS
  <2> QED
    BY <2>1, SumEmpty
<1>2. ASSUME NEW i \in 1..m PROVE M(i - 1) \in Int /\ M(i) = minimums[i] + M(i - 1) /\ minimums[i] \in Nat
  <2>1. i \in Nat \ {0} /\ \A j \in 1..i : minimums[j] \in Int
    OBVIOUS
  <2> QED
    BY <2>1, SumStep
<1>3. ASSUME NEW i \in 1..m
      PROVE  f[i] = IF pool - M(i - 1) <= 0 THEN 0 ELSE MinOf(minimums[i], pool - M(i - 1))
  BY DEF BestFirst
<1>4. f \in [1..m -> Nat]
  <2>1. DOMAIN f = 1..m /\ f = [i \in 1..m |-> f[i]]
    BY DEF BestFirst
  <2>2. ASSUME NEW i \in 1..m PROVE f[i] \in Nat
    <3> DEFINE a == M(i - 1)
               b == minimums[i]
    <3>1. a \in Int /\ b \in Nat /\ f[i] = IF pool - a <= 0 THEN 0 ELSE MinOf(b, pool - a)
      BY <1>2, <1>3
    <3> HIDE DEF a, b, f
    <3> QED
      BY <3>1 DEF MinOf
  <2> QED
    BY <2>1, <2>2
<1>5. g[0] = 0 /\ g[m] = pool
  <2>1. g[0] = MinOf(pool, M(0)) /\ g[m] = MinOf(pool, M(m))
    OBVIOUS
  <2>2. M(m) \in Int
    <3>1. IsFiniteSet(1..m)
      BY FS_Interval
    <3> QED
      BY <3>1, SumInt
  <2>3. pool <= M(m)
    OBVIOUS
  <2> HIDE DEF M, g
  <2> QED
    BY <1>1, <2>1, <2>2, <2>3 DEF MinOf
<1>6. ASSUME NEW i \in 1..m PROVE f[i] \in Int /\ g[i] = g[i - 1] + f[i]
  <2> DEFINE a == M(i - 1)
             b == minimums[i]
  <2>1. M(i) = b + a
    BY <1>2
  <2>2. g[i] = MinOf(pool, M(i)) /\ g[i - 1] = MinOf(pool, a)
    OBVIOUS
  <2>3. a \in Int /\ b \in Nat /\ f[i] = IF pool - a <= 0 THEN 0 ELSE MinOf(b, pool - a)
    BY <1>2, <1>3
  <2> HIDE DEF a, b, f, g, M
  <2>4. g[i] = MinOf(pool, b + a)
    BY <2>1, <2>2
  <2>5. CASE pool - a <= 0
    BY <2>2, <2>3, <2>4, <2>5 DEF MinOf
  <2>6. CASE ~(pool - a <= 0)
    <3>1. f[i] = MinOf(b, pool - a)
      BY <2>3, <2>6
    <3>2. MinOf(pool, a) = a
      BY <2>3, <2>6 DEF MinOf
    <3>3. f[i] \in Int /\ MinOf(pool, b + a) = a + f[i]
      BY <2>3, <2>6, <3>1 DEF MinOf
    <3> QED
      BY <2>2, <2>4, <3>2, <3>3
  <2> QED
    BY <2>5, <2>6
<1>7. SumFunctionOnSet(f, 1..m) = g[m]
  <2> HIDE DEF f, g
  <2>1. RunningTotal(g, f, m)
    BY <1>5, <1>6 DEF RunningTotal
  <2> QED
    BY <2>1, PrefixSum
<1> QED
  BY <1>4, <1>5, <1>7

\* The prizes of the slots are whole and add up to the pool.
LEMMA PrizeVectorPays ==
  ASSUME NEW structure, Structure(structure), NEW pool \in Nat, NEW slots \in Nat \ {0}
  PROVE  /\ PrizeVector(structure, pool, slots) \in [1..slots -> Nat]
         /\ SumFunctionOnSet(PrizeVector(structure, pool, slots), 1..slots) = pool
<1> DEFINE I == 1..slots
           minimums == Fit(structure.minimums, slots)
           weights == Fit(structure.weights, slots)
           guaranteed == SumFunctionOnSet(minimums, I)
           rest == Proportional(pool - guaranteed, weights)
           vector == PrizeVector(structure, pool, slots)
<1>0. IsFiniteSet(I)
  BY FS_Interval
<1>1. minimums \in [I -> Nat] /\ weights \in [I -> Nat]
  BY DEF Fit, Structure
<1>2. guaranteed \in Nat
  <2>1. \A i \in I : minimums[i] \in Nat
    BY <1>1
  <2> HIDE DEF I, minimums
  <2> QED
    BY <1>0, <2>1, SumNat
<1>3. vector = IF pool >= guaranteed THEN [i \in I |-> minimums[i] + rest[i]] ELSE BestFirst(pool, minimums)
  <2>1. SumFunction(minimums) = guaranteed
    BY DEF SumFunction, Fit
  <2> QED
    BY <2>1 DEF PrizeVector
<1> HIDE DEF minimums, weights, vector
<1>4. CASE pool >= guaranteed
  <2>1. pool - guaranteed \in Nat
    BY <1>2, <1>4
  <2>2. rest \in [I -> Nat] /\ SumFunctionOnSet(rest, I) = pool - guaranteed
    BY <1>1, <2>1, ProportionalPays
  <2> HIDE DEF rest
  <2>3. vector = [i \in I |-> minimums[i] + rest[i]]
    BY <1>3, <1>4
  <2>4. \A i \in I : minimums[i] \in Int /\ rest[i] \in Int /\ vector[i] = minimums[i] + rest[i]
    BY <1>1, <2>2, <2>3
  <2>5. SumFunctionOnSet(vector, I) = guaranteed + SumFunctionOnSet(rest, I)
    <3> HIDE DEF I
    <3> QED
      BY <1>0, <2>4, SumAdds
  <2>6. vector \in [I -> Nat]
    BY <1>1, <2>2, <2>3
  <2>7. SumFunctionOnSet(vector, I) = pool
    BY <1>2, <2>2, <2>5
  <2> QED
    BY <2>6, <2>7 DEF vector
<1>5. CASE ~(pool >= guaranteed)
  <2>1. pool <= guaranteed
    BY <1>2, <1>5
  <2>2. vector = BestFirst(pool, minimums)
    BY <1>3, <1>5
  <2>3. vector \in [I -> Nat] /\ SumFunctionOnSet(vector, I) = pool
    BY <1>1, <2>1, <2>2, BestFirstPays
  <2> QED
    BY <2>3 DEF vector
<1> QED
  BY <1>4, <1>5

-----------------------------------------------------------------------------
(* The ranking.                                                            *)

Amount(x) == x \in Int \cup {None}

\* What the engine is given: finitely many entrants, each with a score, a seed
\* and a submission instant, or without.
Entrants(entries) ==
  /\ IsFiniteSet(DOMAIN entries) /\ DOMAIN entries \subseteq Nat
  /\ \A u \in DOMAIN entries : Amount(entries[u].score) /\ Amount(entries[u].seed) /\ Amount(entries[u].submittedAt)

\* Being ahead is a strict order, and whoever is ahead of another is ahead of,
\* or behind, everyone who is level with that one.
LEMMA AheadIsAnOrder ==
  ASSUME NEW a, NEW b, NEW c, NEW rule \in TieBreaks,
         \A x \in {a, b, c} : Amount(x.score) /\ Amount(x.seed) /\ Amount(x.submittedAt)
  PROVE  /\ ~Ahead(a, a, rule)
         /\ Ahead(a, b, rule) /\ Ahead(b, c, rule) => Ahead(a, c, rule)
         /\ Ahead(a, c, rule) => Ahead(a, b, rule) \/ Ahead(b, c, rule)
<1>1. ASSUME NEW x, NEW y, NEW z, Amount(x), Amount(y), Amount(z)
      PROVE  /\ ~ScoreAhead(x, x) /\ ~KeyAhead(x, x)
             /\ ScoreAhead(x, y) /\ ScoreAhead(y, z) => ScoreAhead(x, z)
             /\ KeyAhead(x, y) /\ KeyAhead(y, z) => KeyAhead(x, z)
             /\ ScoreAhead(x, z) => ScoreAhead(x, y) \/ ScoreAhead(y, z)
             /\ KeyAhead(x, z) => KeyAhead(x, y) \/ KeyAhead(y, z)
             /\ ~ScoreAhead(x, y) /\ ~ScoreAhead(y, x) => x = y
  BY <1>1 DEF Amount, ScoreAhead, KeyAhead
<1>2. /\ ~TieKeyAhead(a, a, rule)
      /\ TieKeyAhead(a, b, rule) /\ TieKeyAhead(b, c, rule) => TieKeyAhead(a, c, rule)
      /\ TieKeyAhead(a, c, rule) => TieKeyAhead(a, b, rule) \/ TieKeyAhead(b, c, rule)
  BY <1>1 DEF TieKeyAhead, TieBreaks
<1>3. Amount(a.score) /\ Amount(b.score) /\ Amount(c.score)
  OBVIOUS
<1>4. /\ ScoreAhead(a.score, b.score) => a.score # None
      /\ ScoreAhead(b.score, c.score) => b.score # None
  BY DEF ScoreAhead
<1> QED
  BY <1>1, <1>2, <1>3, <1>4 DEF Ahead

\* Better placed is the same as ahead.
LEMMA PlacementOrders ==
  ASSUME NEW entries, Entrants(entries), NEW rule \in TieBreaks,
         NEW u \in DOMAIN entries, NEW v \in DOMAIN entries
  PROVE  /\ Placement(entries, rule, u) \in Nat
         /\ Placement(entries, rule, v) < Placement(entries, rule, u) <=> Ahead(entries[v], entries[u], rule)
<1> DEFINE A(x, y) == Ahead(entries[x], entries[y], rule)
           better(x) == {w \in DOMAIN entries : A(w, x)}
<1>1. ASSUME NEW x \in DOMAIN entries
      PROVE  /\ IsFiniteSet(better(x)) /\ Cardinality(better(x)) \in Nat
             /\ Placement(entries, rule, x) = 1 + Cardinality(better(x))
  <2>1. IsFiniteSet(better(x))
    BY FS_Subset DEF Entrants
  <2> QED
    BY <2>1, FS_CardinalityType DEF Placement
<1>2. ASSUME NEW x \in DOMAIN entries, NEW y \in DOMAIN entries, NEW w \in DOMAIN entries
      PROVE  ~A(x, x) /\ (A(x, y) /\ A(y, w) => A(x, w)) /\ (A(x, w) => A(x, y) \/ A(y, w))
  <2>1. \A e \in {entries[x], entries[y], entries[w]} : Amount(e.score) /\ Amount(e.seed) /\ Amount(e.submittedAt)
    BY DEF Entrants
  <2> QED
    BY <2>1, AheadIsAnOrder
<1> HIDE DEF A
<1>3. CASE A(v, u)
  <2>1. better(v) \subseteq better(u) /\ v \in better(u) /\ v \notin better(v)
    BY <1>2, <1>3
  <2> HIDE DEF better
  <2>2. Cardinality(better(v)) <= Cardinality(better(u)) /\ Cardinality(better(v)) # Cardinality(better(u))
    BY <1>1, <2>1, FS_Subset
  <2> QED
    BY <1>1, <1>3, <2>2 DEF A
<1>4. CASE ~A(v, u)
  <2>1. better(u) \subseteq better(v)
    BY <1>2, <1>4
  <2> HIDE DEF better
  <2>2. Cardinality(better(u)) <= Cardinality(better(v))
    BY <1>1, <2>1, FS_Subset
  <2> QED
    BY <1>1, <1>4, <2>2 DEF A
<1> QED
  BY <1>3, <1>4

\* Places given by competition ranking: one more than the number placed better.
Ranked(place, G) ==
  /\ IsFiniteSet(G) /\ G \subseteq Nat
  /\ \A u \in G : place[u] \in Nat /\ place[u] = 1 + Cardinality({v \in G : place[v] < place[u]})

\* The engine's placements are a ranking of the entrants.
LEMMA PlacementRanks ==
  ASSUME NEW entries, Entrants(entries), NEW rule \in TieBreaks,
         NEW place, \A u \in DOMAIN entries : place[u] = Placement(entries, rule, u)
  PROVE  Ranked(place, DOMAIN entries)
<1> DEFINE G == DOMAIN entries
<1>1. ASSUME NEW u \in G PROVE place[u] = 1 + Cardinality({v \in G : place[v] < place[u]})
  <2>1. \A v \in G : place[v] < place[u] <=> Ahead(entries[v], entries[u], rule)
    BY PlacementOrders
  <2>2. {v \in G : place[v] < place[u]} = {v \in G : Ahead(entries[v], entries[u], rule)}
    BY <2>1
  <2> QED
    BY <2>2 DEF Placement
<1> QED
  BY <1>1, PlacementOrders DEF Ranked, Entrants

\* The positions inside a group are the numbers up to its size.
LEMMA IndexCovers ==
  ASSUME NEW group, IsFiniteSet(group), group \subseteq Nat
  PROVE  /\ \A u \in group : IndexInGroup(group, u) \in 1..Cardinality(group)
         /\ \A u, v \in group : IndexInGroup(group, u) = IndexInGroup(group, v) => u = v
         /\ {IndexInGroup(group, u) : u \in group} = 1..Cardinality(group)
<1> DEFINE n == Cardinality(group)
           before(u) == {v \in group : v < u}
           index == [u \in group |-> IndexInGroup(group, u)]
<1>1. n \in Nat
  BY FS_CardinalityType
<1>2. ASSUME NEW u \in group
      PROVE  IsFiniteSet(before(u)) /\ Cardinality(before(u)) \in 0..(n - 1) /\ index[u] = 1 + Cardinality(before(u))
  <2>1. before(u) \subseteq group \ {u}
    <3>1. \A v \in group : v < u => v # u
      OBVIOUS
    <3> QED
      BY <3>1
  <2>4. IsFiniteSet(group \ {u}) /\ Cardinality(group \ {u}) = n - 1
    BY FS_RemoveElement
  <2>2. IsFiniteSet(before(u)) /\ Cardinality(before(u)) <= n - 1
    <3> HIDE DEF before, n
    <3> QED
      BY <2>1, <2>4, FS_Subset
  <2>3. Cardinality(before(u)) \in Nat
    BY <2>2, FS_CardinalityType
  <2> QED
    BY <1>1, <2>2, <2>3 DEF IndexInGroup
<1>3. ASSUME NEW u \in group, NEW v \in group, u < v PROVE index[u] < index[v]
  <2>1. before(u) \subseteq before(v) /\ u \in before(v) /\ u \notin before(u)
    <3>1. ~(u < u) /\ \A w \in group : w < u => w < v
      BY <1>3
    <3> QED
      BY <1>3, <3>1
  <2>2. Cardinality(before(u)) <= Cardinality(before(v)) /\ Cardinality(before(u)) # Cardinality(before(v))
    <3>1. IsFiniteSet(before(v))
      BY <1>2
    <3> HIDE DEF before
    <3> QED
      BY <2>1, <3>1, FS_Subset
  <2> HIDE DEF index, before
  <2> QED
    BY <1>2, <2>2
<1>4. index \in [group -> 1..n]
  <2>1. \A u \in group : index[u] \in 1..n
    <3> HIDE DEF index, before, n
    <3> QED
      BY <1>1, <1>2
  <2> QED
    BY <2>1
<1>5. \A u, v \in group : index[u] = index[v] => u = v
  <2> SUFFICES ASSUME NEW u \in group, NEW v \in group, u # v PROVE index[u] # index[v]
    OBVIOUS
  <2>1. index[u] \in Int /\ index[v] \in Int
    BY <1>4
  <2>2. u < v \/ v < u
    OBVIOUS
  <2> HIDE DEF index
  <2> QED
    BY <1>3, <2>1, <2>2
<1>6. index \in Surjection(group, 1..n)
  <2>1. index \in Injection(group, 1..n)
    <3> HIDE DEF index, n
    <3> QED
      BY <1>4, <1>5 DEF Injection, IsInjective
  <2>2. IsFiniteSet(1..n) /\ Cardinality(1..n) = n
    <3>1. 1 \in Int /\ n \in Int
      BY <1>1
    <3> QED
      BY <1>1, <3>1, FS_Interval
  <2> HIDE DEF index
  <2> QED
    BY <2>1, <2>2, FS_Injection
<1>7. {index[u] : u \in group} = 1..n
  BY <1>6 DEF Surjection
<1> QED
  BY <1>4, <1>5, <1>7

\* What the members of a group get by their position, from the first one of it.
LEMMA GroupSum ==
  ASSUME NEW group, IsFiniteSet(group), group \subseteq Nat, NEW k \in Nat, NEW h, NEW share,
         \A i \in (k + 1)..(k + Cardinality(group)) : h[i] \in Int,
         \A u \in group : share[u] = h[k + IndexInGroup(group, u)]
  PROVE  SumFunctionOnSet(share, group) = SumFunctionOnSet(h, (k + 1)..(k + Cardinality(group)))
<1> DEFINE n == Cardinality(group)
           m == [u \in group |-> k + IndexInGroup(group, u)]
           index(u) == IndexInGroup(group, u)
<1>1. n \in Nat
  BY FS_CardinalityType
<1>2. \A u \in group : index(u) \in 1..n
  BY IndexCovers
<1>3. \A u, v \in group : index(u) = index(v) => u = v
  BY IndexCovers
<1>4. {index(u) : u \in group} = 1..n
  BY IndexCovers
<1> HIDE DEF index, n
<1>5. \A u \in group : m[u] = k + index(u)
  BY DEF index
<1> HIDE DEF m
<1>6. \A u, v \in group : m[u] = m[v] => u = v
  BY <1>2, <1>3, <1>5
<1>7. /\ \A u \in group : m[u] \in (k + 1)..(k + n)
      /\ \A i \in (k + 1)..(k + n) : \E u \in group : m[u] = i
  <2>1. ASSUME NEW u \in group PROVE m[u] \in (k + 1)..(k + n)
    BY <1>1, <1>2, <1>5
  <2>2. ASSUME NEW i \in (k + 1)..(k + n) PROVE \E u \in group : m[u] = i
    <3>1. i - k \in 1..n
      BY <1>1
    <3>2. PICK u \in group : index(u) = i - k
      BY <1>4, <3>1
    <3>3. m[u] = i
      BY <1>5, <3>2
    <3> QED
      BY <3>3
  <2> QED
    BY <2>1, <2>2
<1>8. \A u \in group : h[m[u]] \in Int /\ share[u] = h[m[u]]
  BY <1>1, <1>2, <1>5 DEF index, n
<1>9. SumFunctionOnSet(share, group) = SumFunctionOnSet(h, (k + 1)..(k + n))
  <2> DEFINE T == (k + 1)..(k + n)
  <2>1. IsFiniteSet(group)
    OBVIOUS
  <2>2. \A x, y \in group : m[x] = m[y] => x = y
    BY <1>6
  <2>3. \A x \in group : m[x] \in T
    BY <1>7
  <2>4. \A i \in T : \E x \in group : m[x] = i
    BY <1>7
  <2>5. \A x \in group : h[m[x]] \in Int /\ share[x] = h[m[x]]
    BY <1>8
  <2> HIDE DEF T
  <2>6. SumFunctionOnSet(share, group) = SumFunctionOnSet(h, T)
    BY ONLY <2>1, <2>2, <2>3, <2>4, <2>5, SumImage
  <2> QED
    BY <2>6 DEF T
<1> QED
  BY <1>9 DEF n

\* Every group of ties gets what its positions hold.
GroupsPaid(share, h, place, G) ==
  \A u \in G :
    LET group == {v \in G : place[v] = place[u]}
    IN  SumFunctionOnSet(share, group)
          = SumFunctionOnSet(h, place[u]..(place[u] + Cardinality(group) - 1))

\* If every group of ties gets what its positions hold, all of them together
\* get what all positions hold.
LEMMA GroupsCover ==
  ASSUME NEW G, NEW place, Ranked(place, G), NEW share, NEW h,
         \A u \in G : share[u] \in Int,
         \A i \in 1..Cardinality(G) : h[i] \in Int,
         GroupsPaid(share, h, place, G)
  PROVE  SumFunctionOnSet(share, G) = SumFunctionOnSet(h, 1..Cardinality(G))
<1> DEFINE n == Cardinality(G)
           upTo(p) == {u \in G : place[u] <= p}
           at(p) == {u \in G : place[u] = p}
           sum(f, S) == SumFunctionOnSet(f, S)
           Good == {p \in Nat : sum(share, upTo(p)) = sum(h, 1..Cardinality(upTo(p)))}
           better(u) == {v \in G : place[v] < place[u]}
<1>1. IsFiniteSet(G) /\ n \in Nat
  BY FS_CardinalityType DEF Ranked
<1>2. \A u \in G : place[u] \in Nat /\ place[u] = 1 + Cardinality(better(u))
  BY DEF Ranked
<1>3. \A u \in G : place[u] \in Nat
  BY DEF Ranked
<1>4. ASSUME NEW u \in G PROVE Cardinality(better(u)) \in 0..(n - 1)
  <2>1. better(u) \subseteq G \ {u}
    <3>1. \A v \in G : place[v] < place[u] => v # u
      BY <1>3
    <3> QED
      BY <3>1
  <2>2. IsFiniteSet(G \ {u}) /\ Cardinality(G \ {u}) = n - 1
    BY <1>1, FS_RemoveElement
  <2> HIDE DEF better
  <2>3. Cardinality(better(u)) <= n - 1 /\ IsFiniteSet(better(u))
    BY <2>1, <2>2, FS_Subset
  <2>4. Cardinality(better(u)) \in Nat
    BY <2>3, FS_CardinalityType
  <2> QED
    BY <1>1, <2>3, <2>4
<1>5. ASSUME NEW p \in Nat
      PROVE  /\ IsFiniteSet(upTo(p)) /\ IsFiniteSet(at(p))
             /\ Cardinality(upTo(p)) \in 0..n /\ Cardinality(at(p)) \in Nat
  <2>1. upTo(p) \subseteq G /\ at(p) \subseteq G
    OBVIOUS
  <2> HIDE DEF upTo, at
  <2>2. IsFiniteSet(upTo(p)) /\ IsFiniteSet(at(p)) /\ Cardinality(upTo(p)) <= n
    BY <1>1, <2>1, FS_Subset
  <2>3. Cardinality(upTo(p)) \in Nat /\ Cardinality(at(p)) \in Nat
    BY <2>2, FS_CardinalityType
  <2> QED
    BY <1>1, <2>2, <2>3
<1>6. 0 \in Good
  <2>1. upTo(0) = {}
    <3>1. ASSUME NEW u \in G PROVE ~(place[u] <= 0)
      <4> HIDE DEF better
      <4> QED
        BY <1>1, <1>2, <1>4
    <3> QED
      BY <3>1
  <2>2. Cardinality(upTo(0)) = 0 /\ 1..0 = {}
    BY <2>1, FS_EmptySet
  <2>3. sum(share, upTo(0)) = 0
    BY <2>1, SumEmpty
  <2>4. sum(h, 1..Cardinality(upTo(0))) = 0
    BY <2>2, SumEmpty
  <2> QED
    BY <2>3, <2>4
<1>7. ASSUME NEW p \in Nat, sum(share, upTo(p)) = sum(h, 1..Cardinality(upTo(p)))
      PROVE  sum(share, upTo(p + 1)) = sum(h, 1..Cardinality(upTo(p + 1)))
  <2> DEFINE below == upTo(p)
             level == at(p + 1)
             k == Cardinality(below)
             s == Cardinality(level)
  <2>1. upTo(p + 1) = below \cup level /\ below \cap level = {}
    <3>1. \A u \in G : /\ place[u] <= p + 1 <=> place[u] <= p \/ place[u] = p + 1
                       /\ ~(place[u] <= p /\ place[u] = p + 1)
      BY <1>3
    <3> QED
      BY <3>1
  <2>2. IsFiniteSet(below) /\ IsFiniteSet(level) /\ k \in 0..n /\ s \in Nat /\ p + 1 \in Nat
    <3>1. p + 1 \in Nat
      OBVIOUS
    <3> HIDE DEF upTo, at
    <3> QED
      BY <1>5, <3>1
  <2>3. Cardinality(upTo(p + 1)) = k + s /\ k + s \in 0..n
    <3>1. Cardinality(below \cup level) = k + s
      <4> HIDE DEF below, level
      <4>1. Cardinality(below \cap level) = 0
        BY <2>1, FS_EmptySet
      <4>2. Cardinality(below \cup level) = Cardinality(below) + Cardinality(level) - Cardinality(below \cap level)
        BY <2>2, FS_Union
      <4> QED
        BY <2>2, <4>1, <4>2
    <3>2. Cardinality(upTo(p + 1)) \in 0..n
      <4> HIDE DEF upTo
      <4> QED
        BY <1>5, <2>2
    <3> QED
      BY <2>1, <3>1, <3>2
  <2>4. CASE level = {}
    <3>1. upTo(p + 1) = below
      BY <2>1, <2>4
    <3> HIDE DEF upTo
    <3> QED
      BY <1>7, <3>1 DEF below
  <2>5. CASE level # {}
    <3>1. PICK u \in level : TRUE
      BY <2>5
    <3>2. place[u] = p + 1 /\ u \in G
      BY <3>1
    <3>3. k = p
      <4>1. better(u) = below
        <5>1. \A v \in G : place[v] < place[u] <=> place[v] <= p
          BY <1>3, <3>2
        <5> QED
          BY <5>1
      <4> HIDE DEF better, below
      <4>2. place[u] = 1 + k
        BY <1>2, <3>2, <4>1
      <4> QED
        BY <2>2, <3>2, <4>2
    <3>4. sum(share, level) = sum(h, (k + 1)..(k + s))
      <4>1. level = {v \in G : place[v] = place[u]}
        BY <3>2
      <4>2. place[u] = k + 1 /\ place[u] + s - 1 = k + s
        BY <2>2, <3>2, <3>3
      <4>3. sum(share, level) = sum(h, place[u]..(place[u] + s - 1))
        BY <3>2, <4>1 DEF GroupsPaid
      <4> QED
        BY <4>2, <4>3
    <3>5. sum(share, below) = sum(h, 1..k)
      BY <1>7, Zenon
    <3>6. sum(share, below \cup level) = sum(share, below) + sum(share, level)
      <4>1. \A x \in below \cup level : share[x] \in Int
        OBVIOUS
      <4> HIDE DEF below, level
      <4> QED
        BY <2>1, <2>2, <4>1, SumDisjoint
    <3>7. sum(h, 1..(k + s)) = sum(h, 1..k) + sum(h, (k + 1)..(k + s))
      <4> DEFINE S == 1..k
                 T == (k + 1)..(k + s)
      <4>1. S \cup T = 1..(k + s) /\ S \cap T = {} /\ \A i \in S \cup T : h[i] \in Int
        <5> HIDE DEF k, s
        <5> QED
          BY <1>1, <2>2, <2>3
      <4>2. IsFiniteSet(S) /\ IsFiniteSet(T)
        <5>1. 1 \in Int /\ k \in Int /\ k + 1 \in Int /\ k + s \in Int
          BY <2>2
        <5> QED
          BY <5>1, FS_Interval
      <4>3. sum(h, S \cup T) = sum(h, S) + sum(h, T)
        <5> HIDE DEF S, T
        <5> QED
          BY <4>1, <4>2, SumDisjoint
      <4> QED
        BY <4>1, <4>3
    <3> HIDE DEF sum, below, level, upTo
    <3> QED
      BY <2>1, <2>3, <3>4, <3>5, <3>6, <3>7
  <2> QED
    BY <2>4, <2>5
<1>8. Nat \subseteq Good
  <2>1. \A p \in Nat : p \in Good => p + 1 \in Good
    <3> HIDE DEF sum, upTo
    <3> QED
      BY <1>7
  <2> HIDE DEF Good
  <2> QED
    BY <1>6, <2>1, NumberInduction
<1>9. upTo(n) = G
  <2>1. ASSUME NEW u \in G PROVE place[u] <= n
    <3> HIDE DEF better, n
    <3> QED
      BY <1>1, <1>2, <1>4
  <2> QED
    BY <2>1
<1>10. n \in Good
  BY <1>1, <1>8
<1> QED
  BY <1>9, <1>10

\* What lies outside a set counts for nothing.
LEMMA SumRestricted ==
  ASSUME NEW S, IsFiniteSet(S), NEW T, NEW f, \A x \in S \cap T : f[x] \in Int,
         NEW g, \A x \in S : g[x] = IF x \in T THEN f[x] ELSE 0
  PROVE  SumFunctionOnSet(g, S) = SumFunctionOnSet(f, S \cap T)
<1> DEFINE A == S \cap T
           B == S \ T
<1>1. IsFiniteSet(A) /\ IsFiniteSet(B)
  <2>1. A \subseteq S /\ B \subseteq S
    OBVIOUS
  <2> HIDE DEF A, B
  <2> QED
    BY <2>1, FS_Subset
<1>2. S = A \cup B /\ A \cap B = {} /\ \A x \in A \cup B : g[x] \in Int
  OBVIOUS
<1>3. (\A x \in A : f[x] \in Int /\ g[x] = f[x]) /\ \A x \in B : g[x] = 0
  OBVIOUS
<1> HIDE DEF A, B
<1>4. SumFunctionOnSet(g, A \cup B) = SumFunctionOnSet(g, A) + SumFunctionOnSet(g, B)
  BY <1>1, <1>2, SumDisjoint
<1>5. SumFunctionOnSet(f, A) = SumFunctionOnSet(g, A)
  BY <1>1, <1>3, SumAgree
<1>6. SumFunctionOnSet(g, B) = 0
  BY <1>1, <1>3, SumOfZeros
<1>7. SumFunctionOnSet(g, A) \in Int
  BY <1>1, <1>2, SumInt
<1>8. SumFunctionOnSet(g, S) = SumFunctionOnSet(f, A)
  BY <1>2, <1>4, <1>5, <1>6, <1>7
<1> QED
  BY <1>8 DEF A

\* The positions of a group of ties lie within the number of entrants.
LEMMA GroupFits ==
  ASSUME NEW G, NEW place, Ranked(place, G), NEW u \in G,
         NEW group, group = {v \in G : place[v] = place[u]}
  PROVE  /\ IsFiniteSet(group) /\ group \subseteq Nat
         /\ place[u] \in Nat \ {0} /\ Cardinality(group) \in Nat \ {0}
         /\ place[u] + Cardinality(group) - 1 <= Cardinality(G)
<1> DEFINE better == {v \in G : place[v] < place[u]}
<1>1. \A v \in G : place[v] \in Nat
  BY DEF Ranked
<1>2. IsFiniteSet(G) /\ place[u] = 1 + Cardinality(better)
  BY DEF Ranked
<1>3. better \cup group \subseteq G /\ better \cap group = {} /\ u \in group
  <2>1. \A v \in G : ~(place[v] < place[u] /\ place[v] = place[u])
    BY <1>1
  <2> QED
    BY <2>1
<1> HIDE DEF better
<1>4. IsFiniteSet(better) /\ IsFiniteSet(group) /\ Cardinality(better \cup group) <= Cardinality(G)
  BY <1>2, <1>3, FS_Subset
<1>5. Cardinality(better) \in Nat /\ Cardinality(group) \in Nat /\ Cardinality(G) \in Nat
  BY <1>2, <1>4, FS_CardinalityType
<1>6. Cardinality(group) # 0
  BY <1>3, <1>4, FS_EmptySet
<1>7. Cardinality(better \cap group) = 0
  BY <1>3, FS_EmptySet
<1>8. Cardinality(better \cup group) = Cardinality(better) + Cardinality(group) - Cardinality(better \cap group)
  BY <1>4, FS_Union
<1>9. group \subseteq Nat
  BY DEF Ranked
<1> QED
  BY <1>2, <1>4, <1>5, <1>6, <1>7, <1>8, <1>9

\* What a placement pays: the entrant's share of the floor, and of what the
\* positions of its group of ties hold.
Shared(payout, each, vector, slots, place, G) ==
  \A u \in G :
    LET group    == {v \in G : place[v] = place[u]}
        index    == IndexInGroup(group, u)
        occupied == (place[u] .. place[u] + Cardinality(group) - 1) \cap (1..slots)
        combined == SumFunctionOnSet(vector, occupied)
    IN  payout[u] = each[place[u] + index - 1] + EvenSplit(combined, Cardinality(group))[index]

\* The sum of what a group of ties shares out is what its positions hold.
LEMMA SharesPay ==
  ASSUME NEW G, NEW place, Ranked(place, G), NEW slots \in Nat, slots <= Cardinality(G),
         NEW each \in [1..Cardinality(G) -> Nat], NEW vector \in [1..slots -> Nat], NEW payout,
         Shared(payout, each, vector, slots, place, G)
  PROVE  /\ \A u \in G : payout[u] \in Nat
         /\ SumFunctionOnSet(payout, G)
              = SumFunctionOnSet(each, 1..Cardinality(G)) + SumFunctionOnSet(vector, 1..slots)
<1> DEFINE n == Cardinality(G)
           group(u) == {v \in G : place[v] = place[u]}
           size(u) == Cardinality(group(u))
           index(u) == IndexInGroup(group(u), u)
           span(u) == place[u] .. place[u] + size(u) - 1
           combined(u) == SumFunctionOnSet(vector, span(u) \cap (1..slots))
           split(u) == EvenSplit(combined(u), size(u))
           won == [u \in G |-> split(u)[index(u)]]
           part == [u \in G |-> each[place[u] + index(u) - 1]]
           h == [i \in 1..n |-> IF i \in 1..slots THEN vector[i] ELSE 0]
<1>1. ASSUME NEW u \in G
      PROVE  /\ IsFiniteSet(group(u)) /\ group(u) \subseteq Nat
             /\ place[u] \in Nat \ {0} /\ size(u) \in Nat \ {0} /\ place[u] + size(u) - 1 <= n
  <2> HIDE DEF n
  <2> QED
    BY GroupFits DEF n
<1>2. \A u \in G : place[u] \in Nat \ {0} /\ size(u) \in Nat \ {0} /\ place[u] + size(u) - 1 <= n
  <2> HIDE DEF group, size, n
  <2> QED
    BY <1>1
<1>3. IsFiniteSet(G) /\ n \in Nat
  BY FS_CardinalityType DEF Ranked
<1>4. ASSUME NEW u \in G PROVE index(u) \in 1..size(u)
  <2>1. u \in group(u)
    OBVIOUS
  <2> HIDE DEF group
  <2> QED
    BY <1>1, <2>1, IndexCovers
<1>5. ASSUME NEW u \in G, NEW v \in group(u)
      PROVE  v \in G /\ group(v) = group(u) /\ place[v] = place[u]
  OBVIOUS
<1>6. h \in [1..n -> Nat] /\ SumFunctionOnSet(h, 1..n) = SumFunctionOnSet(vector, 1..slots)
  <2> DEFINE S == 1..n
             T == 1..slots
  <2>1. S \cap T = T /\ h \in [S -> Nat]
    <3> HIDE DEF n
    <3> QED
      BY <1>3 DEF n
  <2>2. IsFiniteSet(S)
    <3>1. 1 \in Int /\ n \in Int
      BY <1>3
    <3> QED
      BY <3>1, FS_Interval
  <2>3. (\A i \in S \cap T : vector[i] \in Int) /\ \A i \in S : h[i] = IF i \in T THEN vector[i] ELSE 0
    OBVIOUS
  <2> HIDE DEF S, T, h
  <2>4. SumFunctionOnSet(h, S) = SumFunctionOnSet(vector, S \cap T)
    BY <2>2, <2>3, SumRestricted
  <2> QED
    BY <2>1, <2>4 DEF S, T
<1>7. ASSUME NEW u \in G
      PROVE  combined(u) \in Nat /\ combined(u) = SumFunctionOnSet(h, span(u))
  <2> DEFINE S == span(u)
             T == 1..slots
  <2>1. S \subseteq 1..n
    <3>1. place[u] \in Nat \ {0} /\ size(u) \in Nat \ {0} /\ place[u] + size(u) - 1 <= n /\ n \in Nat
      BY <1>2, <1>3
    <3> DEFINE a == place[u]
               b == place[u] + size(u) - 1
    <3>2. a \in Nat \ {0} /\ b \in Int /\ b <= n /\ n \in Nat /\ S = a .. b
      <4> HIDE DEF size, n
      <4> QED
        BY <3>1
    <3> HIDE DEF a, b, n, S
    <3> QED
      BY <3>2
  <2>2. IsFiniteSet(S) /\ IsFiniteSet(S \cap T)
    <3>1. place[u] \in Int /\ place[u] + size(u) - 1 \in Int
      <4>1. place[u] \in Nat \ {0} /\ size(u) \in Nat \ {0}
        BY <1>2
      <4> HIDE DEF size
      <4> QED
        BY <4>1
    <3>2. IsFiniteSet(S)
      BY <3>1, FS_Interval
    <3> HIDE DEF S
    <3> QED
      BY <3>2, FS_Subset
  <2>3. (\A i \in S \cap T : vector[i] \in Nat) /\ \A i \in S : h[i] = IF i \in T THEN vector[i] ELSE 0
    <3> HIDE DEF S
    <3> QED
      BY <2>1
  <2> HIDE DEF S, T, h
  <2>4. \A i \in S \cap T : vector[i] \in Int
    BY <2>3
  <2>5. SumFunctionOnSet(h, S) = SumFunctionOnSet(vector, S \cap T)
    BY <2>2, <2>3, <2>4, SumRestricted
  <2>6. SumFunctionOnSet(vector, S \cap T) \in Nat
    BY <2>2, <2>3, SumNat
  <2> QED
    BY <2>5, <2>6 DEF S, T
<1> HIDE DEF h
<1>8. ASSUME NEW u \in G
      PROVE  won[u] \in Nat /\ SumFunctionOnSet(won, group(u)) = combined(u)
  <2> DEFINE c == combined(u)
             s == size(u)
             f == EvenSplit(c, s)
             g == group(u)
  <2>1. f \in [1..s -> Nat] /\ SumFunctionOnSet(f, 1..s) = c
    <3>1. c \in Nat /\ s \in Nat \ {0}
      <4> HIDE DEF combined, size
      <4> QED
        BY <1>1, <1>7
    <3> HIDE DEF c, s
    <3> QED
      BY <3>1, EvenSplitPays
  <2>2. won[u] \in Nat
    <3>1. won[u] = f[index(u)]
      OBVIOUS
    <3> HIDE DEF f, size, index, won
    <3> QED
      BY <1>4, <2>1, <3>1
  <2>3. \A v \in g : won[v] = f[0 + IndexInGroup(g, v)]
    <3> SUFFICES ASSUME NEW v \in g PROVE won[v] = f[0 + IndexInGroup(g, v)]
      OBVIOUS
    <3>1. v \in G /\ group(v) = g /\ place[v] = place[u]
      BY <1>5
    <3>2. won[v] = split(v)[index(v)]
      BY <3>1
    <3>3. size(v) = s /\ index(v) = IndexInGroup(g, v)
      BY <3>1
    <3>4. span(v) = span(u)
      BY <3>1, <3>3
    <3>5. combined(v) = c
      BY <3>4
    <3>6. index(v) \in 1..size(v)
      BY <1>4, <3>1
    <3>7. 0 + index(v) = index(v)
      <4> HIDE DEF index, size
      <4> QED
        BY <1>1, <3>1, <3>6
    <3> QED
      BY <3>2, <3>3, <3>5, <3>7
  <2>4. IsFiniteSet(g) /\ g \subseteq Nat /\ s = Cardinality(g) /\ s \in Nat
    BY <1>1
  <2> HIDE DEF f, g, s, won
  <2>5. \A i \in (0 + 1)..(0 + Cardinality(g)) : f[i] \in Int
    BY <2>1, <2>4
  <2>6. SumFunctionOnSet(won, g) = SumFunctionOnSet(f, (0 + 1)..(0 + Cardinality(g)))
    BY <2>3, <2>4, <2>5, GroupSum
  <2>7. (0 + 1)..(0 + Cardinality(g)) = 1..s
    BY <2>4
  <2>8. SumFunctionOnSet(won, g) = c
    BY <2>1, <2>6, <2>7
  <2> QED
    BY <2>2, <2>8 DEF g
<1>9. ASSUME NEW u \in G
      PROVE  part[u] \in Nat /\ SumFunctionOnSet(part, group(u)) = SumFunctionOnSet(each, span(u))
  <2> DEFINE k == place[u] - 1
             g == group(u)
             s == size(u)
  <2>1. IsFiniteSet(g) /\ g \subseteq Nat /\ s = Cardinality(g) /\ s \in Nat \ {0} /\ k \in Nat /\ k + s <= n
    <3>1. place[u] \in Nat \ {0} /\ place[u] + size(u) - 1 <= n /\ size(u) \in Nat \ {0}
      BY <1>1
    <3>2. k \in Nat /\ k + s <= n
      <4> HIDE DEF size, n
      <4> QED
        BY <1>3, <3>1
    <3> QED
      BY <1>1, <3>1, <3>2
  <2>2. \A v \in g : part[v] = each[k + IndexInGroup(g, v)]
    <3> SUFFICES ASSUME NEW v \in g PROVE part[v] = each[k + IndexInGroup(g, v)]
      OBVIOUS
    <3>1. v \in G /\ group(v) = g /\ place[v] = place[u]
      BY <1>5
    <3>2. part[v] = each[place[v] + index(v) - 1]
      BY <3>1
    <3>3. index(v) \in 1..size(v) /\ size(v) \in Nat /\ place[v] \in Nat
      <4> HIDE DEF index, size, group
      <4> QED
        BY <1>1, <1>4, <3>1
    <3>4. place[v] + index(v) - 1 = k + index(v)
      <4> HIDE DEF index, size
      <4> QED
        BY <3>1, <3>3
    <3>5. index(v) = IndexInGroup(g, v)
      BY <3>1
    <3> QED
      BY <3>2, <3>4, <3>5
  <2>3. \A i \in (k + 1)..(k + Cardinality(g)) : i \in 1..n
    <3> HIDE DEF g, s, k, n
    <3> QED
      BY <1>3, <2>1
  <2>4. (k + 1)..(k + Cardinality(g)) = span(u)
    <3>1. place[u] \in Nat /\ size(u) = s /\ s \in Nat /\ Cardinality(g) = s
      BY <1>1, <2>1
    <3>2. k + 1 = place[u] /\ k + s = place[u] + s - 1
      <4> HIDE DEF s
      <4> QED
        BY <3>1
    <3> HIDE DEF s, k, size, g
    <3> QED
      BY <3>1, <3>2
  <2>5. part[u] \in Nat
    <3>1. u \in g /\ index(u) \in 1..s
      BY <1>4
    <3>2. part[u] = each[k + index(u)]
      BY <2>2, <3>1
    <3>3. k + index(u) \in 1..n
      <4> HIDE DEF index, s, k, n
      <4> QED
        BY <1>3, <2>1, <3>1
    <3> HIDE DEF part, index, k
    <3> QED
      BY <3>2, <3>3
  <2> HIDE DEF g, s, part, k
  <2>6. \A i \in (k + 1)..(k + Cardinality(g)) : each[i] \in Int
    BY <2>3
  <2>7. SumFunctionOnSet(part, g) = SumFunctionOnSet(each, (k + 1)..(k + Cardinality(g)))
    BY <2>1, <2>2, <2>6, GroupSum
  <2> QED
    BY <2>4, <2>5, <2>7 DEF g
<1>10. \A u \in G : part[u] \in Nat /\ won[u] \in Nat
  <2> HIDE DEF part, won, group, combined, span
  <2> QED
    BY <1>8, <1>9
<1>11. SumFunctionOnSet(won, G) = SumFunctionOnSet(h, 1..n)
  <2>1. GroupsPaid(won, h, place, G)
    <3>1. \A u \in G : SumFunctionOnSet(won, group(u)) = SumFunctionOnSet(h, span(u))
      BY <1>7, <1>8
    <3> HIDE DEF won
    <3> QED
      BY <3>1 DEF GroupsPaid
  <2> HIDE DEF won, n
  <2>2. \A u \in G : won[u] \in Int
    <3> HIDE DEF part, won
    <3> QED
      BY <1>10
  <2>3. \A i \in 1..n : h[i] \in Int
    <3>1. h \in [1..n -> Nat]
      BY <1>6 DEF n
    <3> QED
      BY <3>1
  <2>4. Ranked(place, G)
    OBVIOUS
  <2> QED
    BY <2>1, <2>2, <2>3, <2>4, GroupsCover DEF n
<1>12. SumFunctionOnSet(part, G) = SumFunctionOnSet(each, 1..n)
  <2>1. GroupsPaid(part, each, place, G)
    <3>1. \A u \in G : SumFunctionOnSet(part, group(u)) = SumFunctionOnSet(each, span(u))
      BY <1>9
    <3> HIDE DEF part
    <3> QED
      BY <3>1 DEF GroupsPaid
  <2> HIDE DEF part, n
  <2>2. \A u \in G : part[u] \in Int
    <3> HIDE DEF part, won
    <3> QED
      BY <1>10
  <2>3. \A i \in 1..n : each[i] \in Int
    <3>1. each \in [1..n -> Nat]
      BY DEF n
    <3> SUFFICES ASSUME NEW i \in 1..n PROVE each[i] \in Int
      OBVIOUS
    <3>2. each[i] \in Nat
      BY ONLY <3>1, i \in 1..n
    <3> QED
      BY ONLY <3>2
  <2>4. Ranked(place, G)
    OBVIOUS
  <2> QED
    BY <2>1, <2>2, <2>3, <2>4, GroupsCover DEF n
<1>13. \A u \in G : payout[u] = part[u] + won[u]
  BY DEF Shared
<1> HIDE DEF part, won, n
<1>14. \A u \in G : part[u] \in Nat /\ won[u] \in Nat /\ payout[u] \in Nat
  BY <1>10, <1>13
<1>15. SumFunctionOnSet(payout, G) = SumFunctionOnSet(part, G) + SumFunctionOnSet(won, G)
  <2>1. \A u \in G : part[u] \in Int /\ won[u] \in Int
    BY <1>14
  <2> QED
    BY <1>3, <1>13, <2>1, SumAdds
<1> QED
  BY <1>6, <1>11, <1>12, <1>14, <1>15 DEF n

-----------------------------------------------------------------------------
(* Settlements in order: what falls from slot to slot keeps falling.       *)

\* f does not rise over 1..n.
Falling(f, n) == \A i, j \in 1..n : i < j => f[j] <= f[i]

\* Prizes cut or padded to the slots still fall.
LEMMA FitFalls ==
  ASSUME NEW values \in Seq(Nat), NonIncreasing(values), NEW n \in Nat
  PROVE  Fit(values, n) \in [1..n -> Nat] /\ Falling(Fit(values, n), n)
<1>1. Fit(values, n) \in [1..n -> Nat]
  BY DEF Fit
<1>2. ASSUME NEW i \in 1..n, NEW j \in 1..n, i < j PROVE Fit(values, n)[j] <= Fit(values, n)[i]
  <2>1. /\ Fit(values, n)[i] = IF i <= Len(values) THEN values[i] ELSE 0
        /\ Fit(values, n)[j] = IF j <= Len(values) THEN values[j] ELSE 0
    BY DEF Fit
  <2>2. Len(values) \in Nat /\ DOMAIN values = 1..Len(values) /\ \A k \in 1..Len(values) : values[k] \in Nat
    OBVIOUS
  <2>3. CASE j <= Len(values)
    <3>1. i \in DOMAIN values /\ j \in DOMAIN values
      BY <1>2, <2>2, <2>3
    <3> QED
      BY <1>2, <2>1, <2>2, <2>3, <3>1 DEF NonIncreasing
  <2>4. CASE ~(j <= Len(values))
    BY <2>1, <2>2, <2>4
  <2> QED
    BY <2>3, <2>4
<1> QED
  BY <1>1, <1>2 DEF Falling

\* Products by a common number keep the order.
LEMMA ProductRises ==
  ASSUME NEW a \in Nat, NEW b \in Nat, NEW c \in Nat, a <= b
  PROVE  c * a \in Nat /\ c * b \in Nat /\ c * a <= c * b
<1>1. PICK d \in Nat : b = a + d
  <2>1. b - a \in Nat /\ b = a + (b - a)
    OBVIOUS
  <2> QED
    BY <2>1
<1>2. c * b = c * a + c * d
  BY <1>1
<1>3. c * a \in Nat /\ c * d \in Nat
  OBVIOUS
<1> QED
  BY <1>2, <1>3

\* Quotients by a positive number keep the order.
LEMMA QuotientRises ==
  ASSUME NEW a \in Nat, NEW b \in Nat, NEW c \in Nat \ {0}, a <= b
  PROVE  a \div c \in Nat /\ b \div c \in Nat /\ a \div c <= b \div c
<1> DEFINE p == a \div c
           q == b \div c
           r == b % c
<1>1. p \in Nat /\ c * p <= a /\ c * p \in Nat
  BY QuotientBounds
<1>2. q \in Nat /\ r \in 0..(c - 1) /\ b = c * q + r
  OBVIOUS
<1> HIDE DEF p, q, r
<1>3. p <= q
  <2> SUFFICES ASSUME q < p PROVE FALSE
    BY <1>1, <1>2
  <2>1. q + 1 \in Nat /\ q + 1 <= p
    BY <1>1, <1>2
  <2>2. c * (q + 1) <= c * p
    BY <1>1, <2>1, ProductRises
  <2>3. c * (q + 1) = c * q + c /\ c * q \in Nat
    BY <1>2
  <2> QED
    BY <1>1, <1>2, <2>2, <2>3
<1> QED
  BY <1>1, <1>2, <1>3 DEF p, q

\* Proportional shares of falling weights fall (settle.ts, "With non-increasing
\* weights the result is non-increasing").
LEMMA ProportionalFalls ==
  ASSUME NEW pool \in Nat, NEW m \in Nat \ {0}, NEW weights \in [1..m -> Nat], Falling(weights, m)
  PROVE  Falling(Proportional(pool, weights), m)
<1> DEFINE total == SumFunction(weights)
           floors == [i \in DOMAIN weights |-> (pool * weights[i]) \div total]
           left == pool - SumFunction(floors)
           split == Proportional(pool, weights)
<1>1. DOMAIN weights = 1..m
  OBVIOUS
<1>2. total \in Nat
  <2>1. IsFiniteSet(1..m) /\ \A i \in 1..m : weights[i] \in Nat
    <3>1. IsFiniteSet(1..m)
      BY FS_Interval
    <3> QED
      BY <3>1
  <2>2. total = SumFunctionOnSet(weights, 1..m)
    BY <1>1 DEF SumFunction
  <2> HIDE DEF total
  <2> QED
    BY <2>1, <2>2, SumNat
<1>3. split = IF total = 0 THEN [i \in 1..m |-> IF i = 1 THEN pool ELSE 0]
              ELSE [i \in 1..m |-> floors[i] + (IF i <= left THEN 1 ELSE 0)]
  BY <1>1 DEF Proportional
<1> HIDE DEF split
<1>4. CASE total = 0
  <2>1. split = [i \in 1..m |-> IF i = 1 THEN pool ELSE 0]
    BY <1>3, <1>4
  <2>2. Falling(split, m)
    BY <2>1 DEF Falling
  <2> QED
    BY <2>2 DEF split
<1>5. CASE total # 0
  <2>1. left \in Int
    <3>1. floors \in [1..m -> Nat]
      <4>1. ASSUME NEW i \in 1..m PROVE (pool * weights[i]) \div total \in Nat
        <5>1. pool * weights[i] \in Nat
          OBVIOUS
        <5> HIDE DEF total
        <5> QED
          BY <1>2, <1>5, <5>1, QuotientBounds
      <4> QED
        BY <1>1, <4>1
    <3>2. SumFunction(floors) = SumFunctionOnSet(floors, 1..m)
      BY <1>1 DEF SumFunction
    <3>3. IsFiniteSet(1..m) /\ \A i \in 1..m : floors[i] \in Int
      <4> HIDE DEF floors
      <4> QED
        BY <3>1, FS_Interval
    <3> HIDE DEF floors
    <3>4. SumFunctionOnSet(floors, 1..m) \in Int
      BY <3>3, SumInt
    <3> QED
      BY <3>2, <3>4
  <2> HIDE DEF left
  <2>2. ASSUME NEW i \in 1..m, NEW j \in 1..m, i < j PROVE split[j] <= split[i]
    <3>1. weights[j] \in Nat /\ weights[i] \in Nat /\ weights[j] <= weights[i]
      BY <2>2 DEF Falling
    <3>2. pool * weights[j] \in Nat /\ pool * weights[i] \in Nat /\ pool * weights[j] <= pool * weights[i]
      BY <3>1, ProductRises
    <3>3. floors[j] \in Nat /\ floors[i] \in Nat /\ floors[j] <= floors[i]
      <4>1. floors[i] = (pool * weights[i]) \div total /\ floors[j] = (pool * weights[j]) \div total
        OBVIOUS
      <4> HIDE DEF floors, total
      <4> QED
        BY <1>2, <1>5, <3>2, <4>1, QuotientRises
    <3> HIDE DEF floors
    <3>4. /\ split[i] = floors[i] + (IF i <= left THEN 1 ELSE 0)
          /\ split[j] = floors[j] + (IF j <= left THEN 1 ELSE 0)
      BY <1>3, <1>5
    <3> QED
      BY <2>1, <2>2, <3>3, <3>4
  <2> QED
    BY <2>2 DEF Falling, split
<1> QED
  BY <1>4, <1>5

\* Minimums honoured best placement first fall as the minimums do.
LEMMA BestFirstFalls ==
  ASSUME NEW pool \in Nat, NEW m \in Nat, NEW minimums \in [1..m -> Nat], Falling(minimums, m)
  PROVE  Falling(BestFirst(pool, minimums), m)
<1> DEFINE f == BestFirst(pool, minimums)
           M(i) == SumFunctionOnSet(minimums, 1..i)
<1>1. ASSUME NEW i \in 1..m
      PROVE  f[i] = IF pool - M(i - 1) <= 0 THEN 0 ELSE MinOf(minimums[i], pool - M(i - 1))
  BY DEF BestFirst
<1> HIDE DEF f
<1>2. ASSUME NEW i \in 1..m, NEW j \in 1..m, i < j
      PROVE  M(i - 1) \in Nat /\ M(j - 1) \in Nat /\ M(i - 1) + minimums[i] <= M(j - 1)
  <2> DEFINE S == 1..i
             T == (i + 1)..(j - 1)
  <2>1. S \cup T = 1..(j - 1) /\ S \cap T = {} /\ S \cup T \subseteq 1..m
    BY <1>2
  <2>2. IsFiniteSet(S) /\ IsFiniteSet(T) /\ IsFiniteSet(1..(i - 1))
    <3>1. 1 \in Int /\ i \in Int /\ i + 1 \in Int /\ j - 1 \in Int /\ i - 1 \in Int
      OBVIOUS
    <3> QED
      BY <3>1, FS_Interval
  <2>3. (\A x \in S \cup T : minimums[x] \in Int) /\ \A x \in T : minimums[x] \in Nat
    <3> HIDE DEF S, T
    <3> QED
      BY <2>1
  <2>4. M(i - 1) \in Nat
    <3>1. \A x \in 1..(i - 1) : minimums[x] \in Nat
      BY <1>2
    <3> QED
      BY <2>2, <3>1, SumNat
  <2>5. M(i) = minimums[i] + M(i - 1)
    <3>1. i \in Nat \ {0} /\ \A x \in 1..i : minimums[x] \in Int
      OBVIOUS
    <3> QED
      BY <3>1, SumStep
  <2>6. SumFunctionOnSet(minimums, T) \in Nat
    <3> HIDE DEF T
    <3> QED
      BY <2>2, <2>3, SumNat
  <2>7. M(j - 1) = M(i) + SumFunctionOnSet(minimums, T)
    <3>1. SumFunctionOnSet(minimums, S \cup T) = SumFunctionOnSet(minimums, S) + SumFunctionOnSet(minimums, T)
      <4> HIDE DEF S, T
      <4> QED
        BY <2>1, <2>2, <2>3, SumDisjoint
    <3> QED
      BY <2>1, <3>1
  <2>8. minimums[i] \in Nat
    OBVIOUS
  <2> HIDE DEF M, S, T
  <2> QED
    BY <2>4, <2>5, <2>6, <2>7, <2>8
<1> HIDE DEF M
<1>3. ASSUME NEW i \in 1..m, NEW j \in 1..m, i < j PROVE f[j] <= f[i]
  <2> DEFINE a == M(i - 1)
             b == M(j - 1)
             x == minimums[i]
             y == minimums[j]
  <2>1. /\ f[i] = IF pool - a <= 0 THEN 0 ELSE MinOf(x, pool - a)
        /\ f[j] = IF pool - b <= 0 THEN 0 ELSE MinOf(y, pool - b)
    BY <1>1
  <2>2. a \in Nat /\ b \in Nat /\ a + x <= b
    BY <1>2, <1>3
  <2>3. x \in Nat /\ y \in Nat /\ y <= x
    BY <1>3 DEF Falling
  <2> HIDE DEF a, b, x, y
  <2> QED
    BY <2>1, <2>2, <2>3 DEF MinOf
<1> QED
  BY <1>3 DEF Falling, f

\* The prizes of the slots fall.
LEMMA PrizeVectorFalls ==
  ASSUME NEW structure, Structure(structure), NEW pool \in Nat, NEW slots \in Nat \ {0}
  PROVE  Falling(PrizeVector(structure, pool, slots), slots)
<1> DEFINE minimums == Fit(structure.minimums, slots)
           weights == Fit(structure.weights, slots)
           guaranteed == SumFunction(minimums)
           rest == Proportional(pool - guaranteed, weights)
           vector == PrizeVector(structure, pool, slots)
<1>1. /\ minimums \in [1..slots -> Nat] /\ Falling(minimums, slots)
      /\ weights \in [1..slots -> Nat] /\ Falling(weights, slots)
  BY FitFalls DEF Structure
<1>2. guaranteed \in Nat
  <2>1. IsFiniteSet(1..slots) /\ \A i \in 1..slots : minimums[i] \in Nat
    <3>1. IsFiniteSet(1..slots)
      BY FS_Interval
    <3> HIDE DEF minimums
    <3> QED
      BY <1>1, <3>1
  <2>2. guaranteed = SumFunctionOnSet(minimums, 1..slots)
    BY DEF SumFunction, Fit
  <2> HIDE DEF minimums, guaranteed
  <2> QED
    BY <2>1, <2>2, SumNat
<1>3. vector = IF pool >= guaranteed THEN [i \in 1..slots |-> minimums[i] + rest[i]] ELSE BestFirst(pool, minimums)
  BY DEF PrizeVector
<1> HIDE DEF minimums, weights, guaranteed, vector
<1>4. CASE pool >= guaranteed
  <2>1. pool - guaranteed \in Nat
    BY <1>2, <1>4
  <2>2. rest \in [1..slots -> Nat] /\ Falling(rest, slots)
    BY <1>1, <2>1, ProportionalPays, ProportionalFalls
  <2> HIDE DEF rest
  <2>3. ASSUME NEW i \in 1..slots, NEW j \in 1..slots, i < j PROVE vector[j] <= vector[i]
    <3>1. vector[i] = minimums[i] + rest[i] /\ vector[j] = minimums[j] + rest[j]
      BY <1>3, <1>4
    <3>2. minimums[j] <= minimums[i] /\ rest[j] <= rest[i]
      BY <1>1, <2>2, <2>3 DEF Falling
    <3>3. minimums[i] \in Nat /\ minimums[j] \in Nat /\ rest[i] \in Nat /\ rest[j] \in Nat
      BY <1>1, <2>2
    <3> QED
      BY <3>1, <3>2, <3>3
  <2> QED
    BY <2>3 DEF Falling, vector
<1>5. CASE ~(pool >= guaranteed)
  BY <1>1, <1>3, <1>5, BestFirstFalls DEF vector
<1> QED
  BY <1>4, <1>5

\* The shares of an even split: of equal size up to a unit, which the first
\* ones get, and as large or as small as the whole allows.
LEMMA EvenSplitIsEven ==
  ASSUME NEW total \in Nat, NEW n \in Nat \ {0}, NEW f, f = EvenSplit(total, n)
  PROVE  /\ \A i \in 1..n : f[i] \in Nat
         /\ \A i, j \in 1..n : i <= j => f[i] - f[j] \in {0, 1}
         /\ \A x \in Nat : n * x <= total => \A i \in 1..n : x <= f[i]
         /\ \A x \in Nat : total <= n * x => \A i \in 1..n : f[i] <= x
<1> DEFINE q == total \div n
           r == total % n
<1>1. q \in Nat /\ r \in 0..(n - 1) /\ total = n * q + r
  OBVIOUS
<1>2. \A i \in 1..n : f[i] = q + (IF i <= r THEN 1 ELSE 0)
  BY DEF EvenSplit
<1> HIDE DEF q, r
<1>3. \A i \in 1..n : f[i] \in Nat
  BY <1>1, <1>2
<1>4. \A i, j \in 1..n : i <= j => f[i] - f[j] \in {0, 1}
  <2> TAKE i \in 1..n, j \in 1..n
  <2>1. f[i] = q + (IF i <= r THEN 1 ELSE 0) /\ f[j] = q + (IF j <= r THEN 1 ELSE 0)
    BY <1>2
  <2> QED
    BY <1>1, <2>1
<1>5. ASSUME NEW x \in Nat, n * x <= total, NEW i \in 1..n PROVE x <= f[i]
  <2>1. x <= q
    <3> SUFFICES ASSUME q < x PROVE FALSE
      BY <1>1
    <3>1. q + 1 \in Nat /\ q + 1 <= x
      BY <1>1
    <3>2. n * (q + 1) <= n * x /\ n * x \in Nat
      BY <3>1, ProductRises
    <3>3. n * (q + 1) = n * q + n /\ n * q \in Nat
      BY <1>1
    <3> QED
      BY <1>1, <1>5, <3>2, <3>3
  <2>2. f[i] = q + (IF i <= r THEN 1 ELSE 0)
    BY <1>2
  <2> QED
    BY <1>1, <2>1, <2>2
<1>6. ASSUME NEW x \in Nat, total <= n * x, NEW i \in 1..n PROVE f[i] <= x
  <2>1. f[i] = q + (IF i <= r THEN 1 ELSE 0)
    BY <1>2
  <2>2. n * q \in Nat /\ n * x \in Nat
    BY <1>1
  <2>3. CASE q < x
    BY <1>1, <2>1, <2>3
  <2>4. CASE ~(q < x)
    <3>1. n * x <= n * q
      BY <1>1, <2>4, ProductRises
    <3>2. r = 0 /\ n * q = n * x
      BY <1>1, <1>6, <2>2, <3>1
    <3>3. q <= x
      BY <1>1, <3>2, ProductOrder
    <3> QED
      BY <1>1, <2>1, <3>2, <3>3
  <2> QED
    BY <2>3, <2>4
<1> QED
  BY <1>3, <1>4, <1>5, <1>6

\* The sum of the same number over and over.
LEMMA SumOfSame ==
  ASSUME NEW S, IsFiniteSet(S), NEW x \in Int, NEW f, \A y \in S : f[y] = x
  PROVE  SumFunctionOnSet(f, S) = Cardinality(S) * x
<1> DEFINE b == [s \in SUBSET S |-> Cardinality(s) * x]
<1>1. b \in [SUBSET S -> Int] /\ b[{}] = 0
  <2>1. \A s \in SUBSET S : Cardinality(s) \in Nat
    BY FS_Subset, FS_CardinalityType
  <2>2. Cardinality({}) = 0
    BY FS_EmptySet
  <2> QED
    BY <2>1, <2>2
<1>2. ASSUME NEW s \in SUBSET S, NEW y \in s PROVE b[s] = f[y] + b[s \ {y}]
  <2> DEFINE k == Cardinality(s)
  <2>1. IsFiniteSet(s)
    BY FS_Subset
  <2>2. k \in Nat /\ Cardinality(s \ {y}) = k - 1
    BY <2>1, FS_CardinalityType, FS_RemoveElement
  <2>3. b[s] = k * x /\ b[s \ {y}] = (k - 1) * x /\ f[y] = x
    BY <2>2
  <2> HIDE DEF k, b
  <2>4. k * x = x + (k - 1) * x
    BY <2>2
  <2> QED
    BY <2>3, <2>4
<1>3. SumsOver(b, f, S)
  BY <1>1, <1>2 DEF SumsOver
<1> QED
  BY <1>3, SumIsTheSum

\* The positions of a group of ties end before those of a worse one begin.
LEMMA GroupsFollow ==
  ASSUME NEW G, NEW place, Ranked(place, G), NEW u \in G, NEW v \in G, place[u] < place[v]
  PROVE  place[u] + Cardinality({w \in G : place[w] = place[u]}) <= place[v]
<1> DEFINE better(x) == {w \in G : place[w] < place[x]}
           group == {w \in G : place[w] = place[u]}
<1>1. /\ IsFiniteSet(G) /\ \A w \in G : place[w] \in Nat
      /\ place[u] = 1 + Cardinality(better(u)) /\ place[v] = 1 + Cardinality(better(v))
  BY DEF Ranked
<1>2. better(u) \cup group \subseteq better(v) /\ better(u) \cap group = {} /\ better(v) \subseteq G
  <2>1. \A w \in G : /\ place[w] < place[u] => place[w] < place[v] /\ place[w] # place[u]
                     /\ place[w] = place[u] => place[w] < place[v]
    BY <1>1
  <2> QED
    BY <2>1
<1> HIDE DEF better, group
<1>3. IsFiniteSet(better(v))
  BY <1>1, <1>2, FS_Subset
<1>4. IsFiniteSet(better(u)) /\ IsFiniteSet(group)
  <2>1. better(u) \subseteq better(v) /\ group \subseteq better(v)
    BY <1>2
  <2> QED
    BY <1>3, <2>1, FS_Subset
<1>5. Cardinality(better(u) \cup group) <= Cardinality(better(v))
  BY <1>2, <1>3, FS_Subset
<1>6. Cardinality(better(u) \cup group) = Cardinality(better(u)) + Cardinality(group)
  <2>1. Cardinality(better(u) \cap group) = 0
    BY <1>2, FS_EmptySet
  <2>2. Cardinality(better(u) \cup group)
          = Cardinality(better(u)) + Cardinality(group) - Cardinality(better(u) \cap group)
    BY <1>4, FS_Union
  <2>3. Cardinality(better(u)) \in Nat /\ Cardinality(group) \in Nat
    BY <1>4, FS_CardinalityType
  <2> QED
    BY <2>1, <2>2, <2>3
<1>7. Cardinality(better(u)) \in Nat /\ Cardinality(group) \in Nat /\ Cardinality(better(v)) \in Nat
  BY <1>3, <1>4, FS_CardinalityType
<1>8. place[u] + Cardinality(group) <= place[v]
  BY <1>1, <1>5, <1>6, <1>7
<1> QED
  BY <1>8 DEF group

\* In a group of ties the lower userId comes first.
LEMMA IndexOrders ==
  ASSUME NEW group, IsFiniteSet(group), group \subseteq Nat, NEW u \in group, NEW v \in group, u < v
  PROVE  IndexInGroup(group, u) < IndexInGroup(group, v)
<1> DEFINE before(x) == {w \in group : w < x}
<1>1. before(u) \subseteq before(v) /\ u \in before(v) /\ u \notin before(u) /\ before(v) \subseteq group
  <2>1. ~(u < u) /\ \A w \in group : w < u => w < v
    OBVIOUS
  <2> QED
    BY <2>1
<1> HIDE DEF before
<1>2. IsFiniteSet(before(v))
  BY <1>1, FS_Subset
<1>3. /\ IsFiniteSet(before(u)) /\ Cardinality(before(u)) <= Cardinality(before(v))
      /\ Cardinality(before(u)) # Cardinality(before(v))
  BY <1>1, <1>2, FS_Subset
<1>4. Cardinality(before(u)) \in Nat /\ Cardinality(before(v)) \in Nat
  BY <1>2, <1>3, FS_CardinalityType
<1>5. 1 + Cardinality(before(u)) < 1 + Cardinality(before(v))
  BY <1>3, <1>4
<1> QED
  BY <1>5 DEF IndexInGroup, before

\* What s positions from p on hold is bounded as their slots are.
LEMMA HoldingBounds ==
  ASSUME NEW slots \in Nat, NEW vector \in [1..slots -> Nat], NEW p \in Nat \ {0}, NEW s \in Nat \ {0},
         NEW c, c = SumFunctionOnSet(vector, (p .. p + s - 1) \cap (1..slots)), NEW x \in Nat
  PROVE  /\ c \in Nat
         /\ (\A i \in p .. p + s - 1 : i \in 1..slots /\ x <= vector[i]) => s * x <= c
         /\ (\A i \in (p .. p + s - 1) \cap (1..slots) : vector[i] <= x) => c <= s * x
<1> DEFINE S == p .. p + s - 1
           T == 1..slots
           h == [i \in S |-> IF i \in T THEN vector[i] ELSE 0]
           same == [i \in S |-> x]
<1>1. IsFiniteSet(S) /\ Cardinality(S) = s
  <2>1. p \in Int /\ p + s - 1 \in Int /\ p <= p + s - 1 /\ (p + s - 1) - p + 1 = s
    OBVIOUS
  <2> QED
    BY <2>1, FS_Interval
<1>2. IsFiniteSet(S \cap T)
  <2> HIDE DEF S, T
  <2> QED
    BY <1>1, FS_Subset
<1>3. \A i \in S \cap T : vector[i] \in Nat /\ vector[i] \in Int
  OBVIOUS
<1>4. \A i \in S : h[i] = (IF i \in T THEN vector[i] ELSE 0) /\ h[i] \in Int /\ same[i] = x /\ same[i] \in Int
  <2> HIDE DEF S
  <2> QED
    BY <1>3
<1>5. c = SumFunctionOnSet(vector, S \cap T)
  OBVIOUS
<1> HIDE DEF S, h, same
<1>6. c \in Nat
  <2> HIDE DEF T
  <2> QED
    BY <1>2, <1>3, <1>5, SumNat
<1>7. SumFunctionOnSet(h, S) = c
  <2>1. IsFiniteSet(S)
    BY <1>1
  <2>2. \A i \in S \cap T : vector[i] \in Int
    BY <1>3
  <2>3. \A i \in S : h[i] = IF i \in T THEN vector[i] ELSE 0
    BY <1>4
  <2> HIDE DEF T
  <2>4. SumFunctionOnSet(h, S) = SumFunctionOnSet(vector, S \cap T)
    BY ONLY <2>1, <2>2, <2>3, SumRestricted
  <2> QED
    BY <1>5, <2>4
<1>8. SumFunctionOnSet(same, S) = s * x
  <2>1. (\A i \in S : same[i] = x) /\ x \in Int
    BY <1>4
  <2>2. SumFunctionOnSet(same, S) = Cardinality(S) * x
    BY <1>1, <2>1, SumOfSame
  <2> QED
    BY <1>1, <2>2
<1>9. ASSUME \A i \in S : i \in T /\ x <= vector[i] PROVE s * x <= c
  <2>1. \A i \in S : same[i] \in Int /\ h[i] \in Int /\ same[i] <= h[i]
    BY <1>4, <1>9
  <2> QED
    BY <1>1, <1>7, <1>8, <2>1, SumBounded
<1>10. ASSUME \A i \in S \cap T : vector[i] <= x PROVE c <= s * x
  <2>1. \A i \in S : same[i] \in Int /\ h[i] \in Int /\ h[i] <= same[i]
    BY <1>4, <1>10
  <2> QED
    BY <1>1, <1>7, <1>8, <2>1, SumBounded
<1> QED
  BY <1>6, <1>9, <1>10 DEF S

\* What the engine hands out with: the shares of the floor and the prizes, both
\* falling from slot to slot, and the placements.
Handout(floors, vector, slots, place, G) ==
  /\ Ranked(place, G)
  /\ slots \in Nat /\ vector \in [1..slots -> Nat] /\ Falling(vector, slots)
  /\ floors \in Nat

\* What one entrant is handed: the position, the size of its group of ties, its
\* index there, and what the group shares out.
Handed(paid, floors, vector, slots, n, p, s, i, c) ==
  /\ p \in Nat \ {0} /\ s \in Nat \ {0} /\ i \in 1..s /\ p + s - 1 <= n
  /\ c = SumFunctionOnSet(vector, (p .. p + s - 1) \cap (1..slots)) /\ c \in Nat
  /\ paid = EvenSplit(floors, n)[p + i - 1] + EvenSplit(c, s)[i]

\* Everyone who shares in a handout gets one position of it.
LEMMA EveryoneIsHanded ==
  ASSUME NEW G, NEW place, NEW floors, NEW vector, NEW slots, Handout(floors, vector, slots, place, G),
         NEW payout, Shared(payout, EvenSplit(floors, Cardinality(G)), vector, slots, place, G),
         NEW u \in G, NEW group, group = {v \in G : place[v] = place[u]}
  PROVE  \E c \in Nat : Handed(payout[u], floors, vector, slots, Cardinality(G), place[u],
                               Cardinality(group), IndexInGroup(group, u), c)
<1> DEFINE p == place[u]
           s == Cardinality(group)
           i == IndexInGroup(group, u)
           c == SumFunctionOnSet(vector, (p .. p + s - 1) \cap (1..slots))
<1>1. /\ IsFiniteSet(group) /\ group \subseteq Nat /\ p \in Nat \ {0} /\ s \in Nat \ {0}
      /\ p + s - 1 <= Cardinality(G)
  <2>1. Ranked(place, G)
    BY DEF Handout
  <2> QED
    BY <2>1, GroupFits
<1>2. i \in 1..s
  BY <1>1, IndexCovers
<1>3. c \in Nat
  <2>1. 0 \in Nat /\ slots \in Nat /\ vector \in [1..slots -> Nat]
    BY DEF Handout
  <2> HIDE DEF p, s
  <2> QED
    BY <1>1, <2>1, HoldingBounds
<1>4. payout[u] = EvenSplit(floors, Cardinality(G))[p + i - 1] + EvenSplit(c, s)[i]
  BY DEF Shared
<1>5. Handed(payout[u], floors, vector, slots, Cardinality(G), p, s, i, c)
  <2> HIDE DEF p, s, i
  <2> QED
    BY <1>1, <1>2, <1>3, <1>4 DEF Handed
<1> QED
  BY <1>3, <1>5

\* A better placement is never handed less.
LEMMA BetterIsHandedMore ==
  ASSUME NEW slots \in Nat, NEW vector \in [1..slots -> Nat], Falling(vector, slots),
         NEW floors \in Nat, NEW n \in Nat \ {0},
         NEW a, NEW b, NEW p, NEW q, NEW s, NEW t, NEW i, NEW j, NEW c, NEW d,
         Handed(a, floors, vector, slots, n, p, s, i, c),
         Handed(b, floors, vector, slots, n, q, t, j, d),
         p + s <= q
  PROVE  a \in Nat /\ b \in Nat /\ b <= a
<1>1. /\ p \in Nat \ {0} /\ s \in Nat \ {0} /\ i \in 1..s /\ p + s - 1 <= n /\ c \in Nat
      /\ q \in Nat \ {0} /\ t \in Nat \ {0} /\ j \in 1..t /\ q + t - 1 <= n /\ d \in Nat
      /\ c = SumFunctionOnSet(vector, (p .. p + s - 1) \cap (1..slots))
      /\ d = SumFunctionOnSet(vector, (q .. q + t - 1) \cap (1..slots))
      /\ a = EvenSplit(floors, n)[p + i - 1] + EvenSplit(c, s)[i]
      /\ b = EvenSplit(floors, n)[q + j - 1] + EvenSplit(d, t)[j]
  BY DEF Handed
<1>2. PICK e, f, g : e = EvenSplit(floors, n) /\ f = EvenSplit(c, s) /\ g = EvenSplit(d, t)
  OBVIOUS
<1>3. PICK k, l : k = p + i - 1 /\ l = q + j - 1 /\ k \in 1..n /\ l \in 1..n /\ k < l
  <2>1. p + i - 1 \in 1..n /\ q + j - 1 \in 1..n /\ p + i - 1 < q + j - 1
    BY <1>1
  <2> QED
    BY <2>1
<1>4. e[k] \in Nat /\ e[l] \in Nat /\ e[l] <= e[k]
  <2>1. /\ \A x \in 1..n : e[x] \in Nat
        /\ \A x, y \in 1..n : x <= y => e[x] - e[y] \in {0, 1}
    BY <1>2, EvenSplitIsEven
  <2>2. e[k] - e[l] \in {0, 1} /\ e[k] \in Nat /\ e[l] \in Nat
    BY <1>3, <2>1
  <2> QED
    BY <2>2
<1>5. PICK x \in Nat : x = IF p + s - 1 \in 1..slots THEN vector[p + s - 1] ELSE 0
  OBVIOUS
<1>6. s * x <= c
  <2>1. CASE p + s - 1 \in 1..slots
    <3>1. \A m \in p .. p + s - 1 : m \in 1..slots /\ x <= vector[m]
      <4> TAKE m \in p .. p + s - 1
      <4>1. m \in 1..slots
        BY <1>1, <2>1
      <4>2. x = vector[p + s - 1]
        BY <1>5, <2>1
      <4>3. m < p + s - 1 \/ m = p + s - 1
        BY <1>1
      <4> QED
        BY <2>1, <4>1, <4>2, <4>3 DEF Falling
    <3> QED
      BY <1>1, <3>1, HoldingBounds
  <2>2. CASE p + s - 1 \notin 1..slots
    BY <1>1, <1>5, <2>2
  <2> QED
    BY <2>1, <2>2
<1>7. d <= t * x
  <2>1. \A m \in (q .. q + t - 1) \cap (1..slots) : vector[m] <= x
    <3> TAKE m \in (q .. q + t - 1) \cap (1..slots)
    <3>1. p + s - 1 \in 1..slots /\ p + s - 1 < m /\ m \in 1..slots
      BY <1>1
    <3> QED
      BY <1>5, <3>1 DEF Falling
  <2> QED
    BY <1>1, <2>1, HoldingBounds
<1>8. f[i] \in Nat /\ x <= f[i]
  <2>1. /\ \A m \in 1..s : f[m] \in Nat
        /\ \A y \in Nat : s * y <= c => \A m \in 1..s : y <= f[m]
    BY <1>1, <1>2, EvenSplitIsEven
  <2> QED
    BY <1>1, <1>6, <2>1
<1>9. g[j] \in Nat /\ g[j] <= x
  <2>1. /\ \A m \in 1..t : g[m] \in Nat
        /\ \A y \in Nat : d <= t * y => \A m \in 1..t : g[m] <= y
    BY <1>1, <1>2, EvenSplitIsEven
  <2> QED
    BY <1>1, <1>7, <2>1
<1>10. a = e[k] + f[i] /\ b = e[l] + g[j]
  BY <1>1, <1>2, <1>3
<1> QED
  BY <1>4, <1>8, <1>9, <1>10

\* Who shares out nothing takes a share of the floor alone.
LEMMA NothingToShare ==
  ASSUME NEW s \in Nat \ {0}, NEW i \in 1..s
  PROVE  EvenSplit(0, s)[i] = 0
<1>1. PICK f : f = EvenSplit(0, s)
  OBVIOUS
<1>2. /\ \A m \in 1..s : f[m] \in Nat
      /\ \A x \in Nat : 0 <= s * x => \A m \in 1..s : f[m] <= x
  BY <1>1, EvenSplitIsEven
<1>3. 0 \in Nat /\ 0 <= s * 0
  OBVIOUS
<1>4. f[i] <= 0 /\ f[i] \in Nat
  BY <1>2, <1>3
<1> QED
  BY <1>1, <1>4

\* A floor every entrant is owed whole is handed whole, and never more.
LEMMA FloorIsHanded ==
  ASSUME NEW floor \in Nat, NEW n \in Nat \ {0}, NEW floors \in Nat, floors <= n * floor, NEW k \in 1..n
  PROVE  /\ EvenSplit(floors, n)[k] \in Nat /\ EvenSplit(floors, n)[k] <= floor
         /\ floors = n * floor => EvenSplit(floors, n)[k] = floor
<1>1. PICK e : e = EvenSplit(floors, n)
  OBVIOUS
<1>2. /\ \A m \in 1..n : e[m] \in Nat
      /\ \A x \in Nat : n * x <= floors => \A m \in 1..n : x <= e[m]
      /\ \A x \in Nat : floors <= n * x => \A m \in 1..n : e[m] <= x
  BY <1>1, EvenSplitIsEven
<1>3. n * floor \in Nat
  OBVIOUS
<1>4. e[k] \in Nat /\ e[k] <= floor
  BY <1>2
<1>5. floors = n * floor => floor <= e[k]
  BY <1>2, <1>3
<1> QED
  BY <1>1, <1>4, <1>5

\* Two of a group are handed alike but for a unit: where the floors leave units
\* over, nothing is left for the prizes.
LEMMA TiedAreHandedAlike ==
  ASSUME NEW slots, NEW vector, NEW floors \in Nat, NEW n \in Nat \ {0}, NEW floor \in Nat,
         NEW a, NEW b, NEW p, NEW s, NEW i, NEW j, NEW c, NEW d,
         Handed(a, floors, vector, slots, n, p, s, i, c),
         Handed(b, floors, vector, slots, n, p, s, j, d),
         i < j, floors = n * floor \/ c = 0
  PROVE  a - b \in {0, 1}
<1>1. /\ p \in Nat \ {0} /\ s \in Nat \ {0} /\ i \in 1..s /\ j \in 1..s /\ p + s - 1 <= n
      /\ c \in Nat /\ c = d
      /\ a = EvenSplit(floors, n)[p + i - 1] + EvenSplit(c, s)[i]
      /\ b = EvenSplit(floors, n)[p + j - 1] + EvenSplit(c, s)[j]
  BY DEF Handed
<1>2. PICK e, f : e = EvenSplit(floors, n) /\ f = EvenSplit(c, s)
  OBVIOUS
<1>3. PICK k, l : k = p + i - 1 /\ l = p + j - 1 /\ k \in 1..n /\ l \in 1..n /\ k <= l
  <2>1. p + i - 1 \in 1..n /\ p + j - 1 \in 1..n /\ p + i - 1 <= p + j - 1
    BY <1>1
  <2> QED
    BY <2>1
<1>4. e[k] \in Nat /\ e[l] \in Nat /\ e[k] - e[l] \in {0, 1}
  <2>1. /\ \A x \in 1..n : e[x] \in Nat
        /\ \A x, y \in 1..n : x <= y => e[x] - e[y] \in {0, 1}
    BY <1>2, EvenSplitIsEven
  <2> QED
    BY <1>3, <2>1
<1>5. f[i] \in Nat /\ f[j] \in Nat /\ f[i] - f[j] \in {0, 1}
  <2>1. /\ \A x \in 1..s : f[x] \in Nat
        /\ \A x, y \in 1..s : x <= y => f[x] - f[y] \in {0, 1}
    BY <1>1, <1>2, EvenSplitIsEven
  <2>2. i <= j
    BY <1>1
  <2> QED
    BY <1>1, <2>1, <2>2
<1>6. a = e[k] + f[i] /\ b = e[l] + f[j]
  BY <1>1, <1>2, <1>3
<1>7. CASE floors = n * floor
  <2>1. e[k] = floor /\ e[l] = floor
    BY <1>2, <1>3, <1>7, FloorIsHanded
  <2> QED
    BY <1>5, <1>6, <2>1
<1>8. CASE c = 0
  <2>1. f[i] = 0 /\ f[j] = 0
    BY <1>1, <1>2, <1>8, NothingToShare
  <2> QED
    BY <1>4, <1>6, <2>1
<1> QED
  BY <1>7, <1>8

\* No part of natural numbers sums up to more than all of them.
LEMMA PartOfTheSum ==
  ASSUME NEW m \in Nat, NEW f \in [1..m -> Nat], NEW S, S \subseteq 1..m
  PROVE  SumFunctionOnSet(f, S) \in Nat /\ SumFunctionOnSet(f, S) <= SumFunctionOnSet(f, 1..m)
<1> DEFINE I == 1..m
           R == I \ S
<1>1. IsFiniteSet(I)
  BY FS_Interval
<1>2. S \cup R = I /\ S \cap R = {} /\ R \subseteq I
  OBVIOUS
<1>3. \A x \in I : f[x] \in Nat /\ f[x] \in Int
  OBVIOUS
<1>4. S \subseteq I /\ 1..m = I
  OBVIOUS
<1> HIDE DEF I, R
<1>5. IsFiniteSet(S) /\ IsFiniteSet(R)
  BY <1>1, <1>2, <1>4, FS_Subset
<1>6. SumFunctionOnSet(f, I) = SumFunctionOnSet(f, S) + SumFunctionOnSet(f, R)
  BY <1>2, <1>3, <1>5, SumDisjoint
<1>7. SumFunctionOnSet(f, S) \in Nat /\ SumFunctionOnSet(f, R) \in Nat
  BY <1>2, <1>3, <1>4, <1>5, SumNat
<1> QED
  BY <1>4, <1>6, <1>7

\* Who has a score is placed among those who have, and everyone else behind
\* them all.
LEMMA ScoredComeFirst ==
  ASSUME NEW entries, Entrants(entries), NEW rule \in TieBreaks, NEW u \in DOMAIN entries
  PROVE  /\ ScoredCount(entries) \in Nat
         /\ entries[u].score # None => Placement(entries, rule, u) <= ScoredCount(entries)
         /\ entries[u].score = None => Placement(entries, rule, u) > ScoredCount(entries)
<1> DEFINE G == DOMAIN entries
           scored == {v \in G : entries[v].score # None}
           better == {v \in G : Ahead(entries[v], entries[u], rule)}
<1>1. IsFiniteSet(G) /\ scored \subseteq G /\ better \subseteq G
  BY DEF Entrants
<1>2. /\ IsFiniteSet(scored) /\ IsFiniteSet(better)
      /\ Cardinality(scored) \in Nat /\ Cardinality(better) \in Nat
  <2> HIDE DEF scored, better
  <2>1. IsFiniteSet(scored) /\ IsFiniteSet(better)
    BY <1>1, FS_Subset
  <2> QED
    BY <2>1, FS_CardinalityType
<1>3. Placement(entries, rule, u) = 1 + Cardinality(better) /\ ScoredCount(entries) = Cardinality(scored)
  BY DEF Placement, ScoredCount
<1>4. CASE entries[u].score # None
  <2>1. better \subseteq scored \ {u} /\ u \in scored
    <3>1. \A x \in {entries[u]} : Amount(x.score) /\ Amount(x.seed) /\ Amount(x.submittedAt)
      BY DEF Entrants
    <3>2. ~Ahead(entries[u], entries[u], rule)
      BY <3>1, AheadIsAnOrder
    <3>3. \A v \in G : Ahead(entries[v], entries[u], rule) => entries[v].score # None
      BY DEF Ahead, ScoreAhead
    <3> QED
      BY <1>4, <3>2, <3>3
  <2> HIDE DEF scored, better
  <2>2. IsFiniteSet(scored \ {u}) /\ Cardinality(scored \ {u}) = Cardinality(scored) - 1
    BY <1>2, <2>1, FS_RemoveElement
  <2>3. Cardinality(better) <= Cardinality(scored) - 1
    BY <2>1, <2>2, FS_Subset
  <2> QED
    BY <1>2, <1>3, <1>4, <2>3
<1>5. CASE entries[u].score = None
  <2>1. scored \subseteq better
    BY <1>5 DEF Ahead, ScoreAhead
  <2> HIDE DEF scored, better
  <2>2. Cardinality(scored) <= Cardinality(better)
    BY <1>2, <2>1, FS_Subset
  <2> QED
    BY <1>2, <1>3, <1>5, <2>2
<1> QED
  BY <1>2, <1>3, <1>4, <1>5

\* The engine at work on entrants of whom there is at least one: what goes to
\* the floors, the slots and their prizes, and what everyone is handed.
LEMMA EngineHandsOut ==
  ASSUME NEW entries, Entrants(entries), DOMAIN entries # {}, NEW rule \in TieBreaks,
         NEW structure, Structure(structure), NEW pool \in Nat,
         NEW payouts, payouts = SettlePool(pool, entries, structure, rule),
         NEW n, n = Cardinality(DOMAIN entries),
         NEW floors, floors = MinOf(pool, structure.floor * n),
         NEW slots, slots = IF ScoredCount(entries) > 0 THEN ScoredCount(entries) ELSE n,
         NEW vector, vector = PrizeVector(structure, pool - floors, slots),
         NEW place, place = [u \in DOMAIN entries |-> Placement(entries, rule, u)],
         NEW paid, paid = [u \in DOMAIN entries |-> payouts[u].payout]
  PROVE  /\ n \in Nat \ {0} /\ slots \in Nat \ {0} /\ slots <= n /\ floors \in 0..pool
         /\ structure.floor * n \in Nat
         /\ SumFunctionOnSet(vector, 1..slots) = pool - floors
         /\ Handout(floors, vector, slots, place, DOMAIN entries)
         /\ Shared(paid, EvenSplit(floors, n), vector, slots, place, DOMAIN entries)
         /\ \A u \in DOMAIN entries : payouts[u].placement = place[u]
<1> DEFINE G == DOMAIN entries
<1>1. IsFiniteSet(G) /\ n \in Nat \ {0}
  BY FS_CardinalityType, FS_EmptySet DEF Entrants
<1>2. structure.floor \in Nat /\ structure.floor * n \in Nat
  <2>1. structure.floor \in Nat
    BY DEF Structure
  <2> QED
    BY <1>1, <2>1
<1>3. floors \in 0..pool /\ pool - floors \in Nat /\ floors \in Nat
  BY <1>2 DEF MinOf
<1>4. FloorTotal(pool, entries, structure) = floors
  BY <1>1, <1>2 DEF FloorTotal, MinOf
<1>5. slots \in Nat \ {0} /\ slots <= n
  <2> DEFINE scored == {u \in G : entries[u].score # None}
  <2>1. scored \subseteq G /\ ScoredCount(entries) = Cardinality(scored)
    BY DEF ScoredCount
  <2> HIDE DEF scored
  <2>2. IsFiniteSet(scored) /\ Cardinality(scored) <= n
    BY <1>1, <2>1, FS_Subset
  <2>3. Cardinality(scored) \in Nat
    BY <2>2, FS_CardinalityType
  <2> QED
    BY <1>1, <2>1, <2>2, <2>3
<1>6. /\ vector \in [1..slots -> Nat] /\ SumFunctionOnSet(vector, 1..slots) = pool - floors
      /\ Falling(vector, slots)
  <2>1. PICK left \in Nat : left = pool - floors
    BY <1>3
  <2>2. vector = PrizeVector(structure, left, slots)
    BY <2>1
  <2>3. vector \in [1..slots -> Nat] /\ SumFunctionOnSet(vector, 1..slots) = left
    <3>1. slots \in Nat \ {0} /\ left \in Nat /\ Structure(structure)
      BY <1>5, <2>1
    <3>2. /\ PrizeVector(structure, left, slots) \in [1..slots -> Nat]
          /\ SumFunctionOnSet(PrizeVector(structure, left, slots), 1..slots) = left
      BY ONLY <3>1, PrizeVectorPays
    <3> QED
      BY <2>2, <3>2
  <2>4. Falling(vector, slots)
    <3>1. slots \in Nat \ {0} /\ left \in Nat /\ Structure(structure)
      BY <1>5, <2>1
    <3>2. Falling(PrizeVector(structure, left, slots), slots)
      BY ONLY <3>1, PrizeVectorFalls
    <3> QED
      BY <2>2, <3>2
  <2> QED
    BY <2>1, <2>3, <2>4
<1>7. Ranked(place, G)
  <2>1. \A u \in G : place[u] = Placement(entries, rule, u)
    OBVIOUS
  <2> QED
    BY <2>1, PlacementRanks
<1>8. /\ \A u \in G : payouts[u].placement = place[u]
      /\ Shared(paid, EvenSplit(floors, n), vector, slots, place, G)
  <2> SUFFICES ASSUME NEW u \in G
               PROVE  /\ payouts[u].placement = place[u]
                      /\ LET group    == {v \in G : place[v] = place[u]}
                             index    == IndexInGroup(group, u)
                             occupied == (place[u] .. place[u] + Cardinality(group) - 1) \cap (1..slots)
                             combined == SumFunctionOnSet(vector, occupied)
                         IN  paid[u] = EvenSplit(floors, n)[place[u] + index - 1]
                                         + EvenSplit(combined, Cardinality(group))[index]
    BY Zenon DEF Shared
  <2>1. {v \in G : place[v] = place[u]} = TieGroup(entries, rule, u)
    BY DEF TieGroup
  <2>2. place[u] = Placement(entries, rule, u) /\ paid[u] = payouts[u].payout
    OBVIOUS
  <2>3. /\ payouts[u].placement = Placement(entries, rule, u)
        /\ payouts[u].payout =
             LET group    == TieGroup(entries, rule, u)
                 index    == IndexInGroup(group, u)
                 occupied == (Placement(entries, rule, u)
                                .. Placement(entries, rule, u) + Cardinality(group) - 1) \cap (1..slots)
                 combined == SumFunctionOnSet(vector, occupied)
             IN  EvenSplit(floors, n)[Placement(entries, rule, u) + index - 1]
                   + EvenSplit(combined, Cardinality(group))[index]
    BY <1>4 DEF SettlePool
  <2> QED
    BY ONLY <2>1, <2>2, <2>3
<1>9. Handout(floors, vector, slots, place, G)
  BY <1>3, <1>5, <1>6, <1>7 DEF Handout
<1> QED
  BY <1>1, <1>2, <1>3, <1>5, <1>6, <1>8, <1>9

\* Every payout the engine computes is a whole amount, and together they are
\* the pool, whatever the ties, the structure, the guaranteed minimums, the
\* floor and the roundings (settle.ts, assertReconciles).
THEOREM SettlePoolPays ==
  ASSUME NEW entries, Entrants(entries), NEW rule \in TieBreaks,
         NEW structure, Structure(structure), NEW pool \in Nat, HasRecipients(pool, entries),
         NEW payouts, payouts = SettlePool(pool, entries, structure, rule)
  PROVE  /\ \A u \in DOMAIN entries : payouts[u].payout \in Nat
         /\ SumFunctionOnSet([u \in DOMAIN entries |-> payouts[u].payout], DOMAIN entries) = pool
<1> DEFINE G == DOMAIN entries
           payout == [u \in G |-> payouts[u].payout]
<1>1. CASE G = {}
  <2>1. pool = 0
    BY <1>1 DEF HasRecipients
  <2>2. SumFunctionOnSet(payout, {}) = 0
    BY SumEmpty
  <2> QED
    BY <1>1, <2>1, <2>2
<1>2. CASE G # {}
  <2>1. PICK n, floors, slots, vector, place, paid :
          /\ n = Cardinality(G)
          /\ floors = MinOf(pool, structure.floor * n)
          /\ slots = IF ScoredCount(entries) > 0 THEN ScoredCount(entries) ELSE n
          /\ vector = PrizeVector(structure, pool - floors, slots)
          /\ place = [u \in G |-> Placement(entries, rule, u)]
          /\ paid = payout
    OBVIOUS
  <2>2. /\ n \in Nat \ {0} /\ slots \in Nat \ {0} /\ slots <= n /\ floors \in 0..pool
        /\ SumFunctionOnSet(vector, 1..slots) = pool - floors
        /\ Handout(floors, vector, slots, place, G)
        /\ Shared(paid, EvenSplit(floors, n), vector, slots, place, G)
    BY <1>2, <2>1, EngineHandsOut
  <2>3. Ranked(place, G) /\ vector \in [1..slots -> Nat] /\ floors \in Nat
    BY <2>2 DEF Handout
  <2>4. PICK each : each = EvenSplit(floors, n)
    OBVIOUS
  <2>5. each \in [1..n -> Nat] /\ SumFunctionOnSet(each, 1..n) = floors
    BY <2>2, <2>3, <2>4, EvenSplitPays
  <2>6. n = Cardinality(G)
    BY <2>1
  <2>7. Shared(paid, each, vector, slots, place, G)
    BY <2>2, <2>4
  <2> HIDE DEF G, payout
  <2>8. /\ \A u \in G : paid[u] \in Nat
        /\ SumFunctionOnSet(paid, G) = SumFunctionOnSet(each, 1..n) + SumFunctionOnSet(vector, 1..slots)
    BY <2>2, <2>3, <2>5, <2>6, <2>7, SharesPay
  <2>9. SumFunctionOnSet(paid, G) = pool
    BY <2>2, <2>3, <2>5, <2>8
  <2> QED
    BY <2>1, <2>8, <2>9 DEF G, payout
<1> QED
  BY <1>1, <1>2

\* No entrant is paid less than one placed behind, tied ones differ by at most
\* a unit in the favour of the lower userId, and an unscored one gets the floor
\* alone once someone scored, whatever the pool, the entrants, the ties and the
\* structure (settle.ts, steps 2 to 4).
THEOREM EnginePaysInOrder ==
  ASSUME NEW entries, Entrants(entries), NEW rule \in TieBreaks,
         NEW structure, Structure(structure), NEW pool \in Nat,
         NEW payouts, payouts = SettlePool(pool, entries, structure, rule)
  PROVE  PaidInOrder(payouts, entries, structure)
<1> DEFINE G == DOMAIN entries
<1>1. CASE G = {}
  BY <1>1 DEF PaidInOrder
<1>2. CASE G # {}
  <2>1. PICK n, floors, slots, vector, place, paid :
          /\ n = Cardinality(G)
          /\ floors = MinOf(pool, structure.floor * n)
          /\ slots = IF ScoredCount(entries) > 0 THEN ScoredCount(entries) ELSE n
          /\ vector = PrizeVector(structure, pool - floors, slots)
          /\ place = [u \in G |-> Placement(entries, rule, u)]
          /\ paid = [u \in G |-> payouts[u].payout]
    OBVIOUS
  <2>2. /\ n \in Nat \ {0} /\ slots \in Nat \ {0} /\ slots <= n /\ floors \in 0..pool
        /\ structure.floor * n \in Nat
        /\ SumFunctionOnSet(vector, 1..slots) = pool - floors
        /\ Handout(floors, vector, slots, place, G)
        /\ Shared(paid, EvenSplit(floors, n), vector, slots, place, G)
        /\ \A u \in G : payouts[u].placement = place[u]
    BY <1>2, <2>1, EngineHandsOut
  <2>3. /\ floors \in Nat /\ structure.floor \in Nat /\ structure.floor * n = n * structure.floor
        /\ floors <= n * structure.floor /\ (floors = n * structure.floor \/ floors = pool)
    <3>1. structure.floor \in Nat
      BY DEF Structure
    <3>2. structure.floor * n = n * structure.floor
      BY <2>2, <3>1
    <3> QED
      BY <2>1, <2>2, <3>1, <3>2 DEF MinOf
  <2>4. /\ vector \in [1..slots -> Nat] /\ Falling(vector, slots)
        /\ Ranked(place, G)
    BY <2>2 DEF Handout
  <2> DEFINE group(u) == {v \in G : place[v] = place[u]}
             Gets(u, c) == Handed(paid[u], floors, vector, slots, n, place[u], Cardinality(group(u)),
                                  IndexInGroup(group(u), u), c)
  <2>5. ASSUME NEW u \in G
        PROVE  /\ payouts[u].placement = place[u] /\ payouts[u].payout = paid[u]
               /\ place[u] \in Nat /\ \E c \in Nat : Gets(u, c)
    <3>1. \E c \in Nat : Gets(u, c)
      <4>1. PICK g : g = {v \in G : place[v] = place[u]}
        OBVIOUS
      <4>2. PICK E : E = EvenSplit(floors, n)
        OBVIOUS
      <4>3. Shared(paid, EvenSplit(floors, Cardinality(G)), vector, slots, place, G)
        BY <2>2, <2>1
      <4>4. \E c \in Nat : Handed(paid[u], floors, vector, slots, Cardinality(G), place[u],
                                  Cardinality(g), IndexInGroup(g, u), c)
        <5>1. u \in G /\ Handout(floors, vector, slots, place, G)
          BY <2>2
        <5> HIDE DEF group, Gets, G
        <5> QED
          BY ONLY <5>1, <4>1, <4>3, EveryoneIsHanded
      <4>5. group(u) = g
        BY <4>1
      <4> HIDE DEF group
      <4> QED
        BY <2>1, <4>4, <4>5
    <3>2. place[u] \in Nat
      BY <2>4 DEF Ranked
    <3> HIDE DEF Gets
    <3> QED
      BY <2>1, <2>2, <3>1, <3>2
  <2>6. ASSUME NEW u \in G, NEW v \in G, place[u] < place[v]
        PROVE  paid[u] >= paid[v]
    <3>1. place[u] + Cardinality(group(u)) <= place[v]
      BY <2>4, <2>6, GroupsFollow
    <3>2. PICK c, d : Gets(u, c) /\ Gets(v, d)
      BY <2>5
    <3> HIDE DEF group
    <3>3. paid[u] \in Nat /\ paid[v] \in Nat /\ paid[v] <= paid[u]
      BY <2>2, <2>3, <2>4, <3>1, <3>2, BetterIsHandedMore
    <3> QED
      BY <3>3
  <2>7. ASSUME NEW u \in G, NEW v \in G, place[u] = place[v], u < v
        PROVE  paid[u] - paid[v] \in {0, 1}
    <3>1. group(v) = group(u) /\ u \in group(u) /\ v \in group(u)
      BY <2>7
    <3>2. IndexInGroup(group(u), u) < IndexInGroup(group(u), v)
      <4>1. IsFiniteSet(group(u)) /\ group(u) \subseteq Nat
        <5>1. PICK g : g = {w \in G : place[w] = place[u]}
          OBVIOUS
        <5>2. IsFiniteSet(g) /\ g \subseteq Nat
          <6>1. Ranked(place, G) /\ u \in G
            BY <2>4
          <6> HIDE DEF group, Gets, G
          <6> QED
            BY ONLY <6>1, <5>1, GroupFits
        <5> QED
          BY <5>1, <5>2
      <4> HIDE DEF group
      <4> QED
        BY <2>7, <3>1, <4>1, IndexOrders
    <3>3. PICK c, d : Gets(u, c) /\ Gets(v, d)
      BY <2>5
    <3>4. Handed(paid[v], floors, vector, slots, n, place[u], Cardinality(group(u)),
                 IndexInGroup(group(u), v), d)
      <4> HIDE DEF group
      <4> QED
        BY <2>7, <3>1, <3>3
    <3>5. floors = n * structure.floor \/ c = 0
      <4> SUFFICES ASSUME floors = pool PROVE c = 0
        BY <2>3
      <4>1. SumFunctionOnSet(vector, 1..slots) = 0
        BY <2>2
      <4> DEFINE S == (place[u] .. place[u] + Cardinality(group(u)) - 1) \cap (1..slots)
      <4>2. c = SumFunctionOnSet(vector, S) /\ c \in Nat
        BY <3>3 DEF Handed
      <4>3. SumFunctionOnSet(vector, S) <= SumFunctionOnSet(vector, 1..slots)
        <5>1. S \subseteq 1..slots
          OBVIOUS
        <5> HIDE DEF S
        <5> QED
          BY <2>2, <2>4, <5>1, PartOfTheSum
      <4> HIDE DEF S
      <4> QED
        BY <4>1, <4>2, <4>3
    <3>6. PICK s, i, j : s = Cardinality(group(u)) /\ i = IndexInGroup(group(u), u) /\ j = IndexInGroup(group(u), v)
      OBVIOUS
    <3> HIDE DEF group
    <3>7. /\ Handed(paid[u], floors, vector, slots, n, place[u], s, i, c)
          /\ Handed(paid[v], floors, vector, slots, n, place[u], s, j, d)
          /\ i < j
      BY <3>2, <3>3, <3>4, <3>6
    <3>8. PICK f, a, b, p : f = structure.floor /\ a = paid[u] /\ b = paid[v] /\ p = place[u]
      OBVIOUS
    <3>9. /\ floors \in Nat /\ n \in Nat \ {0} /\ f \in Nat /\ (floors = n * f \/ c = 0)
      BY <2>2, <2>3, <3>5, <3>8
    <3>10. /\ Handed(a, floors, vector, slots, n, p, s, i, c)
           /\ Handed(b, floors, vector, slots, n, p, s, j, d)
      BY <3>7, <3>8
    <3>11. a - b \in {0, 1}
      BY ONLY <3>7, <3>9, <3>10, TiedAreHandedAlike
    <3> QED
      BY <3>8, <3>11
  <2>8. ASSUME NEW w \in G, entries[w].score # None, NEW u \in G, entries[u].score = None
        PROVE  paid[u] <= structure.floor
    <3>1. slots = ScoredCount(entries) /\ place[u] > slots
      <4>1. /\ ScoredCount(entries) \in Nat /\ Placement(entries, rule, w) <= ScoredCount(entries)
            /\ Placement(entries, rule, u) > ScoredCount(entries)
        BY <2>8, ScoredComeFirst
      <4>2. place[u] = Placement(entries, rule, u) /\ place[w] = Placement(entries, rule, w)
        BY <2>1
      <4>3. place[w] \in Nat \ {0}
        BY <2>4, GroupFits
      <4> QED
        BY <2>1, <4>1, <4>2, <4>3
    <3>2. PICK p, s, i, c : Handed(paid[u], floors, vector, slots, n, p, s, i, c) /\ p = place[u]
      BY <2>5
    <3>3. /\ p \in Nat \ {0} /\ s \in Nat \ {0} /\ i \in 1..s /\ p + s - 1 <= n
          /\ c = SumFunctionOnSet(vector, (p .. p + s - 1) \cap (1..slots))
          /\ paid[u] = EvenSplit(floors, n)[p + i - 1] + EvenSplit(c, s)[i]
      BY <3>2 DEF Handed
    <3>4. (p .. p + s - 1) \cap (1..slots) = {}
      BY <2>2, <3>1, <3>2, <3>3
    <3>5. c = 0
      BY <3>3, <3>4, SumEmpty
    <3>6. EvenSplit(c, s)[i] = 0
      BY <3>3, <3>5, NothingToShare
    <3>7. p + i - 1 \in 1..n
      BY <2>2, <3>3
    <3>8. EvenSplit(floors, n)[p + i - 1] \in Nat /\ EvenSplit(floors, n)[p + i - 1] <= structure.floor
      BY <2>2, <2>3, <3>7, FloorIsHanded
    <3> QED
      BY <3>3, <3>6, <3>8
  <2> HIDE DEF group, Gets
  <2> QED
    BY <2>5, <2>6, <2>7, <2>8 DEF PaidInOrder
<1> QED
  BY <1>1, <1>2


\* A product divided by one factor is the other.
LEMMA QuotientOfProduct ==
  ASSUME NEW c \in Nat \ {0}, NEW w \in Nat
  PROVE  (c * w) \div c = w
<1> DEFINE b == c * w
           q == b \div c
           r == b % c
<1>1. b \in Nat
  OBVIOUS
<1>2. q \in Nat /\ r \in 0..(c - 1) /\ b = c * q + r
  <2> HIDE DEF b
  <2> QED
    BY <1>1
<1>3. b = c * w
  OBVIOUS
<1> HIDE DEF b, q, r
<1>4. c * q \in Nat /\ c * w \in Nat
  BY <1>2
<1>5. ~(w + 1 <= q)
  <2> SUFFICES ASSUME w + 1 <= q PROVE FALSE
    OBVIOUS
  <2>1. c * (w + 1) <= c * q
    BY <1>2, ProductRises
  <2>2. c * (w + 1) = c * w + c
    OBVIOUS
  <2> QED
    BY <1>2, <1>3, <1>4, <2>1, <2>2
<1>6. ~(q + 1 <= w)
  <2> SUFFICES ASSUME q + 1 <= w PROVE FALSE
    OBVIOUS
  <2>1. c * (q + 1) <= c * w
    BY <1>2, ProductRises
  <2>2. c * (q + 1) = c * q + c
    BY <1>2
  <2> QED
    BY <1>2, <1>3, <1>4, <2>1, <2>2
<1>7. q = w
  BY <1>2, <1>5, <1>6
<1> QED
  BY <1>7 DEF q, b

\* A sum over one element is its value.
LEMMA SumOne ==
  ASSUME NEW x, NEW f, f[x] \in Int
  PROVE  SumFunctionOnSet(f, {x}) = f[x]
<1>1. PICK S : S = {x}
  OBVIOUS
<1>2. IsFiniteSet(S)
  BY <1>1, FS_Singleton
<1>3. x \in S /\ \A y \in S : f[y] \in Int
  BY <1>1
<1>4. SumFunctionOnSet(f, S) = f[x] + SumFunctionOnSet(f, S \ {x})
  BY <1>2, <1>3, SumRemove
<1>5. S \ {x} = {}
  BY <1>1
<1>6. SumFunctionOnSet(f, S \ {x}) = 0
  BY <1>5, SumEmpty
<1>7. SumFunctionOnSet(f, S) = f[x]
  BY <1>4, <1>6
<1> QED
  BY <1>1, <1>7

\* An entrant nobody is tied with gets a share of the floor and the one prize at
\* the position, when a slot is left there.
LEMMA UntiedIsHanded ==
  ASSUME NEW slots \in Nat, NEW vector \in [1..slots -> Nat], NEW floors, NEW n \in Nat,
         NEW a, NEW p, NEW i, NEW c, Handed(a, floors, vector, slots, n, p, 1, i, c)
  PROVE  /\ p \in 1..n
         /\ a = EvenSplit(floors, n)[p] + (IF p <= slots THEN vector[p] ELSE 0)
<1>1. /\ p \in Nat \ {0} /\ p <= n /\ i = 1 /\ c \in Nat
      /\ c = SumFunctionOnSet(vector, (p .. p + 1 - 1) \cap (1..slots))
      /\ a = EvenSplit(floors, n)[p] + EvenSplit(c, 1)[1]
  <2>1. /\ p \in Nat \ {0} /\ i \in 1..1 /\ p + 1 - 1 <= n /\ c \in Nat
        /\ c = SumFunctionOnSet(vector, (p .. p + 1 - 1) \cap (1..slots))
        /\ a = EvenSplit(floors, n)[p + i - 1] + EvenSplit(c, 1)[i]
    BY DEF Handed
  <2>2. i = 1 /\ p + i - 1 = p /\ p <= n
    BY <2>1
  <2> QED
    BY <2>1, <2>2
<1>2. EvenSplit(c, 1)[1] = c
  <2>1. c = 1 * c /\ c <= 1 * c /\ 1 \in 1..1
    BY <1>1
  <2>2. 1 \in Nat \ {0}
    OBVIOUS
  <2> QED
    BY <1>1, <2>1, <2>2, FloorIsHanded
<1>3. CASE p <= slots
  <2>1. (p .. p + 1 - 1) \cap (1..slots) = {p} /\ p \in 1..slots
    BY <1>1, <1>3
  <2>2. vector[p] \in Nat /\ \A x \in {p} : vector[x] \in Int
    BY <2>1
  <2>3. SumFunctionOnSet(vector, {p}) = vector[p]
    BY <2>2, SumOne
  <2>4. c = SumFunctionOnSet(vector, {p})
    BY <1>1, <2>1
  <2>5. c = vector[p]
    BY ONLY <2>3, <2>4
  <2> QED
    BY <1>1, <1>2, <1>3, <2>5
<1>4. CASE ~(p <= slots)
  <2>1. (p .. p + 1 - 1) \cap (1..slots) = {}
    BY <1>1, <1>4
  <2>2. c = 0
    BY <1>1, <2>1, SumEmpty
  <2> QED
    BY <1>1, <1>2, <1>4, <2>2
<1> QED
  BY <1>3, <1>4

\* A table that fits loses nothing to the slots.
LEMMA FitIsWhole ==
  ASSUME NEW values \in Seq(Nat), NEW n \in Nat, Len(values) <= n
  PROVE  SumFunctionOnSet(Fit(values, n), 1..n) = SumFunction(values)
<1> DEFINE S == 1..n
           T == 1..Len(values)
           fit == Fit(values, n)
<1>1. IsFiniteSet(S) /\ S \cap T = T /\ DOMAIN values = T
  <2>1. IsFiniteSet(S)
    BY FS_Interval
  <2> QED
    BY <2>1
<1>2. \A x \in S \cap T : values[x] \in Int
  OBVIOUS
<1>3. \A x \in S : fit[x] = IF x \in T THEN values[x] ELSE 0
  BY DEF Fit
<1> HIDE DEF S, T, fit
<1>4. SumFunctionOnSet(fit, S) = SumFunctionOnSet(values, S \cap T)
  <2>1. IsFiniteSet(S)
    BY <1>1
  <2> QED
    BY ONLY <2>1, <1>2, <1>3, SumRestricted
<1>5. SumFunction(values) = SumFunctionOnSet(values, T)
  BY <1>1 DEF SumFunction
<1> QED
  BY <1>1, <1>4, <1>5 DEF S, fit

\* Weights that add up to the pool are paid as they are.
LEMMA ProportionalIsExact ==
  ASSUME NEW m \in Nat \ {0}, NEW weights \in [1..m -> Nat],
         NEW pool, pool = SumFunctionOnSet(weights, 1..m), NEW k \in 1..m
  PROVE  Proportional(pool, weights)[k] = weights[k]
<1> DEFINE I == 1..m
           floors == [i \in I |-> (pool * weights[i]) \div pool]
           left == pool - SumFunctionOnSet(floors, I)
<1>1. DOMAIN weights = I /\ IsFiniteSet(I)
  BY FS_Interval
<1>2. /\ weights[k] \in Nat /\ \A i \in I : weights[i] \in Nat
      /\ pool \in Nat /\ weights[k] <= pool
  <2>1. \A i \in I : weights[i] \in Nat
    OBVIOUS
  <2>2. pool \in Nat
    <3> HIDE DEF I
    <3> QED
      BY <1>1, <2>1, SumNat DEF I
  <2>3. SumFunctionOnSet(weights, {k}) <= pool
    <3>1. {k} \subseteq 1..m
      OBVIOUS
    <3> QED
      BY <3>1, PartOfTheSum
  <2>4. SumFunctionOnSet(weights, {k}) = weights[k]
    <3>1. weights[k] \in Int
      BY <2>1
    <3> QED
      BY <3>1, SumOne
  <2> QED
    BY <2>1, <2>2, <2>3, <2>4
<1>3. Proportional(pool, weights) =
        IF pool = 0 THEN [i \in I |-> IF i = 1 THEN pool ELSE 0]
                    ELSE [i \in I |-> floors[i] + (IF i <= left THEN 1 ELSE 0)]
  BY <1>1 DEF Proportional, SumFunction
<1>4. CASE pool = 0
  <2> HIDE DEF floors, left
  <2>1. Proportional(pool, weights)[k] = IF k = 1 THEN pool ELSE 0
    BY <1>3, <1>4
  <2>2. weights[k] = 0
    BY <1>2, <1>4
  <2> QED
    BY <1>4, <2>1, <2>2
<1>5. CASE pool # 0
  <2>1. \A i \in I : floors[i] = weights[i]
    <3> SUFFICES ASSUME NEW i \in I PROVE floors[i] = weights[i]
      OBVIOUS
    <3>1. PICK w \in Nat : w = weights[i]
      BY <1>2
    <3>2. (pool * w) \div pool = w
      <4> HIDE DEF I, floors, left
      <4> QED
        BY <1>2, <1>5, <3>1, QuotientOfProduct
    <3> QED
      BY <3>1, <3>2
  <2>2. SumFunctionOnSet(floors, I) = pool
    <3>1. \A x \in I : weights[x] \in Int /\ floors[x] = weights[x]
      BY <1>2, <2>1
    <3> HIDE DEF I, floors
    <3>2. SumFunctionOnSet(weights, I) = SumFunctionOnSet(floors, I)
      BY <1>1, <3>1, SumAgree
    <3> QED
      BY <3>2 DEF I
  <2>3. left = 0
    BY <1>2, <2>2
  <2>4. ~(k <= left) /\ floors[k] = weights[k]
    BY <2>1, <2>3
  <2> HIDE DEF floors, left
  <2>5. Proportional(pool, weights)[k] = floors[k] + (IF k <= left THEN 1 ELSE 0)
    BY <1>3, <1>5
  <2>6. Proportional(pool, weights)[k] = weights[k] + 0
    BY <2>4, <2>5
  <2> QED
    BY <1>2, <2>6
<1> QED
  BY <1>4, <1>5

\* A placement table whose total is the pool is paid line by line.
LEMMA TableIsPaid ==
  ASSUME NEW structure, Structure(structure), structure.minimums = <<>>,
         NEW slots \in Nat \ {0}, Len(structure.weights) <= slots,
         NEW pool, pool = SumFunction(structure.weights), NEW k \in 1..slots
  PROVE  PrizeVector(structure, pool, slots)[k] = Fit(structure.weights, slots)[k]
<1> DEFINE weights == Fit(structure.weights, slots)
           minimums == Fit(structure.minimums, slots)
           guaranteed == SumFunction(minimums)
<1>1. structure.weights \in Seq(Nat)
  BY DEF Structure
<1>2. weights \in [1..slots -> Nat]
  BY <1>1, FitFalls DEF Structure
<1>3. pool = SumFunctionOnSet(weights, 1..slots)
  BY <1>1, FitIsWhole
<1>4. minimums[k] = 0 /\ \A i \in 1..slots : minimums[i] = 0
  BY DEF Fit
<1>5. guaranteed = 0
  <2>1. guaranteed = SumFunctionOnSet(minimums, 1..slots)
    BY DEF SumFunction, Fit
  <2>2. IsFiniteSet(1..slots)
    BY FS_Interval
  <2> HIDE DEF minimums, guaranteed
  <2> QED
    BY <1>4, <2>1, <2>2, SumOfZeros
<1>6. pool \in Nat
  <2>1. 1..slots \subseteq 1..slots
    OBVIOUS
  <2> HIDE DEF weights
  <2> QED
    BY <1>2, <1>3, <2>1, PartOfTheSum
<1>7. PrizeVector(structure, pool, slots) =
        IF pool >= guaranteed
        THEN [i \in 1..slots |-> minimums[i] + Proportional(pool - guaranteed, weights)[i]]
        ELSE BestFirst(pool, minimums)
  BY DEF PrizeVector
<1> HIDE DEF minimums, weights, guaranteed
<1>8. pool - guaranteed = pool /\ pool >= guaranteed
  BY <1>5, <1>6
<1>9. Proportional(pool, weights)[k] = weights[k]
  BY <1>2, <1>3, ProportionalIsExact
<1>10. PrizeVector(structure, pool, slots)[k] = 0 + weights[k]
  BY <1>4, <1>7, <1>8, <1>9
<1>11. weights[k] \in Nat
  BY <1>2
<1> QED
  BY <1>10, <1>11 DEF weights

\* Where the pool covers the guaranteed minimums, no slot is below its own.
LEMMA MinimumsArePaid ==
  ASSUME NEW structure, Structure(structure), NEW slots \in Nat \ {0}, NEW pool \in Nat,
         pool >= SumFunction(Fit(structure.minimums, slots)), NEW k \in 1..slots
  PROVE  /\ Fit(structure.minimums, slots)[k] \in Nat
         /\ PrizeVector(structure, pool, slots)[k] >= Fit(structure.minimums, slots)[k]
<1> DEFINE weights == Fit(structure.weights, slots)
           minimums == Fit(structure.minimums, slots)
           guaranteed == SumFunction(minimums)
           rest == Proportional(pool - guaranteed, weights)
<1>1. weights \in [1..slots -> Nat] /\ minimums \in [1..slots -> Nat]
  BY FitFalls DEF Structure
<1>2. guaranteed \in Nat
  <2>1. guaranteed = SumFunctionOnSet(minimums, 1..slots)
    BY DEF SumFunction, Fit
  <2>2. 1..slots \subseteq 1..slots
    OBVIOUS
  <2> HIDE DEF minimums, guaranteed
  <2> QED
    BY <1>1, <2>1, <2>2, PartOfTheSum
<1>3. PrizeVector(structure, pool, slots) =
        IF pool >= guaranteed
        THEN [i \in 1..slots |-> minimums[i] + rest[i]] ELSE BestFirst(pool, minimums)
  BY DEF PrizeVector
<1>4. pool >= guaranteed
  OBVIOUS
<1> HIDE DEF minimums, weights, guaranteed
<1>5. rest[k] \in Nat
  <2>1. pool - guaranteed \in Nat
    BY <1>2, <1>4
  <2>2. rest \in [1..slots -> Nat]
    BY <1>1, <2>1, ProportionalPays
  <2> QED
    BY <2>2
<1>6. PrizeVector(structure, pool, slots)[k] = minimums[k] + rest[k] /\ minimums[k] \in Nat
  BY <1>1, <1>3, <1>4
<1>7. minimums[k] \in Nat /\ PrizeVector(structure, pool, slots)[k] >= minimums[k]
  <2> HIDE DEF rest
  <2> QED
    BY <1>5, <1>6
<1> QED
  BY <1>7 DEF minimums

\* An untied placement is paid what the structure promises it: its line of a
\* table whose total is the pool, and its guaranteed minimum on top of the floor
\* whenever the pool covers them all, whatever the entrants and the ties
\* elsewhere (settle.ts, step 3; types.ts, prizeStructureSchema).
THEOREM EnginePaysItsPrize ==
  ASSUME NEW entries, Entrants(entries), NEW rule \in TieBreaks,
         NEW structure, Structure(structure), NEW pool \in Nat,
         NEW payouts, payouts = SettlePool(pool, entries, structure, rule)
  PROVE  PaidItsPrize(payouts, pool, entries, structure)
<1> DEFINE G == DOMAIN entries
<1>1. CASE G = {}
  BY <1>1 DEF PaidItsPrize
<1>2. CASE G # {}
  <2>1. PICK n, floors, slots, vector, place, paid :
          /\ n = Cardinality(G)
          /\ floors = MinOf(pool, structure.floor * n)
          /\ slots = IF ScoredCount(entries) > 0 THEN ScoredCount(entries) ELSE n
          /\ vector = PrizeVector(structure, pool - floors, slots)
          /\ place = [u \in G |-> Placement(entries, rule, u)]
          /\ paid = [u \in G |-> payouts[u].payout]
    OBVIOUS
  <2>2. /\ n \in Nat \ {0} /\ slots \in Nat \ {0} /\ slots <= n /\ floors \in 0..pool
        /\ structure.floor * n \in Nat
        /\ Handout(floors, vector, slots, place, G)
        /\ Shared(paid, EvenSplit(floors, n), vector, slots, place, G)
        /\ \A u \in G : payouts[u].placement = place[u]
    BY <1>2, <2>1, EngineHandsOut
  <2>3. vector \in [1..slots -> Nat] /\ Ranked(place, G)
    BY <2>2 DEF Handout
  <2> DEFINE Untied(u) == \A v \in G \ {u} : payouts[v].placement # payouts[u].placement
  <2>4. ASSUME NEW u \in G, Untied(u)
        PROVE  /\ payouts[u].placement = place[u] /\ payouts[u].payout = paid[u]
               /\ place[u] \in 1..n
               /\ paid[u] = EvenSplit(floors, n)[place[u]]
                              + (IF place[u] <= slots THEN vector[place[u]] ELSE 0)
    <3>1. PICK g : g = {v \in G : place[v] = place[u]}
      OBVIOUS
    <3>2. Cardinality(g) = 1
      <4>1. g = {u}
        BY <2>2, <2>4, <3>1
      <4> QED
        BY <4>1, FS_Singleton
    <3>3. \E c \in Nat : Handed(paid[u], floors, vector, slots, n, place[u], 1,
                                IndexInGroup(g, u), c)
      <4>1. /\ u \in G /\ Handout(floors, vector, slots, place, G)
            /\ Shared(paid, EvenSplit(floors, Cardinality(G)), vector, slots, place, G)
        BY <2>1, <2>2
      <4>2. \E c \in Nat : Handed(paid[u], floors, vector, slots, Cardinality(G), place[u],
                                  Cardinality(g), IndexInGroup(g, u), c)
        <5> HIDE DEF G, Untied
        <5> QED
          BY ONLY <3>1, <4>1, EveryoneIsHanded
      <4> QED
        BY <2>1, <3>2, <4>2
    <3>4. PICK i, c : Handed(paid[u], floors, vector, slots, n, place[u], 1, i, c)
      BY <3>3
    <3>5. PICK a, p : a = paid[u] /\ p = place[u]
      OBVIOUS
    <3>6. /\ p \in 1..n
          /\ a = EvenSplit(floors, n)[p] + (IF p <= slots THEN vector[p] ELSE 0)
      <4>1. Handed(a, floors, vector, slots, n, p, 1, i, c)
        BY <3>4, <3>5
      <4>2. slots \in Nat /\ n \in Nat /\ vector \in [1..slots -> Nat]
        BY <2>2, <2>3
      <4> HIDE DEF G, Untied
      <4>3. p \in 1..n
        BY ONLY <4>1, <4>2, UntiedIsHanded
      <4>4. a = EvenSplit(floors, n)[p] + (IF p <= slots THEN vector[p] ELSE 0)
        BY ONLY <4>1, <4>2, UntiedIsHanded
      <4> QED
        BY <4>3, <4>4
    <3>7. payouts[u].placement = place[u] /\ payouts[u].payout = paid[u]
      BY <2>1, <2>2
    <3> QED
      BY <3>5, <3>6, <3>7
  <2>5. /\ structure.weights \in Seq(Nat) /\ structure.minimums \in Seq(Nat) /\ structure.floor \in Nat
        /\ Len(structure.weights) \in Nat
    BY DEF Structure
  <2>6. ASSUME structure.minimums = <<>>, structure.floor = 0, Len(structure.weights) <= slots,
               pool = SumFunction(structure.weights), NEW u \in G, Untied(u)
        PROVE  payouts[u].payout = Fit(structure.weights, n)[payouts[u].placement]
    <3>1. floors = 0 /\ pool - floors = pool
      <4>1. structure.floor * n = 0
        BY <2>2, <2>6
      <4> QED
        BY <2>1, <4>1 DEF MinOf
    <3>2. PICK p : p = place[u]
      OBVIOUS
    <3>3. /\ p \in 1..n /\ payouts[u].placement = p
          /\ payouts[u].payout = EvenSplit(0, n)[p] + (IF p <= slots THEN vector[p] ELSE 0)
      BY <2>4, <2>6, <3>1, <3>2
    <3>4. EvenSplit(0, n)[p] = 0
      BY <2>2, <3>3, NothingToShare
    <3>5. Fit(structure.weights, n)[p] = IF p <= Len(structure.weights) THEN structure.weights[p] ELSE 0
      BY <3>3 DEF Fit
    <3>6. CASE p <= slots
      <4>1. p \in 1..slots
        BY <3>3, <3>6, <2>2
      <4>2. vector[p] = Fit(structure.weights, slots)[p]
        <5>1. PrizeVector(structure, pool, slots)[p] = Fit(structure.weights, slots)[p]
          BY <2>2, <2>6, <4>1, TableIsPaid
        <5> QED
          BY <2>1, <3>1, <5>1
      <4>3. Fit(structure.weights, slots)[p] = Fit(structure.weights, n)[p]
        BY <3>5, <4>1 DEF Fit
      <4>4. vector[p] \in Nat
        BY <2>3, <4>1
      <4> QED
        BY <3>3, <3>4, <3>6, <4>2, <4>3, <4>4
    <3>7. CASE ~(p <= slots)
      <4>1. ~(p <= Len(structure.weights))
        BY <2>2, <2>5, <2>6, <3>3, <3>7
      <4> QED
        BY <3>3, <3>4, <3>5, <3>7, <4>1
    <3> QED
      BY <3>6, <3>7
  <2> DEFINE minimums == Fit(structure.minimums, slots)
  <2>7. ASSUME pool >= structure.floor * n + SumFunction(minimums),
               NEW u \in G, entries[u].score # None, Untied(u)
        PROVE  payouts[u].payout >= structure.floor + minimums[payouts[u].placement]
    <3>1. PICK p : p = place[u]
      OBVIOUS
    <3>2. /\ p \in 1..n /\ payouts[u].placement = p
          /\ payouts[u].payout = EvenSplit(floors, n)[p] + (IF p <= slots THEN vector[p] ELSE 0)
      BY <2>4, <2>7, <3>1
    <3>3. p <= slots /\ p \in 1..slots
      <4>1. ScoredCount(entries) \in Nat /\ Placement(entries, rule, u) <= ScoredCount(entries)
        BY <2>7, ScoredComeFirst
      <4>2. p = Placement(entries, rule, u)
        BY <2>1, <3>1
      <4> QED
        BY <2>1, <2>2, <3>2, <4>1, <4>2
    <3>4. SumFunction(minimums) \in Nat
      <4>1. minimums \in [1..slots -> Nat] /\ DOMAIN minimums = 1..slots
        BY <2>2, <2>5, FitFalls DEF Structure
      <4>2. 1..slots \subseteq 1..slots
        OBVIOUS
      <4>3. SumFunction(minimums) = SumFunctionOnSet(minimums, 1..slots)
        BY <4>1 DEF SumFunction
      <4> HIDE DEF minimums
      <4> QED
        BY <2>2, <4>1, <4>2, <4>3, PartOfTheSum
    <3>5. floors = structure.floor * n /\ pool - floors \in Nat /\ pool - floors >= SumFunction(minimums)
      <4> HIDE DEF minimums
      <4>1. structure.floor * n <= pool
        BY <2>2, <2>7, <3>4
      <4> QED
        BY <2>1, <2>2, <2>7, <3>4, <4>1 DEF MinOf
    <3>6. EvenSplit(floors, n)[p] = structure.floor
      <4>1. floors = n * structure.floor /\ floors <= n * structure.floor /\ floors \in Nat
        BY <2>2, <2>5, <3>5
      <4> QED
        BY <2>2, <2>5, <3>2, <4>1, FloorIsHanded
    <3>7. minimums[p] \in Nat /\ vector[p] >= minimums[p] /\ vector[p] \in Nat
      <4>1. vector[p] \in Nat
        BY <2>3, <3>3
      <4>2. PICK x : x = pool - floors
        OBVIOUS
      <4>3. x \in Nat /\ x >= SumFunction(Fit(structure.minimums, slots))
        BY <3>5, <4>2
      <4>4. /\ Fit(structure.minimums, slots)[p] \in Nat
            /\ PrizeVector(structure, x, slots)[p] >= Fit(structure.minimums, slots)[p]
        BY <2>2, <3>3, <4>3, MinimumsArePaid
      <4> QED
        BY <2>1, <4>1, <4>2, <4>4
    <3> HIDE DEF minimums
    <3> QED
      BY <2>5, <3>2, <3>3, <3>6, <3>7
  <2>8. n = Cardinality(DOMAIN entries)
    BY <2>1
  <2> QED
    <3> HIDE DEF minimums
    <3> QED
      BY <2>1, <2>6, <2>7, <2>8 DEF PaidItsPrize, minimums
<1> QED
  BY <1>1, <1>2

-----------------------------------------------------------------------------
(* The lifecycle and the escrow.                                           *)

\* A contest that exists has a definition.
Defined == \A c \in Contests : state[c] # "absent" => definition[c] \in Definitions

\* Nobody has entered a contest that has not been opened.
NobodyBeforeOpen ==
  \A c \in Contests : state[c] \in {"absent", "draft"} => Active(c) = {}

LinesHaveAmounts == \A line \in journal : line.amount \in Nat

IInv ==
  /\ TypeOK
  /\ Defined
  /\ NobodyBeforeOpen
  /\ LinesHaveAmounts
  /\ EscrowHoldsTheStakes

-----------------------------------------------------------------------------
(* Lemmas about the operators of the model.                                *)

\* The active participants are finitely many.
LEMMA ActiveIsFinite ==
  ASSUME NEW c \in Contests
  PROVE  IsFiniteSet(Active(c)) /\ Cardinality(Active(c)) \in Nat
<1>1. Active(c) \subseteq Users
  BY DEF Active
<1>2. IsFiniteSet(Active(c))
  BY <1>1, UsersAssumption, FS_Subset
<1> QED
  BY <1>2, FS_CardinalityType

\* The rake of a non-negative escrow is a whole number, at most half of it.
LEMMA RakeIsWithinTheEscrow ==
  ASSUME NEW amount \in Nat, NEW bps \in Nat, bps <= 5000
  PROVE  ApplyBps(amount, bps) \in Nat /\ 2 * ApplyBps(amount, bps) <= amount
<1>1. amount * bps \in Nat /\ amount * bps <= amount * 5000
  OBVIOUS
<1>2. (amount * bps) \div 10000 \in Nat /\ 2 * ((amount * bps) \div 10000) <= amount
  <2> DEFINE product == amount * bps
  <2>1. product \in Nat /\ product <= amount * 5000
    BY <1>1
  <2> HIDE DEF product
  <2>2. product \div 10000 \in Nat /\ 2 * (product \div 10000) <= amount
    BY <2>1
  <2> QED
    BY <2>2 DEF product
<1> QED
  BY <1>2 DEF ApplyBps

\* A transition of the table never leads back to draft or absent, never out
\* of a terminal state, and to settling only from awaiting_settlement.
LEMMA TableFacts ==
  ASSUME NEW from \in ContestStates, NEW to \in Transitions[from]
  PROVE  /\ to \in ContestStates \ {"absent", "draft"}
         /\ from \notin Terminal \cup {"absent"}
         /\ from = "draft" => to \in {"open", "cancelled"}
         /\ to = "settling" => from = "awaiting_settlement"
         /\ to = "voided" => from \notin {"draft", "settling"}
  BY DEF ContestStates, Transitions, Terminal

-----------------------------------------------------------------------------
(* The invariant holds initially.                                          *)

\* Nobody has entered and nothing was posted when the system starts.
LEMMA InitEstablishes == Init => IInv
<1> SUFFICES ASSUME Init PROVE IInv
  OBVIOUS
<1>1. TypeOK
  BY BalanceAssumption DEF Init, TypeOK, ContestStates
<1>2. \A c \in Contests : Active(c) = {}
  BY DEF Init, Active
<1>3. Defined /\ NobodyBeforeOpen /\ LinesHaveAmounts
  BY <1>2 DEF Init, Defined, NobodyBeforeOpen, LinesHaveAmounts
<1>4. EscrowHoldsTheStakes
  BY DEF Init, EscrowHoldsTheStakes
<1> QED
  BY <1>1, <1>3, <1>4 DEF IInv

-----------------------------------------------------------------------------
(* Each action preserves it.                                               *)

\* What an action that leaves participants, definitions, states, balances and
\* the journal alone preserves.
LEMMA FramePreserves ==
  ASSUME IInv, TypeOK',
         UNCHANGED <<state, definition, participant, escrow, journal>>
  PROVE  IInv'
<1>1. \A c \in Contests : Active(c)' = Active(c)
  BY DEF Active
<1>2. Defined' /\ NobodyBeforeOpen' /\ LinesHaveAmounts'
  BY <1>1 DEF IInv, Defined, NobodyBeforeOpen, LinesHaveAmounts
<1>3. EscrowHoldsTheStakes'
  BY <1>1 DEF IInv, EscrowHoldsTheStakes
<1> QED
  BY <1>2, <1>3 DEF IInv

\* The arrival of a request only reads the clock.
LEMMA ArrivePreserves ==
  ASSUME IInv, NEW k \in Keys, Arrive(k) \/ EndWithoutEffect(k)
  PROVE  IInv'
<1>1. TypeOK'
  BY DEF IInv, TypeOK, Arrive, EndWithoutEffect, money
<1> QED
  BY <1>1, FramePreserves DEF Arrive, EndWithoutEffect, money

\* Neither the lock time nor an operator's preview touches the money.
LEMMA ClockAndPreviewPreserve ==
  ASSUME IInv, NEW c \in Contests, LockTimePasses(c) \/ Preview(c)
  PROVE  IInv'
<1>1. TypeOK'
  BY DEF IInv, TypeOK, LockTimePasses, Preview, money, requests
<1> QED
  BY <1>1, FramePreserves DEF LockTimePasses, Preview, money, requests

\* A contest is created, or edited before anyone can have entered.
LEMMA CreateAndUpdatePreserve ==
  ASSUME IInv, NEW c \in Contests, NEW d \in Definitions,
         CreateContest(c, d) \/ UpdateContest(c, d)
  PROVE  IInv'
<1> USE DEF money, requests
<1>1. TypeOK'
  BY DEF IInv, TypeOK, CreateContest, UpdateContest, ContestStates
<1>2. \A e \in Contests : Active(e)' = Active(e)
  BY DEF Active, CreateContest, UpdateContest
<1>3. state[c] \in {"absent", "draft"} /\ state'[c] = "draft"
  BY DEF CreateContest, UpdateContest, IInv, TypeOK
<1>4. Defined'
  BY DEF IInv, TypeOK, Defined, CreateContest, UpdateContest
<1>5. NobodyBeforeOpen'
  BY <1>2, <1>3 DEF IInv, TypeOK, NobodyBeforeOpen, CreateContest, UpdateContest
<1>6. LinesHaveAmounts'
  BY DEF IInv, LinesHaveAmounts, CreateContest, UpdateContest
<1>7. EscrowHoldsTheStakes'
  <2> SUFFICES ASSUME NEW e \in Contests
               PROVE  IF state'[e] \in Terminal \cup {"absent", "draft"}
                      THEN escrow'[e] = 0
                      ELSE escrow'[e] = definition'[e].amount * Cardinality(Active(e)')
    BY DEF EscrowHoldsTheStakes
  <2>1. CASE e = c
    BY <2>1, <1>3 DEF IInv, EscrowHoldsTheStakes, CreateContest, UpdateContest
  <2>2. CASE e # c
    <3>1. state'[e] = state[e] /\ definition'[e] = definition[e] /\ escrow'[e] = escrow[e]
      BY <2>2 DEF CreateContest, UpdateContest, IInv, TypeOK
    <3> QED
      BY <3>1, <1>2 DEF IInv, EscrowHoldsTheStakes
  <2> QED
    BY <2>1, <2>2
<1> QED
  BY <1>1, <1>4, <1>5, <1>6, <1>7 DEF IInv

\* A plain transition moves no money.
LEMMA TransitionPreserves ==
  ASSUME IInv, NEW c \in Contests, NEW to \in ContestStates, NEW actor \in Actors,
         TransitionContest(c, to, actor)
  PROVE  IInv'
<1> USE DEF money, requests
<1>1. /\ state[c] \in ContestStates /\ to \in Transitions[state[c]]
      /\ to \in PlainTargets
  BY DEF IInv, TypeOK, TransitionContest, AssertTransition
<1>2. /\ to \notin {"absent", "draft"} /\ state[c] \notin Terminal \cup {"absent"}
      /\ state[c] = "draft" => to \in {"open", "cancelled"}
  BY <1>1, TableFacts
<1>3. TypeOK'
  BY <1>1 DEF IInv, TypeOK, TransitionContest, PlainTargets
<1>4. \A e \in Contests : Active(e)' = Active(e)
  BY DEF Active, TransitionContest
<1>5. Defined' /\ NobodyBeforeOpen' /\ LinesHaveAmounts'
  BY <1>2, <1>4 DEF IInv, TypeOK, Defined, NobodyBeforeOpen, LinesHaveAmounts, TransitionContest
<1>6. EscrowHoldsTheStakes'
  <2> SUFFICES ASSUME NEW e \in Contests
               PROVE  IF state'[e] \in Terminal \cup {"absent", "draft"}
                      THEN escrow'[e] = 0
                      ELSE escrow'[e] = definition'[e].amount * Cardinality(Active(e)')
    BY DEF EscrowHoldsTheStakes
  <2>0. escrow' = escrow /\ definition' = definition
    BY DEF TransitionContest
  <2>1. CASE e # c
    <3>1. state'[e] = state[e]
      BY <2>1 DEF TransitionContest, IInv, TypeOK
    <3> QED
      BY <3>1, <2>0, <1>4 DEF IInv, EscrowHoldsTheStakes
  <2>2. CASE e = c /\ to = "cancelled"
    <3>1. state'[c] = "cancelled" /\ escrow[c] = 0
      BY <2>2 DEF MayCancel, TransitionContest, IInv, TypeOK
    <3> QED
      BY <3>1, <2>0, <2>2 DEF Terminal
  <2>3. CASE e = c /\ to # "cancelled" /\ state[c] = "draft"
    \* The contest opens empty.
    <3>1. escrow[c] = 0 /\ Active(c) = {} /\ definition[c].amount \in Nat
      BY <2>3, DefinitionsAssumption DEF IInv, Defined, NobodyBeforeOpen, EscrowHoldsTheStakes
    <3>2. definition[c].amount * Cardinality(Active(c)) = 0
      BY <3>1, FS_EmptySet
    <3>3. state'[c] = "open"
      BY <2>3, <1>2 DEF TransitionContest, IInv, TypeOK
    <3> QED
      BY <3>1, <3>2, <3>3, <2>0, <2>3, <1>4 DEF Terminal
  <2>4. CASE e = c /\ to # "cancelled" /\ state[c] # "draft"
    <3>1. state[c] \notin Terminal \cup {"absent", "draft"}
      BY <2>4, <1>2
    <3>2. escrow[c] = definition[c].amount * Cardinality(Active(c))
      BY <3>1 DEF IInv, EscrowHoldsTheStakes
    <3>3. state'[c] = to /\ to \notin Terminal \cup {"absent", "draft"}
      BY <2>4, <1>1, <1>2 DEF TransitionContest, IInv, TypeOK, PlainTargets, Terminal
    <3> QED
      BY <3>2, <3>3, <2>0, <2>4, <1>4
  <2> QED
    BY <2>1, <2>2, <2>3, <2>4
<1> QED
  BY <1>3, <1>5, <1>6 DEF IInv

\* An entry moves the stake of a new entrant into the escrow.
LEMMA EnterPreserves ==
  ASSUME IInv, NEW k \in Keys, NEW c \in Contests, NEW u \in Users, Enter(k, c, u)
  PROVE  IInv'
<1>1. /\ state[c] = "open" /\ definition[c] \in Definitions
      /\ definition[c].amount \in Nat /\ wallet[u] \in Nat /\ escrow[c] \in Nat
      /\ wallet[u] >= definition[c].amount
  BY DefinitionsAssumption DEF IInv, TypeOK, Defined, Enter, Covers
<1>2. TypeOK'
  BY <1>1 DEF IInv, TypeOK, Enter, Record
<1>3. Active(c)' = Active(c) \cup {u} /\ u \notin Active(c)
  BY DEF IInv, TypeOK, Enter, Active, MayEnter
<1>4. \A e \in Contests \ {c} : Active(e)' = Active(e)
  BY DEF IInv, TypeOK, Enter, Active
<1>5. Defined' /\ NobodyBeforeOpen'
  BY <1>1, <1>4 DEF IInv, Defined, NobodyBeforeOpen, Enter
<1>6. LinesHaveAmounts'
  BY <1>1 DEF IInv, LinesHaveAmounts, Enter, Line
<1>7. EscrowHoldsTheStakes'
  <2> SUFFICES ASSUME NEW e \in Contests
               PROVE  IF state'[e] \in Terminal \cup {"absent", "draft"}
                      THEN escrow'[e] = 0
                      ELSE escrow'[e] = definition'[e].amount * Cardinality(Active(e)')
    BY DEF EscrowHoldsTheStakes
  <2>1. CASE e = c
    <3>1. Cardinality(Active(c)') = Cardinality(Active(c)) + 1 /\ Cardinality(Active(c)) \in Nat
      BY <1>3, ActiveIsFinite, FS_AddElement
    <3>2. escrow[c] = definition[c].amount * Cardinality(Active(c))
      BY <1>1 DEF IInv, EscrowHoldsTheStakes, Terminal
    <3>3. escrow'[c] = escrow[c] + definition[c].amount
      BY DEF Enter, IInv, TypeOK
    <3>4. escrow'[c] = definition[c].amount * (Cardinality(Active(c)) + 1)
      BY <3>1, <3>2, <3>3, <1>1
    <3> QED
      BY <3>1, <3>4, <1>1, <2>1 DEF Enter, Terminal
  <2>2. CASE e # c
    BY <2>2, <1>4 DEF IInv, TypeOK, EscrowHoldsTheStakes, Enter
  <2> QED
    BY <2>1, <2>2
<1> QED
  BY <1>2, <1>5, <1>6, <1>7 DEF IInv

\* A withdrawal moves the stake of an active entrant back.
LEMMA WithdrawPreserves ==
  ASSUME IInv, NEW k \in Keys, NEW c \in Contests, NEW u \in Users, Withdraw(k, c, u)
  PROVE  IInv'
<1>1. /\ state[c] = "open" /\ definition[c] \in Definitions
      /\ definition[c].amount \in Nat /\ wallet[u] \in Nat /\ escrow[c] \in Nat
      /\ escrow[c] >= definition[c].amount
  BY DefinitionsAssumption DEF IInv, TypeOK, Defined, Withdraw, Covers
<1>2. TypeOK'
  BY <1>1 DEF IInv, TypeOK, Withdraw, Record
<1>3. Active(c)' = Active(c) \ {u} /\ u \in Active(c)
  BY DEF IInv, TypeOK, Withdraw, Active, MayWithdraw
<1>4. \A e \in Contests \ {c} : Active(e)' = Active(e)
  BY DEF IInv, TypeOK, Withdraw, Active
<1>5. Defined' /\ NobodyBeforeOpen'
  BY <1>1, <1>4 DEF IInv, Defined, NobodyBeforeOpen, Withdraw
<1>6. LinesHaveAmounts'
  BY <1>1 DEF IInv, LinesHaveAmounts, Withdraw, Line
<1>7. EscrowHoldsTheStakes'
  <2> SUFFICES ASSUME NEW e \in Contests
               PROVE  IF state'[e] \in Terminal \cup {"absent", "draft"}
                      THEN escrow'[e] = 0
                      ELSE escrow'[e] = definition'[e].amount * Cardinality(Active(e)')
    BY DEF EscrowHoldsTheStakes
  <2>1. CASE e = c
    <3>1. Cardinality(Active(c)') = Cardinality(Active(c)) - 1 /\ Cardinality(Active(c)) \in Nat
      BY <1>3, ActiveIsFinite, FS_RemoveElement
    <3>2. escrow[c] = definition[c].amount * Cardinality(Active(c))
      BY <1>1 DEF IInv, EscrowHoldsTheStakes, Terminal
    <3>3. escrow'[c] = escrow[c] - definition[c].amount
      BY DEF Withdraw, IInv, TypeOK
    <3>4. escrow'[c] = definition[c].amount * (Cardinality(Active(c)) - 1)
      BY <3>1, <3>2, <3>3, <1>1
    <3> QED
      BY <3>1, <3>4, <1>1, <2>1 DEF Withdraw, Terminal
  <2>2. CASE e # c
    BY <2>2, <1>4 DEF IInv, TypeOK, EscrowHoldsTheStakes, Withdraw
  <2> QED
    BY <2>1, <2>2
<1> QED
  BY <1>2, <1>5, <1>6, <1>7 DEF IInv

\* A contest that ends with an empty escrow: what settling and voiding share.
LEMMA EndingPreserves ==
  ASSUME IInv, TypeOK', LinesHaveAmounts', NEW c \in Contests,
         state[c] \notin {"absent", "draft"},
         NEW final \in {"settled", "voided"}, state' = [state EXCEPT ![c] = final],
         escrow' = [escrow EXCEPT ![c] = 0],
         UNCHANGED <<definition, participant>>
  PROVE  IInv'
<1>1. \A e \in Contests : Active(e)' = Active(e)
  BY DEF Active
<1>2. Defined' /\ NobodyBeforeOpen'
  BY <1>1 DEF IInv, TypeOK, Defined, NobodyBeforeOpen
<1>3. EscrowHoldsTheStakes'
  BY <1>1 DEF IInv, TypeOK, EscrowHoldsTheStakes, Terminal
<1> QED
  BY <1>2, <1>3 DEF IInv

\* The settlement itself keeps balances and line amounts whole.
LEMMA SettlementTypes ==
  ASSUME IInv, NEW c \in Contests, NEW scores, definition[c] \in Definitions,
         ExecuteSettlement(c, scores)
  PROVE  /\ wallet' \in [Users -> Nat] /\ fees' \in Nat
         /\ escrow' \in [Contests -> Nat] /\ state' \in [Contests -> ContestStates \ {"settling"}]
         /\ LinesHaveAmounts'
<1> DEFINE payouts == ComputeSettlement(c, scores)
           rake    == RakeAmount(c)
<1>1. rake \in Nat
  <2> DEFINE held == escrow[c]
             bps  == definition[c].rake
  <2>1. held \in Nat
    BY DEF IInv, TypeOK
  <2>2. bps \in Nat /\ bps <= 5000
    BY DefinitionsAssumption
  <2>3. rake = ApplyBps(held, bps)
    BY DEF RakeAmount
  <2> HIDE DEF held, bps, rake
  <2> QED
    BY <2>1, <2>2, <2>3, RakeIsWithinTheEscrow, SMT
<1>2. \A u \in PaidUsers(payouts) : payouts[u].payout \in Nat
  BY DEF ExecuteSettlement, ValidLines
<1>3. /\ fees' = fees + rake
      /\ wallet' = [u \in Users |->
                      IF u \in PaidUsers(payouts) THEN wallet[u] + payouts[u].payout ELSE wallet[u]]
      /\ journal' = journal
           \cup {Line(RakeOf(c), "fee", c, None, rake, None) : r \in {rake} \ {0}}
           \cup {Line(SettleOf(c), "settle", c, u, payouts[u].payout, None) : u \in PaidUsers(payouts)}
  BY DEF ExecuteSettlement
<1> HIDE DEF payouts, rake
<1>4. wallet' \in [Users -> Nat] /\ fees' \in Nat
  BY <1>1, <1>2, <1>3 DEF IInv, TypeOK
<1>5. LinesHaveAmounts'
  <2>1. \A u \in PaidUsers(payouts) :
          Line(SettleOf(c), "settle", c, u, payouts[u].payout, None).amount \in Nat
    BY <1>2 DEF Line
  <2>2. Line(RakeOf(c), "fee", c, None, rake, None).amount \in Nat
    BY <1>1 DEF Line
  <2>3. \A line \in journal : line.amount \in Nat
    BY DEF IInv, LinesHaveAmounts
  <2> QED
    BY <1>3, <2>1, <2>2, <2>3 DEF LinesHaveAmounts
<1>6. escrow' \in [Contests -> Nat] /\ state' \in [Contests -> ContestStates \ {"settling"}]
  BY DEF ExecuteSettlement, IInv, TypeOK, ContestStates
<1> QED
  BY <1>4, <1>5, <1>6

\* An operator's close settles the contest.
LEMMA ClosePreserves ==
  ASSUME IInv, NEW c \in Contests, NEW actor \in Actors, CloseContest(c, actor)
  PROVE  IInv'
<1>1. state[c] = "awaiting_settlement"
  BY TableFacts DEF CloseContest, AssertTransition, IInv, TypeOK
<1>2. definition[c] \in Definitions
  BY <1>1 DEF IInv, Defined
<1>3. ExecuteSettlement(c, score[c])
  BY DEF CloseContest
<1>4. TypeOK' /\ LinesHaveAmounts'
  BY <1>2, <1>3, SettlementTypes DEF CloseContest, ExecuteSettlement, requests, IInv, TypeOK
<1> QED
  BY <1>1, <1>3, <1>4, EndingPreserves DEF ExecuteSettlement, CloseContest

\* Scores may advance the contest and settle it at once.
LEMMA ScoresPreserve ==
  ASSUME IInv, NEW c \in Contests, NEW batch \in Batches, SubmitScores(c, batch)
  PROVE  IInv'
<1> USE DEF money, requests
<1>1. state[c] \in {"in_progress", "awaiting_settlement"}
  BY DEF SubmitScores, AcceptingScores
<1>2. definition[c] \in Definitions
  BY <1>1 DEF IInv, Defined
<1>3. score' \in [Contests -> [Users -> Reports \cup {None}]]
  <2>1. Superseded(c, batch) \in [Users -> Reports \cup {None}]
    BY DEF Superseded, Batches, IInv, TypeOK
  <2> QED
    BY <2>1 DEF SubmitScores, IInv, TypeOK
<1>4. CASE UNCHANGED <<state, results, money>>
  <2>1. TypeOK'
    BY <1>3, <1>4 DEF SubmitScores, IInv, TypeOK
  <2> QED
    BY <2>1, <1>4, FramePreserves DEF SubmitScores
<1>5. CASE /\ state' = [state EXCEPT ![c] = "awaiting_settlement"]
           /\ UNCHANGED <<results, money>>
  <2>1. TypeOK'
    BY <1>3, <1>5 DEF SubmitScores, IInv, TypeOK, ContestStates
  <2>2. \A e \in Contests : Active(e)' = Active(e)
    BY DEF SubmitScores, Active
  <2>3. Defined' /\ NobodyBeforeOpen' /\ LinesHaveAmounts'
    BY <1>1, <1>5, <2>2 DEF SubmitScores, IInv, TypeOK, Defined, NobodyBeforeOpen, LinesHaveAmounts
  <2>4. EscrowHoldsTheStakes'
    BY <1>1, <1>5, <2>2 DEF SubmitScores, IInv, TypeOK, EscrowHoldsTheStakes, Terminal
  <2> QED
    BY <2>1, <2>3, <2>4 DEF IInv
<1>6. CASE ExecuteSettlement(c, Superseded(c, batch))
  <2>1. TypeOK' /\ LinesHaveAmounts'
    BY <1>2, <1>3, <1>6, SettlementTypes DEF SubmitScores, ExecuteSettlement, IInv, TypeOK
  <2> QED
    BY <1>1, <1>6, <2>1, EndingPreserves DEF ExecuteSettlement, SubmitScores
<1> QED
  BY <1>4, <1>5, <1>6 DEF SubmitScores

\* A void gives back what the journal holds of every stake.
LEMMA VoidPreserves ==
  ASSUME IInv, NEW c \in Contests, NEW actor \in Actors, VoidContest(c, actor)
  PROVE  IInv'
<1> USE DEF requests
<1>1. state[c] \notin {"absent", "draft"}
  BY TableFacts DEF VoidContest, AssertTransition, IInv, TypeOK
<1>2. \A u \in Active(c) : LineOf(stake[c][u]) \in journal
  BY DEF VoidContest, Reversible, LineOf
<1>3. \A u \in Active(c) : LineOf(stake[c][u]).amount \in Nat
  BY <1>2 DEF IInv, LinesHaveAmounts
<1>4. TypeOK'
  BY <1>3 DEF VoidContest, IInv, TypeOK, ContestStates
<1>5. LinesHaveAmounts'
  BY <1>3 DEF VoidContest, IInv, LinesHaveAmounts, Line
<1> QED
  BY <1>1, <1>4, <1>5, EndingPreserves DEF VoidContest

-----------------------------------------------------------------------------
(* The theorems.                                                           *)

\* Every step keeps the invariant.
LEMMA NextPreserves == IInv /\ [Next]_vars => IInv'
<1> SUFFICES ASSUME IInv, [Next]_vars PROVE IInv'
  OBVIOUS
<1>1. CASE \E k \in Keys : Arrive(k) \/ EndWithoutEffect(k)
  BY <1>1, ArrivePreserves
<1>2. CASE \E c \in Contests, d \in Definitions : CreateContest(c, d) \/ UpdateContest(c, d)
  BY <1>2, CreateAndUpdatePreserve
<1>3. CASE \E c \in Contests : LockTimePasses(c) \/ Preview(c)
  BY <1>3, ClockAndPreviewPreserve
<1>4. CASE \E k \in Keys, c \in Contests, u \in Users : Enter(k, c, u) \/ Withdraw(k, c, u)
  BY <1>4, EnterPreserves, WithdrawPreserves
<1>5. CASE \E c \in Contests, to \in ContestStates, actor \in Actors : TransitionContest(c, to, actor)
  BY <1>5, TransitionPreserves
<1>6. CASE \E c \in Contests, batch \in Batches : SubmitScores(c, batch)
  BY <1>6, ScoresPreserve
<1>7. CASE \E c \in Contests, actor \in Actors : CloseContest(c, actor) \/ VoidContest(c, actor)
  BY <1>7, ClosePreserves, VoidPreserves
<1>8. CASE UNCHANGED vars
  <2>1. TypeOK'
    BY <1>8 DEF vars, IInv, TypeOK
  <2> QED
    BY <1>8, <2>1, FramePreserves DEF vars
<1> QED
  BY <1>1, <1>2, <1>3, <1>4, <1>5, <1>6, <1>7, <1>8 DEF Next

\* The inductive invariant holds in every reachable state.
THEOREM Invariance == Spec => []IInv
<1> QED
  BY InitEstablishes, NextPreserves, PTL DEF Spec

\* Every balance is whole and non-negative and every variable has its type:
\* no sequence of services, retries and settlements overdraws a wallet, an
\* escrow or the fee account (ledger I3).
THEOREM TypeCorrect == Spec => []TypeOK
<1>1. IInv => TypeOK
  BY DEF IInv
<1> QED
  BY Invariance, <1>1, PTL

\* A contest's escrow is its entry amount times its active participants until
\* it ends, and empty from then on (reconcile.ts I4).
THEOREM EscrowCorrect == Spec => []EscrowHoldsTheStakes
<1>1. IInv => EscrowHoldsTheStakes
  BY DEF IInv
<1> QED
  BY Invariance, <1>1, PTL

\* A contest never holds more entrants than its maximum: an entry is counted
\* under the contest lock, and a withdrawal or re-entry does not slip past it.
THEOREM CapacityCorrect == Spec => []NeverOverfull
<1>1. Init => NeverOverfull
  BY DEF Init, NeverOverfull
<1>2. IInv /\ NeverOverfull /\ [Next]_vars => NeverOverfull'
  <2> SUFFICES ASSUME IInv, NeverOverfull, [Next]_vars,
                      NEW c \in Contests, definition'[c] # None, definition'[c].max # None
               PROVE  Cardinality(Active(c)') <= definition'[c].max
    BY DEF NeverOverfull
  <2> USE DEF money, requests
  <2>1. CASE \E d \in Definitions, e \in Contests : CreateContest(e, d) \/ UpdateContest(e, d)
    <3> PICK d \in Definitions, e \in Contests : CreateContest(e, d) \/ UpdateContest(e, d)
      BY <2>1
    <3>1. Active(c)' = Active(c)
      BY DEF Active, CreateContest, UpdateContest
    <3>2. CASE e = c
      <4>1. Active(c) = {} /\ definition'[c] = d
        BY <3>2 DEF IInv, TypeOK, NobodyBeforeOpen, CreateContest, UpdateContest
      <4>2. d.max \in Nat
        BY <4>1, DefinitionsAssumption
      <4> QED
        BY <3>1, <4>1, <4>2, FS_EmptySet
    <3>3. CASE e # c
      BY <3>1, <3>3 DEF IInv, TypeOK, NeverOverfull, CreateContest, UpdateContest
    <3> QED
      BY <3>2, <3>3
  <2>2. CASE \E k \in Keys, e \in Contests, u \in Users : Enter(k, e, u)
    <3> PICK k \in Keys, e \in Contests, u \in Users : Enter(k, e, u)
      BY <2>2
    <3>1. definition' = definition
      BY DEF Enter
    <3>2. CASE e = c
      <4>1. Active(c)' = Active(c) \cup {u}
        BY <3>2 DEF IInv, TypeOK, Enter, Active
      <4>2. Cardinality(Active(c)') <= Cardinality(Active(c)) + 1
        <5>1. Cardinality(Active(c) \cup {u}) =
                IF u \in Active(c) THEN Cardinality(Active(c)) ELSE Cardinality(Active(c)) + 1
          BY ActiveIsFinite, FS_AddElement
        <5> QED
          BY <4>1, <5>1, ActiveIsFinite
      <4>3. Cardinality(Active(c)) < definition[c].max
        BY <3>1, <3>2 DEF Enter, NotFull
      <4>4. definition[c].max \in Nat
        BY <3>1, DefinitionsAssumption DEF IInv, TypeOK
      <4>5. IsFiniteSet(Active(c)') /\ Cardinality(Active(c)') \in Nat
        BY <4>1, ActiveIsFinite, FS_AddElement, FS_CardinalityType
      <4> QED
        BY <3>1, <4>2, <4>3, <4>4, <4>5, ActiveIsFinite
    <3>3. CASE e # c
      <4>1. Active(c)' = Active(c)
        BY <3>3 DEF IInv, TypeOK, Enter, Active
      <4> QED
        BY <3>1, <4>1 DEF NeverOverfull
    <3> QED
      BY <3>2, <3>3
  <2>3. CASE \E k \in Keys, e \in Contests, u \in Users : Withdraw(k, e, u)
    <3> PICK k \in Keys, e \in Contests, u \in Users : Withdraw(k, e, u)
      BY <2>3
    <3>1. definition' = definition
      BY DEF Withdraw
    <3>2. CASE e = c
      <4>1. Active(c)' = Active(c) \ {u}
        BY <3>2 DEF IInv, TypeOK, Withdraw, Active
      <4>2. Cardinality(Active(c)') <= Cardinality(Active(c)) /\ Cardinality(Active(c)') \in Nat
        <5>1. Cardinality(Active(c) \ {u}) =
                IF u \in Active(c) THEN Cardinality(Active(c)) - 1 ELSE Cardinality(Active(c))
          BY ActiveIsFinite, FS_RemoveElement
        <5>2. IsFiniteSet(Active(c) \ {u})
          BY ActiveIsFinite, FS_RemoveElement
        <5>3. Cardinality(Active(c) \ {u}) \in Nat
          BY <5>2, FS_CardinalityType
        <5> QED
          BY <4>1, <5>1, <5>3, ActiveIsFinite
      <4>3. Cardinality(Active(c)) <= definition[c].max
        BY <3>1 DEF NeverOverfull
      <4>4. definition[c].max \in Nat
        BY <3>1, DefinitionsAssumption DEF IInv, TypeOK
      <4> QED
        BY <3>1, <4>2, <4>3, <4>4, ActiveIsFinite
    <3>3. CASE e # c
      <4>1. Active(c)' = Active(c)
        BY <3>3 DEF IInv, TypeOK, Withdraw, Active
      <4> QED
        BY <3>1, <4>1 DEF NeverOverfull
    <3> QED
      BY <3>2, <3>3
  <2>4. CASE UNCHANGED <<participant, definition>>
    <3>1. Active(c)' = Active(c)
      BY <2>4 DEF Active
    <3> QED
      BY <2>4, <3>1 DEF NeverOverfull
  <2>5. \/ \E d \in Definitions, e \in Contests : CreateContest(e, d) \/ UpdateContest(e, d)
        \/ \E k \in Keys, e \in Contests, u \in Users : Enter(k, e, u)
        \/ \E k \in Keys, e \in Contests, u \in Users : Withdraw(k, e, u)
        \/ UNCHANGED <<participant, definition>>
    BY DEF Next, vars, Arrive, EndWithoutEffect, LockTimePasses, Preview,
           TransitionContest, SubmitScores, CloseContest, VoidContest
  <2> QED
    BY <2>1, <2>2, <2>3, <2>4, <2>5
<1> QED
  BY <1>1, <1>2, Invariance, PTL DEF Spec

\* Under operator_close nothing settles but a close, and a close pays what the
\* preview it presents the hash of showed: a late score never slips in.
THEOREM CloseIsFaithful == Spec => PaidAsPreviewed
<1>1. IInv /\ [Next]_vars =>
        \A c \in Contests :
          state[c] = "awaiting_settlement" /\ state'[c] = "settled"
            /\ definition[c].policy = "operator_close"
          => quoted[c] # None /\ results'[c] = quoted[c]
  <2> SUFFICES ASSUME IInv, [Next]_vars, NEW c \in Contests,
                      state[c] = "awaiting_settlement", state'[c] = "settled",
                      definition[c].policy = "operator_close"
               PROVE  quoted[c] # None /\ results'[c] = quoted[c]
    OBVIOUS
  <2>1. CASE \E actor \in Actors : CloseContest(c, actor)
    <3>1. quoted[c] # None /\ quoted[c] = ComputeSettlement(c, score[c])
      BY <2>1 DEF CloseContest, HashMatches
    <3>2. results'[c] = ComputeSettlement(c, score[c])
      BY <2>1 DEF CloseContest, ExecuteSettlement, IInv, TypeOK
    <3> QED
      BY <3>1, <3>2
  <2>2. CASE \E e \in Contests, batch \in Batches : SubmitScores(e, batch)
    <3> PICK e \in Contests, batch \in Batches : SubmitScores(e, batch)
      BY <2>2
    <3>1. CASE e = c
      \* A batch settles an auto contest only.
      BY <3>1, DefinitionsAssumption DEF SubmitScores, IInv, TypeOK
    <3>2. CASE e # c
      BY <3>2 DEF SubmitScores, ExecuteSettlement, IInv, TypeOK
    <3> QED
      BY <3>1, <3>2
  <2>3. CASE \E e \in Contests, actor \in Actors : CloseContest(e, actor)
    <3> PICK e \in Contests, actor \in Actors : CloseContest(e, actor)
      BY <2>3
    <3>1. CASE e # c
      BY <3>1 DEF CloseContest, ExecuteSettlement, IInv, TypeOK
    <3> QED
      BY <2>1, <3>1
  <2>4. CASE \E e \in Contests, d \in Definitions : CreateContest(e, d) \/ UpdateContest(e, d)
    BY <2>4 DEF CreateContest, UpdateContest, IInv, TypeOK
  <2>5. CASE \E e \in Contests, to \in ContestStates, actor \in Actors : TransitionContest(e, to, actor)
    BY <2>5 DEF TransitionContest, PlainTargets, IInv, TypeOK
  <2>6. CASE \E e \in Contests, actor \in Actors : VoidContest(e, actor)
    BY <2>6 DEF VoidContest, IInv, TypeOK
  <2>7. CASE UNCHANGED state
    BY <2>7
  <2> QED
    BY <2>2, <2>3, <2>4, <2>5, <2>6, <2>7
       DEF Next, vars, Arrive, EndWithoutEffect, LockTimePasses, Preview, Enter, Withdraw
<1> QED
  BY <1>1, Invariance, PTL DEF Spec, PaidAsPreviewed

\* The counting score of a participant is one an accepted batch reported.
Scores == [Users -> Reports \cup {None}]

\* The engine's answer for a contest whose escrow holds its stakes: the
\* payouts and the rake are whole, add up to the escrow, and every entrant has
\* a result.
LEMMA SettlementAddsUp ==
  ASSUME IInv, NEW c \in Contests, state[c] \notin Terminal \cup {"absent", "draft"},
         NEW scores \in Scores, NEW payouts, payouts = ComputeSettlement(c, scores)
  PROVE  /\ RakeAmount(c) \in Nat /\ 2 * RakeAmount(c) <= escrow[c]
         /\ TotalPayout(payouts) \in Nat /\ RakeAmount(c) + TotalPayout(payouts) = escrow[c]
         /\ \A u \in Active(c) : payouts[u].payout \in Nat
         /\ DOMAIN payouts = Active(c)
<1> DEFINE d == definition[c]
           entries == ToEntries(c, scores)
           pool == NetPool(c)
           rake == RakeAmount(c)
<1>1. d \in Definitions /\ escrow[c] \in Nat /\ escrow[c] = d.amount * Cardinality(Active(c))
  BY DEF IInv, TypeOK, Defined, EscrowHoldsTheStakes
<1>2. d.rake \in Nat /\ d.rake <= 5000 /\ d.amount \in Nat /\ Structure(d.structure) /\ d.tieBreak \in TieBreaks
  BY <1>1, DefinitionsAssumption
<1>3. rake \in Nat /\ 2 * rake <= escrow[c]
  <2> DEFINE held == escrow[c]
             bps  == d.rake
  <2>1. held \in Nat /\ bps \in Nat /\ bps <= 5000 /\ rake = ApplyBps(held, bps)
    BY <1>1, <1>2 DEF RakeAmount
  <2> HIDE DEF held, bps, rake
  <2>2. rake \in Nat /\ 2 * rake <= held
    BY <2>1, RakeIsWithinTheEscrow
  <2> QED
    BY <2>2 DEF held
<1>4. pool = escrow[c] - rake
  BY DEF NetPool
<1>5. DOMAIN entries = Active(c)
  BY DEF ToEntries
<1>6. Entrants(entries)
  <2>1. \A u \in Active(c) : entries[u].score \in Int \cup {None} /\ entries[u].seed = None /\ entries[u].submittedAt = None
    <3> SUFFICES ASSUME NEW u \in Active(c)
                 PROVE  entries[u].score \in Int \cup {None} /\ entries[u].seed = None /\ entries[u].submittedAt = None
      OBVIOUS
    <3>1. scores[u] \in Reports \cup {None}
      BY DEF Active, Scores
    <3>2. entries[u] = [score |-> IF scores[u] = None THEN None ELSE scores[u].score,
                        seed |-> None, submittedAt |-> None]
      BY DEF ToEntries
    <3> HIDE DEF entries
    <3> QED
      BY <3>1, <3>2, ReportsAssumption
  <2>2. IsFiniteSet(Active(c)) /\ Active(c) \subseteq Nat
    BY ActiveIsFinite, UsersAssumption DEF Active
  <2> HIDE DEF entries
  <2> QED
    BY <1>5, <2>1, <2>2 DEF Entrants, Amount
<1> HIDE DEF entries, rake, pool
<1>7. pool \in Nat
  BY <1>1, <1>3, <1>4
<1>8. HasRecipients(pool, entries)
  <2> SUFFICES ASSUME Active(c) = {} PROVE pool = 0
    BY <1>5 DEF HasRecipients
  <2>1. Cardinality(Active(c)) = 0
    BY FS_EmptySet
  <2>2. escrow[c] = 0
    BY <1>1, <1>2, <2>1
  <2> QED
    BY <1>3, <1>4, <2>2
<1>9. payouts = SettlePool(pool, entries, d.structure, d.tieBreak)
  BY DEF ComputeSettlement, pool, entries
<1>10. DOMAIN payouts = Active(c)
  BY <1>5, <1>9 DEF SettlePool
<1> HIDE DEF d
<1>11. /\ \A u \in Active(c) : payouts[u].payout \in Nat
       /\ SumFunctionOnSet([u \in Active(c) |-> payouts[u].payout], Active(c)) = pool
  BY <1>2, <1>5, <1>6, <1>7, <1>8, <1>9, SettlePoolPays
<1>12. TotalPayout(payouts) = pool
  BY <1>10, <1>11 DEF TotalPayout, SumFunction
<1> QED
  BY <1>1, <1>3, <1>4, <1>7, <1>10, <1>11, <1>12 DEF rake

\* A contest waiting for settlement can always be settled: whatever scores
\* came in, the ties, the structure, the rake and every rounding, what the
\* engine pays and the rake are the escrow exactly, and nobody is left out
\* (settlement.ts, executeSettlement; transition.ts, assertGuard).
THEOREM SettlementCorrect == Spec => []SettlementBalances
<1>1. IInv => SettlementBalances
  <2> SUFFICES ASSUME IInv, NEW c \in Contests, state[c] \in {"in_progress", "awaiting_settlement"},
                      NEW payouts, payouts = ComputeSettlement(c, score[c])
               PROVE  /\ RakeAmount(c) + TotalPayout(payouts) = escrow[c]
                      /\ ValidLines(payouts)
                      /\ DOMAIN payouts = Active(c)
    BY DEF SettlementBalances
  <2>1. score[c] \in Scores
    BY DEF IInv, TypeOK, Scores
  <2>2. state[c] \notin Terminal \cup {"absent", "draft"}
    BY DEF Terminal
  <2>3. /\ RakeAmount(c) + TotalPayout(payouts) = escrow[c]
        /\ \A u \in Active(c) : payouts[u].payout \in Nat
        /\ DOMAIN payouts = Active(c)
    BY <2>1, <2>2, SettlementAddsUp
  <2> QED
    BY <2>3 DEF ValidLines, PaidUsers
<1> QED
  BY <1>1, Invariance, PTL

\* Nothing is scored before play starts.
NoScoresBeforePlay ==
  \A c \in Contests :
    state[c] \in {"absent", "draft", "open", "locked"} => \A u \in Users : score[c][u] = None

\* A contest that waits for results still lacks one: whichever batch brings
\* the last of them moves the contest on under the same lock, and an operator
\* who moves it meanwhile does not make it miss that (scores.ts, maybeAdvance).
THEOREM AdvanceCorrect == Spec => []CompleteResultsAdvance
<1>1. Init => NoScoresBeforePlay /\ CompleteResultsAdvance
  BY DEF Init, NoScoresBeforePlay, CompleteResultsAdvance
<1>2. IInv /\ NoScoresBeforePlay /\ CompleteResultsAdvance /\ [Next]_vars
        => NoScoresBeforePlay' /\ CompleteResultsAdvance'
  <2> SUFFICES ASSUME IInv, NoScoresBeforePlay, CompleteResultsAdvance, [Next]_vars, NEW c \in Contests
               PROVE  /\ state'[c] \in {"absent", "draft", "open", "locked"} => \A u \in Users : score'[c][u] = None
                      /\ /\ Active(c)' # {}
                         /\ \A u \in Active(c)' : score'[c][u] # None /\ score'[c][u].finished
                         => /\ state'[c] # "in_progress"
                            /\ definition'[c].policy = "auto" => state'[c] # "awaiting_settlement"
    BY DEF NoScoresBeforePlay, CompleteResultsAdvance
  <2> USE DEF money, requests
  <2>1. CASE UNCHANGED <<state, score, definition, participant>>
    <3>1. Active(c)' = Active(c)
      BY <2>1 DEF Active
    <3> QED
      BY <2>1, <3>1 DEF NoScoresBeforePlay, CompleteResultsAdvance
  <2>2. CASE state'[c] \in Terminal
    BY <2>2 DEF Terminal
  <2>3. CASE \E d \in Definitions, e \in Contests : CreateContest(e, d) \/ UpdateContest(e, d)
    <3> PICK d \in Definitions, e \in Contests : CreateContest(e, d) \/ UpdateContest(e, d)
      BY <2>3
    <3>1. Active(c)' = Active(c) /\ score' = score
      BY DEF Active, CreateContest, UpdateContest
    <3>2. CASE e = c
      BY <3>1, <3>2 DEF IInv, TypeOK, NoScoresBeforePlay, CreateContest, UpdateContest
    <3>3. CASE e # c
      BY <3>1, <3>3 DEF IInv, TypeOK, NoScoresBeforePlay, CompleteResultsAdvance, CreateContest, UpdateContest
    <3> QED
      BY <3>2, <3>3
  <2>4. CASE \E k \in Keys, e \in Contests, u \in Users : Enter(k, e, u) \/ Withdraw(k, e, u)
    <3> PICK k \in Keys, e \in Contests, u \in Users : Enter(k, e, u) \/ Withdraw(k, e, u)
      BY <2>4
    <3>1. state[e] = "open" /\ state' = state /\ score' = score /\ definition' = definition
      BY DEF Enter, Withdraw
    <3>2. CASE e = c
      BY <3>1, <3>2 DEF NoScoresBeforePlay
    <3>3. CASE e # c
      <4>1. Active(c)' = Active(c)
        BY <3>3 DEF IInv, TypeOK, Enter, Withdraw, Active
      <4> QED
        BY <3>1, <4>1 DEF NoScoresBeforePlay, CompleteResultsAdvance
    <3> QED
      BY <3>2, <3>3
  <2>5. CASE \E e \in Contests, to \in ContestStates, actor \in Actors : TransitionContest(e, to, actor)
    <3> PICK e \in Contests, to \in ContestStates, actor \in Actors : TransitionContest(e, to, actor)
      BY <2>5
    <3>1. /\ Active(c)' = Active(c) /\ score' = score /\ definition' = definition
          /\ to \in Transitions[state[e]] /\ state[e] \in ContestStates
          /\ state' = [state EXCEPT ![e] = to]
      BY DEF Active, TransitionContest, AssertTransition, IInv, TypeOK
    <3>2. CASE e # c
      BY <3>1, <3>2 DEF IInv, TypeOK, NoScoresBeforePlay, CompleteResultsAdvance
    <3>3. CASE e = c
      <4>1. state'[c] = to
        BY <3>1, <3>3 DEF IInv, TypeOK
      <4>2. \/ to \in {"cancelled", "voided", "settling", "settled"}
            \/ to \in {"open", "locked"} /\ state[c] \in {"draft", "open"}
            \/ to = "in_progress" /\ state[c] = "locked"
            \/ to = "awaiting_settlement" /\ state[c] = "in_progress"
        BY <3>1, <3>3 DEF Transitions, ContestStates
      <4>3. CASE to = "in_progress" /\ state[c] = "locked"
        <5>1. \A u \in Active(c) : score[c][u] = None
          BY <4>3 DEF NoScoresBeforePlay, Active
        <5> QED
          BY <3>1, <4>1, <4>3, <5>1
      <4> QED
        BY <3>1, <4>1, <4>2, <4>3 DEF NoScoresBeforePlay, CompleteResultsAdvance
    <3> QED
      BY <3>2, <3>3
  <2>6. CASE \E e \in Contests, batch \in Batches : SubmitScores(e, batch)
    <3> PICK e \in Contests, batch \in Batches : SubmitScores(e, batch)
      BY <2>6
    <3>1. /\ state[e] \in {"in_progress", "awaiting_settlement"}
          /\ score' = [score EXCEPT ![e] = Superseded(e, batch)]
          /\ Active(c)' = Active(c) /\ definition' = definition
      BY DEF SubmitScores, AcceptingScores, Active
    <3>2. CASE e # c
      <4>1. state'[c] = state[c] /\ score'[c] = score[c]
        BY <3>1, <3>2 DEF SubmitScores, ExecuteSettlement, IInv, TypeOK
      <4> QED
        BY <3>1, <4>1 DEF NoScoresBeforePlay, CompleteResultsAdvance
    <3>3. CASE e = c
      <4>1. score'[c] = Superseded(c, batch)
        BY <3>1, <3>3 DEF IInv, TypeOK
      <4>2. definition[c].policy \in {"auto", "operator_close"}
        BY <3>1, <3>3, DefinitionsAssumption DEF IInv, Defined
      <4>3. \/ ~AllExpectedResultsPresent(c, Superseded(c, batch)) /\ state'[c] = state[c]
            \/ definition[c].policy = "operator_close" /\ state'[c] = "awaiting_settlement"
            \/ state'[c] = "settled"
        BY <3>3 DEF SubmitScores, ExecuteSettlement, IInv, TypeOK
      <4> QED
        BY <3>1, <3>3, <4>1, <4>2, <4>3 DEF AllExpectedResultsPresent
    <3> QED
      BY <3>2, <3>3
  <2>7. CASE \E e \in Contests, actor \in Actors : CloseContest(e, actor) \/ VoidContest(e, actor)
    <3> PICK e \in Contests, actor \in Actors : CloseContest(e, actor) \/ VoidContest(e, actor)
      BY <2>7
    <3>1. score' = score /\ definition' = definition /\ Active(c)' = Active(c)
      BY DEF CloseContest, VoidContest, Active
    <3>2. state' = [state EXCEPT ![e] = "settled"] \/ state' = [state EXCEPT ![e] = "voided"]
      BY DEF CloseContest, VoidContest, ExecuteSettlement
    <3>3. state'[c] \in Terminal \/ state'[c] = state[c]
      BY <3>2 DEF IInv, TypeOK, Terminal
    <3> QED
      BY <2>2, <3>1, <3>3 DEF NoScoresBeforePlay, CompleteResultsAdvance
  <2> QED
    BY <2>1, <2>3, <2>4, <2>5, <2>6, <2>7
       DEF Next, vars, Arrive, EndWithoutEffect, LockTimePasses, Preview
<1> QED
  BY <1>1, <1>2, Invariance, PTL DEF Spec

-----------------------------------------------------------------------------
(* The journal.                                                            *)

\* A settlement over the counting scores, of a contest that has begun.
Settles(c, scores) ==
  /\ state[c] \in AcceptingScores
  /\ ExecuteSettlement(c, scores)
  /\ UNCHANGED <<definition, participant, stake, recorded>>

\* Nothing is posted, nobody enters or leaves, and no contest ends with its
\* stakes.  A definition only changes before its contest opens.
Quiet ==
  /\ UNCHANGED <<journal, participant, stake, recorded, results>>
  /\ \A c \in Contests :
       /\ \/ state'[c] = state[c]
          \/ /\ state[c] \notin Terminal
             /\ state'[c] \notin {"absent", "settled", "voided"}
             /\ state'[c] = "draft" => state[c] = "absent"
             /\ state'[c] = "cancelled" => Active(c) = {}
       /\ definition'[c] = definition[c] \/ state[c] \in {"absent", "draft"}

\* A batch of scores leaves the contest where it is, moves it to wait for its
\* settlement, or settles it.
LEMMA ScoresAdvance ==
  ASSUME IInv, NEW c \in Contests, NEW batch \in Batches, SubmitScores(c, batch)
  PROVE  /\ state[c] \in AcceptingScores
         /\ UNCHANGED <<definition, participant, stake, recorded>>
         /\ \/ UNCHANGED <<state, results, money>>
            \/ state' = [state EXCEPT ![c] = "awaiting_settlement"] /\ UNCHANGED <<results, money>>
            \/ \E scores \in Scores : Settles(c, scores)
<1>1. /\ state[c] \in AcceptingScores
      /\ UNCHANGED <<definition, participant, stake, recorded>>
  BY DEF SubmitScores, requests
<1>2. Superseded(c, batch) \in Scores
  BY DEF Superseded, Batches, IInv, TypeOK, Scores
<1>3. ExecuteSettlement(c, Superseded(c, batch)) => \E scores \in Scores : Settles(c, scores)
  BY <1>1, <1>2 DEF Settles
<1> QED
  BY <1>1, <1>3 DEF SubmitScores

\* A close settles over the scores that count when it commits.
LEMMA CloseSettles ==
  ASSUME IInv, NEW c \in Contests, NEW actor \in Actors, CloseContest(c, actor)
  PROVE  \E scores \in Scores : Settles(c, scores)
<1>1. state[c] = "awaiting_settlement"
  BY TableFacts DEF CloseContest, AssertTransition, IInv, TypeOK
<1>2. score[c] \in Scores
  BY DEF IInv, TypeOK, Scores
<1>3. ExecuteSettlement(c, score[c]) /\ UNCHANGED <<definition, participant, stake, recorded>>
  BY DEF CloseContest, requests
<1> QED
  BY <1>1, <1>2, <1>3 DEF Settles, AcceptingScores

\* Every step is quiet, an entry, a withdrawal, a settlement or a void.
LEMMA StepKinds ==
  ASSUME IInv, [Next]_vars
  PROVE  \/ Quiet
         \/ \E k \in Keys, c \in Contests, u \in Users : Enter(k, c, u) \/ Withdraw(k, c, u)
         \/ \E c \in Contests, scores \in Scores : Settles(c, scores)
         \/ \E c \in Contests, actor \in Actors : VoidContest(c, actor)
<1> USE DEF money, requests
<1>1. CASE UNCHANGED <<journal, participant, stake, recorded, results, state, definition>>
  BY <1>1 DEF Quiet
<1>2. CASE \E c \in Contests, d \in Definitions : CreateContest(c, d) \/ UpdateContest(c, d)
  BY <1>2 DEF CreateContest, UpdateContest, Quiet, Terminal, IInv, TypeOK
<1>3. CASE \E c \in Contests, to \in ContestStates, actor \in Actors : TransitionContest(c, to, actor)
  <2> PICK c \in Contests, to \in ContestStates, actor \in Actors : TransitionContest(c, to, actor)
    BY <1>3
  <2>1. /\ state[c] \in ContestStates /\ to \in Transitions[state[c]] /\ to \in PlainTargets
        /\ state' = [state EXCEPT ![c] = to]
        /\ to = "cancelled" => Active(c) = {}
        /\ UNCHANGED <<journal, participant, stake, recorded, results, definition>>
    BY DEF TransitionContest, AssertTransition, MayCancel, IInv, TypeOK
  <2>2. state[c] \notin Terminal /\ to \notin {"absent", "draft", "settled", "voided"}
    BY <2>1, TableFacts DEF PlainTargets
  <2> QED
    BY <2>1, <2>2 DEF Quiet, IInv, TypeOK
<1>4. CASE \E c \in Contests, batch \in Batches : SubmitScores(c, batch)
  <2> PICK c \in Contests, batch \in Batches : SubmitScores(c, batch)
    BY <1>4
  <2>1. /\ state[c] \in AcceptingScores
        /\ UNCHANGED <<definition, participant, stake, recorded>>
        /\ \/ UNCHANGED <<state, results, money>>
           \/ state' = [state EXCEPT ![c] = "awaiting_settlement"] /\ UNCHANGED <<results, money>>
           \/ \E scores \in Scores : Settles(c, scores)
    BY ScoresAdvance
  <2> QED
    BY <2>1 DEF Quiet, AcceptingScores, Terminal, IInv, TypeOK
<1>5. CASE \E c \in Contests, actor \in Actors : CloseContest(c, actor)
  BY <1>5, CloseSettles
<1> QED
  BY <1>1, <1>2, <1>3, <1>4, <1>5 DEF Next, vars, Arrive, EndWithoutEffect, LockTimePasses, Preview

\* Every line of the journal is of one of the five kinds, at a time when it
\* may have been posted; only a void reverses, and what it reverses is the
\* stake of a participant.
LinesAreKnown ==
  \A line \in journal :
    /\ line.contest \in Contests /\ state[line.contest] \notin {"absent", "draft"}
    /\ \/ /\ line.kind = "escrow" /\ line.reverses = None
          /\ \E k \in recorded : line.entry = EntryOf(k)
       \/ /\ line.kind = "refund" /\ line.reverses = None
          /\ \E k \in recorded : line.entry = WithdrawOf(k)
       \/ /\ line.kind \in {"fee", "settle"} /\ line.reverses = None
          /\ state[line.contest] = "settled"
       \/ /\ line.kind = "void" /\ state[line.contest] = "voided"
          /\ line.user \in Active(line.contest) /\ line.reverses = stake[line.contest][line.user]

\* A key posts one escrow entry, and a stake is voided once.
LinesAreDistinct ==
  \A line, other \in journal :
    /\ line.kind = "escrow" /\ other.kind = "escrow" /\ line.entry = other.entry => line = other
    /\ /\ line.kind = "void" /\ other.kind = "void"
       /\ line.contest = other.contest /\ line.user = other.user
       => line = other

\* The link of an active participant names an escrow entry of its own.
Linked(c, u) ==
  \E line \in journal : /\ line.kind = "escrow" /\ line.contest = c /\ line.user = u
                        /\ line.entry = stake[c][u] /\ line.amount = definition[c].amount

ActiveAreLinked == \A c \in Contests : \A u \in Active(c) : Linked(c, u)

\* A void leaves no stake out.
VoidsAreComplete ==
  \A c \in Contests : state[c] = "voided" =>
    \A u \in Active(c) : \E line \in journal : line.reverses = stake[c][u]

Of(c, u, kind) == {line \in journal : line.contest = c /\ line.user = u /\ line.kind = kind}

\* An active participant has made one entry more than were returned.
EntriesBalance ==
  \A c \in Contests, u \in Users :
    Cardinality(Of(c, u, "escrow")) - Cardinality(Of(c, u, "refund")) = IF u \in Active(c) THEN 1 ELSE 0

JournalInv ==
  /\ IsFiniteSet(journal)
  /\ LinesAreKnown
  /\ LinesAreDistinct
  /\ ActiveAreLinked
  /\ VoidsAreComplete
  /\ EntriesBalance

\* The invariant says what the property does.
LEMMA JournalInvIsProperty ==
  ASSUME IInv, JournalInv
  PROVE  StakesAreLinked
<1>1. ASSUME NEW line \in journal, NEW c \in Contests, NEW u \in Active(c), line.reverses = stake[c][u]
      PROVE  line.kind = "void" /\ line.contest = c /\ line.user = u /\ state[c] = "voided"
  <2>1. PICK own \in journal : /\ own.kind = "escrow" /\ own.contest = c /\ own.user = u
                               /\ own.entry = stake[c][u]
    BY DEF JournalInv, ActiveAreLinked, Linked
  <2>2. stake[c][u] # None
    BY <2>1, NoneAssumption DEF JournalInv, LinesAreKnown, EntryOf, IInv, TypeOK
  <2>3. /\ line.kind = "void" /\ line.contest \in Contests /\ state[line.contest] = "voided"
        /\ line.user \in Active(line.contest) /\ line.reverses = stake[line.contest][line.user]
    BY <1>1, <2>2 DEF JournalInv, LinesAreKnown
  <2>4. PICK its \in journal : /\ its.kind = "escrow" /\ its.contest = line.contest /\ its.user = line.user
                               /\ its.entry = stake[line.contest][line.user]
    BY <2>3 DEF JournalInv, ActiveAreLinked, Linked
  <2>5. its = own
    BY <1>1, <2>1, <2>3, <2>4 DEF JournalInv, LinesAreDistinct
  <2> QED
    BY <2>1, <2>3, <2>4, <2>5
<1>2. ASSUME NEW line \in journal, NEW other \in journal, line.reverses # None, line.reverses = other.reverses
      PROVE  line = other
  <2>1. /\ line.kind = "void" /\ line.contest \in Contests
        /\ line.user \in Active(line.contest) /\ line.reverses = stake[line.contest][line.user]
    BY <1>2 DEF JournalInv, LinesAreKnown
  <2>2. other.kind = "void" /\ other.contest = line.contest /\ other.user = line.user
    <3> DEFINE c == line.contest
               u == line.user
    <3>1. c \in Contests /\ u \in Active(c) /\ other.reverses = stake[c][u]
      BY <1>2, <2>1
    <3> HIDE DEF c, u
    <3>2. other.kind = "void" /\ other.contest = c /\ other.user = u
      BY <1>1, <3>1
    <3> QED
      BY <3>2 DEF c, u
  <2> QED
    BY <2>1, <2>2 DEF JournalInv, LinesAreDistinct
<1> SUFFICES ASSUME NEW c \in Contests, NEW u \in Users
             PROVE  LET made == {line \in Lines(c, "escrow") : line.user = u}
                        returned == {line \in Lines(c, "refund") : line.user = u}
                    IN  /\ Cardinality(made) - Cardinality(returned) = IF u \in Active(c) THEN 1 ELSE 0
                        /\ u \in Active(c) =>
                             /\ \E line \in made : line.entry = stake[c][u] /\ line.amount = definition[c].amount
                             /\ (\E line \in journal : line.reverses = stake[c][u]) <=> state[c] = "voided"
  BY <1>2, Zenon DEF StakesAreLinked
<1>3. /\ {line \in Lines(c, "escrow") : line.user = u} = Of(c, u, "escrow")
      /\ {line \in Lines(c, "refund") : line.user = u} = Of(c, u, "refund")
  BY DEF Lines, Of
<1>4. Cardinality(Of(c, u, "escrow")) - Cardinality(Of(c, u, "refund")) = IF u \in Active(c) THEN 1 ELSE 0
  BY DEF JournalInv, EntriesBalance
<1>5. ASSUME u \in Active(c)
      PROVE  /\ \E line \in Of(c, u, "escrow") : line.entry = stake[c][u] /\ line.amount = definition[c].amount
             /\ (\E line \in journal : line.reverses = stake[c][u]) <=> state[c] = "voided"
  <2>1. \E line \in Of(c, u, "escrow") : line.entry = stake[c][u] /\ line.amount = definition[c].amount
    BY <1>5 DEF JournalInv, ActiveAreLinked, Linked, Of
  <2>2. (\E line \in journal : line.reverses = stake[c][u]) <=> state[c] = "voided"
    BY <1>1, <1>5 DEF JournalInv, VoidsAreComplete
  <2> QED
    BY <2>1, <2>2
<1> QED
  BY <1>3, <1>4, <1>5

\* Entries that only differ in their keys differ.
LEMMA EntriesDiffer ==
  ASSUME NEW k, NEW l
  PROVE  /\ EntryOf(k) = EntryOf(l) => k = l
         /\ WithdrawOf(k) = WithdrawOf(l) => k = l
  BY DEF EntryOf, WithdrawOf

\* The journal stays finite when finitely many lines are posted.
LEMMA FinitelyMany ==
  ASSUME NEW S, IsFiniteSet(S), NEW U, IsFiniteSet(U), NEW m
  PROVE  IsFiniteSet(S \cup {m[u] : u \in U})
<1> DEFINE T == {m[u] : u \in U}
<1>1. IsFiniteSet(T)
  BY ImageIsFinite
<1> HIDE DEF T
<1>2. IsFiniteSet(S \cup T)
  BY <1>1, FS_Union
<1> QED
  BY <1>2 DEF T

\* Steps that post nothing keep the journal's invariant.
LEMMA QuietKeepsJournal ==
  ASSUME IInv, JournalInv, Quiet
  PROVE  JournalInv'
<1>1. \A c \in Contests : Active(c)' = Active(c)
  BY DEF Quiet, Active
<1>2. journal' = journal /\ stake' = stake /\ recorded' = recorded
  BY DEF Quiet
<1>3. \A c \in Contests : /\ state[c] \in {"settled", "voided"} => state'[c] = state[c]
                          /\ state[c] \notin {"absent", "draft"} => state'[c] \notin {"absent", "draft"}
                          /\ state'[c] = "voided" => state[c] = "voided"
  BY DEF Quiet, Terminal
<1>4. LinesAreKnown'
  BY <1>1, <1>2, <1>3 DEF JournalInv, LinesAreKnown
<1>5. ActiveAreLinked'
  <2>1. \A c \in Contests : Active(c) # {} => definition'[c] = definition[c]
    BY DEF Quiet, IInv, NobodyBeforeOpen
  <2> QED
    BY <1>1, <1>2, <2>1 DEF JournalInv, ActiveAreLinked, Linked
<1>6. VoidsAreComplete'
  BY <1>1, <1>2, <1>3 DEF JournalInv, VoidsAreComplete
<1>7. EntriesBalance'
  BY <1>1, <1>2 DEF JournalInv, EntriesBalance, Of
<1> QED
  BY <1>2, <1>4, <1>5, <1>6, <1>7 DEF JournalInv, LinesAreDistinct

\* An entry posts one line under a key nothing was recorded under, and links
\* the participant to it.
LEMMA EnterKeepsJournal ==
  ASSUME IInv, JournalInv, NEW k \in Keys, NEW c \in Contests, NEW u \in Users, Enter(k, c, u)
  PROVE  JournalInv'
<1> DEFINE new == Line(EntryOf(k), "escrow", c, u, definition[c].amount, None)
<1>1. /\ state[c] = "open" /\ k \notin recorded /\ u \notin Active(c)
      /\ journal' = journal \cup {new} /\ recorded' = recorded \cup {k}
      /\ stake' = [stake EXCEPT ![c][u] = EntryOf(k)]
      /\ UNCHANGED <<state, definition>>
  BY DEF Enter, Fresh, Record, MayEnter, Active
<1>2. /\ Active(c)' = Active(c) \cup {u}
      /\ \A e \in Contests \ {c} : Active(e)' = Active(e) /\ stake'[e] = stake[e]
      /\ stake'[c][u] = EntryOf(k)
      /\ \A v \in Users \ {u} : stake'[c][v] = stake[c][v]
  BY <1>1 DEF IInv, TypeOK, Enter, Active
<1>3. /\ new.kind = "escrow" /\ new.contest = c /\ new.user = u /\ new.reverses = None
      /\ new.entry = EntryOf(k) /\ new.amount = definition[c].amount
  BY DEF Line
<1> HIDE DEF new
<1>4. \A line \in journal : line.kind = "escrow" => line.entry # EntryOf(k)
  BY <1>1, EntriesDiffer DEF JournalInv, LinesAreKnown
<1>5. IsFiniteSet(journal)'
  BY <1>1, FS_AddElement DEF JournalInv
<1>6. LinesAreKnown'
  <2> SUFFICES ASSUME NEW line \in journal'
               PROVE  /\ line.contest \in Contests /\ state'[line.contest] \notin {"absent", "draft"}
                      /\ \/ /\ line.kind = "escrow" /\ line.reverses = None
                            /\ \E l \in recorded' : line.entry = EntryOf(l)
                         \/ /\ line.kind = "refund" /\ line.reverses = None
                            /\ \E l \in recorded' : line.entry = WithdrawOf(l)
                         \/ /\ line.kind \in {"fee", "settle"} /\ line.reverses = None
                            /\ state'[line.contest] = "settled"
                         \/ /\ line.kind = "void" /\ state'[line.contest] = "voided"
                            /\ line.user \in Active(line.contest)'
                            /\ line.reverses = stake'[line.contest][line.user]
    BY Zenon DEF LinesAreKnown
  <2>1. CASE line = new
    BY <1>1, <1>3, <2>1
  <2>2. CASE line \in journal
    BY <1>1, <1>2, <2>2 DEF JournalInv, LinesAreKnown
  <2> QED
    BY <1>1, <2>1, <2>2
<1>7. LinesAreDistinct'
  BY <1>1, <1>3, <1>4 DEF JournalInv, LinesAreDistinct
<1>8. ActiveAreLinked'
  <2> SUFFICES ASSUME NEW e \in Contests, NEW v \in Active(e)' PROVE Linked(e, v)'
    BY DEF ActiveAreLinked
  <2>1. CASE e = c /\ v = u
    BY <1>1, <1>2, <1>3, <2>1 DEF Linked
  <2>2. CASE ~(e = c /\ v = u)
    <3>1. v \in Active(e) /\ stake'[e][v] = stake[e][v]
      BY <1>2, <2>2 DEF Active
    <3>2. Linked(e, v)
      BY <3>1 DEF JournalInv, ActiveAreLinked
    <3> QED
      BY <1>1, <3>1, <3>2 DEF Linked
  <2> QED
    BY <2>1, <2>2
<1>9. VoidsAreComplete'
  BY <1>1, <1>2 DEF JournalInv, VoidsAreComplete
<1>10. EntriesBalance'
  <2> SUFFICES ASSUME NEW e \in Contests, NEW v \in Users
               PROVE  Cardinality(Of(e, v, "escrow")') - Cardinality(Of(e, v, "refund")')
                        = IF v \in Active(e)' THEN 1 ELSE 0
    BY DEF EntriesBalance
  <2>1. Of(e, v, "refund")' = Of(e, v, "refund")
    BY <1>1, <1>3 DEF Of
  <2>2. Cardinality(Of(e, v, "escrow")) - Cardinality(Of(e, v, "refund")) = IF v \in Active(e) THEN 1 ELSE 0
    BY DEF JournalInv, EntriesBalance
  <2>3. CASE e = c /\ v = u
    <3>1. Of(e, v, "escrow")' = Of(e, v, "escrow") \cup {new} /\ new \notin Of(e, v, "escrow")
      BY <1>1, <1>3, <1>4, <2>3 DEF Of
    <3>2. IsFiniteSet(Of(e, v, "escrow")) /\ IsFiniteSet(Of(e, v, "refund"))
      BY FS_Subset DEF Of, JournalInv
    <3>3. Cardinality(Of(e, v, "escrow")) \in Nat /\ Cardinality(Of(e, v, "refund")) \in Nat
      BY <3>2, FS_CardinalityType
    <3>4. Cardinality(Of(e, v, "escrow")') = Cardinality(Of(e, v, "escrow")) + 1
      BY <3>1, <3>2, FS_AddElement
    <3> QED
      BY <1>1, <1>2, <2>1, <2>2, <2>3, <3>3, <3>4
  <2>4. CASE ~(e = c /\ v = u)
    <3>1. Of(e, v, "escrow")' = Of(e, v, "escrow")
      BY <1>1, <1>3, <2>4 DEF Of
    <3>2. v \in Active(e)' <=> v \in Active(e)
      BY <1>2, <2>4
    <3> QED
      BY <2>1, <2>2, <3>1, <3>2
  <2> QED
    BY <2>3, <2>4
<1> QED
  BY <1>5, <1>6, <1>7, <1>8, <1>9, <1>10 DEF JournalInv

\* A withdrawal posts one line under a key nothing was recorded under.
LEMMA WithdrawKeepsJournal ==
  ASSUME IInv, JournalInv, NEW k \in Keys, NEW c \in Contests, NEW u \in Users, Withdraw(k, c, u)
  PROVE  JournalInv'
<1> DEFINE new == Line(WithdrawOf(k), "refund", c, u, definition[c].amount, None)
<1>1. /\ state[c] = "open" /\ k \notin recorded /\ u \in Active(c)
      /\ journal' = journal \cup {new} /\ recorded' = recorded \cup {k}
      /\ UNCHANGED <<state, definition, stake>>
  BY DEF Withdraw, Fresh, Record, MayWithdraw, Active
<1>2. /\ Active(c)' = Active(c) \ {u}
      /\ \A e \in Contests \ {c} : Active(e)' = Active(e)
  BY <1>1 DEF IInv, TypeOK, Withdraw, Active
<1>3. /\ new.kind = "refund" /\ new.contest = c /\ new.user = u /\ new.reverses = None
      /\ new.entry = WithdrawOf(k)
  BY DEF Line
<1> HIDE DEF new
<1>4. new \notin journal
  BY <1>1, <1>3, EntriesDiffer DEF JournalInv, LinesAreKnown
<1>5. IsFiniteSet(journal)'
  BY <1>1, FS_AddElement DEF JournalInv
<1>6. LinesAreKnown'
  <2> SUFFICES ASSUME NEW line \in journal'
               PROVE  /\ line.contest \in Contests /\ state'[line.contest] \notin {"absent", "draft"}
                      /\ \/ /\ line.kind = "escrow" /\ line.reverses = None
                            /\ \E l \in recorded' : line.entry = EntryOf(l)
                         \/ /\ line.kind = "refund" /\ line.reverses = None
                            /\ \E l \in recorded' : line.entry = WithdrawOf(l)
                         \/ /\ line.kind \in {"fee", "settle"} /\ line.reverses = None
                            /\ state'[line.contest] = "settled"
                         \/ /\ line.kind = "void" /\ state'[line.contest] = "voided"
                            /\ line.user \in Active(line.contest)'
                            /\ line.reverses = stake'[line.contest][line.user]
    BY Zenon DEF LinesAreKnown
  <2>1. CASE line = new
    BY <1>1, <1>3, <2>1
  <2>2. CASE line \in journal
    BY <1>1, <1>2, <2>2 DEF JournalInv, LinesAreKnown
  <2> QED
    BY <1>1, <2>1, <2>2
<1>7. LinesAreDistinct'
  BY <1>1, <1>3 DEF JournalInv, LinesAreDistinct
<1>8. ActiveAreLinked'
  <2> SUFFICES ASSUME NEW e \in Contests, NEW v \in Active(e)' PROVE Linked(e, v)'
    BY DEF ActiveAreLinked
  <2>1. Linked(e, v)
    BY <1>2 DEF JournalInv, ActiveAreLinked
  <2> QED
    BY <1>1, <2>1 DEF Linked
<1>9. VoidsAreComplete'
  BY <1>1, <1>2 DEF JournalInv, VoidsAreComplete
<1>10. EntriesBalance'
  <2> SUFFICES ASSUME NEW e \in Contests, NEW v \in Users
               PROVE  Cardinality(Of(e, v, "escrow")') - Cardinality(Of(e, v, "refund")')
                        = IF v \in Active(e)' THEN 1 ELSE 0
    BY DEF EntriesBalance
  <2>1. Of(e, v, "escrow")' = Of(e, v, "escrow")
    BY <1>1, <1>3 DEF Of
  <2>2. Cardinality(Of(e, v, "escrow")) - Cardinality(Of(e, v, "refund")) = IF v \in Active(e) THEN 1 ELSE 0
    BY DEF JournalInv, EntriesBalance
  <2>3. CASE e = c /\ v = u
    <3>1. Of(e, v, "refund")' = Of(e, v, "refund") \cup {new} /\ new \notin Of(e, v, "refund")
      BY <1>1, <1>3, <1>4, <2>3 DEF Of
    <3>2. IsFiniteSet(Of(e, v, "escrow")) /\ IsFiniteSet(Of(e, v, "refund"))
      BY FS_Subset DEF Of, JournalInv
    <3>3. Cardinality(Of(e, v, "escrow")) \in Nat /\ Cardinality(Of(e, v, "refund")) \in Nat
      BY <3>2, FS_CardinalityType
    <3>4. Cardinality(Of(e, v, "refund")') = Cardinality(Of(e, v, "refund")) + 1
      BY <3>1, <3>2, FS_AddElement
    <3> QED
      BY <1>1, <1>2, <2>1, <2>2, <2>3, <3>3, <3>4
  <2>4. CASE ~(e = c /\ v = u)
    <3>1. Of(e, v, "refund")' = Of(e, v, "refund")
      BY <1>1, <1>3, <2>4 DEF Of
    <3>2. v \in Active(e)' <=> v \in Active(e)
      BY <1>2, <2>4
    <3> QED
      BY <2>1, <2>2, <3>1, <3>2
  <2> QED
    BY <2>3, <2>4
<1> QED
  BY <1>5, <1>6, <1>7, <1>8, <1>9, <1>10 DEF JournalInv

\* What the step that ends a contest posts.
EndingLines(c, final, posted) ==
  /\ IsFiniteSet(posted)
  /\ \A line \in posted :
       /\ line.contest = c
       /\ \/ final = "settled" /\ line.kind \in {"fee", "settle"} /\ line.reverses = None
          \/ /\ final = "voided" /\ line.kind = "void"
             /\ line.user \in Active(c) /\ line.reverses = stake[c][line.user]
  /\ final = "voided" =>
       /\ \A line, other \in posted : line.user = other.user => line = other
       /\ \A u \in Active(c) : \E line \in posted : line.reverses = stake[c][u]

\* A settlement or a void posts lines that name the contest it ends.
LEMMA EndingKeepsJournal ==
  ASSUME IInv, JournalInv, NEW c \in Contests, state[c] \notin Terminal \cup {"absent", "draft"},
         NEW final \in {"settled", "voided"}, state' = [state EXCEPT ![c] = final],
         NEW posted, EndingLines(c, final, posted), journal' = journal \cup posted,
         UNCHANGED <<definition, participant, stake, recorded>>
  PROVE  JournalInv'
<1>1. /\ \A e \in Contests : Active(e)' = Active(e)
      /\ state'[c] = final /\ \A e \in Contests \ {c} : state'[e] = state[e]
  BY DEF Active, IInv, TypeOK
<1>2. \A line \in journal : line.contest = c => line.kind \in {"escrow", "refund"} /\ line.reverses = None
  BY DEF Terminal, JournalInv, LinesAreKnown
<1>3. IsFiniteSet(journal)'
  BY FS_Union DEF JournalInv, EndingLines
<1>4. LinesAreKnown'
  <2> SUFFICES ASSUME NEW line \in journal'
               PROVE  /\ line.contest \in Contests /\ state'[line.contest] \notin {"absent", "draft"}
                      /\ \/ /\ line.kind = "escrow" /\ line.reverses = None
                            /\ \E l \in recorded' : line.entry = EntryOf(l)
                         \/ /\ line.kind = "refund" /\ line.reverses = None
                            /\ \E l \in recorded' : line.entry = WithdrawOf(l)
                         \/ /\ line.kind \in {"fee", "settle"} /\ line.reverses = None
                            /\ state'[line.contest] = "settled"
                         \/ /\ line.kind = "void" /\ state'[line.contest] = "voided"
                            /\ line.user \in Active(line.contest)'
                            /\ line.reverses = stake'[line.contest][line.user]
    BY Zenon DEF LinesAreKnown
  <2>1. CASE line \in posted
    BY <1>1, <2>1 DEF EndingLines
  <2>2. CASE line \in journal /\ line.contest = c
    <3>1. state'[c] \notin {"absent", "draft"}
      BY <1>1
    <3>2. line.kind \in {"escrow", "refund"} /\ line.reverses = None
      BY <1>2, <2>2
    <3> QED
      BY <2>2, <3>1, <3>2 DEF JournalInv, LinesAreKnown
  <2>3. CASE line \in journal /\ line.contest # c
    <3>1. line.contest \in Contests \ {c}
      BY <2>3 DEF JournalInv, LinesAreKnown
    <3>2. state'[line.contest] = state[line.contest] /\ Active(line.contest)' = Active(line.contest)
      BY <1>1, <3>1
    <3> QED
      BY <2>3, <3>1, <3>2 DEF JournalInv, LinesAreKnown
  <2> QED
    BY <2>1, <2>2, <2>3
<1>5. LinesAreDistinct'
  <2> SUFFICES ASSUME NEW line \in journal', NEW other \in journal'
               PROVE  /\ line.kind = "escrow" /\ other.kind = "escrow" /\ line.entry = other.entry => line = other
                      /\ /\ line.kind = "void" /\ other.kind = "void"
                         /\ line.contest = other.contest /\ line.user = other.user
                         => line = other
    BY DEF LinesAreDistinct
  <2>1. CASE line \in posted \/ other \in posted
    BY <1>2, <2>1 DEF EndingLines
  <2>2. CASE line \in journal /\ other \in journal
    BY <2>2 DEF JournalInv, LinesAreDistinct
  <2> QED
    BY <2>1, <2>2
<1>6. ActiveAreLinked'
  <2> SUFFICES ASSUME NEW e \in Contests, NEW v \in Active(e)' PROVE Linked(e, v)'
    BY DEF ActiveAreLinked
  <2>1. Linked(e, v)
    BY <1>1 DEF JournalInv, ActiveAreLinked
  <2> QED
    BY <2>1 DEF Linked
<1>7. VoidsAreComplete'
  <2> SUFFICES ASSUME NEW e \in Contests, state'[e] = "voided", NEW u \in Active(e)'
               PROVE  \E line \in journal' : line.reverses = stake'[e][u]
    BY DEF VoidsAreComplete
  <2>1. CASE e = c
    BY <1>1, <2>1 DEF EndingLines
  <2>2. CASE e # c
    BY <1>1, <2>2 DEF JournalInv, VoidsAreComplete
  <2> QED
    BY <2>1, <2>2
<1>8. EntriesBalance'
  <2>1. \A e \in Contests, v \in Users :
          Of(e, v, "escrow")' = Of(e, v, "escrow") /\ Of(e, v, "refund")' = Of(e, v, "refund")
    BY DEF Of, EndingLines
  <2> QED
    BY <1>1, <2>1 DEF JournalInv, EntriesBalance
<1> QED
  BY <1>3, <1>4, <1>5, <1>6, <1>7, <1>8 DEF JournalInv

FeeLines(c, rake) == {Line(RakeOf(c), "fee", c, None, rake, None) : r \in {rake} \ {0}}
PayoutLines(c, payouts) ==
  {Line(SettleOf(c), "settle", c, u, payouts[u].payout, None) : u \in PaidUsers(payouts)}
VoidLines(c) ==
  {Line(VoidOf(c, u), "void", c, u, LineOf(stake[c][u]).amount, stake[c][u]) : u \in Active(c)}

\* A settlement posts the fee and one line for each payout.
LEMMA SettlePosts ==
  ASSUME IInv, NEW c \in Contests, NEW scores \in Scores, Settles(c, scores),
         NEW payouts, payouts = ComputeSettlement(c, scores),
         NEW posted, posted = FeeLines(c, RakeAmount(c)) \cup PayoutLines(c, payouts)
  PROVE  /\ state[c] \notin Terminal \cup {"absent", "draft"}
         /\ state' = [state EXCEPT ![c] = "settled"] /\ results' = [results EXCEPT ![c] = payouts]
         /\ UNCHANGED <<definition, participant, stake, recorded>>
         /\ journal' = journal \cup posted
         /\ EndingLines(c, "settled", posted)
<1> DEFINE rake == RakeAmount(c)
<1>1. /\ state[c] \notin Terminal \cup {"absent", "draft"}
      /\ state' = [state EXCEPT ![c] = "settled"] /\ results' = [results EXCEPT ![c] = payouts]
      /\ UNCHANGED <<definition, participant, stake, recorded>>
      /\ journal' = journal \cup posted
  BY DEF Settles, AcceptingScores, Terminal, ExecuteSettlement, FeeLines, PayoutLines
<1>2. IsFiniteSet(posted)
  <2> DEFINE m == [u \in PaidUsers(payouts) |->
                     Line(SettleOf(c), "settle", c, u, payouts[u].payout, None)]
             fee == Line(RakeOf(c), "fee", c, None, rake, None)
  <2>1. DOMAIN payouts = Active(c)
    BY <1>1, SettlementAddsUp
  <2>2. IsFiniteSet(PaidUsers(payouts))
    <3>1. PaidUsers(payouts) \subseteq Active(c)
      BY <2>1 DEF PaidUsers
    <3> QED
      BY <3>1, ActiveIsFinite, FS_Subset
  <2>3. IsFiniteSet({fee}) /\ FeeLines(c, rake) \subseteq {fee}
    BY FS_Singleton DEF FeeLines
  <2>4. IsFiniteSet(FeeLines(c, rake))
    BY <2>3, FS_Subset
  <2>5. PayoutLines(c, payouts) = {m[u] : u \in PaidUsers(payouts)}
    BY DEF PayoutLines
  <2> HIDE DEF m, rake
  <2>6. IsFiniteSet(FeeLines(c, rake) \cup {m[u] : u \in PaidUsers(payouts)})
    BY <2>2, <2>4, FinitelyMany
  <2> QED
    BY <2>5, <2>6 DEF rake
<1>3. EndingLines(c, "settled", posted)
  <2> HIDE DEF rake
  <2>1. \A line \in posted : line.contest = c /\ line.kind \in {"fee", "settle"} /\ line.reverses = None
    BY DEF FeeLines, PayoutLines, Line
  <2> QED
    BY <1>2, <2>1 DEF EndingLines
<1> QED
  BY <1>1, <1>3

\* The lines of a settlement are those of its fee and its payouts.
LEMMA SettleKeepsJournal ==
  ASSUME IInv, JournalInv, NEW c \in Contests, NEW scores \in Scores, Settles(c, scores)
  PROVE  JournalInv'
<1> DEFINE posted == FeeLines(c, RakeAmount(c)) \cup PayoutLines(c, ComputeSettlement(c, scores))
<1>1. /\ state[c] \notin Terminal \cup {"absent", "draft"}
      /\ state' = [state EXCEPT ![c] = "settled"]
      /\ UNCHANGED <<definition, participant, stake, recorded>>
      /\ journal' = journal \cup posted /\ EndingLines(c, "settled", posted)
  BY SettlePosts
<1> HIDE DEF posted
<1> QED
  BY <1>1, EndingKeepsJournal

\* A void posts one line for each active participant.
LEMMA VoidPosts ==
  ASSUME IInv, NEW c \in Contests, NEW actor \in Actors, VoidContest(c, actor),
         NEW posted, posted = VoidLines(c)
  PROVE  /\ state[c] \notin Terminal \cup {"absent", "draft"}
         /\ state' = [state EXCEPT ![c] = "voided"]
         /\ UNCHANGED <<definition, participant, stake, recorded>>
         /\ journal' = journal \cup posted
         /\ EndingLines(c, "voided", posted)
<1> DEFINE of(u) == Line(VoidOf(c, u), "void", c, u, LineOf(stake[c][u]).amount, stake[c][u])
           m == [u \in Active(c) |-> of(u)]
<1>0. posted = {m[u] : u \in Active(c)}
  BY DEF VoidLines
<1>1. /\ state[c] \notin Terminal \cup {"absent", "draft"}
      /\ state' = [state EXCEPT ![c] = "voided"]
      /\ UNCHANGED <<definition, participant, stake, recorded>>
  BY TableFacts DEF VoidContest, AssertTransition, IInv, TypeOK, requests
<1>2. journal' = journal \cup posted
  BY DEF VoidContest, VoidLines
<1>3. \A u \in Active(c) : /\ m[u].contest = c /\ m[u].kind = "void" /\ m[u].user = u
                           /\ m[u].reverses = stake[c][u]
  BY DEF Line
<1>4. IsFiniteSet(posted)
  <2> HIDE DEF m
  <2> QED
    BY <1>0, ActiveIsFinite, ImageIsFinite
<1> HIDE DEF m
<1>5. EndingLines(c, "voided", posted)
  BY <1>0, <1>3, <1>4 DEF EndingLines
<1> QED
  BY <1>1, <1>2, <1>5

\* The lines of a void reverse one active entry each.
LEMMA VoidKeepsJournal ==
  ASSUME IInv, JournalInv, NEW c \in Contests, NEW actor \in Actors, VoidContest(c, actor)
  PROVE  JournalInv'
<1> DEFINE posted == VoidLines(c)
<1>1. /\ state[c] \notin Terminal \cup {"absent", "draft"}
      /\ state' = [state EXCEPT ![c] = "voided"]
      /\ UNCHANGED <<definition, participant, stake, recorded>>
      /\ journal' = journal \cup posted /\ EndingLines(c, "voided", posted)
  BY VoidPosts
<1> HIDE DEF posted
<1> QED
  BY <1>1, EndingKeepsJournal

\* Nothing was posted when the system starts.
LEMMA InitHasNoLines == Init => JournalInv
<1> SUFFICES ASSUME Init PROVE JournalInv
  OBVIOUS
<1>1. journal = {} /\ \A c \in Contests : Active(c) = {}
  BY DEF Init, Active
<1>2. \A c \in Contests, u \in Users : Of(c, u, "escrow") = {} /\ Of(c, u, "refund") = {}
  BY <1>1 DEF Of
<1>3. Cardinality({}) = 0 /\ IsFiniteSet({})
  BY FS_EmptySet
<1>4. EntriesBalance
  BY <1>1, <1>2, <1>3 DEF EntriesBalance
<1> QED
  BY <1>1, <1>3, <1>4
     DEF JournalInv, LinesAreKnown, LinesAreDistinct, ActiveAreLinked, VoidsAreComplete

\* Every step keeps the invariant of the journal.
LEMMA StepKeepsJournal == IInv /\ JournalInv /\ [Next]_vars => JournalInv'
  BY StepKinds, QuietKeepsJournal, EnterKeepsJournal, WithdrawKeepsJournal, SettleKeepsJournal, VoidKeepsJournal

\* An active participant's link names its own stake, which nothing but a void
\* reverses, and once; and nobody has two stakes in one contest: however often
\* keys are retried and entries withdrawn and made again (reconcile.ts I7;
\* entries.ts, enterContest and withdrawEntry).
THEOREM StakesCorrect == Spec => []StakesAreLinked
<1>1. Init => JournalInv
  BY InitHasNoLines
<1>2. IInv /\ JournalInv /\ [Next]_vars => JournalInv'
  BY StepKeepsJournal
<1>3. IInv /\ JournalInv => StakesAreLinked
  BY JournalInvIsProperty
<1> QED
  BY <1>1, <1>2, <1>3, Invariance, PTL DEF Spec

-----------------------------------------------------------------------------
(* The totals of the journal.                                              *)

\* No lines, no total.
LEMMA TotalOfNothing == TotalOf({}) = 0
<1> DEFINE f == [line \in {} |-> line.amount]
<1>1. SumFunctionOnSet(f, {}) = 0
  BY SumEmpty
<1> QED
  BY <1>1 DEF TotalOf, SumFunction

\* Lines posted apart count apart.
LEMMA TotalOfBoth ==
  ASSUME NEW S, NEW T, IsFiniteSet(S), IsFiniteSet(T), S \cap T = {},
         \A line \in S \cup T : line.amount \in Int
  PROVE  TotalOf(S \cup T) = TotalOf(S) + TotalOf(T)
<1> DEFINE amounts(R) == [line \in R |-> line.amount]
           f == amounts(S \cup T)
<1>1. SumFunctionOnSet(f, S \cup T) = SumFunctionOnSet(f, S) + SumFunctionOnSet(f, T)
  <2>1. \A line \in S \cup T : f[line] \in Int
    OBVIOUS
  <2> HIDE DEF f
  <2> QED
    BY <2>1, SumDisjoint
<1>2. ASSUME NEW R \in SUBSET (S \cup T), IsFiniteSet(R)
      PROVE  SumFunctionOnSet(f, R) = TotalOf(R)
  <2>1. \A line \in R : f[line] \in Int /\ amounts(R)[line] = f[line]
    OBVIOUS
  <2>2. TotalOf(R) = SumFunctionOnSet(amounts(R), R)
    BY DEF TotalOf, SumFunction
  <2> HIDE DEF f, amounts
  <2>3. SumFunctionOnSet(f, R) = SumFunctionOnSet(amounts(R), R)
    BY <1>2, <2>1, SumAgree
  <2> QED
    BY <2>2, <2>3
<1>3. SumFunctionOnSet(f, S) = TotalOf(S) /\ SumFunctionOnSet(f, T) = TotalOf(T)
  <2> HIDE DEF f
  <2> QED
    BY <1>2
<1>4. TotalOf(S \cup T) = SumFunctionOnSet(f, S \cup T)
  BY DEF TotalOf, SumFunction
<1> QED
  BY <1>1, <1>3, <1>4

\* One line for each of some users.
LEMMA TotalOfEach ==
  ASSUME NEW U, IsFiniteSet(U), NEW m, \A u, v \in U : m[u] = m[v] => u = v,
         NEW T, \A u \in U : m[u] \in T, \A line \in T : \E u \in U : m[u] = line,
         NEW f, \A u \in U : f[u] \in Int /\ m[u].amount = f[u]
  PROVE  TotalOf(T) = SumFunctionOnSet(f, U)
<1> DEFINE amounts == [line \in T |-> line.amount]
<1>1. \A u \in U : amounts[m[u]] \in Int /\ f[u] = amounts[m[u]]
  OBVIOUS
<1>2. TotalOf(T) = SumFunctionOnSet(amounts, T)
  BY DEF TotalOf, SumFunction
<1> HIDE DEF amounts
<1>3. SumFunctionOnSet(f, U) = SumFunctionOnSet(amounts, T)
  BY <1>1, SumImage
<1> QED
  BY <1>2, <1>3

\* One line counts its amount.
LEMMA TotalOfOne ==
  ASSUME NEW line, line.amount \in Int
  PROVE  TotalOf({line}) = line.amount
<1> DEFINE f == [l \in {line} |-> l.amount]
<1>1. IsFiniteSet({line}) /\ {line} \ {line} = {} /\ f[line] = line.amount /\ \A l \in {line} : f[l] \in Int
  BY FS_Singleton
<1>2. TotalOf({line}) = SumFunctionOnSet(f, {line})
  BY DEF TotalOf, SumFunction
<1> HIDE DEF f
<1>3. SumFunctionOnSet(f, {line}) = f[line] + SumFunctionOnSet(f, {line} \ {line})
  BY <1>1, SumRemove
<1>4. SumFunctionOnSet(f, {}) = 0
  BY SumEmpty
<1>5. SumFunctionOnSet(f, {line} \ {line}) = 0
  BY <1>1, <1>4
<1>6. f[line] + 0 = line.amount
  BY <1>1
<1>7. TotalOf({line}) = f[line] + 0
  BY <1>2, <1>3, <1>5
<1> QED
  BY <1>6, <1>7

\* What went into the escrow of a contest and was not withdrawn.
Staked(c) == TotalOf(Lines(c, "escrow")) - TotalOf(Lines(c, "refund"))

\* The stakes of a contest's active participants.
Stakes(c) == definition[c].amount * Cardinality(Active(c))

BooksOf(c) ==
  /\ state[c] \notin {"absent", "draft"} => Staked(c) = Stakes(c)
  /\ state[c] = "settled" =>
       /\ TotalOf(Lines(c, "settle")) = TotalPayout(results[c])
       /\ TotalOf(Lines(c, "settle")) + TotalOf(Lines(c, "fee")) = Stakes(c)
  /\ state[c] = "voided" => TotalOf(Lines(c, "void")) = Stakes(c)
  /\ state[c] = "cancelled" => Active(c) = {}

BooksInv == \A c \in Contests : BooksOf(c)

\* The totals of one contest depend on its lines alone.
LEMMA LinesKeepBooks ==
  ASSUME NEW c \in Contests, BooksOf(c), state'[c] = state[c], results'[c] = results[c],
         definition'[c] = definition[c], Active(c)' = Active(c),
         \A kind \in Kinds : Lines(c, kind)' = Lines(c, kind)
  PROVE  BooksOf(c)'
<1>1. /\ Lines(c, "escrow")' = Lines(c, "escrow") /\ Lines(c, "refund")' = Lines(c, "refund")
      /\ Lines(c, "settle")' = Lines(c, "settle") /\ Lines(c, "fee")' = Lines(c, "fee")
      /\ Lines(c, "void")' = Lines(c, "void")
  BY DEF Kinds
<1>2. /\ TotalOf(Lines(c, "escrow"))' = TotalOf(Lines(c, "escrow"))
      /\ TotalOf(Lines(c, "refund"))' = TotalOf(Lines(c, "refund"))
      /\ TotalOf(Lines(c, "settle"))' = TotalOf(Lines(c, "settle"))
      /\ TotalOf(Lines(c, "fee"))' = TotalOf(Lines(c, "fee"))
      /\ TotalOf(Lines(c, "void"))' = TotalOf(Lines(c, "void"))
  BY <1>1 DEF TotalOf
<1>3. Staked(c)' = Staked(c) /\ Stakes(c)' = Stakes(c)
  BY <1>2 DEF Staked, Stakes
<1>4. TotalPayout(results[c])' = TotalPayout(results[c])
  BY DEF TotalPayout
<1> QED
  BY <1>2, <1>3, <1>4 DEF BooksOf

\* Steps that post nothing.
LEMMA QuietKeepsBooks ==
  ASSUME IInv, JournalInv, BooksInv, Quiet, IInv'
  PROVE  BooksInv'
<1> SUFFICES ASSUME NEW c \in Contests PROVE BooksOf(c)'
  BY DEF BooksInv
<1>0. BooksOf(c)
  BY DEF BooksInv
<1>1. /\ Active(c)' = Active(c) /\ results'[c] = results[c]
      /\ \A kind \in Kinds : Lines(c, kind)' = Lines(c, kind)
  BY DEF Quiet, Active, Lines
<1>2. CASE state'[c] = state[c] /\ definition'[c] = definition[c]
  BY <1>0, <1>1, <1>2, LinesKeepBooks
<1>3. CASE state[c] \in {"absent", "draft"}
  <2>1. CASE state'[c] \in {"absent", "draft"}
    BY <2>1 DEF BooksOf
  <2>2. CASE state'[c] \notin {"absent", "draft"}
    <3>1. Active(c)' = {} /\ definition'[c].amount \in Nat
      BY <1>1, <1>3, <2>2, DefinitionsAssumption DEF IInv, Defined, NobodyBeforeOpen
    <3>2. Lines(c, "escrow")' = {} /\ Lines(c, "refund")' = {}
      BY <1>3 DEF Lines, JournalInv, LinesAreKnown, Quiet
    <3>3. Staked(c)' = 0
      <4>1. TotalOf(Lines(c, "escrow"))' = TotalOf({}) /\ TotalOf(Lines(c, "refund"))' = TotalOf({})
        BY <3>2 DEF TotalOf
      <4> QED
        BY <4>1, TotalOfNothing DEF Staked
    <3>4. Cardinality(Active(c)') = 0
      BY <3>1, FS_EmptySet
    <3>5. Stakes(c)' = 0
      BY <3>1, <3>4 DEF Stakes
    <3>6. state'[c] \notin {"settled", "voided"}
      BY <1>3 DEF Quiet
    <3> QED
      BY <3>1, <3>3, <3>5, <3>6 DEF BooksOf
  <2> QED
    BY <2>1, <2>2
<1>4. CASE state[c] \notin {"absent", "draft"} /\ state'[c] # state[c]
  <2>1. /\ definition'[c] = definition[c] /\ state'[c] \notin {"settled", "voided"}
        /\ state'[c] = "cancelled" => Active(c) = {}
    BY <1>4 DEF Quiet
  <2>2. TotalOf(Lines(c, "escrow"))' = TotalOf(Lines(c, "escrow"))
        /\ TotalOf(Lines(c, "refund"))' = TotalOf(Lines(c, "refund"))
    BY <1>1 DEF TotalOf, Kinds
  <2>3. Staked(c)' = Staked(c) /\ Stakes(c)' = Stakes(c)
    BY <1>1, <2>1, <2>2 DEF Staked, Stakes
  <2> QED
    BY <1>0, <1>1, <1>4, <2>1, <2>3 DEF BooksOf
<1> QED
  BY <1>2, <1>3, <1>4 DEF Quiet

\* One more entry, or one more withdrawal.
LEMMA StakeKeepsBooks ==
  ASSUME IInv, JournalInv, BooksInv, NEW c \in Contests, NEW new, new.amount = definition[c].amount,
         new.contest = c, new \notin journal, journal' = journal \cup {new},
         UNCHANGED <<state, definition, results>>, state[c] = "open",
         \A e \in Contests \ {c} : Active(e)' = Active(e),
         \/ new.kind = "escrow" /\ Cardinality(Active(c)') = Cardinality(Active(c)) + 1
         \/ new.kind = "refund" /\ Cardinality(Active(c)') = Cardinality(Active(c)) - 1
  PROVE  BooksInv'
<1> SUFFICES ASSUME NEW e \in Contests PROVE BooksOf(e)'
  BY DEF BooksInv
<1>1. CASE e # c
  <2>1. BooksOf(e) /\ Active(e)' = Active(e)
    BY <1>1 DEF BooksInv
  <2>2. \A kind \in Kinds : Lines(e, kind)' = Lines(e, kind)
    BY <1>1 DEF Lines
  <2> QED
    BY <2>1, <2>2, LinesKeepBooks
<1>2. CASE e = c
  <2>1. /\ definition[c].amount \in Nat /\ Cardinality(Active(c)) \in Nat /\ Staked(c) = Stakes(c)
    BY DefinitionsAssumption, ActiveIsFinite DEF IInv, Defined, BooksInv, BooksOf
  <2>2. ASSUME NEW kind
        PROVE  IsFiniteSet(Lines(c, kind)) /\ TotalOf(Lines(c, kind)) \in Int
    <3> DEFINE amounts == [line \in Lines(c, kind) |-> line.amount]
    <3>1. Lines(c, kind) \subseteq journal /\ IsFiniteSet(journal)
      BY DEF Lines, JournalInv
    <3>2. IsFiniteSet(Lines(c, kind))
      BY <3>1, FS_Subset
    <3>3. \A line \in Lines(c, kind) : amounts[line] \in Int
      BY <3>1 DEF IInv, LinesHaveAmounts
    <3>4. TotalOf(Lines(c, kind)) = SumFunctionOnSet(amounts, Lines(c, kind))
      BY DEF TotalOf, SumFunction
    <3> HIDE DEF amounts
    <3> QED
      BY <3>2, <3>3, <3>4, SumInt
  <2>3. ASSUME NEW kind, new.kind = kind
        PROVE  TotalOf(Lines(c, kind))' = TotalOf(Lines(c, kind)) + definition[c].amount
    <3> DEFINE S == Lines(c, kind)
    <3>1. Lines(c, kind)' = S \cup {new} /\ S \cap {new} = {}
      BY <2>3 DEF Lines
    <3>2. IsFiniteSet(S) /\ IsFiniteSet({new})
      BY <2>2, FS_Singleton
    <3>3. \A line \in S \cup {new} : line.amount \in Int
      BY <2>1 DEF Lines, IInv, LinesHaveAmounts
    <3> HIDE DEF S
    <3>4. TotalOf(S \cup {new}) = TotalOf(S) + TotalOf({new})
      BY <3>1, <3>2, <3>3, TotalOfBoth
    <3>5. TotalOf({new}) = new.amount
      BY <3>3, TotalOfOne
    <3>6. TotalOf(Lines(c, kind))' = TotalOf(S \cup {new})
      BY <3>1 DEF TotalOf
    <3> QED
      BY <3>4, <3>5, <3>6 DEF S
  <2>4. ASSUME NEW kind, new.kind # kind
        PROVE  TotalOf(Lines(c, kind))' = TotalOf(Lines(c, kind))
    <3>1. Lines(c, kind)' = Lines(c, kind)
      BY <2>4 DEF Lines
    <3> QED
      BY <3>1 DEF TotalOf
  <2> DEFINE n == Cardinality(Active(c))
             price == definition[c].amount
             ins == TotalOf(Lines(c, "escrow"))
             outs == TotalOf(Lines(c, "refund"))
  <2>5. n \in Nat /\ price \in Nat /\ ins \in Int /\ outs \in Int /\ ins - outs = price * n
    BY <2>1, <2>2 DEF Staked, Stakes
  <2>6. CASE new.kind = "escrow" /\ Cardinality(Active(c)') = n + 1
    <3>1. Staked(c)' = (ins + price) - outs
      BY <2>3, <2>4, <2>6 DEF Staked
    <3>2. Stakes(c)' = price * (n + 1)
      BY <2>6 DEF Stakes
    <3> HIDE DEF ins, outs, price, n
    <3>3. (ins + price) - outs = price * (n + 1)
      BY <2>5
    <3>4. Staked(c)' = Stakes(c)'
      BY <3>1, <3>2, <3>3
    <3> QED
      BY <1>2, <3>4 DEF BooksOf
  <2>7. CASE new.kind = "refund" /\ Cardinality(Active(c)') = n - 1
    <3>1. Staked(c)' = ins - (outs + price)
      BY <2>3, <2>4, <2>7 DEF Staked
    <3>2. Stakes(c)' = price * (n - 1)
      BY <2>7 DEF Stakes
    <3> HIDE DEF ins, outs, price, n
    <3>3. ins - (outs + price) = price * (n - 1)
      BY <2>5
    <3>4. Staked(c)' = Stakes(c)'
      BY <3>1, <3>2, <3>3
    <3> QED
      BY <1>2, <3>4 DEF BooksOf
  <2> QED
    BY <2>6, <2>7
<1> QED
  BY <1>1, <1>2

\* An entry adds a stake to the books of its contest.
LEMMA EnterKeepsBooks ==
  ASSUME IInv, JournalInv, BooksInv, NEW k \in Keys, NEW c \in Contests, NEW u \in Users, Enter(k, c, u)
  PROVE  BooksInv'
<1> DEFINE new == Line(EntryOf(k), "escrow", c, u, definition[c].amount, None)
<1>1. /\ state[c] = "open" /\ k \notin recorded /\ u \notin Active(c)
      /\ journal' = journal \cup {new} /\ UNCHANGED <<state, definition, results>>
  BY DEF Enter, Fresh, MayEnter, Active
<1>2. Active(c)' = Active(c) \cup {u} /\ \A e \in Contests \ {c} : Active(e)' = Active(e)
  BY <1>1 DEF IInv, TypeOK, Enter, Active
<1>3. Cardinality(Active(c)') = Cardinality(Active(c)) + 1
  BY <1>1, <1>2, ActiveIsFinite, FS_AddElement
<1>4. /\ new.kind = "escrow" /\ new.contest = c /\ new.amount = definition[c].amount
      /\ new.entry = EntryOf(k)
  BY DEF Line
<1> HIDE DEF new
<1>5. new \notin journal
  BY <1>1, <1>4, EntriesDiffer DEF JournalInv, LinesAreKnown
<1> QED
  BY <1>1, <1>2, <1>3, <1>4, <1>5, StakeKeepsBooks

\* A withdrawal adds a refund to the books of its contest.
LEMMA WithdrawKeepsBooks ==
  ASSUME IInv, JournalInv, BooksInv, NEW k \in Keys, NEW c \in Contests, NEW u \in Users, Withdraw(k, c, u)
  PROVE  BooksInv'
<1> DEFINE new == Line(WithdrawOf(k), "refund", c, u, definition[c].amount, None)
<1>1. /\ state[c] = "open" /\ k \notin recorded /\ u \in Active(c)
      /\ journal' = journal \cup {new} /\ UNCHANGED <<state, definition, results>>
  BY DEF Withdraw, Fresh, MayWithdraw, Active
<1>2. Active(c)' = Active(c) \ {u} /\ \A e \in Contests \ {c} : Active(e)' = Active(e)
  BY <1>1 DEF IInv, TypeOK, Withdraw, Active
<1>3. Cardinality(Active(c)') = Cardinality(Active(c)) - 1
  BY <1>1, <1>2, ActiveIsFinite, FS_RemoveElement
<1>4. /\ new.kind = "refund" /\ new.contest = c /\ new.amount = definition[c].amount
      /\ new.entry = WithdrawOf(k)
  BY DEF Line
<1> HIDE DEF new
<1>5. new \notin journal
  BY <1>1, <1>4, EntriesDiffer DEF JournalInv, LinesAreKnown
<1> QED
  BY <1>1, <1>2, <1>3, <1>4, <1>5, StakeKeepsBooks

\* The lines of other contests, and the entries and withdrawals of this one,
\* are not touched by what its ending posts.
LEMMA EndingKeepsBooks ==
  ASSUME IInv, JournalInv, BooksInv, NEW c \in Contests, state[c] \notin Terminal \cup {"absent", "draft"},
         NEW final \in {"settled", "voided"}, state' = [state EXCEPT ![c] = final],
         NEW posted, EndingLines(c, final, posted), journal' = journal \cup posted,
         UNCHANGED <<definition, participant>>, \A e \in Contests \ {c} : results'[e] = results[e],
         final = "settled" =>
           /\ TotalOf({line \in posted : line.kind = "settle"}) = TotalPayout(results'[c])
           /\ TotalOf({line \in posted : line.kind = "settle"})
                + TotalOf({line \in posted : line.kind = "fee"}) = Stakes(c),
         final = "voided" => TotalOf(posted) = Stakes(c)
  PROVE  BooksInv'
<1> SUFFICES ASSUME NEW e \in Contests PROVE BooksOf(e)'
  BY DEF BooksInv
<1>0. /\ \A x \in Contests : Active(x)' = Active(x)
      /\ state'[c] = final /\ \A x \in Contests \ {c} : state'[x] = state[x]
  BY DEF Active, IInv, TypeOK
<1>1. CASE e # c
  <2>1. BooksOf(e) /\ Active(e)' = Active(e) /\ state'[e] = state[e] /\ results'[e] = results[e]
    BY <1>0, <1>1 DEF BooksInv
  <2>2. \A kind \in Kinds : Lines(e, kind)' = Lines(e, kind)
    BY <1>1 DEF Lines, EndingLines
  <2> QED
    BY <2>1, <2>2, LinesKeepBooks
<1>2. CASE e = c
  <2>1. Staked(c) = Stakes(c)
    BY DEF BooksInv, BooksOf
  <2>2. Lines(c, "escrow")' = Lines(c, "escrow") /\ Lines(c, "refund")' = Lines(c, "refund")
    BY DEF Lines, EndingLines
  <2>3. TotalOf(Lines(c, "escrow"))' = TotalOf(Lines(c, "escrow"))
        /\ TotalOf(Lines(c, "refund"))' = TotalOf(Lines(c, "refund"))
    BY <2>2 DEF TotalOf
  <2>4. Staked(c)' = Stakes(c)' /\ Stakes(c)' = Stakes(c)
    BY <1>0, <2>1, <2>3 DEF Staked, Stakes
  <2>5. \A line \in journal : line.contest = c => line.kind \in {"escrow", "refund"}
    BY DEF Terminal, JournalInv, LinesAreKnown
  <2>6. CASE final = "settled"
    <3>1. /\ Lines(c, "settle")' = {line \in posted : line.kind = "settle"}
          /\ Lines(c, "fee")' = {line \in posted : line.kind = "fee"}
      BY <2>5 DEF Lines, EndingLines
    <3>2. /\ TotalOf(Lines(c, "settle"))' = TotalOf({line \in posted : line.kind = "settle"})
          /\ TotalOf(Lines(c, "fee"))' = TotalOf({line \in posted : line.kind = "fee"})
      BY <3>1 DEF TotalOf
    <3>3. TotalPayout(results[c])' = TotalPayout(results'[c])
      BY DEF TotalPayout
    <3> QED
      BY <1>0, <1>2, <2>4, <2>6, <3>2, <3>3 DEF BooksOf
  <2>7. CASE final = "voided"
    <3>1. Lines(c, "void")' = posted
      BY <2>5, <2>7 DEF Lines, EndingLines
    <3>2. TotalOf(Lines(c, "void"))' = TotalOf(posted)
      BY <3>1 DEF TotalOf
    <3> QED
      BY <1>0, <1>2, <2>4, <2>7, <3>2 DEF BooksOf
  <2> QED
    BY <2>6, <2>7
<1> QED
  BY <1>1, <1>2

\* A settlement's payout lines add up to the recorded results, and with the
\* fee to the stakes.
LEMMA SettleKeepsBooks ==
  ASSUME IInv, JournalInv, BooksInv, NEW c \in Contests, NEW scores \in Scores, Settles(c, scores)
  PROVE  BooksInv'
<1> DEFINE payouts == ComputeSettlement(c, scores)
           rake == RakeAmount(c)
           posted == FeeLines(c, rake) \cup PayoutLines(c, payouts)
<1> HIDE DEF payouts, rake, posted
<1>1. /\ state[c] \notin Terminal \cup {"absent", "draft"}
      /\ state' = [state EXCEPT ![c] = "settled"] /\ results' = [results EXCEPT ![c] = payouts]
      /\ UNCHANGED <<definition, participant>>
      /\ journal' = journal \cup posted /\ EndingLines(c, "settled", posted)
  BY SettlePosts DEF payouts, rake, posted
<1>2. results'[c] = payouts /\ \A e \in Contests \ {c} : results'[e] = results[e]
  BY <1>1 DEF IInv, TypeOK
<1>3. /\ rake \in Nat /\ rake + TotalPayout(payouts) = escrow[c]
      /\ \A u \in Active(c) : payouts[u].payout \in Nat
      /\ DOMAIN payouts = Active(c)
  BY <1>1, SettlementAddsUp DEF payouts, rake
<1>4. escrow[c] = Stakes(c)
  BY <1>1 DEF IInv, EscrowHoldsTheStakes, Stakes
<1>5. /\ {line \in posted : line.kind = "settle"} = PayoutLines(c, payouts)
      /\ {line \in posted : line.kind = "fee"} = FeeLines(c, rake)
  BY DEF posted, FeeLines, PayoutLines, Line
<1>6. TotalOf(FeeLines(c, rake)) = rake
  <2> DEFINE fee == Line(RakeOf(c), "fee", c, None, rake, None)
  <2>1. CASE rake = 0
    <3>1. FeeLines(c, rake) = {}
      BY <2>1 DEF FeeLines
    <3> QED
      BY <2>1, <3>1, TotalOfNothing
  <2>2. CASE rake # 0
    <3>1. FeeLines(c, rake) = {fee}
      BY <2>2 DEF FeeLines
    <3>2. fee.amount = rake /\ rake \in Int
      BY <1>3 DEF Line
    <3> HIDE DEF fee
    <3>3. TotalOf({fee}) = rake
      BY <3>2, TotalOfOne
    <3> QED
      BY <3>1, <3>3
  <2> QED
    BY <2>1, <2>2
<1>7. TotalOf(PayoutLines(c, payouts)) = TotalPayout(payouts) /\ TotalPayout(payouts) \in Int
  <2> DEFINE G == Active(c)
             P == PaidUsers(payouts)
             of(u) == Line(SettleOf(c), "settle", c, u, payouts[u].payout, None)
             m == [u \in P |-> of(u)]
             f == [u \in G |-> payouts[u].payout]
  <2>1. P \subseteq G /\ IsFiniteSet(G) /\ P = {u \in G : payouts[u].payout > 0}
    BY <1>3, ActiveIsFinite DEF PaidUsers
  <2>2. IsFiniteSet(P)
    BY <2>1, FS_Subset
  <2>3. \A u \in P : m[u].user = u /\ m[u].amount = f[u] /\ f[u] \in Int
    BY <1>3, <2>1 DEF Line
  <2>4. \A u \in P : m[u] \in PayoutLines(c, payouts)
    BY DEF PayoutLines
  <2>5. \A line \in PayoutLines(c, payouts) : \E u \in P : m[u] = line
    BY DEF PayoutLines
  <2>6. \A u \in G \ P : f[u] = 0
    BY <1>3, <2>1
  <2>7. \A u \in G : f[u] \in Int
    BY <1>3
  <2>8. TotalPayout(payouts) = SumFunctionOnSet(f, G)
    BY <1>3 DEF TotalPayout, SumFunction
  <2> HIDE DEF G, P, m, f
  <2>9. \A u, v \in P : m[u] = m[v] => u = v
    BY <2>3
  <2>10. TotalOf(PayoutLines(c, payouts)) = SumFunctionOnSet(f, P)
    BY <2>2, <2>3, <2>4, <2>5, <2>9, TotalOfEach
  <2>11. SumFunctionOnSet(f, G) = SumFunctionOnSet(f, P) + SumFunctionOnSet(f, G \ P)
    <3>1. IsFiniteSet(G \ P) /\ P \cap (G \ P) = {} /\ P \cup (G \ P) = G
      BY <2>1, FS_Subset
    <3>2. \A u \in P \cup (G \ P) : f[u] \in Int
      BY <2>7, <3>1
    <3>3. SumFunctionOnSet(f, P \cup (G \ P)) = SumFunctionOnSet(f, P) + SumFunctionOnSet(f, G \ P)
      BY <2>2, <3>1, <3>2, SumDisjoint
    <3> QED
      BY <3>1, <3>3
  <2>12. SumFunctionOnSet(f, G \ P) = 0
    <3>1. IsFiniteSet(G \ P)
      BY <2>1, FS_Subset
    <3> QED
      BY <2>6, <3>1, SumOfZeros
  <2>13. SumFunctionOnSet(f, P) \in Int
    BY <2>2, <2>3, SumInt
  <2> QED
    BY <2>8, <2>10, <2>11, <2>12, <2>13
<1>8. /\ TotalOf({line \in posted : line.kind = "settle"}) = TotalPayout(results'[c])
      /\ TotalOf({line \in posted : line.kind = "settle"})
           + TotalOf({line \in posted : line.kind = "fee"}) = Stakes(c)
  <2>1. TotalOf({line \in posted : line.kind = "settle"}) = TotalPayout(payouts)
    BY <1>5, <1>7
  <2>2. TotalOf({line \in posted : line.kind = "fee"}) = rake
    BY <1>5, <1>6
  <2> QED
    BY <1>2, <1>3, <1>4, <1>7, <2>1, <2>2
<1> QED
  BY <1>1, <1>2, <1>8, EndingKeepsBooks

\* A void's lines add up to the escrow it emptied, which held the stakes.
LEMMA VoidKeepsBooks ==
  ASSUME IInv, JournalInv, BooksInv, NEW c \in Contests, NEW actor \in Actors, VoidContest(c, actor)
  PROVE  BooksInv'
<1> DEFINE posted == VoidLines(c)
           f == [u \in Active(c) |-> LineOf(stake[c][u]).amount]
           m == [u \in Active(c) |->
                   Line(VoidOf(c, u), "void", c, u, LineOf(stake[c][u]).amount, stake[c][u])]
<1>1. /\ state[c] \notin Terminal \cup {"absent", "draft"}
      /\ state' = [state EXCEPT ![c] = "voided"]
      /\ UNCHANGED <<definition, participant>>
      /\ journal' = journal \cup posted /\ EndingLines(c, "voided", posted)
  BY VoidPosts
<1>2. results' = results /\ escrow[c] - SumFunction(f) = 0
  BY DEF VoidContest
<1>3. SumFunction(f) = SumFunctionOnSet(f, Active(c))
  BY DEF SumFunction
<1>4. \A u \in Active(c) : f[u] \in Nat
  <2>1. \A u \in Active(c) : LineOf(stake[c][u]) \in journal
    BY DEF VoidContest, Reversible, LineOf
  <2> QED
    BY <2>1 DEF IInv, LinesHaveAmounts
<1>5. \A u \in Active(c) : m[u].user = u /\ m[u].amount = f[u] /\ f[u] \in Int
  BY <1>4 DEF Line
<1>6. (\A u \in Active(c) : m[u] \in posted) /\ \A line \in posted : \E u \in Active(c) : m[u] = line
  BY DEF VoidLines
<1> HIDE DEF posted, f, m
<1>7. \A u, v \in Active(c) : m[u] = m[v] => u = v
  BY <1>5
<1>8. IsFiniteSet(Active(c))
  BY ActiveIsFinite
<1>9. TotalOf(posted) = SumFunctionOnSet(f, Active(c))
  BY <1>5, <1>6, <1>7, <1>8, TotalOfEach
<1>10. SumFunctionOnSet(f, Active(c)) \in Nat
  BY <1>4, <1>8, SumNat
<1>11. escrow[c] = Stakes(c) /\ escrow[c] \in Nat
  BY <1>1 DEF IInv, TypeOK, EscrowHoldsTheStakes, Stakes
<1>12. TotalOf(posted) = Stakes(c)
  BY <1>2, <1>3, <1>9, <1>10, <1>11
<1> QED
  BY <1>1, <1>2, <1>12, EndingKeepsBooks

\* The journal of an ended contest explains where every stake went: settled,
\* it paid the recorded results and the fee and nothing else; voided, it
\* reversed every stake that was not withdrawn; cancelled, none was left
\* (reconcile.ts I5 and I9; settlement.ts).
THEOREM BooksCorrect == Spec => []BooksClose
<1>1. Init => JournalInv
  BY InitHasNoLines
<1>2. Init => BooksInv
  BY DEF Init, BooksInv, BooksOf
<1>3. IInv /\ JournalInv /\ [Next]_vars => JournalInv'
  BY StepKeepsJournal
<1>4. IInv /\ JournalInv /\ BooksInv /\ [Next]_vars /\ IInv' => BooksInv'
  BY StepKinds, QuietKeepsBooks, EnterKeepsBooks, WithdrawKeepsBooks, SettleKeepsBooks, VoidKeepsBooks
<1>5. IInv /\ BooksInv => BooksClose
  <2> SUFFICES ASSUME IInv, BooksInv, NEW c \in Contests
               PROVE  LET staked == TotalOf(Lines(c, "escrow")) - TotalOf(Lines(c, "refund"))
                      IN  /\ state[c] = "settled" =>
                               /\ TotalOf(Lines(c, "settle")) = TotalPayout(results[c])
                               /\ staked = TotalOf(Lines(c, "settle")) + TotalOf(Lines(c, "fee"))
                          /\ state[c] = "voided" => staked = TotalOf(Lines(c, "void"))
                          /\ state[c] = "cancelled" => staked = 0
    BY DEF BooksClose
  <2>1. BooksOf(c)
    BY DEF BooksInv
  <2>2. CASE state[c] = "cancelled"
    <3>1. Cardinality(Active(c)) = 0 /\ definition[c].amount \in Nat
      BY <2>1, <2>2, FS_EmptySet, DefinitionsAssumption DEF BooksOf, IInv, Defined
    <3>2. Stakes(c) = 0
      BY <3>1 DEF Stakes
    <3> QED
      BY <2>1, <2>2, <3>2 DEF BooksOf, Staked
  <2>3. CASE state[c] # "cancelled"
    BY <2>1, <2>3 DEF BooksOf, Staked
  <2> QED
    BY <2>2, <2>3
<1> QED
  BY <1>1, <1>2, <1>3, <1>4, <1>5, Invariance, PTL DEF Spec

-----------------------------------------------------------------------------
(* Contest implements StakePot.                                            *)

\* Only entering a contest posts under the name of an entry.
EntriesAreNamed ==
  \A line \in journal : \A k \in Keys : line.entry = EntryOf(k) => line.kind = "escrow"

\* The names of the journal's entries tell their services apart.
LEMMA NamesDiffer ==
  ASSUME NEW k, NEW l, NEW c, NEW u
  PROVE  EntryOf(k) \notin {WithdrawOf(l), RakeOf(c), SettleOf(c), VoidOf(c, u)}
<1>1. /\ EntryOf(k)[1] = "contest-entry" /\ WithdrawOf(l)[1] = "contest-withdraw"
      /\ RakeOf(c)[1] = "rake" /\ SettleOf(c)[1] = "settle" /\ VoidOf(c, u)[1] = "void"
  BY DEF EntryOf, WithdrawOf, RakeOf, SettleOf, VoidOf
<1> QED
  BY <1>1

\* No step posts another kind of line under an entry's name.
LEMMA StepKeepsNames == IInv /\ EntriesAreNamed /\ [Next]_vars => EntriesAreNamed'
<1> SUFFICES ASSUME IInv, EntriesAreNamed, [Next]_vars PROVE EntriesAreNamed'
  OBVIOUS
<1>1. CASE Quiet
  BY <1>1 DEF Quiet, EntriesAreNamed
<1>2. CASE \E k \in Keys, c \in Contests, u \in Users : Enter(k, c, u)
  BY <1>2 DEF Enter, Line, EntriesAreNamed
<1>3. CASE \E k \in Keys, c \in Contests, u \in Users : Withdraw(k, c, u)
  <2> PICK l \in Keys, c \in Contests, u \in Users : Withdraw(l, c, u)
    BY <1>3
  <2> DEFINE new == Line(WithdrawOf(l), "refund", c, u, definition[c].amount, None)
  <2>1. journal' = journal \cup {new} /\ new.entry = WithdrawOf(l)
    BY DEF Withdraw, Line
  <2> HIDE DEF new
  <2> QED
    BY <2>1, NamesDiffer DEF EntriesAreNamed
<1>4. CASE \E c \in Contests, scores \in Scores : Settles(c, scores)
  <2> PICK c \in Contests, scores \in Scores : Settles(c, scores)
    BY <1>4
  <2> DEFINE posted == FeeLines(c, RakeAmount(c)) \cup PayoutLines(c, ComputeSettlement(c, scores))
  <2>1. journal' = journal \cup posted
    BY SettlePosts
  <2>2. \A line \in posted : line.entry \in {RakeOf(c), SettleOf(c)}
    BY DEF FeeLines, PayoutLines, Line
  <2> HIDE DEF posted
  <2> QED
    BY <2>1, <2>2, NamesDiffer DEF EntriesAreNamed
<1>5. CASE \E c \in Contests, actor \in Actors : VoidContest(c, actor)
  <2> PICK c \in Contests, actor \in Actors : VoidContest(c, actor)
    BY <1>5
  <2>1. journal' = journal \cup VoidLines(c)
    BY VoidPosts
  <2>2. \A line \in VoidLines(c) : \E u \in Active(c) : line.entry = VoidOf(c, u)
    BY DEF VoidLines, Line
  <2> QED
    BY <2>1, <2>2, NamesDiffer DEF EntriesAreNamed
<1> QED
  BY <1>1, <1>2, <1>3, <1>4, <1>5, StepKinds

\* The entry an active participant is linked to is its stake, at the
\* contest's amount.
LEMMA LinkIsTheStake ==
  ASSUME IInv, JournalInv, EntriesAreNamed, NEW c \in Contests, NEW u \in Active(c)
  PROVE  LineOf(stake[c][u]).amount = definition[c].amount
<1>1. PICK own \in journal : /\ own.kind = "escrow" /\ own.entry = stake[c][u]
                             /\ own.amount = definition[c].amount
  BY DEF JournalInv, ActiveAreLinked, Linked
<1>2. PICK k \in Keys : own.entry = EntryOf(k)
  BY <1>1 DEF JournalInv, LinesAreKnown, IInv, TypeOK
<1>3. LineOf(stake[c][u]) \in journal /\ LineOf(stake[c][u]).entry = stake[c][u]
  BY <1>1 DEF LineOf
<1>4. LineOf(stake[c][u]).kind = "escrow"
  BY <1>1, <1>2, <1>3 DEF EntriesAreNamed
<1> QED
  BY <1>1, <1>3, <1>4 DEF JournalInv, LinesAreDistinct

\* Where the mapping is defined and how a step of one contest moves it.
LEMMA PotMovesAt ==
  ASSUME NEW c \in Contests,
         \A e \in Contests \ {c} : /\ state'[e] = state[e] /\ definition'[e] = definition[e]
                                   /\ Active(e)' = Active(e)
  PROVE  /\ Phases' = [Phases EXCEPT ![c] = PhaseOf(c)']
         /\ Prices' = [Prices EXCEPT ![c] = Prices'[c]]
         /\ Holders' = [Holders EXCEPT ![c] = Holders'[c]]
<1>1. \A e \in Contests \ {c} : PhaseOf(e)' = PhaseOf(e)
  BY DEF PhaseOf
<1>2. \A e \in Contests \ {c} : Phases'[e] = Phases[e] /\ Prices'[e] = Prices[e] /\ Holders'[e] = Holders[e]
  BY <1>1 DEF Phases, Prices, Holders
<1>3. Phases' = [Phases EXCEPT ![c] = PhaseOf(c)']
  BY <1>1 DEF Phases
<1>4. Prices' = [Prices EXCEPT ![c] = Prices'[c]]
  BY <1>2 DEF Prices
<1>5. Holders' = [Holders EXCEPT ![c] = Holders'[c]]
  BY <1>2 DEF Holders
<1> QED
  BY <1>3, <1>4, <1>5

\* What the pot of a contest is in each phase.
LEMMA PotOf ==
  ASSUME NEW c \in Contests
  PROVE  /\ Phases[c] = PhaseOf(c)
         /\ state[c] \in {"absent", "draft"} => Phases[c] = "planned" /\ Prices[c] = 0 /\ Holders[c] = Active(c)
         /\ state[c] = "open" =>
              Phases[c] = "collecting" /\ Prices[c] = definition[c].amount /\ Holders[c] = Active(c)
         /\ state[c] \in {"locked", "in_progress", "awaiting_settlement"} =>
              Phases[c] = "running" /\ Prices[c] = definition[c].amount /\ Holders[c] = Active(c)
         /\ state[c] \in Terminal => Phases[c] = "over" /\ Prices[c] = 0 /\ Holders[c] = {}
  BY DEF Phases, PhaseOf, Prices, Holders, Terminal

\* What the pot shows of a contest after a step.
LEMMA PotAfter ==
  ASSUME NEW c \in Contests
  PROVE  /\ PhaseOf(c)' = Phases'[c]
         /\ state'[c] \in {"absent", "draft"} =>
              Phases'[c] = "planned" /\ Prices'[c] = 0 /\ Holders'[c] = Active(c)'
         /\ state'[c] = "open" =>
              Phases'[c] = "collecting" /\ Prices'[c] = definition'[c].amount /\ Holders'[c] = Active(c)'
         /\ state'[c] \in {"locked", "in_progress", "awaiting_settlement"} =>
              Phases'[c] = "running" /\ Prices'[c] = definition'[c].amount /\ Holders'[c] = Active(c)'
         /\ state'[c] \in Terminal => Phases'[c] = "over" /\ Prices'[c] = 0 /\ Holders'[c] = {}
  BY DEF Phases, PhaseOf, Prices, Holders, Terminal

\* The mapped state changes by a step of StakePot, or not at all.
PotStep == Pot!PotNext \/ UNCHANGED Pot!potVars

\* A step that leaves states, definitions and participants alone moves no pot.
LEMMA PotStays ==
  ASSUME UNCHANGED <<state, definition, participant, wallet, fees>>
  PROVE  PotStep
<1>1. \A c \in Contests : PhaseOf(c)' = PhaseOf(c) /\ Active(c)' = Active(c)
  BY DEF PhaseOf, Active
<1>2. UNCHANGED <<Phases, Prices, Holders>>
  BY <1>1 DEF Phases, Prices, Holders
<1> QED
  BY <1>2 DEF PotStep, Pot!potVars

\* A contest is planned until it opens, whatever becomes of its definition.
LEMMA PlanningIsAPotStep ==
  ASSUME NEW c \in Contests, state[c] \in {"absent", "draft"}, state'[c] = "draft",
         \A e \in Contests \ {c} : state'[e] = state[e] /\ definition'[e] = definition[e],
         UNCHANGED <<participant, wallet, fees>>
  PROVE  PotStep
<1>1. \A e \in Contests : Active(e)' = Active(e)
  BY DEF Active
<1>2. \A e \in Contests \ {c} : PhaseOf(e)' = PhaseOf(e)
  BY DEF PhaseOf
<1>3. PhaseOf(c) = "planned" /\ PhaseOf(c)' = "planned"
  BY DEF PhaseOf
<1>4. UNCHANGED <<Phases, Prices, Holders>>
  BY <1>1, <1>2, <1>3 DEF Phases, Prices, Holders
<1> QED
  BY <1>4 DEF PotStep, Pot!potVars

\* A contest that has started stays a running pot until it ends.
LEMMA PotKeepsRunning ==
  ASSUME NEW c \in Contests, state[c] \in {"locked", "in_progress", "awaiting_settlement"},
         state'[c] \in {"locked", "in_progress", "awaiting_settlement"},
         \A e \in Contests \ {c} : state'[e] = state[e],
         UNCHANGED <<definition, participant, wallet, fees>>
  PROVE  PotStep
<1>1. \A e \in Contests : Active(e)' = Active(e)
  BY DEF Active
<1>2. \A e \in Contests \ {c} : PhaseOf(e)' = PhaseOf(e)
  BY DEF PhaseOf
<1>3. PhaseOf(c) = "running" /\ PhaseOf(c)' = "running"
  BY DEF PhaseOf
<1>4. UNCHANGED <<Phases, Prices, Holders>>
  BY <1>1, <1>2, <1>3 DEF Phases, Prices, Holders
<1> QED
  BY <1>4 DEF PotStep, Pot!potVars

\* Opening announces the price, locking starts play, cancelling returns
\* nothing because nobody is in, and the other transitions move no pot.
LEMMA TransitionIsAPotStep ==
  ASSUME IInv, NEW c \in Contests, NEW to \in ContestStates, NEW actor \in Actors,
         TransitionContest(c, to, actor)
  PROVE  PotStep
<1>1. /\ state[c] \in ContestStates /\ to \in Transitions[state[c]] /\ to \in PlainTargets
      /\ state' = [state EXCEPT ![c] = to]
      /\ to = "cancelled" => Active(c) = {}
      /\ UNCHANGED <<definition, participant, wallet, fees>>
  BY DEF TransitionContest, AssertTransition, MayCancel, IInv, TypeOK, money
<1>2. /\ state'[c] = to /\ \A e \in Contests \ {c} : state'[e] = state[e]
      /\ \A e \in Contests : Active(e)' = Active(e)
  BY <1>1 DEF Active, IInv, TypeOK
<1>3. /\ Phases' = [Phases EXCEPT ![c] = Phases'[c]]
      /\ Prices' = [Prices EXCEPT ![c] = Prices'[c]]
      /\ Holders' = [Holders EXCEPT ![c] = Holders'[c]]
  BY <1>1, <1>2, PotMovesAt, PotAfter
<1>4. /\ DOMAIN Phases = Contests /\ DOMAIN Prices = Contests /\ DOMAIN Holders = Contests
      /\ Phases = [e \in Contests |-> Phases[e]] /\ Prices = [e \in Contests |-> Prices[e]]
      /\ Holders = [e \in Contests |-> Holders[e]]
  BY DEF Phases, Prices, Holders
<1>5. CASE to = "open"
  <2>1. state[c] = "draft" /\ definition[c].amount \in Nat \ {0}
    BY <1>1, <1>5, DefinitionsAssumption DEF Transitions, ContestStates, IInv, Defined
  <2>2. Phases[c] = "planned" /\ Phases'[c] = "collecting" /\ Prices'[c] \in Nat \ {0} /\ Holders'[c] = Holders[c]
    BY <1>1, <1>2, <1>5, <2>1, PotOf, PotAfter
  <2>3. Holders' = Holders
    BY <1>3, <1>4, <2>2
  <2>4. Pot!Announce(c)
    BY <1>1, <1>3, <2>2, <2>3 DEF Pot!Announce
  <2> QED
    BY <2>4 DEF PotStep, Pot!PotNext
<1>6. CASE to = "locked"
  <2>1. state[c] = "open"
    BY <1>1, <1>6 DEF Transitions, ContestStates
  <2>2. /\ Phases[c] = "collecting" /\ Phases'[c] = "running"
        /\ Prices'[c] = Prices[c] /\ Holders'[c] = Holders[c]
    BY <1>1, <1>2, <1>6, <2>1, PotOf, PotAfter
  <2>3. Holders' = Holders /\ Prices' = Prices
    BY <1>3, <1>4, <2>2
  <2>4. Pot!Start(c)
    BY <1>1, <1>3, <2>2, <2>3 DEF Pot!Start
  <2> QED
    BY <2>4 DEF PotStep, Pot!PotNext
<1>7. CASE to \in {"in_progress", "awaiting_settlement"}
  <2>1. state[c] \in {"locked", "in_progress"}
    BY <1>1, <1>7 DEF Transitions, ContestStates
  <2> QED
    BY <1>1, <1>2, <1>7, <2>1, PotKeepsRunning
<1>8. CASE to = "cancelled"
  <2>1. state[c] \in {"draft", "open", "locked", "in_progress", "awaiting_settlement"} /\ Active(c) = {}
    BY <1>1, <1>8 DEF Transitions, ContestStates
  <2>2. Phases[c] # "over" /\ Holders[c] = {}
    BY <2>1, PotOf
  <2>3. Phases'[c] = "over" /\ Prices'[c] = 0 /\ Holders'[c] = {}
    BY <1>2, <1>8, PotAfter DEF Terminal
  <2>4. wallet' = [u \in Users |-> IF u \in Holders[c] THEN wallet[u] + Prices[c] ELSE wallet[u]]
    BY <1>1, <2>2 DEF IInv, TypeOK
  <2>5. Pot!Return(c)
    BY <1>1, <1>3, <2>2, <2>3, <2>4 DEF Pot!Return
  <2> QED
    BY <2>5 DEF PotStep, Pot!PotNext
<1> QED
  BY <1>1, <1>5, <1>6, <1>7, <1>8 DEF PlainTargets

\* Entering joins the pot and withdrawing leaves it.
LEMMA EnterIsAPotStep ==
  ASSUME IInv, NEW k \in Keys, NEW c \in Contests, NEW u \in Users, Enter(k, c, u)
  PROVE  PotStep
<1>1. /\ state[c] = "open" /\ u \notin Active(c) /\ wallet[u] >= definition[c].amount
      /\ wallet' = [wallet EXCEPT ![u] = @ - definition[c].amount]
      /\ UNCHANGED <<state, definition, fees>>
  BY DEF Enter, MayEnter, Covers, Active
<1>2. Active(c)' = Active(c) \cup {u} /\ \A e \in Contests \ {c} : Active(e)' = Active(e)
  BY <1>1 DEF IInv, TypeOK, Enter, Active
<1>3. /\ Phases' = [Phases EXCEPT ![c] = Phases'[c]]
      /\ Prices' = [Prices EXCEPT ![c] = Prices'[c]]
      /\ Holders' = [Holders EXCEPT ![c] = Holders'[c]]
  BY <1>1, <1>2, PotMovesAt, PotAfter
<1>4. Phases = [e \in Contests |-> Phases[e]] /\ Prices = [e \in Contests |-> Prices[e]]
  BY DEF Phases, Prices
<1>5. /\ Phases[c] = "collecting" /\ Prices[c] = definition[c].amount /\ Holders[c] = Active(c)
      /\ Phases'[c] = Phases[c] /\ Prices'[c] = Prices[c] /\ Holders'[c] = Holders[c] \cup {u}
  BY <1>1, <1>2, PotOf, PotAfter
<1>6. Phases' = Phases /\ Prices' = Prices
  BY <1>3, <1>4, <1>5
<1>7. Pot!Join(c, u)
  BY <1>1, <1>3, <1>5, <1>6 DEF Pot!Join
<1> QED
  BY <1>7 DEF PotStep, Pot!PotNext

\* A withdrawal gives a stake back.
LEMMA WithdrawIsAPotStep ==
  ASSUME IInv, NEW k \in Keys, NEW c \in Contests, NEW u \in Users, Withdraw(k, c, u)
  PROVE  PotStep
<1>1. /\ state[c] = "open" /\ u \in Active(c)
      /\ wallet' = [wallet EXCEPT ![u] = @ + definition[c].amount]
      /\ UNCHANGED <<state, definition, fees>>
  BY DEF Withdraw, MayWithdraw, Active
<1>2. Active(c)' = Active(c) \ {u} /\ \A e \in Contests \ {c} : Active(e)' = Active(e)
  BY <1>1 DEF IInv, TypeOK, Withdraw, Active
<1>3. /\ Phases' = [Phases EXCEPT ![c] = Phases'[c]]
      /\ Prices' = [Prices EXCEPT ![c] = Prices'[c]]
      /\ Holders' = [Holders EXCEPT ![c] = Holders'[c]]
  BY <1>1, <1>2, PotMovesAt, PotAfter
<1>4. Phases = [e \in Contests |-> Phases[e]] /\ Prices = [e \in Contests |-> Prices[e]]
  BY DEF Phases, Prices
<1>5. /\ Phases[c] = "collecting" /\ Prices[c] = definition[c].amount /\ Holders[c] = Active(c)
      /\ Phases'[c] = Phases[c] /\ Prices'[c] = Prices[c] /\ Holders'[c] = Holders[c] \ {u}
  BY <1>1, <1>2, PotOf, PotAfter
<1>6. Phases' = Phases /\ Prices' = Prices
  BY <1>3, <1>4, <1>5
<1>7. Pot!Leave(c, u)
  BY <1>1, <1>3, <1>5, <1>6 DEF Pot!Leave
<1> QED
  BY <1>7 DEF PotStep, Pot!PotNext

\* StakePot counts and sums as Contest does.
LEMMA PotCounts ==
  /\ \A S : Pot!Cardinality(S) = Cardinality(S)
  /\ \A f : Pot!SumFunction(f) = SumFunction(f)
<1>1. \A S : Pot!Cardinality(S) = Cardinality(S)
  BY DEF Pot!Cardinality, Cardinality
<1>2. \A f : Pot!SumFunction(f) = SumFunction(f)
  BY DEF Pot!SumFunction, SumFunction, Pot!SumFunctionOnSet, SumFunctionOnSet,
         Pot!FoldFunctionOnSet, FoldFunctionOnSet, Pot!MapThenFoldSet, MapThenFoldSet
<1> QED
  BY <1>1, <1>2

\* A settlement distributes the pot: what the holders get and what the
\* platform takes are the stakes, exactly.
LEMMA SettleIsAPotStep ==
  ASSUME IInv, NEW c \in Contests, NEW scores \in Scores, Settles(c, scores)
  PROVE  PotStep
<1> DEFINE payouts == ComputeSettlement(c, scores)
           rake == RakeAmount(c)
           pot == Prices[c] * Cardinality(Holders[c])
<1>1. /\ state[c] \in {"in_progress", "awaiting_settlement"}
      /\ state' = [state EXCEPT ![c] = "settled"]
      /\ fees' = fees + rake
      /\ wallet' = [u \in Users |->
                      IF u \in PaidUsers(payouts) THEN wallet[u] + payouts[u].payout ELSE wallet[u]]
      /\ UNCHANGED <<definition, participant>>
  BY DEF Settles, AcceptingScores, ExecuteSettlement
<1>2. /\ state'[c] = "settled" /\ \A e \in Contests \ {c} : state'[e] = state[e]
      /\ \A e \in Contests : Active(e)' = Active(e)
  BY <1>1 DEF Active, IInv, TypeOK
<1>3. /\ Phases' = [Phases EXCEPT ![c] = "over"]
      /\ Prices' = [Prices EXCEPT ![c] = 0]
      /\ Holders' = [Holders EXCEPT ![c] = {}]
  BY <1>1, <1>2, PotMovesAt, PotAfter DEF Terminal
<1>4. Phases[c] = "running" /\ Prices[c] = definition[c].amount /\ Holders[c] = Active(c)
  BY <1>1, PotOf
<1>5. escrow[c] = pot
  BY <1>1, <1>4 DEF IInv, EscrowHoldsTheStakes, Terminal
<1>6. /\ rake \in Nat /\ 2 * rake <= pot
      /\ TotalPayout(payouts) \in Nat /\ rake + TotalPayout(payouts) = pot
      /\ \A u \in Active(c) : payouts[u].payout \in Nat
      /\ DOMAIN payouts = Active(c)
  <2>1. state[c] \notin Terminal \cup {"absent", "draft"}
    BY <1>1 DEF Terminal
  <2>2. /\ rake \in Nat /\ 2 * rake <= escrow[c]
          /\ TotalPayout(payouts) \in Nat /\ rake + TotalPayout(payouts) = escrow[c]
        /\ \A u \in Active(c) : payouts[u].payout \in Nat
        /\ DOMAIN payouts = Active(c)
    BY <2>1, SettlementAddsUp
  <2> HIDE DEF rake, payouts, pot
  <2> QED
    BY <1>5, <2>2
<1> HIDE DEF payouts, rake, pot
<1>7. Active(c) \subseteq Users /\ wallet \in [Users -> Nat] /\ fees \in Nat
  BY DEF Active, IInv, TypeOK
<1>8. /\ \A u \in Active(c) : wallet'[u] - wallet[u] = payouts[u].payout
      /\ \A u \in Users : IF u \in Active(c) THEN wallet'[u] >= wallet[u] ELSE wallet'[u] = wallet[u]
  <2>1. \A u \in Users : IF u \in PaidUsers(payouts) THEN wallet'[u] = wallet[u] + payouts[u].payout
                                                     ELSE wallet'[u] = wallet[u]
    BY <1>1
  <2>2. \A u \in Users : u \in PaidUsers(payouts) <=> u \in Active(c) /\ payouts[u].payout > 0
    BY <1>6 DEF PaidUsers
  <2> QED
    BY <1>6, <1>7, <2>1, <2>2
<1>9. SumFunction([u \in Active(c) |-> wallet'[u] - wallet[u]]) = TotalPayout(payouts)
  <2>1. [u \in Active(c) |-> wallet'[u] - wallet[u]] = [u \in DOMAIN payouts |-> payouts[u].payout]
    BY <1>6, <1>8
  <2> QED
    BY <2>1 DEF TotalPayout
<1>10. fees' - fees = rake
  BY <1>1, <1>6, <1>7
<1>11. SumFunction([u \in Holders[c] |-> wallet'[u] - wallet[u]]) + (fees' - fees) = pot
  <2>1. TotalPayout(payouts) + (fees' - fees) = pot
    BY <1>6, <1>10
  <2> QED
    BY <1>4, <1>9, <2>1
<1>12. 0 <= fees' - fees /\ 2 * (fees' - fees) <= pot
  BY <1>6, <1>10
<1>13. Pot!Distribute(c)
  <2>1. \A u \in Users : IF u \in Holders[c] THEN wallet'[u] >= wallet[u] ELSE wallet'[u] = wallet[u]
    BY <1>4, <1>8
  <2>2. /\ SumFunction([u \in Holders[c] |-> wallet'[u] - wallet[u]]) + (fees' - fees)
             = Prices[c] * Cardinality(Holders[c])
        /\ 2 * (fees' - fees) <= Prices[c] * Cardinality(Holders[c])
    BY <1>11, <1>12 DEF pot
  <2>3. Phases[c] = "running"
    BY <1>4
  <2> QED
    BY <1>3, <1>12, <2>1, <2>2, <2>3, PotCounts DEF Pot!Distribute
<1> QED
  BY <1>13 DEF PotStep, Pot!PotNext

\* A void returns every stake at the price it was made at.
LEMMA VoidIsAPotStep ==
  ASSUME IInv, JournalInv, EntriesAreNamed, NEW c \in Contests, NEW actor \in Actors, VoidContest(c, actor)
  PROVE  PotStep
<1>1. /\ state[c] \in ContestStates /\ "voided" \in Transitions[state[c]]
      /\ state' = [state EXCEPT ![c] = "voided"]
      /\ wallet' = [u \in Users |->
                      IF u \in Active(c) THEN wallet[u] + LineOf(stake[c][u]).amount ELSE wallet[u]]
      /\ UNCHANGED <<definition, participant, fees>>
  BY DEF VoidContest, AssertTransition, IInv, TypeOK
<1>2. /\ state'[c] = "voided" /\ \A e \in Contests \ {c} : state'[e] = state[e]
      /\ \A e \in Contests : Active(e)' = Active(e)
  BY <1>1 DEF Active, IInv, TypeOK
<1>3. /\ Phases' = [Phases EXCEPT ![c] = "over"]
      /\ Prices' = [Prices EXCEPT ![c] = 0]
      /\ Holders' = [Holders EXCEPT ![c] = {}]
  BY <1>1, <1>2, PotMovesAt, PotAfter DEF Terminal
<1>4. state[c] \in {"open", "locked", "in_progress", "awaiting_settlement"}
  BY <1>1 DEF Transitions, ContestStates
<1>5. Phases[c] # "over" /\ Prices[c] = definition[c].amount /\ Holders[c] = Active(c)
  BY <1>4, PotOf
<1>6. \A u \in Active(c) : LineOf(stake[c][u]).amount = definition[c].amount
  BY LinkIsTheStake
<1>7. wallet' = [u \in Users |-> IF u \in Holders[c] THEN wallet[u] + Prices[c] ELSE wallet[u]]
  BY <1>1, <1>5, <1>6
<1>8. Pot!Return(c)
  BY <1>1, <1>3, <1>5, <1>7 DEF Pot!Return
<1> QED
  BY <1>8 DEF PotStep, Pot!PotNext

\* Every step of Contest maps to a step of StakePot or to none.
LEMMA StepIsAPotStep ==
  IInv /\ JournalInv /\ EntriesAreNamed /\ [Next]_vars => PotStep
<1> SUFFICES ASSUME IInv, JournalInv, EntriesAreNamed, [Next]_vars PROVE PotStep
  OBVIOUS
<1>1. CASE UNCHANGED <<state, definition, participant, wallet, fees>>
  BY <1>1, PotStays
<1>2. CASE \E c \in Contests, d \in Definitions : CreateContest(c, d) \/ UpdateContest(c, d)
  <2> PICK c \in Contests, d \in Definitions : CreateContest(c, d) \/ UpdateContest(c, d)
    BY <1>2
  <2>1. /\ state[c] \in {"absent", "draft"} /\ state'[c] = "draft"
        /\ \A e \in Contests \ {c} : state'[e] = state[e] /\ definition'[e] = definition[e]
        /\ UNCHANGED <<participant, wallet, fees>>
    BY DEF CreateContest, UpdateContest, money, IInv, TypeOK
  <2> QED
    BY <2>1, PlanningIsAPotStep
<1>3. CASE \E c \in Contests, to \in ContestStates, actor \in Actors : TransitionContest(c, to, actor)
  BY <1>3, TransitionIsAPotStep
<1>4. CASE \E k \in Keys, c \in Contests, u \in Users : Enter(k, c, u) \/ Withdraw(k, c, u)
  BY <1>4, EnterIsAPotStep, WithdrawIsAPotStep
<1>5. CASE \E c \in Contests, scores \in Scores : Settles(c, scores)
  BY <1>5, SettleIsAPotStep
<1>6. CASE \E c \in Contests, batch \in Batches : SubmitScores(c, batch)
  <2> PICK c \in Contests, batch \in Batches : SubmitScores(c, batch)
    BY <1>6
  <2>1. /\ state[c] \in AcceptingScores /\ UNCHANGED <<definition, participant>>
        /\ \/ UNCHANGED <<state, results, money>>
           \/ state' = [state EXCEPT ![c] = "awaiting_settlement"] /\ UNCHANGED <<results, money>>
           \/ \E scores \in Scores : Settles(c, scores)
    BY ScoresAdvance
  <2>2. CASE state' = [state EXCEPT ![c] = "awaiting_settlement"] /\ UNCHANGED money
    BY <2>1, <2>2, PotKeepsRunning DEF AcceptingScores, money, IInv, TypeOK
  <2>3. CASE UNCHANGED <<state, money>>
    BY <2>1, <2>3, PotStays DEF money
  <2> QED
    BY <1>5, <2>1, <2>2, <2>3
<1>7. CASE \E c \in Contests, actor \in Actors : VoidContest(c, actor)
  BY <1>7, VoidIsAPotStep
<1>8. CASE \E c \in Contests, actor \in Actors : CloseContest(c, actor)
  BY <1>5, <1>8, CloseSettles
<1>9. CASE \E k \in Keys : Arrive(k) \/ EndWithoutEffect(k)
  BY <1>1, <1>9 DEF Arrive, EndWithoutEffect, money
<1>10. CASE \E c \in Contests : LockTimePasses(c) \/ Preview(c)
  BY <1>1, <1>10 DEF LockTimePasses, Preview, money
<1>11. CASE UNCHANGED vars
  BY <1>1, <1>11 DEF vars
<1> QED
  BY <1>2, <1>3, <1>4, <1>6, <1>7, <1>8, <1>9, <1>10, <1>11 DEF Next

\* Contest implements StakePot: whatever the retries, re-entries, scores, ties
\* and roundings, a stake goes in at one price, comes out one at a time until
\* play starts, and leaves with the others in a single step that returns every
\* stake or distributes exactly the pot (README, "every stake refunded").
THEOREM PotImplemented == Spec => ImplementsPot
<1>1. Init => Pot!PotInit /\ EntriesAreNamed
  BY DEF Init, Pot!PotInit, EntriesAreNamed, Phases, PhaseOf, Prices, Holders, Active
<1>2. IInv /\ JournalInv /\ EntriesAreNamed /\ [Next]_vars => [Pot!PotNext]_(Pot!potVars)
  BY StepIsAPotStep DEF PotStep
<1>3. Init => JournalInv
  BY InitHasNoLines
<1>4. IInv /\ JournalInv /\ [Next]_vars => JournalInv'
  BY StepKeepsJournal
<1>5. IInv /\ EntriesAreNamed /\ [Next]_vars => EntriesAreNamed'
  BY StepKeepsNames
<1> QED
  BY <1>1, <1>2, <1>3, <1>4, <1>5, Invariance, PTL DEF Spec, ImplementsPot, Pot!PotSpec

=============================================================================
