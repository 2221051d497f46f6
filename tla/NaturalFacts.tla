---------------------------- MODULE NaturalFacts ----------------------------
(***************************************************************************)
(* Facts about the naturals that several proofs rest on.  Remainders, for  *)
(* rings of slots: reducing a counter modulo a multiple of the capacity    *)
(* does not change its slot, and counters less than the capacity apart     *)
(* have different slots.  Induction, for what is computed in a loop: it is *)
(* stated about a set, the numbers for which a claim holds.  Sums, for     *)
(* what is conserved: how the sum over a finite set changes with the set   *)
(* and with one of the values.                                             *)
(***************************************************************************)
EXTENDS Integers, FiniteSetsExt, FiniteSetTheorems, NaturalsInduction, WellFoundedInduction,
        TLAPS

(* Quotient and remainder are what they should be.                         *)
LEMMA DivMod ==
    ASSUME NEW a \in Int, NEW n \in Nat \ {0}
    PROVE  a \div n \in Int /\ a % n \in 0 .. (n - 1) /\ a = n * (a \div n) + (a % n)
  OBVIOUS

(* A remainder is determined by the number it is the remainder of.         *)
LEMMA ModUnique ==
    ASSUME NEW n \in Nat \ {0}, NEW q \in Int, NEW p \in Int,
           NEW r \in 0 .. (n - 1), NEW s \in 0 .. (n - 1), n * q + r = n * p + s
    PROVE  r = s
<1>1. n * (q - p) = s - r
  OBVIOUS
<1>2. CASE q = p
  BY <1>2
<1>3. CASE q - p >= 1
  <2>1. n * (q - p) >= n
    BY <1>3
  <2> QED
    BY <2>1, <1>1
<1>4. CASE q - p <= -1
  <2>1. n * (q - p) <= -n
    BY <1>4
  <2> QED
    BY <2>1, <1>1
<1> QED
  BY <1>2, <1>3, <1>4

(* A counter kept modulo k * n selects the same residue modulo n.          *)
LEMMA ModAdd ==
    ASSUME NEW a \in Int, NEW j \in Int, NEW n \in Nat \ {0}, NEW k \in Nat \ {0}
    PROVE  ((a % (k * n)) + j) % n = (a + j) % n
<1> DEFINE m == k * n
           q == a \div m
           b == a % m
<1>0. a \in Int
  OBVIOUS
<1>1. m \in Nat \ {0}
  OBVIOUS
<1>2. q \in Int /\ b \in 0 .. (m - 1) /\ a = m * q + b
  BY <1>0, <1>1, DivMod, Zenon DEF q, b
<1> HIDE DEF q, b
<1>3. m * q = n * (k * q)
  BY <1>2
<1> DEFINE x == (b + j) \div n
           r == (b + j) % n
           y == (a + j) \div n
           s == (a + j) % n
<1>4. x \in Int /\ r \in 0 .. (n - 1) /\ b + j = n * x + r
  <2>1. b + j \in Int
    BY <1>2
  <2> QED
    BY <2>1, DivMod, Zenon DEF x, r
<1>5. y \in Int /\ s \in 0 .. (n - 1) /\ a + j = n * y + s
  <2>1. a + j \in Int
    OBVIOUS
  <2> QED
    BY <2>1, DivMod, Zenon DEF y, s
<1> HIDE DEF x, r, y, s, m
<1>6. n * (k * q + x) = n * (k * q) + n * x
  BY <1>2, <1>4
<1>7. n * (k * q + x) + r = n * y + s
  <2>1. n * (k * q) \in Int /\ n * x \in Int /\ n * y \in Int
    BY <1>2, <1>4, <1>5
  <2> QED
    BY <2>1, <1>2, <1>3, <1>4, <1>5, <1>6
<1>8. k * q + x \in Int
  BY <1>2, <1>4
<1>9. r = s
  BY <1>4, <1>5, <1>7, <1>8, ModUnique
<1> QED
  BY <1>9 DEF r, s, b, m

(* Counters less than n apart have different residues modulo n.            *)
LEMMA ModDistinct ==
    ASSUME NEW a \in Nat, NEW n \in Nat \ {0}, NEW j \in 1 .. (n - 1)
    PROVE  (a + j) % n # a % n
<1> DEFINE q == a \div n
           r == a % n
           p == (a + j) \div n
<1> SUFFICES ASSUME (a + j) % n = r PROVE FALSE
  BY DEF r
<1>1. q \in Int /\ r \in Int /\ a = n * q + r
  BY DivMod
<1>2. p \in Int /\ a + j = n * p + r
  <2>1. a + j \in Int
    OBVIOUS
  <2>2. p \in Int /\ a + j = n * p + ((a + j) % n)
    BY <2>1, DivMod, Zenon
  <2> QED
    BY <2>2
<1> HIDE DEF p, q, r
<1>3. n * p + 0 = n * q + j
  BY <1>1, <1>2
<1>4. 0 = j
  BY <1>3, <1>1, <1>2, ModUnique
<1> QED
  BY <1>4

(* A number below the modulus is its own remainder, also one round later.  *)
LEMMA SmallMod ==
    ASSUME NEW n \in Nat \ {0}, NEW r \in 0 .. (n - 1)
    PROVE  r % n = r /\ (r + n) % n = r
<1>1. r % n = r
  <2> DEFINE q == r \div n
             m == r % n
  <2>1. q \in Int /\ m \in 0 .. (n - 1) /\ n * q + m = r
    BY DivMod
  <2> HIDE DEF q, m
  <2>2. PICK p \in Int : n * q + m = n * p + r
    <3>1. n * 0 + r = r
      OBVIOUS
    <3> QED
      BY <2>1, <3>1
  <2>3. m = r
    BY <2>1, <2>2, ModUnique
  <2> QED
    BY <2>3 DEF m
<1>2. (r + n) % n = r
  <2> DEFINE q == (r + n) \div n
             m == (r + n) % n
  <2>0. r + n \in Int
    OBVIOUS
  <2>1. q \in Int /\ m \in 0 .. (n - 1) /\ r + n = n * q + m
    BY <2>0, DivMod, Zenon
  <2> HIDE DEF q, m
  <2>2. PICK p \in Int : n * q + m = n * p + r
    <3>1. n * q + m = n * 1 + r
      BY <2>1
    <3> WITNESS 1 \in Int
    <3> QED
      BY <3>1
  <2>3. m = r
    BY <2>1, <2>2, ModUnique
  <2> QED
    BY <2>3 DEF m
<1> QED
  BY <1>1, <1>2

-----------------------------------------------------------------------------
(* The order of the naturals is well-founded.                              *)
LEMMA LessOnNat ==
    \E R : IsWellFoundedOn(R, Nat) /\ \A x, y \in Nat : y < x => <<y, x>> \in R
<1> DEFINE R == OpToRel(<, Nat)
<1>1. IsWellFoundedOn(R, Nat)
  BY NatLessThanWellFounded
<1>2. ASSUME NEW x \in Nat, NEW y \in Nat, y < x PROVE <<y, x>> \in R
  BY <1>2, Zenon DEF OpToRel
<1> HIDE DEF R
<1> QED
  BY <1>1, <1>2

(* A set of naturals that is not empty has a least element.                *)
LEMMA LeastElement ==
    ASSUME NEW S, S \subseteq Nat, S # {}
    PROVE  \E x \in S : \A y \in S : x <= y
<1>1. PICK R : IsWellFoundedOn(R, Nat) /\ \A x, y \in Nat : y < x => <<y, x>> \in R
  BY LessOnNat
<1>2. PICK x \in S : \A y \in S : ~(<<y, x>> \in R)
  BY <1>1, WFMin
<1>3. ASSUME NEW y \in S PROVE x <= y
  <2>1. x \in Nat /\ y \in Nat /\ ~(y < x)
    BY <1>1, <1>2
  <2> QED
    BY <2>1
<1> QED
  BY <1>3

(* A set with zero and with the successor of each of its numbers has all   *)
(* of them.                                                                *)
LEMMA SetInduction ==
    ASSUME NEW S, 0 \in S, \A n \in Nat : n \in S => n + 1 \in S
    PROVE  \A n \in Nat : n \in S
<1> SUFFICES ASSUME Nat \ S # {} PROVE FALSE
  OBVIOUS
<1>1. PICK x \in Nat \ S : \A y \in Nat \ S : x <= y
  BY LeastElement
<1>2. x # 0
  OBVIOUS
<1>3. x - 1 \in Nat /\ ~(x <= x - 1) /\ (x - 1) + 1 = x
  BY <1>2
<1>4. x - 1 \in S
  BY <1>1, <1>3
<1> QED
  BY <1>3, <1>4

-----------------------------------------------------------------------------
(* Sums over finite sets.  What is summed is a function, so that a set can *)
(* be summed again after a step has changed some of its values.            *)
SumOver(f, S) == MapThenSumSet(LAMBDA e : f[e], S)
FirstOf(T)    == CHOOSE x \in T : TRUE
SumsUp(g, f, D) ==
  g = [T \in D |-> IF T = {} THEN 0 ELSE f[FirstOf(T)] + g[T \ {FirstOf(T)}]]

(* The sum is what the recursion gives for the whole set.                  *)
LEMMA SumOverDef ==
    ASSUME NEW f, NEW S
    PROVE  SumOver(f, S) = (CHOOSE g : SumsUp(g, f, SUBSET S))[S]
BY DEF SumOver, MapThenSumSet, MapThenFoldSet, SumsUp, FirstOf

(* The first of a set is one of it.                                        *)
LEMMA FirstIsIn ==
    ASSUME NEW T, T # {}
    PROVE  FirstOf(T) \in T
BY DEF FirstOf

(* The small subsets of a set.                                             *)
SmallSets(S, n) == {T \in SUBSET S : IsFiniteSet(T) /\ Cardinality(T) <= n}

(* A set without its first is smaller by one.                              *)
LEMMA SmallerByOne ==
    ASSUME NEW S, NEW n \in Nat, NEW T \in SmallSets(S, n + 1), T # {}
    PROVE  T \ {FirstOf(T)} \in SmallSets(S, n)
<1> DEFINE x == FirstOf(T)
<1>1. x \in T
  BY FirstIsIn
<1> HIDE DEF x
<1>2. IsFiniteSet(T) /\ Cardinality(T) \in Nat /\ Cardinality(T) <= n + 1 /\ T \subseteq S
  BY FS_CardinalityType DEF SmallSets
<1>3. IsFiniteSet(T \ {x}) /\ Cardinality(T \ {x}) = Cardinality(T) - 1
  BY <1>1, <1>2, FS_RemoveElement
<1> QED
  BY <1>2, <1>3 DEF SmallSets, x

(* The recursion has a solution on the subsets of every size ...           *)
LEMMA SumsOfSmall ==
    ASSUME NEW f, NEW S
    PROVE  \A n \in Nat : \E g : SumsUp(g, f, SmallSets(S, n))
<1> DEFINE P == {n \in Nat : \E g : SumsUp(g, f, SmallSets(S, n))}
<1>1. 0 \in P
  <2> DEFINE h == [T \in SmallSets(S, 0) |-> 0]
  <2>1. ASSUME NEW T \in SmallSets(S, 0) PROVE T = {}
    BY FS_CardinalityType, FS_EmptySet DEF SmallSets
  <2>2. SumsUp(h, f, SmallSets(S, 0))
    BY <2>1 DEF SumsUp
  <2> QED
    BY <2>2
<1>2. ASSUME NEW n \in Nat, n \in P PROVE n + 1 \in P
  <2> DEFINE A == SmallSets(S, n)
             B == SmallSets(S, n + 1)
  <2>1. PICK g : SumsUp(g, f, A)
    BY <1>2
  <2> DEFINE h == [T \in B |-> IF T = {} THEN 0 ELSE f[FirstOf(T)] + g[T \ {FirstOf(T)}]]
  <2>2. A \subseteq B
    BY FS_CardinalityType DEF SmallSets
  <2>3. ASSUME NEW T \in A PROVE g[T] = h[T]
    BY <2>1, <2>2 DEF SumsUp
  <2>4. ASSUME NEW T \in B, T # {} PROVE g[T \ {FirstOf(T)}] = h[T \ {FirstOf(T)}]
    BY <2>3, <2>4, SmallerByOne
  <2>5. SumsUp(h, f, B)
    <3> DEFINE k == [T \in B |-> IF T = {} THEN 0 ELSE f[FirstOf(T)] + h[T \ {FirstOf(T)}]]
    <3>1. ASSUME NEW T \in B PROVE h[T] = k[T]
      <4> HIDE DEF B
      <4> QED
        BY <2>4
    <3> HIDE DEF B
    <3>2. h = k
      BY <3>1
    <3> QED
      BY <3>2 DEF SumsUp
  <2> QED
    BY <2>5
<1> HIDE DEF P
<1>3. \A n \in Nat : n \in P
  BY <1>1, <1>2, SetInduction
<1> QED
  BY <1>3 DEF P

(* ... so it has one on the subsets of every finite set ...                *)
LEMMA SumsExist ==
    ASSUME NEW f, NEW S, IsFiniteSet(S)
    PROVE  SumsUp(CHOOSE g : SumsUp(g, f, SUBSET S), f, SUBSET S)
<1> DEFINE n == Cardinality(S)
<1>1. n \in Nat
  BY FS_CardinalityType
<1>2. SmallSets(S, n) = SUBSET S
  BY FS_Subset DEF SmallSets
<1> HIDE DEF n
<1>3. \E g : SumsUp(g, f, SmallSets(S, n))
  BY <1>1, SumsOfSmall
<1> QED
  BY <1>2, <1>3

(* ... and only one: what it gives for a set depends on the values in the  *)
(* set alone.                                                              *)
LEMMA SumsAgree ==
    ASSUME NEW S, NEW T, NEW f, NEW h, NEW g, NEW k,
           SumsUp(g, f, SUBSET S), SumsUp(k, h, SUBSET T),
           NEW U, IsFiniteSet(U), U \subseteq S, U \subseteq T, \A x \in U : f[x] = h[x]
    PROVE  g[U] = k[U]
<1> DEFINE P == {n \in Nat : \A V \in SUBSET U : Cardinality(V) = n => g[V] = k[V]}
<1>0. ASSUME NEW V \in SUBSET U
      PROVE  /\ g[V] = IF V = {} THEN 0 ELSE f[FirstOf(V)] + g[V \ {FirstOf(V)}]
             /\ k[V] = IF V = {} THEN 0 ELSE h[FirstOf(V)] + k[V \ {FirstOf(V)}]
  BY DEF SumsUp
<1>a. ASSUME NEW V \in SUBSET U PROVE IsFiniteSet(V) /\ Cardinality(V) \in Nat
  BY FS_Subset, FS_CardinalityType
<1>1. 0 \in P
  <2>1. ASSUME NEW V \in SUBSET U, Cardinality(V) = 0 PROVE g[V] = k[V]
    <3>1. V = {}
      BY <1>a, <2>1, FS_EmptySet
    <3> QED
      BY <1>0, <3>1
  <2> QED
    BY <2>1
<1>2. ASSUME NEW n \in Nat, n \in P PROVE n + 1 \in P
  <2>1. ASSUME NEW V \in SUBSET U, Cardinality(V) = n + 1 PROVE g[V] = k[V]
    <3> DEFINE x == FirstOf(V)
               W == V \ {FirstOf(V)}
    <3>1. V # {}
      BY <2>1, FS_EmptySet
    <3>2. x \in V
      BY <3>1, FirstIsIn
    <3>3. Cardinality(W) = n
      <4> HIDE DEF x
      <4>1. IsFiniteSet(V) /\ Cardinality(V \ {x}) = Cardinality(V) - 1
        BY <1>a, <3>2, FS_RemoveElement
      <4> QED
        BY <2>1, <4>1 DEF x
    <3>4. W \in SUBSET U
      OBVIOUS
    <3>5. g[W] = k[W]
      <4> HIDE DEF W
      <4> QED
        BY <1>2, <3>3, <3>4
    <3>6. f[x] = h[x]
      BY <3>2
    <3>7. g[V] = f[x] + g[W] /\ k[V] = h[x] + k[W]
      BY <1>0, <3>1
    <3> QED
      BY <3>5, <3>6, <3>7
  <2> QED
    BY <2>1
<1> HIDE DEF P
<1>3. \A n \in Nat : n \in P
  BY <1>1, <1>2, SetInduction
<1>4. Cardinality(U) \in P
  BY <1>3, FS_CardinalityType
<1> QED
  BY <1>4 DEF P

(* A sum depends on the values in the set alone.                           *)
LEMMA SumSame ==
    ASSUME NEW f, NEW h, NEW S, IsFiniteSet(S), \A x \in S : f[x] = h[x]
    PROVE  SumOver(f, S) = SumOver(h, S)
<1> DEFINE g == CHOOSE r : SumsUp(r, f, SUBSET S)
           k == CHOOSE r : SumsUp(r, h, SUBSET S)
<1>1. SumsUp(g, f, SUBSET S) /\ SumOver(f, S) = g[S]
  BY SumOverDef, SumsExist
<1>2. SumsUp(k, h, SUBSET S) /\ SumOver(h, S) = k[S]
  BY SumOverDef, SumsExist
<1> HIDE DEF g, k
<1>3. g[S] = k[S]
  BY <1>1, <1>2, SumsAgree
<1> QED
  BY <1>1, <1>2, <1>3

(* The sum of nothing is zero.                                             *)
LEMMA SumOfNone ==
    ASSUME NEW f
    PROVE  SumOver(f, {}) = 0
<1>1. IsFiniteSet({})
  BY FS_EmptySet
<1> DEFINE g == CHOOSE r : SumsUp(r, f, SUBSET {})
<1>2. SumsUp(g, f, SUBSET {}) /\ SumOver(f, {}) = g[{}]
  BY <1>1, SumOverDef, SumsExist
<1> HIDE DEF g
<1> QED
  BY <1>2 DEF SumsUp

(* The recursion, for the whole set.                                       *)
LEMMA SumUnfold ==
    ASSUME NEW f, NEW S, IsFiniteSet(S), S # {}
    PROVE  SumOver(f, S) = f[FirstOf(S)] + SumOver(f, S \ {FirstOf(S)})
<1> DEFINE R == S \ {FirstOf(S)}
           g == CHOOSE r : SumsUp(r, f, SUBSET S)
           k == CHOOSE r : SumsUp(r, f, SUBSET R)
<1>1. IsFiniteSet(R)
  BY FS_Subset
<1>2. SumsUp(g, f, SUBSET S) /\ SumOver(f, S) = g[S]
  BY SumOverDef, SumsExist
<1>3. SumsUp(k, f, SUBSET R) /\ SumOver(f, R) = k[R]
  <2> HIDE DEF R
  <2> QED
    BY <1>1, SumOverDef, SumsExist
<1> HIDE DEF g, k
<1>4. g[R] = k[R]
  <2>1. R \subseteq S
    OBVIOUS
  <2> HIDE DEF R
  <2>2. SumsUp(g, f, SUBSET S)
    BY <1>2
  <2>3. SumsUp(k, f, SUBSET R)
    BY <1>3
  <2>4. R \subseteq R /\ \A x \in R : f[x] = f[x]
    OBVIOUS
  <2> QED
    BY ONLY <1>1, <2>1, <2>2, <2>3, <2>4, SumsAgree, SMTT(60)
<1>5. g[S] = f[FirstOf(S)] + g[R]
  BY <1>2 DEF SumsUp
<1> QED
  BY <1>2, <1>3, <1>4, <1>5

(* The sum over one more is that much more, whatever is taken first.       *)
LEMMA SumAdd ==
    ASSUME NEW f, NEW S, IsFiniteSet(S), NEW x, x \notin S, \A y \in S \cup {x} : f[y] \in Int
    PROVE  SumOver(f, S) \in Int /\ SumOver(f, S \cup {x}) = SumOver(f, S) + f[x]
<1> DEFINE A(T, z) == SumOver(f, T) \in Int /\ SumOver(f, T \cup {z}) = SumOver(f, T) + f[z]
           D == S \cup {x}
           P == {n \in Nat : \A T \in SUBSET D : \A z \in D \ T : Cardinality(T) = n => A(T, z)}
<1>a. ASSUME NEW T \in SUBSET D
      PROVE  IsFiniteSet(T) /\ Cardinality(T) \in Nat
  <2>1. IsFiniteSet(D)
    BY FS_AddElement
  <2> QED
    BY <2>1, FS_Subset, FS_CardinalityType
<1>b. \A y \in D : f[y] \in Int
  OBVIOUS
<1>1. 0 \in P
  <2>1. ASSUME NEW T \in SUBSET D, NEW z \in D \ T, Cardinality(T) = 0 PROVE A(T, z)
    <3>1. T = {}
      BY <1>a, <2>1, FS_EmptySet
    <3> HIDE DEF D
    <3>2. {z} # {} /\ IsFiniteSet({z})
      BY FS_Singleton
    <3>3. FirstOf({z}) = z
      BY FirstIsIn
    <3>4. SumOver(f, {z}) = f[z] + SumOver(f, {z} \ {z})
      BY <3>2, <3>3, SumUnfold
    <3>5. {z} \ {z} = {} /\ {} \cup {z} = {z}
      OBVIOUS
    <3>6. SumOver(f, {}) = 0
      BY SumOfNone
    <3>7. f[z] \in Int
      BY <1>b
    <3>8. SumOver(f, {z}) = f[z] + 0
      BY <3>4, <3>5, <3>6
    <3> QED
      BY <3>1, <3>5, <3>6, <3>7, <3>8
  <2> QED
    BY <2>1
<1>2. ASSUME NEW n \in Nat, n \in P PROVE n + 1 \in P
  <2>0. ASSUME NEW T \in SUBSET D, NEW z \in D \ T, Cardinality(T) = n PROVE A(T, z)
    BY <1>2, <2>0
  <2>1. ASSUME NEW T \in SUBSET D, NEW z \in D \ T, Cardinality(T) = n + 1 PROVE A(T, z)
    <3>1. \A y \in T : IsFiniteSet(T \ {y}) /\ Cardinality(T \ {y}) = n
      <4> SUFFICES ASSUME NEW y \in T PROVE IsFiniteSet(T \ {y}) /\ Cardinality(T \ {y}) = n
        OBVIOUS
      <4>1. IsFiniteSet(T) /\ Cardinality(T \ {y}) = Cardinality(T) - 1
        BY <1>a, FS_RemoveElement
      <4> QED
        BY <1>a, <2>1, <4>1
    <3>2. ASSUME NEW y \in T
          PROVE  /\ SumOver(f, T \ {y}) \in Int /\ f[y] \in Int
                 /\ SumOver(f, T) = SumOver(f, T \ {y}) + f[y]
      <4>1. y \in D \ (T \ {y}) /\ T \ {y} \in SUBSET D /\ (T \ {y}) \cup {y} = T
        OBVIOUS
      <4>2. A(T \ {y}, y)
        BY <2>0, <3>1, <4>1
      <4> QED
        BY <1>b, <4>1, <4>2
    <3>3. SumOver(f, T) \in Int
      <4>1. PICK y : y \in T
        <5>1. T = {} => Cardinality(T) = 0
          BY FS_EmptySet
        <5>2. n + 1 # 0
          OBVIOUS
        <5> QED
          BY <2>1, <5>1, <5>2
      <4>2. /\ SumOver(f, T \ {y}) \in Int /\ f[y] \in Int
            /\ SumOver(f, T) = SumOver(f, T \ {y}) + f[y]
        BY <3>2, <4>1
      <4> QED
        BY <4>2
    <3> DEFINE U == T \cup {z}
    <3>4. IsFiniteSet(U) /\ U # {}
      BY <1>a, FS_AddElement
    <3>5. PICK y : y = FirstOf(U) /\ y \in U
      BY <3>4, FirstIsIn
    <3>6. SumOver(f, U) = f[y] + SumOver(f, U \ {y})
      <4> HIDE DEF U
      <4> QED
        BY <3>4, <3>5, SumUnfold
    <3>7. f[z] \in Int
      BY <1>b
    <3>8. CASE y = z
      <4>1. U \ {y} = T
        BY <3>8
      <4> HIDE DEF U, A
      <4>2. SumOver(f, U) = f[z] + SumOver(f, T)
        BY <3>6, <3>8, <4>1
      <4> QED
        BY <3>3, <3>7, <4>2 DEF A, U
    <3>9. CASE y # z
      <4>1. y \in T /\ U \ {y} = (T \ {y}) \cup {z} /\ z \in D \ (T \ {y}) /\ T \ {y} \in SUBSET D
        BY <3>5, <3>9
      <4>2. A(T \ {y}, z)
        <5> HIDE DEF A, D
        <5> QED
          BY <2>0, <3>1, <4>1
      <4>3. SumOver(f, (T \ {y}) \cup {z}) = SumOver(f, T \ {y}) + f[z]
        BY <4>2
      <4>4. SumOver(f, U) = f[y] + (SumOver(f, T \ {y}) + f[z])
        <5> HIDE DEF U, A
        <5> QED
          BY <3>6, <4>1, <4>3
      <4> HIDE DEF U, A
      <4>5. SumOver(f, U) = SumOver(f, T) + f[z]
        BY <3>2, <3>7, <4>1, <4>4
      <4> QED
        BY <3>3, <4>5 DEF A, U
    <3> QED
      BY <3>8, <3>9
  <2> HIDE DEF A, D
  <2> QED
    BY <2>1
<1> HIDE DEF P, A
<1>3. \A n \in Nat : n \in P
  BY <1>1, <1>2, SetInduction
<1>4. Cardinality(S) \in P /\ S \in SUBSET D /\ x \in D \ S
  BY <1>3, FS_CardinalityType
<1> QED
  BY <1>4 DEF P, A

(* The sum over one less.                                                  *)
LEMMA SumRemove ==
    ASSUME NEW f, NEW S, IsFiniteSet(S), NEW x \in S, \A y \in S : f[y] \in Int
    PROVE  SumOver(f, S) \in Int /\ SumOver(f, S \ {x}) = SumOver(f, S) - f[x]
<1>1. IsFiniteSet(S \ {x}) /\ (S \ {x}) \cup {x} = S /\ x \notin S \ {x}
  BY FS_Subset
<1>2. /\ SumOver(f, S \ {x}) \in Int
      /\ SumOver(f, (S \ {x}) \cup {x}) = SumOver(f, S \ {x}) + f[x]
  BY <1>1, SumAdd
<1>3. SumOver(f, S) = SumOver(f, S \ {x}) + f[x] /\ f[x] \in Int
  BY <1>1, <1>2
<1> QED
  BY <1>2, <1>3

(* One value of the set changes, and the sum by as much.                   *)
LEMMA SumChange ==
    ASSUME NEW f, NEW h, NEW S, IsFiniteSet(S), NEW x \in S,
           \A y \in S : f[y] \in Int /\ h[y] \in Int /\ (y # x => f[y] = h[y])
    PROVE  SumOver(h, S) = SumOver(f, S) - f[x] + h[x]
<1>1. SumOver(f, S \ {x}) = SumOver(h, S \ {x})
  <2>1. IsFiniteSet(S \ {x})
    BY FS_Subset
  <2> QED
    BY <2>1, SumSame
<1>2. SumOver(f, S) \in Int /\ SumOver(f, S \ {x}) = SumOver(f, S) - f[x]
  BY SumRemove
<1>3. SumOver(h, S) \in Int /\ SumOver(h, S \ {x}) = SumOver(h, S) - h[x]
  BY SumRemove
<1> QED
  BY <1>1, <1>2, <1>3
=============================================================================
