------------------------------ MODULE UoCbProofs ------------------------------
(***************************************************************************)
(* The pools of callback nodes and the items of merged callbacks, for any  *)
(* number of threads and callbacks and any size of a chunk: no node has    *)
(* two holders, no chunk is lost or freed twice, and every function finds  *)
(* the item that was meant for it.  All of it is about behaviours in which  *)
(* no two threads have met at a slot of the queue of stacks (race in UoCb). *)
(***************************************************************************)
EXTENDS UoCb, NaturalFacts, FiniteSetTheorems, SequenceTheorems, TLAPS

Joins(X, a, b, c) == a \in Seq(X) /\ b \in Seq(X) /\ c = a \o b

(* Two sequences after one another.                                        *)
LEMMA JoinedSeqs ==
    ASSUME NEW X, NEW a, NEW b, NEW c, Joins(X, a, b, c)
    PROVE  /\ c \in Seq(X) /\ Len(c) = Len(a) + Len(b)
           /\ \A i \in 1 .. Len(a) : c[i] = a[i]
           /\ \A i \in 1 .. Len(b) : c[Len(a) + i] = b[i]
           /\ ToSet(c) = ToSet(a) \cup ToSet(b)
           /\ IsInjective(a) /\ IsInjective(b) /\ ToSet(a) \cap ToSet(b) = {} => IsInjective(c)
<1>1. a \in Seq(X) /\ b \in Seq(X) /\ c = a \o b
  BY DEF Joins
<1>2. /\ c \in Seq(X) /\ Len(c) = Len(a) + Len(b) /\ Len(a) \in Nat /\ Len(b) \in Nat
      /\ \A i \in 1 .. Len(a) : c[i] = a[i]
      /\ \A i \in 1 .. Len(b) : c[Len(a) + i] = b[i]
  BY <1>1
<1>3. /\ DOMAIN a = 1 .. Len(a) /\ DOMAIN b = 1 .. Len(b) /\ DOMAIN c = 1 .. Len(c)
  BY <1>1, <1>2
<1>4. \A i \in 1 .. Len(c) : i \in 1 .. Len(a) \/ \E j \in 1 .. Len(b) : i = Len(a) + j
  <2> TAKE i \in 1 .. Len(c)
  <2>1. CASE i <= Len(a)
    BY <1>2, <2>1
  <2>2. CASE ~(i <= Len(a))
    <3>1. i - Len(a) \in 1 .. Len(b) /\ i = Len(a) + (i - Len(a))
      BY <1>2, <2>2
    <3> QED
      BY <3>1
  <2> QED
    BY <2>1, <2>2
<1>5. /\ \A i \in 1 .. Len(a) : i \in 1 .. Len(c)
      /\ \A j \in 1 .. Len(b) : Len(a) + j \in 1 .. Len(c)
  BY <1>2
<1>6. ToSet(c) = ToSet(a) \cup ToSet(b)
  <2>1. ASSUME NEW x \in ToSet(c) PROVE x \in ToSet(a) \cup ToSet(b)
    <3>1. PICK i \in 1 .. Len(c) : x = c[i]
      BY <1>3 DEF ToSet
    <3>2. CASE i \in 1 .. Len(a)
      BY <1>2, <1>3, <3>1, <3>2 DEF ToSet
    <3>3. CASE \E j \in 1 .. Len(b) : i = Len(a) + j
      BY <1>2, <1>3, <3>1, <3>3 DEF ToSet
    <3> QED
      BY <1>4, <3>2, <3>3
  <2>2. ASSUME NEW x \in ToSet(a) PROVE x \in ToSet(c)
    <3>1. PICK i \in 1 .. Len(a) : x = a[i]
      BY <1>3 DEF ToSet
    <3> QED
      BY <1>2, <1>3, <1>5, <3>1 DEF ToSet
  <2>3. ASSUME NEW x \in ToSet(b) PROVE x \in ToSet(c)
    <3>1. PICK i \in 1 .. Len(b) : x = b[i]
      BY <1>3 DEF ToSet
    <3> QED
      BY <1>2, <1>3, <1>5, <3>1 DEF ToSet
  <2> QED
    BY <2>1, <2>2, <2>3
<1>7. ASSUME IsInjective(a), IsInjective(b), ToSet(a) \cap ToSet(b) = {} PROVE IsInjective(c)
  <2> SUFFICES ASSUME NEW i \in 1 .. Len(c), NEW j \in 1 .. Len(c), c[i] = c[j] PROVE i = j
    BY <1>3 DEF IsInjective
  <2>1. ASSUME NEW x \in 1 .. Len(a), NEW y \in 1 .. Len(b) PROVE a[x] # b[y]
    BY <1>3, <1>7 DEF ToSet
  <2>2. CASE i \in 1 .. Len(a) /\ j \in 1 .. Len(a)
    BY <1>2, <1>3, <1>7, <2>2 DEF IsInjective
  <2>3. CASE i \in 1 .. Len(a) /\ \E y \in 1 .. Len(b) : j = Len(a) + y
    BY <1>2, <2>1, <2>3
  <2>4. CASE j \in 1 .. Len(a) /\ \E y \in 1 .. Len(b) : i = Len(a) + y
    BY <1>2, <2>1, <2>4
  <2>5. CASE (\E x \in 1 .. Len(b) : i = Len(a) + x) /\ (\E y \in 1 .. Len(b) : j = Len(a) + y)
    <3>1. PICK x \in 1 .. Len(b), y \in 1 .. Len(b) : i = Len(a) + x /\ j = Len(a) + y
      BY <2>5
    <3>2. b[x] = b[y]
      BY <1>2, <3>1
    <3>3. x = y
      BY <1>3, <1>7, <3>2 DEF IsInjective
    <3> QED
      BY <3>1, <3>3
  <2> QED
    BY <1>4, <2>2, <2>3, <2>4, <2>5
<1> QED
  BY <1>2, <1>6, <1>7

(* A sequence backwards.                                                   *)
LEMMA ReversedSeq ==
    ASSUME NEW X, NEW a \in Seq(X)
    PROVE  /\ Reverse(a) \in Seq(X) /\ Len(Reverse(a)) = Len(a)
           /\ \A i \in 1 .. Len(a) : Reverse(a)[i] = a[(Len(a) - i) + 1]
           /\ ToSet(Reverse(a)) = ToSet(a)
           /\ IsInjective(a) => IsInjective(Reverse(a))
<1>1. PICK r, n : r = Reverse(a) /\ n = Len(a)
  OBVIOUS
<1>2. n \in Nat /\ \A i \in 1 .. n : (n - i) + 1 \in 1 .. n /\ (n - ((n - i) + 1)) + 1 = i
  BY <1>1
<1>3. r = [i \in 1 .. n |-> a[(n - i) + 1]]
  BY <1>1 DEF Reverse
<1>4. /\ r \in Seq(X) /\ Len(r) = n /\ DOMAIN r = 1 .. n /\ DOMAIN a = 1 .. n
      /\ \A i \in 1 .. n : r[i] = a[(n - i) + 1]
  BY <1>1, <1>2, <1>3
<1>5. \A i \in 1 .. n : a[i] = r[(n - i) + 1]
  BY <1>2, <1>4
<1>6. ToSet(r) = ToSet(a)
  BY <1>2, <1>4, <1>5 DEF ToSet
<1>7. ASSUME IsInjective(a) PROVE IsInjective(r)
  <2> SUFFICES ASSUME NEW i \in 1 .. n, NEW j \in 1 .. n, r[i] = r[j] PROVE i = j
    BY <1>4 DEF IsInjective
  <2>1. (n - i) + 1 = (n - j) + 1
    BY <1>2, <1>4, <1>7 DEF IsInjective
  <2> QED
    BY <1>2, <2>1
<1> QED
  BY <1>1, <1>4, <1>6, <1>7

(* A sequence without its first element.                                   *)
LEMMA TailSeq ==
    ASSUME NEW X, NEW a \in Seq(X), a # <<>>, IsInjective(a)
    PROVE  /\ Tail(a) \in Seq(X) /\ Head(a) \in ToSet(a) /\ Head(a) \in X /\ IsInjective(Tail(a))
           /\ ToSet(Tail(a)) = ToSet(a) \ {Head(a)}
<1>1. PICK r, n : r = Tail(a) /\ n = Len(a)
  OBVIOUS
<1>2. /\ n \in Nat \ {0} /\ r \in Seq(X) /\ Len(r) = n - 1 /\ Head(a) = a[1]
      /\ DOMAIN a = 1 .. n /\ DOMAIN r = 1 .. n - 1
      /\ \A i \in 1 .. n - 1 : r[i] = a[i + 1]
  BY <1>1
<1>3. /\ \A i \in 1 .. n - 1 : i + 1 \in 1 .. n /\ i + 1 # 1
      /\ 1 \in 1 .. n
  BY <1>2
<1>4. IsInjective(r)
  <2> SUFFICES ASSUME NEW i \in 1 .. n - 1, NEW j \in 1 .. n - 1, r[i] = r[j] PROVE i = j
    BY <1>2 DEF IsInjective
  <2>1. a[i + 1] = a[j + 1] /\ i + 1 \in DOMAIN a /\ j + 1 \in DOMAIN a
    BY <1>2, <1>3
  <2>2. i + 1 = j + 1
    BY <2>1, Zenon DEF IsInjective
  <2> QED
    BY <2>2
<1>5. Head(a) \in ToSet(a)
  BY <1>2, <1>3 DEF ToSet
<1>6. ASSUME NEW x \in ToSet(r) PROVE x \in ToSet(a) \ {Head(a)}
  <2>1. PICK i \in 1 .. n - 1 : x = r[i]
    BY <1>2 DEF ToSet
  <2>2. x = a[i + 1] /\ i + 1 \in 1 .. n /\ i + 1 # 1
    BY <1>2, <1>3, <2>1
  <2>3. x # a[1]
    BY <1>2, <1>3, <2>2 DEF IsInjective
  <2> QED
    BY <1>2, <2>2, <2>3 DEF ToSet
<1>7. ASSUME NEW x \in ToSet(a), x # Head(a) PROVE x \in ToSet(r)
  <2>1. PICK i \in 1 .. n : x = a[i]
    BY <1>2 DEF ToSet
  <2>2. i - 1 \in 1 .. n - 1 /\ (i - 1) + 1 = i
    BY <1>2, <1>7, <2>1
  <2>3. x = r[i - 1]
    BY <1>2, <2>1, <2>2
  <2> QED
    BY <1>2, <2>2, <2>3 DEF ToSet
<1>8. Head(a) \in X
  BY <1>2, <1>3
<1> QED
  BY <1>1, <1>2, <1>4, <1>5, <1>6, <1>7, <1>8

(* One element is a sequence without repetition.                           *)
LEMMA SingleSeq ==
    ASSUME NEW X, NEW x \in X
    PROVE  <<x>> \in Seq(X) /\ IsInjective(<<x>>) /\ ToSet(<<x>>) = {x}
<1>1. <<x>> \in Seq(X) /\ DOMAIN <<x>> = 1 .. 1 /\ <<x>>[1] = x
  OBVIOUS
<1>2. \A i \in 1 .. 1 : i = 1
  OBVIOUS
<1> QED
  BY <1>1, <1>2 DEF IsInjective, ToSet

-----------------------------------------------------------------------------
(* g is f but for the sequence of d.                                       *)
DiffersAt(D, X, f, d, g) ==
    /\ f \in [D -> Seq(X)] /\ g \in [D -> Seq(X)] /\ d \in D
    /\ \A x \in D : x # d => g[x] = f[x]

(* The sequence of one holder is replaced by another, without what the     *)
(* others have.                                                            *)
LEMMA ReplacedSeq ==
    ASSUME NEW D, NEW X, NEW f, NEW d, NEW g, DiffersAt(D, X, f, d, g), NoneTwice(f),
           NEW s, IsInjective(s), (All(f) \ ToSet(f[d])) \cap ToSet(s) = {}, g[d] = s
    PROVE  NoneTwice(g) /\ All(g) = (All(f) \ ToSet(f[d])) \cup ToSet(s)
<1>0. /\ f \in [D -> Seq(X)] /\ g \in [D -> Seq(X)] /\ d \in D
      /\ \A x \in D : x # d => g[x] = f[x]
  BY DEF DiffersAt
<1>1. \A x, y \in D : \A i \in DOMAIN f[x], j \in DOMAIN f[y] :
          f[x][i] = f[y][j] => x = y /\ i = j
  BY <1>0 DEF NoneTwice
<1>2. ASSUME NEW x \in D, x # d PROVE ToSet(f[x]) \cap ToSet(f[d]) = {}
  BY <1>0, <1>1, <1>2 DEF ToSet
<1>3. \A x \in D : ToSet(f[x]) \subseteq All(f)
  BY <1>0 DEF All
<1>4. \A x \in D : x # d => ToSet(f[x]) \cap ToSet(s) = {}
  BY <1>0, <1>2, <1>3
<1>5. ASSUME NEW x \in D, NEW y \in D, NEW i \in DOMAIN g[x], NEW j \in DOMAIN g[y],
             g[x][i] = g[y][j]
      PROVE  x = y /\ i = j
  <2>1. CASE x = d /\ y = d
    BY <1>0, <1>5, <2>1 DEF IsInjective
  <2>2. CASE x # d /\ y # d
    BY <1>0, <1>1, <1>5, <2>2
  <2>3. CASE x = d /\ y # d
    <3>1. g[x][i] \in ToSet(s) /\ g[y][j] \in ToSet(f[y])
      BY <1>0, <2>3 DEF ToSet
    <3> QED
      BY <1>0, <1>4, <1>5, <2>3, <3>1
  <2>4. CASE x # d /\ y = d
    <3>1. g[y][j] \in ToSet(s) /\ g[x][i] \in ToSet(f[x])
      BY <1>0, <2>4 DEF ToSet
    <3> QED
      BY <1>0, <1>4, <1>5, <2>4, <3>1
  <2> QED
    BY <1>0, <2>1, <2>2, <2>3, <2>4
<1>6. NoneTwice(g)
  BY <1>0, <1>5 DEF NoneTwice
<1>7. ASSUME NEW e \in All(g) PROVE e \in (All(f) \ ToSet(f[d])) \cup ToSet(s)
  <2>1. PICK x \in D : e \in ToSet(g[x])
    BY <1>0 DEF All
  <2> QED
    BY <1>0, <1>2, <1>3, <2>1
<1>8. ASSUME NEW e \in (All(f) \ ToSet(f[d])) \cup ToSet(s) PROVE e \in All(g)
  <2>1. CASE e \in ToSet(s)
    BY <1>0, <2>1 DEF All
  <2>2. CASE e \in All(f) /\ e \notin ToSet(f[d])
    <3>1. PICK x \in D : e \in ToSet(f[x])
      BY <1>0, <2>2 DEF All
    <3>2. x # d /\ e \in ToSet(g[x])
      BY <1>0, <2>2, <3>1
    <3> QED
      BY <1>0, <3>2 DEF All
  <2> QED
    BY <1>0, <2>1, <2>2
<1> QED
  BY <1>0, <1>6, <1>7, <1>8

-----------------------------------------------------------------------------
Node == (Nat \ {0}) \X (1 .. GROW)
Pool == [init : BOOLEAN, stack : Seq(Nat), head : Seq(Node)]

(* A pool without repetitions, none of whose nodes and chunks are of the   *)
(* chunks from c on.                                                       *)
PoolBefore(p, c) ==
    /\ p \in Pool /\ IsInjective(p.head) /\ IsInjective(p.stack)
    /\ \A m \in Nat \ {0}, i \in 1 .. GROW : m >= c => <<m, i>> \notin ToSet(p.head)
    /\ \A m \in Nat : m >= c => m \notin ToSet(p.stack)

(* What q has after the n rents that allocate the chunks from c on: the    *)
(* last node of each chunk was taken.                                      *)
RentedFrom(p, c, n, q) ==
    /\ PoolBefore(q, c + n) /\ q.init = p.init
    /\ ToSet(q.head) = ToSet(p.head) \cup ((c .. c + n - 1) \X (1 .. GROW - 1))
    /\ ToSet(q.stack) = ToSet(p.stack) \cup (c .. c + n - 1)

(* One rent appends the chunk, links its nodes and takes the last of them. *)
LEMMA OneRent ==
    ASSUME NEW c \in Nat \ {0}, NEW p, PoolBefore(p, c)
    PROVE  RentedFrom(p, c, 1, Rent(p, c)) /\ Rented(p, c) = <<c, GROW>>
<1>1. GROW \in Nat \ {0}
  BY CbAssumption
<1>2. PICK ns, h : ns = Nodes(c) /\ h = p.head \o ns
  OBVIOUS
<1>3. /\ ns \in Seq(Node) /\ Len(ns) = GROW /\ \A i \in 1 .. GROW : ns[i] = <<c, i>>
  BY <1>1, <1>2 DEF Nodes, Node
<1>4. /\ p \in Pool /\ p.head \in Seq(Node) /\ p.stack \in Seq(Nat) /\ Len(p.head) \in Nat
      /\ DOMAIN p.head = 1 .. Len(p.head)
  BY DEF PoolBefore, Pool
<1>5. /\ h \in Seq(Node) /\ Len(h) = Len(p.head) + GROW
      /\ \A i \in 1 .. Len(p.head) : h[i] = p.head[i]
      /\ \A i \in 1 .. GROW : h[Len(p.head) + i] = <<c, i>>
  <2>1. PICK ph : ph = p.head
    OBVIOUS
  <2>2. Joins(Node, ph, ns, h)
    BY <1>2, <1>3, <1>4, <2>1 DEF Joins
  <2>3. /\ h \in Seq(Node) /\ Len(h) = Len(ph) + Len(ns)
        /\ \A i \in 1 .. Len(ph) : h[i] = ph[i]
        /\ \A i \in 1 .. Len(ns) : h[Len(ph) + i] = ns[i]
    BY <2>2, JoinedSeqs
  <2> QED
    BY <1>3, <2>1, <2>3
<1>6. PICK fr : fr = Front(h)
  OBVIOUS
<1>7. /\ fr \in Seq(Node) /\ Len(fr) = Len(p.head) + (GROW - 1)
      /\ \A i \in 1 .. Len(p.head) + (GROW - 1) : fr[i] = h[i]
      /\ DOMAIN fr = 1 .. Len(p.head) + (GROW - 1)
  <2>1. PICK m : m = Len(p.head) + (GROW - 1)
    OBVIOUS
  <2>2. m \in Nat /\ Len(h) = m + 1 /\ Len(h) - 1 = m
    BY <1>1, <1>4, <1>5, <2>1
  <2>3. \A i \in 1 .. m : i \in 1 .. Len(h) /\ h[i] \in Node
    BY <1>5, <2>2
  <2>4. fr = SubSeq(h, 1, m)
    BY <1>6, <2>2 DEF Front
  <2>5. fr = [i \in 1 .. m |-> h[i]]
    BY <1>5, <2>2, <2>4
  <2>6. fr \in Seq(Node) /\ Len(fr) = m /\ DOMAIN fr = 1 .. m /\ \A i \in 1 .. m : fr[i] = h[i]
    BY <2>2, <2>3, <2>5
  <2> QED
    BY <2>1, <2>6
<1>8. PICK st : st = Append(p.stack, c)
  OBVIOUS
<1>9. /\ Rent(p, c).init = p.init /\ Rent(p, c).stack = st /\ Rent(p, c).head = fr
      /\ st \in Seq(Nat) => Rent(p, c) \in Pool
  <2>1. PICK g : g = [p EXCEPT !.stack = st, !.head = h]
    OBVIOUS
  <2>2. g = Grow(p, c)
    BY <1>2, <1>8, <2>1 DEF Grow
  <2>3. /\ g.init = p.init /\ g.stack = st /\ g.head = h /\ p.init \in BOOLEAN
        /\ DOMAIN g = {"init", "stack", "head"}
        /\ st \in Seq(Nat) => g \in Pool
    BY <1>4, <1>5, <2>1 DEF Pool
  <2>4. PICK q : q = [g EXCEPT !.head = fr]
    OBVIOUS
  <2>5. q = Rent(p, c)
    BY <1>6, <2>2, <2>3, <2>4 DEF Rent
  <2>6. q.init = p.init /\ q.stack = st /\ q.head = fr
    BY <2>3, <2>4
  <2>7. st \in Seq(Nat) => q \in Pool
    BY <1>7, <2>3, <2>4 DEF Pool
  <2> QED
    BY <2>5, <2>6, <2>7
<1>10. Rented(p, c) = <<c, GROW>>
  <2>1. Rented(p, c) = h[Len(h)]
    <3>1. PICK g : g = Grow(p, c)
      OBVIOUS
    <3>2. g.head = h
      BY <1>2, <1>4, <3>1 DEF Grow, Pool
    <3> QED
      BY <3>1, <3>2 DEF Rented, Last
  <2>2. h[Len(p.head) + GROW] = <<c, GROW>>
    <3>1. GROW \in 1 .. GROW
      BY <1>1
    <3> QED
      BY <1>5, <3>1, Zenon
  <2> QED
    BY <1>5, <2>1, <2>2
<1>11. PICK mid : mid = [i \in 1 .. GROW - 1 |-> <<c, i>>]
  OBVIOUS
<1>12. /\ mid \in Seq(Node) /\ Len(mid) = GROW - 1 /\ DOMAIN mid = 1 .. GROW - 1
       /\ \A i \in 1 .. GROW - 1 : mid[i] = <<c, i>>
  BY <1>1, <1>11 DEF Node
<1>13. IsInjective(mid) /\ ToSet(mid) = {c} \X (1 .. GROW - 1)
  <2>1. ASSUME NEW i \in 1 .. GROW - 1, NEW j \in 1 .. GROW - 1, mid[i] = mid[j] PROVE i = j
    BY <1>12, <2>1
  <2>2. IsInjective(mid)
    BY <1>12, <2>1 DEF IsInjective
  <2>3. ToSet(mid) = {mid[i] : i \in 1 .. GROW - 1}
    BY <1>12 DEF ToSet
  <2>4. ASSUME NEW x \in ToSet(mid) PROVE x \in {c} \X (1 .. GROW - 1)
    <3>1. PICK i \in 1 .. GROW - 1 : x = mid[i]
      BY <2>3
    <3>2. x = <<c, i>>
      BY <1>12, <3>1
    <3> QED
      BY <3>2
  <2>5. ASSUME NEW x \in {c} \X (1 .. GROW - 1) PROVE x \in ToSet(mid)
    <3>1. PICK i \in 1 .. GROW - 1 : x = <<c, i>>
      OBVIOUS
    <3> QED
      BY <1>12, <2>3, <3>1
  <2> QED
    BY <2>2, <2>4, <2>5
<1>14. fr = p.head \o mid
  <2>1. PICK j : j = p.head \o mid
    OBVIOUS
  <2>2. /\ j \in Seq(Node) /\ Len(j) = Len(p.head) + (GROW - 1)
        /\ \A i \in 1 .. Len(p.head) : j[i] = p.head[i]
        /\ \A i \in 1 .. GROW - 1 : j[Len(p.head) + i] = <<c, i>>
    <3>1. PICK ph : ph = p.head
      OBVIOUS
    <3>2. Joins(Node, ph, mid, j)
      BY <1>4, <1>12, <2>1, <3>1 DEF Joins
    <3>3. /\ j \in Seq(Node) /\ Len(j) = Len(ph) + Len(mid)
          /\ \A i \in 1 .. Len(ph) : j[i] = ph[i]
          /\ \A i \in 1 .. Len(mid) : j[Len(ph) + i] = mid[i]
      BY <3>2, JoinedSeqs
    <3> QED
      BY <1>12, <3>1, <3>3
  <2>3. ASSUME NEW i \in 1 .. Len(p.head) + (GROW - 1) PROVE fr[i] = j[i]
    <3>1. CASE i <= Len(p.head)
      <4>1. i \in 1 .. Len(p.head)
        BY <1>4, <3>1
      <4> QED
        BY <1>5, <1>7, <2>2, <4>1
    <3>2. CASE ~(i <= Len(p.head))
      <4>1. i - Len(p.head) \in 1 .. GROW - 1 /\ Len(p.head) + (i - Len(p.head)) = i
        BY <1>1, <1>4, <3>2
      <4>2. i - Len(p.head) \in 1 .. GROW
        BY <1>1, <4>1
      <4>3. h[i] = <<c, i - Len(p.head)>> /\ j[i] = <<c, i - Len(p.head)>>
        BY <1>5, <2>2, <4>1, <4>2
      <4> QED
        BY <1>7, <4>3
    <3> QED
      BY <3>1, <3>2
  <2>4. fr = j
    BY <1>7, <2>2, <2>3
  <2> QED
    BY <2>1, <2>4
<1>15. ToSet(p.head) \cap ToSet(mid) = {}
  BY <1>1, <1>13 DEF PoolBefore
<1>16. IsInjective(fr) /\ ToSet(fr) = ToSet(p.head) \cup ({c} \X (1 .. GROW - 1))
  <2>1. PICK ph : ph = p.head
    OBVIOUS
  <2>2. IsInjective(ph) /\ ToSet(ph) \cap ToSet(mid) = {}
    BY <1>15, <2>1 DEF PoolBefore
  <2>3. Joins(Node, ph, mid, fr)
    BY <1>4, <1>12, <1>14, <2>1 DEF Joins
  <2>4. IsInjective(fr) /\ ToSet(fr) = ToSet(ph) \cup ToSet(mid)
    BY <1>13, <2>2, <2>3, JoinedSeqs
  <2> QED
    BY <1>13, <2>1, <2>4
<1>17. st \in Seq(Nat) /\ IsInjective(st) /\ ToSet(st) = ToSet(p.stack) \cup {c}
  <2>1. st = p.stack \o <<c>>
    BY <1>4, <1>8
  <2>2. <<c>> \in Seq(Nat) /\ IsInjective(<<c>>) /\ ToSet(<<c>>) = {c}
    BY SingleSeq
  <2>3. IsInjective(p.stack) /\ ToSet(p.stack) \cap {c} = {}
    BY DEF PoolBefore
  <2> QED
    <3>1. PICK a, b : a = p.stack /\ b = <<c>>
      OBVIOUS
    <3>2. /\ IsInjective(a) /\ IsInjective(b) /\ ToSet(a) \cap ToSet(b) = {}
          /\ Joins(Nat, a, b, st)
      BY <1>4, <2>1, <2>2, <2>3, <3>1 DEF Joins
    <3>3. st \in Seq(Nat) /\ IsInjective(st) /\ ToSet(st) = ToSet(a) \cup ToSet(b)
      BY <3>2, JoinedSeqs
    <3> QED
      BY <2>2, <3>1, <3>3
<1>18. PICK q : q = Rent(p, c)
  OBVIOUS
<1>19. q.head = fr /\ q.stack = st /\ q.init = p.init /\ q \in Pool
  BY <1>9, <1>17, <1>18
<1>20. c .. c + 1 - 1 = {c}
  OBVIOUS
<1>21. PoolBefore(q, c + 1)
  <2>1. ASSUME NEW m \in Nat \ {0}, NEW i \in 1 .. GROW, m >= c + 1 PROVE <<m, i>> \notin ToSet(fr)
    <3>1. m >= c /\ m # c
      BY <2>1
    <3> QED
      BY <1>16, <3>1 DEF PoolBefore
  <2>2. ASSUME NEW m \in Nat, m >= c + 1 PROVE m \notin ToSet(st)
    <3>1. m >= c /\ m # c
      BY <2>2
    <3> QED
      BY <1>17, <3>1 DEF PoolBefore
  <2> QED
    BY <1>16, <1>17, <1>19, <2>1, <2>2 DEF PoolBefore
<1>22. RentedFrom(p, c, 1, q)
  BY <1>16, <1>17, <1>19, <1>20, <1>21 DEF RentedFrom
<1> QED
  BY <1>10, <1>18, <1>22

(* The pools after each of several rents exist.                            *)
LEMMA RentSteps ==
    ASSUME NEW p, NEW c \in Nat
    PROVE  /\ RentAll(p, c, 0) = p
           /\ \A n \in Nat : RentAll(p, c, n + 1) = Rent(RentAll(p, c, n), c + n)
<1> DEFINE Of(f, i) == IF i = 0 THEN p ELSE Rent(f[i - 1], c + i - 1)
           Is(f, n) == f = [i \in 0 .. n |-> Of(f, i)]
           S == {n \in Nat : \E f : Is(f, n)}
<1>1. 0 \in S
  <2>1. PICK f : f = [i \in 0 .. 0 |-> p]
    OBVIOUS
  <2>2. Is(f, 0)
    BY <2>1
  <2> QED
    BY <2>2
<1>2. ASSUME NEW n \in Nat, NEW f, Is(f, n),
             NEW g, g = [i \in 0 .. n + 1 |-> IF i = n + 1 THEN Rent(f[n], c + n) ELSE f[i]]
      PROVE  Is(g, n + 1)
  <2> HIDE DEF Of
  <2>1. /\ DOMAIN g = 0 .. n + 1 /\ g = [i \in 0 .. n + 1 |-> g[i]]
        /\ g[n + 1] = Rent(f[n], c + n) /\ \A i \in 0 .. n : g[i] = f[i]
    BY <1>2
  <2>2. \A i \in 0 .. n : f[i] = Of(f, i)
    BY <1>2
  <2>3. ASSUME NEW i \in 0 .. n + 1 PROVE g[i] = Of(g, i)
    <3>1. CASE i = 0
      <4>1. g[i] = Of(f, i)
        BY <2>1, <2>2, <3>1
      <4> QED
        BY <3>1, <4>1 DEF Of
    <3>2. CASE i = n + 1
      <4>1. i # 0 /\ i - 1 = n /\ c + i - 1 = c + n /\ n \in 0 .. n
        BY <3>2
      <4>2. g[i] = Rent(g[i - 1], c + i - 1)
        BY <2>1, <3>2, <4>1
      <4> QED
        BY <4>1, <4>2 DEF Of
    <3>3. CASE i # 0 /\ i # n + 1
      <4>1. i \in 0 .. n /\ i - 1 \in 0 .. n
        BY <3>3
      <4>2. g[i] = Of(f, i) /\ g[i - 1] = f[i - 1]
        BY <2>1, <2>2, <4>1
      <4> QED
        BY <3>3, <4>2 DEF Of
    <3> QED
      BY <3>1, <3>2, <3>3
  <2> QED
    BY <2>1, <2>3
<1>3. ASSUME NEW n \in Nat, n \in S PROVE n + 1 \in S
  <2>1. PICK f : Is(f, n)
    BY <1>3
  <2> HIDE DEF Is
  <2>2. PICK g : g = [i \in 0 .. n + 1 |-> IF i = n + 1 THEN Rent(f[n], c + n) ELSE f[i]]
    OBVIOUS
  <2>3. Is(g, n + 1)
    BY <1>2, <2>1, <2>2
  <2> QED
    BY <2>3
<1>4. ASSUME NEW n \in Nat PROVE \E f : Is(f, n)
  <2>1. n \in S
    <3> HIDE DEF S
    <3> QED
      BY <1>1, <1>3, SetInduction
  <2> QED
    BY <2>1
<1> DEFINE R(n) == CHOOSE f : Is(f, n)
<1>5. ASSUME NEW n \in Nat PROVE Is(R(n), n) /\ RentAll(p, c, n) = R(n)[n]
  <2>1. Is(R(n), n)
    <3> HIDE DEF Is
    <3> QED
      BY <1>4
  <2>2. RentAll(p, c, n) = R(n)[n]
    BY DEF RentAll
  <2> QED
    BY <2>1, <2>2
<1>6. ASSUME NEW n \in Nat, NEW f, NEW g, Is(f, n), Is(g, n + 1)
      PROVE  g[n + 1] = Rent(f[n], c + n)
  <2> DEFINE T == {i \in Nat : i <= n => g[i] = f[i]}
  <2>0. /\ \A i \in 0 .. n : f[i] = Of(f, i)
        /\ \A i \in 0 .. n + 1 : g[i] = Of(g, i)
    <3> HIDE DEF Of
    <3> QED
      BY <1>6
  <2>1. 0 \in T
    BY <2>0
  <2>2. ASSUME NEW i \in Nat, i \in T PROVE i + 1 \in T
    <3> SUFFICES ASSUME i + 1 <= n PROVE g[i + 1] = f[i + 1]
      OBVIOUS
    <3>1. g[i] = f[i]
      BY <2>2
    <3>2. i + 1 \in 0 .. n /\ i + 1 \in 0 .. n + 1 /\ i + 1 # 0 /\ (i + 1) - 1 = i
      OBVIOUS
    <3>3. g[i + 1] = Of(g, i + 1) /\ f[i + 1] = Of(f, i + 1)
      BY <2>0, <3>2
    <3> QED
      BY <3>1, <3>2, <3>3
  <2>3. n \in T
    <3> HIDE DEF T
    <3> QED
      BY <2>1, <2>2, SetInduction
  <2>4. g[n] = f[n]
    BY <2>3
  <2>5. n + 1 \in 0 .. n + 1 /\ n + 1 # 0 /\ (n + 1) - 1 = n /\ c + (n + 1) - 1 = c + n
    OBVIOUS
  <2>6. g[n + 1] = Of(g, n + 1)
    BY <2>0, <2>5
  <2> QED
    BY <2>4, <2>5, <2>6
<1>7. RentAll(p, c, 0) = p
  <2>1. PICK f : f = R(0)
    OBVIOUS
  <2>2. Is(f, 0) /\ RentAll(p, c, 0) = f[0]
    BY <1>5, <2>1
  <2> QED
    BY <2>2
<1>8. ASSUME NEW n \in Nat PROVE RentAll(p, c, n + 1) = Rent(RentAll(p, c, n), c + n)
  <2> HIDE DEF Is, R
  <2>1. PICK f, g : f = R(n) /\ g = R(n + 1)
    OBVIOUS
  <2>2. Is(f, n) /\ RentAll(p, c, n) = f[n]
    BY <1>5, <2>1
  <2>3. n + 1 \in Nat
    OBVIOUS
  <2>4. Is(g, n + 1) /\ RentAll(p, c, n + 1) = g[n + 1]
    BY <1>5, <2>1, <2>3
  <2> QED
    BY <1>6, <2>2, <2>4
<1> QED
  BY <1>7, <1>8

(* Any number of rents.                                                    *)
LEMMA RentsAll ==
    ASSUME NEW c \in Nat \ {0}, NEW p, PoolBefore(p, c), NEW n \in Nat
    PROVE  /\ RentedFrom(p, c, n, RentAll(p, c, n))
           /\ \A i \in 1 .. n : RentedAll(p, c, n)[i] = <<(c + i) - 1, GROW>>
<1> DEFINE S == {m \in Nat : RentedFrom(p, c, m, RentAll(p, c, m))}
<1>1. 0 \in S
  <2>1. RentAll(p, c, 0) = p
    BY RentSteps
  <2>2. c .. c + 0 - 1 = {} /\ c + 0 = c
    OBVIOUS
  <2>3. RentedFrom(p, c, 0, p)
    BY <2>2 DEF RentedFrom
  <2> QED
    BY <2>1, <2>3
<1>2. ASSUME NEW m \in Nat, m \in S PROVE m + 1 \in S
  <2>1. PICK q, r : q = RentAll(p, c, m) /\ r = RentAll(p, c, m + 1)
    OBVIOUS
  <2>2. RentedFrom(p, c, m, q) /\ r = Rent(q, c + m) /\ c + m \in Nat \ {0}
    <3>1. \A j \in Nat : RentAll(p, c, j + 1) = Rent(RentAll(p, c, j), c + j)
      BY RentSteps
    <3>2. r = Rent(q, c + m)
      BY <2>1, <3>1
    <3>3. RentedFrom(p, c, m, q)
      BY <1>2, <2>1
    <3> QED
      BY <3>2, <3>3
  <2>3. PoolBefore(q, c + m)
    BY <2>2 DEF RentedFrom
  <2>4. RentedFrom(q, c + m, 1, r)
    BY <2>2, <2>3, OneRent
  <2>5. /\ (c + m) + 1 = c + (m + 1)
        /\ c .. c + (m + 1) - 1 = (c .. c + m - 1) \cup (c + m .. (c + m) + 1 - 1)
    OBVIOUS
  <2>6. PoolBefore(r, c + (m + 1)) /\ r.init = p.init
    BY <2>2, <2>4, <2>5 DEF RentedFrom
  <2>7. ToSet(r.stack) = ToSet(p.stack) \cup (c .. c + (m + 1) - 1)
    BY <2>2, <2>4, <2>5 DEF RentedFrom
  <2>8. ToSet(r.head) = ToSet(p.head) \cup ((c .. c + (m + 1) - 1) \X (1 .. GROW - 1))
    <3>1. PICK A, B, C, I : /\ A = c .. c + m - 1 /\ B = c + m .. (c + m) + 1 - 1
                            /\ C = c .. c + (m + 1) - 1 /\ I = 1 .. GROW - 1
      OBVIOUS
    <3>2. C = A \cup B
      BY <2>5, <3>1
    <3>3. C \X I = (A \X I) \cup (B \X I)
      BY <3>2
    <3>4. ToSet(q.head) = ToSet(p.head) \cup (A \X I) /\ ToSet(r.head) = ToSet(q.head) \cup (B \X I)
      BY <2>2, <2>4, <3>1 DEF RentedFrom
    <3>5. ToSet(r.head) = ToSet(p.head) \cup (C \X I)
      BY <3>3, <3>4
    <3> QED
      BY <3>1, <3>5
  <2>9. RentedFrom(p, c, m + 1, r)
    BY <2>6, <2>7, <2>8 DEF RentedFrom
  <2> QED
    BY <2>1, <2>9
<1>3. \A m \in Nat : m \in S
  <2> HIDE DEF S
  <2> QED
    BY <1>1, <1>2, SetInduction
<1>4. ASSUME NEW i \in 1 .. n PROVE RentedAll(p, c, n)[i] = <<(c + i) - 1, GROW>>
  <2>1. PICK q, b : q = RentAll(p, c, i - 1) /\ b = c + i - 1
    OBVIOUS
  <2>2. i - 1 \in Nat /\ b = c + (i - 1) /\ b \in Nat \ {0} /\ b = (c + i) - 1
    BY <2>1
  <2>3. RentedFrom(p, c, i - 1, q)
    BY <1>3, <2>1, <2>2
  <2>4. PoolBefore(q, b)
    BY <2>2, <2>3 DEF RentedFrom
  <2>5. Rented(q, b) = <<b, GROW>>
    BY <2>2, <2>4, OneRent
  <2>6. RentedAll(p, c, n)[i] = Rented(q, b)
    BY <2>1 DEF RentedAll
  <2> QED
    BY <2>2, <2>5, <2>6
<1> QED
  BY <1>3, <1>4

-----------------------------------------------------------------------------
(* Lists of functions and the nodes they are linked with.                  *)
Func == [node : Node, func : Nat]
NodesIn(l) == [i \in DOMAIN l |-> l[i].node]

(* The nodes of a list, one for each function.                             *)
LEMMA NodesInList ==
    ASSUME NEW l \in Seq(Func)
    PROVE  /\ NodesIn(l) \in Seq(Node) /\ Len(NodesIn(l)) = Len(l) /\ DOMAIN l = 1 .. Len(l)
           /\ \A i \in 1 .. Len(l) : NodesIn(l)[i] = l[i].node /\ l[i].node \in Node
<1>1. DOMAIN l = 1 .. Len(l) /\ Len(l) \in Nat /\ \A i \in 1 .. Len(l) : l[i] \in Func
  OBVIOUS
<1>2. \A i \in 1 .. Len(l) : l[i].node \in Node
  BY <1>1 DEF Func
<1>3. PICK ns : ns = NodesIn(l)
  OBVIOUS
<1>4. ns = [i \in 1 .. Len(l) |-> l[i].node]
  BY <1>1, <1>3 DEF NodesIn
<1>5. ns \in Seq(Node) /\ Len(ns) = Len(l) /\ \A i \in 1 .. Len(l) : ns[i] = l[i].node
  BY <1>1, <1>2, <1>4
<1> QED
  BY <1>1, <1>2, <1>3, <1>5

(* The nodes of two lists after one another.                               *)
LEMMA NodesInJoined ==
    ASSUME NEW a, NEW b, NEW c, Joins(Func, a, b, c)
    PROVE  c \in Seq(Func) /\ Joins(Node, NodesIn(a), NodesIn(b), NodesIn(c))
<1>1. PICK na, nb, nc, j : na = NodesIn(a) /\ nb = NodesIn(b) /\ nc = NodesIn(c) /\ j = na \o nb
  OBVIOUS
<1>2. a \in Seq(Func) /\ b \in Seq(Func)
  BY DEF Joins
<1>3. /\ c \in Seq(Func) /\ Len(c) = Len(a) + Len(b)
      /\ \A i \in 1 .. Len(a) : c[i] = a[i]
      /\ \A i \in 1 .. Len(b) : c[Len(a) + i] = b[i]
  BY JoinedSeqs
<1>4. /\ na \in Seq(Node) /\ Len(na) = Len(a) /\ \A i \in 1 .. Len(a) : na[i] = a[i].node
  BY <1>1, <1>2, NodesInList
<1>5. /\ nb \in Seq(Node) /\ Len(nb) = Len(b) /\ \A i \in 1 .. Len(b) : nb[i] = b[i].node
  BY <1>1, <1>2, NodesInList
<1>6. /\ nc \in Seq(Node) /\ Len(nc) = Len(c) /\ \A i \in 1 .. Len(c) : nc[i] = c[i].node
  BY <1>1, <1>3, NodesInList
<1>7. Joins(Node, na, nb, j)
  BY <1>1, <1>4, <1>5 DEF Joins
<1>8. /\ j \in Seq(Node) /\ Len(j) = Len(a) + Len(b)
      /\ \A i \in 1 .. Len(a) : j[i] = na[i]
      /\ \A i \in 1 .. Len(b) : j[Len(a) + i] = nb[i]
  BY <1>4, <1>5, <1>7, JoinedSeqs
<1>9. Len(a) \in Nat /\ Len(b) \in Nat
  BY <1>2
<1>10. ASSUME NEW i \in 1 .. Len(c) PROVE nc[i] = j[i]
  <2>1. CASE i <= Len(a)
    <3>1. i \in 1 .. Len(a)
      BY <1>9, <2>1
    <3>2. nc[i] = c[i].node /\ c[i] = a[i] /\ na[i] = a[i].node /\ j[i] = na[i]
      BY <1>3, <1>4, <1>6, <1>8, <3>1
    <3> QED
      BY <3>2
  <2>2. CASE ~(i <= Len(a))
    <3>1. PICK m : m = i - Len(a)
      OBVIOUS
    <3>2. m \in 1 .. Len(b) /\ i = Len(a) + m
      BY <1>3, <1>9, <2>2, <3>1
    <3>3. nc[i] = c[i].node /\ c[i] = b[m] /\ nb[m] = b[m].node /\ j[i] = nb[m]
      BY <1>3, <1>5, <1>6, <1>8, <3>2
    <3> QED
      BY <3>3
  <2> QED
    BY <2>1, <2>2
<1>11. nc = j
  BY <1>3, <1>6, <1>8, <1>10
<1> QED
  BY <1>1, <1>3, <1>7, <1>11

(* The nodes of a list backwards.                                          *)
LEMMA NodesInReversed ==
    ASSUME NEW a \in Seq(Func)
    PROVE  Reverse(a) \in Seq(Func) /\ NodesIn(Reverse(a)) = Reverse(NodesIn(a))
<1>1. PICK r, n, na, nr, m : /\ r = Reverse(a) /\ n = Len(a) /\ na = NodesIn(a)
                             /\ nr = NodesIn(r) /\ m = Reverse(na)
  OBVIOUS
<1>2. /\ r \in Seq(Func) /\ Len(r) = n /\ n \in Nat
      /\ \A i \in 1 .. n : r[i] = a[(n - i) + 1]
  BY <1>1, ReversedSeq
<1>3. na \in Seq(Node) /\ Len(na) = n /\ \A i \in 1 .. n : na[i] = a[i].node
  BY <1>1, NodesInList
<1>4. nr \in Seq(Node) /\ Len(nr) = n /\ \A i \in 1 .. n : nr[i] = r[i].node
  BY <1>1, <1>2, NodesInList
<1>5. m \in Seq(Node) /\ Len(m) = n /\ \A i \in 1 .. n : m[i] = na[(n - i) + 1]
  BY <1>1, <1>3, ReversedSeq
<1>6. \A i \in 1 .. n : (n - i) + 1 \in 1 .. n
  BY <1>2
<1>7. \A i \in 1 .. n : nr[i] = m[i]
  BY <1>2, <1>3, <1>4, <1>5, <1>6
<1>8. nr = m
  BY <1>4, <1>5, <1>7
<1> QED
  BY <1>1, <1>2, <1>8

(* The nodes of a list without its first function.                         *)
LEMMA NodesInTail ==
    ASSUME NEW a \in Seq(Func), a # <<>>
    PROVE  /\ Tail(a) \in Seq(Func) /\ NodesIn(Tail(a)) = Tail(NodesIn(a))
           /\ NodesIn(a) # <<>> /\ Head(a).node = Head(NodesIn(a))
<1>1. PICK r, n, na, nr, m : /\ r = Tail(a) /\ n = Len(a) /\ na = NodesIn(a)
                             /\ nr = NodesIn(r) /\ m = Tail(na)
  OBVIOUS
<1>2. /\ r \in Seq(Func) /\ Len(r) = n - 1 /\ n \in Nat \ {0} /\ Head(a) = a[1]
      /\ \A i \in 1 .. n - 1 : r[i] = a[i + 1]
  BY <1>1
<1>3. na \in Seq(Node) /\ Len(na) = n /\ \A i \in 1 .. n : na[i] = a[i].node
  BY <1>1, NodesInList
<1>4. nr \in Seq(Node) /\ Len(nr) = n - 1 /\ \A i \in 1 .. n - 1 : nr[i] = r[i].node
  BY <1>1, <1>2, NodesInList
<1>5. na # <<>> /\ Head(na) = na[1]
  BY <1>2, <1>3
<1>6. m \in Seq(Node) /\ Len(m) = n - 1 /\ \A i \in 1 .. n - 1 : m[i] = na[i + 1]
  BY <1>1, <1>2, <1>3, <1>5
<1>7. 1 \in 1 .. n /\ \A i \in 1 .. n - 1 : i + 1 \in 1 .. n
  BY <1>2
<1>8. \A i \in 1 .. n - 1 : nr[i] = m[i]
  BY <1>2, <1>3, <1>4, <1>6, <1>7
<1>9. nr = m
  BY <1>4, <1>6, <1>8
<1>10. Head(a).node = Head(na)
  BY <1>2, <1>3, <1>5, <1>7
<1> QED
  BY <1>1, <1>2, <1>5, <1>9, <1>10

(* The nodes that n rents take, those of the chunks after the first m.     *)
Fresh(m, n) == (m + 1 .. m + n) \X {GROW}

(* New functions have nodes of their own, the last of as many new chunks.  *)
LEMMA NewFuncNodes ==
    ASSUME NEW t \in Threads, chunks \in Nat, PoolBefore(pool[t], chunks + 1),
           NEW fs \in Seq(Nat)
    PROVE  /\ NewFuncs(t, fs) \in Seq(Func) /\ IsInjective(NodesIn(NewFuncs(t, fs)))
           /\ ToSet(NodesIn(NewFuncs(t, fs))) = Fresh(chunks, Len(fs))
<1>1. PICK c, n, ns, l : /\ c = chunks /\ n = Len(fs) /\ l = NewFuncs(t, fs)
                         /\ ns = RentedAll(pool[t], chunks + 1, Len(fs))
  OBVIOUS
<1>2. c \in Nat /\ n \in Nat /\ DOMAIN fs = 1 .. n /\ \A i \in 1 .. n : fs[i] \in Nat
  BY <1>1
<1>3. \A i \in 1 .. n : ns[i] = <<c + i, GROW>>
  <2>1. \A i \in 1 .. n : ns[i] = <<((c + 1) + i) - 1, GROW>>
    <3>1. PICK q, d : q = pool[t] /\ d = c + 1
      OBVIOUS
    <3>2. d \in Nat \ {0} /\ PoolBefore(q, d) /\ ns = RentedAll(q, d, n)
      BY <1>1, <1>2, <3>1
    <3>3. \A i \in 1 .. n : RentedAll(q, d, n)[i] = <<(d + i) - 1, GROW>>
      BY <1>2, <3>2, RentsAll
    <3> QED
      BY <3>1, <3>2, <3>3
  <2>2. \A i \in 1 .. n : ((c + 1) + i) - 1 = c + i
    BY <1>2
  <2> QED
    BY <2>1, <2>2
<1>4. l = [i \in 1 .. n |-> [node |-> ns[i], func |-> fs[i]]]
  BY <1>1, <1>2 DEF NewFuncs, Called
<1>5. ASSUME NEW i \in 1 .. n PROVE ns[i] \in Node
  <2>1. c + i \in Nat \ {0} /\ GROW \in 1 .. GROW
    BY <1>2, CbAssumption
  <2>2. <<c + i, GROW>> \in Node
    BY <2>1 DEF Node
  <2> QED
    BY <1>3, <2>2
<1>6. l \in Seq(Func) /\ Len(l) = n
  BY <1>2, <1>4, <1>5 DEF Func
<1>7. PICK nl : nl = NodesIn(l)
  OBVIOUS
<1>8. nl \in Seq(Node) /\ Len(nl) = n /\ \A i \in 1 .. n : nl[i] = l[i].node
  BY <1>6, <1>7, NodesInList
<1>9. DOMAIN nl = 1 .. n /\ \A i \in 1 .. n : nl[i] = <<c + i, GROW>>
  <2>1. DOMAIN nl = 1 .. n
    BY <1>8
  <2>2. ASSUME NEW i \in 1 .. n PROVE nl[i] = <<c + i, GROW>>
    <3>1. l[i].node = ns[i]
      BY <1>4
    <3> QED
      BY <1>3, <1>8, <3>1
  <2> QED
    BY <2>1, <2>2
<1>10. IsInjective(nl)
  <2> SUFFICES ASSUME NEW i \in 1 .. n, NEW j \in 1 .. n, nl[i] = nl[j] PROVE i = j
    BY <1>9 DEF IsInjective
  <2>1. c + i = c + j
    BY <1>9
  <2> QED
    BY <1>2, <2>1
<1>11. ToSet(nl) = Fresh(c, n)
  <2>1. ToSet(nl) = {nl[i] : i \in 1 .. n}
    BY <1>9 DEF ToSet
  <2>2. ASSUME NEW x \in ToSet(nl) PROVE x \in Fresh(c, n)
    <3>1. PICK i \in 1 .. n : x = nl[i]
      BY <2>1
    <3>2. x = <<c + i, GROW>> /\ c + i \in c + 1 .. c + n
      BY <1>2, <1>9, <3>1
    <3> QED
      BY <3>2 DEF Fresh
  <2>3. ASSUME NEW x \in Fresh(c, n) PROVE x \in ToSet(nl)
    <3>1. PICK m \in c + 1 .. c + n : x = <<m, GROW>>
      BY DEF Fresh
    <3>2. PICK i : i = m - c
      OBVIOUS
    <3>3. i \in 1 .. n /\ m = c + i
      BY <1>2, <3>2
    <3> QED
      BY <1>9, <2>1, <3>1, <3>3
  <2> QED
    BY <2>2, <2>3
<1> QED
  BY <1>1, <1>6, <1>7, <1>10, <1>11

-----------------------------------------------------------------------------
(* Nothing is twice in the sequences of f and h.                           *)
Apart(f, h) == NoneTwice(f) /\ NoneTwice(h) /\ All(f) \cap All(h) = {}

(* The sequences a and b have, once, what c and d and F have.              *)
Arranges(a, b, c, d, F) ==
    /\ IsInjective(a) /\ IsInjective(b) /\ ToSet(a) \cap ToSet(b) = {}
    /\ ToSet(a) \cup ToSet(b) \subseteq ToSet(c) \cup ToSet(d) \cup F

(* One sequence of f and one of h are replaced by what they had and fresh  *)
(* items, in any other arrangement.                                        *)
LEMMA Rearranged ==
    ASSUME NEW X, NEW D, NEW f, NEW g, NEW d, DiffersAt(D, X, f, d, g),
           NEW E, NEW h, NEW w, NEW e, DiffersAt(E, X, h, e, w), Apart(f, h),
           NEW F, F \cap (All(f) \cup All(h)) = {}, Arranges(g[d], w[e], f[d], h[e], F)
    PROVE  Apart(g, w) /\ All(g) \cup All(w) \subseteq All(f) \cup All(h) \cup F
<1>0. /\ NoneTwice(f) /\ NoneTwice(h) /\ All(f) \cap All(h) = {}
      /\ IsInjective(g[d]) /\ IsInjective(w[e]) /\ ToSet(g[d]) \cap ToSet(w[e]) = {}
      /\ ToSet(g[d]) \cup ToSet(w[e]) \subseteq ToSet(f[d]) \cup ToSet(h[e]) \cup F
  BY DEF Apart, Arranges
<1>1. ToSet(f[d]) \subseteq All(f) /\ ToSet(h[e]) \subseteq All(h)
  BY DEF All, DiffersAt
<1>2. /\ (All(f) \ ToSet(f[d])) \cap ToSet(g[d]) = {}
      /\ (All(h) \ ToSet(h[e])) \cap ToSet(w[e]) = {}
  BY <1>0, <1>1
<1>3. PICK s, u : s = g[d] /\ u = w[e]
  OBVIOUS
<1>4. NoneTwice(g) /\ All(g) = (All(f) \ ToSet(f[d])) \cup ToSet(s)
  BY <1>0, <1>2, <1>3, ReplacedSeq
<1>5. NoneTwice(w) /\ All(w) = (All(h) \ ToSet(h[e])) \cup ToSet(u)
  BY <1>0, <1>2, <1>3, ReplacedSeq
<1>6. All(g) \cap All(w) = {}
  BY <1>0, <1>1, <1>3, <1>4, <1>5
<1>7. All(g) \cup All(w) \subseteq All(f) \cup All(h) \cup F
  BY <1>0, <1>1, <1>3, <1>4, <1>5
<1> QED
  BY <1>4, <1>5, <1>6, <1>7 DEF Apart

(* One sequence of several, on its own.                                    *)
LEMMA OneOfAll ==
    ASSUME NEW D, NEW X, NEW f \in [D -> Seq(X)], NoneTwice(f), NEW d \in D
    PROVE  IsInjective(f[d]) /\ ToSet(f[d]) \subseteq All(f) /\ f[d] \in Seq(X)
<1>1. \A i, j \in DOMAIN f[d] : f[d][i] = f[d][j] => i = j
  BY DEF NoneTwice
<1>2. IsInjective(f[d])
  BY <1>1 DEF IsInjective
<1> QED
  BY <1>2 DEF All

Nothing == <<>>

(* The empty sequence.                                                     *)
LEMMA NothingSeq ==
    ASSUME NEW X
    PROVE  /\ Nothing \in Seq(X) /\ IsInjective(Nothing) /\ ToSet(Nothing) = {}
           /\ NoneTwice(Nothing) /\ All(Nothing) = {}
<1>1. Nothing \in Seq(X) /\ DOMAIN Nothing = {}
  BY DEF Nothing
<1>2. IsInjective(Nothing) /\ ToSet(Nothing) = {}
  BY <1>1 DEF IsInjective, ToSet
<1>3. NoneTwice(Nothing)
  BY <1>1 DEF NoneTwice
<1>4. All(Nothing) = {}
  BY <1>1, Zenon DEF All
<1> QED
  BY <1>1, <1>2, <1>3, <1>4

Puts(q, s, r) == r = Append(q, s)

(* A stack is put behind those in the queue.                               *)
LEMMA PutStack ==
    ASSUME NEW X, NEW q \in Seq(Seq(X)), NoneTwice(q), NEW s \in Seq(X), IsInjective(s),
           ToSet(s) \cap All(q) = {}, NEW r, Puts(q, s, r)
    PROVE  /\ r \in Seq(Seq(X)) /\ Len(r) = Len(q) + 1 /\ NoneTwice(r)
           /\ All(r) = All(q) \cup ToSet(s)
<1>1. /\ r \in Seq(Seq(X)) /\ Len(r) = Len(q) + 1 /\ Len(q) \in Nat
      /\ r[Len(q) + 1] = s /\ \A i \in 1 .. Len(q) : r[i] = q[i]
  BY DEF Puts
<1>2. PICK n : n = Len(q)
  OBVIOUS
<1>3. /\ DOMAIN q = 1 .. n /\ DOMAIN r = 1 .. n + 1 /\ n \in Nat
      /\ r[n + 1] = s /\ \A i \in 1 .. n : r[i] = q[i]
  BY <1>1, <1>2
<1>4. \A i \in 1 .. n + 1 : i = n + 1 \/ i \in 1 .. n
  BY <1>3
<1>5. n + 1 \in 1 .. n + 1 /\ \A i \in 1 .. n : i \in 1 .. n + 1
  BY <1>3
<1>6. \A i \in 1 .. n : ToSet(q[i]) \subseteq All(q)
  BY <1>3 DEF All
<1>0. \A x, y \in 1 .. n : \A i \in DOMAIN q[x], j \in DOMAIN q[y] :
        q[x][i] = q[y][j] => x = y /\ i = j
  BY <1>3, Zenon DEF NoneTwice
<1>7. ASSUME NEW x \in 1 .. n + 1, NEW y \in 1 .. n + 1,
             NEW i \in DOMAIN r[x], NEW j \in DOMAIN r[y], r[x][i] = r[y][j]
      PROVE  x = y /\ i = j
  <2>1. CASE x = n + 1 /\ y = n + 1
    BY <1>3, <1>7, <2>1 DEF IsInjective
  <2>2. CASE x \in 1 .. n /\ y \in 1 .. n
    <3>1. r[x] = q[x] /\ r[y] = q[y]
      BY <1>3, <2>2
    <3>2. i \in DOMAIN q[x] /\ j \in DOMAIN q[y] /\ q[x][i] = q[y][j]
      BY <1>7, <3>1
    <3> QED
      BY <1>0, <2>2, <3>2, Zenon
  <2>3. CASE x = n + 1 /\ y \in 1 .. n
    <3>1. r[x][i] \in ToSet(s) /\ r[y][j] \in ToSet(q[y])
      BY <1>3, <2>3 DEF ToSet
    <3> QED
      BY <1>6, <1>7, <2>3, <3>1
  <2>4. CASE x \in 1 .. n /\ y = n + 1
    <3>1. r[y][j] \in ToSet(s) /\ r[x][i] \in ToSet(q[x])
      BY <1>3, <2>4 DEF ToSet
    <3> QED
      BY <1>6, <1>7, <2>4, <3>1
  <2> QED
    BY <1>4, <2>1, <2>2, <2>3, <2>4
<1>8. NoneTwice(r)
  <2> SUFFICES ASSUME NEW x \in DOMAIN r, NEW y \in DOMAIN r,
                      NEW i \in DOMAIN r[x], NEW j \in DOMAIN r[y], r[x][i] = r[y][j]
               PROVE  x = y /\ i = j
    BY Zenon DEF NoneTwice
  <2>1. x \in 1 .. n + 1 /\ y \in 1 .. n + 1
    BY <1>3
  <2> QED
    BY <1>7, <2>1
<1>9. ASSUME NEW x \in All(r) PROVE x \in All(q) \cup ToSet(s)
  <2>1. PICK i \in 1 .. n + 1 : x \in ToSet(r[i])
    BY <1>3 DEF All
  <2> QED
    BY <1>3, <1>4, <1>6, <2>1
<1>10. ASSUME NEW x \in All(q) \cup ToSet(s) PROVE x \in All(r)
  <2>1. CASE x \in ToSet(s)
    BY <1>3, <1>5, <2>1 DEF All
  <2>2. CASE x \in All(q)
    <3>1. PICK i \in 1 .. n : x \in ToSet(q[i])
      BY <1>3, <2>2 DEF All
    <3>2. i \in DOMAIN r /\ x \in ToSet(r[i])
      BY <1>3, <1>5, <3>1
    <3> QED
      BY <3>2 DEF All
  <2> QED
    BY <2>1, <2>2
<1> QED
  BY <1>1, <1>8, <1>9, <1>10

(* The first stack is taken from the queue.                                *)
LEMMA TakenStack ==
    ASSUME NEW X, NEW q \in Seq(Seq(X)), NoneTwice(q), q # <<>>, NEW r, r = Tail(q)
    PROVE  /\ r \in Seq(Seq(X)) /\ Len(r) = Len(q) - 1 /\ NoneTwice(r)
           /\ Head(q) \in Seq(X) /\ IsInjective(Head(q)) /\ ToSet(Head(q)) \subseteq All(q)
           /\ All(r) = All(q) \ ToSet(Head(q))
<1>1. PICK n, s : n = Len(q) /\ s = Head(q)
  OBVIOUS
<1>2. /\ n \in Nat \ {0} /\ r \in Seq(Seq(X)) /\ Len(r) = n - 1 /\ s = q[1] /\ s \in Seq(X)
      /\ DOMAIN q = 1 .. n /\ DOMAIN r = 1 .. n - 1
      /\ \A i \in 1 .. n - 1 : r[i] = q[i + 1]
  BY <1>1
<1>3. /\ 1 \in 1 .. n
      /\ \A i \in 1 .. n - 1 : i + 1 \in 1 .. n /\ i + 1 # 1
      /\ \A i \in 1 .. n : i # 1 => i - 1 \in 1 .. n - 1 /\ (i - 1) + 1 = i
  BY <1>2
<1>4. \A x, y \in 1 .. n : \A i \in DOMAIN q[x], j \in DOMAIN q[y] :
        q[x][i] = q[y][j] => x = y /\ i = j
  BY <1>2, Zenon DEF NoneTwice
<1>5. IsInjective(s)
  BY <1>2, <1>3, <1>4 DEF IsInjective
<1>6. ToSet(s) \subseteq All(q)
  BY <1>2, <1>3 DEF All
<1>7. NoneTwice(r)
  <2> SUFFICES ASSUME NEW x \in DOMAIN r, NEW y \in DOMAIN r,
                      NEW i \in DOMAIN r[x], NEW j \in DOMAIN r[y], r[x][i] = r[y][j]
               PROVE  x = y /\ i = j
    BY Zenon DEF NoneTwice
  <2>1. x \in 1 .. n - 1 /\ y \in 1 .. n - 1
    BY <1>2
  <2>2. PICK u, v : u = x + 1 /\ v = y + 1
    OBVIOUS
  <2>3. u \in 1 .. n /\ v \in 1 .. n /\ (u = v => x = y)
    BY <1>2, <2>1, <2>2
  <2>4. r[x] = q[u] /\ r[y] = q[v]
    BY <1>2, <2>1, <2>2
  <2>5. i \in DOMAIN q[u] /\ j \in DOMAIN q[v] /\ q[u][i] = q[v][j]
    BY <2>4, Zenon
  <2>6. u = v /\ i = j
    <3>1. \A a \in DOMAIN q[u], b \in DOMAIN q[v] : q[u][a] = q[v][b] => u = v /\ a = b
      BY <1>4, <2>3
    <3> QED
      BY <2>5, <3>1, Zenon
  <2> QED
    BY <2>3, <2>6
<1>8. ASSUME NEW x \in 1 .. n, x # 1 PROVE ToSet(q[x]) \cap ToSet(s) = {}
  BY <1>2, <1>3, <1>4, <1>8 DEF ToSet
<1>9. ASSUME NEW x \in All(r) PROVE x \in All(q) \ ToSet(s)
  <2>1. PICK i \in 1 .. n - 1 : x \in ToSet(r[i])
    BY <1>2 DEF All
  <2>2. x \in ToSet(q[i + 1]) /\ i + 1 \in 1 .. n /\ i + 1 # 1
    BY <1>2, <1>3, <2>1
  <2>3. x \notin ToSet(s)
    BY <1>8, <2>2
  <2> QED
    BY <1>2, <2>2, <2>3 DEF All
<1>10. ASSUME NEW x \in All(q) \ ToSet(s) PROVE x \in All(r)
  <2>1. PICK i \in 1 .. n : x \in ToSet(q[i])
    BY <1>2 DEF All
  <2>2. i - 1 \in 1 .. n - 1 /\ (i - 1) + 1 = i
    BY <1>2, <1>3, <2>1
  <2>3. r[i - 1] = q[i]
    BY <1>2, <2>2
  <2> QED
    BY <1>2, <2>1, <2>2, <2>3 DEF All
<1>11. All(r) = All(q) \ ToSet(s)
  BY <1>9, <1>10
<1> QED
  BY <1>1, <1>2, <1>5, <1>6, <1>7, <1>11

-----------------------------------------------------------------------------
(* The variables that hold nodes, as far as the nodes are concerned.       *)
NodeTypes ==
    /\ chunks \in Nat /\ pool \in [Threads -> Pool]
    /\ cb = [k \in Cbs |-> cb[k]]
    /\ \A k \in Cbs : /\ cb[k] = [stack |-> cb[k].stack, funclist |-> cb[k].funclist]
                      /\ cb[k].funclist \in Seq(Func)

(* Every node is of a chunk that was allocated and has one holder.         *)
NodesKept ==
    /\ All(InUse) \cup All(FreeNodes) \subseteq (1 .. chunks) \X (1 .. GROW)
    /\ OneHolder

(* A thread that is not initialised has nothing, but for the stack that it *)
(* is taking, and after exit() none is.                                    *)
ThreadsEmpty ==
    /\ \A t \in Threads : /\ pool[t].init => step[t] = "idle"
                          /\ ~pool[t].init => pool[t].head = <<>>
                          /\ ~pool[t].init /\ step[t] # "taking" => pool[t].stack = <<>>
    /\ phase = "quit" => queue = <<>> /\ \A t \in Threads : Out(t)

StackTypes == queue \in Seq(Seq(Nat)) /\ freed \in Seq(Seq(Nat)) /\ peak \in Nat

(* The inductive invariant.                                                *)
CbInv == NodeTypes /\ NodesKept /\ ThreadsEmpty /\ StackTypes /\ PoolsSound

-----------------------------------------------------------------------------
(* The holders of nodes as functions, and each of them on its own.         *)
HoldersAre ==
    /\ InUse \in [Cbs -> Seq(Node)] /\ FreeNodes \in [Threads -> Seq(Node)]
    /\ Stacks \in [Threads -> Seq(Nat)]
    /\ \A k \in Cbs : InUse[k] = NodesIn(cb[k].funclist)
    /\ \A t \in Threads : FreeNodes[t] = pool[t].head /\ Stacks[t] = pool[t].stack

(* They follow from the types, before a step and after it.                 *)
LEMMA HolderTypes == NodeTypes => HoldersAre
<1> SUFFICES ASSUME NodeTypes PROVE HoldersAre
  OBVIOUS
<1>1. ASSUME NEW k \in Cbs PROVE NodesOf(k) = NodesIn(cb[k].funclist) /\ NodesOf(k) \in Seq(Node)
  <2>1. PICK l : l = cb[k].funclist
    OBVIOUS
  <2>2. l \in Seq(Func)
    BY <2>1 DEF NodeTypes
  <2>3. NodesIn(l) \in Seq(Node)
    BY <2>2, NodesInList
  <2>4. NodesOf(k) = NodesIn(l)
    BY <2>1 DEF NodesOf, NodesIn
  <2> QED
    BY <2>1, <2>3, <2>4
<1>2. /\ InUse \in [Cbs -> Seq(Node)]
      /\ \A k \in Cbs : InUse[k] = NodesIn(cb[k].funclist)
  BY <1>1 DEF InUse
<1>3. ASSUME NEW t \in Threads PROVE pool[t].head \in Seq(Node) /\ pool[t].stack \in Seq(Nat)
  BY DEF NodeTypes, Pool
<1>4. /\ FreeNodes \in [Threads -> Seq(Node)] /\ Stacks \in [Threads -> Seq(Nat)]
      /\ \A t \in Threads : FreeNodes[t] = pool[t].head /\ Stacks[t] = pool[t].stack
  BY <1>3 DEF FreeNodes, Stacks
<1> QED
  BY <1>2, <1>4 DEF HoldersAre

(* The same after a step.                                                  *)
LEMMA HolderTypesNext == NodeTypes' => HoldersAre'
  BY HolderTypes, PTL

(* The pool of a thread has no repetitions and nothing of chunks that were *)
(* not allocated yet.                                                      *)
LEMMA PoolOfThread ==
    ASSUME NodeTypes, NodesKept, ChunksKept, phase # "quit", NEW t \in Threads
    PROVE  PoolBefore(pool[t], chunks + 1)
<1>1. /\ FreeNodes \in [Threads -> Seq(Node)] /\ Stacks \in [Threads -> Seq(Nat)]
      /\ FreeNodes[t] = pool[t].head /\ Stacks[t] = pool[t].stack
  BY HolderTypes DEF HoldersAre
<1>2. PICK f, s : f = FreeNodes /\ s = Stacks
  OBVIOUS
<1>3. IsInjective(f[t]) /\ ToSet(f[t]) \subseteq All(f)
  <2>1. f \in [Threads -> Seq(Node)] /\ NoneTwice(f)
    BY <1>1, <1>2 DEF NodesKept, OneHolder
  <2> QED
    BY <2>1, OneOfAll
<1>4. IsInjective(s[t]) /\ ToSet(s[t]) \subseteq All(s)
  <2>1. s \in [Threads -> Seq(Nat)] /\ NoneTwice(s)
    BY <1>1, <1>2 DEF ChunksKept
  <2> QED
    BY <2>1, OneOfAll
<1>5. All(f) \subseteq (1 .. chunks) \X (1 .. GROW) /\ All(s) \subseteq 1 .. chunks
  BY <1>2 DEF NodesKept, ChunksKept
<1>6. pool[t] \in Pool /\ chunks \in Nat
  BY DEF NodeTypes
<1>7. \A m \in Nat : m >= chunks + 1 => m \notin 1 .. chunks
  BY <1>6
<1>8. ASSUME NEW m \in Nat \ {0}, NEW i \in 1 .. GROW, m >= chunks + 1
      PROVE  <<m, i>> \notin ToSet(f[t])
  BY <1>3, <1>5, <1>7, <1>8
<1>9. ASSUME NEW m \in Nat, m >= chunks + 1 PROVE m \notin ToSet(s[t])
  BY <1>4, <1>5, <1>7, <1>9
<1> QED
  BY <1>1, <1>2, <1>3, <1>4, <1>6, <1>8, <1>9 DEF PoolBefore

(* Only the pool of t and the list of k change; fl and p are what they     *)
(* then have.                                                              *)
Moves(t, p, k, fl) ==
    /\ t \in Threads /\ p \in Pool /\ k \in Cbs /\ fl \in Seq(Func)
    /\ pool' = [pool EXCEPT ![t] = p]
    /\ \E s : cb' = [cb EXCEPT ![k] = [stack |-> s, funclist |-> fl]]

(* Nodes of the list of k, of the pool of t and of the n chunks that are   *)
(* allocated are arranged anew.                                            *)
LEMMA NodesMoved ==
    ASSUME NodeTypes, NodesKept, NEW t, NEW p, NEW k, NEW fl, Moves(t, p, k, fl),
           NEW n \in Nat, chunks' = chunks + n,
           IsInjective(p.head), IsInjective(NodesIn(fl)),
           ToSet(p.head) \cap ToSet(NodesIn(fl)) = {},
           ToSet(p.head) \cup ToSet(NodesIn(fl))
             \subseteq ToSet(pool[t].head) \cup ToSet(NodesIn(cb[k].funclist))
                       \cup ((chunks + 1 .. chunks + n) \X (1 .. GROW))
    PROVE  NodeTypes' /\ NodesKept'
<1>1. /\ t \in Threads /\ p \in Pool /\ k \in Cbs /\ fl \in Seq(Func)
      /\ pool' = [pool EXCEPT ![t] = p]
  BY DEF Moves
<1>2. PICK s : cb' = [cb EXCEPT ![k] = [stack |-> s, funclist |-> fl]]
  BY DEF Moves
<1>3. /\ chunks \in Nat /\ pool \in [Threads -> Pool]
      /\ cb = [j \in Cbs |-> cb[j]]
      /\ \A j \in Cbs : /\ cb[j] = [stack |-> cb[j].stack, funclist |-> cb[j].funclist]
                        /\ cb[j].funclist \in Seq(Func)
  BY DEF NodeTypes
<1>4. /\ chunks' \in Nat /\ pool' \in [Threads -> Pool] /\ pool'[t] = p
      /\ \A u \in Threads : u # t => pool'[u] = pool[u]
  BY <1>1, <1>3
<1>5. PICK r : r = [stack |-> s, funclist |-> fl]
  OBVIOUS
<1>6. r = [stack |-> r.stack, funclist |-> r.funclist] /\ r.funclist = fl
  BY <1>5
<1>7. /\ cb' = [j \in Cbs |-> cb'[j]] /\ cb'[k] = r
      /\ \A j \in Cbs : j # k => cb'[j] = cb[j]
  BY <1>1, <1>2, <1>3, <1>5
<1>8. ASSUME NEW j \in Cbs
      PROVE  /\ cb'[j] = [stack |-> cb'[j].stack, funclist |-> cb'[j].funclist]
             /\ cb'[j].funclist \in Seq(Func)
  <2>1. CASE j = k
    BY <1>1, <1>6, <1>7, <2>1
  <2>2. CASE j # k
    BY <1>3, <1>7, <2>2
  <2> QED
    BY <2>1, <2>2
<1>9. NodeTypes'
  BY <1>4, <1>7, <1>8 DEF NodeTypes
<1>10. PICK f, g, h, w : f = InUse /\ g = InUse' /\ h = FreeNodes /\ w = FreeNodes'
  OBVIOUS
<1>11. /\ f \in [Cbs -> Seq(Node)] /\ h \in [Threads -> Seq(Node)]
       /\ \A j \in Cbs : f[j] = NodesIn(cb[j].funclist)
       /\ \A u \in Threads : h[u] = pool[u].head
  BY <1>10, HolderTypes DEF HoldersAre
<1>12. /\ g \in [Cbs -> Seq(Node)] /\ w \in [Threads -> Seq(Node)]
       /\ \A j \in Cbs : g[j] = NodesIn(cb'[j].funclist)
       /\ \A u \in Threads : w[u] = pool'[u].head
  BY <1>9, <1>10, HolderTypesNext DEF HoldersAre
<1>13. DiffersAt(Cbs, Node, f, k, g) /\ g[k] = NodesIn(fl)
  BY <1>1, <1>6, <1>7, <1>11, <1>12 DEF DiffersAt
<1>14. DiffersAt(Threads, Node, h, t, w) /\ w[t] = p.head
  BY <1>1, <1>4, <1>11, <1>12 DEF DiffersAt
<1>15. /\ NoneTwice(f) /\ NoneTwice(h) /\ All(f) \cap All(h) = {}
       /\ All(f) \cup All(h) \subseteq (1 .. chunks) \X (1 .. GROW)
  BY <1>10 DEF NodesKept, OneHolder
<1>16. PICK F : F = (chunks + 1 .. chunks + n) \X (1 .. GROW)
  OBVIOUS
<1>17. F \cap (All(f) \cup All(h)) = {}
  <2>1. (chunks + 1 .. chunks + n) \cap (1 .. chunks) = {}
    BY <1>3
  <2> QED
    BY <1>15, <1>16, <2>1
<1>18. /\ IsInjective(g[k]) /\ IsInjective(w[t]) /\ ToSet(g[k]) \cap ToSet(w[t]) = {}
       /\ ToSet(g[k]) \cup ToSet(w[t]) \subseteq ToSet(f[k]) \cup ToSet(h[t]) \cup F
  BY <1>1, <1>11, <1>13, <1>14, <1>16
<1>19. /\ NoneTwice(g) /\ NoneTwice(w) /\ All(g) \cap All(w) = {}
       /\ All(g) \cup All(w) \subseteq All(f) \cup All(h) \cup F
  <2>1. Apart(f, h) /\ Arranges(g[k], w[t], f[k], h[t], F)
    BY <1>15, <1>18 DEF Apart, Arranges
  <2>2. Apart(g, w) /\ All(g) \cup All(w) \subseteq All(f) \cup All(h) \cup F
    BY <1>13, <1>14, <1>17, <2>1, Rearranged, Zenon
  <2> QED
    BY <2>2 DEF Apart
<1>20. All(g) \cup All(w) \subseteq (1 .. chunks') \X (1 .. GROW)
  <2>1. 1 .. chunks \subseteq 1 .. chunks' /\ chunks + 1 .. chunks + n \subseteq 1 .. chunks'
    BY <1>3
  <2>2. /\ (1 .. chunks) \X (1 .. GROW) \subseteq (1 .. chunks') \X (1 .. GROW)
        /\ F \subseteq (1 .. chunks') \X (1 .. GROW)
    BY <1>16, <2>1
  <2> QED
    BY <1>15, <1>19, <2>2
<1>21. NodesKept'
  BY <1>10, <1>19, <1>20 DEF NodesKept, OneHolder
<1> QED
  BY <1>9, <1>21

-----------------------------------------------------------------------------
(* What a callback's list may be after n rents: its own nodes and the last *)
(* node of each of the new chunks, none twice.                             *)
GrowsBy(k, n, fl) ==
    /\ k \in Cbs /\ n \in Nat /\ fl \in Seq(Func) /\ IsInjective(NodesIn(fl))
    /\ ToSet(NodesIn(fl)) \subseteq ToSet(NodesIn(cb[k].funclist)) \cup Fresh(chunks, n)

NewList(k, fl) == \E s : cb' = [cb EXCEPT ![k] = [stack |-> s, funclist |-> fl]]

Owners == Threads \cup {FREE, QUEUED}

(* New functions are linked before or after those of the callback.         *)
LEMMA ListGrows ==
    ASSUME NodeTypes, NodesKept, NEW k \in Cbs, NEW n \in Nat,
           NEW new \in Seq(Func), IsInjective(NodesIn(new)),
           ToSet(NodesIn(new)) = Fresh(chunks, n), NEW fl,
           \/ Joins(Func, new, cb[k].funclist, fl)
           \/ Joins(Func, cb[k].funclist, new, fl)
    PROVE  GrowsBy(k, n, fl)
<1>1. PICK old, a, b, c : /\ old = cb[k].funclist /\ a = NodesIn(new) /\ b = NodesIn(old)
                          /\ c = NodesIn(fl)
  OBVIOUS
<1>2. IsInjective(b) /\ ToSet(b) \subseteq All(InUse)
  <2>1. PICK f : f = InUse
    OBVIOUS
  <2>2. f \in [Cbs -> Seq(Node)] /\ NoneTwice(f) /\ f[k] = b
    BY <1>1, <2>1, HolderTypes DEF HoldersAre, NodesKept, OneHolder
  <2>3. IsInjective(f[k]) /\ ToSet(f[k]) \subseteq All(f)
    BY <2>2, OneOfAll
  <2> QED
    BY <2>1, <2>2, <2>3
<1>3. ToSet(a) \cap ToSet(b) = {}
  <2>1. (chunks + 1 .. chunks + n) \cap (1 .. chunks) = {}
    BY DEF NodeTypes
  <2>2. ToSet(b) \subseteq (1 .. chunks) \X (1 .. GROW)
    BY <1>2 DEF NodesKept
  <2>3. ToSet(a) = (chunks + 1 .. chunks + n) \X {GROW}
    BY <1>1 DEF Fresh
  <2> QED
    BY <2>1, <2>2, <2>3
<1>4. CASE Joins(Func, new, old, fl)
  <2>1. fl \in Seq(Func) /\ Joins(Node, a, b, c)
    BY <1>1, <1>4, NodesInJoined
  <2>2. IsInjective(c) /\ ToSet(c) = ToSet(a) \cup ToSet(b)
    BY <1>1, <1>2, <1>3, <2>1, JoinedSeqs
  <2> QED
    BY <1>1, <2>1, <2>2 DEF GrowsBy
<1>5. CASE Joins(Func, old, new, fl)
  <2>1. fl \in Seq(Func) /\ Joins(Node, b, a, c)
    BY <1>1, <1>5, NodesInJoined
  <2>2. IsInjective(c) /\ ToSet(c) = ToSet(b) \cup ToSet(a)
    BY <1>1, <1>2, <1>3, <2>1, JoinedSeqs
  <2> QED
    BY <1>1, <2>1, <2>2 DEF GrowsBy
<1> QED
  BY <1>1, <1>4, <1>5

(* The nodes after rents: what stays free of the new chunks is not what    *)
(* was taken.                                                              *)
LEMMA RentedNodes ==
    ASSUME NodeTypes, NodesKept, NEW t \in Threads, NEW n, NEW k, NEW fl, GrowsBy(k, n, fl),
           NewList(k, fl), NEW p, RentedFrom(pool[t], chunks + 1, n, p),
           pool' = [pool EXCEPT ![t] = p], chunks' = chunks + n
    PROVE  NodeTypes' /\ NodesKept'
<1>1. /\ k \in Cbs /\ n \in Nat /\ fl \in Seq(Func) /\ IsInjective(NodesIn(fl))
      /\ ToSet(NodesIn(fl)) \subseteq ToSet(NodesIn(cb[k].funclist)) \cup Fresh(chunks, n)
  BY DEF GrowsBy
<1>2. p \in Pool /\ IsInjective(p.head)
  BY DEF RentedFrom, PoolBefore
<1>3. chunks \in Nat /\ GROW \in Nat \ {0}
  BY CbAssumption DEF NodeTypes
<1>4. ToSet(p.head) = ToSet(pool[t].head) \cup ((chunks + 1 .. chunks + n) \X (1 .. GROW - 1))
  <2>1. (chunks + 1) + n - 1 = chunks + n
    BY <1>1, <1>3
  <2> QED
    BY <2>1 DEF RentedFrom
<1>5. /\ ToSet(pool[t].head) \subseteq All(FreeNodes)
      /\ ToSet(NodesIn(cb[k].funclist)) \subseteq All(InUse)
  <2>1. PICK f, h : f = InUse /\ h = FreeNodes
    OBVIOUS
  <2>2. /\ f \in [Cbs -> Seq(Node)] /\ h \in [Threads -> Seq(Node)]
        /\ f[k] = NodesIn(cb[k].funclist) /\ h[t] = pool[t].head
    BY <1>1, <2>1, HolderTypes DEF HoldersAre
  <2> QED
    BY <1>1, <2>1, <2>2 DEF All
<1>6. PICK old, oldFree : old = ToSet(NodesIn(cb[k].funclist)) /\ oldFree = ToSet(pool[t].head)
  OBVIOUS
<1>7. PICK C : C = chunks + 1 .. chunks + n
  OBVIOUS
<1>8. /\ ToSet(NodesIn(fl)) \subseteq old \cup (C \X {GROW})
      /\ ToSet(p.head) = oldFree \cup (C \X (1 .. GROW - 1))
  BY <1>1, <1>4, <1>6, <1>7 DEF Fresh
<1>9. /\ old \subseteq (1 .. chunks) \X (1 .. GROW)
      /\ oldFree \subseteq (1 .. chunks) \X (1 .. GROW)
      /\ old \cap oldFree = {}
  BY <1>5, <1>6 DEF NodesKept, OneHolder
<1>10. C \cap (1 .. chunks) = {} /\ GROW \notin 1 .. GROW - 1
  BY <1>1, <1>3, <1>7
<1>11. {GROW} \subseteq 1 .. GROW /\ 1 .. GROW - 1 \subseteq 1 .. GROW
  BY <1>3
<1>12. ToSet(p.head) \cap ToSet(NodesIn(fl)) = {}
  BY <1>8, <1>9, <1>10
<1>13. ToSet(p.head) \cup ToSet(NodesIn(fl)) \subseteq oldFree \cup old \cup (C \X (1 .. GROW))
  BY <1>8, <1>11
<1>14. Moves(t, p, k, fl)
  BY <1>1, <1>2 DEF Moves, NewList
<1> QED
  BY <1>1, <1>2, <1>6, <1>7, <1>12, <1>13, <1>14, NodesMoved

(* The same threads are initialised.                                       *)
LEMMA SameThreads ==
    ASSUME \A t \in Threads : pool'[t].init = pool[t].init, step' = step
    PROVE  Keeping' = Keeping /\ Taking' = Taking /\ Leaving' = Leaving
  BY DEF Keeping, Initialised, Taking, Leaving

(* The chunks after rents: the new ones are on the stack of the thread.    *)
LEMMA RentedChunks ==
    ASSUME NodeTypes, NodeTypes', ChunksKept, phase # "quit", NEW t \in Threads, NEW n \in Nat,
           NEW p, RentedFrom(pool[t], chunks + 1, n, p),
           pool' = [pool EXCEPT ![t] = p], chunks' = chunks + n, UNCHANGED <<queue, freed, phase>>
    PROVE  ChunksKept'
<1>1. PICK f, g : f = Stacks /\ g = Stacks'
  OBVIOUS
<1>2. /\ f \in [Threads -> Seq(Nat)] /\ g \in [Threads -> Seq(Nat)]
      /\ \A u \in Threads : f[u] = pool[u].stack /\ g[u] = pool'[u].stack
  BY <1>1, HolderTypes, HolderTypesNext DEF HoldersAre
<1>3. pool'[t] = p /\ \A u \in Threads : u # t => pool'[u] = pool[u]
  <2>1. pool \in [Threads -> Pool]
    BY DEF NodeTypes
  <2> QED
    BY <2>1
<1>4. DiffersAt(Threads, Nat, f, t, g) /\ g[t] = p.stack
  <2>1. g[t] = p.stack /\ \A u \in Threads : u # t => g[u] = f[u]
    <3>1. g[t] = p.stack
      BY <1>2, <1>3, Zenon
    <3>2. ASSUME NEW u \in Threads, u # t PROVE g[u] = f[u]
      BY <1>2, <1>3, <3>2, Zenon
    <3> QED
      BY <3>1, <3>2, Zenon
  <2>2. DiffersAt(Threads, Nat, f, t, g)
    BY <1>2, <2>1, Zenon DEF DiffersAt
  <2> QED
    BY <2>1, <2>2
<1>5. chunks \in Nat
  BY DEF NodeTypes
<1>6. IsInjective(p.stack) /\ ToSet(p.stack) = ToSet(f[t]) \cup (chunks + 1 .. chunks + n)
  <2>1. (chunks + 1) + n - 1 = chunks + n
    BY <1>5
  <2> QED
    BY <1>2, <2>1 DEF RentedFrom, PoolBefore
<1>7. /\ NoneTwice(queue) /\ NoneTwice(f) /\ NoneTwice(freed) /\ All(queue) \cap All(f) = {}
      /\ All(queue) \cup All(f) = 1 .. chunks /\ freed = <<>>
  BY <1>1 DEF ChunksKept
<1>8. ToSet(f[t]) \subseteq All(f)
  BY <1>2 DEF All
<1>9. (chunks + 1 .. chunks + n) \cap (1 .. chunks) = {}
  BY <1>5
<1>10. (All(f) \ ToSet(f[t])) \cap ToSet(p.stack) = {}
  BY <1>6, <1>7, <1>8, <1>9
<1>11. NoneTwice(g) /\ All(g) = (All(f) \ ToSet(f[t])) \cup ToSet(p.stack)
  <2>1. PICK s : s = p.stack
    OBVIOUS
  <2>2. IsInjective(s) /\ (All(f) \ ToSet(f[t])) \cap ToSet(s) = {} /\ g[t] = s
    BY <1>4, <1>6, <1>10, <2>1
  <2>3. NoneTwice(g) /\ All(g) = (All(f) \ ToSet(f[t])) \cup ToSet(s)
    BY <1>4, <1>7, <2>2, ReplacedSeq
  <2> QED
    BY <2>1, <2>3
<1>12. All(g) = All(f) \cup (chunks + 1 .. chunks + n)
  BY <1>6, <1>8, <1>11
<1>13. 1 .. chunks' = (1 .. chunks) \cup (chunks + 1 .. chunks + n)
  BY <1>5
<1>14. All(queue) \cap All(g) = {} /\ All(queue) \cup All(g) = 1 .. chunks'
  BY <1>7, <1>9, <1>12, <1>13
<1> QED
  BY <1>1, <1>7, <1>11, <1>14 DEF ChunksKept

-----------------------------------------------------------------------------
(* Steps of a thread on one of its callbacks.                              *)

(* What a step that changes no thread and no stack in the queue keeps.     *)
LEMMA ThreadsStay ==
    ASSUME CbInv, NodeTypes', owner' \in [Cbs -> Owners], UNCHANGED <<ringVars, freed, peak, phase>>,
           \A t \in Threads : /\ pool'[t].init = pool[t].init
                              /\ ~pool[t].init => pool'[t] = pool[t]
    PROVE  ThreadsEmpty' /\ StackTypes' /\ TypeOK' /\ StacksTakenOver'
<1>1. ThreadsEmpty /\ StackTypes /\ TypeOK /\ StacksTakenOver
  BY DEF CbInv, PoolsSound
<1>0. UNCHANGED <<queue, step, late>>
  BY DEF ringVars
<1>2. ThreadsEmpty'
  BY <1>0, <1>1 DEF ThreadsEmpty, Out
<1>3. StackTypes'
  BY <1>0, <1>1 DEF StackTypes
<1>4. ASSUME NEW t \in Threads PROVE DOMAIN pool'[t] = DOMAIN NoPool
  <2>1. pool'[t] \in Pool
    BY DEF NodeTypes
  <2> QED
    BY <2>1 DEF Pool, NoPool
<1>6. Keeping' = Keeping /\ Taking' = Taking /\ Leaving' = Leaving
  BY <1>0, SameThreads
<1>5. TypeOK'
  BY <1>0, <1>1, <1>4, <1>6 DEF TypeOK, Owners, enqueue_sem, dequeue_sem
<1>7. StacksTakenOver'
  BY <1>0, <1>1, <1>6 DEF StacksTakenOver
<1> QED
  BY <1>2, <1>3, <1>5, <1>7

(* A thread rents nodes for one of its callbacks.                          *)
LEMMA RentStep ==
    ASSUME CbInv, NEW t \in Threads, pool[t].init, NEW k, NEW n, NEW fl, GrowsBy(k, n, fl),
           NewList(k, fl), Rents(t, n), owner' \in [Cbs -> Owners]
    PROVE  CbInv'
<1>1. NodeTypes /\ NodesKept /\ ThreadsEmpty /\ ChunksKept
  BY DEF CbInv, PoolsSound
<1>2. phase # "quit"
  BY <1>1 DEF ThreadsEmpty, Out
<1>3. PICK p : p = RentAll(pool[t], chunks + 1, n)
  OBVIOUS
<1>4. n \in Nat
  BY DEF GrowsBy
<1>5. PoolBefore(pool[t], chunks + 1)
  BY <1>1, <1>2, PoolOfThread
<1>6. RentedFrom(pool[t], chunks + 1, n, p)
  <2>1. chunks + 1 \in Nat \ {0}
    BY <1>1 DEF NodeTypes
  <2>2. PICK c, q : c = chunks + 1 /\ q = pool[t]
    OBVIOUS
  <2>3. c \in Nat \ {0} /\ PoolBefore(q, c) /\ p = RentAll(q, c, n)
    BY <1>3, <1>5, <2>1, <2>2
  <2>4. RentedFrom(q, c, n, p)
    BY <1>4, <2>3, RentsAll
  <2> QED
    BY <2>2, <2>4
<1>7. /\ chunks' = chunks + n /\ pool' = [pool EXCEPT ![t] = p]
      /\ UNCHANGED <<ringVars, freed, peak, phase>>
  BY <1>3 DEF Rents
<1>8. NodeTypes' /\ NodesKept'
  BY <1>1, <1>6, <1>7, RentedNodes
<1>9. ChunksKept'
  <2>1. UNCHANGED queue
    BY <1>7 DEF ringVars
  <2> QED
    BY <1>1, <1>2, <1>4, <1>6, <1>7, <1>8, <2>1, RentedChunks
<1>10. p.init = pool[t].init
  BY <1>6 DEF RentedFrom
<1>11. ASSUME NEW u \in Threads
       PROVE  pool'[u].init = pool[u].init /\ (~pool[u].init => pool'[u] = pool[u])
  BY <1>1, <1>7, <1>10 DEF NodeTypes
<1>12. ThreadsEmpty' /\ StackTypes' /\ TypeOK' /\ StacksTakenOver'
  BY <1>7, <1>8, <1>11, ThreadsStay
<1> QED
  BY <1>8, <1>9, <1>12 DEF CbInv, PoolsSound

(* What a callback's list and the nodes that are returned are of.          *)
ShrinksTo(k, ns, fl) ==
    /\ k \in Cbs /\ ns \in Seq(Node) /\ fl \in Seq(Func)
    /\ IsInjective(ns) /\ IsInjective(NodesIn(fl)) /\ ToSet(ns) \cap ToSet(NodesIn(fl)) = {}
    /\ ToSet(ns) \cup ToSet(NodesIn(fl)) \subseteq ToSet(NodesIn(cb[k].funclist))

(* A thread returns nodes of one of its callbacks.                         *)
LEMMA ReturnStep ==
    ASSUME CbInv, NEW t \in Threads, pool[t].init, NEW k, NEW ns, NEW fl, ShrinksTo(k, ns, fl),
           NewList(k, fl), Returns(t, ns), owner' \in [Cbs -> Owners]
    PROVE  CbInv'
<1>1. NodeTypes /\ NodesKept /\ ThreadsEmpty /\ ChunksKept
  BY DEF CbInv, PoolsSound
<1>2. PICK a, h, p : a = pool[t].head /\ h = a \o ns /\ p = Returned(pool[t], ns)
  OBVIOUS
<1>3. pool[t] \in Pool /\ a \in Seq(Node) /\ chunks \in Nat
  BY <1>1, <1>2 DEF NodeTypes, Pool
<1>4. /\ k \in Cbs /\ ns \in Seq(Node) /\ fl \in Seq(Func)
      /\ IsInjective(ns) /\ IsInjective(NodesIn(fl)) /\ ToSet(ns) \cap ToSet(NodesIn(fl)) = {}
      /\ ToSet(ns) \cup ToSet(NodesIn(fl)) \subseteq ToSet(NodesIn(cb[k].funclist))
  BY DEF ShrinksTo
<1>5. /\ IsInjective(a) /\ ToSet(a) \subseteq All(FreeNodes)
      /\ ToSet(NodesIn(cb[k].funclist)) \subseteq All(InUse)
  <2>1. PICK f, w : f = InUse /\ w = FreeNodes
    OBVIOUS
  <2>2. /\ f \in [Cbs -> Seq(Node)] /\ w \in [Threads -> Seq(Node)]
        /\ f[k] = NodesIn(cb[k].funclist) /\ w[t] = a /\ NoneTwice(w)
    BY <1>1, <1>2, <1>4, <2>1, HolderTypes DEF HoldersAre, NodesKept, OneHolder
  <2>3. ToSet(f[k]) \subseteq All(f)
    BY <1>4, <2>2 DEF All
  <2>4. IsInjective(w[t]) /\ ToSet(w[t]) \subseteq All(w)
    BY <2>2, OneOfAll
  <2> QED
    BY <2>1, <2>2, <2>3, <2>4
<1>6. All(InUse) \cap All(FreeNodes) = {}
  BY <1>1 DEF NodesKept, OneHolder
<1>7. h \in Seq(Node) /\ IsInjective(h) /\ ToSet(h) = ToSet(a) \cup ToSet(ns)
  <2>1. Joins(Node, a, ns, h) /\ ToSet(a) \cap ToSet(ns) = {}
    BY <1>2, <1>3, <1>4, <1>5, <1>6 DEF Joins
  <2> QED
    BY <1>4, <1>5, <2>1, JoinedSeqs
<1>8. p \in Pool /\ p.head = h /\ p.stack = pool[t].stack /\ p.init = pool[t].init
  <2>1. p = [pool[t] EXCEPT !.head = h]
    BY <1>2 DEF Returned
  <2> QED
    BY <1>3, <1>7, <2>1 DEF Pool
<1>9. /\ chunks' = chunks /\ pool' = [pool EXCEPT ![t] = p]
      /\ UNCHANGED <<queue, ringVars, freed, peak, phase>>
  BY <1>2 DEF Returns, poolVars, ringVars
<1>10. Moves(t, p, k, fl)
  BY <1>4, <1>8, <1>9 DEF Moves, NewList
<1>11. ToSet(h) \cap ToSet(NodesIn(fl)) = {}
  BY <1>4, <1>5, <1>6, <1>7
<1>12. NodeTypes' /\ NodesKept'
  <2>1. chunks' = chunks + 0 /\ 0 \in Nat
    BY <1>3, <1>9
  <2>2. IsInjective(p.head) /\ ToSet(p.head) \cap ToSet(NodesIn(fl)) = {}
    BY <1>7, <1>8, <1>11
  <2>3. ToSet(p.head) \cup ToSet(NodesIn(fl))
          \subseteq ToSet(pool[t].head) \cup ToSet(NodesIn(cb[k].funclist))
                    \cup ((chunks + 1 .. chunks + 0) \X (1 .. GROW))
    BY <1>2, <1>4, <1>7, <1>8
  <2> QED
    BY <1>1, <1>4, <1>10, <2>1, <2>2, <2>3, NodesMoved
<1>13. Stacks' = Stacks
  BY <1>1, <1>8, <1>9 DEF Stacks, NodeTypes
<1>14. ChunksKept'
  BY <1>1, <1>9, <1>13 DEF ChunksKept
<1>15. ASSUME NEW u \in Threads
       PROVE  pool'[u].init = pool[u].init /\ (~pool[u].init => pool'[u] = pool[u])
  BY <1>1, <1>8, <1>9 DEF NodeTypes
<1>16. ThreadsEmpty' /\ StackTypes' /\ TypeOK' /\ StacksTakenOver'
  BY <1>9, <1>12, <1>15, ThreadsStay
<1> QED
  BY <1>12, <1>14, <1>16 DEF CbInv, PoolsSound

(* A callback changes hands, or nothing does.                              *)
LEMMA OwnerStep ==
    ASSUME CbInv, UNCHANGED <<pool, cb, poolVars>>, owner' \in [Cbs -> Owners]
    PROVE  CbInv'
<1>1. NodeTypes /\ NodesKept /\ ChunksKept
  BY DEF CbInv, PoolsSound
<1>2. UNCHANGED <<pool, cb, queue, ringVars, chunks, freed, peak, phase>>
  BY DEF poolVars, ringVars
<1>3. InUse' = InUse /\ FreeNodes' = FreeNodes /\ Stacks' = Stacks
  BY <1>2 DEF InUse, NodesOf, FreeNodes, Stacks
<1>4. NodeTypes'
  BY <1>1, <1>2 DEF NodeTypes
<1>5. NodesKept' /\ ChunksKept'
  BY <1>1, <1>2, <1>3 DEF NodesKept, OneHolder, ChunksKept
<1>6. ThreadsEmpty' /\ StackTypes' /\ TypeOK' /\ StacksTakenOver'
  BY <1>2, <1>4, ThreadsStay
<1> QED
  BY <1>4, <1>5, <1>6 DEF CbInv, PoolsSound

-----------------------------------------------------------------------------
(* Threads come and go.                                                    *)

(* How many threads there are of a kind is a number, and changes by one.   *)
LEMMA CountedThreads ==
    ASSUME NEW S, S \subseteq Threads
    PROVE  /\ IsFiniteSet(S) /\ Cardinality(S) \in Nat
           /\ \A t : t \notin S => Cardinality(S \cup {t}) = Cardinality(S) + 1
           /\ \A t \in S : Cardinality(S \ {t}) = Cardinality(S) - 1
<1>1. IsFiniteSet(S)
  BY CbAssumption, FS_Subset
<1>2. Cardinality(S) \in Nat
  BY <1>1, FS_CardinalityType
<1>3. ASSUME NEW t, t \notin S PROVE Cardinality(S \cup {t}) = Cardinality(S) + 1
  BY <1>1, <1>3, FS_AddElement
<1>4. ASSUME NEW t \in S PROVE Cardinality(S \ {t}) = Cardinality(S) - 1
  BY <1>1, <1>4, FS_RemoveElement
<1> QED
  BY <1>1, <1>2, <1>3, <1>4

(* The threads that have a stack and those that are leaving one.           *)
LEMMA ThreadSets ==
    ASSUME ThreadsEmpty
    PROVE  /\ Keeping \subseteq Threads /\ Taking \subseteq Threads /\ Leaving \subseteq Threads
           /\ Cardinality(Keeping) \in Nat /\ Cardinality(Taking) \in Nat
           /\ Cardinality(Leaving) \in Nat
           /\ Cardinality(Keeping \cup Leaving) = Cardinality(Keeping) + Cardinality(Leaving)
<1>1. Keeping \subseteq Threads /\ Taking \subseteq Threads /\ Leaving \subseteq Threads
  BY DEF Keeping, Initialised, Taking, Leaving
<1>2. Keeping \cap Leaving = {}
  BY DEF Keeping, Initialised, Taking, Leaving, ThreadsEmpty
<1>3. PICK K, L : K = Keeping /\ L = Leaving
  OBVIOUS
<1>4. IsFiniteSet(K) /\ IsFiniteSet(L) /\ Cardinality(K) \in Nat /\ Cardinality(L) \in Nat
  BY <1>1, <1>3, CountedThreads
<1>5. Cardinality(K \cup L) = Cardinality(K) + Cardinality(L) - Cardinality(K \cap L)
  BY <1>4, FS_Union
<1>6. Cardinality(K \cap L) = 0
  BY <1>2, <1>3, FS_EmptySet
<1>7. Cardinality(Taking) \in Nat
  BY <1>1, CountedThreads
<1> QED
  BY <1>1, <1>3, <1>4, <1>5, <1>6, <1>7

(* The larger of two numbers.                                              *)
LEMMA MaxOfTwo ==
    ASSUME NEW a \in Nat, NEW b \in Nat
    PROVE  (a >= b => Max({a, b}) = a) /\ (b >= a => Max({a, b}) = b)
  BY DEF Max

(* The nodes while the free nodes of t are none before and after, or are   *)
(* given up, and no callback changes.                                      *)
LEMMA ThreadNodes ==
    ASSUME NodeTypes, NodesKept, NEW t \in Threads, NEW p \in Pool, p.head = <<>>,
           pool' = [pool EXCEPT ![t] = p], UNCHANGED <<cb, chunks>>
    PROVE  NodeTypes' /\ NodesKept'
<1>1. chunks' \in Nat /\ pool \in [Threads -> Pool] /\ pool' \in [Threads -> Pool]
  BY DEF NodeTypes
<1>2. pool'[t] = p /\ \A u \in Threads : u # t => pool'[u] = pool[u]
  BY <1>1
<1>3. NodeTypes'
  BY <1>1 DEF NodeTypes
<1>4. InUse' = InUse
  BY DEF InUse, NodesOf
<1>5. PICK f, g : f = FreeNodes /\ g = FreeNodes'
  OBVIOUS
<1>6. /\ f \in [Threads -> Seq(Node)] /\ g \in [Threads -> Seq(Node)]
      /\ \A u \in Threads : f[u] = pool[u].head /\ g[u] = pool'[u].head
  BY <1>3, <1>5, HolderTypes, HolderTypesNext DEF HoldersAre
<1>7. DiffersAt(Threads, Node, f, t, g) /\ g[t] = Nothing
  BY <1>2, <1>6 DEF DiffersAt, Nothing
<1>8. /\ NoneTwice(InUse) /\ NoneTwice(f) /\ All(InUse) \cap All(f) = {}
      /\ All(InUse) \cup All(f) \subseteq (1 .. chunks) \X (1 .. GROW)
  BY <1>5 DEF NodesKept, OneHolder
<1>9. IsInjective(Nothing) /\ ToSet(Nothing) = {}
  BY NothingSeq
<1>10. NoneTwice(g) /\ All(g) = (All(f) \ ToSet(f[t])) \cup ToSet(Nothing)
  <2>1. (All(f) \ ToSet(f[t])) \cap ToSet(Nothing) = {}
    BY <1>9
  <2>2. PICK s : s = Nothing
    OBVIOUS
  <2>3. NoneTwice(g) /\ All(g) = (All(f) \ ToSet(f[t])) \cup ToSet(s)
    BY <1>7, <1>8, <1>9, <2>1, <2>2, ReplacedSeq
  <2> QED
    BY <2>2, <2>3
<1>11. All(g) \subseteq All(f)
  BY <1>9, <1>10
<1>12. NodesKept'
  BY <1>4, <1>5, <1>8, <1>10, <1>11 DEF NodesKept, OneHolder
<1> QED
  BY <1>3, <1>12

(* A thread that has nothing has the stack st from the queue, or a new one. *)
LEMMA StackGained ==
    ASSUME CbInv, NEW t \in Threads, phase = "up", Out(t), NEW st \in Seq(Nat), NEW p \in Pool,
           p.head = <<>>, p.stack = st, pool' = [pool EXCEPT ![t] = p],
           IsInjective(st), ToSet(st) \subseteq All(queue),
           NoneTwice(queue'), All(queue') = All(queue) \ ToSet(st),
           UNCHANGED <<chunks, freed, cb, phase>>
    PROVE  NodeTypes' /\ NodesKept' /\ ChunksKept'
<1>1. NodeTypes /\ NodesKept /\ ThreadsEmpty /\ ChunksKept
  BY DEF CbInv, PoolsSound
<1>2. NodeTypes' /\ NodesKept'
  BY <1>1, ThreadNodes
<1>3. pool'[t] = p /\ \A u \in Threads : u # t => pool'[u] = pool[u]
  BY <1>1 DEF NodeTypes
<1>4. PICK f, g : f = Stacks /\ g = Stacks'
  OBVIOUS
<1>5. /\ f \in [Threads -> Seq(Nat)] /\ g \in [Threads -> Seq(Nat)]
      /\ \A u \in Threads : f[u] = pool[u].stack /\ g[u] = pool'[u].stack
  BY <1>1, <1>2, <1>4, HolderTypes, HolderTypesNext DEF HoldersAre
<1>6. DiffersAt(Threads, Nat, f, t, g) /\ g[t] = st
  BY <1>3, <1>5 DEF DiffersAt
<1>7. f[t] = Nothing
  BY <1>1, <1>5 DEF ThreadsEmpty, Nothing, Out
<1>8. ToSet(f[t]) = {}
  BY <1>7, NothingSeq
<1>9. /\ NoneTwice(queue) /\ NoneTwice(f) /\ NoneTwice(freed) /\ All(queue) \cap All(f) = {}
      /\ All(queue) \cup All(f) = 1 .. chunks /\ freed = <<>>
  BY <1>1, <1>4 DEF ChunksKept
<1>10. (All(f) \ ToSet(f[t])) \cap ToSet(st) = {}
  BY <1>9
<1>11. NoneTwice(g) /\ All(g) = (All(f) \ ToSet(f[t])) \cup ToSet(st)
  BY <1>6, <1>9, <1>10, ReplacedSeq
<1>12. All(g) = All(f) \cup ToSet(st)
  BY <1>8, <1>11
<1>13. All(queue') \cap All(g) = {} /\ All(queue') \cup All(g) = 1 .. chunks
  BY <1>9, <1>12
<1>14. ChunksKept'
  BY <1>4, <1>9, <1>11, <1>13 DEF ChunksKept
<1> QED
  BY <1>2, <1>14

(* The types of the pools after a step that keeps the others.              *)
LEMMA TypesKept ==
    ASSUME NodeTypes', owner' = owner, phase' \in {"up", "exiting", "quit"}, TypeOK,
           step' \in [Threads -> {"idle", "taking", "leaving"}], late' \in [Threads -> Nat],
           enqueue_sem' >= 0, dequeue_sem' >= 0
    PROVE  TypeOK'
<1>1. ASSUME NEW u \in Threads PROVE DOMAIN pool'[u] = DOMAIN NoPool
  <2>1. pool'[u] \in Pool
    BY DEF NodeTypes
  <2> QED
    BY <2>1 DEF Pool, NoPool
<1> QED
  BY <1>1 DEF TypeOK

(* A thread starts and nothing was posted: its stack is a new one, and     *)
(* those in the queue are of threads that are still leaving.               *)
LEMMA NewStackStep ==
    ASSUME CbInv, NEW t \in Threads, ThrdInit(t), NewStack(t)
    PROVE  CbInv'
<1>1. /\ NodeTypes /\ NodesKept /\ ThreadsEmpty /\ StackTypes
      /\ TypeOK /\ ChunksKept /\ StacksTakenOver
  BY DEF CbInv, PoolsSound
<1>2. /\ phase = "up" /\ Out(t)
      /\ peak' = Max({peak, Cardinality(Keeping \cup Leaving) + 1})
      /\ UNCHANGED <<chunks, freed, cb, owner, phase>>
  BY DEF ThrdInit
<1>3. /\ dequeue_sem = 0 /\ pool' = [pool EXCEPT ![t].init = TRUE]
      /\ UNCHANGED <<queue, writer, step, late, race>>
  BY DEF NewStack, ringVars
<1>4. PICK p : p = [pool[t] EXCEPT !.init = TRUE]
  OBVIOUS
<1>5. pool[t] \in Pool /\ pool[t].head = <<>> /\ pool[t].stack = <<>> /\ step[t] = "idle"
  BY <1>1, <1>2 DEF NodeTypes, ThreadsEmpty, Out
<1>6. p \in Pool /\ p.head = <<>> /\ p.stack = Nothing /\ p.init = TRUE
  BY <1>4, <1>5 DEF Pool, Nothing
<1>7. pool' = [pool EXCEPT ![t] = p]
  BY <1>3, <1>4
<1>8. Nothing \in Seq(Nat) /\ IsInjective(Nothing) /\ ToSet(Nothing) = {}
  BY NothingSeq
<1>9. NoneTwice(queue) /\ NoneTwice(queue')
  BY <1>1, <1>3 DEF ChunksKept
<1>10. NodeTypes' /\ NodesKept' /\ ChunksKept'
  <2>1. ToSet(Nothing) \subseteq All(queue) /\ All(queue') = All(queue) \ ToSet(Nothing)
    BY <1>3, <1>8
  <2> QED
    BY <1>2, <1>6, <1>7, <1>8, <1>9, <2>1, StackGained
<1>11. pool'[t] = p /\ \A u \in Threads : u # t => pool'[u] = pool[u]
  BY <1>1, <1>7 DEF NodeTypes
<1>12. ThreadsEmpty'
  BY <1>1, <1>2, <1>3, <1>5, <1>6, <1>11 DEF ThreadsEmpty
<1>13. /\ Keeping' = Keeping \cup {t} /\ t \notin Keeping /\ Taking' = Taking /\ Leaving' = Leaving
  BY <1>2, <1>3, <1>6, <1>11 DEF Keeping, Initialised, Taking, Leaving, Out
<1>14. TypeOK'
  <2>1. enqueue_sem' >= 0 /\ dequeue_sem' >= 0
    BY <1>1, <1>3, <1>13 DEF TypeOK, enqueue_sem, dequeue_sem
  <2> QED
    BY <1>1, <1>2, <1>3, <1>10, <2>1, TypesKept DEF TypeOK
<1>15. peak' \in Nat /\ Len(queue') + Cardinality(Keeping') = peak'
  <2>1. PICK n, l, m : n = Cardinality(Keeping) /\ l = Cardinality(Leaving) /\ m = Len(queue)
    OBVIOUS
  <2>2. n \in Nat /\ l \in Nat /\ Cardinality(Keeping \cup Leaving) = n + l
    BY <1>1, <2>1, ThreadSets
  <2>3. Cardinality(Keeping') = n + 1
    BY <1>1, <1>13, <2>1, ThreadSets, CountedThreads
  <2>4. m \in Nat /\ m = l /\ peak \in Nat /\ m + n = peak
    BY <1>1, <1>2, <1>3, <2>1, <2>2 DEF StackTypes, StacksTakenOver, dequeue_sem
  <2>5. peak' = (n + l) + 1
    BY <1>2, <2>2, <2>4, MaxOfTwo
  <2> QED
    BY <1>3, <2>1, <2>2, <2>3, <2>4, <2>5
<1>16. StackTypes' /\ StacksTakenOver'
  BY <1>1, <1>2, <1>3, <1>15 DEF StackTypes, StacksTakenOver
<1> QED
  BY <1>10, <1>12, <1>14, <1>16 DEF CbInv, PoolsSound

(* A thread starts and takes over a stack that was left.                   *)
LEMMA DrawStackStep ==
    ASSUME CbInv, NEW t \in Threads, ThrdInit(t), DrawStack(t)
    PROVE  CbInv'
<1>1. /\ NodeTypes /\ NodesKept /\ ThreadsEmpty /\ StackTypes
      /\ TypeOK /\ ChunksKept /\ StacksTakenOver
  BY DEF CbInv, PoolsSound
<1>2. /\ phase = "up" /\ Out(t)
      /\ peak' = Max({peak, Cardinality(Keeping \cup Leaving) + 1})
      /\ UNCHANGED <<chunks, freed, cb, owner, phase>>
  BY DEF ThrdInit
<1>3. /\ dequeue_sem > 0 /\ pool' = [pool EXCEPT ![t].stack = Head(queue)]
      /\ queue' = Tail(queue)
      /\ step' = [step EXCEPT ![t] = "taking"]
      /\ late' = [x \in Threads |-> IF x \in Taking THEN late[x] + 1 ELSE 0]
  BY DEF DrawStack
<1>4. PICK q, r, st, p : /\ q = queue /\ r = queue' /\ st = Head(queue)
                         /\ p = [pool[t] EXCEPT !.stack = st]
  OBVIOUS
<1>5. PICK n, l, k, m : /\ n = Cardinality(Keeping) /\ l = Cardinality(Leaving)
                        /\ k = Cardinality(Taking) /\ m = Len(queue)
  OBVIOUS
<1>6. n \in Nat /\ l \in Nat /\ k \in Nat /\ Cardinality(Keeping \cup Leaving) = n + l
  BY <1>1, <1>5, ThreadSets
<1>7. q \in Seq(Seq(Nat)) /\ NoneTwice(q) /\ m \in Nat /\ m - l > 0 /\ peak \in Nat /\ m + n = peak
  BY <1>1, <1>2, <1>3, <1>4, <1>5 DEF StackTypes, ChunksKept, StacksTakenOver, dequeue_sem
<1>8. q # <<>> /\ Len(r) = m - 1
  BY <1>3, <1>4, <1>5, <1>6, <1>7
<1>9. /\ r \in Seq(Seq(Nat)) /\ NoneTwice(r) /\ All(r) = All(q) \ ToSet(st)
      /\ st \in Seq(Nat) /\ IsInjective(st) /\ ToSet(st) \subseteq All(q)
  <2>1. r = Tail(q) /\ st = Head(q)
    BY <1>3, <1>4
  <2> QED
    BY <1>7, <1>8, <2>1, TakenStack
<1>10. pool[t] \in Pool /\ pool[t].head = <<>> /\ ~pool[t].init /\ step[t] = "idle"
  BY <1>1, <1>2 DEF NodeTypes, ThreadsEmpty, Out
<1>11. p \in Pool /\ p.head = <<>> /\ p.stack = st /\ ~p.init
  BY <1>4, <1>9, <1>10 DEF Pool
<1>12. pool' = [pool EXCEPT ![t] = p]
  BY <1>3, <1>4
<1>13. NodeTypes' /\ NodesKept' /\ ChunksKept'
  BY <1>2, <1>4, <1>9, <1>11, <1>12, StackGained
<1>14. /\ pool'[t] = p /\ step'[t] = "taking"
       /\ \A u \in Threads : u # t => pool'[u] = pool[u] /\ step'[u] = step[u]
       /\ step' \in [Threads -> {"idle", "taking", "leaving"}]
  BY <1>1, <1>3, <1>12 DEF NodeTypes, TypeOK
<1>15. ThreadsEmpty'
  BY <1>1, <1>2, <1>11, <1>14 DEF ThreadsEmpty
<1>16. /\ Keeping' = Keeping \cup {t} /\ t \notin Keeping
       /\ Taking' = Taking \cup {t} /\ t \notin Taking /\ Leaving' = Leaving
  BY <1>10, <1>11, <1>14 DEF Keeping, Initialised, Taking, Leaving
<1>17. Cardinality(Keeping') = n + 1 /\ Cardinality(Taking') = k + 1
  <2>1. Keeping \subseteq Threads /\ Taking \subseteq Threads
    BY <1>1, ThreadSets
  <2> QED
    BY <1>5, <1>16, <2>1, CountedThreads
<1>18. TypeOK'
  <2>1. QUEUE - m - k >= 0 /\ QUEUE \in Nat
    BY <1>1, <1>5, CbAssumption DEF TypeOK, enqueue_sem
  <2>2. enqueue_sem' >= 0 /\ dequeue_sem' >= 0
    <3>1. QUEUE - (m - 1) - (k + 1) >= 0 /\ (m - 1) - l >= 0
      BY <1>6, <1>7, <2>1
    <3>2. Len(queue') = m - 1 /\ Cardinality(Leaving') = l
      BY <1>4, <1>5, <1>8, <1>16
    <3> QED
      BY <1>17, <3>1, <3>2 DEF enqueue_sem, dequeue_sem
  <2>3. late' \in [Threads -> Nat]
    BY <1>1, <1>3 DEF TypeOK
  <2>4. phase' \in {"up", "exiting", "quit"} /\ owner' = owner
    BY <1>2
  <2> QED
    BY <1>1, <1>13, <1>14, <2>2, <2>3, <2>4, TypesKept
<1>19. peak' = peak
  <2>1. n + l + 1 \in Nat /\ peak >= n + l + 1
    BY <1>6, <1>7
  <2> QED
    BY <1>2, <1>6, <1>7, <2>1, MaxOfTwo
<1>20. StackTypes' /\ StacksTakenOver'
  BY <1>1, <1>2, <1>4, <1>6, <1>7, <1>8, <1>9, <1>17, <1>19 DEF StackTypes, StacksTakenOver
<1> QED
  BY <1>13, <1>15, <1>18, <1>20 DEF CbInv, PoolsSound

(* A thread has read the stack it takes over.                              *)
LEMMA TakenStep ==
    ASSUME CbInv, NEW t \in Threads, Taken(t)
    PROVE  CbInv'
<1>1. /\ NodeTypes /\ NodesKept /\ ThreadsEmpty /\ StackTypes
      /\ TypeOK /\ ChunksKept /\ StacksTakenOver
  BY DEF CbInv, PoolsSound
<1>2. /\ step[t] = "taking" /\ step' = [step EXCEPT ![t] = "idle"]
      /\ late' = [late EXCEPT ![t] = 0] /\ pool' = [pool EXCEPT ![t].init = TRUE]
      /\ UNCHANGED <<queue, chunks, freed, cb, owner, peak, phase>>
  BY DEF Taken
<1>3. PICK p : p = [pool[t] EXCEPT !.init = TRUE]
  OBVIOUS
<1>4. pool[t] \in Pool /\ ~pool[t].init /\ pool[t].head = <<>>
  BY <1>1, <1>2 DEF NodeTypes, ThreadsEmpty
<1>5. p \in Pool /\ p.head = <<>> /\ p.stack = pool[t].stack /\ p.init = TRUE
  BY <1>3, <1>4 DEF Pool
<1>6. pool' = [pool EXCEPT ![t] = p]
  BY <1>2, <1>3
<1>7. NodeTypes' /\ NodesKept'
  BY <1>1, <1>2, <1>5, <1>6, ThreadNodes
<1>8. /\ pool'[t] = p /\ step'[t] = "idle"
      /\ \A u \in Threads : u # t => pool'[u] = pool[u] /\ step'[u] = step[u]
      /\ step' \in [Threads -> {"idle", "taking", "leaving"}] /\ late' \in [Threads -> Nat]
  BY <1>1, <1>2, <1>6 DEF NodeTypes, TypeOK
<1>9. phase # "quit"
  BY <1>1, <1>2 DEF ThreadsEmpty, Out
<1>10. ThreadsEmpty'
  BY <1>1, <1>2, <1>5, <1>8, <1>9 DEF ThreadsEmpty
<1>11. Stacks' = Stacks
  BY <1>5, <1>8, Zenon DEF Stacks
<1>12. ChunksKept'
  BY <1>1, <1>2, <1>11 DEF ChunksKept
<1>13. Keeping' = Keeping /\ Taking' = Taking \ {t} /\ t \in Taking /\ Leaving' = Leaving
  BY <1>2, <1>5, <1>8 DEF Keeping, Initialised, Taking, Leaving
<1>14. PICK k, m : k = Cardinality(Taking) /\ m = Len(queue)
  OBVIOUS
<1>15. k \in Nat /\ Cardinality(Taking') = k - 1
  BY <1>1, <1>13, <1>14, ThreadSets, CountedThreads
<1>16. TypeOK'
  <2>1. QUEUE - m - k >= 0 /\ QUEUE \in Nat /\ m \in Nat /\ dequeue_sem >= 0
    BY <1>1, <1>14, CbAssumption DEF TypeOK, enqueue_sem, StackTypes
  <2>2. enqueue_sem' >= 0 /\ dequeue_sem' >= 0
    BY <1>2, <1>13, <1>14, <1>15, <2>1 DEF enqueue_sem, dequeue_sem
  <2>3. phase' \in {"up", "exiting", "quit"} /\ owner' = owner
    BY <1>1, <1>2 DEF TypeOK
  <2> QED
    BY <1>1, <1>7, <1>8, <2>2, <2>3, TypesKept
<1>17. StackTypes' /\ StacksTakenOver'
  BY <1>1, <1>2, <1>13 DEF StackTypes, StacksTakenOver
<1> QED
  BY <1>7, <1>10, <1>12, <1>16, <1>17 DEF CbInv, PoolsSound

(* A thread quits: its stack is in the queue.                              *)
LEMMA LeaveStep ==
    ASSUME CbInv, NEW t \in Threads, Leave(t)
    PROVE  CbInv'
<1>1. /\ NodeTypes /\ NodesKept /\ ThreadsEmpty /\ StackTypes
      /\ TypeOK /\ ChunksKept /\ StacksTakenOver
  BY DEF CbInv, PoolsSound
<1>2. PICK st, p : st = pool[t].stack /\ p = NoPool
  OBVIOUS
<1>3. /\ pool[t].init /\ enqueue_sem > 0 /\ queue' = Append(queue, st)
      /\ pool' = [pool EXCEPT ![t] = p] /\ step' = [step EXCEPT ![t] = "leaving"]
      /\ UNCHANGED <<late, chunks, freed, cb, owner, peak, phase>>
  BY <1>2 DEF Leave, Enqueue
<1>4. phase # "quit"
  BY <1>1, <1>3 DEF ThreadsEmpty, Out
<1>5. /\ queue \in Seq(Seq(Nat)) /\ NoneTwice(queue) /\ peak \in Nat
      /\ Len(queue) + Cardinality(Keeping) = peak /\ Len(queue) \in Nat
  BY <1>1, <1>4 DEF StackTypes, ChunksKept, StacksTakenOver
<1>6. Nothing \in Seq(Nat) /\ IsInjective(Nothing) /\ ToSet(Nothing) = {}
  BY NothingSeq
<1>7. p \in Pool /\ p.head = <<>> /\ p.stack = Nothing /\ p.init = FALSE
  <2>1. <<>> \in Seq(Node) /\ <<>> \in Seq(Nat)
    OBVIOUS
  <2> QED
    BY <1>2, <2>1 DEF NoPool, Pool, Nothing
<1>8. NodeTypes' /\ NodesKept'
  BY <1>1, <1>3, <1>7, ThreadNodes
<1>9. /\ pool \in [Threads -> Pool] /\ pool'[t] = p /\ step'[t] = "leaving"
      /\ \A u \in Threads : u # t => pool'[u] = pool[u] /\ step'[u] = step[u]
      /\ step' \in [Threads -> {"idle", "taking", "leaving"}]
  BY <1>1, <1>3 DEF NodeTypes, TypeOK
<1>10. ThreadsEmpty'
  BY <1>1, <1>3, <1>4, <1>7, <1>9 DEF ThreadsEmpty, Nothing
<1>11. PICK f, g : f = Stacks /\ g = Stacks'
  OBVIOUS
<1>12. /\ f \in [Threads -> Seq(Nat)] /\ g \in [Threads -> Seq(Nat)]
       /\ \A u \in Threads : f[u] = pool[u].stack /\ g[u] = pool'[u].stack
  BY <1>1, <1>8, <1>11, HolderTypes, HolderTypesNext DEF HoldersAre
<1>13. DiffersAt(Threads, Nat, f, t, g) /\ g[t] = Nothing /\ f[t] = st
  BY <1>2, <1>7, <1>9, <1>12 DEF DiffersAt
<1>14. /\ NoneTwice(f) /\ NoneTwice(freed) /\ All(queue) \cap All(f) = {}
       /\ All(queue) \cup All(f) = 1 .. chunks /\ freed = <<>>
  BY <1>1, <1>4, <1>11 DEF ChunksKept
<1>15. st \in Seq(Nat) /\ IsInjective(st) /\ ToSet(st) \subseteq All(f)
  BY <1>12, <1>13, <1>14, OneOfAll
<1>16. /\ queue' \in Seq(Seq(Nat)) /\ Len(queue') = Len(queue) + 1 /\ NoneTwice(queue')
       /\ All(queue') = All(queue) \cup ToSet(st)
  <2>1. PICK q, r : q = queue /\ r = queue'
    OBVIOUS
  <2>2. /\ q \in Seq(Seq(Nat)) /\ NoneTwice(q) /\ ToSet(st) \cap All(q) = {} /\ Puts(q, st, r)
    BY <1>3, <1>5, <1>14, <1>15, <2>1 DEF Puts
  <2>3. /\ r \in Seq(Seq(Nat)) /\ Len(r) = Len(q) + 1 /\ NoneTwice(r)
        /\ All(r) = All(q) \cup ToSet(st)
    BY <1>15, <2>2, PutStack
  <2> QED
    BY <2>1, <2>3
<1>17. NoneTwice(g) /\ All(g) = All(f) \ ToSet(st)
  <2>1. PICK s : s = Nothing
    OBVIOUS
  <2>2. IsInjective(s) /\ (All(f) \ ToSet(f[t])) \cap ToSet(s) = {} /\ g[t] = s /\ ToSet(s) = {}
    BY <1>6, <1>13, <2>1
  <2>3. NoneTwice(g) /\ All(g) = (All(f) \ ToSet(f[t])) \cup ToSet(s)
    BY <1>13, <1>14, <2>2, ReplacedSeq
  <2> QED
    BY <1>13, <2>2, <2>3
<1>18. All(queue') \cap All(g) = {} /\ All(queue') \cup All(g) = 1 .. chunks
  BY <1>14, <1>15, <1>16, <1>17
<1>19. ChunksKept'
  BY <1>3, <1>4, <1>11, <1>14, <1>16, <1>17, <1>18 DEF ChunksKept
<1>20. /\ Keeping' = Keeping \ {t} /\ t \in Keeping
       /\ Leaving' = Leaving \cup {t} /\ t \notin Leaving /\ Taking' = Taking
  <2>1. step[t] = "idle"
    BY <1>1, <1>3 DEF ThreadsEmpty
  <2> QED
    BY <1>3, <1>7, <1>9, <2>1 DEF Keeping, Initialised, Taking, Leaving
<1>21. PICK n, l, k, m : /\ n = Cardinality(Keeping) /\ l = Cardinality(Leaving)
                         /\ k = Cardinality(Taking) /\ m = Len(queue)
  OBVIOUS
<1>22. /\ n \in Nat /\ l \in Nat /\ k \in Nat /\ m \in Nat /\ Len(queue') = m + 1
       /\ Cardinality(Keeping') = n - 1 /\ Cardinality(Leaving') = l + 1
  <2>1. Keeping \subseteq Threads /\ Leaving \subseteq Threads
    BY <1>1, ThreadSets
  <2> QED
    BY <1>1, <1>5, <1>16, <1>20, <1>21, <2>1, ThreadSets, CountedThreads
<1>23. TypeOK'
  <2>1. QUEUE - m - k > 0 /\ QUEUE \in Nat /\ m - l >= 0
    BY <1>1, <1>3, <1>21, CbAssumption DEF TypeOK, enqueue_sem, dequeue_sem
  <2>2. enqueue_sem' >= 0 /\ dequeue_sem' >= 0
    BY <1>20, <1>21, <1>22, <2>1 DEF enqueue_sem, dequeue_sem
  <2>3. phase' \in {"up", "exiting", "quit"} /\ owner' = owner /\ late' \in [Threads -> Nat]
    BY <1>1, <1>3 DEF TypeOK
  <2> QED
    BY <1>1, <1>8, <1>9, <2>2, <2>3, TypesKept
<1>24. StackTypes' /\ StacksTakenOver'
  BY <1>1, <1>3, <1>4, <1>5, <1>16, <1>21, <1>22 DEF StackTypes, StacksTakenOver
<1> QED
  BY <1>8, <1>10, <1>19, <1>23, <1>24 DEF CbInv, PoolsSound

(* The stack a thread left is posted.                                      *)
LEMMA LeftStep ==
    ASSUME CbInv, NEW t \in Threads, Left(t)
    PROVE  CbInv'
<1>1. /\ NodeTypes /\ NodesKept /\ ThreadsEmpty /\ StackTypes
      /\ TypeOK /\ ChunksKept /\ StacksTakenOver
  BY DEF CbInv, PoolsSound
<1>2. /\ step[t] = "leaving" /\ step' = [step EXCEPT ![t] = "idle"]
      /\ UNCHANGED <<queue, late, pool, chunks, freed, cb, owner, peak, phase>>
  BY DEF Left
<1>3. /\ step'[t] = "idle" /\ \A u \in Threads : u # t => step'[u] = step[u]
      /\ step' \in [Threads -> {"idle", "taking", "leaving"}]
  BY <1>1, <1>2 DEF TypeOK
<1>4. InUse' = InUse /\ FreeNodes' = FreeNodes /\ Stacks' = Stacks
  BY <1>2 DEF InUse, NodesOf, FreeNodes, Stacks
<1>5. NodeTypes' /\ NodesKept' /\ ChunksKept'
  BY <1>1, <1>2, <1>4 DEF NodeTypes, NodesKept, OneHolder, ChunksKept
<1>6. ThreadsEmpty'
  BY <1>1, <1>2, <1>3 DEF ThreadsEmpty, Out
<1>7. Keeping' = Keeping /\ Taking' = Taking /\ Leaving' = Leaving \ {t} /\ t \in Leaving
  BY <1>2, <1>3 DEF Keeping, Initialised, Taking, Leaving
<1>8. PICK l : l = Cardinality(Leaving)
  OBVIOUS
<1>9. l \in Nat /\ Cardinality(Leaving') = l - 1
  BY <1>1, <1>7, <1>8, ThreadSets, CountedThreads
<1>10. TypeOK'
  <2>1. Len(queue) - l >= 0 /\ Len(queue) \in Nat /\ enqueue_sem >= 0
    BY <1>1, <1>8 DEF TypeOK, dequeue_sem, StackTypes
  <2>2. enqueue_sem' >= 0 /\ dequeue_sem' >= 0
    BY <1>2, <1>7, <1>9, <2>1 DEF enqueue_sem, dequeue_sem
  <2>3. phase' \in {"up", "exiting", "quit"} /\ owner' = owner /\ late' \in [Threads -> Nat]
    BY <1>1, <1>2 DEF TypeOK
  <2> QED
    BY <1>1, <1>3, <1>5, <2>2, <2>3, TypesKept
<1>11. StackTypes' /\ StacksTakenOver'
  BY <1>1, <1>2, <1>7 DEF StackTypes, StacksTakenOver
<1> QED
  BY <1>5, <1>6, <1>10, <1>11 DEF CbInv, PoolsSound

(* exit() begins.                                                          *)
LEMMA ExitStep ==
    ASSUME CbInv, Exit
    PROVE  CbInv'
<1>1. /\ NodeTypes /\ NodesKept /\ ThreadsEmpty /\ StackTypes
      /\ TypeOK /\ ChunksKept /\ StacksTakenOver
  BY DEF CbInv, PoolsSound
<1>2. /\ phase = "up" /\ phase' = "exiting"
      /\ UNCHANGED <<queue, step, late, pool, chunks, freed, cb, owner, peak>>
  BY DEF Exit, ringVars
<1>3. /\ InUse' = InUse /\ FreeNodes' = FreeNodes /\ Stacks' = Stacks
      /\ Keeping' = Keeping /\ Taking' = Taking /\ Leaving' = Leaving
  BY <1>2 DEF InUse, NodesOf, FreeNodes, Stacks, Keeping, Initialised, Taking, Leaving
<1>4. NodeTypes' /\ NodesKept'
  BY <1>1, <1>2, <1>3 DEF NodeTypes, NodesKept, OneHolder
<1>5. ChunksKept' /\ StacksTakenOver'
  BY <1>1, <1>2, <1>3 DEF ChunksKept, StacksTakenOver
<1>6. ThreadsEmpty' /\ StackTypes'
  BY <1>1, <1>2 DEF ThreadsEmpty, StackTypes, Out
<1>7. TypeOK'
  BY <1>1, <1>2, <1>3 DEF TypeOK, enqueue_sem, dequeue_sem
<1> QED
  BY <1>4, <1>5, <1>6, <1>7 DEF CbInv, PoolsSound

(* exit() ends: every chunk was in the queue, and is freed once.           *)
LEMMA LinkpoolQuitStep ==
    ASSUME CbInv, LinkpoolQuit
    PROVE  CbInv'
<1>1. /\ NodeTypes /\ NodesKept /\ ThreadsEmpty /\ StackTypes
      /\ TypeOK /\ ChunksKept /\ StacksTakenOver
  BY DEF CbInv, PoolsSound
<1>2. /\ phase = "exiting" /\ \A t \in Threads : Out(t)
      /\ freed' = freed \o queue /\ queue' = <<>> /\ phase' = "quit"
      /\ UNCHANGED <<step, late, pool, chunks, cb, owner, peak>>
  BY DEF LinkpoolQuit
<1>3. /\ InUse' = InUse /\ FreeNodes' = FreeNodes /\ Stacks' = Stacks
      /\ Keeping' = Keeping /\ Taking' = Taking /\ Leaving' = Leaving
  BY <1>2 DEF InUse, NodesOf, FreeNodes, Stacks, Keeping, Initialised, Taking, Leaving
<1>4. NodeTypes' /\ NodesKept'
  BY <1>1, <1>2, <1>3 DEF NodeTypes, NodesKept, OneHolder
<1>5. /\ NoneTwice(queue) /\ NoneTwice(Stacks) /\ All(queue) \cup All(Stacks) = 1 .. chunks
      /\ freed = <<>> /\ queue \in Seq(Seq(Nat))
  BY <1>1, <1>2 DEF ChunksKept, StackTypes
<1>6. freed' = queue
  BY <1>2, <1>5
<1>7. All(Stacks) = {}
  <2>1. PICK f : f = Stacks
    OBVIOUS
  <2>2. /\ f \in [Threads -> Seq(Nat)]
        /\ \A t \in Threads : f[t] = Nothing
    BY <1>1, <1>2, <2>1, HolderTypes DEF HoldersAre, ThreadsEmpty, Nothing, Out
  <2>3. \A t \in Threads : ToSet(f[t]) = {}
    BY <2>2, NothingSeq
  <2> QED
    BY <2>1, <2>2, <2>3 DEF All
<1>8. queue' = Nothing /\ NoneTwice(Nothing) /\ All(Nothing) = {}
  BY <1>2, NothingSeq DEF Nothing
<1>9. ChunksKept'
  BY <1>2, <1>3, <1>5, <1>6, <1>7, <1>8 DEF ChunksKept
<1>10. /\ Keeping = {} /\ Taking = {} /\ Leaving = {}
       /\ Cardinality(Keeping) = 0 /\ Cardinality(Taking) = 0 /\ Cardinality(Leaving) = 0
  <2>1. Keeping = {} /\ Taking = {} /\ Leaving = {}
    BY <1>2 DEF Keeping, Initialised, Taking, Leaving, Out
  <2> QED
    BY <2>1, FS_EmptySet
<1>11. StacksTakenOver' /\ TypeOK'
  <2>1. Len(queue') = 0 /\ QUEUE \in Nat
    BY <1>2, CbAssumption
  <2> QED
    BY <1>1, <1>2, <1>3, <1>10, <2>1 DEF StacksTakenOver, TypeOK, enqueue_sem, dequeue_sem
<1>12. ThreadsEmpty' /\ StackTypes'
  BY <1>1, <1>2, <1>5, <1>6 DEF ThreadsEmpty, StackTypes, Out
<1> QED
  BY <1>4, <1>9, <1>11, <1>12 DEF CbInv, PoolsSound

-----------------------------------------------------------------------------
(* At the start there is nothing to hold.                                  *)
LEMMA CbInitInv == Init => CbInv
<1> SUFFICES ASSUME Init PROVE CbInv
  OBVIOUS
<1>1. /\ queue = <<>> /\ chunks = 0 /\ freed = <<>> /\ peak = 1 /\ phase = "up"
      /\ pool = [t \in Threads |-> [init |-> t = main, stack |-> <<>>, head |-> <<>>]]
      /\ cb = [k \in Cbs |-> NoCb] /\ owner = [k \in Cbs |-> FREE]
      /\ step = [t \in Threads |-> "idle"] /\ late = [t \in Threads |-> 0]
  BY DEF Init, NoPool
<1>2. <<>> \in Seq(Node) /\ <<>> \in Seq(Nat) /\ <<>> \in Seq(Func) /\ <<>> \in Seq(Seq(Nat))
  OBVIOUS
<1>3. pool \in [Threads -> Pool]
  BY <1>1, <1>2 DEF Pool
<1>4. \A t \in Threads : pool[t].init = (t = main) /\ pool[t].stack = <<>> /\ pool[t].head = <<>>
  BY <1>1
<1>5. NoCb = [stack |-> NoCb.stack, funclist |-> NoCb.funclist] /\ NoCb.funclist = <<>>
  BY DEF NoCb
<1>6. NodeTypes
  BY <1>1, <1>2, <1>3, <1>5 DEF NodeTypes
<1>7. PICK f, h, s : f = InUse /\ h = FreeNodes /\ s = Stacks
  OBVIOUS
<1>8. /\ f \in [Cbs -> Seq(Node)] /\ h \in [Threads -> Seq(Node)] /\ s \in [Threads -> Seq(Nat)]
      /\ \A k \in Cbs : f[k] = NodesIn(cb[k].funclist)
      /\ \A t \in Threads : h[t] = Nothing /\ s[t] = Nothing
  BY <1>4, <1>6, <1>7, HolderTypes DEF HoldersAre, Nothing
<1>9. \A k \in Cbs : f[k] = Nothing
  <2>1. NodesIn(<<>>) = <<>>
    BY DEF NodesIn
  <2> QED
    BY <1>1, <1>5, <1>8, <2>1 DEF Nothing
<1>10. DOMAIN Nothing = {} /\ ToSet(Nothing) = {} /\ NoneTwice(Nothing) /\ All(Nothing) = {}
  BY NothingSeq DEF Nothing
<1>11. NoneTwice(f) /\ NoneTwice(h) /\ NoneTwice(s)
  BY <1>8, <1>9, <1>10 DEF NoneTwice
<1>12. All(f) = {} /\ All(h) = {} /\ All(s) = {}
  BY <1>8, <1>9, <1>10 DEF All
<1>13. NodesKept
  BY <1>7, <1>11, <1>12 DEF NodesKept, OneHolder
<1>14. ThreadsEmpty /\ StackTypes
  BY <1>1, <1>2, <1>4 DEF ThreadsEmpty, StackTypes
<1>15. ChunksKept
  <2>1. queue = Nothing /\ freed = Nothing
    BY <1>1 DEF Nothing
  <2> QED
    BY <1>1, <1>7, <1>10, <1>11, <1>12, <2>1 DEF ChunksKept
<1>16. /\ Keeping = {main} /\ Taking = {} /\ Leaving = {}
       /\ Cardinality(Keeping) = 1 /\ Cardinality(Taking) = 0 /\ Cardinality(Leaving) = 0
  <2>1. Keeping = {main} /\ Taking = {} /\ Leaving = {}
    BY <1>1, <1>4, CbAssumption DEF Keeping, Initialised, Taking, Leaving
  <2> QED
    BY <2>1, FS_Singleton, FS_EmptySet
<1>17. StacksTakenOver
  BY <1>1, <1>16 DEF StacksTakenOver
<1>18. TypeOK
  <2>1. \A t \in Threads : DOMAIN pool[t] = DOMAIN NoPool
    BY <1>1 DEF NoPool
  <2>2. Len(queue) = 0 /\ QUEUE \in Nat
    BY <1>1, CbAssumption
  <2> QED
    BY <1>1, <1>16, <2>1, <2>2, CbAssumption DEF TypeOK, enqueue_sem, dequeue_sem
<1> QED
  BY <1>6, <1>13, <1>14, <1>15, <1>17, <1>18 DEF CbInv, PoolsSound

-----------------------------------------------------------------------------
(* The operations on callbacks.                                            *)

(* The functions and the nodes of a list that rents are asked for.         *)
LEMMA ListOf ==
    ASSUME CbInv, NEW k \in Cbs
    PROVE  /\ cb[k].funclist \in Seq(Func) /\ FuncsOf(k) \in Seq(Nat)
           /\ Len(FuncsOf(k)) = Len(cb[k].funclist)
           /\ NodesOf(k) = NodesIn(cb[k].funclist) /\ NodesOf(k) \in Seq(Node)
           /\ IsInjective(NodesOf(k))
<1>1. NodeTypes /\ NodesKept
  BY DEF CbInv
<1>2. PICK l, fs : l = cb[k].funclist /\ fs = FuncsOf(k)
  OBVIOUS
<1>3. l \in Seq(Func) /\ Len(l) \in Nat /\ DOMAIN l = 1 .. Len(l)
  BY <1>1, <1>2 DEF NodeTypes
<1>4. ASSUME NEW i \in 1 .. Len(l) PROVE l[i].func \in Nat
  <2>1. l[i] \in Func
    BY <1>3
  <2> QED
    BY <2>1 DEF Func
<1>5. fs = [i \in 1 .. Len(l) |-> l[i].func]
  BY <1>2, <1>3 DEF FuncsOf
<1>6. fs \in Seq(Nat) /\ Len(fs) = Len(l)
  BY <1>3, <1>4, <1>5
<1>7. PICK f : f = InUse
  OBVIOUS
<1>8. f \in [Cbs -> Seq(Node)] /\ NoneTwice(f) /\ f[k] = NodesIn(l)
  BY <1>1, <1>2, <1>7, HolderTypes DEF HoldersAre, NodesKept, OneHolder
<1>9. IsInjective(f[k]) /\ f[k] \in Seq(Node)
  BY <1>8, OneOfAll
<1>10. NodesOf(k) = NodesIn(l)
  BY <1>2 DEF NodesOf, NodesIn
<1> QED
  BY <1>2, <1>3, <1>6, <1>8, <1>9, <1>10

(* A thread that is initialised gets new functions with nodes of new       *)
(* chunks, whichever way round they are linked.                            *)
LEMMA NewLists ==
    ASSUME CbInv, NEW t \in Threads, pool[t].init, NEW fs \in Seq(Nat), NEW new,
           new = NewFuncs(t, fs) \/ new = Reverse(NewFuncs(t, fs))
    PROVE  /\ new \in Seq(Func) /\ IsInjective(NodesIn(new))
           /\ ToSet(NodesIn(new)) = Fresh(chunks, Len(fs)) /\ Len(fs) \in Nat
<1>1. NodeTypes /\ NodesKept /\ ChunksKept /\ phase # "quit" /\ chunks \in Nat
  BY DEF CbInv, PoolsSound, ThreadsEmpty, NodeTypes, Out
<1>2. PoolBefore(pool[t], chunks + 1)
  BY <1>1, PoolOfThread
<1>3. PICK l, ns : l = NewFuncs(t, fs) /\ ns = NodesIn(l)
  OBVIOUS
<1>4. l \in Seq(Func) /\ IsInjective(ns) /\ ToSet(ns) = Fresh(chunks, Len(fs))
  BY <1>1, <1>2, <1>3, NewFuncNodes
<1>5. CASE new = l
  BY <1>3, <1>4, <1>5
<1>6. CASE new = Reverse(l)
  <2>1. new \in Seq(Func) /\ NodesIn(new) = Reverse(ns)
    BY <1>3, <1>4, <1>6, NodesInReversed
  <2>2. ns \in Seq(Node)
    BY <1>3, <1>4, NodesInList
  <2>3. ToSet(Reverse(ns)) = ToSet(ns) /\ IsInjective(Reverse(ns))
    BY <1>4, <2>2, ReversedSeq
  <2> QED
    BY <1>4, <2>1, <2>3
<1> QED
  BY <1>3, <1>5, <1>6

(* The typed owner of every callback.                                      *)
LEMMA OwnerTypes ==
    ASSUME CbInv
    PROVE  /\ owner \in [Cbs -> Owners]
           /\ \A k \in Cbs, o \in Owners : [owner EXCEPT ![k] = o] \in [Cbs -> Owners]
<1>1. owner \in [Cbs -> Owners]
  BY DEF CbInv, PoolsSound, TypeOK, Owners
<1> QED
  BY <1>1

(* Functions are prepended or appended.                                    *)
LEMMA LinkStep ==
    ASSUME CbInv, NEW t \in Threads, pool[t].init, NEW k \in Cbs, NEW fs \in Seq(Nat), NEW new,
           new = NewFuncs(t, fs) \/ new = Reverse(NewFuncs(t, fs)),
           Rents(t, Len(fs)), NEW fl, fl = new \o cb[k].funclist \/ fl = cb[k].funclist \o new,
           NewList(k, fl), UNCHANGED owner
    PROVE  CbInv'
<1>1. NodeTypes /\ NodesKept
  BY DEF CbInv
<1>2. PICK old, n : old = cb[k].funclist /\ n = Len(fs)
  OBVIOUS
<1>3. /\ new \in Seq(Func) /\ IsInjective(NodesIn(new))
      /\ ToSet(NodesIn(new)) = Fresh(chunks, n) /\ n \in Nat
  BY <1>2, NewLists
<1>4. old \in Seq(Func)
  BY <1>2, ListOf
<1>5. Joins(Func, new, old, fl) \/ Joins(Func, old, new, fl)
  BY <1>2, <1>3, <1>4 DEF Joins
<1>6. GrowsBy(k, n, fl)
  BY <1>1, <1>2, <1>3, <1>5, ListGrows
<1>7. owner' \in [Cbs -> Owners]
  BY OwnerTypes
<1> QED
  BY <1>2, <1>6, <1>7, RentStep

(* One function is prepended.                                              *)
LEMMA PrependCallStep ==
    ASSUME CbInv, NEW t \in Threads, NEW k \in Cbs, PrependCall(t, k)
    PROVE  CbInv'
<1>1. PICK fs : fs = <<chunks + 1>>
  OBVIOUS
<1>2. chunks \in Nat
  BY DEF CbInv, NodeTypes
<1>3. fs \in Seq(Nat) /\ Len(fs) = 1
  BY <1>1, <1>2
<1>4. PICK new : new = NewFuncs(t, fs)
  OBVIOUS
<1>5. PICK fl : fl = new \o cb[k].funclist
  OBVIOUS
<1>6. pool[t].init /\ Rents(t, 1) /\ UNCHANGED owner
  BY DEF PrependCall, Mine
<1>7. NewList(k, fl)
  BY <1>1, <1>4, <1>5 DEF PrependCall, NewList
<1>8. Rents(t, Len(fs))
  BY <1>3, <1>6
<1> QED
  BY <1>3, <1>4, <1>5, <1>6, <1>7, <1>8, LinkStep

(* One function is appended.                                               *)
LEMMA AppendFuncStep ==
    ASSUME CbInv, NEW t \in Threads, NEW k \in Cbs, AppendFunc(t, k)
    PROVE  CbInv'
<1>1. PICK fs : fs = <<0>>
  OBVIOUS
<1>2. fs \in Seq(Nat) /\ Len(fs) = 1
  BY <1>1
<1>3. PICK new : new = NewFuncs(t, fs)
  OBVIOUS
<1>4. PICK fl : fl = cb[k].funclist \o new
  OBVIOUS
<1>5. pool[t].init /\ Rents(t, 1) /\ UNCHANGED owner
  BY DEF AppendFunc, Mine
<1>6. NewList(k, fl)
  <2>1. cb' = [cb EXCEPT ![k] = [cb[k] EXCEPT !.funclist = fl]]
    BY <1>1, <1>3, <1>4 DEF AppendFunc
  <2>2. PICK r, s : r = cb[k] /\ s = cb[k].stack
    OBVIOUS
  <2>3. r = [stack |-> s, funclist |-> r.funclist]
    BY <2>2 DEF CbInv, NodeTypes
  <2>4. [r EXCEPT !.funclist = fl] = [stack |-> s, funclist |-> fl]
    BY <2>3
  <2> QED
    BY <2>1, <2>2, <2>4 DEF NewList
<1>7. Rents(t, Len(fs))
  BY <1>2, <1>5
<1> QED
  BY <1>2, <1>3, <1>4, <1>5, <1>6, <1>7, LinkStep

(* The functions of another callback are prepended.                        *)
LEMMA PrependCbStep ==
    ASSUME CbInv, NEW t \in Threads, NEW k \in Cbs, NEW j \in Cbs, PrependCb(t, k, j)
    PROVE  CbInv'
<1>1. PICK gs, fs : gs = FuncsOf(j) /\ fs = Reverse(gs)
  OBVIOUS
<1>2. gs \in Seq(Nat) /\ Len(gs) = Len(cb[j].funclist)
  BY <1>1, ListOf
<1>3. fs \in Seq(Nat) /\ Len(fs) = Len(gs)
  BY <1>1, <1>2, ReversedSeq
<1>4. PICK new : new = Reverse(NewFuncs(t, fs))
  OBVIOUS
<1>5. PICK fl : fl = new \o cb[k].funclist
  OBVIOUS
<1>6. pool[t].init /\ Rents(t, Len(cb[j].funclist)) /\ UNCHANGED owner
  BY DEF PrependCb, Mine
<1>7. NewList(k, fl)
  BY <1>1, <1>4, <1>5 DEF PrependCb, NewList
<1>8. Rents(t, Len(fs))
  BY <1>2, <1>3, <1>6
<1> QED
  BY <1>3, <1>4, <1>5, <1>6, <1>7, <1>8, LinkStep

(* The functions of another callback are appended.                         *)
LEMMA AppendCbStep ==
    ASSUME CbInv, NEW t \in Threads, NEW k \in Cbs, NEW j \in Cbs, AppendCb(t, k, j)
    PROVE  CbInv'
<1>1. PICK fs : fs = FuncsOf(j)
  OBVIOUS
<1>2. fs \in Seq(Nat) /\ Len(fs) = Len(cb[j].funclist)
  BY <1>1, ListOf
<1>3. PICK new : new = NewFuncs(t, fs)
  OBVIOUS
<1>4. PICK fl : fl = cb[k].funclist \o new
  OBVIOUS
<1>5. pool[t].init /\ Rents(t, Len(cb[j].funclist)) /\ UNCHANGED owner
  BY DEF AppendCb, Mine
<1>6. NewList(k, fl)
  BY <1>1, <1>3, <1>4 DEF AppendCb, NewList
<1>7. Rents(t, Len(fs))
  BY <1>2, <1>5
<1> QED
  BY <1>2, <1>3, <1>4, <1>5, <1>6, <1>7, LinkStep

(* A callback is cloned: the new one has new nodes only.                   *)
LEMMA CloneStep ==
    ASSUME CbInv, NEW t \in Threads, NEW k \in Cbs, NEW j \in Cbs, Clone(t, k, j)
    PROVE  CbInv'
<1>1. PICK fs : fs = FuncsOf(k)
  OBVIOUS
<1>2. fs \in Seq(Nat) /\ Len(fs) = Len(cb[k].funclist)
  BY <1>1, ListOf
<1>3. PICK fl, n : fl = NewFuncs(t, fs) /\ n = Len(fs)
  OBVIOUS
<1>4. pool[t].init /\ Rents(t, Len(cb[k].funclist)) /\ owner' = [owner EXCEPT ![j] = t]
  BY DEF Clone, Mine
<1>5. /\ fl \in Seq(Func) /\ IsInjective(NodesIn(fl))
      /\ ToSet(NodesIn(fl)) = Fresh(chunks, n) /\ n \in Nat
  BY <1>2, <1>3, <1>4, NewLists
<1>6. GrowsBy(j, n, fl)
  BY <1>5 DEF GrowsBy
<1>7. NewList(j, fl)
  BY <1>1, <1>3 DEF Clone, NewList
<1>8. owner' \in [Cbs -> Owners]
  BY <1>4, OwnerTypes DEF Owners
<1>9. Rents(t, n)
  BY <1>2, <1>3, <1>4
<1> QED
  BY <1>4, <1>6, <1>7, <1>8, <1>9, RentStep

(* A callback is destroyed: all of its nodes are returned.                 *)
LEMMA DestroyStep ==
    ASSUME CbInv, NEW t \in Threads, NEW k \in Cbs, Destroy(t, k)
    PROVE  CbInv'
<1>1. PICK ns : ns = NodesOf(k)
  OBVIOUS
<1>2. ns = NodesIn(cb[k].funclist) /\ ns \in Seq(Node) /\ IsInjective(ns)
  BY <1>1, ListOf
<1>3. /\ pool[t].init /\ Returns(t, ns) /\ cb' = [cb EXCEPT ![k] = NoCb]
      /\ owner' = [owner EXCEPT ![k] = FREE]
  BY <1>1 DEF Destroy, Mine
<1>4. NewList(k, Nothing)
  BY <1>3 DEF NewList, NoCb, Nothing
<1>5. Nothing \in Seq(Func) /\ IsInjective(Nothing) /\ ToSet(Nothing) = {}
  BY NothingSeq
<1>6. NodesIn(Nothing) = Nothing
  BY DEF NodesIn, Nothing
<1>7. ShrinksTo(k, ns, Nothing)
  BY <1>2, <1>5, <1>6 DEF ShrinksTo
<1>8. owner' \in [Cbs -> Owners]
  BY <1>3, OwnerTypes DEF Owners
<1> QED
  BY <1>3, <1>4, <1>7, <1>8, ReturnStep

(* A callback is run: the node of its first function is returned.          *)
LEMMA InvokeStep ==
    ASSUME CbInv, NEW t \in Threads, NEW k \in Cbs, Invoke(t, k)
    PROVE  CbInv'
<1>1. PICK l, a, x : l = cb[k].funclist /\ a = NodesIn(l) /\ x = Head(l).node
  OBVIOUS
<1>2. l \in Seq(Func) /\ a \in Seq(Node) /\ IsInjective(a)
  BY <1>1, ListOf
<1>3. /\ pool[t].init /\ l # <<>> /\ Returns(t, <<x>>) /\ UNCHANGED owner
      /\ \E s : cb' = [cb EXCEPT ![k] = [stack |-> s, funclist |-> Tail(l)]]
  BY <1>1 DEF Invoke, Mine
<1>4. PICK ns, fl : ns = <<x>> /\ fl = Tail(l)
  OBVIOUS
<1>5. fl \in Seq(Func) /\ NodesIn(fl) = Tail(a) /\ a # <<>> /\ x = Head(a)
  BY <1>1, <1>2, <1>3, <1>4, NodesInTail
<1>6. /\ x \in ToSet(a) /\ x \in Node /\ IsInjective(Tail(a)) /\ ToSet(Tail(a)) = ToSet(a) \ {x}
  BY <1>2, <1>5, TailSeq
<1>7. ns \in Seq(Node) /\ IsInjective(ns) /\ ToSet(ns) = {x}
  BY <1>4, <1>6, SingleSeq
<1>8. ShrinksTo(k, ns, fl)
  BY <1>1, <1>5, <1>6, <1>7 DEF ShrinksTo
<1>9. NewList(k, fl)
  BY <1>3, <1>4 DEF NewList
<1>10. owner' \in [Cbs -> Owners] /\ Returns(t, ns)
  BY <1>3, <1>4, OwnerTypes
<1> QED
  BY <1>3, <1>8, <1>9, <1>10, ReturnStep

(* A callback is created, handed over or dequeued.                         *)
LEMMA HandedOverStep ==
    ASSUME CbInv, NEW t \in Threads, NEW k \in Cbs,
           Create(t, k) \/ InvokeAsync(t, k) \/ Take(t, k)
    PROVE  CbInv'
<1>1. /\ UNCHANGED <<pool, cb, poolVars>>
      /\ owner' = [owner EXCEPT ![k] = t] \/ owner' = [owner EXCEPT ![k] = QUEUED]
  BY DEF Create, InvokeAsync, Take
<1>2. owner' \in [Cbs -> Owners]
  BY <1>1, OwnerTypes DEF Owners
<1> QED
  BY <1>1, <1>2, OwnerStep

(* Every step keeps the invariant.                                         *)
LEMMA CbNextInv == CbInv /\ [Next]_vars => CbInv'
<1> SUFFICES ASSUME CbInv, [Next]_vars PROVE CbInv'
  OBVIOUS
<1>1. CASE UNCHANGED vars
  <2>1. UNCHANGED <<pool, cb, poolVars>> /\ owner' = owner
    BY <1>1 DEF vars, poolVars
  <2> QED
    BY <2>1, OwnerTypes, OwnerStep
<1>2. ASSUME NEW t \in Threads, ThrdInit(t) \/ ThrdQuit(t) PROVE CbInv'
  <2>1. ASSUME ThrdInit(t) PROVE CbInv'
    <3>1. NewStack(t) \/ DrawStack(t)
      BY <2>1 DEF ThrdInit
    <3> QED
      BY <2>1, <3>1, NewStackStep, DrawStackStep
  <2> QED
    BY <1>2, <2>1, LeaveStep DEF ThrdQuit
<1>3. CASE Exit
  BY <1>3, ExitStep
<1>4. CASE MainQuit
  BY <1>4, LeaveStep, CbAssumption DEF MainQuit
<1>5. CASE LinkpoolQuit
  BY <1>5, LinkpoolQuitStep
<1>6. ASSUME NEW t \in Threads, NEW k \in Cbs, Create(t, k) \/ InvokeAsync(t, k) \/ Take(t, k)
      PROVE  CbInv'
  BY <1>6, HandedOverStep
<1>7. ASSUME NEW t \in Threads, NEW k \in Cbs, PrependCall(t, k) PROVE CbInv'
  BY <1>7, PrependCallStep
<1>8. ASSUME NEW t \in Threads, NEW k \in Cbs, AppendFunc(t, k) PROVE CbInv'
  BY <1>8, AppendFuncStep
<1>9. ASSUME NEW t \in Threads, NEW k \in Cbs, Destroy(t, k) \/ InvokeLast(t, k) PROVE CbInv'
  BY <1>9, DestroyStep DEF InvokeLast
<1>10. ASSUME NEW t \in Threads, NEW k \in Cbs, Invoke(t, k) PROVE CbInv'
  BY <1>10, InvokeStep
<1>11. ASSUME NEW t \in Threads, NEW k \in Cbs, NEW j \in Cbs,
              PrependCb(t, k, j) \/ AppendCb(t, k, j) \/ Clone(t, k, j)
       PROVE  CbInv'
  BY <1>11, PrependCbStep, AppendCbStep, CloneStep
<1>12. ASSUME NEW t \in Threads, Taken(t) PROVE CbInv'
  BY <1>12, TakenStep
<1>13. ASSUME NEW t \in Threads, Left(t) PROVE CbInv'
  BY <1>13, LeftStep
<1> QED
  BY <1>1, <1>2, <1>3, <1>4, <1>5, <1>6, <1>7, <1>8, <1>9, <1>10, <1>11, <1>12, <1>13
  DEF Next, Step

(* No node has two holders: it is free in one pool or linked in one        *)
(* callback, once, whichever threads rented, ran and returned it.          *)
THEOREM NodesHaveOneHolder == Spec => []OneHolder
<1>1. CbInv => OneHolder
  BY DEF CbInv, NodesKept
<1> QED
  BY <1>1, CbInitInv, CbNextInv, PTL DEF Spec

(* Until two threads meet at a slot of the queue of stacks (race), where    *)
(* the model stops: no chunk is lost, kept twice or freed twice however the *)
(* steps of threads that quit and start are interleaved, and there are      *)
(* never more stacks than there were threads at a time.                     *)
THEOREM PoolsAreSound == Spec => []PoolsSound
<1>1. CbInv => PoolsSound
  BY DEF CbInv
<1> QED
  BY <1>1, CbInitInv, CbNextInv, PTL DEF Spec

-----------------------------------------------------------------------------
(* Functions and the items they pop.  The item at j was put there for the  *)
(* function at at[j]: the lower it is, the later it is popped.             *)
PopsAt(at, fs, xs) ==
    /\ at \in [1 .. Len(xs) -> 1 .. Len(fs)]
    /\ \A j \in 1 .. Len(xs) : fs[at[j]] = xs[j] /\ xs[j] > 0
    /\ \A i, j \in 1 .. Len(xs) : i < j => at[j] < at[i]
    /\ \A i \in 1 .. Len(fs) : fs[i] > 0 => \E j \in 1 .. Len(xs) : at[j] = i

(* Every function that pops finds its item when those before it have run.  *)
Meets(fs, xs) == fs \in Seq(Nat) /\ xs \in Seq(Nat) /\ \E at : PopsAt(at, fs, xs)

(* Joined lists meet their items joined the other way round.               *)
LEMMA MeetsJoined ==
    ASSUME NEW a, NEW b, NEW c, Joins(Nat, a, b, c), NEW x, NEW y, NEW z, Joins(Nat, y, x, z),
           Meets(a, x), Meets(b, y)
    PROVE  Meets(c, z)
<1>1. PICK la, lb, lx, ly : la = Len(a) /\ lb = Len(b) /\ lx = Len(x) /\ ly = Len(y)
  OBVIOUS
<1>2. /\ c \in Seq(Nat) /\ Len(c) = la + lb
      /\ \A i \in 1 .. la : c[i] = a[i]
      /\ \A i \in 1 .. lb : c[la + i] = b[i]
  BY <1>1, JoinedSeqs
<1>3. /\ z \in Seq(Nat) /\ Len(z) = ly + lx
      /\ \A i \in 1 .. ly : z[i] = y[i]
      /\ \A i \in 1 .. lx : z[ly + i] = x[i]
  BY <1>1, JoinedSeqs
<1>4. la \in Nat /\ lb \in Nat /\ lx \in Nat /\ ly \in Nat
  BY <1>1 DEF Meets
<1>5. PICK f, g : PopsAt(f, a, x) /\ PopsAt(g, b, y)
  BY DEF Meets
<1>6. /\ \A j \in 1 .. lx : f[j] \in 1 .. la /\ a[f[j]] = x[j] /\ x[j] > 0
      /\ \A i, j \in 1 .. lx : i < j => f[j] < f[i]
      /\ \A i \in 1 .. la : a[i] > 0 => \E j \in 1 .. lx : f[j] = i
  BY <1>1, <1>5 DEF PopsAt
<1>7. /\ \A j \in 1 .. ly : g[j] \in 1 .. lb /\ b[g[j]] = y[j] /\ y[j] > 0
      /\ \A i, j \in 1 .. ly : i < j => g[j] < g[i]
      /\ \A i \in 1 .. lb : b[i] > 0 => \E j \in 1 .. ly : g[j] = i
  BY <1>1, <1>5 DEF PopsAt
<1>8. PICK h : h = [j \in 1 .. ly + lx |-> IF j <= ly THEN la + g[j] ELSE f[j - ly]]
  OBVIOUS
<1>9. /\ \A j \in 1 .. ly : h[j] = la + g[j]
      /\ \A j \in 1 .. lx : h[ly + j] = f[j]
      /\ DOMAIN h = 1 .. ly + lx /\ h = [j \in 1 .. ly + lx |-> h[j]]
  <2>1. \A j \in 1 .. ly : j \in 1 .. ly + lx /\ j <= ly
    BY <1>4
  <2>2. \A j \in 1 .. lx : ly + j \in 1 .. ly + lx /\ ~(ly + j <= ly) /\ (ly + j) - ly = j
    BY <1>4
  <2> QED
    BY <1>8, <2>1, <2>2
<1>10. \A j \in 1 .. ly + lx : j \in 1 .. ly \/ \E i \in 1 .. lx : j = ly + i
  <2> TAKE j \in 1 .. ly + lx
  <2>1. CASE j <= ly
    BY <1>4, <2>1
  <2>2. CASE ~(j <= ly)
    <3>1. j - ly \in 1 .. lx /\ j = ly + (j - ly)
      BY <1>4, <2>2
    <3> QED
      BY <3>1
  <2> QED
    BY <2>1, <2>2
<1>11. ASSUME NEW j \in 1 .. ly + lx
       PROVE  h[j] \in 1 .. la + lb /\ c[h[j]] = z[j] /\ z[j] > 0
  <2>1. CASE j \in 1 .. ly
    <3>1. PICK i : i = g[j]
      OBVIOUS
    <3>2. i \in 1 .. lb /\ b[i] = y[j] /\ y[j] > 0 /\ h[j] = la + i
      BY <1>7, <1>9, <2>1, <3>1
    <3>3. la + i \in 1 .. la + lb
      BY <1>4, <3>2
    <3>4. c[la + i] = b[i] /\ z[j] = y[j]
      BY <1>2, <1>3, <2>1, <3>2
    <3> QED
      BY <3>2, <3>3, <3>4
  <2>2. ASSUME NEW m \in 1 .. lx, j = ly + m
        PROVE  h[j] \in 1 .. la + lb /\ c[h[j]] = z[j] /\ z[j] > 0
    <3>1. PICK i : i = f[m]
      OBVIOUS
    <3>2. i \in 1 .. la /\ a[i] = x[m] /\ x[m] > 0 /\ h[j] = i
      BY <1>6, <1>9, <2>2, <3>1
    <3>3. i \in 1 .. la + lb
      BY <1>4, <3>2
    <3>4. c[i] = a[i] /\ z[j] = x[m]
      BY <1>2, <1>3, <2>2, <3>2
    <3> QED
      BY <3>2, <3>3, <3>4
  <2> QED
    BY <1>10, <2>1, <2>2
<1>12. ASSUME NEW i \in 1 .. ly + lx, NEW j \in 1 .. ly + lx, i < j PROVE h[j] < h[i]
  <2>1. CASE i \in 1 .. ly /\ j \in 1 .. ly
    <3>1. PICK u, v : u = g[i] /\ v = g[j]
      OBVIOUS
    <3>2. u \in 1 .. lb /\ v \in 1 .. lb /\ v < u /\ h[i] = la + u /\ h[j] = la + v
      BY <1>7, <1>9, <1>12, <2>1, <3>1
    <3> QED
      BY <1>4, <3>2
  <2>2. ASSUME i \in 1 .. ly, NEW m \in 1 .. lx, j = ly + m PROVE h[j] < h[i]
    <3>1. PICK u, v : u = g[i] /\ v = f[m]
      OBVIOUS
    <3>2. u \in 1 .. lb /\ v \in 1 .. la /\ h[i] = la + u /\ h[j] = v
      BY <1>6, <1>7, <1>9, <2>2, <3>1
    <3> QED
      BY <1>4, <3>2
  <2>3. ASSUME NEW m \in 1 .. lx, i = ly + m, NEW n \in 1 .. lx, j = ly + n PROVE h[j] < h[i]
    <3>1. m < n
      BY <1>4, <1>12, <2>3
    <3> QED
      BY <1>6, <1>9, <2>3, <3>1
  <2>4. ASSUME NEW m \in 1 .. lx, i = ly + m PROVE ~(j \in 1 .. ly)
    BY <1>4, <1>12, <2>4
  <2> QED
    BY <1>10, <2>1, <2>2, <2>3, <2>4
<1>13. ASSUME NEW i \in 1 .. la + lb, c[i] > 0 PROVE \E j \in 1 .. ly + lx : h[j] = i
  <2>1. CASE i <= la
    <3>1. i \in 1 .. la /\ a[i] > 0
      BY <1>2, <1>4, <1>13, <2>1
    <3>2. PICK m \in 1 .. lx : f[m] = i
      BY <1>6, <3>1
    <3>3. h[ly + m] = i
      BY <1>9, <3>2
    <3>4. ly + m \in 1 .. ly + lx
      BY <1>4
    <3> QED
      BY <3>3, <3>4
  <2>2. CASE ~(i <= la)
    <3>1. PICK u : u = i - la
      OBVIOUS
    <3>2. u \in 1 .. lb /\ i = la + u
      BY <1>4, <2>2, <3>1
    <3>3. b[u] > 0
      BY <1>2, <1>13, <3>2
    <3>4. PICK m \in 1 .. ly : g[m] = u
      BY <1>7, <3>2, <3>3
    <3>5. h[m] = i
      BY <1>9, <3>2, <3>4
    <3>6. m \in 1 .. ly + lx
      BY <1>4
    <3> QED
      BY <3>5, <3>6
  <2> QED
    BY <2>1, <2>2
<1>14. h \in [1 .. ly + lx -> 1 .. la + lb]
  BY <1>9, <1>11
<1>15. PopsAt(h, c, z)
  BY <1>2, <1>3, <1>11, <1>12, <1>13, <1>14 DEF PopsAt
<1> QED
  BY <1>2, <1>3, <1>15 DEF Meets

(* Nothing meets nothing, and one function its item, if it pops one.       *)
LEMMA MeetsSingle ==
    /\ Meets(<<>>, <<>>) /\ Meets(<<0>>, <<>>)
    /\ \A n \in Nat : n > 0 => Meets(<<n>>, <<n>>)
<1>1. PICK e, o : e = <<>> /\ o = <<0>>
  OBVIOUS
<1>2. /\ e \in Seq(Nat) /\ Len(e) = 0 /\ o \in Seq(Nat) /\ Len(o) = 1 /\ o[1] = 0
  BY <1>1
<1>3. \A i \in 1 .. 0 : FALSE
  OBVIOUS
<1>4. PICK at : at = [j \in 1 .. 0 |-> j]
  OBVIOUS
<1>5. at \in [1 .. 0 -> 1 .. 0] /\ at \in [1 .. 0 -> 1 .. 1]
  BY <1>3, <1>4
<1>6. PopsAt(at, e, e)
  BY <1>2, <1>3, <1>5 DEF PopsAt
<1>7. PopsAt(at, o, e)
  <2>1. \A i \in 1 .. 1 : ~(o[i] > 0)
    BY <1>2
  <2> QED
    BY <1>2, <1>3, <1>5, <2>1 DEF PopsAt
<1>8. ASSUME NEW n \in Nat, n > 0 PROVE Meets(<<n>>, <<n>>)
  <2>1. PICK s : s = <<n>>
    OBVIOUS
  <2>2. s \in Seq(Nat) /\ Len(s) = 1 /\ s[1] = n
    BY <2>1
  <2>3. PICK h : h = [j \in 1 .. 1 |-> 1]
    OBVIOUS
  <2>4. h \in [1 .. 1 -> 1 .. 1] /\ \A j \in 1 .. 1 : h[j] = 1 /\ j = 1
    BY <2>3
  <2>5. PopsAt(h, s, s)
    BY <1>8, <2>2, <2>4 DEF PopsAt
  <2> QED
    BY <2>1, <2>2, <2>5 DEF Meets
<1> QED
  BY <1>1, <1>2, <1>6, <1>7, <1>8 DEF Meets

(* s is r and one element more, at its start or at its end.                *)
Starts(s, x, r) == /\ s \in Seq(Nat) /\ r \in Seq(Nat) /\ Len(s) = Len(r) + 1 /\ s[1] = x
                   /\ \A i \in 1 .. Len(r) : s[i + 1] = r[i]
Ends(s, x, r) == /\ s \in Seq(Nat) /\ r \in Seq(Nat) /\ Len(s) = Len(r) + 1 /\ s[Len(r) + 1] = x
                 /\ \A i \in 1 .. Len(r) : s[i] = r[i]

(* The first function is run: if it pops an item, that is the last one.    *)
LEMMA MeetsFirst ==
    ASSUME NEW fs, NEW xs, Meets(fs, xs), NEW f, NEW gs, Starts(fs, f, gs)
    PROVE  /\ f > 0 => Len(xs) > 0 /\ \A x, ys : Ends(xs, x, ys) => x = f /\ Meets(gs, ys)
           /\ ~(f > 0) => Meets(gs, xs)
<1>1. PICK n, m : n = Len(gs) /\ m = Len(xs)
  OBVIOUS
<1>2. /\ n \in Nat /\ gs \in Seq(Nat) /\ fs \in Seq(Nat) /\ Len(fs) = n + 1 /\ fs[1] = f
      /\ \A i \in 1 .. n : fs[i + 1] = gs[i]
  BY <1>1 DEF Starts
<1>3. m \in Nat /\ xs \in Seq(Nat)
  BY <1>1 DEF Meets
<1>4. PICK at : PopsAt(at, fs, xs)
  BY DEF Meets
<1>5. /\ \A j \in 1 .. m : at[j] \in 1 .. n + 1 /\ fs[at[j]] = xs[j] /\ xs[j] > 0
      /\ \A i, j \in 1 .. m : i < j => at[j] < at[i]
      /\ \A i \in 1 .. n + 1 : fs[i] > 0 => \E j \in 1 .. m : at[j] = i
  BY <1>1, <1>2, <1>4 DEF PopsAt
<1>6. ASSUME NEW k \in Nat, NEW ys \in Seq(Nat), Len(ys) = k, k <= m,
             \A j \in 1 .. k : ys[j] = xs[j] /\ at[j] # 1,
             \A j \in 1 .. m : at[j] # 1 => j <= k
      PROVE  Meets(gs, ys)
  <2>1. PICK h : h = [j \in 1 .. k |-> at[j] - 1]
    OBVIOUS
  <2>2. \A j \in 1 .. k : j \in 1 .. m
    BY <1>3, <1>6
  <2>3. ASSUME NEW j \in 1 .. k
        PROVE  h[j] \in 1 .. n /\ h[j] + 1 = at[j] /\ gs[h[j]] = ys[j] /\ ys[j] > 0
    <3>1. PICK u : u = at[j]
      OBVIOUS
    <3>2. u \in 1 .. n + 1 /\ u # 1 /\ fs[u] = xs[j] /\ xs[j] > 0
      BY <1>5, <1>6, <2>2, <3>1
    <3>3. PICK v : v = u - 1
      OBVIOUS
    <3>4. v \in 1 .. n /\ v + 1 = u
      BY <1>2, <3>2, <3>3
    <3>5. h[j] = v
      BY <2>1, <3>1, <3>3
    <3>6. fs[v + 1] = gs[v]
      BY <1>2, <3>4
    <3> QED
      BY <1>6, <3>1, <3>2, <3>4, <3>5, <3>6
  <2>4. ASSUME NEW i \in 1 .. k, NEW j \in 1 .. k, i < j PROVE h[j] < h[i]
    <3>1. PICK u, v : u = h[i] /\ v = h[j]
      OBVIOUS
    <3>2. u \in 1 .. n /\ v \in 1 .. n /\ v + 1 < u + 1
      BY <1>5, <2>2, <2>3, <2>4, <3>1
    <3>3. v < u
      BY <1>2, <3>2
    <3> QED
      BY <3>1, <3>3
  <2>5. ASSUME NEW i \in 1 .. n, gs[i] > 0 PROVE \E j \in 1 .. k : h[j] = i
    <3>1. i + 1 \in 1 .. n + 1 /\ i + 1 # 1 /\ fs[i + 1] > 0
      BY <1>2, <2>5
    <3>2. PICK j \in 1 .. m : at[j] = i + 1
      BY <1>5, <3>1
    <3>3. j \in 1 .. k
      BY <1>3, <1>6, <3>1, <3>2
    <3>4. h[j] \in 1 .. n /\ h[j] + 1 = i + 1
      BY <2>3, <3>2, <3>3
    <3>5. PICK v : v = h[j]
      OBVIOUS
    <3>6. v \in 1 .. n /\ v + 1 = i + 1
      BY <3>4, <3>5
    <3>7. v = i
      BY <1>2, <3>6
    <3> QED
      BY <3>3, <3>5, <3>7
  <2>6. h \in [1 .. k -> 1 .. n]
    BY <2>1, <2>3
  <2>7. PopsAt(h, gs, ys)
    BY <1>1, <1>6, <2>3, <2>4, <2>5, <2>6 DEF PopsAt
  <2> QED
    BY <1>2, <1>6, <2>7 DEF Meets
<1>7. 1 \in 1 .. n + 1
  BY <1>2
<1>8. CASE ~(f > 0)
  <2>1. \A j \in 1 .. m : at[j] # 1
    BY <1>2, <1>5, <1>8
  <2>2. Meets(gs, xs)
    BY <1>1, <1>3, <1>6, <2>1
  <2> QED
    BY <1>8, <2>2
<1>9. CASE f > 0
  <2>1. PICK j \in 1 .. m : at[j] = 1
    BY <1>2, <1>5, <1>7, <1>9
  <2>2. j = m /\ m > 0
    <3>1. m > 0 /\ m \in 1 .. m
      BY <1>3, <2>1
    <3>2. ASSUME j < m PROVE FALSE
      <4>1. PICK u : u = at[m]
        OBVIOUS
      <4>2. u \in 1 .. n + 1 /\ u < 1
        BY <1>5, <2>1, <3>1, <3>2, <4>1
      <4> QED
        BY <1>2, <4>2
    <3> QED
      BY <1>3, <2>1, <3>1, <3>2
  <2>3. ASSUME NEW x, NEW ys, Ends(xs, x, ys) PROVE x = f /\ Meets(gs, ys)
    <3>1. PICK k : k = Len(ys)
      OBVIOUS
    <3>2. /\ k \in Nat /\ ys \in Seq(Nat) /\ m = k + 1 /\ xs[m] = x
          /\ \A i \in 1 .. k : xs[i] = ys[i]
      BY <1>1, <2>3, <3>1 DEF Ends
    <3>3. \A i \in 1 .. k : i \in 1 .. m /\ i < m
      BY <3>2
    <3>4. m \in 1 .. m /\ at[m] = 1
      BY <2>1, <2>2
    <3>5. ASSUME NEW i \in 1 .. k PROVE at[i] # 1
      <4>1. at[m] < at[i]
        BY <1>5, <3>3, <3>4
      <4> QED
        BY <3>4, <4>1
    <3>6. ASSUME NEW i \in 1 .. m, at[i] # 1 PROVE i <= k
      BY <3>2, <3>4, <3>6
    <3>7. k <= m
      BY <3>2
    <3>8. Meets(gs, ys)
      BY <1>6, <3>1, <3>2, <3>5, <3>6, <3>7
    <3>9. x = f
      BY <1>2, <1>5, <3>2, <3>4
    <3> QED
      BY <3>8, <3>9
  <2> QED
    BY <1>1, <1>9, <2>2, <2>3
<1> QED
  BY <1>8, <1>9

(* Different numbers for the numbers of an interval.                       *)
LEMMA CountImage ==
    ASSUME NEW a \in Nat, NEW b \in Nat, a <= b, NEW S, NEW f \in [a + 1 .. b -> S],
           \A i, j \in a + 1 .. b : f[i] = f[j] => i = j,
           \A s \in S : \E i \in a + 1 .. b : f[i] = s
    PROVE  Cardinality(S) = b - a
<1>1. PICK I : I = a + 1 .. b
  OBVIOUS
<1>2. f \in Bijection(I, S)
  BY <1>1 DEF Bijection, Injection, Surjection, IsInjective
<1>3. ExistsBijection(I, S)
  BY <1>2 DEF ExistsBijection
<1>4. PICK c : c = a + 1
  OBVIOUS
<1>5. c \in Int /\ b \in Int
  BY <1>4
<1>6. IsFiniteSet(c .. b) /\ Cardinality(c .. b) = IF c > b THEN 0 ELSE b - c + 1
  BY <1>5, FS_Interval
<1>7. IsFiniteSet(I) /\ Cardinality(I) = b - a
  BY <1>1, <1>4, <1>6
<1> QED
  BY <1>3, <1>7, FS_Bijection

(* The places of the functions that pop an item, and how many there are    *)
(* before i.                                                               *)
PopsIn(fs) == {i \in 1 .. Len(fs) : fs[i] > 0}
PopsBefore(fs, i) == Cardinality({j \in PopsIn(fs) : j < i})

(* What meeting means for each function: its item is on top when those     *)
(* before it have popped theirs.                                           *)
LEMMA MeetsFinds ==
    ASSUME NEW fs, NEW xs, Meets(fs, xs)
    PROVE  /\ Len(xs) = Cardinality(PopsIn(fs))
           /\ \A i \in PopsIn(fs) : xs[Len(xs) - PopsBefore(fs, i)] = fs[i]
<1>1. PICK n, l, C : n = Len(xs) /\ l = Len(fs) /\ C = PopsIn(fs)
  OBVIOUS
<1>2. n \in Nat /\ l \in Nat /\ \A i \in 1 .. l : fs[i] \in Nat
  BY <1>1 DEF Meets
<1>3. PICK at : PopsAt(at, fs, xs)
  BY DEF Meets
<1>4. /\ \A j \in 1 .. n : at[j] \in 1 .. l /\ fs[at[j]] = xs[j] /\ xs[j] > 0
      /\ \A i, j \in 1 .. n : i < j => at[j] < at[i]
      /\ \A i \in 1 .. l : fs[i] > 0 => \E j \in 1 .. n : at[j] = i
      /\ at = [j \in 1 .. n |-> at[j]]
  BY <1>1, <1>3 DEF PopsAt
<1>5. \A j \in 1 .. n : at[j] \in C
  BY <1>1, <1>4 DEF PopsIn
<1>6. \A i \in C : \E j \in 1 .. n : at[j] = i
  BY <1>1, <1>4 DEF PopsIn
<1>7. ASSUME NEW i \in 1 .. n, NEW j \in 1 .. n
      PROVE  (at[i] = at[j] => i = j) /\ (at[j] < at[i] => i < j)
  <2>1. PICK u, v : u = at[i] /\ v = at[j]
    OBVIOUS
  <2>2. u \in 1 .. l /\ v \in 1 .. l /\ (i < j => v < u) /\ (j < i => u < v)
        /\ (i = j => u = v)
    BY <1>4, <2>1
  <2>3. (u = v => i = j) /\ (v < u => i < j)
    BY <1>2, <2>2
  <2> QED
    BY <2>1, <2>3
<1>8. Len(xs) = Cardinality(C)
  <2>1. PICK o : o = 0
    OBVIOUS
  <2>2. o \in Nat /\ o <= n /\ o + 1 .. n = 1 .. n /\ n - o = n
    BY <1>2, <2>1
  <2>3. at \in [o + 1 .. n -> C]
    BY <1>4, <1>5, <2>2
  <2>4. \A i, j \in o + 1 .. n : at[i] = at[j] => i = j
    BY <1>7, <2>2
  <2>5. \A i \in C : \E j \in o + 1 .. n : at[j] = i
    BY <1>6, <2>2
  <2>6. Cardinality(C) = n - o
    BY <1>2, <2>2, <2>3, <2>4, <2>5, CountImage
  <2> QED
    BY <1>1, <2>2, <2>6
<1>9. ASSUME NEW i \in C PROVE xs[Len(xs) - PopsBefore(fs, i)] = fs[i]
  <2>1. PICK p \in 1 .. n : at[p] = i
    BY <1>6
  <2>2. PICK S, h : S = {j \in C : j < i} /\ h = [q \in p + 1 .. n |-> at[q]]
    OBVIOUS
  <2>3. /\ p \in Nat /\ p <= n /\ n - (n - p) = p
        /\ \A q \in p + 1 .. n : q \in 1 .. n /\ p < q
        /\ \A q \in 1 .. n : p < q => q \in p + 1 .. n
    BY <1>2
  <2>4. ASSUME NEW q \in p + 1 .. n PROVE at[q] \in S
    <3>1. q \in 1 .. n /\ p < q
      BY <2>3
    <3>2. at[q] < at[p]
      BY <1>4, <3>1
    <3> QED
      BY <1>5, <2>1, <2>2, <3>1, <3>2
  <2>5. h \in [p + 1 .. n -> S]
    BY <2>2, <2>4
  <2>6. \A u, v \in p + 1 .. n : h[u] = h[v] => u = v
    BY <1>7, <2>2, <2>3
  <2>7. ASSUME NEW s \in S PROVE \E q \in p + 1 .. n : h[q] = s
    <3>1. PICK q \in 1 .. n : at[q] = s
      BY <1>6, <2>2
    <3>2. at[q] < at[p]
      BY <2>1, <2>2, <3>1
    <3>3. q \in p + 1 .. n
      BY <1>7, <2>3, <3>2
    <3> QED
      BY <2>2, <3>1, <3>3
  <2>8. Cardinality(S) = n - p
    BY <1>2, <2>3, <2>5, <2>6, <2>7, CountImage
  <2>9. Len(xs) - Cardinality(S) = p
    BY <1>1, <2>3, <2>8
  <2>10. xs[p] = fs[i]
    BY <1>4, <2>1
  <2> QED
    BY <1>1, <2>2, <2>9, <2>10 DEF PopsBefore
<1> QED
  BY <1>1, <1>8, <1>9

-----------------------------------------------------------------------------
(* Lists of functions and the functions alone.                             *)
FuncsIn(l) == [i \in DOMAIN l |-> l[i].func]

(* The functions of a list.                                                *)
LEMMA FuncsInList ==
    ASSUME NEW l \in Seq(Func)
    PROVE  /\ FuncsIn(l) \in Seq(Nat) /\ Len(FuncsIn(l)) = Len(l) /\ DOMAIN l = 1 .. Len(l)
           /\ \A i \in 1 .. Len(l) : FuncsIn(l)[i] = l[i].func /\ l[i].func \in Nat
<1>1. DOMAIN l = 1 .. Len(l) /\ Len(l) \in Nat /\ \A i \in 1 .. Len(l) : l[i] \in Func
  OBVIOUS
<1>2. \A i \in 1 .. Len(l) : l[i].func \in Nat
  BY <1>1 DEF Func
<1>3. PICK ns : ns = FuncsIn(l)
  OBVIOUS
<1>4. ns = [i \in 1 .. Len(l) |-> l[i].func]
  BY <1>1, <1>3 DEF FuncsIn
<1>5. ns \in Seq(Nat) /\ Len(ns) = Len(l) /\ \A i \in 1 .. Len(l) : ns[i] = l[i].func
  BY <1>1, <1>2, <1>4
<1> QED
  BY <1>1, <1>2, <1>3, <1>5

(* The functions of two lists after one another.                           *)
LEMMA FuncsInJoined ==
    ASSUME NEW a, NEW b, NEW c, Joins(Func, a, b, c)
    PROVE  c \in Seq(Func) /\ Joins(Nat, FuncsIn(a), FuncsIn(b), FuncsIn(c))
<1>1. PICK na, nb, nc, j : na = FuncsIn(a) /\ nb = FuncsIn(b) /\ nc = FuncsIn(c) /\ j = na \o nb
  OBVIOUS
<1>2. a \in Seq(Func) /\ b \in Seq(Func)
  BY DEF Joins
<1>3. /\ c \in Seq(Func) /\ Len(c) = Len(a) + Len(b)
      /\ \A i \in 1 .. Len(a) : c[i] = a[i]
      /\ \A i \in 1 .. Len(b) : c[Len(a) + i] = b[i]
  BY JoinedSeqs
<1>4. /\ na \in Seq(Nat) /\ Len(na) = Len(a) /\ \A i \in 1 .. Len(a) : na[i] = a[i].func
  BY <1>1, <1>2, FuncsInList
<1>5. /\ nb \in Seq(Nat) /\ Len(nb) = Len(b) /\ \A i \in 1 .. Len(b) : nb[i] = b[i].func
  BY <1>1, <1>2, FuncsInList
<1>6. /\ nc \in Seq(Nat) /\ Len(nc) = Len(c) /\ \A i \in 1 .. Len(c) : nc[i] = c[i].func
  BY <1>1, <1>3, FuncsInList
<1>7. Joins(Nat, na, nb, j)
  BY <1>1, <1>4, <1>5 DEF Joins
<1>8. /\ j \in Seq(Nat) /\ Len(j) = Len(a) + Len(b)
      /\ \A i \in 1 .. Len(a) : j[i] = na[i]
      /\ \A i \in 1 .. Len(b) : j[Len(a) + i] = nb[i]
  <2>1. /\ j \in Seq(Nat) /\ Len(j) = Len(na) + Len(nb)
        /\ \A i \in 1 .. Len(na) : j[i] = na[i]
        /\ \A i \in 1 .. Len(nb) : j[Len(na) + i] = nb[i]
    BY <1>7, JoinedSeqs
  <2>2. Len(na) = Len(a) /\ Len(nb) = Len(b)
    BY <1>4, <1>5
  <2> QED
    BY <2>1, <2>2
<1>9. Len(a) \in Nat /\ Len(b) \in Nat
  BY <1>2
<1>10. ASSUME NEW i \in 1 .. Len(c) PROVE nc[i] = j[i]
  <2>1. CASE i <= Len(a)
    <3>1. i \in 1 .. Len(a)
      BY <1>9, <2>1
    <3>2. nc[i] = c[i].func /\ c[i] = a[i] /\ na[i] = a[i].func /\ j[i] = na[i]
      BY <1>3, <1>4, <1>6, <1>8, <3>1
    <3> QED
      BY <3>2
  <2>2. CASE ~(i <= Len(a))
    <3>1. PICK m : m = i - Len(a)
      OBVIOUS
    <3>2. m \in 1 .. Len(b) /\ i = Len(a) + m
      BY <1>3, <1>9, <2>2, <3>1
    <3>3. nc[i] = c[i].func /\ c[i] = b[m] /\ nb[m] = b[m].func /\ j[i] = nb[m]
      BY <1>3, <1>5, <1>6, <1>8, <3>2
    <3> QED
      BY <3>3
  <2> QED
    BY <2>1, <2>2
<1>11. nc = j
  BY <1>3, <1>6, <1>8, <1>10
<1> QED
  BY <1>1, <1>3, <1>7, <1>11

(* The functions of a list that was made for them, and of one that was     *)
(* linked backwards.                                                       *)
LEMMA FuncsInNew ==
    ASSUME CbInv, NEW t \in Threads, pool[t].init, NEW fs \in Seq(Nat)
    PROVE  /\ FuncsIn(NewFuncs(t, fs)) = fs
           /\ FuncsIn(Reverse(NewFuncs(t, Reverse(fs)))) = fs
<1>1. ASSUME NEW gs \in Seq(Nat)
      PROVE  /\ NewFuncs(t, gs) \in Seq(Func) /\ Len(NewFuncs(t, gs)) = Len(gs)
             /\ \A i \in 1 .. Len(gs) : NewFuncs(t, gs)[i].func = gs[i]
  <2>1. PICK l, ns, n : /\ l = NewFuncs(t, gs) /\ n = Len(gs)
                        /\ ns = RentedAll(pool[t], chunks + 1, Len(gs))
    OBVIOUS
  <2>2. l \in Seq(Func)
    BY <2>1, NewLists
  <2>3. DOMAIN gs = 1 .. n /\ n \in Nat
    BY <2>1
  <2>4. l = [i \in 1 .. n |-> [node |-> ns[i], func |-> gs[i]]]
    BY <2>1, <2>3 DEF NewFuncs, Called
  <2>5. \A i \in 1 .. n : l[i].func = gs[i]
    BY <2>4
  <2>6. Len(l) = n
    BY <2>2, <2>3, <2>4
  <2> QED
    BY <2>1, <2>2, <2>5, <2>6
<1>2. PICK n, l, r, m, b : /\ n = Len(fs) /\ l = NewFuncs(t, fs) /\ r = Reverse(fs)
                           /\ m = NewFuncs(t, r) /\ b = Reverse(m)
  OBVIOUS
<1>3. n \in Nat /\ fs = [i \in 1 .. n |-> fs[i]]
  BY <1>2
<1>4. l \in Seq(Func) /\ Len(l) = n /\ \A i \in 1 .. n : l[i].func = fs[i]
  BY <1>1, <1>2
<1>5. FuncsIn(l) = fs
  <2>1. DOMAIN l = 1 .. n
    BY <1>4
  <2> QED
    BY <1>3, <1>4, <2>1 DEF FuncsIn
<1>6. r \in Seq(Nat) /\ Len(r) = n /\ \A i \in 1 .. n : r[i] = fs[(n - i) + 1]
  BY <1>2, ReversedSeq
<1>7. m \in Seq(Func) /\ Len(m) = n /\ \A i \in 1 .. n : m[i].func = r[i]
  BY <1>1, <1>2, <1>6
<1>8. b \in Seq(Func) /\ Len(b) = n /\ \A i \in 1 .. n : b[i] = m[(n - i) + 1]
  BY <1>2, <1>7, ReversedSeq
<1>9. \A i \in 1 .. n : (n - i) + 1 \in 1 .. n /\ (n - ((n - i) + 1)) + 1 = i
  BY <1>3
<1>10. ASSUME NEW i \in 1 .. n PROVE b[i].func = fs[i]
  <2>1. PICK j : j = (n - i) + 1
    OBVIOUS
  <2>2. j \in 1 .. n /\ (n - j) + 1 = i
    BY <1>9, <2>1
  <2>3. b[i] = m[j] /\ m[j].func = r[j] /\ r[j] = fs[i]
    BY <1>6, <1>7, <1>8, <2>1, <2>2
  <2> QED
    BY <2>3
<1>11. FuncsIn(b) = fs
  <2>1. DOMAIN b = 1 .. n
    BY <1>8
  <2> QED
    BY <1>3, <1>10, <2>1 DEF FuncsIn
<1> QED
  BY <1>2, <1>5, <1>11

(* The functions of a list without its first.                              *)
LEMMA FuncsInTail ==
    ASSUME NEW l \in Seq(Func), l # <<>>
    PROVE  Starts(FuncsIn(l), Head(l).func, FuncsIn(Tail(l)))
<1>1. PICK r, n, fs, gs : r = Tail(l) /\ n = Len(l) /\ fs = FuncsIn(l) /\ gs = FuncsIn(r)
  OBVIOUS
<1>2. /\ r \in Seq(Func) /\ Len(r) = n - 1 /\ n \in Nat \ {0} /\ Head(l) = l[1]
      /\ \A i \in 1 .. n - 1 : r[i] = l[i + 1]
  BY <1>1
<1>3. fs \in Seq(Nat) /\ Len(fs) = n /\ \A i \in 1 .. n : fs[i] = l[i].func
  BY <1>1, FuncsInList
<1>4. gs \in Seq(Nat) /\ Len(gs) = n - 1 /\ \A i \in 1 .. n - 1 : gs[i] = r[i].func
  BY <1>1, <1>2, FuncsInList
<1>5. 1 \in 1 .. n /\ (n - 1) + 1 = n /\ \A i \in 1 .. n - 1 : i + 1 \in 1 .. n
  BY <1>2
<1>6. fs[1] = Head(l).func
  BY <1>2, <1>3, <1>5
<1>7. ASSUME NEW i \in 1 .. n - 1 PROVE fs[i + 1] = gs[i]
  <2>1. fs[i + 1] = l[i + 1].func
    BY <1>3, <1>5, Zenon
  <2>2. gs[i] = r[i].func /\ r[i] = l[i + 1]
    BY <1>2, <1>4, Zenon
  <2> QED
    BY <2>1, <2>2, Zenon
<1>8. Starts(fs, Head(l).func, gs)
  BY <1>3, <1>4, <1>5, <1>6, <1>7 DEF Starts
<1> QED
  BY <1>1, <1>8

-----------------------------------------------------------------------------
(* The functions of every callback meet the items on its stack.            *)
CbMeets(c) == Meets(FuncsIn(c.funclist), c.stack.items)
ItemsMeet == \A k \in Cbs : CbMeets(cb[k])

(* One callback becomes c.                                                 *)
LEMMA OneCbMeets ==
    ASSUME NodeTypes, ItemsMeet, NEW k \in Cbs, NEW c, cb' = [cb EXCEPT ![k] = c], CbMeets(c)
    PROVE  ItemsMeet'
<1>1. \A i \in Cbs : cb'[i] = c \/ cb'[i] = cb[i]
  BY DEF NodeTypes
<1>2. \A i \in Cbs : CbMeets(cb'[i])
  BY <1>1, Zenon DEF ItemsMeet
<1> QED
  BY <1>2 DEF ItemsMeet, CbMeets

(* A callback that gets functions and items of others on the side where    *)
(* they belong.                                                            *)
LEMMA CbJoined ==
    ASSUME NEW a \in Seq(Func), NEW b \in Seq(Func), NEW x, NEW y,
           Meets(FuncsIn(a), x), Meets(FuncsIn(b), y), NEW c,
           c.funclist = a \o b, c.stack.items = y \o x
    PROVE  CbMeets(c)
<1>1. PICK l, s, fa, fb, fc : /\ l = a \o b /\ s = y \o x
                              /\ fa = FuncsIn(a) /\ fb = FuncsIn(b) /\ fc = FuncsIn(l)
  OBVIOUS
<1>2. Joins(Func, a, b, l)
  BY <1>1 DEF Joins
<1>3. Joins(Nat, fa, fb, fc)
  BY <1>1, <1>2, FuncsInJoined
<1>4. Joins(Nat, y, x, s)
  BY <1>1 DEF Joins, Meets
<1>5. Meets(fa, x) /\ Meets(fb, y)
  BY <1>1
<1>6. Meets(fc, s)
  BY <1>3, <1>4, <1>5, MeetsJoined
<1> QED
  BY <1>1, <1>6 DEF CbMeets

(* The list and the items of a callback.                                   *)
LEMMA ListAndItems ==
    ASSUME CbInv, ItemsMeet, NEW k \in Cbs
    PROVE  /\ cb[k].funclist \in Seq(Func) /\ cb[k].stack.items \in Seq(Nat)
           /\ FuncsOf(k) = FuncsIn(cb[k].funclist) /\ FuncsOf(k) \in Seq(Nat)
           /\ Meets(FuncsOf(k), cb[k].stack.items)
           /\ Meets(FuncsIn(cb[k].funclist), cb[k].stack.items)
<1>1. FuncsOf(k) = FuncsIn(cb[k].funclist)
  BY DEF FuncsOf, FuncsIn
<1>2. Meets(FuncsIn(cb[k].funclist), cb[k].stack.items)
  BY DEF ItemsMeet, CbMeets
<1>3. cb[k].funclist \in Seq(Func) /\ FuncsOf(k) \in Seq(Nat)
  BY ListOf
<1>4. cb[k].stack.items \in Seq(Nat)
  BY <1>2 DEF Meets
<1> QED
  BY <1>1, <1>2, <1>3, <1>4

(* New functions and the items they are made for.                          *)
LEMMA NewMeets ==
    ASSUME CbInv, NEW t \in Threads, pool[t].init, NEW fs \in Seq(Nat), NEW xs, Meets(fs, xs),
           NEW l, l = NewFuncs(t, fs) \/ l = Reverse(NewFuncs(t, Reverse(fs)))
    PROVE  l \in Seq(Func) /\ Meets(FuncsIn(l), xs)
<1>1. FuncsIn(l) = fs
  BY FuncsInNew
<1>2. PICK r : r = Reverse(fs)
  OBVIOUS
<1>3. r \in Seq(Nat)
  BY <1>2, ReversedSeq
<1>4. l \in Seq(Func)
  <2>1. CASE l = NewFuncs(t, fs)
    BY <2>1, NewLists
  <2>2. CASE l = Reverse(NewFuncs(t, r))
    BY <1>3, <2>2, NewLists
  <2> QED
    BY <1>2, <2>1, <2>2
<1> QED
  BY <1>1, <1>4

(* A function and the item it pops are put before the others.              *)
LEMMA PrependCallMeets ==
    ASSUME CbInv, ItemsMeet, NEW t \in Threads, NEW k \in Cbs, PrependCall(t, k)
    PROVE  ItemsMeet'
<1>1. PICK n, fs, l, old, xs, c : /\ n = chunks + 1 /\ fs = <<n>> /\ l = NewFuncs(t, fs)
                                  /\ old = cb[k].funclist /\ xs = cb[k].stack.items
                                  /\ c = [stack |-> StackPush(cb[k].stack, n),
                                          funclist |-> l \o old]
  OBVIOUS
<1>2. pool[t].init /\ cb' = [cb EXCEPT ![k] = c] /\ NodeTypes
  BY <1>1 DEF PrependCall, Mine, CbInv
<1>3. n \in Nat /\ n > 0 /\ fs \in Seq(Nat)
  BY <1>1 DEF CbInv, NodeTypes
<1>4. Meets(fs, fs)
  BY <1>1, <1>3, MeetsSingle
<1>5. l \in Seq(Func) /\ Meets(FuncsIn(l), fs)
  BY <1>1, <1>2, <1>3, <1>4, NewMeets
<1>6. old \in Seq(Func) /\ xs \in Seq(Nat) /\ Meets(FuncsIn(old), xs)
  BY <1>1, ListAndItems
<1>7. c.funclist = l \o old /\ c.stack.items = xs \o fs
  <2>1. c.stack.items = Append(xs, n)
    BY <1>1 DEF StackPush
  <2>2. Append(xs, n) = xs \o fs
    BY <1>1, <1>3, <1>6, AppendIsConcat
  <2> QED
    BY <1>1, <2>1, <2>2
<1>8. CbMeets(c)
  BY <1>5, <1>6, <1>7, CbJoined
<1> QED
  BY <1>2, <1>8, OneCbMeets

(* A function that pops nothing is put after the others.                   *)
LEMMA AppendFuncMeets ==
    ASSUME CbInv, ItemsMeet, NEW t \in Threads, NEW k \in Cbs, AppendFunc(t, k)
    PROVE  ItemsMeet'
<1>1. PICK fs, xs, l, old, ys, st, c : /\ fs = <<0>> /\ xs = <<>> /\ l = NewFuncs(t, fs)
                                       /\ old = cb[k].funclist /\ st = cb[k].stack
                                       /\ ys = st.items
                                       /\ c = [stack |-> st, funclist |-> old \o l]
  OBVIOUS
<1>2. pool[t].init /\ NodeTypes
  BY DEF AppendFunc, Mine, CbInv
<1>3. cb' = [cb EXCEPT ![k] = c]
  <2>1. PICK r, m : r = cb[k] /\ m = old \o l
    OBVIOUS
  <2>2. cb' = [cb EXCEPT ![k] = [r EXCEPT !.funclist = m]]
    BY <1>1, <2>1 DEF AppendFunc
  <2>3. r = [stack |-> st, funclist |-> old]
    BY <1>1, <1>2, <2>1 DEF NodeTypes
  <2>4. [r EXCEPT !.funclist = m] = [stack |-> st, funclist |-> m]
    BY <2>3
  <2> QED
    BY <1>1, <2>1, <2>2, <2>4
<1>4. fs \in Seq(Nat) /\ Meets(fs, xs)
  BY <1>1, MeetsSingle
<1>5. l \in Seq(Func) /\ Meets(FuncsIn(l), xs)
  BY <1>1, <1>2, <1>4, NewMeets
<1>6. old \in Seq(Func) /\ ys \in Seq(Nat) /\ Meets(FuncsIn(old), ys)
  BY <1>1, ListAndItems
<1>7. c.funclist = old \o l /\ c.stack.items = xs \o ys
  BY <1>1, <1>6
<1>8. CbMeets(c)
  BY <1>5, <1>6, <1>7, CbJoined
<1> QED
  BY <1>2, <1>3, <1>8, OneCbMeets

(* The functions of another callback run first: their items go on top.     *)
LEMMA PrependCbMeets ==
    ASSUME CbInv, ItemsMeet, NEW t \in Threads, NEW k \in Cbs, NEW j \in Cbs, PrependCb(t, k, j)
    PROVE  ItemsMeet'
<1>1. PICK fs, l, old, xs, ys, c : /\ fs = FuncsOf(j) /\ l = Reverse(NewFuncs(t, Reverse(fs)))
                                   /\ old = cb[k].funclist /\ xs = cb[k].stack.items
                                   /\ ys = cb[j].stack.items
                                   /\ c = [stack |-> StackPushArr(cb[k].stack, ys),
                                           funclist |-> l \o old]
  OBVIOUS
<1>2. pool[t].init /\ cb' = [cb EXCEPT ![k] = c] /\ NodeTypes
  BY <1>1 DEF PrependCb, Mine, CbInv
<1>3. fs \in Seq(Nat) /\ Meets(fs, ys)
  BY <1>1, ListAndItems
<1>4. l \in Seq(Func) /\ Meets(FuncsIn(l), ys)
  BY <1>1, <1>2, <1>3, NewMeets
<1>5. old \in Seq(Func) /\ Meets(FuncsIn(old), xs)
  BY <1>1, ListAndItems
<1>6. c.funclist = l \o old /\ c.stack.items = xs \o ys
  BY <1>1 DEF StackPushArr
<1>7. CbMeets(c)
  BY <1>4, <1>5, <1>6, CbJoined
<1> QED
  BY <1>2, <1>7, OneCbMeets

(* The functions of another callback run last: their items go to the       *)
(* bottom.                                                                 *)
LEMMA AppendCbMeets ==
    ASSUME CbInv, ItemsMeet, NEW t \in Threads, NEW k \in Cbs, NEW j \in Cbs, AppendCb(t, k, j)
    PROVE  ItemsMeet'
<1>1. PICK fs, l, old, xs, ys, st, c : /\ fs = FuncsOf(j) /\ l = NewFuncs(t, fs)
                                       /\ old = cb[k].funclist /\ st = cb[k].stack
                                       /\ xs = st.items /\ ys = cb[j].stack.items
                                       /\ c = [stack |-> StackInsertArr(st, 0, ys),
                                               funclist |-> old \o l]
  OBVIOUS
<1>2. pool[t].init /\ cb' = [cb EXCEPT ![k] = c] /\ NodeTypes
  BY <1>1 DEF AppendCb, Mine, CbInv
<1>3. fs \in Seq(Nat) /\ ys \in Seq(Nat) /\ Meets(fs, ys)
  BY <1>1, ListAndItems
<1>4. l \in Seq(Func) /\ Meets(FuncsIn(l), ys)
  BY <1>1, <1>2, <1>3, NewMeets
<1>5. old \in Seq(Func) /\ xs \in Seq(Nat) /\ Meets(FuncsIn(old), xs)
  BY <1>1, ListAndItems
<1>6. StackInsertArr(st, 0, ys).items = ys \o xs
  <2>1. At(st, 0) = 0
    BY DEF At
  <2>2. StackInsertArr(st, 0, ys).items
          = SubSeq(xs, 1, 0) \o ys \o SubSeq(xs, 0 + 1, Len(xs))
    BY <1>1, <2>1 DEF StackInsertArr, Count
  <2>3. SubSeq(xs, 1, 0) = <<>> /\ SubSeq(xs, 0 + 1, Len(xs)) = xs
    BY <1>5, SubSeqEmpty, SubSeqFull
  <2>4. <<>> \o ys = ys
    BY <1>3
  <2> QED
    BY <2>2, <2>3, <2>4
<1>7. c.funclist = old \o l /\ c.stack.items = ys \o xs
  BY <1>1, <1>6
<1>8. CbMeets(c)
  BY <1>4, <1>5, <1>7, CbJoined
<1> QED
  BY <1>2, <1>8, OneCbMeets

(* A clone gets the functions and the items in their order.                *)
LEMMA CloneMeets ==
    ASSUME CbInv, ItemsMeet, NEW t \in Threads, NEW k \in Cbs, NEW j \in Cbs, Clone(t, k, j)
    PROVE  ItemsMeet'
<1>1. PICK fs, l, xs, c : /\ fs = FuncsOf(k) /\ l = NewFuncs(t, fs) /\ xs = cb[k].stack.items
                          /\ c = [stack |-> StackPushArr(NoCb.stack, xs), funclist |-> l]
  OBVIOUS
<1>2. pool[t].init /\ cb' = [cb EXCEPT ![j] = c] /\ NodeTypes
  BY <1>1 DEF Clone, Mine, CbInv
<1>3. fs \in Seq(Nat) /\ xs \in Seq(Nat) /\ Meets(fs, xs)
  BY <1>1, ListAndItems
<1>4. Meets(FuncsIn(l), xs)
  BY <1>1, <1>2, <1>3, NewMeets
<1>5. NoCb.stack.items = <<>>
  BY DEF NoCb, StackCreate
<1>6. StackPushArr(NoCb.stack, xs).items = <<>> \o xs
  BY <1>5 DEF StackPushArr
<1>7. c.funclist = l /\ c.stack.items = xs
  BY <1>1, <1>3, <1>6
<1>8. CbMeets(c)
  BY <1>4, <1>7 DEF CbMeets
<1> QED
  BY <1>2, <1>8, OneCbMeets

(* An empty callback has neither functions nor items.                      *)
LEMMA NoCbMeets == CbMeets(NoCb)
<1>1. NoCb.stack.items = <<>> /\ NoCb.funclist = <<>>
  BY DEF NoCb, StackCreate
<1>2. FuncsIn(<<>>) = <<>>
  BY DEF FuncsIn
<1> QED
  BY <1>1, <1>2, MeetsSingle DEF CbMeets

(* A function that is run pops its own item, or nothing.                   *)
LEMMA InvokeMeets ==
    ASSUME CbInv, ItemsMeet, NEW t \in Threads, NEW k \in Cbs, Invoke(t, k)
    PROVE  ItemsMeet'
<1>1. PICK l, f, st, xs, pops, c :
        /\ l = cb[k].funclist /\ f = Head(l).func /\ st = cb[k].stack /\ xs = st.items
        /\ pops = (f > 0)
        /\ c = [stack |-> IF pops THEN StackPop(st) ELSE st, funclist |-> Tail(l)]
  OBVIOUS
<1>2. cb' = [cb EXCEPT ![k] = c] /\ NodeTypes /\ l # <<>>
  BY <1>1 DEF Invoke, CbInv
<1>3. l \in Seq(Func) /\ xs \in Seq(Nat) /\ Meets(FuncsIn(l), xs)
  BY <1>1, ListAndItems
<1>4. PICK fs, gs : fs = FuncsIn(l) /\ gs = FuncsIn(Tail(l))
  OBVIOUS
<1>5. Starts(fs, f, gs)
  BY <1>1, <1>2, <1>3, <1>4, FuncsInTail
<1>6. Meets(fs, xs)
  BY <1>3, <1>4
<1>7. CASE f > 0
  <2>1. Len(xs) > 0 /\ \A x, ys : Ends(xs, x, ys) => Meets(gs, ys)
    BY <1>5, <1>6, <1>7, MeetsFirst
  <2>2. PICK m, ys : m = Len(xs) - 1 /\ ys = Front(xs)
    OBVIOUS
  <2>3. m \in Nat /\ Len(xs) = m + 1 /\ Len(xs) - 1 = m
    BY <1>3, <2>1, <2>2
  <2>4. ys = SubSeq(xs, 1, m)
    BY <2>2, <2>3 DEF Front
  <2>5. ys = [i \in 1 .. m |-> xs[i]] /\ \A i \in 1 .. m : xs[i] \in Nat
    BY <1>3, <2>3, <2>4
  <2>6. ys \in Seq(Nat) /\ Len(ys) = m /\ \A i \in 1 .. m : xs[i] = ys[i]
    BY <2>3, <2>5
  <2>7. Ends(xs, xs[m + 1], ys)
    BY <1>3, <2>3, <2>6 DEF Ends
  <2>8. Meets(gs, ys)
    BY <2>1, <2>7
  <2>9. c.funclist = Tail(l) /\ c.stack.items = ys
    BY <1>1, <1>7, <2>2 DEF StackPop
  <2>10. CbMeets(c)
    BY <1>4, <2>8, <2>9 DEF CbMeets
  <2> QED
    BY <1>2, <2>10, OneCbMeets
<1>8. CASE ~(f > 0)
  <2>1. Meets(gs, xs)
    BY <1>5, <1>6, <1>8, MeetsFirst
  <2>2. c.funclist = Tail(l) /\ c.stack.items = xs
    BY <1>1, <1>8
  <2>3. CbMeets(c)
    BY <1>4, <2>1, <2>2 DEF CbMeets
  <2> QED
    BY <1>2, <2>3, OneCbMeets
<1> QED
  BY <1>7, <1>8

(* At the start the items meet their functions: there are none.            *)
LEMMA CbInitMeets == Init => ItemsMeet
<1> SUFFICES ASSUME Init, NEW k \in Cbs PROVE CbMeets(cb[k])
  BY DEF ItemsMeet
<1>1. cb[k] = NoCb
  BY DEF Init
<1> QED
  BY <1>1, NoCbMeets

(* Every step keeps it.                                                    *)
LEMMA CbNextMeets == CbInv /\ ItemsMeet /\ [Next]_vars => ItemsMeet'
<1> SUFFICES ASSUME CbInv, ItemsMeet, [Next]_vars PROVE ItemsMeet'
  OBVIOUS
<1>1. ASSUME cb' = cb PROVE ItemsMeet'
  BY <1>1 DEF ItemsMeet, CbMeets
<1>2. CASE UNCHANGED vars
  BY <1>1, <1>2 DEF vars
<1>3. ASSUME NEW t \in Threads, ThrdInit(t) \/ Taken(t) \/ ThrdQuit(t) \/ Left(t) PROVE ItemsMeet'
  BY <1>1, <1>3 DEF ThrdInit, Taken, ThrdQuit, Left, Leave, Enqueue
<1>4. CASE Exit \/ MainQuit \/ LinkpoolQuit
  BY <1>1, <1>4 DEF Exit, MainQuit, LinkpoolQuit, Leave, Enqueue
<1>5. ASSUME NEW t \in Threads, NEW k \in Cbs, Create(t, k) \/ InvokeAsync(t, k) \/ Take(t, k)
      PROVE  ItemsMeet'
  BY <1>1, <1>5 DEF Create, InvokeAsync, Take
<1>6. ASSUME NEW t \in Threads, NEW k \in Cbs, PrependCall(t, k) \/ AppendFunc(t, k)
      PROVE  ItemsMeet'
  BY <1>6, PrependCallMeets, AppendFuncMeets
<1>7. ASSUME NEW t \in Threads, NEW k \in Cbs, Destroy(t, k) \/ InvokeLast(t, k)
      PROVE  ItemsMeet'
  <2>1. cb' = [cb EXCEPT ![k] = NoCb] /\ NodeTypes
    BY <1>7 DEF Destroy, InvokeLast, CbInv
  <2> QED
    BY <2>1, NoCbMeets, OneCbMeets
<1>8. ASSUME NEW t \in Threads, NEW k \in Cbs, Invoke(t, k) PROVE ItemsMeet'
  BY <1>8, InvokeMeets
<1>9. ASSUME NEW t \in Threads, NEW k \in Cbs, NEW j \in Cbs,
             PrependCb(t, k, j) \/ AppendCb(t, k, j) \/ Clone(t, k, j)
      PROVE  ItemsMeet'
  BY <1>9, PrependCbMeets, AppendCbMeets, CloneMeets
<1> QED
  BY <1>2, <1>3, <1>4, <1>5, <1>6, <1>7, <1>8, <1>9 DEF Next, Step

(* Meeting is what the property asks for.                                  *)
LEMMA MeetingIsFinding == CbInv /\ ItemsMeet => FindsItsItem
<1> SUFFICES ASSUME CbInv, ItemsMeet, NEW k \in Cbs
             PROVE  LET items == cb[k].stack.items IN
                    /\ Len(items) = Cardinality(Callers(k))
                    /\ \A i \in Callers(k) :
                         items[Len(items) - Before(k, i)] = cb[k].funclist[i].func
  BY DEF FindsItsItem
<1>1. PICK l, fs, xs, C : /\ l = cb[k].funclist /\ fs = FuncsIn(l) /\ xs = cb[k].stack.items
                          /\ C = Callers(k)
  OBVIOUS
<1>2. l \in Seq(Func) /\ Meets(fs, xs)
  BY <1>1, ListAndItems
<1>3. fs \in Seq(Nat) /\ Len(fs) = Len(l) /\ DOMAIN l = 1 .. Len(l)
      /\ \A i \in 1 .. Len(l) : fs[i] = l[i].func
  BY <1>1, <1>2, FuncsInList
<1>4. C = PopsIn(fs)
  BY <1>1, <1>3 DEF Callers, PopsIn
<1>5. /\ Len(xs) = Cardinality(C)
      /\ \A i \in C : xs[Len(xs) - PopsBefore(fs, i)] = fs[i]
  BY <1>2, <1>4, MeetsFinds
<1>6. ASSUME NEW i \in C PROVE xs[Len(xs) - Before(k, i)] = l[i].func
  <2>1. Before(k, i) = PopsBefore(fs, i)
    BY <1>1, <1>4 DEF Before, PopsBefore
  <2>2. fs[i] = l[i].func
    BY <1>3, <1>4 DEF PopsIn
  <2> QED
    BY <1>5, <2>1, <2>2
<1> QED
  BY <1>1, <1>5, <1>6

(* However callbacks were merged, cloned, handed over and run, every       *)
(* function finds its own item on top when its turn comes.                 *)
THEOREM FunctionsFindTheirItems == Spec => []FindsItsItem
  BY CbInitInv, CbNextInv, CbInitMeets, CbNextMeets, MeetingIsFinding, PTL DEF Spec
=============================================================================
