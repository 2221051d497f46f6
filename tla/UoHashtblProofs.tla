--------------------------- MODULE UoHashtblProofs ---------------------------
(***************************************************************************)
(* The hash table implements the ordered map, for any keys, values, hash   *)
(* function and minimal capacity.  What the map shows is the sequence of   *)
(* items the list goes through (Items); collisions, tombstones and         *)
(* rebuilding stay behind the invariant Sound.                             *)
(***************************************************************************)
EXTENDS UoHashtbl, NaturalFacts, FiniteSetTheorems, SequenceTheorems, TLAPS

Item == [key : Keys, value : Values]
Link == {Empty, Tomb} \cup Item

Used(tbl, cap)  == {s \in 0 .. cap - 1 : tbl[s].key # NoKey}
Tombs(tbl, cap) == {s \in 0 .. cap - 1 : tbl[s].value = REMOVED}

(* A table: each slot is free, marked or holds an item; the list goes      *)
(* through the items once each; a probe for an item's key meets only       *)
(* slots that it skips before it comes to the item.                        *)
Linked(tbl, ls, cap) ==
    /\ cap \in Nat \ {0}
    /\ tbl \in [0 .. cap - 1 -> Link]
    /\ ls \in Seq(0 .. cap - 1)
    /\ \A i, j \in 1 .. Len(ls) : ls[i] = ls[j] => i = j
    /\ \A s \in 0 .. cap - 1 : tbl[s].key # NoKey <=> \E i \in 1 .. Len(ls) : ls[i] = s
    /\ Cardinality(Used(tbl, cap)) = Len(ls)

Reached(tbl, cap, s) ==
    \E n \in 0 .. cap - 1 :
        /\ At(cap, tbl[s].key, n) = s
        /\ \A m \in 0 .. n - 1 : Skips(tbl[At(cap, tbl[s].key, m)], tbl[s].key)

Sound(tbl, ls, cap) ==
    /\ Linked(tbl, ls, cap)
    /\ \A s \in 0 .. cap - 1 : tbl[s].key # NoKey => Reached(tbl, cap, s)

-----------------------------------------------------------------------------
(* An item is neither a free slot nor a tombstone.                         *)
LEMMA LinkKinds ==
    /\ Empty.key = NoKey /\ Empty.value = NULL /\ Tomb.key = NoKey /\ Tomb.value = REMOVED
    /\ \A x \in Item : /\ x.key \in Keys /\ x.key # NoKey
                       /\ x.value \in Values /\ x.value # REMOVED /\ x.value # NULL
    /\ \A x \in Link : /\ x.key # NoKey => x \in Item
                       /\ x.key = NoKey /\ x.value # REMOVED => x = Empty
                       /\ x.key = NoKey /\ x.value = REMOVED => x = Tomb
BY HashtblConstants DEF Link, Item, Empty, Tomb

(* A slot of the table.                                                    *)
LEMMA AtSlot ==
    ASSUME NEW cap \in Nat \ {0}, NEW k \in Keys, NEW n \in Nat
    PROVE  At(cap, k, n) \in 0 .. cap - 1
<1>1. Hash[k] + n \in Int
  BY HashtblConstants
<1> QED
  BY <1>1, DivMod DEF At

(* From wherever a probe starts it comes to every slot.                    *)
LEMMA Reaches ==
    ASSUME NEW cap \in Nat \ {0}, NEW k \in Keys, NEW s \in 0 .. cap - 1
    PROVE  \E n \in 0 .. cap - 1 : At(cap, k, n) = s
<1> DEFINE h == Hash[k] % cap
<1>1. Hash[k] \in Nat /\ h \in 0 .. cap - 1
  BY HashtblConstants, DivMod
<1>2. ASSUME NEW n \in Int PROVE (h + n) % cap = (Hash[k] + n) % cap
  <2>1. PICK one \in Nat \ {0} : one * cap = cap
    <3>1. 1 * cap = cap
      OBVIOUS
    <3> QED
      BY <3>1
  <2>2. Hash[k] \in Int
    BY <1>1
  <2>3. ((Hash[k] % (one * cap)) + n) % cap = (Hash[k] + n) % cap
    BY <1>2, <2>2, ModAdd
  <2> QED
    BY <2>1, <2>3
<1> HIDE DEF h
<1>3. CASE h <= s
  <2>1. s - h \in 0 .. cap - 1 /\ (h + (s - h)) = s
    BY <1>1, <1>3
  <2>2. s % cap = s
    BY SmallMod
  <2> QED
    BY <1>2, <2>1, <2>2 DEF At
<1>4. CASE ~(h <= s)
  <2>1. (s - h) + cap \in 0 .. cap - 1 /\ (h + ((s - h) + cap)) = s + cap
    BY <1>1, <1>4
  <2>2. (s + cap) % cap = s
    BY SmallMod
  <2> QED
    BY <1>2, <2>1, <2>2 DEF At
<1> QED
  BY <1>3, <1>4

(* A slot that does not let a probe go on ends it, there or before.        *)
LEMMA FirstStop ==
    ASSUME NEW cap \in Nat \ {0}, NEW k \in Keys, NEW tbl, NEW n \in 0 .. cap - 1,
           ~Skips(tbl[At(cap, k, n)], k)
    PROVE  \E m \in 0 .. cap - 1 : Ends(tbl, cap, k, m)
<1> DEFINE S == {m \in 0 .. cap - 1 : ~Skips(tbl[At(cap, k, m)], k)}
<1>1. S \subseteq Nat /\ S # {}
  OBVIOUS
<1>2. PICK m \in S : \A y \in S : m <= y
  BY <1>1, LeastElement
<1>3. ASSUME NEW y \in 0 .. m - 1 PROVE Skips(tbl[At(cap, k, y)], k)
  <2>1. y \in 0 .. cap - 1 /\ ~(m <= y)
    BY <1>2
  <2> QED
    BY <1>2, <2>1
<1> QED
  BY <1>2, <1>3 DEF Ends

(* A probe has one end.                                                    *)
LEMMA OneEnd ==
    ASSUME NEW cap \in Nat \ {0}, NEW k \in Keys, NEW tbl, NEW m \in 0 .. cap - 1,
           NEW n \in 0 .. cap - 1, Ends(tbl, cap, k, m), Ends(tbl, cap, k, n)
    PROVE  m = n
<1>1. ~(m < n)
  BY DEF Ends
<1>2. ~(n < m)
  BY DEF Ends
<1> QED
  BY <1>1, <1>2

(* uo_hashtbl_find_link returns the slot at the end of the probe.          *)
LEMMA FindsEnd ==
    ASSUME NEW cap \in Nat \ {0}, NEW k \in Keys, NEW tbl, NEW n \in 0 .. cap - 1,
           Ends(tbl, cap, k, n)
    PROVE  FindLink(tbl, cap, k) = At(cap, k, n)
<1> DEFINE m == CHOOSE m \in 0 .. cap - 1 : Ends(tbl, cap, k, m)
<1>1. m \in 0 .. cap - 1 /\ Ends(tbl, cap, k, m)
  OBVIOUS
<1>2. FindLink(tbl, cap, k) = At(cap, k, m)
  BY DEF FindLink
<1> HIDE DEF m
<1>3. m = n
  BY <1>1, OneEnd
<1> QED
  BY <1>2, <1>3

-----------------------------------------------------------------------------
(* A table with fewer items and tombstones than slots has a free slot.     *)
LEMMA FreeSlot ==
    ASSUME NEW tbl, NEW ls, NEW cap, Linked(tbl, ls, cap),
           Len(ls) + Cardinality(Tombs(tbl, cap)) < cap
    PROVE  \E s \in 0 .. cap - 1 : tbl[s] = Empty
<1> DEFINE U == Used(tbl, cap)
           T == Tombs(tbl, cap)
           S == 0 .. cap - 1
<1> SUFFICES ASSUME \A s \in S : tbl[s] # Empty PROVE FALSE
  OBVIOUS
<1>1. cap \in Nat \ {0} /\ \A s \in S : tbl[s] \in Link
  BY DEF Linked
<1>2. IsFiniteSet(S) /\ Cardinality(S) = cap
  BY <1>1, FS_Interval
<1>3. U \in SUBSET S /\ T \in SUBSET S
  BY DEF Used, Tombs
<1>4. U \cup T = S
  BY <1>1, LinkKinds DEF Used, Tombs
<1>5. IsFiniteSet(U) /\ IsFiniteSet(T)
  BY <1>2, <1>3, FS_Subset
<1>6. Cardinality(U \cup T) = Cardinality(U) + Cardinality(T) - Cardinality(U \cap T)
  BY <1>5, FS_Union
<1>7. Cardinality(U) \in Nat /\ Cardinality(T) \in Nat
  BY <1>5, FS_CardinalityType
<1>8. IsFiniteSet(U \cap T)
  BY <1>5, FS_Intersection
<1>9. Cardinality(U \cap T) \in Nat
  BY <1>8, FS_CardinalityType
<1>10. Cardinality(U) = Len(ls)
  BY DEF Linked
<1>11. Len(ls) + Cardinality(T) < cap
  OBVIOUS
<1> HIDE DEF U, T, S
<1>12. Cardinality(S) = Cardinality(U) + Cardinality(T) - Cardinality(U \cap T)
  BY <1>4, <1>6, Zenon
<1>13. \A u, t, i \in Nat : ~(u + t < u + t - i)
  OBVIOUS
<1> QED
  BY <1>2, <1>7, <1>9, <1>10, <1>11, <1>12, <1>13, Zenon

(* With a free slot every probe comes to an end.                           *)
LEMMA ProbeEnds ==
    ASSUME NEW tbl, NEW ls, NEW cap, Linked(tbl, ls, cap), NEW k \in Keys,
           \E s \in 0 .. cap - 1 : tbl[s] = Empty
    PROVE  \E n \in 0 .. cap - 1 : /\ Ends(tbl, cap, k, n)
                                    /\ FindLink(tbl, cap, k) = At(cap, k, n)
                                    /\ At(cap, k, n) \in 0 .. cap - 1
<1>1. cap \in Nat \ {0}
  BY DEF Linked
<1>2. PICK s \in 0 .. cap - 1 : tbl[s] = Empty
  OBVIOUS
<1>3. PICK n \in 0 .. cap - 1 : At(cap, k, n) = s
  BY <1>1, Reaches
<1>4. ~Skips(tbl[At(cap, k, n)], k)
  BY <1>2, <1>3, LinkKinds, HashtblConstants DEF Skips
<1>5. PICK m \in 0 .. cap - 1 : Ends(tbl, cap, k, m)
  BY <1>1, <1>4, FirstStop
<1>6. FindLink(tbl, cap, k) = At(cap, k, m)
  BY <1>1, <1>5, FindsEnd
<1>7. m \in Nat
  BY <1>5
<1>8. At(cap, k, m) \in 0 .. cap - 1
  BY <1>1, <1>7, AtSlot
<1> QED
  BY <1>5, <1>6, <1>8

(* A key that is there is found where it is.                               *)
LEMMA Present ==
    ASSUME NEW tbl, NEW ls, NEW cap, Sound(tbl, ls, cap), NEW i \in 1 .. Len(ls)
    PROVE  /\ ls[i] \in 0 .. cap - 1 /\ tbl[ls[i]] \in Item
           /\ FindLink(tbl, cap, tbl[ls[i]].key) = ls[i]
<1> DEFINE s == ls[i]
           k == tbl[s].key
<1>1. cap \in Nat \ {0} /\ s \in 0 .. cap - 1 /\ tbl[s] \in Link
  BY DEF Sound, Linked
<1>2. tbl[s].key # NoKey
  BY <1>1 DEF Sound, Linked
<1>3. tbl[s] \in Item /\ k \in Keys /\ tbl[s].value # REMOVED
  BY <1>1, <1>2, LinkKinds
<1>4. Reached(tbl, cap, s)
  BY <1>1, <1>2 DEF Sound
<1>5. PICK n \in 0 .. cap - 1 : /\ At(cap, k, n) = s
                                /\ \A m \in 0 .. n - 1 : Skips(tbl[At(cap, k, m)], k)
  BY <1>4 DEF Reached
<1>6. Ends(tbl, cap, k, n)
  BY <1>3, <1>5 DEF Ends, Skips
<1>7. FindLink(tbl, cap, k) = s
  BY <1>1, <1>3, <1>5, <1>6, FindsEnd
<1> QED
  BY <1>1, <1>3, <1>7

(* Hence no key is there twice.                                            *)
LEMMA KeysDiffer ==
    ASSUME NEW tbl, NEW ls, NEW cap, Sound(tbl, ls, cap),
           NEW i \in 1 .. Len(ls), NEW j \in 1 .. Len(ls), tbl[ls[i]].key = tbl[ls[j]].key
    PROVE  i = j
<1>1. ls[i] = ls[j]
  BY Present
<1> QED
  BY <1>1 DEF Sound, Linked

(* The slot found for a key has it, or it is free and the key is not in    *)
(* the table.                                                              *)
LEMMA FoundOrFree ==
    ASSUME NEW tbl, NEW ls, NEW cap, Sound(tbl, ls, cap), NEW k \in Keys,
           \E s \in 0 .. cap - 1 : tbl[s] = Empty
    PROVE  /\ FindLink(tbl, cap, k) \in 0 .. cap - 1
           /\ \/ /\ \E i \in 1 .. Len(ls) : ls[i] = FindLink(tbl, cap, k)
                 /\ tbl[FindLink(tbl, cap, k)].key = k
              \/ /\ tbl[FindLink(tbl, cap, k)] = Empty
                 /\ \A i \in 1 .. Len(ls) : tbl[ls[i]].key # k
<1> DEFINE s == FindLink(tbl, cap, k)
<1>1. Linked(tbl, ls, cap)
  BY DEF Sound
<1>2. PICK n \in 0 .. cap - 1 : Ends(tbl, cap, k, n) /\ s = At(cap, k, n) /\ s \in 0 .. cap - 1
  BY <1>1, ProbeEnds
<1> HIDE DEF s
<1>3. ~Skips(tbl[s], k) /\ tbl[s] \in Link
  BY <1>1, <1>2 DEF Ends, Linked
<1>4. CASE tbl[s].key = k
  <2>1. tbl[s].key # NoKey
    BY <1>4, HashtblConstants
  <2>2. \E i \in 1 .. Len(ls) : ls[i] = s
    BY <1>1, <1>2, <2>1 DEF Linked
  <2> QED
    BY <1>2, <1>4, <2>2 DEF s
<1>5. CASE tbl[s].key # k
  <2>1. tbl[s] = Empty /\ tbl[s].key = NoKey
    BY <1>3, <1>5, LinkKinds DEF Skips
  <2>2. ASSUME NEW i \in 1 .. Len(ls), tbl[ls[i]].key = k PROVE FALSE
    <3>1. s = ls[i]
      BY <2>2, Present DEF s
    <3> QED
      BY <1>5, <2>2, <3>1
  <2> QED
    BY <1>2, <2>1, <2>2 DEF s
<1> QED
  BY <1>4, <1>5

-----------------------------------------------------------------------------
(* An item is entered into the free slot that was found for it.            *)
Enters(tbl, ls, cap, x, slot, new, nls) ==
    /\ slot \in 0 .. cap - 1 /\ slot = FindLink(tbl, cap, x.key) /\ tbl[slot] = Empty
    /\ new \in [0 .. cap - 1 -> Link] /\ new[slot] = x
    /\ \A s \in 0 .. cap - 1 : s # slot => new[s] = tbl[s]
    /\ nls \in Seq(0 .. cap - 1) /\ Len(nls) = Len(ls) + 1 /\ nls[Len(ls) + 1] = slot
    /\ \A i \in 1 .. Len(ls) : nls[i] = ls[i]

(* That keeps the table sound.                                             *)
LEMMA EnterSound ==
    ASSUME NEW tbl, NEW ls, NEW cap, Sound(tbl, ls, cap), NEW x \in Item,
           NEW slot, NEW new, NEW nls, Enters(tbl, ls, cap, x, slot, new, nls)
    PROVE  Sound(new, nls, cap) /\ Tombs(new, cap) = Tombs(tbl, cap)
<1> DEFINE S == 0 .. cap - 1
<1>0. PICK n \in S : Ends(tbl, cap, x.key, n) /\ slot = At(cap, x.key, n) /\ slot \in S
  <2>1. x.key \in Keys /\ Linked(tbl, ls, cap)
    BY LinkKinds DEF Sound
  <2>2. \E s \in S : tbl[s] = Empty
    BY DEF Enters
  <2> QED
    BY <2>1, <2>2, ProbeEnds DEF Enters
<1>1. /\ cap \in Nat \ {0} /\ tbl \in [S -> Link] /\ ls \in Seq(S)
      /\ \A i, j \in 1 .. Len(ls) : ls[i] = ls[j] => i = j
      /\ \A s \in S : tbl[s].key # NoKey <=> \E i \in 1 .. Len(ls) : ls[i] = s
      /\ Cardinality(Used(tbl, cap)) = Len(ls)
      /\ \A s \in S : tbl[s].key # NoKey => Reached(tbl, cap, s)
  BY DEF Sound, Linked
<1>2. x \in Link /\ x.key \in Keys /\ x.key # NoKey /\ x.value # REMOVED /\ tbl[slot].key = NoKey
      /\ tbl[slot].value # REMOVED /\ tbl[slot] = Empty
  BY LinkKinds, HashtblConstants DEF Link, Enters
<1>3. /\ new \in [S -> Link] /\ new[slot] = x
      /\ \A s \in S : s # slot => new[s] = tbl[s]
  BY DEF Enters
<1>4. /\ nls \in Seq(S) /\ Len(nls) = Len(ls) + 1 /\ nls[Len(ls) + 1] = slot
      /\ \A i \in 1 .. Len(ls) : nls[i] = ls[i]
      /\ Len(ls) \in Nat
  BY <1>1 DEF Enters
<1>5. \A i \in 1 .. Len(ls) : ls[i] # slot
  BY <1>0, <1>1, <1>2
<1>6. \A i, j \in 1 .. Len(nls) : nls[i] = nls[j] => i = j
  <2>1. \A i \in 1 .. Len(nls) : i \in 1 .. Len(ls) \/ i = Len(ls) + 1
    BY <1>4
  <2> SUFFICES ASSUME NEW i \in 1 .. Len(nls), NEW j \in 1 .. Len(nls), nls[i] = nls[j]
               PROVE  i = j
    OBVIOUS
  <2>2. CASE i \in 1 .. Len(ls) /\ j \in 1 .. Len(ls)
    BY <1>1, <1>4, <2>2
  <2>3. CASE i = Len(ls) + 1 /\ j \in 1 .. Len(ls)
    BY <1>4, <1>5, <2>3
  <2>4. CASE j = Len(ls) + 1 /\ i \in 1 .. Len(ls)
    BY <1>4, <1>5, <2>4
  <2> QED
    BY <2>1, <2>2, <2>3, <2>4
<1>7. \A s \in S : new[s].key # NoKey <=> \E i \in 1 .. Len(nls) : nls[i] = s
  <2> TAKE s \in S
  <2>1. CASE s = slot
    BY <1>0, <1>2, <1>3, <1>4, <2>1
  <2>2. CASE s # slot
    <3>1. \A i \in 1 .. Len(nls) : i \in 1 .. Len(ls) \/ i = Len(ls) + 1
      BY <1>4
    <3>2. \A i \in 1 .. Len(ls) : i \in 1 .. Len(nls)
      BY <1>4
    <3>3. (\E i \in 1 .. Len(nls) : nls[i] = s) <=> (\E i \in 1 .. Len(ls) : ls[i] = s)
      BY <1>4, <2>2, <3>1, <3>2
    <3> QED
      BY <1>1, <1>3, <2>2, <3>3
  <2> QED
    BY <2>1, <2>2
<1>8. Cardinality(Used(new, cap)) = Len(nls)
  <2>1. Used(new, cap) = Used(tbl, cap) \cup {slot} /\ slot \notin Used(tbl, cap)
    BY <1>0, <1>2, <1>3 DEF Used
  <2>2. IsFiniteSet(Used(tbl, cap))
    <3>1. IsFiniteSet(S)
      BY <1>1, FS_Interval
    <3>2. Used(tbl, cap) \in SUBSET S
      BY DEF Used
    <3> QED
      BY <3>1, <3>2, FS_Subset
  <2>3. Cardinality(Used(tbl, cap) \cup {slot}) = Cardinality(Used(tbl, cap)) + 1
    BY <2>1, <2>2, FS_AddElement
  <2> QED
    BY <1>1, <1>4, <2>1, <2>3
<1>9. \A s \in S : new[s].key # NoKey => Reached(new, cap, s)
  <2> SUFFICES ASSUME NEW s \in S, new[s].key # NoKey PROVE Reached(new, cap, s)
    OBVIOUS
  <2>1. ASSUME NEW k, NEW t \in S, Skips(tbl[t], k) PROVE Skips(new[t], k)
    <3>1. t # slot \/ Skips(Empty, k)
      BY <1>2, <2>1
    <3>2. ~Skips(Empty, k)
      BY LinkKinds, HashtblConstants DEF Skips
    <3> QED
      BY <1>3, <2>1, <3>1, <3>2
  <2>2. CASE s = slot
    <3>1. new[s].key = x.key
      BY <1>3, <2>2
    <3>2. ASSUME NEW m \in 0 .. n - 1 PROVE Skips(new[At(cap, x.key, m)], x.key)
      <4>1. m \in Nat
        OBVIOUS
      <4>2. At(cap, x.key, m) \in S
        BY <1>1, <1>2, <4>1, AtSlot
      <4>3. Skips(tbl[At(cap, x.key, m)], x.key)
        BY <1>0 DEF Ends
      <4> QED
        BY <2>1, <4>2, <4>3
    <3> QED
      BY <1>0, <2>2, <3>1, <3>2 DEF Reached
  <2>3. CASE s # slot
    <3>1. new[s] = tbl[s] /\ tbl[s].key # NoKey /\ tbl[s].key \in Keys
      BY <1>1, <1>3, <2>3, LinkKinds
    <3>2. PICK p \in 0 .. cap - 1 :
              /\ At(cap, tbl[s].key, p) = s
              /\ \A m \in 0 .. p - 1 : Skips(tbl[At(cap, tbl[s].key, m)], tbl[s].key)
      BY <1>1, <3>1 DEF Reached
    <3>3. ASSUME NEW m \in 0 .. p - 1 PROVE Skips(new[At(cap, tbl[s].key, m)], tbl[s].key)
      <4>1. m \in Nat
        OBVIOUS
      <4>2. At(cap, tbl[s].key, m) \in S
        BY <1>1, <3>1, <4>1, AtSlot
      <4> QED
        BY <2>1, <3>2, <4>2
    <3> QED
      BY <3>1, <3>2, <3>3 DEF Reached
  <2> QED
    BY <2>2, <2>3
<1>10. Tombs(new, cap) = Tombs(tbl, cap)
  BY <1>0, <1>2, <1>3 DEF Tombs
<1>11. Sound(new, nls, cap)
  BY <1>1, <1>3, <1>4, <1>6, <1>7, <1>8, <1>9 DEF Sound, Linked
<1> QED
  BY <1>10, <1>11

-----------------------------------------------------------------------------
(* What a table shows: its items in the order of the list.                 *)
Items(tbl, ls) == [n \in 1 .. Len(ls) |-> tbl[ls[n]]]

TableOf(t, cap) == Sound(t.links, t.list, cap)
ItemsOf(t)      == Items(t.links, t.list)
Free(t, cap)    == \E s \in 0 .. cap - 1 : t.links[s] = Empty

(* The items are a sequence of items.                                      *)
LEMMA ItemsSeq ==
    ASSUME NEW tbl, NEW ls, NEW cap, Sound(tbl, ls, cap)
    PROVE  /\ Items(tbl, ls) \in Seq(Item) /\ Len(Items(tbl, ls)) = Len(ls) /\ Len(ls) \in Nat
           /\ \A i \in 1 .. Len(ls) : Items(tbl, ls)[i] = tbl[ls[i]]
<1>1. Len(ls) \in Nat
  BY DEF Sound, Linked
<1>2. \A i \in 1 .. Len(ls) : tbl[ls[i]] \in Item
  BY Present
<1> QED
  BY <1>1, <1>2 DEF Items

(* A new item is entered at the end.                                       *)
LEMMA EnteredSound ==
    ASSUME NEW t, NEW cap, TableOf(t, cap), Free(t, cap), NEW x \in Item,
           \A i \in 1 .. Len(t.list) : t.links[t.list[i]].key # x.key
    PROVE  /\ TableOf(Entered(t, cap, x), cap)
           /\ ItemsOf(Entered(t, cap, x)) = Append(ItemsOf(t), x)
           /\ Len(Entered(t, cap, x).list) = Len(t.list) + 1
           /\ Tombs(Entered(t, cap, x).links, cap) = Tombs(t.links, cap)
<1>1. PICK tbl, ls : tbl = t.links /\ ls = t.list
  OBVIOUS
<1>2. /\ Sound(tbl, ls, cap) /\ \E s \in 0 .. cap - 1 : tbl[s] = Empty
      /\ \A i \in 1 .. Len(ls) : tbl[ls[i]].key # x.key
      /\ Linked(tbl, ls, cap)
  BY <1>1 DEF TableOf, Free, Sound
<1>3. x.key \in Keys
  BY LinkKinds
<1>4. PICK slot : slot = FindLink(tbl, cap, x.key)
  OBVIOUS
<1>5. slot \in 0 .. cap - 1
  BY <1>2, <1>3, <1>4, FoundOrFree
<1>6. tbl[slot] = Empty
  <2>1. CASE tbl[slot] = Empty
    BY <2>1
  <2>2. CASE /\ \E i \in 1 .. Len(ls) : ls[i] = slot
             /\ tbl[slot].key = x.key
    BY <1>2, <2>2
  <2> QED
    BY <1>2, <1>3, <1>4, <2>1, <2>2, FoundOrFree
<1>7. PICK new, nls : new = [tbl EXCEPT ![slot] = x] /\ nls = Append(ls, slot)
  OBVIOUS
<1>8. Sound(new, nls, cap) /\ Tombs(new, cap) = Tombs(tbl, cap)
  <2>1. ls \in Seq(0 .. cap - 1) /\ tbl \in [0 .. cap - 1 -> Link] /\ x \in Link
    BY <1>2 DEF Linked, Link
  <2>2. /\ nls \in Seq(0 .. cap - 1) /\ Len(nls) = Len(ls) + 1 /\ nls[Len(ls) + 1] = slot
        /\ \A i \in 1 .. Len(ls) : nls[i] = ls[i]
    BY <1>5, <1>7, <2>1
  <2>3. /\ new \in [0 .. cap - 1 -> Link] /\ new[slot] = x
        /\ \A s \in 0 .. cap - 1 : s # slot => new[s] = tbl[s]
    BY <1>5, <1>7, <2>1
  <2>4. Enters(tbl, ls, cap, x, slot, new, nls)
    BY <1>4, <1>5, <1>6, <2>2, <2>3 DEF Enters
  <2>5. Sound(new, nls, cap)
    BY <1>2, <2>4, EnterSound
  <2>6. Tombs(new, cap) = Tombs(tbl, cap)
    BY <1>2, <2>4, EnterSound
  <2> QED
    BY <2>5, <2>6
<1>9. Entered(t, cap, x).links = new /\ Entered(t, cap, x).list = nls
  BY <1>1, <1>4, <1>7 DEF Entered
<1>10. Items(new, nls) = Append(Items(tbl, ls), x)
  <2>1. /\ Items(tbl, ls) \in Seq(Item) /\ Len(Items(tbl, ls)) = Len(ls) /\ Len(ls) \in Nat
        /\ \A i \in 1 .. Len(ls) : Items(tbl, ls)[i] = tbl[ls[i]]
    BY <1>2, ItemsSeq
  <2>2. /\ Items(new, nls) \in Seq(Item) /\ Len(Items(new, nls)) = Len(nls)
        /\ \A i \in 1 .. Len(nls) : Items(new, nls)[i] = new[nls[i]]
    BY <1>8, ItemsSeq
  <2>3. ls \in Seq(0 .. cap - 1) /\ tbl \in [0 .. cap - 1 -> Link]
    BY <1>2 DEF Linked
  <2>4. /\ Len(nls) = Len(ls) + 1 /\ nls[Len(ls) + 1] = slot
        /\ \A i \in 1 .. Len(ls) : nls[i] = ls[i]
    BY <1>5, <1>7, <2>3
  <2>5. new[slot] = x /\ \A r \in 0 .. cap - 1 : r # slot => new[r] = tbl[r]
    BY <1>5, <1>7, <2>3
  <2>6. \A i \in 1 .. Len(ls) : ls[i] # slot /\ ls[i] \in 0 .. cap - 1
    BY <1>2, <1>6, <2>3, Present, LinkKinds
  <2>7. \A i \in 1 .. Len(ls) : Items(new, nls)[i] = Items(tbl, ls)[i]
    <3> TAKE i \in 1 .. Len(ls)
    <3>1. i \in 1 .. Len(nls)
      BY <2>1, <2>4
    <3> QED
      BY <2>1, <2>2, <2>4, <2>5, <2>6, <3>1
  <2>8. Items(new, nls)[Len(ls) + 1] = x
    <3>1. Len(ls) + 1 \in 1 .. Len(nls)
      BY <2>1, <2>4
    <3> QED
      BY <2>2, <2>4, <2>5, <3>1
  <2>9. PICK A, B : A = Items(tbl, ls) /\ B = Items(new, nls)
    OBVIOUS
  <2>10. /\ A \in Seq(Item) /\ B \in Seq(Item) /\ Len(B) = Len(A) + 1
         /\ \A i \in 1 .. Len(A) : B[i] = A[i]
         /\ B[Len(A) + 1] = x
    BY <2>1, <2>2, <2>4, <2>7, <2>8, <2>9
  <2>11. B = Append(A, x)
    BY <2>10
  <2> QED
    BY <2>9, <2>11
<1>11. Len(nls) = Len(ls) + 1
  <2>1. ls \in Seq(0 .. cap - 1)
    BY <1>2 DEF Linked
  <2> QED
    BY <1>5, <1>7, <2>1
<1> QED
  BY <1>1, <1>8, <1>9, <1>10, <1>11 DEF TableOf, ItemsOf

(* The value of an item is replaced.                                       *)
Revises(tbl, cap, slot, x, new) ==
    /\ slot \in 0 .. cap - 1 /\ tbl[slot].key = x.key
    /\ new \in [0 .. cap - 1 -> Link] /\ new[slot] = x
    /\ \A s \in 0 .. cap - 1 : s # slot => new[s] = tbl[s]

(* That keeps the table sound, and changes one of the items.               *)
LEMMA ReviseSound ==
    ASSUME NEW tbl, NEW ls, NEW cap, Sound(tbl, ls, cap), NEW i \in 1 .. Len(ls),
           NEW x \in Item, NEW new, Revises(tbl, cap, ls[i], x, new)
    PROVE  /\ Sound(new, ls, cap)
           /\ Tombs(new, cap) = Tombs(tbl, cap)
           /\ Items(new, ls) = [Items(tbl, ls) EXCEPT ![i] = x]
<1> DEFINE S == 0 .. cap - 1
           slot == ls[i]
<1>1. /\ cap \in Nat \ {0} /\ tbl \in [S -> Link] /\ ls \in Seq(S)
      /\ \A j, m \in 1 .. Len(ls) : ls[j] = ls[m] => j = m
      /\ \A s \in S : tbl[s].key # NoKey <=> \E j \in 1 .. Len(ls) : ls[j] = s
      /\ Cardinality(Used(tbl, cap)) = Len(ls)
      /\ \A s \in S : tbl[s].key # NoKey => Reached(tbl, cap, s)
  BY DEF Sound, Linked
<1>2. /\ slot \in S /\ new \in [S -> Link] /\ new[slot] = x /\ tbl[slot].key = x.key
      /\ \A s \in S : s # slot => new[s] = tbl[s]
      /\ tbl[slot].value # REMOVED /\ x.value # REMOVED
  BY Present, LinkKinds DEF Revises
<1>3. \A s \in S : new[s].key = tbl[s].key /\ (new[s].value = REMOVED <=> tbl[s].value = REMOVED)
  BY <1>2
<1> HIDE DEF slot
<1>4. Used(new, cap) = Used(tbl, cap) /\ Tombs(new, cap) = Tombs(tbl, cap)
  BY <1>3 DEF Used, Tombs
<1>5. ASSUME NEW s \in S, new[s].key # NoKey PROVE Reached(new, cap, s)
  <2>1. new[s].key = tbl[s].key /\ tbl[s].key \in Keys /\ tbl[s].key # NoKey
    BY <1>1, <1>3, <1>5, LinkKinds
  <2>2. PICK p \in 0 .. cap - 1 :
            /\ At(cap, tbl[s].key, p) = s
            /\ \A m \in 0 .. p - 1 : Skips(tbl[At(cap, tbl[s].key, m)], tbl[s].key)
    BY <1>1, <2>1 DEF Reached
  <2>3. ASSUME NEW m \in 0 .. p - 1 PROVE Skips(new[At(cap, tbl[s].key, m)], tbl[s].key)
    <3>1. m \in Nat
      OBVIOUS
    <3>2. At(cap, tbl[s].key, m) \in S
      BY <1>1, <2>1, <3>1, AtSlot
    <3>3. Skips(tbl[At(cap, tbl[s].key, m)], tbl[s].key)
      BY <2>2
    <3> QED
      BY <1>3, <3>2, <3>3 DEF Skips
  <2> QED
    BY <2>1, <2>2, <2>3 DEF Reached
<1>6. \A s \in S : new[s].key # NoKey <=> \E j \in 1 .. Len(ls) : ls[j] = s
  BY <1>1, <1>3
<1>7. Sound(new, ls, cap)
  BY <1>1, <1>2, <1>4, <1>5, <1>6 DEF Sound, Linked
<1>8. Items(new, ls) = [Items(tbl, ls) EXCEPT ![i] = x]
  <2>1. \A j \in 1 .. Len(ls) : ls[j] \in S /\ (ls[j] = slot <=> j = i)
    BY <1>1 DEF slot
  <2>2. \A j \in 1 .. Len(ls) : new[ls[j]] = IF j = i THEN x ELSE tbl[ls[j]]
    BY <1>2, <2>1
  <2> QED
    BY <2>2 DEF Items
<1> QED
  BY <1>4, <1>7, <1>8

-----------------------------------------------------------------------------
(* A sequence without one of its elements.                                 *)
LEMMA Shorter ==
    ASSUME NEW S, NEW s \in Seq(S), NEW i \in 1 .. Len(s),
           NEW r, r = SubSeq(s, 1, i - 1) \o SubSeq(s, i + 1, Len(s))
    PROVE  /\ r \in Seq(S) /\ Len(r) = Len(s) - 1
           /\ \A j \in 1 .. Len(s) - 1 : r[j] = IF j < i THEN s[j] ELSE s[j + 1]
<1>1. Len(s) \in Nat /\ i \in Nat
  OBVIOUS
<1>2. PICK a, b : a = SubSeq(s, 1, i - 1) /\ b = SubSeq(s, i + 1, Len(s))
  OBVIOUS
<1>3. /\ a \in Seq(S) /\ Len(a) = i - 1 /\ \A j \in 1 .. i - 1 : a[j] = s[j]
  BY <1>1, <1>2
<1>4. /\ b \in Seq(S) /\ Len(b) = Len(s) - i
      /\ \A j \in 1 .. Len(s) - i : b[j] = s[i + j]
  BY <1>1, <1>2
<1>5. r = a \o b
  BY <1>2
<1>6. /\ r \in Seq(S) /\ Len(r) = Len(a) + Len(b)
      /\ \A j \in 1 .. Len(a) + Len(b) : r[j] = IF j <= Len(a) THEN a[j] ELSE b[j - Len(a)]
  <2>1. a \in Seq(S) /\ b \in Seq(S)
    BY <1>3, <1>4
  <2>2. /\ a \o b \in Seq(S) /\ Len(a \o b) = Len(a) + Len(b)
        /\ \A j \in 1 .. Len(a) + Len(b) :
              (a \o b)[j] = IF j <= Len(a) THEN a[j] ELSE b[j - Len(a)]
    BY <2>1, ConcatProperties, Zenon
  <2> QED
    BY <1>5, <2>2, Zenon
<1>l. Len(r) = Len(s) - 1 /\ Len(a) + Len(b) = Len(s) - 1
  <2>1. Len(a) + Len(b) = Len(s) - 1
    BY <1>1, <1>3, <1>4
  <2> QED
    BY <1>6, <2>1
<1>7. ASSUME NEW j \in 1 .. Len(s) - 1 PROVE r[j] = IF j < i THEN s[j] ELSE s[j + 1]
  <2>1. CASE j < i
    <3>1. j \in 1 .. i - 1 /\ j <= Len(a)
      BY <1>1, <1>3, <2>1
    <3> QED
      BY <1>3, <1>6, <1>l, <2>1, <3>1
  <2>2. CASE ~(j < i)
    <3>1. j - (i - 1) \in 1 .. Len(s) - i /\ i + (j - (i - 1)) = j + 1
      BY <1>1, <2>2
    <3>2. r[j] = b[j - (i - 1)]
      <4>1. ~(j <= Len(a))
        BY <1>1, <1>3, <2>2
      <4> QED
        BY <1>3, <1>6, <1>l, <4>1
    <3> QED
      BY <1>4, <2>2, <3>1, <3>2
  <2> QED
    BY <2>1, <2>2
<1> QED
  BY <1>6, <1>7, <1>l

(* An item is taken out of its slot, which is marked, and of the list.     *)
Drops(tbl, ls, cap, i, new, nls) ==
    /\ new \in [0 .. cap - 1 -> Link] /\ new[ls[i]] = Tomb
    /\ \A s \in 0 .. cap - 1 : s # ls[i] => new[s] = tbl[s]
    /\ nls \in Seq(0 .. cap - 1) /\ Len(nls) = Len(ls) - 1
    /\ \A j \in 1 .. Len(ls) - 1 : nls[j] = IF j < i THEN ls[j] ELSE ls[j + 1]

(* That keeps the table sound, and leaves one more tombstone.              *)
LEMMA DropSound ==
    ASSUME NEW tbl, NEW ls, NEW cap, Sound(tbl, ls, cap), NEW i \in 1 .. Len(ls),
           NEW new, NEW nls, Drops(tbl, ls, cap, i, new, nls)
    PROVE  /\ Sound(new, nls, cap)
           /\ Cardinality(Tombs(new, cap)) = Cardinality(Tombs(tbl, cap)) + 1
           /\ \A j \in 1 .. Len(ls) - 1 :
                 new[nls[j]] = IF j < i THEN tbl[ls[j]] ELSE tbl[ls[j + 1]]
<1> DEFINE S == 0 .. cap - 1
           slot == ls[i]
           n == Len(ls)
<1>1. /\ cap \in Nat \ {0} /\ tbl \in [S -> Link] /\ ls \in Seq(S) /\ n \in Nat
      /\ \A j, m \in 1 .. n : ls[j] = ls[m] => j = m
      /\ \A s \in S : tbl[s].key # NoKey <=> \E j \in 1 .. n : ls[j] = s
      /\ Cardinality(Used(tbl, cap)) = n
      /\ \A s \in S : tbl[s].key # NoKey => Reached(tbl, cap, s)
  BY DEF Sound, Linked
<1>2. /\ slot \in S /\ tbl[slot].key # NoKey /\ tbl[slot].value # REMOVED
      /\ new \in [S -> Link] /\ new[slot].key = NoKey /\ new[slot].value = REMOVED
      /\ \A s \in S : s # slot => new[s] = tbl[s]
  BY Present, LinkKinds DEF Drops
<1>3. /\ nls \in Seq(S) /\ Len(nls) = n - 1
      /\ \A j \in 1 .. n - 1 : nls[j] = IF j < i THEN ls[j] ELSE ls[j + 1]
  BY DEF Drops
<1>4. PICK at \in [1 .. n - 1 -> 1 .. n] : \A j \in 1 .. n - 1 : at[j] = IF j < i THEN j ELSE j + 1
  <2> DEFINE at == [j \in 1 .. n - 1 |-> IF j < i THEN j ELSE j + 1]
  <2>1. \A j \in 1 .. n - 1 : (IF j < i THEN j ELSE j + 1) \in 1 .. n
    BY <1>1
  <2>2. at \in [1 .. n - 1 -> 1 .. n] /\ \A j \in 1 .. n - 1 : at[j] = IF j < i THEN j ELSE j + 1
    BY <2>1
  <2> QED
    BY <2>2
<1>5. /\ \A j \in 1 .. n - 1 : nls[j] = ls[at[j]] /\ at[j] \in 1 .. n /\ at[j] # i
      /\ \A j, m \in 1 .. n - 1 : at[j] = at[m] => j = m
  <2>1. \A j \in 1 .. n - 1 : at[j] \in 1 .. n
    BY <1>4
  <2>2. \A j \in 1 .. n - 1 : nls[j] = ls[at[j]]
    BY <1>3, <1>4
  <2>3. \A j \in 1 .. n - 1 : at[j] # i
    BY <1>1, <1>4
  <2>4. \A j, m \in 1 .. n - 1 : at[j] = at[m] => j = m
    <3>1. i \in Int /\ \A j \in 1 .. n - 1 : j \in Int
      BY <1>1
    <3>2. \A j \in 1 .. n - 1 : at[j] = IF j < i THEN j ELSE j + 1
      BY <1>4, Zenon
    <3> HIDE DEF n
    <3> TAKE j \in 1 .. n - 1, m \in 1 .. n - 1
    <3>3. /\ at[j] = IF j < i THEN j ELSE j + 1
          /\ at[m] = IF m < i THEN m ELSE m + 1
          /\ i \in Int /\ j \in Int /\ m \in Int
      BY <3>1, <3>2, Zenon
    <3> QED
      BY <3>3
  <2> QED
    BY <2>1, <2>2, <2>3, <2>4
<1>6. \A j \in 1 .. n : j # i => \E m \in 1 .. n - 1 : at[m] = j
  <2> TAKE j \in 1 .. n
  <2> HAVE j # i
  <2>1. CASE j < i
    <3>1. j \in 1 .. n - 1 /\ at[j] = j
      BY <1>1, <1>4, <2>1
    <3> QED
      BY <3>1
  <2>2. CASE ~(j < i)
    <3>1. j - 1 \in 1 .. n - 1 /\ ~(j - 1 < i) /\ (j - 1) + 1 = j
      BY <1>1, <2>2
    <3>2. at[j - 1] = j
      BY <1>4, <3>1
    <3> QED
      BY <3>1, <3>2
  <2> QED
    BY <2>1, <2>2
<1>i. i \in 1 .. n /\ \A a, b \in 1 .. n : ls[a] = ls[b] => a = b
  BY <1>1
<1> HIDE DEF slot, n
<1>7. \A j, m \in 1 .. Len(nls) : nls[j] = nls[m] => j = m
  <2> SUFFICES ASSUME NEW j \in 1 .. n - 1, NEW m \in 1 .. n - 1, nls[j] = nls[m] PROVE j = m
    BY <1>3
  <2>1. ls[at[j]] = ls[at[m]] /\ at[j] \in 1 .. n /\ at[m] \in 1 .. n
    BY <1>5
  <2>2. at[j] = at[m]
    BY <1>i, <2>1, Zenon
  <2> QED
    BY <1>5, <2>2
<1>8. \A s \in S : new[s].key # NoKey <=> \E j \in 1 .. Len(nls) : nls[j] = s
  <2> TAKE s \in S
  <2>1. CASE s = slot
    <3>1. \A j \in 1 .. n - 1 : nls[j] # slot
      <4> TAKE j \in 1 .. n - 1
      <4>1. nls[j] = ls[at[j]] /\ at[j] \in 1 .. n /\ at[j] # i
        BY <1>5
      <4>2. ls[at[j]] # ls[i]
        BY <1>1, <1>i, <4>1
      <4> QED
        BY <4>1, <4>2 DEF slot
    <3> QED
      BY <1>2, <1>3, <2>1, <3>1
  <2>2. CASE s # slot
    <3>1. new[s].key # NoKey <=> \E j \in 1 .. n : ls[j] = s
      BY <1>1, <1>2, <2>2
    <3>2. (\E j \in 1 .. n : ls[j] = s) <=> (\E j \in 1 .. n - 1 : nls[j] = s)
      BY <1>5, <1>6, <2>2 DEF slot
    <3> QED
      BY <1>3, <3>1, <3>2
  <2> QED
    BY <2>1, <2>2
<1>9. IsFiniteSet(Used(tbl, cap)) /\ IsFiniteSet(Tombs(tbl, cap))
  <2>1. IsFiniteSet(S)
    BY <1>1, FS_Interval
  <2>2. Used(tbl, cap) \in SUBSET S /\ Tombs(tbl, cap) \in SUBSET S
    BY DEF Used, Tombs
  <2> QED
    BY <2>1, <2>2, FS_Subset
<1>10. Cardinality(Used(new, cap)) = Len(nls)
  <2>1. Used(new, cap) = Used(tbl, cap) \ {slot} /\ slot \in Used(tbl, cap)
    BY <1>2 DEF Used
  <2>2. Cardinality(Used(tbl, cap) \ {slot}) = Cardinality(Used(tbl, cap)) - 1
    BY <1>9, <2>1, FS_RemoveElement
  <2> QED
    BY <1>1, <1>3, <2>1, <2>2
<1>11. Cardinality(Tombs(new, cap)) = Cardinality(Tombs(tbl, cap)) + 1
  <2>1. Tombs(new, cap) = Tombs(tbl, cap) \cup {slot} /\ slot \notin Tombs(tbl, cap)
    BY <1>2 DEF Tombs
  <2>2. Cardinality(Tombs(tbl, cap) \cup {slot}) = Cardinality(Tombs(tbl, cap)) + 1
    BY <1>9, <2>1, FS_AddElement
  <2> QED
    BY <2>1, <2>2
<1>12. ASSUME NEW s \in S, new[s].key # NoKey PROVE Reached(new, cap, s)
  <2>1. new[s] = tbl[s] /\ tbl[s].key \in Keys /\ tbl[s].key # NoKey
    BY <1>1, <1>2, <1>12, LinkKinds
  <2>2. PICK p \in 0 .. cap - 1 :
            /\ At(cap, tbl[s].key, p) = s
            /\ \A m \in 0 .. p - 1 : Skips(tbl[At(cap, tbl[s].key, m)], tbl[s].key)
    BY <1>1, <2>1 DEF Reached
  <2>3. ASSUME NEW m \in 0 .. p - 1 PROVE Skips(new[At(cap, tbl[s].key, m)], tbl[s].key)
    <3>1. m \in Nat
      OBVIOUS
    <3>2. At(cap, tbl[s].key, m) \in S
      BY <1>1, <2>1, <3>1, AtSlot
    <3>3. Skips(tbl[At(cap, tbl[s].key, m)], tbl[s].key)
      BY <2>2
    <3> QED
      BY <1>2, <3>2, <3>3 DEF Skips
  <2> QED
    BY <2>1, <2>2, <2>3 DEF Reached
<1>13. Sound(new, nls, cap)
  BY <1>1, <1>2, <1>3, <1>7, <1>8, <1>10, <1>12 DEF Sound, Linked
<1>14. \A j \in 1 .. n - 1 : new[nls[j]] = IF j < i THEN tbl[ls[j]] ELSE tbl[ls[j + 1]]
  <2> TAKE j \in 1 .. n - 1
  <2>0. at[j] \in 1 .. n /\ at[j] # i
    BY <1>5
  <2>1. ls[at[j]] \in S /\ ls[at[j]] # slot
    BY <1>1, <1>i, <2>0 DEF slot, n
  <2>2. new[nls[j]] = tbl[ls[at[j]]]
    BY <1>2, <1>5, <2>1
  <2> QED
    BY <1>4, <2>2
<1> QED
  BY <1>11, <1>13, <1>14 DEF n

-----------------------------------------------------------------------------
(* A new table is empty.                                                   *)
NewTable(cap) == [links |-> [s \in 0 .. cap - 1 |-> Empty], list |-> <<>>]

(* It is sound, has no items and no tombstones (uo_hashtbl_create_at, and  *)
(* the calloc of uo_hashtbl_resize).                                       *)
LEMMA NewSound ==
    ASSUME NEW cap \in Nat \ {0}
    PROVE  /\ TableOf(NewTable(cap), cap) /\ NewTable(cap).list = <<>>
           /\ Tombs(NewTable(cap).links, cap) = {}
<1>1. PICK tbl, ls : tbl = [s \in 0 .. cap - 1 |-> Empty] /\ ls = <<>>
  OBVIOUS
<1>2. NewTable(cap).links = tbl /\ NewTable(cap).list = ls
  BY <1>1 DEF NewTable
<1>3. /\ tbl \in [0 .. cap - 1 -> Link] /\ ls \in Seq(0 .. cap - 1) /\ Len(ls) = 0
      /\ \A s \in 0 .. cap - 1 : tbl[s].key = NoKey /\ tbl[s].value # REMOVED
  BY <1>1, LinkKinds, HashtblConstants DEF Link
<1>4. Used(tbl, cap) = {} /\ Tombs(tbl, cap) = {}
  BY <1>3 DEF Used, Tombs
<1>5. Cardinality(Used(tbl, cap)) = Len(ls)
  BY <1>3, <1>4, FS_EmptySet
<1>6. Sound(tbl, ls, cap)
  BY <1>3, <1>5 DEF Sound, Linked
<1> QED
  BY <1>1, <1>2, <1>4, <1>6 DEF TableOf

(* A table with fewer items than slots and no tombstones has a free slot.  *)
LEMMA RoomLeft ==
    ASSUME NEW t, NEW cap, TableOf(t, cap), Tombs(t.links, cap) = {}, Len(t.list) < cap
    PROVE  Free(t, cap)
<1>1. Linked(t.links, t.list, cap) /\ Len(t.list) \in Nat
  BY DEF TableOf, Sound, Linked
<1>2. Cardinality(Tombs(t.links, cap)) = 0
  BY FS_EmptySet
<1>3. Len(t.list) + Cardinality(Tombs(t.links, cap)) < cap
  BY <1>1, <1>2
<1> QED
  BY <1>1, <1>3, FreeSlot DEF Free

(* The tables of a rebuild exist: each is made from the one before.        *)
LEMMA BuiltTables ==
    ASSUME NEW t, NEW cap, Len(t.list) \in Nat
    PROVE  /\ Built(t, cap)[0] = NewTable(cap)
           /\ \A n \in 1 .. Len(t.list) :
                 Built(t, cap)[n] = Entered(Built(t, cap)[n - 1], cap, t.links[t.list[n]])
<1> DEFINE N == Len(t.list)
           Of(f, n) == IF n = 0 THEN NewTable(cap)
                                ELSE Entered(f[n - 1], cap, t.links[t.list[n]])
           S == {m \in Nat : \E f : f = [n \in 0 .. m |-> Of(f, n)]}
<1>1. 0 \in S
  <2>1. PICK f : f = [n \in 0 .. 0 |-> NewTable(cap)]
    OBVIOUS
  <2>2. f = [n \in 0 .. 0 |-> Of(f, n)]
    BY <2>1
  <2> QED
    BY <2>2
<1>2. ASSUME NEW m \in Nat, m \in S PROVE m + 1 \in S
  <2>1. PICK f : f = [n \in 0 .. m |-> Of(f, n)]
    BY <1>2
  <2> HIDE DEF Of
  <2>2. PICK g : g = [n \in 0 .. m + 1 |-> IF n = m + 1 THEN Of(f, n) ELSE f[n]]
    OBVIOUS
  <2>3. ASSUME NEW n \in 0 .. m + 1 PROVE g[n] = Of(g, n)
    <3>1. CASE n = 0
      BY <2>1, <2>2, <3>1 DEF Of
    <3>2. CASE n # 0
      <4>1. n - 1 \in 0 .. m /\ n - 1 \in 0 .. m + 1 /\ n - 1 # m + 1
        BY <3>2
      <4>2. g[n - 1] = f[n - 1]
        BY <2>2, <4>1
      <4>3. Of(g, n) = Of(f, n)
        BY <3>2, <4>2 DEF Of
      <4>4. g[n] = Of(f, n)
        BY <2>1, <2>2
      <4> QED
        BY <4>3, <4>4
    <3> QED
      BY <3>1, <3>2
  <2>4. g = [n \in 0 .. m + 1 |-> Of(g, n)]
    BY <2>2, <2>3
  <2> QED
    BY <2>4
<1>3. N \in S
  <2> HIDE DEF S
  <2> QED
    BY <1>1, <1>2, SetInduction
<1>4. PICK b : b = Built(t, cap)
  OBVIOUS
<1>5. b = [n \in 0 .. N |-> Of(b, n)]
  <2>1. \E f : f = [n \in 0 .. N |-> Of(f, n)]
    BY <1>3
  <2>2. Built(t, cap) = CHOOSE f : f = [n \in 0 .. N |-> Of(f, n)]
    BY DEF Built, NewTable
  <2> HIDE DEF Of
  <2> QED
    BY <1>4, <2>1, <2>2
<1>6. b[0] = NewTable(cap)
  BY <1>5
<1>7. ASSUME NEW n \in 1 .. N PROVE b[n] = Entered(b[n - 1], cap, t.links[t.list[n]])
  <2>1. n \in 0 .. N /\ n # 0
    OBVIOUS
  <2>2. b[n] = Of(b, n)
    BY <1>5, <2>1
  <2> QED
    BY <2>1, <2>2
<1> QED
  BY <1>4, <1>6, <1>7

(* A rebuild keeps the items and their order, and clears the tombstones.   *)
LEMMA ResizedSound ==
    ASSUME NEW t, NEW old, TableOf(t, old), NEW cap \in Nat \ {0}, Len(t.list) < cap
    PROVE  /\ TableOf(Resized(t, cap), cap)
           /\ ItemsOf(Resized(t, cap)) = ItemsOf(t)
           /\ Tombs(Resized(t, cap).links, cap) = {}
<1>1. PICK N, b, it : N = Len(t.list) /\ b = Built(t, cap) /\ it = ItemsOf(t)
  OBVIOUS
<1>2. /\ N \in Nat /\ it \in Seq(Item) /\ Len(it) = N
      /\ \A i \in 1 .. N : it[i] = t.links[t.list[i]]
  BY <1>1, ItemsSeq DEF TableOf, ItemsOf
<1>3. \A i, j \in 1 .. N : it[i].key = it[j].key => i = j
  BY <1>1, <1>2, KeysDiffer DEF TableOf
<1>4. b[0] = NewTable(cap) /\ \A n \in 1 .. N : b[n] = Entered(b[n - 1], cap, it[n])
  <2>1. b[0] = NewTable(cap)
    BY <1>1, <1>2, BuiltTables
  <2>2. ASSUME NEW n \in 1 .. N PROVE b[n] = Entered(b[n - 1], cap, it[n])
    <3>1. b[n] = Entered(b[n - 1], cap, t.links[t.list[n]])
      BY <1>1, <1>2, BuiltTables
    <3> QED
      BY <1>2, <3>1
  <2> QED
    BY <2>1, <2>2
<1> DEFINE Good(n) == /\ TableOf(b[n], cap) /\ Tombs(b[n].links, cap) = {}
                      /\ Len(ItemsOf(b[n])) = n
                      /\ \A i \in 1 .. n : ItemsOf(b[n])[i] = it[i]
           S == {n \in Nat : n <= N => Good(n)}
<1>5. 0 \in S
  <2>1. TableOf(b[0], cap) /\ Tombs(b[0].links, cap) = {} /\ b[0].list = <<>>
    BY <1>4, NewSound
  <2>2. Len(ItemsOf(b[0])) = 0
    BY <2>1, ItemsSeq DEF TableOf, ItemsOf
  <2>3. Good(0)
    BY <2>1, <2>2
  <2> QED
    BY <2>3
<1>6. ASSUME NEW n \in Nat, n \in S PROVE n + 1 \in S
  <2> SUFFICES ASSUME n + 1 <= N PROVE Good(n + 1)
    OBVIOUS
  <2>1. Good(n)
    BY <1>2, <1>6
  <2>2. PICK u, x, w : u = b[n] /\ x = it[n + 1] /\ w = b[n + 1]
    OBVIOUS
  <2>3. n + 1 \in 1 .. N /\ (n + 1) - 1 = n
    BY <1>2
  <2>4. w = Entered(u, cap, x)
    BY <1>4, <2>2, <2>3
  <2>5. x \in Item
    BY <1>2, <2>2, <2>3
  <2>6. /\ TableOf(u, cap) /\ Tombs(u.links, cap) = {}
        /\ Len(ItemsOf(u)) = n
        /\ \A i \in 1 .. n : ItemsOf(u)[i] = it[i]
    BY <2>1, <2>2
  <2>7. /\ ItemsOf(u) \in Seq(Item) /\ Len(u.list) = n
        /\ \A i \in 1 .. n : ItemsOf(u)[i] = u.links[u.list[i]]
    BY <2>6, ItemsSeq DEF TableOf, ItemsOf
  <2>8. Free(u, cap)
    BY <1>1, <1>2, <2>3, <2>6, <2>7, RoomLeft
  <2>9. ASSUME NEW i \in 1 .. Len(u.list) PROVE u.links[u.list[i]].key # x.key
    <3>1. i \in 1 .. n /\ i \in 1 .. N /\ i # n + 1
      BY <1>2, <2>3, <2>7
    <3>2. u.links[u.list[i]] = it[i]
      BY <2>6, <2>7, <3>1
    <3> QED
      BY <1>3, <2>2, <2>3, <3>1, <3>2
  <2>10. TableOf(w, cap) /\ Tombs(w.links, cap) = {}
    <3>1. TableOf(Entered(u, cap, x), cap)
      BY <2>5, <2>6, <2>8, <2>9, EnteredSound
    <3>2. Tombs(Entered(u, cap, x).links, cap) = Tombs(u.links, cap)
      BY <2>5, <2>6, <2>8, <2>9, EnteredSound
    <3> QED
      BY <2>4, <2>6, <3>1, <3>2
  <2>11. ItemsOf(w) = Append(ItemsOf(u), x)
    BY <2>4, <2>5, <2>6, <2>8, <2>9, EnteredSound
  <2>12. /\ Len(ItemsOf(w)) = n + 1 /\ ItemsOf(w)[n + 1] = x
         /\ \A i \in 1 .. n : ItemsOf(w)[i] = ItemsOf(u)[i]
    BY <2>5, <2>6, <2>7, <2>11
  <2>13. \A i \in 1 .. n + 1 : ItemsOf(w)[i] = it[i]
    BY <2>2, <2>6, <2>12
  <2> QED
    BY <2>2, <2>10, <2>12, <2>13
<1>7. Good(N)
  <2>1. N \in S
    <3> HIDE DEF S
    <3> QED
      BY <1>2, <1>5, <1>6, SetInduction
  <2> QED
    BY <1>2, <2>1
<1>8. Resized(t, cap) = b[N]
  BY <1>1 DEF Resized
<1>9. ItemsOf(b[N]) = it
  <2>1. ItemsOf(b[N]) \in Seq(Item)
    BY <1>7, ItemsSeq DEF TableOf, ItemsOf
  <2> QED
    BY <1>2, <1>7, <2>1
<1> QED
  BY <1>1, <1>7, <1>8, <1>9

-----------------------------------------------------------------------------
(* The inductive invariant: the table is sound, and because it grows and   *)
(* is rebuilt in time, items and tombstones leave slots free.              *)
Inv ==
    /\ Sound(links, list, capacity)
    /\ capacity >= 4
    /\ count = Len(list)
    /\ count + 1 <= capacity \div 2
    /\ removed_count = Cardinality(Tombs(links, capacity))
    /\ removed_count + 1 <= capacity \div 4
    /\ result \in Values \cup {NULL}

(* Halves and quarters of a capacity.                                      *)
LEMMA Parts ==
    ASSUME NEW c \in Nat, c >= 4
    PROVE  /\ c \div 2 \in Nat /\ c \div 4 \in Nat /\ c \div 2 + c \div 4 < c
           /\ (2 * c) \div 2 = c /\ c \div 2 < 2 * c /\ c \div 2 < c /\ c \div 2 + 1 <= c
           /\ 1 <= (2 * c) \div 4 /\ 1 <= c \div 4
  OBVIOUS

(* The counters are numbers, and the table has a free slot.                *)
LEMMA InvFacts ==
    ASSUME Inv
    PROVE  /\ capacity \in Nat \ {0} /\ capacity >= 4 /\ count \in Nat /\ removed_count \in Nat
           /\ Linked(links, list, capacity)
           /\ \E s \in 0 .. capacity - 1 : links[s] = Empty
<1>1. Linked(links, list, capacity)
  BY DEF Inv, Sound
<1>2. capacity \in Nat \ {0} /\ capacity >= 4 /\ Len(list) \in Nat
  BY <1>1 DEF Inv, Linked
<1>3. removed_count \in Nat
  <2>1. IsFiniteSet(0 .. capacity - 1)
    BY <1>2, FS_Interval
  <2>2. Tombs(links, capacity) \in SUBSET (0 .. capacity - 1)
    BY DEF Tombs
  <2>3. Cardinality(Tombs(links, capacity)) \in Nat
    BY <2>1, <2>2, FS_Subset, FS_CardinalityType
  <2> QED
    BY <2>3 DEF Inv
<1>4. Len(list) + Cardinality(Tombs(links, capacity)) < capacity
  <2>1. count + removed_count < capacity
    <3>1. count \in Nat /\ count + 1 <= capacity \div 2 /\ removed_count + 1 <= capacity \div 4
      BY <1>2 DEF Inv
    <3>2. /\ capacity \div 2 \in Nat /\ capacity \div 4 \in Nat
          /\ capacity \div 2 + capacity \div 4 < capacity
      BY <1>2, Parts
    <3>3. \A a, b, c, d, e \in Nat : a + 1 <= c /\ b + 1 <= d /\ c + d < e => a + b < e
      OBVIOUS
    <3> QED
      BY <1>2, <1>3, <3>1, <3>2, <3>3
  <2> QED
    BY <2>1 DEF Inv
<1> QED
  BY <1>1, <1>2, <1>3, <1>4, FreeSlot DEF Inv

(* The invariant says that the table is sound.                             *)
LEMMA InvSound == Inv => TableSound
<1> SUFFICES ASSUME Inv PROVE TableSound
  OBVIOUS
<1>1. /\ capacity \in Nat \ {0} /\ count \in Nat /\ removed_count \in Nat
      /\ links \in [0 .. capacity - 1 -> Link] /\ list \in Seq(0 .. capacity - 1)
      /\ result \in Values \cup {NULL} /\ Linked(links, list, capacity)
      /\ \E s \in 0 .. capacity - 1 : links[s] = Empty
  BY InvFacts DEF Linked, Inv
<1>2. Link \subseteq [key : Keys \cup {NoKey}, value : Values \cup {NULL, REMOVED}]
  BY DEF Link, Item, Empty, Tomb
<1>3. TypeOK
  BY <1>1, <1>2 DEF TypeOK
<1>4. AlwaysAFreeSlot
  BY <1>1 DEF AlwaysAFreeSlot
<1>5. Occupied = Used(links, capacity)
        /\ {s \in DOMAIN links : links[s].value = REMOVED} = Tombs(links, capacity)
  BY <1>1 DEF Occupied, Used, Tombs
<1>6. CountsTrue
  BY <1>1, <1>5 DEF CountsTrue, Inv, Linked
<1>7. {list[n] : n \in 1 .. Len(list)} = Occupied
  <2>1. \A s \in 0 .. capacity - 1 :
            links[s].key # NoKey <=> \E i \in 1 .. Len(list) : list[i] = s
    BY <1>1 DEF Linked
  <2> QED
    BY <1>1, <1>5, <2>1 DEF Used
<1>8. ListMatches
  BY <1>1, <1>5, <1>7 DEF ListMatches, Linked
<1> QED
  BY <1>3, <1>4, <1>6, <1>8 DEF TableSound

(* A table made by uo_hashtbl_create satisfies it.                         *)
LEMMA InitInv == Init => Inv
<1> SUFFICES ASSUME Init PROVE Inv
  OBVIOUS
<1>1. capacity \in Nat \ {0} /\ capacity >= 4 /\ capacity = MIN_CAPACITY
  BY HashtblConstants DEF Init
<1>2. links = NewTable(capacity).links /\ list = NewTable(capacity).list
  BY <1>1 DEF Init, NewTable
<1>3. Sound(links, list, capacity) /\ Tombs(links, capacity) = {}
  BY <1>1, <1>2, NewSound DEF TableOf
<1>4. Cardinality(Tombs(links, capacity)) = 0
  BY <1>3, FS_EmptySet
<1>5. 1 <= capacity \div 2 /\ 1 <= capacity \div 4
  BY <1>1
<1> QED
  BY <1>1, <1>3, <1>4, <1>5 DEF Init, Inv

-----------------------------------------------------------------------------
(* What the operations do to the items.                                    *)
Shown  == Items(links, list)
Absent(k)     == \A i \in 1 .. Len(list) : links[list[i]].key # k
PlaceOf(k, i) == i \in 1 .. Len(list) /\ links[list[i]].key = k
Without(it, i, rest) ==
    /\ rest \in Seq(Item) /\ Len(rest) = Len(it) - 1
    /\ \A j \in 1 .. Len(it) - 1 : rest[j] = IF j < i THEN it[j] ELSE it[j + 1]

(* A probe for a key ends at the key, or at a free slot if it is absent.   *)
LEMMA Probe ==
    ASSUME Inv, NEW k \in Keys
    PROVE  /\ FindLink(links, capacity, k) \in 0 .. capacity - 1
           /\ \/ /\ links[FindLink(links, capacity, k)].key # NoKey
                 /\ \E i \in 1 .. Len(list) :
                       PlaceOf(k, i) /\ list[i] = FindLink(links, capacity, k)
              \/ /\ links[FindLink(links, capacity, k)] = Empty
                 /\ links[FindLink(links, capacity, k)].key = NoKey
                 /\ Absent(k)
<1>1. PICK slot : slot = FindLink(links, capacity, k)
  OBVIOUS
<1>2. Sound(links, list, capacity) /\ \E s \in 0 .. capacity - 1 : links[s] = Empty
  BY InvFacts DEF Inv
<1>3. /\ slot \in 0 .. capacity - 1
      /\ \/ /\ \E i \in 1 .. Len(list) : list[i] = slot
            /\ links[slot].key = k
         \/ /\ links[slot] = Empty
            /\ \A i \in 1 .. Len(list) : links[list[i]].key # k
  BY <1>1, <1>2, FoundOrFree
<1>4. k # NoKey /\ Empty.key = NoKey
  BY HashtblConstants, LinkKinds
<1>5. \/ /\ links[slot].key # NoKey
         /\ \E i \in 1 .. Len(list) : PlaceOf(k, i) /\ list[i] = slot
      \/ /\ links[slot] = Empty /\ links[slot].key = NoKey
         /\ Absent(k)
  BY <1>3, <1>4 DEF PlaceOf, Absent
<1> QED
  BY <1>1, <1>3, <1>5

(* The value at the end of the probe for a key.                            *)
LEMMA Found ==
    ASSUME Inv, NEW k \in Keys
    PROVE  links[FindLink(links, capacity, k)].value \in Values \cup {NULL}
<1>1. PICK slot : slot = FindLink(links, capacity, k)
  OBVIOUS
<1>2. CASE \E i \in 1 .. Len(list) : PlaceOf(k, i) /\ list[i] = slot
  <2>1. links[slot] \in Item
    BY <1>2, Present DEF Inv
  <2> QED
    BY <1>1, <2>1, LinkKinds
<1>3. CASE links[slot] = Empty
  BY <1>1, <1>3, LinkKinds
<1> QED
  BY <1>1, <1>2, <1>3, Probe

(* uo_hashtbl_get, and uo_hashtbl_remove of an absent key, change nothing  *)
(* of the table.                                                           *)
LEMMA LookKeeps ==
    ASSUME Inv, NEW k \in Keys, Get(k) \/ RemoveAbsent(k)
    PROVE  Inv' /\ links' = links /\ list' = list
<1>1. UNCHANGED <<capacity, links, list, count, removed_count>>
  BY DEF Get, RemoveAbsent
<1>2. result' \in Values \cup {NULL}
  BY Found DEF Get, RemoveAbsent
<1>3. Inv'
  BY <1>1, <1>2 DEF Inv
<1> QED
  BY <1>1, <1>3

(* uo_hashtbl_set of a key that is there replaces its value.               *)
LEMMA SetExistingKeeps ==
    ASSUME Inv, NEW k \in Keys, NEW v \in Values, SetExisting(k, v)
    PROVE  /\ Inv'
           /\ \E i \in 1 .. Len(list) :
                 PlaceOf(k, i) /\ Shown' = [Shown EXCEPT ![i] = [key |-> k, value |-> v]]
<1>1. PICK slot, x : slot = FindLink(links, capacity, k) /\ x = [key |-> k, value |-> v]
  OBVIOUS
<1>2. /\ links[slot].key # NoKey /\ links' = [links EXCEPT ![slot].value = v]
      /\ result' = NULL /\ UNCHANGED <<capacity, list, count, removed_count>>
  BY <1>1 DEF SetExisting
<1>3. PICK i \in 1 .. Len(list) : PlaceOf(k, i) /\ list[i] = slot
  BY <1>1, <1>2, Probe
<1>4. /\ x \in Item /\ x \in Link /\ x.key = k /\ slot \in 0 .. capacity - 1
      /\ links[slot] \in Item /\ links[slot].key = k
      /\ links \in [0 .. capacity - 1 -> Link] /\ Sound(links, list, capacity)
  <2>1. x \in Item /\ x \in Link /\ x.key = k
    BY <1>1 DEF Item, Link
  <2>2. Sound(links, list, capacity)
    BY DEF Inv
  <2>3. slot \in 0 .. capacity - 1 /\ links[slot] \in Item
    BY <1>3, <2>2, Present
  <2> QED
    BY <1>3, <2>1, <2>2, <2>3 DEF Sound, Linked, PlaceOf
<1>5. [links[slot] EXCEPT !.value = v] = x
  BY <1>1, <1>4 DEF Item
<1>6. PICK new : new = [links EXCEPT ![slot] = x]
  OBVIOUS
<1>7. links' = new
  BY <1>2, <1>5, <1>6
<1>8. Revises(links, capacity, list[i], x, new)
  BY <1>3, <1>4, <1>6 DEF Revises
<1>9. Sound(new, list, capacity)
  BY <1>4, <1>8, ReviseSound
<1>10. Tombs(new, capacity) = Tombs(links, capacity)
  BY <1>4, <1>8, ReviseSound
<1>11. Items(new, list) = [Items(links, list) EXCEPT ![i] = x]
  BY <1>4, <1>8, ReviseSound
<1>12. Inv'
  BY <1>2, <1>7, <1>9, <1>10 DEF Inv
<1>13. Shown' = [Shown EXCEPT ![i] = x]
  BY <1>2, <1>7, <1>11 DEF Shown
<1> QED
  BY <1>1, <1>3, <1>12, <1>13

(* The table a step installs is the next one.                              *)
LEMMA Installed ==
    ASSUME NEW t, NEW cap, Install(t, cap), cap \in Nat, cap >= 4, TableOf(t, cap),
           count' = Len(t.list), count' + 1 <= cap \div 2,
           removed_count' = Cardinality(Tombs(t.links, cap)), removed_count' + 1 <= cap \div 4,
           result' \in Values \cup {NULL}
    PROVE  Inv' /\ Shown' = ItemsOf(t)
<1>1. links' = t.links /\ list' = t.list /\ capacity' = cap
  BY DEF Install
<1> QED
  BY <1>1 DEF Inv, Shown, ItemsOf, TableOf

(* uo_hashtbl_set of a new key adds it at the end, also when the table     *)
(* grows.                                                                  *)
LEMMA SetNewKeeps ==
    ASSUME Inv, NEW k \in Keys, NEW v \in Values, SetNew(k, v)
    PROVE  Inv' /\ Absent(k) /\ Shown' = Append(Shown, [key |-> k, value |-> v])
<1>1. PICK x, t, big : /\ x = [key |-> k, value |-> v] /\ t = Entered(Table, capacity, x)
                       /\ big = 2 * capacity
  OBVIOUS
<1>2. /\ links[FindLink(links, capacity, k)].key = NoKey
      /\ count' = count + 1 /\ result' = NULL
      /\ \/ /\ count + 1 = capacity \div 2
            /\ Install(Resized(t, big), big) /\ removed_count' = 0
         \/ /\ count + 1 # capacity \div 2
            /\ Install(t, capacity) /\ UNCHANGED removed_count
  BY <1>1 DEF SetNew
<1>3. Absent(k)
  BY <1>2, Probe
<1>4. /\ capacity \in Nat \ {0} /\ capacity >= 4 /\ count \in Nat /\ removed_count \in Nat
      /\ count = Len(list) /\ count + 1 <= capacity \div 2 /\ removed_count + 1 <= capacity \div 4
      /\ removed_count = Cardinality(Tombs(links, capacity))
  BY InvFacts DEF Inv
<1>5. x \in Item /\ x.key = k
  BY <1>1 DEF Item
<1>6. /\ TableOf(Table, capacity) /\ Free(Table, capacity)
      /\ \A i \in 1 .. Len(Table.list) : Table.links[Table.list[i]].key # x.key
  BY <1>3, <1>5, InvFacts DEF Table, TableOf, Free, Inv, Absent
<1>7. TableOf(t, capacity)
  BY <1>1, <1>5, <1>6, EnteredSound
<1>8. ItemsOf(t) = Append(ItemsOf(Table), x)
  BY <1>1, <1>5, <1>6, EnteredSound
<1>9. Len(t.list) = Len(Table.list) + 1
  BY <1>1, <1>5, <1>6, EnteredSound
<1>10. Tombs(t.links, capacity) = Tombs(Table.links, capacity)
  BY <1>1, <1>5, <1>6, EnteredSound
<1>11. Table.links = links /\ Table.list = list /\ ItemsOf(Table) = Shown
  BY DEF Table, ItemsOf, Shown
<1>12. Len(t.list) = count + 1 /\ Tombs(t.links, capacity) = Tombs(links, capacity)
  BY <1>4, <1>9, <1>10, <1>11
<1>13. Inv' /\ Shown' = ItemsOf(t)
  <2>1. CASE count + 1 # capacity \div 2 /\ Install(t, capacity) /\ UNCHANGED removed_count
    <3>1. count' + 1 <= capacity \div 2
      <4>1. capacity \div 2 \in Nat
        BY <1>4, Parts
      <4> QED
        BY <1>2, <1>4, <2>1, <4>1
    <3> QED
      BY <1>2, <1>4, <1>7, <1>12, <2>1, <3>1, Installed
  <2>2. CASE count + 1 = capacity \div 2 /\ Install(Resized(t, big), big) /\ removed_count' = 0
    <3>1. /\ big \in Nat \ {0} /\ big >= 4 /\ count + 1 < big /\ (count + 1) + 1 <= big \div 2
          /\ 1 <= big \div 4
      BY <1>1, <1>4, <2>2, Parts
    <3>2. PICK u : u = Resized(t, big)
      OBVIOUS
    <3>3. TableOf(u, big)
      BY <1>7, <1>12, <3>1, <3>2, ResizedSound
    <3>4. ItemsOf(u) = ItemsOf(t)
      BY <1>7, <1>12, <3>1, <3>2, ResizedSound
    <3>5. Tombs(u.links, big) = {}
      BY <1>7, <1>12, <3>1, <3>2, ResizedSound
    <3>6. Len(u.list) = Len(t.list)
      BY <1>7, <3>3, <3>4, ItemsSeq DEF TableOf, ItemsOf
    <3>7. Cardinality(Tombs(u.links, big)) = 0
      BY <3>5, FS_EmptySet
    <3>8. Inv' /\ Shown' = ItemsOf(u)
      BY <1>2, <1>12, <2>2, <3>1, <3>2, <3>3, <3>6, <3>7, Installed
    <3> QED
      BY <3>4, <3>8
  <2> QED
    BY <1>2, <2>1, <2>2
<1> QED
  BY <1>1, <1>3, <1>8, <1>11, <1>13

(* An item taken out leaves the others as they were.                       *)
LEMMA UnlinkedSound ==
    ASSUME Inv, NEW i \in 1 .. Len(list)
    PROVE  /\ TableOf(Unlinked(list[i]), capacity)
           /\ Len(Unlinked(list[i]).list) = Len(list) - 1
           /\ Cardinality(Tombs(Unlinked(list[i]).links, capacity))
                = Cardinality(Tombs(links, capacity)) + 1
           /\ Without(Shown, i, ItemsOf(Unlinked(list[i])))
<1>1. PICK slot, n : slot = list[i] /\ n = CHOOSE p \in 1 .. Len(list) : list[p] = slot
  OBVIOUS
<1>2. Sound(links, list, capacity)
  BY DEF Inv
<1>3. /\ links \in [0 .. capacity - 1 -> Link] /\ list \in Seq(0 .. capacity - 1)
      /\ \A a, b \in 1 .. Len(list) : list[a] = list[b] => a = b
      /\ slot \in 0 .. capacity - 1 /\ Tomb \in Link
  BY <1>1, <1>2, Present DEF Sound, Linked, Link
<1>4. n = i
  <2>1. n \in 1 .. Len(list) /\ list[n] = slot
    BY <1>1
  <2> QED
    BY <1>1, <1>3, <2>1
<1>5. PICK new, nls : /\ new = [links EXCEPT ![slot] = Tomb]
                      /\ nls = SubSeq(list, 1, i - 1) \o SubSeq(list, i + 1, Len(list))
  OBVIOUS
<1>6. Unlinked(list[i]).links = new /\ Unlinked(list[i]).list = nls
  <2>1. Unlinked(slot) = [links |-> [links EXCEPT ![slot] = Tomb],
                          list  |-> SubSeq(list, 1, n - 1) \o SubSeq(list, n + 1, Len(list))]
    BY <1>1, Zenon DEF Unlinked
  <2>2. Unlinked(slot) = [links |-> new, list |-> nls]
    BY <1>4, <1>5, <2>1, Zenon
  <2> QED
    BY <1>1, <2>2
<1>7. /\ nls \in Seq(0 .. capacity - 1) /\ Len(nls) = Len(list) - 1
      /\ \A j \in 1 .. Len(list) - 1 : nls[j] = IF j < i THEN list[j] ELSE list[j + 1]
  <2>1. PICK S, ls : S = 0 .. capacity - 1 /\ ls = list
    OBVIOUS
  <2>2. ls \in Seq(S) /\ i \in 1 .. Len(ls)
    BY <1>3, <2>1
  <2>3. nls = SubSeq(ls, 1, i - 1) \o SubSeq(ls, i + 1, Len(ls))
    BY <1>5, <2>1, Zenon
  <2>4. /\ nls \in Seq(S) /\ Len(nls) = Len(ls) - 1
        /\ \A j \in 1 .. Len(ls) - 1 : nls[j] = IF j < i THEN ls[j] ELSE ls[j + 1]
    BY <2>2, <2>3, Shorter, Zenon
  <2> QED
    BY <2>1, <2>4
<1>8. /\ new \in [0 .. capacity - 1 -> Link] /\ new[slot] = Tomb
      /\ \A s \in 0 .. capacity - 1 : s # slot => new[s] = links[s]
  BY <1>3, <1>5
<1>9. Drops(links, list, capacity, i, new, nls)
  BY <1>1, <1>7, <1>8 DEF Drops
<1>10. Sound(new, nls, capacity)
  BY <1>2, <1>9, DropSound
<1>11. Cardinality(Tombs(new, capacity)) = Cardinality(Tombs(links, capacity)) + 1
  BY <1>2, <1>9, DropSound
<1>12. \A j \in 1 .. Len(list) - 1 :
          new[nls[j]] = IF j < i THEN links[list[j]] ELSE links[list[j + 1]]
  BY <1>2, <1>9, DropSound
<1>13. Without(Items(links, list), i, Items(new, nls))
  <2>1. PICK it, rest : it = Items(links, list) /\ rest = Items(new, nls)
    OBVIOUS
  <2>2. /\ Len(it) = Len(list) /\ Len(list) \in Nat
        /\ \A j \in 1 .. Len(list) : it[j] = links[list[j]]
    BY <1>2, <2>1, ItemsSeq
  <2>3. /\ rest \in Seq(Item) /\ Len(rest) = Len(nls)
        /\ \A j \in 1 .. Len(nls) : rest[j] = new[nls[j]]
    BY <1>10, <2>1, ItemsSeq
  <2>4. ASSUME NEW j \in 1 .. Len(list) - 1 PROVE rest[j] = IF j < i THEN it[j] ELSE it[j + 1]
    <3>1. j \in 1 .. Len(list) /\ j + 1 \in 1 .. Len(list)
      BY <2>2
    <3>2. it[j] = links[list[j]] /\ it[j + 1] = links[list[j + 1]]
      BY <2>2, <3>1
    <3>3. rest[j] = new[nls[j]]
      BY <1>7, <2>3
    <3> QED
      BY <1>12, <3>2, <3>3
  <2>5. Without(it, i, rest)
    BY <1>7, <2>2, <2>3, <2>4 DEF Without
  <2> QED
    BY <2>1, <2>5
<1> QED
  BY <1>6, <1>7, <1>10, <1>11, <1>13 DEF TableOf, ItemsOf, Shown

(* uo_hashtbl_remove takes the item out, also when the table is rebuilt.   *)
LEMMA RemoveKeeps ==
    ASSUME Inv, NEW k \in Keys, RemovePresent(k)
    PROVE  /\ Inv'
           /\ \E i \in 1 .. Len(list) : /\ PlaceOf(k, i) /\ result' = links[list[i]].value
                                        /\ Without(Shown, i, Shown')
<1>1. PICK slot, t : slot = FindLink(links, capacity, k) /\ t = Unlinked(slot)
  OBVIOUS
<1>2. ~Shrinks(count - 1)
  BY HashtblConstants DEF Shrinks
<1>3. /\ links[slot].key # NoKey /\ result' = links[slot].value /\ count' = count - 1
      /\ \/ /\ removed_count + 1 >= capacity \div 4
            /\ Install(Resized(t, capacity), capacity) /\ removed_count' = 0
         \/ /\ removed_count + 1 < capacity \div 4
            /\ Install(t, capacity) /\ removed_count' = removed_count + 1
  BY <1>1, <1>2 DEF RemovePresent
<1>4. PICK i \in 1 .. Len(list) : PlaceOf(k, i) /\ list[i] = slot
  BY <1>1, <1>3, Probe
<1>5. /\ capacity \in Nat \ {0} /\ capacity >= 4 /\ count \in Nat /\ removed_count \in Nat
      /\ count = Len(list) /\ count + 1 <= capacity \div 2 /\ removed_count + 1 <= capacity \div 4
      /\ removed_count = Cardinality(Tombs(links, capacity))
  BY InvFacts DEF Inv
<1>6. /\ TableOf(t, capacity) /\ Len(t.list) = count - 1
      /\ Cardinality(Tombs(t.links, capacity)) = removed_count + 1
      /\ Without(Shown, i, ItemsOf(t))
  BY <1>1, <1>4, <1>5, UnlinkedSound
<1>7. result' \in Values \cup {NULL}
  BY <1>1, <1>3, Found
<1>8. /\ count - 1 \in Nat /\ (count - 1) + 1 <= capacity \div 2 /\ count - 1 < capacity
      /\ 1 <= capacity \div 4 /\ capacity \div 4 \in Nat
  <2>1. count >= 1
    BY <1>4, <1>5
  <2>2. /\ capacity \div 2 \in Nat /\ capacity \div 2 < capacity
        /\ capacity \div 4 \in Nat /\ 1 <= capacity \div 4
    BY <1>5, Parts
  <2> QED
    BY <1>5, <2>1, <2>2
<1>9. Inv' /\ Shown' = ItemsOf(t)
  <2>1. CASE /\ removed_count + 1 < capacity \div 4
             /\ Install(t, capacity) /\ removed_count' = removed_count + 1
    <3>1. removed_count' + 1 <= capacity \div 4
      BY <1>5, <1>8, <2>1
    <3> QED
      BY <1>3, <1>5, <1>6, <1>7, <1>8, <2>1, <3>1, Installed
  <2>2. CASE Install(Resized(t, capacity), capacity) /\ removed_count' = 0
    <3>1. PICK u : u = Resized(t, capacity)
      OBVIOUS
    <3>2. TableOf(u, capacity)
      BY <1>5, <1>6, <1>8, <3>1, ResizedSound
    <3>3. ItemsOf(u) = ItemsOf(t)
      BY <1>5, <1>6, <1>8, <3>1, ResizedSound
    <3>4. Tombs(u.links, capacity) = {}
      BY <1>5, <1>6, <1>8, <3>1, ResizedSound
    <3>5. Len(u.list) = Len(t.list)
      BY <1>6, <3>2, <3>3, ItemsSeq DEF TableOf, ItemsOf
    <3>6. Cardinality(Tombs(u.links, capacity)) = 0
      BY <3>4, FS_EmptySet
    <3>7. Inv' /\ Shown' = ItemsOf(u)
      <4>1. Install(u, capacity) /\ capacity \in Nat /\ capacity >= 4
        BY <1>5, <2>2, <3>1
      <4>2. count' = Len(u.list) /\ count' + 1 <= capacity \div 2
        BY <1>3, <1>6, <1>8, <3>5
      <4>3. /\ removed_count' = Cardinality(Tombs(u.links, capacity))
            /\ removed_count' + 1 <= capacity \div 4
        BY <1>8, <2>2, <3>6
      <4> QED
        BY <1>7, <3>2, <4>1, <4>2, <4>3, Installed
    <3> QED
      BY <3>3, <3>7
  <2> QED
    BY <1>3, <2>1, <2>2
<1> QED
  BY <1>3, <1>4, <1>6, <1>9

-----------------------------------------------------------------------------
(* Every step keeps the invariant.                                         *)
LEMMA NextInv == Inv /\ [Next]_vars => Inv'
<1> SUFFICES ASSUME Inv, [Next]_vars PROVE Inv'
  OBVIOUS
<1>1. CASE UNCHANGED vars
  BY <1>1 DEF vars, Inv
<1>2. CASE Next
  <2>1. PICK k \in Keys : \/ Get(k)
                          \/ \E v \in Values : SetExisting(k, v) \/ SetNew(k, v)
                          \/ RemoveAbsent(k) \/ RemovePresent(k)
    BY <1>2 DEF Next
  <2> QED
    BY <2>1, LookKeeps, SetExistingKeeps, SetNewKeeps, RemoveKeeps
<1> QED
  BY <1>1, <1>2

(* The table is sound whatever is entered, replaced and removed: a probe   *)
(* always ends, the counters that decide about growing and rebuilding are  *)
(* true, and the list goes through the items once each.                    *)
THEOREM TableIsSound == Spec => []TableSound
<1>1. Spec => []Inv
  BY InitInv, NextInv, PTL DEF Spec
<1> QED
  BY <1>1, InvSound, PTL

-----------------------------------------------------------------------------
(* The map and the order that a sequence of items stands for.              *)
ValueIn(it, k) ==
    LET at == {n \in 1 .. Len(it) : it[n].key = k}
    IN IF at = {} THEN NULL ELSE it[CHOOSE n \in at : TRUE].value
KeysIn(it)   == [n \in 1 .. Len(it) |-> it[n].key]
Distinct(it) == it \in Seq(Item) /\ \A i, j \in 1 .. Len(it) : it[i].key = it[j].key => i = j

Rewrites(it, new, k, v) == \A q : ValueIn(new, q) = IF q = k THEN v ELSE ValueIn(it, q)

(* No two items of a sound table have the same key.                        *)
LEMMA ItemsDistinct ==
    ASSUME NEW tbl, NEW ls, NEW cap, Sound(tbl, ls, cap)
    PROVE  Distinct(Items(tbl, ls))
<1>1. PICK it : it = Items(tbl, ls)
  OBVIOUS
<1>2. /\ it \in Seq(Item) /\ Len(it) = Len(ls)
      /\ \A i \in 1 .. Len(ls) : it[i] = tbl[ls[i]]
  BY <1>1, ItemsSeq
<1>3. \A i, j \in 1 .. Len(ls) : it[i].key = it[j].key => i = j
  BY <1>2, KeysDiffer
<1> QED
  BY <1>1, <1>2, <1>3 DEF Distinct

(* A key has the value of its item, and NULL if it has none.               *)
LEMMA ValueFacts ==
    ASSUME NEW it, Distinct(it)
    PROVE  /\ \A i \in 1 .. Len(it) : /\ it[i] \in Item /\ it[i].value # NULL
                                      /\ ValueIn(it, it[i].key) = it[i].value
           /\ \A k : (\A i \in 1 .. Len(it) : it[i].key # k) => ValueIn(it, k) = NULL
<1>1. it \in Seq(Item) /\ \A i, j \in 1 .. Len(it) : it[i].key = it[j].key => i = j
  BY DEF Distinct
<1>2. ASSUME NEW i \in 1 .. Len(it)
      PROVE  it[i] \in Item /\ it[i].value # NULL /\ ValueIn(it, it[i].key) = it[i].value
  <2>1. it[i] \in Item
    BY <1>1
  <2>2. {n \in 1 .. Len(it) : it[n].key = it[i].key} = {i}
    BY <1>1
  <2>3. (CHOOSE n \in {i} : TRUE) = i
    OBVIOUS
  <2>4. ValueIn(it, it[i].key) = it[i].value
    BY <2>2, <2>3 DEF ValueIn
  <2> QED
    BY <2>1, <2>4, LinkKinds
<1>3. ASSUME NEW k, \A i \in 1 .. Len(it) : it[i].key # k PROVE ValueIn(it, k) = NULL
  <2>1. {n \in 1 .. Len(it) : it[n].key = k} = {}
    BY <1>3
  <2> QED
    BY <2>1 DEF ValueIn
<1> QED
  BY <1>2, <1>3

(* Sequences that have the same values for a key: both have an item with   *)
(* the key and the value, or none has one with the key.                    *)
LEMMA SameValue ==
    ASSUME NEW it, NEW new, Distinct(it), Distinct(new), NEW k,
           \/ \E i \in 1 .. Len(it), j \in 1 .. Len(new) : it[i].key = k /\ new[j] = it[i]
           \/ /\ \A i \in 1 .. Len(it) : it[i].key # k
              /\ \A j \in 1 .. Len(new) : new[j].key # k
    PROVE  ValueIn(new, k) = ValueIn(it, k)
<1>1. CASE \E i \in 1 .. Len(it), j \in 1 .. Len(new) : it[i].key = k /\ new[j] = it[i]
  <2>1. PICK i \in 1 .. Len(it), j \in 1 .. Len(new) : it[i].key = k /\ new[j] = it[i]
    BY <1>1
  <2>2. ValueIn(it, k) = it[i].value
    BY <2>1, ValueFacts
  <2>3. ValueIn(new, k) = new[j].value
    BY <2>1, ValueFacts
  <2> QED
    BY <2>1, <2>2, <2>3
<1>2. CASE /\ \A i \in 1 .. Len(it) : it[i].key # k
           /\ \A j \in 1 .. Len(new) : new[j].key # k
  <2>1. ValueIn(it, k) = NULL
    BY <1>2, ValueFacts
  <2>2. ValueIn(new, k) = NULL
    BY <1>2, ValueFacts
  <2> QED
    BY <2>1, <2>2
<1> QED
  BY <1>1, <1>2

(* Replacing an item by one with the same key changes the value of that    *)
(* key, and neither the other values nor the order.                        *)
LEMMA ReplacedItem ==
    ASSUME NEW it, NEW new, Distinct(it), Distinct(new), NEW i \in 1 .. Len(it),
           NEW x \in Item, x.key = it[i].key, Len(new) = Len(it),
           \A j \in 1 .. Len(it) : new[j] = IF j = i THEN x ELSE it[j]
    PROVE  /\ ValueIn(it, x.key) # NULL /\ KeysIn(new) = KeysIn(it)
           /\ Rewrites(it, new, x.key, x.value)
<1>1. it \in Seq(Item) /\ new \in Seq(Item) /\ Len(it) \in Nat
  BY DEF Distinct
<1>2. Len(new) = Len(it) /\ \A j \in 1 .. Len(it) : new[j] = IF j = i THEN x ELSE it[j]
  OBVIOUS
<1>3. KeysIn(new) = KeysIn(it)
  BY <1>2 DEF KeysIn
<1>4. ValueIn(it, x.key) # NULL
  BY ValueFacts
<1>5. ValueIn(new, x.key) = x.value
  <2>1. i \in 1 .. Len(new) /\ new[i] = x
    BY <1>2
  <2> QED
    BY <2>1, ValueFacts
<1>6. ASSUME NEW k, k # x.key PROVE ValueIn(new, k) = ValueIn(it, k)
  <2>1. \/ \E n \in 1 .. Len(it), j \in 1 .. Len(new) : it[n].key = k /\ new[j] = it[n]
        \/ /\ \A n \in 1 .. Len(it) : it[n].key # k
           /\ \A j \in 1 .. Len(new) : new[j].key # k
    BY <1>2, <1>6
  <2> QED
    BY <2>1, SameValue
<1>7. Rewrites(it, new, x.key, x.value)
  BY <1>5, <1>6 DEF Rewrites
<1> QED
  BY <1>3, <1>4, <1>7

(* An item with a new key at the end gives that key its value, and comes   *)
(* last in the order.                                                      *)
LEMMA AppendedItem ==
    ASSUME NEW it, NEW new, Distinct(it), Distinct(new), NEW x \in Item,
           \A i \in 1 .. Len(it) : it[i].key # x.key, Len(new) = Len(it) + 1,
           new[Len(it) + 1] = x, \A j \in 1 .. Len(it) : new[j] = it[j]
    PROVE  /\ ValueIn(it, x.key) = NULL /\ KeysIn(new) = Append(KeysIn(it), x.key)
           /\ Rewrites(it, new, x.key, x.value)
<1>1. it \in Seq(Item) /\ new \in Seq(Item) /\ Len(it) \in Nat
  BY DEF Distinct
<1>2. /\ Len(new) = Len(it) + 1 /\ new[Len(it) + 1] = x
      /\ \A j \in 1 .. Len(it) : new[j] = it[j]
  OBVIOUS
<1>3. KeysIn(new) = Append(KeysIn(it), x.key)
  <2>1. PICK A, B : A = KeysIn(it) /\ B = KeysIn(new)
    OBVIOUS
  <2>2. /\ A \in Seq(Keys) /\ Len(A) = Len(it)
        /\ \A j \in 1 .. Len(it) : A[j] = it[j].key
    BY <1>1, <2>1, LinkKinds DEF KeysIn
  <2>3. /\ B \in Seq(Keys) /\ Len(B) = Len(it) + 1
        /\ \A j \in 1 .. Len(it) + 1 : B[j] = new[j].key
    BY <1>1, <1>2, <2>1, LinkKinds DEF KeysIn
  <2>4. \A j \in 1 .. Len(A) : B[j] = A[j]
    BY <1>1, <1>2, <2>2, <2>3
  <2>5. B[Len(A) + 1] = x.key
    BY <1>1, <1>2, <2>2, <2>3
  <2>6. B = Append(A, x.key)
    BY <2>2, <2>3, <2>4, <2>5
  <2> QED
    BY <2>1, <2>6
<1>4. ValueIn(it, x.key) = NULL
  BY ValueFacts
<1>5. ValueIn(new, x.key) = x.value
  <2>1. Len(it) + 1 \in 1 .. Len(new)
    BY <1>1, <1>2
  <2> QED
    BY <1>2, <2>1, ValueFacts
<1>6. ASSUME NEW k, k # x.key PROVE ValueIn(new, k) = ValueIn(it, k)
  <2>1. \A j \in 1 .. Len(new) : j \in 1 .. Len(it) \/ j = Len(it) + 1
    BY <1>1, <1>2
  <2>2. \A j \in 1 .. Len(it) : j \in 1 .. Len(new)
    BY <1>1, <1>2
  <2>3. \/ \E n \in 1 .. Len(it), j \in 1 .. Len(new) : it[n].key = k /\ new[j] = it[n]
        \/ /\ \A n \in 1 .. Len(it) : it[n].key # k
           /\ \A j \in 1 .. Len(new) : new[j].key # k
    BY <1>2, <1>6, <2>1, <2>2
  <2> QED
    BY <2>3, SameValue
<1>7. Rewrites(it, new, x.key, x.value)
  BY <1>5, <1>6 DEF Rewrites
<1> QED
  BY <1>3, <1>4, <1>7

(* Taking an item out leaves its key without a value and the other keys    *)
(* with theirs, in the same order.                                         *)
LEMMA DroppedItem ==
    ASSUME NEW it, NEW new, Distinct(it), Distinct(new), NEW i \in 1 .. Len(it),
           Without(it, i, new), NEW q, q = it[i].key
    PROVE  /\ Len(KeysIn(it)) = Len(it)
           /\ KeysIn(new) = SubSeq(KeysIn(it), 1, i - 1) \o SubSeq(KeysIn(it), i + 1, Len(it))
           /\ Rewrites(it, new, q, NULL)
<1>1. /\ it \in Seq(Item) /\ new \in Seq(Item) /\ Len(it) \in Nat
      /\ \A j, m \in 1 .. Len(it) : it[j].key = it[m].key => j = m
  BY DEF Distinct
<1>2. /\ Len(new) = Len(it) - 1
      /\ \A j \in 1 .. Len(it) - 1 : new[j] = IF j < i THEN it[j] ELSE it[j + 1]
  BY DEF Without
<1>3. PICK A, B : A = KeysIn(it) /\ B = KeysIn(new)
  OBVIOUS
<1>4. /\ A \in Seq(Keys) /\ Len(A) = Len(it)
      /\ \A j \in 1 .. Len(it) : A[j] = it[j].key
  BY <1>1, <1>3, LinkKinds DEF KeysIn
<1>5. B = SubSeq(A, 1, i - 1) \o SubSeq(A, i + 1, Len(A))
  <2>1. PICK r : r = SubSeq(A, 1, i - 1) \o SubSeq(A, i + 1, Len(A))
    OBVIOUS
  <2>2. i \in 1 .. Len(A)
    BY <1>4
  <2>3. /\ r \in Seq(Keys) /\ Len(r) = Len(A) - 1
        /\ \A j \in 1 .. Len(A) - 1 : r[j] = IF j < i THEN A[j] ELSE A[j + 1]
    BY <1>4, <2>1, <2>2, Shorter, Zenon
  <2>4. /\ B \in Seq(Keys) /\ Len(B) = Len(it) - 1
        /\ \A j \in 1 .. Len(it) - 1 : B[j] = new[j].key
    BY <1>1, <1>2, <1>3, LinkKinds DEF KeysIn
  <2>5. ASSUME NEW j \in 1 .. Len(it) - 1 PROVE B[j] = r[j]
    <3>1. j \in 1 .. Len(it) /\ j + 1 \in 1 .. Len(it)
      BY <1>1
    <3> QED
      BY <1>2, <1>4, <2>3, <2>4, <3>1
  <2>6. B = r
    BY <1>4, <2>3, <2>4, <2>5
  <2> QED
    BY <2>1, <2>6
<1>7. \A j \in 1 .. Len(it) - 1 : j \in 1 .. Len(it) /\ j + 1 \in 1 .. Len(it)
  BY <1>1
<1>8. ASSUME NEW j \in 1 .. Len(new) PROVE \E m \in 1 .. Len(it) : m # i /\ new[j] = it[m]
  <2>1. j \in 1 .. Len(it) - 1
    BY <1>2
  <2>2. CASE j < i
    BY <1>2, <1>7, <2>1, <2>2
  <2>3. CASE ~(j < i)
    <3>1. j + 1 # i /\ new[j] = it[j + 1]
      BY <1>1, <1>2, <2>1, <2>3
    <3> QED
      BY <1>7, <2>1, <3>1
  <2> QED
    BY <2>2, <2>3
<1>9. ASSUME NEW m \in 1 .. Len(it), m # i PROVE \E j \in 1 .. Len(new) : new[j] = it[m]
  <2>1. CASE m < i
    <3>1. m \in 1 .. Len(it) - 1
      BY <1>1, <2>1
    <3> QED
      BY <1>2, <2>1, <3>1
  <2>2. CASE ~(m < i)
    <3>1. m - 1 \in 1 .. Len(it) - 1 /\ ~(m - 1 < i) /\ (m - 1) + 1 = m
      BY <1>1, <1>9, <2>2
    <3>2. new[m - 1] = it[m]
      BY <1>2, <3>1
    <3> QED
      BY <1>2, <3>1, <3>2
  <2> QED
    BY <2>1, <2>2
<1>10. ValueIn(new, q) = NULL
  <2>1. \A j \in 1 .. Len(new) : new[j].key # q
    BY <1>1, <1>8
  <2> QED
    BY <2>1, ValueFacts
<1>11. ASSUME NEW k, k # q PROVE ValueIn(new, k) = ValueIn(it, k)
  <2>1. \/ \E n \in 1 .. Len(it), j \in 1 .. Len(new) : it[n].key = k /\ new[j] = it[n]
        \/ /\ \A n \in 1 .. Len(it) : it[n].key # k
           /\ \A j \in 1 .. Len(new) : new[j].key # k
    BY <1>8, <1>9, <1>11
  <2> QED
    BY <2>1, SameValue
<1>12. Rewrites(it, new, q, NULL)
  BY <1>10, <1>11 DEF Rewrites
<1> QED
  BY <1>3, <1>4, <1>5, <1>12

-----------------------------------------------------------------------------
(* The refinement mapping as a function of the items.                      *)
ShownValues == [k \in Keys |-> ValueIn(Shown, k)]
ShownKeys   == KeysIn(Shown)

(* The mapping of the specification is this one, before a step and after.  *)
LEMMA Mapping ==
    ASSUME Inv, Inv'
    PROVE  /\ [k \in Keys |-> ValueOf(k)] = ShownValues
           /\ [k \in Keys |-> ValueOf(k)]' = ShownValues'
           /\ [n \in 1 .. Len(list) |-> links[list[n]].key] = ShownKeys
           /\ [n \in 1 .. Len(list) |-> links[list[n]].key]' = ShownKeys'
<1> DEFINE ValueAt(tbl, ls, k) ==
             LET at == {n \in 1 .. Len(ls) : tbl[ls[n]].key = k}
             IN IF at = {} THEN NULL ELSE tbl[ls[CHOOSE n \in at : TRUE]].value
           OrderAt(tbl, ls) == [n \in 1 .. Len(ls) |-> tbl[ls[n]].key]
<1>1. ASSUME NEW tbl, NEW ls, NEW cap, Sound(tbl, ls, cap)
      PROVE  /\ \A k : ValueAt(tbl, ls, k) = ValueIn(Items(tbl, ls), k)
             /\ OrderAt(tbl, ls) = KeysIn(Items(tbl, ls))
  <2>1. PICK it : it = Items(tbl, ls)
    OBVIOUS
  <2>2. Len(it) = Len(ls) /\ \A i \in 1 .. Len(ls) : it[i] = tbl[ls[i]]
    BY <1>1, <2>1, ItemsSeq
  <2>3. ASSUME NEW k PROVE ValueAt(tbl, ls, k) = ValueIn(it, k)
    <3>1. PICK at : at = {n \in 1 .. Len(ls) : tbl[ls[n]].key = k}
      OBVIOUS
    <3>2. at = {n \in 1 .. Len(it) : it[n].key = k}
      BY <2>2, <3>1
    <3>3. CASE at = {}
      BY <3>1, <3>2, <3>3 DEF ValueIn
    <3>4. CASE at # {}
      <4>1. PICK c : c = CHOOSE n \in at : TRUE
        OBVIOUS
      <4>2. c \in 1 .. Len(ls)
        BY <3>1, <3>4, <4>1
      <4>3. ValueAt(tbl, ls, k) = tbl[ls[c]].value
        BY <3>1, <3>4, <4>1, Zenon
      <4>4. ValueIn(it, k) = it[c].value
        BY <3>2, <3>4, <4>1, Zenon DEF ValueIn
      <4> QED
        BY <2>2, <4>2, <4>3, <4>4
    <3> QED
      BY <3>3, <3>4
  <2>4. OrderAt(tbl, ls) = KeysIn(it)
    BY <2>2 DEF KeysIn
  <2> QED
    BY <2>1, <2>3, <2>4
<1>2. /\ \A k : ValueOf(k) = ValueAt(links, list, k)
      /\ [n \in 1 .. Len(list) |-> links[list[n]].key] = OrderAt(links, list)
  BY DEF ValueOf
<1>3. /\ \A k \in Keys : ValueOf(k)' = ValueAt(links', list', k)
      /\ [n \in 1 .. Len(list) |-> links[list[n]].key]' = OrderAt(links', list')
  BY DEF ValueOf
<1> HIDE DEF ValueAt, OrderAt
<1>4. /\ \A k : ValueAt(links, list, k) = ValueIn(Shown, k)
      /\ OrderAt(links, list) = ShownKeys
  BY <1>1 DEF Inv, Shown, ShownKeys
<1>5. /\ \A k : ValueAt(links', list', k) = ValueIn(Shown', k)
      /\ OrderAt(links', list') = ShownKeys'
  BY <1>1 DEF Inv, Shown, ShownKeys
<1> QED
  BY <1>2, <1>3, <1>4, <1>5 DEF ShownValues

(* A step of the table is a step of the map, or changes nothing it shows.  *)
LEMMA StepImplements == Inv /\ Inv' /\ [Next]_vars => [Map!Next]_(Map!vars)
<1> SUFFICES ASSUME Inv, Inv', [Next]_vars PROVE [Map!Next]_(Map!vars)
  OBVIOUS
<1>1. PICK m, m2, o, o2 : /\ m = ShownValues /\ m2 = ShownValues'
                          /\ o = ShownKeys /\ o2 = ShownKeys'
  OBVIOUS
<1>2. PICK it, it2 : it = Shown /\ it2 = Shown'
  OBVIOUS
<1>3. Distinct(it) /\ Distinct(it2)
  <2>1. Distinct(it)
    BY <1>2, ItemsDistinct DEF Inv, Shown
  <2>2. Distinct(it2)
    BY <1>2, ItemsDistinct DEF Inv, Shown
  <2> QED
    BY <2>1, <2>2
<1>4. /\ m = [k \in Keys |-> ValueIn(it, k)] /\ m2 = [k \in Keys |-> ValueIn(it2, k)]
      /\ o = KeysIn(it) /\ o2 = KeysIn(it2)
  BY <1>1, <1>2 DEF ShownValues, ShownKeys
<1>5. Len(it) = Len(list) /\ \A i \in 1 .. Len(list) : it[i] = links[list[i]]
  BY <1>2, ItemsSeq DEF Inv, Shown
<1>6. /\ [k \in Keys |-> ValueOf(k)] = m /\ [k \in Keys |-> ValueOf(k)]' = m2
      /\ [n \in 1 .. Len(list) |-> links[list[n]].key] = o
      /\ [n \in 1 .. Len(list) |-> links[list[n]].key]' = o2
  BY <1>1, Mapping
<1>7. ASSUME NEW k \in Keys, result' = m[k], m2 = m, o2 = o PROVE Map!Get(k)
  BY <1>6, <1>7 DEF Map!Get
<1>8. ASSUME NEW k \in Keys, NEW v \in Values, m2 = [m EXCEPT ![k] = v], result' = NULL,
             o2 = IF m[k] = NULL THEN Append(o, k) ELSE o
      PROVE  Map!Set(k, v)
  BY <1>6, <1>8 DEF Map!Set
<1>9. ASSUME NEW k \in Keys, result' = m[k], m2 = [m EXCEPT ![k] = NULL],
             \/ m[k] = NULL /\ o2 = o
             \/ \E n \in 1 .. Len(o) :
                   /\ o[n] = k /\ o2 = SubSeq(o, 1, n - 1) \o SubSeq(o, n + 1, Len(o))
      PROVE  Map!Remove(k)
  BY <1>6, <1>9 DEF Map!Remove
<1>10. ASSUME NEW k \in Keys, NEW v, Rewrites(it, it2, k, v)
       PROVE  m[k] = ValueIn(it, k) /\ m2 = [m EXCEPT ![k] = v]
  <2>1. \A q \in Keys : m2[q] = IF q = k THEN v ELSE m[q]
    BY <1>4, <1>10 DEF Rewrites
  <2> QED
    BY <1>4, <2>1
<1>11. ASSUME NEW k \in Keys, Absent(k) PROVE m[k] = NULL
  <2>1. \A i \in 1 .. Len(it) : it[i].key # k
    BY <1>5, <1>11 DEF Absent
  <2>2. ValueIn(it, k) = NULL
    BY <1>3, <2>1, ValueFacts
  <2> QED
    BY <1>4, <2>2
<1>12. ASSUME NEW k \in Keys, NEW i \in 1 .. Len(list), PlaceOf(k, i)
       PROVE  /\ i \in 1 .. Len(it) /\ it[i] = links[list[i]] /\ it[i].key = k
              /\ m[k] = it[i].value /\ m[k] # NULL
  <2>1. i \in 1 .. Len(it) /\ it[i] = links[list[i]] /\ it[i].key = k
    BY <1>5, <1>12 DEF PlaceOf
  <2>2. ValueIn(it, k) = it[i].value /\ it[i].value # NULL
    BY <1>3, <2>1, ValueFacts
  <2> QED
    BY <1>4, <2>1, <2>2
<1>13. ASSUME links' = links, list' = list PROVE m2 = m /\ o2 = o
  <2>1. it2 = it
    BY <1>2, <1>13 DEF Shown
  <2> QED
    BY <1>4, <2>1
<1>14. ASSUME NEW k \in Keys, Get(k) PROVE Map!Get(k)
  <2>1. m2 = m /\ o2 = o
    BY <1>13, <1>14, LookKeeps
  <2>2. PICK slot : slot = FindLink(links, capacity, k)
    OBVIOUS
  <2>3. result' = links[slot].value
    BY <1>14, <2>2 DEF Get
  <2>4. CASE \E i \in 1 .. Len(list) : PlaceOf(k, i) /\ list[i] = slot
    <3>1. PICK i \in 1 .. Len(list) : PlaceOf(k, i) /\ list[i] = slot
      BY <2>4
    <3>2. m[k] = links[list[i]].value
      BY <1>12, <3>1
    <3> QED
      BY <1>7, <2>1, <2>3, <3>1, <3>2
  <2>5. CASE links[slot] = Empty /\ Absent(k)
    <3>1. m[k] = NULL /\ links[slot].value = NULL
      BY <1>11, <2>5, LinkKinds
    <3> QED
      BY <1>7, <2>1, <2>3, <3>1
  <2> QED
    BY <2>2, <2>4, <2>5, Probe
<1>15. ASSUME NEW k \in Keys, NEW v \in Values, SetExisting(k, v) PROVE Map!Set(k, v)
  <2>1. PICK x : x = [key |-> k, value |-> v]
    OBVIOUS
  <2>2. PICK i \in 1 .. Len(list) : PlaceOf(k, i) /\ it2 = [it EXCEPT ![i] = x]
    BY <1>2, <1>15, <2>1, SetExistingKeeps
  <2>3. x \in Item /\ x.key = k /\ x.value = v
    BY <2>1 DEF Item
  <2>4. i \in 1 .. Len(it) /\ it[i].key = k /\ m[k] # NULL
    BY <1>12, <2>2
  <2>5. it \in Seq(Item)
    BY <1>3 DEF Distinct
  <2>6. Len(it2) = Len(it) /\ \A j \in 1 .. Len(it) : it2[j] = IF j = i THEN x ELSE it[j]
    BY <2>2, <2>3, <2>4, <2>5
  <2>7. KeysIn(it2) = KeysIn(it)
    BY <1>3, <2>3, <2>4, <2>6, ReplacedItem
  <2>8. Rewrites(it, it2, k, v)
    BY <1>3, <2>3, <2>4, <2>6, ReplacedItem
  <2>9. m2 = [m EXCEPT ![k] = v]
    BY <1>10, <2>8
  <2>10. result' = NULL
    BY <1>15 DEF SetExisting
  <2> QED
    BY <1>4, <1>8, <2>4, <2>7, <2>9, <2>10
<1>16. ASSUME NEW k \in Keys, NEW v \in Values, SetNew(k, v) PROVE Map!Set(k, v)
  <2>1. PICK x : x = [key |-> k, value |-> v]
    OBVIOUS
  <2>2. Absent(k) /\ it2 = Append(it, x)
    BY <1>2, <1>16, <2>1, SetNewKeeps
  <2>3. x \in Item /\ x.key = k /\ x.value = v
    BY <2>1 DEF Item
  <2>4. m[k] = NULL /\ \A i \in 1 .. Len(it) : it[i].key # x.key
    BY <1>5, <1>11, <2>2, <2>3 DEF Absent
  <2>a. /\ Len(it2) = Len(it) + 1 /\ it2[Len(it) + 1] = x
        /\ \A j \in 1 .. Len(it) : it2[j] = it[j]
    <3>1. it \in Seq(Item)
      BY <1>3 DEF Distinct
    <3> QED
      BY <2>2, <2>3, <3>1
  <2>5. KeysIn(it2) = Append(KeysIn(it), x.key)
    BY <1>3, <2>3, <2>4, <2>a, AppendedItem
  <2>6. Rewrites(it, it2, x.key, x.value)
    BY <1>3, <2>3, <2>4, <2>a, AppendedItem
  <2>7. m2 = [m EXCEPT ![k] = v]
    BY <1>10, <2>3, <2>6
  <2>8. o2 = Append(o, k)
    BY <1>4, <2>3, <2>5
  <2>9. result' = NULL
    BY <1>16 DEF SetNew
  <2> QED
    BY <1>8, <2>4, <2>7, <2>8, <2>9
<1>17. ASSUME NEW k \in Keys, RemoveAbsent(k) PROVE Map!Remove(k)
  <2>1. m2 = m /\ o2 = o
    BY <1>13, <1>17, LookKeeps
  <2>2. links[FindLink(links, capacity, k)].key = NoKey /\ result' = NULL
    BY <1>17 DEF RemoveAbsent
  <2>3. m[k] = NULL
    BY <1>11, <2>2, Probe
  <2>4. m2 = [m EXCEPT ![k] = NULL]
    BY <1>4, <2>1, <2>3
  <2> QED
    BY <1>9, <2>1, <2>2, <2>3, <2>4
<1>18. ASSUME NEW k \in Keys, RemovePresent(k) PROVE Map!Remove(k)
  <2>1. PICK i \in 1 .. Len(list) : /\ PlaceOf(k, i) /\ result' = links[list[i]].value
                                    /\ Without(it, i, it2)
    BY <1>2, <1>18, RemoveKeeps
  <2>2. /\ i \in 1 .. Len(it) /\ it[i].key = k /\ result' = m[k]
    BY <1>12, <2>1
  <2>3. o[i] = k /\ Len(o) = Len(it)
    <3>1. KeysIn(it)[i] = k
      BY <2>2 DEF KeysIn
    <3>2. Len(KeysIn(it)) = Len(it)
      BY <1>3, <2>1, <2>2, DroppedItem
    <3> QED
      BY <1>4, <3>1, <3>2
  <2>4. o2 = SubSeq(o, 1, i - 1) \o SubSeq(o, i + 1, Len(it))
    BY <1>3, <1>4, <2>1, <2>2, DroppedItem
  <2>5. Rewrites(it, it2, k, NULL)
    BY <1>3, <2>1, <2>2, DroppedItem
  <2>6. m2 = [m EXCEPT ![k] = NULL]
    BY <1>10, <2>5
  <2>7. \E n \in 1 .. Len(o) :
           o[n] = k /\ o2 = SubSeq(o, 1, n - 1) \o SubSeq(o, n + 1, Len(o))
    <3>1. i \in 1 .. Len(o)
      BY <2>2, <2>3
    <3>2. o2 = SubSeq(o, 1, i - 1) \o SubSeq(o, i + 1, Len(o))
      BY <2>3, <2>4
    <3> QED
      BY <2>3, <3>1, <3>2
  <2> QED
    BY <1>9, <2>2, <2>6, <2>7
<1>19. CASE UNCHANGED vars
  <2>1. m2 = m /\ o2 = o /\ result' = result
    BY <1>13, <1>19 DEF vars
  <2> QED
    BY <1>6, <2>1 DEF Map!vars
<1>20. CASE Next
  <2>1. PICK k \in Keys : \/ Get(k)
                          \/ \E v \in Values : SetExisting(k, v) \/ SetNew(k, v)
                          \/ RemoveAbsent(k) \/ RemovePresent(k)
    BY <1>20 DEF Next
  <2>2. Map!Get(k) \/ Map!Remove(k) \/ \E v \in Values : Map!Set(k, v)
    BY <1>14, <1>15, <1>16, <1>17, <1>18, <2>1
  <2>3. Map!Next
    BY <2>2 DEF Map!Next
  <2> QED
    BY <2>3
<1> QED
  BY <1>19, <1>20

(* uo_hashtbl is an insertion-ordered map: collisions, tombstones, growth  *)
(* and rebuilding are invisible to its callers, for every sequence of      *)
(* calls and whatever the hash function.                                   *)
THEOREM TableImplementsMap == Spec => ImplementsMap
<1>1. Init => Map!Init
  <2> SUFFICES ASSUME Init PROVE Map!Init
    OBVIOUS
  <2>1. list = <<>> /\ Len(list) = 0 /\ result = NULL
    BY DEF Init
  <2>2. [n \in 1 .. Len(list) |-> links[list[n]].key] = <<>>
    BY <2>1
  <2>3. \A k : ValueOf(k) = NULL
    BY <2>1 DEF ValueOf
  <2> QED
    BY <2>1, <2>2, <2>3 DEF Map!Init
<1>2. Spec => []Inv
  BY InitInv, NextInv, PTL DEF Spec
<1> QED
  BY <1>1, <1>2, StepImplements, PTL DEF Spec, ImplementsMap, Map!Spec
=============================================================================
