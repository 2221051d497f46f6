------------------------------ MODULE UoHashtbl ------------------------------
(***************************************************************************)
(* The open-addressing hash table of libuo: uo_hashtbl.h.  A removed item  *)
(* leaves a tombstone that later probes skip and inserts do not reuse; the *)
(* table is rebuilt when a quarter of it is tombstones, and doubled when   *)
(* half of it is in use.  The items are also linked in a list, in the      *)
(* order they were inserted.  A key is not 0, a value neither NULL nor     *)
(* UO_HASHTBL_TAG_REMOVED.                                                 *)
(***************************************************************************)
EXTENDS Integers, Sequences, FiniteSets

CONSTANTS Keys, Values,
          Hash,             \* hash(key)
          MIN_CAPACITY,     \* UO_HASHTBL_MIN_CAPACITY: 0x10 in the code
          NULL

NoKey   == "0"              \* (type)0
REMOVED == "~0"             \* UO_HASHTBL_TAG_REMOVED

ASSUME HashtblConstants ==
    /\ Hash \in [Keys -> Nat]
    /\ MIN_CAPACITY \in Nat /\ MIN_CAPACITY >= 4
    /\ \E n \in 2 .. MIN_CAPACITY : MIN_CAPACITY = 2 ^ n
    /\ NoKey \notin Keys
    /\ NULL \notin Values /\ REMOVED \notin Values /\ NULL # REMOVED

VARIABLES capacity,
          links,            \* the table: key and value of each slot
          list,             \* the linked list, as the slots of its items
          count, removed_count,
          result            \* what the last call returned

vars == <<capacity, links, list, count, removed_count, result>>

Empty   == [key |-> NoKey, value |-> NULL]
Tomb    == [key |-> NoKey, value |-> REMOVED]

TypeOK ==
    /\ capacity \in Nat \ {0}
    /\ links \in [0 .. capacity - 1 -> [key : Keys \cup {NoKey}, value : Values \cup {NULL, REMOVED}]]
    /\ list \in Seq(0 .. capacity - 1)
    /\ count \in Nat /\ removed_count \in Nat
    /\ result \in Values \cup {NULL}

(* uo_hashtbl_create_at, with an initial capacity that does not matter     *)
Init ==
    /\ capacity = MIN_CAPACITY
    /\ links = [s \in 0 .. MIN_CAPACITY - 1 |-> Empty]
    /\ list = <<>> /\ count = 0 /\ removed_count = 0
    /\ result = NULL

-----------------------------------------------------------------------------
(* uo_hashtbl_find_link: linear probing from the key's slot                *)
Skips(link, k) == (link.key # NoKey /\ link.key # k) \/ link.value = REMOVED

At(cap, k, n) == (Hash[k] + n) % cap

FindLinkReuses(tbl, cap, k) ==                \* mutation: stops at a tombstone
    LET Stops(n) == tbl[At(cap, k, n)].key \in {NoKey, k}
    IN At(cap, k, CHOOSE n \in 0 .. cap - 1 : Stops(n) /\ \A m \in 0 .. n - 1 : ~Stops(m))
Ends(tbl, cap, k, n) ==
    /\ ~Skips(tbl[At(cap, k, n)], k)
    /\ \A m \in 0 .. n - 1 : Skips(tbl[At(cap, k, m)], k)
FindLink(tbl, cap, k) ==
    At(cap, k, CHOOSE n \in 0 .. cap - 1 : Ends(tbl, cap, k, n))

(* an item is put into the slot found for it, and at the end of the list   *)
Entered(t, cap, item) ==
    LET slot == FindLink(t.links, cap, item.key)
    IN [links |-> [t.links EXCEPT ![slot] = item], list |-> Append(t.list, slot)]

(* uo_hashtbl_resize: the items of the list are entered into a new table,  *)
(* one after the other                                                     *)
Built(t, cap) ==
    LET built[n \in 0 .. Len(t.list)] ==
            IF n = 0 THEN [links |-> [s \in 0 .. cap - 1 |-> Empty], list |-> <<>>]
            ELSE Entered(built[n - 1], cap, t.links[t.list[n]])
    IN built
Resized(t, cap) == Built(t, cap)[Len(t.list)]

Install(t, cap) == links' = t.links /\ list' = t.list /\ capacity' = cap

-----------------------------------------------------------------------------
Table == [links |-> links, list |-> list]

(* uo_hashtbl_get                                                          *)
Get(k) ==
    /\ result' = links[FindLink(links, capacity, k)].value
    /\ UNCHANGED <<capacity, links, list, count, removed_count>>

(* uo_hashtbl_set of a key that is there, and of a new one                 *)
SetExisting(k, v) ==
    LET slot == FindLink(links, capacity, k) IN
    /\ links[slot].key # NoKey
    /\ links' = [links EXCEPT ![slot].value = v]
    /\ result' = NULL
    /\ UNCHANGED <<capacity, list, count, removed_count>>

SetNew(k, v) ==
    LET t == Entered(Table, capacity, [key |-> k, value |-> v])
    IN /\ links[FindLink(links, capacity, k)].key = NoKey
       /\ count' = count + 1
       /\ \/ /\ count + 1 = capacity \div 2
             /\ Install(Resized(t, 2 * capacity), 2 * capacity) /\ removed_count' = 0
          \/ /\ count + 1 # capacity \div 2
             /\ Install(t, capacity) /\ UNCHANGED removed_count
       /\ result' = NULL

(* uo_hashtbl_remove.  The condition for halving the table compares a      *)
(* truth value with the minimal capacity                                   *)
RemoveAbsent(k) ==
    /\ links[FindLink(links, capacity, k)].key = NoKey
    /\ result' = NULL
    /\ UNCHANGED <<capacity, links, list, count, removed_count>>

Shrinks(n) == (IF n = capacity \div 8 THEN 1 ELSE 0) >= MIN_CAPACITY

(* the item's place is emptied and marked, and taken out of the list       *)
Unlinked(slot) ==
    LET n == CHOOSE n \in 1 .. Len(list) : list[n] = slot
    IN [links |-> [links EXCEPT ![slot] = Tomb],
        list  |-> SubSeq(list, 1, n - 1) \o SubSeq(list, n + 1, Len(list))]

RemoveNoPurge(k) ==                           \* mutation: tombstones are never cleared away
    LET slot == FindLink(links, capacity, k) IN
    /\ links[slot].key # NoKey
    /\ result' = links[slot].value
    /\ count' = count - 1 /\ removed_count' = removed_count + 1
    /\ Install(Unlinked(slot), capacity)
RemovePresent(k) ==
    LET slot == FindLink(links, capacity, k)
        t    == Unlinked(slot)
        cap  == IF Shrinks(count - 1) THEN capacity \div 2 ELSE capacity
    IN /\ links[slot].key # NoKey
       /\ result' = links[slot].value
       /\ count' = count - 1
       /\ \/ /\ removed_count + 1 >= capacity \div 4 \/ cap # capacity
             /\ Install(Resized(t, cap), cap) /\ removed_count' = 0
          \/ /\ removed_count + 1 < capacity \div 4 /\ cap = capacity
             /\ Install(t, capacity) /\ removed_count' = removed_count + 1

Next ==
    \E k \in Keys :
        \/ Get(k)
        \/ \E v \in Values : SetExisting(k, v) \/ SetNew(k, v)
        \/ RemoveAbsent(k) \/ RemovePresent(k)

Spec == Init /\ [][Next]_vars

-----------------------------------------------------------------------------
Occupied == {s \in DOMAIN links : links[s].key # NoKey}

(* A probe for an absent key ends: some slot was never used since the last *)
(* rebuild, however inserts and removals alternate (uo_hashtbl.h:245-247,  *)
(* 300,329).                                                               *)
AlwaysAFreeSlot == \E s \in DOMAIN links : links[s] = Empty

(* The two counters that decide about growing and rebuilding are true to   *)
(* the table (uo_hashtbl.h:300,303,326-332).                               *)
CountsTrue ==
    /\ count = Cardinality(Occupied)
    /\ removed_count = Cardinality({s \in DOMAIN links : links[s].value = REMOVED})

(* The linked list goes through every item once, and through no slot that  *)
(* was freed (uo_hashtbl.h:274,298,324).                                   *)
ListMatches == Len(list) = Cardinality(Occupied) /\ {list[n] : n \in 1 .. Len(list)} = Occupied

(* Refinement mapping: the items the list goes through, whether or not a   *)
(* probe would find them.                                                  *)
ValueOf(k) ==
    LET at == {n \in 1 .. Len(list) : links[list[n]].key = k}
    IN IF at = {} THEN NULL ELSE links[list[CHOOSE n \in at : TRUE]].value

Map == INSTANCE OrderedMap WITH
         map   <- [k \in Keys |-> ValueOf(k)],
         order <- [n \in 1 .. Len(list) |-> links[list[n]].key]

(* Collisions, tombstones and rebuilding are invisible: the table is an    *)
(* insertion-ordered map (uo_hashtbl.h:63-97,281-342).                     *)
ImplementsMap == Map!Spec

(* The table behind the map is sound: probes end, the counters and the     *)
(* list are true to the slots, through any sequence of entering, removing, *)
(* growing and purging (uo_hashtbl.h:245,300-305,326-332).                 *)
TableSound == TypeOK /\ AlwaysAFreeSlot /\ CountsTrue /\ ListMatches
=============================================================================
