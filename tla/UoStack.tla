------------------------------- MODULE UoStack -------------------------------
(***************************************************************************)
(* uo_stack.h: a stack in an array that grows by powers of two and is      *)
(* halved when it has become nearly empty.  A stack is its items, bottom   *)
(* first (uo_stack_index counts them from 0, or from the top with negative *)
(* indexes), and the capacity of the array.  Every operation writes its    *)
(* items into the array of the new capacity: `Fits' says it has the room.  *)
(***************************************************************************)
EXTENDS Integers, Sequences, SequencesExt

CONSTANTS
  UO_STACK_MIN_CAPACITY,
  WORD                     \* bits of a size_t

ASSUME StackAssumption == UO_STACK_MIN_CAPACITY \in Nat \ {0} /\ WORD \in Nat \ {0}

(* next_power_of_two: the bits below the highest one are filled by shifts   *)
(* of 1, 2, 4, ... up to half a word.                                       *)
BitsOf(n) == {i \in 0..WORD - 1 : (n \div 2^i) % 2 = 1}
Smear(n, shift) == MapThenSumSet(LAMBDA i : 2^i, BitsOf(n) \cup BitsOf(n \div 2^shift))
NextPowerOfTwo(n) ==
  (FoldLeft(Smear, (n - 1) % 2^WORD, SelectSeq(<<1, 2, 4, 8, 16, 32>>, LAMBDA k : k < WORD)) + 1) % 2^WORD

StackCreate(initial) ==
  [items |-> <<>>, capacity |-> IF initial >= UO_STACK_MIN_CAPACITY THEN NextPowerOfTwo(initial)
                                ELSE UO_STACK_MIN_CAPACITY]

Count(s) == Len(s.items)
Fits(s) == Count(s) <= s.capacity

Grown(s) == IF Count(s) = s.capacity THEN s.capacity * 2 ELSE s.capacity
GrownFor(s, n) == IF n > s.capacity THEN NextPowerOfTwo(n) ELSE s.capacity

StackPush(s, x) == [items |-> Append(s.items, x), capacity |-> Grown(s)]
StackPushArr(s, xs) == [items |-> s.items \o xs, capacity |-> GrownFor(s, Count(s) + Len(xs))]

(* The array is halved at an eighth; assert(stack->count) is the guard.     *)
StackPop(s) ==
  LET left == Front(s.items) IN
  [items |-> left,
   capacity |-> IF Len(left) = s.capacity \div 8 /\ Len(left) >= UO_STACK_MIN_CAPACITY
                THEN s.capacity \div 2 ELSE s.capacity]
StackPeek(s) == s.items[Count(s)]

(* A negative index counts from the top.                                    *)
At(s, i) == IF i >= 0 THEN i ELSE Count(s) + i
StackIndex(s, i) == s.items[At(s, i) + 1]
StackInsert(s, i, x) == [items |-> InsertAt(s.items, At(s, i) + 1, x), capacity |-> Grown(s)]
StackInsertArr(s, i, xs) ==
  [items |-> SubSeq(s.items, 1, At(s, i)) \o xs \o SubSeq(s.items, At(s, i) + 1, Count(s)),
   capacity |-> GrownFor(s, Count(s) + Len(xs))]
=============================================================================
