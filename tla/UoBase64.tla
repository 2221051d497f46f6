------------------------------ MODULE UoBase64 -------------------------------
(***************************************************************************)
(* uo_base64.c.  Source and destination are places in one memory, since    *)
(* uo_jwt.c encodes and decodes in place: the encoders go from the last    *)
(* group to the first, the decoders from the first to the last, and each   *)
(* group is read before it is written.  A memory is a function on the      *)
(* addresses 0, 1, ...; characters are their codes.                        *)
(***************************************************************************)
EXTENDS Integers, Sequences, SequencesExt

OVERREAD == -1           \* it reads past the end of its argument; no length
PAD == 61

Letters == [v \in 0..61 |-> IF v < 26 THEN 65 + v ELSE IF v < 52 THEN 71 + v ELSE v - 4]
Btoa == [v \in 0..63 |-> CASE v = 62 -> 43 [] v = 63 -> 47 [] OTHER -> Letters[v]]
BtoaUrl == [v \in 0..63 |-> CASE v = 62 -> 45 [] v = 63 -> 95 [] OTHER -> Letters[v]]

(* The tables of the decoders: 0xFF for what is no digit, and 0x40 for '='  *)
(* in the first.                                                            *)
Digit(table, c) == IF \E v \in 0..63 : table[v] = c THEN CHOOSE v \in 0..63 : table[v] = c ELSE 255
Atob(c) == IF c = PAD THEN 64 ELSE Digit(Btoa, c)
AtobUrl(c) == Digit(BtoaUrl, c)

Base64Len(len) == 4 * (((len * 4) \div 3 + 3) \div 4)

Store(mem, at, xs) ==
  [i \in DOMAIN mem |-> IF i \in at..(at + Len(xs) - 1) THEN xs[i - at + 1] ELSE mem[i]]

(* The six-bit digits of a group of three bytes; a group of one or two      *)
(* bytes has its first two or three.                                        *)
Sextets(b0, b1, b2) ==
  <<b0 \div 4, (b0 % 4) * 16 + b1 \div 16, (b1 % 16) * 4 + b2 \div 64, b2 % 64>>
Octets(a0, a1, a2, a3) ==
  <<(a0 * 4 + a1 \div 16) % 256, ((a1 % 16) * 16 + a2 \div 4) % 256, ((a2 % 4) * 64 + a3) % 256>>

(* A defect to be caught: the whole groups encoded from the first one on.   *)
WholeGroupsForward(mem, table, dst, src, n) ==
  LET Group(m, k) ==
        Store(m, dst + 4 * k, [i \in 1..4 |-> table[Sextets(m[src + 3 * k], m[src + 3 * k + 1], m[src + 3 * k + 2])[i]]])
  IN FoldLeft(Group, mem, [i \in 1..n |-> i - 1])

(* The loop over the whole groups, last first.                              *)
WholeGroups(mem, table, dst, src, n) ==
  LET Group(m, k) ==
        Store(m, dst + 4 * k, [i \in 1..4 |-> table[Sextets(m[src + 3 * k], m[src + 3 * k + 1], m[src + 3 * k + 2])[i]]])
  IN FoldLeft(Group, mem, [i \in 1..n |-> n - i])

(* The switch on src_len % 3: the digits of the last one or two bytes.      *)
TailDigits(mem, table, src, len) ==
  LET last == src + len - 1 IN
  CASE len % 3 = 0 -> <<>>
    [] len % 3 = 1 -> [i \in 1..2 |-> table[Sextets(mem[last], 0, 0)[i]]]
    [] len % 3 = 2 -> [i \in 1..3 |-> table[Sextets(mem[last - 1], mem[last], 0)[i]]]

Padded(digits) == IF digits = <<>> THEN <<>> ELSE digits \o [i \in 1..(4 - Len(digits)) |-> PAD]

(* An encoder's result: the memory, and the length of what it wrote.        *)
Encode(mem, dst, src, len) ==
  LET tail == Padded(TailDigits(mem, Btoa, src, len))
      a == dst + Base64Len(len) - Len(tail)
  IN [mem |-> WholeGroups(Store(mem, a, tail), Btoa, dst, src, (a - dst) \div 4), len |-> Base64Len(len)]

UrlEncode(mem, dst, src, len) ==
  LET tail == TailDigits(mem, BtoaUrl, src, len)
      a == dst + Base64Len(len) - Len(Padded(tail))
  IN [mem |-> WholeGroups(Store(mem, a, tail), BtoaUrl, dst, src, (a - dst) \div 4),
      len |-> a + Len(tail) - dst]

(* The decoding of one group at a, written at b.                            *)
Decoded(mem, At(_), a, b, n) ==
  LET d == [i \in 1..4 |-> IF n > 0 /\ i <= n + 1 THEN At(mem[a + i - 1]) ELSE 0]
  IN Store(mem, b, SubSeq(Octets(d[1], d[2], d[3], d[4]), 1, n))

(* The condition of the decoder's loop looks at a[2] and a[3] when no whole *)
(* group is left before the last: at the end of an encoding without padding *)
(* they are beyond it.                                                      *)
RECURSIVE DecodeFrom(_, _, _, _, _)
DecodeFrom(mem, dst, b, a, end) ==
  IF a + 4 > end THEN [mem |-> mem, len |-> OVERREAD]
  ELSE IF a + 4 < end \/ (mem[a + 2] # PAD /\ mem[a + 3] # PAD)
       THEN DecodeFrom(Decoded(mem, Atob, a, b, 3), dst, b + 3, a + 4, end)
  ELSE LET n == IF Atob(mem[a + 2]) # 64 THEN 2 ELSE 1
       IN [mem |-> Decoded(mem, Atob, a, b, n), len |-> b + n - dst]
Decode(mem, dst, src, len) == DecodeFrom(mem, dst, dst, src, src + len)

RECURSIVE UrlDecodeFrom(_, _, _, _, _)
UrlDecodeFrom(mem, dst, b, a, end) ==
  IF a + 4 <= end THEN UrlDecodeFrom(Decoded(mem, AtobUrl, a, b, 3), dst, b + 3, a + 4, end)
  ELSE LET n == IF end - a \in {2, 3} THEN end - a - 1 ELSE 0
       IN [mem |-> Decoded(mem, AtobUrl, a, b, n), len |-> b + n - dst]
UrlDecode(mem, dst, src, len) == UrlDecodeFrom(mem, dst, dst, src, src + len)
=============================================================================
