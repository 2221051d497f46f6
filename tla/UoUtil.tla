------------------------------- MODULE UoUtil --------------------------------
(***************************************************************************)
(* uo_util.h on C strings.  A string is the sequence of its character      *)
(* codes, the terminating NUL left out: `Char' reads it there.  A pointer  *)
(* is an index, NULL is 0.                                                 *)
(***************************************************************************)
EXTENDS Integers, Sequences, SequencesExt, FiniteSetsExt, Bitwise

NUL == 0
NULL == 0
OVERRUN == <<-1>>        \* it reads past the end of its argument; no string

Char(str, p) == IF p \in DOMAIN str THEN str[p] ELSE NUL

(* uo_ceil_pow2: the bits below the highest one are filled; the numbers     *)
(* here are below 2^30, where the shifts by 16 and 32 change nothing more.  *)
CeilPow2(n) == FoldLeft(LAMBDA m, k : m | (m \div 2^k), n - 1, <<1, 2, 4, 8, 16>>) + 1

(* strchr, and the loops that skip a class of characters.                   *)
StrChr(str, p, ch) ==
  LET found == {q \in p..Len(str) : str[q] = ch} \cup (IF ch = NUL THEN {Len(str) + 1} ELSE {})
  IN IF found = {} THEN NULL ELSE Min(found)
Skip(str, p, chars) == Min({q \in p..(Len(str) + 1) : Char(str, q) \notin chars})

(* uo_strdiff(str1 + p - 1, str2 + q - 1): where in str1 they differ.       *)
StrDiff(str1, p, str2, q) ==
  LET differ == {k \in 0..Len(str1) : Char(str1, p + k) # Char(str2, q + k)}
      ended == {k \in 0..Len(str1) : Char(str1, p + k) = NUL}
  IN IF differ = {} \/ Min(ended) < Min(differ) THEN NULL ELSE p + Min(differ)

(* Two, three or four bytes: the lead byte and six bits in each other one.  *)
Utf8Append(codepoint) ==
  LET Rest(shift) == 128 + ((codepoint \div 2^shift) % 64) IN
  IF codepoint < 128 THEN <<codepoint>>
  ELSE IF codepoint < 2048 THEN <<192 + codepoint \div 2^6, Rest(0)>>
  ELSE IF codepoint < 65536 THEN <<224 + codepoint \div 2^12, Rest(6), Rest(0)>>
  ELSE IF codepoint < 1114112 THEN <<240 + codepoint \div 2^18, Rest(12), Rest(6), Rest(0)>>
  ELSE <<>>

Digits == 48..57
HexDigits == Digits \cup (65..70) \cup (97..102)
HexValue(c) ==
  LET upper == IF c >= 97 THEN c - 32 ELSE c IN
  IF upper >= 65 THEN upper - 55 ELSE upper - 48

PLUS == 43
PERCENT == 37
SPACE == 32

(* isxdigit of the two characters after a '%'; the NUL is none.             *)
UriEscaped(str, p) ==
  Char(str, p) = PERCENT /\ Char(str, p + 1) \in HexDigits /\ Char(str, p + 2) \in HexDigits

(* uo_uri_decode(dst, src, src_len) with src = str: the loop ends only at   *)
(* src_end itself.                                                          *)
RECURSIVE UriDecodeFrom(_, _, _, _)
UriDecodeFrom(dst, str, src, src_end) ==
  IF src = src_end THEN dst
  ELSE IF src > src_end THEN OVERRUN
  ELSE IF Char(str, src) = PLUS THEN UriDecodeFrom(Append(dst, SPACE), str, src + 1, src_end)
  ELSE IF UriEscaped(str, src)
       THEN UriDecodeFrom(Append(dst, 16 * HexValue(Char(str, src + 1)) + HexValue(Char(str, src + 2))),
                          str, src + 3, src_end)
  ELSE UriDecodeFrom(Append(dst, Char(str, src)), str, src + 1, src_end)
UriDecode(str, src_len) == UriDecodeFrom(<<>>, str, 1, src_len + 1)
=============================================================================
