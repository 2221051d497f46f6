------------------------------- MODULE UoJson --------------------------------
(***************************************************************************)
(* uo_json.c: strings between C and JSON, and the search for the end of a  *)
(* value and for a member's value in a text that is never parsed as a      *)
(* whole.  Texts are sequences of character codes (UoUtil).                *)
(***************************************************************************)
EXTENDS UoUtil

QUOTE == 34
BACKSLASH == 92
COMMA == 44
COLON == 58
LEFT_BRACE == 123
RIGHT_BRACE == 125
LEFT_BRACKET == 91
RIGHT_BRACKET == 93
LOWER_U == 117
Spaces == {9, 10, 11, 12, 13, 32}
Controls == (0..31) \cup {127}

FAILS == <<-1>>          \* NULL is returned; no string

(* The one-character escapes: quote, backslash, slash, b, f, n, r, t.       *)
Escapes == (34 :> 34) @@ (92 :> 92) @@ (47 :> 47) @@ (98 :> 8) @@ (102 :> 12)
             @@ (110 :> 10) @@ (114 :> 13) @@ (116 :> 9)

(* sscanf("%04x"): as many hexadecimal digits, at most four, as there are;  *)
(* signs, a prefix 0x and blanks, which it takes too, are not modelled.     *)
ScanHex(json, src) ==
  LET n == Min({4} \cup {k \in 0..3 : Char(json, src + k) \notin HexDigits})
  IN IF n = 0 THEN -1
     ELSE FoldLeft(LAMBDA v, c : 16 * v + HexValue(c), 0, SubSeq(json, src, src + n - 1))

RECURSIVE DecodeUtf8From(_, _, _)
DecodeUtf8From(dst, json, src) ==
  LET json_end == Len(json)
      c == Char(json, src)
      e == Char(json, src + 1)
  IN IF src >= json_end THEN dst
     ELSE IF c # BACKSLASH THEN DecodeUtf8From(Append(dst, c), json, src + 1)
     ELSE IF src + 1 >= json_end THEN FAILS
     ELSE IF e \in DOMAIN Escapes THEN DecodeUtf8From(Append(dst, Escapes[e]), json, src + 2)
     ELSE IF e # LOWER_U \/ src + 6 > json_end THEN FAILS
     ELSE LET codepoint == ScanHex(json, src + 2) IN
          IF codepoint = -1 THEN FAILS
          ELSE DecodeUtf8From(dst \o Utf8Append(codepoint), json, src + 6)

DecodeUtf8(json) ==
  IF Len(json) < 2 \/ json[1] # QUOTE \/ json[Len(json)] # QUOTE THEN FAILS
  ELSE DecodeUtf8From(<<>>, json, 2)

(* "%04X" of a control character, a backslash before a quote or backslash.  *)
UpperHex(v) == IF v < 10 THEN 48 + v ELSE 55 + v
EncodedChar(c) ==
  CASE c \in Controls -> <<BACKSLASH, LOWER_U, 48, 48, UpperHex(c \div 16), UpperHex(c % 16)>>
    [] c \in {QUOTE, BACKSLASH} -> <<BACKSLASH, c>>
    [] OTHER -> <<c>>
EncodeUtf8(str) ==
  <<QUOTE>> \o FlattenSeq([i \in DOMAIN str |-> EncodedChar(str[i])]) \o <<QUOTE>>

(* An odd number of backslashes just before.                                *)
IsCharEscaped(json, p) == (p - 1 - Max({0} \cup {q \in 1..(p - 1) : json[q] # BACKSLASH})) % 2 = 1

FindStrEnd(json, p) ==
  LET ends == {q \in (p + 1)..Len(json) : json[q] = QUOTE /\ ~IsCharEscaped(json, q)}
  IN IF ends = {} THEN NULL ELSE Min(ends) + 1

FindNumEnd(json, num) ==
  LET whole == Skip(json, IF Char(json, num) = 45 THEN num + 1 ELSE num, Digits)
      fraction == Skip(json, IF Char(json, whole) = 46 THEN whole + 1 ELSE whole, Digits)
      exponent == Char(json, fraction) \in {69, 101}
      p == IF exponent THEN Skip(json, fraction + 2, Digits) ELSE fraction
  IN IF Char(json, whole) = NUL THEN whole
     ELSE IF exponent /\ Char(json, fraction + 1) \notin {43, 45} THEN NULL
     ELSE IF Char(json, p) \in {NUL, COMMA} \cup Spaces THEN p
     ELSE NULL

(* The end of the key that a round of the object loops finds from p on, and *)
(* where its value begins; NULL when the text is cut off.                   *)
ValueStart(json, key) ==
  LET key_end == FindStrEnd(json, key)
      colon == IF key_end = NULL THEN NULL ELSE StrChr(json, key_end, COLON)
  IN IF colon = NULL THEN NULL ELSE Skip(json, colon + 1, Spaces)

(* A defect to be caught: a key behind the closing brace is taken.          *)
NoMoreKeysAtAll(json, p) == StrChr(json, p, QUOTE) = NULL

(* No key is left before the closing brace.                                 *)
NoMoreKeys(json, p) ==
  LET key == StrChr(json, p, QUOTE) IN key = NULL \/ StrChr(json, p, RIGHT_BRACE) < key

LOOPS == -1      \* the array loop never ends

RECURSIVE FindEnd(_, _), FindObjEnd(_, _), ArrRound(_, _)

(* A round of the loop of uo_json_find_obj_end that begins at p.            *)
FindObjEnd(json, p) ==
  IF Char(json, p) = NUL \/ StrChr(json, p, RIGHT_BRACE) = NULL THEN NULL
  ELSE IF NoMoreKeys(json, p) THEN StrChr(json, p, RIGHT_BRACE) + 1
  ELSE LET start == ValueStart(json, StrChr(json, p, QUOTE))
           end == IF start = NULL THEN NULL ELSE FindEnd(json, start)
           right_brace == IF end \in {NULL, LOOPS} THEN NULL ELSE StrChr(json, end + 1, RIGHT_BRACE)
           comma == IF right_brace = NULL THEN NULL ELSE StrChr(json, end, COMMA)
       IN IF end = LOOPS THEN LOOPS
          ELSE IF right_brace = NULL THEN NULL
          ELSE IF comma = NULL THEN right_brace + 1
          ELSE FindObjEnd(json, comma)

(* A round of the array loop: p stays on the comma it found, so the round   *)
(* after it finds the same comma.                                           *)
ArrRound(json, p) ==
  IF Char(json, p) = NUL THEN NULL
  ELSE LET end == FindEnd(json, Skip(json, p, Spaces))
           right_bracket == IF end \in {NULL, LOOPS} THEN NULL ELSE StrChr(json, end + 1, RIGHT_BRACKET)
           comma == IF right_bracket = NULL THEN NULL ELSE StrChr(json, end, COMMA)
       IN IF end = LOOPS THEN LOOPS
          ELSE IF right_bracket = NULL THEN NULL
          ELSE IF comma = NULL THEN right_bracket + 1
          ELSE IF comma = p THEN LOOPS
          ELSE ArrRound(json, comma)

FindArrEnd(json, p) ==
  LET right_bracket == StrChr(json, p, RIGHT_BRACKET) IN
  IF right_bracket = NULL THEN NULL
  ELSE IF p = right_bracket THEN right_bracket + 1
  ELSE ArrRound(json, p)

FindEnd(json, p0) ==
  LET p == Skip(json, p0, Spaces) IN
  CASE Char(json, p) = NUL -> NULL
    [] Char(json, p) = LEFT_BRACE -> FindObjEnd(json, p + 1)
    [] Char(json, p) = LEFT_BRACKET -> FindArrEnd(json, p + 1)
    [] Char(json, p) = QUOTE -> FindStrEnd(json, p)
    [] Char(json, p) \in {110, 116} -> p + 4
    [] Char(json, p) = 102 -> p + 5
    [] OTHER -> FindNumEnd(json, p)

(* A round of the loop of uo_json_find_value that begins at p.              *)
RECURSIVE FindValueFrom(_, _, _)
FindValueFrom(json, name, p) ==
  IF StrChr(json, p, RIGHT_BRACE) = NULL \/ NoMoreKeys(json, p) THEN NULL
  ELSE LET key == StrChr(json, p, QUOTE)
           start == ValueStart(json, key)
           end == IF start = NULL THEN NULL ELSE FindEnd(json, start)
       IN IF start = NULL THEN NULL
          ELSE IF SubSeq(json, key, FindStrEnd(json, key) - 1) = <<QUOTE>> \o name \o <<QUOTE>> THEN start
          ELSE IF end \in {NULL, LOOPS} THEN end
          ELSE IF StrChr(json, end + 1, RIGHT_BRACE) = NULL \/ StrChr(json, end, COMMA) = NULL THEN NULL
          ELSE FindValueFrom(json, name, StrChr(json, end, COMMA))

FindValue(json, name) ==
  LET p == Skip(json, 1, Spaces) IN
  IF Char(json, p) # LEFT_BRACE THEN NULL ELSE FindValueFrom(json, name, p)

UNINIT == <<-2>>         \* bytes that were never written; no string

(* The C string made of the text of a value: what is not a string is ended  *)
(* after as many bytes as the key has.                                      *)
ReqData(text, key) ==
  IF text[1] = QUOTE THEN DecodeUtf8(text)
  ELSE IF Len(key) > Len(text) THEN UNINIT
  ELSE SubSeq(text, 1, Len(key))

(* The data of a body: NULL when it has no such value, or one without end.  *)
DataFrom(body, key, value) ==
  LET DataTo(end) == IF end = NULL THEN FAILS ELSE ReqData(SubSeq(body, value, end - 1), key)
  IN IF value = NULL THEN FAILS ELSE DataTo(FindEnd(body, value))

Known(conn, key) == key \in DOMAIN conn.req_data

Given(conn, key, data) ==
  [data |-> data,
   conn |-> IF Known(conn, key) \/ data = FAILS THEN conn
            ELSE [conn EXCEPT !.req_data = (key :> data) @@ conn.req_data]]

(* uo_http_conn_get_req_data on what it uses of a connection: the data      *)
(* given before, by key, the body (<<>> when there is none) and whether its *)
(* type is "json", "other" or "none".  The connection remembers the data.   *)
GetReqData(conn, key) ==
  Given(conn, key,
        IF Known(conn, key) THEN conn.req_data[key]
        ELSE IF conn.body = <<>> \/ conn.content_type # "json" THEN FAILS
        ELSE DataFrom(conn.body, key, FindValue(conn.body, key)))
=============================================================================
