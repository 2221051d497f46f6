------------------------------ MODULE MCCodecs -------------------------------
(***************************************************************************)
(* The sequential algorithms against reference definitions, on every input *)
(* over a small alphabet: `what' says what the input is for, and the input *)
(* grows by one element in every step.  The alphabets hold the elements    *)
(* the algorithms tell apart.                                              *)
(***************************************************************************)
EXTENDS UoBase64, UoJson, UoHttpReqHandler, UoBuf, UoStack

CONSTANT MaxLen     \* how long an input of each kind may grow

VARIABLES what, input

(* Names and values of JSON members.  A value that is an object or an array *)
(* with an element is only looked up as the last member.                    *)
Names == {<<97>>, <<RIGHT_BRACE, 97>>}
CString == <<RIGHT_BRACE, QUOTE, COMMA, BACKSLASH>>
StringValue == EncodeUtf8(CString)
NumberValue == <<45, 49, 46, 53, 69, 43, 51>>
EmptyObject == <<LEFT_BRACE, RIGHT_BRACE>>
EmptyArray == <<LEFT_BRACKET, RIGHT_BRACKET>>
ObjectValue == <<LEFT_BRACE, QUOTE, 97, QUOTE, COLON, 32, 110, 117, 108, 108, 32, RIGHT_BRACE>>
ArrayValue == <<LEFT_BRACKET, 32, 49, 32, RIGHT_BRACKET>>
Values == {StringValue, NumberValue, EmptyObject, EmptyArray, ObjectValue, ArrayValue}

(* Programs on a buffer and on a stack; n is a length or an index.          *)
BufOps == [op : {"memcpy", "printf"}, n : {0, 1, 3}] \cup [op : {"nul", "rewind"}, n : {0}]
StackOps ==
  [op : {"push", "pop"}, n : {0}] \cup [op : {"insert"}, n : {0, -1}]
    \cup [op : {"push_arr", "insert_arr"}, n : {1, 2, 5}]

Alphabet(kind) ==
  CASE kind = "bytes" -> {0, 156, 251}
    [] kind = "chars" -> {QUOTE, BACKSLASH, LOWER_U, 10, 127, 200}
    [] kind = "uri" -> {PERCENT, PLUS, 52, 102, 71}
    [] kind = "codepoint" -> {0, 127, 128, 2047, 2048, 65535, 65536, 1114111}
    [] kind = "members" -> Names \X Values
    [] kind = "request" -> {47, 97, 98}
    [] kind = "buf" -> BufOps
    [] kind = "stack" -> StackOps

Init == what \in DOMAIN MaxLen /\ input = <<>>
Extend ==
  /\ Len(input) < MaxLen[what]
  /\ \E x \in Alphabet(what) : input' = Append(input, x)
  /\ UNCHANGED what
Spec == Init /\ [][Extend]_<<what, input>>

(* The limits of the run.                                                   *)
Limits == [bytes |-> 6, chars |-> 4, uri |-> 5, codepoint |-> 2, members |-> 3,
           request |-> 6, buf |-> 4, stack |-> 5]

----------------------------------------------------------------------------
(* Base64 by the standard: the bits of the bytes, six at a time.            *)
Bit(bytes, i) == IF i >= 8 * Len(bytes) THEN 0 ELSE (bytes[i \div 8 + 1] \div 2^(7 - (i % 8))) % 2
SixBits(bytes, j) ==
  FoldLeft(LAMBDA v, k : 2 * v + Bit(bytes, 6 * j + k), 0, <<0, 1, 2, 3, 4, 5>>)
Standard(bytes, table) == [j \in 1..((8 * Len(bytes) + 5) \div 6) |-> table[SixBits(bytes, j - 1)]]

Place(bytes, src, size) == [i \in 0..(size - 1) |-> IF i - src + 1 \in DOMAIN bytes THEN bytes[i - src + 1] ELSE 7]
Written(r, dst) == [i \in 1..r.len |-> r.mem[dst + i - 1]]

(* An encoding, made in place (as uo_jwt.c does) or elsewhere, is that of   *)
(* the standard, the url form without its padding, and the decoder of the   *)
(* url form gives the bytes back, in place too (uo_jwt_decode_payload).     *)
(* The decoder of the padded form does so when there is padding: without,   *)
(* the loop condition reads beyond the encoding (uo_base64.c:96).           *)
Base64Standard ==
  what = "bytes" =>
    LET n == Len(input) IN
    \A src \in {0, Base64Len(n)} :
      LET mem == Place(input, src, 2 * Base64Len(n))
          plain == Encode(mem, 0, src, n)
          url == UrlEncode(mem, 0, src, n)
          back == Decode(plain.mem, src, 0, plain.len)
          urlBack == UrlDecode(url.mem, src, 0, url.len)
          digits == Standard(input, Btoa)
      IN /\ Written(plain, 0) = digits \o [i \in 1..(plain.len - Len(digits)) |-> PAD]
         /\ plain.len % 4 = 0
         /\ Written(url, 0) = Standard(input, BtoaUrl)
         /\ Written(urlBack, src) = input
         /\ n % 3 # 0 => back.len = n /\ Written(back, src) = input

(* A C string encoded as a JSON string and decoded again is unchanged, and  *)
(* the search for the end of the JSON string, in a text that goes on, finds *)
(* it whatever quotes and backslashes the string holds                      *)
(* (uo_json_find_str_end counts the backslashes before a quote).            *)
JsonStringSurvives ==
  what = "chars" =>
    LET json == EncodeUtf8(input) IN
    /\ DecodeUtf8(json) = input
    /\ FindStrEnd(json \o <<COMMA, QUOTE>>, 1) = Len(json) + 1

(* The text of an object with a blank after every value, as the search      *)
(* needs it, and where the i-th value begins.                               *)
Member(m) == <<QUOTE>> \o m[1] \o <<QUOTE, COLON, 32>> \o m[2] \o <<32>>
Before(ms, i) == <<LEFT_BRACE>> \o FlattenSeq([k \in 1..(i - 1) |-> Member(ms[k]) \o <<COMMA>>])
ObjectText(ms) ==
  (IF ms = <<>> THEN <<LEFT_BRACE>> ELSE Before(ms, Len(ms)) \o Member(ms[Len(ms)])) \o <<RIGHT_BRACE>>

(* In an object laid out with a blank after each value, of members whose    *)
(* values but the last are flat, uo_json_find_value finds the first member  *)
(* of the name, or NULL when there is none, and uo_json_find_end the end of *)
(* the object and of the values, whatever braces, quotes and commas the     *)
(* names and strings hold.                                                  *)
NestedLast == \A i \in 1..(Len(input) - 1) : input[i][2] \notin {ObjectValue, ArrayValue}
JsonFinds ==
  (what = "members" /\ NestedLast) =>
    LET json == ObjectText(input)
        Start(i) == Len(Before(input, i)) + Len(input[i][1]) + 5
        last == Len(input)
    IN /\ FindEnd(json, 1) = Len(json) + 1
       /\ \A name \in Names :
            LET named == {i \in 1..last : input[i][1] = name} IN
            FindValue(json, name) = IF named = {} THEN NULL ELSE Start(Min(named))
       /\ \A i \in 1..last : FindEnd(json, Start(i)) = Start(i) + Len(input[i][2])

(* The data a request handler asks for by name: the C string of a string    *)
(* member of the body, whatever it holds and wherever it stands, and NULL   *)
(* when there is no such member; another value is right only if it is as    *)
(* long as its name (uo_http_conn.c:107-131).  It is given again when asked *)
(* for again, and nothing is given of a body that is not said to be JSON.   *)
ReqDataGiven ==
  (what = "members" /\ NestedLast) =>
    \A name \in Names, content_type \in {"json", "other", "none"} :
      LET named == {i \in DOMAIN input : input[i][1] = name}
          value == input[Min(named)][2]
          expected == CASE named = {} -> {FAILS}
                        [] named # {} /\ value = StringValue -> {CString}
                        [] named # {} /\ value # StringValue /\ Len(value) = Len(name) -> {value}
                        [] OTHER -> {}
          conn == [req_data |-> <<>>, body |-> ObjectText(input), content_type |-> content_type]
      IN \A first \in {GetReqData(conn, name)} :
           IF content_type = "json"
           THEN expected # {} => first.data \in expected /\ GetReqData(first.conn, name) = first
           ELSE first.data = FAILS

(* uo_uri_decode of a string that ends with its length, as the file server  *)
(* passes it, never runs over its end, however its '%' are followed, and    *)
(* writes no more than it reads; and it gives back what was escaped.        *)
UriEscape(bytes) ==
  FlattenSeq([i \in DOMAIN bytes |-> <<PERCENT, UpperHex(bytes[i] \div 16), UpperHex(bytes[i] % 16)>>])
UriDecodes ==
  what = "uri" =>
    LET decoded == UriDecode(input, Len(input))
        escaped == UriEscape(input)
    IN /\ decoded # OVERRUN /\ Len(decoded) <= Len(input)
       /\ UriDecode(escaped, Len(escaped)) = input

(* The reference decoder of UTF-8: the value of the lead byte's free bits   *)
(* and six bits of each other byte.                                         *)
Codepoint(bytes) ==
  LET lead == bytes[1]
      free == CASE lead < 128 -> lead [] lead \in 192..223 -> lead - 192
                [] lead \in 224..239 -> lead - 224 [] OTHER -> lead - 240
  IN FoldLeft(LAMBDA v, b : 64 * v + (b - 128), free, Tail(bytes))
Shortest(c) == CASE c < 128 -> 1 [] c < 2048 -> 2 [] c < 65536 -> 3 [] OTHER -> 4

(* uo_utf8_append writes the shortest form, from which the code point is    *)
(* read back, at the edges of each length.                                  *)
Utf8Shortest ==
  what = "codepoint" =>
    \A i \in DOMAIN input :
      LET bytes == Utf8Append(input[i]) IN Len(bytes) = Shortest(input[i]) /\ Codepoint(bytes) = input[i]

(* A pattern is its literal parts, with a parameter between each two, and   *)
(* perhaps a star at the end, but not directly after a parameter: there the *)
(* star is taken for the character that ends the value, and a request       *)
(* without a star is refused (uo_http_req_handler.c:82).                    *)
Patterns ==
  [lits : {<<<<47, 97>>>>, <<<<47, 97, 47>>>>, <<<<47>>, <<47, 98>>>>, <<<<47>>, <<47>>, <<>>>>,
           <<<<47, 97>>, <<47>>>>, <<<<47>>, <<98>>, <<47>>>>},
   star : BOOLEAN] \ [lits : {<<<<47>>, <<47>>, <<>>>>}, star : {TRUE}]
Name(i) == IF i = 2 THEN <<LEFT, 119 + i>> ELSE <<119 + i>>
Param(i) == <<LEFT>> \o Name(i) \o <<RIGHT>>
PatternText(pat) ==
  FlattenSeq([i \in DOMAIN pat.lits |-> pat.lits[i] \o (IF i < Len(pat.lits) THEN Param(i) ELSE <<>>)])
    \o (IF pat.star THEN <<STAR>> ELSE <<>>)

(* The values with which a pattern matches a request: no value holds the    *)
(* character that follows it in the pattern.                                *)
Matches(pat, req) ==
  LET n == Len(pat.lits) - 1
      Joined(vs) == pat.lits[1] \o FlattenSeq([i \in 1..n |-> vs[i] \o pat.lits[i + 1]])
      pieces == {SubSeq(req, i, j) : i \in 1..(Len(req) + 1), j \in 0..Len(req)}
  IN {vs \in [1..n -> pieces] :
        /\ \A i \in 1..n : pat.lits[i + 1] # <<>> => ~Contains(vs[i], pat.lits[i + 1][1])
        /\ IF pat.star THEN IsPrefix(Joined(vs), req) ELSE Joined(vs) = req}

(* uo_http_req_handler_try says yes exactly when the request is the pattern *)
(* with values in the places of its parameters (or begins with it, with a   *)
(* star), and hands over those values under their names, also when a brace  *)
(* is part of a name.  The exception is a pattern with a star directly      *)
(* after a parameter, which is not among Patterns.                          *)
HandlerMatches ==
  what = "request" =>
    \A pat \in Patterns :
      LET r == Try(Create(PatternText(pat)), input)
          vs == [i \in DOMAIN r.params |-> r.params[i][2]]
      IN /\ r # FAULT
         /\ r.matches <=> Matches(pat, input) # {}
         /\ r.matches => /\ Matches(pat, input) = {vs}
                         /\ \A i \in DOMAIN r.params : r.params[i][1] = Name(i)

(* Programs on a buffer: each appends its own number n times.               *)
RunBuf(program) ==
  LET Step(buf, i) ==
        LET o == program[i]
            bytes == [k \in 1..o.n |-> i]
        IN CASE o.op = "memcpy" -> MemcpyAppend(buf, bytes)
             [] o.op = "printf" -> PrintfAppend(buf, bytes)
             [] o.op = "nul" -> NullTerminate(buf)
             [] o.op = "rewind" -> BufSetPtrAbs(buf, 0)
  IN FoldLeft(Step, BufAlloc(1), [i \in DOMAIN program |-> i])

(* However often it had to grow, a buffer holds all that was appended since *)
(* it was last rewound, and there is always room for the NUL after a copy,  *)
(* a print and uo_buf_null_terminate.                                       *)
BufHoldsAll ==
  what = "buf" =>
    LET buf == RunBuf(input)
        since == Max({0} \cup {i \in DOMAIN input : input[i].op = "rewind"})
    IN /\ buf.bytes = FlattenSeq([i \in DOMAIN input |-> IF i > since THEN [k \in 1..input[i].n |-> i] ELSE <<>>])
       /\ LenAfterPtr(buf) >= (IF input = <<>> THEN 0 ELSE 1)

RunStack(program) ==
  LET Step(s, o) ==
        LET possible == Count(s) >= 1 IN
        CASE o.op = "push" -> StackPush(s, 1)
          [] o.op = "pop" -> IF possible THEN StackPop(s) ELSE s
          [] o.op = "insert" -> IF possible THEN StackInsert(s, o.n, 2) ELSE s
          [] o.op = "push_arr" -> StackPushArr(s, [k \in 1..o.n |-> 3])
          [] o.op = "insert_arr" -> IF possible THEN StackInsertArr(s, -1, [k \in 1..o.n |-> 4]) ELSE s
  IN FoldLeft(Step, StackCreate(0), program)

(* Through growing, by one and by arrays, and through halving when nearly   *)
(* empty, a stack's array has the room for its items and its size is a      *)
(* power of two.                                                            *)
StackFits ==
  what = "stack" =>
    LET s == RunStack(input) IN Fits(s) /\ NextPowerOfTwo(s.capacity) = s.capacity /\ s.capacity >= UO_STACK_MIN_CAPACITY

(* What was encoded is restored: bytes in both forms of base64, strings in  *)
(* JSON, uris with escapes, code points in UTF-8.                           *)
EncodingsRestore == Base64Standard /\ JsonStringSurvives /\ UriDecodes /\ Utf8Shortest

(* A value is found in a JSON text by its name, with its end, and handed to *)
(* the request handler as the C string it stands for.                       *)
JsonValuesFound == JsonFinds /\ ReqDataGiven

(* Buffers and stacks have grown enough for what is in them                 *)
(* (uo_buf.c:50-111, uo_stack.h:111-231).                                   *)
GrownEnough == BufHoldsAll /\ StackFits
=============================================================================
