-------------------------- MODULE UoHttpReqHandler ---------------------------
(***************************************************************************)
(* uo_http_req_handler.c: the pattern of a request handler, as             *)
(* "GET /a/{name}/b/" and a star, and its match with a request's method and URI.     *)
(***************************************************************************)
EXTENDS UoUtil

STAR == 42
LEFT == 123
RIGHT == 125

NoMatch == [matches |-> FALSE, params |-> <<>>]
FAULT == [matches |-> FALSE, params |-> <<<<<<>>, <<>>>>>>] \* *NULL is read

(* A round of the loop of uo_http_req_handler_create: after the next left   *)
(* brace the first right brace becomes a NUL, so that the name ends there,  *)
(* and the search goes on behind it.  That there is one is asserted.        *)
RECURSIVE CreateFrom(_, _, _)
CreateFrom(req_pattern, p, param_count) ==
  LET left == StrChr(req_pattern, p, LEFT)
      right == StrChr(req_pattern, left, RIGHT)
  IN IF left = NULL THEN [req_pattern |-> req_pattern, param_count |-> param_count]
     ELSE CreateFrom([req_pattern EXCEPT ![right] = NUL], right + 1, param_count + 1)

Create(req_pattern) == CreateFrom(req_pattern, 1, 0)

(* The last check: an exact match, or a '*' where they first differ.        *)
RestMatches(pattern, p, req, r) ==
  LET diff == StrDiff(pattern, p, req, r) IN diff = NULL \/ Char(pattern, diff) = STAR

(* A defect to be caught: the value is taken to end at the last delimiter.  *)
ValueEndLast(pattern, name_end, req, value) ==
  LET delimiter == Char(pattern, name_end + 1)
      found == {q \in value..(Len(req) + 1) : Char(req, q) = delimiter}
  IN IF found = {} THEN NULL ELSE Max(found)

(* A value ends at the first character that follows the name in the pattern.*)
ValueEnd(pattern, name_end, req, value) == StrChr(req, value, Char(pattern, name_end + 1))

(* A round of the loop over the parameters, i of them left.  The copies and *)
(* the NULs that end the values leave every value what was matched.         *)
RECURSIVE TryFrom(_, _, _, _, _, _)
TryFrom(pattern, p, req, r, i, params) ==
  LET param_start == StrDiff(pattern, p, req, r)
      name_end == StrChr(pattern, param_start, NUL)
      value == r + param_start - p
      value_end == ValueEnd(pattern, name_end, req, value)
      param == <<SubSeq(pattern, param_start + 1, name_end - 1), SubSeq(req, value, value_end - 1)>>
  IN IF i = 0 THEN (IF RestMatches(pattern, p, req, r) THEN [matches |-> TRUE, params |-> params] ELSE NoMatch)
     ELSE IF param_start = NULL THEN FAULT
     ELSE IF Char(pattern, param_start) # LEFT \/ value_end = NULL THEN NoMatch
     ELSE TryFrom(pattern, name_end + 1, req, value_end, i - 1, Append(params, param))

Try(handler, method_sp_uri) ==
  TryFrom(handler.req_pattern, 1, method_sp_uri, 1, handler.param_count, <<>>)
=============================================================================
