-------------------------------- MODULE UoBuf --------------------------------
(***************************************************************************)
(* uo_buf.c: a buffer with a position, both kept in a header before the    *)
(* data.  A buffer is its size and the bytes before the position; what     *)
(* lies behind the position is never relied on.                            *)
(***************************************************************************)
EXTENDS UoUtil

UO_BUF_HEADER_SIZE == 16
UO_BUF_GROW_SIZE == UO_BUF_HEADER_SIZE + 32

BufAlloc(size) == [size |-> size, bytes |-> <<>>]
LenBeforePtr(buf) == Len(buf.bytes)
LenAfterPtr(buf) == buf.size - LenBeforePtr(buf)
BufRealloc(buf, size) == [buf EXCEPT !.size = size]
BufRealloc2x(buf) == BufRealloc(buf, buf.size * 2)
BufSetPtrAbs(buf, offset) == [buf EXCEPT !.bytes = SubSeq(@, 1, offset)]

NullTerminate(buf) == IF LenAfterPtr(buf) < 1 THEN BufRealloc2x(buf) ELSE buf

(* A defect to be caught: output that just fills the room is not reprinted. *)
PrintfAppendTight(buf, text) ==
  LET n == LenAfterPtr(buf) IN
  IF Len(text) > n
  THEN [BufRealloc(buf, CeilPow2(LenBeforePtr(buf) + Len(text) + UO_BUF_GROW_SIZE + 1) - UO_BUF_HEADER_SIZE)
          EXCEPT !.bytes = @ \o text]
  ELSE [buf EXCEPT !.bytes = @ \o SubSeq(text, 1, n - 1) \o <<NUL>>]

(* vsnprintf into the room that is left; its NUL needs a byte too, so text  *)
(* that just fills the room is printed again into a larger buffer.          *)
PrintfAppend(buf, text) ==
  LET n == LenAfterPtr(buf) IN
  IF Len(text) >= n
  THEN [BufRealloc(buf, CeilPow2(LenBeforePtr(buf) + Len(text) + UO_BUF_GROW_SIZE + 1) - UO_BUF_HEADER_SIZE)
          EXCEPT !.bytes = @ \o text]
  ELSE [buf EXCEPT !.bytes = @ \o text]

(* The buffer is doubled until more than the bytes fit: the byte left over  *)
(* is where the callers put a NUL.                                          *)
RECURSIVE MemcpyAppend(_, _)
MemcpyAppend(buf, src) ==
  IF LenAfterPtr(buf) <= Len(src) THEN MemcpyAppend(BufRealloc2x(buf), src)
  ELSE [buf EXCEPT !.bytes = @ \o src]
=============================================================================
