------------------------------- MODULE Writen -------------------------------
(***************************************************************************)
(* tcpipi/sock/writen.c: write n bytes to a descriptor that takes fewer at *)
(* a time, or fails.  nleft and nwritten are size_t, W bits wide; write()  *)
(* (external) returns -1 on error.                                         *)
(***************************************************************************)
EXTENDS Integers

CONSTANTS W, MaxN, MaxErrors   \* width of size_t; bounds on n and on the errors

SizeT(k) == k % 2 ^ W

VARIABLES n, nleft, ptr, written, errors, pc, result

vars == <<n, nleft, ptr, written, errors, pc, result>>

Init ==
    /\ n \in 0 .. MaxN
    /\ nleft = n /\ ptr = 0
    /\ written = <<>> /\ errors = 0
    /\ pc = "loop" /\ result = 0

(* The result of write() is stored in a size_t and compared with 0. *)
After(nwritten) ==
    IF nwritten <= 0
    THEN /\ pc' = "returned" /\ result' = nwritten
         /\ UNCHANGED <<nleft, ptr>>
    ELSE /\ nleft' = SizeT(nleft - nwritten)
         /\ ptr' = IF nwritten < 2 ^ (W - 1) THEN ptr + nwritten
                                             ELSE ptr + nwritten - 2 ^ W
         /\ UNCHANGED <<pc, result>>

(* write() takes k bytes from ptr on. *)
WriteSome(k) ==
    /\ pc = "loop" /\ nleft > 0 /\ k \in 1 .. nleft
    /\ written' = <<ptr, k>>
    /\ After(SizeT(k))
    /\ UNCHANGED <<n, errors>>

WriteFails ==
    /\ pc = "loop" /\ nleft > 0 /\ errors < MaxErrors
    /\ errors' = errors + 1
    /\ After(SizeT(-1))
    /\ UNCHANGED <<n, written>>

Return ==
    /\ pc = "loop" /\ nleft = 0
    /\ pc' = "returned" /\ result' = n
    /\ UNCHANGED <<n, nleft, ptr, written, errors>>

Next == (\E k \in 1 .. MaxN + MaxErrors : WriteSome(k)) \/ WriteFails \/ Return

Spec == Init /\ [][Next]_vars

-----------------------------------------------------------------------------
(* Property *)

(* writen.c: the branch for a failed write() is marked "error" and returns   *)
(* what write() returned, for callers such as loop.c ("writen error to       *)
(* stdout"): after a write that failed the loop is left, and writen does not *)
(* go on to report that all was written.                                     *)
ErrorReported == errors > 0 => pc = "returned" /\ result # n
=============================================================================
