------------------------------ MODULE MCCondV ------------------------------
(***************************************************************************)
(* Model-checking instances of prog_condV.c.  MAX_THREAD_COUNT is 400 in   *)
(* the source; a thread_list of length 3 or 4 lets two dequeuers race for  *)
(* one job, several enqueuers push while two dequeuers sleep, and -t run   *)
(* past, up to and below the end of the array.                             *)
(***************************************************************************)
EXTENDS CondVQueue

(* No -t, the division by zero, the smallest legal value, the largest, and   *)
(* one past it.                                                              *)
MCThrArgs == {0, 1, 2, MAX_THREAD_COUNT, MAX_THREAD_COUNT + 1}
=============================================================================
