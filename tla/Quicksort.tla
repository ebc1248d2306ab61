----------------------------- MODULE Quicksort -----------------------------
(***************************************************************************)
(* prog_quicksort.c: quicksort with its recursion as a stack of ranges, and *)
(* partition, which is entered by a goto into its loop.  Indices are those *)
(* of C, from 0.                                                           *)
(***************************************************************************)
EXTENDS Integers, Sequences, FiniteSets

CONSTANTS Inputs   \* arrays tried: functions from 0 .. n - 1

VARIABLES
    input, x,      \* the array given, and as it is now
    stack,         \* calls of quicksort still to make: <<first, last>>
    f, l,          \* the range partition works on
    up, down, piv,
    pc

vars == <<input, x, stack, f, l, up, down, piv, pc>>

Init ==
    /\ input \in Inputs /\ x = input
    /\ stack = <<<<0, Cardinality(DOMAIN input) - 1>>>>
    /\ f = 0 /\ l = 0 /\ up = 0 /\ down = 0 /\ piv = 0
    /\ pc = "quicksort"

(* A range of less than two elements. *)
Trivial ==
    /\ pc = "quicksort" /\ stack # <<>>
    /\ Head(stack)[1] >= Head(stack)[2]
    /\ stack' = Tail(stack)
    /\ UNCHANGED <<input, x, f, l, up, down, piv, pc>>

(* partition(x, first, last), as far as the goto. *)
Enter ==
    /\ pc = "quicksort" /\ stack # <<>>
    /\ Head(stack)[1] < Head(stack)[2]
    /\ f' = Head(stack)[1] /\ l' = Head(stack)[2]
    /\ up' = f' /\ down' = l' /\ piv' = x[f']
    /\ stack' = Tail(stack)
    /\ pc' = "up"
    /\ UNCHANGED <<input, x>>

(* Mutant: the loop may leave the range. *)
Up_NoBound ==
    /\ pc = "up"
    /\ IF up \in DOMAIN x /\ x[up] <= piv THEN up' = up + 1 /\ pc' = pc
                                          ELSE up' = up /\ pc' = "down"
    /\ UNCHANGED <<input, x, stack, f, l, down, piv>>

Up ==
    /\ pc = "up"
    /\ IF x[up] <= piv /\ up < l THEN up' = up + 1 /\ pc' = pc
                                 ELSE up' = up /\ pc' = "down"
    /\ UNCHANGED <<input, x, stack, f, l, down, piv>>

Down ==
    /\ pc = "down"
    /\ IF x[down] > piv /\ down > f THEN down' = down - 1 /\ pc' = pc
                                    ELSE down' = down /\ pc' = "while"
    /\ UNCHANGED <<input, x, stack, f, l, up, piv>>

Swap ==
    /\ pc = "while" /\ down > up
    /\ x' = [x EXCEPT ![up] = x[down], ![down] = x[up]]
    /\ pc' = "up"
    /\ UNCHANGED <<input, stack, f, l, up, down, piv>>

(* The pivot goes to its place, and the two parts are sorted. *)
Leave ==
    /\ pc = "while" /\ down <= up
    /\ x' = [[x EXCEPT ![f] = x[down]] EXCEPT ![down] = piv]
    /\ stack' = <<<<f, down - 1>>, <<down + 1, l>>>> \o stack
    /\ pc' = "quicksort"
    /\ f' = 0 /\ l' = 0 /\ up' = 0 /\ down' = 0 /\ piv' = 0
    /\ UNCHANGED input

Return ==
    /\ pc = "quicksort" /\ stack = <<>>
    /\ pc' = "done"
    /\ UNCHANGED <<input, x, stack, f, l, up, down, piv>>

Next == Trivial \/ Enter \/ Up \/ Down \/ Swap \/ Leave \/ Return

Spec == Init /\ [][Next]_vars

-----------------------------------------------------------------------------
(* Properties *)

Count(a, v) == Cardinality({i \in DOMAIN a : a[i] = v})

(* The indices stay inside the range that is sorted; and what is printed is  *)
(* in order, with every value as often as it was given, equal ones included. *)
Sorted ==
    /\ pc \in {"up", "down", "while"} => up \in f .. l /\ down \in f .. l
    /\ pc = "done" =>
          /\ \A i, j \in DOMAIN x : i < j => x[i] <= x[j]
          /\ \A i \in DOMAIN input : Count(x, input[i]) = Count(input, input[i])
=============================================================================
