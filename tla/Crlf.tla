-------------------------------- MODULE Crlf --------------------------------
(***************************************************************************)
(* tcpipi/sock/crlf.c: crlf_add and crlf_strip, which copy one buffer into *)
(* another while adding or removing carriage returns, and give up when the *)
(* destination is too small.  A step is one turn of a loop; src and dst    *)
(* are the buffers, at is how far src was read.                            *)
(***************************************************************************)
EXTENDS Integers, Sequences

CONSTANTS CR, LF,        \* the two characters the functions look for
          Other,         \* the other characters
          MaxLen,        \* bound on lenin
          Sizes          \* values of dstsize tried

ASSUME CrlfAssumption ==
    /\ CR # LF /\ CR \notin Other /\ LF \notin Other
    /\ MaxLen \in Nat
    /\ Sizes \subseteq Nat

Char == Other \cup {CR, LF}

VARIABLES
    fn,         \* the function called
    src, at,    \* input and reading position; lenin is Len(src) - at
    dst,        \* what was written to the destination
    dstsize,
    lenout,
    status      \* "run", "done" (returned lenout) or "quit" (err_quit)

vars == <<fn, src, at, dst, dstsize, lenout, status>>

lenin == Len(src) - at

Init ==
    /\ fn \in {"crlf_add", "crlf_strip"}
    /\ \E n \in 0 .. MaxLen : src \in [1 .. n -> Char]
    /\ at = 0
    /\ dst = <<>>
    /\ dstsize \in Sizes
    /\ lenout = IF fn = "crlf_add" THEN Len(src) ELSE 0
    /\ status = IF fn = "crlf_add" /\ Len(src) > dstsize THEN "quit" ELSE "run"

(* Mutant: only the first test, of lenin against dstsize, is made. *)
Grow_NoTest(add) ==
    /\ lenout' = lenout + 1
    /\ dst' = dst \o add
    /\ at' = at + 1
    /\ UNCHANGED status

(* "if (++lenout >= dstsize) err_quit(...)", and what is written after it. *)
Grow(add) ==
    /\ lenout' = lenout + 1
    /\ IF lenout' >= dstsize
       THEN status' = "quit" /\ UNCHANGED <<dst, at>>
       ELSE dst' = dst \o add /\ at' = at + 1 /\ UNCHANGED status

Plain(add) ==
    /\ dst' = dst \o add
    /\ at' = at + 1
    /\ UNCHANGED <<lenout, status>>

crlf_add_step ==
    /\ fn = "crlf_add" /\ status = "run" /\ lenin > 0
    /\ LET c == src[at + 1]
       IN IF c = LF THEN Grow(<<CR, c>>) ELSE Plain(<<c>>)
    /\ UNCHANGED <<fn, src, dstsize>>

crlf_strip_step ==
    /\ fn = "crlf_strip" /\ status = "run" /\ lenin > 0
    /\ LET c == src[at + 1]
       IN IF c # CR THEN Grow(<<c>>) ELSE Plain(<<>>)
    /\ UNCHANGED <<fn, src, dstsize>>

Return ==
    /\ status = "run" /\ lenin = 0
    /\ status' = "done"
    /\ UNCHANGED <<fn, src, at, dst, dstsize, lenout>>

Next == crlf_add_step \/ crlf_strip_step \/ Return

Spec == Init /\ [][Next]_vars

-----------------------------------------------------------------------------
(* Properties *)

(* The conversion of the first n characters, written down directly. *)
Converted(n) ==
    LET c[i \in 0 .. n] ==
          IF i = 0 THEN <<>>
          ELSE c[i - 1] \o
               IF fn = "crlf_add"
               THEN IF src[i] = LF THEN <<CR, LF>> ELSE <<src[i]>>
               ELSE IF src[i] = CR THEN <<>> ELSE <<src[i]>>
    IN c[n]

(* Nothing is written past the end of the destination.  A function that      *)
(* returns has put the conversion of all of the input into the destination   *)
(* and returns its length; one that gives up has an output that would fill   *)
(* the destination to the last byte or not fit, so "not big enough" errs by  *)
(* one byte at most.                                                         *)
Correct ==
    LET output == Converted(Len(src)) IN
    /\ Len(dst) <= dstsize
    /\ status = "done" => dst = output /\ lenout = Len(dst)
    /\ status = "quit" => Len(output) >= dstsize
=============================================================================
