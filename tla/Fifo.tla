-------------------------------- MODULE Fifo --------------------------------
(***************************************************************************)
(* What a first-in first-out queue promises: values leave in the order in  *)
(* which they entered, none is lost and none is invented.  out is the      *)
(* value that left last.                                                   *)
(***************************************************************************)
EXTENDS Sequences

CONSTANTS Values, NoValue

VARIABLES q, out

FifoInit == q = <<>> /\ out = NoValue

Enter(v) == q' = Append(q, v) /\ UNCHANGED out

Leave == q # <<>> /\ out' = Head(q) /\ q' = Tail(q)

FifoNext == Leave \/ \E v \in Values : Enter(v)

FifoSpec == FifoInit /\ [][FifoNext]_<<q, out>>
=============================================================================
