----------------------------- MODULE RingQueue -----------------------------
(***************************************************************************)
(* Any sequence of push and pop calls on one bounded queue (see Ring).     *)
(*                                                                         *)
(* The k-th push offers the value k, so that a value tells when it was     *)
(* offered; returned records what pop gave.                                *)
(***************************************************************************)
EXTENDS Ring, Sequences

CONSTANTS Sizes,     \* constructor arguments tried
          MaxPush    \* bound on the number of push calls

VARIABLES
    ring,        \* the queue
    offered,     \* push calls so far
    returned,    \* values returned, in order
    unkept,      \* values whose push was refused, or left the queue full
    crash        \* was a null pointer followed?

vars == <<ring, offered, returned, unkept, crash>>

Init ==
    /\ \E sz \in Sizes : ring = RingNew(sz)
    /\ offered = 0
    /\ returned = <<>>
    /\ unkept = {}
    /\ crash = FALSE

Offer ==
    /\ ~crash
    /\ offered < MaxPush
    /\ offered' = offered + 1

push ==
    /\ Offer
    /\ ~ring.queueFull
    /\ ring.tail # -1
    /\ ring' = pushed(ring, offered')
    /\ unkept' = IF ring'.queueFull THEN unkept \cup {offered'} ELSE unkept
    /\ UNCHANGED <<returned, crash>>

(* tail->item when there is no buffer. *)
pushNull ==
    /\ Offer
    /\ ring.tail = -1
    /\ crash' = TRUE
    /\ unkept' = unkept \cup {offered'}
    /\ UNCHANGED <<ring, returned>>

(* "Queue is Full!. Ignoring ..." *)
pushIgnored ==
    /\ Offer
    /\ ring.queueFull
    /\ unkept' = unkept \cup {offered'}
    /\ UNCHANGED <<ring, returned, crash>>

pop ==
    /\ ~crash
    /\ ~isEmpty(ring)
    /\ returned' = Append(returned, ring.item[ring.front])
    /\ ring' = popped(ring)
    /\ UNCHANGED <<offered, unkept, crash>>

(* "Queue is empty.": the value returned is undefined and nothing changes. *)
popEmpty ==
    /\ ~crash
    /\ isEmpty(ring)
    /\ UNCHANGED vars

Next == push \/ pushNull \/ pushIgnored \/ pop \/ popEmpty

Spec == Init /\ [][Next]_vars

-----------------------------------------------------------------------------
(* Properties *)

(* The i-th value that pop can still reach, from 0. *)
At(i) == ring.item[(ring.front + i) % ring.size]

(* What is popped comes out in the order it was offered, and never before    *)
(* values still reachable: the buffers from front to tail hold later and     *)
(* later values, all later than those popped.                                *)
PopsInOrder ==
    /\ \A i, j \in 1 .. Len(returned) : i < j => returned[i] < returned[j]
    /\ \A i \in 0 .. (Reachable(ring) - 1) :
          /\ \A j \in 1 .. Len(returned) : returned[j] < At(i)
          /\ \A k \in 0 .. (i - 1) : At(k) < At(i)

(* Every value is returned, or can still be, unless its push was refused or  *)
(* filled the queue.  The value that fills the queue is lost: pop takes the  *)
(* buffer at tail, where it is, for empty, and the first push after a pop    *)
(* writes over it (prog_queue.cpp:59-73, 80).  No other value is.            *)
OnlyUnkeptLost ==
    {returned[i] : i \in DOMAIN returned} \cup {At(i) : i \in 0 .. (Reachable(ring) - 1)}
        = (1 .. offered) \ unkept
=============================================================================
