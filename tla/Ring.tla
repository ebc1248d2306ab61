-------------------------------- MODULE Ring --------------------------------
(***************************************************************************)
(* The bounded queue of prog_queue.cpp (class Queue) and, line for line    *)
(* the same, of discovery/sunsetSolarDiscoDataModel.h (class dataQueue):   *)
(* its fields as a record and its methods as operators on such records.    *)
(* The circular list has size buffers; a buffer is its position in the     *)
(* list and -1 is the null pointer.                                        *)
(***************************************************************************)
EXTENDS Integers

(* The constructor: each buffer is linked to the next and the last back to   *)
(* the first; the only buffer of a queue of size 1 is linked to nothing, and *)
(* a queue of size 0 has no buffer.  new CBuffer() clears the item.          *)
RingNew(sz) ==
    [size |-> sz, queueFull |-> FALSE,
     front |-> IF sz = 0 THEN -1 ELSE 0,
     tail |-> IF sz = 0 THEN -1 ELSE 0,
     item |-> [b \in 0 .. (sz - 1) |-> 0]]

next(r, b) ==
    IF r.size = 1 THEN -1 ELSE IF b = r.size - 1 THEN 0 ELSE b + 1

isEmpty(r) == r.front = r.tail

(* Mutant: tail always moves on. *)
pushed_NoFullTest(r, v) ==
    [r EXCEPT !.item[r.tail] = v,
              !.queueFull = next(r, r.tail) \in {-1, r.front},
              !.tail = IF next(r, r.tail) = -1 THEN @ ELSE next(r, @)]

(* push when queueFull is false and there is a buffer at tail. *)
pushed(r, v) ==
    IF next(r, r.tail) \in {-1, r.front}
    THEN [r EXCEPT !.item[r.tail] = v, !.queueFull = TRUE]
    ELSE [r EXCEPT !.item[r.tail] = v, !.tail = next(r, @)]

(* Mutant: front stays where it is. *)
popped_NoAdvance(r) == [r EXCEPT !.queueFull = FALSE]

(* pop when the queue is not empty; the value returned is item[front]. *)
popped(r) == [r EXCEPT !.front = next(r, @), !.queueFull = FALSE]

(* Buffers between front and tail, which pop can still reach. *)
Reachable(r) ==
    IF r.front <= r.tail THEN r.tail - r.front
                         ELSE r.size - r.front + r.tail
=============================================================================
