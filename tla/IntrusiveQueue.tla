--------------------------- MODULE IntrusiveQueue ---------------------------
(***************************************************************************)
(* prog_queue.c: a queue of nodes linked through their own next and prev   *)
(* fields, reached by one pointer (head), driven from a menu that pushes a *)
(* freshly allocated item, pops one and frees it, or quits.                *)
(*                                                                         *)
(* Heap is the set of addresses calloc can return; a freed address keeps   *)
(* its contents until it is handed out again, cleared.                     *)
(***************************************************************************)
EXTENDS Integers, Sequences

CONSTANTS Heap,     \* addresses of items
          Values,   \* integers the user may enter
          NULL,     \* the null pointer
          NoValue   \* "nothing popped yet"

VARIABLES
    count, head,    \* private fields of Queue_t
    next, prev,     \* the node of each item
    data,           \* the data of each item
    allocated,      \* addresses in use
    popped,         \* what "Poped item" printed last
    state           \* "run", "end" or "fault"

vars == <<count, head, next, prev, data, allocated, popped, state>>

(* initialize_Queue_list_imp; what the heap holds before the first calloc is *)
(* of no consequence.                                                        *)
Init ==
    /\ count = 0
    /\ head = NULL
    /\ next = [n \in Heap |-> NULL]
    /\ prev = [n \in Heap |-> NULL]
    /\ data \in [Heap -> Values]
    /\ allocated = {}
    /\ popped = NoValue
    /\ state = "run"

-----------------------------------------------------------------------------
(* push_Queue_list_imp: the pointer fields it leaves in a list that holds    *)
(* node; nx and pv are the fields before.                                    *)

(* Mutant: head->next is not moved on to the new node. *)
push_StaleLast(nx, pv, node) ==
    IF count = 0
    THEN <<node, [nx EXCEPT ![node] = node], [pv EXCEPT ![node] = node]>>
    ELSE LET last == nx[head] IN
         <<head,
           [nx EXCEPT ![node] = head],
           [[pv EXCEPT ![node] = last] EXCEPT ![last] = node]>>

push(nx, pv, node) ==
    IF count = 0
    THEN <<node, [nx EXCEPT ![node] = node], [pv EXCEPT ![node] = node]>>
    ELSE LET last == nx[head] IN
         <<head,
           [[nx EXCEPT ![node] = head] EXCEPT ![head] = node],
           [[pv EXCEPT ![node] = last] EXCEPT ![last] = node]>>

(* Menu option 1. *)
PushItem ==
    /\ state = "run"
    /\ \E item \in Heap \ allocated, value \in Values :
          LET r == push([next EXCEPT ![item] = NULL],
                        [prev EXCEPT ![item] = NULL], item)
          IN /\ head' = r[1]
             /\ next' = r[2]
             /\ prev' = r[3]
             /\ data' = [data EXCEPT ![item] = value]
             /\ allocated' = allocated \cup {item}
    /\ count' = count + 1
    /\ UNCHANGED <<popped, state>>

(* calloc failed: the program ends. *)
PushNoMemory ==
    /\ state = "run"
    /\ state' = "end"
    /\ UNCHANGED <<count, head, next, prev, data, allocated, popped>>

-----------------------------------------------------------------------------
(* pop_Queue_list_imp when the queue is not empty: the node it unlinks is    *)
(* head; what becomes of head and of the pointer fields.                     *)

(* Mutant: head moves to the last node instead of the second. *)
pop_WrongEnd(nx, pv) ==
    LET cleared(f) == [f EXCEPT ![head] = NULL]
    IN IF count = 1
       THEN <<head, cleared(nx), cleared(pv)>>
       ELSE LET last == nx[head]
                second == pv[head]
            IN <<last,
                 cleared([[nx EXCEPT ![last] = second] EXCEPT ![second] = last]),
                 cleared(pv)>>

pop(nx, pv) ==
    LET cleared(f) == [f EXCEPT ![head] = NULL]
    IN IF count = 1
       THEN <<head, cleared(nx), cleared(pv)>>
       ELSE LET last == nx[head]
                second == pv[head]
            IN <<second,
                 cleared([[nx EXCEPT ![last] = second] EXCEPT ![second] = last]),
                 cleared(pv)>>

(* Menu option 2: pop, print the item, free it. *)
PopItem ==
    /\ state = "run"
    /\ count > 0
    /\ LET r == pop(next, prev)
       IN /\ head' = r[1]
          /\ next' = r[2]
          /\ prev' = r[3]
    /\ popped' = data[head]
    /\ allocated' = allocated \ {head}
    /\ count' = count - 1
    /\ UNCHANGED <<data, state>>

(* head->next is read before count is looked at: with nothing pushed yet     *)
(* head is null.                                                             *)
PopNeverPushed ==
    /\ state = "run"
    /\ head = NULL
    /\ state' = "fault"
    /\ UNCHANGED <<count, head, next, prev, data, allocated, popped>>

(* An emptied queue keeps head pointing at the item it freed: reading it is  *)
(* undefined, and either faults or is harmless since count is zero.          *)
PopEmptied ==
    /\ state = "run"
    /\ count = 0
    /\ head # NULL
    /\ state' \in {"run", "fault"}
    /\ UNCHANGED <<count, head, next, prev, data, allocated, popped>>

Quit ==
    /\ state = "run"
    /\ state' = "end"
    /\ UNCHANGED <<count, head, next, prev, data, allocated, popped>>

Over == state # "run" /\ UNCHANGED vars

Next == \/ PushItem \/ PushNoMemory \/ PopItem \/ PopNeverPushed
        \/ PopEmptied \/ Quit \/ Over

Spec == Init /\ [][Next]_vars

-----------------------------------------------------------------------------
(* Properties *)

(* The nodes of the queue, oldest first: from head along prev. *)
chain[i \in 1 .. count] == IF i = 1 THEN head ELSE prev[chain[i - 1]]

(* While the queue holds items, prev leads from head through each allocated  *)
(* item once, head->next is the newest, and no link that push or pop will    *)
(* follow leaves the allocated items: stale prev fields stay behind the      *)
(* newest node, where nothing reads them.                                    *)
WellLinked ==
    count > 0 =>
        /\ {chain[i] : i \in 1 .. count} = allocated
        /\ \A i, j \in 1 .. count : i # j => chain[i] # chain[j]
        /\ next[head] = chain[count]

(* An item leaks or is freed twice at no time: the queue is what is          *)
(* allocated, and it is a first-in first-out queue of the values entered.    *)
Contents == [i \in 1 .. count |-> data[chain[i]]]
Abs == INSTANCE Fifo WITH q <- Contents, out <- popped
FifoSpec == Abs!FifoSpec
=============================================================================
