----------------------------- MODULE RWAbstract -----------------------------
(***************************************************************************)
(* What a reader/writer lock promises: a thread is granted read access     *)
(* only while nobody writes, and write access only while nobody else holds *)
(* the lock at all.  Who is granted access first is left open.             *)
(***************************************************************************)
CONSTANT Threads

VARIABLE holds    \* "none", "read" or "write", for each thread

AbsInit == holds = [t \in Threads |-> "none"]

GrantRead(t) ==
    /\ holds[t] = "none"
    /\ \A u \in Threads : holds[u] # "write"
    /\ holds' = [holds EXCEPT ![t] = "read"]

GrantWrite(t) ==
    /\ \A u \in Threads : holds[u] = "none"
    /\ holds' = [holds EXCEPT ![t] = "write"]

Release(t) ==
    /\ holds[t] # "none"
    /\ holds' = [holds EXCEPT ![t] = "none"]

AbsNext == \E t \in Threads : GrantRead(t) \/ GrantWrite(t) \/ Release(t)

AbsSpec == AbsInit /\ [][AbsNext]_holds
=============================================================================
