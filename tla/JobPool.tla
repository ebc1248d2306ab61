------------------------------ MODULE JobPool ------------------------------
(***************************************************************************)
(* What a shared job queue promises, whatever it is built from: a job that *)
(* was put is either still pending or was handed to exactly one taker, and *)
(* a taker is handed at most one job, one that was put.  prog_condV.c and  *)
(* prog_sem.c are two implementations; the order in which pending jobs are *)
(* handed out is left open.                                                *)
(***************************************************************************)
CONSTANTS Jobs,     \* the jobs that may ever be put
          Takers,   \* the threads that take a job
          NULL      \* "no job yet"

VARIABLES put,      \* jobs put so far
          pending,  \* jobs put and not yet taken
          got       \* the job each taker was handed, or NULL

poolVars == <<put, pending, got>>

PoolInit ==
    /\ put = {}
    /\ pending = {}
    /\ got = [t \in Takers |-> NULL]

Put(j) ==
    /\ j \notin put
    /\ put' = put \cup {j}
    /\ pending' = pending \cup {j}
    /\ UNCHANGED got

Take(t) ==
    /\ got[t] = NULL
    /\ \E j \in pending :
          /\ pending' = pending \ {j}
          /\ got' = [got EXCEPT ![t] = j]
    /\ UNCHANGED put

PoolNext == (\E j \in Jobs : Put(j)) \/ (\E t \in Takers : Take(t))

PoolSpec == PoolInit /\ [][PoolNext]_poolVars
=============================================================================
