------------------------------ MODULE SemQueue ------------------------------
(***************************************************************************)
(* prog_sem.c: the job queue of prog_condV.c with its counter and          *)
(* condition variable replaced by the counting semaphore job_queue_count.  *)
(* The first MAX_THREAD_COUNT/3 threads dequeue one job each, the others   *)
(* enqueue one each; main joins them in index order.                       *)
(*                                                                         *)
(* A thread is its index in thread_list, a job is the index of the thread  *)
(* that allocated it, and job_queue keeps the head of the list LAST.       *)
(***************************************************************************)
EXTENDS Integers, Sequences, FiniteSets

CONSTANTS MAX_THREAD_COUNT,  \* length of thread_list
          NULL,              \* the null pointer; also "no owner"
          CallocMayFail,     \* may calloc return NULL?
          CreateMayFail      \* may pthread_create fail?

ASSUME SemAssumption ==
    /\ MAX_THREAD_COUNT \in Nat \ {0}
    /\ NULL \notin Nat
    /\ CallocMayFail \in BOOLEAN
    /\ CreateMayFail \in BOOLEAN

Tid == 0 .. (MAX_THREAD_COUNT - 1)
PtrOrNull == Tid \cup {NULL}

VARIABLES
    mpc,              \* control point of main
    count,            \* loop index of main: count, then ind
    pc,               \* control point of each thread
    new_job,          \* local of thread_callback_enqueue
    next_job,         \* local of thread_callback_dequeue
    job_queue,        \* the linked list, its head last
    job_queue_count,  \* value of the semaphore
    owner,            \* owner of job_queue_mutex
    freed,            \* jobs passed to free()
    crash             \* how the process died, or "none"

mainVars == <<mpc, count>>
jobVars == <<new_job, next_job, job_queue, job_queue_count, freed>>
threadVars == <<pc, jobVars, owner>>
vars == <<mainVars, threadVars, crash>>

PC == {"unborn", "failed", "done",
       "e_lock", "e_calloc", "e_push", "e_post", "e_unlock", "e_print",
       "d_wait", "d_lock", "d_take", "d_unlock", "d_print"}

Alive == crash = "none" /\ mpc # "exit"

(* A SIGSEGV ends the whole process where it stands. *)
Die(how) == crash' = how /\ UNCHANGED <<mainVars, threadVars>>

(* Everything but the semaphore, which sem_init sets. *)
InitButSem ==
    /\ mpc = "create" /\ count = 0
    /\ pc = [t \in Tid |-> "unborn"]
    /\ new_job = [t \in Tid |-> NULL]
    /\ next_job = [t \in Tid |-> NULL]
    /\ job_queue = <<>> /\ freed = {}
    /\ owner = NULL
    /\ crash = "none"

(* Mutant: sem_init with 1 instead of 0. *)
Init_SemOne == InitButSem /\ job_queue_count = 1

Init == InitButSem /\ job_queue_count = 0

-----------------------------------------------------------------------------
(* main *)

(* Mutant: the share of dequeuers and enqueuers is swapped. *)
Dequeuers_Swapped == 0 .. (MAX_THREAD_COUNT - MAX_THREAD_COUNT \div 3 - 1)

Dequeuers == 0 .. (MAX_THREAD_COUNT \div 3 - 1)

MainCreate ==
    /\ mpc = "create" /\ count < MAX_THREAD_COUNT
    /\ \/ pc' = [pc EXCEPT ![count] = IF count \in Dequeuers
                                      THEN "d_wait" ELSE "e_lock"]
       \/ CreateMayFail /\ pc' = [pc EXCEPT ![count] = "failed"]
    /\ count' = count + 1
    /\ UNCHANGED <<mpc, jobVars, owner, crash>>

MainCreated ==
    /\ mpc = "create" /\ count = MAX_THREAD_COUNT
    /\ mpc' = "join" /\ count' = 0
    /\ UNCHANGED <<threadVars, crash>>

MainJoin ==
    /\ mpc = "join" /\ count < MAX_THREAD_COUNT
    /\ pc[count] \in {"done", "failed"}
    /\ count' = count + 1
    /\ UNCHANGED <<mpc, threadVars, crash>>

(* A thread that was never created has no valid id to join. *)
MainJoinGarbage ==
    mpc = "join" /\ count < MAX_THREAD_COUNT /\ pc[count] = "failed" /\ Die("join")

MainReturn ==
    /\ mpc = "join" /\ count = MAX_THREAD_COUNT
    /\ mpc' = "exit"
    /\ UNCHANGED <<count, threadVars, crash>>

Main == MainCreate \/ MainCreated \/ MainJoin \/ MainJoinGarbage \/ MainReturn

-----------------------------------------------------------------------------
(* Steps both callbacks are made of *)

Goto(t, from, to) == pc[t] = from /\ pc' = [pc EXCEPT ![t] = to]

Lock(t, from, to) ==
    /\ Goto(t, from, to)
    /\ owner = NULL /\ owner' = t
    /\ UNCHANGED <<mainVars, jobVars, crash>>

Unlock(t, from, to) ==
    /\ Goto(t, from, to)
    /\ owner' = NULL
    /\ UNCHANGED <<mainVars, jobVars, crash>>

-----------------------------------------------------------------------------
(* thread_callback_enqueue *)

EnqLock(t) == Lock(t, "e_lock", "e_calloc")

EnqCalloc(t) ==
    /\ Goto(t, "e_calloc", "e_push")
    /\ new_job' = [new_job EXCEPT ![t] = t]
    /\ UNCHANGED <<mainVars, next_job, job_queue, job_queue_count, freed, owner,
                   crash>>

(* A failed calloc is reported, then new_job->data is written anyway. *)
EnqCallocNull(t) == pc[t] = "e_calloc" /\ CallocMayFail /\ Die("null")

EnqPush(t) ==
    /\ Goto(t, "e_push", "e_post")
    /\ job_queue' = Append(job_queue, new_job[t])
    /\ UNCHANGED <<mainVars, new_job, next_job, job_queue_count, freed, owner,
                   crash>>

(* sem_post *)
EnqPost(t) ==
    /\ Goto(t, "e_post", "e_unlock")
    /\ job_queue_count' = job_queue_count + 1
    /\ UNCHANGED <<mainVars, new_job, next_job, job_queue, freed, owner, crash>>

EnqUnlock(t) == Unlock(t, "e_unlock", "e_print")

(* new_job->data is read although the job is published: if a dequeuer has    *)
(* freed it, the read may return anything or fault.                          *)
EnqPrint(t) ==
    Goto(t, "e_print", "done") /\ UNCHANGED <<mainVars, jobVars, owner, crash>>

EnqPrintFault(t) == pc[t] = "e_print" /\ new_job[t] \in freed /\ Die("uaf")

Enqueue(t) == \/ EnqLock(t) \/ EnqCalloc(t) \/ EnqCallocNull(t) \/ EnqPush(t)
              \/ EnqPost(t) \/ EnqUnlock(t) \/ EnqPrint(t) \/ EnqPrintFault(t)

-----------------------------------------------------------------------------
(* thread_callback_dequeue *)

(* Mutant: the semaphore is looked at, not taken. *)
DeqSemWait_Peek(t) ==
    /\ Goto(t, "d_wait", "d_lock")
    /\ job_queue_count > 0
    /\ UNCHANGED <<mainVars, jobVars, owner, crash>>

(* sem_wait *)
DeqSemWait(t) ==
    /\ Goto(t, "d_wait", "d_lock")
    /\ job_queue_count > 0
    /\ job_queue_count' = job_queue_count - 1
    /\ UNCHANGED <<mainVars, new_job, next_job, job_queue, freed, owner, crash>>

DeqLock(t) == Lock(t, "d_lock", "d_take")

(* Mutant: the head stays linked. *)
DeqTake_KeepLinked(t) ==
    /\ Goto(t, "d_take", "d_unlock")
    /\ job_queue # <<>>
    /\ next_job' = [next_job EXCEPT ![t] = job_queue[Len(job_queue)]]
    /\ UNCHANGED <<mainVars, new_job, job_queue, job_queue_count, freed, owner,
                   crash>>

(* Unlink the head; job_queue->next faults when the list is empty. *)
DeqTake(t) ==
    /\ pc[t] = "d_take"
    /\ IF job_queue = <<>> THEN Die("null")
       ELSE /\ Goto(t, "d_take", "d_unlock")
            /\ next_job' = [next_job EXCEPT ![t] = job_queue[Len(job_queue)]]
            /\ job_queue' = SubSeq(job_queue, 1, Len(job_queue) - 1)
            /\ UNCHANGED <<mainVars, new_job, job_queue_count, freed, owner,
                           crash>>

DeqUnlock(t) == Unlock(t, "d_unlock", "d_print")

(* Print next_job->data and free the job. *)
DeqPrint(t) ==
    /\ Goto(t, "d_print", "done")
    /\ freed' = freed \cup {next_job[t]}
    /\ UNCHANGED <<mainVars, new_job, next_job, job_queue, job_queue_count, owner,
                   crash>>

Dequeue(t) == \/ DeqSemWait(t) \/ DeqLock(t) \/ DeqTake(t) \/ DeqUnlock(t)
              \/ DeqPrint(t)

-----------------------------------------------------------------------------
Thread(t) == Enqueue(t) \/ Dequeue(t)

(* The process is gone: nothing more happens. *)
Gone == ~Alive /\ UNCHANGED vars

Next == \/ Alive /\ (Main \/ \E t \in Tid : Thread(t))
        \/ Gone

(* The scheduler runs main and every thread that can move. *)
Fairness ==
    /\ WF_vars(Alive /\ Main)
    /\ \A t \in Tid : WF_vars(Alive /\ Thread(t))

Spec == Init /\ [][Next]_vars /\ Fairness

-----------------------------------------------------------------------------
(* Properties *)

Held == {"e_calloc", "e_push", "e_post", "e_unlock", "d_take", "d_unlock"}

(* Every variable has the type of its C declaration, job_queue_mutex is      *)
(* owned by exactly the thread inside its critical section, and new_job and  *)
(* next_job are set exactly from the statement that assigns them on.         *)
TypeOK ==
    /\ mpc \in {"create", "join", "exit"}
    /\ count \in 0 .. MAX_THREAD_COUNT
    /\ pc \in [Tid -> PC]
    /\ new_job \in [Tid -> PtrOrNull]
    /\ next_job \in [Tid -> PtrOrNull]
    /\ job_queue \in Seq(Tid)
    /\ job_queue_count \in Nat
    /\ owner \in PtrOrNull
    /\ freed \subseteq Tid
    /\ crash \in {"none", "null", "uaf", "join"}
    /\ \A t \in Tid : (pc[t] \in Held) <=> (owner = t)
    /\ \A t \in Tid : pc[t] \in {"e_push", "e_post", "e_unlock", "e_print"}
                        => new_job[t] = t
    /\ \A t \in Tid : pc[t] \in {"d_unlock", "d_print"} => next_job[t] # NULL

(* Dequeuers that passed sem_wait and have not unlinked their job yet, and   *)
(* enqueuers that linked a job and have not posted it yet.                   *)
Admitted == {t \in Tid : pc[t] \in {"d_lock", "d_take"}}
Unposted == {t \in Tid : pc[t] = "e_post"}

(* The semaphore never runs ahead of the list: every linked job is either    *)
(* counted, promised to a dequeuer on its way, or about to be posted.        *)
SemMatchesQueue ==
    Len(job_queue) = job_queue_count + Cardinality(Admitted)
                                     + Cardinality(Unposted)

(* A dequeuer let through by sem_wait always finds a job: job_queue is not   *)
(* followed when it is null, however the dequeuers overtake each other.      *)
TakeFindsJob == \A t \in Tid : pc[t] = "d_take" => job_queue # <<>>

(* Two thirds of the threads enqueue, so no dequeuer starves: if all threads *)
(* can be created, the program ends.                                         *)
Completes == <>(mpc = "exit" \/ crash # "none" \/ \E t \in Tid : pc[t] = "failed")

Queued == {job_queue[i] : i \in 1 .. Len(job_queue)}
Pushed == {t \in Tid : /\ new_job[t] # NULL
                       /\ pc[t] \in {"e_post", "e_unlock", "e_print", "done"}}

(* The queue implements the abstract job pool: jobs are handed out once, to  *)
(* one dequeuer each.                                                        *)
Pool == INSTANCE JobPool
          WITH Jobs <- Tid, Takers <- Tid, NULL <- NULL,
               put <- Pushed, pending <- Queued, got <- next_job
PoolSpec == Pool!PoolSpec
=============================================================================
