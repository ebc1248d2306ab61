---------------------------- MODULE CondVQueue ----------------------------
(***************************************************************************)
(* prog_condV.c: threads that enqueue one job each and threads that        *)
(* dequeue one job each, over a linked list guarded by job_queue_mutex and *)
(* a counter guarded by job_queue_count_mutex, with one condition variable *)
(* (pcond_var) for "the counter is positive".  main parses -t, creates the *)
(* dequeuers, then the enqueuers, and joins them in index order.           *)
(*                                                                         *)
(* A thread is its index in thread_list, a job is the index of the thread  *)
(* that allocated it.  job_queue lists the linked list with the element    *)
(* the C variable points at LAST, so that pushing at the head is Append.   *)
(***************************************************************************)
EXTENDS Integers, Sequences, FiniteSets

CONSTANTS MAX_THREAD_COUNT,  \* length of thread_list
          ThrArgs,           \* values of max_thr_count tried (0: no -t option)
          NULL,              \* the null pointer; also "no owner" of a mutex
          MaxSpurious,       \* bound on spurious wake-ups in one behaviour
          CallocMayFail,     \* may calloc return NULL?
          CreateMayFail      \* may pthread_create fail?

ASSUME CondVAssumption ==
    /\ MAX_THREAD_COUNT \in Nat \ {0}
    /\ ThrArgs \subseteq Nat
    /\ NULL \notin Nat
    /\ MaxSpurious \in Nat
    /\ CallocMayFail \in BOOLEAN
    /\ CreateMayFail \in BOOLEAN

Tid == 0 .. (MAX_THREAD_COUNT - 1)
PtrOrNull == Tid \cup {NULL}

VARIABLES
    mpc,              \* control point of main
    max_thr_count,    \* locals of main
    init_thr_count,
    count,            \* loop index of main: count, then ind
    pc,               \* control point of each thread
    new_job,          \* local of thread_callback_enqueue
    next_job,         \* local of thread_callback_dequeue
    job_queue,        \* the linked list, its head last
    job_queue_count,
    owner,            \* owner of job_queue_mutex and job_queue_count_mutex
    waiting,          \* threads blocked on pcond_var
    freed,            \* jobs passed to free()
    crash,            \* how the process died, or "none"
    spurious          \* spurious wake-ups so far

mainVars == <<mpc, max_thr_count, init_thr_count, count>>
jobVars  == <<new_job, next_job, job_queue, job_queue_count, freed>>
procVars == <<mainVars, crash, spurious>>
threadVars == <<pc, jobVars, owner, waiting, spurious>>
vars == <<mainVars, pc, jobVars, owner, waiting, crash, spurious>>

Mutex == {"queue", "count"}
EnqPC == {"e_calloc", "e_lockq", "e_lockc", "e_push", "e_unlockc",
          "e_unlockq", "e_print"}
DeqPC == {"d_lockc", "d_test", "d_wait", "d_unlockc", "d_lockq", "d_lockc2",
          "d_take", "d_unlockc2", "d_unlockq", "d_print"}
PC == {"unborn", "failed", "done"} \cup EnqPC \cup DeqPC

Alive == crash = "none" /\ mpc # "exit"

(* A SIGSEGV or SIGFPE ends the whole process where it stands. *)
Die(how) == crash' = how /\ UNCHANGED <<mainVars, threadVars>>

Init ==
    /\ mpc = "getopt"
    /\ max_thr_count \in ThrArgs
    /\ init_thr_count = 0 /\ count = 0
    /\ pc = [t \in Tid |-> "unborn"]
    /\ new_job = [t \in Tid |-> NULL]
    /\ next_job = [t \in Tid |-> NULL]
    /\ job_queue = <<>> /\ job_queue_count = 0
    /\ owner = [m \in Mutex |-> NULL]
    /\ waiting = {} /\ freed = {}
    /\ crash = "none" /\ spurious = 0

-----------------------------------------------------------------------------
(* main *)

(* -t is refused above the size of thread_list; -h and bad options exit too. *)
MainGetopt ==
    /\ mpc = "getopt"
    /\ \/ mpc' = "exit"
       \/ max_thr_count <= MAX_THREAD_COUNT /\ mpc' = "rand"
    /\ UNCHANGED <<max_thr_count, init_thr_count, count, crash, threadVars>>

(* (rand() % (max_thr_count - 1)) + 1 in unsigned arithmetic: without -t the *)
(* modulus is UINT_MAX, and every result above MAX_THREAD_COUNT acts alike.  *)
InitThrChoices(n) ==
    IF n = 0 THEN 1 .. (MAX_THREAD_COUNT + 1) ELSE 1 .. (n - 1)

MainRand ==
    /\ mpc = "rand" /\ max_thr_count # 1
    /\ init_thr_count' \in InitThrChoices(max_thr_count)
    /\ mpc' = "create"
    /\ UNCHANGED <<max_thr_count, count, crash, threadVars>>

(* With -t 1 the modulus is zero. *)
MainRandByZero == mpc = "rand" /\ max_thr_count = 1 /\ Die("fpe")

(* One turn of either creation loop: dequeuers first, then enqueuers. *)
MainCreate ==
    /\ mpc = "create"
    /\ count < init_thr_count \/ count < max_thr_count
    /\ count \in Tid
    /\ \/ pc' = [pc EXCEPT ![count] = IF count < init_thr_count
                                      THEN "d_lockc" ELSE "e_calloc"]
       \/ CreateMayFail /\ pc' = [pc EXCEPT ![count] = "failed"]
    /\ count' = count + 1
    /\ UNCHANGED <<mpc, max_thr_count, init_thr_count, jobVars, owner, waiting,
                   crash, spurious>>

(* Without -t the first loop may run past the end of thread_list. *)
MainCreateOverflow ==
    mpc = "create" /\ count < init_thr_count /\ count \notin Tid /\ Die("overflow")

MainCreated ==
    /\ mpc = "create"
    /\ count >= init_thr_count /\ count >= max_thr_count
    /\ mpc' = "join" /\ count' = 0
    /\ UNCHANGED <<max_thr_count, init_thr_count, crash, threadVars>>

MainJoin ==
    /\ mpc = "join" /\ count < max_thr_count
    /\ pc[count] \in {"done", "failed"}
    /\ count' = count + 1
    /\ UNCHANGED <<mpc, max_thr_count, init_thr_count, crash, threadVars>>

(* A thread that was never created has no valid id to join. *)
MainJoinGarbage ==
    mpc = "join" /\ count < max_thr_count /\ pc[count] = "failed" /\ Die("join")

MainReturn ==
    /\ mpc = "join" /\ count >= max_thr_count
    /\ mpc' = "exit"
    /\ UNCHANGED <<max_thr_count, init_thr_count, count, crash, threadVars>>

Main == \/ MainGetopt \/ MainRand \/ MainRandByZero \/ MainCreate
        \/ MainCreateOverflow \/ MainCreated \/ MainJoin \/ MainJoinGarbage
        \/ MainReturn

-----------------------------------------------------------------------------
(* Steps both callbacks are made of *)

Goto(t, from, to) == pc[t] = from /\ pc' = [pc EXCEPT ![t] = to]

Lock(t, m, from, to) ==
    /\ Goto(t, from, to)
    /\ owner[m] = NULL
    /\ owner' = [owner EXCEPT ![m] = t]
    /\ UNCHANGED <<procVars, jobVars, waiting>>

Unlock(t, m, from, to) ==
    /\ Goto(t, from, to)
    /\ owner' = [owner EXCEPT ![m] = NULL]
    /\ UNCHANGED <<procVars, jobVars, waiting>>

(* pthread_cond_signal: unblocks at least one of the waiting threads. *)
Signal ==
    \E W \in SUBSET waiting :
        /\ waiting # {} => W # {}
        /\ waiting' = waiting \ W

-----------------------------------------------------------------------------
(* thread_callback_enqueue *)

EnqCalloc(t) ==
    /\ Goto(t, "e_calloc", "e_lockq")
    /\ \E p \in {t, NULL} :
          /\ p = t \/ CallocMayFail
          /\ new_job' = [new_job EXCEPT ![t] = p]
    /\ UNCHANGED <<procVars, next_job, job_queue, job_queue_count, freed, owner,
                   waiting>>

EnqLockQueue(t)   == Lock(t, "queue", "e_lockq", "e_lockc")
EnqLockCount(t)   == Lock(t, "count", "e_lockc", "e_push")
EnqUnlockCount(t) == Unlock(t, "count", "e_unlockc", "e_unlockq")
EnqUnlockQueue(t) == Unlock(t, "queue", "e_unlockq", "e_print")

(* Link at the head and count.  A null new_job leaves an empty list as it    *)
(* is, but is counted.                                                       *)
LinkAndCount(t) ==
    /\ Goto(t, "e_push", "e_unlockc")
    /\ new_job[t] = NULL => job_queue = <<>>
    /\ job_queue' = IF new_job[t] = NULL THEN job_queue
                    ELSE Append(job_queue, new_job[t])
    /\ job_queue_count' = job_queue_count + 1
    /\ UNCHANGED <<procVars, new_job, next_job, freed, owner>>

(* Mutant: signal only when the queue was empty. *)
EnqPush_SignalIfEmpty(t) ==
    LinkAndCount(t) /\ IF job_queue_count = 0 THEN Signal ELSE UNCHANGED waiting

EnqPush(t) == LinkAndCount(t) /\ Signal

(* new_job->next with a null new_job. *)
EnqPushNull(t) ==
    pc[t] = "e_push" /\ new_job[t] = NULL /\ job_queue # <<>> /\ Die("null")

(* new_job->data is read although the job is published: if a dequeuer has    *)
(* freed it, the read may return anything or fault.                          *)
EnqPrint(t) ==
    /\ Goto(t, "e_print", "done")
    /\ new_job[t] # NULL
    /\ UNCHANGED <<procVars, jobVars, owner, waiting>>

EnqPrintFault(t) ==
    /\ pc[t] = "e_print"
    /\ \/ new_job[t] = NULL /\ Die("null")
       \/ new_job[t] \in freed /\ Die("uaf")

Enqueue(t) == \/ EnqCalloc(t) \/ EnqLockQueue(t) \/ EnqLockCount(t)
              \/ EnqPush(t) \/ EnqPushNull(t) \/ EnqUnlockCount(t)
              \/ EnqUnlockQueue(t) \/ EnqPrint(t) \/ EnqPrintFault(t)

-----------------------------------------------------------------------------
(* thread_callback_dequeue *)

DeqLockCount(t) == Lock(t, "count", "d_lockc", "d_test")

(* while(!job_queue_count) pthread_cond_wait(...): the wait releases the     *)
(* counter's mutex and blocks in one step, and takes the mutex again when it *)
(* has been woken.                                                           *)
DeqWait(t) ==
    /\ Goto(t, "d_test", "d_wait")
    /\ job_queue_count = 0
    /\ waiting' = waiting \cup {t}
    /\ owner' = [owner EXCEPT !["count"] = NULL]
    /\ UNCHANGED <<procVars, jobVars>>

DeqSpurious(t) ==
    /\ t \in waiting
    /\ spurious < MaxSpurious
    /\ waiting' = waiting \ {t}
    /\ spurious' = spurious + 1
    /\ UNCHANGED <<mainVars, crash, pc, jobVars, owner>>

DeqWake(t) == t \notin waiting /\ Lock(t, "count", "d_wait", "d_test")

DeqSeen(t) ==
    /\ Goto(t, "d_test", "d_unlockc")
    /\ job_queue_count > 0
    /\ UNCHANGED <<procVars, jobVars, owner, waiting>>

(* Mutant: keep the counter's mutex while going for the queue's. *)
DeqUnlockCount_Keep(t) ==
    Goto(t, "d_unlockc", "d_lockq") /\ UNCHANGED <<procVars, jobVars, owner, waiting>>

DeqUnlockCount(t)  == Unlock(t, "count", "d_unlockc", "d_lockq")
DeqLockQueue(t)    == Lock(t, "queue", "d_lockq", "d_lockc2")
DeqRelockCount(t)  == Lock(t, "count", "d_lockc2", "d_take")
DeqUnlockCount2(t) == Unlock(t, "count", "d_unlockc2", "d_unlockq")
DeqUnlockQueue(t)  == Unlock(t, "queue", "d_unlockq", "d_print")

(* Mutant: the head stays linked. *)
DeqTake_KeepLinked(t) ==
    /\ Goto(t, "d_take", "d_unlockc2")
    /\ job_queue_count > 0 /\ job_queue # <<>>
    /\ next_job' = [next_job EXCEPT ![t] = job_queue[Len(job_queue)]]
    /\ job_queue_count' = job_queue_count - 1
    /\ UNCHANGED <<procVars, new_job, job_queue, freed, owner, waiting>>

(* Unlink the head if the counter is (still) positive. *)
DeqTake(t) ==
    /\ Goto(t, "d_take", "d_unlockc2")
    /\ job_queue_count > 0 /\ job_queue # <<>>
    /\ next_job' = [next_job EXCEPT ![t] = job_queue[Len(job_queue)]]
    /\ job_queue' = SubSeq(job_queue, 1, Len(job_queue) - 1)
    /\ job_queue_count' = job_queue_count - 1
    /\ UNCHANGED <<procVars, new_job, freed, owner, waiting>>

DeqTakeNothing(t) ==
    /\ Goto(t, "d_take", "d_unlockc2")
    /\ job_queue_count = 0
    /\ UNCHANGED <<procVars, jobVars, owner, waiting>>

(* job_queue->next with a null job_queue, after a counted null push. *)
DeqTakeNull(t) ==
    pc[t] = "d_take" /\ job_queue_count > 0 /\ job_queue = <<>> /\ Die("null")

(* Print next_job->data and free the job. *)
DeqPrint(t) ==
    /\ Goto(t, "d_print", "done")
    /\ next_job[t] # NULL
    /\ freed' = freed \cup {next_job[t]}
    /\ UNCHANGED <<procVars, new_job, next_job, job_queue, job_queue_count, owner,
                   waiting>>

DeqPrintNull(t) == pc[t] = "d_print" /\ next_job[t] = NULL /\ Die("null")

Dequeue(t) == \/ DeqLockCount(t) \/ DeqWait(t) \/ DeqWake(t) \/ DeqSeen(t)
              \/ DeqUnlockCount(t) \/ DeqLockQueue(t) \/ DeqRelockCount(t)
              \/ DeqTake(t) \/ DeqTakeNothing(t) \/ DeqTakeNull(t)
              \/ DeqUnlockCount2(t) \/ DeqUnlockQueue(t) \/ DeqPrint(t)
              \/ DeqPrintNull(t)

-----------------------------------------------------------------------------
Thread(t) == Enqueue(t) \/ Dequeue(t)

(* The process is gone: nothing more happens. *)
Gone == ~Alive /\ UNCHANGED vars

Next ==
    \/ Alive /\ (Main \/ \E t \in Tid : Thread(t) \/ DeqSpurious(t))
    \/ Gone

(* The scheduler runs main and every thread that can move; no fairness is    *)
(* asked of the mutexes, and spurious wake-ups owe nothing to anybody.       *)
Fairness ==
    /\ WF_vars(Alive /\ Main)
    /\ \A t \in Tid : WF_vars(Alive /\ Thread(t))

Spec == Init /\ [][Next]_vars /\ Fairness

-----------------------------------------------------------------------------
(* Properties *)

CountHeld == {"e_push", "e_unlockc", "d_test", "d_unlockc", "d_take",
              "d_unlockc2"}
QueueHeld == {"e_lockc", "e_push", "e_unlockc", "e_unlockq", "d_lockc2",
              "d_take", "d_unlockc2", "d_unlockq"}

(* Every variable has the type of its C declaration, and each mutex is owned *)
(* by exactly the thread whose program counter is inside its critical        *)
(* section.                                                                  *)
TypeOK ==
    /\ mpc \in {"getopt", "rand", "create", "join", "exit"}
    /\ max_thr_count \in Nat
    /\ init_thr_count \in Nat
    /\ count \in Nat
    /\ pc \in [Tid -> PC]
    /\ new_job \in [Tid -> PtrOrNull]
    /\ next_job \in [Tid -> PtrOrNull]
    /\ job_queue \in Seq(Tid)
    /\ job_queue_count \in Nat
    /\ owner \in [Mutex -> PtrOrNull]
    /\ waiting \subseteq {t \in Tid : pc[t] = "d_wait"}
    /\ freed \subseteq Tid
    /\ crash \in {"none", "fpe", "overflow", "null", "uaf", "join"}
    /\ spurious \in Nat
    /\ \A t \in Tid : (pc[t] \in CountHeld) <=> (owner["count"] = t)
    /\ \A t \in Tid : (pc[t] \in QueueHeld) <=> (owner["queue"] = t)

Queued == {job_queue[i] : i \in 1 .. Len(job_queue)}

(* The jobs that were linked into the queue at some time. *)
Pushed == {t \in Tid : /\ new_job[t] # NULL
                       /\ pc[t] \in {"e_unlockc", "e_unlockq", "e_print",
                                     "done"}}

(* Enqueuers that counted a job they could not allocate; new_job->data kills *)
(* the process when such a thread reaches its printf.                        *)
NullPushed == {t \in Tid : /\ new_job[t] = NULL
                           /\ pc[t] \in {"e_unlockc", "e_unlockq",
                                         "e_print"}}

(* Between any two steps job_queue_count is the length of the list plus the  *)
(* failed allocations that were counted: the drift a failing calloc causes   *)
(* is exactly that, and neither racing dequeuers nor late ones add to it.    *)
CountExact ==
    job_queue_count = Len(job_queue) + Cardinality(NullPushed)

(* Dequeuers that will still look at job_queue_count before finishing. *)
Looking == {t \in Tid : /\ pc[t] \in {"d_lockc", "d_test", "d_wait",
                                       "d_unlockc", "d_lockq", "d_lockc2",
                                       "d_take"}
                        /\ t \notin waiting}

(* No wake-up is lost: while some dequeuer sleeps on pcond_var, every counted *)
(* job is matched by a dequeuer that is awake and will still try to take one. *)
(* The signal is sent on every push, so this survives any interleaving.      *)
NoLostWakeup == waiting # {} => job_queue_count <= Cardinality(Looking)

(* The two mutexes never deadlock: the process is stuck only when main waits *)
(* for dequeuers that sleep on an empty queue after the enqueuers are done.  *)
StuckOnlyStarved ==
    (Alive /\ ~ENABLED (Main \/ \E t \in Tid : Thread(t))) =>
        /\ job_queue_count = 0
        /\ \A t \in Tid : \/ pc[t] \in {"unborn", "failed", "done"}
                          \/ t \in waiting

(* Comment at prog_condV.c:76, "When we reached hear, it implyes             *)
(* job_queue_count > 0", and the message printed at line 93: a dequeuer that *)
(* got past the wait has a job to print.                                     *)
DequeuerHasJob == \A t \in Tid : pc[t] = "d_print" => next_job[t] # NULL

(* If the threads to be created include at least as many enqueuers as        *)
(* dequeuers, and all can be created, the program ends.                      *)
Completes ==
    (mpc = "create" /\ 2 * init_thr_count <= max_thr_count)
        ~> (mpc = "exit" \/ crash # "none" \/ \E t \in Tid : pc[t] = "failed")

(* The queue implements the abstract job pool: jobs are handed out once, to  *)
(* one dequeuer each.                                                        *)
Pool == INSTANCE JobPool
          WITH Jobs <- Tid, Takers <- Tid, NULL <- NULL,
               put <- Pushed, pending <- Queued, got <- next_job
PoolSpec == Pool!PoolSpec
=============================================================================
