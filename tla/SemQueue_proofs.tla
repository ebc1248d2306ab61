-------------------------- MODULE SemQueue_proofs --------------------------
(***************************************************************************)
(* Proofs about prog_sem.c for every MAX_THREAD_COUNT: TypeOK, the balance *)
(* of semaphore and list, that a dequeuer let through by sem_wait finds a  *)
(* job, and that the program implements the abstract job pool.  None of    *)
(* them is inductive alone: MainCreate must find the thread it starts      *)
(* unborn, TakeFindsJob follows from the balance, and PoolInv says what    *)
(* the refinement needs: no job is linked twice, or by a dequeuer.         *)
(***************************************************************************)
EXTENDS SemQueue, Lemmas, FiniteSetTheorems, TLAPS

(* main has not started the threads from index count on. *)
UnbornYet == mpc = "create" => \A t \in Tid : t >= count => pc[t] = "unborn"

Typed == TypeOK /\ UnbornYet

USE SemAssumption

(* Initially nothing runs and nothing is linked. *)
LEMMA InitTyped == Init => Typed
BY DEF Init, InitButSem, Typed, TypeOK, UnbornYet, Tid, PtrOrNull, PC, Held

(* One step of main keeps the types: a thread is started only once. *)
LEMMA MainTyped ==
    ASSUME Typed, Main PROVE Typed'
<1> USE DEF Typed, TypeOK, UnbornYet, Tid, PtrOrNull, PC, Held, jobVars,
            threadVars, mainVars
<1>1. CASE MainCreate
  <2>1. /\ count \in Tid /\ pc[count] = "unborn"
        /\ \E p \in {"d_wait", "e_lock", "failed"} : pc' = [pc EXCEPT ![count] = p]
        /\ count' = count + 1 /\ UNCHANGED <<mpc, jobVars, owner, crash>>
    BY <1>1 DEF MainCreate
  <2>2. PICK p \in {"d_wait", "e_lock", "failed"} : pc' = [pc EXCEPT ![count] = p]
    BY <2>1
  <2> QED BY SMTT(30), <2>1, <2>2
<1>2. CASE MainCreated
    BY <1>2 DEF MainCreated
<1>3. CASE MainJoin
    BY <1>3 DEF MainJoin
<1>4. CASE MainJoinGarbage
    BY <1>4 DEF MainJoinGarbage, Die
<1>5. CASE MainReturn
    BY <1>5 DEF MainReturn
<1> QED BY <1>1, <1>2, <1>3, <1>4, <1>5 DEF Main

(* One step of an enqueuer keeps the types. *)
LEMMA EnqueueTyped ==
    ASSUME Typed, NEW t \in Tid, Enqueue(t) PROVE Typed'
<1> USE DEF Typed, TypeOK, UnbornYet, Tid, PtrOrNull, PC, Held, jobVars,
            threadVars, mainVars, Goto
<1>1. CASE EnqLock(t)
    BY <1>1 DEF EnqLock, Lock
<1>2. CASE EnqCalloc(t)
    BY <1>2 DEF EnqCalloc
<1>3. CASE EnqCallocNull(t)
    BY <1>3 DEF EnqCallocNull, Die
<1>4. CASE EnqPush(t)
    BY <1>4 DEF EnqPush
<1>5. CASE EnqPost(t)
    BY <1>5 DEF EnqPost
<1>6. CASE EnqUnlock(t)
    BY <1>6 DEF EnqUnlock, Unlock
<1>7. CASE EnqPrint(t)
    BY <1>7 DEF EnqPrint
<1>8. CASE EnqPrintFault(t)
    BY <1>8 DEF EnqPrintFault, Die
<1> QED BY <1>1, <1>2, <1>3, <1>4, <1>5, <1>6, <1>7, <1>8 DEF Enqueue

(* One step of a dequeuer keeps the types. *)
LEMMA DequeueTyped ==
    ASSUME Typed, NEW t \in Tid, Dequeue(t) PROVE Typed'
<1> USE DEF Typed, TypeOK, UnbornYet, Tid, PtrOrNull, PC, Held, jobVars,
            threadVars, mainVars, Goto
<1>1. CASE DeqSemWait(t)
    BY <1>1 DEF DeqSemWait
<1>2. CASE DeqLock(t)
    BY <1>2 DEF DeqLock, Lock
<1>3. CASE DeqTake(t)
  <2>1. CASE job_queue = <<>>
    BY <1>3, <2>1 DEF DeqTake, Die
  <2>2. CASE job_queue # <<>>
    <3> DEFINE job == job_queue[Len(job_queue)]
    <3>1. SubSeq(job_queue, 1, Len(job_queue) - 1) \in Seq(Tid) /\ job \in Tid
        BY <2>2, Unlinked
    <3> HIDE DEF job
    <3>2. /\ Goto(t, "d_take", "d_unlock")
          /\ next_job' = [next_job EXCEPT ![t] = job]
          /\ job_queue' \in Seq(Tid)
          /\ UNCHANGED <<mainVars, new_job, job_queue_count, freed, owner, crash>>
        BY <1>3, <2>2, <3>1 DEF DeqTake, job
    <3> QED BY <3>1, <3>2
  <2> QED BY <2>1, <2>2
<1>4. CASE DeqUnlock(t)
    BY <1>4 DEF DeqUnlock, Unlock
<1>5. CASE DeqPrint(t)
  <2>1. /\ pc[t] = "d_print" /\ pc' = [pc EXCEPT ![t] = "done"]
        /\ freed' = freed \cup {next_job[t]}
        /\ UNCHANGED <<mainVars, new_job, next_job, job_queue, job_queue_count,
                       owner, crash>>
    BY <1>5 DEF DeqPrint
  <2>2. freed' \subseteq Tid
    BY <2>1
  <2> QED BY <2>1, <2>2
<1> QED BY <1>1, <1>2, <1>3, <1>4, <1>5 DEF Dequeue

(* Typed is inductive. *)
LEMMA NextTyped == Typed /\ [Next]_vars => Typed'
<1> SUFFICES ASSUME Typed, [Next]_vars PROVE Typed'
    OBVIOUS
<1>1. CASE UNCHANGED vars
    BY <1>1 DEF vars, mainVars, threadVars, jobVars, Typed, TypeOK, UnbornYet
<1>2. CASE Main
    BY <1>2, MainTyped
<1>3. ASSUME NEW t \in Tid, Thread(t) PROVE Typed'
    BY <1>3, EnqueueTyped, DequeueTyped DEF Thread
<1> QED BY <1>1, <1>2, <1>3 DEF Next, Gone

(* TypeOK holds of every behaviour of prog_sem.c: the mutex is owned by the  *)
(* thread inside the critical section and by no other.                       *)
THEOREM TypeCorrect == Spec => []TypeOK
<1>1. Typed => TypeOK
    BY DEF Typed
<1> QED BY InitTyped, NextTyped, <1>1, PTL DEF Spec

-----------------------------------------------------------------------------
(* The balance of semaphore and list *)

(* How many threads are at one of the control points P. *)
At(f, P) == {u \in Tid : f[u] \in P}
NumAt(f, P) == Cardinality(At(f, P))

(* There are finitely many threads. *)
LEMMA AtFinite ==
    ASSUME NEW f, NEW P
    PROVE  IsFiniteSet(At(f, P)) /\ NumAt(f, P) \in Nat
<1>1. IsFiniteSet(Tid)
    BY FS_Interval DEF Tid
<1>2. At(f, P) \in SUBSET Tid
    BY DEF At
<1> QED BY <1>1, <1>2, FS_Subset, FS_CardinalityType DEF NumAt

(* A thread that moves to c changes a count by one at most. *)
LEMMA NumAtMove ==
    ASSUME pc \in [Tid -> PC],
           NEW t \in Tid, NEW c \in PC, pc' = [pc EXCEPT ![t] = c], NEW P
    PROVE  /\ (c \in P <=> pc[t] \in P) => NumAt(pc', P) = NumAt(pc, P)
           /\ (c \in P /\ pc[t] \notin P) => NumAt(pc', P) = NumAt(pc, P) + 1
           /\ (c \notin P /\ pc[t] \in P) => NumAt(pc', P) = NumAt(pc, P) - 1
<1> DEFINE A == At(pc, P)
<1>1. IsFiniteSet(A) /\ Cardinality(A) \in Nat
    BY AtFinite DEF NumAt
<1>2. ASSUME c \in P <=> pc[t] \in P PROVE NumAt(pc', P) = NumAt(pc, P)
  <2>1. At(pc', P) = A
    BY <1>2 DEF At
  <2> QED BY <2>1 DEF NumAt
<1>3. ASSUME c \in P, pc[t] \notin P PROVE NumAt(pc', P) = NumAt(pc, P) + 1
  <2>1. At(pc', P) = A \cup {t} /\ t \notin A
    BY <1>3 DEF At
  <2>2. Cardinality(A \cup {t}) = Cardinality(A) + 1
    BY <1>1, <2>1, FS_AddElement
  <2> QED BY <2>1, <2>2 DEF NumAt
<1>4. ASSUME c \notin P, pc[t] \in P PROVE NumAt(pc', P) = NumAt(pc, P) - 1
  <2>1. At(pc', P) = A \ {t} /\ t \in A
    BY <1>4 DEF At
  <2>2. Cardinality(A \ {t}) = Cardinality(A) - 1
    BY <1>1, <2>1, FS_RemoveElement
  <2> QED BY <2>1, <2>2 DEF NumAt
<1> QED BY <1>2, <1>3, <1>4

OnTheWay == {"d_lock", "d_take"}

Balance == Len(job_queue) = job_queue_count + NumAt(pc, OnTheWay)
                                            + NumAt(pc, {"e_post"})

(* Balance is SemMatchesQueue in terms of NumAt. *)
LEMMA BalanceIsMatch == SemMatchesQueue <=> Balance
BY DEF SemMatchesQueue, Balance, Admitted, Unposted, NumAt, At, OnTheWay

(* The counts are natural numbers. *)
LEMMA Counts == NumAt(pc, OnTheWay) \in Nat /\ NumAt(pc, {"e_post"}) \in Nat
BY AtFinite

(* The steps that leave list, semaphore and both counts alone. *)
LEMMA BalanceKept ==
    ASSUME Typed, Balance, NEW t \in Tid, NEW c \in PC,
           pc' = [pc EXCEPT ![t] = c],
           UNCHANGED <<job_queue, job_queue_count>>,
           c \in OnTheWay <=> pc[t] \in OnTheWay,
           c = "e_post" <=> pc[t] = "e_post"
    PROVE  Balance'
<1>1. pc \in [Tid -> PC]
    BY DEF Typed, TypeOK
<1>2. NumAt(pc', OnTheWay) = NumAt(pc, OnTheWay)
    BY <1>1, NumAtMove
<1>3. c \in {"e_post"} <=> pc[t] \in {"e_post"}
    OBVIOUS
<1>4. NumAt(pc', {"e_post"}) = NumAt(pc, {"e_post"})
    BY <1>1, <1>3, NumAtMove
<1> QED BY <1>2, <1>4 DEF Balance

(* Starting a thread, or joining one, is not a move of a job. *)
LEMMA MainBalance ==
    ASSUME Typed, Balance, Main PROVE Balance'
<1> USE DEF jobVars, threadVars
<1>1. CASE MainCreate
  <2>1. count \in Tid /\ pc[count] = "unborn"
    BY <1>1 DEF MainCreate, Typed, TypeOK, UnbornYet, Tid
  <2>2. PICK p \in {"d_wait", "e_lock", "failed"} : pc' = [pc EXCEPT ![count] = p]
    BY <1>1 DEF MainCreate
  <2> QED BY <1>1, <2>1, <2>2, BalanceKept DEF MainCreate, PC, OnTheWay
<1>2. CASE UNCHANGED threadVars
    BY <1>2 DEF Balance
<1> QED BY <1>1, <1>2 DEF Main, MainCreated, MainJoin, MainJoinGarbage, Die,
                          MainReturn

(* An enqueuer links a job before it posts the semaphore. *)
LEMMA EnqueueBalance ==
    ASSUME Typed, Balance, NEW t \in Tid, Enqueue(t) PROVE Balance'
<1> USE DEF jobVars, threadVars, Goto
<1>1. pc \in [Tid -> PC] /\ job_queue \in Seq(Tid) /\ job_queue_count \in Nat
    BY DEF Typed, TypeOK
<1>2. CASE EnqPush(t)
  <2>1. pc[t] = "e_push" /\ pc' = [pc EXCEPT ![t] = "e_post"] /\ "e_post" \in PC
    BY <1>2 DEF EnqPush, PC
  <2>2. "e_post" \notin OnTheWay /\ pc[t] \notin OnTheWay
    BY <2>1 DEF OnTheWay
  <2>3. /\ NumAt(pc', OnTheWay) = NumAt(pc, OnTheWay)
        /\ NumAt(pc', {"e_post"}) = NumAt(pc, {"e_post"}) + 1
    BY <1>1, <2>1, <2>2, NumAtMove
  <2>4. new_job[t] \in Tid
    BY <2>1 DEF Typed, TypeOK
  <2>5. Len(job_queue') = Len(job_queue) + 1
    BY <1>1, <1>2, <2>4 DEF EnqPush
  <2> QED BY <1>1, <1>2, <2>3, <2>5, Counts DEF EnqPush, Balance
<1>3. CASE EnqPost(t)
  <2>1. pc[t] = "e_post" /\ pc' = [pc EXCEPT ![t] = "e_unlock"] /\ "e_unlock" \in PC
    BY <1>3 DEF EnqPost, PC
  <2>2. "e_unlock" \notin OnTheWay /\ pc[t] \notin OnTheWay
    BY <2>1 DEF OnTheWay
  <2>3. /\ NumAt(pc', OnTheWay) = NumAt(pc, OnTheWay)
        /\ NumAt(pc', {"e_post"}) = NumAt(pc, {"e_post"}) - 1
    BY <1>1, <2>1, <2>2, NumAtMove
  <2> QED BY <1>1, <1>3, <2>3, Counts DEF EnqPost, Balance
<1>4. CASE UNCHANGED threadVars
    BY <1>4 DEF Balance
<1>5. ASSUME NEW c \in {"e_calloc", "e_push", "e_print", "done"},
             pc[t] \in {"e_lock", "e_calloc", "e_unlock", "e_print"},
             pc' = [pc EXCEPT ![t] = c],
             UNCHANGED <<job_queue, job_queue_count>>
      PROVE  Balance'
    BY <1>5, BalanceKept DEF PC, OnTheWay
<1> QED BY <1>2, <1>3, <1>4, <1>5
        DEF Enqueue, EnqLock, Lock, EnqCalloc, EnqCallocNull, Die, EnqUnlock,
            Unlock, EnqPrint, EnqPrintFault

(* A dequeuer takes from the semaphore before it unlinks a job. *)
LEMMA DequeueBalance ==
    ASSUME Typed, Balance, NEW t \in Tid, Dequeue(t) PROVE Balance'
<1> USE DEF jobVars, threadVars, Goto
<1>1. pc \in [Tid -> PC] /\ job_queue \in Seq(Tid) /\ job_queue_count \in Nat
    BY DEF Typed, TypeOK
<1>2. CASE DeqSemWait(t)
  <2>1. pc[t] = "d_wait" /\ pc' = [pc EXCEPT ![t] = "d_lock"] /\ "d_lock" \in PC
    BY <1>2 DEF DeqSemWait, PC
  <2>2. /\ "d_lock" \in OnTheWay /\ pc[t] \notin OnTheWay
        /\ "d_lock" \notin {"e_post"} /\ pc[t] \notin {"e_post"}
    BY <2>1 DEF OnTheWay
  <2>3. /\ NumAt(pc', OnTheWay) = NumAt(pc, OnTheWay) + 1
        /\ NumAt(pc', {"e_post"}) = NumAt(pc, {"e_post"})
    BY <1>1, <2>1, <2>2, NumAtMove
  <2> QED BY <1>1, <1>2, <2>3, Counts DEF DeqSemWait, Balance
<1>3. CASE DeqTake(t) /\ job_queue # <<>>
  <2>1. pc[t] = "d_take" /\ pc' = [pc EXCEPT ![t] = "d_unlock"] /\ "d_unlock" \in PC
    BY <1>3 DEF DeqTake, PC
  <2>2. /\ "d_unlock" \notin OnTheWay /\ pc[t] \in OnTheWay
        /\ "d_unlock" \notin {"e_post"} /\ pc[t] \notin {"e_post"}
    BY <2>1 DEF OnTheWay
  <2>3. /\ NumAt(pc', OnTheWay) = NumAt(pc, OnTheWay) - 1
        /\ NumAt(pc', {"e_post"}) = NumAt(pc, {"e_post"})
    BY <1>1, <2>1, <2>2, NumAtMove
  <2>4. Len(job_queue') = Len(job_queue) - 1
    BY <1>1, <1>3, Unlinked DEF DeqTake
  <2>5. UNCHANGED job_queue_count
    BY <1>3 DEF DeqTake
  <2> QED BY <1>1, <2>3, <2>4, <2>5, Counts DEF Balance
<1>4. CASE UNCHANGED threadVars
    BY <1>4 DEF Balance
<1>5. ASSUME NEW c \in {"d_print", "done"}, pc[t] \in {"d_unlock", "d_print"},
             pc' = [pc EXCEPT ![t] = c],
             UNCHANGED <<job_queue, job_queue_count>>
      PROVE  Balance'
    BY <1>5, BalanceKept DEF PC, OnTheWay
<1>6. CASE DeqLock(t)
    BY <1>6, BalanceKept DEF DeqLock, Lock, PC, OnTheWay
<1> QED BY <1>2, <1>3, <1>4, <1>5, <1>6
        DEF Dequeue, DeqTake, Die, DeqUnlock, Unlock, DeqPrint

(* The semaphore and the jobs promised or not yet posted always add up to    *)
(* the length of the list, with any number of threads.                       *)
THEOREM SemAgrees == Spec => []SemMatchesQueue
<1>1. Init => Balance
  <2>1. ASSUME Init, NEW P \in {OnTheWay, {"e_post"}} PROVE NumAt(pc, P) = 0
    <3>1. At(pc, P) = {}
        BY <2>1 DEF Init, InitButSem, At, OnTheWay
    <3> QED BY <3>1, FS_EmptySet DEF NumAt
  <2> QED BY <2>1 DEF Init, InitButSem, Balance
<1>2. Typed /\ Balance /\ [Next]_vars => Balance'
  <2> SUFFICES ASSUME Typed, Balance, [Next]_vars PROVE Balance'
    OBVIOUS
  <2>1. CASE UNCHANGED vars
    BY <2>1 DEF vars, threadVars, jobVars, Balance
  <2>2. CASE Main
    BY <2>2, MainBalance
  <2>3. ASSUME NEW t \in Tid, Thread(t) PROVE Balance'
    BY <2>3, EnqueueBalance, DequeueBalance DEF Thread
  <2> QED BY <2>1, <2>2, <2>3 DEF Next, Gone
<1> QED BY InitTyped, NextTyped, <1>1, <1>2, BalanceIsMatch, PTL DEF Spec

(* job_queue->next is never read through a null job_queue: a dequeuer past   *)
(* sem_wait finds a job whatever the other threads did in between.           *)
THEOREM TakeIsSafe == Spec => []TakeFindsJob
<1>1. TypeOK /\ SemMatchesQueue => TakeFindsJob
  <2> SUFFICES ASSUME TypeOK, SemMatchesQueue, NEW t \in Tid, pc[t] = "d_take",
                      job_queue = <<>>
               PROVE  FALSE
    BY DEF TakeFindsJob
  <2>1. Balance
    BY BalanceIsMatch
  <2>2. t \in At(pc, OnTheWay)
    BY DEF At, OnTheWay
  <2>3. NumAt(pc, OnTheWay) # 0
    BY <2>2, AtFinite, FS_EmptySet DEF NumAt
  <2> QED BY <2>1, <2>3, Counts DEF Balance, TypeOK
<1> QED BY <1>1, TypeCorrect, SemAgrees, PTL
-----------------------------------------------------------------------------
(* The job pool *)

(* Jobs are linked once and by their enqueuers only, and the pointers of a   *)
(* thread are null up to the statement that assigns them.                    *)
PoolInv ==
    /\ NoRepeat(job_queue)
    /\ Queued \subseteq Pushed
    /\ \A t \in Tid :
          /\ pc[t] \in {"unborn", "d_wait", "d_lock", "d_take", "d_unlock",
                        "d_print"} => new_job[t] = NULL
          /\ pc[t] \in {"unborn", "d_wait", "d_lock", "d_take"}
                => next_job[t] = NULL

(* Linking a job puts it into the pool. *)
LEMMA PushPuts ==
    ASSUME Typed, PoolInv, NEW t \in Tid, EnqPush(t)
    PROVE  PoolInv' /\ Pool!Put(t)
<1>1. /\ pc[t] = "e_push" /\ new_job[t] = t /\ pc \in [Tid -> PC]
      /\ pc' = [pc EXCEPT ![t] = "e_post"]
      /\ job_queue \in Seq(Tid) /\ job_queue' = Append(job_queue, t)
      /\ UNCHANGED <<new_job, next_job>>
    BY DEF Typed, TypeOK, EnqPush, Goto
<1>2. t # NULL
    BY DEF Tid
<1>3. t \notin Pushed /\ Pushed' = Pushed \cup {t}
    BY <1>1, <1>2 DEF Pushed
<1>4. Queued = Elems(job_queue) /\ Queued' = Elems(job_queue')
    BY DEF Queued, Elems
<1>5. t \notin Elems(job_queue) /\ NoRepeat(job_queue)
    BY <1>3, <1>4 DEF PoolInv
<1>6. Queued' = Queued \cup {t} /\ NoRepeat(job_queue')
    BY <1>1, <1>4, <1>5, LinkOne
<1>7. \A u \in Tid : u # t => pc'[u] = pc[u]
    BY <1>1
<1>8. PoolInv'
    BY <1>1, <1>3, <1>6, <1>7 DEF PoolInv
<1> QED BY <1>1, <1>3, <1>6, <1>8 DEF Pool!Put

(* Unlinking the head takes one pending job from the pool. *)
LEMMA TakeTakes ==
    ASSUME Typed, PoolInv, NEW t \in Tid, DeqTake(t), job_queue # <<>>
    PROVE  PoolInv' /\ Pool!Take(t)
<1> DEFINE job == job_queue[Len(job_queue)]
<1>1. /\ pc[t] = "d_take" /\ pc \in [Tid -> PC]
      /\ pc' = [pc EXCEPT ![t] = "d_unlock"]
      /\ next_job' = [next_job EXCEPT ![t] = job]
      /\ next_job \in [Tid -> PtrOrNull]
      /\ job_queue \in Seq(Tid)
      /\ job_queue' = SubSeq(job_queue, 1, Len(job_queue) - 1)
      /\ UNCHANGED new_job
    BY DEF Typed, TypeOK, DeqTake, Goto
<1>2. Queued = Elems(job_queue) /\ Queued' = Elems(job_queue')
    BY DEF Queued, Elems
<1>3. Queued' = Queued \ {job} /\ NoRepeat(job_queue') /\ job \in Queued
    BY <1>1, <1>2, UnlinkOne DEF PoolInv
<1> HIDE DEF job
<1>4. Pushed' = Pushed
    BY <1>1 DEF Pushed
<1>5. \A u \in Tid : u # t => pc'[u] = pc[u] /\ next_job'[u] = next_job[u]
    BY <1>1
<1>6. pc'[t] = "d_unlock" /\ new_job'[t] = NULL
    BY <1>1 DEF PoolInv
<1>7. PoolInv'
    BY <1>1, <1>3, <1>4, <1>5, <1>6 DEF PoolInv
<1>8. next_job[t] = NULL
    BY <1>1 DEF PoolInv
<1> QED BY <1>1, <1>3, <1>4, <1>7, <1>8 DEF Pool!Take

(* No other step of a thread links, unlinks or hands out a job. *)
LEMMA OthersStutter ==
    ASSUME Typed, PoolInv, NEW t \in Tid, NEW c \in PC,
           pc' = [pc EXCEPT ![t] = c],
           UNCHANGED <<job_queue, next_job>>,
           \/ /\ UNCHANGED new_job
              /\ \/ pc[t] = "unborn" /\ c \in {"d_wait", "e_lock", "failed"}
                 \/ pc[t] = "d_wait" /\ c = "d_lock"
                 \/ pc[t] = "d_lock" /\ c = "d_take"
                 \/ pc[t] = "d_unlock" /\ c = "d_print"
                 \/ pc[t] = "d_print" /\ c = "done"
                 \/ pc[t] = "e_lock" /\ c = "e_calloc"
                 \/ pc[t] = "e_post" /\ c = "e_unlock"
                 \/ pc[t] = "e_unlock" /\ c = "e_print"
                 \/ pc[t] = "e_print" /\ c = "done"
           \/ /\ new_job' = [new_job EXCEPT ![t] = t]
              /\ pc[t] = "e_calloc" /\ c = "e_push"
    PROVE  PoolInv' /\ UNCHANGED <<Pushed, Queued, next_job>>
<1>1. pc \in [Tid -> PC] /\ new_job \in [Tid -> PtrOrNull]
    BY DEF Typed, TypeOK
<1>2. Pushed' = Pushed
    BY <1>1 DEF Pushed, PoolInv
<1>3. Queued' = Queued
    BY DEF Queued
<1>4. \A u \in Tid : u # t => pc'[u] = pc[u] /\ new_job'[u] = new_job[u]
    BY <1>1
<1>5. pc'[t] = c
    BY <1>1
<1>6. PoolInv'
    BY <1>2, <1>3, <1>4, <1>5 DEF PoolInv
<1> QED BY <1>2, <1>3, <1>6

(* Every step keeps PoolInv and is a step of the pool or a stutter. *)
LEMMA NextPool ==
    Typed /\ PoolInv /\ [Next]_vars => PoolInv' /\ [Pool!PoolNext]_(Pool!poolVars)
<1> SUFFICES ASSUME Typed, PoolInv, [Next]_vars
             PROVE  /\ PoolInv'
                    /\ Pool!PoolNext \/ UNCHANGED <<Pushed, Queued, next_job>>
    BY DEF Pool!poolVars
<1> USE DEF jobVars, threadVars, Goto
<1>1. CASE UNCHANGED threadVars
  <2>1. UNCHANGED <<Pushed, Queued, next_job>>
    BY <1>1 DEF Pushed, Queued
  <2> QED BY <1>1, <2>1 DEF PoolInv
<1>2. CASE MainCreate
  <2>1. count \in Tid /\ pc[count] = "unborn"
    BY <1>2 DEF MainCreate, Typed, TypeOK, UnbornYet, Tid
  <2>2. PICK p \in {"d_wait", "e_lock", "failed"} : pc' = [pc EXCEPT ![count] = p]
    BY <1>2 DEF MainCreate
  <2> QED BY <1>2, <2>1, <2>2, OthersStutter DEF MainCreate, PC
<1>3. CASE Main
    BY <1>1, <1>2, <1>3 DEF Main, MainCreated, MainJoin, MainJoinGarbage, Die,
                            MainReturn
<1>4. ASSUME NEW t \in Tid, Enqueue(t)
      PROVE  /\ PoolInv'
             /\ Pool!PoolNext \/ UNCHANGED <<Pushed, Queued, next_job>>
  <2>1. CASE EnqPush(t)
    BY <2>1, PushPuts DEF Pool!PoolNext
  <2>2. CASE EnqLock(t)
    BY <2>2, OthersStutter DEF EnqLock, Lock, PC
  <2>3. CASE EnqCalloc(t)
    BY <2>3, OthersStutter DEF EnqCalloc, PC
  <2>4. CASE EnqPost(t)
    BY <2>4, OthersStutter DEF EnqPost, PC
  <2>5. CASE EnqUnlock(t)
    BY <2>5, OthersStutter DEF EnqUnlock, Unlock, PC
  <2>6. CASE EnqPrint(t)
    BY <2>6, OthersStutter DEF EnqPrint, PC
  <2> QED BY <1>1, <1>4, <2>1, <2>2, <2>3, <2>4, <2>5, <2>6
          DEF Enqueue, EnqCallocNull, EnqPrintFault, Die
<1>5. ASSUME NEW t \in Tid, Dequeue(t)
      PROVE  /\ PoolInv'
             /\ Pool!PoolNext \/ UNCHANGED <<Pushed, Queued, next_job>>
  <2>1. CASE DeqTake(t) /\ job_queue # <<>>
    BY <2>1, TakeTakes DEF Pool!PoolNext
  <2>2. CASE DeqTake(t) /\ job_queue = <<>>
    BY <1>1, <2>2 DEF DeqTake, Die
  <2>3. CASE DeqSemWait(t)
    BY <2>3, OthersStutter DEF DeqSemWait, PC
  <2>4. CASE DeqLock(t)
    BY <2>4, OthersStutter DEF DeqLock, Lock, PC
  <2>5. CASE DeqUnlock(t)
    BY <2>5, OthersStutter DEF DeqUnlock, Unlock, PC
  <2>6. CASE DeqPrint(t)
    BY <2>6, OthersStutter DEF DeqPrint, PC
  <2> QED BY <1>5, <2>1, <2>2, <2>3, <2>4, <2>5, <2>6 DEF Dequeue
<1> QED BY <1>1, <1>3, <1>4, <1>5 DEF Next, Thread, Gone, vars

(* prog_sem.c implements the abstract job pool with any number of threads: a *)
(* job that was put is handed to one dequeuer at most, and a dequeuer is     *)
(* handed only jobs that were put and not taken.                             *)
THEOREM PoolRefined == Spec => PoolSpec
<1>1. Init => PoolInv /\ Pool!PoolInit
    BY DEF Init, InitButSem, PoolInv, NoRepeat, Queued, Pushed, Pool!PoolInit
<1> QED BY <1>1, InitTyped, NextTyped, NextPool, PTL
        DEF Spec, PoolSpec, Pool!PoolSpec
=============================================================================
