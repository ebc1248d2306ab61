------------------------- MODULE CondVQueue_proofs -------------------------
(***************************************************************************)
(* Proofs about prog_condV.c for every MAX_THREAD_COUNT, every -t and any  *)
(* number of spurious wake-ups: TypeOK with the ownership of both mutexes, *)
(* the exact drift of job_queue_count, that no wake-up is lost, and that   *)
(* the program implements the abstract job pool.                           *)
(*                                                                         *)
(* TypeOK is not inductive alone: MainCreate must find the thread it       *)
(* starts unborn, or it would take it out of its critical section.         *)
(***************************************************************************)
EXTENDS CondVQueue, Lemmas, FiniteSetTheorems, TLAPS

(* main has not started the threads from index count on. *)
UnbornYet == mpc \in {"getopt", "rand", "create"}
                => \A t \in Tid : t >= count => pc[t] = "unborn"

Typed == TypeOK /\ UnbornYet

USE CondVAssumption

(* Initially nothing runs and nothing is linked. *)
LEMMA InitTyped == Init => Typed
BY DEF Init, Typed, TypeOK, UnbornYet, Tid, PtrOrNull, PC, EnqPC, DeqPC, Mutex,
       CountHeld, QueueHeld

(* main starts a thread only once, at the entry of its callback. *)
LEMMA Created ==
    ASSUME Typed, MainCreate
    PROVE  /\ count \in Tid /\ pc[count] = "unborn"
           /\ \E p \in {"d_lockc", "e_calloc", "failed"} :
                 pc' = [pc EXCEPT ![count] = p]
           /\ count' = count + 1
           /\ UNCHANGED <<mpc, max_thr_count, init_thr_count, jobVars, owner,
                          waiting, crash, spurious>>
BY DEF MainCreate, Typed, TypeOK, UnbornYet, Tid

(* One step of main keeps the types. *)
LEMMA MainTyped ==
    ASSUME Typed, Main PROVE Typed'
<1> USE DEF Typed, TypeOK, UnbornYet, jobVars, threadVars, mainVars
<1>1. CASE MainCreate
  <2>1. PICK p \in {"d_lockc", "e_calloc", "failed"} : pc' = [pc EXCEPT ![count] = p]
    BY <1>1, Created
  <2>2. p \in PC /\ p \notin CountHeld /\ p \notin QueueHeld /\ p # "d_wait"
        /\ "unborn" \notin CountHeld /\ "unborn" \notin QueueHeld
    BY DEF PC, EnqPC, DeqPC, CountHeld, QueueHeld
  <2>3. \A u \in Tid : u # count => pc'[u] = pc[u]
    BY <2>1
  <2>4. pc' \in [Tid -> PC] /\ pc'[count] = p
    BY <1>1, <2>1, <2>2, Created
  <2>5. UnbornYet'
    BY <1>1, <2>3, Created DEF Tid
  <2>6. waiting' \subseteq {t \in Tid : pc'[t] = "d_wait"}
    BY <1>1, <2>3, Created
  <2> QED BY <1>1, <2>2, <2>3, <2>4, <2>5, <2>6, Created
<1>2. CASE MainGetopt
    BY <1>2 DEF MainGetopt
<1>3. CASE MainRand
  <2>1. init_thr_count' \in Nat
    BY <1>3 DEF MainRand, InitThrChoices
  <2> QED BY <1>3, <2>1 DEF MainRand
<1>4. CASE MainRandByZero
    BY <1>4 DEF MainRandByZero, Die
<1>5. CASE MainCreateOverflow
    BY <1>5 DEF MainCreateOverflow, Die
<1>6. CASE MainCreated
    BY <1>6 DEF MainCreated
<1>7. CASE MainJoin
    BY <1>7 DEF MainJoin
<1>8. CASE MainJoinGarbage
    BY <1>8 DEF MainJoinGarbage, Die
<1>9. CASE MainReturn
    BY <1>9 DEF MainReturn
<1> QED BY <1>1, <1>2, <1>3, <1>4, <1>5, <1>6, <1>7, <1>8, <1>9 DEF Main

(* Taking a mutex that nobody owns keeps the types, if it is the one that    *)
(* the two control points differ by.                                         *)
LEMMA LockTyped ==
    ASSUME Typed, NEW t \in Tid, NEW m \in Mutex, NEW from, NEW to \in PC,
           Lock(t, m, from, to), t \notin waiting,
           from # "unborn",
           from \notin CountHeld \/ m = "queue", from \notin QueueHeld \/ m = "count",
           to \in CountHeld <=> (m = "count" \/ from \in CountHeld),
           to \in QueueHeld <=> (m = "queue" \/ from \in QueueHeld)
    PROVE  Typed'
<1> USE DEF Typed, TypeOK, UnbornYet, Lock, Goto, Mutex, jobVars, procVars, mainVars
<1>1. \A u \in Tid : u # NULL
    BY DEF Tid
<1>2. CASE m = "count"
    BY <1>1, <1>2 DEF PtrOrNull
<1>3. CASE m = "queue"
    BY <1>1, <1>3 DEF PtrOrNull
<1> QED BY <1>2, <1>3

(* Giving up the mutex that the two control points differ by. *)
LEMMA UnlockTyped ==
    ASSUME Typed, NEW t \in Tid, NEW m \in Mutex, NEW from, NEW to \in PC,
           Unlock(t, m, from, to),
           from # "unborn", from # "d_wait",
           m = "count" => from \in CountHeld, m = "queue" => from \in QueueHeld,
           to \in CountHeld <=> (m # "count" /\ from \in CountHeld),
           to \in QueueHeld <=> (m # "queue" /\ from \in QueueHeld)
    PROVE  Typed'
<1> USE DEF Typed, TypeOK, UnbornYet, Unlock, Goto, Mutex, jobVars, procVars, mainVars
<1>1. \A u \in Tid : u # NULL
    BY DEF Tid
<1>2. CASE m = "count"
    BY <1>1, <1>2 DEF PtrOrNull
<1>3. CASE m = "queue"
    BY <1>1, <1>3 DEF PtrOrNull
<1> QED BY <1>2, <1>3

(* The steps that take and give up no mutex. *)
LEMMA StepTyped ==
    ASSUME Typed, NEW t \in Tid, NEW from, NEW to \in PC, Goto(t, from, to),
           from # "unborn",
           to \in CountHeld <=> from \in CountHeld,
           to \in QueueHeld <=> from \in QueueHeld,
           UNCHANGED <<procVars, owner>>,
           waiting' \subseteq waiting \ {t},
           new_job' \in [Tid -> PtrOrNull],
           next_job' \in [Tid -> PtrOrNull],
           job_queue' \in Seq(Tid),
           job_queue_count' \in Nat,
           freed' \subseteq Tid
    PROVE  Typed'
<1>1. pc \in [Tid -> PC] /\ pc' = [pc EXCEPT ![t] = to] /\ pc[t] = from
    BY DEF Typed, TypeOK, Goto
<1>2. pc' \in [Tid -> PC]
    BY <1>1
<1>3. waiting' \subseteq {u \in Tid : pc'[u] = "d_wait"}
    BY <1>1 DEF Typed, TypeOK
<1>4. /\ \A u \in Tid : (pc'[u] \in CountHeld) <=> (owner'["count"] = u)
      /\ \A u \in Tid : (pc'[u] \in QueueHeld) <=> (owner'["queue"] = u)
  <2>1. /\ \A u \in Tid : (pc[u] \in CountHeld) <=> (owner["count"] = u)
        /\ \A u \in Tid : (pc[u] \in QueueHeld) <=> (owner["queue"] = u)
    BY DEF Typed, TypeOK
  <2>2. \A u \in Tid \ {t} : pc'[u] = pc[u]
    BY <1>1
  <2>3. pc'[t] = to
    BY <1>1
  <2>4. owner'["count"] = owner["count"] /\ owner'["queue"] = owner["queue"]
    OBVIOUS
  <2>5. ASSUME NEW u \in Tid \ {t}
        PROVE  /\ (pc'[u] \in CountHeld) <=> (owner'["count"] = u)
               /\ (pc'[u] \in QueueHeld) <=> (owner'["queue"] = u)
    BY <2>1, <2>2, <2>4
  <2>6. (to \in CountHeld <=> owner'["count"] = t) /\ (to \in QueueHeld <=> owner'["queue"] = t)
    BY <1>1, <2>1, <2>4
  <2> QED BY <2>3, <2>5, <2>6
<1>5. UNCHANGED <<mpc, max_thr_count, init_thr_count, count, crash, spurious, owner>>
    BY DEF procVars, mainVars
<1>6. TypeOK'
    BY <1>2, <1>3, <1>4, <1>5 DEF Typed, TypeOK
<1>7. UnbornYet'
    BY <1>1, <1>5 DEF Typed, UnbornYet
<1> QED BY <1>6, <1>7 DEF Typed

(* Dying changes nothing but crash. *)
LEMMA DieTyped ==
    ASSUME Typed, NEW how \in {"fpe", "overflow", "null", "uaf", "join"}, Die(how)
    PROVE  Typed'
BY DEF Typed, TypeOK, UnbornYet, Die, jobVars, threadVars, mainVars

(* One step of an enqueuer keeps the types. *)
LEMMA EnqueueTyped ==
    ASSUME Typed, NEW t \in Tid, Enqueue(t) PROVE Typed'
<1> USE DEF PC, EnqPC, DeqPC, Mutex, CountHeld, QueueHeld
<1>1. /\ new_job \in [Tid -> PtrOrNull] /\ next_job \in [Tid -> PtrOrNull]
      /\ job_queue \in Seq(Tid) /\ job_queue_count \in Nat /\ freed \subseteq Tid
      /\ \A u \in waiting : pc[u] = "d_wait"
    BY DEF Typed, TypeOK
<1>2. CASE EnqCalloc(t)
  <2>1. new_job' \in [Tid -> PtrOrNull]
    BY <1>1, <1>2 DEF EnqCalloc, PtrOrNull
  <2>2. Goto(t, "e_calloc", "e_lockq") /\ waiting' \subseteq waiting \ {t}
    BY <1>1, <1>2 DEF EnqCalloc, Goto
  <2> QED BY <1>1, <1>2, <2>1, <2>2, StepTyped DEF EnqCalloc
<1>3. CASE EnqLockQueue(t)
  <2>1. Lock(t, "queue", "e_lockq", "e_lockc") /\ t \notin waiting
    BY <1>1, <1>3 DEF EnqLockQueue, Lock, Goto
  <2> QED BY <2>1, LockTyped
<1>4. CASE EnqLockCount(t)
  <2>1. Lock(t, "count", "e_lockc", "e_push") /\ t \notin waiting
    BY <1>1, <1>4 DEF EnqLockCount, Lock, Goto
  <2> QED BY <2>1, LockTyped
<1>5. CASE EnqPush(t)
  <2>1. Goto(t, "e_push", "e_unlockc") /\ waiting' \subseteq waiting \ {t}
    BY <1>1, <1>5 DEF EnqPush, LinkAndCount, Signal, Goto
  <2>2. job_queue' \in Seq(Tid)
    <3>1. CASE new_job[t] = NULL
      BY <1>1, <1>5, <3>1 DEF EnqPush, LinkAndCount
    <3>2. CASE new_job[t] # NULL
      <4>1. new_job[t] \in Tid
        BY <1>1, <3>2 DEF PtrOrNull
      <4>2. job_queue' = Append(job_queue, new_job[t])
        BY <1>5, <3>2 DEF EnqPush, LinkAndCount
      <4> QED BY <1>1, <4>1, <4>2
    <3> QED BY <3>1, <3>2
  <2> QED BY <1>1, <1>5, <2>1, <2>2, StepTyped DEF EnqPush, LinkAndCount
<1>6. CASE EnqPushNull(t)
    BY <1>6, DieTyped DEF EnqPushNull
<1>7. CASE EnqUnlockCount(t)
    BY <1>7, UnlockTyped DEF EnqUnlockCount
<1>8. CASE EnqUnlockQueue(t)
    BY <1>8, UnlockTyped DEF EnqUnlockQueue
<1>9. CASE EnqPrint(t)
  <2>1. Goto(t, "e_print", "done") /\ waiting' \subseteq waiting \ {t}
    BY <1>1, <1>9 DEF EnqPrint, Goto
  <2> QED BY <1>1, <1>9, <2>1, StepTyped DEF EnqPrint, jobVars
<1>10. CASE EnqPrintFault(t)
    BY <1>10, DieTyped DEF EnqPrintFault
<1> QED BY <1>2, <1>3, <1>4, <1>5, <1>6, <1>7, <1>8, <1>9, <1>10 DEF Enqueue

(* One step of a dequeuer keeps the types; pthread_cond_wait gives up the    *)
(* mutex of the counter and takes it again.                                  *)
LEMMA DequeueTyped ==
    ASSUME Typed, NEW t \in Tid, Dequeue(t) PROVE Typed'
<1> USE DEF PC, EnqPC, DeqPC, Mutex, CountHeld, QueueHeld
<1>1. /\ new_job \in [Tid -> PtrOrNull] /\ next_job \in [Tid -> PtrOrNull]
      /\ job_queue \in Seq(Tid) /\ job_queue_count \in Nat /\ freed \subseteq Tid
      /\ \A u \in waiting : pc[u] = "d_wait"
    BY DEF Typed, TypeOK
<1>2. CASE DeqLockCount(t)
  <2>1. Lock(t, "count", "d_lockc", "d_test") /\ t \notin waiting
    BY <1>1, <1>2 DEF DeqLockCount, Lock, Goto
  <2> QED BY <2>1, LockTyped
<1>3. CASE DeqWait(t)
  <2>1. \A u \in Tid : u # NULL
    BY DEF Tid
  <2> QED BY <1>3, <2>1 DEF DeqWait, Goto, Typed, TypeOK, UnbornYet, PtrOrNull,
                            jobVars, procVars, mainVars
<1>4. CASE DeqWake(t)
  <2>1. Lock(t, "count", "d_wait", "d_test") /\ t \notin waiting
    BY <1>4 DEF DeqWake
  <2> QED BY <2>1, LockTyped
<1>5. CASE DeqSeen(t)
  <2>1. Goto(t, "d_test", "d_unlockc") /\ waiting' \subseteq waiting \ {t}
    BY <1>1, <1>5 DEF DeqSeen, Goto
  <2> QED BY <1>1, <1>5, <2>1, StepTyped DEF DeqSeen, jobVars
<1>6. CASE DeqUnlockCount(t)
    BY <1>6, UnlockTyped DEF DeqUnlockCount
<1>7. CASE DeqLockQueue(t)
  <2>1. Lock(t, "queue", "d_lockq", "d_lockc2") /\ t \notin waiting
    BY <1>1, <1>7 DEF DeqLockQueue, Lock, Goto
  <2> QED BY <2>1, LockTyped
<1>8. CASE DeqRelockCount(t)
  <2>1. Lock(t, "count", "d_lockc2", "d_take") /\ t \notin waiting
    BY <1>1, <1>8 DEF DeqRelockCount, Lock, Goto
  <2> QED BY <2>1, LockTyped
<1>9. CASE DeqTake(t)
  <2>1. Goto(t, "d_take", "d_unlockc2") /\ waiting' \subseteq waiting \ {t}
    BY <1>1, <1>9 DEF DeqTake, Goto
  <2>2. /\ SubSeq(job_queue, 1, Len(job_queue) - 1) \in Seq(Tid)
        /\ job_queue[Len(job_queue)] \in Tid
    BY <1>1, <1>9, Unlinked DEF DeqTake
  <2>3. job_queue' \in Seq(Tid) /\ next_job' \in [Tid -> PtrOrNull]
        /\ job_queue_count' \in Nat
    BY <1>1, <1>9, <2>2 DEF DeqTake, PtrOrNull
  <2> QED BY <1>1, <1>9, <2>1, <2>3, StepTyped DEF DeqTake
<1>10. CASE DeqTakeNothing(t)
  <2>1. Goto(t, "d_take", "d_unlockc2") /\ waiting' \subseteq waiting \ {t}
    BY <1>1, <1>10 DEF DeqTakeNothing, Goto
  <2> QED BY <1>1, <1>10, <2>1, StepTyped DEF DeqTakeNothing, jobVars
<1>11. CASE DeqUnlockCount2(t)
    BY <1>11, UnlockTyped DEF DeqUnlockCount2
<1>12. CASE DeqUnlockQueue(t)
    BY <1>12, UnlockTyped DEF DeqUnlockQueue
<1>13. CASE DeqPrint(t)
  <2>1. Goto(t, "d_print", "done") /\ waiting' \subseteq waiting \ {t}
    BY <1>1, <1>13 DEF DeqPrint, Goto
  <2>2. freed' \subseteq Tid
    BY <1>1, <1>13 DEF DeqPrint, PtrOrNull
  <2> QED BY <1>1, <1>13, <2>1, <2>2, StepTyped DEF DeqPrint
<1>14. CASE DeqTakeNull(t) \/ DeqPrintNull(t)
    BY <1>14, DieTyped DEF DeqTakeNull, DeqPrintNull
<1> QED BY <1>2, <1>3, <1>4, <1>5, <1>6, <1>7, <1>8, <1>9, <1>10, <1>11, <1>12,
           <1>13, <1>14 DEF Dequeue

(* Typed is inductive. *)
LEMMA NextTyped == Typed /\ [Next]_vars => Typed'
<1> SUFFICES ASSUME Typed, [Next]_vars PROVE Typed'
    OBVIOUS
<1>1. CASE UNCHANGED vars
    BY <1>1 DEF vars, mainVars, jobVars, Typed, TypeOK, UnbornYet
<1>2. CASE Main
    BY <1>2, MainTyped
<1>3. ASSUME NEW t \in Tid, Thread(t) PROVE Typed'
    BY <1>3, EnqueueTyped, DequeueTyped DEF Thread
<1>4. ASSUME NEW t \in Tid, DeqSpurious(t) PROVE Typed'
    BY <1>4 DEF DeqSpurious, Typed, TypeOK, UnbornYet, mainVars, jobVars
<1> QED BY <1>1, <1>2, <1>3, <1>4 DEF Next, Gone

(* TypeOK holds of every behaviour of prog_condV.c: each of the two mutexes  *)
(* is owned by exactly the thread inside its critical section, across        *)
(* pthread_cond_wait too, and only threads inside it sleep.                  *)
THEOREM TypeCorrect == Spec => []TypeOK
<1>1. Typed => TypeOK
    BY DEF Typed
<1> QED BY InitTyped, NextTyped, <1>1, PTL DEF Spec

-----------------------------------------------------------------------------
(* The steps that matter *)

Shared == <<pc, new_job, next_job, job_queue, job_queue_count, waiting>>

(* The moves of a thread that touch neither a job, nor the counter, nor the  *)
(* condition variable.                                                       *)
Move(from, to) ==
    \/ from = "unborn" /\ to \in {"d_lockc", "e_calloc", "failed"}
    \/ from = "e_lockq" /\ to = "e_lockc"
    \/ from = "e_lockc" /\ to = "e_push"
    \/ from = "e_unlockc" /\ to = "e_unlockq"
    \/ from = "e_unlockq" /\ to = "e_print"
    \/ from = "e_print" /\ to = "done"
    \/ from = "d_lockc" /\ to = "d_test"
    \/ from = "d_wait" /\ to = "d_test"
    \/ from = "d_test" /\ to = "d_unlockc"
    \/ from = "d_unlockc" /\ to = "d_lockq"
    \/ from = "d_lockq" /\ to = "d_lockc2"
    \/ from = "d_lockc2" /\ to = "d_take"
    \/ from = "d_unlockc2" /\ to = "d_unlockq"
    \/ from = "d_unlockq" /\ to = "d_print"
    \/ from = "d_print" /\ to = "done"

Quiet(t, c) ==
    /\ pc' = [pc EXCEPT ![t] = c]
    /\ Move(pc[t], c)
    /\ pc[t] = "e_print" => new_job[t] # NULL
    /\ t \notin waiting
    /\ UNCHANGED <<new_job, next_job, job_queue, job_queue_count, waiting>>

(* The steps that do touch one of them. *)
Loud(t) == \/ EnqCalloc(t) \/ EnqPush(t) \/ DeqWait(t) \/ DeqTake(t)
           \/ DeqTakeNothing(t) \/ DeqSpurious(t)

(* Every step is of one of three kinds. *)
LEMMA StepKinds ==
    ASSUME Typed, [Next]_vars
    PROVE  \/ UNCHANGED Shared
           \/ \E t \in Tid, c \in PC : Quiet(t, c)
           \/ \E t \in Tid : Loud(t)
<1> USE DEF jobVars, mainVars, procVars, threadVars, Shared
<1>1. \A u \in Tid : pc[u] # "d_wait" => u \notin waiting
    BY DEF Typed, TypeOK
<1>2. CASE UNCHANGED vars
    BY <1>2 DEF vars
<1>3. CASE MainCreate
  <2>1. PICK p \in {"d_lockc", "e_calloc", "failed"} : pc' = [pc EXCEPT ![count] = p]
    BY <1>3, Created
  <2>2. Quiet(count, p) /\ count \in Tid
    BY <1>1, <1>3, <2>1, Created DEF Quiet, Move
  <2>3. p \in PC
    BY DEF PC, EnqPC, DeqPC
  <2> QED BY <2>2, <2>3
<1>4. CASE Main
    BY <1>3, <1>4 DEF Main, MainGetopt, MainRand, MainRandByZero, Die,
       MainCreateOverflow, MainCreated, MainJoin, MainJoinGarbage, MainReturn
<1>5. ASSUME NEW t \in Tid, Enqueue(t)
      PROVE  UNCHANGED Shared \/ (\E c \in PC : Quiet(t, c)) \/ Loud(t)
  <2>1. CASE EnqPushNull(t) \/ EnqPrintFault(t)
    BY <2>1 DEF EnqPushNull, EnqPrintFault, Die
  <2>2. CASE EnqLockQueue(t)
    BY <1>1, <2>2 DEF EnqLockQueue, Lock, Goto, Quiet, Move, PC, EnqPC
  <2>3. CASE EnqLockCount(t)
    BY <1>1, <2>3 DEF EnqLockCount, Lock, Goto, Quiet, Move, PC, EnqPC
  <2>4. CASE EnqUnlockCount(t)
    BY <1>1, <2>4 DEF EnqUnlockCount, Unlock, Goto, Quiet, Move, PC, EnqPC
  <2>5. CASE EnqUnlockQueue(t)
    BY <1>1, <2>5 DEF EnqUnlockQueue, Unlock, Goto, Quiet, Move, PC, EnqPC
  <2>6. CASE EnqPrint(t)
    BY <1>1, <2>6 DEF EnqPrint, Goto, Quiet, Move, PC
  <2> QED BY <1>5, <2>1, <2>2, <2>3, <2>4, <2>5, <2>6 DEF Enqueue, Loud
<1>6. ASSUME NEW t \in Tid, Dequeue(t)
      PROVE  UNCHANGED Shared \/ (\E c \in PC : Quiet(t, c)) \/ Loud(t)
  <2>1. CASE DeqTakeNull(t) \/ DeqPrintNull(t)
    BY <2>1 DEF DeqTakeNull, DeqPrintNull, Die
  <2>2. CASE DeqLockCount(t)
    BY <1>1, <2>2 DEF DeqLockCount, Lock, Goto, Quiet, Move, PC, DeqPC
  <2>3. CASE DeqWake(t)
    BY <2>3 DEF DeqWake, Lock, Goto, Quiet, Move, PC, DeqPC
  <2>4. CASE DeqSeen(t)
    BY <1>1, <2>4 DEF DeqSeen, Goto, Quiet, Move, PC, DeqPC
  <2>5. CASE DeqUnlockCount(t)
    BY <1>1, <2>5 DEF DeqUnlockCount, Unlock, Goto, Quiet, Move, PC, DeqPC
  <2>6. CASE DeqLockQueue(t)
    BY <1>1, <2>6 DEF DeqLockQueue, Lock, Goto, Quiet, Move, PC, DeqPC
  <2>7. CASE DeqRelockCount(t)
    BY <1>1, <2>7 DEF DeqRelockCount, Lock, Goto, Quiet, Move, PC, DeqPC
  <2>8. CASE DeqUnlockCount2(t)
    BY <1>1, <2>8 DEF DeqUnlockCount2, Unlock, Goto, Quiet, Move, PC, DeqPC
  <2>9. CASE DeqUnlockQueue(t)
    BY <1>1, <2>9 DEF DeqUnlockQueue, Unlock, Goto, Quiet, Move, PC, DeqPC
  <2>10. CASE DeqPrint(t)
    BY <1>1, <2>10 DEF DeqPrint, Goto, Quiet, Move, PC
  <2> QED BY <1>6, <2>1, <2>2, <2>3, <2>4, <2>5, <2>6, <2>7, <2>8, <2>9, <2>10
          DEF Dequeue, Loud
<1>7. ASSUME NEW t \in Tid, Thread(t) \/ DeqSpurious(t)
      PROVE  UNCHANGED Shared \/ (\E c \in PC : Quiet(t, c)) \/ Loud(t)
    BY <1>5, <1>6, <1>7 DEF Thread, Loud
<1> QED BY <1>2, <1>4, <1>7 DEF Next, Gone

-----------------------------------------------------------------------------
(* The counter *)

(* There are finitely many threads. *)
LEMMA ThreadsFinite ==
    ASSUME NEW A \in SUBSET Tid
    PROVE  IsFiniteSet(A) /\ Cardinality(A) \in Nat
<1>1. IsFiniteSet(Tid)
    BY FS_Interval DEF Tid
<1> QED BY <1>1, FS_Subset, FS_CardinalityType

(* A set of threads that one thread joins or leaves. *)
LEMMA JoinLeave ==
    ASSUME NEW A \in SUBSET Tid, NEW t \in Tid
    PROVE  /\ t \notin A => Cardinality(A \cup {t}) = Cardinality(A) + 1
           /\ t \in A => Cardinality(A \ {t}) = Cardinality(A) - 1
BY ThreadsFinite, FS_AddElement, FS_RemoveElement

(* Linking and counting go together, but for a job that is null. *)
LEMMA PushCounts ==
    ASSUME Typed, CountExact, NEW t \in Tid, EnqPush(t)
    PROVE  CountExact'
<1> USE DEF CountExact
<1>1. /\ pc \in [Tid -> PC] /\ pc[t] = "e_push"
      /\ pc' = [pc EXCEPT ![t] = "e_unlockc"]
      /\ new_job \in [Tid -> PtrOrNull] /\ UNCHANGED new_job
      /\ job_queue \in Seq(Tid)
      /\ job_queue_count' = job_queue_count + 1
    BY DEF EnqPush, LinkAndCount, Goto, Typed, TypeOK
<1>2. NullPushed \in SUBSET Tid /\ Cardinality(NullPushed) \in Nat
    BY ThreadsFinite DEF NullPushed
<1>3. CASE new_job[t] = NULL
  <2>1. NullPushed' = NullPushed \cup {t} /\ t \notin NullPushed
    BY <1>1, <1>3 DEF NullPushed
  <2>2. UNCHANGED job_queue
    BY <1>3 DEF EnqPush, LinkAndCount
  <2> QED BY <1>1, <1>2, <2>1, <2>2, JoinLeave
<1>4. CASE new_job[t] # NULL
  <2>1. NullPushed' = NullPushed
    BY <1>1, <1>4 DEF NullPushed
  <2>2. new_job[t] \in Tid
    BY <1>1, <1>4 DEF PtrOrNull
  <2>3. Len(job_queue') = Len(job_queue) + 1
    BY <1>1, <1>4, <2>2 DEF EnqPush, LinkAndCount
  <2> QED BY <1>1, <1>2, <2>1, <2>3
<1> QED BY <1>3, <1>4

(* Unlinking and counting go together. *)
LEMMA TakeCounts ==
    ASSUME Typed, CountExact, NEW t \in Tid, DeqTake(t)
    PROVE  CountExact'
<1>1. /\ pc \in [Tid -> PC] /\ pc[t] = "d_take"
      /\ pc' = [pc EXCEPT ![t] = "d_unlockc2"] /\ UNCHANGED new_job
      /\ job_queue \in Seq(Tid) /\ job_queue # <<>>
      /\ job_queue_count' = job_queue_count - 1
    BY DEF DeqTake, Goto, Typed, TypeOK
<1>2. Cardinality(NullPushed) \in Nat
    BY ThreadsFinite DEF NullPushed
<1>3. NullPushed' = NullPushed
    BY <1>1 DEF NullPushed
<1>4. Len(job_queue') = Len(job_queue) - 1 /\ Len(job_queue) \in Nat
    BY <1>1, Unlinked DEF DeqTake
<1> QED BY <1>1, <1>2, <1>3, <1>4 DEF CountExact

(* job_queue_count of prog_condV.c is always the length of the list plus the *)
(* failed allocations that were counted, with any number of threads.         *)
THEOREM CountCorrect == Spec => []CountExact
<1>1. Init => CountExact
  <2> SUFFICES ASSUME Init PROVE CountExact
    OBVIOUS
  <2>1. NullPushed = {}
    BY DEF Init, NullPushed
  <2> QED BY <2>1, FS_EmptySet DEF Init, CountExact
<1>2. Typed /\ CountExact /\ [Next]_vars => CountExact'
  <2> SUFFICES ASSUME Typed, CountExact, [Next]_vars PROVE CountExact'
    OBVIOUS
  <2>1. pc \in [Tid -> PC] /\ new_job \in [Tid -> PtrOrNull]
    BY DEF Typed, TypeOK
  <2>2. ASSUME UNCHANGED <<job_queue, job_queue_count>>, NullPushed' = NullPushed
        PROVE  CountExact'
    BY <2>2 DEF CountExact
  <2>3. CASE UNCHANGED Shared
    BY <2>2, <2>3 DEF Shared, NullPushed
  <2>4. ASSUME NEW t \in Tid, NEW c \in PC, Quiet(t, c) PROVE CountExact'
    <3>1. NullPushed' = NullPushed
      BY <2>1, <2>4 DEF NullPushed, Quiet, Move
    <3> QED BY <2>2, <2>4, <3>1 DEF Quiet
  <2>5. ASSUME NEW t \in Tid, EnqCalloc(t) PROVE CountExact'
    <3>1. NullPushed' = NullPushed
      BY <2>1, <2>5 DEF NullPushed, EnqCalloc, Goto
    <3> QED BY <2>2, <2>5, <3>1 DEF EnqCalloc
  <2>6. ASSUME NEW t \in Tid, DeqWait(t) \/ DeqTakeNothing(t) \/ DeqSpurious(t)
        PROVE  CountExact'
    <3>1. NullPushed' = NullPushed
      BY <2>1, <2>6 DEF NullPushed, DeqWait, DeqTakeNothing, DeqSpurious, Goto,
                        jobVars
    <3> QED BY <2>2, <2>6, <3>1 DEF DeqWait, DeqTakeNothing, DeqSpurious, jobVars
  <2> QED BY <2>3, <2>4, <2>5, <2>6, StepKinds, PushCounts, TakeCounts DEF Loud
<1> QED BY <1>1, <1>2, InitTyped, NextTyped, PTL DEF Spec

-----------------------------------------------------------------------------
(* Wake-ups *)

(* A push that leaves somebody asleep has woken somebody. *)
LEMMA PushWakes ==
    ASSUME Typed, NoLostWakeup, NEW t \in Tid, EnqPush(t)
    PROVE  NoLostWakeup'
<1> SUFFICES ASSUME waiting' # {}
             PROVE  job_queue_count' <= Cardinality(Looking')
    BY DEF NoLostWakeup
<1>1. /\ pc \in [Tid -> PC] /\ pc[t] = "e_push"
      /\ pc' = [pc EXCEPT ![t] = "e_unlockc"]
      /\ job_queue_count \in Nat /\ job_queue_count' = job_queue_count + 1
      /\ waiting \subseteq {u \in Tid : pc[u] = "d_wait"}
    BY DEF EnqPush, LinkAndCount, Goto, Typed, TypeOK
<1>2. PICK W \in SUBSET waiting : (waiting # {} => W # {}) /\ waiting' = waiting \ W
    BY DEF EnqPush, Signal
<1>3. PICK u : u \in W
    BY <1>2
<1>4. u \in Tid /\ u \in waiting /\ u \notin waiting' /\ pc[u] = "d_wait"
    BY <1>1, <1>2, <1>3
<1>5. Looking \in SUBSET Tid /\ Looking' \in SUBSET Tid /\ u \notin Looking
    BY <1>4 DEF Looking
<1>6. Looking \cup {u} \subseteq Looking'
    BY <1>1, <1>2, <1>4 DEF Looking
<1>7. Cardinality(Looking \cup {u}) <= Cardinality(Looking')
    BY <1>5, <1>6, ThreadsFinite, FS_Subset
<1>8. /\ Cardinality(Looking \cup {u}) = Cardinality(Looking) + 1
      /\ Cardinality(Looking) \in Nat /\ Cardinality(Looking') \in Nat
    BY <1>4, <1>5, JoinLeave, ThreadsFinite
<1>9. job_queue_count <= Cardinality(Looking)
    BY <1>2, <1>3 DEF NoLostWakeup
<1> QED BY <1>1, <1>7, <1>8, <1>9

(* The dequeuer that takes a job is one of those that were looking for it. *)
LEMMA TakeLooks ==
    ASSUME Typed, NoLostWakeup, NEW t \in Tid, DeqTake(t)
    PROVE  NoLostWakeup'
<1>1. /\ pc \in [Tid -> PC] /\ pc[t] = "d_take"
      /\ pc' = [pc EXCEPT ![t] = "d_unlockc2"] /\ UNCHANGED waiting
      /\ job_queue_count \in Nat /\ job_queue_count' = job_queue_count - 1
      /\ waiting \subseteq {u \in Tid : pc[u] = "d_wait"}
    BY DEF DeqTake, Goto, Typed, TypeOK
<1>2. Looking \in SUBSET Tid /\ Looking' = Looking \ {t} /\ t \in Looking
    BY <1>1 DEF Looking
<1>3. Cardinality(Looking') = Cardinality(Looking) - 1 /\ Cardinality(Looking) \in Nat
    BY <1>2, JoinLeave, ThreadsFinite
<1> QED BY <1>1, <1>3 DEF NoLostWakeup

(* No wake-up of prog_condV.c is lost: while a dequeuer sleeps on pcond_var, *)
(* every counted job has a dequeuer that is awake and still to look at the   *)
(* counter, with any number of threads and spurious wake-ups.                *)
THEOREM WakeupsKept == Spec => []NoLostWakeup
<1>1. Init => NoLostWakeup
    BY DEF Init, NoLostWakeup
<1>2. Typed /\ NoLostWakeup /\ [Next]_vars => NoLostWakeup'
  <2> SUFFICES ASSUME Typed, NoLostWakeup, [Next]_vars PROVE NoLostWakeup'
    OBVIOUS
  <2>1. /\ pc \in [Tid -> PC] /\ job_queue_count \in Nat
        /\ waiting \subseteq {u \in Tid : pc[u] = "d_wait"}
    BY DEF Typed, TypeOK
  <2>2. ASSUME waiting' \subseteq waiting, UNCHANGED job_queue_count,
               Looking \subseteq Looking'
        PROVE  NoLostWakeup'
    <3>1. Looking' \in SUBSET Tid
      BY DEF Looking
    <3>2. /\ Cardinality(Looking) <= Cardinality(Looking')
          /\ Cardinality(Looking) \in Nat /\ Cardinality(Looking') \in Nat
      BY <2>2, <3>1, ThreadsFinite, FS_Subset
    <3> QED BY <2>1, <2>2, <3>2 DEF NoLostWakeup
  <2>3. CASE UNCHANGED Shared
    BY <2>2, <2>3 DEF Shared, Looking
  <2>4. ASSUME NEW t \in Tid, NEW c \in PC, Quiet(t, c) PROVE NoLostWakeup'
    <3>1. Looking \subseteq Looking'
      BY <2>1, <2>4 DEF Looking, Quiet, Move
    <3> QED BY <2>2, <2>4, <3>1 DEF Quiet
  <2>5. ASSUME NEW t \in Tid, EnqCalloc(t) PROVE NoLostWakeup'
    <3>1. Looking \subseteq Looking'
      BY <2>1, <2>5 DEF Looking, EnqCalloc, Goto
    <3> QED BY <2>2, <2>5, <3>1 DEF EnqCalloc
  <2>6. ASSUME NEW t \in Tid, DeqSpurious(t) PROVE NoLostWakeup'
    <3>1. Looking \subseteq Looking'
      BY <2>1, <2>6 DEF Looking, DeqSpurious
    <3> QED BY <2>2, <2>6, <3>1 DEF DeqSpurious, jobVars
  <2>7. ASSUME NEW t \in Tid, DeqWait(t) \/ DeqTakeNothing(t) PROVE NoLostWakeup'
    <3>1. job_queue_count' = 0
      BY <2>7 DEF DeqWait, DeqTakeNothing, jobVars
    <3>2. Looking' \in SUBSET Tid
      BY DEF Looking
    <3>3. Cardinality(Looking') \in Nat
      BY <3>2, ThreadsFinite
    <3> QED BY <3>1, <3>3 DEF NoLostWakeup
  <2> QED BY <2>3, <2>4, <2>5, <2>6, <2>7, StepKinds, PushWakes, TakeLooks DEF Loud
<1> QED BY <1>1, <1>2, InitTyped, NextTyped, PTL DEF Spec

-----------------------------------------------------------------------------
(* The job pool *)

(* Jobs are linked once and by their enqueuers only, and the pointers of a   *)
(* thread are null up to the statement that assigns them.                    *)
PoolInv ==
    /\ NoRepeat(job_queue)
    /\ Queued \subseteq Pushed
    /\ \A t \in Tid :
          /\ new_job[t] \in {t, NULL}
          /\ pc[t] \in {"unborn"} \cup DeqPC => new_job[t] = NULL
          /\ pc[t] \in {"unborn", "d_lockc", "d_test", "d_wait", "d_unlockc",
                        "d_lockq", "d_lockc2", "d_take"} => next_job[t] = NULL

Abstract == <<Pushed, Queued, next_job>>

(* The set of jobs in the pool is that of the list. *)
LEMMA QueuedElems == Queued = Elems(job_queue) /\ Queued' = Elems(job_queue')
BY DEF Queued, Elems

(* Linking a job puts it into the pool; a null job leaves the pool alone. *)
LEMMA PushPuts ==
    ASSUME Typed, PoolInv, NEW t \in Tid, EnqPush(t)
    PROVE  PoolInv' /\ (Pool!Put(t) \/ UNCHANGED Abstract)
<1>1. /\ pc \in [Tid -> PC] /\ pc[t] = "e_push"
      /\ pc' = [pc EXCEPT ![t] = "e_unlockc"]
      /\ job_queue \in Seq(Tid) /\ UNCHANGED <<new_job, next_job>>
    BY DEF Typed, TypeOK, EnqPush, LinkAndCount, Goto
<1>2. /\ \A u \in Tid : u # t => pc'[u] = pc[u]
      /\ pc'[t] = "e_unlockc" /\ pc'[t] \notin {"unborn"} \cup DeqPC
    BY <1>1 DEF DeqPC
<1>3. CASE new_job[t] = NULL
  <2>1. UNCHANGED job_queue
    BY <1>3 DEF EnqPush, LinkAndCount
  <2>2. Pushed' = Pushed /\ Queued' = Queued
    BY <1>1, <1>3, <2>1 DEF Pushed, Queued
  <2>3. PoolInv'
    BY <1>1, <1>2, <2>1, <2>2 DEF PoolInv
  <2> QED BY <1>1, <2>2, <2>3 DEF Abstract
<1>4. CASE new_job[t] # NULL
  <2>1. new_job[t] = t
    BY <1>4 DEF PoolInv
  <2>2. job_queue' = Append(job_queue, t)
    BY <1>4, <2>1 DEF EnqPush, LinkAndCount
  <2>3. t \notin Pushed /\ Pushed' = Pushed \cup {t}
    BY <1>1, <1>4 DEF Pushed
  <2>4. t \notin Elems(job_queue) /\ NoRepeat(job_queue)
    BY <2>3, QueuedElems DEF PoolInv
  <2>5. Queued' = Queued \cup {t} /\ NoRepeat(job_queue')
    BY <1>1, <2>2, <2>4, LinkOne, QueuedElems
  <2>6. PoolInv'
    BY <1>1, <1>2, <2>3, <2>5 DEF PoolInv
  <2> QED BY <1>1, <2>3, <2>5, <2>6 DEF Pool!Put
<1> QED BY <1>3, <1>4

(* Unlinking the head takes one pending job from the pool. *)
LEMMA TakeTakes ==
    ASSUME Typed, PoolInv, NEW t \in Tid, DeqTake(t)
    PROVE  PoolInv' /\ Pool!Take(t)
<1> DEFINE job == job_queue[Len(job_queue)]
<1>1. /\ pc[t] = "d_take" /\ pc \in [Tid -> PC]
      /\ pc' = [pc EXCEPT ![t] = "d_unlockc2"]
      /\ next_job' = [next_job EXCEPT ![t] = job]
      /\ next_job \in [Tid -> PtrOrNull]
      /\ job_queue \in Seq(Tid) /\ job_queue # <<>>
      /\ job_queue' = SubSeq(job_queue, 1, Len(job_queue) - 1)
      /\ UNCHANGED new_job
    BY DEF Typed, TypeOK, DeqTake, Goto
<1>2. Queued' = Queued \ {job} /\ NoRepeat(job_queue') /\ job \in Queued
    BY <1>1, UnlinkOne, QueuedElems DEF PoolInv
<1> HIDE DEF job
<1>3. Pushed' = Pushed
    BY <1>1 DEF Pushed
<1>4. \A u \in Tid : u # t => pc'[u] = pc[u] /\ next_job'[u] = next_job[u]
    BY <1>1
<1>5. /\ pc'[t] = "d_unlockc2" /\ new_job'[t] = NULL
      /\ next_job[t] = NULL
    BY <1>1 DEF PoolInv, DeqPC
<1>6. PoolInv'
    BY <1>1, <1>2, <1>3, <1>4, <1>5 DEF PoolInv
<1> QED BY <1>1, <1>2, <1>3, <1>5, <1>6 DEF Pool!Take

(* The steps that move no job keep PoolInv if the thread that moves keeps    *)
(* its part of it, and are stutters of the pool.                             *)
LEMMA KeptPool ==
    ASSUME Typed, PoolInv, NEW t \in Tid, NEW c \in PC,
           pc' = [pc EXCEPT ![t] = c], Pushed' = Pushed,
           UNCHANGED <<job_queue, next_job>>,
           \A u \in Tid : u # t => new_job'[u] = new_job[u],
           new_job'[t] \in {t, NULL},
           c \in {"unborn"} \cup DeqPC => new_job'[t] = NULL,
           c \in {"unborn", "d_lockc", "d_test", "d_wait", "d_unlockc",
                  "d_lockq", "d_lockc2", "d_take"} => next_job[t] = NULL
    PROVE  PoolInv' /\ UNCHANGED Abstract
<1>1. Queued' = Queued
    BY DEF Queued
<1>2. /\ \A u \in Tid : u # t => pc'[u] = pc[u]
      /\ pc'[t] = c
    BY DEF Typed, TypeOK
<1>3. PoolInv'
    BY <1>1, <1>2 DEF PoolInv
<1> QED BY <1>1, <1>3 DEF Abstract

(* Every step keeps PoolInv and is a step of the pool or a stutter. *)
LEMMA NextPool ==
    Typed /\ PoolInv /\ [Next]_vars => PoolInv' /\ [Pool!PoolNext]_(Pool!poolVars)
<1> SUFFICES ASSUME Typed, PoolInv, [Next]_vars
             PROVE  PoolInv' /\ (Pool!PoolNext \/ UNCHANGED Abstract)
    BY DEF Pool!poolVars, Abstract
<1>1. pc \in [Tid -> PC] /\ new_job \in [Tid -> PtrOrNull]
    BY DEF Typed, TypeOK
<1>2. CASE UNCHANGED Shared
    BY <1>2 DEF Shared, PoolInv, Pushed, Queued, Abstract
<1>3. ASSUME NEW t \in Tid, NEW c \in PC, Quiet(t, c)
      PROVE  PoolInv' /\ UNCHANGED Abstract
  <2>1. Pushed' = Pushed
    BY <1>1, <1>3 DEF Pushed, Quiet, Move, PoolInv, DeqPC
  <2>2. /\ c \in {"unborn"} \cup DeqPC => new_job[t] = NULL
        /\ c \in {"unborn", "d_lockc", "d_test", "d_wait", "d_unlockc",
                  "d_lockq", "d_lockc2", "d_take"} => next_job[t] = NULL
        /\ new_job[t] \in {t, NULL}
    BY <1>3 DEF Quiet, Move, PoolInv, DeqPC
  <2> QED BY <1>3, <2>1, <2>2, KeptPool DEF Quiet
<1>4. ASSUME NEW t \in Tid, EnqCalloc(t) PROVE PoolInv' /\ UNCHANGED Abstract
  <2>1. /\ pc' = [pc EXCEPT ![t] = "e_lockq"] /\ "e_lockq" \in PC
        /\ "e_lockq" \notin DeqPC /\ UNCHANGED <<job_queue, next_job>>
    BY <1>4 DEF EnqCalloc, Goto, PC, EnqPC, DeqPC
  <2>2. Pushed' = Pushed
    BY <1>1, <1>4 DEF Pushed, EnqCalloc, Goto
  <2>3. /\ new_job'[t] \in {t, NULL}
        /\ \A u \in Tid : u # t => new_job'[u] = new_job[u]
    BY <1>1, <1>4 DEF EnqCalloc
  <2> QED BY <2>1, <2>2, <2>3, KeptPool
<1>5. ASSUME NEW t \in Tid, DeqWait(t) PROVE PoolInv' /\ UNCHANGED Abstract
  <2>1. /\ pc' = [pc EXCEPT ![t] = "d_wait"] /\ "d_wait" \in PC
        /\ pc[t] = "d_test" /\ UNCHANGED <<new_job, job_queue, next_job>>
    BY <1>5 DEF DeqWait, Goto, PC, DeqPC, jobVars
  <2>2. Pushed' = Pushed
    BY <1>1, <2>1 DEF Pushed
  <2>3. next_job[t] = NULL /\ new_job[t] = NULL
    BY <2>1 DEF PoolInv, DeqPC
  <2> QED BY <2>1, <2>2, <2>3, KeptPool
<1>6. ASSUME NEW t \in Tid, DeqTakeNothing(t) PROVE PoolInv' /\ UNCHANGED Abstract
  <2>1. /\ pc' = [pc EXCEPT ![t] = "d_unlockc2"] /\ "d_unlockc2" \in PC
        /\ pc[t] = "d_take" /\ UNCHANGED <<new_job, job_queue, next_job>>
    BY <1>6 DEF DeqTakeNothing, Goto, PC, DeqPC, jobVars
  <2>2. Pushed' = Pushed
    BY <1>1, <2>1 DEF Pushed
  <2>3. new_job[t] = NULL
    BY <2>1 DEF PoolInv, DeqPC
  <2> QED BY <2>1, <2>2, <2>3, KeptPool
<1>7. ASSUME NEW t \in Tid, DeqSpurious(t) PROVE PoolInv' /\ UNCHANGED Abstract
    BY <1>7 DEF DeqSpurious, jobVars, PoolInv, Pushed, Queued, Abstract
<1> QED BY <1>2, <1>3, <1>4, <1>5, <1>6, <1>7, StepKinds, PushPuts, TakeTakes
        DEF Loud, Pool!PoolNext

(* prog_condV.c implements the abstract job pool with any number of threads: *)
(* a job that was put is handed to one dequeuer at most, and a dequeuer is   *)
(* handed only jobs that were put and not taken, whatever calloc returned.   *)
THEOREM PoolRefined == Spec => PoolSpec
<1>1. Init => PoolInv /\ Pool!PoolInit
    BY DEF Init, PoolInv, NoRepeat, Queued, Pushed, Pool!PoolInit
<1> QED BY <1>1, InitTyped, NextTyped, NextPool, PTL
        DEF Spec, PoolSpec, Pool!PoolSpec
=============================================================================
