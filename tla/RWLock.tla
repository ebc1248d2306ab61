------------------------------- MODULE RWLock -------------------------------
(***************************************************************************)
(* prog_rwmutex.cpp: class rw_lock_t, a reader/writer lock made of three   *)
(* counters, one mutex and two condition variables.  (The constructor's    *)
(* initialiser list misspells NoOfWritersWaiting; it is read as meant.)    *)
(*                                                                         *)
(* Each method holds class_mutex from its first to its last line, except   *)
(* inside pthread_cond_wait, and touches shared state only under it: so an *)
(* action is a whole stretch between taking the mutex and giving it up, by *)
(* returning or by waiting.  The threads that call the lock are the        *)
(* environment: each makes at most MaxCalls lock/unlock pairs.             *)
(***************************************************************************)
EXTENDS Integers, FiniteSets

CONSTANTS Threads,   \* callers of the lock
          MaxCalls   \* bound on the lock calls of each caller

ASSUME RWAssumption == IsFiniteSet(Threads) /\ MaxCalls \in Nat

VARIABLES
    NoOfReaders, NoOfWriters, NoOfWritersWaiting,
    reader_gate,     \* threads blocked on the condition variable reader_gate
    writer_gate,     \* threads blocked on the condition variable writer_gate
    pc,              \* where each thread is
    calls            \* lock calls made so far

vars == <<NoOfReaders, NoOfWriters, NoOfWritersWaiting, reader_gate,
          writer_gate, pc, calls>>

Init ==
    /\ NoOfReaders = 0
    /\ NoOfWriters = 0
    /\ NoOfWritersWaiting = 0
    /\ reader_gate = {}
    /\ writer_gate = {}
    /\ pc = [t \in Threads |-> "out"]
    /\ calls = [t \in Threads |-> 0]

(* pthread_cond_signal: unblocks at least one of the waiting threads, if any; *)
(* left is what remains of the gate.                                         *)
Signalled(gate, left) == left \subseteq gate /\ (gate # {} => left # gate)

(* pthread_cond_wait may return without a signal. *)
Spurious ==
    /\ \/ \E t \in reader_gate :
             reader_gate' = reader_gate \ {t} /\ UNCHANGED writer_gate
       \/ \E t \in writer_gate :
             writer_gate' = writer_gate \ {t} /\ UNCHANGED reader_gate
    /\ UNCHANGED <<NoOfReaders, NoOfWriters, NoOfWritersWaiting, pc, calls>>

Call(t) ==
    /\ pc[t] = "out"
    /\ calls[t] < MaxCalls
    /\ calls' = [calls EXCEPT ![t] = @ + 1]

-----------------------------------------------------------------------------
(* r_lock *)

(* The test of the while loop, and what follows it on either outcome. *)
ReaderTest(t) ==
    /\ IF NoOfWriters > 0
       THEN /\ reader_gate' = reader_gate \cup {t}
            /\ pc' = [pc EXCEPT ![t] = "r_wait"]
            /\ UNCHANGED NoOfReaders
       ELSE /\ NoOfReaders' = NoOfReaders + 1
            /\ pc' = [pc EXCEPT ![t] = "reading"]
            /\ UNCHANGED reader_gate
    /\ UNCHANGED <<NoOfWriters, NoOfWritersWaiting, writer_gate>>

r_lock(t) == Call(t) /\ ReaderTest(t)

r_lock_woken(t) ==
    /\ pc[t] = "r_wait"
    /\ t \notin reader_gate
    /\ ReaderTest(t)
    /\ UNCHANGED calls

-----------------------------------------------------------------------------
(* w_lock *)

(* Mutant: readers inside are overlooked. *)
WriterTest_IgnoreReaders(t, w) ==
    /\ IF NoOfWriters > 0
       THEN /\ writer_gate' = writer_gate \cup {t}
            /\ pc' = [pc EXCEPT ![t] = "w_wait"]
            /\ NoOfWritersWaiting' = w
            /\ UNCHANGED NoOfWriters
       ELSE /\ NoOfWritersWaiting' = w - 1
            /\ NoOfWriters' = NoOfWriters + 1
            /\ pc' = [pc EXCEPT ![t] = "writing"]
            /\ UNCHANGED writer_gate
    /\ UNCHANGED <<NoOfReaders, reader_gate>>

(* The test of the while loop, and what follows it on either outcome; w is   *)
(* NoOfWritersWaiting at the test.                                           *)
WriterTest(t, w) ==
    /\ IF NoOfReaders > 0 \/ NoOfWriters > 0
       THEN /\ writer_gate' = writer_gate \cup {t}
            /\ pc' = [pc EXCEPT ![t] = "w_wait"]
            /\ NoOfWritersWaiting' = w
            /\ UNCHANGED NoOfWriters
       ELSE /\ NoOfWritersWaiting' = w - 1
            /\ NoOfWriters' = NoOfWriters + 1
            /\ pc' = [pc EXCEPT ![t] = "writing"]
            /\ UNCHANGED writer_gate
    /\ UNCHANGED <<NoOfReaders, reader_gate>>

w_lock(t) == Call(t) /\ WriterTest(t, NoOfWritersWaiting + 1)

w_lock_woken(t) ==
    /\ pc[t] = "w_wait"
    /\ t \notin writer_gate
    /\ WriterTest(t, NoOfWritersWaiting)
    /\ UNCHANGED calls

-----------------------------------------------------------------------------
(* Mutant: the counter is tested before it is lowered. *)
r_unlock_TestFirst(t) ==
    /\ pc[t] = "reading"
    /\ NoOfReaders' = NoOfReaders - 1
    /\ IF NoOfReaders = 0 /\ NoOfWritersWaiting > 0
       THEN \E left \in SUBSET writer_gate :
               Signalled(writer_gate, left) /\ writer_gate' = left
       ELSE UNCHANGED writer_gate
    /\ pc' = [pc EXCEPT ![t] = "out"]
    /\ UNCHANGED <<NoOfWriters, NoOfWritersWaiting, reader_gate, calls>>

r_unlock(t) ==
    /\ pc[t] = "reading"
    /\ NoOfReaders' = NoOfReaders - 1
    /\ IF NoOfReaders' = 0 /\ NoOfWritersWaiting > 0
       THEN \E left \in SUBSET writer_gate :
               Signalled(writer_gate, left) /\ writer_gate' = left
       ELSE UNCHANGED writer_gate
    /\ pc' = [pc EXCEPT ![t] = "out"]
    /\ UNCHANGED <<NoOfWriters, NoOfWritersWaiting, reader_gate, calls>>

(* Mutant: the writer-preference "else" that the source has commented out    *)
(* here, without its counterpart in r_lock.                                  *)
w_unlock_Else(t) ==
    /\ pc[t] = "writing"
    /\ NoOfWriters' = NoOfWriters - 1
    /\ IF NoOfWritersWaiting > 0
       THEN /\ \E left \in SUBSET writer_gate :
                  Signalled(writer_gate, left) /\ writer_gate' = left
            /\ UNCHANGED reader_gate
       ELSE reader_gate' = {} /\ UNCHANGED writer_gate
    /\ pc' = [pc EXCEPT ![t] = "out"]
    /\ UNCHANGED <<NoOfReaders, NoOfWritersWaiting, calls>>

w_unlock(t) ==
    /\ pc[t] = "writing"
    /\ NoOfWriters' = NoOfWriters - 1
    /\ IF NoOfWritersWaiting > 0
       THEN \E left \in SUBSET writer_gate :
               Signalled(writer_gate, left) /\ writer_gate' = left
       ELSE UNCHANGED writer_gate
    /\ reader_gate' = {}
    /\ pc' = [pc EXCEPT ![t] = "out"]
    /\ UNCHANGED <<NoOfReaders, NoOfWritersWaiting, calls>>

-----------------------------------------------------------------------------
(* What a thread does once it has called the lock. *)
Proceed(t) == \/ r_lock_woken(t) \/ w_lock_woken(t)
              \/ r_unlock(t) \/ w_unlock(t)

(* Every caller is outside and has no call left. *)
Finished == /\ \A t \in Threads : pc[t] = "out" /\ calls[t] = MaxCalls
            /\ UNCHANGED vars

Next == \/ \E t \in Threads : r_lock(t) \/ w_lock(t) \/ Proceed(t)
        \/ Spurious
        \/ Finished

(* A thread that is awake runs, and a caller inside leaves in the end; it    *)
(* need not call again, and spurious wake-ups are owed to nobody.            *)
Spec == Init /\ [][Next]_vars /\ \A t \in Threads : WF_vars(Proceed(t))

-----------------------------------------------------------------------------
(* Properties *)

At(s) == {t \in Threads : pc[t] = s}

(* Every variable has its type, the three counters are the numbers of        *)
(* threads reading, writing and waiting to write, and only threads that      *)
(* wait are blocked.                                                         *)
TypeOK ==
    /\ pc \in [Threads -> {"out", "r_wait", "reading", "w_wait", "writing"}]
    /\ calls \in [Threads -> 0 .. MaxCalls]
    /\ reader_gate \subseteq At("r_wait")
    /\ writer_gate \subseteq At("w_wait")
    /\ NoOfReaders = Cardinality(At("reading"))
    /\ NoOfWriters = Cardinality(At("writing"))
    /\ NoOfWritersWaiting = Cardinality(At("w_wait"))

(* No wake-up is lost: readers sleep only while somebody writes, and writers *)
(* all sleep only while somebody is inside.  A signal taken by a writer that *)
(* finds a new reader inside must therefore be repeated when it leaves.      *)
NoLostWakeup ==
    /\ reader_gate # {} => NoOfWriters > 0
    /\ writer_gate # {} => \/ NoOfReaders > 0 \/ NoOfWriters > 0
                           \/ At("w_wait") \ writer_gate # {}

(* A call of r_lock or w_lock that has to wait returns in the end, the calls *)
(* of the others being finitely many: nobody is left waiting.                *)
CallsReturn == <>[](\A t \in Threads : pc[t] \notin {"r_wait", "w_wait"})

holds == [t \in Threads |-> CASE pc[t] = "reading" -> "read"
                              [] pc[t] = "writing" -> "write"
                              [] OTHER -> "none"]

(* rw_lock_t implements the abstract reader/writer lock: a writer excludes   *)
(* everybody, a reader excludes writers.                                     *)
Abs == INSTANCE RWAbstract
AbsSpec == Abs!AbsSpec
=============================================================================
