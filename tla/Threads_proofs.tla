--------------------------- MODULE Threads_proofs ---------------------------
(***************************************************************************)
(* Proofs about the programs with threads that MCThreads runs, each for    *)
(* its own specification and all values of its constants: rw_lock_t for    *)
(* any finite set of callers and any number of calls, the discovery tool   *)
(* with any number of discoveries, packets and buffers (D), the resource   *)
(* adapter with any beans and any size of its pool (A), and the verifier   *)
(* store with any users, callers and restarts (V).                         *)
(***************************************************************************)
EXTENDS MCThreads, FiniteSetTheorems, SequenceTheorems, TLAPS

USE RWAssumption

-----------------------------------------------------------------------------
(* The lock: the counters are the numbers of threads they stand for, no      *)
(* wake-up is lost, and the lock implements the abstract reader/writer lock. *)
(* TypeOK is inductive; the other two rest on it, because what the code      *)
(* tests is a counter and what they speak of is the set of threads that the  *)
(* counter counts.                                                           *)

(* Where a thread can be. *)
States == {"out", "r_wait", "reading", "w_wait", "writing"}

(* There are finitely many callers. *)
LEMMA AtFinite ==
    ASSUME NEW s
    PROVE  IsFiniteSet(At(s)) /\ Cardinality(At(s)) \in Nat
<1>1. At(s) \in SUBSET Threads
    BY DEF At
<1> QED BY <1>1, FS_Subset, FS_CardinalityType

(* A count is 0 exactly when nobody is there. *)
LEMMA NobodyAt ==
    ASSUME NEW s
    PROVE  Cardinality(At(s)) = 0 <=> \A t \in Threads : pc[t] # s
<1>1. Cardinality(At(s)) = 0 <=> At(s) = {}
    BY AtFinite, FS_EmptySet
<1> QED BY <1>1 DEF At

(* What a move from b to c does to the number of threads at s. *)
Delta(b, c, s) == IF b = c THEN 0 ELSE IF c = s THEN 1 ELSE IF b = s THEN -1 ELSE 0

(* A thread that moves to c leaves one count and enters another. *)
LEMMA CountMove ==
    ASSUME pc \in [Threads -> States], NEW t \in Threads, NEW c \in States,
           pc' = [pc EXCEPT ![t] = c], NEW s
    PROVE  Cardinality(At(s)') =
               Cardinality(At(s)) + Delta(pc[t], c, s)
<1> DEFINE here == At(s)
<1>1. IsFiniteSet(here) /\ Cardinality(here) \in Nat
    BY AtFinite
<1>2. CASE c = s <=> pc[t] = s
  <2>1. At(s)' = here
    BY <1>2 DEF At
  <2> QED BY <1>1, <1>2, <2>1 DEF Delta
<1>3. CASE c = s /\ pc[t] # s
  <2>1. At(s)' = here \cup {t} /\ t \notin here
    BY <1>3 DEF At
  <2>2. Cardinality(here \cup {t}) = Cardinality(here) + 1
    BY <1>1, <2>1, FS_AddElement
  <2> QED BY <1>1, <1>3, <2>1, <2>2 DEF Delta
<1>4. CASE c # s /\ pc[t] = s
  <2>1. At(s)' = here \ {t} /\ t \in here
    BY <1>4 DEF At
  <2>2. Cardinality(here \ {t}) = Cardinality(here) - 1
    BY <1>1, <2>1, FS_RemoveElement
  <2> QED BY <1>1, <1>4, <2>1, <2>2 DEF Delta
<1> QED BY <1>2, <1>3, <1>4

-----------------------------------------------------------------------------
(* The counters *)

(* A step that moves one thread keeps the types if it moves the counters     *)
(* along and leaves the gates to threads that wait.                          *)
LEMMA MoveTyped ==
    ASSUME TypeOK, NEW t \in Threads, NEW c \in States,
           pc' = [pc EXCEPT ![t] = c],
           calls' \in [Threads -> 0 .. MaxCalls],
           NoOfReaders' = NoOfReaders + Delta(pc[t], c, "reading"),
           NoOfWriters' = NoOfWriters + Delta(pc[t], c, "writing"),
           NoOfWritersWaiting' =
               NoOfWritersWaiting + Delta(pc[t], c, "w_wait"),
           reader_gate' \subseteq At("r_wait")',
           writer_gate' \subseteq At("w_wait")'
    PROVE  TypeOK'
<1>1. pc \in [Threads -> States] /\ pc' \in [Threads -> States]
    BY DEF TypeOK, States
<1>2. NoOfReaders' = Cardinality(At("reading")')
    BY <1>1, CountMove DEF TypeOK
<1>3. NoOfWriters' = Cardinality(At("writing")')
    BY <1>1, CountMove DEF TypeOK
<1>4. NoOfWritersWaiting' = Cardinality(At("w_wait")')
    BY <1>1, CountMove DEF TypeOK
<1> QED BY <1>1, <1>2, <1>3, <1>4 DEF TypeOK, States

(* The counters are natural numbers. *)
LEMMA CountersNat ==
    ASSUME TypeOK
    PROVE  NoOfReaders \in Nat /\ NoOfWriters \in Nat /\ NoOfWritersWaiting \in Nat
BY AtFinite DEF TypeOK

(* A call is counted, and made from outside. *)
LEMMA CallTyped ==
    ASSUME TypeOK, NEW t \in Threads, Call(t)
    PROVE  pc[t] = "out" /\ calls' \in [Threads -> 0 .. MaxCalls]
BY DEF TypeOK, Call

(* r_lock, on entry or after a wait, keeps the types. *)
LEMMA ReaderTestTyped ==
    ASSUME TypeOK, NEW t \in Threads, ReaderTest(t), pc[t] \in {"out", "r_wait"},
           t \notin reader_gate, calls' \in [Threads -> 0 .. MaxCalls]
    PROVE  TypeOK'
<1> USE CountersNat DEF ReaderTest
<1>1. CASE NoOfWriters > 0
  <2>1. "r_wait" \in States /\ pc' = [pc EXCEPT ![t] = "r_wait"]
    BY <1>1 DEF States
  <2>2. reader_gate' \subseteq At("r_wait")' /\ writer_gate' \subseteq At("w_wait")'
    BY <1>1, <2>1 DEF At, TypeOK
  <2>3. /\ NoOfReaders' = NoOfReaders + Delta(pc[t], "r_wait", "reading")
        /\ NoOfWriters' = NoOfWriters + Delta(pc[t], "r_wait", "writing")
        /\ NoOfWritersWaiting' =
               NoOfWritersWaiting + Delta(pc[t], "r_wait", "w_wait")
    BY <1>1 DEF Delta
  <2> QED BY <2>1, <2>2, <2>3, MoveTyped
<1>2. CASE ~(NoOfWriters > 0)
  <2>1. "reading" \in States /\ pc' = [pc EXCEPT ![t] = "reading"]
    BY <1>2 DEF States
  <2>2. reader_gate' \subseteq At("r_wait")' /\ writer_gate' \subseteq At("w_wait")'
    BY <1>2, <2>1 DEF At, TypeOK
  <2>3. /\ NoOfReaders' = NoOfReaders + Delta(pc[t], "reading", "reading")
        /\ NoOfWriters' = NoOfWriters + Delta(pc[t], "reading", "writing")
        /\ NoOfWritersWaiting' =
               NoOfWritersWaiting + Delta(pc[t], "reading", "w_wait")
    BY <1>2 DEF Delta
  <2> QED BY <2>1, <2>2, <2>3, MoveTyped
<1> QED BY <1>1, <1>2

(* w_lock, on entry or after a wait, keeps the types: w counts the caller,   *)
(* who counts itself on entry and is still counted after a wait.             *)
LEMMA WriterTestTyped ==
    ASSUME TypeOK, NEW t \in Threads, NEW w, WriterTest(t, w),
           \/ pc[t] = "out" /\ w = NoOfWritersWaiting + 1
           \/ pc[t] = "w_wait" /\ w = NoOfWritersWaiting,
           t \notin writer_gate, calls' \in [Threads -> 0 .. MaxCalls]
    PROVE  TypeOK'
<1> USE CountersNat DEF WriterTest
<1>1. CASE NoOfReaders > 0 \/ NoOfWriters > 0
  <2>1. "w_wait" \in States /\ pc' = [pc EXCEPT ![t] = "w_wait"]
    BY <1>1 DEF States
  <2>2. reader_gate' \subseteq At("r_wait")' /\ writer_gate' \subseteq At("w_wait")'
    BY <1>1, <2>1 DEF At, TypeOK
  <2>3. /\ NoOfReaders' = NoOfReaders + Delta(pc[t], "w_wait", "reading")
        /\ NoOfWriters' = NoOfWriters + Delta(pc[t], "w_wait", "writing")
        /\ NoOfWritersWaiting' =
               NoOfWritersWaiting + Delta(pc[t], "w_wait", "w_wait")
    BY <1>1 DEF Delta
  <2> QED BY <2>1, <2>2, <2>3, MoveTyped
<1>2. CASE ~(NoOfReaders > 0 \/ NoOfWriters > 0)
  <2>1. "writing" \in States /\ pc' = [pc EXCEPT ![t] = "writing"]
    BY <1>2 DEF States
  <2>2. reader_gate' \subseteq At("r_wait")' /\ writer_gate' \subseteq At("w_wait")'
    BY <1>2, <2>1 DEF At, TypeOK
  <2>3. /\ NoOfReaders' = NoOfReaders + Delta(pc[t], "writing", "reading")
        /\ NoOfWriters' = NoOfWriters + Delta(pc[t], "writing", "writing")
        /\ NoOfWritersWaiting' =
               NoOfWritersWaiting + Delta(pc[t], "writing", "w_wait")
    BY <1>2 DEF Delta
  <2> QED BY <2>1, <2>2, <2>3, MoveTyped
<1> QED BY <1>1, <1>2

(* The caller leaves, whatever a signal does to the gates. *)
LEMMA UnlockTyped ==
    ASSUME TypeOK, NEW t \in Threads, r_unlock(t) \/ w_unlock(t)
    PROVE  TypeOK'
<1>1. /\ "out" \in States /\ pc' = [pc EXCEPT ![t] = "out"]
      /\ pc[t] \in {"reading", "writing"} /\ UNCHANGED calls
      /\ reader_gate' \subseteq reader_gate /\ writer_gate' \subseteq writer_gate
    BY DEF r_unlock, w_unlock, States
<1>2. reader_gate' \subseteq At("r_wait")' /\ writer_gate' \subseteq At("w_wait")'
    BY <1>1 DEF At, TypeOK
<1>3. calls' \in [Threads -> 0 .. MaxCalls]
    BY <1>1 DEF TypeOK
<1>4. /\ NoOfReaders' = NoOfReaders + Delta(pc[t], "out", "reading")
      /\ NoOfWriters' = NoOfWriters + Delta(pc[t], "out", "writing")
      /\ NoOfWritersWaiting' = NoOfWritersWaiting + Delta(pc[t], "out", "w_wait")
    BY CountersNat DEF r_unlock, w_unlock, Delta
<1> QED BY <1>1, <1>2, <1>3, <1>4, MoveTyped

(* TypeOK is inductive. *)
LEMMA NextTyped == TypeOK /\ [Next]_vars => TypeOK'
<1> SUFFICES ASSUME TypeOK, [Next]_vars PROVE TypeOK'
    OBVIOUS
<1>1. ASSUME NEW t \in Threads, r_lock(t) PROVE TypeOK'
  <2>1. t \notin reader_gate
    BY <1>1, CallTyped DEF r_lock, TypeOK, At
  <2> QED BY <1>1, <2>1, CallTyped, ReaderTestTyped DEF r_lock
<1>2. ASSUME NEW t \in Threads, w_lock(t) PROVE TypeOK'
  <2>1. t \notin writer_gate
    BY <1>2, CallTyped DEF w_lock, TypeOK, At
  <2> QED BY <1>2, <2>1, CallTyped, WriterTestTyped DEF w_lock
<1>3. ASSUME NEW t \in Threads, r_lock_woken(t) PROVE TypeOK'
    BY <1>3, ReaderTestTyped DEF r_lock_woken, TypeOK
<1>4. ASSUME NEW t \in Threads, w_lock_woken(t) PROVE TypeOK'
    BY <1>4, WriterTestTyped DEF w_lock_woken, TypeOK
<1>5. CASE Spurious
    BY <1>5 DEF Spurious, TypeOK, At
<1>6. CASE UNCHANGED vars
    BY <1>6 DEF vars, TypeOK, At
<1> QED BY <1>1, <1>2, <1>3, <1>4, <1>5, <1>6, UnlockTyped
        DEF Next, Proceed, Finished

(* Initially every thread is outside and every count is zero. *)
LEMMA InitTyped == Init => TypeOK
<1> SUFFICES ASSUME Init PROVE TypeOK
    OBVIOUS
<1>1. \A s \in {"reading", "writing", "w_wait"} : Cardinality(At(s)) = 0
    BY NobodyAt DEF Init
<1> QED BY <1>1 DEF Init, TypeOK

(* The counters of rw_lock_t always are the numbers of threads reading,      *)
(* writing and waiting to write, however many threads call the lock.         *)
THEOREM TypeCorrect == Spec => []TypeOK
BY InitTyped, NextTyped, PTL DEF Spec

-----------------------------------------------------------------------------
(* Wake-ups *)

(* Going to sleep is safe: a thread waits only after it saw somebody inside, *)
(* in the same stretch under class_mutex.                                    *)
LEMMA LockKeepsWakeup ==
    ASSUME TypeOK, NoLostWakeup, NEW t \in Threads,
           \/ ReaderTest(t) /\ pc[t] \in {"out", "r_wait"}
           \/ \E w : WriterTest(t, w) /\ pc[t] \in {"out", "w_wait"}
    PROVE  NoLostWakeup'
<1>1. CASE ReaderTest(t) /\ pc[t] \in {"out", "r_wait"}
  <2>1. At("w_wait")' = At("w_wait")
    BY <1>1 DEF ReaderTest, At, TypeOK
  <2> QED BY <1>1, <2>1, CountersNat DEF ReaderTest, NoLostWakeup
<1>2. CASE \E w : WriterTest(t, w) /\ pc[t] \in {"out", "w_wait"}
    BY <1>2, CountersNat DEF WriterTest, NoLostWakeup
<1> QED BY <1>1, <1>2

(* Leaving is safe: the last one out wakes a writer if any waits, and all    *)
(* the readers.                                                              *)
LEMMA UnlockKeepsWakeup ==
    ASSUME TypeOK, NoLostWakeup, NEW t \in Threads, r_unlock(t) \/ w_unlock(t)
    PROVE  NoLostWakeup'
<1>1. At("w_wait")' = At("w_wait")
    BY DEF r_unlock, w_unlock, At, TypeOK
<1>2. NoOfWritersWaiting = 0 => writer_gate = {}
    BY NobodyAt DEF TypeOK, At
<1>3. ASSUME \E left \in SUBSET writer_gate :
                Signalled(writer_gate, left) /\ writer_gate' = left
      PROVE  writer_gate' # {} => At("w_wait")' \ writer_gate' # {}
  <2>1. PICK left \in SUBSET writer_gate :
                Signalled(writer_gate, left) /\ writer_gate' = left
    BY <1>3
  <2> QED BY <1>1, <2>1 DEF Signalled, TypeOK
<1>4. CASE r_unlock(t)
  <2>1. CASE NoOfReaders' = 0 /\ NoOfWritersWaiting > 0
    BY <1>3, <1>4, <2>1 DEF r_unlock, NoLostWakeup
  <2>2. CASE NoOfReaders' # 0
    <3>1. NoOfReaders # 0
      BY <1>4, NobodyAt DEF r_unlock, TypeOK
    <3>2. NoOfReaders' > 0
      BY <1>4, <2>2, <3>1, CountersNat DEF r_unlock
    <3> QED BY <1>1, <1>4, <3>2 DEF r_unlock, NoLostWakeup
  <2>3. CASE ~(NoOfWritersWaiting > 0)
    BY <1>2, <1>4, <2>3, CountersNat DEF r_unlock, NoLostWakeup
  <2> QED BY <2>1, <2>2, <2>3
<1>5. CASE w_unlock(t)
  <2>1. CASE NoOfWritersWaiting > 0
    BY <1>3, <1>5, <2>1 DEF w_unlock, NoLostWakeup
  <2>2. CASE ~(NoOfWritersWaiting > 0)
    BY <1>2, <1>5, <2>2, CountersNat DEF w_unlock, NoLostWakeup
  <2> QED BY <2>1, <2>2
<1> QED BY <1>4, <1>5

(* No wake-up of rw_lock_t is lost: a reader sleeps only while somebody      *)
(* writes, and if all waiting writers sleep somebody is inside who will      *)
(* signal.                                                                   *)
THEOREM WakeupsKept == Spec => []NoLostWakeup
<1>1. Init => NoLostWakeup
    BY DEF Init, NoLostWakeup
<1>2. TypeOK /\ NoLostWakeup /\ [Next]_vars => NoLostWakeup'
  <2> SUFFICES ASSUME TypeOK, NoLostWakeup, [Next]_vars PROVE NoLostWakeup'
    OBVIOUS
  <2>1. ASSUME NEW t \in Threads, r_lock(t) \/ r_lock_woken(t)
        PROVE  NoLostWakeup'
    BY <2>1, LockKeepsWakeup DEF r_lock, r_lock_woken, Call
  <2>2. ASSUME NEW t \in Threads, w_lock(t) \/ w_lock_woken(t)
        PROVE  NoLostWakeup'
    BY <2>2, LockKeepsWakeup DEF w_lock, w_lock_woken, Call
  <2>3. CASE Spurious
    BY <2>3 DEF Spurious, NoLostWakeup, At, TypeOK
  <2>4. CASE UNCHANGED vars
    BY <2>4 DEF vars, NoLostWakeup, At
  <2> QED BY <2>1, <2>2, <2>3, <2>4, UnlockKeepsWakeup DEF Next, Proceed, Finished
<1> QED BY <1>1, <1>2, TypeCorrect, PTL DEF Spec

-----------------------------------------------------------------------------
(* The abstract lock *)

(* A step that lets nobody in or out is a stutter of the abstract lock. *)
LEMMA SameHolds ==
    ASSUME TypeOK, NEW t \in Threads, NEW c \in {"r_wait", "w_wait"},
           pc[t] \in {"out", "r_wait", "w_wait"}, pc' = [pc EXCEPT ![t] = c]
    PROVE  holds' = holds
BY DEF TypeOK, holds

(* What holds says of a thread that enters or leaves. *)
LEMMA HoldsMove ==
    ASSUME TypeOK, NEW t \in Threads, NEW c \in States,
           pc' = [pc EXCEPT ![t] = c]
    PROVE  holds' = [holds EXCEPT ![t] = CASE c = "reading" -> "read"
                                           [] c = "writing" -> "write"
                                           [] OTHER -> "none"]
BY DEF TypeOK, holds

(* A reader is let in only while the abstract lock has no writer. *)
LEMMA ReaderGranted ==
    ASSUME TypeOK, NEW t \in Threads, ReaderTest(t), pc[t] \in {"out", "r_wait"}
    PROVE  Abs!AbsNext \/ holds' = holds
<1>1. CASE NoOfWriters > 0
    BY <1>1, SameHolds DEF ReaderTest
<1>2. CASE ~(NoOfWriters > 0)
  <2>1. \A u \in Threads : pc[u] # "writing"
    BY <1>2, NobodyAt, CountersNat DEF TypeOK
  <2>2. holds[t] = "none" /\ \A u \in Threads : holds[u] # "write"
    BY <2>1 DEF holds
  <2>3. holds' = [holds EXCEPT ![t] = "read"]
    BY <1>2, HoldsMove DEF ReaderTest, States
  <2> QED BY <2>2, <2>3 DEF Abs!AbsNext, Abs!GrantRead
<1> QED BY <1>1, <1>2

(* A writer is let in only while nobody holds the abstract lock. *)
LEMMA WriterGranted ==
    ASSUME TypeOK, NEW t \in Threads, NEW w, WriterTest(t, w),
           pc[t] \in {"out", "w_wait"}
    PROVE  Abs!AbsNext \/ holds' = holds
<1>1. CASE NoOfReaders > 0 \/ NoOfWriters > 0
    BY <1>1, SameHolds DEF WriterTest
<1>2. CASE ~(NoOfReaders > 0 \/ NoOfWriters > 0)
  <2>1. \A u \in Threads : pc[u] # "writing" /\ pc[u] # "reading"
    BY <1>2, NobodyAt, CountersNat DEF TypeOK
  <2>2. \A u \in Threads : holds[u] = "none"
    BY <2>1 DEF holds
  <2>3. holds' = [holds EXCEPT ![t] = "write"]
    BY <1>2, HoldsMove DEF WriterTest, States
  <2> QED BY <2>2, <2>3 DEF Abs!AbsNext, Abs!GrantWrite
<1> QED BY <1>1, <1>2

(* rw_lock_t implements the abstract reader/writer lock: every step of any   *)
(* number of threads is a grant or a release that the abstract lock allows,  *)
(* or changes nothing of who holds it.                                       *)
THEOREM LockRefines == Spec => AbsSpec
<1>1. Init => Abs!AbsInit
    BY DEF Init, Abs!AbsInit, holds
<1>2. TypeOK /\ [Next]_vars => [Abs!AbsNext]_holds
  <2> SUFFICES ASSUME TypeOK, [Next]_vars PROVE Abs!AbsNext \/ holds' = holds
    OBVIOUS
  <2>1. ASSUME NEW t \in Threads, r_lock(t) \/ r_lock_woken(t)
        PROVE  Abs!AbsNext \/ holds' = holds
    BY <2>1, ReaderGranted DEF r_lock, r_lock_woken, Call
  <2>2. ASSUME NEW t \in Threads, w_lock(t) \/ w_lock_woken(t)
        PROVE  Abs!AbsNext \/ holds' = holds
    BY <2>2, WriterGranted DEF w_lock, w_lock_woken, Call
  <2>3. ASSUME NEW t \in Threads, r_unlock(t) \/ w_unlock(t)
        PROVE  Abs!AbsNext
    <3>1. holds[t] # "none"
      BY <2>3 DEF r_unlock, w_unlock, holds
    <3>2. holds' = [holds EXCEPT ![t] = "none"]
      BY <2>3, HoldsMove DEF r_unlock, w_unlock, States
    <3> QED BY <3>1, <3>2 DEF Abs!AbsNext, Abs!Release
  <2>4. CASE Spurious \/ UNCHANGED vars
    BY <2>4 DEF Spurious, vars, holds
  <2> QED BY <2>1, <2>2, <2>3, <2>4 DEF Next, Proceed, Finished
<1> QED BY <1>1, <1>2, TypeCorrect, PTL DEF Spec, AbsSpec, Abs!AbsSpec
HIDE RWAssumption
USE ThreadsAssumption

-----------------------------------------------------------------------------
(* The discovery tool: the button, the pointer and the engine *)

(* The button agrees with the engine inside the slots too, and a slot that   *)
(* shows packets goes on to where it was called from.                        *)
ButtonInv ==
    /\ made \in 0 .. MaxEngines
    /\ discoEngine \in live \cup {NULL, Garbage}
    /\ live \subseteq {discoEngine} /\ live \subseteq D!Engines
    /\ ui \in {"idle", "show", "stop", "delete"} /\ back \in {"idle", "stop"}
    /\ text \in {"Discover", "Stop"}
    /\ text = "Stop" <=> discoEngine \in live
    /\ ui # "idle" => discoEngine \in live

LEMMA ButtonInit == D!Init => ButtonInv
BY DEF D!Init, ButtonInv, D!Engines

LEMMA ButtonNext ==
    ASSUME ButtonInv, [D!Next]_(D!vars)
    PROVE  ButtonInv'
<1> USE DEF ButtonInv
<1>1. CASE UNCHANGED D!uiVars /\ UNCHANGED <<made, live>>
    BY <1>1 DEF D!uiVars
<1>2. CASE D!ClickDiscoverFails
  <2>1. live = {}
    BY <1>2 DEF D!ClickDiscoverFails, D!NewEngine
  <2>2. discoEngine' = NULL /\ text' = text /\ text # "Stop" /\ live' = {}
    BY <1>2, <2>1 DEF D!ClickDiscoverFails, D!NewEngine
  <2> QED BY <1>2, <2>2 DEF D!ClickDiscoverFails, D!NewEngine
<1>3. CASE D!ClickDiscover
    BY <1>3 DEF D!ClickDiscover, D!NewEngine, D!Engines
<1>4. CASE D!ClickStop
    BY <1>4 DEF D!ClickStop, D!Show, D!engineVars
<1>5. CASE D!Refresh
    BY <1>1, <1>5 DEF D!Refresh, D!Show, D!Crash, D!engineVars
<1>6. CASE D!Clear
    BY <1>6 DEF D!Clear, D!engineVars
<1>7. CASE D!ShowNode
  <2>1. CASE D!Crash
    BY <1>1, <2>1 DEF D!Crash, D!engineVars
  <2>2. CASE /\ ui = "show" /\ UNCHANGED <<text, discoEngine, made, live>>
             /\ (ui' = back /\ back' = "idle") \/ UNCHANGED <<ui, back>>
    BY <2>2
  <2> QED BY <1>7, <2>1, <2>2 DEF D!ShowNode
<1>8. CASE D!StopEngine
    BY <1>1, <1>8 DEF D!StopEngine, D!Crash, D!engineVars
<1>9. CASE D!DeleteEngine
    BY <1>9 DEF D!DeleteEngine
<1>10. ASSUME NEW e \in D!Engines, D!Worker(e)
       PROVE  UNCHANGED D!uiVars /\ UNCHANGED <<made, live>>
    BY <1>10 DEF D!Worker, D!SetThreadId, D!Setup, D!Receive, D!Cancelled, D!WLock,
                 D!WPush, D!WUnlock, D!Uses, D!Crash, D!engineVars
<1>11. CASE UNCHANGED D!vars
    BY <1>1, <1>11 DEF D!vars, D!engineVars
<1> QED BY <1>1, <1>2, <1>3, <1>4, <1>5, <1>6, <1>7, <1>8, <1>9, <1>10, <1>11
        DEF D!Next, D!User, D!Window, D!Over

(* The window's pointer, its one engine and the text of the button agree for *)
(* any number of discoveries, however the clicks meet the workers.           *)
THEOREM ButtonKept == D!Spec => []ButtonMatchesEngine
<1>1. ButtonInv => ButtonMatchesEngine
    BY DEF ButtonInv, ButtonMatchesEngine, D!ButtonMatchesEngine, D!Engines
<1> QED BY <1>1, ButtonInit, ButtonNext, PTL DEF D!Spec

-----------------------------------------------------------------------------
(* The discovery tool: the order of the packets *)

Slots == 0 .. DATAQ_SIZE - 1
Rings == [size : {DATAQ_SIZE}, queueFull : BOOLEAN, front : Slots, tail : Slots,
          item : [Slots -> Nat]]

(* How many buffers b is behind the front, and whether pop can reach it. *)
Place(r, b) == IF r.front <= b THEN b - r.front ELSE r.size - r.front + b
InUse(r, b) == Place(r, b) < Place(r, r.tail)


LEMMA RingPops ==
    ASSUME NEW r \in Rings, ~D!isEmpty(r)
    PROVE  /\ D!popped(r) \in Rings
           /\ InUse(r, r.front) /\ r.front \in Slots
           /\ \A b \in Slots : InUse(D!popped(r), b) =>
                 /\ InUse(r, b) /\ D!popped(r).item[b] = r.item[b]
                 /\ Place(r, r.front) < Place(r, b)
                 /\ Place(D!popped(r), b) = Place(r, b) - 1
           /\ \A b \in Slots : Place(r, b) \in Int
<1> DEFINE q == D!popped(r)
<1>1. /\ r.size = DATAQ_SIZE /\ r.front \in Slots /\ r.tail \in Slots
      /\ r.item \in [Slots -> Nat] /\ r.front # r.tail /\ DATAQ_SIZE > 1
    BY DEF Rings, D!isEmpty, Slots
<1>2. D!next(r, r.front) \in Slots
    BY <1>1 DEF D!next, Slots
<1>3. /\ q.size = r.size /\ q.front = D!next(r, r.front) /\ q.tail = r.tail
      /\ q.item = r.item /\ q \in Rings
    BY <1>1, <1>2 DEF D!popped, Rings
<1> HIDE DEF q
<1>4. ASSUME NEW b \in Slots
      PROVE  Place(q, b) = IF b = r.front THEN r.size - 1 ELSE Place(r, b) - 1
    BY <1>1, <1>3 DEF Place, D!next, Slots
<1>5. \A b \in Slots : Place(r, b) \in 0 .. r.size - 1 /\ (Place(r, b) = 0 => b = r.front)
    BY <1>1 DEF Place, Slots
<1>6. Place(q, q.tail) = Place(r, r.tail) - 1 /\ Place(r, r.front) = 0
    BY <1>1, <1>3, <1>4 DEF Place, Slots
<1>7. InUse(r, r.front)
    BY <1>1, <1>5, <1>6 DEF InUse
<1>8. ASSUME NEW b \in Slots, InUse(q, b)
      PROVE  b # r.front /\ InUse(r, b) /\ Place(q, b) = Place(r, b) - 1
  <2>1. /\ r.size \in Nat /\ Place(r, b) \in Int /\ Place(r, r.tail) <= r.size - 1
        /\ Place(r, r.tail) \in Int
    BY <1>1, <1>5
  <2>2. Place(q, b) < Place(r, r.tail) - 1
    BY <1>6, <1>8 DEF InUse
  <2>3. b # r.front
    BY <1>4, <2>1, <2>2
  <2> QED BY <1>4, <2>1, <2>2, <2>3 DEF InUse
<1>9. ASSUME NEW b \in Slots, InUse(q, b) PROVE Place(r, r.front) < Place(r, b)
    BY <1>1, <1>5, <1>6, <1>8, <1>9
<1> QED BY <1>1, <1>3, <1>5, <1>7, <1>8, <1>9 DEF q

LEMMA RingPushes ==
    ASSUME NEW r \in Rings, NEW v \in Nat
    PROVE  /\ D!pushed(r, v) \in Rings
           /\ \A b \in Slots : InUse(D!pushed(r, v), b) =>
                 \/ b = r.tail /\ D!pushed(r, v).item[b] = v
                 \/ /\ InUse(r, b) /\ D!pushed(r, v).item[b] = r.item[b]
                    /\ Place(r, b) < Place(r, r.tail)
           /\ \A b \in Slots : Place(D!pushed(r, v), b) = Place(r, b) /\ Place(r, b) \in Int
<1> DEFINE q == D!pushed(r, v)
<1>1. /\ r.size = DATAQ_SIZE /\ r.front \in Slots /\ r.tail \in Slots
      /\ r.item \in [Slots -> Nat]
    BY DEF Rings, Slots
<1>2. ASSUME D!next(r, r.tail) \notin {-1, r.front} PROVE D!next(r, r.tail) \in Slots
    BY <1>1, <1>2 DEF D!next, Slots
<1>3. /\ q.size = r.size /\ q.front = r.front /\ q.item = [r.item EXCEPT ![r.tail] = v]
      /\ q.tail = IF D!next(r, r.tail) \in {-1, r.front} THEN r.tail
                                                         ELSE D!next(r, r.tail)
      /\ q \in Rings
    BY <1>1, <1>2 DEF D!pushed, Rings
<1> HIDE DEF q
<1>4. \A b \in Slots : /\ Place(q, b) = Place(r, b) /\ Place(r, b) \in Int
                       /\ Place(r, b) = Place(r, r.tail) => b = r.tail
  <2>1. \A b \in Slots : Place(q, b) = Place(r, b)
    BY <1>3 DEF Place
  <2>2. ASSUME NEW b \in Slots
        PROVE  Place(r, b) \in Int /\ (Place(r, b) = Place(r, r.tail) => b = r.tail)
    <3>1. /\ r.size \in Int /\ r.front \in Int /\ 0 <= r.front /\ r.front < r.size
          /\ r.tail \in Int /\ 0 <= r.tail /\ r.tail < r.size
          /\ b \in Int /\ 0 <= b /\ b < r.size
      BY <1>1 DEF Slots
    <3> QED BY <3>1 DEF Place
  <2> QED BY <2>1, <2>2
<1>5. Place(q, q.tail) <= Place(r, r.tail) + 1
    BY SMTT(30), <1>1, <1>2, <1>3 DEF Place, D!next, Slots
<1>6. ASSUME NEW b \in Slots, InUse(q, b) PROVE InUse(r, b) \/ b = r.tail
  <2>1. q.tail \in Slots /\ Place(q, q.tail) \in Int
    <3>1. q \in Rings
      BY <1>3
    <3>2. q.tail \in Slots
      BY <3>1 DEF Rings
    <3> QED BY <1>4, <3>2
  <2>2. Place(q, b) < Place(q, q.tail)
    BY <1>6 DEF InUse
  <2>3. /\ Place(q, b) = Place(r, b) /\ Place(r, b) \in Int
        /\ Place(r, r.tail) \in Int
    BY <1>1, <1>4
  <2>4. Place(r, b) < Place(r, r.tail) \/ Place(r, b) = Place(r, r.tail)
    BY <1>5, <2>1, <2>2, <2>3
  <2> QED BY <1>4, <2>4 DEF InUse
<1>7. ASSUME NEW b \in Slots, InUse(r, b) PROVE q.item[b] = r.item[b]
  <2>1. b # r.tail
    BY <1>1, <1>4, <1>7 DEF InUse
  <2> QED BY <1>1, <1>3, <2>1
<1>8. q.item[r.tail] = v
    BY <1>1, <1>3
<1>9. ASSUME NEW b \in Slots, InUse(q, b)
      PROVE  \/ b = r.tail /\ q.item[b] = v
             \/ InUse(r, b) /\ q.item[b] = r.item[b] /\ Place(r, b) < Place(r, r.tail)
    BY <1>6, <1>7, <1>8, <1>9 DEF InUse
<1> QED BY <1>3, <1>4, <1>9 DEF q

LEMMA RingStarts ==
    /\ D!RingNew(DATAQ_SIZE) \in Rings
    /\ \A b \in Slots : ~InUse(D!RingNew(DATAQ_SIZE), b)
<1>1. D!RingNew(DATAQ_SIZE) \in Rings
    BY DEF D!RingNew, Rings, Slots
<1>2. \A b \in Slots : ~InUse(D!RingNew(DATAQ_SIZE), b)
    BY DEF D!RingNew, InUse, Place, Slots
<1> QED BY <1>1, <1>2

(* The queue the window reads, if it reads one, and the packets in it. *)
Shelf == IF discoEngine \in D!Engines THEN recvqueue[block[discoEngine]]
                                      ELSE D!RingNew(DATAQ_SIZE)
Stored(r) == {r.item[b] : b \in {x \in Slots : InUse(r, x)}}

(* The packets of a queue are in order as they are popped. *)
InLine(r) ==
    \A b, c \in Slots : InUse(r, b) /\ InUse(r, c) /\ Place(r, b) < Place(r, c) =>
        D!InOrder(r.item[b], r.item[c])

(* A worker that has received a packet it has not pushed yet. *)
Handling(e) == wpc[e] \in {"lock", "push"}

(* A packet that was received, before the one its worker handles by now, and *)
(* in order with the one the worker of the window's engine handles.          *)
Recorded(n) ==
    /\ n \in 1 .. Len(received)
    /\ \A e \in D!Engines : Handling(e) =>
          /\ received[n] = e => n < pkt[e]
          /\ e = discoEngine => D!InOrder(n, pkt[e])

(* What was and will be shown is in order: what the tree lists, then what is *)
(* in the queue the window reads, then what its worker handles.  The queue   *)
(* of a new engine is empty; a worker of an earlier engine in its memory may *)
(* push in between, which makes it stray.                                    *)
TypedInv ==
    /\ received \in Seq(D!Engines) /\ tree \in Seq(Nat)
    /\ pkt \in [D!Engines -> Nat] /\ recvqueue \in [D!Engines -> Rings]
    /\ block \in [D!Engines -> D!Engines]
    /\ wpc = [e \in D!Engines |-> wpc[e]]
    /\ \A e \in D!Engines : e > made => wpc[e] = "none"
    /\ \A e \in D!Engines : Handling(e) =>
          pkt[e] \in 1 .. Len(received) /\ received[pkt[e]] = e

OrderInv ==
    /\ TypedInv
    /\ \A i \in 1 .. Len(tree) : Recorded(tree[i])
    /\ \A n \in Stored(Shelf) : Recorded(n)
    /\ InLine(Shelf)
    /\ \A i \in 1 .. Len(tree), n \in Stored(Shelf) : D!InOrder(tree[i], n)
    /\ ShownInOrder

(* Packets stay in order when more are received and more workers stray. *)
LEMMA OrderGrows ==
    ASSUME TypedInv, TypedInv', strays \subseteq strays', Len(received) <= Len(received'),
           \A k \in 1 .. Len(received) : received'[k] = received[k],
           NEW m \in 1 .. Len(received), NEW n \in 1 .. Len(received), D!InOrder(m, n)
    PROVE  D!InOrder(m, n)'
BY DEF D!InOrder

(* What was in order stays so when nothing is put into the queue the window  *)
(* reads or taken from it, or it reads a new one.                            *)
LEMMA OrderSurvives ==
    ASSUME OrderInv, TypedInv', strays \subseteq strays', Len(received) <= Len(received'),
           \A k \in 1 .. Len(received) : received'[k] = received[k],
           \A n : Recorded(n) => Recorded(n)',
           tree' \in {tree, <<>>},
           UNCHANGED Shelf \/ \A b \in Slots : ~InUse(Shelf, b)'
    PROVE  OrderInv'
<1>1. TypedInv
    BY DEF OrderInv
<1>2. ASSUME NEW m \in 1 .. Len(received), NEW n \in 1 .. Len(received), D!InOrder(m, n)
      PROVE  D!InOrder(m, n)'
    BY <1>1, <1>2, OrderGrows
<1>3. ASSUME NEW i \in 1 .. Len(tree') PROVE i \in 1 .. Len(tree) /\ tree'[i] = tree[i]
    BY <1>1 DEF TypedInv
<1>4. \A i \in 1 .. Len(tree') : Recorded(tree[i])'
  <2> SUFFICES ASSUME NEW i \in 1 .. Len(tree') PROVE Recorded(tree[i])'
    OBVIOUS
  <2> DEFINE n == tree[i]
  <2>1. n' = n /\ Recorded(n)
    BY <1>3 DEF OrderInv
  <2>2. Recorded(n) => Recorded(n)'
    BY <2>1 DEF Recorded, D!InOrder
  <2> QED BY <2>1, <2>2
<1>5. ASSUME NEW n \in Stored(Shelf)' PROVE UNCHANGED Shelf /\ n \in Stored(Shelf)
    BY DEF Stored
<1>6. \A n \in Stored(Shelf)' : Recorded(n)'
    BY <1>5 DEF OrderInv
<1>7. ASSUME NEW i \in 1 .. Len(tree'), NEW n \in Stored(Shelf)' PROVE D!InOrder(tree[i], n)'
  <2>1. tree'[i] = tree[i] /\ Recorded(tree[i]) /\ Recorded(n) /\ D!InOrder(tree[i], n)
    BY <1>3, <1>5 DEF OrderInv
  <2>2. tree[i] \in 1 .. Len(received) /\ n \in 1 .. Len(received)
    BY <2>1 DEF Recorded
  <2>3. \A m \in 1 .. Len(received) : D!InOrder(m, n) => D!InOrder(m, n)'
    BY <1>2, <2>2
  <2> QED BY <2>1, <2>2, <2>3 DEF D!InOrder
<1>8. InLine(Shelf)'
  <2> SUFFICES ASSUME NEW b \in Slots, NEW c \in Slots, InUse(Shelf, b)', InUse(Shelf, c)',
                      Place(Shelf, b)' < Place(Shelf, c)'
               PROVE  D!InOrder(Shelf.item[b], Shelf.item[c])'
    BY DEF InLine
  <2>1. UNCHANGED Shelf
    OBVIOUS
  <2>2. InUse(Shelf, b) /\ InUse(Shelf, c) /\ Place(Shelf, b) < Place(Shelf, c)
    BY <2>1 DEF InUse, Place
  <2> DEFINE m == Shelf.item[b]
             n == Shelf.item[c]
  <2>3. m \in Stored(Shelf) /\ n \in Stored(Shelf) /\ D!InOrder(m, n)
    BY <2>2 DEF Stored, OrderInv, InLine
  <2>4. m \in 1 .. Len(received) /\ n \in 1 .. Len(received)
    BY <2>3 DEF OrderInv, Recorded
  <2>5. Shelf'.item[b] = m /\ Shelf'.item[c] = n
    BY <2>1
  <2> HIDE DEF m, n
  <2>6. \A k, h \in 1 .. Len(received) : D!InOrder(k, h) => D!InOrder(k, h)'
    BY <1>2
  <2> QED BY <2>3, <2>4, <2>5, <2>6 DEF D!InOrder
<1>9. ShownInOrder'
  <2> SUFFICES ASSUME NEW i \in 1 .. Len(tree'), NEW j \in 1 .. Len(tree'), i < j
               PROVE  D!InOrder(tree[i], tree[j])'
    BY DEF ShownInOrder, D!ShownInOrder
  <2>1. /\ tree'[i] = tree[i] /\ tree'[j] = tree[j] /\ D!InOrder(tree[i], tree[j])
        /\ Recorded(tree[i]) /\ Recorded(tree[j])
    BY <1>3 DEF OrderInv, ShownInOrder, D!ShownInOrder
  <2>2. tree[i] \in 1 .. Len(received) /\ tree[j] \in 1 .. Len(received)
    BY <2>1 DEF Recorded
  <2>3. \A k, h \in 1 .. Len(received) : D!InOrder(k, h) => D!InOrder(k, h)'
    BY <1>2
  <2> QED BY <2>1, <2>2, <2>3 DEF D!InOrder
<1> QED BY <1>4, <1>6, <1>7, <1>8, <1>9 DEF OrderInv

(* A step that leaves the packets alone, with which no worker starts to      *)
(* handle one, and after which the window reads the same queue or a new one. *)
LEMMA OrderStays ==
    ASSUME OrderInv, TypedInv', UNCHANGED <<received, pkt>>, strays \subseteq strays',
           \A e \in D!Engines : Handling(e)' => Handling(e),
           tree' \in {tree, <<>>},
           \/ UNCHANGED <<Shelf, discoEngine>>
           \/ /\ \A b \in Slots : ~InUse(Shelf, b)'
              /\ discoEngine' \in D!Engines => ~Handling(discoEngine)'
    PROVE  OrderInv'
<1>1. TypedInv
    BY DEF OrderInv
<1>2. ASSUME NEW n, Recorded(n) PROVE Recorded(n)'
  <2> SUFFICES ASSUME NEW e \in D!Engines, Handling(e)'
               PROVE  /\ received[n] = e => n < pkt[e]
                      /\ e = discoEngine' => D!InOrder(n, pkt[e])'
    BY <1>2 DEF Recorded
  <2>1. Handling(e) /\ n \in 1 .. Len(received) /\ pkt[e] \in 1 .. Len(received)
    BY <1>1, <1>2 DEF Recorded, TypedInv
  <2>2. e = discoEngine' => e = discoEngine
    BY DEF Handling
  <2>3. D!InOrder(n, pkt[e]) => D!InOrder(n, pkt[e])'
    BY DEF D!InOrder
  <2> QED BY <1>2, <2>1, <2>2, <2>3 DEF Recorded
<1>3. Len(received) <= Len(received') /\ \A k \in 1 .. Len(received) : received'[k] = received[k]
    BY <1>1 DEF TypedInv
<1> QED BY <1>2, <1>3, OrderSurvives

(* A packet that is received comes after all the others. *)
LEMMA ReceiveOrdered ==
    ASSUME OrderInv, NEW e \in D!Engines, D!Receive(e)
    PROVE  OrderInv'
<1>1. /\ wpc[e] = "recv" /\ received' = Append(received, e)
      /\ pkt' = [pkt EXCEPT ![e] = Len(received')] /\ wpc' = [wpc EXCEPT ![e] = "lock"]
      /\ UNCHANGED <<tree, discoEngine, made, block, recvqueue, strays>>
    BY DEF D!Receive, D!uiVars, D!engineVars
<1>2. TypedInv /\ Len(received) \in Nat
    BY DEF OrderInv, TypedInv
<1>3. /\ received' \in Seq(D!Engines) /\ Len(received') = Len(received) + 1
      /\ received'[Len(received')] = e
      /\ \A k \in 1 .. Len(received) : received'[k] = received[k]
    BY <1>1, <1>2 DEF TypedInv
<1>4. /\ wpc'[e] = "lock" /\ pkt'[e] = Len(received')
      /\ \A d \in D!Engines \ {e} : wpc'[d] = wpc[d] /\ pkt'[d] = pkt[d]
      /\ wpc' = [d \in D!Engines |-> wpc'[d]] /\ pkt' \in [D!Engines -> Nat]
  <2>1. wpc = [d \in D!Engines |-> wpc[d]] /\ pkt \in [D!Engines -> Nat]
    BY <1>2 DEF TypedInv
  <2>2. wpc'[e] = "lock" /\ (\A d \in D!Engines \ {e} : wpc'[d] = wpc[d])
        /\ wpc' = [d \in D!Engines |-> wpc'[d]]
    BY <1>1, <2>1
  <2>3. pkt'[e] = Len(received') /\ (\A d \in D!Engines \ {e} : pkt'[d] = pkt[d])
        /\ pkt' \in [D!Engines -> Nat]
    BY <1>1, <1>2, <1>3, <2>1
  <2> QED BY <2>2, <2>3
<1>5. TypedInv'
  <2>1. ASSUME NEW d \in D!Engines, Handling(d)'
        PROVE  pkt'[d] \in 1 .. Len(received') /\ received'[pkt'[d]] = d
    <3>1. CASE d = e
      BY <1>2, <1>3, <1>4, <3>1
    <3>2. CASE d # e
      <4>1. Handling(d) /\ pkt'[d] = pkt[d]
        BY <1>4, <2>1, <3>2 DEF Handling
      <4>2. pkt[d] \in 1 .. Len(received) /\ received[pkt[d]] = d
        BY <1>2, <4>1 DEF TypedInv
      <4> QED BY <1>2, <1>3, <4>1, <4>2
    <3> QED BY <3>1, <3>2
  <2>2. \A d \in D!Engines : d > made' => wpc'[d] = "none"
    BY <1>1, <1>2, <1>4 DEF TypedInv
  <2> QED BY <1>1, <1>2, <1>3, <1>4, <2>1, <2>2 DEF TypedInv
<1>6. ASSUME NEW n, Recorded(n) PROVE Recorded(n)'
  <2>1. n \in 1 .. Len(received)
    BY <1>6 DEF Recorded
  <2> SUFFICES ASSUME NEW d \in D!Engines, Handling(d)'
               PROVE  /\ received'[n] = d => n < pkt'[d]
                      /\ d = discoEngine' => D!InOrder(n, pkt[d])'
    BY <1>2, <1>3, <2>1 DEF Recorded
  <2>2. CASE d = e
    BY <1>2, <1>3, <1>4, <2>1, <2>2 DEF D!InOrder
  <2>3. CASE d # e
    <3>1. Handling(d) /\ pkt'[d] = pkt[d] /\ received'[n] = received[n]
      BY <1>3, <1>4, <2>1, <2>3 DEF Handling
    <3>2. pkt[d] \in 1 .. Len(received)
      BY <1>2, <3>1 DEF TypedInv
    <3>3. D!InOrder(n, pkt[d]) => D!InOrder(n, pkt[d])'
      BY <1>1, <1>3, <2>1, <3>1, <3>2 DEF D!InOrder
    <3> QED BY <1>1, <1>6, <3>1, <3>3 DEF Recorded
  <2> QED BY <2>2, <2>3
<1>7. UNCHANGED Shelf
    BY <1>1 DEF Shelf
<1> QED BY <1>1, <1>2, <1>3, <1>5, <1>6, <1>7, OrderSurvives

(* A packet that is pushed goes behind the others of its queue: its worker   *)
(* received it after its own, and is stray if it is not the window's.        *)
LEMMA PushOrdered ==
    ASSUME OrderInv, ButtonInv, NEW e \in D!Engines, wpc[e] = "push",
           wpc' = [wpc EXCEPT ![e] = "unlock"],
           recvqueue' = [recvqueue EXCEPT ![block[e]] =
                            IF @.queueFull THEN @ ELSE D!pushed(@, pkt[e])],
           strays' = IF D!Taken(e) /\ e \notin live THEN strays \cup {e} ELSE strays,
           UNCHANGED <<tree, discoEngine, made, block, pkt, received>>
    PROVE  OrderInv'
<1> DEFINE v == pkt[e]
           r == recvqueue[block[e]]
           q == D!pushed(r, v)
<1>1. TypedInv /\ Handling(e)
    BY DEF OrderInv, Handling
<1>2. /\ v \in 1 .. Len(received) /\ received[v] = e /\ Len(received) \in Nat
      /\ r \in Rings /\ block[e] \in D!Engines
    BY <1>1 DEF TypedInv
<1>3. q \in Rings
    BY <1>2, RingPushes
<1>4. /\ wpc' = [d \in D!Engines |-> wpc'[d]] /\ wpc'[e] = "unlock"
      /\ \A d \in D!Engines \ {e} : wpc'[d] = wpc[d]
    BY <1>1 DEF TypedInv
<1>5. \A d \in D!Engines : Handling(d)' => Handling(d) /\ d # e
    BY <1>4 DEF Handling
<1>6. /\ recvqueue' \in [D!Engines -> Rings]
      /\ recvqueue' = [recvqueue EXCEPT ![block[e]] = IF r.queueFull THEN r ELSE q]
    BY <1>1, <1>2, <1>3 DEF TypedInv
<1> HIDE DEF v, r, q
<1>7. TypedInv'
  <2>1. \A d \in D!Engines : d > made' => wpc'[d] = "none"
    BY <1>1, <1>4 DEF TypedInv, Handling
  <2>2. \A d \in D!Engines : Handling(d)' =>
            pkt'[d] \in 1 .. Len(received') /\ received'[pkt'[d]] = d
    BY <1>1, <1>5 DEF TypedInv
  <2> QED BY <1>1, <1>4, <1>6, <2>1, <2>2 DEF TypedInv
<1>8. ASSUME NEW m \in 1 .. Len(received), NEW n \in 1 .. Len(received), D!InOrder(m, n)
      PROVE  D!InOrder(m, n)'
    BY <1>1, <1>2, <1>7, <1>8, OrderGrows
<1>9. ASSUME NEW n, Recorded(n) PROVE Recorded(n)'
  <2> SUFFICES ASSUME NEW d \in D!Engines, Handling(d)'
               PROVE  /\ received[n] = d => n < pkt[d]
                      /\ d = discoEngine => D!InOrder(n, pkt[d])'
    BY <1>9 DEF Recorded
  <2>1. Handling(d) /\ n \in 1 .. Len(received) /\ pkt[d] \in 1 .. Len(received)
    BY <1>1, <1>5, <1>9 DEF Recorded, TypedInv
  <2>2. D!InOrder(n, pkt[d]) => D!InOrder(n, pkt[d])'
    BY <1>8, <2>1 DEF D!InOrder
  <2> QED BY <1>9, <2>1, <2>2 DEF Recorded
<1>10. CASE UNCHANGED Shelf
    BY <1>1, <1>2, <1>7, <1>9, <1>10, OrderSurvives
<1>11. CASE Shelf' # Shelf
  <2>1. /\ discoEngine \in D!Engines /\ block[discoEngine] = block[e]
        /\ Shelf = r /\ Shelf' = q
    <3>1. discoEngine \in D!Engines
      BY <1>11 DEF Shelf
    <3>2. Shelf = recvqueue[block[discoEngine]] /\ Shelf' = recvqueue'[block[discoEngine]]
      BY <3>1 DEF Shelf
    <3>3. block[discoEngine] \in D!Engines /\ recvqueue \in [D!Engines -> Rings]
      BY <1>1, <3>1 DEF TypedInv
    <3> QED BY <1>2, <1>6, <1>11, <3>1, <3>2, <3>3 DEF r
  <2>2. e = discoEngine \/ e \in strays'
    <3>1. discoEngine \in live /\ live \subseteq {discoEngine}
      BY <2>1 DEF ButtonInv
    <3>2. D!Taken(e)
      BY <2>1, <3>1 DEF D!Taken
    <3> QED BY <3>1, <3>2
  <2>3. ASSUME NEW n, Recorded(n) PROVE D!InOrder(n, v)'
    <3>1. n \in 1 .. Len(received) /\ (received[n] = e => n < v)
      BY <1>1, <2>3 DEF Recorded, v
    <3>2. CASE e = discoEngine
      <4>1. D!InOrder(n, v)
        BY <1>1, <2>3, <3>2 DEF Recorded, v
      <4>2. D!InOrder(n, v) => D!InOrder(n, v)'
        BY <1>2, <1>8, <3>1 DEF D!InOrder, v
      <4> QED BY <4>1, <4>2
    <3>3. CASE e \in strays'
      BY <1>2, <3>1, <3>3 DEF D!InOrder, v
    <3> QED BY <2>2, <3>2, <3>3
  <2>4. Recorded(v)'
    <3> SUFFICES ASSUME NEW d \in D!Engines, Handling(d)'
                 PROVE  /\ received[v] = d => v < pkt[d]
                        /\ d = discoEngine => D!InOrder(v, pkt[d])'
      BY <1>2 DEF Recorded, v
    <3>1. d # e /\ received[pkt[d]] = d /\ pkt[d] \in 1 .. Len(received)
      BY <1>1, <1>5 DEF TypedInv
    <3>2. d = discoEngine => e \in strays'
      BY <2>2, <3>1
    <3>3. d = discoEngine => D!InOrder(v, pkt[d])'
      BY <1>2, <3>1, <3>2 DEF D!InOrder, v
    <3> QED BY <1>2, <3>1, <3>3
  <2>5. ASSUME NEW b \in Slots, InUse(q, b)
        PROVE  \/ b = r.tail /\ q.item[b] = v
               \/ InUse(r, b) /\ q.item[b] = r.item[b] /\ Place(r, b) < Place(r, r.tail)
    <3>1. v \in Nat
      BY <1>2
    <3> QED BY <1>2, <2>5, <3>1, RingPushes, Zenon DEF q
  <2>6. ASSUME NEW n \in Stored(q) PROVE n = v \/ n \in Stored(r)
    BY <2>5, <2>6 DEF Stored
  <2>7. \A n \in Stored(r) : Recorded(n)
    BY <2>1 DEF OrderInv
  <2>8. \A n \in Stored(Shelf)' : Recorded(n)'
    <3> SUFFICES ASSUME NEW n \in Stored(Shelf)' PROVE Recorded(n)'
      OBVIOUS
    <3>1. n \in Stored(q)
      BY <2>1 DEF Stored, InUse, Place
    <3>2. CASE n = v
      BY <2>4, <3>2 DEF Recorded, D!InOrder, v
    <3>3. CASE n \in Stored(r)
      BY <1>9, <2>7, <3>3
    <3> QED BY <2>6, <3>1, <3>2, <3>3
  <2>9. \A i \in 1 .. Len(tree') : Recorded(tree[i]) /\ Recorded(tree[i])'
    <3> SUFFICES ASSUME NEW i \in 1 .. Len(tree) PROVE Recorded(tree[i]) /\ Recorded(tree[i])'
      OBVIOUS
    <3>1. Recorded(tree[i])
      BY DEF OrderInv
    <3>2. Recorded(tree[i]) => Recorded(tree[i])'
      <4> DEFINE n == tree[i]
      <4>1. n' = n
        OBVIOUS
      <4>2. Recorded(n) => Recorded(n)'
        BY <1>9, <4>1 DEF Recorded, D!InOrder
      <4> QED BY <4>2
    <3> QED BY <3>1, <3>2
  <2>10. InLine(Shelf)'
    <3> SUFFICES ASSUME NEW b \in Slots, NEW c \in Slots, InUse(Shelf, b)', InUse(Shelf, c)',
                        Place(Shelf, b)' < Place(Shelf, c)'
                 PROVE  D!InOrder(Shelf.item[b], Shelf.item[c])'
      BY DEF InLine
    <3>1. InUse(q, b) /\ InUse(q, c) /\ Place(q, b) < Place(q, c)
      BY <2>1 DEF InUse, Place
    <3>2. v \in Nat
      BY <1>2
    <3>3. \A x \in Slots : Place(q, x) = Place(r, x) /\ Place(r, x) \in Int
      BY <1>2, <3>2, RingPushes, Zenon DEF q
    <3>4. r.tail \in Slots
      BY <1>2 DEF Rings
    <3>5. InUse(r, b) /\ q.item[b] = r.item[b] /\ r.item[b] \in Stored(r)
      <4>1. Place(r, b) < Place(r, c) /\ Place(r, c) <= Place(r, r.tail)
        BY <2>5, <3>1, <3>3, <3>4
      <4>2. b # r.tail
        BY <3>3, <3>4, <4>1
      <4> QED BY <2>5, <3>1, <4>2 DEF Stored
    <3> DEFINE m == r.item[b]
               n == q.item[c]
    <3>6. m \in 1 .. Len(received) /\ Recorded(m)
      BY <2>7, <3>5 DEF Recorded
    <3>7. Shelf'.item[b] = m /\ Shelf'.item[c] = n
      BY <2>1, <3>5
    <3> HIDE DEF m, n
    <3>8. CASE n = v
      <4>1. \/ m < v
            \/ received'[m] # received'[v] /\ {received'[m], received'[v]} \cap strays' # {}
        BY <2>3, <3>6 DEF D!InOrder, v
      <4> QED BY <3>7, <3>8, <4>1 DEF D!InOrder
    <3>9. CASE InUse(r, c) /\ n = r.item[c]
      <4>1. n \in Stored(r) /\ D!InOrder(m, n)
        BY <2>1, <3>1, <3>3, <3>5, <3>9 DEF OrderInv, InLine, Stored, m
      <4>2. n \in 1 .. Len(received)
        BY <2>7, <4>1 DEF Recorded
      <4>3. \A k, h \in 1 .. Len(received) : D!InOrder(k, h) => D!InOrder(k, h)'
        BY <1>8
      <4> QED BY <3>6, <3>7, <4>1, <4>2, <4>3 DEF D!InOrder
    <3> QED BY <2>5, <3>1, <3>8, <3>9 DEF n
  <2>11. ASSUME NEW i \in 1 .. Len(tree'), NEW n \in Stored(Shelf)' PROVE D!InOrder(tree[i], n)'
    <3>1. Recorded(tree[i]) /\ tree[i] \in 1 .. Len(received) /\ tree' = tree
      BY <2>9 DEF Recorded
    <3>2. CASE n = v
      <4>1. \A k \in 1 .. Len(received) : Recorded(k) =>
               \/ k < v
               \/ received'[k] # received'[v] /\ {received'[k], received'[v]} \cap strays' # {}
        BY <2>3 DEF D!InOrder, v
      <4> QED BY <3>1, <3>2, <4>1 DEF D!InOrder
    <3>3. CASE n \in Stored(r)
      <4>1. D!InOrder(tree[i], n) /\ n \in 1 .. Len(received)
        BY <2>1, <2>7, <3>3 DEF OrderInv, Recorded
      <4>2. \A k, h \in 1 .. Len(received) : D!InOrder(k, h) => D!InOrder(k, h)'
        BY <1>8
      <4> QED BY <3>1, <4>1, <4>2 DEF D!InOrder
    <3>4. n \in Stored(q)
      BY <2>1 DEF Stored, InUse, Place
    <3> QED BY <2>6, <3>2, <3>3, <3>4
  <2>12. ShownInOrder'
    <3> SUFFICES ASSUME NEW i \in 1 .. Len(tree), NEW j \in 1 .. Len(tree), i < j
                 PROVE  D!InOrder(tree[i], tree[j])'
      BY DEF ShownInOrder, D!ShownInOrder
    <3>1. /\ D!InOrder(tree[i], tree[j])
          /\ tree[i] \in 1 .. Len(received) /\ tree[j] \in 1 .. Len(received)
      BY <2>9 DEF OrderInv, ShownInOrder, D!ShownInOrder, Recorded
    <3>2. \A k, h \in 1 .. Len(received) : D!InOrder(k, h) => D!InOrder(k, h)'
      BY <1>8
    <3> QED BY <3>1, <3>2 DEF D!InOrder
  <2> QED BY <1>7, <2>8, <2>9, <2>10, <2>11, <2>12 DEF OrderInv
<1> QED BY <1>10, <1>11

(* The packet that is shown comes after those in the tree, and before those  *)
(* that stay in the queue.                                                   *)
LEMMA ShowOrdered ==
    ASSUME OrderInv, D!ShowNode, discoEngine \in D!Engines, ~D!Crash
    PROVE  OrderInv'
<1> DEFINE r == recvqueue[block[discoEngine]]
           q == D!popped(r)
           v == r.item[r.front]
<1>1. /\ recvqueue' = [recvqueue EXCEPT ![block[discoEngine]] =
                           IF D!isEmpty(@) THEN @ ELSE D!popped(@)]
      /\ tree' = tree \/ (~D!isEmpty(r) /\ tree' = Append(tree, v))
      /\ UNCHANGED <<discoEngine, made, block, wpc, pkt, received, strays>>
    BY DEF D!ShowNode, D!readDiscoData, D!Data, D!Queue, D!workerVars
<1>2. TypedInv
    BY DEF OrderInv
<1>3. /\ r \in Rings /\ block[discoEngine] \in D!Engines /\ Len(received) \in Nat
      /\ recvqueue \in [D!Engines -> Rings]
    BY <1>2 DEF TypedInv
<1>4. Shelf = r /\ (D!isEmpty(r) => Shelf' = r) /\ (~D!isEmpty(r) => Shelf' = q)
    BY <1>1, <1>3 DEF Shelf
<1>5. ~D!isEmpty(r) =>
         /\ q \in Rings /\ InUse(r, r.front) /\ r.front \in Slots
         /\ \A b \in Slots : InUse(q, b) =>
               /\ InUse(r, b) /\ q.item[b] = r.item[b] /\ Place(r, r.front) < Place(r, b)
               /\ Place(q, b) = Place(r, b) - 1
         /\ \A b \in Slots : Place(r, b) \in Int
    BY <1>3, RingPops, Zenon
<1>6. TypedInv'
  <2>1. recvqueue' \in [D!Engines -> Rings]
    BY <1>1, <1>3, <1>5
  <2>2. ~D!isEmpty(r) => v \in Nat
    BY <1>3, <1>5 DEF Rings
  <2> HIDE DEF v
  <2>3. tree' \in Seq(Nat)
    <3>1. tree \in Seq(Nat)
      BY <1>2 DEF TypedInv
    <3>2. CASE tree' = tree
      BY <3>1, <3>2
    <3>3. CASE ~D!isEmpty(r) /\ tree' = Append(tree, v)
      BY <2>2, <3>1, <3>3
    <3> QED BY <1>1, <3>2, <3>3
  <2> QED BY <1>1, <1>2, <2>1, <2>3 DEF TypedInv, Handling
<1> HIDE DEF q, v
<1>7. ASSUME NEW m, NEW n, D!InOrder(m, n) PROVE D!InOrder(m, n)'
    BY <1>1, <1>7 DEF D!InOrder
<1>8. ASSUME NEW n, Recorded(n) PROVE Recorded(n)'
    BY <1>1, <1>8 DEF Recorded, Handling, D!InOrder
<1>9. CASE D!isEmpty(r)
  <2>1. tree' = tree /\ UNCHANGED Shelf
    BY <1>1, <1>4, <1>9
  <2> QED BY <1>1, <1>2, <1>3, <1>6, <1>8, <2>1, OrderSurvives
<1>10. CASE ~D!isEmpty(r)
  <2>1. v \in Stored(r) /\ Stored(q) \subseteq Stored(r)
    BY <1>5, <1>10 DEF Stored, v
  <2>2. \A n \in Stored(r) : Recorded(n)
    BY <1>4 DEF OrderInv
  <2>3. \A n \in Stored(Shelf)' : n \in Stored(q)
    BY <1>4, <1>10 DEF Stored, InUse, Place
  <2>4. \A n \in Stored(Shelf)' : Recorded(n)'
    BY <1>8, <2>1, <2>2, <2>3
  <2>5. ASSUME NEW i \in 1 .. Len(tree')
        PROVE  \/ i \in 1 .. Len(tree) /\ tree'[i] = tree[i]
               \/ i = Len(tree) + 1 /\ tree'[i] = v /\ tree' # tree
    <3>1. tree \in Seq(Nat) /\ tree' \in Seq(Nat)
      BY <1>2, <1>6 DEF TypedInv
    <3>2. CASE tree' = tree
      BY <3>2
    <3>3. CASE tree' = Append(tree, v)
      <4>1. /\ Len(tree') = Len(tree) + 1 /\ Len(tree) \in Nat /\ tree'[Len(tree) + 1] = v
            /\ \A k \in 1 .. Len(tree) : tree'[k] = tree[k]
        BY <3>1, <3>3
      <4> QED BY <4>1
    <3> QED BY <1>1, <3>2, <3>3
  <2>6. ASSUME NEW i \in 1 .. Len(tree') PROVE Recorded(tree[i])'
    <3>1. Recorded(tree'[i])
      BY <2>1, <2>2, <2>5 DEF OrderInv
    <3>2. \A n : Recorded(n) => /\ n \in 1 .. Len(received')
                                /\ \A e \in D!Engines : Handling(e)' =>
                                      /\ received'[n] = e => n < pkt'[e]
                                      /\ e = discoEngine' => D!InOrder(n, pkt[e])'
      BY <1>8 DEF Recorded
    <3> QED BY <3>1, <3>2 DEF Recorded, D!InOrder
  <2>7. ASSUME NEW n \in Stored(q) PROVE D!InOrder(v, n)
    <3>1. PICK b \in Slots : InUse(q, b) /\ n = q.item[b]
      BY DEF Stored
    <3>2. n = r.item[b] /\ InUse(r, b) /\ InUse(r, r.front) /\ r.front \in Slots
          /\ Place(r, r.front) < Place(r, b)
      BY <1>5, <1>10, <3>1
    <3> QED BY <1>4, <3>2 DEF OrderInv, InLine, v
  <2>8. ASSUME NEW i \in 1 .. Len(tree'), NEW n \in Stored(Shelf)' PROVE D!InOrder(tree[i], n)'
    <3>1. n \in Stored(q) /\ n \in Stored(Shelf)
      BY <1>4, <2>1, <2>3
    <3>2. D!InOrder(tree'[i], n)
      BY <2>5, <2>7, <3>1 DEF OrderInv
    <3> QED BY <1>1, <3>2 DEF D!InOrder
  <2>9. InLine(Shelf)'
    <3> SUFFICES ASSUME NEW b \in Slots, NEW c \in Slots, InUse(Shelf, b)', InUse(Shelf, c)',
                        Place(Shelf, b)' < Place(Shelf, c)'
                 PROVE  D!InOrder(Shelf.item[b], Shelf.item[c])'
      BY DEF InLine
    <3>1. /\ InUse(q, b) /\ InUse(q, c) /\ Place(q, b) < Place(q, c)
          /\ Shelf'.item[b] = q.item[b] /\ Shelf'.item[c] = q.item[c]
      BY <1>4, <1>10 DEF InUse, Place
    <3>2. /\ InUse(r, b) /\ InUse(r, c) /\ Place(r, b) < Place(r, c)
          /\ q.item[b] = r.item[b] /\ q.item[c] = r.item[c]
      BY <1>5, <1>10, <3>1
    <3>3. D!InOrder(r.item[b], r.item[c])
      BY <1>4, <3>2 DEF OrderInv, InLine
    <3> QED BY <1>1, <3>1, <3>2, <3>3 DEF D!InOrder
  <2>10. ShownInOrder'
    <3> SUFFICES ASSUME NEW i \in 1 .. Len(tree'), NEW j \in 1 .. Len(tree'), i < j
                 PROVE  D!InOrder(tree[i], tree[j])'
      BY DEF ShownInOrder, D!ShownInOrder
    <3>1. Len(tree) \in Nat
      BY <1>2 DEF TypedInv
    <3>2. i \in 1 .. Len(tree) /\ tree'[i] = tree[i]
      BY <1>1, <1>2, <2>5, <3>1 DEF TypedInv
    <3>3. D!InOrder(tree'[i], tree'[j])
      BY <1>4, <2>1, <2>5, <3>2 DEF OrderInv, ShownInOrder, D!ShownInOrder
    <3> QED BY <1>1, <3>3 DEF D!InOrder
  <2> QED BY <1>6, <2>4, <2>6, <2>8, <2>9, <2>10 DEF OrderInv
<1> QED BY <1>9, <1>10

(* A step that moves neither packets nor engines. *)
LEMMA OrderSame ==
    ASSUME OrderInv, UNCHANGED <<discoEngine, made, block, recvqueue, pkt, received>>,
           strays \subseteq strays', tree' \in {tree, <<>>},
           \/ wpc' = wpc
           \/ \E e \in D!Engines, p \in {"setup", "recv", "gone"} :
                 wpc[e] # "none" /\ wpc' = [wpc EXCEPT ![e] = p]
           \/ \E e \in D!Engines : wpc[e] = "lock" /\ wpc' = [wpc EXCEPT ![e] = "push"]
    PROVE  OrderInv'
<1>1. TypedInv
    BY DEF OrderInv
<1>2. /\ wpc' = [d \in D!Engines |-> wpc'[d]]
      /\ \A d \in D!Engines : (Handling(d)' => Handling(d)) /\ (wpc[d] = "none" => wpc'[d] = "none")
    BY <1>1 DEF TypedInv, Handling
<1>3. TypedInv'
  <2>1. tree' \in Seq(Nat)
    <3>1. CASE tree' = tree
      BY <1>1, <3>1 DEF TypedInv
    <3>2. CASE tree' = <<>>
      BY <3>2
    <3> QED BY <3>1, <3>2
  <2>2. \A d \in D!Engines : d > made' => wpc'[d] = "none"
    BY <1>1, <1>2 DEF TypedInv
  <2>3. \A d \in D!Engines : Handling(d)' =>
            pkt'[d] \in 1 .. Len(received') /\ received'[pkt'[d]] = d
    BY <1>1, <1>2 DEF TypedInv
  <2> QED BY <1>1, <1>2, <2>1, <2>2, <2>3 DEF TypedInv
<1>4. UNCHANGED <<Shelf, discoEngine>>
    BY DEF Shelf
<1> QED BY <1>2, <1>3, <1>4, OrderStays

(* A new engine has a queue without packets, and no worker that handles one, *)
(* whatever the memory it gets was used for.                                 *)
LEMMA NewOrdered ==
    ASSUME OrderInv, ButtonInv, D!ClickDiscover \/ D!ClickDiscoverFails
    PROVE  OrderInv'
<1>1. TypedInv
    BY DEF OrderInv
<1>2. PICK a \in 1 .. made' : /\ block' = [block EXCEPT ![made'] = a]
                              /\ recvqueue' = [recvqueue EXCEPT ![a] = D!RingNew(DATAQ_SIZE)]
    BY DEF D!ClickDiscover, D!ClickDiscoverFails, D!NewEngine
<1>3. /\ made' = made + 1 /\ made' \in D!Engines /\ made \in Nat /\ a \in D!Engines
      /\ UNCHANGED <<tree, pkt, received, strays>>
      /\ discoEngine' \in {made', NULL}
      /\ wpc' = wpc \/ wpc' = [wpc EXCEPT ![made'] = "born"]
    BY <1>2 DEF D!ClickDiscover, D!ClickDiscoverFails, D!NewEngine, D!startEngine,
                ButtonInv, D!Engines
<1>4. wpc[made'] = "none"
    BY <1>1, <1>3 DEF TypedInv
<1>5. /\ wpc' = [d \in D!Engines |-> wpc'[d]] /\ wpc'[made'] \in {"none", "born"}
      /\ \A d \in D!Engines \ {made'} : wpc'[d] = wpc[d]
    BY <1>1, <1>3, <1>4 DEF TypedInv
<1>6. \A d \in D!Engines : Handling(d)' => Handling(d)
    BY <1>5 DEF Handling
<1>7. block' \in [D!Engines -> D!Engines] /\ recvqueue' \in [D!Engines -> Rings]
    BY <1>1, <1>2, <1>3, RingStarts DEF TypedInv
<1>8. TypedInv'
  <2>1. \A d \in D!Engines : d > made' => wpc'[d] = "none"
    BY <1>1, <1>3, <1>5 DEF TypedInv, D!Engines
  <2> QED BY <1>1, <1>3, <1>5, <1>6, <1>7, <2>1 DEF TypedInv
<1>9. Shelf' = D!RingNew(DATAQ_SIZE)
  <2>1. recvqueue'[block'[made']] = D!RingNew(DATAQ_SIZE)
    BY <1>1, <1>2, <1>3 DEF TypedInv
  <2> QED BY <1>3, <2>1 DEF Shelf
<1>10. \A b \in Slots : ~InUse(Shelf, b)'
    BY <1>9, RingStarts DEF InUse, Place
<1>11. discoEngine' \in D!Engines => ~Handling(discoEngine)'
    BY <1>3, <1>5 DEF Handling
<1> QED BY <1>3, <1>6, <1>8, <1>10, <1>11, OrderStays

LEMMA OrderNext ==
    ASSUME OrderInv, ButtonInv, [D!Next]_(D!vars)
    PROVE  OrderInv'
<1> USE DEF D!uiVars, D!engineVars, D!workerVars
<1>1. CASE D!Crash
    BY <1>1, OrderSame DEF D!Crash
<1>2. CASE D!ClickDiscover \/ D!ClickDiscoverFails
    BY <1>2, NewOrdered
<1>3. CASE D!ClickStop \/ D!Refresh \/ D!Clear \/ D!StopEngine
    BY <1>1, <1>3, OrderSame DEF D!ClickStop, D!Refresh, D!Show, D!Clear, D!StopEngine
<1>4. CASE D!ShowNode
  <2>1. discoEngine \in D!Engines
    BY <1>4 DEF D!ShowNode, ButtonInv
  <2> QED BY <1>1, <1>4, <2>1, ShowOrdered
<1>5. CASE D!DeleteEngine
  <2>1. TypedInv
    BY DEF OrderInv
  <2>2. TypedInv'
    BY <1>5, <2>1 DEF D!DeleteEngine, TypedInv, Handling
  <2>3. discoEngine' \notin D!Engines
    BY <1>5 DEF D!DeleteEngine
  <2>4. \A b \in Slots : ~InUse(Shelf, b)'
    BY <2>3, RingStarts DEF Shelf, InUse, Place
  <2> QED BY <1>5, <2>2, <2>3, <2>4, OrderStays DEF D!DeleteEngine, Handling
<1>6. ASSUME NEW e \in D!Engines, D!Worker(e) PROVE OrderInv'
  <2>1. CASE D!SetThreadId(e) \/ D!Setup(e) \/ D!Cancelled(e)
    BY <2>1, OrderSame DEF D!SetThreadId, D!Setup, D!Cancelled
  <2>2. CASE D!Receive(e)
    BY <2>2, ReceiveOrdered
  <2>3. CASE D!WLock(e) \/ D!WUnlock(e)
    BY <1>1, <2>3, OrderSame DEF D!WLock, D!WUnlock, D!Uses
  <2>4. CASE D!WPush(e)
    BY <1>1, <2>4, PushOrdered DEF D!WPush, D!Uses
  <2> QED BY <1>6, <2>1, <2>2, <2>3, <2>4 DEF D!Worker
<1>7. CASE UNCHANGED D!vars
    BY <1>7, OrderSame DEF D!vars
<1> QED BY <1>2, <1>3, <1>4, <1>5, <1>6, <1>7 DEF D!Next, D!User, D!Window, D!Over

(* The tree lists each packet once, and those of a worker in the order it    *)
(* received them, for any size of the queue, any number of discoveries and   *)
(* whatever memory operator new gives them; packets of different workers are *)
(* out of order only when one of them outlived its engine and pushed into    *)
(* the queue of a later one.                                                 *)
THEOREM TreeOrdered == D!Spec => []ShownInOrder
<1>1. D!Init => OrderInv
  <2> SUFFICES ASSUME D!Init PROVE OrderInv
    OBVIOUS
  <2>1. /\ discoEngine \notin D!Engines /\ tree = <<>> /\ received = <<>>
        /\ wpc = [e \in D!Engines |-> "none"] /\ pkt = [e \in D!Engines |-> 0]
        /\ block = [e \in D!Engines |-> e]
        /\ recvqueue = [e \in D!Engines |-> D!RingNew(DATAQ_SIZE)]
    BY DEF D!Init
  <2>2. TypedInv
    BY <2>1, RingStarts DEF TypedInv, Handling
  <2>3. Stored(Shelf) = {} /\ InLine(Shelf)
    BY <2>1, RingStarts DEF Shelf, Stored, InLine
  <2> QED BY <2>1, <2>2, <2>3 DEF OrderInv, ShownInOrder, D!ShownInOrder
<1>2. OrderInv => ShownInOrder
    BY DEF OrderInv
<1> QED BY <1>1, <1>2, ButtonInit, ButtonNext, OrderNext, PTL DEF D!Spec

-----------------------------------------------------------------------------
(* The verifier store *)

InCall == {"test", "join", "wait", "clear", "get"}

(* The thread that was started last has added its users. *)
Settled == begun > 0 => todo[begun] = {}

(* As long as none was forgotten, only the thread that was started last can  *)
(* have users to add, and then the field holds it; what its file names is in *)
(* the map but for those.  So a caller during whose call no thread began, and *)
(* which found the field cleared or has waited for what it found there, asks *)
(* a map that is complete.  A field that a caller meets cleared was cleared  *)
(* by another, which goes on to ask the map.                                 *)
StoreInv ==
    /\ starts \in 0 .. MaxStarts /\ begun \in 0 .. starts
    /\ addUserThread \in {0, starts}
    /\ files \in [V!AddThreads -> SUBSET V!Users]
    /\ todo \in [V!AddThreads -> SUBSET V!Users]
    /\ vpc \in [Callers -> InCall \cup {"idle", "answered", "missed", "exception"}]
    /\ joined \in [Callers -> 0 .. starts]
    /\ service # "made" => addUserThread \in {0, begun}
    /\ service = "made" => begun < starts
    /\ service \in {"starting", "started"} \/ bound => begun > 0
    /\ \A c \in Callers :
          /\ begun = 0 => vpc[c] = "idle"
          /\ vpc[c] = "wait" => joined[c] # 0
          /\ vpc[c] = "exception" \/ (vpc[c] = "join" /\ addUserThread = 0) =>
                \E d \in Callers \ {c} : vpc[d] \in {"get", "answered", "missed"}
    /\ ~forgotten =>
          /\ \A k \in V!AddThreads : k # begun => todo[k] = {}
          /\ addUserThread # begun => Settled
          /\ begun > 0 => files[begun] \subseteq storeMap \cup todo[begun]
          /\ \A c \in Callers \ disturbed :
                /\ vpc[c] = "wait" => joined[c] = begun \/ Settled
                /\ vpc[c] \in {"clear", "get"} => Settled
                /\ vpc[c] # "missed"

LEMMA LifeCycleKeeps ==
    ASSUME StoreInv, V!startService \/ V!start \/ V!rebind \/ V!stopService
    PROVE  StoreInv'
<1> USE DEF StoreInv, V!AddThreads, V!callers, V!field, V!NoThread, Settled
<1>1. CASE V!startService /\ service' = "made"
  <2>1. /\ service = "stopped" /\ starts' = starts + 1 /\ addUserThread' = starts + 1
        /\ forgotten' = (forgotten \/ V!Adding) /\ starts + 1 \in V!AddThreads
        /\ UNCHANGED <<begun, todo, storeMap, bound, vpc, joined, disturbed>>
    BY <1>1 DEF V!startService
  <2>2. /\ files' \in [V!AddThreads -> SUBSET V!Users]
        /\ begun > 0 => files'[begun] = files[begun]
    <3>1. PICK F \in Files : files' = [files EXCEPT ![starts + 1] = F]
      BY <1>1, <2>1 DEF V!startService
    <3>2. F \in SUBSET V!Users
      BY DEF V!Users
    <3> QED BY <2>1, <3>1, <3>2
  <2>3. ~forgotten' => ~forgotten /\ Settled
    <3>1. ~forgotten' => ~forgotten /\ ~V!Adding
      BY <2>1, Zenon
    <3> QED BY <2>1, <3>1 DEF V!Adding
  <2> QED BY <1>1, <2>1, <2>2, <2>3
<1>2. CASE V!startService /\ service' # "made"
    BY <1>2 DEF V!startService
<1>3. CASE V!start /\ addUserThread = 0
    BY <1>3 DEF V!start
<1>4. CASE V!start /\ addUserThread # 0
  <2>1. /\ service = "made" /\ service' = "starting" /\ addUserThread = starts
        /\ begun' = starts /\ starts > begun /\ starts \in V!AddThreads
        /\ todo' = [todo EXCEPT ![starts] = files[starts]]
        /\ UNCHANGED <<starts, files, addUserThread, forgotten, storeMap, bound, vpc, joined>>
    BY <1>4 DEF V!start
  <2>2. \A c \in Callers \ disturbed' : vpc[c] \notin InCall /\ c \notin disturbed
    BY <1>4 DEF V!start, V!Returned, InCall
  <2>3. ~forgotten => \A k \in V!AddThreads : k # starts => todo[k] = {}
    BY <2>1
  <2> QED BY <2>1, <2>2, <2>3 DEF InCall
<1>5. CASE V!rebind \/ V!stopService
    BY <1>5 DEF V!rebind, V!stopService
<1> QED BY <1>1, <1>2, <1>3, <1>4, <1>5

LEMMA AddUsersKeeps ==
    ASSUME StoreInv, V!AddUsers
    PROVE  StoreInv'
<1> USE DEF StoreInv, V!AddThreads, V!callers, V!field, Settled
<1>1. PICK k \in V!AddThreads, u \in V!Users : V!addUser(k, u)
    BY DEF V!AddUsers
<1>2. /\ u \in todo[k] /\ todo' = [todo EXCEPT ![k] = @ \ {u}]
      /\ UNCHANGED <<service, starts, files, begun, addUserThread, forgotten, bound, vpc,
                     joined, disturbed>>
    BY <1>1 DEF V!addUser
<1>3. ASSUME ~forgotten PROVE storeMap' = storeMap \cup {u}
  <2>1. k = begun /\ \A j \in V!AddThreads \ {k} : todo[j] = {}
    BY <1>2, <1>3
  <2> QED BY <1>1, <2>1 DEF V!addUser
<1> QED BY <1>2, <1>3

LEMMA CallerKeeps ==
    ASSUME StoreInv, NEW c \in Callers, V!Call(c) \/ V!getUserVerifier(c)
    PROVE  StoreInv'
<1> USE DEF StoreInv, V!AddThreads, V!Else, V!Goto, V!NoThread, V!field, InCall, Settled
<1>1. CASE V!Call(c)
  <2>1. /\ bound /\ vpc[c] = "idle" /\ vpc' = [vpc EXCEPT ![c] = "test"]
        /\ UNCHANGED <<service, starts, files, begun, todo, storeMap, bound, addUserThread,
                       forgotten, joined, disturbed>>
    BY <1>1 DEF V!Call
  <2>2. vpc' \in [Callers -> InCall \cup {"idle", "answered", "missed", "exception"}]
    BY <2>1
  <2>3. \A d \in Callers : vpc[d] \in {"get", "answered", "missed"} => vpc'[d] = vpc[d]
    BY <2>1
  <2> QED BY <2>1, <2>2, <2>3
<1>2. CASE V!Test(c)
    BY <1>2 DEF V!Test
<1>3. CASE V!Join(c)
    BY <1>3 DEF V!Join
<1>4. CASE V!Joined(c)
  <2>1. /\ vpc[c] = "wait" /\ todo[joined[c]] = {} /\ vpc' = [vpc EXCEPT ![c] = "clear"]
        /\ UNCHANGED <<service, starts, files, begun, todo, storeMap, bound, addUserThread,
                       forgotten, joined, disturbed>>
    BY <1>4 DEF V!Joined
  <2>2. vpc' \in [Callers -> InCall \cup {"idle", "answered", "missed", "exception"}]
    BY <2>1
  <2>3. \A d \in Callers : vpc[d] \in {"get", "answered", "missed"} => vpc'[d] = vpc[d]
    BY <2>1
  <2>4. ~forgotten /\ c \notin disturbed => Settled
    BY <2>1
  <2> QED BY <2>1, <2>2, <2>3, <2>4
<1>5. CASE V!Interrupted(c)
    BY <1>5 DEF V!Interrupted
<1>6. CASE V!Clear(c)
  <2>1. ~forgotten' => ~forgotten /\ Settled
    <3>1. ~forgotten' =>
             ~forgotten /\ ~(V!Adding /\ (addUserThread # joined[c] \/ c \in disturbed))
      BY <1>6, Zenon DEF V!Clear
    <3> QED BY <1>6, <3>1 DEF V!Clear, V!Adding
  <2>2. /\ vpc[c] = "clear" /\ vpc' = [vpc EXCEPT ![c] = "get"] /\ addUserThread' = 0
        /\ joined' = [joined EXCEPT ![c] = 0]
        /\ UNCHANGED <<service, starts, files, begun, todo, storeMap, bound, disturbed>>
    BY <1>6 DEF V!Clear
  <2>3. /\ vpc' \in [Callers -> InCall \cup {"idle", "answered", "missed", "exception"}]
        /\ joined' \in [Callers -> 0 .. starts]
    BY <2>2
  <2>4. vpc'[c] = "get" /\ \A d \in Callers \ {c} : vpc'[d] = vpc[d] /\ joined'[d] = joined[d]
    BY <2>2
  <2> QED BY <2>1, <2>2, <2>3, <2>4
<1>7. CASE V!Get(c)
  <2>1. /\ vpc[c] = "get" /\ vpc' \in {[vpc EXCEPT ![c] = "answered"], [vpc EXCEPT ![c] = "missed"]}
        /\ UNCHANGED <<service, starts, files, begun, todo, storeMap, bound, addUserThread,
                       forgotten, joined, disturbed>>
    BY <1>7 DEF V!Get
  <2>2. ASSUME ~forgotten, c \notin disturbed PROVE vpc' = [vpc EXCEPT ![c] = "answered"]
    <3>1. begun > 0 /\ todo[begun] = {} /\ files[begun] \subseteq storeMap
      BY <2>1, <2>2
    <3>2. \A k \in V!AddThreads : todo[k] = {}
      BY <2>2, <3>1
    <3> QED BY <1>7, <3>1, <3>2 DEF V!Get
  <2>3. /\ vpc' \in [Callers -> InCall \cup {"idle", "answered", "missed", "exception"}]
        /\ \A d \in Callers \ {c} : vpc'[d] = vpc[d]
        /\ vpc'[c] \in {"answered", "missed"}
    BY <2>1
  <2>4. ~forgotten /\ c \notin disturbed => vpc'[c] = "answered"
    BY <2>2
  <2> QED BY <2>1, <2>3, <2>4
<1> QED BY <1>1, <1>2, <1>3, <1>4, <1>5, <1>6, <1>7 DEF V!getUserVerifier

(* As long as no thread that adds users is forgotten, every user of the file *)
(* that was read last is found, over any number of restarts with other files *)
(* and for any number of callers, but by one that was interrupted or during  *)
(* whose call the next thread began; and only a caller that lost the race    *)
(* for the field gets an exception.                                          *)
THEOREM UsersFound == V!Spec => []VerifierFound
<1>1. V!Init => StoreInv
  <2> SUFFICES ASSUME V!Init PROVE StoreInv
    OBVIOUS
  <2>1. ~bound
    BY Zenon DEF V!Init
  <2> QED BY <2>1 DEF V!Init, StoreInv, V!AddThreads, V!NoThread, Settled
<1>2. StoreInv /\ [V!Next]_(V!vars) => StoreInv'
  <2> SUFFICES ASSUME StoreInv, [V!Next]_(V!vars) PROVE StoreInv'
    OBVIOUS
  <2>1. CASE UNCHANGED V!vars
    BY <2>1 DEF V!vars, V!field, V!callers, StoreInv, Settled
  <2> QED BY <2>1, LifeCycleKeeps, AddUsersKeeps, CallerKeeps DEF V!Next
<1>3. StoreInv => VerifierFound
    BY DEF StoreInv, VerifierFound, V!VerifierFound
<1> QED BY <1>1, <1>2, <1>3, PTL DEF V!Spec

-----------------------------------------------------------------------------
(* The resource adapter *)

(* The managed connection a bean has, from getConnection until it has told   *)
(* the pool; 0 when it has none.                                             *)
Own(b) == IF bpc[b] = "holding" THEN held[b]
          ELSE IF bpc[b] = "firing" /\ fire[b].i > 0 THEN fire[b].mc
          ELSE 0

(* What is known of the bean b: the listeners of the connection it has and   *)
(* those it has told, by how far its event has come.                         *)
BeanInv(b) ==
    /\ bpc[b] \in {"idle", "holding", "firing", "closed", "refused"}
    /\ bpc[b] = "holding" => held[b] \in mcs \ free
                             /\ listeners[held[b]] = <<A!Pool, b>>
    /\ bpc[b] = "firing" => fire[b].i \in {0, 1, 2} /\ fire[b].mc \in mcs
    /\ bpc[b] = "firing" /\ fire[b].i = 2 =>
          /\ fire[b].mc \notin free /\ told[b] = <<>>
          /\ listeners[fire[b].mc] = <<A!Pool, b>>
    /\ bpc[b] = "firing" /\ fire[b].i = 1 =>
          /\ fire[b].mc \notin free /\ told[b] = <<b>>
          /\ listeners[fire[b].mc] = <<A!Pool>>
    /\ bpc[b] = "firing" /\ fire[b].i = 0 => told[b] = <<b, A!Pool>>
    /\ bpc[b] = "closed" => told[b] = <<b, A!Pool>>

Shaped ==
    /\ free \subseteq mcs /\ mcs \subseteq A!MCs
    /\ conn \in [A!MCs -> Nat] /\ \A m \in A!MCs : conn[m] \in {0, m}
    /\ listeners = [m \in A!MCs |-> listeners[m]]
    /\ bpc = [b \in Beans |-> bpc[b]] /\ held = [b \in Beans |-> held[b]]
    /\ fire \in [Beans -> [mc : Nat, i : Nat]]
    /\ told = [b \in Beans |-> told[b]]

(* Every connection outside the pool has one owner, and in the pool it is    *)
(* left with the pool as its only listener.                                  *)
PoolInv ==
    /\ Shaped
    /\ \A m \in free : listeners[m] = <<A!Pool>>
    /\ \A b \in Beans : BeanInv(b)
    /\ \A a, b \in Beans : a # b /\ Own(a) = Own(b) => Own(a) = 0
    /\ \A m \in mcs \ free : \E b \in Beans : Own(b) = m

(* Lists of one and of two. *)
LEMMA Pairs ==
    ASSUME NEW x, NEW y
    PROVE  Append(<<x>>, y) = <<x, y>> /\ Len(<<x, y>>) = 2
<1>1. /\ <<x>> \in Seq({x, y}) /\ Len(<<x>>) = 1 /\ <<x>>[1] = x
      /\ <<x, y>> \in Seq({x, y}) /\ Len(<<x, y>>) = 2
      /\ <<x, y>>[1] = x /\ <<x, y>>[2] = y
    OBVIOUS
<1>2. /\ Append(<<x>>, y) \in Seq({x, y}) /\ Len(Append(<<x>>, y)) = 2
      /\ Append(<<x>>, y)[1] = x /\ Append(<<x>>, y)[2] = y
    BY <1>1, AppendProperties
<1>3. \A k \in 1 .. 2 : Append(<<x>>, y)[k] = <<x, y>>[k]
    BY <1>1, <1>2
<1> QED BY <1>1, <1>2, <1>3, SeqEqual

(* listeners.remove of the observer of a bean. *)
LEMMA RemoveObserver ==
    ASSUME NEW b \in Beans
    PROVE  A!Without(<<A!Pool, b>>, b) = <<A!Pool>>
<1> DEFINE s == <<A!Pool, b>>
           First(k) == s[k] = b /\ \A j \in 1 .. k - 1 : s[j] # b
<1>1. Len(s) = 2 /\ s[1] = A!Pool /\ s[2] = b /\ s[1] # b
    OBVIOUS
<1>2. First(2) /\ \A k \in 1 .. 2 : First(k) => k = 2
    BY <1>1
<1>3. (CHOOSE k \in 1 .. Len(s) : First(k)) = 2
    BY <1>1, <1>2
<1>4. A!Without(s, b) = SubSeq(s, 1, 1) \o SubSeq(s, 3, 2)
    BY <1>1, <1>3 DEF A!Without
<1>5. s \in Seq(Beans \cup {A!Pool})
    OBVIOUS
<1> HIDE DEF s
<1>6. SubSeq(s, 3, 2) = <<>>
    BY SubSeqEmpty
<1>7. SubSeq(s, 1, 1) = <<A!Pool>>
  <2>1. /\ SubSeq(s, 1, 1) \in Seq(Beans \cup {A!Pool})
        /\ Len(SubSeq(s, 1, 1)) = 1 /\ SubSeq(s, 1, 1)[1] = A!Pool
    BY <1>1, <1>5, SubSeqProperties
  <2>2. /\ <<A!Pool>> \in Seq(Beans \cup {A!Pool})
        /\ Len(<<A!Pool>>) = 1 /\ <<A!Pool>>[1] = A!Pool
    OBVIOUS
  <2>3. \A k \in 1 .. Len(SubSeq(s, 1, 1)) : SubSeq(s, 1, 1)[k] = <<A!Pool>>[k]
    BY <2>1, <2>2
  <2> QED BY <2>1, <2>2, <2>3, SeqEqual
<1> QED BY <1>4, <1>6, <1>7 DEF s

(* Taking a connection: from the pool or a new one, which no bean has. *)
LEMMA TakeKeeps ==
    ASSUME PoolInv, NEW b \in Beans, A!Asks(b), NEW m \in A!MCs,
           m \in free \/ m \notin mcs,
           mcs' = mcs \cup {m}, free' = free \ {m},
           listeners' = [listeners EXCEPT ![m] = <<A!Pool, b>>],
           A!getConnection(b, m)
    PROVE  PoolInv'
<1>1. /\ bpc[b] = "idle" /\ bpc' = [bpc EXCEPT ![b] = "holding"]
      /\ held' = [held EXCEPT ![b] = m]
      /\ conn' = [conn EXCEPT ![m] = m]
      /\ UNCHANGED <<fire, told>>
    BY DEF A!Asks, A!getConnection, PoolInv, Shaped, A!NoHandle, A!MCs
<1>2. ASSUME NEW a \in Beans, a # b
      PROVE  BeanInv(a)' /\ Own(a)' = Own(a) /\ Own(a) # m
  <2>1. bpc'[a] = bpc[a] /\ held'[a] = held[a]
    BY <1>1, <1>2 DEF PoolInv, Shaped
  <2>2. BeanInv(a)
    BY DEF PoolInv, Shaped
  <2>3. Own(a) # m
    BY <2>2 DEF Own, BeanInv, PoolInv, Shaped, A!MCs
  <2>4. BeanInv(a)'
    BY <1>1, <2>1, <2>2 DEF BeanInv, PoolInv
  <2> QED BY <1>1, <2>1, <2>3, <2>4 DEF Own
<1>3. BeanInv(b)' /\ Own(b)' = m /\ Own(b) = 0
    BY <1>1 DEF BeanInv, Own, PoolInv, Shaped
<1>4. ASSUME NEW k \in mcs' \ free' PROVE \E a \in Beans : Own(a)' = k
  <2>1. CASE k = m
    BY <1>3, <2>1
  <2>2. CASE k # m
    <3>1. k \in mcs \ free /\ k # 0
      BY <2>2 DEF PoolInv, Shaped, A!MCs
    <3>2. PICK a \in Beans : Own(a) = k
      BY <3>1 DEF PoolInv, Shaped
    <3> QED BY <1>2, <1>3, <3>1, <3>2
  <2> QED BY <2>1, <2>2
<1>5. \A a, d \in Beans : a # d /\ Own(a)' = Own(d)' => Own(a)' = 0
    BY <1>2, <1>3 DEF PoolInv, Shaped
<1>6. \A k \in free' : listeners'[k] = <<A!Pool>>
    BY DEF PoolInv, Shaped
<1>7. \A a \in Beans : BeanInv(a)'
    BY <1>2, <1>3
<1>8. Shaped'
  <2>1. free' \subseteq mcs' /\ mcs' \subseteq A!MCs
    BY DEF PoolInv, Shaped
  <2>2. conn' \in [A!MCs -> Nat] /\ \A k \in A!MCs : conn'[k] \in {0, k}
    BY <1>1 DEF PoolInv, Shaped, A!MCs
  <2>3. listeners' = [k \in A!MCs |-> listeners'[k]]
    BY DEF PoolInv, Shaped
  <2>4. bpc' = [a \in Beans |-> bpc'[a]] /\ held' = [a \in Beans |-> held'[a]]
    BY <1>1 DEF PoolInv, Shaped
  <2>5. fire' \in [Beans -> [mc : Nat, i : Nat]] /\ told' = [a \in Beans |-> told'[a]]
    BY <1>1 DEF PoolInv, Shaped
  <2> QED BY <2>1, <2>2, <2>3, <2>4, <2>5 DEF Shaped
<1> QED BY <1>4, <1>5, <1>6, <1>7, <1>8, Zenon DEF PoolInv

(* A bean that goes on with the connection it has, or gives it back to the   *)
(* pool, disturbs no other bean.                                             *)
LEMMA GoOnKeeps ==
    ASSUME PoolInv, Shaped', NEW b \in Beans, BeanInv(b)', UNCHANGED mcs,
           \A a \in Beans \ {b} : /\ bpc'[a] = bpc[a] /\ held'[a] = held[a]
                                  /\ fire'[a] = fire[a] /\ told'[a] = told[a],
           \A m \in A!MCs \ {Own(b)} : listeners'[m] = listeners[m],
           \/ Own(b)' = Own(b) /\ free' = free
           \/ /\ Own(b)' = 0 /\ free' = free \cup {Own(b)}
              /\ listeners'[Own(b)] = <<A!Pool>>
    PROVE  PoolInv'
<1>1. ASSUME NEW a \in Beans, a # b
      PROVE  BeanInv(a)' /\ Own(a)' = Own(a)
  <2>1. BeanInv(a) /\ (Own(a) = Own(b) => Own(a) = 0)
    BY <1>1 DEF PoolInv
  <2>2. /\ bpc'[a] = bpc[a] /\ held'[a] = held[a]
        /\ fire'[a] = fire[a] /\ told'[a] = told[a]
    BY <1>1
  <2>3. ASSUME Own(a) # 0
        PROVE  listeners'[Own(a)] = listeners[Own(a)] /\ (Own(a) \in free' <=> Own(a) \in free)
    <3>1. Own(a) \in A!MCs
      BY <2>1, <2>3 DEF Own, BeanInv, PoolInv, Shaped
    <3> QED BY <2>1, <2>3, <3>1
  <2>4. Own(a)' = Own(a)
    BY <2>2 DEF Own
  <2>5. BeanInv(a)'
    <3>1. CASE Own(a) # 0
      BY <2>1, <2>2, <2>3, <3>1 DEF BeanInv, Own
    <3>2. CASE Own(a) = 0
      <4>1. bpc[a] # "holding" /\ (bpc[a] = "firing" => fire[a].i = 0)
        <5>1. mcs \subseteq A!MCs /\ \A m \in A!MCs : m \in Nat /\ m # 0
          <6>1. mcs \subseteq A!MCs
            BY DEF PoolInv, Shaped
          <6>2. \A m \in A!MCs : m \in Nat /\ m # 0
            BY DEF A!MCs
          <6> QED BY <6>1, <6>2
        <5>2. bpc[a] # "holding"
          BY <2>1, <3>2, <5>1 DEF BeanInv, Own
        <5>3. ASSUME bpc[a] = "firing" PROVE fire[a].i = 0
          <6>1. fire[a].i \in {0, 1, 2} /\ fire[a].mc \in mcs
            BY <2>1, <5>3 DEF BeanInv
          <6> QED BY <3>2, <5>1, <5>2, <5>3, <6>1 DEF Own
        <5> QED BY <5>2, <5>3
      <4> QED BY <2>1, <2>2, <4>1 DEF BeanInv
    <3> QED BY <3>1, <3>2
  <2> QED BY <2>4, <2>5
<1>2. \A a \in Beans : BeanInv(a)'
    BY <1>1
<1>3. \A a, d \in Beans : a # d /\ Own(a)' = Own(d)' => Own(a)' = 0
    BY <1>1 DEF PoolInv
<1>4. ASSUME NEW m \in mcs' \ free' PROVE \E a \in Beans : Own(a)' = m
  <2>1. PICK a \in Beans : Own(a) = m
    BY DEF PoolInv
  <2> QED BY <1>1, <2>1
<1>5. ASSUME NEW m \in free' PROVE listeners'[m] = <<A!Pool>>
  <2>1. BeanInv(b) /\ 0 \notin free
    BY DEF PoolInv, Shaped, A!MCs
  <2>2. Own(b) \notin free
    BY <2>1 DEF Own, BeanInv
  <2>3. CASE m \in free
    BY <2>2, <2>3 DEF PoolInv, Shaped
  <2> QED BY <2>3
<1> QED BY <1>2, <1>3, <1>4, <1>5, Zenon DEF PoolInv

(* close: the event starts with the observer of the bean. *)
LEMMA CloseKeeps ==
    ASSUME PoolInv, NEW b \in Beans, A!close(b)
    PROVE  PoolInv'
<1>1. /\ bpc[b] = "holding" /\ bpc' = [bpc EXCEPT ![b] = "firing"]
      /\ fire' = [fire EXCEPT ![b] = [mc |-> held[b], i |-> Len(listeners[held[b]])]]
      /\ told' = [told EXCEPT ![b] = <<>>]
      /\ UNCHANGED <<mcs, free, conn, listeners, held>>
    BY DEF A!close
<1>2. BeanInv(b) /\ Shaped
    BY DEF PoolInv
<1>3. held[b] \in mcs \ free /\ listeners[held[b]] = <<A!Pool, b>>
    BY <1>1, <1>2 DEF BeanInv
<1>4. Len(listeners[held[b]]) = 2 /\ held[b] \in Nat
  <2>1. held[b] \in Nat
    BY <1>2, <1>3 DEF Shaped, A!MCs
  <2> QED BY <1>3, <2>1, Pairs
<1>5. fire' = [fire EXCEPT ![b] = [mc |-> held[b], i |-> 2]]
    BY <1>1, <1>4
<1>6. fire'[b] = [mc |-> held[b], i |-> 2] /\ bpc'[b] = "firing" /\ told'[b] = <<>>
    BY <1>1, <1>2, <1>5 DEF Shaped
<1>7. BeanInv(b)' /\ Own(b)' = Own(b)
    BY <1>1, <1>3, <1>6 DEF BeanInv, Own
<1>8. Shaped'
  <2>1. fire' \in [Beans -> [mc : Nat, i : Nat]]
    BY <1>2, <1>4, <1>5 DEF Shaped
  <2> QED BY <1>1, <1>2, <2>1 DEF Shaped
<1>9. \A a \in Beans \ {b} : /\ bpc'[a] = bpc[a] /\ held'[a] = held[a]
                             /\ fire'[a] = fire[a] /\ told'[a] = told[a]
    BY <1>1, <1>2, <1>5 DEF Shaped
<1> QED BY <1>1, <1>7, <1>8, <1>9, GoOnKeeps

(* fireConnectionEvent: first the observer, which removes itself, then the   *)
(* pool, which has the connection back.                                      *)
LEMMA FireKeeps ==
    ASSUME PoolInv, NEW b \in Beans, A!fireConnectionEvent(b)
    PROVE  PoolInv'
<1> DEFINE m == fire[b].mc
           l == listeners[m][fire[b].i]
<1>1. /\ bpc[b] = "firing" /\ fire[b].i > 0
      /\ fire' = [fire EXCEPT ![b].i = @ - 1]
      /\ told' = [told EXCEPT ![b] = Append(@, l)]
      /\ IF l = A!Pool
         THEN free' = free \cup {m} /\ UNCHANGED listeners
         ELSE listeners' = [listeners EXCEPT ![m] = A!Without(@, l)] /\ UNCHANGED free
      /\ UNCHANGED <<mcs, conn, bpc, held>>
    BY DEF A!fireConnectionEvent, A!connectionClosed
<1>2. BeanInv(b) /\ Shaped
    BY DEF PoolInv
<1>3. m \in mcs /\ fire[b].i \in {1, 2} /\ Own(b) = m
    BY <1>1, <1>2 DEF BeanInv, Own
<1>4. m \in A!MCs /\ m \in Nat
    BY <1>2, <1>3 DEF Shaped, A!MCs
<1>5. \A i \in Nat : fire[b].i = i + 1 => fire' = [fire EXCEPT ![b] = [mc |-> m, i |-> i]]
  <2> SUFFICES ASSUME NEW i \in Nat, fire[b].i = i + 1
               PROVE  fire' = [fire EXCEPT ![b] = [mc |-> m, i |-> i]]
    OBVIOUS
  <2>1. fire' = [fire EXCEPT ![b] = [fire[b] EXCEPT !.i = i]]
    <3>1. fire[b].i - 1 = i
      OBVIOUS
    <3> QED BY <1>1, <3>1, Zenon
  <2>2. [fire[b] EXCEPT !.i = i] = [mc |-> m, i |-> i]
    <3>1. fire[b] \in [mc : Nat, i : Nat]
      BY <1>2 DEF Shaped
    <3> QED BY <3>1
  <2> QED BY <2>1, <2>2
<1>6. CASE fire[b].i = 2
  <2>1. listeners[m] = <<A!Pool, b>> /\ told[b] = <<>> /\ m \notin free
    BY <1>1, <1>2, <1>6 DEF BeanInv
  <2>2. l = b /\ l # A!Pool /\ Append(<<>>, l) = <<b>>
    BY <1>6, <2>1
  <2>3. listeners' = [listeners EXCEPT ![m] = <<A!Pool>>] /\ free' = free
    BY <1>1, <2>1, <2>2, RemoveObserver
  <2> HIDE DEF m, l
  <2>4. told' = [told EXCEPT ![b] = <<b>>]
    BY <1>1, <2>1, <2>2
  <2>5. fire' = [fire EXCEPT ![b] = [mc |-> m, i |-> 1]]
    BY <1>5, <1>6
  <2>6. /\ fire'[b] = [mc |-> m, i |-> 1] /\ told'[b] = <<b>> /\ bpc'[b] = "firing"
        /\ listeners'[m] = <<A!Pool>>
    BY <1>1, <1>2, <1>4, <2>3, <2>4, <2>5 DEF Shaped
  <2>7. BeanInv(b)' /\ Own(b)' = Own(b)
    BY <1>1, <1>3, <2>1, <2>3, <2>6 DEF BeanInv, Own
  <2>8. Shaped'
    <3>1. listeners' = [k \in A!MCs |-> listeners'[k]]
      BY <1>2, <2>3 DEF Shaped
    <3>2. fire' \in [Beans -> [mc : Nat, i : Nat]] /\ told' = [a \in Beans |-> told'[a]]
      BY <1>2, <1>4, <2>4, <2>5 DEF Shaped
    <3> QED BY <1>1, <1>2, <2>3, <3>1, <3>2 DEF Shaped
  <2>9. \A a \in Beans \ {b} : /\ bpc'[a] = bpc[a] /\ held'[a] = held[a]
                               /\ fire'[a] = fire[a] /\ told'[a] = told[a]
    BY <1>1, <1>2, <2>4, <2>5 DEF Shaped
  <2>10. \A k \in A!MCs \ {Own(b)} : listeners'[k] = listeners[k]
    BY <1>2, <1>3, <2>3 DEF Shaped
  <2> QED BY <1>1, <2>3, <2>7, <2>8, <2>9, <2>10, GoOnKeeps
<1>7. CASE fire[b].i = 1
  <2>1. listeners[m] = <<A!Pool>> /\ told[b] = <<b>>
    BY <1>1, <1>2, <1>7 DEF BeanInv
  <2>2. l = A!Pool /\ Append(<<b>>, l) = <<b, A!Pool>>
    BY <1>7, <2>1, Pairs
  <2>3. listeners' = listeners /\ free' = free \cup {m}
    BY <1>1, <2>2
  <2> HIDE DEF m, l
  <2>4. told' = [told EXCEPT ![b] = <<b, A!Pool>>]
    BY <1>1, <2>1, <2>2
  <2>5. fire' = [fire EXCEPT ![b] = [mc |-> m, i |-> 0]]
    BY <1>5, <1>7
  <2>6. fire'[b] = [mc |-> m, i |-> 0] /\ told'[b] = <<b, A!Pool>> /\ bpc'[b] = "firing"
    BY <1>1, <1>2, <2>4, <2>5 DEF Shaped
  <2>7. BeanInv(b)' /\ Own(b)' = 0
    BY <1>1, <1>3, <2>6 DEF BeanInv, Own
  <2>8. Shaped'
    <3>1. fire' \in [Beans -> [mc : Nat, i : Nat]] /\ told' = [a \in Beans |-> told'[a]]
      BY <1>2, <1>4, <2>4, <2>5 DEF Shaped
    <3> QED BY <1>1, <1>2, <1>3, <2>3, <3>1 DEF Shaped
  <2>9. \A a \in Beans \ {b} : /\ bpc'[a] = bpc[a] /\ held'[a] = held[a]
                               /\ fire'[a] = fire[a] /\ told'[a] = told[a]
    BY <1>1, <1>2, <2>4, <2>5 DEF Shaped
  <2> QED BY <1>1, <1>3, <2>1, <2>3, <2>7, <2>8, <2>9, GoOnKeeps
<1> QED BY <1>3, <1>6, <1>7

(* The steps of a bean that has no connection. *)
LEMMA WithoutKeeps ==
    ASSUME PoolInv, NEW b \in Beans, A!Fired(b) \/ A!Return(b) \/ A!NoneLeft(b)
    PROVE  PoolInv'
<1>1. BeanInv(b) /\ Shaped
    BY DEF PoolInv
<1> DEFINE Alone ==
        /\ UNCHANGED <<mcs, free, conn, listeners>> /\ Shaped'
        /\ \A a \in Beans \ {b} : /\ bpc'[a] = bpc[a] /\ held'[a] = held[a]
                                  /\ fire'[a] = fire[a] /\ told'[a] = told[a]
<1>2. CASE A!Fired(b)
  <2>1. Alone /\ bpc[b] = "firing" /\ bpc'[b] = "closed" /\ told'[b] = told[b]
    BY <1>1, <1>2 DEF A!Fired, Shaped
  <2>2. fire[b].i = 0
    <3>1. fire[b].i # 2
      BY <1>1, <1>2 DEF A!Fired, BeanInv
    <3>2. fire[b].i # 1
      BY <1>1, <1>2 DEF A!Fired, BeanInv
    <3> QED BY <1>1, <2>1, <3>1, <3>2 DEF BeanInv
  <2>3. BeanInv(b)' /\ Own(b) = 0 /\ Own(b)' = 0
    BY <1>1, <2>1, <2>2 DEF BeanInv, Own
  <2> QED BY <2>1, <2>3, GoOnKeeps
<1>3. CASE A!Return(b)
  <2>1. Alone /\ bpc[b] \in {"closed", "refused"} /\ bpc'[b] = "idle"
    BY <1>1, <1>3 DEF A!Return, Shaped
  <2>2. BeanInv(b)' /\ Own(b) = 0 /\ Own(b)' = 0
    BY <2>1 DEF BeanInv, Own
  <2> QED BY <2>1, <2>2, GoOnKeeps
<1>4. CASE A!NoneLeft(b)
  <2>1. Alone /\ bpc[b] = "idle" /\ bpc'[b] = "refused"
    BY <1>1, <1>4 DEF A!NoneLeft, A!Asks, Shaped
  <2>2. BeanInv(b)' /\ Own(b) = 0 /\ Own(b)' = 0
    BY <2>1 DEF BeanInv, Own
  <2> QED BY <2>1, <2>2, GoOnKeeps
<1> QED BY <1>2, <1>3, <1>4

(* No two beans use a handle at a time, each close tells the bean's observer *)
(* and the pool, in this order and once, and no connection is lost, for any  *)
(* number of beans and connections.                                          *)
THEOREM ConnectionsKept == A!Spec => []ConnectionsExclusive
<1>1. A!Init => PoolInv
  <2> SUFFICES ASSUME A!Init PROVE PoolInv
    OBVIOUS
  <2>1. Shaped /\ mcs = {} /\ free = {} /\ \A b \in Beans : bpc[b] = "idle"
    BY DEF A!Init, Shaped, A!NoHandle
  <2> QED BY <2>1 DEF PoolInv, BeanInv, Own
<1>2. PoolInv /\ [A!Next]_(A!vars) => PoolInv'
  <2> SUFFICES ASSUME PoolInv, [A!Next]_(A!vars) PROVE PoolInv'
    OBVIOUS
  <2>1. CASE UNCHANGED <<mcs, free, conn, listeners, bpc, held, fire, told>>
    <3>1. \A b \in Beans : BeanInv(b)' = BeanInv(b) /\ Own(b)' = Own(b)
      BY <2>1 DEF BeanInv, Own
    <3>2. Shaped'
      BY <2>1 DEF PoolInv, Shaped
    <3> QED BY <2>1, <3>1, <3>2 DEF PoolInv
  <2>2. ASSUME NEW b \in Beans, A!matchManagedConnections(b) PROVE PoolInv'
    <3>1. PICK m \in free : /\ A!Asks(b) /\ mcs' = mcs /\ free' = free \ {m}
                            /\ listeners' = [listeners EXCEPT ![m] = Append(@, b)]
                            /\ A!getConnection(b, m)
      BY <2>2 DEF A!matchManagedConnections
    <3>2. /\ m \in A!MCs /\ mcs' = mcs \cup {m}
          /\ listeners[m] = <<A!Pool>> /\ Append(<<A!Pool>>, b) = <<A!Pool, b>>
      BY <3>1, Pairs DEF PoolInv, Shaped
    <3>3. listeners' = [listeners EXCEPT ![m] = <<A!Pool, b>>]
      BY <3>1, <3>2
    <3> QED BY <3>1, <3>2, <3>3, TakeKeeps
  <2>3. ASSUME NEW b \in Beans, A!createManagedConnection(b) PROVE PoolInv'
    <3>1. PICK m \in A!MCs \ mcs :
             /\ A!Asks(b) /\ mcs' = mcs \cup {m} /\ free = {} /\ free' = free
             /\ listeners' = [listeners EXCEPT ![m] = <<A!Pool, b>>]
             /\ A!getConnection(b, m)
      BY <2>3 DEF A!createManagedConnection
    <3> QED BY <3>1, TakeKeeps
  <2>4. A!createConnectionFactory =>
           UNCHANGED <<mcs, free, conn, listeners, bpc, held, fire, told>>
    BY DEF A!createConnectionFactory
  <2>5. UNCHANGED A!vars => UNCHANGED <<mcs, free, conn, listeners, bpc, held, fire, told>>
    BY DEF A!vars
  <2> QED BY <2>1, <2>2, <2>3, <2>4, <2>5, CloseKeeps, FireKeeps, WithoutKeeps
          DEF A!Next, A!Echo
<1>3. PoolInv => ConnectionsExclusive
  <2> SUFFICES ASSUME PoolInv PROVE A!ConnectionsExclusive
    BY DEF ConnectionsExclusive
  <2>1. ASSUME NEW a \in Beans, NEW b \in Beans, a # b,
               bpc[a] = "holding", bpc[b] = "holding"
        PROVE  held[a] # held[b]
    <3>1. Own(a) = held[a] /\ Own(b) = held[b]
      BY <2>1 DEF Own
    <3>2. BeanInv(a) /\ 0 \notin mcs
      BY DEF PoolInv, Shaped, A!MCs
    <3>3. held[a] # 0
      BY <2>1, <3>2 DEF BeanInv
    <3> QED BY <2>1, <3>1, <3>3 DEF PoolInv
  <2>2. \A b \in Beans : bpc[b] = "closed" => told[b] = <<b, A!Pool>>
    BY DEF PoolInv, BeanInv
  <2>3. ASSUME A!Holders = {} PROVE free = mcs
    <3>1. \A b \in Beans : Own(b) = 0
      BY <2>3 DEF A!Holders, Own
    <3>2. 0 \notin mcs /\ free \subseteq mcs
      BY DEF PoolInv, Shaped, A!MCs
    <3> QED BY <3>1, <3>2 DEF PoolInv
  <2> QED BY <2>1, <2>2, <2>3 DEF A!ConnectionsExclusive
<1> QED BY <1>1, <1>2, <1>3, PTL DEF A!Spec
=============================================================================
