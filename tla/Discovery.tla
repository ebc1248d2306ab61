----------------------------- MODULE Discovery -----------------------------
(***************************************************************************)
(* discovery/: the window (sunsetSolarDiscoveryUi), the engine object it   *)
(* creates on "Discover" and deletes on "Stop", and the worker thread of   *)
(* each engine, which listens for ARP packets and pushes what it learns    *)
(* into the engine's recvqueue under recvqueue_lock.                       *)
(*                                                                         *)
(* An engine is the number of the click that created it; its worker has    *)
(* the same number.  The k-th packet received by any worker is the number  *)
(* k.  An engine lives in a block of memory, numbered by the first engine  *)
(* that had it: operator new returns a fresh block or one that delete gave *)
(* back, and a worker, which is not joined, keeps its pointer to the block *)
(* of its own engine whatever lives there by then.  Slots run in the one   *)
(* thread of the window.  configure fills txqueue from /proc/net/arp;      *)
(* nothing ever reads it, so only its outcome is kept.                     *)
(***************************************************************************)
EXTENDS Ring, Sequences, FiniteSets

CONSTANTS DATAQ_SIZE,      \* size of a recvqueue, and the count shown on Stop
          RefreshCount,    \* the count shown on Refresh (10 in the source)
          NULL,            \* the null pointer
          Garbage,         \* an uninitialised pointer
          MaxEngines,      \* bound on successful or failed Discover clicks
          MaxPackets,      \* bound on packets received
          CreateMayFail    \* may pthread_create fail?

Engines == 1 .. MaxEngines
Nobody == 0

VARIABLES
    text,        \* text of SSDiscoverPB
    discoEngine, \* the window's pointer to its engine
    tree,        \* the packets listed in SSTreeWidget
    ui,          \* where the window's thread is
    lcount,      \* local of showDiscoveredNodeInfo
    back,        \* where ui goes when showDiscoveredNodeInfo returns
    made,        \* engines created so far
    live,        \* engines not deleted
    block,       \* the memory of each engine
    recvqueue,   \* of the engine in each block
    lock,        \* the worker that locked the recvqueue_lock of each block
    idset,       \* workers whose threadId was written
    cancel,      \* workers that pthread_cancel was called on
    wpc,         \* where each worker is
    pkt,         \* the packet each worker is handling
    received,    \* the workers that received the packets, in order
    strays,      \* workers that used a block in which another engine lives
    proc         \* "run", "exit" (exit(1) in a worker) or "crash": a fault,
                 \* or memory overwritten, after which anything may happen

uiVars     == <<text, discoEngine, tree, ui, lcount, back>>
engineVars == <<made, live, block, recvqueue, lock>>
workerVars == <<idset, cancel, wpc, pkt, received, strays>>
vars == <<uiVars, engineVars, workerVars, proc>>

(* The constructor of the window leaves discoEngine uninitialised. *)
Init ==
    /\ text = "Discover" /\ discoEngine = Garbage /\ tree = <<>>
    /\ ui = "idle" /\ lcount = 0 /\ back = "idle"
    /\ made = 0 /\ live = {}
    /\ block = [e \in Engines |-> e]
    /\ recvqueue = [a \in Engines |-> RingNew(DATAQ_SIZE)]
    /\ lock = [a \in Engines |-> Nobody]
    /\ idset = {} /\ cancel = {}
    /\ wpc = [e \in Engines |-> "none"]
    /\ pkt = [e \in Engines |-> 0]
    /\ received = <<>> /\ strays = {}
    /\ proc = "run"

Crash == proc' = "crash" /\ UNCHANGED <<uiVars, engineVars, workerVars>>

-----------------------------------------------------------------------------
(* sunsetSolarDiscoveryUi *)

(* The constructor and configure; configure fails without root or without an *)
(* ARP table.  No engine is alive then: any block used before may be taken   *)
(* again, and queue and mutex in it are new, whoever held the old mutex.     *)
NewEngine ==
    /\ ui = "idle" /\ text = "Discover" /\ made < MaxEngines
    /\ made' = made + 1
    /\ \E a \in 1 .. made' :
          /\ block' = [block EXCEPT ![made'] = a]
          /\ recvqueue' = [recvqueue EXCEPT ![a] = RingNew(DATAQ_SIZE)]
          /\ lock' = [lock EXCEPT ![a] = Nobody]
    /\ UNCHANGED <<tree, ui, lcount, back, idset, cancel, pkt, received, strays, proc>>

(* pbClicked on "Discover" when configure fails: the engine is deleted. *)
ClickDiscoverFails ==
    /\ NewEngine
    /\ discoEngine' = NULL
    /\ UNCHANGED <<text, live, wpc>>

(* startEngine: the result of pthread_create is compared with < 0 and so     *)
(* never seen to fail.                                                       *)
startEngine(e) ==
    wpc' = [wpc EXCEPT ![e] = "born"] \/ (CreateMayFail /\ UNCHANGED wpc)

(* pbClicked on "Discover": new engine, configure, startEngine. *)
ClickDiscover ==
    /\ NewEngine
    /\ discoEngine' = made'
    /\ live' = live \cup {made'}
    /\ startEngine(made')
    /\ text' = "Stop"

(* showDiscoveredNodeInfo(n) entered; it does nothing without an engine. *)
Show(n, after) ==
    /\ IF discoEngine = NULL
       THEN ui' = after /\ UNCHANGED <<lcount, back>>
       ELSE ui' = "show" /\ lcount' = n /\ back' = after
    /\ UNCHANGED <<text, discoEngine, tree, engineVars, workerVars,
                   proc>>

(* pbClicked on "Stop". *)
ClickStop ==
    /\ ui = "idle" /\ text = "Stop"
    /\ Show(DATAQ_SIZE, "stop")

(* Context menu, "Refresh"; with an uninitialised pointer anything goes. *)
Refresh ==
    /\ ui = "idle"
    /\ \/ discoEngine # Garbage /\ Show(RefreshCount, "idle")
       \/ discoEngine = Garbage /\ Crash

(* Context menu, "Clear". *)
Clear ==
    /\ ui = "idle"
    /\ tree' = <<>>
    /\ UNCHANGED <<text, discoEngine, ui, lcount, back, engineVars,
                   workerVars, proc>>

(* The queue and the mutex of an engine, and the workers that are between    *)
(* recvQueueLock and recvQueueUnlock there: at most one as long as no mutex  *)
(* is initialised anew or unlocked by another.                               *)
Queue(e) == recvqueue[block[e]]
Inside(a) == {e \in Engines : block[e] = a /\ wpc[e] \in {"push", "unlock"}}

(* readDiscoData: what it returns and what it does to the queue.             *)
Data(e) == IF isEmpty(Queue(e)) THEN NULL ELSE Queue(e).item[Queue(e).front]
readDiscoData(e) ==
    /\ lock[block[e]] = Nobody
    /\ recvqueue' = [recvqueue EXCEPT ![block[e]] = IF isEmpty(@) THEN @ ELSE popped(@)]

(* One readDiscoData and the loop test after it: nothing to read, or the     *)
(* count used up (what was read is forgotten), or one more line in the tree. *)
(* With a worker inside whose lock went when the mutex was made, pop races   *)
(* with its push.                                                            *)
ShowNode ==
    /\ ui = "show"
    /\ \/ /\ readDiscoData(discoEngine)
          /\ LET data == Data(discoEngine) IN
             \/ /\ data = NULL \/ lcount = 0
                /\ ui' = back /\ lcount' = 0 /\ back' = "idle"
                /\ UNCHANGED tree
             \/ /\ data # NULL /\ lcount > 0
                /\ tree' = Append(tree, data)
                /\ lcount' = lcount - 1
                /\ UNCHANGED <<ui, back>>
          /\ UNCHANGED <<text, discoEngine, made, live, block, lock, workerVars, proc>>
       \/ /\ lock[block[discoEngine]] = Nobody /\ Inside(block[discoEngine]) # {}
          /\ Crash

(* stopEngine: pthread_cancel on the id the worker itself has written.  If   *)
(* it has not yet, or never will, the id is uninitialised: the call faults   *)
(* or finds no such thread.                                                  *)
StopEngine ==
    /\ ui = "stop"
    /\ \/ /\ cancel' = cancel \cup ({discoEngine} \cap idset)
          /\ ui' = "delete"
          /\ UNCHANGED <<text, discoEngine, tree, lcount, back,
                         engineVars, idset, wpc, pkt, received, strays, proc>>
       \/ discoEngine \notin idset /\ Crash

(* delete discoEngine and the rest of pbClicked; the worker is not joined.   *)
(* Mutant: the pointer is not reset.                                         *)
DeleteEngine_Dangling ==
    /\ ui = "delete"
    /\ live' = live \ {discoEngine}
    /\ text' = "Discover"
    /\ ui' = "idle"
    /\ UNCHANGED <<discoEngine, tree, lcount, back, made, block, recvqueue,
                   lock, workerVars, proc>>

DeleteEngine ==
    /\ ui = "delete"
    /\ live' = live \ {discoEngine}
    /\ discoEngine' = NULL
    /\ text' = "Discover"
    /\ ui' = "idle"
    /\ UNCHANGED <<tree, lcount, back, made, block, recvqueue, lock,
                   workerVars, proc>>

(* A click or a menu command of the user, and what the window does with it. *)
User == \/ ClickDiscoverFails \/ ClickDiscover \/ ClickStop \/ Refresh \/ Clear
Window == ShowNode \/ StopEngine \/ DeleteEngine

-----------------------------------------------------------------------------
(* The worker of engine e: thread_dispatcher, then run. *)

SetThreadId(e) ==
    /\ wpc[e] = "born"
    /\ idset' = idset \cup {e}
    /\ wpc' = [wpc EXCEPT ![e] = "setup"]
    /\ UNCHANGED <<uiVars, engineVars, cancel, pkt, received, strays, proc>>

(* Opening the packet socket; a failure ends the process. *)
Setup(e) ==
    /\ wpc[e] = "setup"
    /\ \/ wpc' = [wpc EXCEPT ![e] = "recv"] /\ UNCHANGED proc
       \/ proc' = "exit" /\ UNCHANGED wpc
    /\ UNCHANGED <<uiVars, engineVars, idset, cancel, pkt, received, strays>>

Receive(e) ==
    /\ wpc[e] = "recv"
    /\ Len(received) < MaxPackets
    /\ received' = Append(received, e)
    /\ pkt' = [pkt EXCEPT ![e] = Len(received')]
    /\ wpc' = [wpc EXCEPT ![e] = "lock"]
    /\ UNCHANGED <<uiVars, engineVars, idset, cancel, strays, proc>>

(* Mutant: PTHREAD_CANCEL_DISABLE. *)
Cancelled_Disabled(e) ==
    /\ wpc[e] = "recv"
    /\ FALSE
    /\ UNCHANGED vars

(* recvfrom is a cancellation point, and so is the message that push writes  *)
(* when the queue is full, with the lock held; locking a mutex is not.       *)
Cancelled(e) ==
    /\ wpc[e] = "recv" \/ (wpc[e] = "push" /\ Queue(e).queueFull)
    /\ e \in cancel
    /\ wpc' = [wpc EXCEPT ![e] = "gone"]
    /\ UNCHANGED <<uiVars, engineVars, idset, cancel, pkt, received, strays, proc>>

(* The worker uses the memory of its engine.  While that engine lives, or    *)
(* another one in its place, the use is what it is; memory that was deleted  *)
(* faults, is somebody else's (of any kind: the queue of a new engine, say), *)
(* or is used unnoticed.                                                     *)
Taken(e) == \E d \in live : block[d] = block[e]
Uses(e) ==
    /\ strays' = IF Taken(e) /\ e \notin live THEN strays \cup {e} ELSE strays
    /\ UNCHANGED <<uiVars, made, live, block, idset, cancel, pkt, received>>

WLock(e) ==
    /\ wpc[e] = "lock"
    /\ \/ /\ lock[block[e]] = Nobody
          /\ lock' = [lock EXCEPT ![block[e]] = e]
          /\ wpc' = [wpc EXCEPT ![e] = "push"]
          /\ Uses(e) /\ UNCHANGED <<recvqueue, proc>>
       \/ ~Taken(e) /\ Crash

(* recvQueuePush: stored, or ignored when the queue is full; a race if some  *)
(* other worker is inside.                                                   *)
WPush(e) ==
    /\ wpc[e] = "push"
    /\ \/ /\ wpc' = [wpc EXCEPT ![e] = "unlock"]
          /\ recvqueue' = [recvqueue EXCEPT ![block[e]] =
                              IF @.queueFull THEN @ ELSE pushed(@, pkt[e])]
          /\ Uses(e) /\ UNCHANGED <<lock, proc>>
       \/ (~Taken(e) \/ Inside(block[e]) # {e}) /\ Crash

(* Mutant: the lock is not given back. *)
WUnlock_Keep(e) ==
    /\ wpc[e] = "unlock"
    /\ wpc' = [wpc EXCEPT ![e] = "recv"]
    /\ UNCHANGED <<uiVars, engineVars, idset, cancel, pkt, received, strays, proc>>

(* A mutex of this kind does not know who locked it. *)
WUnlock(e) ==
    /\ wpc[e] = "unlock"
    /\ \/ /\ lock' = [lock EXCEPT ![block[e]] = Nobody]
          /\ wpc' = [wpc EXCEPT ![e] = "recv"]
          /\ Uses(e) /\ UNCHANGED <<recvqueue, proc>>
       \/ ~Taken(e) /\ Crash

Worker(e) == \/ SetThreadId(e) \/ Setup(e) \/ Receive(e) \/ Cancelled(e)
             \/ WLock(e) \/ WPush(e) \/ WUnlock(e)

-----------------------------------------------------------------------------
Over == proc # "run" /\ UNCHANGED vars

Next == \/ proc = "run" /\ (User \/ Window \/ \E e \in Engines : Worker(e))
        \/ Over

(* The window's thread and the workers are scheduled, a pending cancellation *)
(* is acted on; users and packets come when they like.                       *)
Fairness ==
    /\ WF_vars(proc = "run" /\ Window)
    /\ \A e \in Engines :
          /\ WF_vars(proc = "run" /\ Worker(e) /\ received' = received)

Spec == Init /\ [][Next]_vars /\ Fairness

-----------------------------------------------------------------------------
(* Properties *)

(* Every variable has the type of its C++ declaration, and whoever locked a  *)
(* mutex is inside or was cancelled there, unless it used another's engine.  *)
TypeOK ==
    /\ text \in {"Discover", "Stop"}
    /\ discoEngine \in Engines \cup {NULL, Garbage}
    /\ tree \in Seq(Nat)
    /\ ui \in {"idle", "show", "stop", "delete"}
    /\ lcount \in Nat
    /\ back \in {"idle", "stop"}
    /\ made \in 0 .. MaxEngines
    /\ live \subseteq Engines
    /\ block \in [Engines -> Engines]
    /\ lock \in [Engines -> Engines \cup {Nobody}]
    /\ idset \subseteq Engines
    /\ cancel \subseteq idset
    /\ wpc \in [Engines -> {"none", "born", "setup", "recv", "lock", "push",
                            "unlock", "gone"}]
    /\ pkt \in [Engines -> Nat]
    /\ received \in Seq(Engines)
    /\ strays \subseteq Engines
    /\ proc \in {"run", "exit", "crash"}

(* The window never keeps a pointer to an engine it deleted, at most one     *)
(* engine exists, and between two slots the button says "Stop" exactly when  *)
(* there is one, whichever way configure, pthread_create and the clicks go.  *)
ButtonMatchesEngine ==
    /\ discoEngine \in Engines => discoEngine \in live
    /\ live \subseteq {discoEngine}
    /\ ui = "idle" => (text = "Stop" <=> discoEngine \in live)
    /\ ui \in {"show", "stop", "delete"} => discoEngine \in live

(* The tree lists each packet at most once, and those of a worker in the     *)
(* order it received them, over any number of discoveries and whichever      *)
(* memory they get.  Packets of two workers are in order too unless one of   *)
(* them outlived its engine and pushed into the engine that came after.      *)
InOrder(m, n) ==
    \/ m < n
    \/ received[m] # received[n] /\ {received[m], received[n]} \cap strays # {}
ShownInOrder == \A i, j \in 1 .. Len(tree) : i < j => InOrder(tree[i], tree[j])

(* The mutex in a block is held by a thread that ended with it: a worker     *)
(* cancelled while it wrote that the queue is full.                          *)
Abandoned(a) == lock[a] # Nobody /\ wpc[lock[a]] = "gone"

(* A slot that was entered returns, unless the mutex of the engine it reads  *)
(* was abandoned by a worker of an earlier engine in the same memory; a      *)
(* worker of the engine itself never blocks it, however many packets come.   *)
SlotReturns ==
    ui # "idle" ~>
       \/ ui = "idle" \/ proc # "run"
       \/ discoEngine \in live /\ Abandoned(block[discoEngine])
             /\ lock[block[discoEngine]] \in strays

(* A worker whose cancellation was requested ends, unless it waits for a     *)
(* mutex that was abandoned: a request is not taken back, and in the end no  *)
(* other is pending.                                                         *)
CancelledEnds ==
    <>[](\A e \in cancel : \/ wpc[e] = "gone" \/ proc # "run"
                           \/ wpc[e] = "lock" /\ Abandoned(block[e]))

(* discoveryUi.h:17, "Same push button will be clicked for starting/stopping *)
(* the discovery actions".  Once stopped, a worker does not touch the engine *)
(* that was deleted.                                                         *)
StopStops ==
    \A e \in Engines : wpc[e] \in {"lock", "push", "unlock"} => e \in live
=============================================================================
