----------------------------- MODULE MCThreads -----------------------------
(***************************************************************************)
(* The programs with threads, one at a time: prog says which of them a     *)
(* behaviour runs, and the others stay in an initial state of theirs.      *)
(*   "lock"     rw_lock_t with four callers and two calls each: a writer   *)
(*              waits while a reader holds, is signalled, and loses the    *)
(*              race to another caller; two writers can be signalled in    *)
(*              turn;                                                      *)
(*   "disco"    two discoveries, so that the worker of the first can       *)
(*              outlive its engine, a queue of two buffers (1000 in the    *)
(*              source) that three packets overflow, Refresh showing one   *)
(*              node (10 in the source);                                   *)
(*   "adapter"  three beans and a pool of two managed connections: a bean  *)
(*              is refused, and a connection is handed on while the event  *)
(*              of its closing is still under way;                         *)
(*   "store"    two callers of the verifier store, a file that gains or    *)
(*              loses a user, two starts, so that the second can meet the  *)
(*              first's thread, and a caller clear the second's.           *)
(***************************************************************************)
EXTENDS RWLock

CONSTANTS DATAQ_SIZE, RefreshCount, NULL, Garbage,   \* discovery
          MaxEngines, MaxPackets, CreateMayFail,
          Beans, MaxMC,                              \* the resource adapter
          Files, Callers, MaxStarts                  \* the verifier store

VARIABLES
    prog,
    text, discoEngine, tree, ui, lcount, back, made, live, recvqueue, lock,
    block, idset, cancel, wpc, pkt, received, strays, proc,
    rootDir, factory, mcs, free, conn, listeners, bpc, held, fire, told,
    service, starts, files, begun, todo, addUserThread, forgotten, storeMap, bound,
    vpc, joined, disturbed

D == INSTANCE Discovery
A == INSTANCE ResourceAdapter WITH made <- mcs
V == INSTANCE VerifierStore

(* A pointer to an engine is neither null nor uninitialised; a bean is not   *)
(* the connection manager.                                                   *)
ASSUME ThreadsAssumption ==
    /\ DATAQ_SIZE \in Nat \ {0}
    /\ MaxEngines \in Nat
    /\ NULL \notin D!Engines /\ Garbage \notin D!Engines
    /\ MaxMC \in Nat
    /\ A!Pool \notin Beans
    /\ MaxStarts \in Nat

discoVars == <<text, discoEngine, tree, ui, lcount, back, made, live, block,
               recvqueue, lock, idset, cancel, wpc, pkt, received, strays, proc>>
adapterVars == <<rootDir, factory, mcs, free, conn, listeners, bpc, held, fire, told>>
storeVars == <<service, starts, files, begun, todo, addUserThread, forgotten,
               storeMap, bound, vpc, joined, disturbed>>

AIdle == rootDir = TRUE /\ A!Init

MCInit ==
    /\ prog \in {"lock", "disco", "adapter", "store"}
    /\ Init /\ D!Init /\ V!Init
    /\ IF prog = "adapter" THEN A!Init ELSE AIdle

MCNext ==
    /\ UNCHANGED prog
    /\ IF prog = "lock" THEN Next ELSE UNCHANGED vars
    /\ IF prog = "disco" THEN D!Next ELSE UNCHANGED discoVars
    /\ IF prog = "adapter" THEN A!Next ELSE UNCHANGED adapterVars
    /\ IF prog = "store" THEN V!Next ELSE UNCHANGED storeVars

(* The fairness of the specifications, for the program that runs. *)
MCFairness ==
    /\ \A t \in Threads : WF_vars(prog = "lock" /\ Proceed(t))
    /\ WF_discoVars(prog = "disco" /\ proc = "run" /\ D!Window)
    /\ \A e \in D!Engines :
          WF_discoVars(prog = "disco" /\ proc = "run" /\ D!Worker(e)
                       /\ received' = received)
    /\ \A b \in Beans : WF_adapterVars(prog = "adapter" /\ A!Echo(b))
    /\ WF_storeVars(prog = "store" /\ V!AddUsers)
    /\ \A c \in Callers : WF_storeVars(prog = "store" /\ V!getUserVerifier(c))

MCSpec ==
    /\ MCInit
    /\ [][MCNext]_<<prog, vars, discoVars, adapterVars, storeVars>>
    /\ MCFairness

(* The discovery tool: see Discovery; button, pointer and engine agree,      *)
(* packets are shown in order but for those of a worker that outlived its    *)
(* engine, and no slot blocks and a cancelled worker ends, unless the mutex  *)
(* they wait for was abandoned by a worker that died with it.                *)
ButtonMatchesEngine == D!ButtonMatchesEngine
ShownInOrder == D!ShownInOrder
DiscoveryProceeds == D!SlotReturns /\ D!CancelledEnds

(* The resource adapter: see ResourceAdapter; a handle has one user at a     *)
(* time, listeners are told once, no connection is lost.                     *)
ConnectionsExclusive == A!ConnectionsExclusive

(* The verifier store: see VerifierStore; every user of the file last read   *)
(* is found as long as no thread that adds users is forgotten.               *)
VerifierFound == V!VerifierFound

(* The threads of the server: see ResourceAdapter and VerifierStore; a bean  *)
(* that has a connection closes it and returns, and a caller that joins the  *)
(* thread of the store, which may never have been told to stop, is answered. *)
ServersAnswer == A!EchoReturns /\ V!CallersReturn
=============================================================================
