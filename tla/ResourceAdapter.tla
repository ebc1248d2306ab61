--------------------------- MODULE ResourceAdapter ---------------------------
(***************************************************************************)
(* jboss_example jca/ex1: the file system resource adapter (managed        *)
(* connections, their connection handle, their listeners) and EchoBean,    *)
(* which gets a connection and closes it.                                  *)
(*                                                                         *)
(* The connection manager of the application server is external: it keeps  *)
(* a pool of MaxMC managed connections, is a listener of each of them, and *)
(* takes one back when told that its handle was closed.  Each bean also    *)
(* has an observer on its connection, a listener that removes itself when  *)
(* it is told, as the interface of a managed connection allows.            *)
(***************************************************************************)
EXTENDS Integers, Sequences, FiniteSets

CONSTANTS Beans,      \* threads that run EchoBean.echo
          MaxMC       \* size of the pool

NoHandle == 0
Pool == "pool"             \* the connection manager as a listener
MCs == 1 .. MaxMC          \* managed connections; a handle has the number of
                           \* the managed connection that created it

VARIABLES
    rootDir,     \* was setFileSystemRootDir called before deployment
    factory,     \* "none", "made" or "failed"
    made, free,  \* managed connections created, and those in the pool
    conn,        \* the handle each managed connection keeps
    listeners,   \* of each managed connection, in the order added
    bpc, held,   \* where each bean is, and its handle
    fire,        \* the event loop of each closing bean: [mc, i]
    told         \* the listeners each closing bean has told

vars == <<rootDir, factory, made, free, conn, listeners, bpc, held, fire,
          told>>

Init ==
    /\ rootDir \in BOOLEAN /\ factory = "none"
    /\ made = {} /\ free = {}
    /\ conn = [m \in MCs |-> NoHandle]
    /\ listeners = [m \in MCs |-> <<>>]
    /\ bpc = [b \in Beans |-> "idle"]
    /\ held = [b \in Beans |-> NoHandle]
    /\ fire = [b \in Beans |-> [mc |-> 0, i |-> 0]]
    /\ told = [b \in Beans |-> <<>>]

(* FSRequestInfo.toString, called for the log, needs the directory. *)
createConnectionFactory ==
    /\ factory = "none"
    /\ factory' = IF rootDir THEN "made" ELSE "failed"
    /\ UNCHANGED <<rootDir, made, free, conn, listeners, bpc, held, fire,
                   told>>

(* getConnection: the handle is created once and kept for ever. *)
getConnection(b, m) ==
    /\ conn' = [conn EXCEPT ![m] = IF @ = NoHandle THEN m ELSE @]
    /\ held' = [held EXCEPT ![b] = conn'[m]]
    /\ bpc' = [bpc EXCEPT ![b] = "holding"]
    /\ UNCHANGED <<rootDir, factory, fire, told>>

Asks(b) == factory = "made" /\ bpc[b] = "idle"

(* matchManagedConnections takes any member of the set it is offered. *)
matchManagedConnections(b) ==
    /\ Asks(b)
    /\ \E m \in free :
          /\ free' = free \ {m}
          /\ listeners' = [listeners EXCEPT ![m] = Append(@, b)]
          /\ getConnection(b, m)
    /\ UNCHANGED made

createManagedConnection(b) ==
    /\ Asks(b) /\ free = {}
    /\ \E m \in MCs \ made :
          /\ made' = made \cup {m}
          /\ listeners' = [listeners EXCEPT ![m] = <<Pool, b>>]
          /\ getConnection(b, m)
    /\ UNCHANGED free

(* The pool is exhausted: the NamingException is logged and echo returns. *)
NoneLeft(b) ==
    /\ Asks(b) /\ free = {} /\ made = MCs
    /\ bpc' = [bpc EXCEPT ![b] = "refused"]
    /\ UNCHANGED <<rootDir, factory, made, free, conn, listeners, held, fire,
                   told>>

(* FSDirContext.close: the event of the managed connection the handle        *)
(* belongs to, starting with its last listener.                              *)
close(b) ==
    /\ bpc[b] = "holding"
    /\ LET m == held[b] IN
          fire' = [fire EXCEPT ![b] = [mc |-> m, i |-> Len(listeners[m])]]
    /\ told' = [told EXCEPT ![b] = <<>>]
    /\ bpc' = [bpc EXCEPT ![b] = "firing"]
    /\ UNCHANGED <<rootDir, factory, made, free, conn, listeners, held>>

(* listeners.remove: the first that equals l. *)
Without(s, l) ==
    LET first == CHOOSE k \in 1 .. Len(s) :
                    s[k] = l /\ \A j \in 1 .. k - 1 : s[j] # l
    IN SubSeq(s, 1, first - 1) \o SubSeq(s, first + 1, Len(s))

(* connectionClosed: the connection manager cleans up, which does nothing,   *)
(* and has the connection back; an observer removes itself.                  *)
connectionClosed(b, m, l) ==
    /\ told' = [told EXCEPT ![b] = Append(@, l)]
    /\ IF l = Pool
       THEN free' = free \cup {m} /\ UNCHANGED listeners
       ELSE listeners' = [listeners EXCEPT ![m] = Without(@, l)] /\ UNCHANGED free

(* Mutant: the loop runs over the listeners from the first one on. *)
fireConnectionEvent_Upwards(b) ==
    /\ bpc[b] = "firing" /\ Len(told[b]) < Len(listeners[fire[b].mc])
    /\ connectionClosed(b, fire[b].mc, listeners[fire[b].mc][Len(told[b]) + 1])
    /\ UNCHANGED <<rootDir, factory, made, conn, bpc, held, fire>>

fireConnectionEvent(b) ==
    /\ bpc[b] = "firing" /\ fire[b].i > 0
    /\ fire[b].i <= Len(listeners[fire[b].mc])
    /\ connectionClosed(b, fire[b].mc, listeners[fire[b].mc][fire[b].i])
    /\ fire' = [fire EXCEPT ![b].i = @ - 1]
    /\ UNCHANGED <<rootDir, factory, made, conn, bpc, held>>

(* The loop is over; an index past the end would be an exception. *)
Fired(b) ==
    /\ bpc[b] = "firing"
    /\ fire[b].i = 0 \/ fire[b].i > Len(listeners[fire[b].mc])
    /\ bpc' = [bpc EXCEPT ![b] = "closed"]
    /\ UNCHANGED <<rootDir, factory, made, free, conn, listeners, held, fire,
                   told>>

Return(b) ==
    /\ bpc[b] \in {"closed", "refused"}
    /\ bpc' = [bpc EXCEPT ![b] = "idle"]
    /\ held' = [held EXCEPT ![b] = NoHandle]
    /\ told' = [told EXCEPT ![b] = <<>>]
    /\ fire' = [fire EXCEPT ![b] = [mc |-> 0, i |-> 0]]
    /\ UNCHANGED <<rootDir, factory, made, free, conn, listeners>>

Echo(b) ==
    \/ matchManagedConnections(b) \/ createManagedConnection(b) \/ NoneLeft(b)
    \/ close(b) \/ fireConnectionEvent(b) \/ Fired(b) \/ Return(b)

Next == createConnectionFactory \/ \E b \in Beans : Echo(b)

(* The server schedules its threads. *)
Spec == Init /\ [][Next]_vars /\ \A b \in Beans : WF_vars(Echo(b))

-----------------------------------------------------------------------------
(* Properties *)

Holders == {b \in Beans : bpc[b] \in {"holding", "firing"}}

(* Two beans never use the same handle at a time, although a handle is kept  *)
(* and handed out again after it was closed; closing one tells the bean's    *)
(* own observer and then the pool, each once, although listeners come and go *)
(* during the event; and no connection gets lost: those nobody uses are in   *)
(* the pool.                                                                 *)
ConnectionsExclusive ==
    /\ \A a, b \in Beans :
          a # b /\ bpc[a] = "holding" /\ bpc[b] = "holding" => held[a] # held[b]
    /\ \A b \in Beans : bpc[b] = "closed" => told[b] = <<b, Pool>>
    /\ Holders = {} => free = made

(* Every bean that has a connection closes it and returns. *)
EchoReturns == \A b \in Beans : bpc[b] # "idle" ~> bpc[b] = "idle"
=============================================================================
