---------------------------- MODULE VerifierStore ----------------------------
(***************************************************************************)
(* jboss_example security/ex3/service/PropertiesVerifierStore.java: the    *)
(* users of a file, read anew at every start, are added to a map by a      *)
(* thread of their own, which the first call of getUserVerifier joins.     *)
(* The map is a plain HashMap that is never emptied: two threads that add  *)
(* users at a time may lose an entry, a get may miss one while users are   *)
(* added.  ServiceMBeanSupport (external) calls startService only when the *)
(* service is not started, and stopService only when it is.  Memory is     *)
(* sequentially consistent.                                                *)
(***************************************************************************)
EXTENDS Integers, FiniteSets

CONSTANTS Files,       \* the sets of users a users.properties can have
          Callers,     \* threads of the SRP server
          MaxStarts    \* bound on the starts of the service

NoThread == 0                  \* null
Users == UNION Files
AddThreads == 1 .. MaxStarts     \* the n-th start makes AddUsers thread n

VARIABLES
    service,         \* "stopped" (or failed), "made", "starting", "started"
    starts,          \* AddUsers threads made so far
    files,           \* the users in the file each of them was made with
    begun,           \* the last AddUsers thread that was started
    todo,            \* the users each started thread has still to add
    addUserThread,   \* the field: a thread or null
    storeMap,        \* users in the map
    bound,           \* is the store bound in JNDI
    forgotten,       \* was a thread that adds users lost: to a restart, or to
                     \* a caller that joined another, or this one too early
    vpc,             \* where each caller is
    joined,          \* the thread each caller joins, null when it does not
    disturbed        \* callers interrupted, or inside when a thread began

field == <<addUserThread, forgotten>>
callers == <<vpc, joined, disturbed>>
vars == <<service, starts, files, begun, todo, field, storeMap, bound, callers>>

Init ==
    /\ service = "stopped" /\ starts = 0
    /\ files = [k \in AddThreads |-> {}] /\ begun = NoThread
    /\ todo = [k \in AddThreads |-> {}]
    /\ addUserThread = NoThread /\ forgotten = FALSE
    /\ storeMap = {} /\ bound = FALSE
    /\ vpc = [c \in Callers |-> "idle"]
    /\ joined = [c \in Callers |-> NoThread]
    /\ disturbed = {}

Returned(c) == vpc[c] \in {"answered", "missed", "exception"}

(* Is the thread in the field adding users? *)
Adding == addUserThread # NoThread /\ todo[addUserThread] # {}

-----------------------------------------------------------------------------
(* The life cycle *)

(* startService up to the making of the thread, whatever users the file has  *)
(* by now; or there is no users.properties, or it cannot be read.            *)
startService ==
    /\ service = "stopped" /\ starts < MaxStarts
    /\ \/ /\ starts' = starts + 1
          /\ \E F \in Files : files' = [files EXCEPT ![starts'] = F]
          /\ addUserThread' = starts'
          /\ forgotten' = (forgotten \/ Adding)
          /\ service' = "made"
       \/ UNCHANGED <<service, starts, files, field>>
    /\ UNCHANGED <<begun, todo, storeMap, bound, callers>>

(* start is called on what the field holds by then: the new thread, or null  *)
(* if a caller that joined another, or this one, has cleared the field.      *)
start ==
    /\ service = "made"
    /\ IF addUserThread = NoThread
       THEN service' = "stopped" /\ UNCHANGED <<begun, todo, disturbed>>
       ELSE /\ service' = "starting"
            /\ begun' = addUserThread
            /\ todo' = [todo EXCEPT ![addUserThread] = files[addUserThread]]
            /\ disturbed' = disturbed \cup
                  {c \in Callers : vpc[c] # "idle" /\ ~Returned(c)}
    /\ UNCHANGED <<starts, files, field, storeMap, bound, vpc, joined>>

(* The binding, which may fail with the thread running. *)
rebind ==
    /\ service = "starting"
    /\ \/ service' = "started" /\ bound' = TRUE
       \/ service' = "stopped" /\ UNCHANGED bound
    /\ UNCHANGED <<starts, files, begun, todo, field, storeMap, callers>>

(* The thread goes on, and map and field stay as they are; either of the two *)
(* unbinds may fail, with the store still bound or no longer.                *)
stopService ==
    /\ service = "started"
    /\ service' = "stopped" /\ bound' \in BOOLEAN
    /\ UNCHANGED <<starts, files, begun, todo, field, storeMap, callers>>

(* Two unsynchronised puts: an entry may be lost. *)
addUser(k, u) ==
    /\ u \in todo[k]
    /\ todo' = [todo EXCEPT ![k] = @ \ {u}]
    /\ LET alone == \A j \in AddThreads \ {k} : todo[j] = {}
       IN \/ storeMap' = storeMap \cup {u}
          \/ ~alone /\ \E v \in storeMap : storeMap' = (storeMap \cup {u}) \ {v}
    /\ UNCHANGED <<service, starts, files, begun, field, bound, callers>>

-----------------------------------------------------------------------------
(* getUserVerifier *)

Goto(c, p) == vpc' = [vpc EXCEPT ![c] = p]
Else == <<service, starts, files, begun, todo, storeMap, bound>>

Call(c) ==
    /\ vpc[c] = "idle" /\ bound
    /\ Goto(c, "test")
    /\ UNCHANGED <<Else, field, joined, disturbed>>

Test(c) ==
    /\ vpc[c] = "test"
    /\ Goto(c, IF addUserThread = NoThread THEN "get" ELSE "join")
    /\ UNCHANGED <<Else, field, joined, disturbed>>

(* The field is read again: a caller that was faster may have cleared it. *)
Join(c) ==
    /\ vpc[c] = "join"
    /\ joined' = [joined EXCEPT ![c] = addUserThread]
    /\ Goto(c, IF addUserThread = NoThread THEN "exception" ELSE "wait")
    /\ UNCHANGED <<Else, field, disturbed>>

(* Mutant: a look whether the thread is alive, which does not wait. *)
Joined_NoWait(c) ==
    /\ vpc[c] = "wait"
    /\ Goto(c, "clear")
    /\ UNCHANGED <<Else, field, joined, disturbed>>

(* The thread has added its users, or was not started yet. *)
Joined(c) ==
    /\ vpc[c] = "wait" /\ todo[joined[c]] = {}
    /\ Goto(c, "clear")
    /\ UNCHANGED <<Else, field, joined, disturbed>>

(* The exception is caught, and the map asked all the same. *)
Interrupted(c) ==
    /\ vpc[c] = "wait"
    /\ disturbed' = disturbed \cup {c}
    /\ joined' = [joined EXCEPT ![c] = NoThread]
    /\ Goto(c, "get")
    /\ UNCHANGED <<Else, field>>

(* Whichever thread the field holds by now is forgotten: another than was    *)
(* joined, or one that was joined before it was started, may still add users. *)
Clear(c) ==
    /\ vpc[c] = "clear"
    /\ addUserThread' = NoThread
    /\ forgotten' = (forgotten \/ (Adding /\ (addUserThread # joined[c] \/ c \in disturbed)))
    /\ joined' = [joined EXCEPT ![c] = NoThread]
    /\ Goto(c, "get")
    /\ UNCHANGED <<Else, disturbed>>

(* The verifier of any user, or null: the user is missed if the file that    *)
(* was read last has it.  A put under way can hide any entry.                *)
Get(c) ==
    /\ vpc[c] = "get"
    /\ \E user \in Users :
          \/ user \in storeMap \cup (Users \ files[begun]) /\ Goto(c, "answered")
          \/ /\ user \in files[begun]
             /\ user \notin storeMap \/ \E k \in AddThreads : todo[k] # {}
             /\ Goto(c, "missed")
    /\ UNCHANGED <<Else, field, joined, disturbed>>

getUserVerifier(c) ==
    \/ Test(c) \/ Join(c) \/ Joined(c) \/ Interrupted(c) \/ Clear(c) \/ Get(c)

AddUsers == \E k \in AddThreads, u \in Users : addUser(k, u)

Next == \/ startService \/ start \/ rebind \/ stopService \/ AddUsers
        \/ \E c \in Callers : Call(c) \/ getUserVerifier(c)

(* Threads are scheduled; nobody has to start, stop or interrupt anything. *)
Spec == /\ Init /\ [][Next]_vars
        /\ WF_vars(AddUsers)
        /\ \A c \in Callers : WF_vars(getUserVerifier(c))

-----------------------------------------------------------------------------
(* Properties *)

(* As long as no thread that is adding users is lost from the field (to a    *)
(* restart, or to a clear that comes after the next start), the store        *)
(* answers for every user of the file last read, even a caller that meets    *)
(* the field cleared by another, and over restarts with other files.         *)
(* Only an interrupted caller, one during whose call the next thread began,  *)
(* or one that lost the race for the field to another caller is turned away. *)
VerifierFound ==
    ~forgotten => \A c \in Callers :
       /\ vpc[c] = "missed" => c \in disturbed
       /\ vpc[c] = "exception" =>
             \E d \in Callers \ {c} : vpc[d] \in {"get", "answered", "missed"}

(* Every call returns, the thread that is waited for ends: each caller calls *)
(* once, and in the end none is left inside.  Puts of two threads can leave  *)
(* the map so that a get never ends; that takes a thread that was forgotten. *)
CallersReturn == <>[](forgotten \/ \A c \in Callers : vpc[c] = "idle" \/ Returned(c))
=============================================================================
