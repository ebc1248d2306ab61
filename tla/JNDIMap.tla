------------------------------ MODULE JNDIMap ------------------------------
(***************************************************************************)
(* The three versions of the JNDIMap MBean (jmx/ex1, jmx/ex2, jmx/xmbean), *)
(* a service that binds a map in JNDI.  Its operations are called one at a *)
(* time by the deployer and by management clients.  ex1 keeps a started    *)
(* flag of its own; the others extend ServiceMBeanSupport.  The xmbean     *)
(* version binds a proxy made when the service starts.                     *)
(*                                                                         *)
(* External: ServiceMBeanSupport (which call reaches startService and      *)
(* stopService, and the state after it) and the naming service, any call   *)
(* of which may throw.                                                     *)
(***************************************************************************)
EXTENDS FiniteSets

CONSTANTS
    Names,      \* JNDI names
    Keys,       \* keys of the map
    Variants    \* among "ex1", "ex2" and "xmbean"

VARIABLES
    variant,
    state,      \* of the service: "CREATED", "STARTED", "STOPPED" or "FAILED"
    jndiName,
    bound,      \* names under which the naming service has the map
    leaked,     \* names whose unbind threw while they were bound
    failed,     \* the last rebind threw
    initial,    \* keys of keyValuePairs
    proxyMap,   \* is there a map to put into?
    map         \* its keys

vars == <<variant, state, jndiName, bound, leaked, failed, initial, proxyMap, map>>

Init ==
    /\ variant \in Variants
    /\ state = "CREATED"
    /\ jndiName \in Names
    /\ bound = {} /\ leaked = {} /\ failed = FALSE
    /\ initial \in IF variant = "xmbean" THEN {{k} : k \in Keys} ELSE {{}}
    /\ proxyMap = (variant # "xmbean")
    /\ map = {}

(* What the branches on STARTED look at.  ex1 sets its flag before rebind.   *)
Started == state = "STARTED" \/ (variant = "ex1" /\ state = "FAILED")

-----------------------------------------------------------------------------
(* unbind prints what it catches: the name may stay bound.  An unbound name  *)
(* is caught too.                                                            *)
unbind(name) == {<<bound \ {name}, leaked \ {name}>>,
                 <<bound, IF name \in bound THEN leaked \cup {name} ELSE leaked>>}

(* rebind binds the map, or throws. *)
rebind(name, u) ==
    \/ bound' = u[1] \cup {name} /\ leaked' = u[2] \ {name} /\ failed' = FALSE
    \/ bound' = u[1] /\ leaked' = u[2] /\ failed' = TRUE

(* Mutant: the new name is bound and the old one left. *)
setJndiName_NoUnbind(name) ==
    /\ jndiName' = name
    /\ IF Started THEN rebind(name, <<bound, leaked>>)
       ELSE UNCHANGED <<bound, leaked, failed>>
    /\ UNCHANGED <<variant, state, initial, proxyMap, map>>

(* jndiName is set first, so that it names the map also if rebind throws. *)
setJndiName(name) ==
    /\ jndiName' = name
    /\ IF Started THEN \E u \in unbind(jndiName) : rebind(name, u)
       ELSE UNCHANGED <<bound, leaked, failed>>
    /\ UNCHANGED <<variant, state, initial, proxyMap, map>>

(* put of the xmbean drops the pair when there is no proxy yet. *)
put(keys) == map' = IF proxyMap THEN map \cup keys ELSE map

setInitialValues(keys) ==
    /\ variant # "ex2"
    /\ initial' = keys
    /\ put(keys)
    /\ UNCHANGED <<variant, state, jndiName, bound, leaked, failed, proxyMap>>

(* The management operation put, or a put by a client that looked the map up. *)
PutKey(k) ==
    /\ variant = "xmbean" \/ bound # {}
    /\ put({k})
    /\ UNCHANGED <<variant, state, jndiName, bound, leaked, failed, initial, proxyMap>>

(* Only ex1 can be started twice; the xmbean makes a new proxy, whose map is *)
(* empty.                                                                    *)
start ==
    /\ variant = "ex1" \/ state # "STARTED"
    /\ rebind(jndiName, <<bound, leaked>>)
    /\ state' = IF failed' THEN "FAILED" ELSE "STARTED"
    /\ proxyMap' = TRUE
    /\ map' = IF variant = "xmbean" THEN {} ELSE map
    /\ UNCHANGED <<variant, jndiName, initial>>

stop ==
    /\ variant = "ex1" \/ state = "STARTED"
    /\ \E u \in unbind(jndiName) : bound' = u[1] /\ leaked' = u[2]
    /\ state' = "STOPPED"
    /\ UNCHANGED <<variant, jndiName, failed, initial, proxyMap, map>>

Next ==
    \/ \E n \in Names : setJndiName(n)
    \/ \E K \in SUBSET Keys : setInitialValues(K)
    \/ \E k \in Keys : PutKey(k)
    \/ start \/ stop

Spec == Init /\ [][Next]_vars

-----------------------------------------------------------------------------
(* Through any sequence of renames, starts and stops the map is bound under  *)
(* no name but its own, save one the naming service refused to unbind; and a *)
(* started service is bound under its name unless the last rebind threw.     *)
BoundUnderName ==
    /\ bound \subseteq {jndiName} \cup leaked
    /\ state \in {"CREATED", "STOPPED"} => bound \subseteq leaked
    /\ Started /\ ~failed => jndiName \in bound

(* The attribute description of InitialValues: the initial values "will be   *)
(* placed into the map associated with the service".                         *)
InitialValuesPlaced == state = "STARTED" => initial \subseteq map
=============================================================================
