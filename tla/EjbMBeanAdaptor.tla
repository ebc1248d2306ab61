-------------------------- MODULE EjbMBeanAdaptor --------------------------
(***************************************************************************)
(* jmx/ex3/EjbMBeanAdaptor.java: a dynamic MBean that describes itself,    *)
(* whose attributes are set singly or in lists, and whose operations all   *)
(* go through invoke.  start looks up the home of a session bean; echo     *)
(* uses it.                                                                *)
(*                                                                         *)
(* External: ServiceMBeanSupport, which calls createService, startService  *)
(* and stopService, and the EJB container, where a bean may be deployed,   *)
(* undeployed or fail.  The bean's echo itself is EchoBean's.              *)
(***************************************************************************)
EXTENDS Integers, Sequences

CONSTANTS
    JndiNames,     \* names a bean's home may have
    Prefixes,      \* values of HelloPrefix
    MaxAttributes, \* bound on the length of a list of attributes
    NULL

VARIABLES
    state,         \* of ServiceMBeanSupport
    operations,    \* names of the operations described; NULL before preRegister
    helloPrefix, ejbJndiName,
    home,          \* the name whose home was looked up, or NULL
    deployed,      \* names whose bean is deployed
    reported,      \* what the last setAttributes returned, if it was the last call
    before,        \* the attributes before that call
    echoed         \* outcome of the last call: "ok", "failed", "npe", or "none"

vars == <<state, operations, helloPrefix, ejbJndiName, home, deployed,
          reported, before, echoed>>

attributeVars == <<helloPrefix, ejbJndiName>>
lastCall == <<reported, before, echoed>>

Attributes == [HelloPrefix |-> helloPrefix, EjbJndiName |-> ejbJndiName]

(* An Attribute: a known name with a value or null, or an unknown name. *)
AttributeArgs ==
    {<<"HelloPrefix", v>> : v \in Prefixes \cup {NULL}} \cup
    {<<"EjbJndiName", v>> : v \in JndiNames \cup {NULL}} \cup
    {<<"Other", NULL>>}

Init ==
    /\ state = "UNREGISTERED" /\ operations = NULL
    /\ helloPrefix = NULL /\ ejbJndiName = NULL
    /\ home = NULL
    /\ deployed \in SUBSET JndiNames
    /\ reported = <<>> /\ before = Attributes /\ echoed = "none"

(* The MBeanOperationInfo of stop and of destroy is made from startMethod,   *)
(* and it is the method that gives the operation its name: invoke accepts    *)
(* stop and destroy, which are not described.                                *)
preRegister ==
    /\ state = "UNREGISTERED"
    /\ operations' = {"echo", "create", "start"}
    /\ state' = "REGISTERED"
    /\ UNCHANGED <<attributeVars, home, deployed, lastCall>>

-----------------------------------------------------------------------------
(* Attributes *)

(* setAttribute throws for an unknown name and for a null value. *)
Settable(a) == a[1] # "Other" /\ a[2] # NULL

Assign(as, attr) == [as EXCEPT ![attr[1]] = attr[2]]

(* The loop of setAttributes: what was assigned and what was added to the    *)
(* list it returns, after each element; what throws is passed over.          *)
Loop(list) ==
    LET after[k \in 0 .. Len(list)] ==
            IF k = 0 THEN [as |-> Attributes, set |-> <<>>]
            ELSE IF Settable(list[k])
                 THEN [as |-> Assign(after[k - 1].as, list[k]),
                       set |-> Append(after[k - 1].set, list[k])]
                 ELSE after[k - 1]
    IN  after[Len(list)]

Assigned(as) == helloPrefix' = as.HelloPrefix /\ ejbJndiName' = as.EjbJndiName

(* Mutant: the list returned is the one passed in. *)
setAttributes_All(list) ==
    /\ state # "UNREGISTERED"
    /\ Assigned(Loop(list).as)
    /\ reported' = list
    /\ before' = Attributes /\ echoed' = "none"
    /\ UNCHANGED <<state, operations, home, deployed>>

(* What is set is returned.  setAttribute is the same with one attribute and *)
(* an exception.                                                             *)
setAttributes(list) ==
    /\ state # "UNREGISTERED"
    /\ Assigned(Loop(list).as)
    /\ reported' = Loop(list).set
    /\ before' = Attributes /\ echoed' = "none"
    /\ UNCHANGED <<state, operations, home, deployed>>

-----------------------------------------------------------------------------
(* Operations, by way of invoke *)

NoResult == reported' = <<>> /\ before' = Attributes /\ echoed' = "none"

create ==
    /\ state \in {"REGISTERED", "DESTROYED", "FAILED"}
    /\ state' = "CREATED"
    /\ NoResult
    /\ UNCHANGED <<operations, attributeVars, home, deployed>>

(* lookup, create and echo("startService"); any of them may throw, and home  *)
(* is set once lookup has returned.                                          *)
startService ==
    IF ejbJndiName \in deployed
    THEN home' = ejbJndiName /\ state' \in {"STARTED", "FAILED"}
    ELSE state' = "FAILED" /\ UNCHANGED home

start ==
    /\ state \in {"CREATED", "STOPPED", "FAILED"}
    /\ startService
    /\ NoResult
    /\ UNCHANGED <<operations, attributeVars, deployed>>

stop ==
    /\ state = "STARTED"
    /\ state' = "STOPPED"
    /\ NoResult
    /\ UNCHANGED <<operations, attributeVars, home, deployed>>

destroy ==
    /\ state \notin {"UNREGISTERED", "DESTROYED"}
    /\ state' = "DESTROYED"
    /\ NoResult
    /\ UNCHANGED <<operations, attributeVars, home, deployed>>

(* echo asks for no state: a null home or a bean that is gone or fails makes *)
(* invoke throw a ReflectionException.                                       *)
echo ==
    /\ state # "UNREGISTERED"
    /\ echoed' \in CASE home = NULL -> {"npe"}
                      [] home \in deployed -> {"ok", "failed"}
                      [] OTHER -> {"failed"}
    /\ reported' = <<>> /\ before' = Attributes
    /\ UNCHANGED <<state, operations, attributeVars, home, deployed>>

(* A bean is deployed or undeployed. *)
Redeploy ==
    /\ \E n \in JndiNames : deployed' = IF n \in deployed THEN deployed \ {n}
                                       ELSE deployed \cup {n}
    /\ UNCHANGED <<state, operations, attributeVars, home, lastCall>>

Next ==
    \/ preRegister \/ create \/ start \/ stop \/ destroy \/ echo \/ Redeploy
    \/ \E n \in 1 .. MaxAttributes : \E list \in [1 .. n -> AttributeArgs] :
          setAttributes(list)

Spec == Init /\ [][Next]_vars

-----------------------------------------------------------------------------
(* setAttributes with a list some of which cannot be set: each attribute has *)
(* the last value reported for it, and one not reported has its old value.   *)
(* And through any sequence of calls and deployments, echo of a started      *)
(* adaptor does not meet a null home.                                        *)
AdaptorConsistent ==
    /\ \A n \in DOMAIN Attributes :
          LET at == {k \in DOMAIN reported : reported[k][1] = n}
          IN  /\ \A k \in at : (\A l \in at : l <= k) => Attributes[n] = reported[k][2]
              /\ reported # <<>> /\ at = {} => Attributes[n] = before[n]
    /\ state = "STARTED" => echoed # "npe"
=============================================================================
