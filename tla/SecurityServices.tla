-------------------------- MODULE SecurityServices --------------------------
(***************************************************************************)
(* jboss_example security/service: DistributedCacheService, which binds a  *)
(* cache in JNDI and listens for its changes and for those of the cluster, *)
(* and SecurityConfig, which loads login domains; security/ex2/service:    *)
(* JndiStore, bound under a fixed name.  Attributes may be set at any      *)
(* time.                                                                   *)
(*                                                                         *)
(* External: JNDI, the cluster's partition and the XMLLoginConfig MBean,   *)
(* each call to which may fail, and ServiceMBeanSupport, which starts a    *)
(* service that is not started, stops one that is, and marks one whose     *)
(* start or stop threw as failed.                                          *)
(***************************************************************************)
EXTENDS Naturals, FiniteSets

CONSTANTS Names,      \* names the cache can be given
          Resources,  \* resource paths for SecurityConfig
          Domains     \* the login domains in the file of each resource

None == "none"
Idle == {"stopped", "failed"}

VARIABLES
    \* DistributedCacheService
    cache,          \* its state
    jndiName,
    cpolicy,        \* names under which a cache is bound
    dslisteners,    \* names under which the service listens
    member,         \* does it listen for membership changes
    startedAs,      \* the name it was last started with
    astray,         \* names it was started with, and stopped under another
    cfault,         \* did a start or a stop ever fail
    \* SecurityConfig
    config,         \* its state
    authConf,
    present,        \* the resources that can be found
    loadedDomains,  \* what the service remembers to have loaded
    active,         \* the domains XMLLoginConfig holds for it
    lfault,         \* did a start or a stop ever fail
    \* JndiStore
    store           \* is security/store bound

cacheVars == <<cache, jndiName, cpolicy, dslisteners, member, startedAs, astray, cfault>>
configVars == <<config, authConf, present, loadedDomains, active, lfault>>
vars == <<cacheVars, configVars, store>>

Init ==
    /\ cache = "stopped" /\ jndiName \in Names
    /\ cpolicy = {} /\ dslisteners = {} /\ member = FALSE
    /\ startedAs = None /\ astray = {} /\ cfault = FALSE
    /\ config = "stopped" /\ authConf \in Resources
    /\ present = Resources /\ loadedDomains = {} /\ active = {} /\ lfault = FALSE
    /\ store = FALSE

-----------------------------------------------------------------------------
(* DistributedCacheService *)

(* startService: lookup of the partition and start of the cache, binding,    *)
(* two registrations; what was done before a failure stays done.             *)
startCache(failing) ==
    /\ cache \in Idle
    /\ cpolicy' = IF failing = "lookup" THEN cpolicy ELSE cpolicy \cup {jndiName}
    /\ dslisteners' = IF failing \in {"lookup", "listen"} THEN dslisteners
                      ELSE dslisteners \cup {jndiName}
    /\ member' = IF failing = None THEN TRUE ELSE member
    /\ cache' = IF failing = None THEN "started" ELSE "failed"
    /\ startedAs' = jndiName
    /\ cfault' = (cfault \/ failing # None)
    /\ UNCHANGED <<jndiName, astray, configVars, store>>

(* Mutant: the listener is left registered. *)
stopCache_NoUnregister(failing) ==
    /\ cache = "started"
    /\ member' = IF failing = None THEN FALSE ELSE member
    /\ cache' = IF failing = None THEN "stopped" ELSE "failed"
    /\ astray' = astray \cup ({startedAs} \ {jndiName})
    /\ cfault' = (cfault \/ failing # None)
    /\ UNCHANGED <<jndiName, cpolicy, dslisteners, startedAs, configVars, store>>

(* stopService: the cache is stopped but stays bound, and the listener is    *)
(* removed under the name the service has by now.                            *)
stopCache(failing) ==
    /\ cache = "started"
    /\ dslisteners' = IF failing \in {"lookup", "listen"} THEN dslisteners
                      ELSE dslisteners \ {jndiName}
    /\ member' = IF failing = None THEN FALSE ELSE member
    /\ cache' = IF failing = None THEN "stopped" ELSE "failed"
    /\ astray' = astray \cup ({startedAs} \ {jndiName})
    /\ cfault' = (cfault \/ failing # None)
    /\ UNCHANGED <<jndiName, cpolicy, startedAs, configVars, store>>

setCacheJndiName(n) ==
    /\ n # jndiName
    /\ jndiName' = n
    /\ UNCHANGED <<cache, cpolicy, dslisteners, member, startedAs, astray, cfault,
                   configVars, store>>

-----------------------------------------------------------------------------
(* SecurityConfig *)

(* startService with the resource found, or not found, which is only logged: *)
(* what an earlier start loaded is then still remembered.                    *)
loadConfig ==
    /\ config \in Idle /\ authConf \in present
    /\ \/ /\ loadedDomains' = Domains[authConf]
          /\ active' = active \cup Domains[authConf]
          /\ config' = "started" /\ UNCHANGED lfault
       \/ /\ config' = "failed" /\ lfault' = TRUE
          /\ UNCHANGED <<loadedDomains, active>>
    /\ UNCHANGED <<authConf, present, cacheVars, store>>

noConfig ==
    /\ config \in Idle /\ authConf \notin present
    /\ config' = "started"
    /\ UNCHANGED <<authConf, present, loadedDomains, active, lfault, cacheVars, store>>

(* Mutant: the domains of the resource that is set by now are removed. *)
removeConfigs_Current ==
    /\ config = "started"
    /\ active' = active \ Domains[authConf] /\ config' = "stopped"
    /\ UNCHANGED <<authConf, present, loadedDomains, lfault, cacheVars, store>>

(* stopService *)
removeConfigs ==
    /\ config = "started"
    /\ \/ active' = active \ loadedDomains /\ config' = "stopped" /\ UNCHANGED lfault
       \/ /\ loadedDomains # {}
          /\ config' = "failed" /\ lfault' = TRUE /\ UNCHANGED active
    /\ UNCHANGED <<authConf, present, loadedDomains, cacheVars, store>>

setAuthConfig(r) ==
    /\ authConf' = r
    /\ UNCHANGED <<config, present, loadedDomains, active, lfault, cacheVars, store>>

(* The deployment changes: a resource disappears from the class path. *)
Undeploy(r) ==
    /\ present' = present \ {r}
    /\ UNCHANGED <<config, authConf, loadedDomains, active, lfault, cacheVars, store>>

-----------------------------------------------------------------------------
(* JndiStore: rebind, and unbind with its exception dropped *)

startStore ==
    /\ store' = TRUE
    /\ UNCHANGED <<cacheVars, configVars>>

stopStore ==
    /\ store' \in {store, FALSE}
    /\ UNCHANGED <<cacheVars, configVars>>

(* The services know nothing of each other. *)
CacheNext ==
    \/ \E f \in {None, "lookup", "listen", "member"} : startCache(f) \/ stopCache(f)
    \/ \E n \in Names : setCacheJndiName(n)

ConfigNext ==
    \/ loadConfig \/ noConfig \/ removeConfigs
    \/ \E r \in Resources : setAuthConfig(r) \/ Undeploy(r)

StoreNext == startStore \/ stopStore

Next == CacheNext \/ ConfigNext \/ StoreNext

Spec == Init /\ [][Next]_vars

-----------------------------------------------------------------------------
(* Properties *)

(* As long as no start or stop failed, the cache service while it is started *)
(* listens, and its cache is bound, under the name it was started with; and  *)
(* a listener is left behind only under a name that was changed before the   *)
(* stop, which the stop then does not know.  The binding of the cache is     *)
(* never undone, and nothing is claimed of it after a stop.                  *)
(* As long as none failed, the login domains of a stopped SecurityConfig are *)
(* gone, whatever AuthConfig was set to in between and whether or not its    *)
(* resource still exists.                                                    *)
ServicesTidy ==
    /\ ~cfault =>
          /\ cache = "started" => startedAs \in dslisteners \cap cpolicy
          /\ dslisteners \subseteq astray \cup (IF cache = "started" THEN {startedAs} ELSE {})
          /\ member = (cache = "started")
    /\ ~lfault => active = IF config = "started" THEN active \cap loadedDomains ELSE {}
=============================================================================
