----------------------------- MODULE MCPrograms -----------------------------
(***************************************************************************)
(* The remaining programs, one at a time: prog says which of them a        *)
(* behaviour runs, and the others stay in an initial state of theirs.      *)
(*   "crlf"    crlf_add and crlf_strip on every input up to MaxLen         *)
(*             characters and destinations around its length;              *)
(*   "queue"   prog_queue.c with few enough items that memory is reused;   *)
(*   "ring"    the bounded queue, sizes 0 and 1 included, with more pushes *)
(*             than buffers;                                               *)
(*   "blood"   bloodgroup.c on all pairs of parents;                       *)
(*   "path"    elbonian.c on all graphs with four nodes and few costs;     *)
(*   "ejb"     one run of one test, every call to the transaction manager  *)
(*             failing or not;                                             *)
(*   "map"     the JNDIMap services;                                       *)
(*   "adaptor" the EJB adaptor MBean;                                      *)
(*   "jms"     every JMS example with two clients, two bean instances that *)
(*             answer a queue or one that answers a topic, and two         *)
(*             messages a client (10 in the source);                       *)
(*   "cache"   the cache service of the security examples;                 *)
(*   "login"   their login configuration and their store;                  *)
(*   "sort"    quicksort on all arrays of up to five elements, three       *)
(*             values, so that some are equal;                             *)
(*   "contest" the coins, the strikes and the drive;                       *)
(*   "cdp"     the CDP walk of up to three hosts, a host named twice       *)
(*             included, over a triangle, two parallel links and a link    *)
(*             from a host to itself, a hub, and a host linked to itself;  *)
(*   "vip"     the three calculators on all files of up to four lines.     *)
(***************************************************************************)
EXTENDS Crlf, FiniteSets

CONSTANTS Heap, Values, NULL, NoValue,             \* prog_queue.c
          RingSizes, MaxPush,                      \* the bounded queue
          Lines, MaxLines,                         \* bloodgroup.c
          MaxNode, Costs,                          \* elbonian.c
          TMFaults,                                \* the EJB test runner
          Names, Keys, Variants,                   \* JNDIMap
          JndiNames, Prefixes, MaxAttributes,      \* EjbMBeanAdaptor
          Clients, PoolSize, Kinds, N,             \* the JMS examples
          CacheNames, Resources, Domains,          \* the security services
          Arrays,                                  \* quicksort
          CoinLines, NoNumber, MaxCases, Days,     \* the contest solutions
          Params, Drives,
          Networks, Hosts, MaxArgs,                \* the CDP walk
          Navs, Unit, NavLines,                    \* the VIP calculators
          initInvest, minInvest,
          maxInvest, installmentCount, Averages, Growths

ASSUME ProgramsAssumption ==
    /\ RingSizes \subseteq Nat
    /\ MaxAttributes \in Nat /\ NULL \notin JndiNames
    /\ N \in Nat \ {0}

(* The limits of the VIP calculators are in order, and the unit is fine      *)
(* enough for each value in the file to divide it.                           *)
ASSUME VipAssumption ==
    /\ Navs \subseteq Nat /\ NavLines \in Nat
    /\ Unit \in Nat \ {0} /\ \A n \in Navs \ {0} : n * (Unit \div n) = Unit
    /\ initInvest \in Nat /\ minInvest \in Nat /\ maxInvest \in Nat
    /\ minInvest <= maxInvest
    /\ Averages \subseteq Nat /\ Growths \subseteq Nat

(* There is a node, and costs are not negative.                              *)
ASSUME CostsAssumption == MaxNode \in Nat /\ Costs \subseteq Nat

(* A network is a set of links between ports, an array starts at 0.          *)
ASSUME NetworksAssumption == \A n \in Networks : n \subseteq Hosts \X Nat \X Hosts \X Nat
ASSUME ArraysAssumption ==
    \A a \in Arrays : /\ IsFiniteSet(DOMAIN a)
                      /\ a \in [0 .. Cardinality(DOMAIN a) - 1 -> Int]

(* A word of bloodgroup.c is "?" or a group with an rh.                      *)
ASSUME LinesAssumption ==
    \A l \in Lines :
        /\ Len(l) \in 0 .. 3
        /\ \A i \in 1 .. Len(l) :
              \/ l[i].group = "?"
              \/ l[i].group \in {"A", "AB", "B", "O"} /\ l[i].rh \in {"+", "-"}

(* The contest solutions read whole numbers; a party strikes every h days.   *)
ASSUME CoinLinesAssumption == \A l \in CoinLines : l = NoNumber \/ l \in Int
ASSUME BandhAssumption == Days \subseteq Nat /\ Params \subseteq Nat \ {0}

(* The drive is asked about positive numbers.                                *)
ASSUME DrivesAssumption == Drives \subseteq Nat \ {0}

VARIABLES
    prog,
    count, head, next, prev, data, allocated, popped, state,
    ring, offered, returned, unkept, crash,
    input_args, line, lines, bpc, out,
    cost_matrix, from, to, start, visited, curr_order_id, temp_label,
    final_label, data_list, path, total_cost, epc,
    tpc, phase, tx, body, exc, exception, inflight, thrown, outcome,
    variant, mstate, jndiName, bound, leaked, failed, initial, proxyMap, map,
    astate, operations, helloPrefix, ejbJndiName, home, deployed, reported,
    before, echoed,
    kind, role, jpc, sent, done, got, unacked, requests, boxes, unborn, pool, hand, lost,
    published,
    cache, cacheName, cpolicy, dslisteners, member, startedAs, astray, cfault,
    config, authConf, present, loadedDomains, active, lfault, store,
    input, array, stack, first, last, up, down, piv, qpc,
    task, cases, var, solution, shown, daysCount, parties, index, workingSet,
    links, args, asked, rows, deviceid, rel, relations, wpc,
    calculator, average, growth, navs, vcount, amount, target, shareOwn,
    totalInvst, row, vpc

Q == INSTANCE IntrusiveQueue
R == INSTANCE RingQueue WITH Sizes <- RingSizes
B == INSTANCE BloodGroup WITH pc <- bpc
E == INSTANCE Elbonian WITH src <- from, dst <- to, pc <- epc
T == INSTANCE EjbTestRunner WITH pc <- tpc
M == INSTANCE JNDIMap WITH state <- mstate
A == INSTANCE EjbMBeanAdaptor WITH state <- astate
J == INSTANCE JmsClients WITH cpc <- jpc
S == INSTANCE SecurityServices WITH Names <- CacheNames, jndiName <- cacheName
K == INSTANCE Quicksort WITH Inputs <- Arrays, x <- array, f <- first, l <- last,
                             pc <- qpc
C == INSTANCE Contest WITH lines <- cases
W == INSTANCE CdpWalker
V == INSTANCE VipCalculator WITH MaxLines <- NavLines, variant <- calculator,
                                 count <- vcount

Parents == [group : {"A", "AB", "B", "O"}, rh : {"+", "-"}]
Asked == [group |-> "?", rh |-> "?"]
MCLines == {<<>>} \cup {<<f, m, Asked>> : f, m \in Parents} \cup {<<f, Asked, f>> : f \in Parents}

MCPoolSize == [k \in Kinds |-> CASE k = "mdbQueue" -> 2 [] k = "mdbTopic" -> 1 [] OTHER -> 0]
MCArrays == UNION {[0 .. n - 1 -> 1 .. 3] : n \in 1 .. 5}
MCNetworks ==
    {{<<1, 1, 2, 1>>, <<2, 2, 3, 1>>, <<1, 2, 3, 2>>},
     {<<1, 1, 2, 1>>, <<1, 2, 2, 2>>, <<3, 1, 3, 2>>},
     {<<1, 1, 2, 1>>, <<1, 1, 3, 1>>},
     {<<1, 1, 1, 2>>, <<2, 1, 3, 1>>}}
MCDomains == [r \in Resources |-> {"other", r}]

QIdle == Q!Init /\ \A n \in Heap : data[n] = (CHOOSE v \in Values : TRUE)
RIdle == R!Init /\ ring.size = 0
CIdle == src = <<>> /\ dstsize = 0 /\ fn = "crlf_add" /\ Init
EIdle == /\ cost_matrix = [n \in E!Nodes |-> [m \in E!Nodes |-> 0]]
         /\ from = 0 /\ to = 0 /\ E!Init
MIdle == variant = "ex1" /\ jndiName = (CHOOSE n \in Names : TRUE) /\ M!Init
AIdle == deployed = {} /\ A!Init
JIdle == kind = "queue" /\ J!Init
SIdle == /\ cacheName = (CHOOSE n \in CacheNames : TRUE)
         /\ authConf = (CHOOSE r \in Resources : TRUE) /\ S!Init
KIdle == input = [k \in {0} |-> 1] /\ K!Init
TaskIdle == task = "coins" /\ C!Init
WIdle == /\ links = (CHOOSE n \in Networks : TRUE)
         /\ args = <<CHOOSE h \in Hosts : TRUE>> /\ W!Init
VIdle == /\ calculator = "plain" /\ navs = <<>>
         /\ average = (CHOOSE a \in Averages : TRUE)
         /\ growth = (CHOOSE g \in Growths : TRUE) /\ V!Init

MCInit ==
    /\ prog \in {"crlf", "queue", "ring", "blood", "path", "ejb", "map", "adaptor",
                 "jms", "cache", "login", "sort", "contest", "cdp", "vip"}
    /\ IF prog = "path" THEN E!Init ELSE EIdle
    /\ B!Init /\ T!Init
    /\ IF prog = "crlf" THEN Init ELSE CIdle
    /\ IF prog = "queue" THEN Q!Init ELSE QIdle
    /\ IF prog = "ring" THEN R!Init ELSE RIdle
    /\ IF prog = "map" THEN M!Init ELSE MIdle
    /\ IF prog = "adaptor" THEN A!Init ELSE AIdle
    /\ IF prog = "jms" THEN J!Init ELSE JIdle
    /\ IF prog \in {"cache", "login"} THEN S!Init ELSE SIdle
    /\ IF prog = "sort" THEN K!Init ELSE KIdle
    /\ IF prog = "contest" THEN C!Init ELSE TaskIdle
    /\ IF prog = "cdp" THEN W!Init ELSE WIdle
    /\ IF prog = "vip" THEN V!Init ELSE VIdle

queueVars == <<count, head, next, prev, data, allocated, popped, state>>
ringVars == <<ring, offered, returned, unkept, crash>>
bloodVars == <<input_args, line, lines, bpc, out>>
pathVars == <<cost_matrix, from, to, start, visited, curr_order_id, temp_label,
              final_label, data_list, path, total_cost, epc>>

ejbVars == <<tpc, phase, tx, body, exc, exception, inflight, thrown, outcome>>
mapVars == <<variant, mstate, jndiName, bound, leaked, failed, initial, proxyMap, map>>
adaptorVars == <<astate, operations, helloPrefix, ejbJndiName, home, deployed,
                 reported, before, echoed>>
jmsVars == <<kind, role, jpc, sent, done, got, unacked, requests, boxes, unborn, pool, hand,
             lost, published>>
serviceVars == <<cache, cacheName, cpolicy, dslisteners, member, startedAs, astray,
                 cfault, config, authConf, present, loadedDomains, active, lfault, store>>
sortVars == <<input, array, stack, first, last, up, down, piv, qpc>>
contestVars == <<task, cases, var, solution, shown, daysCount, parties, index,
                 workingSet>>
cdpVars == <<links, args, asked, rows, deviceid, rel, relations, wpc>>
vipVars == <<calculator, average, growth, navs, vcount, amount, target, shareOwn,
             totalInvst, row, vpc>>

(* All but the program that runs stay as they are. *)
MCNext ==
    /\ UNCHANGED prog
    /\ IF prog = "crlf" THEN Next ELSE UNCHANGED vars
    /\ IF prog = "queue" THEN Q!Next ELSE UNCHANGED queueVars
    /\ IF prog = "ring" THEN R!Next ELSE UNCHANGED ringVars
    /\ IF prog = "blood" THEN B!Next ELSE UNCHANGED bloodVars
    /\ IF prog = "path" THEN E!Next ELSE UNCHANGED pathVars
    /\ IF prog = "ejb" THEN T!Next ELSE UNCHANGED ejbVars
    /\ IF prog = "map" THEN M!Next ELSE UNCHANGED mapVars
    /\ IF prog = "adaptor" THEN A!Next ELSE UNCHANGED adaptorVars
    /\ IF prog = "jms" THEN J!Next ELSE UNCHANGED jmsVars
    /\ CASE prog = "cache" -> S!CacheNext
         [] prog = "login" -> S!ConfigNext \/ S!StoreNext
         [] OTHER -> UNCHANGED serviceVars
    /\ IF prog = "sort" THEN K!Next ELSE UNCHANGED sortVars
    /\ IF prog = "contest" THEN C!Next ELSE UNCHANGED contestVars
    /\ IF prog = "cdp" THEN W!Next ELSE UNCHANGED cdpVars
    /\ IF prog = "vip" THEN V!Next ELSE UNCHANGED vipVars

(* Only the JMS examples have a property that needs fairness. *)
MCFairness ==
    /\ \A c \in Clients : /\ WF_jmsVars(prog = "jms" /\ J!Main(c))
                          /\ WF_jmsVars(prog = "jms" /\ J!Listener(c))
    /\ WF_jmsVars(prog = "jms" /\ J!Bean)

MCSpec ==
    /\ MCInit
    /\ [][MCNext]_<<prog, vars, queueVars, ringVars, bloodVars, pathVars, ejbVars,
                    mapVars, adaptorVars, jmsVars, serviceVars, sortVars,
                    contestVars, cdpVars, vipVars>>
    /\ MCFairness

(* prog_queue.c: see IntrusiveQueue; the links of push and pop stay well     *)
(* formed, and items leave in the order they were entered.                   *)
QueueRight == []Q!WellLinked /\ Q!FifoSpec

(* The bounded queue: see RingQueue; values come out in order, and none is   *)
(* lost but those refused and the one that filled the queue.                 *)
RingRight == R!PopsInOrder /\ R!OnlyUnkeptLost

(* What the sequential solutions print, against its definition: see          *)
(* BloodGroup (the genetic rule), Elbonian (a shortest path), Quicksort (the *)
(* array given, in order) and Contest (coins, strikes and the drive).        *)
AlgorithmsRight ==
    B!ChildrenMendelian /\ E!ShortestPath /\ K!Sorted /\ C!ContestRight

(* The EJB test runner: see EjbTestRunner; a passed test was run, and a      *)
(* failure is an assertion of the test.                                      *)
VerdictRight == T!VerdictRight

(* The MBeans: see JNDIMap and SecurityServices.  Unless something failed, a *)
(* JNDIMap is bound under its own name while it is started and is not bound  *)
(* after; the cache service listens under the name it was started with, and  *)
(* a listener is left only where that name was changed; no login domain of a *)
(* stopped SecurityConfig is left.                                           *)
ServicesTidy == M!BoundUnderName /\ S!ServicesTidy

(* The EJB adaptor: see EjbMBeanAdaptor; what is reported as set is set, a   *)
(* started adaptor has a home.                                               *)
AdaptorConsistent == A!AdaptorConsistent

(* The JMS examples: see JmsClients; answers are counted right, a durable    *)
(* subscription keeps what it was given, and a client waits for ever only    *)
(* for an answer that was lost.                                              *)
AnswersRight == J!AnswersRight
WaitsOnlyForLost == J!WaitsOnlyForLost

(* The CDP walk: see CdpWalker; each link once, whoever reported it.         *)
LinksOnce == W!LinksOnce

(* The VIP calculators: see VipCalculator; each purchase is paid, within its *)
(* limits, and reaches the target unless a limit keeps it from there.        *)
ValueAveraged == V!ValueAveraged
=============================================================================
