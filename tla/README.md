# Verification of sample_programs

The repository is a collection of stand-alone programs: threads that share a
queue, a reader/writer lock, linked queues, a threaded LAN discovery tool,
TCP/IP utilities (`sock`, `traceroute`, two ICMP clients), contest solutions
and the examples of a JBoss book. Each program is a system of its own. This
project models those that have control worth checking as TLA+ modules,
model-checks them with TLC on small instances, and proves the most important
facts with TLAPS for every instance.

Contents: [inventory](#inventory), [interactions](#interactions),
[modules](#modules-and-their-code), [runs](#runs),
[fairness](#fairness), [proofs](#proofs), [findings](#findings),
[observations](#other-behaviour-the-models-show),
[not modelled](#not-modelled), [plan](#plan).

## Inventory

| Component | Source | State it keeps | Operations | What is hard | What makes it correct |
|---|---|---|---|---|---|
| Condition-variable job queue | `prog_condV.c` | list `job_queue`, `job_queue_count`, two mutexes, a condition variable | `thread_callback_enqueue`, `thread_callback_dequeue`, `main` | the count is tested, its mutex released, and the job taken later; failing `calloc` and `pthread_create`; `rand()%(n-1)` | each job goes to one thread; count and list agree; no wake-up is lost; no deadlock; it ends when there are enough jobs |
| Semaphore job queue | `prog_sem.c` | list, counting semaphore, one mutex | as above | the semaphore must never run ahead of the list; the job is read after it was published | semaphore, list and threads on their way add up; a dequeuer finds a job |
| Reader/writer lock | `prog_rwmutex.cpp` | three counters, a mutex, two condition variables | `r_lock`, `w_lock`, `r_unlock`, `w_unlock` | a signalled writer overtaken by a new reader | exclusion; no lost wake-up; calls return |
| FIFO reader/writer lock | `prog_rwmutex_1.cpp` | two counters, `writer`, a monitor | four methods | a Java class in a `.cpp` file whose `lock` is never assigned: no object of it can be made | - |
| RW mutex from semaphores | `prog_rwmutex.c` | mutex, two semaphores | four function pointers | unfinished | - |
| Intrusive queue | `prog_queue.c` | circular doubly linked list, `head`, `count` | `push`, `pop`, menu | pointer surgery, stale links, reused memory | it is a FIFO; no link leaves the allocated items |
| Ring queue | `prog_queue.cpp`, `discovery/sunsetSolarDiscoDataModel.h` | circular list, `front`, `tail`, `queueFull` | constructor, `push`, `pop` | telling full from empty; the value that fills the queue | order kept; lost is only what was refused and what filled the queue |
| Quicksort | `prog_quicksort.c` | array, recursion | `quicksort`, `partition` | a `goto` into the loop; equal elements; the ends of the range | a sorted permutation, no index outside the range |
| Stack | `prog_stack.cpp` | array, index | `push`, `pop` | nothing: fixed calls | - |
| LAN discovery tool | `discovery/` | engine, receive queue and its lock, worker thread, button text, tree | `pbClicked`, `showContextMenu`, `startEngine`, `stopEngine`, worker `run` | cancellation without join races the worker, also when the next engine gets the memory of the one deleted | button, pointer and engine agree; nodes shown in order but for those of a worker that outlived its engine; the window blocks, and a cancelled worker stays, only at a mutex that a worker died with |
| `sock`: options and set-up | `tcpipi/sock/main.c`, `cliopen.c`, `servopen.c`, `buffers.c`, `sockopts.c` | option flags, descriptors | option checks, `cliopen`, `servopen`, `buffers`, `sockopts` | which socket gets which option, before or after the handshake | the socket in use has what was asked for |
| `sock`: forking server | `tcpipi/sock/servopen.c`, `tellwait.c` | `sigflag`, signal masks, children | `TELL_WAIT`, `TELL_PARENT`, `WAIT_CHILD`, `accept`, `fork` | a signal between test and `sigsuspend` | one process at the terminal; the parent returns to `accept` |
| `sock`: copy loop | `tcpipi/sock/loop.c`, `writen.c` | descriptor set, `stdineof`, the connection | `select` turns, half close; with `-u` datagrams; `writen` | two peers writing; end of file with data under way; datagrams lost, repeated, reordered, truncated, empty; a failing `write` | data in order, nothing lost on half close, both ends stop; a datagram goes out whole and once per arrival |
| `sock`: CR/LF | `tcpipi/sock/crlf.c` | two buffers | `crlf_add`, `crlf_strip` | the size of the destination | the conversion, and no byte past the end |
| `sock`: source and sink | `tcpipi/sock/sourcesink.c` | counters | write `nbuf` buffers; read to end of file | short reads, urgent mark | no byte lost or made up |
| traceroute | `tcpipi/traceroute/traceroute.pmtu.c`, `.lsrr.c` | `ttl`, `probe`, `seq`, `datalen`, `mtuptr`, the source route `optlist` | `main`, `-g` and `-G`, `send_probe`, `wait_for_reply`, `packet_ok`, `frag_err` | lost and late replies; walking the MTU table; a full source route | answers on their line; the table's end is respected; it ends; it finds the path MTU |
| ICMP clients | `tcpipi/icmptime`, `tcpipi/icmpaddrmask` | request, alarm, counters | `sender`, `procpack`, `in_cksum`, `sig_alrm` | alarm against reply; signs in the correction | requests verify; the clock is set once and rightly; the exit status is right |
| Shortest path | `CodeWar2013/elbonian.c` | labels, candidate list | `build_graph`, `dijkstra_call` | 0 means three things | the path printed is shortest |
| Blood groups | `CodeWar2013/bloodgroup.c` | allele tables | reading lines, groups of a child | tables list pairs in one order; arguments stay from line to line | the children the rule gives, for every line that names both parents and none of group O |
| Contest solutions | `CodeWar2014/`, `BandhAnalysis/Solution1.cpp` | the last answer, a set of days | one line, one day | answers carried over from line to line; days counted twice; evaluation order | the answer is a solution where there is one; every lost day counts once |
| VIP calculators | `businessAutomation/*.py` | shares, money, target | one installment per line | limits applied to money and shares separately; dividing by the share value | the value follows the target unless a limit was met; nothing above the upper limit is paid, nothing below the lower one with `funds` |
| CDP walk | `hpcdpdisco.py` | relations found | walk a host, merge, print | each link is reported by both ends; a walk or a get fails | every link of the hosts that answered once, and no other |
| EJB test runner | `jboss_example/.../test/util/ejb` | user transaction, pending exception | `run`, `setUpEJB`, `runTestCase`, `tearDownEJB` | one phase of several failing | a verdict that is true of the test |
| JNDI map service | `jboss_example/.../jmx/ex1`, `ex2`, `xmbean` | name, map, service state | `start`, `stop`, `setJndiName`, `setInitialValues`, `put` | rename while started; the naming service throws | bound under its own name only |
| EJB adaptor MBean | `jboss_example/.../jmx/ex3` | attributes, bean home | `setAttribute(s)`, `invoke`, life cycle | part of a list fails | the list returned tells what was set |
| JMS clients, TextMDB | `jboss_example/.../jms` | `CountDown`, subscriptions, bean pool | send, `onMessage`, receive, `sendReply` | lost replies, clients taking each other's, a client that dies before, in or after its listener | no message twice to a client, and to two of a queue only if one died in its listener; waiting has a cause |
| File system resource adapter | `jboss_example/.../jca/ex1` | managed connections, handle, listeners | `createConnectionFactory`, match, create, `getConnection`, `close`, event loop | listeners removed while they are being told; several beans on one pool | a handle has one user, no connection is lost to the pool |
| Verifier store | `jboss_example/.../security/ex3/service` | map, `addUserThread`, binding | start, stop, `addUser`, `getUserVerifier` | an unsynchronised thread fills the map; two callers race for the field; a restart with another file | each user of the file last read is found; calls return |
| Cache service, login configuration, JNDI store | `jboss_example/.../security/service`, `ex2/service` | bindings, listeners, loaded domains | life cycle, rename, undeployed file | a step of the start or stop fails; attributes change while started | the cache listens and is bound under the name it was started with; a stop leaves a listener only under a name that was changed before it, and no login domain; the cache's binding is never undone |
| Beans, clients, demonstrations, contest data | the rest | none kept | single calls | - | - |

`PROJECT.json` lists the same components with their status, and under
`hazards` what can go wrong in them that a test would hardly reach.

## Interactions

The programs do not call each other; what they share is code and shape.

- Both job queues are shown to implement one abstract job pool (`JobPool`):
  a job that was put is taken at most once, by one thread.
- `rw_lock_t` implements the abstract lock `RWAbstract`, `prog_queue.c` the
  abstract queue `Fifo`.
- The circular buffer is the same class in `prog_queue.cpp` and in the discovery
  tool, so its operations are in `Ring`; `RingQueue` calls them one after the
  other, `Discovery` from a worker thread and the window.
- `sock` runs in stages: `SockOpen` (options to connected socket), `ForkServer`
  (with `-F`, the accept loop and its children), then `SockLoop` (copy, through
  `Crlf` with `-c`), `UdpLoop` (copy with `-u`) or `SourceSink` (`-i`); all of them
  write through `writen` (`Writen`). The stages hand over a descriptor and
  nothing else, so they are separate modules.
- `traceroute.lsrr.c` builds its source route while it reads its options
  (`SourceRoute`) and from there on is `Traceroute`; they share no state.
- Beans of `EchoBean` meet in the pool of connections, callers of the verifier
  store in its thread (`ResourceAdapter`, `VerifierStore`).
- In the JMS examples clients and beans interact over the provider's queues and
  topics; the provider is external and modelled by what the clients rely on.

## Modules and their code

Variables keep the names of the C or Java variables; `pc` and its relatives are
control points. An action is one lock-protected section, or one statement where
no lock protects it, so that interleavings are those of the machine. A process
that dies (null pointer, freed memory, division by zero) goes to a state of its
own and stays there. Operators with a suffix after an underscore
(`DeqTake_KeepLinked`) are mutants: plausible mistakes, used only to see that
a property would notice them.

| Module | Models | State | Actions |
|---|---|---|---|
| `CondVQueue` | `prog_condV.c` | `job_queue` (head last), `job_queue_count`, `owner` of both mutexes, `waiting` on the condition, locals `new_job`, `next_job`, `freed`, `crash`, `main`'s `count`, `max_thr_count`, `init_thr_count` | `Main...` from getopt to return, `Enq...`, `Deq...` per statement, `DeqSpurious` |
| `SemQueue` | `prog_sem.c` | the same with a semaphore | the same |
| `JobPool` | abstract | `put`, `pending`, `got` | `Put`, `Take` |
| `RWLock` | `rw_lock_t` | the counters, `reader_gate`, `writer_gate` (blocked threads), `pc`, `calls` | the four methods; `..._woken` is the rest of a lock call after its wait; `Spurious` |
| `RWAbstract` | abstract | `holds` | `GrantRead`, `GrantWrite`, `Release` |
| `IntrusiveQueue` | `prog_queue.c` | `head`, `count`, `prev`, `next`, `data` per address, `allocated` | `PushItem`, `PopItem` with their failing cases, `Quit` |
| `Fifo` | abstract | `q`, `out` | `Enter`, `Leave` |
| `Ring`, `RingQueue` | `prog_queue.cpp` | the record `ring`, what was `offered` and `returned`, what the queue does not keep (`unkept`) | `push`, `pushNull`, `pushIgnored`, `pop`, `popEmpty` |
| `Discovery` | `discovery/` | `text`, `discoEngine`, `tree`; the engines `made` and `live` and the memory of each (`block`); per block `recvqueue`, `lock`; per worker `idset`, `cancel`, `wpc`, `pkt`; the worker that `received` each packet, `strays` | slots `ClickDiscover`, `ClickStop`, `Refresh`, `Clear` and their steps `ShowNode`, `StopEngine`, `DeleteEngine`; worker `SetThreadId` to `WUnlock`, `Cancelled` |
| `SockOpen` | `sock` up to a socket | `opts`, `fd`, `newfd` (options set), `atBind`, `atSyn` (what was set then) | `CheckOptions`, `Address`, `Socket`, `Bind`, `Prepare`, `Connect`, `Listen`, `Accept`, `Finish` |
| `ForkServer` | `tellwait.c`, accept loop | `sigflag`, `blocked`, `pending`, `ppc`, `cpc` | `TELL_WAIT`, `AcceptFork`, `TestFlag`, `EnterSuspend`, `SuspendReturns`, `RestoreMask`, `Deliver`, `TELL_PARENT`, `ChildFails` |
| `SockLoop` | `loop.c`, `writen.c` | per side `rset`, `stdineof`, `sent`, `out`; `chan`, `fin` | `Select`, `Stdin...`, `Write`, `WriteToClosed`, `Sock...`, `Close` |
| `UdpLoop` | `loop.c` with `-u` | per side `rset`, `stdineof`, `inbox`, `out`; `net`, `refused` | `Select`, `Stdin...`, `Recvmsg` (server), `Read` (client), `ReadFails`, `Close`; network `Deliver`, `Lose`, `Foreign` |
| `Writen` | `writen.c` | `nleft`, `ptr`, `errors`, `result` | `WriteSome`, `WriteFails`, `Return` |
| `Crlf` | `crlf.c` | `src`, `dst`, `dstsize`, `lenout` | one turn of either loop, `Return` |
| `SourceSink` | `sourcesink.c` | counters, bytes in the connection, urgent mark | `Urgent`, `WriteSome`, `WriteReturns`, `WriteFails`, `CloseSource`, `Read`, `ReadEof` |
| `Traceroute` | both versions | `ttl`, `probe`, `seq`, `datalen`, `mtuptr`, `got_there`, `unreachable`; `icmp` (replies under way), `shown` | `ParseOptions`, `PacketSize`, `OpenSockets`, `StartLine`, `send_probe`, `SendTooBig`, `Answer`, `NeedFrag`, `LateReply`, `TimeOut`, `EndLine` |
| `SourceRoute` | `traceroute.lsrr.c`, `-g` and `-G` | `optlist`, `oix`, `lsrr`, `ulong` (the width of a long) | `Gateway`, `Refused`, `Opened`, `SetRoute`, `NoRoute` |
| `IcmpClients` | both ICMP clients | `request`, `tsorig`, `adjusted`, `response` | `TimeSetup`, `MaskSetup`, `TimeSender`, `MaskSender`, `TimeReply`, `MaskReply`, `ShortPacket`, `CountReply`, `sig_alrm`, `Exit` |
| `Elbonian`, `BloodGroup` | contest programs | labels and list; the `line` read, the arguments and what was printed | one per phase of the program |
| `Quicksort` | `prog_quicksort.c` | `x`, `stack` of calls, `up`, `down`, `piv` | `Trivial`, `Enter`, `Up`, `Down`, `Swap`, `Leave`, `Return` |
| `Contest` | coins, strikes, drive | `solution`, `workingSet`, `shown` | `CoinLine`, `BandhDay`, `NextParty`, `DriveLine` |
| `VipCalculator` | three programs | `shareOwn`, `totalInvst`, `target`, `row` | `Installment`, `BadLine`, `EndOfFile`, `printSummary` |
| `CdpWalker` | `hpcdpdisco.py` | `rows`, `deviceid`, `rel`, `relations` | `SkipHost`, `WalkHost`, `PortRow`, `GetFails`, `LastRow`, `merge_relations`, `print_relations` |
| `ResourceAdapter` | `jca/ex1` | `made`, `free`, `conn`, `listeners`, `held`, `fire` | `createConnectionFactory`, `matchManagedConnections`, `createManagedConnection`, `close`, `fireConnectionEvent`, `Return` |
| `VerifierStore` | `PropertiesVerifierStore` | `service`, `files`, `begun`, `todo`, `addUserThread`, `storeMap`, `bound`, `forgotten`; per caller `vpc`, `joined`, `disturbed` | `startService` (reads the file, assigns the field), `start`, `rebind`, `stopService`, `addUser`, `getUserVerifier` in steps |
| `SecurityServices` | cache service, `SecurityConfig`, `JndiStore` | bindings, listeners, the name `startedAs`, names `astray`, `loadedDomains` | `startCache`, `stopCache`, `setCacheJndiName`, `loadConfig`, `removeConfigs`, `setAuthConfig`, `Undeploy`, `startStore`, `stopStore` |
| `EjbTestRunner` | `EJBTestCase`, `EJBTestRunnerBean` | `phase`, `tx`, `body`, `exception`, `thrown`, `outcome` | `Begin`, `Body`, `Commit`, `Rollback`, ends of the phases, client side |
| `JNDIMap` | three versions | `jndiName`, `state`, `bound`, `leaked`, `map`, `initial` | `start`, `stop`, `setJndiName`, `setInitialValues`, `PutKey` |
| `EjbMBeanAdaptor` | `ex3` | attributes, `home`, `deployed`, what was `reported` | `preRegister`, `setAttributes`, `create`, `start`, `stop`, `destroy`, `echo`, `Redeploy` |
| `JmsClients` | `jms/ex1`, `jms/ex2` | client control, `boxes`, `unacked`, `got`, `done`, bean `pool` | `Setup`, `Send`, `Deliver`, `onMessage`, `Acknowledge`, `Acquire`, `Receive`, `Stop`, `Killed`, `DurableTopicSetup`, `ejbCreate`, `TakeRequest`, `sendReply`, `ejbRemove` |

Environment: a path of gateways (`Traceroute`), a byte stream of bounded
capacity (`SockLoop`, `SourceSink`), a network that loses, repeats and reorders
datagrams (`UdpLoop`), a naming service that may throw, a transaction manager
that may throw, the connection manager's pool, SNMP agents, a JMS provider. These are marked external
in the map. Formatting, messages and address look-up are left out.

Composition for model checking: `MCThreads`, `MCNetwork` and `MCPrograms` hold
several programs side by side. A variable `prog`, chosen initially, says which
one runs; the others stay in one idle state. A property of a component is
thereby checked on exactly the behaviours of that component.

## Runs

| Run | Properties | Bounds, and why they are enough |
|---|---|---|
| `condv` | `CountExact`, `NoLostWakeup`, `StuckOnlyStarved`, `Completes`, `PoolSpec` | 4 threads (400 in the source; a thread handles one job, and the races need two dequeuers, an enqueuer and one more), `-t` 0 (as when it is absent), 1, 2, 4, 5: the division by zero, the wrap-around and the overrun all happen; one spurious wake-up |
| `sem` | `SemMatchesQueue`, `TakeFindsJob`, `Completes`, `PoolSpec` | 6 threads (40): two dequeuers and four enqueuers; `SemQueue_proofs` removes the bound for all but `Completes` |
| `threads` | lock: `NoLostWakeup`, `CallsReturn`, `AbsSpec`; discovery: `ButtonMatchesEngine`, `ShownInOrder`, `DiscoveryProceeds`; adapter: `ConnectionsExclusive`; store: `VerifierFound`; both: `ServersAnswer` | 4 callers with 2 calls each: a waiting reader, a waiting writer, one inside and one arriving; 2 engines (one being left while the next starts, in new memory or in that of the first), 3 packets on a queue of 2 (1000), refresh of 1 (10): the queue fills, and the worker of the first gets at the queue of the second; 3 beans for 2 connections, so that one is turned away; files of one and of two users, 2 callers (the race for the field), 2 starts (a restart, and the overlap of the two threads) |
| `network` | traceroute: `ShownAtDistance`, `MtuInTable`, `ExactPathMtu`, `TracingEnds`, `RouteRight`; forking server: `TerminalExclusive`, `FirstChildReleases`; copy loops, source and sink: `DataIntact`, `HalfCloseEnds`; ICMP: `IcmpVerdict`; set-up: `SocketReady` | paths of two gateways and a host with MTUs in and outside the table, gateways that report the next MTU or not, one that cannot forward; `-q` 0 (refused) and 2, `-m` 1 and 3, sizes none, invalid, 400, 65500; 1 late reply; the source route up to its limit, with longs of 4 and of 8 bytes and two addresses; 4 children; 3 units each way, capacity 3, all combinations of `-h`; UDP: one datagram from each stdin and one of a stranger, lengths 0, 1 and 2 (empty, fitting, truncated), buffers of 2; 5 buffers of 8 read in 4s with the urgent byte before the third; clocks around midnight and around a full second; 4 pids, 3 replies; all sets of up to 4 of the 15 options that matter |
| `programs` | CR/LF: `Correct`; linked queue: `QueueRight`; ring: `RingRight`; sequential solutions: `AlgorithmsRight`; `VerdictRight`; MBeans: `ServicesTidy`, `AdaptorConsistent`; JMS: `AnswersRight`, `WaitsOnlyForLost`; CDP: `LinksOnce`; VIP: `ValueAveraged` | all inputs to length 4 and destinations 0 to 9 (the doubled length and one more); 3 heap cells, so that addresses are reused; ring sizes 0 to 4 and 9 pushes, twice round; all pairs of parents, parent and child, `O` and the empty first line that `scanf` leaves, two lines; all graphs of 4 nodes with costs 1 and 3; arrays of up to 5 elements of 3 values; three lines of coins with and without a solution; 14 and 20 days, two parties; drives 1 to 6, where the answer is exact, and 35, where it is not; all failures of the transaction manager; 3 names, 2 keys; two names for the cache (a rename before, while and after it is started), 2 resources with a domain in common; 2 beans, 2 prefixes, lists of up to 2 attributes; 2 JMS clients, 2 beans for the queue and 1 for the topic, 2 messages (10), a client dying at any point once; 4 networks of 3 hosts, with a hub and a cable from a host to itself, up to 3 arguments; 4 lines of share values 1, 2 or 4 or a line that is refused (blank, malformed or 0), limits that are met on both sides |
| `condv_comment`, `discovery_stop`, `forkserver_accept`, `traceroute_q1`, `ejb_favour`, `xmbean_initial`, `writen_error` | one each | each refutes what a comment or document says, see [findings](#findings) |

Deadlock checking is off in all of them: every program ends, and where one must
not stop early a property says so (`StuckOnlyStarved`, `Completes`,
`CallsReturn`, `DiscoveryProceeds`, `ServersAnswer`, `TracingEnds`, `HalfCloseEnds`,
`WaitsOnlyForLost`).

What the properties say, in the words of their components:

- *Job queues.* `CountExact`: the counter is the list's length plus exactly the
  failed allocations that were counted. `NoLostWakeup`: while a dequeuer sleeps,
  each counted job has an awake dequeuer still to look for one.
  `StuckOnlyStarved`: the two mutexes never deadlock. `SemMatchesQueue`: list =
  semaphore + admitted dequeuers + pushes not yet posted. `PoolSpec`: a job goes
  to one thread, once. `Completes`: the program ends if it crashed nowhere and
  has enough enqueuers.
- *Lock.* Readers sleep only while somebody writes; all writers sleep only while
  somebody is inside. In the end nobody is left waiting, the calls being finite: the
  lock prefers readers, and writers starve under an endless stream of them.
- *Servers.* `ConnectionsExclusive`: no two beans hold one handle, and a listener is
  told once although listeners remove themselves meanwhile. `VerifierFound`:
  as long as no thread that adds users is lost from the field (to a restart that
  overlaps, or to a clear that comes late), every user of the file last read is found;
  turned away is only a caller that was interrupted, during whose call the next thread
  began, or that lost the race for the field. `ServersAnswer`: every `echo` and every
  `getUserVerifier` returns.
- *Discovery.* An engine that is deleted leaves its memory to the next, while its worker,
  cancelled but not joined, may go on in it: such a worker is a stray. `ShownInOrder`: a packet
  is listed once, and after those its worker received before; packets of two workers
  are in order too unless one of them was a stray. `DiscoveryProceeds`: every slot of the
  window returns, and a cancelled worker ends for good, unless it waits for a mutex that
  a worker held when it died (which the window meets only if that was a stray). The window never keeps a deleted engine and the button tells the
  truth between slots, also when `configure` or `pthread_create` fails.
- *Forking server.* The parent never accepts while a child is at the terminal and
  no signal is left over at `accept`; the first child always releases it.
- *Copy loop.* `DataIntact` has three parts, one for each way of moving data: what is
  copied is a prefix of the input; a datagram comes out as it was sent, by its
  sender, cut only where the buffer ends; source and sink count the same bytes.
  With TCP a side with `-h` closes
  only after it wrote all its peer sent; with room in the connection both end.
- *traceroute.* An answer is shown on the line of its distance however late it
  comes; a size that was reduced is the path MTU when all gateways report theirs.
  `RouteRight`: the bytes stay in `optlist` whatever the width of a long, and
  with longs of 4 bytes the kernel is given the gateways in order, then the host.
- *ICMP.* `IcmpVerdict`: the request verifies, the clock is corrected to the time in the
  reply, at most once, and the exit status tells what happened.
- *MBeans.* `ServicesTidy`: as long as nothing failed, the map is bound under its own name
  only; the started cache service listens and is bound under the name it was started
  with, and leaves a listener only under a name changed before the stop (its binding is
  never undone, so nothing is claimed of it); a stopped configuration leaves no domain.
- *Ring.* `RingRight`: values come out in the order they were pushed; what
  is lost was refused, or was the one that filled the queue and was overwritten by the
  push after the next pop.
- *JMS.* `AnswersRight`: the provider redelivers what was not acknowledged, so two clients
  of a queue receive one message if the first died inside its listener, and only then;
  a client that ends has received as many as it sent, and a durable subscription loses nothing.
- *VIP.* `ValueAveraged`: a purchase costs what its shares cost and no more than the upper
  limit; it reaches the target unless a limit was met; one below the lower limit is made by
  the plain and the `cagr` calculator only, and pays just what the target needs; and a
  calculator stops early only at the end of the file or at a line it refuses.
- *Sequential solutions.* `AlgorithmsRight`: a shortest path, a sorted permutation, the
  children of a line that names both parents and no `O`, a combination of coins that pays
  wherever one exists, each lost day once, and for drives up to 34 a number with the divisors
  asked for, which need not be the smallest.
- *Others.* `Correct` and `LinksOnce` compare a program
  with the definition of its result; the remaining ones are stated at their
  definition.

## Fairness

Only weak fairness is assumed, and only of what a scheduler or a timer drives:

- job queues: `main` and each thread, as the scheduler runs every runnable thread;
  nothing of the mutexes (a thread may lose the race for one for ever unless the
  others finish, and they do), nothing of spurious wake-ups;
- `RWLock`: a thread inside a call or holding the lock goes on (`Proceed`); nobody
  has to make another call;
- `Discovery`: the window's thread, and each worker, strays included, except for the arrival of
  packets; users click when they like;
- `ResourceAdapter`: each bean, once it asked for a connection, and it does so again
  and again; `VerifierStore`: the `AddUsers` threads and each caller inside its call,
  but nobody has to call, start, stop or interrupt;
- `SockLoop`: each side; end of file on stdin comes because the inputs are finite;
- `ForkServer`: the parent, and children reporting (`TELL_PARENT`); a child may
  fail instead where `ChildMayFail` says so;
- `Traceroute`: its one process; a reply may be lost for ever because `select`'s
  timeout goes off then;
- `JmsClients`: a client's main thread, delivery to its listener and what the listener then does
  (`onMessage`, `Acknowledge`), the bean pool; no
  fairness of `Killed` or of set-up.

## Proofs

Each theorem holds for every value of the constants that satisfies the assumptions
named; the runs show the same property on a small instance. A theorem about a
program that shares its MC module with others is about that program's own
specification (`F!Spec => []TerminalExclusive`). All proofs have the same shape: an
inductive invariant that implies the property, one step for each action. What
follows says what had to be added to the property to make it inductive.

`Lemmas` has what several of them need: facts about lists (what linking and unlinking
do to the length and to the set of jobs) and about sequences, and induction over the
natural numbers (`Induct`, from the well-foundedness of their order), which gives what
a loop or a recursive function computes: the sum of `in_cksum`, the loop of
`setAttributes`, the conversion, the chain of links, the merging of rows, the cost of a
walk, powers and factorials, the last combination of coins. Facts that only one proof needs stand before it.

- `SemQueue_proofs`, from `SemAssumption` (a positive thread count, `NULL` not a number).
  `TypeCorrect`: the mutex is owned by exactly the thread in its critical section.
  `TypeOK` alone is not inductive: `MainCreate` could give a running thread a new start;
  `UnbornYet` (threads the create loop has not reached are unborn) excludes it.
  `SemAgrees` (`SemMatchesQueue`): `NumAtMove` says how the number of threads at given
  control points changes when one thread moves, and each action moves one thread
  and changes list or semaphore by the same amount. `TakeIsSafe` (`TakeFindsJob`): a
  thread at `d_take` owns the mutex, so by the balance the list is not empty.
  `PoolRefined` (`PoolSpec`): every step is a `Put`, a `Take` or a stutter of `JobPool`;
  `PoolInv` says that a job is linked once and by its own enqueuer, so that what is
  taken is what was put.
- `CondVQueue_proofs`, from `CondVAssumption`. `TypeCorrect` covers both mutexes.
  `CountCorrect` (`CountExact`) and `WakeupsKept` (`NoLostWakeup`) rest on `StepKinds`: a
  step is quiet (touches neither count nor list nor sleepers) or one of the few
  that are not, and only these need an argument about cardinalities. `PoolRefined`:
  the pool is implemented also where a dequeuer dies on an empty list.

`Traceroute_proofs`, from `TracerouteAssumption` (paths are not empty and each link
carries 68 bytes, the minimum of IP).

- `StaysInTable` (`MtuInTable`): the code reads `*mtuptr++` without looking for the
  end. `SizeInv` adds that at the table's end the size is at most 68 (`SmallAtEnd`) and
  that a refusal of the probe waited for was due to a larger size (`RefusedIsBig`).
- `ShownRight` (`ShownAtDistance`): `DistInv` adds that replies under way have the
  distance of their probe and that a number is used for one probe only.
- `PathMtuExact` (`ExactPathMtu`): `MtuInv` adds that the size either passes the
  interface, and then is some link's MTU once it was reduced, or the search has not
  gone past the interface's entry (`Descending`), and what the reply to the probe
  waited for says about the size (`Tells`): a refusal names a smaller link, an answer
  of the host means that all links were passed.

`Network_proofs`, from `NetworkAssumption` (a long has 4 or 8 bytes) and `DataAssumption`
(lengths and counts are numbers).

- `TerminalKept` (`TerminalExclusive`), any number of connections: `ForkInv` says that all
  children but the last have reported, and that what the last one sent is in one
  place, pending or in `sigflag`, until `RestoreMask`.
- `SocketMadeReady` (`SocketReady`), every set of options: `OpenInv` gives the options of
  each socket by the point reached.
- `RouteBuiltRight` (`RouteRight`), any number of gateways: `ListInv` says what the list
  holds while it is built, and that it ends early enough for the host to be added.
- `DataKept` (`DataIntact`), any lengths and counts: `LoopInv` says that what a side has
  written out, what is in the connection and what is still to come are consecutive
  numbers; `UdpInv` that whatever is under way or shown is mail its sender did send,
  with the right length; `SinkInv` that the bytes of the buffers written are those in the
  connection and those read.
- `IcmpTellsTruth` (`IcmpVerdict`), any replies, also from `IcmpAssumption` (clock values are
  below a day in milliseconds, process ids and packets are numbers): `IcmpInv` says
  at which points the clock may have been corrected and that one reply of the peer did
  it, and how the replies shown and the replies counted go together. That the request verifies is a fact about `in_cksum`: the complement of a
  folded sum, added to that sum, folds to all ones.

`Threads_proofs`, from `RWAssumption` (finitely many callers of the lock) and
`ThreadsAssumption` (a positive size of the queue, a pool that is no bean, a null and a
garbage pointer that are no engines).

- `TypeCorrect` of the lock: the three counters are the numbers of threads they stand for;
  this is inductive as it stands. `WakeupsKept` (`NoLostWakeup`) and `LockRefines` (`AbsSpec`)
  need it, because the code tests counters and the properties speak of threads.
- `ButtonKept` (`ButtonMatchesEngine`): `ButtonInv` extends it to the inside of the slots.
- `TreeOrdered` (`ShownInOrder`), any number of engines and packets, any size of the
  queue, and any reuse of memory: `OrderInv` says that what is listed, what `pop` can still
  reach in the queue the window reads (`Shelf`) and the packet a worker handles were received
  in this order by each worker, and by two workers unless one of them is a stray. A new
  engine's queue is empty whatever its memory held, and a worker that pushes into
  the queue of an engine which is not its own becomes a stray by that step. `Place` and `InUse` say
  which buffers of a ring `pop` can reach.
- `UsersFound` (`VerifierFound`), any files and any number of starts: `StoreInv` says that as
  long as no thread is forgotten, only the thread started last has users to add and the field
  holds it while a caller could miss them; that the users of its file are in the map or still to
  be added; and that a caller past its join, or one that met the field cleared, may rely on it
  (`Settled`).
- `ConnectionsKept` (`ConnectionsExclusive`), any beans and any pool: `Own(b)` is the
  connection a bean has until it told the pool; `PoolInv` says that a connection has
  one owner or is free with the pool as its only listener, `BeanInv` where each bean
  is in the event loop.

`Programs_proofs`, from `ProgramsAssumption` (sizes are numbers, `NULL` is no JNDI
name, at least one message is sent) and `VipAssumption` (amounts are numbers and a line is refused or has a share value that
divides `Unit`, so that the numbers of shares are whole in these units; `minInvest <=
maxInvest`). What describes inputs has an assumption of its own, given below.

- `VerdictHolds` (`VerdictRight`): `VerdictInv` follows the exception through its variables
  (`Honest`: an assertion names a phase whose body threw) and says what a phase left
  without one implies.
- `ServicesKept` (`ServicesTidy`): for the map, `MapInv` adds that a service of the later
  versions that failed to start has nothing bound but what the naming service
  refused to unbind, since its rename unbinds nothing. For the other two: as long
  as nothing failed, the listeners are those under the name of the last start and under names
  changed since theirs, and the domains active are those loaded and not yet removed.
- `ValueHolds` (`ValueAveraged`), any amounts, limits and number of lines, refused ones
  among them: `VipInv` adds that the money spent is at most the shares at the largest price, so that the
  summary divides by zero only if nothing was ever invested.
- `RingHolds` (`RingRight`), every size: `RingInv` speaks of positions counted from the
  front, where a push appends and a pop removes the first, whatever the wrap; what was offered is
  in order what was returned, what is stored, and what is in `unkept`.
- `AdaptorHolds` (`AdaptorConsistent`), lists of attributes of any length: `AdaptorInv` says which
  states have a home and that the list reported is what the loop of `setAttributes` keeps of
  the list given, which `Induct` carries along the list.
- `AnswersCounted` (`AnswersRight`), any number of clients, messages and beans: `BoxInv` says which
  queues and subscriptions there are, `ClientInv` what a client at each point has sent and
  counted, `PlaceInv` that a message is in one place (waiting for `TextMDB`, in its hands, in
  a queue, with a listener that has not acknowledged it, or received for good) with a copy for
  each subscriber of a topic, where what a client received and died with may be back in the queue, `DurableInv` that the durable
  subscription and what its readers got are all that was published.
- `ConversionRight` (`Correct`), any input and any destination, from `CrlfAssumption`: what is
  returned is the conversion and never passes the end; what is refused would fill the destination or
  pass it. `CrlfInv` says that what is in the destination is the conversion of what was consumed.
- `QueueHolds` (`QueueRight`), any heap: `QueueInv` gives the chain of links as a sequence of
  cells that is closed in both directions and holds the values of the abstract queue.
- `LinksListed` (`LinksOnce`), any network, from `NetworksAssumption` (links join hosts at
  numbered ports): no link twice anywhere, and every link, no other, where no port has two
  neighbours (behind a hub the code pairs ends that are not one link). `CdpInv` says that the list, what is to be merged and the rows
  still to be read are together the links of the hosts asked, each once.

`Contests_proofs`, for inputs of any size, each kind with its assumption.

- `SortsRight` (`Quicksort!Sorted`), any array, from `ArraysAssumption`: `SortInv` says that the
  ranges on the stack are apart and ascending, that places that lie in no common range are in
  order, and that the array is a permutation of the input.
- `PathIsShortest` (`Elbonian!ShortestPath`), any graph, from `CostsAssumption` (costs are not
  negative). `ListInv`: the candidate list holds the nodes that are labelled and not visited.
  `LabelsInv`: a visited node's label is at most the cost of any walk to it, since edges from
  visited nodes are relaxed and what is visited has no larger label than what is not
  (`NoWalkUndercuts`); in a connected graph the list is not empty before all are visited
  (`NeverOut`), and `curr_order_id` counts them. `TrailInv`: on the way back the labels fall
  by the costs of the edges, strictly, so that no node comes twice and the way ends at the
  start (`TrailShort`).
- `SolutionsRight` (`Contest!ContestRight`), any lines, strikes and numbers, from
  `CoinLinesAssumption`, `BandhAssumption` and `DrivesAssumption` (numbers are
  positive; what is said of the drive is for those up to `Exact`, 34, where the double of
  `Solution1.cxx` is exact): a line of coins with a solution is given one, and nothing
  is given as long as no line had one; of a line without that follows one with, nothing is said.
  `CoinsInv` says that there is no
  answer exactly as long as no line had one, and `LastOf` that the loops end with a
  combination that pays; `BandhInv` that the set holds the strikes of the parties
  read and of the next one up to its day `index`. For the drive, `ExponentsAre` gives the
  exponents of 2 and 3 in what is printed, for either order of the two primes, and `Arranged`
  the quotient of factorials.
- `ChildrenRight` (`BloodGroup!ChildrenMendelian`), any lines, from `LinesAssumption`: for a line
  that gives both parents and no `O`, what is printed are the rule's groups, whatever the lines
  before it left. `BloodInv` gives what is printed as the tables' entries for the arguments
  stored, and these as those of the line; that the entries are the rule's is decided for each
  pair of groups.
- `AlgorithmsHold` (`AlgorithmsRight`): the four of them side by side, each with the limits
  given here.

Only model-checked: liveness under fairness (`Completes`, `CallsReturn`, `DiscoveryProceeds`,
`ServersAnswer`, `TracingEnds`, `FirstChildReleases`, `HalfCloseEnds`, `WaitsOnlyForLost`) and
`ENABLED` (`StuckOnlyStarved`), which the prover does not do. Every other property that a
passing run checks has its theorem.

## Findings

Each is a run that ends with a counterexample to the words quoted.

| Run | Where | What the code does | What is said |
|---|---|---|---|
| `condv_comment` | `prog_condV.c:94` | two dequeuers pass the wait for one job; the second dereferences a null `next_job` | `prog_condV.c:76` "When we reached hear, it implyes job_queue_count > 0" |
| `discovery_stop` | `discoveryUi.cpp:64` | the engine is deleted while its cancelled worker may still lock, push and unlock | `discoveryUi.h:17`, the button starts and stops the discovery |
| `forkserver_accept` | `tellwait.c:60` | the mask is restored after the first child and not blocked again: a signal before `sigsuspend` is lost and the parent sleeps for ever | `servopen.c:106-107` "and back to for(;;) for another accept()" |
| `traceroute_q1` | `traceroute.pmtu.c:630` | with `-q 1`, zero unreachables are enough to stop after ttl 1 | header, lines 54-56 and 160-162 |
| `ejb_favour` | `EJBTestRunnerBean.java:101` | inverted test: the tear-down's exception replaces the test's | line 100 "favor the run exception if one was thrown" |
| `xmbean_initial` | `xmbean/JNDIMap.java:107` | values put before the start are dropped, a restart empties the map | `jndimap-xmbean1.xml:35-36` |
| `writen_error` | `writen.c:12` | the -1 of a failed `write` is kept in a `size_t`, is never `<= 0`, and moves the pointer back; the loop goes on and returns `n` | `writen.c:13` "/* error */", `loop.c:181` "writen error to stdout" |

## Other behaviour the models show

Nothing in the repository says otherwise, so these are recorded and not runs.

- `prog_sem.c:40-41`, `prog_condV.c:61`: the job is read after it was published and may
  have been freed. `prog_condV.c:137`: `-t 1` divides by zero; without `-t` the create
  loop runs past its array. `:162`: ids of threads that were not created are joined.
- `prog_queue.c:57`: pop on a queue that never held anything. `prog_queue.cpp:59-80`: the
  value that fills the queue is stored where `pop` does not look, and the push after the next
  pop overwrites it. `discoveryUi.cpp:104`: a node is read and dropped.
- `discoveryUi.cpp:46,64`: the next engine usually gets the memory of the last. Its worker,
  cancelled but not joined, then pushes its packets into the new queue, before or between
  later ones; cancelled in the message of a full queue it dies with the new engine's mutex, and
  the window and the new worker wait for ever.
- `crlf.c:25,43`: output that exactly fills the destination is refused.
- `servopen.c:131`: a child that fails before it reports leaves the parent waiting.
  `servopen.c:41`: after a failed look-up of the service a null pointer is followed
  (`cliopen.c` quits). `cliopen.c:91,110`: `SO_BROADCAST` is set after `connect`.
  `buffers.c:41`: quits if the kernel rounds the size.
- `loop.c:97`: both peers can block in `write` when the connection has too little room.
  `loop.c:171`: the side that sees end of file stops although its stdin is not
  copied. `sourcesink.c:58-59`: a short read, which TCP may return at any time, ends
  the sink with an error.
- `EJBTestRunnerBean.java:134,177`: a transaction marked for rollback stays open and the
  tear-down cannot begin. `:141,184,228`: an `IllegalStateException` from rollback is
  not wrapped.
- `traceroute.pmtu.c:682,723`: the next table entry can be larger than the size refused;
  packets for others restart the wait.
- `bloodgroup.c` does not compile as it is (its structure has no `required_argument`). With the
  member it means: `:226-247` has no case for `O`, so a line with such a parent prints the children of
  a group stored before; arguments are not cleared between lines; `:1081-1092`, the first line
  read is the empty one that `scanf` left.
  `elbonian.c`: equal end points and disconnected graphs.
- `icmptime.c:215-246`: any timestamp reply sets the clock; `:205` returns nothing;
  `:233` is a day off at midnight; an alarm between `adjtime` and `exit` reports a
  timeout. `icmpaddrmask.c:199`: an alarm between the message and the count.
- JMS: a client waits for ever if `TextMDB` lost its reply or another client of the
  queue took it; topic clients count foreign messages;
  `ex1/SendRecvClient.java:39-47,60`: one that dies in its listener has counted a message that
  the provider gives to another. JNDI map: `started` is set
  before the rebind. Adaptor: the home is stale after a redeployment; its
  `MBeanInfo` describes `start` three times and `stop` and `destroy` not at all.
- Resource adapter: without a root directory `createConnectionFactory` fails in its log
  message; `associateConnection` leaves the managed connection it takes the handle
  from in possession of it.
- `PropertiesVerifierStore.java:103`: the field is tested and read again, and another
  caller may have cleared it; `:104`, a clear that comes after the next start forgets the new
  thread, and a caller then misses a new user without a wait; `:68-81`, the field is assigned
  before the thread is started: a join then returns at once, and if the caller clears the field
  the start follows a null pointer; a restart while users are added can lose entries
  of the plain `HashMap`; an interrupted caller misses users.
- `DistributedCacheService.java:62-67`: the cache stays bound after the stop; renamed while
  started, the service unregisters under the new name and stays a listener under the old. `SecurityConfig` remembers the domains of an earlier load.
- `traceroute.lsrr.c`: with longs of 8 bytes the route is wrong, though within bounds.
- `loop.c` with `-u`: the client takes an empty datagram for end of file; an unconnected
  server cannot write; an ICMP error ends a connected side.
- `Solution3.c:32`: a line without a solution repeats the answer of an earlier one, where
  `CodeWar2014/Problem3/Question` wants "No Solution found"; with no earlier one it prints that.
  `CodeWar2014/Solution1.cxx`: two calls with side effects in one expression, in
  unspecified order; `question1` asks for the smallest number, and for 6 the program
  prints 96 where 30 would do; above 34 the double is no longer exact.
- VIP calculators: the plain and the `cagr` one may invest less than `minInvest`, against
  `vipCalculator-cagr.py:125-126`, "The minimum amount to be invested"; an empty file divides by
  zero; a blank, malformed or 0 line (`vipCalculator.py:65-69`) ends the program without a summary,
  whatever was bought before.
- `hpcdpdisco.py`: several neighbours on one port (a hub) collapse to the last, and the two ends of a row may
  then not be one link; a failed get ends the program.

## Not modelled

- Printing, formatting, name look-up, the pauses of `sock`, `pattern`: no state.
- The notifications of the xmbean proxy; `associateConnection`, which nothing calls since
  `EchoBean` keeps no handle over its calls; `WAIT_PARENT` and `TELL_CHILD`, which `sock`
  never calls; renaming a bound verifier store;
  `discovery`'s `txqueue`, which is
  filled and never read.
- `prog_rwmutex.c` (unfinished: an empty body, and `main` does not compile),
  `prog_rwmutex_1.cpp` (no object of it can be made), `prog_stack.cpp` (fixed calls within
  limits tested in the line before), `lsif.c`, `prog_arp_linux.c`, `prog_getifaddrs.c`,
  `prog_sigbus2.c` (a single pass of system calls each), the J2EE beans and clients that make one call and
  print its outcome, language and system call demonstrations, contest data, web
  pages.
- The powers of the expected return in the VIP calculators: the average installment
  is a number given. Negative share values and an installment count of zero or less.

Integer widths are kept where they matter (the unsigned difference in
`prog_condV.c`, the `size_t` of `writen`, the 16-bit sums of `in_cksum`, `sizeof(u_long)` in
the source route, C's division of negative numbers);
elsewhere values stay far from the limits.

## Plan

Done, in this order: job queues with their abstract pool; lock; linked and ring
queue; discovery; `sock` (forking, copy loop, conversion, source and sink, set-up);
traceroute with its source route; ICMP clients; contest programs, quicksort, VIP,
CDP walk; EJB test runner; JNDI map, adaptor, JMS; resource adapter, security
services; UDP and `writen`; the theorems under [proofs](#proofs). What is left of
the code is under [not modelled](#not-modelled).
