----------------------------- MODULE JmsClients -----------------------------
(***************************************************************************)
(* The JMS examples (jms/ex1, ex2, ex3): programs that send text messages  *)
(* to a queue or a topic and receive them back, directly or as answered by *)
(* the message-driven bean TextMDB.  One example is run by several clients *)
(* at once or one after the other; a client may be killed on the way.      *)
(*                                                                         *)
(*   "queue"     ex1/SendRecvClient        one message, same queue         *)
(*   "topic"     ex1/TopicSendRecvClient   one message, same topic         *)
(*   "durable"   ex1/DurableTopicClient    one message, durable subscriber *)
(*   "sync"      ex1/TopicSendClient and ex1/TopicRecvClient               *)
(*   "syncDur"   ex1/TopicSendClient and ex1/DurableTopicRecvClient        *)
(*   "mdbQueue"  ex2/SendRecvClient        N messages answered by TextMDB  *)
(*   "mdbTopic"  ex3/SendRecvClient        N messages answered by TextMDB  *)
(*                                                                         *)
(* The JMS provider is external: a queue keeps a message until a client    *)
(* has acknowledged it; a topic copies it to the subscriptions that exist; *)
(* a durable subscription outlives its connection, of which there is one   *)
(* at a time.  With AUTO_ACKNOWLEDGE a listener's message is acknowledged  *)
(* when the listener returns, and delivered again if the client dies       *)
(* before; closing a connection waits for the listener.  A message is the  *)
(* client that sent it and a number.                                       *)
(***************************************************************************)
EXTENDS Integers, Sequences, FiniteSets, SequencesExt

CONSTANTS
    Clients,          \* client processes
    PoolSize,         \* instances of TextMDB the container may make, per example
    Kinds,            \* the examples run
    N                 \* messages of an ex2 or ex3 client (10 in the source)

VARIABLES
    kind,             \* the example
    role,             \* "both", "sender" or "receiver", per client
    cpc,              \* "new", "send", "acquire", "receive", "stop", "end" or "dead"
    sent,             \* messages sent, per client
    done,             \* CountDown: answers still to come
    got,              \* messages received, per client
    unacked,          \* of these the one whose listener is running, or was
                      \* when the client died
    requests,         \* what waits for TextMDB (queue or topic B)
    boxes,            \* what waits in queue A or in a subscription, by its name
    unborn, pool,     \* instances of TextMDB not yet made, and made
    hand,             \* the requests they are working on
    lost,             \* clients one of whose answers could not be sent
    published         \* what the durable subscription was given so far

vars == <<kind, role, cpc, sent, done, got, unacked, requests, boxes,
          unborn, pool, hand, lost, published>>

clientVars == <<kind, role, cpc, sent, done, got, unacked>>
beanVars == <<requests, unborn, pool, hand, lost>>

Mdb == kind \in {"mdbQueue", "mdbTopic"}
Quota == IF Mdb THEN N ELSE 1
Queue == kind \in {"queue", "mdbQueue"}
Durable == kind \in {"durable", "syncDur"}

(* The queue or subscription a client reads. *)
Box(c) == CASE Queue -> "A" [] Durable -> "D" [] OTHER -> c

Connected(c) == cpc[c] \in {"send", "acquire", "receive", "stop"}

Init ==
    /\ kind \in Kinds
    /\ role \in [Clients -> IF kind \in {"sync", "syncDur"}
                            THEN {"sender", "receiver"} ELSE {"both"}]
    /\ cpc = [c \in Clients |-> "new"]
    /\ sent = [c \in Clients |-> 0]
    /\ done = [c \in Clients |-> Quota]
    /\ got = [c \in Clients |-> <<>>]
    /\ unacked = [c \in Clients |-> {}]
    /\ requests = <<>>
    /\ boxes = IF Queue THEN [b \in {"A"} |-> <<>>] ELSE <<>>
    /\ unborn = PoolSize[kind] /\ pool = 0 /\ hand = {}
    /\ lost = {} /\ published = <<>>

-----------------------------------------------------------------------------
(* Destinations *)

(* A message reaches the queue, or every subscription there is. *)
Put(m) ==
    /\ boxes' = [b \in DOMAIN boxes |-> Append(boxes[b], m)]
    /\ published' = IF "D" \in DOMAIN boxes THEN Append(published, m) ELSE published

With(f, b) == [x \in DOMAIN f \cup {b} |-> IF x \in DOMAIN f THEN f[x] ELSE <<>>]

(* The end of a connection ends its subscription, unless that is durable; a  *)
(* message that was not acknowledged goes back where it came from.           *)
Disconnect(c) ==
    boxes' = IF Queue \/ Durable
             THEN [b \in DOMAIN boxes |->
                      IF b = Box(c) THEN SetToSeq(unacked[c]) \o boxes[b] ELSE boxes[b]]
             ELSE [b \in DOMAIN boxes \ {c} |-> boxes[b]]

-----------------------------------------------------------------------------
(* The clients *)

(* Connection, session, receiver and listener; any of it may throw, as it    *)
(* does when the durable subscription is in use.                             *)
Setup(c) ==
    /\ cpc[c] = "new"
    /\ \/ /\ role[c] # "sender" /\ Durable =>
               \A d \in Clients : role[d] # "sender" => ~Connected(d)
          /\ cpc' = [cpc EXCEPT ![c] = IF role[c] = "receiver" THEN "receive" ELSE "send"]
          /\ boxes' = IF role[c] = "sender" THEN boxes ELSE With(boxes, Box(c))
       \/ /\ cpc' = [cpc EXCEPT ![c] = "dead"]
          /\ UNCHANGED boxes
    /\ UNCHANGED <<kind, role, sent, done, got, unacked, beanVars, published>>

(* One turn of the sending loop; TopicSendClient does not wait for anything. *)
Send(c) ==
    /\ cpc[c] = "send"
    /\ LET m == <<c, sent[c] + 1>>
       IN  IF Mdb
           THEN requests' = Append(requests, m) /\ UNCHANGED <<boxes, published>>
           ELSE Put(m) /\ UNCHANGED requests
    /\ sent' = [sent EXCEPT ![c] = @ + 1]
    /\ cpc' = [cpc EXCEPT ![c] = IF sent[c] + 1 < Quota THEN "send"
                                 ELSE IF role[c] = "sender" THEN "stop" ELSE "acquire"]
    /\ UNCHANGED <<kind, role, done, got, unacked, unborn, pool, hand, lost>>

(* The provider's thread takes a message for the listener, one at a time,    *)
(* until the connection is closed and not only until main has all it waits   *)
(* for.                                                                      *)
Deliver(c) ==
    /\ Connected(c) /\ role[c] = "both" /\ unacked[c] = {}
    /\ boxes[Box(c)] # <<>>
    /\ got' = [got EXCEPT ![c] = Append(@, Head(boxes[Box(c)]))]
    /\ unacked' = [unacked EXCEPT ![c] = {Head(boxes[Box(c)])}]
    /\ boxes' = [boxes EXCEPT ![Box(c)] = Tail(@)]
    /\ UNCHANGED <<kind, role, cpc, sent, beanVars, published>>

(* Mutant: the listener does not release done. *)
onMessage_NoRelease(c) == Deliver(c) /\ UNCHANGED done

(* ExListener.onMessage is called and counts the message down first; it may  *)
(* be main's last while the listener is still at work.                       *)
onMessage(c) ==
    /\ Deliver(c)
    /\ done' = [done EXCEPT ![c] = @ - 1]

(* The listener returns, whatever it caught, and the session acknowledges. *)
Acknowledge(c) ==
    /\ Connected(c) /\ unacked[c] # {}
    /\ unacked' = [unacked EXCEPT ![c] = {}]
    /\ UNCHANGED <<kind, role, cpc, sent, done, got, beanVars, boxes, published>>

Acquire(c) ==
    /\ cpc[c] = "acquire" /\ done[c] <= 0
    /\ cpc' = [cpc EXCEPT ![c] = "stop"]
    /\ UNCHANGED <<kind, role, sent, done, got, unacked, beanVars, boxes, published>>

(* receive(5000) of the synchronous clients: a message, or null in the end. *)
Receive(c) ==
    /\ cpc[c] = "receive"
    /\ cpc' = [cpc EXCEPT ![c] = "stop"]
    /\ \/ /\ boxes[Box(c)] # <<>>
          /\ got' = [got EXCEPT ![c] = Append(@, Head(boxes[Box(c)]))]
          /\ boxes' = [boxes EXCEPT ![Box(c)] = Tail(@)]
       \/ UNCHANGED <<got, boxes>>
    /\ UNCHANGED <<kind, role, sent, done, unacked, beanVars, published>>

(* Mutant: the client deletes its subscription when it ends. *)
Stop_Unsubscribe(c) ==
    /\ cpc[c] = "stop" /\ unacked[c] = {}
    /\ cpc' = [cpc EXCEPT ![c] = "end"]
    /\ boxes' = IF Queue THEN boxes ELSE [b \in DOMAIN boxes \ {Box(c)} |-> boxes[b]]
    /\ UNCHANGED <<kind, role, sent, done, got, unacked, beanVars, published>>

(* The connection is closed, once no listener is running. *)
Stop(c) ==
    /\ cpc[c] = "stop" /\ unacked[c] = {}
    /\ cpc' = [cpc EXCEPT ![c] = "end"]
    /\ Disconnect(c)
    /\ UNCHANGED <<kind, role, sent, done, got, unacked, beanVars, published>>

(* ex1/DurableTopicSetup makes the subscription and leaves. *)
DurableTopicSetup ==
    /\ kind = "syncDur"
    /\ \A c \in Clients : role[c] = "receiver" => ~Connected(c)
    /\ boxes' = With(boxes, "D")
    /\ UNCHANGED <<clientVars, beanVars, published>>

(* The process is killed, in its listener too, or main ends with an exception. *)
Killed(c) ==
    /\ Connected(c)
    /\ cpc' = [cpc EXCEPT ![c] = "dead"]
    /\ Disconnect(c)
    /\ UNCHANGED <<kind, role, sent, done, got, unacked, beanVars, published>>

-----------------------------------------------------------------------------
(* TextMDB *)

(* setupPTP; the container gives an instance up when it throws. *)
ejbCreate ==
    /\ unborn > 0
    /\ unborn' = unborn - 1
    /\ pool' \in {pool, pool + 1}
    /\ UNCHANGED <<clientVars, requests, boxes, hand, lost, published>>

(* An instance that is not working is removed, at the latest on undeploy. *)
ejbRemove ==
    /\ pool > Cardinality(hand)
    /\ pool' = pool - 1
    /\ UNCHANGED <<clientVars, requests, boxes, unborn, hand, lost, published>>

(* TextMDB.onMessage is called with a request. *)
TakeRequest ==
    /\ pool > Cardinality(hand) /\ requests # <<>>
    /\ hand' = hand \cup {Head(requests)}
    /\ requests' = Tail(requests)
    /\ UNCHANGED <<clientVars, boxes, unborn, pool, lost, published>>

(* The answer is sent to JMSReplyTo.  Whatever is thrown is logged: the      *)
(* request counts as processed and the answer is lost.                       *)
sendReply ==
    /\ \E m \in hand :
          /\ \/ Put(m) /\ UNCHANGED lost
             \/ lost' = lost \cup {m[1]} /\ UNCHANGED <<boxes, published>>
          /\ hand' = hand \ {m}
    /\ UNCHANGED <<clientVars, requests, unborn, pool>>

-----------------------------------------------------------------------------
Main(c) == Send(c) \/ Acquire(c) \/ Receive(c) \/ Stop(c)
Listener(c) == onMessage(c) \/ Acknowledge(c)
Bean == ejbCreate \/ TakeRequest \/ sendReply

Next ==
    \/ \E c \in Clients : Setup(c) \/ Main(c) \/ Listener(c) \/ Killed(c)
    \/ Bean \/ ejbRemove
    \/ DurableTopicSetup

Fairness ==
    /\ \A c \in Clients : WF_vars(Main(c)) /\ WF_vars(Listener(c))
    /\ WF_vars(Bean)

Spec == Init /\ [][Next]_vars /\ Fairness

-----------------------------------------------------------------------------
(* Properties *)

Own(c) == {<<c, m>> : m \in 1 .. Quota}

(* What a client received for good: not what it held when it died. *)
Kept(c) == ToSet(got[c]) \ (IF cpc[c] = "dead" THEN unacked[c] ELSE {})

(* A durable subscription, once there, loses nothing: what was published     *)
(* since is still in it or was received for good, over the end or the death  *)
(* of the clients that use it.                                               *)
DurableKeeps ==
    Durable /\ published # <<>> =>
        /\ "D" \in DOMAIN boxes
        /\ ToSet(published) = ToSet(boxes["D"]) \cup UNION {Kept(c) : c \in Clients}

(* done counts answers and not which they are.  No client receives one       *)
(* message twice; two clients receive one message of a queue only if one of  *)
(* them died in its listener.  A client that ends has received as many as it *)
(* sent; these are its own if it was the only one to run.  A durable         *)
(* subscription loses nothing.                                               *)
AnswersRight ==
    /\ \A c \in Clients : IsInjective(got[c])
    /\ Queue \/ Durable =>
          \A c, d \in Clients : c # d => Kept(c) \cap Kept(d) = {}
    /\ \A c \in Clients : role[c] = "both" /\ cpc[c] = "end" =>
          /\ Len(got[c]) >= Quota
          /\ (\A d \in Clients \ {c} : cpc[d] = "new") => ToSet(got[c]) = Own(c)
    /\ DurableKeeps

(* A client waits for ever only if TextMDB lost an answer of its own or no   *)
(* instance of it is left, or if another client, stopping too late, took one *)
(* of its for good.                                                          *)
WaitsOnlyForLost ==
    \A c \in Clients :
        cpc[c] = "acquire" ~>
            \/ cpc[c] # "acquire"
            \/ c \in lost
            \/ unborn + pool = 0
            \/ \E d \in Clients \ {c} : Kept(d) \cap Own(c) # {}
=============================================================================
