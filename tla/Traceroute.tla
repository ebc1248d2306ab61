----------------------------- MODULE Traceroute -----------------------------
(***************************************************************************)
(* tcpipi/traceroute: both versions of the program, traceroute.pmtu.c      *)
(* (don't-fragment probes, path MTU discovery) and traceroute.lsrr.c, which *)
(* differ in a handful of lines.                                           *)
(*                                                                         *)
(* The network (external) is a path of hops, the last one the host that is *)
(* traced.  A hop's mtu is that of the link leading to it; new says        *)
(* whether the hop reports the next link's MTU when a probe is too big for *)
(* it, up whether it can forward at all.  A reply may be lost or arrive    *)
(* when the program is already waiting for another one.  Addresses, times  *)
(* and the text of the lines are left out.                                 *)
(***************************************************************************)
EXTENDS Integers, Sequences, FiniteSets

CONSTANTS
    Paths,         \* the paths tried: sequences of [mtu, new, up]
    Versions,      \* subset of {"pmtu", "lsrr"}
    QArgs, MArgs,  \* values tried for -q and -m
    SizeArgs,      \* values tried for the packet size, NoArg included
    NoArg,
    MaxLate        \* bound on the replies that are late at a time

MINMTU == 68                  \* every IP link carries this much
OPACKET == 40                 \* sizeof(struct opacket)
MAXPACKET == 65535

mtus == <<17914, 8166, 4464, 4352, 2048, 2002, 1536, 1500, 1492, 1006, 576,
          552, 544, 512, 508, 296, 68, 0>>

ASSUME TracerouteAssumption ==
    /\ \A p \in Paths :
          /\ p \in Seq([mtu : Nat, new : BOOLEAN, up : BOOLEAN]) /\ p # <<>>
          /\ \A k \in 1 .. Len(p) : p[k].mtu >= MINMTU
    /\ Versions \subseteq {"pmtu", "lsrr"}
    /\ QArgs \subseteq Int /\ MArgs \subseteq Int
    /\ SizeArgs \subseteq Int \cup {NoArg} /\ NoArg \notin Int
    /\ MaxLate \in Nat

VARIABLES
    path, version,           \* the network and the program, fixed
    pc,
    nprobes, max_ttl,        \* options
    ttl, probe, seq,
    got_there, unreachable,  \* answers of the kind on this line
    datalen, mtuptr,         \* size of a probe; index of the next mtus[] to try
    icmp,                    \* replies on their way or in the socket
    shown                    \* the answers of all lines: [line, from, kind]

vars == <<path, version, pc, nprobes, max_ttl, ttl, probe, seq, got_there,
          unreachable, datalen, mtuptr, icmp, shown>>

options == <<path, version, nprobes, max_ttl>>
line == <<ttl, probe, seq, got_there, unreachable>>
size == <<datalen, mtuptr>>

Init ==
    /\ path \in Paths /\ version \in Versions
    /\ pc = "options"
    /\ nprobes = 3 /\ max_ttl = 30
    /\ ttl = 1 /\ probe = 0 /\ seq = 0
    /\ got_there = 0 /\ unreachable = 0
    /\ datalen = 0 /\ mtuptr = 1
    /\ icmp = {} /\ shown = {}

-----------------------------------------------------------------------------
(* main: options, size of the probes, sockets *)

(* The getopt loop; any of the other options may be refused as well. *)
ParseOptions ==
    /\ pc = "options"
    /\ nprobes' \in QArgs /\ max_ttl' \in MArgs
    /\ pc' \in IF nprobes' < 1 \/ max_ttl' <= 1 THEN {"exit"} ELSE {"exit", "size"}
    /\ UNCHANGED <<path, version, line, size, icmp, shown>>

(* The size on the command line, or (pmtu only) the first one of the table. *)
PacketSize ==
    /\ pc = "size"
    /\ \E a \in SizeArgs :
          LET fromTable == a = NoArg /\ version = "pmtu"
              d == IF fromTable THEN mtus[mtuptr] - OPACKET
                   ELSE IF a = NoArg THEN 0 ELSE a
              bad == d < 0 \/ d >= MAXPACKET - OPACKET
          IN /\ mtuptr' = IF fromTable THEN mtuptr + 1 ELSE mtuptr
             /\ datalen' = IF bad THEN d ELSE d + OPACKET
             /\ pc' = IF bad THEN "exit" ELSE "sockets"
    /\ UNCHANGED <<options, line, icmp, shown>>

(* malloc, the sockets and their options, any of which may fail. *)
OpenSockets ==
    /\ pc = "sockets"
    /\ pc' \in {"line", "exit"}
    /\ UNCHANGED <<options, line, size, icmp, shown>>

-----------------------------------------------------------------------------
(* The network: where a probe ends, and what comes back from there *)

TooBig(k) == version = "pmtu" /\ datalen > path[k].mtu

EndsAt(k) ==
    /\ k <= ttl
    /\ \A j \in 1 .. k - 1 : path[j].up /\ ~TooBig(j + 1)
    /\ k < Len(path) => k = ttl \/ ~path[k].up \/ TooBig(k + 1)

(* "port" stands for port and protocol unreachable, "host" for net and host  *)
(* unreachable and a failed source route, which are counted alike.           *)
Kind(k) ==
    IF k = Len(path) THEN "port"
    ELSE IF k = ttl THEN "timxceed"
    ELSE IF ~path[k].up THEN "host"
    ELSE "needfrag"

Reply(k, n) ==
    [seq |-> n, from |-> k, kind |-> Kind(k),
     mtu |-> IF k < Len(path) /\ path[k].new THEN path[k + 1].mtu ELSE 0]

-----------------------------------------------------------------------------
(* send_probe *)

(* Mutant: the next size is not stepped over. *)
SendTooBig_NoStep ==
    /\ pc = "send" /\ TooBig(1)
    /\ datalen' = mtus[mtuptr]
    /\ UNCHANGED <<options, pc, line, mtuptr, icmp, shown>>

(* sendto fails with EMSGSIZE: the next size of the table. *)
SendTooBig ==
    /\ pc = "send" /\ TooBig(1)
    /\ datalen' = mtus[mtuptr] /\ mtuptr' = mtuptr + 1
    /\ UNCHANGED <<options, pc, line, icmp, shown>>

(* send_probe(++seq, ttl): the reply is on its way. *)
send_probe ==
    /\ pc = "send" /\ ~TooBig(1)
    /\ seq' = seq + 1
    /\ \E k \in 1 .. Len(path) : EndsAt(k) /\ icmp' = icmp \cup {Reply(k, seq')}
    /\ pc' = "wait"
    /\ UNCHANGED <<options, ttl, probe, got_there, unreachable, size, shown>>

(* sendto fails otherwise: reported, and waited for all the same. *)
SendFails ==
    /\ pc = "send" /\ ~TooBig(1)
    /\ seq' = seq + 1
    /\ pc' = "wait"
    /\ UNCHANGED <<options, ttl, probe, got_there, unreachable, size, icmp, shown>>

-----------------------------------------------------------------------------
(* The probe loop *)

(* A line starts, or starts again after a probe that was too big. *)
StartLine ==
    /\ pc = "line" /\ ttl <= max_ttl
    /\ probe' = 0
    /\ pc' = "send"
    /\ UNCHANGED <<options, ttl, seq, got_there, unreachable, size, icmp, shown>>

OutOfHops ==
    /\ pc = "line" /\ ttl > max_ttl
    /\ pc' = "exit"
    /\ UNCHANGED <<options, line, size, icmp, shown>>

NextProbe == probe' = probe + 1 /\ pc' = IF probe' < nprobes THEN "send" ELSE "endline"

(* wait_for_reply times out; the reply may be lost or still on its way. *)
TimeOut ==
    /\ pc = "wait"
    /\ icmp' \in {icmp, {r \in icmp : r.seq # seq}}
    /\ Cardinality(icmp') <= MaxLate
    /\ NextProbe
    /\ UNCHANGED <<options, ttl, seq, got_there, unreachable, size, shown>>

(* Mutant: any answer to this program will do. *)
packet_ok_NoPort(r) == TRUE

(* The port of the quoted datagram tells which probe a reply belongs to. *)
packet_ok(r) == r.seq = seq

(* A reply to an earlier probe is read and ignored. *)
LateReply(r) ==
    /\ pc = "wait" /\ ~packet_ok(r)
    /\ icmp' = icmp \ {r}
    /\ UNCHANGED <<options, pc, line, size, shown>>

(* An answer to this probe: counted by its kind. *)
Answer(r) ==
    /\ pc = "wait" /\ packet_ok(r) /\ r.kind # "needfrag"
    /\ icmp' = icmp \ {r}
    /\ got_there' = got_there + IF r.kind = "port" THEN 1 ELSE 0
    /\ unreachable' = unreachable + IF r.kind = "host" THEN 1 ELSE 0
    /\ shown' = shown \cup {[line |-> ttl, from |-> r.from, kind |-> r.kind]}
    /\ NextProbe
    /\ UNCHANGED <<options, ttl, seq, size>>

(* Mutant: one entry too far behind the reported MTU. *)
frag_err_Skips(nextmtu) ==
    \/ /\ nextmtu > 0
       /\ datalen' = nextmtu
       /\ \/ \E i \in 1 .. 17 : mtus[i] = nextmtu /\ mtuptr' = i + 2
          \/ (\A i \in 1 .. 17 : mtus[i] # nextmtu) /\ mtuptr' = mtuptr
    \/ /\ nextmtu = 0
       /\ datalen' = mtus[mtuptr] /\ mtuptr' = mtuptr + 1

(* Mutant: the reported MTU is ignored. *)
frag_err_Table(nextmtu) ==
    datalen' = mtus[mtuptr] /\ mtuptr' = mtuptr + 1

(* The MTU that was reported, or the next one of the table; a reported MTU   *)
(* that is in the table moves the pointer behind it.                         *)
frag_err(nextmtu) ==
    \/ /\ nextmtu > 0
       /\ datalen' = nextmtu
       /\ \/ \E i \in 1 .. 17 : mtus[i] = nextmtu /\ mtuptr' = i + 1
          \/ (\A i \in 1 .. 17 : mtus[i] # nextmtu) /\ mtuptr' = mtuptr
    \/ /\ nextmtu = 0
       /\ datalen' = mtus[mtuptr] /\ mtuptr' = mtuptr + 1

(* Fragmentation needed: a smaller size, and the line from the start; the    *)
(* counters of the line are kept.                                            *)
NeedFrag(r) ==
    /\ pc = "wait" /\ packet_ok(r) /\ r.kind = "needfrag"
    /\ icmp' = icmp \ {r}
    /\ shown' = shown \cup {[line |-> ttl, from |-> r.from, kind |-> r.kind]}
    /\ frag_err(r.mtu)
    /\ pc' = "line"
    /\ UNCHANGED <<options, line>>

(* The line is complete: leave, or go on with the next ttl. *)
EndLine ==
    /\ pc = "endline"
    /\ IF got_there > 0 \/ unreachable >= nprobes - 1
       THEN pc' = "exit" /\ UNCHANGED <<ttl, got_there, unreachable>>
       ELSE /\ pc' = "line"
            /\ ttl' = ttl + 1
            /\ got_there' = 0 /\ unreachable' = 0
    /\ UNCHANGED <<options, probe, seq, size, icmp, shown>>

Next ==
    \/ ParseOptions \/ PacketSize \/ OpenSockets
    \/ SendTooBig \/ send_probe \/ SendFails
    \/ StartLine \/ OutOfHops \/ TimeOut \/ EndLine
    \/ \E r \in icmp : LateReply(r) \/ Answer(r) \/ NeedFrag(r)

(* The program runs on; a reply that is lost is made good by the timeout.    *)
Spec == Init /\ [][Next]_vars /\ WF_vars(Next)

-----------------------------------------------------------------------------
(* Properties *)

(* Every answer is shown on the line it belongs to: a gateway's "time        *)
(* exceeded" on the line of its distance, however late it comes and however  *)
(* often the line was started again; an unreachable from no further away.    *)
ShownAtDistance ==
    \A a \in shown : IF a.kind = "timxceed" THEN a.from = a.line
                                            ELSE a.from <= a.line

(* The search for a size never steps off mtus[]: its last entry but one is   *)
(* small enough for every link, so the terminating 0 is never taken.         *)
MtuInTable == mtuptr \in 1 .. Len(mtus)

(* traceroute.pmtu.c:54-56 and 160-162: the ttl is increased "until we get   *)
(* an icmp "port unreachable"" or "hit a max", and "if almost all the probes *)
(* result in some kind of unreachable, traceroute will give up": a trace     *)
(* that stops early has been told of something unreachable on its last line. *)
StopsWithReason ==
    pc = "exit" /\ seq > 0 /\ ttl <= max_ttl =>
        \E a \in shown : a.line = ttl /\ a.kind \in {"port", "host"}

(* When all gateways report the next link's MTU, the interface's MTU is in   *)
(* the table and the host was reached, a size that was ever reduced is the   *)
(* path MTU: the smallest of all links, neither more nor less.               *)
ExactPathMtu ==
    LET links == {path[k].mtu : k \in 1 .. Len(path)} IN
    /\ got_there > 0 /\ version = "pmtu" /\ mtuptr > 1
    /\ \A k \in 1 .. Len(path) : path[k].new
    /\ \E i \in 1 .. 17 : mtus[i] = path[1].mtu
    => datalen \in links /\ \A m \in links : datalen <= m

(* The trace ends: "again" is taken finitely often, although a reported MTU  *)
(* moves the pointer, or does not, and lines and probes are bounded.         *)
TraceEnds == <>(pc = "exit")
=============================================================================
