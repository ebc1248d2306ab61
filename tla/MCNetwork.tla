----------------------------- MODULE MCNetwork -----------------------------
(***************************************************************************)
(* The programs that talk over a network, one at a time: prog says which   *)
(* of them a behaviour runs, and the others stay in an initial state of    *)
(* theirs.                                                                 *)
(*   "trace"  traceroute over the paths of MCTraceroute;                   *)
(*   "fork"   the forking server, with one child that finds the signals    *)
(*            blocked and several that do not;                             *)
(*   "loop"   two copy loops, every choice of -h, a connection that can    *)
(*            hold a whole stdin;                                          *)
(*   "icmp"   icmptime with clocks around midnight and around a second,    *)
(*            icmpaddrmask with several replies;                           *)
(*   "open"   the way to a connected socket, for all sets of up to four    *)
(*            options;                                                     *)
(*   "udp"    the loop with -u, a datagram from each side and one from     *)
(*            elsewhere, empty, short or longer than what is read;         *)
(*   "source" source and sink with a connection that splits and joins      *)
(*            buffers;                                                     *)
(*   "route"  -g and -G up to more gateways than the list holds.           *)
(***************************************************************************)
EXTENDS MCTraceroute

CONSTANTS MaxChildren, ChildMayFail,     \* the forking server
          MaxUnits, Cap,                 \* the copy loops
          Clocks, Pids, MaxReplies,      \* the ICMP clients
          OptionSets, RecvDstAddr,       \* the way to a socket
          MaxData, MaxForeign, MaxInbox, \* the loop with -u
          Lengths, UdpReadlen,
          nbuf, writelen, readlen,       \* source and sink
          urgwrite, SourceCap,
          Gateways, Dest, Garbage, ULongs    \* the source route

ASSUME NetworkAssumption ==
    /\ MaxChildren \in Nat
    /\ ULongs \subseteq {4, 8}
ASSUME IcmpAssumption ==
    /\ \A t \in Clocks : t \in Nat /\ t < 86400000
    /\ Pids \subseteq Nat
ASSUME DataAssumption ==
    /\ Lengths \subseteq Nat /\ UdpReadlen \in Nat
    /\ nbuf \in Nat /\ writelen \in Nat /\ readlen \in Nat

VARIABLES
    prog,
    ppc, forked, sigflag, blocked, pending, cpc,
    halfclose, total, sent, rset, stdineof, lpc, chan, fin, out,
    client, ipc, request, tsorig, adjusted, undefined, mshown, response,
    opts, nargs, opc, fd, newfd, atBind, atSyn, allocated,
    connected, uhalf, utotal, usent, ueof, urset, upc, net, inbox, refused,
    foreign, uout,
    i, left, srcpc, stream, mark, received, sinkpc,
    ulong, rpc, lsrr, oix, optlist, asked, letters

F == INSTANCE ForkServer
L == INSTANCE SockLoop WITH pc <- lpc, HalfClose <- SUBSET {"client", "server"}
I == INSTANCE IcmpClients WITH shown <- mshown
O == INSTANCE SockOpen
U == INSTANCE UdpLoop WITH halfclose <- uhalf, total <- utotal, sent <- usent,
                           stdineof <- ueof, rset <- urset, pc <- upc, out <- uout,
                           readlen <- UdpReadlen
S == INSTANCE SourceSink WITH cpc <- srcpc, spc <- sinkpc, Cap <- SourceCap
R == INSTANCE SourceRoute

MCOptionSets ==
    {o \in SUBSET {"s", "u", "h", "i", "b", "f", "A", "B", "D", "E", "K", "L", "N", "R", "S"} :
        Cardinality(o) <= 4}

TIdle == Init /\ version = "lsrr" /\ path = CHOOSE p \in Paths : TRUE
LIdle == L!Init /\ halfclose = {} /\ total = [s \in L!Sides |-> 0]
IIdle == I!Init /\ client = "time"
OIdle == opts = {} /\ nargs = 0 /\ O!Init

UIdle == U!Init /\ connected = {"client"} /\ uhalf = {}
         /\ utotal = [s \in U!Sides |-> 0]
RIdle == ulong = 4 /\ R!Init

MCInit ==
    /\ prog \in {"trace", "fork", "loop", "icmp", "open", "udp", "source", "route"}
    /\ F!Init /\ S!Init
    /\ IF prog = "trace" THEN Init ELSE TIdle
    /\ IF prog = "loop" THEN L!Init ELSE LIdle
    /\ IF prog = "icmp" THEN I!Init ELSE IIdle
    /\ IF prog = "open" THEN O!Init ELSE OIdle
    /\ IF prog = "udp" THEN U!Init ELSE UIdle
    /\ IF prog = "route" THEN R!Init ELSE RIdle

forkVars == <<ppc, forked, sigflag, blocked, pending, cpc>>
loopVars == <<halfclose, total, sent, rset, stdineof, lpc, chan, fin, out>>
icmpVars == <<client, ipc, request, tsorig, adjusted, undefined, mshown, response>>
openVars == <<opts, nargs, opc, fd, newfd, atBind, atSyn, allocated>>
udpVars == <<connected, uhalf, utotal, usent, ueof, urset, upc, net, inbox, refused,
             foreign, uout>>
sourceVars == <<i, left, srcpc, stream, mark, received, sinkpc>>
routeVars == <<ulong, rpc, lsrr, oix, optlist, asked, letters>>

MCNext ==
    /\ UNCHANGED prog
    /\ IF prog = "trace" THEN Next ELSE UNCHANGED vars
    /\ IF prog = "fork" THEN F!Next ELSE UNCHANGED forkVars
    /\ IF prog = "loop" THEN L!Next ELSE UNCHANGED loopVars
    /\ IF prog = "icmp" THEN I!Next ELSE UNCHANGED icmpVars
    /\ IF prog = "open" THEN O!Next ELSE UNCHANGED openVars
    /\ IF prog = "udp" THEN U!Next ELSE UNCHANGED udpVars
    /\ IF prog = "source" THEN S!Next ELSE UNCHANGED sourceVars
    /\ IF prog = "route" THEN R!Next ELSE UNCHANGED routeVars

(* The fairness of the specifications, for the program that runs. *)
MCFairness ==
    /\ WF_vars(prog = "trace" /\ Next)
    /\ WF_forkVars(prog = "fork" /\ F!Parent)
    /\ \A c \in F!Children : WF_forkVars(prog = "fork" /\ F!TELL_PARENT(c))
    /\ \A s \in L!Sides : WF_loopVars(prog = "loop" /\ L!Side(s))

MCSpec ==
    /\ MCInit
    /\ [][MCNext]_<<prog, vars, forkVars, loopVars, icmpVars, openVars, udpVars,
                    sourceVars, routeVars>>
    /\ MCFairness

(* traceroute: see TraceEnds; when it is run, it ends. *)
TracingEnds == prog = "trace" => TraceEnds

(* The forking server: see ForkServer; one process at the terminal, no       *)
(* signal left at accept, the first child's signal is never lost.            *)
TerminalExclusive == F!TerminalExclusive
FirstChildReleases == F!FirstChildReleases

(* What sock copies: see SockLoop, UdpLoop and SourceSink.  Over TCP the     *)
(* units arrive in order and none is lost on a half close; over UDP a        *)
(* datagram is one line of output and ends no server; and source and sink    *)
(* agree on the number of bytes, however the connection splits them.         *)
DataIntact == L!CopiesInOrder /\ U!DatagramsIntact /\ S!BytesConserved

(* The copy loops: see SockLoop; a side that half closes, and its peer, end. *)
HalfCloseEnds == L!HalfCloseEnds

(* The ICMP clients: see IcmpClients; the request verifies, the clock is     *)
(* corrected to the time in the reply, the exit status tells the truth.      *)
IcmpVerdict == I!IcmpVerdict

(* The source route: see SourceRoute; it stays inside its list and names the *)
(* gateways in the order of the command line.                                *)
RouteRight == R!RouteRight

(* The way to a connected socket: see SockOpen; it has the options asked for.*)
SocketReady == O!SocketReady
=============================================================================
