------------------------------ MODULE SockOpen ------------------------------
(***************************************************************************)
(* tcpipi/sock: from the command line to the socket that is handed to the  *)
(* copy loop or to the source/sink loop (main.c, cliopen.c, servopen.c,    *)
(* buffers.c, sockopts.c).  An option is its letter, a socket the options  *)
(* that are set on it.  With -F the process is the child that goes on with *)
(* the accepted connection; its parent is in ForkServer.                   *)
(*                                                                         *)
(* The kernel is external: any call may fail, and a connected socket keeps *)
(* some of the options of the listening one.                               *)
(***************************************************************************)
EXTENDS Integers, FiniteSets

CONSTANTS
    OptionSets,    \* sets of options a command line may have
    RecvDstAddr    \* was IP_RECVDSTADDR defined when sockopts.c was compiled?

VARIABLES
    opts, nargs,   \* the options given and the number of arguments after them
    opc,           \* "check", "usage", "address", ..., "loop", "sink", "failed", "crash"
    fd,            \* the socket made, and
    newfd,         \* the one accept returned
    atBind,        \* the options fd had when it was bound: a set of zero or one sets
    atSyn,         \* the options fd had when a handshake became possible
    allocated      \* rbuf and wbuf

vars == <<opts, nargs, opc, fd, newfd, atBind, atSyn, allocated>>

Udp == "u" \in opts
Server == "s" \in opts

Init ==
    /\ opts \in OptionSets /\ nargs \in 0 .. 3
    /\ opc = "check"
    /\ fd = {} /\ newfd = {} /\ atBind = {} /\ atSyn = {}
    /\ allocated = FALSE

-----------------------------------------------------------------------------
(* Options that don't make sense. *)
Conflict == \/ Udp /\ opts \cap {"h", "D", "L", "N"} # {}
            \/ ~Udp /\ opts \cap {"B", "f"} # {}

CheckOptions ==
    /\ opc = "check"
    /\ opc' = IF Conflict \/ nargs \notin (IF Server THEN {1, 2} ELSE {2})
              THEN "usage" ELSE "address"
    /\ UNCHANGED <<opts, nargs, fd, newfd, atBind, atSyn, allocated>>

(* Host and service.  An unknown service ends the client; the server prints  *)
(* the error and goes on to read through a null pointer.                     *)
Address ==
    /\ opc = "address"
    /\ opc' \in {"socket", "failed"} \cup IF Server THEN {"crash"} ELSE {}
    /\ UNCHANGED <<opts, nargs, fd, newfd, atBind, atSyn, allocated>>

Socket ==
    /\ opc = "socket"
    /\ \/ opc' = "bind" /\ fd' = opts \cap {"A"}
       \/ opc' = "failed" /\ UNCHANGED fd
    /\ UNCHANGED <<opts, nargs, newfd, atBind, atSyn, allocated>>

(* A TCP client binds only if it was given a port. *)
Bind ==
    /\ opc = "bind"
    /\ IF Server \/ Udp \/ "b" \in opts
       THEN \/ opc' = "prepare" /\ atBind' = {fd}
            \/ opc' = "failed" /\ UNCHANGED atBind
       ELSE opc' = "prepare" /\ UNCHANGED atBind
    /\ UNCHANGED <<opts, nargs, fd, newfd, atSyn, allocated>>

-----------------------------------------------------------------------------
buffers == opts \cap {"R", "S"}

sockopts(doall) ==
    {o \in opts : \/ o = "D"
                  \/ o = "B" /\ doall
                  \/ o \in {"K", "N", "L"} /\ doall /\ ~Udp
                  \/ o = "E" /\ Udp /\ RecvDstAddr}

(* buffers and sockopts(fd, 0); a UDP server leaves the latter out.  What    *)
(* was set is read back, and the program ends if it is not what was asked.   *)
Prepare ==
    /\ opc = "prepare"
    /\ \/ /\ fd' = fd \cup buffers \cup IF Server /\ Udp THEN {} ELSE sockopts(FALSE)
          /\ allocated' = TRUE
          /\ opc' = CASE ~Server -> "connect"
                      [] Server /\ Udp -> IF "f" \in opts THEN "connect" ELSE "finish"
                      [] OTHER -> "listen"
       \/ opc' = "failed" /\ UNCHANGED <<fd, allocated>>
    /\ UNCHANGED <<opts, nargs, newfd, atBind, atSyn>>

Connect ==
    /\ opc = "connect"
    /\ opc' \in {"finish", "failed"}
    /\ atSyn' = fd
    /\ UNCHANGED <<opts, nargs, fd, newfd, atBind, allocated>>

(* The result of listen is not looked at: accept fails if it did. *)
Listen ==
    /\ opc = "listen"
    /\ opc' = "accept"
    /\ atSyn' = fd
    /\ UNCHANGED <<opts, nargs, fd, newfd, atBind, allocated>>

Accept ==
    /\ opc = "accept"
    /\ \/ opc' = "finish" /\ newfd' \in SUBSET fd
       \/ opc' = "failed" /\ UNCHANGED newfd
    /\ UNCHANGED <<opts, nargs, fd, atBind, atSyn, allocated>>

Ready == IF "i" \in opts THEN "sink" ELSE "loop"

(* Mutant: the buffer sizes are trusted to propagate. *)
Finish_NoBuffers ==
    /\ opc = "finish"
    /\ \/ /\ opc' = Ready
          /\ IF Server /\ ~Udp
             THEN newfd' = newfd \cup sockopts(TRUE) /\ UNCHANGED fd
             ELSE fd' = fd \cup sockopts(TRUE) /\ UNCHANGED newfd
       \/ opc' = "failed" /\ UNCHANGED <<fd, newfd>>
    /\ UNCHANGED <<opts, nargs, atBind, atSyn, allocated>>

(* sockopts with doall on the socket that is returned, and the buffer sizes  *)
(* again on an accepted one.                                                 *)
Finish ==
    /\ opc = "finish"
    /\ \/ /\ opc' = Ready
          /\ IF Server /\ ~Udp
             THEN newfd' = newfd \cup buffers \cup sockopts(TRUE) /\ UNCHANGED fd
             ELSE fd' = fd \cup sockopts(TRUE) /\ UNCHANGED newfd
       \/ opc' = "failed" /\ UNCHANGED <<fd, newfd>>
    /\ UNCHANGED <<opts, nargs, atBind, atSyn, allocated>>

Next ==
    \/ CheckOptions \/ Address \/ Socket \/ Bind \/ Prepare
    \/ Connect \/ Listen \/ Accept \/ Finish

Spec == Init /\ [][Next]_vars

-----------------------------------------------------------------------------
(* Properties *)

(* What the usage message names as a socket option, by protocol. *)
Applicable == IF Udp THEN {"B", "R", "S"} \cup IF RecvDstAddr THEN {"E"} ELSE {}
              ELSE {"D", "K", "L", "N", "R", "S"}

(* The socket that data is copied over has all the options the command line  *)
(* asked for that its protocol knows and no others, on whichever of the      *)
(* three ways it was made and whatever accept let it inherit.  TCP's buffer  *)
(* sizes were there before the first SYN, and address reuse before bind.     *)
SocketReady ==
    opc \in {"loop", "sink"} =>
        /\ (IF Server /\ ~Udp THEN newfd ELSE fd) \ {"A"} = opts \cap Applicable
        /\ ~Udp => buffers \subseteq atSyn
        /\ \A set \in atBind : "A" \in opts => "A" \in set
        /\ allocated
=============================================================================
