----------------------------- MODULE ForkServer -----------------------------
(***************************************************************************)
(* tcpipi/sock: the accept loop of a forking TCP server (servopen.c, -F)   *)
(* and the signals by which a child tells its parent that it is done with  *)
(* the terminal (tellwait.c).                                              *)
(*                                                                         *)
(* Children are numbered in the order of fork().  The kernel's part is the *)
(* parent's signal mask, the pending SIGUSR2 and its disposition.          *)
(***************************************************************************)
EXTENDS Integers

CONSTANTS MaxChildren,     \* bound on the connections accepted
          ChildMayFail     \* may a child exit before TELL_PARENT?

Children == 1 .. MaxChildren

VARIABLES
    ppc,        \* where the parent is
    forked,     \* children forked so far
    sigflag,    \* the parent's sigflag
    blocked,    \* is SIGUSR2 in the parent's signal mask?
    pending,    \* is SIGUSR2 pending for the parent?
    cpc         \* where each child is

vars == <<ppc, forked, sigflag, blocked, pending, cpc>>

Init ==
    /\ ppc = "tell_wait"
    /\ forked = 0
    /\ sigflag = 0
    /\ blocked = FALSE
    /\ pending = FALSE
    /\ cpc = [c \in Children |-> "unborn"]

-----------------------------------------------------------------------------
(* The parent *)

(* Mutant: the signals are not blocked. *)
TELL_WAIT_Unblocked ==
    /\ ppc = "tell_wait"
    /\ ppc' = "accept"
    /\ UNCHANGED <<forked, sigflag, blocked, pending, cpc>>

(* Catch the signals, block them and remember the mask as it was. *)
TELL_WAIT ==
    /\ ppc = "tell_wait"
    /\ blocked' = TRUE
    /\ ppc' = "accept"
    /\ UNCHANGED <<forked, sigflag, pending, cpc>>

(* accept() returns a connection, fork() a child. *)
AcceptFork ==
    /\ ppc = "accept"
    /\ forked < MaxChildren
    /\ forked' = forked + 1
    /\ cpc' = [cpc EXCEPT ![forked'] = "terminal"]
    /\ ppc' = "test"
    /\ UNCHANGED <<sigflag, blocked, pending>>

(* WAIT_CHILD: the loop test. *)
TestFlag ==
    /\ ppc = "test"
    /\ ppc' = IF sigflag = 0 THEN "suspend" ELSE "restore"
    /\ UNCHANGED <<forked, sigflag, blocked, pending, cpc>>

(* WAIT_CHILD: the call of sigsuspend. *)
EnterSuspend ==
    /\ ppc = "suspend"
    /\ ppc' = "asleep"
    /\ UNCHANGED <<forked, sigflag, blocked, pending, cpc>>

(* WAIT_CHILD: sigsuspend with the empty mask returns once a signal has been *)
(* caught; then the mask is what it was.                                     *)
SuspendReturns ==
    /\ ppc = "asleep"
    /\ pending
    /\ pending' = FALSE
    /\ sigflag' = 1
    /\ ppc' = "test"
    /\ UNCHANGED <<forked, blocked, cpc>>

(* Mutant: sigflag is left set. *)
RestoreMask_KeepFlag ==
    /\ ppc = "restore"
    /\ blocked' = FALSE
    /\ ppc' = "accept"
    /\ UNCHANGED <<forked, sigflag, pending, cpc>>

(* WAIT_CHILD: clear the flag and restore the mask saved by TELL_WAIT, which *)
(* blocks nothing; the parent goes back to accept().                         *)
RestoreMask ==
    /\ ppc = "restore"
    /\ sigflag' = 0
    /\ blocked' = FALSE
    /\ ppc' = "accept"
    /\ UNCHANGED <<forked, pending, cpc>>

(* sig_usr runs between two statements of the parent when the signal is not  *)
(* blocked; inside accept() it makes the call fail, and err_sys ends the     *)
(* server.                                                                   *)
Deliver ==
    /\ pending /\ ~blocked
    /\ ppc \notin {"asleep", "dead"}
    /\ pending' = FALSE
    /\ sigflag' = 1
    /\ ppc' = IF ppc = "accept" THEN "dead" ELSE ppc
    /\ UNCHANGED <<forked, blocked, cpc>>

Parent == \/ TELL_WAIT \/ AcceptFork \/ TestFlag \/ EnterSuspend
          \/ SuspendReturns \/ RestoreMask \/ Deliver

-----------------------------------------------------------------------------
(* A child *)

(* Output to the terminal, buffers and options, then TELL_PARENT. *)
TELL_PARENT(c) ==
    /\ cpc[c] = "terminal"
    /\ cpc' = [cpc EXCEPT ![c] = "told"]
    /\ pending' = TRUE
    /\ UNCHANGED <<ppc, forked, sigflag, blocked>>

(* getsockname, buffers or sockopts failed: err_sys or err_quit. *)
ChildFails(c) ==
    /\ cpc[c] = "terminal"
    /\ ChildMayFail
    /\ cpc' = [cpc EXCEPT ![c] = "failed"]
    /\ UNCHANGED <<ppc, forked, sigflag, blocked, pending>>

Next == Parent \/ \E c \in Children : TELL_PARENT(c) \/ ChildFails(c)

(* The scheduler runs the parent and every child; connections keep coming.   *)
Spec == /\ Init /\ [][Next]_vars
        /\ WF_vars(Parent)
        /\ \A c \in Children : WF_vars(TELL_PARENT(c))

-----------------------------------------------------------------------------
(* Properties *)

(* The parent never takes the next connection while a child is at the        *)
(* terminal: a signal lets it past WAIT_CHILD once, for the child that sent  *)
(* it, whenever it arrives; and no signal is left over when the parent calls *)
(* accept, where catching it would end the server.                           *)
TerminalExclusive ==
    /\ ppc \in {"accept", "dead"} =>
          \A c \in Children : cpc[c] \in {"unborn", "told"}
    /\ \A c, d \in Children : cpc[c] = "terminal" /\ cpc[d] = "terminal" => c = d
    /\ ppc = "accept" => ~pending /\ sigflag = 0

(* The first child always releases the parent: the signals are blocked from  *)
(* before the fork to the sigsuspend.                                        *)
FirstChildReleases == cpc[1] = "told" ~> ppc = "accept" \/ forked > 1

(* servopen.c:106-107, "wait for child to output to terminal" and "and back  *)
(* to for(;;) for another accept()": every child that has told its parent    *)
(* lets it back to accept().                                                 *)
BackToAccept ==
    \A c \in Children : cpc[c] = "told" ~> ppc = "accept" \/ forked > c
=============================================================================
