---------------------------- MODULE SourceRoute ----------------------------
(***************************************************************************)
(* tcpipi/traceroute/traceroute.lsrr.c, options -g and -G: the source      *)
(* route built byte by byte in optlist while the options are read, and     *)
(* handed to the kernel with IP_OPTIONS.                                   *)
(*                                                                         *)
(* An address is four bytes <<a, 1>> .. <<a, 4>>.  The program copies      *)
(* sizeof(u_long) bytes for each: 4 where it was written, 8 where a long   *)
(* is 8 bytes wide; the further bytes are zero (inet_addr, sin_zero) or    *)
(* whatever follows h_addr.                                                *)
(***************************************************************************)
EXTENDS Integers, Sequences

CONSTANTS Gateways,   \* addresses a gateway can have
          Dest,       \* address of the host that is traced
          Garbage,    \* a byte nobody wrote
          ULongs      \* values tried for sizeof(u_long)

MAX_IPOPTLEN == 40
IPOPT_MINOFF == 4
IPOPT_OLEN == 1
IPOPT_LSRR == 131
IPOPT_SSRR == 137

VARIABLES
    ulong,     \* sizeof(u_long), fixed
    rpc,       \* "options", "sockets", "set" or "exit"
    lsrr,      \* number of addresses in the list
    oix,       \* where the next one goes, an index of optlist
    optlist,
    asked,     \* the gateways of the command line so far
    letters    \* their option letters

vars == <<ulong, rpc, lsrr, oix, optlist, asked, letters>>

Init ==
    /\ ulong \in ULongs
    /\ rpc = "options"
    /\ lsrr = 0 /\ oix = 0
    /\ optlist = [k \in 0 .. MAX_IPOPTLEN - 1 |-> 0]
    /\ asked = <<>> /\ letters = <<>>

(* bcopy of an address, followed by f where a long is wider than it; what is *)
(* written behind optlist is not in optlist.                                 *)
Stored(list, at, a, f) ==
    [k \in DOMAIN list |->
        CASE k \in at .. at + 3 -> <<a, k - at + 1>>
          [] k \in at + 4 .. at + ulong - 1 -> f
          [] OTHER -> list[k]]

(* Mutant: one gateway more is let in. *)
Full_TooMany == lsrr + 1 > (MAX_IPOPTLEN - IPOPT_MINOFF) \div ulong

Full == lsrr + 1 >= (MAX_IPOPTLEN - IPOPT_MINOFF) \div ulong

(* The type and the pointer, in front of the first address. *)
Header(letter) ==
    [optlist EXCEPT ![0] = IF letter = "G" THEN IPOPT_SSRR ELSE IPOPT_LSRR,
                    ![2] = IPOPT_MINOFF]

(* -g or -G with an address or a name that is found. *)
Gateway(letter, a) ==
    /\ rpc = "options" /\ ~Full
    /\ LET first == lsrr = 0
           at == IF first THEN 3 ELSE oix
       IN \E f \in {0, Garbage} :
             /\ optlist' = Stored(IF first THEN Header(letter) ELSE optlist, at, a, f)
             /\ oix' = at + ulong
    /\ lsrr' = lsrr + 1
    /\ asked' = Append(asked, a)
    /\ letters' = IF letters = <<>> THEN <<letter>> ELSE letters
    /\ UNCHANGED <<ulong, rpc>>

(* Too many of them, a name that is not found, or another option refused. *)
Refused ==
    /\ rpc = "options"
    /\ rpc' = "exit"
    /\ UNCHANGED <<ulong, lsrr, oix, optlist, asked, letters>>

(* The options are read, the host is known and the sockets are open. *)
Opened ==
    /\ rpc = "options"
    /\ rpc' = "sockets"
    /\ UNCHANGED <<ulong, lsrr, oix, optlist, asked, letters>>

(* The length, the host as the last address, and the end rounded up to a     *)
(* multiple of four; setsockopt() may fail.                                  *)
SetRoute ==
    /\ rpc = "sockets" /\ lsrr > 0
    /\ lsrr' = lsrr + 1
    /\ optlist' = Stored([optlist EXCEPT ![IPOPT_OLEN] = IPOPT_MINOFF - 1 + lsrr' * ulong],
                         oix, Dest, 0)
    /\ oix' = ((oix + ulong + 3) \div 4) * 4
    /\ rpc' \in {"set", "exit"}
    /\ UNCHANGED <<ulong, asked, letters>>

NoRoute ==
    /\ rpc = "sockets" /\ lsrr = 0
    /\ rpc' = "set"
    /\ UNCHANGED <<ulong, lsrr, oix, optlist, asked, letters>>

Next ==
    \/ \E letter \in {"g", "G"}, a \in Gateways : Gateway(letter, a)
    \/ Refused \/ Opened \/ SetRoute \/ NoRoute

Spec == Init /\ [][Next]_vars

-----------------------------------------------------------------------------
(* Properties *)

(* The address at place n of the list, as a gateway reads it. *)
Hop(n) == [b \in 1 .. 4 |-> optlist[3 + 4 * (n - 1) + b - 1]]
Address(a) == [b \in 1 .. 4 |-> <<a, b>>]

(* Nothing is written or handed to the kernel beyond optlist, however many   *)
(* gateways are asked for and whatever a long is; and where it is four bytes *)
(* the option is what RFC 791 asks for: its length covers the gateways in    *)
(* the order of the command line and then the host, zeros pad it, and the    *)
(* first letter says whether it is strict.                                   *)
RouteRight ==
    /\ oix <= MAX_IPOPTLEN
    /\ rpc = "set" /\ asked # <<>> /\ ulong = 4 =>
          LET route == Append(asked, Dest)
              olen == optlist[IPOPT_OLEN]
          IN /\ olen = 3 + 4 * Len(route)
             /\ \A n \in 1 .. Len(route) : Hop(n) = Address(route[n])
             /\ \A k \in olen .. oix - 1 : optlist[k] = 0
             /\ oix % 4 = 0 /\ olen <= oix
             /\ (optlist[0] = IPOPT_SSRR) = (letters[1] = "G")
=============================================================================
