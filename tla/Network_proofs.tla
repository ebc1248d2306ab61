--------------------------- MODULE Network_proofs ---------------------------
(***************************************************************************)
(* Proofs about the network programs that MCNetwork runs, each for its own *)
(* specification and all values of its constants: the forking server with  *)
(* any number of connections (F), the way to a connected socket for every  *)
(* set of options (O), the source route for any number of gateways, asked  *)
(* for in any order (R), and what sock copies: its loop over TCP for any   *)
(* length of stdin and any capacity (L), its loop with -u for datagrams of *)
(* any length (U), and source and sink for any number and size of buffers  *)
(* (S); and the ICMP clients for any process id and any times of day (I).  *)
(***************************************************************************)
EXTENDS MCNetwork, Lemmas, TLAPS

USE NetworkAssumption

-----------------------------------------------------------------------------
(* The forking server *)

(* All children but the last one forked have told their parent, those to     *)
(* come are unborn, and what the last one sent is in exactly one place: it   *)
(* is pending or in sigflag until RestoreMask forgets it.  That is why the   *)
(* parent is at accept only with nothing under way, and never dies there.    *)
ForkInv ==
    /\ forked \in 0 .. MaxChildren
    /\ cpc \in [F!Children -> {"unborn", "terminal", "told", "failed"}]
    /\ sigflag \in {0, 1}
    /\ ppc \in {"tell_wait", "accept", "test", "suspend", "asleep", "restore"}
    /\ \A c \in F!Children : /\ c > forked => cpc[c] = "unborn"
                             /\ c < forked => cpc[c] = "told"
    /\ ppc = "tell_wait" => forked = 0
    /\ ppc \in {"tell_wait", "accept"} =>
          /\ forked > 0 => cpc[forked] = "told"
          /\ ~pending /\ sigflag = 0
    /\ ppc \notin {"tell_wait", "accept"} =>
          /\ forked > 0
          /\ cpc[forked] \in {"terminal", "failed"} => ~pending /\ sigflag = 0
          /\ cpc[forked] = "told" => (pending <=> sigflag = 0)
          /\ cpc[forked] # "unborn"
    /\ ppc = "restore" => sigflag = 1

(* The parent's steps keep ForkInv. *)
LEMMA ParentKeeps ==
    ASSUME ForkInv, F!Parent PROVE ForkInv'
<1> USE DEF ForkInv, F!Children
<1>1. CASE F!TELL_WAIT
    BY <1>1 DEF F!TELL_WAIT
<1>2. CASE F!AcceptFork
  <2>1. forked' = forked + 1 /\ forked' \in F!Children
    BY <1>2 DEF F!AcceptFork
  <2> QED BY <1>2, <2>1 DEF F!AcceptFork
<1>3. CASE F!TestFlag
    BY <1>3 DEF F!TestFlag
<1>4. CASE F!EnterSuspend
    BY <1>4 DEF F!EnterSuspend
<1>5. CASE F!SuspendReturns
  <2>1. pending /\ ~pending'
    BY <1>5, Zenon DEF F!SuspendReturns
  <2>2. ppc = "asleep" /\ sigflag' = 1 /\ ppc' = "test" /\ UNCHANGED <<forked, cpc>>
    BY <1>5 DEF F!SuspendReturns
  <2> QED BY <2>1, <2>2
<1>6. CASE F!RestoreMask
    BY <1>6 DEF F!RestoreMask
<1>7. CASE F!Deliver
  <2>1. pending /\ ~pending'
    BY <1>7, Zenon DEF F!Deliver
  <2>2. ppc \notin {"tell_wait", "accept"}
    BY <2>1
  <2>3. sigflag' = 1 /\ ppc' = ppc /\ UNCHANGED <<forked, cpc>>
    BY <1>7, <2>2 DEF F!Deliver
  <2> QED BY <2>1, <2>2, <2>3
<1> QED BY <1>1, <1>2, <1>3, <1>4, <1>5, <1>6, <1>7 DEF F!Parent

(* Only the last child forked is at the terminal, so only it can tell. *)
LEMMA ChildKeeps ==
    ASSUME ForkInv, NEW c \in F!Children, F!TELL_PARENT(c) \/ F!ChildFails(c)
    PROVE  ForkInv'
<1> USE DEF ForkInv, F!Children
<1>1. cpc[c] = "terminal" /\ c = forked /\ ppc \notin {"tell_wait", "accept"}
    BY DEF F!TELL_PARENT, F!ChildFails
<1>2. CASE F!TELL_PARENT(c)
    BY <1>1, <1>2 DEF F!TELL_PARENT
<1>3. CASE F!ChildFails(c)
    BY <1>1, <1>3 DEF F!ChildFails
<1> QED BY <1>2, <1>3

(* The forking server never takes a connection while a child is at the       *)
(* terminal, and never calls accept with a signal left over, however many    *)
(* children it forks and wherever their signals arrive.                      *)
THEOREM TerminalKept == F!Spec => []TerminalExclusive
<1>1. F!Init => ForkInv
  <2> SUFFICES ASSUME F!Init PROVE ForkInv
    OBVIOUS
  <2>1. ~pending
    BY Zenon DEF F!Init
  <2> QED BY <2>1 DEF F!Init, ForkInv, F!Children
<1>2. ForkInv /\ [F!Next]_(F!vars) => ForkInv'
  <2> SUFFICES ASSUME ForkInv, [F!Next]_(F!vars) PROVE ForkInv'
    OBVIOUS
  <2>1. CASE UNCHANGED F!vars
    BY <2>1 DEF F!vars, ForkInv
  <2> QED BY <2>1, ParentKeeps, ChildKeeps DEF F!Next
<1>3. ForkInv => TerminalExclusive
    BY DEF TerminalExclusive, F!TerminalExclusive, ForkInv, F!Children
<1> QED BY <1>1, <1>2, <1>3, PTL DEF F!Spec

-----------------------------------------------------------------------------
(* The way to a connected socket *)

(* The options of the socket before and after buffers and sockopts(fd, 0). *)
Made == opts \cap {"A"}
Prepared == Made \cup O!buffers
                 \cup IF O!Server /\ O!Udp THEN {} ELSE O!sockopts(FALSE)

(* What is known on the way, by the point that has been reached. *)
OpenInv ==
    /\ opc \in {"bind", "prepare", "connect", "listen", "accept", "finish"}
          => ~O!Conflict
    /\ opc \in {"address", "socket"} => ~O!Conflict
    /\ \A set \in atBind : set = Made
    /\ opc \in {"bind", "prepare"} => fd = Made
    /\ opc \in {"connect", "listen", "accept", "finish"} =>
          fd = Prepared /\ allocated
    /\ opc \in {"listen", "accept"} => O!Server /\ ~O!Udp
    /\ opc = "connect" => ~(O!Server /\ ~O!Udp)
    /\ opc \in {"accept", "finish"} /\ ~O!Udp => atSyn = fd
    /\ opc \notin {"finish", "loop", "sink", "failed"} => newfd = {}
    /\ opc = "finish" => newfd \subseteq fd
    /\ O!SocketReady

(* The socket handed to the copy loop has all the options the command line   *)
(* asked for and no others, for every set of options, on whichever way it    *)
(* was made and whatever it inherited.                                       *)
THEOREM SocketMadeReady == O!Spec => []SocketReady
<1>1. O!Init => OpenInv
    BY DEF O!Init, OpenInv, O!SocketReady
<1>2. OpenInv /\ [O!Next]_(O!vars) => OpenInv'
  <2> SUFFICES ASSUME OpenInv, [O!Next]_(O!vars) PROVE OpenInv'
    OBVIOUS
  <2> USE DEF OpenInv, O!SocketReady, O!Conflict, O!Udp, O!Server, Made
  <2>1. CASE UNCHANGED O!vars
    BY <2>1 DEF O!vars, Prepared, O!buffers, O!sockopts, O!Applicable
  <2>2. CASE O!CheckOptions
    BY <2>2 DEF O!CheckOptions
  <2>3. CASE O!Address
    BY <2>3 DEF O!Address
  <2>4. CASE O!Socket
    BY <2>4 DEF O!Socket
  <2>5. CASE O!Bind
    BY <2>5 DEF O!Bind
  <2>6. CASE O!Prepare
    BY <2>6 DEF O!Prepare, Prepared, O!buffers, O!sockopts
  <2>7. CASE O!Connect
    BY <2>7 DEF O!Connect, Prepared, O!buffers, O!sockopts
  <2>8. CASE O!Listen
    BY <2>8 DEF O!Listen, Prepared, O!buffers, O!sockopts
  <2>9. CASE O!Accept
    BY <2>9 DEF O!Accept, Prepared, O!buffers, O!sockopts
  <2>10. CASE O!Finish
    BY <2>10 DEF O!Finish, O!Ready, Prepared, O!buffers, O!sockopts, O!Applicable
  <2> QED BY <2>1, <2>2, <2>3, <2>4, <2>5, <2>6, <2>7, <2>8, <2>9, <2>10
          DEF O!Next
<1>3. OpenInv => SocketReady
    BY DEF OpenInv, SocketReady
<1> QED BY <1>1, <1>2, <1>3, PTL DEF O!Spec

-----------------------------------------------------------------------------
(* The source route *)

Places == 0 .. R!MAX_IPOPTLEN - 1

(* The list while it is built: how far it reaches, that it ends early enough *)
(* for the host to be added, and, where a long is four bytes, what it holds. *)
ListInv ==
    /\ lsrr = Len(asked) /\ lsrr < (IF ulong = 4 THEN 9 ELSE 4)
    /\ oix = IF lsrr = 0 THEN 0 ELSE 3 + (IF ulong = 4 THEN 4 * lsrr ELSE 8 * lsrr)
    /\ lsrr = 0 => letters = <<>> /\ \A k \in Places : optlist[k] = 0
    /\ lsrr > 0 /\ ulong = 4 =>
          /\ \A n \in 1 .. lsrr, b \in 1 .. 4 :
                optlist[3 + 4 * (n - 1) + b - 1] = <<asked[n], b>>
          /\ \A k \in oix .. R!MAX_IPOPTLEN - 1 : optlist[k] = 0
          /\ letters # <<>>
          /\ (optlist[0] = R!IPOPT_SSRR) = (letters[1] = "G")

RouteInv ==
    /\ ulong \in {4, 8}
    /\ rpc \in {"options", "sockets", "set", "exit"}
    /\ asked \in Seq(Gateways)
    /\ letters \in Seq({"g", "G"})
    /\ optlist = [k \in Places |-> optlist[k]]
    /\ rpc \in {"options", "sockets"} => ListInv
    /\ R!RouteRight

(* What bcopy of an address does, where a long is four bytes. *)
LEMMA StoredAt ==
    ASSUME ulong = 4, NEW list, list = [k \in Places |-> list[k]],
           NEW at \in Int, NEW a, NEW f, NEW k \in Places
    PROVE  R!Stored(list, at, a, f)[k] =
              IF at <= k /\ k <= at + 3 THEN <<a, k - at + 1>> ELSE list[k]
<1>1. DOMAIN list = Places
    OBVIOUS
<1>2. k \notin at + 4 .. at + ulong - 1 /\ k \in Int
    BY DEF Places
<1>3. CASE k \in at .. at + 3
    BY <1>1, <1>3 DEF R!Stored
<1>4. CASE k \notin at .. at + 3
    BY <1>1, <1>2, <1>4 DEF R!Stored
<1> QED BY <1>2, <1>3, <1>4

(* A stored list is a list. *)
LEMMA StoredIsList ==
    ASSUME NEW list, list = [k \in Places |-> list[k]], NEW at, NEW a, NEW f
    PROVE  R!Stored(list, at, a, f) =
              [k \in Places |-> R!Stored(list, at, a, f)[k]]
BY DEF R!Stored

(* -g and -G add an address behind the others. *)
LEMMA GatewayKeeps ==
    ASSUME RouteInv, NEW letter \in {"g", "G"}, NEW a \in Gateways,
           R!Gateway(letter, a)
    PROVE  RouteInv'
<1> USE DEF R!MAX_IPOPTLEN, R!IPOPT_MINOFF, R!IPOPT_SSRR, R!IPOPT_LSRR
<1> DEFINE at == IF lsrr = 0 THEN 3 ELSE oix
           list == IF lsrr = 0 THEN R!Header(letter) ELSE optlist
<1>1. /\ rpc = "options" /\ ListInv /\ ~R!Full
      /\ lsrr' = lsrr + 1 /\ asked' = Append(asked, a)
      /\ letters' = IF letters = <<>> THEN <<letter>> ELSE letters
      /\ UNCHANGED <<ulong, rpc>>
      /\ oix' = at + ulong
    BY DEF RouteInv, R!Gateway
<1>2. PICK f : optlist' = R!Stored(list, at, a, f)
    BY DEF R!Gateway
<1>3. /\ ulong \in {4, 8} /\ asked \in Seq(Gateways) /\ letters \in Seq({"g", "G"})
      /\ lsrr \in Nat
    BY <1>1 DEF RouteInv, ListInv
<1>4. at = 3 + (IF ulong = 4 THEN 4 * lsrr ELSE 8 * lsrr) /\ at \in Int
    BY <1>1, <1>3 DEF ListInv
<1>5. list = [k \in Places |-> list[k]]
  <2>1. optlist = [k \in Places |-> optlist[k]]
    BY DEF RouteInv
  <2>2. R!Header(letter) = [k \in Places |-> R!Header(letter)[k]]
    BY <2>1 DEF R!Header
  <2> QED BY <2>1, <2>2
<1>6. /\ lsrr = 0 => \A k \in Places :
            list[k] = CASE k = 0 -> (IF letter = "G" THEN 137 ELSE 131)
                        [] k = 2 -> 4
                        [] OTHER -> 0
      /\ lsrr # 0 => list = optlist
  <2>1. optlist = [k \in Places |-> optlist[k]]
    BY DEF RouteInv
  <2>2. ASSUME lsrr = 0, NEW k \in Places
        PROVE  list[k] = CASE k = 0 -> (IF letter = "G" THEN 137 ELSE 131)
                           [] k = 2 -> 4
                           [] OTHER -> 0
    <3>1. optlist[k] = 0
      BY <1>1, <2>2 DEF ListInv
    <3>2. list = R!Header(letter) /\ k \in DOMAIN optlist
      BY <2>1, <2>2
    <3> QED BY <3>1, <3>2 DEF R!Header
  <2> QED BY <2>2
<1> HIDE DEF at, list
<1>7. optlist' = [k \in Places |-> optlist'[k]]
    BY <1>2, <1>5, StoredIsList
<1>8. /\ asked' \in Seq(Gateways) /\ Len(asked') = lsrr'
      /\ \A n \in 1 .. lsrr : asked'[n] = asked[n]
      /\ asked'[lsrr + 1] = a
    BY <1>1, <1>3 DEF ListInv
<1>9. /\ lsrr' < (IF ulong = 4 THEN 9 ELSE 4)
      /\ oix' = 3 + (IF ulong = 4 THEN 4 * lsrr' ELSE 8 * lsrr')
    BY <1>1, <1>3, <1>4 DEF ListInv, R!Full
<1>10. letters' \in Seq({"g", "G"}) /\ letters' # <<>>
  <2>1. CASE letters = <<>>
    <3>1. letters' = <<letter>> /\ Len(<<letter>>) = 1
      BY <1>1, <2>1
    <3> QED BY <3>1
  <2>2. CASE letters # <<>>
    BY <1>1, <1>3, <2>2
  <2> QED BY <2>1, <2>2
<1>11. ASSUME ulong = 4
       PROVE  /\ \A n \in 1 .. lsrr', b \in 1 .. 4 :
                    optlist'[3 + 4 * (n - 1) + b - 1] = <<asked'[n], b>>
              /\ \A k \in oix' .. R!MAX_IPOPTLEN - 1 : optlist'[k] = 0
              /\ (optlist'[0] = R!IPOPT_SSRR) = (letters'[1] = "G")
  <2>1. at = 3 + 4 * lsrr /\ lsrr < 8 /\ at \in Int
    BY <1>1, <1>3, <1>4, <1>9, <1>11
  <2>2. ASSUME NEW k \in Places
        PROVE  optlist'[k] =
                  IF at <= k /\ k <= at + 3 THEN <<a, k - at + 1>> ELSE list[k]
    BY <1>2, <1>5, <1>11, <2>1, StoredAt
  <2>3. ASSUME NEW n \in 1 .. lsrr, NEW b \in 1 .. 4
        PROVE  optlist'[3 + 4 * (n - 1) + b - 1] = <<asked'[n], b>>
    <3>1. PICK k : k = 3 + 4 * (n - 1) + b - 1
      OBVIOUS
    <3>2. k \in Places /\ ~(at <= k)
      BY <1>3, <2>1, <3>1 DEF Places
    <3>3. optlist[k] = <<asked[n], b>> /\ list = optlist
      <4>1. lsrr # 0 /\ lsrr > 0
        BY <1>3
      <4>2. optlist[3 + 4 * (n - 1) + b - 1] = <<asked[n], b>>
        BY <1>1, <1>11, <4>1, Zenon DEF ListInv
      <4> QED BY <1>6, <3>1, <4>1, <4>2
    <3>4. optlist'[k] = list[k]
      BY <2>2, <3>2
    <3> QED BY <1>8, <3>1, <3>3, <3>4
  <2>4. ASSUME NEW b \in 1 .. 4
        PROVE  optlist'[3 + 4 * lsrr + b - 1] = <<asked'[lsrr + 1], b>>
    <3>1. PICK k : k = 3 + 4 * lsrr + b - 1
      OBVIOUS
    <3>2. k \in Places /\ at <= k /\ k <= at + 3 /\ k - at + 1 = b
      BY <1>3, <2>1, <3>1 DEF Places
    <3>3. optlist'[k] = <<a, k - at + 1>>
      BY <2>2, <3>2
    <3> QED BY <1>8, <3>1, <3>2, <3>3
  <2>5. \A n \in 1 .. lsrr', b \in 1 .. 4 :
           optlist'[3 + 4 * (n - 1) + b - 1] = <<asked'[n], b>>
    <3> SUFFICES ASSUME NEW n \in 1 .. lsrr', NEW b \in 1 .. 4
                 PROVE  optlist'[3 + 4 * (n - 1) + b - 1] = <<asked'[n], b>>
      OBVIOUS
    <3>1. CASE n \in 1 .. lsrr
      BY <2>3, <3>1
    <3>2. CASE n = lsrr + 1
      <4>1. 3 + 4 * (n - 1) + b - 1 = 3 + 4 * lsrr + b - 1
        BY <1>3, <3>2
      <4> QED BY <2>4, <3>2, <4>1
    <3>3. n \in 1 .. lsrr \/ n = lsrr + 1
      BY <1>1, <1>3
    <3> QED BY <3>1, <3>2, <3>3
  <2>6. ASSUME NEW k \in oix' .. 39 PROVE optlist'[k] = 0
    <3>1. k \in Places /\ k > at + 3 /\ k >= 3
      BY <1>1, <1>3, <1>11, <2>1 DEF Places
    <3>2. optlist'[k] = list[k]
      BY <2>1, <2>2, <3>1 DEF Places
    <3>3. CASE lsrr = 0
      BY <1>6, <3>1, <3>2, <3>3
    <3>4. CASE lsrr # 0
      <4>1. k \in oix .. 39
        BY <1>1, <1>3, <1>11, <2>1, <3>1, <3>4 DEF ListInv, Places
      <4> QED BY <1>1, <1>3, <1>6, <1>11, <3>2, <3>4, <4>1 DEF ListInv
    <3> QED BY <3>3, <3>4
  <2>7. (optlist'[0] = 137) = (letters'[1] = "G")
    <3>1. 0 \in Places /\ optlist'[0] = list[0]
      BY <1>3, <2>1, <2>2 DEF Places
    <3>2. CASE lsrr = 0
      <4>1. list[0] = IF letter = "G" THEN 137 ELSE 131
        BY <1>6, <3>1, <3>2
      <4>2. letters' = <<letter>>
        BY <1>1, <3>2 DEF ListInv
      <4> QED BY <3>1, <4>1, <4>2
    <3>3. CASE lsrr # 0
      <4>1. letters' = letters /\ (optlist[0] = 137) = (letters[1] = "G")
        BY <1>1, <1>3, <1>11, <3>3 DEF ListInv
      <4> QED BY <1>6, <3>1, <3>3, <4>1
    <3> QED BY <3>2, <3>3
  <2> QED BY <2>5, <2>6, <2>7
<1>12. ListInv'
  <2>1. lsrr' # 0 /\ ulong' = ulong
    BY <1>1, <1>3
  <2> QED BY <1>8, <1>9, <1>10, <1>11, <2>1 DEF ListInv
<1>13. R!RouteRight'
    BY <1>1, <1>3, <1>9 DEF R!RouteRight
<1> QED BY <1>1, <1>3, <1>7, <1>8, <1>10, <1>12, <1>13 DEF RouteInv

(* The host goes behind the gateways, the length in front, and what is left  *)
(* up to the next multiple of four was never written.                        *)
LEMMA SetRouteKeeps ==
    ASSUME RouteInv, R!SetRoute
    PROVE  RouteInv'
<1> USE DEF R!MAX_IPOPTLEN, R!IPOPT_MINOFF, R!IPOPT_SSRR, R!IPOPT_OLEN
<1> DEFINE list == [optlist EXCEPT ![1] = 3 + (lsrr + 1) * ulong]
<1>1. /\ rpc = "sockets" /\ ListInv /\ lsrr > 0 /\ lsrr' = lsrr + 1
      /\ oix' = ((oix + ulong + 3) \div 4) * 4
      /\ rpc' \in {"set", "exit"}
      /\ UNCHANGED <<ulong, asked, letters>>
    BY DEF RouteInv, R!SetRoute
<1>2. optlist' = R!Stored(list, oix, Dest, 0)
  <2>1. 4 - 1 + lsrr' * ulong = 3 + (lsrr + 1) * ulong
    BY <1>1
  <2> QED BY <2>1 DEF R!SetRoute
<1>3. /\ ulong \in {4, 8} /\ asked \in Seq(Gateways) /\ letters \in Seq({"g", "G"})
      /\ lsrr \in Nat /\ lsrr = Len(asked) /\ lsrr # 0
      /\ optlist = [k \in Places |-> optlist[k]]
    BY <1>1 DEF RouteInv, ListInv
<1>4. oix = 3 + (IF ulong = 4 THEN 4 * lsrr ELSE 8 * lsrr) /\ oix \in Int
    BY <1>1, <1>3 DEF ListInv
<1>5. list = [k \in Places |-> list[k]]
    BY <1>3
<1>6. \A k \in Places : list[k] = IF k = 1 THEN 3 + (lsrr + 1) * ulong ELSE optlist[k]
    BY <1>3
<1> HIDE DEF list
<1>7. optlist' = [k \in Places |-> optlist'[k]]
    BY <1>2, <1>5, StoredIsList
<1>8. oix' <= 40
  <2>1. CASE ulong = 4
    <3>1. oix + ulong + 3 <= 42 /\ oix + ulong + 3 \in Nat
      BY <1>1, <1>3, <1>4, <2>1 DEF ListInv
    <3> QED BY <1>1, <3>1
  <2>2. CASE ulong = 8
    <3>1. oix + ulong + 3 <= 42 /\ oix + ulong + 3 \in Nat
      BY <1>1, <1>3, <1>4, <2>2 DEF ListInv
    <3> QED BY <1>1, <3>1
  <2> QED BY <1>3, <2>1, <2>2
<1>9. ASSUME ulong = 4
      PROVE  LET route == Append(asked, Dest)
                 olen == optlist'[1]
             IN /\ olen = 3 + 4 * Len(route)
                /\ \A n \in 1 .. Len(route) : R!Hop(n)' = R!Address(route[n])
                /\ \A k \in olen .. oix' - 1 : optlist'[k] = 0
                /\ oix' % 4 = 0 /\ olen <= oix'
                /\ (optlist'[0] = 137) = (letters[1] = "G")
  <2> DEFINE route == Append(asked, Dest)
  <2>1. lsrr \in Nat /\ lsrr > 0 /\ oix = 3 + 4 * lsrr /\ lsrr < 9
    BY <1>1, <1>3, <1>4, <1>9 DEF ListInv
  <2>2. /\ Len(route) = lsrr + 1 /\ route[lsrr + 1] = Dest
        /\ \A n \in 1 .. lsrr : route[n] = asked[n]
    BY <1>3
  <2> HIDE DEF route
  <2>3. ASSUME NEW k \in Places
        PROVE  optlist'[k] =
                  IF oix <= k /\ k <= oix + 3 THEN <<Dest, k - oix + 1>> ELSE list[k]
    BY <1>2, <1>5, <1>9, <2>1, StoredAt
  <2>4. optlist'[1] = 3 + 4 * (lsrr + 1)
    <3>1. 1 \in Places /\ ~(oix <= 1)
      BY <2>1 DEF Places
    <3>2. list[1] = 3 + 4 * (lsrr + 1)
      BY <1>3, <1>6, <1>9, <3>1
    <3> QED BY <2>3, <3>1, <3>2
  <2>5. ASSUME NEW n \in 1 .. lsrr, NEW b \in 1 .. 4
        PROVE  optlist'[3 + 4 * (n - 1) + b - 1] = <<route[n], b>>
    <3>1. PICK k : k = 3 + 4 * (n - 1) + b - 1
      OBVIOUS
    <3>2. k \in Places /\ ~(oix <= k) /\ k # 1
      BY <2>1, <3>1 DEF Places
    <3>3. optlist[3 + 4 * (n - 1) + b - 1] = <<asked[n], b>>
      BY <1>1, <1>9, Zenon DEF ListInv
    <3>4. optlist'[k] = optlist[k]
      BY <1>6, <2>3, <3>2
    <3> QED BY <2>2, <3>1, <3>3, <3>4
  <2>6. ASSUME NEW b \in 1 .. 4
        PROVE  optlist'[3 + 4 * lsrr + b - 1] = <<route[lsrr + 1], b>>
    <3>1. PICK k : k = 3 + 4 * lsrr + b - 1
      OBVIOUS
    <3>2. k \in Places /\ oix <= k /\ k <= oix + 3 /\ k - oix + 1 = b
      BY <2>1, <3>1 DEF Places
    <3>3. optlist'[k] = <<Dest, k - oix + 1>>
      BY <2>3, <3>2
    <3> QED BY <2>2, <3>1, <3>2, <3>3
  <2>7. ASSUME NEW n \in 1 .. lsrr + 1 PROVE R!Hop(n)' = R!Address(route[n])
    <3>1. ASSUME NEW b \in 1 .. 4
          PROVE  optlist'[3 + 4 * (n - 1) + b - 1] = <<route[n], b>>
      <4>1. CASE n \in 1 .. lsrr
        BY <2>5, <4>1
      <4>2. CASE n = lsrr + 1
        <5>1. 3 + 4 * (n - 1) + b - 1 = 3 + 4 * lsrr + b - 1
          BY <1>3, <4>2
        <5> QED BY <2>6, <4>2, <5>1
      <4>3. n \in 1 .. lsrr \/ n = lsrr + 1
        BY <1>3
      <4> QED BY <4>1, <4>2, <4>3
    <3> QED BY <3>1 DEF R!Hop, R!Address
  <2>8. oix' = ((4 * lsrr + 10) \div 4) * 4 /\ oix' = 4 * lsrr + 8
    BY SMTT(30), <1>1, <1>3, <1>9, <2>1
  <2>9. ASSUME NEW k \in optlist'[1] .. oix' - 1 PROVE optlist'[k] = 0
    <3>1. k \in Places /\ k > oix + 3 /\ k # 1 /\ k \in oix .. 39
      BY <2>1, <2>4, <2>8 DEF Places
    <3>2. optlist'[k] = optlist[k]
      <4>1. ~(k <= oix + 3)
        BY <2>1, <3>1 DEF Places
      <4> QED BY <1>6, <2>3, <3>1, <4>1
    <3>3. optlist[k] = 0
      BY <1>1, <1>9, <3>1 DEF ListInv
    <3> QED BY <3>2, <3>3
  <2>10. oix' % 4 = 0 /\ optlist'[1] <= oix'
    BY <1>3, <2>4, <2>8
  <2>11. (optlist'[0] = 137) = (letters[1] = "G")
    <3>1. 0 \in Places /\ ~(oix <= 0) /\ 0 # 1
      BY <2>1 DEF Places
    <3>2. optlist'[0] = optlist[0]
      BY <1>6, <2>3, <3>1
    <3> QED BY <1>1, <1>9, <3>2 DEF ListInv
  <2> QED BY <2>2, <2>4, <2>7, <2>9, <2>10, <2>11 DEF route
<1>10. R!RouteRight'
    BY <1>1, <1>8, <1>9 DEF R!RouteRight
<1> QED BY <1>1, <1>3, <1>7, <1>10 DEF RouteInv

(* The list of gateways and the host is inside optlist, in the order of the  *)
(* command line and as RFC 791 asks for it, for any number of -g and -G.     *)
THEOREM RouteBuiltRight == R!Spec => []RouteRight
<1> USE DEF R!MAX_IPOPTLEN
<1>1. R!Init => RouteInv
  <2> SUFFICES ASSUME R!Init PROVE RouteInv
    OBVIOUS
  <2>1. optlist = [k \in Places |-> optlist[k]] /\ \A k \in Places : optlist[k] = 0
    BY DEF R!Init, Places
  <2>2. ListInv
    BY <2>1 DEF R!Init, ListInv
  <2>3. R!RouteRight
    BY DEF R!Init, R!RouteRight
  <2>4. /\ ulong \in {4, 8} /\ rpc = "options"
        /\ asked \in Seq(Gateways) /\ letters \in Seq({"g", "G"})
    BY DEF R!Init
  <2> QED BY <2>1, <2>2, <2>3, <2>4 DEF RouteInv
<1>2. RouteInv /\ [R!Next]_(R!vars) => RouteInv'
  <2> SUFFICES ASSUME RouteInv, [R!Next]_(R!vars) PROVE RouteInv'
    OBVIOUS
  <2>1. CASE UNCHANGED R!vars
    <3>1. ListInv' = ListInv /\ R!RouteRight' = R!RouteRight
      BY <2>1 DEF R!vars, ListInv, R!RouteRight, R!Hop
    <3> QED BY <2>1, <3>1 DEF R!vars, RouteInv
  <2>2. CASE R!Refused \/ R!Opened \/ R!NoRoute
    <3>1. /\ rpc \in {"options", "sockets"} /\ rpc' \in {"sockets", "exit", "set"}
          /\ UNCHANGED <<ulong, lsrr, oix, optlist, asked, letters>>
      BY <2>2 DEF R!Refused, R!Opened, R!NoRoute
    <3>2. ListInv /\ ListInv'
      BY <3>1 DEF ListInv, RouteInv
    <3>3. ASSUME rpc' = "set" PROVE asked' = <<>>
      <4>1. R!NoRoute
        BY <2>2, <3>3 DEF R!Refused, R!Opened
      <4>2. lsrr = 0 /\ lsrr = Len(asked)
        BY <3>2, <4>1 DEF R!NoRoute, ListInv
      <4>3. asked \in Seq(Gateways) /\ asked' = asked
        BY <3>1 DEF RouteInv
      <4> QED BY <4>2, <4>3
    <3>4. R!RouteRight'
      BY <3>1, <3>3 DEF R!RouteRight, RouteInv
    <3> QED BY <3>1, <3>2, <3>4 DEF RouteInv
  <2> QED BY <2>1, <2>2, GatewayKeeps, SetRouteKeeps DEF R!Next
<1>3. RouteInv => RouteRight
    BY DEF RouteInv, RouteRight
<1> QED BY <1>1, <1>2, <1>3, PTL DEF R!Spec

-----------------------------------------------------------------------------
(* The copy loops *)

(* Where a side is in loop(). *)
LoopPC == {"select", "stdin", "write", "sock", "close", "done", "dead"}

(* A side that has closed its sending direction sends no more. *)
Shut(s) ==
    s \in fin => \/ lpc[s] \in {"done", "dead"}
                 \/ "stdin" \notin rset[s] /\ s \in stdineof /\ lpc[s] # "write"

(* The units that follow the n-th, in order. *)
Run(q, n) == q \in Seq(Nat) /\ \A k \in 1 .. Len(q) : q[k] = n + k

(* The direction from p to s: what s wrote to stdout and what is under way   *)
(* are the first units of p's stdin, all that were sent as long as s reads;  *)
(* select() told the truth about the connection; and s leaves only when p    *)
(* has closed and nothing is left, if it has -h.                             *)
Link(p, s) ==
    /\ Run(out[s], 0) /\ Run(chan[p], Len(out[s]))
    /\ Len(out[s]) + Len(chan[p]) <= sent[p]
    /\ ~L!Closed(s) => Len(out[s]) + Len(chan[p]) =
                          IF lpc[p] = "write" THEN sent[p] - 1 ELSE sent[p]
    /\ lpc[s] \in {"stdin", "write", "sock"} /\ "sock" \in rset[s] =>
          chan[p] # <<>> \/ p \in fin
    /\ s \in halfclose /\ lpc[s] \in {"close", "done"} =>
          p \in fin /\ chan[p] = <<>> /\ Len(out[s]) = sent[p]

LoopTyped ==
    /\ halfclose \subseteq L!Sides
    /\ sent \in [L!Sides -> Nat] /\ lpc \in [L!Sides -> LoopPC]
    /\ rset \in [L!Sides -> SUBSET {"stdin", "sock"}]
    /\ chan \in [L!Sides -> Seq(Nat)] /\ out \in [L!Sides -> Seq(Nat)]

LoopInv ==
    /\ LoopTyped
    /\ \A s \in L!Sides : /\ Shut(s) /\ Link(L!peer(s), s)
                          /\ halfclose = L!Sides => lpc[s] # "dead"

(* The two sides are each other's peers. *)
LEMMA Peers ==
    ASSUME NEW s \in L!Sides
    PROVE  /\ L!peer(s) \in L!Sides /\ L!peer(s) # s /\ L!peer(L!peer(s)) = s
           /\ \A t \in L!Sides : t = s \/ t = L!peer(s)
BY DEF L!Sides, L!peer

(* A unit is put behind a run. *)
LEMMA RunGrows ==
    ASSUME NEW q, NEW n \in Nat, Run(q, n), NEW x \in Nat, Len(q) + n + 1 = x
    PROVE  /\ Run(Append(q, x), n) /\ Append(q, x) # <<>>
           /\ Len(Append(q, x)) = Len(q) + 1
<1>1. q \in Seq(Nat) /\ Len(q) \in Nat
    BY DEF Run
<1>2. /\ Append(q, x) \in Seq(Nat) /\ Len(Append(q, x)) = Len(q) + 1
      /\ \A k \in 1 .. Len(q) : Append(q, x)[k] = q[k]
      /\ Append(q, x)[Len(q) + 1] = x /\ Append(q, x) # <<>>
    BY <1>1
<1>3. ASSUME NEW k \in 1 .. Len(Append(q, x)) PROVE Append(q, x)[k] = n + k
  <2>1. CASE k = Len(q) + 1
    BY <1>1, <1>2, <2>1
  <2>2. CASE k \in 1 .. Len(q)
    BY <1>2, <2>2 DEF Run
  <2> QED BY <1>1, <1>2, <2>1, <2>2
<1> QED BY <1>1, <1>2, <1>3 DEF Run

(* Its first unit is taken. *)
LEMMA RunShrinks ==
    ASSUME NEW q, NEW n \in Nat, Run(q, n), q # <<>>
    PROVE  /\ Head(q) = n + 1 /\ Run(Tail(q), n + 1)
           /\ Len(Tail(q)) = Len(q) - 1 /\ Len(q) \in Nat
<1>1. q \in Seq(Nat) /\ Len(q) \in Nat /\ Len(q) > 0
    BY DEF Run
<1>2. /\ Head(q) = q[1] /\ Tail(q) \in Seq(Nat) /\ Len(Tail(q)) = Len(q) - 1
      /\ \A k \in 1 .. Len(q) - 1 : Tail(q)[k] = q[k + 1]
    BY <1>1
<1>3. ASSUME NEW k \in 1 .. Len(q) - 1 PROVE q[k + 1] = (n + 1) + k
    BY <1>1 DEF Run
<1>4. q[1] = n + 1
    BY <1>1 DEF Run
<1> QED BY <1>1, <1>2, <1>3, <1>4 DEF Run

(* A run and what follows it are one. *)
LEMMA RunsJoin ==
    ASSUME NEW q, Run(q, 0), NEW r, Run(r, Len(q))
    PROVE  Len(q \o r) = Len(q) + Len(r) /\ \A k \in 1 .. Len(q \o r) : (q \o r)[k] = k
<1>1. q \in Seq(Nat) /\ r \in Seq(Nat) /\ Len(q) \in Nat /\ Len(r) \in Nat
    BY DEF Run
<1>2. /\ Len(q \o r) = Len(q) + Len(r)
      /\ \A k \in 1 .. Len(q) + Len(r) :
            (q \o r)[k] = IF k <= Len(q) THEN q[k] ELSE r[k - Len(q)]
    BY <1>1
<1>3. ASSUME NEW k \in 1 .. Len(q) + Len(r) PROVE (q \o r)[k] = k
  <2>1. CASE k <= Len(q)
    BY <1>1, <1>2, <2>1 DEF Run
  <2>2. CASE ~(k <= Len(q))
    <3>1. k - Len(q) \in 1 .. Len(r)
      BY <1>1, <2>2
    <3>2. r[k - Len(q)] = Len(q) + (k - Len(q))
      BY <3>1 DEF Run
    <3> QED BY <1>1, <1>2, <2>2, <3>2
  <2> QED BY <2>1, <2>2
<1> QED BY <1>2, <1>3

(* LoopInv after a step, seen from the side that took it. *)
LEMMA LoopOfSides ==
    ASSUME NEW s \in L!Sides, LoopTyped',
           Shut(s)', Shut(L!peer(s))', Link(L!peer(s), s)', Link(s, L!peer(s))',
           halfclose' = L!Sides => lpc'[s] # "dead" /\ lpc'[L!peer(s)] # "dead"
    PROVE  LoopInv'
<1>1. ASSUME NEW t \in L!Sides
      PROVE  /\ Shut(t)' /\ Link(L!peer(t), t)'
             /\ halfclose' = L!Sides => lpc'[t] # "dead"
  <2>1. CASE t = s
    BY <2>1
  <2>2. CASE t = L!peer(s)
    <3>1. L!peer(t) = s
      BY <2>2, Peers
    <3> QED BY <2>2, <3>1
  <2> QED BY <2>1, <2>2, Peers
<1> QED BY <1>1 DEF LoopInv

(* A step of one side that moves no unit: what it must leave alone, and what *)
(* its new place must not claim.                                             *)
LEMMA SideMoves ==
    ASSUME LoopInv, NEW s \in L!Sides, NEW to \in LoopPC,
           lpc' = [lpc EXCEPT ![s] = to], lpc[s] \notin {"done", "dead"},
           NEW r \in SUBSET {"stdin", "sock"}, rset' = [rset EXCEPT ![s] = r],
           UNCHANGED <<halfclose, sent, chan, out>>,
           fin' \in {fin, fin \cup {s}}, stdineof \subseteq stdineof',
           to # "write", lpc[s] = "write" => L!Closed(L!peer(s)),
           Shut(s)',
           to \in {"stdin", "sock"} /\ "sock" \in r =>
              chan[L!peer(s)] # <<>> \/ L!peer(s) \in fin,
           s \in halfclose /\ to \in {"close", "done"} =>
              /\ L!peer(s) \in fin /\ chan[L!peer(s)] = <<>>
              /\ Len(out[s]) = sent[L!peer(s)],
           halfclose = L!Sides => to # "dead"
    PROVE  LoopInv'
<1> DEFINE p == L!peer(s)
<1>1. p \in L!Sides /\ p # s
    BY Peers
<1>2. LoopTyped /\ Shut(p) /\ Link(p, s) /\ Link(s, p)
    BY <1>1, Peers DEF LoopInv
<1>3. /\ lpc \in [L!Sides -> LoopPC] /\ rset \in [L!Sides -> SUBSET {"stdin", "sock"}]
      /\ sent \in [L!Sides -> Nat]
      /\ chan \in [L!Sides -> Seq(Nat)] /\ out \in [L!Sides -> Seq(Nat)]
    BY <1>2 DEF LoopTyped
<1> HIDE DEF p
<1>4. lpc'[s] = to /\ lpc'[p] = lpc[p] /\ rset'[s] = r /\ rset'[p] = rset[p]
    BY <1>1, <1>3
<1>5. LoopTyped'
    BY <1>2, <1>3 DEF LoopTyped
<1>6. Shut(p)'
    BY <1>1, <1>2, <1>4 DEF Shut
<1>7. L!Closed(s)' = (to \in {"done", "dead"}) /\ ~L!Closed(s) /\ L!Closed(p)' = L!Closed(p)
    BY <1>4 DEF L!Closed
<1>8. Link(p, s)'
  <2>1. ~L!Closed(s)' => Len(out[s]) + Len(chan[p]) =
                          IF lpc[p] = "write" THEN sent[p] - 1 ELSE sent[p]
    BY <1>2, <1>7 DEF Link
  <2> QED BY <1>2, <1>4, <2>1 DEF Link, p
<1>9. Link(s, p)'
  <2>1. ~L!Closed(p)' => Len(out[p]) + Len(chan[s]) = sent[s]
    BY <1>2, <1>7 DEF Link, p
  <2> QED BY <1>2, <1>4, <2>1 DEF Link
<1>10. halfclose' = L!Sides => lpc'[s] # "dead" /\ lpc'[p] # "dead"
    BY <1>1, <1>4 DEF LoopInv
<1> QED BY <1>1, <1>5, <1>6, <1>8, <1>9, <1>10, LoopOfSides DEF p

(* The actions that move no unit. *)
LEMMA QuietKeeps ==
    ASSUME LoopInv, NEW s \in L!Sides,
           \/ L!Select(s) \/ L!StdinEof(s) \/ L!StdinNotReady(s) \/ L!WriteToClosed(s)
           \/ L!SockEof(s) \/ L!SockNotReady(s) \/ L!Close(s)
    PROVE  LoopInv'
<1> DEFINE p == L!peer(s)
<1>1. p \in L!Sides /\ p # s
    BY Peers
<1>2. LoopTyped /\ Shut(s) /\ Shut(p) /\ Link(p, s) /\ Link(s, p)
    BY <1>1, Peers DEF LoopInv
<1>3. /\ lpc \in [L!Sides -> LoopPC] /\ rset \in [L!Sides -> SUBSET {"stdin", "sock"}]
      /\ rset[s] \in SUBSET {"stdin", "sock"} /\ rset = [rset EXCEPT ![s] = rset[s]]
      /\ sent \in [L!Sides -> Nat] /\ chan[p] \in Seq(Nat) /\ out[s] \in Seq(Nat)
    BY <1>1, <1>2 DEF LoopTyped
<1> HIDE DEF p
\* SideMoves without its quantified constants: to is the new place, r the set.
<1>4. ASSUME NEW to \in LoopPC, NEW r \in SUBSET {"stdin", "sock"},
             lpc' = [lpc EXCEPT ![s] = to], lpc[s] \notin {"done", "dead"},
             rset' = [rset EXCEPT ![s] = r], UNCHANGED <<halfclose, sent, chan, out>>,
             fin' \in {fin, fin \cup {s}}, stdineof \subseteq stdineof', to # "write",
             lpc[s] = "write" => L!Closed(p),
             \/ to \in {"done", "dead"}
             \/ fin' = fin /\ r = rset[s]
             \/ "stdin" \notin r /\ s \in stdineof'
             \/ s \notin fin',
             to \in {"stdin", "sock"} /\ "sock" \in r => chan[p] # <<>> \/ p \in fin,
             s \in halfclose /\ to \in {"close", "done"} =>
                p \in fin /\ chan[p] = <<>> /\ Len(out[s]) = sent[p],
             halfclose = L!Sides => to # "dead"
      PROVE  LoopInv'
  <2>1. Shut(s)'
    <3>1. lpc'[s] = to /\ rset'[s] = r
      BY <1>3, <1>4
    <3> QED BY <1>2, <1>4, <3>1 DEF Shut
  <2> QED BY <1>4, <2>1, SideMoves DEF p
<1>5. CASE L!Select(s)
  <2>1. /\ lpc[s] = "select" /\ lpc' = [lpc EXCEPT ![s] = "stdin"]
        /\ UNCHANGED <<halfclose, sent, stdineof, chan, fin, out>>
    BY <1>5 DEF L!Select
  <2>2. PICK a \in SUBSET {"stdin"}, k \in SUBSET {"sock"} :
           /\ rset' = [rset EXCEPT ![s] = a \cup k]
           /\ "sock" \in k => chan[p] # <<>> \/ p \in fin
           /\ s \in stdineof /\ "stdin" \notin rset[s] => "stdin" \notin a
    <3> DEFINE sock == IF chan[p] # <<>> \/ p \in fin THEN {"sock"} ELSE {}
               wanted == rset[s] \cup {"sock"} \cup IF s \in stdineof THEN {} ELSE {"stdin"}
    <3>1. PICK a \in SUBSET (wanted \cap {"stdin"}) : rset' = [rset EXCEPT ![s] = a \cup sock]
      BY <1>5 DEF L!Select, p
    <3>2. a \in SUBSET {"stdin"} /\ sock \in SUBSET {"sock"}
      BY <3>1
    <3>3. "sock" \in sock => chan[p] # <<>> \/ p \in fin
      OBVIOUS
    <3>4. s \in stdineof /\ "stdin" \notin rset[s] => "stdin" \notin a
      BY <3>1
    <3> HIDE DEF sock
    <3> QED BY <3>1, <3>2, <3>3, <3>4
  <2>3. a \cup k \in SUBSET {"stdin", "sock"}
    OBVIOUS
  <2>4. \/ "stdin" \notin a \cup k /\ s \in stdineof'
        \/ s \notin fin'
    BY <1>2, <2>1, <2>2 DEF Shut
  <2>5. "sock" \in a \cup k => chan[p] # <<>> \/ p \in fin
    BY <2>2
  <2> QED BY <1>4, <2>1, <2>2, <2>3, <2>4, <2>5 DEF LoopPC
<1>6. CASE L!StdinEof(s)
  <2>1. lpc[s] = "stdin" /\ UNCHANGED <<halfclose, sent, chan, out>>
    BY <1>6 DEF L!StdinEof
  <2>2. CASE s \in halfclose
    <3>1. /\ fin' = fin \cup {s} /\ rset' = [rset EXCEPT ![s] = rset[s] \ {"stdin"}]
          /\ stdineof' = stdineof \cup {s} /\ lpc' = [lpc EXCEPT ![s] = "select"]
      BY <1>6, <2>2 DEF L!StdinEof
    <3>2. rset[s] \ {"stdin"} \in SUBSET {"stdin", "sock"}
      BY <1>3
    <3> QED BY <1>4, <2>1, <3>1, <3>2 DEF LoopPC
  <2>3. CASE s \notin halfclose
    <3>1. lpc' = [lpc EXCEPT ![s] = "close"] /\ UNCHANGED <<fin, rset, stdineof>>
      BY <1>6, <2>3 DEF L!StdinEof
    <3>2. rset' = [rset EXCEPT ![s] = rset[s]]
      BY <1>3, <3>1
    <3> QED BY <1>3, <1>4, <2>1, <2>3, <3>1, <3>2 DEF LoopPC
  <2> QED BY <2>2, <2>3
<1>7. CASE L!StdinNotReady(s) \/ L!SockNotReady(s)
  <2>1. PICK to \in {"sock", "select"} :
           /\ lpc' = [lpc EXCEPT ![s] = to] /\ lpc[s] \in {"stdin", "sock"}
           /\ to = "sock" => lpc[s] = "stdin"
           /\ UNCHANGED <<halfclose, sent, rset, stdineof, chan, fin, out>>
    BY <1>7 DEF L!StdinNotReady, L!SockNotReady
  <2>2. rset' = [rset EXCEPT ![s] = rset[s]]
    BY <1>3, <2>1
  <2>3. to = "sock" /\ "sock" \in rset[s] => chan[p] # <<>> \/ p \in fin
    BY <1>2, <2>1 DEF Link
  <2> QED BY <1>3, <1>4, <2>1, <2>2, <2>3 DEF LoopPC
\* The peer has closed: with -h on both sides it waited for this side to end.
<1>8. ASSUME halfclose = L!Sides, L!Closed(p), lpc[s] \notin {"done", "dead"}
      PROVE  lpc[s] # "write" /\ chan[s] = <<>>
  <2>1. lpc[p] = "done" /\ p \in halfclose
    BY <1>1, <1>8 DEF L!Closed, LoopInv
  <2>2. s \in fin /\ chan[s] = <<>>
    BY <1>2, <2>1 DEF Link
  <2> QED BY <1>2, <1>8, <2>2 DEF Shut
<1>9. CASE L!WriteToClosed(s)
  <2>1. /\ lpc[s] = "write" /\ L!Closed(p)
        /\ \/ lpc' = [lpc EXCEPT ![s] = "sock"] /\ UNCHANGED fin
           \/ lpc' = [lpc EXCEPT ![s] = "dead"] /\ fin' = fin \cup {s}
        /\ UNCHANGED <<halfclose, sent, rset, stdineof, chan, out>>
    BY <1>9 DEF L!WriteToClosed, p
  <2>2. rset' = [rset EXCEPT ![s] = rset[s]]
    BY <1>3, <2>1
  <2>3. "sock" \in rset[s] => chan[p] # <<>> \/ p \in fin
    BY <1>2, <2>1 DEF Link
  <2>4. halfclose # L!Sides
    BY <1>8, <2>1
  <2>5. CASE lpc' = [lpc EXCEPT ![s] = "sock"] /\ UNCHANGED fin
    BY <1>3, <1>4, <2>1, <2>2, <2>3, <2>4, <2>5 DEF LoopPC
  <2>6. CASE lpc' = [lpc EXCEPT ![s] = "dead"] /\ fin' = fin \cup {s}
    BY <1>3, <1>4, <2>1, <2>2, <2>4, <2>6 DEF LoopPC
  <2> QED BY <2>1, <2>5, <2>6
<1>10. CASE L!SockEof(s)
  <2>1. /\ lpc[s] = "sock" /\ "sock" \in rset[s] /\ chan[p] = <<>>
        /\ \/ lpc' = [lpc EXCEPT ![s] = "close"] /\ UNCHANGED fin
           \/ /\ L!Closed(p) /\ chan[s] # <<>>
              /\ lpc' = [lpc EXCEPT ![s] = "dead"] /\ fin' = fin \cup {s}
        /\ UNCHANGED <<halfclose, sent, rset, stdineof, chan, out>>
    BY <1>10 DEF L!SockEof, p
  <2>2. rset' = [rset EXCEPT ![s] = rset[s]]
    BY <1>3, <2>1
  <2>3. p \in fin /\ Len(chan[p]) = 0 /\ ~L!Closed(s)
    BY <1>2, <2>1 DEF Link, L!Closed
  \* The peer may have died; then this side is not the one that is left.
  <2>4. lpc[p] # "write"
    BY <1>2, <2>3 DEF Shut
  <2>5. Len(out[s]) = sent[p]
    BY <1>1, <1>2, <1>3, <2>3, <2>4 DEF Link
  <2>6. CASE lpc' = [lpc EXCEPT ![s] = "close"] /\ UNCHANGED fin
    BY <1>3, <1>4, <2>1, <2>2, <2>3, <2>5, <2>6 DEF LoopPC
  <2>7. CASE L!Closed(p) /\ chan[s] # <<>>
             /\ lpc' = [lpc EXCEPT ![s] = "dead"] /\ fin' = fin \cup {s}
    <3>1. halfclose # L!Sides
      BY <1>8, <2>1, <2>7
    <3> QED BY <1>3, <1>4, <2>1, <2>2, <2>7, <3>1 DEF LoopPC
  <2> QED BY <2>1, <2>6, <2>7
<1>11. CASE L!Close(s)
  <2>1. /\ lpc[s] = "close" /\ lpc' = [lpc EXCEPT ![s] = "done"]
        /\ fin' = fin \cup {s}
        /\ UNCHANGED <<halfclose, sent, rset, stdineof, chan, out>>
    BY <1>11 DEF L!Close
  <2>2. rset' = [rset EXCEPT ![s] = rset[s]]
    BY <1>3, <2>1
  <2>3. s \in halfclose => p \in fin /\ chan[p] = <<>> /\ Len(out[s]) = sent[p]
    BY <1>2, <2>1 DEF Link
  <2> QED BY <1>3, <1>4, <2>1, <2>2, <2>3 DEF LoopPC
<1> QED BY <1>5, <1>6, <1>7, <1>9, <1>10, <1>11

(* A unit is read from stdin, written to the connection, and read from it.   *)
LEMMA UnitKeeps ==
    ASSUME LoopInv, NEW s \in L!Sides,
           L!StdinRead(s) \/ L!Write(s) \/ L!SockRead(s)
    PROVE  LoopInv'
<1> DEFINE p == L!peer(s)
<1>1. p \in L!Sides /\ p # s /\ L!peer(p) = s
    BY Peers
<1>2. LoopTyped /\ Shut(s) /\ Shut(p) /\ Link(p, s) /\ Link(s, p)
    BY <1>1, Peers DEF LoopInv
<1>3. /\ lpc \in [L!Sides -> LoopPC]
      /\ sent \in [L!Sides -> Nat] /\ sent[s] \in Nat /\ sent[p] \in Nat
      /\ chan \in [L!Sides -> Seq(Nat)] /\ out \in [L!Sides -> Seq(Nat)]
      /\ chan[s] \in Seq(Nat) /\ chan[p] \in Seq(Nat)
      /\ out[s] \in Seq(Nat) /\ out[p] \in Seq(Nat)
    BY <1>1, <1>2 DEF LoopTyped
<1>4. halfclose = L!Sides => lpc[s] # "dead" /\ lpc[p] # "dead"
    BY <1>1 DEF LoopInv
<1> HIDE DEF p
<1>5. CASE L!StdinRead(s)
  <2>1. /\ lpc[s] = "stdin" /\ "stdin" \in rset[s]
        /\ sent' = [sent EXCEPT ![s] = sent[s] + 1]
        /\ lpc' = [lpc EXCEPT ![s] = "write"]
        /\ UNCHANGED <<halfclose, rset, stdineof, chan, fin, out>>
    BY <1>5 DEF L!StdinRead
  <2>2. /\ sent'[s] = sent[s] + 1 /\ sent'[p] = sent[p]
        /\ lpc'[s] = "write" /\ lpc'[p] = lpc[p]
    BY <1>1, <1>3, <2>1
  <2>3. LoopTyped'
    BY <1>2, <1>3, <2>1 DEF LoopTyped, LoopPC
  <2>4. s \notin fin
    BY <1>2, <2>1 DEF Shut
  <2>5. Shut(s)' /\ Shut(p)'
    BY <1>2, <2>1, <2>2, <2>4 DEF Shut
  <2>6. Link(p, s)'
    BY <1>2, <2>1, <2>2 DEF Link, L!Closed
  <2>7. Link(s, p)'
    BY <1>2, <1>3, <2>1, <2>2, <2>4 DEF Link, L!Closed
  <2>8. halfclose' = L!Sides => lpc'[s] # "dead" /\ lpc'[p] # "dead"
    BY <1>4, <2>1, <2>2
  <2> QED BY <2>3, <2>5, <2>6, <2>7, <2>8, LoopOfSides DEF p
<1>6. CASE L!Write(s)
  <2>1. /\ lpc[s] = "write" /\ ~L!Closed(p)
        /\ chan' = [chan EXCEPT ![s] = Append(chan[s], sent[s])]
        /\ lpc' = [lpc EXCEPT ![s] = "sock"]
        /\ UNCHANGED <<halfclose, sent, rset, stdineof, fin, out>>
    BY <1>6 DEF L!Write, p
  <2>2. /\ chan'[s] = Append(chan[s], sent[s]) /\ chan'[p] = chan[p]
        /\ lpc'[s] = "sock" /\ lpc'[p] = lpc[p]
    BY <1>1, <1>3, <2>1
  <2>3. Run(chan[s], Len(out[p])) /\ Run(out[p], 0)
    BY <1>2 DEF Link
  <2>4. PICK m \in Nat, n \in Nat, u \in Nat :
           m = Len(out[p]) /\ n = Len(chan[s]) /\ u = sent[s]
    BY <1>3
  <2>5. m + n = u - 1
    BY <1>2, <2>1, <2>4 DEF Link
  <2>6. n + m + 1 = u
    BY <2>5
  <2>7. Run(chan'[s], m) /\ chan'[s] # <<>> /\ Len(chan'[s]) = n + 1
    <3>1. Run(chan[s], m) /\ chan'[s] = Append(chan[s], u)
      BY <2>2, <2>3, <2>4
    <3>2. Len(chan[s]) + m + 1 = u
      BY <2>4, <2>6
    <3>3. /\ Run(Append(chan[s], u), m) /\ Append(chan[s], u) # <<>>
          /\ Len(Append(chan[s], u)) = Len(chan[s]) + 1
      BY <3>1, <3>2, RunGrows
    <3> QED BY <2>4, <3>1, <3>3
  <2>8. Run(chan'[s], Len(out'[p])) /\ Len(out'[p]) + Len(chan'[s]) = sent'[s]
    <3>1. m + (n + 1) = u
      BY <2>6
    <3> QED BY <2>1, <2>2, <2>4, <2>7, <3>1
  <2>9. LoopTyped'
    BY <1>2, <1>3, <2>1 DEF LoopTyped, LoopPC
  <2>10. Shut(s)' /\ Shut(p)'
    BY <1>2, <2>1, <2>2 DEF Shut
  <2>11. Link(p, s)'
    BY <1>2, <2>1, <2>2 DEF Link, L!Closed
  <2>12. ~(p \in halfclose /\ lpc[p] \in {"close", "done"})
    BY <1>2, <2>1 DEF Link, Shut
  <2>13. Link(s, p)'
    <3>1. Len(out'[p]) + Len(chan'[s]) <= sent'[s]
      BY <2>1, <2>4, <2>8, u <= u
    <3> QED BY <2>1, <2>2, <2>3, <2>7, <2>8, <2>12, <3>1 DEF Link
  <2>14. halfclose' = L!Sides => lpc'[s] # "dead" /\ lpc'[p] # "dead"
    BY <1>4, <2>1, <2>2
  <2> QED BY <2>9, <2>10, <2>11, <2>13, <2>14, LoopOfSides DEF p
<1>7. CASE L!SockRead(s)
  <2>1. /\ lpc[s] = "sock" /\ chan[p] # <<>>
        /\ out' = [out EXCEPT ![s] = Append(out[s], Head(chan[p]))]
        /\ chan' = [chan EXCEPT ![p] = Tail(chan[p])]
        /\ lpc' = [lpc EXCEPT ![s] = "select"]
        /\ UNCHANGED <<halfclose, sent, rset, stdineof, fin>>
    BY <1>7 DEF L!SockRead, p
  <2>2. /\ out'[s] = Append(out[s], Head(chan[p])) /\ out'[p] = out[p]
        /\ chan'[p] = Tail(chan[p]) /\ chan'[s] = chan[s]
        /\ lpc'[s] = "select" /\ lpc'[p] = lpc[p]
    BY <1>1, <1>3, <2>1
  <2>3. Run(chan[p], Len(out[s])) /\ Run(out[s], 0)
    BY <1>2 DEF Link
  <2>4. Len(out[s]) \in Nat /\ Len(chan[p]) \in Nat
    BY <1>3
  <2>5. Head(chan[p]) = Len(out[s]) + 1 /\ Len(chan'[p]) = Len(chan[p]) - 1
    BY <2>1, <2>2, <2>3, <2>4, RunShrinks
  <2>6. Run(chan'[p], Len(out[s]) + 1)
    BY <2>1, <2>2, <2>3, <2>4, RunShrinks
  <2>7. Run(out'[s], 0) /\ Len(out'[s]) = Len(out[s]) + 1
    <3>1. Len(out[s]) + 0 + 1 = Head(chan[p]) /\ Head(chan[p]) \in Nat
      BY <2>4, <2>5
    <3> QED BY <2>2, <2>3, <3>1, RunGrows
  <2>8. Len(out'[s]) + Len(chan'[p]) = Len(out[s]) + Len(chan[p])
    <3>1. PICK m \in Nat, n \in Nat : m = Len(out[s]) /\ n = Len(chan[p])
      BY <2>4
    <3>2. Len(out'[s]) = m + 1 /\ Len(chan'[p]) = n - 1
      BY <2>5, <2>7, <3>1
    <3>3. (m + 1) + (n - 1) = m + n
      OBVIOUS
    <3> QED BY <3>1, <3>2, <3>3
  <2>9. Run(chan'[p], Len(out'[s]))
    BY <2>6, <2>7
  <2>10. LoopTyped'
    <3>1. out'[s] \in Seq(Nat) /\ chan'[p] \in Seq(Nat)
      BY <2>7, <2>9 DEF Run
    <3> QED BY <1>1, <1>2, <1>3, <2>1, <2>2, <3>1 DEF LoopTyped, LoopPC
  <2>11. Shut(s)' /\ Shut(p)'
    BY <1>2, <2>1, <2>2 DEF Shut
  <2>12. Link(s, p)'
    BY <1>2, <2>1, <2>2 DEF Link, L!Closed
  <2>13. Link(p, s)'
    BY <1>2, <2>1, <2>2, <2>7, <2>8, <2>9 DEF Link, L!Closed
  <2>14. halfclose' = L!Sides => lpc'[s] # "dead" /\ lpc'[p] # "dead"
    BY <1>4, <2>1, <2>2
  <2> QED BY <2>10, <2>11, <2>12, <2>13, <2>14, LoopOfSides DEF p
<1> QED BY <1>5, <1>6, <1>7

(* Units are copied in order and none is lost on a half close, for any       *)
(* number of units, any capacity and any choice of -h.                       *)
LEMMA LoopCopies == L!Spec => []L!CopiesInOrder
<1>1. L!Init => LoopInv
  <2> SUFFICES ASSUME L!Init PROVE LoopInv
    OBVIOUS
  <2>1. LoopTyped
    BY DEF L!Init, LoopTyped, LoopPC, L!Sides
  <2>2. ASSUME NEW s \in L!Sides
        PROVE  /\ Shut(s) /\ Link(L!peer(s), s)
               /\ halfclose = L!Sides => lpc[s] # "dead"
    <3>1. /\ lpc[s] = "select" /\ lpc[L!peer(s)] = "select" /\ fin = {}
          /\ out[s] = <<>> /\ chan[L!peer(s)] = <<>> /\ sent[L!peer(s)] = 0
      BY Peers DEF L!Init
    <3> QED BY <3>1 DEF Shut, Link, L!Closed, Run
  <2> QED BY <2>1, <2>2 DEF LoopInv
<1>2. LoopInv /\ [L!Next]_(L!vars) => LoopInv'
  <2> SUFFICES ASSUME LoopInv, [L!Next]_(L!vars) PROVE LoopInv'
    OBVIOUS
  <2>1. CASE UNCHANGED L!vars
    BY <2>1 DEF L!vars, LoopInv, LoopTyped, Shut, Link, L!Closed
  <2>2. ASSUME NEW s \in L!Sides, L!Side(s) PROVE LoopInv'
    BY <2>2, QuietKeeps, UnitKeeps DEF L!Side
  <2> QED BY <2>1, <2>2 DEF L!Next
<1>3. LoopInv => L!CopiesInOrder
  <2> SUFFICES ASSUME LoopInv PROVE L!CopiesInOrder
    OBVIOUS
  <2>1. ASSUME NEW s \in L!Sides
        PROVE  LET got == out[s] \o chan[L!peer(s)] IN
                 /\ \A k \in 1 .. Len(got) : got[k] = k
                 /\ Len(got) <= sent[L!peer(s)]
    <3>1. /\ out[s] \in Seq(Nat) /\ chan[L!peer(s)] \in Seq(Nat)
          /\ Link(L!peer(s), s)
      BY Peers DEF LoopInv, LoopTyped
    <3> QED BY <3>1, RunsJoin DEF Link
  <2>2. \A s \in halfclose : lpc[s] = "done" => Len(out[s]) = sent[L!peer(s)]
    BY DEF LoopInv, LoopTyped, Link
  <2>3. halfclose = L!Sides => \A s \in L!Sides : lpc[s] # "dead"
    BY DEF LoopInv
  <2> QED BY <2>1, <2>2, <2>3 DEF L!CopiesInOrder
<1> QED BY <1>1, <1>2, <1>3, PTL DEF L!Spec

-----------------------------------------------------------------------------
(* The loop with -u *)

USE DataAssumption

Datagrams == [id : Nat, from : {"client", "server", "foreign"}, to : U!Sides, len : Nat]

(* A datagram that may lie in the buffer of s: its peer sent it, or another. *)
Mail(d, s) ==
    /\ d \in Datagrams /\ d.to = s /\ d.from \in {U!peer(s), "foreign"}
    /\ d.from = U!peer(s) => d.id <= usent[U!peer(s)]

(* What s shows is one datagram of its mail, whole or marked as cut. *)
Line(s) ==
    uout[s] # U!Nothing =>
        /\ Mail(uout[s].d, s)
        /\ uout[s] = U!Shown(s, uout[s].d)

UdpInv ==
    /\ usent \in [U!Sides -> Nat] /\ foreign \in Nat
    /\ upc = [s \in U!Sides |-> upc[s]] /\ uout = [s \in U!Sides |-> uout[s]]
    /\ inbox \in [U!Sides -> Seq(Datagrams)]
    /\ \A d \in net : d.to \in U!Sides /\ d.from \in U!Sides /\ Mail(d, d.to)
    /\ \A s \in U!Sides : /\ \A k \in 1 .. Len(inbox[s]) : Mail(inbox[s][k], s)
                          /\ Line(s)
    /\ upc["server"] \in {"close", "done"} => usent["server"] = utotal["server"]
    /\ upc["server"] = "dead" => "server" \in refused \/ "server" \notin connected

(* Putting mail into a buffer, and taking the first of it. *)
LEMMA MailPut ==
    ASSUME NEW q \in Seq(Datagrams), NEW s \in U!Sides, NEW d, Mail(d, s),
           \A k \in 1 .. Len(q) : Mail(q[k], s)
    PROVE  /\ Append(q, d) \in Seq(Datagrams)
           /\ \A k \in 1 .. Len(Append(q, d)) : Mail(Append(q, d)[k], s)
<1>1. d \in Datagrams
    BY DEF Mail
<1>2. /\ Append(q, d) \in Seq(Datagrams) /\ Len(Append(q, d)) = Len(q) + 1
      /\ \A k \in 1 .. Len(q) : Append(q, d)[k] = q[k]
      /\ Append(q, d)[Len(q) + 1] = d /\ Len(q) \in Nat
    BY <1>1
<1>3. ASSUME NEW k \in 1 .. Len(q) + 1 PROVE Mail(Append(q, d)[k], s)
  <2>1. CASE k = Len(q) + 1
    BY <1>2, <2>1
  <2>2. CASE k \in 1 .. Len(q)
    BY <1>2, <2>2
  <2> QED BY <1>2, <2>1, <2>2
<1> QED BY <1>2, <1>3

LEMMA MailTaken ==
    ASSUME NEW q \in Seq(Datagrams), NEW s \in U!Sides, q # <<>>,
           \A k \in 1 .. Len(q) : Mail(q[k], s)
    PROVE  /\ Mail(Head(q), s) /\ Tail(q) \in Seq(Datagrams)
           /\ \A k \in 1 .. Len(Tail(q)) : Mail(Tail(q)[k], s)
<1>1. /\ Len(q) \in Nat /\ Len(q) > 0 /\ Head(q) = q[1]
      /\ Tail(q) \in Seq(Datagrams) /\ Len(Tail(q)) = Len(q) - 1
      /\ \A k \in 1 .. Len(q) - 1 : Tail(q)[k] = q[k + 1]
    OBVIOUS
<1>2. \A k \in 1 .. Len(q) - 1 : Mail(q[k + 1], s)
    BY <1>1
<1> QED BY <1>1, <1>2

(* Mail stays mail when more is sent. *)
LEMMA MailStays ==
    ASSUME usent \in [U!Sides -> Nat], usent' \in [U!Sides -> Nat],
           \A s \in U!Sides : usent[s] <= usent'[s],
           NEW s \in U!Sides, NEW d, Mail(d, s)
    PROVE  Mail(d, s)'
<1>1. U!peer(s) \in U!Sides
    BY DEF U!peer, U!Sides
<1>2. d \in Datagrams
    BY DEF Mail
<1> QED BY <1>1, <1>2 DEF Mail, Datagrams

(* A step that leaves buffers, network and output as they are or drops from  *)
(* them.                                                                     *)
LEMMA UdpQuiet ==
    ASSUME UdpInv, UNCHANGED <<usent, inbox, connected, utotal>>, net' \subseteq net,
           refused \subseteq refused', foreign' \in Nat,
           uout' = [s \in U!Sides |-> uout'[s]],
           \A s \in U!Sides : uout'[s] \in {uout[s], U!Nothing},
           upc' = [s \in U!Sides |-> upc'[s]],
           upc'["server"] \in {"close", "done"} => usent["server"] = utotal["server"],
           upc'["server"] = "dead" => "server" \in refused' \/ "server" \notin connected
    PROVE  UdpInv'
<1>1. \A d, s : Mail(d, s)' = Mail(d, s)
    BY DEF Mail
<1>2. \A s \in U!Sides : Line(s)'
  <2> TAKE s \in U!Sides
  <2>1. Line(s)
    BY DEF UdpInv
  <2> QED BY <1>1, <2>1 DEF Line, U!Shown
<1> QED BY <1>1, <1>2 DEF UdpInv

(* The network. *)
LEMMA UdpNetKeeps ==
    ASSUME UdpInv,
           \/ \E d \in net : U!Deliver(d) \/ U!Lose(d)
           \/ \E s \in U!Sides, len \in Lengths : U!Foreign(s, len)
    PROVE  UdpInv'
\* Mail arrives at s.
<1>1. ASSUME NEW s \in U!Sides, NEW d, Mail(d, s),
             inbox' = [inbox EXCEPT ![s] = Append(inbox[s], d)], net' \subseteq net,
             foreign' \in Nat, UNCHANGED <<connected, utotal, usent, upc, refused, uout>>
      PROVE  UdpInv'
  <2>1. \A e, t : Mail(e, t)' = Mail(e, t)
    BY <1>1 DEF Mail
  <2>2. \A t : Line(t)' = Line(t)
    BY <1>1, <2>1 DEF Line, U!Shown
  <2>3. inbox \in [U!Sides -> Seq(Datagrams)] /\ inbox[s] \in Seq(Datagrams)
        /\ \A k \in 1 .. Len(inbox[s]) : Mail(inbox[s][k], s)
    BY DEF UdpInv
  <2>4. /\ Append(inbox[s], d) \in Seq(Datagrams)
        /\ \A k \in 1 .. Len(Append(inbox[s], d)) : Mail(Append(inbox[s], d)[k], s)
    BY <1>1, <2>3, MailPut
  <2>5. inbox' \in [U!Sides -> Seq(Datagrams)]
    BY <1>1, <2>3, <2>4
  <2>6. \A t \in U!Sides : \A k \in 1 .. Len(inbox'[t]) : Mail(inbox'[t][k], t)
    <3> TAKE t \in U!Sides
    <3>1. CASE t = s
      <4>1. inbox'[t] = Append(inbox[s], d)
        BY <1>1, <2>3, <3>1
      <4> QED BY <2>4, <3>1, <4>1
    <3>2. CASE t # s
      <4>1. inbox'[t] = inbox[t]
        BY <1>1, <2>3, <3>2
      <4> QED BY <4>1 DEF UdpInv
    <3> QED BY <3>1, <3>2
  <2> QED BY <1>1, <2>1, <2>2, <2>5, <2>6 DEF UdpInv
<1>2. ASSUME NEW d \in net, U!Deliver(d) PROVE UdpInv'
  <2>1. d.to \in U!Sides /\ Mail(d, d.to) /\ foreign \in Nat
    BY DEF UdpInv
  <2>2. /\ inbox' = [inbox EXCEPT ![d.to] = Append(inbox[d.to], d)]
        /\ net' \subseteq net
        /\ UNCHANGED <<connected, utotal, usent, upc, refused, foreign, uout>>
    BY <1>2 DEF U!Deliver, U!fixed
  <2> QED BY <1>1, <2>1, <2>2
<1>3. ASSUME NEW d \in net, U!Lose(d) PROVE UdpInv'
  <2>1. /\ net' \subseteq net /\ refused \subseteq refused'
        /\ UNCHANGED <<connected, utotal, usent, upc, inbox, foreign, uout>>
    BY <1>3 DEF U!Lose, U!fixed
  <2>2. /\ foreign' \in Nat /\ uout' = [s \in U!Sides |-> uout'[s]]
        /\ \A s \in U!Sides : uout'[s] \in {uout[s], U!Nothing}
        /\ upc' = [s \in U!Sides |-> upc'[s]]
        /\ upc'["server"] \in {"close", "done"} => usent["server"] = utotal["server"]
        /\ upc'["server"] = "dead" => "server" \in refused' \/ "server" \notin connected
    BY <2>1 DEF UdpInv
  <2> QED BY <2>1, <2>2, UdpQuiet
<1>4. ASSUME NEW s \in U!Sides, NEW len \in Lengths, U!Foreign(s, len) PROVE UdpInv'
  <2> DEFINE d == [id |-> foreign + 1, from |-> "foreign", to |-> s, len |-> len]
  <2>1. /\ foreign' = foreign + 1
        /\ inbox' = [inbox EXCEPT ![s] = Append(inbox[s], d)]
        /\ UNCHANGED <<connected, utotal, usent, upc, net, refused, uout>>
    BY <1>4 DEF U!Foreign, U!fixed
  <2>2. foreign \in Nat /\ foreign' \in Nat
    BY <2>1 DEF UdpInv
  <2>3. d \in Datagrams
    BY <2>2 DEF Datagrams
  <2>4. Mail(d, s)
    BY <2>3 DEF Mail, U!peer
  <2> QED BY <1>1, <2>1, <2>2, <2>4
<1> QED BY <1>2, <1>3, <1>4

(* The server's and the client's loop. *)
LEMMA UdpLoopKeeps ==
    ASSUME UdpInv, NEW s \in U!Sides, U!Loop(s) PROVE UdpInv'
<1>1. /\ upc = [t \in U!Sides |-> upc[t]] /\ uout = [t \in U!Sides |-> uout[t]]
      /\ usent \in [U!Sides -> Nat] /\ foreign \in Nat
      /\ inbox \in [U!Sides -> Seq(Datagrams)] /\ inbox[s] \in Seq(Datagrams)
      /\ \A k \in 1 .. Len(inbox[s]) : Mail(inbox[s][k], s)
    BY DEF UdpInv
\* Where the server may be after a step of s to the place to.
<1>0. ASSUME NEW to, upc' = [upc EXCEPT ![s] = to],
             s = "server" /\ to \in {"close", "done"} => usent[s] = utotal[s],
             s = "server" /\ to = "dead" => s \in refused \/ s \notin connected
      PROVE  /\ upc' = [t \in U!Sides |-> upc'[t]]
             /\ upc'["server"] \in {"close", "done"} => usent["server"] = utotal["server"]
             /\ upc'["server"] = "dead" => "server" \in refused \/ "server" \notin connected
  <2>1. "server" \in U!Sides /\ upc' = [t \in U!Sides |-> upc'[t]]
    BY <1>0, <1>1 DEF U!Sides
  <2>2. upc'["server"] = upc["server"] \/ (s = "server" /\ upc'["server"] = to)
    BY <1>0, <1>1, <2>1
  <2> QED BY <1>0, <2>1, <2>2 DEF UdpInv
<1>2. CASE U!Select(s)
  <2>1. /\ upc' = [upc EXCEPT ![s] = "stdin"]
        /\ uout' = [uout EXCEPT ![s] = U!Nothing]
        /\ UNCHANGED <<connected, utotal, usent, net, inbox, refused, foreign>>
    BY <1>2 DEF U!Select, U!fixed
  <2>2. /\ uout' = [t \in U!Sides |-> uout'[t]]
        /\ \A t \in U!Sides : uout'[t] \in {uout[t], U!Nothing}
    BY <1>1, <2>1
  <2>3. /\ upc' = [t \in U!Sides |-> upc'[t]]
        /\ upc'["server"] \in {"close", "done"} => usent["server"] = utotal["server"]
        /\ upc'["server"] = "dead" => "server" \in refused \/ "server" \notin connected
    BY <1>0, <2>1
  <2>4. net' \subseteq net /\ refused \subseteq refused' /\ foreign' \in Nat
    BY <1>1, <2>1
  <2> QED BY <2>1, <2>2, <2>3, <2>4, UdpQuiet
<1>3. CASE U!StdinEof(s)
  <2>1. PICK to \in {"close", "select", "dead"} :
           /\ upc' = [upc EXCEPT ![s] = to]
           /\ to = "dead" => s \notin connected
           /\ usent[s] = utotal[s]
           /\ UNCHANGED <<connected, utotal, usent, net, inbox, refused, foreign, uout>>
    BY <1>3 DEF U!StdinEof, U!fixed
  <2>2. /\ upc' = [t \in U!Sides |-> upc'[t]]
        /\ upc'["server"] \in {"close", "done"} => usent["server"] = utotal["server"]
        /\ upc'["server"] = "dead" => "server" \in refused \/ "server" \notin connected
    BY <1>0, <2>1
  <2>3. /\ net' \subseteq net /\ refused \subseteq refused' /\ foreign' \in Nat
        /\ uout' = [t \in U!Sides |-> uout'[t]]
        /\ \A t \in U!Sides : uout'[t] \in {uout[t], U!Nothing}
    BY <1>1, <2>1
  <2> QED BY <2>1, <2>2, <2>3, UdpQuiet
<1>4. CASE U!StdinWrite(s)
  <2>1. /\ upc[s] = "stdin" /\ usent' = [usent EXCEPT ![s] = usent[s] + 1]
        /\ UNCHANGED <<connected, utotal, inbox, refused, foreign, uout>>
    BY <1>4 DEF U!StdinWrite, U!fixed
  <2>2. /\ usent' \in [U!Sides -> Nat] /\ usent'[s] = usent[s] + 1 /\ usent'[s] \in Nat
        /\ \A t \in U!Sides : usent[t] <= usent'[t]
    BY <1>1, <2>1
  <2>3. PICK to \in {"sock", "dead"} :
           /\ upc' = [upc EXCEPT ![s] = to]
           /\ to = "dead" => s \notin connected \/ s \in refused
    BY <1>4 DEF U!StdinWrite
  <2>4. ASSUME NEW d \in net'
        PROVE  d.to \in U!Sides /\ d.from \in U!Sides /\ Mail(d, d.to)'
    <3>1. CASE d \in net
      <4>1. d.to \in U!Sides /\ d.from \in U!Sides /\ Mail(d, d.to)
        BY <3>1 DEF UdpInv
      <4> QED BY <1>1, <2>2, <4>1, MailStays
    <3>2. CASE d \notin net
      <4>1. PICK len \in Lengths :
               d = [id |-> usent'[s], from |-> s, to |-> U!peer(s), len |-> len]
        BY <1>4, <2>4, <3>2 DEF U!StdinWrite
      <4>2. /\ U!peer(s) \in U!Sides /\ U!peer(U!peer(s)) = s
            /\ s \in {"client", "server", "foreign"}
        BY DEF U!peer, U!Sides
      <4>3. d \in Datagrams /\ d.to = U!peer(s) /\ d.from = s /\ d.id = usent'[s]
        BY <2>2, <4>1, <4>2 DEF Datagrams
      <4>4. d.id <= usent'[s]
        BY <2>2, <4>3
      <4> QED BY <4>2, <4>3, <4>4 DEF Mail
    <3> QED BY <3>1, <3>2
  <2>5. ASSUME NEW t \in U!Sides
        PROVE  Line(t)' /\ (\A k \in 1 .. Len(inbox[t]) : Mail(inbox[t][k], t))'
    <3>1. Line(t)'
      <4>1. Line(t)
        BY DEF UdpInv
      <4> QED BY <1>1, <2>1, <2>2, <4>1, MailStays DEF Line, U!Shown
    <3>2. \A d : Mail(d, t) => Mail(d, t)'
      BY <1>1, <2>2, MailStays
    <3>3. \A k \in 1 .. Len(inbox[t]) : Mail(inbox[t][k], t)
      BY DEF UdpInv
    <3> QED BY <2>1, <3>1, <3>2, <3>3
  <2>6. /\ upc'["server"] \in {"close", "done"} => usent'["server"] = utotal'["server"]
        /\ upc'["server"] = "dead" => "server" \in refused' \/ "server" \notin connected'
    <3>1. "server" \in U!Sides
      BY DEF U!Sides
    <3>2. CASE s = "server"
      <4>1. upc'["server"] = to
        BY <1>1, <2>3, <3>1, <3>2
      <4> QED BY <2>1, <2>3, <3>2, <4>1
    <3>3. CASE s # "server"
      <4>1. upc'["server"] = upc["server"] /\ usent'["server"] = usent["server"]
        BY <1>1, <2>1, <2>3, <3>1, <3>3
      <4> QED BY <2>1, <4>1 DEF UdpInv
    <3> QED BY <3>2, <3>3
  <2>7. upc' = [t \in U!Sides |-> upc'[t]]
    BY <1>1, <2>3
  <2> QED BY <1>1, <2>1, <2>2, <2>4, <2>5, <2>6, <2>7 DEF UdpInv
<1>5. CASE U!StdinNotReady(s) \/ U!SockNotReady(s) \/ U!ReadFails(s)
  <2>1. PICK to \in {"sock", "select", "dead"} :
           /\ upc' = [upc EXCEPT ![s] = to]
           /\ to = "dead" => s \in refused
           /\ UNCHANGED <<connected, utotal, usent, net, inbox, refused, foreign, uout>>
    BY <1>5 DEF U!StdinNotReady, U!SockNotReady, U!ReadFails, U!fixed
  <2>2. /\ upc' = [t \in U!Sides |-> upc'[t]]
        /\ upc'["server"] \in {"close", "done"} => usent["server"] = utotal["server"]
        /\ upc'["server"] = "dead" => "server" \in refused \/ "server" \notin connected
    BY <1>0, <2>1
  <2>3. /\ net' \subseteq net /\ refused \subseteq refused' /\ foreign' \in Nat
        /\ uout' = [t \in U!Sides |-> uout'[t]]
        /\ \A t \in U!Sides : uout'[t] \in {uout[t], U!Nothing}
    BY <1>1, <2>1
  <2> QED BY <2>1, <2>2, <2>3, UdpQuiet
\* The buffer of s loses its first datagram, or all, and s may show that one.
<1>6. ASSUME NEW q \in Seq(Datagrams), \A k \in 1 .. Len(q) : Mail(q[k], s),
             inbox' = [inbox EXCEPT ![s] = q], NEW to,
             upc' = [upc EXCEPT ![s] = to], to # "dead",
             s = "server" /\ to \in {"close", "done"} =>
                usent["server"] = utotal["server"],
             \/ uout' = uout
             \/ /\ inbox[s] # <<>>
                /\ uout' = [uout EXCEPT ![s] = U!Shown(s, Head(inbox[s]))],
             UNCHANGED <<connected, utotal, usent, net, refused, foreign>>
      PROVE  UdpInv'
  <2>1. \A e, t : Mail(e, t)' = Mail(e, t)
    BY <1>6 DEF Mail
  <2>2. \A t \in U!Sides : Line(t)'
    <3> TAKE t \in U!Sides
    <3>1. CASE uout'[t] = uout[t]
      <4>1. Line(t)
        BY DEF UdpInv
      <4> QED BY <2>1, <3>1, <4>1 DEF Line, U!Shown
    <3>2. CASE t = s /\ inbox[s] # <<>> /\ uout'[t] = U!Shown(s, Head(inbox[s]))
      <4>1. Mail(Head(inbox[s]), s)
        BY <1>1, <3>2, MailTaken
      <4>2. uout'[t].d = Head(inbox[s])
        BY <3>2 DEF U!Shown
      <4> QED BY <2>1, <3>2, <4>1, <4>2 DEF Line, U!Shown
    <3> QED BY <1>1, <1>6, <3>1, <3>2
  <2>3. uout' = [t \in U!Sides |-> uout'[t]] /\ upc' = [t \in U!Sides |-> upc'[t]]
    BY <1>1, <1>6
  <2>4. inbox' \in [U!Sides -> Seq(Datagrams)]
    BY <1>1, <1>6
  <2>5. \A t \in U!Sides : \A k \in 1 .. Len(inbox'[t]) : Mail(inbox'[t][k], t)
    <3> TAKE t \in U!Sides
    <3>1. CASE t = s
      <4>1. inbox'[t] = q
        BY <1>1, <1>6, <3>1
      <4> QED BY <1>6, <3>1, <4>1
    <3>2. CASE t # s
      <4>1. inbox'[t] = inbox[t]
        BY <1>1, <1>6, <3>2
      <4> QED BY <4>1 DEF UdpInv
    <3> QED BY <3>1, <3>2
  <2>6. /\ upc'["server"] \in {"close", "done"} => usent["server"] = utotal["server"]
        /\ upc'["server"] = "dead" => "server" \in refused \/ "server" \notin connected
    <3>1. "server" \in U!Sides
      BY DEF U!Sides
    <3>2. upc'["server"] = upc["server"] \/ (s = "server" /\ upc'["server"] = to)
      BY <1>1, <1>6, <3>1
    <3> QED BY <1>6, <3>2 DEF UdpInv
  <2> QED BY <1>1, <1>6, <2>1, <2>2, <2>3, <2>4, <2>5, <2>6 DEF UdpInv
<1>7. CASE U!Close(s)
  <2>1. /\ upc[s] = "close" /\ upc' = [upc EXCEPT ![s] = "done"]
        /\ inbox' = [inbox EXCEPT ![s] = <<>>]
        /\ UNCHANGED <<connected, utotal, usent, net, refused, foreign, uout>>
    BY <1>7 DEF U!Close, U!fixed
  <2>2. <<>> \in Seq(Datagrams) /\ \A k \in 1 .. Len(<<>>) : Mail(<<>>[k], s)
    OBVIOUS
  <2>3. s = "server" => usent["server"] = utotal["server"]
    BY <2>1 DEF UdpInv
  <2> QED BY <1>6, <2>1, <2>2, <2>3
<1>8. CASE (s = "server" /\ U!Recvmsg) \/ (s = "client" /\ U!Read)
  <2>1. /\ inbox[s] # <<>> /\ inbox' = [inbox EXCEPT ![s] = Tail(inbox[s])]
        /\ UNCHANGED <<connected, utotal, usent, net, refused, foreign>>
    BY <1>8 DEF U!Recvmsg, U!Read, U!fixed
  <2>2. PICK to \in {"select", "close"} :
           /\ upc' = [upc EXCEPT ![s] = to]
           /\ to = "close" => s = "client"
           /\ uout' = uout \/ uout' = [uout EXCEPT ![s] = U!Shown(s, Head(inbox[s]))]
    BY <1>8 DEF U!Recvmsg, U!Read
  <2>3. Tail(inbox[s]) \in Seq(Datagrams)
        /\ \A k \in 1 .. Len(Tail(inbox[s])) : Mail(Tail(inbox[s])[k], s)
    BY <1>1, <2>1, MailTaken
  <2>4. \/ uout' = uout
        \/ inbox[s] # <<>> /\ uout' = [uout EXCEPT ![s] = U!Shown(s, Head(inbox[s]))]
    BY <2>1, <2>2
  <2>5. to # "dead" /\ ~(s = "server" /\ to \in {"close", "done"})
    BY <2>2
  <2> HIDE DEF U!Shown
  <2> QED BY <1>6, <2>1, <2>2, <2>3, <2>4, <2>5
<1> QED BY <1>2, <1>3, <1>4, <1>5, <1>7, <1>8 DEF U!Loop

(* One datagram is one line, whole or marked as cut by a server, and no      *)
(* datagram ends a server, for any number of datagrams that are lost,        *)
(* repeated and reordered.                                                   *)
LEMMA UdpIntact == U!Spec => []U!DatagramsIntact
<1>1. U!Init => UdpInv
  <2> SUFFICES ASSUME U!Init PROVE UdpInv
    OBVIOUS
  <2>1. /\ usent \in [U!Sides -> Nat] /\ foreign \in Nat /\ net = {}
        /\ upc = [s \in U!Sides |-> upc[s]] /\ uout = [s \in U!Sides |-> uout[s]]
    BY DEF U!Init
  <2>2. \A s \in U!Sides : inbox[s] = <<>> /\ Line(s) /\ upc[s] = "select"
    BY DEF U!Init, Line
  <2>3. inbox \in [U!Sides -> Seq(Datagrams)] /\ "server" \in U!Sides
    BY DEF U!Init, U!Sides
  <2> QED BY <2>1, <2>2, <2>3 DEF UdpInv
<1>2. UdpInv /\ [U!Next]_(U!vars) => UdpInv'
  <2> SUFFICES ASSUME UdpInv, [U!Next]_(U!vars) PROVE UdpInv'
    OBVIOUS
  <2>1. CASE UNCHANGED U!vars
    BY <2>1 DEF U!vars, UdpInv, Mail, Line, U!Shown
  <2> QED BY <2>1, UdpNetKeeps, UdpLoopKeeps DEF U!Next
<1>3. UdpInv => U!DatagramsIntact
  <2> SUFFICES ASSUME UdpInv PROVE U!DatagramsIntact
    OBVIOUS
  <2>1. ASSUME NEW s \in U!Sides, uout[s] # U!Nothing
        PROVE  LET o == uout[s] IN
          /\ o.d.to = s /\ o.d.from \in {U!peer(s), "foreign"}
          /\ o.d.from = U!peer(s) => o.d.id <= usent[U!peer(s)]
          /\ o.len = o.d.len \/ (o.len = UdpReadlen /\ (s = "server" => o.truncated))
    <3>1. Mail(uout[s].d, s) /\ uout[s] = U!Shown(s, uout[s].d)
      BY <2>1 DEF UdpInv, Line
    <3>2. PICK n \in Nat : n = uout[s].d.len
      BY <3>1 DEF Mail, Datagrams
    <3>3. /\ uout[s].len = IF n < UdpReadlen THEN n ELSE UdpReadlen
          /\ uout[s].truncated = (s = "server" /\ n > UdpReadlen)
      BY <3>1, <3>2 DEF U!Shown
    <3>4. uout[s].len = n \/ (uout[s].len = UdpReadlen /\ n > UdpReadlen)
      BY <3>3
    <3> QED BY <3>1, <3>2, <3>3, <3>4 DEF Mail
  <2> QED BY <2>1 DEF U!DatagramsIntact, UdpInv
<1> QED BY <1>1, <1>2, <1>3, PTL DEF U!Spec

-----------------------------------------------------------------------------
(* Source and sink *)

SinkInv ==
    /\ i \in Nat /\ i >= 1 /\ i <= nbuf + 1
    /\ left \in Nat /\ left <= writelen
    /\ stream \in Nat /\ mark \in Int /\ received \in Nat
    /\ srcpc \in {"urg", "write", "closed"} /\ sinkpc \in {"read", "done", "quit"}
    /\ srcpc = "write" => i <= nbuf
    /\ srcpc = "closed" /\ sinkpc # "quit" => i = nbuf + 1
    /\ sinkpc = "done" => srcpc = "closed" /\ stream = 0
    /\ sinkpc # "quit" => received + stream =
          writelen * (i - 1) + IF srcpc = "write" THEN writelen - left ELSE 0

(* One more buffer. *)
LEMMA NextBuffer ==
    ASSUME NEW w \in Nat, NEW k \in Nat
    PROVE  /\ w * ((k + 1) - 1) = w * (k - 1) + w
           /\ w * (k - 1) \in Int /\ w * ((k + 1) - 1) = k * w
OBVIOUS

(* The source's and the sink's steps keep it. *)
LEMMA SinkNext == SinkInv /\ [S!Next]_(S!vars) => SinkInv'
<1> SUFFICES ASSUME SinkInv, [S!Next]_(S!vars) PROVE SinkInv'
    OBVIOUS
<1>1. PICK b \in Int : b = writelen * (i - 1)
    BY NextBuffer DEF SinkInv
<1>2. /\ i' = i => writelen * (i' - 1) = b
      /\ i' = i + 1 => writelen * (i' - 1) = b + writelen
    BY <1>1, NextBuffer DEF SinkInv
<1>3. sinkpc # "quit" => received + stream =
          b + IF srcpc = "write" THEN writelen - left ELSE 0
    BY <1>1 DEF SinkInv
<1> SUFFICES ASSUME i' \in {i, i + 1}
             PROVE  /\ i' \in Nat /\ i' >= 1 /\ i' <= nbuf + 1
                    /\ left' \in Nat /\ left' <= writelen
                    /\ stream' \in Nat /\ mark' \in Int /\ received' \in Nat
                    /\ srcpc' \in {"urg", "write", "closed"}
                    /\ sinkpc' \in {"read", "done", "quit"}
                    /\ srcpc' = "write" => i' <= nbuf
                    /\ srcpc' = "closed" /\ sinkpc' # "quit" => i' = nbuf + 1
                    /\ sinkpc' = "done" => srcpc' = "closed" /\ stream' = 0
                    /\ sinkpc' # "quit" => received' + stream' =
                          (IF i' = i THEN b ELSE b + writelen)
                          + IF srcpc' = "write" THEN writelen - left' ELSE 0
  <2>1. i' \in {i, i + 1}
    BY DEF S!Next, S!Source, S!Sink, S!Urgent, S!WriteSome, S!WriteReturns,
           S!WriteFails, S!CloseSource, S!Read, S!ReadEof, S!vars
  <2> QED BY <1>2, <2>1 DEF SinkInv
<1> USE DEF SinkInv
<1>4. CASE S!Urgent
    BY <1>3, <1>4 DEF S!Urgent
<1>5. CASE S!WriteSome
  <2>1. PICK n \in 1 .. left : stream' = stream + n /\ left' = left - n
    BY <1>5 DEF S!WriteSome
  <2> QED BY <1>3, <1>5, <2>1 DEF S!WriteSome
<1>6. CASE S!WriteReturns
    BY <1>3, <1>6 DEF S!WriteReturns
<1>7. CASE S!WriteFails
    BY <1>3, <1>7 DEF S!WriteFails
<1>8. CASE S!CloseSource
    BY <1>3, <1>8 DEF S!CloseSource
<1>9. CASE S!Read
  <2>1. PICK n \in Nat :
           /\ n <= stream /\ stream' = stream - n /\ received' = received + n
           /\ mark' = IF mark > n THEN mark - n ELSE -1
    <3> DEFINE room == IF mark > 0 /\ mark < stream THEN mark ELSE stream
               n == IF room < readlen THEN room ELSE readlen
    <3>1. n \in Nat /\ n <= stream
      OBVIOUS
    <3>2. /\ stream' = stream - n /\ received' = received + n
          /\ mark' = IF mark > n THEN mark - n ELSE -1
      BY <1>9 DEF S!Read
    <3> QED BY <3>1, <3>2
  <2>2. /\ sinkpc = "read" /\ sinkpc' \in {"read", "quit"}
        /\ UNCHANGED <<i, left, srcpc>>
    BY <1>9 DEF S!Read
  <2> QED BY <1>3, <2>1, <2>2
<1>10. CASE S!ReadEof
    BY <1>3, <1>10 DEF S!ReadEof
<1>11. CASE UNCHANGED S!vars
    BY <1>3, <1>11 DEF S!vars
<1> QED BY <1>4, <1>5, <1>6, <1>7, <1>8, <1>9, <1>10, <1>11 DEF S!Next, S!Source, S!Sink

(* Source and sink agree on the bytes, whatever the sizes of the buffers and *)
(* however the connection splits and joins them.                             *)
LEMMA BytesKept == S!Spec => []S!BytesConserved
<1>1. S!Init => SinkInv
  <2> SUFFICES ASSUME S!Init PROVE SinkInv
    OBVIOUS
  <2>1. writelen * (1 - 1) = 0
    OBVIOUS
  <2> QED BY <2>1 DEF S!Init, SinkInv
<1>2. SinkInv => S!BytesConserved
  <2> SUFFICES ASSUME SinkInv PROVE S!BytesConserved
    OBVIOUS
  <2>1. ASSUME sinkpc = "done" PROVE received = nbuf * writelen
    <3>1. i = nbuf + 1 /\ stream = 0 /\ srcpc = "closed" /\ received \in Nat
      BY <2>1 DEF SinkInv
    <3>2. received + stream = writelen * (i - 1) + 0
      BY <2>1, <3>1 DEF SinkInv
    <3>3. writelen * (i - 1) = nbuf * writelen /\ nbuf * writelen \in Int
      BY <3>1, NextBuffer
    <3> QED BY <3>1, <3>2, <3>3
  <2> QED BY <2>1 DEF SinkInv, S!BytesConserved
<1> QED BY <1>1, <1>2, SinkNext, PTL DEF S!Spec

(* What sock copies arrives, over TCP, over UDP and from source to sink, for *)
(* all lengths, numbers and capacities.                                      *)
THEOREM DataKept == L!Spec /\ U!Spec /\ S!Spec => []DataIntact
<1>1. L!CopiesInOrder /\ U!DatagramsIntact /\ S!BytesConserved => DataIntact
    BY DEF DataIntact
<1> QED BY <1>1, LoopCopies, UdpIntact, BytesKept, PTL

-----------------------------------------------------------------------------
(* The ICMP clients *)

(* The partial sums of a message, as the loop of in_cksum adds them up. *)
Partial(s, f) ==
    f = [k \in 0 .. Len(s) |-> IF k = 0 THEN 0 ELSE f[k - 1] + s[k]]

(* There are partial sums, whatever the length: those of one word more are   *)
(* the ones before with one added.                                           *)
LEMMA SumsExist ==
    ASSUME NEW s
    PROVE  \A n \in Nat : \E f : f = [k \in 0 .. n |-> IF k = 0 THEN 0 ELSE f[k - 1] + s[k]]
<1> DEFINE P(n, f) == [k \in 0 .. n |-> IF k = 0 THEN 0 ELSE f[k - 1] + s[k]]
           T == {n \in Nat : \E f : f = P(n, f)}
<1>1. 0 \in T
  <2>1. [k \in 0 .. 0 |-> 0] = P(0, [k \in 0 .. 0 |-> 0])
    OBVIOUS
  <2> QED BY <2>1
<1>2. ASSUME NEW n \in Nat, n \in T PROVE n + 1 \in T
  <2>1. PICK f : f = P(n, f)
    BY <1>2
  <2> DEFINE g == [k \in 0 .. n + 1 |-> IF k <= n THEN f[k] ELSE f[n] + s[n + 1]]
  <2>2. ASSUME NEW k \in 0 .. n + 1
        PROVE  g[k] = IF k = 0 THEN 0 ELSE g[k - 1] + s[k]
    <3>1. CASE k = 0
      BY <2>1, <3>1
    <3>2. CASE k \in 1 .. n
      <4>1. f[k] = f[k - 1] + s[k]
        BY <2>1, <3>2
      <4>2. g[k] = f[k] /\ g[k - 1] = f[k - 1] /\ k # 0
        BY <3>2
      <4> QED BY <4>1, <4>2
    <3>3. CASE k = n + 1
      BY <3>3
    <3> QED BY <3>1, <3>2, <3>3
  <2>3. g = P(n + 1, g)
    BY <2>2
  <2> HIDE DEF g
  <2> QED BY <2>3
<1> HIDE DEF T
<1>3. \A n \in Nat : n \in T
    BY <1>1, <1>2, Induct
<1> QED BY <1>3 DEF T

(* The total is the last of the partial sums. *)
LEMMA Sums ==
    ASSUME NEW s \in Seq(Int)
    PROVE  \E f : /\ \A k \in 0 .. Len(s) : f[k] \in Int
                  /\ f[0] = 0 /\ \A k \in 1 .. Len(s) : f[k] = f[k - 1] + s[k]
                  /\ I!Total(s) = f[Len(s)]
<1> DEFINE g == CHOOSE h : Partial(s, h)
<1>1. Partial(s, g)
  <2>1. Len(s) \in Nat
    OBVIOUS
  <2>2. \E h : Partial(s, h)
    BY <2>1, SumsExist DEF Partial
  <2> QED BY <2>2
<1>2. I!Total(s) = g[Len(s)]
    BY DEF I!Total, Partial
<1> HIDE DEF g
<1>3. g[0] = 0 /\ \A k \in 1 .. Len(s) : g[k] = g[k - 1] + s[k]
  <2>1. \A k \in 0 .. Len(s) : g[k] = IF k = 0 THEN 0 ELSE g[k - 1] + s[k]
    BY <1>1 DEF Partial
  <2> QED BY <2>1
<1>4. \A n \in Nat : n <= Len(s) => g[n] \in Int
  <2> DEFINE T == {n \in Nat : n <= Len(s) => g[n] \in Int}
  <2>1. 0 \in T
    BY <1>3
  <2>2. ASSUME NEW n \in Nat, n \in T PROVE n + 1 \in T
    <3> SUFFICES ASSUME n + 1 <= Len(s) PROVE g[n + 1] \in Int
      OBVIOUS
    <3>1. n + 1 \in 1 .. Len(s) /\ n <= Len(s) /\ (n + 1) - 1 = n
      OBVIOUS
    <3>2. g[n] \in Int /\ s[n + 1] \in Int
      BY <2>2, <3>1
    <3> QED BY <1>3, <3>1, <3>2
  <2> HIDE DEF T
  <2>3. \A n \in Nat : n \in T
    BY <2>1, <2>2, Induct
  <2> QED BY <2>3 DEF T
<1>5. \A k \in 0 .. Len(s) : g[k] \in Int
    BY <1>4
<1> QED BY <1>2, <1>3, <1>5

(* A sum of at most fifteen words, the first of which is not zero. *)
LEMMA SmallSum ==
    ASSUME NEW s \in Seq(Nat), Len(s) > 0, Len(s) < 16, s[1] > 0,
           \A k \in 1 .. Len(s) : s[k] < I!Word
    PROVE  I!Total(s) \in Nat /\ 0 < I!Total(s) /\ I!Total(s) < 16 * I!Word
<1>1. PICK f : /\ \A k \in 0 .. Len(s) : f[k] \in Int
               /\ f[0] = 0 /\ \A k \in 1 .. Len(s) : f[k] = f[k - 1] + s[k]
               /\ I!Total(s) = f[Len(s)]
  <2>1. s \in Seq(Int)
    OBVIOUS
  <2> QED BY <2>1, Sums
<1> DEFINE T == {n \in Nat : n <= Len(s) =>
                    /\ f[n] \in Nat /\ f[n] <= n * (I!Word - 1)
                    /\ n > 0 => f[n] > 0}
<1>2. 0 \in T
    BY <1>1 DEF I!Word
<1>3. ASSUME NEW n \in Nat, n \in T PROVE n + 1 \in T
  <2> SUFFICES ASSUME n + 1 <= Len(s)
               PROVE  /\ f[n + 1] \in Nat /\ f[n + 1] <= (n + 1) * (I!Word - 1)
                      /\ f[n + 1] > 0
    OBVIOUS
  <2>1. n + 1 \in 1 .. Len(s) /\ (n + 1) - 1 = n /\ n <= Len(s)
    OBVIOUS
  <2>2. f[n + 1] = f[n] + s[n + 1]
    BY <1>1, <2>1
  <2>3. f[n] \in Nat /\ f[n] <= n * (I!Word - 1) /\ (n > 0 => f[n] > 0)
    BY <1>3, <2>1
  <2>4. s[n + 1] \in Nat /\ s[n + 1] < I!Word /\ (n = 0 => s[n + 1] > 0)
    BY <2>1
  <2> DEFINE a == f[n]
             x == s[n + 1]
             w == I!Word - 1
  <2>5. w \in Nat /\ x <= w /\ (n + 1) * w = n * w + w
    BY <2>4 DEF I!Word
  <2>6. a \in Nat /\ a <= n * w /\ x \in Nat /\ (a > 0 \/ x > 0)
    <3>1. n = 0 \/ n > 0
      OBVIOUS
    <3> QED BY <2>3, <2>4, <3>1
  <2>7. f[n + 1] = a + x
    BY <2>2
  <2> HIDE DEF a, x, w
  <2>8. a + x \in Nat /\ a + x <= n * w + w /\ a + x > 0
    <3> DEFINE nw == n * w
    <3>1. nw \in Nat
      BY <2>5 DEF w, I!Word
    <3> HIDE DEF nw
    <3>2. a <= nw
      BY <2>6 DEF nw
    <3>3. a + x \in Nat /\ a + x <= nw + w /\ a + x > 0
      BY <2>5, <2>6, <3>1, <3>2
    <3> QED BY <3>3 DEF nw
  <2> QED BY <2>5, <2>7, <2>8 DEF w
<1> HIDE DEF T
<1>4. Len(s) \in T
  <2>1. Len(s) \in Nat
    OBVIOUS
  <2>2. \A n \in Nat : n \in T
    BY <1>2, <1>3, Induct
  <2> QED BY <2>1, <2>2
<1>5. f[Len(s)] \in Nat /\ f[Len(s)] <= Len(s) * (I!Word - 1) /\ f[Len(s)] > 0
    BY <1>4 DEF T
<1> QED BY <1>1, <1>5 DEF I!Word

(* Two folds are enough for a sum of at most sixteen words, and what is left *)
(* is what the sum lacks to a multiple of 65535.                             *)
LEMMA Folded ==
    ASSUME NEW sum \in Nat, 0 < sum, sum < 16 * I!Word
    PROVE  LET once == (sum \div I!Word) + (sum % I!Word)
               twice == once + (once \div I!Word)
               c == (I!Word - 1) - (twice % I!Word)
           IN  c \in Nat /\ (sum + c) % (I!Word - 1) = 0
<1> DEFINE q == sum \div 65536
           r == sum % 65536
<1>1. sum = 65536 * q + r /\ q \in Nat /\ q < 16 /\ r \in Nat /\ r < 65536
    BY DEF I!Word
<1> DEFINE once == q + r
           twice == once + (once \div 65536)
           c == 65535 - (twice % 65536)
<1> HIDE DEF q, r
<1>2. CASE once < 65536
  <2>1. once \div 65536 = 0
    BY <1>1, <1>2
  <2>2. twice % 65536 = once
    BY <1>1, <1>2, <2>1
  <2>3. c = 65535 - once /\ c \in Nat
    BY <1>1, <1>2, <2>2
  <2>4. sum + c = 65535 * (q + 1)
    BY <1>1, <2>3
  <2>5. (65535 * (q + 1)) % 65535 = 0
    BY <1>1
  <2> QED BY <2>3, <2>4, <2>5 DEF q, r, I!Word
<1>3. CASE once >= 65536
  <2>1. once \div 65536 = 1
    BY <1>1, <1>3
  <2>2. twice = once + 1 /\ twice % 65536 = once + 1 - 65536
    BY <1>1, <1>3, <2>1
  <2>3. c = 131070 - once /\ c \in Nat
    BY <1>1, <1>3, <2>2
  <2>4. sum + c = 65535 * (q + 2)
    BY <1>1, <2>3
  <2>5. (65535 * (q + 2)) % 65535 = 0
    BY <1>1
  <2> QED BY <2>3, <2>4, <2>5 DEF q, r, I!Word
<1> QED BY <1>1, <1>2, <1>3

(* A message of which the second word is the checksum verifies, since the   *)
(* checksum adds itself to the sum of the others.                            *)
LEMMA Checksummed ==
    ASSUME NEW w \in Seq(Nat), Len(w) > 1, Len(w) < 16, w[1] > 0, w[2] = 0,
           \A k \in 1 .. Len(w) : w[k] < I!Word
    PROVE  LET r == [w EXCEPT ![2] = I!in_cksum(w)]
           IN  r # <<>> /\ I!Total(r) > 0 /\ I!Total(r) % (I!Word - 1) = 0
<1> DEFINE c == I!in_cksum(w)
           r == [w EXCEPT ![2] = c]
<1>1. I!Total(w) \in Nat /\ 0 < I!Total(w) /\ I!Total(w) < 16 * I!Word
    BY SmallSum
<1>2. c \in Nat /\ (I!Total(w) + c) % (I!Word - 1) = 0
    BY <1>1, Folded DEF I!in_cksum
<1> HIDE DEF c
<1>3. w \in Seq(Int) /\ r \in Seq(Int) /\ Len(r) = Len(w) /\ r # <<>>
    BY <1>2
<1>4. r[2] = c /\ \A k \in 1 .. Len(w) : k # 2 => r[k] = w[k]
    BY <1>2
<1> HIDE DEF r
<1>5. PICK f : /\ \A k \in 0 .. Len(w) : f[k] \in Int
               /\ f[0] = 0 /\ \A k \in 1 .. Len(w) : f[k] = f[k - 1] + w[k]
               /\ I!Total(w) = f[Len(w)]
    BY <1>3, Sums
<1>6. PICK g : /\ \A k \in 0 .. Len(w) : g[k] \in Int
               /\ g[0] = 0 /\ \A k \in 1 .. Len(w) : g[k] = g[k - 1] + r[k]
               /\ I!Total(r) = g[Len(w)]
  <2>1. PICK g : /\ \A k \in 0 .. Len(r) : g[k] \in Int
                 /\ g[0] = 0 /\ \A k \in 1 .. Len(r) : g[k] = g[k - 1] + r[k]
                 /\ I!Total(r) = g[Len(r)]
    BY <1>3, Sums
  <2> QED BY <1>3, <2>1
<1> DEFINE T == {n \in Nat : n <= Len(w) => g[n] = IF n < 2 THEN f[n] ELSE f[n] + c}
<1>7. 0 \in T
    BY <1>5, <1>6
<1>8. ASSUME NEW n \in Nat, n \in T PROVE n + 1 \in T
  <2> SUFFICES ASSUME n + 1 <= Len(w)
               PROVE  g[n + 1] = IF n + 1 < 2 THEN f[n + 1] ELSE f[n + 1] + c
    OBVIOUS
  <2>1. n + 1 \in 1 .. Len(w) /\ n \in 0 .. Len(w) /\ (n + 1) - 1 = n /\ n <= Len(w)
    OBVIOUS
  <2>2. f[n + 1] = f[n] + w[n + 1] /\ f[n] \in Int
    BY <1>5, <2>1
  <2>3. g[n + 1] = g[n] + r[n + 1]
    BY <1>6, <2>1
  <2>4. g[n] = IF n < 2 THEN f[n] ELSE f[n] + c
    BY <1>8, <2>1
  <2>5. w[n + 1] \in Int /\ r[n + 1] = IF n + 1 = 2 THEN w[n + 1] + c ELSE w[n + 1]
    BY <1>2, <1>3, <1>4, <2>1
  <2> QED BY <1>2, <2>2, <2>3, <2>4, <2>5
<1> HIDE DEF T
<1>9. Len(w) \in T
  <2>1. Len(w) \in Nat
    OBVIOUS
  <2>2. \A n \in Nat : n \in T
    BY <1>7, <1>8, Induct
  <2> QED BY <2>1, <2>2
<1>10. I!Total(r) = I!Total(w) + c
    BY <1>5, <1>6, <1>9 DEF T
<1>11. I!Total(r) > 0
    BY <1>1, <1>2, <1>10
<1>12. I!Total(r) % (I!Word - 1) = 0
    BY <1>2, <1>10
<1> QED BY <1>3, <1>11, <1>12 DEF r, c

(* A sequence of 16 bit words. *)
Words(s) == s \in Seq(Nat) /\ \A k \in 1 .. Len(s) : s[k] < I!Word

(* Two of them make one. *)
LEMMA Joined ==
    ASSUME NEW s, NEW p, Words(s), Words(p)
    PROVE  Words(s \o p) /\ Len(s \o p) = Len(s) + Len(p)
<1>1. s \in Seq(Nat) /\ p \in Seq(Nat)
    BY DEF Words
<1>2. s \o p \in Seq(Nat) /\ Len(s \o p) = Len(s) + Len(p)
    BY <1>1
<1>3. ASSUME NEW k \in 1 .. Len(s) + Len(p) PROVE (s \o p)[k] < I!Word
  <2>1. CASE k <= Len(s)
    <3>1. k \in 1 .. Len(s) /\ (s \o p)[k] = s[k]
      BY <1>1, <2>1
    <3> QED BY <3>1 DEF Words
  <2>2. CASE k > Len(s)
    <3>1. k - Len(s) \in 1 .. Len(p) /\ (s \o p)[k] = p[k - Len(s)]
      BY <1>1, <2>2
    <3> QED BY <3>1 DEF Words
  <2> QED BY <1>1, <2>1, <2>2
<1> QED BY <1>2, <1>3 DEF Words

(* A time of day fills two words, and the header four. *)
LEMMA LongWords ==
    ASSUME NEW n \in Nat, n < I!Day
    PROVE  Words(I!Long(n)) /\ Len(I!Long(n)) = 2
<1> DEFINE hi == n \div I!Word
           lo == n % I!Word
<1>1. hi \in Nat /\ lo \in Nat /\ lo < I!Word /\ hi < I!Word
    BY DEF I!Word, I!Day
<1> HIDE DEF hi, lo
<1>2. <<hi, lo>> \in Seq(Nat) /\ Len(<<hi, lo>>) = 2
    BY <1>1
<1>3. ASSUME NEW k \in 1 .. 2 PROVE <<hi, lo>>[k] < I!Word
  <2>1. k = 1 \/ k = 2
    OBVIOUS
  <2> QED BY <1>1, <2>1
<1> QED BY <1>2, <1>3 DEF Words, I!Long, hi, lo

(* The words of the header, with a checksum of zero. *)
LEMMA HeaderWords ==
    ASSUME NEW type \in Nat, 0 < type, type < 256, NEW id \in Nat
    PROVE  LET h == <<type * 256, 0, id % I!Word, 12345>>
           IN  Words(h) /\ Len(h) = 4 /\ h[1] > 0 /\ h[2] = 0
<1> DEFINE t == type * 256
           n == id % I!Word
           h == <<t, 0, n, 12345>>
<1>1. n \in Nat /\ n < I!Word /\ t \in Nat /\ 0 < t /\ t < I!Word /\ 12345 < I!Word /\ 0 < I!Word
    BY DEF I!Word
<1> HIDE DEF t, n
<1>2. h \in Seq(Nat) /\ Len(h) = 4
    BY <1>1
<1>3. h[1] = t /\ h[2] = 0 /\ h[3] = n /\ h[4] = 12345
    OBVIOUS
<1> HIDE DEF h
<1>4. ASSUME NEW k \in 1 .. 4 PROVE h[k] < I!Word
  <2>1. k = 1 \/ k = 2 \/ k = 3 \/ k = 4
    OBVIOUS
  <2> QED BY <1>1, <1>3, <2>1
<1>5. Words(h) /\ Len(h) = 4 /\ h[1] > 0 /\ h[2] = 0
    BY <1>1, <1>2, <1>3, <1>4 DEF Words
<1> QED BY <1>5 DEF h, t, n

(* The header and at most eleven words after it make a message that verifies;*)
(* both requests are of this form.                                           *)
LEMMA Verified ==
    ASSUME NEW type \in Nat, 0 < type, type < 256, NEW id \in Nat,
           NEW p, Words(p), Len(p) < 12
    PROVE  LET r == I!Message(type, id, p)
           IN  r # <<>> /\ I!Total(r) > 0 /\ I!Total(r) % (I!Word - 1) = 0
<1> DEFINE h == <<type * 256, 0, id % I!Word, 12345>>
           w == h \o p
<1>1. Words(h) /\ Len(h) = 4 /\ h[1] > 0 /\ h[2] = 0
    BY HeaderWords
<1> HIDE DEF h
<1>2. Words(w) /\ Len(w) = 4 + Len(p)
    BY <1>1, Joined
<1>3. w[1] = h[1] /\ w[2] = h[2]
  <2>1. \A k \in 1 .. Len(h) : (h \o p)[k] = h[k]
    <3>1. h \in Seq(Nat) /\ p \in Seq(Nat)
      BY <1>1 DEF Words
    <3> QED BY <3>1
  <2>2. 1 \in 1 .. Len(h) /\ 2 \in 1 .. Len(h)
    BY <1>1
  <2> QED BY <2>1, <2>2
<1> HIDE DEF w
<1>4. Len(p) \in Nat
  <2>1. p \in Seq(Nat)
    BY DEF Words
  <2> QED BY <2>1
<1>5. w \in Seq(Nat) /\ Len(w) > 1 /\ Len(w) < 16 /\ w[1] > 0 /\ w[2] = 0
      /\ \A k \in 1 .. Len(w) : w[k] < I!Word
    BY <1>1, <1>2, <1>3, <1>4 DEF Words
<1>6. LET r == [w EXCEPT ![2] = I!in_cksum(w)]
      IN  r # <<>> /\ I!Total(r) > 0 /\ I!Total(r) % (I!Word - 1) = 0
    BY <1>5, Checksummed
<1>7. I!Message(type, id, p) = [w EXCEPT ![2] = I!in_cksum(w)]
    BY DEF I!Message, w, h
<1> QED BY <1>6, <1>7

(* The request for the address mask verifies. *)
LEMMA MaskRequest ==
    ASSUME NEW id \in Nat
    PROVE  LET r == I!Message(I!ICMP_MASKREQ, id, I!Long(0))
           IN  r # <<>> /\ I!Total(r) > 0 /\ I!Total(r) % (I!Word - 1) = 0
<1> DEFINE z == I!Long(0)
           type == I!ICMP_MASKREQ
<1>1. 0 < I!Day /\ type \in Nat /\ 0 < type /\ type < 256
    BY DEF I!Day, I!ICMP_MASKREQ
<1>2. Words(z) /\ Len(z) = 2
    BY <1>1, LongWords
<1> HIDE DEF z, type
<1>3. LET r == I!Message(type, id, z)
      IN  r # <<>> /\ I!Total(r) > 0 /\ I!Total(r) % (I!Word - 1) = 0
  <2>1. Len(z) < 12
    BY <1>2
  <2> QED BY <1>1, <1>2, <2>1, Verified
<1> QED BY <1>3 DEF z, type

(* The request for the time verifies, whatever the time. *)
LEMMA TimeRequest ==
    ASSUME NEW id \in Nat, NEW t \in Nat, t < I!Day
    PROVE  LET r == I!Message(I!ICMP_TSTAMP, id, I!Long(t) \o I!Long(0) \o I!Long(0))
           IN  r # <<>> /\ I!Total(r) > 0 /\ I!Total(r) % (I!Word - 1) = 0
<1> DEFINE z == I!Long(0)
           a == I!Long(t)
           type == I!ICMP_TSTAMP
<1>1. 0 < I!Day /\ type \in Nat /\ 0 < type /\ type < 256
    BY DEF I!Day, I!ICMP_TSTAMP
<1>2. Words(z) /\ Len(z) = 2 /\ Words(a) /\ Len(a) = 2
    BY <1>1, LongWords
<1> HIDE DEF z, a, type
<1> DEFINE b == a \o z
<1>3. Words(b) /\ Len(b) = 4
  <2>1. Words(b) /\ Len(b) = Len(a) + Len(z)
    BY <1>2, Joined, Zenon
  <2> HIDE DEF b
  <2> QED BY <1>2, <2>1
<1> HIDE DEF b
<1> DEFINE p == b \o z
<1>4. Words(p) /\ Len(p) < 12
  <2>1. Words(p) /\ Len(p) = Len(b) + Len(z)
    BY <1>2, <1>3, Joined, Zenon
  <2> HIDE DEF p
  <2> QED BY <1>2, <1>3, <2>1
<1> HIDE DEF p
<1>5. LET r == I!Message(type, id, p)
      IN  r # <<>> /\ I!Total(r) > 0 /\ I!Total(r) % (I!Word - 1) = 0
    BY <1>1, <1>4, Verified
<1> QED BY <1>5 DEF p, b, a, z, type

(* What adjtime is given is the difference, in two parts of one sign.        *)
LEMMA Corrected ==
    ASSUME NEW orig \in Nat, orig < I!Day, NEW recv \in Nat, recv < I!Day
    PROVE  LET sec == I!Delta(recv - orig).tv_sec
               usec == I!Delta(recv - orig).tv_usec
           IN  /\ -1000000 < usec /\ usec < 1000000
               /\ ~(sec > 0 /\ usec < 0) /\ ~(sec < 0 /\ usec > 0)
               /\ (orig + sec * 1000 + I!Quot(usec, 1000)) % I!Day = recv
<1> DEFINE d == recv - orig
           q == I!Quot(d, 1000)
           m == d - 1000 * q
<1>1. d \in Int /\ orig + d = recv
    OBVIOUS
<1>2. /\ q \in Int /\ m \in Int /\ -1000 < m /\ m < 1000
      /\ ~(q > 0 /\ m < 0) /\ ~(q < 0 /\ m > 0)
  <2> HIDE DEF d
  <2>1. CASE d >= 0
    BY <1>1, <2>1 DEF I!Quot
  <2>2. CASE d < 0
    <3> DEFINE e == -d
    <3>1. e \in Nat /\ d = -e /\ q = -(e \div 1000)
      BY <1>1, <2>2 DEF I!Quot
    <3> HIDE DEF e
    <3>2. e \div 1000 \in Nat /\ e - 1000 * (e \div 1000) \in 0 .. 999
      BY <3>1
    <3>3. m = -(e - 1000 * (e \div 1000))
      BY <3>1, <3>2
    <3> QED BY <3>1, <3>2, <3>3
  <2> QED BY <1>1, <2>1, <2>2
<1>3. I!Delta(d).tv_sec = q /\ I!Delta(d).tv_usec = m * 1000
    BY DEF I!Delta, I!Rem
<1>4. orig + q * 1000 + m = recv
  <2> HIDE DEF q
  <2> QED BY <1>1, <1>2
<1> HIDE DEF d, q, m
<1>5. I!Quot(m * 1000, 1000) = m
  <2>1. CASE m >= 0
    BY <1>2, <2>1 DEF I!Quot
  <2>2. CASE m < 0
    <3> DEFINE e == -m
    <3>1. e \in Nat /\ e > 0 /\ -(m * 1000) = e * 1000 /\ m = -e /\ ~(m * 1000 >= 0)
      BY <1>2, <2>2
    <3> HIDE DEF e
    <3>2. (e * 1000) \div 1000 = e
      BY <3>1
    <3> QED BY <3>1, <3>2 DEF I!Quot
  <2> QED BY <1>2, <2>1, <2>2
<1>6. recv % I!Day = recv
    BY DEF I!Day
<1>7. /\ -1000000 < m * 1000 /\ m * 1000 < 1000000
      /\ ~(q > 0 /\ m * 1000 < 0) /\ ~(q < 0 /\ m * 1000 > 0)
    BY <1>2
<1>8. (orig + q * 1000 + I!Quot(m * 1000, 1000)) % I!Day = recv
    BY <1>4, <1>5, <1>6
<1> QED BY <1>3, <1>7, <1>8 DEF d

(* The clock is set by the reply that ends the loop, from the time in it;    *)
(* icmpaddrmask has counted what it printed, but for the answer at hand.     *)
IcmpInv ==
    /\ client \in {"time", "mask"}
    /\ ipc \in {"setup", "send", "wait", "count", "done", "exit0", "exit1"}
    /\ I!RequestVerifies
    /\ \/ adjusted = <<>>
       \/ /\ client = "time" /\ ipc \in {"done", "exit0", "exit1"}
          /\ tsorig \in Clocks
          /\ \E t \in Clocks : adjusted = <<[from |-> t, tv |-> I!Delta(t - tsorig)]>>
    /\ client = "time" =>
          /\ ipc # "count"
          /\ ipc = "wait" => tsorig \in Clocks
          /\ ipc \in {"done", "exit0"} => adjusted # <<>> \/ undefined
    /\ client = "mask" =>
          /\ ipc # "done"
          /\ mshown \in Nat /\ response \in Nat
          /\ mshown \in {response, response + 1}
          /\ ipc \in {"setup", "send", "wait"} => mshown = response
          /\ ipc = "count" => mshown = response + 1
          /\ ipc = "exit0" => response > 0
          /\ ipc \in {"setup", "send", "exit1"} => response = 0

(* Every step of the two clients and of the alarm keeps that. *)
LEMMA IcmpInvStep == IcmpInv /\ [I!Next]_(I!vars) => IcmpInv'
<1> SUFFICES ASSUME IcmpInv, [I!Next]_(I!vars) PROVE IcmpInv'
    OBVIOUS
<1> USE DEF IcmpInv
<1>0. UNCHANGED request => I!RequestVerifies'
    BY DEF I!RequestVerifies
<1>1. ASSUME NEW c \in {"time", "mask"}, I!Setup(c) PROVE IcmpInv'
    BY <1>0, <1>1 DEF I!Setup
<1>2. CASE I!TimeSender
  <2> USE <1>2 DEF I!TimeSender
  <2>1. PICK id \in Pids, t \in Clocks :
            /\ tsorig' = t
            /\ request' = I!Message(I!ICMP_TSTAMP, id, I!Long(t) \o I!Long(0) \o I!Long(0))
    OBVIOUS
  <2>2. id \in Nat /\ t \in Nat /\ t < I!Day
    BY IcmpAssumption, SMT DEF I!Day
  <2>3. I!RequestVerifies'
    BY <2>1, <2>2, TimeRequest, Zenon DEF I!RequestVerifies
  <2> QED BY <2>1, <2>3
<1>3. CASE I!MaskSender
  <2> USE <1>3 DEF I!MaskSender
  <2>1. PICK id \in Pids : request' = I!Message(I!ICMP_MASKREQ, id, I!Long(0))
    OBVIOUS
  <2>2. id \in Nat
    BY IcmpAssumption, SMT
  <2>3. I!RequestVerifies'
    BY <2>1, <2>2, MaskRequest, Zenon DEF I!RequestVerifies
  <2> QED BY <2>3
<1>4. CASE I!ShortPacket
    BY <1>0, <1>4 DEF I!ShortPacket
<1>5. CASE I!TimeReply
  <2> USE <1>5 DEF I!TimeReply
  <2>1. adjusted = <<>>
    OBVIOUS
  <2>2. PICK t \in Clocks :
            \/ /\ adjusted' = Append(adjusted, [from |-> t, tv |-> I!Delta(t - tsorig)])
               /\ ipc' = "done"
            \/ ipc' = "exit1" /\ UNCHANGED adjusted
    OBVIOUS
  <2>3. CASE ipc' = "exit1" /\ UNCHANGED adjusted
    BY <1>0, <2>3
  <2>4. CASE /\ adjusted' = Append(adjusted, [from |-> t, tv |-> I!Delta(t - tsorig)])
             /\ ipc' = "done"
    <3>1. adjusted' = <<[from |-> t, tv |-> I!Delta(t - tsorig)]>>
      BY <2>1, <2>4
    <3>2. adjusted' # <<>>
      BY <3>1
    <3>3. tsorig' = tsorig /\ tsorig \in Clocks
      OBVIOUS
    <3> QED BY <1>0, <2>4, <3>1, <3>2, <3>3
  <2> QED BY <2>2, <2>3, <2>4
<1>6. CASE I!MaskReply
    BY <1>0, <1>6 DEF I!MaskReply
<1>7. CASE I!CountReply
    BY <1>0, <1>7 DEF I!CountReply
<1>8. CASE I!Exit
    BY <1>0, <1>8 DEF I!Exit
<1>9. CASE I!sig_alrm
    BY <1>0, <1>9 DEF I!sig_alrm
<1>10. CASE UNCHANGED I!vars
    BY <1>0, <1>10 DEF I!vars
<1> QED
    BY <1>1, <1>2, <1>3, <1>4, <1>5, <1>6, <1>7, <1>8, <1>9, <1>10, Zenon
    DEF I!Next, I!TimeMain, I!MaskMain, I!TimeSetup, I!MaskSetup

(* The request of an ICMP client verifies for every process id and time of   *)
(* day, the clock is corrected once at most and to the time in the reply,    *)
(* and the exit status tells the truth, whenever the alarm goes off.         *)
THEOREM IcmpTellsTruth == I!Spec => []IcmpVerdict
<1>1. I!Init => IcmpInv
    BY DEF I!Init, IcmpInv, I!RequestVerifies
<1>2. IcmpInv => IcmpVerdict
  <2> SUFFICES ASSUME IcmpInv PROVE I!IcmpVerdict
    BY DEF IcmpVerdict
  <2>1. Len(adjusted) <= 1 /\ I!ClockCorrection
    <3>1. CASE adjusted = <<>>
      BY <3>1 DEF I!ClockCorrection
    <3>2. CASE adjusted # <<>>
      <4>1. tsorig \in Clocks
        BY <3>2 DEF IcmpInv
      <4>2. PICK t \in Clocks : adjusted = <<[from |-> t, tv |-> I!Delta(t - tsorig)]>>
        BY <3>2 DEF IcmpInv
      <4>3. Len(adjusted) = 1 /\ DOMAIN adjusted = {1}
        BY <4>2
      <4>4. adjusted[1].from = t /\ adjusted[1].tv = I!Delta(t - tsorig)
        BY <4>2
      <4>5. t \in Nat /\ t < I!Day /\ tsorig \in Nat /\ tsorig < I!Day
        BY <4>1, IcmpAssumption, SMT DEF I!Day
      <4>6. LET sec == I!Delta(t - tsorig).tv_sec
                usec == I!Delta(t - tsorig).tv_usec
            IN  /\ -1000000 < usec /\ usec < 1000000
                /\ ~(sec > 0 /\ usec < 0) /\ ~(sec < 0 /\ usec > 0)
                /\ (tsorig + sec * 1000 + I!Quot(usec, 1000)) % I!Day = t
        BY <4>5, Corrected
      <4> QED BY <4>3, <4>4, <4>6 DEF I!ClockCorrection
    <3> QED BY <3>1, <3>2
  <2>2. /\ client = "time" /\ ipc = "exit0" => adjusted # <<>> \/ undefined
        /\ client = "mask" /\ ipc = "exit0" => mshown > 0
        /\ client = "mask" /\ ipc = "exit1" => mshown <= 1
    BY DEF IcmpInv
  <2>3. I!RequestVerifies
    BY DEF IcmpInv
  <2> QED BY <2>1, <2>2, <2>3 DEF I!IcmpVerdict
<1> QED BY <1>1, <1>2, IcmpInvStep, PTL DEF I!Spec
=============================================================================
