-------------------------- MODULE Traceroute_proofs --------------------------
(***************************************************************************)
(* Proofs, for every path, option and size: traceroute's search for a      *)
(* probe size stays inside mtus[], answers are shown on the line of their  *)
(* distance, and the size that is found is the path MTU.                   *)
(*                                                                         *)
(* The table's bound is not inductive: a size is refused only while it is  *)
(* larger than the smallest one in the table (a fact about the reply that  *)
(* is on its way), and when the pointer stands at the end the size is no   *)
(* larger than that.                                                       *)
(***************************************************************************)
EXTENDS Traceroute, TLAPS

(* The size in use, once the pointer has come to the terminating 0. *)
SmallAtEnd == mtuptr = 18 => datalen <= MINMTU

(* A "fragmentation needed" for the probe that is waited for was sent        *)
(* because of its size, which has not changed since.                         *)
RefusedIsBig ==
    \A r \in icmp : /\ r.seq \in Nat /\ r.mtu \in Nat /\ r.seq <= seq
                    /\ pc = "wait" /\ r.seq = seq /\ r.kind = "needfrag"
                       => datalen > MINMTU

SizeInv ==
    /\ path \in Paths
    /\ seq \in Nat /\ datalen \in Int
    /\ mtuptr \in 1 .. 18
    /\ pc \in {"options", "size"} => mtuptr = 1
    /\ SmallAtEnd
    /\ RefusedIsBig

(* The table's sizes go down. *)
LEMMA TableDescends ==
    ASSUME NEW i \in 1 .. 17, NEW j \in 1 .. 17, j < i
    PROVE  mtus[i] < mtus[j]
BY DEF mtus

USE TracerouteAssumption

(* What is used of the table. *)
LEMMA Table ==
    /\ Len(mtus) = 18
    /\ mtus[17] = MINMTU
    /\ \A i \in 1 .. 18 : mtus[i] \in Nat
BY DEF mtus, MINMTU

(* What is used of a path. *)
LEMMA PathLinks ==
    ASSUME NEW p \in Paths, NEW k \in 1 .. Len(p)
    PROVE  /\ p[k].mtu \in Nat /\ p[k].mtu >= MINMTU
           /\ p[k].new \in BOOLEAN /\ Len(p) \in Nat
<1> DEFINE S == [mtu : Nat, new : BOOLEAN, up : BOOLEAN]
<1>0. p \in Seq(S)
    OBVIOUS
<1>1. p[k].mtu >= MINMTU
    OBVIOUS
<1>2. p[k] \in S /\ Len(p) \in Nat
  <2> HIDE DEF S
  <2> QED BY <1>0
<1> QED BY <1>1, <1>2

(* A link refuses nothing that is as small as MINMTU. *)
LEMMA TooBigIsBig ==
    ASSUME path \in Paths, datalen \in Int, NEW k \in 1 .. Len(path), TooBig(k)
    PROVE  datalen > MINMTU
BY PathLinks DEF TooBig, MINMTU

(* Taking the next entry of the table keeps the pointer inside. *)
LEMMA StepDown ==
    ASSUME SizeInv, datalen > MINMTU,
           datalen' = mtus[mtuptr], mtuptr' = mtuptr + 1
    PROVE  mtuptr' \in 1 .. 18 /\ datalen' \in Int /\ SmallAtEnd'
<1>1. mtuptr \in 1 .. 17
    BY DEF SizeInv, SmallAtEnd, MINMTU
<1>2. datalen' \in Nat
  <2>1. mtuptr \in 1 .. 18
    BY <1>1
  <2>2. mtus[mtuptr] \in Nat
    BY <2>1, Table
  <2> QED BY <2>2
<1>3. mtuptr = 17 => datalen' = MINMTU
    BY Table
<1>4. mtuptr' = 18 => datalen' <= MINMTU
    BY <1>1, <1>3 DEF MINMTU
<1> QED BY <1>1, <1>2, <1>4 DEF SmallAtEnd

(* It holds before the options are read. *)
LEMMA SizeInit == Init => SizeInv
BY DEF Init, SizeInv, SmallAtEnd, RefusedIsBig

(* Every step keeps it; only a refused size moves the pointer. *)
LEMMA SizeNext == SizeInv /\ [Next]_vars => SizeInv'
<1> SUFFICES ASSUME SizeInv, [Next]_vars PROVE SizeInv'
    OBVIOUS
<1> USE DEF SizeInv, SmallAtEnd, RefusedIsBig, options, line, size
<1>1. CASE ParseOptions
    BY <1>1 DEF ParseOptions
<1>2. CASE PacketSize
  <2>1. PICK a \in SizeArgs :
           LET d == IF a = NoArg /\ version = "pmtu" THEN mtus[mtuptr] - OPACKET
                    ELSE IF a = NoArg THEN 0 ELSE a
           IN /\ mtuptr' \in {mtuptr, mtuptr + 1}
              /\ datalen' \in {d, d + OPACKET}
    BY <1>2 DEF PacketSize
  <2>2. mtuptr = 1 /\ pc' \in {"exit", "sockets"}
    BY <1>2 DEF PacketSize
  <2>3. mtuptr' \in 1 .. 2
    BY <2>1, <2>2
  <2>4. datalen' \in Int
    BY <2>1, <2>2, Table DEF OPACKET
  <2> QED BY <1>2, <2>2, <2>3, <2>4 DEF PacketSize
<1>3. CASE OpenSockets
    BY <1>3 DEF OpenSockets
<1>4. CASE SendTooBig
  <2>1. datalen > MINMTU
    BY <1>4, TooBigIsBig, 1 \in 1 .. Len(path) DEF SendTooBig
  <2>2. mtuptr' \in 1 .. 18 /\ datalen' \in Int /\ SmallAtEnd'
    BY <1>4, <2>1, StepDown DEF SendTooBig
  <2> QED BY <1>4, <2>2 DEF SendTooBig
<1>5. CASE send_probe
  <2>1. PICK k \in 1 .. Len(path) : EndsAt(k) /\ icmp' = icmp \cup {Reply(k, seq')}
    BY <1>5 DEF send_probe
  <2>2. seq' = seq + 1 /\ UNCHANGED <<path, datalen, mtuptr>> /\ pc' = "wait"
    BY <1>5 DEF send_probe
  <2>3. Reply(k, seq').seq = seq' /\ Reply(k, seq').mtu \in Nat
    BY <2>2, PathLinks, k < Len(path) => k + 1 \in 1 .. Len(path) DEF Reply
  <2>4. ASSUME Reply(k, seq').kind = "needfrag" PROVE datalen > MINMTU
    <3>1. k # Len(path) /\ k # ttl /\ path[k].up
      BY <2>4 DEF Reply, Kind
    <3>2. TooBig(k + 1) /\ k + 1 \in 1 .. Len(path)
      BY <2>1, <3>1, PathLinks DEF EndsAt
    <3> QED BY <3>2, TooBigIsBig
  <2>5. RefusedIsBig'
    BY <2>1, <2>2, <2>3, <2>4
  <2> QED BY <2>2, <2>5
<1>6. CASE SendFails
    BY <1>6 DEF SendFails
<1>7. CASE StartLine
    BY <1>7 DEF StartLine
<1>8. CASE OutOfHops
    BY <1>8 DEF OutOfHops
<1>9. CASE TimeOut
    BY <1>9 DEF TimeOut, NextProbe
<1>10. CASE EndLine
    BY <1>10 DEF EndLine
<1>11. ASSUME NEW r \in icmp, LateReply(r) PROVE SizeInv'
    BY <1>11 DEF LateReply
<1>12. ASSUME NEW r \in icmp, Answer(r) PROVE SizeInv'
    BY <1>12 DEF Answer, NextProbe
<1>13. ASSUME NEW r \in icmp, NeedFrag(r) PROVE SizeInv'
  <2>1. datalen > MINMTU /\ r.mtu \in Nat
    BY <1>13 DEF NeedFrag, packet_ok
  <2>2. mtuptr' \in 1 .. 18 /\ datalen' \in Int /\ SmallAtEnd'
    <3>1. CASE r.mtu > 0
      <4>1. datalen' = r.mtu
        BY SMTT(30), <1>13, <3>1 DEF NeedFrag, frag_err
      <4>2. CASE \E i \in 1 .. 17 : mtus[i] = r.mtu /\ mtuptr' = i + 1
        <5>1. PICK i \in 1 .. 17 : mtus[i] = r.mtu /\ mtuptr' = i + 1
          BY <4>2
        <5>2. i = 17 => datalen' = MINMTU
          BY <4>1, <5>1, Table
        <5>3. mtuptr' = 18 => datalen' <= MINMTU
          BY <5>1, <5>2 DEF MINMTU
        <5> QED BY <4>1, <2>1, <5>1, <5>3
      <4>3. CASE mtuptr' = mtuptr
        BY <4>1, <4>3, <2>1 DEF MINMTU
      <4> QED BY SMTT(30), <1>13, <3>1, <4>2, <4>3 DEF NeedFrag, frag_err
    <3>2. CASE r.mtu = 0
      <4>1. datalen' = mtus[mtuptr] /\ mtuptr' = mtuptr + 1
        BY <1>13, <3>2 DEF NeedFrag, frag_err
      <4> QED BY <4>1, <2>1, StepDown
    <3> QED BY <2>1, <3>1, <3>2
  <2> QED BY <1>13, <2>2 DEF NeedFrag
<1>14. CASE UNCHANGED vars
    BY <1>14 DEF vars
<1> QED
    BY <1>1, <1>2, <1>3, <1>4, <1>5, <1>6, <1>7, <1>8, <1>9, <1>10, <1>11,
       <1>12, <1>13, <1>14 DEF Next

(* mtuptr never leaves mtus[], whatever the path, the options and the sizes: *)
(* send_probe and frag_err never read behind its terminating 0.              *)
THEOREM StaysInTable == Spec => []MtuInTable
<1>1. SizeInv => MtuInTable
    BY Table DEF SizeInv, MtuInTable
<1> QED BY <1>1, SizeInit, SizeNext, PTL DEF Spec

-----------------------------------------------------------------------------
(* Distance *)

AtDistance(k, l, kind) == IF kind = "timxceed" THEN k = l ELSE k <= l

(* A reply to the probe that is waited for comes from the right distance;    *)
(* replies to earlier probes, sent with whatever ttl, have smaller numbers.  *)
DistInv ==
    /\ seq \in Nat
    /\ \A r \in icmp : /\ r.seq \in Nat /\ r.seq <= seq
                       /\ pc = "wait" /\ r.seq = seq =>
                             AtDistance(r.from, ttl, r.kind)
    /\ \A a \in shown : AtDistance(a.from, a.line, a.kind)

(* Every step keeps it: an answer is shown only if it carries the number of  *)
(* the probe that was sent last, and the ttl moves only between two probes.  *)
LEMMA DistNext == DistInv /\ [Next]_vars => DistInv'
<1> SUFFICES ASSUME DistInv, [Next]_vars PROVE DistInv'
    OBVIOUS
<1> USE DEF DistInv, options, line, size
<1>1. CASE \/ ParseOptions \/ PacketSize \/ OpenSockets \/ SendTooBig
           \/ StartLine \/ OutOfHops \/ EndLine
    BY <1>1 DEF ParseOptions, PacketSize, OpenSockets, SendTooBig, StartLine,
                OutOfHops, EndLine
<1>2. CASE send_probe
  <2>1. PICK k \in 1 .. Len(path) : EndsAt(k) /\ icmp' = icmp \cup {Reply(k, seq')}
    BY <1>2 DEF send_probe
  <2>2. seq' = seq + 1 /\ UNCHANGED <<ttl, shown>>
    BY <1>2 DEF send_probe
  <2>3. Reply(k, seq').seq = seq' /\ Reply(k, seq').from = k
    BY DEF Reply
  <2>4. AtDistance(k, ttl, Reply(k, seq').kind)
    BY <2>1 DEF EndsAt, Reply, Kind, AtDistance
  <2>5. \A r \in icmp' : /\ r.seq \in Nat /\ r.seq <= seq'
                         /\ r.seq = seq' => AtDistance(r.from, ttl', r.kind)
    BY <2>1, <2>2, <2>3, <2>4
  <2> QED BY <2>2, <2>5
<1>3. CASE SendFails
    BY <1>3 DEF SendFails
<1>4. CASE TimeOut
    BY <1>4 DEF TimeOut, NextProbe
<1>5. ASSUME NEW r \in icmp, LateReply(r) PROVE DistInv'
    BY <1>5 DEF LateReply
<1>6. ASSUME NEW r \in icmp, Answer(r) \/ NeedFrag(r) PROVE DistInv'
  <2>1. /\ shown' = shown \cup {[line |-> ttl, from |-> r.from, kind |-> r.kind]}
        /\ icmp' = icmp \ {r} /\ seq' = seq /\ pc' # "wait"
        /\ pc = "wait" /\ r.seq = seq
    BY <1>6 DEF Answer, NeedFrag, packet_ok, NextProbe
  <2>2. AtDistance(r.from, ttl, r.kind)
    BY <2>1
  <2> QED BY <2>1, <2>2
<1>7. CASE UNCHANGED vars
    BY <1>7 DEF vars
<1> QED BY <1>1, <1>2, <1>3, <1>4, <1>5, <1>6, <1>7 DEF Next

(* Every answer is shown on the line of its distance, for every path and any *)
(* number of late replies: the check of the quoted port in packet_ok is      *)
(* enough to tell the probes apart.                                          *)
THEOREM ShownRight == Spec => []ShownAtDistance
<1>1. Init => DistInv
    BY DEF Init, DistInv
<1>2. DistInv => ShownAtDistance
    BY DEF DistInv, ShownAtDistance, AtDistance
<1> QED BY <1>1, <1>2, DistNext, PTL DEF Spec

-----------------------------------------------------------------------------
(* Path MTU *)

(* Where the size that is found is promised to be exact: every gateway       *)
(* reports the next MTU, and the interface's own is in the table.            *)
Reporting ==
    /\ version = "pmtu"
    /\ \A k \in 1 .. Len(path) : path[k].new
    /\ \E i \in 1 .. 17 : mtus[i] = path[1].mtu

Links == {path[k].mtu : k \in 1 .. Len(path)}

(* The size in use passes all links. *)
Passes == \A m \in Links : datalen <= m

(* The size passes the interface, and then is a link's MTU as soon as it was *)
(* reduced; or it does not, and the search has not gone past the             *)
(* interface's MTU yet.                                                      *)
Descending ==
    \/ datalen <= path[1].mtu /\ (mtuptr = 1 \/ datalen \in Links)
    \/ /\ datalen > path[1].mtu
       /\ \E i \in 1 .. 17 : mtus[i] = path[1].mtu /\ mtuptr <= i

(* What a reply to the probe that is waited for says about the size. *)
Tells(r) ==
    /\ r.kind = "needfrag" =>
          r.mtu \in Links /\ r.mtu < datalen /\ datalen <= path[1].mtu
    /\ r.kind = "port" => Passes

MtuInv ==
    /\ SizeInv
    /\ got_there \in Nat
    /\ pc \in {"options", "size"} => got_there = 0
    /\ Reporting =>
          /\ Descending
          /\ got_there > 0 => Passes
          /\ \A r \in icmp : pc = "wait" /\ r.seq = seq => Tells(r)

(* The interface's MTU is a link's. *)
LEMMA FirstLink ==
    ASSUME path \in Paths
    PROVE  path[1].mtu \in Links /\ path[1].mtu \in Nat /\ 1 \in 1 .. Len(path)
<1>1. 1 \in 1 .. Len(path)
    OBVIOUS
<1> QED BY <1>1, PathLinks DEF Links

(* Links are numbers. *)
LEMMA LinksAreNat == ASSUME path \in Paths PROVE Links \subseteq Nat
BY PathLinks DEF Links

(* The next entry of the table, for a size that the interface refuses: its   *)
(* MTU is not skipped.                                                       *)
LEMMA NextEntry ==
    ASSUME path \in Paths, NEW p \in 1 .. 17, mtuptr' = p + 1, datalen' = mtus[p],
           UNCHANGED path, NEW i \in 1 .. 17, mtus[i] = path[1].mtu, p <= i
    PROVE  Descending'
<1>1. CASE p = i
  <2>1. datalen' \in Links /\ datalen' = path[1].mtu /\ path[1].mtu \in Nat
    BY <1>1, FirstLink
  <2>2. Links' = Links
    BY DEF Links
  <2> QED BY <2>1, <2>2 DEF Descending
<1>2. CASE p < i
  <2>1. datalen' > path[1].mtu
    BY <1>2, TableDescends, FirstLink, Table
  <2>2. mtuptr' <= i
    BY <1>2
  <2> QED BY <2>1, <2>2 DEF Descending
<1> QED BY <1>1, <1>2

(* A probe that the interface lets through is told the next link's MTU, or   *)
(* that its size passes all links.                                           *)
LEMMA ReplyTells ==
    ASSUME SizeInv, Reporting, ~TooBig(1), NEW k \in 1 .. Len(path), EndsAt(k),
           NEW n
    PROVE  Tells(Reply(k, n))
<1>1. path \in Paths /\ datalen \in Int
    BY DEF SizeInv
<1>2. datalen <= path[1].mtu
    BY <1>1, FirstLink DEF TooBig, Reporting
<1>3. ASSUME Kind(k) = "needfrag"
      PROVE  Reply(k, n).mtu \in Links /\ Reply(k, n).mtu < datalen
  <2>1. k # Len(path) /\ k # ttl /\ path[k].up
    BY <1>3 DEF Kind
  <2>2. k + 1 \in 1 .. Len(path) /\ k < Len(path) /\ TooBig(k + 1)
    BY <1>1, <2>1, PathLinks DEF EndsAt
  <2>3. Reply(k, n).mtu = path[k + 1].mtu
    BY <2>2 DEF Reply, Reporting
  <2>4. path[k + 1].mtu \in Nat
    BY <1>1, <2>2, PathLinks
  <2> QED BY <1>1, <2>2, <2>3, <2>4 DEF TooBig, Links
<1>4. ASSUME Kind(k) = "port" PROVE Passes
  <2>1. k = Len(path) /\ Len(path) \in Nat
    BY <1>1, <1>4, PathLinks DEF Kind
  <2>2. ASSUME NEW j \in 1 .. Len(path) PROVE datalen <= path[j].mtu
    <3>1. CASE j = 1
      BY <1>2, <3>1
    <3>2. CASE j # 1
      <4>1. j - 1 \in 1 .. k - 1
        BY <2>1, <3>2
      <4>2. ~TooBig((j - 1) + 1)
        BY <4>1 DEF EndsAt
      <4>3. ~TooBig(j)
        BY <4>2
      <4>4. path[j].mtu \in Nat
        BY <1>1, PathLinks
      <4> QED BY <1>1, <4>3, <4>4 DEF TooBig, Reporting
    <3> QED BY <3>1, <3>2
  <2> QED BY <2>2 DEF Passes, Links
<1> QED BY <1>2, <1>3, <1>4 DEF Tells, Reply

(* Every step keeps it: only a size that some link refuses is replaced. *)
LEMMA MtuNext == MtuInv /\ [Next]_vars => MtuInv'
<1> SUFFICES ASSUME MtuInv, [Next]_vars PROVE MtuInv'
    OBVIOUS
<1> USE DEF options, line, size
<1>1. SizeInv' /\ SizeInv
    BY SizeNext DEF MtuInv
<1>2. path' = path /\ version' = version
    BY DEF Next, vars, ParseOptions, PacketSize, OpenSockets, SendTooBig,
           send_probe, SendFails, StartLine, OutOfHops, TimeOut, EndLine,
           LateReply, Answer, NeedFrag
<1>3. (Reporting' <=> Reporting) /\ Links' = Links
    BY <1>2 DEF Reporting, Links
<1>4. path \in Paths /\ datalen \in Int /\ mtuptr \in 1 .. 18
    BY <1>1 DEF SizeInv
<1>5. path[1].mtu \in Nat /\ Links \subseteq Nat /\ path[1].mtu \in Links
    BY <1>4, FirstLink, LinksAreNat
\* Steps that leave the size alone, and say nothing new about it.
<1>6. ASSUME UNCHANGED <<datalen, mtuptr>>,
             \/ pc' # "wait"
             \/ seq' = seq + 1 /\ icmp' = icmp
             \/ pc' = pc /\ seq' = seq /\ icmp' \subseteq icmp,
             got_there' \in {got_there, 0},
             pc' \in {"options", "size"} => got_there' = 0
      PROVE  MtuInv'
  <2>1. (Descending' <=> Descending) /\ (Passes' <=> Passes)
    BY <1>2, <1>3, <1>6 DEF Descending, Passes
  <2>2. \A r : Tells(r)' <=> Tells(r)
    BY <1>2, <1>3, <1>6, <2>1 DEF Tells
  <2>3. ASSUME Reporting, NEW r \in icmp', pc' = "wait", r.seq = seq' PROVE Tells(r)
    <3>1. CASE seq' = seq + 1 /\ icmp' = icmp
      BY <2>3, <3>1, <1>1 DEF SizeInv, RefusedIsBig
    <3>2. CASE pc' = pc /\ seq' = seq /\ icmp' \subseteq icmp
      BY <2>3, <3>2 DEF MtuInv
    <3> QED BY <1>6, <2>3, <3>1, <3>2
  <2>4. Reporting => Descending /\ (got_there' > 0 => Passes)
    BY <1>6 DEF MtuInv
  <2>5. got_there' \in Nat
    BY <1>6 DEF MtuInv
  <2> QED BY <1>1, <1>3, <1>6, <2>1, <2>2, <2>3, <2>4, <2>5 DEF MtuInv
<1>7. CASE ParseOptions
    BY <1>6, <1>7 DEF ParseOptions, MtuInv
<1>8. CASE PacketSize
  <2>1. /\ mtuptr = 1 /\ got_there' = 0
        /\ pc' \in {"exit", "sockets"}
    BY <1>8, <1>1 DEF PacketSize, MtuInv, SizeInv
  <2>2. Reporting => Descending'
    <3> HAVE Reporting
    <3>1. CASE mtuptr' = 1
      <4>1. datalen' \in Int
        BY <1>1 DEF SizeInv
      <4>2. \E i \in 1 .. 17 : mtus[i] = path[1].mtu /\ 1 <= i
        BY DEF Reporting
      <4> QED BY SMTT(30), <1>2, <1>5, <3>1, <4>1, <4>2 DEF Descending
    <3>2. CASE mtuptr' # 1
      <4>1. PICK a \in SizeArgs :
              LET d == mtus[1] - OPACKET
                  bad == d < 0 \/ d >= MAXPACKET - OPACKET
              IN /\ mtuptr' = 2
                 /\ datalen' = IF bad THEN d ELSE d + OPACKET
        BY <1>8, <2>1, <3>2 DEF PacketSize
      <4>2. mtus[1] = 17914
        BY DEF mtus
      <4>3. datalen' = mtus[1] /\ mtuptr' = 1 + 1
        BY <4>1, <4>2 DEF OPACKET, MAXPACKET
      <4>4. PICK i \in 1 .. 17 : mtus[i] = path[1].mtu
        BY DEF Reporting
      <4> QED BY <1>2, <1>4, <4>3, <4>4, NextEntry, 1 \in 1 .. 17, 1 <= i
    <3> QED BY <3>1, <3>2
  <2> QED BY <1>1, <1>3, <2>1, <2>2 DEF MtuInv
<1>9. CASE OpenSockets \/ StartLine \/ OutOfHops
    BY <1>6, <1>9 DEF OpenSockets, StartLine, OutOfHops, MtuInv
<1>10. CASE SendTooBig
  <2>1. /\ datalen' = mtus[mtuptr] /\ mtuptr' = mtuptr + 1
        /\ pc' = "send" /\ UNCHANGED <<got_there, icmp, seq>>
    BY <1>10 DEF SendTooBig
  <2>2. datalen > path[1].mtu
    BY <1>10 DEF SendTooBig, TooBig
  <2>3. ASSUME Reporting PROVE Descending' /\ ~(got_there > 0)
    <3>0. Descending
      BY <2>3 DEF MtuInv
    <3>1. PICK i \in 1 .. 17 : mtus[i] = path[1].mtu /\ mtuptr <= i
      BY SMTT(30), <1>4, <1>5, <2>2, <3>0 DEF Descending
    <3>2. Descending'
      <4>1. mtuptr \in 1 .. 17
        BY <1>4, <3>1
      <4> QED BY <1>2, <1>4, <2>1, <3>1, <4>1, NextEntry
    <3>3. ~Passes
      BY <1>4, <1>5, <2>2 DEF Passes
    <3> QED BY <2>3, <3>2, <3>3 DEF MtuInv
  <2> QED BY <1>1, <1>3, <2>1, <2>3 DEF MtuInv
<1>11. CASE send_probe
  <2>1. PICK k \in 1 .. Len(path) : EndsAt(k) /\ icmp' = icmp \cup {Reply(k, seq')}
    BY <1>11 DEF send_probe
  <2>2. /\ seq' = seq + 1 /\ ~TooBig(1) /\ pc' = "wait"
        /\ UNCHANGED <<datalen, mtuptr, got_there>>
    BY <1>11 DEF send_probe
  <2>3. (Descending' <=> Descending) /\ (Passes' <=> Passes)
    BY <1>2, <1>3, <2>2 DEF Descending, Passes
  <2>4. \A r : Tells(r)' <=> Tells(r)
    BY <1>2, <1>3, <2>2, <2>3 DEF Tells
  <2>5. Reporting => Tells(Reply(k, seq'))
    BY <1>1, <2>1, <2>2, ReplyTells
  <2>6. ASSUME Reporting, NEW r \in icmp', r.seq = seq' PROVE Tells(r)
    BY <1>1, <2>1, <2>2, <2>5, <2>6 DEF SizeInv, RefusedIsBig
  <2> QED BY <1>1, <1>3, <2>2, <2>3, <2>4, <2>6 DEF MtuInv
<1>12. CASE SendFails
    BY <1>6, <1>12 DEF SendFails, MtuInv
<1>13. CASE TimeOut
    BY <1>6, <1>13 DEF TimeOut, NextProbe, MtuInv
<1>14. CASE EndLine
    BY <1>6, <1>14 DEF EndLine, MtuInv
<1>15. ASSUME NEW r \in icmp, LateReply(r) PROVE MtuInv'
    BY <1>6, <1>15 DEF LateReply, MtuInv
<1>16. ASSUME NEW r \in icmp, Answer(r) PROVE MtuInv'
  <2>1. /\ pc = "wait" /\ r.seq = seq /\ pc' \in {"send", "endline"}
        /\ UNCHANGED <<datalen, mtuptr>>
        /\ got_there' = got_there + IF r.kind = "port" THEN 1 ELSE 0
    BY <1>16 DEF Answer, NextProbe, packet_ok
  <2>2. (Descending' <=> Descending) /\ (Passes' <=> Passes)
    BY <1>2, <1>3, <2>1 DEF Descending, Passes
  <2>3. Reporting => (got_there' > 0 => Passes)
    BY <2>1 DEF MtuInv, Tells
  <2> QED BY <1>1, <1>3, <2>1, <2>2, <2>3 DEF MtuInv
<1>17. ASSUME NEW r \in icmp, NeedFrag(r) PROVE MtuInv'
  <2>1. /\ pc = "wait" /\ r.seq = seq /\ r.kind = "needfrag" /\ pc' = "line"
        /\ got_there' = got_there /\ frag_err(r.mtu)
    BY <1>17 DEF NeedFrag, packet_ok
  <2>2. ASSUME Reporting PROVE Descending' /\ ~(got_there > 0)
    <3>1. r.mtu \in Links /\ r.mtu < datalen /\ datalen <= path[1].mtu
      BY <2>1, <2>2 DEF MtuInv, Tells
    <3>2. r.mtu \in Nat /\ r.mtu > 0
      <4>1. PICK k \in 1 .. Len(path) : r.mtu = path[k].mtu
        BY <3>1 DEF Links
      <4>2. path[k].mtu \in Nat /\ path[k].mtu >= MINMTU
        BY <1>4, PathLinks
      <4> QED BY <4>1, <4>2 DEF MINMTU
    <3>3. datalen' = r.mtu
      BY <2>1, <3>2 DEF frag_err
    <3>4. Descending'
      BY <1>2, <1>3, <1>4, <1>5, <3>1, <3>2, <3>3 DEF Descending
    <3>5. ~Passes
      BY <1>4, <3>1, <3>2 DEF Passes
    <3> QED BY <2>2, <3>4, <3>5 DEF MtuInv
  <2> QED BY <1>1, <1>3, <2>1, <2>2 DEF MtuInv
<1>18. CASE UNCHANGED vars
    BY <1>6, <1>18 DEF vars, MtuInv
<1> QED
    BY <1>7, <1>8, <1>9, <1>10, <1>11, <1>12, <1>13, <1>14, <1>15, <1>16,
       <1>17, <1>18 DEF Next

(* Once the host was reached, a size that was ever reduced is the path MTU,  *)
(* neither more nor less, for every path of reporting gateways behind an     *)
(* interface whose MTU is in the table: send_probe's walk through mtus[]     *)
(* does not skip the interface's entry, and frag_err takes what the gateway  *)
(* reports, which some link has and which is smaller than what was refused.  *)
THEOREM PathMtuExact == Spec => []ExactPathMtu
<1>1. Init => MtuInv
  <2> SUFFICES ASSUME Init PROVE MtuInv
    OBVIOUS
  <2>1. SizeInv
    BY SizeInit
  <2>2. path[1].mtu \in Nat
    BY FirstLink DEF Init
  <2>3. datalen = 0 /\ mtuptr = 1 /\ icmp = {} /\ got_there = 0
    BY DEF Init
  <2>4. Descending
    BY <2>2, <2>3 DEF Descending
  <2> QED BY <2>1, <2>3, <2>4 DEF MtuInv
<1>2. MtuInv => ExactPathMtu
  <2> SUFFICES ASSUME MtuInv, got_there > 0, Reporting, mtuptr > 1
               PROVE  datalen \in Links /\ Passes
    BY DEF ExactPathMtu, Reporting, Links, Passes
  <2>1. Passes /\ Descending
    BY DEF MtuInv
  <2>2. path \in Paths /\ datalen \in Int /\ mtuptr \in 1 .. 18
    BY DEF MtuInv, SizeInv
  <2>3. datalen <= path[1].mtu
    BY <2>1, <2>2, FirstLink DEF Passes
  <2> QED BY <2>1, <2>2, <2>3, FirstLink DEF Descending
<1> QED BY <1>1, <1>2, MtuNext, PTL DEF Spec
=============================================================================
