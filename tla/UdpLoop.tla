------------------------------ MODULE UdpLoop ------------------------------
(***************************************************************************)
(* tcpipi/sock/loop.c with -u: a client, which is connected to its server, *)
(* and a server, which is not unless it was given -f.  The server receives *)
(* with recvmsg(), as the 4.3BSD Reno build does.                          *)
(*                                                                         *)
(* The network (external) loses, repeats and reorders datagrams; one that  *)
(* arrives where nobody listens may come back as an ICMP error, which the  *)
(* next read() or write() of a connected socket reports.  Anybody may send *)
(* to the server, and the host the client talks to may send what it likes. *)
(***************************************************************************)
EXTENDS Integers, Sequences, FiniteSets

CONSTANTS MaxData,      \* bound on the datagrams of each side's stdin
          MaxForeign,   \* bound on the datagrams of others
          MaxInbox,     \* datagrams a socket's buffer holds
          Lengths,      \* lengths of datagrams tried
          readlen

Sides == {"client", "server"}
Nothing == [d |-> [id |-> 0, from |-> "nobody", to |-> "nobody", len |-> 0],
            len |-> 0, truncated |-> FALSE]
peer(s) == IF s = "client" THEN "server" ELSE "client"

VARIABLES
    connected,   \* sides whose socket is connected
    halfclose,   \* sides run with -h
    total,       \* datagrams each stdin yields
    sent,        \* datagrams each side handed to write()
    stdineof,    \* sides that saw end of file on stdin and go on
    rset, pc,    \* what select() found ready, and where each side is
    net,         \* datagrams on their way: [id, from, to, len]
    inbox,       \* datagrams in each socket's buffer
    refused,     \* sides with an ICMP error waiting
    foreign,     \* number of datagrams sent by others
    out          \* what each side just wrote to stdout: [d, len, truncated]

vars == <<connected, halfclose, total, sent, stdineof, rset, pc, net, inbox,
          refused, foreign, out>>
fixed == <<connected, halfclose, total>>

Init ==
    /\ connected \in {{"client"}, Sides}
    /\ halfclose \in SUBSET Sides
    /\ total \in [Sides -> 0 .. MaxData]
    /\ sent = [s \in Sides |-> 0]
    /\ stdineof = {} /\ net = {} /\ refused = {} /\ foreign = 0
    /\ rset = [s \in Sides |-> {}]
    /\ pc = [s \in Sides |-> "select"]
    /\ inbox = [s \in Sides |-> <<>>]
    /\ out = [s \in Sides |-> Nothing]

Closed(s) == pc[s] \in {"done", "dead"}

-----------------------------------------------------------------------------
(* The network *)

(* A datagram arrives where there is room for it, and may arrive again. *)
Deliver(d) ==
    /\ ~Closed(d.to) /\ Len(inbox[d.to]) < MaxInbox
    /\ inbox' = [inbox EXCEPT ![d.to] = Append(@, d)]
    /\ net' \in {net, net \ {d}}
    /\ UNCHANGED <<fixed, sent, stdineof, rset, pc, refused, foreign, out>>

(* A datagram is lost; where nobody listens its sender may be told. *)
Lose(d) ==
    /\ net' = net \ {d}
    /\ \/ UNCHANGED refused
       \/ /\ Closed(d.to) /\ d.from \in connected /\ ~Closed(d.from)
          /\ refused' = refused \cup {d.from}
    /\ UNCHANGED <<fixed, sent, stdineof, rset, pc, inbox, foreign, out>>

(* A datagram of another program, possibly an empty one. *)
Foreign(s, len) ==
    /\ foreign < MaxForeign /\ ~Closed(s) /\ Len(inbox[s]) < MaxInbox
    /\ s = "client" \/ s \notin connected
    /\ foreign' = foreign + 1
    /\ inbox' = [inbox EXCEPT ![s] =
          Append(@, [id |-> foreign', from |-> "foreign", to |-> s, len |-> len])]
    /\ UNCHANGED <<fixed, sent, stdineof, rset, pc, net, refused, out>>

-----------------------------------------------------------------------------
(* loop() *)

Select(s) ==
    /\ pc[s] = "select"
    /\ \E r \in SUBSET (IF s \in stdineof THEN {} ELSE {"stdin"}) :
          LET sock == IF inbox[s] # <<>> \/ s \in refused THEN {"sock"} ELSE {}
          IN r \cup sock # {} /\ rset' = [rset EXCEPT ![s] = r \cup sock]
    /\ pc' = [pc EXCEPT ![s] = "stdin"]
    /\ out' = [out EXCEPT ![s] = Nothing]
    /\ UNCHANGED <<fixed, sent, stdineof, net, inbox, refused, foreign>>

(* End of file on stdin: leave, or shutdown(), which may fail when the       *)
(* socket is not connected.                                                  *)
StdinEof(s) ==
    /\ pc[s] = "stdin" /\ "stdin" \in rset[s] /\ sent[s] = total[s]
    /\ \/ /\ s \notin halfclose
          /\ pc' = [pc EXCEPT ![s] = "close"] /\ UNCHANGED stdineof
       \/ /\ s \in halfclose
          /\ pc' = [pc EXCEPT ![s] = "select"] /\ stdineof' = stdineof \cup {s}
       \/ /\ s \in halfclose \ connected
          /\ pc' = [pc EXCEPT ![s] = "dead"] /\ UNCHANGED stdineof
    /\ rset' = [rset EXCEPT ![s] = {}]
    /\ UNCHANGED <<fixed, sent, net, inbox, refused, foreign, out>>

(* A datagram from stdin.  Without an address to send to, or after an ICMP   *)
(* error, write() fails and ends the program.                                *)
StdinWrite(s) ==
    /\ pc[s] = "stdin" /\ "stdin" \in rset[s] /\ sent[s] < total[s]
    /\ sent' = [sent EXCEPT ![s] = @ + 1]
    /\ IF s \in connected \ refused
       THEN /\ \E len \in Lengths \ {0} :
                  net' = net \cup {[id |-> sent'[s], from |-> s, to |-> peer(s), len |-> len]}
            /\ pc' = [pc EXCEPT ![s] = "sock"]
       ELSE pc' = [pc EXCEPT ![s] = "dead"] /\ UNCHANGED net
    /\ UNCHANGED <<fixed, stdineof, rset, inbox, refused, foreign, out>>

StdinNotReady(s) ==
    /\ pc[s] = "stdin" /\ "stdin" \notin rset[s]
    /\ pc' = [pc EXCEPT ![s] = "sock"]
    /\ UNCHANGED <<fixed, sent, stdineof, rset, net, inbox, refused, foreign, out>>

(* One datagram per read, cut to readlen. *)
Shown(s, d) ==
    [d |-> d, len |-> IF d.len < readlen THEN d.len ELSE readlen,
     truncated |-> s = "server" /\ d.len > readlen]

(* Mutant: an empty datagram is taken for end of file by the server too. *)
Recvmsg_Eof ==
    /\ pc["server"] = "sock" /\ "sock" \in rset["server"] \ refused
    /\ inbox["server"] # <<>>
    /\ inbox' = [inbox EXCEPT !["server"] = Tail(@)]
    /\ rset' = [rset EXCEPT !["server"] = {}]
    /\ LET d == Head(inbox["server"]) IN
          IF d.len = 0
          THEN pc' = [pc EXCEPT !["server"] = "close"] /\ UNCHANGED out
          ELSE /\ out' = [out EXCEPT !["server"] = Shown("server", d)]
               /\ pc' = [pc EXCEPT !["server"] = "select"]
    /\ UNCHANGED <<fixed, sent, stdineof, net, refused, foreign>>

(* The server: recvmsg(), the remark about truncation, and on to stdout;     *)
(* an empty datagram is shown like any other.                                *)
Recvmsg ==
    /\ pc["server"] = "sock" /\ "sock" \in rset["server"]
    /\ "server" \notin refused /\ inbox["server"] # <<>>
    /\ out' = [out EXCEPT !["server"] = Shown("server", Head(inbox["server"]))]
    /\ inbox' = [inbox EXCEPT !["server"] = Tail(@)]
    /\ pc' = [pc EXCEPT !["server"] = "select"]
    /\ rset' = [rset EXCEPT !["server"] = {}]
    /\ UNCHANGED <<fixed, sent, stdineof, net, refused, foreign>>

(* The client: read(); an empty datagram reads as end of file. *)
Read ==
    /\ pc["client"] = "sock" /\ "sock" \in rset["client"]
    /\ "client" \notin refused /\ inbox["client"] # <<>>
    /\ inbox' = [inbox EXCEPT !["client"] = Tail(@)]
    /\ rset' = [rset EXCEPT !["client"] = {}]
    /\ LET d == Head(inbox["client"]) IN
          IF d.len = 0
          THEN pc' = [pc EXCEPT !["client"] = "close"] /\ UNCHANGED out
          ELSE /\ out' = [out EXCEPT !["client"] = Shown("client", d)]
               /\ pc' = [pc EXCEPT !["client"] = "select"]
    /\ UNCHANGED <<fixed, sent, stdineof, net, refused, foreign>>

(* The ICMP error is reported first: err_sys. *)
ReadFails(s) ==
    /\ pc[s] = "sock" /\ "sock" \in rset[s] /\ s \in refused
    /\ pc' = [pc EXCEPT ![s] = "dead"]
    /\ UNCHANGED <<fixed, sent, stdineof, rset, net, inbox, refused, foreign, out>>

SockNotReady(s) ==
    /\ pc[s] = "sock" /\ "sock" \notin rset[s]
    /\ pc' = [pc EXCEPT ![s] = "select"]
    /\ rset' = [rset EXCEPT ![s] = {}]
    /\ UNCHANGED <<fixed, sent, stdineof, net, inbox, refused, foreign, out>>

Close(s) ==
    /\ pc[s] = "close"
    /\ pc' = [pc EXCEPT ![s] = "done"]
    /\ inbox' = [inbox EXCEPT ![s] = <<>>]
    /\ UNCHANGED <<fixed, sent, stdineof, rset, net, refused, foreign, out>>

Loop(s) == \/ Select(s) \/ StdinEof(s) \/ StdinWrite(s) \/ StdinNotReady(s)
           \/ ReadFails(s) \/ SockNotReady(s) \/ Close(s)
           \/ s = "server" /\ Recvmsg
           \/ s = "client" /\ Read

Next == \/ \E s \in Sides : Loop(s)
        \/ \E d \in net : Deliver(d) \/ Lose(d)
        \/ \E s \in Sides, len \in Lengths : Foreign(s, len)

Spec == Init /\ [][Next]_vars

-----------------------------------------------------------------------------
(* Properties *)

(* One datagram, one line of output: never two joined or one split, and the  *)
(* server says so when it shows less than it was sent.  The server is ended  *)
(* by its own stdin or by an error it was told of, never by a datagram, an   *)
(* empty one included.                                                       *)
DatagramsIntact ==
    /\ \A s \in {t \in Sides : out[t] # Nothing} : LET o == out[s] IN
          /\ o.d.to = s /\ o.d.from \in {peer(s), "foreign"}
          /\ o.d.from = peer(s) => o.d.id <= sent[peer(s)]
          /\ o.len = o.d.len \/ (o.len = readlen /\ (s = "server" => o.truncated))
    /\ pc["server"] \in {"close", "done"} => sent["server"] = total["server"]
    /\ pc["server"] = "dead" => \/ "server" \in refused
                                \/ "server" \notin connected
=============================================================================
