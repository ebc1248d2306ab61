------------------------------ MODULE SockLoop ------------------------------
(***************************************************************************)
(* tcpipi/sock/loop.c: two sock processes, each copying its stdin to the   *)
(* TCP connection between them and the connection to its stdout, driven by *)
(* select().  A unit of data is what one read() returns; the k-th unit of  *)
(* a stdin is the number k.  The TCP connection (external) holds up to     *)
(* Cap units in each direction; write() blocks when there is no room.      *)
(***************************************************************************)
EXTENDS Integers, Sequences

CONSTANTS MaxUnits,   \* bound on the units of a stdin
          Cap,        \* capacity of the connection, each way
          HalfClose   \* sets of sides tried that were given -h

Sides == {"client", "server"}
peer(s) == IF s = "client" THEN "server" ELSE "client"

VARIABLES
    halfclose,   \* sides run with -h
    total,       \* units of each stdin
    sent,        \* units read from stdin and handed to write()
    rset,        \* the descriptor set of each side, kept over its loop
    stdineof,    \* sides that saw end of file on stdin and go on
    pc,          \* where each side is
    chan,        \* units sent by each side and not yet read by its peer
    fin,         \* sides that closed their sending direction
    out          \* units each side wrote to stdout

vars == <<halfclose, total, sent, rset, stdineof, pc, chan, fin, out>>

Init ==
    /\ halfclose \in HalfClose
    /\ total \in [Sides -> 0 .. MaxUnits]
    /\ sent = [s \in Sides |-> 0]
    /\ rset = [s \in Sides |-> {}]
    /\ stdineof = {}
    /\ pc = [s \in Sides |-> "select"]
    /\ chan = [s \in Sides |-> <<>>]
    /\ fin = {}
    /\ out = [s \in Sides |-> <<>>]

Closed(s) == pc[s] \in {"done", "dead"}

(* FD_SET, then select(): stdin (a file or a terminal) may turn ready at any *)
(* time, the connection is ready when there is data or the peer's FIN.       *)
Select(s) ==
    /\ pc[s] = "select"
    /\ LET asked == rset[s] \cup {"sock"}
                            \cup IF s \in stdineof THEN {} ELSE {"stdin"}
           sock  == IF chan[peer(s)] # <<>> \/ peer(s) \in fin
                    THEN {"sock"} ELSE {}
       IN \E r \in SUBSET (asked \cap {"stdin"}) :
             /\ r \cup sock # {}
             /\ rset' = [rset EXCEPT ![s] = r \cup sock]
    /\ pc' = [pc EXCEPT ![s] = "stdin"]
    /\ UNCHANGED <<halfclose, total, sent, stdineof, chan, fin, out>>

(* Mutant: stdin is left in the set when it is at end of file. *)
StdinEof_NoClear(s) ==
    /\ pc[s] = "stdin" /\ "stdin" \in rset[s] /\ sent[s] = total[s]
    /\ IF s \in halfclose
       THEN /\ fin' = fin \cup {s}
            /\ stdineof' = stdineof \cup {s}
            /\ pc' = [pc EXCEPT ![s] = "select"]
       ELSE /\ pc' = [pc EXCEPT ![s] = "close"]
            /\ UNCHANGED <<fin, stdineof>>
    /\ UNCHANGED <<halfclose, total, sent, rset, chan, out>>

(* End of file on stdin: half close and go on with select(), or leave. *)
StdinEof(s) ==
    /\ pc[s] = "stdin" /\ "stdin" \in rset[s] /\ sent[s] = total[s]
    /\ IF s \in halfclose
       THEN /\ fin' = fin \cup {s}
            /\ rset' = [rset EXCEPT ![s] = @ \ {"stdin"}]
            /\ stdineof' = stdineof \cup {s}
            /\ pc' = [pc EXCEPT ![s] = "select"]
       ELSE /\ pc' = [pc EXCEPT ![s] = "close"]
            /\ UNCHANGED <<fin, rset, stdineof>>
    /\ UNCHANGED <<halfclose, total, sent, chan, out>>

StdinRead(s) ==
    /\ pc[s] = "stdin" /\ "stdin" \in rset[s] /\ sent[s] < total[s]
    /\ sent' = [sent EXCEPT ![s] = @ + 1]
    /\ pc' = [pc EXCEPT ![s] = "write"]
    /\ UNCHANGED <<halfclose, total, rset, stdineof, chan, fin, out>>

(* Mutant: what was read last is written although stdin was not ready. *)
StdinNotReady_Stale(s) ==
    /\ pc[s] = "stdin" /\ "stdin" \notin rset[s]
    /\ pc' = [pc EXCEPT ![s] = IF sent[s] > 0 THEN "write" ELSE "sock"]
    /\ UNCHANGED <<halfclose, total, sent, rset, stdineof, chan, fin, out>>

StdinNotReady(s) ==
    /\ pc[s] = "stdin" /\ "stdin" \notin rset[s]
    /\ pc' = [pc EXCEPT ![s] = "sock"]
    /\ UNCHANGED <<halfclose, total, sent, rset, stdineof, chan, fin, out>>

(* write() to the connection, which waits for room. *)
Write(s) ==
    /\ pc[s] = "write" /\ ~Closed(peer(s))
    /\ Len(chan[s]) < Cap
    /\ chan' = [chan EXCEPT ![s] = Append(@, sent[s])]
    /\ pc' = [pc EXCEPT ![s] = "sock"]
    /\ UNCHANGED <<halfclose, total, sent, rset, stdineof, fin, out>>

(* The peer is gone: the unit vanishes, or write() fails and err_sys ends    *)
(* this side too.                                                            *)
WriteToClosed(s) ==
    /\ pc[s] = "write" /\ Closed(peer(s))
    /\ \/ pc' = [pc EXCEPT ![s] = "sock"] /\ UNCHANGED fin
       \/ pc' = [pc EXCEPT ![s] = "dead"] /\ fin' = fin \cup {s}
    /\ UNCHANGED <<halfclose, total, sent, rset, stdineof, chan, out>>

(* read() from the connection, writen() to stdout. *)
SockRead(s) ==
    /\ pc[s] = "sock" /\ "sock" \in rset[s]
    /\ chan[peer(s)] # <<>>
    /\ out' = [out EXCEPT ![s] = Append(@, Head(chan[peer(s)]))]
    /\ chan' = [chan EXCEPT ![peer(s)] = Tail(@)]
    /\ pc' = [pc EXCEPT ![s] = "select"]
    /\ UNCHANGED <<halfclose, total, sent, rset, stdineof, fin>>

(* End of file on the connection, or a reset if the peer closed with data of *)
(* ours unread.                                                              *)
SockEof(s) ==
    /\ pc[s] = "sock" /\ "sock" \in rset[s]
    /\ chan[peer(s)] = <<>>
    /\ \/ pc' = [pc EXCEPT ![s] = "close"] /\ UNCHANGED fin
       \/ /\ Closed(peer(s)) /\ chan[s] # <<>>
          /\ pc' = [pc EXCEPT ![s] = "dead"]
          /\ fin' = fin \cup {s}
    /\ UNCHANGED <<halfclose, total, sent, rset, stdineof, chan, out>>

SockNotReady(s) ==
    /\ pc[s] = "sock" /\ "sock" \notin rset[s]
    /\ pc' = [pc EXCEPT ![s] = "select"]
    /\ UNCHANGED <<halfclose, total, sent, rset, stdineof, chan, fin, out>>

Close(s) ==
    /\ pc[s] = "close"
    /\ pc' = [pc EXCEPT ![s] = "done"]
    /\ fin' = fin \cup {s}
    /\ UNCHANGED <<halfclose, total, sent, rset, stdineof, chan, out>>

Side(s) == \/ Select(s) \/ StdinEof(s) \/ StdinRead(s) \/ StdinNotReady(s)
           \/ Write(s) \/ WriteToClosed(s) \/ SockRead(s) \/ SockEof(s)
           \/ SockNotReady(s) \/ Close(s)

Next == \E s \in Sides : Side(s)

(* Both processes are scheduled, and stdin delivers in the end.              *)
Spec == Init /\ [][Next]_vars /\ \A s \in Sides : WF_vars(Side(s))

-----------------------------------------------------------------------------
(* Properties *)

Complete(s) == out[s] = [k \in 1 .. total[peer(s)] |-> k]

(* What reaches stdout is a prefix of the other side's stdin: units are not  *)
(* reordered, repeated or skipped, and all that was sent is in transit.      *)
(* A side with -h that closes has written everything its peer ever sent, and *)
(* with -h on both sides neither ends with an error: nobody writes to a      *)
(* connection the other has closed.                                          *)
CopiesInOrder ==
    /\ \A s \in Sides : LET got == out[s] \o chan[peer(s)] IN
          /\ \A k \in 1 .. Len(got) : got[k] = k
          /\ Len(got) <= sent[peer(s)]
    /\ \A s \in halfclose :
          pc[s] = "done" => Len(out[s]) = sent[peer(s)]
    /\ halfclose = Sides => \A s \in Sides : pc[s] # "dead"

(* With -h on both sides, and as much room in the connection as there is     *)
(* data, both sides end, and the side that ran out of input first has had    *)
(* its stdin copied completely.                                              *)
HalfCloseEnds ==
    (halfclose = Sides /\ MaxUnits <= Cap) ~>
        /\ \A s \in Sides : pc[s] = "done"
        /\ \E s \in Sides : Complete(s)
=============================================================================
