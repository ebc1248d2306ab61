----------------------------- MODULE SourceSink -----------------------------
(***************************************************************************)
(* tcpipi/sock/sourcesink.c: a "source" client that writes nbuf buffers of *)
(* writelen bytes and closes, and a "sink" server that reads readlen bytes *)
(* at a time until end of file.  The TCP connection (external) holds up to *)
(* Cap bytes; write() puts bytes in as room appears, and read() returns    *)
(* what there is, up to what was asked for.  An urgent byte travels        *)
(* outside the stream and only makes a read() stop short of it.            *)
(***************************************************************************)
EXTENDS Integers

CONSTANTS nbuf, writelen, readlen,   \* options -n, -w, -r
          urgwrite,                  \* option -U
          Cap                        \* bytes the connection holds

VARIABLES
    i,          \* loop index of the source
    left,       \* bytes of the current write() still to go
    cpc,        \* "urg", "write" or "closed"
    stream,     \* bytes in the connection
    mark,       \* bytes in front of the urgent mark, or -1
    received,   \* bytes the sink has read
    spc         \* "read", "done" or "quit" (err_quit on a short read)

vars == <<i, left, cpc, stream, mark, received, spc>>

Init ==
    /\ i = 1 /\ left = 0
    /\ cpc = "urg"
    /\ stream = 0 /\ mark = -1 /\ received = 0
    /\ spc = "read"

(* The top of the loop body: an urgent byte before the urgwrite-th buffer. *)
Urgent ==
    /\ cpc = "urg" /\ i <= nbuf
    /\ mark' = IF urgwrite = i THEN stream ELSE mark
    /\ left' = writelen
    /\ cpc' = "write"
    /\ UNCHANGED <<i, stream, received, spc>>

(* Bytes of the write() enter the connection.  The first ones may do so even *)
(* after the sink has quit, before its reset arrives.                        *)
WriteSome ==
    /\ cpc = "write" /\ left > 0
    /\ \E n \in 1 .. left :
          /\ stream + n <= Cap
          /\ stream' = stream + n
          /\ left' = left - n
    /\ UNCHANGED <<i, cpc, mark, received, spc>>

(* Mutant: a write() of part of the buffer is taken for all of it. *)
WriteReturns_Partial ==
    /\ cpc = "write" /\ left < writelen
    /\ i' = i + 1
    /\ cpc' = "urg"
    /\ UNCHANGED <<left, stream, mark, received, spc>>

WriteReturns ==
    /\ cpc = "write" /\ left = 0
    /\ i' = i + 1
    /\ cpc' = "urg"
    /\ UNCHANGED <<left, stream, mark, received, spc>>

(* The sink has quit and its socket is closed: write(), or the send() of the *)
(* urgent byte, fails and err_sys ends the source.                           *)
WriteFails ==
    /\ spc = "quit"
    /\ \/ cpc = "write" /\ left > 0
       \/ cpc = "urg" /\ i <= nbuf /\ urgwrite = i
    /\ cpc' = "closed"
    /\ UNCHANGED <<i, left, stream, mark, received, spc>>

CloseSource ==
    /\ cpc = "urg" /\ i > nbuf
    /\ cpc' = "closed"
    /\ UNCHANGED <<i, left, stream, mark, received, spc>>

(* read() of n bytes, which quits unless n is readlen. *)
Read ==
    /\ spc = "read" /\ stream > 0
    /\ LET room == IF mark > 0 /\ mark < stream THEN mark ELSE stream
           n == IF room < readlen THEN room ELSE readlen
       IN /\ stream' = stream - n
          /\ mark' = IF mark > n THEN mark - n ELSE -1
          /\ received' = received + n
          /\ spc' = IF n = readlen THEN "read" ELSE "quit"
    /\ UNCHANGED <<i, left, cpc>>

ReadEof ==
    /\ spc = "read" /\ stream = 0 /\ cpc = "closed"
    /\ spc' = "done"
    /\ UNCHANGED <<i, left, cpc, stream, mark, received>>

Source == Urgent \/ WriteSome \/ WriteReturns \/ WriteFails \/ CloseSource
Sink == Read \/ ReadEof

Next == Source \/ Sink

Spec == Init /\ [][Next]_vars

-----------------------------------------------------------------------------
(* Properties *)

(* No byte is lost or made up: what the sink read, what is in the connection *)
(* and what is still to be written make up the buffers begun so far; and a   *)
(* sink that ends at end of file has read all nbuf of them.                  *)
BytesConserved ==
    /\ spc # "quit" => received + stream =
          writelen * (i - 1) + IF cpc = "write" THEN writelen - left ELSE 0
    /\ spc = "done" => received = nbuf * writelen
=============================================================================
