---------------------------- MODULE IcmpClients ----------------------------
(***************************************************************************)
(* tcpipi/icmptime and tcpipi/icmpaddrmask: two clients that send one ICMP *)
(* request over a raw socket and then read every ICMP message the kernel   *)
(* receives until an alarm goes off.  icmptime ends on the first timestamp *)
(* reply, after it adjusted the local clock; icmpaddrmask counts the mask  *)
(* replies.  Neither looks at whom a reply is for: it prints what does not *)
(* match and goes on.  The signal handler may run between any two steps.   *)
(*                                                                         *)
(* Times are milliseconds since midnight.  Errors of sendto and recvfrom   *)
(* are printed and change nothing, so they are no steps of this model.     *)
(***************************************************************************)
EXTENDS Integers, Sequences

CONSTANTS
    Clocks,      \* times of day of this host and of the others
    Pids,        \* what getpid() may return
    MaxReplies   \* bound on the mask replies that arrive

VARIABLES
    client,      \* "time" or "mask"
    ipc,         \* "setup", "send", "wait", "count", "done", "exit0", "exit1"
    request,     \* the 16 bit words of the request sent
    tsorig,      \* originate timestamp
    adjusted,    \* the corrections given to adjtime, with the time they are from
    undefined,   \* procpack has returned without a value
    shown,       \* mask replies printed
    response     \* mask replies counted

vars == <<client, ipc, request, tsorig, adjusted, undefined, shown, response>>

Day == 24 * 60 * 60 * 1000
Word == 65536
ICMP_TSTAMP == 13
ICMP_MASKREQ == 17

Total(words) ==
    LET sum[k \in 0 .. Len(words)] == IF k = 0 THEN 0 ELSE sum[k - 1] + words[k]
    IN  sum[Len(words)]

(* Mutant: the carries are not added back. *)
in_cksum_NoCarry(words) == (Word - 1) - (Total(words) % Word)

(* The checksum of a request; its length is even, so there is no odd byte. *)
in_cksum(words) ==
    LET sum == Total(words)
        once == (sum \div Word) + (sum % Word)
        twice == once + (once \div Word)
    IN  (Word - 1) - (twice % Word)

Init ==
    /\ client \in {"time", "mask"}
    /\ ipc = "setup"
    /\ request = <<>> /\ tsorig = 0
    /\ adjusted = <<>> /\ undefined = FALSE
    /\ shown = 0 /\ response = 0

(* Arguments, host name, malloc, protocol and socket, any of which may fail, *)
(* then signal and alarm; the same for both.                                 *)
Setup(c) ==
    /\ ipc = "setup" /\ client = c
    /\ ipc' \in {"send", "exit1"}
    /\ UNCHANGED <<client, request, tsorig, adjusted, undefined, shown, response>>

TimeSetup == Setup("time")
MaskSetup == Setup("mask")

(* Header with a zero checksum, then the checksum over header and data, in   *)
(* words of a big-endian host; the sum is the same in either byte order.  A  *)
(* process id that is longer than a word is cut off.                         *)
Message(type, id, payload) ==
    LET words == <<type * 256, 0, id % Word, 12345>> \o payload
    IN  [words EXCEPT ![2] = in_cksum(words)]

Long(n) == <<n \div Word, n % Word>>

TimeSender ==
    /\ ipc = "send" /\ client = "time"
    /\ ipc' = "wait"
    /\ \E id \in Pids, t \in Clocks :
          /\ tsorig' = t
          /\ request' = Message(ICMP_TSTAMP, id, Long(t) \o Long(0) \o Long(0))
    /\ UNCHANGED <<client, adjusted, undefined, shown, response>>

MaskSender ==
    /\ ipc = "send" /\ client = "mask"
    /\ ipc' = "wait"
    /\ \E id \in Pids : request' = Message(ICMP_MASKREQ, id, Long(0))
    /\ UNCHANGED <<client, tsorig, adjusted, undefined, shown, response>>

(* A short packet: icmptime's procpack returns without a value, which main   *)
(* may take for 0.                                                           *)
ShortPacket ==
    /\ ipc = "wait" /\ client = "time"
    /\ undefined' = TRUE
    /\ ipc' \in {"wait", "done"}
    /\ UNCHANGED <<client, request, tsorig, adjusted, shown, response>>

(* C's / and % round towards zero. *)
Quot(a, b) == IF a >= 0 THEN a \div b ELSE -((-a) \div b)
Rem(a, b) == a - b * Quot(a, b)

(* Mutant: / rounds down while % rounds towards zero. *)
Delta_Floor(tsdiff) ==
    [tv_sec |-> tsdiff \div 1000, tv_usec |-> Rem(tsdiff, 1000) * 1000]

Delta(tsdiff) ==
    [tv_sec |-> Quot(tsdiff, 1000), tv_usec |-> Rem(tsdiff, 1000) * 1000]

(* A timestamp reply from any host, whoever asked for it. *)
TimeReply ==
    /\ ipc = "wait" /\ client = "time"
    /\ \E tsrecv \in Clocks :
          \/ /\ adjusted' = Append(adjusted, [from |-> tsrecv, tv |-> Delta(tsrecv - tsorig)])
             /\ ipc' = "done"
          \/ /\ ipc' = "exit1"                     \* adjtime fails
             /\ UNCHANGED adjusted
    /\ UNCHANGED <<client, request, tsorig, undefined, shown, response>>

MaskReply ==
    /\ ipc = "wait" /\ client = "mask" /\ shown < MaxReplies
    /\ shown' = shown + 1
    /\ ipc' = "count"
    /\ UNCHANGED <<client, request, tsorig, adjusted, undefined, response>>

CountReply ==
    /\ ipc = "count"
    /\ response' = response + 1
    /\ ipc' = "wait"
    /\ UNCHANGED <<client, request, tsorig, adjusted, undefined, shown>>

Exit ==
    /\ ipc = "done"
    /\ ipc' = "exit0"
    /\ UNCHANGED <<client, request, tsorig, adjusted, undefined, shown, response>>

(* The alarm was set before the request was sent. *)
sig_alrm ==
    /\ ipc \in {"send", "wait", "count", "done"}
    /\ ipc' = IF client = "mask" /\ response > 0 THEN "exit0" ELSE "exit1"
    /\ UNCHANGED <<client, request, tsorig, adjusted, undefined, shown, response>>

(* The two main functions, with their loops around recvfrom. *)
TimeMain == TimeSetup \/ TimeSender \/ ShortPacket \/ TimeReply \/ Exit
MaskMain == MaskSetup \/ MaskSender \/ MaskReply \/ CountReply

Next == TimeMain \/ MaskMain \/ sig_alrm

Spec == Init /\ [][Next]_vars

-----------------------------------------------------------------------------
(* Properties *)

(* The request verifies at its receiver: the ones' complement sum of all its *)
(* words, checksum included, is all ones.  in_cksum folds the carries twice, *)
(* which is enough only because the message is short.                        *)
RequestVerifies ==
    request # <<>> => Total(request) > 0 /\ Total(request) % (Word - 1) = 0

(* The amount given to adjtime takes the time of day at sending to the one   *)
(* in the reply: seconds and microseconds are one number with one sign.      *)
ClockCorrection ==
    \A k \in DOMAIN adjusted :
        LET sec == adjusted[k].tv.tv_sec
            usec == adjusted[k].tv.tv_usec
        IN  /\ -1000000 < usec /\ usec < 1000000
            /\ ~(sec > 0 /\ usec < 0) /\ ~(sec < 0 /\ usec > 0)
            /\ (tsorig + sec * 1000 + Quot(usec, 1000)) % Day = adjusted[k].from

(* What is sent, done and said, with an alarm that may go off anywhere.      *)
(* The request verifies and the clock is corrected rightly, once at most.    *)
(* icmptime returns 0 only if it set the clock or a short packet was taken   *)
(* for the reply.  icmpaddrmask returns 0 only if it printed an answer, and  *)
(* 1 only if it printed none or was interrupted in the course of its first.  *)
IcmpVerdict ==
    /\ RequestVerifies
    /\ Len(adjusted) <= 1 /\ ClockCorrection
    /\ client = "time" /\ ipc = "exit0" => adjusted # <<>> \/ undefined
    /\ client = "mask" /\ ipc = "exit0" => shown > 0
    /\ client = "mask" /\ ipc = "exit1" => shown <= 1
=============================================================================
