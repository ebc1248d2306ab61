----------------------------- MODULE CdpWalker -----------------------------
(***************************************************************************)
(* hpcdpdisco.py: ask each host of the command line for its CDP cache over *)
(* SNMP, and list every link once, although both ends report it.           *)
(*                                                                         *)
(* The hosts and their agents are external.  A link is <<h, i, g, j>>:     *)
(* port i of host h, port j of host g; its ends may be on one host.  An    *)
(* agent answers a walk column by column, and within a column in the order *)
(* of ports and neighbours; a walk or a get may fail.  Addresses, which    *)
(* are only stored, are left out.                                          *)
(***************************************************************************)
EXTENDS Integers, Sequences, Functions

CONSTANTS Networks,   \* sets of links tried
          Hosts,      \* numbers, as are the ports
          MaxArgs     \* bound on the hosts of the command line

VARIABLES
    links,       \* the network
    args,        \* hosts still to be asked
    asked,       \* hosts that answered
    rows,        \* of the port column, still to be read
    deviceid,    \* what the walk said about each ifindex
    rel,         \* neighbor_relations of the host that is asked
    relations,   \* of all of them
    wpc          \* "host", "rows", "merge", "printed" or "crashed"

vars == <<links, args, asked, rows, deviceid, rel, relations, wpc>>

Mirror(r) == <<r[3], r[4], r[1], r[2]>>

Init ==
    /\ links \in Networks
    /\ args \in UNION {[1 .. n -> Hosts] : n \in 1 .. MaxArgs}
    /\ asked = {} /\ rows = {} /\ deviceid = <<>>
    /\ rel = <<>> /\ relations = <<>>
    /\ wpc = "host"

-----------------------------------------------------------------------------
(* The agent of host h: <<own port, neighbour, its port>> of each link end *)

Ends(h) == LET both == links \cup {Mirror(k) : k \in links}
           IN {<<k[2], k[3], k[4]>> : k \in {e \in both : e[1] = h}}

Before(p, q) == \/ p[1] < q[1]
                \/ p[1] = q[1] /\ p[2] < q[2]
                \/ p[1] = q[1] /\ p[2] = q[2] /\ p[3] < q[3]

LastOn(h, i, e) ==
    /\ e \in Ends(h) /\ e[1] = i
    /\ \A o \in Ends(h) : o[1] = i => o = e \/ Before(o, e)

-----------------------------------------------------------------------------
(* get_cdp_neighbors *)

(* The walk fails or finds nothing: the host is skipped. *)
SkipHost ==
    /\ wpc = "host" /\ args # <<>>
    /\ args' = Tail(args)
    /\ UNCHANGED <<links, asked, rows, deviceid, rel, relations, wpc>>

(* The device column is read before the port column: the last device that    *)
(* was seen on a port is what the port is taken to lead to.                  *)
WalkHost ==
    /\ wpc = "host" /\ args # <<>> /\ Ends(Head(args)) # {}
    /\ rows' = Ends(Head(args))
    /\ deviceid' \in {d \in [{e[1] : e \in rows'} -> Hosts] :
                        \A i \in DOMAIN d : \E e \in rows' :
                           LastOn(Head(args), i, e) /\ d[i] = e[2]}
    /\ asked' = asked \cup {Head(args)}
    /\ rel' = <<>>
    /\ wpc' = "rows"
    /\ UNCHANGED <<links, args, relations>>

(* Mutant: a relation is known only if it was reported from the same end. *)
AppendNew_OneEnd(list, r) == IF r \in Range(list) THEN list ELSE Append(list, r)

(* Appended unless it is there already, from either end. *)
AppendNew(list, r) ==
    IF r \in Range(list) \/ Mirror(r) \in Range(list) THEN list ELSE Append(list, r)

(* sysName and ifDescr are asked for; without an answer the result is None,  *)
(* and indexing it ends the program.                                         *)
PortRow ==
    /\ wpc = "rows"
    /\ \E e \in rows :
          /\ \A o \in rows \ {e} : Before(e, o)
          /\ rel' = AppendNew(rel, <<Head(args), e[1], deviceid[e[1]], e[3]>>)
          /\ rows' = rows \ {e}
    /\ UNCHANGED <<links, args, asked, deviceid, relations, wpc>>

GetFails ==
    /\ wpc = "rows" /\ rows # {}
    /\ wpc' = "crashed"
    /\ UNCHANGED <<links, args, asked, rows, deviceid, rel, relations>>

LastRow ==
    /\ wpc = "rows" /\ rows = {}
    /\ wpc' = "merge"
    /\ UNCHANGED <<links, args, asked, rows, deviceid, rel, relations>>

(* The relations after each new one is looked for. *)
Merged ==
    LET after[k \in 0 .. Len(rel)] ==
            IF k = 0 THEN relations ELSE AppendNew(after[k - 1], rel[k])
    IN  after[Len(rel)]

merge_relations ==
    /\ wpc = "merge"
    /\ relations' = Merged
    /\ args' = Tail(args)
    /\ rel' = <<>> /\ deviceid' = <<>>
    /\ wpc' = "host"
    /\ UNCHANGED <<links, asked, rows>>

print_relations ==
    /\ wpc = "host" /\ args = <<>>
    /\ wpc' = "printed"
    /\ UNCHANGED <<links, args, asked, rows, deviceid, rel, relations>>

Next == SkipHost \/ WalkHost \/ PortRow \/ GetFails \/ LastRow
        \/ merge_relations \/ print_relations

Spec == Init /\ [][Next]_vars

-----------------------------------------------------------------------------
(* Properties *)

(* No port of host h has more than one neighbour: there is no hub. *)
PointToPoint(h) == \A p, q \in Ends(h) : p[1] = q[1] => p = q

(* No link is listed twice, from whichever ends and however often its hosts  *)
(* were asked.  Where ports have one neighbour each, the list holds exactly  *)
(* the links with an end at a host that answered, whatever the order.        *)
LinksOnce ==
    /\ \A a, b \in 1 .. Len(relations) :
          a # b => relations[a] # relations[b] /\ relations[a] # Mirror(relations[b])
    /\ wpc = "printed" /\ (\A h \in Hosts : PointToPoint(h)) =>
          {{r, Mirror(r)} : r \in Range(relations)}
             = {{k, Mirror(k)} : k \in {e \in links : {e[1], e[3]} \cap asked # {}}}
=============================================================================
