---------------------------- MODULE MCTraceroute ----------------------------
(***************************************************************************)
(* Paths of two gateways and the host: MTUs inside and outside the table,  *)
(* gateways that report the next MTU and gateways that do not, one that    *)
(* can not forward, and a last link that only the smallest size fits.      *)
(***************************************************************************)
EXTENDS Traceroute

Hop(m, n, u) == [mtu |-> m, new |-> n, up |-> u]

MCPaths ==
    {<<Hop(1500, n, TRUE), Hop(1400, o, TRUE), Hop(m, TRUE, TRUE)>> :
        n, o \in BOOLEAN, m \in {68, 1100}}
    \cup {<<Hop(1400, TRUE, FALSE), Hop(1400, TRUE, TRUE)>>,
          <<Hop(1500, FALSE, TRUE), Hop(296, TRUE, FALSE), Hop(296, TRUE, TRUE)>>}

MCSizeArgs == {NoArg, -1, 400, 65500}
=============================================================================
