--------------------------- MODULE MCOrchestration ---------------------------
(***************************************************************************)
(* Instances of Orchestration for TLC: what the two calls may be given.    *)
(***************************************************************************)
EXTENDS Orchestration, TLC

Graph(nodes, edges) ==
    [nodes |-> nodes, deps |-> [n \in Nodes |-> {e[1] : e \in {x \in edges : x[2] = n}}]]

\* Every graph of three nodes, edges from a node to itself or to a missing
\* node (4) included in some, and larger graphs at the limits.
AnyGraph ==
    {[nodes |-> 1 .. 3, deps |-> [n \in Nodes |-> IF n \in 1 .. 3 THEN f[n] ELSE {}]] :
        f \in [1 .. 3 -> SUBSET (1 .. 3)]}

LimitGraphs ==
    {Graph({}, {}),
     Graph({1, 2}, {<<4, 2>>}),                               \* missing node
     Graph(1 .. 4, {<<1, 2>>, <<2, 3>>, <<3, 4>>}),           \* too deep
     Graph(1 .. 4, {<<1, 2>>, <<1, 3>>, <<2, 4>>, <<3, 4>>}), \* diamond
     Graph(1 .. 5, {})}                                       \* too many

\* #planDelegationRequest: decompose, risk-analysis and, for a long prompt,
\* synthesis.
GatewayGraphs ==
    {Graph({1, 2}, {<<1, 2>>}), Graph(1 .. 3, {<<1, 2>>, <<1, 3>>, <<2, 3>>})}

ShapeRequests  == "d1" :> (AnyGraph \cup LimitGraphs)
SharedRequests == "d1" :> {Graph(1 .. 3, {}), Graph(1 .. 3, {<<1, 3>>, <<2, 3>>})}
                  @@ "d2" :> GatewayGraphs

=============================================================================
