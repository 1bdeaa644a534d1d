--------------------------- MODULE SemanticMemory ---------------------------
(***************************************************************************)
(* The memory and its reasoning graph (services/semantic-memory.ts over     *)
(* tables of services/db.ts).  A turn is indexed chunk by chunk: an         *)
(* embedding is awaited, then the chunk is stored with its claim in several *)
(* writes that no transaction holds together.  A claim and its denial are   *)
(* two nodes, linked as a contradiction, which retrieval reports.           *)
(*                                                                          *)
(* A chunk is its claim and its polarity, what its text is normalised to.   *)
(* Distances and scores are left out, and the tables stay below the limits  *)
(* of the queries on them.                                                  *)
(***************************************************************************)
EXTENDS Naturals, Sequences, FiniteSets

CONSTANTS Turns,         \* turns being indexed; a slot is used again
          Claims,
          Contents,      \* the chunks of a turn
          MaxTurns, MaxFaults   \* bounds

VARIABLES memory,        \* vec_memory, with memory_provenance: the node of a row, and whether it is linked
          nodes,         \* reasoning_nodes
          edges,         \* reasoning_edges
          turn,          \* the chunks left of a turn, and the node of the last chunk stored
          begun, faults,
          cut            \* history: nodes whose last indexing was not completed
vars == <<memory, nodes, edges, turn, begun, faults, cut>>

Node == [claim : Claims, polarity : {"affirmed", "denied"}]
NoNode == [claim |-> "none", polarity |-> "affirmed"]
Idle == [chunks |-> <<>>, previous |-> NoNode]
Edge(from, to, relation) == [from |-> from, to |-> to, relation |-> relation]

Init == /\ memory = <<>> /\ nodes = {} /\ edges = {}
        /\ turn = [t \in Turns |-> Idle]
        /\ begun = 0 /\ faults = 0 /\ cut = {}

Begin(t) == /\ turn[t] = Idle /\ begun < MaxTurns
            /\ begun' = begun + 1
            /\ \E chunks \in Contents : turn' = [turn EXCEPT ![t] = [chunks |-> chunks, previous |-> NoNode]]
            /\ UNCHANGED <<memory, nodes, edges, faults, cut>>

After(t, node) == LET rest == Tail(turn[t].chunks)
                  IN turn' = [turn EXCEPT ![t] = IF rest = <<>> THEN Idle ELSE [chunks |-> rest, previous |-> node]]

\* No provider has an embedding for the chunk.
Skip(t) == /\ turn[t].chunks # <<>>
           /\ After(t, turn[t].previous)
           /\ UNCHANGED <<memory, nodes, edges, begun, faults, cut>>

(***************************************************************************)
(* The writes of a chunk, of which the first k are done: the memory, its    *)
(* node, their link, the edge from the chunk before, and both edges of each *)
(* node with the same claim.                                                *)
(***************************************************************************)

AllWrites == 6

Relation(a, b) == IF a.polarity = b.polarity THEN "supports" ELSE "contradicts"
Related(node) == {other \in nodes : other.claim = node.claim /\ other # node}

Derived(previous, node) == IF previous \in {NoNode, node} THEN {} ELSE {Edge(previous, node, "derived_from")}
EdgesOneWay(node, previous, k) ==
    (IF k >= 4 THEN Derived(previous, node) ELSE {})
    \cup {Edge(other, node, Relation(other, node)) : other \in IF k >= 5 THEN Related(node) ELSE {}}
Edges(node, previous, k) ==
    (IF k >= 4 THEN Derived(previous, node) ELSE {})
    \cup {Edge(other, node, Relation(other, node)) : other \in IF k >= 5 THEN Related(node) ELSE {}}
    \cup {Edge(node, other, Relation(other, node)) : other \in IF k >= 6 THEN Related(node) ELSE {}}

Remembered(node, k) == IF k >= 1 THEN Append(memory, [node |-> node, linked |-> k >= 3]) ELSE memory
WithNode(node, k) == IF k >= 2 THEN nodes \cup {node} ELSE nodes
Write(node, previous, k) ==
    /\ memory' = Remembered(node, k)
    /\ nodes' = WithNode(node, k)
    /\ edges' = edges \cup Edges(node, previous, k)
    /\ cut' = IF k = AllWrites THEN cut \ {node} ELSE cut \cup {node}

Store(t) == /\ turn[t].chunks # <<>>
            /\ Write(Head(turn[t].chunks), turn[t].previous, AllWrites)
            /\ After(t, Head(turn[t].chunks))
            /\ UNCHANGED <<begun, faults>>

\* A write fails and ends the turn, or the process dies and ends them all.
Interrupted(t) == /\ turn[t].chunks # <<>> /\ faults < MaxFaults
                  /\ faults' = faults + 1
                  /\ \E k \in 0..AllWrites - 1 : Write(Head(turn[t].chunks), turn[t].previous, k)
                  /\ \/ turn' = [turn EXCEPT ![t] = Idle]
                     \/ turn' = [u \in Turns |-> Idle]
                  /\ UNCHANGED begun

Next == \E t \in Turns : Begin(t) \/ Skip(t) \/ Store(t) \/ Interrupted(t)

Spec == Init /\ [][Next]_vars

(***************************************************************************)
(* Retrieval: of the rows found nearest, those whose node contradicts       *)
(* another, by the edges at the node and by those of a walk of depth two    *)
(* from all the nodes found.                                                *)
(***************************************************************************)

Touching(ns) == {e \in edges : e.from \in ns \/ e.to \in ns}
Ends(es) == {e.from : e \in es} \cup {e.to : e \in es}
Expansion(seeds) == Touching(seeds) \cup Touching(Ends(Touching(seeds)))
Provenance(rows) == {memory[r].node : r \in {q \in rows : memory[q].linked}}
Contradictions(es, node) == Cardinality({e \in es : node \in {e.from, e.to} /\ e.relation = "contradicts"})
Conflicts(rows) ==
    {r \in rows : /\ memory[r].linked
                  /\ Contradictions(edges, memory[r].node)
                     + Contradictions(Expansion(Provenance(rows)), memory[r].node) > 0}

(***************************************************************************)
(* Properties.                                                              *)
(***************************************************************************)

TypeOK == /\ \A r \in DOMAIN memory : memory[r].node \in Node /\ memory[r].linked \in BOOLEAN
          /\ nodes \subseteq Node /\ cut \subseteq Node
          /\ begun \in 0..MaxTurns /\ faults \in 0..MaxFaults

\* Whatever turns interleave, fail half-way or die: what a memory or an edge refers to is in the
\* graph, and a claim whose denial was indexed too, in whatever order and by whomever, is linked with
\* it both ways and reported as a conflict whenever it is found - and never without a denial.
MemorySound ==
    /\ \A r \in DOMAIN memory : memory[r].linked => memory[r].node \in nodes
    /\ Ends(edges) \subseteq nodes
    /\ \A n \in nodes \ cut : \A other \in Related(n) \ cut :
          {Edge(n, other, "contradicts"), Edge(other, n, "contradicts")} \subseteq edges
    /\ \A rows \in SUBSET DOMAIN memory : \A r \in rows :
          /\ r \in Conflicts(rows) => Related(memory[r].node) # {}
          /\ memory[r].linked /\ memory[r].node \notin cut /\ Related(memory[r].node) \ cut # {} => r \in Conflicts(rows)
=============================================================================
