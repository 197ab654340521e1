------------------------------ MODULE GraphSearch -----------------------------
(***************************************************************************)
(* bfsSteps, dfsSteps and dijkstraSteps of algorithms/graph.ts on a graph  *)
(* whose nodes are 1 .. nodes and whose edges are in the order listed.     *)
(* One action takes a node off the frontier, or looks at one edge for it.  *)
(***************************************************************************)
EXTENDS StepGenerator, FiniteSets

VARIABLES
  nodes,      \* how many nodes
  edges,      \* a sequence of edges; the search starts at node 1
  visited,    \* the nodes visited, in order
  frontier,   \* BFS's queue or DFS's stack
  distances,  \* Dijkstra's distances, of the nodes that have one: Infinity is none
  current,    \* the node whose edges are looked at
  edge        \* how far in the list of edges

search == <<nodes, edges, visited, frontier, distances, current, edge>>

SearchIdle ==
  /\ nodes = 0 /\ edges = <<>> /\ visited = <<>> /\ frontier = <<>>
  /\ distances = <<>> /\ current = 0 /\ edge = 0

Unvisited == 1 .. nodes \ ToSet(visited)

StartSearch ==
  /\ algo \in {"bfs", "dfs", "dijkstra"}
  /\ pc = "start"
  /\ pc' = "search"
  /\ visited' = IF algo = "bfs" THEN <<1>> ELSE <<>>
  /\ frontier' = IF algo = "dijkstra" THEN <<>> ELSE <<1>>
  /\ distances' = IF algo = "dijkstra" THEN [n \in {1} |-> 0] ELSE <<>>
  /\ Yield(1)
  /\ UNCHANGED <<algo, values, nodes, edges, current, edge>>

\* BFS marks a node visited when it is discovered.
BfsVisit ==
  /\ algo = "bfs" /\ pc = "search"
  /\ frontier # <<>>
  /\ current' = Head(frontier) /\ frontier' = Tail(frontier)
  /\ edge' = 0 /\ pc' = "edges"
  /\ Yield(1)
  /\ UNCHANGED <<algo, values, nodes, edges, visited, distances>>

BfsEdge ==
  /\ algo = "bfs" /\ pc = "edges"
  /\ edge < Len(edges)
  /\ edge' = edge + 1
  /\ LET e == At(edges, edge)
     IN IF e.from = current /\ ~Contains(visited, e.to)
          THEN /\ visited' = Append(visited, e.to)
               /\ frontier' = Append(frontier, e.to)
               /\ Yield(1)
          ELSE UNCHANGED <<visited, frontier, steps>>
  /\ UNCHANGED <<algo, values, pc, nodes, edges, distances, current>>

\* DFS marks a node visited when it is popped, and pushes its neighbours in
\* reverse; a node can be pushed more than once.
DfsVisit ==
  /\ algo = "dfs" /\ pc = "search"
  /\ frontier # <<>>
  /\ frontier' = Front(frontier)
  /\ IF Contains(visited, Last(frontier)) THEN UNCHANGED <<pc, visited, current, edge>>
     ELSE /\ visited' = Append(visited, Last(frontier))
          /\ current' = Last(frontier)
          /\ edge' = Len(edges) /\ pc' = "edges"
  /\ Yield(1)
  /\ UNCHANGED <<algo, values, nodes, edges, distances>>

\* Mutant: neighbours are pushed as listed, so that the last is taken first.
NextAsListed == edges[Len(edges) + 1 - edge]

NextToPush == edges[edge]

DfsEdge ==
  /\ algo = "dfs" /\ pc = "edges"
  /\ edge > 0
  /\ edge' = edge - 1
  /\ frontier' = IF NextToPush.from = current /\ ~Contains(visited, NextToPush.to)
                   THEN Append(frontier, NextToPush.to) ELSE frontier
  /\ UNCHANGED <<algo, values, pc, steps, nodes, edges, visited, distances, current>>

\* Mutant: any node that was reached will do, the first listed.
NearestFirstReached ==
  CHOOSE n \in Unvisited \cap DOMAIN distances :
    \A m \in Unvisited \cap DOMAIN distances : n <= m

\* The unvisited node at the smallest distance, the first listed among equals.
Reached == Unvisited \cap DOMAIN distances
Nearest ==
  CHOOSE n \in Reached :
    \A m \in Reached : distances[n] < distances[m] \/ (distances[n] = distances[m] /\ n <= m)

DijkstraVisit ==
  /\ algo = "dijkstra" /\ pc = "search"
  /\ Reached # {}
  /\ current' = Nearest /\ visited' = Append(visited, Nearest)
  /\ edge' = 0 /\ pc' = "edges"
  /\ Yield(1)
  /\ UNCHANGED <<algo, values, nodes, edges, frontier, distances>>

DijkstraEdge ==
  /\ algo = "dijkstra" /\ pc = "edges"
  /\ edge < Len(edges)
  /\ edge' = edge + 1
  /\ LET e == At(edges, edge)
         new == distances[current] + e.weight
     IN IF /\ e.from = current /\ e.to \in Unvisited
           /\ e.to \in DOMAIN distances => new < distances[e.to]
          THEN /\ distances' = [n \in DOMAIN distances \cup {e.to} |->
                                  IF n = e.to THEN new ELSE distances[n]]
               /\ Yield(1)
          ELSE UNCHANGED <<distances, steps>>
  /\ UNCHANGED <<algo, values, pc, nodes, edges, visited, frontier, current>>

\* All edges looked at; only DFS shows what it has pushed.
EdgesDone ==
  /\ pc = "edges"
  /\ edge = IF algo = "dfs" THEN 0 ELSE Len(edges)
  /\ pc' = "search"
  /\ Yield(IF algo = "dfs" THEN 1 ELSE 0)
  /\ UNCHANGED <<algo, values, search>>

SearchDone ==
  /\ algo \in {"bfs", "dfs", "dijkstra"} /\ pc = "search"
  /\ IF algo = "dijkstra" THEN Reached = {} ELSE frontier = <<>>
  /\ pc' = "done"
  /\ Yield(1)
  /\ UNCHANGED <<algo, values, search>>

GraphNext ==
  \/ StartSearch \/ BfsVisit \/ BfsEdge \/ DfsVisit \/ DfsEdge
  \/ DijkstraVisit \/ DijkstraEdge \/ EdgesDone \/ SearchDone

-------------------------------------------------------------------------------
(* Properties *)

\* Reference: where walks of at most n edges from node 1 lead, and their lengths; an
\* edge is as long as its weight for Dijkstra, and one long otherwise. No node needs
\* a walk of more edges than there are nodes.
Longer(walk, e, weighted) ==
  [at |-> e.to, length |-> walk.length + IF weighted THEN e.weight ELSE 1]
Extended(walks, es, weighted) ==
  walks \cup {Longer(p[1], es[p[2]], weighted) :
                p \in {q \in walks \X DOMAIN es : q[1].at = es[q[2]].from}}
WalksOf(es, weighted, n) ==
  LET walks[m \in 0 .. n] ==
        IF m = 0 THEN {[at |-> 1, length |-> 0]} ELSE Extended(walks[m - 1], es, weighted)
  IN walks
Walks == WalksOf(edges, algo = "dijkstra", nodes)[nodes]

Reachable == {w.at : w \in Walks}

\* Reference: a depth-first order. After the nodes seen comes the first listed
\* unseen neighbour of the one seen last that has any, which is where the recursive
\* search that the code is said to match (graph.ts:192-193) goes on.
OpenEdges(es, seen, n) == {x \in DOMAIN es : es[x].from = n /\ ~Contains(seen, es[x].to)}
GoesOnTo(es, seen, n) ==
  \E y \in DOMAIN seen : \E x \in OpenEdges(es, seen, seen[y]) :
    /\ es[x].to = n
    /\ \A o \in OpenEdges(es, seen, seen[y]) : x <= o
    /\ \A o \in DOMAIN seen : o > y => OpenEdges(es, seen, seen[o]) = {}
DepthFirst(es, order) ==
  \A z \in DOMAIN order :
    IF z = 1 THEN order[z] = 1 ELSE GoesOnTo(es, SubSeq(order, 1, z - 1), order[z])

\* The traversals keep to their order at every snapshot: BFS visits by number of
\* edges from the start (a walk to a later node is never shorter than all those to
\* an earlier one), DFS depth first, and both end with exactly the nodes that can be
\* reached, each once.
TraversalsKeepOrder ==
  /\ algo = "bfs" =>
       \A x, y \in DOMAIN visited : x <= y =>
         LET to(z) == {w \in Walks : w.at = visited[z]}
         IN \A w \in to(y) : \E sooner \in to(x) : sooner.length <= w.length
  /\ algo = "dfs" => DepthFirst(edges, visited)
  /\ algo \in {"bfs", "dfs"} /\ pc = "done" =>
       ToSet(visited) = Reachable /\ Len(visited) = Cardinality(Reachable)

\* A distance is final once its node is visited, which the snapshot announces as
\* confirmed: no walk is shorter. It is the length of a walk, as those not final yet
\* are, and at the end nothing reachable is left out.
SettledDistancesAreFinal ==
  algo = "dijkstra" /\ pc # "start" =>
    /\ \A n \in DOMAIN distances : [at |-> n, length |-> distances[n]] \in Walks
    /\ \A n \in ToSet(visited) : n \in DOMAIN distances /\
         \A w \in Walks : w.at = n => distances[n] <= w.length
    /\ pc = "done" => ToSet(visited) = Reachable /\ Len(visited) = Cardinality(Reachable)

===============================================================================
