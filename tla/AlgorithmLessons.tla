--------------------------- MODULE AlgorithmLessons ---------------------------
(***************************************************************************)
(* The algorithm visualiser as a whole: one of its generators on one of    *)
(* the inputs, or the player. The page runs a generator to its end before  *)
(* anything else happens (Array.from in a memo), and afterwards needs only *)
(* its snapshots, so the two do not meet in between.                       *)
(***************************************************************************)
EXTENDS Sorting, GraphSearch, Structures, AlgorithmPlayer

CONSTANTS
  Arrays,      \* bound: the arrays to sort, and to make heaps and trees of
  Graphs,      \* bound: the graphs, each [nodes, edges], to traverse
  Weighted,    \* bound: those for Dijkstra
  Tables       \* bound: the hash tables, each [values, size]

visualiser == <<generator, sorting, search, structure, player>>

\* The player before it has been used.
PlayerIdle ==
  /\ length = 2 /\ currentStepIdx = 0 /\ isPlaying = FALSE /\ speed = 1
  /\ reselected = FALSE /\ saw = <<FALSE, 2, 1>> /\ timers = <<>>

NoHash == size = 1 /\ strategy = "chaining"

GeneratorInit ==
  /\ pc = "start" /\ steps = 0
  /\ PlayerIdle
  /\ SortingIdle
  /\ StructureIdle
  /\ \/ /\ algo \in {"bubbleSort", "mergeSort", "heapInsert", "heapExtract",
                     "bstInsert", "bstInOrder", "bstSearch"}
        /\ values \in Arrays
        /\ target \in IF algo = "bstSearch" THEN 1 .. 3 ELSE {0}
        /\ NoHash /\ SearchIdle
     \/ /\ algo \in {"bfs", "dfs", "dijkstra"}
        /\ \E g \in IF algo = "dijkstra" THEN Weighted ELSE Graphs :
             nodes = g.nodes /\ edges = g.edges
        /\ visited = <<>> /\ frontier = <<>> /\ distances = <<>>
        /\ current = 0 /\ edge = 0
        /\ values = <<>> /\ target = 0 /\ NoHash
     \/ /\ algo = "hashTable"
        /\ strategy \in Strategies
        /\ \E t \in Tables : values = t.values /\ size = t.size
        /\ target = 0 /\ SearchIdle

VisualiserInit ==
  \/ GeneratorInit
  \/ /\ PlayerInit
     /\ algo = "" /\ values = <<>> /\ pc = "idle" /\ steps = 0
     /\ SortingIdle /\ SearchIdle /\ StructureIdle /\ NoHash /\ target = 0

Generate ==
  /\ pc # "idle"
  /\ \/ SortingNext /\ UNCHANGED <<search, structure>>
     \/ GraphNext /\ UNCHANGED <<sorting, structure>>
     \/ StructureNext /\ UNCHANGED <<sorting, search>>
  /\ UNCHANGED player

Play == pc = "idle" /\ PlayerNext /\ UNCHANGED <<generator, sorting, search, structure>>

VisualiserNext == Generate \/ Play

VisualiserSpec == VisualiserInit /\ [][VisualiserNext]_visualiser

===============================================================================
