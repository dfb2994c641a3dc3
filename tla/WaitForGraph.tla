---------------------------- MODULE WaitForGraph -----------------------------
(***************************************************************************)
(* src/concurrency/WaitForGraph.cpp: who waits for whom, and the search    *)
(* for a cycle.  hasCycle is one call, taken here step by step: a step     *)
(* enters a node, looks at one neighbour of the node on top of the call    *)
(* stack, or returns from it.  Edges change only between calls.            *)
(***************************************************************************)
EXTENDS Integers, Sequences

CONSTANT Node       \* transaction ids

ASSUME NodeAssumption == Node \subseteq Nat

VARIABLES
    graph,      \* the edges of every node, as far as graph_ has a key for it
    keys,       \* the keys of graph_
    phase,      \* "ready", or "searching" while hasCycle runs
    roots,      \* the keys hasCycle's loop has still to look at
    state,      \* 0: unvisited, 1: visiting, 2: visited
    stack,      \* the nodes detectCycleDFS is in, outermost first
    rest,       \* for a node on the stack, the neighbours still to look at
    result      \* the last answer, "none" if an edge has changed since

searchVars == <<phase, roots, state, stack, rest>>
vars == <<graph, keys, searchVars, result>>

GraphTypeOK ==
    /\ graph \in [Node -> SUBSET Node]
    /\ keys \in SUBSET Node
    /\ \A n \in Node \ keys : graph[n] = {}
    /\ phase \in {"ready", "searching"}
    /\ roots \in SUBSET keys
    /\ state \in [Node -> 0..2]
    /\ stack \in Seq(Node)
    /\ rest \in [Node -> SUBSET Node]
    /\ result \in {"none", "cycle", "acyclic"}

-----------------------------------------------------------------------------

GraphInit ==
    /\ graph = [n \in Node |-> {}]
    /\ keys = {}
    /\ phase = "ready"
    /\ roots = {}
    /\ state = [n \in Node |-> 0]
    /\ stack = << >>
    /\ rest = [n \in Node |-> {}]
    /\ result = "none"

addEdge(from_txn, to_txn) ==
    /\ phase = "ready"
    /\ graph' = [graph EXCEPT ![from_txn] = @ \cup {to_txn}]
    /\ keys' = keys \cup {from_txn}
    /\ result' = "none"
    /\ UNCHANGED searchVars

\* The key stays, even if it was the last edge.
removeEdge(from_txn, to_txn) ==
    /\ phase = "ready"
    /\ from_txn \in keys
    /\ graph' = [graph EXCEPT ![from_txn] = @ \ {to_txn}]
    /\ result' = "none"
    /\ UNCHANGED <<keys, searchVars>>

\* hasCycle is called: nothing is visited yet.
hasCycle ==
    /\ phase = "ready"
    /\ result = "none"
    /\ phase' = "searching"
    /\ roots' = keys
    /\ UNCHANGED <<graph, keys, state, stack, rest, result>>

\* hasCycle returns; its local variables are gone.
Return(answer) ==
    /\ phase' = "ready"
    /\ result' = answer
    /\ roots' = {}
    /\ state' = [n \in Node |-> 0]
    /\ stack' = << >>
    /\ rest' = [n \in Node |-> {}]
    /\ UNCHANGED <<graph, keys>>

\* std::map and std::set are walked in ascending order.
First(n, S) == n \in S /\ \A m \in S : n <= m

\* detectCycleDFS is called for n.
Enter(n) ==
    /\ state' = [state EXCEPT ![n] = 1]
    /\ stack' = Append(stack, n)

Top == stack[Len(stack)]

\* hasCycle's loop takes its next key.
NextRoot(n) ==
    /\ phase = "searching" /\ stack = << >>
    /\ First(n, roots)
    /\ roots' = roots \ {n}
    /\ \/ /\ state[n] = 0
          /\ Enter(n)
          /\ rest' = [rest EXCEPT ![n] = graph[n]]
       \/ /\ state[n] # 0
          /\ UNCHANGED <<state, stack, rest>>
    /\ UNCHANGED <<graph, keys, phase, result>>

\* hasCycle returns false: the keys are used up.
NoCycle ==
    /\ phase = "searching" /\ stack = << >> /\ roots = {}
    /\ Return("acyclic")

\* Mutant: a node met a second time is taken for one on the stack.
MetBefore(n) == state[n] # 0

\* The neighbour closes a cycle: every call on the stack returns true.
IsBackEdge(n) == state[n] = 1

BackEdge(n) ==
    /\ phase = "searching" /\ stack # << >>
    /\ First(n, rest[Top])
    /\ IsBackEdge(n)
    /\ Return("cycle")

\* Mutant: the iterator over the neighbours does not move.
StayAt(n) == rest

PassBy(n) == [rest EXCEPT ![Top] = @ \ {n}]

\* The next neighbour is entered if it is unvisited.
Neighbour(n) ==
    /\ phase = "searching" /\ stack # << >>
    /\ First(n, rest[Top])
    /\ ~ IsBackEdge(n)
    /\ \/ /\ state[n] = 0
          /\ Enter(n)
          /\ rest' = [PassBy(n) EXCEPT ![n] = graph[n]]
       \/ /\ state[n] = 2
          /\ rest' = PassBy(n)
          /\ UNCHANGED <<state, stack>>
    /\ UNCHANGED <<graph, keys, phase, roots, result>>

\* The neighbours are used up: the node is visited, its call returns false.
Leave ==
    /\ phase = "searching" /\ stack # << >>
    /\ rest[Top] = {}
    /\ state' = [state EXCEPT ![Top] = 2]
    /\ stack' = SubSeq(stack, 1, Len(stack) - 1)
    /\ UNCHANGED <<graph, keys, phase, roots, rest, result>>

SearchStep ==
    \/ \E n \in Node : NextRoot(n) \/ BackEdge(n) \/ Neighbour(n)
    \/ NoCycle \/ Leave

GraphNext ==
    \/ \E m, n \in Node : addEdge(m, n) \/ removeEdge(m, n)
    \/ hasCycle
    \/ SearchStep

\* A call that has started runs to its end.
GraphSpec == GraphInit /\ [][GraphNext]_vars /\ WF_vars(SearchStep)

-----------------------------------------------------------------------------

\* Some transactions wait for one another in a circle: a finite graph has a
\* cycle exactly if some nodes each have an edge to one of them.
Circle(S) == S # {} /\ \A m \in S : \E n \in S : n \in graph[m]

Deadlocked == \E S \in SUBSET Node : Circle(S)

\* hasCycle is right about every graph: cycles that no first key leads to
\* are found, nodes reached on two ways (no cycle) are not reported, nodes
\* without a key are no obstacle.
HasCycleCorrect ==
    /\ result = "cycle" => Deadlocked
    /\ result = "acyclic" => ~ Deadlocked

\* The search returns, on cyclic graphs too.
SearchEnds == phase = "searching" ~> phase = "ready"

=============================================================================
