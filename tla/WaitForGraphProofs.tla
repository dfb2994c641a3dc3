-------------------------- MODULE WaitForGraphProofs --------------------------
(***************************************************************************)
(* hasCycle answers right for every graph.  The colours of the search are  *)
(* the invariant: a visited node leads to visited nodes only and no circle *)
(* consists of visited nodes; the nodes being visited are the call stack,  *)
(* each with an edge to the next.                                          *)
(***************************************************************************)
EXTENDS WaitForGraph, SequenceTheorems, TLAPS

Visited == {n \in Node : state[n] = 2}

\* The nodes being visited are those on the stack, each once.
GreyOnStack ==
    /\ \A n \in Node : state[n] = 1 <=> \E i \in 1..Len(stack) : stack[i] = n
    /\ \A i, j \in 1..Len(stack) : stack[i] = stack[j] => i = j

\* Each node on the stack has an edge to the next.
StackIsPath == \A i \in 1..(Len(stack) - 1) : stack[i + 1] \in graph[stack[i]]

\* A neighbour already looked at is visited, or is the next on the stack.
LookedAt ==
    \A i \in 1..Len(stack) :
        /\ rest[stack[i]] \subseteq graph[stack[i]]
        /\ \A v \in graph[stack[i]] \ rest[stack[i]] :
              state[v] = 2 \/ (i < Len(stack) /\ v = stack[i + 1])

VisitedClosed ==
    /\ \A n \in Visited : graph[n] \subseteq Visited
    /\ \A S \in SUBSET Visited : ~ Circle(S)

\* A key the loop has passed is visited, or at the bottom of the stack.
RootsDone ==
    phase = "searching" =>
        \A n \in keys \ roots : state[n] = 2 \/ (stack # << >> /\ n = stack[1])

NothingVisited == stack = << >> /\ \A n \in Node : state[n] = 0

Idle == phase = "ready" => NothingVisited

Search == GreyOnStack /\ StackIsPath /\ LookedAt /\ VisitedClosed /\ RootsDone /\ Idle

GraphInv == GraphTypeOK /\ Search /\ HasCycleCorrect

-----------------------------------------------------------------------------

\* A sequence without its last element.
LEMMA FrontElements ==
    ASSUME NEW S, NEW s \in Seq(S), NEW n \in Nat, n <= Len(s)
    PROVE  Len(SubSeq(s, 1, n)) = n /\ \A i \in 1..n : SubSeq(s, 1, n)[i] = s[i]
  BY SubSeqProperties

LEMMA EnterType ==
    ASSUME GraphTypeOK, NEW n \in Node, Enter(n)
    PROVE  state' \in [Node -> 0..2] /\ stack' \in Seq(Node)
  BY DEF GraphTypeOK, Enter

LEMMA TopNode ==
    ASSUME GraphTypeOK, stack # << >>
    PROVE  Len(stack) \in Nat \ {0} /\ Top \in Node /\ Len(stack) \in 1..Len(stack)
  BY DEF GraphTypeOK, Top

LEMMA ReturnType ==
    ASSUME GraphTypeOK, NEW answer \in {"cycle", "acyclic"}, Return(answer)
    PROVE  GraphTypeOK'
  BY DEF GraphTypeOK, Return

\* Every step keeps the types.
LEMMA StepType == GraphTypeOK /\ [GraphNext]_vars => GraphTypeOK'
<1> SUFFICES ASSUME GraphTypeOK, [GraphNext]_vars PROVE GraphTypeOK'
  OBVIOUS
<1>1. ASSUME NEW m \in Node, NEW n \in Node, addEdge(m, n) PROVE GraphTypeOK'
  BY <1>1 DEF addEdge, searchVars, GraphTypeOK
<1>2. ASSUME NEW m \in Node, NEW n \in Node, removeEdge(m, n) PROVE GraphTypeOK'
  BY <1>2 DEF removeEdge, searchVars, GraphTypeOK
<1>3. CASE hasCycle
  BY <1>3 DEF hasCycle, GraphTypeOK
<1>4. ASSUME NEW n \in Node, NextRoot(n) PROVE GraphTypeOK'
  <2>1. CASE Enter(n) /\ rest' = [rest EXCEPT ![n] = graph[n]]
    BY <1>4, <2>1, EnterType DEF NextRoot, GraphTypeOK
  <2>2. CASE UNCHANGED <<state, stack, rest>>
    BY <1>4, <2>2 DEF NextRoot, GraphTypeOK
  <2> QED
    BY <1>4, <2>1, <2>2 DEF NextRoot
<1>5. ASSUME NEW n \in Node, BackEdge(n) PROVE GraphTypeOK'
  BY <1>5, ReturnType DEF BackEdge
<1>6. ASSUME NEW n \in Node, Neighbour(n) PROVE GraphTypeOK'
  <2>1. Top \in Node
    BY <1>6, TopNode DEF Neighbour
  <2>2. PassBy(n) \in [Node -> SUBSET Node]
    BY <2>1 DEF PassBy, GraphTypeOK
  <2>3. CASE Enter(n) /\ rest' = [PassBy(n) EXCEPT ![n] = graph[n]]
    <3>1. rest' \in [Node -> SUBSET Node]
      BY <2>2, <2>3 DEF GraphTypeOK
    <3> QED
      BY <1>6, <2>3, <3>1, EnterType DEF Neighbour, GraphTypeOK
  <2>4. CASE rest' = PassBy(n) /\ UNCHANGED <<state, stack>>
    BY <1>6, <2>2, <2>4 DEF Neighbour, GraphTypeOK
  <2> QED
    BY <1>6, <2>3, <2>4 DEF Neighbour
<1>7. CASE NoCycle
  BY <1>7, ReturnType DEF NoCycle
<1>8. CASE Leave
  <2>1. Len(stack) \in Nat \ {0}
    BY <1>8, TopNode DEF Leave
  <2>2. SubSeq(stack, 1, Len(stack) - 1) \in Seq(Node)
    BY <2>1 DEF GraphTypeOK
  <2>3. Top \in Node
    BY <1>8, TopNode DEF Leave
  <2>4. state' \in [Node -> 0..2]
    BY <1>8, <2>3 DEF Leave, GraphTypeOK
  <2>5. stack' \in Seq(Node)
    BY <1>8, <2>2 DEF Leave
  <2> QED
    BY <1>8, <2>4, <2>5 DEF Leave, GraphTypeOK
<1>9. CASE UNCHANGED vars
  <2>1. /\ graph' = graph /\ keys' = keys /\ phase' = phase /\ roots' = roots
        /\ state' = state /\ stack' = stack /\ rest' = rest /\ result' = result
    BY <1>9 DEF vars, searchVars
  <2> QED
    BY <2>1 DEF GraphTypeOK
<1> QED
  BY <1>1, <1>2, <1>3, <1>4, <1>5, <1>6, <1>7, <1>8, <1>9 DEF GraphNext, SearchStep

-----------------------------------------------------------------------------
(***************************************************************************)
(* What the steps of a search do to the colours.                           *)
(***************************************************************************)

\* Entering n, unvisited, when the stack is empty or its top has n as a
\* neighbour that it has just looked at.
LEMMA EnterSearch ==
    ASSUME GraphInv, phase = "searching", GraphTypeOK',
           NEW n \in Node, state[n] = 0, Enter(n),
           UNCHANGED <<graph, keys, phase, result>>,
           \/ stack = << >> /\ rest' = [rest EXCEPT ![n] = graph[n]]
           \/ /\ stack # << >> /\ n \in rest[Top]
              /\ rest' = [PassBy(n) EXCEPT ![n] = graph[n]]
    PROVE  GreyOnStack' /\ StackIsPath' /\ LookedAt' /\ VisitedClosed'
<1> DEFINE L == Len(stack)
<1>1. /\ L \in Nat /\ Len(stack') = L + 1 /\ stack'[L + 1] = n
      /\ \A i \in 1..L : stack'[i] = stack[i] /\ stack[i] \in Node
  BY DEF GraphInv, GraphTypeOK, Enter
<1>2. /\ state'[n] = 1
      /\ \A m \in Node \ {n} : state'[m] = state[m]
  BY DEF GraphInv, GraphTypeOK, Enter
<1>3. \A i \in 1..L : stack[i] # n
  BY <1>1 DEF GraphInv, Search, GreyOnStack
<1>4. GreyOnStack'
  <2>1. ASSUME NEW m \in Node
        PROVE  state'[m] = 1 <=> \E i \in 1..(L + 1) : stack'[i] = m
    <3>1. CASE m = n
      BY <1>1, <1>2, <3>1
    <3>2. CASE m # n
      <4>1. state'[m] = 1 <=> \E i \in 1..L : stack[i] = m
        BY <1>2, <3>2 DEF GraphInv, Search, GreyOnStack
      <4> QED
        BY <4>1, <1>1, <3>2
    <3> QED
      BY <3>1, <3>2
  <2>2. \A i, j \in 1..(L + 1) : stack'[i] = stack'[j] => i = j
    BY <1>1, <1>3 DEF GraphInv, Search, GreyOnStack
  <2> QED
    BY <2>1, <2>2, <1>1 DEF GreyOnStack
<1>5. stack # << >> => L \in 1..L /\ stack[L] = Top /\ Top \in Node
  BY TopNode DEF GraphInv, Top
<1>6. StackIsPath'
  <2> SUFFICES ASSUME NEW i \in 1..L PROVE stack'[i + 1] \in graph[stack'[i]]
    BY <1>1 DEF StackIsPath
  <2>1. CASE i < L
    <3>1. i \in 1..(L - 1) /\ i + 1 \in 1..L
      BY <1>1, <2>1
    <3> QED
      BY <1>1, <3>1 DEF GraphInv, Search, StackIsPath
  <2>2. CASE i = L
    <3>1. stack # << >>
      BY <1>1, <2>2
    <3>2. rest[Top] \subseteq graph[Top]
      BY <1>5, <3>1 DEF GraphInv, Search, LookedAt
    <3> QED
      BY <1>1, <1>5, <2>2, <3>1, <3>2
  <2> QED
    BY <1>1, <2>1, <2>2
<1>7. LookedAt'
  <2> SUFFICES ASSUME NEW i \in 1..(L + 1)
               PROVE  /\ rest'[stack'[i]] \subseteq graph[stack'[i]]
                      /\ \A v \in graph[stack'[i]] \ rest'[stack'[i]] :
                            state'[v] = 2 \/ (i < L + 1 /\ v = stack'[i + 1])
    BY <1>1 DEF LookedAt
  <2>1. CASE i = L + 1
    <3>1. rest'[n] = graph[n]
      BY <1>5 DEF GraphInv, GraphTypeOK, PassBy
    <3> QED
      BY <1>1, <2>1, <3>1
  <2>2. CASE i \in 1..L
    <3> DEFINE m == stack[i]
    <3>1. m \in Node /\ m # n /\ stack'[i] = m
      BY <1>1, <1>3, <2>2
    <3>2. /\ rest[m] \subseteq graph[m]
          /\ \A v \in graph[m] \ rest[m] :
                state[v] = 2 \/ (i < L /\ v = stack[i + 1])
      BY <2>2 DEF GraphInv, Search, LookedAt
    <3>3. i < L => rest'[m] = rest[m]
      <4> SUFFICES ASSUME i < L PROVE rest'[m] = rest[m]
        OBVIOUS
      <4>1. stack # << >> /\ m # Top
        BY <1>1, <1>5, <2>2 DEF GraphInv, Search, GreyOnStack
      <4> QED
        BY <3>1, <4>1, <1>5 DEF GraphInv, GraphTypeOK, PassBy
    <3>4. i = L => rest'[m] = rest[m] \ {n}
      <4> SUFFICES ASSUME i = L PROVE rest'[m] = rest[m] \ {n}
        OBVIOUS
      <4>1. stack # << >> /\ m = Top
        BY <1>1, <1>5, <2>2
      <4> QED
        BY <3>1, <4>1, <1>5 DEF GraphInv, GraphTypeOK, PassBy
    <3>5. \A v \in Node : state[v] = 2 => state'[v] = 2
      BY <1>2
    <3>6. graph[m] \subseteq Node
      BY <3>1 DEF GraphInv, GraphTypeOK
    <3>7. CASE i < L
      <4>1. i + 1 \in 1..L
        BY <2>2, <3>7, <1>1
      <4> QED
        BY <1>1, <2>2, <3>1, <3>2, <3>3, <3>5, <3>6, <3>7, <4>1
    <3>8. CASE i = L
      <4>1. stack'[i + 1] = n /\ i < L + 1
        BY <1>1, <3>8
      <4> QED
        BY <3>1, <3>2, <3>4, <3>5, <3>6, <3>8, <4>1, <1>1
    <3> QED
      BY <1>1, <2>2, <3>7, <3>8
  <2> QED
    BY <1>1, <2>1, <2>2
<1>8. VisitedClosed'
  <2>1. Visited' = Visited
    BY <1>2 DEF Visited
  <2> QED
    BY <2>1 DEF GraphInv, Search, VisitedClosed, Circle
<1> QED
  BY <1>4, <1>6, <1>7, <1>8

\* Leaving a node: its neighbours are visited, so it closes no circle.
LEMMA LeaveSearch ==
    ASSUME GraphInv, Leave, GraphTypeOK'
    PROVE  GreyOnStack' /\ StackIsPath' /\ LookedAt' /\ VisitedClosed' /\ RootsDone'
<1> DEFINE L == Len(stack)
           top == stack[L]
<1>1. L \in Nat \ {0} /\ top \in Node /\ Top = top /\ L \in 1..L
  BY TopNode DEF GraphInv, Leave, Top
<1>2. /\ Len(stack') = L - 1
      /\ \A i \in 1..(L - 1) : stack'[i] = stack[i] /\ stack[i] \in Node
  <2>1. stack' = SubSeq(stack, 1, L - 1) /\ stack \in Seq(Node)
    BY DEF GraphInv, GraphTypeOK, Leave
  <2>2. L - 1 \in Nat /\ 1..(L - 1) \subseteq 1..L
    BY <1>1
  <2>3. L - 1 <= Len(stack)
    BY <1>1
  <2>4. Len(stack') = L - 1 /\ \A i \in 1..(L - 1) : stack'[i] = stack[i]
    BY <2>1, <2>2, <2>3, FrontElements
  <2>5. \A i \in 1..L : stack[i] \in Node
    BY <2>1
  <2> QED
    BY <2>2, <2>4, <2>5
<1>3. /\ state'[top] = 2
      /\ \A m \in Node \ {top} : state'[m] = state[m]
      /\ UNCHANGED <<graph, keys, phase, roots, rest>>
  BY <1>1 DEF GraphInv, GraphTypeOK, Leave
<1>4. state[top] = 1
  BY <1>1 DEF GraphInv, Search, GreyOnStack
<1>5. \A i \in 1..(L - 1) : stack[i] # top /\ i \in 1..L
  BY <1>1 DEF GraphInv, Search, GreyOnStack
<1>6. GreyOnStack'
  <2>1. ASSUME NEW m \in Node
        PROVE  state'[m] = 1 <=> \E i \in 1..(L - 1) : stack'[i] = m
    <3>1. CASE m = top
      BY <1>2, <1>3, <1>5, <3>1
    <3>2. CASE m # top
      <4>1. state'[m] = 1 <=> \E i \in 1..L : stack[i] = m
        BY <1>3, <3>2 DEF GraphInv, Search, GreyOnStack
      <4>2. \A i \in 1..L : stack[i] = m => i \in 1..(L - 1)
        BY <1>1, <3>2
      <4> QED
        BY <4>1, <4>2, <1>2, <1>5
    <3> QED
      BY <3>1, <3>2
  <2>2. \A i, j \in 1..(L - 1) : stack'[i] = stack'[j] => i = j
    BY <1>2, <1>5 DEF GraphInv, Search, GreyOnStack
  <2> QED
    BY <2>1, <2>2, <1>2 DEF GreyOnStack
<1>7. StackIsPath'
  <2> SUFFICES ASSUME NEW i \in 1..(L - 2) PROVE stack'[i + 1] \in graph[stack'[i]]
    BY <1>1, <1>2, <1>3 DEF StackIsPath
  <2>1. i \in 1..(L - 1) /\ i + 1 \in 1..(L - 1)
    BY <1>1
  <2> QED
    BY <1>2, <2>1 DEF GraphInv, Search, StackIsPath
<1>8. graph[top] \subseteq Visited
  <2>1. rest[top] = {}
    BY <1>1 DEF Leave
  <2>2. \A v \in graph[top] \ rest[top] : state[v] = 2
    BY <1>1 DEF GraphInv, Search, LookedAt
  <2>3. graph[top] \subseteq Node
    BY <1>1 DEF GraphInv, GraphTypeOK
  <2> QED
    BY <2>1, <2>2, <2>3 DEF Visited
<1>9. Visited' = Visited \cup {top}
  BY <1>1, <1>3 DEF Visited
<1>10. LookedAt'
  <2> SUFFICES ASSUME NEW i \in 1..(L - 1)
               PROVE  /\ rest[stack[i]] \subseteq graph[stack[i]]
                      /\ \A v \in graph[stack[i]] \ rest[stack[i]] :
                            state'[v] = 2 \/ (i < L - 1 /\ v = stack'[i + 1])
    BY <1>2, <1>3 DEF LookedAt
  <2>1. i \in 1..L /\ stack[i] \in Node
    BY <1>2, <1>5
  <2>2. /\ rest[stack[i]] \subseteq graph[stack[i]]
        /\ \A v \in graph[stack[i]] \ rest[stack[i]] :
              state[v] = 2 \/ (i < L /\ v = stack[i + 1])
    BY <2>1 DEF GraphInv, Search, LookedAt
  <2>3. \A v \in graph[stack[i]] : v \in Node /\ (state[v] = 2 => state'[v] = 2)
    BY <2>1, <1>3, <1>4 DEF GraphInv, GraphTypeOK
  <2>4. CASE i = L - 1
    <3>1. stack[i + 1] = top
      BY <1>1, <2>4
    <3> QED
      BY <2>2, <2>3, <3>1, <1>3
  <2>5. CASE i < L - 1
    <3>1. i + 1 \in 1..(L - 1)
      BY <1>1, <2>5
    <3> QED
      BY <2>2, <2>3, <2>5, <3>1, <1>2
  <2> QED
    BY <1>1, <2>4, <2>5
<1>11. VisitedClosed'
  <2>1. \A n \in Visited' : graph[n] \subseteq Visited'
    BY <1>8, <1>9 DEF GraphInv, Search, VisitedClosed
  <2>2. ASSUME NEW S \in SUBSET (Visited \cup {top}), Circle(S) PROVE FALSE
    <3>1. S # {} /\ \A m \in S : \E n \in S : n \in graph[m]
      BY <2>2 DEF Circle
    <3>2. top \notin Visited
      BY <1>4 DEF Visited
    <3>3. CASE top \notin S
      BY <2>2, <3>3 DEF GraphInv, Search, VisitedClosed
    <3>4. CASE top \in S
      <4> DEFINE T == S \ {top}
      <4>1. T \in SUBSET Visited
        OBVIOUS
      <4>2. T # {}
        BY <1>8, <3>1, <3>2, <3>4
      <4>3. \A m \in T : \E n \in T : n \in graph[m]
        <5>1. \A m \in T : graph[m] \subseteq Visited
          BY <4>1 DEF GraphInv, Search, VisitedClosed
        <5> QED
          BY <5>1, <3>1, <3>2
      <4>4. Circle(T)
        BY <4>2, <4>3 DEF Circle
      <4> QED
        BY <4>1, <4>4 DEF GraphInv, Search, VisitedClosed
    <3> QED
      BY <3>3, <3>4
  <2>3. \A S \in SUBSET Visited' : ~ (Circle(S)')
    BY <1>3, <1>9, <2>2 DEF Circle
  <2> QED
    BY <2>1, <2>3, <1>3 DEF VisitedClosed
<1>12. RootsDone'
  <2> SUFFICES ASSUME phase = "searching", NEW n \in keys \ roots
               PROVE  state'[n] = 2 \/ (stack' # << >> /\ n = stack'[1])
    BY <1>3 DEF RootsDone
  <2>1. n \in Node
    BY DEF GraphInv, GraphTypeOK
  <2>2. state[n] = 2 \/ n = stack[1]
    BY DEF GraphInv, Search, RootsDone
  <2>3. CASE state[n] = 2
    BY <2>1, <2>3, <1>3, <1>4
  <2>4. CASE n = stack[1] /\ L = 1
    BY <2>4, <1>3
  <2>5. CASE n = stack[1] /\ L # 1
    <3>1. 1 \in 1..(L - 1) /\ Len(stack') # 0
      BY <1>1, <1>2, <2>5
    <3>2. stack' # << >>
      BY <3>1
    <3> QED
      BY <2>5, <3>1, <3>2, <1>2
  <2> QED
    BY <2>2, <2>3, <2>4, <2>5
<1> QED
  BY <1>6, <1>7, <1>10, <1>11, <1>12

\* Nothing visited, nothing on the stack: between calls, and when one begins.
LEMMA Unvisited ==
    ASSUME NothingVisited
    PROVE  GreyOnStack /\ StackIsPath /\ LookedAt /\ VisitedClosed
<1>1. 1..Len(stack) = {} /\ 1..(Len(stack) - 1) = {} /\ \A n \in Node : state[n] = 0
  BY DEF NothingVisited
<1>2. GreyOnStack /\ StackIsPath /\ LookedAt
  BY <1>1 DEF GreyOnStack, StackIsPath, LookedAt
<1>3. Visited = {}
  BY <1>1 DEF Visited
<1> QED
  BY <1>2, <1>3 DEF VisitedClosed, Circle

\* The neighbour is on the stack: from there to the top every node has an
\* edge to the next, and the top has one back.
LEMMA BackEdgeCircle ==
    ASSUME GraphInv, NEW n \in Node, BackEdge(n)
    PROVE  Deadlocked
<1> DEFINE L == Len(stack)
<1>1. L \in Nat \ {0} /\ L \in 1..L /\ Top = stack[L]
  BY TopNode DEF GraphInv, BackEdge, Top
<1>2. n \in graph[Top]
  BY <1>1 DEF BackEdge, First, GraphInv, Search, LookedAt
<1>3. PICK k \in 1..L : stack[k] = n
  BY DEF BackEdge, IsBackEdge, GraphInv, Search, GreyOnStack
<1> DEFINE S == {stack[i] : i \in k..L}
<1>4. k..L \subseteq 1..L /\ L \in k..L /\ k \in k..L
  BY <1>1
<1>5. S \in SUBSET Node /\ S # {}
  BY <1>4 DEF GraphInv, GraphTypeOK
<1>6. ASSUME NEW i \in k..L PROVE \E m \in S : m \in graph[stack[i]]
  <2>1. CASE i = L
    BY <2>1, <1>1, <1>2, <1>3, <1>4
  <2>2. CASE i # L
    <3>1. i \in 1..(L - 1) /\ i + 1 \in k..L
      BY <2>2, <1>1
    <3>2. stack[i + 1] \in graph[stack[i]]
      BY <3>1 DEF GraphInv, Search, StackIsPath
    <3> QED
      BY <3>1, <3>2
  <2> QED
    BY <2>1, <2>2
<1>7. Circle(S)
  BY <1>5, <1>6 DEF Circle
<1> QED
  BY <1>5, <1>7 DEF Deadlocked

\* The keys are used up: all are visited, and a circle consists of keys.
LEMMA NoCycleNoCircle ==
    ASSUME GraphInv, NoCycle
    PROVE  ~ Deadlocked
<1>1. keys \subseteq Visited
  BY DEF NoCycle, GraphInv, GraphTypeOK, Search, RootsDone, Visited
<1>2. ASSUME NEW S \in SUBSET Node, Circle(S) PROVE S \subseteq keys
  BY <1>2 DEF Circle, GraphInv, GraphTypeOK
<1> QED
  BY <1>1, <1>2 DEF Deadlocked, GraphInv, Search, VisitedClosed

\* Passing by a visited neighbour.
LEMMA PassBySearch ==
    ASSUME GraphInv, NEW n \in Node, Neighbour(n), rest' = PassBy(n), state[n] = 2,
           UNCHANGED <<state, stack>>
    PROVE  Search'
<1>1. Top \in Node /\ UNCHANGED <<graph, keys, phase, roots>> /\ phase = "searching"
  BY TopNode DEF GraphInv, Neighbour
<1>2. \A m \in Node : rest'[m] = IF m = Top THEN rest[m] \ {n} ELSE rest[m]
  BY <1>1 DEF PassBy, GraphInv, GraphTypeOK
<1>3. \A i \in 1..Len(stack) : stack[i] \in Node
  BY DEF GraphInv, GraphTypeOK
<1>4. LookedAt'
  <2> SUFFICES ASSUME NEW i \in 1..Len(stack)
               PROVE  /\ rest'[stack[i]] \subseteq graph[stack[i]]
                      /\ \A v \in graph[stack[i]] \ rest'[stack[i]] :
                            state[v] = 2 \/ (i < Len(stack) /\ v = stack[i + 1])
    BY <1>1 DEF LookedAt
  <2>1. /\ rest[stack[i]] \subseteq graph[stack[i]]
        /\ \A v \in graph[stack[i]] \ rest[stack[i]] :
              state[v] = 2 \/ (i < Len(stack) /\ v = stack[i + 1])
    BY DEF GraphInv, Search, LookedAt
  <2>2. rest'[stack[i]] \in {rest[stack[i]], rest[stack[i]] \ {n}}
    BY <1>2, <1>3
  <2> QED
    BY <2>1, <2>2
<1> QED
  BY <1>1, <1>4
  DEF GraphInv, Search, GreyOnStack, StackIsPath, VisitedClosed, Visited, Circle,
      RootsDone, Idle, NothingVisited

LEMMA ReturnSearch ==
    ASSUME NEW answer, Return(answer)
    PROVE  Search'
<1>1. NothingVisited'
  BY DEF Return, NothingVisited
<1>2. (GreyOnStack /\ StackIsPath /\ LookedAt /\ VisitedClosed)'
  BY <1>1, Unvisited, PTL
<1> QED
  BY <1>1, <1>2 DEF Search, RootsDone, Idle, Return

-----------------------------------------------------------------------------

LEMMA InitInv == GraphInit => GraphInv
<1> SUFFICES ASSUME GraphInit PROVE GraphInv
  OBVIOUS
<1>1. GraphTypeOK
  BY DEF GraphInit, GraphTypeOK
<1>2. Search
  BY Unvisited DEF GraphInit, Search, RootsDone, Idle, NothingVisited
<1> QED
  BY <1>1, <1>2 DEF GraphInit, GraphInv, HasCycleCorrect

\* Every step keeps the invariant of the search.
LEMMA StepInv == GraphInv /\ [GraphNext]_vars => GraphInv'
<1> SUFFICES ASSUME GraphInv, [GraphNext]_vars PROVE GraphInv'
  OBVIOUS
<1>0. GraphTypeOK'
  BY StepType DEF GraphInv
<1>1. ASSUME NEW m \in Node, NEW n \in Node, addEdge(m, n) \/ removeEdge(m, n)
      PROVE  Search' /\ HasCycleCorrect'
  <2>1. UNCHANGED searchVars /\ phase = "ready" /\ result' = "none"
    BY <1>1 DEF addEdge, removeEdge
  <2>2. NothingVisited
    BY <2>1 DEF GraphInv, Search, Idle
  <2>3. NothingVisited'
    BY <2>1, <2>2 DEF searchVars, NothingVisited
  <2>4. (GreyOnStack /\ StackIsPath /\ LookedAt /\ VisitedClosed)'
    BY <2>3, Unvisited, PTL
  <2> QED
    BY <2>1, <2>3, <2>4 DEF Search, RootsDone, Idle, searchVars, HasCycleCorrect
<1>2. ASSUME hasCycle PROVE Search' /\ HasCycleCorrect'
  <2>1. /\ UNCHANGED <<graph, keys, state, stack, rest, result>>
        /\ phase' = "searching" /\ roots' = keys
    BY <1>2 DEF hasCycle
  <2> QED
    BY <2>1
    DEF GraphInv, Search, GreyOnStack, StackIsPath, LookedAt, VisitedClosed, Visited,
        Circle, RootsDone, Idle, NothingVisited, HasCycleCorrect, Deadlocked
<1>3. ASSUME NEW n \in Node, NextRoot(n) PROVE Search' /\ HasCycleCorrect'
  <2>1. /\ phase = "searching" /\ stack = << >> /\ n \in roots
        /\ roots' = roots \ {n}
        /\ UNCHANGED <<graph, keys, phase, result>>
    BY <1>3 DEF NextRoot, First
  <2>2. \A k \in keys \ roots : state[k] = 2
    BY <2>1 DEF GraphInv, Search, RootsDone
  <2>3. CASE state[n] = 0 /\ Enter(n) /\ rest' = [rest EXCEPT ![n] = graph[n]]
    <3>1. GreyOnStack' /\ StackIsPath' /\ LookedAt' /\ VisitedClosed'
      BY <1>0, <2>1, <2>3, EnterSearch
    <3>2. stack' # << >> /\ stack'[1] = n
      BY <2>1, <2>3 DEF Enter
    <3>3. \A k \in keys \ roots : state'[k] = 2
      BY <2>2, <2>3 DEF Enter, GraphInv, GraphTypeOK
    <3>4. RootsDone' /\ Idle'
      BY <2>1, <3>2, <3>3 DEF RootsDone, Idle
    <3> QED
      BY <2>1, <3>1, <3>4 DEF Search, GraphInv, HasCycleCorrect, Deadlocked, Circle
  <2>4. CASE state[n] # 0 /\ UNCHANGED <<state, stack, rest>>
    <3>1. state[n] # 1
      BY <2>1 DEF GraphInv, Search, GreyOnStack
    <3>2. state[n] = 2
      BY <2>4, <3>1 DEF GraphInv, GraphTypeOK
    <3>3. RootsDone' /\ Idle'
      BY <2>1, <2>2, <2>4, <3>2 DEF RootsDone, Idle
    <3> QED
      BY <2>1, <2>4, <3>3
      DEF GraphInv, Search, GreyOnStack, StackIsPath, LookedAt, VisitedClosed, Visited,
          Circle, HasCycleCorrect, Deadlocked
  <2> QED
    BY <1>3, <2>3, <2>4 DEF NextRoot
<1>4. ASSUME NEW n \in Node, BackEdge(n) PROVE Search' /\ HasCycleCorrect'
  <2>1. Deadlocked
    BY <1>4, BackEdgeCircle
  <2>2. Return("cycle")
    BY <1>4 DEF BackEdge
  <2> QED
    BY <2>1, <2>2, ReturnSearch DEF Return, HasCycleCorrect, Deadlocked, Circle
<1>5. ASSUME NEW n \in Node, Neighbour(n) PROVE Search' /\ HasCycleCorrect'
  <2>1. /\ phase = "searching" /\ stack # << >> /\ n \in rest[Top]
        /\ UNCHANGED <<graph, keys, phase, roots, result>>
    BY <1>5 DEF Neighbour, First
  <2>2. HasCycleCorrect'
    BY <2>1 DEF GraphInv, HasCycleCorrect, Deadlocked, Circle
  <2>3. CASE state[n] = 0 /\ Enter(n) /\ rest' = [PassBy(n) EXCEPT ![n] = graph[n]]
    <3>1. GreyOnStack' /\ StackIsPath' /\ LookedAt' /\ VisitedClosed'
      BY <1>0, <2>1, <2>3, EnterSearch
    <3>2. stack' # << >> /\ stack'[1] = stack[1]
      BY <2>1, <2>3 DEF Enter, GraphInv, GraphTypeOK
    <3>3. \A k \in Node : state[k] = 2 => state'[k] = 2
      BY <2>3 DEF Enter, GraphInv, GraphTypeOK
    <3>4. RootsDone' /\ Idle'
      BY <2>1, <3>2, <3>3 DEF RootsDone, Idle, GraphInv, GraphTypeOK, Search
    <3> QED
      BY <2>2, <3>1, <3>4 DEF Search
  <2>4. CASE state[n] = 2 /\ rest' = PassBy(n) /\ UNCHANGED <<state, stack>>
    BY <1>5, <2>2, <2>4, PassBySearch
  <2> QED
    BY <1>5, <2>3, <2>4 DEF Neighbour
<1>6. ASSUME NoCycle PROVE Search' /\ HasCycleCorrect'
  <2>1. ~ Deadlocked
    BY <1>6, NoCycleNoCircle
  <2>2. Return("acyclic")
    BY <1>6 DEF NoCycle
  <2> QED
    BY <2>1, <2>2, ReturnSearch DEF Return, HasCycleCorrect, Deadlocked, Circle
<1>7. ASSUME Leave PROVE Search' /\ HasCycleCorrect'
  <2>1. GreyOnStack' /\ StackIsPath' /\ LookedAt' /\ VisitedClosed' /\ RootsDone'
    BY <1>0, <1>7, LeaveSearch
  <2>2. phase' = "searching" /\ UNCHANGED <<graph, result>>
    BY <1>7 DEF Leave
  <2> QED
    BY <2>1, <2>2 DEF Search, Idle, GraphInv, HasCycleCorrect, Deadlocked, Circle
<1>8. ASSUME UNCHANGED vars PROVE Search' /\ HasCycleCorrect'
  <2>1. /\ graph' = graph /\ keys' = keys /\ phase' = phase /\ roots' = roots
        /\ state' = state /\ stack' = stack /\ rest' = rest /\ result' = result
    BY <1>8 DEF vars, searchVars
  <2> QED
    BY <2>1
    DEF GraphInv, Search, GreyOnStack, StackIsPath, LookedAt, VisitedClosed, Visited,
        Circle, RootsDone, Idle, NothingVisited, HasCycleCorrect, Deadlocked
<1> QED
  BY <1>0, <1>1, <1>2, <1>3, <1>4, <1>5, <1>6, <1>7, <1>8
  DEF GraphInv, GraphNext, SearchStep

\* hasCycle of WaitForGraph.cpp is right for every graph and every order of
\* adding and removing edges: it answers true only if some transactions wait
\* in a circle, and false only if none do.
THEOREM SearchCorrect == GraphSpec => []HasCycleCorrect
<1>1. GraphInv => HasCycleCorrect
  BY DEF GraphInv
<1> QED
  BY <1>1, InitInv, StepInv, PTL DEF GraphSpec

-----------------------------------------------------------------------------
(***************************************************************************)
(* What ends the search.  A step that does not answer leaves less to do:   *)
(* no key, node or edge that is behind comes back.                         *)
(***************************************************************************)

NotEntered == {n \in Node : state[n] = 0}

NotVisited == {n \in Node : state[n] # 2}

\* Edges still to be followed: all those of a node not entered yet, and of a
\* node on the stack those its loop has not come to.
EdgesLeft ==
    {e \in Node \X Node :
        \/ state[e[1]] = 0 /\ e[2] \in graph[e[1]]
        \/ state[e[1]] = 1 /\ e[2] \in rest[e[1]]}

Work == <<roots, NotEntered, NotVisited, EdgesLeft>>

WorkShrinks ==
    /\ \A k \in 1..4 : Work'[k] \subseteq Work[k]
    /\ \E k \in 1..4 : Work'[k] # Work[k]

LEMMA WorkParts ==
    ASSUME roots' \subseteq roots, NotEntered' \subseteq NotEntered,
           NotVisited' \subseteq NotVisited, EdgesLeft' \subseteq EdgesLeft,
           \/ roots' # roots \/ NotVisited' # NotVisited \/ EdgesLeft' # EdgesLeft
    PROVE  WorkShrinks
<1>1. /\ Work[1] = roots /\ Work[2] = NotEntered
      /\ Work[3] = NotVisited /\ Work[4] = EdgesLeft
  BY DEF Work
<1>2. /\ Work'[1] = roots' /\ Work'[2] = NotEntered'
      /\ Work'[3] = NotVisited' /\ Work'[4] = EdgesLeft'
  BY DEF Work
<1>3. \A k \in 1..4 : k = 1 \/ k = 2 \/ k = 3 \/ k = 4
  OBVIOUS
<1>4. \A k \in 1..4 : Work'[k] \subseteq Work[k]
  BY <1>1, <1>2, <1>3
<1>5. \E k \in 1..4 : Work'[k] # Work[k]
  <2>1. 1 \in 1..4 /\ 3 \in 1..4 /\ 4 \in 1..4
    OBVIOUS
  <2> QED
    BY <1>1, <1>2, <2>1
<1> QED
  BY <1>4, <1>5 DEF WorkShrinks

\* The top of the stack is being visited.
LEMMA TopGrey ==
    ASSUME GraphInv, stack # << >>
    PROVE  Top \in Node /\ state[Top] = 1
  BY TopNode DEF GraphInv, Search, GreyOnStack, Top

\* Entering n takes it out of the unvisited; its edges were counted already.
LEMMA EnterShrinks ==
    ASSUME GraphInv, NEW n \in Node, state[n] = 0, Enter(n), UNCHANGED graph,
           roots' \subseteq roots, rest'[n] = graph[n],
           \A m \in Node \ {n} : rest'[m] \subseteq rest[m],
           \/ roots' # roots \/ EdgesLeft' # EdgesLeft
    PROVE  WorkShrinks
<1>1. state'[n] = 1 /\ \A m \in Node \ {n} : state'[m] = state[m]
  BY DEF GraphInv, GraphTypeOK, Enter
<1>2. NotEntered' \subseteq NotEntered /\ NotVisited' \subseteq NotVisited
  BY <1>1 DEF NotEntered, NotVisited
<1>3. EdgesLeft' \subseteq EdgesLeft
  <2> SUFFICES ASSUME NEW e \in Node \X Node,
                      \/ state'[e[1]] = 0 /\ e[2] \in graph[e[1]]
                      \/ state'[e[1]] = 1 /\ e[2] \in rest'[e[1]]
               PROVE  \/ state[e[1]] = 0 /\ e[2] \in graph[e[1]]
                      \/ state[e[1]] = 1 /\ e[2] \in rest[e[1]]
    BY DEF EdgesLeft
  <2>1. e[1] \in Node
    OBVIOUS
  <2> QED
    BY <2>1, <1>1
<1> QED
  BY <1>2, <1>3, WorkParts

\* hasCycle ends on every graph, as far as safety goes: each step that does
\* not return takes a key, a node or an edge off what is left to do, and none
\* puts one back; so every node is entered at most once and every edge followed
\* at most once, and on finitely many transactions the recursion stops.
THEOREM SearchProgress == GraphSpec => [][SearchStep => phase' = "ready" \/ WorkShrinks]_vars
<1>1. ASSUME GraphInv, SearchStep
      PROVE  phase' = "ready" \/ WorkShrinks
  <2>1. ASSUME NEW n \in Node, NextRoot(n) PROVE WorkShrinks
    <3>1. n \in roots /\ roots' = roots \ {n} /\ UNCHANGED graph
      BY <2>1 DEF NextRoot, First
    <3>2. CASE state[n] = 0 /\ Enter(n) /\ rest' = [rest EXCEPT ![n] = graph[n]]
      <4>1. rest'[n] = graph[n] /\ \A m \in Node \ {n} : rest'[m] \subseteq rest[m]
        BY <3>2, <1>1 DEF GraphInv, GraphTypeOK
      <4> QED
        BY <1>1, <3>1, <3>2, <4>1, EnterShrinks
    <3>3. CASE UNCHANGED <<state, stack, rest>>
      <4>1. NotEntered' = NotEntered /\ NotVisited' = NotVisited /\ EdgesLeft' = EdgesLeft
        BY <3>1, <3>3 DEF NotEntered, NotVisited, EdgesLeft
      <4> QED
        BY <3>1, <4>1, WorkParts
    <3> QED
      BY <2>1, <3>2, <3>3 DEF NextRoot
  <2>2. ASSUME NEW n \in Node, Neighbour(n) PROVE WorkShrinks
    <3>1. /\ stack # << >> /\ n \in rest[Top] /\ UNCHANGED <<graph, roots>>
      BY <2>2 DEF Neighbour, First
    <3>2. Top \in Node /\ state[Top] = 1
      BY <1>1, <3>1, TopGrey
    <3>3. /\ PassBy(n)[Top] = rest[Top] \ {n}
          /\ \A m \in Node \ {Top} : PassBy(n)[m] = rest[m]
          /\ PassBy(n) \in [Node -> SUBSET Node]
      BY <1>1, <3>2 DEF PassBy, GraphInv, GraphTypeOK
    <3>4. <<Top, n>> \in EdgesLeft
      BY <3>1, <3>2 DEF EdgesLeft
    <3>5. CASE state[n] = 0 /\ Enter(n) /\ rest' = [PassBy(n) EXCEPT ![n] = graph[n]]
      <4>1. Top # n
        BY <3>2, <3>5
      <4>2. /\ rest'[n] = graph[n] /\ rest'[Top] = rest[Top] \ {n}
            /\ \A m \in Node \ {n} : rest'[m] \subseteq rest[m]
        BY <3>2, <3>3, <3>5, <4>1
      <4>3. state'[Top] = 1
        BY <1>1, <3>2, <3>5, <4>1 DEF Enter, GraphInv, GraphTypeOK
      <4>4. <<Top, n>> \notin EdgesLeft'
        BY <4>2, <4>3 DEF EdgesLeft
      <4> QED
        BY <1>1, <3>1, <3>4, <3>5, <4>2, <4>4, EnterShrinks
    <3>6. CASE rest' = PassBy(n) /\ UNCHANGED <<state, stack>>
      <4>1. NotEntered' = NotEntered /\ NotVisited' = NotVisited
        BY <3>6 DEF NotEntered, NotVisited
      <4>2. \A m \in Node : rest'[m] \subseteq rest[m]
        BY <3>3, <3>6
      <4>3. EdgesLeft' \subseteq EdgesLeft
        BY <3>1, <3>6, <4>2 DEF EdgesLeft
      <4>4. <<Top, n>> \notin EdgesLeft'
        BY <3>2, <3>3, <3>6 DEF EdgesLeft
      <4> QED
        BY <3>1, <3>4, <4>1, <4>3, <4>4, WorkParts
    <3> QED
      BY <2>2, <3>5, <3>6 DEF Neighbour
  <2>3. ASSUME Leave PROVE WorkShrinks
    <3>1. /\ stack # << >> /\ UNCHANGED <<graph, roots, rest>>
          /\ state' = [state EXCEPT ![Top] = 2]
      BY <2>3 DEF Leave
    <3>2. Top \in Node /\ state[Top] = 1
      BY <1>1, <3>1, TopGrey
    <3>3. state'[Top] = 2 /\ \A m \in Node \ {Top} : state'[m] = state[m]
      BY <1>1, <3>1, <3>2 DEF GraphInv, GraphTypeOK
    <3>4. NotEntered' \subseteq NotEntered /\ NotVisited' \subseteq NotVisited
      BY <3>2, <3>3 DEF NotEntered, NotVisited
    <3>5. Top \in NotVisited /\ Top \notin NotVisited'
      BY <3>2, <3>3 DEF NotVisited
    <3>6. EdgesLeft' \subseteq EdgesLeft
      <4>1. \A e \in Node \X Node : e[1] = Top \/ state'[e[1]] = state[e[1]]
        BY <3>3
      <4> QED
        BY <3>1, <3>3, <4>1 DEF EdgesLeft
    <3> QED
      BY <3>1, <3>4, <3>5, <3>6, WorkParts
  <2>4. ASSUME NEW n \in Node, BackEdge(n) PROVE phase' = "ready"
    BY <2>4 DEF BackEdge, Return
  <2>5. ASSUME NoCycle PROVE phase' = "ready"
    BY <2>5 DEF NoCycle, Return
  <2> QED
    BY <1>1, <2>1, <2>2, <2>3, <2>4, <2>5 DEF SearchStep
<1>2. GraphInv /\ [GraphNext]_vars => [SearchStep => phase' = "ready" \/ WorkShrinks]_vars
  BY <1>1
<1> QED
  BY <1>2, InitInv, StepInv, PTL DEF GraphSpec

=============================================================================
