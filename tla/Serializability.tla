--------------------------- MODULE Serializability ---------------------------
(***************************************************************************)
(* The isolation the engine gives to whole transactions.  A history        *)
(* variable records which transaction had to come before which: t precedes *)
(* u when a command of t was executed before a conflicting one of u.  The  *)
(* engine itself is not changed: every step is one of Engine's.            *)
(***************************************************************************)
EXTENDS Engine

VARIABLE precedes

\* Two commands of which the order can be told afterwards.
Conflicts(c, d) == c.res = d.res /\ "WRITE" \in {c.op, d.op}

\* The commands of u that the current step executes.
Fresh(u) == (Len(executed[u]) + 1)..Len(executed'[u])

NewOrders ==
    {o \in Txn \X Txn :
        /\ o[1] # o[2]
        /\ \E i \in DOMAIN executed[o[1]], j \in Fresh(o[2]) :
              Conflicts(executed[o[1]][i], executed'[o[2]][j])}

HistoryInit == EngineInit /\ precedes = {}

HistoryNext == EngineNext /\ precedes' = precedes \cup NewOrders

HistorySpec ==
    HistoryInit /\ [][HistoryNext]_<<vars, precedes>> /\ WF_vars(LoopStep)

\* Conflict serializability: the order is without circles, so the transactions,
\* aborted and unfinished ones included (their writes stay), might have run one
\* after another.  Stated so: in every set of transactions somebody comes after
\* nobody else of the set.
Serializable ==
    \A S \in SUBSET Txn :
        S # {} => \E u \in S : \A t \in S : <<t, u>> \notin precedes

=============================================================================
