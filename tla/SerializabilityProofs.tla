------------------------ MODULE SerializabilityProofs ------------------------
(***************************************************************************)
(* The engine is conflict serializable, for every number of transactions,  *)
(* commands and resources.  The argument: a conflicting command executes   *)
(* only when the other transaction is over, so a step adds orders that     *)
(* lead from transactions that are over to one that is not, and that one   *)
(* precedes nobody yet.                                                    *)
(***************************************************************************)
EXTENDS Serializability, EngineProofs

\* Whoever precedes another transaction has begun and is over.
PrecedesOver ==
    /\ precedes \subseteq Txn \X Txn
    /\ \A o \in precedes : /\ o[1] \notin active_transactions
                           /\ o[1] < next_transaction_id

HistoryInv == EngineInv /\ PrecedesOver /\ Serializable

\* Nothing precedes anything at the start.
LEMMA HistoryInitInv == HistoryInit => HistoryInv
BY EngineInitInv DEF HistoryInit, HistoryInv, PrecedesOver, Serializable

\* Without a new command there is no new order.
LEMMA NothingNew ==
    ASSUME EngineTypeOK, UNCHANGED executed
    PROVE  NewOrders = {}
<1>1. ASSUME NEW u \in Txn PROVE Fresh(u) = {}
    <2>1. Len(executed[u]) \in Nat BY DEF EngineTypeOK
    <2>2. QED BY <2>1 DEF Fresh
<1>2. QED BY <1>1 DEF NewOrders

\* A command that is executed comes after the commands of transactions that
\* are over: conflicting ones of active transactions would break isolation.
LEMMA NewOrdersOver ==
    ASSUME EngineInv, EngineInv', NEW c \in Command, Executes(c)
    PROVE  \A o \in NewOrders :
               /\ o \in Txn \X Txn
               /\ o[1] # o[2]
               /\ o[2] = c.txn
               /\ o[1] \notin active_transactions'
               /\ o[1] < next_transaction_id'
<1> SUFFICES ASSUME NEW t \in Txn, NEW u \in Txn, t # u,
                    NEW i \in DOMAIN executed[t], NEW j \in Fresh(u),
                    Conflicts(executed[t][i], executed'[u][j])
             PROVE  /\ u = c.txn
                    /\ t \notin active_transactions'
                    /\ t < next_transaction_id'
    BY DEF NewOrders
<1>1. /\ executed \in [Txn -> Seq(Command)]
      /\ c.txn \in Txn
      /\ executed' = [executed EXCEPT ![c.txn] = Append(@, c)]
    BY DEF EngineInv, EngineTypeOK, Command, Executes
<1>2. u = c.txn
    <2>1. CASE u # c.txn
        <3>1. executed'[u] = executed[u] BY <1>1, <2>1
        <3>2. Len(executed[u]) \in Nat BY <1>1
        <3>3. FALSE BY <3>1, <3>2 DEF Fresh
        <3>4. QED BY <3>3
    <2>2. QED BY <2>1
<1>3. executed'[u][j] = c /\ j \in DOMAIN executed'[u]
    <2>1. executed'[u] = Append(executed[u], c) BY <1>1, <1>2
    <2>2. executed[u] \in Seq(Command) BY <1>1
    <2>3. j = Len(executed[u]) + 1 BY <2>1, <2>2 DEF Fresh
    <2>4. QED BY <2>1, <2>2, <2>3
<1>4. executed'[t] = executed[t] BY <1>1, <1>2
<1>5. executed[t][i] \in Command /\ executed[t] # << >>
    BY <1>1
<1>6. t < next_transaction_id'
    <2>1. t < next_transaction_id
        BY <1>5, EngineAssumption
           DEF EngineInv, ManagersAgree, EngineTypeOK, TxnTypeOK, TxnId
    <2>2. QED BY <2>1 DEF Executes, txnVars
<1>7. t \notin active_transactions'
    <2> SUFFICES ASSUME t \in active_transactions' PROVE FALSE
        OBVIOUS
    <2> DEFINE r == c.res
               d == executed[t][i]
    <2>1. u \in active_transactions'
        BY <1>2 DEF Executes, txnVars, isTransactionActive
    <2>2. /\ r \in Resource /\ c.op \in Op /\ d.op \in Op
          /\ d.res = r
          /\ "WRITE" \in {d.op, c.op}
        BY <1>3, <1>5 DEF Command, Conflicts
    <2>3. /\ d.op = "WRITE" => Did(t, "WRITE", r)'
          /\ d.op = "READ" => Did(t, "READ", r)'
          /\ c.op = "WRITE" => Did(u, "WRITE", r)'
          /\ c.op = "READ" => Did(u, "READ", r)'
        BY <1>3, <1>4, <2>2 DEF Did
    <2>4. (EngineInv => NoDirtyAccess)' BY InvIsolation, PTL
    <2>5. /\ Did(t, "WRITE", r)' => ~ Did(u, "READ", r)' /\ ~ Did(u, "WRITE", r)'
          /\ Did(u, "WRITE", r)' => ~ Did(t, "READ", r)' /\ ~ Did(t, "WRITE", r)'
        BY <2>1, <2>2, <2>4 DEF NoDirtyAccess
    <2>6. QED BY <2>2, <2>3, <2>5 DEF Op
<1>8. QED BY <1>2, <1>6, <1>7

\* A transaction that has begun and is over stays so.
LEMMA OverStaysOver ==
    ASSUME EngineInv, [EngineNext]_vars, NEW t \in Txn,
           t \notin active_transactions, t < next_transaction_id
    PROVE  t \notin active_transactions' /\ t < next_transaction_id'
<1>1. t \in Nat /\ next_transaction_id \in Nat
    BY EngineAssumption DEF EngineInv, EngineTypeOK, TxnTypeOK, TxnId
<1>2. /\ active_transactions' \subseteq
              active_transactions \cup {next_transaction_id}
      /\ next_transaction_id' \in {next_transaction_id, next_transaction_id + 1}
      /\ next_transaction_id \in active_transactions' =>
            next_transaction_id \in active_transactions
            \/ next_transaction_id' = next_transaction_id + 1
    BY ManagersStep DEF EngineInv
<1>3. QED BY <1>1, <1>2

\* Orders that lead from transactions that are over to one that precedes
\* nobody close no circle.
LEMMA AcyclicStep ==
    ASSUME Serializable, NEW c \in Txn,
           \A o \in precedes : o[1] # c,
           \A o \in NewOrders : o[1] # o[2] /\ o[2] = c,
           precedes' = precedes \cup NewOrders
    PROVE  Serializable'
<1> SUFFICES ASSUME NEW S \in SUBSET Txn, S # {}
             PROVE  \E u \in S : \A t \in S : <<t, u>> \notin precedes'
    BY DEF Serializable
<1>1. CASE S = {c}
    <2>1. <<c, c>> \notin precedes' OBVIOUS
    <2>2. QED BY <1>1, <2>1
<1>2. CASE S # {c}
    <2>1. S \ {c} \in SUBSET Txn /\ S \ {c} # {} BY <1>2
    <2>2. PICK u \in S \ {c} : \A t \in S \ {c} : <<t, u>> \notin precedes
        BY <2>1 DEF Serializable
    <2>3. <<c, u>> \notin precedes OBVIOUS
    <2>4. \A t \in S : <<t, u>> \notin NewOrders BY <2>2
    <2>5. QED BY <2>2, <2>3, <2>4
<1>3. QED BY <1>1, <1>2

\* Every step of the engine keeps the order without circles.
LEMMA HistoryNextInv ==
    HistoryInv /\ [HistoryNext]_<<vars, precedes>> => HistoryInv'
<1> SUFFICES ASSUME HistoryInv, [HistoryNext]_<<vars, precedes>>
             PROVE  HistoryInv'
    OBVIOUS
<1>1. EngineInv /\ [EngineNext]_vars
    BY DEF HistoryInv, HistoryNext
<1>2. EngineInv' BY <1>1, EngineNextInv
<1>3. ASSUME NEW o \in precedes
      PROVE  /\ o[1] \in Txn
             /\ o[1] \notin active_transactions'
             /\ o[1] < next_transaction_id'
    <2>1. /\ o[1] \in Txn
          /\ o[1] \notin active_transactions
          /\ o[1] < next_transaction_id
        BY DEF HistoryInv, PrecedesOver
    <2>2. QED BY <1>1, <2>1, OverStaysOver
<1>4. CASE precedes' = precedes
    BY <1>2, <1>3, <1>4 DEF HistoryInv, PrecedesOver, Serializable
<1>5. CASE precedes' = precedes \cup NewOrders /\ UNCHANGED executed
    <2>1. NewOrders = {} BY <1>1, <1>5, NothingNew DEF EngineInv
    <2>2. QED BY <1>4, <1>5, <2>1
<1>6. ASSUME precedes' = precedes \cup NewOrders,
             NEW c \in Command, Executes(c)
      PROVE  HistoryInv'
    <2>1. \A o \in NewOrders :
              /\ o \in Txn \X Txn
              /\ o[1] # o[2] /\ o[2] = c.txn
              /\ o[1] \notin active_transactions'
              /\ o[1] < next_transaction_id'
        BY <1>1, <1>2, <1>6, NewOrdersOver
    <2>2. PrecedesOver'
        BY <1>3, <1>6, <2>1 DEF HistoryInv, PrecedesOver
    <2>3. c.txn \in Txn /\ c.txn \in active_transactions
        BY <1>6 DEF Command, Executes, isTransactionActive
    <2>4. \A o \in precedes : o[1] # c.txn
        BY <2>3 DEF HistoryInv, PrecedesOver
    <2>5. Serializable'
        BY <1>6, <2>1, <2>3, <2>4, AcyclicStep DEF HistoryInv
    <2>6. QED BY <1>2, <2>2, <2>5 DEF HistoryInv
<1>7. precedes' = precedes \/ precedes' = precedes \cup NewOrders
    BY DEF HistoryNext
<1>8. UNCHANGED executed \/ \E c \in Command : Executes(c)
    BY <1>1, HistoryStep DEF EngineInv
<1>9. QED BY <1>4, <1>5, <1>6, <1>7, <1>8

\* Whatever the users do, and however late parked commands execute, the
\* transactions might have run one after another.
THEOREM ConflictSerializable == HistorySpec => []Serializable
<1>1. HistoryInv => Serializable BY DEF HistoryInv
<1>2. QED BY <1>1, HistoryInitInv, HistoryNextInv, PTL DEF HistorySpec

=============================================================================
