------------------------- MODULE TransactionManager --------------------------
(***************************************************************************)
(* src/transaction/TransactionManager.cpp and the lifecycle part of        *)
(* Transaction.cpp.  Ids are handed out in order from INITIAL_TXN_ID = 1;  *)
(* Txn is the set of ids the model ever hands out (bound: uint32_t wraps   *)
(* at 2^32, far above any run).  The timestamps, counters of accesses and  *)
(* error text of a Transaction are never read by the program and are left  *)
(* out.                                                                    *)
(***************************************************************************)
EXTENDS Integers, FiniteSets

CONSTANT MaxTxn     \* bound: the ids handed out are 1..MaxTxn

ASSUME MaxTxnAssumption == MaxTxn \in Nat \ {0}

TxnId == 1..MaxTxn

VARIABLES
    next_transaction_id,    \* next id to assign
    active_transactions,    \* ids in the map of active transactions
    completed_history,      \* ids in the map completed_transactions_
    txn_state,              \* state_ of each Transaction object
    committed_count,        \* statistics
    aborted_count

txnVars == <<next_transaction_id, active_transactions, completed_history,
             txn_state, committed_count, aborted_count>>

\* "NEW": no Transaction object yet.  WAITING is never assigned by the code.
TxnState == {"NEW", "ACTIVE", "COMMITTED", "ABORTED"}

TxnTypeOK ==
    /\ next_transaction_id \in 1..(MaxTxn + 1)
    /\ active_transactions \in SUBSET TxnId
    /\ completed_history \in SUBSET TxnId
    /\ txn_state \in [TxnId -> TxnState]
    /\ committed_count \in Nat
    /\ aborted_count \in Nat

isTransactionActive(t) == t \in active_transactions /\ txn_state[t] = "ACTIVE"

-----------------------------------------------------------------------------

TxnInit ==
    /\ next_transaction_id = 1
    /\ active_transactions = {}
    /\ completed_history = {}
    /\ txn_state = [t \in TxnId |-> "NEW"]
    /\ committed_count = 0
    /\ aborted_count = 0

beginTransaction(t) ==
    /\ t \in TxnId
    /\ t = next_transaction_id
    /\ next_transaction_id' = next_transaction_id + 1
    /\ txn_state' = [txn_state EXCEPT ![t] = "ACTIVE"]
    /\ active_transactions' = active_transactions \cup {t}
    /\ UNCHANGED <<completed_history, committed_count, aborted_count>>

\* Mutant: the completed transaction stays in the active map.
FinishKeepingActive(done, final) ==
    /\ txn_state' = [t \in TxnId |-> IF t \in done THEN final ELSE txn_state[t]]
    /\ completed_history' = completed_history \cup done
    /\ UNCHANGED <<active_transactions, next_transaction_id>>

\* The body shared by commitTransaction and abortTransaction: the ids of
\* "done" leave the active map with the given final state.
Finish(done, final) ==
    /\ txn_state' = [t \in TxnId |-> IF t \in done THEN final ELSE txn_state[t]]
    /\ completed_history' = completed_history \cup done
    /\ active_transactions' = active_transactions \ done
    /\ UNCHANGED next_transaction_id

\* commitTransaction returning true; it returns false, changing nothing, when
\* the id is not in the active map.
commitTransaction(t) ==
    /\ t \in active_transactions
    /\ Finish({t}, "COMMITTED")
    /\ committed_count' = committed_count + 1
    /\ UNCHANGED aborted_count

abortTransaction(t) ==
    /\ t \in active_transactions
    /\ Finish({t}, "ABORTED")
    /\ aborted_count' = aborted_count + 1
    /\ UNCHANGED committed_count

\* Mutant: the bulk abort counts as one.
abortAllOnce ==
    /\ Finish(active_transactions, "ABORTED")
    /\ aborted_count' = aborted_count + 1
    /\ UNCHANGED committed_count

\* The loop over the collected ids, each aborted in turn.
abortAllTransactions ==
    /\ Finish(active_transactions, "ABORTED")
    /\ aborted_count' = aborted_count + Cardinality(active_transactions)
    /\ UNCHANGED committed_count

clearCompletedTransactions ==
    /\ completed_history' = {}
    /\ UNCHANGED <<next_transaction_id, active_transactions, txn_state,
                   committed_count, aborted_count>>

TxnNext ==
    \/ \E t \in TxnId : \/ beginTransaction(t)
                        \/ commitTransaction(t)
                        \/ abortTransaction(t)
    \/ abortAllTransactions
    \/ clearCompletedTransactions

TxnSpec == TxnInit /\ [][TxnNext]_txnVars

-----------------------------------------------------------------------------

\* The statistics STATUS prints stay in step with what happened to every
\* transaction ever begun, through single and bulk aborts and after the
\* history is cleared; the history holds no transaction that is active.
StatisticsAgree ==
    /\ committed_count = Cardinality({t \in TxnId : txn_state[t] = "COMMITTED"})
    /\ aborted_count = Cardinality({t \in TxnId : txn_state[t] = "ABORTED"})
    /\ active_transactions = {t \in TxnId : txn_state[t] = "ACTIVE"}
    /\ completed_history \cap active_transactions = {}
    /\ committed_count + aborted_count + Cardinality(active_transactions)
           = next_transaction_id - 1

\* The lifecycle of TransactionManager.h: NEW -> ACTIVE -> COMMITTED or
\* ABORTED, with no way back and no second completion.
LifecycleStep ==
    \A t \in TxnId :
        txn_state'[t] # txn_state[t] =>
            \/ txn_state[t] = "NEW" /\ txn_state'[t] = "ACTIVE"
            \/ txn_state[t] = "ACTIVE" /\ txn_state'[t] \in {"COMMITTED", "ABORTED"}

Lifecycle == [][LifecycleStep]_txnVars

=============================================================================
