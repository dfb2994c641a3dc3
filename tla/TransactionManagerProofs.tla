---------------------- MODULE TransactionManagerProofs -----------------------
(***************************************************************************)
(* Proofs about TransactionManager, for every number of ids.               *)
(***************************************************************************)
EXTENDS TransactionManager, FiniteSetTheorems, TLAPS

-----------------------------------------------------------------------------
(***************************************************************************)
(* Type correctness.                                                       *)
(***************************************************************************)

\* Completing a set of transactions keeps TransactionManager's types.
LEMMA FinishType ==
    ASSUME TxnTypeOK, NEW done \in SUBSET TxnId, NEW final \in TxnState,
           Finish(done, final)
    PROVE  /\ next_transaction_id' \in 1..(MaxTxn + 1)
           /\ active_transactions' \in SUBSET TxnId
           /\ completed_history' \in SUBSET TxnId
           /\ txn_state' \in [TxnId -> TxnState]
BY DEF Finish, TxnTypeOK

\* Every operation of TransactionManager keeps its types.
LEMMA TxnStepType ==
    ASSUME TxnTypeOK,
           \/ \E t \in TxnId : beginTransaction(t)
           \/ \E t \in TxnId : commitTransaction(t)
           \/ \E t \in TxnId : abortTransaction(t)
           \/ abortAllTransactions
           \/ UNCHANGED txnVars
    PROVE  TxnTypeOK'
<1>1. CASE \E t \in TxnId : beginTransaction(t)
    BY <1>1, MaxTxnAssumption DEF beginTransaction, TxnTypeOK, TxnId, TxnState
<1>2. CASE \E t \in TxnId : commitTransaction(t)
    <2>1. PICK t \in TxnId : commitTransaction(t) BY <1>2
    <2>2. {t} \in SUBSET TxnId /\ "COMMITTED" \in TxnState BY DEF TxnState
    <2>3. QED BY <2>1, <2>2, FinishType DEF commitTransaction, TxnTypeOK
<1>3. CASE \E t \in TxnId : abortTransaction(t)
    <2>1. PICK t \in TxnId : abortTransaction(t) BY <1>3
    <2>2. {t} \in SUBSET TxnId /\ "ABORTED" \in TxnState BY DEF TxnState
    <2>3. QED BY <2>1, <2>2, FinishType DEF abortTransaction, TxnTypeOK
<1>4. CASE abortAllTransactions
    <2>1. active_transactions \in SUBSET TxnId /\ "ABORTED" \in TxnState
        BY DEF TxnTypeOK, TxnState
    <2>2. IsFiniteSet(TxnId) BY MaxTxnAssumption, FS_Interval DEF TxnId
    <2>3. Cardinality(active_transactions) \in Nat
        BY <2>1, <2>2, FS_Subset, FS_CardinalityType
    <2>4. aborted_count' \in Nat
        BY <1>4, <2>3 DEF abortAllTransactions, TxnTypeOK
    <2>5. QED
        BY <1>4, <2>1, <2>4, FinishType DEF abortAllTransactions, TxnTypeOK
<1>5. CASE UNCHANGED txnVars BY <1>5 DEF txnVars, TxnTypeOK
<1>6. QED BY <1>1, <1>2, <1>3, <1>4, <1>5

-----------------------------------------------------------------------------
(***************************************************************************)
(* The statistics.  The counters follow the states only because whoever    *)
(* completes was active, and whoever begins was never seen before.         *)
(***************************************************************************)

InState(s) == {t \in TxnId : txn_state[t] = s}

Final == {"COMMITTED", "ABORTED"}

\* Exactly the ids not yet given out are NEW, and the history lists
\* transactions that are over.
Begun ==
    \A t \in TxnId : /\ txn_state[t] = "NEW" <=> t >= next_transaction_id
                     /\ t \in completed_history => txn_state[t] \in Final

TxnInv == TxnTypeOK /\ StatisticsAgree /\ Begun

\* Sets of ids are finite.
LEMMA IdsFinite ==
    ASSUME NEW S \in SUBSET TxnId
    PROVE  IsFiniteSet(S) /\ Cardinality(S) \in Nat
<1>1. IsFiniteSet(TxnId) BY MaxTxnAssumption, FS_Interval DEF TxnId
<1>2. QED BY <1>1, FS_Subset, FS_CardinalityType

\* Disjoint sets of ids, counted.
LEMMA CountUnion ==
    ASSUME NEW S \in SUBSET TxnId, NEW T \in SUBSET TxnId, S \cap T = {}
    PROVE  Cardinality(S \cup T) = Cardinality(S) + Cardinality(T)
<1>1. Cardinality(S \cup T)
          = Cardinality(S) + Cardinality(T) - Cardinality(S \cap T)
    BY IdsFinite, FS_Union
<1>2. Cardinality(S \cap T) = 0 BY FS_EmptySet
<1>3. QED BY <1>1, <1>2, IdsFinite

\* No transaction has begun at the start.
LEMMA TxnInitInv == TxnInit => TxnInv
<1> SUFFICES ASSUME TxnInit PROVE TxnInv
    OBVIOUS
<1>1. TxnTypeOK
    BY MaxTxnAssumption DEF TxnInit, TxnTypeOK, TxnId, TxnState
<1>2. Cardinality({}) = 0 BY FS_EmptySet
<1>3. \A s \in Final \cup {"ACTIVE"} : InState(s) = {}
    BY DEF TxnInit, InState, Final
<1>4. StatisticsAgree
    BY <1>2, <1>3 DEF TxnInit, StatisticsAgree, InState, Final
<1>5. Begun BY DEF TxnInit, Begun, TxnId
<1>6. QED BY <1>1, <1>4, <1>5 DEF TxnInv

\* A new transaction is counted among the active ones, and nowhere else.
LEMMA BeginInv ==
    ASSUME TxnInv, NEW t \in TxnId, beginTransaction(t)
    PROVE  StatisticsAgree' /\ Begun'
<1> USE DEF TxnInv
<1>1. /\ t = next_transaction_id /\ next_transaction_id' = t + 1
      /\ txn_state' = [txn_state EXCEPT ![t] = "ACTIVE"]
      /\ active_transactions' = active_transactions \cup {t}
      /\ UNCHANGED <<completed_history, committed_count, aborted_count>>
    BY DEF beginTransaction
<1>2. /\ txn_state \in [TxnId -> TxnState]
      /\ active_transactions \in SUBSET TxnId
      /\ committed_count \in Nat /\ aborted_count \in Nat
      /\ t \in Nat /\ TxnId \subseteq Nat
    BY DEF TxnTypeOK, TxnId
<1>3. txn_state[t] = "NEW" BY <1>1, <1>2 DEF Begun
<1>4. Begun' BY <1>1, <1>2, <1>3 DEF Begun, Final
<1>5. t \notin active_transactions /\ t \notin completed_history
    BY <1>3 DEF StatisticsAgree, Begun, Final
<1>6. Cardinality(active_transactions') = Cardinality(active_transactions) + 1
    BY <1>1, <1>2, <1>5, IdsFinite, FS_AddElement
<1>7. /\ \A s \in Final : InState(s)' = InState(s)
      /\ InState("ACTIVE")' = InState("ACTIVE") \cup {t}
    BY <1>1, <1>2, <1>3 DEF InState, Final
<1>8. Cardinality(active_transactions) \in Nat BY <1>2, IdsFinite
<1>9. /\ committed_count' = Cardinality(InState("COMMITTED")')
      /\ aborted_count' = Cardinality(InState("ABORTED")')
      /\ active_transactions' = InState("ACTIVE")'
    <2>1. /\ committed_count = Cardinality(InState("COMMITTED"))
          /\ aborted_count = Cardinality(InState("ABORTED"))
          /\ active_transactions = InState("ACTIVE")
        BY DEF StatisticsAgree, InState
    <2>2. /\ InState("COMMITTED")' = InState("COMMITTED")
          /\ InState("ABORTED")' = InState("ABORTED")
        BY <1>7 DEF Final
    <2>3. QED BY <1>1, <1>7, <2>1, <2>2
<1>10. committed_count' + aborted_count' + Cardinality(active_transactions')
           = next_transaction_id' - 1
    BY <1>1, <1>2, <1>6, <1>8 DEF StatisticsAgree
<1>11. completed_history' \cap active_transactions' = {}
    BY <1>1, <1>5 DEF StatisticsAgree
<1>12. QED BY <1>4, <1>9, <1>10, <1>11 DEF StatisticsAgree, InState

\* Completing active transactions moves them from one set to another.
LEMMA FinishCounts ==
    ASSUME TxnInv, NEW done \in SUBSET active_transactions, NEW final \in Final,
           Finish(done, final)
    PROVE  /\ Begun'
           /\ \A s \in Final \ {final} : InState(s)' = InState(s)
           /\ InState("ACTIVE")' = active_transactions'
           /\ completed_history' \cap active_transactions' = {}
           /\ Cardinality(InState(final)')
                  = Cardinality(InState(final)) + Cardinality(done)
           /\ Cardinality(active_transactions')
                  = Cardinality(active_transactions) - Cardinality(done)
<1> USE DEF TxnInv
<1>1. /\ txn_state' = [t \in TxnId |-> IF t \in done THEN final ELSE txn_state[t]]
      /\ completed_history' = completed_history \cup done
      /\ active_transactions' = active_transactions \ done
      /\ UNCHANGED next_transaction_id
    BY DEF Finish
<1>2. /\ active_transactions \in SUBSET TxnId
      /\ done \in SUBSET TxnId
      /\ \A t \in done : txn_state[t] = "ACTIVE"
      /\ active_transactions = InState("ACTIVE")
    BY DEF TxnTypeOK, StatisticsAgree, InState
<1>3. Begun' BY <1>1, <1>2 DEF Begun, Final
<1>4. /\ \A s \in Final \ {final} : InState(s)' = InState(s)
      /\ InState("ACTIVE")' = active_transactions'
      /\ InState(final)' = InState(final) \cup done
      /\ InState(final) \cap done = {}
    BY <1>1, <1>2 DEF InState, Final
<1>5. completed_history' \cap active_transactions' = {}
    BY <1>1 DEF StatisticsAgree
<1>6. Cardinality(InState(final)') = Cardinality(InState(final)) + Cardinality(done)
    <2>1. InState(final) \in SUBSET TxnId BY DEF InState
    <2>2. QED BY <1>2, <1>4, <2>1, CountUnion
<1>7. Cardinality(active_transactions')
          = Cardinality(active_transactions) - Cardinality(done)
    <2>1. /\ active_transactions = active_transactions' \cup done
          /\ active_transactions' \cap done = {}
        BY <1>1
    <2>2. active_transactions' \in SUBSET TxnId BY <1>1, <1>2
    <2>3. Cardinality(active_transactions)
              = Cardinality(active_transactions') + Cardinality(done)
        BY <1>2, <2>1, <2>2, CountUnion
    <2>4. QED BY <1>2, <2>2, <2>3, IdsFinite
<1>8. QED BY <1>3, <1>4, <1>5, <1>6, <1>7

\* The statistics after a completion that was counted.
LEMMA CountedInv ==
    ASSUME TxnInv, NEW done \in SUBSET active_transactions, NEW final \in Final,
           Finish(done, final),
           final = "COMMITTED" =>
               /\ committed_count' = committed_count + Cardinality(done)
               /\ aborted_count' = aborted_count,
           final = "ABORTED" =>
               /\ aborted_count' = aborted_count + Cardinality(done)
               /\ committed_count' = committed_count
    PROVE  StatisticsAgree' /\ Begun'
<1>1. /\ Cardinality(done) \in Nat /\ Cardinality(active_transactions) \in Nat
      /\ committed_count \in Nat /\ aborted_count \in Nat
      /\ next_transaction_id \in Nat /\ next_transaction_id' = next_transaction_id
    BY IdsFinite, MaxTxnAssumption DEF TxnInv, TxnTypeOK, Finish
<1>2. /\ committed_count = Cardinality(InState("COMMITTED"))
      /\ aborted_count = Cardinality(InState("ABORTED"))
      /\ committed_count + aborted_count + Cardinality(active_transactions)
             = next_transaction_id - 1
    BY DEF TxnInv, StatisticsAgree, InState
<1>3. /\ Begun'
      /\ \A s \in Final \ {final} : InState(s)' = InState(s)
      /\ InState("ACTIVE")' = active_transactions'
      /\ completed_history' \cap active_transactions' = {}
      /\ Cardinality(InState(final)')
             = Cardinality(InState(final)) + Cardinality(done)
      /\ Cardinality(active_transactions')
             = Cardinality(active_transactions) - Cardinality(done)
    BY FinishCounts
<1>4. /\ committed_count' = Cardinality(InState("COMMITTED")')
      /\ aborted_count' = Cardinality(InState("ABORTED")')
    <2>1. CASE final = "COMMITTED"
        <3>1. InState("ABORTED")' = InState("ABORTED")
            BY <1>3, <2>1 DEF Final
        <3>2. QED BY <1>2, <1>3, <2>1, <3>1
    <2>2. CASE final = "ABORTED"
        <3>1. InState("COMMITTED")' = InState("COMMITTED")
            BY <1>3, <2>2 DEF Final
        <3>2. QED BY <1>2, <1>3, <2>2, <3>1
    <2>3. QED BY <2>1, <2>2 DEF Final
<1>5. committed_count' + aborted_count' + Cardinality(active_transactions')
          = next_transaction_id' - 1
    <2>1. CASE final = "COMMITTED" BY <1>1, <1>2, <1>3, <2>1
    <2>2. CASE final = "ABORTED" BY <1>1, <1>2, <1>3, <2>2
    <2>3. QED BY <2>1, <2>2 DEF Final
<1>6. QED BY <1>3, <1>4, <1>5 DEF StatisticsAgree, InState

\* Every operation keeps the statistics in step with the states.
LEMMA TxnNextInv == TxnInv /\ [TxnNext]_txnVars => TxnInv'
<1> SUFFICES ASSUME TxnInv, [TxnNext]_txnVars PROVE TxnInv'
    OBVIOUS
<1>1. TxnTypeOK /\ active_transactions \in SUBSET TxnId
    BY DEF TxnInv, TxnTypeOK
<1>2. ASSUME NEW t \in TxnId, beginTransaction(t)
      PROVE  TxnInv'
    BY <1>1, <1>2, TxnStepType, BeginInv DEF TxnInv
<1>3. ASSUME NEW t \in TxnId, commitTransaction(t)
      PROVE  TxnInv'
    <2>1. {t} \in SUBSET active_transactions /\ Cardinality({t}) = 1
        BY <1>3, FS_Singleton DEF commitTransaction
    <2>2. StatisticsAgree' /\ Begun'
        BY <1>3, <2>1, CountedInv DEF commitTransaction, Final
    <2>3. QED BY <1>1, <1>3, <2>2, TxnStepType DEF TxnInv
<1>4. ASSUME NEW t \in TxnId, abortTransaction(t)
      PROVE  TxnInv'
    <2>1. {t} \in SUBSET active_transactions /\ Cardinality({t}) = 1
        BY <1>4, FS_Singleton DEF abortTransaction
    <2>2. StatisticsAgree' /\ Begun'
        BY <1>4, <2>1, CountedInv DEF abortTransaction, Final
    <2>3. QED BY <1>1, <1>4, <2>2, TxnStepType DEF TxnInv
<1>5. CASE abortAllTransactions
    <2>1. StatisticsAgree' /\ Begun'
        BY <1>5, CountedInv DEF abortAllTransactions, Final
    <2>2. QED BY <1>1, <1>5, <2>1, TxnStepType DEF TxnInv
<1>6. CASE clearCompletedTransactions
    BY <1>6 DEF clearCompletedTransactions, TxnInv, TxnTypeOK, StatisticsAgree, Begun
<1>7. CASE UNCHANGED txnVars
    BY <1>7 DEF txnVars, TxnInv, TxnTypeOK, StatisticsAgree, Begun
<1>8. QED BY <1>2, <1>3, <1>4, <1>5, <1>6, <1>7 DEF TxnNext

\* The statistics count what happened, for any number of transactions begun,
\* committed and aborted singly or in bulk, and after the history is cleared.
THEOREM StatisticsCorrect == TxnSpec => []StatisticsAgree
<1>1. TxnInv => StatisticsAgree BY DEF TxnInv
<1>2. QED BY <1>1, TxnInitInv, TxnNextInv, PTL DEF TxnSpec

\* Every operation moves transactions forward only.
LEMMA TxnForward == TxnInv /\ [TxnNext]_txnVars => [LifecycleStep]_txnVars
<1> SUFFICES ASSUME TxnInv, TxnNext, NEW t \in TxnId,
                    txn_state'[t] # txn_state[t]
             PROVE  \/ txn_state[t] = "NEW" /\ txn_state'[t] = "ACTIVE"
                    \/ txn_state[t] = "ACTIVE" /\ txn_state'[t] \in Final
    BY DEF LifecycleStep, Final
<1>1. txn_state \in [TxnId -> TxnState] BY DEF TxnInv, TxnTypeOK
<1>2. ASSUME NEW done \in SUBSET active_transactions, NEW final \in Final,
             Finish(done, final)
      PROVE  txn_state[t] = "ACTIVE" /\ txn_state'[t] \in Final
    BY <1>1, <1>2 DEF Finish, TxnInv, StatisticsAgree
<1>3. ASSUME NEW u \in TxnId, beginTransaction(u)
      PROVE  txn_state[t] = "NEW" /\ txn_state'[t] = "ACTIVE"
    <2>1. u \in Nat /\ u = next_transaction_id
        BY <1>3 DEF TxnId, beginTransaction
    <2>2. txn_state[u] = "NEW" BY <2>1 DEF TxnInv, Begun
    <2>3. QED BY <1>1, <1>3, <2>2 DEF beginTransaction
<1>4. CASE clearCompletedTransactions
    BY <1>4 DEF clearCompletedTransactions
<1>5. ASSUME NEW u \in TxnId, commitTransaction(u) \/ abortTransaction(u)
      PROVE  txn_state[t] = "ACTIVE" /\ txn_state'[t] \in Final
    BY <1>2, <1>5 DEF commitTransaction, abortTransaction, Final
<1>6. CASE abortAllTransactions
    BY <1>2, <1>6 DEF abortAllTransactions, Final
<1>7. QED BY <1>3, <1>4, <1>5, <1>6 DEF TxnNext

\* A transaction goes from NEW to ACTIVE to COMMITTED or ABORTED, once.
THEOREM LifecycleRespected == TxnSpec => Lifecycle
<1>1. QED BY TxnForward, TxnInitInv, TxnNextInv, PTL DEF TxnSpec, Lifecycle

=============================================================================
