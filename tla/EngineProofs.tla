----------------------------- MODULE EngineProofs -----------------------------
(***************************************************************************)
(* Proofs about Engine: it uses the lock manager as LockManager specifies, *)
(* so the lock manager's theorems hold inside it, and they give isolation  *)
(* for every number of transactions, records and commands.                 *)
(***************************************************************************)
EXTENDS Engine, LockManagerProofs, TransactionManagerProofs

-----------------------------------------------------------------------------
(***************************************************************************)
(* Type correctness.                                                       *)
(***************************************************************************)

\* The elements of a concatenation, by position.
LEMMA ConcatElements ==
    ASSUME NEW S, NEW l \in Seq(S), NEW r \in Seq(S)
    PROVE  /\ DOMAIN (l \o r) = 1..(Len(l) + Len(r))
           /\ \A j \in 1..Len(l) : (l \o r)[j] = l[j]
           /\ \A j \in (Len(l) + 1)..(Len(l) + Len(r)) :
                 (l \o r)[j] = r[j - Len(l)]
OBVIOUS

\* The elements of a subsequence, by position.
LEMMA SubSeqElements ==
    ASSUME NEW S, NEW q \in Seq(S), NEW a \in 1..(Len(q) + 1),
           NEW b \in (a - 1)..Len(q)
    PROVE  /\ SubSeq(q, a, b) \in Seq(S)
           /\ Len(SubSeq(q, a, b)) = b - a + 1
           /\ \A j \in 1..(b - a + 1) : SubSeq(q, a, b)[j] = q[a + j - 1]
OBVIOUS

\* A command's place before the removal of the one at i.
Before(i, j) == IF j < i THEN j ELSE j + 1

\* The commands that are left keep their order.
LEMMA RemoveElements ==
    ASSUME NEW S, NEW q \in Seq(S), NEW i \in 1..Len(q)
    PROVE  /\ RemoveCommand(q, i) \in Seq(S)
           /\ DOMAIN RemoveCommand(q, i) = 1..(Len(q) - 1)
           /\ \A j \in 1..(Len(q) - 1) :
                 RemoveCommand(q, i)[j] = q[Before(i, j)]
<1> DEFINE l == SubSeq(q, 1, i - 1)
           r == SubSeq(q, i + 1, Len(q))
<1>1. /\ l \in Seq(S) /\ Len(l) = i - 1
      /\ \A j \in 1..(i - 1) : l[j] = q[j]
    <2>1. 1 \in 1..(Len(q) + 1) /\ i - 1 \in (1 - 1)..Len(q) OBVIOUS
    <2>2. QED BY <2>1, SubSeqElements
<1>2. /\ r \in Seq(S) /\ Len(r) = Len(q) - i
      /\ \A j \in 1..(Len(q) - i) : r[j] = q[i + j]
    <2>1. i + 1 \in 1..(Len(q) + 1) /\ Len(q) \in ((i + 1) - 1)..Len(q) OBVIOUS
    <2>2. QED BY <2>1, SubSeqElements
<1> HIDE DEF l, r
<1>3. /\ DOMAIN (l \o r) = 1..(Len(l) + Len(r))
      /\ \A j \in 1..Len(l) : (l \o r)[j] = l[j]
      /\ \A j \in (Len(l) + 1)..(Len(l) + Len(r)) :
            (l \o r)[j] = r[j - Len(l)]
    BY <1>1, <1>2, ConcatElements
<1>4. RemoveCommand(q, i) = l \o r BY DEF RemoveCommand, l, r
<1>5. ASSUME NEW j \in 1..(Len(q) - 1)
      PROVE  (l \o r)[j] = q[Before(i, j)]
    <2>1. CASE j < i BY <1>1, <1>3, <2>1 DEF Before
    <2>2. CASE ~ j < i
        <3>1. j - Len(l) \in 1..(Len(q) - i) /\ i + (j - Len(l)) = j + 1
            BY <1>1, <2>2
        <3>2. (l \o r)[j] = r[j - Len(l)] BY <1>1, <1>2, <1>3, <2>2
        <3>3. QED BY <1>2, <2>2, <3>1, <3>2 DEF Before
    <2>3. QED BY <2>1, <2>2
<1>6. QED BY <1>1, <1>2, <1>3, <1>4, <1>5

\* pending.erase(it) leaves a sequence of commands that were there before.
LEMMA RemoveCommandType ==
    ASSUME NEW S, NEW q \in Seq(S), NEW i \in 1..Len(q)
    PROVE  /\ RemoveCommand(q, i) \in Seq(S)
           /\ \A j \in DOMAIN RemoveCommand(q, i) :
                 \E k \in DOMAIN q : RemoveCommand(q, i)[j] = q[k]
<1>1. \A j \in 1..(Len(q) - 1) : Before(i, j) \in DOMAIN q BY DEF Before
<1>2. QED BY <1>1, RemoveElements

\* The active ids are transactions of the lock manager.
LEMMA ActiveInTxn ==
    TxnTypeOK => active_transactions \subseteq Txn
BY EngineAssumption DEF TxnTypeOK

\* An executed command leaves records and histories of the right type.
LEMMA ExecuteType ==
    ASSUME EngineTypeOK, NEW c \in Command, NEW done \in BOOLEAN,
           executeCommand(c, done)
    PROVE  /\ data_store' \in [Resource -> Txn \cup {0}]
           /\ log' \in [Txn -> Seq(LogType)]
           /\ executed' \in [Txn -> Seq(Command)]
<1>1. CASE UNCHANGED <<data_store, log, executed>>
    BY <1>1 DEF EngineTypeOK
<1>2. CASE Perform(c)
    <2>1. c.txn \in Txn /\ c.res \in Resource BY DEF Command
    <2>2. executed' \in [Txn -> Seq(Command)]
        <3>1. Append(executed[c.txn], c) \in Seq(Command)
            BY <2>1 DEF EngineTypeOK
        <3>2. QED BY <1>2, <3>1 DEF Perform, EngineTypeOK
    <2>3. CASE c.op = "WRITE"
        <3>1. data_store' \in [Resource -> Txn \cup {0}]
            BY <1>2, <2>1, <2>3 DEF Perform, EngineTypeOK
        <3>2. Append(log[c.txn], "UPDATE") \in Seq(LogType)
            BY <2>1 DEF EngineTypeOK, LogType
        <3>3. log' \in [Txn -> Seq(LogType)]
            BY <1>2, <2>3, <3>2 DEF Perform, writeLog, EngineTypeOK
        <3>4. QED BY <2>2, <3>1, <3>3
    <2>4. CASE c.op # "WRITE"
        BY <1>2, <2>2, <2>4 DEF Perform, EngineTypeOK
    <2>5. QED BY <2>3, <2>4
<1>3. QED BY <1>1, <1>2 DEF executeCommand

\* READ and WRITE make a command of the right type.
LEMMA IssuedCommandType ==
    ASSUME EngineTypeOK, NEW t \in Txn, NEW op \in Op, NEW r \in Resource,
           ReadOrWrite(t, op, r)
    PROVE  /\ [op |-> op, txn |-> t, res |-> r,
               n |-> IF isTransactionActive(t) THEN issued'[t] ELSE 0]
                  \in Command
           /\ issued' \in [Txn -> 0..MaxOps]
<1>1. issued[t] \in 0..MaxOps /\ 0 \in 0..MaxOps
    BY BoundsAssumption DEF EngineTypeOK
<1>2. isTransactionActive(t) => issued[t] + 1 \in 0..MaxOps
    BY <1>1, BoundsAssumption DEF ReadOrWrite, MayIssue
<1>3. issued' = IF isTransactionActive(t)
                THEN [issued EXCEPT ![t] = issued[t] + 1] ELSE issued
    BY DEF ReadOrWrite
<1>4. issued' \in [Txn -> 0..MaxOps]
    BY <1>2, <1>3 DEF EngineTypeOK
<1>5. QED BY <1>1, <1>4 DEF Command

\* Every step of the engine is a step of the lock manager or leaves its
\* variables alone.
LEMMA EngineLockStep ==
    EngineTypeOK /\ [EngineNext]_vars => [LockNext]_lockVars
<1> SUFFICES ASSUME EngineTypeOK, EngineNext
             PROVE  LockNext \/ UNCHANGED lockVars
    BY DEF vars
<1>1. ASSUME NEW c \in Command, NEW done \in BOOLEAN, executeCommand(c, done)
      PROVE  LockNext \/ UNCHANGED lockVars
    <2>1. CASE UNCHANGED lockVars BY <2>1
    <2>2. CASE RequestLock(c.txn, c.res, LockFor(c.op), done)
        <3>1. /\ c.txn \in Txn
              /\ c.res \in Resource
              /\ LockFor(c.op) \in RequestTypes
            BY EngineAssumption DEF Command, LockFor
        <3>2. QED BY <2>2, <3>1 DEF LockNext
    <2>3. QED BY <1>1, <2>1, <2>2 DEF executeCommand
<1>2. ASSUME NEW t \in Txn, Begin(t) \/ Commit(t) \/ Abort(t)
      PROVE  LockNext \/ UNCHANGED lockVars
    BY <1>2 DEF Begin, Commit, Abort, LockNext, Housekeeping
<1>3. ASSUME NEW t \in Txn, NEW op \in Op, NEW r \in Resource,
             ReadOrWrite(t, op, r)
      PROVE  LockNext \/ UNCHANGED lockVars
    <2> DEFINE c == [op |-> op, txn |-> t, res |-> r,
                     n |-> IF isTransactionActive(t) THEN issued'[t] ELSE 0]
    <2>1. CASE UNCHANGED lockVars BY <2>1
    <2>2. CASE \E done \in BOOLEAN : executeCommand(c, done)
        <3>1. c \in Command BY <1>3, IssuedCommandType
        <3>2. QED BY <1>1, <2>2, <3>1
    <2>3. QED BY <1>3, <2>1, <2>2 DEF ReadOrWrite
<1>4. ASSUME NEW child \in Resource, NEW parent \in Resource,
             Show(child, parent)
      PROVE  LockNext \/ UNCHANGED lockVars
    BY <1>4 DEF Show, LockNext, Housekeeping
<1>5. CASE Recover \/ DrainPass \/ RecoverLog
    BY <1>5 DEF Recover, DrainPass, RecoverLog
<1>6. CASE DrainCommand
    <2> DEFINE c == pending[cursor]
    <2>1. c \in Command BY <1>6 DEF DrainCommand, EngineTypeOK
    <2>2. UNCHANGED lockVars \/ \E done \in BOOLEAN : executeCommand(c, done)
        BY <1>6 DEF DrainCommand
    <2>3. QED BY <1>1, <2>1, <2>2
<1>7. CASE RecoverTxn
    BY <1>7 DEF RecoverTxn, EngineTypeOK, LockNext, Housekeeping
<1>8. QED BY <1>2, <1>3, <1>4, <1>5, <1>6, <1>7 DEF EngineNext, LoopStep

\* The engine's own variables.
SessionTypeOK ==
    /\ pending \in Seq(Command)
    /\ data_store \in [Resource -> Txn \cup {0}]
    /\ log \in [Txn -> Seq(LogType)]
    /\ phase \in {"idle", "draining", "recovering"}
    /\ cursor \in Nat \ {0}
    /\ made_progress \in BOOLEAN
    /\ todo \in SUBSET Txn
    /\ issued \in [Txn -> 0..MaxOps]
    /\ executed \in [Txn -> Seq(Command)]

\* The engine starts well typed.
LEMMA EngineInitType == EngineInit => EngineTypeOK
<1> SUFFICES ASSUME EngineInit PROVE EngineTypeOK OBVIOUS
<1>1. LockTypeOK BY InitType DEF EngineInit
<1>2. TxnTypeOK
    BY MaxTxnAssumption DEF EngineInit, TxnInit, TxnTypeOK, TxnState
<1>3. /\ << >> \in Seq(Command) /\ << >> \in Seq(LogType)
      /\ 0 \in 0..MaxOps
    BY BoundsAssumption
<1>4. /\ pending \in Seq(Command)
      /\ log \in [Txn -> Seq(LogType)]
      /\ executed \in [Txn -> Seq(Command)]
    BY <1>3 DEF EngineInit
<1>5. /\ data_store \in [Resource -> Txn \cup {0}]
      /\ issued \in [Txn -> 0..MaxOps]
    BY <1>3 DEF EngineInit
<1>6. /\ phase \in {"idle", "draining", "recovering"}
      /\ cursor \in Nat \ {0}
      /\ todo \in SUBSET Txn
    BY DEF EngineInit
<1>7. made_progress \in BOOLEAN BY Zenon DEF EngineInit
<1>8. QED BY <1>1, <1>2, <1>4, <1>5, <1>6, <1>7 DEF EngineTypeOK

\* Every command uses TransactionManager through its operations only, so its
\* types hold inside the engine.
LEMMA EngineTxnStep ==
    ASSUME EngineTypeOK, [EngineNext]_vars
    PROVE  TxnTypeOK'
<1>1. \/ \E t \in TxnId : beginTransaction(t)
      \/ \E t \in TxnId : commitTransaction(t)
      \/ \E t \in TxnId : abortTransaction(t)
      \/ abortAllTransactions
      \/ UNCHANGED txnVars
    BY EngineAssumption
       DEF EngineNext, vars, Begin, Commit, Abort, ReadOrWrite, Show, Recover,
           LoopStep, DrainCommand, DrainPass, RecoverTxn, RecoverLog
<1>2. QED BY <1>1, TxnStepType DEF EngineTypeOK

\* A step of the engine is a call of the transaction manager, or none.
LEMMA EngineTxnNext ==
    [EngineNext]_vars => [TxnNext]_txnVars
BY EngineAssumption
   DEF EngineNext, vars, Begin, Commit, Abort, ReadOrWrite, Show, Recover,
       LoopStep, DrainCommand, DrainPass, RecoverTxn, RecoverLog, TxnNext

\* writeLog keeps the log a sequence of records per transaction.
LEMMA WriteLogType ==
    ASSUME SessionTypeOK, NEW t \in Txn, NEW type \in LogType,
           writeLog(t, type)
    PROVE  log' \in [Txn -> Seq(LogType)]
<1>1. Append(log[t], type) \in Seq(LogType) BY DEF SessionTypeOK
<1>2. QED BY <1>1 DEF writeLog, SessionTypeOK

\* Every command and every iteration of a loop keeps the types.
LEMMA EngineNextType == EngineTypeOK /\ [EngineNext]_vars => EngineTypeOK'
<1> SUFFICES ASSUME EngineTypeOK, [EngineNext]_vars PROVE EngineTypeOK'
    OBVIOUS
<1>1. LockTypeOK' BY EngineLockStep, NextType DEF EngineTypeOK
<1>2. TxnTypeOK' BY EngineTxnStep
<1>3. SessionTypeOK BY DEF EngineTypeOK, SessionTypeOK
<1>4. SUFFICES SessionTypeOK'
    BY <1>1, <1>2, <1>4 DEF EngineTypeOK, SessionTypeOK
<1>5. ASSUME NEW t \in Txn, Begin(t) PROVE SessionTypeOK'
    <2>1. log' \in [Txn -> Seq(LogType)]
        BY <1>3, <1>5, WriteLogType DEF Begin, LogType
    <2>2. QED BY <1>3, <1>5, <2>1
             DEF Begin, loopVars, historyVars, SessionTypeOK
<1>6. ASSUME NEW t \in Txn, Commit(t) PROVE SessionTypeOK'
    <2>1. log' \in [Txn -> Seq(LogType)]
        BY <1>3, <1>6, WriteLogType DEF Commit, LogType
    <2>2. /\ phase' = "draining" /\ cursor' = 1
          /\ UNCHANGED <<todo, pending, data_store, issued, executed>>
        BY <1>6 DEF Commit, StartDrain, historyVars
    <2>3. made_progress' \in BOOLEAN BY <1>6, Zenon DEF Commit, StartDrain
    <2>4. QED BY <1>3, <2>1, <2>2, <2>3 DEF SessionTypeOK
<1>7. ASSUME NEW t \in Txn, Abort(t) PROVE SessionTypeOK'
    <2>1. log' \in [Txn -> Seq(LogType)]
        BY <1>3, <1>7, WriteLogType DEF Abort, LogType
    <2>2. /\ phase' = "draining" /\ cursor' = 1
          /\ UNCHANGED <<todo, pending, data_store, issued, executed>>
        BY <1>7 DEF Abort, StartDrain, historyVars
    <2>3. made_progress' \in BOOLEAN BY <1>7, Zenon DEF Abort, StartDrain
    <2>4. QED BY <1>3, <2>1, <2>2, <2>3 DEF SessionTypeOK
<1>8. ASSUME NEW t \in Txn, NEW op \in Op, NEW r \in Resource,
             ReadOrWrite(t, op, r)
      PROVE  SessionTypeOK'
    <2> DEFINE c == [op |-> op, txn |-> t, res |-> r,
                     n |-> IF isTransactionActive(t) THEN issued'[t] ELSE 0]
    <2>1. c \in Command /\ issued' \in [Txn -> 0..MaxOps]
        BY <1>8, IssuedCommandType
    <2>2. pending' = pending \/ pending' = Append(pending, c)
        BY <1>8 DEF ReadOrWrite
    <2>3. \/ UNCHANGED <<data_store, log, executed>>
          \/ \E done \in BOOLEAN : executeCommand(c, done)
        BY <1>8 DEF ReadOrWrite
    <2>4. UNCHANGED loopVars BY <1>8 DEF ReadOrWrite
    <2> HIDE DEF c
    <2>5. pending' \in Seq(Command)
        <3>1. pending \in Seq(Command) BY <1>3 DEF SessionTypeOK
        <3>2. Append(pending, c) \in Seq(Command) BY <2>1, <3>1
        <3>3. QED BY <2>2, <3>1, <3>2
    <2>6. /\ data_store' \in [Resource -> Txn \cup {0}]
          /\ log' \in [Txn -> Seq(LogType)]
          /\ executed' \in [Txn -> Seq(Command)]
        BY <1>3, <2>1, <2>3, ExecuteType DEF SessionTypeOK
    <2>7. QED BY <1>3, <2>1, <2>4, <2>5, <2>6 DEF loopVars, SessionTypeOK
<1>9. ASSUME NEW child \in Resource, NEW parent \in Resource,
             Show(child, parent)
      PROVE  SessionTypeOK'
    BY <1>3, <1>9 DEF Show, sessionVars, loopVars, historyVars, SessionTypeOK
<1>10. CASE Recover
    BY <1>3, <1>10, ActiveInTxn
       DEF Recover, sessionVars, historyVars, SessionTypeOK, EngineTypeOK
<1>11. CASE DrainCommand
    <2> DEFINE c == pending[cursor]
    <2>1. cursor \in 1..Len(pending) BY <1>3, <1>11 DEF DrainCommand, SessionTypeOK
    <2>2. c \in Command BY <1>3, <2>1 DEF SessionTypeOK
    <2>3. /\ pending' = pending \/ pending' = RemoveCommand(pending, cursor)
          /\ cursor' = cursor \/ cursor' = cursor + 1
          /\ made_progress' = made_progress \/ made_progress' = TRUE
          /\ \/ UNCHANGED <<data_store, log, executed>>
             \/ \E done \in BOOLEAN : executeCommand(c, done)
          /\ UNCHANGED <<phase, todo, issued>>
        BY <1>11 DEF DrainCommand
    <2> HIDE DEF c
    <2>4. pending' \in Seq(Command)
        BY <1>3, <2>1, <2>3, RemoveCommandType DEF SessionTypeOK
    <2>5. cursor' \in Nat \ {0} BY <1>3, <2>3 DEF SessionTypeOK
    <2>6. /\ data_store' \in [Resource -> Txn \cup {0}]
          /\ log' \in [Txn -> Seq(LogType)]
          /\ executed' \in [Txn -> Seq(Command)]
        BY <1>3, <2>2, <2>3, ExecuteType DEF SessionTypeOK
    <2>7. made_progress' \in BOOLEAN BY <1>3, <2>3, Zenon DEF SessionTypeOK
    <2>8. UNCHANGED <<phase, todo, issued>> BY <2>3
    <2>9. QED BY <1>3, <2>4, <2>5, <2>6, <2>7, <2>8 DEF SessionTypeOK
<1>12. CASE DrainPass
    <2>1. /\ phase' \in {"draining", "idle"} /\ cursor' = 1
          /\ UNCHANGED <<pending, data_store, log, todo, issued, executed>>
        BY <1>12 DEF DrainPass, sessionVars, historyVars
    <2>2. made_progress' \in BOOLEAN BY <1>12, Zenon DEF DrainPass
    <2>3. QED BY <1>3, <2>1, <2>2 DEF SessionTypeOK
<1>13. CASE RecoverTxn
    BY <1>3, <1>13 DEF RecoverTxn, sessionVars, historyVars, SessionTypeOK
<1>14. CASE RecoverLog
    <2>1. /\ pending' \in Seq(Command) /\ phase' = "idle"
        BY <1>14 DEF RecoverLog
    <2>2. \A t \in Txn : Append(log[t], "ABORT") \in Seq(LogType)
        BY <1>3 DEF SessionTypeOK, LogType
    <2>3. log' \in [Txn -> Seq(LogType)]
        BY <1>3, <1>14, <2>2 DEF RecoverLog, SessionTypeOK
    <2>4. QED BY <1>3, <1>14, <2>1, <2>3
             DEF RecoverLog, historyVars, SessionTypeOK
<1>15. CASE UNCHANGED vars
    BY <1>3, <1>15
       DEF vars, sessionVars, loopVars, historyVars, SessionTypeOK
<1>16. QED
    BY <1>5, <1>6, <1>7, <1>8, <1>9, <1>10, <1>11, <1>12, <1>13, <1>14, <1>15
       DEF EngineNext, LoopStep

\* The engine's type invariant: pending only ever holds well-formed commands,
\* the iterator never leaves it, and the parts keep their types.
THEOREM EngineTypeCorrect == EngineSpec => []EngineTypeOK
BY EngineInitType, EngineNextType, PTL DEF EngineSpec

\* The engine uses the lock manager as LockManager specifies: what holds of
\* LockSpec holds of the lock manager inside the engine.
THEOREM UsesLockManager == EngineSpec => LockSpec
<1>1. EngineInit => LockInit BY DEF EngineInit
<1>2. QED
    BY <1>1, EngineLockStep, EngineTypeCorrect, PTL DEF EngineSpec, LockSpec

\* And it uses the transaction manager as TransactionManager specifies.
THEOREM UsesTransactionManager == EngineSpec => TxnSpec
<1>1. EngineInit => TxnInit BY DEF EngineInit
<1>2. QED BY <1>1, EngineTxnNext, PTL DEF EngineSpec, TxnSpec

-----------------------------------------------------------------------------
(***************************************************************************)
(* Isolation.  The argument: a command executes only with its lock, an     *)
(* active transaction keeps its locks, and the locks of two transactions   *)
(* are compatible.  What has to be added is that an active transaction is  *)
(* not in the lock manager's completed set, where its locks would no       *)
(* longer be protected: the two classes learn of a completion separately.  *)
(***************************************************************************)

\* A granted request for X leaves an X lock, a granted request a lock.
LEMMA GrantedHas ==
    ASSUME LockTypeOK, NEW t \in Txn, NEW x \in Resource, NEW m \in Mode,
           t \notin completed_transactions,
           RequestLock(t, x, m, TRUE)
    PROVE  /\ HasLock(t, x)'
           /\ m = "X" => "X" \in HeldModes(t, x)'
<1>1. PICK found \in [Path(x) -> Mode \cup {NoLock}] :
          /\ \A y \in Path(x) : found[y] \in Existing(t, y)
          /\ RequestActive(t, x, m, found, TRUE)
    BY DEF RequestLock
<1>2. x \in Won(t, x, m, found) BY <1>1 DEF RequestActive
<1>3. HasLock(t, x)' BY <1>1, <1>2, WonHas
<1>4. ASSUME m = "X" PROVE "X" \in HeldModes(t, x)'
    <2>1. Asked(x, m, x) = "X" BY <1>4 DEF Asked
    <2>2. CASE x \in Inserted(t, x, m, found)
        <3>1. Asked(x, m, x) \in HeldModes(t, x)' BY <1>1, <2>2, RequestModes
        <3>2. QED BY <2>1, <3>1
    <2>3. CASE Covers(found[x], "X")
        <3>1. found[x] = "X" BY <2>3 DEF Covers
        <3>2. "X" \in HeldModes(t, x)
            <4>1. x \in Path(x) BY DEF Path
            <4>2. "X" \in Existing(t, x) BY <1>1, <3>1, <4>1
            <4>3. QED BY <4>2 DEF Existing, NoLock
        <3>3. x \notin Inserted(t, x, m, found)
            BY <2>1, <2>3 DEF Inserted
        <3>4. QED BY <1>1, <3>2, <3>3, RequestModes
    <2>4. QED BY <1>2, <2>1, <2>2, <2>3 DEF Inserted
<1>5. QED BY <1>3, <1>4

\* The two managers agree on who is over, and ids are handed out in order.
ManagersAgree ==
    /\ active_transactions \cap (completed_transactions \cup todo) = {}
    /\ \A t \in active_transactions \cup completed_transactions \cup todo :
          t < next_transaction_id
    /\ \A t \in Txn : t >= next_transaction_id => executed[t] = << >>

EngineInv ==
    /\ EngineTypeOK
    /\ SafetyInv
    /\ ManagersAgree
    /\ AccessLocked

\* The invariant holds before the first command.
LEMMA EngineInitInv == EngineInit => EngineInv
<1> SUFFICES ASSUME EngineInit PROVE EngineInv OBVIOUS
<1>1. EngineTypeOK BY EngineInitType
<1>2. SafetyInv BY InitSafety DEF EngineInit
<1>3. active_transactions = {} BY DEF EngineInit, TxnInit
<1>4. /\ completed_transactions = {}
      /\ todo = {}
      /\ \A t \in Txn : executed[t] = << >>
    BY DEF EngineInit, LockInit
<1>5. ManagersAgree BY <1>3, <1>4 DEF ManagersAgree
<1>6. AccessLocked BY <1>3 DEF AccessLocked
<1>7. QED BY <1>1, <1>2, <1>5, <1>6 DEF EngineInv

\* What a step does to the history of executed commands: nothing, or it adds
\* one command of an active transaction that has just been given its lock.
Executes(c) ==
    /\ isTransactionActive(c.txn)
    /\ RequestLock(c.txn, c.res, LockFor(c.op), TRUE)
    /\ executed' = [executed EXCEPT ![c.txn] = Append(@, c)]
    /\ UNCHANGED txnVars
    /\ UNCHANGED todo

\* Commands execute only as Executes says, whether they come from the user or
\* from pending.
LEMMA HistoryStep ==
    ASSUME EngineTypeOK, [EngineNext]_vars
    PROVE  UNCHANGED executed \/ \E c \in Command : Executes(c)
<1>1. ASSUME NEW c \in Command, NEW done \in BOOLEAN,
             executeCommand(c, done), UNCHANGED txnVars, UNCHANGED todo
      PROVE  UNCHANGED executed \/ Executes(c)
    BY <1>1 DEF executeCommand, Perform, Executes
<1>2. ASSUME NEW t \in Txn, Begin(t) \/ Commit(t) \/ Abort(t)
      PROVE  UNCHANGED executed
    BY <1>2 DEF Begin, Commit, Abort, historyVars
<1>3. ASSUME NEW t \in Txn, NEW op \in Op, NEW r \in Resource,
             ReadOrWrite(t, op, r)
      PROVE  UNCHANGED executed \/ \E c \in Command : Executes(c)
    <2> DEFINE c == [op |-> op, txn |-> t, res |-> r,
                     n |-> IF isTransactionActive(t) THEN issued'[t] ELSE 0]
    <2>1. c \in Command BY <1>3, IssuedCommandType
    <2>2. UNCHANGED txnVars /\ UNCHANGED todo
        BY <1>3 DEF ReadOrWrite, loopVars
    <2>3. UNCHANGED executed \/ \E done \in BOOLEAN : executeCommand(c, done)
        BY <1>3 DEF ReadOrWrite
    <2> HIDE DEF c
    <2>4. QED BY <1>1, <2>1, <2>2, <2>3
<1>4. CASE DrainCommand
    <2> DEFINE c == pending[cursor]
    <2>1. c \in Command BY <1>4 DEF DrainCommand, EngineTypeOK
    <2>2. UNCHANGED txnVars /\ UNCHANGED todo BY <1>4 DEF DrainCommand
    <2>3. UNCHANGED executed \/ \E done \in BOOLEAN : executeCommand(c, done)
        BY <1>4 DEF DrainCommand
    <2> HIDE DEF c
    <2>4. QED BY <1>1, <2>1, <2>2, <2>3
<1>5. CASE \/ Recover \/ DrainPass \/ RecoverTxn \/ RecoverLog
           \/ UNCHANGED vars
    BY <1>5 DEF Recover, DrainPass, RecoverTxn, RecoverLog, vars, historyVars
<1>6. ASSUME NEW child \in Resource, NEW parent \in Resource,
             Show(child, parent)
      PROVE  UNCHANGED executed
    BY <1>6 DEF Show, historyVars
<1>7. QED BY <1>2, <1>3, <1>4, <1>5, <1>6 DEF EngineNext, LoopStep

\* What a step does to the sets ManagersAgree compares.
LEMMA ManagersStep ==
    ASSUME EngineTypeOK, [EngineNext]_vars
    PROVE  \/ /\ next_transaction_id \in Txn
              /\ active_transactions' = active_transactions \cup {next_transaction_id}
              /\ next_transaction_id' = next_transaction_id + 1
              /\ UNCHANGED <<completed_transactions, todo, executed>>
           \/ \E t \in active_transactions :
                 /\ active_transactions' = active_transactions \ {t}
                 /\ completed_transactions' = completed_transactions \cup {t}
                 /\ UNCHANGED <<next_transaction_id, todo, executed>>
           \/ /\ active_transactions' = {}
              /\ todo' = active_transactions
              /\ UNCHANGED <<next_transaction_id, completed_transactions, executed>>
           \/ \E t \in todo :
                 /\ todo' = todo \ {t}
                 /\ completed_transactions' = completed_transactions \cup {t}
                 /\ UNCHANGED <<next_transaction_id, active_transactions, executed>>
           \/ UNCHANGED <<next_transaction_id, active_transactions,
                          completed_transactions, todo>>
<1>1. ASSUME NEW t \in Txn, Begin(t)
      PROVE  /\ next_transaction_id \in Txn
             /\ active_transactions' = active_transactions \cup {next_transaction_id}
             /\ next_transaction_id' = next_transaction_id + 1
             /\ UNCHANGED <<completed_transactions, todo, executed>>
    BY <1>1 DEF Begin, beginTransaction, lockVars, loopVars, historyVars
<1>2. ASSUME NEW t \in Txn, Commit(t) \/ Abort(t)
      PROVE  /\ t \in active_transactions
             /\ active_transactions' = active_transactions \ {t}
             /\ completed_transactions' = completed_transactions \cup {t}
             /\ UNCHANGED <<next_transaction_id, todo, executed>>
    BY <1>2 DEF Commit, Abort, commitTransaction, abortTransaction, Finish,
                CompleteTransaction, StartDrain, historyVars
<1>3. CASE Recover
    <2>1. active_transactions' = {}
        BY <1>3 DEF Recover, abortAllTransactions, Finish
    <2>2. QED BY <1>3, <2>1
             DEF Recover, abortAllTransactions, Finish, lockVars, historyVars
<1>4. CASE RecoverTxn
    <2>1. PICK t \in todo : CompleteTransaction(t) /\ todo' = todo \ {t}
        BY <1>4 DEF RecoverTxn
    <2>2. completed_transactions' = completed_transactions \cup {t}
        BY <2>1 DEF CompleteTransaction
    <2>3. UNCHANGED <<next_transaction_id, active_transactions, executed>>
        BY <1>4 DEF RecoverTxn, txnVars, historyVars
    <2>4. QED BY <2>1, <2>2, <2>3
<1>5. ASSUME NEW t, NEW x, NEW m, NEW granted, RequestLock(t, x, m, granted)
      PROVE  UNCHANGED completed_transactions
    BY <1>5 DEF RequestLock, RequestActive, lockVars
<1>6. ASSUME NEW c, NEW done, executeCommand(c, done)
      PROVE  UNCHANGED completed_transactions
    BY <1>5, <1>6 DEF executeCommand, lockVars
<1>7. ASSUME NEW t \in Txn, NEW op \in Op, NEW r \in Resource,
             ReadOrWrite(t, op, r)
      PROVE  UNCHANGED <<next_transaction_id, active_transactions,
                         completed_transactions, todo>>
    <2>1. UNCHANGED completed_transactions
        BY <1>6, <1>7 DEF ReadOrWrite, lockVars
    <2>2. QED BY <1>7, <2>1 DEF ReadOrWrite, txnVars, loopVars
<1>8. CASE DrainCommand
    <2>1. UNCHANGED completed_transactions
        BY <1>6, <1>8 DEF DrainCommand, lockVars
    <2>2. QED BY <1>8, <2>1 DEF DrainCommand, txnVars
<1>9. CASE DrainPass \/ RecoverLog \/ UNCHANGED vars
    BY <1>9 DEF DrainPass, RecoverLog, vars, txnVars, lockVars, loopVars
<1>10. ASSUME NEW child \in Resource, NEW parent \in Resource,
              Show(child, parent)
       PROVE  UNCHANGED <<next_transaction_id, active_transactions,
                          completed_transactions, todo>>
    BY <1>10 DEF Show, SetResourceParent, txnVars, loopVars
<1>11. QED
    BY <1>1, <1>2, <1>3, <1>4, <1>7, <1>8, <1>9, <1>10
       DEF EngineNext, LoopStep

\* No step makes a transaction active and completed at once.
LEMMA NextManagersAgree ==
    ASSUME EngineTypeOK, ManagersAgree, [EngineNext]_vars
    PROVE  ManagersAgree'
<1>1. /\ next_transaction_id \in Nat
      /\ Txn \subseteq Nat
      /\ active_transactions \cup completed_transactions \cup todo \subseteq Txn
    BY EngineAssumption, ActiveInTxn
       DEF EngineTypeOK, TxnTypeOK, LockTypeOK, TxnId
<1>2. next_transaction_id' >= next_transaction_id
    BY <1>1, ManagersStep
<1>3. /\ active_transactions' \cap (completed_transactions' \cup todo') = {}
      /\ \A t \in active_transactions' \cup completed_transactions' \cup todo' :
            t < next_transaction_id'
    <2> USE DEF ManagersAgree
    <2>1. CASE /\ next_transaction_id \in Txn
               /\ active_transactions' = active_transactions \cup {next_transaction_id}
               /\ next_transaction_id' = next_transaction_id + 1
               /\ UNCHANGED <<completed_transactions, todo, executed>>
        <3>1. next_transaction_id \notin completed_transactions \cup todo
            BY <1>1
        <3>2. active_transactions' \cap (completed_transactions' \cup todo') = {}
            BY <2>1, <3>1
        <3>3. ASSUME NEW t \in active_transactions' \cup completed_transactions'
                                   \cup todo'
              PROVE  t < next_transaction_id'
            <4>1. \/ t = next_transaction_id
                  \/ t \in Txn /\ t < next_transaction_id
                BY <1>1, <2>1
            <4>2. /\ next_transaction_id' = next_transaction_id + 1
                  /\ next_transaction_id \in Nat /\ t \in Nat
                BY <1>1, <2>1, <4>1
            <4>3. QED BY <4>1, <4>2
        <3>4. QED BY <3>2, <3>3
    <2>2. CASE \E t \in active_transactions :
                  /\ active_transactions' = active_transactions \ {t}
                  /\ completed_transactions' = completed_transactions \cup {t}
                  /\ UNCHANGED <<next_transaction_id, todo, executed>>
        BY <1>1, <2>2
    <2>3. CASE /\ active_transactions' = {}
               /\ todo' = active_transactions
               /\ UNCHANGED <<next_transaction_id, completed_transactions, executed>>
        BY <1>1, <2>3
    <2>4. CASE \E t \in todo :
                  /\ todo' = todo \ {t}
                  /\ completed_transactions' = completed_transactions \cup {t}
                  /\ UNCHANGED <<next_transaction_id, active_transactions, executed>>
        BY <1>1, <2>4
    <2>5. CASE UNCHANGED <<next_transaction_id, active_transactions,
                           completed_transactions, todo>>
        BY <1>1, <2>5
    <2>6. QED BY <2>1, <2>2, <2>3, <2>4, <2>5, ManagersStep
<1>4. ASSUME NEW t \in Txn, t >= next_transaction_id'
      PROVE  executed'[t] = << >>
    <2>1. t >= next_transaction_id /\ next_transaction_id' \in Nat
        BY <1>1, <1>2, <1>4, EngineTxnStep DEF TxnTypeOK
    <2>2. executed[t] = << >> BY <2>1 DEF ManagersAgree
    <2>3. CASE UNCHANGED executed BY <2>2, <2>3
    <2>4. CASE \E c \in Command : Executes(c)
        <3>1. PICK c \in Command : Executes(c) BY <2>4
        <3>2. c.txn \in active_transactions
            BY <3>1 DEF Executes, isTransactionActive
        <3>3. c.txn # t BY <1>1, <2>1, <3>2 DEF ManagersAgree
        <3>4. executed'[t] = executed[t]
            BY <3>1, <3>3 DEF Executes, EngineTypeOK
        <3>5. QED BY <2>2, <3>4
    <2>5. QED BY <2>3, <2>4, HistoryStep
<1>5. QED BY <1>3, <1>4 DEF ManagersAgree

\* No step leaves an executed command of an active transaction without its
\* lock.
LEMMA NextAccessLocked ==
    ASSUME EngineInv, [EngineNext]_vars
    PROVE  AccessLocked'
<1> USE DEF EngineInv
<1>1. [LockNext]_lockVars BY EngineLockStep
<1>2. ManagersAgree' BY NextManagersAgree
<1>3. KeepsLocks \/ UNCHANGED lockVars
    BY <1>1, NextKeepsLocks DEF SafetyInv
<1> SUFFICES ASSUME NEW t \in Txn, t \in active_transactions',
                    NEW r \in Resource
             PROVE  /\ Did(t, "WRITE", r)' => "X" \in HeldModes(t, r)'
                    /\ Did(t, "READ", r)' => HasLock(t, r)'
    <2>1. active_transactions' \subseteq Txn
        BY EngineTxnStep, EngineAssumption DEF TxnTypeOK
    <2>2. QED BY <2>1 DEF AccessLocked
<1>4. t \notin completed_transactions' BY <1>2 DEF ManagersAgree
<1>5. /\ HasLock(t, r) => HasLock(t, r)'
      /\ "X" \in HeldModes(t, r) => "X" \in HeldModes(t, r)'
    <2>1. CASE KeepsLocks BY <1>4, <2>1 DEF KeepsLocks
    <2>2. CASE UNCHANGED lockVars
        BY <2>2 DEF lockVars, HasLock, HeldModes
    <2>3. QED BY <1>3, <2>1, <2>2
<1>6. ASSUME executed'[t] = executed[t]
      PROVE  /\ Did(t, "WRITE", r)' => "X" \in HeldModes(t, r)'
             /\ Did(t, "READ", r)' => HasLock(t, r)'
    <2>1. \A op : Did(t, op, r)' <=> Did(t, op, r) BY <1>6 DEF Did
    <2>2. CASE t \in active_transactions
        BY <1>5, <2>1, <2>2 DEF AccessLocked
    <2>3. CASE t \notin active_transactions
        <3>1. t = next_transaction_id BY <2>3, ManagersStep
        <3>2. executed[t] = << >>
            BY <3>1, EngineAssumption
               DEF ManagersAgree, EngineTypeOK, TxnTypeOK, TxnId
        <3>3. QED BY <2>1, <3>2 DEF Did
    <2>4. QED BY <2>2, <2>3
<1>7. ASSUME NEW c \in Command, Executes(c), c.txn = t
      PROVE  /\ Did(t, "WRITE", r)' => "X" \in HeldModes(t, r)'
             /\ Did(t, "READ", r)' => HasLock(t, r)'
    <2>1. t \in active_transactions
        BY <1>7 DEF Executes, isTransactionActive
    <2>2. executed'[t] = Append(executed[t], c)
          /\ executed[t] \in Seq(Command)
        BY <1>7 DEF Executes, EngineTypeOK
    <2>3. \A op : Did(t, op, r)' => Did(t, op, r) \/ (c.op = op /\ c.res = r)
        BY <2>2 DEF Did
    <2>4. /\ HasLock(t, c.res)'
          /\ LockFor(c.op) = "X" => "X" \in HeldModes(t, c.res)'
        <3>1. /\ LockFor(c.op) \in Mode
              /\ c.res \in Resource
            BY DEF LockFor, Mode, Command
        <3>2. t \notin completed_transactions BY <2>1 DEF ManagersAgree
        <3>3. QED BY <1>7, <3>1, <3>2, GrantedHas DEF Executes, SafetyInv
    <2>5. QED BY <1>5, <2>1, <2>3, <2>4 DEF AccessLocked, LockFor
<1>8. ASSUME NEW c \in Command, Executes(c), c.txn # t
      PROVE  executed'[t] = executed[t]
    BY <1>8 DEF Executes, EngineTypeOK
<1>9. QED BY <1>6, <1>7, <1>8, HistoryStep

\* Every step preserves the engine's invariant.
LEMMA EngineNextInv == EngineInv /\ [EngineNext]_vars => EngineInv'
<1> SUFFICES ASSUME EngineInv, [EngineNext]_vars PROVE EngineInv' OBVIOUS
<1>1. EngineTypeOK' BY EngineNextType DEF EngineInv
<1>2. SafetyInv' BY EngineLockStep, NextSafety DEF EngineInv
<1>3. ManagersAgree' BY NextManagersAgree DEF EngineInv
<1>4. AccessLocked' BY NextAccessLocked
<1>5. QED BY <1>1, <1>2, <1>3, <1>4 DEF EngineInv

\* The engine's safety invariant, in one piece: types, the lock manager's
\* invariant, agreeing managers, and every executed command under its lock.
THEOREM EngineSafe == EngineSpec => []EngineInv
BY EngineInitInv, EngineNextInv, PTL DEF EngineSpec

\* Everything an active transaction has executed is under a lock it still
\* holds, although it may have executed long after it was issued.
THEOREM AccessUnderLock == EngineSpec => []AccessLocked
BY EngineSafe, PTL DEF EngineInv

\* The locks of two active transactions keep what they have done apart.
LEMMA InvIsolation == EngineInv => NoDirtyAccess
<1> SUFFICES ASSUME EngineInv,
                    NEW t \in active_transactions,
                    NEW u \in active_transactions,
                    NEW r \in Resource, t # u,
                    Did(t, "WRITE", r)
             PROVE  ~ Did(u, "READ", r) /\ ~ Did(u, "WRITE", r)
    BY DEF NoDirtyAccess
<1>1. t \in Txn /\ u \in Txn
    BY ActiveInTxn DEF EngineInv, EngineTypeOK
<1>2. "X" \in HeldModes(t, r) BY DEF EngineInv, AccessLocked
<1>3. HeldModes(u, r) = {}
    BY <1>1, <1>2
       DEF EngineInv, SafetyInv, CompatibleLocks, Compatible, IsCompatible
<1>4. QED BY <1>3 DEF EngineInv, AccessLocked, HasLock

\* No transaction reads or overwrites what another active one has written,
\* or writes what another active one has read.
THEOREM Isolation == EngineSpec => []NoDirtyAccess
BY InvIsolation, EngineSafe, PTL

-----------------------------------------------------------------------------
(***************************************************************************)
(* The log.  RecoveryManager's analysis of a transaction's records and the *)
(* transaction manager's state change in different places; RECOVER brings  *)
(* them apart (it aborts first and appends its records last) and together. *)
(***************************************************************************)

\* What one more record makes of the analysis.
LEMMA AppendRecord ==
    ASSUME NEW records \in Seq(LogType), NEW type \in LogType
    PROVE  /\ IsCommitted(Append(records, type)) <=>
                  IsCommitted(records) \/ type = "COMMIT"
           /\ IsIncomplete(Append(records, type)) <=>
                  \/ type = "BEGIN"
                  \/ IsIncomplete(records) /\ type \notin {"COMMIT", "ABORT"}
<1> DEFINE more == Append(records, type)
           n == Len(records)
<1>1. /\ n \in Nat /\ Len(more) = n + 1
      /\ DOMAIN records = 1..n /\ DOMAIN more = 1..(n + 1)
      /\ \A i \in 1..n : more[i] = records[i]
      /\ more[n + 1] = type
    OBVIOUS
<1> HIDE DEF more, n
<1>2. IsCommitted(more) <=> IsCommitted(records) \/ type = "COMMIT"
    BY <1>1 DEF IsCommitted
<1>3. ASSUME IsIncomplete(records), type \notin {"COMMIT", "ABORT"}
      PROVE  IsIncomplete(more)
    BY <1>1, <1>3 DEF IsIncomplete, n
<1>4. ASSUME type = "BEGIN" PROVE IsIncomplete(more)
    BY <1>1, <1>4 DEF IsIncomplete
<1>5. ASSUME IsIncomplete(more), type # "BEGIN"
      PROVE  IsIncomplete(records) /\ type \notin {"COMMIT", "ABORT"}
    <2>1. PICK i \in 1..(n + 1) :
              /\ more[i] = "BEGIN"
              /\ \A j \in i..(n + 1) : more[j] \notin {"COMMIT", "ABORT"}
        BY <1>1, <1>5 DEF IsIncomplete
    <2>2. i \in 1..n BY <1>1, <1>5, <2>1
    <2>3. type \notin {"COMMIT", "ABORT"} BY <1>1, <2>1, <2>2
    <2>4. IsIncomplete(records)
        BY <1>1, <2>1, <2>2 DEF IsIncomplete, n
    <2>5. QED BY <2>3, <2>4
<1>6. QED BY <1>2, <1>3, <1>4, <1>5 DEF more

LogKnows(t) ==
    /\ IsCommitted(log[t]) <=> txn_state[t] = "COMMITTED"
    /\ phase # "recovering" =>
           (IsIncomplete(log[t]) <=> txn_state[t] = "ACTIVE")
    /\ phase = "recovering" /\ IsIncomplete(log[t]) => txn_state[t] = "ABORTED"

LogInv ==
    /\ EngineTypeOK
    /\ TxnInv
    /\ phase = "recovering" => active_transactions = {}
    /\ \A t \in Txn : LogKnows(t)

\* The log is empty when the engine starts.
LEMMA LogInitInv == EngineInit => LogInv
<1> SUFFICES ASSUME EngineInit PROVE LogInv OBVIOUS
<1>1. EngineTypeOK /\ TxnInv BY EngineInitType, TxnInitInv DEF EngineInit
<1>2. \A t \in Txn : txn_state[t] = "NEW" /\ log[t] = << >>
    BY EngineAssumption DEF EngineInit, TxnInit
<1>3. \A t \in Txn : LogKnows(t)
    BY <1>2 DEF LogKnows, IsCommitted, IsIncomplete, EngineInit
<1>4. QED BY <1>1, <1>3 DEF LogInv, EngineInit

\* BEGIN, COMMIT and ABORT change a state and write the record that says so.
LEMMA RecordedStep ==
    ASSUME LogInv, NEW t \in Txn, NEW type \in LogType, NEW state,
           phase # "recovering", phase' # "recovering",
           writeLog(t, type),
           txn_state' = [txn_state EXCEPT ![t] = state],
           \/ type = "BEGIN" /\ txn_state[t] = "NEW" /\ state = "ACTIVE"
           \/ type = "COMMIT" /\ txn_state[t] = "ACTIVE" /\ state = "COMMITTED"
           \/ type = "ABORT" /\ txn_state[t] = "ACTIVE" /\ state = "ABORTED"
    PROVE  \A u \in Txn : LogKnows(u)'
<1>1. /\ log \in [Txn -> Seq(LogType)] /\ txn_state \in [TxnId -> TxnState]
      /\ t \in TxnId /\ log[t] \in Seq(LogType)
    BY EngineAssumption DEF LogInv, EngineTypeOK, TxnTypeOK
<1>2. log'[t] = Append(log[t], type) /\ txn_state'[t] = state
    BY <1>1 DEF writeLog
<1>3. \A u \in Txn \ {t} : log'[u] = log[u] /\ txn_state'[u] = txn_state[u]
    BY <1>1, EngineAssumption DEF writeLog
<1>4. LogKnows(t)'
    BY <1>1, <1>2, AppendRecord DEF LogInv, LogKnows
<1>5. ASSUME NEW u \in Txn \ {t} PROVE LogKnows(u)'
    BY <1>3 DEF LogInv, LogKnows
<1>6. QED BY <1>4, <1>5

\* A step that changes no state, or the log only by what a command writes.
LEMMA ExecutedStep ==
    ASSUME LogInv, UNCHANGED txn_state,
           phase # "recovering" /\ phase' # "recovering",
           \/ UNCHANGED log
           \/ \E c \in Command, done \in BOOLEAN : executeCommand(c, done)
    PROVE  \A u \in Txn : LogKnows(u)'
<1>1. CASE UNCHANGED log BY <1>1 DEF LogInv, LogKnows
<1>2. ASSUME NEW c \in Command, isTransactionActive(c.txn), writeLog(c.txn, "UPDATE")
      PROVE  \A u \in Txn : LogKnows(u)'
    <2>1. /\ log \in [Txn -> Seq(LogType)] /\ c.txn \in Txn
          /\ log[c.txn] \in Seq(LogType) /\ "UPDATE" \in LogType
        BY DEF LogInv, EngineTypeOK, Command, LogType
    <2>2. log'[c.txn] = Append(log[c.txn], "UPDATE")
        BY <1>2, <2>1 DEF writeLog
    <2>3. \A u \in Txn \ {c.txn} : log'[u] = log[u]
        BY <1>2, <2>1 DEF writeLog
    <2>4. LogKnows(c.txn)'
        BY <2>1, <2>2, AppendRecord DEF LogInv, LogKnows
    <2>5. ASSUME NEW u \in Txn \ {c.txn} PROVE LogKnows(u)'
        BY <2>3 DEF LogInv, LogKnows
    <2>6. QED BY <2>4, <2>5
<1>3. QED BY <1>1, <1>2 DEF executeCommand, Perform

\* Every command keeps the log and the transaction manager in agreement.
LEMMA LogNextInv == LogInv /\ [EngineNext]_vars => LogInv'
<1> SUFFICES ASSUME LogInv, [EngineNext]_vars PROVE LogInv' OBVIOUS
<1>1. EngineTypeOK' BY EngineNextType DEF LogInv
<1>2. TxnInv' BY EngineTxnNext, TxnNextInv DEF LogInv
<1>3. /\ txn_state \in [TxnId -> TxnState]
      /\ active_transactions = {t \in TxnId : txn_state[t] = "ACTIVE"}
      /\ Txn = TxnId
    BY EngineAssumption DEF LogInv, TxnInv, TxnTypeOK, StatisticsAgree
<1> SUFFICES /\ phase' = "recovering" => active_transactions' = {}
             /\ \A u \in Txn : LogKnows(u)'
    BY <1>1, <1>2 DEF LogInv
<1>4. ASSUME NEW t \in Txn, Begin(t)
      PROVE  phase' # "recovering" /\ \A u \in Txn : LogKnows(u)'
    <2>1. t = next_transaction_id /\ t \in Nat
        BY <1>3, <1>4 DEF Begin, beginTransaction, TxnId
    <2>2. txn_state[t] = "NEW" BY <1>3, <2>1 DEF LogInv, TxnInv, Begun
    <2>3. phase # "recovering" /\ phase' # "recovering"
        BY <1>4 DEF Begin, loopVars
    <2>4. "BEGIN" \in LogType BY DEF LogType
    <2>5. writeLog(t, "BEGIN") /\ txn_state' = [txn_state EXCEPT ![t] = "ACTIVE"]
        BY <1>4 DEF Begin, beginTransaction
    <2>6. QED BY <2>2, <2>3, <2>4, <2>5, RecordedStep
<1>5. ASSUME NEW t \in Txn, Commit(t)
      PROVE  phase' # "recovering" /\ \A u \in Txn : LogKnows(u)'
    <2>1. phase # "recovering" /\ phase' # "recovering" /\ writeLog(t, "COMMIT")
        BY <1>5 DEF Commit, StartDrain
    <2>2. /\ txn_state[t] = "ACTIVE"
          /\ txn_state' = [txn_state EXCEPT ![t] = "COMMITTED"]
        BY <1>3, <1>5 DEF Commit, commitTransaction, Finish
    <2>3. "COMMIT" \in LogType BY DEF LogType
    <2>4. QED BY <2>1, <2>2, <2>3, RecordedStep
<1>6. ASSUME NEW t \in Txn, Abort(t)
      PROVE  phase' # "recovering" /\ \A u \in Txn : LogKnows(u)'
    <2>1. phase # "recovering" /\ phase' # "recovering" /\ writeLog(t, "ABORT")
        BY <1>6 DEF Abort, StartDrain
    <2>2. /\ txn_state[t] = "ACTIVE"
          /\ txn_state' = [txn_state EXCEPT ![t] = "ABORTED"]
        BY <1>3, <1>6 DEF Abort, abortTransaction, Finish
    <2>3. "ABORT" \in LogType BY DEF LogType
    <2>4. QED BY <2>1, <2>2, <2>3, RecordedStep
<1>7. ASSUME NEW t \in Txn, NEW op \in Op, NEW r \in Resource,
             ReadOrWrite(t, op, r)
      PROVE  phase' # "recovering" /\ \A u \in Txn : LogKnows(u)'
    <2> DEFINE c == [op |-> op, txn |-> t, res |-> r,
                     n |-> IF isTransactionActive(t) THEN issued'[t] ELSE 0]
    <2>1. c \in Command BY <1>7, IssuedCommandType DEF LogInv
    <2>2. /\ phase # "recovering" /\ phase' # "recovering"
          /\ UNCHANGED txn_state
        BY <1>7 DEF ReadOrWrite, loopVars, txnVars
    <2>3. UNCHANGED log \/ \E done \in BOOLEAN : executeCommand(c, done)
        BY <1>7 DEF ReadOrWrite
    <2> HIDE DEF c
    <2>4. QED BY <2>1, <2>2, <2>3, ExecutedStep
<1>8. CASE DrainCommand
    <2>1. pending[cursor] \in Command
        BY <1>8 DEF DrainCommand, LogInv, EngineTypeOK
    <2>2. /\ phase # "recovering" /\ phase' # "recovering"
          /\ UNCHANGED txn_state
        BY <1>8 DEF DrainCommand, txnVars
    <2>3. UNCHANGED log
              \/ \E done \in BOOLEAN : executeCommand(pending[cursor], done)
        BY <1>8 DEF DrainCommand
    <2>4. QED BY <2>1, <2>2, <2>3, ExecutedStep
<1>9. CASE Recover
    <2>1. /\ phase # "recovering" /\ phase' = "recovering" /\ UNCHANGED log
          /\ active_transactions' = {}
          /\ \A t \in Txn : txn_state'[t] =
                IF txn_state[t] = "ACTIVE" THEN "ABORTED" ELSE txn_state[t]
        BY <1>3, <1>9 DEF Recover, abortAllTransactions, Finish, sessionVars
    <2>2. ASSUME NEW u \in Txn PROVE LogKnows(u)'
        BY <2>1 DEF LogInv, LogKnows
    <2>3. QED BY <2>1, <2>2
<1>10. CASE RecoverLog
    <2>1. /\ phase = "recovering" /\ phase' = "idle" /\ UNCHANGED txn_state
          /\ active_transactions = {}
          /\ \A t \in Txn : log'[t] = IF IsIncomplete(log[t])
                                      THEN Append(log[t], "ABORT") ELSE log[t]
        BY <1>10 DEF RecoverLog, txnVars, LogInv
    <2>2. ASSUME NEW u \in Txn PROVE LogKnows(u)'
        <3>1. /\ log[u] \in Seq(LogType) /\ "ABORT" \in LogType
              /\ txn_state[u] # "ACTIVE"
            BY <1>3, <2>1 DEF LogInv, EngineTypeOK, LogType
        <3>2. LogKnows(u) BY DEF LogInv
        <3>3. CASE IsIncomplete(log[u])
            <4>1. log'[u] = Append(log[u], "ABORT") BY <2>1, <3>3
            <4>2. QED
                BY <2>1, <3>1, <3>2, <4>1, AppendRecord DEF LogKnows
        <3>4. CASE ~ IsIncomplete(log[u])
            <4>1. log'[u] = log[u] BY <2>1, <3>4
            <4>2. QED BY <2>1, <3>1, <3>2, <3>4, <4>1 DEF LogKnows
        <3>5. QED BY <3>3, <3>4
    <2>3. QED BY <2>1, <2>2
<1>11. ASSUME UNCHANGED <<log, txnVars>>,
              phase' = "recovering" <=> phase = "recovering"
       PROVE  /\ phase' = "recovering" => active_transactions' = {}
              /\ \A u \in Txn : LogKnows(u)'
    BY <1>11 DEF LogInv, LogKnows, txnVars
<1>12. ASSUME \/ \E child, parent \in Resource : Show(child, parent)
              \/ DrainPass \/ RecoverTxn \/ UNCHANGED vars
       PROVE  /\ UNCHANGED <<log, txnVars>>
              /\ phase' = "recovering" <=> phase = "recovering"
    BY <1>12 DEF Show, DrainPass, RecoverTxn, vars, sessionVars, loopVars
<1>13. QED
    BY <1>4, <1>5, <1>6, <1>7, <1>8, <1>9, <1>10, <1>11, <1>12
    DEF EngineNext, LoopStep

\* What RecoveryManager reads in the log is what the transaction manager
\* knows, after every command.
THEOREM LogMatches == EngineSpec => []LogAgrees
<1>1. LogInv => LogAgrees BY DEF LogInv, LogKnows, LogAgrees
<1>2. QED BY <1>1, LogInitInv, LogNextInv, PTL DEF EngineSpec

-----------------------------------------------------------------------------
(***************************************************************************)
(* No command is lost.  The steps of the engine do six things to pending,  *)
(* executed and issued; the commands of an active transaction are numbered *)
(* in the order of issue, so a new one cannot be mistaken for an old one.  *)
(***************************************************************************)

\* The number of a command issued now, and its counting.
Issues(c) ==
    \/ /\ c.txn \in active_transactions
       /\ c.n = issued[c.txn] + 1
       /\ issued' = [issued EXCEPT ![c.txn] = @ + 1]
    \/ /\ c.txn \notin active_transactions
       /\ c.txn < next_transaction_id
       /\ issued' = issued

Parks(c) ==
    /\ Issues(c)
    /\ pending' = Append(pending, c)
    /\ UNCHANGED executed

ExecutesNew(c) ==
    /\ c.txn \in active_transactions
    /\ Issues(c)
    /\ executed' = [executed EXCEPT ![c.txn] = Append(@, c)]
    /\ UNCHANGED pending

Drops ==
    /\ cursor \in DOMAIN pending
    /\ pending[cursor].txn \notin active_transactions
    /\ pending' = RemoveCommand(pending, cursor)
    /\ UNCHANGED <<executed, issued>>

ExecutesParked ==
    /\ cursor \in DOMAIN pending
    /\ pending[cursor].txn \in active_transactions
    /\ pending' = RemoveCommand(pending, cursor)
    /\ executed' = [executed EXCEPT
                       ![pending[cursor].txn] = Append(@, pending[cursor])]
    /\ UNCHANGED issued

Numbered(t) ==
    /\ \A i \in DOMAIN executed[t] : executed[t][i].n \in 1..issued[t]
    /\ \A i \in DOMAIN pending :
          pending[i].txn = t => pending[i].n \in 1..issued[t]

Untouched(t) ==
    /\ issued[t] = 0
    /\ executed[t] = << >>
    /\ \A i \in DOMAIN pending : pending[i].txn # t

Kept(t) ==
    /\ t \in active_transactions => Accounted(t) /\ Numbered(t)
    /\ t >= next_transaction_id => Untouched(t)

CommandsInv == LogInv /\ \A t \in Txn : Kept(t)

CommandData ==
    /\ pending \in Seq(Command)
    /\ issued \in [Txn -> 0..MaxOps]
    /\ executed \in [Txn -> Seq(Command)]
    /\ Txn \subseteq Nat
    /\ next_transaction_id \in Nat
    /\ \A t \in active_transactions : t \in Txn /\ t < next_transaction_id

LEMMA DataKnown == LogInv => CommandData
<1> SUFFICES ASSUME LogInv PROVE CommandData OBVIOUS
<1>1. Txn \subseteq Nat BY EngineAssumption DEF TxnId
<1>2. EngineTypeOK /\ TxnTypeOK /\ TxnInv BY DEF LogInv, TxnInv
<1>3. \A t \in active_transactions : t \in TxnId /\ txn_state[t] = "ACTIVE"
    BY <1>2 DEF TxnInv, StatisticsAgree
<1>4. next_transaction_id \in Nat
    BY <1>2, MaxTxnAssumption DEF TxnTypeOK
<1>5. \A t \in active_transactions : t \in Txn /\ t < next_transaction_id
    <2>1. Begun BY <1>2 DEF TxnInv
    <2>2. ASSUME NEW t \in active_transactions
          PROVE  t \in Txn /\ t < next_transaction_id
        <3>1. t \in TxnId /\ txn_state[t] = "ACTIVE" BY <1>3
        <3>2. ~ (t >= next_transaction_id) BY <2>1, <3>1 DEF Begun
        <3>3. t \in Txn /\ t \in Nat BY <1>1, <3>1, EngineAssumption
        <3>4. QED BY <1>4, <3>2, <3>3
    <2>3. QED BY <2>2
<1>6. QED BY <1>1, <1>2, <1>4, <1>5 DEF CommandData, EngineTypeOK

\* A command is parked: its transaction's numbers end with it.
LEMMA ParksKeeps ==
    ASSUME CommandData, NEW c \in Command, Parks(c),
           UNCHANGED <<active_transactions, next_transaction_id>>,
           NEW t \in Txn, Kept(t)
    PROVE  Kept(t)'
<1> DEFINE n == Len(pending)
<1>1. /\ n \in Nat /\ DOMAIN pending = 1..n
      /\ DOMAIN pending' = 1..(n + 1)
      /\ \A i \in 1..n : pending'[i] = pending[i]
      /\ pending'[n + 1] = c
    BY DEF CommandData, Parks
<1>2. c.txn \in Txn /\ c.n \in Nat BY BoundsAssumption DEF Command
<1>3. issued[t] \in Nat /\ executed' = executed
    BY BoundsAssumption DEF CommandData, Parks
<1> HIDE DEF n
<1>4. CASE t >= next_transaction_id
    <2>1. c.txn # t /\ t \notin active_transactions
        BY <1>4 DEF CommandData, Parks, Issues
    <2>2. issued'[t] = issued[t]
        BY <1>2, <2>1 DEF CommandData, Parks, Issues
    <2>3. QED BY <1>1, <1>3, <1>4, <2>1, <2>2 DEF Kept, Untouched
<1>5. CASE t \in active_transactions /\ c.txn # t
    <2>1. issued'[t] = issued[t]
        BY <1>2, <1>5 DEF CommandData, Parks, Issues
    <2>2. \A k : IsParked(t, k)' <=> IsParked(t, k)
        BY <1>1, <1>5 DEF IsParked
    <2>3. \A k : IsExecuted(t, k)' <=> IsExecuted(t, k)
        BY <1>3 DEF IsExecuted
    <2>4. Accounted(t)'
        BY <1>1, <1>3, <1>5, <2>1, <2>2, <2>3 DEF Kept, Accounted
    <2>5. Numbered(t)' BY <1>1, <1>3, <1>5, <2>1 DEF Kept, Numbered
    <2>6. t < next_transaction_id BY <1>5 DEF CommandData
    <2>7. QED BY <2>4, <2>5, <2>6, <1>5 DEF Kept, CommandData
<1>6. CASE t \in active_transactions /\ c.txn = t
    <2>1. issued'[t] = issued[t] + 1 /\ c.n = issued[t] + 1
        BY <1>6 DEF CommandData, Parks, Issues
    <2>2. \A k : IsParked(t, k)' <=> IsParked(t, k) \/ k = c.n
        BY <1>1, <1>6 DEF IsParked
    <2>3. \A k : IsExecuted(t, k)' <=> IsExecuted(t, k)
        BY <1>3 DEF IsExecuted
    <2>4. Numbered(t) /\ Accounted(t) BY <1>6 DEF Kept
    <2>5. ~ IsExecuted(t, c.n)
        BY <1>3, <2>1, <2>4 DEF Numbered, IsExecuted
    <2>6. \A k \in 1..(issued[t] + 1) : IsExecuted(t, k)' <=> ~ IsParked(t, k)'
        <3>1. \A k \in 1..(issued[t] + 1) : k \in 1..issued[t] \/ k = c.n
            BY <1>3, <2>1
        <3>2. \A k \in 1..issued[t] : k # c.n BY <1>3, <2>1
        <3>3. QED BY <2>2, <2>3, <2>4, <2>5, <3>1, <3>2 DEF Accounted
    <2>7. \A i \in 1..n : pending[i].txn = t => pending[i].n # c.n
        BY <1>1, <1>3, <2>1, <2>4 DEF Numbered
    <2>8. Accounted(t)'
        BY <1>1, <1>3, <2>1, <2>4, <2>6, <2>7 DEF Accounted
    <2>9. Numbered(t)'
        BY <1>1, <1>3, <2>1, <2>4 DEF Numbered
    <2>10. t < next_transaction_id BY <1>6 DEF CommandData
    <2>11. QED BY <2>8, <2>9, <2>10, <1>6 DEF Kept, CommandData
<1>7. QED BY <1>4, <1>5, <1>6 DEF Kept, CommandData

\* A new command is executed at once: the same, with executed for pending.
LEMMA ExecutesNewKeeps ==
    ASSUME CommandData, NEW c \in Command, ExecutesNew(c),
           UNCHANGED <<active_transactions, next_transaction_id>>,
           NEW t \in Txn, Kept(t)
    PROVE  Kept(t)'
<1>1. /\ c.txn \in Txn /\ c.n \in Nat /\ c.txn < next_transaction_id
      /\ issued[t] \in Nat
      /\ pending' = pending
    BY BoundsAssumption DEF Command, CommandData, ExecutesNew
<1>2. CASE c.txn # t
    <2>1. issued'[t] = issued[t] /\ executed'[t] = executed[t]
        BY <1>1, <1>2 DEF CommandData, ExecutesNew, Issues
    <2>2. QED
        BY <1>1, <2>1
        DEF Kept, Untouched, Accounted, Numbered, IsExecuted, IsParked
<1>3. CASE c.txn = t
    <2> DEFINE n == Len(executed[t])
    <2>1. executed[t] \in Seq(Command) BY DEF CommandData
    <2>2. executed'[t] = Append(executed[t], c)
        BY <1>3 DEF CommandData, ExecutesNew
    <2>3. /\ n \in Nat /\ DOMAIN executed[t] = 1..n
          /\ DOMAIN executed'[t] = 1..(n + 1)
          /\ \A i \in 1..n : executed'[t][i] = executed[t][i]
          /\ executed'[t][n + 1] = c
        BY <2>1, <2>2
    <2> HIDE DEF n
    <2>4. /\ issued'[t] = issued[t] + 1 /\ c.n = issued[t] + 1
          /\ t \in active_transactions
        BY <1>3 DEF CommandData, ExecutesNew, Issues
    <2>5. Numbered(t) /\ Accounted(t) BY <2>4 DEF Kept
    <2>6. \A k : IsExecuted(t, k)' <=> IsExecuted(t, k) \/ k = c.n
        BY <2>3 DEF IsExecuted
    <2>7. \A k : IsParked(t, k)' <=> IsParked(t, k) BY <1>1 DEF IsParked
    <2>8. ~ IsParked(t, c.n) BY <1>1, <2>4, <2>5 DEF Numbered, IsParked
    <2>9. \A k \in 1..(issued[t] + 1) : IsExecuted(t, k)' <=> ~ IsParked(t, k)'
        <3>1. \A k \in 1..(issued[t] + 1) : k \in 1..issued[t] \/ k = c.n
            BY <1>1, <2>4
        <3>2. \A k \in 1..issued[t] : k # c.n BY <1>1, <2>4
        <3>3. QED BY <2>5, <2>6, <2>7, <2>8, <3>1, <3>2 DEF Accounted
    <2>10. \A i \in 1..n : executed[t][i].n # c.n
        <3>1. \A i \in 1..n : executed[t][i].n \in 1..issued[t]
            BY <2>3, <2>5 DEF Numbered
        <3>2. c.n \notin 1..issued[t] BY <1>1, <2>4
        <3>3. QED BY <3>1, <3>2
    <2>11. Accounted(t)'
        <3>1. \A k \in 1..issued'[t] : IsExecuted(t, k)' <=> ~ IsParked(t, k)'
            BY <2>4, <2>9
        <3>2. \A i, j \in 1..n :
                  executed[t][i].n = executed[t][j].n => i = j
            BY <2>3, <2>5 DEF Accounted
        <3>3. \A i, j \in 1..(n + 1) :
                  executed'[t][i].n = executed'[t][j].n => i = j
            <4>1. \A i \in 1..(n + 1) : i \in 1..n \/ i = n + 1 BY <2>3
            <4>2. QED BY <2>3, <2>10, <3>2, <4>1
        <3>4. \A i, j \in DOMAIN executed'[t] :
                  executed'[t][i].n = executed'[t][j].n => i = j
            BY <2>3, <3>3
        <3>5. \A i, j \in DOMAIN pending' :
                  /\ pending'[i].txn = t /\ pending'[j].txn = t
                  /\ pending'[i].n = pending'[j].n
                  => i = j
            BY <1>1, <2>5 DEF Accounted
        <3>6. QED BY <3>1, <3>4, <3>5 DEF Accounted
    <2>12. Numbered(t)'
        <3>1. \A k \in 1..issued[t] : k \in 1..(issued[t] + 1) BY <1>1
        <3>2. \A i \in 1..(n + 1) : i \in 1..n \/ i = n + 1 BY <2>3
        <3>3. \A i \in DOMAIN executed'[t] :
                  executed'[t][i].n \in 1..(issued[t] + 1)
            <4>1. \A i \in 1..n : executed[t][i].n \in 1..issued[t]
                BY <2>3, <2>5 DEF Numbered
            <4>2. c.n \in 1..(issued[t] + 1) BY <1>1, <2>4
            <4>3. QED BY <2>3, <3>1, <3>2, <4>1, <4>2
        <3>4. \A i \in DOMAIN pending' :
                  pending'[i].txn = t => pending'[i].n \in 1..(issued[t] + 1)
            BY <1>1, <2>5, <3>1 DEF Numbered
        <3>5. QED BY <2>4, <3>3, <3>4 DEF Numbered
    <2>13. ~ (t >= next_transaction_id)
        BY <1>1, <1>3 DEF CommandData
    <2>14. QED BY <2>11, <2>12, <2>13 DEF Kept
<1>4. QED BY <1>2, <1>3

\* Of what processPending removes, the others' commands are not touched.
LEMMA OthersRemoved ==
    ASSUME CommandData, cursor \in DOMAIN pending,
           pending' = RemoveCommand(pending, cursor),
           NEW t \in Txn, pending[cursor].txn # t,
           issued'[t] = issued[t], executed'[t] = executed[t],
           UNCHANGED <<active_transactions, next_transaction_id>>,
           Kept(t)
    PROVE  Kept(t)'
<1> DEFINE n == Len(pending)
<1>1. /\ n \in Nat /\ DOMAIN pending = 1..n /\ cursor \in 1..n
      /\ DOMAIN pending' = 1..(n - 1)
      /\ \A j \in 1..(n - 1) : pending'[j] = pending[Before(cursor, j)]
    <2>1. pending \in Seq(Command) BY DEF CommandData
    <2>2. n \in Nat /\ DOMAIN pending = 1..n BY <2>1
    <2>3. cursor \in 1..n /\ pending' = RemoveCommand(pending, cursor)
        BY <2>2
    <2>4. QED BY <2>1, <2>2, <2>3, RemoveElements
<1> HIDE DEF n
<1>2. \A j \in 1..(n - 1) : Before(cursor, j) \in 1..n BY <1>1 DEF Before
<1>3. \A i, j \in 1..(n - 1) : Before(cursor, i) = Before(cursor, j) => i = j
    BY <1>1 DEF Before
<1>4. \A i \in 1..n : i # cursor => \E j \in 1..(n - 1) : Before(cursor, j) = i
    <2>1. ASSUME NEW i \in 1..n, i # cursor
          PROVE  \E j \in 1..(n - 1) : Before(cursor, j) = i
        <3>1. CASE i < cursor BY <1>1, <2>1, <3>1 DEF Before
        <3>2. CASE i > cursor
            <4>1. i - 1 \in 1..(n - 1) /\ Before(cursor, i - 1) = i
                BY <1>1, <2>1, <3>2 DEF Before
            <4>2. QED BY <4>1
        <3>3. QED BY <1>1, <2>1, <3>1, <3>2
    <2>2. QED BY <2>1
<1>5. \A k : IsParked(t, k)' <=> IsParked(t, k)
    <2>1. ASSUME NEW k, IsParked(t, k) PROVE IsParked(t, k)'
        <3>1. PICK i \in 1..n : pending[i].txn = t /\ pending[i].n = k
            BY <1>1, <2>1 DEF IsParked
        <3>2. PICK j \in 1..(n - 1) : Before(cursor, j) = i BY <1>4, <3>1
        <3>3. QED BY <1>1, <3>1, <3>2 DEF IsParked
    <2>2. ASSUME NEW k, IsParked(t, k)' PROVE IsParked(t, k)
        BY <1>1, <1>2, <2>2 DEF IsParked
    <2>3. QED BY <2>1, <2>2
<1>6. ASSUME t \in active_transactions PROVE Accounted(t)' /\ Numbered(t)'
    <2>1. Accounted(t) /\ Numbered(t) BY <1>6 DEF Kept
    <2>2. \A k : IsExecuted(t, k)' <=> IsExecuted(t, k) BY DEF IsExecuted
    <2>3. Accounted(t)'
        BY <1>1, <1>2, <1>3, <1>5, <2>1, <2>2 DEF Accounted
    <2>4. QED BY <1>1, <1>2, <2>1, <2>3 DEF Numbered
<1>7. ASSUME t >= next_transaction_id PROVE Untouched(t)'
    BY <1>1, <1>2, <1>7 DEF Kept, Untouched
<1>8. QED BY <1>6, <1>7 DEF Kept

\* A parked command that is executed changes over from one list to the other.
LEMMA ExecutesParkedKeeps ==
    ASSUME CommandData, ExecutesParked,
           UNCHANGED <<active_transactions, next_transaction_id>>,
           NEW t \in Txn, Kept(t), pending[cursor].txn = t
    PROVE  Kept(t)'
<1> DEFINE n == Len(pending)
           m == Len(executed[t])
           c == pending[cursor]
<1>1. /\ n \in Nat /\ DOMAIN pending = 1..n /\ cursor \in 1..n
      /\ DOMAIN pending' = 1..(n - 1)
      /\ \A j \in 1..(n - 1) : pending'[j] = pending[Before(cursor, j)]
    <2>1. pending \in Seq(Command) BY DEF CommandData
    <2>2. n \in Nat /\ DOMAIN pending = 1..n BY <2>1
    <2>3. cursor \in 1..n /\ pending' = RemoveCommand(pending, cursor)
        BY <2>2 DEF ExecutesParked
    <2>4. QED BY <2>1, <2>2, <2>3, RemoveElements
<1>2. /\ m \in Nat /\ DOMAIN executed[t] = 1..m
      /\ DOMAIN executed'[t] = 1..(m + 1)
      /\ \A i \in 1..m : executed'[t][i] = executed[t][i]
      /\ executed'[t][m + 1] = c
    <2>1. executed[t] \in Seq(Command) BY DEF CommandData
    <2>2. executed'[t] = Append(executed[t], c)
        BY DEF CommandData, ExecutesParked
    <2>3. QED BY <2>1, <2>2
<1>3. /\ t \in active_transactions /\ issued' = issued /\ c.txn = t
      /\ t < next_transaction_id /\ issued[t] \in Nat
    <2>1. t \in active_transactions /\ issued' = issued
        BY DEF ExecutesParked
    <2>2. issued[t] \in Nat BY BoundsAssumption DEF CommandData
    <2>3. QED BY <2>1, <2>2 DEF CommandData
<1> HIDE DEF n, m, c
<1>4. Accounted(t) /\ Numbered(t) BY <1>3 DEF Kept
<1>5. c.n \in 1..issued[t] /\ IsParked(t, c.n)
    BY <1>1, <1>3, <1>4 DEF Numbered, IsParked, c
<1>6. ~ IsExecuted(t, c.n) BY <1>4, <1>5 DEF Accounted
<1>7. \A j \in 1..(n - 1) : Before(cursor, j) \in (1..n) \ {cursor}
    BY <1>1 DEF Before
<1>8. \A i, j \in 1..(n - 1) : Before(cursor, i) = Before(cursor, j) => i = j
    BY <1>1 DEF Before
<1>9. \A i \in 1..n : i # cursor => \E j \in 1..(n - 1) : Before(cursor, j) = i
    <2>1. ASSUME NEW i \in 1..n, i # cursor
          PROVE  \E j \in 1..(n - 1) : Before(cursor, j) = i
        <3>1. CASE i < cursor BY <1>1, <2>1, <3>1 DEF Before
        <3>2. CASE i > cursor
            <4>1. i - 1 \in 1..(n - 1) /\ Before(cursor, i - 1) = i
                BY <1>1, <2>1, <3>2 DEF Before
            <4>2. QED BY <4>1
        <3>3. QED BY <1>1, <2>1, <3>1, <3>2
    <2>2. QED BY <2>1
<1>10. \A k : IsExecuted(t, k)' <=> IsExecuted(t, k) \/ k = c.n
    BY <1>2 DEF IsExecuted
<1>11. \A k : IsParked(t, k)' <=> IsParked(t, k) /\ k # c.n
    <2>1. ASSUME NEW k, IsParked(t, k), k # c.n PROVE IsParked(t, k)'
        <3>1. PICK i \in 1..n : pending[i].txn = t /\ pending[i].n = k
            BY <1>1, <2>1 DEF IsParked
        <3>2. i # cursor BY <2>1, <3>1 DEF c
        <3>3. PICK j \in 1..(n - 1) : Before(cursor, j) = i
            BY <1>9, <3>1, <3>2
        <3>4. QED BY <1>1, <3>1, <3>3 DEF IsParked
    <2>2. ASSUME NEW k, IsParked(t, k)' PROVE IsParked(t, k) /\ k # c.n
        <3>1. PICK j \in 1..(n - 1) : pending'[j].txn = t /\ pending'[j].n = k
            BY <1>1, <2>2 DEF IsParked
        <3>2. /\ Before(cursor, j) \in 1..n /\ Before(cursor, j) # cursor
              /\ pending[Before(cursor, j)].txn = t
              /\ pending[Before(cursor, j)].n = k
            BY <1>1, <1>7, <3>1
        <3>3. IsParked(t, k) BY <1>1, <3>2 DEF IsParked
        <3>4. k # c.n
            <4>1. \A i \in 1..n : pending[i].txn = t /\ pending[i].n = c.n
                                   => i = cursor
                BY <1>1, <1>3, <1>4 DEF Accounted, c
            <4>2. QED BY <3>2, <4>1
        <3>5. QED BY <3>3, <3>4
    <2>3. QED BY <2>1, <2>2
<1>12. \A i \in 1..m : executed[t][i].n # c.n BY <1>2, <1>6 DEF IsExecuted
<1>13. Accounted(t)'
    <2>1. \A k \in 1..issued'[t] : IsExecuted(t, k)' <=> ~ IsParked(t, k)'
        BY <1>3, <1>4, <1>5, <1>6, <1>10, <1>11 DEF Accounted
    <2>2. \A i, j \in DOMAIN executed'[t] :
              executed'[t][i].n = executed'[t][j].n => i = j
        <3>1. \A i, j \in 1..m :
                  executed[t][i].n = executed[t][j].n => i = j
            BY <1>2, <1>4 DEF Accounted
        <3>2. \A i \in 1..(m + 1) : i \in 1..m \/ i = m + 1 BY <1>2
        <3>3. ASSUME NEW i \in 1..(m + 1), NEW j \in 1..(m + 1),
                     executed'[t][i].n = executed'[t][j].n
              PROVE  i = j
            <4>1. CASE i = m + 1 /\ j = m + 1 BY <4>1
            <4>2. CASE i \in 1..m /\ j \in 1..m
                BY <1>2, <3>1, <3>3, <4>2
            <4>3. CASE i \in 1..m /\ j = m + 1 BY <1>2, <1>12, <3>3, <4>3
            <4>4. CASE i = m + 1 /\ j \in 1..m BY <1>2, <1>12, <3>3, <4>4
            <4>5. QED BY <3>2, <4>1, <4>2, <4>3, <4>4
        <3>4. QED BY <1>2, <3>3
    <2>3. \A i, j \in DOMAIN pending' :
              /\ pending'[i].txn = t /\ pending'[j].txn = t
              /\ pending'[i].n = pending'[j].n
              => i = j
        BY <1>1, <1>4, <1>7, <1>8 DEF Accounted
    <2>4. QED BY <2>1, <2>2, <2>3 DEF Accounted
<1>14. Numbered(t)'
    <2>1. \A i \in 1..(m + 1) : i \in 1..m \/ i = m + 1 BY <1>2
    <2>2. \A i \in DOMAIN executed'[t] : executed'[t][i].n \in 1..issued[t]
        BY <1>2, <1>4, <1>5, <2>1 DEF Numbered
    <2>3. \A i \in DOMAIN pending' :
              pending'[i].txn = t => pending'[i].n \in 1..issued[t]
        BY <1>1, <1>4, <1>7 DEF Numbered
    <2>4. QED BY <1>3, <2>2, <2>3 DEF Numbered
<1>15. ~ (t >= next_transaction_id) BY <1>3 DEF CommandData
<1>16. QED BY <1>13, <1>14, <1>15 DEF Kept

\* No transaction has begun, and nothing was issued.
LEMMA CommandsInit == EngineInit => CommandsInv
<1> SUFFICES ASSUME EngineInit PROVE CommandsInv OBVIOUS
<1>1. LogInv BY LogInitInv
<1>2. active_transactions = {} BY DEF EngineInit, TxnInit
<1>3. ASSUME NEW t \in Txn PROVE Kept(t)
    BY <1>2, <1>3 DEF EngineInit, Kept, Untouched
<1>4. QED BY <1>1, <1>3 DEF CommandsInv

\* A transaction that begins takes the next id, which has no commands yet.
LEMMA BeginKeeps ==
    ASSUME CommandData, NEW b \in Txn, Begin(b), NEW t \in Txn, Kept(t)
    PROVE  Kept(t)'
<1>1. /\ b = next_transaction_id
      /\ next_transaction_id' = next_transaction_id + 1
      /\ active_transactions' = active_transactions \cup {b}
      /\ UNCHANGED <<pending, executed, issued>>
    BY DEF Begin, beginTransaction, historyVars
<1>2. t \in Nat /\ next_transaction_id \in Nat BY DEF CommandData
<1>3. ASSUME Untouched(t) PROVE Accounted(t) /\ Numbered(t)
    BY <1>3 DEF Untouched, Accounted, Numbered
<1>4. t \in active_transactions' => Accounted(t) /\ Numbered(t)
    BY <1>1, <1>2, <1>3 DEF Kept
<1>5. t >= next_transaction_id' => Untouched(t) BY <1>1, <1>2 DEF Kept
<1>6. QED
    BY <1>1, <1>4, <1>5
    DEF Kept, Accounted, Numbered, Untouched, IsExecuted, IsParked

\* The steps that only complete transactions, or do nothing to commands.
LEMMA CompletionKeeps ==
    ASSUME active_transactions' \subseteq active_transactions,
           UNCHANGED <<next_transaction_id, pending, executed, issued>>,
           NEW t \in Txn, Kept(t)
    PROVE  Kept(t)'
BY DEF Kept, Accounted, Numbered, Untouched, IsExecuted, IsParked

\* RECOVER forgets the parked commands when nothing is active any more.
LEMMA RecoverKeeps ==
    ASSUME active_transactions = {}, pending' = << >>,
           UNCHANGED <<active_transactions, next_transaction_id,
                       executed, issued>>,
           NEW t \in Txn, Kept(t)
    PROVE  Kept(t)'
BY DEF Kept, Untouched

\* isTransactionActive looks at the map and at the state: they agree.
LEMMA ActiveAlike ==
    LogInv => \A t : isTransactionActive(t) <=> t \in active_transactions
BY DEF LogInv, TxnInv, StatisticsAgree, isTransactionActive

\* What a READ or WRITE does to the commands.
LEMMA IssueStep ==
    ASSUME LogInv, NEW t \in Txn, NEW op \in Op, NEW r \in Resource,
           ReadOrWrite(t, op, r)
    PROVE  /\ UNCHANGED <<active_transactions, next_transaction_id>>
           /\ \E c \in Command : Parks(c) \/ ExecutesNew(c)
<1> DEFINE c == [op |-> op, txn |-> t, res |-> r,
                 n |-> IF isTransactionActive(t) THEN issued'[t] ELSE 0]
<1>1. c \in Command BY IssuedCommandType DEF LogInv
<1>2. CommandData BY DataKnown
<1>3. /\ c.txn = t
      /\ c.n = IF isTransactionActive(t) THEN issued'[t] ELSE 0
    OBVIOUS
<1>4. \/ pending' = Append(pending, c) /\ UNCHANGED executed
      \/ \E done \in BOOLEAN :
            /\ executeCommand(c, done)
            /\ pending' = IF done THEN pending ELSE Append(pending, c)
    BY DEF ReadOrWrite
<1> HIDE DEF c
<1>5. t < next_transaction_id
    <2>1. Begun /\ txn_state[t] # "NEW" BY DEF LogInv, TxnInv, ReadOrWrite
    <2>2. ~ (t >= next_transaction_id)
        BY <2>1, EngineAssumption DEF Begun
    <2>3. QED BY <1>2, <2>2 DEF CommandData
<1>6. Issues(c)
    <2>1. CASE isTransactionActive(t)
        <3>1. issued' = [issued EXCEPT ![t] = @ + 1] BY <2>1 DEF ReadOrWrite
        <3>2. issued'[t] = issued[t] + 1 BY <1>2, <3>1 DEF CommandData
        <3>3. c.n = issued[t] + 1 BY <1>3, <2>1, <3>2
        <3>4. QED BY <1>3, <2>1, <3>1, <3>3 DEF Issues, isTransactionActive
    <2>2. CASE ~ isTransactionActive(t)
        <3>1. issued' = issued BY <2>2 DEF ReadOrWrite
        <3>2. QED BY <1>3, <1>5, <2>2, <3>1, ActiveAlike DEF Issues
    <2>3. QED BY <2>1, <2>2
<1>7. Parks(c) \/ ExecutesNew(c)
    <2>1. CASE pending' = Append(pending, c) /\ UNCHANGED executed
        BY <1>6, <2>1 DEF Parks
    <2>2. CASE executeCommand(c, FALSE) /\ pending' = Append(pending, c)
        BY <1>6, <2>2 DEF Parks, executeCommand
    <2>3. CASE executeCommand(c, TRUE) /\ pending' = pending
        BY <1>6, <2>3
        DEF ExecutesNew, executeCommand, Perform, isTransactionActive
    <2>4. QED BY <1>4, <2>1, <2>2, <2>3
<1>8. UNCHANGED <<active_transactions, next_transaction_id>>
    BY DEF ReadOrWrite, txnVars
<1>9. QED BY <1>1, <1>7, <1>8

\* What a visit of processPending does to the commands.
LEMMA VisitStep ==
    ASSUME LogInv, DrainCommand
    PROVE  /\ UNCHANGED <<active_transactions, next_transaction_id>>
           /\ \/ Drops
              \/ ExecutesParked
              \/ UNCHANGED <<pending, executed, issued>>
<1>1. cursor \in DOMAIN pending
    <2>1. pending \in Seq(Command) /\ cursor \in Nat \ {0}
        BY DEF LogInv, EngineTypeOK
    <2>2. DOMAIN pending = 1..Len(pending) /\ Len(pending) \in Nat BY <2>1
    <2>3. cursor <= Len(pending) BY DEF DrainCommand
    <2>4. QED BY <2>1, <2>2, <2>3
<1>2. UNCHANGED <<active_transactions, next_transaction_id, issued>>
    BY DEF DrainCommand, txnVars
<1>3. CASE /\ ~ isTransactionActive(pending[cursor].txn)
           /\ pending' = RemoveCommand(pending, cursor)
           /\ UNCHANGED executed
    BY <1>1, <1>2, <1>3, ActiveAlike DEF Drops
<1>4. CASE /\ isTransactionActive(pending[cursor].txn)
           /\ executeCommand(pending[cursor], TRUE)
           /\ pending' = RemoveCommand(pending, cursor)
    BY <1>1, <1>2, <1>4
    DEF ExecutesParked, executeCommand, Perform, isTransactionActive
<1>5. CASE /\ executeCommand(pending[cursor], FALSE)
           /\ UNCHANGED pending
    BY <1>2, <1>5 DEF executeCommand
<1>6. QED BY <1>2, <1>3, <1>4, <1>5 DEF DrainCommand

\* Every step keeps the commands of every transaction.
LEMMA CommandsNext == CommandsInv /\ [EngineNext]_vars => CommandsInv'
<1> SUFFICES ASSUME CommandsInv, [EngineNext]_vars PROVE CommandsInv' OBVIOUS
<1>1. LogInv /\ LogInv' BY LogNextInv DEF CommandsInv
<1>2. CommandData BY <1>1, DataKnown
<1> SUFFICES ASSUME NEW t \in Txn PROVE Kept(t)' BY <1>1 DEF CommandsInv
<1>3. Kept(t) BY DEF CommandsInv
<1>4. CASE \E b \in Txn : Begin(b) BY <1>2, <1>3, <1>4, BeginKeeps
<1>5. CASE \E d \in Txn : Commit(d) \/ Abort(d)
    <2>1. /\ active_transactions' \subseteq active_transactions
          /\ UNCHANGED <<next_transaction_id, pending, executed, issued>>
        BY <1>5
        DEF Commit, Abort, commitTransaction, abortTransaction, Finish,
            historyVars
    <2>2. QED BY <1>3, <2>1, CompletionKeeps
<1>6. CASE \E u \in Txn, op \in Op, r \in Resource : ReadOrWrite(u, op, r)
    <2>1. /\ UNCHANGED <<active_transactions, next_transaction_id>>
          /\ \E c \in Command : Parks(c) \/ ExecutesNew(c)
        BY <1>1, <1>6, IssueStep
    <2>2. QED BY <1>2, <1>3, <2>1, ParksKeeps, ExecutesNewKeeps
<1>7. CASE DrainCommand
    <2>1. UNCHANGED <<active_transactions, next_transaction_id>>
        BY <1>1, <1>7, VisitStep
    <2>2. CASE Drops
        <3>1. CASE pending[cursor].txn # t
            BY <1>2, <1>3, <2>1, <2>2, <3>1, OthersRemoved DEF Drops
        <3>2. CASE pending[cursor].txn = t
            <4>1. t \notin active_transactions' BY <2>1, <2>2, <3>2 DEF Drops
            <4>2. ~ (t >= next_transaction_id')
                BY <1>3, <2>1, <2>2, <3>2 DEF Drops, Kept, Untouched
            <4>3. QED BY <4>1, <4>2 DEF Kept
        <3>3. QED BY <3>1, <3>2
    <2>3. CASE ExecutesParked
        <3>1. CASE pending[cursor].txn # t
            <4>1. executed'[t] = executed[t] /\ issued' = issued
                BY <1>2, <2>3, <3>1 DEF ExecutesParked, CommandData
            <4>2. QED
                BY <1>2, <1>3, <2>1, <2>3, <3>1, <4>1, OthersRemoved
                DEF ExecutesParked
        <3>2. CASE pending[cursor].txn = t
            BY <1>2, <1>3, <2>1, <2>3, <3>2, ExecutesParkedKeeps
        <3>3. QED BY <3>1, <3>2
    <2>4. CASE UNCHANGED <<pending, executed, issued>>
        BY <1>3, <2>1, <2>4, CompletionKeeps
    <2>5. QED BY <1>1, <1>7, <2>2, <2>3, <2>4, VisitStep
<1>8. CASE RecoverLog
    <2>1. /\ active_transactions = {} /\ pending' = << >>
          /\ UNCHANGED <<active_transactions, next_transaction_id,
                         executed, issued>>
        BY <1>1, <1>8 DEF RecoverLog, LogInv, txnVars, historyVars
    <2>2. QED BY <1>3, <2>1, RecoverKeeps
<1>9. CASE \/ \E child, parent \in Resource : Show(child, parent)
           \/ Recover \/ DrainPass \/ RecoverTxn \/ UNCHANGED vars
    <2>1. /\ active_transactions' \subseteq active_transactions
          /\ UNCHANGED <<next_transaction_id, pending, executed, issued>>
        BY <1>9
        DEF Show, Recover, abortAllTransactions, Finish, DrainPass, RecoverTxn,
            vars, txnVars, sessionVars, historyVars
    <2>2. QED BY <1>3, <2>1, CompletionKeeps
<1>10. QED
    BY <1>4, <1>5, <1>6, <1>7, <1>8, <1>9 DEF EngineNext, LoopStep

\* Whatever processPending does to the list while it iterates over it, each
\* command of an active transaction stays executed or parked, and only once.
THEOREM EveryCommandKept == EngineSpec => []NothingLost
<1>1. CommandsInv => NothingLost
    <2> SUFFICES ASSUME CommandsInv, NEW t \in active_transactions
                 PROVE  Accounted(t)
        BY DEF NothingLost
    <2>1. t \in Txn BY DataKnown DEF CommandsInv, CommandData
    <2>2. QED BY <2>1 DEF CommandsInv, Kept
<1>2. QED BY <1>1, CommandsInit, CommandsNext, PTL DEF EngineSpec

-----------------------------------------------------------------------------
(***************************************************************************)
(* What is parked for a transaction that is over.  A pass goes by no       *)
(* command of such a transaction, so when the loop ends there is none;     *)
(* what is parked for one later has the number 0, and never executes.      *)
(***************************************************************************)

ExecutedIssued ==
    \A t \in Txn : \A i \in DOMAIN executed[t] : executed[t][i].n # 0

PassedActive ==
    phase = "draining" =>
        \A i \in DOMAIN pending :
            i < cursor => isTransactionActive(pending[i].txn)

IdleLate ==
    phase = "idle" =>
        \A i \in DOMAIN pending :
            ~ isTransactionActive(pending[i].txn) => pending[i].n = 0

OverInv == CommandsInv /\ ExecutedIssued /\ PassedActive /\ IdleLate

\* A parked command of an active transaction has a number.
LEMMA ActiveNumbered ==
    ASSUME CommandsInv, NEW i \in DOMAIN pending, isTransactionActive(pending[i].txn)
    PROVE  pending[i].n # 0
<1>1. LogInv /\ CommandData BY DataKnown DEF CommandsInv
<1>2. PICK t \in Txn : t = pending[i].txn /\ t \in active_transactions
    BY <1>1, ActiveAlike DEF CommandData
<1>3. pending[i].n \in 1..issued[t] /\ issued[t] \in Nat
    BY <1>1, <1>2, BoundsAssumption
    DEF CommandsInv, Kept, Numbered, CommandData
<1>4. QED BY <1>3

\* Only commands with a number execute.
LEMMA ExecutedNext ==
    ASSUME OverInv, [EngineNext]_vars
    PROVE  ExecutedIssued'
<1>1. LogInv /\ CommandData BY DataKnown DEF OverInv, CommandsInv
<1>2. ASSUME NEW c \in Command, c.n # 0,
             executed' = [executed EXCEPT ![c.txn] = Append(@, c)]
      PROVE  ExecutedIssued'
    <2> SUFFICES ASSUME NEW t \in Txn, NEW i \in DOMAIN executed'[t]
                 PROVE  executed'[t][i].n # 0
        BY DEF ExecutedIssued
    <2>1. CASE t # c.txn
        <3>1. executed'[t] = executed[t] BY <1>1, <1>2, <2>1 DEF CommandData
        <3>2. QED BY <3>1 DEF OverInv, ExecutedIssued
    <2>2. CASE t = c.txn
        <3>1. PICK e \in Seq(Command) : e = executed[t]
            BY <1>1 DEF CommandData
        <3>2. executed'[t] = Append(e, c)
            BY <1>1, <1>2, <2>2, <3>1 DEF CommandData
        <3>3. \A k \in DOMAIN e : e[k].n # 0
            BY <3>1 DEF OverInv, ExecutedIssued
        <3>4. i \in 1..(Len(e) + 1) /\ Len(e) \in Nat BY <3>1, <3>2
        <3>5. CASE i \in 1..Len(e)
            <4>1. Append(e, c)[i] = e[i] /\ i \in DOMAIN e BY <3>1, <3>5
            <4>2. QED BY <3>2, <3>3, <4>1
        <3>6. CASE i = Len(e) + 1 BY <1>2, <3>1, <3>2, <3>6
        <3>7. QED BY <3>4, <3>5, <3>6
    <2>3. QED BY <2>1, <2>2
<1>3. CASE UNCHANGED executed BY <1>3 DEF OverInv, ExecutedIssued
<1>4. CASE \E u \in Txn, op \in Op, r \in Resource : ReadOrWrite(u, op, r)
    <2>1. PICK c \in Command : Parks(c) \/ ExecutesNew(c)
        BY <1>1, <1>4, IssueStep
    <2>2. CASE Parks(c) BY <1>3, <2>2 DEF Parks
    <2>3. CASE ExecutesNew(c)
        <3>1. c.txn \in Txn /\ issued[c.txn] \in 0..MaxOps
            BY <1>1, <2>1 DEF Command, CommandData
        <3>2. c.n = issued[c.txn] + 1
            BY <2>3 DEF ExecutesNew, Issues
        <3>3. c.n # 0 BY <3>1, <3>2, BoundsAssumption
        <3>4. QED BY <1>2, <2>3, <3>3 DEF ExecutesNew
    <2>4. QED BY <2>1, <2>2, <2>3
<1>5. CASE DrainCommand
    <2>1. Drops \/ ExecutesParked \/ UNCHANGED <<pending, executed, issued>>
        BY <1>1, <1>5, VisitStep
    <2>2. CASE ExecutesParked
        <3>1. PICK c \in Command : c = pending[cursor]
            BY <1>1, <2>2 DEF ExecutesParked, CommandData
        <3>2. c.n # 0
            BY <1>1, <2>2, <3>1, ActiveAlike, ActiveNumbered
            DEF ExecutesParked, OverInv
        <3>3. QED BY <1>2, <2>2, <3>1, <3>2 DEF ExecutesParked
    <2>3. QED BY <1>3, <2>1, <2>2 DEF Drops
<1>6. CASE \/ \E t \in Txn : Begin(t) \/ Commit(t) \/ Abort(t)
           \/ \E child, parent \in Resource : Show(child, parent)
           \/ Recover \/ DrainPass \/ RecoverTxn \/ RecoverLog \/ UNCHANGED vars
    BY <1>3, <1>6
    DEF Begin, Commit, Abort, Show, Recover, DrainPass, RecoverTxn, RecoverLog,
        vars, historyVars
<1>7. QED BY <1>4, <1>5, <1>6 DEF EngineNext, LoopStep

\* A visit leaves no command of a transaction that is over behind it.
LEMMA VisitKeepsActive ==
    ASSUME OverInv, DrainCommand
    PROVE  PassedActive'
<1>1. /\ pending \in Seq(Command) /\ cursor \in 1..Len(pending)
      /\ DOMAIN pending = 1..Len(pending) /\ Len(pending) \in Nat
    BY DEF OverInv, CommandsInv, LogInv, EngineTypeOK, DrainCommand
<1>2. /\ phase = "draining"
      /\ \A u : isTransactionActive(u)' <=> isTransactionActive(u)
    BY DEF DrainCommand, txnVars, isTransactionActive
<1>3. \A i \in DOMAIN pending : i < cursor => isTransactionActive(pending[i].txn)
    BY <1>2 DEF OverInv, PassedActive
<1> SUFFICES ASSUME NEW i \in DOMAIN pending', i < cursor'
             PROVE  isTransactionActive(pending'[i].txn)
    BY <1>2 DEF PassedActive
<1>4. CASE pending' = RemoveCommand(pending, cursor) /\ cursor' = cursor
    <2>1. /\ DOMAIN pending' = 1..(Len(pending) - 1)
          /\ \A j \in 1..(Len(pending) - 1) :
                pending'[j] = pending[Before(cursor, j)]
        BY <1>1, <1>4, RemoveElements
    <2>2. i \in DOMAIN pending /\ i < cursor /\ pending'[i] = pending[i]
        BY <1>1, <1>4, <2>1 DEF Before
    <2>3. QED BY <1>3, <2>2
<1>5. CASE /\ isTransactionActive(pending[cursor].txn)
           /\ cursor' = cursor + 1
           /\ pending' = pending
    <2>1. i < cursor \/ i = cursor BY <1>1, <1>5
    <2>2. QED BY <1>3, <1>5, <2>1
<1>6. QED BY <1>4, <1>5 DEF DrainCommand

\* A command parked for a transaction that is over has the number 0.
LEMMA IssueKeepsLate ==
    ASSUME OverInv, NEW t \in Txn, NEW op \in Op, NEW r \in Resource,
           ReadOrWrite(t, op, r)
    PROVE  IdleLate'
<1> DEFINE c == [op |-> op, txn |-> t, res |-> r,
                 n |-> IF isTransactionActive(t) THEN issued'[t] ELSE 0]
<1>1. /\ phase = "idle"
      /\ \A u : isTransactionActive(u)' <=> isTransactionActive(u)
    BY DEF ReadOrWrite, txnVars, isTransactionActive
<1>2. pending \in Seq(Command)
    BY DEF OverInv, CommandsInv, LogInv, EngineTypeOK
<1>3. pending' = pending \/ pending' = Append(pending, c)
    BY DEF ReadOrWrite
<1>4. c.txn = t /\ (~ isTransactionActive(t) => c.n = 0) OBVIOUS
<1> HIDE DEF c
<1>5. \A i \in DOMAIN pending :
         ~ isTransactionActive(pending[i].txn) => pending[i].n = 0
    BY <1>1 DEF OverInv, IdleLate
<1>6. \A i \in DOMAIN pending' :
         ~ isTransactionActive(pending'[i].txn) => pending'[i].n = 0
    <2>1. CASE pending' = pending BY <1>5, <2>1
    <2>2. CASE pending' = Append(pending, c)
        <3>1. /\ DOMAIN pending' = 1..(Len(pending) + 1) /\ Len(pending) \in Nat
              /\ \A i \in 1..Len(pending) : pending'[i] = pending[i]
              /\ pending'[Len(pending) + 1] = c
              /\ DOMAIN pending = 1..Len(pending)
            BY <1>2, <2>2
        <3>2. \A i \in DOMAIN pending' :
                 i \in DOMAIN pending \/ i = Len(pending) + 1
            BY <3>1
        <3>3. QED BY <1>4, <1>5, <3>1, <3>2
    <2>3. QED BY <1>3, <2>1, <2>2
<1>7. QED BY <1>1, <1>6 DEF IdleLate

LEMMA OverNext ==
    ASSUME OverInv, [EngineNext]_vars
    PROVE  PassedActive' /\ IdleLate'
<1>1. EngineTypeOK BY DEF OverInv, CommandsInv, LogInv
<1>2. /\ DOMAIN pending = 1..Len(pending) /\ Len(pending) \in Nat
      /\ cursor \in Nat \ {0}
    BY <1>1 DEF EngineTypeOK
<1>3. CASE \E b \in Txn : Begin(b)
    <2>1. PICK b \in Txn : Begin(b) BY <1>3
    <2>2. /\ phase = "idle" /\ phase' = "idle" /\ pending' = pending
          /\ txn_state' = [txn_state EXCEPT ![b] = "ACTIVE"]
          /\ active_transactions' = active_transactions \cup {b}
        BY <2>1 DEF Begin, beginTransaction, loopVars
    <2>3. \A u : isTransactionActive(u) => isTransactionActive(u)'
        BY <1>1, <2>2, EngineAssumption
        DEF isTransactionActive, EngineTypeOK, TxnTypeOK
    <2>4. QED BY <2>2, <2>3 DEF OverInv, PassedActive, IdleLate
<1>4. CASE \E t \in Txn : Commit(t) \/ Abort(t)
    <2>1. phase' = "draining" /\ cursor' = 1 /\ pending' = pending
        BY <1>4 DEF Commit, Abort, StartDrain
    <2>2. QED BY <1>2, <2>1 DEF PassedActive, IdleLate
<1>5. CASE \E u \in Txn, op \in Op, r \in Resource : ReadOrWrite(u, op, r)
    <2>1. phase' = "idle" BY <1>5 DEF ReadOrWrite, loopVars
    <2>2. QED BY <1>5, <2>1, IssueKeepsLate DEF PassedActive
<1>6. CASE Recover \/ RecoverTxn
    BY <1>6 DEF Recover, RecoverTxn, PassedActive, IdleLate
<1>7. CASE DrainCommand
    <2>1. phase' = "draining" BY <1>7 DEF DrainCommand
    <2>2. QED BY <1>7, <2>1, VisitKeepsActive DEF IdleLate
<1>8. CASE DrainPass
    <2>1. /\ phase = "draining" /\ cursor > Len(pending) /\ cursor' = 1
          /\ pending' = pending
          /\ \A u : isTransactionActive(u)' <=> isTransactionActive(u)
        BY <1>8 DEF DrainPass, sessionVars, txnVars, isTransactionActive
    <2>2. PassedActive' BY <1>2, <2>1 DEF PassedActive
    <2>3. \A i \in DOMAIN pending : isTransactionActive(pending[i].txn)
        BY <1>2, <2>1 DEF OverInv, PassedActive
    <2>4. QED BY <2>1, <2>2, <2>3 DEF IdleLate
<1>9. CASE RecoverLog
    BY <1>9 DEF RecoverLog, PassedActive, IdleLate
<1>10. CASE \/ \E child, parent \in Resource : Show(child, parent)
            \/ UNCHANGED vars
    <2>1. /\ UNCHANGED <<pending, phase, cursor>>
          /\ \A u : isTransactionActive(u)' <=> isTransactionActive(u)
        BY <1>10
        DEF Show, vars, sessionVars, loopVars, txnVars, isTransactionActive
    <2>2. QED BY <2>1 DEF OverInv, PassedActive, IdleLate
<1>11. QED
    BY <1>3, <1>4, <1>5, <1>6, <1>7, <1>8, <1>9, <1>10
    DEF EngineNext, LoopStep

\* What a transaction has parked when it commits or aborts is dropped by the
\* drain that follows and never executes; nor does what is parked for it later
\* (executeCommand and processPending both ask isTransactionActive).
THEOREM OverIsOver == EngineSpec => []OverMeansOver
<1>1. EngineInit => ExecutedIssued /\ PassedActive /\ IdleLate
    BY DEF EngineInit, ExecutedIssued, PassedActive, IdleLate
<1>2. OverInv /\ [EngineNext]_vars
          => CommandsInv' /\ ExecutedIssued' /\ PassedActive' /\ IdleLate'
    BY CommandsNext, ExecutedNext, OverNext DEF OverInv
<1>3. OverInv => OverMeansOver
    BY ActiveNumbered DEF OverInv, OverMeansOver, ExecutedIssued, IdleLate
<1>4. QED
    BY <1>1, <1>2, <1>3, CommandsInit, PTL DEF EngineSpec, OverInv

-----------------------------------------------------------------------------
(***************************************************************************)
(* No command sleeps while its lock is free.  A pass of processPending     *)
(* that makes progress is followed by another, so when the loop ends every *)
(* parked command has been refused by the locks that are there; until the  *)
(* next completion locks only grow stronger.                               *)
(***************************************************************************)

Refused(c) == ~ CompatibleWithOthers(c.txn, c.res, LockFor(c.op))

\* A pass without progress so far has refused all it went by.
PassRefused ==
    phase = "draining" /\ ~ made_progress =>
        \A i \in DOMAIN pending :
            i < cursor /\ isTransactionActive(pending[i].txn)
                => Refused(pending[i])

WaitInv ==
    /\ CommandsInv
    /\ ManagersAgree
    /\ FlatTable
    /\ HeadsBlocked
    /\ PassRefused
    /\ PendingBlocked

\* A request refused by the lock manager conflicts with another's lock.
LEMMA RefusedMeans ==
    ASSUME FlatTable, NEW c \in Command,
           c.txn \notin completed_transactions,
           isTransactionActive(c.txn), executeCommand(c, FALSE)
    PROVE  Refused(c)
<1> DEFINE t == c.txn
           x == c.res
           m == LockFor(c.op)
<1>1. x \in Resource BY DEF Command
<1>2. PICK found : RequestActive(t, x, m, found, FALSE)
    BY DEF executeCommand, RequestLock
<1>3. x \notin Won(t, x, m, found) BY <1>2 DEF RequestActive
<1>4. Path(x) = {x} /\ Ancestors(x) = {} BY <1>1, FlatPath DEF FlatTable
<1>5. x \in Reached(t, x, m, found) BY <1>4 DEF Reached
<1>6. ~ Grantable(t, x, m, found[x]) BY <1>3, <1>5 DEF Won, Asked
<1>7. QED BY <1>6 DEF Grantable, Refused

\* Executing a command leaves what is refused refused.
LEMMA RefusedStays ==
    ASSUME LockTypeOK, FlatTable, NEW c \in Command, NEW done \in BOOLEAN,
           executeCommand(c, done), NEW d \in Command, Refused(d)
    PROVE  Refused(d)'
<1> DEFINE t == c.txn
           x == c.res
           m == LockFor(c.op)
<1>1. t \in Txn /\ x \in Resource /\ m \in {"S", "X"}
    BY DEF Command, LockFor
<1>2. PICK u \in Txn \ {d.txn} :
          \E h \in HeldModes(u, d.res) : ~ Compatible(h, LockFor(d.op))
    BY DEF Refused, CompatibleWithOthers
<1>3. PICK h \in HeldModes(u, d.res) : ~ Compatible(h, LockFor(d.op))
    BY <1>2
<1>4. d.res \in Resource BY DEF Command
<1> HIDE DEF t, x, m
<1>5. CASE UNCHANGED lockVars
    <2>1. HeldModes(u, d.res)' = HeldModes(u, d.res)
        BY <1>5 DEF lockVars, HeldModes
    <2>2. QED BY <1>2, <1>3, <2>1 DEF Refused, CompatibleWithOthers
<1>6. CASE \E found \in [Path(x) -> Mode \cup {NoLock}] :
              /\ \A y \in Path(x) : found[y] \in Existing(t, y)
              /\ RequestActive(t, x, m, found, done)
    <2>1. PICK found \in [Path(x) -> Mode \cup {NoLock}] :
              /\ \A y \in Path(x) : found[y] \in Existing(t, y)
              /\ RequestActive(t, x, m, found, done)
        BY <1>6
    <2>2. \E l \in HeldModes(u, d.res)' : ~ Compatible(l, LockFor(d.op))
        BY <1>1, <1>2, <1>3, <1>4, <2>1, FlatRequestStronger
    <2>3. QED BY <1>2, <2>2 DEF Refused, CompatibleWithOthers
<1>7. QED BY <1>5, <1>6 DEF executeCommand, RequestLock, t, x, m

\* READ and WRITE: a command parked behind another waits for that one, and a
\* command parked alone has just been refused.
LEMMA IssueKeepsBlocked ==
    ASSUME WaitInv, NEW t \in Txn, NEW op \in Op, NEW r \in Resource,
           ReadOrWrite(t, op, r)
    PROVE  PendingBlocked'
<1> DEFINE c == [op |-> op, txn |-> t, res |-> r,
                 n |-> IF isTransactionActive(t) THEN issued'[t] ELSE 0]
           n == Len(pending)
<1>1. LogInv /\ EngineTypeOK /\ LockTypeOK
    BY DEF WaitInv, CommandsInv, LogInv, EngineTypeOK
<1>2. c \in Command /\ c.txn = t BY <1>1, IssuedCommandType
<1>3. /\ phase = "idle"
      /\ \A u : isTransactionActive(u)' <=> isTransactionActive(u)
    BY DEF ReadOrWrite, txnVars, isTransactionActive
<1>4. \/ /\ hasPendingForTxn(t)
         /\ pending' = Append(pending, c)
         /\ UNCHANGED lockVars
      \/ \E done \in BOOLEAN :
            /\ executeCommand(c, done)
            /\ pending' = IF done THEN pending ELSE Append(pending, c)
    BY DEF ReadOrWrite
<1> HIDE DEF c
<1>5. pending \in Seq(Command) /\ n \in Nat /\ DOMAIN pending = 1..n
    BY <1>1 DEF EngineTypeOK
<1>6. \/ pending' = pending
      \/ pending' = Append(pending, c)
    BY <1>4
<1>7. /\ DOMAIN pending' \in {1..n, 1..(n + 1)}
      /\ \A i \in 1..n : pending'[i] = pending[i]
      /\ \A i \in DOMAIN pending' :
            \/ i \in 1..n
            \/ /\ i = n + 1
               /\ pending' = Append(pending, c)
               /\ pending'[i] = c
    <2>1. CASE pending' = pending BY <1>5, <2>1
    <2>2. CASE pending' = Append(pending, c)
        <3>1. /\ DOMAIN pending' = 1..(n + 1)
              /\ pending'[n + 1] = c
              /\ \A i \in 1..n : pending'[i] = pending[i]
            BY <1>2, <1>5, <2>2
        <3>2. \A i \in 1..(n + 1) : i \in 1..n \/ i = n + 1 BY <1>5
        <3>3. QED BY <2>2, <3>1, <3>2
    <2>3. QED BY <1>6, <2>1, <2>2
<1>8. pending # Append(pending, c)
    <2> SUFFICES ASSUME pending = Append(pending, c) PROVE FALSE OBVIOUS
    <2>1. Len(Append(pending, c)) = Len(pending) + 1 BY <1>2, <1>5
    <2>2. Len(Append(pending, c)) = Len(pending) OBVIOUS
    <2>3. Len(pending) \in Nat BY <1>5
    <2>4. QED BY <2>1, <2>2, <2>3
<1> HIDE DEF n
<1>9. ASSUME NEW d \in Command, Refused(d) PROVE Refused(d)'
    <2>1. CASE UNCHANGED lockVars
        BY <1>9, <2>1
        DEF Refused, CompatibleWithOthers, HeldModes, lockVars
    <2>2. CASE \E done \in BOOLEAN : executeCommand(c, done)
        BY <1>1, <1>2, <1>9, <2>2, RefusedStays DEF WaitInv
    <2>3. QED BY <1>4, <2>1, <2>2
<1>10. ASSUME NEW i \in DOMAIN pending', NEW d \in Command, d = pending'[i],
             isTransactionActive(d.txn), FirstPending(i)'
      PROVE  Refused(d)'
    <2>1. CASE i \in 1..n
        <3>1. d = pending[i] BY <1>7, <1>10, <2>1
        <3>2. \A j \in 1..(i - 1) : pending'[j] = pending[j]
            BY <1>5, <1>7, <2>1
        <3>3. FirstPending(i)
            BY <1>10, <3>1, <3>2 DEF FirstPending
        <3>4. Refused(d)
            BY <1>3, <1>5, <1>10, <2>1, <3>1, <3>3
            DEF WaitInv, PendingBlocked, Refused
        <3>5. QED BY <1>9, <3>4
    <2>2. CASE i = n + 1 /\ pending' = Append(pending, c) /\ pending'[i] = c
        <3>1. d = c BY <1>10, <2>2
        <3>2. CASE hasPendingForTxn(t)
            <4>1. PICK j \in 1..n : pending[j].txn = t
                BY <1>5, <3>2 DEF hasPendingForTxn
            <4>2. j \in 1..(i - 1) /\ pending'[j].txn = pending'[i].txn
                BY <1>2, <1>5, <1>7, <2>2, <4>1
            <4>3. QED BY <1>10, <4>2 DEF FirstPending
        <3>3. CASE ~ hasPendingForTxn(t)
            <4>1. PICK done \in BOOLEAN :
                      /\ executeCommand(c, done)
                      /\ pending' = IF done THEN pending
                                    ELSE Append(pending, c)
                BY <1>4, <3>3
            <4>2. done = FALSE BY <1>8, <2>2, <4>1
            <4>3. t \notin completed_transactions
                BY <1>1, <1>2, <1>10, <3>1, ActiveAlike
                DEF WaitInv, ManagersAgree
            <4>4. Refused(c)
                BY <1>2, <1>10, <3>1, <4>1, <4>2, <4>3, RefusedMeans
                DEF WaitInv
            <4>5. QED BY <1>2, <1>9, <3>1, <4>4
        <3>4. QED BY <3>2, <3>3
    <2>3. QED BY <1>7, <2>1, <2>2
<1>11. \A i \in DOMAIN pending' : pending'[i] \in Command
    BY <1>2, <1>5, <1>7
<1>12. QED
    BY <1>3, <1>10, <1>11 DEF PendingBlocked, Refused

\* processPending moves its iterator past a command only when it is refused,
\* and sets made_progress when a lock may have changed.
LEMMA VisitKeepsRefused ==
    ASSUME WaitInv, DrainCommand
    PROVE  PassRefused'
<1>1. LogInv /\ EngineTypeOK /\ LockTypeOK
    BY DEF WaitInv, CommandsInv, LogInv, EngineTypeOK
<1>2. /\ phase = "draining"
      /\ \A u : isTransactionActive(u)' <=> isTransactionActive(u)
    BY DEF DrainCommand, txnVars, isTransactionActive
<1>3. /\ pending \in Seq(Command) /\ cursor \in Nat \ {0}
      /\ cursor \in 1..Len(pending) /\ DOMAIN pending = 1..Len(pending)
    BY <1>1 DEF EngineTypeOK, DrainCommand
<1>4. ASSUME ~ made_progress, NEW i \in DOMAIN pending, i < cursor,
             isTransactionActive(pending[i].txn)
      PROVE  Refused(pending[i])
    BY <1>2, <1>4 DEF WaitInv, PassRefused
<1> SUFFICES ASSUME ~ made_progress', NEW i \in DOMAIN pending',
                    i < cursor', NEW d, d = pending'[i],
                    isTransactionActive(d.txn)
             PROVE  Refused(d)'
    BY <1>2 DEF PassRefused, Refused
<1>5. CASE /\ ~ isTransactionActive(pending[cursor].txn)
           /\ pending' = RemoveCommand(pending, cursor)
           /\ UNCHANGED <<lockVars, cursor, made_progress>>
    <2>1. /\ DOMAIN pending' = 1..(Len(pending) - 1)
          /\ \A j \in 1..(Len(pending) - 1) :
                pending'[j] = pending[Before(cursor, j)]
        BY <1>3, <1>5, RemoveElements
    <2>2. i \in DOMAIN pending /\ i < cursor /\ d = pending[i]
        BY <1>3, <1>5, <2>1 DEF Before
    <2>3. Refused(d) BY <1>4, <1>5, <2>2
    <2>4. QED
        BY <1>5, <2>3 DEF Refused, CompatibleWithOthers, HeldModes, lockVars
<1>6. CASE made_progress' = TRUE BY <1>6
<1>7. CASE /\ isTransactionActive(pending[cursor].txn)
           /\ executeCommand(pending[cursor], FALSE)
           /\ cursor' = cursor + 1
           /\ UNCHANGED <<pending, made_progress>>
    <2>1. PICK c \in Command : c = pending[cursor] BY <1>3
    <2>2. d \in Command /\ i \in DOMAIN pending /\ d = pending[i]
        BY <1>3, <1>7
    <2>3. CASE i < cursor
        <3>1. Refused(d) BY <1>4, <1>7, <2>2, <2>3
        <3>2. QED BY <1>1, <1>7, <2>1, <2>2, <3>1, RefusedStays DEF WaitInv
    <2>4. CASE i = cursor
        <3>1. c.txn \notin completed_transactions
            BY <1>1, <1>7, <2>1, ActiveAlike DEF WaitInv, ManagersAgree
        <3>2. Refused(c) BY <1>7, <2>1, <3>1, RefusedMeans DEF WaitInv
        <3>3. QED
            BY <1>1, <1>7, <2>1, <2>2, <2>4, <3>2, RefusedStays DEF WaitInv
    <2>5. i < cursor \/ i = cursor BY <1>3, <1>7
    <2>6. QED BY <2>3, <2>4, <2>5
<1>8. QED BY <1>5, <1>6, <1>7 DEF DrainCommand

\* A transaction that begins has no parked command.
LEMMA BeginKeepsBlocked ==
    ASSUME WaitInv, NEW b \in Txn, Begin(b)
    PROVE  PendingBlocked'
<1>1. /\ phase = "idle" /\ phase' = "idle" /\ pending' = pending
      /\ UNCHANGED lockVars
      /\ b = next_transaction_id
      /\ txn_state' = [txn_state EXCEPT ![b] = "ACTIVE"]
      /\ active_transactions' = active_transactions \cup {b}
    BY DEF Begin, beginTransaction, loopVars
<1>2. TxnTypeOK /\ Txn \subseteq Nat
    BY DataKnown
    DEF WaitInv, CommandsInv, LogInv, EngineTypeOK, CommandData
<1>3. \A i \in DOMAIN pending : pending[i].txn # b
    <2>1. Kept(b) /\ b >= next_transaction_id
        BY <1>1, <1>2 DEF WaitInv, CommandsInv
    <2>2. QED BY <2>1 DEF Kept, Untouched
<1>4. \A u : u # b => (isTransactionActive(u)' => isTransactionActive(u))
    BY <1>1, <1>2, EngineAssumption DEF isTransactionActive, TxnTypeOK
<1> SUFFICES ASSUME NEW i \in DOMAIN pending, NEW d, d = pending[i],
                    isTransactionActive(d.txn)', FirstPending(i)
             PROVE  Refused(d)'
    BY <1>1 DEF PendingBlocked, Refused, FirstPending
<1>5. isTransactionActive(d.txn) BY <1>3, <1>4
<1>6. Refused(d) BY <1>1, <1>5 DEF WaitInv, PendingBlocked, Refused
<1>7. QED
    BY <1>1, <1>6 DEF Refused, CompatibleWithOthers, HeldModes, lockVars

\* Every step keeps what is parked refused.
LEMMA WaitNext ==
    ASSUME FlatCallers
    PROVE  WaitInv /\ [EngineNext]_vars => PassRefused' /\ PendingBlocked'
<1> SUFFICES ASSUME WaitInv, [EngineNext]_vars
             PROVE  PassRefused' /\ PendingBlocked'
    OBVIOUS
<1>1. EngineTypeOK BY DEF WaitInv, CommandsInv, LogInv
<1>2. /\ phase \in {"idle", "draining", "recovering"}
      /\ DOMAIN pending = 1..Len(pending) /\ Len(pending) \in Nat
      /\ cursor \in Nat \ {0}
    BY <1>1 DEF EngineTypeOK
<1>3. CASE \E b \in Txn : Begin(b)
    <2>1. phase' = "idle" BY <1>3 DEF Begin, loopVars
    <2>2. QED BY <1>3, <2>1, BeginKeepsBlocked DEF PassRefused
<1>4. CASE \E t \in Txn : Commit(t) \/ Abort(t)
    <2>1. phase' = "draining" /\ cursor' = 1
        BY <1>4 DEF Commit, Abort, StartDrain
    <2>2. pending' = pending BY <1>4 DEF Commit, Abort
    <2>3. QED BY <1>2, <2>1, <2>2 DEF PassRefused, PendingBlocked
<1>5. CASE \E u \in Txn, op \in Op, r \in Resource : ReadOrWrite(u, op, r)
    <2>1. phase' = "idle" BY <1>5 DEF ReadOrWrite, loopVars
    <2>2. QED BY <1>5, <2>1, IssueKeepsBlocked DEF PassRefused
<1>6. CASE \E child, parent \in Resource : Show(child, parent)
    BY <1>6 DEF Show, SetResourceParent, FlatCallers
<1>7. CASE Recover \/ RecoverTxn
    BY <1>7 DEF Recover, RecoverTxn, PassRefused, PendingBlocked
<1>8. CASE DrainCommand
    <2>1. phase' = "draining" BY <1>8 DEF DrainCommand
    <2>2. QED BY <1>8, <2>1, VisitKeepsRefused DEF PendingBlocked
<1>9. CASE DrainPass
    <2>1. /\ phase = "draining" /\ cursor > Len(pending) /\ cursor' = 1
          /\ pending' = pending /\ UNCHANGED <<lockVars, txnVars>>
          /\ phase' = IF made_progress THEN "draining" ELSE "idle"
        BY <1>9 DEF DrainPass, sessionVars
    <2>2. PassRefused' BY <1>2, <2>1 DEF PassRefused
    <2>3. ASSUME phase' = "idle", NEW i \in DOMAIN pending,
                 NEW d, d = pending[i], isTransactionActive(d.txn)'
          PROVE  Refused(d)'
        <3>1. ~ made_progress /\ i < cursor BY <1>2, <2>1, <2>3
        <3>2. isTransactionActive(d.txn)
            BY <2>1, <2>3 DEF isTransactionActive, txnVars
        <3>3. Refused(d) BY <2>1, <2>3, <3>1, <3>2 DEF WaitInv, PassRefused
        <3>4. QED
            BY <2>1, <3>3
            DEF Refused, CompatibleWithOthers, HeldModes, lockVars
    <2>4. PendingBlocked' BY <2>1, <2>3 DEF PendingBlocked, Refused
    <2>5. QED BY <2>2, <2>4
<1>10. CASE RecoverLog
    BY <1>10 DEF RecoverLog, PassRefused, PendingBlocked
<1>11. CASE UNCHANGED vars
    <2>1. UNCHANGED <<pending, phase, cursor, made_progress, lockVars, txnVars>>
        BY <1>11 DEF vars, sessionVars, loopVars
    <2>2. /\ \A d : Refused(d)' <=> Refused(d)
          /\ \A u : isTransactionActive(u)' <=> isTransactionActive(u)
        BY <2>1
        DEF Refused, CompatibleWithOthers, HeldModes, isTransactionActive,
            lockVars, txnVars
    <2>3. QED
        BY <2>1, <2>2
        DEF WaitInv, PassRefused, PendingBlocked, Refused, FirstPending
<1>12. QED
    BY <1>3, <1>4, <1>5, <1>6, <1>7, <1>8, <1>9, <1>10, <1>11
    DEF EngineNext, LoopStep

\* Between commands, the first parked command of every active transaction is
\* refused by a lock of another (processPending runs until a pass executes
\* nothing): a program whose names have one segment never sleeps on a free
\* record, so what it waits for is a completion, which looks at the list.
THEOREM NothingSleeps ==
    ASSUME FlatCallers
    PROVE  EngineSpec => []PendingBlocked
<1>1. EngineInit => /\ CommandsInv /\ ManagersAgree /\ FlatTable
                    /\ HeadsBlocked /\ PassRefused /\ PendingBlocked
    <2>1. EngineInit => LockInit BY DEF EngineInit
    <2>2. EngineInit => PassRefused /\ PendingBlocked
        BY DEF EngineInit, PassRefused, PendingBlocked
    <2>3. QED
        BY <2>1, <2>2, CommandsInit, EngineInitInv, FlatNext DEF EngineInv
<1>2. FlatTable /\ HeadsBlocked /\ EngineTypeOK /\ [EngineNext]_vars
          => FlatTable' /\ HeadsBlocked'
    BY EngineLockStep, FlatNext DEF EngineTypeOK
<1>3. WaitInv /\ [EngineNext]_vars => PassRefused' /\ PendingBlocked'
    BY WaitNext
<1>4. EngineInv => ManagersAgree /\ EngineTypeOK BY DEF EngineInv
<1>5. QED
    BY <1>1, <1>2, <1>3, <1>4, CommandsInit, CommandsNext, EngineSafe, PTL
    DEF EngineSpec, WaitInv

-----------------------------------------------------------------------------
(***************************************************************************)
(* What ends the loops of COMMIT, ABORT and RECOVER: a step either ends    *)
(* the command or leaves less to do.                                       *)
(***************************************************************************)

\* RECOVER's loop: one transaction less, and no new one.
RecoverAdvances ==
    /\ phase = "recovering" /\ phase' = "recovering"
    /\ todo' \subseteq todo /\ todo' # todo

\* processPending, in lexicographic order: fewer parked commands; or the same
\* ones and the progress flag taken down; or the iterator further on, never
\* past the end of the list.
DrainAdvances ==
    /\ phase = "draining" /\ phase' = "draining"
    /\ \/ Len(pending') < Len(pending)
       \/ /\ pending' = pending
          /\ \/ made_progress /\ ~ made_progress'
             \/ /\ made_progress' = made_progress
                /\ cursor < cursor' /\ cursor' <= Len(pending') + 1

LoopAdvances == phase' = "idle" \/ RecoverAdvances \/ DrainAdvances

LEMMA LoopStepAdvances == EngineTypeOK /\ LoopStep => LoopAdvances
<1> SUFFICES ASSUME EngineTypeOK, LoopStep PROVE LoopAdvances
    OBVIOUS
<1>1. /\ pending \in Seq(Command) /\ Len(pending) \in Nat
      /\ cursor \in Nat \ {0} /\ made_progress \in BOOLEAN
    BY DEF EngineTypeOK
<1>2. CASE DrainCommand
    <2>1. phase = "draining" /\ phase' = "draining" /\ cursor \in 1..Len(pending)
        BY <1>1, <1>2 DEF DrainCommand
    <2>2. CASE pending' = RemoveCommand(pending, cursor)
        <3>1. DOMAIN pending' = 1..(Len(pending) - 1) /\ pending' \in Seq(Command)
            BY <1>1, <2>1, <2>2, RemoveElements
        <3>2. Len(pending') = Len(pending) - 1
            BY <1>1, <2>1, <3>1
        <3>3. QED
            BY <1>1, <2>1, <3>2 DEF LoopAdvances, DrainAdvances
    <2>3. CASE cursor' = cursor + 1 /\ UNCHANGED <<pending, made_progress>>
        <3>1. cursor < cursor' /\ cursor' <= Len(pending') + 1
            BY <1>1, <2>1, <2>3
        <3>2. QED
            BY <2>1, <2>3, <3>1 DEF LoopAdvances, DrainAdvances
    <2>4. QED
        BY <1>2, <2>2, <2>3 DEF DrainCommand
<1>3. CASE DrainPass
    <2>1. CASE made_progress
        BY <1>3, <2>1 DEF DrainPass, LoopAdvances, DrainAdvances, sessionVars
    <2>2. CASE ~ made_progress
        BY <1>3, <2>2 DEF DrainPass, LoopAdvances
    <2>3. QED
        BY <2>1, <2>2
<1>4. CASE RecoverTxn
    BY <1>4 DEF RecoverTxn, LoopAdvances, RecoverAdvances
<1>5. CASE RecoverLog
    BY <1>5 DEF RecoverLog, LoopAdvances
<1>6. QED
    BY <1>2, <1>3, <1>4, <1>5 DEF LoopStep

\* The loops of processPending and RECOVER cannot go round for ever: each of
\* their steps ends the command or goes down in a well-founded order (a pass is
\* repeated only if it has shortened the list), and no other step comes between.
THEOREM LoopsProgress ==
    EngineSpec => [][/\ LoopStep => LoopAdvances
                     /\ phase # "idle" => LoopStep]_vars
<1>1. EngineTypeOK /\ [EngineNext]_vars
          => [/\ LoopStep => LoopAdvances
              /\ phase # "idle" => LoopStep]_vars
    <2> SUFFICES ASSUME EngineTypeOK, EngineNext
                 PROVE  /\ LoopStep => LoopAdvances
                        /\ phase # "idle" => LoopStep
        OBVIOUS
    <2>1. phase # "idle" => LoopStep
        BY DEF EngineNext, Begin, Commit, Abort, ReadOrWrite, Show, Recover
    <2>2. QED
        BY <2>1, LoopStepAdvances
<1>2. QED
    BY <1>1, EngineTypeCorrect, PTL DEF EngineSpec

=============================================================================
