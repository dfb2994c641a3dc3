------------------------------- MODULE Engine --------------------------------
(***************************************************************************)
(* src/main.cpp: the command interpreter that drives the lock manager, the *)
(* transaction manager, the data store and the log.                        *)
(*                                                                         *)
(* One thread executes one command at a time; what makes it hard is that a *)
(* command that cannot have its lock is parked in "pending" and retried by *)
(* later COMMITs and ABORTs.  A command is one step, except that the       *)
(* retry loop of processPending takes a step per command it visits, and    *)
(* RECOVER one per transaction it completes: no other command is accepted  *)
(* while such a loop runs (phase).                                         *)
(*                                                                         *)
(* Data kept: who wrote a record last, not what.  The log is kept as one   *)
(* sequence per transaction, all that RecoveryManager's analysis depends   *)
(* on; CHECKPOINT, STATUS and HELP change nothing that is kept here.  A    *)
(* transaction's label is its id: main.cpp maps them one to one.           *)
(***************************************************************************)
EXTENDS LockManager, TransactionManager

CONSTANTS
    MaxOps,     \* bound: READs and WRITEs issued for an active transaction
    LateTxns    \* bound: the transactions also named in commands issued after
                \* they completed

ASSUME EngineAssumption == Txn = TxnId /\ {"S", "X"} \subseteq RequestTypes
ASSUME BoundsAssumption == MaxOps \in Nat \ {0} /\ LateTxns \subseteq Txn

VARIABLES
    pending,        \* parked commands, in order of arrival
    data_store,     \* last writer of each record (0: the initial value)
    log,            \* the log records of each transaction
    phase,          \* "idle", "draining" (processPending) or "recovering"
    cursor,         \* processPending's iterator
    made_progress,  \* processPending's flag
    todo,           \* RECOVER's transactions still to be completed
    issued,         \* history: commands issued while the transaction was active
    executed        \* history: commands executed, in order of execution

sessionVars == <<pending, data_store, log>>
loopVars    == <<phase, cursor, made_progress, todo>>
historyVars == <<issued, executed>>
vars == <<lockVars, txnVars, sessionVars, loopVars, historyVars>>

Op      == {"READ", "WRITE"}
LogType == {"BEGIN", "UPDATE", "COMMIT", "ABORT"}

\* n: position among the commands of its transaction, 0 if the transaction
\* had completed before the command was issued.
Command == [op : Op, txn : Txn, res : Resource, n : 0..MaxOps]

EngineTypeOK ==
    /\ LockTypeOK
    /\ TxnTypeOK
    /\ pending \in Seq(Command)
    /\ data_store \in [Resource -> Txn \cup {0}]
    /\ log \in [Txn -> Seq(LogType)]
    /\ phase \in {"idle", "draining", "recovering"}
    /\ cursor \in Nat \ {0}
    /\ made_progress \in BOOLEAN
    /\ todo \in SUBSET Txn
    /\ issued \in [Txn -> 0..MaxOps]
    /\ executed \in [Txn -> Seq(Command)]

-----------------------------------------------------------------------------
(***************************************************************************)
(* Helpers.                                                                *)
(***************************************************************************)

\* Names seen so far: a dotted name exists once its parent link is made.
Exists(r) ==
    \/ resource_parent[r] # NoParent
    \/ \A p \in Resource : <<r, p>> \notin Hierarchy

\* Mutant: a WRITE asks for the lock of a READ.
LockForReadOnly(op) == "S"

LockFor(op) == IF op = "READ" THEN "S" ELSE "X"

hasPendingForTxn(t) == \E i \in DOMAIN pending : pending[i].txn = t

\* writeLog, for the record's own transaction.
writeLog(t, type) == log' = [log EXCEPT ![t] = Append(@, type)]

\* Mutants: pop_front instead of erase(it); the erase forgotten.
RemoveFirst(q, i)   == Tail(q)
RemoveNothing(q, i) == q

RemoveCommand(q, i) == SubSeq(q, 1, i - 1) \o SubSeq(q, i + 1, Len(q))

\* executeCommand once its lock is granted: a WRITE updates the record and
\* appends an UPDATE record, a READ prints the value.
Perform(c) ==
    /\ executed' = [executed EXCEPT ![c.txn] = Append(@, c)]
    /\ IF c.op = "WRITE"
       THEN /\ data_store' = [data_store EXCEPT ![c.res] = c.txn]
            /\ writeLog(c.txn, "UPDATE")
       ELSE UNCHANGED <<data_store, log>>

\* executeCommand: refused for a transaction that is not active, else the
\* lock request decides.
executeCommand(c, done) ==
    \/ /\ ~ isTransactionActive(c.txn)
       /\ done = FALSE
       /\ UNCHANGED <<lockVars, data_store, log, executed>>
    \/ /\ isTransactionActive(c.txn)
       /\ RequestLock(c.txn, c.res, LockFor(c.op), done)
       /\ IF done THEN Perform(c) ELSE UNCHANGED <<data_store, log, executed>>

\* RecoveryManager::analyze, for one transaction's records.
IsCommitted(records) == \E i \in DOMAIN records : records[i] = "COMMIT"

IsIncomplete(records) ==
    \E i \in DOMAIN records :
        /\ records[i] = "BEGIN"
        /\ \A j \in i..Len(records) : records[j] \notin {"COMMIT", "ABORT"}

-----------------------------------------------------------------------------
(***************************************************************************)
(* Commands.                                                               *)
(***************************************************************************)

EngineInit ==
    /\ LockInit
    /\ TxnInit
    /\ pending = << >>
    /\ data_store = [r \in Resource |-> 0]
    /\ log = [t \in Txn |-> << >>]
    /\ phase = "idle"
    /\ cursor = 1
    /\ made_progress = FALSE
    /\ todo = {}
    /\ issued = [t \in Txn |-> 0]
    /\ executed = [t \in Txn |-> << >>]

Begin(t) ==
    /\ phase = "idle"
    /\ beginTransaction(t)
    /\ writeLog(t, "BEGIN")
    /\ UNCHANGED <<lockVars, pending, data_store, loopVars, historyVars>>

\* SHOW of a dotted name not seen before: ensureResource links it to its
\* parent.  (READ and WRITE of such a name call ensureResource when they are
\* executed.  Here a Show makes the name before the command is issued; nothing
\* can tell the two apart, since until then no lock, queue or link mentions it.)
Show(child, parent) ==
    /\ phase = "idle"
    /\ Exists(parent)
    /\ SetResourceParent(child, parent)
    /\ UNCHANGED <<txnVars, sessionVars, loopVars, historyVars>>

\* The bounds on commands: MaxOps while the transaction is active, and after
\* that, for LateTxns, one parked command at a time.
MayIssue(t) == IF isTransactionActive(t)
               THEN issued[t] < MaxOps
               ELSE t \in LateTxns /\ ~ hasPendingForTxn(t)

\* READ and WRITE: parked behind the transaction's parked commands, else
\* tried and parked if not executed.
ReadOrWrite(t, op, r) ==
    /\ phase = "idle"
    /\ txn_state[t] # "NEW"
    /\ Exists(r)
    /\ MayIssue(t)
    /\ issued' = IF isTransactionActive(t)
                 THEN [issued EXCEPT ![t] = @ + 1] ELSE issued
    /\ LET c == [op |-> op, txn |-> t, res |-> r,
                 n |-> IF isTransactionActive(t) THEN issued'[t] ELSE 0]
       IN  \/ /\ hasPendingForTxn(t)
              /\ pending' = Append(pending, c)
              /\ UNCHANGED <<lockVars, data_store, log, executed>>
           \/ /\ ~ hasPendingForTxn(t)
              /\ \E done \in BOOLEAN :
                    /\ executeCommand(c, done)
                    /\ pending' = IF done THEN pending ELSE Append(pending, c)
    /\ UNCHANGED <<txnVars, loopVars>>

\* Mutant: the iterator starts one before the first command.
StartDrainEarly ==
    /\ phase' = "draining"
    /\ cursor' = 0
    /\ made_progress' = FALSE
    /\ UNCHANGED todo

\* COMMIT and ABORT call processPending last.
StartDrain ==
    /\ phase' = "draining"
    /\ cursor' = 1
    /\ made_progress' = FALSE
    /\ UNCHANGED todo

Commit(t) ==
    /\ phase = "idle"
    /\ commitTransaction(t)
    /\ CompleteTransaction(t)
    /\ writeLog(t, "COMMIT")
    /\ StartDrain
    /\ UNCHANGED <<pending, data_store, historyVars>>

\* Mutant: ABORT does not call processPending.
AbortNoDrain(t) ==
    /\ phase = "idle"
    /\ abortTransaction(t)
    /\ CompleteTransaction(t)
    /\ writeLog(t, "ABORT")
    /\ UNCHANGED <<pending, data_store, loopVars, historyVars>>

Abort(t) ==
    /\ phase = "idle"
    /\ abortTransaction(t)
    /\ CompleteTransaction(t)
    /\ writeLog(t, "ABORT")
    /\ StartDrain
    /\ UNCHANGED <<pending, data_store, historyVars>>

-----------------------------------------------------------------------------
(***************************************************************************)
(* processPending: passes over pending until one executes nothing.         *)
(***************************************************************************)

\* Visit the command at the cursor: drop it if its transaction is over, else
\* try it, and drop it if it executes.
DrainCommand ==
    /\ phase = "draining"
    /\ cursor <= Len(pending)
    /\ LET c == pending[cursor] IN
       \/ /\ ~ isTransactionActive(c.txn)
          /\ pending' = RemoveCommand(pending, cursor)
          /\ UNCHANGED <<lockVars, data_store, log, executed, cursor,
                         made_progress>>
       \/ /\ isTransactionActive(c.txn)
          /\ executeCommand(c, TRUE)
          /\ pending' = RemoveCommand(pending, cursor)
          /\ made_progress' = TRUE
          /\ UNCHANGED cursor
       \/ /\ isTransactionActive(c.txn)
          /\ executeCommand(c, FALSE)
          /\ cursor' = cursor + 1
          /\ UNCHANGED <<pending, made_progress>>
    /\ UNCHANGED <<txnVars, phase, todo, issued>>

\* The end of a pass.
DrainPass ==
    /\ phase = "draining"
    /\ cursor > Len(pending)
    /\ cursor' = 1
    /\ made_progress' = FALSE
    /\ phase' = IF made_progress THEN "draining" ELSE "idle"
    /\ UNCHANGED <<lockVars, txnVars, sessionVars, todo, historyVars>>

-----------------------------------------------------------------------------
(***************************************************************************)
(* RECOVER: abort everything in the transaction manager, complete the      *)
(* aborted transactions in the lock manager in order of their ids, forget  *)
(* pending, then let RecoveryManager append an ABORT record for every      *)
(* incomplete transaction in the log.  Its redo only collects records.     *)
(***************************************************************************)

Recover ==
    /\ phase = "idle"
    /\ todo' = active_transactions
    /\ abortAllTransactions
    /\ phase' = "recovering"
    /\ UNCHANGED <<lockVars, sessionVars, cursor, made_progress, historyVars>>

RecoverTxn ==
    /\ phase = "recovering"
    /\ \E t \in todo :
          /\ \A u \in todo : t <= u
          /\ CompleteTransaction(t)
          /\ todo' = todo \ {t}
    /\ UNCHANGED <<txnVars, sessionVars, phase, cursor, made_progress,
                   historyVars>>

\* Mutant: RECOVER without the undo records.
RecoverLogNoUndo ==
    /\ phase = "recovering"
    /\ todo = {}
    /\ pending' = << >>
    /\ phase' = "idle"
    /\ UNCHANGED <<lockVars, txnVars, data_store, log, cursor, made_progress,
                   todo, historyVars>>

RecoverLog ==
    /\ phase = "recovering"
    /\ todo = {}
    /\ pending' = << >>
    /\ log' = [t \in Txn |-> IF IsIncomplete(log[t])
                             THEN Append(log[t], "ABORT") ELSE log[t]]
    /\ phase' = "idle"
    /\ UNCHANGED <<lockVars, txnVars, data_store, cursor, made_progress, todo,
                   historyVars>>

LoopStep == DrainCommand \/ DrainPass \/ RecoverTxn \/ RecoverLog

EngineNext ==
    \/ \E t \in Txn : Begin(t) \/ Commit(t) \/ Abort(t)
    \/ \E t \in Txn, op \in Op, r \in Resource : ReadOrWrite(t, op, r)
    \/ \E child, parent \in Resource : Show(child, parent)
    \/ Recover
    \/ LoopStep

\* A command that has started runs to its end: the thread does nothing else.
\* Nothing obliges the user to issue another command.
EngineSpec == EngineInit /\ [][EngineNext]_vars /\ WF_vars(LoopStep)

-----------------------------------------------------------------------------
(***************************************************************************)
(* What the engine promises, and what its documents say it does.           *)
(***************************************************************************)

Did(t, op, r) == \E i \in DOMAIN executed[t] :
                    executed[t][i].op = op /\ executed[t][i].res = r

\* Isolation: two active transactions never have executed conflicting
\* commands on a record.  Nobody reads or overwrites what an unfinished
\* transaction wrote, or writes what it read, although commands are executed
\* late, out of the pending list, after locks changed hands.
NoDirtyAccess ==
    \A t, u \in active_transactions : \A r \in Resource :
        t # u /\ Did(t, "WRITE", r) => ~ Did(u, "READ", r) /\ ~ Did(u, "WRITE", r)

\* What an active transaction has executed is still under its lock: X on what
\* it wrote, some lock on what it read (another request may have replaced S).
AccessLocked ==
    \A t \in active_transactions : \A r \in Resource :
        /\ Did(t, "WRITE", r) => "X" \in HeldModes(t, r)
        /\ Did(t, "READ", r) => HasLock(t, r)

IsExecuted(t, k) == \E i \in DOMAIN executed[t] : executed[t][i].n = k

IsParked(t, k) == \E i \in DOMAIN pending : pending[i].txn = t /\ pending[i].n = k

Accounted(t) ==
    /\ \A k \in 1..issued[t] : IsExecuted(t, k) <=> ~ IsParked(t, k)
    /\ \A i, j \in DOMAIN executed[t] :
          executed[t][i].n = executed[t][j].n => i = j
    /\ \A i, j \in DOMAIN pending :
          /\ pending[i].txn = t /\ pending[j].txn = t
          /\ pending[i].n = pending[j].n
          => i = j

\* No command is lost or executed twice: each command issued by an active
\* transaction is either executed or parked, and only once, through every
\* removal processPending makes while it iterates.
NothingLost == \A t \in active_transactions : Accounted(t)

\* What a transaction has parked when it ends is never executed afterwards and
\* is gone before the next command; only commands issued later ("n = 0") can
\* be parked for it, and none of those is ever executed.
OverMeansOver ==
    /\ \A t \in Txn : \A i \in DOMAIN executed[t] : executed[t][i].n # 0
    /\ phase = "idle" =>
          \A i \in DOMAIN pending :
              isTransactionActive(pending[i].txn) <=> pending[i].n # 0

\* What RecoveryManager reads in the log is what TransactionManager knows:
\* after every command, a RECOVER included, the committed and incomplete
\* transactions of the analysis are the COMMITTED and ACTIVE ones.
LogAgrees ==
    phase # "recovering" =>
        \A t \in Txn : /\ IsCommitted(log[t]) <=> txn_state[t] = "COMMITTED"
                       /\ IsIncomplete(log[t]) <=> txn_state[t] = "ACTIVE"

\* No command sleeps although its lock is free: between commands, the first
\* parked command of an active transaction is refused by another's lock.
\* (On resources without parents: see HeadBlocked.)
FirstPending(i) ==
    \A j \in 1..(i - 1) : pending[j].txn # pending[i].txn

PendingBlocked ==
    phase = "idle" =>
        \A i \in DOMAIN pending :
            LET c == pending[i] IN
            isTransactionActive(c.txn) /\ FirstPending(i) =>
                ~ CompatibleWithOthers(c.txn, c.res, LockFor(c.op))

\* Every command ends: processPending's passes and RECOVER's loop stop.
CommandsEnd == phase # "idle" ~> phase = "idle"

\* test/test_deadlock.cpp: "Completing txn 1 releases both row and ancestor
\* intention locks."
CompletedHoldNothing ==
    phase = "idle" =>
        \A t \in Txn : txn_state[t] \in {"COMMITTED", "ABORTED"} =>
            \A r \in Resource : ~ HasLock(t, r)

\* COMPLETION_REPORT.md: "FIFO pending command processing".  The commands of
\* a transaction execute in the order in which they were issued.
ProgramOrder ==
    \A t \in Txn : \A i \in DOMAIN executed[t] : executed[t][i].n = i

\* Transaction.h: "Atomicity: All-or-nothing execution".  A transaction that
\* committed has executed all its commands; one that was aborted has left no
\* write behind.
AllOrNothing ==
    \A t \in Txn :
        /\ txn_state[t] = "COMMITTED" => Len(executed[t]) = issued[t]
        /\ txn_state[t] = "ABORTED" => \A r \in Resource : data_store[r] # t

=============================================================================
