------------------------------- MODULE Session -------------------------------
(***************************************************************************)
(* The life of the program on one log file: src/main.cpp started, stopped  *)
(* by EXIT, killed or terminated by an exception, and started again, with  *)
(* src/recovery/RecoveryManager.cpp as RECOVER uses it.                    *)
(*                                                                         *)
(* The transaction manager starts from nothing at every start; the log     *)
(* file stays.  Locks and parked commands live in module Engine: here any  *)
(* active transaction may execute a WRITE at any time.  A record carries   *)
(* the run of the program that wrote it, which the file does not show and  *)
(* only the properties use.                                                *)
(***************************************************************************)
EXTENDS TransactionManager, LogManager, Subsequences

CONSTANTS
    MaxRun,     \* bound: how often the program is started
    MaxLog      \* bound: commands write no record beyond so many in all runs

ASSUME RunAssumption == MaxRun \in Nat \ {0} /\ MaxLog \in Nat

LogType == {"BEGIN", "UPDATE", "COMMIT", "ABORT", "CHECKPOINT"}
Run     == 1..MaxRun

SessionRecord == [run : Run, txn : TxnId \cup {0}, type : LogType]

ASSUME RecordAssumption == Record = SessionRecord

VARIABLES
    phase,          \* "down", "idle", or "recovering": before undo's flush
    run,            \* how often the program has been started
    redo_records,   \* RECOVER's redo list
    incomplete_txns,\* RECOVER's incomplete transactions
    written,        \* history: the records each run has written
    flushed         \* history: how many of them were written before its last flush

recoveryVars == <<redo_records, incomplete_txns>>
vars == <<txnVars, logVars, phase, run, recoveryVars, written, flushed>>

SessionTypeOK ==
    /\ TxnTypeOK
    /\ LogFileTypeOK
    /\ phase \in {"down", "idle", "recovering"}
    /\ run \in 0..MaxRun
    /\ phase # "down" => run \in Run
    /\ redo_records \in Seq(Record)
    /\ incomplete_txns \in SUBSET TxnId
    /\ written \in [Run -> Seq(Record)]
    /\ flushed \in [Run -> Nat]

-----------------------------------------------------------------------------
(***************************************************************************)
(* RecoveryManager on a list of records.                                   *)
(***************************************************************************)

Committed(logs) ==
    {t \in TxnId : \E i \in DOMAIN logs : logs[i].txn = t /\ logs[i].type = "COMMIT"}

\* Mutant: analyze inserts the transaction of any record but COMMIT and ABORT.
IncompleteAny(logs) ==
    {logs[i].txn : i \in {k \in DOMAIN logs :
        \A j \in k..Len(logs) :
            logs[j].txn = logs[k].txn => logs[j].type \notin {"COMMIT", "ABORT"}}}

Incomplete(logs) ==
    {t \in TxnId : \E i \in DOMAIN logs :
        /\ logs[i].txn = t /\ logs[i].type = "BEGIN"
        /\ \A j \in i..Len(logs) :
              logs[j].txn = t => logs[j].type \notin {"COMMIT", "ABORT"}}

\* Mutant: redo leaves out the transactions that are also incomplete.
RedoUnlessIncomplete(logs) ==
    Picked(logs, {i \in DOMAIN logs :
        logs[i].type = "UPDATE" /\ logs[i].txn \in Committed(logs) \ Incomplete(logs)})

\* redo: it collects, and applies nothing.
Redo(logs) ==
    Picked(logs, {i \in DOMAIN logs :
        logs[i].type = "UPDATE" /\ logs[i].txn \in Committed(logs)})

\* undo: an ABORT record for every incomplete transaction, in order.
UndoRecords(ids) ==
    [i \in 1..Cardinality(ids) |->
        [run |-> run, txn |-> Ascending(ids)[i], type |-> "ABORT"]]

-----------------------------------------------------------------------------
(***************************************************************************)
(* Commands.                                                               *)
(***************************************************************************)

SessionInit ==
    /\ TxnInit
    /\ LogInit
    /\ phase = "down"
    /\ run = 0
    /\ redo_records = << >>
    /\ incomplete_txns = {}
    /\ written = [r \in Run |-> << >>]
    /\ flushed = [r \in Run |-> 0]

Start ==
    /\ phase = "down"
    /\ run < MaxRun
    /\ run' = run + 1
    /\ phase' = "idle"
    /\ UNCHANGED <<txnVars, logVars, recoveryVars, written, flushed>>

\* The objects of main() are gone, however it ended.
Gone ==
    /\ phase' = "down"
    /\ next_transaction_id' = 1
    /\ active_transactions' = {}
    /\ completed_history' = {}
    /\ txn_state' = [t \in TxnId |-> "NEW"]
    /\ committed_count' = 0
    /\ aborted_count' = 0
    /\ redo_records' = << >>
    /\ incomplete_txns' = {}
    /\ UNCHANGED run

Logged == Cardinality(UNION {{r} \X DOMAIN written[r] : r \in Run})

MayLog == phase = "idle" /\ Logged < MaxLog

Rec(t, type) == <<[run |-> run, txn |-> t, type |-> type]>>

\* A command that writes rs to the stream.
Log(rs) ==
    /\ appendLog(rs)
    /\ written' = [written EXCEPT ![run] = @ \o rs]
    /\ UNCHANGED <<phase, run, recoveryVars, flushed>>

\* A step that writes rs and flushes.
LogAndFlush(rs) ==
    /\ writeAndFlush(rs)
    /\ written' = [written EXCEPT ![run] = @ \o rs]
    /\ flushed' = [flushed EXCEPT ![run] = Len(written[run] \o rs)]

Begin(t) == MayLog /\ beginTransaction(t) /\ Log(Rec(t, "BEGIN"))

Write(t) ==
    /\ MayLog
    /\ isTransactionActive(t)
    /\ Log(Rec(t, "UPDATE"))
    /\ UNCHANGED txnVars

Commit(t) == MayLog /\ commitTransaction(t) /\ Log(Rec(t, "COMMIT"))

Abort(t) == MayLog /\ abortTransaction(t) /\ Log(Rec(t, "ABORT"))

Checkpoint ==
    /\ MayLog
    /\ LogAndFlush(Rec(0, "CHECKPOINT"))
    /\ UNCHANGED <<txnVars, phase, run, recoveryVars>>

\* EXIT, and the end of the input: flush and return from main.
Exit ==
    /\ phase = "idle"
    /\ LogAndFlush(<< >>)
    /\ Gone

\* RECOVER up to undo's last write: abort everything, flush, analyze, redo.
Recover ==
    /\ phase = "idle"
    /\ CanRead(Lines(unflushed), LastLine(unflushed))
    /\ abortAllTransactions
    /\ LET logs == readLogs(Lines(unflushed), LastLine(unflushed)) IN
       /\ redo_records' = Redo(logs)
       /\ incomplete_txns' = Incomplete(logs)
       /\ unflushed' = UndoRecords(Incomplete(logs))
       /\ written' = [written EXCEPT ![run] = @ \o unflushed']
    /\ log_file' = Lines(unflushed)
    /\ last_line' = LastLine(unflushed)
    /\ flushed' = [flushed EXCEPT ![run] = Len(written[run])]
    /\ phase' = "recovering"
    /\ UNCHANGED run

\* Mutant: undo forgets its flush.
UndoUnflushed ==
    /\ phase = "recovering"
    /\ phase' = "idle"
    /\ redo_records' = << >>
    /\ incomplete_txns' = {}
    /\ UNCHANGED <<txnVars, logVars, run, written, flushed>>

\* undo's flush (there is nothing to flush if nothing was incomplete); the
\* RecoveryManager goes out of scope.
UndoFlush ==
    /\ phase = "recovering"
    /\ LogAndFlush(<< >>)
    /\ phase' = "idle"
    /\ redo_records' = << >>
    /\ incomplete_txns' = {}
    /\ UNCHANGED <<txnVars, run>>

\* RECOVER meets an unreadable line: nobody catches the exception.
RecoverDies ==
    /\ phase = "idle"
    /\ ~ CanRead(Lines(unflushed), LastLine(unflushed))
    /\ LogAndFlush(<< >>)
    /\ Gone

\* The program is killed, at any moment.
Kill ==
    /\ phase # "down"
    /\ Die
    /\ Gone
    /\ UNCHANGED <<written, flushed>>

SessionNext ==
    \/ Start \/ Checkpoint \/ Exit \/ Recover \/ UndoFlush \/ RecoverDies \/ Kill
    \/ \E t \in TxnId : Begin(t) \/ Write(t) \/ Commit(t) \/ Abort(t)

SessionSpec == SessionInit /\ [][SessionNext]_vars

-----------------------------------------------------------------------------

ReadNow == readLogs(log_file, last_line)

ReadNowFails == ~ CanRead(log_file, last_line)

\* The records of run r among logs, and the updates of its transaction t.
OfRun(logs, r) == Picked(logs, {i \in DOMAIN logs : logs[i].run = r})

Updates(logs, r, t) ==
    Picked(logs, {i \in DOMAIN logs :
        logs[i].run = r /\ logs[i].txn = t /\ logs[i].type = "UPDATE"})

\* What readLogs returns is, run by run in the order of the runs, an unbroken
\* stretch of what that run wrote: nothing invented, repeated or reordered,
\* whatever lines were cut and continued.  It begins with the run's first
\* record, or its second if an earlier run may have left a cut line, and
\* reaches at least to the run's last flush.
LogIsStretches ==
    CanRead(log_file, last_line) =>
        /\ \A i, j \in DOMAIN ReadNow : i < j => ReadNow[i].run <= ReadNow[j].run
        /\ \A r \in Run : \E first \in {1, 2}, last \in 0..Len(written[r]) :
              /\ r = 1 => first = 1
              /\ flushed[r] <= last
              /\ OfRun(ReadNow, r) = SubSeq(written[r], first, last)

CommittedIn(r, t, n) ==
    \E i \in 1..n : written[r][i].txn = t /\ written[r][i].type = "COMMIT"

\* Durability: once a flush has followed a transaction's COMMIT, every later
\* RECOVER that can read the file redoes each of its updates once, in order;
\* and in the program's first run it redoes nothing else.  This is what redo
\* does and test/test_recovery.cpp:40-43 asserts; include/utils/enums.h:55 says
\* that REDO replays uncommitted transactions as well.
RedoFindsCommitted ==
    phase = "recovering" =>
        /\ \A r \in Run, t \in TxnId :
              CommittedIn(r, t, flushed[r]) =>
                  Updates(redo_records, r, t) = Updates(written[r], r, t)
        /\ run = 1 =>
              \A i \in DOMAIN redo_records :
                  CommittedIn(1, redo_records[i].txn, Len(written[1]))

\* RECOVER closes the log: a RECOVER directly after it would undo nothing.
\* Only if its first ABORT is the first record of the run can a line that an
\* earlier run left cut cost one transaction its end: that ABORT is swallowed,
\* or it overwrites a COMMIT or ABORT that had lost its newline.
RecoveryCloses ==
    [][phase = "recovering" /\ phase' = "idle" =>
          \/ Incomplete(ReadNow') = {}
          \/ /\ Cardinality(Incomplete(ReadNow')) = 1
             /\ \E t \in incomplete_txns :
                   written[run][1] = [run |-> run, txn |-> t, type |-> "ABORT"]
      ]_vars

\* Only a death with records in the stream's buffer can make the log one that
\* RECOVER dies of, whatever is written behind the line it left; and nothing
\* the program writes afterwards, in this run or a later one, mends that.
UnreadableByDeath ==
    [][/\ ReadNowFails' /\ ~ ReadNowFails =>
             phase # "down" /\ phase' = "down" /\ unflushed # << >>
       /\ ReadNowFails => ReadNowFails']_vars

\* test/test_recovery.cpp: "Txn 1: committed and should be replayed during
\* redo", "Txn 2: incomplete and should be aborted during undo".  Redo takes
\* records of committed transactions only.
RedoOnlyCommitted ==
    phase = "recovering" =>
        \A i \in DOMAIN redo_records :
            LET r == redo_records[i]
            IN  CommittedIn(r.run, r.txn, Len(written[r.run]))

=============================================================================
