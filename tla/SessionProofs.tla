---------------------------- MODULE SessionProofs ----------------------------
(***************************************************************************)
(* Proofs about LogManager and about Session: what every run of the        *)
(* program leaves in the log file, and what RECOVER makes of it, however   *)
(* many runs there were and wherever they were killed.                     *)
(***************************************************************************)
EXTENDS Session, TransactionManagerProofs, SequenceLemmas

-----------------------------------------------------------------------------
(***************************************************************************)
(* LogManager: the file and the stream keep their types through every      *)
(* crash in the middle of a line, and complete lines stay.                 *)
(***************************************************************************)

\* A whole record behind anything makes at most one line.
LEMMA JoinedType ==
    ASSUME NEW last \in Record \cup Cut \cup {NoLine}, NEW r \in Record
    PROVE  Joined(last, r) \in Seq(Line)
<1>1. r \in Line /\ Unreadable \in Line
  BY DEF Line
<1>2. << >> \in Seq(Line) /\ <<r>> \in Seq(Line) /\ <<Unreadable>> \in Seq(Line)
  BY <1>1
<1> QED BY <1>2 DEF Joined

\* The lines that records add behind the file.
Added(rs) == IF rs = << >> THEN << >>
             ELSE Joined(last_line, Head(rs)) \o Tail(rs)

\* Writing records adds lines and changes none.
LEMMA LinesAdd ==
    ASSUME LogFileTypeOK, NEW rs \in Seq(Record)
    PROVE  /\ Added(rs) \in Seq(Line)
           /\ Lines(rs) = log_file \o Added(rs)
           /\ Lines(rs) \in Seq(Line)
<1>1. CASE rs = << >>
  BY <1>1 DEF LogFileTypeOK, Lines, Added
<1>2. CASE rs # << >>
  <2>1. Head(rs) \in Record /\ Tail(rs) \in Seq(Record)
    BY <1>2
  <2>2. Tail(rs) \in Seq(Line)
    BY <2>1 DEF Line
  <2>3. Joined(last_line, Head(rs)) \in Seq(Line)
    BY <2>1, JoinedType DEF LogFileTypeOK
  <2>4. /\ Lines(rs) = log_file \o Joined(last_line, Head(rs)) \o Tail(rs)
        /\ Added(rs) = Joined(last_line, Head(rs)) \o Tail(rs)
    BY <1>2 DEF Lines, Added
  <2>5. log_file \in Seq(Line)
    BY DEF LogFileTypeOK
  <2>6. Lines(rs) = log_file \o Added(rs)
    <3>1. \A j, t \in Seq(Line) : (log_file \o j) \o t = log_file \o (j \o t)
      BY <2>5, ConcatAssociative
    <3> QED BY <2>2, <2>3, <2>4, <3>1, Zenon
  <2>7. Added(rs) \in Seq(Line)
    BY <2>2, <2>3, <2>4, ConcatProperties
  <2> QED BY <2>5, <2>6, <2>7, ConcatProperties
<1> QED BY <1>1, <1>2

\* What a crash leaves behind the last newline is a record or a cut line.
LEMMA TornType ==
    ASSUME NEW last, NEW r \in Record
    PROVE  Torn(last, r) \subseteq Record \cup Cut
BY DEF Torn, Cut

\* The last line after the records rs.
LEMMA LastType ==
    ASSUME LogFileTypeOK, NEW rs
    PROVE  LastLine(rs) \in Record \cup Cut \cup {NoLine}
BY DEF LogFileTypeOK, LastLine

\* A crash: some records reached the file, the next one perhaps in part.
LEMMA DieFacts ==
    ASSUME LogFileTypeOK, Die
    PROVE  /\ LogFileTypeOK'
           /\ \E lines \in Seq(Line) : log_file' = log_file \o lines
<1>1. PICK n \in 0..Len(unflushed) :
         /\ log_file' = Lines(SubSeq(unflushed, 1, n))
         /\ \/ last_line' = LastLine(SubSeq(unflushed, 1, n))
            \/ /\ n < Len(unflushed)
               /\ last_line' \in Torn(LastLine(SubSeq(unflushed, 1, n)),
                                      unflushed[n + 1])
  BY DEF Die
<1> DEFINE done == SubSeq(unflushed, 1, n)
<1>2. done \in Seq(Record)
  BY SubSeqProperties DEF LogFileTypeOK
<1>3. log_file' = log_file \o Added(done) /\ Added(done) \in Seq(Line)
      /\ log_file' \in Seq(Line)
  BY <1>1, <1>2, LinesAdd
<1>4. last_line' \in Record \cup Cut \cup {NoLine}
  <2>1. CASE last_line' = LastLine(done)
    BY <2>1, LastType
  <2>2. CASE n < Len(unflushed) /\ last_line' \in Torn(LastLine(done), unflushed[n + 1])
    <3>1. unflushed[n + 1] \in Record
      BY <2>2 DEF LogFileTypeOK
    <3> QED BY <2>2, <3>1, TornType
  <2> QED BY <1>1, <2>1, <2>2
<1>5. unflushed' = << >>
  BY DEF Die
<1> QED BY <1>3, <1>4, <1>5 DEF LogFileTypeOK

\* A step keeps the types and, unless it clears the log, adds lines at most.
LEMMA LogStep ==
    ASSUME LogFileTypeOK, LogNext
    PROVE  /\ LogFileTypeOK'
           /\ clearLogs \/ \E lines \in Seq(Line) : log_file' = log_file \o lines
<1>1. ASSUME NEW r \in Record, appendLog(<<r>>)
      PROVE  /\ LogFileTypeOK'
             /\ \E lines \in Seq(Line) : log_file' = log_file \o lines
  <2>1. log_file' = log_file \o << >> /\ << >> \in Seq(Line)
    BY <1>1 DEF appendLog, LogFileTypeOK
  <2>2. LogFileTypeOK'
    BY <1>1 DEF appendLog, LogFileTypeOK
  <2> QED BY <2>1, <2>2
<1>2. ASSUME writeAndFlush(<< >>)
      PROVE  /\ LogFileTypeOK'
             /\ \E lines \in Seq(Line) : log_file' = log_file \o lines
  <2>1. unflushed \o << >> = unflushed /\ unflushed \in Seq(Record)
    BY DEF LogFileTypeOK
  <2>2. /\ log_file' = Lines(unflushed) /\ last_line' = LastLine(unflushed)
        /\ unflushed' = << >>
    BY <1>2, <2>1 DEF writeAndFlush
  <2> QED BY <2>1, <2>2, LinesAdd, LastType DEF LogFileTypeOK
<1>3. ASSUME clearLogs PROVE LogFileTypeOK'
  BY <1>3 DEF clearLogs, LogFileTypeOK
<1> QED BY <1>1, <1>2, <1>3, DieFacts DEF LogNext

-----------------------------------------------------------------------------

\* Whatever the program writes, flushes or clears, and wherever it dies, the
\* file is complete lines and one of the last lines fromString can tell apart
\* (LogManager.cpp, LogRecord.cpp: the four things a cut line can be are closed
\* under being cut and continued again).
THEOREM LogFileCorrect == LogSpec => []LogFileTypeOK
<1>1. LogInit => LogFileTypeOK
  BY DEF LogInit, LogFileTypeOK
<1>2. LogFileTypeOK /\ [LogNext]_logVars => LogFileTypeOK'
  <2>1. LogFileTypeOK /\ UNCHANGED logVars => LogFileTypeOK'
    BY DEF logVars, LogFileTypeOK
  <2> QED BY <2>1, LogStep
<1> QED BY <1>1, <1>2, PTL DEF LogSpec

\* A complete line is never lost or changed but by clearLogs: no crash, and no
\* later run that continues a cut line, reaches behind the last newline.
LinesKept ==
    [][clearLogs \/ \E lines \in Seq(Line) : log_file' = log_file \o lines]_logVars

THEOREM CompleteLinesStay == LogSpec => LinesKept
<1>1. LogFileTypeOK /\ LogNext =>
         clearLogs \/ \E lines \in Seq(Line) : log_file' = log_file \o lines
  BY LogStep
<1> QED BY <1>1, LogFileCorrect, PTL DEF LogSpec, LinesKept

-----------------------------------------------------------------------------
(***************************************************************************)
(* Type correctness of Session.                                            *)
(***************************************************************************)

\* A file that readLogs can read has records only, and so has its result.
LEMMA ReadType ==
    ASSUME NEW file \in Seq(Line), NEW last, CanRead(file, last)
    PROVE  /\ file \in Seq(Record)
           /\ readLogs(file, last) \in Seq(Record)
<1>1. \A i \in 1..Len(file) : file[i] \in Record
    BY DEF CanRead, Line
<1>2. file \in Seq(Record)
    BY <1>1
<1> QED BY <1>2 DEF readLogs

\* The record of a command.
LEMMA RecType ==
    ASSUME run \in Run, NEW t \in TxnId \cup {0}, NEW type \in LogType
    PROVE  Rec(t, type) \in Seq(Record)
<1>1. [run |-> run, txn |-> t, type |-> type] \in SessionRecord
    BY DEF SessionRecord
<1> QED BY <1>1, RecordAssumption DEF Rec

\* The ids of a set of transactions are integers, and finitely many.
LEMMA IdsInt ==
    ASSUME NEW ids \in SUBSET TxnId
    PROVE  /\ ids \in SUBSET Int
           /\ IsFiniteSet(ids)
<1>1. IsFiniteSet(TxnId)
    BY MaxTxnAssumption, FS_Interval DEF TxnId
<1>2. IsFiniteSet(ids)
    BY <1>1, FS_Subset
<1>3. TxnId \in SUBSET Int
    BY MaxTxnAssumption DEF TxnId
<1> QED BY <1>2, <1>3

\* The records of undo: one for each incomplete transaction.
LEMMA UndoType ==
    ASSUME run \in Run, NEW ids \in SUBSET TxnId
    PROVE  /\ UndoRecords(ids) \in Seq(Record)
           /\ Len(UndoRecords(ids)) = Cardinality(ids)
           /\ \A i \in 1..Cardinality(ids) :
                 UndoRecords(ids)[i]
                    = [run |-> run, txn |-> Ascending(ids)[i], type |-> "ABORT"]
<1>1. /\ Cardinality(ids) \in Nat
      /\ Ascending(ids) \in [1..Cardinality(ids) -> ids]
    BY IdsInt, AscendingFacts
<1>2. \A i \in 1..Cardinality(ids) :
         [run |-> run, txn |-> Ascending(ids)[i], type |-> "ABORT"] \in Record
    BY <1>1, RecordAssumption DEF SessionRecord, LogType
<1> QED BY <1>1, <1>2 DEF UndoRecords

\* Writing to the stream, and writing and flushing.
LEMMA AppendType ==
    ASSUME LogFileTypeOK, NEW rs \in Seq(Record)
    PROVE  /\ unflushed \o rs \in Seq(Record)
           /\ appendLog(rs) => LogFileTypeOK'
           /\ writeAndFlush(rs) => LogFileTypeOK'
<1>1. unflushed \o rs \in Seq(Record)
    BY DEF LogFileTypeOK
<1>2. appendLog(rs) => LogFileTypeOK'
    BY <1>1 DEF appendLog, LogFileTypeOK
<1>3. /\ Lines(unflushed \o rs) \in Seq(Line)
      /\ LastLine(unflushed \o rs) \in Record \cup Cut \cup {NoLine}
    BY <1>1, LinesAdd, LastType
<1>4. writeAndFlush(rs) => LogFileTypeOK'
    BY <1>3 DEF writeAndFlush, LogFileTypeOK
<1> QED BY <1>1, <1>2, <1>4

\* Adding records to the history of the current run.
LEMMA WrittenType ==
    ASSUME SessionTypeOK, run \in Run, NEW rs \in Seq(Record)
    PROVE  /\ written[run] \o rs \in Seq(Record)
           /\ [written EXCEPT ![run] = @ \o rs] \in [Run -> Seq(Record)]
<1>1. written[run] \in Seq(Record)
    BY DEF SessionTypeOK
<1>2. written[run] \o rs \in Seq(Record)
    BY <1>1
<1> QED BY <1>2 DEF SessionTypeOK

\* A command that writes records to the stream, or writes and flushes.
LEMMA CommandType ==
    ASSUME SessionTypeOK, run \in Run, NEW rs \in Seq(Record), TxnTypeOK'
    PROVE  /\ Log(rs) => SessionTypeOK'
           /\ LogAndFlush(rs) => /\ LogFileTypeOK'
                                 /\ written' \in [Run -> Seq(Record)]
                                 /\ flushed' \in [Run -> Nat]
<1>1. /\ written[run] \o rs \in Seq(Record)
      /\ [written EXCEPT ![run] = @ \o rs] \in [Run -> Seq(Record)]
    BY WrittenType
<1>2. LogFileTypeOK
    BY DEF SessionTypeOK
<1>3. Log(rs) => SessionTypeOK'
    BY <1>1, <1>2, AppendType DEF Log, SessionTypeOK, recoveryVars
<1>4. Len(written[run] \o rs) \in Nat
    BY <1>1
<1>5. LogAndFlush(rs) => /\ LogFileTypeOK'
                         /\ written' \in [Run -> Seq(Record)]
                         /\ flushed' \in [Run -> Nat]
    BY <1>1, <1>2, <1>4, AppendType DEF LogAndFlush, SessionTypeOK
<1> QED BY <1>3, <1>5

\* The program's objects after it has ended.
LEMMA GoneType ==
    ASSUME SessionTypeOK, Gone
    PROVE  /\ TxnTypeOK'
           /\ phase' = "down" /\ run' \in 0..MaxRun
           /\ redo_records' \in Seq(Record)
           /\ incomplete_txns' \in SUBSET TxnId
<1>1. 1 \in 1..(MaxTxn + 1)
    BY MaxTxnAssumption
<1>2. TxnTypeOK'
    BY <1>1 DEF Gone, TxnTypeOK, TxnState
<1> QED BY <1>2 DEF Gone, SessionTypeOK

\* Flushing without writing.
LEMMA FlushOnly ==
    ASSUME SessionTypeOK, run \in Run
    PROVE  /\ << >> \in Seq(Record)
           /\ unflushed \o << >> = unflushed
           /\ written[run] \o << >> = written[run]
           /\ [written EXCEPT ![run] = @ \o << >>] = written
           /\ Len(written[run]) \in Nat
<1>1. written[run] \in Seq(Record) /\ unflushed \in Seq(Record)
    BY DEF SessionTypeOK, LogFileTypeOK
<1>2. written[run] \o << >> = written[run] /\ unflushed \o << >> = unflushed
    BY <1>1
<1> QED BY <1>1, <1>2 DEF SessionTypeOK

\* What RECOVER reads and selects.
LEMMA RecoverReads ==
    ASSUME SessionTypeOK, NEW logs \in Seq(Record)
    PROVE  /\ Redo(logs) \in Seq(Record)
           /\ Incomplete(logs) \in SUBSET TxnId
<1>1. PICK I \in SUBSET (DOMAIN logs) :
         I = {i \in DOMAIN logs :
                logs[i].type = "UPDATE" /\ logs[i].txn \in Committed(logs)}
    OBVIOUS
<1>2. Redo(logs) = Picked(logs, I)
    BY <1>1 DEF Redo
<1> QED BY <1>2, PickedFacts DEF Incomplete

\* Every step of a session keeps its types.
LEMMA SessionStepType ==
    ASSUME SessionTypeOK, SessionNext
    PROVE  SessionTypeOK'
<1>1. CASE Start
    <2>1. run + 1 \in Run /\ run + 1 \in 0..MaxRun
        BY <1>1, RunAssumption DEF Start, SessionTypeOK, Run
    <2>2. TxnTypeOK' /\ LogFileTypeOK'
        BY <1>1 DEF Start, SessionTypeOK, txnVars, logVars, TxnTypeOK, LogFileTypeOK
    <2>3. QED
        BY <1>1, <2>1, <2>2 DEF Start, SessionTypeOK, recoveryVars
<1>2. CASE Checkpoint
    <2>1. run \in Run /\ 0 \in TxnId \cup {0} /\ "CHECKPOINT" \in LogType
        BY <1>2 DEF Checkpoint, MayLog, SessionTypeOK, LogType
    <2>2. TxnTypeOK'
        BY <1>2 DEF Checkpoint, txnVars, TxnTypeOK, SessionTypeOK
    <2>3. LogAndFlush(Rec(0, "CHECKPOINT"))
        BY <1>2 DEF Checkpoint
    <2>4. /\ LogFileTypeOK'
          /\ written' \in [Run -> Seq(Record)]
          /\ flushed' \in [Run -> Nat]
        BY <2>1, <2>2, <2>3, RecType, CommandType
    <2>5. QED
        BY <1>2, <2>2, <2>4 DEF Checkpoint, SessionTypeOK, recoveryVars
<1>3. ASSUME Exit \/ RecoverDies PROVE SessionTypeOK'
    <2>1. run \in Run /\ << >> \in Seq(Record) /\ LogAndFlush(<< >>) /\ Gone
        BY <1>3 DEF Exit, RecoverDies, SessionTypeOK
    <2>2. /\ TxnTypeOK'
          /\ phase' = "down" /\ run' \in 0..MaxRun
          /\ redo_records' \in Seq(Record)
          /\ incomplete_txns' \in SUBSET TxnId
        BY <2>1, GoneType
    <2>3. /\ LogFileTypeOK'
          /\ written' \in [Run -> Seq(Record)]
          /\ flushed' \in [Run -> Nat]
        BY <2>1, <2>2, CommandType
    <2>4. QED BY <2>2, <2>3 DEF SessionTypeOK
<1>4. CASE Recover
    <2>1. TxnTypeOK'
        BY <1>4, TxnStepType DEF Recover, SessionTypeOK
    <2>2. /\ run \in Run
          /\ LogFileTypeOK /\ unflushed \in Seq(Record)
          /\ CanRead(Lines(unflushed), LastLine(unflushed))
        BY <1>4 DEF Recover, SessionTypeOK, LogFileTypeOK
    <2>3. /\ Lines(unflushed) \in Seq(Line)
          /\ LastLine(unflushed) \in Record \cup Cut \cup {NoLine}
        BY <2>2, LinesAdd, LastType
    <2>4. PICK logs \in Seq(Record) :
             logs = readLogs(Lines(unflushed), LastLine(unflushed))
        BY <2>2, <2>3, ReadType
    <2>5. /\ redo_records' = Redo(logs)
          /\ incomplete_txns' = Incomplete(logs)
          /\ unflushed' = UndoRecords(Incomplete(logs))
          /\ written' = [written EXCEPT ![run] = @ \o unflushed']
          /\ log_file' = Lines(unflushed)
          /\ last_line' = LastLine(unflushed)
          /\ flushed' = [flushed EXCEPT ![run] = Len(written[run])]
          /\ phase' = "recovering" /\ run' = run
        BY <1>4, <2>4 DEF Recover
    <2>6. redo_records' \in Seq(Record) /\ incomplete_txns' \in SUBSET TxnId
        BY <2>5, RecoverReads
    <2>7. unflushed' \in Seq(Record)
        BY <2>2, <2>5, <2>6, UndoType
    <2>8. written' \in [Run -> Seq(Record)]
        BY <2>2, <2>5, <2>7, WrittenType
    <2>9. flushed' \in [Run -> Nat]
        BY <2>2, <2>5, FlushOnly DEF SessionTypeOK
    <2>10. LogFileTypeOK'
        BY <2>3, <2>5, <2>7 DEF LogFileTypeOK
    <2>11. QED
        BY <2>1, <2>2, <2>5, <2>6, <2>8, <2>9, <2>10 DEF SessionTypeOK
<1>5. CASE UndoFlush
    <2>1. run \in Run /\ << >> \in Seq(Record) /\ LogAndFlush(<< >>)
        BY <1>5 DEF UndoFlush, SessionTypeOK
    <2>2. TxnTypeOK'
        BY <1>5 DEF UndoFlush, txnVars, TxnTypeOK, SessionTypeOK
    <2>3. /\ LogFileTypeOK'
          /\ written' \in [Run -> Seq(Record)]
          /\ flushed' \in [Run -> Nat]
        BY <2>1, <2>2, CommandType
    <2>4. QED
        BY <1>5, <2>1, <2>2, <2>3 DEF UndoFlush, SessionTypeOK
<1>6. CASE Kill
    <2>1. LogFileTypeOK'
        BY <1>6, DieFacts DEF Kill, SessionTypeOK
    <2>2. QED
        BY <1>6, <2>1, GoneType DEF Kill, SessionTypeOK
<1>7. ASSUME NEW t \in TxnId, Begin(t) \/ Write(t) \/ Commit(t) \/ Abort(t)
      PROVE  SessionTypeOK'
    <2>1. run \in Run
        BY <1>7 DEF Begin, Write, Commit, Abort, MayLog, SessionTypeOK
    <2>2. TxnTypeOK'
        BY <1>7, TxnStepType DEF Begin, Write, Commit, Abort, SessionTypeOK
    <2>3. PICK type \in LogType : Log(Rec(t, type))
        BY <1>7 DEF Begin, Write, Commit, Abort, LogType
    <2>4. QED BY <2>1, <2>2, <2>3, RecType, CommandType
<1>8. QED
    BY <1>1, <1>2, <1>3, <1>4, <1>5, <1>6, <1>7 DEF SessionNext

\* At the first start.
LEMMA SessionTypeInit == SessionInit => SessionTypeOK
<1>1. ASSUME SessionInit PROVE TxnTypeOK
    BY <1>1, MaxTxnAssumption
    DEF SessionInit, TxnInit, TxnTypeOK, TxnState
<1>2. ASSUME SessionInit PROVE LogFileTypeOK
    BY <1>2 DEF SessionInit, LogInit, LogFileTypeOK
<1> QED
    BY <1>1, <1>2, RunAssumption DEF SessionInit, SessionTypeOK

\* Whatever is executed, logged and recovered, and wherever the program dies,
\* the log, the recovery manager's lists and the transaction manager keep their
\* types: no conversion of a cut line, and no start on an old file, gives the
\* program a record it could not have written.
THEOREM SessionTypeCorrect == SessionSpec => []SessionTypeOK
<1>1. SessionInit => SessionTypeOK
    BY SessionTypeInit
<1>2. SessionTypeOK /\ UNCHANGED vars => SessionTypeOK'
    BY DEF vars, txnVars, logVars, recoveryVars, SessionTypeOK, TxnTypeOK,
           LogFileTypeOK
<1>3. QED
    BY <1>1, <1>2, SessionStepType, PTL DEF SessionSpec

-----------------------------------------------------------------------------
(***************************************************************************)
(* The records of one run among those of the file.                         *)
(***************************************************************************)

RunAt(logs, r) == {i \in DOMAIN logs : logs[i].run = r}

\* The records of a run behind one another.
LEMMA OfRunAdd ==
    ASSUME NEW s \in Seq(Record), NEW d \in Seq(Record), NEW r
    PROVE  /\ OfRun(s, r) \in Seq(Record)
           /\ OfRun(s \o d, r) = OfRun(s, r) \o OfRun(d, r)
<1>1. PICK I \in SUBSET (DOMAIN s) : I = RunAt(s, r)
    BY DEF RunAt
<1>2. PICK J \in SUBSET (DOMAIN d) : J = RunAt(d, r)
    BY DEF RunAt
<1>3. PICK K : K = RunAt(s \o d, r)
    OBVIOUS
<1>4. /\ DOMAIN s = 1..Len(s) /\ Len(s) \in Nat
      /\ DOMAIN d = 1..Len(d) /\ Len(d) \in Nat
      /\ DOMAIN (s \o d) = 1..(Len(s) + Len(d))
      /\ \A i \in 1..Len(s) : (s \o d)[i] = s[i]
      /\ \A i \in 1..Len(d) : (s \o d)[Len(s) + i] = d[i]
    OBVIOUS
<1>5. Joins(s, I, d, J, K)
    <2>1. K \in SUBSET Int
        BY <1>3, <1>4 DEF RunAt
    <2>2. ASSUME NEW i \in K PROVE i \in I \/ i - Len(s) \in J
        <3>1. i \in 1..(Len(s) + Len(d)) /\ (s \o d)[i].run = r
            BY <1>3, <1>4 DEF RunAt
        <3>2. CASE i <= Len(s)
            BY <1>1, <1>4, <3>1, <3>2 DEF RunAt
        <3>3. CASE i > Len(s)
            <4>1. i - Len(s) \in 1..Len(d) /\ i = Len(s) + (i - Len(s))
                BY <1>4, <3>1, <3>3
            <4>2. d[i - Len(s)].run = r
                BY <1>4, <3>1, <4>1
            <4> QED BY <1>2, <1>4, <4>1, <4>2 DEF RunAt
        <3> QED BY <1>4, <3>1, <3>2, <3>3
    <2>3. \A i \in I : i \in K
        BY <1>1, <1>3, <1>4 DEF RunAt
    <2>4. \A j \in J : Len(s) + j \in K
        BY <1>2, <1>3, <1>4 DEF RunAt
    <2> QED BY <2>1, <2>2, <2>3, <2>4 DEF Joins
<1>6. /\ OfRun(s, r) = Picked(s, I)
      /\ OfRun(d, r) = Picked(d, J)
      /\ OfRun(s \o d, r) = Picked(s \o d, K)
    BY <1>1, <1>2, <1>3 DEF OfRun, RunAt
<1>7. Picked(s \o d, K) = Picked(s, I) \o Picked(d, J)
    BY <1>5, PickedConcat
<1> QED BY <1>6, <1>7, PickedFacts

AllOf(logs, r) == \A i \in DOMAIN logs : logs[i].run = r

\* Records that are all of one run, seen by this run and by another.
LEMMA OfRunAll ==
    ASSUME NEW d \in Seq(Record), NEW r, AllOf(d, r)
    PROVE  /\ OfRun(d, r) = d
           /\ \A q : q # r => OfRun(d, q) = << >>
<1>1. RunAt(d, r) = DOMAIN d
    BY DEF RunAt, AllOf
<1>2. OfRun(d, r) = Picked(d, DOMAIN d)
    BY <1>1 DEF OfRun, RunAt
<1>3. ASSUME NEW q, q # r PROVE OfRun(d, q) = << >>
    <2>1. RunAt(d, q) = {}
        BY <1>3 DEF RunAt, AllOf
    <2> QED BY <2>1, PickedNone DEF OfRun, RunAt
<1> QED BY <1>2, <1>3, PickedAll

\* Records of run r added to the file.
LEMMA OfRunGrows ==
    ASSUME NEW s \in Seq(Record), NEW d \in Seq(Record), NEW r, AllOf(d, r)
    PROVE  /\ OfRun(s \o d, r) = OfRun(s, r) \o d
           /\ \A q : q # r => OfRun(s \o d, q) = OfRun(s, q)
<1>1. OfRun(s \o d, r) = OfRun(s, r) \o d
    <2>1. OfRun(s \o d, r) = OfRun(s, r) \o OfRun(d, r)
        BY OfRunAdd
    <2>2. OfRun(d, r) = d
        BY OfRunAll
    <2> QED BY <2>1, <2>2
<1>2. ASSUME NEW q, q # r PROVE OfRun(s \o d, q) = OfRun(s, q)
    <2>1. OfRun(s \o d, q) = OfRun(s, q) \o OfRun(d, q) /\ OfRun(s, q) \in Seq(Record)
        BY OfRunAdd
    <2>2. OfRun(d, q) = << >>
        BY <1>2, OfRunAll
    <2> QED BY <2>1, <2>2
<1> QED BY <1>1, <1>2

-----------------------------------------------------------------------------
(***************************************************************************)
(* The invariant of the file.  What a run has written is in three parts:   *)
(* complete lines of the file, perhaps without the first record; the last  *)
(* line, if the record lost its newline only; and the stream.              *)
(***************************************************************************)

\* The first record of a run that is in the file, and the number of records
\* that reached it, are known for every run.
Stretched(file, w, r, first, m) ==
    /\ first \in {1, 2}
    /\ m \in 0..Len(w)
    /\ first <= m + 1
    /\ r = 1 => first = 1
    /\ OfRun(file, r) = SubSeq(w, first, m)

\* What is known of the records of run r: those up to m are complete lines, a
\* last line without its newline is the next one, and while the run lasts the
\* rest is in the stream.
StretchOf(r, first, m) ==
    /\ Stretched(log_file, written[r], r, first, m)
    /\ flushed[r] <= m
    /\ last_line \in Record /\ last_line.run = r =>
          m < Len(written[r]) /\ written[r][m + 1] = last_line
    /\ phase # "down" /\ r = run =>
          /\ unflushed = SubSeq(written[r], m + 1, Len(written[r]))
          /\ m = 0 \/ last_line = NoLine

\* The file has the runs one behind the other.
RunsInOrder ==
    /\ \A i, j \in DOMAIN log_file : i < j => log_file[i].run <= log_file[j].run
    /\ \A i \in DOMAIN log_file : log_file[i].run <= run
    /\ last_line \in Record =>
          /\ last_line.run <= run
          /\ phase # "down" => last_line.run < run
          /\ \A i \in DOMAIN log_file : log_file[i].run <= last_line.run

RunsKnown ==
    /\ phase = "down" => unflushed = << >>
    /\ \A r \in Run : r > run => written[r] = << >>
    /\ \A r \in Run : AllOf(written[r], r)
    /\ run = 0 => last_line = NoLine
    /\ run = 1 /\ phase # "down" => last_line = NoLine

FileInv ==
    CanRead(log_file, last_line) =>
        /\ RunsInOrder
        /\ \A r \in Run : \E first \in {1, 2}, m \in 0..Len(written[r]) :
              StretchOf(r, first, m)

-----------------------------------------------------------------------------
(***************************************************************************)
(* Records on their way to the file.                                       *)
(***************************************************************************)

\* Part of a run's records: they are of the run, and the parts fit together.
LEMMA PartOfRun ==
    ASSUME NEW w \in Seq(Record), NEW r, AllOf(w, r),
           NEW a \in Nat \ {0}, NEW b \in 0..Len(w)
    PROVE  /\ SubSeq(w, a, b) \in Seq(Record)
           /\ AllOf(SubSeq(w, a, b), r)
           /\ Len(SubSeq(w, a, b)) = IF a <= b THEN b - a + 1 ELSE 0
           /\ \A i \in 1..(b - a + 1) : SubSeq(w, a, b)[i] = w[a + i - 1]
<1>1. \A i \in a..b : i \in DOMAIN w /\ w[i] \in Record
    OBVIOUS
<1>2. /\ SubSeq(w, a, b) \in Seq(Record)
      /\ Len(SubSeq(w, a, b)) = IF a <= b THEN b - a + 1 ELSE 0
      /\ \A i \in 1..(b - a + 1) : SubSeq(w, a, b)[i] = w[a + i - 1]
    BY <1>1, SubSeqProperties
<1>3. ASSUME NEW i \in DOMAIN SubSeq(w, a, b) PROVE SubSeq(w, a, b)[i].run = r
    <2>1. i \in 1..Len(SubSeq(w, a, b))
        BY <1>2
    <2>2. i \in 1..(b - a + 1) /\ a + i - 1 \in a..b
        BY <1>2, <2>1
    <2>3. SubSeq(w, a, b)[i] = w[a + i - 1] /\ a + i - 1 \in DOMAIN w
        BY <1>1, <1>2, <2>2
    <2> QED BY <2>3 DEF AllOf
<1> QED BY <1>2, <1>3 DEF AllOf

\* The records of w behind the m-th, up to the n-th.
Between(w, m, n) == SubSeq(w, m + 1, n)

\* They reach the file and become lines d of it, the run's records up to n.
Delivered(w, r, m, n) ==
    \E d \in Seq(Record), f \in {1, 2} :
        /\ Lines(Between(w, m, n)) = log_file \o d
        /\ AllOf(d, r)
        /\ Stretched(log_file \o d, w, r, f, n)

\* What becomes of records of run r that reach a file that can be read: all of
\* them become lines, or all but the run's first.
LEMMA Deliver ==
    ASSUME log_file \in Seq(Record), last_line # Unreadable,
           NEW w \in Seq(Record), NEW r \in Run, AllOf(w, r),
           NEW first, NEW m, Stretched(log_file, w, r, first, m),
           NEW n \in m..Len(w),
           m = 0 \/ last_line = NoLine,
           r = 1 => last_line = NoLine
    PROVE  Delivered(w, r, m, n)
<1>1. /\ first \in {1, 2} /\ m \in 0..Len(w) /\ first <= m + 1
      /\ r = 1 => first = 1
      /\ OfRun(log_file, r) = SubSeq(w, first, m)
      /\ m \in Nat /\ n \in Nat /\ Len(w) \in Nat
    BY DEF Stretched
<1> USE DEF Between, Delivered
<1>2. PICK done \in Seq(Record) : done = SubSeq(w, m + 1, n)
    <2>1. m + 1 \in Nat \ {0} /\ n \in 0..Len(w)
        BY <1>1
    <2>2. SubSeq(w, m + 1, n) \in Seq(Record)
        BY <2>1, PartOfRun
    <2> QED BY <2>2, Zenon
<1>3. /\ AllOf(done, r)
      /\ Len(done) = IF m + 1 <= n THEN n - (m + 1) + 1 ELSE 0
      /\ \A i \in 1..(n - (m + 1) + 1) : done[i] = w[(m + 1) + i - 1]
    BY <1>1, <1>2, PartOfRun
<1>4. SubSeq(w, first, m) \o done = SubSeq(w, first, n)
    <2>1. first \in 1..(Len(w) + 1) /\ m \in (first - 1)..Len(w)
        BY <1>1
    <2> QED BY <1>2, <2>1, ConcatAdjacentSubSeq
<1>5. Stretched(log_file \o done, w, r, first, n)
    <2>1. OfRun(log_file \o done, r) = OfRun(log_file, r) \o done
        <3>1. AllOf(done, r)
            BY <1>3, Zenon
        <3> QED BY <3>1, OfRunGrows, SMTT(30)
    <2>2. OfRun(log_file \o done, r) = SubSeq(w, first, n)
        BY <1>1, <1>4, <2>1, Zenon
    <2>3. n \in 0..Len(w) /\ first <= n + 1
        BY <1>1
    <2> QED BY <1>1, <2>2, <2>3, Zenon DEF Stretched
<1>6. CASE done = << >>
    <2>1. Lines(done) = log_file \o done
        BY <1>6 DEF Lines
    <2> QED BY <1>1, <1>2, <1>3, <1>5, <2>1
<1>7. CASE done # << >> /\ last_line # Headless
    <2>1. PICK h \in Record, t \in Seq(Record) : h = Head(done) /\ t = Tail(done)
        <3>1. Head(done) \in Record /\ Tail(done) \in Seq(Record)
            BY <1>7
        <3> QED BY <3>1, Zenon
    <2>2. Joined(last_line, h) = <<h>>
        BY <1>7 DEF Joined
    <2>3. Lines(done) = (log_file \o <<h>>) \o t
        BY <1>7, <2>1, <2>2 DEF Lines
    <2>4. <<h>> \in Seq(Record) /\ <<h>> \o t = done
        BY <1>7, <2>1
    <2>5. (log_file \o <<h>>) \o t = log_file \o (<<h>> \o t)
        BY <2>1, <2>4, ConcatAssociative
    <2> QED BY <1>1, <1>2, <1>3, <1>5, <2>3, <2>4, <2>5
<1>8. CASE done # << >> /\ last_line = Headless
    <2>1. m = 0 /\ r # 1 /\ first = 1
        BY <1>1, <1>8, CutAssumption DEF Cut
    <2>2. n >= 1 /\ Len(done) = n
        BY <1>1, <1>3, <1>8, <2>1
    <2>3. PICK h \in Record, t \in Seq(Record) : h = Head(done) /\ t = Tail(done)
        <3>1. Head(done) \in Record /\ Tail(done) \in Seq(Record)
            BY <1>8
        <3> QED BY <3>1, Zenon
    <2>4. Lines(done) = (log_file \o << >>) \o t /\ log_file \o << >> = log_file
        BY <1>8, <2>3 DEF Lines, Joined
    <2>5. t = SubSeq(w, 2, n)
        BY <1>2, <2>1, <2>2, <2>3, HeadTailOfSubSeq
    <2>6. AllOf(t, r)
        BY <1>1, <2>5, PartOfRun
    <2>7. OfRun(log_file, r) = << >>
        BY <1>1, <2>1
    <2>8. OfRun(log_file \o t, r) = << >> \o t
        <3>1. OfRun(log_file \o t, r) = OfRun(log_file, r) \o t
            BY <2>6, OfRunGrows
        <3> QED BY <2>7, <3>1
    <2>9. << >> \o t = t
        OBVIOUS
    <2>10. Stretched(log_file \o t, w, r, 2, n)
        BY <1>1, <2>1, <2>2, <2>5, <2>8, <2>9 DEF Stretched
    <2> QED BY <1>2, <2>4, <2>6, <2>10
<1> QED BY <1>6, <1>7, <1>8

\* Parts of the rest of a sequence are parts of the sequence.
LEMMA PartOfRest ==
    ASSUME NEW T, NEW w \in Seq(T), NEW m \in 0..Len(w), NEW u \in Seq(T),
           u = SubSeq(w, m + 1, Len(w)), NEW n \in 0..Len(u)
    PROVE  /\ Len(u) = Len(w) - m
           /\ m + n \in m..Len(w)
           /\ SubSeq(u, 1, n) = SubSeq(w, m + 1, m + n)
           /\ SubSeq(u, n + 1, Len(u)) = SubSeq(w, m + n + 1, Len(w))
           /\ n < Len(u) => u[n + 1] = w[m + n + 1]
<1>1. \A i \in (m + 1)..Len(w) : w[i] \in T
    OBVIOUS
<1>2. /\ m \in Nat /\ n \in Nat /\ Len(w) \in Nat /\ m <= Len(w)
      /\ m + 1 \in Int
    OBVIOUS
<1>3. /\ Len(u) = IF m + 1 <= Len(w) THEN Len(w) - (m + 1) + 1 ELSE 0
      /\ \A i \in 1..(Len(w) - (m + 1) + 1) : u[i] = w[(m + 1) + i - 1]
    BY <1>1, <1>2, SubSeqProperties
<1>4. Len(u) = Len(w) - m
    BY <1>2, <1>3
<1>5. \A i \in 1..Len(u) : u[i] = w[m + i]
    BY <1>2, <1>3, <1>4
<1>6. ASSUME NEW a \in 1..(Len(u) + 1), NEW b \in 0..Len(u)
      PROVE  SubSeq(u, a, b) = SubSeq(w, m + a, m + b)
    <2>1. /\ \A i \in a..b : u[i] \in T /\ i \in 1..Len(u)
          /\ \A i \in (m + a)..(m + b) : w[i] \in T
        BY <1>2, <1>4
    <2>2. /\ SubSeq(u, a, b) \in Seq(T)
          /\ Len(SubSeq(u, a, b)) = IF a <= b THEN b - a + 1 ELSE 0
          /\ \A i \in 1..(b - a + 1) : SubSeq(u, a, b)[i] = u[a + i - 1]
        BY <2>1, SubSeqProperties
    <2>3. /\ SubSeq(w, m + a, m + b) \in Seq(T)
          /\ Len(SubSeq(w, m + a, m + b))
                = IF m + a <= m + b THEN (m + b) - (m + a) + 1 ELSE 0
          /\ \A i \in 1..((m + b) - (m + a) + 1) :
                SubSeq(w, m + a, m + b)[i] = w[(m + a) + i - 1]
        BY <1>2, <2>1, SubSeqProperties
    <2>4. Len(SubSeq(u, a, b)) = Len(SubSeq(w, m + a, m + b))
        BY <1>2, <2>2, <2>3
    <2>5. ASSUME NEW i \in 1..Len(SubSeq(u, a, b))
          PROVE  SubSeq(u, a, b)[i] = SubSeq(w, m + a, m + b)[i]
        <3>1. i \in 1..(b - a + 1) /\ i \in 1..((m + b) - (m + a) + 1)
            BY <1>2, <2>2
        <3>2. a + i - 1 \in 1..Len(u)
            BY <1>2, <3>1
        <3>3. m + (a + i - 1) = (m + a) + i - 1
            BY <1>2, <3>1
        <3> QED BY <1>5, <2>2, <2>3, <3>1, <3>2, <3>3
    <2> QED BY <2>2, <2>3, <2>4, <2>5, SeqEqual
<1>7. SubSeq(u, 1, n) = SubSeq(w, m + 1, m + n)
    BY <1>2, <1>6
<1>8. SubSeq(u, n + 1, Len(u)) = SubSeq(w, m + n + 1, Len(w))
    <2>1. n + 1 \in 1..(Len(u) + 1) /\ Len(u) \in 0..Len(u)
        BY <1>2, <1>4
    <2>2. SubSeq(u, n + 1, Len(u)) = SubSeq(w, m + (n + 1), m + Len(u))
        BY <1>6, <2>1
    <2>3. m + (n + 1) = m + n + 1 /\ m + Len(u) = Len(w)
        BY <1>2, <1>4
    <2> QED BY <2>2, <2>3
<1>9. n < Len(u) => u[n + 1] = w[m + n + 1]
    BY <1>2, <1>4, <1>5
<1> QED BY <1>2, <1>4, <1>7, <1>8, <1>9

RestGrows(w, rs, m) ==
    Between(w, m, Len(w)) \o rs = Between(w \o rs, m, Len(w \o rs))

\* What a run writes more does not change what is known of its records.
LEMMA MoreWritten ==
    ASSUME NEW file, NEW w \in Seq(Record), NEW rs \in Seq(Record), NEW r,
           NEW first, NEW m, Stretched(file, w, r, first, m)
    PROVE  /\ Stretched(file, w \o rs, r, first, m)
           /\ RestGrows(w, rs, m)
<1>1. PICK v \in Seq(Record) : v = w \o rs
    <2>1. w \o rs \in Seq(Record)
        OBVIOUS
    <2> QED BY <2>1, Zenon
<1>2. /\ Len(v) = Len(w) + Len(rs)
      /\ \A i \in 1..Len(rs) : v[Len(w) + i] = rs[i]
    BY <1>1
<1>3. /\ first \in {1, 2} /\ m \in 0..Len(w) /\ first <= m + 1
      /\ OfRun(file, r) = SubSeq(w, first, m) /\ r = 1 => first = 1
      /\ Len(w) \in Nat /\ Len(rs) \in Nat /\ m \in Nat
    BY DEF Stretched
<1>4. ASSUME NEW a \in Nat \ {0}, NEW b \in 0..Len(w)
      PROVE  SubSeq(v, a, b) = SubSeq(w, a, b)
    <2>1. CASE a <= b
        <3>1. a \in 1..Len(w) /\ b \in 1..Len(w)
            BY <2>1
        <3> QED BY <1>1, <3>1, SubSeqOfConcat1
    <2>2. CASE b < a
        BY <2>2, SubSeqEmpty
    <2> QED BY <2>1, <2>2
<1>5. Stretched(file, v, r, first, m)
    <2>1. first \in Nat \ {0} /\ m \in 0..Len(v)
        BY <1>2, <1>3
    <2>2. SubSeq(v, first, m) = SubSeq(w, first, m)
        BY <1>3, <1>4, <2>1
    <2> QED BY <1>3, <2>1, <2>2 DEF Stretched
<1>6. SubSeq(v, Len(w) + 1, Len(v)) = rs
    <2>1. \A i \in (Len(w) + 1)..Len(v) : v[i] \in Record
        BY <1>2, <1>3
    <2>2. /\ SubSeq(v, Len(w) + 1, Len(v)) \in Seq(Record)
          /\ Len(SubSeq(v, Len(w) + 1, Len(v)))
                = IF Len(w) + 1 <= Len(v) THEN Len(v) - (Len(w) + 1) + 1 ELSE 0
          /\ \A i \in 1..(Len(v) - (Len(w) + 1) + 1) :
                SubSeq(v, Len(w) + 1, Len(v))[i] = v[(Len(w) + 1) + i - 1]
        BY <1>3, <2>1, SubSeqProperties
    <2>3. Len(SubSeq(v, Len(w) + 1, Len(v))) = Len(rs)
        BY <1>2, <1>3, <2>2
    <2>4. \A i \in 1..Len(rs) : SubSeq(v, Len(w) + 1, Len(v))[i] = rs[i]
        BY <1>2, <1>3, <2>2
    <2> QED BY <2>2, <2>3, <2>4, SeqEqual
<1>7. SubSeq(v, m + 1, Len(w)) \o SubSeq(v, Len(w) + 1, Len(v))
         = SubSeq(v, m + 1, Len(v))
    <2>1. /\ m + 1 \in 1..(Len(v) + 1)
          /\ Len(w) \in ((m + 1) - 1)..Len(v)
          /\ Len(v) \in Len(w)..Len(v)
        BY <1>2, <1>3
    <2> QED BY <2>1, ConcatAdjacentSubSeq
<1>8. SubSeq(v, m + 1, Len(w)) = SubSeq(w, m + 1, Len(w))
    <2>1. m + 1 \in Nat \ {0} /\ Len(w) \in 0..Len(w)
        BY <1>3
    <2> QED BY <1>4, <2>1
<1>9. Stretched(file, w \o rs, r, first, m)
    BY <1>1, <1>5, Zenon
<1>10. RestGrows(w, rs, m)
    <2>1. SubSeq(w, m + 1, Len(w)) \o rs = SubSeq(v, m + 1, Len(v))
        BY <1>6, <1>7, <1>8, Zenon
    <2> QED BY <1>1, <2>1, Zenon DEF Between, RestGrows
<1> QED BY <1>9, <1>10

-----------------------------------------------------------------------------
(***************************************************************************)
(* Every step but Start is a Move of the log: the current run writes the   *)
(* records rs, and the first n records of the stream reach the file; if    *)
(* the program ends, perhaps a part of the next one.                       *)
(***************************************************************************)

Reaches(u, n) ==
    /\ n \in 0..Len(u)
    /\ log_file' = Lines(SubSeq(u, 1, n))
    /\ \/ last_line' = LastLine(SubSeq(u, 1, n))
       \/ /\ n < Len(u) /\ phase' = "down"
          /\ last_line' \in Torn(LastLine(SubSeq(u, 1, n)), u[n + 1])
    /\ unflushed' = IF phase' = "down" THEN << >> ELSE SubSeq(u, n + 1, Len(u))

Moves(rs, n) ==
    /\ phase # "down" /\ run' = run
    /\ AllOf(rs, run)
    /\ Reaches(unflushed \o rs, n)
    /\ written' = [written EXCEPT ![run] = @ \o rs]
    /\ \A r \in Run :
          \/ flushed'[r] = flushed[r]
          \/ /\ r = run
             /\ flushed'[r] <= Len(written[r] \o rs) - (Len(unflushed \o rs) - n)

\* What can be read after records reached the file could be read before.
LEMMA ReadBefore ==
    ASSUME LogFileTypeOK, NEW u \in Seq(Record), NEW n, Reaches(u, n),
           CanRead(log_file', last_line')
    PROVE  /\ CanRead(log_file, last_line)
           /\ log_file \in Seq(Record)
           /\ last_line # Unreadable
<1>1. PICK done \in Seq(Record) : done = SubSeq(u, 1, n)
    <2>1. \A i \in 1..n : u[i] \in Record
        BY DEF Reaches
    <2>2. SubSeq(u, 1, n) \in Seq(Record)
        BY <2>1, SubSeqProperties DEF Reaches
    <2> QED BY <2>2, Zenon
<1>2. log_file' = Lines(done)
    BY <1>1 DEF Reaches
<1>3. log_file \in Seq(Line) /\ Added(done) \in Seq(Line)
      /\ log_file' = log_file \o Added(done)
    BY <1>2, LinesAdd DEF LogFileTypeOK
<1>4. \A i \in DOMAIN log_file' : log_file'[i] # Unreadable
    BY DEF CanRead
<1>5. \A i \in DOMAIN log_file : log_file[i] # Unreadable
    <2>1. PICK d \in Seq(Line) : d = Added(done)
        BY <1>3, Zenon
    <2>2. /\ \A i \in DOMAIN log_file : i \in DOMAIN (log_file \o d)
          /\ \A i \in DOMAIN log_file : (log_file \o d)[i] = log_file[i]
        BY <1>3
    <2>3. log_file' = log_file \o d
        BY <1>3, <2>1
    <2> QED BY <1>4, <2>2, <2>3
<1>6. last_line # Unreadable
    <2>1. SUFFICES ASSUME last_line = Unreadable PROVE FALSE
        OBVIOUS
    <2>2. CASE done = << >>
        <3>1. LastLine(done) = Unreadable
            BY <2>1, <2>2 DEF LastLine
        <3>2. last_line' \in {LastLine(done)} \cup Torn(LastLine(done), u[n + 1])
            BY <1>1 DEF Reaches
        <3>3. Torn(LastLine(done), u[n + 1]) = {Unreadable}
            BY <3>1 DEF Torn
        <3> QED BY <3>1, <3>2, <3>3 DEF CanRead
    <2>3. CASE done # << >>
        <3>1. PICK t \in Seq(Line) : t = Tail(done)
            <4>1. Tail(done) \in Seq(Record)
                BY <2>3
            <4>2. Tail(done) \in Seq(Line)
                BY <4>1 DEF Line
            <4> QED BY <4>2, Zenon
        <3>2. Joined(last_line, Head(done)) = <<Unreadable>>
            BY <2>1, CutAssumption DEF Joined
        <3>3. Added(done) = <<Unreadable>> \o t
            BY <2>3, <3>1, <3>2 DEF Added
        <3>4. /\ Len(log_file) + 1 \in DOMAIN log_file'
              /\ log_file'[Len(log_file) + 1] = Unreadable
            BY <1>3, <3>1, <3>3
        <3> QED BY <1>4, <3>4
    <2> QED BY <2>2, <2>3
<1>7. CanRead(log_file, last_line)
    BY <1>5, <1>6 DEF CanRead
<1> QED BY <1>3, <1>6, <1>7, ReadType

\* The last line of a file that can be read, when it is a record.
LEMMA LastRecord ==
    ASSUME NEW u \in Seq(Record), NEW n, Reaches(u, n), last_line' \in Record
    PROVE  \/ last_line' = last_line /\ n = 0
           \/ n < Len(u) /\ phase' = "down" /\ last_line' = u[n + 1]
<1>1. NoLine \notin Record /\ \A c \in Cut : c \notin Record
    BY CutAssumption
<1>2. n \in 0..Len(u)
    BY DEF Reaches
<1>3. ASSUME last_line' = LastLine(SubSeq(u, 1, n))
      PROVE  last_line' = last_line /\ n = 0
    <2>1. SubSeq(u, 1, n) = << >> /\ last_line' = last_line
        BY <1>1, <1>3 DEF LastLine
    <2>2. Len(SubSeq(u, 1, n)) = IF 1 <= n THEN n - 1 + 1 ELSE 0
        BY <1>2, SubSeqProperties
    <2> QED BY <1>2, <2>1, <2>2
<1>4. ASSUME n < Len(u), phase' = "down",
             last_line' \in Torn(LastLine(SubSeq(u, 1, n)), u[n + 1])
      PROVE  last_line' = u[n + 1]
    BY <1>1, <1>4 DEF Torn, Cut
<1> QED BY <1>3, <1>4 DEF Reaches

\* The invariant is kept by every move of the log.
LEMMA MoveKnown ==
    ASSUME SessionTypeOK, RunsKnown, NEW rs \in Seq(Record), NEW n, Moves(rs, n)
    PROVE  RunsKnown'
<1>1. /\ run \in Run /\ run' = run /\ phase # "down"
      /\ written \in [Run -> Seq(Record)]
      /\ written' = [written EXCEPT ![run] = @ \o rs]
      /\ AllOf(rs, run)
      /\ unflushed \o rs \in Seq(Record)
    BY DEF Moves, SessionTypeOK, LogFileTypeOK
<1>2. PICK u \in Seq(Record) : u = unflushed \o rs
    BY <1>1, Zenon
<1>3. Reaches(u, n)
    BY <1>2 DEF Moves
<1>4. phase' = "down" => unflushed' = << >>
    BY <1>3 DEF Reaches
<1>5. \A r \in Run : r > run' => written'[r] = << >>
    BY <1>1 DEF RunsKnown, Run
<1>6. \A r \in Run : AllOf(written'[r], r)
    <2>1. ASSUME NEW w \in Seq(Record), AllOf(w, run) PROVE AllOf(w \o rs, run)
        BY <1>1, <2>1 DEF AllOf
    <2>2. AllOf(written[run] \o rs, run)
        BY <1>1, <2>1 DEF RunsKnown
    <2> QED BY <1>1, <2>2 DEF RunsKnown
<1>7. run' # 0
    BY <1>1 DEF Run
<1>8. run' = 1 /\ phase' # "down" => last_line' = NoLine
    <2>1. SUFFICES ASSUME run' = 1, phase' # "down" PROVE last_line' = NoLine
        OBVIOUS
    <2>2. last_line = NoLine
        BY <1>1, <2>1 DEF RunsKnown
    <2> QED BY <1>3, <2>1, <2>2 DEF Reaches, LastLine
<1> QED BY <1>4, <1>5, <1>6, <1>7, <1>8 DEF RunsKnown

\* What Move does to the file, and to the records of the current run.
LEMMA MoveFile ==
    ASSUME SessionTypeOK, RunsKnown, FileInv,
           NEW rs \in Seq(Record), NEW n, Moves(rs, n),
           CanRead(log_file', last_line')
    PROVE  /\ RunsInOrder
           /\ log_file \in Seq(Record)
           /\ \E d \in Seq(Record) : /\ log_file' = log_file \o d
                                     /\ AllOf(d, run)
                                     /\ n = 0 => d = << >>
           /\ n \in Nat
           /\ n < Len(unflushed \o rs) => (unflushed \o rs)[n + 1].run = run
           /\ \E first \in {1, 2}, m \in 0..Len(written'[run]) :
                 StretchOf(run, first, m)'
<1>1. /\ run \in Run /\ run' = run /\ phase # "down"
      /\ written \in [Run -> Seq(Record)]
      /\ written' = [written EXCEPT ![run] = @ \o rs]
      /\ AllOf(rs, run)
      /\ unflushed \o rs \in Seq(Record)
      /\ written[run] \in Seq(Record)
      /\ LogFileTypeOK
      /\ flushed \in [Run -> Nat]
    BY DEF Moves, SessionTypeOK, LogFileTypeOK
<1>2. PICK u \in Seq(Record) : u = unflushed \o rs
    BY <1>1, Zenon
<1>3. Reaches(u, n)
    BY <1>2 DEF Moves
<1>4. /\ CanRead(log_file, last_line)
      /\ log_file \in Seq(Record)
      /\ last_line # Unreadable
    BY <1>1, <1>3, ReadBefore
<1>5. RunsInOrder /\ \E first \in {1, 2}, m \in 0..Len(written[run]) :
                        StretchOf(run, first, m)
    BY <1>1, <1>4 DEF FileInv
<1>6. PICK first \in {1, 2}, m \in 0..Len(written[run]) : StretchOf(run, first, m)
    BY <1>5
<1>7. PICK w \in Seq(Record) : w = written[run] \o rs
    <2>1. written[run] \o rs \in Seq(Record)
        BY <1>1
    <2> QED BY <2>1, Zenon
<1>8. /\ Stretched(log_file, written[run], run, first, m)
      /\ flushed[run] <= m
      /\ unflushed = SubSeq(written[run], m + 1, Len(written[run]))
      /\ m = 0 \/ last_line = NoLine
    BY <1>1, <1>6 DEF StretchOf
<1>9. Stretched(log_file, w, run, first, m) /\ u = SubSeq(w, m + 1, Len(w))
    <2>1. PICK old \in Seq(Record) : old = written[run]
        BY <1>1, Zenon
    <2>2. Stretched(log_file, old, run, first, m)
        BY <1>8, <2>1
    <2>3. /\ Stretched(log_file, old \o rs, run, first, m)
          /\ RestGrows(old, rs, m)
        BY <2>2, MoreWritten
    <2> QED BY <1>2, <1>7, <1>8, <2>1, <2>3 DEF Between, RestGrows
<1>10. m \in 0..Len(w) /\ n \in 0..Len(u)
    BY <1>3, <1>9 DEF Stretched, Reaches
<1>11. /\ Len(u) = Len(w) - m
       /\ m + n \in m..Len(w)
       /\ SubSeq(u, 1, n) = SubSeq(w, m + 1, m + n)
       /\ SubSeq(u, n + 1, Len(u)) = SubSeq(w, m + n + 1, Len(w))
       /\ n < Len(u) => u[n + 1] = w[m + n + 1]
    BY <1>9, <1>10, PartOfRest
<1>12. written'[run] = w /\ \A r \in Run : r # run => written'[r] = written[r]
    BY <1>1, <1>7
<1>13. AllOf(w, run)
    <2>1. RunsKnown'
        BY MoveKnown
    <2> QED BY <1>1, <1>12, <2>1 DEF RunsKnown
<1>14. run = 1 => last_line = NoLine
    BY <1>1 DEF RunsKnown
<1>15. PICK d \in Seq(Record), f \in {1, 2} :
          /\ Lines(SubSeq(w, m + 1, m + n)) = log_file \o d
          /\ AllOf(d, run)
          /\ Stretched(log_file \o d, w, run, f, m + n)
    <2>1. PICK k \in m..Len(w) : k = m + n
        BY <1>11
    <2>2. Delivered(w, run, m, k)
        BY <1>1, <1>4, <1>8, <1>9, <1>13, <1>14, Deliver
    <2> QED BY <2>1, <2>2 DEF Between, Delivered
<1>16. log_file' = log_file \o d
    BY <1>3, <1>11, <1>15 DEF Reaches
<1>17. n = 0 => d = << >>
    <2>1. SUFFICES ASSUME n = 0 PROVE d = << >>
        OBVIOUS
    <2>2. SubSeq(w, m + 1, m + n) = << >>
        BY <1>10, <2>1, SubSeqEmpty
    <2>3. log_file \o d = log_file
        BY <1>15, <2>2 DEF Lines
    <2> QED BY <1>4, <2>3, ConcatEqualIffEmpty
<1>18. n < Len(u) => u[n + 1].run = run
    <2>1. SUFFICES ASSUME n < Len(u) PROVE u[n + 1].run = run
        OBVIOUS
    <2>2. m + n + 1 \in DOMAIN w
        BY <1>10, <1>11, <2>1
    <2> QED BY <1>11, <1>13, <2>1, <2>2 DEF AllOf
<1>19. flushed'[run] <= m + n
    <2>1. \/ flushed'[run] = flushed[run]
          \/ flushed'[run] <= Len(w) - (Len(u) - n)
        BY <1>1, <1>2, <1>7 DEF Moves
    <2>2. Len(w) - (Len(u) - n) = m + n
        BY <1>10, <1>11
    <2>3. flushed[run] \in Nat /\ m \in Nat /\ n \in Nat
        BY <1>1, <1>10
    <2>4. CASE flushed'[run] = flushed[run]
        BY <1>8, <2>3, <2>4
    <2>5. CASE flushed'[run] <= Len(w) - (Len(u) - n)
        BY <2>2, <2>5
    <2> QED BY <2>1, <2>4, <2>5
<1>20. last_line' \in Record /\ last_line'.run = run =>
          m + n < Len(w) /\ w[m + n + 1] = last_line'
    <2>1. SUFFICES ASSUME last_line' \in Record, last_line'.run = run
                   PROVE  m + n < Len(w) /\ w[m + n + 1] = last_line'
        OBVIOUS
    <2>2. last_line \in Record => last_line.run < run
        BY <1>1, <1>5 DEF RunsInOrder
    <2>3. n < Len(u) /\ last_line' = u[n + 1]
        BY <1>1, <1>3, <2>1, <2>2, LastRecord DEF Run
    <2> QED BY <1>10, <1>11, <2>3
<1>21. phase' # "down" =>
          /\ unflushed' = SubSeq(w, m + n + 1, Len(w))
          /\ m + n = 0 \/ last_line' = NoLine
    <2>1. SUFFICES ASSUME phase' # "down"
                   PROVE  /\ unflushed' = SubSeq(w, m + n + 1, Len(w))
                          /\ m + n = 0 \/ last_line' = NoLine
        OBVIOUS
    <2>2. unflushed' = SubSeq(w, m + n + 1, Len(w))
        BY <1>3, <1>11, <2>1 DEF Reaches
    <2>3. last_line' = LastLine(SubSeq(u, 1, n))
        BY <1>3, <2>1 DEF Reaches
    <2>4. CASE n = 0
        <3>1. SubSeq(u, 1, n) = << >>
            BY <2>4, SubSeqEmpty
        <3> QED BY <1>8, <2>2, <2>3, <2>4, <3>1 DEF LastLine
    <2>5. CASE n # 0
        <3>1. Len(SubSeq(u, 1, n)) = n
            BY <1>10, <2>5, SubSeqProperties
        <3>2. SubSeq(u, 1, n) # << >>
            BY <2>5, <3>1
        <3> QED BY <2>2, <2>3, <3>2 DEF LastLine
    <2> QED BY <2>4, <2>5
<1>22. StretchOf(run, f, m + n)'
    BY <1>1, <1>12, <1>15, <1>16, <1>19, <1>20, <1>21 DEF StretchOf
<1>23. m + n \in 0..Len(written'[run])
    BY <1>10, <1>11, <1>12
<1>24. n \in Nat
    BY <1>10
<1>25. n < Len(unflushed \o rs) => (unflushed \o rs)[n + 1].run = run
    BY <1>2, <1>18
<1> QED BY <1>4, <1>5, <1>15, <1>16, <1>17, <1>22, <1>23, <1>24, <1>25, ZenonT(30)

\* What is known of another run's records is not changed.
LEMMA OtherRunKept ==
    ASSUME NEW s \in Seq(Record), NEW d \in Seq(Record), NEW q, AllOf(d, q),
           NEW w, NEW r, r # q, NEW first, NEW m, Stretched(s, w, r, first, m)
    PROVE  Stretched(s \o d, w, r, first, m)
<1>1. OfRun(s \o d, r) = OfRun(s, r)
    BY OfRunGrows
<1> QED BY <1>1 DEF Stretched

\* The runs stay in order when the last of them adds lines.
LEMMA OrderKept ==
    ASSUME NEW s \in Seq(Record), NEW d \in Seq(Record), NEW q, AllOf(d, q),
           \A i \in DOMAIN s : s[i].run \in Nat /\ s[i].run <= q,
           \A i, j \in DOMAIN s : i < j => s[i].run <= s[j].run,
           q \in Nat
    PROVE  /\ \A i \in DOMAIN (s \o d) : (s \o d)[i].run <= q
           /\ \A i, j \in DOMAIN (s \o d) :
                 i < j => (s \o d)[i].run <= (s \o d)[j].run
<1>1. PICK v \in Seq(Record) : v = s \o d
    <2>1. s \o d \in Seq(Record)
        OBVIOUS
    <2> QED BY <2>1, Zenon
<1>2. /\ DOMAIN s = 1..Len(s) /\ Len(s) \in Nat
      /\ DOMAIN v = 1..(Len(s) + Len(d)) /\ Len(d) \in Nat
      /\ \A i \in 1..Len(s) : v[i] = s[i]
    BY <1>1
<1>3. ASSUME NEW i \in DOMAIN v, i > Len(s) PROVE v[i].run = q
    <2>1. i - Len(s) \in DOMAIN d /\ v[i] = d[i - Len(s)]
        BY <1>1, <1>2, <1>3
    <2> QED BY <2>1 DEF AllOf
<1>4. \A i \in DOMAIN v : v[i].run \in Nat /\ v[i].run <= q
    BY <1>2, <1>3
<1>5. ASSUME NEW i \in DOMAIN v, NEW j \in DOMAIN v, i < j
      PROVE  v[i].run <= v[j].run
    <2>1. CASE j <= Len(s)
        <3>1. i \in 1..Len(s) /\ j \in 1..Len(s)
            BY <1>2, <1>5, <2>1
        <3> QED BY <1>2, <1>5, <3>1
    <2>2. CASE j > Len(s)
        BY <1>3, <1>4, <2>2
    <2> QED BY <1>2, <2>1, <2>2
<1> QED BY <1>1, <1>4, <1>5

\* The invariant of the file is kept by every move of the log.
LEMMA MoveInv ==
    ASSUME SessionTypeOK, RunsKnown, FileInv,
           NEW rs \in Seq(Record), NEW n, Moves(rs, n)
    PROVE  FileInv'
<1> SUFFICES ASSUME CanRead(log_file', last_line')
             PROVE  /\ RunsInOrder'
                    /\ \A r \in Run : \E first \in {1, 2}, m \in 0..Len(written'[r]) :
                          StretchOf(r, first, m)'
    BY DEF FileInv
<1>1. /\ run \in Run /\ run' = run /\ phase # "down"
      /\ written \in [Run -> Seq(Record)]
      /\ written' = [written EXCEPT ![run] = @ \o rs]
      /\ unflushed \o rs \in Seq(Record)
      /\ LogFileTypeOK
    BY DEF Moves, SessionTypeOK, LogFileTypeOK
<1>2. PICK u \in Seq(Record) : u = unflushed \o rs
    BY <1>1, Zenon
<1>3. Reaches(u, n)
    BY <1>2 DEF Moves
<1>4. /\ CanRead(log_file, last_line)
      /\ last_line # Unreadable
    BY <1>1, <1>3, ReadBefore
<1>5. /\ RunsInOrder
      /\ log_file \in Seq(Record)
      /\ \E d \in Seq(Record) : /\ log_file' = log_file \o d
                                /\ AllOf(d, run)
                                /\ n = 0 => d = << >>
      /\ n \in Nat
      /\ n < Len(u) => u[n + 1].run = run
      /\ \E first \in {1, 2}, m \in 0..Len(written'[run]) :
            StretchOf(run, first, m)'
    BY <1>2, MoveFile, ZenonT(20)
<1>6. PICK d \in Seq(Record) : /\ log_file' = log_file \o d
                               /\ AllOf(d, run)
                               /\ n = 0 => d = << >>
    BY <1>5
<1>7. last_line' \in Record =>
         \/ last_line' = last_line /\ n = 0
         \/ phase' = "down" /\ last_line'.run = run
    BY <1>3, <1>5, LastRecord
<1>8. ASSUME NEW r \in Run, r # run
      PROVE  \E first \in {1, 2}, m \in 0..Len(written'[r]) :
                StretchOf(r, first, m)'
    <2>1. PICK first \in {1, 2}, m \in 0..Len(written[r]) : StretchOf(r, first, m)
        BY <1>4 DEF FileInv
    <2>2. written'[r] = written[r] /\ flushed'[r] = flushed[r]
        BY <1>1, <1>8 DEF Moves
    <2>3. Stretched(log_file \o d, written[r], r, first, m)
        BY <1>5, <1>6, <1>8, <2>1, OtherRunKept DEF StretchOf
    <2>4. StretchOf(r, first, m)'
        BY <1>1, <1>6, <1>7, <1>8, <2>1, <2>2, <2>3 DEF StretchOf
    <2> QED BY <2>2, <2>4
<1>9. RunsInOrder'
    <2>1. /\ \A i \in DOMAIN log_file : log_file[i].run \in Nat
          /\ last_line \in Record => last_line.run \in Nat
          /\ run \in Nat
        <3>1. \A x \in Record : x.run \in Nat
            BY RecordAssumption, RunAssumption DEF SessionRecord, Run
        <3>2. run \in Nat
            BY <1>1, RunAssumption DEF Run
        <3> QED BY <1>5, <3>1, <3>2
    <2>2. /\ \A i \in DOMAIN log_file : log_file[i].run <= run
          /\ \A i, j \in DOMAIN log_file : i < j => log_file[i].run <= log_file[j].run
        BY <1>5 DEF RunsInOrder
    <2>3. /\ \A i \in DOMAIN (log_file \o d) : (log_file \o d)[i].run <= run
          /\ \A i, j \in DOMAIN (log_file \o d) :
                i < j => (log_file \o d)[i].run <= (log_file \o d)[j].run
        BY <1>5, <1>6, <2>1, <2>2, OrderKept
    <2>4. ASSUME last_line' \in Record
          PROVE  /\ last_line'.run <= run'
                 /\ phase' # "down" => last_line'.run < run'
                 /\ \A i \in DOMAIN log_file' : log_file'[i].run <= last_line'.run
        <3>1. CASE last_line' = last_line /\ n = 0
            <4>1. log_file' = log_file
                BY <1>5, <1>6, <3>1
            <4> QED BY <1>1, <1>5, <2>4, <3>1, <4>1 DEF RunsInOrder
        <3>2. CASE phase' = "down" /\ last_line'.run = run
            BY <1>1, <1>6, <2>1, <2>3, <3>2
        <3> QED BY <1>7, <2>4, <3>1, <3>2
    <2> QED BY <1>1, <1>6, <2>3, <2>4 DEF RunsInOrder
<1> QED BY <1>1, <1>5, <1>8, <1>9

\* Records written to the stream only.
LEMMA LogMoves ==
    ASSUME SessionTypeOK, phase # "down", NEW rs \in Seq(Record), AllOf(rs, run),
           Log(rs)
    PROVE  Moves(rs, 0)
<1>1. unflushed \in Seq(Record)
    BY DEF SessionTypeOK, LogFileTypeOK
<1>2. PICK u \in Seq(Record) : u = unflushed \o rs
    <2>1. unflushed \o rs \in Seq(Record)
        BY <1>1
    <2> QED BY <2>1, Zenon
<1>3. /\ SubSeq(u, 1, 0) = << >>
      /\ SubSeq(u, 0 + 1, Len(u)) = u
      /\ 0 \in 0..Len(u)
    BY SubSeqEmpty, SubSeqFull
<1>4. /\ log_file' = log_file /\ last_line' = last_line
      /\ unflushed' = u
      /\ phase' = phase /\ run' = run /\ flushed' = flushed
      /\ written' = [written EXCEPT ![run] = @ \o rs]
    BY <1>2 DEF Log, appendLog
<1>5. Reaches(u, 0)
    BY <1>3, <1>4 DEF Reaches, Lines, LastLine
<1> QED BY <1>2, <1>4, <1>5 DEF Moves

\* Records written and flushed.
LEMMA FlushMoves ==
    ASSUME SessionTypeOK, phase # "down", NEW rs \in Seq(Record), AllOf(rs, run),
           LogAndFlush(rs), run' = run
    PROVE  \E n : Moves(rs, n)
<1>1. /\ unflushed \in Seq(Record) /\ run \in Run
      /\ written[run] \in Seq(Record) /\ flushed \in [Run -> Nat]
    BY DEF SessionTypeOK, LogFileTypeOK
<1>2. PICK u \in Seq(Record) : u = unflushed \o rs
    <2>1. unflushed \o rs \in Seq(Record)
        BY <1>1
    <2> QED BY <2>1, Zenon
<1>3. /\ SubSeq(u, 1, Len(u)) = u
      /\ SubSeq(u, Len(u) + 1, Len(u)) = << >>
      /\ Len(u) \in 0..Len(u)
    BY SubSeqEmpty, SubSeqFull
<1>4. /\ log_file' = Lines(u) /\ last_line' = LastLine(u)
      /\ unflushed' = << >>
      /\ flushed' = [flushed EXCEPT ![run] = Len(written[run] \o rs)]
      /\ written' = [written EXCEPT ![run] = @ \o rs]
    BY <1>2 DEF LogAndFlush, writeAndFlush
<1>5. Reaches(u, Len(u))
    BY <1>3, <1>4 DEF Reaches
<1>6. PICK k \in Nat : k = Len(written[run] \o rs)
    <2>1. Len(written[run] \o rs) \in Nat
        BY <1>1
    <2> QED BY <2>1, Zenon
<1>7. k <= k - (Len(u) - Len(u))
    OBVIOUS
<1>8. \A r \in Run :
         \/ flushed'[r] = flushed[r]
         \/ /\ r = run
            /\ flushed'[r] <= Len(written[r] \o rs) - (Len(u) - Len(u))
    BY <1>1, <1>4, <1>6, <1>7
<1>9. Moves(rs, Len(u))
    BY <1>2, <1>4, <1>5, <1>8 DEF Moves
<1> QED BY <1>9

\* The program dies.
LEMMA DieMoves ==
    ASSUME SessionTypeOK, Kill
    PROVE  /\ << >> \in Seq(Record)
           /\ \E n : Moves(<< >>, n)
<1>1. /\ unflushed \in Seq(Record) /\ run \in Run /\ unflushed \o << >> = unflushed
      /\ [written EXCEPT ![run] = @ \o << >>] = written
    BY FlushOnly DEF Kill, SessionTypeOK, LogFileTypeOK
<1>2. /\ Die /\ phase # "down" /\ phase' = "down" /\ run' = run
      /\ written' = written /\ flushed' = flushed
    BY DEF Kill, Gone
<1>3. PICK n \in 0..Len(unflushed) :
         /\ log_file' = Lines(SubSeq(unflushed, 1, n))
         /\ \/ last_line' = LastLine(SubSeq(unflushed, 1, n))
            \/ /\ n < Len(unflushed)
               /\ last_line' \in Torn(LastLine(SubSeq(unflushed, 1, n)),
                                      unflushed[n + 1])
    BY <1>2 DEF Die
<1>4. unflushed' = << >>
    BY <1>2 DEF Die
<1>5. Reaches(unflushed, n)
    BY <1>2, <1>3, <1>4 DEF Reaches
<1>6. AllOf(<< >>, run)
    BY DEF AllOf
<1>7. Reaches(unflushed \o << >>, n)
    BY <1>1, <1>5
<1>8. Moves(<< >>, n)
    BY <1>1, <1>2, <1>6, <1>7 DEF Moves
<1> QED BY <1>8

\* RECOVER flushes what was written and writes the records of undo.
LEMMA RecoverMoves ==
    ASSUME SessionTypeOK, Recover
    PROVE  \E rs \in Seq(Record) : \E n : Moves(rs, n)
<1>1. /\ unflushed \in Seq(Record) /\ run \in Run /\ phase # "down"
      /\ written[run] \in Seq(Record) /\ flushed \in [Run -> Nat]
    BY DEF Recover, SessionTypeOK, LogFileTypeOK
<1>2. PICK ids \in SUBSET TxnId :
         ids = Incomplete(readLogs(Lines(unflushed), LastLine(unflushed)))
    BY DEF Incomplete
<1>3. PICK rs \in Seq(Record) : rs = UndoRecords(ids)
    BY <1>1, UndoType
<1>4. AllOf(rs, run)
    <2>1. /\ Len(rs) = Cardinality(ids)
          /\ \A i \in 1..Cardinality(ids) :
                rs[i] = [run |-> run, txn |-> Ascending(ids)[i], type |-> "ABORT"]
        BY <1>1, <1>3, UndoType
    <2>2. \A i \in 1..Len(rs) : rs[i].run = run
        BY <2>1
    <2> QED BY <2>2 DEF AllOf
<1>5. PICK u \in Seq(Record) : u = unflushed \o rs
    <2>1. unflushed \o rs \in Seq(Record)
        BY <1>1
    <2> QED BY <2>1, Zenon
<1>6. /\ log_file' = Lines(unflushed)
      /\ last_line' = LastLine(unflushed)
      /\ unflushed' = rs
      /\ written' = [written EXCEPT ![run] = @ \o rs]
      /\ flushed' = [flushed EXCEPT ![run] = Len(written[run])]
      /\ phase' = "recovering" /\ run' = run
    BY <1>2, <1>3 DEF Recover
<1>7. PICK n \in Nat : n = Len(unflushed)
    BY <1>1
<1>8. /\ Len(u) = n + Len(rs) /\ n \in 0..Len(u)
      /\ \A i \in 1..n : u[i] = unflushed[i]
      /\ \A i \in 1..Len(rs) : u[n + i] = rs[i]
    BY <1>1, <1>5, <1>7
<1>9. SubSeq(u, 1, n) = unflushed
    <2>1. /\ SubSeq(u, 1, n) \in Seq(Record)
          /\ Len(SubSeq(u, 1, n)) = IF 1 <= n THEN n - 1 + 1 ELSE 0
          /\ \A i \in 1..(n - 1 + 1) : SubSeq(u, 1, n)[i] = u[1 + i - 1]
        <3>1. \A i \in 1..n : u[i] \in Record
            BY <1>8
        <3> QED BY <3>1, SubSeqProperties
    <2>2. Len(SubSeq(u, 1, n)) = Len(unflushed)
        BY <1>7, <2>1
    <2>3. \A i \in 1..Len(unflushed) : SubSeq(u, 1, n)[i] = unflushed[i]
        BY <1>7, <1>8, <2>1
    <2> QED BY <1>1, <2>1, <2>2, <2>3, SeqEqual
<1>10. SubSeq(u, n + 1, Len(u)) = rs
    <2>1. /\ SubSeq(u, n + 1, Len(u)) \in Seq(Record)
          /\ Len(SubSeq(u, n + 1, Len(u)))
                = IF n + 1 <= Len(u) THEN Len(u) - (n + 1) + 1 ELSE 0
          /\ \A i \in 1..(Len(u) - (n + 1) + 1) :
                SubSeq(u, n + 1, Len(u))[i] = u[(n + 1) + i - 1]
        <3>1. \A i \in (n + 1)..Len(u) : u[i] \in Record
            OBVIOUS
        <3> QED BY <3>1, SubSeqProperties
    <2>2. Len(SubSeq(u, n + 1, Len(u))) = Len(rs)
        BY <1>8, <2>1
    <2>3. \A i \in 1..Len(rs) : SubSeq(u, n + 1, Len(u))[i] = rs[i]
        BY <1>8, <2>1
    <2> QED BY <2>1, <2>2, <2>3, SeqEqual
<1>11. Reaches(u, n)
    BY <1>6, <1>8, <1>9, <1>10 DEF Reaches
<1>12. \A r \in Run :
          \/ flushed'[r] = flushed[r]
          \/ /\ r = run
             /\ flushed'[r] <= Len(written[r] \o rs) - (Len(u) - n)
    <2>1. Len(written[run]) <= Len(written[run] \o rs) - (Len(u) - n)
        BY <1>1, <1>8
    <2> QED BY <1>1, <1>6, <2>1
<1>13. Moves(rs, n)
    BY <1>1, <1>4, <1>5, <1>6, <1>11, <1>12 DEF Moves
<1> QED BY <1>13

\* Every step of a session but Start is a move of the log.
LEMMA StepMoves ==
    ASSUME SessionTypeOK, SessionNext, ~ Start
    PROVE  \E rs \in Seq(Record) : \E n : Moves(rs, n)
<1>1. CASE Checkpoint
    <2>1. run \in Run /\ phase # "down" /\ run' = run /\ 0 \in TxnId \cup {0}
          /\ "CHECKPOINT" \in LogType
        BY <1>1 DEF Checkpoint, MayLog, SessionTypeOK, LogType
    <2>2. Rec(0, "CHECKPOINT") \in Seq(Record)
        BY <2>1, RecType
    <2>3. AllOf(Rec(0, "CHECKPOINT"), run)
        BY DEF AllOf, Rec
    <2> QED BY <1>1, <2>1, <2>2, <2>3, FlushMoves DEF Checkpoint
<1>2. CASE Exit \/ RecoverDies \/ UndoFlush
    <2>1. phase # "down" /\ run' = run /\ LogAndFlush(<< >>)
        BY <1>2 DEF Exit, RecoverDies, UndoFlush, Gone
    <2>2. << >> \in Seq(Record) /\ AllOf(<< >>, run)
        BY DEF AllOf
    <2> QED BY <2>1, <2>2, FlushMoves
<1>3. CASE Kill
    BY <1>3, DieMoves
<1>4. CASE Recover
    BY <1>4, RecoverMoves
<1>5. ASSUME NEW t \in TxnId, Begin(t) \/ Write(t) \/ Commit(t) \/ Abort(t)
      PROVE  \E rs \in Seq(Record) : \E n : Moves(rs, n)
    <2>1. run \in Run /\ phase # "down"
        BY <1>5 DEF Begin, Write, Commit, Abort, MayLog, SessionTypeOK
    <2>2. PICK type \in LogType : Log(Rec(t, type))
        BY <1>5 DEF Begin, Write, Commit, Abort, LogType
    <2>3. Rec(t, type) \in Seq(Record)
        BY <2>1, RecType
    <2>4. AllOf(Rec(t, type), run)
        BY DEF AllOf, Rec
    <2> QED BY <2>1, <2>2, <2>3, <2>4, LogMoves
<1> QED BY <1>1, <1>2, <1>3, <1>4, <1>5 DEF SessionNext

\* A new run of the program begins with an empty stream.
LEMMA StartInv ==
    ASSUME SessionTypeOK, RunsKnown, FileInv, Start
    PROVE  RunsKnown' /\ FileInv'
<1>1. /\ log_file' = log_file /\ last_line' = last_line
      /\ unflushed' = unflushed /\ written' = written /\ flushed' = flushed
      /\ run' = run + 1 /\ run' \in Run /\ run \in Nat
      /\ phase = "down" /\ phase' = "idle"
      /\ unflushed = << >>
      /\ run + 1 \in Run /\ Run \subseteq Nat
    BY RunAssumption DEF Start, logVars, RunsKnown, SessionTypeOK, Run
<1>2. RunsKnown'
    BY <1>1 DEF RunsKnown
<1>3. ASSUME CanRead(log_file, last_line)
      PROVE  /\ RunsInOrder'
             /\ \A r \in Run : \E first \in {1, 2}, m \in 0..Len(written'[r]) :
                   StretchOf(r, first, m)'
    <2>1. RunsInOrder
        BY <1>3 DEF FileInv
    <2>2. log_file \in Seq(Record) /\ \A x \in Record : x.run \in Nat
        <3>1. log_file \in Seq(Record)
            BY <1>3, ReadType DEF SessionTypeOK, LogFileTypeOK
        <3>2. \A x \in Record : x.run \in Nat
            BY <1>1, RecordAssumption DEF SessionRecord
        <3> QED BY <3>1, <3>2
    <2>3. RunsInOrder'
        BY <1>1, <2>1, <2>2 DEF RunsInOrder
    <2>4. ASSUME NEW r \in Run
          PROVE  \E first \in {1, 2}, m \in 0..Len(written'[r]) :
                    StretchOf(r, first, m)'
        <3>1. PICK first \in {1, 2}, m \in 0..Len(written[r]) : StretchOf(r, first, m)
            BY <1>3 DEF FileInv
        <3>2. CASE r # run + 1
            <4>1. StretchOf(r, first, m)'
                BY <1>1, <3>1, <3>2 DEF StretchOf
            <4> QED BY <1>1, <4>1
        <3>3. CASE r = run + 1
            <4>1. written[r] = << >>
                BY <1>1, <3>3 DEF RunsKnown
            <4>2. m = 0 /\ SubSeq(written[r], m + 1, Len(written[r])) = << >>
                BY <4>1
            <4>3. StretchOf(r, first, m)'
                BY <1>1, <3>1, <4>2 DEF StretchOf
            <4> QED BY <1>1, <4>3
        <3> QED BY <3>2, <3>3
    <2> QED BY <2>3, <2>4
<1>4. FileInv'
    BY <1>1, <1>3 DEF FileInv
<1> QED BY <1>2, <1>4

\* Before the first run there is nothing.
LEMMA SessionInitInv ==
    ASSUME SessionInit
    PROVE  RunsKnown /\ FileInv
<1>1. /\ log_file = << >> /\ last_line = NoLine /\ unflushed = << >>
      /\ phase = "down" /\ run = 0
      /\ \A r \in Run : written[r] = << >> /\ flushed[r] = 0
    BY DEF SessionInit, LogInit
<1>2. NoLine \notin Record
    BY CutAssumption
<1>3. RunsKnown
    BY <1>1 DEF RunsKnown, AllOf
<1>4. RunsInOrder
    BY <1>1, <1>2 DEF RunsInOrder
<1>5. ASSUME NEW r \in Run PROVE StretchOf(r, 1, 0)
    <2>1. OfRun(<< >>, r) = << >>
        <3>1. AllOf(<< >>, r) /\ << >> \in Seq(Record)
            BY DEF AllOf
        <3> QED BY <3>1, OfRunAll
    <2>2. SubSeq(written[r], 1, 0) = << >>
        BY SubSeqEmpty
    <2>3. /\ written[r] = << >> /\ flushed[r] = 0 /\ Len(written[r]) = 0
          /\ Len(<< >>) = 0
        BY <1>1
    <2>4. Stretched(log_file, written[r], r, 1, 0)
        <3>1. OfRun(log_file, r) = SubSeq(written[r], 1, 0)
            BY <1>1, <2>1, <2>2, Zenon
        <3>2. 1 \in {1, 2} /\ 0 \in 0..Len(written[r]) /\ 1 <= 0 + 1
            BY <2>3
        <3> QED BY <3>1, <3>2, Zenon DEF Stretched
    <2>5. flushed[r] <= 0 /\ last_line \notin Record /\ phase = "down"
        BY <1>1, <1>2, <2>3
    <2> QED BY <2>4, <2>5, Zenon DEF StretchOf
<1>6. \A r \in Run : 0 \in 0..Len(written[r])
    BY <1>1
<1> QED BY <1>3, <1>4, <1>5, <1>6 DEF FileInv

\* What is read is what the invariant says of it.
LEMMA ReadStretches ==
    ASSUME SessionTypeOK, RunsKnown, FileInv
    PROVE  LogIsStretches
<1> SUFFICES ASSUME CanRead(log_file, last_line)
             PROVE  /\ \A i, j \in DOMAIN ReadNow :
                          i < j => ReadNow[i].run <= ReadNow[j].run
                    /\ \A r \in Run : \E first \in {1, 2}, last \in 0..Len(written[r]) :
                          /\ r = 1 => first = 1
                          /\ flushed[r] <= last
                          /\ OfRun(ReadNow, r) = SubSeq(written[r], first, last)
    BY DEF LogIsStretches
<1>1. /\ log_file \in Seq(Record)
      /\ RunsInOrder
      /\ \A r \in Run : written[r] \in Seq(Record) /\ flushed[r] \in Nat
    BY ReadType DEF FileInv, SessionTypeOK, LogFileTypeOK
<1>2. ASSUME NEW r \in Run
      PROVE  \E first \in {1, 2}, m \in 0..Len(written[r]) : StretchOf(r, first, m)
    BY DEF FileInv
<1>3. CASE last_line \notin Record
    <2>1. ReadNow = log_file
        BY <1>3 DEF ReadNow, readLogs
    <2> QED BY <1>1, <1>2, <2>1 DEF RunsInOrder, StretchOf, Stretched
<1>4. CASE last_line \in Record
    <2>1. PICK e \in Record : e = last_line
        BY <1>4
    <2>2. PICK d \in Seq(Record) : d = <<e>>
        <3>1. <<e>> \in Seq(Record)
            OBVIOUS
        <3> QED BY <3>1, Zenon
    <2>3. ReadNow = log_file \o d
        BY <1>1, <1>4, <2>1, <2>2 DEF ReadNow, readLogs
    <2>4. AllOf(d, e.run)
        BY <2>2 DEF AllOf
    <2>5. /\ \A x \in Record : x.run \in Nat /\ x.run \in Run
          /\ \A i \in DOMAIN log_file : log_file[i].run <= e.run
          /\ \A i, j \in DOMAIN log_file : i < j => log_file[i].run <= log_file[j].run
        <3>1. \A x \in Record : x.run \in Nat /\ x.run \in Run
            BY RecordAssumption, RunAssumption DEF SessionRecord, Run
        <3> QED BY <1>1, <2>1, <3>1 DEF RunsInOrder
    <2>6. \A i, j \in DOMAIN (log_file \o d) :
             i < j => (log_file \o d)[i].run <= (log_file \o d)[j].run
        <3>1. \A i \in DOMAIN log_file : log_file[i].run \in Nat
            BY <1>1, <2>5
        <3> QED BY <1>1, <2>4, <2>5, <3>1, OrderKept
    <2>7. ASSUME NEW r \in Run
          PROVE  \E first \in {1, 2}, last \in 0..Len(written[r]) :
                    /\ r = 1 => first = 1
                    /\ flushed[r] <= last
                    /\ OfRun(log_file \o d, r) = SubSeq(written[r], first, last)
        <3>1. PICK first \in {1, 2}, m \in 0..Len(written[r]) : StretchOf(r, first, m)
            BY <1>2
        <3>2. /\ r = 1 => first = 1
              /\ flushed[r] <= m
              /\ first <= m + 1
              /\ OfRun(log_file, r) = SubSeq(written[r], first, m)
            BY <3>1 DEF StretchOf, Stretched
        <3>3. CASE r # e.run
            <4>1. OfRun(log_file \o d, r) = OfRun(log_file, r)
                BY <1>1, <2>4, <3>3, OfRunGrows
            <4> QED BY <3>2, <4>1
        <3>4. CASE r = e.run
            <4>1. m < Len(written[r]) /\ written[r][m + 1] = e
                BY <2>1, <3>1, <3>4 DEF StretchOf
            <4>2. PICK w \in Seq(Record) : w = written[r]
                BY <1>1, Zenon
            <4>3. /\ first \in 1..(m + 1) /\ m + 1 \in 1..Len(w)
                  /\ (m + 1) - 1 = m
                BY <1>1, <3>2, <4>1, <4>2
            <4>4. SubSeq(w, first, m + 1) = SubSeq(w, first, m) \o d
                <5>1. /\ first \in 1..Len(w) /\ m + 1 \in first..Len(w)
                    BY <4>3
                <5>2. SubSeq(w, first, m + 1)
                         = SubSeq(w, first, (m + 1) - 1) \o <<w[m + 1]>>
                    BY <5>1, SubSeqRecursiveSecond
                <5> QED BY <2>2, <4>1, <4>2, <4>3, <5>2
            <4>5. OfRun(log_file \o d, r) = OfRun(log_file, r) \o d
                BY <1>1, <2>4, <3>4, OfRunGrows
            <4>6. OfRun(log_file \o d, r) = SubSeq(written[r], first, m + 1)
                BY <3>2, <4>2, <4>4, <4>5
            <4>7. m + 1 \in 0..Len(written[r]) /\ flushed[r] <= m + 1
                BY <1>1, <3>2, <4>2, <4>3
            <4> QED BY <3>2, <4>6, <4>7
        <3> QED BY <3>3, <3>4
    <2> QED BY <2>3, <2>6, <2>7
<1> QED BY <1>3, <1>4

\* The invariants of a session together.
SessionInv == SessionTypeOK /\ RunsKnown /\ FileInv

LEMMA SessionInvStep ==
    ASSUME SessionInv, [SessionNext]_vars
    PROVE  SessionInv'
<1>1. CASE Start
    BY <1>1, SessionStepType, StartInv DEF SessionInv, SessionNext
<1>2. CASE SessionNext /\ ~ Start
    <2>1. PICK rs \in Seq(Record) : \E n : Moves(rs, n)
        BY <1>2, StepMoves DEF SessionInv
    <2>2. PICK n : Moves(rs, n)
        BY <2>1
    <2> QED BY <1>2, <2>2, SessionStepType, MoveKnown, MoveInv DEF SessionInv
<1>3. CASE UNCHANGED vars
    <2>1. SessionTypeOK'
        BY <1>3 DEF vars, txnVars, logVars, recoveryVars, SessionInv, SessionTypeOK,
                    TxnTypeOK, LogFileTypeOK
    <2>2. RunsKnown' /\ FileInv'
        BY <1>3 DEF vars, logVars, SessionInv, RunsKnown, FileInv, RunsInOrder,
                    StretchOf
    <2> QED BY <2>1, <2>2 DEF SessionInv
<1> QED BY <1>1, <1>2, <1>3

LEMMA SessionInvariant == SessionSpec => []SessionInv
<1>1. SessionInit => SessionInv
    BY SessionInitInv, SessionTypeInit DEF SessionInv
<1> QED BY <1>1, SessionInvStep, PTL DEF SessionSpec

\* Whatever records the runs of the program write, whenever they flush, and at
\* whatever byte they are killed: what readLogs returns is, of each run, an
\* unbroken stretch of what it wrote, from its first record (its second, if an
\* earlier run may have left a cut line) to its last flush at least, and the runs
\* follow one another (LogManager.cpp appends to the file; LogRecord::fromString
\* skips or overwrites what was cut).
THEOREM StretchesRead == SessionSpec => []LogIsStretches
<1>1. SessionInv => LogIsStretches
    BY ReadStretches DEF SessionInv
<1> QED BY <1>1, SessionInvariant, PTL

-----------------------------------------------------------------------------
(***************************************************************************)
(* Durability.  A flush covers a transaction's updates with its COMMIT,    *)
(* because none of them comes later.                                       *)
(***************************************************************************)

\* A run's records: none of a transaction's updates follows its COMMIT, and the
\* first record is neither (its transaction would never have begun).
Clean(w) ==
    /\ w # << >> => w[1].type \notin {"UPDATE", "COMMIT"}
    /\ \A i, j \in DOMAIN w :
          i < j /\ w[i].type = "COMMIT" /\ w[j].type = "UPDATE" =>
              w[i].txn # w[j].txn

\* The transaction manager knows of every COMMIT of the current run, and of no
\* active transaction before the run's first record.
CommandsInOrder ==
    /\ TxnInv
    /\ \A r \in Run : Clean(written[r])
    /\ phase = "down" => active_transactions = {}
    /\ phase # "down" =>
          /\ \A t \in TxnId : CommittedIn(run, t, Len(written[run])) =>
                                  txn_state[t] = "COMMITTED"
          /\ written[run] = << >> => active_transactions = {}

\* Records rs that may follow the records w of a run.
Follows(w, rs) ==
    /\ w = << >> => \A j \in DOMAIN rs : rs[j].type \notin {"UPDATE", "COMMIT"}
    /\ \A j \in DOMAIN rs : rs[j].type = "UPDATE" =>
          /\ j = 1
          /\ \A i \in DOMAIN w : w[i].type = "COMMIT" => w[i].txn # rs[j].txn

LEMMA CleanGrows ==
    ASSUME NEW w \in Seq(Record), NEW rs \in Seq(Record), Clean(w), Follows(w, rs)
    PROVE  Clean(w \o rs)
<1>1. /\ DOMAIN w = 1..Len(w) /\ Len(w) \in Nat
      /\ DOMAIN rs = 1..Len(rs) /\ Len(rs) \in Nat
      /\ DOMAIN (w \o rs) = 1..(Len(w) + Len(rs))
      /\ \A i \in 1..Len(w) : (w \o rs)[i] = w[i]
      /\ \A j \in 1..Len(rs) : (w \o rs)[Len(w) + j] = rs[j]
    OBVIOUS
<1>2. ASSUME w \o rs # << >>
      PROVE  (w \o rs)[1].type \notin {"UPDATE", "COMMIT"}
    <2>1. CASE w = << >>
        <3>1. w \o rs = rs /\ 1 \in DOMAIN rs
            BY <1>2, <2>1
        <3> QED BY <2>1, <3>1 DEF Follows
    <2>2. CASE w # << >>
        <3>1. 1 \in 1..Len(w)
            BY <2>2
        <3> QED BY <1>1, <2>2, <3>1 DEF Clean
    <2> QED BY <2>1, <2>2
<1>3. ASSUME NEW i \in DOMAIN (w \o rs), NEW j \in DOMAIN (w \o rs), i < j,
             (w \o rs)[i].type = "COMMIT", (w \o rs)[j].type = "UPDATE"
      PROVE  (w \o rs)[i].txn # (w \o rs)[j].txn
    <2>1. i \in 1..(Len(w) + Len(rs)) /\ j \in 1..(Len(w) + Len(rs))
        BY <1>1
    <2>2. CASE j <= Len(w)
        <3>1. i \in DOMAIN w /\ j \in DOMAIN w
            BY <1>1, <1>3, <2>1, <2>2
        <3>2. (w \o rs)[i] = w[i] /\ (w \o rs)[j] = w[j]
            BY <1>1, <3>1
        <3> QED BY <1>3, <3>1, <3>2 DEF Clean
    <2>3. CASE j > Len(w)
        <3>1. PICK k \in DOMAIN rs : j = Len(w) + k
            <4>1. j - Len(w) \in DOMAIN rs /\ j = Len(w) + (j - Len(w))
                BY <1>1, <2>1, <2>3
            <4> QED BY <4>1
        <3>2. (w \o rs)[j] = rs[k]
            BY <1>1, <3>1
        <3>3. k = 1 /\ \A n \in DOMAIN w : w[n].type = "COMMIT" => w[n].txn # rs[k].txn
            BY <1>3, <3>2 DEF Follows
        <3>4. i \in DOMAIN w
            BY <1>1, <1>3, <2>1, <3>1, <3>3
        <3>5. (w \o rs)[i] = w[i]
            BY <1>1, <3>4
        <3> QED BY <1>3, <3>2, <3>3, <3>4, <3>5
    <2> QED BY <1>1, <2>1, <2>2, <2>3
<1> QED BY <1>2, <1>3 DEF Clean

\* What a step that writes rs needs.
LEMMA CommandsKept ==
    ASSUME SessionTypeOK, CommandsInOrder, run \in Run, phase # "down",
           NEW rs \in Seq(Record),
           written' = [written EXCEPT ![run] = @ \o rs],
           run' = run,
           TxnInv',
           Follows(written[run], rs),
           phase' = "down" => active_transactions' = {},
           phase' # "down" =>
               /\ \A t \in TxnId : txn_state[t] = "COMMITTED" =>
                                       txn_state'[t] = "COMMITTED"
               /\ \A j \in DOMAIN rs : rs[j].type = "COMMIT" =>
                                           txn_state'[rs[j].txn] = "COMMITTED"
               /\ rs = << >> => active_transactions' \subseteq active_transactions
    PROVE  CommandsInOrder'
<1>1. PICK w \in Seq(Record) : w = written[run]
    BY DEF SessionTypeOK
<1>2. /\ written'[run] = w \o rs
      /\ \A r \in Run : r # run => written'[r] = written[r]
    BY <1>1 DEF SessionTypeOK
<1>3. \A r \in Run : Clean(written'[r])
    <2>1. Clean(w \o rs)
        BY <1>1, CleanGrows DEF CommandsInOrder
    <2> QED BY <1>2, <2>1 DEF CommandsInOrder
<1>4. ASSUME phase' # "down", NEW t \in TxnId, NEW i \in 1..Len(w \o rs),
             (w \o rs)[i].txn = t, (w \o rs)[i].type = "COMMIT"
      PROVE  txn_state'[t] = "COMMITTED"
    <2>1. /\ Len(w) \in Nat /\ Len(rs) \in Nat
          /\ DOMAIN rs = 1..Len(rs)
          /\ Len(w \o rs) = Len(w) + Len(rs)
          /\ \A k \in 1..Len(w) : (w \o rs)[k] = w[k]
          /\ \A k \in 1..Len(rs) : (w \o rs)[Len(w) + k] = rs[k]
        OBVIOUS
    <2>2. CASE i <= Len(w)
        <3>1. i \in 1..Len(w) /\ w[i].txn = t /\ w[i].type = "COMMIT"
            BY <1>4, <2>1, <2>2
        <3>2. CommittedIn(run, t, Len(written[run]))
            BY <1>1, <3>1 DEF CommittedIn
        <3> QED BY <1>4, <3>2 DEF CommandsInOrder
    <2>3. CASE i > Len(w)
        <3>1. i - Len(w) \in DOMAIN rs /\ i = Len(w) + (i - Len(w))
            BY <2>1, <2>3
        <3>2. rs[i - Len(w)].txn = t /\ rs[i - Len(w)].type = "COMMIT"
            BY <1>4, <2>1, <3>1
        <3> QED BY <1>4, <3>1, <3>2
    <2> QED BY <2>1, <2>2, <2>3
<1>5. ASSUME phase' # "down", w \o rs = << >> PROVE active_transactions' = {}
    <2>1. w = << >> /\ rs = << >>
        BY <1>5
    <2>2. active_transactions = {}
        BY <1>1, <2>1 DEF CommandsInOrder
    <2> QED BY <1>5, <2>1, <2>2
<1>6. ASSUME phase' # "down", NEW t \in TxnId,
             CommittedIn(run, t, Len(written[run]))'
      PROVE  txn_state'[t] = "COMMITTED"
    <2>1. PICK i \in 1..Len(w \o rs) :
             (w \o rs)[i].txn = t /\ (w \o rs)[i].type = "COMMIT"
        BY <1>2, <1>6 DEF CommittedIn
    <2> QED BY <1>4, <1>6, <2>1
<1> QED BY <1>2, <1>3, <1>5, <1>6 DEF CommandsInOrder

\* The objects of a new run.
LEMMA GoneFresh ==
    ASSUME Gone
    PROVE  TxnInv' /\ active_transactions' = {} /\ phase' = "down" /\ run' = run
<1>1. TxnInit' => TxnInv'
    BY TxnInitInv, PTL
<1>2. TxnInit'
    BY DEF Gone, TxnInit
<1> QED BY <1>1, <1>2 DEF Gone

\* A step of the transaction manager changes no COMMITTED transaction.
LEMMA CommittedStays ==
    ASSUME TxnInv, [TxnNext]_txnVars
    PROVE  /\ TxnInv'
           /\ \A t \in TxnId : txn_state[t] = "COMMITTED" => txn_state'[t] = "COMMITTED"
<1>1. TxnInv'
    BY TxnNextInv
<1>2. [LifecycleStep]_txnVars
    BY TxnForward
<1>3. CASE LifecycleStep
    BY <1>1, <1>3 DEF LifecycleStep
<1>4. CASE UNCHANGED txnVars
    BY <1>1, <1>4 DEF txnVars
<1> QED BY <1>2, <1>3, <1>4

\* A command that writes one record; an update is of an active transaction.
LEMMA CommandKept ==
    ASSUME SessionTypeOK, CommandsInOrder, run \in Run, phase # "down",
           NEW t \in TxnId \cup {0}, NEW type \in LogType,
           [TxnNext]_txnVars,
           type \in {"UPDATE", "COMMIT"} => t \in active_transactions,
           type = "COMMIT" => txn_state'[t] = "COMMITTED",
           written' = [written EXCEPT ![run] = @ \o Rec(t, type)],
           run' = run, phase' = phase
    PROVE  CommandsInOrder'
<1>1. PICK rs \in Seq(Record) : rs = Rec(t, type)
    BY RecType, Zenon
<1>2. DOMAIN rs = {1} /\ rs[1].txn = t /\ rs[1].type = type
    BY <1>1 DEF Rec
<1>3. rs # << >>
    BY <1>1 DEF Rec
<1>4. /\ TxnInv'
      /\ \A x \in TxnId : txn_state[x] = "COMMITTED" => txn_state'[x] = "COMMITTED"
    BY CommittedStays DEF CommandsInOrder
<1>5. Follows(written[run], rs)
    <2>1. ASSUME type \in {"UPDATE", "COMMIT"} PROVE written[run] # << >>
        BY <2>1 DEF CommandsInOrder
    <2>2. ASSUME type = "UPDATE", NEW i \in DOMAIN written[run],
                 written[run][i].type = "COMMIT", written[run][i].txn = t
          PROVE  FALSE
        <3>1. t \in TxnId /\ txn_state[t] = "ACTIVE"
            BY <2>2 DEF CommandsInOrder, TxnInv, StatisticsAgree
        <3>2. i \in 1..Len(written[run])
            BY <2>2 DEF SessionTypeOK
        <3>3. CommittedIn(run, t, Len(written[run]))
            BY <2>2, <3>2 DEF CommittedIn
        <3> QED BY <3>1, <3>3 DEF CommandsInOrder
    <2> QED BY <1>2, <2>1, <2>2 DEF Follows
<1>6. written' = [written EXCEPT ![run] = @ \o rs]
    BY <1>1, Zenon
<1> QED BY <1>2, <1>3, <1>4, <1>5, <1>6, CommandsKept

LEMMA CommandsOfTxn ==
    ASSUME SessionTypeOK, CommandsInOrder,
           NEW t \in TxnId, Begin(t) \/ Write(t) \/ Commit(t) \/ Abort(t)
    PROVE  CommandsInOrder'
<1>1. run \in Run /\ phase # "down"
    BY DEF Begin, Write, Commit, Abort, MayLog, SessionTypeOK
<1>2. CASE Begin(t)
    <2>1. TxnNext
        BY <1>2 DEF Begin, TxnNext
    <2>2. /\ written' = [written EXCEPT ![run] = @ \o Rec(t, "BEGIN")]
          /\ run' = run /\ phase' = phase
        BY <1>2 DEF Begin, Log
    <2>3. "BEGIN" \in LogType \ {"UPDATE", "COMMIT"}
        BY DEF LogType
    <2> QED BY <1>1, <2>1, <2>2, <2>3, CommandKept
<1>3. CASE Write(t)
    <2>1. /\ written' = [written EXCEPT ![run] = @ \o Rec(t, "UPDATE")]
          /\ run' = run /\ phase' = phase
          /\ t \in active_transactions
          /\ UNCHANGED txnVars
        BY <1>3 DEF Write, Log, isTransactionActive
    <2>2. "UPDATE" \in LogType \ {"COMMIT"}
        BY DEF LogType
    <2> QED BY <1>1, <2>1, <2>2, CommandKept
<1>4. CASE Commit(t)
    <2>1. TxnNext /\ t \in active_transactions
        BY <1>4 DEF Commit, TxnNext, commitTransaction
    <2>2. /\ written' = [written EXCEPT ![run] = @ \o Rec(t, "COMMIT")]
          /\ run' = run /\ phase' = phase
        BY <1>4 DEF Commit, Log
    <2>3. txn_state'[t] = "COMMITTED"
        BY <1>4 DEF Commit, commitTransaction, Finish
    <2>4. "COMMIT" \in LogType
        BY DEF LogType
    <2> QED BY <1>1, <2>1, <2>2, <2>3, <2>4, CommandKept
<1>5. CASE Abort(t)
    <2>1. TxnNext
        BY <1>5 DEF Abort, TxnNext
    <2>2. /\ written' = [written EXCEPT ![run] = @ \o Rec(t, "ABORT")]
          /\ run' = run /\ phase' = phase
        BY <1>5 DEF Abort, Log
    <2>3. "ABORT" \in LogType \ {"UPDATE", "COMMIT"}
        BY DEF LogType
    <2> QED BY <1>1, <2>1, <2>2, <2>3, CommandKept
<1> QED BY <1>2, <1>3, <1>4, <1>5

\* A step that writes nothing.
LEMMA NothingWritten ==
    ASSUME SessionTypeOK, CommandsInOrder, run \in Run, phase # "down",
           written' = written, run' = run, TxnInv',
           \/ phase' = "down" /\ active_transactions' = {}
           \/ /\ phase' # "down"
              /\ active_transactions' = active_transactions
              /\ txn_state' = txn_state
    PROVE  CommandsInOrder'
    BY DEF CommandsInOrder, CommittedIn

\* RECOVER aborts what is active and writes ABORT records only.
LEMMA RecoverKept ==
    ASSUME SessionTypeOK, CommandsInOrder, Recover
    PROVE  CommandsInOrder'
<1>1. run \in Run /\ phase # "down" /\ run' = run /\ phase' # "down"
    BY DEF Recover, SessionTypeOK
<1>2. PICK ids \in SUBSET TxnId :
         ids = Incomplete(readLogs(Lines(unflushed), LastLine(unflushed)))
    BY DEF Incomplete
<1>3. PICK rs \in Seq(Record) : rs = UndoRecords(ids)
    BY <1>1, UndoType
<1>4. \A j \in DOMAIN rs : rs[j].type = "ABORT"
    <2>1. /\ Len(rs) = Cardinality(ids)
          /\ \A i \in 1..Cardinality(ids) :
                rs[i] = [run |-> run, txn |-> Ascending(ids)[i], type |-> "ABORT"]
        BY <1>1, <1>3, UndoType
    <2>2. \A i \in 1..Len(rs) : rs[i].type = "ABORT"
        BY <2>1
    <2> QED BY <2>2
<1>5. written' = [written EXCEPT ![run] = @ \o rs]
    BY <1>2, <1>3 DEF Recover
<1>6. abortAllTransactions
    BY DEF Recover
<1>7. TxnNext
    BY <1>6 DEF TxnNext
<1>8. /\ TxnInv'
      /\ \A t \in TxnId : txn_state[t] = "COMMITTED" => txn_state'[t] = "COMMITTED"
    BY <1>7, CommittedStays DEF CommandsInOrder
<1>9. active_transactions' \subseteq active_transactions
    BY <1>6 DEF abortAllTransactions, Finish
<1>10. Follows(written[run], rs)
    BY <1>4 DEF Follows
<1> QED BY <1>1, <1>4, <1>5, <1>8, <1>9, <1>10, CommandsKept

LEMMA CommandsStep ==
    ASSUME SessionTypeOK, RunsKnown, CommandsInOrder, [SessionNext]_vars
    PROVE  CommandsInOrder'
<1>1. CASE Start
    <2>1. /\ phase = "down" /\ phase' = "idle" /\ run' = run + 1
          /\ written' = written
          /\ UNCHANGED txnVars
        BY <1>1 DEF Start
    <2>2. active_transactions' = {} /\ txn_state' = txn_state
        BY <2>1 DEF txnVars, CommandsInOrder
    <2>3. TxnInv'
        BY <2>1, CommittedStays DEF CommandsInOrder
    <2>4. written'[run'] = << >>
        <3>1. run \in 0..MaxRun /\ run < MaxRun
            BY <1>1 DEF Start, SessionTypeOK
        <3>2. run + 1 \in Run /\ run + 1 > run
            BY <3>1, RunAssumption DEF Run
        <3> QED BY <2>1, <3>2 DEF RunsKnown
    <2>5. Len(written'[run']) = 0
        BY <2>4
    <2>6. \A t \in TxnId : ~ CommittedIn(run, t, Len(written[run]))'
        BY <2>5 DEF CommittedIn
    <2> QED BY <2>1, <2>2, <2>3, <2>6 DEF CommandsInOrder
<1>2. CASE Checkpoint
    <2>1. /\ written' = [written EXCEPT ![run] = @ \o Rec(0, "CHECKPOINT")]
          /\ run' = run /\ phase' = phase
          /\ UNCHANGED txnVars
        BY <1>2 DEF Checkpoint, LogAndFlush
    <2>2. run \in Run /\ phase # "down" /\ 0 \in TxnId \cup {0}
        BY <1>2 DEF Checkpoint, MayLog, SessionTypeOK
    <2>3. "CHECKPOINT" \in LogType \ {"UPDATE", "COMMIT"}
        BY DEF LogType
    <2> QED BY <2>1, <2>2, <2>3, CommandKept
<1>3. CASE Exit \/ RecoverDies \/ Kill
    <2>1. run \in Run /\ phase # "down" /\ Gone
        BY <1>3 DEF Exit, RecoverDies, Kill, SessionTypeOK
    <2>2. written' = written
        BY <1>3, <2>1, FlushOnly DEF Exit, RecoverDies, Kill, LogAndFlush
    <2> QED BY <2>1, <2>2, GoneFresh, NothingWritten
<1>4. CASE Recover
    BY <1>4, RecoverKept
<1>5. CASE UndoFlush
    <2>1. run \in Run /\ phase # "down" /\ run' = run /\ phase' # "down"
          /\ UNCHANGED txnVars
        BY <1>5 DEF UndoFlush, SessionTypeOK
    <2>2. written' = written
        BY <1>5, <2>1, FlushOnly DEF UndoFlush, LogAndFlush
    <2>3. active_transactions' = active_transactions /\ txn_state' = txn_state
        BY <2>1 DEF txnVars
    <2>4. TxnInv'
        BY <2>1, CommittedStays DEF CommandsInOrder
    <2> QED BY <2>1, <2>2, <2>3, <2>4, NothingWritten
<1>6. ASSUME NEW t \in TxnId, Begin(t) \/ Write(t) \/ Commit(t) \/ Abort(t)
      PROVE  CommandsInOrder'
    BY <1>6, CommandsOfTxn
<1>7. CASE UNCHANGED vars
    <2>1. UNCHANGED txnVars /\ phase' = phase /\ run' = run /\ written' = written
        BY <1>7 DEF vars
    <2>2. active_transactions' = active_transactions /\ txn_state' = txn_state
        BY <2>1 DEF txnVars
    <2>3. TxnInv'
        BY <2>1, CommittedStays DEF CommandsInOrder
    <2> QED BY <2>1, <2>2, <2>3 DEF CommandsInOrder, CommittedIn
<1> QED BY <1>1, <1>2, <1>3, <1>4, <1>5, <1>6, <1>7 DEF SessionNext

LEMMA CommandsInit == SessionInit => CommandsInOrder
<1> SUFFICES ASSUME SessionInit PROVE CommandsInOrder
    OBVIOUS
<1>1. TxnInv /\ active_transactions = {} /\ phase = "down"
    BY TxnInitInv DEF SessionInit, TxnInit
<1>2. \A r \in Run : written[r] = << >>
    BY DEF SessionInit
<1>3. Clean(<< >>)
    BY DEF Clean
<1> QED BY <1>1, <1>2, <1>3 DEF CommandsInOrder

\* Between undo's records and their flush, the lists of the recovery manager
\* are those of the file, and the stream has undo's records only.
UndoPending ==
    phase = "recovering" =>
        /\ CanRead(log_file, last_line)
        /\ redo_records = Redo(ReadNow)
        /\ incomplete_txns = Incomplete(ReadNow)
        /\ unflushed = UndoRecords(incomplete_txns)

LEMMA UndoPendingStep ==
    ASSUME UndoPending, [SessionNext]_vars
    PROVE  UndoPending'
<1>1. CASE Recover
    <2>1. /\ CanRead(log_file, last_line)'
          /\ redo_records' = Redo(ReadNow')
          /\ incomplete_txns' = Incomplete(ReadNow')
          /\ unflushed' = UndoRecords(incomplete_txns')
          /\ run' = run
        BY <1>1 DEF Recover, ReadNow
    <2> QED BY <2>1 DEF UndoPending, UndoRecords
<1>2. CASE SessionNext /\ ~ Recover
    <2>1. phase' # "recovering"
        BY <1>2 DEF SessionNext, Start, Checkpoint, Exit, UndoFlush, RecoverDies, Kill,
                    Begin, Write, Commit, Abort, MayLog, Log, Gone
    <2> QED BY <2>1 DEF UndoPending
<1>3. CASE UNCHANGED vars
    BY <1>3 DEF vars, logVars, recoveryVars, UndoPending, ReadNow, UndoRecords
<1> QED BY <1>1, <1>2, <1>3

\* What is read shows of run r the records first to last of w.
Shows(logs, r, w, first, last) ==
    /\ first \in {1, 2}
    /\ last \in 0..Len(w)
    /\ OfRun(logs, r) = SubSeq(w, first, last)

\* Their elements are the same.
LEMMA StretchElements ==
    ASSUME NEW logs \in Seq(Record), NEW w \in Seq(Record), NEW r,
           NEW first, NEW last, Shows(logs, r, w, first, last)
    PROVE  /\ \A i \in first..last :
                 \E k \in DOMAIN logs : logs[k].run = r /\ logs[k] = w[i]
           /\ \A k \in DOMAIN logs : logs[k].run = r =>
                 \E i \in first..last : w[i] = logs[k]
<1>1. PICK I \in SUBSET (DOMAIN logs) : I = RunAt(logs, r)
    BY DEF RunAt
<1>2. PICK p \in Seq(Record) : p = Picked(logs, I)
    BY PickedFacts
<1>3. /\ Len(p) = Cardinality(I)
      /\ \A k \in 1..Cardinality(I) : Ascending(I)[k] \in I /\ p[k] = logs[Ascending(I)[k]]
    BY <1>2, PickedFacts
<1>4. \A x \in I : /\ Place(I, x) \in 1..Cardinality(I)
                   /\ Ascending(I)[Place(I, x)] = x
    BY PositionsFinite, AscendingFacts
<1>5. /\ first \in {1, 2} /\ last \in 0..Len(w)
      /\ p = SubSeq(w, first, last)
    BY <1>1, <1>2 DEF Shows, OfRun, RunAt
<1>6. \A i \in first..last : i \in DOMAIN w /\ w[i] \in Record
    BY <1>5
<1>7. /\ Len(p) = IF first <= last THEN last - first + 1 ELSE 0
      /\ \A i \in 1..(last - first + 1) : p[i] = w[first + i - 1]
    BY <1>5, <1>6, SubSeqProperties
<1>8. ASSUME NEW i \in first..last
      PROVE  \E k \in DOMAIN logs : logs[k].run = r /\ logs[k] = w[i]
    <2>1. PICK j \in Int : j = i - first + 1
        BY <1>5
    <2>2. j \in 1..(last - first + 1) /\ first + j - 1 = i /\ j \in 1..Cardinality(I)
        BY <1>3, <1>5, <1>7, <2>1
    <2>3. p[j] = w[i] /\ p[j] = logs[Ascending(I)[j]] /\ Ascending(I)[j] \in I
        BY <1>3, <1>7, <2>2
    <2> QED BY <1>1, <2>3 DEF RunAt
<1>9. ASSUME NEW k \in DOMAIN logs, logs[k].run = r
      PROVE  \E i \in first..last : w[i] = logs[k]
    <2>1. k \in I
        BY <1>1, <1>9 DEF RunAt
    <2>2. PICK j \in 1..Cardinality(I) : Ascending(I)[j] = k
        BY <1>4, <2>1
    <2>3. j \in 1..(last - first + 1) /\ first + j - 1 \in first..last
        BY <1>3, <1>5, <1>7, <2>2
    <2>4. p[j] = logs[k] /\ p[j] = w[first + j - 1]
        BY <1>3, <1>7, <2>2, <2>3
    <2> QED BY <2>3, <2>4
<1> QED BY <1>8, <1>9

\* The positions of a transaction's updates.
UpdatesAt(logs, r, t) ==
    {i \in DOMAIN logs : logs[i].run = r /\ logs[i].txn = t /\ logs[i].type = "UPDATE"}

\* The updates of a transaction are the same among some of the records, if those
\* have them all.
LEMMA UpdatesPicked ==
    ASSUME NEW logs \in Seq(Record), NEW I \in SUBSET (DOMAIN logs), NEW r, NEW t,
           UpdatesAt(logs, r, t) \subseteq I
    PROVE  Updates(Picked(logs, I), r, t) = Updates(logs, r, t)
<1>1. PICK p \in Seq(Record) : p = Picked(logs, I)
    BY PickedFacts
<1>2. /\ Len(p) = Cardinality(I)
      /\ \A k \in 1..Cardinality(I) : Ascending(I)[k] \in I /\ p[k] = logs[Ascending(I)[k]]
    BY <1>1, PickedFacts
<1>3. \A x \in I : /\ Place(I, x) \in 1..Cardinality(I)
                   /\ Ascending(I)[Place(I, x)] = x
    BY PositionsFinite, AscendingFacts
<1>4. PICK J \in SUBSET (1..Cardinality(I)) : J = UpdatesAt(p, r, t)
    <2>1. DOMAIN p = 1..Cardinality(I) /\ UpdatesAt(p, r, t) \subseteq DOMAIN p
        BY <1>2 DEF UpdatesAt
    <2> QED BY <2>1
<1>5. PICK K \in SUBSET (DOMAIN logs) : K = UpdatesAt(logs, r, t)
    BY DEF UpdatesAt
<1>6. \A j \in J : Ascending(I)[j] \in K
    BY <1>2, <1>4, <1>5 DEF UpdatesAt
<1>7. ASSUME NEW i \in K PROVE \E j \in J : Ascending(I)[j] = i
    <2>1. i \in I
        BY <1>5
    <2>2. PICK j \in 1..Cardinality(I) : Ascending(I)[j] = i
        BY <1>3, <2>1
    <2>3. p[j] = logs[i] /\ j \in DOMAIN p
        BY <1>2, <2>2
    <2>4. j \in J
        BY <1>4, <1>5, <2>3 DEF UpdatesAt
    <2> QED BY <2>2, <2>4
<1>8. Picked(Picked(logs, I), J) = Picked(logs, K)
    BY <1>6, <1>7, PickedPicked
<1> QED BY <1>1, <1>4, <1>5, <1>8 DEF Updates, UpdatesAt

\* So they are in a stretch that has them all.
LEMMA UpdatesInStretch ==
    ASSUME NEW w \in Seq(Record), NEW r, NEW t,
           NEW first \in {1, 2}, NEW last \in 0..Len(w),
           UpdatesAt(w, r, t) \subseteq first..last
    PROVE  Updates(SubSeq(w, first, last), r, t) = Updates(w, r, t)
<1>1. \A i \in first..last : i \in DOMAIN w /\ w[i] \in Record
    OBVIOUS
<1>2. PICK u \in Seq(Record) : u = SubSeq(w, first, last)
    <2>1. SubSeq(w, first, last) \in Seq(Record)
        BY <1>1, SubSeqProperties
    <2> QED BY <2>1, Zenon
<1>3. /\ Len(u) = IF first <= last THEN last - first + 1 ELSE 0
      /\ \A i \in 1..(last - first + 1) : u[i] = w[first + i - 1]
    BY <1>1, <1>2, SubSeqProperties
<1>4. PICK I \in SUBSET (DOMAIN w) : I = UpdatesAt(w, r, t)
    BY DEF UpdatesAt
<1>5. PICK J \in SUBSET (DOMAIN u) : J = UpdatesAt(u, r, t)
    BY DEF UpdatesAt
<1>6. I \subseteq first..last /\ \A i \in I : i \in Int
    BY <1>4
<1>7. ASSUME NEW i \in I
      PROVE  i - first + 1 \in J /\ w[i] = u[i - first + 1]
    <2>1. PICK j \in Int : j = i - first + 1
        BY <1>6
    <2>2. j \in 1..(last - first + 1) /\ first + j - 1 = i /\ j \in DOMAIN u
        BY <1>3, <1>6, <2>1
    <2>3. w[i] = u[j]
        BY <1>3, <2>2
    <2> QED BY <1>4, <1>5, <2>1, <2>2, <2>3 DEF UpdatesAt
<1>8. ASSUME NEW y \in J PROVE \E i \in I : i - first + 1 = y
    <2>1. y \in 1..(last - first + 1) /\ first + y - 1 \in first..last
        <3>1. y \in 1..Len(u)
            OBVIOUS
        <3>2. first <= last
            BY <1>3, <3>1
        <3> QED BY <1>3, <3>1, <3>2
    <2>2. u[y] = w[first + y - 1] /\ first + y - 1 \in DOMAIN w
        BY <1>1, <1>3, <2>1
    <2>3. first + y - 1 \in I
        BY <1>4, <1>5, <2>2 DEF UpdatesAt
    <2>4. (first + y - 1) - first + 1 = y
        BY <2>1
    <2> QED BY <2>3, <2>4
<1>9. PICK h \in [I -> J] : \A i \in I : h[i] = i - first + 1
    <2>1. [i \in I |-> i - first + 1] \in [I -> J]
        BY <1>7
    <2> QED BY <2>1
<1>10. \A i, j \in I : i < j => h[i] < h[j]
    BY <1>6, <1>9
<1>11. \A y \in J : \E i \in I : h[i] = y
    BY <1>8, <1>9
<1>12. \A i \in I : w[i] = u[h[i]]
    BY <1>7, <1>9
<1>13. Picked(w, I) = Picked(u, J)
    <2>1. Carries(h, w, I, u, J)
        BY <1>10, <1>11, <1>12 DEF Carries
    <2> QED BY <2>1, PickedSame
<1> QED BY <1>2, <1>4, <1>5, <1>13 DEF Updates, UpdatesAt

\* Updates covered by a flush with their COMMIT lie in every stretch that reaches
\* down to the flush.
LEMMA CommitCovers ==
    ASSUME NEW w \in Seq(Record), Clean(w), NEW r, NEW t,
           NEW first \in {1, 2}, NEW last \in 0..Len(w),
           NEW c \in DOMAIN w, c <= last, w[c].txn = t, w[c].type = "COMMIT"
    PROVE  c \in first..last /\ UpdatesAt(w, r, t) \subseteq first..last
<1>1. DOMAIN w = 1..Len(w) /\ Len(w) \in Nat /\ w # << >>
    OBVIOUS
<1>2. w[1].type \notin {"UPDATE", "COMMIT"}
    BY <1>1 DEF Clean
<1>3. c # 1
    BY <1>2
<1>4. ASSUME NEW i \in DOMAIN w, w[i].txn = t, w[i].type = "UPDATE"
      PROVE  i \in first..last
    <2>1. i # 1 /\ i # c
        BY <1>2, <1>4
    <2>2. ~ (c < i)
        BY <1>4 DEF Clean
    <2> QED BY <1>1, <2>1, <2>2
<1> QED BY <1>1, <1>3, <1>4 DEF UpdatesAt

\* Redo of what is read, for the committed transactions a flush has covered.
LEMMA RedoCovers ==
    ASSUME NEW logs \in Seq(Record), NEW w \in Seq(Record), Clean(w), NEW r,
           NEW first \in {1, 2}, NEW last \in 0..Len(w),
           Shows(logs, r, w, first, last),
           NEW t \in TxnId, NEW c \in DOMAIN w, c <= last,
           w[c].txn = t, w[c].type = "COMMIT"
    PROVE  Updates(Redo(logs), r, t) = Updates(w, r, t)
<1>1. c \in first..last /\ UpdatesAt(w, r, t) \subseteq first..last
    BY CommitCovers
<1>2. t \in Committed(logs)
    <2>1. PICK k \in DOMAIN logs : logs[k].run = r /\ logs[k] = w[c]
        BY <1>1, StretchElements
    <2> QED BY <2>1 DEF Committed
<1>3. Updates(Redo(logs), r, t) = Updates(logs, r, t)
    <2>1. PICK I \in SUBSET (DOMAIN logs) :
             I = {i \in DOMAIN logs :
                    logs[i].type = "UPDATE" /\ logs[i].txn \in Committed(logs)}
        OBVIOUS
    <2>2. UpdatesAt(logs, r, t) \subseteq I
        BY <1>2, <2>1 DEF UpdatesAt
    <2> QED BY <2>1, <2>2, UpdatesPicked DEF Redo
<1>4. Updates(OfRun(logs, r), r, t) = Updates(logs, r, t)
    <2>1. PICK I \in SUBSET (DOMAIN logs) : I = RunAt(logs, r)
        BY DEF RunAt
    <2>2. UpdatesAt(logs, r, t) \subseteq I
        BY <2>1 DEF UpdatesAt, RunAt
    <2> QED BY <2>1, <2>2, UpdatesPicked DEF OfRun, RunAt
<1>5. Updates(SubSeq(w, first, last), r, t) = Updates(w, r, t)
    BY <1>1, UpdatesInStretch
<1> QED BY <1>3, <1>4, <1>5 DEF Shows

LEMMA DurableNow ==
    ASSUME SessionTypeOK, RunsKnown, LogIsStretches, CommandsInOrder, UndoPending
    PROVE  RedoFindsCommitted
<1> SUFFICES ASSUME phase = "recovering"
             PROVE  /\ \A r \in Run, t \in TxnId :
                          CommittedIn(r, t, flushed[r]) =>
                              Updates(redo_records, r, t) = Updates(written[r], r, t)
                    /\ run = 1 =>
                          \A i \in DOMAIN redo_records :
                              CommittedIn(1, redo_records[i].txn, Len(written[1]))
    BY DEF RedoFindsCommitted
<1>1. PICK logs \in Seq(Record) : logs = ReadNow
    <2>1. CanRead(log_file, last_line)
        BY DEF UndoPending
    <2> QED BY <2>1, ReadType DEF ReadNow, SessionTypeOK, LogFileTypeOK
<1>2. redo_records = Redo(logs)
    BY <1>1 DEF UndoPending
<1>3. \A r \in Run : written[r] \in Seq(Record) /\ flushed[r] \in Nat /\ Clean(written[r])
    BY DEF SessionTypeOK, CommandsInOrder
<1>4. ASSUME NEW r \in Run
      PROVE  \E first \in {1, 2}, last \in 0..Len(written[r]) :
                /\ flushed[r] <= last
                /\ Shows(logs, r, written[r], first, last)
    BY <1>1, Zenon DEF LogIsStretches, UndoPending, Shows
<1>5. ASSUME NEW r \in Run, NEW t \in TxnId, CommittedIn(r, t, flushed[r])
      PROVE  Updates(redo_records, r, t) = Updates(written[r], r, t)
    <2>1. PICK w \in Seq(Record) : w = written[r]
        BY <1>3, Zenon
    <2>2. PICK first \in {1, 2}, last \in 0..Len(w) :
             flushed[r] <= last /\ Shows(logs, r, w, first, last)
        BY <1>4, <2>1
    <2>3. PICK c \in 1..flushed[r] : w[c].txn = t /\ w[c].type = "COMMIT"
        BY <1>5, <2>1 DEF CommittedIn
    <2>4. c \in DOMAIN w /\ c <= last
        BY <1>3, <2>2, <2>3
    <2>5. Clean(w)
        BY <1>3, <2>1
    <2>6. Updates(Redo(logs), r, t) = Updates(w, r, t)
        BY <2>2, <2>3, <2>4, <2>5, RedoCovers
    <2> QED BY <1>2, <2>1, <2>6
<1>6. ASSUME run = 1, NEW i \in DOMAIN redo_records
      PROVE  CommittedIn(1, redo_records[i].txn, Len(written[1]))
    <2>1. 1 \in Run /\ \A r \in Run : r # 1 => r > run
        BY <1>6, RunAssumption DEF Run
    <2>2. \A x \in Record : x.run \in Run
        BY RecordAssumption DEF SessionRecord
    <2>3. ASSUME NEW k \in DOMAIN logs PROVE logs[k].run = 1
        <3>1. PICK r \in Run : r = logs[k].run
            BY <2>2
        <3>2. SUFFICES ASSUME r # 1 PROVE FALSE
            BY <3>1
        <3>3. written[r] = << >>
            BY <2>1, <3>2 DEF RunsKnown
        <3>4. PICK w \in Seq(Record) : w = written[r] /\ w = << >>
            BY <1>3, <3>3, Zenon
        <3>5. PICK first \in {1, 2}, last \in 0..Len(w) :
                 Shows(logs, r, w, first, last)
            BY <1>4, <3>4
        <3>6. \E n \in first..last : w[n] = logs[k]
            BY <3>1, <3>5, StretchElements
        <3>7. last = 0
            BY <3>4
        <3> QED BY <3>6, <3>7
    <2>4. PICK k \in DOMAIN logs :
             redo_records[i] = logs[k] /\ logs[k].txn \in Committed(logs)
        <3>1. PICK I \in SUBSET (DOMAIN logs) :
                 I = {n \in DOMAIN logs :
                        logs[n].type = "UPDATE" /\ logs[n].txn \in Committed(logs)}
            OBVIOUS
        <3>2. PICK p \in Seq(Record) : p = Picked(logs, I)
            BY PickedFacts
        <3>3. redo_records = p
            BY <1>2, <3>1, <3>2 DEF Redo
        <3>4. i \in 1..Cardinality(I)
            BY <1>6, <3>2, <3>3, PickedFacts
        <3>5. p[i] = logs[Ascending(I)[i]] /\ Ascending(I)[i] \in I
            BY <3>2, <3>4, PickedFacts
        <3> QED BY <3>1, <3>3, <3>5
    <2>5. PICK j \in DOMAIN logs : logs[j].txn = logs[k].txn /\ logs[j].type = "COMMIT"
        BY <2>4 DEF Committed
    <2>6. PICK w \in Seq(Record) : w = written[1]
        BY <1>3, <2>1, Zenon
    <2>7. PICK first \in {1, 2}, last \in 0..Len(w) :
             Shows(logs, 1, w, first, last)
        BY <1>4, <2>1, <2>6
    <2>8. PICK n \in first..last : w[n] = logs[j]
        <3>1. logs[j].run = 1
            BY <2>3
        <3> QED BY <2>7, <3>1, StretchElements
    <2>9. n \in 1..Len(w)
        OBVIOUS
    <2> QED BY <2>4, <2>5, <2>6, <2>8, <2>9 DEF CommittedIn
<1> QED BY <1>5, <1>6

LEMMA OrderInvariant == SessionSpec => [](SessionInv /\ CommandsInOrder /\ UndoPending)
<1>1. SessionInit => CommandsInOrder /\ UndoPending
    <2>1. SessionInit => UndoPending
        BY DEF SessionInit, UndoPending
    <2> QED BY <2>1, CommandsInit
<1>2. SessionInv /\ CommandsInOrder /\ UndoPending /\ [SessionNext]_vars
          => CommandsInOrder' /\ UndoPending'
    BY CommandsStep, UndoPendingStep DEF SessionInv
<1> QED BY <1>1, <1>2, SessionInvariant, PTL DEF SessionSpec

\* Once a flush (CHECKPOINT, EXIT, RECOVER) has followed a COMMIT, every later
\* RECOVER that can read the file puts each of the transaction's updates on its
\* redo list, once and in order, in whichever run of the program and whatever other
\* runs have left cut lines (RecoveryManager::redo over LogManager::readLogs); in the
\* first run the list has nothing else.
THEOREM CommittedRedone == SessionSpec => []RedoFindsCommitted
<1>1. SessionInv /\ CommandsInOrder /\ UndoPending => RedoFindsCommitted
    BY ReadStretches, DurableNow DEF SessionInv
<1> QED BY <1>1, OrderInvariant, PTL


-----------------------------------------------------------------------------
(***************************************************************************)
(* RECOVER closes the log.                                                 *)
(***************************************************************************)

\* Behind records that begin nothing, only what was open is open still, if they
\* do not close it.
LEMMA IncompleteAfter ==
    ASSUME NEW s \in Seq(Record), NEW d \in Seq(Record),
           \A j \in DOMAIN d : d[j].type # "BEGIN",
           NEW t \in Incomplete(s \o d)
    PROVE  /\ t \in Incomplete(s)
           /\ \A j \in DOMAIN d : d[j].txn = t => d[j].type \notin {"COMMIT", "ABORT"}
<1>1. /\ DOMAIN s = 1..Len(s) /\ Len(s) \in Nat
      /\ DOMAIN d = 1..Len(d) /\ Len(d) \in Nat
      /\ DOMAIN (s \o d) = 1..(Len(s) + Len(d)) /\ Len(s \o d) = Len(s) + Len(d)
      /\ \A i \in 1..Len(s) : (s \o d)[i] = s[i]
      /\ \A j \in 1..Len(d) : (s \o d)[Len(s) + j] = d[j]
    OBVIOUS
<1>2. PICK i \in DOMAIN (s \o d) :
         /\ (s \o d)[i].txn = t /\ (s \o d)[i].type = "BEGIN"
         /\ \A j \in i..Len(s \o d) :
               (s \o d)[j].txn = t => (s \o d)[j].type \notin {"COMMIT", "ABORT"}
    BY DEF Incomplete
<1>3. i \in 1..(Len(s) + Len(d)) /\ t \in TxnId
    BY <1>1 DEF Incomplete
<1>4. i \in 1..Len(s)
    <2>1. SUFFICES ASSUME i > Len(s) PROVE FALSE
        BY <1>1, <1>3
    <2>2. i - Len(s) \in 1..Len(d) /\ i = Len(s) + (i - Len(s))
        BY <1>1, <1>3, <2>1
    <2>3. (s \o d)[i] = d[i - Len(s)]
        BY <1>1, <2>2
    <2> QED BY <1>1, <1>2, <2>2, <2>3
<1>5. ASSUME NEW j \in DOMAIN d, d[j].txn = t
      PROVE  d[j].type \notin {"COMMIT", "ABORT"}
    <2>1. Len(s) + j \in i..Len(s \o d) /\ (s \o d)[Len(s) + j] = d[j]
        BY <1>1, <1>4
    <2> QED BY <1>2, <1>5, <2>1
<1>6. ASSUME NEW j \in i..Len(s), s[j].txn = t
      PROVE  s[j].type \notin {"COMMIT", "ABORT"}
    <2>1. j \in i..Len(s \o d) /\ (s \o d)[j] = s[j]
        BY <1>1, <1>4
    <2> QED BY <1>2, <1>6, <2>1
<1>7. s[i].txn = t /\ s[i].type = "BEGIN"
    BY <1>1, <1>2, <1>4
<1> QED BY <1>1, <1>3, <1>4, <1>5, <1>6, <1>7 DEF Incomplete

\* One more record can only close its own transaction.
LEMMA IncompleteBefore ==
    ASSUME NEW s \in Seq(Record), NEW e \in Record, NEW t \in Incomplete(s), e.txn # t
    PROVE  t \in Incomplete(Append(s, e))
<1>1. PICK i \in DOMAIN s :
         /\ s[i].txn = t /\ s[i].type = "BEGIN"
         /\ \A j \in i..Len(s) : s[j].txn = t => s[j].type \notin {"COMMIT", "ABORT"}
    BY DEF Incomplete
<1>2. PICK a \in Seq(Record) : a = Append(s, e)
    <2>1. Append(s, e) \in Seq(Record)
        OBVIOUS
    <2> QED BY <2>1, Zenon
<1>3. /\ Len(a) = Len(s) + 1 /\ Len(s) \in Nat /\ DOMAIN s = 1..Len(s)
      /\ DOMAIN a = 1..(Len(s) + 1)
      /\ \A j \in 1..Len(s) : a[j] = s[j]
      /\ a[Len(s) + 1] = e
    BY <1>2
<1>4. i \in DOMAIN a /\ a[i] = s[i]
    BY <1>3
<1>5. ASSUME NEW j \in i..Len(a), a[j].txn = t
      PROVE  a[j].type \notin {"COMMIT", "ABORT"}
    <2>1. j # Len(s) + 1
        BY <1>3, <1>5
    <2>2. j \in i..Len(s) /\ a[j] = s[j]
        BY <1>3, <2>1
    <2> QED BY <1>1, <1>5, <2>2
<1>6. t \in Incomplete(a)
    BY <1>1, <1>4, <1>5 DEF Incomplete
<1> QED BY <1>2, <1>6, Zenon

\* The records of undo: an ABORT for each incomplete transaction, and nothing else.
LEMMA UndoClosesAll ==
    ASSUME run \in Run, NEW ids \in SUBSET TxnId, NEW u \in Seq(Record),
           u = UndoRecords(ids)
    PROVE  /\ \A j \in DOMAIN u :
                 u[j].type = "ABORT" /\ u[j].txn \in ids /\ u[j].run = run
           /\ \A t \in ids : \E j \in DOMAIN u : u[j].txn = t /\ u[j].type = "ABORT"
           /\ u = << >> => ids = {}
<1>1. /\ Cardinality(ids) \in Nat
      /\ Ascending(ids) \in [1..Cardinality(ids) -> ids]
      /\ \A x \in ids : /\ Place(ids, x) \in 1..Cardinality(ids)
                        /\ Ascending(ids)[Place(ids, x)] = x
    BY IdsInt, AscendingFacts
<1>2. /\ Len(u) = Cardinality(ids)
      /\ \A i \in 1..Cardinality(ids) :
            u[i] = [run |-> run, txn |-> Ascending(ids)[i], type |-> "ABORT"]
    BY UndoType
<1>3. DOMAIN u = 1..Cardinality(ids)
    BY <1>2
<1>4. ASSUME NEW t \in ids
      PROVE  \E j \in DOMAIN u : u[j].txn = t /\ u[j].type = "ABORT"
    <2>1. PICK j \in DOMAIN u : Ascending(ids)[j] = t
        BY <1>1, <1>3
    <2> QED BY <1>2, <1>3, <2>1
<1>5. ASSUME NEW j \in DOMAIN u
      PROVE  u[j].type = "ABORT" /\ u[j].txn \in ids /\ u[j].run = run
    <2>1. Ascending(ids)[j] \in ids
        BY <1>1, <1>3
    <2> QED BY <1>2, <1>3, <2>1
<1>6. u = << >> => ids = {}
    BY <1>4
<1> QED BY <1>4, <1>5, <1>6

\* What undo's records close, behind a file that can be read: everything that
\* was incomplete, if the first of them becomes a line and what was read is all of
\* what it is behind.
LEMMA UndoCloses ==
    ASSUME run \in Run, log_file \in Seq(Record),
           NEW ids \in SUBSET TxnId, ids = Incomplete(ReadNow),
           NEW u \in Seq(Record), u = UndoRecords(ids), u # << >>,
           last_line # Unreadable
    PROVE  /\ Lines(u) \in Seq(Record)
           /\ \/ Incomplete(Lines(u)) = {}
              \/ /\ last_line # NoLine
                 /\ \E t : Incomplete(Lines(u)) \subseteq {t}
<1>1. /\ \A j \in DOMAIN u : u[j].type = "ABORT" /\ u[j].txn \in ids
      /\ \A t \in ids : \E j \in DOMAIN u : u[j].txn = t /\ u[j].type = "ABORT"
    BY UndoClosesAll
<1>2. PICK h \in Record, rest \in Seq(Record) : h = Head(u) /\ rest = Tail(u)
    <2>1. Head(u) \in Record /\ Tail(u) \in Seq(Record)
        OBVIOUS
    <2> QED BY <2>1, Zenon
<1>3. /\ Len(u) = Len(rest) + 1 /\ Len(rest) \in Nat
      /\ DOMAIN u = 1..(Len(rest) + 1) /\ DOMAIN rest = 1..Len(rest)
      /\ \A j \in 1..Len(rest) : rest[j] = u[j + 1]
      /\ u[1] = h
    BY <1>2
<1>4. Lines(u) = log_file \o Joined(last_line, h) \o rest
    BY <1>2 DEF Lines
<1>5. CASE last_line = Headless
    <2>1. Lines(u) = log_file \o rest
        BY <1>2, <1>4, <1>5 DEF Joined
    <2>2. ReadNow = log_file
        BY <1>5, CutAssumption DEF ReadNow, readLogs, Cut
    <2>3. \A j \in DOMAIN rest : rest[j].type # "BEGIN"
        BY <1>1, <1>3
    <2>4. ASSUME NEW t \in Incomplete(log_file \o rest) PROVE t = h.txn
        <3>1. /\ t \in Incomplete(log_file)
              /\ \A j \in DOMAIN rest : rest[j].txn = t =>
                    rest[j].type \notin {"COMMIT", "ABORT"}
            BY <2>3, IncompleteAfter
        <3>2. PICK j \in DOMAIN u : u[j].txn = t /\ u[j].type = "ABORT"
            BY <1>1, <2>2, <3>1
        <3>3. CASE j = 1
            BY <1>3, <3>2, <3>3
        <3>4. CASE j # 1
            <4>1. j - 1 \in 1..Len(rest) /\ (j - 1) + 1 = j
                BY <1>3, <3>4
            <4> QED BY <1>3, <3>1, <3>2, <4>1
        <3> QED BY <3>3, <3>4
    <2>5. log_file \o rest \in Seq(Record)
        BY <1>2
    <2>6. last_line # NoLine
        BY <1>5, CutAssumption DEF Cut
    <2>7. Incomplete(Lines(u)) \subseteq {h.txn}
        BY <2>1, <2>4
    <2>8. Lines(u) \in Seq(Record)
        BY <2>1, <2>5
    <2> QED BY <2>6, <2>7, <2>8
<1>6. CASE last_line # Headless
    <2>1. Lines(u) = log_file \o u
        <3>1. Joined(last_line, h) = <<h>>
            BY <1>6 DEF Joined
        <3>2. <<h>> \in Seq(Record) /\ <<h>> \o rest = u
            BY <1>2
        <3>3. (log_file \o <<h>>) \o rest = log_file \o (<<h>> \o rest)
            BY <1>2, <3>2, ConcatAssociative
        <3> QED BY <1>4, <3>1, <3>2, <3>3
    <2>2. \A j \in DOMAIN u : u[j].type # "BEGIN"
        BY <1>1
    <2>3. ASSUME NEW t \in Incomplete(log_file \o u)
          PROVE  t \in Incomplete(log_file) /\ t \notin ids
        <3>1. /\ t \in Incomplete(log_file)
              /\ \A j \in DOMAIN u : u[j].txn = t => u[j].type \notin {"COMMIT", "ABORT"}
            BY <2>2, IncompleteAfter
        <3> QED BY <1>1, <3>1
    <2>4. Lines(u) \in Seq(Record)
        <3>1. log_file \o u \in Seq(Record)
            OBVIOUS
        <3> QED BY <2>1, <3>1
    <2>5. CASE last_line \notin Record
        <3>1. ReadNow = log_file
            BY <2>5 DEF ReadNow, readLogs
        <3>2. Incomplete(Lines(u)) = {}
            BY <2>1, <2>3, <3>1
        <3> QED BY <2>4, <3>2
    <2>6. CASE last_line \in Record
        <3>1. ReadNow = Append(log_file, last_line)
            BY <2>6 DEF ReadNow, readLogs
        <3>2. ASSUME NEW t \in Incomplete(log_file \o u) PROVE t = last_line.txn
            <4>1. t \in Incomplete(log_file) /\ t \notin Incomplete(Append(log_file, last_line))
                BY <2>3, <3>1
            <4> QED BY <2>6, <4>1, IncompleteBefore
        <3>3. last_line # NoLine
            BY <2>6, CutAssumption
        <3>4. Incomplete(Lines(u)) \subseteq {last_line.txn}
            BY <2>1, <3>2
        <3> QED BY <2>4, <3>3, <3>4
    <2> QED BY <2>5, <2>6
<1> QED BY <1>5, <1>6

\* The step of RecoveryCloses.
ClosingStep ==
    phase = "recovering" /\ phase' = "idle" =>
        \/ Incomplete(ReadNow') = {}
        \/ /\ Cardinality(Incomplete(ReadNow')) = 1
           /\ \E t \in incomplete_txns :
                 written[run][1] = [run |-> run, txn |-> t, type |-> "ABORT"]

LEMMA FlushCloses ==
    ASSUME SessionInv, UndoPending, UndoFlush
    PROVE  ClosingStep
<1>1. PICK ids \in SUBSET TxnId : ids = incomplete_txns
    BY DEF SessionInv, SessionTypeOK
<1>2. PICK u \in Seq(Record) : u = unflushed
    BY DEF SessionInv, SessionTypeOK, LogFileTypeOK
<1>3. /\ phase = "recovering" /\ run \in Run
      /\ CanRead(log_file, last_line) /\ last_line # Unreadable
      /\ ids = Incomplete(ReadNow)
      /\ u = UndoRecords(ids)
    BY <1>1, <1>2 DEF UndoFlush, UndoPending, SessionInv, SessionTypeOK, CanRead
<1>4. log_file \in Seq(Record)
    BY <1>3, ReadType DEF SessionInv, SessionTypeOK, LogFileTypeOK
<1>5. log_file' = Lines(u) /\ last_line' = LastLine(u)
    <2>1. unflushed \o << >> = unflushed
        BY <1>3, FlushOnly DEF SessionInv
    <2> QED BY <1>2, <2>1 DEF UndoFlush, LogAndFlush, writeAndFlush
<1>6. CASE u = << >>
    <2>1. ids = {}
        BY <1>3, <1>6, UndoClosesAll
    <2>2. log_file' = log_file /\ last_line' = last_line
        BY <1>5, <1>6 DEF Lines, LastLine
    <2>3. Incomplete(ReadNow') = Incomplete(ReadNow)
        BY <2>2 DEF ReadNow
    <2> QED BY <1>3, <2>1, <2>3 DEF ClosingStep
<1>7. CASE u # << >>
    <2>1. /\ Lines(u) \in Seq(Record)
          /\ \/ Incomplete(Lines(u)) = {}
             \/ /\ last_line # NoLine
                /\ \E t : Incomplete(Lines(u)) \subseteq {t}
        BY <1>3, <1>4, <1>7, UndoCloses
    <2>2. ReadNow' = Lines(u)
        <3>1. last_line' = NoLine /\ NoLine \notin Record
            BY <1>5, <1>7, CutAssumption DEF LastLine
        <3> QED BY <1>5, <3>1 DEF ReadNow, readLogs
    <2>3. ASSUME last_line # NoLine
          PROVE  \E t \in incomplete_txns :
                    written[run][1] = [run |-> run, txn |-> t, type |-> "ABORT"]
        <3>1. PICK first \in {1, 2}, m \in 0..Len(written[run]) :
                 StretchOf(run, first, m)
            BY <1>3 DEF SessionInv, FileInv
        <3>2. PICK w \in Seq(Record) : w = written[run]
            BY <1>3 DEF SessionInv, SessionTypeOK
        <3>3. m = 0 /\ u = SubSeq(w, m + 1, Len(w))
            BY <1>2, <1>3, <2>3, <3>1, <3>2 DEF StretchOf
        <3>4. u = w
            <4>1. SubSeq(w, 1, Len(w)) = w
                BY SubSeqFull
            <4> QED BY <3>3, <4>1
        <3>5. 1 \in DOMAIN u
            BY <1>7
        <3>6. u[1].type = "ABORT" /\ u[1].txn \in ids /\ u[1].run = run
            BY <1>3, <3>5, UndoClosesAll
        <3>7. u[1] = [run |-> u[1].run, txn |-> u[1].txn, type |-> u[1].type]
            <4>1. PICK x \in SessionRecord : x = u[1]
                BY <3>5, RecordAssumption
            <4>2. x = [run |-> x.run, txn |-> x.txn, type |-> x.type]
                BY DEF SessionRecord
            <4> QED BY <4>1, <4>2, Zenon
        <3> QED BY <1>1, <3>2, <3>4, <3>6, <3>7
    <2>4. ASSUME NEW t, Incomplete(Lines(u)) \subseteq {t}, Incomplete(Lines(u)) # {}
          PROVE  Cardinality(Incomplete(Lines(u))) = 1
        <3>1. Incomplete(Lines(u)) = {t}
            BY <2>4
        <3>2. Cardinality({t}) = 1
            BY FS_Singleton
        <3> QED BY <3>1, <3>2
    <2> QED BY <2>1, <2>2, <2>3, <2>4 DEF ClosingStep
<1> QED BY <1>6, <1>7

\* A RECOVER directly after a RECOVER would find nothing to undo. The one exception
\* is a run whose first record is an ABORT of undo, in a file that ended in a
\* line without a newline: that record is swallowed, or takes the place of a COMMIT or
\* ABORT, and one transaction stays open (RecoveryManager::undo,
\* LogManager::writeLog in append mode).
THEOREM RecoverCloses == SessionSpec => RecoveryCloses
<1>1. SessionInv /\ CommandsInOrder /\ UndoPending /\ [SessionNext]_vars
          => [ClosingStep]_vars
    <2> SUFFICES ASSUME SessionInv, UndoPending, SessionNext,
                        phase = "recovering", phase' = "idle"
                 PROVE  ClosingStep
        BY DEF ClosingStep
    <2>1. UndoFlush
        BY DEF SessionNext, Start, Checkpoint, Exit, Recover, RecoverDies, Kill,
               Begin, Write, Commit, Abort, MayLog, Gone
    <2> QED BY <2>1, FlushCloses
<1> QED BY <1>1, OrderInvariant, PTL DEF SessionSpec, RecoveryCloses, ClosingStep

-----------------------------------------------------------------------------
(***************************************************************************)
(* When RECOVER cannot read the log.                                       *)
(***************************************************************************)

\* Whole records behind the file neither spoil it nor mend it: a line that was
\* cut where the parser throws stays one, and no other line becomes one.
LEMMA WritingKeepsFailing ==
    ASSUME LogFileTypeOK, NEW rs \in Seq(Record)
    PROVE  CanRead(Lines(rs), LastLine(rs)) <=> CanRead(log_file, last_line)
<1>1. CASE rs = << >>
    BY <1>1 DEF Lines, LastLine
<1>2. CASE rs # << >>
    <2> DEFINE j == Joined(last_line, Head(rs))
    <2>1. Head(rs) \in Record /\ Tail(rs) \in Seq(Record)
        BY <1>2
    <2>2. PICK t \in Seq(Line) :
             t = Tail(rs) /\ \A i \in DOMAIN t : t[i] # Unreadable
        <3>1. Unreadable \notin Record
            BY CutAssumption DEF Cut
        <3>2. Tail(rs) \in Seq(Line) /\ \A i \in DOMAIN Tail(rs) : Tail(rs)[i] \in Record
            BY <2>1 DEF Line
        <3> QED BY <3>1, <3>2
    <2>3. /\ j \in Seq(Line)
          /\ last_line = Unreadable => j = <<Unreadable>>
          /\ last_line # Unreadable => \A i \in DOMAIN j : j[i] # Unreadable
        <3>1. j \in Seq(Line)
            BY <2>1, JoinedType DEF LogFileTypeOK
        <3>2. last_line = Unreadable => j = <<Unreadable>>
            BY CutAssumption DEF Joined
        <3>3. last_line # Unreadable => j = << >> \/ j = <<Head(rs)>>
            BY DEF Joined
        <3>4. Head(rs) # Unreadable
            BY <2>1, CutAssumption DEF Cut
        <3> QED BY <3>1, <3>2, <3>3, <3>4
    <2> HIDE DEF j
    <2>4. PICK f \in Seq(Line) : f = log_file
        BY DEF LogFileTypeOK
    <2>5. Lines(rs) = f \o j \o t
        BY <1>2, <2>2, <2>4 DEF Lines, j
    <2>6. /\ DOMAIN (f \o j \o t) = 1..(Len(f) + Len(j) + Len(t))
          /\ \A i \in 1..Len(f) : (f \o j \o t)[i] = f[i]
          /\ \A i \in 1..Len(j) : (f \o j \o t)[Len(f) + i] = j[i]
          /\ \A i \in 1..Len(t) : (f \o j \o t)[Len(f) + Len(j) + i] = t[i]
        BY <2>2, <2>3, <2>4
    <2>7. LastLine(rs) = NoLine /\ NoLine # Unreadable
        BY <1>2, CutAssumption DEF LastLine, Cut
    <2>8. /\ DOMAIN f = 1..Len(f) /\ Len(f) \in Nat
          /\ DOMAIN j = 1..Len(j) /\ Len(j) \in Nat
          /\ DOMAIN t = 1..Len(t) /\ Len(t) \in Nat
        BY <2>2, <2>3, <2>4
    <2>9. CASE last_line = Unreadable
        <3>1. Len(j) = 1 /\ j[1] = Unreadable
            BY <2>3, <2>9
        <3>2. /\ Len(f) + 1 \in DOMAIN (f \o j \o t)
              /\ (f \o j \o t)[Len(f) + 1] = Unreadable
            BY <2>6, <2>8, <3>1
        <3> QED BY <2>5, <2>9, <3>2 DEF CanRead
    <2>10. CASE last_line # Unreadable
        <3>1. ASSUME NEW i \in 1..(Len(f) + Len(j) + Len(t)), i \notin 1..Len(f)
              PROVE  (f \o j \o t)[i] # Unreadable
            <4>1. CASE i <= Len(f) + Len(j)
                <5>1. i - Len(f) \in 1..Len(j) /\ i = Len(f) + (i - Len(f))
                    BY <2>8, <3>1, <4>1
                <5> QED BY <2>3, <2>6, <2>8, <2>10, <5>1
            <4>2. CASE ~ (i <= Len(f) + Len(j))
                <5>1. PICK k \in 1..Len(t) : i = Len(f) + Len(j) + k
                    <6>1. /\ i - Len(f) - Len(j) \in 1..Len(t)
                          /\ i = Len(f) + Len(j) + (i - Len(f) - Len(j))
                        BY <2>8, <3>1, <4>2
                    <6> QED BY <6>1
                <5>2. (f \o j \o t)[i] = t[k] /\ k \in DOMAIN t
                    BY <2>6, <2>8, <5>1
                <5> QED BY <2>2, <5>2
            <4> QED BY <4>1, <4>2
        <3>2. 1..Len(f) \subseteq 1..(Len(f) + Len(j) + Len(t))
            BY <2>8
        <3>3. (\A i \in DOMAIN Lines(rs) : Lines(rs)[i] # Unreadable)
                <=> (\A i \in DOMAIN f : f[i] # Unreadable)
            BY <2>5, <2>6, <2>8, <3>1, <3>2
        <3> QED BY <2>4, <2>7, <2>10, <3>3 DEF CanRead
    <2> QED BY <2>9, <2>10
<1> QED BY <1>1, <1>2

\* A death may spoil the file, if there was something in the buffer.
LEMMA DeathKeepsFailing ==
    ASSUME LogFileTypeOK, Die
    PROVE  /\ ReadNowFails => ReadNowFails'
           /\ unflushed = << >> => (ReadNowFails' <=> ReadNowFails)
<1>1. PICK n \in 0..Len(unflushed) :
         /\ log_file' = Lines(SubSeq(unflushed, 1, n))
         /\ \/ last_line' = LastLine(SubSeq(unflushed, 1, n))
            \/ /\ n < Len(unflushed)
               /\ last_line' \in Torn(LastLine(SubSeq(unflushed, 1, n)),
                                      unflushed[n + 1])
    BY DEF Die
<1>2. PICK done \in Seq(Record) : done = SubSeq(unflushed, 1, n)
    <2>1. SubSeq(unflushed, 1, n) \in Seq(Record)
        BY SubSeqProperties DEF LogFileTypeOK
    <2> QED BY <2>1
<1>3. CanRead(Lines(done), LastLine(done)) <=> ~ ReadNowFails
    BY WritingKeepsFailing DEF ReadNowFails
<1>4. CASE last_line' = LastLine(done)
    <2>1. ReadNowFails' <=> ReadNowFails
        BY <1>1, <1>2, <1>3, <1>4 DEF ReadNowFails
    <2> QED BY <2>1
<1>5. CASE n < Len(unflushed) /\ last_line' \in Torn(LastLine(done), unflushed[n + 1])
    <2>1. unflushed # << >>
        BY <1>5 DEF LogFileTypeOK
    <2>2. LastLine(done) = Unreadable => last_line' = Unreadable
        BY <1>5 DEF Torn
    <2>3. ReadNowFails => ReadNowFails'
        BY <1>1, <1>2, <1>3, <2>2 DEF ReadNowFails, CanRead
    <2> QED BY <2>1, <2>3
<1> QED BY <1>1, <1>2, <1>4, <1>5

FailingStep ==
    /\ ReadNowFails' /\ ~ ReadNowFails =>
          phase # "down" /\ phase' = "down" /\ unflushed # << >>
    /\ ReadNowFails => ReadNowFails'

LEMMA SessionFails ==
    ASSUME SessionTypeOK, SessionNext
    PROVE  FailingStep
<1>1. LogFileTypeOK
    BY DEF SessionTypeOK
<1>2. CASE UNCHANGED <<log_file, last_line>>
    BY <1>2 DEF FailingStep, ReadNowFails
<1>3. ASSUME NEW rs \in Seq(Record), log_file' = Lines(rs), last_line' = LastLine(rs)
      PROVE  FailingStep
    BY <1>1, <1>3, WritingKeepsFailing DEF FailingStep, ReadNowFails
<1>4. CASE Start
    BY <1>2, <1>4 DEF Start, logVars
<1>5. CASE \E t \in TxnId : Begin(t) \/ Write(t) \/ Commit(t) \/ Abort(t)
    BY <1>2, <1>5 DEF Begin, Write, Commit, Abort, Log, appendLog
<1>6. CASE Checkpoint
    <2>1. Rec(0, "CHECKPOINT") \in Seq(Record)
        <3>1. phase # "down"
            BY <1>6 DEF Checkpoint, MayLog
        <3>2. [run |-> run, txn |-> 0, type |-> "CHECKPOINT"] \in Record
            BY <3>1, RecordAssumption DEF SessionTypeOK, SessionRecord, LogType
        <3> QED BY <3>2 DEF Rec
    <2>2. unflushed \o Rec(0, "CHECKPOINT") \in Seq(Record)
        BY <1>1, <2>1, ConcatProperties DEF LogFileTypeOK
    <2> QED BY <1>3, <1>6, <2>2 DEF Checkpoint, LogAndFlush, writeAndFlush
<1>7. CASE Exit \/ UndoFlush \/ RecoverDies
    <2>1. unflushed \o << >> \in Seq(Record)
        BY <1>1 DEF LogFileTypeOK
    <2> QED BY <1>3, <1>7, <2>1 DEF Exit, UndoFlush, RecoverDies, LogAndFlush, writeAndFlush
<1>8. CASE Recover
    BY <1>1, <1>3, <1>8 DEF Recover, LogFileTypeOK
<1>9. CASE Kill
    <2>1. Die /\ phase # "down" /\ phase' = "down"
        BY <1>9 DEF Kill, Gone
    <2> QED BY <1>1, <2>1, DeathKeepsFailing DEF FailingStep
<1> QED BY <1>4, <1>5, <1>6, <1>7, <1>8, <1>9 DEF SessionNext

\* RECOVER's exception (LogRecord::fromString) has one cause, a death of the program
\* while records were in the stream's buffer: no flush, no restart and no line
\* written behind a cut one brings it about. Once there it is there for good.
THEOREM FailsAfterDeath == SessionSpec => UnreadableByDeath
<1>1. SessionTypeOK /\ [SessionNext]_vars => [FailingStep]_vars
    BY SessionFails
<1> QED BY <1>1, SessionTypeCorrect, PTL DEF SessionSpec, UnreadableByDeath, FailingStep

=============================================================================
