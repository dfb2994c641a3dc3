----------------------------- MODULE LogManager ------------------------------
(***************************************************************************)
(* src/recovery/LogManager.cpp and LogRecord.cpp: the log file, the output *)
(* stream in front of it, and what a program that died in the middle of a  *)
(* line leaves behind.                                                     *)
(*                                                                         *)
(* A record is one line, "timestamp=7,txn=1,type=BEGIN".  Lines go to an   *)
(* std::ofstream; until flushLogs they are in its buffer, of which some    *)
(* prefix may already be in the file (the stream writes whole blocks, not  *)
(* whole lines).  readLogs opens the file afresh and sees no buffer.  The  *)
(* file is opened for appending, so after a line cut short the next record *)
(* continues that line.  Lines are not kept as text: a cut line is one of  *)
(* the four things LogRecord::fromString can make of it.                   *)
(***************************************************************************)
EXTENDS Integers, Sequences

CONSTANTS
    Record,     \* log records
    NoLine,     \* the file ends with a newline, or is empty
    Headless,   \* cut within "timestamp": skipped, and so is what follows it
    Harmless,   \* cut elsewhere: skipped, but a record behind it is read
    Unreadable  \* cut after "timestamp=" or "txn=": stoll and stoul throw

Cut == {Headless, Harmless, Unreadable}

ASSUME CutAssumption ==
    /\ (Cut \cup {NoLine}) \cap Record = {}
    /\ NoLine \notin Cut
    /\ Headless # Harmless /\ Headless # Unreadable /\ Harmless # Unreadable

VARIABLES
    log_file,   \* the complete lines of the file that are not skipped
    last_line,  \* what follows the last newline
    unflushed   \* records written to the stream since the last flush

logVars == <<log_file, last_line, unflushed>>

Line == Record \cup {Unreadable}

LogFileTypeOK ==
    /\ log_file \in Seq(Line)
    /\ last_line \in Record \cup Cut \cup {NoLine}
    /\ unflushed \in Seq(Record)

-----------------------------------------------------------------------------
(***************************************************************************)
(* What fromString makes of a line that was cut and then continued.  It    *)
(* takes the last "txn" and the last "type" of the line and wants a        *)
(* "timestamp" anywhere; a cut word swallows the "timestamp" behind it.    *)
(***************************************************************************)

\* Mutant: a segment is divided at its last "=", so that "txn=timestamp" is a
\* key nobody knows and the line is a record again.
JoinedAtLastKey(last, r) ==
    IF last = Headless THEN << >> ELSE <<r>>

\* A whole record and a newline behind "last": the complete line, if any is
\* left.  A record that had lost only its newline is overwritten.
Joined(last, r) ==
    IF last = Headless THEN << >>
    ELSE IF last = Unreadable THEN <<Unreadable>> ELSE <<r>>

\* Part of record r behind "last", r itself standing for all but the newline.
\* A Harmless line whose only "timestamp" was swallowed is Headless again if
\* the next cut falls into the word.
Torn(last, r) ==
    IF last = Unreadable THEN {Unreadable}
    ELSE {Harmless, Unreadable}
             \cup (IF last \in Record THEN {} ELSE {Headless})
             \cup (IF last = Headless THEN {} ELSE {r})

\* The file once the records "rs" have been written behind it.
Lines(rs) ==
    IF rs = << >> THEN log_file
    ELSE log_file \o Joined(last_line, Head(rs)) \o Tail(rs)

LastLine(rs) == IF rs = << >> THEN last_line ELSE NoLine

\* readLogs: the program is terminated by the exception if CanRead is false.
CanRead(file, last) ==
    last # Unreadable /\ \A i \in DOMAIN file : file[i] # Unreadable

readLogs(file, last) == IF last \in Record THEN Append(file, last) ELSE file

-----------------------------------------------------------------------------
(***************************************************************************)
(* Operations.                                                             *)
(***************************************************************************)

\* The constructor, on a file that is empty or does not exist.
LogInit ==
    /\ log_file = << >>
    /\ last_line = NoLine
    /\ unflushed = << >>

appendLog(rs) ==
    /\ unflushed' = unflushed \o rs
    /\ UNCHANGED <<log_file, last_line>>

\* Mutant: flushLogs writes log_buffer_, which nobody empties.
flushKeepsBuffer(rs) ==
    /\ log_file' = Lines(unflushed \o rs)
    /\ last_line' = LastLine(unflushed \o rs)
    /\ unflushed' = unflushed \o rs

\* flushLogs after rs has been written.
writeAndFlush(rs) ==
    /\ log_file' = Lines(unflushed \o rs)
    /\ last_line' = LastLine(unflushed \o rs)
    /\ unflushed' = << >>

clearLogs ==
    /\ log_file' = << >>
    /\ last_line' = NoLine
    /\ unflushed' = << >>

\* The program dies: of the stream's buffer n records have reached the file,
\* and perhaps a part of the next one.
Die ==
    /\ \E n \in 0..Len(unflushed) :
          LET done == SubSeq(unflushed, 1, n) IN
          /\ log_file' = Lines(done)
          /\ \/ last_line' = LastLine(done)
             \/ /\ n < Len(unflushed)
                /\ last_line' \in Torn(LastLine(done), unflushed[n + 1])
    /\ unflushed' = << >>

LogNext ==
    \/ \E r \in Record : appendLog(<<r>>)
    \/ writeAndFlush(<< >>)
    \/ clearLogs
    \/ Die

LogSpec == LogInit /\ [][LogNext]_logVars

=============================================================================
