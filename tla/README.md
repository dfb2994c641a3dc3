# Transaction manager: TLA+ models and proofs

This directory models the transaction manager under `src/`: a lock manager with
hierarchical strict two-phase locking, a transaction manager, and the command
interpreter that drives them together with a data store and a log. TLC checks the
models on small instances, TLAPS proves the most important properties for every
number of transactions, resources, names, graph nodes and commands.

Paths are relative to the repository root (`src/main.cpp`, `test/...`).

## 1. The system

| component | state | operations | used by |
|---|---|---|---|
| `LockManager`, `Lock` | `resource_locks_`, `wait_queues_`, `txn_locks_`, `completed_transactions_`, `resource_parent_` | `requestLock`, `releaseLock`, `completeTransaction`, `setResourceParent`, `hasLock`, `getLockType` | main.cpp |
| `TransactionManager`, `Transaction` | active and completed maps, next id, two statistics; a state per transaction | begin, commit, abort, abort all, clear history | main.cpp |
| engine (`main.cpp`) | labels, resource ids, `pending` | BEGIN, READ, WRITE, COMMIT, ABORT, SHOW, STATUS, CHECKPOINT, RECOVER | the user, or `input.txt` |
| `DataStore`, `Record` | one record per resource id | insert, update, get (delete, clear: no caller) | main.cpp |
| `LogManager`, `LogRecord` | log file (append mode), buffer list | `writeLog`, `readLogs`, `flushLogs`, `clearLogs` | main.cpp, RecoveryManager |
| `RecoveryManager` | committed and incomplete ids, redo and undo lists | analyze, redo, undo | main.cpp (RECOVER) |
| `WaitForGraph` | adjacency sets | `addEdge`, `removeEdge`, `hasCycle` | tests only |

How they interact. A single thread reads a command and executes it completely.
READ and WRITE ask the lock manager for S or X; a granted WRITE updates the data
store and appends an UPDATE record. A refused command goes into `pending`, and so do
all later commands of the same transaction. COMMIT and ABORT first tell the
transaction manager, then the lock manager (`completeTransaction` releases all
locks, and every release may grant queued requests), then the log, and then run
`processPending`: passes over `pending`, each command tried again in place, until
a pass executes nothing. So the lock manager has its own FIFO queue per resource and
the engine another list of the commands behind those requests; the two are never
compared. RECOVER aborts everything, completes the transactions one by one in the
lock manager, forgets `pending` and lets the recovery manager append ABORT records.

What is hard. Nothing here is multi-threaded; the difficulty is in the orders in
which transactions' commands, refusals, upgrades and completions interleave, and in
facts that are recorded twice: `resource_locks_` and `txn_locks_`; the transaction
manager's active map and the lock manager's completed set; the wait queues and
`pending`; the transaction states and the log. To this come the log file, which
outlives the program and is continued behind whatever a killed run left in it, and the
names of resources, which become a lock hierarchy while commands run.
`PROJECT.json` lists the hazards with the lines where they bite.

What makes each component correct:

* LockManager: locks of different transactions are compatible; both records of them
  agree; the hierarchy is respected; a lock is kept until completion; queues are FIFO,
  without duplicates and without lost wake-ups.
* TransactionManager: every transaction follows NEW, ACTIVE, COMMITTED or ABORTED;
  the statistics count what happened.
* Engine: isolation of active transactions, and one serial order of all conflicts;
  no command lost or repeated; no command
  asleep although its lock is free; the log tells the same story as the transaction
  manager; every command ends.
* LogManager, LogRecord: what is read back is an unbroken stretch of what each run of
  the program wrote, down to its last flush at least, whatever lines were cut.
* RecoveryManager: the analysis finds the committed and the incomplete transactions;
  redo takes the updates of the former; after undo nothing is incomplete.
* Names and data store: a name is one resource for ever, under the parent its
  prefix names, and shows what was last written to it.
* WaitForGraph: `hasCycle` exactly when some node reaches itself.

## 2. Modules

| module | models | notes |
|---|---|---|
| `LockModes` | `isCompatible`, `getAncestorIntentionType` | the matrix as two conjuncts |
| `LockManager` | `LockManager.cpp` | one action per public call |
| `StrictLocking` | (abstract) a strict two-phase lock manager | who holds which types, who has ended |
| `LockRefinement` | the mapping from `LockManager` to `StrictLocking` | `INSTANCE ... WITH` |
| `TransactionManager` | `TransactionManager.cpp`, `Transaction::setState` | one action per public call |
| `Engine` | `main.cpp` on top of both, with the recovery analysis of one run's log | extends both modules |
| `Serializability` | the order of conflicting commands, as a history variable on `Engine` | every step is one of `Engine` |
| `LogManager` | `LogManager.cpp`, `LogRecord.cpp` | the file, the stream in front of it, cut lines |
| `Session` | `main.cpp` and `RecoveryManager.cpp` over several runs of the program | extends `TransactionManager`, `LogManager` |
| `DataStore` | `DataStore.cpp`, `Record::setData` | one action per public call |
| `Catalog` | `ensureResource` and the records behind READ, WRITE, SHOW | extends `DataStore` |
| `WaitForGraph` | `WaitForGraph.cpp` | the search step by step |
| `Subsequences` | loops in increasing order, and the elements of a list that are kept | used by `Session` and `Catalog` |
| `MCLockManager`, `MCEngine`, `MCHistory`, `MCCatalog` | instances for TLC | small hierarchies, bounds, symmetry |
| `LockManagerProofs`, `TransactionManagerProofs`, `EngineProofs`, `SerializabilityProofs`, `SessionProofs`, `CatalogProofs`, `WaitForGraphProofs` | theorems | extend the modules they are about |
| `SequenceLemmas` | lemmas on `Subsequences` and sequences | used by the proofs |

`main.cpp` is seen three times, each time with what one question needs. `Engine`
has locks and parked commands, over one run of the program. `Session` has the log file over
many runs, and lets any active transaction write at any time: what locks would delay
is some order of writes all the same. `Catalog` has names and values, and lets any
command read or write: a command whose lock is refused has created the name by then
and is a look at it.

**LockManager.** The variables carry the code's names without the underscore. The
code's table is, per resource, a `std::set` of pointers to `Lock` objects, ordered
by address, and one transaction can own several objects on one resource, even of one
type (it is granted S, waits for X, is granted X by the queue). The model keeps a
bag, `resource_locks[x][t][m]`. Where the code scans for "the" lock of a transaction
it finds the first by address; the model takes any (`Existing`, `found`). A
request visits the ancestors from the root and then the resource. The model says what the
walk amounts to: `Reached` is where it gets to, `Won` where it succeeds, `Inserted`
where a Lock object is put in place of the one found, `Enqueued` where the refused
request is queued. The resources of a path differ, so the steps do not influence
one another. `CompleteTransaction` is `completeTransaction` with every `releaseLock`
and `processWaitQueue` it calls; releases of different resources commute.
`SetResourceParent` has the guard its callers respect: the child has just been
created.

**TransactionManager.** `Txn = 1..MaxTxn` are the ids the model hands out.
Timestamps, access counters and error texts have no reader in the program.

**Engine.** A command is one action. The loops are not: `processPending` takes a
step per command it visits (`DrainCommand`) and per pass (`DrainPass`), RECOVER a step per
transaction it completes (`RecoverTxn`). `phase` keeps other commands out while a
loop runs. `issued` and `executed` are history: the number of commands issued and the
commands executed, in order. `data_store` keeps the last writer of a record instead
of its value. `log` is one sequence of record types per transaction, since the
analysis asks nothing about the order of different transactions' records; it starts empty (a new
log file). A resource name seen for the first time is a `Show` step: READ and WRITE
create it while they execute, before anything else mentions it.

**LogManager.** A record is a line of text, and the program may die after any
byte of it. `last_line` is what follows the last newline of the file: nothing
(`NoLine`), a whole record that lost its newline, or a cut line. Cut lines are told apart by
what `LogRecord::fromString` makes of them, and of the line they become when the next
record is appended to them: `Headless` (cut inside the word "timestamp", which
swallows the next record's), `Unreadable` (cut behind "timestamp=" or "txn=", where
`std::stoll` or `std::stoul` throws), `Harmless` (the rest: skipped, but a record behind
it is read). `Joined` says what a whole record behind such a line becomes, `Torn`
what a part of one does. The stream may hand any prefix of its buffer to the file
before the program dies (`Die`); while it lives, what it has handed over early
makes no difference, since every reader in the program flushes first.

**Session.** `Start`, the commands that write the log, `Exit`, `Kill` at any moment,
and RECOVER in two steps, so that the program may die between undo's ABORT records
and their flush. RECOVER on an unreadable line ends the program
(`RecoverDies`). Records carry the run that wrote them, for the properties only.
The data store is in memory and redo applies nothing, so no value survives a
restart; what can be checked of recovery is which records it selects and writes.
Redo's loop, and the properties that select records, are written with `Picked`
(`Subsequences`), which lists the elements at a set of positions.

**Catalog.** A name is a sequence of segments, as `std::getline` splits it;
`Empty` is the segment between two dots. `ensureResource` takes a step per segment.
Values are opaque: `intToBytes` and `bytesToInt` invert each other, and only the
size matters, to `setData`'s limit. `wrote` is history.

**WaitForGraph.** One call of `hasCycle` is a sequence of steps over its local
variables: the keys still to visit, the states of the nodes, the stack of recursive
calls with the neighbours each has still to look at. Edges change only between calls.

### Plan

Done, in this order: `LockModes`, `LockManager`, `TransactionManager`, `Engine`,
then `Session` with `LogManager`, `WaitForGraph`, the refinement of `StrictLocking`,
`Serializability`, `Catalog` with `DataStore`, with the proofs of section 4. Every
safety property of the runs is a theorem, and so is the safety half of the liveness
properties: the loops go down in a well-founded order. Left: the catalog
as an implementation of an abstract one, a map from names to values (`ShowsLastWrite` says
so state by state), and the log file likewise as one of an abstract log that keeps
a prefix.

## 3. Runs

| run | instance | shows |
|---|---|---|
| `lock_flat` | 3 transactions, 2 resources without parents | compatible locks, records in step, no duplicate request, no lost wake-up, strictness, FIFO |
| `lock_rows` | 2 transactions, a table and 2 rows | types, compatible locks, records in step, the hierarchy, strictness, implementation of `StrictLocking` |
| `lock_weakened` | 2 transactions, a table and 2 rows | S on a table granted over an X on its row, after the writer read the table or a row of it (finding) |
| `engine_flat` | 3 transactions, 1 record, 2 commands each | isolation, serializability, no command lost or repeated, none asleep on a free lock, lifecycle and statistics |
| `engine_rows` | 2 transactions, a table and a row, 2 commands each, commands after completion | types, access under lock, nothing lost, nothing executed for a transaction that is over, log agrees, every command ends |
| `engine_ghost_lock` | 2 transactions, 1 record | a completed transaction is granted a lock (finding) |
| `engine_order` | 3 transactions, 2 records, 2 commands each | commands of a transaction out of order (finding) |
| `engine_atomicity` | 2 transactions, 1 record | an aborted write stays (finding) |
| `session` | 3 runs of the program, 2 transactions each | the log read back is made of unbroken stretches, flushed commits are redone, RECOVER closes the log, only a death makes it unreadable |
| `session_reuse` | 2 runs, 1 transaction each | an update of an unfinished transaction is redone (finding) |
| `wait_for_graph` | all graphs on 4 nodes | `hasCycle` is correct and returns |
| `catalog` | 5 names of up to 3 segments, 6 ids and more | tree of names, stable names, last write shown |

`lock_weakened`, `engine_ghost_lock`, `engine_order`, `engine_atomicity` and
`session_reuse` are expected to be violated: each checks one sentence of the
documents or tests, quoted in `PROJECT.json` under `findings`.
`engine_atomicity` refutes the first half of "all or nothing" that TLC meets, the
aborted write; the other half fails too: a transaction commits while its own
commands are parked, and they are dropped (`main.cpp:287`).

One more disagreement needs no run of its own. `include/utils/enums.h:55` says that REDO
replays "committed and uncommitted transactions", as ARIES does. `RecoveryManager::redo`
selects the updates of committed transactions only, and `COMPLETION_REPORT.md:38` and the
asserts at `test/test_recovery.cpp:40-43` side with it. `RedoFindsCommitted`, which holds,
says so in its second part; the comment in `enums.h` is the one that is wrong about the code.

Bounds, and why they are enough:

* `MaxCopies = 2` (MCLockManager): a transaction asks again only where it owns at
  most one Lock object. Two objects of one transaction are enough for the scan to
  have a choice; a third behaves like the second.
* 3 transactions on flat resources let a holder, a waiter and an overtaking or
  second waiter meet; in the hierarchy, 2 transactions and 2 rows make every
  replacement of an intention lock by another and every refusal half way.
* `MaxRun = 3` and `MaxLog = 5` (Session): a line cut by one run, continued and cut
  again by the next, and read by the third; five records besides undo's are enough for a
  committed and an unfinished transaction, and for the same id in two runs. Undo's
  records are not bounded; a RECOVER that finds nothing incomplete writes none.
* 4 nodes (WaitForGraph) have every shape the search can confuse: a cycle not through
  the first key, two ways to one node, a node without a key, two components.
* `MaxId = 6` (Catalog): no command starts once more than six ids are given out. The names
  of `MCCatalog` need five, and the name "." a new one at each use. One value is larger than
  `MAX_RECORD_SIZE = 2`, and no command writes it: the program's values are decimal ints of at most 11
  bytes, far below the megabyte limit. So the branch that refuses a value (`Record::setData`) is
  never taken in this run; only the theorem `RecordsFit` covers it.
* `MaxTxn` bounds the ids. Ids are `uint32_t` in the code and do not wrap in any
  run of realistic length.
* `MaxOps = 2` is enough for a command parked behind a parked one, and for an
  upgrade. `LateTxns` names the transactions that may also be named in commands
  after they completed, one such command parked at a time.
* `RequestTypes = {"S", "X"}` are the types the engine asks for; intention types are
  asked of ancestors by the lock manager itself.

`HeadBlocked` and `PendingBlocked` are checked on resources without parents only:
with parents, replacing IX by IS frees a queue that nobody processes
(`LockManager.cpp:60`), and the property is false.

Deadlock. The `Lock*`, `Session*` and `Catalog` configurations switch TLC's deadlock
check off: a caller may stop when all transactions are completed and hold nothing;
the third run of the program may be down; the ids may be used up. The others keep it
(RECOVER, and a change of an edge, is always possible between commands).

Fairness. `EngineSpec`, and `HistorySpec` likewise, has weak fairness of `LoopStep`
only: a command that has started runs to its end because one thread does nothing else. Nothing obliges the
user to issue a command, so nothing is promised about parked commands whose lock
nobody releases. `CommandsEnd` uses exactly this: `processPending` and RECOVER's
loop stop, because a pass repeats only after a command has left `pending`.
`GraphSpec` has weak fairness of `SearchStep` for the same reason, and `SearchEnds`
uses it. `SessionSpec` and `CatalogSpec` have none: a killed program does not go on.

Every property of a passing run has been tried against a changed definition (the
operators commented "Mutant") that breaks it, such as a missing guard or a wrong
iterator.

## 4. Proofs

All theorems hold for every set of transactions and resources, every hierarchy,
every set of names and nodes and every bound. They assume the named assumptions on
the constants (each module's `...Assumption`) and nothing else, but for two theorems
that say so: `NoLostWakeup` and `NothingSleeps` are about callers that use resources
without parents and ask for S and X (`FlatCallers`), as `main.cpp` does with names of
one segment. With parents both are false (`LockManager.cpp:60`, see section 3).

`LockManagerProofs`: `LockSpec => []SafetyInv` with

    SafetyInv == LockTypeOK /\ CompatibleLocks /\ TxnLocksMatch
                            /\ ParentLocked /\ OneRequestPerTxn

and its parts one by one (`TypeCorrect`, `LocksCompatible`, `RecordsAgree`,
`HierarchyRespected`, `QueuedOnce`), and the action property `StrictTwoPhase`
(`TwoPhaseStrict`). All changes of the table are one of two kinds, a request or a
release, so the proof has lemmas on what each kind does to the types held
(`RequestModes`, `ReleaseModes`), to having a lock (`RequestHas`, `ReleaseHas`) and
to waiting (`RequestWaiting`, `ReleaseWaiting`), and the parts of the invariant
follow from those. Three points carry the weight:

* The type invariant says that a count of Lock objects never becomes negative:
  whatever lock the scan finds is there to be replaced (`ReplaceType`).
* `processWaitQueue` compares a waiter with the locks in the table while it adds to
  it. `Woken` states what this amounts to, and `WokenCompatible` derives that the
  woken are compatible with the remaining locks and with one another.
* `ParentLocked` speaks of queued requests as well as of locks. Without them it is
  not inductive: a woken waiter gets its lock without asking for the parent's.

The queues are FIFO (`QueuesFifo`): an operation appends one request to a queue, or takes out
requests from its front, and all that it takes out own a lock then. `NoLostWakeup` proves
`HeadBlocked`: a request enters an empty queue because of a lock; a lock is only replaced by a
stronger one (`FlatRequestStronger`), so what blocks a head blocks it until a release,
and a release looks at the queue.

The refinement is proved in the same module: `LockSpec => Strict!StrictSpec`
(`StrictRefinement`) with the abstract lock table `Held`, the types of a transaction's
Lock objects. A request maps to `Request`, a completion or release to `Finish`; that a
request never gives up a lock, and that releases only add to what the others hold, are the
lemmas `RequestModes` and `ReleaseModes` again, and `NoConflict` is `CompatibleLocks`.

`EngineProofs`: the engine's types (`EngineTypeCorrect`); every step of the engine
is a step of `LockManager` or leaves it alone, so `EngineSpec => LockSpec`
(`UsesLockManager`) and the theorems above hold in the engine; and isolation. The
inductive invariant is

    EngineInv == EngineTypeOK /\ SafetyInv /\ ManagersAgree /\ AccessLocked

`AccessLocked` (what an active transaction executed is under its lock) is preserved
because a command executes only when its request is granted (`GrantedHas`) and the lock
manager takes locks from completed transactions only (`KeepsLocks`). The latter
speaks of the lock manager's own set of completed transactions, hence
`ManagersAgree`: no active transaction is in that set or about to be put there by RECOVER,
and ids not handed out yet have executed nothing. `NoDirtyAccess` then
follows from `CompatibleLocks`: an X lock excludes every other lock (`Isolation`).

The engine uses the transaction manager only through its operations
(`UsesTransactionManager`), so its theorems hold in the engine too. `LogMatches` follows from an
invariant (`LogInv`) that holds during RECOVER as well: between the bulk abort and the undo
records, no transaction is active, and each one the log has open is ABORTED, so the records
still to come are the right ones.

`EveryCommandKept` proves `NothingLost` from `CommandsInv`: a transaction's commands are
numbered in the order of issue, no number exceeds the count (`Numbered`), and an id that was
not handed out has no commands (`Untouched`). The steps do few things to the commands (park
a new one, execute it at once, drop the one at the cursor, execute that one), each with a
lemma; those that remove rest on `RemoveElements`, which says at which place each
command that stays was before.

`OverIsOver` proves `OverMeansOver`. Only commands with a number execute, and a drain's pass
leaves nothing of a transaction that is over behind its iterator (`PassedActive`); the loop
stops only after a whole pass. Commands without a number are those issued for a
transaction that was over (`IdleLate`), and completed transactions stay completed.

`NothingSleeps` proves `PendingBlocked` with `WaitInv`. Its part `PassRefused` is about the
loop of `processPending`: as long as a pass has executed nothing, each command it went by was
refused, and is refused still, because nothing was released. When a
pass ends the loop without having executed anything, this is `PendingBlocked`; until the next completion
locks only grow stronger. A command refused by the lock manager is refused by a lock, never by
the queue (`RefusedMeans`).

`LoopsProgress` is the safety half of `CommandsEnd`. While a command's loop runs nothing else
happens, and each step of it ends the command or goes down in the order of
`LoopAdvances`: RECOVER's set of transactions gets smaller; in `processPending` the list of
parked commands gets shorter, or stays while the progress flag is taken down, or stays, flag
and all, while the iterator moves on. So a pass is repeated only if it has shortened the list.
(That the order has no infinite descent, and that a step is always enabled, is
left to TLC: the first is an induction, the second speaks of ENABLED.)

`TransactionManagerProofs`: `StatisticsAgree` is inductive with `TxnTypeOK` and the fact
that the ids below `next_transaction_id` are the ones handed out (`TxnInv`). The
work is in the cardinalities: completing a set of transactions moves exactly its size
from one count to another. `LifecycleRespected` follows from the same invariant.

`SerializabilityProofs`: the order of conflicts has no circle. The
invariant (`HistoryInv`) says why: a transaction that precedes another has begun and is no
longer active (`PrecedesOver`). A command executes only for an active transaction, and
isolation leaves it no conflict with an active one; so a step adds only orders that lead to a
transaction that precedes nobody yet, and these close no circle. Aborted transactions
are included, since their writes stay.

`WaitForGraphProofs`: `hasCycle` is right about every graph. `GraphInv` says what the
search knows: the nodes being visited are those on the stack, each once, and the stack is
a path; a neighbour already looked at is visited or next on the stack; the neighbours of
visited nodes are visited, and no set of visited nodes is a circle; a key the loop has passed
is visited, or at the bottom of the stack. `SearchProgress` is the safety half of `SearchEnds`: the keys
to go through, the nodes not entered, the nodes not visited and the edges not followed
(`Work`) only get fewer, and every step that does not return makes one of them so
(`WorkShrinks`). It needs the invariant: an edge is taken off because the top of the stack is
a node being visited (`TopGrey`).

`CatalogProofs`: the data store's types and size limit (`RecordsFit`); the tree of the
names (`TreeCorrect`), inductive with the types (`CatalogTypeCorrect`) and the facts about
the walk in progress (`WalkOK`): the path read so far is a known name and `last_id` its
id, or only empty segments have been read; and from the same invariant that a name keeps its
id and parent (`NamesKept`). `NamesShowTheirWrites` proves `ShowsLastWrite`: the walk must
also end at the name's own id, so `ShowsInv` adds that the path is the name read so far
without its empty segments (`WalkMeans`), and that nothing was written to a name that was never used
(`WroteKnown`).

`SessionProofs`: first the log alone. The four things a cut line can be are closed under
being cut and continued (`LogFileCorrect`), and complete lines are never lost or changed
(`CompleteLinesStay`). Then the sessions, for every number of runs and of transactions:
the types (`SessionTypeCorrect`), and three theorems on what recovery can rely on.

* `StretchesRead` (`LogIsStretches`). What a run has written is in three parts: complete
  lines, a last line that lost its newline, and the stream. `FileInv` says so
  (`StretchOf`), with the runs in their order in the file (`RunsInOrder`). Every step but `Start`
  is a `Moves`: it writes some records, and a number of those in the stream become lines
  behind whatever line was cut. So the proof is one lemma on moves (`MoveInv`) and one per
  action that says which move it is. The first record of a run may be swallowed, by
  a `Headless` line, but no later one, because behind it the file ends with a newline:
  that is the `m = 0` of `StretchOf`.
* `CommittedRedone` (`RedoFindsCommitted`). No run writes an update of a transaction
  behind its COMMIT, nor begins with either (`Clean`): an update is written for an
  active transaction, and the transaction manager knows of all the run's commits
  (`CommandsInOrder`, which uses `TxnForward`, the proof of `Lifecycle`). So a flush that
  covers the COMMIT covers the updates, the stretch that is read has them all, and redo
  selects the same ones from it (`UpdatesPicked`, `UpdatesInStretch`). `UndoPending` says that
  RECOVER's lists are those of the file until undo has flushed.
* `RecoverCloses` (`RecoveryCloses`). Behind undo's records, which begin nothing, only a
  transaction without an ABORT among them can be open (`IncompleteAfter`). If the file's
  last line was complete there is none; otherwise it is at most one, and `StretchOf` says that
  undo's first record is the run's first.

`FailsAfterDeath` (`UnreadableByDeath`) is about lines that make `fromString` throw. Whole records
written behind any line change nothing about the file being readable
(`WritingKeepsFailing`): a line cut behind a key swallows the key of the record appended to
it and fails as before, and no other becomes one that fails. So every action but a death
keeps things as they are, and a death with an empty buffer too (`DeathKeepsFailing`).

`SequenceLemmas` has what these proofs and `CatalogProofs` need of sequences: that a finite set of
numbers can be enumerated in increasing order, in one way (`AscendingFacts`,
`AscendingUnique`), and how `Picked` behaves on concatenations and on what was picked.
Induction enters through the least element of a set of numbers (`LeastExists`).

Only model-checked: `CommandsEnd` and `SearchEnds` themselves. They need fairness, which is
out of the prover's reach; what is proved of them is `LoopsProgress` and `SearchProgress`.

## 5. Not modelled

* `getLockType`, `getTransaction`, the statistics of `Transaction`, the size and id
  queries of `DataStore`: nothing that changes state reads them.
* `LogManager::clearLogs`, `DataStore::deleteRecord` and `clear`,
  `TransactionManager::clearCompletedTransactions` and a direct `releaseLock` have no caller in
  the program (some have one in the tests). The modules define them, and the
  theorems about `LogSpec`, `DataSpec`, `TxnSpec` and `LockSpec` cover them.
* Durability as `include/transaction/Transaction.h:25` words it ("Committed changes
  persist"): the values are in memory only, redo applies none, and a reported COMMIT is lost
  if the program dies before the next flush. No property says otherwise;
  `RedoFindsCommitted` promises what holds, the records a flush has covered.
* Use of `WaitForGraph` by the engine: there is none, so two transactions that wait for
  each other stay parked until the user ends one.
* `txn_held_resources` and `resumed` in main.cpp: written, or used for a message, but
  never read by a decision. `processPending` calls `ensureResource` for that message;
  `executeCommand` calls it again at once.
* Failure to open or write the log file, and running out of memory.
* The limits of `constants.h` other than `INITIAL_TXN_ID` and `MAX_RECORD_SIZE`: enforced
  nowhere.
* Wording of messages, timestamps, text of values.
