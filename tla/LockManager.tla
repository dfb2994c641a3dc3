----------------------------- MODULE LockManager -----------------------------
(***************************************************************************)
(* src/concurrency/LockManager.cpp: the lock table of the transaction      *)
(* manager, its wait queues and its resource hierarchy.                    *)
(*                                                                         *)
(* The class is used by one thread, so every public call is one atomic     *)
(* step.  The private helpers appear as operators on the unprimed state,   *)
(* one for each question the code asks.                                    *)
(*                                                                         *)
(* The code keeps, for each resource, a std::set of pointers to Lock       *)
(* objects ordered by ADDRESS, and one transaction may own several of      *)
(* them (a request can be granted again by the wait queue).  The table is  *)
(* therefore a bag, resource_locks[x][t][m] counting t's Lock objects of   *)
(* type m on x, and which of t's objects a scan meets first is left open:  *)
(* the allocator decides it.                                               *)
(***************************************************************************)
EXTENDS LockModes, Integers, Sequences, FiniteSets

CONSTANTS
    Txn,            \* transaction identifiers
    Resource,       \* resource identifiers
    NoParent,       \* "not in resource_parent_"
    Hierarchy,      \* the <<child, parent>> pairs a caller may declare
    RequestTypes    \* the lock types callers ask for

ASSUME NoParentAssumption  == NoParent \notin Resource
ASSUME HierarchyAssumption == Hierarchy \subseteq Resource \X Resource
ASSUME RequestAssumption   == RequestTypes \subseteq Mode

VARIABLES
    resource_locks,         \* bag of Lock objects per resource
    wait_queues,            \* FIFO queue of refused requests per resource
    txn_locks,              \* the resources a transaction holds locks on
    completed_transactions, \* transactions that committed or aborted
    resource_parent         \* the hierarchy declared so far

lockVars == <<resource_locks, wait_queues, txn_locks,
              completed_transactions, resource_parent>>

Request == [txn : Txn, type : Mode]

LockTypeOK ==
    /\ resource_locks \in [Resource -> [Txn -> [Mode -> Nat]]]
    /\ wait_queues \in [Resource -> Seq(Request)]
    /\ txn_locks \in [Txn -> SUBSET Resource]
    /\ completed_transactions \in SUBSET Txn
    /\ resource_parent \in [Resource -> Resource \cup {NoParent}]

-----------------------------------------------------------------------------
(***************************************************************************)
(* Reading the table.                                                      *)
(***************************************************************************)

\* The lock types among a transaction's Lock objects (bag: [Mode -> Nat]).
ModesIn(bag) == {m \in Mode : bag[m] > 0}

\* The lock types t owns on x.
HeldModes(t, x) == ModesIn(resource_locks[x][t])

HasLock(t, x) == HeldModes(t, x) # {}

\* The transactions with a queued request on x.
Waiting(x) == {wait_queues[x][i].txn : i \in DOMAIN wait_queues[x]}

\* Mutant: the scan does not compare transaction ids.
ExistingOfAny(t, x) ==
    LET all == UNION {HeldModes(u, x) : u \in Txn}
    IN  IF all # {} THEN all ELSE {NoLock}

\* What the scan for an existing lock of t on x may find first.
Existing(t, x) == IF HasLock(t, x) THEN HeldModes(t, x) ELSE {NoLock}

\* The code tests every pair of locks in both directions.
Compatible(m, n) == IsCompatible(m, n) /\ IsCompatible(n, m)

\* Mutant: only the X locks of others refuse a request.
CompatibleWithOthersOnlyX(t, x, m) ==
    \A u \in Txn \ {t} : "X" \notin HeldModes(u, x)

CompatibleWithOthers(t, x, m) ==
    \A u \in Txn \ {t} : \A h \in HeldModes(u, x) : Compatible(h, m)

(***************************************************************************)
(* The ancestors of x: the least set that contains x's parent and, with a  *)
(* resource, that resource's parent.  The code walks the same chain up and *)
(* then visits it from the root down.                                      *)
(***************************************************************************)
ClosedUpwards(S) ==
    \A y \in S : resource_parent[y] \in S \cup {NoParent}

Ancestors(x) ==
    {y \in Resource :
        \A S \in SUBSET Resource :
            ClosedUpwards(S) /\ resource_parent[x] \in S \cup {NoParent}
                => y \in S}

Path(x) == Ancestors(x) \cup {x}

-----------------------------------------------------------------------------
(***************************************************************************)
(* requestLock.  In a request of t for type m on x, "found" is the lock of *)
(* t the scan meets at each resource of the path (NoLock if none).         *)
(***************************************************************************)

\* The type asked of y on the way to x.
Asked(x, m, y) == IF y = x THEN m ELSE AncestorIntention(m)

\* Mutant: an X lock is taken to cover only another X request.
CoversSameType(found, m) == found = m

\* The lock found already answers the request: nothing changes.
Covers(found, m) == found \in {m, "X"}

Grantable(t, y, m, found) ==
    Covers(found, m) \/ CompatibleWithOthers(t, y, m)

\* Mutant: a refusal at an ancestor does not stop the call.
ReachedAll(t, x, m, found) == Path(x)

\* The resources the call reaches: it stops below the first refusal.
Reached(t, x, m, found) ==
    {y \in Path(x) :
        \A a \in Ancestors(y) : Grantable(t, a, Asked(x, m, a), found[a])}

Won(t, x, m, found) ==
    {y \in Reached(t, x, m, found) :
        Grantable(t, y, Asked(x, m, y), found[y])}

\* Where a Lock object is inserted, in place of the one found if any.
Inserted(t, x, m, found) ==
    {y \in Won(t, x, m, found) : ~Covers(found[y], Asked(x, m, y))}

\* Mutant: the already_waiting scan is dropped.
EnqueuedAgain(t, x, m, found) == Reached(t, x, m, found) \ Won(t, x, m, found)

\* Where the refused request is queued, unless t already waits there.
Enqueued(t, x, m, found) ==
    {y \in Reached(t, x, m, found) \ Won(t, x, m, found) : t \notin Waiting(y)}

Replace(bag, old, new) ==
    [m \in Mode |-> bag[m] + (IF m = new THEN 1 ELSE 0)
                           - (IF m = old THEN 1 ELSE 0)]

RequestActive(t, x, m, found, granted) ==
    /\ t \notin completed_transactions
    /\ granted = (x \in Won(t, x, m, found))
    /\ resource_locks' =
           [y \in Resource |->
               IF y \in Inserted(t, x, m, found)
               THEN [resource_locks[y] EXCEPT
                        ![t] = Replace(@, found[y], Asked(x, m, y))]
               ELSE resource_locks[y]]
    /\ txn_locks' = [txn_locks EXCEPT ![t] = @ \cup Inserted(t, x, m, found)]
    /\ wait_queues' =
           [y \in Resource |->
               IF y \in Enqueued(t, x, m, found)
               THEN Append(wait_queues[y],
                           [txn |-> t, type |-> Asked(x, m, y)])
               ELSE wait_queues[y]]
    /\ UNCHANGED <<completed_transactions, resource_parent>>

RequestLock(t, x, m, granted) ==
    \/ /\ t \in completed_transactions
       /\ granted = FALSE
       /\ UNCHANGED lockVars
    \/ \E found \in [Path(x) -> Mode \cup {NoLock}] :
          /\ \A y \in Path(x) : found[y] \in Existing(t, y)
          /\ RequestActive(t, x, m, found, granted)

-----------------------------------------------------------------------------
(***************************************************************************)
(* Releasing, and processWaitQueue.  "bags" is the lock table of one       *)
(* resource after the release, "queue" its wait queue.                     *)
(***************************************************************************)

CompatibleWithAll(bags, m) ==
    \A u \in Txn : \A h \in ModesIn(bags[u]) : Compatible(h, m)

\* Mutant: the loop becomes an if, one waiter per release.
WokenHeadOnly(bags, queue) ==
    {i \in DOMAIN queue : i = 1 /\ CompatibleWithAll(bags, queue[i].type)}

\* The queue positions the loop grants: a prefix, each compatible with every
\* lock in the table, its requester's own included, and with those before it.
Woken(bags, queue) ==
    {i \in DOMAIN queue :
        \A j \in 1..i :
            /\ CompatibleWithAll(bags, queue[j].type)
            /\ \A k \in 1..(j - 1) : Compatible(queue[k].type, queue[j].type)}

\* Mutant: a grant overwrites the locks of its transaction.
GrantWokenOver(bags, queue) ==
    [u \in Txn |->
        IF \A i \in Woken(bags, queue) : queue[i].txn # u THEN bags[u]
        ELSE [m \in Mode |-> Cardinality({i \in Woken(bags, queue) :
                                     queue[i] = [txn |-> u, type |-> m]})]]

GrantWoken(bags, queue) ==
    [u \in Txn |-> [m \in Mode |->
        bags[u][m] + Cardinality({i \in Woken(bags, queue) :
                                     queue[i] = [txn |-> u, type |-> m]})]]

\* Mutant: releaseLock erases the wait queue although waiters are left.
DropAll(bags, queue) == << >>

DropWoken(bags, queue) ==
    SubSeq(queue, Cardinality(Woken(bags, queue)) + 1, Len(queue))

\* The locks of x once t's are gone.
Without(t, x) == [resource_locks[x] EXCEPT ![t] = [m \in Mode |-> 0]]

\* Mutant: processWaitQueue does not record its grants in txn_locks_.
WokenUnrecorded(t, x) == {}

WokenAt(t, x) ==
    {wait_queues[x][i].txn : i \in Woken(Without(t, x), wait_queues[x])}

\* releaseLock of t on every resource of "released", each followed by
\* processWaitQueue.  The releases touch different resources and commute.
Release(t, released) ==
    /\ resource_locks' =
           [x \in Resource |->
               IF x \in released
               THEN GrantWoken(Without(t, x), wait_queues[x])
               ELSE resource_locks[x]]
    /\ wait_queues' =
           [x \in Resource |->
               IF x \in released
               THEN DropWoken(Without(t, x), wait_queues[x])
               ELSE wait_queues[x]]

\* Mutant: releaseLock without its strict two-phase guard.
ReleaseLockEarly(t, x) ==
    /\ HasLock(t, x)
    /\ Release(t, {x})
    /\ txn_locks' = [u \in Txn |->
           (IF u = t THEN txn_locks[u] \ {x} ELSE txn_locks[u])
               \cup {y \in {x} : u \in WokenAt(t, y)}]
    /\ UNCHANGED <<completed_transactions, resource_parent>>

ReleaseLock(t, x) ==
    /\ t \in completed_transactions
    /\ HasLock(t, x)
    /\ Release(t, {x})
    /\ txn_locks' = [u \in Txn |->
           (IF u = t THEN txn_locks[u] \ {x} ELSE txn_locks[u])
               \cup {y \in {x} : u \in WokenAt(t, y)}]
    /\ UNCHANGED <<completed_transactions, resource_parent>>

\* The resources completeTransaction releases for t.
ToRelease(t) == {x \in txn_locks[t] : HasLock(t, x)}

CompleteTransaction(t) ==
    /\ completed_transactions' = completed_transactions \cup {t}
    /\ Release(t, ToRelease(t))
    /\ txn_locks' = [u \in Txn |->
           IF u = t THEN {}
           ELSE txn_locks[u] \cup {y \in ToRelease(t) : u \in WokenAt(t, y)}]
    /\ UNCHANGED resource_parent

\* setResourceParent, as its callers use it: a resource gets its parent when
\* it is created, before it has children, locks or waiters.
SetResourceParent(child, parent) ==
    /\ <<child, parent>> \in Hierarchy
    /\ resource_parent[child] = NoParent
    /\ \A x \in Resource : resource_parent[x] # child
    /\ \A t \in Txn : ~HasLock(t, child)
    /\ Waiting(child) = {}
    /\ resource_parent' = [resource_parent EXCEPT ![child] = parent]
    /\ UNCHANGED <<resource_locks, wait_queues, txn_locks,
                   completed_transactions>>

-----------------------------------------------------------------------------

LockInit ==
    /\ resource_locks = [x \in Resource |-> [t \in Txn |-> [m \in Mode |-> 0]]]
    /\ wait_queues = [x \in Resource |-> << >>]
    /\ txn_locks = [t \in Txn |-> {}]
    /\ completed_transactions = {}
    /\ resource_parent = [x \in Resource |-> NoParent]

\* The public calls that are not lock requests.
Housekeeping ==
    \/ \E t \in Txn, x \in Resource : ReleaseLock(t, x)
    \/ \E t \in Txn : CompleteTransaction(t)
    \/ \E child, parent \in Resource : SetResourceParent(child, parent)

LockNext ==
    \/ \E t \in Txn, x \in Resource, m \in RequestTypes, granted \in BOOLEAN :
          RequestLock(t, x, m, granted)
    \/ Housekeeping

LockSpec == LockInit /\ [][LockNext]_lockVars

-----------------------------------------------------------------------------
(***************************************************************************)
(* What the lock manager promises.                                         *)
(***************************************************************************)

\* The point of the class: at every moment the locks of different
\* transactions on one resource are compatible, whether they came from a
\* request, from replacing a weaker lock or from the wait queue.
CompatibleLocks ==
    \A x \in Resource : \A t, u \in Txn :
        t # u => \A m \in HeldModes(t, x), n \in HeldModes(u, x) :
                    Compatible(m, n)

\* txn_locks_ and resource_locks_ are two records of the same fact, updated
\* in different places; completeTransaction trusts the first to empty the
\* second.  They agree on every transaction that is still active, so its
\* completion releases all its locks.
TxnLocksMatch ==
    \A t \in Txn \ completed_transactions :
        txn_locks[t] = {x \in Resource : HasLock(t, x)}

\* Hierarchical locking: an active transaction with a lock, or a queued
\* request, on a resource has a lock on the resource's parent, although the
\* path is locked one resource at a time and may be refused half way.
ParentLocked ==
    \A t \in Txn \ completed_transactions : \A x \in Resource :
        /\ resource_parent[x] # NoParent
        /\ HasLock(t, x) \/ t \in Waiting(x)
        => HasLock(t, resource_parent[x])

\* A transaction waits at most once in a queue, however often it retries
\* (the already_waiting scan), so one release grants it at most one lock.
OneRequestPerTxn ==
    \A x \in Resource : \A i, j \in DOMAIN wait_queues[x] :
        wait_queues[x][i].txn = wait_queues[x][j].txn => i = j

\* No lost wake-up: the head of every queue is kept there by a lock in the
\* table.  (Only for callers that ask for S and X on resources without
\* parents: replacing IX by IS can free a queue without processing it.)
HeadBlocked ==
    \A x \in Resource :
        wait_queues[x] # << >> =>
            ~ CompatibleWithAll(resource_locks[x], Head(wait_queues[x]).type)

\* Multi-granularity locking: nobody reads a whole table (S on it) while a
\* transaction is writing one of its rows (X), as test/test_deadlock.cpp:54 has
\* it.  False: the writer's IX on the table does not survive its own reads.
TableReadExcludesRowWrite ==
    \A x \in Resource : \A t, u \in Txn :
        /\ resource_parent[x] # NoParent
        /\ t # u
        /\ "X" \in HeldModes(t, x)
        => "S" \notin HeldModes(u, resource_parent[x])

\* Strict two-phase locking: while a transaction is active it never loses
\* its last lock on a resource, and never an X lock, whatever it and the
\* others request, release or complete.
KeepsLocks ==
    \A t \in Txn \ completed_transactions' : \A x \in Resource :
        /\ HasLock(t, x) => HasLock(t, x)'
        /\ "X" \in HeldModes(t, x) => "X" \in HeldModes(t, x)'

StrictTwoPhase == [][KeepsLocks]_lockVars

\* Queues are FIFO: requests leave a queue from its front only, and each one
\* that leaves has become a lock of its transaction.
QueueStep(x) ==
    \E n \in 0..Len(wait_queues[x]) :
        LET rest == SubSeq(wait_queues[x], n + 1, Len(wait_queues[x])) IN
        /\ \/ wait_queues[x]' = rest
           \/ \E r \in Request : wait_queues[x]' = Append(rest, r)
        /\ \A i \in 1..n :
              LET r == wait_queues[x][i]
              IN  r.type \in ModesIn(resource_locks'[x][r.txn])

FifoQueues == [][\A x \in Resource : QueueStep(x)]_lockVars

=============================================================================
