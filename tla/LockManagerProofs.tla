-------------------------- MODULE LockManagerProofs --------------------------
(***************************************************************************)
(* Proofs about LockManager, for every set of transactions and resources,  *)
(* every hierarchy and every request type.                                 *)
(***************************************************************************)
EXTENDS LockRefinement, SequenceLemmas

-----------------------------------------------------------------------------
(***************************************************************************)
(* Lemmas about the operators.                                             *)
(***************************************************************************)

\* Replacing an owned lock (or none) by another type keeps a bag a bag.
LEMMA ReplaceType ==
    ASSUME NEW bag \in [Mode -> Nat], NEW new \in Mode,
           NEW old \in Mode \cup {NoLock}, old # new,
           old \in Mode => bag[old] > 0
    PROVE  Replace(bag, old, new) \in [Mode -> Nat]
<1> SUFFICES ASSUME NEW m \in Mode
             PROVE  bag[m] + (IF m = new THEN 1 ELSE 0)
                           - (IF m = old THEN 1 ELSE 0) \in Nat
    BY DEF Replace
<1>1. CASE m = old BY <1>1
<1>2. CASE m # old BY <1>2
<1>3. QED BY <1>1, <1>2

\* After a replacement the bag has the new type, and otherwise only what it
\* had; nothing but the replaced type can disappear.
LEMMA ReplaceModes ==
    ASSUME NEW bag \in [Mode -> Nat], NEW new \in Mode,
           NEW old \in Mode \cup {NoLock}, old # new
    PROVE  /\ new \in ModesIn(Replace(bag, old, new))
           /\ ModesIn(Replace(bag, old, new)) \subseteq ModesIn(bag) \cup {new}
           /\ ModesIn(bag) \ {old} \subseteq ModesIn(Replace(bag, old, new))
BY DEF Replace, ModesIn

\* The granted positions of a queue are finitely many.
LEMMA WokenFinite ==
    ASSUME NEW bags, NEW queue \in Seq(Request)
    PROVE  /\ IsFiniteSet(Woken(bags, queue))
           /\ Cardinality(Woken(bags, queue)) \in Nat
<1>1. IsFiniteSet(1..Len(queue)) BY FS_Interval
<1>2. Woken(bags, queue) \subseteq 1..Len(queue) BY DEF Woken
<1>3. QED BY <1>1, <1>2, FS_Subset, FS_CardinalityType

\* The types of the waiters of u that are granted.
WokenModes(bags, queue, u) ==
    {m \in Mode : \E i \in Woken(bags, queue) :
                     queue[i] = [txn |-> u, type |-> m]}

\* Granting from the queue adds, for each transaction, exactly the types of
\* its granted requests.
LEMMA GrantWokenBags ==
    ASSUME NEW bags \in [Txn -> [Mode -> Nat]], NEW queue \in Seq(Request)
    PROVE  /\ GrantWoken(bags, queue) \in [Txn -> [Mode -> Nat]]
           /\ \A u \in Txn :
                 ModesIn(GrantWoken(bags, queue)[u])
                     = ModesIn(bags[u]) \cup WokenModes(bags, queue, u)
<1> DEFINE W(u, m) == {i \in Woken(bags, queue) :
                          queue[i] = [txn |-> u, type |-> m]}
<1>1. ASSUME NEW u \in Txn, NEW m \in Mode
      PROVE  /\ Cardinality(W(u, m)) \in Nat
             /\ Cardinality(W(u, m)) = 0 <=> W(u, m) = {}
    <2>1. IsFiniteSet(W(u, m)) BY WokenFinite, FS_Subset
    <2>2. QED BY <2>1, FS_CardinalityType, FS_EmptySet
<1>2. GrantWoken(bags, queue) = [u \in Txn |-> [m \in Mode |->
          bags[u][m] + Cardinality(W(u, m))]]
    BY DEF GrantWoken
<1>3. \A u \in Txn, m \in Mode :
          m \in WokenModes(bags, queue, u) <=> W(u, m) # {}
    BY DEF WokenModes
<1>4. ASSUME NEW u \in Txn, NEW m \in Mode
      PROVE  m \in ModesIn(GrantWoken(bags, queue)[u]) <=>
                 m \in ModesIn(bags[u]) \/ W(u, m) # {}
    <2> HIDE DEF W
    <2>1. GrantWoken(bags, queue)[u][m] = bags[u][m] + Cardinality(W(u, m))
        BY <1>2
    <2>2. bags[u][m] \in Nat OBVIOUS
    <2>3. QED BY <1>1, <1>2, <2>1, <2>2 DEF ModesIn
<1>5. GrantWoken(bags, queue) \in [Txn -> [Mode -> Nat]]
    <2> HIDE DEF W
    <2>1. QED BY <1>1, <1>2
<1>6. ASSUME NEW u \in Txn
      PROVE  ModesIn(GrantWoken(bags, queue)[u])
                 = ModesIn(bags[u]) \cup WokenModes(bags, queue, u)
    <2> HIDE DEF W
    <2>1. QED BY <1>3, <1>4 DEF ModesIn, WokenModes
<1>7. QED BY <1>5, <1>6

\* What is left of a queue is a suffix of it.
LEMMA DropWokenSuffix ==
    ASSUME NEW bags, NEW queue \in Seq(Request)
    PROVE  /\ DropWoken(bags, queue) \in Seq(Request)
           /\ \E n \in Nat : \A i \in DOMAIN DropWoken(bags, queue) :
                 /\ n + i \in DOMAIN queue
                 /\ DropWoken(bags, queue)[i] = queue[n + i]
<1> DEFINE n == Cardinality(Woken(bags, queue))
<1>1. n \in Nat BY WokenFinite
<1> HIDE DEF n
<1>2. DropWoken(bags, queue) = SubSeq(queue, n + 1, Len(queue))
    BY DEF DropWoken, n
<1>3. SubSeq(queue, n + 1, Len(queue)) \in Seq(Request)
    BY <1>1
<1>4. \A i \in DOMAIN SubSeq(queue, n + 1, Len(queue)) :
          /\ n + i \in DOMAIN queue
          /\ SubSeq(queue, n + 1, Len(queue))[i] = queue[n + i]
    BY <1>1
<1>5. QED BY <1>1, <1>2, <1>3, <1>4


-----------------------------------------------------------------------------
(***************************************************************************)
(* Type correctness.                                                       *)
(***************************************************************************)

\* What a request asks of a resource of its path is a lock type.
LEMMA AskedMode ==
    ASSUME NEW x, NEW m \in Mode, NEW y
    PROVE  Asked(x, m, y) \in Mode
BY DEF Asked, AncestorIntention, Mode

\* The path of a resource consists of resources.
LEMMA PathResource ==
    ASSUME NEW x \in Resource
    PROVE  Path(x) \subseteq Resource
BY DEF Path, Ancestors

\* What is known of a resource on which a request inserts a lock: the old
\* lock, if any, is another one of t's, and the others do not conflict.
LEMMA InsertedFacts ==
    ASSUME LockTypeOK, NEW t \in Txn, NEW x \in Resource, NEW m \in Mode,
           NEW found \in [Path(x) -> Mode \cup {NoLock}],
           \A y \in Path(x) : found[y] \in Existing(t, y),
           NEW y \in Inserted(t, x, m, found)
    PROVE  /\ y \in Resource
           /\ y \in Path(x)
           /\ Asked(x, m, y) \in Mode
           /\ found[y] \in Mode \cup {NoLock}
           /\ found[y] # Asked(x, m, y)
           /\ found[y] # "X"
           /\ found[y] \in Mode => resource_locks[y][t][found[y]] > 0
           /\ CompatibleWithOthers(t, y, Asked(x, m, y))
<1>1. y \in Path(x) /\ y \in Resource
    BY PathResource DEF Inserted, Won, Reached
<1>2. /\ Grantable(t, y, Asked(x, m, y), found[y])
      /\ ~Covers(found[y], Asked(x, m, y))
    BY DEF Inserted, Won
<1>3. found[y] # Asked(x, m, y) /\ found[y] # "X"
    BY <1>2 DEF Covers
<1>4. CompatibleWithOthers(t, y, Asked(x, m, y))
    BY <1>2 DEF Grantable
<1>5. found[y] \in Mode => resource_locks[y][t][found[y]] > 0
    BY <1>1 DEF Existing, HeldModes, ModesIn, HasLock, NoLock, Mode
<1>6. QED BY <1>1, <1>3, <1>4, <1>5, AskedMode

\* A request of an active transaction keeps the lock table a lock table.
LEMMA RequestActiveType ==
    ASSUME LockTypeOK, NEW t \in Txn, NEW x \in Resource, NEW m \in Mode,
           NEW granted \in BOOLEAN,
           NEW found \in [Path(x) -> Mode \cup {NoLock}],
           \A y \in Path(x) : found[y] \in Existing(t, y),
           RequestActive(t, x, m, found, granted)
    PROVE  LockTypeOK'
<1>1. ASSUME NEW y \in Inserted(t, x, m, found)
      PROVE  Replace(resource_locks[y][t], found[y], Asked(x, m, y))
                 \in [Mode -> Nat]
    <2>1. /\ y \in Resource
          /\ Asked(x, m, y) \in Mode
          /\ found[y] \in Mode \cup {NoLock}
          /\ found[y] # Asked(x, m, y)
          /\ found[y] \in Mode => resource_locks[y][t][found[y]] > 0
        BY InsertedFacts
    <2>2. resource_locks[y][t] \in [Mode -> Nat]
        BY <2>1 DEF LockTypeOK
    <2>3. QED BY <2>1, <2>2, ReplaceType
<1>2. resource_locks' \in [Resource -> [Txn -> [Mode -> Nat]]]
    BY <1>1 DEF RequestActive, LockTypeOK
<1>3. wait_queues' \in [Resource -> Seq(Request)]
    <2>1. ASSUME NEW y \in Resource
          PROVE  Append(wait_queues[y], [txn |-> t, type |-> Asked(x, m, y)])
                     \in Seq(Request)
        <3>1. [txn |-> t, type |-> Asked(x, m, y)] \in Request
            BY AskedMode DEF Request
        <3>2. wait_queues[y] \in Seq(Request) BY DEF LockTypeOK
        <3>3. QED BY <3>1, <3>2
    <2>2. QED BY <2>1 DEF RequestActive, LockTypeOK
<1>4. Inserted(t, x, m, found) \subseteq Resource
    BY InsertedFacts
<1>5. txn_locks' \in [Txn -> SUBSET Resource]
    BY <1>4 DEF RequestActive, LockTypeOK
<1>6. QED BY <1>2, <1>3, <1>5 DEF RequestActive, LockTypeOK

\* Erasing a transaction's locks leaves well-formed bags.
LEMMA WithoutType ==
    ASSUME LockTypeOK, NEW t \in Txn, NEW x \in Resource
    PROVE  Without(t, x) \in [Txn -> [Mode -> Nat]]
BY DEF Without, LockTypeOK

\* Releasing and processing the queues keeps the table's types.
LEMMA ReleaseType ==
    ASSUME LockTypeOK, NEW t \in Txn, NEW released \in SUBSET Resource,
           Release(t, released)
    PROVE  /\ resource_locks' \in [Resource -> [Txn -> [Mode -> Nat]]]
           /\ wait_queues' \in [Resource -> Seq(Request)]
<1>1. ASSUME NEW x \in Resource
      PROVE  /\ GrantWoken(Without(t, x), wait_queues[x])
                    \in [Txn -> [Mode -> Nat]]
             /\ DropWoken(Without(t, x), wait_queues[x]) \in Seq(Request)
    <2>1. wait_queues[x] \in Seq(Request) BY DEF LockTypeOK
    <2>2. QED BY <2>1, WithoutType, GrantWokenBags, DropWokenSuffix
<1>2. QED BY <1>1 DEF Release, LockTypeOK

\* releaseLock keeps the types.
LEMMA ReleaseLockType ==
    ASSUME LockTypeOK, NEW t \in Txn, NEW x \in Resource, ReleaseLock(t, x)
    PROVE  LockTypeOK'
<1>1. /\ resource_locks' \in [Resource -> [Txn -> [Mode -> Nat]]]
      /\ wait_queues' \in [Resource -> Seq(Request)]
    BY ReleaseType DEF ReleaseLock
<1>2. txn_locks' \in [Txn -> SUBSET Resource]
    BY DEF ReleaseLock, LockTypeOK
<1>3. QED BY <1>1, <1>2 DEF ReleaseLock, LockTypeOK

\* completeTransaction keeps the types.
LEMMA CompleteTransactionType ==
    ASSUME LockTypeOK, NEW t \in Txn, CompleteTransaction(t)
    PROVE  LockTypeOK'
<1>1. ToRelease(t) \subseteq Resource BY DEF ToRelease, LockTypeOK
<1>2. /\ resource_locks' \in [Resource -> [Txn -> [Mode -> Nat]]]
      /\ wait_queues' \in [Resource -> Seq(Request)]
    BY <1>1, ReleaseType DEF CompleteTransaction
<1>3. txn_locks' \in [Txn -> SUBSET Resource]
    BY <1>1 DEF CompleteTransaction, LockTypeOK
<1>4. QED BY <1>2, <1>3 DEF CompleteTransaction, LockTypeOK

\* setResourceParent keeps the types.
LEMMA SetResourceParentType ==
    ASSUME LockTypeOK, NEW child \in Resource, NEW parent \in Resource,
           SetResourceParent(child, parent)
    PROVE  LockTypeOK'
BY DEF SetResourceParent, LockTypeOK

\* An empty lock manager is well typed.
LEMMA InitType == LockInit => LockTypeOK
<1>1. << >> \in Seq(Request) OBVIOUS
<1>2. QED BY <1>1 DEF LockInit, LockTypeOK

\* Every public call keeps the types.
LEMMA NextType == LockTypeOK /\ [LockNext]_lockVars => LockTypeOK'
<1> SUFFICES ASSUME LockTypeOK, [LockNext]_lockVars PROVE LockTypeOK'
    OBVIOUS
<1>1. ASSUME NEW t \in Txn, NEW x \in Resource, NEW m \in RequestTypes,
             NEW granted \in BOOLEAN, RequestLock(t, x, m, granted)
      PROVE  LockTypeOK'
    <2>1. CASE t \in completed_transactions /\ UNCHANGED lockVars
        BY <2>1 DEF lockVars, LockTypeOK
    <2>2. CASE \E found \in [Path(x) -> Mode \cup {NoLock}] :
                  /\ \A y \in Path(x) : found[y] \in Existing(t, y)
                  /\ RequestActive(t, x, m, found, granted)
        BY <2>2, RequestActiveType, RequestAssumption
    <2>3. QED BY <1>1, <2>1, <2>2 DEF RequestLock
<1>2. CASE UNCHANGED lockVars
    BY <1>2 DEF lockVars, LockTypeOK
<1>3. QED
    BY <1>1, <1>2, ReleaseLockType, CompleteTransactionType,
       SetResourceParentType DEF LockNext, Housekeeping

\* The table, the queues and the per-transaction sets keep their shape: no
\* count of Lock objects goes negative when a lock is replaced, nothing but
\* real requests is queued.
THEOREM TypeCorrect == LockSpec => []LockTypeOK
BY InitType, NextType, PTL DEF LockSpec

-----------------------------------------------------------------------------
(***************************************************************************)
(* How the two kinds of step change the lock types held.                   *)
(***************************************************************************)

\* A request changes the types held only where it inserts a Lock object: there it
\* adds the type asked for, and only the replaced type can go.
LEMMA RequestModes ==
    ASSUME LockTypeOK, NEW t \in Txn, NEW x \in Resource, NEW m \in Mode,
           NEW granted \in BOOLEAN,
           NEW found \in [Path(x) -> Mode \cup {NoLock}],
           \A y \in Path(x) : found[y] \in Existing(t, y),
           RequestActive(t, x, m, found, granted),
           NEW u \in Txn, NEW y \in Resource
    PROVE  /\ (y \notin Inserted(t, x, m, found) \/ u # t)
                  => HeldModes(u, y)' = HeldModes(u, y)
           /\ (y \in Inserted(t, x, m, found) /\ u = t) =>
                  /\ Asked(x, m, y) \in HeldModes(u, y)'
                  /\ HeldModes(u, y)'
                         \subseteq HeldModes(u, y) \cup {Asked(x, m, y)}
                  /\ HeldModes(u, y) \ {found[y]} \subseteq HeldModes(u, y)'
<1>1. CASE y \notin Inserted(t, x, m, found) \/ u # t
    <2>1. resource_locks'[y][u] = resource_locks[y][u]
        BY <1>1 DEF RequestActive, LockTypeOK
    <2>2. QED BY <1>1, <2>1 DEF HeldModes
<1>2. CASE y \in Inserted(t, x, m, found) /\ u = t
    <2>1. resource_locks'[y][t]
              = Replace(resource_locks[y][t], found[y], Asked(x, m, y))
        BY <1>2 DEF RequestActive, LockTypeOK
    <2>2. /\ Asked(x, m, y) \in Mode
          /\ found[y] \in Mode \cup {NoLock}
          /\ found[y] # Asked(x, m, y)
        BY <1>2, InsertedFacts
    <2>3. resource_locks[y][t] \in [Mode -> Nat] BY DEF LockTypeOK
    <2>4. QED BY <1>2, <2>1, <2>2, <2>3, ReplaceModes DEF HeldModes
<1>3. QED BY <1>1, <1>2

\* After the erase the transaction holds nothing and the others what they held.
LEMMA WithoutModes ==
    ASSUME LockTypeOK, NEW t \in Txn, NEW x \in Resource, NEW u \in Txn
    PROVE  ModesIn(Without(t, x)[u])
               = IF u = t THEN {} ELSE HeldModes(u, x)
BY DEF Without, ModesIn, HeldModes, LockTypeOK

\* A release takes every lock of t on the released resources and gives each
\* transaction the types of its woken requests.
LEMMA ReleaseModes ==
    ASSUME LockTypeOK, NEW t \in Txn, NEW released \in SUBSET Resource,
           Release(t, released), NEW u \in Txn, NEW x \in Resource
    PROVE  /\ x \notin released => /\ HeldModes(u, x)' = HeldModes(u, x)
                                   /\ wait_queues'[x] = wait_queues[x]
           /\ x \in released =>
                 HeldModes(u, x)' = (IF u = t THEN {} ELSE HeldModes(u, x))
                     \cup WokenModes(Without(t, x), wait_queues[x], u)
<1>1. CASE x \notin released
    BY <1>1 DEF Release, HeldModes
<1>2. CASE x \in released
    <2>1. /\ Without(t, x) \in [Txn -> [Mode -> Nat]]
          /\ wait_queues[x] \in Seq(Request)
        BY WithoutType DEF LockTypeOK
    <2>2. HeldModes(u, x)'
              = ModesIn(GrantWoken(Without(t, x), wait_queues[x])[u])
        BY <1>2 DEF Release, HeldModes
    <2>3. HeldModes(u, x)' = ModesIn(Without(t, x)[u])
              \cup WokenModes(Without(t, x), wait_queues[x], u)
        BY <2>1, <2>2, GrantWokenBags
    <2>4. ModesIn(Without(t, x)[u]) = IF u = t THEN {} ELSE HeldModes(u, x)
        BY WithoutModes
    <2>5. QED BY <1>2, <2>3, <2>4
<1>3. QED BY <1>1, <1>2

-----------------------------------------------------------------------------
(***************************************************************************)
(* Locks of different transactions are compatible.                         *)
(***************************************************************************)

\* The code tests both directions, so its compatibility is symmetric.
LEMMA CompatibleSymmetric ==
    ASSUME NEW m, NEW n PROVE Compatible(m, n) <=> Compatible(n, m)
BY DEF Compatible

\* Two granted waiters are compatible with each other, and a granted waiter
\* with every lock left in the table.
LEMMA WokenCompatible ==
    ASSUME NEW bags, NEW queue \in Seq(Request),
           NEW i \in Woken(bags, queue)
    PROVE  /\ CompatibleWithAll(bags, queue[i].type)
           /\ \A j \in Woken(bags, queue) :
                 i # j => Compatible(queue[i].type, queue[j].type)
<1>1. i \in 1..Len(queue) /\ i \in 1..i BY DEF Woken
<1>2. CompatibleWithAll(bags, queue[i].type) BY <1>1 DEF Woken
<1>3. ASSUME NEW j \in Woken(bags, queue), i # j
      PROVE  Compatible(queue[i].type, queue[j].type)
    <2>1. j \in 1..Len(queue) /\ j \in 1..j BY DEF Woken
    <2>2. CASE i < j
        <3>1. i \in 1..(j - 1) BY <1>1, <2>1, <2>2
        <3>2. QED BY <2>1, <3>1 DEF Woken
    <2>3. CASE j < i
        <3>1. j \in 1..(i - 1) BY <1>1, <2>1, <2>3
        <3>2. Compatible(queue[j].type, queue[i].type) BY <1>1, <3>1 DEF Woken
        <3>3. QED BY <3>2, CompatibleSymmetric
    <2>4. QED BY <1>1, <1>3, <2>1, <2>2, <2>3
<1>4. QED BY <1>2, <1>3

\* A request never grants a conflicting lock.
LEMMA RequestCompatible ==
    ASSUME LockTypeOK, CompatibleLocks,
           NEW t \in Txn, NEW x \in Resource, NEW m \in Mode,
           NEW granted \in BOOLEAN,
           NEW found \in [Path(x) -> Mode \cup {NoLock}],
           \A y \in Path(x) : found[y] \in Existing(t, y),
           RequestActive(t, x, m, found, granted)
    PROVE  CompatibleLocks'
<1> SUFFICES ASSUME NEW y \in Resource, NEW u \in Txn, NEW v \in Txn, u # v,
                    NEW h \in HeldModes(u, y)', NEW k \in HeldModes(v, y)'
             PROVE  Compatible(h, k)
    BY DEF CompatibleLocks
<1>1. CASE y \notin Inserted(t, x, m, found) \/ (u # t /\ v # t)
    BY <1>1, RequestModes DEF CompatibleLocks
<1>2. ASSUME y \in Inserted(t, x, m, found),
             NEW w \in Txn, w # t, NEW a \in HeldModes(t, y)',
             NEW b \in HeldModes(w, y)'
      PROVE  Compatible(b, a)
    <2>1. b \in HeldModes(w, y) BY <1>2, RequestModes
    <2>2. a \in HeldModes(t, y) \/ a = Asked(x, m, y) BY <1>2, RequestModes
    <2>3. CompatibleWithOthers(t, y, Asked(x, m, y)) BY <1>2, InsertedFacts
    <2>4. CASE a \in HeldModes(t, y)
        BY <1>2, <2>1, <2>4 DEF CompatibleLocks
    <2>5. CASE a = Asked(x, m, y)
        BY <1>2, <2>1, <2>3, <2>5 DEF CompatibleWithOthers
    <2>6. QED BY <2>2, <2>4, <2>5
<1>3. CASE y \in Inserted(t, x, m, found) /\ (u = t \/ v = t)
    BY <1>2, <1>3, CompatibleSymmetric
<1>4. QED BY <1>1, <1>3

\* A release, with the grants of processWaitQueue, never creates a conflict.
LEMMA ReleaseCompatible ==
    ASSUME LockTypeOK, CompatibleLocks,
           NEW t \in Txn, NEW released \in SUBSET Resource,
           Release(t, released)
    PROVE  CompatibleLocks'
<1> SUFFICES ASSUME NEW x \in Resource, NEW u \in Txn, NEW v \in Txn, u # v,
                    NEW h \in HeldModes(u, x)', NEW k \in HeldModes(v, x)'
             PROVE  Compatible(h, k)
    BY DEF CompatibleLocks
<1>1. CASE x \notin released
    BY <1>1, ReleaseModes DEF CompatibleLocks
<1>2. CASE x \in released
    <2> DEFINE bags  == Without(t, x)
               queue == wait_queues[x]
               Left(w)  == IF w = t THEN {} ELSE HeldModes(w, x)
               Fresh(w) == WokenModes(bags, queue, w)
    <2>1. queue \in Seq(Request) BY DEF LockTypeOK
    <2>2. h \in Left(u) \cup Fresh(u) /\ k \in Left(v) \cup Fresh(v)
        BY <1>2, ReleaseModes
    <2>3. \A w \in Txn : Left(w) = ModesIn(bags[w]) BY WithoutModes
    <2>4. ASSUME NEW w1 \in Txn, NEW w2 \in Txn,
                 NEW a \in Left(w1), NEW b \in Fresh(w2)
          PROVE  Compatible(a, b)
        <3>1. PICK i \in Woken(bags, queue) :
                  queue[i] = [txn |-> w2, type |-> b]
            BY DEF WokenModes
        <3>2. CompatibleWithAll(bags, b) BY <2>1, <3>1, WokenCompatible
        <3>3. QED BY <2>3, <3>2 DEF CompatibleWithAll
    <2>5. CASE h \in Fresh(u) /\ k \in Fresh(v)
        <3>1. PICK i \in Woken(bags, queue) :
                  queue[i] = [txn |-> u, type |-> h]
            BY <2>5 DEF WokenModes
        <3>2. PICK j \in Woken(bags, queue) :
                  queue[j] = [txn |-> v, type |-> k]
            BY <2>5 DEF WokenModes
        <3>3. i # j BY <3>1, <3>2
        <3>4. QED BY <2>1, <3>1, <3>2, <3>3, WokenCompatible
    <2>6. CASE h \in Left(u) /\ k \in Left(v)
        BY <2>6 DEF CompatibleLocks
    <2>7. CASE h \in Left(u) /\ k \in Fresh(v)
        BY <2>4, <2>7
    <2>8. CASE h \in Fresh(u) /\ k \in Left(v)
        BY <2>4, <2>8, CompatibleSymmetric
    <2>9. QED BY <2>2, <2>5, <2>6, <2>7, <2>8
<1>3. QED BY <1>1, <1>2

-----------------------------------------------------------------------------
(***************************************************************************)
(* How the two kinds of step change who holds and who waits.               *)
(***************************************************************************)

\* Who has a lock after a request: whoever had one, and t where it inserts.
LEMMA RequestHas ==
    ASSUME LockTypeOK, NEW t \in Txn, NEW x \in Resource, NEW m \in Mode,
           NEW granted \in BOOLEAN,
           NEW found \in [Path(x) -> Mode \cup {NoLock}],
           \A y \in Path(x) : found[y] \in Existing(t, y),
           RequestActive(t, x, m, found, granted),
           NEW u \in Txn, NEW y \in Resource
    PROVE  HasLock(u, y)' <=>
               HasLock(u, y) \/ (u = t /\ y \in Inserted(t, x, m, found))
<1>1. CASE y \notin Inserted(t, x, m, found) \/ u # t
    BY <1>1, RequestModes DEF HasLock
<1>2. CASE y \in Inserted(t, x, m, found) /\ u = t
    BY <1>2, RequestModes DEF HasLock
<1>3. QED BY <1>1, <1>2

\* Who waits after a request: whoever waited, and t where it is queued.
LEMMA RequestWaiting ==
    ASSUME LockTypeOK, NEW t \in Txn, NEW x \in Resource, NEW m \in Mode,
           NEW granted \in BOOLEAN,
           NEW found \in [Path(x) -> Mode \cup {NoLock}],
           RequestActive(t, x, m, found, granted), NEW y \in Resource
    PROVE  /\ y \notin Enqueued(t, x, m, found) =>
                  wait_queues'[y] = wait_queues[y]
           /\ y \in Enqueued(t, x, m, found) =>
                  /\ t \notin Waiting(y)
                  /\ Waiting(y)' = Waiting(y) \cup {t}
                  /\ Len(wait_queues'[y]) = Len(wait_queues[y]) + 1
                  /\ \A i \in 1..Len(wait_queues[y]) :
                        wait_queues'[y][i] = wait_queues[y][i]
                  /\ wait_queues'[y][Len(wait_queues[y]) + 1].txn = t
<1>1. CASE y \notin Enqueued(t, x, m, found)
    BY <1>1 DEF RequestActive
<1>2. CASE y \in Enqueued(t, x, m, found)
    <2> DEFINE q == wait_queues[y]
               r == [txn |-> t, type |-> Asked(x, m, y)]
    <2>1. q \in Seq(Request) /\ r \in Request /\ r.txn = t
        BY AskedMode DEF LockTypeOK, Request
    <2>2. wait_queues'[y] = Append(q, r) BY <1>2 DEF RequestActive
    <2> HIDE DEF r
    <2>3. /\ Len(Append(q, r)) = Len(q) + 1
          /\ \A i \in 1..Len(q) : Append(q, r)[i] = q[i]
          /\ Append(q, r)[Len(q) + 1] = r
          /\ DOMAIN Append(q, r) = 1..(Len(q) + 1)
          /\ Len(q) \in Nat
          /\ DOMAIN q = 1..Len(q)
        BY <2>1
    <2>4. Waiting(y)' = Waiting(y) \cup {t}
        <3>1. Waiting(y)' = {Append(q, r)[i].txn : i \in 1..(Len(q) + 1)}
            BY <2>2, <2>3 DEF Waiting
        <3>2. Waiting(y) = {q[i].txn : i \in 1..Len(q)}
            BY <2>3 DEF Waiting
        <3> HIDE DEF q
        <3>3. 1..(Len(q) + 1) = (1..Len(q)) \cup {Len(q) + 1}
            BY <2>3
        <3>4. QED BY <2>1, <2>3, <3>1, <3>2, <3>3
    <2>5. t \notin Waiting(y) BY <1>2 DEF Enqueued
    <2>6. QED BY <1>2, <2>1, <2>2, <2>3, <2>4, <2>5
<1>3. QED BY <1>1, <1>2

\* A transaction granted from a queue was waiting in it, and has a lock.
LEMMA WokenAtModes ==
    ASSUME LockTypeOK, NEW t \in Txn, NEW x \in Resource, NEW u \in Txn
    PROVE  /\ u \in WokenAt(t, x) <=>
                  WokenModes(Without(t, x), wait_queues[x], u) # {}
           /\ u \in WokenAt(t, x) => u \in Waiting(x)
<1> DEFINE q == wait_queues[x]
           W == Woken(Without(t, x), q)
<1>1. q \in Seq(Request) BY DEF LockTypeOK
<1>2. \A i \in W : i \in DOMAIN q /\ q[i] \in Request BY <1>1 DEF Woken
<1>3. ASSUME NEW i \in W, q[i].txn = u
      PROVE  WokenModes(Without(t, x), q, u) # {}
    <2>1. q[i] = [txn |-> u, type |-> q[i].type] /\ q[i].type \in Mode
        BY <1>2, <1>3 DEF Request
    <2>2. QED BY <2>1 DEF WokenModes
<1>4. u \in WokenAt(t, x) <=> \E i \in W : q[i].txn = u
    BY DEF WokenAt
<1>5. ASSUME WokenModes(Without(t, x), q, u) # {}
      PROVE  \E i \in W : q[i].txn = u
    <2>1. PICK m \in WokenModes(Without(t, x), q, u) : TRUE BY <1>5
    <2>2. PICK i \in W : q[i] = [txn |-> u, type |-> m]
        BY <2>1 DEF WokenModes
    <2>3. q[i].txn = u BY <2>2
    <2>4. QED BY <2>3
<1>6. u \in WokenAt(t, x) => u \in Waiting(x)
    BY <1>2, <1>4 DEF Waiting
<1>7. QED BY <1>3, <1>4, <1>5, <1>6

\* Who has a lock after a release: the others, and the woken transactions.
LEMMA ReleaseHas ==
    ASSUME LockTypeOK, NEW t \in Txn, NEW released \in SUBSET Resource,
           Release(t, released), NEW u \in Txn, NEW x \in Resource
    PROVE  /\ x \notin released => (HasLock(u, x)' <=> HasLock(u, x))
           /\ x \in released =>
                 (HasLock(u, x)' <=>
                      (u # t /\ HasLock(u, x)) \/ u \in WokenAt(t, x))
BY ReleaseModes, WokenAtModes DEF HasLock

\* A release only removes requests from the queues.
LEMMA ReleaseWaiting ==
    ASSUME LockTypeOK, NEW t \in Txn, NEW released \in SUBSET Resource,
           Release(t, released), NEW x \in Resource
    PROVE  \E n \in Nat : \A i \in DOMAIN wait_queues'[x] :
               /\ i \in Nat
               /\ n + i \in DOMAIN wait_queues[x]
               /\ wait_queues'[x][i] = wait_queues[x][n + i]
<1>1. wait_queues[x] \in Seq(Request) BY DEF LockTypeOK
<1>2. CASE x \in released
    <2>1. wait_queues'[x] = DropWoken(Without(t, x), wait_queues[x])
        BY <1>2 DEF Release
    <2>2. DropWoken(Without(t, x), wait_queues[x]) \in Seq(Request)
        BY <1>1, DropWokenSuffix
    <2>3. \A i \in DOMAIN wait_queues'[x] : i \in Nat
        BY <2>1, <2>2
    <2>4. PICK n \in Nat :
              \A i \in DOMAIN DropWoken(Without(t, x), wait_queues[x]) :
                  /\ n + i \in DOMAIN wait_queues[x]
                  /\ DropWoken(Without(t, x), wait_queues[x])[i]
                         = wait_queues[x][n + i]
        BY <1>1, DropWokenSuffix
    <2>5. QED BY <2>1, <2>3, <2>4
<1>3. CASE x \notin released
    <2>1. wait_queues'[x] = wait_queues[x] BY <1>3 DEF Release
    <2>2. \A i \in DOMAIN wait_queues[x] : i \in Nat /\ 0 + i = i
        BY <1>1
    <2>3. QED BY <2>1, <2>2
<1>4. QED BY <1>2, <1>3

-----------------------------------------------------------------------------
(***************************************************************************)
(* The invariant.  LockTypeOK is all the strengthening it takes: each of   *)
(* the other conjuncts is preserved by every step that preserves it.       *)
(***************************************************************************)

SafetyInv ==
    /\ LockTypeOK
    /\ CompatibleLocks
    /\ TxnLocksMatch
    /\ ParentLocked
    /\ OneRequestPerTxn

\* The parent of a resource on the path is on the path, and its ancestors
\* are ancestors of the resource.
LEMMA ParentOnPath ==
    ASSUME LockTypeOK, NEW x \in Resource, NEW y \in Path(x),
           resource_parent[y] # NoParent
    PROVE  /\ resource_parent[y] \in Ancestors(y)
           /\ resource_parent[y] \in Path(x)
           /\ Ancestors(resource_parent[y]) \subseteq Ancestors(y)
<1> DEFINE p == resource_parent[y]
<1>1. y \in Resource BY PathResource
<1>2. p \in Resource BY <1>1 DEF LockTypeOK
<1>3. p \in Ancestors(y) BY <1>2 DEF Ancestors
<1>4. Ancestors(p) \subseteq Ancestors(y)
    <2> SUFFICES ASSUME NEW z \in Ancestors(p), NEW S \in SUBSET Resource,
                        ClosedUpwards(S), p \in S
                 PROVE  z \in S
        BY <1>2 DEF Ancestors
    <2>1. resource_parent[p] \in S \cup {NoParent} BY DEF ClosedUpwards
    <2>2. QED BY <2>1 DEF Ancestors
<1>5. p \in Path(x)
    <2>1. CASE y = x BY <1>3, <2>1 DEF Path
    <2>2. CASE y \in Ancestors(x)
        <3> SUFFICES ASSUME NEW S \in SUBSET Resource, ClosedUpwards(S),
                            resource_parent[x] \in S \cup {NoParent}
                     PROVE  p \in S
            BY <1>2 DEF Path, Ancestors
        <3>1. y \in S BY <2>2 DEF Ancestors
        <3>2. QED BY <3>1, <1>2 DEF ClosedUpwards
    <2>3. QED BY <2>1, <2>2 DEF Path
<1>6. QED BY <1>3, <1>4, <1>5

\* Where a request inserts a lock or is queued, it was granted the parent.
LEMMA ParentWon ==
    ASSUME LockTypeOK, NEW t \in Txn, NEW x \in Resource, NEW m \in Mode,
           NEW found \in [Path(x) -> Mode \cup {NoLock}],
           NEW y \in Reached(t, x, m, found),
           resource_parent[y] # NoParent
    PROVE  resource_parent[y] \in Won(t, x, m, found)
<1>1. y \in Path(x) BY DEF Reached
<1>2. /\ resource_parent[y] \in Ancestors(y)
      /\ resource_parent[y] \in Path(x)
      /\ Ancestors(resource_parent[y]) \subseteq Ancestors(y)
    BY <1>1, ParentOnPath
<1>3. QED BY <1>2 DEF Reached, Won

\* After a request t has a lock wherever it was granted one.
LEMMA WonHas ==
    ASSUME LockTypeOK, NEW t \in Txn, NEW x \in Resource, NEW m \in Mode,
           NEW granted \in BOOLEAN,
           NEW found \in [Path(x) -> Mode \cup {NoLock}],
           \A y \in Path(x) : found[y] \in Existing(t, y),
           RequestActive(t, x, m, found, granted),
           NEW y \in Won(t, x, m, found)
    PROVE  HasLock(t, y)'
<1>1. y \in Path(x) /\ y \in Resource
    BY PathResource DEF Won, Reached
<1>2. CASE y \in Inserted(t, x, m, found) BY <1>1, <1>2, RequestHas
<1>3. CASE Covers(found[y], Asked(x, m, y))
    <2>1. found[y] # NoLock
        BY <1>3, AskedMode DEF Covers, NoLock, Mode
    <2>2. HasLock(t, y) BY <1>1, <2>1 DEF Existing
    <2>3. QED BY <1>1, <2>2, RequestHas
<1>4. QED BY <1>2, <1>3 DEF Inserted

\* A request preserves every part of the invariant.
LEMMA RequestKeepsInv ==
    ASSUME SafetyInv, NEW t \in Txn, NEW x \in Resource, NEW m \in Mode,
           NEW granted \in BOOLEAN,
           NEW found \in [Path(x) -> Mode \cup {NoLock}],
           \A y \in Path(x) : found[y] \in Existing(t, y),
           RequestActive(t, x, m, found, granted)
    PROVE  SafetyInv'
<1> USE DEF SafetyInv
<1>1. LockTypeOK' BY RequestActiveType
<1>2. CompatibleLocks' BY RequestCompatible
<1>3. /\ completed_transactions' = completed_transactions
      /\ resource_parent' = resource_parent
      /\ txn_locks' = [txn_locks EXCEPT ![t] = @ \cup Inserted(t, x, m, found)]
    BY DEF RequestActive
<1>4. TxnLocksMatch'
    <2> SUFFICES ASSUME NEW u \in Txn, u \notin completed_transactions
                 PROVE  txn_locks'[u] = {y \in Resource : HasLock(u, y)'}
        BY <1>3 DEF TxnLocksMatch
    <2>1. txn_locks[u] = {y \in Resource : HasLock(u, y)}
        BY DEF TxnLocksMatch
    <2>2. txn_locks'[u] = IF u = t
                          THEN txn_locks[u] \cup Inserted(t, x, m, found)
                          ELSE txn_locks[u]
        BY <1>3 DEF LockTypeOK
    <2>3. Inserted(t, x, m, found) \subseteq Resource BY InsertedFacts
    <2>4. QED BY <2>1, <2>2, <2>3, RequestHas
<1>5. ParentLocked'
    <2> SUFFICES ASSUME NEW u \in Txn, u \notin completed_transactions,
                        NEW y \in Resource, NEW p \in Resource,
                        resource_parent[y] = p, p # NoParent,
                        HasLock(u, y)' \/ u \in Waiting(y)'
                 PROVE  HasLock(u, p)'
        <3>1. ASSUME NEW u \in Txn, u \notin completed_transactions',
                     NEW y \in Resource, resource_parent'[y] # NoParent,
                     HasLock(u, y)' \/ u \in Waiting(y)'
              PROVE  HasLock(u, resource_parent[y])'
            BY <1>3, <3>1 DEF LockTypeOK
        <3>2. QED BY <3>1 DEF ParentLocked
    <2>2. CASE HasLock(u, y) \/ u \in Waiting(y)
        <3>1. HasLock(u, p) BY <2>2 DEF ParentLocked
        <3>2. QED BY <3>1, RequestHas
    <2>3. CASE u = t /\ y \in Reached(t, x, m, found)
        <3>1. p \in Won(t, x, m, found) BY <2>3, ParentWon
        <3>2. QED BY <2>3, <3>1, WonHas
    <2>4. HasLock(u, y)' => HasLock(u, y) \/
                            (u = t /\ y \in Reached(t, x, m, found))
        BY RequestHas DEF Inserted, Won
    <2>5. u \in Waiting(y)' => u \in Waiting(y) \/
                               (u = t /\ y \in Reached(t, x, m, found))
        <3>1. CASE y \in Enqueued(t, x, m, found)
            BY <3>1, RequestWaiting DEF Enqueued
        <3>2. CASE y \notin Enqueued(t, x, m, found)
            BY <3>2, RequestWaiting DEF Waiting
        <3>3. QED BY <3>1, <3>2
    <2>6. QED BY <2>2, <2>3, <2>4, <2>5
<1>6. OneRequestPerTxn'
    <2> SUFFICES ASSUME NEW y \in Resource,
                        NEW i \in DOMAIN wait_queues'[y],
                        NEW j \in DOMAIN wait_queues'[y],
                        wait_queues'[y][i].txn = wait_queues'[y][j].txn
                 PROVE  i = j
        BY DEF OneRequestPerTxn
    <2>1. CASE y \notin Enqueued(t, x, m, found)
        BY <2>1, RequestWaiting DEF OneRequestPerTxn
    <2>2. CASE y \in Enqueued(t, x, m, found)
        <3> DEFINE q == wait_queues[y]
                   n == Len(q)
        <3>1. q \in Seq(Request) /\ wait_queues'[y] \in Seq(Request)
            BY <1>1 DEF LockTypeOK
        <3>2. /\ t \notin Waiting(y)
              /\ Len(wait_queues'[y]) = n + 1
              /\ \A k \in 1..n : wait_queues'[y][k] = q[k]
              /\ wait_queues'[y][n + 1].txn = t
            BY <2>2, RequestWaiting
        <3>3. \A k \in 1..n : q[k].txn # t
            BY <3>1, <3>2 DEF Waiting
        <3>4. i \in 1..(n + 1) /\ j \in 1..(n + 1) /\ n \in Nat
            BY <3>1, <3>2
        <3>5. CASE i \in 1..n /\ j \in 1..n
            BY <3>1, <3>2, <3>5 DEF OneRequestPerTxn
        <3>6. CASE i = n + 1 \/ j = n + 1
            <4>1. \A k \in 1..n : wait_queues'[y][k].txn # t BY <3>2, <3>3
            <4>2. QED BY <3>2, <3>4, <3>6, <4>1
        <3>7. i \in 1..n \/ i = n + 1 BY <3>4
        <3>8. j \in 1..n \/ j = n + 1 BY <3>4
        <3>9. QED BY <3>5, <3>6, <3>7, <3>8
    <2>3. QED BY <2>1, <2>2
<1>7. QED BY <1>1, <1>2, <1>4, <1>5, <1>6

\* What ReleaseLock and CompleteTransaction have in common: t, completed by
\* the end of the step, gives up "released", the waiters woken there are
\* recorded, and everything else stays.
LEMMA ReleaseKeepsInv ==
    ASSUME SafetyInv, LockTypeOK', NEW t \in Txn, NEW released \in SUBSET Resource,
           Release(t, released),
           completed_transactions' = completed_transactions \cup {t},
           resource_parent' = resource_parent,
           \A u \in Txn \ {t} : txn_locks'[u] =
               txn_locks[u] \cup {x \in released : u \in WokenAt(t, x)}
    PROVE  SafetyInv'
<1> USE DEF SafetyInv
<1>1. CompatibleLocks' BY ReleaseCompatible
<1>2. TxnLocksMatch'
    <2> SUFFICES ASSUME NEW u \in Txn \ {t}, u \notin completed_transactions
                 PROVE  txn_locks'[u] = {x \in Resource : HasLock(u, x)'}
        BY DEF TxnLocksMatch
    <2>1. txn_locks[u] = {x \in Resource : HasLock(u, x)}
        BY DEF TxnLocksMatch
    <2>2. QED BY <2>1, ReleaseHas
<1>3. ParentLocked'
    <2> SUFFICES ASSUME NEW u \in Txn \ {t}, u \notin completed_transactions,
                        NEW y \in Resource, NEW p \in Resource,
                        resource_parent[y] = p, p # NoParent,
                        HasLock(u, y)' \/ u \in Waiting(y)'
                 PROVE  HasLock(u, p)'
        <3>1. ASSUME NEW u \in Txn, u \notin completed_transactions',
                     NEW y \in Resource, resource_parent'[y] # NoParent,
                     HasLock(u, y)' \/ u \in Waiting(y)'
              PROVE  HasLock(u, resource_parent[y])'
            BY <3>1 DEF LockTypeOK
        <3>2. QED BY <3>1 DEF ParentLocked
    <2>1. HasLock(u, y)' => HasLock(u, y) \/ u \in Waiting(y)
        BY ReleaseHas, WokenAtModes
    <2>2. u \in Waiting(y)' => u \in Waiting(y)
        BY ReleaseWaiting DEF Waiting
    <2>3. HasLock(u, p) BY <2>1, <2>2 DEF ParentLocked
    <2>4. QED BY <2>3, ReleaseHas
<1>4. OneRequestPerTxn'
    <2> SUFFICES ASSUME NEW x \in Resource,
                        NEW i \in DOMAIN wait_queues'[x],
                        NEW j \in DOMAIN wait_queues'[x],
                        wait_queues'[x][i].txn = wait_queues'[x][j].txn
                 PROVE  i = j
        BY DEF OneRequestPerTxn
    <2>1. PICK n \in Nat : \A k \in DOMAIN wait_queues'[x] :
              /\ k \in Nat
              /\ n + k \in DOMAIN wait_queues[x]
              /\ wait_queues'[x][k] = wait_queues[x][n + k]
        BY ReleaseWaiting
    <2>2. n + i = n + j BY <2>1 DEF OneRequestPerTxn
    <2>3. QED BY <2>1, <2>2
<1>5. QED BY <1>1, <1>2, <1>3, <1>4

\* Declaring a parent preserves the invariant: the child is new, so nobody
\* holds it or waits for it without the parent's lock.
LEMMA SetResourceParentKeepsInv ==
    ASSUME SafetyInv, NEW child \in Resource, NEW parent \in Resource,
           SetResourceParent(child, parent)
    PROVE  SafetyInv'
<1> USE DEF SafetyInv
<1>1. LockTypeOK' BY SetResourceParentType
<1>2. /\ UNCHANGED <<resource_locks, wait_queues, txn_locks,
                     completed_transactions>>
      /\ \A t \in Txn : ~HasLock(t, child) /\ t \notin Waiting(child)
      /\ \A x \in Resource \ {child} : resource_parent'[x] = resource_parent[x]
    BY DEF SetResourceParent, LockTypeOK
<1>3. \A t \in Txn, x \in Resource : /\ HasLock(t, x)' <=> HasLock(t, x)
                                     /\ Waiting(x)' = Waiting(x)
                                     /\ HeldModes(t, x)' = HeldModes(t, x)
    BY <1>2 DEF HasLock, HeldModes, Waiting
<1>4. CompatibleLocks' BY <1>3 DEF CompatibleLocks
<1>5. TxnLocksMatch' BY <1>2, <1>3 DEF TxnLocksMatch
<1>6. ParentLocked'
    <2> SUFFICES ASSUME NEW t \in Txn, t \notin completed_transactions,
                        NEW x \in Resource, resource_parent'[x] # NoParent,
                        HasLock(t, x) \/ t \in Waiting(x)
                 PROVE  HasLock(t, resource_parent[x])'
        BY <1>2, <1>3 DEF ParentLocked
    <2>1. x # child BY <1>2
    <2>2. /\ resource_parent'[x] = resource_parent[x]
          /\ resource_parent[x] \in Resource
        BY <1>2, <2>1 DEF LockTypeOK
    <2>3. HasLock(t, resource_parent[x]) BY <2>2 DEF ParentLocked
    <2>4. QED BY <1>2, <2>2, <2>3 DEF HasLock, HeldModes
<1>7. OneRequestPerTxn' BY <1>2 DEF OneRequestPerTxn
<1>8. QED BY <1>1, <1>4, <1>5, <1>6, <1>7

\* The empty lock manager satisfies the invariant.
LEMMA InitSafety == LockInit => SafetyInv
<1> SUFFICES ASSUME LockInit PROVE SafetyInv OBVIOUS
<1>1. LockTypeOK BY InitType
<1>2. \A t \in Txn, x \in Resource : HeldModes(t, x) = {} /\ Waiting(x) = {}
    BY DEF LockInit, HeldModes, ModesIn, Waiting
<1>3. CompatibleLocks /\ TxnLocksMatch /\ ParentLocked
    BY <1>2 DEF LockInit, CompatibleLocks, TxnLocksMatch, ParentLocked,
                HasLock
<1>4. OneRequestPerTxn BY DEF LockInit, OneRequestPerTxn
<1>5. QED BY <1>1, <1>3, <1>4 DEF SafetyInv

\* The invariant depends on the lock manager's variables only.
LEMMA UnchangedSafety == SafetyInv /\ UNCHANGED lockVars => SafetyInv'
<1> SUFFICES ASSUME SafetyInv, UNCHANGED lockVars PROVE SafetyInv'
    OBVIOUS
<1> USE DEF lockVars, SafetyInv
<1>1. LockTypeOK' BY DEF LockTypeOK
<1>2. CompatibleLocks' BY DEF CompatibleLocks, HeldModes
<1>3. TxnLocksMatch' BY DEF TxnLocksMatch, HasLock, HeldModes
<1>4. ParentLocked' BY DEF ParentLocked, HasLock, HeldModes, Waiting
<1>5. OneRequestPerTxn' BY DEF OneRequestPerTxn
<1>6. QED BY <1>1, <1>2, <1>3, <1>4, <1>5

\* Every public call preserves the invariant.
LEMMA NextSafety == SafetyInv /\ [LockNext]_lockVars => SafetyInv'
<1> SUFFICES ASSUME SafetyInv, [LockNext]_lockVars PROVE SafetyInv'
    OBVIOUS
<1>1. ASSUME NEW t \in Txn, NEW x \in Resource, NEW m \in RequestTypes,
             NEW granted \in BOOLEAN, RequestLock(t, x, m, granted)
      PROVE  SafetyInv'
    <2>1. CASE t \in completed_transactions /\ UNCHANGED lockVars
        BY <2>1, UnchangedSafety
    <2>2. CASE \E found \in [Path(x) -> Mode \cup {NoLock}] :
                  /\ \A y \in Path(x) : found[y] \in Existing(t, y)
                  /\ RequestActive(t, x, m, found, granted)
        BY <2>2, RequestKeepsInv, RequestAssumption
    <2>3. QED BY <1>1, <2>1, <2>2 DEF RequestLock
<1>2. ASSUME NEW t \in Txn, NEW x \in Resource, ReleaseLock(t, x)
      PROVE  SafetyInv'
    <2>1. LockTypeOK' BY <1>2, ReleaseLockType DEF SafetyInv
    <2>2. \A u \in Txn \ {t} : txn_locks'[u] =
              txn_locks[u] \cup {y \in {x} : u \in WokenAt(t, y)}
        BY <1>2 DEF ReleaseLock
    <2>3. completed_transactions' = completed_transactions \cup {t}
        BY <1>2 DEF ReleaseLock
    <2>4. QED BY <1>2, <2>1, <2>2, <2>3, ReleaseKeepsInv DEF ReleaseLock
<1>3. ASSUME NEW t \in Txn, CompleteTransaction(t)
      PROVE  SafetyInv'
    <2>1. LockTypeOK' BY <1>3, CompleteTransactionType DEF SafetyInv
    <2>2. ToRelease(t) \in SUBSET Resource
        BY DEF ToRelease, SafetyInv, LockTypeOK
    <2>3. \A u \in Txn \ {t} : txn_locks'[u] =
              txn_locks[u] \cup {x \in ToRelease(t) : u \in WokenAt(t, x)}
        BY <1>3 DEF CompleteTransaction
    <2>4. QED
        BY <1>3, <2>1, <2>2, <2>3, ReleaseKeepsInv DEF CompleteTransaction
<1>4. CASE UNCHANGED lockVars BY <1>4, UnchangedSafety
<1>5. QED
    BY <1>1, <1>2, <1>3, <1>4, SetResourceParentKeepsInv DEF LockNext, Housekeeping

-----------------------------------------------------------------------------
(***************************************************************************)
(* The theorems.                                                           *)
(***************************************************************************)

\* The lock manager's safety invariant, in one piece: types, compatible locks,
\* agreeing records, hierarchy, and at most one queued request per transaction.
\* Each part is inductive with the types; ParentLocked is so because it speaks
\* of queued requests too: a woken waiter must have the parent's lock already.
THEOREM SafetyHolds == LockSpec => []SafetyInv
BY InitSafety, NextSafety, PTL DEF LockSpec

\* No two transactions ever hold conflicting locks on a resource, whatever
\* mixture of requests, replacements and queue grants gave them out.
THEOREM LocksCompatible == LockSpec => []CompatibleLocks
BY SafetyHolds, PTL DEF SafetyInv

\* An active transaction's entry in txn_locks_ is exactly the set of
\* resources it has locks on, so completeTransaction leaves none behind.
THEOREM RecordsAgree == LockSpec => []TxnLocksMatch
BY SafetyHolds, PTL DEF SafetyInv

\* Whoever holds or waits below a parent has a lock on the parent.
THEOREM HierarchyRespected == LockSpec => []ParentLocked
BY SafetyHolds, PTL DEF SafetyInv

\* A retried request never enters the queue twice.
THEOREM QueuedOnce == LockSpec => []OneRequestPerTxn
BY SafetyHolds, PTL DEF SafetyInv

\* A release takes locks from a completed transaction only.
LEMMA ReleaseKeepsLocks ==
    ASSUME LockTypeOK, NEW t \in Txn, NEW released \in SUBSET Resource,
           Release(t, released), t \in completed_transactions'
    PROVE  KeepsLocks
<1> SUFFICES ASSUME NEW u \in Txn, u \notin completed_transactions',
                    NEW x \in Resource
             PROVE  HeldModes(u, x) \subseteq HeldModes(u, x)'
    BY DEF KeepsLocks, HasLock
<1>1. u # t OBVIOUS
<1>2. QED BY <1>1, ReleaseModes

\* No call takes a lock, or an X lock, from a transaction still active.
LEMMA NextKeepsLocks ==
    LockTypeOK /\ [LockNext]_lockVars => [KeepsLocks]_lockVars
<1> SUFFICES ASSUME LockTypeOK, LockNext PROVE KeepsLocks
    OBVIOUS
<1>1. ASSUME NEW t \in Txn, NEW x \in Resource, NEW m \in RequestTypes,
             NEW granted \in BOOLEAN, RequestLock(t, x, m, granted)
      PROVE  KeepsLocks
    <2>1. CASE UNCHANGED lockVars
        BY <2>1 DEF lockVars, KeepsLocks, HasLock, HeldModes
    <2>2. ASSUME NEW found \in [Path(x) -> Mode \cup {NoLock}],
                 \A y \in Path(x) : found[y] \in Existing(t, y),
                 RequestActive(t, x, m, found, granted)
          PROVE  KeepsLocks
        <3>1. m \in Mode BY RequestAssumption
        <3> SUFFICES ASSUME NEW u \in Txn, NEW y \in Resource
                     PROVE  /\ HasLock(u, y) => HasLock(u, y)'
                            /\ "X" \in HeldModes(u, y) =>
                                   "X" \in HeldModes(u, y)'
            BY DEF KeepsLocks
        <3>2. HasLock(u, y) => HasLock(u, y)'
            BY <2>2, <3>1, RequestHas
        <3>3. CASE y \notin Inserted(t, x, m, found) \/ u # t
            BY <2>2, <3>1, <3>2, <3>3, RequestModes
        <3>4. CASE y \in Inserted(t, x, m, found) /\ u = t
            <4>1. found[y] # "X" BY <2>2, <3>1, <3>4, InsertedFacts
            <4>2. QED BY <2>2, <3>1, <3>2, <3>4, <4>1, RequestModes
        <3>5. QED BY <3>3, <3>4
    <2>3. QED BY <1>1, <2>1, <2>2 DEF RequestLock
<1>2. ASSUME NEW t \in Txn, NEW x \in Resource, ReleaseLock(t, x)
      PROVE  KeepsLocks
    BY <1>2, ReleaseKeepsLocks DEF ReleaseLock
<1>3. ASSUME NEW t \in Txn, CompleteTransaction(t)
      PROVE  KeepsLocks
    <2>1. ToRelease(t) \in SUBSET Resource BY DEF ToRelease, LockTypeOK
    <2>2. QED BY <1>3, <2>1, ReleaseKeepsLocks DEF CompleteTransaction
<1>4. ASSUME NEW child \in Resource, NEW parent \in Resource,
             SetResourceParent(child, parent)
      PROVE  KeepsLocks
    BY <1>4 DEF SetResourceParent, KeepsLocks, HasLock, HeldModes
<1>5. QED BY <1>1, <1>2, <1>3, <1>4 DEF LockNext, Housekeeping

\* A transaction keeps every lock it obtained, and every X lock as an X
\* lock, until it completes: the strict half of two-phase locking.
THEOREM TwoPhaseStrict == LockSpec => StrictTwoPhase
BY NextKeepsLocks, TypeCorrect, PTL DEF LockSpec, StrictTwoPhase

-----------------------------------------------------------------------------
(***************************************************************************)
(* The wait queues: who leaves them, and who stays.                        *)
(***************************************************************************)

\* The granted positions are a prefix of the queue, and what DropWoken keeps
\* is the rest.
LEMMA WokenPrefix ==
    ASSUME NEW bags, NEW queue \in Seq(Request)
    PROVE  LET n == Cardinality(Woken(bags, queue)) IN
           /\ n \in 0..Len(queue)
           /\ Woken(bags, queue) = 1..n
           /\ DropWoken(bags, queue) = SubSeq(queue, n + 1, Len(queue))
<1> DEFINE W == Woken(bags, queue)
<1>1. Len(queue) \in Nat /\ DOMAIN queue = 1..Len(queue) OBVIOUS
<1>2. W \in SUBSET (1..Len(queue)) BY DEF Woken
<1>3. ASSUME NEW i \in W, NEW j \in 1..i PROVE j \in W
    <2>1. i \in 1..Len(queue) BY <1>2
    <2>2. j \in DOMAIN queue /\ 1..j \subseteq 1..i BY <1>1, <2>1
    <2>3. QED BY <2>2 DEF Woken
<1> HIDE DEF W
<1>4. W = 1..Cardinality(W) /\ Cardinality(W) \in 0..Len(queue)
    BY <1>1, <1>2, <1>3, PrefixOfPositions
<1>5. QED BY <1>4 DEF W, DropWoken

\* A release takes requests from the front of a queue only, each of which has
\* become a lock.
LEMMA ReleaseQueueStep ==
    ASSUME LockTypeOK, NEW t \in Txn, NEW released \in SUBSET Resource,
           Release(t, released), NEW x \in Resource
    PROVE  QueueStep(x)
<1> DEFINE q == wait_queues[x]
           n == Cardinality(Woken(Without(t, x), q))
<1>1. q \in Seq(Request) BY DEF LockTypeOK
<1>2. CASE x \notin released
    <2>1. wait_queues'[x] = q BY <1>2 DEF Release
    <2>2. SubSeq(q, 0 + 1, Len(q)) = q BY <1>1, SubSeqFull
    <2>3. 0 \in 0..Len(q) /\ 1..0 = {} BY <1>1
    <2>4. QED BY <2>1, <2>2, <2>3 DEF QueueStep
<1>3. CASE x \in released
    <2>1. /\ n \in 0..Len(q)
          /\ Woken(Without(t, x), q) = 1..n
          /\ DropWoken(Without(t, x), q) = SubSeq(q, n + 1, Len(q))
        BY <1>1, WokenPrefix
    <2>2. wait_queues'[x] = DropWoken(Without(t, x), q)
        BY <1>3 DEF Release
    <2>3. ASSUME NEW i \in 1..n
          PROVE  q[i].type \in ModesIn(resource_locks'[x][q[i].txn])
        <3>1. q[i] \in Request BY <1>1, <2>1
        <3>2. PICK u \in Txn, m \in Mode : q[i] = [txn |-> u, type |-> m]
            BY <3>1 DEF Request
        <3>3. m \in WokenModes(Without(t, x), q, u)
            BY <2>1, <3>2 DEF WokenModes
        <3>4. m \in HeldModes(u, x)' BY <1>3, <3>3, ReleaseModes
        <3>5. q[i].txn = u /\ q[i].type = m BY <3>2
        <3>6. QED BY <3>4, <3>5 DEF HeldModes
    <2> HIDE DEF n, q
    <2>4. QED BY <2>1, <2>2, <2>3 DEF QueueStep, q
<1>4. QED BY <1>2, <1>3

\* A step that appends at most one request to a queue.
LEMMA AppendQueueStep ==
    ASSUME LockTypeOK, NEW x \in Resource,
           \/ wait_queues'[x] = wait_queues[x]
           \/ \E r \in Request : wait_queues'[x] = Append(wait_queues[x], r)
    PROVE  QueueStep(x)
<1> DEFINE q == wait_queues[x]
<1>1. q \in Seq(Request) BY DEF LockTypeOK
<1>2. SubSeq(q, 0 + 1, Len(q)) = q BY <1>1, SubSeqFull
<1>3. 0 \in 0..Len(q) /\ 1..0 = {} BY <1>1
<1>4. QED BY <1>2, <1>3 DEF QueueStep

\* Every call treats the queues so.
LEMMA NextQueueStep ==
    LockTypeOK /\ [LockNext]_lockVars
        => [\A x \in Resource : QueueStep(x)]_lockVars
<1> SUFFICES ASSUME LockTypeOK, LockNext, NEW y \in Resource
             PROVE  QueueStep(y)
    OBVIOUS
<1>1. ASSUME NEW t \in Txn, NEW x \in Resource, NEW m \in RequestTypes,
             NEW granted \in BOOLEAN, RequestLock(t, x, m, granted)
      PROVE  QueueStep(y)
    <2>1. CASE UNCHANGED lockVars
        BY <2>1, AppendQueueStep DEF lockVars
    <2>2. ASSUME NEW found \in [Path(x) -> Mode \cup {NoLock}],
                 RequestActive(t, x, m, found, granted)
          PROVE  QueueStep(y)
        <3>1. Asked(x, m, y) \in Mode BY AskedMode, RequestAssumption
        <3>2. [txn |-> t, type |-> Asked(x, m, y)] \in Request
            BY <3>1 DEF Request
        <3>3. \/ wait_queues'[y] = wait_queues[y]
              \/ wait_queues'[y] = Append(wait_queues[y],
                                          [txn |-> t, type |-> Asked(x, m, y)])
            BY <2>2 DEF RequestActive
        <3>4. QED BY <3>2, <3>3, AppendQueueStep
    <2>3. QED BY <1>1, <2>1, <2>2 DEF RequestLock
<1>2. ASSUME NEW t \in Txn, NEW x \in Resource, ReleaseLock(t, x)
      PROVE  QueueStep(y)
    BY <1>2, ReleaseQueueStep DEF ReleaseLock
<1>3. ASSUME NEW t \in Txn, CompleteTransaction(t)
      PROVE  QueueStep(y)
    <2>1. ToRelease(t) \in SUBSET Resource BY DEF ToRelease, LockTypeOK
    <2>2. QED BY <1>3, <2>1, ReleaseQueueStep DEF CompleteTransaction
<1>4. ASSUME NEW child \in Resource, NEW parent \in Resource,
             SetResourceParent(child, parent)
      PROVE  QueueStep(y)
    BY <1>4, AppendQueueStep DEF SetResourceParent
<1>5. QED BY <1>1, <1>2, <1>3, <1>4 DEF LockNext, Housekeeping

\* Wait queues are first in, first out (processWaitQueue): nobody leaves a
\* queue from the middle, and nobody leaves it without a lock.
THEOREM QueuesFifo == LockSpec => FifoQueues
BY NextQueueStep, TypeCorrect, PTL DEF LockSpec, FifoQueues

(***************************************************************************)
(* No lost wake-up.  Callers that ask for S and X only, on resources       *)
(* without parents: this is all the program's main() ever does to a name   *)
(* of one segment.  Locks then only grow stronger until they are released, *)
(* and every release looks at the queue.                                   *)
(***************************************************************************)

FlatCallers == Hierarchy = {} /\ RequestTypes \subseteq {"S", "X"}

\* What such callers leave behind.
FlatTable ==
    /\ \A x \in Resource : resource_parent[x] = NoParent
    /\ \A x \in Resource, t \in Txn : HeldModes(t, x) \subseteq {"S", "X"}
    /\ \A x \in Resource : \A i \in DOMAIN wait_queues[x] :
          wait_queues[x][i].type \in {"S", "X"}

\* Without a parent a resource is its own path.
LEMMA FlatPath ==
    ASSUME NEW x \in Resource, resource_parent[x] = NoParent
    PROVE  Path(x) = {x} /\ Ancestors(x) = {}
<1>1. {} \in SUBSET Resource /\ ClosedUpwards({}) BY DEF ClosedUpwards
<1>2. Ancestors(x) = {} BY <1>1 DEF Ancestors
<1>3. QED BY <1>2 DEF Path

\* A request of such a caller touches one resource, and asks it for S or X.
LEMMA FlatInserted ==
    ASSUME FlatTable, NEW t \in Txn, NEW x \in Resource, NEW m \in {"S", "X"},
           NEW found, NEW y \in Reached(t, x, m, found)
    PROVE  y = x /\ Asked(x, m, y) = m
<1>1. Path(x) = {x} BY FlatPath DEF FlatTable
<1>2. QED BY <1>1 DEF Reached, Asked

\* Whatever conflicts with a lock before such a request conflicts with one
\* after it: a lock can only be replaced by X.
LEMMA FlatRequestStronger ==
    ASSUME LockTypeOK, FlatTable,
           NEW t \in Txn, NEW x \in Resource, NEW m \in {"S", "X"},
           NEW granted \in BOOLEAN,
           NEW found \in [Path(x) -> Mode \cup {NoLock}],
           \A y \in Path(x) : found[y] \in Existing(t, y),
           RequestActive(t, x, m, found, granted),
           NEW u \in Txn, NEW y \in Resource, NEW h \in HeldModes(u, y),
           NEW k, ~ Compatible(h, k)
    PROVE  \E l \in HeldModes(u, y)' : ~ Compatible(l, k)
<1>0. m \in Mode BY DEF Mode
<1>1. CASE y \notin Inserted(t, x, m, found) \/ u # t
    BY <1>0, <1>1, RequestModes
<1>2. CASE y \in Inserted(t, x, m, found) /\ u = t
    <2>1. y \in Reached(t, x, m, found) BY <1>2 DEF Inserted, Won
    <2>2. Asked(x, m, y) = m BY <2>1, FlatInserted
    <2>3. /\ m \in HeldModes(u, y)'
          /\ HeldModes(u, y) \ {found[y]} \subseteq HeldModes(u, y)'
        BY <1>0, <1>2, <2>2, RequestModes
    <2>4. CASE h # found[y] BY <2>3, <2>4
    <2>5. CASE h = found[y]
        <3>1. h # m /\ h # "X" BY <1>0, <1>2, <2>2, <2>5, InsertedFacts
        <3>2. h \in {"S", "X"} BY DEF FlatTable
        <3>3. m = "X" BY <3>1, <3>2
        <3>4. ~ Compatible("X", k) BY DEF Compatible, IsCompatible
        <3>5. QED BY <2>3, <3>3, <3>4
    <2>6. QED BY <2>4, <2>5
<1>3. QED BY <1>1, <1>2

\* Somebody's lock on x stands against type k.
Blocked(x, k) == \E u \in Txn : \E h \in HeldModes(u, x) : ~ Compatible(h, k)

\* HeadBlocked in these terms.
HeadsBlocked ==
    \A x \in Resource :
        wait_queues[x] # << >> => Blocked(x, wait_queues[x][1].type)

LEMMA HeadsBlockedMeans == LockTypeOK /\ HeadsBlocked => HeadBlocked
<1> SUFFICES ASSUME LockTypeOK, HeadsBlocked, NEW x \in Resource,
                    wait_queues[x] # << >>
             PROVE  ~ CompatibleWithAll(resource_locks[x],
                                        Head(wait_queues[x]).type)
    BY DEF HeadBlocked
<1>1. Head(wait_queues[x]) = wait_queues[x][1]
    BY DEF LockTypeOK
<1>2. Blocked(x, wait_queues[x][1].type) BY DEF HeadsBlocked
<1>3. QED BY <1>1, <1>2 DEF CompatibleWithAll, Blocked, HeldModes

\* A request leaves the heads blocked: it removes none of the locks that
\* stand against them, and is queued itself only if a lock stands against it.
LEMMA FlatRequestKeeps ==
    ASSUME LockTypeOK, FlatTable, HeadsBlocked,
           NEW t \in Txn, NEW x \in Resource, NEW m \in {"S", "X"},
           NEW granted \in BOOLEAN,
           NEW found \in [Path(x) -> Mode \cup {NoLock}],
           \A y \in Path(x) : found[y] \in Existing(t, y),
           RequestActive(t, x, m, found, granted)
    PROVE  FlatTable' /\ HeadsBlocked'
<1>0. m \in Mode BY DEF Mode
<1>1. ASSUME NEW u \in Txn, NEW y \in Resource
      PROVE  HeldModes(u, y)' \subseteq {"S", "X"}
    <2>1. HeldModes(u, y) \subseteq {"S", "X"} BY DEF FlatTable
    <2>2. CASE y \in Inserted(t, x, m, found) /\ u = t
        <3>1. Asked(x, m, y) = m
            BY <2>2, FlatInserted DEF Inserted, Won
        <3>2. QED BY <1>0, <2>1, <2>2, <3>1, RequestModes
    <2>3. CASE y \notin Inserted(t, x, m, found) \/ u # t
        BY <1>0, <2>1, <2>3, RequestModes
    <2>4. QED BY <2>2, <2>3
<1>2. ASSUME NEW y \in Resource, y \in Enqueued(t, x, m, found)
      PROVE  /\ y = x
             /\ wait_queues'[y] = Append(wait_queues[y], [txn |-> t, type |-> m])
             /\ Blocked(y, m)
             /\ \A u \in Txn : HeldModes(u, y)' = HeldModes(u, y)
    <2>1. y \in Reached(t, x, m, found) /\ y \notin Won(t, x, m, found)
        BY <1>2 DEF Enqueued
    <2>2. y = x /\ Asked(x, m, y) = m BY <2>1, FlatInserted
    <2>3. ~ CompatibleWithOthers(t, y, m)
        BY <2>1, <2>2 DEF Won, Grantable
    <2>4. Blocked(y, m) BY <2>3 DEF CompatibleWithOthers, Blocked
    <2>5. wait_queues'[y] = Append(wait_queues[y], [txn |-> t, type |-> m])
        BY <1>2, <2>2 DEF RequestActive
    <2>6. y \notin Inserted(t, x, m, found) BY <2>1 DEF Inserted
    <2>7. QED BY <1>0, <2>2, <2>4, <2>5, <2>6, RequestModes
<1>3. ASSUME NEW y \in Resource, y \notin Enqueued(t, x, m, found)
      PROVE  wait_queues'[y] = wait_queues[y]
    BY <1>3 DEF RequestActive
<1>4. FlatTable'
    <2>1. resource_parent' = resource_parent BY DEF RequestActive
    <2>2. ASSUME NEW y \in Resource, NEW i \in DOMAIN wait_queues'[y]
          PROVE  wait_queues'[y][i].type \in {"S", "X"}
        <3>1. \A j \in DOMAIN wait_queues[y] :
                  wait_queues[y][j].type \in {"S", "X"}
            BY DEF FlatTable
        <3>2. CASE y \in Enqueued(t, x, m, found)
            <4>1. wait_queues[y] \in Seq(Request) BY DEF LockTypeOK
            <4>2. \/ i \in DOMAIN wait_queues[y]
                     /\ wait_queues'[y][i] = wait_queues[y][i]
                  \/ wait_queues'[y][i] = [txn |-> t, type |-> m]
                BY <1>2, <3>2, <4>1
            <4>3. QED BY <3>1, <4>2
        <3>3. CASE y \notin Enqueued(t, x, m, found)
            BY <1>3, <3>1, <3>3
        <3>4. QED BY <3>2, <3>3
    <2>3. QED BY <1>1, <2>1, <2>2 DEF FlatTable
<1>5. ASSUME NEW y \in Resource, NEW k, Blocked(y, k)
      PROVE  Blocked(y, k)'
    BY <1>5, FlatRequestStronger DEF Blocked
<1>6. HeadsBlocked'
    <2> SUFFICES ASSUME NEW y \in Resource, wait_queues'[y] # << >>
                 PROVE  Blocked(y, wait_queues[y][1].type)'
        BY DEF HeadsBlocked
    <2>1. wait_queues[y] \in Seq(Request) BY DEF LockTypeOK
    <2>2. CASE wait_queues[y] = << >> /\ y \in Enqueued(t, x, m, found)
        <3>1. wait_queues'[y] = <<[txn |-> t, type |-> m]>>
            BY <1>2, <2>2
        <3>2. wait_queues'[y][1].type = m BY <3>1
        <3>3. Blocked(y, m)' BY <1>2, <1>5, <2>2
        <3>4. QED BY <3>2, <3>3
    <2>3. CASE wait_queues[y] # << >>
        <3>1. Blocked(y, wait_queues[y][1].type)
            BY <2>3 DEF HeadsBlocked
        <3>2. wait_queues'[y][1] = wait_queues[y][1]
            BY <1>2, <1>3, <2>1, <2>3
        <3>3. PICK k : k = wait_queues[y][1].type OBVIOUS
        <3>4. Blocked(y, k)' BY <1>5, <3>1, <3>3
        <3>5. QED BY <3>2, <3>3, <3>4
    <2>4. QED BY <1>3, <2>2, <2>3
<1>7. QED BY <1>4, <1>6

\* A release looks at every queue it may have freed: it stops at a request
\* that a lock left in the table, or one just granted, stands against.
LEMMA FlatReleaseKeeps ==
    ASSUME LockTypeOK, FlatTable, HeadsBlocked,
           NEW t \in Txn, NEW released \in SUBSET Resource,
           Release(t, released), resource_parent' = resource_parent
    PROVE  FlatTable' /\ HeadsBlocked'
<1>1. ASSUME NEW x \in Resource, x \notin released
      PROVE  /\ wait_queues'[x] = wait_queues[x]
             /\ \A u \in Txn : HeldModes(u, x)' = HeldModes(u, x)
    BY <1>1, ReleaseModes
<1>2. ASSUME NEW x \in Resource, x \in released
      PROVE  LET q == wait_queues[x]
                 W == Woken(Without(t, x), q)
                 n == Cardinality(W)
             IN  /\ q \in Seq(Request) /\ n \in 0..Len(q) /\ W = 1..n
                 /\ wait_queues'[x] = SubSeq(q, n + 1, Len(q))
                 /\ \A u \in Txn : HeldModes(u, x)' =
                        (IF u = t THEN {} ELSE HeldModes(u, x))
                            \cup WokenModes(Without(t, x), q, u)
    <2>1. wait_queues[x] \in Seq(Request) BY DEF LockTypeOK
    <2>2. wait_queues'[x] = DropWoken(Without(t, x), wait_queues[x])
        BY <1>2 DEF Release
    <2>3. QED BY <1>2, <2>1, <2>2, WokenPrefix, ReleaseModes
<1>3. FlatTable'
    <2>1. ASSUME NEW x \in Resource, NEW u \in Txn
          PROVE  HeldModes(u, x)' \subseteq {"S", "X"}
        <3>1. /\ HeldModes(u, x) \subseteq {"S", "X"}
              /\ \A i \in DOMAIN wait_queues[x] :
                    wait_queues[x][i].type \in {"S", "X"}
            BY DEF FlatTable
        <3>2. WokenModes(Without(t, x), wait_queues[x], u) \subseteq {"S", "X"}
            BY <3>1 DEF WokenModes, Woken
        <3>3. QED BY <1>1, <1>2, <3>1, <3>2
    <2>2. ASSUME NEW x \in Resource, NEW i \in DOMAIN wait_queues'[x]
          PROVE  wait_queues'[x][i].type \in {"S", "X"}
        <3>1. PICK n \in Nat : /\ n + i \in DOMAIN wait_queues[x]
                               /\ wait_queues'[x][i] = wait_queues[x][n + i]
            BY ReleaseWaiting
        <3>2. QED BY <3>1 DEF FlatTable
    <2>3. QED BY <2>1, <2>2 DEF FlatTable
<1>4. ASSUME NEW x \in Resource, x \in released, wait_queues'[x] # << >>
      PROVE  Blocked(x, wait_queues[x][1].type)'
    <2> DEFINE q == wait_queues[x]
               W == Woken(Without(t, x), q)
               n == Cardinality(W)
    <2>1. /\ q \in Seq(Request) /\ n \in 0..Len(q) /\ W = 1..n
          /\ wait_queues'[x] = SubSeq(q, n + 1, Len(q))
        BY <1>2, <1>4
    <2>2. \A u \in Txn : HeldModes(u, x)' =
              (IF u = t THEN {} ELSE HeldModes(u, x))
                  \cup WokenModes(Without(t, x), q, u)
        BY <1>2, <1>4
    <2>3. n + 1 \in 1..Len(q) /\ wait_queues'[x][1] = q[n + 1]
        <3> HIDE DEF q, n
        <3>1. n < Len(q) BY <1>4, <2>1
        <3>2. QED BY <2>1, <3>1
    <2>4. PICK k : k = q[n + 1].type OBVIOUS
    <2>5. n + 1 \notin W BY <2>1
    <2>6. \/ ~ CompatibleWithAll(Without(t, x), k)
          \/ \E j \in 1..n : ~ Compatible(q[j].type, k)
        <3>1. n + 1 \in DOMAIN q BY <2>1, <2>3
        <3>2. PICK j \in 1..(n + 1) :
                  \/ ~ CompatibleWithAll(Without(t, x), q[j].type)
                  \/ \E i \in 1..(j - 1) : ~ Compatible(q[i].type, q[j].type)
            BY <2>5, <3>1 DEF Woken
        <3>3. CASE j = n + 1 BY <2>1, <2>4, <3>2, <3>3
        <3>4. CASE j \in 1..n
            <4>1. j \in W /\ j \in 1..j BY <2>1, <3>4
            <4>2. QED BY <3>2, <4>1 DEF Woken
        <3>5. QED BY <2>1, <3>3, <3>4
    <2>7. CASE ~ CompatibleWithAll(Without(t, x), k)
        <3>1. PICK u \in Txn :
                  \E h \in ModesIn(Without(t, x)[u]) : ~ Compatible(h, k)
            BY <2>7 DEF CompatibleWithAll
        <3>2. PICK h \in ModesIn(Without(t, x)[u]) : ~ Compatible(h, k)
            BY <3>1
        <3>3. h \in HeldModes(u, x)' BY <2>2, <3>2, WithoutModes
        <3>4. Blocked(x, k)' BY <3>2, <3>3 DEF Blocked
        <3>5. QED BY <2>3, <2>4, <3>4
    <2>8. CASE \E j \in 1..n : ~ Compatible(q[j].type, k)
        <3>1. PICK j \in 1..n : ~ Compatible(q[j].type, k) BY <2>8
        <3>2. j \in W /\ q[j] \in Request BY <2>1
        <3>3. PICK u \in Txn, h \in Mode : q[j] = [txn |-> u, type |-> h]
            BY <3>2 DEF Request
        <3>4. h \in WokenModes(Without(t, x), q, u)
            BY <3>2, <3>3 DEF WokenModes
        <3>5. h \in HeldModes(u, x)' BY <2>2, <3>4
        <3>6. ~ Compatible(h, k) BY <3>1, <3>3
        <3>7. Blocked(x, k)' BY <3>5, <3>6 DEF Blocked
        <3>8. QED BY <2>3, <2>4, <3>7
    <2>9. QED BY <2>6, <2>7, <2>8
<1>5. HeadsBlocked'
    <2> SUFFICES ASSUME NEW x \in Resource, wait_queues'[x] # << >>
                 PROVE  Blocked(x, wait_queues[x][1].type)'
        BY DEF HeadsBlocked
    <2>1. CASE x \notin released
        BY <1>1, <2>1 DEF HeadsBlocked, Blocked
    <2>2. QED BY <1>4, <2>1
<1>6. QED BY <1>3, <1>5

\* Every call of such callers keeps the heads blocked.
LEMMA FlatNext ==
    ASSUME FlatCallers
    PROVE  /\ LockInit => FlatTable /\ HeadsBlocked
           /\ LockTypeOK /\ FlatTable /\ HeadsBlocked /\ [LockNext]_lockVars
                  => FlatTable' /\ HeadsBlocked'
<1>1. ASSUME LockInit PROVE FlatTable /\ HeadsBlocked
    <2>1. \A x \in Resource, t \in Txn : HeldModes(t, x) = {}
        BY <1>1 DEF LockInit, HeldModes, ModesIn
    <2>2. QED BY <1>1, <2>1 DEF LockInit, FlatTable, HeadsBlocked
<1> SUFFICES ASSUME LockTypeOK, FlatTable, HeadsBlocked, [LockNext]_lockVars
             PROVE  FlatTable' /\ HeadsBlocked'
    BY <1>1
<1>2. CASE UNCHANGED lockVars
    <2>1. \A x \in Resource, t \in Txn : HeldModes(t, x)' = HeldModes(t, x)
        BY <1>2 DEF lockVars, HeldModes
    <2>2. UNCHANGED <<wait_queues, resource_parent>> BY <1>2 DEF lockVars
    <2>3. QED BY <2>1, <2>2 DEF FlatTable, HeadsBlocked, Blocked
<1>3. ASSUME NEW t \in Txn, NEW x \in Resource, NEW m \in RequestTypes,
             NEW granted \in BOOLEAN, RequestLock(t, x, m, granted)
      PROVE  FlatTable' /\ HeadsBlocked'
    <2>1. m \in {"S", "X"} BY DEF FlatCallers
    <2>2. CASE \E found \in [Path(x) -> Mode \cup {NoLock}] :
                  /\ \A y \in Path(x) : found[y] \in Existing(t, y)
                  /\ RequestActive(t, x, m, found, granted)
        BY <2>1, <2>2, FlatRequestKeeps
    <2>3. QED BY <1>2, <1>3, <2>2 DEF RequestLock
<1>4. ASSUME NEW t \in Txn, NEW x \in Resource, ReleaseLock(t, x)
      PROVE  FlatTable' /\ HeadsBlocked'
    BY <1>4, FlatReleaseKeeps DEF ReleaseLock
<1>5. ASSUME NEW t \in Txn, CompleteTransaction(t)
      PROVE  FlatTable' /\ HeadsBlocked'
    <2>1. ToRelease(t) \in SUBSET Resource BY DEF ToRelease, LockTypeOK
    <2>2. QED BY <1>5, <2>1, FlatReleaseKeeps DEF CompleteTransaction
<1>6. ASSUME NEW child \in Resource, NEW parent \in Resource,
             SetResourceParent(child, parent)
      PROVE  FALSE
    BY <1>6 DEF SetResourceParent, FlatCallers
<1>7. QED BY <1>2, <1>3, <1>4, <1>5, <1>6 DEF LockNext, Housekeeping

\* No lost wake-up: whenever a queue is not empty, a lock in the table stands
\* against the request at its head, so some later release will look at the
\* queue again (releaseLock calls processWaitQueue, requestLock does not).
THEOREM NoLostWakeup ==
    ASSUME FlatCallers
    PROVE  LockSpec => []HeadBlocked
<1>1. LockInit => FlatTable /\ HeadsBlocked BY FlatNext
<1>2. LockTypeOK /\ FlatTable /\ HeadsBlocked /\ [LockNext]_lockVars
          => FlatTable' /\ HeadsBlocked'
    BY FlatNext
<1>3. LockTypeOK /\ HeadsBlocked => HeadBlocked BY HeadsBlockedMeans
<1>4. QED BY <1>1, <1>2, <1>3, TypeCorrect, PTL DEF LockSpec

-----------------------------------------------------------------------------
(***************************************************************************)
(* The lock manager is a strict two-phase lock manager, for every set of   *)
(* transactions and resources, every hierarchy and every request type.     *)
(***************************************************************************)

\* The table of lock types seen through the refinement mapping.
LEMMA HeldValue ==
    /\ \A t \in Txn, x \in Resource : Held[t][x] = HeldModes(t, x)
    /\ \A t \in Txn, x \in Resource : Held'[t][x] = HeldModes(t, x)'
BY DEF Held

\* Compatible locks are what the abstract lock table calls no conflict.
LEMMA CompatibleIsNoConflict == CompatibleLocks' => Strict!NoConflict'
BY HeldValue
    DEF CompatibleLocks, Strict!NoConflict, Compatible, IsCompatible,
        Strict!IsCompatible

\* The empty lock manager is the empty abstract one.
LEMMA InitRefines == LockInit => Strict!StrictInit
<1> SUFFICES ASSUME LockInit PROVE Strict!StrictInit
    OBVIOUS
<1>1. \A t \in Txn, x \in Resource : HeldModes(t, x) = {}
    BY DEF LockInit, HeldModes, ModesIn
<1>2. Held = [t \in Txn |-> [x \in Resource |-> {}]]
    BY <1>1 DEF Held
<1>3. QED BY <1>2 DEF LockInit, Strict!StrictInit

\* A request of an active transaction is an abstract request: nobody else's
\* locks change, and the lock it replaces is not an X lock.
LEMMA RequestRefines ==
    ASSUME LockTypeOK, NEW t \in Txn, NEW x \in Resource, NEW m \in Mode,
           NEW granted \in BOOLEAN,
           NEW found \in [Path(x) -> Mode \cup {NoLock}],
           \A y \in Path(x) : found[y] \in Existing(t, y),
           RequestActive(t, x, m, found, granted)
    PROVE  Strict!Request(t)
<1>1. t \notin completed_transactions /\ UNCHANGED completed_transactions
    BY DEF RequestActive
<1>2. ASSUME NEW u \in Txn \ {t} PROVE Held'[u] = Held[u]
    <2>1. \A y \in Resource : HeldModes(u, y)' = HeldModes(u, y)
        BY RequestModes
    <2>2. QED BY <2>1 DEF Held
<1>3. ASSUME NEW y \in Resource
      PROVE  /\ HeldModes(t, y) # {} => HeldModes(t, y)' # {}
             /\ "X" \in HeldModes(t, y) => "X" \in HeldModes(t, y)'
    <2>1. CASE y \notin Inserted(t, x, m, found) BY <2>1, RequestModes
    <2>2. CASE y \in Inserted(t, x, m, found)
        <3>1. found[y] # "X" BY <2>2, InsertedFacts
        <3>2. QED BY <2>2, <3>1, RequestModes
    <2>3. QED BY <2>1, <2>2
<1>4. QED BY <1>1, <1>2, <1>3, HeldValue DEF Strict!Request

\* A release is an abstract end: the others can only gain from the queues.
LEMMA ReleaseRefines ==
    ASSUME LockTypeOK, NEW t \in Txn, NEW released \in SUBSET Resource,
           Release(t, released),
           completed_transactions' = completed_transactions \cup {t}
    PROVE  Strict!Finish(t)
<1>1. ASSUME NEW u \in Txn \ {t}, NEW x \in Resource
      PROVE  HeldModes(u, x) \subseteq HeldModes(u, x)'
    BY ReleaseModes
<1>2. QED BY <1>1, HeldValue DEF Strict!Finish

\* Every public call is a step of the abstract lock manager, or none.
LEMMA NextRefines ==
    SafetyInv /\ SafetyInv' /\ [LockNext]_lockVars
        => [Strict!StrictNext]_<<Held, completed_transactions>>
<1> SUFFICES ASSUME SafetyInv, SafetyInv', [LockNext]_lockVars
             PROVE  [Strict!StrictNext]_<<Held, completed_transactions>>
    OBVIOUS
<1>1. LockTypeOK /\ Strict!NoConflict'
    BY CompatibleIsNoConflict DEF SafetyInv
<1>2. UNCHANGED <<resource_locks, completed_transactions>>
          => UNCHANGED <<Held, completed_transactions>>
    BY DEF Held, HeldModes
<1>3. ASSUME NEW t \in Txn, NEW x \in Resource, NEW m \in RequestTypes,
             NEW granted \in BOOLEAN, RequestLock(t, x, m, granted)
      PROVE  UNCHANGED lockVars \/ Strict!StrictNext
    <2>1. m \in Mode BY RequestAssumption
    <2>2. CASE \E found \in [Path(x) -> Mode \cup {NoLock}] :
                  /\ \A y \in Path(x) : found[y] \in Existing(t, y)
                  /\ RequestActive(t, x, m, found, granted)
        BY <1>1, <2>1, <2>2, RequestRefines DEF Strict!StrictNext
    <2>3. QED BY <1>3, <2>2 DEF RequestLock
<1>4. ASSUME NEW t \in Txn, NEW x \in Resource, ReleaseLock(t, x)
      PROVE  Strict!StrictNext
    <2>1. completed_transactions' = completed_transactions \cup {t}
        BY <1>4 DEF ReleaseLock
    <2>2. Strict!Finish(t)
        BY <1>1, <1>4, <2>1, ReleaseRefines DEF ReleaseLock
    <2>3. QED BY <1>1, <2>2 DEF Strict!StrictNext
<1>5. ASSUME NEW t \in Txn, CompleteTransaction(t)
      PROVE  Strict!StrictNext
    <2>1. ToRelease(t) \in SUBSET Resource
        BY <1>1 DEF ToRelease, LockTypeOK
    <2>2. Strict!Finish(t)
        BY <1>1, <1>5, <2>1, ReleaseRefines DEF CompleteTransaction
    <2>3. QED BY <1>1, <2>2 DEF Strict!StrictNext
<1>6. ASSUME NEW child \in Resource, NEW parent \in Resource,
             SetResourceParent(child, parent)
      PROVE  UNCHANGED <<resource_locks, completed_transactions>>
    BY <1>6 DEF SetResourceParent
<1>7. QED
    BY <1>2, <1>3, <1>4, <1>5, <1>6 DEF LockNext, Housekeeping, lockVars

\* The lock manager implements the strict two-phase lock manager: requests
\* that stop half way up a path, replaced Lock objects and grants out of the
\* queues show as steps of the abstract one, which knows none of them.
THEOREM StrictRefinement == LockSpec => ImplementsStrictLocking
<1>1. LockInit => Strict!StrictInit BY InitRefines
<1>2. SafetyInv /\ SafetyInv' /\ [LockNext]_lockVars
          => [Strict!StrictNext]_<<Held, completed_transactions>>
    BY NextRefines
<1>3. QED
    BY <1>1, <1>2, SafetyHolds, PTL
    DEF LockSpec, ImplementsStrictLocking, Strict!StrictSpec

=============================================================================
