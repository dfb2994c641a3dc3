---------------------------- MODULE MCLockManager ----------------------------
(***************************************************************************)
(* Small instances of LockManager for TLC: a flat table (no hierarchy) and *)
(* a two-level hierarchy, the shape test/test_deadlock.cpp uses.           *)
(***************************************************************************)
EXTENDS LockRefinement, TLC

CONSTANTS t1, t2, t3, table, row1, row2,
          MaxCopies     \* bound: Lock objects of one transaction on a resource

ASSUME CopiesAssumption == MaxCopies \in Nat \ {0}

FlatHierarchy == {}
RowHierarchy  == {<<row1, table>>, <<row2, table>>}

\* A transaction asks for locks only where it owns fewer than MaxCopies Lock
\* objects; a granted waiter may bring it to MaxCopies.
Copies(t, x) == LET bag == resource_locks[x][t]
                IN  bag["S"] + bag["X"] + bag["IS"] + bag["IX"]

FewCopies(t, x) == \A y \in Path(x) : Copies(t, y) < MaxCopies

BoundedNext ==
    \/ \E t \in Txn, x \in Resource, m \in RequestTypes, granted \in BOOLEAN :
          FewCopies(t, x) /\ RequestLock(t, x, m, granted)
    \/ Housekeeping

BoundedSpec == LockInit /\ [][BoundedNext]_lockVars

TxnSymmetry  == Permutations(Txn)
FlatSymmetry == TxnSymmetry \cup Permutations(Resource)
RowSymmetry  == TxnSymmetry \cup Permutations({row1, row2})

=============================================================================
