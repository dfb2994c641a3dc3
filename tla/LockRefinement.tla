---------------------------- MODULE LockRefinement ---------------------------
(***************************************************************************)
(* LockManager implements StrictLocking: the abstract lock table lists the *)
(* types of a transaction's Lock objects, whatever their number, and       *)
(* forgets the queues and the hierarchy.                                   *)
(***************************************************************************)
EXTENDS LockManager

Held == [t \in Txn |-> [x \in Resource |-> HeldModes(t, x)]]

Strict == INSTANCE StrictLocking
          WITH held <- Held, ended <- completed_transactions

\* Every behaviour of the lock manager is one of a strict two-phase lock
\* manager: paths taken half way, replaced locks and grants out of the queue
\* never touch another transaction's locks, except to add to them.
ImplementsStrictLocking == Strict!StrictSpec

=============================================================================
