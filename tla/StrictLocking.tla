---------------------------- MODULE StrictLocking ----------------------------
(***************************************************************************)
(* What a strict two-phase lock manager promises its callers, without      *)
(* queues, paths or Lock objects: who holds locks of which types, and      *)
(* which transactions have ended.  LockManager implements it.              *)
(***************************************************************************)
EXTENDS LockModes

CONSTANTS Txn, Resource

VARIABLES
    held,   \* the types of the locks of a transaction on a resource
    ended   \* the transactions that have committed or aborted

NoConflict ==
    \A x \in Resource : \A t, u \in Txn :
        t # u => \A m \in held[t][x], n \in held[u][x] : IsCompatible(m, n)

StrictInit ==
    /\ held = [t \in Txn |-> [x \in Resource |-> {}]]
    /\ ended = {}

\* A transaction asks for a lock.  Nobody else notices; the requester, who
\* must not have ended, may exchange the type of a lock, X excepted, but is
\* left without a lock nowhere.
Request(t) ==
    /\ t \notin ended
    /\ \A u \in Txn \ {t} : held'[u] = held[u]
    /\ \A x \in Resource :
          /\ held[t][x] # {} => held'[t][x] # {}
          /\ "X" \in held[t][x] => "X" \in held'[t][x]
    /\ ended' = ended

\* A transaction ends, or one that has ended releases locks: the others can
\* only gain by it.
Finish(t) ==
    /\ ended' = ended \cup {t}
    /\ \A u \in Txn \ {t} : \A x \in Resource : held[u][x] \subseteq held'[u][x]

StrictNext == NoConflict' /\ \E t \in Txn : Request(t) \/ Finish(t)

StrictSpec == StrictInit /\ [][StrictNext]_<<held, ended>>

=============================================================================
