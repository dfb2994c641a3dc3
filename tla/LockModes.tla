------------------------------ MODULE LockModes ------------------------------
(***************************************************************************)
(* The lock types of include/utils/enums.h and the two pure functions      *)
(* LockManager computes on them.  A lock type is written "S", "X", "IS" or *)
(* "IX"; NoLock stands for LockType::NONE, the answer for "no lock".       *)
(***************************************************************************)

Mode   == {"S", "X", "IS", "IX"}
NoLock == "NONE"

(***************************************************************************)
(* LockManager::isCompatible.  The matrix is the code's: X excludes every  *)
(* lock, and S excludes IX in both directions.                             *)
(***************************************************************************)
IsCompatible(existing, requested) ==
    /\ "X" \notin {existing, requested}
    /\ {existing, requested} # {"S", "IX"}

(***************************************************************************)
(* LockManager::getAncestorIntentionType: what a request for type demands  *)
(* of every ancestor of the requested resource.                            *)
(***************************************************************************)
AncestorIntention(type) == IF type \in {"X", "IX"} THEN "IX" ELSE "IS"

=============================================================================
