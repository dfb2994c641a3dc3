------------------------------ MODULE MCEngine -------------------------------
(***************************************************************************)
(* Small instances of Engine for TLC.                                      *)
(***************************************************************************)
EXTENDS Engine

CONSTANTS a, b, row

FlatHierarchy == {}
RowHierarchy  == {<<row, a>>}

=============================================================================
