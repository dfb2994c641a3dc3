------------------------------ MODULE DataStore ------------------------------
(***************************************************************************)
(* src/storage/DataStore.cpp and Record.cpp: records in memory, by id.     *)
(* What a record holds is kept as an element of Data, its length only for  *)
(* the limit of setData; the timestamps of a Record are read by nothing.   *)
(***************************************************************************)
EXTENDS Integers

CONSTANTS
    Data,               \* contents of records
    Size,               \* their sizes in bytes
    MAX_RECORD_SIZE

ASSUME DataAssumption == Size \in [Data -> Nat] /\ MAX_RECORD_SIZE \in Nat

VARIABLE records    \* the map from ids to the contents of the records

\* Contents that setData takes; for others it throws.
Fits(data) == Size[data] <= MAX_RECORD_SIZE

DataTypeOK ==
    /\ DOMAIN records \subseteq Nat
    /\ \A id \in DOMAIN records : records[id] \in Data /\ Fits(records[id])

DataInit == records = [id \in {} |-> 0]

\* insertRecord of a record made with setData; refused if the id is taken.
insertRecord(id, data, inserted) ==
    /\ Fits(data)
    /\ inserted = (id \notin DOMAIN records)
    /\ records' = [i \in DOMAIN records \cup {id} |->
                      IF i \in DOMAIN records THEN records[i] ELSE data]

\* updateRecord returning true.  It returns false for an unknown id, and
\* throws when the data does not fit; then nothing changes.
updateRecord(id, data) ==
    /\ id \in DOMAIN records
    /\ Fits(data)
    /\ records' = [records EXCEPT ![id] = data]

deleteRecord(id) ==
    /\ id \in DOMAIN records
    /\ records' = [i \in DOMAIN records \ {id} |-> records[i]]

clear == records' = [id \in {} |-> 0]

DataNext ==
    \/ \E id \in Nat, data \in Data, inserted \in BOOLEAN :
          insertRecord(id, data, inserted)
    \/ \E id \in DOMAIN records, data \in Data : updateRecord(id, data)
    \/ \E id \in DOMAIN records : deleteRecord(id)
    \/ clear

DataSpec == DataInit /\ [][DataNext]_records

=============================================================================
