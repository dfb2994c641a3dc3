---------------------------- MODULE CatalogProofs ----------------------------
(***************************************************************************)
(* Proofs about DataStore and Catalog, for all names, segments, contents   *)
(* and bounds.                                                             *)
(***************************************************************************)
EXTENDS Catalog, SequenceLemmas

-----------------------------------------------------------------------------
(***************************************************************************)
(* The data store.                                                         *)
(***************************************************************************)

\* insertRecord keeps the records well formed.
LEMMA InsertType ==
    ASSUME DataTypeOK, NEW id \in Nat, NEW data \in Data, NEW inserted,
           insertRecord(id, data, inserted)
    PROVE  DataTypeOK'
BY DEF DataTypeOK, insertRecord, Fits

\* updateRecord keeps the records well formed.
LEMMA UpdateType ==
    ASSUME DataTypeOK, NEW id, NEW data \in Data, updateRecord(id, data)
    PROVE  DataTypeOK'
BY DEF DataTypeOK, updateRecord, Fits

\* No record ever holds more than MAX_RECORD_SIZE bytes, whatever is inserted,
\* updated, deleted and cleared.
THEOREM RecordsFit == DataSpec => []DataTypeOK
<1>1. DataInit => DataTypeOK BY DEF DataInit, DataTypeOK
<1>2. DataTypeOK /\ [DataNext]_records => DataTypeOK'
    <2> SUFFICES ASSUME DataTypeOK, [DataNext]_records PROVE DataTypeOK'
        OBVIOUS
    <2>1. CASE UNCHANGED records BY <2>1 DEF DataTypeOK, Fits
    <2>2. ASSUME NEW id \in DOMAIN records, deleteRecord(id)
          PROVE  DataTypeOK'
        BY <2>2 DEF DataTypeOK, deleteRecord, Fits
    <2>3. CASE clear BY <2>3 DEF DataTypeOK, clear
    <2>4. QED BY <2>1, <2>2, <2>3, InsertType, UpdateType DEF DataNext
<1>3. QED BY <1>1, <1>2, PTL DEF DataSpec

-----------------------------------------------------------------------------
(***************************************************************************)
(* The walk along a name.                                                  *)
(***************************************************************************)

\* How many segments of the command's name have been read.
Read == Len(command.name) - Len(rest)

\* The walk stands at a known name, or has met empty segments only.
WalkOK ==
    /\ path # << >> => path \in Keys /\ last_id = resource_ids[path]
    /\ last_id < next_resource_id
    /\ path = << >> /\ rest # << >> => last_id = 0
    /\ command # NoCommand =>
          /\ Len(rest) <= Len(command.name)
          /\ \A i \in DOMAIN rest : rest[i] = command.name[Read + i]
          /\ path = << >> => \A i \in 1..Read : command.name[i] = Empty
    /\ command = NoCommand => rest = << >>

CatalogInv == CatalogTypeOK /\ TreeOfNames /\ WalkOK

\* The directory is empty before the first command.
LEMMA CatalogInitInv == CatalogInit => CatalogInv
<1> SUFFICES ASSUME CatalogInit PROVE CatalogInv
    OBVIOUS
<1>1. Keys = {} /\ DOMAIN resource_parent = {} /\ DOMAIN records = {}
    BY DEF CatalogInit, DataInit, Keys
<1>2. CatalogTypeOK
    BY <1>1 DEF CatalogInit, CatalogTypeOK, DataTypeOK
<1>3. TreeOfNames
    BY <1>1 DEF CatalogInit, TreeOfNames, Paths
<1>4. WalkOK BY DEF CatalogInit, WalkOK
<1>5. QED BY <1>2, <1>3, <1>4 DEF CatalogInv

\* A path as the walk extends it.
LEMMA Extended ==
    ASSUME NEW p \in Seq(Segment), NEW s \in Segment
    PROVE  /\ Append(p, s) \in Seq(Segment)
           /\ Append(p, s) # << >>
           /\ Len(Append(p, s)) = Len(p) + 1
           /\ SubSeq(Append(p, s), 1, Len(Append(p, s)) - 1) = p
<1>1. /\ Append(p, s) \in Seq(Segment)
      /\ Append(p, s) # << >>
      /\ Len(Append(p, s)) = Len(p) + 1
    BY AppendProperties
<1>2. SubSeq(Append(p, s), 1, Len(p)) = p OBVIOUS
<1>3. QED BY <1>1, <1>2

\* A name of empty segments only is not a path.
LEMMA EmptyNameNoPath ==
    ASSUME CatalogInv, command # NoCommand, rest = << >>, path = << >>
    PROVE  /\ command.name \in Seq(Segment \cup {Empty}) \ {<< >>}
           /\ command.name \notin Seq(Segment)
<1>1. command.name \in Seq(Segment \cup {Empty}) \ {<< >>}
    BY CatalogAssumption DEF CatalogInv, CatalogTypeOK, Command
<1>2. command.name[1] = Empty /\ 1 \in DOMAIN command.name
    <2>1. Read = Len(command.name) BY <1>1 DEF Read
    <2>2. Len(command.name) >= 1 BY <1>1
    <2>3. QED BY <1>1, <2>1, <2>2 DEF CatalogInv, WalkOK
<1>3. QED BY <1>1, <1>2, CatalogAssumption

-----------------------------------------------------------------------------
(***************************************************************************)
(* Creating a resource.                                                    *)
(***************************************************************************)

\* A resource made for a new path below a known one, or at the top.
LEMMA CreatePathTree ==
    ASSUME CatalogInv, NEW s \in Segment, Append(path, s) \notin Keys,
           path # << >> \/ last_id = 0,
           Create(Append(path, s), Initial(Append(path, s))),
           resource_parent' = IF last_id = 0 THEN resource_parent
                              ELSE Put(resource_parent, next_resource_id, last_id)
    PROVE  TreeOfNames'
<1> DEFINE new == Append(path, s)
           id == next_resource_id
<1>1. /\ new \in Seq(Segment) /\ new # << >>
      /\ Len(new) = Len(path) + 1
      /\ SubSeq(new, 1, Len(new) - 1) = path
      /\ path \in Seq(Segment)
    BY Extended DEF CatalogInv, CatalogTypeOK
<1>2. /\ new \notin Keys
      /\ resource_ids' = Put(resource_ids, new, id)
      /\ next_resource_id' = id + 1
      /\ id \notin DOMAIN records
      /\ DOMAIN records' = DOMAIN records \cup {id}
    BY DEF Create, insertRecord
<1> HIDE DEF new, id
<1>3. /\ Keys' = Keys \cup {new}
      /\ resource_ids'[new] = id
      /\ \A k \in Keys : resource_ids'[k] = resource_ids[k]
    BY <1>2 DEF Keys, Put
<1>4. /\ id \in Nat \ {0}
      /\ \A k \in Keys : resource_ids[k] \in 1..(id - 1)
      /\ DOMAIN records = 1..(id - 1)
      /\ last_id \in Nat
    BY DEF CatalogInv, CatalogTypeOK, TreeOfNames, id
<1>5. path # << >> => /\ path \in Paths
                      /\ last_id = resource_ids[path]
    BY <1>1 DEF CatalogInv, WalkOK, Paths
<1>6. \A p \in Paths : /\ resource_ids[p] \in DOMAIN resource_parent'
                              <=> resource_ids[p] \in DOMAIN resource_parent
                       /\ resource_ids[p] \in DOMAIN resource_parent =>
                            resource_parent'[resource_ids[p]]
                                = resource_parent[resource_ids[p]]
    <2>1. \A p \in Paths : resource_ids[p] # id BY <1>4 DEF Paths
    <2>2. QED BY <2>1 DEF id, Put
<1>7. \A k, l \in Keys' : resource_ids'[k] = resource_ids'[l] => k = l
    <2>1. \A k \in Keys : resource_ids[k] # id BY <1>4
    <2>2. QED BY <1>3, <2>1 DEF CatalogInv, TreeOfNames
<1>8. DOMAIN records' = 1..(next_resource_id' - 1)
    BY <1>2, <1>4
<1>9. ASSUME NEW p \in Paths', p = new
      PROVE  IF Len(p) = 1 THEN resource_ids'[p] \notin DOMAIN resource_parent'
             ELSE /\ SubSeq(p, 1, Len(p) - 1) \in Paths'
                  /\ resource_ids'[p] \in DOMAIN resource_parent'
                  /\ resource_parent'[resource_ids'[p]]
                         = resource_ids'[SubSeq(p, 1, Len(p) - 1)]
                  /\ resource_ids'[SubSeq(p, 1, Len(p) - 1)] < resource_ids'[p]
    <2>1. CASE path = << >>
        <3>1. Len(p) = 1 BY <1>1, <1>9, <2>1
        <3>2. last_id = 0 /\ resource_parent' = resource_parent
            BY <2>1
        <3>3. id \notin DOMAIN resource_parent
            BY <1>4 DEF CatalogInv, CatalogTypeOK, id
        <3>4. QED BY <1>3, <1>9, <3>1, <3>2, <3>3
    <2>2. CASE path # << >>
        <3>1. Len(p) # 1 BY <1>1, <1>9, <2>2
        <3>2. last_id # 0 BY <1>4, <1>5, <2>2 DEF Paths
        <3>3. /\ id \in DOMAIN resource_parent'
              /\ resource_parent'[id] = last_id
            BY <3>2 DEF id, Put
        <3>4. path \in Paths' /\ resource_ids'[path] = last_id /\ last_id < id
            BY <1>3, <1>4, <1>5, <2>2 DEF Paths
        <3>5. QED BY <1>1, <1>3, <1>9, <3>1, <3>3, <3>4
    <2>3. QED BY <2>1, <2>2
<1>10. ASSUME NEW p \in Paths', p # new
       PROVE  IF Len(p) = 1 THEN resource_ids'[p] \notin DOMAIN resource_parent'
              ELSE /\ SubSeq(p, 1, Len(p) - 1) \in Paths'
                   /\ resource_ids'[p] \in DOMAIN resource_parent'
                   /\ resource_parent'[resource_ids'[p]]
                          = resource_ids'[SubSeq(p, 1, Len(p) - 1)]
                   /\ resource_ids'[SubSeq(p, 1, Len(p) - 1)] < resource_ids'[p]
    <2>1. p \in Paths /\ p \in Keys BY <1>3, <1>10 DEF Paths
    <2>2. Paths \subseteq Paths' /\ Paths \subseteq Keys BY <1>3 DEF Paths
    <2>3. QED BY <1>3, <1>6, <2>1, <2>2 DEF CatalogInv, TreeOfNames
<1>11. QED BY <1>7, <1>8, <1>9, <1>10 DEF TreeOfNames

\* A resource made for a name without segments is outside the tree.
LEMMA CreateEmptyNameTree ==
    ASSUME CatalogInv, NEW key, key \notin Seq(Segment), Create(key, Zero),
           UNCHANGED resource_parent
    PROVE  TreeOfNames'
<1>1. /\ resource_ids' = Put(resource_ids, key, next_resource_id)
      /\ next_resource_id' = next_resource_id + 1
      /\ DOMAIN records' = DOMAIN records \cup {next_resource_id}
    BY DEF Create, insertRecord
<1>2. /\ next_resource_id \in Nat \ {0}
      /\ \A k \in Keys : resource_ids[k] \in 1..(next_resource_id - 1)
      /\ DOMAIN records = 1..(next_resource_id - 1)
    BY DEF CatalogInv, CatalogTypeOK, TreeOfNames
<1>3. /\ Keys' = Keys \cup {key}
      /\ resource_ids'[key] = next_resource_id
      /\ \A k \in Keys \ {key} : resource_ids'[k] = resource_ids[k]
    BY <1>1 DEF Keys, Put
<1>4. \A k, l \in Keys' : resource_ids'[k] = resource_ids'[l] => k = l
    <2>1. \A k \in Keys : resource_ids[k] # next_resource_id BY <1>2
    <2>2. QED BY <1>3, <2>1 DEF CatalogInv, TreeOfNames
<1>5. DOMAIN records' = 1..(next_resource_id' - 1)
    BY <1>1, <1>2
<1>6. /\ Paths' = Paths
      /\ \A p \in Paths : resource_ids'[p] = resource_ids[p]
    BY <1>3 DEF Paths
<1>7. QED BY <1>4, <1>5, <1>6 DEF CatalogInv, TreeOfNames

\* Creating a resource keeps the types of the directory.
LEMMA CreateType ==
    ASSUME CatalogTypeOK, NEW key \in Seq(Segment \cup {Empty}) \ {<< >>},
           NEW data \in Data, Create(key, data),
           resource_parent' = resource_parent
               \/ resource_parent' = Put(resource_parent, next_resource_id, last_id)
    PROVE  /\ DataTypeOK'
           /\ Keys' \subseteq Seq(Segment \cup {Empty}) \ {<< >>}
           /\ next_resource_id' \in Nat \ {0}
           /\ resource_ids' \in [Keys' -> 1..(next_resource_id' - 1)]
           /\ DOMAIN resource_parent' \subseteq 1..(next_resource_id' - 1)
           /\ resource_parent' \in [DOMAIN resource_parent' -> Nat]
           /\ last_id' = next_resource_id
<1>1. /\ next_resource_id \in Nat \ {0}
      /\ next_resource_id' = next_resource_id + 1
      /\ last_id' = next_resource_id
    BY DEF CatalogTypeOK, Create
<1>2. DataTypeOK'
    <2>1. next_resource_id \in Nat BY <1>1
    <2>2. insertRecord(next_resource_id, data, TRUE) BY DEF Create
    <2>3. QED BY <2>1, <2>2, InsertType DEF CatalogTypeOK
<1>3. /\ Keys' = Keys \cup {key}
      /\ resource_ids' = [k \in Keys \cup {key} |->
                             IF k = key THEN next_resource_id ELSE resource_ids[k]]
    BY DEF Create, Put, Keys
<1>4. resource_ids' \in [Keys' -> 1..(next_resource_id' - 1)]
    <2>1. \A k \in Keys : resource_ids[k] \in 1..(next_resource_id - 1)
        BY DEF CatalogTypeOK
    <2>2. QED BY <1>1, <1>3, <2>1
<1>5. /\ DOMAIN resource_parent' \subseteq 1..(next_resource_id' - 1)
      /\ resource_parent' \in [DOMAIN resource_parent' -> Nat]
    BY <1>1 DEF CatalogTypeOK, Put
<1>6. QED BY <1>1, <1>2, <1>3, <1>4, <1>5 DEF CatalogTypeOK

-----------------------------------------------------------------------------
(***************************************************************************)
(* The steps.                                                              *)
(***************************************************************************)

\* Reading a segment moves one place on in the command's name.
LEMMA ReadingFacts ==
    ASSUME CatalogInv, NEW s, Reading(s), UNCHANGED command
    PROVE  /\ command # NoCommand
           /\ rest' \in Seq(Segment \cup {Empty})
           /\ Read \in Nat
           /\ Read' = Read + 1
           /\ Len(rest') <= Len(command.name)
           /\ \A i \in DOMAIN rest' : rest'[i] = command.name[Read' + i]
           /\ command.name[Read + 1] = s
<1>1. command # NoCommand BY DEF Reading, CatalogInv, WalkOK
<1>2. command.name \in Seq(Segment \cup {Empty})
    BY <1>1, CatalogAssumption DEF CatalogInv, CatalogTypeOK, Command
<1>3. /\ rest \in Seq(Segment \cup {Empty}) /\ rest # << >>
      /\ rest' = Tail(rest) /\ s = rest[1]
    BY DEF Reading, CatalogInv, CatalogTypeOK
<1>4. /\ Len(rest) <= Len(command.name)
      /\ \A i \in DOMAIN rest : rest[i] = command.name[Read + i]
    BY <1>1 DEF CatalogInv, WalkOK
<1>5. /\ rest' \in Seq(Segment \cup {Empty})
      /\ Len(rest') = Len(rest) - 1
      /\ \A i \in DOMAIN rest' : i + 1 \in DOMAIN rest /\ rest'[i] = rest[i + 1]
    BY <1>3
<1>6. Read \in Nat /\ Read' = Read + 1
    BY <1>2, <1>3, <1>4, <1>5 DEF Read
<1>7. \A i \in DOMAIN rest' : rest'[i] = command.name[Read' + i]
    <2> SUFFICES ASSUME NEW i \in DOMAIN rest'
                 PROVE  rest'[i] = command.name[Read' + i]
        OBVIOUS
    <2>1. rest'[i] = command.name[Read + (i + 1)] BY <1>4, <1>5
    <2>2. i \in Nat BY <1>5
    <2>3. Read + (i + 1) = Read' + i BY <1>6, <2>2
    <2>4. QED BY <2>1, <2>3
<1>8. command.name[Read + 1] = s
    <2>1. 1 \in DOMAIN rest BY <1>3
    <2>2. QED BY <1>3, <1>4, <2>1
<1>9. Len(rest') <= Len(command.name) BY <1>2, <1>3, <1>4, <1>5
<1>10. QED BY <1>1, <1>5, <1>6, <1>7, <1>8, <1>9

\* A step that leaves the directory alone keeps the tree.
LEMMA SameDirectory ==
    ASSUME TreeOfNames,
           UNCHANGED <<resource_ids, next_resource_id, resource_parent>>,
           DOMAIN records' = DOMAIN records
    PROVE  TreeOfNames' /\ StepKeepsNames
BY DEF TreeOfNames, StepKeepsNames, Paths, Keys

\* A step that makes an id for a key that is no known path changes no name.
LEMMA CreateKeepsNames ==
    ASSUME CatalogInv, NEW key, key \notin Paths, NEW data, Create(key, data),
           resource_parent' = resource_parent
               \/ resource_parent' = Put(resource_parent, next_resource_id, last_id)
    PROVE  StepKeepsNames
<1>1. /\ Keys' = Keys \cup {key}
      /\ \A k \in Keys \ {key} : resource_ids'[k] = resource_ids[k]
    BY DEF Create, Put, Keys
<1>2. \A p \in Paths : p \in Keys /\ p # key BY DEF Paths
<1>3. \A p \in Paths : resource_ids[p] # next_resource_id
    BY <1>2 DEF CatalogInv, CatalogTypeOK
<1>4. QED BY <1>1, <1>2, <1>3 DEF StepKeepsNames, Put

\* A command is accepted.
LEMMA IssueInv ==
    ASSUME CatalogInv, NEW c \in Command, Issue(c)
    PROVE  CatalogInv' /\ StepKeepsNames
<1>1. c.name \in Seq(Segment \cup {Empty}) /\ c # NoCommand
    BY CatalogAssumption DEF Command, NoCommand
<1>2. TreeOfNames' /\ StepKeepsNames
    BY SameDirectory DEF Issue, directory, CatalogInv
<1>3. CatalogTypeOK'
    BY <1>1 DEF CatalogInv, CatalogTypeOK, DataTypeOK, Issue, directory, Keys
<1>4. Read' = 0 BY <1>1 DEF Issue, Read
<1>5. \A i \in DOMAIN rest' : rest'[i] = command'.name[Read' + i]
    BY <1>1, <1>4 DEF Issue
<1>6. WalkOK'
    BY <1>1, <1>4, <1>5 DEF Issue, WalkOK, directory, CatalogInv, CatalogTypeOK
<1>7. QED BY <1>2, <1>3, <1>6 DEF CatalogInv

\* An empty segment is skipped.
LEMMA EmptySegmentInv ==
    ASSUME CatalogInv, EmptySegment
    PROVE  CatalogInv' /\ StepKeepsNames
<1>1. /\ Reading(Empty) /\ UNCHANGED command /\ rest # << >>
      /\ UNCHANGED <<resource_ids, next_resource_id, resource_parent, records,
                     path, last_id>>
    BY DEF EmptySegment, directory, Reading
<1>2. TreeOfNames' /\ StepKeepsNames
    BY <1>1, SameDirectory DEF CatalogInv
<1>3. CatalogTypeOK'
    BY <1>1, ReadingFacts DEF CatalogInv, CatalogTypeOK, DataTypeOK, Keys
<1>4. path' = << >> => \A i \in 1..Read' : command'.name[i] = Empty
    <2> SUFFICES ASSUME path = << >>, NEW i \in 1..(Read + 1)
                 PROVE  command.name[i] = Empty
        BY <1>1, ReadingFacts
    <2>1. \A j \in 1..Read : command.name[j] = Empty
        BY <1>1, ReadingFacts DEF CatalogInv, WalkOK
    <2>2. command.name[Read + 1] = Empty /\ Read \in Nat
        BY <1>1, ReadingFacts
    <2>3. QED BY <2>1, <2>2
<1>5. WalkOK'
    BY <1>1, <1>4, ReadingFacts DEF CatalogInv, WalkOK, Keys
<1>6. QED BY <1>2, <1>3, <1>5 DEF CatalogInv

\* A segment leads to a known path.
LEMMA KnownSegmentInv ==
    ASSUME CatalogInv, KnownSegment
    PROVE  CatalogInv' /\ StepKeepsNames
<1>1. PICK s \in Segment : Reading(s) /\ path' = Append(path, s)
    BY DEF KnownSegment
<1>2. /\ UNCHANGED command
      /\ UNCHANGED <<resource_ids, next_resource_id, resource_parent, records>>
      /\ path' \in Keys
      /\ last_id' = resource_ids[path']
    BY DEF KnownSegment, directory
<1>3. path' \in Seq(Segment) /\ path' # << >>
    BY <1>1, Extended DEF CatalogInv, CatalogTypeOK
<1>4. TreeOfNames' /\ StepKeepsNames
    BY <1>2, SameDirectory DEF CatalogInv
<1>5. last_id' \in 1..(next_resource_id - 1) /\ next_resource_id \in Nat
    BY <1>2 DEF CatalogInv, CatalogTypeOK
<1>6. CatalogTypeOK'
    <2>1. rest' \in Seq(Segment \cup {Empty}) BY <1>1, <1>2, ReadingFacts
    <2>2. last_id' \in Nat BY <1>5
    <2>3. DataTypeOK' BY <1>2 DEF CatalogInv, CatalogTypeOK, DataTypeOK, Fits
    <2>4. QED
        BY <1>2, <1>3, <2>1, <2>2, <2>3 DEF CatalogInv, CatalogTypeOK, Keys
<1>7. WalkOK'
    BY <1>1, <1>2, <1>3, <1>5, ReadingFacts DEF CatalogInv, WalkOK, Keys
<1>8. QED BY <1>4, <1>6, <1>7 DEF CatalogInv

\* A segment leads to a new path.
LEMMA NewSegmentInv ==
    ASSUME CatalogInv, NewSegment
    PROVE  CatalogInv' /\ StepKeepsNames
<1>1. PICK s \in Segment : Reading(s) /\ path' = Append(path, s)
    BY DEF NewSegment
<1> DEFINE p == Append(path, s)
<1>2. /\ UNCHANGED command /\ rest # << >>
      /\ p \notin Keys
      /\ Create(p, Initial(p))
      /\ resource_parent' = IF last_id = 0 THEN resource_parent
                            ELSE Put(resource_parent, next_resource_id, last_id)
    BY <1>1 DEF NewSegment, Reading
<1>3. p \in Seq(Segment) /\ p # << >> /\ p \in Seq(Segment \cup {Empty})
    <2>1. p \in Seq(Segment) /\ p # << >>
        BY Extended DEF CatalogInv, CatalogTypeOK
    <2>2. QED BY <2>1
<1>4. Initial(p) \in Data BY CatalogAssumption DEF Initial
<1>5. path # << >> \/ last_id = 0 BY <1>2 DEF CatalogInv, WalkOK
<1>6. TreeOfNames' BY <1>2, <1>5, CreatePathTree
<1> HIDE DEF p
<1>7. /\ DataTypeOK'
      /\ Keys' \subseteq Seq(Segment \cup {Empty}) \ {<< >>}
      /\ next_resource_id' \in Nat \ {0}
      /\ resource_ids' \in [Keys' -> 1..(next_resource_id' - 1)]
      /\ DOMAIN resource_parent' \subseteq 1..(next_resource_id' - 1)
      /\ resource_parent' \in [DOMAIN resource_parent' -> Nat]
      /\ last_id' = next_resource_id
    BY <1>2, <1>3, <1>4, CreateType DEF CatalogInv
<1>8. path' = p BY <1>1 DEF p
<1>9. CatalogTypeOK'
    BY <1>1, <1>2, <1>3, <1>7, <1>8, ReadingFacts DEF CatalogInv, CatalogTypeOK
<1>10. /\ p \in Keys' /\ resource_ids'[p] = next_resource_id
       /\ next_resource_id' = next_resource_id + 1
       /\ next_resource_id \in Nat
    BY <1>2 DEF Create, Put, Keys, CatalogInv, CatalogTypeOK
<1>11. WalkOK'
    BY <1>1, <1>2, <1>3, <1>7, <1>8, <1>10, ReadingFacts DEF WalkOK
<1>12. p \notin Paths BY <1>2 DEF Paths
<1>13. StepKeepsNames BY <1>2, <1>12, CreateKeepsNames
<1>14. QED BY <1>6, <1>9, <1>11, <1>13 DEF CatalogInv

\* A name without segments gets an id of its own.
LEMMA NoSegmentInv ==
    ASSUME CatalogInv, NoSegment
    PROVE  CatalogInv' /\ StepKeepsNames
<1>1. /\ command # NoCommand /\ rest = << >> /\ last_id = 0
      /\ Create(command.name, Zero)
      /\ UNCHANGED <<resource_parent, command, rest, path>>
    BY DEF NoSegment
<1>2. path = << >>
    BY <1>1 DEF CatalogInv, CatalogTypeOK, WalkOK
<1>3. /\ command.name \in Seq(Segment \cup {Empty}) \ {<< >>}
      /\ command.name \notin Seq(Segment)
    BY <1>1, <1>2, EmptyNameNoPath
<1>4. TreeOfNames' BY <1>1, <1>3, CreateEmptyNameTree
<1>5. StepKeepsNames
    <2>1. command.name \notin Paths BY <1>3 DEF Paths
    <2>2. QED BY <1>1, <2>1, CreateKeepsNames
<1>6. Zero \in Data BY CatalogAssumption
<1>7. /\ DataTypeOK'
      /\ Keys' \subseteq Seq(Segment \cup {Empty}) \ {<< >>}
      /\ next_resource_id' \in Nat \ {0}
      /\ resource_ids' \in [Keys' -> 1..(next_resource_id' - 1)]
      /\ DOMAIN resource_parent' \subseteq 1..(next_resource_id' - 1)
      /\ resource_parent' \in [DOMAIN resource_parent' -> Nat]
      /\ last_id' = next_resource_id
    BY <1>1, <1>3, <1>6, CreateType DEF CatalogInv
<1>8. next_resource_id' = next_resource_id + 1 /\ next_resource_id \in Nat
    BY <1>1 DEF Create, CatalogInv, CatalogTypeOK
<1>9. CatalogTypeOK'
    BY <1>1, <1>7, <1>8 DEF CatalogInv, CatalogTypeOK
<1>10. Read' = Read BY <1>1 DEF Read
<1>11. WalkOK'
    BY <1>1, <1>2, <1>7, <1>8, <1>10 DEF CatalogInv, WalkOK
<1>12. QED BY <1>4, <1>5, <1>9, <1>11 DEF CatalogInv

\* ensureResource returns, and the command ends with or without a write.
LEMMA ReturnInv ==
    ASSUME CatalogInv, Return, DataTypeOK', DOMAIN records' = DOMAIN records
    PROVE  CatalogInv' /\ StepKeepsNames
<1>1. TreeOfNames' /\ StepKeepsNames
    BY SameDirectory DEF CatalogInv, Return
<1>2. CatalogTypeOK'
    BY DEF CatalogInv, CatalogTypeOK, Return, Keys
<1>3. WalkOK'
    BY DEF CatalogInv, CatalogTypeOK, WalkOK, Return, Keys
<1>4. QED BY <1>1, <1>2, <1>3 DEF CatalogInv

\* Every step keeps the invariant, and no step changes what a name means.
LEMMA CatalogNextInv ==
    CatalogInv /\ [CatalogNext]_vars => CatalogInv' /\ [StepKeepsNames]_vars
<1> SUFFICES ASSUME CatalogInv, [CatalogNext]_vars
             PROVE  CatalogInv' /\ [StepKeepsNames]_vars
    OBVIOUS
<1>1. CASE UNCHANGED vars
    <2>1. UNCHANGED <<resource_ids, next_resource_id, resource_parent, records,
                     command, rest, path, last_id>>
        BY <1>1 DEF vars, directory, walk
    <2>2. TreeOfNames' BY <2>1, SameDirectory DEF CatalogInv
    <2>3. CatalogTypeOK'
        BY <2>1 DEF CatalogInv, CatalogTypeOK, DataTypeOK, Fits, Keys
    <2>4. WalkOK' BY <2>1 DEF CatalogInv, WalkOK, Keys, Read
    <2>5. QED BY <1>1, <2>2, <2>3, <2>4 DEF CatalogInv
<1>2. CASE Look
    <2>1. Return /\ records' = records BY <1>2 DEF Look
    <2>2. DataTypeOK'
        BY <2>1 DEF CatalogInv, CatalogTypeOK, DataTypeOK, Fits
    <2>3. QED BY <2>1, <2>2, ReturnInv
<1>3. CASE Store
    <2>1. Return /\ updateRecord(last_id, command.data) BY <1>3 DEF Store
    <2>2. command.data \in Data
        BY <1>3 DEF Store, CatalogInv, CatalogTypeOK, Command, NoCommand
    <2>3. DataTypeOK'
        BY <2>1, <2>2, UpdateType DEF CatalogInv, CatalogTypeOK
    <2>4. DOMAIN records' = DOMAIN records BY <2>1 DEF updateRecord
    <2>5. QED BY <2>1, <2>3, <2>4, ReturnInv
<1>4. QED
    BY <1>1, <1>2, <1>3, IssueInv, EmptySegmentInv, KnownSegmentInv,
       NewSegmentInv, NoSegmentInv
    DEF CatalogNext

\* The invariant holds in every state, and with it the two theorems below.
LEMMA CatalogSafe == CatalogSpec => []CatalogInv
BY CatalogInitInv, CatalogNextInv, PTL DEF CatalogSpec

\* The links of the lock hierarchy are the tree of the names, for whatever
\* names the users come up with and in whatever order.
THEOREM TreeCorrect == CatalogSpec => []TreeOfNames
<1>1. CatalogInv => TreeOfNames BY DEF CatalogInv
<1>2. QED BY <1>1, CatalogSafe, PTL

\* A name with a segment keeps its id and its parent for ever.
THEOREM NamesKept == CatalogSpec => NamesStable
BY CatalogSafe, CatalogNextInv, PTL DEF CatalogSpec, NamesStable

\* The types of the directory and of the walk through a name.
THEOREM CatalogTypeCorrect == CatalogSpec => []CatalogTypeOK
<1>1. CatalogInv => CatalogTypeOK BY DEF CatalogInv
<1>2. QED BY <1>1, CatalogSafe, PTL

-----------------------------------------------------------------------------
(***************************************************************************)
(* What a name shows.  The argument: the walk computes what the name       *)
(* means, the id it ends with is the one of that path, and no other path   *)
(* has it.                                                                 *)
(***************************************************************************)

\* The segments of a name, read one by one.
LEMMA SegmentsRead ==
    ASSUME NEW q \in Seq(Segment \cup {Empty}), NEW s \in Segment \cup {Empty}
    PROVE  /\ Segments(<< >>) = << >>
           /\ s = Empty => Segments(Append(q, s)) = Segments(q)
           /\ s # Empty => Segments(Append(q, s)) = Append(Segments(q), s)
<1> DEFINE I == {i \in DOMAIN q : q[i] # Empty}
           J == {i \in DOMAIN Append(q, s) : Append(q, s)[i] # Empty}
<1>1. /\ DOMAIN Append(q, s) = (DOMAIN q) \cup {Len(q) + 1}
      /\ \A i \in DOMAIN q : Append(q, s)[i] = q[i]
      /\ Append(q, s)[Len(q) + 1] = s
      /\ Len(q) + 1 \notin DOMAIN q
    OBVIOUS
<1>2. J = IF s = Empty THEN I ELSE I \cup {Len(q) + 1} BY <1>1
<1>3. Segments(q) = Picked(q, I) /\ Segments(Append(q, s)) = Picked(Append(q, s), J)
    BY DEF Segments
<1>4. I \in SUBSET (DOMAIN q) OBVIOUS
<1>5. Segments(<< >>) = << >>
    <2>1. {i \in DOMAIN << >> : << >>[i] # Empty} = {} OBVIOUS
    <2>2. QED BY <2>1, PickedNone DEF Segments
<1> HIDE DEF I, J
<1>6. ASSUME NEW K, K = I \cup {Len(q) + 1}
      PROVE  /\ Picked(Append(q, s), I) = Picked(q, I)
             /\ Picked(Append(q, s), K) = Append(Picked(q, I), s)
    <2>1. LastToo(q, I, K) BY <1>4, <1>6 DEF LastToo
    <2>2. PICK T : T = Segment \cup {Empty} OBVIOUS
    <2>3. q \in Seq(T) /\ s \in T BY <2>2
    <2>4. QED BY <2>1, <2>3, PickedAppend
<1>7. CASE s = Empty BY <1>2, <1>3, <1>5, <1>6, <1>7
<1>8. CASE s # Empty BY <1>2, <1>3, <1>5, <1>6, <1>8
<1>9. QED BY <1>7, <1>8

\* How much of the command's name has been read.
Prefix == SubSeq(command.name, 1, Read)

\* The path is what has been read, and an id without a path is a name's own.
WalkMeans ==
    /\ command # NoCommand => path = Segments(Prefix)
    /\ command # NoCommand /\ path = << >> /\ last_id # 0 =>
           command.name \in Keys /\ last_id = resource_ids[command.name]

WroteKnown == DOMAIN wrote \subseteq Paths \cup {<< >>}

ShowsInv == WalkMeans /\ WroteKnown /\ ShowsLastWrite

LEMMA ShowsInitInv == CatalogInit => ShowsInv
BY DEF CatalogInit, ShowsInv, WalkMeans, WroteKnown, ShowsLastWrite, Paths, Keys

\* Reading a segment adds it to what has been read.
LEMMA PrefixRead ==
    ASSUME CatalogInv, NEW s, Reading(s), UNCHANGED command
    PROVE  /\ Prefix \in Seq(Segment \cup {Empty})
           /\ s \in Segment \cup {Empty}
           /\ Prefix' = Append(Prefix, s)
<1>1. /\ command # NoCommand /\ Read \in Nat /\ Read' = Read + 1
      /\ rest' \in Seq(Segment \cup {Empty})
      /\ command.name[Read + 1] = s
    BY ReadingFacts
<1>2. PICK q \in Seq(Segment \cup {Empty}) : q = command.name
    BY <1>1, CatalogAssumption DEF CatalogInv, CatalogTypeOK, Command
<1>3. PICK n \in Nat : n = Read BY <1>1
<1>4. n + 1 \in 1..Len(q)
    <2>1. Read' = Len(q) - Len(rest') BY <1>2 DEF Read
    <2>2. Len(rest') \in Nat BY <1>1
    <2>3. QED BY <1>1, <1>2, <1>3, <2>1, <2>2
<1>5. /\ SubSeq(q, 1, n) \in Seq(Segment \cup {Empty})
      /\ q[n + 1] \in Segment \cup {Empty}
    BY <1>4
<1>6. SubSeq(q, 1, n + 1) = Append(SubSeq(q, 1, n), q[n + 1])
    <2> DEFINE a == SubSeq(q, 1, n + 1)
               b == Append(SubSeq(q, 1, n), q[n + 1])
    <2>1. /\ a \in Seq(Segment \cup {Empty}) /\ Len(a) = n + 1
          /\ \A i \in 1..(n + 1) : a[i] = q[i]
        BY <1>4
    <2>2. /\ b \in Seq(Segment \cup {Empty}) /\ Len(b) = n + 1
          /\ \A i \in 1..(n + 1) : b[i] = q[i]
        BY <1>4, <1>5
    <2> HIDE DEF a, b
    <2>3. a = b BY <2>1, <2>2, SeqEqual
    <2>4. QED BY <2>3 DEF a, b
<1>7. Prefix = SubSeq(q, 1, n) /\ Prefix' = SubSeq(q, 1, n + 1)
    BY <1>1, <1>2, <1>3 DEF Prefix
<1>8. QED BY <1>1, <1>2, <1>3, <1>5, <1>6, <1>7

\* The walk goes on: what it has read still means the path it stands at.
LEMMA WalkMeansKept ==
    ASSUME CatalogInv, WalkMeans, EmptySegment \/ KnownSegment \/ NewSegment
    PROVE  WalkMeans'
<1>1. PICK s : /\ Reading(s)
               /\ UNCHANGED command
               /\ \/ s = Empty /\ UNCHANGED <<path, last_id>>
                  \/ s \in Segment /\ path' = Append(path, s)
    BY DEF EmptySegment, KnownSegment, NewSegment
<1>2. command # NoCommand /\ path = Segments(Prefix) /\ rest # << >>
    BY <1>1, ReadingFacts DEF WalkMeans, Reading
<1>3. /\ Prefix \in Seq(Segment \cup {Empty})
      /\ s \in Segment \cup {Empty}
      /\ Prefix' = Append(Prefix, s)
    BY <1>1, PrefixRead
<1>4. /\ s = Empty => Segments(Prefix') = path
      /\ s # Empty => Segments(Prefix') = Append(path, s)
    <2>1. PICK q \in Seq(Segment \cup {Empty}) : q = Prefix BY <1>3
    <2>2. /\ s = Empty => Segments(Append(q, s)) = Segments(q)
          /\ s # Empty => Segments(Append(q, s)) = Append(Segments(q), s)
        BY <1>3, SegmentsRead
    <2>3. QED BY <1>2, <1>3, <2>1, <2>2
<1>5. path' = Segments(Prefix') BY <1>1, <1>4, CatalogAssumption
<1>6. path' = << >> => last_id' = 0
    <2>1. ASSUME s \in Segment PROVE Append(path, s) # << >>
        BY <2>1, Extended DEF CatalogInv, CatalogTypeOK
    <2>2. path = << >> => last_id = 0 BY <1>2 DEF CatalogInv, WalkOK
    <2>3. QED BY <1>1, <2>1, <2>2, CatalogAssumption
<1>7. QED BY <1>1, <1>2, <1>5, <1>6 DEF WalkMeans, Segments

\* A new record does not touch the old ones, and shows its initial value.
LEMMA CreateShows ==
    ASSUME CatalogInv, WroteKnown, ShowsLastWrite, NEW key, key # << >>,
           key \notin Paths, NEW data, Create(key, data), UNCHANGED wrote,
           key \in Seq(Segment) => data = Initial(key)
    PROVE  WroteKnown' /\ ShowsLastWrite'
<1>1. /\ Keys' = Keys \cup {key}
      /\ resource_ids'[key] = next_resource_id
      /\ \A k \in Keys \ {key} : resource_ids'[k] = resource_ids[k]
    BY DEF Create, Put, Keys
<1>2. /\ \A id \in DOMAIN records : records'[id] = records[id]
      /\ records'[next_resource_id] = data
    BY DEF Create, insertRecord
<1>3. \A p \in Paths : resource_ids[p] \in DOMAIN records
    BY DEF CatalogInv, CatalogTypeOK, TreeOfNames, Paths
<1>4. Paths \subseteq Paths' /\ \A p \in Paths' : p \in Paths \/ p = key
    BY <1>1 DEF Paths
<1>5. WroteKnown' BY <1>4 DEF WroteKnown
<1>6. ASSUME NEW p \in Paths'
      PROVE  records'[resource_ids'[p]]
                 = IF p \in DOMAIN wrote THEN wrote[p] ELSE Initial(p)
    <2>1. CASE p \in Paths
        <3>1. p \in Keys /\ p # key BY <2>1 DEF Paths
        <3>2. resource_ids'[p] = resource_ids[p] BY <1>1, <3>1
        <3>3. records'[resource_ids[p]] = records[resource_ids[p]]
            BY <1>2, <1>3, <2>1
        <3>4. QED BY <2>1, <3>2, <3>3 DEF ShowsLastWrite
    <2>2. CASE p = key
        <3>1. p \notin DOMAIN wrote /\ p \in Seq(Segment)
            BY <2>2 DEF WroteKnown, Paths
        <3>2. QED BY <1>1, <1>2, <2>2, <3>1
    <2>3. QED BY <1>4, <2>1, <2>2
<1>7. QED BY <1>5, <1>6 DEF ShowsLastWrite

\* A write reaches the record of the name it was issued for, and no other.
LEMMA StoreShows ==
    ASSUME CatalogInv, ShowsInv, Store
    PROVE  WroteKnown' /\ ShowsLastWrite'
<1> DEFINE id == last_id
           named == Segments(command.name)
<1>1. /\ command # NoCommand /\ rest = << >> /\ last_id # 0
      /\ UNCHANGED resource_ids
      /\ last_id \in DOMAIN records
      /\ records' = [records EXCEPT ![last_id] = command.data]
      /\ wrote' = Put(wrote, named, command.data)
    BY DEF Store, Return, updateRecord
<1>2. path = named
    <2>1. PICK q \in Seq(Segment \cup {Empty}) : q = command.name
        BY <1>1, CatalogAssumption DEF CatalogInv, CatalogTypeOK, Command
    <2>2. Read = Len(q) BY <1>1, <2>1 DEF Read
    <2>3. SubSeq(q, 1, Len(q)) = q OBVIOUS
    <2>4. Prefix = command.name BY <2>1, <2>2, <2>3 DEF Prefix
    <2>5. QED BY <1>1, <2>4 DEF ShowsInv, WalkMeans
<1>3. /\ path \in Seq(Segment)
      /\ \A k, l \in Keys : resource_ids[k] = resource_ids[l] => k = l
      /\ \A p \in Paths : p \in Keys /\ p \in Seq(Segment) /\ p # << >>
      /\ \A p \in Paths : resource_ids[p] \in DOMAIN records
    BY DEF CatalogInv, CatalogTypeOK, TreeOfNames, Paths
<1>4. path # << >> => path \in Paths /\ last_id = resource_ids[path]
    BY <1>3 DEF CatalogInv, WalkOK, Paths
<1>5. \A p \in Paths : resource_ids[p] = last_id <=> p = named
    <2>1. CASE path # << >> BY <1>2, <1>3, <1>4, <2>1
    <2>2. CASE path = << >>
        <3>1. command.name \in Keys /\ last_id = resource_ids[command.name]
            BY <1>1, <2>2 DEF ShowsInv, WalkMeans
        <3>2. command.name \notin Seq(Segment) BY <1>1, <2>2, EmptyNameNoPath
        <3>3. QED BY <1>2, <1>3, <2>2, <3>1, <3>2
    <2>3. QED BY <2>1, <2>2
<1> HIDE DEF named
<1>6. DOMAIN wrote' = DOMAIN wrote \cup {named} BY <1>1 DEF Put
<1>7. Paths' = Paths BY <1>1 DEF Paths, Keys
<1>8. WroteKnown' BY <1>2, <1>4, <1>6, <1>7 DEF ShowsInv, WroteKnown
<1>9. ASSUME NEW p \in Paths
      PROVE  records'[resource_ids[p]]
                 = IF p \in DOMAIN wrote' THEN wrote'[p] ELSE Initial(p)
    <2>1. CASE p = named
        <3>1. wrote'[p] = command.data BY <1>1, <2>1 DEF Put
        <3>2. records'[resource_ids[p]] = command.data BY <1>1, <1>5, <2>1
        <3>3. QED BY <1>6, <2>1, <3>1, <3>2
    <2>2. CASE p # named
        <3>1. records'[resource_ids[p]] = records[resource_ids[p]]
            BY <1>1, <1>3, <1>5, <2>2
        <3>2. p \in DOMAIN wrote => wrote'[p] = wrote[p]
            BY <1>1, <2>2 DEF Put
        <3>3. QED BY <1>6, <2>2, <3>1, <3>2 DEF ShowsInv, ShowsLastWrite
    <2>3. QED BY <2>1, <2>2
<1>10. QED BY <1>1, <1>7, <1>8, <1>9 DEF ShowsLastWrite

\* Every step of the walk and every command keeps what the names show.
LEMMA ShowsNextInv ==
    CatalogInv /\ ShowsInv /\ [CatalogNext]_vars => ShowsInv'
<1> SUFFICES ASSUME CatalogInv, ShowsInv, [CatalogNext]_vars PROVE ShowsInv'
    OBVIOUS
<1>1. ASSUME UNCHANGED <<resource_ids, records, wrote>>
      PROVE  WroteKnown' /\ ShowsLastWrite'
    BY <1>1 DEF ShowsInv, WroteKnown, ShowsLastWrite, Paths, Keys
<1>2. ASSUME NEW c \in Command, Issue(c) PROVE ShowsInv'
    <2>1. c.name \in Seq(Segment \cup {Empty})
        BY CatalogAssumption DEF Command
    <2>2. /\ command' = c /\ rest' = c.name /\ path' = << >> /\ last_id' = 0
          /\ UNCHANGED <<resource_ids, records, wrote>>
        BY <1>2 DEF Issue, directory
    <2>3. Read' = 0 BY <2>1, <2>2 DEF Read
    <2>4. Prefix' = << >>
        <3>1. PICK q \in Seq(Segment \cup {Empty}) : q = c.name BY <2>1
        <3>2. SubSeq(q, 1, 0) = << >> OBVIOUS
        <3>3. QED BY <2>2, <2>3, <3>1, <3>2 DEF Prefix
    <2>5. << >> \in Seq(Segment \cup {Empty}) OBVIOUS
    <2>6. Segments(<< >>) = << >>
        <3>1. {i \in DOMAIN << >> : << >>[i] # Empty} = {} OBVIOUS
        <3>2. QED BY <3>1, PickedNone DEF Segments
    <2>7. WalkMeans' BY <2>2, <2>4, <2>6 DEF WalkMeans, Segments
    <2>8. QED BY <1>1, <2>2, <2>7 DEF ShowsInv
<1>3. CASE EmptySegment \/ KnownSegment
    <2>1. UNCHANGED <<resource_ids, records, wrote>>
        BY <1>3 DEF EmptySegment, KnownSegment, directory
    <2>2. QED BY <1>1, <1>3, <2>1, WalkMeansKept DEF ShowsInv
<1>4. CASE NewSegment
    <2>1. /\ path' \in Seq(Segment) /\ path' # << >> /\ path' \notin Paths
          /\ Create(path', Initial(path')) /\ UNCHANGED wrote
        BY <1>4, Extended DEF NewSegment, CatalogInv, CatalogTypeOK, Paths
    <2>2. WroteKnown' /\ ShowsLastWrite' BY <2>1, CreateShows DEF ShowsInv
    <2>3. QED BY <1>4, <2>2, WalkMeansKept DEF ShowsInv
<1>5. CASE NoSegment
    <2>1. /\ command # NoCommand /\ rest = << >> /\ last_id = 0
          /\ Create(command.name, Zero)
          /\ UNCHANGED <<command, rest, path, wrote>>
        BY <1>5 DEF NoSegment
    <2>2. path = << >>
        BY <2>1 DEF CatalogInv, CatalogTypeOK, WalkOK
    <2>3. /\ command.name \notin Seq(Segment) /\ command.name # << >>
          /\ command.name \notin Paths
        BY <2>1, <2>2, EmptyNameNoPath DEF Paths
    <2>4. WroteKnown' /\ ShowsLastWrite'
        BY <2>1, <2>3, CreateShows DEF ShowsInv
    <2>5. Prefix' = Prefix BY <2>1 DEF Prefix, Read
    <2>6. /\ command.name \in Keys' /\ last_id' = next_resource_id
          /\ resource_ids'[command.name] = next_resource_id
        BY <2>1 DEF Create, Put, Keys
    <2>7. WalkMeans' BY <2>1, <2>5, <2>6 DEF ShowsInv, WalkMeans, Segments
    <2>8. QED BY <2>4, <2>7 DEF ShowsInv
<1>6. CASE Look
    <2>1. command' = NoCommand /\ UNCHANGED <<resource_ids, records, wrote>>
        BY <1>6 DEF Look, Return
    <2>2. QED BY <1>1, <2>1 DEF ShowsInv, WalkMeans
<1>7. CASE Store
    <2>1. command' = NoCommand BY <1>7 DEF Store, Return
    <2>2. QED BY <1>7, <2>1, StoreShows DEF ShowsInv, WalkMeans
<1>8. CASE UNCHANGED vars
    <2>1. UNCHANGED <<resource_ids, records, wrote, command, rest, path,
                      last_id>>
        BY <1>8 DEF vars, directory, walk
    <2>2. Prefix' = Prefix BY <2>1 DEF Prefix, Read
    <2>3. WalkMeans' BY <2>1, <2>2 DEF ShowsInv, WalkMeans, Segments, Keys
    <2>4. QED BY <1>1, <2>1, <2>3 DEF ShowsInv
<1>9. QED
    BY <1>2, <1>3, <1>4, <1>5, <1>6, <1>7, <1>8 DEF CatalogNext

\* A name shows what was last written to it under any spelling, and "10" for
\* "A" or "0" before that (ensureResource, executeCommand): a write to one
\* name never shows in another, in a prefix or in a name made of dots.
THEOREM NamesShowTheirWrites == CatalogSpec => []ShowsLastWrite
<1>1. ShowsInv => ShowsLastWrite BY DEF ShowsInv
<1>2. QED
    BY <1>1, CatalogSafe, ShowsInitInv, ShowsNextInv, PTL DEF CatalogSpec

=============================================================================
