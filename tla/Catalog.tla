------------------------------- MODULE Catalog -------------------------------
(***************************************************************************)
(* How src/main.cpp turns names of resources into ids, records and links   *)
(* of the lock hierarchy: ensureResource, called by READ, WRITE and SHOW.  *)
(*                                                                         *)
(* A name is what std::getline makes of it, a sequence of segments of      *)
(* which some may be empty ("a..b").  The program is single-threaded; the  *)
(* loop of ensureResource takes a step per segment and no other command is *)
(* accepted meanwhile.  A command whose lock is refused has called         *)
(* ensureResource all the same, and calls it again at every retry: it      *)
(* shows here as a WRITE that stores nothing, or as a READ, and again as   *)
(* another command.                                                        *)
(***************************************************************************)
EXTENDS DataStore, Subsequences

CONSTANTS
    Segment,    \* non-empty segments of names
    Empty,      \* the empty segment
    A,          \* the segment "A"
    Zero, Ten,  \* the contents "0" and "10"
    Name,       \* the names used in commands
    MaxId       \* bound: no command starts once so many ids are given out

ASSUME CatalogAssumption ==
    /\ Empty \notin Segment
    /\ A \in Segment
    /\ {Zero, Ten} \subseteq Data
    /\ Fits(Zero) /\ Fits(Ten)
    /\ Name \subseteq Seq(Segment \cup {Empty}) \ {<< >>}
    /\ MaxId \in Nat

VARIABLES
    resource_ids,       \* the map from names to ids
    next_resource_id,
    resource_parent,    \* the lock manager's map from ids to parents
    command,            \* the command being executed, or NoCommand
    rest,               \* the segments not yet read
    path,               \* the non-empty segments read
    last_id,            \* the id of "path", 0 if it is empty
    wrote               \* history: what was last written to a name

directory == <<resource_ids, next_resource_id, resource_parent, records>>
walk      == <<rest, path, last_id>>
vars      == <<directory, command, walk, wrote>>

NoCommand == [op |-> "NONE"]

Command ==
    [op : {"READ", "SHOW"}, name : Name]
        \cup [op : {"WRITE"}, name : Name, data : {d \in Data : Fits(d)}]

\* What a name means, apart from the way it is computed: "a..b" is "a.b".
Segments(name) == Picked(name, {i \in DOMAIN name : name[i] # Empty})

Initial(p) == IF p = <<A>> THEN Ten ELSE Zero

\* map[key] = value.
Put(map, key, value) ==
    [k \in DOMAIN map \cup {key} |-> IF k = key THEN value ELSE map[k]]

Keys == DOMAIN resource_ids

CatalogTypeOK ==
    /\ DataTypeOK
    /\ Keys \subseteq Seq(Segment \cup {Empty}) \ {<< >>}
    /\ next_resource_id \in Nat \ {0}
    /\ resource_ids \in [Keys -> 1..(next_resource_id - 1)]
    /\ DOMAIN resource_parent \subseteq 1..(next_resource_id - 1)
    /\ resource_parent \in [DOMAIN resource_parent -> Nat]
    /\ command \in Command \cup {NoCommand}
    /\ rest \in Seq(Segment \cup {Empty})
    /\ path \in Seq(Segment)
    /\ last_id \in Nat

-----------------------------------------------------------------------------

CatalogInit ==
    /\ DataInit
    /\ resource_ids = [k \in {} |-> 0]
    /\ next_resource_id = 1
    /\ resource_parent = [id \in {} |-> 0]
    /\ command = NoCommand
    /\ rest = << >>
    /\ path = << >>
    /\ last_id = 0
    /\ wrote = [p \in {} |-> Zero]

\* A command calls ensureResource.
Issue(c) ==
    /\ command = NoCommand
    /\ next_resource_id <= MaxId
    /\ command' = c
    /\ rest' = c.name
    /\ path' = << >>
    /\ last_id' = 0
    /\ UNCHANGED <<directory, wrote>>

\* The segment read next, and the path it leads to.
Reading(s) == rest # << >> /\ s = Head(rest) /\ rest' = Tail(rest)

\* Mutant: empty segments are not skipped.
EmptyAppended ==
    /\ Reading(Empty)
    /\ path' = Append(path, Empty)
    /\ UNCHANGED <<directory, command, last_id, wrote>>

EmptySegment ==
    /\ Reading(Empty)
    /\ UNCHANGED <<directory, command, path, last_id, wrote>>

\* Mutant: last_id keeps the first prefix found.
KnownStale ==
    /\ \E s \in Segment : Reading(s) /\ path' = Append(path, s)
    /\ path' \in Keys
    /\ last_id' = IF last_id = 0 THEN resource_ids[path'] ELSE last_id
    /\ UNCHANGED <<directory, command, wrote>>

KnownSegment ==
    /\ \E s \in Segment : Reading(s) /\ path' = Append(path, s)
    /\ path' \in Keys
    /\ last_id' = resource_ids[path']
    /\ UNCHANGED <<directory, command, wrote>>

\* A new id for a name, and a record for it.
Create(key, data) ==
    /\ resource_ids' = Put(resource_ids, key, next_resource_id)
    /\ next_resource_id' = next_resource_id + 1
    /\ insertRecord(next_resource_id, data, TRUE)
    /\ last_id' = next_resource_id

\* Mutant: the link goes to the top of the path.
NewUnderTop ==
    /\ \E s \in Segment : Reading(s) /\ path' = Append(path, s)
    /\ path' \notin Keys
    /\ Create(path', Initial(path'))
    /\ resource_parent' = IF last_id = 0 THEN resource_parent
                          ELSE Put(resource_parent, next_resource_id,
                                   resource_ids[<<path[1]>>])
    /\ UNCHANGED <<command, wrote>>

\* Mutant: the map is not asked whether the path is known.
NewAlways ==
    /\ \E s \in Segment : Reading(s) /\ path' = Append(path, s)
    /\ Create(path', Initial(path'))
    /\ resource_parent' = IF last_id = 0 THEN resource_parent
                          ELSE Put(resource_parent, next_resource_id, last_id)
    /\ UNCHANGED <<command, wrote>>

NewSegment ==
    /\ \E s \in Segment : Reading(s) /\ path' = Append(path, s)
    /\ path' \notin Keys
    /\ Create(path', Initial(path'))
    /\ resource_parent' = IF last_id = 0 THEN resource_parent
                          ELSE Put(resource_parent, next_resource_id, last_id)
    /\ UNCHANGED <<command, wrote>>

\* A name without a non-empty segment: the id is made anew at every use.
NoSegment ==
    /\ command # NoCommand
    /\ rest = << >>
    /\ last_id = 0
    /\ Create(command.name, Zero)
    /\ UNCHANGED <<resource_parent, command, rest, path, wrote>>

Return ==
    /\ rest = << >>
    /\ last_id # 0
    /\ command' = NoCommand
    /\ path' = << >>
    /\ last_id' = 0
    /\ UNCHANGED <<resource_ids, next_resource_id, resource_parent, rest>>

\* SHOW, READ, and a WRITE that did not get its lock.
Look ==
    /\ command # NoCommand
    /\ Return
    /\ UNCHANGED <<records, wrote>>

Store ==
    /\ command # NoCommand
    /\ command.op = "WRITE"
    /\ Return
    /\ updateRecord(last_id, command.data)
    /\ wrote' = Put(wrote, Segments(command.name), command.data)

CatalogNext ==
    \/ \E c \in Command : Issue(c)
    \/ EmptySegment \/ KnownSegment \/ NewSegment \/ NoSegment
    \/ Look \/ Store

CatalogSpec == CatalogInit /\ [][CatalogNext]_vars

-----------------------------------------------------------------------------
(***************************************************************************)
(* What the lock manager and the users rely on.                            *)
(***************************************************************************)

Paths == Keys \cap Seq(Segment)

\* The links are the tree of the names, whatever the order in which names and
\* their prefixes turn up: the parent of "a.b.c" is "a.b", and an older
\* resource, so the lock manager's walk to the root ends there and meets the
\* prefixes of the name, all of them and nothing else.  No two names share an
\* id, and each id has its record.
TreeOfNames ==
    /\ \A k, l \in Keys : resource_ids[k] = resource_ids[l] => k = l
    /\ DOMAIN records = 1..(next_resource_id - 1)
    /\ \A p \in Paths :
          LET id == resource_ids[p] IN
          IF Len(p) = 1 THEN id \notin DOMAIN resource_parent
          ELSE LET above == SubSeq(p, 1, Len(p) - 1) IN
               /\ above \in Paths
               /\ id \in DOMAIN resource_parent
               /\ resource_parent[id] = resource_ids[above]
               /\ resource_ids[above] < id

\* A name with a segment means one resource for ever, under a parent that
\* never changes: locks taken on it protect it from later commands.
StepKeepsNames ==
    \A p \in Paths :
        LET id == resource_ids[p] IN
        /\ p \in Keys' /\ resource_ids'[p] = id
        /\ id \in DOMAIN resource_parent <=> id \in DOMAIN resource_parent'
        /\ id \in DOMAIN resource_parent =>
               resource_parent'[id] = resource_parent[id]

NamesStable == [][StepKeepsNames]_vars

\* A name shows what was last written to it, under any spelling, and its
\* initial value before that; writes to other names, children and prefixes
\* included, do not touch it.
ShowsLastWrite ==
    \A p \in Paths :
        records[resource_ids[p]]
            = IF p \in DOMAIN wrote THEN wrote[p] ELSE Initial(p)

=============================================================================
