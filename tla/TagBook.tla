------------------------------ MODULE TagBook ------------------------------
(***************************************************************************)
(* What the tag store promises: a catalogue of names that are unique       *)
(* whatever their case, and for each entity the set of the names it is     *)
(* tagged with.  A call does all of one of the things below, or nothing;   *)
(* a restart is not seen.  Keys shows that the store of internal/tags,     *)
(* with its ids, its index of names, its rollbacks and its sealed file,    *)
(* implements this.                                                        *)
(***************************************************************************)
CONSTANTS
  Entity,    \* what can be tagged: keys, repositories and accounts
  Name       \* names in lower case

VARIABLES
  book,      \* the names in the catalogue
  tagged     \* the names each entity is tagged with

BookInit ==
  /\ book = {}
  /\ tagged = [e \in Entity |-> {}]

Add(n) == n \notin book /\ book' = book \cup {n} /\ UNCHANGED tagged

\* A tag keeps its entities when it gets another name.
Renames(old, new) ==
  /\ old \in book /\ new \notin book
  /\ book' = (book \ {old}) \cup {new}
  /\ tagged' = [e \in Entity |->
                  IF old \in tagged[e] THEN (tagged[e] \ {old}) \cup {new}
                                       ELSE tagged[e]]

\* Deleting a tag takes it from every entity.
Drop(n) ==
  /\ n \in book
  /\ book' = book \ {n}
  /\ tagged' = [e \in Entity |-> tagged[e] \ {n}]

\* A sweep takes all the tags no entity has, and only those.
Sweep ==
  /\ book' = UNION {tagged[e] : e \in Entity}
  /\ UNCHANGED tagged

\* An entity's tags are replaced as a whole; new names enter the catalogue.
Tag(e, names) ==
  /\ tagged' = [tagged EXCEPT ![e] = names]
  /\ book' = book \cup names

BookNext ==
  \/ \E n \in Name : Add(n) \/ Drop(n)
  \/ \E old, new \in Name : Renames(old, new)
  \/ Sweep
  \/ \E e \in Entity, names \in SUBSET Name : Tag(e, names)

BookSpec == BookInit /\ [][BookNext]_<<book, tagged>>
=============================================================================
