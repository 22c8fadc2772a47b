---------------------------- MODULE RecordMerge ----------------------------
(***************************************************************************)
(* How two versions of a Formidable record that grew from one base become  *)
(* one: package formidable, whose values are what encoding/json decodes.   *)
(*                                                                         *)
(* A record has data fields and, in its meta map, facets, which merge by   *)
(* the same rule and are both in Field here; the keys that never change,   *)
(* of which id stands for all; updated, tags and flagged with a rule each; *)
(* and keys that follow the newer side, of which one stands for all.       *)
(***************************************************************************)
EXTENDS Naturals

CONSTANTS
  Field,         \* the data fields and the facets
  Value,         \* what a field holds
  Id,            \* what id, created or template holds
  Tag, Plain,    \* the spellings of tags; [Tag -> Tag], trimmed and in lower case
  Times,         \* the times of updated.at
  Absent, Null   \* a key that is not there; one that is null

ASSUME RecordAssumption ==
  /\ Plain \in [Tag -> Tag] /\ \A t \in Tag : Plain[Plain[t]] = Plain[t]
  /\ Times \subseteq Nat \ {0}
  /\ Absent \notin Value \cup Id \cup {Null} /\ Null \notin Value

\* updated is 0 when it is missing or does not parse.  Tags that are missing
\* are none, and a flag that is missing is not set.
Record ==
  [fields : [Field -> Value \cup {Absent}], id : Id \cup {Absent},
   updated : Times \cup {0}, tags : SUBSET Tag, flagged : BOOLEAN,
   other : Value \cup {Absent, Null}]

-----------------------------------------------------------------------------
\* Mutant: a key that one side lacks compares as equal.
SameOrGone(a, b) == a = b \/ Absent \in {a, b}

SameField(a, b) == a = b

\* Both sides changed the field, and not to the same.
Divergent(base, theirs, yours) ==
  ~SameField(base, theirs) /\ ~SameField(base, yours) /\ ~SameField(theirs, yours)

MergeField(base, theirs, yours) ==
  IF SameField(base, yours) THEN (IF SameField(base, theirs) THEN base ELSE theirs)
  ELSE yours

\* The key is there on both sides, with different values.
Altered(base, side) == base # Absent /\ side # Absent /\ base # side

KeepId(base, theirs, yours) ==
  IF base # Absent THEN base ELSE IF theirs # Absent THEN theirs ELSE yours

\* Mutant: the incoming side always wins.
YoursAlways(theirs, yours) == FALSE

\* UpdatedWinner: a time that does not parse loses, and a tie goes to yours.
TheirsWins(theirs, yours) == theirs.updated > yours.updated

MergeUpdated(theirs, yours) == IF theirs > yours THEN theirs ELSE yours

MergeTags(theirs, yours) == {Plain[t] : t \in theirs \cup yours}

\* Mutant: the flag is set when the sides differ.
EitherOne(theirs, yours) == theirs # yours

MergeFlagged(theirs, yours) == theirs \/ yours

\* A key that both sides removed comes back as null.
PickWinner(base, theirs, yours, theirsWins) ==
  IF Absent \notin {theirs, yours} THEN (IF theirsWins THEN theirs ELSE yours)
  ELSE IF theirs # Absent THEN theirs
  ELSE IF yours # Absent THEN yours
  ELSE IF base # Absent THEN Null ELSE Absent

-----------------------------------------------------------------------------
Conflicts(base, theirs, yours) ==
  \/ \E f \in Field : Divergent(base.fields[f], theirs.fields[f], yours.fields[f])
  \/ Altered(base.id, theirs.id) \/ Altered(base.id, yours.id)

Merge(base, theirs, yours) ==
  [fields |-> [f \in Field |-> MergeField(base.fields[f], theirs.fields[f], yours.fields[f])],
   id |-> KeepId(base.id, theirs.id, yours.id),
   updated |-> MergeUpdated(theirs.updated, yours.updated),
   tags |-> MergeTags(theirs.tags, yours.tags),
   flagged |-> MergeFlagged(theirs.flagged, yours.flagged),
   other |-> PickWinner(base.other, theirs.other, yours.other, TheirsWins(theirs, yours))]

\* What a reader of the record is told: null says no more than nothing.
Says(r) ==
  LET plain == [r EXCEPT !.tags = {Plain[t] : t \in r.tags}]
  IN [plain EXCEPT !.other = IF @ = Null THEN Absent ELSE @]
=============================================================================
