------------------------------- MODULE Merge3 -------------------------------
(***************************************************************************)
(* The contents a GiGot repository version holds, and the three-way merge  *)
(* of contents every write path rests on.                                  *)
(*                                                                         *)
(* A version of a repository is a tree: a function from paths to files.  A *)
(* file is absent, or a function from hunks to texts.  A hunk is a region  *)
(* of a file that merges on its own: a group of lines for `git merge-tree` *)
(* (internal/git/write.go, mergeTree), a data field of a record for the    *)
(* structured merge (internal/formidable/merge.go).  What the text of a    *)
(* hunk is never matters, only whether two texts are equal.                *)
(***************************************************************************)
CONSTANTS
  Path,      \* the paths of the repository
  Hunk,      \* the independently mergeable regions of a file
  Text,      \* the contents a hunk can have
  Absent     \* the file that is not there

ASSUME AbsentAssumption == Absent \notin [Hunk -> Text]

File == [Hunk -> Text] \cup {Absent}
Tree == [Path -> File]

(* A set of puts and deletes, in the normal form treeWithChanges gives it: *)
(* records apply in order, so the last one to name a path wins, and a      *)
(* delete of an absent path changes nothing.                               *)
ChangeSet == UNION {[S -> File] : S \in SUBSET Path}

(* The tree of the commit that puts `change` on top of `tree`.             *)
Apply(tree, change) ==
  [p \in Path |-> IF p \in DOMAIN change THEN change[p] ELSE tree[p]]

-----------------------------------------------------------------------------
(* One side's version of a value both sides started from: yours where you  *)
(* changed it, theirs otherwise.                                           *)
Pick(base, theirs, yours) == IF yours = base THEN theirs ELSE yours

(* At most one side changed the value, or both made the same change.       *)
Agree(base, theirs, yours) == yours = base \/ theirs = base \/ theirs = yours

(* A file merges when the sides agree on it as a whole, or hunk by hunk    *)
(* when it exists on all three sides: add/add and delete/modify conflict.  *)
CleanFile(base, theirs, yours) ==
  \/ Agree(base, theirs, yours)
  \/ /\ Absent \notin {base, theirs, yours}
     /\ \A h \in Hunk : Agree(base[h], theirs[h], yours[h])

MergeFile(base, theirs, yours) ==
  IF Agree(base, theirs, yours)
    THEN Pick(base, theirs, yours)
    ELSE [h \in Hunk |-> Pick(base[h], theirs[h], yours[h])]

(* `git merge-tree --write-tree theirs yours` exits 0 exactly when every   *)
(* path merges; the tree it then prints holds every path's merge.          *)
CleanTree(base, theirs, yours) ==
  \A p \in Path : CleanFile(base[p], theirs[p], yours[p])

MergeTree(base, theirs, yours) ==
  [p \in Path |-> MergeFile(base[p], theirs[p], yours[p])]
=============================================================================
