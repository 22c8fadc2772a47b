---------------------------- MODULE Merge3Proofs ----------------------------
(***************************************************************************)
(* What the three-way merge of Merge3 returns, for every file and tree.    *)
(***************************************************************************)
EXTENDS Merge3, TLAPS

(* Putting a change set on a tree gives a tree.                            *)
LEMMA ApplyType ==
  ASSUME NEW tree \in Tree, NEW change \in ChangeSet
  PROVE  Apply(tree, change) \in Tree
<1>1. \A p \in DOMAIN change : change[p] \in File
  BY DEF ChangeSet
<1> QED
  BY <1>1 DEF Apply, Tree

(* A file that merges cleanly merges to a file: absent, or of one text per *)
(* hunk.                                                                   *)
LEMMA MergeFileType ==
  ASSUME NEW base \in File, NEW theirs \in File, NEW yours \in File,
         CleanFile(base, theirs, yours)
  PROVE  MergeFile(base, theirs, yours) \in File
<1>1. CASE Agree(base, theirs, yours)
  BY <1>1 DEF MergeFile, Pick
<1>2. CASE ~ Agree(base, theirs, yours)
  <2>1. {base, theirs, yours} \subseteq [Hunk -> Text]
    BY <1>2 DEF CleanFile, File
  <2>2. [h \in Hunk |-> Pick(base[h], theirs[h], yours[h])] \in [Hunk -> Text]
    BY <2>1 DEF Pick
  <2> QED
    BY <1>2, <2>2 DEF MergeFile, File
<1> QED
  BY <1>1, <1>2

(* The same for trees.                                                     *)
LEMMA MergeTreeType ==
  ASSUME NEW base \in Tree, NEW theirs \in Tree, NEW yours \in Tree,
         CleanTree(base, theirs, yours)
  PROVE  MergeTree(base, theirs, yours) \in Tree
<1>1. ASSUME NEW p \in Path
      PROVE  MergeFile(base[p], theirs[p], yours[p]) \in File
  <2>1. base[p] \in File /\ theirs[p] \in File /\ yours[p] \in File
    BY DEF Tree
  <2>2. CleanFile(base[p], theirs[p], yours[p])
    BY DEF CleanTree
  <2> QED
    BY <2>1, <2>2, MergeFileType
<1> QED
  BY <1>1 DEF MergeTree, Tree

(* A fast-forward is a merge: into the version it was made from, a tree    *)
(* merges cleanly and to itself.                                           *)
LEMMA FastForwardIsMerge ==
  ASSUME NEW base \in Tree, NEW yours \in Tree
  PROVE  /\ CleanTree(base, base, yours)
         /\ MergeTree(base, base, yours) = yours
<1>1. ASSUME NEW p \in Path
      PROVE  /\ CleanFile(base[p], base[p], yours[p])
             /\ MergeFile(base[p], base[p], yours[p]) = yours[p]
  BY DEF CleanFile, MergeFile, Agree, Pick
<1>2. MergeTree(base, base, yours) = [p \in Path |-> yours[p]]
  BY <1>1 DEF MergeTree
<1> QED
  BY <1>1, <1>2 DEF CleanTree, Tree

(* A file nobody else touched merges to the writer's file, and one the     *)
(* writer did not touch to the other side's.                               *)
LEMMA MergeUntouched ==
  ASSUME NEW base, NEW other
  PROVE  MergeFile(base, other, base) = other
BY DEF MergeFile, Agree, Pick

-----------------------------------------------------------------------------
(* Writers that start from the same version.                               *)

(* A file that merges does so hunk by hunk, unless it was created or       *)
(* deleted, and then at most one side touched it or both did the same.     *)
LEMMA MergeByHunk ==
  ASSUME NEW base \in File, NEW theirs \in File, NEW yours \in File,
         CleanFile(base, theirs, yours), Absent \notin {base, theirs, yours}
  PROVE  /\ MergeFile(base, theirs, yours) \in [Hunk -> Text]
         /\ \A h \in Hunk :
              /\ Agree(base[h], theirs[h], yours[h])
              /\ MergeFile(base, theirs, yours)[h] = Pick(base[h], theirs[h], yours[h])
<1>1. {base, theirs, yours} \subseteq [Hunk -> Text]
  BY DEF File
<1>2. CASE Agree(base, theirs, yours)
  BY <1>1, <1>2 DEF MergeFile, Agree, Pick
<1>3. CASE ~ Agree(base, theirs, yours)
  <2>1. \A h \in Hunk : Agree(base[h], theirs[h], yours[h])
    BY <1>3 DEF CleanFile
  <2>2. MergeFile(base, theirs, yours) = [h \in Hunk |-> Pick(base[h], theirs[h], yours[h])]
    BY <1>3 DEF MergeFile
  <2> QED
    BY <1>1, <2>1, <2>2 DEF Pick
<1> QED
  BY <1>2, <1>3

(* A file that one side created or deleted merges as a whole.              *)
LEMMA MergeWhole ==
  ASSUME NEW base \in File, NEW theirs \in File, NEW yours \in File,
         CleanFile(base, theirs, yours), Absent \in {base, theirs, yours}
  PROVE  /\ Agree(base, theirs, yours)
         /\ MergeFile(base, theirs, yours) = Pick(base, theirs, yours)
BY DEF CleanFile, MergeFile

(* Two files are the same when they agree on every hunk.                   *)
LEMMA SameFile ==
  ASSUME NEW f \in [Hunk -> Text], NEW g \in [Hunk -> Text], \A h \in Hunk : f[h] = g[h]
  PROVE  f = g
OBVIOUS

(* Whose write reaches a file first does not matter: the sides of a merge  *)
(* can be swapped.                                                         *)
LEMMA MergeFileCommutes ==
  ASSUME NEW base \in File, NEW one \in File, NEW two \in File, CleanFile(base, one, two)
  PROVE  /\ CleanFile(base, two, one)
         /\ MergeFile(base, one, two) = MergeFile(base, two, one)
<1>1. CleanFile(base, two, one)
  BY DEF CleanFile, Agree
<1>2. CASE Absent \in {base, one, two}
  BY <1>1, <1>2, MergeWhole DEF Agree, Pick
<1>3. CASE Absent \notin {base, one, two}
  <2>1. \A h \in Hunk : MergeFile(base, one, two)[h] = MergeFile(base, two, one)[h]
    BY <1>1, <1>3, MergeByHunk DEF Agree, Pick
  <2> QED
    BY <1>1, <1>3, <2>1, MergeByHunk, SameFile
<1> QED
  BY <1>1, <1>2, <1>3

(* A third write merges into the outcome of two as their outcome would     *)
(* merge into it.                                                          *)
LEMMA MergeFileAssociates ==
  ASSUME NEW base \in File, NEW one \in File, NEW two \in File, NEW three \in File,
         NEW both, both = MergeFile(base, one, two), CleanFile(base, one, two),
         CleanFile(base, both, three)
  PROVE  /\ CleanFile(base, two, three)
         /\ CleanFile(base, one, MergeFile(base, two, three))
         /\ MergeFile(base, one, MergeFile(base, two, three)) = MergeFile(base, both, three)
<1>0. both \in File
  BY MergeFileType
<1>1. CASE Absent \in {base, one, two, three}
  <2>1. CASE Absent \in {base, one, two}
    <3>1. Agree(base, one, two) /\ both = Pick(base, one, two)
      BY <2>1, MergeWhole
    <3>2. CASE two = base
      <4>1. both = one
        BY <3>1, <3>2 DEF Pick
      <4>2. CleanFile(base, two, three) /\ MergeFile(base, two, three) = three
        BY <3>2 DEF CleanFile, MergeFile, Agree, Pick
      <4> QED
        BY <4>1, <4>2
    <3>3. CASE two # base
      <4>1. both = two /\ one \in {base, two}
        BY <3>1, <3>3 DEF Pick, Agree
      <4>2. CASE one = base
        BY <4>1, <4>2 DEF CleanFile, MergeFile, Agree, Pick
      <4>3. CASE one = two /\ one # base
        <5>1. CleanFile(base, two, three) /\ MergeFile(base, two, three) = MergeFile(base, both, three)
          BY <4>1
        <5>2. Absent \in {base, two, three}
          BY <2>1, <4>3
        <5>3. MergeFile(base, two, three) \in {two}
          BY <4>3, <5>1, <5>2, MergeWhole DEF Agree, Pick
        <5> QED
          BY <4>3, <5>1, <5>3 DEF CleanFile, MergeFile, Agree, Pick
      <4> QED
        BY <4>1, <4>2, <4>3
    <3> QED
      BY <3>2, <3>3
  <2>2. CASE Absent \notin {base, one, two} /\ three = Absent
    <3>1. both \in [Hunk -> Text]
      BY <2>2, MergeByHunk
    <3>2. both = base /\ MergeFile(base, both, three) = three
      BY <1>0, <2>2, <3>1, MergeWhole, AbsentAssumption DEF Agree, Pick
    <3>3. one = base /\ two = base
      <4>0. \A h \in Hunk : /\ MergeFile(base, one, two)[h] = Pick(base[h], one[h], two[h])
                            /\ Agree(base[h], one[h], two[h])
        BY <2>2, MergeByHunk
      <4>1. \A h \in Hunk : /\ base[h] = Pick(base[h], one[h], two[h])
                            /\ Agree(base[h], one[h], two[h])
        BY <3>2, <4>0
      <4>2. \A h \in Hunk : one[h] = base[h] /\ two[h] = base[h]
        BY <4>1 DEF Agree, Pick
      <4> QED
        BY <2>2, <4>2, SameFile DEF File
    <3> QED
      BY <3>2, <3>3 DEF CleanFile, MergeFile, Agree, Pick
  <2> QED
    BY <1>1, <2>1, <2>2
<1>2. CASE Absent \notin {base, one, two, three}
  <2>1. /\ both \in [Hunk -> Text]
        /\ \A h \in Hunk : Agree(base[h], one[h], two[h]) /\ both[h] = Pick(base[h], one[h], two[h])
    BY <1>2, MergeByHunk
  <2>2. both # Absent
    BY <2>1, AbsentAssumption
  <2>3. \A h \in Hunk : Agree(base[h], both[h], three[h])
    BY <1>0, <1>2, <2>2, MergeByHunk
  <2> DEFINE last == MergeFile(base, two, three)
  <2>4. CleanFile(base, two, three)
    <3>1. \A h \in Hunk : Agree(base[h], two[h], three[h])
      BY <2>1, <2>3 DEF Agree, Pick
    <3> QED
      BY <1>2, <3>1 DEF CleanFile
  <2>5. /\ last \in [Hunk -> Text]
        /\ \A h \in Hunk : last[h] = Pick(base[h], two[h], three[h])
    BY <1>2, <2>4, MergeByHunk
  <2> HIDE DEF last
  <2>6. last # Absent /\ last \in File
    BY <2>5, AbsentAssumption DEF File
  <2>7. CleanFile(base, one, last)
    <3>1. \A h \in Hunk : Agree(base[h], one[h], last[h])
      BY <2>1, <2>3, <2>5 DEF Agree, Pick
    <3> QED
      BY <1>2, <2>6, <3>1 DEF CleanFile
  <2>8. \A h \in Hunk : MergeFile(base, one, last)[h] = MergeFile(base, both, three)[h]
    <3>1. \A h \in Hunk : MergeFile(base, one, last)[h] = Pick(base[h], one[h], last[h])
      BY <1>2, <2>6, <2>7, MergeByHunk
    <3>2. \A h \in Hunk : MergeFile(base, both, three)[h] = Pick(base[h], both[h], three[h])
      BY <1>0, <1>2, <2>2, MergeByHunk
    <3> QED
      BY <2>1, <2>3, <2>5, <3>1, <3>2 DEF Agree, Pick
  <2>9. MergeFile(base, one, last) = MergeFile(base, both, three)
    BY <1>0, <1>2, <2>2, <2>6, <2>7, <2>8, MergeByHunk, SameFile
  <2> QED
    BY <2>4, <2>7, <2>9 DEF last
<1> QED
  BY <1>1, <1>2

(* The order in which two writers that edited the same version win the     *)
(* branch does not matter: neither is refused because of it, and the       *)
(* repository holds the same contents in the end.                          *)
THEOREM MergeCommutes ==
  ASSUME NEW base \in Tree, NEW one \in Tree, NEW two \in Tree, CleanTree(base, one, two)
  PROVE  /\ CleanTree(base, two, one)
         /\ MergeTree(base, one, two) = MergeTree(base, two, one)
<1>1. ASSUME NEW p \in Path
      PROVE  /\ CleanFile(base[p], two[p], one[p])
             /\ MergeFile(base[p], one[p], two[p]) = MergeFile(base[p], two[p], one[p])
  BY MergeFileCommutes DEF Tree, CleanTree
<1> QED
  BY <1>1 DEF CleanTree, MergeTree

(* Nor does the order of three, and so of any number: merging a third      *)
(* writer's tree into the merge of the first two is merging the merge of   *)
(* the last two into the first's, and a conflict is one in either order.   *)
THEOREM MergeAssociates ==
  ASSUME NEW base \in Tree, NEW one \in Tree, NEW two \in Tree, NEW three \in Tree,
         CleanTree(base, one, two),
         CleanTree(base, MergeTree(base, one, two), three)
  PROVE  /\ CleanTree(base, two, three)
         /\ CleanTree(base, one, MergeTree(base, two, three))
         /\ MergeTree(base, one, MergeTree(base, two, three)) =
              MergeTree(base, MergeTree(base, one, two), three)
<1>1. ASSUME NEW p \in Path
      PROVE  LET both == MergeFile(base[p], one[p], two[p])
                 last == MergeFile(base[p], two[p], three[p])
             IN /\ CleanFile(base[p], two[p], three[p])
                /\ CleanFile(base[p], one[p], last)
                /\ MergeFile(base[p], one[p], last) = MergeFile(base[p], both, three[p])
  <2>1. /\ base[p] \in File /\ one[p] \in File /\ two[p] \in File /\ three[p] \in File
        /\ CleanFile(base[p], one[p], two[p])
        /\ CleanFile(base[p], MergeFile(base[p], one[p], two[p]), three[p])
    BY DEF Tree, CleanTree, MergeTree
  <2> QED
    BY <2>1, MergeFileAssociates
<1> QED
  BY <1>1 DEF CleanTree, MergeTree

(* A client that repeats a write whose answer it lost, from the version it *)
(* first named, changes nothing: the write merges into its own outcome.    *)
THEOREM MergeTwiceIsOnce ==
  ASSUME NEW base \in Tree, NEW theirs \in Tree, NEW yours \in Tree,
         CleanTree(base, theirs, yours)
  PROVE  LET new == MergeTree(base, theirs, yours)
         IN CleanTree(base, new, yours) /\ MergeTree(base, new, yours) = new
<1> DEFINE new == MergeTree(base, theirs, yours)
<1>1. ASSUME NEW p \in Path
      PROVE  CleanFile(base[p], new[p], yours[p]) /\ MergeFile(base[p], new[p], yours[p]) = new[p]
  <2>1. /\ base[p] \in File /\ theirs[p] \in File /\ yours[p] \in File
        /\ CleanFile(base[p], theirs[p], yours[p])
        /\ new[p] = MergeFile(base[p], theirs[p], yours[p])
    BY DEF Tree, CleanTree, MergeTree
  <2> HIDE DEF new
  <2>2. CASE Absent \in {base[p], theirs[p], yours[p]}
    BY <2>1, <2>2, MergeWhole DEF CleanFile, MergeFile, Agree, Pick
  <2>3. CASE Absent \notin {base[p], theirs[p], yours[p]}
    <3>1. /\ new[p] \in [Hunk -> Text]
          /\ \A h \in Hunk : new[p][h] = Pick(base[p][h], theirs[p][h], yours[p][h])
      BY <2>1, <2>3, MergeByHunk
    <3>2. new[p] # Absent /\ new[p] \in File
      BY <3>1, AbsentAssumption DEF File
    <3>3. CleanFile(base[p], new[p], yours[p])
      <4>1. \A h \in Hunk : Agree(base[p][h], new[p][h], yours[p][h])
        BY <2>1, <2>3, <3>1, MergeByHunk DEF Agree, Pick
      <4> QED
        BY <2>3, <3>2, <4>1 DEF CleanFile
    <3>4. \A h \in Hunk : MergeFile(base[p], new[p], yours[p])[h] = new[p][h]
      BY <2>1, <2>3, <3>1, <3>2, <3>3, MergeByHunk DEF Pick
    <3>5. MergeFile(base[p], new[p], yours[p]) \in [Hunk -> Text]
      BY <2>1, <2>3, <3>2, <3>3, MergeByHunk
    <3> QED
      BY <3>1, <3>3, <3>4, <3>5, SameFile
  <2> QED
    BY <2>2, <2>3
<1>2. CleanTree(base, new, yours)
  BY <1>1 DEF CleanTree
<1>3. MergeTree(base, new, yours) = [p \in Path |-> new[p]]
  BY <1>1 DEF MergeTree
<1>4. new = [p \in Path |-> new[p]]
  BY DEF MergeTree
<1> QED
  BY <1>2, <1>3, <1>4
=============================================================================
