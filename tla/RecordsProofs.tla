--------------------------- MODULE RecordsProofs ----------------------------
(***************************************************************************)
(* Theorems about the record merge and the records it makes: for any       *)
(* fields, values, tags and clients, and any number of edits and puts.     *)
(***************************************************************************)
EXTENDS Records, SequenceTheorems, TLAPS

-----------------------------------------------------------------------------
(* The merge.                                                              *)

(* A record's time is a number.                                            *)
LEMMA UpdatedType ==
  ASSUME NEW r \in Record
  PROVE  r.updated \in Nat
<1>1. r.updated \in Times \/ r.updated = 0
  BY DEF Record
<1>2. \A t \in Times : t \in Nat
  BY RecordAssumption
<1> QED
  BY <1>1, <1>2

(* What a record says, key by key.                                         *)
LEMMA SaysWhat ==
  ASSUME NEW r \in Record
  PROVE  Says(r) =
    [fields |-> r.fields, id |-> r.id, updated |-> r.updated,
     tags |-> {Plain[t] : t \in r.tags}, flagged |-> r.flagged,
     other |-> IF r.other = Null THEN Absent ELSE r.other]
<1> DEFINE plain == {Plain[t] : t \in r.tags}
           other == IF r.other = Null THEN Absent ELSE r.other
           s == [r EXCEPT !.tags = plain]
<1>1. r = [fields |-> r.fields, id |-> r.id, updated |-> r.updated,
             tags |-> r.tags, flagged |-> r.flagged, other |-> r.other]
  BY DEF Record
<1>2. Says(r) = [s EXCEPT !.other = IF s.other = Null THEN Absent ELSE s.other]
  BY DEF Says
<1> HIDE DEF plain
<1>3. s = [fields |-> r.fields, id |-> r.id, updated |-> r.updated,
             tags |-> plain, flagged |-> r.flagged, other |-> r.other]
  BY <1>1
<1> HIDE DEF s
<1>4. [s EXCEPT !.other = other] =
        [fields |-> r.fields, id |-> r.id, updated |-> r.updated,
         tags |-> plain, flagged |-> r.flagged, other |-> other]
  BY <1>3
<1> QED
  BY <1>2, <1>3, <1>4 DEF plain

(* The merge of three records is a record.                                 *)
LEMMA MergeType ==
  ASSUME NEW b \in Record, NEW t \in Record, NEW y \in Record
  PROVE  Merge(b, t, y) \in Record
<1>1. \A f \in Field : MergeField(b.fields[f], t.fields[f], y.fields[f]) \in Value \cup {Absent}
  BY DEF Record, MergeField
<1>2. KeepId(b.id, t.id, y.id) \in Id \cup {Absent}
  BY DEF Record, KeepId
<1>3. MergeUpdated(t.updated, y.updated) \in Times \cup {0}
  BY DEF Record, MergeUpdated
<1>4. MergeTags(t.tags, y.tags) \in SUBSET Tag
  BY RecordAssumption DEF Record, MergeTags
<1>5. MergeFlagged(t.flagged, y.flagged) \in BOOLEAN
  BY DEF Record, MergeFlagged
<1>6. PickWinner(b.other, t.other, y.other, TheirsWins(t, y)) \in Value \cup {Absent, Null}
  BY DEF Record, PickWinner
<1> QED
  BY <1>1, <1>2, <1>3, <1>4, <1>5, <1>6 DEF Merge, Record

(* A clean merge of a field is the incoming value where that was changed,  *)
(* and overwrites nothing but what the incoming side started from.         *)
LEMMA MergeFieldKeeps ==
  ASSUME NEW b, NEW t, NEW y, ~Divergent(b, t, y)
  PROVE  /\ MergeField(b, t, y) # t => b = t
         /\ y # b => MergeField(b, t, y) = y
BY DEF Divergent, MergeField, SameField

(* Merging the same version in twice says what merging it once said.       *)
LEMMA MergeTwice ==
  ASSUME NEW b \in Record, NEW t \in Record, NEW y \in Record, y.id # Absent
  PROVE  Says(Merge(b, Merge(b, t, y), y)) = Says(Merge(b, t, y))
<1> DEFINE m == Merge(b, t, y)
           n == Merge(b, m, y)
<1> n.fields = m.fields
  BY DEF Merge, MergeField, SameField
<1> n.id = m.id
  BY DEF Merge, KeepId
<1> n.updated = m.updated /\ (TheirsWins(m, y) <=> TheirsWins(t, y))
  <2>1. t.updated \in Nat /\ y.updated \in Nat
    BY UpdatedType
  <2>2. /\ m.updated = MergeUpdated(t.updated, y.updated)
        /\ n.updated = MergeUpdated(m.updated, y.updated)
    BY DEF Merge
  <2> QED
    BY <2>1, <2>2 DEF MergeUpdated, TheirsWins
<1> n.tags = m.tags
  <2>1. m.tags = {Plain[x] : x \in t.tags \cup y.tags}
    BY DEF Merge, MergeTags
  <2>2. n.tags = {Plain[x] : x \in m.tags \cup y.tags}
    BY DEF Merge, MergeTags
  <2>3. t.tags \subseteq Tag /\ y.tags \subseteq Tag
    BY DEF Record
  <2> QED
    BY <2>1, <2>2, <2>3, RecordAssumption
<1> n.flagged = m.flagged
  BY DEF Merge, MergeFlagged, Record
<1> n.other = m.other
  BY RecordAssumption DEF Merge, PickWinner
<1> n = m
  BY DEF Merge
<1> QED
  OBVIOUS

(* Merging a version with itself says what it says, if the merge is clean. *)
LEMMA MergeSame ==
  ASSUME NEW b \in Record, NEW y \in Record, y.id # Absent, ~Conflicts(b, y, y)
  PROVE  Says(Merge(b, y, y)) = Says(y)
<1> DEFINE m == Merge(b, y, y)
<1>1. m.fields = y.fields
  BY DEF Merge, MergeField, SameField, Record
<1>2. m.id = y.id
  BY DEF Merge, KeepId, Conflicts, Altered
<1>3. m.updated = y.updated
  BY DEF Merge, MergeUpdated
<1>4. {Plain[x] : x \in m.tags} = {Plain[x] : x \in y.tags}
  <2>1. m.tags = {Plain[x] : x \in y.tags}
    BY DEF Merge, MergeTags
  <2> QED
    BY <2>1, RecordAssumption DEF Record
<1>5. m.flagged = y.flagged
  BY DEF Merge, MergeFlagged, Record
<1>6. m.other = y.other \/ (m.other = Null /\ y.other = Absent)
  BY DEF Merge, PickWinner
<1>7. m \in Record
  BY MergeType
<1> HIDE DEF m
<1>8. (IF m.other = Null THEN Absent ELSE m.other) = (IF y.other = Null THEN Absent ELSE y.other)
  BY <1>6, RecordAssumption
<1>9. Says(m) = Says(y)
  BY <1>1, <1>2, <1>3, <1>4, <1>5, <1>7, <1>8, SaysWhat
<1> QED
  BY <1>9 DEF m

(* A conflict does not depend on who came first.                           *)
LEMMA ConflictsSymmetric ==
  ASSUME NEW b, NEW x, NEW y
  PROVE  Conflicts(b, x, y) <=> Conflicts(b, y, x)
BY DEF Conflicts, Divergent, SameField

(* Nor does a clean merge, without a tie.                                  *)
LEMMA MergeSymmetric ==
  ASSUME NEW b \in Record, NEW x \in Record, NEW y \in Record,
         ~Conflicts(b, x, y), ~Tied(b, x, y)
  PROVE  Merge(b, x, y) = Merge(b, y, x)
<1>1. \A f \in Field : MergeField(b.fields[f], x.fields[f], y.fields[f])
                         = MergeField(b.fields[f], y.fields[f], x.fields[f])
  BY DEF Conflicts, Divergent, SameField, MergeField
<1>2. KeepId(b.id, x.id, y.id) = KeepId(b.id, y.id, x.id)
  BY DEF Conflicts, Altered, Tied, KeepId
<1>3. /\ x.updated \in Nat /\ y.updated \in Nat /\ x.updated # y.updated
  BY UpdatedType DEF Tied
<1>4. MergeUpdated(x.updated, y.updated) = MergeUpdated(y.updated, x.updated)
  BY <1>3 DEF MergeUpdated
<1>5. TheirsWins(x, y) <=> ~TheirsWins(y, x)
  BY <1>3 DEF TheirsWins
<1>6. PickWinner(b.other, x.other, y.other, TheirsWins(x, y))
        = PickWinner(b.other, y.other, x.other, TheirsWins(y, x))
  BY <1>5 DEF PickWinner
<1>7. MergeTags(x.tags, y.tags) = MergeTags(y.tags, x.tags)
  BY DEF MergeTags
<1>8. MergeFlagged(x.flagged, y.flagged) = MergeFlagged(y.flagged, x.flagged)
  BY DEF MergeFlagged, Record
<1> QED
  BY <1>1, <1>2, <1>4, <1>6, <1>7, <1>8 DEF Merge

-----------------------------------------------------------------------------
(* The versions of the record.                                             *)

(* Each version after the first is what a put of a client became.          *)
Made(i) ==
  LET e == log[i] was == log[i - 1].rec from == log[e.base].rec
  IN /\ e.base \in 1 .. i - 1
     /\ \/ e.base = i - 1 /\ e.rec = e.draft
        \/ ~Conflicts(from, was, e.draft) /\ e.rec = Merge(from, was, e.draft)

IInv ==
  /\ TypeOK /\ Len(log) > 0
  /\ log[1].draft = log[1].rec
  /\ \A i \in 2 .. Len(log) : Made(i)

(* What an entry of the log holds.                                         *)
LEMMA EntryType ==
  ASSUME TypeOK, NEW i \in DOMAIN log
  PROVE  /\ log[i] \in Entry
         /\ log[i].rec \in Record /\ log[i].draft \in Record /\ log[i].base \in Nat \ {0}
<1>1. log \in Seq(Entry) /\ DOMAIN log = 1 .. Len(log)
  BY DEF TypeOK
<1>2. log[i] \in Entry
  BY <1>1
<1> QED
  BY <1>2 DEF Entry

(* The first version is the one the clients start from.                    *)
LEMMA Starts == Init => IInv
<1> SUFFICES ASSUME Init PROVE IInv
  OBVIOUS
<1>1. PICK r \in Record : log = <<Version(r, Nobody, 1, r)>> /\ draft = [c \in Client |-> r]
  BY DEF Init
<1>2. Version(r, Nobody, 1, r) \in Entry
  BY DEF Version, Entry
<1>3. log \in Seq(Entry) /\ Len(log) = 1 /\ DOMAIN log = {1} /\ log[1].draft = log[1].rec
  BY <1>1, <1>2 DEF Version
<1> QED
  BY <1>1, <1>3 DEF Init, IInv, TypeOK

(* An edit or a fetch leaves the versions alone.                           *)
LEMMA VersionsStay ==
  ASSUME IInv, log' = log
  PROVE  \A i \in 2 .. Len(log') : Made(i)'
BY DEF IInv, Made

(* A put appends a version made from the ones before it.                   *)
LEMMA PutMakes ==
  ASSUME IInv, NEW c \in Client, Put(c)
  PROVE  /\ log' \in Seq(Entry) /\ Len(log') = Len(log) + 1
         /\ Landed(c) \in Record /\ log'[1] = log[1] /\ Len(log) \in Nat
         /\ \A i \in 2 .. Len(log') : Made(i)'
<1> DEFINE n == Len(log)
           e == Version(Landed(c), c, base[c], draft[c])
<1>1. /\ log \in Seq(Entry) /\ n \in Nat \ {0} /\ DOMAIN log = 1 .. n
      /\ base[c] \in 1 .. n /\ draft[c] \in Record
  BY DEF IInv, TypeOK
<1>2. \A i \in 1 .. n : log[i].rec \in Record /\ log[i].base \in Nat \ {0}
  BY <1>1, EntryType DEF IInv
<1>3. Landed(c) \in Record
  BY <1>1, <1>2, MergeType DEF Landed, Newest
<1>4. e \in Entry
  BY <1>1, <1>3 DEF Version, Entry
<1>5. log' = Append(log, e)
  BY DEF Put
<1> HIDE DEF e
<1>6. /\ log' \in Seq(Entry) /\ Len(log') = n + 1
      /\ \A i \in 1 .. n : log'[i] = log[i]
      /\ log'[n + 1] = e
  BY <1>1, <1>4, <1>5, AppendProperties
<1>7. \A i \in 2 .. n : Made(i)'
  <2> SUFFICES ASSUME NEW i \in 2 .. n PROVE Made(i)'
    OBVIOUS
  <2>1. Made(i)
    BY DEF IInv
  <2>2. log[i].base \in 1 .. i - 1 /\ log[i].base \in 1 .. n /\ i - 1 \in 1 .. n
    BY <1>1, <2>1 DEF Made
  <2> QED
    BY <1>1, <1>6, <2>1, <2>2 DEF Made
<1>8. ASSUME NEW m \in Nat, m = n + 1
      PROVE  Made(m)'
  <2>1. e.rec = Landed(c) /\ e.base = base[c] /\ e.draft = draft[c]
    BY DEF e, Version
  <2>2. log'[n] = log[n] /\ log'[base[c]] = log[base[c]]
    BY <1>1, <1>6
  <2>3. \/ base[c] = n /\ Landed(c) = draft[c]
        \/ /\ ~Conflicts(log[base[c]].rec, log[n].rec, draft[c])
           /\ Landed(c) = Merge(log[base[c]].rec, log[n].rec, draft[c])
    BY DEF Put, Landed, Refused, Newest
  <2>4. m - 1 = n /\ 1 .. m - 1 = 1 .. n
    BY <1>1, <1>8
  <2>5. log'[m] = e /\ log'[m - 1] = log[n] /\ log'[e.base] = log[base[c]]
    BY <1>6, <1>8, <2>1, <2>2, <2>4
  <2>6. e.base \in 1 .. m - 1 /\ (base[c] = n <=> e.base = m - 1)
    BY <1>1, <2>1, <2>4
  <2> HIDE DEF n
  <2> QED
    BY <2>1, <2>3, <2>5, <2>6 DEF Made
<1>9. ASSUME NEW i \in 2 .. Len(log')
      PROVE  Made(i)'
  <2>1. i \in 2 .. n \/ (i = n + 1 /\ i \in Nat)
    BY <1>1, <1>6
  <2> QED
    BY <1>7, <1>8, <2>1
<1> QED
  BY <1>1, <1>3, <1>6, <1>9

(* Every step keeps the types and the history of the versions.             *)
LEMMA Steps == IInv /\ [Next]_vars => IInv'
<1> SUFFICES ASSUME IInv, [Next]_vars PROVE IInv'
  OBVIOUS
<1> USE DEF IInv
<1>1. ASSUME NEW c \in Client, Fetch(c) PROVE IInv'
  <2>1. Newest \in Record /\ Len(log) \in DOMAIN log
    <3>1. Len(log) \in DOMAIN log
      BY DEF TypeOK
    <3> QED
      BY <3>1, EntryType DEF Newest
  <2> QED
    BY <1>1, <2>1, VersionsStay DEF Fetch, TypeOK
<1>2. ASSUME NEW c \in Client, Edits(c) PROVE IInv'
  <2>1. ASSUME NEW r \in Record, Edit(c, r) PROVE IInv'
    <3>1. \A now \in Times \cup {0} : [r EXCEPT !.updated = now] \in Record
      BY DEF Record
    <3> QED
      BY <2>1, <3>1, VersionsStay DEF Edit, TypeOK
  <2>2. draft[c] \in Record
    BY DEF TypeOK
  <2>3. \A f \in Field, v \in Value \cup {Absent} : [draft[c] EXCEPT !.fields[f] = v] \in Record
    BY <2>2 DEF Record
  <2>4. \A i \in Id \cup {Absent} : [draft[c] EXCEPT !.id = i] \in Record
    BY <2>2 DEF Record
  <2>5. \A t \in Tag : [draft[c] EXCEPT !.tags = {t}] \in Record
    BY <2>2 DEF Record
  <2>6. \A b \in BOOLEAN : [draft[c] EXCEPT !.flagged = b] \in Record
    BY <2>2 DEF Record
  <2>7. \A v \in Value \cup {Absent} : [draft[c] EXCEPT !.other = v] \in Record
    BY <2>2 DEF Record
  <2> QED
    BY <1>2, <2>1, <2>3, <2>4, <2>5, <2>6, <2>7 DEF Edits
<1>3. ASSUME NEW c \in Client, Put(c) PROVE IInv'
  <2>1. /\ log' \in Seq(Entry) /\ Len(log') = Len(log) + 1
        /\ Landed(c) \in Record /\ log'[1] = log[1] /\ Len(log) \in Nat
        /\ \A i \in 2 .. Len(log') : Made(i)'
    BY <1>3, PutMakes
  <2>2. DOMAIN log = 1 .. Len(log) /\ DOMAIN log' = 1 .. Len(log) + 1 /\ Len(log) \in Nat
    BY <2>1 DEF TypeOK
  <2>3. base \in [Client -> DOMAIN log'] /\ Len(log) + 1 \in DOMAIN log'
    BY <2>2 DEF TypeOK
  <2>4. base' \in [Client -> DOMAIN log'] /\ draft' \in [Client -> Record]
        /\ awaits' \in [Client -> BOOLEAN]
    BY <1>3, <2>1, <2>3 DEF Put, TypeOK
  <2> QED
    BY <2>1, <2>2, <2>4 DEF TypeOK
<1>4. ASSUME NEW c \in Client, Conflict(c) PROVE IInv'
  BY <1>4, VersionsStay DEF Conflict, TypeOK
<1>5. CASE UNCHANGED vars
  BY <1>5, VersionsStay DEF vars, TypeOK
<1> QED
  BY <1>1, <1>2, <1>3, <1>4, <1>5 DEF Next

(* Every behaviour keeps both.                                             *)
LEMMA Invariant == Spec => []IInv
BY Starts, Steps, PTL DEF Spec

(* The variables have their types, and every client started from a version *)
(* there is.                                                               *)
THEOREM TypeCorrect == Spec => []TypeOK
<1>1. IInv => TypeOK
  BY DEF IInv
<1> QED
  BY <1>1, Invariant, PTL

(* What the entries of the log are.                                        *)
LEMMA Entries ==
  ASSUME IInv, NEW i \in DOMAIN log \ {1}
  PROVE  /\ i - 1 \in DOMAIN log /\ log[i].base \in DOMAIN log
         /\ Made(i)
         /\ \A j \in DOMAIN log : log[j].rec \in Record /\ log[j].draft \in Record
<1>1. log \in Seq(Entry) /\ DOMAIN log = 1 .. Len(log) /\ Len(log) \in Nat
  BY DEF IInv, TypeOK
<1>2. i \in 2 .. Len(log)
  BY <1>1
<1>3. Made(i)
  BY <1>2 DEF IInv
<1>4. \A j \in DOMAIN log : log[j].rec \in Record /\ log[j].draft \in Record
  BY EntryType DEF IInv
<1>5. log[i].base \in 1 .. i - 1
  BY <1>3 DEF Made
<1> QED
  BY <1>1, <1>2, <1>3, <1>4, <1>5

(* No change of a client is dropped by a put that lands, and none gives    *)
(* way to a client that had not seen it: formidable/merge.go, Merge.       *)
THEOREM ChangesOfFieldsLand == Spec => []EditsLand
<1>1. IInv => EditsLand
  <2> SUFFICES ASSUME IInv, NEW i \in DOMAIN log \ {1}, NEW f \in Field
               PROVE  LET seen == log[log[i].base].rec.fields[f]
                          put == log[i].draft.fields[f]
                          was == log[i - 1].rec.fields[f]
                          is == log[i].rec.fields[f]
                      IN (is # was => seen = was) /\ (put # seen => is = put)
    BY DEF EditsLand
  <2>1. Made(i)
    BY Entries
  <2>2. CASE log[i].base = i - 1 /\ log[i].rec = log[i].draft
    BY <2>2
  <2>3. CASE /\ ~Conflicts(log[log[i].base].rec, log[i - 1].rec, log[i].draft)
             /\ log[i].rec = Merge(log[log[i].base].rec, log[i - 1].rec, log[i].draft)
    <3>1. ~Divergent(log[log[i].base].rec.fields[f], log[i - 1].rec.fields[f], log[i].draft.fields[f])
      BY <2>3 DEF Conflicts
    <3>2. log[i].rec.fields[f] = MergeField(log[log[i].base].rec.fields[f],
                                            log[i - 1].rec.fields[f], log[i].draft.fields[f])
      BY <2>3 DEF Merge
    <3> QED
      BY <3>1, <3>2, MergeFieldKeeps
  <2> QED
    BY <2>1, <2>2, <2>3 DEF Made
<1> QED
  BY <1>1, Invariant, PTL

(* A put that is repeated, its answer lost, changes nothing the record     *)
(* says: server/formidable_merge.go, maybeFormidableMerge.                 *)
THEOREM RetriesAreHarmless == Spec => []RetryHarmless
<1>1. IInv => RetryHarmless
  <2> SUFFICES ASSUME IInv, NEW i \in DOMAIN log \ {1},
                      log[i].by = log[i - 1].by, log[i].base = log[i - 1].base,
                      log[i].draft = log[i - 1].draft, log[i].draft.id # Absent
               PROVE  Says(log[i].rec) = Says(log[i - 1].rec)
    BY DEF RetryHarmless
  <2> DEFINE from == log[log[i].base].rec
             was == log[i - 1].rec
             d == log[i].draft
  <2>1. /\ Made(i) /\ i - 1 \in DOMAIN log /\ log[i].base \in DOMAIN log
        /\ from \in Record /\ was \in Record /\ d \in Record
        /\ DOMAIN log = 1 .. Len(log) /\ Len(log) \in Nat
    BY Entries DEF IInv, TypeOK
  <2>2. CASE i - 1 = 1
    <3>1. log[i].base = 1 /\ was = d /\ from = d
      BY <2>1, <2>2 DEF Made, IInv
    <3> QED
      BY <2>1, <2>2, <3>1, MergeSame DEF Made
  <2>3. CASE i - 1 # 1
    <3>1. i - 1 \in DOMAIN log \ {1}
      BY <2>1, <2>3
    <3>2. Made(i - 1) /\ (i - 1) - 1 \in DOMAIN log
      BY <3>1, Entries
    <3>3. log[i].base # i - 1
      BY <2>1, <3>2 DEF Made
    <3>4. ~Conflicts(from, was, d) /\ log[i].rec = Merge(from, was, d)
      BY <2>1, <3>3 DEF Made
    <3>5. CASE log[i - 1].base = (i - 1) - 1 /\ was = d
      BY <2>1, <3>4, <3>5, MergeSame
    <3>6. CASE was = Merge(from, log[(i - 1) - 1].rec, d)
      <4>1. log[(i - 1) - 1].rec \in Record
        BY <3>2, Entries
      <4> QED
        BY <2>1, <3>4, <3>6, <4>1, MergeTwice
    <3> QED
      BY <3>2, <3>5, <3>6 DEF Made
  <2> QED
    BY <2>2, <2>3
<1> QED
  BY <1>1, Invariant, PTL

(* Two puts from one version have the same outcome in either order, unless *)
(* they tie: formidable/meta.go, MergeMeta and UpdatedWinner.              *)
THEOREM OrderDoesNotMatter == Spec => []OrderIrrelevant
<1>1. IInv => OrderIrrelevant
  <2> SUFFICES ASSUME IInv, NEW c \in Client, NEW d \in Client, base[c] = base[d]
               PROVE  LET b == log[base[c]].rec
                      IN /\ Conflicts(b, draft[c], draft[d]) <=> Conflicts(b, draft[d], draft[c])
                         /\ ~Conflicts(b, draft[c], draft[d]) /\ ~Tied(b, draft[c], draft[d]) =>
                              Merge(b, draft[c], draft[d]) = Merge(b, draft[d], draft[c])
    BY DEF OrderIrrelevant
  <2>1. log[base[c]].rec \in Record /\ draft[c] \in Record /\ draft[d] \in Record
    BY EntryType DEF IInv, TypeOK
  <2> QED
    BY <2>1, ConflictsSymmetric, MergeSymmetric
<1> QED
  BY <1>1, Invariant, PTL
=============================================================================
