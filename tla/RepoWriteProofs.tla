-------------------------- MODULE RepoWriteProofs ---------------------------
(***************************************************************************)
(* Theorems about RepoWrite, for any number of writers, any paths, hunks   *)
(* and texts, any retry limit and behaviours of any length.                *)
(***************************************************************************)
EXTENDS RepoWrite, Merge3Proofs, SequenceTheorems

USE DEF Version, TreeAt

-----------------------------------------------------------------------------
(* Type correctness.                                                       *)

(* No change, and the scaffold's repair of .gitignore, are change sets.    *)
LEMMA NoChangeType == NoChange \in ChangeSet
BY DEF NoChange, ChangeSet

(* A function from some paths to files is a change set.                    *)
LEMMA ChangeSetIntro ==
  ASSUME NEW S \in SUBSET Path, NEW f \in [S -> File]
  PROVE  f \in ChangeSet
BY DEF ChangeSet

(* A change set maps the paths it names to files.                          *)
LEMMA ChangeSetElim ==
  ASSUME NEW change \in ChangeSet
  PROVE  /\ DOMAIN change \subseteq Path
         /\ \A p \in DOMAIN change : change[p] \in File
         /\ change = [p \in DOMAIN change |-> change[p]]
BY DEF ChangeSet

(* The repaired .gitignore is a file.                                      *)
LEMMA HealedType ==
  ASSUME NEW file \in File
  PROVE  Healed(file) \in File
BY ScaffoldAssumption DEF Healed, File

(* The repair of .gitignore is a change set.                               *)
LEMMA HealPlanType ==
  ASSUME NEW tree \in Tree
  PROVE  HealPlan(tree) \in ChangeSet
<1> DEFINE S == {q \in {IgnorePath} : Healed(tree[q]) # tree[q]}
<1>1. S \in SUBSET Path
  BY ScaffoldAssumption
<1>2. \A p \in S : Healed(tree[p]) \in File
  BY <1>1, HealedType DEF Tree
<1>3. [p \in S |-> Healed(tree[p])] \in [S -> File]
  BY <1>2
<1> QED
  BY <1>1, <1>3, ChangeSetIntro DEF HealPlan

(* A call that does nothing is a call.                                     *)
LEMMA IdleType == Idle \in Call
BY NoChangeType, BoundAssumption DEF Idle, Call, Busy

(* The versions of a repository have trees and histories.                  *)
LEMMA VersionType ==
  ASSUME store \in Seq(Commit), NEW v \in Version
  PROVE  /\ v \in Nat /\ v # 0
         /\ store[v] \in Commit
         /\ TreeAt(v) \in Tree
         /\ Hist(v) \in SUBSET Nat
<1>1. v \in 1 .. Len(store)
  OBVIOUS
<1>2. store[v] \in Commit
  BY <1>1
<1> QED
  BY <1>1, <1>2 DEF Commit, Hist

(* The change set the git manager gets is one.                             *)
LEMMA MergedChangeType ==
  ASSUME store \in Seq(Commit), head \in Version,
         NEW parent \in Version, NEW change \in ChangeSet,
         \A p \in Records(parent, change) :
           CleanFile(TreeAt(parent)[p], TreeAt(head)[p], change[p])
  PROVE  MergedChange(parent, change) \in ChangeSet
<1>1. \A p \in DOMAIN change :
        p \in Path /\ TreeAt(parent)[p] \in File
        /\ TreeAt(head)[p] \in File /\ change[p] \in File
  BY VersionType, ChangeSetElim DEF Tree
<1>2. ASSUME NEW p \in DOMAIN change
      PROVE  MergedChange(parent, change)[p] \in File
  BY <1>1, <1>2, MergeFileType DEF MergedChange
<1>3. MergedChange(parent, change) \in [DOMAIN change -> File]
  BY <1>2 DEF MergedChange
<1> QED
  BY <1>3, ChangeSetElim, ChangeSetIntro

(* What a publication adds to the store: the client commit first, and the  *)
(* version the branch takes last.                                          *)
LEMMA PublishedStore ==
  ASSUME TypeOK, NEW w \in Writer, call[w].pc = "cas", PublishAnyway(w),
         Candidate(w) \in Seq(Commit)
  PROVE  LET n    == Len(store) + 1
             base == call[w].base
             seen == call[w].seen
         IN /\ store' \in Seq(Commit)
            /\ Len(store') = (IF base = seen THEN n ELSE n + 1)
            /\ head' = Len(store')
            /\ \A v \in Version : store'[v] = store[v]
            /\ store'[n] = [hist |-> Hist(base) \cup {n}, tree |-> Yours(w)]
            /\ base # seen =>
                 store'[n + 1] =
                   [hist |-> Hist(seen) \cup Hist(base) \cup {n} \cup {n + 1},
                    tree |-> MergeTree(TreeAt(base), TreeAt(seen), Yours(w))]
<1> DEFINE n    == Len(store) + 1
           base == call[w].base
           seen == call[w].seen
           client == [hist |-> Hist(base) \cup {n}, tree |-> Yours(w)]
           merge  == [hist |-> Hist(seen) \cup client.hist \cup {n + 1},
                      tree |-> MergeTree(TreeAt(base), TreeAt(seen), Yours(w))]
<1>1. store' = store \o Candidate(w) /\ head' = Len(store') /\ store \in Seq(Commit)
  BY DEF PublishAnyway, TypeOK
<1>2. Candidate(w) = IF base = seen THEN <<client>> ELSE <<client, merge>>
  BY DEF Candidate, CandidateWith
<1> HIDE DEF n, base, seen, client, merge
<1>3. /\ store' \in Seq(Commit)
      /\ Len(store') = Len(store) + Len(Candidate(w))
      /\ \A i \in 1 .. Len(store) + Len(Candidate(w)) :
           store'[i] = IF i <= Len(store) THEN store[i] ELSE Candidate(w)[i - Len(store)]
  BY <1>1, ConcatProperties
<1>4. Len(store) \in Nat
  BY <1>1
<1>5. \A v \in Version : store'[v] = store[v]
  BY <1>1, <1>3, <1>4, LenProperties
<1>6. CASE base = seen
  <2>1. Len(Candidate(w)) = 1 /\ Candidate(w)[1] = client
    BY <1>2, <1>6
  <2>2. store'[n] = client
    BY <1>3, <1>4, <2>1 DEF n
  <2> QED
    BY <1>1, <1>3, <1>4, <1>5, <1>6, <2>1, <2>2 DEF client, base, seen, n
<1>7. CASE base # seen
  <2>1. Len(Candidate(w)) = 2 /\ Candidate(w)[1] = client /\ Candidate(w)[2] = merge
    BY <1>2, <1>7
  <2>2. store'[n] = client
    BY <1>3, <1>4, <2>1 DEF n
  <2>3. store'[n + 1] = merge
    BY <1>3, <1>4, <2>1 DEF n
  <2>4. Len(store') = n + 1
    BY <1>3, <1>4, <2>1 DEF n
  <2>5. client.hist = Hist(base) \cup {n}
    BY DEF client
  <2>6. merge.hist = Hist(seen) \cup Hist(base) \cup {n} \cup {n + 1}
    BY <2>5 DEF merge
  <2> QED
    BY <1>1, <1>3, <1>5, <1>7, <2>2, <2>3, <2>4, <2>6 DEF client, merge, base, seen, n
<1> QED
  BY <1>6, <1>7

-----------------------------------------------------------------------------
(* The inductive invariant.                                                *)

(* A version is in its own history, which holds older versions only, and   *)
(* all of the history of each.                                             *)
HistoryOK ==
  \A v \in Version :
    /\ v \in Hist(v)
    /\ Hist(v) \subseteq 1 .. v
    /\ \A u \in Hist(v) : Hist(u) \subseteq Hist(v)

(* What an attempt is about to publish was checked against the HEAD it     *)
(* read: the parent is in its history, and the trees merge.                *)
Prepared(w) ==
  call[w].pc = "cas" =>
    /\ call[w].base \in Hist(call[w].seen)
    /\ CleanTree(TreeAt(call[w].base), TreeAt(call[w].seen), Yours(w))

(* What a handler gave the git manager is what the client asked for, or,   *)
(* when records were merged, their merges with the HEAD it became based on.*)
MergedAt(w, p) ==
  LET asked == TreeAt(call[w].asked)[p]
      base  == TreeAt(call[w].base)[p]
      wants == call[w].wants[p]
  IN /\ Absent \notin {asked, base, wants}
     /\ CleanFile(asked, base, wants)
     /\ call[w].change[p] = MergeFile(asked, base, wants)

Faithful(w) ==
  call[w].pc \in {"read", "cas"} /\ ~ Mixed(w) =>
    /\ DOMAIN call[w].change = DOMAIN call[w].wants
    /\ call[w].base = call[w].asked => call[w].change = call[w].wants
    /\ call[w].base # call[w].asked => \A p \in DOMAIN call[w].wants : MergedAt(w, p)

(* A loop that runs has attempts left.                                     *)
Looping(w) == call[w].pc \in Busy => call[w].tries < MaxAttempts

WriterOK(w) == HoldsVersions(w) /\ Prepared(w) /\ Faithful(w) /\ Looping(w)

IInv == TypeOK /\ HistoryOK /\ \A w \in Writer : WriterOK(w)

(* The store only ever grows: the versions there are stay what they are.   *)
Grows ==
  /\ store' \in Seq(Commit)
  /\ Len(store) <= Len(store')
  /\ \A v \in Version : v \in Version' /\ store'[v] = store[v]

(* A writer that does not move keeps its part of the invariant, whatever   *)
(* the others add to the store.                                            *)
LEMMA Unmoved ==
  ASSUME TypeOK, Grows, head' \in Version', NEW w \in Writer, WriterOK(w),
         call'[w] = call[w]
  PROVE  WriterOK(w)'
<1> USE DEF Grows
<1>1. HoldsVersions(w)' /\ Looping(w)'
  BY DEF WriterOK, HoldsVersions, Looping
<1>2. CASE call[w].pc \in {"read", "cas"}
  <2>1. {call[w].asked, call[w].base} \subseteq Version
    BY <1>2 DEF WriterOK, HoldsVersions
  <2>2. /\ TreeAt(call[w].asked)' = TreeAt(call[w].asked)
        /\ TreeAt(call[w].base)' = TreeAt(call[w].base)
    BY <2>1
  <2>3. Yours(w)' = Yours(w)
    BY <2>2 DEF Yours
  <2>4. Mixed(w)' = Mixed(w)
    BY <2>2 DEF Mixed
  <2>5. \A p : MergedAt(w, p)' = MergedAt(w, p)
    BY <2>2 DEF MergedAt
  <2>6. Faithful(w)'
    BY <2>4, <2>5 DEF WriterOK, Faithful
  <2>7. ASSUME call[w].pc = "cas" PROVE Prepared(w)'
    <3>1. call[w].seen \in Version /\ call[w].seen # 0
      BY <2>7, VersionType DEF WriterOK, HoldsVersions, TypeOK
    <3>2. /\ TreeAt(call[w].seen)' = TreeAt(call[w].seen)
          /\ Hist(call[w].seen)' = Hist(call[w].seen)
      BY <3>1 DEF Hist
    <3> QED
      BY <2>2, <2>3, <2>7, <3>2 DEF WriterOK, Prepared
  <2> QED
    BY <1>1, <2>6, <2>7 DEF WriterOK, Prepared
<1>3. CASE call[w].pc \notin {"read", "cas"}
  BY <1>1, <1>3 DEF WriterOK, Prepared, Faithful
<1> QED
  BY <1>2, <1>3

(* A step of one writer replaces that writer's call.                       *)
LEMMA OneCall ==
  ASSUME TypeOK, NEW w \in Writer, NEW c \in Call, call' = [call EXCEPT ![w] = c]
  PROVE  /\ call' \in [Writer -> Call]
         /\ call'[w] = c
         /\ \A u \in Writer \ {w} : call'[u] = call[u]
BY DEF TypeOK

(* A step that only replaces one call, by one that is in order, keeps the  *)
(* invariant.                                                              *)
LEMMA OneCallStep ==
  ASSUME IInv, NEW w \in Writer, NEW c \in Call, call' = [call EXCEPT ![w] = c],
         UNCHANGED <<store, head, rewinds, acked>>, calls' \in Nat,
         head \in Version, WriterOK(w)'
  PROVE  IInv'
<1>1. TypeOK
  BY DEF IInv
<1>2. /\ call' \in [Writer -> Call]
      /\ \A u \in Writer \ {w} : call'[u] = call[u]
  BY <1>1, OneCall
<1>3. Grows
  BY <1>1 DEF Grows, TypeOK
<1>4. ASSUME NEW u \in Writer PROVE WriterOK(u)'
  BY <1>1, <1>2, <1>3, Unmoved DEF IInv
<1>5. HistoryOK'
  BY DEF IInv, HistoryOK, Hist
<1>6. TypeOK'
  BY <1>1, <1>2, <1>4 DEF TypeOK, WriterOK
<1> QED
  BY <1>4, <1>5, <1>6 DEF IInv

-----------------------------------------------------------------------------
(* The steps of the handlers.                                              *)

(* The handlers keep the invariant: a merged record is a file, and the parent a version. *)
LEMMA SubmitStep ==
  ASSUME IInv, NEW w \in Writer, NEW parent \in Version, NEW change \in Request,
         Submit(w, parent, change)
  PROVE  IInv'
<1> DEFINE records == Records(parent, change)
           clean   == \A p \in records :
                        CleanFile(TreeAt(parent)[p], TreeAt(head)[p], change[p])
           c == [Idle EXCEPT !.pc = "read", !.kind = "client",
                             !.asked = parent, !.wants = change,
                             !.base = IF records = {} THEN parent ELSE head,
                             !.change = MergedChange(parent, change)]
<1>1. /\ call' = [call EXCEPT ![w] = IF clean THEN c ELSE Idle]
      /\ UNCHANGED <<store, head, rewinds, acked>>
      /\ calls' \in Nat
      /\ head # 0
  BY DEF Submit, Arrive, IInv, TypeOK
<1>2. head \in Version /\ store \in Seq(Commit) /\ TypeOK
  BY <1>1 DEF IInv, TypeOK
<1>3. parent \in Nat /\ change \in ChangeSet
  BY <1>2, VersionType, RequestAssumption
<1>4. CASE clean
  <2>1. MergedChange(parent, change) \in ChangeSet
    BY <1>2, <1>3, <1>4, MergedChangeType
  <2>2. c \in Call
    <3>1. (IF records = {} THEN parent ELSE head) \in Nat
      BY <1>2, <1>3 DEF TypeOK
    <3> HIDE DEF records
    <3> QED
      BY <1>2, <1>3, <2>1, <3>1, IdleType DEF Call, Busy
  <2>3. call'[w] = c /\ call' = [call EXCEPT ![w] = c]
    BY <1>1, <1>2, <1>4, <2>2, OneCall
  <2>4. HoldsVersions(w)' /\ Looping(w)'
    <3>1. c.pc = "read" /\ c.asked = parent /\ c.tries = 0
      BY DEF Idle
    <3>2. c.base \in {parent, head}
      <4> HIDE DEF records
      <4> QED
        BY DEF Idle
    <3> HIDE DEF c
    <3> QED
      BY <1>1, <1>2, <2>3, <3>1, <3>2, BoundAssumption DEF HoldsVersions, Looping
  <2>5. Prepared(w)'
    BY <2>3 DEF Prepared, Idle
  <2>6. Faithful(w)'
    <3>1. /\ call'[w].asked = parent
          /\ call'[w].wants = change
          /\ call'[w].change = MergedChange(parent, change)
          /\ call'[w].base = IF records = {} THEN parent ELSE head
      BY <2>3 DEF Idle
    <3>2. DOMAIN MergedChange(parent, change) = DOMAIN change
      BY DEF MergedChange
    <3>3. CASE records = {}
      <4>1. MergedChange(parent, change) = [p \in DOMAIN change |-> change[p]]
        BY <3>3 DEF MergedChange
      <4>2. MergedChange(parent, change) = change
        BY <1>3, <4>1, ChangeSetElim
      <4> QED
        BY <3>1, <3>3, <4>2 DEF Faithful
    <3>4. CASE records # {}
      <4>1. parent # head
        BY <3>4 DEF Records
      <4>2. ASSUME ~ Mixed(w)', NEW p \in DOMAIN change PROVE MergedAt(w, p)'
        <5>1. p \in records
          BY <1>1, <3>1, <3>4, <4>1, <4>2 DEF Mixed, Records
        <5>2. /\ Absent \notin {change[p], TreeAt(parent)[p], TreeAt(head)[p]}
              /\ CleanFile(TreeAt(parent)[p], TreeAt(head)[p], change[p])
          BY <1>4, <5>1 DEF Records, Mergeable, Parses
        <5>3. MergedChange(parent, change)[p]
                = MergeFile(TreeAt(parent)[p], TreeAt(head)[p], change[p])
          BY <5>1 DEF MergedChange
        <5> QED
          BY <1>1, <3>1, <3>4, <5>2, <5>3 DEF MergedAt
      <4> QED
        BY <3>1, <3>2, <3>4, <4>1, <4>2 DEF Faithful
    <3> QED
      BY <3>3, <3>4
  <2>7. WriterOK(w)'
    BY <2>4, <2>5, <2>6 DEF WriterOK
  <2> QED
    BY <1>1, <1>2, <2>2, <2>3, <2>7, OneCallStep
<1>5. CASE ~ clean
  <2>1. call' = [call EXCEPT ![w] = Idle] /\ call'[w] = Idle
    BY <1>1, <1>2, <1>5, IdleType, OneCall
  <2>2. WriterOK(w)'
    BY <2>1 DEF WriterOK, HoldsVersions, Prepared, Faithful, Looping, Idle, Busy
  <2> QED
    BY <1>1, <1>2, <2>1, <2>2, IdleType, OneCallStep
<1> QED
  BY <1>4, <1>5

(* A step after which the writer waits at a point where it holds nothing   *)
(* but the HEAD it listed.                                                 *)
LEMMA LightStep ==
  ASSUME IInv, NEW w \in Writer, NEW c \in Call, call' = [call EXCEPT ![w] = c],
         UNCHANGED <<store, head, rewinds, acked>>, calls' \in Nat,
         head \in Version,
         c.pc \in {"idle", "gaveup", "autofix", "plan", "resolve"},
         c.pc = "plan" => c.seen \in Version,
         c.pc \in Busy => c.tries < MaxAttempts
  PROVE  IInv'
<1>1. call'[w] = c
  BY OneCall DEF IInv
<1>2. WriterOK(w)'
  BY <1>1 DEF WriterOK, HoldsVersions, Prepared, Faithful, Looping
<1> QED
  BY <1>2, OneCallStep

(* A manual push of the mirror keeps the invariant.                        *)
LEMMA PushDestinationStep ==
  ASSUME IInv, NEW w \in Writer, PushDestination(w)
  PROVE  IInv'
<1> DEFINE c == [Idle EXCEPT !.pc = "autofix"]
<1>1. c \in Call /\ c.pc = "autofix" /\ c.tries < MaxAttempts
  BY IdleType, BoundAssumption DEF Idle, Call, Busy
<1>2. head \in Version /\ calls' \in Nat
  BY DEF PushDestination, Arrive, IInv, TypeOK
<1> QED
  BY <1>1, <1>2, LightStep DEF PushDestination, Arrive

(* Listing the tree keeps the invariant.                                   *)
LEMMA ShapeStep ==
  ASSUME IInv, NEW w \in Writer, Shape(w)
  PROVE  IInv'
<1> DEFINE c == [Idle EXCEPT !.pc = "plan", !.kind = "shape", !.seen = head]
<1>1. head \in Version /\ calls' \in Nat /\ head \in Nat
  BY DEF Shape, Arrive, IInv, TypeOK
<1>2. c \in Call
  BY <1>1, IdleType DEF Call, Busy
<1>3. c.pc = "plan" /\ c.seen = head /\ c.tries < MaxAttempts
  BY BoundAssumption DEF Idle
<1> QED
  BY <1>1, <1>2, <1>3, LightStep DEF Shape, Arrive

(* Reading .gitignore keeps the invariant.                                 *)
LEMMA AutofixStep ==
  ASSUME IInv, NEW w \in Writer, Autofix(w)
  PROVE  IInv'
<1> DEFINE heal == HealPlan(TreeAt(head))
           c == [Idle EXCEPT !.pc = "resolve", !.kind = "heal",
                             !.change = heal]
<1>1. head \in Version /\ calls' \in Nat /\ store \in Seq(Commit)
  BY DEF Autofix, IInv, TypeOK, HoldsVersions, Busy
<1>2. heal \in ChangeSet
  BY <1>1, VersionType, HealPlanType
<1>3. c \in Call
  BY <1>1, <1>2, IdleType DEF Call, Busy
<1>4. c.pc = "resolve" /\ c.tries < MaxAttempts
  BY BoundAssumption DEF Idle
<1>5. Idle \in Call /\ Idle.pc = "idle"
  BY IdleType DEF Idle
<1>6. call' = [call EXCEPT ![w] =
                 IF ~ Formidable(TreeAt(head)) \/ heal = NoChange THEN Idle ELSE c]
      /\ UNCHANGED <<store, head, rewinds, acked>>
  BY DEF Autofix
<1>7. CASE ~ Formidable(TreeAt(head)) \/ heal = NoChange
  BY <1>1, <1>5, <1>6, <1>7, LightStep DEF Busy
<1>8. CASE ~ (~ Formidable(TreeAt(head)) \/ heal = NoChange)
  BY <1>1, <1>3, <1>4, <1>6, <1>8, LightStep
<1> QED
  BY <1>7, <1>8

(* Planning the conversion keeps the invariant.                            *)
LEMMA PlanStep ==
  ASSUME IInv, NEW w \in Writer, Plan(w)
  PROVE  IInv'
<1> DEFINE listed  == TreeAt(call[w].seen)
           ignore  == IF listed[IgnorePath] = Absent THEN Absent ELSE TreeAt(head)[IgnorePath]
           missing == {p \in StarterPath :
                         \/ listed[p] = Absent
                         \/ p = MarkerPath /\ ~ Parses(TreeAt(head)[p])}
           patched == [listed EXCEPT ![IgnorePath] = ignore]
           heal    == HealPlan(patched)
           change  == [p \in missing \cup DOMAIN heal |->
                         IF p \in DOMAIN heal THEN heal[p] ELSE Starter[p]]
           c == [call[w] EXCEPT !.pc = "resolve", !.change = change]
<1>1. /\ head \in Version /\ call[w].seen \in Version /\ calls' \in Nat
      /\ store \in Seq(Commit) /\ call[w] \in Call /\ call[w].tries < MaxAttempts
  BY DEF Plan, IInv, TypeOK, WriterOK, HoldsVersions, Looping, Busy
<1>2. listed \in Tree /\ TreeAt(head) \in Tree
  BY <1>1, VersionType
<1>3. patched \in Tree
  BY <1>2, ScaffoldAssumption DEF Tree, File
<1>4. heal \in ChangeSet
  BY <1>3, HealPlanType
<1>5. change \in ChangeSet
  <2>1. missing \cup DOMAIN heal \in SUBSET Path
    BY <1>4, ChangeSetElim, ScaffoldAssumption
  <2>2. \A p \in missing \cup DOMAIN heal :
          (IF p \in DOMAIN heal THEN heal[p] ELSE Starter[p]) \in File
    BY <1>4, ChangeSetElim, ScaffoldAssumption DEF File
  <2>3. change \in [missing \cup DOMAIN heal -> File]
    BY <2>2
  <2> QED
    BY <2>1, <2>3, ChangeSetIntro
<1> HIDE DEF change
<1>6. c \in Call /\ c.pc = "resolve" /\ c.tries = call[w].tries
  BY <1>1, <1>5 DEF Call, Busy
<1>7. Idle \in Call /\ Idle.pc = "idle"
  BY IdleType DEF Idle
<1>8. call' = [call EXCEPT ![w] = IF change = NoChange THEN Idle ELSE c]
      /\ UNCHANGED <<store, head, rewinds, acked>>
  BY DEF Plan, change
<1>9. CASE change = NoChange
  BY <1>1, <1>7, <1>8, <1>9, LightStep DEF Busy
<1>10. CASE change # NoChange
  BY <1>1, <1>6, <1>8, <1>10, LightStep
<1> QED
  BY <1>9, <1>10

-----------------------------------------------------------------------------
(* The steps of the git manager.                                           *)

(* Resolving the parent keeps the invariant.                               *)
LEMMA ResolveStep ==
  ASSUME IInv, NEW w \in Writer, Resolve(w)
  PROVE  IInv'
<1> DEFINE c == [call[w] EXCEPT !.pc = "read", !.base = head,
                                !.asked = head, !.wants = call[w].change]
<1>1. /\ head \in Version /\ head \in Nat /\ calls' \in Nat
      /\ call[w] \in Call /\ call[w].tries < MaxAttempts /\ TypeOK
  BY DEF Resolve, IInv, TypeOK, WriterOK, HoldsVersions, Looping, Busy
<1>2. c \in Call
  BY <1>1 DEF Call, Busy
<1>3. /\ c.pc = "read" /\ c.base = head /\ c.asked = head
      /\ c.wants = call[w].change /\ c.change = call[w].change
      /\ c.tries = call[w].tries
  BY <1>1 DEF Call
<1>4. call' = [call EXCEPT ![w] = c] /\ UNCHANGED <<store, head, rewinds, acked>>
  BY <1>1 DEF Resolve, TypeOK
<1>5. call'[w] = c
  BY <1>1, <1>2, <1>4, OneCall
<1> HIDE DEF c
<1>6. WriterOK(w)'
  BY <1>1, <1>3, <1>4, <1>5 DEF WriterOK, HoldsVersions, Prepared, Faithful, Looping
<1> QED
  BY <1>1, <1>2, <1>4, <1>6, OneCallStep

(* The top of an attempt keeps the invariant: what it prepares is clean.   *)
LEMMA ReadHeadStep ==
  ASSUME IInv, NEW w \in Writer, ReadHead(w)
  PROVE  IInv'
<1> DEFINE c == [call[w] EXCEPT !.pc = "cas", !.seen = head]
<1>1. /\ head \in Version /\ head \in Nat /\ calls' \in Nat /\ call[w].pc = "read"
      /\ call[w] \in Call /\ call[w].tries < MaxAttempts /\ TypeOK
      /\ {call[w].asked, call[w].base} \subseteq Version
      /\ UNCHANGED <<store, head, rewinds, acked>>
  BY DEF ReadHead, IInv, TypeOK, WriterOK, HoldsVersions, Looping, Busy
<1>2. c \in Call
  BY <1>1 DEF Call, Busy
<1>3. /\ c.pc = "cas" /\ c.seen = head
      /\ c.base = call[w].base /\ c.asked = call[w].asked
      /\ c.wants = call[w].wants /\ c.change = call[w].change
      /\ c.tries = call[w].tries
  BY <1>1 DEF Call
<1>4. CASE /\ call[w].base \in Hist(head)
           /\ CleanTree(TreeAt(call[w].base), TreeAt(head), Yours(w))
  <2>1. call' = [call EXCEPT ![w] = c]
    BY <1>1, <1>4 DEF ReadHead, TypeOK
  <2>2. call'[w] = c
    BY <1>1, <1>2, <2>1, OneCall
  <2> HIDE DEF c
  <2>3. HoldsVersions(w)' /\ Looping(w)'
    BY <1>1, <1>3, <2>2 DEF HoldsVersions, Looping
  <2>4. Yours(w)' = Yours(w) /\ Hist(head)' = Hist(head)
    BY <1>1, <1>3, <2>2 DEF Yours, Hist
  <2>5. Prepared(w)'
    BY <1>1, <1>3, <1>4, <2>2, <2>4 DEF Prepared, Hist
  <2>6. Mixed(w)' = Mixed(w)
    BY <1>1, <1>3, <2>2 DEF Mixed
  <2>7. \A p : MergedAt(w, p)' = MergedAt(w, p)
    BY <1>1, <1>3, <2>2 DEF MergedAt
  <2>8. Faithful(w)'
    BY <1>1, <1>3, <2>2, <2>6, <2>7 DEF IInv, WriterOK, Faithful
  <2> QED
    BY <1>1, <1>2, <2>1, <2>3, <2>5, <2>8, OneCallStep DEF WriterOK
<1>5. CASE ~ /\ call[w].base \in Hist(head)
             /\ CleanTree(TreeAt(call[w].base), TreeAt(head), Yours(w))
  <2>1. call' = [call EXCEPT ![w] = Idle]
    BY <1>1, <1>5 DEF ReadHead, TypeOK
  <2>2. Idle \in Call /\ Idle.pc = "idle" /\ Idle.pc \notin Busy
    BY IdleType DEF Idle, Busy
  <2> QED
    BY <1>1, <2>1, <2>2, LightStep
<1> QED
  BY <1>4, <1>5

(* A failed update-ref keeps the invariant, whatever it failed of.         *)
LEMMA LoseRaceStep ==
  ASSUME IInv, NEW w \in Writer, LoseRace(w)
  PROVE  IInv'
<1> DEFINE tries == call[w].tries + 1
           again == [call[w] EXCEPT !.pc = "read", !.seen = 0, !.tries = tries]
           over  == [Idle EXCEPT !.pc = "gaveup", !.tries = tries]
<1>1. /\ head \in Version /\ head \in Nat /\ calls' \in Nat /\ call[w].pc = "cas"
      /\ call[w] \in Call /\ call[w].tries < MaxAttempts /\ TypeOK
      /\ {call[w].asked, call[w].base} \subseteq Version
      /\ UNCHANGED <<store, head, rewinds, acked>>
      /\ call' = [call EXCEPT ![w] = IF tries < MaxAttempts THEN again ELSE over]
  BY DEF LoseRace, LoseRaceWith, IInv, TypeOK, WriterOK, HoldsVersions, Looping, Busy
<1>2. tries \in 0 .. MaxAttempts
  BY <1>1, BoundAssumption DEF Call
<1> HIDE DEF tries
<1>3. CASE tries < MaxAttempts
  <2>1. again \in Call
    BY <1>1, <1>2 DEF Call, Busy
  <2>2. /\ again.pc = "read" /\ again.tries = tries
        /\ again.base = call[w].base /\ again.asked = call[w].asked
        /\ again.wants = call[w].wants /\ again.change = call[w].change
    BY <1>1 DEF Call
  <2>3. call' = [call EXCEPT ![w] = again]
    BY <1>1, <1>3
  <2>4. call'[w] = again
    BY <1>1, <2>1, <2>3, OneCall
  <2> HIDE DEF again
  <2>5. HoldsVersions(w)' /\ Looping(w)' /\ Prepared(w)'
    BY <1>1, <1>3, <2>2, <2>4 DEF HoldsVersions, Looping, Prepared
  <2>6. Mixed(w)' = Mixed(w)
    BY <1>1, <2>2, <2>4 DEF Mixed
  <2>7. \A p : MergedAt(w, p)' = MergedAt(w, p)
    BY <1>1, <2>2, <2>4 DEF MergedAt
  <2>8. Faithful(w)'
    BY <1>1, <2>2, <2>4, <2>6, <2>7 DEF IInv, WriterOK, Faithful
  <2> QED
    BY <1>1, <2>1, <2>3, <2>5, <2>8, OneCallStep DEF WriterOK
<1>4. CASE ~ (tries < MaxAttempts)
  <2>1. over \in Call
    BY <1>2, IdleType DEF Call
  <2>2. over.pc = "gaveup" /\ over.pc \notin Busy
    BY DEF Idle, Busy
  <2>3. call' = [call EXCEPT ![w] = over]
    BY <1>1, <1>4
  <2> HIDE DEF over
  <2> QED
    BY <1>1, <2>1, <2>2, <2>3, LightStep
<1> QED
  BY <1>3, <1>4

-----------------------------------------------------------------------------
(* The steps that add to the store.                                        *)

(* Old versions keep their histories.                                      *)
LEMMA HistKept ==
  ASSUME store \in Seq(Commit), Grows, NEW v \in Version \cup {0}
  PROVE  Hist(v)' = Hist(v)
BY VersionType DEF Grows, Hist

(* The history of a new version that follows one or two old ones and one   *)
(* new one is a history.                                                   *)
LEMMA NewHistory ==
  ASSUME TypeOK, HistoryOK, Grows,
         \A v \in Version' \ Version :
           /\ v \in Hist(v)'
           /\ Hist(v)' \subseteq 1 .. v
           /\ \A u \in Hist(v)' : Hist(u)' \subseteq Hist(v)'
  PROVE  HistoryOK'
<1>1. store \in Seq(Commit)
  BY DEF TypeOK
<1>2. ASSUME NEW v \in Version
      PROVE  /\ v \in Hist(v)'
             /\ Hist(v)' \subseteq 1 .. v
             /\ \A u \in Hist(v)' : Hist(u)' \subseteq Hist(v)'
  <2>1. Hist(v) \subseteq Version
    BY <1>1, VersionType DEF HistoryOK
  <2>2. \A u \in Hist(v) \cup {v} : Hist(u)' = Hist(u)
    BY <1>1, <2>1, HistKept
  <2> QED
    BY <2>2 DEF HistoryOK
<1> QED
  BY <1>2 DEF HistoryOK

(* Someone else's commit on `on`, or on nothing.                           *)
LEMMA OneCommit ==
  ASSUME TypeOK, HistoryOK, NEW on \in Version \cup {0}, NEW tree \in Tree,
         NEW n, n = Len(store) + 1,
         store' = Append(store, [hist |-> Hist(on) \cup {n}, tree |-> tree])
  PROVE  /\ Grows /\ HistoryOK'
         /\ n \in Version'
         /\ Hist(n)' = Hist(on) \cup {n}
<1> DEFINE c == [hist |-> Hist(on) \cup {n}, tree |-> tree]
<1>1. store \in Seq(Commit) /\ Len(store) \in Nat /\ n \in Nat
  BY DEF TypeOK
<1>2. Hist(on) \subseteq 1 .. Len(store)
  BY <1>1, VersionType DEF HistoryOK, Hist
<1>3. c \in Commit
  <2>1. Hist(on) \cup {n} \subseteq Nat
    BY <1>1, <1>2
  <2> QED
    BY <2>1 DEF Commit
<1>4. /\ store' \in Seq(Commit) /\ Len(store') = n
      /\ \A v \in 1 .. Len(store) : store'[v] = store[v]
      /\ store'[n] = c
  BY <1>1, <1>3, AppendProperties
<1>5. Version = 1 .. Len(store) /\ Version' = 1 .. n
  BY <1>1, <1>4
<1>6. Grows
  BY <1>1, <1>4, <1>5 DEF Grows
<1>7. Hist(n)' = Hist(on) \cup {n} /\ n # 0
  BY <1>1, <1>4 DEF Hist
<1>8. \A u \in Hist(on) : Hist(u)' = Hist(u) /\ Hist(u) \subseteq Hist(on)
  <2>1. CASE on = 0
    BY <2>1 DEF Hist
  <2>2. CASE on \in Version
    BY <1>1, <1>2, <1>5, <1>6, <2>2, HistKept DEF HistoryOK
  <2> QED
    BY <2>1, <2>2
<1>9. HistoryOK'
  <2>1. Hist(n)' \subseteq 1 .. n
    BY <1>1, <1>2, <1>7
  <2>2. \A u \in Hist(n)' : Hist(u)' \subseteq Hist(n)'
    BY <1>7, <1>8
  <2> QED
    BY <1>1, <1>5, <1>6, <1>7, <2>1, <2>2, NewHistory
<1> QED
  BY <1>5, <1>6, <1>7, <1>9

(* A step that adds to the store, and moves at most one writer.            *)
LEMMA GrowthStep ==
  ASSUME IInv, Grows, HistoryOK', head' \in Version', call' \in [Writer -> Call],
         \A w \in Writer : call'[w] = call[w] \/ WriterOK(w)',
         rewinds' \in Nat, acked' \in Seq(Nat), calls' \in Nat
  PROVE  IInv'
<1>1. ASSUME NEW w \in Writer PROVE WriterOK(w)'
  BY Unmoved DEF IInv
<1>2. TypeOK'
  BY <1>1 DEF TypeOK, WriterOK, Grows
<1> QED
  BY <1>1, <1>2 DEF IInv

(* A fast-forward push keeps the invariant.                                *)
LEMMA PushStep ==
  ASSUME IInv, NEW tree \in PushTree, Push(tree)
  PROVE  IInv' /\ Grows /\ Hist(head) \subseteq Hist(head)'
<1>1. /\ TypeOK /\ HistoryOK /\ tree \in Tree /\ head \in Version \cup {0}
      /\ store \in Seq(Commit)
  BY RequestAssumption DEF IInv, TypeOK
<1>8. PICK n : n = Len(store) + 1
  OBVIOUS
<1>9. PICK on : on = head
  OBVIOUS
<1>2. /\ store' = Append(store, [hist |-> Hist(on) \cup {n}, tree |-> tree])
      /\ head' = n
      /\ rewinds' \in Nat /\ acked' \in Seq(Nat) /\ calls' \in Nat
      /\ call' = call /\ call' \in [Writer -> Call]
  BY <1>1, <1>8, <1>9 DEF Push, TypeOK
<1>3. /\ Grows /\ HistoryOK' /\ head' \in Version'
      /\ Hist(n)' = Hist(on) \cup {n}
  BY <1>1, <1>8, <1>9, <1>2, OneCommit
<1>4. IInv'
  BY <1>2, <1>3, GrowthStep
<1>5. Hist(head)' = Hist(n)'
  BY <1>2 DEF Hist
<1> QED
  BY <1>9, <1>3, <1>4, <1>5

(* A forced push or a pull keeps the invariant.                            *)
LEMMA RewindStep ==
  ASSUME IInv, Rewind
  PROVE  IInv' /\ Grows
<1>1. /\ TypeOK /\ HistoryOK /\ store \in Seq(Commit)
      /\ rewinds' \in Nat /\ acked' \in Seq(Nat) /\ calls' \in Nat
      /\ call' = call /\ call' \in [Writer -> Call]
  BY DEF IInv, TypeOK, Rewind
<1>2. CASE head' \in Version \ {head} /\ UNCHANGED store
  <2>1. Grows /\ HistoryOK' /\ head' \in Version'
    BY <1>1, <1>2 DEF Grows, HistoryOK, Hist
  <2> QED
    BY <1>1, <2>1, GrowthStep
<1>3. CASE \E on \in Version \cup {0}, tree \in PushTree :
             LET n == Len(store) + 1 IN
             /\ store' = Append(store, [hist |-> Hist(on) \cup {n}, tree |-> tree])
             /\ head' = n
  <2>7. PICK n : n = Len(store) + 1
    OBVIOUS
  <2>1. PICK on \in Version \cup {0}, tree \in PushTree :
             /\ store' = Append(store, [hist |-> Hist(on) \cup {n}, tree |-> tree])
             /\ head' = n
    BY <1>3, <2>7
  <2>2. Grows /\ HistoryOK' /\ head' \in Version'
    BY <1>1, <2>7, <2>1, RequestAssumption, OneCommit
  <2> QED
    BY <1>1, <2>2, GrowthStep
<1> QED
  BY <1>2, <1>3 DEF Rewind

(* What a publication prepared at the present HEAD.                        *)
LEMMA PreparedAtHead ==
  ASSUME IInv, NEW w \in Writer, Publish(w)
  PROVE  /\ TypeOK /\ HistoryOK /\ store \in Seq(Commit)
         /\ call[w].pc = "cas" /\ call[w].seen = head /\ head \in Version
         /\ {call[w].asked, call[w].base} \subseteq Version
         /\ call[w].base \in Hist(head)
         /\ CleanTree(TreeAt(call[w].base), TreeAt(head), Yours(w))
         /\ TreeAt(head) \in Tree /\ TreeAt(call[w].base) \in Tree /\ Yours(w) \in Tree
         /\ MergeTree(TreeAt(call[w].base), TreeAt(head), Yours(w)) \in Tree
<1>1. /\ TypeOK /\ HistoryOK /\ store \in Seq(Commit) /\ call[w] \in Call
      /\ call[w].pc = "cas" /\ call[w].seen = head /\ WriterOK(w)
  BY DEF IInv, TypeOK, Publish, PublishAnyway
<1>2. /\ head \in Version
      /\ {call[w].asked, call[w].base} \subseteq Version
      /\ call[w].base \in Hist(head)
      /\ CleanTree(TreeAt(call[w].base), TreeAt(head), Yours(w))
  BY <1>1 DEF WriterOK, HoldsVersions, Prepared
<1>3. TreeAt(head) \in Tree /\ TreeAt(call[w].base) \in Tree
  BY <1>1, <1>2, VersionType
<1>4. call[w].change \in ChangeSet
  BY <1>1 DEF Call
<1>5. Yours(w) \in Tree
  BY <1>3, <1>4, ApplyType DEF Yours
<1> QED
  BY <1>1, <1>2, <1>3, <1>5, MergeTreeType

(* The store after a publication: the branch takes the merge of the client *)
(* tree into HEAD, and its history gains the client commit and the merge   *)
(* commit, which are one and the same when the parent was HEAD.            *)
LEMMA Published ==
  ASSUME IInv, NEW w \in Writer, Publish(w), NEW n, n = Len(store) + 1, NEW m, m = head'
  PROVE  /\ Grows /\ n \in Version' /\ m \in Version'
         /\ Version' = Version \cup {n, m}
         /\ store'[n].tree = Yours(w)
         /\ store'[m].tree = MergeTree(TreeAt(call[w].base), TreeAt(head), Yours(w))
         /\ store'[n].hist = Hist(call[w].base) \cup {n}
         /\ store'[m].hist = Hist(head) \cup {n, m}
<1> DEFINE base == call[w].base
           new  == MergeTree(TreeAt(base), TreeAt(head), Yours(w))
           client == [hist |-> Hist(base) \cup {n}, tree |-> Yours(w)]
           merge  == [hist |-> Hist(head) \cup client.hist \cup {n + 1}, tree |-> new]
<1>1. /\ TypeOK /\ HistoryOK /\ store \in Seq(Commit)
      /\ call[w].pc = "cas" /\ call[w].seen = head /\ head \in Version
      /\ base \in Version /\ base \in Hist(head)
      /\ TreeAt(base) \in Tree /\ Yours(w) \in Tree /\ new \in Tree
  BY PreparedAtHead
<1>2. /\ Hist(head) \in SUBSET Nat /\ Hist(base) \in SUBSET Nat
      /\ Hist(base) \subseteq Hist(head) /\ Len(store) \in Nat /\ n \in Nat
  BY <1>1, VersionType DEF HistoryOK
<1>3. client \in Commit
  BY <1>1, <1>2 DEF Commit
<1>4. merge \in Commit
  <2>1. Hist(head) \cup client.hist \cup {n + 1} \in SUBSET Nat
    BY <1>2
  <2> QED
    BY <1>1, <2>1 DEF Commit
<1>5. Candidate(w) = IF base = head THEN <<client>> ELSE <<client, merge>>
  BY <1>1 DEF Candidate, CandidateWith
<1> HIDE DEF client, merge, new
<1>6. Candidate(w) \in Seq(Commit)
  BY <1>3, <1>4, <1>5
<1>7. /\ store' \in Seq(Commit)
      /\ Len(store') = (IF base = head THEN n ELSE n + 1)
      /\ head' = Len(store')
      /\ \A v \in Version : store'[v] = store[v]
      /\ store'[n] = [hist |-> Hist(base) \cup {n}, tree |-> Yours(w)]
      /\ base # head =>
           store'[n + 1] = [hist |-> Hist(head) \cup Hist(base) \cup {n} \cup {n + 1},
                            tree |-> new]
  BY <1>1, <1>6, PublishedStore DEF Publish, new
<1>8. /\ Version = 1 .. Len(store)
      /\ Version' = 1 .. m
      /\ m = IF base = head THEN n ELSE n + 1
  BY <1>1, <1>7
<1>9. Version' = Version \cup {n, m}
  BY <1>2, <1>8
<1>10. Grows
  BY <1>2, <1>7, <1>8, <1>9 DEF Grows
<1>11. store'[n].tree = Yours(w) /\ store'[n].hist = Hist(base) \cup {n}
  BY <1>7
<1>12. CASE base = head
  <2>1. new = Yours(w)
    BY <1>1, <1>12, FastForwardIsMerge DEF new
  <2> QED
    BY <1>8, <1>9, <1>10, <1>11, <1>12, <2>1 DEF new
<1>13. CASE base # head
  <2>1. /\ store'[m].tree = new
        /\ store'[m].hist = Hist(head) \cup Hist(base) \cup {n} \cup {n + 1}
    BY <1>7, <1>8, <1>13
  <2>2. Hist(head) \cup Hist(base) \cup {n} \cup {n + 1} = Hist(head) \cup {n, m}
    BY <1>2, <1>8, <1>13
  <2> QED
    BY <1>9, <1>10, <1>11, <2>1, <2>2 DEF new
<1> QED
  BY <1>12, <1>13

(* Publishing keeps the invariant: the candidate's history holds HEAD's.   *)
LEMMA PublishStep ==
  ASSUME IInv, NEW w \in Writer, Publish(w)
  PROVE  IInv' /\ Grows /\ Hist(head) \subseteq Hist(head)' /\ head' \in Hist(head)'
<1>1. PICK n : n = Len(store) + 1
  OBVIOUS
<1>2. PICK m : m = head'
  OBVIOUS
<1>3. PICK base : base = call[w].base
  OBVIOUS
<1>4. PICK old : old = head
  OBVIOUS
<1>5. /\ TypeOK /\ HistoryOK /\ store \in Seq(Commit)
      /\ call[w].pc = "cas" /\ old \in Version /\ base \in Version /\ base \in Hist(old)
  BY <1>3, <1>4, PreparedAtHead
<1>6. /\ Grows /\ n \in Version' /\ m \in Version'
      /\ Version' = Version \cup {n, m}
      /\ store'[n].hist = Hist(base) \cup {n}
      /\ store'[m].hist = Hist(old) \cup {n, m}
  BY <1>1, <1>2, <1>3, <1>4, Published
<1>7. n \in Nat /\ m \in Nat /\ n # 0 /\ m # 0 /\ n <= m
  <2>1. store' \in Seq(Commit) /\ Len(store') = m
    BY <1>2, <1>6 DEF Grows, Publish, PublishAnyway
  <2>2. Version' = 1 .. m /\ m \in Nat
    BY <2>1
  <2>3. n \in 1 .. m /\ m \in 1 .. m
    BY <1>6, <2>2
  <2> QED
    BY <2>2, <2>3
<1>8. Hist(n)' = Hist(base) \cup {n} /\ Hist(m)' = Hist(old) \cup {n, m}
  BY <1>6, <1>7 DEF Hist
<1>9. Hist(base) \subseteq Hist(old) /\ Hist(old) \subseteq 1 .. Len(store)
  BY <1>5, VersionType DEF HistoryOK
<1>10. \A u \in Hist(old) : Hist(u)' = Hist(u) /\ Hist(u) \subseteq Hist(old)
  BY <1>5, <1>6, <1>9, HistKept DEF HistoryOK
<1>11. \A u \in Hist(base) : Hist(u)' = Hist(u) /\ Hist(u) \subseteq Hist(base)
  BY <1>5, <1>9, <1>10 DEF HistoryOK
<1>12. HistoryOK'
  <2>1. ASSUME NEW v \in {n, m}
        PROVE  /\ v \in Hist(v)'
               /\ Hist(v)' \subseteq 1 .. v
               /\ \A u \in Hist(v)' : Hist(u)' \subseteq Hist(v)'
    <3>1. Len(store) \in Nat /\ n = Len(store) + 1
      BY <1>1, <1>5
    <3>2. v \in Hist(v)' /\ Hist(v)' \subseteq 1 .. v
      BY <1>7, <1>8, <1>9, <3>1
    <3>3. \A u \in Hist(v)' : Hist(u)' \subseteq Hist(v)'
      BY <1>8, <1>9, <1>10, <1>11
    <3> QED
      BY <3>2, <3>3
  <2> QED
    BY <1>5, <1>6, <2>1, NewHistory
<1>13. /\ head' \in Version' /\ rewinds' \in Nat
       /\ acked' \in Seq(Nat) /\ calls' \in Nat
  BY <1>2, <1>5, <1>6, <1>7 DEF Publish, PublishAnyway, TypeOK
<1>14. call' \in [Writer -> Call] /\ \A u \in Writer : call'[u] = call[u] \/ WriterOK(u)'
  <2>1. PICK c : c = IF call[w].kind = "client" THEN [Idle EXCEPT !.pc = "autofix"] ELSE Idle
    OBVIOUS
  <2>2. /\ c \in Call /\ c.pc \in {"autofix", "idle"} /\ c.tries < MaxAttempts
        /\ call' = [call EXCEPT ![w] = c]
    BY <2>1, IdleType, BoundAssumption DEF Idle, Call, Busy, Publish, PublishAnyway
  <2>3. /\ call' \in [Writer -> Call] /\ call'[w] = c
        /\ \A u \in Writer \ {w} : call'[u] = call[u]
    BY <1>5, <2>2, OneCall
  <2>4. WriterOK(w)'
    BY <1>13, <2>2, <2>3 DEF WriterOK, HoldsVersions, Prepared, Faithful, Looping
  <2> QED
    BY <2>3, <2>4
<1>15. IInv'
  BY <1>6, <1>12, <1>13, <1>14, GrowthStep
<1>16. Hist(head)' = Hist(m)'
  BY <1>2 DEF Hist
<1> QED
  BY <1>4, <1>2, <1>6, <1>8, <1>15, <1>16

-----------------------------------------------------------------------------
(* The theorems.                                                           *)

(* The invariant holds of an empty repository.                             *)
LEMMA InvInit == Init => IInv
<1> SUFFICES ASSUME Init PROVE IInv
  OBVIOUS
<1>1. store = <<>> /\ store \in Seq(Commit) /\ Version = {} /\ Len(store) = 0
  BY DEF Init
<1>2. \A w \in Writer : call[w] = Idle /\ Idle.pc = "idle"
  BY DEF Init, Idle
<1>3. call \in [Writer -> Call] /\ acked \in Seq(Nat)
  BY IdleType DEF Init
<1>4. \A w \in Writer : WriterOK(w)
  BY <1>2 DEF WriterOK, HoldsVersions, Prepared, Faithful, Looping, Busy
<1>5. TypeOK
  BY <1>1, <1>3, <1>4 DEF TypeOK, WriterOK, Init
<1> QED
  BY <1>1, <1>4, <1>5 DEF IInv, HistoryOK

(* The invariant is a predicate of the variables.                          *)
LEMMA InvStutter ==
  ASSUME IInv, UNCHANGED vars
  PROVE  IInv' /\ Grows
<1>1. /\ UNCHANGED <<store, head, rewinds, acked, call, calls>>
      /\ TypeOK /\ HistoryOK /\ \A w \in Writer : WriterOK(w)
  BY DEF vars, IInv
<1>2. HistoryOK'
  BY <1>1 DEF HistoryOK, Hist
<1>3. \A w \in Writer : WriterOK(w)'
  BY <1>1 DEF WriterOK, HoldsVersions, Prepared, Faithful, Looping, Mixed, MergedAt,
              Yours, Hist
<1>4. TypeOK'
  BY <1>1, <1>3 DEF TypeOK, WriterOK
<1> QED
  BY <1>1, <1>2, <1>3, <1>4 DEF IInv, Grows, TypeOK

(* Every step keeps the invariant.                                         *)
LEMMA InvNext ==
  ASSUME IInv, [Next]_vars
  PROVE  IInv'
<1>1. ASSUME NEW w \in Writer, NEW parent \in Version, NEW change \in Request,
             Submit(w, parent, change)
      PROVE  IInv'
  BY <1>1, SubmitStep
<1>2. ASSUME NEW w \in Writer, PushDestination(w) PROVE IInv'
  BY <1>2, PushDestinationStep
<1>3. ASSUME NEW w \in Writer, Shape(w) PROVE IInv'
  BY <1>3, ShapeStep
<1>4. ASSUME NEW w \in Writer, Autofix(w) PROVE IInv'
  BY <1>4, AutofixStep
<1>5. ASSUME NEW w \in Writer, Plan(w) PROVE IInv'
  BY <1>5, PlanStep
<1>6. ASSUME NEW w \in Writer, Resolve(w) PROVE IInv'
  BY <1>6, ResolveStep
<1>7. ASSUME NEW w \in Writer, ReadHead(w) PROVE IInv'
  BY <1>7, ReadHeadStep
<1>8. ASSUME NEW w \in Writer, Publish(w) PROVE IInv'
  BY <1>8, PublishStep
<1>9. ASSUME NEW w \in Writer, LoseRace(w) PROVE IInv'
  BY <1>9, LoseRaceStep
<1>10. ASSUME NEW tree \in PushTree, Push(tree) PROVE IInv'
  BY <1>10, PushStep
<1>11. CASE Rewind
  BY <1>11, RewindStep
<1>12. CASE UNCHANGED vars
  BY <1>12, InvStutter
<1> QED
  BY <1>1, <1>2, <1>3, <1>4, <1>5, <1>6, <1>7, <1>8, <1>9, <1>10, <1>11, <1>12 DEF Next

(* Every behaviour keeps the inductive invariant.                          *)
THEOREM Invariant == Spec => []IInv
BY InvInit, InvNext, PTL DEF Spec

(* Type correctness: every version a request works on is a commit of the   *)
(* repository.                                                             *)
THEOREM TypeCorrect == Spec => []TypeOK
<1>1. IInv => TypeOK
  BY DEF IInv
<1> QED
  BY <1>1, Invariant, PTL

-----------------------------------------------------------------------------
(* Acknowledged writes.                                                    *)

(* What a step that publishes nothing does to the branch: nothing, unless  *)
(* somebody pushes or pulls.                                               *)
LEMMA StepKinds ==
  ASSUME [Next]_vars
  PROVE  \/ UNCHANGED <<store, head, rewinds, acked>>
         \/ \E w \in Writer : Publish(w)
         \/ \E tree \in PushTree : Push(tree)
         \/ Rewind
BY DEF Next, vars, Submit, PushDestination, Shape, Autofix, Plan, Resolve, ReadHead,
       LoseRace, LoseRaceWith, Arrive

(* Only a forced push or a pull takes a version out of the branch's        *)
(* history.                                                                *)
LEMMA HistoryKept ==
  ASSUME IInv, [Next]_vars, rewinds' = rewinds
  PROVE  Hist(head) \subseteq Hist(head)'
<1>1. CASE UNCHANGED <<store, head, rewinds, acked>>
  BY <1>1 DEF Hist
<1>2. CASE \E w \in Writer : Publish(w)
  BY <1>2, PublishStep
<1>3. CASE \E tree \in PushTree : Push(tree)
  BY <1>3, PushStep
<1>4. ~ Rewind
  BY DEF Rewind, IInv, TypeOK
<1> QED
  BY <1>1, <1>2, <1>3, <1>4, StepKinds

(* No acknowledged write is lost: the version a client was answered stays  *)
(* in the branch's history until the history itself is replaced.           *)
THEOREM AckedWritesSurvive == Spec => []AckedSurvive
<1>1. Init => AckedSurvive
  BY DEF Init, AckedSurvive
<1>2. ASSUME IInv, AckedSurvive, [Next]_vars PROVE AckedSurvive'
  <2>1. /\ rewinds \in Nat /\ acked \in Seq(Nat) /\ rewinds' \in {rewinds, rewinds + 1}
    BY <1>2, StepKinds DEF IInv, TypeOK, Publish, PublishAnyway, Push, Rewind
  <2> SUFFICES ASSUME rewinds' = 0
               PROVE  \A i \in DOMAIN acked' : acked'[i] \in Hist(head)'
    BY DEF AckedSurvive
  <2>2. rewinds' = rewinds /\ rewinds = 0
    BY <2>1
  <2>3. Hist(head) \subseteq Hist(head)'
    BY <1>2, <2>2, HistoryKept
  <2>4. \A i \in DOMAIN acked : acked[i] \in Hist(head)'
    BY <1>2, <2>2, <2>3 DEF AckedSurvive
  <2>5. CASE UNCHANGED acked
    BY <2>4, <2>5
  <2>6. CASE \E w \in Writer : Publish(w)
    <3>1. acked' = Append(acked, head') /\ head' \in Nat
      BY <1>2, <2>6, PublishStep DEF Publish, PublishAnyway, IInv, TypeOK
    <3>2. head' \in Hist(head)'
      BY <1>2, <2>6, PublishStep
    <3>3. \A i \in DOMAIN acked' : acked'[i] = head' \/ (i \in DOMAIN acked /\ acked'[i] = acked[i])
      BY <2>1, <3>1
    <3> QED
      BY <2>4, <3>2, <3>3
  <2> QED
    BY <1>2, <2>5, <2>6, StepKinds DEF Push, Rewind
<1> QED
  BY <1>1, <1>2, Invariant, PTL DEF Spec

-----------------------------------------------------------------------------
(* Lost updates.                                                           *)

(* One merge keeps what the other side changed.                            *)
LEMMA MergeKeeps ==
  ASSUME NEW base \in File, NEW theirs \in File, NEW yours \in File,
         CleanFile(base, theirs, yours)
  PROVE  KeepsTheirs(base, theirs, yours, MergeFile(base, theirs, yours))
<1>1. CASE Absent \in {base, theirs, yours}
  BY <1>1 DEF CleanFile, Agree, MergeFile, Pick, KeepsTheirs
<1>2. CASE Absent \notin {base, theirs, yours}
  <2>1. {base, theirs, yours} \subseteq [Hunk -> Text]
    BY <1>2 DEF File
  <2>2. CASE Agree(base, theirs, yours)
    BY <1>2, <2>2 DEF Agree, MergeFile, Pick, KeepsTheirs
  <2>3. CASE ~ Agree(base, theirs, yours)
    <3> DEFINE new == [h \in Hunk |-> Pick(base[h], theirs[h], yours[h])]
    <3>1. MergeFile(base, theirs, yours) = new
      BY <2>3 DEF MergeFile
    <3>2. new \in [Hunk -> Text]
      BY <2>1 DEF Pick
    <3>3. ASSUME NEW h \in Hunk
          PROVE  theirs[h] \in {base[h], yours[h]} \/ new[h] = theirs[h]
      BY <1>2, <2>3 DEF CleanFile, Agree, Pick
    <3> QED
      BY <1>2, <3>1, <3>2, <3>3, AbsentAssumption DEF KeepsTheirs
  <2> QED
    BY <2>2, <2>3
<1> QED
  BY <1>1, <1>2

(* Two merges in a row keep it too: a record merged into one HEAD, and the *)
(* outcome merged into a later HEAD.  `asked` is what the client edited,   *)
(* `base` the HEAD of the first merge, `theirs` that of the second.        *)
LEMMA MergesCompose ==
  ASSUME NEW asked \in File, NEW base \in File, NEW theirs \in File, NEW wants \in File,
         Absent \notin {asked, base, wants},
         CleanFile(asked, base, wants),
         NEW yours, yours = MergeFile(asked, base, wants),
         CleanFile(base, theirs, yours)
  PROVE  KeepsTheirs(asked, theirs, wants, MergeFile(base, theirs, yours))
<1>1. {asked, base, wants} \subseteq [Hunk -> Text]
  BY DEF File
<1>2. \A h \in Hunk : /\ Agree(asked[h], base[h], wants[h])
                       /\ yours[h] = Pick(asked[h], base[h], wants[h])
  BY DEF CleanFile, Agree, MergeFile, Pick
<1>3. yours \in [Hunk -> Text]
  BY <1>1 DEF MergeFile, Pick
<1>4. CASE theirs = Absent
  <2>1. MergeFile(base, theirs, yours) = theirs
    BY <1>1, <1>3, <1>4, AbsentAssumption DEF CleanFile, Agree, MergeFile, Pick
  <2> QED
    BY <1>4, <2>1 DEF KeepsTheirs
<1>5. CASE theirs # Absent
  <2>1. theirs \in [Hunk -> Text]
    BY <1>5 DEF File
  <2> DEFINE new == MergeFile(base, theirs, yours)
  <2>2. \A h \in Hunk : /\ Agree(base[h], theirs[h], yours[h])
                         /\ new[h] = Pick(base[h], theirs[h], yours[h])
    BY DEF CleanFile, Agree, MergeFile, Pick
  <2>3. new \in [Hunk -> Text]
    BY <1>1, <1>3, <2>1 DEF MergeFile, Pick
  <2> HIDE DEF new
  <2>4. ASSUME NEW h \in Hunk
        PROVE  theirs[h] \in {asked[h], wants[h]} \/ new[h] = theirs[h]
    BY <1>2, <2>2 DEF Agree, Pick
  <2> QED
    BY <1>5, <2>3, <2>4, AbsentAssumption DEF KeepsTheirs, new
<1> QED
  BY <1>4, <1>5

(* What a call publishes keeps everybody else's changes.                   *)
LEMMA PublishKeeps ==
  ASSUME IInv, NEW w \in Writer, Publish(w), ~ Mixed(w)
  PROVE  ~ Overwrites(w)
<1> DEFINE base  == call[w].base
           asked == call[w].asked
           wants == call[w].wants
           new   == MergeTree(TreeAt(base), TreeAt(head), Yours(w))
<1>1. /\ TypeOK /\ store \in Seq(Commit) /\ call[w].pc = "cas"
      /\ head \in Version /\ asked \in Version /\ base \in Version
      /\ CleanTree(TreeAt(base), TreeAt(head), Yours(w))
      /\ Yours(w) \in Tree
  BY PreparedAtHead
<1>2. /\ TreeAt(asked) \in Tree /\ TreeAt(base) \in Tree /\ TreeAt(head) \in Tree
  BY <1>1, VersionType
<1>3. store'[head'].tree = new
  <2>1. PICK n : n = Len(store) + 1
    OBVIOUS
  <2>2. PICK m : m = head'
    OBVIOUS
  <2> QED
    BY <2>1, <2>2, Published
<1>4. /\ DOMAIN call[w].change = DOMAIN wants
      /\ base = asked => call[w].change = wants
      /\ base # asked => \A p \in DOMAIN wants : MergedAt(w, p)
  BY <1>1 DEF IInv, WriterOK, Faithful
<1>5. wants \in ChangeSet /\ call[w].change \in ChangeSet
  BY <1>1 DEF TypeOK, Call
<1>6. ASSUME NEW p \in Path
      PROVE  KeepsTheirs(TreeAt(asked)[p], TreeAt(head)[p],
                         Apply(TreeAt(asked), wants)[p], new[p])
  <2>1. /\ TreeAt(asked)[p] \in File /\ TreeAt(base)[p] \in File
        /\ TreeAt(head)[p] \in File /\ Yours(w)[p] \in File
        /\ CleanFile(TreeAt(base)[p], TreeAt(head)[p], Yours(w)[p])
        /\ new[p] = MergeFile(TreeAt(base)[p], TreeAt(head)[p], Yours(w)[p])
    BY <1>1, <1>2 DEF Tree, CleanTree, MergeTree
  <2>2. CASE base = asked
    <3>1. Yours(w)[p] = Apply(TreeAt(asked), wants)[p]
      BY <1>4, <2>2 DEF Yours
    <3> QED
      BY <2>1, <2>2, <3>1, MergeKeeps
  <2>3. CASE base # asked /\ p \in DOMAIN wants
    <3>1. MergedAt(w, p)
      BY <1>4, <2>3
    <3>2. /\ Yours(w)[p] = MergeFile(TreeAt(asked)[p], TreeAt(base)[p], wants[p])
          /\ Apply(TreeAt(asked), wants)[p] = wants[p]
          /\ wants[p] \in File
      BY <1>4, <1>5, <2>3, <3>1, ChangeSetElim DEF Yours, Apply, MergedAt
    <3> QED
      BY <2>1, <3>1, <3>2, MergesCompose DEF MergedAt
  <2>4. CASE base # asked /\ p \notin DOMAIN wants
    <3>1. /\ Yours(w)[p] = TreeAt(base)[p]
          /\ Apply(TreeAt(asked), wants)[p] = TreeAt(asked)[p]
      BY <1>4, <2>4 DEF Yours, Apply
    <3>2. new[p] = TreeAt(head)[p]
      BY <2>1, <3>1, MergeUntouched
    <3> QED
      BY <3>1, <3>2 DEF KeepsTheirs
  <2> QED
    BY <2>2, <2>3, <2>4
<1> QED
  BY <1>3, <1>6 DEF Overwrites

(* What a call publishes has its own changes too: merging a file keeps the *)
(* changes of both sides.                                                  *)
LEMMA PublishLands ==
  ASSUME IInv, NEW w \in Writer, Publish(w)
  PROVE  Lands(w)
<1> SUFFICES ASSUME NEW p \in Path
             PROVE  KeepsTheirs(TreeAt(call[w].base)[p], Yours(w)[p], TreeAt(head)[p],
                                store'[head'].tree[p])
  BY DEF Lands
<1> DEFINE base == TreeAt(call[w].base)
<1>1. /\ CleanTree(base, TreeAt(head), Yours(w))
      /\ base \in Tree /\ TreeAt(head) \in Tree /\ Yours(w) \in Tree
  BY PreparedAtHead
<1>2. store'[head'].tree = MergeTree(base, TreeAt(head), Yours(w))
  <2>1. PICK n : n = Len(store) + 1
    OBVIOUS
  <2>2. PICK m : m = head'
    OBVIOUS
  <2> QED
    BY <2>1, <2>2, Published
<1> HIDE DEF base
<1>3. /\ base[p] \in File /\ TreeAt(head)[p] \in File /\ Yours(w)[p] \in File
      /\ CleanFile(base[p], TreeAt(head)[p], Yours(w)[p])
      /\ store'[head'].tree[p] = MergeFile(base[p], TreeAt(head)[p], Yours(w)[p])
  BY <1>1, <1>2 DEF Tree, CleanTree, MergeTree
<1>4. /\ CleanFile(base[p], Yours(w)[p], TreeAt(head)[p])
      /\ store'[head'].tree[p] = MergeFile(base[p], Yours(w)[p], TreeAt(head)[p])
  BY <1>3, MergeFileCommutes
<1> QED
  BY <1>3, <1>4, MergeKeeps DEF base

(* A publication keeps the edits of both sides: those of the writer, and   *)
(* those of everybody else since the version it names as its parent,       *)
(* unless a client's change set mixes merged records with other paths.     *)
THEOREM WritesKeepBothSides == Spec => BothSidesKept
<1>1. ASSUME IInv, [Next]_vars
      PROVE  [\A w \in Writer :
                Publish(w) => Lands(w) /\ (Mixed(w) \/ ~ Overwrites(w))]_vars
  BY <1>1, PublishKeeps, PublishLands
<1> QED
  BY <1>1, Invariant, PTL DEF Spec, BothSidesKept

-----------------------------------------------------------------------------
(* Where a call can go.                                                    *)

(* A call changes by its own handler's steps only.                         *)
LEMMA OwnStep ==
  ASSUME TypeOK, [Next]_vars, NEW w \in Writer
  PROVE  \/ call'[w] = call[w]
         \/ Server(w)
         \/ \E parent \in Version, change \in Request : Submit(w, parent, change)
         \/ PushDestination(w)
         \/ Shape(w)
<1>1. call \in [Writer -> Call]
  BY DEF TypeOK
<1>2. CASE UNCHANGED vars
  BY <1>2 DEF vars
<1>3. ASSUME NEW u \in Writer, u # w,
             \/ Server(u)
             \/ \E parent \in Version, change \in Request : Submit(u, parent, change)
             \/ PushDestination(u)
             \/ Shape(u)
      PROVE  call'[w] = call[w]
  <2>1. CASE Server(u)
    BY <1>1, <1>3, <2>1 DEF Server, Autofix, Plan, Resolve, ReadHead, Publish, PublishAnyway,
                            LoseRace, LoseRaceWith
  <2>2. CASE ~ Server(u)
    BY <1>1, <1>3, <2>2 DEF Submit, PushDestination, Shape
  <2> QED
    BY <2>1, <2>2
<1>4. CASE (\E tree \in PushTree : Push(tree)) \/ Rewind
  BY <1>4 DEF Push, Rewind
<1> QED
  BY <1>2, <1>3, <1>4 DEF Next, Server

(* The server's own writers enter the loop with all their attempts, and    *)
(* name as their parent the very HEAD they resolved.                       *)
OwnWrite(w) ==
  /\ call[w].pc \in {"plan", "resolve"} => call[w].tries = 0 /\ call[w].kind # "client"
  /\ call[w].pc \in {"read", "cas"} /\ call[w].kind # "client" => call[w].base = call[w].asked

(* They do so at every step.                                               *)
LEMMA OwnWriteStep ==
  ASSUME TypeOK, [Next]_vars, NEW w \in Writer, OwnWrite(w)
  PROVE  OwnWrite(w)'
<1>1. call \in [Writer -> Call] /\ call[w] \in Call
  BY DEF TypeOK
<1>2. CASE call'[w] = call[w]
  BY <1>2 DEF OwnWrite
<1>3. CASE Autofix(w)
  <2>1. \/ call'[w].pc = "idle"
        \/ call'[w].pc = "resolve" /\ call'[w].tries = 0 /\ call'[w].kind = "heal"
    BY <1>1, <1>3 DEF Autofix, Idle
  <2> QED
    BY <2>1 DEF OwnWrite
<1>4. CASE Plan(w)
  <2>1. PICK change : call'[w] = IF change = NoChange THEN Idle
                       ELSE [call[w] EXCEPT !.pc = "resolve", !.change = change]
    BY <1>1, <1>4 DEF Plan
  <2>2. \/ call'[w].pc = "idle"
        \/ /\ call'[w].pc = "resolve" /\ call'[w].tries = call[w].tries
           /\ call'[w].kind = call[w].kind
    BY <1>1, <2>1 DEF Idle, Call
  <2> QED
    BY <1>4, <2>2 DEF OwnWrite, Plan
<1>5. CASE Resolve(w)
  <2>1. call'[w].pc = "read" /\ call'[w].base = call'[w].asked
    BY <1>1, <1>5 DEF Resolve, Call
  <2> QED
    BY <2>1 DEF OwnWrite
<1>6. CASE ReadHead(w) \/ LoseRace(w)
  <2>1. CASE call'[w].pc \in {"idle", "gaveup"}
    BY <2>1 DEF OwnWrite
  <2>2. ASSUME call'[w].pc \notin {"idle", "gaveup"}
        PROVE  /\ call[w].pc \in {"read", "cas"}
               /\ call'[w].pc \in {"read", "cas"}
               /\ call'[w].kind = call[w].kind
               /\ call'[w].base = call[w].base
               /\ call'[w].asked = call[w].asked
    <3>1. CASE ReadHead(w)
      BY <1>1, <2>2, <3>1 DEF ReadHead, Idle, Call
    <3>2. CASE LoseRace(w)
      BY <1>1, <2>2, <3>2 DEF LoseRace, LoseRaceWith, Idle, Call
    <3> QED
      BY <1>6, <3>1, <3>2
  <2> QED
    BY <2>1, <2>2 DEF OwnWrite
<1>7. CASE Publish(w) \/ PushDestination(w)
  <2>1. call'[w].pc \in {"idle", "autofix"}
    BY <1>1, <1>7 DEF Publish, PublishAnyway, PushDestination, Idle
  <2> QED
    BY <2>1 DEF OwnWrite
<1>8. CASE Shape(w)
  <2>1. call'[w].pc = "plan" /\ call'[w].tries = 0 /\ call'[w].kind = "shape"
    BY <1>1, <1>8 DEF Shape, Idle
  <2> QED
    BY <2>1 DEF OwnWrite
<1>9. ASSUME NEW parent \in Version, NEW change \in Request, Submit(w, parent, change)
      PROVE  OwnWrite(w)'
  <2>1. call'[w].pc = "idle" \/ (call'[w].pc = "read" /\ call'[w].kind = "client")
    BY <1>1, <1>9 DEF Submit, Idle
  <2> QED
    BY <2>1 DEF OwnWrite
<1> QED
  BY <1>2, <1>3, <1>4, <1>5, <1>6, <1>7, <1>8, <1>9, OwnStep DEF Server

(* The steps a call has left are a number, zero only when it runs no more, *)
(* and at most two loops and the reading in front of the second.           *)
LEMMA StepsLeftBound ==
  ASSUME NEW c \in Call, c.pc \in Busy => c.tries < MaxAttempts
  PROVE  /\ StepsLeft(c) \in 0 .. 4 * MaxAttempts + 2
         /\ StepsLeft(c) = 0 <=> c.pc \notin Busy
<1>1. MaxAttempts \in Nat \ {0}
  BY BoundAssumption
<1>2. AutofixSteps \in Nat /\ AutofixSteps = 2 * MaxAttempts + 2
  BY <1>1 DEF AutofixSteps
<1>3. After(c) \in {0, AutofixSteps}
  BY DEF After
<1>4. c.tries \in Nat
  BY <1>1 DEF Call
<1>5. CASE c.pc \in {"read", "cas"}
  <2>1. c.tries < MaxAttempts
    BY <1>5 DEF Busy
  <2> QED
    BY <1>1, <1>2, <1>3, <1>4, <1>5, <2>1 DEF StepsLeft, Busy
<1>6. CASE c.pc \notin {"read", "cas"}
  BY <1>1, <1>2, <1>6 DEF StepsLeft, Busy, Call
<1> QED
  BY <1>5, <1>6

(* A step of a running handler uses up one of its steps at least.          *)
LEMMA ServerShrinks ==
  ASSUME IInv, IInv', NEW w \in Writer, OwnWrite(w), Server(w)
  PROVE  StepsLeft(call'[w]) < StepsLeft(call[w])
<1>1. /\ TypeOK /\ TypeOK' /\ Looping(w) /\ Looping(w)'
      /\ call \in [Writer -> Call] /\ call[w] \in Call /\ call'[w] \in Call
      /\ MaxAttempts \in Nat \ {0}
  BY BoundAssumption DEF IInv, WriterOK, TypeOK
<1>2. /\ StepsLeft(call[w]) \in Nat /\ StepsLeft(call'[w]) \in Nat
      /\ StepsLeft(call'[w]) = 0 <=> call'[w].pc \notin Busy
      /\ StepsLeft(call[w]) = 0 <=> call[w].pc \notin Busy
  <2>1. 0 .. 4 * MaxAttempts + 2 \subseteq Nat
    BY <1>1
  <2> QED
    BY <1>1, <2>1, StepsLeftBound DEF Looping
<1>3. call[w].pc \in Busy
  BY DEF Server, Autofix, Plan, Resolve, ReadHead, Publish, PublishAnyway, LoseRace,
         LoseRaceWith, Busy
<1>4. CASE call'[w].pc \notin Busy
  BY <1>2, <1>3, <1>4
<1>5. /\ call[w].tries \in Nat /\ call'[w].tries \in Nat
      /\ AutofixSteps = 2 * MaxAttempts + 2
      /\ AutofixSteps \in Nat
      /\ After(call[w]) \in {0, AutofixSteps} /\ After(call'[w]) \in {0, AutofixSteps}
  BY <1>1 DEF Call, AutofixSteps, After
<1>6. call'[w].kind = call[w].kind => After(call'[w]) = After(call[w])
  BY DEF After
<1>7. CASE (Autofix(w) \/ Plan(w)) /\ call'[w].pc \in Busy
  <2>1. CASE Autofix(w)
    BY <1>1, <1>5, <1>7, <2>1 DEF Autofix, Idle, Busy, StepsLeft
  <2>2. CASE Plan(w)
    <3>1. PICK change : call'[w] = IF change = NoChange THEN Idle
                         ELSE [call[w] EXCEPT !.pc = "resolve", !.change = change]
      BY <1>1, <2>2 DEF Plan
    <3>2. call[w].pc = "plan" /\ call'[w].pc = "resolve"
      BY <1>1, <1>7, <2>2, <3>1 DEF Plan, Idle, Busy, Call
    <3> QED
      BY <1>5, <3>2 DEF StepsLeft
  <2> QED
    BY <1>7, <2>1, <2>2
<1>8. CASE Resolve(w)
  <2>1. /\ call[w].pc = "resolve" /\ call'[w].pc = "read"
        /\ call'[w].tries = 0 /\ call'[w].kind = call[w].kind
        /\ call[w].kind # "client"
    BY <1>1, <1>8 DEF Resolve, Call, OwnWrite
  <2> QED
    BY <1>1, <1>5, <2>1 DEF StepsLeft, After
<1>9. CASE ReadHead(w) /\ call'[w].pc \in Busy
  <2>1. /\ call[w].pc = "read" /\ call'[w].pc = "cas"
        /\ call'[w].tries = call[w].tries /\ call'[w].kind = call[w].kind
    BY <1>1, <1>9 DEF ReadHead, Call, Idle, Busy
  <2> QED
    BY <1>1, <1>5, <1>6, <2>1 DEF StepsLeft
<1>10. CASE Publish(w) /\ call'[w].pc \in Busy
  <2>1. call[w].pc = "cas" /\ call[w].kind = "client" /\ call'[w].pc = "autofix"
    BY <1>1, <1>10 DEF Publish, PublishAnyway, Idle, Busy
  <2>2. call[w].tries < MaxAttempts
    BY <1>1, <1>3 DEF Looping
  <2> QED
    BY <1>1, <1>5, <2>1, <2>2 DEF StepsLeft, After
<1>11. CASE LoseRace(w) /\ call'[w].pc \in Busy
  <2>1. /\ call[w].pc = "cas" /\ call'[w].pc = "read"
        /\ call'[w].tries = call[w].tries + 1 /\ call'[w].kind = call[w].kind
    BY <1>1, <1>11 DEF LoseRace, LoseRaceWith, Call, Idle, Busy
  <2> QED
    BY <1>1, <1>5, <1>6, <2>1 DEF StepsLeft
<1> QED
  BY <1>4, <1>7, <1>8, <1>9, <1>10, <1>11 DEF Server

(* Every writer of the server is as OwnWrite says, at all times.           *)
LEMMA OwnWrites == Spec => [](\A w \in Writer : OwnWrite(w))
<1>1. Init => \A w \in Writer : OwnWrite(w)
  BY DEF Init, OwnWrite, Idle
<1>2. ASSUME IInv, \A w \in Writer : OwnWrite(w), [Next]_vars
      PROVE  (\A w \in Writer : OwnWrite(w))'
  BY <1>2, OwnWriteStep DEF IInv
<1> QED
  BY <1>1, <1>2, Invariant, PTL DEF Spec

(* No handler loops for ever: each of its steps lowers a number that is    *)
(* never above 4 * MaxAttempts + 2, and nobody else's step raises it.      *)
THEOREM HandlersRunOut == Spec => CallsRunOut
<1>1. ASSUME IInv, IInv', \A w \in Writer : OwnWrite(w), [Next]_vars
      PROVE  [\A w \in Writer :
                call[w].pc \in Busy =>
                  \/ call'[w] = call[w]
                  \/ StepsLeft(call'[w]) < StepsLeft(call[w])]_vars
  <2> SUFFICES ASSUME NEW w \in Writer, call[w].pc \in Busy, call'[w] # call[w]
               PROVE  StepsLeft(call'[w]) < StepsLeft(call[w])
    OBVIOUS
  <2>1. Server(w)
    BY <1>1, OwnStep DEF IInv, Submit, PushDestination, Shape, Arrive
  <2> QED
    BY <1>1, <2>1, ServerShrinks
<1> QED
  BY <1>1, Invariant, OwnWrites, PTL DEF Spec, CallsRunOut

(* What a publication of the server's own writers does to a path: where    *)
(* the parent has nothing, and where the plan changes nothing, the file of *)
(* HEAD stays.                                                             *)
LEMMA OwnWriteKeeps ==
  ASSUME IInv, NEW w \in Writer, Publish(w), OwnWrite(w), Faithful(w),
         call[w].kind # "client", NEW p \in Path,
         p \notin DOMAIN call[w].wants \/ TreeAt(call[w].asked)[p] = Absent
  PROVE  TreeAt(head)[p] \in {Absent, store'[head'].tree[p]}
<1> DEFINE base == TreeAt(call[w].base)[p]
           theirs == TreeAt(head)[p]
           yours == Yours(w)[p]
<1>1. /\ call[w].pc = "cas" /\ call[w].base = call[w].asked
      /\ CleanTree(TreeAt(call[w].base), TreeAt(head), Yours(w))
  BY PreparedAtHead DEF OwnWrite
<1>2. ~ Mixed(w) /\ DOMAIN call[w].change = DOMAIN call[w].wants
  BY <1>1 DEF Mixed, Faithful
<1>3. store'[head'].tree = MergeTree(TreeAt(call[w].base), TreeAt(head), Yours(w))
  <2>1. PICK n : n = Len(store) + 1
    OBVIOUS
  <2>2. PICK m : m = head'
    OBVIOUS
  <2> QED
    BY <2>1, <2>2, Published
<1>4. store'[head'].tree[p] = MergeFile(base, theirs, yours) /\ CleanFile(base, theirs, yours)
  BY <1>1, <1>3 DEF MergeTree, CleanTree
<1>5. CASE p \notin DOMAIN call[w].wants
  <2>1. yours = base
    BY <1>2, <1>5 DEF Yours, Apply
  <2> QED
    BY <1>4, <2>1, MergeUntouched
<1>6. CASE TreeAt(call[w].asked)[p] = Absent
  BY <1>1, <1>4, <1>6 DEF CleanFile, MergeFile, Agree, Pick
<1> QED
  BY <1>5, <1>6

(* The conversion to Formidable shape costs nobody a file, except one that *)
(* appeared between its listing of the tree and Resolve.                   *)
THEOREM ConversionFillsGaps == Spec => ShapeFillsGaps
<1>1. ASSUME IInv, \A w \in Writer : OwnWrite(w), [Next]_vars
      PROVE  [\A w \in Writer :
                call[w].kind = "shape" /\ Publish(w) =>
                  \A p \in Path \ {IgnorePath} :
                    \/ p \in DOMAIN call[w].wants /\ TreeAt(call[w].asked)[p] # Absent
                    \/ TreeAt(head)[p] \in {Absent, store'[head'].tree[p]}]_vars
  BY <1>1, OwnWriteKeeps DEF IInv, WriterOK
<1> QED
  BY <1>1, Invariant, OwnWrites, PTL DEF Spec, ShapeFillsGaps

-----------------------------------------------------------------------------
(* Refinement: the lock-free loop implements the atomic repository.        *)

content == IF head = 0 THEN Unborn ELSE TreeAt(head)
history == {TreeAt(v) : v \in Hist(head)}
pending == {Asked(w) : w \in InLoop}

(* The versions of the branch's history are versions of the store.         *)
HistoryOfVersions ==
  /\ store \in Seq(Commit) /\ Hist(head) \subseteq Version
  /\ head # 0 => head \in Version /\ content = TreeAt(head) /\ content \in Tree

(* The history of the branch is made of versions that exist.               *)
LEMMA HistoryExists == IInv => HistoryOfVersions
<1> SUFFICES ASSUME IInv PROVE HistoryOfVersions
  OBVIOUS
<1>1. store \in Seq(Commit) /\ head \in Version \cup {0}
  BY DEF IInv, TypeOK
<1>2. Hist(head) \subseteq Version
  <2>1. CASE head = 0
    BY <2>1 DEF Hist
  <2>2. CASE head \in Version
    BY <1>1, <2>2, VersionType DEF IInv, HistoryOK
  <2> QED
    BY <1>1, <2>1, <2>2
<1> QED
  BY <1>1, <1>2, VersionType DEF content, HistoryOfVersions

(* The same in the state after a step.                                     *)
LEMMA HistoryExistsNext == IInv' => HistoryOfVersions'
BY HistoryExists, PTL

(* The store grows with every step, or stays.                              *)
LEMMA StoreGrows ==
  ASSUME IInv, [Next]_vars
  PROVE  Grows
<1>1. CASE UNCHANGED <<store, head, rewinds, acked>>
  BY <1>1 DEF Grows, IInv, TypeOK
<1>2. CASE \E w \in Writer : Publish(w)
  BY <1>2, PublishStep
<1>3. CASE \E tree \in PushTree : Push(tree)
  BY <1>3, PushStep
<1>4. CASE Rewind
  BY <1>4, RewindStep
<1> QED
  BY <1>1, <1>2, <1>3, <1>4, StepKinds

(* Requests of writers that do not move stay as they are.                  *)
LEMMA AskedStays ==
  ASSUME IInv, Grows, NEW u \in Writer, call'[u] = call[u]
  PROVE  /\ (u \in InLoop)' <=> u \in InLoop
         /\ u \in InLoop => Asked(u)' = Asked(u)
<1>1. u \in InLoop => call[u].base \in Version
  BY DEF IInv, WriterOK, HoldsVersions, InLoop
<1> QED
  BY <1>1 DEF Grows, Asked, InLoop

(* When one writer moves, only its request can come, go or change.         *)
LEMMA PendingStep ==
  ASSUME IInv, Grows, NEW w \in Writer,
         \A u \in Writer \ {w} : call'[u] = call[u]
  PROVE  /\ w \in InLoop => Asked(w) \in pending
         /\ w \in InLoop /\ (w \notin InLoop)' => pending' = pending \ {Asked(w)}
         /\ w \notin InLoop /\ (w \in InLoop)' =>
              /\ pending' = pending \cup {Asked(w)'}
              /\ \A q \in pending : q.client # w
              /\ Asked(w)' \in pending' \ pending
         /\ w \notin InLoop /\ (w \notin InLoop)' => pending' = pending
         /\ w \in InLoop /\ (w \in InLoop)' /\ Asked(w)' = Asked(w) => pending' = pending
<1>1. \A u \in Writer \ {w} :
        /\ (u \in InLoop)' <=> u \in InLoop
        /\ u \in InLoop => Asked(u)' = Asked(u)
  BY AskedStays
<1>2. InLoop \subseteq Writer /\ InLoop' \subseteq Writer
  BY DEF InLoop
<1>3. (\A u : Asked(u).client = u) /\ Asked(w)'.client = w
  BY DEF Asked
<1>4. pending' = {Asked(u)' : u \in InLoop'} /\ pending = {Asked(u) : u \in InLoop}
  BY DEF pending
<1>5. PICK others : others = {Asked(u) : u \in InLoop \ {w}}
  OBVIOUS
<1>6. \A q \in others : q.client # w
  BY <1>3, <1>5
<1>7. pending = others \cup (IF w \in InLoop THEN {Asked(w)} ELSE {})
  BY <1>4, <1>5
<1>8. {Asked(u)' : u \in InLoop' \ {w}} = others
  BY <1>1, <1>2, <1>5
<1>9. pending' = others \cup (IF (w \in InLoop)' THEN {Asked(w)'} ELSE {})
  BY <1>4, <1>8
<1> QED
  BY <1>3, <1>6, <1>7, <1>9

(* A step that moves one writer and leaves the branch alone asks, refuses, *)
(* or is no step of AtomicRepo.                                            *)
LEMMA CallRefines ==
  ASSUME IInv, IInv', [Next]_vars, NEW w \in Writer,
         UNCHANGED <<store, head, rewinds, acked>>,
         \A u \in Writer \ {w} : call'[u] = call[u],
         w \in InLoop /\ (w \in InLoop)' =>
           call'[w].base = call[w].base /\ call'[w].change = call[w].change
  PROVE  [Repo!RepoNext]_(Repo!repoVars)
<1>1. Grows
  BY StoreGrows
<1>2. content' = content /\ history' = history /\ Len(acked') = Len(acked) /\ rewinds' = rewinds
  BY DEF content, history, Hist
<1>3. CASE w \in InLoop /\ (w \notin InLoop)'
  <2>1. Asked(w) \in pending /\ pending' = pending \ {Asked(w)}
    BY <1>1, <1>3, PendingStep
  <2>2. Repo!Refuse(Asked(w))
    BY <1>2, <2>1 DEF Repo!Refuse, content, history, pending
  <2> QED
    BY <2>1, <2>2 DEF Repo!RepoNext, pending
<1>4. CASE w \notin InLoop /\ (w \in InLoop)'
  <2>1. /\ pending' = pending \cup {Asked(w)'}
        /\ \A q \in pending : q.client # w
        /\ Asked(w)' \in pending' \ pending
    BY <1>1, <1>4, PendingStep
  <2>2. call'[w].base \in Version' /\ call'[w].change \in ChangeSet
    BY <1>4 DEF IInv, WriterOK, HoldsVersions, InLoop, TypeOK, Call
  <2>3. store[call'[w].base].tree \in Tree
    BY <2>2, VersionType DEF IInv, TypeOK
  <2>4. /\ Asked(w)' \in [client : Writer, base : Tree, change : ChangeSet]
        /\ Asked(w)'.client = w
    BY <2>2, <2>3 DEF Asked
  <2>5. Repo!Ask(Asked(w)')
    BY <1>2, <2>1, <2>4 DEF Repo!Ask, Repo!Requests, Repo!Tree, Repo!File, Repo!ChangeSet,
         Tree, File, ChangeSet, content, history, pending
  <2> QED
    BY <2>1, <2>5 DEF Repo!RepoNext, pending
<1>5. CASE w \in InLoop /\ (w \in InLoop)'
  <2>1. Asked(w)' = Asked(w)
    BY <1>5 DEF Asked
  <2>2. pending' = pending
    BY <1>1, <1>5, <2>1, PendingStep
  <2> QED
    BY <1>2, <2>2 DEF Repo!repoVars, content, history, pending
<1>6. CASE w \notin InLoop /\ (w \notin InLoop)'
  <2>1. pending' = pending
    BY <1>1, <1>6, PendingStep
  <2> QED
    BY <1>2, <2>1 DEF Repo!repoVars, content, history, pending
<1> QED
  BY <1>3, <1>4, <1>5, <1>6

(* Every step but a publication, a push and a forced move does that.       *)
LEMMA QuietRefines ==
  ASSUME IInv, IInv', [Next]_vars, UNCHANGED <<store, head, rewinds, acked>>
  PROVE  [Repo!RepoNext]_(Repo!repoVars)
<1>1. CASE UNCHANGED call
  <2>1. content' = content /\ history' = history /\ Len(acked') = Len(acked) /\ rewinds' = rewinds
    BY DEF content, history, Hist
  <2>2. pending' = pending
    BY <1>1 DEF pending, InLoop, Asked
  <2> QED
    BY <2>1, <2>2 DEF Repo!repoVars, content, history, pending
<1>2. call \in [Writer -> Call]
  BY DEF IInv, TypeOK
<1>3. ASSUME NEW w \in Writer, NEW parent \in Version, NEW change \in Request,
             Submit(w, parent, change)
      PROVE  [Repo!RepoNext]_(Repo!repoVars)
  <2>1. w \notin InLoop
    BY <1>3 DEF Submit, Arrive, Busy, InLoop
  <2>2. \A u \in Writer \ {w} : call'[u] = call[u]
    BY <1>2, <1>3 DEF Submit, Arrive, Busy
  <2> QED
    BY <2>1, <2>2, CallRefines
<1>4. ASSUME NEW w \in Writer, PushDestination(w)
      PROVE  [Repo!RepoNext]_(Repo!repoVars)
  <2>1. w \notin InLoop
    BY <1>4 DEF PushDestination, Arrive, Busy, InLoop
  <2>2. \A u \in Writer \ {w} : call'[u] = call[u]
    BY <1>2, <1>4 DEF PushDestination, Arrive, Busy
  <2> QED
    BY <2>1, <2>2, CallRefines
<1>5. ASSUME NEW w \in Writer, Shape(w)
      PROVE  [Repo!RepoNext]_(Repo!repoVars)
  <2>1. w \notin InLoop
    BY <1>5 DEF Shape, Arrive, Busy, InLoop
  <2>2. \A u \in Writer \ {w} : call'[u] = call[u]
    BY <1>2, <1>5 DEF Shape, Arrive, Busy
  <2> QED
    BY <2>1, <2>2, CallRefines
<1>6. ASSUME NEW w \in Writer, Autofix(w)
      PROVE  [Repo!RepoNext]_(Repo!repoVars)
  <2>1. w \notin InLoop
    BY <1>6 DEF Autofix, InLoop
  <2>2. \A u \in Writer \ {w} : call'[u] = call[u]
    BY <1>2, <1>6 DEF Autofix
  <2> QED
    BY <2>1, <2>2, CallRefines
<1>7. ASSUME NEW w \in Writer, Plan(w)
      PROVE  [Repo!RepoNext]_(Repo!repoVars)
  <2>1. w \notin InLoop
    BY <1>7 DEF Plan, InLoop
  <2>2. \A u \in Writer \ {w} : call'[u] = call[u]
    BY <1>2, <1>7 DEF Plan
  <2> QED
    BY <2>1, <2>2, CallRefines
<1>8. ASSUME NEW w \in Writer, Resolve(w)
      PROVE  [Repo!RepoNext]_(Repo!repoVars)
  <2>1. w \notin InLoop
    BY <1>8 DEF Resolve, InLoop
  <2>2. \A u \in Writer \ {w} : call'[u] = call[u]
    BY <1>2, <1>8 DEF Resolve
  <2> QED
    BY <2>1, <2>2, CallRefines
<1>9. ASSUME NEW w \in Writer, ReadHead(w)
      PROVE  [Repo!RepoNext]_(Repo!repoVars)
  <2>1. \A u \in Writer \ {w} : call'[u] = call[u]
    BY <1>2, <1>9 DEF ReadHead
  <2>2. call[w] \in Call
    BY <1>2
  <2>3. (w \in InLoop)' => call'[w].base = call[w].base /\ call'[w].change = call[w].change
    BY <1>2, <1>9, <2>2 DEF ReadHead, InLoop, Idle, Call
  <2> QED
    BY <2>1, <2>3, CallRefines
<1>10. ASSUME NEW w \in Writer, LoseRace(w)
      PROVE  [Repo!RepoNext]_(Repo!repoVars)
  <2>1. \A u \in Writer \ {w} : call'[u] = call[u]
    BY <1>2, <1>10 DEF LoseRace, LoseRaceWith
  <2>2. call[w] \in Call
    BY <1>2
  <2>3. (w \in InLoop)' => call'[w].base = call[w].base /\ call'[w].change = call[w].change
    BY <1>2, <1>10, <2>2 DEF LoseRace, LoseRaceWith, InLoop, Idle, Call
  <2> QED
    BY <2>1, <2>3, CallRefines
<1>11. ASSUME Rewind \/ (\E w \in Writer : Publish(w)) \/ (\E tree \in PushTree : Push(tree))
      PROVE  FALSE
  <2>1. /\ rewinds \in Nat /\ acked \in Seq(Nat) /\ store \in Seq(Commit)
        /\ rewinds' = rewinds /\ acked' = acked /\ store' = store
    BY DEF IInv, TypeOK
  <2>2. CASE Rewind
    BY <2>1, <2>2 DEF Rewind
  <2>3. ASSUME NEW w \in Writer, Publish(w) PROVE FALSE
    <3>1. acked' = Append(acked, head')
      BY <2>3 DEF Publish, PublishAnyway
    <3>2. Len(Append(acked, head')) = Len(acked) + 1 /\ Len(acked) \in Nat
      BY <2>1
    <3> QED
      BY <2>1, <3>1, <3>2
  <2>4. ASSUME NEW tree \in PushTree, Push(tree) PROVE FALSE
    <3>1. PICK c : store' = Append(store, c)
      BY <2>4 DEF Push
    <3>2. Len(Append(store, c)) = Len(store) + 1 /\ Len(store) \in Nat
      BY <2>1
    <3> QED
      BY <2>1, <3>1, <3>2
  <2> QED
    BY <1>11, <2>2, <2>3, <2>4
<1>12. CASE UNCHANGED vars
  BY <1>1, <1>12 DEF vars
<1>13. CASE Next
  BY <1>3, <1>4, <1>5, <1>6, <1>7, <1>8, <1>9, <1>10, <1>11, <1>13, Zenon DEF Next
<1> QED
  BY <1>12, <1>13

(* AtomicRepo's merge is this module's.                                    *)
LEMMA SameMerge ==
  ASSUME NEW x, NEW y, NEW z
  PROVE  /\ Repo!Apply(x, y) = Apply(x, y)
         /\ Repo!CleanTree(x, y, z) <=> CleanTree(x, y, z)
         /\ Repo!MergeTree(x, y, z) = MergeTree(x, y, z)
BY DEF Repo!Apply, Repo!CleanTree, Repo!MergeTree, Repo!CleanFile, Repo!MergeFile,
       Repo!Agree, Repo!Pick, Apply, CleanTree, MergeTree, CleanFile, MergeFile, Agree, Pick

(* Publishing is the atomic three-way merge of AtomicRepo.                 *)
LEMMA WriteRefines ==
  ASSUME IInv, NEW w \in Writer, Publish(w)
  PROVE  \E r \in pending : Repo!Write(r)
<1>1. PICK n : n = Len(store) + 1
  OBVIOUS
<1>2. PICK m : m = head'
  OBVIOUS
<1> DEFINE base == TreeAt(call[w].base)
<1>3. /\ TypeOK /\ HistoryOK /\ store \in Seq(Commit) /\ head \in Version /\ head # 0
      /\ call[w].base \in Hist(head) /\ base \in Tree /\ Yours(w) \in Tree
      /\ TreeAt(head) \in Tree /\ CleanTree(base, TreeAt(head), Yours(w))
  BY PreparedAtHead, VersionType
<1>4. /\ Grows /\ n \in Version' /\ m \in Version'
      /\ store'[n].tree = Yours(w)
      /\ store'[m].tree = MergeTree(base, TreeAt(head), Yours(w))
      /\ store'[m].hist = Hist(head) \cup {n, m}
  BY <1>1, <1>2, Published
<1>5. m # 0 /\ IInv'
  BY <1>4, PublishStep, VersionType DEF Grows
<1>6. content = TreeAt(head) /\ content # Unborn
  BY <1>3, UnbornAssumption DEF content
<1>7. content' = MergeTree(base, content, Yours(w))
  BY <1>2, <1>4, <1>5, <1>6 DEF content
<1>8. history' = history \cup {Yours(w), content'}
  <2>1. Hist(head)' = Hist(head) \cup {n, m}
    BY <1>2, <1>4, <1>5 DEF Hist
  <2>2. \A v \in Hist(head) : store'[v] = store[v]
    BY <1>4, HistoryExists DEF Grows, HistoryOfVersions
  <2>3. content' = store'[m].tree
    BY <1>4, <1>6, <1>7
  <2> QED
    BY <1>4, <2>1, <2>2, <2>3 DEF history
<1>9. base \in history
  BY <1>3 DEF history
<1>10. Len(acked') = Len(acked) + 1 /\ rewinds' = rewinds
  BY <1>3, <1>2, <1>5 DEF Publish, PublishAnyway, TypeOK, IInv
<1>11. CleanTree(base, content, Yours(w))
  BY <1>3, <1>6
<1>12. Asked(w) \in pending /\ pending' = pending \ {Asked(w)}
  <2>1. /\ call[w].pc = "cas" /\ call'[w].pc \in {"autofix", "idle"}
        /\ \A u \in Writer \ {w} : call'[u] = call[u]
    BY <1>3 DEF Publish, PublishAnyway, Idle, TypeOK
  <2> QED
    BY <1>4, <2>1, PendingStep DEF InLoop
<1>13. Asked(w).base = base /\ Apply(Asked(w).base, Asked(w).change) = Yours(w)
  BY DEF Asked, Yours
<1>14. PICK r : r = Asked(w)
  OBVIOUS
<1>15. PICK yours : yours = Yours(w)
  OBVIOUS
<1>16. /\ r.base = base /\ Repo!Apply(r.base, r.change) = yours
       /\ Repo!CleanTree(r.base, content, yours)
       /\ content' = Repo!MergeTree(r.base, content, yours)
       /\ history' = history \cup {yours, content'}
       /\ r \in pending /\ pending' = pending \ {r}
  BY <1>7, <1>8, <1>11, <1>12, <1>13, <1>14, <1>15, SameMerge
<1>17. Repo!Write(r)
  BY <1>6, <1>9, <1>10, <1>16 DEF Repo!Write, content, history, pending
<1> QED
  BY <1>16, <1>17

(* Nobody's request changes when somebody else moves the branch.           *)
LEMMA OthersAsk ==
  ASSUME IInv, Grows, call' = call
  PROVE  pending' = pending
<1>1. \A u \in Writer : /\ (u \in InLoop)' <=> u \in InLoop
                       /\ u \in InLoop => Asked(u)' = Asked(u)
  BY AskedStays
<1>2. InLoop' = InLoop
  BY <1>1 DEF InLoop
<1>3. pending' = {Asked(u)' : u \in InLoop'}
  BY DEF pending
<1> QED
  BY <1>1, <1>2, <1>3 DEF pending, InLoop

(* A fast-forward push extends the branch of AtomicRepo.                   *)
LEMMA PushRefines ==
  ASSUME IInv, NEW tree \in PushTree, Push(tree)
  PROVE  Repo!Extend(tree)
<1>1. PICK n : n = Len(store) + 1
  OBVIOUS
<1>2. PICK old : old = Hist(head)
  OBVIOUS
<1>3. /\ IInv' /\ Grows /\ store \in Seq(Commit) /\ Len(store) \in Nat
  BY PushStep DEF IInv, TypeOK
<1>4. head' = n /\ n # 0 /\ rewinds' = rewinds /\ acked' = acked
  BY <1>1, <1>3 DEF Push
<1>5. store'[n].hist = old \cup {n} /\ store'[n].tree = tree
  BY <1>1, <1>2, <1>3 DEF Push
<1>6. content' = tree
  BY <1>4, <1>5 DEF content
<1>7. history' = history \cup {tree}
  <2>1. Hist(head)' = Hist(head) \cup {n}
    BY <1>2, <1>4, <1>5 DEF Hist
  <2>2. \A v \in Hist(head) : store'[v] = store[v]
    BY <1>3, HistoryExists DEF Grows, HistoryOfVersions
  <2> QED
    BY <1>5, <2>1, <2>2 DEF history
<1>8. pending' = pending
  BY <1>3, OthersAsk DEF Push
<1> QED
  BY <1>4, <1>6, <1>7, <1>8 DEF Repo!Extend, content, history, pending

(* A rewind leaves the branch at a version that exists.                    *)
LEMMA RewindMoves ==
  ASSUME IInv, Rewind
  PROVE  head' # 0
<1>1. CASE head' \in Version \ {head}
  BY <1>1, VersionType DEF IInv, TypeOK
<1>2. CASE head' = Len(store) + 1
  BY <1>2 DEF IInv, TypeOK
<1> QED
  BY <1>1, <1>2 DEF Rewind

(* A rewind replaces the branch of AtomicRepo.                             *)
LEMMA RewindRefines ==
  ASSUME IInv, Rewind, NEW new, new = content'
  PROVE  Repo!Replace(new)
<1>1. IInv' /\ rewinds' = rewinds + 1 /\ acked' = acked
  BY RewindStep DEF Rewind
<1>2. head' # 0
  BY RewindMoves
<1>3. /\ store' \in Seq(Commit) /\ head' \in Version'
      /\ HistoryOK' /\ Hist(head)' \subseteq Version'
      /\ content' = store'[head'].tree
  <2>1. /\ store' \in Seq(Commit) /\ Hist(head)' \subseteq Version'
        /\ head' \in Version' /\ content' = TreeAt(head)'
    BY <1>1, <1>2, HistoryExistsNext DEF HistoryOfVersions
  <2> QED
    BY <1>1, <2>1 DEF IInv
<1>4. \A v \in Version' : store'[v].tree \in Tree
  <2>1. \A v \in DOMAIN store' : store'[v] \in Commit
    BY <1>3
  <2> QED
    BY <2>1 DEF Commit
<1>5. history' \subseteq Tree
  BY <1>3, <1>4 DEF history
<1>6. content' \in history'
  BY <1>3 DEF history, HistoryOK
<1>7. pending' = pending
  BY RewindStep, OthersAsk DEF Rewind
<1> QED
  BY <1>1, <1>5, <1>6, <1>7
     DEF Repo!Replace, content, history, pending, Repo!Tree, Repo!File, Tree, File

(* The write API is an atomic three-way merge: each step of the loop is    *)
(* one of the abstract repository's writes, extensions or replacements, or *)
(* changes nothing of it.                                                  *)
THEOREM Implementation == Spec => ImplementsAtomicRepo
<1>1. Init => Repo!RepoInit
  BY DEF Init, Repo!RepoInit, Hist, Idle, InLoop
<1>2. ASSUME IInv, IInv', [Next]_vars PROVE [Repo!RepoNext]_(Repo!repoVars)
  <2>1. CASE UNCHANGED <<store, head, rewinds, acked>>
    BY <1>2, <2>1, QuietRefines
  <2>2. CASE \E w \in Writer : Publish(w)
    <3>1. PICK w \in Writer : Publish(w)
      BY <2>2
    <3>2. \E r \in pending : Repo!Write(r)
      BY <1>2, <3>1, WriteRefines
    <3> QED
      BY <3>2 DEF Repo!RepoNext, pending
  <2>3. ASSUME NEW tree \in PushTree, Push(tree) PROVE Repo!RepoNext
    BY <1>2, <2>3, PushRefines, RequestAssumption DEF Repo!RepoNext, Repo!Tree, Repo!File, Tree, File
  <2>4. CASE Rewind
    <3>1. IInv' /\ head' # 0
      BY <1>2, <2>4, RewindStep, RewindMoves
    <3>2. PICK new : new = content'
      OBVIOUS
    <3>3. new \in Tree
      BY <3>1, <3>2, HistoryExistsNext DEF HistoryOfVersions
    <3>4. Repo!Replace(new)
      BY <1>2, <2>4, <3>2, RewindRefines
    <3> QED
      BY <3>3, <3>4 DEF Repo!RepoNext, Repo!Tree, Repo!File, Tree, File
  <2> QED
    BY <1>2, <2>1, <2>2, <2>3, <2>4, StepKinds
<1> QED
  BY <1>1, <1>2, Invariant, PTL DEF Spec, ImplementsAtomicRepo, Repo!RepoSpec

=============================================================================
