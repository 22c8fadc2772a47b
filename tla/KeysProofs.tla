----------------------------- MODULE KeysProofs -----------------------------
(***************************************************************************)
(* Theorems about Keys, for any accounts, usernames, repositories, tags    *)
(* and requests, and behaviours of any length.                             *)
(***************************************************************************)
EXTENDS Keys, FiniteSetTheorems, TLAPS

-----------------------------------------------------------------------------
(* Type correctness, a group of variables at a time.                       *)

KeysTyped ==
  /\ keys \in [Key -> KeyRow] /\ keyFile \in [Key -> KeyRow] /\ issued \in 0..MaxKeys
  /\ gone \subseteq Key

TagsTyped ==
  /\ tags \in TagStore /\ tagFile \in TagStore /\ created \in 0..MaxTags
  /\ index \in [Lower -> TagId \cup {0}]

WorldTyped ==
  /\ role \in [Account -> Role] /\ repos \subseteq Repo
  /\ changes \in 0..MaxChanges /\ entitled \subseteq Account

\* A request has what its next step needs.
WellFormed(job) ==
  /\ job \in Job /\ IsFiniteSet(job.names)
  /\ job.pc = "issue" => job.user \in Username /\ job.repo \in Repo
  /\ job.pc = "patch" => job.key \in Key /\ ("move" \in job.parts => job.repo \in Repo)
  /\ job.pc = "allowed" => job.key \in Key /\ "move" \notin job.parts
  /\ job.pc = "settags" => job.entity \in Entity
  /\ job.pc \in Gates => job.user \in Username /\ job.key \in Key

ReqsTyped ==
  /\ req \in [Request -> Job] /\ served \in 0..MaxRequests
  /\ \A r \in Request : WellFormed(req[r])

Typed == KeysTyped /\ TagsTyped /\ WorldTyped /\ ReqsTyped

(* The bounds are numbers.                                                 *)
LEMMA Bounds == MaxKeys \in Nat /\ MaxTags \in Nat /\ MaxRequests \in Nat /\ MaxChanges \in Nat
BY KeysAssumption

(* A request that does nothing.                                            *)
LEMMA IdleType == WellFormed(Idle)
<1>1. Idle \in Job
  BY DEF Idle, Job, Pcs
<1> QED
  BY <1>1, FS_EmptySet DEF Idle, WellFormed, Gates

(* A request that begins or goes on is a request.                          *)
LEMMA BeginTyped ==
  ASSUME ReqsTyped, NEW r \in Request, NEW job, WellFormed(job), Begin(r, job)
  PROVE  ReqsTyped' /\ req' = [req EXCEPT ![r] = job] /\ req[r].pc = "idle"
BY Bounds DEF ReqsTyped, Begin, WellFormed

(* A request goes on.                                                      *)
LEMMA GotoTyped ==
  ASSUME ReqsTyped, NEW r \in Request, NEW job, WellFormed(job), Goto(r, job)
  PROVE  ReqsTyped' /\ req' = [req EXCEPT ![r] = job]
BY DEF ReqsTyped, Goto, WellFormed

(* A request that is one operation of a store.                             *)
LEMMA ServeTyped ==
  ASSUME ReqsTyped, Serve
  PROVE  ReqsTyped'
BY Bounds DEF ReqsTyped, Serve

(* A name given to a tag, and tags taken from the catalogue.               *)
LEMMA NamedType ==
  ASSUME TagsTyped, NEW t \in TagId, NEW n \in TagName
  PROVE  [tags EXCEPT !.name[t] = n] \in TagStore
BY DEF TagsTyped, TagStore

(* The tag store without some tags.                                        *)
LEMMA WithoutType ==
  ASSUME TagsTyped, NEW dead \in SUBSET TagId
  PROVE  Without(dead) \in TagStore
BY DEF TagsTyped, TagStore, Without

(* The lower case of a name.                                               *)
LEMMA FoldType ==
  ASSUME NEW n \in TagName
  PROVE  Fold[n] \in Lower
BY DEF Lower

(* The index built from the file.                                          *)
LEMMA IndexOfType ==
  ASSUME NEW names \in [TagId -> TagName \cup {None}]
  PROVE  IndexOf(names) \in [Lower -> TagId \cup {0}]
<1>1. ASSUME NEW n \in Lower PROVE IndexOf(names)[n] \in TagId \cup {0}
  BY DEF IndexOf
<1> QED
  BY <1>1 DEF IndexOf

(* Setting the tags of an entity.                                          *)
LEMMA SetTagsType ==
  ASSUME TagsTyped, NEW e \in Entity, NEW names \in SUBSET TagName, IsFiniteSet(names),
         SetTags(e, names)
  PROVE  TagsTyped'
<1> DEFINE wanted == {Fold[n] : n \in names}
           fresh == {l \in wanted : index[l] = 0}
           next == created + Cardinality(fresh)
<1>1. IsFiniteSet(fresh) /\ fresh \subseteq wanted /\ wanted \subseteq Lower
  <2>1. IsFiniteSet(wanted)
    <3> DEFINE lower == [n \in names |-> Fold[n]]
    <3>1. lower \in Surjection(names, wanted)
      BY DEF Surjection
    <3> QED
      BY <3>1, FS_Surjection
  <2> QED
    BY <2>1, FS_Subset, FoldType
<1>2. Cardinality(fresh) \in Nat
  BY <1>1, FS_CardinalityType
<1>3. created \in Nat /\ next \in Nat /\ next <= MaxTags /\ created' = next
  BY <1>2, Bounds DEF SetTags, TagsTyped
<1>4. PICK id \in [fresh -> (created + 1)..next], shown \in [fresh -> names] :
        /\ index' = [l \in Lower |-> IF l \in fresh THEN id[l] ELSE index[l]]
        /\ SaveTags(
             [name |-> [t \in TagId |->
                IF \E l \in fresh : id[l] = t
                THEN shown[CHOOSE l \in fresh : id[l] = t] ELSE tags.name[t]],
              of |-> {x \in tags.of : x.entity # e}
                     \cup {[entity |-> e, tag |-> index'[l]] : l \in wanted}])
  BY DEF SetTags
<1> HIDE DEF next
<1>5. (created + 1)..next \subseteq TagId
  BY <1>3, Bounds DEF TagId
<1>6. index' \in [Lower -> TagId \cup {0}]
  BY <1>4, <1>5 DEF TagsTyped
<1>7. \A l \in wanted : index'[l] \in TagId
  BY <1>1, <1>4, <1>5, <1>6 DEF TagsTyped
<1>8. [t \in TagId |-> IF \E l \in fresh : id[l] = t
         THEN shown[CHOOSE l \in fresh : id[l] = t] ELSE tags.name[t]]
        \in [TagId -> TagName \cup {None}]
  <2>1. ASSUME NEW t \in TagId, \E l \in fresh : id[l] = t
        PROVE  shown[CHOOSE l \in fresh : id[l] = t] \in TagName
    BY <2>1
  <2>2. \A t \in TagId : tags.name[t] \in TagName \cup {None}
    BY DEF TagsTyped, TagStore
  <2> QED
    BY <2>1, <2>2
<1>9. {x \in tags.of : x.entity # e} \cup {[entity |-> e, tag |-> index'[l]] : l \in wanted}
        \subseteq [entity : Entity, tag : TagId]
  BY <1>7 DEF TagsTyped, TagStore
<1>10. tags' \in TagStore /\ tagFile' = tags'
  BY <1>4, <1>8, <1>9 DEF SaveTags, TagStore
<1> QED
  BY <1>3, <1>6, <1>10 DEF TagsTyped

(* Every step keeps the types.                                             *)
LEMMA StoreStepsTyped ==
  ASSUME Typed,
         \/ \E k \in Key : RevokeToken(k)
         \/ \E n \in TagName : CreateTag(n)
         \/ \E t \in TagId, n \in TagName : RenameTag(t, n) \/ RenameTagFails(t, n)
         \/ \E t \in TagId : DeleteTag(t)
         \/ SweepUnused
  PROVE  Typed'
<1> USE DEF Typed
<1>1. ASSUME NEW k \in Key, RevokeToken(k) PROVE Typed'
  <2>1. Dropped(k) \in [Key -> KeyRow]
    BY DEF Dropped, KeyRow, KeysTyped
  <2> QED
    BY <1>1, <2>1, ServeTyped
       DEF RevokeToken, Revoked, SaveKeys, KeysTyped, TagsTyped, WorldTyped, tagVars, world
<1>2. ASSUME NEW n \in TagName, CreateTag(n) PROVE Typed'
  <2>1. created \in Nat /\ created + 1 \in TagId /\ created' \in 0..MaxTags
    BY <1>2, Bounds DEF CreateTag, TagsTyped, TagId
  <2>2. [tags EXCEPT !.name[created + 1] = n] \in TagStore
    BY <2>1, NamedType
  <2> QED
    BY <1>2, <2>1, <2>2, ServeTyped, FoldType
       DEF CreateTag, SaveTags, KeysTyped, TagsTyped, WorldTyped, keyVars, world
<1>3. ASSUME NEW t \in TagId, NEW n \in TagName, RenameTag(t, n) PROVE Typed'
  <2>1. Reindexed(t, n) \in [Lower -> TagId \cup {0}]
    BY FoldType DEF Reindexed, TagsTyped
  <2> QED
    BY <1>3, <2>1, NamedType, ServeTyped
       DEF RenameTag, SaveTags, KeysTyped, TagsTyped, WorldTyped, keyVars, world
<1>4. ASSUME NEW t \in TagId, NEW n \in TagName, RenameTagFails(t, n) PROVE Typed'
  <2>1. Reindexed(t, n) \in [Lower -> TagId \cup {0}]
    BY FoldType DEF Reindexed, TagsTyped
  <2>2. index' \in [Lower -> TagId \cup {0}]
    BY <1>4, <2>1 DEF RenameTagFails
  <2> QED
    BY <1>4, <2>2, ServeTyped
       DEF RenameTagFails, KeysTyped, TagsTyped, WorldTyped, keyVars, world
<1>5. ASSUME NEW t \in TagId, DeleteTag(t) PROVE Typed'
  BY <1>5, WithoutType, ServeTyped
     DEF DeleteTag, SaveTags, KeysTyped, TagsTyped, WorldTyped, keyVars, world
<1>6. ASSUME SweepUnused PROVE Typed'
  <2>1. [tags EXCEPT !.name = [t \in TagId |-> IF t \in Unused THEN None ELSE @[t]]] \in TagStore
    BY DEF TagsTyped, TagStore
  <2> QED
    BY <1>6, <2>1, ServeTyped
       DEF SweepUnused, SaveTags, KeysTyped, TagsTyped, WorldTyped, keyVars, world
<1> QED
  BY <1>1, <1>2, <1>3, <1>4, <1>5, <1>6

(* Requests that begin.                                                    *)
LEMMA BeginsTyped ==
  ASSUME Typed, NEW r \in Request, Begins(r)
  PROVE  Typed'
<1> USE DEF Typed
<1>1. ASSUME NEW job, WellFormed(job), Begin(r, job),
             UNCHANGED <<keyVars, tagVars, world>>
      PROVE  Typed'
  BY <1>1, BeginTyped DEF KeysTyped, TagsTyped, WorldTyped, keyVars, tagVars, world
<1> HIDE DEF Typed
<1>2. ASSUME NEW u \in Username, NEW p \in Repo, NEW m \in YesNo, IssueToken(r, u, p, m)
      PROVE  Typed'
  <2> DEFINE job == [Idle EXCEPT !.pc = "issue", !.user = u, !.repo = p, !.mirror = m]
  <2>1. job \in Job /\ job.names = {} /\ job.pc = "issue" /\ job.user = u /\ job.repo = p
    BY DEF Idle, Job, Pcs
  <2>2. WellFormed(job)
    BY <2>1, FS_EmptySet DEF WellFormed, Gates
  <2> QED
    BY <1>1, <1>2, <2>2 DEF IssueToken
<1>3. ASSUME NEW k \in Key, NEW parts \in SUBSET {"move", "ability", "retag"},
             NEW p \in Repo \cup {None}, NEW m \in YesNo \cup {None},
             "move" \in parts => p \in Repo,
             NEW names \in NameSets \cup {{}}, UpdateToken(r, k, parts, p, m, names)
      PROVE  Typed'
  <2> DEFINE job == [Idle EXCEPT !.pc = "patch", !.parts = parts, !.key = k, !.repo = p,
                                 !.mirror = m, !.names = names]
  <2>1. names \in SUBSET TagName /\ IsFiniteSet(names)
    BY FS_EmptySet DEF NameSets
  <2>2. job \in Job /\ job.names = names /\ job.pc = "patch" /\ job.key = k
        /\ job.parts = parts /\ job.repo = p
    BY <2>1 DEF Idle, Job, Pcs
  <2>3. WellFormed(job)
    BY <1>3, <2>1, <2>2 DEF WellFormed, Gates
  <2> QED
    BY <1>1, <1>3, <2>3 DEF UpdateToken
<1>4. ASSUME NEW e \in Entity, NEW names \in NameSets, TagEntity(r, e, names)
      PROVE  Typed'
  <2> DEFINE job == [Idle EXCEPT !.pc = "settags", !.entity = e, !.names = names]
  <2>1. names \in SUBSET TagName /\ IsFiniteSet(names)
    BY DEF NameSets
  <2>2. job \in Job /\ job.names = names /\ job.pc = "settags" /\ job.entity = e
    BY <2>1 DEF Idle, Job, Pcs
  <2>3. WellFormed(job)
    BY <2>1, <2>2 DEF WellFormed, Gates
  <2> QED
    BY <1>1, <1>4, <2>3 DEF TagEntity
<1>5. ASSUME NEW want \in SUBSET Lower, RevokeByTag(r, want)
      PROVE  Typed'
  <2> DEFINE job == [Idle EXCEPT !.pc = "revoking", !.todo = Matches(want)]
  <2>1. Matches(want) \in SUBSET Key
    BY DEF Matches, Live
  <2>2. job \in Job /\ job.names = {} /\ job.pc = "revoking"
    BY <2>1 DEF Idle, Job, Pcs
  <2>3. WellFormed(job)
    BY <2>2, FS_EmptySet DEF WellFormed, Gates
  <2> QED
    BY <1>1, <1>5, <2>3 DEF RevokeByTag
<1>6. ASSUME NEW k \in Key, NEW p \in Repo \cup {None}, NEW m \in YesNo, Present(r, k, p, m)
      PROVE  Typed'
  <2> DEFINE fit == role[AccountOf[keys[k].user]] \in MayMirror
             job == [Idle EXCEPT !.pc = "opens", !.key = k, !.user = keys[k].user,
                                 !.repo = p, !.mirror = m, !.fit = fit]
  <2>1. keys[k].user \in Username
    BY <1>6 DEF Present, Authentic, Live, Typed, KeysTyped, KeyRow, NoKey
  <2>2. fit \in BOOLEAN
    OBVIOUS
  <2> HIDE DEF fit
  <2>3. job \in Job /\ job.names = {} /\ job.pc = "opens" /\ job.user = keys[k].user
        /\ job.key = k
    BY <2>1, <2>2 DEF Idle, Job, Pcs, Gates
  <2>4. WellFormed(job)
    BY <2>1, <2>3, FS_EmptySet DEF WellFormed
  <2> QED
    BY <1>1, <1>6, <2>4 DEF Present, fit
<1> QED
  BY <1>2, <1>3, <1>4, <1>5, <1>6 DEF Begins

(* A key that is moved is a key.                                           *)
LEMMA MovedType ==
  ASSUME KeysTyped, NEW k \in Live, NEW p \in Repo
  PROVE  [keys EXCEPT ![k].repo = p] \in [Key -> KeyRow]
<1>1. k \in Key /\ keys[k] \in [user : Username, repo : Repo, mirror : BOOLEAN]
  BY DEF Live, KeysTyped, KeyRow
<1>2. [keys[k] EXCEPT !.repo = p] \in KeyRow
  BY <1>1 DEF KeyRow
<1> QED
  BY <1>1, <1>2 DEF KeysTyped

(* A key that gets another ability is a key.                               *)
LEMMA AbilitySetType ==
  ASSUME KeysTyped, NEW k \in Live, NEW b \in BOOLEAN
  PROVE  [keys EXCEPT ![k].mirror = b] \in [Key -> KeyRow]
<1>1. k \in Key /\ keys[k] \in [user : Username, repo : Repo, mirror : BOOLEAN]
  BY DEF Live, KeysTyped, KeyRow
<1>2. [keys[k] EXCEPT !.mirror = b] \in KeyRow
  BY <1>1 DEF KeyRow
<1> QED
  BY <1>1, <1>2 DEF KeysTyped

(* Requests that go on.                                                    *)
LEMMA StepsTyped ==
  ASSUME Typed, NEW r \in Request, Steps(r)
  PROVE  Typed'
<1>1. WellFormed(req[r]) /\ req[r] \in Job /\ IsFiniteSet(req[r].names)
  BY DEF Typed, ReqsTyped, WellFormed
<1>2. ASSUME NEW job, WellFormed(job), Goto(r, job), KeysTyped', TagsTyped', UNCHANGED world
      PROVE  Typed'
  BY <1>2, GotoTyped DEF Typed, WorldTyped, world
<1>3. ASSUME UNCHANGED keyVars PROVE KeysTyped'
  BY <1>3 DEF Typed, KeysTyped, keyVars
<1>4. ASSUME UNCHANGED tagVars PROVE TagsTyped'
  BY <1>4 DEF Typed, TagsTyped, tagVars
<1>5. ASSUME NEW map \in [Key -> KeyRow], SaveKeys(map), issued' = issued, gone' \subseteq Key
      PROVE  KeysTyped'
  BY <1>5 DEF Typed, KeysTyped, SaveKeys
<1>6. ASSUME NEW part, req[r].pc \in {"patch", "allowed"},
             req[r].pc = "allowed" => "move" \notin req[r].parts
      PROVE  WellFormed(Patched(req[r], part))
  <2> DEFINE job == [req[r] EXCEPT !.pc = "patch", !.parts = @ \ {part}]
  <2>1. job \in Job /\ job.names = req[r].names /\ job.pc = "patch" /\ job.key = req[r].key
        /\ job.parts \subseteq req[r].parts /\ job.repo = req[r].repo
    BY <1>1 DEF Job, Pcs
  <2>2. WellFormed(job)
    BY <1>1, <1>6, <2>1 DEF WellFormed, Gates
  <2> QED
    BY <2>2, IdleType DEF Patched
<1>7. CASE Issue(r)
  <2>1. ASSUME issued < MaxKeys, issued' = issued + 1, gone' = gone,
               SaveKeys([keys EXCEPT ![issued + 1] =
                 [user |-> req[r].user, repo |-> req[r].repo, mirror |-> req[r].mirror = "yes"]])
        PROVE  KeysTyped'
    <3>1. [user |-> req[r].user, repo |-> req[r].repo, mirror |-> req[r].mirror = "yes"] \in KeyRow
      BY <1>1, <1>7 DEF KeyRow, WellFormed, Issue
    <3>2. issued + 1 \in 0..MaxKeys
      BY <2>1, Bounds DEF Typed, KeysTyped
    <3> QED
      BY <2>1, <3>1, <3>2 DEF Typed, KeysTyped, SaveKeys
  <2>2. KeysTyped'
    BY <1>3, <1>7, <2>1 DEF Issue, keyVars
  <2> QED
    BY <1>2, <1>4, <1>7, <2>2, IdleType DEF Issue
<1>8. CASE UpdateRepo(r)
  <2>1. [keys EXCEPT ![req[r].key].repo = req[r].repo] \in [Key -> KeyRow]
        \/ req[r].key \notin Live
    BY <1>1, <1>8, MovedType DEF UpdateRepo, WellFormed, Typed
  <2>2. KeysTyped'
    BY <1>3, <1>5, <1>8, <2>1 DEF UpdateRepo, keyVars, Typed, KeysTyped
  <2>3. WellFormed(Patched(req[r], "move"))
    BY <1>6, <1>8 DEF UpdateRepo
  <2> QED
    BY <1>2, <1>4, <1>8, <2>2, <2>3, IdleType DEF UpdateRepo
<1>9. CASE CheckAbility(r)
  <2> DEFINE job == [req[r] EXCEPT !.pc = "allowed"]
  <2>1. job \in Job /\ job.names = req[r].names /\ job.pc = "allowed" /\ job.key = req[r].key
    BY <1>1 DEF Job, Pcs
  <2>2. WellFormed(job)
    BY <1>1, <1>9, <2>1 DEF WellFormed, Gates, CheckAbility
  <2> QED
    BY <1>2, <1>3, <1>4, <1>9, <2>2, IdleType DEF CheckAbility
<1>10. CASE UpdateAbilities(r)
  <2>1. [keys EXCEPT ![req[r].key].mirror = req[r].mirror = "yes"] \in [Key -> KeyRow]
        \/ req[r].key \notin Live
    BY <1>1, <1>10, AbilitySetType DEF UpdateAbilities, WellFormed, Typed
  <2>2. KeysTyped'
    BY <1>3, <1>5, <1>10, <2>1 DEF UpdateAbilities, keyVars, Typed, KeysTyped
  <2>3. WellFormed(Patched(req[r], "ability"))
    <3>1. req[r].pc = "allowed" /\ "move" \notin req[r].parts
      BY <1>1, <1>10 DEF UpdateAbilities, WellFormed
    <3> QED
      BY <1>6, <3>1
  <2> QED
    BY <1>2, <1>4, <1>10, <2>2, <2>3, IdleType DEF UpdateAbilities
<1>11. CASE CheckKey(r)
  <2> DEFINE job == [Idle EXCEPT !.pc = "settags", !.entity = <<req[r].key, "key">>,
                                 !.names = req[r].names]
  <2>1. req[r].key \in Key
    BY <1>1, <1>11 DEF CheckKey, WellFormed
  <2>2. <<req[r].key, "key">> \in Entity
    BY <2>1 DEF Entity
  <2>3. job \in Job /\ job.names = req[r].names /\ job.pc = "settags"
        /\ job.entity = <<req[r].key, "key">>
    BY <1>1, <2>2 DEF Idle, Job, Pcs
  <2>4. WellFormed(job)
    BY <1>1, <2>2, <2>3 DEF WellFormed, Gates
  <2> QED
    BY <1>2, <1>3, <1>4, <1>11, <2>4, IdleType DEF CheckKey
<1>12. CASE SetEntityTags(r)
  <2>1. req[r].entity \in Entity /\ req[r].names \in SUBSET TagName
    BY <1>1, <1>12 DEF SetEntityTags, WellFormed, Job
  <2>2. TagsTyped'
    BY <1>1, <1>4, <1>12, <2>1, SetTagsType DEF SetEntityTags, Typed
  <2> QED
    BY <1>2, <1>3, <1>12, <2>2, IdleType DEF SetEntityTags
<1>13. CASE RevokeDone(r)
  BY <1>2, <1>3, <1>4, <1>13, IdleType DEF RevokeDone
<1>14. ASSUME NEW k \in Key, RevokeNext(r, k) PROVE Typed'
  <2> DEFINE job == [req[r] EXCEPT !.todo = @ \ {k}]
  <2>1. job \in Job /\ job.names = req[r].names /\ job.pc = "revoking"
    BY <1>1, <1>14 DEF Job, RevokeNext
  <2>2. WellFormed(job)
    BY <1>1, <2>1 DEF WellFormed, Gates
  <2>3. Dropped(k) \in [Key -> KeyRow]
    BY DEF Dropped, KeyRow, Typed, KeysTyped
  <2>4. KeysTyped'
    BY <1>3, <1>14, <2>3 DEF RevokeNext, Revoked, SaveKeys, keyVars, Typed, KeysTyped
  <2> QED
    BY <1>2, <1>4, <1>14, <2>2, <2>4 DEF RevokeNext
<1>15. ASSUME NEW pc \in Gates, NEW passes, NEW next \in Gates \cup {"idle"},
              Gate(r, pc, passes, next)
       PROVE  Typed'
  <2> DEFINE job == [req[r] EXCEPT !.pc = next]
  <2>1. job \in Job /\ job.names = req[r].names /\ job.pc = next
        /\ job.user = req[r].user /\ job.key = req[r].key
    BY <1>1 DEF Job, Pcs
  <2>2. WellFormed(job)
    BY <1>1, <1>15, <2>1 DEF WellFormed, Gates, Gate
  <2> QED
    BY <1>2, <1>3, <1>4, <1>15, <2>2, IdleType DEF Gate
<1> QED
  BY <1>7, <1>8, <1>9, <1>10, <1>11, <1>12, <1>13, <1>14, <1>15
     DEF Steps, PassRepo, PassRole, PassAbility, Use, Gates

(* The world changes, and the stores are read back.                        *)
LEMMA WorldStepsTyped ==
  ASSUME Typed,
         \/ \E a \in Account, to \in Role : AccountChanges(a, to)
         \/ \E p \in Repo : RepoChanges(p)
         \/ Restart
  PROVE  Typed'
<1>1. Change => changes' \in 0..MaxChanges
  BY Bounds DEF Change, Typed, WorldTyped
<1>2. ASSUME NEW a \in Account, NEW to \in Role, AccountChanges(a, to) PROVE Typed'
  <2>1. ReqsTyped'
    <3>1. ASSUME NEW r \in Request PROVE WellFormed(req'[r])
      <4> DEFINE job == [req[r] EXCEPT !.fit = TRUE]
      <4>1. WellFormed(req[r]) /\ req[r] \in Job
        BY DEF Typed, ReqsTyped, WellFormed
      <4>2. job \in Job /\ job.names = req[r].names /\ job.pc = req[r].pc
            /\ job.user = req[r].user /\ job.key = req[r].key /\ job.repo = req[r].repo
            /\ job.parts = req[r].parts /\ job.entity = req[r].entity
        BY <4>1 DEF Job
      <4>3. WellFormed(job)
        BY <4>1, <4>2 DEF WellFormed
      <4>4. req'[r] \in {job, req[r]}
        BY <1>2 DEF AccountChanges
      <4> QED
        BY <4>1, <4>3, <4>4
    <3> QED
      BY <1>2, <3>1 DEF AccountChanges, Typed, ReqsTyped, WellFormed
  <2> QED
    BY <1>1, <1>2, <2>1
       DEF AccountChanges, Typed, KeysTyped, TagsTyped, WorldTyped, keyVars, tagVars
<1>3. ASSUME NEW p \in Repo, RepoChanges(p) PROVE Typed'
  BY <1>1, <1>3
     DEF RepoChanges, Typed, KeysTyped, TagsTyped, WorldTyped, ReqsTyped, keyVars, tagVars
<1>4. CASE Restart
  <2>1. IndexOf(tagFile.name) \in [Lower -> TagId \cup {0}]
    BY IndexOfType DEF Typed, TagsTyped, TagStore
  <2>2. ReqsTyped'
    BY <1>4, IdleType DEF Restart, Typed, ReqsTyped, WellFormed
  <2> QED
    BY <1>1, <1>4, <2>1, <2>2 DEF Restart, Typed, KeysTyped, TagsTyped, WorldTyped
<1> QED
  BY <1>2, <1>3, <1>4

(* The server starts that way.                                             *)
LEMMA InitTyped == Init => Typed
<1> SUFFICES ASSUME Init PROVE Typed
  OBVIOUS
<1>1. KeysTyped
  BY Bounds DEF Init, KeysTyped, KeyRow
<1>2. TagsTyped
  BY Bounds DEF Init, TagsTyped, TagStore
<1>3. WorldTyped
  BY Bounds DEF Init, WorldTyped, Role
<1>4. ReqsTyped
  BY Bounds, IdleType DEF Init, ReqsTyped, WellFormed
<1> QED
  BY <1>1, <1>2, <1>3, <1>4 DEF Typed

(* Every step of any behaviour keeps the types.                            *)
LEMMA NextTyped == Typed /\ [Next]_vars => Typed'
<1> SUFFICES ASSUME Typed, [Next]_vars PROVE Typed'
  OBVIOUS
<1>1. CASE UNCHANGED vars
  BY <1>1 DEF vars, Typed, KeysTyped, TagsTyped, WorldTyped, ReqsTyped, WellFormed
<1>2. CASE Next
  BY <1>2, BeginsTyped, StepsTyped, StoreStepsTyped, WorldStepsTyped DEF Next
<1> QED
  BY <1>1, <1>2

(* TypeOK holds whatever the requests do.                                  *)
THEOREM TypeCorrect == Spec => []TypeOK
<1>1. Typed => TypeOK
  BY DEF Typed, KeysTyped, TagsTyped, WorldTyped, ReqsTyped, TypeOK
<1> QED
  BY <1>1, InitTyped, NextTyped, PTL DEF Spec

-----------------------------------------------------------------------------
(* The invariant behind the safety properties.  Ids are never used twice,  *)
(* so a request that looked a key up finds that key or none; and whatever  *)
(* a request was allowed, the account it was allowed for was entitled.     *)

Store ==
  /\ keyFile = keys
  /\ \A k \in Key : k > issued => keys[k] = NoKey
  /\ \A k \in gone : k <= issued /\ keys[k] = NoKey
  /\ OneKeyPerName

Rightful ==
  /\ \A a \in Account : role[a] \in MayMirror => a \in entitled
  /\ \A k \in Key : keys[k] # NoKey /\ keys[k].mirror => AccountOf[keys[k].user] \in entitled

Secured(job) ==
  /\ job.pc = "issue" /\ job.mirror = "yes" => AccountOf[job.user] \in entitled
  /\ job.pc \in {"patch", "allowed"} => job.key <= issued
  /\ job.pc = "allowed" /\ job.mirror = "yes" /\ keys[job.key] # NoKey =>
       AccountOf[keys[job.key].user] \in entitled
  /\ job.pc \in Gates /\ role[AccountOf[job.user]] \in MayMirror => job.fit
  /\ job.pc = "able" \/ (job.pc = "uses" /\ job.mirror = "yes") => job.fit

Safe == Store /\ Rightful /\ \A r \in Request : Secured(req[r])

(* What a request knows stays true while the store changes under it.       *)
Lasting == \A job \in Job : WellFormed(job) /\ Secured(job) => Secured(job)'

(* A goroutine at rest.                                                    *)
LEMMA IdleSecured == Secured(Idle) /\ Secured(Idle)'
BY DEF Secured, Idle, Gates

(* A step of one request, given that what the others know lasts.           *)
LEMMA OthersSecured ==
  ASSUME Typed, Safe, Lasting, NEW r \in Request, NEW job, Secured(job)',
         req' = [req EXCEPT ![r] = job]
  PROVE  \A q \in Request : Secured(req[q])'
<1>1. ASSUME NEW q \in Request PROVE Secured(req[q])'
  <2>1. req'[q] = IF q = r THEN job ELSE req[q]
    BY DEF Typed, ReqsTyped
  <2>2. Secured(req[q]) /\ WellFormed(req[q]) /\ req[q] \in Job
    BY DEF Safe, Typed, ReqsTyped
  <2>3. \A old \in Job : WellFormed(old) /\ Secured(old) /\ old = req'[q] => Secured(req[q])'
    <3>1. ASSUME NEW old \in Job, WellFormed(old), Secured(old), old = req'[q]
          PROVE  Secured(req[q])'
      <4>1. Secured(old)'
        BY <3>1 DEF Lasting
      <4> QED
        BY <3>1, <4>1 DEF Secured
    <3> QED
      BY <3>1
  <2>4. CASE q = r
    BY <2>1, <2>4 DEF Secured
  <2>5. CASE q # r
    BY <2>1, <2>2, <2>3, <2>5
  <2> QED
    BY <2>4, <2>5
<1> QED
  BY <1>1

(* A step that leaves the keys and the accounts alone.                     *)
LEMMA QuietLasts ==
  ASSUME Typed, Safe, UNCHANGED <<keyVars, role, entitled>>
  PROVE  Store' /\ Rightful' /\ Lasting
<1>1. Store'
  BY DEF Safe, Store, OneKeyPerName, Live, keyVars
<1>2. Rightful'
  BY DEF Safe, Rightful, keyVars
<1>3. Lasting
  BY DEF Lasting, Secured, keyVars
<1> QED
  BY <1>1, <1>2, <1>3

(* Revoking a key.                                                         *)
LEMMA RevokeLasts ==
  ASSUME Typed, Safe, NEW k \in Key, Revoked(k), UNCHANGED <<issued, role, entitled>>
  PROVE  Store' /\ Rightful' /\ Lasting
<1>1. keys' = [keys EXCEPT ![k] = NoKey] /\ keyFile' = keys' /\ keys \in [Key -> KeyRow]
      /\ gone' = gone \cup {k} /\ k <= issued /\ gone \subseteq Key
  BY DEF Revoked, SaveKeys, Dropped, Safe, Store, Live, Typed, KeysTyped, Key
<1>2. \A l \in Key : keys'[l] = IF l = k THEN NoKey ELSE keys[l]
  BY <1>1
<1>3. Store'
  BY <1>1, <1>2 DEF Safe, Store, OneKeyPerName, Live
<1>4. Rightful'
  BY <1>1, <1>2 DEF Safe, Rightful
<1>5. Lasting
  BY <1>1, <1>2 DEF Lasting, Secured, WellFormed
<1> QED
  BY <1>3, <1>4, <1>5

(* Issuing a key.                                                          *)
LEMMA IssueLasts ==
  ASSUME Typed, Safe, NEW r \in Request, req[r].pc = "issue",
         issued < MaxKeys, \A k \in Key : ~Holds(k, req[r].user, req[r].repo),
         issued' = issued + 1,
         SaveKeys([keys EXCEPT ![issued + 1] =
           [user |-> req[r].user, repo |-> req[r].repo, mirror |-> req[r].mirror = "yes"]]),
         UNCHANGED <<gone, role, entitled>>
  PROVE  Store' /\ Rightful' /\ Lasting
<1> DEFINE new == [user |-> req[r].user, repo |-> req[r].repo, mirror |-> req[r].mirror = "yes"]
<1>1. issued \in Nat /\ issued + 1 \in Key /\ issued + 1 > issued
  BY Bounds DEF Typed, KeysTyped, Key
<1>2. keys' = [keys EXCEPT ![issued + 1] = new] /\ keyFile' = keys' /\ keys \in [Key -> KeyRow]
  BY DEF SaveKeys, Typed, KeysTyped
<1>3. \A l \in Key : keys'[l] = IF l = issued + 1 THEN new ELSE keys[l]
  BY <1>1, <1>2
<1>4. new # NoKey /\ new.user = req[r].user /\ new.repo = req[r].repo
  <2>1. req[r].user \in Username
    BY DEF Typed, ReqsTyped, WellFormed
  <2> QED
    BY <2>1, KeysAssumption DEF NoKey
<1>5. new.mirror => AccountOf[new.user] \in entitled
  BY DEF Safe, Secured
<1>6. \A l \in Key : l \in Nat
  BY DEF Key
<1> HIDE DEF new
<1>7. Store'
  <2>1. \A k \in Key : k > issued' => keys'[k] = NoKey
    BY <1>1, <1>3, <1>6 DEF Safe, Store
  <2>2. \A k \in gone' : k <= issued' /\ keys'[k] = NoKey
    BY <1>1, <1>3, <1>6 DEF Safe, Store, Typed, KeysTyped
  <2>3. \A k \in Live : keys[k].user # new.user \/ keys[k].repo # new.repo
    BY <1>4 DEF Holds, Live
  <2>4. OneKeyPerName'
    BY <1>3, <2>3 DEF Safe, Store, OneKeyPerName, Live
  <2> QED
    BY <1>2, <2>1, <2>2, <2>4 DEF Store
<1>8. Rightful'
  BY <1>3, <1>5 DEF Safe, Rightful
<1>9. Lasting
  <2>1. ASSUME NEW job \in Job, WellFormed(job), Secured(job) PROVE Secured(job)'
    <3>1. job.pc \in {"patch", "allowed"} =>
            job.key \in Nat /\ job.key <= issued' /\ keys'[job.key] = keys[job.key]
      BY <1>1, <1>3, <1>6, <2>1 DEF WellFormed, Secured
    <3> QED
      BY <2>1, <3>1 DEF Secured
  <2> QED
    BY <2>1 DEF Lasting
<1> QED
  BY <1>7, <1>8, <1>9

(* Moving a key to another repository.                                     *)
LEMMA MoveLasts ==
  ASSUME Typed, Safe, NEW k \in Live, NEW repo \in Repo,
         keys[k].repo = repo \/ MayMove(k, repo),
         SaveKeys([keys EXCEPT ![k].repo = repo]), UNCHANGED <<issued, gone, role, entitled>>
  PROVE  Store' /\ Rightful' /\ Lasting
<1>1. k \in Key /\ keys[k] # NoKey /\ keys \in [Key -> KeyRow] /\ k <= issued /\ k \notin gone
  BY DEF Live, Typed, KeysTyped, Safe, Store, Key
<1> DEFINE moved == [keys[k] EXCEPT !.repo = repo]
<1>2. keys' = [keys EXCEPT ![k] = moved] /\ keyFile' = keys'
  BY <1>1 DEF SaveKeys
<1>3. moved.user = keys[k].user /\ moved.repo = repo /\ moved.mirror = keys[k].mirror
      /\ moved # NoKey
  BY <1>1, KeysAssumption DEF KeyRow, NoKey
<1> HIDE DEF moved
<1>4. \A l \in Key : keys'[l] = IF l = k THEN moved ELSE keys[l]
  BY <1>1, <1>2
<1>5. Store'
  <2>1. \A l \in Live : l # k => keys[l].user # moved.user \/ keys[l].repo # moved.repo
    BY <1>1, <1>3 DEF MayMove, Holds, Live, Safe, Store, OneKeyPerName
  <2>2. OneKeyPerName'
    BY <1>4, <2>1 DEF Safe, Store, OneKeyPerName, Live
  <2>3. \A l \in Key : l > issued => l # k
    BY <1>1 DEF Typed, KeysTyped, Key
  <2> QED
    BY <1>1, <1>2, <1>4, <2>2, <2>3 DEF Safe, Store, Typed, KeysTyped
<1>6. Rightful'
  BY <1>1, <1>3, <1>4 DEF Safe, Rightful
<1>7. Lasting
  BY <1>1, <1>3, <1>4 DEF Lasting, Secured, WellFormed
<1> QED
  BY <1>5, <1>6, <1>7

(* Giving a key the ability, or taking it.                                 *)
LEMMA AbilityLasts ==
  ASSUME Typed, Safe, NEW k \in Live, NEW yes \in BOOLEAN,
         yes => AccountOf[keys[k].user] \in entitled,
         SaveKeys([keys EXCEPT ![k].mirror = yes]), UNCHANGED <<issued, gone, role, entitled>>
  PROVE  Store' /\ Rightful' /\ Lasting
<1>1. k \in Key /\ keys[k] # NoKey /\ keys \in [Key -> KeyRow] /\ k <= issued /\ k \notin gone
  BY DEF Live, Typed, KeysTyped, Safe, Store, Key
<1> DEFINE other == [keys[k] EXCEPT !.mirror = yes]
<1>2. keys' = [keys EXCEPT ![k] = other] /\ keyFile' = keys'
  BY <1>1 DEF SaveKeys
<1>3. other.user = keys[k].user /\ other.repo = keys[k].repo /\ other.mirror = yes
      /\ other # NoKey
  BY <1>1, KeysAssumption DEF KeyRow, NoKey
<1> HIDE DEF other
<1>4. \A l \in Key : keys'[l] = IF l = k THEN other ELSE keys[l]
  BY <1>1, <1>2
<1>5. Store'
  <2>1. OneKeyPerName'
    BY <1>1, <1>3, <1>4 DEF Safe, Store, OneKeyPerName, Live
  <2>2. \A l \in Key : l > issued => l # k
    BY <1>1 DEF Typed, KeysTyped, Key
  <2> QED
    BY <1>1, <1>2, <1>4, <2>1, <2>2 DEF Safe, Store, Typed, KeysTyped
<1>6. Rightful'
  BY <1>3, <1>4 DEF Safe, Rightful
<1>7. Lasting
  BY <1>1, <1>3, <1>4 DEF Lasting, Secured, WellFormed
<1> QED
  BY <1>5, <1>6, <1>7

(* Requests that begin know what they need.                                *)
LEMMA BeginsSafe ==
  ASSUME Typed, Safe, NEW r \in Request, Begins(r)
  PROVE  Safe'
<1>1. ASSUME NEW job, Begin(r, job), Secured(job)', UNCHANGED <<keyVars, tagVars, world>>
      PROVE  Safe'
  <2>1. Store' /\ Rightful' /\ Lasting
    BY <1>1, QuietLasts DEF world
  <2> QED
    BY <1>1, <2>1, OthersSecured DEF Begin, Safe
<1>2. ASSUME NEW u \in Username, NEW p \in Repo, NEW m \in YesNo, IssueToken(r, u, p, m)
      PROVE  Safe'
  <2> DEFINE job == [Idle EXCEPT !.pc = "issue", !.user = u, !.repo = p, !.mirror = m]
  <2>1. job.pc = "issue" /\ job.user = u /\ job.mirror = m
    BY DEF Idle
  <2>2. m = "yes" => AccountOf[u] \in entitled
    BY <1>2, KeysAssumption DEF IssueToken, Allowed, Safe, Rightful
  <2>3. Secured(job)'
    BY <1>2, <2>1, <2>2 DEF Secured, Gates, IssueToken, world
  <2> QED
    BY <1>1, <1>2, <2>3 DEF IssueToken
<1>3. ASSUME NEW k \in Key, NEW parts, NEW p, NEW m, NEW names, UpdateToken(r, k, parts, p, m, names)
      PROVE  Safe'
  <2> DEFINE job == [Idle EXCEPT !.pc = "patch", !.parts = parts, !.key = k, !.repo = p,
                                 !.mirror = m, !.names = names]
  <2>1. job.pc = "patch" /\ job.key = k
    BY DEF Idle
  <2>2. Secured(job)'
    BY <1>3, <2>1 DEF Secured, Gates, UpdateToken, keyVars
  <2> QED
    BY <1>1, <1>3, <2>2 DEF UpdateToken
<1>4. ASSUME NEW e, NEW names, TagEntity(r, e, names)
      PROVE  Safe'
  <2> DEFINE job == [Idle EXCEPT !.pc = "settags", !.entity = e, !.names = names]
  <2>1. job.pc = "settags"
    BY DEF Idle
  <2>2. Secured(job)'
    BY <2>1 DEF Secured, Gates
  <2> QED
    BY <1>1, <1>4, <2>2 DEF TagEntity
<1>5. ASSUME NEW want, RevokeByTag(r, want)
      PROVE  Safe'
  <2>0. PICK job : job = [Idle EXCEPT !.pc = "revoking", !.todo = Matches(want)]
    OBVIOUS
  <2>1. job.pc = "revoking"
    BY <2>0 DEF Idle
  <2>2. Secured(job)'
    BY <2>1 DEF Secured, Gates
  <2> QED
    BY <1>1, <1>5, <2>0, <2>2 DEF RevokeByTag
<1>6. ASSUME NEW k \in Key, NEW p, NEW m, Present(r, k, p, m)
      PROVE  Safe'
  <2>0. PICK job : job = [Idle EXCEPT !.pc = "opens", !.key = k, !.user = keys[k].user,
                                      !.repo = p, !.mirror = m,
                                      !.fit = role[AccountOf[keys[k].user]] \in MayMirror]
    OBVIOUS
  <2>1. /\ job.pc = "opens" /\ job.user = keys[k].user
        /\ job.fit = (role[AccountOf[keys[k].user]] \in MayMirror)
    BY <2>0 DEF Idle
  <2>2. Secured(job)'
    BY <1>6, <2>1 DEF Secured, Present, world
  <2> QED
    BY <1>1, <1>6, <2>0, <2>2 DEF Present
<1> QED
  BY <1>2, <1>3, <1>4, <1>5, <1>6 DEF Begins

(* A request that goes on still knows what it needs.                       *)
LEMMA StepsSafe ==
  ASSUME Typed, Safe, NEW r \in Request, Steps(r)
  PROVE  Safe'
<1>1. WellFormed(req[r]) /\ req[r] \in Job /\ Secured(req[r])
  BY DEF Safe, Typed, ReqsTyped
<1>2. ASSUME NEW job, Goto(r, job), Secured(job)', Store' /\ Rightful' /\ Lasting
      PROVE  Safe'
  BY <1>2, OthersSecured DEF Goto, Safe
<1>3. ASSUME NEW job, Goto(r, job), Secured(job)', UNCHANGED <<keyVars, role, entitled>>
      PROVE  Safe'
  BY <1>2, <1>3, QuietLasts
<1>4. ASSUME NEW part, NEW job, job = Patched(req[r], part),
             req[r].pc \in {"patch", "allowed"}, issued' = issued
      PROVE  Secured(job)'
  <2>1. CASE job = Idle
    BY <2>1, IdleSecured
  <2>2. CASE job # Idle
    <3>1. job.pc = "patch" /\ job.key = req[r].key
      BY <1>1, <1>4, <2>2 DEF Job, Patched
    <3> QED
      BY <1>1, <1>4, <3>1 DEF Secured, Gates
  <2> QED
    BY <2>1, <2>2
<1>5. CASE Issue(r)
  <2>1. CASE UNCHANGED <<keys, keyFile, issued>>
    BY <1>3, <1>5, <2>1, IdleSecured DEF Issue, keyVars, world
  <2>2. CASE ~UNCHANGED <<keys, keyFile, issued>>
    BY <1>2, <1>5, <2>2, IssueLasts, IdleSecured DEF Issue, world
  <2> QED
    BY <2>1, <2>2
<1>6. CASE UpdateRepo(r)
  <2>1. CASE Goto(r, Idle) /\ UNCHANGED <<keys, keyFile>>
    BY <1>3, <1>6, <2>1, IdleSecured DEF UpdateRepo, keyVars, world
  <2>2. CASE ~(Goto(r, Idle) /\ UNCHANGED <<keys, keyFile>>)
    <3>1. PICK job : job = Patched(req[r], "move")
      OBVIOUS
    <3>2. Secured(job)' /\ req[r].repo \in Repo /\ Goto(r, job)
      BY <1>1, <1>4, <1>6, <2>2, <3>1 DEF UpdateRepo, WellFormed
    <3>3. Store' /\ Rightful' /\ Lasting
      BY <1>6, <2>2, <3>2, MoveLasts DEF UpdateRepo, world
    <3> QED
      BY <1>2, <3>2, <3>3
  <2> QED
    BY <2>1, <2>2
<1>7. CASE CheckAbility(r)
  <2>0. PICK job : job = [req[r] EXCEPT !.pc = "allowed"]
    OBVIOUS
  <2>1. job.pc = "allowed" /\ job.key = req[r].key /\ job.mirror = req[r].mirror
    BY <1>1, <2>0 DEF Job
  <2>2. ASSUME req[r].key \in Live, Allowed(keys[req[r].key].user, req[r].mirror)
        PROVE  Secured(job)'
    <3>1. keys[req[r].key].user \in Username
      BY <2>2 DEF Live, Typed, KeysTyped, KeyRow, NoKey
    <3>2. req[r].mirror = "yes" => AccountOf[keys[req[r].key].user] \in entitled
      BY <2>2, <3>1, KeysAssumption DEF Allowed, Safe, Rightful
    <3> QED
      BY <1>1, <1>7, <2>1, <3>2 DEF Secured, Gates, CheckAbility, keyVars, world
  <2> QED
    BY <1>3, <1>7, <2>0, <2>2, IdleSecured DEF CheckAbility, world
<1>8. CASE UpdateAbilities(r)
  <2>1. CASE Goto(r, Idle) /\ UNCHANGED <<keys, keyFile>>
    BY <1>3, <1>8, <2>1, IdleSecured DEF UpdateAbilities, keyVars, world
  <2>2. CASE ~(Goto(r, Idle) /\ UNCHANGED <<keys, keyFile>>)
    <3> DEFINE yes == req[r].mirror = "yes"
    <3>0. PICK job : job = Patched(req[r], "ability")
      OBVIOUS
    <3>1. Secured(job)'
      BY <1>4, <1>8, <3>0 DEF UpdateAbilities
    <3>2. req[r].key \in Live /\ SaveKeys([keys EXCEPT ![req[r].key].mirror = yes])
          /\ Goto(r, job) /\ UNCHANGED <<issued, gone, role, entitled>>
      BY <1>8, <2>2, <3>0 DEF UpdateAbilities, world
    <3>3. yes => AccountOf[keys[req[r].key].user] \in entitled
      BY <1>1, <1>8, <3>2 DEF Secured, UpdateAbilities, Live
    <3>4. yes \in BOOLEAN
      OBVIOUS
    <3> HIDE DEF yes
    <3>5. Store' /\ Rightful' /\ Lasting
      BY <3>2, <3>3, <3>4, AbilityLasts
    <3> QED
      BY <1>2, <3>1, <3>2, <3>5
  <2> QED
    BY <2>1, <2>2
<1>9. CASE CheckKey(r)
  <2>0. PICK job : job = [Idle EXCEPT !.pc = "settags", !.entity = <<req[r].key, "key">>,
                                      !.names = req[r].names]
    OBVIOUS
  <2>1. job.pc = "settags"
    BY <2>0 DEF Idle
  <2>2. Secured(job)'
    BY <2>1 DEF Secured, Gates
  <2> QED
    BY <1>3, <1>9, <2>0, <2>2, IdleSecured DEF CheckKey, world
<1>10. CASE SetEntityTags(r)
  BY <1>3, <1>10, IdleSecured DEF SetEntityTags, world
<1>11. CASE RevokeDone(r)
  BY <1>3, <1>11, IdleSecured DEF RevokeDone, world
<1>12. ASSUME NEW k \in Key, RevokeNext(r, k) PROVE Safe'
  <2>0. PICK job : job = [req[r] EXCEPT !.todo = @ \ {k}]
    OBVIOUS
  <2>1. job.pc = "revoking" /\ Goto(r, job)
    BY <1>1, <1>12, <2>0 DEF Job, RevokeNext
  <2>2. Secured(job)'
    BY <2>1 DEF Secured, Gates
  <2>3. CASE Revoked(k)
    BY <1>2, <1>12, <2>1, <2>2, <2>3, RevokeLasts DEF RevokeNext, world
  <2>4. CASE UNCHANGED <<keys, keyFile, gone>>
    BY <1>3, <1>12, <2>1, <2>2, <2>4 DEF RevokeNext, world, keyVars
  <2> QED
    BY <1>12, <2>3, <2>4 DEF RevokeNext
<1>13. ASSUME NEW pc \in Gates, NEW passes, NEW next \in Gates \cup {"idle"},
              Gate(r, pc, passes, next),
              passes => (next = "able" \/ (next = "uses" /\ req[r].mirror = "yes") => req[r].fit)
       PROVE  Safe'
  <2>0. PICK job : job = [req[r] EXCEPT !.pc = next]
    OBVIOUS
  <2>1. job.pc = next /\ job.user = req[r].user /\ job.fit = req[r].fit
        /\ job.mirror = req[r].mirror
    BY <1>1, <2>0 DEF Job
  <2>2. ASSUME passes PROVE Secured(job)'
    BY <1>1, <1>13, <2>1, <2>2 DEF Secured, Gates, Gate, world
  <2> QED
    BY <1>3, <1>13, <2>0, <2>2, IdleSecured DEF Gate, world
<1>14. CASE PassRepo(r)
  BY <1>13, <1>14 DEF PassRepo, Gates, Gate
<1>15. CASE PassRole(r)
  <2>1. req[r].pc = "ranks"
    BY <1>15 DEF PassRole, Gate
  <2>2. role[AccountOf[req[r].user]] \in MayMirror => req[r].fit
    BY <1>1, <2>1 DEF Secured, Gates
  <2> QED
    BY <1>13, <1>15, <2>2 DEF PassRole, Gates
<1>16. CASE PassAbility(r)
  <2>1. req[r].pc = "able"
    BY <1>16 DEF PassAbility, Gate
  <2>2. req[r].fit
    BY <1>1, <2>1 DEF Secured
  <2> QED
    BY <1>13, <1>16, <2>2 DEF PassAbility, Gates
<1>17. CASE Use(r)
  BY <1>13, <1>17 DEF Use, Gates
<1> QED
  BY <1>5, <1>6, <1>7, <1>8, <1>9, <1>10, <1>11, <1>12, <1>14, <1>15, <1>16, <1>17 DEF Steps

(* The other steps: the tag store, the accounts and repositories, restarts. *)
LEMMA OthersSafe ==
  ASSUME Typed, Safe,
         \/ \E k \in Key : RevokeToken(k)
         \/ UNCHANGED <<keyVars, role, entitled, req>>
         \/ \E a \in Account, to \in Role : AccountChanges(a, to)
         \/ Restart
  PROVE  Safe'
<1>1. ASSUME Store' /\ Rightful' /\ Lasting, req' = req PROVE Safe'
  <2>1. ASSUME NEW q \in Request PROVE Secured(req[q])'
    <3>1. req' = [req EXCEPT ![q] = req[q]]
      BY <1>1 DEF Typed, ReqsTyped
    <3>2. \A old \in Job : WellFormed(old) /\ Secured(old) /\ old = req'[q] => Secured(req[q])'
      <4>1. ASSUME NEW old \in Job, WellFormed(old), Secured(old), old = req'[q]
            PROVE  Secured(req[q])'
        <5>1. Secured(old)'
          BY <1>1, <4>1 DEF Lasting
        <5> QED
          BY <4>1, <5>1 DEF Secured
      <4> QED
        BY <4>1
    <3> QED
      BY <1>1, <3>2 DEF Safe, Typed, ReqsTyped
  <2> QED
    BY <1>1, <2>1 DEF Safe
<1>2. ASSUME NEW k \in Key, RevokeToken(k) PROVE Safe'
  BY <1>1, <1>2, RevokeLasts DEF RevokeToken, Serve, world
<1>3. CASE UNCHANGED <<keyVars, role, entitled, req>>
  BY <1>1, <1>3, QuietLasts
<1>4. ASSUME NEW a \in Account, NEW to \in Role, AccountChanges(a, to) PROVE Safe'
  <2>1. Store'
    BY <1>4 DEF AccountChanges, keyVars, Safe, Store, OneKeyPerName, Live
  <2>2. \A b \in Account : role'[b] = IF b = a THEN to ELSE role[b]
    BY <1>4 DEF AccountChanges, Typed, WorldTyped
  <2>3. entitled \subseteq entitled' /\ (to \in MayMirror => a \in entitled')
    BY <1>4 DEF AccountChanges
  <2>4. Rightful'
    BY <1>4, <2>2, <2>3 DEF AccountChanges, keyVars, Safe, Rightful
  <2>5. ASSUME NEW q \in Request PROVE Secured(req[q])'
    <3> DEFINE job == [req[q] EXCEPT !.fit = TRUE]
    <3>1. WellFormed(req[q]) /\ req[q] \in Job /\ Secured(req[q])
      BY DEF Safe, Typed, ReqsTyped
    <3>2. job.pc = req[q].pc /\ job.user = req[q].user /\ job.key = req[q].key
          /\ job.mirror = req[q].mirror /\ job.fit = TRUE
      BY <3>1 DEF Job
    <3>3. req'[q] = IF req[q].pc \in Gates /\ AccountOf[req[q].user] = a /\ to \in MayMirror
                    THEN job ELSE req[q]
      BY <1>4 DEF AccountChanges
    <3>4. keys' = keys /\ issued' = issued
      BY <1>4 DEF AccountChanges, keyVars
    <3>5. CASE req'[q] = job
      BY <2>3, <3>1, <3>2, <3>4, <3>5 DEF Secured
    <3>6. CASE req'[q] = req[q] /\ req'[q] # job
      <4>1. req[q].pc \in Gates => AccountOf[req[q].user] \in Account
        BY <3>1, KeysAssumption DEF WellFormed
      <4>2. req[q].pc \in Gates /\ role'[AccountOf[req[q].user]] \in MayMirror => req[q].fit
        BY <2>2, <3>1, <3>3, <3>6, <4>1 DEF Secured
      <4> QED
        BY <2>3, <3>1, <3>4, <3>6, <4>2 DEF Secured
    <3> QED
      BY <3>3, <3>5, <3>6
  <2> QED
    BY <2>1, <2>4, <2>5 DEF Safe
<1>5. CASE Restart
  <2>1. keys' = keys
    BY <1>5 DEF Restart, Safe, Store
  <2>2. Store' /\ Rightful'
    BY <1>5, <2>1 DEF Restart, Safe, Store, OneKeyPerName, Live, Rightful
  <2>3. ASSUME NEW q \in Request PROVE Secured(req[q])'
    <3>1. req'[q] = Idle
      BY <1>5 DEF Restart
    <3> QED
      BY <3>1, IdleSecured DEF Secured
  <2> QED
    BY <2>2, <2>3 DEF Safe
<1> QED
  BY <1>2, <1>3, <1>4, <1>5

(* The server starts that way.                                             *)
LEMMA InitSafe == Init => Safe
<1> SUFFICES ASSUME Init PROVE Safe
  OBVIOUS
<1>1. Store
  BY DEF Init, Store, OneKeyPerName, Live
<1>2. Rightful
  BY DEF Init, Rightful, MayMirror, NoKey
<1>3. \A r \in Request : Secured(req[r])
  BY IdleSecured DEF Init
<1> QED
  BY <1>1, <1>2, <1>3 DEF Safe

(* Every step keeps it.                                                    *)
LEMMA NextSafe == Typed /\ Safe /\ [Next]_vars => Safe'
<1> SUFFICES ASSUME Typed, Safe, [Next]_vars PROVE Safe'
  OBVIOUS
<1>1. ASSUME UNCHANGED <<keyVars, role, entitled, req>> PROVE Safe'
  BY <1>1, OthersSafe
<1>2. CASE UNCHANGED vars
  BY <1>1, <1>2 DEF vars, keyVars
<1>3. ASSUME \/ \E n \in TagName : CreateTag(n)
             \/ \E t \in TagId, n \in TagName : RenameTag(t, n) \/ RenameTagFails(t, n)
             \/ \E t \in TagId : DeleteTag(t)
             \/ SweepUnused
             \/ \E p \in Repo : RepoChanges(p)
      PROVE  UNCHANGED <<keyVars, role, entitled, req>>
  BY <1>3 DEF CreateTag, RenameTag, RenameTagFails, DeleteTag, SweepUnused, RepoChanges,
              Serve, world, keyVars
<1>4. CASE Next
  BY <1>1, <1>3, <1>4, BeginsSafe, StepsSafe, OthersSafe DEF Next
<1> QED
  BY <1>2, <1>4

(* So it always holds.                                                     *)
LEMMA AlwaysSafe == Spec => []Safe
BY InitTyped, NextTyped, InitSafe, NextSafe, PTL DEF Spec

(* No two live keys of one username open one repository: the check that a  *)
(* key is new and its insertion are one operation, ids are not reused, and *)
(* a moved key is compared with all the others (token.go Issue, UpdateRepo). *)
THEOREM KeysAreUnique == Spec => []OneKeyPerName
<1>1. Safe => OneKeyPerName
  BY DEF Safe, Store
<1> QED
  BY <1>1, AlwaysSafe, PTL

(* A revoked key never opens anything again, also after a restart or a save *)
(* of a request that looked it up before (token.go Revoke, load).          *)
THEOREM RevocationLasts == Spec => []RevokedStaysRevoked
<1>1. Safe => RevokedStaysRevoked
  BY DEF Safe, Store, RevokedStaysRevoked, Live
<1> QED
  BY <1>1, AlwaysSafe, PTL

(* Keys carry the mirror ability, and requests use it, only where the role *)
(* of the account allowed it: at some time for the key, since its arrival  *)
(* for the request (handler_admin.go, policy.go, respond.go).              *)
THEOREM MirrorsNeedTheRole == Spec => []MirrorWasEntitled
<1>1. Safe => MirrorWasEntitled
  BY DEF Safe, Rightful, Secured, MirrorWasEntitled, Live
<1> QED
  BY <1>1, AlwaysSafe, PTL

-----------------------------------------------------------------------------
(* The catalogue.  Its index names each tag once, so what the store says   *)
(* of names is what the index says; that is what TagBook speaks of.        *)

Named(s) == {t \in TagId : s.name[t] # None}
Reading(s, t) == Fold[s.name[t]]

Consistent(s, ix) ==
  /\ \A t \in Named(s) : ix[Reading(s, t)] = t
  /\ \A n \in Lower : ix[n] # 0 => ix[n] \in Named(s) /\ Reading(s, ix[n]) = n
  /\ \A x \in s.of : x.tag \in Named(s)

Page(s) == {Reading(s, t) : t \in Named(s)}
Entries(s, e) == {Reading(s, x.tag) : x \in {y \in s.of : y.entity = e /\ y.tag \in Named(s)}}

Index == [Lower -> TagId \cup {0}]

(* What is in the catalogue, and what an entity is tagged with.            *)
LEMMA Readings ==
  ASSUME NEW s \in TagStore, NEW ix \in Index, Consistent(s, ix)
  PROVE  /\ \A t \in Named(s) : s.name[t] \in TagName /\ Reading(s, t) \in Lower /\ t # 0
         /\ \A n \in Lower : n \in Page(s) <=> ix[n] # 0
         /\ Page(s) \subseteq Lower
         /\ \A e \in Entity : Entries(s, e) \subseteq Page(s)
<1>1. \A t \in Named(s) : s.name[t] \in TagName /\ Reading(s, t) \in Lower /\ t # 0
  <2>1. \A t \in TagId : s.name[t] \in TagName \cup {None} /\ t # 0
    BY Bounds DEF TagStore, TagId
  <2> QED
    BY <2>1, FoldType DEF Named, Reading
<1>2. Page(s) \subseteq Lower
  BY <1>1 DEF Page
<1>3. \A n \in Lower : n \in Page(s) <=> ix[n] # 0
  BY <1>1 DEF Consistent, Page
<1>4. \A e \in Entity : Entries(s, e) \subseteq Page(s)
  BY DEF Entries, Page
<1> QED
  BY <1>1, <1>2, <1>3, <1>4

(* A tag is added under a name that was free.                              *)
LEMMA Added ==
  ASSUME NEW s \in TagStore, NEW ix \in Index, Consistent(s, ix),
         NEW c \in TagId, c \notin Named(s), NEW n \in TagName, ix[Fold[n]] = 0,
         NEW s2 \in TagStore, s2.of = s.of, s2.name[c] = n,
         \A t \in TagId \ {c} : s2.name[t] = s.name[t],
         NEW ix2 \in Index, \A l \in Lower : ix2[l] = IF l = Fold[n] THEN c ELSE ix[l]
  PROVE  /\ Consistent(s2, ix2)
         /\ Fold[n] \notin Page(s) /\ Page(s2) = Page(s) \cup {Fold[n]}
         /\ \A e \in Entity : Entries(s2, e) = Entries(s, e)
<1>1. Fold[n] \in Lower /\ Fold[n] \notin Page(s) /\ n # None /\ c # 0
  BY FoldType, Readings, KeysAssumption DEF TagId
<1>3. Named(s2) = Named(s) \cup {c}
  BY <1>1 DEF Named
<1>4. \A t \in Named(s) : Reading(s2, t) = Reading(s, t) /\ Reading(s, t) \in Page(s)
  BY DEF Reading, Named, Page
<1>5. Reading(s2, c) = Fold[n]
  BY DEF Reading
<1>7. Consistent(s2, ix2)
  <2>1. \A t \in Named(s2) : ix2[Reading(s2, t)] = t
    BY <1>1, <1>3, <1>4, <1>5, Readings DEF Consistent
  <2>2. \A l \in Lower : ix2[l] # 0 => ix2[l] \in Named(s2) /\ Reading(s2, ix2[l]) = l
    BY <1>3, <1>4, <1>5 DEF Consistent
  <2>3. \A x \in s2.of : x.tag \in Named(s2)
    BY <1>3 DEF Consistent
  <2> QED
    BY <2>1, <2>2, <2>3 DEF Consistent
<1>8. Page(s2) = Page(s) \cup {Fold[n]}
  BY <1>3, <1>4, <1>5 DEF Page
<1>9. ASSUME NEW e \in Entity PROVE Entries(s2, e) = Entries(s, e)
  BY <1>3, <1>4 DEF Entries, Consistent
<1> QED
  BY <1>1, <1>7, <1>8, <1>9

(* A tag is renamed to a name that was free, or to its own in other case.  *)
LEMMA Renamed ==
  ASSUME NEW s \in TagStore, NEW ix \in Index, Consistent(s, ix),
         NEW t \in Named(s), NEW n \in TagName,
         NEW old, old = Reading(s, t), Fold[n] = old \/ ix[Fold[n]] = 0,
         NEW s2 \in TagStore, s2.of = s.of, s2.name[t] = n,
         \A u \in TagId \ {t} : s2.name[u] = s.name[u],
         NEW ix2 \in Index,
         \A l \in Lower : ix2[l] = IF l = Fold[n] THEN t ELSE IF l = old THEN 0 ELSE ix[l]
  PROVE  /\ Consistent(s2, ix2)
         /\ old \in Page(s) /\ (Fold[n] = old \/ Fold[n] \notin Page(s))
         /\ Page(s2) = (Page(s) \ {old}) \cup {Fold[n]}
         /\ \A e \in Entity : Entries(s2, e) =
              IF old \in Entries(s, e) THEN (Entries(s, e) \ {old}) \cup {Fold[n]}
                                       ELSE Entries(s, e)
<1>1. /\ Fold[n] \in Lower /\ n # None /\ t \in TagId /\ t # 0 /\ old \in Lower
      /\ old \in Page(s) /\ (Fold[n] = old \/ Fold[n] \notin Page(s))
  BY FoldType, Readings, KeysAssumption DEF TagId, Named, Page
<1>3. Named(s2) = Named(s)
  BY <1>1 DEF Named
<1>4. /\ Reading(s2, t) = Fold[n]
      /\ \A u \in Named(s) \ {t} : Reading(s2, u) = Reading(s, u) /\ Reading(s, u) # old
  BY <1>1 DEF Reading, Named, Consistent
<1>6. \A u \in Named(s) : Reading(s, u) \in Lower /\ Reading(s, u) \in Page(s)
  BY Readings DEF Page
<1>7. Consistent(s2, ix2)
  <2>1. ASSUME NEW u \in Named(s2) PROVE ix2[Reading(s2, u)] = u
    <3>1. CASE u = t
      BY <1>1, <1>4, <3>1
    <3>2. CASE u # t
      <4>1. Reading(s2, u) # Fold[n]
        BY <1>1, <1>3, <1>4, <1>6, <3>2 DEF Consistent
      <4> QED
        BY <1>3, <1>4, <1>6, <3>2, <4>1 DEF Consistent
    <3> QED
      BY <3>1, <3>2
  <2>2. ASSUME NEW l \in Lower, ix2[l] # 0
        PROVE  ix2[l] \in Named(s2) /\ Reading(s2, ix2[l]) = l
    <3>1. CASE l = Fold[n]
      BY <1>3, <1>4, <3>1
    <3>2. CASE l # Fold[n]
      <4>1. l # old /\ ix2[l] = ix[l] /\ ix[l] \in Named(s) /\ Reading(s, ix[l]) = l
        BY <2>2, <3>2 DEF Consistent
      <4>2. ix[l] # t
        BY <4>1
      <4> QED
        BY <1>3, <1>4, <4>1, <4>2
    <3> QED
      BY <3>1, <3>2
  <2>3. \A x \in s2.of : x.tag \in Named(s2)
    BY <1>3 DEF Consistent
  <2> QED
    BY <2>1, <2>2, <2>3 DEF Consistent
<1>8. Page(s2) = (Page(s) \ {old}) \cup {Fold[n]}
  <2>1. ASSUME NEW l \in Page(s2) PROVE l \in (Page(s) \ {old}) \cup {Fold[n]}
    BY <2>1, <1>3, <1>4, <1>6 DEF Page
  <2>2. ASSUME NEW l \in Page(s), l # old PROVE l \in Page(s2)
    <3>1. PICK u \in Named(s) : l = Reading(s, u)
      BY DEF Page
    <3> QED
      BY <2>2, <3>1, <1>3, <1>4 DEF Page
  <2>3. Fold[n] \in Page(s2)
    BY <1>3, <1>4 DEF Page
  <2> QED
    BY <2>1, <2>2, <2>3
<1>9. ASSUME NEW e \in Entity
      PROVE  Entries(s2, e) = IF old \in Entries(s, e) THEN (Entries(s, e) \ {old}) \cup {Fold[n]}
                                                      ELSE Entries(s, e)
  <2> DEFINE mine == {x \in s.of : x.entity = e /\ x.tag \in Named(s)}
  <2>1. /\ Entries(s2, e) = {Reading(s2, x.tag) : x \in mine}
        /\ Entries(s, e) = {Reading(s, x.tag) : x \in mine}
    BY <1>3 DEF Entries
  <2>2. \A x \in mine : x.tag \in Named(s)
    OBVIOUS
  <2> HIDE DEF mine
  <2>4. old \in Entries(s, e) <=> \E x \in mine : x.tag = t
    BY <2>1, <2>2, <1>4
  <2>5. CASE \E x \in mine : x.tag = t
    <3>1. ASSUME NEW l \in Entries(s2, e) PROVE l \in (Entries(s, e) \ {old}) \cup {Fold[n]}
      <4>1. PICK x \in mine : l = Reading(s2, x.tag)
        BY <2>1
      <4>2. CASE x.tag = t
        BY <4>1, <4>2, <1>4
      <4>3. CASE x.tag # t
        <5>1. Reading(s2, x.tag) = Reading(s, x.tag) /\ Reading(s, x.tag) # old
          BY <1>4, <2>2, <4>3
        <5> QED
          BY <5>1, <4>1, <2>1
      <4> QED
        BY <4>2, <4>3
    <3>2. ASSUME NEW l \in Entries(s, e), l # old PROVE l \in Entries(s2, e)
      <4>1. PICK x \in mine : l = Reading(s, x.tag)
        BY <2>1
      <4>2. x.tag # t
        BY <4>1, <3>2
      <4> QED
        BY <4>1, <4>2, <2>1, <2>2, <1>4
    <3>3. Fold[n] \in Entries(s2, e)
      BY <2>1, <2>5, <1>4
    <3> QED
      BY <2>4, <2>5, <3>1, <3>2, <3>3
  <2>6. CASE ~ \E x \in mine : x.tag = t
    <3>1. \A x \in mine : Reading(s2, x.tag) = Reading(s, x.tag)
      BY <2>2, <2>6, <1>4
    <3> QED
      BY <2>1, <2>4, <2>6, <3>1
  <2> QED
    BY <2>5, <2>6
<1> QED
  BY <1>1, <1>7, <1>8, <1>9

(* What is left of the two when some tags go.                              *)
PageLess(s, dead) == {Reading(s, t) : t \in Named(s) \ dead}
EntriesLess(s, e, dead) ==
  {Reading(s, x.tag) : x \in {y \in s.of : y.entity = e /\ y.tag \notin dead}}

(* Tags are taken from the catalogue and from every entity.                *)
LEMMA Taken ==
  ASSUME NEW s \in TagStore, NEW ix \in Index, Consistent(s, ix), NEW dead \in SUBSET TagId,
         NEW s2 \in TagStore, NEW ix2 \in Index,
         \A t \in TagId : s2.name[t] = IF t \in dead THEN None ELSE s.name[t],
         s2.of = {x \in s.of : x.tag \notin dead},
         \A n \in Lower : ix2[n] = IF ix[n] \in dead THEN 0 ELSE ix[n]
  PROVE  /\ Consistent(s2, ix2)
         /\ Page(s2) = PageLess(s, dead)
         /\ \A e \in Entity : Entries(s2, e) = EntriesLess(s, e, dead)
<1>1. Named(s2) = Named(s) \ dead
  BY DEF Named
<1>2. \A t \in Named(s2) : Reading(s2, t) = Reading(s, t)
  BY <1>1 DEF Reading, Named
<1>3. Consistent(s2, ix2)
  <2>1. \A t \in Named(s2) : ix2[Reading(s2, t)] = t
    BY <1>1, <1>2, Readings DEF Consistent
  <2>2. \A n \in Lower : ix2[n] # 0 => ix2[n] \in Named(s2) /\ Reading(s2, ix2[n]) = n
    BY <1>1, <1>2 DEF Consistent
  <2>3. \A x \in s2.of : x.tag \in Named(s2)
    BY <1>1 DEF Consistent
  <2> QED
    BY <2>1, <2>2, <2>3 DEF Consistent
<1>4. Page(s2) = PageLess(s, dead)
  BY <1>1, <1>2 DEF Page, PageLess
<1>5. ASSUME NEW e \in Entity
      PROVE  Entries(s2, e) = EntriesLess(s, e, dead)
  BY <1>1, <1>2 DEF Entries, EntriesLess, Consistent
<1> QED
  BY <1>3, <1>4, <1>5

(* An entity gets the wanted tags, and the new ones of them fresh ids.     *)
Retags(s, ix, e, wanted, s2, ix2) ==
  LET fresh == {l \in wanted : ix[l] = 0}
  IN /\ \A l \in fresh : /\ ix2[l] \in TagId /\ ix2[l] \notin Named(s)
                          /\ s2.name[ix2[l]] # None /\ Reading(s2, ix2[l]) = l
     /\ \A t \in TagId : (\A l \in fresh : ix2[l] # t) => s2.name[t] = s.name[t]
     /\ \A l \in Lower \ fresh : ix2[l] = ix[l]
     /\ s2.of = {x \in s.of : x.entity # e} \cup {[entity |-> e, tag |-> ix2[l]] : l \in wanted}

(* The tags of an entity are set; the names that are new get fresh ids.    *)
LEMMA Retagged ==
  ASSUME NEW s \in TagStore, NEW ix \in Index, Consistent(s, ix),
         NEW e \in Entity, NEW wanted \in SUBSET Lower,
         NEW s2 \in TagStore, NEW ix2 \in Index,
         Retags(s, ix, e, wanted, s2, ix2)
  PROVE  /\ Consistent(s2, ix2)
         /\ Page(s2) = Page(s) \cup wanted
         /\ Entries(s2, e) = wanted
         /\ \A f \in Entity \ {e} : Entries(s2, f) = Entries(s, f)
<1> DEFINE fresh == {l \in wanted : ix[l] = 0}
<1>set.
      /\ \A l \in fresh : /\ ix2[l] \in TagId /\ ix2[l] \notin Named(s)
                          /\ s2.name[ix2[l]] # None /\ Reading(s2, ix2[l]) = l
      /\ \A t \in TagId : (\A l \in fresh : ix2[l] # t) => s2.name[t] = s.name[t]
      /\ \A l \in Lower \ fresh : ix2[l] = ix[l]
      /\ s2.of = {x \in s.of : x.entity # e} \cup {[entity |-> e, tag |-> ix2[l]] : l \in wanted}
  BY DEF Retags
<1>free.
       /\ fresh \subseteq wanted
       /\ \A l \in Lower : l \in fresh <=> l \in wanted /\ ix[l] = 0
  OBVIOUS
<1> HIDE DEF fresh
<1>1. \A t \in Named(s) : t \in Named(s2) /\ Reading(s2, t) = Reading(s, t)
  BY <1>set DEF Named, Reading
<1>2. \A t \in Named(s2) : t \in Named(s) \/ \E l \in fresh : ix2[l] = t
  BY <1>set DEF Named
<1>3. \A l \in fresh : ix2[l] \in Named(s2) /\ Reading(s2, ix2[l]) = l
  BY <1>set DEF Named
<1>4. \A t \in Named(s) : Reading(s, t) \in Lower /\ Reading(s, t) \notin fresh /\ ix[Reading(s, t)] = t /\ t # 0
  BY <1>set, <1>free, Readings DEF Consistent
<1>5. \A t \in Named(s2) : ix2[Reading(s2, t)] = t
  BY <1>set, <1>1, <1>2, <1>3, <1>4
<1>6. \A l \in Lower : ix2[l] # 0 => ix2[l] \in Named(s2) /\ Reading(s2, ix2[l]) = l
  BY <1>set, <1>free, <1>1, <1>3 DEF Consistent
<1>7. \A l \in wanted : ix2[l] \in Named(s2) /\ Reading(s2, ix2[l]) = l
  BY <1>set, <1>free, <1>1, <1>3 DEF Consistent
<1>8. \A x \in s2.of : x.tag \in Named(s2)
  BY <1>set, <1>1, <1>7 DEF Consistent
<1>9. Consistent(s2, ix2)
  BY <1>5, <1>6, <1>8 DEF Consistent
<1>10. Page(s2) = Page(s) \cup wanted
  <2>1. ASSUME NEW l \in Page(s2) PROVE l \in Page(s) \cup wanted
    <3>1. PICK t \in Named(s2) : l = Reading(s2, t)
      BY DEF Page
    <3>2. CASE t \in Named(s)
      BY <1>1, <3>1, <3>2 DEF Page
    <3>3. CASE \E m \in fresh : ix2[m] = t
      BY <1>3, <1>free, <3>1, <3>3
    <3> QED
      BY <1>2, <3>2, <3>3
  <2>2. ASSUME NEW l \in Page(s) PROVE l \in Page(s2)
    BY <1>1 DEF Page
  <2>3. ASSUME NEW l \in wanted PROVE l \in Page(s2)
    BY <1>7 DEF Page
  <2> QED
    BY <2>1, <2>2, <2>3
<1>11. Entries(s2, e) = wanted
  <2>1. ASSUME NEW l \in Entries(s2, e) PROVE l \in wanted
    BY <1>set, <1>7 DEF Entries
  <2>2. ASSUME NEW l \in wanted PROVE l \in Entries(s2, e)
    <3> DEFINE x == [entity |-> e, tag |-> ix2[l]]
    <3>1. x \in s2.of /\ x.entity = e /\ x.tag \in Named(s2) /\ Reading(s2, x.tag) = l
      BY <1>set, <1>7
    <3> QED
      BY <3>1 DEF Entries
  <2> QED
    BY <2>1, <2>2
<1>12. ASSUME NEW f \in Entity \ {e} PROVE Entries(s2, f) = Entries(s, f)
  <2>1. {y \in s2.of : y.entity = f /\ y.tag \in Named(s2)}
          = {y \in s.of : y.entity = f /\ y.tag \in Named(s)}
    BY <1>set, <1>1, <1>8 DEF Consistent
  <2>2. \A x \in {y \in s.of : y.entity = f /\ y.tag \in Named(s)} :
          Reading(s2, x.tag) = Reading(s, x.tag)
    BY <1>1
  <2> QED
    BY <2>1, <2>2 DEF Entries
<1> QED
  BY <1>9, <1>10, <1>11, <1>12

(* The index built from the file is the one in memory.                     *)
LEMMA Rebuilt ==
  ASSUME NEW s \in TagStore, NEW ix \in Index, Consistent(s, ix)
  PROVE  IndexOf(s.name) = ix
<1>1. ASSUME NEW n \in Lower PROVE IndexOf(s.name)[n] = ix[n]
  <2>1. \A t \in TagId : s.name[t] # None /\ Fold[s.name[t]] = n => t = ix[n] /\ t # 0
    BY Readings DEF Consistent, Named, Reading
  <2>2. ix[n] # 0 => ix[n] \in TagId /\ s.name[ix[n]] # None /\ Fold[s.name[ix[n]]] = n
    BY DEF Consistent, Named, Reading
  <2> QED
    BY <2>1, <2>2 DEF IndexOf
<1> QED
  BY <1>1 DEF IndexOf, Index

-----------------------------------------------------------------------------
(* What the steps do to the tag store, in the terms of TagBook.            *)

Catalogue ==
  /\ tagFile = tags
  /\ \A t \in TagId : t > created => tags.name[t] = None
  /\ Consistent(tags, index)

PageAndEntries == <<Page(tags), [e \in Entity |-> Entries(tags, e)]>>

Told == Book!BookNext \/ UNCHANGED PageAndEntries

(* The catalogue and the assignments are those TagBook is instantiated by. *)
LEMMA Views ==
  /\ {Fold[tags.name[t]] : t \in Tags} = Page(tags)
  /\ ({Fold[tags.name[t]] : t \in Tags})' = Page(tags')
  /\ [e \in Entity |-> TagsFor(e)] = [e \in Entity |-> Entries(tags, e)]
  /\ ([e \in Entity |-> TagsFor(e)])' = [e \in Entity |-> Entries(tags', e)]
BY DEF Tags, TagsFor, Page, Entries, Named, Reading

(* Store.Create adds a name.                                               *)
LEMMA CreateTold ==
  ASSUME TagsTyped, Catalogue, NEW n \in TagName, CreateTag(n)
  PROVE  Catalogue' /\ Told
<1>1. created \in Nat /\ created + 1 \in TagId /\ created' = created + 1
  BY Bounds DEF CreateTag, TagsTyped, TagId
<1>2. created + 1 \notin Named(tags)
  BY <1>1 DEF Catalogue, Named
<1>3. /\ tags' = [tags EXCEPT !.name[created + 1] = n] /\ tagFile' = tags'
      /\ index' = [index EXCEPT ![Fold[n]] = created + 1] /\ index[Fold[n]] = 0
      /\ tags \in TagStore /\ index \in Index
  BY DEF CreateTag, SaveTags, TagsTyped, Index
<1>put.
       /\ index' \in Index /\ \A l \in Lower : index'[l] = IF l = Fold[n] THEN created + 1 ELSE index[l]
       /\ tags' \in TagStore /\ tags'.of = tags.of /\ tags'.name[created + 1] = n
       /\ \A t \in TagId \ {created + 1} : tags'.name[t] = tags.name[t]
  BY <1>1, <1>3, FoldType DEF Index, TagStore
<1>4. /\ Consistent(tags', index')
      /\ Fold[n] \notin Page(tags) /\ Page(tags') = Page(tags) \cup {Fold[n]}
      /\ \A e \in Entity : Entries(tags', e) = Entries(tags, e)
  <2>1. Consistent(tags, index)
    BY DEF Catalogue
  <2>2. created + 1 \in TagId /\ created + 1 \notin Named(tags) /\ index[Fold[n]] = 0
    BY <1>1, <1>2, <1>3
  <2>3. tags \in TagStore /\ index \in Index
    BY <1>3
  <2> QED
    BY <1>put, <2>1, <2>2, <2>3, Added
<1>5. \A t \in TagId : t > created' => tags'.name[t] = None
  BY <1>1, <1>3 DEF Catalogue, TagId, TagStore
<1>6. Book!Add(Fold[n])
  BY <1>4, Views DEF Book!Add
<1> QED
  BY <1>3, <1>4, <1>5, <1>6, FoldType DEF Catalogue, Told, Book!BookNext

(* Store.Rename renames, or changes the case of a name.                    *)
LEMMA RenameTold ==
  ASSUME TagsTyped, Catalogue, NEW t \in TagId, NEW n \in TagName, RenameTag(t, n)
  PROVE  Catalogue' /\ Told
<1> DEFINE old == Reading(tags, t)
<1>1. /\ t \in Named(tags) /\ (Fold[n] = old \/ index[Fold[n]] = 0)
      /\ tags' = [tags EXCEPT !.name[t] = n] /\ tagFile' = tags' /\ created' = created
      /\ index' = [[index EXCEPT ![old] = 0] EXCEPT ![Fold[n]] = t]
      /\ tags \in TagStore /\ index \in Index
  BY DEF RenameTag, SaveTags, TagsTyped, Index, MayBecome, Reindexed, Tags, Named, Reading
<1>low. old \in Lower
  BY <1>1, Readings DEF Catalogue
<1> HIDE DEF old
<1>put.
       /\ index' \in Index
       /\ \A l \in Lower : index'[l] = IF l = Fold[n] THEN t ELSE IF l = old THEN 0 ELSE index[l]
       /\ tags' \in TagStore /\ tags'.of = tags.of /\ tags'.name[t] = n
       /\ \A u \in TagId \ {t} : tags'.name[u] = tags.name[u]
  BY <1>1, <1>low, FoldType DEF Index, TagStore
<1>2. /\ Consistent(tags', index')
      /\ old \in Page(tags) /\ (Fold[n] = old \/ Fold[n] \notin Page(tags))
      /\ Page(tags') = (Page(tags) \ {old}) \cup {Fold[n]}
      /\ \A e \in Entity : Entries(tags', e) =
           IF old \in Entries(tags, e) THEN (Entries(tags, e) \ {old}) \cup {Fold[n]}
                                       ELSE Entries(tags, e)
  <2>1. Consistent(tags, index)
    BY DEF Catalogue
  <2>2. t \in Named(tags) /\ old = Reading(tags, t) /\ (Fold[n] = old \/ index[Fold[n]] = 0)
    BY <1>1 DEF old
  <2>3. tags \in TagStore /\ index \in Index
    BY <1>1
  <2> QED
    BY <1>put, <2>1, <2>2, <2>3, Renamed
<1>4. \A u \in TagId : u > created' => tags'.name[u] = None
  BY <1>1 DEF Catalogue, TagStore, Named
<1>5. CASE Fold[n] = old
  <2>1. Page(tags') = Page(tags) /\ \A e \in Entity : Entries(tags', e) = Entries(tags, e)
    BY <1>2, <1>5
  <2> QED
    BY <1>1, <1>2, <1>4, <2>1 DEF Catalogue, Told, PageAndEntries
<1>6. CASE Fold[n] # old
  <2>1. Book!Renames(old, Fold[n])
    BY <1>2, <1>6, Views DEF Book!Renames
  <2> QED
    BY <1>1, <1>low, <1>2, <1>4, <2>1, FoldType DEF Catalogue, Told, Book!BookNext
<1> QED
  BY <1>5, <1>6

(* A rename that could not be saved leaves the index as it was.            *)
LEMMA RenameFailsTold ==
  ASSUME TagsTyped, Catalogue, NEW t \in TagId, NEW n \in TagName, RenameTagFails(t, n)
  PROVE  UNCHANGED tagVars
<1> DEFINE old == Fold[tags.name[t]]
<1>1. t \in Named(tags) /\ old = Reading(tags, t) /\ (Fold[n] = old \/ index[Fold[n]] = 0)
  BY DEF RenameTagFails, MayBecome, Tags, Named, Reading
<1>2. index \in Index /\ tags \in TagStore
  BY DEF TagsTyped, Index
<1>3. old \in Lower /\ Fold[n] \in Lower /\ index[old] = t
  BY <1>1, <1>2, Readings, FoldType DEF Catalogue, Consistent
<1>4. index' = [[[[index EXCEPT ![old] = 0] EXCEPT ![Fold[n]] = t]
                  EXCEPT ![Fold[n]] = 0] EXCEPT ![old] = t]
  BY DEF RenameTagFails, Reindexed
<1> HIDE DEF old
<1>5. index' = index
  BY <1>1, <1>2, <1>3, <1>4 DEF Index
<1> QED
  BY <1>5 DEF RenameTagFails, tagVars

(* Store.Delete drops a name.                                              *)
LEMMA DeleteTold ==
  ASSUME TagsTyped, Catalogue, NEW t \in TagId, DeleteTag(t)
  PROVE  Catalogue' /\ Told
<1> DEFINE old == Reading(tags, t)
<1>1. /\ t \in Named(tags) /\ tags' = Without({t}) /\ tagFile' = tags' /\ created' = created
      /\ index' = [index EXCEPT ![old] = 0] /\ index \in Index /\ tags \in TagStore
      /\ tags' \in TagStore
  BY WithoutType DEF DeleteTag, SaveTags, TagsTyped, Index, Tags, Named, Reading
<1>2. old \in Lower /\ index[old] = t /\ t # 0
      /\ \A l \in Lower : index[l] = t => l = old
  BY <1>1, Readings DEF Catalogue, Consistent
<1> HIDE DEF old
<1>3. index' \in Index /\ \A l \in Lower : index'[l] = IF index[l] \in {t} THEN 0 ELSE index[l]
  BY <1>1, <1>2 DEF Index
<1>4. /\ \A u \in TagId : tags'.name[u] = IF u \in {t} THEN None ELSE tags.name[u]
      /\ tags'.of = {x \in tags.of : x.tag \notin {t}}
  BY <1>1 DEF Without
<1>5. {t} \in SUBSET TagId
  OBVIOUS
<1>6. /\ Consistent(tags', index')
      /\ Page(tags') = PageLess(tags, {t})
      /\ \A e \in Entity : Entries(tags', e) = EntriesLess(tags, e, {t})
  <2>1. Consistent(tags, index)
    BY DEF Catalogue
  <2>2. tags \in TagStore /\ index \in Index /\ tags' \in TagStore
    BY <1>1
  <2> QED
    BY <1>3, <1>4, <1>5, <2>1, <2>2, Taken
<1>7. \A u \in TagId : u > created' => tags'.name[u] = None
  BY <1>1, <1>4 DEF Catalogue
<1>8. \A u \in Named(tags) : Reading(tags, u) = old <=> u = t
  BY <1>1 DEF Catalogue, Consistent, old
<1>9. Page(tags') = Page(tags) \ {old} /\ old \in Page(tags)
  BY <1>1, <1>6, <1>8 DEF Page, PageLess
<1>10. ASSUME NEW e \in Entity PROVE Entries(tags', e) = Entries(tags, e) \ {old}
  <2>1. \A x \in tags.of : x.tag \in Named(tags)
    BY DEF Catalogue, Consistent
  <2> QED
    BY <1>6, <1>8, <2>1 DEF Entries, EntriesLess
<1>11. Book!Drop(old)
  BY <1>9, <1>10, Views DEF Book!Drop
<1>12. Told
  <2>1. \E l \in Lower : Book!Drop(l)
    BY <1>2, <1>11 DEF Book!Drop
  <2> QED
    BY <2>1 DEF Told, Book!BookNext
<1> QED
  BY <1>1, <1>6, <1>7, <1>12 DEF Catalogue

(* Store.DeleteUnused takes the tags no entity has.                        *)
LEMMA SweepTold ==
  ASSUME TagsTyped, Catalogue, SweepUnused
  PROVE  Catalogue' /\ Told
<1>1. /\ tags' = [tags EXCEPT !.name = [t \in TagId |-> IF t \in Unused THEN None ELSE @[t]]]
      /\ tagFile' = tags' /\ created' = created
      /\ index' = [n \in Lower |-> IF index[n] \in Unused THEN 0 ELSE index[n]]
      /\ index \in Index /\ tags \in TagStore
  BY DEF SweepUnused, SaveTags, TagsTyped, Index
<1>2. Unused = Named(tags) \ {x.tag : x \in tags.of} /\ Unused \in SUBSET TagId
  BY DEF Unused, Tags, Named
<1>3. \A x \in tags.of : x.tag \in Named(tags) /\ x.tag \notin Unused
  BY <1>2 DEF Catalogue, Consistent
<1>4. /\ \A t \in TagId : tags'.name[t] = IF t \in Unused THEN None ELSE tags.name[t]
      /\ tags'.of = {x \in tags.of : x.tag \notin Unused}
      /\ tags' \in TagStore
  BY <1>1, <1>3 DEF TagStore
<1>5. index' \in Index /\ \A n \in Lower : index'[n] = IF index[n] \in Unused THEN 0 ELSE index[n]
  BY <1>1 DEF Index
<1>6. /\ Consistent(tags', index')
      /\ Page(tags') = PageLess(tags, Unused)
      /\ \A e \in Entity : Entries(tags', e) = EntriesLess(tags, e, Unused)
  <2>1. Consistent(tags, index)
    BY DEF Catalogue
  <2>2. tags \in TagStore /\ index \in Index /\ Unused \in SUBSET TagId
    BY <1>1, <1>2
  <2> QED
    BY <1>4, <1>5, <2>1, <2>2, Taken
<1>7. \A u \in TagId : u > created' => tags'.name[u] = None
  BY <1>1, <1>4 DEF Catalogue
<1>8. ASSUME NEW e \in Entity PROVE Entries(tags', e) = Entries(tags, e)
  BY <1>3, <1>6 DEF Entries, EntriesLess, PageLess
<1>9. Page(tags') = UNION {Entries(tags, e) : e \in Entity}
  <2>1. ASSUME NEW n \in Page(tags') PROVE n \in UNION {Entries(tags, e) : e \in Entity}
    <3>1. PICK x \in tags.of : n = Reading(tags, x.tag)
      BY <1>2, <1>6 DEF PageLess
    <3>2. x.entity \in Entity
      BY <1>1 DEF TagStore
    <3>3. n \in Entries(tags, x.entity)
      BY <1>3, <3>1 DEF Entries
    <3> QED
      BY <3>2, <3>3
  <2>2. ASSUME NEW e \in Entity, NEW n \in Entries(tags, e) PROVE n \in Page(tags')
    BY <1>3, <1>6 DEF Entries, EntriesLess, PageLess
  <2> QED
    BY <2>1, <2>2
<1>10. Book!Sweep
  BY <1>8, <1>9, Views DEF Book!Sweep
<1> QED
  BY <1>1, <1>6, <1>7, <1>10 DEF Catalogue, Told, Book!BookNext

(* Store.setTags replaces the tags of an entity.                           *)
LEMMA SetTagsTold ==
  ASSUME TagsTyped, TagsTyped', Catalogue, NEW e \in Entity, NEW names \in SUBSET TagName,
         IsFiniteSet(names), SetTags(e, names)
  PROVE  Catalogue' /\ Told
<1> DEFINE wanted == {Fold[n] : n \in names}
           fresh == {l \in wanted : index[l] = 0}
           next == created + Cardinality(fresh)
<1>1. wanted \in SUBSET Lower /\ fresh \subseteq wanted
  BY FoldType
<1>2. created \in Nat /\ created' = next /\ next \in Nat /\ next <= MaxTags /\ next >= created
  <2>1. IsFiniteSet(wanted)
    <3> DEFINE lower == [n \in names |-> Fold[n]]
    <3>1. lower \in Surjection(names, wanted)
      BY DEF Surjection
    <3> QED
      BY <3>1, FS_Surjection
  <2>2. Cardinality(fresh) \in Nat
    BY <2>1, FS_Subset, FS_CardinalityType
  <2> QED
    BY <2>2, Bounds DEF SetTags, TagsTyped
<1>3. PICK id \in [fresh -> (created + 1)..next], shown \in [fresh -> names] :
        /\ OneToOne(id) /\ \A l \in fresh : Fold[shown[l]] = l
        /\ index' = [l \in Lower |-> IF l \in fresh THEN id[l] ELSE index[l]]
        /\ SaveTags(
             [name |-> [t \in TagId |->
                IF \E l \in fresh : id[l] = t
                THEN shown[CHOOSE l \in fresh : id[l] = t] ELSE tags.name[t]],
              of |-> {x \in tags.of : x.entity # e}
                     \cup {[entity |-> e, tag |-> index'[l]] : l \in wanted}])
  BY DEF SetTags
<1> HIDE DEF next
<1>4. /\ tagFile' = tags' /\ tags \in TagStore /\ index \in Index /\ tags' \in TagStore
      /\ index' \in Index
  BY <1>3 DEF SaveTags, TagsTyped, Index
<1>5. \A l \in fresh : /\ id[l] \in TagId /\ id[l] > created /\ id[l] <= next
                       /\ shown[l] \in TagName /\ shown[l] # None /\ Fold[shown[l]] = l
  BY <1>2, <1>3, Bounds, KeysAssumption DEF TagId
<1>6. \A t \in TagId : tags'.name[t] =
        IF \E l \in fresh : id[l] = t
        THEN shown[CHOOSE l \in fresh : id[l] = t] ELSE tags.name[t]
  BY <1>3 DEF SaveTags
<1>7. tags'.of = {x \in tags.of : x.entity # e}
                 \cup {[entity |-> e, tag |-> index'[l]] : l \in wanted}
  BY <1>3 DEF SaveTags
<1>8. \A l \in Lower : index'[l] = IF l \in fresh THEN id[l] ELSE index[l]
  BY <1>3
<1>9. ASSUME NEW l \in fresh
      PROVE  /\ index'[l] = id[l] /\ index'[l] \in TagId /\ index'[l] \notin Named(tags)
             /\ tags'.name[index'[l]] # None /\ Reading(tags', index'[l]) = l
  <2>1. (CHOOSE m \in fresh : id[m] = id[l]) = l
    BY <1>3 DEF OneToOne
  <2>2. id[l] \in TagId /\ id[l] > created /\ index'[l] = id[l]
    BY <1>1, <1>5, <1>8
  <2>3. tags'.name[id[l]] = shown[l]
    BY <1>6, <2>1, <2>2
  <2> QED
    BY <1>5, <2>2, <2>3 DEF Catalogue, Named, Reading
<1>10. /\ \A l \in fresh : index'[l] \in TagId /\ index'[l] \notin Named(tags)
       /\ \A l \in fresh : tags'.name[index'[l]] # None /\ Reading(tags', index'[l]) = l
       /\ \A l \in Lower : l \notin fresh => index'[l] = index[l]
  BY <1>8, <1>9
<1>11. \A t \in TagId : (\A l \in fresh : index'[l] # t) => tags'.name[t] = tags.name[t]
  BY <1>6, <1>9
<1>12. Retags(tags, index, e, wanted, tags', index')
  BY <1>7, <1>10, <1>11 DEF Retags
<1> HIDE DEF wanted, fresh
<1>13. /\ Consistent(tags', index')
       /\ Page(tags') = Page(tags) \cup wanted
       /\ Entries(tags', e) = wanted
       /\ \A f \in Entity \ {e} : Entries(tags', f) = Entries(tags, f)
  <2>1. Consistent(tags, index)
    BY DEF Catalogue
  <2> QED
    BY <1>1, <1>4, <1>12, <2>1, Retagged
<1>14. ASSUME NEW t \in TagId, t > created' PROVE tags'.name[t] = None
  <2>1. t > created /\ \A l \in fresh : index'[l] # t
    BY <1>2, <1>5, <1>9, <1>14 DEF TagId
  <2> QED
    BY <1>11, <2>1 DEF Catalogue
<1>15. Book!Tag(e, wanted)
  BY <1>13, Views DEF Book!Tag
<1>16. Told
  BY <1>1, <1>15 DEF Told, Book!BookNext
<1> QED
  BY <1>4, <1>13, <1>14, <1>16 DEF Catalogue

(* A step of any other operation is not seen, and neither is a restart.    *)
LEMMA Untold ==
  ASSUME Catalogue, UNCHANGED tagVars
  PROVE  Catalogue' /\ Told
BY DEF Catalogue, Told, PageAndEntries, tagVars

(* The index is built from what is in the file.                            *)
LEMMA RestartTold ==
  ASSUME TagsTyped, Catalogue, Restart
  PROVE  UNCHANGED tagVars
<1>1. tags \in TagStore /\ index \in Index /\ Consistent(tags, index) /\ tagFile = tags
  BY DEF TagsTyped, Index, Catalogue
<1>2. IndexOf(tags.name) = index
  BY <1>1, Rebuilt
<1> QED
  BY <1>1, <1>2 DEF Restart, tagVars

(* Every step is one of TagBook, or is not seen by it.                     *)
LEMMA StepTold ==
  ASSUME Typed, Typed', Catalogue, [Next]_vars
  PROVE  Catalogue' /\ Told
<1> USE DEF Typed
<1>1. ASSUME NEW r \in Request, Begins(r) PROVE Catalogue' /\ Told
  BY <1>1, Untold DEF Begins, IssueToken, UpdateToken, TagEntity, RevokeByTag, Present
<1>2. ASSUME NEW r \in Request, Steps(r) PROVE Catalogue' /\ Told
  <2>1. CASE SetEntityTags(r)
    <3>1. req[r].entity \in Entity /\ req[r].names \in SUBSET TagName /\ IsFiniteSet(req[r].names)
      BY <2>1 DEF SetEntityTags, ReqsTyped, WellFormed, Job
    <3> QED
      BY <2>1, <3>1, SetTagsTold, Untold DEF SetEntityTags
  <2>2. CASE ~SetEntityTags(r)
    BY <1>2, <2>2, Untold
       DEF Steps, Issue, UpdateRepo, CheckAbility, UpdateAbilities, CheckKey, RevokeDone,
           PassRepo, PassRole, PassAbility, Use, Gate, RevokeNext
  <2> QED
    BY <2>1, <2>2
<1>3. ASSUME NEW k \in Key, RevokeToken(k) PROVE Catalogue' /\ Told
  BY <1>3, Untold DEF RevokeToken
<1>4. ASSUME NEW n \in TagName, CreateTag(n) PROVE Catalogue' /\ Told
  BY <1>4, CreateTold
<1>5. ASSUME NEW t \in TagId, NEW n \in TagName, RenameTag(t, n) \/ RenameTagFails(t, n)
      PROVE  Catalogue' /\ Told
  BY <1>5, RenameTold, RenameFailsTold, Untold
<1>6. ASSUME NEW t \in TagId, DeleteTag(t) PROVE Catalogue' /\ Told
  BY <1>6, DeleteTold
<1>7. CASE SweepUnused
  BY <1>7, SweepTold
<1>8. ASSUME NEW a \in Account, NEW to \in Role, AccountChanges(a, to) PROVE Catalogue' /\ Told
  BY <1>8, Untold DEF AccountChanges
<1>9. ASSUME NEW p \in Repo, RepoChanges(p) PROVE Catalogue' /\ Told
  BY <1>9, Untold DEF RepoChanges
<1>10. CASE Restart
  BY <1>10, RestartTold, Untold
<1>11. CASE UNCHANGED vars
  BY <1>11, Untold DEF vars, tagVars
<1> HIDE DEF Typed
<1> QED
  BY <1>1, <1>2, <1>3, <1>4, <1>5, <1>6, <1>7, <1>8, <1>9, <1>10, <1>11 DEF Next

(* The stores begin empty.                                                 *)
LEMMA InitTold ==
  ASSUME Init
  PROVE  Catalogue /\ Book!BookInit
<1>1. Named(tags) = {} /\ tags.of = {}
  BY DEF Init, Named
<1>2. Catalogue
  BY <1>1 DEF Init, Catalogue, Consistent
<1>3. Page(tags) = {} /\ \A e \in Entity : Entries(tags, e) = {}
  BY <1>1 DEF Page, Entries
<1> QED
  BY <1>2, <1>3, Views DEF Book!BookInit

(* The index finds every tag by its name, whatever its case, and nothing   *)
(* else; no assignment outlives its tag.  So it stays through renames that *)
(* could not be saved, deletions, sweeps and restarts (internal/tags).     *)
THEOREM CatalogueStaysConsistent == Spec => []CatalogueConsistent
<1>1. Init => Typed /\ Catalogue
  BY InitTyped, InitTold
<1>2. Typed /\ Catalogue /\ [Next]_vars => Typed' /\ Catalogue'
  BY NextTyped, StepTold
<1>3. Typed /\ Catalogue => CatalogueConsistent
  BY DEF Catalogue, Consistent, CatalogueConsistent, Tags, Named, Reading
<1> QED
  BY <1>1, <1>2, <1>3, PTL DEF Spec

(* The tag store, with its ids, index, rollbacks and file, is the book of  *)
(* names and of tagged entities that TagBook specifies.                    *)
THEOREM TagStoreIsATagBook == Spec => ImplementsTagBook
<1>1. Init => Typed /\ Catalogue /\ Book!BookInit
  BY InitTyped, InitTold
<1>2. Typed /\ Catalogue /\ [Next]_vars => Typed' /\ Catalogue'
  BY NextTyped, StepTold
<1>3. Typed /\ Typed' /\ Catalogue /\ [Next]_vars
        => [Book!BookNext]_<<{Fold[tags.name[t]] : t \in Tags}, [e \in Entity |-> TagsFor(e)]>>
  BY StepTold, Views DEF Told, PageAndEntries
<1> QED
  BY <1>1, <1>2, <1>3, PTL DEF Spec, ImplementsTagBook, Book!BookSpec
=============================================================================
