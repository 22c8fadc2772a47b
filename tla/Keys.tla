-------------------------------- MODULE Keys --------------------------------
(***************************************************************************)
(* Subscription keys and the tags that group them.  A key belongs to the   *)
(* username it was issued under and opens one repository; it may carry the *)
(* ability to manage mirrors.  Keys, repositories and accounts are tagged, *)
(* and the tags of a key, of its repository and of its account together    *)
(* decide whether a revocation by tag hits it.                             *)
(*                                                                         *)
(* A request of a subscriber presents a key.  It passes up to four gates,  *)
(* and each reads the key, or its account, anew.                           *)
(*                                                                         *)
(* The key store and the tag store each have one lock, held for one        *)
(* operation and the write of its sealed file; an operation whose write    *)
(* fails puts the memory back.  Handlers string such operations together.  *)
(* Which repositories and accounts there are changes under them: that is   *)
(* Accounts and Lifecycle, summed up here in two actions.                  *)
(***************************************************************************)
EXTENDS Naturals, FiniteSets

CONSTANTS
  Account, Repo,
  Username,        \* the usernames keys are issued under
  AccountOf,       \* parseTokenUsername: the account a username means
  TagName, Fold,   \* tag names; Fold is their lower case
  Request,         \* the goroutines that serve the admins' requests
  MaxKeys,         \* bound on the keys issued
  MaxTags,         \* bound on the tags created
  MaxNames,        \* bound on the names of a request that sets tags
  MaxRequests,     \* bound on the requests of a behaviour
  MaxChanges       \* bound on changes to accounts and repositories, and restarts

None == "none"
Key == 1..MaxKeys
TagId == 1..MaxTags
Lower == {Fold[n] : n \in TagName}
Entity == (Key \X {"key"}) \cup (Repo \X {"repo"}) \cup (Account \X {"account"})
Role == {"admin", "maintainer", "regular", None}

ASSUME KeysAssumption ==
  /\ AccountOf \in [Username -> Account]
  /\ Fold \in [TagName -> TagName]
  /\ None \notin Account \cup Repo \cup Username \cup TagName
  /\ MaxKeys \in Nat /\ MaxTags \in Nat /\ MaxNames \in Nat /\ MaxRequests \in Nat /\ MaxChanges \in Nat

VARIABLES
  keys, keyFile,         \* the key store: its map and its sealed file
  issued,                \* how many keys were issued
  tags, tagFile,         \* the tag store's catalogue and assignments, and file
  index,                 \* its index, from names in lower case to tags
  created,               \* how many tags were created
  role, repos,           \* the accounts, by role, and the repositories
  req,                   \* what each goroutine is doing
  served, changes,       \* bounded counters
  gone,                  \* the keys that were revoked
  entitled               \* the accounts that ever could hold the mirror ability

keyVars == <<keys, keyFile, issued, gone>>
tagVars == <<tags, tagFile, index, created>>
world == <<role, repos, changes, entitled>>
vars == <<keys, keyFile, issued, gone, tags, tagFile, index, created,
          role, repos, changes, entitled, req, served>>

NoKey == [user |-> None, repo |-> None, mirror |-> FALSE]
Idle == [pc |-> "idle", key |-> 0, user |-> None, repo |-> None, mirror |-> None,
         parts |-> {}, names |-> {}, entity |-> <<0, None>>,
         todo |-> {}, fit |-> FALSE]

Live == {k \in Key : keys[k] # NoKey}
Tags == {t \in TagId : tags.name[t] # None}
MayMirror == {"admin", "maintainer"}

Init ==
  /\ keys = [k \in Key |-> NoKey] /\ keyFile = keys /\ issued = 0
  /\ tags = [name |-> [t \in TagId |-> None], of |-> {}] /\ tagFile = tags
  /\ index = [n \in Lower |-> 0] /\ created = 0
  /\ role \in [Account -> {"admin", "regular"}] /\ repos = Repo
  /\ req = [r \in Request |-> Idle]
  /\ served = 0 /\ changes = 0
  /\ gone = {} /\ entitled = {a \in Account : role[a] = "admin"}

Begin(r, job) ==
  /\ req[r].pc = "idle" /\ served < MaxRequests
  /\ served' = served + 1
  /\ req' = [req EXCEPT ![r] = job]

Goto(r, job) == req' = [req EXCEPT ![r] = job] /\ UNCHANGED served

\* A request that is one operation of a store.
Serve ==
  /\ served < MaxRequests /\ served' = served + 1
  /\ UNCHANGED req

-----------------------------------------------------------------------------
(* The key store.                                                          *)

Holds(k, u, repo) == keys[k].user = u /\ keys[k].repo = repo

\* Mutant: a failed write is not undone in memory.
SaveKeysOrNot(map) == keys' = map /\ keyFile' \in {map, keyFile}

SaveKeys(map) == keys' = map /\ keyFile' = map

\* TokenStrategy.Issue
Issue(r) ==
  /\ req[r].pc = "issue"
  /\ \/ /\ issued < MaxKeys
        /\ \A k \in Key : ~Holds(k, req[r].user, req[r].repo)
        /\ issued' = issued + 1
        /\ SaveKeys([keys EXCEPT ![issued + 1] =
             [user |-> req[r].user, repo |-> req[r].repo,
              mirror |-> req[r].mirror = "yes"]])
     \/ UNCHANGED <<keys, keyFile, issued>>
  /\ Goto(r, Idle)
  /\ UNCHANGED <<tagVars, world, gone>>

\* Mutant: the record is blanked and its mirror flag forgotten.
DroppedInPart(k) == [keys EXCEPT ![k].user = None]

Dropped(k) == [keys EXCEPT ![k] = NoKey]

\* TokenStrategy.Revoke
Revoked(k) ==
  /\ k \in Live
  /\ SaveKeys(Dropped(k))
  /\ gone' = gone \cup {k}

\* revokeToken: a key that is unknown and a key that could not be removed from
\* the file get the same answer, and change nothing.
RevokeToken(k) ==
  /\ Serve
  /\ Revoked(k)
  /\ UNCHANGED <<tagVars, world, issued>>

-----------------------------------------------------------------------------
(* The tag store.                                                          *)

IndexOf(names) == [n \in Lower |->
  IF \E t \in TagId : names[t] # None /\ Fold[names[t]] = n
  THEN CHOOSE t \in TagId : names[t] # None /\ Fold[names[t]] = n ELSE 0]

SaveTags(t) == tags' = t /\ tagFile' = t

\* Store.Create
CreateTag(n) ==
  /\ Serve
  /\ index[Fold[n]] = 0 /\ created < MaxTags
  /\ created' = created + 1
  /\ SaveTags([tags EXCEPT !.name[created + 1] = n])
  /\ index' = [index EXCEPT ![Fold[n]] = created + 1]
  /\ UNCHANGED <<keyVars, world>>

\* Mutant: names that differ in case do not collide.
MayBecomeAsWritten(t, n) == t \in Tags /\ \A u \in Tags \ {t} : tags.name[u] # n

\* Another casing of the tag's own name is not a collision.
MayBecome(t, n) ==
  t \in Tags /\ (Fold[n] = Fold[tags.name[t]] \/ index[Fold[n]] = 0)

\* Mutant: the old name keeps pointing at the tag.
ReindexedTwice(t, n) == [index EXCEPT ![Fold[n]] = t]

Reindexed(t, n) == [[index EXCEPT ![Fold[tags.name[t]]] = 0] EXCEPT ![Fold[n]] = t]

\* Store.Rename
RenameTag(t, n) ==
  /\ Serve
  /\ MayBecome(t, n)
  /\ SaveTags([tags EXCEPT !.name[t] = n])
  /\ index' = Reindexed(t, n)
  /\ UNCHANGED <<keyVars, world, created>>

\* Store.Rename when the file cannot be written: the index is put back by hand.
RenameTagFails(t, n) ==
  /\ Serve
  /\ MayBecome(t, n)
  /\ index' = [[Reindexed(t, n) EXCEPT ![Fold[n]] = 0] EXCEPT ![Fold[tags.name[t]]] = t]
  /\ UNCHANGED <<keyVars, world, tags, tagFile, created>>

Without(dead) ==
  [name |-> [t \in TagId |-> IF t \in dead THEN None ELSE tags.name[t]],
   of |-> {x \in tags.of : x.tag \notin dead}]

\* Store.Delete and its cascade
DeleteTag(t) ==
  /\ Serve
  /\ t \in Tags
  /\ SaveTags(Without({t}))
  /\ index' = [index EXCEPT ![Fold[tags.name[t]]] = 0]
  /\ UNCHANGED <<keyVars, world, created>>

Unused == Tags \ {x.tag : x \in tags.of}

\* Store.DeleteUnused
SweepUnused ==
  /\ Serve
  /\ Unused # {}
  /\ SaveTags([tags EXCEPT !.name = [t \in TagId |-> IF t \in Unused THEN None ELSE @[t]]])
  /\ index' = [n \in Lower |-> IF index[n] \in Unused THEN 0 ELSE index[n]]
  /\ UNCHANGED <<keyVars, world, created>>

\* Store.setTags: the names that are new get a tag each, and the entity's tags
\* become the wanted ones.  Of names that differ in case one is kept.
OneToOne(f) == \A x, y \in DOMAIN f : f[x] = f[y] => x = y

SetTags(e, names) ==
  LET wanted == {Fold[n] : n \in names}
      fresh == {l \in wanted : index[l] = 0}
      next == created + Cardinality(fresh)
  IN /\ next <= MaxTags
     /\ created' = next
     /\ \E id \in [fresh -> (created + 1)..next], shown \in [fresh -> names] :
          /\ OneToOne(id) /\ \A l \in fresh : Fold[shown[l]] = l
          /\ index' = [l \in Lower |-> IF l \in fresh THEN id[l] ELSE index[l]]
          /\ SaveTags(
               [name |-> [t \in TagId |->
                  IF \E l \in fresh : id[l] = t
                  THEN shown[CHOOSE l \in fresh : id[l] = t] ELSE tags.name[t]],
                of |-> {x \in tags.of : x.entity # e}
                       \cup {[entity |-> e, tag |-> index'[l]] : l \in wanted}])

-----------------------------------------------------------------------------
(* Handlers.                                                               *)

\* Mutant: only that there is an account is asked.
AllowedAny(u, ability) == ability = "yes" => role[AccountOf[u]] # None

Allowed(u, ability) == ability = "yes" => role[AccountOf[u]] \in MayMirror

\* issueToken: the repository and the account exist and the account's role may
\* hold the ability; none of that is looked at again.
IssueToken(r, u, repo, ability) ==
  /\ repo \in repos /\ role[AccountOf[u]] # None
  /\ Allowed(u, ability)
  /\ Begin(r, [Idle EXCEPT !.pc = "issue", !.user = u, !.repo = repo,
                           !.mirror = ability])
  /\ UNCHANGED <<keyVars, tagVars, world>>

\* adminUpdateToken does the parts of the body it got, in the order move,
\* ability, retag, and stops at the first that is refused; what was done stays.
UpdateToken(r, k, parts, repo, ability, names) ==
  /\ parts # {} /\ k <= issued
  /\ "move" \in parts => repo \in repos
  /\ Begin(r, [Idle EXCEPT !.pc = "patch", !.parts = parts, !.key = k, !.repo = repo,
                           !.mirror = ability, !.names = names])
  /\ UNCHANGED <<keyVars, tagVars, world>>

Patched(job, part) ==
  IF job.parts = {part} THEN Idle
  ELSE [job EXCEPT !.pc = "patch", !.parts = @ \ {part}]

\* TokenStrategy.UpdateRepo: no other key of the username opens the repository.
\* Mutant: a moved key is not compared with the keys that are there.
MayMoveAnywhere(k, repo) == k \in Key

MayMove(k, repo) == \A other \in Key \ {k} : ~Holds(other, keys[k].user, repo)

UpdateRepo(r) ==
  /\ req[r].pc = "patch" /\ "move" \in req[r].parts
  /\ LET k == req[r].key
     IN \/ /\ k \in Live
           /\ keys[k].repo = req[r].repo \/ MayMove(k, req[r].repo)
           /\ SaveKeys([keys EXCEPT ![k].repo = req[r].repo])
           /\ Goto(r, Patched(req[r], "move"))
        \/ Goto(r, Idle) /\ UNCHANGED <<keys, keyFile>>
  /\ UNCHANGED <<tagVars, world, issued, gone>>

\* ensureAbilitiesAllowedForAccount, for the username of the key
CheckAbility(r) ==
  /\ req[r].pc = "patch" /\ "ability" \in req[r].parts /\ "move" \notin req[r].parts
  /\ Goto(r, IF req[r].key \in Live /\ Allowed(keys[req[r].key].user, req[r].mirror)
                THEN [req[r] EXCEPT !.pc = "allowed"] ELSE Idle)
  /\ UNCHANGED <<keyVars, tagVars, world>>

\* TokenStrategy.UpdateAbilities
UpdateAbilities(r) ==
  /\ req[r].pc = "allowed"
  /\ \/ /\ req[r].key \in Live
        /\ SaveKeys([keys EXCEPT ![req[r].key].mirror = req[r].mirror = "yes"])
        /\ Goto(r, Patched(req[r], "ability"))
     \/ Goto(r, Idle) /\ UNCHANGED <<keys, keyFile>>
  /\ UNCHANGED <<tagVars, world, issued, gone>>

\* The key is there; its tags are set a step later, whether or not it still is.
CheckKey(r) ==
  /\ req[r].pc = "patch" /\ req[r].parts = {"retag"}
  /\ Goto(r, IF req[r].key \in Live
                THEN [Idle EXCEPT !.pc = "settags", !.entity = <<req[r].key, "key">>,
                                  !.names = req[r].names]
                ELSE Idle)
  /\ UNCHANGED <<keyVars, tagVars, world>>

\* handleAdminRepoTags and handleAdminAccountTags, up to the store
TagEntity(r, e, names) ==
  /\ \/ \E p \in repos : e = <<p, "repo">>
     \/ \E a \in Account : e = <<a, "account">> /\ role[a] # None
  /\ Begin(r, [Idle EXCEPT !.pc = "settags", !.entity = e, !.names = names])
  /\ UNCHANGED <<keyVars, tagVars, world>>

SetEntityTags(r) ==
  /\ req[r].pc = "settags"
  /\ \/ SetTags(req[r].entity, req[r].names)
     \/ UNCHANGED tagVars
  /\ Goto(r, Idle)
  /\ UNCHANGED <<keyVars, world>>

TagsFor(e) == {Fold[tags.name[x.tag]] : x \in {y \in tags.of : y.entity = e /\ y.tag \in Tags}}

\* EffectiveSubscriptionTags; the account counts only while it exists.
Effective(k) ==
  LET a == AccountOf[keys[k].user]
  IN TagsFor(<<k, "key">>) \cup TagsFor(<<keys[k].repo, "repo">>)
       \cup (IF role[a] # None THEN TagsFor(<<a, "account">>) ELSE {})

\* matchingSubscriptionsByTag: any of the wanted tags will do.
Matches(want) == {k \in Live : Effective(k) \cap want # {}}

\* handleAdminRevokeByTag lists its keys first
RevokeByTag(r, want) ==
  /\ want # {} /\ Matches(want) # {}
  /\ Begin(r, [Idle EXCEPT !.pc = "revoking", !.todo = Matches(want)])
  /\ UNCHANGED <<keyVars, tagVars, world>>

\* ... and revokes them one by one.  Revoke says no for a key that is gone, and
\* for one that it had to put back; both are passed over.
RevokeNext(r, k) ==
  /\ req[r].pc = "revoking" /\ k \in req[r].todo
  /\ \/ Revoked(k)
     \/ UNCHANGED <<keys, keyFile, gone>>
  /\ Goto(r, [req[r] EXCEPT !.todo = @ \ {k}])
  /\ UNCHANGED <<tagVars, world, issued>>

RevokeDone(r) ==
  /\ req[r].pc = "revoking" /\ req[r].todo = {}
  /\ Goto(r, Idle)
  /\ UNCHANGED <<keyVars, tagVars, world>>

-----------------------------------------------------------------------------
(* Requests of subscribers.  user is whom the key stood for on arrival; fit *)
(* records whether the account could manage mirrors at some time since.     *)

\* TokenStrategy.Authenticate
Authentic(k) == k \in Live

\* Provider.Middleware lets a request to the handlers: to write to a repository,
\* to manage its mirrors, or, without one, to list the repositories.
Present(r, k, repo, ability) ==
  /\ Authentic(k) /\ (repo = None => ability = "no")
  /\ Begin(r, [Idle EXCEPT !.pc = "opens", !.key = k, !.user = keys[k].user,
                           !.repo = repo, !.mirror = ability,
                           !.fit = role[AccountOf[keys[k].user]] \in MayMirror])
  /\ UNCHANGED <<keyVars, tagVars, world>>

Gates == {"opens", "ranks", "able", "uses"}

Gate(r, pc, passes, next) ==
  /\ req[r].pc = pc
  /\ Goto(r, IF passes THEN [req[r] EXCEPT !.pc = next] ELSE Idle)
  /\ UNCHANGED <<keyVars, tagVars, world>>

\* requireAllow: the key as it is now opens the repository, or any.
PassRepo(r) ==
  Gate(r, "opens", req[r].key \in Live /\ req[r].repo \in {None, keys[req[r].key].repo},
       IF req[r].mirror = "yes" THEN "ranks" ELSE "uses")

\* Mutant: the ability of the key is enough.
PassAnyRole(r) == Gate(r, "ranks", TRUE, "able")

\* requireMaintainerOrAdmin, for the account behind the request
PassRole(r) ==
  Gate(r, "ranks", role[AccountOf[req[r].user]] \in MayMirror, "able")

\* requireAbility
PassAbility(r) ==
  Gate(r, "able", req[r].key \in Live /\ keys[req[r].key].mirror, "uses")

\* What the request was for is done, in another module.  A listing shows the
\* repository the key opens by now.
Use(r) == Gate(r, "uses", FALSE, "idle")

-----------------------------------------------------------------------------
Change == changes < MaxChanges /\ changes' = changes + 1

\* Accounts come, go, and get other roles.
AccountChanges(a, to) ==
  /\ Change
  /\ role' = [role EXCEPT ![a] = to]
  /\ entitled' = IF to \in MayMirror THEN entitled \cup {a} ELSE entitled
  /\ req' = [r \in Request |->
       IF req[r].pc \in Gates /\ AccountOf[req[r].user] = a /\ to \in MayMirror
       THEN [req[r] EXCEPT !.fit = TRUE] ELSE req[r]]
  /\ UNCHANGED <<keyVars, tagVars, repos, served>>

\* Repositories are created and deleted; keys and tags of the name stay.
RepoChanges(p) ==
  /\ Change
  /\ repos' = IF p \in repos THEN repos \ {p} ELSE repos \cup {p}
  /\ UNCHANGED <<keyVars, tagVars, role, entitled, req, served>>

\* The stores are read back, and the index is built anew.
Restart ==
  /\ Change
  /\ keys' = keyFile /\ tags' = tagFile
  /\ index' = IndexOf(tagFile.name)
  /\ req' = [r \in Request |-> Idle]
  /\ UNCHANGED <<keyFile, issued, gone, tagFile, created, role, repos, entitled,
                 served>>

YesNo == {"yes", "no"}
NameSets == {names \in SUBSET TagName : IsFiniteSet(names) /\ Cardinality(names) <= MaxNames}

Begins(r) ==
  \/ \E u \in Username, p \in Repo, m \in YesNo : IssueToken(r, u, p, m)
  \/ \E k \in Key, parts \in SUBSET {"move", "ability", "retag"} :
       \E p \in IF "move" \in parts THEN Repo ELSE {None},
          m \in IF "ability" \in parts THEN YesNo ELSE {None},
          names \in IF "retag" \in parts THEN NameSets ELSE {{}} :
         UpdateToken(r, k, parts, p, m, names)
  \/ \E e \in Entity, names \in NameSets : TagEntity(r, e, names)
  \/ \E want \in SUBSET Lower : RevokeByTag(r, want)
  \/ \E k \in Key, p \in Repo \cup {None}, m \in YesNo : Present(r, k, p, m)

Steps(r) ==
  \/ Issue(r) \/ UpdateRepo(r) \/ CheckAbility(r) \/ UpdateAbilities(r)
  \/ CheckKey(r) \/ SetEntityTags(r) \/ RevokeDone(r)
  \/ PassRepo(r) \/ PassRole(r) \/ PassAbility(r) \/ Use(r)
  \/ \E k \in Key : RevokeNext(r, k)

Next ==
  \/ \E r \in Request : Begins(r) \/ Steps(r)
  \/ \E k \in Key : RevokeToken(k)
  \/ \E n \in TagName : CreateTag(n)
  \/ \E t \in TagId, n \in TagName : RenameTag(t, n) \/ RenameTagFails(t, n)
  \/ \E t \in TagId : DeleteTag(t)
  \/ SweepUnused
  \/ \E a \in Account, to \in Role : AccountChanges(a, to)
  \/ \E p \in Repo : RepoChanges(p)
  \/ Restart

Spec == Init /\ [][Next]_vars

-----------------------------------------------------------------------------
TagStore == [name : [TagId -> TagName \cup {None}], of : SUBSET [entity : Entity, tag : TagId]]
KeyRow == [user : Username, repo : Repo, mirror : BOOLEAN] \cup {NoKey}
Pcs == {"idle", "issue", "patch", "allowed", "settags", "revoking"} \cup Gates

Job == [pc : Pcs, key : Key \cup {0}, user : Username \cup {None},
        repo : Repo \cup {None}, mirror : YesNo \cup {None},
        parts : SUBSET {"move", "ability", "retag"}, names : SUBSET TagName,
        entity : Entity \cup {<<0, None>>}, todo : SUBSET Key, fit : BOOLEAN]

\* Types of the two stores, their files and the handlers above.
TypeOK ==
  /\ keys \in [Key -> KeyRow] /\ keyFile \in [Key -> KeyRow] /\ issued \in 0..MaxKeys
  /\ tags \in TagStore /\ tagFile \in TagStore /\ created \in 0..MaxTags
  /\ index \in [Lower -> TagId \cup {0}]
  /\ role \in [Account -> Role] /\ repos \subseteq Repo
  /\ req \in [Request -> Job]
  /\ served \in 0..MaxRequests /\ changes \in 0..MaxChanges
  /\ gone \subseteq Key /\ entitled \subseteq Account

\* "at most one key per (account, repo)", for keys issued under one spelling of
\* the username: neither two requests that passed the checks together, nor a
\* key that is moved, nor a restart makes a second one.
OneKeyPerName ==
  \A k, l \in Live : k # l => keys[k].user # keys[l].user \/ keys[k].repo # keys[l].repo

\* A revoked key is not a key again, whatever restarts or saves follow.
RevokedStaysRevoked == gone \cap Live = {}

\* A key carries the mirror ability only if its account's role allowed it at
\* some time: moving a key and changing its abilities do not get around the
\* check that was made for the account.  And a request manages mirrors only if
\* the role allowed it since the request arrived, so a key that outlived the
\* role of its account is of no use: "a regular account that somehow holds a
\* key with the `mirror` ability still cannot act on it" (respond.go).
MirrorWasEntitled ==
  /\ \A k \in Live : keys[k].mirror => AccountOf[keys[k].user] \in entitled
  /\ \A r \in Request : req[r].pc = "uses" /\ req[r].mirror = "yes" => req[r].fit

\* The index finds each tag by its name in lower case and nothing else, also
\* after a rename that had to be undone; no assignment outlives its tag.
CatalogueConsistent ==
  /\ \A t \in Tags : index[Fold[tags.name[t]]] = t
  /\ \A n \in Lower : index[n] # 0 => index[n] \in Tags /\ Fold[tags.name[index[n]]] = n
  /\ \A x \in tags.of : x.tag \in Tags

Book == INSTANCE TagBook WITH
  Name <- Lower,
  book <- {Fold[tags.name[t]] : t \in Tags},
  tagged <- [e \in Entity |-> TagsFor(e)]

\* The tag store implements TagBook.
ImplementsTagBook == Book!BookSpec
=============================================================================
