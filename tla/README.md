# GiGot in TLA+

GiGot is a git-backed server for Formidable: bare repositories on disk, a REST
write API that merges structured records, smart HTTP for plain git clients,
mirrors to other git hosts, and the accounts, keys and vault around them. It
is one Go process. Requests run concurrently, every repository operation is a
chain of `git` subprocesses, and no lock protects a repository: correctness
rests on compare-and-swap updates of refs and on short locks inside each store.
These modules model that concurrency; `PROJECT.json` ties every definition to
the lines it stands for, lists what is hard to test here ("hazards") with the
properties that are about it, and the disagreements found ("findings").

## Inventory

| Component | State | Operations | Hard behaviour | What makes it correct | Modules |
|---|---|---|---|---|---|
| Git manager (`internal/git`: manager, write, commit, refs, changes, scaffold) | bare repositories: `refs/heads/*`, `refs/audit/main`, immutable objects | Head, Tree, File, WriteFile, Commit, Changes, InitBare, CloneBare, Scaffold, Delete | no locks: HEAD is read in one subprocess and moved in another, at most five attempts | no accepted write is lost or half applied; merges keep both sides; a call always ends | `RepoWrite` |
| Write handlers (`server`: handler_sync, formidable_merge, formidable_scaffold, audit) | none of their own | PUT /files, POST /commits, conversion, .gitignore autofix | structured merge at one HEAD followed by a git merge at another; a second commit after the client's | nobody's edit is overwritten silently; conflicts are refused as a whole | `RepoWrite`, `Records` |
| Record logic (`formidable`) | none: functions | merge, meta, query | three-way rules per field, tags, facets, timestamps; a client that puts again | the same record whichever put comes first, where they do not conflict | `RecordMerge`, `Records` |
| Mirrors (mirror_worker, mirror_push, mirror_pull, mirror_status, mirror_status_poll and their handlers) | channel of 128 repositories, one worker, one poller | enqueue, push, pull, refresh, mark, poll | bounded queue, pushes under way while writes arrive, restarts, panics, outcomes recorded late, refs that only one side has | nothing announced is forgotten; a badge says what is so | `Mirror`, `LiveConfig` |
| Git transport (handler_git, router, slot_pool, load_tracker, handler_admin_limits) | slots in use, capacity, counters | receive-pack, upload-pack, resize | before/after listings beside other writers; resizing while pushes run | every slot taken is given back; moves are told | `LiveConfig`, `AuditTrail`, `Server` |
| Audit trail (git/audit) | chain on `refs/audit/main` | append, seed from history, back-fill | five compare-and-swap attempts, then the entry is dropped | an append-only chain that tells each head once | `AuditTrail` |
| Accounts, sessions, logins (accounts, handler_admin_accounts, handler_register, auth/session, auth/oauth, auth/gateway) | sealed maps of accounts and sessions; pending login states | put, patch, remove, verify; create, destroy, expire; put, take, sweep | the last-admin check precedes the write; rows written back late; failed saves; restarts | roles are what admins made them; what ended stays ended; one login per state | `Accounts` |
| Keys, policy and tags (auth/token, policy, tags, handler_admin_tags, entity_tags, revoke_by_tag) | sealed map of keys; catalogue, index and assignments | issue, move, abilities, revoke; create, rename, delete, sweep, set, revoke by tag | checks made before the change they allow; rename and sweep beside assignments | one key per name and repository; no assignment of a tag that is gone | `Keys`, `TagBook` |
| Destinations, credentials, clients, system audit (destinations, credentials, clients, audit) | sealed maps and a sealed log | add, update, remove; put, touch, remove; enroll; append | reference check and removal are two steps; failed saves that are not undone | no live destination loses its credential; the first key of a client stays | `Vault`, `Mirror` |
| Sealed files and keys (crypto) | files under the server's key | save, load, rotate | a rotation that stops half-way | every file opens with the key on disk, or its backup does | `Vault` |
| Lifecycle (handler_repos) | directories | create, clone, delete | several stores change in separate steps | no leftovers that revive a name | `Vault`, `AuditTrail` |
| Configuration, startup, reload (server, config, cli) | `s.cfg`, its file, the chain of strategies | PATCH limits, mirror, auth; Save, Load, New | overlapping PATCHes; a file that is truncated and filled | what runs is what is configured | `LiveConfig`, `Server` |
| Pages, help, demo, benchmark, generated docs | templates | rendering | none | | not modelled |

Calls go one way: handlers call the git manager and the stores; the worker and
the poller call the stores and git. A write announces itself through
`afterRepoHeadBump`, which clears the remote status of the repository's
destinations and queues the repository. Nearly every hazard has one of three
shapes: a handler reads one store and acts on another, or on the same one,
when what it read may have changed; a write fails after part of the change was
made; the process stops between two steps.

## Modules

| Module | Content | Proofs |
|---|---|---|
| `Merge3` | trees, change sets, the three-way merge of git and of records by hunks | `Merge3Proofs` |
| `AtomicRepo` | abstract: requests answered one atomic merge at a time | |
| `RepoWrite`, `MCRepoWrite` | the lock-free write path, with handlers, autofix, conversion, pushes and forced moves | `RepoWriteProofs` |
| `RecordMerge` | how two versions of a record become one, key by key | `RecordsProofs` |
| `Records`, `MCRecords` | one record, its clients, and PUT /files | `RecordsProofs` |
| `Mirror`, `MCMirror` | announcements, the worker's channel, pushes, pulls, refreshes, destinations | `MirrorProofs` |
| `Accounts`, `MCAccounts` | accounts, sessions, sign-ins | `AccountsProofs` |
| `TagBook` | abstract: a catalogue of names and the names of each entity | `KeysProofs` |
| `Keys`, `MCKeys` | keys, the gates of a key's request, the tag store, revocation by tag | `KeysProofs` |
| `Vault`, `MCVault` | repositories, destinations, credentials, clients, system audit, key rotation | `VaultProofs` |
| `LiveConfig` | slots, poller, authentication chain, configuration and its file | `ServerProofs` |
| `AuditLog` | abstract: entries appended in one step, once and in order, or given up | `ServerProofs` |
| `AuditTrail` | the audit chain, its appenders, pushes told from two listings, the seeding | `ServerProofs` |
| `Server`, `MCServer` | LiveConfig and AuditTrail as one process with stops and starts | `ServerProofs` |

In all of them an action is one critical section: one operation under a store's
lock with the save that belongs to it, one git subprocess, or one access to
shared memory. What a handler carries from one to the next is in a record per
goroutine (`call`, `job`, `req`, `patch`), whose `pc` says where it stands.
Where a save can fail the action has a disjunct for it that leaves the memory
as the code leaves it, put back or not. Names given to a second version of an
operator ("Mutant: ...") are plausible mistakes in the code; each property is
violated by one of them, which shows that it says something.

### RepoWrite

`head` is the commit the default branch names and `store` the commits it has
ever reached, with tree and history; `call[w]` is the local state of one request
goroutine. One action is one access to the branch:

- `Submit` is PUT /files or POST /commits up to the git manager: it reads HEAD
  (`Records`, `MergedChange`), refuses a conflicting record, and moves the
  parent of the whole change set to HEAD when a record was merged.
- `ReadHead`, `Publish` and `LoseRace` are one attempt of `WriteFile`/`Commit`:
  read HEAD, refuse or prepare (`Candidate`), then `update-ref` with the old
  value. It works only if the branch still is where HEAD was read, and it
  may fail whatever the reason: a race, a held lock file, a full disk. The loop
  does not look and counts an attempt.
- `Autofix` follows every published client write, and comes first in
  `PushDestination`; `Shape` and `Plan` are the conversion. Both leave the
  parent as "HEAD", which `Resolve` looks up at a later moment.
- `Push` is a fast-forward over smart HTTP, `Rewind` a forced push or a pull.

A fast-forward is not a case of its own: `FastForwardIsMerge` proves that it is
the merge whose base is HEAD. A file is absent or a function from hunks to
texts. For a plain file a hunk is a group of lines that git merges on its own,
for a record it is a data field. The rules of the meta keys are those of
`RecordMerge`. Objects no ref reached, authorship and messages are left out.
`Broken` has the texts that keep a file from being parsed. A repository is
`Formidable` if the file at `MarkerPath` is there and parses; the record merge and
the autofix look at HEAD for it, in the step that reads what they go on with. A
record is `Mergeable` if its three sides parse: one that is new, gone or
malformed on a side is left to git, like any file. The conversion lists the tree
in one step (`Shape`) and reads the marker and .gitignore in a later one
(`Plan`), at the HEAD of that moment, and treats a marker that does not parse then
like a missing one. Renames, which git's merge can follow, are not modelled.

`AtomicRepo` keeps the content of the branch, the trees of its history and the
requests not answered yet. A request is refused without a trace, or in one step
the branch takes the merge of *its* change set into the content it has then.
`RepoWrite` maps `content` to the tree of `head`, `history` to the trees of its
ancestors and `pending` to the calls in the loop (`InLoop`, `Asked`): `Submit`
and `Resolve` ask, `Publish` writes, a conflict or giving up refuses, pushes and
forced moves are `Extend` and `Replace`, every other step is a stutter.

### RecordMerge and Records

`RecordMerge` is the merge of package `formidable` as functions on a record:
data fields and facets (`MergeField`, refused when both sides changed one to
different values), the keys that never change (`id` for all of them; refused
when a side altered it), `updated` (the later time, and the side that has it
wins the keys without a rule), tags (the union, trimmed and in lower case),
`flagged` (either), and the keys that follow the newer side. `Records` puts it
to use: `Fetch`, `Edit` and `Put` of clients that work away from the server, with
answers that are lost. A put that starts from HEAD lands as it is, another is
merged or refused. HEAD moving between merge and commit is `RepoWrite`'s matter,
whose hunks are the data fields here.

### Mirror

What the mirrored namespaces (`refs/heads/*`, `refs/audit/*`) hold is a set of
pairs of a ref and a change made to it. `job[j]` is a goroutine: a handler, or
the worker. `Write`, `Audit`, `Invalidate`, `Enqueue` and `Autofix` are the steps
of a write in the order of the code; the autofix announces itself once more.
`fixed` says that no autofix is due: none follows git-receive-pack. `Delete` is a
git-receive-pack that deletes a branch, announced like any other; git refuses to
delete the one HEAD names. `Take` and `NextDest` are the worker's loop over a copy
of the destinations; `PushReads`, `PushEnds`, `RecordSync` and `Mark` are
`pushOnce`, which the manual sync shares. `Panic` is a panic of the worker that
`processRepoSafe` recovers: the goroutine lives on, but the outcome of the push
at hand and the destinations still to come are dropped. `Pull`, `FetchReads` and
`FetchEnds` are the admin pull; `Refresh`, `LsRemote`, `Compare` and `Record` are
`refreshRemoteStatus`, for the admin and the poller. A conversion moves the head
and is audited, but announces nothing, as in the code; a git-receive-pack that
ends with an error may have moved refs and does not announce them either
(`"silent"`). `Crash` is a restart of the process: it empties the channel and
ends every job.

The git programs are external. `git push` reads the refs once and some time later
forces them on the remote; a push that fails or times out may have arrived all
the same, for some refs or all; a fetch may fail in the same way. `Forced` is
what either leaves: the refs that came have taken the place of the old ones, and
*the others stay*, because the refspecs are given without `--prune`. So a branch
deleted here never goes away there, a branch only the remote has stays, and a
pull takes no local branch away. That git could reject a push whose remote moved
meanwhile is not assumed. Each destination has remote addresses of its own. The
end of a push, the update of `last_sync_status` and that of the badge are three
steps, and a restart may come between them. The vault is only whether a
destination's credential is there, and `DropCredential` may take it at any time;
how it can come to that is in `Vault`. The per-ref rows of a status, a failed save
of the store (`Vault` has those) and a listing of refs torn by a concurrent write
are not modelled.

Five variables belong to the properties and not to the code: `announced` (what
the repository held when it was last announced, less what a deletion or a pull
took from it since), `lost` (that announcement fell out of the full channel, or
into a restart or a panic), `touched` (an admin changed the destination's address
or flag, or its credential was removed), `crossed` (two pushes to it were under
way at once) and `pulled` (a pull replaced refs of the repository). So does the
field `knows` of a job, what had been announced when it began; the mark after a
pull knows nothing, since the pull says nothing of what the remote lacks. A push
that sets out when nobody else is at the destination, to the address it has now
(`Alone`), takes it out of `touched` and `crossed`.

### Accounts

`accts` and `sess` are the two stores with their files, `states` the ledger of
OAuth states, `req` the requests. The operations of the stores (`Put`, `Remove`,
`SetPassword`, `CreateSession`, ...) hold the store's lock; a handler is several
of them, with the row it read carried along: `AdminUpdate` keeps the role it
read when the body has none, `CountAdmins` counts one step before the demotion
or removal it allows, `OAuthClaim` writes a stale row back as it was read,
`Register` takes the account away again when the password cannot be stored.
`Restart` opens the files, drops expired sessions and seeds the admins of the
config. `asked` says of a request about to store a role that it is an admin's and
names the role itself. `crowded` marks requests that overlapped with another one;
these two, `ended` and `redeemed` belong to the properties.

### Keys and TagBook

`keys` and `tags` are the two stores with their files, `index` the tag store's
map from names in lower case to tags, which the code keeps by hand and puts back
by hand when a rename cannot be saved. `IssueToken`, `UpdateToken` with its
parts (move, ability, retag, in that order, each checked a step before it is
done), `RevokeToken` and `RevokeByTag`, which lists first and revokes one by
one, are the admins' requests. A subscriber's request passes the gates
`Present`, `PassRepo`, `PassRole`, `PassAbility`, each of which reads the key or
the account anew, before `Use`. Accounts and repositories change under all of
this in `AccountChanges` and `RepoChanges`.

`TagBook` is what the tag store promises: names unique whatever their case, and
a set of names for each entity; a call does all of one thing or nothing, and a
restart is not seen. `Keys` maps `book` to the names of its tags in lower case
and `tagged` to `TagsFor`.

### Vault

A repository's directory is the number of its incarnation, so that a destination
can be told from one that was made for an earlier repository of that name. Each
store is its memory, its file, the key that seals the file, and the backups of
it; `Saved`, `Unsaved` and `Undone` are the three things a save can come to.
`CreateRepo` ... `Shape` is createRepo, in which `git init` accepts a directory
that has appeared meanwhile and `git clone` refuses it; `DeleteRepo` and
`Cleanup` are the deletion and its cascade. `CreateDest`/`UpdateDest`, `LookUp`
and `Add`/`Update` look the credential up one step before they name it;
`DeleteCred` and `Forget` look for references one step before the removal.
`Enroll` and `AppendEvent` are the clients and the system log. With the server
stopped `-rotate-keys` runs: `Rotate` decrypts everything and makes a key,
`BackUpKey`, `ReplaceKey`, then for each file `BackUpFile` and `RewrapFile`; it
can end at any of them (`RotateEnds`), and `Revert` is what the operator is told
to do then.

### LiveConfig, AuditTrail and Server

`LiveConfig` has the three PATCH requests in the order of the code: change
`s.cfg`, apply it (`ApplyLimits`; `StopPoller` and `SwapPoller` under `pollMu`;
`SwapChain` and `SetAuth` under `authMu`), then `Config.Save`, which reads the
fields one by one and opens, empties and fills the file without a lock. A file
that is being filled is `Torn`. A configured number of slots below 1 is kept as
it is and taken for 1 by the pool (`Clamped`). `Admit`, `Track` and `Finish` are
a push at the gate, `BeginCheck`, `EndCheck` and `PollerReturns` the poller.

`AuditTrail` has the branches, the history behind each commit (`log`), the chain,
and who appends to it: a push (`BeginPush` lists, `Receive` moves, `Received`
lists again and compares), a write through the API, the creation, and the
seeding from history. `ReadHead`, `Extend`, `LoseRace` and `AppendFails` are
`AppendAudit`; `LoseRace` is a failed update-ref for any reason, as in the write
path. The ghost `newest` is the commit the last move of a branch made, 0
if it moved to one there was; `dropped` has the branches an error left untold.

`Server` joins them: a push is tracked when its first listing is made, gives its
slot back when it has been audited; a stop ends the requests of both, and the
start seeds the chains before it serves with the configuration it loaded.

## What is checked

| Run | Question | Properties |
|---|---|---|
| `repo_write` | two writers, pushes, one forced move and update-refs that fail for any reason race on a branch | `TypeOK`, `AckedSurvive`, `BothSidesKept`, `ImplementsAtomicRepo`, `CallsRunOut`, `EveryCallReturns` |
| `repo_write_mixed` | is a change set with a record and a plain file merged path by path | `NothingOverwritten`: violated |
| `repo_write_shape` | does the conversion leave existing files alone | `ShapeTouchesNothing`: violated |
| `mirror` | two repositories, a destination with two addresses, a channel with room for one event, a deletion, a restart or a panic: does what was announced arrive, and what is a badge worth | `TypeOK`, `Delivered`, `BadgeKnows`, `CatchesUp` |
| `mirror_badge` | can the badge claim in_sync past a write | `BadgeCannotLie`: violated |
| `mirror_prune` | are the two sides equal after a forced push or fetch | `ForcedMeansEqual`: violated |
| `accounts` | who changes a role, what a restart brings back, when the last admin can go | `TypeOK`, `OnlyRacesRegrade`, `FilesFollowMemory`, `EndedStaysEnded`, `StateSpentOnce`, `PasswordKept`, `OnlyRacesEmptyAdmins` |
| `accounts_last` | does the console keep an admin | `AnAdminRemains`: violated |
| `keys` | keys, tags and the gates of a key's request, beside changes of accounts and repositories | `TypeOK`, `OneKeyPerName`, `RevokedStaysRevoked`, `MirrorWasEntitled`, `CatalogueConsistent`, `ImplementsTagBook` |
| `vault` | overlapping requests, failed saves, stops, rotations | `TypeOK`, `RotationLosesNothing`, `NothingForgotten`, `StraysExplained`, `OrphansExplained`, `OnlyRacesCreateTwice` |
| `server` | pushes, writes, seeding, PATCHes, the poller and stops in one process | `TypeOK`, `OnePoller`, `LiveAsConfigured`, `HeadsAudited`, `SeededOnce`, `SlotsAccounted`, `ImplementsAuditLog` |
| `records` | two clients edit one record and put it, again when the answer is lost | `EditsLand`, `RetryHarmless`, `OrderIrrelevant` |

Writes:

- `AckedSurvive`: a version that was answered stays in the history of the branch
  until a forced move.
- `BothSidesKept`: a published write, a client's or the server's own, contains
  what it changes and keeps what anybody else changed since the version it
  edited; it is stated over the version the client *named*, so it covers the
  record merge and the later git merge together.
- `CallsRunOut`: each step of a call uses up one of the finitely many it has
  left, and no step of another gives it new ones. `EveryCallReturns` is that
  plus fairness.
  That a call which gives up met contention is *not* so, whatever its error says:
  see finding 6.
- `EditsLand`: a field gives way only to somebody who had seen what it held, and
  no change of a client to one is dropped by a put that lands. `RetryHarmless`:
  a put repeated because its answer was lost leaves the record saying what it
  said. `OrderIrrelevant`: which of two puts comes first does not matter, unless
  they were saved at the same time or both gave a record a new id.

Mirrors:

- `Delivered`: once nothing about a repository is queued or running, every
  enabled destination whose last push succeeded has what was announced, unless
  the event was dropped from a full channel *while the repository was not
  queued already*, or was lost in a restart or a panic of the worker. It holds
  whoever pushed, the worker or an admin, with two exceptions that the code does
  allow, each only until the next push that sets out alone: two pushes at once,
  of which the older snapshot may arrive last (see "Also noticed"), and a
  destination that an admin changed, whose statuses describe what it was. So
  such a destination is put right by the next write, or by a manual push, and
  is never wrong for good. It is about what a destination lacks: what a
  deletion or a pull took from the repository no longer counts as announced, and
  nothing is said of what a destination has too much. `CatchesUp`: fairness turns
  that into a promise.
- `BadgeKnows`: when a push or a refresh sets in_sync, the remote holds everything
  that was announced before that job began and is still there, with the same two
  exceptions. For a refresh that needs the clause that no pull replaced what the
  repository holds: after pulls back and forth a push that read the refs between
  them can end between a comparison and its verdict. Of the mark after a pull it
  says nothing, and there is nothing to say: the remote may lack refs that were
  announced. `BadgeCannotLie`, the stronger statement of the comment on
  `afterRepoHeadBump`, does not hold, and neither does `ForcedMeansEqual`, the
  equality that the comment on `markRemoteInSync` relies on.

Accounts and keys:

- `OnlyRacesRegrade`: the role of an account changes, or an admin appears, only by
  an admin's request that names the role, by the seeding at the start, or by a
  request that had company and wrote back a row it had read before. The last is
  what a sign-in and an update without a role do, and what they can undo: see
  finding 7. `OnlyRacesEmptyAdmins`: a request that has the server to itself never
  removes the last one.
- `FilesFollowMemory`, `EndedStaysEnded`, `RevokedStaysRevoked`: a failed save
  is undone, and a restart revives nothing. A key that a revocation by tag passes
  over, because it was moved, retagged or could not be saved meanwhile, is not
  revoked, and no property is about it.
- `PasswordKept`: no request that writes a row without a password blanks it.
- `OneKeyPerName` and `MirrorWasEntitled`: checks made a step before the change
  they allow still hold when it is made, as far as the code relies on them.
- `CatalogueConsistent`: the index finds each tag and nothing else, and what is
  assigned exists. That keys and assignments outlive the repository they name is
  in the model (`RepoChanges`), and no property forbids it.

Vault and server:

- `RotationLosesNothing`: wherever a rotation stops, one key opens all files, or
  backups of them that hold the same. `NothingForgotten`: first keys and the
  system log survive failed saves, stops and reverts.
- `StraysExplained`, `OrphansExplained`, `OnlyRacesCreateTwice` bound what can
  come apart: a destination without its repository or credential, a repository
  two callers were told they made, arise only from overlapping requests or the
  saves and stops the properties name, never from one request alone.
- `SlotsAccounted`, `OnePoller`, `LiveAsConfigured`: resizes, swaps and reloads
  leave no slot, poller or strategy behind; after requests that overlapped, a
  failed save or a stop, memory and file may differ, and the ghost `apart`
  says in what: this bounds what overlapping PATCH requests do, and does not
  rule it out.
- `ImplementsAuditLog`, `HeadsAudited`, `SeededOnce`: the compare-and-swap loop
  is an atomic append (`AuditLog`): what a goroutine has to say is put at the end
  of the chain once and in its order, or given up without a trace. So the chain
  is append-only while its hook is installed; it tells of the commit a branch
  stands at unless an error or a stop kept it, and the back-fill tells of no
  commit twice. `HeadsAudited` is about branches whose last move made the commit
  they stand at. One that was moved to a commit there was may go untold, see
  "Also noticed", and a move two pushes both tell, one of them as its own without
  having made it, is not ruled out.

What was found, with the lines it contradicts, is in `PROJECT.json` under
"findings". Five are violations:

1. `repo_write_mixed`. A client at an old version sends a record and a plain
   file. The record merges, so the parent of *both* becomes HEAD; the plain file
   is then put on HEAD without a merge, over somebody's newer version of it.
2. `repo_write_shape`. The conversion lists the tree, somebody adds the file it
   found missing, and the conversion's commit (parent "HEAD", resolved last)
   replaces it by the starter.
3. `mirror_badge`. A refresh compares, a write is announced and clears the badge,
   and the refresh sets it to in_sync; the mark of a push or a pull comes late in
   the same way. If the destination is not mirrored automatically, no later step
   corrects it until the next poll.
4. `mirror_prune`. A branch that was pushed is deleted, and the push that follows
   succeeds and leaves it at the destination: "remote == local", which
   `markRemoteInSync` takes for granted, is not so.
5. `accounts_last`. Two requests that demote or remove the two admins both count
   two, and both go through.

Three are disagreements that a passing run shows by what its property has to
say or leave open:

6. `repo_write`. Any failure of update-ref is counted as a lost race: a call can
   end with the error about contention while nobody else moved the branch.
7. `accounts`. A sign-in that refreshes a name writes the whole row back, role
   included: the exception of `OnlyRacesRegrade`, without which that does not hold.
   The comment there says that the role is not touched.
8. `records`. Two different changes of one data field are a conflict, answered
   with 409 (`EditsLand` rests on it), where the documentation of the error type,
   of the API and of the handler promises last-writer-wins without a 409.

### Bounds

Deadlock is not checked (`CHECK_DEADLOCK FALSE`): a server without requests is
at rest, and behaviours end when the bounds are used up. Every bound is a
constant that begins with `Max`. Symmetry is used over request goroutines,
addresses and other interchangeable values, never in a run with liveness.

- `repo_write`: three paths (a record, the marker, which also stands for any
  plain file, .gitignore), two hunks, two texts and one that does not parse: a
  clean merge inside a file, a conflict, an add/add and a delete/modify. Four
  calls let two writers interleave with two moves by others, and `MaxAttempts =
  2` (five in the code) lets a call both recover from a lost race and give up.
  `MaxRewinds = 1` gives a parent that stopped being an ancestor.
- `mirror`: two repositories, one of them with a destination, and room for one
  event instead of 128, so that a dropped event, one for a repository already
  queued and one for a repository being pushed all occur. One handler beside the
  worker, two branches, of which one can be deleted, two addresses, so that a push
  can hit the old one, two ref updates (a write and its audit entry, or two writes
  of which the second overtakes the push of the first), one operation of an
  admin that races all of that, and one restart or panic: 1.4 million states.
  `mirror_badge` and `mirror_prune` have two handlers, and the first three updates.
  Larger instances (two handlers; two operations of admins; a destination for
  each repository) were checked once and found nothing else; for the safety
  properties the theorems take away the bounds.
- `accounts`: four accounts (two local, one of an identity provider, one of a
  gateway), two requests at a time and three in all, two sign-ins, one restart:
  a request between two steps of another, with a stop after either.
- `keys`: two keys of one name, two repositories, two tags with three names of
  which two differ in case, two requests at a time and three in all, one change
  of the world. A request that issues or moves a key can meet one that took its
  place, a rename can meet an assignment, a gate can meet a demotion.
- `vault`: two destinations, one credential, five requests, two incarnations of
  the repository, two stops and two rotations: a rotation after one that was cut
  short, and a destination that outlives its repository into the next one.
- `server`: two admins, two pushers, a writer, two branches, two attempts for an
  append. `MCInit` spends the budget on the repository, on the configuration, or
  a little on both, because the product of the two is out of reach; the parts
  share only the slot of a push and the stops, which each share has.
- `records`: one field stands for every field, since they merge one by one; two
  edits and three puts are a write, one that is merged over it, and a retry.

### Fairness

`RepoWrite!FairSpec` is weak fairness of each request's own steps: each is a
subprocess its goroutine waits for, and Go's scheduler starves none. That a call
ends does not rest on winning a race, which no fairness promises, but on the
bounded attempts. `Mirror!FairSpec` adds weak fairness of the worker's steps:
pushes have a timeout per destination, and `processRepoSafe` recovers from a
panic. It does so at the price of that fan-out, which is an announcement lost
like that of a restart: the goroutine lives, the event does not. No fairness is
assumed of clients, admins, the poller, remotes becoming reachable or a push
succeeding; `CatchesUp` holds because a failed push is recorded as failed. The
other modules state no liveness: their handlers are chains of a few steps that
end by themselves.

## What is proved

For every value of the constants that the named assumptions allow, and for
behaviours of any length. The assumptions say that constants have their types,
that "none" and the like are not values, and in two places that a set is finite
(the seeded admins, the branches of a repository).

`RepoWriteProofs`: `TypeCorrect`, `AckedWritesSurvive`, `WritesKeepBothSides`,
`HandlersRunOut`, `ConversionFillsGaps`, and `Implementation` (the refinement of
`AtomicRepo`). The invariant they share is `IInv == TypeOK /\ HistoryOK /\
WriterOK for every writer`. `TypeOK` is not inductive as it stands: a merged
tree is a tree only if the merge was clean and its versions exist, so
`HoldsVersions` ties a call's versions to the store. `HistoryOK` says that
histories are closed: a version is in its own history, everything in a history
exists and brings its own history. `Prepared` says that a call about to publish
merges cleanly from an ancestor of the HEAD it read. `Faithful` relates the
change set the git manager got to the one the client sent, hunk by hunk: it is
what makes the record merge and the git merge compose (`MergesCompose`).
`Looping` bounds the attempts. `HandlersRunOut` needs only that the attempts are
bounded: `StepsLeft` falls with each step of a call (`ServerShrinks`,
`OwnWriteStep`) and steps of others leave the call's record alone. It is the
half of `EveryCallReturns` that owes nothing to fairness. `ConversionFillsGaps`
is the statement that remains of `ShapeTouchesNothing`, which run
`repo_write_shape` refutes: a conversion overwrites a file only if its listing
found none and somebody added it before the commit resolved its parent; what
appears later is kept by the merge. `Implementation` maps each action to an
abstract step (`WriteRefines`, `PushRefines`, `RewindRefines`; the rest in
`QuietRefines`). `Merge3Proofs` holds the facts about the merge alone:
`FastForwardIsMerge`, and that the order of merges is irrelevant, to the outcome
and to whether there is a conflict: `MergeCommutes`, `MergeAssociates`,
`MergeTwiceIsOnce`. They are proved for a file, hunk by hunk (`MergeByHunk`,
`MergeWhole`), and hold path by path.

`RecordsProofs`: `TypeCorrect`, `ChangesOfFieldsLand`, `RetriesAreHarmless`,
`OrderDoesNotMatter`. First what the merge does to each key, among it that it is
symmetric where nothing is tied (`MergeSymmetric`) and that merging the same
draft a second time says the same; then that every entry of the log is what its
put made of the entry before it.

`MirrorProofs`: `TypeCorrect`, `NothingForgotten` (`Delivered`) and
`BadgesAreWorthIt` (`BadgeKnows`), for a channel of any length.
`Typed` says what each goroutine needs for its next step, for instance that the
worker's copy of an address is the destination's own unless an admin touched it.
`OnTheWay` is the invariant behind delivery: unless a repository is queued,
about to be queued or lost, a destination that is "ok" holds what was announced
or the worker is still coming to it with refs it has yet to read (`Awaited`), or
a push that has not failed for certain is under way (`Underway`); and every push
on its way carries all that was announced (`Brings`), because one that carries
less was overtaken by an announcement that is itself still to reach the channel
or the worker. Other steps are `Calm`: they take none of that away. `Known` is
the invariant behind the badge, one clause for each job and one for each pair of
them. What was announced before a push is in what it sends and there once it was
sent; and, without pulls, what a comparison saw at the remote stays there,
because refs both sides hold are in whatever is on its way (`Steady`). A
deletion or a pull takes something from the repository, and with it from what
counts as announced or known, so that every clause still speaks of what is there
(`Becomes`); that a forced push without pruning leaves too much never matters,
because it brings what it carries and takes none of that away (`ForceBounds`,
`ForceBrings`). The pair:
a push that sets out while the badge of an earlier one is still to be set
carries no less than that one did (`InOrder`), so it does not make it a lie.
An address that was edited and pushes that overlapped take a destination out of
both invariants, and a push that sets out alone (`Alone`) puts it back: the
proof shows what it establishes then without having had it before, and that no
job elsewhere relied on the destination being out (`ShapeElsewhere`).

`AccountsProofs`: `TypeCorrect`, `RolesAreAsked`, `FilesAreCurrent`,
`SessionsStayEnded`, `StatesAreSpentOnce`, `PasswordsAreKept`,
`OneRequestKeepsAnAdmin`. `Directory` says that the file holds the accounts,
`Sessions` that a session's number is used once, `Ledger` that a state
that was accepted is not in the ledger, `Alone` what a request that runs alone
may be about to do: demote or remove an account only if another admin is there
(`Careful`), and store a role nobody asked for only if it is the one that is
there, or that of a new account which is no admin (`Faithful`).

`KeysProofs`: `TypeCorrect`, `KeysAreUnique`, `RevocationLasts`,
`MirrorsNeedTheRole`. `Store` says that ids are used once and the file is
current; `Rightful` that an account whose key can mirror was entitled to it;
`Secured` what a request was allowed and when. A request keeps that while others
change the store (`Lasting`), because an id it looked up means that key or none.
`CatalogueStaysConsistent` and `TagStoreIsATagBook` (the refinement of
`TagBook`) share the invariant `Catalogue`: the file is current, ids above the
counter are free, and `Consistent`, which relates names and index both ways.
What each operation does to a consistent store is a lemma about constants
(`Added`, `Renamed`, `Taken`, `Retagged`, `Rebuilt`); the steps are those, seen
through the mapping, and a rename that fails or a restart changes nothing.

`VaultProofs`: `TypeCorrect`, `RotationIsSafe`, `FirstKeysAndLogStay`,
`StraysAreExplained`, `OrphansAreExplained`, `OnlyRacesMakeTwice`. `Sealing` says
where the keys of files and backups are at each stage of a rotation: what the
files that are done are sealed with, and that the backups of the others still
open with the old key, which is on disk or backed up. `Filed` is that clients and
log are in their files whenever they are in memory, so that a restart forgets
neither. The last three share `Tidy`: a request that overlapped another is marked
so, and one that ran alone so far knows what it looked up (`Careful`): the name
is free, the credential is in the vault, no destination names the credential it
is to remove. Every step is then either one of the explanations or leaves the
two stores and the directories in agreement.

`ServerProofs`: `TypeCorrect`, `SlotsStayAccounted`, `OnePollerAtATime`,
`LiveStaysAsConfigured`, `AppendIsAtomic` (the refinement of `AuditLog`),
`TrailOnlyGrows`, `HeadsGetAudited`, `SeededAtMostOnce`. A step of the server is
a step of each of its halves (`NextMoves`), so each has an invariant of its own.
`Configured`, of the configuration: `Counted` has the pushes and their slots;
`Polling` says that at most one poller runs and that it is the one the server
knows, which is why a swap starts the next only where there is none; `Alone`
that a request without company knows what the configuration and the file hold,
so that what it saves is what it set; `Agreed` is `LiveAsConfigured` with the
requests that are not done yet. `AuditInv`, of the chain: `Kept` (types, and
histories in which every commit comes after those it rests on); `Owed`, that a
commit a branch was moved to is in the chain, among the entries a goroutine
still has to append, or will be found by the second listing of the push that
made it, because a first listing knows no commit made after it; `Seeding`, that
only the seeder back-fills and each of its entries is younger than those in the
chain. `Together` is what joins the halves.

Only model-checked: the liveness properties, because the prover has no rule for
liveness under fairness.

## Also noticed

Disagreements of code and documentation that no run is about, most of them
visible in the models as the exceptions of a property:

- `ReloadAuth` promises "either the whole swap succeeds ... or nothing changes",
  but a failed save of the config answers 400 with the new state live
  (server.go:360-433). `config.Save` truncates and fills the file in place, and
  the PATCH handlers save under different locks.
- A push whose receive-pack exits with an error after moving refs is neither
  audited nor mirrored. A seeding of the audit chain that was cut short does not
  resume, because the chain is no longer empty.
- A push that brings a branch back to the commit its first listing saw, after
  another push moved it away in between, finds no change and tells nothing; the
  chain then ends with the other's move (handler_git.go:208, refs.go:57).
- A manual push and the worker's can overlap (handler_push_destination.go:91).
  The one that read the refs first may arrive last, and an ok recorded late hides
  a failure recorded before it; git's own check of the remote's old value, which
  the models do not assume, makes the first of these rare.
- Two registrations of one username can both pass the check; if the one that
  lost fails to store its password, its undo removes the other's account.
  `adminUpdateAccount` can bring back an account that was deleted meanwhile.
- A repository whose creation fails after its directory was made (scaffold,
  marker) stays as far as it got.
- Revocation by tag skips a key whose `Revoke` says false, "no longer active
  [...] either way" (handler_admin_revoke_by_tag.go:97-101), but a failed save
  says so too and puts the key back. `revokeToken` answers 404 when the save
  failed, and logout answers 204 though a failed save kept the session. "alice"
  and "local:alice" can each hold a key for one repository.
- A credential `Put` that cannot be saved deletes the live credential it was to
  replace (credentials/store.go:126), and a patch writes back the secret it read
  earlier. Two requests that create one repository can both succeed. A stop in
  the middle of a deletion leaves destinations under the dead name.
- A meta key without a rule that both sides removed comes back as null. A put
  that removed an immutable key lands, and its retry restores the key; a put
  from HEAD bypasses the check of immutable keys altogether.
- The gates of a subscriber's request read the key and the account one after the
  other, so a request can pass although no single moment satisfied all of them.
- The comparator of the record query is not transitive for a column that mixes
  numbers and text.

## Plan

What would come next, in this order:

1. The type rules of record fields (list collation, numbers against text).
2. The command line's other modes as steps of a stopped server.

## Not modelled

- Web pages, assets, help, swagger (`docs/docs.go` is generated), the demo and
  the benchmark: presentation and tools that decide nothing about a repository.
- Cryptography, the wire protocols of git and of the login providers: externals,
  modelled by what the code uses them for.
- The query language over records, listings, diffs and logs: they read only.
- Which route asks which gate: `Keys` has the gates and the order they are in,
  not the table of routes.
- Display names, addresses, messages, per-ref rows of a status, rolling rates of
  the health page: data no property tells apart.
- The command line apart from `-rotate-keys`; template and storage scaffolds of
  a new repository beyond what `RepoWrite` has of them.
