------------------------------- MODULE Mirror -------------------------------
(***************************************************************************)
(* Mirroring repositories to their destinations, and the badge that says   *)
(* whether a destination is in sync.                                       *)
(*                                                                         *)
(* A write moves refs/heads, appends to refs/audit, and then announces     *)
(* itself (afterRepoHeadBump): it clears the remote status of every        *)
(* destination of the repository and queues the repository for the mirror  *)
(* worker.  The worker takes repositories one at a time, lists their       *)
(* destinations and pushes to each enabled one.  The same push runs in the *)
(* handler of POST .../sync.  Admins also pull from a destination, and a   *)
(* poller and the admins compare a destination with the repository         *)
(* (refreshRemoteStatus).  A job records its outcome on the destination    *)
(* when it ends, whatever happened since it read what it decided on: the   *)
(* destination store locks single updates and nothing else.                *)
(*                                                                         *)
(* What the mirrored namespaces hold is a set of pairs of a ref and the    *)
(* number of a change that was made to it.  How a write moves a branch is  *)
(* module RepoWrite's.                                                     *)
(***************************************************************************)
EXTENDS Naturals, Sequences

CONSTANTS
  Repo,
  Dest,           \* the ids of destinations, each used once
  RepoOf,         \* the repository a destination belongs to
  Url,            \* the addresses a destination can be given
  Branch,         \* refs/heads/*
  HeadBranch,     \* the one that HEAD names
  Trail,          \* refs/audit/main
  Handler,        \* request goroutines, and the poller among them
  Worker,         \* the goroutine of mirrorWorker
  QueueSize,      \* mirrorWorkerQueueSize
  MaxUpdates,     \* bound on the ref updates of a behaviour
  MaxAdmin,       \* bound on the requests of admins, the checks of the poller
                  \* and the commits made on a remote behind the server's back
  MaxCrashes      \* bound on restarts, and on panics of the worker

ASSUME MirrorAssumption ==
  /\ RepoOf \in [Dest -> Repo]
  /\ Worker \notin Handler
  /\ HeadBranch \in Branch /\ Trail \notin Branch
  /\ QueueSize \in Nat
  /\ MaxUpdates \in Nat /\ MaxAdmin \in Nat /\ MaxCrashes \in Nat

VARIABLES
  local,      \* what the mirrored namespaces of each repository hold
  remote,     \* what they hold at each address of each destination
  dests,      \* the destination store
  vault,      \* the destinations whose credential is in the vault
  queue,      \* the channel of the worker
  job,        \* what every goroutine is doing
  updates,    \* how many ref updates were made
  admin, crashes,   \* bounded counters
  announced,  \* what each repository held when it was last announced, less
              \* what a deletion or a pull took from it since
  lost,       \* whether that announcement was dropped, or lost in a restart
              \* or a panic
  touched,    \* the destinations whose address, flag or credential an admin changed
  crossed,    \* the destinations to which two pushes were under way at once,
              \* both until a push sets out alone
  pulled      \* the repositories that were pulled into

store == <<dests, vault>>
repos == <<local, remote, updates>>
counts == <<admin, crashes>>
ghosts == <<announced, lost, touched, crossed, pulled>>
vars == <<local, remote, dests, vault, queue, job, updates, admin, crashes,
          announced, lost, touched, crossed, pulled>>

Job == Handler \cup {Worker}
Live == {d \in Dest : dests[d].life = "live"}
DestsOf(r) == {d \in Live : RepoOf[d] = r}

Ref == Branch \cup {Trail}

(* What a forced push or fetch of refs leaves where it arrives: the refs   *)
(* that came have taken the place of the old ones, and the others stay.    *)
(* The refspecs force, and nobody prunes.                                  *)
Forced(old, new, refs) ==
  {c \in new : c[1] \in refs} \cup
  {c \in old : c[1] \notin refs \/ \A e \in new : e[1] # c[1]}

None == "none"
Idle == [pc |-> "idle", kind |-> None, repo |-> None, dest |-> None,
         url |-> None, fixed |-> FALSE, carries |-> {}, verdict |-> "",
         todo |-> {}, knows |-> {}]

Init ==
  /\ local = [r \in Repo |-> {}]
  /\ remote = [d \in Dest |-> [u \in Url |-> {}]]
  /\ dests = [d \in Dest |-> [life |-> "new", url |-> None, enabled |-> FALSE,
                              sync |-> "", status |-> ""]]
  /\ vault = {}
  /\ queue = <<>>
  /\ job = [j \in Job |-> Idle]
  /\ updates = 0
  /\ admin = 0 /\ crashes = 0
  /\ announced = [r \in Repo |-> {}]
  /\ lost = [r \in Repo |-> FALSE]
  /\ touched = {} /\ crossed = {}
  /\ pulled = {}

-----------------------------------------------------------------------------
(* Writes.                                                                 *)

(* One more change of a ref of r.                                          *)
Advance(r, ref) ==
  /\ updates < MaxUpdates
  /\ updates' = updates + 1
  /\ local' = [local EXCEPT ![r] = @ \cup {<<ref, updates + 1>>}]

\* The job of a handler that has changed r.
Changed(r, kind, fixed) ==
  [Idle EXCEPT !.pc = "audit", !.kind = kind, !.repo = r, !.fixed = fixed]

(* A handler moves a head: PUT /files and POST /commits, which run the     *)
(* .gitignore autofix in the end; git-receive-pack, on any branch, which   *)
(* does not; and silently, announcing nothing, the conversion to           *)
(* Formidable shape and a git-receive-pack whose git ends with an error,   *)
(* or whose refs could not be listed before it.                            *)
Write(h, r, ref, kind, fixed) ==
  /\ job[h].pc = "idle"
  /\ fixed \/ ref = HeadBranch
  /\ Advance(r, ref)
  /\ job' = [job EXCEPT ![h] = Changed(r, kind, fixed)]
  /\ UNCHANGED <<remote, store, queue, counts, ghosts>>

(* What r holds is replaced.  Nothing that is gone counts as announced any *)
(* more, nor as known to a job, whatever takes its place.                  *)
Becomes(r, content, h, next) ==
  /\ local' = [local EXCEPT ![r] = content]
  /\ announced' = [announced EXCEPT ![r] = @ \cap content]
  /\ job' = [j \in Job |->
       IF j = h THEN next
       ELSE IF job[j].repo = r THEN [job[j] EXCEPT !.knows = @ \cap content]
       ELSE job[j]]

(* git-receive-pack deletes a branch; git refuses to delete HEAD's.        *)
Delete(h, r, ref, kind) ==
  /\ job[h].pc = "idle"
  /\ ref # HeadBranch
  /\ \E c \in local[r] : c[1] = ref
  /\ Becomes(r, {c \in local[r] : c[1] # ref}, h, Changed(r, kind, TRUE))
  /\ UNCHANGED <<remote, updates, store, queue, counts, lost, touched, crossed, pulled>>

(* appendAudit, which logs a failure and goes on.  What follows depends on *)
(* the handler: the announcement, nothing, or the push of POST .../sync.   *)
Audit(h) ==
  /\ job[h].pc = "audit"
  /\ job' = [job EXCEPT ![h] =
       CASE @.kind = "write"  -> [@ EXCEPT !.pc = "invalidate"]
         [] @.kind = "silent" -> Idle
         [] @.kind = "sync"   -> [@ EXCEPT !.pc = "push", !.knows = announced[job[h].repo]]]
  /\ Advance(job[h].repo, Trail) \/ UNCHANGED <<local, updates>>
  /\ UNCHANGED <<remote, store, queue, counts, ghosts>>

(* InvalidateRepoRemoteStatus.                                             *)
Invalidate(h) ==
  LET r == job[h].repo IN
  /\ job[h].pc = "invalidate"
  /\ dests' = [d \in Dest |-> IF d \in DestsOf(r)
                                THEN [dests[d] EXCEPT !.status = ""] ELSE dests[d]]
  /\ announced' = [announced EXCEPT ![r] = local[r]]
  /\ job' = [job EXCEPT ![h].pc = "enqueue"]
  /\ UNCHANGED <<repos, vault, queue, counts, lost, touched, crossed, pulled>>

Queued(r) == \E i \in DOMAIN queue : queue[i] = r

(* mirrorWorker.enqueue: drops the event when the channel is full.  That   *)
(* loses the announcement, unless the repository is queued already.        *)
(* After it comes the .gitignore autofix, if it is still due.              *)
EnqueueWith(h, room) ==
  LET r == job[h].repo IN
  /\ job[h].pc = "enqueue"
  /\ IF room
       THEN /\ queue' = Append(queue, r)
            /\ lost' = [lost EXCEPT ![r] = FALSE]
       ELSE /\ lost' = [lost EXCEPT ![r] =
                  @ \/ (Len(queue) >= QueueSize /\ ~ Queued(r))]
            /\ UNCHANGED queue
  /\ job' = [job EXCEPT ![h] = IF @.fixed THEN Idle ELSE [@ EXCEPT !.pc = "autofix"]]
  /\ UNCHANGED <<repos, store, counts, announced, touched, crossed, pulled>>

\* Mutant: an event more than the channel holds.
EnqueueAnyway(h) == EnqueueWith(h, Len(queue) <= QueueSize)

Enqueue(h) == EnqueueWith(h, Len(queue) < QueueSize)

(* autofixFormidableGitignore finds nothing to do, or moves the head.      *)
Autofix(h) ==
  /\ job[h].pc = "autofix"
  /\ \/ /\ Advance(job[h].repo, HeadBranch)
        /\ job' = [job EXCEPT ![h].pc = "audit", ![h].fixed = TRUE]
     \/ /\ job' = [job EXCEPT ![h] =
             IF @.kind = "sync"
               THEN [@ EXCEPT !.pc = "push", !.knows = announced[job[h].repo]] ELSE Idle]
        /\ UNCHANGED <<local, updates>>
  /\ UNCHANGED <<remote, store, queue, counts, ghosts>>

-----------------------------------------------------------------------------
(* The worker.                                                             *)

(* run and processRepo: takes a repository and copies its destinations.    *)
Take ==
  LET targets == {d \in DestsOf(Head(queue)) : dests[d].enabled} IN
  /\ job[Worker].pc = "idle"
  /\ queue # <<>>
  /\ queue' = Tail(queue)
  /\ job' = [job EXCEPT ![Worker] =
       [Idle EXCEPT !.pc = "next", !.kind = "worker", !.repo = Head(queue),
                    !.todo = {[dest |-> d, url |-> dests[d].url] : d \in targets}]]
  /\ UNCHANGED <<repos, store, counts, ghosts>>

(* The next destination, skipped when its credential is gone.              *)
NextDest ==
  /\ job[Worker].pc = "next"
  /\ \/ /\ job[Worker].todo = {}
        /\ job' = [job EXCEPT ![Worker] = Idle]
     \/ \E t \in job[Worker].todo :
          LET rest == [job[Worker] EXCEPT !.todo = @ \ {t}] IN
          job' = [job EXCEPT ![Worker] =
            IF t.dest \notin vault THEN rest
            ELSE [rest EXCEPT !.pc = "push", !.dest = t.dest, !.url = t.url,
                              !.knows = announced[job[Worker].repo]]]
  /\ UNCHANGED <<repos, store, queue, counts, ghosts>>

(* A panic is recovered, and ends the fan-out for this repository: the     *)
(* outcome of the push at hand is not recorded, and the destinations still *)
(* to come are not pushed to, unless the repository is queued again.       *)
Panic ==
  /\ job[Worker].pc \in {"next", "push", "sent", "mark"}
  /\ crashes < MaxCrashes
  /\ crashes' = crashes + 1
  /\ job' = [job EXCEPT ![Worker] = Idle]
  /\ lost' = [lost EXCEPT ![job[Worker].repo] = @ \/ ~ Queued(job[Worker].repo)]
  /\ UNCHANGED <<repos, store, queue, admin, announced, touched, crossed, pulled>>

-----------------------------------------------------------------------------
(* pushOnce, for the worker and for the handler alike.                     *)

SetSync(d, sync) ==
  dests' = IF d \in Live THEN [dests EXCEPT ![d].sync = sync] ELSE dests
SetStatus(d, status) ==
  dests' = IF d \in Live THEN [dests EXCEPT ![d].status = status] ELSE dests

(* The handler answers, or the worker turns to the next destination.       *)
Done(j) ==
  IF j = Worker
    THEN [Idle EXCEPT !.pc = "next", !.kind = "worker", !.repo = job[j].repo,
                      !.todo = job[j].todo]
    ELSE Idle

\* From here until its outcome is recorded a push is under way.
Sending(j) == job[j].pc \in {"send", "sent"}

\* The push of j goes to where the destination is now, and nobody else does.
Alone(j) ==
  LET d == job[j].dest IN
  /\ d \in vault /\ job[j].url = dests[d].url
  /\ \A other \in Job \ {j} : job[other].dest # d
  /\ \A t \in job[Worker].todo : t.dest # d

(* git push reads the refs ...                                             *)
PushReads(j) ==
  LET d == job[j].dest IN
  /\ job[j].pc = "push"
  /\ job' = [job EXCEPT ![j].pc = "send", ![j].carries = local[job[j].repo]]
  /\ crossed' = IF Alone(j) THEN crossed \ {d}
                ELSE IF \E other \in Job \ {j} : Sending(other) /\ job[other].dest = d
                  THEN crossed \cup {d} ELSE crossed
  /\ touched' = IF Alone(j) THEN touched \ {d} ELSE touched
  /\ UNCHANGED <<repos, store, queue, counts, announced, lost, pulled>>

Sent(j, refs) ==
  [remote EXCEPT ![job[j].dest][job[j].url] = Forced(@, job[j].carries, refs)]

(* ... and some time later has forced them on the remote.  A push that     *)
(* fails, or times out, may have done so all the same, or for some refs.   *)
PushEnds(j) ==
  /\ job[j].pc = "send"
  /\ \E refs \in SUBSET Ref, verdict \in {"ok", "error"} :
       /\ verdict = "ok" => refs = Ref
       /\ remote' = Sent(j, refs)
       /\ job' = [job EXCEPT ![j].pc = "sent", ![j].verdict = verdict, ![j].carries = {}]
  /\ UNCHANGED <<local, updates, store, queue, counts, ghosts>>

(* The outcome goes to the destination as it is by then, if it is there.   *)
RecordSyncAs(j, sync, next) ==
  /\ job[j].pc = "sent"
  /\ SetSync(job[j].dest, sync)
  /\ job' = [job EXCEPT ![j] = next]
  /\ UNCHANGED <<repos, vault, queue, counts, ghosts>>

Marking(j) == [job[j] EXCEPT !.pc = "mark", !.verdict = ""]

\* Mutants: a failure is not recorded, the badge is set after a failure too,
\* a push that fails never comes back.
RecordSuccess(j) ==
  IF job[j].verdict = "ok" THEN RecordSyncAs(j, "ok", Marking(j))
  ELSE RecordSyncAs(j, dests[job[j].dest].sync, Done(j))
RecordAndMark(j) == RecordSyncAs(j, job[j].verdict, Marking(j))
RecordOrHang(j) == job[j].verdict = "ok" /\ RecordSyncAs(j, "ok", Marking(j))

RecordSync(j) ==
  RecordSyncAs(j, job[j].verdict,
    IF job[j].verdict = "ok" /\ job[j].dest \in Live THEN Marking(j) ELSE Done(j))

(* markRemoteInSync, after a push or a pull, does not look at the remote.  *)
(* It does nothing if the local refs cannot be listed.                     *)
Mark(j) ==
  /\ job[j].pc = "mark"
  /\ SetStatus(job[j].dest, "in_sync") \/ UNCHANGED dests
  /\ job' = [job EXCEPT ![j] = Done(j)]
  /\ UNCHANGED <<repos, vault, queue, counts, ghosts>>

-----------------------------------------------------------------------------
(* What admins do with a destination.                                      *)

Act(d) == /\ d \in Live
          /\ admin < MaxAdmin
          /\ admin' = admin + 1
          /\ UNCHANGED <<queue, crashes, lost, crossed, pulled>>

Start(h, d, pc, kind) ==
  /\ job[h].pc = "idle"
  /\ d \in vault
  /\ job' = [job EXCEPT ![h] =
       [Idle EXCEPT !.pc = pc, !.kind = kind, !.repo = RepoOf[d], !.dest = d,
                    !.url = dests[d].url, !.knows = announced[RepoOf[d]]]]

(* POST .../sync: autofix, then push.                                      *)
SyncNow(h, d) ==
  /\ Act(d)
  /\ Start(h, d, "autofix", "sync")
  /\ UNCHANGED <<repos, store, announced, touched>>

(* POST .../pull: a forced fetch of what the remote has ...                *)
Pull(h, d) ==
  /\ Act(d)
  /\ Start(h, d, "fetch", "pull")
  /\ UNCHANGED <<repos, store, announced, touched>>

FetchReads(h) ==
  /\ job[h].pc = "fetch"
  /\ job' = [job EXCEPT ![h].pc = "fetched", ![h].carries = remote[job[h].dest][job[h].url]]
  /\ UNCHANGED <<repos, store, queue, counts, ghosts>>

(* ... takes the place of the refs it has, announced or not, and leaves    *)
(* the others.  One that fails may have replaced some.  The mark that      *)
(* follows a pull knows nothing of what the repository held before.        *)
FetchEnds(h) ==
  LET r == job[h].repo IN
  /\ job[h].pc = "fetched"
  /\ \E refs \in SUBSET Ref, next \in {[job[h] EXCEPT !.pc = "mark", !.knows = {}], Idle} :
       /\ next # Idle => refs = Ref
       /\ Becomes(r, Forced(local[r], job[h].carries, refs), h, next)
  /\ pulled' = pulled \cup {r}
  /\ UNCHANGED <<remote, updates, store, queue, counts, lost, touched, crossed>>

(* refreshRemoteStatus, for POST .../status/refresh and for the poller:    *)
(* without a credential it records an error at once ...                    *)
Refresh(h, d) ==
  /\ Act(d)
  /\ \/ /\ Start(h, d, "ls", "refresh")
        /\ UNCHANGED dests
     \/ /\ job[h].pc = "idle"
        /\ d \notin vault
        /\ SetStatus(d, "error")
        /\ UNCHANGED job
  /\ UNCHANGED <<repos, vault, announced, touched>>

(* ... else it lists the remote refs, or records that it could not,        *)
LsRemote(h) ==
  /\ job[h].pc = "ls"
  /\ \/ /\ job' = [job EXCEPT ![h].pc = "compare", ![h].carries = remote[job[h].dest][job[h].url]]
        /\ UNCHANGED dests
     \/ /\ job' = [job EXCEPT ![h] = Idle]
        /\ SetStatus(job[h].dest, "error")
  /\ UNCHANGED <<repos, vault, queue, counts, ghosts>>

(* lists the local refs and compares (compareRefs),                        *)
Compare(h) ==
  /\ job[h].pc = "compare"
  /\ \/ job' = [job EXCEPT ![h].pc = "record", ![h].verdict =
                  IF local[job[h].repo] = job[h].carries THEN "in_sync" ELSE "diverged"]
     \/ job' = [job EXCEPT ![h] = Idle]
  /\ UNCHANGED <<repos, store, queue, counts, ghosts>>

(* and records the verdict.                                                *)
Record(h) ==
  /\ job[h].pc = "record"
  /\ SetStatus(job[h].dest, job[h].verdict)
  /\ job' = [job EXCEPT ![h] = Idle]
  /\ UNCHANGED <<repos, vault, queue, counts, ghosts>>

(* createDestination: statuses start empty.                                *)
Create(d, url, enabled) ==
  /\ dests[d].life = "new"
  /\ dests' = [dests EXCEPT ![d] = [life |-> "live", url |-> url, enabled |-> enabled,
                                    sync |-> "", status |-> ""]]
  /\ vault' = vault \cup {d}
  /\ UNCHANGED <<repos, queue, job, counts, ghosts>>

(* updateDestination: an address or the flag, and the statuses stay.       *)
Patch(d, url, enabled) ==
  /\ Act(d)
  /\ dests' = [dests EXCEPT ![d].url = url, ![d].enabled = enabled]
  /\ touched' = touched \cup {d}
  /\ UNCHANGED <<repos, vault, job, announced>>

(* deleteDestination.                                                      *)
Remove(d) ==
  /\ Act(d)
  /\ dests' = [dests EXCEPT ![d].life = "gone"]
  /\ UNCHANGED <<repos, vault, job, announced, touched>>

(* adminDeleteCredential refuses while a destination names the credential, *)
(* but it checks and removes in two steps, without a lock.                 *)
DropCredential(d) ==
  /\ Act(d)
  /\ vault' = vault \ {d}
  /\ touched' = touched \cup {d}
  /\ UNCHANGED <<repos, dests, job, announced>>

(* Somebody commits on the remote itself.                                  *)
Outside(d, ref) ==
  /\ Act(d)
  /\ updates < MaxUpdates
  /\ updates' = updates + 1
  /\ remote' = [remote EXCEPT ![d][dests[d].url] = @ \cup {<<ref, updates + 1>>}]
  /\ UNCHANGED <<local, store, job, announced, touched>>

-----------------------------------------------------------------------------
(* Nothing on r is queued or under way.                                    *)
Quiet(r) == ~ Queued(r) /\ \A j \in Job : job[j].repo # r

(* A restart loses the channel and every goroutine, and keeps the          *)
(* repositories and the sealed destination file.                           *)
Crash ==
  /\ crashes < MaxCrashes
  /\ crashes' = crashes + 1
  /\ queue' = <<>>
  /\ job' = [j \in Job |-> Idle]
  /\ lost' = [r \in Repo |-> lost[r] \/ ~ Quiet(r)]
  /\ UNCHANGED <<repos, store, admin, announced, touched, crossed, pulled>>

Pushing(j) == PushReads(j) \/ PushEnds(j) \/ RecordSync(j) \/ Mark(j)
Handling(h) == Audit(h) \/ Invalidate(h) \/ Enqueue(h) \/ Autofix(h) \/ Pushing(h)
                 \/ FetchReads(h) \/ FetchEnds(h)
                 \/ LsRemote(h) \/ Compare(h) \/ Record(h)
Working == Take \/ NextDest \/ Pushing(Worker)

Next ==
  \/ \E h \in Handler :
       \/ \E r \in Repo, ref \in Branch :
            \/ \E fixed \in BOOLEAN : Write(h, r, ref, "write", fixed)
            \/ Write(h, r, ref, "silent", TRUE)
            \/ \E kind \in {"write", "silent"} : Delete(h, r, ref, kind)
       \/ \E d \in Dest : SyncNow(h, d) \/ Pull(h, d) \/ Refresh(h, d)
       \/ Handling(h)
  \/ Working
  \/ \E d \in Dest, url \in Url, enabled \in BOOLEAN :
       Create(d, url, enabled) \/ Patch(d, url, enabled)
  \/ \E d \in Dest : Remove(d) \/ DropCredential(d) \/ \E ref \in Branch : Outside(d, ref)
  \/ Panic
  \/ Crash

Spec == Init /\ [][Next]_vars

(* A started handler ends, and the worker's goroutine keeps taking: every  *)
(* git process it waits for has a timeout, and it survives a panic.        *)
FairSpec == /\ Spec
            /\ \A h \in Handler : WF_vars(Handling(h))
            /\ WF_vars(Working)

-----------------------------------------------------------------------------
Content == SUBSET (Ref \X (1 .. updates))
Destination == [life : {"new", "live", "gone"}, url : Url \cup {None}, enabled : BOOLEAN,
                sync : {"", "ok", "error"}, status : {"", "in_sync", "diverged", "error"}]
PC == {"idle", "audit", "invalidate", "enqueue", "autofix", "next", "push", "send",
       "sent", "mark", "fetch", "fetched", "ls", "compare", "record"}
JobType ==
  [pc : PC, kind : {None, "write", "silent", "sync", "pull", "refresh", "worker"},
   repo : Repo \cup {None}, dest : Dest \cup {None}, url : Url \cup {None},
   fixed : BOOLEAN, carries : Content, verdict : {"", "ok", "error", "in_sync", "diverged"},
   todo : SUBSET [dest : Dest, url : Url], knows : Content]

(* The variables have their types, and the channel holds what it can hold. *)
TypeOK ==
  /\ updates \in Nat
  /\ local \in [Repo -> Content]
  /\ remote \in [Dest -> [Url -> Content]]
  /\ dests \in [Dest -> Destination]
  /\ vault \subseteq Dest
  /\ queue \in Seq(Repo) /\ Len(queue) <= QueueSize
  /\ job \in [Job -> JobType]
  /\ admin \in Nat /\ crashes \in Nat
  /\ announced \in [Repo -> Content]
  /\ lost \in [Repo -> BOOLEAN]
  /\ touched \subseteq Dest /\ crossed \subseteq Dest /\ pulled \subseteq Repo

At(d) == remote[d][dests[d].url]

\* What the claims below leave out, until the next push that sets out alone:
\* a destination an admin changed, whose statuses still describe what it was,
\* and one two pushes were on their way to, of which the older may arrive
\* last, or be the last to record how it ended.
Disturbed == touched \cup crossed

(* An enabled, undisturbed destination says that its last push succeeded,  *)
(* and lacks what was announced.                                           *)
Behind(d) ==
  /\ d \in Live \ Disturbed
  /\ dests[d].enabled
  /\ dests[d].sync = "ok"
  /\ ~ lost[RepoOf[d]]
  /\ ~ announced[RepoOf[d]] \subseteq At(d)

(* Nothing announced is forgotten: once a repository is quiet, whatever    *)
(* was announced and is still there has reached every automatic            *)
(* destination whose last push succeeded, whoever pushed there and in      *)
(* whatever order, one at a time.  An event dropped while the repository   *)
(* is queued already costs nothing, since the worker reads the refs after  *)
(* taking it.  Nothing is said of what a destination has too much: that a  *)
(* branch was deleted never reaches it.                                    *)
Delivered == \A d \in Dest : Quiet(RepoOf[d]) => ~ Behind(d)

(* And that always comes about.                                            *)
CatchesUp == \A d \in Dest : Behind(d) ~> ~ Behind(d)

(* What a badge is worth: when a push, or a refresh, sets it to in_sync,   *)
(* an undisturbed one has everything that was announced before that job    *)
(* began and is still there.  The mark of a pull is worth nothing of the   *)
(* kind (it knows nothing), since the remote need not have had the refs    *)
(* that were announced.  And a refresh is worth that only as long as no    *)
(* pull was made into the repository: after pulls back and forth a push    *)
(* that read the refs between them can end between the comparison and its  *)
(* verdict.                                                                *)
BadgeKnows ==
  [][\A j \in Job :
       LET d == job[j].dest IN
       \/ Mark(j) /\ d \in Live \ Disturbed
       \/ /\ job[j].verdict = "in_sync" /\ Record(j) /\ d \in Live \ Disturbed
          /\ RepoOf[d] \notin pulled
       => job[j].knows \subseteq At(d)]_vars

(* "so the in_sync badge cannot lie past the commit that made it stale"    *)
(* (afterRepoHeadBump): at rest, a destination shown in sync has what was  *)
(* announced, where no pull interfered.                                    *)
BadgeCannotLie ==
  \A d \in Live :
    Quiet(RepoOf[d]) /\ RepoOf[d] \notin pulled /\ dests[d].status = "in_sync" =>
      announced[RepoOf[d]] \subseteq At(d)

(* "force-mirror refspecs guarantee remote == local [...], force-fetch     *)
(* guarantees local == remote" (markRemoteInSync): when a push succeeds    *)
(* the remote holds what the push read, and no more, and when a pull does, *)
(* so does the repository.                                                 *)
ForcedMeansEqual ==
  [][\A j \in Job :
       /\ job[j].pc = "send" /\ job'[j].verdict = "ok" =>
            remote'[job[j].dest][job[j].url] = job[j].carries
       /\ job[j].pc = "fetched" /\ job'[j].pc = "mark" =>
            local'[job[j].repo] = job[j].carries]_vars
=============================================================================
