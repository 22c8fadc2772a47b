---------------------------- MODULE MirrorProofs ----------------------------
(***************************************************************************)
(* Theorems about Mirror, for any repositories, destinations, addresses    *)
(* and handlers, any length of the channel, and behaviours of any length.  *)
(***************************************************************************)
EXTENDS Mirror, TLAPS

-----------------------------------------------------------------------------
(* Type correctness.  What a goroutine needs for its next step: a job      *)
(* names its repository, a job at a destination names that and its         *)
(* address, and the address is the destination's own unless an admin       *)
(* touched it.                                                             *)

Passing == {"push", "send", "sent", "mark"}
Fetching == {"fetch", "fetched"}
Comparing == {"ls", "compare", "record"}

Aimed(b) == b.pc \in Passing \cup Fetching \cup Comparing \/ b.kind = "sync"

Target(b) ==
  /\ b.dest \in Dest /\ b.url \in Url /\ b.repo = RepoOf[b.dest]
  /\ dests[b.dest].life # "new"
  /\ b.dest \in touched \/ b.url = dests[b.dest].url

Shaped(b) ==
  /\ b \in JobType
  /\ b.pc # "idle" => b.repo \in Repo
  /\ Aimed(b) => Target(b)
  /\ b.pc \in {"audit", "invalidate", "enqueue", "autofix"} => b.kind \in {"write", "silent", "sync"}
  /\ b.pc = "sent" => b.verdict \in {"ok", "error"}
  /\ b.pc = "record" => b.verdict \in {"in_sync", "diverged"}
  /\ b.knows = {} \/ (b.repo \in Repo /\ b.knows \subseteq local[b.repo])

\* A handler has no destinations to come.
ByHand(b) == b.pc # "next"

\* The worker pushes, and knows who comes next.
Automatic(b) ==
  /\ b.pc \in Passing \cup {"idle", "next"} /\ b.kind # "sync"
  /\ b.pc = "idle" => b.todo = {}
  /\ \A t \in b.todo :
       /\ RepoOf[t.dest] = b.repo /\ dests[t.dest].life # "new"
       /\ t.dest \in touched \/ t.url = dests[t.dest].url

JobsTyped ==
  /\ DOMAIN job = Job /\ job = [j \in Job |-> job[j]]
  /\ \A j \in Job : Shaped(job[j])
  /\ \A h \in Handler : ByHand(job[h])
  /\ Automatic(job[Worker])

StoreTyped ==
  /\ dests \in [Dest -> Destination]
  /\ vault \subseteq Dest
  /\ touched \subseteq Dest
  /\ \A d \in Dest : dests[d].life # "new" =>
       dests[d].url \in Url /\ (d \in touched \/ d \in vault)

ReposTyped ==
  /\ updates \in Nat
  /\ local \in [Repo -> Content]
  /\ remote \in [Dest -> [Url -> Content]]
  /\ announced \in [Repo -> Content]
  /\ \A r \in Repo : announced[r] \subseteq local[r]

RestTyped ==
  /\ queue \in Seq(Repo) /\ Len(queue) <= QueueSize
  /\ admin \in Nat /\ crashes \in Nat
  /\ lost \in [Repo -> BOOLEAN]
  /\ crossed \subseteq Dest /\ pulled \subseteq Repo

Typed == JobsTyped /\ StoreTyped /\ ReposTyped /\ RestTyped

(* What the goroutines need includes the types.                            *)
LEMMA TypedTypes ==
  ASSUME Typed
  PROVE  TypeOK
BY DEF Typed, JobsTyped, StoreTyped, ReposTyped, RestTyped, TypeOK, Shaped

(* A forced push or fetch brings nothing but what it carries, and takes    *)
(* nothing away that it carries.                                           *)
LEMMA ForceBounds ==
  ASSUME NEW old, NEW new, NEW refs
  PROVE  /\ Forced(old, new, refs) \subseteq old \cup new
         /\ old \cap new \subseteq Forced(old, new, refs)
BY DEF Forced

(* When it succeeds it brings all of that.                                 *)
LEMMA ForceBrings ==
  ASSUME NEW old, NEW new \in Content
  PROVE  new \subseteq Forced(old, new, Ref)
<1>1. \A c \in new : c[1] \in Ref
  BY DEF Content
<1> QED
  BY <1>1 DEF Forced

(* A goroutine at rest.                                                    *)
LEMMA IdleShape == Shaped(Idle) /\ ByHand(Idle) /\ Automatic(Idle)
BY DEF Shaped, Idle, ByHand, Automatic, JobType, PC, None, Content, Aimed,
       Passing, Fetching, Comparing

(* The server starts that way.                                             *)
LEMMA InitTyped ==
  ASSUME Init
  PROVE  Typed
<1>1. JobsTyped
  BY IdleShape, MirrorAssumption DEF Init, JobsTyped, Job
<1>2. StoreTyped
  BY DEF Init, StoreTyped, Destination
<1>3. ReposTyped
  BY DEF Init, ReposTyped, Content
<1>4. RestTyped
  <2>1. <<>> \in Seq(Repo) /\ Len(<<>>) = 0
    OBVIOUS
  <2>2. lost \in [Repo -> BOOLEAN]
    BY DEF Init
  <2>3. queue \in Seq(Repo) /\ Len(queue) <= QueueSize
    <3>1. queue = <<>>
      BY DEF Init
    <3>2. Len(queue) = 0
      BY <3>1, <2>1
    <3> QED
      BY <2>1, <3>1, <3>2, MirrorAssumption
  <2>4. admin \in Nat /\ crashes \in Nat /\ crossed = {} /\ pulled \subseteq Repo
    BY DEF Init
  <2> QED
    BY <2>2, <2>3, <2>4 DEF RestTyped
<1> QED
  BY <1>1, <1>2, <1>3, <1>4 DEF Typed

(* What every step but a pull does to what the other goroutines rely on:   *)
(* repositories grow, destinations keep their address unless touched.      *)
Grows ==
  /\ updates \in Nat /\ updates' \in Nat /\ updates <= updates'
  /\ \A r \in Repo : local[r] \subseteq local'[r]
  /\ touched \subseteq touched'
  /\ \A d \in Dest : dests[d].life # "new" =>
       /\ dests'[d].life # "new"
       /\ d \in touched' \/ dests'[d].url = dests[d].url

(* A step that keeps what the repositories hold and the addresses grows.   *)
LEMMA RowsGrow ==
  ASSUME ReposTyped, UNCHANGED updates, \A r \in Repo : local'[r] = local[r],
         touched \subseteq touched',
         \A d \in Dest : dests'[d].life = dests[d].life /\ dests'[d].url = dests[d].url
  PROVE  Grows
<1>1. updates \in Nat
  BY DEF ReposTyped
<1> QED
  BY <1>1 DEF Grows

(* What was a content stays one.                                           *)
LEMMA ContentGrows ==
  ASSUME updates \in Nat, updates' \in Nat, updates <= updates'
  PROVE  Content \subseteq Content'
<1>1. 1..updates \subseteq 1..updates'
  OBVIOUS
<1>2. Ref \X (1..updates) \subseteq Ref \X (1..updates')
  BY <1>1
<1> QED
  BY <1>2 DEF Content, Ref

(* What a goroutine needs lasts while the rest grows: any job,             *)
LEMMA ShapeLasts ==
  ASSUME Grows, NEW b, Shaped(b)
  PROVE  Shaped(b)'
<1>1. b \in JobType'
  BY ContentGrows DEF Grows, Shaped, JobType
<1>2. Aimed(b) => Target(b)'
  BY DEF Grows, Shaped, Target
<1> QED
  BY <1>1, <1>2 DEF Grows, Shaped, Aimed

(* a handler's,                                                            *)
LEMMA ByHandLasts ==
  ASSUME Grows, NEW b, ByHand(b)
  PROVE  ByHand(b)'
BY DEF Grows, ByHand

(* and the worker's.                                                       *)
LEMMA AutomaticLasts ==
  ASSUME Grows, NEW b, Automatic(b), b \in JobType
  PROVE  Automatic(b)'
BY DEF Grows, Automatic, JobType

(* A step that leaves the goroutines alone, and a step of one of them.     *)
LEMMA JobsLast ==
  ASSUME JobsTyped, Grows, UNCHANGED job
  PROVE  JobsTyped'
BY ShapeLasts, ByHandLasts, AutomaticLasts DEF JobsTyped, Shaped, Job

(* One handler goes on.                                                    *)
LEMMA HandlerMoves ==
  ASSUME JobsTyped, Grows, NEW h \in Handler, NEW b,
         job' = [job EXCEPT ![h] = b], Shaped(b)', ByHand(b)'
  PROVE  JobsTyped'
BY ShapeLasts, ByHandLasts, AutomaticLasts, MirrorAssumption DEF JobsTyped, Shaped, Job

(* The worker goes on.                                                     *)
LEMMA WorkerMoves ==
  ASSUME JobsTyped, Grows, NEW b,
         job' = [job EXCEPT ![Worker] = b], Shaped(b)', Automatic(b)'
  PROVE  JobsTyped'
BY ShapeLasts, ByHandLasts, AutomaticLasts, MirrorAssumption DEF JobsTyped, Shaped, Job

-----------------------------------------------------------------------------
(* Each action keeps the types, a group of variables at a time.            *)

(* One more update.                                                        *)
LEMMA AdvanceTyped ==
  ASSUME ReposTyped, NEW r \in Repo, NEW ref \in Ref,
         Advance(r, ref) \/ UNCHANGED <<local, updates>>, UNCHANGED <<remote, announced>>
  PROVE  /\ ReposTyped'
         /\ updates' \in Nat /\ updates <= updates'
         /\ \A s \in Repo : local[s] \subseteq local'[s]
<1>1. CASE UNCHANGED <<local, updates>>
  BY <1>1 DEF ReposTyped, Content
<1>2. CASE Advance(r, ref)
  <2>1. updates' \in Nat /\ updates <= updates' /\ updates' = updates + 1
    BY <1>2 DEF ReposTyped, Advance
  <2>2. Content \subseteq Content' /\ updates + 1 \in 1..updates'
    BY <2>1, ContentGrows DEF ReposTyped
  <2>3. local' \in [Repo -> Content']
    <3>1. <<ref, updates + 1>> \in Ref \X (1..updates')
      BY <2>2
    <3>2. local[r] \cup {<<ref, updates + 1>>} \in Content'
      BY <2>2, <3>1 DEF ReposTyped, Content, Ref
    <3> QED
      BY <1>2, <2>2, <3>2 DEF ReposTyped, Advance
  <2>4. \A s \in Repo : local[s] \subseteq local'[s]
    BY <1>2 DEF ReposTyped, Advance
  <2> QED
    BY <2>1, <2>2, <2>3, <2>4 DEF ReposTyped
<1> QED
  BY <1>1, <1>2

(* A record of a destination that only changes its statuses.               *)
LEMMA StatusTyped ==
  ASSUME StoreTyped, NEW d \in Dest, UNCHANGED <<vault, touched>>,
         \/ \E sync \in {"", "ok", "error"} : SetSync(d, sync)
         \/ \E status \in {"", "in_sync", "diverged", "error"} : SetStatus(d, status)
         \/ UNCHANGED dests
  PROVE  /\ StoreTyped'
         /\ \A e \in Dest : dests'[e].life = dests[e].life /\ dests'[e].url = dests[e].url
<1>1. CASE UNCHANGED dests
  BY <1>1 DEF StoreTyped
<1>2. ASSUME NEW sync \in {"", "ok", "error"}, SetSync(d, sync)
      PROVE  StoreTyped' /\ \A e \in Dest : /\ dests'[e].life = dests[e].life
                                           /\ dests'[e].url = dests[e].url
  <2>1. CASE d \in Live
    <3>1. dests' = [dests EXCEPT ![d].sync = sync]
      BY <1>2, <2>1 DEF SetSync
    <3> QED
      BY <3>1 DEF StoreTyped, Destination
  <2> QED
    BY <1>1, <1>2, <2>1 DEF SetSync
<1>3. ASSUME NEW status \in {"", "in_sync", "diverged", "error"}, SetStatus(d, status)
      PROVE  StoreTyped' /\ \A e \in Dest : /\ dests'[e].life = dests[e].life
                                           /\ dests'[e].url = dests[e].url
  <2>1. CASE d \in Live
    <3>1. dests' = [dests EXCEPT ![d].status = status]
      BY <1>3, <2>1 DEF SetStatus
    <3> QED
      BY <3>1 DEF StoreTyped, Destination
  <2> QED
    BY <1>1, <1>3, <2>1 DEF SetStatus
<1> QED
  BY <1>1, <1>2, <1>3

(* A step of a goroutine that at most records a status or moves a remote.  *)
LEMMA JobStep ==
  ASSUME Typed, NEW j \in Job, NEW b, job' = [job EXCEPT ![j] = b],
         Shaped(b), j \in Handler => ByHand(b), j = Worker => Automatic(b),
         \/ \E d \in Dest :
              \/ \E sync \in {"", "ok", "error"} : SetSync(d, sync)
              \/ \E status \in {"", "in_sync", "diverged", "error"} : SetStatus(d, status)
         \/ UNCHANGED dests,
         UNCHANGED <<local, updates, vault, touched>>, ReposTyped', RestTyped'
  PROVE  Typed'
<1>1. /\ StoreTyped'
      /\ \A e \in Dest : dests'[e].life = dests[e].life /\ dests'[e].url = dests[e].url
  <2>1. CASE UNCHANGED dests
    BY <2>1 DEF Typed, StoreTyped
  <2>2. ASSUME NEW d \in Dest,
               \/ \E sync \in {"", "ok", "error"} : SetSync(d, sync)
               \/ \E status \in {"", "in_sync", "diverged", "error"} : SetStatus(d, status)
        PROVE  /\ StoreTyped'
               /\ \A e \in Dest : /\ dests'[e].life = dests[e].life
                                  /\ dests'[e].url = dests[e].url
    BY <2>2, StatusTyped DEF Typed
  <2> QED
    BY <2>1, <2>2
<1>2. Grows
  BY <1>1, RowsGrow DEF Typed
<1>3. Shaped(b)'
  BY <1>2, ShapeLasts
<1>4. CASE j \in Handler
  <2>1. ByHand(b)'
    BY <1>2, <1>4, ByHandLasts
  <2> QED
    BY <1>1, <1>2, <1>3, <1>4, <2>1, HandlerMoves DEF Typed
<1>5. CASE j = Worker
  <2>1. Automatic(b)'
    BY <1>2, <1>5, AutomaticLasts DEF Shaped
  <2> QED
    BY <1>1, <1>2, <1>3, <1>5, <2>1, WorkerMoves DEF Typed
<1> QED
  BY <1>4, <1>5 DEF Job

(* The job of a handler that has changed a repository.                     *)
LEMMA ChangedShape ==
  ASSUME NEW r \in Repo, NEW fixed \in BOOLEAN, NEW kind \in {"write", "silent"}
  PROVE  /\ Shaped(Changed(r, kind, fixed)) /\ ByHand(Changed(r, kind, fixed))
         /\ Changed(r, kind, fixed).pc = "audit" /\ Changed(r, kind, fixed).knows = {}
<1>1. PICK b : b = Changed(r, kind, fixed)
  OBVIOUS
<1>2. b \in JobType
  BY <1>1, IdleShape DEF Changed, Shaped, JobType, PC
<1>3. /\ b.pc = "audit" /\ b.kind = kind /\ b.repo = r /\ b.knows = {}
  BY <1>1 DEF Changed, Idle
<1>4. Shaped(b) /\ ByHand(b)
  BY <1>2, <1>3 DEF Shaped, ByHand, Aimed, Passing, Fetching, Comparing
<1> QED
  BY <1>1, <1>3, <1>4

(* A write begins.                                                         *)
LEMMA WriteTyped ==
  ASSUME Typed, NEW h \in Handler, NEW r \in Repo, NEW ref \in Branch, NEW fixed \in BOOLEAN,
         NEW kind \in {"write", "silent"}, Write(h, r, ref, kind, fixed)
  PROVE  Typed'
<1> USE DEF store, repos, counts, ghosts
<1>1. ReposTyped' /\ Grows
  BY AdvanceTyped DEF Typed, Write, Grows, StoreTyped, ReposTyped, Ref
<1>2. StoreTyped' /\ RestTyped'
  BY DEF Typed, Write, StoreTyped, RestTyped
<1>3. PICK b : b = Changed(r, kind, fixed) /\ job' = [job EXCEPT ![h] = b]
  BY DEF Write
<1>4. Shaped(b)' /\ ByHand(b)'
  BY <1>1, <1>3, ChangedShape, ShapeLasts, ByHandLasts
<1>5. JobsTyped'
  BY <1>1, <1>3, <1>4, HandlerMoves DEF Typed
<1> QED
  BY <1>1, <1>2, <1>5 DEF Typed

(* Its audit entry.                                                        *)
LEMMA AuditTyped ==
  ASSUME Typed, NEW h \in Handler, Audit(h)
  PROVE  Typed'
<1> USE DEF store, repos, counts, ghosts
<1> DEFINE now == CASE job[h].kind = "write"  -> [job[h] EXCEPT !.pc = "invalidate"]
                    [] job[h].kind = "silent" -> Idle
                    [] job[h].kind = "sync"   -> [job[h] EXCEPT !.pc = "push",
                                                  !.knows = announced[job[h].repo]]
<1>1. Shaped(job[h]) /\ ByHand(job[h]) /\ job[h].pc = "audit" /\ job[h].repo \in Repo
  BY DEF Typed, JobsTyped, Job, Audit, Shaped
<1>2. ReposTyped' /\ Grows
  BY <1>1, AdvanceTyped DEF Typed, Audit, Grows, StoreTyped, ReposTyped, Ref
<1>3. StoreTyped' /\ RestTyped'
  BY DEF Typed, Audit, StoreTyped, RestTyped
<1>4. PICK b : b = now
  OBVIOUS
<1>5. job' = [job EXCEPT ![h] = b]
  BY <1>4, <1>1 DEF Typed, JobsTyped, Job, Audit
<1>6. Shaped(b) /\ ByHand(b)
  <2>1. CASE job[h].kind = "write"
    BY <1>1, <1>4, <2>1 DEF Shaped, ByHand, JobType, PC, Aimed, Passing, Fetching, Comparing
  <2>2. CASE job[h].kind = "silent"
    BY <1>4, <2>2, IdleShape
  <2>3. CASE job[h].kind = "sync"
    BY <1>1, <1>4, <2>3
    DEF Shaped, ByHand, JobType, PC, Aimed, Target, Passing, Fetching, Comparing, Typed, ReposTyped
  <2> QED
    BY <1>1, <2>1, <2>2, <2>3 DEF Shaped
<1>7. JobsTyped'
  BY <1>2, <1>5, <1>6, ShapeLasts, ByHandLasts, HandlerMoves DEF Typed
<1> QED
  BY <1>2, <1>3, <1>7 DEF Typed

(* Its announcement clears the badges,                                     *)
LEMMA InvalidateTyped ==
  ASSUME Typed, NEW h \in Handler, Invalidate(h)
  PROVE  Typed'
<1> USE DEF store, repos, counts, ghosts
<1>1. Shaped(job[h]) /\ ByHand(job[h]) /\ job[h].pc = "invalidate" /\ job[h].repo \in Repo
  BY DEF Typed, JobsTyped, Job, Invalidate, Shaped
<1>2. /\ StoreTyped'
      /\ \A e \in Dest : dests'[e].life = dests[e].life /\ dests'[e].url = dests[e].url
  <2>1. \A e \in Dest : dests'[e] = dests[e] \/ dests'[e] = [dests[e] EXCEPT !.status = ""]
    BY DEF Invalidate
  <2>2. dests' \in [Dest -> Destination]
    <3>1. ASSUME NEW e \in Dest PROVE dests'[e] \in Destination
      <4>1. dests[e] \in Destination
        BY DEF Typed, StoreTyped
      <4> QED
        BY <2>1, <4>1 DEF Destination
    <3> QED
      BY <3>1 DEF Invalidate
  <2>3. \A e \in Dest : dests'[e].life = dests[e].life /\ dests'[e].url = dests[e].url
    BY <2>1 DEF Typed, StoreTyped, Destination
  <2> QED
    BY <2>2, <2>3 DEF Typed, StoreTyped, Invalidate
<1>3. ReposTyped'
  BY <1>1 DEF Typed, ReposTyped, Invalidate, Content
<1>4. RestTyped'
  BY DEF Typed, RestTyped, Invalidate
<1>5. Grows
  BY <1>2, RowsGrow DEF Typed, Invalidate
<1>6. PICK b : b = [job[h] EXCEPT !.pc = "enqueue"]
  OBVIOUS
<1>7. Shaped(b) /\ ByHand(b)
  BY <1>1, <1>6
  DEF Shaped, ByHand, JobType, PC, Aimed, Target, Passing, Fetching, Comparing
<1>8. job' = [job EXCEPT ![h] = b]
  BY <1>6 DEF Typed, JobsTyped, Job, Invalidate
<1>9. JobsTyped'
  BY <1>5, <1>7, <1>8, ShapeLasts, ByHandLasts, HandlerMoves DEF Typed
<1> QED
  BY <1>2, <1>3, <1>4, <1>9 DEF Typed

(* and queues the repository.                                              *)
LEMMA EnqueueTyped ==
  ASSUME Typed, NEW h \in Handler, Enqueue(h)
  PROVE  Typed'
<1> USE DEF store, repos, counts, ghosts
<1>1. Shaped(job[h]) /\ ByHand(job[h]) /\ job[h].pc = "enqueue" /\ job[h].repo \in Repo
  BY DEF Typed, JobsTyped, Job, Enqueue, EnqueueWith, Shaped
<1>2. PICK b : b = IF job[h].fixed THEN Idle ELSE [job[h] EXCEPT !.pc = "autofix"]
  OBVIOUS
<1>3. Shaped(b) /\ ByHand(b)
  BY <1>1, <1>2, IdleShape
  DEF Shaped, ByHand, JobType, PC, Aimed, Target, Passing, Fetching, Comparing
<1>4. job' = [job EXCEPT ![h] = b]
  BY <1>2 DEF Typed, JobsTyped, Job, Enqueue, EnqueueWith
<1>5. RestTyped'
  <2>1. queue' \in Seq(Repo) /\ Len(queue') <= QueueSize
    <3>1. queue \in Seq(Repo) /\ Len(queue) \in Nat /\ Len(queue) <= QueueSize
      BY DEF Typed, RestTyped
    <3>2. CASE Len(queue) < QueueSize
      <4>1. queue' = Append(queue, job[h].repo)
        BY <3>2 DEF Enqueue, EnqueueWith
      <4>2. Len(queue') = Len(queue) + 1
        BY <1>1, <3>1, <4>1
      <4> QED
        BY <1>1, <3>1, <3>2, <4>1, <4>2, MirrorAssumption
    <3>3. CASE ~ Len(queue) < QueueSize
      BY <3>1, <3>3 DEF Enqueue, EnqueueWith
    <3> QED
      BY <3>2, <3>3
  <2>2. lost' \in [Repo -> BOOLEAN]
    <3> DEFINE r == job[h].repo
               full == lost[r] \/ (Len(queue) >= QueueSize /\ ~ Queued(r))
    <3>1. lost' = [lost EXCEPT ![r] = FALSE] \/ lost' = [lost EXCEPT ![r] = full]
      BY DEF Enqueue, EnqueueWith
    <3>2. full \in BOOLEAN
      OBVIOUS
    <3> HIDE DEF full
    <3> QED
      BY <3>1, <3>2 DEF Typed, RestTyped
  <2> QED
    BY <2>1, <2>2 DEF Typed, RestTyped, Enqueue, EnqueueWith
<1>6. ReposTyped' /\ UNCHANGED <<local, updates, dests, vault, touched>>
  BY DEF Typed, ReposTyped, Enqueue, EnqueueWith, Content
<1> QED
  BY <1>3, <1>4, <1>5, <1>6, JobStep, MirrorAssumption DEF Job

(* The autofix that follows it.                                            *)
LEMMA AutofixTyped ==
  ASSUME Typed, NEW h \in Handler, Autofix(h)
  PROVE  Typed'
<1> USE DEF store, repos, counts, ghosts
<1>1. Shaped(job[h]) /\ ByHand(job[h]) /\ job[h].pc = "autofix" /\ job[h].repo \in Repo
  BY DEF Typed, JobsTyped, Job, Autofix, Shaped
<1>2. ReposTyped' /\ Grows
  BY <1>1, AdvanceTyped, MirrorAssumption
  DEF Typed, Autofix, Grows, StoreTyped, ReposTyped, Ref
<1>3. StoreTyped' /\ RestTyped'
  BY DEF Typed, Autofix, StoreTyped, RestTyped
<1>4. PICK b : /\ job' = [job EXCEPT ![h] = b]
               /\ \/ b = [job[h] EXCEPT !.pc = "audit", !.fixed = TRUE]
                  \/ b = Idle
                  \/ /\ job[h].kind = "sync"
                     /\ b = [job[h] EXCEPT !.pc = "push", !.knows = announced[job[h].repo]]
  BY DEF Typed, JobsTyped, Job, Autofix
<1>5. Shaped(b) /\ ByHand(b)
  <2>1. CASE b = [job[h] EXCEPT !.pc = "audit", !.fixed = TRUE]
    BY <1>1, <2>1
    DEF Shaped, ByHand, JobType, PC, Aimed, Target, Passing, Fetching, Comparing
  <2>2. CASE /\ job[h].kind = "sync"
             /\ b = [job[h] EXCEPT !.pc = "push", !.knows = announced[job[h].repo]]
    BY <1>1, <2>2
    DEF Shaped, ByHand, JobType, PC, Aimed, Target, Passing, Fetching, Comparing,
        Typed, ReposTyped
  <2> QED
    BY <1>4, <2>1, <2>2, IdleShape
<1>6. JobsTyped'
  BY <1>2, <1>4, <1>5, ShapeLasts, ByHandLasts, HandlerMoves DEF Typed
<1> QED
  BY <1>2, <1>3, <1>6 DEF Typed

(* The worker takes a repository with its destinations.                    *)
LEMMA TakeTyped ==
  ASSUME Typed, Take
  PROVE  Typed'
<1> USE DEF store, repos, counts, ghosts
<1> DEFINE r == Head(queue)
           targets == {d \in DestsOf(r) : dests[d].enabled}
           todo == {[dest |-> d, url |-> dests[d].url] : d \in targets}
<1>1. r \in Repo
  BY DEF Typed, RestTyped, Take
<1>2. PICK b : b = [Idle EXCEPT !.pc = "next", !.kind = "worker", !.repo = r, !.todo = todo]
  OBVIOUS
<1>3. \A t \in todo : /\ t \in [dest : Dest, url : Url] /\ RepoOf[t.dest] = r
                      /\ dests[t.dest].life # "new" /\ t.url = dests[t.dest].url
  BY DEF Typed, StoreTyped, DestsOf, Live
<1> HIDE DEF r, todo
<1>4. Shaped(b) /\ Automatic(b)
  BY <1>1, <1>2, <1>3, IdleShape
  DEF Shaped, Automatic, JobType, PC, Idle, Aimed, Passing, Fetching, Comparing
<1>5. job' = [job EXCEPT ![Worker] = b]
  BY <1>2 DEF Take, r, todo
<1>6. RestTyped'
  <2>1. queue \in Seq(Repo) /\ queue # <<>> /\ queue' = Tail(queue) /\ Len(queue) <= QueueSize
    BY DEF Typed, RestTyped, Take
  <2>2. queue' \in Seq(Repo) /\ Len(queue') = Len(queue) - 1 /\ Len(queue) \in Nat
    BY <2>1
  <2>3. Len(queue') <= QueueSize
    BY <2>1, <2>2, MirrorAssumption
  <2> QED
    BY <2>2, <2>3 DEF Typed, RestTyped, Take
<1>7. ReposTyped' /\ UNCHANGED <<local, updates, dests, vault, touched>>
  BY DEF Typed, ReposTyped, Take, Content
<1> QED
  BY <1>4, <1>5, <1>6, <1>7, JobStep, MirrorAssumption DEF Job

Passed(t) == [job[Worker] EXCEPT !.todo = @ \ {t}]
Turned(t) == [Passed(t) EXCEPT !.pc = "push", !.dest = t.dest, !.url = t.url,
                               !.knows = announced[job[Worker].repo]]

(* The worker passes a destination, turns to one, or rests.                *)
LEMMA NextDestTo ==
  ASSUME NextDest
  PROVE  \E b : /\ job' = [job EXCEPT ![Worker] = b]
                /\ \/ b = Idle /\ job[Worker].todo = {}
                   \/ \E t \in job[Worker].todo :
                        (b = Passed(t) /\ t.dest \notin vault) \/ b = Turned(t)
<1>1. ASSUME NEW t \in job[Worker].todo,
             job' = [job EXCEPT ![Worker] = IF t.dest \notin vault THEN Passed(t) ELSE Turned(t)]
      PROVE  \E b : /\ job' = [job EXCEPT ![Worker] = b]
                    /\ (b = Passed(t) /\ t.dest \notin vault) \/ b = Turned(t)
  BY <1>1
<1>2. \/ job' = [job EXCEPT ![Worker] = Idle] /\ job[Worker].todo = {}
      \/ \E t \in job[Worker].todo :
           job' = [job EXCEPT ![Worker] = IF t.dest \notin vault THEN Passed(t) ELSE Turned(t)]
  BY DEF NextDest, Passed, Turned
<1> QED
  BY <1>1, <1>2

(* The worker goes on to a destination.                                    *)
LEMMA NextDestTyped ==
  ASSUME Typed, NextDest
  PROVE  Typed'
<1> USE DEF store, repos, counts, ghosts
<1>1. /\ Shaped(job[Worker]) /\ Automatic(job[Worker]) /\ job[Worker].pc = "next"
      /\ job[Worker].repo \in Repo
  BY DEF Typed, JobsTyped, Job, NextDest, Shaped
<1>2. PICK b : /\ job' = [job EXCEPT ![Worker] = b]
               /\ b = Idle \/ \E t \in job[Worker].todo : b = Passed(t) \/ b = Turned(t)
  BY NextDestTo
<1>3. Shaped(b) /\ Automatic(b)
  <2>1. CASE b = Idle
    BY <2>1, IdleShape
  <2>2. ASSUME NEW t \in job[Worker].todo, b = Passed(t)
        PROVE  Shaped(b) /\ Automatic(b)
    BY <1>1, <2>2
    DEF Passed, Shaped, Automatic, JobType, PC, Aimed, Passing, Fetching, Comparing
  <2>3. ASSUME NEW t \in job[Worker].todo, b = Turned(t)
        PROVE  Shaped(b) /\ Automatic(b)
    <3>1. t \in [dest : Dest, url : Url]
      BY <1>1 DEF Shaped, JobType
    <3>2. b \in JobType
      <4>1. announced[job[Worker].repo] \in Content
        BY <1>1 DEF Typed, ReposTyped
      <4> QED
        BY <1>1, <2>3, <3>1, <4>1 DEF Passed, Turned, Shaped, JobType, PC
    <3>3. /\ b.pc = "push" /\ b.repo = job[Worker].repo /\ b.dest = t.dest /\ b.url = t.url
          /\ b.knows = announced[b.repo] /\ b.kind = job[Worker].kind
          /\ b.todo \subseteq job[Worker].todo
      BY <1>1, <2>3 DEF Passed, Turned, Shaped, JobType
    <3>4. Target(b)
      BY <1>1, <3>1, <3>3 DEF Target, Automatic
    <3>5. b.knows \subseteq local[b.repo]
      BY <1>1, <3>3 DEF Typed, ReposTyped
    <3>6. Shaped(b)
      BY <1>1, <3>2, <3>3, <3>4, <3>5 DEF Shaped
    <3>7. Automatic(b)
      BY <1>1, <3>3 DEF Automatic, Passing
    <3> QED
      BY <3>6, <3>7
  <2> QED
    BY <1>2, <2>1, <2>2, <2>3
<1>4. ReposTyped' /\ RestTyped' /\ UNCHANGED <<local, updates, dests, vault, touched>>
  BY DEF Typed, ReposTyped, RestTyped, NextDest, Content
<1> QED
  BY <1>2, <1>3, <1>4, JobStep, MirrorAssumption DEF Job

(* A push, whoever makes it.                                               *)
LEMMA DoneShape ==
  ASSUME Typed, NEW j \in Job, job[j].pc # "idle"
  PROVE  /\ Shaped(Done(j))
         /\ j \in Handler => ByHand(Done(j))
         /\ j = Worker => Automatic(Done(j))
<1>1. Shaped(job[j]) /\ job[j].repo \in Repo
  BY DEF Typed, JobsTyped, Shaped
<1>2. CASE j # Worker
  BY <1>2, IdleShape DEF Done
<1>3. CASE j = Worker
  <2>1. Automatic(job[j]) /\ j \notin Handler
    BY <1>3, MirrorAssumption DEF Typed, JobsTyped
  <2>2. PICK b : /\ b = Done(j)
                 /\ b = [Idle EXCEPT !.pc = "next", !.kind = "worker", !.repo = job[j].repo,
                                     !.todo = job[j].todo]
    BY <1>3 DEF Done
  <2>3. b \in JobType
    BY <1>1, <2>2, IdleShape DEF Shaped, JobType, PC
  <2>4. /\ b.pc = "next" /\ b.kind = "worker" /\ b.repo = job[j].repo
        /\ b.todo = job[j].todo /\ b.knows = {}
    BY <2>2 DEF Idle
  <2>5. Shaped(b)
    BY <1>1, <2>3, <2>4 DEF Shaped, Aimed, Passing, Fetching, Comparing
  <2>6. Automatic(b)
    BY <1>1, <2>1, <2>4 DEF Automatic
  <2> QED
    BY <2>1, <2>2, <2>5, <2>6
<1> QED
  BY <1>2, <1>3

(* Where nothing else is done, nothing rests on d having been touched.     *)
LEMMA ShapeElsewhere ==
  ASSUME UNCHANGED <<local, updates, dests>>, NEW d, touched \ {d} \subseteq touched',
         NEW b, Shaped(b), b.dest # d \/ b.url = dests[d].url
  PROVE  Shaped(b)'
<1>1. b \in JobType'
  BY DEF Shaped, JobType, Content
<1>2. Aimed(b) => Target(b)'
  BY DEF Shaped, Target
<1> QED
  BY <1>1, <1>2 DEF Shaped, Aimed

LEMMA AutomaticElsewhere ==
  ASSUME UNCHANGED dests, NEW d, touched \ {d} \subseteq touched',
         NEW b, Automatic(b), \A t \in b.todo : t.dest # d
  PROVE  Automatic(b)'
BY DEF Automatic

(* A push reads the refs, and when it is alone, puts right what an admin   *)
(* touched,                                                                *)
LEMMA PushReadsTyped ==
  ASSUME Typed, NEW j \in Job, PushReads(j)
  PROVE  Typed'
<1> USE DEF store, repos, counts, ghosts
<1>1. Shaped(job[j]) /\ job[j].pc = "push" /\ job[j].repo \in Repo
  BY DEF Typed, JobsTyped, Job, PushReads, Shaped
<1>2. PICK b : b = [job[j] EXCEPT !.pc = "send", !.carries = local[job[j].repo]]
  OBVIOUS
<1>3. job' = [job EXCEPT ![j] = b]
  BY <1>2 DEF PushReads, Typed, JobsTyped
<1>4. Shaped(b)
  BY <1>1, <1>2
  DEF Shaped, JobType, PC, Aimed, Target, Passing, Fetching, Comparing, Typed, ReposTyped
<1>5. (j \in Handler => ByHand(b)) /\ (j = Worker => Automatic(b))
  BY <1>1, <1>2
  DEF Typed, JobsTyped, Shaped, JobType, ByHand, Automatic, Passing, Fetching
<1>6. ReposTyped' /\ RestTyped' /\ UNCHANGED <<local, updates, dests, vault>>
  <2>1. job[j].dest \in Dest
    BY <1>1 DEF Shaped, Aimed, Passing, Target
  <2> QED
    BY <2>1 DEF Typed, ReposTyped, RestTyped, PushReads, Content
<1>7. CASE ~ Alone(j)
  <2>1. UNCHANGED touched
    BY <1>7 DEF PushReads
  <2> QED
    BY <1>3, <1>4, <1>5, <1>6, <2>1, JobStep
<1>8. CASE Alone(j)
  <2>1. PICK d : d = job[j].dest /\ touched' = touched \ {d}
    BY <1>8 DEF PushReads
  <2>2. /\ d \in vault /\ job[j].url = dests[d].url
        /\ \A k \in Job : k # j => job[k].dest # d
        /\ \A t \in job[Worker].todo : t.dest # d
    BY <1>8, <2>1 DEF Alone
  <2>3. StoreTyped'
    BY <1>6, <2>1, <2>2 DEF Typed, StoreTyped
  <2>4. b.dest = d /\ b.url = dests[d].url /\ b.todo = job[j].todo
    BY <1>1, <1>2, <2>1, <2>2 DEF Shaped, JobType
  <2>5. job'[j] = b /\ \A k \in Job : k # j => job'[k] = job[k]
    BY <1>3 DEF Typed, JobsTyped
  <2>6. touched \ {d} \subseteq touched'
    BY <2>1
  <2>7. Shaped(b)'
    BY <1>4, <1>6, <2>4, <2>6, ShapeElsewhere
  <2>8. ASSUME NEW k \in Job PROVE Shaped(job[k])'
    <3>1. CASE k = j
      BY <2>5, <2>7, <3>1
    <3>2. CASE k # j
      <4>1. PICK c : c = job[k] /\ job'[k] = c
        BY <2>5, <3>2
      <4>2. Shaped(c)'
        BY <1>6, <2>2, <2>6, <3>2, <4>1, ShapeElsewhere DEF Typed, JobsTyped
      <4> QED
        BY <4>1, <4>2
    <3> QED
      BY <3>1, <3>2
  <2>9. \A h \in Handler : ByHand(job[h])'
    BY <1>5, <2>5 DEF Typed, JobsTyped, ByHand, Job
  <2>10. Automatic(job[Worker])'
    <3>1. PICK w : w = job'[Worker] /\ Automatic(w) /\ w.todo = job[Worker].todo
      BY <1>5, <2>4, <2>5 DEF Typed, JobsTyped, Job
    <3>2. Automatic(w)'
      BY <1>6, <2>2, <2>6, <3>1, AutomaticElsewhere
    <3> QED
      BY <3>1, <3>2
  <2>11. DOMAIN job' = Job /\ job' = [k \in Job |-> job'[k]]
    BY <1>3 DEF Typed, JobsTyped
  <2> QED
    BY <1>6, <2>3, <2>8, <2>9, <2>10, <2>11 DEF Typed, JobsTyped
<1> QED
  BY <1>7, <1>8

Ended(j, verdict) ==
  [job[j] EXCEPT !.pc = "sent", !.verdict = verdict, !.carries = {}]

(* How a push can end.                                                     *)
LEMMA PushEndsTo ==
  ASSUME Typed, NEW j \in Job, PushEnds(j)
  PROVE  \E refs \in SUBSET Ref, verdict \in {"ok", "error"} :
           /\ job' = [job EXCEPT ![j] = Ended(j, verdict)]
           /\ remote' = Sent(j, refs)
           /\ verdict = "ok" => refs = Ref
<1>1. PICK refs \in SUBSET Ref, verdict \in {"ok", "error"} :
        /\ verdict = "ok" => refs = Ref
        /\ remote' = Sent(j, refs)
        /\ job' = [job EXCEPT ![j].pc = "sent", ![j].verdict = verdict, ![j].carries = {}]
  BY DEF PushEnds
<1>2. job' = [job EXCEPT ![j] = Ended(j, verdict)]
  BY <1>1 DEF Typed, JobsTyped, Ended
<1> QED
  BY <1>1, <1>2

(* Where it went, something of what it carried may have come.              *)
LEMMA SentTo ==
  ASSUME Typed, NEW j \in Job, Target(job[j]), NEW refs \in SUBSET Ref
  PROVE  LET at == remote[job[j].dest][job[j].url] IN
         /\ Sent(j, refs) \in [Dest -> [Url -> Content]]
         /\ Sent(j, refs)[job[j].dest][job[j].url] = Forced(at, job[j].carries, refs)
         /\ \A d \in Dest : d # job[j].dest => Sent(j, refs)[d] = remote[d]
<1>1. PICK d, u, now : /\ d = job[j].dest /\ u = job[j].url
                       /\ now = Forced(remote[d][u], job[j].carries, refs)
  OBVIOUS
<1>2. Sent(j, refs) = [remote EXCEPT ![d][u] = now]
  BY <1>1 DEF Sent
<1>3. d \in Dest /\ u \in Url /\ remote \in [Dest -> [Url -> Content]]
  BY <1>1 DEF Typed, ReposTyped, Target
<1>4. now \in Content
  <2>1. remote[d][u] \in Content /\ job[j].carries \in Content
    <3>1. job[j] \in JobType
      BY DEF Typed, JobsTyped, Shaped
    <3> QED
      BY <1>3, <3>1 DEF JobType
  <2>2. now \subseteq remote[d][u] \cup job[j].carries
    BY <1>1, ForceBounds
  <2> QED
    BY <2>1, <2>2 DEF Content
<1> QED
  BY <1>1, <1>2, <1>3, <1>4

(* ends,                                                                   *)
LEMMA PushEndsTyped ==
  ASSUME Typed, NEW j \in Job, PushEnds(j)
  PROVE  Typed'
<1> USE DEF store, repos, counts, ghosts
<1>1. Shaped(job[j]) /\ job[j].pc = "send" /\ job[j].repo \in Repo /\ Target(job[j])
  BY DEF Typed, JobsTyped, Job, PushEnds, Shaped, Aimed, Passing
<1>2. PICK b : /\ job' = [job EXCEPT ![j] = b]
               /\ \E verdict \in {"ok", "error"} :
                    b = [job[j] EXCEPT !.pc = "sent", !.verdict = verdict, !.carries = {}]
  BY PushEndsTo DEF Ended
<1>3. Shaped(b)
  BY <1>1, <1>2
  DEF Shaped, JobType, PC, Aimed, Target, Passing, Fetching, Comparing, Content
<1>4. (j \in Handler => ByHand(b)) /\ (j = Worker => Automatic(b))
  <2>1. (j \in Handler => ByHand(job[j])) /\ (j = Worker => Automatic(job[j]))
    BY DEF Typed, JobsTyped
  <2>2. /\ b.pc = "sent" /\ b.dest = job[j].dest /\ b.kind = job[j].kind
        /\ b.repo = job[j].repo /\ b.todo = job[j].todo
    BY <1>1, <1>2 DEF Shaped, JobType
  <2> QED
    BY <1>1, <2>1, <2>2 DEF ByHand, Automatic, Passing
<1>5. RestTyped' /\ UNCHANGED <<local, updates, dests, vault, touched, announced>>
  BY DEF Typed, RestTyped, PushEnds
<1>6. ReposTyped'
  <2>1. PICK refs \in SUBSET Ref : remote' = Sent(j, refs)
    BY PushEndsTo
  <2>2. remote' \in [Dest -> [Url -> Content]]
    BY <1>1, <2>1, SentTo
  <2> QED
    BY <1>5, <2>2 DEF Typed, ReposTyped, Content
<1> QED
  BY <1>2, <1>3, <1>4, <1>5, <1>6, JobStep

(* records how,                                                            *)
LEMMA RecordSyncTyped ==
  ASSUME Typed, NEW j \in Job, RecordSync(j)
  PROVE  Typed'
<1> USE DEF store, repos, counts, ghosts
<1>1. /\ Shaped(job[j]) /\ job[j].pc = "sent" /\ Target(job[j])
      /\ job[j].verdict \in {"ok", "error"}
  BY DEF Typed, JobsTyped, Job, RecordSync, RecordSyncAs, Shaped, Aimed, Passing
<1>2. PICK b : job' = [job EXCEPT ![j] = b] /\ (b = Marking(j) \/ b = Done(j))
  BY DEF RecordSync, RecordSyncAs
<1>3. /\ Shaped(b)
      /\ (j \in Handler => ByHand(b)) /\ (j = Worker => Automatic(b))
  <2>1. CASE b = Done(j)
    BY <1>1, <2>1, DoneShape
  <2>2. CASE b = Marking(j)
    <3>1. Shaped(b)
      BY <1>1, <2>2
      DEF Marking, Shaped, JobType, PC, Aimed, Target, Passing, Fetching, Comparing
    <3> QED
      <4>1. (j \in Handler => ByHand(job[j])) /\ (j = Worker => Automatic(job[j]))
        BY DEF Typed, JobsTyped
      <4>2. /\ b.pc = "mark" /\ b.dest = job[j].dest /\ b.kind = job[j].kind
            /\ b.repo = job[j].repo /\ b.todo = job[j].todo
        BY <1>1, <2>2 DEF Marking, Shaped, JobType
      <4> QED
        BY <1>1, <3>1, <4>1, <4>2 DEF ByHand, Automatic, Passing
  <2> QED
    BY <1>2, <2>1, <2>2
<1>4. job[j].dest \in Dest /\ SetSync(job[j].dest, job[j].verdict)
  BY <1>1 DEF Target, RecordSync, RecordSyncAs
<1>5. ReposTyped' /\ RestTyped' /\ UNCHANGED <<local, updates, vault, touched>>
  BY DEF Typed, ReposTyped, RestTyped, RecordSync, RecordSyncAs, Content
<1> QED
  BY <1>1, <1>2, <1>3, <1>4, <1>5, JobStep

(* and sets the badge.                                                     *)
LEMMA MarkTyped ==
  ASSUME Typed, NEW j \in Job, Mark(j)
  PROVE  Typed'
<1> USE DEF store, repos, counts, ghosts
<1>1. Shaped(job[j]) /\ job[j].pc = "mark" /\ Target(job[j])
  BY DEF Typed, JobsTyped, Job, Mark, Shaped, Aimed, Passing
<1>2. PICK b : b = Done(j)
  OBVIOUS
<1>3. job' = [job EXCEPT ![j] = b]
  BY <1>2 DEF Mark
<1>4. Shaped(b) /\ (j \in Handler => ByHand(b)) /\ (j = Worker => Automatic(b))
  BY <1>1, <1>2, DoneShape
<1>5. job[j].dest \in Dest /\ (SetStatus(job[j].dest, "in_sync") \/ UNCHANGED dests)
  BY <1>1 DEF Target, Mark
<1>6. ReposTyped' /\ RestTyped' /\ UNCHANGED <<local, updates, vault, touched>>
  BY DEF Typed, ReposTyped, RestTyped, Mark, Content
<1> QED
  BY <1>3, <1>4, <1>5, <1>6, JobStep

(* A job that an admin starts at a destination.                            *)
LEMMA StartTyped ==
  ASSUME Typed, NEW h \in Handler, NEW d \in Dest,
         NEW pc \in {"autofix", "fetch", "ls"}, NEW kind \in {"sync", "pull", "refresh"},
         pc = "autofix" => kind = "sync",
         Act(d), Start(h, d, pc, kind),
         UNCHANGED <<local, remote, updates, dests, vault, announced, touched>>
  PROVE  Typed'
<1>1. d \in Live /\ dests[d].life # "new" /\ dests[d].url \in Url /\ RepoOf[d] \in Repo
  BY MirrorAssumption DEF Typed, StoreTyped, Act, Live
<1>2. PICK b : b = [Idle EXCEPT !.pc = pc, !.kind = kind, !.repo = RepoOf[d], !.dest = d,
                                !.url = dests[d].url, !.knows = announced[RepoOf[d]]]
  OBVIOUS
<1>3. job' = [job EXCEPT ![h] = b]
  BY <1>2 DEF Start
<1>4. StoreTyped' /\ Grows
  <2>1. StoreTyped'
    BY DEF Typed, StoreTyped
  <2> QED
    BY <2>1, RowsGrow DEF Typed
<1>5. ReposTyped'
  BY DEF Typed, ReposTyped, Content
<1>6. RestTyped'
  BY DEF Typed, RestTyped, Act
<1>7. Shaped(b)
  <2>1. /\ announced[RepoOf[d]] \in Content
        /\ announced[RepoOf[d]] \subseteq local[RepoOf[d]]
    BY <1>1 DEF Typed, ReposTyped
  <2>2. b \in JobType
    BY <1>1, <1>2, <2>1, IdleShape DEF Shaped, JobType, PC
  <2>3. /\ b.pc = pc /\ b.repo = RepoOf[d] /\ b.dest = d /\ b.url = dests[d].url
        /\ b.knows = announced[RepoOf[d]] /\ b.kind = kind
    BY <1>2 DEF Idle
  <2> QED
    BY <1>1, <2>1, <2>2, <2>3 DEF Shaped, Target
<1>8. ByHand(b)'
  BY <1>2 DEF ByHand, Idle, Passing, Fetching
<1>9. JobsTyped'
  BY <1>3, <1>4, <1>7, <1>8, ShapeLasts, HandlerMoves DEF Typed
<1> QED
  BY <1>4, <1>5, <1>6, <1>9 DEF Typed

(* An admin asks for a push, a pull or a refresh.                          *)
LEMMA AskTyped ==
  ASSUME Typed, NEW h \in Handler, NEW d \in Dest, SyncNow(h, d) \/ Pull(h, d) \/ Refresh(h, d)
  PROVE  Typed'
<1> USE DEF store, repos
<1>1. CASE SyncNow(h, d)
  BY <1>1, StartTyped DEF SyncNow
<1>2. CASE Pull(h, d)
  BY <1>2, StartTyped DEF Pull
<1>3. CASE Refresh(h, d) /\ Start(h, d, "ls", "refresh") /\ UNCHANGED dests
  BY <1>3, StartTyped DEF Refresh
<1>4. CASE Refresh(h, d) /\ SetStatus(d, "error") /\ UNCHANGED job
  <2>1. /\ StoreTyped'
        /\ \A e \in Dest : dests'[e].life = dests[e].life /\ dests'[e].url = dests[e].url
    BY <1>4, StatusTyped DEF Typed, Refresh
  <2>2. Grows
    BY <1>4, <2>1, RowsGrow DEF Typed, Refresh
  <2>3. ReposTyped'
    BY <1>4 DEF Typed, ReposTyped, Content, Refresh
  <2>4. RestTyped'
    BY <1>4 DEF Typed, RestTyped, Act, Refresh
  <2>5. JobsTyped'
    BY <1>4, <2>2, JobsLast DEF Typed
  <2> QED
    BY <2>1, <2>3, <2>4, <2>5 DEF Typed
<1> QED
  BY <1>1, <1>2, <1>3, <1>4 DEF Refresh

(* A pull reads the remote.                                                *)
LEMMA FetchReadsTyped ==
  ASSUME Typed, NEW h \in Handler, FetchReads(h)
  PROVE  Typed'
<1> USE DEF store, repos, counts, ghosts
<1>1. Shaped(job[h]) /\ ByHand(job[h]) /\ job[h].pc = "fetch" /\ Target(job[h])
  BY DEF Typed, JobsTyped, Job, FetchReads, Shaped, Aimed, Fetching
<1>2. PICK b : b = [job[h] EXCEPT !.pc = "fetched",
                                  !.carries = remote[job[h].dest][job[h].url]]
  OBVIOUS
<1>3. job' = [job EXCEPT ![h] = b]
  BY <1>2 DEF FetchReads
<1>4. Shaped(b)
  <2>1. remote[job[h].dest][job[h].url] \in Content
    BY <1>1 DEF Typed, ReposTyped, Target
  <2> QED
    BY <1>1, <1>2, <2>1
    DEF Shaped, JobType, PC, Aimed, Target, Passing, Fetching, Comparing
<1>5. ByHand(b)
  BY <1>1, <1>2 DEF ByHand, Shaped, JobType, Passing, Fetching
<1>6. ReposTyped' /\ RestTyped' /\ UNCHANGED <<local, updates, dests, vault, touched>>
  BY DEF Typed, ReposTyped, RestTyped, FetchReads, Content
<1> QED
  BY <1>3, <1>4, <1>5, <1>6, JobStep, MirrorAssumption DEF Job

(* A refresh lists the remote,                                             *)
LEMMA LsRemoteTyped ==
  ASSUME Typed, NEW h \in Handler, LsRemote(h)
  PROVE  Typed'
<1> USE DEF store, repos, counts, ghosts
<1>1. Shaped(job[h]) /\ ByHand(job[h]) /\ job[h].pc = "ls" /\ Target(job[h])
  BY DEF Typed, JobsTyped, Job, LsRemote, Shaped, Aimed, Comparing
<1>2. PICK b : /\ job' = [job EXCEPT ![h] = b]
               /\ \/ b = Idle
                  \/ b = [job[h] EXCEPT !.pc = "compare",
                                        !.carries = remote[job[h].dest][job[h].url]]
  BY DEF LsRemote
<1>3. Shaped(b) /\ ByHand(b)
  <2>1. CASE b = [job[h] EXCEPT !.pc = "compare",
                                !.carries = remote[job[h].dest][job[h].url]]
    <3>1. Shaped(b)
      <4>1. remote[job[h].dest][job[h].url] \in Content
        BY <1>1 DEF Typed, ReposTyped, Target
      <4> QED
        BY <1>1, <2>1, <4>1
        DEF Shaped, JobType, PC, Aimed, Target, Passing, Fetching, Comparing
    <3> QED
      BY <1>1, <2>1, <3>1 DEF ByHand, Shaped, JobType, Passing, Fetching
  <2> QED
    BY <1>2, <2>1, IdleShape
<1>4. job[h].dest \in Dest /\ (SetStatus(job[h].dest, "error") \/ UNCHANGED dests)
  BY <1>1 DEF Target, LsRemote
<1>5. ReposTyped' /\ RestTyped' /\ UNCHANGED <<local, updates, vault, touched>>
  BY DEF Typed, ReposTyped, RestTyped, LsRemote, Content
<1> QED
  BY <1>2, <1>3, <1>4, <1>5, JobStep, MirrorAssumption DEF Job

(* compares,                                                               *)
LEMMA CompareTyped ==
  ASSUME Typed, NEW h \in Handler, Compare(h)
  PROVE  Typed'
<1> USE DEF store, repos, counts, ghosts
<1>1. Shaped(job[h]) /\ ByHand(job[h]) /\ job[h].pc = "compare" /\ Target(job[h])
  BY DEF Typed, JobsTyped, Job, Compare, Shaped, Aimed, Comparing
<1>2. PICK b : /\ job' = [job EXCEPT ![h] = b]
               /\ \/ b = Idle
                  \/ \E verdict \in {"in_sync", "diverged"} :
                       b = [job[h] EXCEPT !.pc = "record", !.verdict = verdict]
  BY DEF Compare
<1>3. Shaped(b) /\ ByHand(b)
  <2>1. ASSUME NEW verdict \in {"in_sync", "diverged"},
               b = [job[h] EXCEPT !.pc = "record", !.verdict = verdict]
        PROVE  Shaped(b) /\ ByHand(b)
    <3>1. Shaped(b)
      BY <1>1, <2>1
      DEF Shaped, JobType, PC, Aimed, Target, Passing, Fetching, Comparing
    <3> QED
      BY <1>1, <2>1, <3>1 DEF ByHand, Shaped, JobType, Passing, Fetching
  <2> QED
    BY <1>2, <2>1, IdleShape
<1>4. ReposTyped' /\ RestTyped' /\ UNCHANGED <<local, updates, dests, vault, touched>>
  BY DEF Typed, ReposTyped, RestTyped, Compare, Content
<1> QED
  BY <1>2, <1>3, <1>4, JobStep, MirrorAssumption DEF Job

(* and records its verdict.                                                *)
LEMMA RecordTyped ==
  ASSUME Typed, NEW h \in Handler, Record(h)
  PROVE  Typed'
<1> USE DEF store, repos, counts, ghosts
<1>1. /\ Target(job[h]) /\ job[h].verdict \in {"in_sync", "diverged"}
      /\ job' = [job EXCEPT ![h] = Idle] /\ SetStatus(job[h].dest, job[h].verdict)
  BY DEF Typed, JobsTyped, Job, Record, Shaped, Aimed, Comparing
<1>2. ReposTyped' /\ RestTyped' /\ UNCHANGED <<local, updates, vault, touched>>
  BY DEF Typed, ReposTyped, RestTyped, Record, Content
<1>3. PICK b : b = Idle
  OBVIOUS
<1> QED
  BY <1>1, <1>2, <1>3, IdleShape, JobStep, MirrorAssumption DEF Job, Target

(* A job that knows of nothing that is gone.                               *)
Recalls(b, content) == [b EXCEPT !.knows = @ \cap content]

LEMMA RecallsSame ==
  ASSUME NEW b \in JobType, NEW content
  PROVE  LET c == Recalls(b, content) IN
         /\ c \in JobType /\ c.knows = b.knows \cap content
         /\ c.pc = b.pc /\ c.kind = b.kind /\ c.repo = b.repo /\ c.dest = b.dest
         /\ c.url = b.url /\ c.todo = b.todo /\ c.verdict = b.verdict
         /\ c.carries = b.carries
<1>1. b.knows \cap content \in Content
  BY DEF JobType, Content
<1> QED
  BY <1>1 DEF Recalls, JobType

(* The jobs when a repository is replaced.                                 *)
LEMMA BecomesJobs ==
  ASSUME Typed, NEW h \in Handler, NEW r, NEW content, NEW next, Becomes(r, content, h, next)
  PROVE  /\ job'[h] = next
         /\ \A j \in Job : j # h => \/ job[j].repo = r /\ job'[j] = Recalls(job[j], content)
                                    \/ job[j].repo # r /\ job'[j] = job[j]
<1>1. job' = [j \in Job |-> IF j = h THEN next
                            ELSE IF job[j].repo = r THEN Recalls(job[j], content)
                            ELSE job[j]]
  BY DEF Becomes, Recalls
<1>2. h \in Job
  BY DEF Job
<1>3. \A j \in Job : job'[j] = IF j = h THEN next
                             ELSE IF job[j].repo = r THEN Recalls(job[j], content)
                             ELSE job[j]
  BY <1>1
<1>4. job'[h] = next
  BY <1>2, <1>3
<1>5. ASSUME NEW j \in Job, j # h
      PROVE  \/ job[j].repo = r /\ job'[j] = Recalls(job[j], content)
             \/ job[j].repo # r /\ job'[j] = job[j]
  BY <1>3, <1>5
<1> QED
  BY <1>4, <1>5

(* What a repository holds is replaced.                                    *)
LEMMA BecomesTyped ==
  ASSUME Typed, NEW h \in Handler, NEW r \in Repo, NEW content \in Content, NEW next,
         Becomes(r, content, h, next), Shaped(next), ByHand(next), next.knows = {},
         UNCHANGED <<remote, updates, dests, vault, touched>>, RestTyped'
  PROVE  Typed'
<1>1. StoreTyped'
  BY DEF Typed, StoreTyped
<1>2. ReposTyped' /\ \A s \in Repo : s # r => local'[s] = local[s]
  <2>1. announced[r] \cap content \in Content
    BY DEF Content
  <2> QED
    BY <2>1 DEF Typed, ReposTyped, Becomes, Content
<1>3. local'[r] = content
  BY DEF Becomes, Typed, ReposTyped
<1>4. ASSUME NEW a, Shaped(a), a.repo # r \/ a.knows \subseteq content
      PROVE  Shaped(a)'
  <2>1. a \in JobType'
    BY <1>4 DEF Shaped, JobType, Content
  <2>2. a.knows = {} \/ (a.repo \in Repo /\ a.knows \subseteq local'[a.repo])
    BY <1>2, <1>3, <1>4 DEF Shaped
  <2>3. Aimed(a) => Target(a)'
    BY <1>4 DEF Shaped, Target
  <2> QED
    BY <1>4, <2>1, <2>2, <2>3 DEF Shaped, Aimed
<1>5. ASSUME NEW a, Shaped(a)
      PROVE  LET c == Recalls(a, content) IN
             /\ Shaped(c) /\ c.knows \subseteq content
             /\ ByHand(a) => ByHand(c)
             /\ Automatic(a) => Automatic(c)
  <2>1. PICK c : c = Recalls(a, content)
    OBVIOUS
  <2>2. /\ c \in JobType /\ c.knows = a.knows \cap content
        /\ c.pc = a.pc /\ c.kind = a.kind /\ c.repo = a.repo /\ c.dest = a.dest
        /\ c.url = a.url /\ c.todo = a.todo /\ c.verdict = a.verdict
    BY <1>5, <2>1, RecallsSame DEF Shaped
  <2>3. Shaped(c) /\ (ByHand(a) => ByHand(c)) /\ (Automatic(a) => Automatic(c))
    BY <1>5, <2>2 DEF Shaped, Aimed, Target, ByHand, Automatic
  <2> QED
    BY <2>1, <2>2, <2>3
<1>6. ASSUME NEW j \in Job
      PROVE  \E a : job'[j] = a /\ Shaped(a) /\ (a.repo # r \/ a.knows \subseteq content)
  BY <1>5, BecomesJobs DEF Typed, JobsTyped
<1>7. \A j \in Job : Shaped(job[j])'
  BY <1>4, <1>6
<1>8. ASSUME NEW k \in Handler
      PROVE  ByHand(job[k])'
  <2>0. k \in Job /\ Shaped(job[k]) /\ ByHand(job[k])
    BY DEF Typed, JobsTyped, Job
  <2>1. \E a : job'[k] = a /\ ByHand(a)
    BY <1>5, <2>0, BecomesJobs
  <2> QED
    BY <2>1 DEF ByHand
<1>9. Automatic(job[Worker])'
  <2>0. Worker \in Job /\ Worker # h /\ Shaped(job[Worker]) /\ Automatic(job[Worker])
    BY MirrorAssumption DEF Typed, JobsTyped, Job
  <2>1. \E a : job'[Worker] = a /\ Automatic(a)
    BY <1>5, <2>0, BecomesJobs
  <2> QED
    BY <2>1 DEF Automatic
<1>10. DOMAIN job' = Job /\ job' = [j \in Job |-> job'[j]]
  BY DEF Becomes
<1> QED
  BY <1>1, <1>2, <1>7, <1>8, <1>9, <1>10 DEF Typed, JobsTyped

(* A branch is deleted.                                                    *)
LEMMA DeleteTyped ==
  ASSUME Typed, NEW h \in Handler, NEW r \in Repo, NEW ref,
         NEW kind \in {"write", "silent"}, Delete(h, r, ref, kind)
  PROVE  Typed'
<1> USE DEF store, counts
<1>1. PICK content, next :
        /\ content = {c \in local[r] : c[1] # ref} /\ next = Changed(r, kind, TRUE)
        /\ Becomes(r, content, h, next)
  BY DEF Delete
<1>2. content \in Content
  BY <1>1 DEF Typed, ReposTyped, Content
<1>3. Shaped(next) /\ ByHand(next) /\ next.knows = {}
  BY <1>1, ChangedShape
<1>4. RestTyped' /\ UNCHANGED <<remote, updates, dests, vault, touched>>
  BY DEF Typed, RestTyped, Delete
<1> QED
  BY <1>1, <1>2, <1>3, <1>4, BecomesTyped

(* How a pull can end.                                                     *)
LEMMA FetchEndsTo ==
  ASSUME Typed, NEW h \in Handler, FetchEnds(h)
  PROVE  \E content, next :
           /\ content \in Content
           /\ Becomes(job[h].repo, content, h, next)
           /\ Shaped(next) /\ ByHand(next) /\ next.knows = {} /\ next.pc \in {"idle", "mark"}
<1>1. /\ Shaped(job[h]) /\ ByHand(job[h]) /\ job[h].pc = "fetched" /\ Target(job[h])
      /\ job[h].repo \in Repo /\ job[h].carries \in Content
  BY DEF Typed, JobsTyped, Job, FetchEnds, Shaped, Aimed, Fetching, JobType
<1>2. PICK refs, next, content :
        /\ next = [job[h] EXCEPT !.pc = "mark", !.knows = {}] \/ next = Idle
        /\ content = Forced(local[job[h].repo], job[h].carries, refs)
        /\ Becomes(job[h].repo, content, h, next)
  BY DEF FetchEnds
<1>3. content \in Content
  <2>1. local[job[h].repo] \in Content
    BY <1>1 DEF Typed, ReposTyped
  <2>2. content \subseteq local[job[h].repo] \cup job[h].carries
    BY <1>2, ForceBounds
  <2> QED
    BY <1>1, <2>1, <2>2 DEF Content
<1>4. CASE next = [job[h] EXCEPT !.pc = "mark", !.knows = {}]
  <2>1. /\ next \in JobType /\ next.pc = "mark" /\ next.knows = {} /\ next.kind = job[h].kind
        /\ next.repo = job[h].repo /\ next.dest = job[h].dest /\ next.url = job[h].url
    BY <1>1, <1>4 DEF Shaped, JobType, PC, Content
  <2>2. Shaped(next) /\ ByHand(next)
    BY <1>1, <2>1 DEF Shaped, ByHand, Aimed, Target, Fetching, Passing
  <2> QED
    BY <1>2, <1>3, <2>1, <2>2
<1>5. CASE next = Idle
  <2>1. next.pc = "idle" /\ next.knows = {}
    BY <1>5 DEF Idle
  <2> QED
    BY <1>2, <1>3, <1>5, <2>1, IdleShape
<1> QED
  BY <1>2, <1>4, <1>5

(* A pull ends.                                                            *)
LEMMA FetchEndsTyped ==
  ASSUME Typed, NEW h \in Handler, FetchEnds(h)
  PROVE  Typed'
<1> USE DEF store, counts
<1>1. job[h].repo \in Repo
  BY DEF Typed, JobsTyped, Job, FetchEnds, Shaped
<1>2. RestTyped' /\ UNCHANGED <<remote, updates, dests, vault, touched>>
  BY <1>1 DEF Typed, RestTyped, FetchEnds
<1> QED
  BY <1>1, <1>2, FetchEndsTo, BecomesTyped

(* What admins do to the store, the vault and the remote.                  *)
LEMMA AdminTyped ==
  ASSUME Typed, NEW d \in Dest, NEW url \in Url, NEW enabled \in BOOLEAN,
         \/ Create(d, url, enabled) \/ Patch(d, url, enabled)
         \/ Remove(d) \/ DropCredential(d)
  PROVE  Typed'
<1> USE DEF store, repos, counts, ghosts
<1>1. UNCHANGED <<local, remote, updates, announced, job>>
  BY DEF Create, Patch, Remove, DropCredential
<1>2. ReposTyped'
  BY <1>1 DEF Typed, ReposTyped, Content
<1>3. RestTyped'
  <2>1. /\ UNCHANGED <<queue, crashes, lost, crossed, pulled>>
        /\ admin' = admin \/ admin' = admin + 1
    BY DEF Act, Create, Patch, Remove, DropCredential
  <2> QED
    BY <2>1 DEF Typed, RestTyped
<1>4. StoreTyped'
  <2>1. CASE Create(d, url, enabled)
    BY <2>1 DEF Typed, StoreTyped, Destination, Create
  <2>2. CASE Patch(d, url, enabled)
    BY <2>2 DEF Typed, StoreTyped, Destination, Patch, Act, Live
  <2>3. CASE Remove(d)
    BY <2>3 DEF Typed, StoreTyped, Destination, Remove, Act, Live
  <2>4. CASE DropCredential(d)
    BY <2>4 DEF Typed, StoreTyped, DropCredential, Act
  <2> QED
    BY <2>1, <2>2, <2>3, <2>4
<1>5. Grows
  <2>1. touched \subseteq touched'
    BY DEF Act, Create, Patch, Remove, DropCredential
  <2>2. ASSUME NEW e \in Dest, dests[e].life # "new"
        PROVE  /\ dests'[e].life # "new"
               /\ e \in touched' \/ dests'[e].url = dests[e].url
    <3>1. dests[e] \in Destination /\ dests \in [Dest -> Destination]
      BY DEF Typed, StoreTyped
    <3>2. CASE Create(d, url, enabled)
      BY <2>2, <3>1, <3>2 DEF Create
    <3>3. CASE Patch(d, url, enabled)
      BY <2>2, <3>1, <3>3 DEF Patch, Destination
    <3>4. CASE Remove(d)
      BY <2>2, <3>1, <3>4 DEF Remove, Destination
    <3>5. CASE DropCredential(d)
      BY <2>2, <3>5 DEF DropCredential
    <3> QED
      BY <3>2, <3>3, <3>4, <3>5
  <2>3. updates \in Nat /\ updates' = updates /\ local' = local
    BY <1>1 DEF Typed, ReposTyped
  <2> QED
    BY <2>1, <2>2, <2>3 DEF Grows
<1> QED
  BY <1>1, <1>2, <1>3, <1>4, <1>5, JobsLast DEF Typed

(* Somebody commits at the remote.                                         *)
LEMMA OutsideTyped ==
  ASSUME Typed, NEW d \in Dest, NEW ref \in Ref, Outside(d, ref)
  PROVE  Typed'
<1> USE DEF store, counts, ghosts
<1>1. StoreTyped' /\ RestTyped'
  BY DEF Typed, StoreTyped, RestTyped, Outside, Act
<1>2. updates \in Nat /\ updates' = updates + 1
  BY DEF Typed, ReposTyped, Outside
<1>3. Content \subseteq Content' /\ updates + 1 \in 1..updates'
  BY <1>2, ContentGrows
<1>4. Grows
  BY <1>2 DEF Grows, Outside
<1>5. ReposTyped'
  <2>1. dests[d].url \in Url
    BY DEF Typed, StoreTyped, Outside, Act, Live
  <2>2. remote[d][dests[d].url] \cup {<<ref, updates + 1>>} \in Content'
    <3>1. <<ref, updates + 1>> \in Ref \X (1..updates')
      BY <1>3
    <3> QED
      BY <1>3, <2>1, <3>1 DEF Typed, ReposTyped, Content, Ref
  <2>3. remote' \in [Dest -> [Url -> Content']]
    BY <1>3, <2>1, <2>2 DEF Typed, ReposTyped, Outside
  <2> QED
    BY <1>2, <1>3, <2>3 DEF Typed, ReposTyped, Outside
<1>6. JobsTyped'
  BY <1>4, JobsLast DEF Typed, Outside
<1> QED
  BY <1>1, <1>5, <1>6 DEF Typed

(* A panic of the worker.                                                  *)
LEMMA PanicTyped ==
  ASSUME Typed, Panic
  PROVE  Typed'
<1> USE DEF store, repos
<1>1. PICK r : r = job[Worker].repo /\ lost' = [lost EXCEPT ![r] = lost[r] \/ ~ Queued(r)]
  BY DEF Panic
<1>2. RestTyped'
  <2>1. lost' \in [Repo -> BOOLEAN]
    BY <1>1 DEF Typed, RestTyped
  <2> QED
    BY <2>1 DEF Typed, RestTyped, Panic
<1>3. ReposTyped' /\ UNCHANGED <<local, updates, dests, vault, touched>>
  BY DEF Typed, ReposTyped, Panic, Content
<1>4. PICK b : b = Idle /\ job' = [job EXCEPT ![Worker] = b]
  BY DEF Panic
<1> QED
  BY <1>2, <1>3, <1>4, IdleShape, JobStep, MirrorAssumption DEF Job

(* A restart.                                                              *)
LEMMA CrashTyped ==
  ASSUME Typed, Crash
  PROVE  Typed'
<1> USE DEF store, repos
<1>1. StoreTyped'
  BY DEF Typed, StoreTyped, Crash
<1>2. ReposTyped'
  BY DEF Typed, ReposTyped, Crash, Content
<1>3. RestTyped'
  <2>1. <<>> \in Seq(Repo) /\ Len(<<>>) = 0
    OBVIOUS
  <2>2. lost' \in [Repo -> BOOLEAN]
    BY DEF Crash
  <2>3. queue' \in Seq(Repo) /\ Len(queue') <= QueueSize
    <3>1. queue' = <<>>
      BY DEF Crash
    <3>2. Len(queue') = 0
      BY <3>1, <2>1
    <3> QED
      BY <2>1, <3>1, <3>2, MirrorAssumption
  <2>4. /\ crashes' \in Nat /\ admin' \in Nat
        /\ crossed' \subseteq Dest /\ pulled' \subseteq Repo
    BY DEF Typed, RestTyped, Crash
  <2> QED
    BY <2>2, <2>3, <2>4 DEF RestTyped
<1>4. Grows
  BY RowsGrow DEF Typed, Crash
<1>5. JobsTyped'
  <2>1. PICK b : b = Idle
    OBVIOUS
  <2>2. Shaped(b)' /\ ByHand(b)' /\ Automatic(b)'
    BY <1>4, <2>1, IdleShape, ShapeLasts, ByHandLasts, AutomaticLasts DEF Shaped
  <2>3. job' = [j \in Job |-> b]
    BY <2>1 DEF Crash
  <2> QED
    BY <2>2, <2>3 DEF JobsTyped, Job
<1> QED
  BY <1>1, <1>2, <1>3, <1>5 DEF Typed

(* Every step keeps it.                                                    *)
LEMMA NextTyped ==
  ASSUME Typed, [Next]_vars
  PROVE  Typed'
<1>1. CASE UNCHANGED vars
  <2>1. StoreTyped'
    BY <1>1 DEF vars, Typed, StoreTyped
  <2>2. ReposTyped'
    BY <1>1 DEF vars, Typed, ReposTyped, Content
  <2>3. RestTyped'
    BY <1>1 DEF vars, Typed, RestTyped
  <2>4. Grows
    BY <1>1, RowsGrow DEF vars, Typed
  <2>5. JobsTyped'
    BY <1>1, <2>4, JobsLast DEF vars, Typed
  <2> QED
    BY <2>1, <2>2, <2>3, <2>5 DEF Typed
<1>2. ASSUME NEW h \in Handler, NEW r \in Repo, NEW ref \in Branch,
             \/ \E fixed \in BOOLEAN : Write(h, r, ref, "write", fixed)
             \/ Write(h, r, ref, "silent", TRUE)
             \/ \E kind \in {"write", "silent"} : Delete(h, r, ref, kind)
      PROVE  Typed'
  BY <1>2, WriteTyped, DeleteTyped
<1>3. ASSUME NEW h \in Handler, Handling(h)
      PROVE  Typed'
  BY <1>3, AuditTyped, InvalidateTyped, EnqueueTyped, AutofixTyped, PushReadsTyped,
     PushEndsTyped, RecordSyncTyped, MarkTyped, FetchReadsTyped, FetchEndsTyped,
     LsRemoteTyped, CompareTyped, RecordTyped
  DEF Handling, Pushing, Job
<1>4. CASE Working
  BY <1>4, TakeTyped, NextDestTyped, PushReadsTyped, PushEndsTyped, RecordSyncTyped, MarkTyped
  DEF Working, Pushing, Job
<1>5. ASSUME NEW d \in Dest, NEW url \in Url, NEW enabled \in BOOLEAN,
             Create(d, url, enabled) \/ Patch(d, url, enabled)
      PROVE  Typed'
  BY <1>5, AdminTyped
<1>7. ASSUME NEW d \in Dest, NEW ref \in Branch, Outside(d, ref)
      PROVE  Typed'
  BY <1>7, OutsideTyped DEF Ref
<1>6. ASSUME NEW d \in Dest, Remove(d) \/ DropCredential(d)
      PROVE  Typed'
  <2>1. dests[d].url \in Url
    BY <1>6 DEF Remove, DropCredential, Act, Live, Typed, StoreTyped
  <2> QED
    BY <1>6, <2>1, AdminTyped
<1> QED
  BY <1>1, <1>2, <1>3, <1>4, <1>5, <1>6, <1>7, AskTyped, PanicTyped, CrashTyped DEF Next

(* The variables keep their types, and the channel never holds more than   *)
(* it can.                                                                 *)
THEOREM TypeCorrect == Spec => []TypeOK
<1>1. Spec => []Typed
  BY InitTyped, NextTyped, PTL DEF Spec
<1> QED
  BY <1>1, TypedTypes, PTL

-----------------------------------------------------------------------------
(* Delivery.  Unless the announcement is queued, about to be, or dropped,  *)
(* and unless the worker has yet to read the refs for a destination, the   *)
(* destination has what was announced, or a push that brings it is under   *)
(* way, or one has failed and is about to take the ok away.  A push that   *)
(* carries less was overtaken by an announcement that is on its way to the *)
(* channel, or to the worker, who will then cross it or come after it.     *)

Automated(d) == d \in Live \ Disturbed /\ dests[d].enabled
Holds(d) == announced[RepoOf[d]] \subseteq At(d)
Due(r) == Queued(r) \/ \E h \in Handler : job[h].repo = r /\ job[h].pc = "enqueue"

Awaited(d) ==
  \/ \E t \in job[Worker].todo : t.dest = d
  \/ job[Worker].pc = "push" /\ job[Worker].dest = d

Underway(d) ==
  \E j \in Job : /\ job[j].dest = d
                 /\ job[j].pc = "send" \/ (job[j].pc = "sent" /\ job[j].verdict = "error")

\* The job b, if it pushes to d, brings or has brought what was announced.
Brings(b, d) ==
  b.dest = d =>
    /\ b.pc = "send" => announced[RepoOf[d]] \subseteq b.carries
    /\ b.pc = "sent" /\ b.verdict = "ok" => Holds(d)

Kept(d) ==
  /\ dests[d].sync = "ok" => Holds(d) \/ Underway(d)
  /\ \A j \in Job : Brings(job[j], d)

OnTheWay ==
  \A d \in Dest : Automated(d) =>
    lost[RepoOf[d]] \/ Due(RepoOf[d]) \/ Awaited(d) \/ Kept(d)

(* With nothing on its way any more, everything is delivered.              *)
LEMMA OnTheWayDelivers ==
  ASSUME Typed, OnTheWay
  PROVE  Delivered
<1>1. SUFFICES ASSUME NEW d \in Dest, Quiet(RepoOf[d]), Behind(d)
               PROVE  FALSE
  BY DEF Delivered
<1>2. Automated(d) /\ ~ lost[RepoOf[d]] /\ ~ Holds(d) /\ dests[d].sync = "ok"
  BY <1>1 DEF Behind, Automated, Holds
<1>3. ~ Due(RepoOf[d])
  BY <1>1 DEF Quiet, Due, Job
<1>4. CASE Awaited(d)
  <2>1. Shaped(job[Worker]) /\ Automatic(job[Worker])
    BY DEF Typed, JobsTyped, Job
  <2>2. job[Worker].repo = RepoOf[d]
    BY <1>4, <2>1 DEF Awaited, Shaped, Aimed, Target, Automatic, Passing
  <2> QED
    BY <1>1, <2>2 DEF Quiet, Job
<1>5. CASE Underway(d)
  <2>1. PICK j \in Job : job[j].dest = d /\ job[j].pc \in {"send", "sent"}
    BY <1>5 DEF Underway
  <2>2. job[j].repo = RepoOf[d]
    BY <2>1 DEF Typed, JobsTyped, Shaped, Aimed, Target, Passing
  <2> QED
    BY <1>1, <2>2 DEF Quiet
<1> QED
  BY <1>2, <1>3, <1>4, <1>5 DEF OnTheWay, Kept

(* A goroutine at rest, in short.                                          *)
LEMMA AtRest == Idle.pc = "idle" /\ Idle.todo = {} /\ Idle.knows = {}
BY DEF Idle

(* A push that is over.                                                    *)
LEMMA DoneRests ==
  ASSUME NEW j
  PROVE  Done(j).pc \in {"next", "idle"} /\ (j = Worker => Done(j).todo = job[j].todo)
<1>1. CASE j = Worker
  BY <1>1 DEF Done, Idle
<1>2. CASE j # Worker
  BY <1>2, AtRest DEF Done
<1> QED
  BY <1>1, <1>2

\* A step of a job that is no part of a push under way.
Aloof(b, c) ==
  \/ c.dest = b.dest /\ c.pc = b.pc /\ c.verdict = b.verdict /\ c.carries = b.carries
  \/ b.pc \notin {"send", "sent"} /\ c.pc \notin {"send", "sent"}

(* What such steps leave of a destination.                                 *)
LEMMA KeptStays ==
  ASSUME NEW d \in Dest, Kept(d), dests'[d].sync = dests[d].sync,
         announced'[RepoOf[d]] \subseteq announced[RepoOf[d]], At(d) \subseteq At(d)',
         \A j \in Job : Aloof(job[j], job'[j])
  PROVE  Kept(d)'
<1>1. Holds(d) => Holds(d)'
  BY DEF Holds
<1>2. Underway(d) => Underway(d)'
  BY DEF Underway, Aloof
<1>3. ASSUME NEW j \in Job
      PROVE  Brings(job[j], d)'
  <2>1. Brings(job[j], d) /\ Aloof(job[j], job'[j])
    BY DEF Kept
  <2> QED
    BY <1>1, <2>1 DEF Brings, Aloof
<1> QED
  BY <1>1, <1>2, <1>3 DEF Kept

(* A step that takes nothing of this away from a destination.              *)
Calm ==
  /\ UNCHANGED <<queue, lost>>
  /\ \A j \in Job : Aloof(job[j], job'[j])
  /\ \A h \in Handler : job[h].pc = "enqueue" =>
       job'[h].pc = "enqueue" /\ job'[h].repo = job[h].repo
  /\ \A r \in Repo : announced'[r] \subseteq announced[r]
  /\ \A d \in Dest : Automated(d)' =>
       /\ Automated(d) /\ (Awaited(d) => Awaited(d)')
       /\ dests'[d].sync = dests[d].sync /\ At(d) \subseteq At(d)'

(* A calm step leaves everything on its way.                               *)
LEMMA CalmKeeps ==
  ASSUME OnTheWay, Calm
  PROVE  OnTheWay'
<1>1. SUFFICES ASSUME NEW d \in Dest, Automated(d)', ~ lost'[RepoOf[d]], ~ Due(RepoOf[d])',
                      ~ Awaited(d)'
               PROVE  Kept(d)'
  BY DEF OnTheWay
<1>2. Automated(d) /\ ~ lost[RepoOf[d]] /\ ~ Awaited(d)
  BY <1>1 DEF Calm
<1>3. ~ Due(RepoOf[d])
  BY <1>1 DEF Calm, Due, Queued
<1>4. Kept(d)
  BY <1>2, <1>3 DEF OnTheWay
<1>5. /\ dests'[d].sync = dests[d].sync /\ At(d) \subseteq At(d)'
      /\ announced'[RepoOf[d]] \subseteq announced[RepoOf[d]]
      /\ \A j \in Job : Aloof(job[j], job'[j])
  BY <1>1, MirrorAssumption DEF Calm
<1> QED
  BY <1>4, <1>5, KeptStays

(* A step of a goroutine that is no part of a push under way.              *)
LEMMA JobCalm ==
  ASSUME Typed, NEW j \in Job, NEW b, job' = [job EXCEPT ![j] = b],
         job[j].pc \notin {"enqueue", "send", "sent"}, b.pc \notin {"send", "sent"},
         UNCHANGED <<queue, lost, announced, remote, touched, crossed>>,
         \A d \in Dest : /\ dests'[d].life = dests[d].life /\ dests'[d].url = dests[d].url
                         /\ dests'[d].enabled = dests[d].enabled
                         /\ dests'[d].sync = dests[d].sync
                         /\ Automated(d) /\ Awaited(d) => Awaited(d)'
  PROVE  Calm
<1>1. \A k \in Job : k # j => job'[k] = job[k]
  BY DEF Typed, JobsTyped
<1>2. \A k \in Job : Aloof(job[k], job'[k])
  BY <1>1 DEF Aloof, Typed, JobsTyped
<1>3. \A k \in Handler : job[k].pc = "enqueue" => job'[k] = job[k]
  BY <1>1 DEF Job
<1>4. ASSUME NEW d \in Dest, Automated(d)'
      PROVE  Automated(d) /\ At(d) \subseteq At(d)'
  BY <1>4 DEF Automated, Live, At, Disturbed
<1> QED
  BY <1>2, <1>3, <1>4 DEF Calm

(* A handler is not the one who is awaited.                                *)
LEMMA HandlerCalm ==
  ASSUME Typed, NEW h \in Handler, NEW b, job' = [job EXCEPT ![h] = b],
         job[h].pc \notin {"enqueue", "send", "sent"}, b.pc \notin {"send", "sent"},
         UNCHANGED <<queue, lost, announced, remote, touched, crossed>>,
         \A d \in Dest : /\ dests'[d].life = dests[d].life /\ dests'[d].url = dests[d].url
                         /\ dests'[d].enabled = dests[d].enabled
                         /\ dests'[d].sync = dests[d].sync
  PROVE  Calm
<1>1. job'[Worker] = job[Worker]
  BY MirrorAssumption DEF Typed, JobsTyped, Job
<1>2. \A d \in Dest : Awaited(d) => Awaited(d)'
  BY <1>1 DEF Awaited
<1> QED
  BY <1>2, JobCalm DEF Job

(* A badge that is set changes nothing else of the store.                  *)
LEMMA StatusRows ==
  ASSUME Typed, NEW d \in Dest, NEW status,
         SetStatus(d, status) \/ UNCHANGED dests
  PROVE  \A e \in Dest : /\ dests'[e].life = dests[e].life /\ dests'[e].url = dests[e].url
                         /\ dests'[e].enabled = dests[e].enabled
                         /\ dests'[e].sync = dests[e].sync
<1>1. CASE dests' = [dests EXCEPT ![d].status = status]
  BY <1>1 DEF Typed, StoreTyped, Destination
<1> QED
  BY <1>1 DEF SetStatus

(* Nor does the outcome of a push.                                         *)
LEMMA SyncRows ==
  ASSUME Typed, NEW d \in Dest, NEW sync, SetSync(d, sync)
  PROVE  /\ \A e \in Dest : /\ dests'[e].life = dests[e].life /\ dests'[e].url = dests[e].url
                            /\ dests'[e].enabled = dests[e].enabled
                            /\ e # d => dests'[e].sync = dests[e].sync
         /\ d \in Live => dests'[d].sync = sync
<1>1. CASE dests' = [dests EXCEPT ![d].sync = sync]
  BY <1>1 DEF Typed, StoreTyped, Destination
<1> QED
  BY <1>1 DEF SetSync

(* The steps of a handler are calm, but for those of an announcement and   *)
(* of a push.                                                              *)
LEMMA HandlerStepCalm ==
  ASSUME Typed, NEW h \in Handler,
         Audit(h) \/ Autofix(h) \/ FetchReads(h) \/ LsRemote(h) \/ Compare(h) \/ Record(h)
  PROVE  Calm
<1> USE DEF store, repos, counts, ghosts
<1>0. h \in Job /\ Shaped(job[h]) /\ job[h] \in JobType
  BY DEF Typed, JobsTyped, Shaped, Job
<1>1. CASE Audit(h) \/ Autofix(h)
  <2>1. job[h].pc \in {"audit", "autofix"} /\ job[h].kind \in {"write", "silent", "sync"}
    BY <1>0, <1>1 DEF Audit, Autofix, Shaped
  <2>2. PICK b : /\ job' = [job EXCEPT ![h] = b]
                 /\ \/ b = Idle
                    \/ b = [job[h] EXCEPT !.pc = "invalidate"]
                    \/ b = [job[h] EXCEPT !.pc = "audit", !.fixed = TRUE]
                    \/ b = [job[h] EXCEPT !.pc = "push", !.knows = announced[job[h].repo]]
    <3>1. CASE Audit(h) /\ job[h].kind = "write"
      BY <1>0, <3>1 DEF Audit, Typed, JobsTyped
    <3>2. CASE Audit(h) /\ job[h].kind = "silent"
      BY <1>0, <3>2 DEF Audit, Typed, JobsTyped
    <3>3. CASE Audit(h) /\ job[h].kind = "sync"
      BY <1>0, <3>3 DEF Audit, Typed, JobsTyped
    <3>4. CASE Autofix(h)
      BY <1>0, <3>4 DEF Autofix, Typed, JobsTyped
    <3> QED
      BY <1>1, <2>1, <3>1, <3>2, <3>3, <3>4
  <2>3. b.pc \notin {"send", "sent"}
    BY <1>0, <2>2, AtRest DEF JobType
  <2>4. UNCHANGED <<queue, lost, announced, remote, dests, touched, crossed>>
    BY <1>1 DEF Audit, Autofix
  <2> QED
    BY <2>1, <2>2, <2>3, <2>4, HandlerCalm
<1>2. CASE FetchReads(h) \/ Compare(h)
  <2>1. PICK b : /\ job' = [job EXCEPT ![h] = b]
                 /\ \/ b = Idle
                    \/ b = [job[h] EXCEPT !.pc = "fetched",
                                          !.carries = remote[job[h].dest][job[h].url]]
                    \/ \E verdict : b = [job[h] EXCEPT !.pc = "record", !.verdict = verdict]
    <3>1. CASE FetchReads(h)
      BY <1>0, <3>1 DEF FetchReads, Typed, JobsTyped
    <3>2. CASE Compare(h)
      <4>1. PICK verdict :
              verdict = IF local[job[h].repo] = job[h].carries THEN "in_sync" ELSE "diverged"
        OBVIOUS
      <4>2. \/ job' = [job EXCEPT ![h] = Idle]
            \/ job' = [job EXCEPT ![h] = [job[h] EXCEPT !.pc = "record", !.verdict = verdict]]
        BY <1>0, <3>2, <4>1 DEF Compare, Typed, JobsTyped
      <4> QED
        BY <4>2
    <3> QED
      BY <1>2, <3>1, <3>2
  <2>2. b.pc \notin {"send", "sent"}
    BY <1>0, <2>1, AtRest DEF JobType
  <2>3. /\ UNCHANGED <<queue, lost, announced, remote, dests, touched, crossed>>
        /\ job[h].pc \notin {"enqueue", "send", "sent"}
    BY <1>2 DEF FetchReads, Compare
  <2> QED
    BY <2>1, <2>2, <2>3, HandlerCalm
<1>3. CASE LsRemote(h) \/ Record(h)
  <2>1. PICK b : /\ job' = [job EXCEPT ![h] = b]
                 /\ \/ b = Idle
                    \/ b = [job[h] EXCEPT !.pc = "compare",
                                          !.carries = remote[job[h].dest][job[h].url]]
    BY <1>0, <1>3 DEF LsRemote, Record, Typed, JobsTyped
  <2>2. b.pc \notin {"send", "sent"}
    BY <1>0, <2>1, AtRest DEF JobType
  <2>3. job[h].dest \in Dest
    BY <1>0, <1>3 DEF LsRemote, Record, Comparing, Shaped, Aimed, Target
  <2>4. \/ \E status \in {"error", job[h].verdict} : SetStatus(job[h].dest, status)
        \/ UNCHANGED dests
    BY <1>3 DEF LsRemote, Record
  <2>5. \A e \in Dest : /\ dests'[e].life = dests[e].life /\ dests'[e].url = dests[e].url
                        /\ dests'[e].enabled = dests[e].enabled
                        /\ dests'[e].sync = dests[e].sync
    BY <2>3, <2>4, StatusRows
  <2>6. /\ UNCHANGED <<queue, lost, announced, remote, touched, crossed>>
        /\ job[h].pc \notin {"enqueue", "send", "sent"}
    BY <1>3 DEF LsRemote, Record
  <2> QED
    BY <2>1, <2>2, <2>5, <2>6, HandlerCalm
<1> QED
  BY <1>1, <1>2, <1>3

(* So are the requests that start a job.                                   *)
LEMMA RequestCalm ==
  ASSUME Typed, NEW h \in Handler,
         \/ \E r \in Repo, ref \in Branch, kind \in {"write", "silent"}, fixed \in BOOLEAN :
              Write(h, r, ref, kind, fixed)
         \/ \E d \in Dest : SyncNow(h, d) \/ Pull(h, d) \/ Refresh(h, d)
  PROVE  Calm
<1> USE DEF store, repos, counts, ghosts
<1>1. ASSUME NEW r \in Repo, NEW ref \in Branch, NEW kind \in {"write", "silent"},
             NEW fixed \in BOOLEAN, Write(h, r, ref, kind, fixed)
      PROVE  Calm
  <2>1. PICK b : b = Changed(r, kind, fixed)
    OBVIOUS
  <2>2. job' = [job EXCEPT ![h] = b] /\ b.pc = "audit"
    BY <1>1, <2>1, ChangedShape DEF Write
  <2> QED
    BY <1>1, <2>2, HandlerCalm DEF Write
<1>2. ASSUME NEW d \in Dest, NEW pc \in {"autofix", "fetch", "ls"}, NEW kind,
             Start(h, d, pc, kind)
      PROVE  /\ job[h].pc = "idle"
             /\ \E b : job' = [job EXCEPT ![h] = b] /\ b.pc = pc
  <2>1. PICK b : b = [Idle EXCEPT !.pc = pc, !.kind = kind, !.repo = RepoOf[d], !.dest = d,
                                  !.url = dests[d].url, !.knows = announced[RepoOf[d]]]
    OBVIOUS
  <2>2. b.pc = pc
    BY <2>1 DEF Idle
  <2>3. job' = [job EXCEPT ![h] = b] /\ job[h].pc = "idle"
    BY <1>2, <2>1 DEF Start
  <2> QED
    BY <2>2, <2>3
<1>3. ASSUME NEW d \in Dest, SyncNow(h, d) \/ Pull(h, d)
      PROVE  Calm
  <2>1. PICK b : /\ job' = [job EXCEPT ![h] = b] /\ b.pc \notin {"send", "sent"}
                 /\ job[h].pc = "idle"
    BY <1>2, <1>3 DEF SyncNow, Pull
  <2>2. UNCHANGED <<queue, lost, announced, remote, dests, touched, crossed>>
    BY <1>3 DEF SyncNow, Pull, Act
  <2> QED
    BY <2>1, <2>2, HandlerCalm
<1>4. ASSUME NEW d \in Dest, Refresh(h, d)
      PROVE  Calm
  <2>1. PICK b : /\ job' = [job EXCEPT ![h] = b] /\ b.pc \notin {"send", "sent"}
                 /\ job[h].pc = "idle"
    <3>1. job = [job EXCEPT ![h] = job[h]]
      BY DEF Typed, JobsTyped, Job
    <3> QED
      BY <1>2, <1>4, <3>1 DEF Refresh
  <2>2. SetStatus(d, "error") \/ UNCHANGED dests
    BY <1>4 DEF Refresh
  <2>3. \A e \in Dest : /\ dests'[e].life = dests[e].life /\ dests'[e].url = dests[e].url
                        /\ dests'[e].enabled = dests[e].enabled
                        /\ dests'[e].sync = dests[e].sync
    BY <2>2, StatusRows
  <2>4. UNCHANGED <<queue, lost, announced, remote, touched, crossed>>
    BY <1>4 DEF Refresh, Act
  <2> QED
    BY <2>1, <2>3, <2>4, HandlerCalm
<1> QED
  BY <1>1, <1>3, <1>4

(* What is replaced leaves less announced.                                 *)
LEMMA BecomesCalm ==
  ASSUME Typed, NEW h \in Handler, NEW r, NEW content, NEW next, Becomes(r, content, h, next),
         job[h].pc \notin {"enqueue", "send", "sent"}, next.pc \notin {"send", "sent"},
         UNCHANGED <<queue, lost, dests, touched, crossed, remote>>
  PROVE  Calm
<1>0. h \in Job /\ Worker \in Job /\ Worker # h
  BY MirrorAssumption DEF Job
<1>1. ASSUME NEW j \in Job, j # h
      PROVE  /\ job'[j].todo = job[j].todo /\ job'[j].dest = job[j].dest
             /\ job'[j].pc = job[j].pc /\ job'[j].verdict = job[j].verdict
             /\ job'[j].carries = job[j].carries /\ job'[j].repo = job[j].repo
  <2>1. job[j] \in JobType
    BY DEF Typed, JobsTyped, Shaped
  <2>2. PICK c : c = job'[j] /\ (c = Recalls(job[j], content) \/ c = job[j])
    BY <1>1, BecomesJobs
  <2> QED
    BY <2>1, <2>2, RecallsSame
<1>2. \A j \in Job : Aloof(job[j], job'[j])
  <2>1. job'[h] = next
    BY BecomesJobs
  <2> QED
    BY <1>1, <2>1 DEF Aloof
<1>3. \A s \in Repo : announced'[s] \subseteq announced[s]
  BY DEF Becomes, Typed, ReposTyped
<1>4. \A k \in Handler : job[k].pc = "enqueue" =>
        job'[k].pc = "enqueue" /\ job'[k].repo = job[k].repo
  BY <1>0, <1>1 DEF Job
<1>5. \A d \in Dest : Automated(d)' =>
        Automated(d) /\ dests'[d].sync = dests[d].sync /\ At(d) \subseteq At(d)'
  BY DEF Automated, Live, At, Disturbed
<1>6. \A d \in Dest : Awaited(d) => Awaited(d)'
  BY <1>0, <1>1 DEF Awaited
<1> QED
  BY <1>2, <1>3, <1>4, <1>5, <1>6 DEF Calm

(* That is all a deletion does, and the end of a pull.                     *)
LEMMA DeleteCalm ==
  ASSUME Typed, NEW h \in Handler, NEW r \in Repo, NEW ref,
         NEW kind \in {"write", "silent"}, Delete(h, r, ref, kind)
  PROVE  Calm
<1> USE DEF store, counts
<1>1. PICK content, next : next = Changed(r, kind, TRUE) /\ Becomes(r, content, h, next)
  BY DEF Delete
<1>2. next.pc = "audit"
  BY <1>1, ChangedShape
<1> QED
  BY <1>1, <1>2, BecomesCalm DEF Delete

LEMMA FetchEndsCalm ==
  ASSUME Typed, NEW h \in Handler, FetchEnds(h)
  PROVE  Calm
<1> USE DEF store, counts
<1>1. PICK content, next : Becomes(job[h].repo, content, h, next) /\ next.pc \in {"idle", "mark"}
  BY FetchEndsTo
<1>2. job[h].pc = "fetched" /\ UNCHANGED <<queue, lost, dests, touched, crossed, remote>>
  BY DEF FetchEnds
<1> QED
  BY <1>1, <1>2, BecomesCalm

(* Admins, and commits made at a remote.                                   *)
LEMMA AdminCalm ==
  ASSUME Typed, NEW d \in Dest,
         \/ \E url \in Url, enabled \in BOOLEAN : Patch(d, url, enabled)
         \/ Remove(d) \/ DropCredential(d) \/ \E ref \in Branch : Outside(d, ref)
  PROVE  Calm
<1> USE DEF store, repos, counts, ghosts
<1>1. UNCHANGED <<queue, lost, job, announced, crossed>> /\ touched \subseteq touched'
  BY DEF Patch, Remove, DropCredential, Outside, Act
<1>2. ASSUME NEW e \in Dest, Automated(e)'
      PROVE  Automated(e) /\ dests'[e].sync = dests[e].sync /\ At(e) \subseteq At(e)'
  <2>1. dests[e] \in Destination /\ dests \in [Dest -> Destination]
    BY DEF Typed, StoreTyped
  <2>2. ASSUME NEW url \in Url, NEW enabled \in BOOLEAN, Patch(d, url, enabled)
        PROVE  dests'[e] = dests[e] /\ remote' = remote
    BY <1>2, <2>1, <2>2 DEF Patch, Automated, Disturbed
  <2>3. CASE Remove(d)
    <3>1. e # d
      BY <1>2, <2>1, <2>3 DEF Remove, Automated, Live, Destination
    <3> QED
      BY <1>1, <1>2, <2>1, <2>3, <3>1 DEF Remove, Automated, Live, At, Disturbed
  <2>4. CASE DropCredential(d)
    BY <1>1, <1>2, <2>4 DEF DropCredential, Automated, Live, At, Disturbed
  <2>5. ASSUME NEW ref \in Branch, Outside(d, ref)
        PROVE  Automated(e) /\ dests'[e].sync = dests[e].sync /\ At(e) \subseteq At(e)'
    <3>1. dests' = dests /\ touched' = touched
      BY <2>5 DEF Outside
    <3>2. dests[e].url \in Url /\ dests[d].url \in Url
      BY <1>2, <2>5, <3>1 DEF Automated, Live, Typed, StoreTyped, Outside, Act
    <3>3. At(e) \subseteq At(e)'
      BY <2>5, <3>1, <3>2 DEF Outside, At, Typed, ReposTyped
    <3> QED
      BY <1>1, <1>2, <3>1, <3>3 DEF Automated, Live, Disturbed
  <2> QED
    BY <1>1, <1>2, <2>2, <2>3, <2>4, <2>5 DEF Automated, Live, At, Disturbed
<1> QED
  BY <1>1, <1>2 DEF Calm, Aloof, Awaited

(* A new destination was not pushed to.                                    *)
LEMMA CreateOnTheWay ==
  ASSUME Typed, OnTheWay, NEW d \in Dest, NEW url \in Url, NEW enabled \in BOOLEAN,
         Create(d, url, enabled)
  PROVE  OnTheWay'
<1> USE DEF repos, counts, ghosts
<1>1. /\ dests[d].life = "new"
      /\ UNCHANGED <<queue, lost, job, announced, remote, touched, crossed>>
  BY DEF Create
<1>2. dests'[d].sync = "" /\ \A e \in Dest : e # d => dests'[e] = dests[e]
  BY DEF Create, Typed, StoreTyped
<1>3. SUFFICES ASSUME NEW e \in Dest, Automated(e)', ~ lost'[RepoOf[e]], ~ Due(RepoOf[e])',
                      ~ Awaited(e)'
               PROVE  Kept(e)'
  BY DEF OnTheWay
<1>4. CASE e = d
  <2>1. ASSUME NEW j \in Job, job[j].pc \in {"send", "sent"} PROVE job[j].dest # d
    BY <1>1, <2>1 DEF Typed, JobsTyped, Shaped, Aimed, Target, Passing
  <2> QED
    BY <1>1, <1>2, <1>4, <2>1 DEF Kept, Brings
<1>5. CASE e # d
  <2>1. /\ Automated(e) /\ ~ lost[RepoOf[e]] /\ ~ Due(RepoOf[e]) /\ ~ Awaited(e)
        /\ At(e)' = At(e)
    BY <1>1, <1>2, <1>3, <1>5 DEF Automated, Live, Due, Queued, At, Awaited, Disturbed
  <2>2. Kept(e)
    BY <2>1 DEF OnTheWay
  <2> QED
    BY <1>1, <1>2, <1>5, <2>1, <2>2, KeptStays DEF Aloof
<1> QED
  BY <1>4, <1>5

(* An announcement is due from its first step on.                          *)
LEMMA InvalidateOnTheWay ==
  ASSUME Typed, OnTheWay, NEW h \in Handler, Invalidate(h)
  PROVE  OnTheWay'
<1> USE DEF repos, counts, ghosts
<1> DEFINE r == job[h].repo
<1>1. /\ UNCHANGED <<queue, lost, remote, touched, crossed>> /\ job[h].pc = "invalidate"
      /\ \A s \in Repo : s # r => announced'[s] = announced[s]
  BY DEF Invalidate, Typed, ReposTyped
<1>2. /\ \A j \in Job : j # h => job'[j] = job[j]
      /\ job'[h].pc = "enqueue" /\ job'[h].repo = r
  <2>1. h \in Job /\ job[h] \in JobType
    BY DEF Job, Typed, JobsTyped, Shaped
  <2>2. job' = [job EXCEPT ![h] = [job[h] EXCEPT !.pc = "enqueue"]]
    BY <2>1 DEF Invalidate, Typed, JobsTyped
  <2> QED
    BY <2>1, <2>2 DEF Typed, JobsTyped, JobType
<1>3. \A e \in Dest : /\ dests'[e].life = dests[e].life /\ dests'[e].url = dests[e].url
                      /\ dests'[e].enabled = dests[e].enabled
                      /\ dests'[e].sync = dests[e].sync
  <2>1. ASSUME NEW e \in Dest
        PROVE  /\ dests'[e].life = dests[e].life /\ dests'[e].url = dests[e].url
               /\ dests'[e].enabled = dests[e].enabled
               /\ dests'[e].sync = dests[e].sync
    <3>1. dests'[e] = dests[e] \/ dests'[e] = [dests[e] EXCEPT !.status = ""]
      BY DEF Invalidate
    <3>2. dests[e] \in Destination
      BY DEF Typed, StoreTyped
    <3> QED
      BY <3>1, <3>2 DEF Destination
  <2> QED
    BY <2>1
<1>4. SUFFICES ASSUME NEW d \in Dest, Automated(d)', ~ lost'[RepoOf[d]], ~ Due(RepoOf[d])',
                      ~ Awaited(d)'
               PROVE  Kept(d)'
  BY DEF OnTheWay
<1>5. RepoOf[d] # r /\ RepoOf[d] \in Repo
  BY <1>2, <1>4, MirrorAssumption DEF Due
<1>6. Automated(d) /\ ~ lost[RepoOf[d]] /\ At(d)' = At(d)
  BY <1>1, <1>3, <1>4 DEF Automated, Live, At, Disturbed
<1>7. ~ Due(RepoOf[d])
  BY <1>1, <1>2, <1>4 DEF Due, Queued, Job
<1>8. ~ Awaited(d)
  BY <1>2, <1>4, MirrorAssumption DEF Awaited, Job
<1>9. Kept(d)
  BY <1>6, <1>7, <1>8 DEF OnTheWay
<1>10. \A j \in Job : Aloof(job[j], job'[j])
  BY <1>1, <1>2 DEF Aloof
<1> HIDE DEF r
<1> QED
  BY <1>1, <1>3, <1>5, <1>6, <1>9, <1>10, KeptStays

(* An event that is dropped is lost, unless the repository is queued.      *)
LEMMA EnqueueOnTheWay ==
  ASSUME Typed, OnTheWay, NEW h \in Handler, Enqueue(h)
  PROVE  OnTheWay'
<1> USE DEF store, repos, counts
<1>0. PICK r : r = job[h].repo
  OBVIOUS
<1>1. /\ UNCHANGED <<dests, announced, remote, touched, crossed>> /\ job[h].pc = "enqueue"
      /\ queue \in Seq(Repo) /\ Len(queue) \in Nat /\ r \in Repo
  <2>1. UNCHANGED <<dests, announced, remote, touched, crossed>> /\ job[h].pc = "enqueue"
    BY DEF Enqueue, EnqueueWith
  <2>2. queue \in Seq(Repo)
    BY DEF Typed, RestTyped
  <2>3. r \in Repo
    BY <1>0, <2>1 DEF Typed, JobsTyped, Shaped, Job
  <2> QED
    BY <2>1, <2>2, <2>3
<1>2. /\ \A j \in Job : j # h => job'[j] = job[j]
      /\ job'[h].pc \in {"idle", "autofix"}
  <2>1. h \in Job /\ job[h] \in JobType
    BY DEF Typed, JobsTyped, Shaped, Job
  <2>2. PICK b : /\ b = IF job[h].fixed THEN Idle ELSE [job[h] EXCEPT !.pc = "autofix"]
                 /\ job' = [job EXCEPT ![h] = b]
    BY <2>1 DEF Enqueue, EnqueueWith, Typed, JobsTyped
  <2>3. b.pc \in {"idle", "autofix"}
    BY <2>1, <2>2 DEF JobType, Idle
  <2> QED
    BY <2>1, <2>2, <2>3 DEF Typed, JobsTyped
<1>3. lost'[r] \/ Queued(r)'
  <2>1. CASE Len(queue) < QueueSize
    <3>1. queue' = Append(queue, r)
      BY <1>0, <2>1 DEF Enqueue, EnqueueWith
    <3>2. Len(queue') = Len(queue) + 1 /\ queue'[Len(queue) + 1] = r
      BY <1>1, <3>1
    <3>3. DOMAIN queue' = 1..Len(queue')
      BY <1>1, <3>1
    <3> QED
      BY <1>1, <3>2, <3>3 DEF Queued
  <2>2. CASE ~ Len(queue) < QueueSize
    <3>1. /\ queue' = queue
          /\ lost' = [lost EXCEPT ![r] = @ \/ (Len(queue) >= QueueSize /\ ~ Queued(r))]
      BY <1>0, <2>2 DEF Enqueue, EnqueueWith
    <3>2. Len(queue) >= QueueSize
      BY <1>1, <2>2, MirrorAssumption
    <3>3. lost'[r] = (lost[r] \/ (Len(queue) >= QueueSize /\ ~ Queued(r)))
      BY <1>1, <3>1 DEF Typed, RestTyped
    <3> QED
      BY <3>1, <3>2, <3>3 DEF Queued
  <2> QED
    BY <2>1, <2>2
<1>4. ASSUME NEW s \in Repo, s # r
      PROVE  lost'[s] = lost[s] /\ (Queued(s) => Queued(s)')
  <2>1. lost'[s] = lost[s]
    BY <1>0, <1>4 DEF Enqueue, EnqueueWith, Typed, RestTyped
  <2>2. queue' = queue \/ queue' = Append(queue, r)
    BY <1>0 DEF Enqueue, EnqueueWith
  <2>3. \A i \in DOMAIN queue : i \in DOMAIN queue' /\ queue'[i] = queue[i]
    <3>1. CASE queue' = Append(queue, r)
      <4>1. Len(queue') = Len(queue) + 1 /\ \A i \in 1..Len(queue) : queue'[i] = queue[i]
        BY <1>1, <3>1
      <4>2. DOMAIN queue' = 1..Len(queue') /\ DOMAIN queue = 1..Len(queue)
        BY <1>1, <3>1
      <4> QED
        BY <1>1, <4>1, <4>2
    <3> QED
      BY <2>2, <3>1
  <2> QED
    BY <2>1, <2>3 DEF Queued
<1>5. SUFFICES ASSUME NEW d \in Dest, Automated(d)', ~ lost'[RepoOf[d]], ~ Due(RepoOf[d])',
                      ~ Awaited(d)'
               PROVE  Kept(d)'
  BY DEF OnTheWay
<1>6. RepoOf[d] # r /\ RepoOf[d] \in Repo
  BY <1>3, <1>5, MirrorAssumption DEF Due
<1>7. Automated(d) /\ ~ lost[RepoOf[d]] /\ At(d)' = At(d)
  BY <1>1, <1>4, <1>5, <1>6 DEF Automated, Live, Disturbed, At
<1>8. ~ Due(RepoOf[d])
  BY <1>0, <1>2, <1>4, <1>5, <1>6 DEF Due, Job
<1>9. ~ Awaited(d)
  BY <1>2, <1>5, MirrorAssumption DEF Awaited, Job
<1>10. Kept(d)
  BY <1>7, <1>8, <1>9 DEF OnTheWay
<1>11. \A j \in Job : Aloof(job[j], job'[j])
  BY <1>1, <1>2 DEF Aloof
<1> QED
  BY <1>1, <1>7, <1>10, <1>11, KeptStays

(* The worker takes a repository and every automatic destination with it.  *)
LEMMA TakeOnTheWay ==
  ASSUME Typed, OnTheWay, Take
  PROVE  OnTheWay'
<1> USE DEF store, repos, counts, ghosts
<1> DEFINE r == Head(queue)
           todo == {[dest |-> d, url |-> dests[d].url] :
                      d \in {e \in DestsOf(r) : dests[e].enabled}}
<1>1. /\ UNCHANGED <<dests, announced, remote, touched, crossed, lost>>
      /\ queue \in Seq(Repo) /\ queue # <<>> /\ queue' = Tail(queue)
  BY DEF Take, Typed, RestTyped
<1>2. /\ \A j \in Job : j # Worker => job'[j] = job[j]
      /\ job'[Worker].todo = todo /\ job'[Worker].pc = "next"
  BY DEF Take, Typed, JobsTyped, Job, Idle
<1>3. \A s \in Repo : Queued(s) => s = r \/ Queued(s)'
  <2>1. Len(queue) \in Nat /\ Len(queue) > 0 /\ DOMAIN queue = 1..Len(queue) /\ r = queue[1]
    BY <1>1
  <2>2. /\ Len(queue') = Len(queue) - 1 /\ DOMAIN queue' = 1..Len(queue')
        /\ \A i \in 1..Len(queue') : queue'[i] = queue[i + 1]
    BY <1>1
  <2>3. \A i \in DOMAIN queue : i = 1 \/ (i - 1 \in DOMAIN queue' /\ queue'[i - 1] = queue[i])
    BY <2>1, <2>2
  <2> QED
    BY <2>1, <2>3 DEF Queued
<1>4. SUFFICES ASSUME NEW d \in Dest, Automated(d)', ~ lost'[RepoOf[d]], ~ Due(RepoOf[d])',
                      ~ Awaited(d)'
               PROVE  Kept(d)'
  BY DEF OnTheWay
<1>5. Automated(d) /\ ~ lost[RepoOf[d]] /\ At(d)' = At(d) /\ RepoOf[d] \in Repo
  BY <1>1, <1>4, MirrorAssumption DEF Automated, Live, Disturbed, At
<1>6. RepoOf[d] # r
  <2>1. SUFFICES ASSUME RepoOf[d] = r PROVE FALSE
    OBVIOUS
  <2>2. [dest |-> d, url |-> dests[d].url] \in todo
    BY <1>5, <2>1 DEF Automated, DestsOf
  <2>3. PICK t : t = [dest |-> d, url |-> dests[d].url]
    OBVIOUS
  <2>4. t \in todo /\ t.dest = d
    BY <2>2, <2>3
  <2> HIDE DEF todo
  <2> QED
    BY <1>2, <1>4, <2>4 DEF Awaited
<1>7. ~ Due(RepoOf[d])
  BY <1>2, <1>3, <1>4, <1>5, <1>6, MirrorAssumption DEF Due, Job
<1>8. job[Worker].pc = "idle" /\ ~ Awaited(d)
  <2>1. job[Worker].pc = "idle" /\ job[Worker].todo = {}
    BY DEF Take, Typed, JobsTyped, Automatic
  <2> QED
    BY <2>1 DEF Awaited
<1>9. Kept(d)
  BY <1>5, <1>7, <1>8 DEF OnTheWay
<1>10. \A j \in Job : Aloof(job[j], job'[j])
  BY <1>2, <1>8 DEF Aloof
<1> HIDE DEF r, todo
<1> QED
  BY <1>1, <1>5, <1>9, <1>10, KeptStays

(* Who the worker turns to is still to be pushed to.                       *)
LEMMA NextDestCalm ==
  ASSUME Typed, NextDest
  PROVE  Calm
<1> USE DEF store, repos, counts, ghosts
<1>1. PICK b : /\ job' = [job EXCEPT ![Worker] = b]
               /\ \/ b = Idle /\ job[Worker].todo = {}
                  \/ \E t \in job[Worker].todo :
                       (b = Passed(t) /\ t.dest \notin vault) \/ b = Turned(t)
  BY NextDestTo
<1>2. /\ UNCHANGED <<dests, announced, remote, touched, crossed, lost, queue>>
      /\ job[Worker].pc = "next"
  BY DEF NextDest
<1>3. job[Worker] \in JobType /\ job'[Worker] = b
  BY <1>1 DEF Typed, JobsTyped, Shaped, Job
<1>4. b.pc \in {"idle", "next", "push"}
  BY <1>1, <1>2, <1>3, AtRest DEF Passed, Turned, JobType
<1>5. ASSUME NEW d \in Dest, Automated(d), Awaited(d)
      PROVE  Awaited(d)'
  <2>1. d \in vault
    BY <1>5 DEF Automated, Live, Disturbed, Typed, StoreTyped
  <2>2. PICK u \in job[Worker].todo : u.dest = d
    BY <1>2, <1>5 DEF Awaited
  <2>3. PICK t \in job[Worker].todo : (b = Passed(t) /\ t.dest \notin vault) \/ b = Turned(t)
    BY <1>1, <2>2
  <2>4. /\ b.todo = job[Worker].todo \ {t}
        /\ b = Turned(t) => b.pc = "push" /\ b.dest = t.dest
    BY <1>3, <2>3 DEF Passed, Turned, JobType
  <2> QED
    BY <1>3, <2>1, <2>2, <2>3, <2>4 DEF Awaited
<1> QED
  BY <1>1, <1>2, <1>4, <1>5, JobCalm DEF Job

\* A step that leaves the other destinations alone.
OnlyAt(c) ==
  \A d \in Dest : /\ dests'[d].life = dests[d].life /\ dests'[d].url = dests[d].url
                  /\ dests'[d].enabled = dests[d].enabled
                  /\ d # c => dests'[d].sync = dests[d].sync
                  /\ d # c => remote'[d] = remote[d]

(* A step of a push does.                                                  *)
LEMMA PushFrame ==
  ASSUME Typed, OnTheWay, NEW j \in Job, NEW b, job' = [job EXCEPT ![j] = b],
         NEW c \in Dest, c = job[j].dest,
         job[j].pc # "enqueue", j = Worker => b.todo = job[j].todo,
         job[j].pc = "push" => b.dest = c,
         b.pc \in {"send", "sent"} => b.dest = c,
         UNCHANGED <<queue, lost, announced>>, OnlyAt(c),
         \A d \in Dest : d # c /\ d \in Disturbed => d \in Disturbed',
         Automated(c)' =>
           Kept(c)' \/ (Automated(c) /\ (Awaited(c) \/ Kept(c) => (Awaited(c) \/ Kept(c))'))
  PROVE  OnTheWay'
<1>1. SUFFICES ASSUME NEW d \in Dest, Automated(d)', ~ lost'[RepoOf[d]], ~ Due(RepoOf[d])'
               PROVE  (Awaited(d) \/ Kept(d))'
  BY DEF OnTheWay
<1>2. /\ d # c => Automated(d)
      /\ ~ lost[RepoOf[d]]
  BY <1>1 DEF OnlyAt, Automated, Live
<1>3. /\ \A k \in Job : k # j => job'[k] = job[k]
      /\ job'[j] = b
  BY DEF Typed, JobsTyped
<1>4. ~ Due(RepoOf[d])
  BY <1>1, <1>3 DEF Due, Queued, Job
<1>5. Automated(d) => Awaited(d) \/ Kept(d)
  BY <1>2, <1>4 DEF OnTheWay
<1>6. CASE d = c
  BY <1>1, <1>5, <1>6
<1>7. CASE d # c
  <2>1. At(d)' = At(d) /\ dests'[d].sync = dests[d].sync
    BY <1>7 DEF OnlyAt, At
  <2>2. Awaited(d) => Awaited(d)'
    BY <1>3, <1>7 DEF Awaited, Job
  <2>3. Holds(d)' = Holds(d)
    BY <2>1 DEF Holds
  <2>4. Underway(d) => Underway(d)'
    BY <1>3, <1>7 DEF Underway
  <2>5. Kept(d) => Kept(d)'
    <3>1. SUFFICES ASSUME Kept(d), NEW k \in Job PROVE Brings(job[k], d)'
      BY <2>1, <2>3, <2>4 DEF Kept
    <3>2. CASE k = j
      BY <1>3, <1>7, <3>2 DEF Brings
    <3>3. CASE k # j
      BY <1>3, <2>3, <3>1, <3>3 DEF Kept, Brings
    <3> QED
      BY <3>2, <3>3
  <2> QED
    BY <1>2, <1>5, <1>7, <2>2, <2>5
<1> QED
  BY <1>6, <1>7

(* A push reads everything that was announced by then, and is the only one *)
(* on its way, or crosses another,                                         *)
LEMMA PushReadsOnTheWay ==
  ASSUME Typed, OnTheWay, NEW j \in Job, PushReads(j)
  PROVE  OnTheWay'
<1> USE DEF store, repos, counts, ghosts
<1>1. PICK b : b = [job[j] EXCEPT !.pc = "send", !.carries = local[job[j].repo]]
  OBVIOUS
<1>2. /\ job' = [job EXCEPT ![j] = b] /\ job[j].pc = "push"
      /\ UNCHANGED <<dests, announced, remote, lost, queue>>
      /\ \A e : e # job[j].dest /\ e \in Disturbed => e \in Disturbed'
  BY <1>1 DEF PushReads, Typed, JobsTyped, Disturbed
<1>3. job[j] \in JobType /\ Target(job[j]) /\ job'[j] = b
  BY <1>2 DEF Typed, JobsTyped, Shaped, Aimed, Passing
<1>4. /\ b.pc = "send" /\ b.todo = job[j].todo /\ b.dest = job[j].dest
      /\ b.carries = local[job[j].repo]
  BY <1>1, <1>3 DEF JobType
<1>5. PICK d : d = job[j].dest /\ d \in Dest
  BY <1>3 DEF Target
<1>6. ASSUME Automated(d)'
      PROVE  Kept(d)'
  <2>1. d \notin crossed'
    BY <1>6 DEF Automated, Disturbed
  <2>2. \A k \in Job : k # j /\ job[k].dest = d => job[k].pc \notin {"send", "sent"}
    BY <1>5, <2>1 DEF PushReads, Sending, Alone
  <2>3. announced[RepoOf[d]] \subseteq b.carries
    BY <1>3, <1>4, <1>5, MirrorAssumption DEF Target, Typed, ReposTyped
  <2>4. Underway(d)'
    BY <1>3, <1>4, <1>5 DEF Underway
  <2>5. ASSUME NEW k \in Job PROVE Brings(job[k], d)'
    <3>1. CASE k = j
      BY <1>2, <1>3, <1>4, <2>3, <3>1 DEF Brings
    <3>2. CASE k # j
      BY <1>2, <2>2, <3>2 DEF Brings, Typed, JobsTyped
    <3> QED
      BY <3>1, <3>2
  <2> QED
    BY <2>4, <2>5 DEF Kept
<1>7. OnlyAt(d)
  BY <1>2 DEF OnlyAt
<1> QED
  BY <1>2, <1>4, <1>5, <1>6, <1>7, PushFrame

(* brings it to the destination or fails,                                  *)
LEMMA PushEndsOnTheWay ==
  ASSUME Typed, OnTheWay, NEW j \in Job, PushEnds(j)
  PROVE  OnTheWay'
<1> USE DEF store, repos, counts, ghosts
<1>0. PICK refs \in SUBSET Ref, verdict \in {"ok", "error"} :
        /\ job' = [job EXCEPT ![j] = Ended(j, verdict)]
        /\ remote' = Sent(j, refs)
        /\ verdict = "ok" => refs = Ref
  BY PushEndsTo
<1>1. PICK b : b = Ended(j, verdict) /\ job' = [job EXCEPT ![j] = b]
  BY <1>0
<1>2. /\ job[j].pc = "send"
      /\ UNCHANGED <<dests, announced, touched, crossed, lost, queue>>
  BY DEF PushEnds
<1>3. job[j] \in JobType /\ Target(job[j]) /\ job'[j] = b
  BY <1>1, <1>2 DEF Typed, JobsTyped, Shaped, Aimed, Passing
<1>4. /\ b.pc = "sent" /\ b.todo = job[j].todo /\ b.dest = job[j].dest
      /\ b.verdict = verdict
  BY <1>1, <1>3 DEF Ended, JobType
<1>5. PICK d : d = job[j].dest /\ d \in Dest
  BY <1>3 DEF Target
<1>6. \A e \in Dest : e # d => remote'[e] = remote[e]
  BY <1>0, <1>3, <1>5, SentTo
<1>7. \A k \in Job : k # j => job'[k] = job[k]
  BY <1>1 DEF Typed, JobsTyped
<1>8. ASSUME Automated(d), Kept(d)
      PROVE  Kept(d)'
  <2>1. job[j].url = dests[d].url /\ dests[d].url \in Url
    BY <1>3, <1>5, <1>8 DEF Target, Automated, Disturbed
  <2>2. At(d)' = Forced(At(d), job[j].carries, refs)
    <3>1. remote'[d][job[j].url] = Forced(remote[d][job[j].url], job[j].carries, refs)
      BY <1>0, <1>3, <1>5, SentTo
    <3> QED
      BY <1>2, <2>1, <3>1 DEF At
  <2>3. announced[RepoOf[d]] \subseteq job[j].carries
    BY <1>2, <1>5, <1>8 DEF Kept, Brings
  <2>4. (Holds(d) => Holds(d)') /\ (verdict = "ok" => Holds(d)')
    <3>1. At(d) \cap job[j].carries \subseteq At(d)'
      BY <2>2, ForceBounds
    <3>2. verdict = "ok" => job[j].carries \subseteq At(d)'
      <4>1. job[j].carries \in Content
        BY <1>3 DEF JobType
      <4> QED
        BY <1>0, <2>2, <4>1, ForceBrings
    <3> QED
      BY <1>2, <2>3, <3>1, <3>2 DEF Holds
  <2>5. verdict = "error" => Underway(d)'
    BY <1>3, <1>4, <1>5 DEF Underway
  <2>6. ASSUME NEW k \in Job PROVE Brings(job[k], d)'
    <3>1. CASE k = j
      BY <1>3, <1>4, <2>4, <3>1 DEF Brings
    <3>2. CASE k # j
      BY <1>2, <1>7, <1>8, <2>4, <3>2 DEF Kept, Brings
    <3> QED
      BY <3>1, <3>2
  <2> QED
    BY <2>4, <2>5, <2>6 DEF Kept
<1>9. Awaited(d) => Awaited(d)'
  BY <1>2, <1>3, <1>4, <1>7 DEF Awaited, Job
<1>10. Automated(d)' => Automated(d) /\ (Awaited(d) \/ Kept(d) => (Awaited(d) \/ Kept(d))')
  BY <1>2, <1>8, <1>9 DEF Automated, Live, Disturbed
<1>11. /\ UNCHANGED <<queue, lost, announced, Disturbed>>
       /\ job[j].pc # "enqueue" /\ b.dest = d
  BY <1>2, <1>4, <1>5 DEF Disturbed
<1>12. OnlyAt(d)
  BY <1>2, <1>6 DEF OnlyAt
<1> QED
  BY <1>1, <1>4, <1>5, <1>10, <1>11, <1>12, PushFrame

(* and says so.                                                            *)
LEMMA RecordSyncOnTheWay ==
  ASSUME Typed, OnTheWay, NEW j \in Job, RecordSync(j)
  PROVE  OnTheWay'
<1> USE DEF store, repos, counts, ghosts
<1>1. PICK b : /\ job' = [job EXCEPT ![j] = b]
               /\ b = Marking(j) \/ b = Done(j)
  BY DEF RecordSync, RecordSyncAs
<1>2. /\ job[j].pc = "sent" /\ SetSync(job[j].dest, job[j].verdict)
      /\ UNCHANGED <<remote, announced, touched, crossed, lost, queue>>
  BY DEF RecordSync, RecordSyncAs
<1>3. /\ job[j] \in JobType /\ Target(job[j]) /\ job'[j] = b
      /\ job[j].verdict \in {"ok", "error"}
  BY <1>1, <1>2 DEF Typed, JobsTyped, Shaped, Aimed, Passing
<1>4. /\ b.pc \in {"mark", "next", "idle"}
      /\ j = Worker => b.todo = job[j].todo
  <2>1. b = Marking(j) => b.pc = "mark" /\ b.todo = job[j].todo
    BY <1>3 DEF JobType, Marking
  <2>2. b = Done(j) => b.pc \in {"next", "idle"} /\ (j = Worker => b.todo = job[j].todo)
    BY DoneRests
  <2> QED
    BY <1>1, <2>1, <2>2
<1>5. PICK d : d = job[j].dest /\ d \in Dest
  BY <1>3 DEF Target
<1>6. /\ \A e \in Dest : /\ dests'[e].life = dests[e].life /\ dests'[e].url = dests[e].url
                         /\ dests'[e].enabled = dests[e].enabled
                         /\ e # d => dests'[e].sync = dests[e].sync
      /\ d \in Live => dests'[d].sync = job[j].verdict
  BY <1>2, <1>5, SyncRows
<1>7. \A k \in Job : k # j => job'[k] = job[k]
  BY <1>1 DEF Typed, JobsTyped
<1>8. At(d)' = At(d) /\ Holds(d)' = Holds(d)
  BY <1>2, <1>5, <1>6 DEF At, Holds
<1>9. ASSUME Automated(d), Kept(d)
      PROVE  Kept(d)'
  <2>1. dests'[d].sync = job[j].verdict
    BY <1>6, <1>9 DEF Automated
  <2>2. job[j].verdict = "ok" => Holds(d)'
    BY <1>2, <1>5, <1>8, <1>9 DEF Kept, Brings
  <2>3. ASSUME NEW k \in Job PROVE Brings(job[k], d)'
    <3>1. CASE k = j
      BY <1>3, <1>4, <3>1 DEF Brings
    <3>2. CASE k # j
      BY <1>2, <1>7, <1>8, <1>9, <3>2 DEF Kept, Brings
    <3> QED
      BY <3>1, <3>2
  <2> QED
    BY <1>3, <2>1, <2>2, <2>3 DEF Kept
<1>10. Awaited(d) => Awaited(d)'
  BY <1>2, <1>3, <1>4, <1>7 DEF Awaited, Job
<1>11. Automated(d)' => Automated(d) /\ (Awaited(d) \/ Kept(d) => (Awaited(d) \/ Kept(d))')
  BY <1>2, <1>6, <1>9, <1>10 DEF Automated, Live, Disturbed
<1>12. /\ UNCHANGED <<queue, lost, announced, Disturbed>>
       /\ job[j].pc \notin {"enqueue", "push"} /\ b.pc \notin {"send", "sent"}
  BY <1>2, <1>4 DEF Disturbed
<1>13. OnlyAt(d)
  BY <1>2, <1>6 DEF OnlyAt
<1> QED
  BY <1>1, <1>4, <1>5, <1>11, <1>12, <1>13, PushFrame

(* The badge is nothing to the delivery.                                   *)
LEMMA MarkCalm ==
  ASSUME Typed, NEW j \in Job, Mark(j)
  PROVE  Calm
<1> USE DEF store, repos, counts, ghosts
<1>1. PICK b : job' = [job EXCEPT ![j] = b] /\ b = Done(j)
  BY DEF Mark
<1>2. /\ job[j].pc = "mark" /\ (SetStatus(job[j].dest, "in_sync") \/ UNCHANGED dests)
      /\ UNCHANGED <<remote, announced, touched, crossed, lost, queue>>
  BY DEF Mark
<1>3. job[j].dest \in Dest /\ job'[j] = b
  BY <1>1, <1>2 DEF Typed, JobsTyped, Shaped, Aimed, Passing, Target
<1>4. b.pc \in {"next", "idle"} /\ (j = Worker => b.todo = job[j].todo)
  BY <1>1 DEF Done, Idle
<1>5. \A e \in Dest : /\ dests'[e].life = dests[e].life /\ dests'[e].url = dests[e].url
                      /\ dests'[e].enabled = dests[e].enabled
                      /\ dests'[e].sync = dests[e].sync
  BY <1>2, <1>3, StatusRows
<1>6. \A d \in Dest : Awaited(d) => Awaited(d)'
  <2>1. \A k \in Job : k # j => job'[k] = job[k]
    BY <1>1 DEF Typed, JobsTyped
  <2> QED
    BY <1>2, <1>3, <1>4, <2>1 DEF Awaited, Job
<1> QED
  BY <1>1, <1>2, <1>4, <1>5, <1>6, JobCalm

(* A restart loses what was queued and announced.                          *)
LEMMA CrashOnTheWay ==
  ASSUME Typed, OnTheWay, Crash
  PROVE  OnTheWay'
<1> USE DEF store, repos
<1>1. /\ UNCHANGED <<dests, remote, announced, touched, crossed>>
      /\ \A j \in Job : job'[j] = Idle
      /\ \A r \in Repo : lost'[r] = (lost[r] \/ ~ Quiet(r))
  BY DEF Crash
<1>2. SUFFICES ASSUME NEW d \in Dest, Automated(d)', ~ lost'[RepoOf[d]]
               PROVE  Kept(d)'
  BY DEF OnTheWay
<1>3. Automated(d) /\ ~ lost[RepoOf[d]] /\ Quiet(RepoOf[d]) /\ At(d)' = At(d)
  BY <1>1, <1>2, MirrorAssumption DEF Automated, Live, At, Disturbed
<1>4. Delivered
  BY OnTheWayDelivers
<1>5. dests[d].sync = "ok" => Holds(d)
  BY <1>3, <1>4 DEF Delivered, Behind, Automated, Holds
<1>6. \A j \in Job : job'[j].pc = "idle"
  <2>1. PICK b : b = Idle
    OBVIOUS
  <2>2. b.pc = "idle"
    BY <2>1 DEF Idle
  <2>3. \A j \in Job : job'[j] = b
    BY <1>1, <2>1
  <2> QED
    BY <2>2, <2>3
<1>7. dests'[d].sync = dests[d].sync /\ (Holds(d) => Holds(d)')
  BY <1>1, <1>3 DEF Holds
<1> QED
  BY <1>5, <1>6, <1>7 DEF Kept, Brings

(* A panic loses what the worker was about, unless it is queued again.     *)
LEMMA PanicOnTheWay ==
  ASSUME Typed, OnTheWay, Panic
  PROVE  OnTheWay'
<1> USE DEF store, repos
<1> DEFINE r == job[Worker].repo
<1>1. /\ UNCHANGED <<queue, dests, remote, announced, touched, crossed>>
      /\ \A s \in Repo : lost'[s] = (lost[s] \/ (s = r /\ ~ Queued(s)))
  BY DEF Panic, Typed, RestTyped
<1>2. Worker \in Job /\ job[Worker].pc \in {"next", "push", "send", "sent", "mark"}
  BY DEF Panic, Typed, JobsTyped, Automatic, Passing, Job
<1>3. PICK b : b = Idle /\ b.pc = "idle"
  BY AtRest
<1>4. job'[Worker] = b /\ \A j \in Job : j # Worker => job'[j] = job[j]
  BY <1>2, <1>3 DEF Panic, Typed, JobsTyped
<1>5. SUFFICES ASSUME NEW d \in Dest, Automated(d)', ~ lost'[RepoOf[d]], ~ Due(RepoOf[d])'
               PROVE  Kept(d)'
  BY DEF OnTheWay
<1>6. RepoOf[d] # r
  <2>1. ~ Queued(RepoOf[d])
    BY <1>1, <1>5 DEF Due, Queued
  <2> QED
    BY <1>1, <1>5, <2>1, MirrorAssumption
<1>7. job[Worker].dest # d \/ job[Worker].pc = "next"
  BY <1>2, <1>6 DEF Typed, JobsTyped, Shaped, Aimed, Target, Passing
<1>8. \A t \in job[Worker].todo : t.dest # d
  BY <1>6 DEF Typed, JobsTyped, Automatic
<1>9. /\ Automated(d) /\ ~ lost[RepoOf[d]] /\ At(d)' = At(d)
      /\ dests'[d].sync = dests[d].sync /\ Holds(d)' = Holds(d)
  BY <1>1, <1>5, MirrorAssumption DEF Automated, Live, At, Disturbed, Holds
<1>10. ~ Due(RepoOf[d]) /\ ~ Awaited(d)
  <2>1. ~ Due(RepoOf[d])
    BY <1>1, <1>4, <1>5, MirrorAssumption DEF Due, Queued, Job
  <2> QED
    BY <1>7, <1>8, <2>1 DEF Awaited
<1>11. Kept(d)
  BY <1>9, <1>10 DEF OnTheWay
<1>12. Underway(d) => Underway(d)'
  BY <1>2, <1>4, <1>7 DEF Underway
<1>13. ASSUME NEW k \in Job PROVE Brings(job[k], d)'
  <2>1. CASE k = Worker
    BY <1>3, <1>4, <2>1 DEF Brings
  <2>2. CASE k # Worker
    BY <1>1, <1>4, <1>9, <1>11, <2>2 DEF Kept, Brings
  <2> QED
    BY <2>1, <2>2
<1> QED
  BY <1>9, <1>11, <1>12, <1>13 DEF Kept

(* Every step keeps it.                                                    *)
LEMMA NextOnTheWay ==
  ASSUME Typed, OnTheWay, [Next]_vars
  PROVE  OnTheWay'
<1>1. CASE UNCHANGED vars
  <2>1. Calm
    BY <1>1 DEF vars, Calm, Aloof, Automated, Awaited, Live, At, Disturbed
  <2> QED
    BY <2>1, CalmKeeps
<1>2. ASSUME NEW h \in Handler,
             \/ \E r \in Repo, ref \in Branch :
                  \/ \E fixed \in BOOLEAN : Write(h, r, ref, "write", fixed)
                  \/ Write(h, r, ref, "silent", TRUE)
             \/ \E d \in Dest : SyncNow(h, d) \/ Pull(h, d) \/ Refresh(h, d)
      PROVE  OnTheWay'
  BY <1>2, RequestCalm, CalmKeeps
<1>3. ASSUME NEW h \in Handler, Handling(h)
      PROVE  OnTheWay'
  <2>1. h \in Job
    BY DEF Job
  <2>2. CASE PushReads(h) \/ PushEnds(h) \/ RecordSync(h)
    BY <2>1, <2>2, PushReadsOnTheWay, PushEndsOnTheWay, RecordSyncOnTheWay
  <2>3. CASE Mark(h)
    BY <2>1, <2>3, MarkCalm, CalmKeeps
  <2> QED
    BY <1>3, <2>2, <2>3, HandlerStepCalm, FetchEndsCalm, CalmKeeps,
       InvalidateOnTheWay, EnqueueOnTheWay
    DEF Handling, Pushing
<1>4. CASE Working
  <2>1. Worker \in Job
    BY DEF Job
  <2>2. CASE NextDest \/ Mark(Worker)
    BY <2>1, <2>2, NextDestCalm, MarkCalm, CalmKeeps
  <2> QED
    BY <1>4, <2>1, <2>2, TakeOnTheWay, PushReadsOnTheWay, PushEndsOnTheWay, RecordSyncOnTheWay
    DEF Working, Pushing
<1>5. ASSUME NEW d \in Dest, NEW url \in Url, NEW enabled \in BOOLEAN,
             Create(d, url, enabled) \/ Patch(d, url, enabled)
      PROVE  OnTheWay'
  BY <1>5, CreateOnTheWay, AdminCalm, CalmKeeps
<1>6. ASSUME NEW d \in Dest,
             Remove(d) \/ DropCredential(d) \/ \E ref \in Branch : Outside(d, ref)
      PROVE  OnTheWay'
  BY <1>6, AdminCalm, CalmKeeps
<1>7. ASSUME NEW h \in Handler, NEW r \in Repo, NEW ref \in Branch,
             NEW kind \in {"write", "silent"}, Delete(h, r, ref, kind)
      PROVE  OnTheWay'
  BY <1>7, DeleteCalm, CalmKeeps
<1> QED
  BY <1>1, <1>2, <1>3, <1>4, <1>5, <1>6, <1>7, PanicOnTheWay, CrashOnTheWay
  DEF Next

(* Nothing announced is forgotten: once a repository is quiet, every       *)
(* automatic destination whose last push succeeded has what was announced  *)
(* and was not deleted since, unless the channel was full when it was      *)
(* announced, or a restart or a panic of the worker took it.  That what    *)
(* was deleted is gone from the destination is not claimed, nor so.        *)
THEOREM NothingForgotten == Spec => []Delivered
<1>1. Init => OnTheWay
  <2>1. SUFFICES ASSUME Init PROVE OnTheWay
    OBVIOUS
  <2>2. \A d \in Dest : d \notin Live
    BY <2>1 DEF Init, Live
  <2> QED
    BY <2>2 DEF OnTheWay, Automated
<1>2. Spec => [](Typed /\ OnTheWay)
  BY <1>1, InitTyped, NextTyped, NextOnTheWay, PTL DEF Spec
<1> QED
  BY <1>2, OnTheWayDelivers, PTL

-----------------------------------------------------------------------------
(* What a badge is worth.  What was announced when a push began is in what *)
(* it sends, and there once it was sent: a push that sets out while        *)
(* another one's badge is still to be set carries no less than that one    *)
(* did.  Without pulls, refs of the repository that a destination has are  *)
(* in whatever is on its way there and stay there, so what a refresh       *)
(* compared them with is there when it records its verdict.                *)

Pristine(d) == d \in Dest \ Disturbed /\ RepoOf[d] \notin pulled
Common(d) == At(d) \cap local[RepoOf[d]]

JobKnows(b) ==
  /\ b.pc = "send" => b.knows \subseteq b.carries
  /\ b.pc = "mark" \/ (b.pc = "sent" /\ b.verdict = "ok") =>
       b.dest \in Disturbed \/ b.knows \subseteq At(b.dest)
  /\ Pristine(b.dest) =>
       /\ b.pc = "send" => Common(b.dest) \subseteq b.carries
       /\ b.pc = "compare" => b.carries \cap local[b.repo] \subseteq At(b.dest)
       /\ b.pc = "record" /\ b.verdict = "in_sync" => b.knows \subseteq At(b.dest)

\* The push of b takes nothing back that c has brought or is bringing.
InOrder(b, c) ==
  b.pc = "send" /\ c.dest = b.dest /\ b.dest \notin crossed =>
    /\ c.pc \notin {"send", "sent"}
    /\ c.pc = "mark" => c.knows \subseteq b.carries

Known ==
  /\ \A j \in Job : JobKnows(job[j])
  /\ \A j \in Job, k \in Job : j # k => InOrder(job[j], job[k])

(* Whoever sets the badge knows what it needs to.                          *)
LEMMA KnownIsWorth ==
  ASSUME Typed, Known, NEW j \in Job,
         LET d == job[j].dest IN
         \/ Mark(j) /\ d \in Live \ Disturbed
         \/ /\ job[j].verdict = "in_sync" /\ Record(j) /\ d \in Live \ Disturbed
            /\ RepoOf[d] \notin pulled
  PROVE  job[j].knows \subseteq At(job[j].dest)
<1>1. JobKnows(job[j]) /\ job[j].dest \in Dest \ Disturbed
  BY DEF Live, Known
<1>2. CASE job[j].pc = "mark"
  BY <1>1, <1>2 DEF JobKnows
<1>3. CASE job[j].pc = "record" /\ job[j].verdict = "in_sync" /\ RepoOf[job[j].dest] \notin pulled
  BY <1>1, <1>3 DEF JobKnows, Pristine
<1> QED
  BY <1>2, <1>3 DEF Mark, Record

(* Destinations keep what they have, while their repository may grow, or   *)
(* shrink: what is deleted is in nobody's way.                             *)
Steady ==
  /\ touched \subseteq touched' /\ crossed \subseteq crossed' /\ pulled \subseteq pulled'
  /\ \A d \in Dest : dests[d].life # "new" /\ d \notin Disturbed' =>
       /\ At(d) \subseteq At(d)'
       /\ RepoOf[d] \notin pulled' => Common(d)' \subseteq Common(d)
  /\ \A r \in Repo : r \notin pulled' =>
       \A seen \in Content : seen \cap local'[r] \subseteq local[r]

SameJob(b, c) ==
  /\ c.pc = b.pc /\ c.dest = b.dest /\ c.repo = b.repo /\ c.verdict = b.verdict
  /\ c.carries = b.carries /\ c.knows \subseteq b.knows

(* What a goroutine knows lasts while the contents are steady,             *)
LEMMA JobKnowsStill ==
  ASSUME Typed, Steady, NEW j \in Job, JobKnows(job[j]),
         NEW b, SameJob(job[j], b)
  PROVE  JobKnows(b)'
<1>1. Shaped(job[j]) /\ job[j] \in JobType
  BY DEF Typed, JobsTyped, Shaped
<1>2. b.pc \in Passing \cup Comparing =>
        /\ b.dest \in Dest /\ dests[b.dest].life # "new" /\ b.repo = RepoOf[b.dest]
        /\ b.repo \in Repo /\ b.carries \in Content
  <2>1. b.pc \in Passing \cup Comparing => Target(job[j])
    BY <1>1 DEF Shaped, Aimed, SameJob
  <2>2. job[j].carries \in Content
    BY <1>1 DEF JobType
  <2> QED
    BY <2>1, <2>2, MirrorAssumption DEF SameJob, Target
<1>3. Disturbed \subseteq Disturbed' /\ pulled \subseteq pulled'
  BY DEF Steady, Disturbed
<1>4. Pristine(b.dest)' => Pristine(b.dest)
  BY <1>3 DEF Pristine
<1>5. b.pc \in Passing \cup Comparing /\ b.dest \notin Disturbed' => At(b.dest) \subseteq At(b.dest)'
  BY <1>2 DEF Steady
<1>6. b.pc = "send" => b.knows \subseteq b.carries
  BY DEF JobKnows, SameJob
<1>7. b.pc = "mark" \/ (b.pc = "sent" /\ b.verdict = "ok") =>
        b.dest \in Disturbed' \/ b.knows \subseteq At(b.dest)'
  BY <1>3, <1>5 DEF JobKnows, SameJob, Passing
<1>8. Pristine(b.dest)' /\ b.pc = "send" => Common(b.dest)' \subseteq b.carries
  BY <1>2, <1>4 DEF Steady, JobKnows, SameJob, Pristine, Passing
<1>9. ASSUME Pristine(b.dest)', b.pc = "compare"
      PROVE  b.carries \cap local'[b.repo] \subseteq At(b.dest)'
  <2>1. b.carries \cap local[b.repo] \subseteq At(b.dest)
    BY <1>4, <1>9 DEF JobKnows, SameJob
  <2>2. b.carries \cap local'[b.repo] \subseteq local[b.repo]
    BY <1>2, <1>9 DEF Steady, Pristine, Comparing
  <2>3. At(b.dest) \subseteq At(b.dest)'
    BY <1>5, <1>9 DEF Pristine, Comparing
  <2> QED
    BY <2>1, <2>2, <2>3
<1>10. ASSUME Pristine(b.dest)', b.pc = "record", b.verdict = "in_sync"
       PROVE  b.knows \subseteq At(b.dest)'
  <2>1. b.knows \subseteq At(b.dest)
    BY <1>4, <1>10 DEF JobKnows, SameJob
  <2>2. At(b.dest) \subseteq At(b.dest)'
    BY <1>5, <1>10 DEF Pristine, Comparing
  <2> QED
    BY <2>1, <2>2
<1> QED
  BY <1>6, <1>7, <1>8, <1>9, <1>10 DEF JobKnows

(* and so does the order of two pushes.                                    *)
LEMMA InOrderStill ==
  ASSUME crossed \subseteq crossed', NEW b, NEW c, InOrder(b, c),
         NEW b1, NEW c1, SameJob(b, b1), SameJob(c, c1)
  PROVE  InOrder(b1, c1)'
BY DEF InOrder, SameJob

(* A job that does not go on is the same.                                  *)
LEMMA SameJobs == \A j \in Job : SameJob(job[j], job[j])
BY DEF SameJob

(* A steady step of nobody,                                                *)
LEMMA KnownRests ==
  ASSUME Typed, Known, Steady, UNCHANGED job
  PROVE  Known'
<1>1. ASSUME NEW j \in Job PROVE JobKnows(job[j])'
  <2>1. PICK b : b = job[j]
    OBVIOUS
  <2>2. JobKnows(b)'
    BY <2>1, SameJobs, JobKnowsStill DEF Known
  <2> QED
    BY <2>1, <2>2
<1>2. ASSUME NEW j \in Job, NEW k \in Job, j # k PROVE InOrder(job[j], job[k])'
  BY <1>2 DEF Known, Steady, InOrder
<1> QED
  BY <1>1, <1>2 DEF Known

(* and of a goroutine.                                                     *)
LEMMA KnownByJob ==
  ASSUME Typed, Known, Steady, NEW j \in Job, NEW b,
         job' = [job EXCEPT ![j] = b], JobKnows(b)',
         \A k \in Job : k # j => InOrder(b, job[k])' /\ InOrder(job[k], b)'
  PROVE  Known'
<1>1. job'[j] = b /\ \A k \in Job : k # j => job'[k] = job[k]
  BY DEF Typed, JobsTyped
<1>2. ASSUME NEW k \in Job PROVE JobKnows(job[k])'
  <2>1. CASE k = j
    BY <1>1, <2>1
  <2>2. CASE k # j
    <3>1. PICK c : c = job[k]
      OBVIOUS
    <3>2. JobKnows(c)' /\ job'[k] = c
      BY <1>1, <2>2, <3>1, SameJobs, JobKnowsStill DEF Known
    <3> QED
      BY <3>2
  <2> QED
    BY <2>1, <2>2
<1>3. ASSUME NEW k \in Job, NEW l \in Job, k # l PROVE InOrder(job[k], job[l])'
  <2>1. CASE k = j
    BY <1>1, <1>3, <2>1 DEF InOrder
  <2>2. CASE l = j
    BY <1>1, <1>3, <2>2 DEF InOrder
  <2>3. CASE k # j /\ l # j
    BY <1>1, <1>3, <2>3 DEF Known, Steady, InOrder
  <2> QED
    BY <2>1, <2>2, <2>3
<1> QED
  BY <1>2, <1>3 DEF Known

\* A job that no claim is about.
Ignorant(b) == b.pc \notin {"send", "sent", "mark", "compare", "record"}

(* One that goes on to where nothing is claimed of it.                     *)
LEMMA KnownByIgnorant ==
  ASSUME Typed, Known, Steady, NEW j \in Job, NEW b,
         job' = [job EXCEPT ![j] = b], Ignorant(b)
  PROVE  Known'
<1>1. JobKnows(b)'
  BY DEF Ignorant, JobKnows
<1>2. \A k \in Job : k # j => InOrder(b, job[k])' /\ InOrder(job[k], b)'
  BY DEF Ignorant, InOrder
<1> QED
  BY <1>1, <1>2, KnownByJob

(* One that compares, or has compared.                                     *)
LEMMA KnownByRefresh ==
  ASSUME Typed, Known, Steady, NEW j \in Job, NEW b,
         job' = [job EXCEPT ![j] = b], b.pc \in {"compare", "record"}, JobKnows(b)'
  PROVE  Known'
<1>1. \A k \in Job : k # j => InOrder(b, job[k])' /\ InOrder(job[k], b)'
  BY DEF InOrder
<1> QED
  BY <1>1, KnownByJob

(* What is steady.                                                         *)
LEMMA RowsSteady ==
  ASSUME Typed, UNCHANGED <<local, remote, pulled>>,
         touched \subseteq touched', crossed \subseteq crossed',
         \A d \in Dest : dests[d].life # "new" /\ d \notin touched' =>
           dests'[d].url = dests[d].url
  PROVE  Steady
BY DEF Steady, At, Common, Disturbed

(* A ref that is new is at no destination yet.                             *)
LEMMA AdvanceSteady ==
  ASSUME Typed, NEW r \in Repo, NEW ref,
         Advance(r, ref) \/ UNCHANGED <<local, updates>>,
         UNCHANGED <<remote, dests, touched, crossed, pulled>>
  PROVE  Steady
<1>1. <<ref, updates + 1>> \notin Ref \X (1..updates)
  BY DEF Typed, ReposTyped
<1>2. ASSUME NEW s \in Repo, NEW seen \in Content
      PROVE  seen \cap local'[s] = seen \cap local[s]
  BY <1>1, <1>2 DEF Typed, ReposTyped, Content, Advance
<1>3. ASSUME NEW d \in Dest, dests[d].life # "new"
      PROVE  At(d)' = At(d) /\ Common(d)' = Common(d)
  <2>1. At(d) \in Content /\ RepoOf[d] \in Repo
    BY <1>3, MirrorAssumption DEF At, Typed, ReposTyped, StoreTyped
  <2>2. At(d)' = At(d)
    BY DEF At
  <2> QED
    BY <1>2, <2>1, <2>2 DEF Common
<1> QED
  BY <1>2, <1>3 DEF Steady

(* A commit made at the remote only adds to it.                            *)
LEMMA OutsideSteady ==
  ASSUME Typed, NEW d \in Dest, NEW ref, Outside(d, ref)
  PROVE  Steady
<1> USE DEF store
<1>1. <<ref, updates + 1>> \notin Ref \X (1..updates)
  BY DEF Typed, ReposTyped
<1>2. UNCHANGED <<local, dests, touched, crossed, pulled>> /\ dests[d].url \in Url
  BY DEF Outside, Act, Live, Typed, StoreTyped
<1>3. ASSUME NEW e \in Dest, dests[e].life # "new"
      PROVE  At(e) \subseteq At(e)' /\ Common(e)' = Common(e)
  <2>1. dests[e].url \in Url /\ RepoOf[e] \in Repo
    BY <1>3, MirrorAssumption DEF Typed, StoreTyped
  <2>2. At(e)' = At(e) \/ At(e)' = At(e) \cup {<<ref, updates + 1>>}
    BY <1>2, <2>1 DEF At, Outside, Typed, ReposTyped
  <2>3. <<ref, updates + 1>> \notin local[RepoOf[e]]
    BY <1>1, <2>1 DEF Typed, ReposTyped, Content
  <2> QED
    BY <1>2, <2>2, <2>3 DEF Common
<1> QED
  BY <1>2, <1>3 DEF Steady

(* What is replaced by less, or spoilt by a pull, is steady.               *)
LEMMA BecomesSteady ==
  ASSUME Typed, NEW h \in Handler, NEW r \in Repo, NEW content, NEW next,
         Becomes(r, content, h, next), content \subseteq local[r] \/ r \in pulled',
         UNCHANGED <<remote, dests, touched, crossed>>, pulled \subseteq pulled'
  PROVE  Steady
<1>1. ASSUME NEW s \in Repo, s \notin pulled'
      PROVE  local'[s] \subseteq local[s]
  BY <1>1 DEF Becomes, Typed, ReposTyped
<1>2. \A d \in Dest : At(d)' = At(d) /\ RepoOf[d] \in Repo
  BY MirrorAssumption DEF At
<1>3. \A d \in Dest : RepoOf[d] \notin pulled' => Common(d)' \subseteq Common(d)
  BY <1>1, <1>2 DEF Common
<1> QED
  BY <1>1, <1>2, <1>3 DEF Steady

(* A write begins.                                                         *)
LEMMA WriteKnown ==
  ASSUME Typed, Known, NEW h \in Handler, NEW r \in Repo, NEW ref \in Branch,
         NEW fixed \in BOOLEAN, NEW kind \in {"write", "silent"}, Write(h, r, ref, kind, fixed)
  PROVE  Known'
<1> USE DEF store, ghosts
<1>1. PICK b : b = Changed(r, kind, fixed)
  OBVIOUS
<1>2. job' = [job EXCEPT ![h] = b] /\ b.pc = "audit"
  BY <1>1, ChangedShape DEF Write
<1>3. Steady
  BY AdvanceSteady DEF Write
<1> QED
  BY <1>2, <1>3, KnownByIgnorant DEF Ignorant, Job

(* Its audit entry, and the autofix.                                       *)
LEMMA AuditKnown ==
  ASSUME Typed, Known, NEW h \in Handler, Audit(h) \/ Autofix(h)
  PROVE  Known'
<1> USE DEF store, ghosts
<1>1. /\ Shaped(job[h]) /\ job[h] \in JobType /\ job[h].repo \in Repo
      /\ job[h].pc \in {"audit", "autofix"}
  BY DEF Audit, Autofix, Typed, JobsTyped, Shaped, Job
<1>2. Steady
  BY <1>1, AdvanceSteady DEF Audit, Autofix
<1>3. PICK b : /\ job' = [job EXCEPT ![h] = b]
               /\ \/ b = Idle
                  \/ b = [job[h] EXCEPT !.pc = "invalidate"]
                  \/ b = [job[h] EXCEPT !.pc = "audit", !.fixed = TRUE]
                  \/ b = [job[h] EXCEPT !.pc = "push", !.knows = announced[job[h].repo]]
  <2>1. CASE Audit(h)
    <3>1. job[h].kind \in {"write", "silent", "sync"}
      BY <1>1, <2>1 DEF Audit, Shaped
    <3>2. CASE job[h].kind = "write"
      BY <2>1, <3>2 DEF Audit, Typed, JobsTyped, Job
    <3>3. CASE job[h].kind = "silent"
      BY <2>1, <3>3 DEF Audit, Typed, JobsTyped, Job
    <3>4. CASE job[h].kind = "sync"
      BY <2>1, <3>4 DEF Audit, Typed, JobsTyped, Job
    <3> QED
      BY <3>1, <3>2, <3>3, <3>4
  <2>2. CASE Autofix(h)
    BY <2>2 DEF Autofix, Typed, JobsTyped, Job
  <2> QED
    BY <2>1, <2>2
<1>4. b.pc \in {"idle", "invalidate", "audit", "push"}
  BY <1>1, <1>3, AtRest DEF JobType
<1> QED
  BY <1>2, <1>3, <1>4, KnownByIgnorant DEF Ignorant, Job

(* Its announcement clears the badges,                                     *)
LEMMA InvalidateKnown ==
  ASSUME Typed, Known, NEW h \in Handler, Invalidate(h)
  PROVE  Known'
<1> USE DEF repos, counts
<1>1. PICK b : b = [job[h] EXCEPT !.pc = "enqueue"]
  OBVIOUS
<1>2. job' = [job EXCEPT ![h] = b] /\ b.pc = "enqueue"
  <2>1. h \in Job /\ job[h] \in JobType
    BY DEF Job, Typed, JobsTyped, Shaped
  <2> QED
    BY <1>1, <2>1 DEF Invalidate, Typed, JobsTyped, JobType
<1>3. ASSUME NEW e \in Dest PROVE dests'[e].url = dests[e].url
  <2>1. dests'[e] = dests[e] \/ dests'[e] = [dests[e] EXCEPT !.status = ""]
    BY DEF Invalidate
  <2>2. dests[e] \in Destination
    BY DEF Typed, StoreTyped
  <2> QED
    BY <2>1, <2>2 DEF Destination
<1>4. Steady
  BY <1>3, RowsSteady DEF Invalidate
<1> QED
  BY <1>2, <1>4, KnownByIgnorant DEF Ignorant, Job

(* and queues the repository.                                              *)
LEMMA EnqueueKnown ==
  ASSUME Typed, Known, NEW h \in Handler, Enqueue(h)
  PROVE  Known'
<1> USE DEF store, repos, counts
<1>1. job[h] \in JobType
  BY DEF Typed, JobsTyped, Shaped, Job
<1>2. PICK b : b = IF job[h].fixed THEN Idle ELSE [job[h] EXCEPT !.pc = "autofix"]
  OBVIOUS
<1>3. job' = [job EXCEPT ![h] = b]
  BY <1>2 DEF Typed, JobsTyped, Job, Enqueue, EnqueueWith
<1>4. b.pc \in {"idle", "autofix"}
  BY <1>1, <1>2, AtRest DEF JobType
<1>5. Steady
  BY RowsSteady DEF Enqueue, EnqueueWith
<1> QED
  BY <1>3, <1>4, <1>5, KnownByIgnorant DEF Ignorant, Job

(* A pull reads the remote.                                                *)
LEMMA FetchReadsKnown ==
  ASSUME Typed, Known, NEW h \in Handler, FetchReads(h)
  PROVE  Known'
<1> USE DEF store, repos, counts, ghosts
<1>1. job[h] \in JobType /\ h \in Job
  BY DEF Typed, JobsTyped, Shaped, Job
<1>2. PICK b : b = [job[h] EXCEPT !.pc = "fetched",
                                  !.carries = remote[job[h].dest][job[h].url]]
  OBVIOUS
<1>3. job' = [job EXCEPT ![h] = b]
  BY <1>1, <1>2 DEF FetchReads, Typed, JobsTyped
<1>4. b.pc = "fetched"
  BY <1>1, <1>2 DEF JobType
<1>5. Steady
  BY RowsSteady DEF FetchReads
<1> QED
  BY <1>1, <1>3, <1>4, <1>5, KnownByIgnorant DEF Ignorant

(* A refresh: what it saw at the remote is there ...                       *)
LEMMA LsRemoteKnown ==
  ASSUME Typed, Known, NEW h \in Handler, LsRemote(h)
  PROVE  Known'
<1> USE DEF store, repos, counts, ghosts
<1>1. Shaped(job[h]) /\ Target(job[h]) /\ h \in Job
  BY DEF LsRemote, Typed, JobsTyped, Job, Shaped, Aimed, Comparing
<1>2. \A e \in Dest : dests'[e].url = dests[e].url
  BY <1>1, StatusRows DEF LsRemote, Target
<1>3. Steady
  BY <1>2, RowsSteady DEF LsRemote
<1>4. PICK b : /\ job' = [job EXCEPT ![h] = b]
               /\ \/ b = Idle
                  \/ b = [job[h] EXCEPT !.pc = "compare",
                                        !.carries = remote[job[h].dest][job[h].url]]
  BY DEF LsRemote
<1>5. CASE b = Idle
  BY <1>1, <1>3, <1>4, <1>5, AtRest, KnownByIgnorant DEF Ignorant
<1>6. CASE b = [job[h] EXCEPT !.pc = "compare",
                              !.carries = remote[job[h].dest][job[h].url]]
  <2>1. /\ b.pc = "compare" /\ b.dest = job[h].dest
        /\ b.carries = remote[job[h].dest][job[h].url]
    BY <1>1, <1>6 DEF Shaped, JobType
  <2>2. b.dest \notin touched => b.carries = remote[b.dest][dests[b.dest].url]
    BY <1>1, <2>1 DEF Target
  <2>3. b.dest \notin touched => At(b.dest)' = b.carries
    BY <1>1, <1>2, <2>1, <2>2 DEF At, LsRemote, Target
  <2>4. touched' = touched
    BY DEF LsRemote
  <2>5. JobKnows(b)'
    BY <2>1, <2>3, <2>4 DEF JobKnows, Pristine, Disturbed
  <2> QED
    BY <1>1, <1>3, <1>4, <2>1, <2>5, KnownByRefresh
<1> QED
  BY <1>4, <1>5, <1>6

(* ... and when it equals what the repository holds, so is all it knew.    *)
LEMMA CompareKnown ==
  ASSUME Typed, Known, NEW h \in Handler, Compare(h)
  PROVE  Known'
<1> USE DEF store, repos, counts, ghosts
<1>1. /\ Shaped(job[h]) /\ Target(job[h]) /\ job[h].repo \in Repo /\ JobKnows(job[h])
      /\ h \in Job
  BY DEF Compare, Typed, JobsTyped, Job, Shaped, Aimed, Comparing, Known
<1>2. Steady
  BY RowsSteady DEF Compare
<1>3. PICK b : /\ job' = [job EXCEPT ![h] = b]
               /\ \/ b = Idle
                  \/ \E verdict \in {"in_sync", "diverged"} :
                       /\ b = [job[h] EXCEPT !.pc = "record", !.verdict = verdict]
                       /\ verdict = "in_sync" => local[job[h].repo] = job[h].carries
  BY DEF Compare
<1>4. CASE b = Idle
  BY <1>1, <1>2, <1>3, <1>4, AtRest, KnownByIgnorant DEF Ignorant
<1>5. ASSUME NEW verdict \in {"in_sync", "diverged"},
             b = [job[h] EXCEPT !.pc = "record", !.verdict = verdict],
             verdict = "in_sync" => local[job[h].repo] = job[h].carries
      PROVE  Known'
  <2>1. /\ b.pc = "record" /\ b.dest = job[h].dest /\ b.verdict = verdict
        /\ b.knows = job[h].knows
    BY <1>1, <1>5 DEF Shaped, JobType
  <2>2. job[h].knows \subseteq local[job[h].repo] \/ job[h].knows = {}
    BY <1>1 DEF Shaped
  <2>3. job[h].pc = "compare" /\ UNCHANGED <<touched, crossed, pulled, remote, dests>>
    BY DEF Compare
  <2>4. Pristine(b.dest) /\ verdict = "in_sync" => b.knows \subseteq At(b.dest)
    BY <1>1, <1>5, <2>1, <2>2, <2>3 DEF JobKnows
  <2>5. JobKnows(b)'
    BY <2>1, <2>3, <2>4 DEF JobKnows, Pristine, Disturbed, At
  <2> QED
    BY <1>1, <1>2, <1>3, <2>1, <2>5, KnownByRefresh
<1> QED
  BY <1>3, <1>4, <1>5

(* The verdict is recorded.                                                *)
LEMMA RecordKnown ==
  ASSUME Typed, Known, NEW h \in Handler, Record(h)
  PROVE  Known'
<1> USE DEF store, repos, counts, ghosts
<1>1. PICK b : job' = [job EXCEPT ![h] = b] /\ b = Idle
  BY DEF Record
<1>2. job[h].dest \in Dest
  BY DEF Record, Typed, JobsTyped, Job, Shaped, Aimed, Comparing, Target
<1>3. \A e \in Dest : dests'[e].url = dests[e].url
  BY <1>2, StatusRows DEF Record
<1>4. Steady
  BY <1>3, RowsSteady DEF Record
<1> QED
  BY <1>1, <1>4, AtRest, KnownByIgnorant DEF Ignorant, Job

(* What is replaced makes everybody forget what is gone.                   *)
LEMMA BecomesKnown ==
  ASSUME Typed, Known, Steady, NEW h \in Handler, NEW r, NEW content, NEW next,
         Becomes(r, content, h, next), next.pc \in {"idle", "audit", "mark"}, next.knows = {}
  PROVE  Known'
<1>1. job'[h] = next
  BY BecomesJobs
<1>2. ASSUME NEW j \in Job, j # h
      PROVE  \E b : job'[j] = b /\ SameJob(job[j], b)
  <2>1. job[j] \in JobType
    BY DEF Typed, JobsTyped, Shaped
  <2>2. PICK b : b = job'[j] /\ (b = Recalls(job[j], content) \/ b = job[j])
    BY <1>2, BecomesJobs
  <2>3. SameJob(job[j], b)
    BY <2>1, <2>2, RecallsSame DEF SameJob
  <2> QED
    BY <2>2, <2>3
<1>3. ASSUME NEW j \in Job PROVE JobKnows(job[j])'
  <2>1. CASE j = h
    BY <1>1, <2>1 DEF JobKnows
  <2>2. CASE j # h
    <3>1. PICK b : job'[j] = b /\ SameJob(job[j], b)
      BY <1>2, <2>2
    <3>2. JobKnows(b)'
      BY <3>1, JobKnowsStill DEF Known
    <3> QED
      BY <3>1, <3>2
  <2> QED
    BY <2>1, <2>2
<1>4. ASSUME NEW j \in Job, NEW k \in Job, j # k PROVE InOrder(job[j], job[k])'
  <2>1. CASE j = h \/ k = h
    BY <1>1, <2>1 DEF InOrder
  <2>2. CASE j # h /\ k # h
    <3>1. PICK b : job'[j] = b /\ SameJob(job[j], b)
      BY <1>2, <2>2
    <3>2. PICK c : job'[k] = c /\ SameJob(job[k], c)
      BY <1>2, <2>2
    <3>3. InOrder(job[j], job[k]) /\ crossed \subseteq crossed'
      BY <1>4 DEF Known, Steady
    <3>4. InOrder(b, c)'
      BY <3>1, <3>2, <3>3, InOrderStill
    <3> QED
      BY <3>1, <3>2, <3>4
  <2> QED
    BY <2>1, <2>2
<1> QED
  BY <1>3, <1>4 DEF Known

(* A deletion does,                                                        *)
LEMMA DeleteKnown ==
  ASSUME Typed, Known, NEW h \in Handler, NEW r \in Repo, NEW ref,
         NEW kind \in {"write", "silent"}, Delete(h, r, ref, kind)
  PROVE  Known'
<1> USE DEF store
<1>1. PICK content, next :
        /\ content = {c \in local[r] : c[1] # ref} /\ next = Changed(r, kind, TRUE)
        /\ Becomes(r, content, h, next)
  BY DEF Delete
<1>2. Steady
  BY <1>1, BecomesSteady DEF Delete
<1>3. next.pc = "audit" /\ next.knows = {}
  BY <1>1, ChangedShape
<1> QED
  BY <1>1, <1>2, <1>3, BecomesKnown

(* and so does the end of a pull.                                          *)
LEMMA FetchEndsKnown ==
  ASSUME Typed, Known, NEW h \in Handler, FetchEnds(h)
  PROVE  Known'
<1> USE DEF store
<1>1. PICK content, next :
        /\ Becomes(job[h].repo, content, h, next)
        /\ next.knows = {} /\ next.pc \in {"idle", "mark"}
  BY FetchEndsTo
<1>2. job[h].repo \in Repo
  BY DEF FetchEnds, Typed, JobsTyped, Shaped, Job
<1>3. Steady
  BY <1>1, <1>2, BecomesSteady DEF FetchEnds
<1> QED
  BY <1>1, <1>3, BecomesKnown

(* An admin asks for a push, a pull or a refresh.                          *)
LEMMA AskKnown ==
  ASSUME Typed, Known, NEW h \in Handler, NEW d \in Dest,
         SyncNow(h, d) \/ Pull(h, d) \/ Refresh(h, d)
  PROVE  Known'
<1> USE DEF store, repos
<1>1. ASSUME NEW pc \in {"autofix", "fetch", "ls"}, NEW kind \in {"sync", "pull", "refresh"},
             Start(h, d, pc, kind), Steady
      PROVE  Known'
  <2>1. PICK b : b = [Idle EXCEPT !.pc = pc, !.kind = kind, !.repo = RepoOf[d], !.dest = d,
                                  !.url = dests[d].url, !.knows = announced[RepoOf[d]]]
    OBVIOUS
  <2>2. job' = [job EXCEPT ![h] = b] /\ b.pc = pc
    BY <1>1, <2>1 DEF Start, Idle
  <2> QED
    BY <1>1, <2>2, KnownByIgnorant DEF Ignorant, Job
<1>2. CASE SyncNow(h, d) \/ Pull(h, d)
  <2>1. Steady
    BY <1>2, RowsSteady DEF SyncNow, Pull, Act
  <2> QED
    BY <1>1, <1>2, <2>1 DEF SyncNow, Pull
<1>3. CASE Refresh(h, d)
  <2>1. \A e \in Dest : dests'[e].url = dests[e].url
    BY <1>3, StatusRows DEF Refresh
  <2>2. Steady
    BY <1>3, <2>1, RowsSteady DEF Refresh, Act
  <2> QED
    BY <1>1, <1>3, <2>2, KnownRests DEF Refresh
<1> QED
  BY <1>2, <1>3

(* What admins do to the store, the vault and the remote.                  *)
LEMMA AdminKnown ==
  ASSUME Typed, Known, NEW d \in Dest,
         \/ \E url \in Url, enabled \in BOOLEAN : Create(d, url, enabled) \/ Patch(d, url, enabled)
         \/ Remove(d) \/ DropCredential(d) \/ \E ref \in Branch : Outside(d, ref)
  PROVE  Known'
<1> USE DEF store, repos, counts, ghosts
<1>1. UNCHANGED job
  BY DEF Create, Patch, Remove, DropCredential, Outside
<1>2. CASE \E ref \in Branch : Outside(d, ref)
  BY <1>1, <1>2, OutsideSteady, KnownRests
<1>3. CASE ~ \E ref \in Branch : Outside(d, ref)
  <2>1. UNCHANGED <<local, remote, crossed, pulled>> /\ touched \subseteq touched'
    BY <1>3 DEF Create, Patch, Remove, DropCredential, Act
  <2>2. ASSUME NEW e \in Dest, dests[e].life # "new", e \notin touched'
        PROVE  dests'[e].url = dests[e].url
    <3>1. dests[e] \in Destination /\ dests \in [Dest -> Destination]
      BY DEF Typed, StoreTyped
    <3>2. ASSUME NEW url \in Url, NEW enabled \in BOOLEAN, Create(d, url, enabled)
          PROVE  dests'[e] = dests[e]
      BY <2>2, <3>1, <3>2 DEF Create
    <3>3. ASSUME NEW url \in Url, NEW enabled \in BOOLEAN, Patch(d, url, enabled)
          PROVE  dests'[e] = dests[e]
      BY <2>2, <3>1, <3>3 DEF Patch
    <3>4. CASE Remove(d)
      BY <3>1, <3>4 DEF Remove, Destination
    <3>5. CASE DropCredential(d)
      BY <3>5 DEF DropCredential
    <3> QED
      BY <1>3, <3>2, <3>3, <3>4, <3>5
  <2>3. Steady
    BY <2>1, <2>2, RowsSteady
  <2> QED
    BY <1>1, <2>3, KnownRests
<1> QED
  BY <1>2, <1>3

-----------------------------------------------------------------------------
(* The worker takes a repository, and turns to its destinations.           *)
LEMMA WorkerTurnsKnown ==
  ASSUME Typed, Known, Take \/ NextDest
  PROVE  Known'
<1> USE DEF store, repos, counts, ghosts
<1>1. Steady
  BY RowsSteady DEF Take, NextDest
<1>2. CASE Take
  <2>1. PICK w, todo :
          /\ w = [Idle EXCEPT !.pc = "next", !.kind = "worker", !.repo = Head(queue),
                              !.todo = todo]
          /\ job' = [job EXCEPT ![Worker] = w]
    BY <1>2 DEF Take
  <2>2. w.pc = "next"
    BY <2>1 DEF Idle
  <2> QED
    BY <1>1, <2>1, <2>2, KnownByIgnorant DEF Ignorant, Job
<1>3. CASE NextDest
  <2>1. PICK w : /\ job' = [job EXCEPT ![Worker] = w]
                 /\ w = Idle \/ \E t \in job[Worker].todo : w = Passed(t) \/ w = Turned(t)
    BY <1>3, NextDestTo
  <2>2. job[Worker] \in JobType /\ job[Worker].pc = "next"
    BY <1>3 DEF NextDest, Typed, JobsTyped, Shaped, Job
  <2>3. w.pc \in {"idle", "next", "push"}
    BY <2>1, <2>2, AtRest DEF Passed, Turned, JobType
  <2> QED
    BY <1>1, <2>1, <2>3, KnownByIgnorant DEF Ignorant, Job
<1> QED
  BY <1>2, <1>3

(* A push reads no less than was announced when it began, nor less than    *)
(* any push before it brought.                                             *)
LEMMA PushReadsKnown ==
  ASSUME Typed, Known, NEW j \in Job, PushReads(j)
  PROVE  Known'
<1> USE DEF store, repos, counts, ghosts
<1>1. Shaped(job[j]) /\ Target(job[j]) /\ job[j].pc = "push"
  BY DEF PushReads, Typed, JobsTyped, Shaped, Aimed, Passing
<1>2. UNCHANGED <<local, dests, remote, pulled>>
  BY DEF PushReads
<1>4. PICK b : b = [job[j] EXCEPT !.pc = "send", !.carries = local[job[j].repo]]
  OBVIOUS
<1>5. job' = [job EXCEPT ![j] = b]
  BY <1>1, <1>4 DEF PushReads, Typed, JobsTyped
<1>6. /\ b.pc = "send" /\ b.dest = job[j].dest /\ b.knows = job[j].knows
      /\ b.carries = local[RepoOf[b.dest]]
  BY <1>1, <1>4 DEF Shaped, JobType, Target
<1>7. b.knows \subseteq b.carries
  BY <1>1, <1>6 DEF Shaped, Target
<1>8. JobKnows(b)'
  BY <1>2, <1>6, <1>7 DEF JobKnows, Common
<1>9. job'[j] = b /\ \A k \in Job : k # j => job'[k] = job[k]
  BY <1>5 DEF Typed, JobsTyped
<1>10. ASSUME NEW k \in Job, k # j
       PROVE  InOrder(b, job[k])' /\ InOrder(job[k], b)'
  <2>1. job[k].dest = b.dest /\ b.dest \notin crossed' => job[k].pc \notin {"send", "sent"}
    BY <1>6, <1>10 DEF PushReads, Sending, Alone
  <2>2. job[k].dest = b.dest /\ job[k].pc = "mark" => job[k].knows \subseteq b.carries
    BY <1>6 DEF Typed, JobsTyped, Shaped, Aimed, Passing, Target
  <2> QED
    BY <1>6, <1>9, <1>10, <2>1, <2>2 DEF InOrder
<1>11. CASE ~ Alone(j)
  <2>1. Steady
    BY <1>2, <1>11, RowsSteady DEF PushReads
  <2> QED
    BY <1>5, <1>8, <1>10, <2>1, KnownByJob
<1>12. CASE Alone(j)
  <2>1. ASSUME NEW k \in Job, k # j PROVE job[k].dest # b.dest
    BY <1>6, <1>12, <2>1 DEF Alone
  <2>2. \A e : e # b.dest => (e \in crossed' <=> e \in crossed)
                           /\ (e \in Disturbed' <=> e \in Disturbed)
    BY <1>6, <1>12 DEF PushReads, Disturbed
  <2>3. ASSUME NEW k \in Job PROVE JobKnows(job[k])'
    <3>1. CASE k = j
      BY <1>8, <1>9, <3>1
    <3>2. CASE k # j
      <4>1. PICK c : c = job[k] /\ job'[k] = c
        BY <1>9, <3>2
      <4>2. /\ c.dest \in Disturbed' <=> c.dest \in Disturbed
            /\ Pristine(c.dest)' <=> Pristine(c.dest)
        BY <1>2, <2>1, <2>2, <3>2, <4>1 DEF Pristine
      <4>3. At(c.dest)' = At(c.dest) /\ Common(c.dest)' = Common(c.dest)
        BY <1>2 DEF At, Common
      <4>4. JobKnows(c)'
        BY <1>2, <4>1, <4>2, <4>3 DEF JobKnows, Known
      <4> QED
        BY <4>1, <4>4
    <3> QED
      BY <3>1, <3>2
  <2>4. ASSUME NEW k \in Job, NEW l \in Job, k # l PROVE InOrder(job[k], job[l])'
    <3>1. CASE k = j \/ l = j
      BY <1>9, <1>10, <2>4, <3>1 DEF InOrder
    <3>2. CASE k # j /\ l # j
      <4>1. InOrder(job[k], job[l]) /\ job[k].dest # b.dest
        BY <2>1, <2>4, <3>2 DEF Known
      <4> QED
        BY <1>9, <2>2, <3>2, <4>1 DEF InOrder
    <3> QED
      BY <3>1, <3>2
  <2> QED
    BY <2>3, <2>4 DEF Known
<1> QED
  BY <1>11, <1>12

(* When a push arrives that crossed no other, it takes away nothing that   *)
(* others brought, nor what the repository and the remote had in common.   *)
LEMMA PushEndsKnown ==
  ASSUME Typed, Known, NEW j \in Job, PushEnds(j)
  PROVE  Known'
<1> USE DEF store, repos, counts, ghosts
<1>1. Shaped(job[j]) /\ Target(job[j]) /\ job[j].pc = "send" /\ JobKnows(job[j])
  BY DEF PushEnds, Typed, JobsTyped, Shaped, Aimed, Passing, Known
<1>2. PICK refs \in SUBSET Ref, verdict \in {"ok", "error"} :
        /\ job' = [job EXCEPT ![j] = Ended(j, verdict)]
        /\ remote' = Sent(j, refs)
        /\ verdict = "ok" => refs = Ref
  BY PushEndsTo
<1>3. PICK b : b = Ended(j, verdict) /\ job' = [job EXCEPT ![j] = b]
  BY <1>2
<1>4. /\ b.pc = "sent" /\ b.dest = job[j].dest /\ b.knows = job[j].knows
      /\ b.verdict = verdict
  BY <1>1, <1>3 DEF Ended, Shaped, JobType
<1>5. UNCHANGED <<local, dests, touched, crossed, pulled>>
  BY DEF PushEnds
<1>6. job'[j] = b /\ \A k \in Job : k # j => job'[k] = job[k]
  BY <1>3 DEF Typed, JobsTyped
<1>7. ASSUME NEW d, d = b.dest, d \notin touched
      PROVE  /\ At(d) \cap job[j].carries \subseteq At(d)'
             /\ verdict = "ok" => job[j].carries \subseteq At(d)'
  <2>1. job[j].url = dests[d].url /\ job[j].carries \in Content
    BY <1>1, <1>4, <1>7 DEF Target, Shaped, JobType
  <2>2. At(d)' = Forced(At(d), job[j].carries, refs)
    <3>1. remote'[d][job[j].url] = Forced(remote[d][job[j].url], job[j].carries, refs)
      BY <1>1, <1>2, <1>4, <1>7, SentTo
    <3> QED
      BY <1>5, <2>1, <3>1 DEF At
  <2> QED
    BY <1>2, <2>1, <2>2, ForceBounds, ForceBrings
<1>8. JobKnows(b)'
  <2>1. b.knows \subseteq job[j].carries
    BY <1>1, <1>4 DEF JobKnows
  <2>2. verdict = "ok" => b.dest \in Disturbed \/ b.knows \subseteq At(b.dest)'
    BY <1>7, <2>1 DEF Disturbed
  <2> QED
    BY <1>4, <1>5, <2>2 DEF JobKnows, Disturbed
<1>9. ASSUME NEW k \in Job, k # j PROVE JobKnows(job[k])'
  <2>1. PICK c : c = job[k] /\ job'[k] = c
    BY <1>6, <1>9
  <2>2. Shaped(c) /\ JobKnows(c) /\ InOrder(job[j], c)
    BY <1>9, <2>1 DEF Typed, JobsTyped, Known
  <2>3. CASE c.dest = b.dest /\ c.dest \notin Disturbed
    <3>1. At(c.dest) \cap job[j].carries \subseteq At(c.dest)'
      BY <1>7, <2>3 DEF Disturbed
    <3>2. c.pc \notin {"send", "sent"} /\ (c.pc = "mark" => c.knows \subseteq job[j].carries)
      BY <1>1, <1>4, <2>2, <2>3 DEF InOrder, Disturbed
    <3>3. Pristine(c.dest) => Common(c.dest) \subseteq At(c.dest)'
      BY <1>1, <1>4, <2>3, <3>1 DEF JobKnows, Common
    <3>9. c.pc = "mark" => c.knows \subseteq At(c.dest)'
      BY <2>2, <2>3, <3>1, <3>2 DEF JobKnows
    <3>4. c.pc \in {"compare", "record"} => c.repo = RepoOf[c.dest]
      BY <2>2 DEF Shaped, Aimed, Comparing, Target
    <3>5. Pristine(c.dest) /\ c.pc = "compare" =>
            c.carries \cap local[c.repo] \subseteq Common(c.dest)
      BY <2>2, <3>4 DEF JobKnows, Common
    <3>6. Pristine(c.dest) /\ c.pc = "record" /\ c.verdict = "in_sync" =>
            c.knows \subseteq Common(c.dest)
      <4>1. c.knows \subseteq local[c.repo]
        BY <2>2 DEF Shaped
      <4> QED
        BY <2>2, <3>4, <4>1 DEF JobKnows, Common
    <3>7. Pristine(c.dest)' <=> Pristine(c.dest)
      BY <1>5 DEF Pristine, Disturbed
    <3>8. JobKnows(c)'
      BY <1>5, <3>2, <3>3, <3>5, <3>6, <3>7, <3>9 DEF JobKnows
    <3> QED
      BY <2>1, <3>8
  <2>4. CASE ~ (c.dest = b.dest /\ c.dest \notin Disturbed)
    <3>1. c.dest \in Dest \ Disturbed => At(c.dest)' = At(c.dest)
      <4>1. ASSUME c.dest \in Dest \ Disturbed PROVE remote'[c.dest] = remote[c.dest]
        BY <1>1, <1>2, <1>4, <2>4, <4>1, SentTo
      <4> QED
        BY <1>5, <4>1 DEF At
    <3>2. c.pc \in Passing => c.dest \in Dest
      BY <2>2 DEF Shaped, Aimed, Target
    <3>3. Disturbed' = Disturbed /\ (Pristine(c.dest)' <=> Pristine(c.dest))
      BY <1>5 DEF Disturbed, Pristine
    <3>4. Pristine(c.dest) => Common(c.dest)' = Common(c.dest) /\ c.dest \in Dest \ Disturbed
      BY <1>5, <3>1 DEF Pristine, Common
    <3>5. JobKnows(c)'
      BY <1>5, <2>2, <3>1, <3>2, <3>3, <3>4 DEF JobKnows, Passing
    <3> QED
      BY <2>1, <3>5
  <2> QED
    BY <2>3, <2>4
<1>10. ASSUME NEW k \in Job, NEW l \in Job, k # l PROVE InOrder(job[k], job[l])'
  <2>1. InOrder(job[k], job[l])
    BY <1>10 DEF Known
  <2>2. CASE k = j
    BY <1>4, <1>6, <2>2 DEF InOrder
  <2>3. CASE l = j
    BY <1>1, <1>4, <1>5, <1>6, <1>10, <2>1, <2>3 DEF InOrder
  <2>4. CASE k # j /\ l # j
    BY <1>5, <1>6, <2>1, <2>4 DEF InOrder
  <2> QED
    BY <2>2, <2>3, <2>4
<1>11. \A k \in Job : JobKnows(job[k])'
  BY <1>6, <1>8, <1>9
<1> QED
  BY <1>10, <1>11 DEF Known

(* It records how it ended,                                                *)
LEMMA RecordSyncKnown ==
  ASSUME Typed, Known, NEW j \in Job, RecordSync(j)
  PROVE  Known'
<1> USE DEF store, repos, counts, ghosts
<1>1. /\ Shaped(job[j]) /\ Target(job[j]) /\ job[j].pc = "sent" /\ JobKnows(job[j])
  BY DEF RecordSync, RecordSyncAs, Typed, JobsTyped, Shaped, Aimed, Passing, Known
<1>2. PICK b : /\ job' = [job EXCEPT ![j] = b]
               /\ (b = Marking(j) /\ job[j].verdict = "ok") \/ b = Done(j)
  BY DEF RecordSync, RecordSyncAs
<1>3. \A e \in Dest : dests'[e].url = dests[e].url
  BY <1>1, SyncRows DEF RecordSync, RecordSyncAs, Target
<1>4. UNCHANGED <<local, remote, touched, crossed, pulled>>
  BY DEF RecordSync, RecordSyncAs
<1>5. Steady
  BY <1>3, <1>4, RowsSteady
<1>6. CASE b = Marking(j) /\ job[j].verdict = "ok"
  <2>1. b.pc = "mark" /\ b.dest = job[j].dest /\ b.knows = job[j].knows
    BY <1>1, <1>6 DEF Marking, Shaped, JobType
  <2>2. b.dest \in Disturbed \/ b.knows \subseteq At(b.dest)
    BY <1>1, <1>6, <2>1 DEF JobKnows
  <2>3. At(b.dest)' = At(b.dest)
    BY <1>1, <1>3, <1>4, <2>1 DEF At, Target
  <2>4. JobKnows(b)'
    BY <1>4, <2>1, <2>2, <2>3 DEF JobKnows, Disturbed
  <2>5. ASSUME NEW k \in Job, k # j
        PROVE  InOrder(b, job[k])' /\ InOrder(job[k], b)'
    <3>1. InOrder(job[k], job[j]) /\ job'[k] = job[k]
      BY <1>2, <2>5 DEF Known, Typed, JobsTyped
    <3> QED
      BY <1>1, <1>4, <2>1, <3>1 DEF InOrder
  <2> QED
    BY <1>2, <1>5, <2>4, <2>5, KnownByJob
<1>7. CASE b = Done(j)
  BY <1>2, <1>5, <1>7, DoneRests, KnownByIgnorant DEF Ignorant
<1> QED
  BY <1>2, <1>6, <1>7

(* and sets the badge.                                                     *)
LEMMA MarkKnown ==
  ASSUME Typed, Known, NEW j \in Job, Mark(j)
  PROVE  Known'
<1> USE DEF store, repos, counts, ghosts
<1>1. PICK b : job' = [job EXCEPT ![j] = b] /\ b = Done(j)
  BY DEF Mark
<1>2. job[j].dest \in Dest
  BY DEF Mark, Typed, JobsTyped, Shaped, Aimed, Passing, Target
<1>3. \A e \in Dest : dests'[e].url = dests[e].url
  BY <1>2, StatusRows DEF Mark
<1>4. Steady
  BY <1>3, RowsSteady DEF Mark
<1> QED
  BY <1>1, <1>4, DoneRests, KnownByIgnorant DEF Ignorant

(* The worker knows nothing after a panic,                                 *)
LEMMA PanicKnown ==
  ASSUME Typed, Known, Panic
  PROVE  Known'
<1> USE DEF store, repos
<1>1. PICK b : job' = [job EXCEPT ![Worker] = b] /\ b = Idle
  BY DEF Panic
<1>2. Steady
  BY RowsSteady DEF Panic
<1> QED
  BY <1>1, <1>2, AtRest, KnownByIgnorant DEF Ignorant, Job

(* and nobody anything after a restart.                                     *)
LEMMA CrashKnown ==
  ASSUME Crash
  PROVE  Known'
<1>1. PICK b : b = Idle
  OBVIOUS
<1>2. \A j \in Job : job'[j] = b
  BY <1>1 DEF Crash
<1>3. Ignorant(b)
  BY <1>1, AtRest DEF Ignorant
<1>4. JobKnows(b)' /\ InOrder(b, b)'
  BY <1>3 DEF Ignorant, JobKnows, InOrder
<1> QED
  BY <1>2, <1>4 DEF Known

(* Every step keeps it.                                                    *)
LEMMA NextKnown ==
  ASSUME Typed, Known, [Next]_vars
  PROVE  Known'
<1>1. CASE UNCHANGED vars
  <2>1. Steady
    BY <1>1, RowsSteady DEF vars
  <2> QED
    BY <1>1, <2>1, KnownRests DEF vars
<1>2. ASSUME NEW h \in Handler,
             \/ \E r \in Repo, ref \in Branch :
                  \/ \E fixed \in BOOLEAN : Write(h, r, ref, "write", fixed)
                  \/ Write(h, r, ref, "silent", TRUE)
                  \/ \E kind \in {"write", "silent"} : Delete(h, r, ref, kind)
             \/ \E d \in Dest : SyncNow(h, d) \/ Pull(h, d) \/ Refresh(h, d)
      PROVE  Known'
  BY <1>2, WriteKnown, DeleteKnown, AskKnown
<1>3. ASSUME NEW j \in Job, Pushing(j)
      PROVE  Known'
  BY <1>3, PushReadsKnown, PushEndsKnown, RecordSyncKnown, MarkKnown DEF Pushing
<1>4. ASSUME NEW h \in Handler, Handling(h)
      PROVE  Known'
  BY <1>3, <1>4, AuditKnown, InvalidateKnown, EnqueueKnown, FetchReadsKnown, FetchEndsKnown,
     LsRemoteKnown, CompareKnown, RecordKnown
  DEF Handling, Job
<1>5. CASE Working
  BY <1>3, <1>5, WorkerTurnsKnown DEF Working, Job
<1>6. ASSUME NEW d \in Dest,
             \/ \E url \in Url, enabled \in BOOLEAN :
                  Create(d, url, enabled) \/ Patch(d, url, enabled)
             \/ Remove(d) \/ DropCredential(d) \/ \E ref \in Branch : Outside(d, ref)
      PROVE  Known'
  BY <1>6, AdminKnown
<1> QED
  BY <1>1, <1>2, <1>4, <1>5, <1>6, PanicKnown, CrashKnown DEF Next

(* When a push, the worker's or an admin's, sets the badge of a            *)
(* destination to which no two pushes were under way at once and that no   *)
(* admin changed, it has everything that was announced before that push    *)
(* began and was not deleted since; and so it has when a refresh sets the  *)
(* badge, unless a pull replaced what the repository holds.  It may have   *)
(* more than that: nobody prunes.                                          *)
THEOREM BadgesAreWorthIt == Spec => BadgeKnows
<1>1. Init => Known
  <2>1. SUFFICES ASSUME Init PROVE Known
    OBVIOUS
  <2>2. PICK b : b = Idle
    OBVIOUS
  <2>3. Ignorant(b) /\ \A j \in Job : job[j] = b
    BY <2>1, <2>2, AtRest DEF Init, Ignorant
  <2>4. JobKnows(b) /\ InOrder(b, b)
    BY <2>3 DEF Ignorant, JobKnows, InOrder
  <2> QED
    BY <2>3, <2>4 DEF Known
<1>2. ASSUME Typed, Known, [Next]_vars
      PROVE  [\A j \in Job :
                LET d == job[j].dest IN
                \/ Mark(j) /\ d \in Live \ Disturbed
                \/ /\ job[j].verdict = "in_sync" /\ Record(j) /\ d \in Live \ Disturbed
                   /\ RepoOf[d] \notin pulled
                => job[j].knows \subseteq At(d)]_vars
  BY <1>2, KnownIsWorth
<1>3. Spec => [](Typed /\ Known)
  BY <1>1, InitTyped, NextTyped, NextKnown, PTL DEF Spec
<1> QED
  BY <1>2, <1>3, PTL DEF Spec, BadgeKnows
=============================================================================
