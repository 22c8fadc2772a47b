----------------------------- MODULE AuditTrail -----------------------------
(***************************************************************************)
(* The audit chain of a repository, refs/audit/main: who appends to it,    *)
(* and what of the moves of the branches it comes to tell.                 *)
(*                                                                         *)
(* A git push is audited by comparing two listings of the branches, made   *)
(* before and after git receive-pack.  A write through the API appends an  *)
(* entry of its own.  A repository that has commits and no chain, because  *)
(* it was cloned or is older than the chain, gets an entry for each commit *)
(* of its default branch.  Each append reads the head of the chain and     *)
(* moves it by a compare-and-swap, a limited number of times.              *)
(***************************************************************************)
EXTENDS Naturals, FiniteSets, SequencesExt

CONSTANTS
  Pusher,       \* the goroutines that serve git-receive-pack
  Writer,       \* and those that commit through the API
  Seeder,       \* the one that makes the repository, or starts the server
  Branch, Main, \* the branches; the default one
  Attempts,     \* maxAttempts of AppendAudit
  MaxMoves      \* bound on the moves of branches

ASSUME AuditAssumption ==
  /\ Main \in Branch /\ IsFiniteSet(Branch) /\ Attempts \in Nat \ {0} /\ MaxMoves \in Nat
  /\ Seeder \notin Pusher \cup Writer /\ Pusher \cap Writer = {}

VARIABLES
  ref,        \* the commit each branch points at, 0 if it does not exist
  log,        \* the history of each commit, oldest first
  trail,      \* the entries of the chain, oldest first
  guarded,    \* whether the pre-receive hook is installed
  phase,      \* the server is down, starts, or serves
  job,        \* what each goroutine is doing
  moves,      \* how many more there may be
  newest,     \* the commit each branch was last moved to, if the move made it
  dropped     \* the branches whose last move an error kept from the chain

auditVars == <<ref, log, trail, guarded, phase, job, moves, newest, dropped>>

Worker == Pusher \cup Writer \cup {Seeder}
NoList == [b \in {} |-> 0]
Free == [pc |-> "idle", pre |-> NoList, todo |-> <<>>, head |-> <<>>, tries |-> 0,
         moved |-> {}]
Working == {w \in Worker : job[w].pc # "idle"}

Entry(by, b, c) == [by |-> by, branch |-> b, commit |-> c]
Made == Entry("create", Main, 0)

\* git log --reverse
History(c) == IF c = 0 THEN <<>> ELSE log[c]

\* The repository was made empty or cloned, with the hook if it could be
\* installed.
AuditInit ==
  /\ trail = <<>> /\ moves \in 0..MaxMoves
  /\ newest = [b \in Branch |-> 0] /\ dropped = {}
  /\ \/ /\ log = <<>> /\ ref = [b \in Branch |-> 0]
        /\ phase = "serve" /\ guarded = TRUE
        /\ job = [w \in Worker |-> IF w = Seeder THEN [Free EXCEPT !.pc = "append", !.todo = <<Made>>]
                                   ELSE Free]
     \/ /\ log = <<<<1>>, <<1, 2>>>> /\ ref = [b \in Branch |-> IF b = Main THEN 2 ELSE 1]
        /\ phase = "serve" /\ guarded \in BOOLEAN
        /\ job = [w \in Worker |-> IF w = Seeder THEN [Free EXCEPT !.pc = "check", !.todo = <<Made>>]
                                   ELSE Free]

Goes(w, j) == job' = [job EXCEPT ![w] = j]

-----------------------------------------------------------------------------
(* Moves of the branches.                                                  *)

Point(b, c) ==
  /\ ref' = [ref EXCEPT ![b] = c]
  /\ moves > 0 /\ moves' = moves - 1
  /\ dropped' = dropped \ {b}

NewCommit(b, from) ==
  /\ log' = Append(log, Append(History(from), Len(log) + 1))
  /\ newest' = [newest EXCEPT ![b] = Len(log) + 1]
  /\ Point(b, Len(log) + 1)

\* handleGitService lists the branches, or logs that it could not.
BeginPush(p) ==
  /\ phase = "serve" /\ job[p].pc = "idle"
  /\ \E pre \in {ref, NoList} : Goes(p, [Free EXCEPT !.pc = "receive", !.pre = pre])
  /\ UNCHANGED <<ref, log, trail, guarded, phase, moves, newest, dropped>>

\* git receive-pack updates each branch once: to a new commit on top of it or
\* beside it, to a commit there is, or not to be.
Receive(p, b) ==
  /\ job[p].pc = "receive" /\ b \notin job[p].moved
  /\ \/ \E from \in {0, ref[b]} : NewCommit(b, from)
     \/ /\ \E c \in (0..Len(log)) \ {ref[b]} : Point(b, c)
        /\ newest' = [newest EXCEPT ![b] = 0] /\ UNCHANGED log
  /\ Goes(p, [job[p] EXCEPT !.moved = @ \cup {b}])
  /\ UNCHANGED <<trail, guarded, phase>>

\* A push to refs/audit is refused by the hook; without it the chain is what
\* the client makes it.
ReceiveTrail(p) ==
  /\ job[p].pc = "receive" /\ ~guarded
  /\ trail' = <<>> /\ moves > 0 /\ moves' = moves - 1
  /\ dropped' = Branch
  /\ UNCHANGED <<ref, log, guarded, phase, job, newest>>

\* Mutant: a branch that was not there before is not a change.
ChangedOnly(pre) == {b \in Branch : pre[b] # 0 /\ pre[b] # ref[b]}

\* DiffRefSnapshots
Changed(pre) == {b \in Branch : pre[b] # ref[b]}

Changes(pre) ==
  LET bs == SetToSeq(Changed(pre))
  IN [i \in DOMAIN bs |-> Entry("push", bs[i], IF ref[bs[i]] = 0 THEN pre[bs[i]] ELSE ref[bs[i]])]

\* receive-pack ends and the branches are listed again.  If either fails, or
\* the first listing did, nobody tells what moved.
Received(p) ==
  /\ job[p].pc = "receive"
  /\ \/ /\ job[p].pre # NoList
        /\ Goes(p, IF Changed(job[p].pre) = {} THEN Free
                   ELSE [Free EXCEPT !.pc = "append", !.todo = Changes(job[p].pre)])
        /\ UNCHANGED dropped
     \/ Goes(p, Free) /\ dropped' = dropped \cup job[p].moved
  /\ UNCHANGED <<ref, log, trail, guarded, phase, moves, newest>>

\* A write through the API: the commit lands on the default branch (module
\* RepoWrite) and the handler appends its entry.
Write(w) ==
  /\ phase = "serve" /\ job[w].pc = "idle"
  /\ NewCommit(Main, ref[Main])
  /\ Goes(w, [Free EXCEPT !.pc = "append", !.todo = <<Entry("write", Main, Len(log) + 1)>>])
  /\ UNCHANGED <<trail, guarded, phase>>

-----------------------------------------------------------------------------
(* AppendAudit.                                                            *)

\* What is left to append when the first entry is done with.  A seeding that
\* failed goes no further, but the making of the repository is told.
Onward(w, done) ==
  LET rest == Tail(job[w].todo)
      left == IF done \/ w # Seeder THEN rest
              ELSE IF rest # <<>> /\ Last(rest) = Made THEN <<Made>> ELSE <<>>
  IN IF left = <<>> THEN Free ELSE [Free EXCEPT !.pc = "append", !.todo = left]

ReadHead(w) ==
  /\ job[w].pc = "append"
  /\ Goes(w, [job[w] EXCEPT !.pc = "cas", !.head = trail])
  /\ UNCHANGED <<ref, log, trail, guarded, phase, moves, newest, dropped>>

\* Mutant: the chain is moved whatever it has become.
CurrentOrNot(w) == TRUE

Current(w) == job[w].head = trail

\* Mutant: one round too many.
OneMore(w) == job[w].tries < Attempts

MayRetry(w) == job[w].tries + 1 < Attempts

\* updateRefCASAny
Extend(w) ==
  /\ job[w].pc = "cas" /\ Current(w)
  /\ trail' = Append(job[w].head, Head(job[w].todo))
  /\ Goes(w, Onward(w, TRUE))
  /\ UNCHANGED <<ref, log, guarded, phase, moves, newest, dropped>>

\* updateRefCASAny failed: the chain moved, or git says no for a reason of
\* its own, which the loop does not look at.
LoseRace(w) ==
  /\ job[w].pc = "cas" /\ MayRetry(w)
  /\ Goes(w, [job[w] EXCEPT !.pc = "append", !.head = <<>>, !.tries = @ + 1])
  /\ UNCHANGED <<ref, log, trail, guarded, phase, moves, newest, dropped>>

\* appendAudit: any error, and the last failed round, is logged and the entry
\* dropped.
AppendFails(w) ==
  /\ \/ job[w].pc = "append"
     \/ job[w].pc = "cas" /\ ~MayRetry(w)
  /\ dropped' = dropped \cup {Head(job[w].todo).branch}
  /\ Goes(w, Onward(w, FALSE))
  /\ UNCHANGED <<ref, log, trail, guarded, phase, moves, newest>>

-----------------------------------------------------------------------------
(* SeedAuditFromHistory, when a repository was cloned and for all of them  *)
(* when the server starts.                                                 *)

\* Mutant: a chain that exists is seeded again.
SeedsAny == TRUE

SeedsEmpty == trail = <<>>

Seeds(c) == [i \in DOMAIN History(c) |-> Entry("backfill", Main, History(c)[i])]

SeedCheck ==
  LET made == job[Seeder].todo
  IN /\ job[Seeder].pc = "check"
     /\ Goes(Seeder, IF SeedsEmpty THEN [job[Seeder] EXCEPT !.pc = "list"]
                     ELSE IF made = <<>> THEN Free
                     ELSE [job[Seeder] EXCEPT !.pc = "append"])
     /\ UNCHANGED <<ref, log, trail, guarded, phase, moves, newest, dropped>>

SeedList ==
  LET todo == Seeds(ref[Main]) \o job[Seeder].todo
  IN /\ job[Seeder].pc = "list"
     /\ Goes(Seeder, IF todo = <<>> THEN Free
                     ELSE [job[Seeder] EXCEPT !.pc = "append", !.todo = todo])
     /\ UNCHANGED <<ref, log, trail, guarded, phase, moves, newest, dropped>>

\* New writes the hooks, logs those it could not write, and seeds.
AuditBoot ==
  /\ phase = "down" /\ phase' = "boot"
  /\ guarded' \in BOOLEAN
  /\ Goes(Seeder, [Free EXCEPT !.pc = "check"])
  /\ UNCHANGED <<ref, log, trail, moves, newest, dropped>>

AuditServe ==
  /\ phase = "boot" /\ job[Seeder].pc = "idle" /\ phase' = "serve"
  /\ UNCHANGED <<ref, log, trail, guarded, job, moves, newest, dropped>>

\* Whatever was to be appended is forgotten.
Untold(w) == job[w].moved \cup {job[w].todo[i].branch : i \in DOMAIN job[w].todo}

AuditStop ==
  /\ phase # "down" /\ phase' = "down"
  /\ dropped' = dropped \cup UNION {Untold(w) : w \in Working}
  /\ job' = [w \in Worker |-> Free]
  /\ UNCHANGED <<ref, log, trail, guarded, moves, newest>>

-----------------------------------------------------------------------------
Appends(w) == ReadHead(w) \/ Extend(w) \/ LoseRace(w) \/ AppendFails(w)

AuditNext ==
  \/ \E w \in Worker : Appends(w)
  \/ \E w \in Writer : Write(w)
  \/ \E p \in Pusher : \/ ReceiveTrail(p) \/ \E b \in Branch : Receive(p, b)
  \/ SeedCheck \/ SeedList

-----------------------------------------------------------------------------
(* Properties.                                                             *)

AuditTypeOK ==
  /\ ref \in [Branch -> 0..Len(log)] /\ \A c \in DOMAIN log : Last(log[c]) = c
  /\ phase \in {"down", "boot", "serve"} /\ guarded \in BOOLEAN
  /\ \A w \in Worker :
       /\ job[w].pc \in {"idle", "receive", "check", "list", "append", "cas"}
       /\ job[w].pc \in {"append", "cas"} => job[w].todo # <<>>
       /\ job[w].tries < Attempts
  /\ phase = "boot" => Working \subseteq {Seeder}
  /\ phase = "down" => Working = {}

\* The chain only grows, whoever appends at once, unless the repository lacks
\* the hook that keeps clients from it (git/audit.go: AppendAudit;
\* git/manager.go: installAuditGuard).
TrailGrows == [][IsPrefix(trail, trail') \/ ~guarded]_auditVars

\* Once nobody is at work on the repository, the chain tells of the commit a
\* branch stands at, if its last move made it, unless an error or a stop kept it
\* from the chain (handler_git.go: auditPushedRefs; server/audit.go).
HeadsAudited ==
  Working = {} =>
    \A b \in Branch \ dropped :
      ref[b] # 0 /\ ref[b] = newest[b] =>
        \E i \in DOMAIN trail : trail[i].commit = ref[b] /\ trail[i].branch = b

\* The back-fill tells of no commit twice and of none before its parent
\* (git/audit.go: SeedAuditFromHistory).
SeededOnce ==
  guarded =>
    \A i, j \in DOMAIN trail :
      i < j /\ trail[i].by = "backfill" /\ trail[j].by = "backfill" =>
        trail[i].commit < trail[j].commit

\* AppendAudit is an atomic append, whoever appends at once: the refinement
\* mapping takes the entries a goroutine has left while it is in the loop
\* (git/audit.go: AppendAudit).
Planned ==
  [w \in Worker |-> IF job[w].pc \in {"append", "cas"} THEN job[w].todo ELSE <<>>]
Log == INSTANCE AuditLog WITH
         Appender <- Worker, chain <- trail, plan <- Planned, open <- ~guarded
ImplementsAuditLog == Log!LogSpec
=============================================================================
