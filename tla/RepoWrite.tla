----------------------------- MODULE RepoWrite ------------------------------
(***************************************************************************)
(* Concurrent writers on the default branch of one bare repository.        *)
(*                                                                         *)
(* GiGot holds no lock on a repository.  Manager.WriteFile and             *)
(* Manager.Commit (internal/git/write.go, commit.go) build the caller's    *)
(* commit on the parent version it names, then loop: read HEAD, decide     *)
(* between fast-forward, refusal and merge, and publish the outcome with   *)
(* `git update-ref ref next expect`, which fails if the branch moved since *)
(* HEAD was read -- or for any other reason, which the loop cannot tell    *)
(* apart.  After MaxAttempts failures the call gives up.                   *)
(*                                                                         *)
(* In front of the loop stand the handlers of internal/server.  PUT        *)
(* /files and POST /commits first merge Formidable records field by field  *)
(* into the HEAD they read, and make that HEAD the parent of the whole     *)
(* change set.  The server's own writers (the .gitignore autofix, and the  *)
(* conversion to Formidable shape) plan their changes from the HEAD they   *)
(* read and name "HEAD" as the parent, which the loop resolves later.      *)
(* `git push` through git-receive-pack and pulls from a mirror move the    *)
(* branch too, beside all of these.                                        *)
(*                                                                         *)
(* Git objects are immutable and addressed by content, so a step of the    *)
(* model is one access to the branch; the objects computed from what it    *)
(* saw appear when the branch first reaches them, and objects the branch   *)
(* never reaches are left out.                                             *)
(***************************************************************************)
EXTENDS Merge3, Naturals, Sequences

CONSTANTS
  Writer,        \* concurrent request goroutines
  Request,       \* the change sets clients submit
  PushTree,      \* the trees clients push over smart HTTP
  Broken,        \* the texts that keep a file from being parsed
  RecordPath,    \* storage/<template>/<name>.meta.json paths of the repository
  MarkerPath,    \* .formidable/context.json
  StarterPath,   \* the places the conversion fills when nothing is there
  IgnorePath,    \* .gitignore
  EntryHunk,     \* the line of .gitignore that lists .formidable/sync.json
  Starter,       \* the embedded scaffold: the files the server writes itself
  MaxAttempts,   \* maxAttempts of both loops
  MaxCalls,      \* bound on the requests, pushes and pulls of a behaviour
  MaxRewinds     \* bound on how many of them replace the branch

ASSUME RequestAssumption ==
  /\ Request \subseteq ChangeSet
  /\ PushTree \subseteq Tree
ASSUME ScaffoldAssumption ==
  /\ IgnorePath \in Path
  /\ EntryHunk \in Hunk
  /\ StarterPath \subseteq Path \ {IgnorePath}
  /\ RecordPath \subseteq Path
  /\ MarkerPath \in StarterPath
  /\ Broken \subseteq Text
  /\ Starter \in [StarterPath \cup {IgnorePath} -> [Hunk -> Text]]
ASSUME BoundAssumption ==
  /\ MaxAttempts \in Nat \ {0}
  /\ MaxCalls \in Nat
  /\ MaxRewinds \in Nat

VARIABLES
  store,      \* the commits the branch has reached, as [hist, tree] records
  head,       \* the commit refs/heads/<default> names, 0 before the first
  rewinds,    \* how many updates of the branch replaced its history
  acked,      \* the versions answered to writers, in that order
  call,       \* what each writer is doing
  calls       \* requests, pushes and pulls so far (bounded by MaxCalls)

vars == <<store, head, rewinds, acked, call, calls>>

Version == DOMAIN store
TreeAt(v) == store[v].tree
Hist(v) == IF v = 0 THEN {} ELSE store[v].hist

Busy == {"autofix", "plan", "resolve", "read", "cas"}

NoChange == [p \in {} |-> Absent]
Idle == [pc |-> "idle", kind |-> "none", asked |-> 0, wants |-> NoChange,
         base |-> 0, change |-> NoChange, seen |-> 0,
         tries |-> 0]

Init ==
  /\ store = <<>>
  /\ head = 0
  /\ rewinds = 0
  /\ acked = <<>>
  /\ call = [w \in Writer |-> Idle]
  /\ calls = 0

-----------------------------------------------------------------------------
(* Handlers, up to the call of WriteFile or Commit.                        *)

Arrive(w) ==
  /\ call[w].pc \notin Busy
  /\ head # 0                    \* Manager.Head otherwise answers ErrRepoEmpty
  /\ calls < MaxCalls
  /\ calls' = calls + 1
  /\ UNCHANGED <<store, head, rewinds, acked>>

(* ParseRecord and isValidFormidableMarker: the file is there and readable.*)
Parses(file) == file # Absent /\ \A h \in Hunk : file[h] \notin Broken

(* isFormidableRepoAtHEAD, of the tree at HEAD.                            *)
Formidable(tree) == Parses(tree[MarkerPath])

(* The structured merge takes a path over when its three sides parse; a    *)
(* record that is new, deleted or malformed on one of them is left to git. *)
Mergeable(base, theirs, yours) == Parses(base) /\ Parses(theirs) /\ Parses(yours)

(* The paths of a change set that it takes over: records, when the client  *)
(* edited another version than HEAD and HEAD is Formidable.                *)
Records(parent, change) ==
  {p \in DOMAIN change \cap RecordPath :
     /\ parent # head
     /\ Formidable(TreeAt(head))
     /\ Mergeable(TreeAt(parent)[p], TreeAt(head)[p], change[p])}

\* Mutant: the parent becomes HEAD and the merged records are dropped.
UnmergedChange(parent, change) == change

(* The change set the git manager gets.                                    *)
MergedChange(parent, change) ==
  [p \in DOMAIN change |->
     IF p \in Records(parent, change)
       THEN MergeFile(TreeAt(parent)[p], TreeAt(head)[p], change[p])
       ELSE change[p]]

(* PUT /files/{path} and POST /commits, until they call the git manager:   *)
(* one record that does not merge refuses the whole request, and one that  *)
(* does makes HEAD the parent of all of it.                                *)
Submit(w, parent, change) ==
  LET records == Records(parent, change) IN
  /\ Arrive(w)
  /\ call' = [call EXCEPT ![w] =
       IF \A p \in records :
            CleanFile(TreeAt(parent)[p], TreeAt(head)[p], change[p])
         THEN [Idle EXCEPT !.pc = "read", !.kind = "client",
                           !.asked = parent, !.wants = change,
                           !.base = IF records = {} THEN parent ELSE head,
                           !.change = MergedChange(parent, change)]
         ELSE Idle]

(* POST .../destinations/{id}/push: autofix first, then push the mirror.   *)
PushDestination(w) ==
  /\ Arrive(w)
  /\ call' = [call EXCEPT ![w] = [Idle EXCEPT !.pc = "autofix"]]

(* The .gitignore a repository should have, given the one it has.          *)
Healed(file) ==
  IF file = Absent THEN Starter[IgnorePath]
  ELSE [file EXCEPT ![EntryHunk] = Starter[IgnorePath][EntryHunk]]

HealPlan(tree) ==
  [p \in {q \in {IgnorePath} : Healed(tree[q]) # tree[q]} |-> Healed(tree[p])]

(* autofixFormidableGitignore, which every client write runs once it is    *)
(* published: reads the marker and .gitignore at HEAD and, when the first  *)
(* is there and the second lacks the entry, calls WriteFile with parent    *)
(* "HEAD".                                                                 *)
Autofix(w) ==
  /\ call[w].pc = "autofix"
  /\ call' = [call EXCEPT ![w] =
       IF ~ Formidable(TreeAt(head)) \/ HealPlan(TreeAt(head)) = NoChange
         THEN Idle
         ELSE [Idle EXCEPT !.pc = "resolve", !.kind = "heal",
                           !.change = HealPlan(TreeAt(head))]]
  /\ UNCHANGED <<store, head, rewinds, acked, calls>>

(* ensureFormidableShape: lists the tree at HEAD ...                       *)
Shape(w) ==
  /\ Arrive(w)
  /\ call' = [call EXCEPT ![w] =
       [Idle EXCEPT !.pc = "plan", !.kind = "shape", !.seen = head]]

(* ... reads the marker and .gitignore at the HEAD of that later moment if *)
(* the listing has them, and returns early when nothing is missing.  A     *)
(* marker that does not parse then is replaced.                            *)
Plan(w) ==
  LET listed  == TreeAt(call[w].seen)
      ignore  == IF listed[IgnorePath] = Absent THEN Absent ELSE TreeAt(head)[IgnorePath]
      missing == {p \in StarterPath :
                    \/ listed[p] = Absent
                    \/ p = MarkerPath /\ ~ Parses(TreeAt(head)[p])}
      heal    == HealPlan([listed EXCEPT ![IgnorePath] = ignore])
      change  == [p \in missing \cup DOMAIN heal |->
                    IF p \in DOMAIN heal THEN heal[p] ELSE Starter[p]]
  IN /\ call[w].pc = "plan"
     /\ call' = [call EXCEPT ![w] =
          IF change = NoChange THEN Idle
          ELSE [@ EXCEPT !.pc = "resolve", !.change = change]]
     /\ UNCHANGED <<store, head, rewinds, acked, calls>>

-----------------------------------------------------------------------------
(* Manager.WriteFile and Manager.Commit.                                   *)

(* resolveCommit("HEAD"), for the writers that name no version.            *)
Resolve(w) ==
  /\ call[w].pc = "resolve"
  /\ call' = [call EXCEPT ![w].pc = "read", ![w].base = head,
                          ![w].asked = head, ![w].wants = call[w].change]
  /\ UNCHANGED <<store, head, rewinds, acked, calls>>

(* The tree of the client commit.                                          *)
Yours(w) == Apply(TreeAt(call[w].base), call[w].change)

(* The top of an attempt: a parent outside HEAD's history is refused       *)
(* unmerged, a clean merge is prepared, any other is refused as a conflict.*)
ReadHead(w) ==
  /\ call[w].pc = "read"
  /\ call' = [call EXCEPT ![w] =
       IF /\ call[w].base \in Hist(head)
          /\ CleanTree(TreeAt(call[w].base), TreeAt(head), Yours(w))
         THEN [@ EXCEPT !.pc = "cas", !.seen = head]
         ELSE Idle]
  /\ UNCHANGED <<store, head, rewinds, acked, calls>>

(* The commits that come with a candidate: the client commit alone when it *)
(* fast-forwards, else the merge of HEAD and the client commit too.        *)
CandidateWith(w, mergedTree) ==
  LET n      == Len(store) + 1
      seen   == call[w].seen
      client == [hist |-> Hist(call[w].base) \cup {n}, tree |-> Yours(w)]
      merge  == [hist |-> Hist(seen) \cup client.hist \cup {n + 1}, tree |-> mergedTree]
  IN IF call[w].base = seen THEN <<client>> ELSE <<client, merge>>

\* Mutant: the merge commit takes the client's tree instead of the merge.
CandidateYours(w) == CandidateWith(w, Yours(w))

Candidate(w) ==
  CandidateWith(w, MergeTree(TreeAt(call[w].base), TreeAt(call[w].seen), Yours(w)))

(* The branch takes the candidate (on its own a mutant: update-ref without *)
(* an expected value).                                                     *)
PublishAnyway(w) ==
  /\ call[w].pc = "cas"
  /\ store' = store \o Candidate(w)
  /\ head' = Len(store')
  /\ acked' = Append(acked, head')
  /\ call' = [call EXCEPT ![w] =
       IF call[w].kind = "client" THEN [Idle EXCEPT !.pc = "autofix"] ELSE Idle]
  /\ UNCHANGED <<rewinds, calls>>

(* updateRefCAS succeeds: the branch still is where the attempt read it.   *)
Publish(w) ==
  /\ head = call[w].seen
  /\ PublishAnyway(w)

(* updateRefCAS fails, whether or not the branch moved: the lock file may  *)
(* be held, the disk full, the ref unreadable.  The loop looks at no error *)
(* and counts an attempt.                                                  *)
LoseRaceWith(w, tries, limit) ==
  /\ call[w].pc = "cas"
  /\ call' = [call EXCEPT ![w] =
       IF tries < limit
         THEN [@ EXCEPT !.pc = "read", !.seen = 0, !.tries = tries]
         ELSE [Idle EXCEPT !.pc = "gaveup", !.tries = tries]]
  /\ UNCHANGED <<store, head, rewinds, acked, calls>>

\* Mutants: the loop bound is one too high; or the loop counts nothing, and
\* never reads HEAD again.
LoseRaceLate(w) == LoseRaceWith(w, call[w].tries + 1, MaxAttempts + 1)
LoseRaceUncounted(w) == LoseRaceWith(w, call[w].tries, MaxAttempts)
LoseRaceAgain(w) == call[w].pc = "cas" /\ UNCHANGED vars

LoseRace(w) == LoseRaceWith(w, call[w].tries + 1, MaxAttempts)

-----------------------------------------------------------------------------
(* Everyone else who moves the branch.                                     *)

(* A push that git accepts as a fast-forward, the scaffold's initial       *)
(* commit among them.                                                      *)
Push(tree) ==
  LET n == Len(store) + 1 IN
  /\ calls < MaxCalls
  /\ calls' = calls + 1
  /\ store' = Append(store, [hist |-> Hist(head) \cup {n}, tree |-> tree])
  /\ head' = n
  /\ UNCHANGED <<rewinds, acked, call>>

(* A forced push, or the forced fetch of a pull from a remote: the branch  *)
(* goes to an older version, or to a commit made on one (or on none).      *)
Rewind ==
  /\ head # 0
  /\ calls < MaxCalls
  /\ rewinds < MaxRewinds
  /\ calls' = calls + 1
  /\ rewinds' = rewinds + 1
  /\ \/ /\ head' \in Version \ {head}
        /\ UNCHANGED store
     \/ \E on \in Version \cup {0}, tree \in PushTree :
          LET n == Len(store) + 1 IN
          /\ store' = Append(store, [hist |-> Hist(on) \cup {n}, tree |-> tree])
          /\ head' = n
  /\ UNCHANGED <<acked, call>>

-----------------------------------------------------------------------------
Server(w) == Autofix(w) \/ Plan(w) \/ Resolve(w) \/ ReadHead(w)
               \/ Publish(w) \/ LoseRace(w)

Next ==
  \/ \E w \in Writer :
       \/ \E parent \in Version, change \in Request : Submit(w, parent, change)
       \/ PushDestination(w)
       \/ Shape(w)
       \/ Autofix(w)
       \/ Plan(w)
       \/ Resolve(w)
       \/ ReadHead(w)
       \/ Publish(w)
       \/ LoseRace(w)
  \/ \E tree \in PushTree : Push(tree)
  \/ Rewind

Spec == Init /\ [][Next]_vars

(* A started handler runs to its end: each of its steps is a subprocess    *)
(* the goroutine waits for, and the Go scheduler starves none.             *)
FairSpec == Spec /\ \A w \in Writer : WF_vars(Server(w))

-----------------------------------------------------------------------------
Commit == [hist : SUBSET Nat, tree : Tree]
Call == [pc : Busy \cup {"idle", "gaveup"},
         kind : {"none", "client", "heal", "shape"},
         asked : Nat, wants : ChangeSet, base : Nat, change : ChangeSet,
         seen : Nat, tries : 0 .. MaxAttempts]

(* Every version a call holds on to (the parent it resolved, the HEAD it   *)
(* read) is a commit that exists.                                          *)
HoldsVersions(w) ==
  /\ call[w].pc \in Busy => head \in Version
  /\ call[w].pc \in {"read", "cas"} => {call[w].asked, call[w].base} \subseteq Version
  /\ call[w].pc \in {"plan", "cas"} => call[w].seen \in Version

(* The variables have their types, and no request works on a version the   *)
(* repository does not have.                                               *)
TypeOK ==
  /\ store \in Seq(Commit)
  /\ head \in Nat /\ head <= Len(store)
  /\ rewinds \in Nat
  /\ acked \in Seq(Nat)
  /\ call \in [Writer -> Call]
  /\ calls \in Nat
  /\ \A w \in Writer : HoldsVersions(w)

(* No acknowledged write is lost: every version a 200 named stays in the   *)
(* history of the branch until a forced push or a pull replaces it.  The   *)
(* compare-and-swap of updateRefCAS is what this rests on.                 *)
AckedSurvive ==
  rewinds = 0 => \A i \in DOMAIN acked : acked[i] \in Hist(head)

(* `new` keeps everything `theirs` changed since `base` and `yours` did    *)
(* not change to the same thing.                                           *)
KeepsTheirs(base, theirs, yours, new) ==
  IF Absent \in {base, theirs, yours}
    THEN theirs \in {base, yours} \/ new = theirs
    ELSE new # Absent /\ \A h \in Hunk :
           theirs[h] \in {base[h], yours[h]} \/ new[h] = theirs[h]

Overwrites(w) ==
  \E p \in Path :
    LET asked == TreeAt(call[w].asked) IN
    ~ KeepsTheirs(asked[p], TreeAt(head)[p],
                  Apply(asked, call[w].wants)[p], store'[head'].tree[p])

(* The change set was moved onto HEAD because of a record in it, while     *)
(* some other path of it was not merged with HEAD.                         *)
Mixed(w) ==
  /\ call[w].base # call[w].asked
  /\ \E p \in DOMAIN call[w].wants :
       \/ p \notin RecordPath
       \/ ~ Mergeable(TreeAt(call[w].asked)[p], TreeAt(call[w].base)[p], call[w].wants[p])

(* What the commit given to the loop changes against its parent is in the  *)
(* version that is published.                                              *)
Lands(w) ==
  \A p \in Path :
    KeepsTheirs(TreeAt(call[w].base)[p], Yours(w)[p], TreeAt(head)[p], store'[head'].tree[p])

(* A publication keeps both sides' edits.  A 200 means the write is in,    *)
(* and it never overwrites what somebody else changed since the version it *)
(* names as its parent (for the server's own writers, the HEAD they        *)
(* resolved): it merges, or it is refused with a 409.  The structured      *)
(* record merge and the git merge that may follow it against a later HEAD  *)
(* compose to that.  Change sets that mix merged records with other paths  *)
(* are the exception, see NothingOverwritten.                              *)
BothSidesKept ==
  [][\A w \in Writer : Publish(w) => Lands(w) /\ (Mixed(w) \/ ~ Overwrites(w))]_vars

(* The second half without the exception, for client writes, as            *)
(* docs/design/structured-sync-api.md section 4 has it for every path of   *)
(* POST /commits.                                                          *)
NothingOverwritten ==
  [][\A w \in Writer :
       call[w].kind = "client" /\ Publish(w) => ~ Overwrites(w)]_vars

(* "existing files are never touched" (ensureFormidableShape): what the    *)
(* conversion publishes leaves every file of HEAD alone, but .gitignore    *)
(* and a marker that does not parse.                                       *)
ShapeTouchesNothing ==
  [][\A w \in Writer :
       call[w].kind = "shape" /\ Publish(w) =>
         \A p \in Path \ {IgnorePath} :
           \/ TreeAt(head)[p] \in {Absent, store'[head'].tree[p]}
           \/ p = MarkerPath /\ ~ Parses(TreeAt(head)[p])]_vars

(* Where the conversion can still cost a file: it fills the places its     *)
(* listing found empty, and of those only one that somebody filled between *)
(* the listing and Resolve.  What was there when the parent was resolved   *)
(* and is not in the plan, and what appears after, is left alone.          *)
ShapeFillsGaps ==
  [][\A w \in Writer :
       call[w].kind = "shape" /\ Publish(w) =>
         \A p \in Path \ {IgnorePath} :
           \/ p \in DOMAIN call[w].wants /\ TreeAt(call[w].asked)[p] # Absent
           \/ TreeAt(head)[p] \in {Absent, store'[head'].tree[p]}]_vars

(* How many steps of its own a call can still take, whatever the others    *)
(* do: two for each attempt that is left, and after a client's write those *)
(* of the autofix.                                                         *)
AutofixSteps == 2 * MaxAttempts + 2
After(c) == IF c.kind = "client" THEN AutofixSteps ELSE 0
StepsLeft(c) ==
  CASE c.pc \in {"autofix", "plan"} -> AutofixSteps
    [] c.pc = "resolve" -> AutofixSteps - 1
    [] c.pc = "read" -> 2 * (MaxAttempts - c.tries) + After(c)
    [] c.pc = "cas" -> 2 * (MaxAttempts - c.tries) - 1 + After(c)
    [] OTHER -> 0

(* No handler loops for ever, however long the others keep winning: each   *)
(* of its steps uses up one of finitely many, and nobody else's step gives *)
(* it new ones.                                                            *)
CallsRunOut ==
  [][\A w \in Writer :
       call[w].pc \in Busy =>
         \/ call'[w] = call[w]
         \/ StepsLeft(call'[w]) < StepsLeft(call[w])]_vars

(* Every handler answers, however long the others keep winning.            *)
EveryCallReturns ==
  \A w \in Writer : call[w].pc \in Busy ~> call[w].pc \notin Busy

(* The loop is one atomic three-way merge into the branch: the refinement  *)
(* mapping takes the branch's tree, the trees of its history, and the      *)
(* change sets of the calls that are in the loop.                          *)
CONSTANT Unborn
ASSUME UnbornAssumption == Unborn \notin Tree
InLoop == {w \in Writer : call[w].pc \in {"read", "cas"}}
Asked(w) ==
  [client |-> w, base |-> TreeAt(call[w].base), change |-> call[w].change]
Repo == INSTANCE AtomicRepo WITH
          Client  <- Writer,
          content <- IF head = 0 THEN Unborn ELSE TreeAt(head),
          history <- {TreeAt(v) : v \in Hist(head)},
          pending <- {Asked(w) : w \in InLoop},
          writes  <- Len(acked),
          rewinds <- rewinds
ImplementsAtomicRepo == Repo!RepoSpec
=============================================================================
