----------------------------- MODULE AtomicRepo -----------------------------
(***************************************************************************)
(* What the git manager promises its callers about the branch of one       *)
(* repository: a request names the tree it starts from and the changes it  *)
(* wants, and is answered once.  Either it is refused and leaves no trace, *)
(* or, in one step, the branch takes the three-way merge of the requested  *)
(* changes into the content it has at that moment.  There are no retries,  *)
(* no stale reads and no half-applied change sets here; RepoWrite shows    *)
(* that the lock-free loop of internal/git/write.go and commit.go          *)
(* implements this.                                                        *)
(***************************************************************************)
EXTENDS Merge3, Naturals

CONSTANTS
  Client,    \* the callers, with one request at a time each
  Unborn     \* the content of a branch without a commit

VARIABLES
  content,    \* the tree the branch has
  history,    \* the trees of the versions in the branch's history
  pending,    \* the requests that are not answered yet
  writes,     \* how many requests were answered with a version
  rewinds     \* how many forced pushes and pulls replaced the branch

repoVars == <<content, history, pending, writes, rewinds>>

Requests == [client : Client, base : Tree, change : ChangeSet]

RepoInit ==
  /\ content = Unborn
  /\ history = {}
  /\ pending = {}
  /\ writes = 0
  /\ rewinds = 0

Ask(r) ==
  /\ r \in Requests
  /\ \A q \in pending : q.client # r.client
  /\ pending' = pending \cup {r}
  /\ UNCHANGED <<content, history, writes, rewinds>>

Refuse(r) ==
  /\ pending' = pending \ {r}
  /\ UNCHANGED <<content, history, writes, rewinds>>

(* The base of an accepted request is a tree of the branch's history, and  *)
(* merges with what the branch has now.                                    *)
Write(r) ==
  LET yours == Apply(r.base, r.change) IN
  /\ content # Unborn
  /\ r.base \in history
  /\ CleanTree(r.base, content, yours)
  /\ content' = MergeTree(r.base, content, yours)
  /\ history' = history \cup {yours, content'}
  /\ pending' = pending \ {r}
  /\ writes' = writes + 1
  /\ UNCHANGED rewinds

(* A push that only adds to the branch, the first one included.            *)
Extend(new) ==
  /\ content' = new
  /\ history' = history \cup {new}
  /\ UNCHANGED <<pending, writes, rewinds>>

(* A forced push or a pull from a remote: another history replaces it.     *)
Replace(new) ==
  /\ content' = new
  /\ history' \subseteq Tree
  /\ new \in history'
  /\ rewinds' = rewinds + 1
  /\ UNCHANGED <<pending, writes>>

RepoNext ==
  \/ \E r \in pending' \ pending : Ask(r)
  \/ \E r \in pending : Refuse(r) \/ Write(r)
  \/ \E new \in Tree : Extend(new) \/ Replace(new)

RepoSpec == RepoInit /\ [][RepoNext]_repoVars
=============================================================================
