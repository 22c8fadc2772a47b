-------------------------------- MODULE Vault --------------------------------
(***************************************************************************)
(* Repositories on disk, the destinations they are mirrored to, the        *)
(* credentials those name, and the other sealed stores beside them: the    *)
(* enrolled clients and the system audit log.                              *)
(*                                                                         *)
(* A store is a map in memory with a sealed file.  Each operation holds    *)
(* the lock of its store and writes the file; what becomes of the memory   *)
(* when that fails differs from operation to operation.  Nothing locks a   *)
(* repository, or two stores together, so a handler that has looked at one *)
(* store acts on another when the first may have changed.                  *)
(*                                                                         *)
(* With the server stopped, -rotate-keys replaces its key and seals every  *)
(* file anew, one step at a time.                                          *)
(*                                                                         *)
(* A directory is the number of the incarnation of its repository, 0 if    *)
(* there is none.  What a destination's last pushes did is in Mirror.      *)
(***************************************************************************)
EXTENDS Naturals, FiniteSets

CONSTANTS
  Repo,
  Dest,            \* the ids of destinations
  Cred,            \* the names of credentials
  Secret,
  Client, PubKey,  \* clients and the keys they enroll with
  Request,         \* the goroutines that serve requests
  MaxRequests,     \* bound on the requests of a behaviour
  MaxMade,         \* bound on the repositories made
  MaxStops,        \* bound on stops of the server
  MaxRotations     \* bound on rotations

None == "none"
ASSUME VaultAssumption ==
  /\ None \notin Repo \cup Dest \cup Cred \cup Secret \cup PubKey
  /\ MaxRequests \in Nat /\ MaxMade \in Nat /\ MaxStops \in Nat /\ MaxRotations \in Nat

\* DefaultSealedFiles, as far as they are modelled here
Store == {"destinations", "credentials", "clients", "audit_system"}

VARIABLES
  dir, made,      \* the incarnation of each repository; how many were made
  mem, disk,      \* what the stores hold in memory, and what their files say
  sealed,         \* the key a file is sealed with, 0 if it was never written
  baks,           \* the keys its backups are sealed with, those that hold what
                  \* the file holds
  priv, privBaks, \* the private key of the server, and its backups
  rot,            \* what -rotate-keys is doing
  up,             \* whether the server runs
  req,            \* what each goroutine is doing
  served, stops, rotations,  \* bounded counters
  crowded,        \* the requests that had company while they ran
  unsaved,        \* the stores whose last write failed and was not undone
  owners          \* how often the making of each repository was reported

keyVars == <<priv, privBaks, rot, rotations>>
storeVars == <<mem, disk, sealed, baks, unsaved>>
repoVars == <<dir, made, owners>>
vars == <<dir, made, mem, disk, sealed, baks, priv, privBaks, rot, up, req,
          served, stops, rotations, crowded, unsaved, owners>>

NoDest == [repo |-> None, cred |-> None, of |-> 0]
Idle == [pc |-> "idle", repo |-> None, of |-> 0, dest |-> None, cred |-> None,
         secret |-> None]
NoRotation == [pc |-> "idle", old |-> 0, todo |-> {}]

Busy == {r \in Request : req[r].pc # "idle"}
Exists(p) == dir[p] # 0
Live == {d \in Dest : mem.destinations[d] # NoDest}
HasCred(c) == mem.credentials[c] # None
Key == 1..MaxRotations + 1

Empty == [destinations |-> [d \in Dest |-> NoDest],
          credentials |-> [c \in Cred |-> None],
          clients |-> [c \in Client |-> None],
          audit_system |-> 0]

Init ==
  /\ dir = [p \in Repo |-> 0] /\ made = 0 /\ owners = dir
  /\ mem = Empty /\ disk = Empty
  /\ sealed = [f \in Store |-> 0] /\ baks = [f \in Store |-> {}]
  /\ priv = 1 /\ privBaks = {} /\ rot = NoRotation /\ rotations = 0
  /\ up = TRUE /\ stops = 0
  /\ req = [r \in Request |-> Idle] /\ served = 0
  /\ crowded = {} /\ unsaved = {}

Begin(r, job) ==
  /\ up /\ req[r].pc = "idle" /\ served < MaxRequests
  /\ served' = served + 1
  /\ req' = [req EXCEPT ![r] = job]
  /\ crowded' = IF Busy = {} THEN crowded ELSE crowded \cup Busy \cup {r}
  /\ UNCHANGED <<up, stops, keyVars>>

Goto(r, job) ==
  /\ req' = [req EXCEPT ![r] = job]
  /\ crowded' = IF job.pc = "idle" THEN crowded \ {r} ELSE crowded
  /\ UNCHANGED <<served, up, stops, keyVars>>

\* A request, or a step of the worker, that is one operation of a store.
Serve ==
  /\ up /\ served < MaxRequests /\ served' = served + 1
  /\ UNCHANGED <<req, crowded, up, stops, keyVars>>

Aside == up /\ UNCHANGED <<req, crowded, served, up, stops, keyVars>>

-----------------------------------------------------------------------------
(* Sealed stores.                                                          *)

\* SealedFile.Save after a change of the memory.
Saved(f, rows) ==
  /\ mem' = [mem EXCEPT ![f] = rows]
  /\ disk' = [disk EXCEPT ![f] = rows]
  /\ sealed' = [sealed EXCEPT ![f] = priv]
  /\ baks' = [baks EXCEPT ![f] = {}]
  /\ unsaved' = unsaved \ {f}

\* The write failed and the memory keeps the change.
Unsaved(f, rows) ==
  /\ mem' = [mem EXCEPT ![f] = rows]
  /\ unsaved' = unsaved \cup {f}
  /\ UNCHANGED <<disk, sealed, baks>>

\* The write failed and the change was undone.
Undone == UNCHANGED storeVars

\* Mutant: the memory keeps what was not written.
SavedOrKept(f, rows) ==
  \/ Saved(f, rows)
  \/ mem' = [mem EXCEPT ![f] = rows] /\ UNCHANGED <<disk, sealed, baks, unsaved>>

SavedOrUndone(f, rows) == Saved(f, rows) \/ Undone
SavedOrNot(f, rows) == Saved(f, rows) \/ Unsaved(f, rows)

-----------------------------------------------------------------------------
(* Repositories.                                                           *)

\* Mutant: a name in use is not refused.
MayCreateAny(p) == TRUE

\* createRepo, up to the check of InitBare and CloneBare.
MayCreate(p) == ~Exists(p)

CreateRepo(r, p, how) ==
  /\ MayCreate(p)
  /\ Begin(r, [Idle EXCEPT !.pc = how, !.repo = p])
  /\ UNCHANGED <<storeVars, repoVars>>

\* git init makes the directory, or does nothing to one that is there by now;
\* git clone refuses such a directory.
MakeDir(r) ==
  LET p == req[r].repo
  IN /\ req[r].pc \in {"init", "clone"}
     /\ \/ /\ ~Exists(p) /\ made < MaxMade
           /\ made' = made + 1
           /\ dir' = [dir EXCEPT ![p] = made + 1]
           /\ owners' = [owners EXCEPT ![p] = 0]
           /\ Goto(r, [req[r] EXCEPT !.pc = "shape"])
        \/ /\ Exists(p) /\ req[r].pc = "init"
           /\ Goto(r, [req[r] EXCEPT !.pc = "shape"])
           /\ UNCHANGED repoVars
        \/ Goto(r, Idle) /\ UNCHANGED repoVars
     /\ UNCHANGED storeVars

\* Seeding, scaffolding or stamping, and the answer.  A failure leaves the
\* repository as it is.
Shape(r) ==
  LET p == req[r].repo
  IN /\ req[r].pc = "shape"
     /\ \/ /\ owners' = [owners EXCEPT ![p] = IF Exists(p) THEN @ + 1 ELSE @]
        \/ UNCHANGED owners
     /\ Goto(r, Idle)
     /\ UNCHANGED <<storeVars, dir, made>>

\* deleteRepo: the directory goes first,
DeleteRepo(r, p) ==
  /\ Exists(p)
  /\ Begin(r, [Idle EXCEPT !.pc = "cleanup", !.repo = p])
  /\ dir' = [dir EXCEPT ![p] = 0]
  /\ UNCHANGED <<storeVars, made, owners>>

\* Mutant: the destinations stay.
OthersAndIts(p) == mem.destinations

OthersThan(p) == [d \in Dest |-> IF mem.destinations[d].repo = p THEN NoDest
                                 ELSE mem.destinations[d]]

\* and RemoveAll takes its destinations.
Cleanup(r) ==
  /\ req[r].pc = "cleanup"
  /\ IF OthersThan(req[r].repo) = mem.destinations THEN Undone
     ELSE SavedOrNot("destinations", OthersThan(req[r].repo))
  /\ Goto(r, Idle)
  /\ UNCHANGED repoVars

-----------------------------------------------------------------------------
(* Destinations.                                                           *)

\* The dispatcher finds the repository; a new destination, or another
\* credential for one there is.
CreateDest(r, p, c) ==
  /\ Exists(p)
  /\ Begin(r, [Idle EXCEPT !.pc = "lookup", !.repo = p, !.of = dir[p], !.cred = c])
  /\ UNCHANGED <<storeVars, repoVars>>

UpdateDest(r, d, c) ==
  /\ d \in Live /\ Exists(mem.destinations[d].repo)
  /\ Begin(r, [Idle EXCEPT !.pc = "lookup", !.dest = d, !.cred = c,
                           !.repo = mem.destinations[d].repo])
  /\ UNCHANGED <<storeVars, repoVars>>

\* Mutant: the credential is not looked up.
KnownOrNot(c) == TRUE

\* The credential is in the vault.
Known(c) == HasCred(c)

LookUp(r) ==
  /\ req[r].pc = "lookup"
  /\ Goto(r, IF ~Known(req[r].cred) THEN Idle
             ELSE [req[r] EXCEPT !.pc = IF req[r].dest = None THEN "add" ELSE "update"])
  /\ UNCHANGED <<storeVars, repoVars>>

\* Store.Add
Add(r) ==
  /\ req[r].pc = "add"
  /\ \/ \E d \in Dest \ Live :
          Saved("destinations", [mem.destinations EXCEPT ![d] =
            [repo |-> req[r].repo, cred |-> req[r].cred, of |-> req[r].of]])
     \/ Undone
  /\ Goto(r, Idle)
  /\ UNCHANGED repoVars

\* Store.Update
Update(r) ==
  LET d == req[r].dest
  IN /\ req[r].pc = "update"
     /\ \/ /\ d \in Live /\ mem.destinations[d].repo = req[r].repo
           /\ Saved("destinations", [mem.destinations EXCEPT ![d].cred = req[r].cred])
        \/ Undone
     /\ Goto(r, Idle)
     /\ UNCHANGED repoVars

\* Store.Remove, after the dispatcher found the repository
RemoveDest(d) ==
  /\ Serve
  /\ d \in Live /\ Exists(mem.destinations[d].repo)
  /\ SavedOrNot("destinations", [mem.destinations EXCEPT ![d] = NoDest])
  /\ UNCHANGED repoVars

\* A status is recorded or cleared: Update, InvalidateRepoRemoteStatus.
RecordStatus ==
  /\ Aside
  /\ Live # {} /\ Saved("destinations", mem.destinations)
  /\ UNCHANGED repoVars

-----------------------------------------------------------------------------
(* Credentials.                                                            *)

CreateCred(r, c, s) ==
  /\ ~HasCred(c)
  /\ Begin(r, [Idle EXCEPT !.pc = "put", !.cred = c, !.secret = s])
  /\ UNCHANGED <<storeVars, repoVars>>

\* The patch is applied to the entry as it is now, and written back later.
UpdateCred(r, c, s) ==
  /\ HasCred(c)
  /\ Begin(r, [Idle EXCEPT !.pc = "put", !.cred = c,
                 !.secret = IF s = None THEN mem.credentials[c] ELSE s])
  /\ UNCHANGED <<storeVars, repoVars>>

\* What is left of an entry when its write fails: the new one is taken out,
\* and one that it replaced is not put back.
Discarded(c) == [mem.credentials EXCEPT ![c] = None]

\* Store.Put
Put(r) ==
  /\ req[r].pc = "put"
  /\ \/ Saved("credentials", [mem.credentials EXCEPT ![req[r].cred] = req[r].secret])
     \/ HasCred(req[r].cred) /\ Unsaved("credentials", Discarded(req[r].cred))
     \/ ~HasCred(req[r].cred) /\ Undone
  /\ Goto(r, Idle)
  /\ UNCHANGED repoVars

\* Store.Refs, for adminDeleteCredential
Refs(c) == {d \in Live : mem.destinations[d].cred = c}

DeleteCred(r, c) ==
  /\ Refs(c) = {}
  /\ Begin(r, [Idle EXCEPT !.pc = "forget", !.cred = c])
  /\ UNCHANGED <<storeVars, repoVars>>

\* Store.Remove
Forget(r) ==
  /\ req[r].pc = "forget"
  /\ IF HasCred(req[r].cred)
     THEN SavedOrNot("credentials", [mem.credentials EXCEPT ![req[r].cred] = None])
     ELSE Undone
  /\ Goto(r, Idle)
  /\ UNCHANGED repoVars

\* Store.Touch, after a push or a pull
Touch(c) ==
  /\ Aside
  /\ HasCred(c) /\ SavedOrNot("credentials", mem.credentials)
  /\ UNCHANGED repoVars

-----------------------------------------------------------------------------
(* Clients and the system audit log.                                       *)

\* Mutant: a second enrollment replaces the key.
EnrollsAgain(c) == TRUE

Enrolls(c) == mem.clients[c] = None

\* clients.Store.Enroll: the first key stays; it may be enrolled again.
Enroll(c, k) ==
  /\ Serve
  /\ Enrolls(c)
  /\ SavedOrUndone("clients", [mem.clients EXCEPT ![c] = k])
  /\ UNCHANGED repoVars

\* SystemLog.Append
AppendEvent ==
  /\ Serve
  /\ SavedOrUndone("audit_system", mem.audit_system + 1)
  /\ UNCHANGED repoVars

-----------------------------------------------------------------------------
(* The server stops, the operator rotates its key, the server starts.      *)

Stop ==
  /\ up /\ stops < MaxStops
  /\ stops' = stops + 1 /\ up' = FALSE
  /\ req' = [r \in Request |-> Idle] /\ crowded' = {}
  /\ UNCHANGED <<storeVars, repoVars, keyVars, served>>

Opens(f) == sealed[f] \in {0, priv}

\* New ends the process when a store does not open.
Start ==
  /\ ~up /\ rot.pc = "idle" /\ \A f \in Store : Opens(f)
  /\ up' = TRUE
  /\ mem' = disk /\ unsaved' = {}
  /\ UNCHANGED <<disk, sealed, baks, repoVars, keyVars, req, crowded, served, stops>>

Offline ==
  /\ ~up
  /\ UNCHANGED <<mem, disk, unsaved, repoVars, up, req, crowded, served, stops>>

\* Mutant: the clients are not in the list of sealed files.
DecryptedButClients == {f \in Store \ {"clients"} : sealed[f] # 0}

Decrypted == {f \in Store : sealed[f] # 0}

\* Everything is decrypted before anything is written; a file that does not
\* open ends the rotation here.
Rotate ==
  /\ Offline
  /\ rot.pc = "idle" /\ rotations < MaxRotations
  /\ \A f \in Store : Opens(f)
  /\ rotations' = rotations + 1
  /\ rot' = [pc |-> "key", old |-> priv, todo |-> Decrypted]
  /\ UNCHANGED <<sealed, baks, priv, privBaks>>

\* backupAndReplaceKey: the copy,
BackUpKey ==
  /\ Offline
  /\ rot.pc = "key" /\ rot.old \notin privBaks
  /\ privBaks' = privBaks \cup {rot.old}
  /\ UNCHANGED <<sealed, baks, priv, rot, rotations>>

\* and the rename.  The new key was in memory only.
BackedUp == rot.old \in privBaks

ReplaceKey ==
  /\ Offline
  /\ rot.pc = "key" /\ BackedUp
  /\ priv' = rotations + 1
  /\ rot' = [rot EXCEPT !.pc = "files"]
  /\ UNCHANGED <<sealed, baks, privBaks, rotations>>

BackUpFile(f) ==
  /\ Offline
  /\ rot.pc = "files" /\ f \in rot.todo /\ rot.old \notin baks[f]
  /\ baks' = [baks EXCEPT ![f] = @ \cup {rot.old}]
  /\ UNCHANGED <<sealed, priv, privBaks, rot, rotations>>

RewrapFile(f) ==
  /\ Offline
  /\ rot.pc = "files" /\ f \in rot.todo /\ rot.old \in baks[f]
  /\ sealed' = [sealed EXCEPT ![f] = priv]
  /\ rot' = [rot EXCEPT !.todo = @ \ {f}]
  /\ UNCHANGED <<baks, priv, privBaks, rotations>>

\* The rotation is done, or it fails, or is killed: it tells nobody where it was.
RotateEnds ==
  /\ Offline
  /\ rot.pc # "idle"
  /\ rot' = NoRotation
  /\ UNCHANGED <<sealed, baks, priv, privBaks, rotations>>

\* "a failed rotation can be reverted by hand": a key that was backed up comes
\* back, with every file that was.
Revert(k) ==
  /\ Offline
  /\ rot.pc = "idle" /\ k \in privBaks
  /\ \E f \in Store : ~Opens(f)
  /\ \A f \in Store : sealed[f] \in {0, k} \/ k \in baks[f]
  /\ priv' = k
  /\ sealed' = [f \in Store |-> IF sealed[f] = 0 THEN 0 ELSE k]
  /\ UNCHANGED <<baks, privBaks, rot, rotations>>

-----------------------------------------------------------------------------
Begins(r) ==
  \/ \E p \in Repo, how \in {"init", "clone"} : CreateRepo(r, p, how)
  \/ \E p \in Repo : DeleteRepo(r, p)
  \/ \E c \in Cred :
       \/ \E p \in Repo : CreateDest(r, p, c)
       \/ \E d \in Dest : UpdateDest(r, d, c)
       \/ \E s \in Secret : CreateCred(r, c, s)
       \/ \E s \in Secret \cup {None} : UpdateCred(r, c, s)
       \/ DeleteCred(r, c)

Steps(r) ==
  MakeDir(r) \/ Shape(r) \/ Cleanup(r) \/ LookUp(r) \/ Add(r) \/ Update(r)
    \/ Put(r) \/ Forget(r)

Rotation ==
  \/ Rotate \/ BackUpKey \/ ReplaceKey \/ RotateEnds
  \/ \E f \in Store : BackUpFile(f) \/ RewrapFile(f)
  \/ \E k \in Key : Revert(k)

Next ==
  \/ \E r \in Request : Begins(r) \/ Steps(r)
  \/ \E d \in Dest : RemoveDest(d)
  \/ RecordStatus \/ AppendEvent
  \/ \E c \in Cred : Touch(c)
  \/ \E c \in Client, k \in PubKey : Enroll(c, k)
  \/ Stop \/ Start \/ Rotation

Spec == Init /\ [][Next]_vars

-----------------------------------------------------------------------------
(* Properties.                                                             *)

Job == [pc : {"idle", "init", "clone", "shape", "cleanup", "lookup", "add",
              "update", "put", "forget"},
        repo : Repo \cup {None}, of : Nat, dest : Dest \cup {None},
        cred : Cred \cup {None}, secret : Secret \cup {None}]

Row == [destinations : [Dest -> [repo : Repo \cup {None}, cred : Cred \cup {None},
                                 of : Nat]],
        credentials : [Cred -> Secret \cup {None}],
        clients : [Client -> PubKey \cup {None}],
        audit_system : Nat]

\* The variables keep their types, and what no file holds was not saved.
TypeOK ==
  /\ dir \in [Repo -> Nat] /\ made \in Nat /\ owners \in [Repo -> Nat]
  /\ mem \in Row /\ disk \in Row /\ unsaved \subseteq Store
  /\ sealed \in [Store -> Nat] /\ baks \in [Store -> SUBSET Nat]
  /\ priv \in Nat \ {0} /\ privBaks \subseteq Nat \ {0}
  /\ rot \in [pc : {"idle", "key", "files"}, old : Nat, todo : SUBSET Store]
  /\ up \in BOOLEAN /\ req \in [Request -> Job] /\ crowded \subseteq Busy
  /\ served \in Nat /\ stops \in Nat /\ rotations \in Nat
  /\ \A f \in Store : disk[f] # mem[f] => ~up \/ f \in unsaved

\* A file opens with a key as it is, or has a backup that does.
OpensWith(f, k) == sealed[f] \in {0, k} \/ k \in baks[f]

\* Wherever a rotation stops, one key, the server's or a backup of it, opens
\* every store at its last contents; and a rotation that has no file left
\* to do left none behind (crypto/rotate.go: Rotate, DefaultSealedFiles).
RotationLosesNothing ==
  /\ \E k \in {priv} \cup privBaks : \A f \in Store : OpensWith(f, k)
  /\ rot.pc = "files" /\ rot.todo = {} => \A f \in Store : Opens(f)
  /\ up => \A f \in Store : Opens(f)

\* An enrolled client keeps its first key and the system log never shrinks,
\* over failed writes, restarts, rotations and reverts (clients/store.go:
\* Enroll; audit/store.go: Append).
NothingForgotten ==
  [][/\ \A c \in Client : mem.clients[c] # None => mem'.clients[c] = mem.clients[c]
     /\ mem'.audit_system >= mem.audit_system]_vars

Raced == Busy \cap crowded # {}

\* The server starts on files that lag behind what it last held in memory.
StartsBehind == ~up /\ up' /\ mem' # mem

\* A destination of a repository that is gone, or of one made since under the
\* same name.
Stray(d) == d \in Live /\ mem.destinations[d].of # dir[mem.destinations[d].repo]

Cleaning(p) == \E r \in Request : req[r].pc = "cleanup" /\ req[r].repo = p

\* A destination outlives its repository without a deletion at work that
\* will take it only after requests that overlapped, a stop in the middle of
\* a deletion, or a start on files that lag behind (handler_repos.go:
\* deleteRepo; handler_repo_destinations.go).
StraysExplained ==
  [][\A d \in Dest :
       LET loose == Stray(d) /\ ~Cleaning(mem.destinations[d].repo)
       IN loose' /\ ~loose => Raced \/ StartsBehind \/ (up /\ ~up')]_vars

Orphan(d) == d \in Live /\ ~HasCred(mem.destinations[d].cred)

\* A destination names a credential that is not in the vault only after
\* requests that overlapped, a write of that credential that failed, or a
\* start on files that lag behind (handler_admin_destinations.go;
\* handler_admin_credentials.go: adminDeleteCredential; credentials/store.go:
\* Put).
OrphansExplained ==
  [][\A d \in Dest : Orphan(d)' /\ ~Orphan(d) =>
       \/ Raced \/ StartsBehind
       \/ \E r \in Busy : req[r].pc = "put" /\ "credentials" \in unsaved']_vars

\* Two callers are told that they made the same repository only when their
\* requests overlapped (handler_repos.go: createRepo; git/manager.go:
\* InitBare, CloneBare).
OnlyRacesCreateTwice ==
  [][\A p \in Repo : owners'[p] > 1 /\ owners[p] <= 1 => Raced]_vars

=============================================================================
