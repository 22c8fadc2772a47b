----------------------------- MODULE VaultProofs -----------------------------
(***************************************************************************)
(* Theorems about Vault, for any repositories, destinations, credentials,  *)
(* clients and requests, and behaviours of any length.                     *)
(***************************************************************************)
EXTENDS Vault, TLAPS

-----------------------------------------------------------------------------
(* Type correctness, a group of variables at a time.                       *)

RepoTyped == dir \in [Repo -> Nat] /\ made \in Nat /\ owners \in [Repo -> Nat]

StoreTyped ==
  /\ mem \in Row /\ disk \in Row /\ unsaved \subseteq Store
  /\ sealed \in [Store -> Nat] /\ baks \in [Store -> SUBSET Nat]
  /\ \A f \in Store : disk[f] # mem[f] => ~up \/ f \in unsaved

KeyTyped ==
  /\ priv \in Nat \ {0} /\ privBaks \subseteq Nat \ {0} /\ rotations \in Nat
  /\ rot \in [pc : {"idle", "key", "files"}, old : Nat, todo : SUBSET Store]
  /\ rot.pc = "key" => rot.old # 0

ReqTyped ==
  /\ req \in [Request -> Job] /\ crowded \subseteq Busy
  /\ served \in Nat /\ stops \in Nat /\ up \in BOOLEAN

Typed == RepoTyped /\ StoreTyped /\ KeyTyped /\ ReqTyped

(* A request that does nothing.                                            *)
LEMMA IdleType == Idle \in Job /\ Idle.pc = "idle"
BY DEF Idle, Job

(* A request begins.                                                       *)
LEMMA BeginTyped ==
  ASSUME ReqTyped, NEW r \in Request, NEW job \in Job, job.pc # "idle", Begin(r, job)
  PROVE  /\ ReqTyped' /\ UNCHANGED <<up, keyVars>>
         /\ req' = [req EXCEPT ![r] = job]
<1>1. Busy' = Busy \cup {r}
  BY DEF Begin, Busy, ReqTyped
<1> QED
  BY <1>1 DEF Begin, ReqTyped

(* A request goes on.                                                      *)
LEMMA GotoTyped ==
  ASSUME ReqTyped, NEW r \in Request, NEW job \in Job, Goto(r, job)
  PROVE  /\ ReqTyped' /\ UNCHANGED <<up, keyVars>>
         /\ req' = [req EXCEPT ![r] = job]
<1>1. Busy' = IF job.pc = "idle" THEN Busy \ {r} ELSE Busy \cup {r}
  BY DEF Goto, Busy, ReqTyped
<1> QED
  BY <1>1 DEF Goto, ReqTyped

(* A request that is one step, and a step beside the requests.             *)
LEMMA ServeTyped ==
  ASSUME ReqTyped, Serve \/ Aside
  PROVE  ReqTyped' /\ UNCHANGED <<up, keyVars>> /\ up
<1>1. UNCHANGED <<req, crowded>>
  BY DEF Serve, Aside
<1> QED
  BY <1>1 DEF Serve, Aside, ReqTyped, Busy

(* What a store may hold.                                                  *)
Fits(f, rows) ==
  /\ f = "destinations" => rows \in [Dest -> [repo : Repo \cup {None}, cred : Cred \cup {None},
                                              of : Nat]]
  /\ f = "credentials" => rows \in [Cred -> Secret \cup {None}]
  /\ f = "clients" => rows \in [Client -> PubKey \cup {None}]
  /\ f = "audit_system" => rows \in Nat

Replaced(m, f, rows) == [m EXCEPT ![f] = rows]

(* A store whose rows are replaced.                                        *)
LEMMA RowType ==
  ASSUME NEW m \in Row, NEW f \in Store, NEW rows, Fits(f, rows)
  PROVE  /\ Replaced(m, f, rows) \in Row
         /\ Replaced(m, f, rows)[f] = rows
         /\ \A g \in Store \ {f} : Replaced(m, f, rows)[g] = m[g]
<1> USE DEF Replaced
<1>1. CASE f = "destinations"
  BY <1>1 DEF Row, Fits, Store
<1>2. CASE f = "credentials"
  BY <1>2 DEF Row, Fits, Store
<1>3. CASE f = "clients"
  BY <1>3 DEF Row, Fits, Store
<1>4. CASE f = "audit_system"
  BY <1>4 DEF Row, Fits, Store
<1> QED
  BY <1>1, <1>2, <1>3, <1>4 DEF Store

(* An operation of a store, with its save.                                 *)
LEMMA SaveTyped ==
  ASSUME StoreTyped, KeyTyped, NEW f \in Store, NEW rows, Fits(f, rows),
         SavedOrNot(f, rows) \/ SavedOrUndone(f, rows), UNCHANGED up
  PROVE  StoreTyped'
<1>1. CASE Saved(f, rows)
  <2>1. mem' \in Row /\ disk' \in Row /\ mem'[f] = disk'[f]
        /\ \A g \in Store \ {f} : mem'[g] = mem[g] /\ disk'[g] = disk[g]
    <3>1. mem \in Row /\ disk \in Row
      BY DEF StoreTyped
    <3>2. mem' = Replaced(mem, f, rows) /\ disk' = Replaced(disk, f, rows)
      BY <1>1 DEF Saved, Replaced
    <3> QED
      BY <3>1, <3>2, RowType
  <2>2. sealed' \in [Store -> Nat] /\ baks' \in [Store -> SUBSET Nat]
    BY <1>1 DEF Saved, StoreTyped, KeyTyped
  <2> QED
    BY <1>1, <2>1, <2>2 DEF Saved, StoreTyped
<1>2. CASE Unsaved(f, rows)
  <2>1. mem' \in Row /\ \A g \in Store \ {f} : mem'[g] = mem[g]
    <3>1. mem \in Row
      BY DEF StoreTyped
    <3>2. mem' = Replaced(mem, f, rows)
      BY <1>2 DEF Unsaved, Replaced
    <3> QED
      BY <3>1, <3>2, RowType
  <2> QED
    BY <1>2, <2>1 DEF Unsaved, StoreTyped
<1>3. CASE Undone
  BY <1>3 DEF Undone, storeVars, StoreTyped
<1> QED
  BY <1>1, <1>2, <1>3 DEF SavedOrNot, SavedOrUndone

(* Requests that begin.                                                    *)
LEMMA BeginsTyped ==
  ASSUME Typed, NEW r \in Request, Begins(r)
  PROVE  Typed'
<1>1. ASSUME NEW job \in Job, job.pc # "idle", Begin(r, job), UNCHANGED storeVars, RepoTyped'
      PROVE  Typed'
  BY <1>1, BeginTyped DEF Typed, StoreTyped, KeyTyped, storeVars, keyVars
<1>2. ASSUME UNCHANGED repoVars PROVE RepoTyped'
  BY <1>2 DEF Typed, RepoTyped, repoVars
<1>3. ASSUME NEW p \in Repo, NEW how \in {"init", "clone"}, CreateRepo(r, p, how) PROVE Typed'
  <2>1. [Idle EXCEPT !.pc = how, !.repo = p] \in Job
    BY DEF Idle, Job
  <2> QED
    BY <1>1, <1>2, <1>3, <2>1 DEF CreateRepo, Idle
<1>4. ASSUME NEW p \in Repo, DeleteRepo(r, p) PROVE Typed'
  <2>1. [Idle EXCEPT !.pc = "cleanup", !.repo = p] \in Job
    BY DEF Idle, Job
  <2>2. RepoTyped'
    BY <1>4 DEF DeleteRepo, Typed, RepoTyped
  <2> QED
    BY <1>1, <1>4, <2>1, <2>2 DEF DeleteRepo, Idle
<1>5. ASSUME NEW c \in Cred, NEW p \in Repo, CreateDest(r, p, c) PROVE Typed'
  <2>1. [Idle EXCEPT !.pc = "lookup", !.repo = p, !.of = dir[p], !.cred = c] \in Job
    BY DEF Idle, Job, Typed, RepoTyped
  <2> QED
    BY <1>1, <1>2, <1>5, <2>1 DEF CreateDest, Idle
<1>6. ASSUME NEW c \in Cred, NEW d \in Dest, UpdateDest(r, d, c) PROVE Typed'
  <2>1. mem.destinations[d].repo \in Repo \cup {None}
    BY DEF Typed, StoreTyped, Row
  <2>2. [Idle EXCEPT !.pc = "lookup", !.dest = d, !.cred = c,
                     !.repo = mem.destinations[d].repo] \in Job
    BY <2>1 DEF Idle, Job
  <2> QED
    BY <1>1, <1>2, <1>6, <2>2 DEF UpdateDest, Idle
<1>7. ASSUME NEW c \in Cred, NEW s \in Secret, CreateCred(r, c, s) PROVE Typed'
  <2>1. [Idle EXCEPT !.pc = "put", !.cred = c, !.secret = s] \in Job
    BY DEF Idle, Job
  <2> QED
    BY <1>1, <1>2, <1>7, <2>1 DEF CreateCred, Idle
<1>8. ASSUME NEW c \in Cred, NEW s \in Secret \cup {None}, UpdateCred(r, c, s) PROVE Typed'
  <2> DEFINE kept == IF s = None THEN mem.credentials[c] ELSE s
  <2>1. kept \in Secret \cup {None}
    BY DEF Typed, StoreTyped, Row
  <2> HIDE DEF kept
  <2>2. [Idle EXCEPT !.pc = "put", !.cred = c, !.secret = kept] \in Job
    BY <2>1 DEF Idle, Job
  <2> QED
    BY <1>1, <1>2, <1>8, <2>2 DEF UpdateCred, Idle, kept
<1>9. ASSUME NEW c \in Cred, DeleteCred(r, c) PROVE Typed'
  <2>1. [Idle EXCEPT !.pc = "forget", !.cred = c] \in Job
    BY DEF Idle, Job
  <2> QED
    BY <1>1, <1>2, <1>9, <2>1 DEF DeleteCred, Idle
<1> QED
  BY <1>3, <1>4, <1>5, <1>6, <1>7, <1>8, <1>9 DEF Begins

(* What the operations write is what their store may hold.                 *)
LEMMA WritesFit ==
  ASSUME StoreTyped, ReqTyped
  PROVE  /\ \A p \in Repo \cup {None} : Fits("destinations", OthersThan(p))
         /\ \A r \in Request, d \in Dest :
              /\ Fits("destinations", [mem.destinations EXCEPT ![d] =
                   [repo |-> req[r].repo, cred |-> req[r].cred, of |-> req[r].of]])
              /\ Fits("destinations", [mem.destinations EXCEPT ![d].cred = req[r].cred])
         /\ \A d \in Dest : Fits("destinations", [mem.destinations EXCEPT ![d] = NoDest])
         /\ Fits("destinations", mem.destinations) /\ Fits("credentials", mem.credentials)
         /\ \A r \in Request, c \in Cred \cup {None} :
              Fits("credentials", [mem.credentials EXCEPT ![c] = req[r].secret])
         /\ \A c \in Cred \cup {None} : Fits("credentials", [mem.credentials EXCEPT ![c] = None])
         /\ \A c \in Client, k \in PubKey : Fits("clients", [mem.clients EXCEPT ![c] = k])
         /\ Fits("audit_system", mem.audit_system + 1)
<1>1. /\ mem.destinations \in [Dest -> [repo : Repo \cup {None}, cred : Cred \cup {None}, of : Nat]]
      /\ mem.credentials \in [Cred -> Secret \cup {None}]
      /\ mem.clients \in [Client -> PubKey \cup {None}] /\ mem.audit_system \in Nat
  BY DEF StoreTyped, Row
<1>2. NoDest \in [repo : Repo \cup {None}, cred : Cred \cup {None}, of : Nat]
  BY DEF NoDest
<1>3. \A r \in Request : /\ req[r].repo \in Repo \cup {None} /\ req[r].of \in Nat
                         /\ req[r].cred \in Cred \cup {None}
                         /\ req[r].secret \in Secret \cup {None}
  BY DEF ReqTyped, Job
<1>4. \A p \in Repo \cup {None} : Fits("destinations", OthersThan(p))
  BY <1>1, <1>2 DEF Fits, OthersThan
<1>5. ASSUME NEW r \in Request, NEW d \in Dest
      PROVE  /\ Fits("destinations", [mem.destinations EXCEPT ![d] =
                   [repo |-> req[r].repo, cred |-> req[r].cred, of |-> req[r].of]])
             /\ Fits("destinations", [mem.destinations EXCEPT ![d].cred = req[r].cred])
  BY <1>1, <1>3 DEF Fits
<1>6. \A d \in Dest : Fits("destinations", [mem.destinations EXCEPT ![d] = NoDest])
  BY <1>1, <1>2 DEF Fits
<1>7. ASSUME NEW r \in Request, NEW c \in Cred \cup {None}
      PROVE  /\ Fits("credentials", [mem.credentials EXCEPT ![c] = req[r].secret])
             /\ Fits("credentials", [mem.credentials EXCEPT ![c] = None])
  BY <1>1, <1>3 DEF Fits
<1>8. ASSUME NEW c \in Cred \cup {None}
      PROVE  Fits("credentials", [mem.credentials EXCEPT ![c] = None])
  BY <1>1 DEF Fits
<1>9. ASSUME NEW c \in Client, NEW k \in PubKey
      PROVE  Fits("clients", [mem.clients EXCEPT ![c] = k])
  BY <1>1 DEF Fits
<1>10. /\ Fits("destinations", mem.destinations) /\ Fits("credentials", mem.credentials)
       /\ Fits("audit_system", mem.audit_system + 1)
  BY <1>1 DEF Fits
<1> QED
  BY <1>4, <1>5, <1>6, <1>7, <1>8, <1>9, <1>10

(* What a step of a request, or a single operation, does to the stores is  *)
(* nothing, or one save that works or fails.                               *)
LEMMA StepsTyped ==
  ASSUME Typed, NEW r \in Request, Steps(r)
  PROVE  Typed'
<1>1. req[r] \in Job /\ req[r].repo \in Repo \cup {None} /\ req[r].cred \in Cred \cup {None}
  BY DEF Typed, ReqTyped, Job
<1>2. ASSUME NEW job \in Job, Goto(r, job), RepoTyped', UNCHANGED storeVars
      PROVE  Typed'
  BY <1>2, GotoTyped DEF Typed, StoreTyped, KeyTyped, keyVars, storeVars
<1>3. ASSUME Goto(r, Idle), UNCHANGED repoVars, NEW f \in Store, NEW rows, Fits(f, rows),
             SavedOrNot(f, rows) \/ SavedOrUndone(f, rows)
      PROVE  Typed'
  <2>1. ReqTyped' /\ UNCHANGED <<up, keyVars>>
    BY <1>3, IdleType, GotoTyped DEF Typed
  <2>2. StoreTyped'
    BY <1>3, <2>1, SaveTyped DEF Typed
  <2> QED
    BY <1>3, <2>1, <2>2 DEF Typed, RepoTyped, KeyTyped, keyVars, repoVars
<1>4. ASSUME UNCHANGED repoVars PROVE RepoTyped'
  BY <1>4 DEF Typed, RepoTyped, repoVars
<1>5. ASSUME NEW pc \in {"shape", "add", "update"} PROVE [req[r] EXCEPT !.pc = pc] \in Job
  BY <1>1 DEF Job
<1>6. CASE MakeDir(r)
  <2>1. RepoTyped'
    BY <1>4, <1>6 DEF MakeDir, Typed, RepoTyped
  <2> QED
    BY <1>2, <1>5, <1>6, <2>1, IdleType DEF MakeDir
<1>7. CASE Shape(r)
  <2>1. RepoTyped'
    BY <1>7 DEF Shape, Typed, RepoTyped
  <2> QED
    BY <1>2, <1>7, <2>1, IdleType DEF Shape
<1>8. CASE Cleanup(r)
  <2>1. Fits("destinations", OthersThan(req[r].repo)) /\ "destinations" \in Store
    BY <1>1, WritesFit DEF Typed, Store
  <2> QED
    BY <1>3, <1>8, <2>1 DEF Cleanup, SavedOrUndone
<1>9. CASE LookUp(r)
  BY <1>2, <1>4, <1>5, <1>9, IdleType DEF LookUp
<1>10. CASE Add(r)
  <2>1. \A d \in Dest : Fits("destinations", [mem.destinations EXCEPT ![d] =
           [repo |-> req[r].repo, cred |-> req[r].cred, of |-> req[r].of]])
    BY WritesFit DEF Typed
  <2>2. CASE Undone
    BY <1>2, <1>4, <1>10, <2>2, IdleType DEF Add, Undone
  <2>3. ASSUME NEW d \in Dest, Saved("destinations", [mem.destinations EXCEPT ![d] =
           [repo |-> req[r].repo, cred |-> req[r].cred, of |-> req[r].of]])
        PROVE  Typed'
    <3> DEFINE rows == [mem.destinations EXCEPT ![d] =
                          [repo |-> req[r].repo, cred |-> req[r].cred, of |-> req[r].of]]
    <3>1. Fits("destinations", rows) /\ "destinations" \in Store /\ Saved("destinations", rows)
      BY <2>1, <2>3 DEF Store
    <3> HIDE DEF rows
    <3> QED
      BY <1>3, <1>10, <3>1 DEF Add, SavedOrNot
  <2> QED
    BY <1>10, <2>2, <2>3 DEF Add
<1>11. CASE Update(r)
  <2>1. CASE Undone
    BY <1>2, <1>4, <1>11, <2>1, IdleType DEF Update, Undone
  <2>2. CASE ~Undone
    <3> DEFINE rows == [mem.destinations EXCEPT ![req[r].dest].cred = req[r].cred]
    <3>1. req[r].dest \in Dest /\ Saved("destinations", rows) /\ "destinations" \in Store
      BY <1>11, <2>2 DEF Update, Live, Store
    <3>2. Fits("destinations", rows)
      BY <3>1, WritesFit DEF Typed
    <3> HIDE DEF rows
    <3> QED
      BY <1>3, <1>11, <3>1, <3>2 DEF Update, SavedOrNot
  <2> QED
    BY <2>1, <2>2
<1>12. CASE Put(r)
  <2> DEFINE rows == [mem.credentials EXCEPT ![req[r].cred] = req[r].secret]
             less == Discarded(req[r].cred)
  <2>1. Fits("credentials", rows) /\ Fits("credentials", less) /\ "credentials" \in Store
    BY <1>1, WritesFit DEF Typed, Store, Discarded
  <2>2. Saved("credentials", rows) \/ Unsaved("credentials", less) \/ Undone
    BY <1>12 DEF Put
  <2> HIDE DEF rows, less
  <2>3. Goto(r, Idle) /\ UNCHANGED repoVars
    BY <1>12 DEF Put
  <2> QED
    BY <1>3, <2>1, <2>2, <2>3 DEF SavedOrNot, SavedOrUndone
<1>13. CASE Forget(r)
  <2> DEFINE rows == [mem.credentials EXCEPT ![req[r].cred] = None]
  <2>1. Fits("credentials", rows) /\ "credentials" \in Store
    BY <1>1, WritesFit DEF Typed, Store
  <2>2. SavedOrNot("credentials", rows) \/ Undone
    BY <1>13 DEF Forget
  <2> HIDE DEF rows
  <2>3. Goto(r, Idle) /\ UNCHANGED repoVars
    BY <1>13 DEF Forget
  <2> QED
    BY <1>3, <2>1, <2>2, <2>3 DEF SavedOrNot, SavedOrUndone
<1> QED
  BY <1>6, <1>7, <1>8, <1>9, <1>10, <1>11, <1>12, <1>13 DEF Steps

(* Single operations, stops, and what happens while the server is down.    *)
LEMMA OthersTyped ==
  ASSUME Typed,
         \/ \E d \in Dest : RemoveDest(d)
         \/ RecordStatus \/ AppendEvent
         \/ \E c \in Cred : Touch(c)
         \/ \E c \in Client, k \in PubKey : Enroll(c, k)
         \/ Stop \/ Start \/ Rotation
  PROVE  Typed'
<1>1. ASSUME Serve \/ Aside, UNCHANGED repoVars, NEW f \in Store, NEW rows, Fits(f, rows),
             SavedOrNot(f, rows) \/ SavedOrUndone(f, rows)
      PROVE  Typed'
  <2>1. ReqTyped' /\ UNCHANGED <<up, keyVars>>
    BY <1>1, ServeTyped DEF Typed
  <2>2. StoreTyped'
    BY <1>1, <2>1, SaveTyped DEF Typed
  <2> QED
    BY <1>1, <2>1, <2>2 DEF Typed, RepoTyped, KeyTyped, keyVars, repoVars
<1>2. StoreTyped /\ ReqTyped /\ Store = {"destinations", "credentials", "clients", "audit_system"}
  BY DEF Typed, Store
<1>3. ASSUME NEW d \in Dest, RemoveDest(d) PROVE Typed'
  <2> DEFINE rows == [mem.destinations EXCEPT ![d] = NoDest]
  <2>1. Fits("destinations", rows)
    BY <1>2, WritesFit
  <2>2. Serve /\ SavedOrNot("destinations", rows) /\ UNCHANGED repoVars
    BY <1>3 DEF RemoveDest
  <2> HIDE DEF rows
  <2> QED
    BY <1>1, <1>2, <2>1, <2>2
<1>4. CASE RecordStatus
  BY <1>1, <1>2, <1>4, WritesFit DEF RecordStatus, SavedOrNot
<1>5. CASE AppendEvent
  BY <1>1, <1>2, <1>5, WritesFit DEF AppendEvent
<1>6. ASSUME NEW c \in Cred, Touch(c) PROVE Typed'
  BY <1>1, <1>2, <1>6, WritesFit DEF Touch
<1>7. ASSUME NEW c \in Client, NEW k \in PubKey, Enroll(c, k) PROVE Typed'
  <2> DEFINE rows == [mem.clients EXCEPT ![c] = k]
  <2>1. Fits("clients", rows)
    BY <1>2, WritesFit
  <2>2. Serve /\ SavedOrUndone("clients", rows) /\ UNCHANGED repoVars
    BY <1>7 DEF Enroll
  <2> HIDE DEF rows
  <2> QED
    BY <1>1, <1>2, <2>1, <2>2
<1>8. CASE Stop
  <2>1. req' \in [Request -> Job] /\ crowded' = {} /\ up' = FALSE /\ stops' \in Nat /\ served' \in Nat
    BY <1>8, IdleType DEF Stop, Typed, ReqTyped
  <2> QED
    BY <1>8, <2>1
       DEF Stop, Typed, RepoTyped, StoreTyped, KeyTyped, ReqTyped, storeVars, repoVars, keyVars
<1>9. CASE Start
  BY <1>9 DEF Start, Typed, RepoTyped, StoreTyped, KeyTyped, ReqTyped, repoVars, keyVars, Busy
<1>10. CASE Rotation
  <2>1. Offline
    BY <1>10 DEF Rotation, Rotate, BackUpKey, ReplaceKey, RotateEnds, BackUpFile, RewrapFile, Revert
  <2>2. RepoTyped' /\ ReqTyped'
    BY <2>1 DEF Offline, Typed, RepoTyped, ReqTyped, repoVars, Busy
  <2>3. ASSUME sealed' \in [Store -> Nat], baks' \in [Store -> SUBSET Nat] PROVE StoreTyped'
    BY <2>1, <2>3 DEF Offline, Typed, StoreTyped
  <2>4. ASSUME UNCHANGED <<sealed, baks>> PROVE StoreTyped'
    BY <2>1, <2>4 DEF Offline, Typed, StoreTyped
  <2>5. CASE Rotate
    <3>1. KeyTyped'
      BY <2>5 DEF Rotate, Typed, KeyTyped, Decrypted
    <3> QED
      BY <2>2, <2>4, <2>5, <3>1 DEF Rotate, Typed
  <2>6. CASE BackUpKey
    BY <2>2, <2>4, <2>6 DEF BackUpKey, Typed, KeyTyped
  <2>7. CASE ReplaceKey
    BY <2>2, <2>4, <2>7 DEF ReplaceKey, Typed, KeyTyped
  <2>8. CASE RotateEnds
    BY <2>2, <2>4, <2>8 DEF RotateEnds, NoRotation, Typed, KeyTyped
  <2>9. ASSUME NEW f \in Store, BackUpFile(f) PROVE Typed'
    <3>1. baks' \in [Store -> SUBSET Nat] /\ sealed' = sealed
      BY <2>9 DEF BackUpFile, Typed, StoreTyped, KeyTyped
    <3> QED
      BY <2>2, <2>3, <2>9, <3>1 DEF BackUpFile, Typed, StoreTyped, KeyTyped
  <2>10. ASSUME NEW f \in Store, RewrapFile(f) PROVE Typed'
    <3>1. sealed' \in [Store -> Nat] /\ baks' = baks
      BY <2>10 DEF RewrapFile, Typed, StoreTyped, KeyTyped
    <3> QED
      BY <2>2, <2>3, <2>10, <3>1 DEF RewrapFile, Typed, StoreTyped, KeyTyped
  <2>11. ASSUME NEW k \in Key, Revert(k) PROVE Typed'
    <3>1. sealed' \in [Store -> Nat] /\ baks' = baks /\ k \in Nat \ {0}
      BY <2>11 DEF Revert, Typed, StoreTyped, KeyTyped
    <3> QED
      BY <2>2, <2>3, <2>11, <3>1 DEF Revert, Typed, StoreTyped, KeyTyped
  <2> QED
    BY <1>10, <2>5, <2>6, <2>7, <2>8, <2>9, <2>10, <2>11 DEF Rotation
<1> QED
  BY <1>3, <1>4, <1>5, <1>6, <1>7, <1>8, <1>9, <1>10

(* The stores begin empty and the server up.                               *)
LEMMA InitTyped == Init => Typed
<1> SUFFICES ASSUME Init PROVE Typed
  OBVIOUS
<1>1. Empty \in Row
  BY DEF Empty, Row, NoDest
<1>2. RepoTyped
  BY DEF Init, RepoTyped
<1>3. StoreTyped
  BY <1>1 DEF Init, StoreTyped
<1>4. KeyTyped /\ ReqTyped
  BY IdleType DEF Init, KeyTyped, ReqTyped, NoRotation
<1> QED
  BY <1>2, <1>3, <1>4 DEF Typed

(* Every step keeps the types.                                             *)
LEMMA NextTyped == Typed /\ [Next]_vars => Typed'
<1> SUFFICES ASSUME Typed, [Next]_vars PROVE Typed'
  OBVIOUS
<1>1. CASE UNCHANGED vars
  BY <1>1 DEF vars, Typed, RepoTyped, StoreTyped, KeyTyped, ReqTyped, Busy
<1>2. CASE \E r \in Request : Begins(r) \/ Steps(r)
  BY <1>2, BeginsTyped, StepsTyped
<1> QED
  BY <1>1, <1>2, OthersTyped DEF Next

(* The stores, their files, the keys and the handlers keep their types,    *)
(* and memory and file differ only where a write failed and was not undone *)
(* (the stores of internal/destinations, credentials, clients, audit).     *)
THEOREM TypeCorrect == Spec => []TypeOK
<1>1. Typed => TypeOK
  BY DEF Typed, RepoTyped, StoreTyped, KeyTyped, ReqTyped, TypeOK
<1> QED
  BY <1>1, InitTyped, NextTyped, PTL DEF Spec

-----------------------------------------------------------------------------
(* Rotation of the server's key.                                           *)

\* Where the keys of the files and of their backups are, at each stage of a
\* rotation.
Sealing ==
  /\ up => rot.pc = "idle" /\ \A f \in Store : Opens(f)
  /\ rot.pc = "key" => /\ rot.old = priv /\ \A f \in Store : Opens(f)
                       /\ \A f \in Store : sealed[f] # 0 => f \in rot.todo
  /\ rot.pc = "files" =>
       /\ rot.old \in privBaks
       /\ \A f \in Store :
            \/ sealed[f] = 0
            \/ f \in rot.todo /\ sealed[f] = rot.old
            \/ f \notin rot.todo /\ sealed[f] = priv /\ rot.old \in baks[f]
  /\ \E k \in {priv} \cup privBaks : \A f \in Store : OpensWith(f, k)

(* A store that is none of the first keys and of the system log.           *)
Writes(f) == \E rows : Saved(f, rows) \/ Unsaved(f, rows)
WritesElsewhere == UNCHANGED storeVars \/ Writes("destinations") \/ Writes("credentials")

(* What requests do to the stores.                                         *)
LEMMA StepsWrite ==
  ASSUME NEW r \in Request, Begins(r) \/ Steps(r)
  PROVE  WritesElsewhere /\ UNCHANGED <<up, keyVars>> /\ (up \/ Busy # {})
<1> USE DEF WritesElsewhere
<1>1. CASE Begins(r)
  BY <1>1 DEF Begins, CreateRepo, DeleteRepo, CreateDest, UpdateDest, CreateCred, UpdateCred,
              DeleteCred, Begin
<1>2. CASE MakeDir(r) \/ Shape(r) \/ LookUp(r)
  BY <1>2 DEF MakeDir, Shape, LookUp, Goto, Busy
<1>3. CASE Cleanup(r)
  BY <1>3 DEF Cleanup, Goto, Undone, SavedOrNot, Writes, Busy
<1>4. CASE Add(r)
  BY <1>4 DEF Add, Goto, Undone, Writes, Busy
<1>5. CASE Update(r)
  BY <1>5 DEF Update, Goto, Undone, Writes, Busy
<1>6. CASE Put(r)
  BY <1>6 DEF Put, Goto, Undone, Writes, Busy
<1>7. CASE Forget(r)
  BY <1>7 DEF Forget, Goto, Undone, SavedOrNot, Writes, Busy
<1> QED
  BY <1>1, <1>2, <1>3, <1>4, <1>5, <1>6, <1>7 DEF Steps

(* What single operations do to the stores.                                *)
LEMMA OthersWrite ==
  ASSUME \/ \E d \in Dest : RemoveDest(d)
         \/ RecordStatus
         \/ \E c \in Cred : Touch(c)
  PROVE  WritesElsewhere /\ UNCHANGED <<up, keyVars>> /\ up
<1>1. ASSUME NEW d \in Dest, RemoveDest(d)
      PROVE  WritesElsewhere /\ UNCHANGED <<up, keyVars>> /\ up
  BY <1>1 DEF RemoveDest, Serve, SavedOrNot, Writes, WritesElsewhere
<1>2. CASE RecordStatus
  BY <1>2 DEF RecordStatus, Aside, Writes, WritesElsewhere
<1>3. ASSUME NEW c \in Cred, Touch(c)
      PROVE  WritesElsewhere /\ UNCHANGED <<up, keyVars>> /\ up
  BY <1>3 DEF Touch, Aside, SavedOrNot, Writes, WritesElsewhere
<1> QED
  BY <1>1, <1>2, <1>3

(* A save, while the server runs, seals the file with the server's key.    *)
LEMMA SavesSealed ==
  ASSUME Typed, Sealing, up, UNCHANGED <<up, keyVars>>,
         UNCHANGED storeVars \/ \E f \in Store : Writes(f)
  PROVE  Sealing'
<1>1. \/ UNCHANGED <<sealed, baks>>
      \/ \E f \in Store : /\ sealed' = [sealed EXCEPT ![f] = priv]
                          /\ baks' = [baks EXCEPT ![f] = {}]
  BY DEF Writes, Saved, Unsaved, storeVars
<1>2. priv' = priv /\ privBaks' = privBaks /\ rot' = rot
  BY DEF keyVars
<1>3. \A f \in Store : Opens(f)'
  BY <1>1, <1>2 DEF Sealing, Opens, Typed, StoreTyped
<1>4. \A f \in Store : OpensWith(f, priv)'
  BY <1>2, <1>3 DEF Opens, OpensWith
<1> QED
  BY <1>2, <1>3, <1>4 DEF Sealing

(* No step leaves a file that nothing opens.                               *)
LEMMA NextSealed ==
  ASSUME Typed, Sealing, Busy # {} => up, [Next]_vars
  PROVE  Sealing'
<1>1. ASSUME NEW r \in Request, Begins(r) \/ Steps(r) PROVE Sealing'
  BY <1>1, StepsWrite, SavesSealed DEF WritesElsewhere, Store
<1>2. CASE (\E d \in Dest : RemoveDest(d)) \/ RecordStatus \/ (\E c \in Cred : Touch(c))
  BY <1>2, OthersWrite, SavesSealed DEF WritesElsewhere, Store
<1>3. CASE AppendEvent
  <2>1. UNCHANGED storeVars \/ Writes("audit_system")
    BY <1>3 DEF AppendEvent, SavedOrUndone, Undone, Writes
  <2>2. up /\ UNCHANGED <<up, keyVars>>
    BY <1>3 DEF AppendEvent, Serve
  <2> QED
    BY <2>1, <2>2, SavesSealed DEF Store
<1>4. ASSUME NEW c \in Client, NEW k \in PubKey, Enroll(c, k) PROVE Sealing'
  <2>1. UNCHANGED storeVars \/ Writes("clients")
    BY <1>4 DEF Enroll, SavedOrUndone, Undone, Writes
  <2>2. up /\ UNCHANGED <<up, keyVars>>
    BY <1>4 DEF Enroll, Serve
  <2> QED
    BY <2>1, <2>2, SavesSealed DEF Store
<1>5. CASE Stop
  BY <1>5 DEF Stop, Sealing, Opens, OpensWith, storeVars, keyVars
<1>6. CASE Start
  BY <1>6 DEF Start, Sealing, Opens, OpensWith, keyVars
<1>7. CASE UNCHANGED vars
  BY <1>7 DEF vars, Sealing, Opens, OpensWith
<1>8. CASE Rotation
  <2>1. ~up /\ ~up'
    BY <1>8 DEF Rotation, Rotate, BackUpKey, ReplaceKey, RotateEnds, BackUpFile, RewrapFile,
                Revert, Offline
  <2>2. CASE Rotate
    BY <2>1, <2>2 DEF Rotate, Decrypted, Sealing, Opens, OpensWith
  <2>3. CASE BackUpKey
    BY <2>1, <2>3 DEF BackUpKey, Sealing, Opens, OpensWith
  <2>4. CASE ReplaceKey
    BY <2>1, <2>4 DEF ReplaceKey, BackedUp, Sealing, Opens, OpensWith
  <2>5. CASE RotateEnds
    BY <2>1, <2>5 DEF RotateEnds, NoRotation, Sealing, OpensWith
  <2>6. ASSUME NEW f \in Store, BackUpFile(f) PROVE Sealing'
    BY <2>1, <2>6 DEF BackUpFile, Sealing, OpensWith, Typed, StoreTyped, KeyTyped
  <2>7. ASSUME NEW f \in Store, RewrapFile(f) PROVE Sealing'
    BY <2>1, <2>7 DEF RewrapFile, Sealing, OpensWith, Typed, StoreTyped, KeyTyped
  <2>8. ASSUME NEW k \in Key, Revert(k) PROVE Sealing'
    BY <2>1, <2>8 DEF Revert, Sealing, OpensWith, Typed, StoreTyped
  <2> QED
    BY <1>8, <2>2, <2>3, <2>4, <2>5, <2>6, <2>7, <2>8 DEF Rotation
<1> QED
  BY <1>1, <1>2, <1>3, <1>4, <1>5, <1>6, <1>7, <1>8 DEF Next

(* Requests are at work only while the server runs.                        *)
LEMMA NextServes ==
  ASSUME Typed, Typed', Busy # {} => up, [Next]_vars
  PROVE  Busy' # {} => up'
<1>1. ASSUME NEW r \in Request, Begins(r) \/ Steps(r) PROVE up'
  BY <1>1, StepsWrite
<1>2. CASE Stop
  <2>1. Busy' = {}
    BY <1>2 DEF Stop, Busy, Idle
  <2> QED
    BY <2>1
<1>3. ASSUME Busy' = Busy, UNCHANGED up PROVE Busy' # {} => up'
  BY <1>3
<1>4. CASE (\E d \in Dest : RemoveDest(d)) \/ RecordStatus \/ AppendEvent
           \/ (\E c \in Cred : Touch(c)) \/ (\E c \in Client, k \in PubKey : Enroll(c, k))
  <2>1. Serve \/ Aside
    BY <1>4 DEF RemoveDest, RecordStatus, AppendEvent, Touch, Enroll
  <2> QED
    BY <2>1 DEF Serve, Aside, Busy
<1>5. CASE Start
  BY <1>5 DEF Start
<1>6. CASE Rotation
  <2>1. Offline
    BY <1>6 DEF Rotation, Rotate, BackUpKey, ReplaceKey, RotateEnds, BackUpFile, RewrapFile, Revert
  <2> QED
    BY <2>1 DEF Offline, Busy
<1>7. CASE UNCHANGED vars
  BY <1>7 DEF vars, Busy
<1> QED
  BY <1>1, <1>2, <1>4, <1>5, <1>6, <1>7 DEF Next

(* At the start nothing is sealed and nobody is at work.                   *)
LEMMA InitSealed == Init => Sealing /\ (Busy # {} => up)
BY DEF Init, Sealing, Opens, OpensWith, NoRotation, Busy

(* Wherever a rotation of the server's key stops, fails or is killed, one  *)
(* key opens every store at its last contents, and the server never runs   *)
(* on files it cannot open (crypto/rotate.go: Rotate).                     *)
THEOREM RotationIsSafe == Spec => []RotationLosesNothing
<1> DEFINE Inv == Typed /\ Sealing /\ (Busy # {} => up)
<1>1. Init => Inv
  BY InitTyped, InitSealed
<1>2. Inv /\ [Next]_vars => Inv'
  BY NextTyped, NextSealed, NextServes
<1>3. Inv => RotationLosesNothing
  BY DEF Sealing, RotationLosesNothing, Opens
<1> QED
  BY <1>1, <1>2, <1>3, PTL DEF Spec

-----------------------------------------------------------------------------
(* First keys of clients, and the system audit log.                        *)

\* Memory and file of the two stores never differ.
Filed == disk.clients = mem.clients /\ disk.audit_system = mem.audit_system

Remembered ==
  /\ \A c \in Client : mem.clients[c] # None => mem'.clients[c] = mem.clients[c]
  /\ mem'.audit_system >= mem.audit_system

(* A step that leaves the two stores alone.                                *)
LEMMA Elsewhere ==
  ASSUME Typed, Filed, WritesElsewhere
  PROVE  Filed' /\ Remembered
<1>1. /\ mem \in Row /\ disk \in Row /\ mem.audit_system \in Nat
  BY DEF Typed, StoreTyped, Row
<1>2. /\ mem'.clients = mem.clients /\ mem'.audit_system = mem.audit_system
      /\ disk'.clients = disk.clients /\ disk'.audit_system = disk.audit_system
  BY <1>1 DEF WritesElsewhere, Writes, Saved, Unsaved, storeVars, Row
<1> QED
  BY <1>1, <1>2 DEF Filed, Remembered

(* Every step keeps what the two stores hold.                              *)
LEMMA NextRemembers ==
  ASSUME Typed, Filed, [Next]_vars
  PROVE  Filed' /\ Remembered
<1>1. ASSUME NEW r \in Request, Begins(r) \/ Steps(r) PROVE Filed' /\ Remembered
  BY <1>1, StepsWrite, Elsewhere
<1>2. CASE (\E d \in Dest : RemoveDest(d)) \/ RecordStatus \/ (\E c \in Cred : Touch(c))
  BY <1>2, OthersWrite, Elsewhere
<1>3. mem \in Row /\ disk \in Row /\ mem.audit_system \in Nat
  BY DEF Typed, StoreTyped, Row
<1>4. CASE AppendEvent
  <2>1. CASE Undone
    BY <2>1, Elsewhere DEF Undone, WritesElsewhere
  <2>2. CASE Saved("audit_system", mem.audit_system + 1)
    BY <1>3, <2>2 DEF Saved, Filed, Remembered, Row
  <2> QED
    BY <1>4, <2>1, <2>2 DEF AppendEvent, SavedOrUndone
<1>5. ASSUME NEW c \in Client, NEW k \in PubKey, Enroll(c, k) PROVE Filed' /\ Remembered
  <2>1. CASE Undone
    BY <2>1, Elsewhere DEF Undone, WritesElsewhere
  <2>2. CASE Saved("clients", [mem.clients EXCEPT ![c] = k])
    <3>1. mem.clients \in [Client -> PubKey \cup {None}] /\ mem.clients[c] = None
      BY <1>3, <1>5 DEF Row, Enroll, Enrolls
    <3> QED
      BY <1>3, <2>2, <3>1 DEF Saved, Filed, Remembered, Row
  <2> QED
    BY <1>5, <2>1, <2>2 DEF Enroll, SavedOrUndone
<1>6. CASE Stop
  BY <1>6, Elsewhere DEF Stop, WritesElsewhere
<1>7. CASE Start
  BY <1>3, <1>7 DEF Start, Filed, Remembered
<1>8. CASE Rotation
  <2>1. Offline
    BY <1>8 DEF Rotation, Rotate, BackUpKey, ReplaceKey, RotateEnds, BackUpFile, RewrapFile, Revert
  <2> QED
    BY <1>3, <2>1 DEF Offline, Filed, Remembered
<1>9. CASE UNCHANGED vars
  BY <1>9, Elsewhere DEF vars, WritesElsewhere, storeVars
<1> QED
  BY <1>1, <1>2, <1>4, <1>5, <1>6, <1>7, <1>8, <1>9 DEF Next

(* A client keeps the key it enrolled with first and the system log never  *)
(* shrinks, over failed writes, stops, rotations and reverts               *)
(* (clients/store.go: Enroll; audit/store.go: Append).                     *)
THEOREM FirstKeysAndLogStay == Spec => NothingForgotten
<1>1. Init => Typed /\ Filed
  BY InitTyped DEF Init, Filed, Empty
<1>2. Typed /\ Filed /\ [Next]_vars => Typed' /\ Filed'
  BY NextTyped, NextRemembers
<1>3. Typed /\ Filed /\ [Next]_vars =>
        [/\ \A c \in Client : mem.clients[c] # None => mem'.clients[c] = mem.clients[c]
         /\ mem'.audit_system >= mem.audit_system]_vars
  BY NextRemembers DEF Remembered
<1> QED
  BY <1>1, <1>2, <1>3, PTL DEF Spec, NothingForgotten

-----------------------------------------------------------------------------
(* What comes apart only when requests overlap.                            *)

\* What a request carries along.
Sane(job) ==
  /\ job.pc \in {"init", "clone", "shape", "cleanup", "add"} => job.repo \in Repo
  /\ job.pc = "lookup" /\ job.dest = None => job.repo \in Repo /\ job.of # 0
  /\ job.pc = "add" => job.of # 0
  /\ job.pc \in {"lookup", "add", "update"} => job.cred \in Cred
  /\ job.pc = "put" => job.secret # None

\* What a request that ran alone so far knows, of the directories, their owners
\* and the rows of the stores.
Careful(job, dirs, own, rows) ==
  /\ job.pc \in {"init", "clone"} => dirs[job.repo] = 0
  /\ job.pc = "shape" => own[job.repo] = 0
  /\ job.pc = "add" \/ (job.pc = "lookup" /\ job.dest = None) => job.of = dirs[job.repo]
  /\ job.pc \in {"add", "update"} => rows.credentials[job.cred] # None
  /\ job.pc = "forget" =>
       \A d \in Dest : rows.destinations[d] # NoDest => rows.destinations[d].cred # job.cred

\* Every destination was made for a repository, with a credential.
Rooted(dests) ==
  \A d \in Dest : dests[d] # NoDest => dests[d].of # 0 /\ dests[d].cred \in Cred

Tidy ==
  /\ \A r \in Request : Sane(req[r])
  /\ Rooted(mem.destinations) /\ Rooted(disk.destinations)
  /\ \A r \in Busy : r \in crowded \/ (Busy = {r} /\ Careful(req[r], dir, owners, mem))
  /\ Busy # {} => up

(* The rows of the stores after a step.                                    *)
LEMMA RowsAfter ==
  ASSUME Typed
  PROVE  /\ \A rows : Saved("destinations", rows) \/ Unsaved("destinations", rows) =>
              /\ mem'.destinations = rows /\ mem'.credentials = mem.credentials
              /\ disk'.destinations \in {rows, disk.destinations}
         /\ \A rows : Saved("credentials", rows) \/ Unsaved("credentials", rows) =>
              /\ mem'.credentials = rows /\ mem'.destinations = mem.destinations
              /\ disk'.destinations = disk.destinations
         /\ \A rows : Saved("clients", rows) \/ Saved("audit_system", rows) =>
              /\ mem'.credentials = mem.credentials /\ mem'.destinations = mem.destinations
              /\ disk'.destinations = disk.destinations
<1>1. mem \in Row /\ disk \in Row
  BY DEF Typed, StoreTyped
<1>2. ASSUME NEW rows, Saved("destinations", rows) \/ Unsaved("destinations", rows)
      PROVE  /\ mem'.destinations = rows /\ mem'.credentials = mem.credentials
             /\ disk'.destinations \in {rows, disk.destinations}
  BY <1>1, <1>2 DEF Saved, Unsaved, Row
<1>3. ASSUME NEW rows, Saved("credentials", rows) \/ Unsaved("credentials", rows)
      PROVE  /\ mem'.credentials = rows /\ mem'.destinations = mem.destinations
             /\ disk'.destinations = disk.destinations
  BY <1>1, <1>3 DEF Saved, Unsaved, Row
<1>4. ASSUME NEW rows, Saved("clients", rows) \/ Saved("audit_system", rows)
      PROVE  /\ mem'.credentials = mem.credentials /\ mem'.destinations = mem.destinations
             /\ disk'.destinations = disk.destinations
  BY <1>1, <1>4 DEF Saved, Row
<1> QED
  BY <1>2, <1>3, <1>4

(* A request that begins alone knows what it looked at.                    *)
LEMMA BeginTidy ==
  ASSUME Typed, Tidy, NEW r \in Request, NEW job \in Job, job.pc # "idle", Begin(r, job),
         UNCHANGED storeVars, Sane(job), Careful(job, dir', owners', mem')
  PROVE  Tidy'
<1>1. req' = [req EXCEPT ![r] = job] /\ Busy' = Busy \cup {r} /\ up'
  BY DEF Begin, Busy, Typed, ReqTyped
<1>2. \A s \in Request : Sane(req'[s])
  BY <1>1 DEF Tidy, Typed, ReqTyped
<1>3. req'[r] = job
  BY <1>1 DEF Typed, ReqTyped
<1>4. ASSUME NEW s \in Busy'
      PROVE  s \in crowded' \/ (Busy' = {s} /\ Careful(req'[s], dir', owners', mem'))
  <2>1. CASE Busy = {}
    BY <1>1, <1>3, <2>1
  <2>2. CASE Busy # {}
    BY <1>1, <2>2 DEF Begin
  <2> QED
    BY <2>1, <2>2
<1> QED
  BY <1>1, <1>2, <1>4 DEF Tidy, storeVars

(* A request goes on, alone or not.                                        *)
LEMMA GotoTidy ==
  ASSUME Typed, Tidy, NEW r \in Busy, NEW job \in Job, Goto(r, job), Sane(job),
         Rooted(mem'.destinations), Rooted(disk'.destinations),
         r \in crowded \/ job.pc = "idle" \/ Careful(job, dir', owners', mem')
  PROVE  Tidy'
<1>1. r \in Request /\ up /\ up' = up
  BY DEF Busy, Tidy, Goto
<1>2. req' = [req EXCEPT ![r] = job] /\ Busy' = IF job.pc = "idle" THEN Busy \ {r} ELSE Busy
  BY DEF Goto, Busy, Typed, ReqTyped
<1>3. \A s \in Request : Sane(req'[s])
  BY <1>1, <1>2 DEF Tidy, Typed, ReqTyped
<1>4. req'[r] = job
  BY <1>1, <1>2 DEF Typed, ReqTyped
<1>5. ASSUME NEW s \in Busy'
      PROVE  s \in crowded' \/ (Busy' = {s} /\ Careful(req'[s], dir', owners', mem'))
  <2>1. CASE s = r
    BY <1>2, <1>4, <2>1 DEF Goto, Tidy, Busy
  <2>2. CASE s # r
    BY <1>2, <2>2 DEF Goto, Tidy
  <2> QED
    BY <2>1, <2>2
<1> QED
  BY <1>1, <1>3, <1>5 DEF Tidy

\* Destinations may go, and nothing else happens to rows and directories.
Fewer ==
  /\ \A d \in Dest : mem'.destinations[d] \in {mem.destinations[d], NoDest}
  /\ mem'.credentials = mem.credentials
  /\ disk'.destinations \in {mem'.destinations, disk.destinations}
  /\ UNCHANGED repoVars

(* A step beside the requests takes destinations at most.                  *)
LEMMA AsideTidy ==
  ASSUME Typed, Tidy, UNCHANGED <<req, crowded, up>>, Fewer
  PROVE  Tidy'
<1>1. Busy' = Busy
  BY DEF Busy
<1>2. Rooted(mem'.destinations) /\ Rooted(disk'.destinations)
  BY DEF Fewer, Tidy, Rooted
<1>3. ASSUME NEW r \in Busy, Careful(req[r], dir, owners, mem)
      PROVE  Careful(req[r], dir', owners', mem')
  BY <1>3 DEF Careful, Fewer, repoVars
<1> QED
  BY <1>1, <1>2, <1>3 DEF Tidy

\* The steps of the three properties.
Loose(d) == Stray(d) /\ ~Cleaning(mem.destinations[d].repo)
StrayStep == \A d \in Dest : Loose(d)' /\ ~Loose(d) => Raced \/ StartsBehind \/ (up /\ ~up')
OrphanStep ==
  \A d \in Dest : Orphan(d)' /\ ~Orphan(d) =>
    \/ Raced \/ StartsBehind
    \/ \E r \in Busy : req[r].pc = "put" /\ "credentials" \in unsaved'
TwiceStep == \A p \in Repo : owners'[p] > 1 /\ owners[p] <= 1 => Raced
Explained == StrayStep /\ OrphanStep /\ TwiceStep

(* Nobody is told that a repository is made.                               *)
LEMMA NobodyTold ==
  ASSUME Typed, UNCHANGED owners
  PROVE  TwiceStep
BY DEF TwiceStep, Typed, RepoTyped

(* Where destinations go at most, nothing comes apart.                     *)
LEMMA FewerExplained ==
  ASSUME Typed, Fewer, \A p \in Repo \cup {None} : Cleaning(p) => Cleaning(p)'
  PROVE  Explained
<1>1. \A d \in Dest : mem.destinations[d].repo \in Repo \cup {None}
  BY DEF Typed, StoreTyped, Row
<1>2. StrayStep
  BY <1>1 DEF StrayStep, Loose, Stray, Live, Fewer, repoVars
<1>3. ASSUME NEW d \in Dest, Orphan(d)' PROVE Orphan(d)
  <2>1. mem'.destinations[d] # NoDest /\ mem'.credentials[mem'.destinations[d].cred] = None
    BY <1>3 DEF Orphan, Live, HasCred
  <2>2. mem'.destinations[d] = mem.destinations[d] /\ mem'.credentials = mem.credentials
    BY <2>1 DEF Fewer
  <2> QED
    BY <2>1, <2>2 DEF Orphan, Live, HasCred
<1>4. TwiceStep
  BY NobodyTold DEF Fewer, repoVars
<1> QED
  BY <1>2, <1>3, <1>4 DEF Explained, OrphanStep

(* Requests that begin.                                                    *)
LEMMA BeginsTidy ==
  ASSUME Typed, Tidy, NEW r \in Request, Begins(r)
  PROVE  Tidy' /\ Explained
<1>1. ASSUME NEW job \in Job, Begin(r, job), UNCHANGED <<storeVars, repoVars>>
      PROVE  Explained
  <2>1. \A p \in Repo \cup {None} : Cleaning(p) => Cleaning(p)'
    BY <1>1 DEF Begin, Cleaning, Typed, ReqTyped
  <2> QED
    BY <1>1, <2>1, FewerExplained DEF Fewer, storeVars
<1>2. ASSUME NEW job \in Job, job.pc # "idle", Begin(r, job), UNCHANGED <<storeVars, repoVars>>,
             Sane(job), Careful(job, dir, owners, mem)
      PROVE  Tidy' /\ Explained
  BY <1>1, <1>2, BeginTidy DEF storeVars, repoVars
<1>3. ASSUME NEW p \in Repo, NEW how \in {"init", "clone"}, CreateRepo(r, p, how)
      PROVE  Tidy' /\ Explained
  <2> DEFINE job == [Idle EXCEPT !.pc = how, !.repo = p]
  <2>1. job \in Job /\ job.pc = how /\ job.repo = p
    BY DEF Idle, Job
  <2>2. Sane(job) /\ Careful(job, dir, owners, mem)
    BY <1>3, <2>1 DEF CreateRepo, MayCreate, Exists, Sane, Careful
  <2> QED
    BY <1>2, <1>3, <2>1, <2>2 DEF CreateRepo
<1>4. ASSUME NEW p \in Repo, DeleteRepo(r, p) PROVE Tidy' /\ Explained
  <2> DEFINE job == [Idle EXCEPT !.pc = "cleanup", !.repo = p]
  <2>1. job \in Job /\ job.pc = "cleanup" /\ job.repo = p
    BY DEF Idle, Job
  <2>2. Sane(job) /\ Careful(job, dir', owners', mem')
    BY <2>1 DEF Sane, Careful
  <2>3. Begin(r, job) /\ UNCHANGED storeVars /\ UNCHANGED <<made, owners>>
        /\ dir' = [dir EXCEPT ![p] = 0] /\ req[r].pc = "idle"
    BY <1>4 DEF DeleteRepo, Begin
  <2> HIDE DEF job
  <2>4. Tidy'
    BY <2>1, <2>2, <2>3, BeginTidy
  <2>5. req' = [req EXCEPT ![r] = job] /\ mem' = mem
    BY <2>3 DEF Begin, storeVars
  <2>6. Cleaning(p)' /\ \A q \in Repo \cup {None} : Cleaning(q) => Cleaning(q)'
    BY <2>1, <2>3, <2>5 DEF Cleaning, Typed, ReqTyped
  <2>7. \A d \in Dest : mem.destinations[d].repo \in Repo \cup {None}
    BY DEF Typed, StoreTyped, Row
  <2>8. ASSUME NEW d \in Dest, Loose(d)' PROVE Loose(d)
    <3>1. mem.destinations[d].repo # p
      BY <2>5, <2>6, <2>8 DEF Loose
    <3>2. dir'[mem.destinations[d].repo] = dir[mem.destinations[d].repo]
      BY <2>3, <2>7, <3>1 DEF Typed, RepoTyped
    <3> QED
      BY <2>5, <2>6, <2>7, <2>8, <3>2 DEF Loose, Stray, Live
  <2>9. StrayStep
    BY <2>8 DEF StrayStep
  <2>10. OrphanStep /\ TwiceStep
    BY <2>3, <2>5, NobodyTold DEF OrphanStep, Orphan, Live, HasCred
  <2> QED
    BY <2>4, <2>9, <2>10 DEF Explained
<1>5. ASSUME NEW c \in Cred, NEW p \in Repo, CreateDest(r, p, c) PROVE Tidy' /\ Explained
  <2> DEFINE job == [Idle EXCEPT !.pc = "lookup", !.repo = p, !.of = dir[p], !.cred = c]
  <2>1. job \in Job /\ job.pc = "lookup" /\ job.repo = p /\ job.of = dir[p] /\ job.cred = c
    BY DEF Idle, Job, Typed, RepoTyped
  <2>2. Sane(job) /\ Careful(job, dir, owners, mem)
    BY <1>5, <2>1 DEF CreateDest, Exists, Sane, Careful
  <2> QED
    BY <1>2, <1>5, <2>1, <2>2 DEF CreateDest
<1>6. ASSUME NEW c \in Cred, NEW d \in Dest, UpdateDest(r, d, c) PROVE Tidy' /\ Explained
  <2> DEFINE job == [Idle EXCEPT !.pc = "lookup", !.dest = d, !.cred = c,
                                 !.repo = mem.destinations[d].repo]
  <2>1. mem.destinations[d].repo \in Repo \cup {None}
    BY DEF Typed, StoreTyped, Row
  <2>2. job \in Job /\ job.pc = "lookup" /\ job.dest = d /\ d # None /\ job.cred = c
    BY <2>1, VaultAssumption DEF Idle, Job
  <2>3. Sane(job) /\ Careful(job, dir, owners, mem)
    BY <2>2 DEF Sane, Careful
  <2> QED
    BY <1>2, <1>6, <2>2, <2>3 DEF UpdateDest
<1>7. ASSUME NEW c \in Cred, NEW s \in Secret, CreateCred(r, c, s) PROVE Tidy' /\ Explained
  <2> DEFINE job == [Idle EXCEPT !.pc = "put", !.cred = c, !.secret = s]
  <2>1. job \in Job /\ job.pc = "put" /\ job.secret = s /\ s # None
    BY VaultAssumption DEF Idle, Job
  <2>2. Sane(job) /\ Careful(job, dir, owners, mem)
    BY <2>1 DEF Sane, Careful
  <2> QED
    BY <1>2, <1>7, <2>1, <2>2 DEF CreateCred
<1>8. ASSUME NEW c \in Cred, NEW s \in Secret \cup {None}, UpdateCred(r, c, s)
      PROVE  Tidy' /\ Explained
  <2> DEFINE kept == IF s = None THEN mem.credentials[c] ELSE s
             job == [Idle EXCEPT !.pc = "put", !.cred = c, !.secret = kept]
  <2>1. kept \in Secret \cup {None} /\ kept # None
    BY <1>8, VaultAssumption DEF UpdateCred, HasCred, Typed, StoreTyped, Row
  <2>2. UNCHANGED <<storeVars, repoVars>> /\ Begin(r, job)
    BY <1>8 DEF UpdateCred
  <2> HIDE DEF kept
  <2>3. job \in Job /\ job.pc = "put" /\ job.secret = kept
    BY <2>1 DEF Idle, Job
  <2>4. Sane(job) /\ Careful(job, dir, owners, mem)
    BY <2>1, <2>3 DEF Sane, Careful
  <2> QED
    BY <1>2, <2>2, <2>3, <2>4
<1>9. ASSUME NEW c \in Cred, DeleteCred(r, c) PROVE Tidy' /\ Explained
  <2> DEFINE job == [Idle EXCEPT !.pc = "forget", !.cred = c]
  <2>1. job \in Job /\ job.pc = "forget" /\ job.cred = c
    BY DEF Idle, Job
  <2>2. Sane(job) /\ Careful(job, dir, owners, mem)
    BY <1>9, <2>1 DEF DeleteCred, Refs, Live, Sane, Careful
  <2> QED
    BY <1>2, <1>9, <2>1, <2>2 DEF DeleteCred
<1> QED
  BY <1>3, <1>4, <1>5, <1>6, <1>7, <1>8, <1>9 DEF Begins

(* Steps beside the requests, and while the server is down.                *)
LEMMA OthersTidy ==
  ASSUME Typed, Tidy,
         \/ \E d \in Dest : RemoveDest(d)
         \/ RecordStatus \/ AppendEvent
         \/ \E c \in Cred : Touch(c)
         \/ \E c \in Client, k \in PubKey : Enroll(c, k)
         \/ Stop \/ Start \/ Rotation \/ UNCHANGED vars
  PROVE  Tidy' /\ Explained
<1>1. ASSUME UNCHANGED <<req, crowded, up>>, Fewer PROVE Tidy' /\ Explained
  <2>1. \A p \in Repo \cup {None} : Cleaning(p) => Cleaning(p)'
    BY <1>1 DEF Cleaning
  <2> QED
    BY <1>1, <2>1, AsideTidy, FewerExplained
<1>2. ASSUME UNCHANGED <<mem, disk, repoVars>> PROVE Fewer
  BY <1>2 DEF Fewer
<1>3. ASSUME Serve \/ Aside PROVE UNCHANGED <<req, crowded, up>>
  BY <1>3 DEF Serve, Aside
<1>4. ASSUME NEW d \in Dest, RemoveDest(d) PROVE Tidy' /\ Explained
  <2> DEFINE rows == [mem.destinations EXCEPT ![d] = NoDest]
  <2>1. \A e \in Dest : rows[e] \in {mem.destinations[e], NoDest}
    BY DEF Typed, StoreTyped, Row
  <2>2. (Saved("destinations", rows) \/ Unsaved("destinations", rows)) /\ Serve /\ UNCHANGED repoVars
    BY <1>4 DEF RemoveDest, SavedOrNot
  <2> HIDE DEF rows
  <2>3. Fewer
    BY <2>1, <2>2, RowsAfter DEF Fewer
  <2> QED
    BY <1>1, <1>3, <2>2, <2>3
<1>5. CASE RecordStatus
  <2>1. Fewer
    BY <1>5, RowsAfter DEF RecordStatus, Fewer
  <2> QED
    BY <1>1, <1>3, <1>5, <2>1 DEF RecordStatus
<1>6. CASE AppendEvent
  <2>1. Fewer
    BY <1>2, <1>6, RowsAfter DEF AppendEvent, SavedOrUndone, Undone, storeVars, Fewer
  <2> QED
    BY <1>1, <1>3, <1>6, <2>1 DEF AppendEvent
<1>7. ASSUME NEW c \in Cred, Touch(c) PROVE Tidy' /\ Explained
  <2>1. Fewer
    BY <1>7, RowsAfter DEF Touch, SavedOrNot, Fewer
  <2> QED
    BY <1>1, <1>3, <1>7, <2>1 DEF Touch
<1>8. ASSUME NEW c \in Client, NEW k \in PubKey, Enroll(c, k) PROVE Tidy' /\ Explained
  <2>1. Fewer
    BY <1>2, <1>8, RowsAfter DEF Enroll, SavedOrUndone, Undone, storeVars, Fewer
  <2> QED
    BY <1>1, <1>3, <1>8, <2>1 DEF Enroll
<1>9. CASE Stop
  <2>1. Busy' = {} /\ \A r \in Request : Sane(req'[r])
    BY <1>9 DEF Stop, Busy, Idle, Sane
  <2>2. Tidy'
    BY <1>9, <2>1 DEF Stop, Tidy, storeVars
  <2>3. StrayStep
    BY <1>9 DEF Stop, StrayStep
  <2>4. OrphanStep /\ TwiceStep
    BY <1>9, NobodyTold DEF Stop, OrphanStep, Orphan, Live, HasCred, storeVars, repoVars
  <2> QED
    BY <2>2, <2>3, <2>4 DEF Explained
<1>10. CASE Start
  <2>1. Busy = {} /\ Busy' = {} /\ req' = req /\ disk' = disk /\ up' /\ ~up /\ mem' = disk
        /\ UNCHANGED repoVars
    BY <1>10 DEF Start, Tidy, Busy
  <2>2. Tidy'
    BY <2>1 DEF Tidy
  <2>3. CASE mem' # mem
    <3>1. StartsBehind
      BY <2>1, <2>3 DEF StartsBehind
    <3> QED
      BY <2>1, <2>2, <3>1, NobodyTold DEF Explained, StrayStep, OrphanStep, repoVars
  <2>4. CASE mem' = mem
    <3>1. Fewer /\ \A p \in Repo \cup {None} : Cleaning(p) => Cleaning(p)'
      BY <2>1, <2>4 DEF Fewer, Cleaning
    <3> QED
      BY <2>2, <3>1, FewerExplained
  <2> QED
    BY <2>2, <2>3, <2>4
<1>11. CASE Rotation
  <2>1. Offline
    BY <1>11 DEF Rotation, Rotate, BackUpKey, ReplaceKey, RotateEnds, BackUpFile, RewrapFile, Revert
  <2> QED
    BY <1>1, <1>2, <2>1 DEF Offline
<1>12. CASE UNCHANGED vars
  BY <1>1, <1>2, <1>12 DEF vars, repoVars
<1> QED
  BY <1>4, <1>5, <1>6, <1>7, <1>8, <1>9, <1>10, <1>11, <1>12

(* A request that overlapped explains whatever comes apart in its step.    *)
LEMMA CrowdedExplained ==
  ASSUME NEW r \in Busy, r \in crowded
  PROVE  Explained
BY DEF Explained, StrayStep, OrphanStep, TwiceStep, Raced

(* Nothing changes but the request.                                        *)
LEMMA QuietExplained ==
  ASSUME Typed, NEW r \in Request, NEW job \in Job, Goto(r, job), req[r].pc # "cleanup",
         UNCHANGED <<mem, disk, repoVars>>
  PROVE  Explained
<1>1. \A p \in Repo \cup {None} : Cleaning(p) => Cleaning(p)'
  BY DEF Goto, Cleaning, Typed, ReqTyped
<1> QED
  BY <1>1, FewerExplained DEF Fewer

(* git init and git clone.                                                 *)
LEMMA MakeDirTidy ==
  ASSUME Typed, Tidy, NEW r \in Request, MakeDir(r)
  PROVE  Tidy' /\ Explained
<1> DEFINE p == req[r].repo
           job == [req[r] EXCEPT !.pc = "shape"]
<1>1. /\ r \in Busy /\ p \in Repo /\ req[r].pc \in {"init", "clone"} /\ Sane(req[r])
      /\ mem' = mem /\ disk' = disk /\ req[r] \in Job
  BY DEF MakeDir, Busy, Tidy, Sane, storeVars, Typed, ReqTyped
<1>2. job \in Job /\ job.pc = "shape" /\ job.repo = p /\ Sane(job)
  BY <1>1 DEF Job, Sane
<1>3. Rooted(mem'.destinations) /\ Rooted(disk'.destinations)
  BY <1>1 DEF Tidy
<1>4. r \in crowded \/ ~Exists(p)
  BY <1>1 DEF Tidy, Careful, Exists
<1>5. Sane(Idle) /\ Idle \in Job /\ Idle.pc = "idle"
  BY DEF Sane, Idle, Job
<1> HIDE DEF job
<1>6. CASE Goto(r, Idle) /\ UNCHANGED repoVars
  BY <1>1, <1>3, <1>5, <1>6, GotoTidy, QuietExplained
<1>7. CASE Goto(r, job) /\ UNCHANGED repoVars /\ Exists(p)
  <2>1. r \in crowded
    BY <1>4, <1>7
  <2> QED
    BY <1>1, <1>2, <1>3, <1>7, <2>1, GotoTidy, CrowdedExplained
<1>8. CASE /\ ~Exists(p) /\ made' = made + 1
           /\ dir' = [dir EXCEPT ![p] = made + 1]
           /\ owners' = [owners EXCEPT ![p] = 0]
           /\ Goto(r, job)
  <2>1. owners'[p] = 0 /\ \A q \in Repo \ {p} : dir'[q] = dir[q] /\ owners'[q] = owners[q]
    BY <1>1, <1>8 DEF Typed, RepoTyped
  <2>2. Careful(job, dir', owners', mem')
    BY <1>2, <2>1 DEF Careful
  <2>3. Tidy'
    BY <1>1, <1>2, <1>3, <1>8, <2>2, GotoTidy
  <2>4. \A q \in Repo \cup {None} : Cleaning(q) => Cleaning(q)'
    BY <1>1, <1>8 DEF Goto, Cleaning, Typed, ReqTyped
  <2>5. ASSUME NEW d \in Dest, Loose(d)' PROVE Loose(d)
    <3>1. mem.destinations[d].repo \in Repo \cup {None}
      BY DEF Typed, StoreTyped, Row
    <3>2. d \in Live /\ mem.destinations[d].of # 0 /\ ~Cleaning(mem.destinations[d].repo)
      BY <1>1, <2>4, <2>5, <3>1 DEF Loose, Stray, Live, Tidy, Rooted
    <3>3. CASE mem.destinations[d].repo = p
      BY <1>8, <3>2, <3>3 DEF Loose, Stray, Exists
    <3>4. CASE mem.destinations[d].repo # p
      <4>1. dir'[mem.destinations[d].repo] = dir[mem.destinations[d].repo]
        BY <1>8, <3>4 DEF Typed, RepoTyped
      <4> QED
        BY <1>1, <2>5, <3>2, <4>1 DEF Loose, Stray
    <3> QED
      BY <3>3, <3>4
  <2>6. StrayStep
    BY <2>5 DEF StrayStep
  <2>7. OrphanStep
    BY <1>1 DEF OrphanStep, Orphan, Live, HasCred
  <2>8. TwiceStep
    BY <2>1 DEF TwiceStep, Typed, RepoTyped
  <2> QED
    BY <2>3, <2>6, <2>7, <2>8 DEF Explained
<1> QED
  BY <1>6, <1>7, <1>8 DEF MakeDir, job

(* The answer that a repository is made.                                   *)
LEMMA ShapeTidy ==
  ASSUME Typed, Tidy, NEW r \in Request, Shape(r)
  PROVE  Tidy' /\ Explained
<1> DEFINE p == req[r].repo
<1>1. /\ r \in Busy /\ p \in Repo /\ req[r].pc = "shape" /\ Sane(req[r]) /\ Goto(r, Idle)
      /\ UNCHANGED <<mem, disk, dir, made>>
  BY DEF Shape, Busy, Tidy, Sane, storeVars
<1>2. Sane(Idle) /\ Idle \in Job /\ Idle.pc = "idle"
  BY DEF Sane, Idle, Job
<1>3. Tidy'
  BY <1>1, <1>2, GotoTidy DEF Tidy
<1>4. CASE r \in crowded
  BY <1>1, <1>3, <1>4, CrowdedExplained
<1>5. CASE r \notin crowded
  <2>1. owners[p] = 0
    BY <1>1, <1>5 DEF Tidy, Careful
  <2>2. \A q \in Repo : owners'[q] = owners[q] \/ owners'[q] = 1
    BY <1>1, <2>1 DEF Shape, Typed, RepoTyped
  <2>3. TwiceStep
    BY <2>2 DEF TwiceStep, Typed, RepoTyped
  <2>4. OrphanStep
    BY <1>1 DEF OrphanStep, Orphan, Live, HasCred
  <2>5. \A q \in Repo \cup {None} : Cleaning(q) => Cleaning(q)'
    BY <1>1 DEF Goto, Cleaning, Typed, ReqTyped
  <2>6. \A d \in Dest : mem.destinations[d].repo \in Repo \cup {None}
    BY DEF Typed, StoreTyped, Row
  <2>7. StrayStep
    BY <1>1, <2>5, <2>6 DEF StrayStep, Loose, Stray, Live
  <2> QED
    BY <1>3, <2>3, <2>4, <2>7 DEF Explained
<1> QED
  BY <1>4, <1>5

(* The cascade of a deletion.                                              *)
LEMMA CleanupTidy ==
  ASSUME Typed, Tidy, NEW r \in Request, Cleanup(r)
  PROVE  Tidy' /\ Explained
<1> DEFINE p == req[r].repo
           rows == OthersThan(p)
<1>1. /\ r \in Busy /\ p \in Repo /\ req[r].pc = "cleanup" /\ Sane(req[r]) /\ Goto(r, Idle)
      /\ UNCHANGED repoVars
  BY DEF Cleanup, Busy, Tidy, Sane
<1>2. Sane(Idle) /\ Idle \in Job /\ Idle.pc = "idle"
  BY DEF Sane, Idle, Job
<1>3. /\ mem'.destinations = rows /\ mem'.credentials = mem.credentials
      /\ disk'.destinations \in {rows, disk.destinations}
  BY RowsAfter DEF Cleanup, Undone, SavedOrNot, storeVars
<1>4. \A d \in Dest : /\ rows[d] \in {mem.destinations[d], NoDest}
                      /\ rows[d] # NoDest => rows[d].repo # p
  BY DEF OthersThan
<1> HIDE DEF rows
<1>5. Rooted(mem'.destinations) /\ Rooted(disk'.destinations)
  BY <1>3, <1>4 DEF Tidy, Rooted
<1>6. Tidy'
  BY <1>1, <1>2, <1>5, GotoTidy
<1>7. \A q \in (Repo \cup {None}) \ {p} : Cleaning(q) => Cleaning(q)'
  BY <1>1 DEF Goto, Cleaning, Typed, ReqTyped
<1>8. ASSUME NEW d \in Dest, Stray(d)'
      PROVE  /\ Stray(d) /\ mem'.destinations[d] = mem.destinations[d]
             /\ mem.destinations[d].repo \in (Repo \cup {None}) \ {p}
  <2>1. mem'.destinations[d] # NoDest /\ mem'.destinations[d] = mem.destinations[d]
        /\ mem.destinations[d].repo # p
    BY <1>3, <1>4, <1>8 DEF Stray, Live
  <2>2. mem.destinations[d].repo \in Repo \cup {None}
    BY DEF Typed, StoreTyped, Row
  <2> QED
    BY <1>1, <1>8, <2>1, <2>2 DEF Stray, Live, repoVars
<1>9. StrayStep
  BY <1>7, <1>8 DEF StrayStep, Loose
<1>10. ASSUME NEW d \in Dest, Orphan(d)' PROVE Orphan(d)
  <2>1. mem'.destinations[d] # NoDest /\ mem'.credentials[mem'.destinations[d].cred] = None
    BY <1>10 DEF Orphan, Live, HasCred
  <2>2. mem'.destinations[d] = mem.destinations[d] /\ mem'.credentials = mem.credentials
    BY <1>3, <1>4, <2>1
  <2> QED
    BY <2>1, <2>2 DEF Orphan, Live, HasCred
<1> QED
  BY <1>1, <1>6, <1>9, <1>10, NobodyTold DEF Explained, OrphanStep, repoVars

(* The look at the vault.                                                  *)
LEMMA LookUpTidy ==
  ASSUME Typed, Tidy, NEW r \in Request, LookUp(r)
  PROVE  Tidy' /\ Explained
<1> DEFINE job(pc) == [req[r] EXCEPT !.pc = pc]
<1>1. /\ r \in Busy /\ req[r].pc = "lookup" /\ Sane(req[r]) /\ req[r] \in Job
      /\ mem' = mem /\ disk' = disk /\ UNCHANGED repoVars
  BY DEF LookUp, Busy, Tidy, storeVars, Typed, ReqTyped
<1>2. Rooted(mem'.destinations) /\ Rooted(disk'.destinations)
  BY <1>1 DEF Tidy
<1>3. Sane(Idle) /\ Idle \in Job /\ Idle.pc = "idle"
  BY DEF Sane, Idle, Job
<1>4. CASE Goto(r, Idle)
  BY <1>1, <1>2, <1>3, <1>4, GotoTidy, QuietExplained
<1>5. ASSUME NEW pc \in {"add", "update"}, pc = "add" <=> req[r].dest = None,
             HasCred(req[r].cred), Goto(r, job(pc))
      PROVE  Tidy' /\ Explained
  <2>1. /\ job(pc) \in Job /\ job(pc).pc = pc /\ job(pc).repo = req[r].repo
        /\ job(pc).of = req[r].of /\ job(pc).cred = req[r].cred
    BY <1>1 DEF Job
  <2>2. Sane(job(pc))
    BY <1>1, <1>5, <2>1 DEF Sane
  <2>3. r \in crowded \/ Careful(req[r], dir, owners, mem)
    BY <1>1 DEF Tidy
  <2> HIDE DEF job
  <2>4. r \in crowded \/ Careful(job(pc), dir', owners', mem')
    BY <1>1, <1>5, <2>1, <2>3 DEF Careful, HasCred, repoVars
  <2> QED
    BY <1>1, <1>2, <1>5, <2>1, <2>2, <2>4, GotoTidy, QuietExplained
<1> QED
  BY <1>4, <1>5 DEF LookUp, Known

(* A new destination.                                                      *)
LEMMA AddTidy ==
  ASSUME Typed, Tidy, NEW r \in Request, Add(r)
  PROVE  Tidy' /\ Explained
<1>1. /\ r \in Busy /\ req[r].pc = "add" /\ Sane(req[r]) /\ Goto(r, Idle)
      /\ UNCHANGED repoVars
  BY DEF Add, Busy, Tidy
<1>2. Sane(Idle) /\ Idle \in Job /\ Idle.pc = "idle"
  BY DEF Sane, Idle, Job
<1>3. CASE Undone
  BY <1>1, <1>2, <1>3, GotoTidy, QuietExplained DEF Undone, storeVars, Tidy
<1>4. ASSUME NEW d \in Dest \ Live,
             Saved("destinations", [mem.destinations EXCEPT ![d] =
               [repo |-> req[r].repo, cred |-> req[r].cred, of |-> req[r].of]])
      PROVE  Tidy' /\ Explained
  <2> DEFINE row == [repo |-> req[r].repo, cred |-> req[r].cred, of |-> req[r].of]
             rows == [mem.destinations EXCEPT ![d] = row]
  <2>1. rows[d] = row /\ \A e \in Dest \ {d} : rows[e] = mem.destinations[e]
    BY DEF Typed, StoreTyped, Row
  <2>2. row.repo = req[r].repo /\ row.of = req[r].of /\ row.cred = req[r].cred
    OBVIOUS
  <2>3. Saved("destinations", rows)
    BY <1>4
  <2> HIDE DEF row, rows
  <2>4. /\ mem'.destinations = rows /\ mem'.credentials = mem.credentials
        /\ disk'.destinations \in {rows, disk.destinations}
    BY <2>3, RowsAfter
  <2>5. Rooted(rows) /\ Rooted(disk.destinations)
    BY <1>1, <2>1, <2>2 DEF Tidy, Rooted, Sane
  <2>6. Tidy'
    BY <1>1, <1>2, <2>4, <2>5, GotoTidy
  <2>7. CASE r \in crowded
    BY <1>1, <2>6, <2>7, CrowdedExplained
  <2>8. CASE r \notin crowded
    <3>1. req[r].of = dir[req[r].repo] /\ mem.credentials[req[r].cred] # None
      BY <1>1, <2>8 DEF Tidy, Careful
    <3>2. \A q \in Repo \cup {None} : Cleaning(q) => Cleaning(q)'
      BY <1>1 DEF Goto, Cleaning, Typed, ReqTyped
    <3>3. ASSUME NEW e \in Dest, Stray(e)'
          PROVE  Stray(e) /\ mem'.destinations[e] = mem.destinations[e]
      <4>1. e # d
        BY <1>1, <2>1, <2>2, <2>4, <3>1, <3>3 DEF Stray, repoVars
      <4> QED
        BY <1>1, <2>1, <2>4, <3>3, <4>1 DEF Stray, Live, repoVars
    <3>4. \A e \in Dest : mem.destinations[e].repo \in Repo \cup {None}
      BY DEF Typed, StoreTyped, Row
    <3>5. StrayStep
      BY <3>2, <3>3, <3>4 DEF StrayStep, Loose
    <3>6. ASSUME NEW e \in Dest, Orphan(e)' PROVE Orphan(e)
      <4>1. e # d
        BY <2>1, <2>2, <2>4, <3>1, <3>6 DEF Orphan, HasCred
      <4> QED
        BY <2>1, <2>4, <3>6, <4>1 DEF Orphan, Live, HasCred
    <3> QED
      BY <1>1, <2>6, <3>5, <3>6, NobodyTold DEF Explained, OrphanStep, repoVars
  <2> QED
    BY <2>7, <2>8
<1> QED
  BY <1>3, <1>4 DEF Add

(* Another credential for a destination.                                   *)
LEMMA UpdateTidy ==
  ASSUME Typed, Tidy, NEW r \in Request, Update(r)
  PROVE  Tidy' /\ Explained
<1> DEFINE d == req[r].dest
           rows == [mem.destinations EXCEPT ![d].cred = req[r].cred]
<1>1. /\ r \in Busy /\ req[r].pc = "update" /\ Sane(req[r]) /\ Goto(r, Idle)
      /\ UNCHANGED repoVars
  BY DEF Update, Busy, Tidy
<1>2. Sane(Idle) /\ Idle \in Job /\ Idle.pc = "idle"
  BY DEF Sane, Idle, Job
<1>3. CASE Undone
  BY <1>1, <1>2, <1>3, GotoTidy, QuietExplained DEF Undone, storeVars, Tidy
<1>4. CASE d \in Live /\ Saved("destinations", rows)
  <2>1. /\ rows[d].cred = req[r].cred /\ rows[d].of = mem.destinations[d].of
        /\ rows[d].repo = mem.destinations[d].repo
        /\ \A e \in Dest \ {d} : rows[e] = mem.destinations[e]
    BY <1>4 DEF Typed, StoreTyped, Row, Live
  <2> HIDE DEF rows
  <2>2. d \in Dest /\ mem.destinations[d] # NoDest
    BY <1>4 DEF Live
  <2>3. /\ mem'.destinations = rows /\ mem'.credentials = mem.credentials
        /\ disk'.destinations \in {rows, disk.destinations}
    BY <1>4, RowsAfter
  <2>4. Rooted(rows) /\ Rooted(disk.destinations)
    BY <1>1, <2>1, <2>2 DEF Tidy, Rooted, Sane
  <2>5. Tidy'
    BY <1>1, <1>2, <2>3, <2>4, GotoTidy
  <2>6. CASE r \in crowded
    BY <1>1, <2>5, <2>6, CrowdedExplained
  <2>7. CASE r \notin crowded
    <3>1. mem.credentials[req[r].cred] # None
      BY <1>1, <2>7 DEF Tidy, Careful
    <3>2. \A q \in Repo \cup {None} : Cleaning(q) => Cleaning(q)'
      BY <1>1 DEF Goto, Cleaning, Typed, ReqTyped
    <3>3. ASSUME NEW e \in Dest, Stray(e)'
          PROVE  Stray(e) /\ mem'.destinations[e].repo = mem.destinations[e].repo
      <4>1. CASE e = d
        BY <1>1, <1>4, <2>1, <2>3, <3>3, <4>1 DEF Stray, repoVars
      <4>2. CASE e # d
        BY <1>1, <2>1, <2>3, <3>3, <4>2 DEF Stray, Live, repoVars
      <4> QED
        BY <4>1, <4>2
    <3>4. \A e \in Dest : mem.destinations[e].repo \in Repo \cup {None}
      BY DEF Typed, StoreTyped, Row
    <3>5. StrayStep
      BY <3>2, <3>3, <3>4 DEF StrayStep, Loose
    <3>6. ASSUME NEW e \in Dest, Orphan(e)' PROVE Orphan(e)
      <4>1. e # d
        BY <2>1, <2>3, <3>1, <3>6 DEF Orphan, HasCred
      <4> QED
        BY <2>1, <2>3, <3>6, <4>1 DEF Orphan, Live, HasCred
    <3> QED
      BY <1>1, <2>5, <3>5, <3>6, NobodyTold DEF Explained, OrphanStep, repoVars
  <2> QED
    BY <2>6, <2>7
<1> QED
  BY <1>3, <1>4 DEF Update

(* Where the credentials change, no destination comes apart from its       *)
(* repository.                                                             *)
LEMMA CredentialsTidy ==
  ASSUME Typed, Tidy, NEW r \in Busy, Goto(r, Idle), req[r].pc # "cleanup",
         UNCHANGED repoVars, NEW rows,
         Saved("credentials", rows) \/ Unsaved("credentials", rows)
  PROVE  /\ Tidy' /\ StrayStep /\ TwiceStep
         /\ mem'.destinations = mem.destinations /\ mem'.credentials = rows
<1>1. r \in Request /\ Sane(Idle) /\ Idle \in Job /\ Idle.pc = "idle"
  BY DEF Sane, Idle, Job, Busy
<1>2. /\ mem'.credentials = rows /\ mem'.destinations = mem.destinations
      /\ disk'.destinations = disk.destinations
  BY RowsAfter
<1>3. Tidy'
  BY <1>1, <1>2, GotoTidy DEF Tidy
<1>4. \A q \in Repo \cup {None} : Cleaning(q) => Cleaning(q)'
  BY <1>1 DEF Goto, Cleaning, Typed, ReqTyped
<1>5. \A e \in Dest : mem.destinations[e].repo \in Repo \cup {None}
  BY DEF Typed, StoreTyped, Row
<1>6. StrayStep
  BY <1>2, <1>4, <1>5 DEF StrayStep, Loose, Stray, Live, repoVars
<1> QED
  BY <1>2, <1>3, <1>6, NobodyTold DEF repoVars

(* The write of a credential.                                              *)
LEMMA PutTidy ==
  ASSUME Typed, Tidy, NEW r \in Request, Put(r)
  PROVE  Tidy' /\ Explained
<1> DEFINE c == req[r].cred
           rows == [mem.credentials EXCEPT ![c] = req[r].secret]
<1>1. /\ r \in Busy /\ req[r].pc = "put" /\ Sane(req[r]) /\ Goto(r, Idle)
      /\ UNCHANGED repoVars
  BY DEF Put, Busy, Tidy
<1>2. Sane(Idle) /\ Idle \in Job /\ Idle.pc = "idle"
  BY DEF Sane, Idle, Job
<1>3. CASE Undone
  BY <1>1, <1>2, <1>3, GotoTidy, QuietExplained DEF Undone, storeVars, Tidy
<1>4. CASE Unsaved("credentials", Discarded(c))
  <2>1. "credentials" \in unsaved'
    BY <1>4 DEF Unsaved
  <2> QED
    BY <1>1, <1>4, <2>1, CredentialsTidy DEF Explained, OrphanStep
<1>5. CASE Saved("credentials", rows)
  <2>1. \A x \in Cred : rows[x] = None => mem.credentials[x] = None
    BY <1>1 DEF Sane, Typed, StoreTyped, Row
  <2> HIDE DEF rows
  <2>2. /\ Tidy' /\ StrayStep /\ TwiceStep
        /\ mem'.destinations = mem.destinations /\ mem'.credentials = rows
    BY <1>1, <1>5, CredentialsTidy
  <2>3. ASSUME NEW e \in Dest, Orphan(e)' PROVE Orphan(e)
    <3>1. mem.destinations[e] # NoDest /\ rows[mem.destinations[e].cred] = None
      BY <2>2, <2>3 DEF Orphan, Live, HasCred
    <3>2. mem.destinations[e].cred \in Cred
      BY <3>1 DEF Tidy, Rooted
    <3> QED
      BY <2>1, <3>1, <3>2 DEF Orphan, Live, HasCred
  <2> QED
    BY <2>2, <2>3 DEF Explained, OrphanStep
<1> QED
  BY <1>3, <1>4, <1>5 DEF Put

(* A credential goes.                                                      *)
LEMMA ForgetTidy ==
  ASSUME Typed, Tidy, NEW r \in Request, Forget(r)
  PROVE  Tidy' /\ Explained
<1> DEFINE c == req[r].cred
           rows == [mem.credentials EXCEPT ![c] = None]
<1>1. /\ r \in Busy /\ req[r].pc = "forget" /\ Sane(req[r]) /\ Goto(r, Idle)
      /\ UNCHANGED repoVars
  BY DEF Forget, Busy, Tidy
<1>2. Sane(Idle) /\ Idle \in Job /\ Idle.pc = "idle"
  BY DEF Sane, Idle, Job
<1>3. CASE Undone
  BY <1>1, <1>2, <1>3, GotoTidy, QuietExplained DEF Undone, storeVars, Tidy
<1>4. CASE Saved("credentials", rows) \/ Unsaved("credentials", rows)
  <2>1. \A x \in Cred \ {c} : rows[x] = mem.credentials[x]
    BY DEF Typed, StoreTyped, Row
  <2> HIDE DEF rows
  <2>2. /\ Tidy' /\ StrayStep /\ TwiceStep
        /\ mem'.destinations = mem.destinations /\ mem'.credentials = rows
    BY <1>1, <1>4, CredentialsTidy
  <2>3. CASE r \in crowded
    BY <1>1, <2>2, <2>3, CrowdedExplained
  <2>4. CASE r \notin crowded
    <3>1. \A d \in Dest : mem.destinations[d] # NoDest => mem.destinations[d].cred # c
      BY <1>1, <2>4 DEF Tidy, Careful
    <3>2. ASSUME NEW e \in Dest, Orphan(e)' PROVE Orphan(e)
      <4>1. mem.destinations[e] # NoDest /\ rows[mem.destinations[e].cred] = None
        BY <2>2, <3>2 DEF Orphan, Live, HasCred
      <4>2. mem.destinations[e].cred \in Cred \ {c}
        BY <3>1, <4>1 DEF Tidy, Rooted
      <4> QED
        BY <2>1, <4>1, <4>2 DEF Orphan, Live, HasCred
    <3> QED
      BY <2>2, <3>2 DEF Explained, OrphanStep
  <2> QED
    BY <2>3, <2>4
<1> QED
  BY <1>3, <1>4 DEF Forget, SavedOrNot

(* Every step is tidy and explained.                                       *)
LEMMA NextTidy == Typed /\ Tidy /\ [Next]_vars => Tidy' /\ Explained
<1> SUFFICES ASSUME Typed, Tidy, [Next]_vars PROVE Tidy' /\ Explained
  OBVIOUS
<1>1. ASSUME NEW r \in Request, Steps(r) PROVE Tidy' /\ Explained
  BY <1>1, MakeDirTidy, ShapeTidy, CleanupTidy, LookUpTidy, AddTidy, UpdateTidy, PutTidy,
     ForgetTidy DEF Steps
<1>2. ASSUME NEW r \in Request, Begins(r) PROVE Tidy' /\ Explained
  BY <1>2, BeginsTidy
<1> QED
  BY <1>1, <1>2, OthersTidy DEF Next

(* Nothing runs and nothing is stored at the start.                        *)
LEMMA InitTidy == Init => Tidy
BY DEF Init, Tidy, Busy, Idle, Sane, Empty, Rooted, NoDest

(* A destination outlives its repository only after requests that          *)
(* overlapped, a stop in the middle of a deletion, or a start on files     *)
(* that lag behind.                                                        *)
THEOREM StraysAreExplained == Spec => StraysExplained
<1>1. Init => Typed /\ Tidy
  BY InitTyped, InitTidy
<1>2. Typed /\ Tidy /\ [Next]_vars => Typed' /\ Tidy'
  BY NextTyped, NextTidy
<1>3. Typed /\ Tidy /\ [Next]_vars =>
        [\A d \in Dest :
           LET loose == Stray(d) /\ ~Cleaning(mem.destinations[d].repo)
           IN loose' /\ ~loose => Raced \/ StartsBehind \/ (up /\ ~up')]_vars
  BY NextTidy DEF Explained, StrayStep, Loose
<1> QED
  BY <1>1, <1>2, <1>3, PTL DEF Spec, StraysExplained

(* A destination names a credential that is not in the vault only after    *)
(* requests that overlapped, a write of that store that failed, or a start *)
(* on files that lag behind.                                               *)
THEOREM OrphansAreExplained == Spec => OrphansExplained
<1>1. Init => Typed /\ Tidy
  BY InitTyped, InitTidy
<1>2. Typed /\ Tidy /\ [Next]_vars => Typed' /\ Tidy'
  BY NextTyped, NextTidy
<1>3. Typed /\ Tidy /\ [Next]_vars =>
        [\A d \in Dest : Orphan(d)' /\ ~Orphan(d) =>
           \/ Raced \/ StartsBehind
           \/ \E r \in Busy : req[r].pc = "put" /\ "credentials" \in unsaved']_vars
  BY NextTidy DEF Explained, OrphanStep
<1> QED
  BY <1>1, <1>2, <1>3, PTL DEF Spec, OrphansExplained

(* Two callers are told that they made the same repository only when their *)
(* requests overlapped.                                                    *)
THEOREM OnlyRacesMakeTwice == Spec => OnlyRacesCreateTwice
<1>1. Init => Typed /\ Tidy
  BY InitTyped, InitTidy
<1>2. Typed /\ Tidy /\ [Next]_vars => Typed' /\ Tidy'
  BY NextTyped, NextTidy
<1>3. Typed /\ Tidy /\ [Next]_vars =>
        [\A p \in Repo : owners'[p] > 1 /\ owners[p] <= 1 => Raced]_vars
  BY NextTidy DEF Explained, TwiceStep
<1> QED
  BY <1>1, <1>2, <1>3, PTL DEF Spec, OnlyRacesCreateTwice

=============================================================================
