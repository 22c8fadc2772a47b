------------------------------ MODULE Accounts ------------------------------
(***************************************************************************)
(* The directory of accounts, and the ways into it: the seeds of the       *)
(* config file, self-registration, the admins' requests, a sign-in through *)
(* an identity provider and the headers of a gateway.  Sessions are        *)
(* started by the two sign-ins, and an admin's request is admitted on one. *)
(*                                                                         *)
(* The account store and the session store each have a lock that is held   *)
(* for one operation, the write of the sealed file included; an operation  *)
(* whose write fails puts the memory back.  A handler is several such      *)
(* operations with nothing held between them, so a row it read may have    *)
(* been changed, removed or created when it writes.                        *)
(*                                                                         *)
(* Display names and addresses are left out, but for whether a sign-in     *)
(* finds them out of date.  A password stands for its hash.                *)
(***************************************************************************)
EXTENDS Naturals, FiniteSets

CONSTANTS
  Local, Idp, Gateway,  \* the accounts of the three kinds of provider
  Seeds,                \* cfg.Admins
  Registers,            \* allow_register of the identity providers
  Password,
  Request,              \* the goroutines that serve requests
  MaxRequests,          \* bound on the requests of a behaviour
  MaxSignIns,           \* bound on the sign-ins started at a provider
  MaxRestarts           \* bound on restarts

Account == Local \cup Idp \cup Gateway
None == "none"

ASSUME AccountsAssumption ==
  /\ Seeds \subseteq Account /\ IsFiniteSet(Seeds)
  /\ Registers \in BOOLEAN
  /\ None \notin Account \cup Password
  /\ MaxRequests \in Nat /\ MaxSignIns \in Nat /\ MaxRestarts \in Nat

VARIABLES
  accts, acctFile,    \* the account store: its map and its sealed file
  sess, sessFile,     \* the session store: its map and its sealed file
  logins,             \* how many sessions were created
  expired,            \* the sessions whose time is over
  states, starts,     \* the OAuth states in the ledger; how many were made
  req,                \* what each goroutine is doing
  served, restarts,   \* bounded counters
  ended,              \* the sessions that were destroyed or found expired
  redeemed,           \* how often each OAuth state was accepted
  crowded             \* the requests that had company while they ran

acctVars == <<accts, acctFile>>
sessVars == <<sess, sessFile, logins, expired, ended>>
stateVars == <<states, starts, redeemed>>
vars == <<accts, acctFile, sess, sessFile, logins, expired, states, starts,
          req, served, restarts, ended, redeemed, crowded>>

KnownRoles == {"admin", "maintainer", "regular"}
NoRow == [role |-> None, pw |-> None]
Session == 1..MaxRequests
State == 1..MaxSignIns

\* role is what the request is about to store, None for a removal, and asked
\* whether an admin's request names it; then and orelse say where it goes on
\* after a Put.
Idle == [pc |-> "idle", acct |-> None, role |-> None, asked |-> FALSE,
         pw |-> None, then |-> "idle", orelse |-> "idle"]

Has(a) == accts[a].role # None
Admins == {a \in Account : accts[a].role = "admin"}
Busy == {r \in Request : req[r].pc # "idle"}

\* Mutant: a seed is made an admin at every start.
SeededAgain(rows) == [a \in Account |->
  IF a \in Seeds THEN [rows[a] EXCEPT !.role = "admin"] ELSE rows[a]]

Seeded(rows) == [a \in Account |->
  IF a \in Seeds /\ rows[a].role = None THEN [NoRow EXCEPT !.role = "admin"]
                                        ELSE rows[a]]

\* The server was started once, and the operator gave the local seeds a
\* password.
Init ==
  /\ \E p \in Password \cup {None} :
       accts = [a \in Account |->
                  [role |-> IF a \in Seeds THEN "admin" ELSE None,
                   pw |-> IF a \in Seeds \cap Local THEN p ELSE None]]
  /\ acctFile = accts
  /\ sess = [s \in Session |-> None] /\ sessFile = sess
  /\ logins = 0 /\ expired = {}
  /\ states = {} /\ starts = 0
  /\ req = [r \in Request |-> Idle]
  /\ served = 0 /\ restarts = 0
  /\ ended = {} /\ crowded = {}
  /\ redeemed = [st \in State |-> 0]

-----------------------------------------------------------------------------
(* The account store, an operation at a time.                              *)

\* Mutant: a failed write is not undone in memory.
StoredOrNot(rows) == accts' = rows /\ acctFile' \in {rows, acctFile}

Stored(rows) == accts' = rows /\ acctFile' = rows

\* Put keeps the stored hash when it is given none.  No handler gives it one:
\* the row the OAuth callback writes back is never a local account's.
\* Mutant: it stores what it was given.
UpsertedAsGiven(a, role) == [accts EXCEPT ![a] = [role |-> role, pw |-> None]]

Upserted(a, role) == [accts EXCEPT ![a].role = role]

\* Mutant: the hash stays behind.
RemovedRole(a) == [accts EXCEPT ![a].role = None]

Removed(a) == [accts EXCEPT ![a] = NoRow]

Begin(r, job) ==
  /\ req[r].pc = "idle" /\ served < MaxRequests
  /\ served' = served + 1
  /\ req' = [req EXCEPT ![r] = job]
  /\ crowded' = IF Busy = {} THEN crowded ELSE crowded \cup Busy \cup {r}

Goto(r, job) ==
  /\ req' = [req EXCEPT ![r] = job]
  /\ crowded' = IF job.pc = "idle" THEN crowded \ {r} ELSE crowded
  /\ UNCHANGED served

\* accounts.Store.Put, with the role the handler decided on earlier.
Put(r) ==
  /\ req[r].pc = "put"
  /\ \/ /\ Stored(Upserted(req[r].acct, req[r].role))
        /\ Goto(r, IF req[r].then = "idle" THEN Idle
                                           ELSE [req[r] EXCEPT !.pc = req[r].then])
     \/ /\ Goto(r, IF req[r].orelse = "idle" THEN Idle
                                             ELSE [req[r] EXCEPT !.pc = req[r].orelse])
        /\ UNCHANGED acctVars
  /\ UNCHANGED <<sessVars, stateVars, restarts>>

\* accounts.Store.Remove
Remove(r) ==
  /\ req[r].pc = "remove"
  /\ \/ Has(req[r].acct) /\ Stored(Removed(req[r].acct))
     \/ UNCHANGED acctVars
  /\ Goto(r, Idle)
  /\ UNCHANGED <<sessVars, stateVars, restarts>>

\* accounts.Store.SetPassword.  The handler of /register takes its account
\* away again when this fails.
SetPassword(r) ==
  /\ req[r].pc \in {"setpw", "regpw"}
  /\ \/ /\ Has(req[r].acct)
        /\ Stored([accts EXCEPT ![req[r].acct].pw = req[r].pw])
        /\ Goto(r, Idle)
     \/ /\ Goto(r, IF req[r].pc = "setpw" THEN Idle ELSE [req[r] EXCEPT !.pc = "remove"])
        /\ UNCHANGED acctVars
  /\ UNCHANGED <<sessVars, stateVars, restarts>>

-----------------------------------------------------------------------------
(* Handlers.                                                               *)

\* handleRegister: the name is free, and is taken a step later.
Register(r, a, p) ==
  /\ ~Has(a)
  /\ Begin(r, [Idle EXCEPT !.pc = "put", !.acct = a, !.role = "regular",
                           !.pw = p, !.then = "regpw"])
  /\ UNCHANGED <<acctVars, sessVars, stateVars, restarts>>

\* handleAdminLogin, up to the new session.
Login(r, a) ==
  /\ accts[a].pw # None /\ accts[a].role = "admin"
  /\ Begin(r, [Idle EXCEPT !.pc = "signin", !.acct = a])
  /\ UNCHANGED <<acctVars, sessVars, stateVars, restarts>>

\* SessionStrategy.Create
CreateSession(r) ==
  /\ req[r].pc = "signin"
  /\ \/ /\ logins' = logins + 1
        /\ sess' = [sess EXCEPT ![logins + 1] = req[r].acct]
        /\ sessFile' = sess'
     \/ UNCHANGED <<logins, sess, sessFile>>
  /\ Goto(r, Idle)
  /\ UNCHANGED <<acctVars, stateVars, restarts, expired, ended>>

\* SessionStrategy.Destroy, for handleAdminLogout
Logout(s) ==
  /\ sess[s] # None
  /\ sess' = [sess EXCEPT ![s] = None] /\ sessFile' = sess'
  /\ ended' = ended \cup {s}
  /\ UNCHANGED <<acctVars, stateVars, logins, expired, req, served, restarts,
                 crowded>>

\* Twelve hours pass.
Expire(s) ==
  /\ s \in 1..logins /\ s \notin expired
  /\ expired' = expired \cup {s}
  /\ UNCHANGED <<acctVars, stateVars, sess, sessFile, logins, ended, req,
                 served, restarts, crowded>>

\* SessionStrategy.Authenticate finds an expired session: it leaves the map
\* even when the file cannot be written.
DropExpired(s) ==
  /\ sess[s] # None /\ s \in expired
  /\ sess' = [sess EXCEPT ![s] = None]
  /\ sessFile' \in {sess', sessFile}
  /\ ended' = ended \cup {s}
  /\ UNCHANGED <<acctVars, stateVars, logins, expired, req, served, restarts,
                 crowded>>

\* requireAdminSession: the session, then the role the account has now.
AdmitSession(r, s) ==
  /\ sess[s] # None /\ s \notin expired
  /\ accts[sess[s]].role = "admin"
  /\ Begin(r, [Idle EXCEPT !.pc = "admitted"])
  /\ UNCHANGED <<acctVars, sessVars, stateVars, restarts>>

\* Mutant: who comes through the gateway is trusted like a seed.
AdmitGatewayTrusted(r, a) ==
  /\ ~Has(a) /\ Registers
  /\ Begin(r, [Idle EXCEPT !.pc = "put", !.acct = a, !.role = "admin"])
  /\ UNCHANGED <<acctVars, sessVars, stateVars, restarts>>

\* gatewayStrategy.Authenticate and the role check of requireAdminSession: an
\* identity the store does not know is registered, and is not an admin.
AdmitGateway(r, a) ==
  /\ \/ /\ accts[a].role = "admin"
        /\ Begin(r, [Idle EXCEPT !.pc = "admitted"])
     \/ /\ ~Has(a) /\ Registers
        /\ Begin(r, [Idle EXCEPT !.pc = "put", !.acct = a, !.role = "regular"])
  /\ UNCHANGED <<acctVars, sessVars, stateVars, restarts>>

\* adminCreateAccount
AdminCreate(r, a, role, p) ==
  /\ req[r].pc = "admitted"
  /\ Goto(r, IF Has(a) THEN Idle
              ELSE [Idle EXCEPT !.pc = "put", !.acct = a, !.role = role, !.asked = TRUE, !.pw = p,
                      !.then = IF a \in Local /\ p # None THEN "setpw" ELSE "idle"])
  /\ UNCHANGED <<acctVars, sessVars, stateVars, restarts>>

\* handleAdminBindToken, for a key whose local account is gone.
AdminBind(r, a) ==
  /\ req[r].pc = "admitted"
  /\ Goto(r, IF Has(a) THEN Idle
                ELSE [Idle EXCEPT !.pc = "put", !.acct = a, !.role = "regular"])
  /\ UNCHANGED <<acctVars, sessVars, stateVars, restarts>>

\* adminUpdateAccount up to its Put: the row is read, and a body without a role
\* keeps the role that was read.  A demotion first counts the admins.
AdminUpdate(r, a, asked, p) ==
  /\ req[r].pc = "admitted"
  /\ IF ~Has(a) THEN Goto(r, Idle)
     ELSE LET role == IF asked = None THEN accts[a].role ELSE asked
              demotes == accts[a].role = "admin" /\ role # "admin"
          IN Goto(r, [Idle EXCEPT !.pc = IF demotes THEN "count" ELSE "put",
                        !.acct = a, !.role = role, !.asked = asked # None, !.pw = p,
                        !.then = IF a \in Local /\ p # None THEN "setpw" ELSE "idle"])
  /\ UNCHANGED <<acctVars, sessVars, stateVars, restarts>>

\* adminDeleteAccount up to its Remove
AdminDelete(r, a) ==
  /\ req[r].pc = "admitted"
  /\ Goto(r, IF ~Has(a) THEN Idle
                ELSE [Idle EXCEPT !.acct = a,
                        !.pc = IF accts[a].role = "admin" THEN "count" ELSE "remove"])
  /\ UNCHANGED <<acctVars, sessVars, stateVars, restarts>>

\* Mutant: off by one.
IsNoAdmin == Cardinality(Admins) <= 0

IsLastAdmin == Cardinality(Admins) <= 1

\* countAdmins: the last admin is neither demoted nor removed.
CountAdmins(r) ==
  /\ req[r].pc = "count"
  /\ Goto(r, IF IsLastAdmin THEN Idle
                ELSE [req[r] EXCEPT !.pc = IF req[r].role = None THEN "remove" ELSE "put"])
  /\ UNCHANGED <<acctVars, sessVars, stateVars, restarts>>

-----------------------------------------------------------------------------
(* Signing in through an identity provider.                                *)

\* oauthStart and StateStore.Put
OAuthStart ==
  /\ starts < MaxSignIns
  /\ starts' = starts + 1
  /\ states' = states \cup {starts + 1}
  /\ UNCHANGED <<acctVars, sessVars, redeemed, req, served, restarts, crowded>>

\* The ledger sweeps states older than ten minutes.
StateExpires(st) ==
  /\ st \in states
  /\ states' = states \ {st}
  /\ UNCHANGED <<acctVars, sessVars, starts, redeemed, req, served, restarts,
                 crowded>>

\* Mutant: the state is looked up and left in the ledger.
OAuthCallbackPeeks(r, st) ==
  /\ st \in states
  /\ redeemed' = [redeemed EXCEPT ![st] = @ + 1]
  /\ Begin(r, [Idle EXCEPT !.pc = "exchange"])
  /\ UNCHANGED <<acctVars, sessVars, states, starts, restarts>>

\* StateStore.Take, in oauthCallback
OAuthCallback(r, st) ==
  /\ st \in states
  /\ states' = states \ {st}
  /\ redeemed' = [redeemed EXCEPT ![st] = @ + 1]
  /\ Begin(r, [Idle EXCEPT !.pc = "exchange"])
  /\ UNCHANGED <<acctVars, sessVars, starts, restarts>>

\* The provider answers with an identity, and its account is looked up.  A row
\* that is out of date is written back as it was read, its role included, and
\* the sign-in goes on whether or not that succeeds.
OAuthClaim(r, a, stale) ==
  /\ req[r].pc = "exchange"
  /\ Goto(r,
       IF ~Has(a)
       THEN IF Registers
            THEN [Idle EXCEPT !.pc = "put", !.acct = a, !.role = "regular",
                              !.then = "signin"]
            ELSE Idle
       ELSE IF stale
            THEN [Idle EXCEPT !.pc = "put", !.acct = a, !.role = accts[a].role,
                              !.then = "signin", !.orelse = "signin"]
            ELSE [Idle EXCEPT !.pc = "signin", !.acct = a])
  /\ UNCHANGED <<acctVars, sessVars, stateVars, restarts>>

\* The exchange fails, or takes more than 15 seconds.
OAuthFails(r) ==
  /\ req[r].pc = "exchange"
  /\ Goto(r, Idle)
  /\ UNCHANGED <<acctVars, sessVars, stateVars, restarts>>

-----------------------------------------------------------------------------
\* Mutant: every session in the file is taken back.
LoadedAll == sessFile

Loaded == [s \in Session |-> IF s \in expired THEN None ELSE sessFile[s]]

\* The server stops wherever it is, and New opens the stores: sessions that
\* are over stay out, and a seed without a row is an admin again.
Restart ==
  /\ restarts < MaxRestarts
  /\ restarts' = restarts + 1
  /\ Stored(Seeded(acctFile))
  /\ sess' = Loaded /\ sessFile' = sess'
  /\ states' = {}
  /\ req' = [r \in Request |-> Idle]
  /\ crowded' = {}
  /\ UNCHANGED <<logins, expired, ended, starts, redeemed, served>>

Handlers(r) ==
  \/ \E a \in Local, p \in Password : Register(r, a, p)
  \/ \E a \in Local : Login(r, a) \/ AdminBind(r, a)
  \/ \E s \in Session : AdmitSession(r, s)
  \/ \E a \in Gateway : AdmitGateway(r, a)
  \/ \E a \in Account, role \in KnownRoles, p \in Password \cup {None} :
       AdminCreate(r, a, role, p)
  \/ \E a \in Account, asked \in KnownRoles \cup {None}, p \in Password \cup {None} :
       AdminUpdate(r, a, asked, p)
  \/ \E a \in Account : AdminDelete(r, a)
  \/ \E st \in State : OAuthCallback(r, st)
  \/ \E a \in Idp, stale \in BOOLEAN : OAuthClaim(r, a, stale)
  \/ OAuthFails(r)

Steps(r) == Put(r) \/ Remove(r) \/ SetPassword(r) \/ CreateSession(r) \/ CountAdmins(r)

Next ==
  \/ \E r \in Request : Handlers(r) \/ Steps(r)
  \/ \E s \in Session : Logout(s) \/ Expire(s) \/ DropExpired(s)
  \/ OAuthStart
  \/ \E st \in State : StateExpires(st)
  \/ Restart

Spec == Init /\ [][Next]_vars

-----------------------------------------------------------------------------
Row == [role : KnownRoles, pw : Password \cup {None}] \cup {NoRow}
Pcs == {"idle", "put", "remove", "setpw", "regpw", "signin", "admitted",
        "count", "exchange"}

Job == [pc : Pcs, acct : Account \cup {None}, role : KnownRoles \cup {None},
        asked : BOOLEAN, pw : Password \cup {None}, then : Pcs, orelse : Pcs]

\* Types of the variables of the stores and the handlers above.
TypeOK ==
  /\ accts \in [Account -> Row] /\ acctFile \in [Account -> Row]
  /\ sess \in [Session -> Account \cup {None}]
  /\ sessFile \in [Session -> Account \cup {None}]
  /\ logins \in 0..MaxRequests /\ expired \subseteq Session
  /\ states \subseteq State /\ starts \in 0..MaxSignIns
  /\ req \in [Request -> Job]
  /\ served \in 0..MaxRequests /\ restarts \in 0..MaxRestarts
  /\ ended \subseteq Session
  /\ redeemed \in [State -> 0..MaxRequests]
  /\ crowded \subseteq Request

\* The role of an account changes, or it comes to be as an admin.
Regraded(a) ==
  accts'[a].role \notin {None, accts[a].role} /\ (Has(a) \/ accts'[a].role = "admin")

\* Roles are what admins make them: an account gets another role, or appears as
\* an admin, when an admin's request names the role, and when the server starts
\* and a seed has no row.  A sign-in or an update that writes back the row it
\* read, role included, leaves the role alone unless the request had company
\* meanwhile; only then can it bring a demoted or removed admin back, or undo a
\* promotion (handler_oauth.go: oauthCallback; handler_admin_accounts.go:
\* adminUpdateAccount).
OnlyRacesRegrade ==
  [][\A a \in Account : Regraded(a) =>
       \/ a \in Seeds /\ ~Has(a) /\ restarts' # restarts
       \/ \E r \in Request : /\ req[r].pc = "put" /\ req[r].acct = a
                             /\ req[r].asked \/ r \in crowded]_vars

\* The two sealed files are what the server works with, failed writes included:
\* a restart brings every account and every open session back.  Only a session
\* that is over may be left in its file.
FilesFollowMemory ==
  /\ acctFile = accts
  /\ \A s \in Session : sessFile[s] = sess[s] \/ (sess[s] = None /\ s \in expired)

\* A session that was logged out, or turned away as expired, stays ended across
\* restarts: the file cannot bring it back.
EndedStaysEnded == \A s \in ended : sess[s] = None

\* A state of the OAuth ledger lets one callback through, however many arrive.
StateSpentOnce == \A st \in State : redeemed[st] <= 1

\* A stored password is replaced by SetPassword alone, and otherwise goes only
\* with its row: no request that writes a row without one blanks it.
PasswordKept ==
  [][\A a \in Account :
       accts[a].pw # None /\ accts'[a].pw # accts[a].pw =>
         \/ accts'[a] = NoRow
         \/ \E r \in Request : /\ req[r].pc \in {"setpw", "regpw"} /\ req[r].acct = a
                               /\ accts'[a].pw = req[r].pw]_vars

\* The admins' console is emptied by requests that overlap and never by one
\* alone: the count of admins guards a request that has the server to itself.
OnlyRacesEmptyAdmins ==
  [][Admins # {} /\ Admins' = {} => Busy \cap crowded # {}]_vars

\* "the server refuses to remove the last admin so the console can't lock
\* itself out": once there is an admin there always is one.
AnAdminRemains == Seeds # {} => Admins # {}
=============================================================================
