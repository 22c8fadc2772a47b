--------------------------- MODULE AccountsProofs ---------------------------
(***************************************************************************)
(* Theorems about Accounts, for any accounts, passwords and requests, and  *)
(* behaviours of any length.                                               *)
(***************************************************************************)
EXTENDS Accounts, FiniteSetTheorems, TLAPS

-----------------------------------------------------------------------------
(* The invariant.                                                          *)

\* A request has what its next step needs.
WellFormed(job) ==
  /\ job \in Job
  /\ job.pc \in {"put", "remove", "setpw", "regpw", "signin", "count"} => job.acct \in Account
  /\ job.pc = "put" => job.role \in KnownRoles
  /\ job.pc = "count" => job.then # "regpw" /\ (job.asked \/ job.role = None)
  /\ job.then \in {"idle", "setpw", "regpw", "signin"} /\ job.orelse \in {"idle", "signin"}

Typed ==
  /\ accts \in [Account -> Row] /\ acctFile \in [Account -> Row]
  /\ sess \in [Session -> Account \cup {None}] /\ sessFile \in [Session -> Account \cup {None}]
  /\ logins \in Nat /\ expired \subseteq Session /\ ended \subseteq Session
  /\ states \subseteq State /\ starts \in 0..MaxSignIns /\ redeemed \in [State -> {0, 1}]
  /\ req \in [Request -> Job] /\ \A r \in Request : WellFormed(req[r])
  /\ served \in 0..MaxRequests /\ restarts \in 0..MaxRestarts
  /\ crowded \subseteq Request

Directory == acctFile = accts

\* A session number is used once.
Sessions ==
  /\ \A s \in Session : sessFile[s] = sess[s] \/ (sess[s] = None /\ s \in expired)
  /\ \A s \in Session : s > logins => sess[s] = None
  /\ \A s \in ended : sess[s] = None /\ s <= logins
  /\ \A s \in expired : s <= logins

\* A state that was accepted is not in the ledger.
Ledger == \A st \in State :
  /\ st \in states => st <= starts
  /\ st \in states \/ st > starts => redeemed[st] = 0
  /\ redeemed[st] = 1 => served > 0

\* A request starts one session at most.
Counted == IsFiniteSet(Busy) /\ logins + Cardinality(Busy) <= served

\* What a request that has the server to itself may go on to do.
Careful(job, admins) ==
  LET spared == job.acct \in admins => \E b \in admins : b # job.acct
  IN /\ job.pc = "put" /\ job.role # "admin" => spared
     /\ job.pc = "remove" => spared
     /\ job.pc = "regpw" => job.acct \notin admins
     /\ job.pc = "put" /\ job.then = "regpw" => job.role = "regular"

\* What it is about to write is no news to the directory, unless an admin asked
\* for it: the role that is there, or a new account that is no admin.
Faithful(job, rows) ==
  job.pc = "put" /\ ~job.asked =>
    job.role = rows[job.acct].role \/ (rows[job.acct].role = None /\ job.role # "admin")

Alone == \A r \in Request :
  req[r].pc # "idle" /\ r \notin crowded =>
    Busy = {r} /\ Careful(req[r], Admins) /\ Faithful(req[r], accts)

Safe == Directory /\ Sessions /\ Ledger /\ Counted /\ Alone

(* The bounds are numbers.                                                 *)
LEMMA Bounds == MaxRequests \in Nat /\ MaxSignIns \in Nat /\ MaxRestarts \in Nat
BY AccountsAssumption

(* No role is not a role.                                                  *)
LEMMA NoneIsNoRole == None \notin KnownRoles
BY DEF None, KnownRoles

(* When the last admin is not the only one, there is another.              *)
LEMMA AnotherAdmin ==
  ASSUME ~IsLastAdmin, NEW a
  PROVE  a \in Admins => \E b \in Admins : b # a
<1>1. SUFFICES ASSUME a \in Admins, \A b \in Admins : b = a PROVE FALSE
  OBVIOUS
<1>2. Admins = {a}
  BY <1>1
<1>3. Cardinality(Admins) = 1
  BY <1>2, FS_Singleton
<1> QED
  BY <1>3 DEF IsLastAdmin

(* A goroutine at rest.                                                    *)
LEMMA IdleType == WellFormed(Idle) /\ Idle.pc = "idle"
BY DEF WellFormed, Idle, Job, Pcs

-----------------------------------------------------------------------------
(* What a handler does with its request: it goes on with a job that is     *)
(* careful and faithful, and leaves the accounts and the sessions alone.   *)

Turn(r, job) ==
  /\ WellFormed(job) /\ Careful(job, Admins) /\ Faithful(job, accts)
  /\ \/ Begin(r, job)
     \/ Goto(r, job) /\ req[r].pc # "idle"
  /\ UNCHANGED <<acctVars, sess, sessFile, logins, expired, ended, starts, restarts>>

Redeems(r, st) ==
  /\ st \in states /\ states' = states \ {st}
  /\ redeemed' = [redeemed EXCEPT ![st] = @ + 1] /\ served' = served + 1

(* Every handler step only gives the request its next job.                 *)
LEMMA HandlersTurn ==
  ASSUME Typed, Safe, NEW r \in Request, Handlers(r) \/ CountAdmins(r)
  PROVE  /\ \E job \in Job : Turn(r, job)
         /\ UNCHANGED stateVars \/ \E st \in State : Redeems(r, st)
<1> USE DEF Turn
<1>a. /\ \A a \in Account : Has(a) => accts[a].role \in KnownRoles
      /\ \A a \in Account : ~Has(a) => a \notin Admins
      /\ \A a \in Account : accts[a].role = "admin" <=> a \in Admins
      /\ "admin" \in KnownRoles /\ "regular" \in KnownRoles /\ None \notin KnownRoles
  BY NoneIsNoRole DEF Has, Admins, Typed, Row, NoRow, KnownRoles, None
<1>b. ASSUME NEW job \in Job, WellFormed(job), Careful(job, Admins),
             Faithful(job, accts), Begin(r, job) \/ (Goto(r, job) /\ req[r].pc # "idle"),
             UNCHANGED <<acctVars, sess, sessFile, logins, expired, ended, starts, restarts>>
      PROVE  \E j \in Job : Turn(r, j)
  BY <1>a, <1>b
<1>c. Idle \in Job /\ WellFormed(Idle) /\ Careful(Idle, Admins) /\ Faithful(Idle, accts)
  BY IdleType DEF WellFormed, Idle, Faithful, Careful
<1>1. ASSUME NEW a \in Local, NEW p \in Password, Register(r, a, p)
      PROVE  (\E job \in Job : Turn(r, job)) /\ UNCHANGED stateVars
  <2> DEFINE job == [Idle EXCEPT !.pc = "put", !.acct = a, !.role = "regular",
                                 !.pw = p, !.then = "regpw"]
  <2>1. job \in Job /\ job.pc = "put" /\ job.acct = a /\ job.role = "regular"
        /\ job.then = "regpw" /\ job.orelse = "idle"
    BY DEF Idle, Job, Pcs, KnownRoles, Account
  <2>2. WellFormed(job) /\ Careful(job, Admins) /\ Faithful(job, accts)
    BY <1>a, <1>1, <2>1 DEF WellFormed, Careful, Faithful, Has, Register, Account
  <2> QED
    BY <1>b, <1>1, <2>1, <2>2 DEF Register, sessVars, stateVars
<1>2. ASSUME NEW a \in Local, Login(r, a)
      PROVE  (\E job \in Job : Turn(r, job)) /\ UNCHANGED stateVars
  <2> DEFINE job == [Idle EXCEPT !.pc = "signin", !.acct = a]
  <2>1. job \in Job /\ job.pc = "signin" /\ job.acct = a
        /\ job.then = "idle" /\ job.orelse = "idle"
    BY DEF Idle, Job, Pcs, Account
  <2>2. WellFormed(job) /\ Careful(job, Admins) /\ Faithful(job, accts)
    BY <2>1 DEF WellFormed, Careful, Faithful, Account
  <2> QED
    BY <1>b, <1>2, <2>1, <2>2 DEF Login, sessVars, stateVars
<1>3. ASSUME NEW pc \in {"admitted", "exchange"}, Begin(r, [Idle EXCEPT !.pc = pc]),
             UNCHANGED <<acctVars, sess, sessFile, logins, expired, ended, starts, restarts>>
      PROVE  \E job \in Job : Turn(r, job)
  <2> DEFINE job == [Idle EXCEPT !.pc = pc]
  <2>1. job \in Job /\ job.pc = pc /\ job.then = "idle" /\ job.orelse = "idle"
    BY DEF Idle, Job, Pcs
  <2>2. WellFormed(job) /\ Careful(job, Admins) /\ Faithful(job, accts)
    BY <2>1 DEF WellFormed, Careful, Faithful
  <2> QED
    BY <1>b, <1>3, <2>1, <2>2
<1>4. ASSUME NEW s \in Session, AdmitSession(r, s)
      PROVE  (\E job \in Job : Turn(r, job)) /\ UNCHANGED stateVars
  BY <1>3, <1>4 DEF AdmitSession, sessVars, stateVars
<1>5. ASSUME NEW a \in Account, ~Has(a),
             Begin(r, [Idle EXCEPT !.pc = "put", !.acct = a, !.role = "regular"])
             \/ (Goto(r, [Idle EXCEPT !.pc = "put", !.acct = a, !.role = "regular"])
                 /\ req[r].pc # "idle"),
             UNCHANGED <<acctVars, sess, sessFile, logins, expired, ended, starts, restarts>>
      PROVE  \E job \in Job : Turn(r, job)
  <2> DEFINE job == [Idle EXCEPT !.pc = "put", !.acct = a, !.role = "regular"]
  <2>1. job \in Job /\ job.pc = "put" /\ job.acct = a /\ job.role = "regular"
        /\ job.then = "idle" /\ job.orelse = "idle"
    BY DEF Idle, Job, Pcs, KnownRoles
  <2>2. WellFormed(job) /\ Careful(job, Admins) /\ Faithful(job, accts)
    BY <1>a, <1>5, <2>1 DEF WellFormed, Careful, Faithful, Has
  <2> QED
    BY <1>b, <1>5, <2>1, <2>2
<1>6. ASSUME NEW a \in Gateway, AdmitGateway(r, a)
      PROVE  (\E job \in Job : Turn(r, job)) /\ UNCHANGED stateVars
  BY <1>3, <1>5, <1>6 DEF AdmitGateway, sessVars, stateVars, Account
<1>7. ASSUME Goto(r, Idle), req[r].pc # "idle",
             UNCHANGED <<acctVars, sess, sessFile, logins, expired, ended, starts, restarts>>
      PROVE  \E job \in Job : Turn(r, job)
  BY <1>b, <1>c, <1>7
<1>8. ASSUME NEW a \in Account, NEW role \in KnownRoles, NEW p \in Password \cup {None},
             AdminCreate(r, a, role, p)
      PROVE  (\E job \in Job : Turn(r, job)) /\ UNCHANGED stateVars
  <2>1. CASE Has(a)
    BY <1>7, <1>8, <2>1 DEF AdminCreate, sessVars, stateVars
  <2>2. CASE ~Has(a)
    <3> DEFINE job == [Idle EXCEPT !.pc = "put", !.acct = a, !.role = role, !.asked = TRUE, !.pw = p,
                         !.then = IF a \in Local /\ p # None THEN "setpw" ELSE "idle"]
    <3>1. job \in Job /\ job.pc = "put" /\ job.acct = a /\ job.role = role /\ job.asked
          /\ job.then \in {"idle", "setpw"} /\ job.orelse = "idle"
      BY DEF Idle, Job, Pcs
    <3>2. WellFormed(job) /\ Careful(job, Admins) /\ Faithful(job, accts)
      BY <1>a, <2>2, <3>1 DEF WellFormed, Careful, Faithful
    <3>3. Goto(r, job) /\ req[r].pc # "idle"
      BY <1>8, <2>2 DEF AdminCreate
    <3> HIDE DEF job
    <3> QED
      BY <1>b, <1>8, <3>1, <3>2, <3>3 DEF AdminCreate, sessVars, stateVars
  <2> QED
    BY <2>1, <2>2
<1>9. ASSUME NEW a \in Local, AdminBind(r, a)
      PROVE  (\E job \in Job : Turn(r, job)) /\ UNCHANGED stateVars
  BY <1>5, <1>7, <1>9 DEF AdminBind, sessVars, stateVars, Account
<1>10. ASSUME NEW a \in Account, NEW asked \in KnownRoles \cup {None},
              NEW p \in Password \cup {None}, AdminUpdate(r, a, asked, p)
       PROVE  (\E job \in Job : Turn(r, job)) /\ UNCHANGED stateVars
  <2>1. CASE ~Has(a)
    BY <1>7, <1>10, <2>1 DEF AdminUpdate, sessVars, stateVars
  <2>2. CASE Has(a)
    <3> DEFINE role == IF asked = None THEN accts[a].role ELSE asked
               demotes == accts[a].role = "admin" /\ role # "admin"
               job == [Idle EXCEPT !.pc = IF demotes THEN "count" ELSE "put",
                         !.acct = a, !.role = role, !.asked = asked # None, !.pw = p,
                         !.then = IF a \in Local /\ p # None THEN "setpw" ELSE "idle"]
    <3>1. role \in KnownRoles
      BY <1>a, <2>2
    <3>2. job \in Job /\ job.pc = (IF demotes THEN "count" ELSE "put") /\ job.acct = a
          /\ job.role = role /\ (job.asked <=> asked # None)
          /\ job.then \in {"idle", "setpw"} /\ job.orelse = "idle"
      BY <3>1 DEF Idle, Job, Pcs
    <3>3. Goto(r, job)
          /\ req[r].pc = "admitted" /\ UNCHANGED <<acctVars, sessVars, stateVars, restarts>>
      BY <1>10, <2>2 DEF AdminUpdate
    <3>4. asked = None => role = accts[a].role /\ ~demotes
      OBVIOUS
    <3> HIDE DEF role, demotes
    <3>5. ~demotes /\ role # "admin" => a \notin Admins
      BY <1>a DEF demotes
    <3>6. WellFormed(job) /\ Careful(job, Admins) /\ Faithful(job, accts)
      BY <1>a, <3>1, <3>2, <3>4, <3>5 DEF WellFormed, Careful, Faithful
    <3> HIDE DEF job
    <3> QED
      BY <1>b, <3>2, <3>3, <3>6 DEF sessVars, stateVars
  <2> QED
    BY <2>1, <2>2
<1>11. ASSUME NEW a \in Account, AdminDelete(r, a)
       PROVE  (\E job \in Job : Turn(r, job)) /\ UNCHANGED stateVars
  <2>1. CASE ~Has(a)
    BY <1>7, <1>11, <2>1 DEF AdminDelete, sessVars, stateVars
  <2>2. CASE Has(a)
    <3> DEFINE job == [Idle EXCEPT !.acct = a,
                         !.pc = IF accts[a].role = "admin" THEN "count" ELSE "remove"]
    <3>1. job \in Job /\ job.pc = (IF accts[a].role = "admin" THEN "count" ELSE "remove")
          /\ job.acct = a /\ job.role = None /\ job.then = "idle" /\ job.orelse = "idle"
      BY DEF Idle, Job, Pcs
    <3>2. WellFormed(job) /\ Careful(job, Admins) /\ Faithful(job, accts)
      BY <1>a, <3>1 DEF WellFormed, Careful, Faithful, None
    <3>3. Goto(r, job) /\ req[r].pc = "admitted"
      BY <1>11, <2>2 DEF AdminDelete
    <3> HIDE DEF job
    <3> QED
      BY <1>b, <1>11, <3>1, <3>2, <3>3 DEF AdminDelete, sessVars, stateVars
  <2> QED
    BY <2>1, <2>2
<1>12. ASSUME NEW st \in State, OAuthCallback(r, st)
       PROVE  (\E job \in Job : Turn(r, job)) /\ Redeems(r, st)
  BY <1>3, <1>12 DEF OAuthCallback, sessVars, Redeems, Begin
<1>13. ASSUME NEW a \in Idp, NEW stale \in BOOLEAN, OAuthClaim(r, a, stale)
       PROVE  (\E job \in Job : Turn(r, job)) /\ UNCHANGED stateVars
  <2>0. a \in Account /\ req[r].pc # "idle"
    BY <1>13 DEF Account, OAuthClaim
  <2>1. CASE ~Has(a) /\ ~Registers
    BY <1>7, <1>13, <2>0, <2>1 DEF OAuthClaim, sessVars, stateVars
  <2>2. CASE ~Has(a) /\ Registers
    <3> DEFINE job == [Idle EXCEPT !.pc = "put", !.acct = a, !.role = "regular", !.then = "signin"]
    <3>1. job \in Job /\ job.pc = "put" /\ job.acct = a /\ job.role = "regular"
          /\ job.then = "signin" /\ job.orelse = "idle"
      BY <2>0 DEF Idle, Job, Pcs, KnownRoles
    <3>2. WellFormed(job) /\ Careful(job, Admins) /\ Faithful(job, accts)
      BY <1>a, <2>0, <2>2, <3>1 DEF WellFormed, Careful, Faithful, Has
    <3> QED
      BY <1>b, <1>13, <2>0, <2>2, <3>1, <3>2 DEF OAuthClaim, sessVars, stateVars
  <2>3. CASE Has(a) /\ stale
    <3> DEFINE job == [Idle EXCEPT !.pc = "put", !.acct = a, !.role = accts[a].role,
                                   !.then = "signin", !.orelse = "signin"]
    <3>1. accts[a].role \in KnownRoles
      BY <1>a, <2>0, <2>3
    <3>2. job \in Job /\ job.pc = "put" /\ job.acct = a /\ job.role = accts[a].role
          /\ job.then = "signin" /\ job.orelse = "signin"
      BY <2>0, <3>1 DEF Idle, Job, Pcs
    <3>3. WellFormed(job) /\ Careful(job, Admins) /\ Faithful(job, accts)
      BY <1>a, <2>0, <3>1, <3>2 DEF WellFormed, Careful, Faithful
    <3> QED
      BY <1>b, <1>13, <2>0, <2>3, <3>2, <3>3 DEF OAuthClaim, sessVars, stateVars
  <2>4. CASE Has(a) /\ ~stale
    <3> DEFINE job == [Idle EXCEPT !.pc = "signin", !.acct = a]
    <3>1. job \in Job /\ job.pc = "signin" /\ job.acct = a
          /\ job.then = "idle" /\ job.orelse = "idle"
      BY <2>0 DEF Idle, Job, Pcs
    <3>2. WellFormed(job) /\ Careful(job, Admins) /\ Faithful(job, accts)
      BY <2>0, <3>1 DEF WellFormed, Careful, Faithful
    <3> QED
      BY <1>b, <1>13, <2>0, <2>4, <3>1, <3>2 DEF OAuthClaim, sessVars, stateVars
  <2> QED
    BY <2>1, <2>2, <2>3, <2>4
<1>14. CASE OAuthFails(r)
  BY <1>7, <1>14 DEF OAuthFails, sessVars, stateVars
<1>15. CASE CountAdmins(r)
  <2>0. req[r].pc = "count"
    BY <1>15 DEF CountAdmins
  <2>1. CASE IsLastAdmin
    BY <1>7, <1>15, <2>0, <2>1 DEF CountAdmins, sessVars, stateVars
  <2>2. CASE ~IsLastAdmin
    <3> DEFINE job == [req[r] EXCEPT !.pc = IF req[r].role = None THEN "remove" ELSE "put"]
    <3>1. WellFormed(req[r]) /\ req[r] \in Job
      BY DEF Typed
    <3>2. job \in Job /\ job.pc = (IF req[r].role = None THEN "remove" ELSE "put")
          /\ job.acct = req[r].acct /\ job.role = req[r].role /\ job.asked = req[r].asked
          /\ job.then = req[r].then /\ job.orelse = req[r].orelse
      BY <3>1 DEF Job, Pcs
    <3>3. WellFormed(job)
      BY <2>0, <3>1, <3>2 DEF WellFormed, Job
    <3>4. Faithful(job, accts)
      BY <2>0, <3>1, <3>2 DEF Faithful, WellFormed
    <3>5. req[r].acct \in Admins => \E b \in Admins : b # req[r].acct
      BY <2>2, AnotherAdmin
    <3>6. Careful(job, Admins)
      BY <2>0, <3>1, <3>2, <3>5 DEF Careful, WellFormed
    <3> QED
      BY <1>b, <1>15, <2>0, <2>2, <3>2, <3>3, <3>4, <3>6 DEF CountAdmins, sessVars, stateVars
  <2> QED
    BY <2>1, <2>2
<1> QED
  BY <1>1, <1>2, <1>4, <1>6, <1>8, <1>9, <1>10, <1>11, <1>12, <1>13, <1>14, <1>15 DEF Handlers

-----------------------------------------------------------------------------
(* What beginning and going on mean for the requests.                      *)

LEMMA BeginReqs ==
  ASSUME Typed, Safe, NEW r \in Request, NEW job, WellFormed(job), Begin(r, job),
         Careful(job, Admins'), Faithful(job, accts')
  PROVE  /\ req' \in [Request -> Job] /\ \A q \in Request : WellFormed(req'[q])
         /\ served' \in 0..MaxRequests /\ served' > 0 /\ crowded' \subseteq Request
         /\ IsFiniteSet(Busy') /\ (logins' = logins => logins' + Cardinality(Busy') <= served')
         /\ Alone'
<1>1. /\ req' = [req EXCEPT ![r] = job] /\ req \in [Request -> Job] /\ job \in Job
      /\ req[r].pc = "idle"
  BY DEF Begin, Typed, WellFormed
<1>2. \A q \in Request : req'[q] = IF q = r THEN job ELSE req[q]
  BY <1>1
<1>3. served' \in 0..MaxRequests /\ served' > 0 /\ served' = served + 1
  BY Bounds DEF Begin, Typed
<1>5. Busy' \subseteq Busy \cup {r} /\ \A q \in Busy : q \in Busy' /\ q # r
  BY <1>1, <1>2 DEF Busy
<1>6. IsFiniteSet(Busy) /\ IsFiniteSet(Busy \cup {r})
  BY FS_AddElement DEF Safe, Counted
<1>7. IsFiniteSet(Busy') /\ Cardinality(Busy') <= Cardinality(Busy \cup {r})
  BY <1>5, <1>6, FS_Subset
<1>8. Cardinality(Busy \cup {r}) <= Cardinality(Busy) + 1
  BY <1>6, FS_AddElement, FS_CardinalityType
<1>9. logins + Cardinality(Busy') <= served'
  <2>1. Cardinality(Busy') \in Nat /\ Cardinality(Busy) \in Nat /\ Cardinality(Busy \cup {r}) \in Nat
        /\ logins \in Nat /\ served \in Nat
    BY <1>6, <1>7, FS_CardinalityType DEF Typed
  <2>2. logins + Cardinality(Busy) <= served
    BY DEF Safe, Counted
  <2> QED
    BY <1>3, <1>7, <1>8, <2>1, <2>2
<1>10. crowded' \subseteq Request
  BY DEF Begin, Typed, Busy
<1>11. Alone'
  <2>1. ASSUME NEW q \in Request, req'[q].pc # "idle", q \notin crowded'
        PROVE  Busy' = {q} /\ Careful(req'[q], Admins') /\ Faithful(req'[q], accts')
    <3>1. CASE Busy = {}
      <4>1. q = r
        BY <1>2, <2>1, <3>1 DEF Busy
      <4>2. q \in Busy'
        BY <2>1 DEF Busy
      <4> QED
        BY <1>2, <1>5, <3>1, <4>1, <4>2
    <3>2. CASE Busy # {}
      BY <1>5, <2>1, <3>2 DEF Begin, Busy
    <3> QED
      BY <3>1, <3>2
  <2> QED
    BY <2>1 DEF Alone
<1> QED
  BY <1>1, <1>2, <1>3, <1>7, <1>9, <1>10, <1>11 DEF Typed

(* A request goes on, or is over.                                          *)
LEMMA GotoReqs ==
  ASSUME Typed, Safe, NEW r \in Request, NEW job, WellFormed(job), Goto(r, job),
         req[r].pc # "idle",
         r \notin crowded => Careful(job, Admins') /\ Faithful(job, accts')
  PROVE  /\ req' \in [Request -> Job] /\ \A q \in Request : WellFormed(req'[q])
         /\ served' = served /\ crowded' \subseteq Request
         /\ IsFiniteSet(Busy') /\ Cardinality(Busy') <= Cardinality(Busy)
         /\ job.pc = "idle" => Cardinality(Busy') + 1 <= Cardinality(Busy)
         /\ Alone'
<1>1. /\ req' = [req EXCEPT ![r] = job] /\ req \in [Request -> Job] /\ job \in Job
  BY DEF Goto, Typed, WellFormed
<1>2. \A q \in Request : req'[q] = IF q = r THEN job ELSE req[q]
  BY <1>1
<1>4. Busy' \subseteq Busy /\ (job.pc = "idle" => Busy' = Busy \ {r}) /\ r \in Busy
  BY <1>1, <1>2 DEF Busy
<1>5. IsFiniteSet(Busy') /\ Cardinality(Busy') <= Cardinality(Busy)
  BY <1>4, FS_Subset DEF Safe, Counted
<1>6. job.pc = "idle" => Cardinality(Busy') + 1 <= Cardinality(Busy)
  <2>1. Cardinality(Busy) \in Nat /\ IsFiniteSet(Busy)
    BY FS_CardinalityType DEF Safe, Counted
  <2>2. Cardinality(Busy \ {r}) = Cardinality(Busy) - 1
    BY <1>4, <2>1, FS_RemoveElement
  <2>3. Cardinality(Busy \ {r}) + 1 <= Cardinality(Busy)
    BY <2>1, <2>2
  <2> QED
    BY <1>4, <2>3, Zenon
<1>7. Alone'
  <2>1. ASSUME NEW q \in Request, req'[q].pc # "idle", q \notin crowded'
        PROVE  Busy' = {q} /\ Careful(req'[q], Admins') /\ Faithful(req'[q], accts')
    <3>1. q \notin crowded /\ req[q].pc # "idle"
      BY <1>2, <2>1 DEF Goto
    <3>2. Busy = {q}
      BY <3>1 DEF Safe, Alone
    <3>3. q = r /\ q \in Busy'
      BY <1>4, <2>1, <3>2 DEF Busy
    <3> QED
      BY <1>2, <1>4, <3>1, <3>2, <3>3
  <2> QED
    BY <2>1 DEF Alone
<1>8. crowded' \subseteq Request
  BY DEF Goto, Typed
<1> QED
  BY <1>1, <1>2, <1>5, <1>6, <1>7, <1>8 DEF Goto, Typed

(* Handlers keep the invariant.                                            *)
LEMMA TurnSafe ==
  ASSUME Typed, Safe, NEW r \in Request, NEW job \in Job, Turn(r, job),
         UNCHANGED stateVars \/ \E st \in State : Redeems(r, st)
  PROVE  Typed' /\ Safe'
<1>1. /\ WellFormed(job) /\ Admins' = Admins
      /\ Careful(job, Admins') /\ Faithful(job, accts') /\ accts' = accts /\ acctFile' = acctFile
      /\ sess' = sess /\ sessFile' = sessFile /\ logins' = logins /\ expired' = expired
      /\ ended' = ended /\ starts' = starts /\ restarts' = restarts
  BY DEF Turn, acctVars, Admins
<1>2. /\ req' \in [Request -> Job] /\ \A q \in Request : WellFormed(req'[q])
      /\ served' \in 0..MaxRequests /\ served <= served' /\ crowded' \subseteq Request
      /\ IsFiniteSet(Busy') /\ logins' + Cardinality(Busy') <= served'
      /\ Alone'
  <2>1. CASE Begin(r, job)
    <3>1. served' = served + 1 /\ served \in Nat
      BY <2>1 DEF Begin, Typed
    <3> QED
      BY <1>1, <2>1, <3>1, BeginReqs
  <2>2. CASE Goto(r, job) /\ req[r].pc # "idle"
    <3>1. /\ req' \in [Request -> Job] /\ \A q \in Request : WellFormed(req'[q])
          /\ served' = served /\ crowded' \subseteq Request
          /\ IsFiniteSet(Busy') /\ Cardinality(Busy') <= Cardinality(Busy)
          /\ Alone'
      BY <1>1, <2>2, GotoReqs
    <3>2. Cardinality(Busy) \in Nat /\ Cardinality(Busy') \in Nat /\ served \in 0..MaxRequests
          /\ logins \in Nat /\ logins + Cardinality(Busy) <= served
      BY <3>1, FS_CardinalityType DEF Safe, Counted, Typed
    <3>3. served <= served' /\ logins' + Cardinality(Busy') <= served'
      BY <1>1, <3>1, <3>2, Bounds
    <3> QED
      BY <3>1, <3>2, <3>3
  <2> QED
    BY <2>1, <2>2 DEF Turn
<1>3. /\ states' \subseteq State /\ redeemed' \in [State -> {0, 1}] /\ Ledger'
  <2>1. CASE UNCHANGED stateVars
    BY <1>1, <1>2, <2>1 DEF stateVars, Typed, Safe, Ledger
  <2>2. ASSUME NEW st \in State, Redeems(r, st)
        PROVE  states' \subseteq State /\ redeemed' \in [State -> {0, 1}] /\ Ledger'
    <3>1. redeemed[st] = 0 /\ st <= starts /\ starts' = starts
      BY <1>1, <2>2 DEF Redeems, Safe, Ledger, Typed, State
    <3>2. redeemed' = [redeemed EXCEPT ![st] = 1]
      BY <2>2, <3>1 DEF Redeems, Typed
    <3>3. served' > 0
      BY <2>2 DEF Redeems, Typed
    <3>4. states' \subseteq State /\ redeemed' \in [State -> {0, 1}]
      BY <2>2, <3>2 DEF Redeems, Typed
    <3>5. ASSUME NEW t \in State
          PROVE  /\ t \in states' => t <= starts'
                 /\ t \in states' \/ t > starts' => redeemed'[t] = 0
                 /\ redeemed'[t] = 1 => served' > 0
      <4>1. CASE t = st
        BY <2>2, <3>1, <3>3, <4>1 DEF Redeems, State, Typed
      <4>2. CASE t # st
        BY <2>2, <3>1, <3>2, <3>3, <4>2 DEF Redeems, Typed, Safe, Ledger
      <4> QED
        BY <4>1, <4>2
    <3> QED
      BY <3>4, <3>5 DEF Ledger
  <2> QED
    BY <2>1, <2>2
<1>4. Typed'
  BY <1>1, <1>2, <1>3 DEF Typed
<1>5. Directory'
  BY <1>1 DEF Safe, Directory
<1>6. Sessions'
  BY <1>1 DEF Safe, Sessions
<1> QED
  BY <1>2, <1>3, <1>4, <1>5, <1>6 DEF Safe, Counted

(* The operations of the account store.                                    *)

LEMMA AdminsOf ==
  ASSUME NEW rows, accts' = rows
  PROVE  Admins' = {a \in Account : rows[a].role = "admin"}
BY DEF Admins

(* The operations of the stores.                                           *)
LEMMA OperateSafe ==
  ASSUME Typed, Safe, NEW r \in Request, Put(r) \/ Remove(r) \/ SetPassword(r)
  PROVE  Typed' /\ Safe'
<1>1. WellFormed(req[r]) /\ req[r] \in Job
      /\ (r \notin crowded /\ req[r].pc # "idle" => Careful(req[r], Admins))
  BY DEF Typed, Safe, Alone
<1>2. ASSUME NEW job, WellFormed(job), Goto(r, job), req[r].pc # "idle",
             job.pc # "put", r \notin crowded => Careful(job, Admins'),
             accts' \in [Account -> Row], acctFile' = accts',
             UNCHANGED <<sessVars, stateVars, restarts>>
      PROVE  Typed' /\ Safe'
  <2>1. /\ req' \in [Request -> Job] /\ \A q \in Request : WellFormed(req'[q])
        /\ served' = served /\ crowded' \subseteq Request
        /\ IsFiniteSet(Busy') /\ Cardinality(Busy') <= Cardinality(Busy)
        /\ Alone'
    BY <1>2, GotoReqs DEF Faithful
  <2>2. Counted'
    <3>1. Cardinality(Busy) \in Nat /\ Cardinality(Busy') \in Nat /\ served \in Nat
          /\ logins \in Nat /\ logins + Cardinality(Busy) <= served
      BY <2>1, FS_CardinalityType DEF Safe, Counted, Typed
    <3> QED
      BY <1>2, <2>1, <3>1 DEF Counted, sessVars
  <2>3. Typed'
    BY <1>2, <2>1 DEF Typed, sessVars, stateVars
  <2> QED
    BY <1>2, <2>1, <2>2, <2>3
       DEF Safe, Directory, Sessions, Ledger, sessVars, stateVars
<1>3. ASSUME NEW job, WellFormed(job), Goto(r, job), req[r].pc # "idle",
             job.pc # "put", r \notin crowded => Careful(job, Admins),
             UNCHANGED <<acctVars, sessVars, stateVars, restarts>>
      PROVE  Typed' /\ Safe'
  <2>1. Admins' = Admins /\ accts' = accts /\ acctFile' = acctFile
    BY <1>3 DEF Admins, acctVars
  <2> QED
    BY <1>2, <1>3, <2>1 DEF Typed, Safe, Directory
<1>4. WellFormed(Idle) /\ Idle.pc # "put" /\ \A admins : Careful(Idle, admins)
  BY IdleType DEF Idle, Careful
<1>5. CASE Put(r)
  <2>0. req[r].pc = "put" /\ req[r].acct \in Account /\ req[r].role \in KnownRoles
    BY <1>1, <1>5 DEF Put, WellFormed
  <2>1. ASSUME NEW next \in {"idle", "setpw", "regpw", "signin"}
        PROVE  \E job : /\ job = (IF next = "idle" THEN Idle ELSE [req[r] EXCEPT !.pc = next])
                        /\ WellFormed(job) /\ job.pc # "put"
                        /\ \A admins : next # "regpw" => Careful(job, admins)
                        /\ \A admins : req[r].acct \notin admins => Careful(job, admins)
    <3>1. CASE next = "idle"
      BY <1>4, <3>1
    <3>2. CASE next # "idle"
      <4> DEFINE job == [req[r] EXCEPT !.pc = next]
      <4>1. job \in Job /\ job.pc = next /\ job.acct = req[r].acct
            /\ job.then = req[r].then /\ job.orelse = req[r].orelse
        BY <1>1 DEF Job, Pcs
      <4>2. WellFormed(job) /\ job.pc # "put"
        BY <1>1, <2>0, <3>2, <4>1 DEF WellFormed
      <4>3. \A admins : next # "regpw" => Careful(job, admins)
        BY <3>2, <4>1 DEF Careful
      <4>4. \A admins : req[r].acct \notin admins => Careful(job, admins)
        BY <3>2, <4>1 DEF Careful
      <4> QED
        BY <3>2, <4>2, <4>3, <4>4
    <3> QED
      BY <3>1, <3>2
  <2>2. CASE UNCHANGED acctVars /\ Goto(r, IF req[r].orelse = "idle" THEN Idle
                                           ELSE [req[r] EXCEPT !.pc = req[r].orelse])
    <3>1. req[r].orelse \in {"idle", "signin"}
      BY <1>1 DEF WellFormed
    <3>2. PICK job : /\ job = (IF req[r].orelse = "idle" THEN Idle
                               ELSE [req[r] EXCEPT !.pc = req[r].orelse])
                     /\ WellFormed(job) /\ job.pc # "put"
                     /\ \A admins : Careful(job, admins)
      BY <2>1, <3>1
    <3> QED
      BY <1>3, <1>5, <2>0, <2>2, <3>2 DEF Put
  <2>3. CASE Stored(Upserted(req[r].acct, req[r].role))
             /\ Goto(r, IF req[r].then = "idle" THEN Idle ELSE [req[r] EXCEPT !.pc = req[r].then])
    <3>1. req[r].then \in {"idle", "setpw", "regpw", "signin"}
      BY <1>1 DEF WellFormed
    <3>2. PICK job : /\ job = (IF req[r].then = "idle" THEN Idle
                               ELSE [req[r] EXCEPT !.pc = req[r].then])
                     /\ WellFormed(job) /\ job.pc # "put"
                     /\ \A admins : req[r].then # "regpw" => Careful(job, admins)
                     /\ \A admins : req[r].acct \notin admins => Careful(job, admins)
      BY <2>1, <3>1
    <3>3. accts' = [accts EXCEPT ![req[r].acct].role = req[r].role] /\ acctFile' = accts'
      BY <2>3 DEF Stored, Upserted
    <3>4. \A a \in Account : accts'[a].role = IF a = req[r].acct THEN req[r].role ELSE accts[a].role
      BY <2>0, <3>3 DEF Typed, Row, NoRow
    <3>5. accts' \in [Account -> Row]
      BY <2>0, <3>3 DEF Typed, Row, NoRow
    <3>6. r \notin crowded => Careful(job, Admins')
      <4>1. CASE req[r].then = "regpw" /\ r \notin crowded
        <5>1. req[r].role = "regular"
          BY <1>1, <2>0, <4>1 DEF Careful
        <5>2. req[r].acct \notin Admins'
          BY <2>0, <3>4, <5>1 DEF Admins
        <5> QED
          BY <3>2, <5>2
      <4> QED
        BY <3>2, <4>1
    <3> QED
      BY <1>2, <1>5, <2>0, <2>3, <3>2, <3>3, <3>5, <3>6 DEF Put
  <2> QED
    BY <1>5, <2>2, <2>3 DEF Put
<1>6. CASE Remove(r)
  <2>0. req[r].pc = "remove" /\ req[r].acct \in Account
    BY <1>1, <1>6 DEF Remove, WellFormed
  <2>1. CASE UNCHANGED acctVars
    BY <1>3, <1>4, <1>6, <2>0, <2>1 DEF Remove
  <2>2. CASE Stored(Removed(req[r].acct))
    <3>1. accts' = [accts EXCEPT ![req[r].acct] = NoRow] /\ acctFile' = accts'
      BY <2>2 DEF Stored, Removed
    <3>2. accts' \in [Account -> Row] 
      BY <2>0, <3>1 DEF Typed, Row
    <3> QED
      BY <1>2, <1>4, <1>6, <2>0, <3>1, <3>2 DEF Remove
  <2> QED
    BY <1>6, <2>1, <2>2 DEF Remove
<1>7. CASE SetPassword(r)
  <2>0. req[r].pc \in {"setpw", "regpw"} /\ req[r].acct \in Account
    BY <1>1, <1>7 DEF SetPassword, WellFormed
  <2>1. CASE Has(req[r].acct) /\ Stored([accts EXCEPT ![req[r].acct].pw = req[r].pw]) /\ Goto(r, Idle)
    <3>1. accts' = [accts EXCEPT ![req[r].acct].pw = req[r].pw] /\ acctFile' = accts'
      BY <2>1 DEF Stored
    <3>2. accts[req[r].acct] \in [role : KnownRoles, pw : Password \cup {None}]
          /\ req[r].pw \in Password \cup {None}
      BY <1>1, <2>0, <2>1 DEF Has, Typed, Row, NoRow, Job
    <3>3. accts' \in [Account -> Row] 
      BY <2>0, <3>1, <3>2 DEF Typed, Row
    <3> QED
      BY <1>2, <1>4, <1>7, <2>0, <2>1, <3>1, <3>3 DEF SetPassword
  <2>2. CASE UNCHANGED acctVars
             /\ Goto(r, IF req[r].pc = "setpw" THEN Idle ELSE [req[r] EXCEPT !.pc = "remove"])
    <3>1. PICK job : job = IF req[r].pc = "setpw" THEN Idle ELSE [req[r] EXCEPT !.pc = "remove"]
      OBVIOUS
    <3>2. CASE req[r].pc = "setpw"
      BY <1>3, <1>4, <1>7, <2>0, <2>2, <3>2 DEF SetPassword
    <3>3. CASE req[r].pc = "regpw"
      <4>1. job \in Job /\ job.pc = "remove" /\ job.acct = req[r].acct
            /\ job.then = req[r].then /\ job.orelse = req[r].orelse
        BY <1>1, <3>1, <3>3 DEF Job, Pcs
      <4>2. WellFormed(job) /\ job.pc # "put"
        BY <1>1, <2>0, <4>1 DEF WellFormed
      <4>3. r \notin crowded => Careful(job, Admins)
        BY <1>1, <3>3, <4>1 DEF Careful
      <4> QED
        BY <1>3, <1>7, <2>0, <2>2, <3>1, <4>2, <4>3 DEF SetPassword
    <3> QED
      BY <2>0, <3>2, <3>3
  <2> QED
    BY <1>7, <2>1, <2>2 DEF SetPassword
<1> QED
  BY <1>5, <1>6, <1>7

(* A session begins.                                                       *)
LEMMA CreateSafe ==
  ASSUME Typed, Safe, NEW r \in Request, CreateSession(r)
  PROVE  Typed' /\ Safe'
<1>1. /\ req[r].pc = "signin" /\ req[r].acct \in Account /\ Goto(r, Idle)
      /\ UNCHANGED <<acctVars, stateVars, restarts, expired, ended>>
  BY DEF CreateSession, Typed, WellFormed
<1>2. accts' = accts /\ acctFile' = acctFile /\ Admins' = Admins
  BY <1>1 DEF acctVars, Admins
<1>3. WellFormed(Idle) /\ Careful(Idle, Admins') /\ Faithful(Idle, accts')
  BY IdleType DEF Idle, Careful, Faithful
<1>4. /\ req' \in [Request -> Job] /\ \A q \in Request : WellFormed(req'[q])
      /\ served' = served /\ crowded' \subseteq Request
      /\ IsFiniteSet(Busy') /\ Cardinality(Busy') + 1 <= Cardinality(Busy)
      /\ Alone'
  BY <1>1, <1>3, IdleType, GotoReqs
<1>5. Cardinality(Busy) \in Nat /\ Cardinality(Busy') \in Nat /\ served \in 0..MaxRequests
      /\ logins \in Nat /\ logins + Cardinality(Busy) <= served
  BY <1>4, FS_CardinalityType DEF Safe, Counted, Typed
<1>6. logins + 1 \in Session
  BY <1>4, <1>5, Bounds DEF Session
<1>7. logins' \in {logins, logins + 1}
      /\ \A s \in Session : s = logins + 1 \/ (sess'[s] = sess[s] /\ sessFile'[s] \in {sess[s], sessFile[s]})
  BY <1>6 DEF CreateSession, Typed
<1>8. /\ sess' \in [Session -> Account \cup {None}] /\ sessFile' \in [Session -> Account \cup {None}]
      /\ \A s \in Session : sessFile'[s] = sess'[s] \/ (sess'[s] = None /\ s \in expired')
      /\ \A s \in Session : s > logins' => sess'[s] = None
  <2>1. CASE UNCHANGED <<logins, sess, sessFile>>
    BY <1>1, <2>1 DEF Typed, Safe, Sessions
  <2>2. CASE logins' = logins + 1 /\ sess' = [sess EXCEPT ![logins + 1] = req[r].acct]
             /\ sessFile' = sess'
    <3>1. \A s \in Session : s \in Nat
      BY DEF Session
    <3> QED
      BY <1>1, <1>5, <1>6, <2>2, <3>1 DEF Typed, Safe, Sessions
  <2> QED
    BY <2>1, <2>2 DEF CreateSession
<1>9. Sessions'
  <2>1. ASSUME NEW s \in ended' PROVE sess'[s] = None /\ s <= logins'
    <3>1. s \in Session /\ s \in Nat /\ s \in ended
      BY <1>1, <2>1 DEF Typed, Session
    <3>2. sess[s] = None /\ s <= logins
      BY <3>1 DEF Safe, Sessions
    <3>3. s # logins + 1
      BY <1>5, <3>1, <3>2
    <3> QED
      BY <1>5, <1>7, <3>1, <3>2, <3>3
  <2>2. ASSUME NEW s \in expired' PROVE s <= logins'
    <3>1. s \in Nat /\ s <= logins
      BY <1>1, <2>2 DEF Safe, Sessions, Typed, Session
    <3> QED
      BY <1>5, <1>7, <3>1
  <2> QED
    BY <1>8, <2>1, <2>2 DEF Sessions
<1>10. Counted'
  BY <1>4, <1>5, <1>7 DEF Counted
<1>11. Typed'
  BY <1>1, <1>2, <1>4, <1>5, <1>7, <1>8 DEF Typed, stateVars
<1> QED
  BY <1>1, <1>2, <1>4, <1>9, <1>10, <1>11
     DEF Safe, Directory, Ledger, stateVars

(* Sessions end or run out, and the ledger of states.                      *)
LEMMA OthersSafe ==
  ASSUME Typed, Safe,
         \/ \E s \in Session : Logout(s) \/ Expire(s) \/ DropExpired(s)
         \/ OAuthStart
         \/ \E st \in State : StateExpires(st)
  PROVE  Typed' /\ Safe'
<1>1. /\ UNCHANGED <<acctVars, req, served, restarts, crowded, logins>>
      /\ accts' = accts /\ acctFile' = acctFile
  BY DEF Logout, Expire, DropExpired, OAuthStart, StateExpires, acctVars, sessVars
<1>2. Directory' /\ Counted' /\ Alone'
  BY <1>1 DEF Safe, Directory, Admins, Counted, Busy, Alone, acctVars
<1>3. \A s \in Session : s \in Nat
  BY DEF Session
<1>4. ASSUME NEW s \in Session, Logout(s) PROVE Typed' /\ Safe'
  <2>1. s <= logins
    BY <1>3, <1>4 DEF Logout, Typed, Safe, Sessions
  <2>2. Typed'
    BY <1>1, <1>4 DEF Logout, Typed, stateVars
  <2>3. Sessions'
    BY <1>1, <1>4, <2>1 DEF Logout, Typed, Safe, Sessions
  <2> QED
    BY <1>1, <1>2, <1>4, <2>2, <2>3 DEF Logout, Safe, Ledger, stateVars
<1>5. ASSUME NEW s \in Session, Expire(s) PROVE Typed' /\ Safe'
  <2>1. Typed'
    BY <1>1, <1>5 DEF Expire, Typed, stateVars
  <2>2. Sessions'
    BY <1>1, <1>3, <1>5 DEF Expire, Typed, Safe, Sessions
  <2> QED
    BY <1>1, <1>2, <1>5, <2>1, <2>2 DEF Expire, Safe, Ledger, stateVars
<1>6. ASSUME NEW s \in Session, DropExpired(s) PROVE Typed' /\ Safe'
  <2>1. s <= logins /\ s \in expired
    BY <1>3, <1>6 DEF DropExpired, Typed, Safe, Sessions
  <2>2. Typed'
    BY <1>1, <1>6 DEF DropExpired, Typed, stateVars
  <2>3. Sessions'
    BY <1>1, <1>6, <2>1 DEF DropExpired, Typed, Safe, Sessions
  <2> QED
    BY <1>1, <1>2, <1>6, <2>2, <2>3 DEF DropExpired, Safe, Ledger, stateVars
<1>7. ASSUME UNCHANGED sessVars PROVE Sessions'
  BY <1>7 DEF Safe, Sessions, sessVars
<1>8. CASE OAuthStart
  <2>1. starts' = starts + 1 /\ starts' \in 0..MaxSignIns /\ starts' \in State
        /\ states' = states \cup {starts'} /\ redeemed' = redeemed /\ starts \in Nat
        /\ UNCHANGED sessVars
    BY <1>8, Bounds DEF OAuthStart, Typed, State
  <2>2. Ledger'
    BY <1>1, <2>1 DEF Typed, Safe, Ledger, State
  <2>3. Typed'
    BY <1>1, <2>1 DEF Typed, sessVars
  <2> QED
    BY <1>2, <1>7, <2>1, <2>2, <2>3 DEF Safe
<1>9. ASSUME NEW st \in State, StateExpires(st) PROVE Typed' /\ Safe'
  <2>1. Typed'
    BY <1>1, <1>9 DEF StateExpires, Typed, sessVars
  <2>2. Ledger'
    BY <1>1, <1>9 DEF StateExpires, Typed, Safe, Ledger
  <2> QED
    BY <1>2, <1>7, <1>9, <2>1, <2>2 DEF StateExpires, Safe
<1> QED
  BY <1>4, <1>5, <1>6, <1>8, <1>9

(* The server comes back with what its files hold.                         *)
LEMMA RestartSafe ==
  ASSUME Typed, Safe, Restart
  PROVE  Typed' /\ Safe'
<1>1. /\ accts' = Seeded(accts) /\ acctFile' = accts' /\ sess' = Loaded /\ sessFile' = sess'
      /\ states' = {} /\ req' = [q \in Request |-> Idle] /\ crowded' = {}
      /\ UNCHANGED <<logins, expired, ended, starts, redeemed, served>>
      /\ restarts' \in 0..MaxRestarts
  BY Bounds DEF Restart, Stored, Safe, Directory, Typed
<1>2. accts' \in [Account -> Row] 
  BY <1>1 DEF Seeded, Typed, Row, NoRow, KnownRoles
<1>3. \A s \in Session : sess'[s] = IF s \in expired THEN None ELSE sessFile[s]
  BY <1>1 DEF Loaded
<1>4. sess' \in [Session -> Account \cup {None}]
  BY <1>1 DEF Loaded, Typed
<1>5. Typed'
  BY <1>1, <1>2, <1>4, IdleType DEF Typed, WellFormed
<1>6. Directory'
  BY <1>1 DEF Directory
<1>7. Sessions'
  BY <1>1, <1>3 DEF Safe, Sessions, Typed
<1>8. Ledger'
  BY <1>1 DEF Safe, Ledger
<1>9. Busy' = {}
  BY <1>1, IdleType DEF Busy
<1>10. Counted'
  <2>1. Cardinality(Busy) \in Nat /\ logins \in Nat /\ served \in Nat
        /\ logins + Cardinality(Busy) <= served
    BY FS_CardinalityType DEF Safe, Counted, Typed
  <2>2. IsFiniteSet({}) /\ Cardinality({}) = 0
    BY FS_EmptySet
  <2> QED
    BY <1>1, <1>9, <2>1, <2>2 DEF Counted
<1>11. Alone'
  BY <1>1, IdleType DEF Alone
<1> QED
  BY <1>5, <1>6, <1>7, <1>8, <1>10, <1>11 DEF Safe

(* The server starts that way.                                             *)
LEMMA InitSafe == Init => Typed /\ Safe
<1> SUFFICES ASSUME Init PROVE Typed /\ Safe
  OBVIOUS
<1>1. Typed
  <2>1. accts \in [Account -> Row]
    BY DEF Init, Row, KnownRoles, NoRow
  <2> QED
    BY <2>1, Bounds, IdleType, FS_EmptySet DEF Init, Typed, WellFormed
<1>2. Directory
  BY DEF Init, Directory
<1>3. Sessions /\ Ledger
  BY DEF Init, Sessions, Ledger
<1>4. Busy = {}
  BY IdleType DEF Init, Busy
<1>5. Counted
  BY <1>4, FS_EmptySet DEF Init, Counted
<1>6. Alone
  BY IdleType DEF Init, Alone
<1> QED
  BY <1>1, <1>2, <1>3, <1>5, <1>6 DEF Safe

(* Every step keeps it.                                                    *)
LEMMA NextSafe == Typed /\ Safe /\ [Next]_vars => Typed' /\ Safe'
<1> SUFFICES ASSUME Typed, Safe, [Next]_vars PROVE Typed' /\ Safe'
  OBVIOUS
<1>1. CASE UNCHANGED vars
  BY <1>1 DEF vars, Typed, WellFormed, Safe, Directory, Admins,
              Sessions, Ledger, Counted, Busy, Alone, Careful, Faithful
<1>2. ASSUME NEW r \in Request, Handlers(r) \/ CountAdmins(r) PROVE Typed' /\ Safe'
  BY <1>2, HandlersTurn, TurnSafe
<1>3. CASE Next
  BY <1>2, <1>3, OperateSafe, CreateSafe, OthersSafe, RestartSafe DEF Next, Steps
<1> QED
  BY <1>1, <1>3

(* So it always holds.                                                     *)
LEMMA AlwaysSafe == Spec => [](Typed /\ Safe)
BY InitSafe, NextSafe, PTL DEF Spec

-----------------------------------------------------------------------------
(* Every variable keeps its type; in particular no more sessions start than *)
(* requests were served.                                                   *)
THEOREM TypeCorrect == Spec => []TypeOK
<1>1. Typed /\ Safe => TypeOK
  <2> SUFFICES ASSUME Typed, Safe PROVE TypeOK
    OBVIOUS
  <2>1. logins \in 0..MaxRequests
    <3>1. Cardinality(Busy) \in Nat /\ logins \in Nat /\ served \in 0..MaxRequests
          /\ logins + Cardinality(Busy) <= served
      BY FS_CardinalityType DEF Safe, Counted, Typed
    <3> QED
      BY <3>1, Bounds
  <2>2. redeemed \in [State -> 0..MaxRequests]
    <3>1. ASSUME NEW st \in State PROVE redeemed[st] \in 0..MaxRequests
      BY Bounds DEF Typed, Safe, Ledger
    <3> QED
      BY <3>1 DEF Typed
  <2> QED
    BY <2>1, <2>2 DEF Typed, TypeOK
<1> QED
  BY <1>1, AlwaysSafe, PTL

(* A request that has the server to itself changes no role, and makes no   *)
(* admin, but where an admin asked for it: only a row that was read, and   *)
(* overtaken by another request before it is written back, undoes what     *)
(* admins decided (handler_oauth.go: oauthCallback; handler_gateway.go;    *)
(* handler_admin_accounts.go: adminUpdateAccount).                         *)
THEOREM RolesAreAsked == Spec => OnlyRacesRegrade
<1> DEFINE Asks == \A a \in Account : Regraded(a) =>
              \/ a \in Seeds /\ ~Has(a) /\ restarts' # restarts
              \/ \E r \in Request : /\ req[r].pc = "put" /\ req[r].acct = a
                                    /\ req[r].asked \/ r \in crowded
<1>1. Typed /\ Safe /\ [Next]_vars => [Asks]_vars
  <2> SUFFICES ASSUME Typed, Safe, [Next]_vars PROVE Asks
    OBVIOUS
  <2>1. ASSUME accts' = accts PROVE Asks
    BY <2>1 DEF Regraded, Has
  <2>2. ASSUME NEW r \in Request, Put(r) PROVE Asks
    <3>1. CASE UNCHANGED acctVars
      BY <2>1, <3>1 DEF acctVars
    <3>2. CASE Stored(Upserted(req[r].acct, req[r].role))
      <4>1. WellFormed(req[r]) /\ req[r].pc = "put" /\ req[r].acct \in Account
            /\ req[r].role \in KnownRoles
        BY <2>2 DEF Put, Typed, WellFormed
      <4>2. \A a \in Account :
              accts'[a].role = IF a = req[r].acct THEN req[r].role ELSE accts[a].role
        BY <3>2, <4>1 DEF Stored, Upserted, Typed, Row, NoRow
      <4>3. SUFFICES ASSUME NEW a \in Account, Regraded(a)
                     PROVE  req[r].acct = a /\ (req[r].asked \/ r \in crowded)
        BY <4>1
      <4>4. req[r].acct = a
        BY <4>2, <4>3 DEF Regraded, Has
      <4>5. SUFFICES ASSUME r \notin crowded, ~req[r].asked PROVE FALSE
        BY <4>4
      <4>6. Faithful(req[r], accts)
        BY <4>1, <4>5 DEF Safe, Alone
      <4> QED
        BY <4>1, <4>2, <4>3, <4>4, <4>5, <4>6 DEF Faithful, Regraded, Has
    <3> QED
      BY <2>2, <3>1, <3>2 DEF Put
  <2>3. ASSUME NEW r \in Request, Remove(r) PROVE Asks
    <3>1. CASE UNCHANGED acctVars
      BY <2>1, <3>1 DEF acctVars
    <3>2. CASE Stored(Removed(req[r].acct))
      <4>1. \A a \in Account : accts'[a].role \in {None, accts[a].role}
        BY <3>2 DEF Stored, Removed, NoRow, Typed
      <4> QED
        BY <4>1 DEF Regraded
    <3> QED
      BY <2>3, <3>1, <3>2 DEF Remove
  <2>4. ASSUME NEW r \in Request, SetPassword(r) PROVE Asks
    <3>1. CASE UNCHANGED acctVars
      BY <2>1, <3>1 DEF acctVars
    <3>2. CASE Stored([accts EXCEPT ![req[r].acct].pw = req[r].pw])
      <4>1. \A a \in Account : accts'[a].role = accts[a].role
        BY <3>2 DEF Stored, Typed, Row, NoRow
      <4> QED
        BY <4>1 DEF Regraded
    <3> QED
      BY <2>4, <3>1, <3>2 DEF SetPassword
  <2>5. CASE Restart
    <3>1. accts' = Seeded(accts) /\ restarts' = restarts + 1 /\ restarts \in Nat
      BY <2>5 DEF Restart, Stored, Safe, Directory, Typed
    <3>2. restarts' # restarts
      BY <3>1
    <3>3. ASSUME NEW a \in Account, Regraded(a) PROVE a \in Seeds /\ ~Has(a)
      BY <3>1, <3>3 DEF Seeded, Regraded, Has
    <3> QED
      BY <3>2, <3>3
  <2>6. ASSUME NEW r \in Request, Handlers(r) \/ CountAdmins(r) PROVE Asks
    <3>1. accts' = accts
      BY <2>6, HandlersTurn DEF Turn, acctVars
    <3> QED
      BY <2>1, <3>1
  <2>7. ASSUME \/ \E r \in Request : CreateSession(r)
               \/ \E s \in Session : Logout(s) \/ Expire(s) \/ DropExpired(s)
               \/ OAuthStart
               \/ \E st \in State : StateExpires(st)
               \/ UNCHANGED vars
        PROVE  Asks
    <3>1. accts' = accts
      BY <2>7 DEF CreateSession, Logout, Expire, DropExpired, OAuthStart, StateExpires, acctVars, vars
    <3> QED
      BY <2>1, <3>1
  <2> HIDE DEF Asks
  <2> QED
    BY <2>2, <2>3, <2>4, <2>5, <2>6, <2>7 DEF Next, Steps
<1> HIDE DEF Asks
<1>2. Spec => [][Asks]_vars
  BY <1>1, AlwaysSafe, PTL DEF Spec
<1> QED
  BY <1>2 DEF OnlyRacesRegrade, Asks

(* What the two sealed files hold is what the server works with, sessions  *)
(* that ran out aside (accounts/store.go, auth/session.go).                *)
THEOREM FilesAreCurrent == Spec => []FilesFollowMemory
<1>1. Safe => FilesFollowMemory
  BY DEF Safe, Directory, Sessions, FilesFollowMemory
<1> QED
  BY <1>1, AlwaysSafe, PTL

(* A session that ended stays ended over restarts (auth/session.go).       *)
THEOREM SessionsStayEnded == Spec => []EndedStaysEnded
<1>1. Safe => EndedStaysEnded
  BY DEF Safe, Sessions, EndedStaysEnded
<1> QED
  BY <1>1, AlwaysSafe, PTL

(* A state of the ledger lets one callback through (auth/oauth/state.go).  *)
THEOREM StatesAreSpentOnce == Spec => []StateSpentOnce
<1>1. Typed => StateSpentOnce
  BY DEF Typed, StateSpentOnce
<1> QED
  BY <1>1, AlwaysSafe, PTL

(* No step but SetPassword replaces a stored password (accounts/store.go:  *)
(* Put, SetPassword).                                                      *)
THEOREM PasswordsAreKept == Spec => PasswordKept
<1> DEFINE Keeps == \A a \in Account :
              accts[a].pw # None /\ accts'[a].pw # accts[a].pw =>
                \/ accts'[a] = NoRow
                \/ \E r \in Request : /\ req[r].pc \in {"setpw", "regpw"} /\ req[r].acct = a
                                      /\ accts'[a].pw = req[r].pw
<1>1. Typed /\ Safe /\ [Next]_vars => [Keeps]_vars
  <2> SUFFICES ASSUME Typed, Safe, [Next]_vars PROVE Keeps
    OBVIOUS
  <2>1. ASSUME accts' = accts PROVE Keeps
    BY <2>1
  <2>2. ASSUME NEW r \in Request, Put(r) PROVE Keeps
    <3>1. CASE UNCHANGED acctVars
      BY <2>1, <3>1 DEF acctVars
    <3>2. CASE Stored(Upserted(req[r].acct, req[r].role))
      BY <3>2 DEF Stored, Upserted, Typed, Row, NoRow
    <3> QED
      BY <2>2, <3>1, <3>2 DEF Put
  <2>3. ASSUME NEW r \in Request, Remove(r) PROVE Keeps
    <3>1. CASE UNCHANGED acctVars
      BY <2>1, <3>1 DEF acctVars
    <3>2. CASE Stored(Removed(req[r].acct))
      BY <3>2 DEF Stored, Removed, Typed
    <3> QED
      BY <2>3, <3>1, <3>2 DEF Remove
  <2>4. ASSUME NEW r \in Request, SetPassword(r) PROVE Keeps
    <3>1. CASE UNCHANGED acctVars
      BY <2>1, <3>1 DEF acctVars
    <3>2. CASE Stored([accts EXCEPT ![req[r].acct].pw = req[r].pw])
      <4>1. ASSUME NEW a \in Account, accts'[a].pw # accts[a].pw
            PROVE  req[r].acct = a /\ accts'[a].pw = req[r].pw
        BY <3>2, <4>1 DEF Stored, Typed, Row, NoRow
      <4> QED
        BY <2>4, <4>1 DEF SetPassword
    <3> QED
      BY <2>4, <3>1, <3>2 DEF SetPassword
  <2>5. CASE Restart
    <3>1. accts' = Seeded(accts)
      BY <2>5 DEF Restart, Stored, Safe, Directory
    <3>2. ASSUME NEW a \in Account, accts[a].pw # None PROVE accts'[a] = accts[a]
      BY <3>1, <3>2, NoneIsNoRole DEF Seeded, Typed, Row, NoRow
    <3> QED
      BY <3>2
  <2>6. ASSUME NEW r \in Request, Handlers(r) \/ CountAdmins(r) PROVE Keeps
    <3>1. accts' = accts
      BY <2>6, HandlersTurn DEF Turn, acctVars
    <3> QED
      BY <2>1, <3>1
  <2>7. ASSUME \/ \E r \in Request : CreateSession(r)
               \/ \E s \in Session : Logout(s) \/ Expire(s) \/ DropExpired(s)
               \/ OAuthStart
               \/ \E st \in State : StateExpires(st)
               \/ UNCHANGED vars
        PROVE  Keeps
    <3>1. accts' = accts
      BY <2>7 DEF CreateSession, Logout, Expire, DropExpired, OAuthStart, StateExpires, acctVars, vars
    <3> QED
      BY <2>1, <3>1
  <2> HIDE DEF Keeps
  <2> QED
    BY <2>2, <2>3, <2>4, <2>5, <2>6, <2>7 DEF Next, Steps
<1> HIDE DEF Keeps
<1>2. Spec => [][Keeps]_vars
  BY <1>1, AlwaysSafe, PTL DEF Spec
<1> QED
  BY <1>2 DEF PasswordKept, Keeps

(* Only requests that overlap can leave the server without an admin: one   *)
(* that runs alone counted them, and nobody changed them since             *)
(* (handler_admin_accounts.go: countAdmins).                               *)
THEOREM OneRequestKeepsAnAdmin == Spec => OnlyRacesEmptyAdmins
<1> DEFINE Races == Admins # {} /\ Admins' = {} => Busy \cap crowded # {}
<1>1. Typed /\ Safe /\ [Next]_vars => [Races]_vars
  <2> SUFFICES ASSUME Typed, Safe, [Next]_vars, Admins # {}, Admins' = {}
               PROVE  Busy \cap crowded # {}
    OBVIOUS
  <2>1. accts' # accts
    BY DEF Admins
  <2>2. ~ UNCHANGED acctVars
    BY <2>1 DEF acctVars
  <2>3. ~ Restart
    <3>1. SUFFICES ASSUME Restart PROVE FALSE
      OBVIOUS
    <3>2. accts' = Seeded(accts)
      BY <3>1 DEF Restart, Stored, Safe, Directory
    <3> QED
      BY <3>2, NoneIsNoRole DEF Seeded, Admins, KnownRoles
  <2>4. \E r \in Request : Put(r) \/ Remove(r) \/ SetPassword(r)
    <3>1. ASSUME NEW r \in Request PROVE ~(Handlers(r) \/ CountAdmins(r))
      BY <2>1, HandlersTurn DEF Turn, acctVars
    <3>2. ~ \/ \E r \in Request : CreateSession(r)
            \/ \E s \in Session : Logout(s) \/ Expire(s) \/ DropExpired(s)
            \/ OAuthStart
            \/ \E st \in State : StateExpires(st)
            \/ UNCHANGED vars
      BY <2>1 DEF CreateSession, Logout, Expire, DropExpired, OAuthStart, StateExpires, acctVars, vars
    <3> QED
      BY <2>3, <3>1, <3>2 DEF Next, Steps
  <2>5. PICK r \in Request : Put(r) \/ Remove(r) \/ SetPassword(r)
    BY <2>4
  <2>6. r \in Busy /\ WellFormed(req[r]) /\ req[r].acct \in Account
    BY <2>5 DEF Put, Remove, SetPassword, Busy, Typed, WellFormed
  <2>7. SUFFICES ASSUME r \notin crowded PROVE FALSE
    BY <2>6
  <2>8. Careful(req[r], Admins)
    BY <2>6, <2>7 DEF Safe, Alone, Busy
  <2>9. CASE Put(r)
    <3>1. accts' = [accts EXCEPT ![req[r].acct].role = req[r].role] /\ req[r].pc = "put"
      BY <2>2, <2>9 DEF Put, Stored, Upserted
    <3>2. \A a \in Account : accts'[a].role = IF a = req[r].acct THEN req[r].role ELSE accts[a].role
      BY <2>6, <3>1 DEF Typed, Row, NoRow
    <3> QED
      BY <2>6, <2>8, <3>1, <3>2 DEF Admins, Careful
  <2>10. CASE Remove(r)
    <3>1. accts' = [accts EXCEPT ![req[r].acct] = NoRow] /\ req[r].pc = "remove"
      BY <2>2, <2>10 DEF Remove, Stored, Removed
    <3>2. \A a \in Account : a # req[r].acct => accts'[a] = accts[a]
      BY <3>1 DEF Typed
    <3> QED
      BY <2>6, <2>8, <3>1, <3>2 DEF Admins, Careful
  <2>11. CASE SetPassword(r)
    <3>1. accts' = [accts EXCEPT ![req[r].acct].pw = req[r].pw]
      BY <2>2, <2>11 DEF SetPassword, Stored
    <3>2. \A a \in Account : accts'[a].role = accts[a].role
      BY <2>6, <3>1 DEF Typed, Row, NoRow
    <3> QED
      BY <3>2 DEF Admins
  <2> QED
    BY <2>5, <2>9, <2>10, <2>11
<1> HIDE DEF Races
<1>2. Spec => [][Races]_vars
  BY <1>1, AlwaysSafe, PTL DEF Spec
<1> QED
  BY <1>2 DEF OnlyRacesEmptyAdmins, Races
=============================================================================
