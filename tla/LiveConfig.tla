----------------------------- MODULE LiveConfig -----------------------------
(***************************************************************************)
(* The configuration that admins change while the server runs, and what it *)
(* governs: the slots of the pushes, the poller of remote statuses, the    *)
(* gateway in the chain of authentication strategies.                      *)
(*                                                                         *)
(* A PATCH of the limits or of the mirror settings changes s.cfg, applies  *)
(* the change, and writes all of s.cfg to the file, holding no lock but    *)
(* the one under which the poller is swapped.  A PATCH of the              *)
(* authentication does so under authMu, which the others do not take.  The *)
(* file is truncated and filled, not replaced.                             *)
(***************************************************************************)
EXTENDS Naturals, FiniteSets

CONSTANTS
  Admin,       \* the goroutines that serve the PATCH requests of admins
  Push,        \* the goroutines that serve git-receive-pack
  Slots,       \* the numbers of push slots that admins ask for
  MaxPatches,  \* bound on the PATCH requests
  MaxPushes    \* bound on the pushes

Nobody == "nobody"
ASSUME LiveConfigAssumption ==
  /\ Slots \subseteq Nat \ {0} /\ Slots # {}
  /\ Admin \cap Push = {} /\ Nobody \notin Admin
  /\ MaxPatches \in Nat /\ MaxPushes \in Nat

VARIABLES
  cfg,       \* s.cfg: the number of slots, whether to poll, whether to trust
             \* the gateway
  file,      \* what the file says, or Torn
  pool,      \* the slotPool
  holds,     \* the pushes between TryAcquire and Release
  inFlight, tracked,  \* the loadTracker's count, and the pushes it counts
  gateway,   \* whether the chain holds the gateway strategy
  authMu,    \* the admin who holds it
  pollMu,
  pollers,   \* the pollers whose goroutine runs: their number, and whether
             \* they check a destination
  statusPoller, started,  \* the number of s.statusPoller, 0 if there is none;
             \* how many were started
  patch,     \* what each admin's request is doing
  running,   \* whether the server runs
  patches, pushes,  \* how many more there may be
  overlapped,  \* the requests that had company while they ran
  apart      \* what a race, a failed write or a crash left different

pushVars == <<pool, holds, inFlight, tracked, pushes>>
pollVars == <<pollers, statusPoller, started>>
runVars == <<running, patches, overlapped, apart>>
configVars == <<cfg, file, pushVars, gateway, authMu, pollMu, pollVars, patch, runVars>>

Torn == [torn |-> TRUE]  \* no configuration
Rest == [pc |-> "idle", want |-> 0, copy |-> Torn, kind |-> Nobody]

Patching == {a \in Admin : patch[a].pc # "idle"}

\* A file written by hand may ask for no slot, or fewer; 0 stands for those.
Setting == [slots : Slots \cup {0}, poll : BOOLEAN, gateway : BOOLEAN]

\* newSlotPool and Resize: a pool has one slot at least.
Clamped(n) == IF n < 1 THEN 1 ELSE n

Loaded(c) ==
  /\ cfg = c /\ gateway = c.gateway
  /\ pool = [inUse |-> 0, capacity |-> Clamped(c.slots)]
  /\ pollers = (IF c.poll THEN {[n |-> 1, checks |-> FALSE]} ELSE {})
  /\ statusPoller = (IF c.poll THEN 1 ELSE 0) /\ started = 1

ConfigInit ==
  /\ \E c \in Setting : file = c /\ Loaded(c)
  /\ holds = {} /\ inFlight = 0 /\ tracked = {} /\ pushes \in 0..MaxPushes
  /\ authMu = Nobody /\ pollMu = Nobody
  /\ patch = [a \in Admin |-> Rest]
  /\ running = TRUE /\ patches \in 0..MaxPatches /\ overlapped = {} /\ apart = {}

-----------------------------------------------------------------------------
(* The slots of the pushes (slotPool, loadTracker).                        *)

TryAcquire == pool.inUse < pool.capacity

\* handleGitRouter lets the push in; a full pool is answered 429 and changes
\* nothing.
Admit(p) ==
  /\ running /\ p \notin holds /\ pushes > 0
  /\ TryAcquire
  /\ pool' = [pool EXCEPT !.inUse = @ + 1]
  /\ holds' = holds \cup {p} /\ pushes' = pushes - 1
  /\ UNCHANGED <<cfg, file, inFlight, tracked, gateway, authMu, pollMu, pollVars, patch, runVars>>

Track(p) ==
  /\ p \in holds \ tracked
  /\ inFlight' = inFlight + 1 /\ tracked' = tracked \cup {p}
  /\ UNCHANGED <<cfg, file, pool, holds, pushes, gateway, authMu, pollMu, pollVars, patch, runVars>>

\* The deferred End and Release, the handler having returned.
Finish(p) ==
  /\ p \in tracked
  /\ inFlight' = (IF inFlight > 0 THEN inFlight - 1 ELSE 0)
  /\ tracked' = tracked \ {p} /\ holds' = holds \ {p}
  /\ pool' = [pool EXCEPT !.inUse = IF @ > 0 THEN @ - 1 ELSE 0]
  /\ UNCHANGED <<cfg, file, pushes, gateway, authMu, pollMu, pollVars, patch, runVars>>

\* Mutant: a new pool replaces the old one.
ResizeAnew(n) == pool' = [inUse |-> 0, capacity |-> Clamped(n)]

Resize(n) == pool' = [pool EXCEPT !.capacity = Clamped(n)]

-----------------------------------------------------------------------------
(* The PATCH requests.                                                     *)

BeginPatch(a, job) ==
  /\ running /\ patch[a].pc = "idle" /\ patches > 0
  /\ patches' = patches - 1
  /\ patch' = [patch EXCEPT ![a] = job]
  /\ overlapped' = IF Patching = {} THEN overlapped ELSE overlapped \cup Patching \cup {a}
  /\ UNCHANGED running

Step(a, job) ==
  /\ patch' = [patch EXCEPT ![a] = job]
  /\ overlapped' = IF job.pc = "idle" THEN overlapped \ {a} ELSE overlapped
  /\ UNCHANGED <<running, patches>>

\* What the last step of two overlapping requests left may not be what either
\* asked for.
Strays(a, what) == apart' = IF a \in overlapped THEN apart \cup {what} ELSE apart \ {what}

\* adminPatchLimits
PatchLimits(a, n) ==
  /\ BeginPatch(a, [Rest EXCEPT !.pc = "resize", !.want = n, !.kind = "slots"])
  /\ cfg' = [cfg EXCEPT !.slots = n]
  /\ UNCHANGED <<file, pushVars, gateway, authMu, pollMu, pollVars, apart>>

ApplyLimits(a) ==
  /\ patch[a].pc = "resize"
  /\ Resize(patch[a].want)
  /\ Step(a, [patch[a] EXCEPT !.pc = "marshal"])
  /\ Strays(a, "slots")
  /\ UNCHANGED <<cfg, file, holds, inFlight, tracked, pushes, gateway, authMu, pollMu, pollVars>>

\* adminPatchMirror; a cadence is 1, or 0 to stop polling.
PatchMirror(a, n) ==
  /\ BeginPatch(a, [Rest EXCEPT !.pc = "swap", !.want = n, !.kind = "poll"])
  /\ cfg' = [cfg EXCEPT !.poll = n = 1]
  /\ UNCHANGED <<file, pushVars, gateway, authMu, pollMu, pollVars, apart>>

\* swapStatusPoller: the lock is taken and the poller told to stop,
StopPoller(a) ==
  /\ patch[a].pc = "swap" /\ pollMu = Nobody
  /\ pollMu' = a
  /\ Step(a, [patch[a] EXCEPT !.pc = "wait"])
  /\ UNCHANGED <<cfg, file, pushVars, gateway, authMu, pollVars, apart>>

Stopped(n) == \E a \in Admin : patch[a].pc = "wait" /\ pollMu = a /\ statusPoller = n

\* Mutant: the new poller does not wait for the old one.
GoneOrGoing == TRUE

Gone == \A q \in pollers : q.n # statusPoller

\* and once its goroutine is gone the next one starts.
SwapPoller(a) ==
  /\ patch[a].pc = "wait" /\ Gone
  /\ IF patch[a].want = 0
     THEN statusPoller' = 0 /\ UNCHANGED <<pollers, started>>
     ELSE /\ started' = started + 1 /\ statusPoller' = started + 1
          /\ pollers' = pollers \cup {[n |-> started + 1, checks |-> FALSE]}
  /\ pollMu' = Nobody
  /\ Step(a, [patch[a] EXCEPT !.pc = "marshal"])
  /\ Strays(a, "poll")
  /\ UNCHANGED <<cfg, file, pushVars, gateway, authMu>>

\* ReloadAuth: what cannot be built changes nothing.
PatchAuth(a, n) ==
  /\ BeginPatch(a, [Rest EXCEPT !.pc = "build", !.want = n, !.kind = "gateway"])
  /\ UNCHANGED <<cfg, file, pushVars, gateway, authMu, pollMu, pollVars, apart>>

BuildAuth(a) ==
  /\ patch[a].pc = "build"
  /\ \E pc \in {"idle", "chain"} : Step(a, [patch[a] EXCEPT !.pc = pc])
  /\ UNCHANGED <<cfg, file, pushVars, gateway, authMu, pollMu, pollVars, apart>>

\* Mutant: a gateway that is switched off stays in the chain.
ChainKept(n) == gateway \/ n = 1

\* Replace, Register or Remove
NewChain(n) == n = 1

\* The chain changes at once, the configuration after it.
SwapChain(a) ==
  /\ patch[a].pc = "chain" /\ authMu = Nobody
  /\ authMu' = a
  /\ gateway' = NewChain(patch[a].want)
  /\ Step(a, [patch[a] EXCEPT !.pc = "config"])
  /\ UNCHANGED <<cfg, file, pushVars, pollMu, pollVars, apart>>

SetAuth(a) ==
  /\ patch[a].pc = "config"
  /\ cfg' = [cfg EXCEPT !.gateway = patch[a].want = 1]
  /\ Step(a, [patch[a] EXCEPT !.pc = "marshal"])
  /\ UNCHANGED <<file, pushVars, gateway, authMu, pollMu, pollVars, apart>>

-----------------------------------------------------------------------------
(* Config.Save.                                                            *)

\* The fields are read one after the other.
Marshal(a) ==
  /\ patch[a].pc = "marshal"
  /\ Step(a, [patch[a] EXCEPT !.pc = "rest", !.copy = cfg])
  /\ UNCHANGED <<cfg, file, pushVars, gateway, authMu, pollMu, pollVars, apart>>

MarshalRest(a) ==
  /\ patch[a].pc = "rest"
  /\ Step(a, [patch[a] EXCEPT !.pc = "open",
                !.copy = [cfg EXCEPT !.gateway = patch[a].copy.gateway]])
  /\ UNCHANGED <<cfg, file, pushVars, gateway, authMu, pollMu, pollVars, apart>>

\* What the answer leaves behind: the lock of ReloadAuth is released.
Answered(a, left) ==
  /\ Step(a, Rest)
  /\ authMu' = IF authMu = a THEN Nobody ELSE authMu
  /\ apart' = left

\* The file is opened and emptied; what cannot be opened stays as it is.
OpenFile(a) ==
  /\ patch[a].pc = "open"
  /\ \/ /\ file' = Torn
        /\ Step(a, [patch[a] EXCEPT !.pc = "write"])
        /\ UNCHANGED <<authMu, apart>>
     \/ Answered(a, apart \cup {"file"}) /\ UNCHANGED file
  /\ UNCHANGED <<cfg, pushVars, gateway, pollMu, pollVars>>

\* Over what another request wrote in the meantime the end of its longer text
\* may remain.
Written(a) == IF file = Torn THEN {patch[a].copy} ELSE {patch[a].copy, Torn}

Left(a) == IF a \in overlapped THEN apart \cup {"file"} ELSE apart \ {"file"}

WriteFile(a) ==
  /\ patch[a].pc = "write"
  /\ \/ /\ \E w \in Written(a) : file' = w
        /\ Answered(a, Left(a))
     \/ file' = Torn /\ Answered(a, apart \cup {"file"})
  /\ UNCHANGED <<cfg, pushVars, gateway, pollMu, pollVars>>

-----------------------------------------------------------------------------
(* The poller.                                                             *)

\* mirrorStatusPoller.run and tick: a check begins unless the poller was told
\* to stop,
BeginCheck(q) ==
  /\ running /\ q \in pollers /\ ~q.checks /\ ~Stopped(q.n)
  /\ pollers' = (pollers \ {q}) \cup {[q EXCEPT !.checks = TRUE]}
  /\ UNCHANGED <<cfg, file, pushVars, gateway, authMu, pollMu, statusPoller, started, patch, runVars>>

\* ends or is killed,
EndCheck(q) ==
  /\ q \in pollers /\ q.checks
  /\ pollers' = (pollers \ {q}) \cup {[q EXCEPT !.checks = FALSE]}
  /\ UNCHANGED <<cfg, file, pushVars, gateway, authMu, pollMu, statusPoller, started, patch, runVars>>

\* and a poller that was told to stop returns.
PollerReturns(q) ==
  /\ q \in pollers /\ ~q.checks /\ Stopped(q.n)
  /\ pollers' = pollers \ {q}
  /\ UNCHANGED <<cfg, file, pushVars, gateway, authMu, pollMu, statusPoller, started, patch, runVars>>

-----------------------------------------------------------------------------
(* The server stops in the middle of anything, and starts from the file.   *)

ConfigStop ==
  /\ running /\ running' = FALSE
  /\ holds' = {} /\ inFlight' = 0 /\ tracked' = {}
  /\ pool' = [pool EXCEPT !.inUse = 0]
  /\ authMu' = Nobody /\ pollMu' = Nobody
  /\ pollers' = {} /\ statusPoller' = 0
  /\ patch' = [a \in Admin |-> Rest] /\ overlapped' = {}
  /\ UNCHANGED <<cfg, file, gateway, started, patches, pushes, apart>>

\* Load refuses a file it cannot parse.
ConfigStart ==
  /\ ~running /\ file # Torn /\ running' = TRUE
  /\ cfg' = file /\ gateway' = file.gateway
  /\ pool' = [inUse |-> 0, capacity |-> Clamped(file.slots)]
  /\ IF file.poll
     THEN /\ started' = started + 1 /\ statusPoller' = started + 1
          /\ pollers' = {[n |-> started + 1, checks |-> FALSE]}
     ELSE UNCHANGED pollVars
  /\ apart' = {}
  /\ UNCHANGED <<file, holds, inFlight, tracked, pushes, authMu, pollMu, patch, patches, overlapped>>

-----------------------------------------------------------------------------
Patches(a) ==
  \/ \E n \in Slots : PatchLimits(a, n)
  \/ \E n \in {0, 1} : PatchMirror(a, n) \/ PatchAuth(a, n)

PatchSteps(a) ==
  ApplyLimits(a) \/ StopPoller(a) \/ SwapPoller(a) \/ BuildAuth(a) \/ SwapChain(a)
    \/ SetAuth(a) \/ Marshal(a) \/ MarshalRest(a) \/ OpenFile(a) \/ WriteFile(a)

Polls == \E q \in pollers : BeginCheck(q) \/ EndCheck(q) \/ PollerReturns(q)

ConfigNext ==
  \/ \E a \in Admin : Patches(a) \/ PatchSteps(a)
  \/ \E p \in Push : Admit(p) \/ Track(p) \/ Finish(p)
  \/ Polls

-----------------------------------------------------------------------------
(* Properties.                                                             *)

ConfigTypeOK ==
  /\ cfg \in Setting /\ file \in Setting \cup {Torn}
  /\ pool \in [inUse : Nat, capacity : Slots \cup {1}]
  /\ tracked \subseteq holds /\ holds \subseteq Push
  /\ authMu \in Admin \cup {Nobody} /\ pollMu \in Admin \cup {Nobody}
  /\ overlapped \subseteq Patching
  /\ \A q \in pollers : q.n <= started

\* No push runs without its slot or keeps one, and no step admits a push to a
\* pool that is full, whatever admins do to its size in between
\* (slot_pool.go; router.go: handleGitRouter).
SlotsAccounted ==
  [][/\ pool'.inUse = Cardinality(holds') /\ inFlight' = Cardinality(tracked')
     /\ Cardinality(holds') > Cardinality(holds) =>
          Cardinality(holds') <= pool.capacity]_configVars

\* One poller at a time talks to the remotes, and none is left behind that no
\* request can stop (handler_admin_mirror.go: swapStatusPoller).
OnePoller ==
  /\ Cardinality(pollers) <= 1
  /\ \A q \in pollers : q.n = statusPoller

\* With no PATCH at work, the slots, the poller and the chain are what the
\* configuration says, and the file says the same, except for what requests
\* that overlapped, a failed write or a stop left apart
\* (handler_admin_limits.go, handler_admin_mirror.go, server.go: ReloadAuth).
LiveAsConfigured ==
  Patching = {} /\ running =>
    /\ pool.capacity = Clamped(cfg.slots) \/ "slots" \in apart
    /\ (statusPoller # 0) = cfg.poll \/ "poll" \in apart
    /\ gateway = cfg.gateway
    /\ file = cfg \/ "file" \in apart
=============================================================================
