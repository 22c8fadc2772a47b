---------------------------- MODULE ServerProofs ----------------------------
(***************************************************************************)
(* Theorems about Server, and the two components it is made of, for any    *)
(* admins, pushes, writers and branches, and behaviours of any length.     *)
(***************************************************************************)
EXTENDS Server, FiniteSetTheorems, SequenceTheorems, TLAPS

\* What a step of the server is to each of the two.
ConfigMoves == ConfigNext \/ ConfigStop \/ ConfigStart \/ UNCHANGED configVars
AuditMoves ==
  \/ AuditNext \/ AuditBoot \/ AuditServe \/ AuditStop \/ UNCHANGED auditVars
  \/ \E p \in Pusher : BeginPush(p) \/ Received(p)

(* A step of the server is a step of both.                                 *)
LEMMA NextMoves ==
  ASSUME [Next]_vars
  PROVE  ConfigMoves /\ AuditMoves
<1> USE ServerAssumption DEF ConfigMoves, AuditMoves
<1>1. CASE ConfigSteps /\ UNCHANGED <<auditVars, stops>>
  BY <1>1 DEF ConfigSteps, ConfigNext
<1>2. CASE AuditNext /\ UNCHANGED <<configVars, stops>>
  BY <1>2
<1>3. ASSUME NEW p \in Push, StartPush(p) \/ EndPush(p) \/ FinishPush(p)
      PROVE  ConfigMoves /\ AuditMoves
  BY <1>3 DEF StartPush, EndPush, FinishPush, ConfigNext
<1>4. CASE (AuditBoot /\ UNCHANGED <<configVars, stops>>) \/ Stop \/ Serve
  BY <1>4 DEF Stop, Serve
<1>5. CASE UNCHANGED vars
  BY <1>5 DEF vars
<1> QED
  BY <1>1, <1>2, <1>3, <1>4, <1>5 DEF Next

-----------------------------------------------------------------------------
(* A server that is stopped does nothing.                                  *)

Halted ==
  /\ tracked \subseteq holds
  /\ ~running => /\ holds = {} /\ Patching = {} /\ overlapped = {}
                 /\ pollers = {} /\ statusPoller = 0

(* It does nothing until it starts.                                        *)
LEMMA MovesHalted ==
  ASSUME Halted, ConfigMoves
  PROVE  /\ ~running' => /\ holds' = {} /\ Patching' = {} /\ overlapped' = {}
                         /\ pollers' = {} /\ statusPoller' = 0
         /\ ~running => ConfigStart \/ UNCHANGED configVars
<1>1. CASE ~running
  <2>1. ~ConfigStop
    BY <1>1 DEF ConfigStop
  <2>2. ASSUME NEW a \in Admin PROVE ~Patches(a) /\ ~PatchSteps(a)
    <3>1. patch[a].pc = "idle"
      BY <1>1 DEF Halted, Patching
    <3> QED
      BY <1>1, <3>1 DEF Patches, PatchLimits, PatchMirror, PatchAuth, BeginPatch, PatchSteps,
         ApplyLimits, StopPoller, SwapPoller, BuildAuth, SwapChain, SetAuth, Marshal,
         MarshalRest, OpenFile, WriteFile
  <2>3. \A p \in Push : ~Admit(p) /\ ~Track(p) /\ ~Finish(p)
    BY <1>1 DEF Halted, Admit, Track, Finish
  <2>4. ~Polls
    BY <1>1 DEF Halted, Polls
  <2>5. ConfigStart \/ UNCHANGED configVars
    BY <2>1, <2>2, <2>3, <2>4 DEF ConfigMoves, ConfigNext
  <2>6. CASE ConfigStart
    BY <1>1, <2>6 DEF ConfigStart
  <2>7. CASE UNCHANGED configVars
    BY <1>1, <2>7 DEF Halted, Patching, configVars, pushVars, pollVars, runVars
  <2> QED
    BY <2>5, <2>6, <2>7
<1>2. CASE running
  <2>1. CASE ConfigStop
    BY <2>1 DEF ConfigStop, Patching, Rest
  <2>2. CASE ~ConfigStop
    <3>1. ASSUME NEW a \in Admin, Patches(a) \/ PatchSteps(a) PROVE running'
      BY <1>2, <3>1 DEF Patches, PatchLimits, PatchMirror, PatchAuth, BeginPatch, PatchSteps,
         ApplyLimits, StopPoller, SwapPoller, BuildAuth, SwapChain, SetAuth, Marshal,
         MarshalRest, OpenFile, WriteFile, Answered, Step
    <3>2. ASSUME NEW p \in Push, Admit(p) \/ Track(p) \/ Finish(p) PROVE running'
      BY <1>2, <3>2 DEF Admit, Track, Finish, runVars
    <3>3. ASSUME Polls PROVE running'
      BY <1>2, <3>3 DEF Polls, BeginCheck, EndCheck, PollerReturns, runVars
    <3>4. ASSUME ConfigStart \/ UNCHANGED configVars PROVE running'
      BY <1>2, <3>4 DEF ConfigStart, configVars, runVars
    <3> QED
      BY <1>2, <2>2, <3>1, <3>2, <3>3, <3>4 DEF ConfigMoves, ConfigNext
  <2> QED
    BY <1>2, <2>1, <2>2
<1> QED
  BY <1>1, <1>2

-----------------------------------------------------------------------------
(* The slots of the pushes.                                                *)

Counted ==
  /\ IsFiniteSet(holds) /\ tracked \subseteq holds /\ holds \subseteq Push
  /\ pool \in [inUse : Nat, capacity : Slots \cup {1}] /\ pool.inUse = Cardinality(holds)
  /\ inFlight = Cardinality(tracked)

\* The requests that resize know a size.
Sized == \A a \in Admin : patch[a].pc = "resize" => patch[a].want \in Slots

\* What a step may do to the pushes.
Gated == Cardinality(holds') > Cardinality(holds) => Cardinality(holds') <= pool.capacity

(* Every push that runs has its slot, and no other.                        *)
LEMMA MovesCounted ==
  ASSUME Counted, Halted, Sized, file \in Setting \cup {Torn}, ConfigMoves
  PROVE  Counted' /\ Gated
<1>1. /\ IsFiniteSet(holds) /\ IsFiniteSet(tracked)
      /\ Cardinality(holds) \in Nat /\ Cardinality(tracked) \in Nat
  BY FS_Subset, FS_CardinalityType DEF Counted
<1>2. ASSUME UNCHANGED <<holds, inFlight, tracked, pool>> PROVE Counted' /\ Gated
  BY <1>1, <1>2 DEF Counted, Gated
<1>3. ASSUME NEW a \in Admin, PatchSteps(a) PROVE Counted' /\ Gated
  <2>1. CASE ApplyLimits(a)
    <3>1. pool' = [pool EXCEPT !.capacity = Clamped(patch[a].want)]
          /\ Clamped(patch[a].want) \in Slots \cup {1} /\ UNCHANGED <<holds, inFlight, tracked>>
      BY <2>1 DEF ApplyLimits, Resize, Sized, Clamped
    <3> QED
      BY <1>1, <3>1 DEF Counted, Gated
  <2>2. CASE ~ApplyLimits(a)
    <3>1. UNCHANGED <<holds, inFlight, tracked, pool>>
      BY <1>3, <2>2 DEF PatchSteps, StopPoller, SwapPoller, BuildAuth, SwapChain, SetAuth,
         Marshal, MarshalRest, OpenFile, WriteFile, pushVars
    <3> QED
      BY <1>2, <3>1
  <2> QED
    BY <2>1, <2>2
<1>4. ASSUME NEW a \in Admin, Patches(a) PROVE Counted' /\ Gated
  BY <1>2, <1>4 DEF Patches, PatchLimits, PatchMirror, PatchAuth, pushVars
<1>5. ASSUME NEW p \in Push, Admit(p) PROVE Counted' /\ Gated
  <2>1. /\ holds' = holds \cup {p} /\ p \notin holds /\ pool.inUse < pool.capacity
        /\ pool' = [pool EXCEPT !.inUse = @ + 1] /\ UNCHANGED <<inFlight, tracked>>
    BY <1>5 DEF Admit, TryAcquire
  <2>2. IsFiniteSet(holds') /\ Cardinality(holds') = Cardinality(holds) + 1
    BY <1>1, <2>1, FS_AddElement
  <2> QED
    BY <1>1, <2>1, <2>2, LiveConfigAssumption DEF Counted, Gated
<1>6. ASSUME NEW p \in Push, Track(p) PROVE Counted' /\ Gated
  <2>1. /\ tracked' = tracked \cup {p} /\ p \in holds /\ p \notin tracked
        /\ inFlight' = inFlight + 1 /\ UNCHANGED <<pool, holds>>
    BY <1>6 DEF Track
  <2>2. Cardinality(tracked') = Cardinality(tracked) + 1
    BY <1>1, <2>1, FS_AddElement
  <2> QED
    BY <1>1, <2>1, <2>2 DEF Counted, Gated
<1>7. ASSUME NEW p \in Push, Finish(p) PROVE Counted' /\ Gated
  <2>1. /\ tracked' = tracked \ {p} /\ holds' = holds \ {p} /\ p \in tracked /\ p \in holds
        /\ inFlight' = (IF inFlight > 0 THEN inFlight - 1 ELSE 0)
        /\ pool' = [pool EXCEPT !.inUse = IF @ > 0 THEN @ - 1 ELSE 0]
    BY <1>7 DEF Finish, Counted
  <2>2. /\ IsFiniteSet(holds') /\ Cardinality(holds') = Cardinality(holds) - 1
        /\ Cardinality(tracked') = Cardinality(tracked) - 1
    BY <1>1, <2>1, FS_RemoveElement
  <2>3. Cardinality(holds') \in Nat /\ Cardinality(tracked') \in Nat
    BY <1>1, <2>1, <2>2, FS_RemoveElement, FS_CardinalityType
  <2> QED
    BY <1>1, <2>1, <2>2, <2>3 DEF Counted, Gated
<1>8. CASE Polls
  BY <1>2, <1>8 DEF Polls, BeginCheck, EndCheck, PollerReturns, pushVars
<1>9. CASE ConfigStop
  <2>1. holds' = {} /\ tracked' = {} /\ inFlight' = 0 /\ pool' = [pool EXCEPT !.inUse = 0]
    BY <1>9 DEF ConfigStop
  <2> QED
    BY <1>1, <2>1, FS_EmptySet DEF Counted, Gated
<1>10. CASE ConfigStart
  <2>1. Clamped(file.slots) \in Slots \cup {1}
    BY <1>10, LiveConfigAssumption DEF ConfigStart, Setting, Clamped
  <2>2. pool' = [inUse |-> 0, capacity |-> Clamped(file.slots)] /\ UNCHANGED <<holds, inFlight, tracked>>
          /\ holds = {}
    BY <1>10 DEF ConfigStart, Halted
  <2> QED
    BY <1>1, <2>1, <2>2, FS_EmptySet DEF Counted, Gated
<1>11. CASE UNCHANGED configVars
  BY <1>2, <1>11 DEF configVars, pushVars
<1> QED
  BY <1>3, <1>4, <1>5, <1>6, <1>7, <1>8, <1>9, <1>10, <1>11 DEF ConfigMoves, ConfigNext

-----------------------------------------------------------------------------
(* The pollers.                                                            *)

Polling ==
  /\ started \in Nat /\ statusPoller \in Nat /\ statusPoller <= started
  /\ pollers \subseteq [n : Nat, checks : BOOLEAN]
  /\ \A q \in pollers : q.n = statusPoller
  /\ \A q, other \in pollers : q = other

(* There is one poller at most.                                            *)
LEMMA MovesPolling ==
  ASSUME Polling, Halted, ConfigMoves
  PROVE  Polling'
<1>1. ASSUME UNCHANGED pollVars PROVE Polling'
  BY <1>1 DEF Polling, pollVars
<1>2. ASSUME NEW a \in Admin, SwapPoller(a) PROVE Polling'
  <2>1. pollers = {}
    BY <1>2 DEF SwapPoller, Gone, Polling
  <2>2. CASE patch[a].want = 0
    BY <1>2, <2>1, <2>2 DEF SwapPoller, Polling
  <2>3. CASE patch[a].want # 0
    <3>1. /\ started' = started + 1 /\ statusPoller' = started + 1
          /\ pollers' = {[n |-> started + 1, checks |-> FALSE]}
      BY <1>2, <2>1, <2>3 DEF SwapPoller
    <3> QED
      BY <3>1 DEF Polling
  <2> QED
    BY <2>2, <2>3
<1>3. ASSUME NEW a \in Admin, PatchSteps(a), ~SwapPoller(a) PROVE Polling'
  BY <1>1, <1>3 DEF PatchSteps, ApplyLimits, StopPoller, BuildAuth, SwapChain, SetAuth, Marshal,
     MarshalRest, OpenFile, WriteFile
<1>4. ASSUME NEW a \in Admin, Patches(a) PROVE Polling'
  BY <1>1, <1>4 DEF Patches, PatchLimits, PatchMirror, PatchAuth
<1>5. ASSUME NEW p \in Push, Admit(p) \/ Track(p) \/ Finish(p) PROVE Polling'
  BY <1>1, <1>5 DEF Admit, Track, Finish
<1>6. ASSUME NEW q \in pollers, BeginCheck(q) \/ EndCheck(q) \/ PollerReturns(q) PROVE Polling'
  <2>1. pollers = {q} /\ q \in [n : Nat, checks : BOOLEAN] /\ q.n = statusPoller
    BY DEF Polling
  <2>2. UNCHANGED <<started, statusPoller>>
    BY <1>6 DEF BeginCheck, EndCheck, PollerReturns
  <2>3. \/ pollers' = {}
        \/ \E b \in BOOLEAN : pollers' = {[q EXCEPT !.checks = b]}
    BY <1>6, <2>1 DEF BeginCheck, EndCheck, PollerReturns
  <2> QED
    BY <2>1, <2>2, <2>3 DEF Polling
<1>7. CASE ConfigStop
  BY <1>7 DEF ConfigStop, Polling
<1>8. CASE ConfigStart
  <2>1. CASE file.poll
    <3>1. /\ started' = started + 1 /\ statusPoller' = started + 1
          /\ pollers' = {[n |-> started + 1, checks |-> FALSE]}
      BY <1>8, <2>1 DEF ConfigStart
    <3> QED
      BY <3>1 DEF Polling
  <2>2. CASE ~file.poll
    BY <1>1, <1>8, <2>2 DEF ConfigStart
  <2> QED
    BY <2>1, <2>2
<1>9. CASE UNCHANGED configVars
  BY <1>1, <1>9 DEF configVars
<1> QED
  BY <1>2, <1>3, <1>4, <1>5, <1>6, <1>7, <1>8, <1>9 DEF ConfigMoves, ConfigNext, Polls

-----------------------------------------------------------------------------
(* The configuration, what it governs and its file.                        *)

Patch == [pc : {"idle", "resize", "swap", "wait", "build", "chain", "config", "marshal", "rest",
                "open", "write"},
          want : Nat, copy : Setting \cup {Torn}, kind : {Nobody, "slots", "poll", "gateway"}]

\* What a request carries along.
Sensible(j) ==
  /\ j.pc = "resize" => j.want \in Slots
  /\ j.pc \in {"swap", "wait", "build", "chain", "config"} => j.want \in {0, 1}
  /\ j.pc \in {"rest", "open", "write"} => j.copy \in Setting

Settled ==
  /\ cfg \in Setting /\ file \in Setting \cup {Torn} /\ gateway \in BOOLEAN
  /\ running \in BOOLEAN
  /\ authMu \in Admin \cup {Nobody} /\ pollMu \in Admin \cup {Nobody}
  /\ patch \in [Admin -> Patch] /\ \A a \in Admin : Sensible(patch[a])
  /\ overlapped \subseteq Patching

\* What a request that ran alone so far knows.
Knows(j, c, f) ==
  /\ j.pc = "resize" => c.slots = j.want
  /\ j.pc \in {"swap", "wait"} => c.poll = (j.want = 1)
  /\ j.pc \in {"rest", "open", "write"} => j.copy = c
  /\ j.pc = "write" => f = Torn

Alone == \A a \in Patching : a \in overlapped \/ (Patching = {a} /\ Knows(patch[a], cfg, file))

At(pcs) == \E a \in Admin : patch[a].pc \in pcs

\* One request at a time has changed the chain and not yet the configuration.
Locked == \A a \in Admin : patch[a].pc = "config" => authMu = a /\ gateway = (patch[a].want = 1)

\* What differs from the configuration is about to be mended, or told apart.
SlotsAgree == pool.capacity = Clamped(cfg.slots) \/ "slots" \in apart \/ At({"resize"})
PollAgrees == (statusPoller # 0) = cfg.poll \/ "poll" \in apart \/ At({"swap", "wait"})
ChainAgrees == gateway = cfg.gateway \/ At({"config"})
FileAgrees ==
  file = cfg \/ "file" \in apart
    \/ At({"resize", "swap", "wait", "config", "marshal", "rest", "open", "write"})

Agreed == running => SlotsAgree /\ PollAgrees /\ ChainAgrees /\ FileAgrees

(* A request begins.                                                       *)
LEMMA PatchBegins ==
  ASSUME Settled, Alone, NEW a \in Admin, NEW j \in Patch, BeginPatch(a, j), j.pc # "idle",
         Sensible(j), Knows(j, cfg', file'), cfg' \in Setting,
         UNCHANGED <<file, gateway, authMu, pollMu>>
  PROVE  /\ Settled' /\ Alone' /\ patch'[a] = j
         /\ \A b \in Admin \ {a} : patch'[b] = patch[b]
         /\ patch[a].pc = "idle" /\ running' = running
<1>1. /\ patch' = [patch EXCEPT ![a] = j] /\ running' = running /\ patch[a].pc = "idle"
      /\ overlapped' = IF Patching = {} THEN overlapped ELSE overlapped \cup Patching \cup {a}
  BY DEF BeginPatch
<1>2. patch'[a] = j /\ \A b \in Admin \ {a} : patch'[b] = patch[b]
  BY <1>1 DEF Settled
<1>3. Patching' = Patching \cup {a}
  BY <1>2 DEF Patching
<1>4. Settled'
  BY <1>1, <1>2, <1>3 DEF Settled
<1>5. Alone'
  BY <1>1, <1>2, <1>3 DEF Alone
<1> QED
  BY <1>1, <1>2, <1>4, <1>5

(* A request goes on, or is answered.                                      *)
LEMMA PatchGoes ==
  ASSUME Settled, Alone, NEW a \in Admin, NEW j \in Patch, Step(a, j), patch[a].pc # "idle",
         Sensible(j), a \in overlapped \/ j.pc = "idle" \/ Knows(j, cfg', file'),
         cfg' \in Setting, file' \in Setting \cup {Torn}, gateway' \in BOOLEAN,
         authMu' \in Admin \cup {Nobody}, pollMu' \in Admin \cup {Nobody}
  PROVE  /\ Settled' /\ Alone' /\ patch'[a] = j
         /\ \A b \in Admin \ {a} : patch'[b] = patch[b]
         /\ running' = running
<1>1. /\ patch' = [patch EXCEPT ![a] = j] /\ running' = running
      /\ overlapped' = IF j.pc = "idle" THEN overlapped \ {a} ELSE overlapped
  BY DEF Step
<1>2. patch'[a] = j /\ \A b \in Admin \ {a} : patch'[b] = patch[b]
  BY <1>1 DEF Settled
<1>3. Patching' = IF j.pc = "idle" THEN Patching \ {a} ELSE Patching
  BY <1>2 DEF Patching
<1>4. Settled'
  BY <1>1, <1>2, <1>3 DEF Settled
<1>5. a \in Patching
  BY DEF Patching
<1>6. \A b \in Patching \ {a} : b \in overlapped
  BY <1>5 DEF Alone
<1>7. Alone'
  BY <1>1, <1>2, <1>3, <1>6 DEF Alone
<1> QED
  BY <1>1, <1>2, <1>4, <1>7

(* A step that none of this is about.                                      *)
LEMMA Untouched ==
  ASSUME Settled, Alone, Locked, Agreed,
         UNCHANGED <<cfg, file, gateway, authMu, pollMu, patch, running, overlapped, apart,
                     statusPoller>>, pool'.capacity = pool.capacity
  PROVE  Settled' /\ Alone' /\ Locked' /\ Agreed'
<1>1. Patching' = Patching
  BY DEF Patching
<1>2. Settled' /\ Alone'
  BY <1>1 DEF Settled, Alone
<1>3. Locked' /\ Agreed'
  BY DEF Locked, Agreed, SlotsAgree, PollAgrees, ChainAgrees, FileAgrees, At
<1> QED
  BY <1>2, <1>3

(* A PATCH request arrives.                                                *)
LEMMA PatchesAgree ==
  ASSUME Settled, Alone, Locked, Agreed, NEW a \in Admin, Patches(a)
  PROVE  Settled' /\ Alone' /\ Locked' /\ Agreed'
<1> USE DEF SlotsAgree, PollAgrees, ChainAgrees, FileAgrees, At
<1> DEFINE asked(pc, n, kind) == [Rest EXCEPT !.pc = pc, !.want = n, !.kind = kind]
<1>1. ASSUME NEW pc \in {"resize", "swap", "build"}, NEW n \in Nat,
             NEW kind \in {"slots", "poll", "gateway"}
      PROVE  asked(pc, n, kind) \in Patch /\ asked(pc, n, kind).pc = pc /\ asked(pc, n, kind).want = n
  BY DEF Rest, Patch
<1> HIDE DEF asked
<1>2. ASSUME NEW n \in Slots, PatchLimits(a, n) PROVE Settled' /\ Alone' /\ Locked' /\ Agreed'
  <2> DEFINE j == asked("resize", n, "slots")
  <2>1. n \in Nat /\ BeginPatch(a, j) /\ cfg' = [cfg EXCEPT !.slots = n]
        /\ UNCHANGED <<file, pool, gateway, authMu, pollMu, statusPoller, apart>>
    BY <1>2, LiveConfigAssumption DEF PatchLimits, pushVars, pollVars, asked
  <2>2. cfg' \in Setting /\ cfg'.slots = n /\ cfg'.poll = cfg.poll /\ cfg'.gateway = cfg.gateway
    BY <2>1 DEF Settled, Setting
  <2>3. j \in Patch /\ j.pc = "resize" /\ j.want = n
    BY <1>1, <2>1
  <2>4. Sensible(j) /\ Knows(j, cfg', file')
    BY <2>2, <2>3 DEF Sensible, Knows
  <2> HIDE DEF j
  <2>5. /\ Settled' /\ Alone' /\ patch'[a] = j /\ patch[a].pc = "idle" /\ running' = running
        /\ \A b \in Admin \ {a} : patch'[b] = patch[b]
    BY <2>1, <2>2, <2>3, <2>4, PatchBegins
  <2>6. Locked'
    BY <2>1, <2>3, <2>5 DEF Locked
  <2>7. Agreed'
    BY <2>1, <2>2, <2>3, <2>5 DEF Agreed
  <2> QED
    BY <2>5, <2>6, <2>7
<1>3. ASSUME NEW n \in {0, 1}, PatchMirror(a, n) PROVE Settled' /\ Alone' /\ Locked' /\ Agreed'
  <2> DEFINE j == asked("swap", n, "poll")
  <2>1. BeginPatch(a, j) /\ cfg' = [cfg EXCEPT !.poll = (n = 1)]
        /\ UNCHANGED <<file, pool, gateway, authMu, pollMu, statusPoller, apart>>
    BY <1>3 DEF PatchMirror, pushVars, pollVars, asked
  <2>2. cfg' \in Setting /\ cfg'.slots = cfg.slots /\ cfg'.poll = (n = 1) /\ cfg'.gateway = cfg.gateway
    BY <2>1 DEF Settled, Setting
  <2>3. j \in Patch /\ j.pc = "swap" /\ j.want = n
    BY <1>1
  <2>4. Sensible(j) /\ Knows(j, cfg', file')
    BY <2>2, <2>3 DEF Sensible, Knows
  <2> HIDE DEF j
  <2>5. /\ Settled' /\ Alone' /\ patch'[a] = j /\ patch[a].pc = "idle" /\ running' = running
        /\ \A b \in Admin \ {a} : patch'[b] = patch[b]
    BY <2>1, <2>2, <2>3, <2>4, PatchBegins
  <2>6. Locked'
    BY <2>1, <2>3, <2>5 DEF Locked
  <2>7. Agreed'
    BY <2>1, <2>2, <2>3, <2>5 DEF Agreed
  <2> QED
    BY <2>5, <2>6, <2>7
<1>4. ASSUME NEW n \in {0, 1}, PatchAuth(a, n) PROVE Settled' /\ Alone' /\ Locked' /\ Agreed'
  <2> DEFINE j == asked("build", n, "gateway")
  <2>1. BeginPatch(a, j)
        /\ UNCHANGED <<cfg, file, pool, gateway, authMu, pollMu, statusPoller, apart>>
    BY <1>4 DEF PatchAuth, pushVars, pollVars, asked
  <2>2. j \in Patch /\ j.pc = "build" /\ j.want = n
    BY <1>1
  <2>3. Sensible(j) /\ Knows(j, cfg', file') /\ cfg' \in Setting
    BY <2>1, <2>2 DEF Sensible, Knows, Settled
  <2> HIDE DEF j
  <2>4. /\ Settled' /\ Alone' /\ patch'[a] = j /\ patch[a].pc = "idle" /\ running' = running
        /\ \A b \in Admin \ {a} : patch'[b] = patch[b]
    BY <2>1, <2>2, <2>3, PatchBegins
  <2>5. Locked'
    BY <2>1, <2>2, <2>4 DEF Locked
  <2>6. Agreed'
    BY <2>1, <2>2, <2>4 DEF Agreed
  <2> QED
    BY <2>4, <2>5, <2>6
<1> QED
  BY <1>2, <1>3, <1>4 DEF Patches

(* What the steps of a request hand on.                                    *)
LEMMA PatchType ==
  ASSUME Settled, NEW a \in Admin
  PROVE  /\ \A pc \in {"idle", "wait", "chain", "config", "marshal", "write"} :
              LET j == [patch[a] EXCEPT !.pc = pc]
              IN /\ j \in Patch /\ j.pc = pc /\ j.want = patch[a].want
                 /\ j.copy = patch[a].copy
         /\ \A pc \in {"rest", "open"}, c \in Setting :
              LET j == [patch[a] EXCEPT !.pc = pc, !.copy = c]
              IN j \in Patch /\ j.pc = pc /\ j.copy = c
         /\ Rest \in Patch /\ Rest.pc = "idle" /\ Sensible(Rest)
BY DEF Settled, Patch, Rest, Sensible

(* A request that is answered.                                             *)
LEMMA AnsweredAgrees ==
  ASSUME Settled, Alone, Locked, Agreed, NEW a \in Admin, patch[a].pc \in {"open", "write"},
         NEW left \in {apart \cup {"file"}, apart \ {"file"}}, Answered(a, left),
         "file" \in left \/ file' = cfg, file' \in Setting \cup {Torn},
         UNCHANGED <<cfg, pool, statusPoller, gateway, pollMu>>
  PROVE  Settled' /\ Alone' /\ Locked' /\ Agreed'
<1>1. Step(a, Rest) /\ authMu' = (IF authMu = a THEN Nobody ELSE authMu) /\ apart' = left
  BY DEF Answered
<1>2. /\ Settled' /\ Alone' /\ patch'[a].pc = "idle" /\ running' = running
      /\ \A b \in Admin \ {a} : patch'[b] = patch[b]
  <2>1. authMu' \in Admin \cup {Nobody} /\ cfg' \in Setting /\ gateway' \in BOOLEAN
        /\ pollMu' \in Admin \cup {Nobody} /\ patch[a].pc # "idle"
    BY <1>1 DEF Settled
  <2>2. Rest \in Patch /\ Rest.pc = "idle" /\ Sensible(Rest)
    BY PatchType
  <2> QED
    BY <1>1, <2>1, <2>2, PatchGoes
<1>3. Locked'
  BY <1>1, <1>2 DEF Locked
<1>4. Agreed'
  BY <1>1, <1>2 DEF Agreed, SlotsAgree, PollAgrees, ChainAgrees, FileAgrees, At
<1> QED
  BY <1>2, <1>3, <1>4

(* A request goes on.                                                      *)
LEMMA PatchStepsAgree ==
  ASSUME Settled, Alone, Locked, Agreed, Polling, NEW a \in Admin, PatchSteps(a)
  PROVE  Settled' /\ Alone' /\ Locked' /\ Agreed'
<1> USE DEF SlotsAgree, PollAgrees, ChainAgrees, FileAgrees, At
<1> DEFINE j(pc) == [patch[a] EXCEPT !.pc = pc]
<1>1. /\ Sensible(patch[a]) /\ cfg \in Setting /\ file \in Setting \cup {Torn}
      /\ gateway \in BOOLEAN /\ authMu \in Admin \cup {Nobody} /\ pollMu \in Admin \cup {Nobody}
  BY DEF Settled
<1>2. patch[a].pc = "idle" \/ a \in overlapped
        \/ (Patching = {a} /\ Knows(patch[a], cfg, file) /\ \A b \in Admin \ {a} : patch[b].pc = "idle")
  BY DEF Alone, Patching
<1>3. \A pc \in {"idle", "wait", "chain", "config", "marshal", "write"} :
        j(pc) \in Patch /\ j(pc).pc = pc /\ j(pc).want = patch[a].want /\ j(pc).copy = patch[a].copy
  BY PatchType
<1> HIDE DEF j
<1>4. CASE ApplyLimits(a)
  <2>1. /\ patch[a].pc = "resize" /\ pool' = [pool EXCEPT !.capacity = Clamped(patch[a].want)]
        /\ Step(a, j("marshal")) /\ Strays(a, "slots")
        /\ UNCHANGED <<cfg, file, gateway, authMu, pollMu, statusPoller>>
    BY <1>4 DEF ApplyLimits, Resize, pollVars, j
  <2>2. Sensible(j("marshal")) /\ Knows(j("marshal"), cfg', file')
    BY <1>3 DEF Sensible, Knows
  <2>3. /\ Settled' /\ Alone' /\ patch'[a] = j("marshal") /\ running' = running
        /\ \A b \in Admin \ {a} : patch'[b] = patch[b]
    BY <1>1, <1>3, <2>1, <2>2, PatchGoes
  <2>4. Locked'
    BY <1>3, <2>1, <2>3 DEF Locked
  <2>5. Agreed'
    BY <1>2, <1>3, <2>1, <2>3 DEF Agreed, Strays, Knows
  <2> QED
    BY <2>3, <2>4, <2>5
<1>5. CASE StopPoller(a)
  <2>1. /\ patch[a].pc = "swap" /\ pollMu' = a /\ Step(a, j("wait"))
        /\ UNCHANGED <<cfg, file, pool, gateway, authMu, statusPoller, apart>>
    BY <1>5 DEF StopPoller, pollVars, pushVars, j
  <2>2. Sensible(j("wait")) /\ (a \in overlapped \/ Knows(j("wait"), cfg', file'))
    BY <1>1, <1>2, <1>3, <2>1 DEF Sensible, Knows
  <2>3. /\ Settled' /\ Alone' /\ patch'[a] = j("wait") /\ running' = running
        /\ \A b \in Admin \ {a} : patch'[b] = patch[b]
    BY <1>1, <1>3, <2>1, <2>2, PatchGoes
  <2>4. Locked'
    BY <1>3, <2>1, <2>3 DEF Locked
  <2>5. Agreed'
    BY <1>3, <2>1, <2>3 DEF Agreed
  <2> QED
    BY <2>3, <2>4, <2>5
<1>6. CASE SwapPoller(a)
  <2>1. /\ patch[a].pc = "wait" /\ pollMu' = Nobody /\ Step(a, j("marshal")) /\ Strays(a, "poll")
        /\ UNCHANGED <<cfg, file, pool, gateway, authMu>>
    BY <1>6 DEF SwapPoller, pushVars, j
  <2>2. patch[a].want \in {0, 1} /\ (statusPoller' # 0) = (patch[a].want = 1)
    BY <1>1, <1>6, <2>1 DEF SwapPoller, Polling, Sensible
  <2>3. Sensible(j("marshal")) /\ Knows(j("marshal"), cfg', file')
    BY <1>3 DEF Sensible, Knows
  <2>4. /\ Settled' /\ Alone' /\ patch'[a] = j("marshal") /\ running' = running
        /\ \A b \in Admin \ {a} : patch'[b] = patch[b]
    BY <1>1, <1>3, <2>1, <2>3, PatchGoes
  <2>5. Locked'
    BY <1>3, <2>1, <2>4 DEF Locked
  <2>6. a \in overlapped \/ (statusPoller' # 0) = cfg.poll
    BY <1>2, <2>1, <2>2 DEF Knows
  <2>7. Agreed'
    BY <1>3, <2>1, <2>4, <2>6 DEF Agreed, Strays
  <2> QED
    BY <2>4, <2>5, <2>7
<1>7. CASE BuildAuth(a)
  <2>1. PICK pc \in {"idle", "chain"} : Step(a, j(pc))
    BY <1>7 DEF BuildAuth, j
  <2>2. /\ patch[a].pc = "build"
        /\ UNCHANGED <<cfg, file, pool, gateway, authMu, pollMu, statusPoller, apart>>
    BY <1>7 DEF BuildAuth, pollVars, pushVars
  <2>3. Sensible(j(pc)) /\ Knows(j(pc), cfg', file')
    BY <1>1, <1>3, <2>2 DEF Sensible, Knows
  <2>4. /\ Settled' /\ Alone' /\ patch'[a] = j(pc) /\ running' = running
        /\ \A b \in Admin \ {a} : patch'[b] = patch[b]
    BY <1>1, <1>3, <2>1, <2>2, <2>3, PatchGoes
  <2>5. Locked'
    BY <1>3, <2>2, <2>4 DEF Locked
  <2>6. Agreed'
    BY <1>3, <2>2, <2>4 DEF Agreed
  <2> QED
    BY <2>4, <2>5, <2>6
<1>8. CASE SwapChain(a)
  <2>1. /\ patch[a].pc = "chain" /\ authMu = Nobody /\ authMu' = a
        /\ gateway' = (patch[a].want = 1) /\ Step(a, j("config"))
        /\ UNCHANGED <<cfg, file, pool, pollMu, statusPoller, apart>>
    BY <1>8 DEF SwapChain, NewChain, pollVars, pushVars, j
  <2>2. Sensible(j("config")) /\ Knows(j("config"), cfg', file')
    BY <1>1, <1>3, <2>1 DEF Sensible, Knows
  <2>3. /\ Settled' /\ Alone' /\ patch'[a] = j("config") /\ running' = running
        /\ \A b \in Admin \ {a} : patch'[b] = patch[b]
    BY <1>1, <1>3, <2>1, <2>2, PatchGoes
  <2>4. Locked'
    BY <1>3, <2>1, <2>3, LiveConfigAssumption DEF Locked
  <2>5. Agreed'
    BY <1>3, <2>1, <2>3 DEF Agreed
  <2> QED
    BY <2>3, <2>4, <2>5
<1>9. CASE SetAuth(a)
  <2>1. /\ patch[a].pc = "config" /\ cfg' = [cfg EXCEPT !.gateway = (patch[a].want = 1)]
        /\ Step(a, j("marshal"))
        /\ UNCHANGED <<file, pool, gateway, authMu, pollMu, statusPoller, apart>>
    BY <1>9 DEF SetAuth, pollVars, pushVars, j
  <2>2. /\ cfg' \in Setting /\ cfg'.gateway = (patch[a].want = 1)
        /\ cfg'.slots = cfg.slots /\ cfg'.poll = cfg.poll
    BY <1>1, <2>1 DEF Setting
  <2>3. Sensible(j("marshal")) /\ Knows(j("marshal"), cfg', file')
    BY <1>3 DEF Sensible, Knows
  <2>4. /\ Settled' /\ Alone' /\ patch'[a] = j("marshal") /\ running' = running
        /\ \A b \in Admin \ {a} : patch'[b] = patch[b]
    BY <1>1, <1>3, <2>1, <2>2, <2>3, PatchGoes
  <2>5. Locked' /\ gateway' = cfg'.gateway
    BY <1>3, <2>1, <2>2, <2>4 DEF Locked
  <2>6. Agreed'
    BY <1>3, <2>1, <2>2, <2>4, <2>5 DEF Agreed
  <2> QED
    BY <2>4, <2>5, <2>6
<1>10. CASE Marshal(a)
  <2> DEFINE k == [patch[a] EXCEPT !.pc = "rest", !.copy = cfg]
  <2>1. /\ patch[a].pc = "marshal" /\ Step(a, k)
        /\ UNCHANGED <<cfg, file, pool, gateway, authMu, pollMu, statusPoller, apart>>
    BY <1>10 DEF Marshal, pollVars, pushVars
  <2>2. k \in Patch /\ k.pc = "rest" /\ k.copy = cfg
    BY <1>1, PatchType
  <2> HIDE DEF k
  <2>3. Sensible(k) /\ Knows(k, cfg', file')
    BY <1>1, <2>1, <2>2 DEF Sensible, Knows
  <2>4. /\ Settled' /\ Alone' /\ patch'[a] = k /\ running' = running
        /\ \A b \in Admin \ {a} : patch'[b] = patch[b]
    BY <1>1, <2>1, <2>2, <2>3, PatchGoes
  <2>5. Locked'
    BY <2>1, <2>2, <2>4 DEF Locked
  <2>6. Agreed'
    BY <2>1, <2>2, <2>4 DEF Agreed
  <2> QED
    BY <2>4, <2>5, <2>6
<1>11. CASE MarshalRest(a)
  <2> DEFINE c == [cfg EXCEPT !.gateway = patch[a].copy.gateway]
             k == [patch[a] EXCEPT !.pc = "open", !.copy = c]
  <2>1. /\ patch[a].pc = "rest" /\ Step(a, k)
        /\ UNCHANGED <<cfg, file, pool, gateway, authMu, pollMu, statusPoller, apart>>
    BY <1>11 DEF MarshalRest, pollVars, pushVars
  <2>2. patch[a].copy \in Setting
    BY <1>1, <2>1 DEF Sensible
  <2>3. c \in Setting /\ (patch[a].copy = cfg => c = cfg)
    BY <1>1, <2>2 DEF Setting
  <2> HIDE DEF c
  <2>4. k \in Patch /\ k.pc = "open" /\ k.copy = c
    BY <2>3, PatchType
  <2> HIDE DEF k
  <2>5. Sensible(k) /\ (a \in overlapped \/ Knows(k, cfg', file'))
    BY <1>2, <2>1, <2>3, <2>4 DEF Sensible, Knows
  <2>6. /\ Settled' /\ Alone' /\ patch'[a] = k /\ running' = running
        /\ \A b \in Admin \ {a} : patch'[b] = patch[b]
    BY <1>1, <2>1, <2>4, <2>5, PatchGoes
  <2>7. Locked'
    BY <2>1, <2>4, <2>6 DEF Locked
  <2>8. Agreed'
    BY <2>1, <2>4, <2>6 DEF Agreed
  <2> QED
    BY <2>6, <2>7, <2>8
<1>12. CASE OpenFile(a)
  <2>1. patch[a].pc = "open" /\ UNCHANGED <<cfg, pool, gateway, pollMu, statusPoller>>
    BY <1>12 DEF OpenFile, pollVars, pushVars
  <2>2. CASE Answered(a, apart \cup {"file"}) /\ UNCHANGED file
    BY <1>1, <2>1, <2>2, AnsweredAgrees
  <2>3. CASE file' = Torn /\ Step(a, j("write")) /\ UNCHANGED <<authMu, apart>>
    <3>1. Sensible(j("write")) /\ (a \in overlapped \/ Knows(j("write"), cfg', file'))
      BY <1>1, <1>2, <1>3, <2>1, <2>3 DEF Sensible, Knows
    <3>2. /\ Settled' /\ Alone' /\ patch'[a] = j("write") /\ running' = running
          /\ \A b \in Admin \ {a} : patch'[b] = patch[b]
      BY <1>1, <1>3, <2>1, <2>3, <3>1, PatchGoes
    <3>3. Locked'
      BY <1>3, <2>1, <2>3, <3>2 DEF Locked
    <3>4. Agreed'
      BY <1>3, <2>1, <2>3, <3>2 DEF Agreed
    <3> QED
      BY <3>2, <3>3, <3>4
  <2> QED
    BY <1>12, <2>2, <2>3 DEF OpenFile, j
<1>13. CASE WriteFile(a)
  <2>1. patch[a].pc = "write" /\ UNCHANGED <<cfg, pool, gateway, pollMu, statusPoller>>
        /\ patch[a].copy \in Setting
    BY <1>1, <1>13 DEF WriteFile, pollVars, pushVars, Sensible
  <2>2. CASE file' = Torn /\ Answered(a, apart \cup {"file"})
    BY <2>1, <2>2, AnsweredAgrees
  <2>3. CASE (\E w \in Written(a) : file' = w) /\ Answered(a, Left(a))
    <3>1. file' \in {patch[a].copy, Torn} /\ (file = Torn => file' = patch[a].copy)
      BY <2>3 DEF Written
    <3>2. "file" \in Left(a) \/ file' = cfg
      BY <1>2, <2>1, <3>1 DEF Left, Knows
    <3>3. Left(a) \in {apart \cup {"file"}, apart \ {"file"}}
      BY DEF Left
    <3> QED
      BY <2>1, <2>3, <3>1, <3>2, <3>3, AnsweredAgrees
  <2> QED
    BY <1>13, <2>2, <2>3 DEF WriteFile
<1> QED
  BY <1>4, <1>5, <1>6, <1>7, <1>8, <1>9, <1>10, <1>11, <1>12, <1>13 DEF PatchSteps

(* Whatever happens, what is live stays as configured.                     *)
LEMMA MovesAgree ==
  ASSUME Settled, Alone, Locked, Agreed, Polling, Counted, Halted, ConfigMoves
  PROVE  Settled' /\ Alone' /\ Locked' /\ Agreed'
<1>1. ASSUME NEW p \in Push, Admit(p) \/ Track(p) \/ Finish(p)
      PROVE  Settled' /\ Alone' /\ Locked' /\ Agreed'
  <2>1. pool'.capacity = pool.capacity
    BY <1>1 DEF Admit, Track, Finish, Counted
  <2> QED
    BY <1>1, <2>1, Untouched DEF Admit, Track, Finish, pollVars, runVars
<1>2. CASE Polls
  BY <1>2, Untouched DEF Polls, BeginCheck, EndCheck, PollerReturns, pushVars, runVars
<1>3. CASE ConfigStop
  <2>1. /\ patch' = [a \in Admin |-> Rest] /\ running' = FALSE /\ overlapped' = {}
        /\ authMu' = Nobody /\ pollMu' = Nobody /\ UNCHANGED <<cfg, file, gateway>>
    BY <1>3 DEF ConfigStop
  <2>2. Rest \in Patch /\ Rest.pc = "idle" /\ Sensible(Rest)
    BY DEF Rest, Patch, Sensible
  <2> QED
    BY <2>1, <2>2 DEF Settled, Alone, Locked, Agreed, Patching
<1>4. CASE ConfigStart
  <2>1. /\ cfg' = file /\ file' = file /\ file \in Setting /\ gateway' = file.gateway
        /\ pool' = [inUse |-> 0, capacity |-> Clamped(file.slots)] /\ running'
        /\ UNCHANGED <<authMu, pollMu, patch, overlapped>> /\ Patching = {} /\ statusPoller = 0
    BY <1>4 DEF ConfigStart, Halted, Settled
  <2>2. /\ pool'.capacity = Clamped(cfg'.slots) /\ gateway' = cfg'.gateway /\ file' = cfg'
        /\ cfg'.gateway \in BOOLEAN /\ cfg'.poll \in BOOLEAN
    BY <2>1 DEF Setting
  <2>3. (statusPoller' # 0) = cfg'.poll
    BY <1>4, <2>1, <2>2 DEF ConfigStart, Polling, pollVars
  <2>4. Patching' = {} /\ \A a \in Admin : patch[a].pc = "idle"
    BY <2>1 DEF Patching
  <2>5. Settled'
    BY <2>1, <2>2, <2>4 DEF Settled
  <2>6. Alone' /\ Locked'
    BY <2>1, <2>4 DEF Alone, Locked
  <2>7. Agreed'
    BY <2>2, <2>3 DEF Agreed, SlotsAgree, PollAgrees, ChainAgrees, FileAgrees
  <2> QED
    BY <2>5, <2>6, <2>7
<1>5. CASE UNCHANGED configVars
  BY <1>5, Untouched DEF configVars, pushVars, pollVars, runVars
<1> QED
  BY <1>1, <1>2, <1>3, <1>4, <1>5, PatchesAgree, PatchStepsAgree DEF ConfigMoves, ConfigNext

Configured == Counted /\ Halted /\ Polling /\ Settled /\ Alone /\ Locked /\ Agreed

(* The server starts as configured.                                        *)
LEMMA InitConfigured == ConfigInit => Configured
<1> SUFFICES ASSUME ConfigInit PROVE Configured
  OBVIOUS
<1>1. PICK c \in Setting :
        /\ file = c /\ cfg = c /\ gateway = c.gateway /\ c.gateway \in BOOLEAN
        /\ pool = [inUse |-> 0, capacity |-> Clamped(c.slots)]
        /\ Clamped(c.slots) \in Slots \cup {1}
        /\ pollers = (IF c.poll THEN {[n |-> 1, checks |-> FALSE]} ELSE {})
        /\ statusPoller = (IF c.poll THEN 1 ELSE 0) /\ started = 1
  BY LiveConfigAssumption DEF ConfigInit, Loaded, Setting, Clamped
<1>2. /\ holds = {} /\ inFlight = 0 /\ tracked = {} /\ authMu = Nobody /\ pollMu = Nobody
      /\ patch = [a \in Admin |-> Rest] /\ running = TRUE /\ overlapped = {}
  BY DEF ConfigInit
<1>3. Rest \in Patch /\ Rest.pc = "idle" /\ Sensible(Rest)
  BY DEF Rest, Patch, Sensible
<1>4. Counted
  BY <1>1, <1>2, FS_EmptySet DEF Counted
<1>5. Halted /\ Alone /\ Locked
  BY <1>2, <1>3 DEF Halted, Alone, Locked, Patching
<1>6. Polling
  <2>1. CASE c.poll
    <3>1. pollers = {[n |-> 1, checks |-> FALSE]} /\ statusPoller = 1 /\ started = 1
      BY <1>1, <2>1
    <3> QED
      BY <3>1 DEF Polling
  <2>2. CASE ~c.poll
    BY <1>1, <2>2 DEF Polling
  <2> QED
    BY <2>1, <2>2
<1>7. Settled
  BY <1>1, <1>2, <1>3 DEF Settled, Setting
<1>8. Agreed
  <2>1. pool.capacity = Clamped(cfg.slots) /\ cfg.poll \in BOOLEAN
    BY <1>1 DEF Setting
  <2>2. (statusPoller # 0) = cfg.poll
    BY <1>1, <2>1
  <2> QED
    BY <1>1, <2>1, <2>2 DEF Agreed, SlotsAgree, PollAgrees, ChainAgrees, FileAgrees
<1> QED
  BY <1>4, <1>5, <1>6, <1>7, <1>8 DEF Configured

(* Every step keeps it so.                                                 *)
LEMMA MovesConfigured == Configured /\ ConfigMoves => Configured' /\ Gated
<1> SUFFICES ASSUME Configured, ConfigMoves PROVE Configured' /\ Gated
  OBVIOUS
<1>1. Sized /\ file \in Setting \cup {Torn}
  BY DEF Configured, Settled, Sized, Sensible
<1>2. Counted' /\ Gated
  BY <1>1, MovesCounted DEF Configured
<1>3. Halted'
  BY <1>2, MovesHalted DEF Configured, Halted, Counted
<1>4. Polling'
  BY MovesPolling DEF Configured
<1> QED
  BY <1>2, <1>3, <1>4, MovesAgree DEF Configured

(* What that says of the properties.                                       *)
LEMMA ConfiguredFacts ==
  ASSUME Configured
  PROVE  /\ ConfigTypeOK /\ OnePoller /\ LiveAsConfigured
         /\ pool.inUse = Cardinality(holds) /\ inFlight = Cardinality(tracked)
<1>1. ConfigTypeOK
  BY DEF Configured, ConfigTypeOK, Settled, Counted, Polling
<1>2. OnePoller
  <2>1. CASE pollers = {}
    BY <2>1, FS_EmptySet DEF OnePoller
  <2>2. CASE pollers # {}
    <3>1. PICK q \in pollers : pollers = {q}
      BY <2>2 DEF Configured, Polling
    <3>2. Cardinality(pollers) = 1
      BY <3>1, FS_Singleton
    <3> QED
      BY <3>2 DEF OnePoller, Configured, Polling
  <2> QED
    BY <2>1, <2>2
<1>3. LiveAsConfigured
  <2> SUFFICES ASSUME Patching = {}, running
               PROVE  /\ pool.capacity = Clamped(cfg.slots) \/ "slots" \in apart
                      /\ (statusPoller # 0) = cfg.poll \/ "poll" \in apart
                      /\ gateway = cfg.gateway
                      /\ file = cfg \/ "file" \in apart
    BY DEF LiveAsConfigured
  <2>1. \A a \in Admin : patch[a].pc = "idle"
    BY DEF Patching
  <2> QED
    BY <2>1 DEF Configured, Agreed, SlotsAgree, PollAgrees, ChainAgrees, FileAgrees, At
<1> QED
  BY <1>1, <1>2, <1>3 DEF Configured, Counted

-----------------------------------------------------------------------------
(* The audit chain: types.                                                 *)

Entries == [by : {"create", "push", "write", "backfill"}, branch : Branch, commit : Nat]

Work == [pc : {"idle", "receive", "check", "list", "append", "cas"},
         pre : [Branch -> Nat] \cup {NoList}, todo : Seq(Entries), head : Seq(Entries),
         tries : Nat, moved : SUBSET Branch]

\* A history ends in its commit, and every commit comes after those it rests on.
Chrono(h, c) ==
  /\ h \in Seq(Nat) /\ h # <<>> /\ Last(h) = c
  /\ \A i, j \in 1..Len(h) : i < j => h[i] < h[j]

\* What a goroutine is doing, when there are n commits.
Orderly(w, j, n) ==
  /\ j.pc = "idle" => j = Free
  /\ j.pc \in {"append", "cas"} => j.todo # <<>>
  /\ j.pc = "receive" => w \in Pusher /\ j.todo = <<>>
  /\ j.pc \in {"check", "list"} => w = Seeder /\ j.todo \in {<<>>, <<Made>>}
  /\ j.tries < Attempts
  /\ j.pre # NoList => \A b \in Branch : j.pre[b] <= n

LogTyped ==
  /\ log \in Seq(Seq(Nat)) /\ \A c \in 1..Len(log) : Chrono(log[c], c)
  /\ ref \in [Branch -> 0..Len(log)] /\ newest \in [Branch -> 0..Len(log)]
  /\ \A b \in Branch : newest[b] \in {0, ref[b]}

WorkTyped ==
  /\ trail \in Seq(Entries) /\ guarded \in BOOLEAN /\ dropped \subseteq Branch
  /\ phase \in {"down", "boot", "serve"}
  /\ job \in [Worker -> Work] /\ \A w \in Worker : Orderly(w, job[w], Len(log))
  /\ phase = "boot" => \A w \in Worker : job[w].pc # "idle" => w = Seeder
  /\ phase = "down" => \A w \in Worker : job[w].pc = "idle"

Kept == LogTyped /\ WorkTyped

(* Constants of the chain.                                                 *)
LEMMA Values ==
  /\ Made \in Entries /\ NoList \notin [Branch -> Nat]
  /\ Free \in Work /\ Free.pc = "idle" /\ Free.todo = <<>> /\ Free.moved = {} /\ Free.pre = NoList
  /\ Free.tries = 0
  /\ \A w, n : Orderly(w, Free, n)
  /\ \A by \in {"create", "push", "write", "backfill"}, b \in Branch, c \in Nat :
       Entry(by, b, c) \in Entries /\ Entry(by, b, c).branch = b /\ Entry(by, b, c).commit = c
         /\ Entry(by, b, c).by = by
<1>1. \A by \in {"create", "push", "write", "backfill"}, b \in Branch, c \in Nat :
        Entry(by, b, c) \in Entries /\ Entry(by, b, c).branch = b /\ Entry(by, b, c).commit = c
          /\ Entry(by, b, c).by = by
  BY DEF Entry, Entries
<1>2. Made \in Entries
  BY <1>1, AuditAssumption DEF Made
<1>3. DOMAIN NoList = {} /\ Branch # {}
  BY AuditAssumption DEF NoList
<1>4. NoList \notin [Branch -> Nat]
  BY <1>3
<1>5. Free \in Work /\ Free.pc = "idle" /\ Free.todo = <<>> /\ Free.moved = {} /\ Free.pre = NoList
      /\ Free.tries = 0
  BY DEF Free, Work
<1>6. \A w, n : Orderly(w, Free, n)
  BY <1>5, AuditAssumption DEF Orderly
<1> QED
  BY <1>1, <1>2, <1>4, <1>5, <1>6

(* A goroutine goes on, and the others do not.                             *)
LEMMA WorkGoes ==
  ASSUME Kept, NEW w \in Worker, NEW j \in Work, Goes(w, j), Orderly(w, j, Len(log')),
         Len(log) <= Len(log'), Len(log) \in Nat, Len(log') \in Nat, LogTyped',
         trail' \in Seq(Entries), dropped' \subseteq Branch, UNCHANGED <<guarded, phase>>,
         job[w].pc # "idle" \/ phase = "serve"
  PROVE  Kept' /\ job'[w] = j /\ \A v \in Worker \ {w} : job'[v] = job[v]
<1>1. job' = [job EXCEPT ![w] = j] /\ job \in [Worker -> Work]
  BY DEF Goes, Kept, WorkTyped
<1>2. job'[w] = j /\ \A v \in Worker \ {w} : job'[v] = job[v]
  BY <1>1
<1>3. \A v \in Worker \ {w} : Orderly(v, job[v], Len(log'))
  <2> SUFFICES ASSUME NEW v \in Worker \ {w} PROVE Orderly(v, job[v], Len(log'))
    OBVIOUS
  <2>1. Orderly(v, job[v], Len(log)) /\ job[v].pre \in [Branch -> Nat] \cup {NoList}
    BY DEF Kept, WorkTyped, Work
  <2> QED
    BY <2>1 DEF Orderly
<1>4. WorkTyped'
  BY <1>1, <1>2, <1>3 DEF Kept, WorkTyped
<1> QED
  BY <1>2, <1>4 DEF Kept

(* What is left of the entries a goroutine was to append.                  *)
LEMMA OnwardType ==
  ASSUME Kept, NEW w \in Worker, job[w].pc \in {"append", "cas"}, NEW done \in BOOLEAN
  PROVE  /\ Onward(w, done) \in Work /\ \A n : Orderly(w, Onward(w, done), n)
         /\ Onward(w, done).moved = {} /\ Onward(w, done).pc \in {"idle", "append"}
         /\ done \/ w # Seeder => Onward(w, done).todo = Tail(job[w].todo)
         /\ ~done /\ w = Seeder => Onward(w, done).todo \in {<<>>, <<Made>>}
<1> DEFINE rest == Tail(job[w].todo)
           left == IF done \/ w # Seeder THEN rest
                   ELSE IF rest # <<>> /\ Last(rest) = Made THEN <<Made>> ELSE <<>>
<1>1. job[w].todo \in Seq(Entries) /\ job[w].todo # <<>>
  BY DEF Kept, WorkTyped, Work, Orderly
<1>2. rest \in Seq(Entries)
  BY <1>1, HeadTailProperties
<1>3. left \in Seq(Entries)
  BY <1>2, Values
<1>4. Onward(w, done) = IF left = <<>> THEN Free ELSE [Free EXCEPT !.pc = "append", !.todo = left]
  BY DEF Onward
<1>5. done \/ w # Seeder => left = rest
  OBVIOUS
<1>6. ~done /\ w = Seeder => left \in {<<>>, <<Made>>}
  OBVIOUS
<1> HIDE DEF left, rest
<1>7. CASE left = <<>>
  <2>1. Onward(w, done) = Free
    BY <1>4, <1>7
  <2>2. done \/ w # Seeder => Free.todo = rest
    BY <1>5, <1>7, Values
  <2>3. ~done /\ w = Seeder => Free.todo \in {<<>>, <<Made>>}
    BY Values
  <2> QED
    BY <2>1, <2>2, <2>3, Values DEF rest
<1>8. CASE left # <<>>
  <2> DEFINE j == [Free EXCEPT !.pc = "append", !.todo = left]
  <2>1. j \in Work /\ j.pc = "append" /\ j.todo = left /\ j.moved = {} /\ j.pre = NoList
        /\ j.tries = 0
    BY <1>3, Values DEF Work
  <2> HIDE DEF j
  <2>2. \A n : Orderly(w, j, n)
    BY <1>8, <2>1, AuditAssumption DEF Orderly
  <2>3. Onward(w, done) = j
    BY <1>4, <1>8 DEF j
  <2> QED
    BY <1>5, <1>6, <2>1, <2>2, <2>3 DEF rest
<1> QED
  BY <1>7, <1>8

(* A set of branches in some order.                                        *)
LEMMA InOrder ==
  ASSUME NEW bs \in SUBSET Branch
  PROVE  /\ SetToSeq(bs) \in Seq(bs)
         /\ \A b \in bs : \E i \in DOMAIN SetToSeq(bs) : SetToSeq(bs)[i] = b
<1> DEFINE n == Cardinality(bs)
<1>1. IsFiniteSet(bs)
  BY AuditAssumption, FS_Subset
<1>2. n \in Nat /\ ExistsBijection(1..n, bs)
  BY <1>1, FS_CardinalityType
<1>3. IsFiniteSet(1..n) /\ Cardinality(1..n) = n
  BY <1>2, FS_Interval
<1>4. \E f \in [1..n -> bs] : IsInjective(f)
  BY <1>2 DEF ExistsBijection, Bijection, Injection
<1>5. SetToSeq(bs) \in [1..n -> bs] /\ IsInjective(SetToSeq(bs))
  BY <1>4 DEF SetToSeq
<1>6. SetToSeq(bs) \in Injection(1..n, bs)
  BY <1>5 DEF Injection
<1> HIDE DEF n
<1>7. SetToSeq(bs) \in Surjection(1..n, bs)
  BY <1>1, <1>3, <1>6, FS_Injection DEF n
<1>8. \A b \in bs : \E i \in 1..n : SetToSeq(bs)[i] = b
  BY <1>7 DEF Surjection
<1>9. SetToSeq(bs) \in Seq(bs)
  BY <1>2, <1>5, SeqDef
<1> QED
  BY <1>5, <1>8, <1>9

-----------------------------------------------------------------------------
(* The audit chain: what it owes, and what it was seeded with.             *)

Told(b, es) == \E i \in 1..Len(es) : es[i].commit = ref[b] /\ es[i].branch = b

\* A goroutine will tell of the commit its branch stands at, or that nobody does.
Cares(j, b) ==
  \/ Told(b, j.todo)
  \/ j.pc = "receive" /\ b \in j.moved /\ (j.pre = NoList \/ j.pre[b] # ref[b])

Owed ==
  \A b \in Branch : \/ b \in dropped \/ newest[b] = 0 \/ Told(b, trail)
                    \/ \E w \in Worker : Cares(job[w], b)

Backfill(e) == e.by = "backfill"
Rising(es) ==
  \A i, j \in 1..Len(es) :
    i < j /\ Backfill(es[i]) /\ Backfill(es[j]) => es[i].commit < es[j].commit
Below(es, later) ==
  \A i \in 1..Len(es), j \in 1..Len(later) :
    Backfill(es[i]) /\ Backfill(later[j]) => es[i].commit < later[j].commit
NoBackfill(es) == \A i \in 1..Len(es) : ~Backfill(es[i])

\* Only the seeder back-fills, and each commit after those the chain has.
SeedsWell(w, j, es) ==
  IF w # Seeder THEN NoBackfill(j.todo)
  ELSE /\ \A i \in 1..Len(j.todo) : j.todo[i].branch = Main
       /\ Rising(j.todo) /\ Below(es, j.todo) /\ (j.pc = "list" => NoBackfill(es))

Seeding == Rising(trail) /\ \A w \in Worker : SeedsWell(w, job[w], trail)

AuditInv == Kept /\ Owed /\ Seeding
TrailStep == IsPrefix(trail, trail') \/ ~guarded

(* Short plans.                                                            *)
LEMMA ShortPlans ==
  /\ Len(<<>>) = 0 /\ Len(<<Made>>) = 1 /\ <<Made>>[1] = Made
  /\ Made.branch = Main /\ ~Backfill(Made) /\ Made.commit = 0
  /\ \A w, es, j : j.todo \in {<<>>, <<Made>>} /\ j.pc # "list" => SeedsWell(w, j, es)
<1>1. Made.branch = Main /\ ~Backfill(Made) /\ Made.commit = 0
  BY DEF Made, Entry, Backfill
<1>2. Len(<<>>) = 0 /\ Len(<<Made>>) = 1 /\ <<Made>>[1] = Made
  OBVIOUS
<1>3. ASSUME NEW w, NEW es, NEW j, j.todo \in {<<>>, <<Made>>}, j.pc # "list"
      PROVE  SeedsWell(w, j, es)
  <2>1. CASE j.todo = <<>>
    BY <1>2, <1>3, <2>1 DEF SeedsWell, Rising, Below, NoBackfill
  <2>2. CASE j.todo = <<Made>>
    <3>1. Len(j.todo) = 1 /\ j.todo[1] = Made
      BY <1>2, <2>2
    <3>2. \A i \in 1..Len(j.todo) : j.todo[i] = Made
      BY <3>1
    <3> QED
      BY <1>1, <1>3, <3>1, <3>2 DEF SeedsWell, Rising, Below, NoBackfill
  <2> QED
    BY <1>3, <2>1, <2>2
<1> QED
  BY <1>1, <1>2, <1>3

(* A step of one goroutine that leaves branches and chain alone.           *)
LEMMA QuietStep ==
  ASSUME AuditInv, NEW w \in Worker, NEW j \in Work, Goes(w, j), Orderly(w, j, Len(log)),
         UNCHANGED <<ref, log, newest, trail, guarded, phase>>,
         dropped \subseteq dropped', dropped' \subseteq Branch,
         job[w].pc # "idle" \/ phase = "serve", SeedsWell(w, j, trail),
         \A b \in Branch \ dropped' : newest[b] # 0 /\ Cares(job[w], b) => Cares(j, b)
  PROVE  AuditInv' /\ TrailStep
<1>1. LogTyped' /\ Len(log) \in Nat /\ trail \in Seq(Entries)
  BY DEF AuditInv, Kept, LogTyped, WorkTyped
<1>2. Kept' /\ job'[w] = j /\ \A v \in Worker \ {w} : job'[v] = job[v]
  BY <1>1, WorkGoes DEF AuditInv
<1>3. Owed'
  <2> SUFFICES ASSUME NEW b \in Branch, b \notin dropped', newest[b] # 0, ~Told(b, trail)
               PROVE  \E v \in Worker : Cares(job'[v], b)
    BY DEF Owed, Cares, Told
  <2>1. PICK v \in Worker : Cares(job[v], b)
    BY DEF AuditInv, Owed
  <2> QED
    BY <1>2, <2>1
<1>4. Seeding'
  BY <1>2 DEF AuditInv, Seeding
<1>5. TrailStep
  BY <1>1 DEF TrailStep, IsPrefix
<1> QED
  BY <1>2, <1>3, <1>4, <1>5 DEF AuditInv

(* What is left of a plan once its first entry is done with.               *)
LEMMA Shifted ==
  ASSUME NEW es \in Seq(Entries), es # <<>>
  PROVE  /\ Tail(es) \in Seq(Entries) /\ Len(Tail(es)) = Len(es) - 1 /\ Len(es) \in Nat \ {0}
         /\ \A i \in 1..Len(Tail(es)) : Tail(es)[i] = es[i + 1]
         /\ Head(es) = es[1] /\ Head(es) \in Entries
         /\ \A b : Told(b, es) => Told(b, Tail(es))
                                    \/ (Head(es).commit = ref[b] /\ Head(es).branch = b)
<1>1. /\ Tail(es) \in Seq(Entries) /\ Len(Tail(es)) = Len(es) - 1 /\ Len(es) \in Nat \ {0}
      /\ \A i \in 1..Len(Tail(es)) : Tail(es)[i] = es[i + 1]
      /\ Head(es) = es[1] /\ Head(es) \in Entries
  BY HeadTailProperties, EmptySeq
<1>2. ASSUME NEW b, NEW i \in 1..Len(es), es[i].commit = ref[b], es[i].branch = b
      PROVE  Told(b, Tail(es)) \/ (Head(es).commit = ref[b] /\ Head(es).branch = b)
  <2>1. CASE i = 1
    BY <1>1, <1>2, <2>1
  <2>2. CASE i # 1
    <3>1. i - 1 \in 1..Len(Tail(es)) /\ Tail(es)[i - 1] = es[i]
      BY <1>1, <2>2
    <3> QED
      BY <1>2, <3>1 DEF Told
  <2> QED
    BY <2>1, <2>2
<1> QED
  BY <1>1, <1>2 DEF Told

(* The rest of a plan seeds as well as the plan.                           *)
LEMMA RestSeedsWell ==
  ASSUME NEW w, NEW j, NEW k, NEW es, j.todo \in Seq(Entries), j.todo # <<>>,
         k.todo = Tail(j.todo), k.pc # "list", SeedsWell(w, j, es)
  PROVE  SeedsWell(w, k, es)
<1>1. /\ Len(Tail(j.todo)) = Len(j.todo) - 1 /\ Len(j.todo) \in Nat \ {0}
      /\ \A i \in 1..Len(Tail(j.todo)) : Tail(j.todo)[i] = j.todo[i + 1]
  BY Shifted
<1>2. CASE w # Seeder
  BY <1>1, <1>2 DEF SeedsWell, NoBackfill
<1>3. CASE w = Seeder
  <2>1. \A i \in 1..Len(k.todo) : k.todo[i].branch = Main
    BY <1>1, <1>3 DEF SeedsWell
  <2>2. Rising(k.todo)
    <3> SUFFICES ASSUME NEW i \in 1..Len(k.todo), NEW h \in 1..Len(k.todo), i < h,
                        Backfill(k.todo[i]), Backfill(k.todo[h])
                 PROVE  k.todo[i].commit < k.todo[h].commit
      BY DEF Rising
    <3>1. i + 1 \in 1..Len(j.todo) /\ h + 1 \in 1..Len(j.todo) /\ i + 1 < h + 1
          /\ k.todo[i] = j.todo[i + 1] /\ k.todo[h] = j.todo[h + 1]
      BY <1>1
    <3> QED
      BY <1>3, <3>1 DEF SeedsWell, Rising
  <2>3. Below(es, k.todo)
    BY <1>1, <1>3 DEF SeedsWell, Below
  <2> QED
    BY <1>3, <2>1, <2>2, <2>3 DEF SeedsWell
<1> QED
  BY <1>2, <1>3

(* A range says how long it is.                                            *)
LEMMA SameLength ==
  ASSUME NEW m \in Nat, NEW n \in Nat, 1..m = 1..n
  PROVE  m = n
<1>1. CASE m < n
  <2>1. n \in 1..n /\ n \notin 1..m
    BY <1>1
  <2> QED
    BY <2>1
<1>2. CASE n < m
  <2>1. m \in 1..m /\ m \notin 1..n
    BY <1>2
  <2> QED
    BY <2>1
<1> QED
  BY <1>1, <1>2

(* The entries of a push tell of every branch that moved.                  *)
LEMMA ChangesTell ==
  ASSUME LogTyped, NEW pre \in [Branch -> Nat]
  PROVE  /\ Changes(pre) \in Seq(Entries) /\ NoBackfill(Changes(pre))
         /\ Changed(pre) # {} => Changes(pre) # <<>>
         /\ \A b \in Branch : ref[b] # 0 /\ pre[b] # ref[b] => Told(b, Changes(pre))
<1> DEFINE bs == SetToSeq(Changed(pre))
           commit(b) == IF ref[b] = 0 THEN pre[b] ELSE ref[b]
<1>1. Changed(pre) \in SUBSET Branch
  BY DEF Changed
<1>2. bs \in Seq(Changed(pre)) /\ \A b \in Changed(pre) : \E i \in DOMAIN bs : bs[i] = b
  BY <1>1, InOrder
<1> HIDE DEF bs
<1>3. Len(bs) \in Nat /\ DOMAIN bs = 1..Len(bs) /\ \A i \in 1..Len(bs) : bs[i] \in Branch
  BY <1>1, <1>2, LenProperties
<1>4. Changes(pre) = [i \in 1..Len(bs) |-> Entry("push", bs[i], commit(bs[i]))]
  BY <1>3 DEF Changes, bs
<1>5. \A b \in Branch : commit(b) \in Nat
  BY DEF LogTyped
<1> HIDE DEF commit
<1>6. \A i \in 1..Len(bs) : /\ Changes(pre)[i] \in Entries /\ Changes(pre)[i].by = "push"
                            /\ Changes(pre)[i].branch = bs[i]
                            /\ Changes(pre)[i].commit = commit(bs[i])
  BY <1>3, <1>4, <1>5, Values
<1>7. Changes(pre) \in [1..Len(bs) -> Entries]
  BY <1>4, <1>6
<1>8. Changes(pre) \in Seq(Entries) /\ Len(Changes(pre)) = Len(bs)
  <2>1. Changes(pre) \in Seq(Entries)
    BY <1>3, <1>7, SeqDef
  <2>2. DOMAIN Changes(pre) = 1..Len(Changes(pre)) /\ Len(Changes(pre)) \in Nat
    BY <2>1, LenProperties
  <2>3. DOMAIN Changes(pre) = 1..Len(bs)
    BY <1>7
  <2> QED
    BY <1>3, <2>1, <2>2, <2>3, SameLength
<1>9. NoBackfill(Changes(pre))
  BY <1>6, <1>8 DEF NoBackfill, Backfill
<1>10. ASSUME Changed(pre) # {} PROVE Changes(pre) # <<>>
  <2>1. \E i \in 1..Len(bs) : TRUE
    BY <1>2, <1>3, <1>10
  <2> QED
    BY <1>3, <1>8, <2>1, EmptySeq
<1>11. ASSUME NEW b \in Branch, ref[b] # 0, pre[b] # ref[b] PROVE Told(b, Changes(pre))
  <2>1. PICK i \in 1..Len(bs) : bs[i] = b
    BY <1>2, <1>3, <1>11 DEF Changed
  <2> QED
    BY <1>6, <1>8, <1>11, <2>1 DEF Told, commit
<1> QED
  BY <1>8, <1>9, <1>10, <1>11

(* The entries of a seeding are those of the history of a branch.          *)
LEMMA SeedsRise ==
  ASSUME LogTyped, NEW c \in 0..Len(log)
  PROVE  /\ Seeds(c) \in Seq(Entries) /\ Rising(Seeds(c))
         /\ \A i \in 1..Len(Seeds(c)) : Seeds(c)[i].branch = Main
<1> DEFINE h == History(c)
<1>1. h \in Seq(Nat) /\ Len(log) \in Nat /\ \A i, j \in 1..Len(h) : i < j => h[i] < h[j]
  <2>1. CASE c = 0
    BY <2>1, EmptySeq DEF History, LogTyped
  <2>2. CASE c # 0
    BY <2>2 DEF History, LogTyped, Chrono
  <2> QED
    BY <2>1, <2>2
<1> HIDE DEF h
<1>2. Len(h) \in Nat /\ DOMAIN h = 1..Len(h) /\ \A i \in 1..Len(h) : h[i] \in Nat
  BY <1>1, LenProperties
<1>3. Seeds(c) = [i \in 1..Len(h) |-> Entry("backfill", Main, h[i])]
  BY <1>2 DEF Seeds, h
<1>4. \A i \in 1..Len(h) : /\ Seeds(c)[i] \in Entries /\ Seeds(c)[i].branch = Main
                           /\ Seeds(c)[i].commit = h[i]
  BY <1>2, <1>3, AuditAssumption, Values
<1>5. Seeds(c) \in [1..Len(h) -> Entries]
  BY <1>3, <1>4
<1>6. Seeds(c) \in Seq(Entries) /\ Len(Seeds(c)) = Len(h)
  <2>1. Seeds(c) \in Seq(Entries)
    BY <1>2, <1>5, SeqDef
  <2>2. DOMAIN Seeds(c) = 1..Len(Seeds(c)) /\ Len(Seeds(c)) \in Nat
    BY <2>1, LenProperties
  <2>3. DOMAIN Seeds(c) = 1..Len(h)
    BY <1>5
  <2> QED
    BY <1>2, <2>1, <2>2, <2>3, SameLength
<1>7. Rising(Seeds(c))
  BY <1>1, <1>4, <1>6 DEF Rising
<1> QED
  BY <1>4, <1>6, <1>7

(* The seeder makes its plan.                                              *)
LEMMA SeederPlans ==
  ASSUME AuditInv, SeedCheck \/ SeedList
  PROVE  AuditInv' /\ TrailStep
<1> DEFINE made == job[Seeder].todo
           checked == [job[Seeder] EXCEPT !.pc = "list"]
           telling == [job[Seeder] EXCEPT !.pc = "append"]
           todo == Seeds(ref[Main]) \o made
           seeding == [job[Seeder] EXCEPT !.pc = "append", !.todo = todo]
<1>1. /\ Seeder \in Worker /\ job[Seeder] \in Work /\ job[Seeder].pc \in {"check", "list"}
      /\ made \in {<<>>, <<Made>>} /\ Orderly(Seeder, job[Seeder], Len(log))
      /\ SeedsWell(Seeder, job[Seeder], trail) /\ trail \in Seq(Entries) /\ dropped \subseteq Branch
  BY DEF Worker, AuditInv, Kept, WorkTyped, Orderly, Seeding, SeedCheck, SeedList
<1>2. ASSUME NEW b \in Branch, newest[b] # 0 PROVE ~Cares(job[Seeder], b)
  <2>1. ref[b] # 0 /\ job[Seeder].pc # "receive"
    BY <1>1, <1>2 DEF AuditInv, Kept, LogTyped
  <2>2. ~Told(b, made)
    BY <1>1, <2>1, ShortPlans DEF Told
  <2> QED
    BY <2>1, <2>2 DEF Cares
<1>3. ASSUME NEW j \in Work, Goes(Seeder, j), Orderly(Seeder, j, Len(log)),
             SeedsWell(Seeder, j, trail),
             UNCHANGED <<ref, log, trail, guarded, phase, moves, newest, dropped>>
      PROVE  AuditInv' /\ TrailStep
  BY <1>1, <1>2, <1>3, QuietStep
<1>4. CASE SeedCheck
  <2>1. SeedsEmpty => checked \in Work /\ Orderly(Seeder, checked, Len(log))
                        /\ SeedsWell(Seeder, checked, trail)
    <3>1. checked \in Work /\ checked.pc = "list" /\ checked.todo = made
          /\ checked.pre = job[Seeder].pre /\ checked.tries = job[Seeder].tries
      BY <1>1 DEF Work
    <3> HIDE DEF checked
    <3>2. SeedsEmpty => NoBackfill(trail)
      BY ShortPlans DEF SeedsEmpty, NoBackfill
    <3>3. Orderly(Seeder, checked, Len(log))
      BY <1>1, <3>1 DEF Orderly
    <3> QED
      BY <1>1, <3>1, <3>2, <3>3 DEF SeedsWell
  <2>2. made # <<>> => telling \in Work /\ Orderly(Seeder, telling, Len(log))
                        /\ SeedsWell(Seeder, telling, trail)
    <3>1. telling \in Work /\ telling.pc = "append" /\ telling.todo = made
          /\ telling.pre = job[Seeder].pre /\ telling.tries = job[Seeder].tries
      BY <1>1 DEF Work
    <3> HIDE DEF telling
    <3>2. made # <<>> => Orderly(Seeder, telling, Len(log))
      BY <1>1, <3>1 DEF Orderly
    <3> QED
      BY <1>1, <3>1, <3>2 DEF SeedsWell
  <2>3. Free \in Work /\ Orderly(Seeder, Free, Len(log)) /\ SeedsWell(Seeder, Free, trail)
    BY Values, ShortPlans
  <2> QED
    BY <1>3, <1>4, <2>1, <2>2, <2>3 DEF SeedCheck
<1>5. CASE SeedList
  <2>1. job[Seeder].pc = "list" /\ NoBackfill(trail)
    BY <1>1, <1>5 DEF SeedList, SeedsWell
  <2>2. ref[Main] \in 0..Len(log) /\ LogTyped
    BY AuditAssumption DEF AuditInv, Kept, LogTyped
  <2>3. /\ Seeds(ref[Main]) \in Seq(Entries) /\ Rising(Seeds(ref[Main]))
        /\ \A i \in 1..Len(Seeds(ref[Main])) : Seeds(ref[Main])[i].branch = Main
    BY <2>2, SeedsRise
  <2>4. made \in Seq(Entries) /\ \A i \in 1..Len(made) : made[i] = Made
    <3>1. \A i \in 1..Len(made) : made[i] = Made
      BY <1>1, ShortPlans
    <3> QED
      BY <1>1, <3>1 DEF Work
  <2>5. /\ todo \in Seq(Entries) /\ Len(todo) = Len(Seeds(ref[Main])) + Len(made)
        /\ \A i \in 1..Len(todo) :
             todo[i] = IF i <= Len(Seeds(ref[Main])) THEN Seeds(ref[Main])[i]
                       ELSE made[i - Len(Seeds(ref[Main]))]
    BY <2>3, <2>4, ConcatProperties
  <2>6. Len(Seeds(ref[Main])) \in Nat /\ Len(made) \in Nat
    BY <2>3, <2>4, LenProperties
  <2> HIDE DEF todo, made
  <2>7. \A i \in 1..Len(todo) :
          \/ i <= Len(Seeds(ref[Main])) /\ todo[i] = Seeds(ref[Main])[i]
          \/ todo[i] = Made
    <3> SUFFICES ASSUME NEW i \in 1..Len(todo), ~(i <= Len(Seeds(ref[Main])))
                 PROVE  todo[i] = Made
      BY <2>5
    <3>1. i - Len(Seeds(ref[Main])) \in 1..Len(made)
      BY <2>5, <2>6
    <3> QED
      BY <2>4, <2>5, <3>1
  <2>8. Rising(todo) /\ \A i \in 1..Len(todo) : todo[i].branch = Main
    BY <2>3, <2>6, <2>7, ShortPlans DEF Rising
  <2>9. CASE todo = <<>>
    <3>1. Goes(Seeder, Free)
          /\ UNCHANGED <<ref, log, trail, guarded, phase, moves, newest, dropped>>
      BY <1>5, <2>9 DEF SeedList, todo, made
    <3> QED
      BY <1>3, <3>1, Values, ShortPlans
  <2>10. CASE todo # <<>>
    <3>1. Goes(Seeder, seeding)
          /\ UNCHANGED <<ref, log, trail, guarded, phase, moves, newest, dropped>>
      BY <1>5, <2>10 DEF SeedList, todo, made
    <3>2. seeding \in Work /\ seeding.pc = "append" /\ seeding.todo = todo
          /\ seeding.pre = job[Seeder].pre /\ seeding.tries = job[Seeder].tries
      BY <1>1, <2>5 DEF Work
    <3> HIDE DEF seeding
    <3>3. Orderly(Seeder, seeding, Len(log))
      BY <1>1, <2>10, <3>2 DEF Orderly
    <3>4. SeedsWell(Seeder, seeding, trail)
      BY <2>1, <2>8, <3>2 DEF SeedsWell, Below, NoBackfill
    <3> QED
      BY <1>3, <3>1, <3>2, <3>3, <3>4
  <2> QED
    BY <2>9, <2>10
<1> QED
  BY <1>4, <1>5

(* A push is let in, and its receive-pack ends.                            *)
LEMMA PushesTold ==
  ASSUME AuditInv, NEW p \in Pusher, BeginPush(p) \/ Received(p)
  PROVE  AuditInv' /\ TrailStep
<1>1. /\ p \in Worker /\ p # Seeder /\ job[p] \in Work /\ Orderly(p, job[p], Len(log))
      /\ trail \in Seq(Entries) /\ dropped \subseteq Branch /\ LogTyped /\ Len(log) \in Nat
  BY AuditAssumption DEF Worker, AuditInv, Kept, WorkTyped, LogTyped
<1>2. SeedsWell(p, Free, trail)
  BY Values, ShortPlans
<1>3. CASE BeginPush(p)
  <2>1. PICK pre \in {ref, NoList} : Goes(p, [Free EXCEPT !.pc = "receive", !.pre = pre])
    BY <1>3 DEF BeginPush
  <2>2. /\ job[p] = Free /\ phase = "serve"
        /\ UNCHANGED <<ref, log, trail, guarded, phase, newest, dropped>>
    BY <1>1, <1>3 DEF BeginPush, Orderly
  <2> DEFINE j == [Free EXCEPT !.pc = "receive", !.pre = pre]
  <2>3. pre \in [Branch -> Nat] \cup {NoList}
        /\ (pre # NoList => \A b \in Branch : pre[b] <= Len(log))
    BY <1>1, <2>1 DEF LogTyped
  <2>4. j \in Work /\ j.pc = "receive" /\ j.pre = pre /\ j.todo = <<>> /\ j.tries = 0
    BY <2>3, Values DEF Work
  <2> HIDE DEF j
  <2>5. Orderly(p, j, Len(log)) /\ SeedsWell(p, j, trail)
    BY <2>3, <2>4, AuditAssumption, ShortPlans DEF Orderly
  <2>6. \A b : ~Cares(job[p], b)
    BY <2>2, Values, ShortPlans DEF Cares, Told
  <2>7. Goes(p, j)
    BY <2>1 DEF j
  <2> QED
    BY <1>1, <2>2, <2>4, <2>5, <2>6, <2>7, QuietStep
<1>4. CASE Received(p)
  <2>1. /\ job[p].pc = "receive" /\ job[p].todo = <<>>
        /\ UNCHANGED <<ref, log, trail, guarded, phase, moves, newest>>
    BY <1>1, <1>4 DEF Received, Orderly
  <2>2. \A b : ~Told(b, job[p].todo)
    BY <2>1, ShortPlans DEF Told
  <2>3. CASE Goes(p, Free) /\ dropped' = dropped \cup job[p].moved
    <3>1. job[p].moved \subseteq Branch
      BY <1>1 DEF Work
    <3>2. \A b \in Branch \ dropped' : ~Cares(job[p], b)
      BY <2>2, <2>3 DEF Cares
    <3> QED
      BY <1>1, <1>2, <2>1, <2>3, <3>1, <3>2, Values, QuietStep
  <2>4. CASE /\ job[p].pre # NoList /\ UNCHANGED dropped
             /\ Goes(p, IF Changed(job[p].pre) = {} THEN Free
                        ELSE [Free EXCEPT !.pc = "append", !.todo = Changes(job[p].pre)])
    <3> DEFINE pre == job[p].pre
               j == [Free EXCEPT !.pc = "append", !.todo = Changes(pre)]
    <3>1. pre \in [Branch -> Nat]
      BY <1>1, <2>4 DEF Work
    <3>2. /\ Changes(pre) \in Seq(Entries) /\ NoBackfill(Changes(pre))
          /\ Changed(pre) # {} => Changes(pre) # <<>>
          /\ \A b \in Branch : ref[b] # 0 /\ pre[b] # ref[b] => Told(b, Changes(pre))
      BY <1>1, <3>1, ChangesTell
    <3>3. j \in Work /\ j.pc = "append" /\ j.todo = Changes(pre) /\ j.tries = 0 /\ j.pre = NoList
      BY <3>2, Values DEF Work
    <3>4. ASSUME NEW b \in Branch, newest[b] # 0, Cares(job[p], b)
          PROVE  ref[b] # 0 /\ pre[b] # ref[b]
      BY <1>1, <2>2, <2>4, <3>4 DEF Cares, LogTyped
    <3>5. CASE Changed(pre) = {}
      <4>1. \A b \in Branch : newest[b] # 0 => ~Cares(job[p], b)
        BY <3>4, <3>5 DEF Changed
      <4>2. Goes(p, Free)
        BY <2>4, <3>5
      <4> QED
        BY <1>1, <1>2, <2>1, <2>4, <4>1, <4>2, Values, QuietStep
    <3>6. CASE Changed(pre) # {}
      <4>1. Goes(p, j)
        BY <2>4, <3>6
      <4> HIDE DEF j
      <4>2. Orderly(p, j, Len(log)) /\ SeedsWell(p, j, trail)
        BY <1>1, <3>2, <3>3, <3>6, AuditAssumption DEF Orderly, SeedsWell
      <4>3. \A b \in Branch : newest[b] # 0 /\ Cares(job[p], b) => Cares(j, b)
        BY <3>2, <3>3, <3>4 DEF Cares
      <4> QED
        BY <1>1, <2>1, <2>4, <3>3, <4>1, <4>2, <4>3, QuietStep
    <3> QED
      BY <3>5, <3>6
  <2> QED
    BY <1>4, <2>3, <2>4 DEF Received
<1> QED
  BY <1>3, <1>4

(* The rounds of an append that add nothing.                               *)
LEMMA RoundsTold ==
  ASSUME AuditInv, NEW w \in Worker, ReadHead(w) \/ LoseRace(w) \/ AppendFails(w)
  PROVE  AuditInv' /\ TrailStep
<1>1. /\ job[w] \in Work /\ Orderly(w, job[w], Len(log)) /\ job[w].pc \in {"append", "cas"}
      /\ trail \in Seq(Entries) /\ dropped \subseteq Branch /\ SeedsWell(w, job[w], trail)
  BY DEF AuditInv, Kept, WorkTyped, Seeding, ReadHead, LoseRace, AppendFails
<1>2. ASSUME NEW j \in Work, Goes(w, j), j.todo = job[w].todo, j.pc \in {"append", "cas"},
             j.tries < Attempts, j.pre = job[w].pre,
             UNCHANGED <<ref, log, trail, guarded, phase, moves, newest, dropped>>
      PROVE  AuditInv' /\ TrailStep
  <2>1. Orderly(w, j, Len(log)) /\ SeedsWell(w, j, trail)
    BY <1>1, <1>2 DEF Orderly, SeedsWell
  <2>2. \A b : Cares(job[w], b) => Cares(j, b)
    BY <1>1, <1>2 DEF Cares
  <2> QED
    BY <1>1, <1>2, <2>1, <2>2, QuietStep
<1>3. CASE ReadHead(w)
  <2> DEFINE j == [job[w] EXCEPT !.pc = "cas", !.head = trail]
  <2>1. j \in Work /\ j.pc = "cas" /\ j.todo = job[w].todo /\ j.tries = job[w].tries
        /\ j.pre = job[w].pre
    BY <1>1 DEF Work
  <2>2. Goes(w, j) /\ UNCHANGED <<ref, log, trail, guarded, phase, moves, newest, dropped>>
    BY <1>3 DEF ReadHead
  <2> HIDE DEF j
  <2> QED
    BY <1>1, <1>2, <2>1, <2>2 DEF Orderly
<1>4. CASE LoseRace(w)
  <2> DEFINE j == [job[w] EXCEPT !.pc = "append", !.head = <<>>, !.tries = @ + 1]
  <2>0. <<>> \in Seq(Entries) /\ job[w].tries + 1 \in Nat
    BY <1>1 DEF Work
  <2>1. j \in Work /\ j.pc = "append" /\ j.todo = job[w].todo /\ j.tries = job[w].tries + 1
        /\ j.pre = job[w].pre
    BY <1>1, <2>0 DEF Work
  <2>2. Goes(w, j) /\ UNCHANGED <<ref, log, trail, guarded, phase, moves, newest, dropped>>
        /\ job[w].tries + 1 < Attempts
    BY <1>4 DEF LoseRace, MayRetry
  <2> HIDE DEF j
  <2> QED
    BY <1>2, <2>1, <2>2
<1>5. CASE AppendFails(w)
  <2> DEFINE j == Onward(w, FALSE)
             e == Head(job[w].todo)
  <2>1. /\ Goes(w, j) /\ dropped' = dropped \cup {e.branch}
        /\ UNCHANGED <<ref, log, trail, guarded, phase, newest>>
    BY <1>5 DEF AppendFails
  <2>2. /\ j \in Work /\ \A n : Orderly(w, j, n)
        /\ j.pc \in {"idle", "append"}
        /\ w # Seeder => j.todo = Tail(job[w].todo)
        /\ w = Seeder => j.todo \in {<<>>, <<Made>>}
    BY <1>1, OnwardType DEF AuditInv
  <2> HIDE DEF j
  <2>3. job[w].todo \in Seq(Entries) /\ job[w].todo # <<>>
    BY <1>1 DEF Work, Orderly
  <2>4. e \in Entries /\ e = job[w].todo[1] /\ Len(job[w].todo) \in Nat \ {0}
        /\ \A b : Told(b, job[w].todo) => Told(b, Tail(job[w].todo)) \/ e.branch = b
    BY <2>3, Shifted
  <2> HIDE DEF e
  <2>5. dropped' \subseteq Branch
    BY <1>1, <2>1, <2>4 DEF Entries
  <2>6. SeedsWell(w, j, trail)
    <3>1. CASE w = Seeder
      BY <2>2, <3>1, ShortPlans
    <3>2. CASE w # Seeder
      BY <1>1, <2>2, <2>3, <3>2, RestSeedsWell
    <3> QED
      BY <3>1, <3>2
  <2>7. ASSUME NEW b \in Branch \ dropped', Cares(job[w], b) PROVE Cares(j, b)
    <3>1. Told(b, job[w].todo) /\ b # e.branch
      BY <1>1, <2>1, <2>7 DEF Cares
    <3>2. w # Seeder
      BY <1>1, <2>4, <3>1 DEF SeedsWell, Told
    <3> QED
      BY <2>2, <2>4, <3>1, <3>2 DEF Cares
  <2> QED
    BY <1>1, <2>1, <2>2, <2>5, <2>6, <2>7, QuietStep
<1> QED
  BY <1>3, <1>4, <1>5

(* An entry is added.                                                      *)
LEMMA ExtendTold ==
  ASSUME AuditInv, NEW w \in Worker, Extend(w)
  PROVE  AuditInv' /\ TrailStep
<1> DEFINE j == Onward(w, TRUE)
           todo == job[w].todo
           e == Head(todo)
<1>1. /\ job[w] \in Work /\ Orderly(w, job[w], Len(log)) /\ job[w].pc = "cas"
      /\ trail \in Seq(Entries) /\ LogTyped /\ Len(log) \in Nat /\ dropped \subseteq Branch
      /\ trail' = Append(trail, e) /\ Goes(w, j)
      /\ UNCHANGED <<ref, log, guarded, phase, newest, dropped>>
  <2>1. /\ job[w].pc = "cas" /\ job[w].head = trail /\ trail' = Append(job[w].head, e)
        /\ Goes(w, j) /\ UNCHANGED <<ref, log, guarded, phase, newest, dropped>>
    BY DEF Extend, Current
  <2>2. LogTyped /\ WorkTyped
    BY DEF AuditInv, Kept
  <2>3. Len(log) \in Nat
    BY <2>2 DEF LogTyped
  <2> QED
    BY <2>1, <2>2, <2>3 DEF WorkTyped
<1>2. /\ j \in Work /\ \A n : Orderly(w, j, n) /\ j.pc \in {"idle", "append"}
      /\ j.todo = Tail(todo)
  BY <1>1, OnwardType DEF AuditInv
<1> HIDE DEF j
<1>3. todo \in Seq(Entries) /\ todo # <<>>
  BY <1>1 DEF Work, Orderly
<1>4. /\ e \in Entries /\ e = todo[1] /\ Len(todo) \in Nat \ {0} /\ Len(Tail(todo)) = Len(todo) - 1
      /\ \A i \in 1..Len(Tail(todo)) : Tail(todo)[i] = todo[i + 1]
      /\ \A b : Told(b, todo) => Told(b, Tail(todo)) \/ (e.commit = ref[b] /\ e.branch = b)
  BY <1>3, Shifted
<1> HIDE DEF e
<1>5. /\ trail' \in Seq(Entries) /\ Len(trail') = Len(trail) + 1 /\ Len(trail) \in Nat
      /\ \A i \in 1..Len(trail) : trail'[i] = trail[i]
      /\ trail'[Len(trail) + 1] = e
  BY <1>1, <1>4, AppendProperties, LenProperties
<1>6. LogTyped'
  BY <1>1 DEF LogTyped, Chrono
<1>7. Kept' /\ job'[w] = j /\ \A v \in Worker \ {w} : job'[v] = job[v]
  BY <1>1, <1>2, <1>5, <1>6, WorkGoes DEF AuditInv
<1>8. Owed'
  <2> SUFFICES ASSUME NEW b \in Branch, b \notin dropped, newest[b] # 0
               PROVE  Told(b, trail)' \/ \E v \in Worker : Cares(job'[v], b)
    BY <1>1 DEF Owed, Cares, Told
  <2>1. CASE Told(b, trail)
    BY <1>1, <1>5, <2>1 DEF Told
  <2>2. ASSUME NEW v \in Worker \ {w}, Cares(job[v], b) PROVE Cares(job'[v], b)
    BY <1>7, <2>2
  <2>3. CASE Cares(job[w], b)
    <3>1. Told(b, todo)
      BY <1>1, <2>3 DEF Cares
    <3>2. CASE Told(b, Tail(todo))
      BY <1>2, <1>7, <3>2 DEF Cares
    <3>3. CASE e.commit = ref[b] /\ e.branch = b
      BY <1>1, <1>5, <3>3 DEF Told
    <3> QED
      BY <1>4, <3>1, <3>2, <3>3
  <2> QED
    BY <2>1, <2>2, <2>3 DEF AuditInv, Owed
<1>9. Seeding'
  <2>1. Rising(trail) /\ \A v \in Worker : SeedsWell(v, job[v], trail)
    BY DEF AuditInv, Seeding
  <2>2. w # Seeder => ~Backfill(e)
    BY <1>4, <2>1 DEF SeedsWell, NoBackfill
  <2>3. w = Seeder => \A i \in 1..Len(trail) :
                         Backfill(trail[i]) /\ Backfill(e) => trail[i].commit < e.commit
    BY <1>4, <2>1 DEF SeedsWell, Below
  <2>4. Rising(trail')
    BY <1>5, <2>1, <2>2, <2>3 DEF Rising
  <2>5. ASSUME NEW v \in Worker \ {w} PROVE SeedsWell(v, job'[v], trail')
    <3>1. job'[v] = job[v] /\ SeedsWell(v, job[v], trail)
      BY <1>7, <2>1
    <3>2. CASE v # Seeder
      BY <3>1, <3>2 DEF SeedsWell
    <3>3. CASE v = Seeder
      <4>1. ~Backfill(e)
        BY <2>2, <2>5, <3>3
      <4>2. Below(trail, job[v].todo) => Below(trail', job[v].todo)
        BY <1>5, <4>1 DEF Below
      <4>3. NoBackfill(trail) => NoBackfill(trail')
        BY <1>5, <4>1 DEF NoBackfill
      <4> QED
        BY <3>1, <3>3, <4>2, <4>3 DEF SeedsWell
    <3> QED
      BY <3>2, <3>3
  <2>6. SeedsWell(w, j, trail)
    BY <1>2, <1>3, <2>1, RestSeedsWell
  <2>7. SeedsWell(w, j, trail')
    <3>1. CASE w # Seeder
      BY <2>6, <3>1 DEF SeedsWell
    <3>2. CASE w = Seeder
      <4>1. \A i \in 1..Len(j.todo) : Backfill(e) /\ Backfill(j.todo[i]) => e.commit < j.todo[i].commit
        BY <1>2, <1>4, <2>1, <3>2 DEF SeedsWell, Rising
      <4>2. Below(trail', j.todo)
        BY <1>5, <2>6, <3>2, <4>1 DEF SeedsWell, Below
      <4> QED
        BY <1>2, <2>6, <3>2, <4>2 DEF SeedsWell
    <3> QED
      BY <3>1, <3>2
  <2> QED
    BY <1>7, <2>4, <2>5, <2>7 DEF Seeding
<1>10. IsPrefix(trail, trail')
  <2>1. SubSeq(trail, 1, Len(trail)) = trail
    BY <1>1
  <2>2. SubSeq(trail', 1, Len(trail)) = trail
    <3>1. /\ SubSeq(trail', 1, Len(trail)) \in Seq(Entries)
          /\ Len(SubSeq(trail', 1, Len(trail))) = Len(trail)
          /\ \A i \in 1..Len(trail) : SubSeq(trail', 1, Len(trail))[i] = trail'[i]
      BY <1>5
    <3> QED
      BY <1>1, <1>5, <3>1, SeqEqual
  <2> QED
    BY <1>5, <2>1, <2>2 DEF IsPrefix
<1> QED
  BY <1>7, <1>8, <1>9, <1>10 DEF AuditInv, TrailStep

(* A commit comes after the history it rests on.                           *)
LEMMA CommitsLater ==
  ASSUME LogTyped, NEW b \in Branch, NEW from \in 0..Len(log), NewCommit(b, from)
  PROVE  /\ LogTyped' /\ Len(log) \in Nat /\ Len(log') = Len(log) + 1
         /\ ref' = [ref EXCEPT ![b] = Len(log) + 1]
         /\ newest' = [newest EXCEPT ![b] = Len(log) + 1] /\ dropped' = dropped \ {b}
<1> DEFINE n == Len(log) + 1
           h == History(from)
           g == Append(h, n)
<1>1. /\ log' = Append(log, g) /\ newest' = [newest EXCEPT ![b] = n]
      /\ ref' = [ref EXCEPT ![b] = n] /\ dropped' = dropped \ {b}
  BY DEF NewCommit, Point
<1>2. log \in Seq(Seq(Nat)) /\ Len(log) \in Nat /\ n \in Nat
  BY DEF LogTyped
<1>3. /\ h \in Seq(Nat) /\ \A i, j \in 1..Len(h) : i < j => h[i] < h[j]
      /\ \A i \in 1..Len(h) : h[i] < n
  <2>1. CASE from = 0
    <3>1. h = <<>>
      BY <2>1 DEF History
    <3>2. h \in Seq(Nat) /\ Len(h) = 0
      BY <3>1
    <3> QED
      BY <3>2
  <2>2. CASE from # 0
    <3>1. h = log[from] /\ Chrono(h, from)
      BY <2>2 DEF History, LogTyped
    <3>2. h \in Seq(Nat) /\ h # <<>> /\ h[Len(h)] = from
          /\ \A i, j \in 1..Len(h) : i < j => h[i] < h[j]
      BY <3>1 DEF Chrono, Last
    <3>3. Len(h) \in Nat /\ \A i \in 1..Len(h) : h[i] \in Nat
      BY <3>2
    <3>4. ASSUME NEW i \in 1..Len(h) PROVE h[i] < n
      <4>1. CASE i = Len(h)
        BY <1>2, <3>2, <4>1
      <4>2. CASE i # Len(h)
        <5>1. Len(h) \in 1..Len(h) /\ i < Len(h)
          BY <3>3, <4>2
        <5>2. h[i] < from
          BY <3>2, <5>1
        <5> QED
          BY <1>2, <3>3, <5>2
      <4> QED
        BY <4>1, <4>2
    <3> QED
      BY <3>2, <3>4
  <2> QED
    BY <2>1, <2>2
<1> HIDE DEF h
<1>4. Chrono(g, n)
  <2>1. /\ g \in Seq(Nat) /\ Len(g) = Len(h) + 1 /\ Len(h) \in Nat
        /\ \A i \in 1..Len(h) : g[i] = h[i]
        /\ g[Len(h) + 1] = n
    BY <1>2, <1>3, AppendProperties, LenProperties
  <2> HIDE DEF g
  <2>2. g # <<>> /\ Last(g) = n
    BY <2>1 DEF Last
  <2>3. ASSUME NEW i \in 1..Len(g), NEW j \in 1..Len(g), i < j PROVE g[i] < g[j]
    <3>1. i \in 1..Len(h) /\ g[i] = h[i]
      BY <2>1, <2>3
    <3>2. CASE j = Len(h) + 1
      BY <1>3, <2>1, <3>1, <3>2
    <3>3. CASE j # Len(h) + 1
      <4>1. j \in 1..Len(h) /\ g[j] = h[j]
        BY <2>1, <3>3
      <4> QED
        BY <1>3, <2>3, <3>1, <4>1
    <3> QED
      BY <3>2, <3>3
  <2> QED
    BY <2>1, <2>2, <2>3 DEF Chrono
<1>5. g \in Seq(Nat)
  BY <1>4 DEF Chrono
<1> HIDE DEF g
<1>6. /\ log' \in Seq(Seq(Nat)) /\ Len(log') = Len(log) + 1
      /\ \A c \in 1..Len(log) : log'[c] = log[c]
      /\ log'[Len(log) + 1] = g
  BY <1>1, <1>2, <1>5, AppendProperties
<1>7. \A c \in 1..Len(log') : Chrono(log'[c], c)
  <2> SUFFICES ASSUME NEW c \in 1..Len(log') PROVE Chrono(log'[c], c)
    OBVIOUS
  <2>1. CASE c = Len(log) + 1
    BY <1>4, <1>6, <2>1
  <2>2. CASE c # Len(log) + 1
    <3>1. c \in 1..Len(log) /\ log'[c] = log[c]
      BY <1>2, <1>6, <2>2
    <3> QED
      BY <3>1 DEF LogTyped
  <2> QED
    BY <2>1, <2>2
<1>8. /\ ref' \in [Branch -> 0..Len(log')] /\ newest' \in [Branch -> 0..Len(log')]
      /\ \A a \in Branch : newest'[a] \in {0, ref'[a]}
  BY <1>1, <1>2, <1>6 DEF LogTyped
<1>9. LogTyped'
  BY <1>6, <1>7, <1>8 DEF LogTyped, Chrono
<1> QED
  BY <1>1, <1>2, <1>6, <1>9

(* One goroutine moves one branch.                                         *)
LEMMA MoveStep ==
  ASSUME AuditInv, NEW w \in Worker, NEW j \in Work, NEW b \in Branch, Goes(w, j),
         LogTyped', Len(log) <= Len(log'), Orderly(w, j, Len(log')),
         UNCHANGED <<trail, guarded, phase>>, dropped' = dropped \ {b},
         job[w].pc # "idle" \/ phase = "serve", SeedsWell(w, j, trail),
         \A a \in Branch \ {b} : newest'[a] = newest[a] /\ ref'[a] = ref[a]
                                   /\ (Cares(job[w], a) => Cares(j, a)),
         \/ newest'[b] = 0
         \/ \E i \in 1..Len(j.todo) : j.todo[i].commit = ref'[b] /\ j.todo[i].branch = b
         \/ j.pc = "receive" /\ b \in j.moved /\ (j.pre = NoList \/ j.pre[b] # ref'[b])
  PROVE  AuditInv' /\ TrailStep
<1>1. /\ trail \in Seq(Entries) /\ dropped' \subseteq Branch
      /\ Len(log) \in Nat /\ Len(log') \in Nat
  BY DEF AuditInv, Kept, WorkTyped, LogTyped
<1>2. Kept' /\ job'[w] = j /\ \A v \in Worker \ {w} : job'[v] = job[v]
  BY <1>1, WorkGoes DEF AuditInv
<1>3. Owed'
  <2>1. ASSUME NEW a \in Branch \ {b}, a \notin dropped, newest[a] # 0, ~Told(a, trail)
        PROVE  \E v \in Worker : Cares(job'[v], a)
    <3>1. PICK v \in Worker : Cares(job[v], a)
      BY <2>1 DEF AuditInv, Owed
    <3> QED
      BY <1>2, <3>1
  <2>2. ASSUME NEW a \in Branch, a # b, a \notin dropped', newest'[a] # 0, ~Told(a, trail)'
        PROVE  \E v \in Worker : Cares(job[v], a)'
    <3>1. a \notin dropped /\ newest[a] # 0 /\ ~Told(a, trail)
      BY <2>2 DEF Told
    <3>2. PICK v \in Worker : Cares(job'[v], a)
      BY <2>1, <2>2, <3>1
    <3> QED
      BY <2>2, <3>2 DEF Cares, Told
  <2>3. newest'[b] = 0 \/ Cares(job[w], b)'
    BY <1>2 DEF Cares, Told
  <2> QED
    BY <2>2, <2>3 DEF Owed
<1>4. Seeding'
  BY <1>2 DEF AuditInv, Seeding
<1>5. TrailStep
  BY <1>1 DEF TrailStep, IsPrefix
<1> QED
  BY <1>2, <1>3, <1>4, <1>5 DEF AuditInv

(* A push moves a branch, or the chain itself.                             *)
LEMMA ReceiveTold ==
  ASSUME AuditInv, NEW p \in Pusher, NEW b \in Branch, Receive(p, b)
  PROVE  AuditInv' /\ TrailStep
<1> DEFINE j == [job[p] EXCEPT !.moved = @ \cup {b}]
<1>1. /\ p \in Worker /\ p # Seeder /\ job[p] \in Work /\ Orderly(p, job[p], Len(log))
      /\ job[p].pc = "receive" /\ Goes(p, j) /\ UNCHANGED <<trail, guarded, phase>>
      /\ LogTyped /\ Len(log) \in Nat /\ SeedsWell(p, job[p], trail)
  BY AuditAssumption DEF Worker, AuditInv, Kept, WorkTyped, LogTyped, Seeding, Receive
<1>2. /\ j \in Work /\ j.pc = "receive" /\ j.todo = job[p].todo /\ j.pre = job[p].pre
      /\ j.tries = job[p].tries /\ j.moved = job[p].moved \cup {b}
  BY <1>1 DEF Work
<1> HIDE DEF j
<1>3. /\ SeedsWell(p, j, trail) /\ \A a : Cares(job[p], a) => Cares(j, a)
      /\ j.pre # NoList => j.pre[b] <= Len(log) /\ j.pre[b] \in Nat
  BY <1>1, <1>2 DEF SeedsWell, Cares, Orderly, Work
<1>4. \A n \in Nat : Len(log) <= n => Orderly(p, j, n)
  <2> SUFFICES ASSUME NEW n \in Nat, Len(log) <= n PROVE Orderly(p, j, n)
    OBVIOUS
  <2>1. j.pre # NoList => \A a \in Branch : j.pre[a] <= n
    BY <1>1, <1>2 DEF Orderly, Work
  <2> QED
    BY <1>1, <1>2, <2>1 DEF Orderly
<1>5. ASSUME NEW from \in {0, ref[b]}, NewCommit(b, from) PROVE AuditInv' /\ TrailStep
  <2>1. from \in 0..Len(log)
    BY <1>1 DEF LogTyped
  <2>2. /\ LogTyped' /\ Len(log') = Len(log) + 1
        /\ ref' = [ref EXCEPT ![b] = Len(log) + 1]
        /\ newest' = [newest EXCEPT ![b] = Len(log) + 1] /\ dropped' = dropped \ {b}
    BY <1>1, <1>5, <2>1, CommitsLater
  <2>3. Orderly(p, j, Len(log')) /\ Len(log) <= Len(log')
    BY <1>1, <1>4, <2>2
  <2>4. \A a \in Branch \ {b} : newest'[a] = newest[a] /\ ref'[a] = ref[a]
    BY <1>1, <2>2 DEF LogTyped
  <2>5. ref'[b] = Len(log) + 1
    BY <1>1, <2>2 DEF LogTyped
  <2>6. j.pre = NoList \/ j.pre[b] # ref'[b]
    BY <1>1, <1>3, <2>5
  <2> QED
    BY <1>1, <1>2, <1>3, <2>2, <2>3, <2>4, <2>6, MoveStep
<1>6. ASSUME NEW c \in (0..Len(log)) \ {ref[b]}, Point(b, c),
             newest' = [newest EXCEPT ![b] = 0], UNCHANGED log
      PROVE  AuditInv' /\ TrailStep
  <2>1. ref' = [ref EXCEPT ![b] = c] /\ dropped' = dropped \ {b}
    BY <1>6 DEF Point
  <2>2. LogTyped'
    BY <1>1, <1>6, <2>1 DEF LogTyped, Chrono
  <2>3. Orderly(p, j, Len(log')) /\ Len(log) <= Len(log')
    BY <1>1, <1>4, <1>6
  <2>4. newest'[b] = 0 /\ \A a \in Branch \ {b} : newest'[a] = newest[a] /\ ref'[a] = ref[a]
    BY <1>1, <1>6, <2>1 DEF LogTyped
  <2> QED
    BY <1>1, <1>2, <1>3, <2>1, <2>2, <2>3, <2>4, MoveStep
<1> QED
  BY <1>5, <1>6 DEF Receive

(* A write through the API.                                                *)
LEMMA WriteTold ==
  ASSUME AuditInv, NEW w \in Writer, Write(w)
  PROVE  AuditInv' /\ TrailStep
<1> DEFINE n == Len(log) + 1
           e == Entry("write", Main, n)
           j == [Free EXCEPT !.pc = "append", !.todo = <<e>>]
<1>1. /\ w \in Worker /\ w # Seeder /\ Main \in Branch /\ job[w] = Free /\ phase = "serve"
      /\ Goes(w, j) /\ UNCHANGED <<trail, guarded, phase>>
      /\ LogTyped /\ n \in Nat /\ Len(log) \in Nat /\ NewCommit(Main, ref[Main])
  BY AuditAssumption DEF Worker, AuditInv, Kept, WorkTyped, LogTyped, Orderly, Write
<1>2. /\ e \in Entries /\ e.branch = Main /\ e.commit = n /\ e.by = "write"
  BY <1>1, Values
<1> HIDE DEF e
<1>3. <<e>> \in Seq(Entries) /\ Len(<<e>>) = 1 /\ <<e>>[1] = e /\ <<e>> # <<>>
  BY <1>2
<1>4. /\ j \in Work /\ j.pc = "append" /\ j.todo = <<e>> /\ j.pre = NoList /\ j.tries = 0
  BY <1>3, Values DEF Work
<1> HIDE DEF j
<1>5. \A m : Orderly(w, j, m)
  BY <1>3, <1>4, AuditAssumption DEF Orderly
<1>6. SeedsWell(w, j, trail)
  BY <1>1, <1>2, <1>3, <1>4 DEF SeedsWell, NoBackfill, Backfill
<1>7. \A a : ~Cares(job[w], a)
  BY <1>1, Values, ShortPlans DEF Cares, Told
<1>8. /\ LogTyped' /\ Len(log') = n /\ dropped' = dropped \ {Main}
      /\ ref' = [ref EXCEPT ![Main] = n] /\ newest' = [newest EXCEPT ![Main] = n]
  <2>1. ref[Main] \in 0..Len(log)
    BY <1>1 DEF LogTyped
  <2> QED
    BY <1>1, <2>1, CommitsLater
<1>9. ref'[Main] = n /\ \A a \in Branch \ {Main} : newest'[a] = newest[a] /\ ref'[a] = ref[a]
  BY <1>1, <1>8 DEF LogTyped
<1>10. \E i \in 1..Len(j.todo) : j.todo[i].commit = ref'[Main] /\ j.todo[i].branch = Main
  <2>1. 1 \in 1..Len(j.todo) /\ j.todo[1] = e
    BY <1>3, <1>4
  <2> QED
    BY <1>2, <1>9, <2>1
<1>11. Len(log) <= Len(log')
  BY <1>1, <1>8
<1> QED
  BY <1>1, <1>4, <1>5, <1>6, <1>7, <1>8, <1>9, <1>10, <1>11, MoveStep

(* A push to the chain itself, where no hook keeps it out.                 *)
LEMMA TrailReceived ==
  ASSUME AuditInv, NEW p \in Pusher, ReceiveTrail(p)
  PROVE  AuditInv' /\ TrailStep
<1>1. /\ trail' = <<>> /\ dropped' = Branch /\ ~guarded
      /\ UNCHANGED <<ref, log, guarded, phase, job, newest>>
  BY DEF ReceiveTrail
<1>2. Kept'
  BY <1>1 DEF AuditInv, Kept, LogTyped, Chrono, WorkTyped
<1>3. Owed'
  BY <1>1 DEF Owed
<1>4. Seeding'
  <2>1. Rising(<<>>) /\ NoBackfill(<<>>) /\ \A es : Below(<<>>, es)
    BY ShortPlans DEF Rising, NoBackfill, Below
  <2>2. ASSUME NEW w \in Worker PROVE SeedsWell(w, job[w], <<>>)
    <3>1. SeedsWell(w, job[w], trail)
      BY DEF AuditInv, Seeding
    <3> QED
      BY <2>1, <3>1 DEF SeedsWell
  <2> QED
    BY <1>1, <2>1, <2>2 DEF Seeding
<1> QED
  BY <1>1, <1>2, <1>3, <1>4 DEF AuditInv, TrailStep

(* The server starts, serves or stops.                                     *)
LEMMA PhasesTold ==
  ASSUME AuditInv, AuditBoot \/ AuditServe \/ AuditStop \/ UNCHANGED auditVars
  PROVE  AuditInv' /\ TrailStep
<1>1. /\ LogTyped /\ WorkTyped /\ Seeder \in Worker /\ trail \in Seq(Entries)
      /\ job \in [Worker -> Work]
  BY DEF AuditInv, Kept, WorkTyped, Worker
<1>2. UNCHANGED <<ref, log, trail, newest>>
  BY DEF AuditBoot, AuditServe, AuditStop, auditVars
<1>3. TrailStep
  BY <1>1, <1>2 DEF TrailStep, IsPrefix
<1>4. LogTyped'
  BY <1>1, <1>2 DEF LogTyped, Chrono
<1>5. CASE AuditBoot
  <2> DEFINE j == [Free EXCEPT !.pc = "check"]
  <2>1. \A w \in Worker : job[w] = Free
    BY <1>1, <1>5 DEF AuditBoot, WorkTyped, Orderly
  <2>2. j \in Work /\ j.pc = "check" /\ j.todo = <<>> /\ j.pre = NoList /\ j.tries = 0
    BY Values DEF Work
  <2>3. job' = [job EXCEPT ![Seeder] = j] /\ phase' = "boot" /\ guarded' \in BOOLEAN
        /\ UNCHANGED dropped
    BY <1>5 DEF AuditBoot, Goes
  <2> HIDE DEF j
  <2>4. job'[Seeder] = j /\ \A w \in Worker \ {Seeder} : job'[w] = Free
    BY <1>1, <2>1, <2>3
  <2>5. \A n : Orderly(Seeder, j, n)
    BY <2>2, AuditAssumption DEF Orderly
  <2>6. WorkTyped'
    BY <1>1, <1>2, <2>2, <2>3, <2>4, <2>5, Values DEF WorkTyped
  <2>7. Owed'
    <3>1. \A b : ~Cares(job[Seeder], b)
      BY <1>1, <2>1, Values, ShortPlans DEF Cares, Told
    <3> QED
      BY <1>2, <2>1, <2>3, <2>4, <3>1 DEF AuditInv, Owed, Cares, Told
  <2>8. Seeding'
    BY <1>2, <2>2, <2>4, Values, ShortPlans DEF AuditInv, Seeding
  <2> QED
    BY <1>3, <1>4, <2>6, <2>7, <2>8 DEF AuditInv, Kept
<1>6. CASE AuditServe \/ UNCHANGED auditVars
  <2>1. UNCHANGED <<job, guarded, dropped>>
        /\ (phase' = phase \/ (phase' = "serve" /\ job[Seeder].pc = "idle"))
    BY <1>6 DEF AuditServe, auditVars
  <2>2. WorkTyped'
    BY <1>1, <1>2, <2>1 DEF WorkTyped
  <2>3. Owed' /\ Seeding'
    BY <1>2, <2>1 DEF AuditInv, Owed, Seeding, Cares, Told
  <2> QED
    BY <1>3, <1>4, <2>2, <2>3 DEF AuditInv, Kept
<1>7. CASE AuditStop
  <2>1. /\ job' = [w \in Worker |-> Free] /\ phase' = "down" /\ UNCHANGED guarded
        /\ dropped' = dropped \cup UNION {Untold(w) : w \in Working}
    BY <1>7 DEF AuditStop
  <2>2. ASSUME NEW w \in Worker PROVE Untold(w) \subseteq Branch
    <3>1. job[w].todo \in Seq(Entries) /\ job[w].moved \subseteq Branch
      BY <1>1 DEF Work
    <3>2. \A i \in DOMAIN job[w].todo : job[w].todo[i] \in Entries
      BY <3>1, ElementOfSeq, LenProperties
    <3>3. \A i \in DOMAIN job[w].todo : job[w].todo[i].branch \in Branch
      BY <3>2 DEF Entries
    <3> QED
      BY <3>1, <3>3 DEF Untold
  <2>3. dropped' \subseteq Branch
    BY <1>1, <2>1, <2>2 DEF WorkTyped, Working
  <2>4. WorkTyped'
    BY <1>1, <1>2, <2>1, <2>3, Values DEF WorkTyped
  <2>5. ASSUME NEW b \in Branch, NEW w \in Worker, Cares(job[w], b) PROVE b \in dropped'
    <3>1. job[w].pc # "idle"
      BY <1>1, <2>5, Values, ShortPlans DEF WorkTyped, Orderly, Cares, Told
    <3>2. b \in Untold(w)
      <4>1. job[w].todo \in Seq(Entries)
        BY <1>1 DEF Work
      <4> QED
        BY <2>5, <4>1 DEF Untold, Cares, Told
    <3> QED
      BY <2>1, <3>1, <3>2 DEF Working
  <2>6. Owed'
    BY <1>2, <2>1, <2>5 DEF AuditInv, Owed, Told
  <2>7. Seeding'
    BY <1>2, <2>1, Values, ShortPlans DEF AuditInv, Seeding
  <2> QED
    BY <1>3, <1>4, <2>4, <2>6, <2>7 DEF AuditInv, Kept
<1> QED
  BY <1>5, <1>6, <1>7

(* Every step keeps the invariant of the chain.                            *)
LEMMA MovesAudited == AuditInv /\ AuditMoves => AuditInv' /\ TrailStep
<1> SUFFICES ASSUME AuditInv, AuditMoves PROVE AuditInv' /\ TrailStep
  OBVIOUS
<1>1. CASE AuditNext
  BY <1>1, RoundsTold, ExtendTold, WriteTold, TrailReceived, ReceiveTold, SeederPlans
     DEF AuditNext, Appends
<1>2. ASSUME NEW p \in Pusher, BeginPush(p) \/ Received(p) PROVE AuditInv' /\ TrailStep
  BY <1>2, PushesTold
<1> QED
  BY <1>1, <1>2, PhasesTold DEF AuditMoves

(* A repository is made with it.                                           *)
LEMMA InitAudited == AuditInit => AuditInv
<1> SUFFICES ASSUME AuditInit PROVE AuditInv
  OBVIOUS
<1>1. /\ trail = <<>> /\ newest = [b \in Branch |-> 0] /\ dropped = {} /\ phase = "serve"
      /\ guarded \in BOOLEAN /\ Seeder \in Worker /\ Attempts \in Nat \ {0}
  BY AuditAssumption DEF AuditInit, Worker
<1>2. LogTyped
  <2>1. CASE log = <<>> /\ ref = [b \in Branch |-> 0]
    <3>1. log \in Seq(Seq(Nat)) /\ Len(log) = 0
      BY <2>1
    <3> QED
      BY <1>1, <2>1, <3>1 DEF LogTyped
  <2>2. CASE log = <<<<1>>, <<1, 2>>>> /\ ref = [b \in Branch |-> IF b = Main THEN 2 ELSE 1]
    <3>1. log \in Seq(Seq(Nat)) /\ Len(log) = 2 /\ log[1] = <<1>> /\ log[2] = <<1, 2>>
      <4>1. <<1>> \in Seq(Nat) /\ <<1, 2>> \in Seq(Nat)
        OBVIOUS
      <4> QED
        BY <2>2, <4>1
    <3>2. Chrono(<<1>>, 1)
      <4>1. <<1>> \in Seq(Nat) /\ <<1>> # <<>> /\ Len(<<1>>) = 1 /\ <<1>>[1] = 1
        OBVIOUS
      <4> QED
        BY <4>1 DEF Chrono, Last
    <3>3. Chrono(<<1, 2>>, 2)
      <4>1. <<1, 2>> \in Seq(Nat) /\ <<1, 2>> # <<>> /\ Len(<<1, 2>>) = 2
            /\ <<1, 2>>[1] = 1 /\ <<1, 2>>[2] = 2
        OBVIOUS
      <4>2. \A i, j \in 1..2 : i < j => i = 1 /\ j = 2
        OBVIOUS
      <4> QED
        BY <4>1, <4>2 DEF Chrono, Last
    <3>4. \A c \in 1..Len(log) : c = 1 \/ c = 2
      BY <3>1
    <3>5. \A c \in 1..Len(log) : Chrono(log[c], c)
      BY <3>1, <3>2, <3>3, <3>4
    <3> QED
      BY <1>1, <2>2, <3>1, <3>5 DEF LogTyped
  <2> QED
    BY <2>1, <2>2 DEF AuditInit
<1>3. PICK pc \in {"append", "check"} :
        job = [w \in Worker |-> IF w = Seeder THEN [Free EXCEPT !.pc = pc, !.todo = <<Made>>]
                                ELSE Free]
  BY DEF AuditInit
<1> DEFINE j == [Free EXCEPT !.pc = pc, !.todo = <<Made>>]
<1>4. /\ j \in Work /\ j.pc = pc /\ j.todo = <<Made>> /\ j.pre = NoList /\ j.tries = 0
  <2>1. <<Made>> \in Seq(Entries)
    BY Values
  <2> QED
    BY <2>1, Values DEF Work
<1> HIDE DEF j
<1>5. job[Seeder] = j /\ \A w \in Worker \ {Seeder} : job[w] = Free
  BY <1>1, <1>3 DEF j
<1>6. \A n : Orderly(Seeder, j, n)
  BY <1>1, <1>4 DEF Orderly
<1>7. WorkTyped
  <2>1. job \in [Worker -> Work]
    BY <1>3, <1>4, Values DEF j
  <2>2. trail \in Seq(Entries)
    BY <1>1
  <2> QED
    BY <1>1, <1>5, <1>6, <2>1, <2>2, Values DEF WorkTyped
<1>8. Owed
  BY <1>1 DEF Owed
<1>9. Seeding
  <2>1. Rising(trail)
    BY <1>1, ShortPlans DEF Rising
  <2>2. SeedsWell(Seeder, j, trail) /\ \A w : SeedsWell(w, Free, trail)
    <3>1. j.todo \in {<<>>, <<Made>>} /\ j.pc # "list"
      BY <1>4
    <3>2. Free.todo \in {<<>>, <<Made>>} /\ Free.pc # "list"
      BY Values
    <3> QED
      BY <3>1, <3>2, ShortPlans
  <2> QED
    BY <1>1, <1>5, <2>1, <2>2 DEF Seeding
<1> QED
  BY <1>2, <1>7, <1>8, <1>9 DEF AuditInv, Kept

(* What it says.                                                           *)
LEMMA AuditFacts == AuditInv => AuditTypeOK /\ HeadsAudited /\ SeededOnce
<1> SUFFICES ASSUME AuditInv PROVE AuditTypeOK /\ HeadsAudited /\ SeededOnce
  OBVIOUS
<1>1. LogTyped /\ WorkTyped /\ DOMAIN trail = 1..Len(trail)
  BY DEF AuditInv, Kept, WorkTyped
<1>2. AuditTypeOK
  <2>1. DOMAIN log = 1..Len(log)
    BY <1>1 DEF LogTyped
  <2>2. \A c \in DOMAIN log : Last(log[c]) = c
    BY <1>1, <2>1 DEF LogTyped, Chrono
  <2>3. \A w \in Worker : /\ job[w].pc \in {"idle", "receive", "check", "list", "append", "cas"}
                          /\ job[w].pc \in {"append", "cas"} => job[w].todo # <<>>
                          /\ job[w].tries < Attempts
    BY <1>1 DEF WorkTyped, Work, Orderly
  <2> QED
    BY <1>1, <2>2, <2>3 DEF AuditTypeOK, LogTyped, WorkTyped, Working
<1>3. HeadsAudited
  <2> SUFFICES ASSUME Working = {}, NEW b \in Branch \ dropped, ref[b] # 0, ref[b] = newest[b]
               PROVE  Told(b, trail)
    BY <1>1 DEF HeadsAudited, Told
  <2>1. \A w \in Worker : job[w] = Free
    BY <1>1 DEF Working, WorkTyped, Orderly
  <2>2. \A w \in Worker : ~Cares(job[w], b)
    BY <2>1, Values, ShortPlans DEF Cares, Told
  <2> QED
    BY <2>2 DEF AuditInv, Owed
<1>4. SeededOnce
  BY <1>1 DEF AuditInv, Seeding, Rising, Backfill, SeededOnce
<1> QED
  BY <1>2, <1>3, <1>4

-----------------------------------------------------------------------------
(* The audit chain as an atomic log.                                       *)

(* What a goroutine plans once it has gone on.                             *)
LEMMA PlannedGoes ==
  ASSUME Kept, NEW w \in Worker, NEW j, Goes(w, j),
         NEW left, left = IF j.pc \in {"append", "cas"} THEN j.todo ELSE <<>>
  PROVE  Planned' = [Planned EXCEPT ![w] = left]
<1>1. job' = [job EXCEPT ![w] = j] /\ job \in [Worker -> Work]
  BY DEF Goes, Kept, WorkTyped
<1>2. job'[w] = j /\ \A v \in Worker \ {w} : job'[v] = job[v]
  BY <1>1
<1> QED
  BY <1>2 DEF Planned

(* Planning what one has is planning the same.                             *)
LEMMA PlannedSame ==
  ASSUME NEW w \in Worker, Planned' = [Planned EXCEPT ![w] = Planned[w]]
  PROVE  Planned' = Planned
<1>1. [Planned EXCEPT ![w] = Planned[w]] = [v \in Worker |-> Planned[v]]
  BY DEF Planned
<1>2. Planned = [v \in Worker |-> Planned[v]]
  BY DEF Planned
<1> QED
  BY <1>1, <1>2

(* A goroutine that was not appending starts to, or still does not.        *)
LEMMA NewPlan ==
  ASSUME Kept, NEW w \in Worker, NEW j, Goes(w, j), job[w].pc \notin {"append", "cas"},
         UNCHANGED <<trail, guarded>>
  PROVE  [Log!LogNext]_(Log!logVars)
<1> DEFINE left == IF j.pc \in {"append", "cas"} THEN j.todo ELSE <<>>
<1>1. Planned' = [Planned EXCEPT ![w] = left]
  BY PlannedGoes
<1>2. Planned[w] = <<>> /\ w \in DOMAIN Planned
  BY DEF Planned
<1> HIDE DEF left
<1>3. Planned'[w] = left
  BY <1>1, <1>2
<1>4. CASE left = <<>>
  <2>1. Planned' = Planned
    BY <1>1, <1>2, <1>4, PlannedSame
  <2> QED
    BY <2>1 DEF Log!logVars
<1>5. CASE left # <<>>
  BY <1>1, <1>2, <1>3, <1>5 DEF Log!LogNext, Log!Come, Log!Becomes
<1> QED
  BY <1>4, <1>5

(* A round of an append is no step of the log, or appends the first entry  *)
(* of a plan, or gives it up.                                              *)
LEMMA RoundRefines ==
  ASSUME AuditInv, NEW w \in Worker, Appends(w)
  PROVE  [Log!LogNext]_(Log!logVars)
<1> DEFINE todo == job[w].todo
<1>1. /\ Kept /\ job[w] \in Work /\ job[w].pc \in {"append", "cas"} /\ todo # <<>>
      /\ UNCHANGED guarded
  BY DEF AuditInv, Kept, WorkTyped, Orderly, Appends, ReadHead, Extend, LoseRace, AppendFails
<1>2. Planned[w] = todo /\ w \in DOMAIN Planned
  BY <1>1 DEF Planned
<1>3. CASE ReadHead(w) \/ LoseRace(w)
  <2>1. PICK j : Goes(w, j) /\ j.pc \in {"append", "cas"} /\ j.todo = todo
    <3>1. CASE ReadHead(w)
      <4> DEFINE k == [job[w] EXCEPT !.pc = "cas", !.head = trail]
      <4>1. Goes(w, k) /\ k.pc = "cas" /\ k.todo = todo
        BY <1>1, <3>1 DEF ReadHead, Work
      <4> QED
        BY <4>1
    <3>2. CASE LoseRace(w)
      <4> DEFINE k == [job[w] EXCEPT !.pc = "append", !.head = <<>>, !.tries = @ + 1]
      <4>1. Goes(w, k) /\ k.pc = "append" /\ k.todo = todo
        BY <1>1, <3>2 DEF LoseRace, Work
      <4> QED
        BY <4>1
    <3> QED
      BY <1>3, <3>1, <3>2
  <2>2. Planned' = [Planned EXCEPT ![w] = todo]
    BY <1>1, <2>1, PlannedGoes
  <2>3. Planned' = Planned
    BY <1>2, <2>2, PlannedSame
  <2> QED
    BY <1>1, <1>3, <2>3 DEF ReadHead, LoseRace, Log!logVars
<1>4. ASSUME NEW done \in BOOLEAN, Goes(w, Onward(w, done))
      PROVE  /\ Planned' = [Planned EXCEPT ![w] = Onward(w, done).todo]
             /\ Onward(w, done).todo = IF done \/ w # Seeder THEN Tail(todo)
                  ELSE IF Tail(todo) # <<>> /\ Last(Tail(todo)) = Made THEN <<Made>> ELSE <<>>
  <2> DEFINE left == IF done \/ w # Seeder THEN Tail(todo)
                     ELSE IF Tail(todo) # <<>> /\ Last(Tail(todo)) = Made THEN <<Made>> ELSE <<>>
  <2>1. Onward(w, done) = IF left = <<>> THEN Free ELSE [Free EXCEPT !.pc = "append", !.todo = left]
    BY DEF Onward
  <2> HIDE DEF left
  <2>2. Onward(w, done).todo = left /\ Onward(w, done).pc \in {"idle", "append"}
        /\ (Onward(w, done).pc = "idle" => left = <<>>)
    BY <2>1 DEF Free
  <2>3. Planned' = [Planned EXCEPT ![w] = left]
    BY <1>1, <1>4, <2>2, PlannedGoes
  <2> QED
    BY <2>2, <2>3 DEF left
<1>5. CASE Extend(w)
  <2>1. Goes(w, Onward(w, TRUE)) /\ trail' = Append(trail, Head(todo))
    BY <1>5 DEF Extend, Current
  <2>2. Planned' = [Planned EXCEPT ![w] = Tail(todo)]
    BY <1>4, <2>1
  <2>3. Log!Extend(w)
    BY <1>1, <1>2, <2>1, <2>2 DEF Log!Extend, Log!Becomes
  <2> QED
    BY <2>3 DEF Log!LogNext
<1>6. CASE AppendFails(w)
  <2>1. Goes(w, Onward(w, FALSE)) /\ trail' = trail
    BY <1>6 DEF AppendFails
  <2>2. \/ Planned' = [Planned EXCEPT ![w] = Tail(todo)]
        \/ Planned' = [Planned EXCEPT ![w] = <<>>]
        \/ /\ Tail(todo) # <<>>
           /\ Planned' = [Planned EXCEPT ![w] = <<Tail(todo)[Len(Tail(todo))]>>]
    BY <1>4, <2>1 DEF Last
  <2>3. Log!GiveUp(w)
    BY <1>1, <1>2, <2>1, <2>2 DEF Log!GiveUp, Log!Becomes
  <2> QED
    BY <2>3 DEF Log!LogNext
<1> QED
  BY <1>3, <1>5, <1>6 DEF Appends

(* Every step of the chain's is one of the log's, or none.                 *)
LEMMA MovesRefine == AuditInv /\ AuditMoves => [Log!LogNext]_(Log!logVars)
<1> SUFFICES ASSUME AuditInv, AuditMoves PROVE [Log!LogNext]_(Log!logVars)
  OBVIOUS
<1>1. /\ Kept /\ Pusher \subseteq Worker /\ Writer \subseteq Worker /\ Seeder \in Worker
      /\ job \in [Worker -> Work]
  BY DEF AuditInv, Kept, WorkTyped, Worker
<1>2. ASSUME NEW w \in Worker, Appends(w) PROVE [Log!LogNext]_(Log!logVars)
  BY <1>2, RoundRefines
<1>3. ASSUME NEW w \in Writer, Write(w) PROVE [Log!LogNext]_(Log!logVars)
  BY <1>1, <1>3, NewPlan DEF Write
<1>4. ASSUME NEW p \in Pusher, NEW b \in Branch, Receive(p, b)
      PROVE  [Log!LogNext]_(Log!logVars)
  BY <1>1, <1>4, NewPlan DEF Receive
<1>5. ASSUME NEW p \in Pusher, ReceiveTrail(p) PROVE [Log!LogNext]_(Log!logVars)
  BY <1>5 DEF ReceiveTrail, Planned, Log!LogNext, Log!Replace
<1>6. ASSUME NEW p \in Pusher, BeginPush(p) \/ Received(p) PROVE [Log!LogNext]_(Log!logVars)
  BY <1>1, <1>6, NewPlan DEF BeginPush, Received
<1>7. CASE SeedCheck \/ SeedList
  BY <1>1, <1>7, NewPlan DEF SeedCheck, SeedList
<1>8. CASE AuditBoot
  <2>1. Goes(Seeder, [Free EXCEPT !.pc = "check"]) /\ trail' = trail /\ guarded' \in BOOLEAN
    BY <1>8 DEF AuditBoot
  <2>2. Planned[Seeder] = <<>>
    <3>1. job[Seeder].pc = "idle"
      BY <1>1, <1>8 DEF AuditBoot, Kept, WorkTyped
    <3> QED
      BY <1>1, <3>1 DEF Planned
  <2>3. Planned' = [Planned EXCEPT ![Seeder] = <<>>]
    <3>1. [Free EXCEPT !.pc = "check"].pc = "check"
      BY DEF Free
    <3> QED
      BY <1>1, <2>1, <3>1, PlannedGoes
  <2>4. Planned' = Planned
    BY <2>2, <2>3 DEF Planned
  <2> QED
    BY <2>1, <2>4 DEF Log!LogNext, Log!Guard
<1>9. CASE AuditServe \/ UNCHANGED auditVars
  BY <1>9 DEF AuditServe, auditVars, Planned, Log!logVars
<1>10. CASE AuditStop
  <2>1. job' = [w \in Worker |-> Free] /\ UNCHANGED <<trail, guarded>>
    BY <1>10 DEF AuditStop
  <2>2. Planned' = [w \in Worker |-> <<>>]
    BY <2>1, Values DEF Planned
  <2> QED
    BY <2>1, <2>2 DEF Log!LogNext, Log!Forget
<1> QED
  BY <1>2, <1>3, <1>4, <1>5, <1>6, <1>7, <1>8, <1>9, <1>10 DEF AuditMoves, AuditNext

-----------------------------------------------------------------------------
(* The server.                                                             *)

\* It runs when it serves, and who is audited holds a slot.
Together ==
  /\ stops \in Nat /\ (running <=> phase = "serve")
  /\ \A p \in Push : job[p].pc # "idle" => p \in tracked

IInv == Configured /\ AuditInv /\ Together

(* No step of the chain's alone begins to serve a push.                    *)
LEMMA NoneBegins ==
  ASSUME AuditInv, AuditNext \/ AuditBoot, NEW p \in Pusher, job[p].pc = "idle"
  PROVE  job'[p].pc = "idle"
<1>1. job \in [Worker -> Work] /\ p \in Worker /\ p # Seeder /\ p \notin Writer
  BY AuditAssumption DEF AuditInv, Kept, WorkTyped, Worker
<1>2. ASSUME NEW w \in Worker, NEW j, Goes(w, j), w # p PROVE job'[p] = job[p]
  BY <1>1, <1>2 DEF Goes
<1>3. ASSUME NEW w \in Worker, Appends(w) PROVE job'[p].pc = "idle"
  <2>1. w # p
    BY <1>3 DEF Appends, ReadHead, Extend, LoseRace, AppendFails
  <2> QED
    BY <1>2, <1>3, <2>1 DEF Appends, ReadHead, Extend, LoseRace, AppendFails
<1>4. ASSUME NEW w \in Writer, Write(w) PROVE job'[p].pc = "idle"
  <2>1. w \in Worker /\ w # p
    BY <1>1 DEF Worker
  <2> QED
    BY <1>2, <1>4, <2>1 DEF Write
<1>5. ASSUME NEW q \in Pusher, ReceiveTrail(q) \/ \E b \in Branch : Receive(q, b)
      PROVE  job'[p].pc = "idle"
  <2>1. CASE ReceiveTrail(q)
    BY <2>1 DEF ReceiveTrail
  <2>2. ASSUME NEW b \in Branch, Receive(q, b) PROVE job'[p].pc = "idle"
    <3>1. q \in Worker /\ q # p
      BY <2>2 DEF Worker, Receive
    <3> QED
      BY <1>2, <2>2, <3>1 DEF Receive
  <2> QED
    BY <1>5, <2>1, <2>2
<1>6. CASE SeedCheck \/ SeedList \/ AuditBoot
  BY <1>1, <1>2, <1>6 DEF Worker, SeedCheck, SeedList, AuditBoot
<1> QED
  BY <1>3, <1>4, <1>5, <1>6 DEF AuditNext

(* A step keeps the two together.                                          *)
LEMMA NextTogether ==
  ASSUME IInv, [Next]_vars
  PROVE  Together'
<1> USE ServerAssumption
<1>1. /\ stops \in Nat /\ (running <=> phase = "serve") /\ job \in [Worker -> Work]
      /\ \A p \in Push : job[p].pc # "idle" => p \in tracked
      /\ Push \subseteq Worker /\ Seeder \notin Push
  BY AuditAssumption DEF IInv, Together, AuditInv, Kept, WorkTyped, Worker
<1>2. CASE ConfigSteps /\ UNCHANGED <<auditVars, stops>>
  <2>1. UNCHANGED <<running, tracked>>
    BY <1>2 DEF ConfigSteps, Patches, PatchLimits, PatchMirror, PatchAuth, BeginPatch, PatchSteps,
       ApplyLimits, StopPoller, SwapPoller, BuildAuth, SwapChain, SetAuth, Marshal, MarshalRest,
       OpenFile, WriteFile, Answered, Step, Admit, Polls, BeginCheck, EndCheck, PollerReturns,
       pushVars, runVars
  <2> QED
    BY <1>1, <1>2, <2>1 DEF Together, auditVars
<1>3. CASE (AuditNext \/ AuditBoot) /\ UNCHANGED <<configVars, stops>>
  <2>1. \A p \in Push : job'[p].pc # "idle" => job[p].pc # "idle"
    BY <1>3, NoneBegins DEF IInv
  <2>2. phase' = phase \/ (phase = "down" /\ phase' = "boot")
    BY <1>3 DEF AuditNext, AuditBoot, Appends, ReadHead, Extend, LoseRace, AppendFails, Write,
       ReceiveTrail, Receive, SeedCheck, SeedList
  <2> QED
    BY <1>1, <1>3, <2>1, <2>2 DEF Together, configVars, pushVars, runVars
<1>4. ASSUME NEW p \in Push, StartPush(p) \/ EndPush(p) \/ FinishPush(p), UNCHANGED stops
      PROVE  Together'
  <2>1. CASE StartPush(p)
    <3>1. tracked' = tracked \cup {p} /\ UNCHANGED <<running, phase>>
          /\ \A q \in Push \ {p} : job'[q] = job[q]
      BY <1>1, <2>1 DEF StartPush, Track, BeginPush, Goes, runVars
    <3> QED
      BY <1>1, <1>4, <3>1 DEF Together
  <2>2. CASE EndPush(p)
    <3>1. UNCHANGED <<tracked, running, phase>> /\ job[p].pc = "receive"
          /\ \A q \in Push \ {p} : job'[q] = job[q]
      BY <1>1, <2>2 DEF EndPush, Received, Goes, configVars, pushVars, runVars
    <3> QED
      BY <1>1, <1>4, <3>1 DEF Together
  <2>3. CASE FinishPush(p)
    <3>1. tracked' = tracked \ {p} /\ UNCHANGED <<running, phase, job>> /\ job[p].pc = "idle"
      BY <2>3 DEF FinishPush, Finish, auditVars, runVars
    <3> QED
      BY <1>1, <1>4, <3>1 DEF Together
  <2> QED
    BY <1>4, <2>1, <2>2, <2>3
<1>5. CASE Stop
  <2>1. stops' \in Nat /\ phase' = "down" /\ ~running' /\ \A p \in Push : job'[p] = Free
    BY <1>1, <1>5 DEF Stop, AuditStop, ConfigStop, configVars, runVars
  <2> QED
    BY <2>1, Values DEF Together
<1>6. CASE Serve
  <2>1. UNCHANGED <<stops, job, tracked>> /\ phase' = "serve" /\ running'
    BY <1>6 DEF Serve, AuditServe, ConfigStart
  <2> QED
    BY <1>1, <2>1 DEF Together
<1>7. CASE UNCHANGED vars
  BY <1>1, <1>7 DEF Together, vars, configVars, auditVars, pushVars, runVars
<1> QED
  BY <1>2, <1>3, <1>4, <1>5, <1>6, <1>7 DEF Next

(* The invariant of the server holds at the start,                         *)
LEMMA InitIInv == Init => IInv
<1> SUFFICES ASSUME Init PROVE IInv
  OBVIOUS
<1>1. Configured /\ AuditInv
  BY InitConfigured, InitAudited DEF Init
<1>2. running /\ phase = "serve" /\ stops \in Nat
  BY ServerAssumption DEF Init, ConfigInit, AuditInit
<1>3. \A p \in Push : job[p] = Free
  BY ServerAssumption, AuditAssumption DEF Init, AuditInit, Worker
<1> QED
  BY <1>1, <1>2, <1>3, Values DEF IInv, Together

(* every step keeps it, and does to the slots and the chain what it may.   *)
LEMMA NextIInv == IInv /\ [Next]_vars => IInv' /\ Gated /\ TrailStep
  BY NextMoves, MovesConfigured, MovesAudited, NextTogether DEF IInv

LEMMA Invariance == Spec => []IInv
  BY InitIInv, NextIInv, PTL DEF Spec

\* The variables keep their types, and a push is audited only while it holds a
\* slot (router.go: handleGitRouter; handler_git.go: handleGitService).
THEOREM TypeCorrect == Spec => []TypeOK
<1>1. IInv => TypeOK
  BY ConfiguredFacts, AuditFacts DEF IInv, Together, TypeOK, Working
<1> QED
  BY <1>1, Invariance, PTL

\* Whatever admins ask for at once, one poller at a time runs, and it is the
\* one a request can stop (handler_admin_mirror.go: swapStatusPoller).
THEOREM OnePollerAtATime == Spec => []OnePoller
<1>1. IInv => OnePoller
  BY ConfiguredFacts DEF IInv
<1> QED
  BY <1>1, Invariance, PTL

\* With no PATCH at work, the running server and the file agree with the
\* configuration, but for what overlapping requests, failed writes and stops
\* left apart (handler_admin_limits.go, handler_admin_mirror.go, server.go).
THEOREM LiveStaysAsConfigured == Spec => []LiveAsConfigured
<1>1. IInv => LiveAsConfigured
  BY ConfiguredFacts DEF IInv
<1> QED
  BY <1>1, Invariance, PTL

\* No step loses or leaks a slot, or admits a push to a pool that is full
\* (slot_pool.go; router.go: handleGitRouter).
THEOREM SlotsStayAccounted == Spec => SlotsAccounted
<1>1. IInv' /\ Gated => /\ pool'.inUse = Cardinality(holds')
                        /\ inFlight' = Cardinality(tracked')
                        /\ Cardinality(holds') > Cardinality(holds) =>
                             Cardinality(holds') <= pool.capacity
  BY DEF IInv, Configured, Counted, Gated
<1>2. IInv /\ [Next]_vars => [/\ pool'.inUse = Cardinality(holds')
                              /\ inFlight' = Cardinality(tracked')
                              /\ Cardinality(holds') > Cardinality(holds) =>
                                   Cardinality(holds') <= pool.capacity]_configVars
  BY <1>1, NextIInv
<1> QED
  BY <1>2, Invariance, PTL DEF Spec, SlotsAccounted

\* Only a client that pushes to a chain no hook guards can undo an entry
\* (git/audit.go: AppendAudit; git/manager.go: installAuditGuard).
THEOREM TrailOnlyGrows == Spec => TrailGrows
<1>1. IInv /\ [Next]_vars => [IsPrefix(trail, trail') \/ ~guarded]_auditVars
  BY NextIInv DEF TrailStep
<1> QED
  BY <1>1, Invariance, PTL DEF Spec, TrailGrows

\* What a branch was moved to is told, once nobody is at work, unless an error
\* or a stop kept it from the chain (handler_git.go: auditPushedRefs).
THEOREM HeadsGetAudited == Spec => []HeadsAudited
<1>1. IInv => HeadsAudited
  BY AuditFacts DEF IInv
<1> QED
  BY <1>1, Invariance, PTL

\* A repository is back-filled at most once, parents first
\* (git/audit.go: SeedAuditFromHistory).
THEOREM SeededAtMostOnce == Spec => []SeededOnce
<1>1. IInv => SeededOnce
  BY AuditFacts DEF IInv
<1> QED
  BY <1>1, Invariance, PTL

\* The lock-free loop of AppendAudit is an atomic append: each entry a
\* goroutine has joins the end of the chain in one step, once and in order, or
\* leaves no trace (git/audit.go: AppendAudit).
THEOREM AppendIsAtomic == Spec => ImplementsAuditLog
<1>1. Init => Log!LogInit
  <2> SUFFICES ASSUME Init PROVE Log!LogInit
    OBVIOUS
  <2>1. trail = <<>> /\ guarded \in BOOLEAN
    BY DEF Init, AuditInit
  <2> QED
    BY <2>1 DEF Log!LogInit, Planned
<1>2. IInv /\ [Next]_vars => [Log!LogNext]_(Log!logVars)
  BY NextMoves, MovesRefine DEF IInv
<1> QED
  BY <1>1, <1>2, Invariance, PTL DEF Spec, ImplementsAuditLog, Log!LogSpec
=============================================================================
