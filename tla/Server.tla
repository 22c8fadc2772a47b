------------------------------- MODULE Server -------------------------------
(***************************************************************************)
(* The server as a process: a push passes the gate of LiveConfig, is       *)
(* audited by AuditTrail, and gives its slot back when it has been; a stop *)
(* ends the requests of both, and the start loads the configuration after  *)
(* it has brought the chains up to date.                                   *)
(***************************************************************************)
EXTENDS LiveConfig, AuditTrail

CONSTANT MaxStops  \* bound on stops

VARIABLE stops  \* how many more there may be

ASSUME ServerAssumption == Push = Pusher /\ MaxStops \in Nat

vars == <<configVars, auditVars, stops>>

Init ==
  /\ ConfigInit /\ AuditInit /\ stops \in 0..MaxStops

\* handleGitRouter and handleGitService
StartPush(p) == Track(p) /\ BeginPush(p)

EndPush(p) == Received(p) /\ UNCHANGED configVars

FinishPush(p) == job[p].pc = "idle" /\ Finish(p) /\ UNCHANGED auditVars

Stop ==
  /\ stops > 0 /\ stops' = stops - 1
  /\ AuditStop
  /\ IF running THEN ConfigStop ELSE UNCHANGED configVars

\* New runs to its end.
Serve == AuditServe /\ ConfigStart /\ UNCHANGED stops

ConfigSteps ==
  \/ \E a \in Admin : Patches(a) \/ PatchSteps(a)
  \/ \E p \in Push : Admit(p)
  \/ Polls

Next ==
  \/ ConfigSteps /\ UNCHANGED <<auditVars, stops>>
  \/ AuditNext /\ UNCHANGED <<configVars, stops>>
  \/ \E p \in Push : (StartPush(p) \/ EndPush(p) \/ FinishPush(p)) /\ UNCHANGED stops
  \/ AuditBoot /\ UNCHANGED <<configVars, stops>>
  \/ Stop \/ Serve

Spec == Init /\ [][Next]_vars

\* The variables keep their types, and who is audited holds a slot.
TypeOK ==
  /\ ConfigTypeOK /\ AuditTypeOK /\ stops \in Nat
  /\ running <=> phase = "serve"
  /\ Working \cap Push \subseteq tracked
=============================================================================
