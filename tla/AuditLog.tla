------------------------------ MODULE AuditLog ------------------------------
(***************************************************************************)
(* What AppendAudit promises about the chain of one repository: a caller   *)
(* has entries to append, and each of them is appended to the end of the   *)
(* chain in one step, at most once, in the order the caller has them, or   *)
(* it is given up and leaves no trace.  There are no heads read too early, *)
(* no lost races and no retries here; AuditTrail shows that the            *)
(* compare-and-swap loop of internal/git/audit.go implements this.         *)
(***************************************************************************)
EXTENDS Naturals, Sequences

CONSTANT Appender

VARIABLES
  chain,   \* the entries, oldest first
  plan,    \* what each caller has left to append
  open     \* whether clients can push to the chain themselves

logVars == <<chain, plan, open>>

LogInit == chain = <<>> /\ DOMAIN plan = Appender /\ open \in BOOLEAN

Becomes(w, left) == plan' = [plan EXCEPT ![w] = left]

(* A caller comes with entries; it has none of an earlier call left.       *)
Come(w) ==
  /\ plan[w] = <<>> /\ plan'[w] # <<>>
  /\ Becomes(w, plan'[w])
  /\ UNCHANGED <<chain, open>>

Extend(w) ==
  /\ plan[w] # <<>>
  /\ chain' = Append(chain, Head(plan[w]))
  /\ Becomes(w, Tail(plan[w]))
  /\ UNCHANGED open

(* An entry is given up: alone, with all the others, or with all but the   *)
(* last.                                                                   *)
GiveUp(w) ==
  LET rest == Tail(plan[w]) IN
  /\ plan[w] # <<>>
  /\ \/ Becomes(w, rest)
     \/ Becomes(w, <<>>)
     \/ rest # <<>> /\ Becomes(w, <<rest[Len(rest)]>>)
  /\ UNCHANGED <<chain, open>>

(* The server stops: what was not appended never is.                       *)
Forget ==
  /\ plan' = [w \in Appender |-> <<>>]
  /\ UNCHANGED <<chain, open>>

(* A start of the server closes the chain to clients, or fails to.         *)
Guard == open' \in BOOLEAN /\ UNCHANGED <<chain, plan>>

(* A client replaces a chain that is open to it.                           *)
Replace == open /\ chain' = <<>> /\ UNCHANGED <<plan, open>>

LogNext ==
  \/ \E w \in Appender : Come(w) \/ Extend(w) \/ GiveUp(w)
  \/ Forget \/ Guard \/ Replace

LogSpec == LogInit /\ [][LogNext]_logVars
=============================================================================
