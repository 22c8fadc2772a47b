---------------------------- MODULE MCRepoWrite -----------------------------
(***************************************************************************)
(* Instances of RepoWrite: one record, the marker (doc, which also stands  *)
(* for the other files of a repository) and .gitignore, each of two hunks, *)
(* and the change sets that tell the handlers' cases apart.                *)
(***************************************************************************)
EXTENDS RepoWrite, TLC

CONSTANTS rec, doc, ign, w1, w2, a, b, x

MCPath == {rec, doc, ign}
MCHunk == {1, 2}
MCText == {a, b, x}

AA == [h \in MCHunk |-> a]
AB == [h \in MCHunk |-> IF h = 1 THEN a ELSE b]
BA == [h \in MCHunk |-> IF h = 1 THEN b ELSE a]
XA == [h \in MCHunk |-> IF h = 1 THEN x ELSE a]   \* does not parse

T(r, d, i) == (rec :> r) @@ (doc :> d) @@ (ign :> i)

MCStarter == (doc :> BA) @@ (ign :> BA)
MCFairPushTree == {T(AA, AA, BA), T(XA, Absent, AB)}
MCPushTree == MCFairPushTree \cup {T(AB, XA, AB)}

MCRequest == {
  (rec :> BA),                     \* one record
  (doc :> AB),                     \* one other file
  (rec :> BA) @@ (doc :> BA)}      \* a record together with another file

\* the smaller sets are for the run with fairness
MCFairRequest == MCRequest \ {doc :> AB}
=============================================================================
