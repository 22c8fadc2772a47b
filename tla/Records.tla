------------------------------ MODULE Records ------------------------------
(***************************************************************************)
(* One record of a Formidable repository, its clients, and PUT /files.     *)
(*                                                                         *)
(* A client fetches the record, edits it away from the server, and puts it *)
(* with the version it started from.  A put that starts from HEAD lands as *)
(* it is; one that starts from an older version is merged into what HEAD   *)
(* has become, or refused.  A client whose answer is lost puts the same    *)
(* again.  That HEAD moves between the merge and the commit is the matter  *)
(* of module RepoWrite.                                                    *)
(***************************************************************************)
EXTENDS RecordMerge, Sequences

CONSTANTS
  Client,
  MaxEdits,  \* bound on edits
  MaxPuts    \* bound on versions

ASSUME ClientAssumption == MaxEdits \in Nat /\ MaxPuts \in Nat

VARIABLES
  log,     \* the versions of the record, each with who made it, from which
           \* version, and what was put
  base,    \* the version each client started from
  draft,   \* what it has made of it
  awaits,  \* whether it put the draft and had no answer
  edits    \* bounded counter

vars == <<log, base, draft, awaits, edits>>

Version(r, c, b, d) == [rec |-> r, by |-> c, base |-> b, draft |-> d]
Newest == log[Len(log)].rec
Nobody == "nobody"

Init ==
  /\ \E r \in Record :
       /\ r.id # Absent /\ r.updated # 0 /\ r.other \notin {Absent, Null} /\ r.tags = {}
       /\ \A f \in Field : r.fields[f] # Absent
       /\ ~r.flagged
       /\ log = <<Version(r, Nobody, 1, r)>>
       /\ draft = [c \in Client |-> r]
  /\ base = [c \in Client |-> 1]
  /\ awaits = [c \in Client |-> FALSE]
  /\ edits = 0

\* GET /files
Fetch(c) ==
  /\ ~awaits[c] /\ base[c] # Len(log)
  /\ base' = [base EXCEPT ![c] = Len(log)]
  /\ draft' = [draft EXCEPT ![c] = Newest]
  /\ UNCHANGED <<log, awaits, edits>>

\* The client saves one change, and the time by its own clock.
Edit(c, r) ==
  /\ ~awaits[c] /\ edits < MaxEdits
  /\ \E now \in Times \cup {0} : draft' = [draft EXCEPT ![c] = [r EXCEPT !.updated = now]]
  /\ edits' = edits + 1
  /\ UNCHANGED <<log, base, awaits>>

\* handleRepoFilePut and maybeFormidableMerge: what lands.
Landed(c) ==
  IF base[c] = Len(log) THEN draft[c] ELSE Merge(log[base[c]].rec, Newest, draft[c])

Refused(c) == base[c] # Len(log) /\ Conflicts(log[base[c]].rec, Newest, draft[c])

Put(c) ==
  /\ draft[c] # log[base[c]].rec
  /\ Len(log) <= MaxPuts /\ ~Refused(c)
  /\ log' = Append(log, Version(Landed(c), c, base[c], draft[c]))
  /\ \/ /\ base' = [base EXCEPT ![c] = Len(log) + 1]
        /\ draft' = [draft EXCEPT ![c] = Landed(c)]
        /\ awaits' = [awaits EXCEPT ![c] = FALSE]
     \/ /\ awaits' = [awaits EXCEPT ![c] = TRUE]
        /\ UNCHANGED <<base, draft>>
  /\ UNCHANGED edits

\* The 409 tells the client which fields; it keeps its draft until it fetches.
Conflict(c) ==
  /\ awaits[c] /\ Refused(c)
  /\ awaits' = [awaits EXCEPT ![c] = FALSE]
  /\ UNCHANGED <<log, base, draft, edits>>

Edits(c) ==
  LET d == draft[c]
  IN \/ \E f \in Field, v \in Value \cup {Absent} : Edit(c, [d EXCEPT !.fields[f] = v])
     \/ \E i \in Id \cup {Absent} : Edit(c, [d EXCEPT !.id = i])
     \/ \E t \in Tag : Edit(c, [d EXCEPT !.tags = {t}])
     \/ \E b \in BOOLEAN : Edit(c, [d EXCEPT !.flagged = b])
     \/ \E v \in Value \cup {Absent} : Edit(c, [d EXCEPT !.other = v])

Next == \E c \in Client : Fetch(c) \/ Edits(c) \/ Put(c) \/ Conflict(c)

Spec == Init /\ [][Next]_vars

-----------------------------------------------------------------------------
(* Properties.                                                             *)

Entry == [rec : Record, by : Client \cup {Nobody}, base : Nat \ {0}, draft : Record]

\* Types, and every client started from a version there is.
TypeOK ==
  /\ log \in Seq(Entry)
  /\ base \in [Client -> DOMAIN log] /\ draft \in [Client -> Record]
  /\ awaits \in [Client -> BOOLEAN]

\* A field or a facet of HEAD only gives way to somebody who had seen what it
\* held, and no change of a client to one is dropped by a put that lands
\* (formidable/merge.go: Merge; formidable/meta.go: mergeFacets).
EditsLand ==
  \A i \in DOMAIN log \ {1} : \A f \in Field :
    LET seen == log[log[i].base].rec.fields[f]
        put == log[i].draft.fields[f]
        was == log[i - 1].rec.fields[f]
        is == log[i].rec.fields[f]
    IN /\ is # was => seen = was
       /\ put # seen => is = put

\* Putting the same again, when the answer to the first was lost and nobody
\* wrote in between, leaves the record saying what it said, unless it removed
\* the id, which a merge puts back (server/formidable_merge.go: maybeFormidableMerge).
RetryHarmless ==
  \A i \in DOMAIN log \ {1} :
    /\ log[i].by = log[i - 1].by /\ log[i].base = log[i - 1].base
    /\ log[i].draft = log[i - 1].draft /\ log[i].draft.id # Absent
    => Says(log[i].rec) = Says(log[i - 1].rec)

Tied(b, x, y) == x.updated = y.updated \/ (b.id = Absent /\ x.id # y.id)

\* Whose put of two arrives first does not matter to what becomes of the
\* record, unless they saved at the same time, or a record that had lost its id
\* got a new one from both (formidable/meta.go: MergeMeta, UpdatedWinner).
OrderIrrelevant ==
  \A c, d \in Client :
    base[c] = base[d] =>
      LET b == log[base[c]].rec
      IN /\ Conflicts(b, draft[c], draft[d]) <=> Conflicts(b, draft[d], draft[c])
         /\ ~Conflicts(b, draft[c], draft[d]) /\ ~Tied(b, draft[c], draft[d]) =>
              Merge(b, draft[c], draft[d]) = Merge(b, draft[d], draft[c])
=============================================================================
