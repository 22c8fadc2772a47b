------------------------------ MODULE MCMirror ------------------------------
(* Instances of Mirror: a repository with a destination it can queue for,  *)
(* beside another repository that can fill the channel.                    *)
EXTENDS Mirror, TLC

CONSTANTS notes, wiki, github, p1, p2, worker, first, second, main, draft, audit

Repos == {notes, wiki}
OneRepo == {notes}
OneDest == {github}
OneOwner == [d \in OneDest |-> notes]
Branches == {main, draft}
Handlers == {p1, p2}
OneHandler == {p1}
Urls == {first, second}

Symmetry == Permutations(Handlers)
=============================================================================
