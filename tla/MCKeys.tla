------------------------------- MODULE MCKeys -------------------------------
(* One account with one username, two repositories, and three tag names of *)
(* which two differ in case only.                                          *)
EXTENDS Keys, TLC

CONSTANTS bare, alice, notes, wiki, Team, team, vip, r1, r2

OneUsername == {bare}
Accounts == {alice}
Owner == [u \in Username |-> alice]
Repos == {notes, wiki}
Names == {Team, team, vip}
Folded == [n \in TagName |-> IF n = Team THEN team ELSE n]
Reqs == {r1, r2}
Sym == Permutations(Reqs)
=============================================================================
