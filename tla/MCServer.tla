------------------------------ MODULE MCServer ------------------------------
EXTENDS Server, TLC
CONSTANTS a1, a2, p1, p2, w1, seeder, main, dev
Admins == {a1, a2}
Pushers == {p1, p2}
OneWriter == {w1}
Branches == {main, dev}
SlotChoices == {1, 2}
Sym == Permutations(Admins) \cup Permutations(Pushers)

\* Much happens to the repository, or to the configuration, or a little to
\* both.
Budget(pa, pu, mo, st) == patches = pa /\ pushes = pu /\ moves = mo /\ stops = st
Quiet == cfg = [slots |-> 2, poll |-> FALSE, gateway |-> FALSE]
MCInit ==
  /\ Init
  /\ \/ Budget(0, 2, 2, 0) /\ Quiet /\ log = <<>>
     \/ Budget(0, 1, 2, 0) /\ Quiet /\ guarded
     \/ Budget(0, 2, 1, 0) /\ Quiet /\ guarded
     \/ Budget(0, 1, 1, 1) /\ Quiet
     \/ Budget(0, 0, 1, 2) /\ Quiet /\ guarded
     \/ Budget(2, 0, 0, 0) /\ log = <<>>
     \/ Budget(1, 0, 0, 1) /\ log = <<>>
     \/ Budget(1, 2, 0, 0) /\ log = <<>>
MCSpec == MCInit /\ [][Next]_vars
=============================================================================
