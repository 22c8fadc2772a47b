----------------------------- MODULE MCRecords -----------------------------
EXTENDS Records, TLC
CONSTANTS c1, c2, f1, v1, v2
Clients == {c1, c2}
Fields == {f1}
Values == {v1, v2}
Spellings == {"A", "a"}
LowerCase == [t \in Spellings |-> "a"]
Clock == {1, 2}
Ids == {1, 2}
Sym == Permutations(Clients) \cup Permutations(Values)
=============================================================================
