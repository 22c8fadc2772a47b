------------------------------- MODULE MCVault -------------------------------
(* One repository, two destinations and the credential they share.         *)
EXTENDS Vault, TLC

CONSTANTS addresses, d1, d2, github, pat1, formidable, k1, k2, r1, r2

Repos == {addresses}
Dests == {d1, d2}
Creds == {github}
OneSecret == {pat1}
Clients == {formidable}
PubKeys == {k1, k2}
Reqs == {r1, r2}
Sym == Permutations(Reqs) \cup Permutations(Dests) \cup Permutations(PubKeys)
=============================================================================
