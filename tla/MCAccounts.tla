----------------------------- MODULE MCAccounts -----------------------------
(* A server with two local accounts, one of them seeded, an identity       *)
(* provider and a gateway.                                                 *)
EXTENDS Accounts, TLC

CONSTANTS root, alice, github_bob, proxy_eve, pw1, r1, r2

Locals == {root, alice}
Idps == {github_bob}
Gateways == {proxy_eve}
RootAndBob == {root, github_bob}
BothLocals == {root, alice}
OnePw == {pw1}
Nobody == {}
Reqs == {r1, r2}
Sym == Permutations(Reqs)
=============================================================================
