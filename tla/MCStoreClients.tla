-------------------------- MODULE MCStoreClients ---------------------------
(* Two jobs with the same deposit wallet and treasury, and two transactions *)
(* a journal may name; both pairs are interchangeable.                      *)
EXTENDS StoreClients, TLC

CONSTANTS j1, j2, treasury, wallet, hash1, hash2

MCWallet == [j \in Jobs |-> wallet]

JobHashSymmetry == Permutations(Jobs) \cup Permutations(Hashes)
=============================================================================
