------------------------------ MODULE MCVault -------------------------------
(* Values for the constants of Vault that a cfg cannot write. *)
EXTENDS VaultEvents

CONSTANTS u1, u2

\* The owner has 2, a second account has none and the vault was sent 1 before init.
GenesisRich == {[a \in Addrs |-> CASE a = u1 -> 2 [] a = VaultAddr -> 1 [] OTHER -> 0]}
GenesisPoor == {[a \in Addrs |-> IF a = VaultAddr THEN 1 ELSE 0]}
=============================================================================
