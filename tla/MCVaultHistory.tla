--------------------------- MODULE MCVaultHistory ---------------------------
(* Values for the constants of Vault that a cfg cannot write. *)
EXTENDS VaultHistory

CONSTANTS u1, u2

\* The vault was sent 1 before init; u1 has 2 to deposit.
GenesisFunded == {[a \in Addrs |-> CASE a = u1 -> 2 [] a = VaultAddr -> 1 [] OTHER -> 0]}
=============================================================================
