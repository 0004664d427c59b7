--------------------------- MODULE MCRevenuePool ----------------------------
(* Values for the constants of RevenuePool that a cfg cannot write. *)
EXTENDS RevenuePoolHistory

GenesisFunded == {[a \in Addrs |-> IF a = Pool THEN 2 ELSE 0]}
=============================================================================
