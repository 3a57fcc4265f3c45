------------------------ MODULE MCTransactionExecutor ------------------------
(* Three requests: two meet at one account, one of them, an admin's, asks  *)
(* for two transactions.                                                   *)
EXTENDS TransactionExecutor, TLC

CONSTANTS u1, u2, r1, r2, r3

MCUserOf   == (r1 :> u1) @@ (r2 :> u1) @@ (r3 :> u2)
MCAmountOf == (r1 :> -50) @@ (r2 :> 2000) @@ (r3 :> -100)
MCQuantity == (r1 :> 2) @@ (r2 :> 1) @@ (r3 :> 1)
=============================================================================
