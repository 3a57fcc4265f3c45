--------------------------- MODULE MCUserDirectory ---------------------------
(* Three requests: the first two may race to create the account, the last  *)
(* two to change its password.                                             *)
EXTENDS UserDirectory, TLC

CONSTANTS r1, r2, r3

MCKindsOf == (r1 :> {"signUp", "signIn"}) @@ (r2 :> {"signIn", "change"})
               @@ (r3 :> {"change"})
=============================================================================
