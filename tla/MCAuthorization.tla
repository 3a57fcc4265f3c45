-------------------------- MODULE MCAuthorization --------------------------
(* Authorization with a few users, keys and items.                         *)
EXTENDS Authorization, TLC

\* No operator tells one user from another.
UserSymmetry == Permutations(Users)
=============================================================================
