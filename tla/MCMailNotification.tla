------------------------- MODULE MCMailNotification -------------------------
(* MailNotification with a few calls.                                      *)
EXTENDS MailNotification, TLC

\* No operator tells one call from another.
CallSymmetry == Permutations(Calls)
=============================================================================
