---------------------------- MODULE MCVendSession ----------------------------
(* VendSession with two products and hot water.                            *)
EXTENDS VendSession
=============================================================================
