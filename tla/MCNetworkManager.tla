-------------------------- MODULE MCNetworkManager --------------------------
(***************************************************************************)
(* Two concurrent fetches and up to three connections; the configurations  *)
(* differ in how many connections may be active and how many are refused.  *)
(***************************************************************************)
EXTENDS NetworkManager
=============================================================================
