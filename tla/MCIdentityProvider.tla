-------------------------- MODULE MCIdentityProvider --------------------------
(* Every identity operation, every order of changes by others within bounds. *)
EXTENDS IdentityProvider
=============================================================================
