------------------------------ MODULE MCScopes ------------------------------
(***************************************************************************)
(* Small source programs for Scopes.  Names are strings; the same string   *)
(* in two of the sets of a .cfg is a name with two uses.                   *)
(***************************************************************************)
EXTENDS Scopes
=============================================================================
