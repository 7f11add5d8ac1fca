------------------------------ MODULE MCKeyAdmin ------------------------------
(***************************************************************************)
(* Small instances of KeyAdmin.  Every constant is a model value or a      *)
(* number given in the configuration.                                      *)
(***************************************************************************)
EXTENDS KeyAdmin
=============================================================================
