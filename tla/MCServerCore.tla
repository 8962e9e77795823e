---------------------------- MODULE MCServerCore ----------------------------
(* Small instances of ServerCore. *)
EXTENDS ServerCore
=============================================================================
