---------------------------- MODULE MCLifecycle ----------------------------
(***************************************************************************)
(* Small instances of the Control plane's process for TLC.                 *)
(***************************************************************************)
EXTENDS Lifecycle
=============================================================================
