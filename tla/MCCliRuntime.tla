---------------------------- MODULE MCCliRuntime ----------------------------
(* CliRuntime for TLC; the bounds are in the configurations.               *)
EXTENDS CliRuntime
=============================================================================
