---------------------------- MODULE MCBlockCommand ----------------------------
(* Small instances of BlockCommand for TLC. *)
EXTENDS BlockCommand

CONSTANTS a1, a2
=============================================================================
