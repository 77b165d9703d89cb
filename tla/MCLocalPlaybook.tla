--------------------------- MODULE MCLocalPlaybook ---------------------------
(* Small instances of LocalPlaybook for TLC. *)
EXTENDS LocalPlaybook, TLC

CONSTANTS act, undo, alice, bob

\* An action and its undoing.
UndoPair == [j \in Jobs |-> IF j = undo THEN act ELSE None]

\* Independent actions.
NoUndo == [j \in Jobs |-> None]
=============================================================================
