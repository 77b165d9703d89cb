--------------------------- MODULE EvidenceChannel ---------------------------
(***************************************************************************)
(* What the agent and the control plane promise of a line of evidence: once *)
(* the agent has durably taken it, it is recorded at most once, only then,  *)
(* and it is never given up.                                                *)
(***************************************************************************)
EXTENDS Naturals

CONSTANT Lines

VARIABLES
  taken,     \* lines the agent has answered for
  recorded   \* number of event rows each line has at the control plane

Init == taken = {} /\ recorded = [l \in Lines |-> 0]

Record(l) == l \in taken /\ recorded[l] = 0 /\ recorded'[l] = 1

Next ==
  /\ taken \subseteq taken'
  /\ taken' \subseteq Lines
  /\ recorded' \in [Lines -> Nat]
  /\ \A l \in Lines : recorded'[l] = recorded[l] \/ Record(l)

Spec == Init /\ [][Next]_<<taken, recorded>>
=============================================================================
