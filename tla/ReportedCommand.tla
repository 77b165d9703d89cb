--------------------------- MODULE ReportedCommand ---------------------------
(***************************************************************************)
(* What the control plane and a host promise of a reviewed local action: it *)
(* is performed at most once and only when authorised, the report on it is *)
(* final and true, and nothing is performed after the report.              *)
(***************************************************************************)
EXTENDS Naturals

CONSTANT Jobs

VARIABLES
  authorised,  \* jobs an administrator approved
  effect,      \* how often each job changed the host
  report       \* what is on record of it

Reports == {"none", "applied", "denied", "broken", "uncertain"}

Init ==
  /\ authorised = {}
  /\ effect = [j \in Jobs |-> 0]
  /\ report = [j \in Jobs |-> "none"]

Authorise(j) ==
  /\ authorised' = authorised \cup {j}
  /\ UNCHANGED <<effect, report>>

Perform(j) ==
  /\ j \in authorised
  /\ report[j] = "none"
  /\ effect[j] = 0
  /\ effect' = [effect EXCEPT ![j] = 1]
  /\ UNCHANGED <<authorised, report>>

\* A failed or uncertain action may have had its effect or not.
Report(j, r) ==
  /\ j \in authorised
  /\ report[j] = "none"
  /\ r = "applied" => effect[j] = 1
  /\ report' = [report EXCEPT ![j] = r]
  /\ UNCHANGED <<authorised, effect>>

Next ==
  \E j \in Jobs :
    Authorise(j) \/ Perform(j) \/ \E r \in Reports \ {"none"} : Report(j, r)

Spec == Init /\ [][Next]_<<authorised, effect, report>>
=============================================================================
