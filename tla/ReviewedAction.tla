---------------------------- MODULE ReviewedAction ----------------------------
(***************************************************************************)
(* What the control plane promises of a reviewed response: the provider is *)
(* touched for a job only after the job was authorised and attempted, a    *)
(* withdrawn job never has an effect, and withdrawn and settled jobs stay  *)
(* so.  How jobs are leased, retried and recorded is left open.            *)
(***************************************************************************)
EXTENDS Naturals

CONSTANT Jobs

VARIABLES
  phase,   \* where each job is in its review and execution
  rules    \* number of rules each job has at the provider

Phases == {"open", "authorised", "withdrawn", "attempted", "settled"}

Init ==
  /\ phase = [j \in Jobs |-> "open"]
  /\ rules = [j \in Jobs |-> 0]

\* The review of one job moves on; nothing happens at the provider.
Advance(j) ==
  /\ <<phase[j], phase'[j]>> \in
       {<<"open", "authorised">>, <<"open", "withdrawn">>,
        <<"authorised", "withdrawn">>, <<"authorised", "attempted">>,
        <<"attempted", "settled">>}
  /\ rules'[j] = rules[j]

\* The provider's rules of an attempted job change, by a worker's call or by
\* one that was delayed until after the job was settled.
Touch(j) ==
  /\ phase[j] \in {"attempted", "settled"}
  /\ phase'[j] = phase[j]

Rest(j) == phase'[j] = phase[j] /\ rules'[j] = rules[j]

Next ==
  /\ phase' \in [Jobs -> Phases]
  /\ rules' \in [Jobs -> Nat]
  /\ \A j \in Jobs : Advance(j) \/ Touch(j) \/ Rest(j)

Spec == Init /\ [][Next]_<<phase, rules>>
=============================================================================
