-------------------------------- MODULE Outbox --------------------------------
(***************************************************************************)
(* The notifications that the control plane owes to a webhook: the table   *)
(* deliveries, filled in the transaction that is notified, and the workers *)
(* of response_worker.py that lease a row, call the webhook and record its *)
(* answer.  A worker may die at any step, or be slower than its lease.     *)
(*                                                                         *)
(* There is one connector; with more of them each has rows of its own.  A  *)
(* lease is known by the number of the claim that took it, since two       *)
(* leases of a row never end at the same time.  A row that waits for a     *)
(* retry may be due or not.                                                *)
(*                                                                         *)
(* A definition standing before the one whose parameters it shares, and    *)
(* used nowhere, is a mutated form of it (PROJECT.json, "mutants").        *)
(***************************************************************************)
EXTENDS Naturals, Sequences

CONSTANTS
  Workers,    \* processes that run response_worker
  MaxRows,    \* bounds: notifications,
  MaxFaults   \* and crashes, overrun leases and failed calls

ASSUME OutboxAssumption == MaxRows \in Nat /\ MaxFaults \in Nat

VARIABLES
  box,      \* the deliveries table, by row
  worker,   \* what each worker holds
  faults    \* faults so far

outboxVars == <<box, worker, faults>>

Statuses == {"pending", "sending", "retry", "delivered", "failed", "deleted"}
Answers == {"delivered", "retry", "failed"}
Row == [status : Statuses, claim : Nat, lapsed : BOOLEAN]
Idle == [row |-> 0, claim |-> 0, answer |-> "none"]

OutboxTypeOK ==
  /\ box \in Seq(Row)
  /\ worker \in [Workers -> [row : Nat, claim : Nat, answer : Answers \cup {"none"}]]
  /\ \A w \in Workers : worker[w] # Idle => worker[w].row \in DOMAIN box
  /\ faults \in Nat

OutboxInit == box = <<>> /\ worker = [w \in Workers |-> Idle] /\ faults = 0

Fault == faults < MaxFaults /\ faults' = faults + 1

\* queue_notifications, in the transaction of what is notified.
QueueNotification ==
  /\ Len(box) < MaxRows
  /\ box' = Append(box, [status |-> "pending", claim |-> 0, lapsed |-> FALSE])
  /\ UNCHANGED <<worker, faults>>

\* prune deletes delivered rows that are old.
Discard(d) ==
  /\ d \in DOMAIN box /\ box[d].status = "delivered"
  /\ box' = [box EXCEPT ![d].status = "deleted"]
  /\ UNCHANGED <<worker, faults>>

-----------------------------------------------------------------------------
(* The workers.                                                            *)

Lapsed(d) == box[d].status = "sending" /\ box[d].lapsed

ForgetsLeases(d) == box[d].status \in {"pending", "retry"}

\* Not yet sent, to be sent again, or left by a worker whose lease is over.
Claimable(d) == box[d].status \in {"pending", "retry"} \/ Lapsed(d)

\* _claim_delivery, one BEGIN IMMEDIATE transaction: the oldest row that is due.
Claim(w, d) ==
  /\ worker[w] = Idle
  /\ d \in DOMAIN box /\ Claimable(d)
  /\ \A e \in 1..(d - 1) : Claimable(e) => box[e].status = "retry"
  /\ box' = [box EXCEPT ![d] = [status |-> "sending", claim |-> box[d].claim + 1,
                                lapsed |-> FALSE]]
  /\ worker' = [worker EXCEPT ![w] = [row |-> d, claim |-> box[d].claim + 1,
                                      answer |-> "none"]]
  /\ UNCHANGED faults

\* WebhookConnector.deliver: the webhook takes it; or refuses it for good, or the
\* connector is disabled or badly configured; or the webhook cannot be reached, is
\* overloaded, or took it and its answer is lost.
Call(w) ==
  /\ worker[w] # Idle /\ worker[w].answer = "none"
  /\ \E a \in Answers :
       /\ worker' = [worker EXCEPT ![w].answer = a]
       /\ IF a = "retry" THEN Fault ELSE UNCHANGED faults
  /\ UNCHANGED box

IgnoresLease(w) == box[worker[w].row].status = "sending"

\* "Lease ownership guards a late process from overwriting a reclaimed job."
Owns(w) ==
  /\ box[worker[w].row].status = "sending"
  /\ box[worker[w].row].claim = worker[w].claim

\* The update at the end of deliver_pending's loop.
RecordAnswer(w) ==
  /\ worker[w].answer # "none"
  /\ IF Owns(w) THEN box' = [box EXCEPT ![worker[w].row].status = worker[w].answer]
                ELSE UNCHANGED box
  /\ worker' = [worker EXCEPT ![w] = Idle]
  /\ UNCHANGED faults

Holder(w, d) == worker[w].row = d /\ worker[w].claim = box[d].claim

Running(d) == d \in DOMAIN box /\ box[d].status = "sending" /\ ~box[d].lapsed

\* A lease ends after the worker that took it died,
Lapse(d) ==
  /\ Running(d) /\ \A w \in Workers : ~Holder(w, d)
  /\ box' = [box EXCEPT ![d].lapsed = TRUE]
  /\ UNCHANGED <<worker, faults>>

\* or while it is still at it.
Overrun(d) ==
  /\ Running(d) /\ \E w \in Workers : Holder(w, d)
  /\ Fault
  /\ box' = [box EXCEPT ![d].lapsed = TRUE]
  /\ UNCHANGED worker

\* A worker dies, before or after the webhook took the call, and is started again.
Die(w) ==
  /\ worker[w] # Idle /\ Fault
  /\ worker' = [worker EXCEPT ![w] = Idle]
  /\ UNCHANGED box

OutboxNext ==
  \/ QueueNotification
  \/ \E w \in Workers : Call(w) \/ RecordAnswer(w) \/ Die(w)
  \/ \E d \in DOMAIN box : Discard(d) \/ Lapse(d) \/ Overrun(d)
  \/ \E w \in Workers, d \in DOMAIN box : Claim(w, d)

OutboxSpec == OutboxInit /\ [][OutboxNext]_outboxVars

\* main loops for ever and is started again when it dies; leases end and retries
\* become due with time.
OutboxFairSpec ==
  /\ OutboxSpec
  /\ \A w \in Workers : WF_outboxVars(Call(w)) /\ WF_outboxVars(RecordAnswer(w))
  /\ \A d \in 1..MaxRows : /\ WF_outboxVars(Lapse(d))
                           /\ WF_outboxVars(\E w \in Workers : Claim(w, d))

-----------------------------------------------------------------------------
(* Properties.                                                             *)

\* While its lease runs, what the webhook answered a worker is what gets on record:
\* neither the worker that cleans up after a crash nor the late answer of one that
\* overran its lease takes the row from the one that now has it.
HolderIsBelieved ==
  [][\A w \in Workers :
       LET d == worker[w].row
       IN /\ worker[w] # Idle /\ Holder(w, d) /\ ~box[d].lapsed
          /\ worker'[w] = Idle /\ faults' = faults
          => box'[d].status = worker[w].answer]_outboxVars

\* Every notification is delivered or refused in the end: no crash, no overrun lease
\* and no failed call leaves it behind, whatever is queued before it.
NoticeIsSettled ==
  \A d \in 1..MaxRows :
    d \in DOMAIN box ~>
      d \in DOMAIN box /\ box[d].status \in {"delivered", "failed", "deleted"}
=============================================================================
