---------------------------- MODULE LocalPlaybook ----------------------------
(***************************************************************************)
(* Reviewed actions on a host (quarantine_file, restore_file, isolate_host, *)
(* release_host): the response_jobs rows at the control plane              *)
(* (operations_api.py) and the agent that polls them, executes them and    *)
(* reports receipts (response_agent.py).  The agent may die at any step,   *)
(* also inside the native mutation; a request may be lost before or after  *)
(* it was carried out, or be carried out late; the host may be revoked and *)
(* enrolled again while the agent keeps its state file.                    *)
(*                                                                         *)
(* The statuses applied, rolled_back and failed are one status here,       *)
(* settled, with the receipt that was recorded: applied (either of the     *)
(* first two, by the job's action), denied and broken (failed with         *)
(* policy_denied and execution_failed) and uncertain (failed, with         *)
(* execution_uncertain).  A job is expired once its expires has passed.    *)
(*                                                                         *)
(* A definition standing before the one whose parameters it shares, and    *)
(* used nowhere, is a mutated form of it (PROJECT.json, "mutants").        *)
(***************************************************************************)
EXTENDS Naturals, FiniteSets

CONSTANTS
  Jobs,         \* jobs of one host
  Undoes,       \* the job a restore or release undoes, None for the others
  Subjects,     \* operators
  Admins,       \* those with the admin role
  None,
  MaxReceipts,  \* receipts the agent keeps before it prunes
  MaxRevokes,   \* bound: revocations of the host
  MaxFaults     \* bound: crashes and lost requests or answers

ASSUME PlaybookAssumption ==
  /\ None \notin Jobs \cup Subjects
  /\ Undoes \in [Jobs -> Jobs \cup {None}]
  /\ Admins \subseteq Subjects
  /\ MaxReceipts \in Nat /\ MaxRevokes \in Nat /\ MaxFaults \in Nat

VARIABLES
  status,       \* response_jobs.status; "checked": between check and INSERT
  requestedBy,  \* response_jobs.requested_by
  approvedBy,   \* response_jobs.approved_by
  result,       \* response_jobs.result
  expired,      \* jobs whose expires has passed
  active,       \* the host's enrolment is active
  revokes,      \* number of revocations so far
  refused,      \* the outbox begins with a batch that is refused for good
  receipt,      \* state["playbook_receipts"], in memory
  acked,        \* those acknowledged, in memory
  savedReceipt, \* the same in the state file
  savedAcked,
  pc,           \* where the agent is in poll_playbooks
  todo,         \* commands of the listing still to handle
  job,          \* the command being handled
  effect,       \* how often each job was carried out, perhaps in part
  late,         \* receipts whose request timed out and may still arrive
  faults        \* number of faults so far

rowVars   == <<status, requestedBy, approvedBy, result>>
memVars   == <<receipt, acked, todo, job>>
savedVars == <<savedReceipt, savedAcked>>
vars == <<rowVars, expired, active, revokes, refused, memVars, savedVars, pc, effect,
          late, faults>>

Receipts == {"none", "applied", "denied", "broken", "uncertain"}
Statuses == {"none", "checked", "requested", "approved", "cancelled", "settled"}
Steps == {"asleep", "events", "commands", "flush", "list", "next", "marked",
          "execute", "acting", "executed", "post", "acked"}

TypeOK ==
  /\ status \in [Jobs -> Statuses]
  /\ requestedBy \in [Jobs -> Subjects \cup {None}]
  /\ approvedBy \in [Jobs -> Admins \cup {None}]
  /\ result \in [Jobs -> Receipts]
  /\ expired \in SUBSET Jobs
  /\ active \in BOOLEAN
  /\ revokes \in 0..MaxRevokes
  /\ refused \in BOOLEAN
  /\ receipt \in [Jobs -> Receipts] /\ savedReceipt \in [Jobs -> Receipts]
  /\ acked \in SUBSET Jobs /\ savedAcked \in SUBSET Jobs
  /\ pc \in Steps
  /\ todo \in SUBSET Jobs
  /\ job \in Jobs \cup {None}
  /\ effect \in [Jobs -> Nat]
  /\ late \in SUBSET (Jobs \X Receipts)
  /\ faults \in 0..MaxFaults

NoReceipt == [j \in Jobs |-> "none"]

Init ==
  /\ status = [j \in Jobs |-> "none"]
  /\ requestedBy = [j \in Jobs |-> None]
  /\ approvedBy = [j \in Jobs |-> None]
  /\ result = NoReceipt
  /\ expired = {} /\ active = TRUE /\ revokes = 0 /\ refused = FALSE
  /\ receipt = NoReceipt /\ savedReceipt = NoReceipt
  /\ acked = {} /\ savedAcked = {}
  /\ pc = "asleep" /\ todo = {} /\ job = None
  /\ effect = [j \in Jobs |-> 0]
  /\ late = {} /\ faults = 0

-----------------------------------------------------------------------------
(* The control plane.                                                      *)

\* request_playbook reads the enrolment and, for a restore or release, the
\* previous attempt, outside any transaction.
RequestCheck(j, s) ==
  /\ status[j] = "none"
  /\ active
  /\ Undoes[j] # None => status[Undoes[j]] = "settled"
  /\ status' = [status EXCEPT ![j] = "checked"]
  /\ requestedBy' = [requestedBy EXCEPT ![j] = s]
  /\ UNCHANGED <<approvedBy, result, expired, active, revokes, refused, memVars,
                 savedVars, pc, effect, late, faults>>

RequestInsert(j) ==
  /\ status[j] = "checked"
  /\ status' = [status EXCEPT ![j] = "requested"]
  /\ UNCHANGED <<requestedBy, approvedBy, result, expired, active, revokes, refused,
                 memVars, savedVars, pc, effect, late, faults>>

\* approve_playbook.
Approve(j, a) ==
  /\ requestedBy[j] # a
  /\ status[j] = "requested" /\ j \notin expired
  /\ status' = [status EXCEPT ![j] = "approved"]
  /\ approvedBy' = [approvedBy EXCEPT ![j] = a]
  /\ UNCHANGED <<requestedBy, result, expired, active, revokes, refused, memVars,
                 savedVars, pc, effect, late, faults>>

\* revoke: the credential is void and waiting jobs are cancelled.
Revoke ==
  /\ revokes < MaxRevokes
  /\ revokes' = revokes + 1
  /\ active' = FALSE
  /\ status' = [j \in Jobs |-> IF status[j] \in {"requested", "approved"}
                               THEN "cancelled" ELSE status[j]]
  /\ UNCHANGED <<requestedBy, approvedBy, result, expired, refused, memVars, savedVars,
                 pc, effect, late, faults>>

\* Evidence at the head of the outbox leaves the archive window during a long outage:
\* its batch is refused from now on (AgentDelivery has the outbox itself).
Outdate ==
  /\ ~refused
  /\ refused' = TRUE
  /\ UNCHANGED <<rowVars, expired, active, revokes, memVars, savedVars, pc, effect,
                 late, faults>>

\* A new enrolment; the agent gets the new credential and keeps its state file.
Enroll ==
  /\ ~active
  /\ active' = TRUE
  /\ UNCHANGED <<rowVars, expired, refused, revokes, memVars, savedVars, pc, effect,
                 late, faults>>

\* The expiry of a job passes.
Expire(j) ==
  /\ status[j] # "none" /\ j \notin expired
  /\ expired' = expired \cup {j}
  /\ UNCHANGED <<rowVars, active, revokes, refused, memVars, savedVars, pc, effect,
                 late, faults>>

\* Whether playbook_receipt records a receipt: the job awaits its first one.
Records(j, r) == status[j] = "approved"

AnswersFirstOnly(j, r) == Records(j, r)

\* Whether it answers 200: recorded now, or the same receipt was before.
Answers(j, r) == Records(j, r) \/ (status[j] = "settled" /\ result[j] = r)

\* playbook_receipt, one BEGIN IMMEDIATE transaction.
Receive(j, r) ==
  IF Records(j, r)
  THEN /\ status' = [status EXCEPT ![j] = "settled"]
       /\ result' = [result EXCEPT ![j] = r]
  ELSE UNCHANGED <<status, result>>

\* A receipt whose request timed out at the agent arrives.
LateReceipt(j, r) ==
  /\ <<j, r>> \in late
  /\ late' = late \ {<<j, r>>}
  /\ Receive(j, r)
  /\ UNCHANGED <<requestedBy, approvedBy, expired, active, revokes, refused, memVars,
                 savedVars, pc, effect, faults>>

-----------------------------------------------------------------------------
(* The agent.                                                              *)

\* main reloads the committed state before every cycle.
Load ==
  /\ pc = "asleep"
  /\ receipt' = savedReceipt /\ acked' = savedAcked
  /\ todo' = {} /\ job' = None
  /\ pc' = "events"
  /\ UNCHANGED <<rowVars, expired, active, revokes, refused, savedVars, effect, late,
                 faults>>

Fault == faults < MaxFaults /\ faults' = faults + 1

\* A call of the control plane before poll_playbooks: the agent goes on if it is
\* answered with success; a refusal or a lost answer ends the cycle.
Contact(accepted, there) ==
  /\ \/ accepted /\ pc' = there /\ UNCHANGED faults
     \/ ~accepted /\ pc' = "asleep" /\ UNCHANGED faults
     \/ Fault /\ pc' = "asleep"
  /\ UNCHANGED <<rowVars, expired, active, revokes, refused, memVars, savedVars,
                 effect, late>>

\* cycle delivers the outbox, which has at least a heartbeat or is full, and raises
\* what refuses it.
SendEvents == pc = "events" /\ Contact(active /\ ~refused, "commands")

\* GET /v1/commands and the receipts of blocks (BlockCommand); one of those that is
\* refused, which no retry of its command follows, counts as a fault.
BlockCommands == pc = "commands" /\ Contact(active, "flush")

\* One POST of job j's receipt; the agent goes on to step there.
\* A refusal or a lost answer ends the cycle (raise_for_status).
Post(j, there) ==
  \/ /\ active /\ Answers(j, receipt[j])
     /\ Receive(j, receipt[j])
     /\ acked' = acked \cup {j}
     /\ pc' = there
     /\ UNCHANGED <<late, faults>>
  \/ /\ ~(active /\ Answers(j, receipt[j]))           \* 401, 404, 409
     /\ pc' = "asleep"
     /\ UNCHANGED <<status, result, acked, late, faults>>
  \/ /\ Fault
     /\ pc' = "asleep"
     /\ \/ UNCHANGED <<status, result, late>>
        \/ active /\ Receive(j, receipt[j]) /\ UNCHANGED late
        \/ active /\ late' = late \cup {<<j, receipt[j]>>} /\ UNCHANGED <<status, result>>
     /\ UNCHANGED acked

Unacknowledged == {j \in Jobs : receipt[j] # "none"} \ acked

\* Pending acknowledgements first, each saved before the next.
Flush(j) ==
  /\ pc = "flush"
  /\ j \in Unacknowledged
  /\ Post(j, "flush")
  /\ savedAcked' = acked' /\ savedReceipt' = receipt
  /\ UNCHANGED <<requestedBy, approvedBy, expired, active, revokes, refused, receipt,
                 todo, job, effect>>

Flushed ==
  /\ pc = "flush"
  /\ Unacknowledged = {}
  /\ pc' = "list"
  /\ UNCHANGED <<rowVars, expired, active, revokes, refused, memVars, savedVars, effect,
                 late, faults>>

Listed(j) == status[j] = "approved" /\ j \notin expired

\* GET /v1/playbooks/commands.
List ==
  /\ pc = "list"
  /\ \/ /\ active
        /\ todo' = {j \in Jobs : Listed(j)}
        /\ pc' = "next"
        /\ UNCHANGED faults
     \/ ~active /\ pc' = "asleep" /\ UNCHANGED <<todo, faults>>
     \/ Fault /\ pc' = "asleep" /\ UNCHANGED todo
  /\ UNCHANGED <<rowVars, expired, active, revokes, refused, receipt, acked, job,
                 savedVars, effect, late>>

MarksApplied == "applied"

\* The receipt a command has until its result is known.
Mark == "uncertain"

\* The next listed command: mark it uncertain unless it has a receipt.
Take(j) ==
  /\ pc = "next"
  /\ j \in todo
  /\ todo' = todo \ {j}
  /\ job' = j
  /\ IF receipt[j] = "none"
     THEN /\ receipt' = [receipt EXCEPT ![j] = Mark]
          /\ acked' = acked \ {j}
          /\ pc' = "marked"
     ELSE pc' = "post" /\ UNCHANGED <<receipt, acked>>
  /\ UNCHANGED <<rowVars, expired, active, revokes, refused, savedVars, effect, late,
                 faults>>

\* save_state: the state file is replaced at once, or not at all.
SaveState == savedReceipt' = receipt /\ savedAcked' = acked

MarkInMemory == UNCHANGED savedVars

CommitMark == SaveState

\* Commit uncertainty before native mutation.
SaveMark ==
  /\ pc = "marked"
  /\ CommitMark
  /\ pc' = "execute"
  /\ UNCHANGED <<rowVars, expired, active, revokes, refused, memVars, effect, late,
                 faults>>

ChecksNoDeadline == TRUE

\* The dispatch deadline of the plan.
InTime == job \notin expired

HidesFailure == {"denied", "broken", "applied"}

\* The receipts of a ValueError and of an OSError or failed subprocess.
Failures == {"denied", "broken"}

\* execute_playbook up to the native call: refused by local policy, or too late, or
\* dispatched.
Dispatch ==
  /\ pc = "execute"
  /\ \/ receipt' = [receipt EXCEPT ![job] = "denied"] /\ pc' = "executed"
     \/ InTime /\ pc' = "acting" /\ UNCHANGED receipt
  /\ UNCHANGED <<rowVars, expired, active, revokes, refused, acked, todo, job,
                 savedVars, effect, late, faults>>

\* The native action, at some moment after the dispatch, be the job expired by then:
\* it is carried out, fails before it changed anything or fails half way (a file
\* found changed after it was moved is reported as denied).
Execute ==
  /\ pc = "acting"
  /\ \/ /\ receipt' = [receipt EXCEPT ![job] = "applied"]
        /\ effect' = [effect EXCEPT ![job] = @ + 1]
     \/ /\ \E r \in Failures : receipt' = [receipt EXCEPT ![job] = r]
        /\ \/ effect' = [effect EXCEPT ![job] = @ + 1]
           \/ UNCHANGED effect
  /\ pc' = "executed"
  /\ UNCHANGED <<rowVars, expired, active, revokes, refused, acked, todo, job, savedVars,
                 late, faults>>

SaveResult ==
  /\ pc = "executed"
  /\ SaveState
  /\ pc' = "post"
  /\ UNCHANGED <<rowVars, expired, active, revokes, refused, memVars, effect, late,
                 faults>>

PostResult ==
  /\ pc = "post"
  /\ Post(job, "acked")
  /\ UNCHANGED <<requestedBy, approvedBy, expired, active, revokes, refused, receipt,
                 todo, job, savedVars, effect>>

SaveAck ==
  /\ pc = "acked"
  /\ SaveState
  /\ pc' = "next"
  /\ UNCHANGED <<rowVars, expired, active, revokes, refused, memVars, effect, late,
                 faults>>

\* A receipt that may be forgotten: acknowledged and more than a week old,
\* which no live job is (a job expires within the hour).
Prunable(j) == j \in acked /\ j \in expired

\* The end of a pass: too many receipts are pruned, oldest first.
Done ==
  /\ pc = "next" /\ todo = {}
  /\ \E old \in SUBSET {j \in Jobs : Prunable(j)} :
       /\ Cardinality({j \in Jobs : receipt[j] # "none"}) <= MaxReceipts => old = {}
       /\ receipt' = [j \in Jobs |-> IF j \in old THEN "none" ELSE receipt[j]]
       /\ acked' = acked \ old
  /\ savedReceipt' = receipt' /\ savedAcked' = acked'
  /\ pc' = "asleep"
  /\ UNCHANGED <<rowVars, expired, active, revokes, refused, todo, job, effect, late,
                 faults>>

\* The process dies; inside the native action, with or without its effect.
Crash ==
  /\ pc # "asleep"
  /\ Fault
  /\ pc' = "asleep"
  /\ \/ UNCHANGED effect
     \/ pc = "acting" /\ effect' = [effect EXCEPT ![job] = @ + 1]
  /\ UNCHANGED <<rowVars, expired, active, revokes, refused, memVars, savedVars, late>>

AgentStep ==
  \/ Load \/ SendEvents \/ BlockCommands \/ Flushed \/ List
  \/ SaveMark \/ Dispatch \/ Execute \/ SaveResult \/ PostResult \/ SaveAck \/ Done
  \/ \E j \in Jobs : Flush(j) \/ Take(j)

Next ==
  \/ \E j \in Jobs, s \in Subjects : RequestCheck(j, s)
  \/ \E j \in Jobs : RequestInsert(j) \/ Expire(j)
  \/ \E j \in Jobs, a \in Admins : Approve(j, a)
  \/ Revoke \/ Enroll \/ Outdate
  \/ \E j \in Jobs, r \in Receipts : LateReceipt(j, r)
  \/ AgentStep \/ Crash

Spec == Init /\ [][Next]_vars

\* main loops for ever; MaxFaults says that requests eventually succeed, but for what
\* is refused for good.
FairSpec == Spec /\ WF_vars(AgentStep)

-----------------------------------------------------------------------------
(* The inductive invariant.                                                *)

\* What the status of a row says of its review and its result.
RowInv ==
  \A j \in Jobs :
    /\ status[j] \in {"approved", "settled"} => approvedBy[j] # None
    /\ approvedBy[j] # None =>
         /\ status[j] \in {"approved", "cancelled", "settled"}
         /\ approvedBy[j] # requestedBy[j]
    /\ result[j] # "none" <=> status[j] = "settled"
    /\ Undoes[j] # None /\ status[j] # "none" => status[Undoes[j]] = "settled"

\* What the state file says, and how far memory may run ahead of it.
AgentInv ==
  \A j \in Jobs :
    /\ savedReceipt[j] # "none" => approvedBy[j] # None
    /\ j \in savedAcked => status[j] = "settled" /\ result[j] = savedReceipt[j]
    /\ pc # "asleep" =>
         /\ receipt[j] = savedReceipt[j] \/ (j = job /\ pc \in {"marked", "executed"})
         /\ (j \in acked <=> j \in savedAcked) \/ (j = job /\ pc = "acked")
         /\ j \in todo =>
              /\ approvedBy[j] # None
              /\ receipt[j] = "none" => status[j] # "settled"

\* A receipt agrees with what happened.
True(j, r) == r = "applied" => effect[j] = 1

\* What each step of the agent knows of the command it handles: until its result
\* is saved, nothing was ever reported on it.
JobInv ==
  /\ pc \in {"marked", "execute", "acting", "executed", "post", "acked"} =>
       job \in Jobs /\ approvedBy[job] # None /\ receipt[job] # "none"
  /\ pc \in {"marked", "execute", "acting", "executed"} =>
       /\ status[job] # "settled"
       /\ \A r \in Receipts : <<job, r>> \notin late
  /\ pc = "marked" => savedReceipt[job] = "none" /\ receipt[job] = Mark
  /\ pc \in {"execute", "acting", "executed"} => savedReceipt[job] = Mark
  /\ pc \in {"execute", "acting"} => effect[job] = 0
  /\ pc = "executed" => True(job, receipt[job])
  /\ pc = "acked" => status[job] = "settled" /\ result[job] = receipt[job]

\* Effects against receipts, on the host, at the server and under way.
TruthInv ==
  \A j \in Jobs :
    /\ effect[j] <= 1
    /\ effect[j] # 0 =>
         approvedBy[j] # None /\ (savedReceipt[j] # "none" \/ status[j] = "settled")
    /\ True(j, savedReceipt[j]) /\ True(j, result[j])
    /\ \A r \in Receipts :
         <<j, r>> \in late => r # "none" /\ (savedReceipt[j] = r \/ status[j] = "settled")

IInv == TypeOK /\ RowInv /\ AgentInv /\ JobInv /\ TruthInv

-----------------------------------------------------------------------------
(* Properties.                                                             *)

\* "A process crash then reports an uncertain failure instead of replaying a
\* privileged action": no job changes the host twice, whatever is listed again,
\* retried, restarted or pruned.
AtMostOnce == \A j \in Jobs : effect[j] <= 1

\* "failed or uncertain execution is not reported as success": a job on record
\* as applied was carried out, once.
ReportIsTrue == \A j \in Jobs : result[j] = "applied" => effect[j] = 1

\* What the agent holds for acknowledged is on record, word for word: a crash
\* or a lost answer never makes it forget a receipt the server does not have.
AcknowledgedIsRecorded ==
  \A j \in savedAcked : status[j] = "settled" /\ result[j] = savedReceipt[j]

\* The host changes only by jobs that another, administrative subject than the
\* requester approved, and undoes only what was settled before.
OnlyReviewedActs ==
  \A j \in Jobs :
    effect[j] > 0 =>
      /\ approvedBy[j] \in Admins /\ approvedBy[j] # requestedBy[j]
      /\ Undoes[j] # None => status[Undoes[j]] = "settled"

\* The jobs that came too late for the agent: expired before they were dispatched, or
\* cancelled before they were listed.
Withdrawn ==
  {j \in expired : ~(pc = "acting" /\ j = job)} \cup
  {j \in Jobs : /\ status[j] = "cancelled"
                /\ pc # "asleep" =>
                     /\ j \notin todo
                     /\ ~(pc \in {"marked", "execute", "acting"} /\ j = job)}

\* "dispatch deadline expired or invalid": what has come too late never changes the
\* host any more, however old the listing that brought it, whatever was pruned, and
\* also if the host is enrolled again.  What was dispatched, or listed before its
\* revocation, may still change it.
WithdrawnStaysOut ==
  [][\A j \in Withdrawn : j \in Withdrawn' /\ effect'[j] = effect[j]]_vars

\* The refinement: performed at most once, then truly reported, for good.
Reported == INSTANCE ReportedCommand
              WITH authorised <- {j \in Jobs : approvedBy[j] # None},
                   report <- result
ImplementsReport == Reported!Spec

\* As long as the host is not revoked, and its outbox not refused, which ends every
\* cycle before receipts are posted, every approved job is answered unless it expires,
\* and every durable receipt is eventually acknowledged or pruned.
ApprovedIsAnswered ==
  \A j \in Jobs :
    /\ status[j] = "approved" ~>
         status[j] = "settled" \/ j \in expired \/ revokes > 0 \/ refused
    /\ savedReceipt[j] # "none" ~>
         j \in savedAcked \/ savedReceipt[j] = "none" \/ revokes > 0 \/ refused

\* poll_playbooks: "Fetch approved host-scoped commands".  The agent of an active
\* host whose outbox is accepted comes to list its commands again and again.
ActiveHostIsServed == []<>(~active \/ refused \/ pc = "list")
=============================================================================
