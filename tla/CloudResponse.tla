----------------------------- MODULE CloudResponse -----------------------------
(***************************************************************************)
(* The reviewed cloud WAF block: response_jobs rows with action            *)
(* cloud_waf_block, from the request made at the control plane             *)
(* (operations_api.py) through the leased response worker                  *)
(* (response_worker.py) to the provider's ruleset (integrations.py,        *)
(* CloudflareWAFConnector).  Several worker processes may run; a worker    *)
(* may stall past its lease, crash between two calls, and see any call     *)
(* time out before or after the provider carried it out.                   *)
(*                                                                         *)
(* Times are kept as the number of ticks left (0: the moment has passed).  *)
(* The column lease_until has two uses in the code, a deadline and a       *)
(* fencing token that no two claims share; they are two variables here,    *)
(* lease (the deadline) and owner (whose claim wrote it last).  attempts   *)
(* is read only as attempts=0, so it is a Boolean.                         *)
(*                                                                         *)
(* A definition standing before the one whose parameters it shares, and    *)
(* used nowhere, is a mutated form of it (PROJECT.json, "mutants").        *)
(***************************************************************************)
EXTENDS Naturals

CONSTANTS
  Jobs,           \* response jobs, all with action cloud_waf_block
  Hosts,          \* enrolled hosts
  HostOf,         \* the host of the alert a job answers
  Workers,        \* response worker processes sharing the database
  Subjects,       \* authenticated operators
  Admins,         \* those with the admin role
  None,           \* no subject, no worker, no job
  Duration,       \* ticks from the request to the plan's fixed expiry
  LeaseTicks,     \* LEASE_SECONDS in ticks
  RetryTicks,     \* the back-off before a retry, in ticks
  MaxFaults,      \* bound: crashes, stalls, lost answers and refusals in a
                  \* behaviour
  DuplicateRefs   \* whether the provider may accept two rules with one ref

ASSUME CloudAssumption ==
  /\ HostOf \in [Jobs -> Hosts]
  /\ Admins \subseteq Subjects
  /\ None \notin Subjects \cup Workers \cup Jobs
  /\ Duration \in Nat \ {0}
  /\ LeaseTicks \in Nat \ {0}
  /\ RetryTicks \in Nat \ {0}
  /\ MaxFaults \in Nat
  /\ DuplicateRefs \in BOOLEAN

VARIABLES
  status,      \* response_jobs.status; "none" before the request,
               \* "checked" while its handler is between check and INSERT
  requestedBy, \* response_jobs.requested_by
  approvedBy,  \* response_jobs.approved_by
  attempted,   \* response_jobs.attempts > 0
  created,     \* response_jobs.created, as the rank of the request
  expires,     \* ticks left to response_jobs.expires
  planEnd,     \* ticks left to the expiry written in the immutable plan
  lease,       \* ticks left to response_jobs.lease_until
  owner,       \* the worker whose claim wrote lease_until, None once reset
  retry,       \* ticks left to response_jobs.next_attempt
  active,      \* hosts whose enrolment is active
  worker,      \* each worker's step and the row it works on
  rules,       \* number of rules with the job's ref at the provider
  late,        \* jobs with a timed-out POST the provider may still execute
  issued,      \* number of requests so far
  faults,      \* number of faults so far, at most MaxFaults
  stray,       \* history: a POST took effect after its claim was lost
  outdated     \* history: the host was revoked after the request's check

rowVars   == <<status, requestedBy, approvedBy, attempted, created, expires,
               planEnd, lease, owner, retry>>
edgeVars  == <<rules, late, stray>>
vars == <<rowVars, active, worker, edgeVars, issued, faults, outdated>>

Waiting  == {"requested", "approved"}
Undoing  == {"rolling_back", "rollback_failed", "rolled_back"}
Outcomes == {"applied", "approved", "failed", "rolled_back", "rollback_failed"}
Statuses == {"none", "checked", "requested", "running", "rolling_back",
             "expired", "cancelled"} \cup Outcomes
Steps    == {"idle", "claimed", "find", "post", "confirm", "delete", "record"}

Idle == [pc |-> "idle", job |-> None, rollback |-> FALSE, outcome |-> "failed"]

RowTypeOK ==
  /\ status \in [Jobs -> Statuses]
  /\ requestedBy \in [Jobs -> Subjects \cup {None}]
  /\ approvedBy \in [Jobs -> Admins \cup {None}]
  /\ attempted \in [Jobs -> BOOLEAN]
  /\ created \in [Jobs -> Nat]
  /\ expires \in [Jobs -> Nat]
  /\ planEnd \in [Jobs -> Nat]
  /\ lease \in [Jobs -> Nat]
  /\ owner \in [Jobs -> Workers \cup {None}]
  /\ retry \in [Jobs -> Nat]

WorkerTypeOK ==
  /\ worker \in [Workers -> [pc: Steps, job: Jobs \cup {None},
                             rollback: BOOLEAN, outcome: Outcomes]]
  /\ \A w \in Workers : worker[w].pc # "idle" => worker[w].job \in Jobs

EdgeTypeOK ==
  /\ rules \in [Jobs -> Nat]
  /\ late \in SUBSET Jobs
  /\ stray \in SUBSET Jobs

TypeOK ==
  /\ RowTypeOK
  /\ WorkerTypeOK
  /\ EdgeTypeOK
  /\ active \in SUBSET Hosts
  /\ issued \in Nat
  /\ faults \in 0..MaxFaults
  /\ outdated \in SUBSET Jobs

Init ==
  /\ status = [j \in Jobs |-> "none"]
  /\ requestedBy = [j \in Jobs |-> None]
  /\ approvedBy = [j \in Jobs |-> None]
  /\ attempted = [j \in Jobs |-> FALSE]
  /\ created = [j \in Jobs |-> 0]
  /\ expires = [j \in Jobs |-> 0]
  /\ planEnd = [j \in Jobs |-> 0]
  /\ lease = [j \in Jobs |-> 0]
  /\ owner = [j \in Jobs |-> None]
  /\ retry = [j \in Jobs |-> 0]
  /\ active = Hosts
  /\ worker = [w \in Workers |-> Idle]
  /\ rules = [j \in Jobs |-> 0]
  /\ late = {}
  /\ stray = {}
  /\ issued = 0
  /\ faults = 0
  /\ outdated = {}

-----------------------------------------------------------------------------
(* The control plane.                                                      *)

\* request_playbook reads the alert and the host's enrolment outside any
\* transaction and takes its clock reading before them.
RequestCheck(j, s) ==
  /\ status[j] = "none"
  /\ HostOf[j] \in active
  /\ status' = [status EXCEPT ![j] = "checked"]
  /\ requestedBy' = [requestedBy EXCEPT ![j] = s]
  /\ expires' = [expires EXCEPT ![j] = Duration]
  /\ planEnd' = [planEnd EXCEPT ![j] = Duration]
  /\ created' = [created EXCEPT ![j] = issued]
  /\ issued' = issued + 1
  /\ UNCHANGED <<approvedBy, attempted, lease, owner, retry, active, worker,
                 edgeVars, faults, outdated>>

\* The INSERT of the same handler, a transaction of its own.
RequestInsert(j) ==
  /\ status[j] = "checked"
  /\ status' = [status EXCEPT ![j] = "requested"]
  /\ UNCHANGED <<requestedBy, approvedBy, attempted, created, expires, planEnd,
                 lease, owner, retry, active, worker, edgeVars, issued, faults,
                 outdated>>

\* Another subject than the requester's, a waiting request, and in time.
MayApprove(j, a) ==
  /\ requestedBy[j] # a
  /\ status[j] = "requested"
  /\ expires[j] > 0

\* approve_playbook, one BEGIN IMMEDIATE transaction.
Approve(j, a) ==
  /\ MayApprove(j, a)
  /\ status' = [status EXCEPT ![j] = "approved"]
  /\ approvedBy' = [approvedBy EXCEPT ![j] = a]
  /\ UNCHANGED <<requestedBy, attempted, created, expires, planEnd, lease,
                 owner, retry, active, worker, edgeVars, issued, faults,
                 outdated>>

\* The jobs revoke cancels: not yet attempted by any worker.
Cancelled(j) == status[j] \in Waiting /\ ~attempted[j]

\* revoke: unattempted jobs are cancelled, attempted ones expire at once so
\* that the worker undoes them.
Revoke(h) ==
  /\ active' = active \ {h}
  /\ status' = [j \in Jobs |-> IF HostOf[j] = h /\ Cancelled(j)
                               THEN "cancelled" ELSE status[j]]
  /\ expires' = [j \in Jobs |->
                   IF /\ HostOf[j] = h
                      /\ attempted[j]
                      /\ status[j] \notin {"rolled_back", "failed"}
                   THEN 0 ELSE expires[j]]
  /\ outdated' = outdated \cup {j \in Jobs : HostOf[j] = h /\ status[j] # "none"}
  /\ UNCHANGED <<requestedBy, approvedBy, attempted, created, planEnd, lease,
                 owner, retry, worker, edgeVars, issued, faults>>

\* A new enrolment of a revoked host, seen from here as one step.
Enroll(h) ==
  /\ h \notin active
  /\ active' = active \cup {h}
  /\ UNCHANGED <<rowVars, worker, edgeVars, issued, faults, outdated>>

-----------------------------------------------------------------------------
(* The response worker.                                                    *)

SweepsAttempted(j) == status[j] \in Waiting /\ expires[j] = 0

\* Requested and approved jobs no worker attempted expire with their plan.
Swept(j) == status[j] \in Waiting /\ ~attempted[j] /\ expires[j] = 0

ForgetsCrashed(j) ==
  /\ ~Swept(j)
  /\ \/ status[j] = "approved" /\ retry[j] = 0
     \/ status[j] = "applied" /\ expires[j] = 0
     \/ status[j] = "rolling_back" /\ lease[j] = 0
     \/ status[j] = "rollback_failed" /\ retry[j] = 0

\* What a claim may take: due retries, lapsed leases, expired effects.
Claimable(j) ==
  /\ ~Swept(j)
  /\ \/ status[j] = "approved" /\ retry[j] = 0
     \/ status[j] = "running" /\ lease[j] = 0
     \/ status[j] = "applied" /\ expires[j] = 0
     \/ status[j] = "rolling_back" /\ lease[j] = 0
     \/ status[j] = "rollback_failed" /\ retry[j] = 0

\* Whether a claim undoes the rule instead of making it.
RollsBack(j) ==
  \/ status[j] \in {"applied", "rolling_back", "rollback_failed"}
  \/ expires[j] = 0

\* _claim_response: one BEGIN IMMEDIATE transaction that expires the overdue
\* requests and leases the oldest claimable job.
Claim(w, j) ==
  /\ worker[w].pc = "idle"
  /\ Claimable(j)
  /\ \A k \in Jobs : Claimable(k) => created[j] <= created[k]
  /\ status' = [k \in Jobs |->
                  IF k = j
                  THEN IF RollsBack(j) THEN "rolling_back" ELSE "running"
                  ELSE IF Swept(k) THEN "expired" ELSE status[k]]
  /\ attempted' = [attempted EXCEPT ![j] = TRUE]
  /\ lease' = [lease EXCEPT ![j] = LeaseTicks]
  /\ owner' = [owner EXCEPT ![j] = w]
  /\ worker' = [worker EXCEPT ![w] = [pc |-> "claimed", job |-> j,
                                      rollback |-> RollsBack(j),
                                      outcome |-> "failed"]]
  /\ UNCHANGED <<requestedBy, approvedBy, created, expires, planEnd, retry,
                 active, edgeVars, issued, faults, outdated>>

\* A pass that finds nothing to claim still expires the overdue requests.
Sweep(w) ==
  /\ worker[w].pc = "idle"
  /\ ~\E j \in Jobs : Claimable(j)
  /\ \E j \in Jobs : Swept(j)
  /\ status' = [j \in Jobs |-> IF Swept(j) THEN "expired" ELSE status[j]]
  /\ UNCHANGED <<requestedBy, approvedBy, attempted, created, expires, planEnd,
                 lease, owner, retry, active, worker, edgeVars, issued, faults,
                 outdated>>

Unfenced(w) == worker[w].job \in Jobs

\* Does w's claim still hold: has nobody reclaimed the row it works on?
HoldsClaim(w) ==
  LET j == worker[w].job
  IN  /\ status[j] = IF worker[w].rollback THEN "rolling_back" ELSE "running"
      /\ owner[j] = w

GoTo(w, pc) == worker' = [worker EXCEPT ![w].pc = pc]

Finish(w, outcome) ==
  worker' = [worker EXCEPT ![w].pc = "record", ![w].outcome = outcome]

RejectedIsUndone(w, retryable) ==
  IF worker[w].rollback
  THEN IF retryable THEN "rollback_failed" ELSE "rolled_back"
  ELSE IF retryable THEN "approved" ELSE "failed"

\* The status an IntegrationError leads to.
ErrorStatus(w, retryable) ==
  IF worker[w].rollback THEN "rollback_failed"
  ELSE IF retryable THEN "approved" ELSE "failed"

\* Any call may fail: the connector is disabled or misconfigured, the plan is
\* out of scope, the provider is unreachable, rejects the call, or answers
\* with something invalid.
Fault(w, retryable) ==
  /\ faults < MaxFaults
  /\ faults' = faults + 1
  /\ Finish(w, ErrorStatus(w, retryable))

\* The checks of process_responses and apply before the first provider call.
Prepare(w) ==
  /\ worker[w].pc = "claimed"
  /\ \/ /\ worker[w].rollback \/ planEnd[worker[w].job] > 0
        /\ GoTo(w, "find")
        /\ UNCHANGED faults
     \/ /\ ~worker[w].rollback /\ planEnd[worker[w].job] = 0
        /\ Finish(w, "failed")           \* plan_expired
        /\ UNCHANGED faults
     \/ Fault(w, FALSE)                  \* refused before any call
  /\ UNCHANGED <<rowVars, active, edgeVars, issued, outdated>>

\* _find before the change: a GET of the ruleset.
Find(w) ==
  LET j == worker[w].job IN
  /\ worker[w].pc = "find"
  /\ \/ /\ rules[j] = 0
        /\ IF worker[w].rollback THEN Finish(w, "rolled_back")
                                 ELSE GoTo(w, "post")
        /\ UNCHANGED faults
     \/ /\ rules[j] = 1
        /\ IF worker[w].rollback THEN GoTo(w, "delete")
                                 ELSE Finish(w, "applied")
        /\ UNCHANGED faults
     \/ /\ rules[j] > 1                  \* duplicate_reference
        /\ Finish(w, ErrorStatus(w, FALSE))
        /\ UNCHANGED faults
     \/ \E retryable \in BOOLEAN : Fault(w, retryable)
  /\ UNCHANGED <<rowVars, active, edgeVars, issued, outdated>>

\* The provider executes a POST for job j.
Accepts(j) == DuplicateRefs \/ rules[j] = 0

AddRule(j, claimHeld) ==
  /\ Accepts(j)
  /\ rules' = [rules EXCEPT ![j] = @ + 1]
  /\ stray' = IF claimHeld THEN stray ELSE stray \cup {j}

\* POST /rules: carried out and answered; refused because the ref exists, or
\* for any other reason; or the answer is lost, after the POST was carried out
\* or not, or while it is still under way (a transport error, retryable).
Post(w) ==
  LET j == worker[w].job IN
  /\ worker[w].pc = "post"
  /\ \/ /\ AddRule(j, HoldsClaim(w))
        /\ GoTo(w, "confirm")
        /\ UNCHANGED <<late, faults>>
     \/ /\ rules[j] > 0
        /\ Finish(w, "failed")
        /\ UNCHANGED <<edgeVars, faults>>
     \/ Fault(w, FALSE) /\ UNCHANGED edgeVars
     \/ /\ Fault(w, TRUE)
        /\ \/ UNCHANGED edgeVars
           \/ AddRule(j, HoldsClaim(w)) /\ UNCHANGED late
           \/ late' = late \cup {j} /\ UNCHANGED <<rules, stray>>
  /\ UNCHANGED <<rowVars, active, issued, outdated>>

\* The provider executes a POST whose client gave up on it.
LatePost(j) ==
  /\ j \in late
  /\ late' = late \ {j}
  /\ \/ AddRule(j, FALSE)
     \/ UNCHANGED <<rules, stray>>       \* refused, or lost for good
  /\ UNCHANGED <<rowVars, active, worker, issued, faults, outdated>>

\* _find after the POST.
Confirm(w) ==
  LET j == worker[w].job IN
  /\ worker[w].pc = "confirm"
  /\ \/ rules[j] = 1 /\ Finish(w, "applied") /\ UNCHANGED faults
     \/ rules[j] = 0 /\ Finish(w, "approved") /\ UNCHANGED faults
     \/ rules[j] > 1 /\ Finish(w, "failed") /\ UNCHANGED faults
     \/ \E retryable \in BOOLEAN : Fault(w, retryable)
  /\ UNCHANGED <<rowVars, active, edgeVars, issued, outdated>>

\* DELETE /rules/{id}.  A rule already gone is a rejected call.
Delete(w) ==
  LET j == worker[w].job
      RemoveRule == rules[j] > 0 /\ rules' = [rules EXCEPT ![j] = @ - 1]
  IN
  /\ worker[w].pc = "delete"
  /\ \/ RemoveRule /\ Finish(w, "rolled_back") /\ UNCHANGED faults
     \/ rules[j] = 0 /\ Finish(w, "rollback_failed") /\ UNCHANGED <<rules, faults>>
     \/ Fault(w, TRUE) /\ (RemoveRule \/ UNCHANGED rules)
  /\ UNCHANGED <<rowVars, active, late, stray, issued, outdated>>

\* The fenced UPDATE that records the outcome; a lost claim changes nothing.
Record(w) ==
  LET j == worker[w].job IN
  /\ worker[w].pc = "record"
  /\ worker' = [worker EXCEPT ![w] = Idle]
  /\ IF HoldsClaim(w)
     THEN /\ status' = [status EXCEPT ![j] = worker[w].outcome]
          /\ retry' = [retry EXCEPT ![j] = RetryTicks]
          /\ lease' = [lease EXCEPT ![j] = 0]
          /\ owner' = [owner EXCEPT ![j] = None]
     ELSE UNCHANGED <<status, retry, lease, owner>>
  /\ UNCHANGED <<requestedBy, approvedBy, attempted, created, expires, planEnd,
                 active, edgeVars, issued, faults, outdated>>

\* A worker dies between two calls and restarts with no memory of its claim.
Crash(w) ==
  /\ worker[w].pc # "idle"
  /\ faults < MaxFaults
  /\ faults' = faults + 1
  /\ worker' = [worker EXCEPT ![w] = Idle]
  /\ UNCHANGED <<rowVars, active, edgeVars, issued, outdated>>

-----------------------------------------------------------------------------
Less(n) == IF n = 0 THEN 0 ELSE n - 1

\* A claim runs out under a live worker.  Its calls end within seconds and the
\* lease lasts LEASE_SECONDS, so only a stalled process gets there: a fault.
Overrun ==
  \E w \in Workers : /\ worker[w].pc # "idle"
                     /\ HoldsClaim(w)
                     /\ lease[worker[w].job] = 1

\* Time passes, however busy the workers are.
Tick ==
  /\ \E j \in Jobs : expires[j] + planEnd[j] + lease[j] + retry[j] > 0
  /\ expires' = [j \in Jobs |-> Less(expires[j])]
  /\ planEnd' = [j \in Jobs |-> Less(planEnd[j])]
  /\ lease' = [j \in Jobs |-> Less(lease[j])]
  /\ retry' = [j \in Jobs |-> Less(retry[j])]
  /\ \/ ~Overrun /\ UNCHANGED faults
     \/ Overrun /\ faults < MaxFaults /\ faults' = faults + 1
  /\ UNCHANGED <<status, requestedBy, approvedBy, attempted, created, owner,
                 active, worker, edgeVars, issued, outdated>>

WorkerStep(w) ==
  \/ \E j \in Jobs : Claim(w, j)
  \/ Sweep(w) \/ Prepare(w) \/ Find(w) \/ Post(w) \/ Confirm(w) \/ Delete(w)
  \/ Record(w)

Next ==
  \/ \E j \in Jobs, s \in Subjects : RequestCheck(j, s)
  \/ \E j \in Jobs : RequestInsert(j)
  \/ \E j \in Jobs, a \in Admins : Approve(j, a)
  \/ \E h \in Hosts : Revoke(h) \/ Enroll(h)
  \/ \E w \in Workers : WorkerStep(w) \/ Crash(w)
  \/ \E j \in Jobs : LatePost(j)
  \/ Tick

Spec == Init /\ [][Next]_vars

\* The worker runs in a loop (main, --watch), a call ends at its time-out and
\* a late POST is executed or dropped.  MaxFaults makes failures finite: the
\* provider and its configuration are eventually sound, and workers stall or
\* die only so often.
FairSpec ==
  /\ Spec
  /\ WF_vars(Tick)
  /\ \A w \in Workers : WF_vars(WorkerStep(w))
  /\ \A j \in Jobs : WF_vars(LatePost(j))

-----------------------------------------------------------------------------
(* The inductive invariant.                                                *)

\* What the status of a row says of its review and of its attempts.
RowInv ==
  \A j \in Jobs :
    /\ status[j] \in {"running", "applied", "failed"} \cup Undoing => attempted[j]
    /\ attempted[j] =>
         /\ status[j] \in {"approved", "running", "applied", "failed"} \cup Undoing
         /\ requestedBy[j] \in Subjects
         /\ approvedBy[j] \in Admins
         /\ approvedBy[j] # requestedBy[j]
    /\ status[j] \in {"checked", "requested", "approved"} => requestedBy[j] \in Subjects
    /\ status[j] = "approved" =>
         approvedBy[j] \in Admins /\ approvedBy[j] # requestedBy[j]

\* What a worker's step says of the row it works on.
WorkerInv ==
  \A w \in Workers :
    LET j == worker[w].job IN
    /\ worker[w].pc = "idle" => j = None
    /\ worker[w].pc # "idle" =>
         /\ attempted[j]
         /\ worker[w].rollback => status[j] \in Undoing
         /\ worker[w].pc \in {"post", "confirm"} => ~worker[w].rollback
         /\ worker[w].pc = "delete" => worker[w].rollback
    /\ worker[w].pc = "record" =>
         /\ worker[w].rollback <=>
              worker[w].outcome \in {"rolled_back", "rollback_failed"}
         /\ worker[w].outcome = "applied" =>
              status[j] \in Undoing \/ rules[j] > 0

\* What is known of the provider.
EdgeInv ==
  \A j \in Jobs :
    /\ rules[j] > 0 \/ j \in late => attempted[j]
    /\ status[j] = "applied" => rules[j] > 0

\* Rules that outlive an undone job: no rule, or one that strayed.
StrayInv ==
  /\ \A j \in Jobs : status[j] = "rolled_back" => rules[j] = 0 \/ j \in stray
  /\ \A w \in Workers :
       LET j == worker[w].job IN
       /\ worker[w].pc = "delete" => rules[j] <= 1 \/ j \in stray
       /\ worker[w].pc = "record" /\ worker[w].outcome = "rolled_back" =>
            rules[j] = 0 \/ j \in stray

IInv == TypeOK /\ RowInv /\ WorkerInv /\ EdgeInv /\ StrayInv

-----------------------------------------------------------------------------
(* Properties.                                                             *)

\* A rule exists at the provider, or may still appear there, only for a job
\* that was attempted after one subject asked for it and another, an
\* administrator, approved it (approve_playbook, _claim_response).
TwoPersonRule ==
  \A j \in Jobs :
    rules[j] > 0 \/ j \in late =>
      /\ attempted[j]
      /\ requestedBy[j] \in Subjects
      /\ approvedBy[j] \in Admins
      /\ approvedBy[j] # requestedBy[j]

\* A job withdrawn by a revocation or by its expiry has had no effect: no rule,
\* no POST under way and no worker acting on it.  (The revocation and the
\* sweep race the claim; only attempts=0 tells them apart.)
WithdrawnHasNoEffect ==
  \A j \in Jobs :
    status[j] \in {"cancelled", "expired"} =>
      /\ rules[j] = 0 /\ j \notin late
      /\ \A w \in Workers : worker[w].job # j

\* A job shown as applied has its rule at the provider, whatever other workers
\* did with the job before: no stalled or crashed rollback can have removed it.
AppliedIsEnforced ==
  \A j \in Jobs : status[j] = "applied" => rules[j] > 0

\* A rule left behind by a job shown as rolled back can only come from a POST
\* that took effect after its worker had lost the claim.
RolledBackIsClean ==
  \A j \in Jobs : status[j] = "rolled_back" /\ rules[j] > 0 => j \in stray

\* Once a job is being undone it is never applied again.
NoReturnFromUndoing ==
  [][\A j \in Jobs : status[j] \in Undoing => status'[j] \in Undoing]_vars

\* No job is attempted for the first time once its time has passed.
NoFirstAttemptAfterExpiry ==
  [][\A j \in Jobs : ~attempted[j] /\ attempted'[j] => expires[j] > 0]_vars

\* Every job some worker attempted is eventually settled: rolled back, or
\* failed.  Nothing stays applied, running or half undone for ever, unless the
\* provider accepted two rules of one reference, which no call tells apart.
AttemptedIsSettled ==
  \A j \in Jobs :
    attempted[j] ~> \/ status[j] \in {"rolled_back", "failed"}
                    \/ rules[j] > 1

\* OPERATIONS.md: "The durable worker reconciles and removes expired managed
\* rules".  A rule made under its worker's claim is removed once its plan has
\* expired (rules of stalled workers and delayed POSTs are not even counted).
ExpiredRuleIsRemoved ==
  \A j \in Jobs :
    rules[j] > 0 /\ planEnd[j] = 0 /\ j \notin stray ~> rules[j] = 0

\* The refinement: where a row stands in its review and execution.
Phase(j) ==
  CASE status[j] \in {"none", "checked", "requested"}   -> "open"
    [] status[j] = "approved" /\ ~attempted[j]           -> "authorised"
    [] status[j] \in {"cancelled", "expired"}            -> "withdrawn"
    [] status[j] \in {"rolled_back", "failed"}           -> "settled"
    [] OTHER                                             -> "attempted"

Reviewed == INSTANCE ReviewedAction WITH phase <- [j \in Jobs |-> Phase(j)]

\* The leased worker implements the reviewed action: withdrawn and settled are
\* final, and only an authorised and attempted job reaches the provider.
ImplementsReview == Reviewed!Spec

\* The test test_revoked_unexecuted_cloud_job_never_calls_provider: a job
\* requested for a host before its revocation is never attempted after it.
RevokedIsNeverAttempted ==
  [][\A j \in Jobs : ~attempted[j] /\ attempted'[j] => j \notin outdated]_vars
=============================================================================
