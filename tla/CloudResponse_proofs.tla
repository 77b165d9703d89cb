-------------------------- MODULE CloudResponse_proofs --------------------------
(***************************************************************************)
(* Proofs about CloudResponse, for any number of jobs, hosts, workers and  *)
(* faults and any timing constants.                                        *)
(***************************************************************************)
EXTENDS CloudResponse, TLAPS

\* Moving to the next call, or to the recording of an outcome, keeps the row.
LEMMA GoToType ==
  ASSUME TypeOK, NEW w \in Workers, NEW pc \in Steps, worker[w].pc # "idle",
         GoTo(w, pc)
  PROVE  WorkerTypeOK'
BY DEF TypeOK, WorkerTypeOK, GoTo, Steps

LEMMA FinishType ==
  ASSUME TypeOK, NEW w \in Workers, NEW o \in Outcomes, worker[w].pc # "idle",
         Finish(w, o)
  PROVE  WorkerTypeOK'
BY ZenonT(40) DEF TypeOK, WorkerTypeOK, Finish, Steps

LEMMA FaultType ==
  ASSUME TypeOK, NEW w \in Workers, NEW r \in BOOLEAN, worker[w].pc # "idle",
         Fault(w, r)
  PROVE  WorkerTypeOK' /\ faults' \in 0..MaxFaults
<1>1. ErrorStatus(w, r) \in Outcomes
  BY DEF ErrorStatus, Outcomes
<1>2. WorkerTypeOK'
  BY <1>1, FinishType DEF Fault
<1>3. faults' \in 0..MaxFaults
  BY CloudAssumption DEF Fault, TypeOK
<1> QED
  BY <1>2, <1>3

\* A POST the provider executes adds one rule.
LEMMA AddRuleType ==
  ASSUME EdgeTypeOK, NEW j \in Jobs, NEW held \in BOOLEAN, AddRule(j, held)
  PROVE  rules' \in [Jobs -> Nat] /\ stray' \in SUBSET Jobs
BY DEF EdgeTypeOK, AddRule

\* The calls of a worker: whatever happens, its next step is well formed.
LEMMA CallType ==
  ASSUME TypeOK, NEW w \in Workers,
         Prepare(w) \/ Find(w) \/ Post(w) \/ Confirm(w) \/ Delete(w)
  PROVE  WorkerTypeOK' /\ faults' \in 0..MaxFaults
<1> DEFINE Moves == \/ \E pc \in Steps : GoTo(w, pc) /\ UNCHANGED faults
                    \/ \E o \in Outcomes : Finish(w, o) /\ UNCHANGED faults
                    \/ \E r \in BOOLEAN : Fault(w, r)
<1>1. worker[w].pc # "idle"
  BY DEF Prepare, Find, Post, Confirm, Delete
<1>2. ErrorStatus(w, FALSE) \in Outcomes
  BY DEF ErrorStatus, Outcomes
<1>3. Moves
  <2>1. /\ {"find", "post", "confirm", "delete"} \subseteq Steps
        /\ {"applied", "approved", "failed", "rolled_back", "rollback_failed"}
             \subseteq Outcomes
    BY DEF Steps, Outcomes
  <2>2. CASE Prepare(w)
    BY <2>1, <2>2 DEF Prepare
  <2>3. CASE Find(w)
    BY <1>2, <2>1, <2>3 DEF Find
  <2>4. CASE Post(w)
    BY <2>1, <2>4 DEF Post
  <2>5. CASE Confirm(w)
    BY <2>1, <2>5 DEF Confirm
  <2>6. CASE Delete(w)
    BY <2>1, <2>6 DEF Delete
  <2> QED
    BY <2>2, <2>3, <2>4, <2>5, <2>6
<1>4. CASE \E pc \in Steps : GoTo(w, pc) /\ UNCHANGED faults
  BY <1>1, <1>4, GoToType DEF TypeOK
<1>5. CASE \E o \in Outcomes : Finish(w, o) /\ UNCHANGED faults
  BY <1>1, <1>5, FinishType DEF TypeOK
<1>6. CASE \E r \in BOOLEAN : Fault(w, r)
  BY <1>1, <1>6, FaultType
<1> QED
  BY <1>3, <1>4, <1>5, <1>6

\* Every step keeps the type invariant.
LEMMA StepTypeOK == TypeOK /\ [Next]_vars => TypeOK'
<1>1. ASSUME TypeOK, [Next]_vars PROVE TypeOK'
  <2> USE <1>1 DEF TypeOK
  <2>1. ASSUME NEW j \in Jobs, NEW s \in Subjects, RequestCheck(j, s) PROVE TypeOK'
    <3>1. RowTypeOK'
      BY <2>1, CloudAssumption DEF RequestCheck, RowTypeOK, Statuses
    <3> QED
      BY <2>1, <3>1 DEF RequestCheck, edgeVars, WorkerTypeOK, EdgeTypeOK
  <2>2. ASSUME NEW j \in Jobs, RequestInsert(j) PROVE TypeOK'
    <3>1. RowTypeOK'
      BY <2>2 DEF RequestInsert, RowTypeOK, Statuses
    <3> QED
      BY <2>2, <3>1 DEF RequestInsert, edgeVars, WorkerTypeOK, EdgeTypeOK
  <2>3. ASSUME NEW j \in Jobs, NEW a \in Admins, Approve(j, a) PROVE TypeOK'
    <3>1. RowTypeOK'
      BY <2>3 DEF Approve, MayApprove, RowTypeOK, Statuses, Outcomes
    <3> QED
      BY <2>3, <3>1 DEF Approve, MayApprove, edgeVars, WorkerTypeOK, EdgeTypeOK
  <2>4. ASSUME NEW h \in Hosts, Revoke(h) PROVE TypeOK'
    <3>1. RowTypeOK'
      BY <2>4 DEF Revoke, RowTypeOK, Statuses
    <3> QED
      BY <2>4, <3>1 DEF Revoke, edgeVars, WorkerTypeOK, EdgeTypeOK
  <2>5. ASSUME NEW h \in Hosts, Enroll(h) PROVE TypeOK'
    BY <2>5 DEF Enroll, edgeVars, rowVars, RowTypeOK, WorkerTypeOK, EdgeTypeOK
  <2>6. ASSUME NEW w \in Workers, NEW j \in Jobs, Claim(w, j) PROVE TypeOK'
    <3>1. RowTypeOK'
      BY <2>6, CloudAssumption DEF Claim, RowTypeOK, Statuses
    <3>2. RollsBack(j) \in BOOLEAN
      BY DEF RollsBack
    <3>3. WorkerTypeOK'
      BY <2>6, <3>2 DEF Claim, WorkerTypeOK, Steps, Outcomes
    <3> QED
      BY <2>6, <3>1, <3>3 DEF Claim, edgeVars, EdgeTypeOK
  <2>7. ASSUME NEW w \in Workers, Sweep(w) PROVE TypeOK'
    <3>1. RowTypeOK'
      BY <2>7 DEF Sweep, RowTypeOK, Statuses
    <3> QED
      BY <2>7, <3>1 DEF Sweep, edgeVars, WorkerTypeOK, EdgeTypeOK
  <2>8. ASSUME NEW w \in Workers,
               Prepare(w) \/ Find(w) \/ Post(w) \/ Confirm(w) \/ Delete(w)
        PROVE  TypeOK'
    <3>1. WorkerTypeOK' /\ faults' \in 0..MaxFaults
      BY <2>8, CallType
    <3>2. RowTypeOK' /\ UNCHANGED <<active, issued, outdated>>
      BY <2>8 DEF Prepare, Find, Post, Confirm, Delete, rowVars, RowTypeOK
    <3>3. EdgeTypeOK'
      <4>1. CASE Prepare(w) \/ Find(w) \/ Confirm(w)
        BY <4>1 DEF Prepare, Find, Confirm, edgeVars, EdgeTypeOK
      <4>2. Post(w) \/ Delete(w) => worker[w].job \in Jobs
        BY DEF WorkerTypeOK, Post, Delete
      <4>5. HoldsClaim(w) \in BOOLEAN
        BY DEF HoldsClaim
      <4>3. CASE Post(w)
        BY <4>2, <4>3, AddRuleType, <4>5 DEF Post, edgeVars, EdgeTypeOK
      <4>4. CASE Delete(w)
        <5>1. \/ rules' = rules
              \/ /\ rules[worker[w].job] > 0
                 /\ rules' = [rules EXCEPT ![worker[w].job] = @ - 1]
          BY <4>4 DEF Delete
        <5>2. rules' \in [Jobs -> Nat]
          BY <4>2, <4>4, <5>1 DEF EdgeTypeOK
        <5> QED
          BY <4>4, <5>2 DEF Delete, EdgeTypeOK
      <4> QED
        BY <2>8, <4>1, <4>3, <4>4
    <3> QED
      BY <3>1, <3>2, <3>3
  <2>9. ASSUME NEW w \in Workers, Record(w) PROVE TypeOK'
    <3>1. RowTypeOK'
      BY <2>9, CloudAssumption, SMTT(30)
      DEF Record, RowTypeOK, WorkerTypeOK, Statuses
    <3>2. WorkerTypeOK'
      BY <2>9 DEF Record, WorkerTypeOK, Idle, Steps, Outcomes
    <3> QED
      BY <2>9, <3>1, <3>2 DEF Record, edgeVars, EdgeTypeOK
  <2>10. ASSUME NEW w \in Workers, Crash(w) PROVE TypeOK'
    <3>1. WorkerTypeOK'
      BY <2>10 DEF Crash, WorkerTypeOK, Idle, Steps, Outcomes
    <3> QED
      BY <2>10, <3>1, CloudAssumption
      DEF Crash, edgeVars, rowVars, RowTypeOK, EdgeTypeOK
  <2>11. ASSUME NEW j \in Jobs, LatePost(j) PROVE TypeOK'
    BY <2>11
    DEF LatePost, AddRule, rowVars, RowTypeOK, WorkerTypeOK, EdgeTypeOK
  <2>12. CASE Tick
    <3>1. RowTypeOK'
      <4>1. \A n \in Nat : Less(n) \in Nat
        BY DEF Less
      <4> QED
        BY <2>12, <4>1 DEF Tick, RowTypeOK
    <3>2. faults' \in 0..MaxFaults
      BY <2>12, CloudAssumption DEF Tick
    <3> QED
      BY <2>12, <3>1, <3>2 DEF Tick, edgeVars, WorkerTypeOK, EdgeTypeOK
  <2>13. CASE UNCHANGED vars
    BY <2>13 DEF vars, rowVars, edgeVars, RowTypeOK, WorkerTypeOK, EdgeTypeOK
  <2> QED
    BY <2>1, <2>2, <2>3, <2>4, <2>5, <2>6, <2>7, <2>8, <2>9, <2>10, <2>11,
       <2>12, <2>13 DEF Next, WorkerStep
<1> QED
  BY <1>1

\* The type invariant holds of every reachable state.
THEOREM CloudTypeOK == Spec => []TypeOK
<1>1. Init => TypeOK
  BY CloudAssumption
  DEF Init, TypeOK, RowTypeOK, WorkerTypeOK, EdgeTypeOK, Idle, Statuses, Steps,
      Outcomes
<1> QED
  BY <1>1, StepTypeOK, PTL DEF Spec

-----------------------------------------------------------------------------
(* The inductive invariant.  Its heart: a job being undone stays so, which *)
(* is why the rule of an applied job cannot have been deleted.             *)

\* Steps that leave the workers, the rules and the attempts alone.
LEMMA RowStepsKeepIInv ==
  ASSUME IInv,
         \/ \E j \in Jobs, s \in Subjects : RequestCheck(j, s)
         \/ \E j \in Jobs : RequestInsert(j)
         \/ \E j \in Jobs, a \in Admins : Approve(j, a)
         \/ \E h \in Hosts : Revoke(h)
         \/ \E w \in Workers : Sweep(w)
  PROVE  RowInv' /\ WorkerInv' /\ EdgeInv' /\ StrayInv'
<1> DEFINE Same == UNCHANGED <<attempted, worker, rules, late>>
           Kept == \A j \in Jobs : attempted[j] => status'[j] = status[j]
           NotApplied == \A j \in Jobs : status'[j] = "applied" => status[j] = "applied"
<1>1. Same
  BY DEF RequestCheck, RequestInsert, Approve, MayApprove, Revoke, Sweep, edgeVars
<1>2. Kept /\ NotApplied
  BY CloudAssumption
  DEF IInv, TypeOK, RowTypeOK, RowInv, Undoing, RequestCheck, RequestInsert, Approve, MayApprove,
      Revoke, Cancelled, Sweep, Swept, Waiting
<1>3. RowInv'
  BY CloudAssumption
  DEF IInv, TypeOK, RowTypeOK, RowInv, Undoing, RequestCheck, RequestInsert, Approve, MayApprove,
      Revoke, Cancelled, Sweep, Swept, Waiting
<1>4. WorkerInv'
  BY <1>1, <1>2 DEF IInv, TypeOK, WorkerTypeOK, WorkerInv
<1>5. EdgeInv'
  BY <1>1, <1>2 DEF IInv, EdgeInv
<1>6. StrayInv'
  <2>1. /\ UNCHANGED stray
        /\ \A j \in Jobs : status'[j] = "rolled_back" => status[j] = "rolled_back"
    BY CloudAssumption
    DEF IInv, TypeOK, RowTypeOK, RequestCheck, RequestInsert, Approve, MayApprove, Revoke, Sweep,
        edgeVars
  <2> QED
    BY <1>1, <2>1 DEF IInv, StrayInv
<1> QED
  BY <1>3, <1>4, <1>5, <1>6

\* A claim attempts a job that two persons agreed on, and takes it out of the
\* applied status when it undoes it.
LEMMA ClaimKeepsIInv ==
  ASSUME IInv, NEW w \in Workers, NEW j \in Jobs, Claim(w, j)
  PROVE  RowInv' /\ WorkerInv' /\ EdgeInv' /\ StrayInv'
<1> USE DEF IInv, TypeOK
<1>1. /\ status[j] \in {"approved", "running", "applied"} \cup Undoing
      /\ attempted' = [attempted EXCEPT ![j] = TRUE]
      /\ UNCHANGED <<requestedBy, approvedBy, rules, late>>
  BY DEF Claim, Claimable, Undoing, edgeVars
<1>2. /\ status'[j] = IF RollsBack(j) THEN "rolling_back" ELSE "running"
      /\ status[j] \in Undoing => RollsBack(j)
      /\ \A k \in Jobs \ {j} : \/ status'[k] = status[k]
                               \/ /\ status'[k] = "expired"
                                  /\ ~attempted[k]
  BY DEF Claim, Claimable, RollsBack, Swept, RowTypeOK, Undoing
<1>3. RowInv'
  BY <1>1, <1>2, CloudAssumption DEF RowInv, RowTypeOK, Undoing
<1>4. WorkerInv'
  <2>1. /\ worker'[w] = [pc |-> "claimed", job |-> j, rollback |-> RollsBack(j),
                         outcome |-> "failed"]
        /\ \A v \in Workers \ {w} : worker'[v] = worker[v]
    BY DEF Claim, WorkerTypeOK
  <2>2. \A k \in Jobs : status[k] \in Undoing => status'[k] \in Undoing
    BY <1>2 DEF RowInv, Undoing
  <2> SUFFICES ASSUME NEW v \in Workers PROVE WorkerInv!(v)'
    BY DEF WorkerInv
  <2>3. CASE v = w
    BY <1>1, <1>2, <2>1, <2>3 DEF RowTypeOK, Undoing
  <2>4. CASE v # w
    BY <1>1, <2>1, <2>2, <2>4 DEF WorkerInv, RowTypeOK, WorkerTypeOK
  <2> QED
    BY <2>3, <2>4
<1>5. EdgeInv'
  BY <1>1, <1>2 DEF EdgeInv, RowTypeOK
<1>6. StrayInv'
  <2>1. /\ UNCHANGED stray
        /\ \A v \in Workers :
             worker'[v] = worker[v] \/ worker'[v].pc = "claimed"
        /\ \A k \in Jobs : status'[k] = "rolled_back" => status[k] = "rolled_back"
    BY <1>2 DEF Claim, edgeVars, WorkerTypeOK
  <2> QED
    BY <1>1, <2>1 DEF StrayInv
<1> QED
  BY <1>3, <1>4, <1>5, <1>6

\* How a call moves its worker: to another call, or to record an outcome that
\* fits what it was doing.
Moves(w) ==
  \/ GoTo(w, "find")
  \/ (GoTo(w, "post") \/ GoTo(w, "confirm")) /\ ~worker[w].rollback
  \/ GoTo(w, "delete") /\ worker[w].rollback
  \/ \E o \in Outcomes :
       /\ Finish(w, o)
       /\ worker[w].rollback <=> o \in {"rolled_back", "rollback_failed"}

LEMMA MoveFacts ==
  ASSUME WorkerTypeOK, NEW w \in Workers, Moves(w)
  PROVE  /\ \A v \in Workers \ {w} : worker'[v] = worker[v]
         /\ worker'[w].job = worker[w].job
         /\ worker'[w].rollback = worker[w].rollback
         /\ worker'[w].pc \in {"find", "post", "confirm", "delete", "record"}
         /\ worker'[w].pc \in {"post", "confirm"} => ~worker[w].rollback
         /\ worker'[w].pc = "delete" => worker[w].rollback
         /\ worker'[w].pc = "record" =>
              (worker[w].rollback <=>
                 worker'[w].outcome \in {"rolled_back", "rollback_failed"})
BY DEF Moves, GoTo, Finish, WorkerTypeOK

\* A failed call only records a failure.
LEMMA FaultMoves ==
  ASSUME WorkerTypeOK, NEW w \in Workers, NEW r \in BOOLEAN,
         Finish(w, ErrorStatus(w, r))
  PROVE  /\ Moves(w)
         /\ worker'[w].pc = "record"
         /\ worker'[w].outcome \notin {"applied", "rolled_back"}
<1> DEFINE o == ErrorStatus(w, r)
<1>1. /\ o \in {"rollback_failed", "approved", "failed"}
      /\ worker[w].rollback <=> o = "rollback_failed"
  BY DEF ErrorStatus
<1>2. Finish(w, o)
  OBVIOUS
<1> HIDE DEF o
<1>3. Moves(w)
  BY <1>1, <1>2 DEF Moves, Outcomes
<1>4. worker'[w].pc = "record" /\ worker'[w].outcome = o
  BY <1>2 DEF Finish, WorkerTypeOK
<1> QED
  BY <1>1, <1>3, <1>4

\* Reads and refusals: nothing changes at the provider.
LEMMA ReadMoves ==
  ASSUME IInv, NEW w \in Workers, Prepare(w) \/ Find(w) \/ Confirm(w)
  PROVE  /\ Moves(w) /\ UNCHANGED edgeVars
         /\ worker'[w].pc = "delete" => rules[worker[w].job] = 1
         /\ worker'[w].pc = "record" =>
              /\ worker'[w].outcome = "rolled_back" => rules[worker[w].job] = 0
              /\ worker'[w].outcome = "applied" => rules[worker[w].job] > 0
<1> USE DEF IInv, TypeOK, WorkerTypeOK
<1>1. \A r \in BOOLEAN : Fault(w, r) =>
        /\ Moves(w)
        /\ worker'[w].pc = "record" /\ worker'[w].outcome \notin {"applied", "rolled_back"}
  BY FaultMoves DEF Fault
<1>2. CASE Prepare(w)
  BY <1>1, <1>2, ZenonT(40) DEF Prepare, Finish, GoTo, Moves, Outcomes
<1>3. CASE Find(w)
  BY <1>1, <1>3 DEF Find, Finish, GoTo, ErrorStatus, Moves, Outcomes
<1>4. CASE Confirm(w)
  <2>1. ~worker[w].rollback
    BY <1>4 DEF Confirm, WorkerInv
  <2> QED
    BY <1>1, <1>4, <2>1 DEF Confirm, Finish, Moves, Outcomes
<1> QED
  BY <1>2, <1>3, <1>4

\* A POST adds at most one rule, under its claim or else strayed.
LEMMA PostMoves ==
  ASSUME IInv, NEW w \in Workers, Post(w)
  PROVE  /\ Moves(w) /\ ~worker[w].rollback
         /\ worker'[w].pc # "delete"
         /\ worker'[w].pc = "record" =>
              worker'[w].outcome \notin {"applied", "rolled_back"}
         /\ late' \subseteq late \cup {worker[w].job}
         /\ \/ UNCHANGED <<rules, stray>>
            \/ AddRule(worker[w].job, HoldsClaim(w))
<1> USE DEF IInv, TypeOK
<1>1. ~worker[w].rollback
  BY DEF Post, WorkerInv
<1>2. \A r \in BOOLEAN : Fault(w, r) =>
        /\ Moves(w)
        /\ worker'[w].pc = "record" /\ worker'[w].outcome \notin {"applied", "rolled_back"}
  BY FaultMoves DEF Fault
<1>3. GoTo(w, "confirm") \/ Finish(w, "failed") =>
        /\ Moves(w) /\ worker'[w].pc # "delete"
        /\ worker'[w].pc = "record" => worker'[w].outcome = "failed"
  BY <1>1 DEF GoTo, Finish, Moves, Outcomes, WorkerTypeOK
<1> QED
  BY <1>1, <1>2, <1>3 DEF Post, edgeVars

\* A DELETE removes at most one rule, for a job being undone.
LEMMA DeleteMoves ==
  ASSUME IInv, NEW w \in Workers, Delete(w)
  PROVE  /\ Moves(w) /\ worker[w].rollback
         /\ worker'[w].pc = "record"
         /\ worker'[w].outcome # "applied"
         /\ UNCHANGED <<late, stray>>
         /\ \/ UNCHANGED rules /\ worker'[w].outcome # "rolled_back"
            \/ /\ rules[worker[w].job] > 0
               /\ rules' = [rules EXCEPT ![worker[w].job] = @ - 1]
<1> USE DEF IInv, TypeOK
<1>1. worker[w].rollback
  BY DEF Delete, WorkerInv
<1>2. Fault(w, TRUE) =>
        /\ Moves(w)
        /\ worker'[w].pc = "record" /\ worker'[w].outcome \notin {"applied", "rolled_back"}
  BY FaultMoves DEF Fault
<1>3. ASSUME NEW o \in {"rolled_back", "rollback_failed"}, Finish(w, o)
      PROVE  Moves(w) /\ worker'[w].pc = "record" /\ worker'[w].outcome = o
  <2>1. Moves(w)
    BY <1>1, <1>3 DEF Moves, Outcomes
  <2>2. worker'[w].pc = "record" /\ worker'[w].outcome = o
    BY <1>3 DEF Finish, WorkerTypeOK
  <2> QED
    BY <2>1, <2>2
<1>4. worker[w].job \in Jobs
  BY DEF Delete, WorkerTypeOK
<1> QED
  BY <1>1, <1>2, <1>3, <1>4 DEF Delete, EdgeTypeOK

\* What the calls of a worker have in common.
LEMMA CallFacts ==
  ASSUME IInv, NEW w \in Workers,
         Prepare(w) \/ Find(w) \/ Post(w) \/ Confirm(w) \/ Delete(w)
  PROVE  /\ worker[w].job \in Jobs /\ worker[w].pc # "idle"
         /\ attempted[worker[w].job]
         /\ worker[w].rollback => status[worker[w].job] \in Undoing
         /\ UNCHANGED rowVars
BY DEF Prepare, Find, Post, Confirm, Delete, IInv, TypeOK, WorkerTypeOK, WorkerInv

\* A call that reads leaves every fact about the provider as it was.
LEMMA ReadKeepsIInv ==
  ASSUME IInv, NEW w \in Workers, Prepare(w) \/ Find(w) \/ Confirm(w)
  PROVE  RowInv' /\ WorkerInv' /\ EdgeInv' /\ StrayInv'
<1> DEFINE j == worker[w].job
<1>1. UNCHANGED rowVars /\ UNCHANGED edgeVars
  BY CallFacts, ReadMoves
<1>2. RowInv' /\ EdgeInv'
  BY <1>1 DEF IInv, RowInv, EdgeInv, rowVars, edgeVars
<1>3. WorkerTypeOK
  BY DEF IInv, TypeOK
<1>4. /\ \A v \in Workers \ {w} : worker'[v] = worker[v]
      /\ worker'[w].job = j /\ worker'[w].rollback = worker[w].rollback
      /\ worker'[w].pc # "idle"
      /\ worker'[w].pc \in {"post", "confirm"} => ~worker[w].rollback
      /\ worker'[w].pc = "delete" => worker[w].rollback /\ rules[j] = 1
      /\ worker'[w].pc = "record" =>
           /\ worker[w].rollback <=>
                worker'[w].outcome \in {"rolled_back", "rollback_failed"}
           /\ worker'[w].outcome = "rolled_back" => rules[j] = 0
           /\ worker'[w].outcome = "applied" => rules[j] > 0
  BY <1>3, ReadMoves, MoveFacts
<1>5. attempted[j] /\ (worker[w].rollback => status[j] \in Undoing)
  BY CallFacts
<1>6. WorkerInv'
  BY <1>1, <1>4, <1>5 DEF IInv, WorkerInv, rowVars, edgeVars
<1>7. StrayInv'
  BY <1>1, <1>4 DEF IInv, StrayInv, rowVars, edgeVars
<1> QED
  BY <1>2, <1>6, <1>7

\* A POST adds a rule for a job that is not being undone, or a stray one.
LEMMA PostKeepsIInv ==
  ASSUME IInv, NEW w \in Workers, Post(w)
  PROVE  RowInv' /\ WorkerInv' /\ EdgeInv' /\ StrayInv'
<1> DEFINE j == worker[w].job
<1>1. /\ j \in Jobs /\ attempted[j]
      /\ UNCHANGED rowVars /\ ~worker[w].rollback
  BY CallFacts, PostMoves
<1>2. WorkerTypeOK /\ rules \in [Jobs -> Nat]
  BY DEF IInv, TypeOK, EdgeTypeOK
<1>3. /\ \A v \in Workers \ {w} : worker'[v] = worker[v]
      /\ worker'[w].job = j /\ worker'[w].rollback = worker[w].rollback
      /\ worker'[w].pc \in {"find", "post", "confirm", "record"}
      /\ worker'[w].pc = "record" =>
           worker'[w].outcome \notin {"rolled_back", "rollback_failed", "applied"}
  BY <1>1, <1>2, PostMoves, MoveFacts
<1>4. late' \subseteq late \cup {j}
  BY PostMoves
<1>5. HoldsClaim(w) => status[j] = "running"
  BY <1>1 DEF HoldsClaim
<1>6. /\ \A k \in Jobs : rules'[k] >= rules[k]
      /\ \A k \in Jobs : k # j \/ status[j] \in Undoing =>
           rules'[k] = rules[k] \/ k \in stray'
      /\ stray \subseteq stray'
  <2>1. CASE UNCHANGED <<rules, stray>>
    BY <1>2, <2>1
  <2>2. CASE AddRule(j, HoldsClaim(w))
    BY <1>1, <1>2, <1>5, <2>2 DEF AddRule, Undoing
  <2> QED
    BY <2>1, <2>2, PostMoves
<1>7. RowInv'
  BY <1>1 DEF IInv, RowInv, rowVars
<1>8. EdgeInv'
  <2>1. \A k \in Jobs \ {j} : rules'[k] = rules[k]
    BY <1>1, <1>2, PostMoves DEF AddRule
  <2>2. rules' \in [Jobs -> Nat]
    BY <1>1, <1>2, PostMoves DEF AddRule
  <2> QED
    BY <1>1, <1>2, <1>4, <1>6, <2>1, <2>2 DEF IInv, EdgeInv, rowVars
<1>9. WorkerInv'
  <2>1. rules' \in [Jobs -> Nat]
    BY <1>1, <1>2, PostMoves DEF AddRule
  <2> SUFFICES ASSUME NEW v \in Workers PROVE WorkerInv!(v)'
    BY DEF WorkerInv
  <2>2. CASE v = w
    BY <1>1, <1>3, <2>2 DEF rowVars
  <2>3. CASE v # w
    BY <1>1, <1>2, <1>3, <1>6, <2>1, <2>3 DEF IInv, WorkerInv, WorkerTypeOK, rowVars
  <2> QED
    BY <2>2, <2>3
<1>10. StrayInv'
  <2>1. \A k \in Jobs : status[k] \in Undoing => rules'[k] = rules[k] \/ k \in stray'
    BY <1>6
  <2>2. \A k \in Jobs : status'[k] = "rolled_back" => rules'[k] = 0 \/ k \in stray'
    BY <1>1, <1>6, <2>1 DEF IInv, StrayInv, rowVars, Undoing
  <2>3. ASSUME NEW v \in Workers, v # w, worker[v].pc # "idle", worker[v].rollback
        PROVE  worker[v].job \in Jobs /\ status[worker[v].job] \in Undoing
    BY <1>2, <2>3 DEF IInv, WorkerInv, WorkerTypeOK
  <2>4. ASSUME NEW v \in Workers, v # w,
               \/ worker[v].pc = "delete"
               \/ worker[v].pc = "record" /\ worker[v].outcome = "rolled_back"
        PROVE  worker[v].rollback
    BY <2>4 DEF IInv, WorkerInv
  <2> QED
    BY <1>3, <1>6, <2>1, <2>2, <2>3, <2>4 DEF IInv, StrayInv
<1> QED
  BY <1>7, <1>8, <1>9, <1>10

\* A DELETE takes the rule of a job that is being undone, which no longer
\* counts as applied, whichever worker holds the claim.
LEMMA DeleteKeepsIInv ==
  ASSUME IInv, NEW w \in Workers, Delete(w)
  PROVE  RowInv' /\ WorkerInv' /\ EdgeInv' /\ StrayInv'
<1> DEFINE j == worker[w].job
<1>1. /\ j \in Jobs /\ attempted[j] /\ status[j] \in Undoing
      /\ UNCHANGED rowVars /\ worker[w].rollback
      /\ UNCHANGED <<late, stray>>
  BY CallFacts, DeleteMoves
<1>2. WorkerTypeOK /\ rules \in [Jobs -> Nat]
  BY DEF IInv, TypeOK, EdgeTypeOK
<1>3. /\ \A v \in Workers \ {w} : worker'[v] = worker[v]
      /\ worker'[w].job = j /\ worker'[w].rollback = worker[w].rollback
      /\ worker'[w].pc = "record" /\ worker'[w].outcome # "applied"
      /\ worker'[w].outcome \in {"rolled_back", "rollback_failed"}
  BY <1>1, <1>2, DeleteMoves, MoveFacts
<1>4. /\ rules' \in [Jobs -> Nat]
      /\ \A k \in Jobs : rules'[k] <= rules[k]
      /\ \A k \in Jobs \ {j} : rules'[k] = rules[k]
      /\ worker'[w].outcome = "rolled_back" => rules'[j] = rules[j] - 1
  BY <1>1, <1>2, DeleteMoves
<1>5. RowInv'
  BY <1>1 DEF IInv, RowInv, rowVars
<1>6. EdgeInv'
  BY <1>1, <1>2, <1>4 DEF IInv, EdgeInv, rowVars, Undoing
<1>7. WorkerInv'
  <2> SUFFICES ASSUME NEW v \in Workers PROVE WorkerInv!(v)'
    BY DEF WorkerInv
  <2>1. CASE v = w
    BY <1>1, <1>3, <2>1 DEF rowVars
  <2>2. CASE v # w
    BY <1>1, <1>2, <1>3, <1>4, <2>2 DEF IInv, WorkerInv, WorkerTypeOK, rowVars
  <2> QED
    BY <2>1, <2>2
<1>8. StrayInv'
  <2>1. rules[j] <= 1 \/ j \in stray
    BY DEF Delete, IInv, StrayInv
  <2>2. ASSUME NEW v \in Workers PROVE worker[v].pc # "idle" => worker[v].job \in Jobs
    BY <1>2 DEF WorkerTypeOK
  <2> QED
    BY <1>1, <1>2, <1>3, <1>4, <2>1, <2>2 DEF IInv, StrayInv, rowVars
<1> QED
  BY <1>5, <1>6, <1>7, <1>8

\* The fenced update writes an outcome only for the claim that is current.
LEMMA RecordKeepsIInv ==
  ASSUME IInv, NEW w \in Workers, Record(w)
  PROVE  RowInv' /\ WorkerInv' /\ EdgeInv' /\ StrayInv'
<1> DEFINE j == worker[w].job
<1>1. /\ j \in Jobs /\ attempted[j] /\ worker[w].pc = "record"
      /\ worker[w].rollback <=>
           worker[w].outcome \in {"rolled_back", "rollback_failed"}
      /\ worker[w].outcome = "applied" => status[j] \in Undoing \/ rules[j] > 0
      /\ worker[w].outcome = "rolled_back" => rules[j] = 0 \/ j \in stray
      /\ worker[w].outcome \in Outcomes
  BY DEF Record, IInv, TypeOK, WorkerTypeOK, WorkerInv, StrayInv
<1>2. /\ \A v \in Workers \ {w} : worker'[v] = worker[v]
      /\ worker'[w] = Idle
  BY DEF Record, IInv, TypeOK, WorkerTypeOK
<1>3. UNCHANGED <<requestedBy, approvedBy, attempted, rules, late, stray>>
  BY DEF Record, edgeVars
<1>4. \/ UNCHANGED status
      \/ /\ status[j] = IF worker[w].rollback THEN "rolling_back" ELSE "running"
         /\ status' = [status EXCEPT ![j] = worker[w].outcome]
  BY DEF Record, HoldsClaim
<1>5. status \in [Jobs -> Statuses]
  BY DEF IInv, TypeOK, RowTypeOK
<1>6. /\ \A k \in Jobs \ {j} : status'[k] = status[k]
      /\ status[j] \in Undoing => status'[j] \in Undoing
      /\ \/ status'[j] = status[j]
         \/ /\ status[j] \in {"running", "rolling_back"}
            /\ status'[j] = worker[w].outcome
            /\ status[j] = "running" <=>
                 worker[w].outcome \notin {"rolled_back", "rollback_failed"}
  BY <1>1, <1>4, <1>5 DEF Undoing
<1>7. RowInv'
  BY <1>1, <1>3, <1>6 DEF IInv, RowInv, Undoing, Outcomes
<1>8. EdgeInv'
  BY <1>1, <1>3, <1>6 DEF IInv, EdgeInv, Undoing
<1>9. WorkerInv'
  <2> SUFFICES ASSUME NEW v \in Workers PROVE WorkerInv!(v)'
    BY DEF WorkerInv
  <2>1. CASE v = w
    BY <1>2, <2>1 DEF Idle
  <2>2. CASE v # w
    BY <1>2, <1>3, <1>6, <2>2 DEF IInv, TypeOK, WorkerTypeOK, WorkerInv
  <2> QED
    BY <2>1, <2>2
<1>10. StrayInv'
  BY <1>1, <1>2, <1>3, <1>6 DEF IInv, StrayInv, Idle
<1> QED
  BY <1>7, <1>8, <1>9, <1>10

\* Crashes, delayed POSTs, the clock and enrolments.
LEMMA OtherStepsKeepIInv ==
  ASSUME IInv,
         \/ \E w \in Workers : Crash(w)
         \/ \E j \in Jobs : LatePost(j)
         \/ \E h \in Hosts : Enroll(h)
         \/ Tick
         \/ UNCHANGED vars
  PROVE  RowInv' /\ WorkerInv' /\ EdgeInv' /\ StrayInv'
<1>1. UNCHANGED <<status, requestedBy, approvedBy, attempted>>
  BY DEF Crash, LatePost, Enroll, Tick, vars, rowVars
<1>2. RowInv'
  BY <1>1 DEF IInv, RowInv
<1>3. CASE \/ \E h \in Hosts : Enroll(h)
           \/ Tick
           \/ UNCHANGED vars
  <2>1. UNCHANGED <<worker, rules, late, stray>>
    BY <1>3 DEF Enroll, Tick, vars, edgeVars
  <2> QED
    BY <1>1, <1>2, <2>1 DEF IInv, WorkerInv, EdgeInv, StrayInv
<1>4. ASSUME NEW w \in Workers, Crash(w)
      PROVE  WorkerInv' /\ EdgeInv' /\ StrayInv'
  <2>1. /\ UNCHANGED <<rules, late, stray>>
        /\ worker'[w] = Idle
        /\ \A v \in Workers \ {w} : worker'[v] = worker[v]
    BY <1>4 DEF Crash, edgeVars, IInv, TypeOK, WorkerTypeOK
  <2> QED
    BY <1>1, <2>1 DEF IInv, WorkerInv, EdgeInv, StrayInv, Idle
<1>5. ASSUME NEW j \in Jobs, LatePost(j)
      PROVE  WorkerInv' /\ EdgeInv' /\ StrayInv'
  <2>1. /\ UNCHANGED worker /\ j \in late /\ late' \subseteq late
        /\ rules \in [Jobs -> Nat] /\ WorkerTypeOK
    BY <1>5 DEF LatePost, IInv, TypeOK, EdgeTypeOK
  <2>2. /\ \A k \in Jobs \ {j} : rules'[k] = rules[k]
        /\ rules'[j] \in Nat /\ rules'[j] >= rules[j]
        /\ rules'[j] = rules[j] \/ j \in stray'
        /\ stray \subseteq stray'
    BY <1>5, <2>1 DEF LatePost, AddRule
  <2>3. EdgeInv'
    BY <1>1, <2>1, <2>2 DEF IInv, EdgeInv
  <2>4. WorkerInv'
    BY <1>1, <2>1, <2>2 DEF IInv, WorkerInv, WorkerTypeOK
  <2>5. StrayInv'
    BY <1>1, <2>1, <2>2 DEF IInv, StrayInv, WorkerTypeOK
  <2> QED
    BY <2>3, <2>4, <2>5
<1> QED
  BY <1>2, <1>3, <1>4, <1>5

\* The inductive invariant holds of every reachable state.
THEOREM CloudInductive == Spec => []IInv
<1>1. Init => IInv
  <2> SUFFICES ASSUME Init PROVE IInv
    OBVIOUS
  <2>1. TypeOK
    BY CloudAssumption
    DEF Init, TypeOK, RowTypeOK, WorkerTypeOK, EdgeTypeOK, Idle, Statuses, Steps,
        Outcomes
  <2>2. RowInv /\ EdgeInv
    BY DEF Init, RowInv, EdgeInv, Undoing
  <2>3. WorkerInv /\ StrayInv
    BY DEF Init, WorkerInv, StrayInv, Idle
  <2> QED
    BY <2>1, <2>2, <2>3 DEF IInv
<1>2. ASSUME IInv, [Next]_vars PROVE IInv'
  <2>1. TypeOK'
    BY <1>2, StepTypeOK DEF IInv
  <2>2. RowInv' /\ WorkerInv' /\ EdgeInv' /\ StrayInv'
    BY <1>2, RowStepsKeepIInv, ClaimKeepsIInv, ReadKeepsIInv, PostKeepsIInv,
       DeleteKeepsIInv, RecordKeepsIInv, OtherStepsKeepIInv DEF Next, WorkerStep
  <2> QED
    BY <2>1, <2>2 DEF IInv
<1> QED
  BY <1>1, <1>2, PTL DEF Spec

-----------------------------------------------------------------------------
(* The properties.                                                         *)

\* The provider is touched only for jobs two persons agreed on.
THEOREM CloudTwoPerson == Spec => []TwoPersonRule
<1>1. IInv => TwoPersonRule
  BY DEF IInv, EdgeInv, RowInv, TwoPersonRule
<1> QED
  BY <1>1, CloudInductive, PTL

\* A cancelled or expired job never had an effect and never will.
THEOREM CloudWithdrawn == Spec => []WithdrawnHasNoEffect
<1>1. ASSUME IInv PROVE WithdrawnHasNoEffect
  <2>1. \A j \in Jobs : status[j] \in {"cancelled", "expired"} => ~attempted[j]
    BY <1>1 DEF IInv, RowInv, Undoing
  <2>2. \A w \in Workers : worker[w].job \in Jobs => attempted[worker[w].job]
    BY <1>1, CloudAssumption DEF IInv, WorkerInv
  <2> QED
    BY <1>1, <2>1, <2>2
    DEF IInv, EdgeInv, TypeOK, EdgeTypeOK, WithdrawnHasNoEffect
<1> QED
  BY <1>1, CloudInductive, PTL

\* An applied job has its rule, whatever stalled workers still do.
THEOREM CloudApplied == Spec => []AppliedIsEnforced
<1>1. IInv => AppliedIsEnforced
  BY DEF IInv, EdgeInv, AppliedIsEnforced
<1> QED
  BY <1>1, CloudInductive, PTL

\* A rolled back job leaves no rule but one made without a claim.
THEOREM CloudRolledBack == Spec => []RolledBackIsClean
<1>1. ASSUME IInv PROVE RolledBackIsClean
  BY <1>1 DEF IInv, TypeOK, EdgeTypeOK, StrayInv, RolledBackIsClean
<1> QED
  BY <1>1, CloudInductive, PTL

\* How one step can move a row: nothing, the review of an unattempted job, its
\* first attempt, or the lease and outcome of an attempted one.
RowMove(j) ==
  \/ status'[j] = status[j] /\ attempted'[j] = attempted[j]
  \/ /\ ~attempted[j] /\ ~attempted'[j]
     /\ <<status[j], status'[j]>> \in
          {<<"none", "checked">>, <<"checked", "requested">>,
           <<"requested", "approved">>, <<"requested", "cancelled">>,
           <<"approved", "cancelled">>, <<"requested", "expired">>,
           <<"approved", "expired">>}
  \/ /\ ~attempted[j] /\ attempted'[j] /\ expires[j] > 0
     /\ status[j] = "approved" /\ status'[j] = "running"
  \/ /\ attempted[j] /\ attempted'[j]
     /\ \/ /\ status[j] \in {"approved", "running", "applied", "rolling_back",
                             "rollback_failed"}
           /\ status'[j] = "running" => status[j] \in {"approved", "running"}
           /\ status'[j] \in {"running", "rolling_back"}
        \/ status[j] = "running" /\ status'[j] \in {"applied", "approved", "failed"}
        \/ /\ status[j] = "rolling_back"
           /\ status'[j] \in {"rolled_back", "rollback_failed"}

LEMMA RowMoves ==
  ASSUME IInv, [Next]_vars, NEW j \in Jobs
  PROVE  RowMove(j)
<1> USE DEF IInv, TypeOK, RowTypeOK
<1>1. ASSUME NEW k \in Jobs, NEW s \in Subjects, RequestCheck(k, s) PROVE RowMove(j)
  <2>1. ~attempted[k]
    BY <1>1 DEF RequestCheck, RowInv, Undoing
  <2> QED
    BY <1>1, <2>1 DEF RequestCheck, RowMove
<1>2. ASSUME NEW k \in Jobs, RequestInsert(k) PROVE RowMove(j)
  <2>1. ~attempted[k]
    BY <1>2 DEF RequestInsert, RowInv, Undoing
  <2> QED
    BY <1>2, <2>1 DEF RequestInsert, RowMove
<1>3. ASSUME NEW k \in Jobs, NEW a \in Admins, Approve(k, a) PROVE RowMove(j)
  <2>1. ~attempted[k]
    BY <1>3 DEF Approve, MayApprove, RowInv, Undoing
  <2> QED
    BY <1>3, <2>1 DEF Approve, MayApprove, RowMove
<1>4. ASSUME NEW h \in Hosts, Revoke(h) PROVE RowMove(j)
  BY <1>4 DEF Revoke, Cancelled, Waiting, RowMove
<1>5. ASSUME NEW w \in Workers, Sweep(w) PROVE RowMove(j)
  BY <1>5 DEF Sweep, Swept, Waiting, RowMove
<1>6. ASSUME NEW w \in Workers, NEW k \in Jobs, Claim(w, k) PROVE RowMove(j)
  <2>1. CASE j = k
    <3>1. /\ attempted'[j] /\ Claimable(j)
          /\ status'[j] = IF RollsBack(j) THEN "rolling_back" ELSE "running"
      BY <1>6, <2>1 DEF Claim
    <3>2. /\ status[j] \in {"approved", "running", "applied", "rolling_back",
                            "rollback_failed"}
          /\ ~RollsBack(j) => status[j] \in {"approved", "running"}
      BY <3>1 DEF Claimable, RollsBack
    <3>3. ~attempted[j] => status[j] = "approved" /\ expires[j] > 0 /\ ~RollsBack(j)
      BY <3>1, <3>2 DEF RowInv, Undoing, Claimable, Swept, Waiting, RollsBack
    <3> QED
      BY <3>1, <3>2, <3>3 DEF RowMove
  <2>2. CASE j # k
    BY <1>6, <2>2 DEF Claim, Swept, Waiting, RowMove
  <2> QED
    BY <2>1, <2>2
<1>7. ASSUME NEW w \in Workers, Record(w) PROVE RowMove(j)
  <2>1. /\ worker[w].job \in Jobs /\ attempted[worker[w].job]
        /\ worker[w].outcome \in Outcomes
        /\ worker[w].rollback <=>
             worker[w].outcome \in {"rolled_back", "rollback_failed"}
    BY <1>7 DEF Record, WorkerTypeOK, WorkerInv
  <2> QED
    BY <1>7, <2>1 DEF Record, HoldsClaim, RowMove, Outcomes
<1>8. UNCHANGED <<status, attempted>> => RowMove(j)
  BY DEF RowMove
<1>9. ASSUME NEW w \in Workers,
             Prepare(w) \/ Find(w) \/ Post(w) \/ Confirm(w) \/ Delete(w) \/ Crash(w)
      PROVE  RowMove(j)
  BY <1>8, <1>9 DEF Prepare, Find, Post, Confirm, Delete, Crash, rowVars
<1>10. ASSUME \/ \E k \in Jobs : LatePost(k)
              \/ \E h \in Hosts : Enroll(h)
              \/ Tick
              \/ UNCHANGED vars
       PROVE  RowMove(j)
  BY <1>8, <1>10 DEF LatePost, Enroll, Tick, vars, rowVars
<1> QED
  BY <1>1, <1>2, <1>3, <1>4, <1>5, <1>6, <1>7, <1>9, <1>10 DEF Next, WorkerStep

\* A job being undone is never applied again.
THEOREM CloudNoReturn == Spec => NoReturnFromUndoing
<1>1. ASSUME IInv, [Next]_vars
      PROVE  [\A j \in Jobs : status[j] \in Undoing => status'[j] \in Undoing]_vars
  BY <1>1, RowMoves DEF RowMove, Undoing
<1> QED
  BY <1>1, CloudInductive, PTL DEF Spec, NoReturnFromUndoing

\* No job is first attempted after its time.
THEOREM CloudNoLateAttempt == Spec => NoFirstAttemptAfterExpiry
<1>1. ASSUME IInv, [Next]_vars
      PROVE  [\A j \in Jobs : ~attempted[j] /\ attempted'[j] => expires[j] > 0]_vars
  BY <1>1, RowMoves DEF RowMove
<1> QED
  BY <1>1, CloudInductive, PTL DEF Spec, NoFirstAttemptAfterExpiry


\* The leased worker implements the reviewed action.  A row that moves leaves
\* the provider alone (RowMoves); the provider's rules change only for an
\* attempted row, whose phase is then attempted or settled (RowInv).
LEMMA PhaseType ==
  ASSUME NEW j \in Jobs
  PROVE  Phase(j) \in Reviewed!Phases
BY DEF Phase, Reviewed!Phases

LEMMA RulesMove ==
  ASSUME IInv, [Next]_vars, NEW j \in Jobs, rules'[j] # rules[j]
  PROVE  attempted[j] /\ UNCHANGED rowVars
<1>1. ASSUME NEW w \in Workers, Post(w) \/ Delete(w)
      PROVE  attempted[j] /\ UNCHANGED rowVars
  <2>1. worker[w].job \in Jobs /\ attempted[worker[w].job]
    BY <1>1 DEF IInv, TypeOK, WorkerTypeOK, WorkerInv, Post, Delete
  <2> QED
    BY <1>1, <2>1 DEF IInv, TypeOK, EdgeTypeOK, Post, Delete, AddRule, edgeVars
<1>2. ASSUME NEW k \in Jobs, LatePost(k)
      PROVE  attempted[j] /\ UNCHANGED rowVars
  BY <1>2 DEF IInv, TypeOK, EdgeTypeOK, EdgeInv, LatePost, AddRule
<1>3. CASE \/ \E k \in Jobs, s \in Subjects : RequestCheck(k, s)
           \/ \E k \in Jobs : RequestInsert(k)
           \/ \E k \in Jobs, a \in Admins : Approve(k, a)
           \/ \E h \in Hosts : Revoke(h) \/ Enroll(h)
  BY <1>3 DEF RequestCheck, RequestInsert, Approve, MayApprove, Revoke, Enroll, edgeVars
<1>4. ASSUME NEW w \in Workers,
             \/ \E k \in Jobs : Claim(w, k)
             \/ Sweep(w) \/ Prepare(w) \/ Find(w) \/ Confirm(w)
             \/ Record(w) \/ Crash(w)
      PROVE  FALSE
  BY <1>4 DEF Claim, Sweep, Prepare, Find, Confirm, Record, Crash, edgeVars
<1>5. CASE Tick \/ UNCHANGED vars
  BY <1>5 DEF Tick, vars, edgeVars
<1> QED
  BY <1>1, <1>2, <1>3, <1>4, <1>5 DEF Next, WorkerStep

\* A move of the row is a move of the phase, or none.
LEMMA PhaseMoves ==
  ASSUME IInv, NEW j \in Jobs, RowMove(j)
  PROVE  \/ Phase(j)' = Phase(j)
         \/ <<Phase(j), Phase(j)'>> \in
              {<<"open", "authorised">>, <<"open", "withdrawn">>,
               <<"authorised", "withdrawn">>, <<"authorised", "attempted">>,
               <<"attempted", "settled">>}
<1>1. CASE status'[j] = status[j] /\ attempted'[j] = attempted[j]
  BY <1>1 DEF Phase
<1>2. CASE /\ ~attempted[j] /\ ~attempted'[j]
           /\ <<status[j], status'[j]>> \in
                {<<"none", "checked">>, <<"checked", "requested">>,
                 <<"requested", "approved">>, <<"requested", "cancelled">>,
                 <<"approved", "cancelled">>, <<"requested", "expired">>,
                 <<"approved", "expired">>}
  BY <1>2 DEF Phase
<1>3. CASE /\ ~attempted[j] /\ attempted'[j]
           /\ status[j] = "approved" /\ status'[j] = "running"
  BY <1>3 DEF Phase
<1>4. CASE /\ attempted[j] /\ attempted'[j]
           /\ status[j] \in {"approved", "running", "applied", "rolling_back",
                             "rollback_failed"}
           /\ status'[j] \in {"running", "rolling_back"}
  BY <1>4 DEF Phase
<1>5. CASE /\ attempted[j] /\ attempted'[j]
           /\ \/ status[j] = "running" /\ status'[j] \in {"applied", "approved", "failed"}
              \/ /\ status[j] = "rolling_back"
                 /\ status'[j] \in {"rolled_back", "rollback_failed"}
  BY <1>5 DEF Phase
<1> QED
  BY <1>1, <1>2, <1>3, <1>4, <1>5 DEF RowMove

THEOREM CloudImplementsReview == Spec => ImplementsReview
<1>1. Init => Reviewed!Init
  BY DEF Init, Reviewed!Init, Phase
<1>2. ASSUME IInv, IInv', [Next]_vars
      PROVE  [Reviewed!Next]_<<[j \in Jobs |-> Phase(j)], rules>>
  <2>1. [j \in Jobs |-> Phase(j)]' \in [Jobs -> Reviewed!Phases]
    BY DEF Phase, Reviewed!Phases
  <2>2. rules' \in [Jobs -> Nat]
    BY <1>2 DEF IInv, TypeOK, EdgeTypeOK
  <2>3. ASSUME NEW j \in Jobs
        PROVE  Reviewed!Advance(j) \/ Reviewed!Touch(j) \/ Reviewed!Rest(j)
    <3>1. CASE rules'[j] = rules[j]
      BY <1>2, <2>3, <3>1, RowMoves, PhaseMoves DEF Reviewed!Advance, Reviewed!Rest
    <3>2. CASE rules'[j] # rules[j]
      <4>1. attempted[j] /\ UNCHANGED rowVars
        BY <1>2, <3>2, RulesMove
      <4>2. Phase(j) \in {"attempted", "settled"} /\ Phase(j)' = Phase(j)
        BY <1>2, <4>1 DEF IInv, RowInv, Undoing, Phase, rowVars
      <4> QED
        BY <4>2 DEF Reviewed!Touch
    <3> QED
      BY <3>1, <3>2
  <2> QED
    BY <2>1, <2>2, <2>3 DEF Reviewed!Next
<1> QED
  BY <1>1, <1>2, CloudInductive, PTL
  DEF Spec, ImplementsReview, Reviewed!Spec
=============================================================================
