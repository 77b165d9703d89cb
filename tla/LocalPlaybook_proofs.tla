-------------------------- MODULE LocalPlaybook_proofs --------------------------
(***************************************************************************)
(* Proofs about LocalPlaybook, for any number of jobs, subjects, receipts, *)
(* revocations and faults.                                                 *)
(***************************************************************************)
EXTENDS LocalPlaybook, TLAPS

\* The steps of the control plane that record no receipt.
Review ==
  \/ \E j \in Jobs, s \in Subjects : RequestCheck(j, s)
  \/ \E j \in Jobs : RequestInsert(j) \/ Expire(j)
  \/ \E j \in Jobs, a \in Admins : Approve(j, a)
  \/ Revoke \/ Enroll \/ Outdate

-----------------------------------------------------------------------------
(* Types.                                                                  *)

\* A POST leaves well typed whatever it touches.
LEMMA PostType ==
  ASSUME TypeOK, NEW j \in Jobs, NEW there \in Steps, Post(j, there)
  PROVE  /\ status' \in [Jobs -> Statuses] /\ result' \in [Jobs -> Receipts]
         /\ acked' \in SUBSET Jobs /\ pc' \in Steps
         /\ late' \in SUBSET (Jobs \X Receipts) /\ faults' \in 0..MaxFaults
BY PlaybookAssumption DEF Post, Receive, Fault, TypeOK, Statuses, Steps

LEMMA ReviewType == TypeOK /\ Review => TypeOK'
<1>1. ASSUME TypeOK, NEW j \in Jobs, NEW s \in Subjects, RequestCheck(j, s) PROVE TypeOK'
  BY <1>1 DEF RequestCheck, TypeOK, Statuses, memVars, savedVars
<1>2. ASSUME TypeOK, NEW j \in Jobs, RequestInsert(j) PROVE TypeOK'
  BY <1>2 DEF RequestInsert, TypeOK, Statuses, memVars, savedVars
<1>3. ASSUME TypeOK, NEW j \in Jobs, Expire(j) PROVE TypeOK'
  BY <1>3 DEF Expire, TypeOK, rowVars, memVars, savedVars
<1>4. ASSUME TypeOK, NEW j \in Jobs, NEW a \in Admins, Approve(j, a) PROVE TypeOK'
  BY <1>4 DEF Approve, TypeOK, Statuses, memVars, savedVars
<1>5. ASSUME TypeOK, Revoke PROVE TypeOK'
  <2>1. status' \in [Jobs -> Statuses]
    BY <1>5 DEF Revoke, TypeOK, Statuses
  <2>2. revokes' \in 0..MaxRevokes
    BY <1>5, PlaybookAssumption DEF Revoke, TypeOK
  <2> QED
    BY <1>5, <2>1, <2>2 DEF Revoke, TypeOK, memVars, savedVars
<1>6. ASSUME TypeOK, Enroll PROVE TypeOK'
  BY <1>6 DEF Enroll, TypeOK, rowVars, memVars, savedVars
<1>7. ASSUME TypeOK, Outdate PROVE TypeOK'
  BY <1>7 DEF Outdate, TypeOK, rowVars, memVars, savedVars
<1> QED
  BY <1>1, <1>2, <1>3, <1>4, <1>5, <1>6, <1>7 DEF Review

\* A call before poll_playbooks moves the agent and nothing else.
LEMMA ContactType ==
  ASSUME TypeOK, NEW accepted, NEW there \in Steps, Contact(accepted, there)
  PROVE  TypeOK'
BY PlaybookAssumption
DEF Contact, Fault, TypeOK, Steps, rowVars, memVars, savedVars

LEMMA AgentType == TypeOK /\ JobInv /\ AgentStep => TypeOK'
<1>1. ASSUME TypeOK, Load PROVE TypeOK'
  BY <1>1 DEF Load, TypeOK, Steps, rowVars, savedVars
<1>2. ASSUME TypeOK, Flushed PROVE TypeOK'
  BY <1>2 DEF Flushed, TypeOK, Steps, rowVars, memVars, savedVars
<1>3. ASSUME TypeOK, List PROVE TypeOK'
  BY <1>3, PlaybookAssumption DEF List, Fault, TypeOK, Steps, rowVars, savedVars
<1>4. ASSUME TypeOK, SaveMark PROVE TypeOK'
  BY <1>4 DEF SaveMark, CommitMark, SaveState, TypeOK, Steps, rowVars, memVars
<1>5. ASSUME TypeOK, Execute PROVE TypeOK'
  BY <1>5 DEF Execute, Failures, TypeOK, Steps, Receipts, rowVars, savedVars
<1>6. ASSUME TypeOK, SaveResult PROVE TypeOK'
  BY <1>6 DEF SaveResult, SaveState, TypeOK, Steps, rowVars, memVars
<1>7. ASSUME TypeOK, JobInv, PostResult PROVE TypeOK'
  <2>1. "acked" \in Steps /\ job \in Jobs
    BY <1>7 DEF Steps, JobInv, PostResult
  <2> QED
    BY <1>7, <2>1, PostType DEF PostResult, TypeOK, savedVars
<1>8. ASSUME TypeOK, SaveAck PROVE TypeOK'
  BY <1>8 DEF SaveAck, SaveState, TypeOK, Steps, rowVars, memVars
<1>9. ASSUME TypeOK, Done PROVE TypeOK'
  BY <1>9 DEF Done, TypeOK, Steps, Receipts, rowVars
<1>10. ASSUME TypeOK, NEW j \in Jobs, Flush(j) PROVE TypeOK'
  <2>1. "flush" \in Steps
    BY DEF Steps
  <2> QED
    BY <1>10, <2>1, PostType DEF Flush, TypeOK
<1>11. ASSUME TypeOK, NEW j \in Jobs, Take(j) PROVE TypeOK'
  BY <1>11 DEF Take, Mark, TypeOK, Steps, Receipts, rowVars, savedVars
<1>12. ASSUME TypeOK, SendEvents \/ BlockCommands PROVE TypeOK'
  <2>1. "commands" \in Steps /\ "flush" \in Steps
    BY DEF Steps
  <2> QED
    BY <1>12, <2>1, ContactType DEF SendEvents, BlockCommands
<1>13. ASSUME TypeOK, Dispatch PROVE TypeOK'
  BY <1>13 DEF Dispatch, TypeOK, Steps, Receipts, rowVars, savedVars
<1> QED
  BY <1>1, <1>2, <1>3, <1>4, <1>5, <1>6, <1>7, <1>8, <1>9, <1>10, <1>11, <1>12, <1>13
  DEF AgentStep

LEMMA StepType == TypeOK /\ JobInv /\ [Next]_vars => TypeOK'
<1>1. ASSUME TypeOK, NEW j \in Jobs, NEW r \in Receipts, LateReceipt(j, r) PROVE TypeOK'
  BY <1>1 DEF LateReceipt, Receive, TypeOK, Statuses, memVars, savedVars
<1>2. ASSUME TypeOK, Crash PROVE TypeOK'
  BY <1>2, PlaybookAssumption
  DEF Crash, Fault, TypeOK, Steps, rowVars, memVars, savedVars
<1>3. ASSUME TypeOK, UNCHANGED vars PROVE TypeOK'
  BY <1>3 DEF TypeOK, vars, rowVars, memVars, savedVars
<1> QED
  BY <1>1, <1>2, <1>3, ReviewType, AgentType DEF Next, Review

-----------------------------------------------------------------------------
(* Steps that leave the agent alone.                                       *)

\* Review records no receipt and withdraws no approval.
LEMMA ReviewMoves ==
  ASSUME IInv, Review
  PROVE  /\ UNCHANGED <<result, memVars, savedVars, pc, effect, late>>
         /\ \A j \in Jobs :
              /\ status'[j] = "settled" <=> status[j] = "settled"
              /\ approvedBy[j] # None => approvedBy'[j] = approvedBy[j]
<1> USE DEF IInv
<1>1. ASSUME NEW k \in Jobs, NEW s \in Subjects, RequestCheck(k, s)
      PROVE  \A j \in Jobs : /\ status'[j] = "settled" <=> status[j] = "settled"
                             /\ approvedBy'[j] = approvedBy[j]
  BY <1>1 DEF RequestCheck, TypeOK
<1>2. ASSUME NEW k \in Jobs, RequestInsert(k)
      PROVE  \A j \in Jobs : /\ status'[j] = "settled" <=> status[j] = "settled"
                             /\ approvedBy'[j] = approvedBy[j]
  BY <1>2 DEF RequestInsert, TypeOK
<1>3. ASSUME NEW k \in Jobs, NEW a \in Admins, Approve(k, a)
      PROVE  \A j \in Jobs : /\ status'[j] = "settled" <=> status[j] = "settled"
                             /\ approvedBy[j] # None => approvedBy'[j] = approvedBy[j]
  BY <1>3 DEF Approve, TypeOK, RowInv
<1>4. ASSUME Revoke
      PROVE  \A j \in Jobs : /\ status'[j] = "settled" <=> status[j] = "settled"
                             /\ approvedBy'[j] = approvedBy[j]
  BY <1>4 DEF Revoke, TypeOK
<1>5. UNCHANGED <<result, memVars, savedVars, pc, effect, late>>
  BY DEF Review, RequestCheck, RequestInsert, Expire, Approve, Revoke, Enroll, Outdate,
         rowVars
<1> QED
  BY <1>1, <1>2, <1>3, <1>4, <1>5 DEF Review, Expire, Enroll, Outdate, rowVars

LEMMA ReviewRow == IInv /\ Review => RowInv'
<1> USE DEF IInv
<1>1. ASSUME IInv, NEW k \in Jobs, NEW s \in Subjects, RequestCheck(k, s) PROVE RowInv'
  BY <1>1, PlaybookAssumption DEF RequestCheck, TypeOK, RowInv
<1>2. ASSUME IInv, NEW k \in Jobs, RequestInsert(k) PROVE RowInv'
  BY <1>2, PlaybookAssumption DEF RequestInsert, TypeOK, RowInv
<1>3. ASSUME IInv, NEW k \in Jobs, NEW a \in Admins, Approve(k, a) PROVE RowInv'
  BY <1>3, PlaybookAssumption DEF Approve, TypeOK, RowInv
<1>4. ASSUME IInv, Revoke PROVE RowInv'
  BY <1>4, PlaybookAssumption DEF Revoke, TypeOK, RowInv
<1>5. ASSUME IInv, UNCHANGED rowVars PROVE RowInv'
  BY <1>5 DEF RowInv, rowVars
<1> QED
  BY <1>1, <1>2, <1>3, <1>4, <1>5 DEF Review, Expire, Enroll, Outdate
LEMMA ReviewKeeps == IInv /\ Review => AgentInv' /\ JobInv' /\ TruthInv'
<1> SUFFICES ASSUME IInv, Review PROVE AgentInv' /\ JobInv' /\ TruthInv'
  OBVIOUS
<1>1. /\ UNCHANGED <<result, memVars, savedVars, pc, effect, late>>
      /\ \A j \in Jobs :
           /\ status'[j] = "settled" <=> status[j] = "settled"
           /\ approvedBy[j] # None => approvedBy'[j] = approvedBy[j]
  BY ReviewMoves
<1>2. AgentInv'
  BY <1>1 DEF IInv, AgentInv, memVars, savedVars
<1>3. JobInv'
  BY <1>1 DEF IInv, JobInv, True, memVars, savedVars
<1>4. TruthInv'
  BY <1>1 DEF IInv, TruthInv, True, memVars, savedVars
<1> QED
  BY <1>2, <1>3, <1>4

\* A receipt is recorded once, on an approved job, or changes nothing.
LEMMA ReceiveRow ==
  ASSUME IInv, NEW k \in Jobs, NEW r \in Receipts \ {"none"}, Receive(k, r),
         UNCHANGED <<requestedBy, approvedBy>>
  PROVE  RowInv'
<1>1. CASE UNCHANGED <<status, result>>
  BY <1>1 DEF IInv, RowInv
<1>2. CASE /\ status[k] = "approved"
           /\ status' = [status EXCEPT ![k] = "settled"]
           /\ result' = [result EXCEPT ![k] = r]
  BY <1>2, PlaybookAssumption DEF IInv, TypeOK, RowInv
<1> QED
  BY <1>1, <1>2 DEF Receive, Records

LEMMA LateKeeps ==
  ASSUME IInv, NEW k \in Jobs, NEW r \in Receipts, LateReceipt(k, r)
  PROVE  RowInv' /\ AgentInv' /\ JobInv' /\ TruthInv'
<1>1. /\ r # "none" /\ (savedReceipt[k] = r \/ status[k] = "settled")
      /\ Receive(k, r)
      /\ late' \subseteq late
      /\ UNCHANGED <<requestedBy, approvedBy, memVars, savedVars, pc, effect>>
  BY DEF LateReceipt, IInv, TruthInv
<1>2. \/ UNCHANGED <<status, result>>
      \/ /\ status[k] = "approved" /\ savedReceipt[k] = r
         /\ status' = [status EXCEPT ![k] = "settled"]
         /\ result' = [result EXCEPT ![k] = r]
  BY <1>1 DEF Receive, Records
<1>3. k = job => pc \notin {"marked", "execute", "acting", "executed"}
  BY DEF LateReceipt, IInv, JobInv
<1>4. RowInv'
  BY <1>1, ReceiveRow
<1>5. AgentInv'
  BY <1>1, <1>2, <1>3 DEF IInv, TypeOK, AgentInv, memVars, savedVars
<1>6. JobInv'
  BY <1>1, <1>2, <1>3 DEF IInv, TypeOK, JobInv, True, memVars, savedVars
<1>7. TruthInv'
  BY <1>1, <1>2 DEF IInv, TypeOK, TruthInv, True, memVars, savedVars
<1> QED
  BY <1>4, <1>5, <1>6, <1>7

-----------------------------------------------------------------------------
(* The posting of a receipt.                                               *)

\* A POST that is answered leaves the receipt on record, one that is not leaves
\* the acknowledgements alone; the row and what is under way stay true.
LEMMA PostMoves ==
  ASSUME IInv, NEW k \in Jobs, NEW there \in Steps, Post(k, there),
         receipt[k] = savedReceipt[k], receipt[k] # "none",
         UNCHANGED <<requestedBy, approvedBy, effect>>
  PROVE  /\ RowInv'
         /\ \/ UNCHANGED <<status, result>>
            \/ /\ status[k] = "approved"
               /\ status' = [status EXCEPT ![k] = "settled"]
               /\ result' = [result EXCEPT ![k] = receipt[k]]
         /\ late' \subseteq late \cup {<<k, receipt[k]>>}
         /\ \/ pc' = "asleep" /\ acked' = acked
            \/ /\ pc' = there /\ acked' = acked \cup {k} /\ late' = late
               /\ status'[k] = "settled" /\ result'[k] = receipt[k]
<1>1. receipt[k] \in Receipts \ {"none"}
  BY DEF IInv, TypeOK
<1>2. UNCHANGED <<status, result>> \/ Receive(k, receipt[k])
  BY DEF Post
<1>3. RowInv'
  BY <1>1, <1>2, ReceiveRow DEF IInv, RowInv
<1>4. Answers(k, receipt[k]) /\ Receive(k, receipt[k]) =>
        status'[k] = "settled" /\ result'[k] = receipt[k]
  BY DEF Answers, Receive, Records, IInv, TypeOK
<1> QED
  BY <1>2, <1>3, <1>4 DEF Post, Receive, Records

LEMMA FlushKeeps ==
  ASSUME IInv, NEW k \in Jobs, Flush(k)
  PROVE  RowInv' /\ AgentInv' /\ JobInv' /\ TruthInv'
<1>1. /\ pc = "flush" /\ receipt[k] # "none"
      /\ UNCHANGED <<requestedBy, approvedBy, receipt, todo, job, effect>>
      /\ savedAcked' = acked' /\ savedReceipt' = receipt
  BY DEF Flush, Unacknowledged
<1>2. \A j \in Jobs : receipt[j] = savedReceipt[j] /\ (j \in acked <=> j \in savedAcked)
  BY <1>1 DEF IInv, AgentInv
<1>3. /\ RowInv'
      /\ \/ UNCHANGED <<status, result>>
         \/ /\ status[k] = "approved"
            /\ status' = [status EXCEPT ![k] = "settled"]
            /\ result' = [result EXCEPT ![k] = receipt[k]]
      /\ late' \subseteq late \cup {<<k, receipt[k]>>}
      /\ \/ pc' = "asleep" /\ acked' = acked
         \/ /\ pc' = "flush" /\ acked' = acked \cup {k} /\ late' = late
            /\ status'[k] = "settled" /\ result'[k] = receipt[k]
  BY <1>1, <1>2, PostMoves DEF Flush, Steps
<1>4. AgentInv'
  <2>1. \A j \in Jobs : savedReceipt'[j] # "none" => approvedBy'[j] # None
    BY <1>1, <1>2 DEF IInv, AgentInv
  <2>2. \A j \in Jobs : j \in savedAcked' =>
          status'[j] = "settled" /\ result'[j] = savedReceipt'[j]
    BY <1>1, <1>2, <1>3 DEF IInv, AgentInv, TypeOK
  <2>3. \A j \in Jobs : j \in todo' =>
          approvedBy'[j] # None /\ (receipt'[j] = "none" => status'[j] # "settled")
    BY <1>1, <1>3 DEF IInv, AgentInv, TypeOK
  <2> QED
    BY <1>1, <2>1, <2>2, <2>3 DEF AgentInv
<1>5. JobInv'
  BY <1>1, <1>3 DEF JobInv
<1>6. TruthInv'
  BY <1>1, <1>2, <1>3 DEF IInv, TypeOK, TruthInv, True
<1> QED
  BY <1>3, <1>4, <1>5, <1>6

LEMMA PostResultKeeps ==
  ASSUME IInv, PostResult
  PROVE  RowInv' /\ AgentInv' /\ JobInv' /\ TruthInv'
<1>1. /\ pc = "post" /\ job \in Jobs /\ receipt[job] # "none"
      /\ approvedBy[job] # None
      /\ UNCHANGED <<requestedBy, approvedBy, receipt, todo, job, savedVars, effect>>
  BY DEF PostResult, IInv, JobInv
<1>2. \A j \in Jobs : receipt[j] = savedReceipt[j] /\ (j \in acked <=> j \in savedAcked)
  BY <1>1 DEF IInv, AgentInv
<1>3. /\ RowInv'
      /\ \/ UNCHANGED <<status, result>>
         \/ /\ status[job] = "approved"
            /\ status' = [status EXCEPT ![job] = "settled"]
            /\ result' = [result EXCEPT ![job] = receipt[job]]
      /\ late' \subseteq late \cup {<<job, receipt[job]>>}
      /\ \/ pc' = "asleep" /\ acked' = acked
         \/ /\ pc' = "acked" /\ acked' = acked \cup {job} /\ late' = late
            /\ status'[job] = "settled" /\ result'[job] = receipt[job]
  BY <1>1, <1>2, PostMoves DEF PostResult, Steps
<1>4. AgentInv'
  <2>1. \A j \in Jobs : j \in savedAcked' =>
          status'[j] = "settled" /\ result'[j] = savedReceipt'[j]
    BY <1>1, <1>3 DEF IInv, AgentInv, TypeOK, savedVars
  <2>2. \A j \in Jobs : j \in todo' =>
          approvedBy'[j] # None /\ (receipt'[j] = "none" => status'[j] # "settled")
    BY <1>1, <1>3 DEF IInv, AgentInv, TypeOK
  <2>3. \A j \in Jobs : pc' # "asleep" =>
          (j \in acked' <=> j \in savedAcked') \/ (j = job' /\ pc' = "acked")
    BY <1>1, <1>2, <1>3 DEF savedVars
  <2>4. \A j \in Jobs : /\ receipt'[j] = savedReceipt'[j]
                        /\ savedReceipt'[j] # "none" => approvedBy'[j] # None
    BY <1>1, <1>2 DEF IInv, AgentInv, savedVars
  <2> QED
    BY <2>1, <2>2, <2>3, <2>4 DEF AgentInv
<1>5. JobInv'
  BY <1>1, <1>3 DEF JobInv
<1>6. TruthInv'
  BY <1>1, <1>2, <1>3 DEF IInv, TypeOK, TruthInv, True, savedVars
<1> QED
  BY <1>3, <1>4, <1>5, <1>6

-----------------------------------------------------------------------------
(* The agent on its own: the rows and the receipts under way are left alone. *)

LEMMA RowKeeps == RowInv /\ UNCHANGED rowVars => RowInv'
BY DEF RowInv, rowVars

LEMMA LoadKeeps == IInv /\ Load => AgentInv' /\ JobInv' /\ TruthInv'
<1> SUFFICES ASSUME IInv, Load PROVE AgentInv' /\ JobInv' /\ TruthInv'
  OBVIOUS
<1>1. AgentInv'
  BY DEF Load, IInv, AgentInv, rowVars, savedVars
<1>2. JobInv'
  BY DEF Load, JobInv
<1>3. TruthInv'
  BY DEF Load, IInv, TruthInv, True, rowVars, savedVars
<1> QED
  BY <1>1, <1>2, <1>3

\* The steps of a cycle before the first command is handled.
Prelude == SendEvents \/ BlockCommands \/ Flushed \/ List

\* Of the listing, whose jobs are approved, and of the steps before it.
LEMMA ListKeeps == IInv /\ Prelude => AgentInv' /\ JobInv' /\ TruthInv'
<1> SUFFICES ASSUME IInv, Prelude PROVE AgentInv' /\ JobInv' /\ TruthInv'
  OBVIOUS
<1>1. /\ UNCHANGED <<rowVars, receipt, acked, job, savedVars, effect, late>>
      /\ pc \in {"events", "commands", "flush", "list"}
      /\ pc' \in {"commands", "flush", "list", "next", "asleep"}
      /\ todo' = todo \/ todo' = {j \in Jobs : Listed(j)}
  BY DEF Prelude, SendEvents, BlockCommands, Contact, Flushed, List, memVars
<1>2. AgentInv'
  BY <1>1 DEF Listed, IInv, RowInv, AgentInv, rowVars, savedVars
<1>3. JobInv'
  BY <1>1 DEF JobInv
<1>4. TruthInv'
  BY <1>1 DEF IInv, TruthInv, True, rowVars, savedVars
<1> QED
  BY <1>2, <1>3, <1>4

LEMMA TakeKeeps ==
  ASSUME IInv, NEW k \in Jobs, Take(k)
  PROVE  AgentInv' /\ JobInv' /\ TruthInv'
<1>1. /\ pc = "next" /\ k \in todo /\ job' = k /\ todo' = todo \ {k}
      /\ UNCHANGED <<rowVars, savedVars, effect, late>>
  BY DEF Take
<1>2. \A j \in Jobs : receipt[j] = savedReceipt[j] /\ (j \in acked <=> j \in savedAcked)
  BY <1>1 DEF IInv, AgentInv
<1>3. CASE /\ receipt[k] = "none" /\ receipt' = [receipt EXCEPT ![k] = Mark]
           /\ acked' = acked \ {k} /\ pc' = "marked"
  <2>1. status[k] # "settled" /\ savedReceipt[k] = "none" /\ k \notin acked
    BY <1>1, <1>2, <1>3 DEF IInv, AgentInv
  <2>2. AgentInv'
    BY <1>1, <1>2, <1>3, <2>1 DEF IInv, TypeOK, AgentInv, Mark, rowVars, savedVars
  <2>3. JobInv'
    BY <1>1, <1>3, <2>1
    DEF IInv, TypeOK, AgentInv, TruthInv, JobInv, Mark, rowVars, savedVars
  <2> QED
    BY <1>1, <2>2, <2>3 DEF IInv, TruthInv, True, rowVars, savedVars
<1>4. CASE receipt[k] # "none" /\ pc' = "post" /\ UNCHANGED <<receipt, acked>>
  <2>1. AgentInv'
    BY <1>1, <1>2, <1>4 DEF IInv, AgentInv, rowVars, savedVars
  <2>2. JobInv'
    BY <1>1, <1>4 DEF IInv, AgentInv, JobInv, rowVars
  <2> QED
    BY <1>1, <2>1, <2>2 DEF IInv, TruthInv, True, rowVars, savedVars
<1> QED
  BY <1>3, <1>4 DEF Take

LEMMA SaveMarkKeeps == IInv /\ SaveMark => AgentInv' /\ JobInv' /\ TruthInv'
<1> SUFFICES ASSUME IInv, SaveMark PROVE AgentInv' /\ JobInv' /\ TruthInv'
  OBVIOUS
<1>1. /\ pc = "marked" /\ pc' = "execute"
      /\ savedReceipt' = receipt /\ savedAcked' = acked
      /\ UNCHANGED <<rowVars, memVars, effect, late>>
  BY DEF SaveMark, CommitMark, SaveState
<1>2. /\ job \in Jobs /\ receipt[job] = Mark /\ savedReceipt[job] = "none"
      /\ status[job] # "settled" /\ approvedBy[job] # None
      /\ \A r \in Receipts : <<job, r>> \notin late
  BY <1>1 DEF IInv, JobInv
<1>3. /\ \A j \in Jobs : j \in acked <=> j \in savedAcked
      /\ \A j \in Jobs \ {job} : receipt[j] = savedReceipt[j]
  BY <1>1 DEF IInv, AgentInv
<1>4. effect[job] = 0
  BY <1>2 DEF IInv, TruthInv
<1>5. AgentInv'
  BY <1>1, <1>2, <1>3 DEF IInv, AgentInv, rowVars, memVars
<1>6. JobInv'
  BY <1>1, <1>2, <1>4 DEF JobInv, Mark, rowVars, memVars
<1>7. TruthInv'
  BY <1>1, <1>2, <1>3 DEF IInv, TruthInv, True, Mark, rowVars
<1> QED
  BY <1>5, <1>6, <1>7

\* A job that is dispatched is still known to be unreported, and one that is denied
\* had no effect.
LEMMA DispatchKeeps == IInv /\ Dispatch => AgentInv' /\ JobInv' /\ TruthInv'
<1> SUFFICES ASSUME IInv, Dispatch PROVE AgentInv' /\ JobInv' /\ TruthInv'
  OBVIOUS
<1>1. /\ pc = "execute"
      /\ UNCHANGED <<rowVars, acked, todo, job, savedVars, effect, late>>
      /\ \/ pc' = "executed" /\ receipt' = [receipt EXCEPT ![job] = "denied"]
         \/ pc' = "acting" /\ UNCHANGED receipt
  BY DEF Dispatch
<1>2. /\ job \in Jobs /\ receipt[job] # "none" /\ receipt'[job] # "none"
      /\ \A j \in Jobs \ {job} : receipt'[j] = receipt[j]
      /\ pc' = "executed" => receipt'[job] = "denied"
  BY <1>1 DEF IInv, TypeOK, JobInv
<1>3. AgentInv'
  BY <1>1, <1>2 DEF IInv, AgentInv, rowVars, savedVars
<1>4. JobInv'
  BY <1>1, <1>2 DEF IInv, JobInv, True, rowVars, savedVars
<1>5. TruthInv'
  BY <1>1 DEF IInv, TruthInv, True, rowVars, savedVars
<1> QED
  BY <1>3, <1>4, <1>5

\* Whether the agent carries the action out or dies while doing so.
LEMMA ExecuteKeeps ==
  IInv /\ (Execute \/ Crash) => AgentInv' /\ JobInv' /\ TruthInv'
<1> SUFFICES ASSUME IInv, Execute \/ Crash PROVE AgentInv' /\ JobInv' /\ TruthInv'
  OBVIOUS
<1>1. CASE /\ pc = "acting"
           /\ Execute \/ (UNCHANGED receipt /\ pc' = "asleep")
  <2>1. /\ job \in Jobs /\ savedReceipt[job] = Mark /\ effect[job] = 0
        /\ status[job] # "settled" /\ approvedBy[job] # None /\ result[job] = "none"
        /\ \A r \in Receipts : <<job, r>> \notin late
    BY <1>1 DEF IInv, JobInv, RowInv
  <2>2. UNCHANGED <<rowVars, acked, todo, job, savedVars, late>>
    BY DEF Execute, Crash, memVars
  <2>3. effect' = effect \/ effect' = [effect EXCEPT ![job] = @ + 1]
    BY DEF Execute, Crash
  <2>4. /\ \A j \in Jobs \ {job} : effect'[j] = effect[j]
        /\ effect'[job] \in {0, 1}
    BY <2>1, <2>3 DEF IInv, TypeOK
  <2>5. /\ \A j \in Jobs \ {job} : receipt'[j] = receipt[j]
        /\ pc' = "executed" => receipt'[job] # "none" /\ True(job, receipt[job])'
    BY <1>1, <2>1, <2>2 DEF Execute, Failures, True, IInv, TypeOK
  <2>6. pc' \in {"executed", "asleep"}
    BY <1>1 DEF Execute
  <2>7. AgentInv'
    BY <1>1, <2>1, <2>2, <2>5, <2>6 DEF IInv, AgentInv, rowVars, savedVars
  <2>8. JobInv'
    BY <2>1, <2>2, <2>5, <2>6 DEF JobInv, rowVars, savedVars
  <2>9. TruthInv'
    BY <2>1, <2>2, <2>4 DEF IInv, TruthInv, True, Mark, rowVars, savedVars
  <2> QED
    BY <2>7, <2>8, <2>9
<1>2. CASE pc' = "asleep" /\ UNCHANGED <<rowVars, savedVars, effect, late>>
  BY <1>2 DEF IInv, AgentInv, JobInv, TruthInv, True, rowVars, savedVars
<1>3. Execute => pc = "acting"
  BY DEF Execute
<1>4. Crash =>
        \/ pc = "acting" /\ UNCHANGED receipt /\ pc' = "asleep"
        \/ pc' = "asleep" /\ UNCHANGED <<rowVars, savedVars, effect, late>>
  BY DEF Crash, memVars
<1> QED
  BY <1>1, <1>2, <1>3, <1>4

LEMMA SaveResultKeeps == IInv /\ SaveResult => AgentInv' /\ JobInv' /\ TruthInv'
<1> SUFFICES ASSUME IInv, SaveResult PROVE AgentInv' /\ JobInv' /\ TruthInv'
  OBVIOUS
<1>1. /\ pc = "executed" /\ pc' = "post"
      /\ savedReceipt' = receipt /\ savedAcked' = acked
      /\ UNCHANGED <<rowVars, memVars, effect, late>>
  BY DEF SaveResult, SaveState
<1>2. /\ job \in Jobs /\ receipt[job] # "none" /\ True(job, receipt[job])
      /\ status[job] # "settled" /\ approvedBy[job] # None
      /\ \A r \in Receipts : <<job, r>> \notin late
  BY <1>1 DEF IInv, JobInv
<1>3. /\ \A j \in Jobs : j \in acked <=> j \in savedAcked
      /\ \A j \in Jobs \ {job} : receipt[j] = savedReceipt[j]
  BY <1>1 DEF IInv, AgentInv
<1>4. AgentInv'
  BY <1>1, <1>2, <1>3 DEF IInv, AgentInv, rowVars, memVars
<1>5. JobInv'
  BY <1>1, <1>2 DEF JobInv, rowVars, memVars
<1>6. TruthInv'
  BY <1>1, <1>2, <1>3 DEF IInv, TruthInv, True, rowVars
<1> QED
  BY <1>4, <1>5, <1>6

LEMMA SaveAckKeeps == IInv /\ SaveAck => AgentInv' /\ JobInv' /\ TruthInv'
<1> SUFFICES ASSUME IInv, SaveAck PROVE AgentInv' /\ JobInv' /\ TruthInv'
  OBVIOUS
<1>1. /\ pc = "acked" /\ pc' = "next"
      /\ savedReceipt' = receipt /\ savedAcked' = acked
      /\ UNCHANGED <<rowVars, memVars, effect, late>>
  BY DEF SaveAck, SaveState
<1>2. /\ \A j \in Jobs : receipt[j] = savedReceipt[j]
      /\ status[job] = "settled" /\ result[job] = receipt[job]
  BY <1>1 DEF IInv, AgentInv, JobInv
<1>3. \A j \in Jobs \ {job} : j \in acked <=> j \in savedAcked
  BY <1>1 DEF IInv, AgentInv
<1>4. AgentInv'
  BY <1>1, <1>2, <1>3 DEF IInv, AgentInv, rowVars, memVars
<1>5. JobInv'
  BY <1>1 DEF JobInv
<1>6. TruthInv'
  BY <1>1, <1>2 DEF IInv, TruthInv, True, rowVars
<1> QED
  BY <1>4, <1>5, <1>6

LEMMA DoneKeeps == IInv /\ Done => AgentInv' /\ JobInv' /\ TruthInv'
<1> SUFFICES ASSUME IInv, Done PROVE AgentInv' /\ JobInv' /\ TruthInv'
  OBVIOUS
<1>1. PICK old \in SUBSET {j \in Jobs : Prunable(j)} :
        /\ receipt' = [j \in Jobs |-> IF j \in old THEN "none" ELSE receipt[j]]
        /\ acked' = acked \ old
  BY DEF Done
<1>2. /\ pc = "next" /\ pc' = "asleep"
      /\ savedReceipt' = receipt' /\ savedAcked' = acked'
      /\ UNCHANGED <<rowVars, effect, late>>
  BY DEF Done
<1>3. \A j \in Jobs : receipt[j] = savedReceipt[j] /\ (j \in acked <=> j \in savedAcked)
  BY <1>2 DEF IInv, AgentInv
<1>4. \A j \in old : status[j] = "settled"
  BY <1>1, <1>3 DEF Prunable, IInv, AgentInv
<1>5. AgentInv'
  BY <1>1, <1>2, <1>3 DEF IInv, AgentInv, rowVars
<1>6. JobInv'
  BY <1>2 DEF JobInv
<1>7. TruthInv'
  BY <1>1, <1>2, <1>3, <1>4 DEF IInv, TruthInv, True, rowVars
<1> QED
  BY <1>5, <1>6, <1>7

-----------------------------------------------------------------------------
(* The theorems.                                                           *)

LEMMA AgentRow == IInv /\ AgentStep => RowInv'
<1>1. ASSUME IInv,
             \/ Load \/ Prelude \/ SaveMark \/ Dispatch \/ Execute \/ SaveResult
             \/ SaveAck \/ Done
      PROVE  RowInv'
  <2>1. UNCHANGED rowVars
    BY <1>1 DEF Load, Prelude, SendEvents, BlockCommands, Contact, Flushed, List,
                SaveMark, Dispatch, Execute, SaveResult, SaveAck, Done
  <2> QED
    BY <1>1, <2>1, RowKeeps DEF IInv
<1>2. ASSUME IInv, NEW k \in Jobs, Take(k) PROVE RowInv'
  BY <1>2, RowKeeps DEF IInv, Take
<1> QED
  BY <1>1, <1>2, FlushKeeps, PostResultKeeps DEF AgentStep, Prelude

LEMMA AgentKeeps == IInv /\ AgentStep => AgentInv' /\ JobInv' /\ TruthInv'
BY LoadKeeps, ListKeeps, TakeKeeps, SaveMarkKeeps, DispatchKeeps, ExecuteKeeps,
   SaveResultKeeps, SaveAckKeeps, DoneKeeps, FlushKeeps, PostResultKeeps
DEF AgentStep, Prelude

\* The invariant is inductive.
LEMMA StepIInv == IInv /\ [Next]_vars => IInv'
<1> SUFFICES ASSUME IInv, [Next]_vars PROVE IInv'
  OBVIOUS
<1>1. TypeOK'
  BY StepType DEF IInv
<1>2. RowInv' /\ AgentInv' /\ JobInv' /\ TruthInv'
  <2>1. CASE Review
    BY <2>1, ReviewRow, ReviewKeeps
  <2>2. CASE \E j \in Jobs, r \in Receipts : LateReceipt(j, r)
    BY <2>2, LateKeeps
  <2>3. CASE AgentStep
    BY <2>3, AgentRow, AgentKeeps
  <2>4. CASE Crash
    BY <2>4, RowKeeps, ExecuteKeeps DEF IInv, Crash
  <2>5. CASE UNCHANGED vars
    BY <2>5 DEF IInv, RowInv, AgentInv, JobInv, TruthInv, True, vars, rowVars,
                memVars, savedVars
  <2> QED
    BY <2>1, <2>2, <2>3, <2>4, <2>5 DEF Next, Review
<1> QED
  BY <1>1, <1>2 DEF IInv

LEMMA InitIInv == Init => IInv
<1> SUFFICES ASSUME Init PROVE IInv
  OBVIOUS
<1>1. TypeOK
  <2>1. pc \in Steps /\ revokes \in 0..MaxRevokes /\ faults \in 0..MaxFaults
    BY PlaybookAssumption DEF Init, Steps
  <2>2. active \in BOOLEAN /\ refused \in BOOLEAN
    BY DEF Init
  <2>3. /\ status \in [Jobs -> Statuses]
        /\ requestedBy \in [Jobs -> Subjects \cup {None}]
        /\ approvedBy \in [Jobs -> Admins \cup {None}]
        /\ result \in [Jobs -> Receipts] /\ receipt \in [Jobs -> Receipts]
        /\ savedReceipt \in [Jobs -> Receipts] /\ effect \in [Jobs -> Nat]
    BY DEF Init, NoReceipt, Receipts, Statuses
  <2> QED
    BY <2>1, <2>2, <2>3 DEF Init, TypeOK
<1>2. RowInv /\ AgentInv /\ JobInv /\ TruthInv
  BY DEF Init, NoReceipt, RowInv, AgentInv, JobInv, TruthInv, True
<1> QED
  BY <1>1, <1>2 DEF IInv

\* The inductive invariant holds in every reachable state of the control plane
\* and the agent (operations_api.py, response_agent.py).
THEOREM PlaybookInductive == Spec => []IInv
BY InitIInv, StepIInv, PTL DEF Spec

\* Every row, receipt and step of the agent is of its kind.
THEOREM PlaybookTypeOK == Spec => []TypeOK
<1>1. IInv => TypeOK
  BY DEF IInv
<1> QED
  BY <1>1, PlaybookInductive, PTL

\* No job changes the host twice, whatever is lost, retried, restarted or pruned.
THEOREM PlaybookAtMostOnce == Spec => []AtMostOnce
<1>1. IInv => AtMostOnce
  BY DEF IInv, TruthInv, AtMostOnce
<1> QED
  BY <1>1, PlaybookInductive, PTL

\* What is on record as applied was carried out, once.
THEOREM PlaybookReportIsTrue == Spec => []ReportIsTrue
<1>1. IInv => ReportIsTrue
  BY DEF IInv, TruthInv, True, ReportIsTrue
<1> QED
  BY <1>1, PlaybookInductive, PTL

\* What the state file holds for acknowledged is on record, word for word.
THEOREM PlaybookAcknowledged == Spec => []AcknowledgedIsRecorded
<1>1. IInv => AcknowledgedIsRecorded
  BY DEF IInv, TypeOK, AgentInv, AcknowledgedIsRecorded
<1> QED
  BY <1>1, PlaybookInductive, PTL

\* The host changes only by jobs a second, administrative subject approved, and
\* undoes only what was settled.
THEOREM PlaybookOnlyReviewed == Spec => []OnlyReviewedActs
<1>1. IInv => OnlyReviewedActs
  BY DEF IInv, TypeOK, RowInv, TruthInv, OnlyReviewedActs
<1> QED
  BY <1>1, PlaybookInductive, PTL

\* Only carrying a job out, or dying while doing so, has an effect.
LEMMA EffectMoves ==
  ASSUME IInv, [Next]_vars, NEW j \in Jobs, effect'[j] # effect[j]
  PROVE  /\ j = job /\ pc = "acting"
         /\ effect' = [effect EXCEPT ![j] = @ + 1]
         /\ UNCHANGED rowVars
<1>1. Execute \/ Crash
  BY DEF Next, vars, RequestCheck, RequestInsert, Expire, Approve, Revoke, Enroll,
         Outdate, LateReceipt, AgentStep, Load, SendEvents, BlockCommands, Contact,
         Flushed, List, SaveMark, Dispatch, SaveResult, PostResult, SaveAck, Done,
         Flush, Take
<1>2. pc = "acting" /\ effect' = [effect EXCEPT ![job] = @ + 1]
  BY <1>1 DEF Execute, Crash
<1>3. UNCHANGED rowVars
  BY <1>1 DEF Execute, Crash
<1> QED
  BY <1>2, <1>3 DEF IInv, TypeOK

\* The jobs that are on the agent's hands.
OnList == IF pc = "asleep" THEN {} ELSE todo
InHand == IF pc \in {"marked", "execute", "acting"} THEN {job} ELSE {}
Acting == IF pc = "acting" THEN {job} ELSE {}

\* Only what is listed comes on the list, only from there a job is taken, and only in
\* time is it dispatched.
LEMMA HandsMove ==
  ASSUME IInv, [Next]_vars
  PROVE  /\ OnList' \subseteq OnList \cup {j \in Jobs : status[j] = "approved"}
         /\ InHand' \subseteq InHand \cup OnList
         /\ Acting' \subseteq Acting \cup ({job} \ expired)
<1>1. CASE UNCHANGED <<pc, todo, job>>
  BY <1>1 DEF OnList, InHand, Acting
<1>2. CASE AgentStep
  <2>1. CASE List
    BY <2>1 DEF List, Listed, OnList, InHand, Acting
  <2>2. CASE \E j \in Jobs : Take(j)
    BY <2>2 DEF Take, OnList, InHand, Acting
  <2>3. CASE Dispatch
    BY <2>3 DEF Dispatch, InTime, OnList, InHand, Acting
  <2>4. CASE \/ Load \/ SendEvents \/ BlockCommands \/ Flushed
             \/ \E j \in Jobs : Flush(j)
    BY <2>4 DEF Load, SendEvents, BlockCommands, Contact, Flushed, Flush, Post, memVars,
                OnList, InHand, Acting
  <2>5. CASE SaveMark \/ Execute \/ SaveResult \/ PostResult \/ SaveAck \/ Done
    BY <2>5 DEF SaveMark, Execute, SaveResult, PostResult, Post, SaveAck, Done, memVars,
                OnList, InHand, Acting
  <2> QED
    BY <1>2, <2>1, <2>2, <2>3, <2>4, <2>5 DEF AgentStep
<1>3. CASE Crash
  BY <1>3 DEF Crash, OnList, InHand, Acting
<1> QED
  BY <1>1, <1>2, <1>3
  DEF Next, vars, memVars, RequestCheck, RequestInsert, Expire, Approve, Revoke, Enroll,
      Outdate, LateReceipt

\* Expiry and cancellation are for good.
LEMMA TooLateForGood ==
  ASSUME IInv, [Next]_vars
  PROVE  /\ expired \subseteq expired'
         /\ \A j \in Jobs : status[j] = "cancelled" => status'[j] = "cancelled"
<1>1. CASE Review
  BY <1>1
  DEF Review, RequestCheck, RequestInsert, Expire, Approve, Revoke, Enroll, Outdate,
      rowVars, IInv, TypeOK
<1>2. CASE \E j \in Jobs, r \in Receipts : LateReceipt(j, r)
  BY <1>2 DEF LateReceipt, Receive, Records, IInv, TypeOK
<1>3. CASE AgentStep
  <2>1. CASE PostResult \/ \E j \in Jobs : Flush(j)
    BY <2>1 DEF PostResult, Flush, Post, Receive, Records, IInv, TypeOK
  <2>2. CASE UNCHANGED <<rowVars, expired>>
    BY <2>2 DEF rowVars
  <2> QED
    BY <1>3, <2>1, <2>2
    DEF AgentStep, Load, SendEvents, BlockCommands, Contact, Flushed, List, SaveMark,
        Dispatch, Execute, SaveResult, SaveAck, Done, Take
<1>4. CASE Crash \/ UNCHANGED vars
  BY <1>4 DEF Crash, vars, rowVars
<1> QED
  BY <1>1, <1>2, <1>3, <1>4 DEF Next, Review

\* A job that expired before it was dispatched, or was cancelled before it was listed,
\* never changes the host any more (response_agent.py:41, operations_api.py:88-100).
THEOREM PlaybookWithdrawnStaysOut == Spec => WithdrawnStaysOut
<1>1. ASSUME IInv, [Next]_vars, NEW j \in Withdrawn
      PROVE  j \in Withdrawn' /\ effect'[j] = effect[j]
  <2>1. j \in Jobs /\ (j \notin Acting \/ j \notin InHand)
    BY <1>1 DEF Withdrawn, Acting, InHand, IInv, TypeOK
  <2>2. effect'[j] = effect[j]
    BY <1>1, <2>1, EffectMoves DEF Acting, InHand
  <2>3. CASE j \in expired /\ j \notin Acting
    <3>1. j \in expired' /\ j \notin Acting'
      BY <1>1, <2>3, HandsMove, TooLateForGood
    <3> QED
      BY <2>2, <3>1 DEF Withdrawn, Acting
  <2>4. CASE status[j] = "cancelled" /\ j \notin OnList /\ j \notin InHand
    <3>1. j \notin OnList' /\ j \notin InHand'
      BY <1>1, <2>4, HandsMove
    <3>2. status'[j] = "cancelled"
      BY <1>1, <2>1, <2>4, TooLateForGood
    <3> QED
      BY <2>1, <2>2, <3>1, <3>2 DEF Withdrawn, OnList, InHand
  <2> QED
    BY <1>1, <2>3, <2>4 DEF Withdrawn, Acting, OnList, InHand
<1>2. IInv /\ [Next]_vars =>
        [\A j \in Withdrawn : j \in Withdrawn' /\ effect'[j] = effect[j]]_vars
  BY <1>1
<1> QED
  BY <1>2, PlaybookInductive, PTL DEF Spec, WithdrawnStaysOut

-----------------------------------------------------------------------------
(* The refinement of ReportedCommand.                                      *)

Authorised == {j \in Jobs : approvedBy[j] # None}

\* The record of at most one job changes in a step, once, and truly.
LEMMA ReportMoves ==
  ASSUME IInv, [Next]_vars, result' # result
  PROVE  /\ UNCHANGED <<approvedBy, effect>>
         /\ \E j \in Jobs, r \in Receipts \ {"none"} :
              /\ approvedBy[j] # None /\ result[j] = "none" /\ True(j, r)
              /\ result' = [result EXCEPT ![j] = r]
<1>1. \/ \E j \in Jobs, r \in Receipts : LateReceipt(j, r)
      \/ \E j \in Jobs : Flush(j)
      \/ PostResult
  BY DEF Next, vars, RequestCheck, RequestInsert, Expire, Approve, Revoke, Enroll,
         Outdate, AgentStep, Load, SendEvents, BlockCommands, Contact, Flushed, List,
         SaveMark, Dispatch, SaveResult, Execute, Crash, SaveAck, Done, Take, rowVars
<1>2. UNCHANGED <<approvedBy, effect>>
  BY <1>1 DEF LateReceipt, Flush, PostResult
<1>3. PICK j \in Jobs, r \in Receipts :
        Records(j, r) /\ Receive(j, r) /\ r # "none" /\ savedReceipt[j] = r
  <2>1. CASE \E j \in Jobs, r \in Receipts : LateReceipt(j, r)
    BY <2>1 DEF LateReceipt, Receive, Records, IInv, TruthInv
  <2>2. CASE \E j \in Jobs : Flush(j)
    BY <2>2 DEF Flush, Unacknowledged, Post, Receive, Records, IInv, TypeOK, AgentInv
  <2>3. CASE PostResult
    BY <2>3 DEF PostResult, Post, Receive, Records, IInv, TypeOK, AgentInv, JobInv
  <2> QED
    BY <1>1, <2>1, <2>2, <2>3
<1>4. approvedBy[j] # None /\ result[j] = "none" /\ True(j, r)
  BY <1>3 DEF Records, IInv, TypeOK, RowInv, TruthInv
<1>5. result' = [result EXCEPT ![j] = r]
  BY <1>3 DEF Receive
<1> QED
  BY <1>2, <1>3, <1>4, <1>5

\* At most one job is authorised in a step that neither acts nor reports.
LEMMA AuthoriseMoves ==
  ASSUME IInv, [Next]_vars, Authorised' # Authorised
  PROVE  /\ UNCHANGED <<effect, result>>
         /\ \E j \in Jobs : Authorised' = Authorised \cup {j}
<1>1. approvedBy' # approvedBy
  BY DEF Authorised
<1>2. PICK j \in Jobs, a \in Admins : Approve(j, a)
  BY <1>1
  DEF Next, vars, RequestCheck, RequestInsert, Expire, Revoke, Enroll, Outdate,
      LateReceipt, AgentStep, Load, SendEvents, BlockCommands, Contact, Flushed, List,
      SaveMark, Dispatch, SaveResult, Execute, Crash, PostResult, SaveAck, Done, Flush,
      Take, rowVars
<1>3. Authorised' = Authorised \cup {j}
  BY <1>2, PlaybookAssumption DEF Approve, Authorised, IInv, TypeOK
<1> QED
  BY <1>2, <1>3 DEF Approve

\* The control plane and the agent together are a reported command: performed at
\* most once and only when authorised, then truly reported, for good.
THEOREM PlaybookImplementsReport == Spec => ImplementsReport
<1>1. Init => Reported!Init
  BY DEF Init, Reported!Init, NoReceipt
<1>2. ASSUME IInv, [Next]_vars
      PROVE  [Reported!Next]_<<{j \in Jobs : approvedBy[j] # None}, effect, result>>
  <2>1. CASE result' # result
    BY <1>2, <2>1, ReportMoves
    DEF Reported!Next, Reported!Report, Reported!Reports, Receipts, True
  <2>2. CASE Authorised' # Authorised
    BY <1>2, <2>2, AuthoriseMoves DEF Reported!Next, Reported!Authorise, Authorised
  <2>3. CASE effect' # effect /\ result' = result /\ Authorised' = Authorised
    <3>1. PICK j \in Jobs : effect'[j] # effect[j]
      BY <1>2, <2>3, StepIInv DEF IInv, TypeOK
    <3>2. /\ j = job /\ pc = "acting"
          /\ effect' = [effect EXCEPT ![j] = @ + 1]
      BY <1>2, <3>1, EffectMoves
    <3>3. approvedBy[j] # None /\ result[j] = "none" /\ effect[j] = 0
      BY <1>2, <3>2 DEF IInv, JobInv, RowInv
    <3>4. effect' = [effect EXCEPT ![j] = 1]
      BY <1>2, <3>2, <3>3 DEF IInv, TypeOK
    <3>5. Reported!Perform(j)
      BY <2>3, <3>3, <3>4 DEF Reported!Perform, Authorised
    <3> QED
      BY <3>5 DEF Reported!Next
  <2> QED
    BY <2>1, <2>2, <2>3 DEF Authorised
<1> QED
  BY <1>1, <1>2, PlaybookInductive, PTL
  DEF Spec, ImplementsReport, Reported!Spec
=============================================================================
