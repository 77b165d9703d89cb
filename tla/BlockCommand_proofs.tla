-------------------------- MODULE BlockCommand_proofs --------------------------
(***************************************************************************)
(* Proofs about BlockCommand, for any number of alerts, requests, faults,  *)
(* revocations and restored backups.                                       *)
(***************************************************************************)
EXTENDS BlockCommand, FiniteSetTheorems, TLAPS

\* The agent works on a listing; what is left of it, with the command in hand.
Handling == {"marked", "execute", "acting", "executed", "post"}
Active == pc \in {"next"} \cup Handling
Entries == todo \cup (IF pc \in Handling THEN {command} ELSE {})

\* Rows up to here are in the backup.
Older == Len(backup.commands)

\* Requests age in order, and few are fresh.
AgeInv ==
  /\ \A r \in aged : 1..r \subseteq aged
  /\ \A r \in 1..requests : r \notin aged => requests - r < MaxReceipts

\* Rows are in the order of their requests, and are the requests before a restore.
RowInv ==
  /\ \A i \in Positions : commands[i].request <= requests
  /\ \A i, j \in Positions : i < j => commands[i].request < commands[j].request
  /\ restores = 0 => /\ Len(commands) = requests
                     /\ \A i \in Positions : commands[i].request = i

\* The table goes on from the backup, whether it was restored or not.
BackupInv ==
  /\ Older <= Len(commands)
  /\ \A i \in 1..Older : backup.commands[i].request = i /\ commands[i].request = i
  /\ backup = NoBackup => restores = 0

\* Receipts in the state file are in memory, and the command in hand has one.
ReceiptInv ==
  /\ \A i \in Ids :
       /\ saved[i] # "none" => i <= requests /\ (pc # "asleep" => receipt[i] # "none")
       /\ receipt[i] # "none" => i <= requests
  /\ pc \in Handling => receipt[command.id] # "none"
  /\ pc \in {"execute", "acting", "executed"} => saved[command.id] # "none"

\* What was listed keeps its place in the table and in the backup, if it has one.
EntryOK(c) ==
  /\ c \in Listings /\ c.id <= requests /\ c.request <= requests
  /\ \A i \in Positions : commands[i].request = c.request => i = c.id
  /\ c.request <= Older => c.id = c.request
  /\ restores = 0 => c.under = agentCred
EntryInv ==
  Active =>
    /\ \A c \in Entries : EntryOK(c)
    /\ \A c, d \in Entries : c.request = d.request => c.id = d.id
    /\ pc \in Handling => \A c \in todo : command.id <= c.id

\* What is listed before a row in hand is in hand as well.
LineInv ==
  Active =>
    \A c \in Entries :
      /\ c.id \in Positions /\ c.id > Older /\ commands[c.id].request = c.request
      => \A j \in 1..(c.id - 1) : Listed(j) => \E d \in Entries : d.id = j

\* The request in hand was not carried out yet, or has grown old before its block starts.
Untried ==
  /\ pc \in {"marked", "execute"} =>
       command.request \in aged \/ blocked[command.request] = 0
  /\ pc = "acting" => blocked[command.request] = 0

\* A request that was carried out and could be listed again has a receipt; unless the
\* backup has it, it is the first to be listed, so that no pass ends before it.
SpentInv ==
  /\ \A r \in Ids : blocked[r] <= 1 /\ (blocked[r] > 0 => r <= requests)
  /\ \A i \in Positions : Listed(i) /\ blocked[commands[i].request] > 0 =>
       /\ saved[i] # "none"
       /\ i > Older => /\ \A j \in 1..(i - 1) : ~Listed(j)
                       /\ Active => \E c \in Entries : c.id = i
  /\ \A i \in 1..Older :
       backup.commands[i].state = "pending" /\ i \notin aged /\ blocked[i] > 0
       => saved[i] # "none"
  /\ Active => \A c \in todo :
       c.request \notin aged /\ blocked[c.request] > 0 => saved[c.id] # "none"
  /\ Untried

\* Before a restore ids are requests: what is pending is of this enrolment, and what
\* is said to be blocked was.
TruthInv ==
  restores = 0 =>
    /\ \A i \in Positions : /\ Pending(i) => cred # 0 /\ commands[i].under = cred
                            /\ commands[i].result = "blocked" => blocked[i] > 0
    /\ \A i \in Ids : blocked[i] = 0 =>
         receipt[i] # "blocked" /\ saved[i] # "blocked" /\ <<i, "blocked">> \notin late

IInv ==
  /\ TypeOK /\ AgeInv /\ RowInv /\ BackupInv /\ ReceiptInv
  /\ EntryInv /\ LineInv /\ SpentInv /\ TruthInv

-----------------------------------------------------------------------------
(* What the steps have in common.                                          *)

\* Rows keep their requests; they may only close.
TableCloses ==
  /\ Len(commands') = Len(commands)
  /\ \A i \in Positions : /\ commands'[i].request = commands[i].request
                          /\ commands'[i].under = commands[i].under
                          /\ Pending(i)' => Pending(i)

\* The agent goes on with its listing or leaves it; it drops only what is no longer
\* listed, and takes the oldest first.
Narrows ==
  Active' =>
    /\ Active /\ agentCred' = agentCred
    /\ todo' \subseteq todo /\ Entries' \subseteq Entries
    /\ \A d \in Entries \ Entries' : ~Listed(d.id)'
    /\ pc' \in Handling => \A c \in todo' : command'.id <= c.id

\* What the types say about positions, rows and entries.
LEMMA Types ==
  ASSUME TypeOK
  PROVE  /\ Len(commands) \in Nat /\ requests \in Nat /\ MaxRequests \in Nat
         /\ MaxReceipts \in Nat \ {0}
         /\ Positions \subseteq Ids /\ 1..requests \subseteq Ids
         /\ \A i \in Positions : commands[i] \in Rows /\ commands[i].request \in Ids
         /\ Older \in Nat
         /\ \A c \in Listings : c.id \in Ids /\ c.request \in Ids
<1>1. /\ Len(commands) \in Nat /\ Len(commands) <= requests /\ Older \in Nat
      /\ \A i \in Positions : commands[i] \in Rows
  BY DEF TypeOK, Positions, Older
<1>2. requests \in 0..MaxRequests /\ MaxRequests \in Nat
  BY BlockAssumption DEF TypeOK
<1>3. \A c \in Listings : c.id \in Ids /\ c.request \in Ids
  BY DEF Listings
<1>4. \A i \in Positions : commands[i].request \in Ids
  BY <1>1 DEF Rows
<1> QED
  BY <1>1, <1>2, <1>3, <1>4, BlockAssumption DEF Ids, Positions

\* Entries are listings, and they are none when the agent has nothing in hand.
LEMMA EntryTypes ==
  ASSUME IInv, Active, NEW c \in Entries
  PROVE  /\ EntryOK(c) /\ c \in Listings /\ c.id \in Ids /\ c.request \in Ids
         /\ c.id \in 1..requests /\ c.request \in 1..requests
<1>1. EntryOK(c) /\ TypeOK
  BY DEF IInv, EntryInv
<1>2. c \in Listings /\ c.id <= requests /\ c.request <= requests
  BY <1>1 DEF EntryOK
<1>3. c.id \in Ids /\ c.request \in Ids /\ requests \in Nat
  BY <1>1, <1>2, Types
<1> QED
  BY <1>1, <1>2, <1>3 DEF Ids

\* A step that closes rows and narrows the listing keeps the order of both.
LEMMA RowsStep ==
  ASSUME IInv, TypeOK', TableCloses, Narrows, aged \subseteq aged',
         UNCHANGED <<backup, requests, restores>>
  PROVE  RowInv' /\ BackupInv' /\ EntryInv' /\ LineInv'
<1>1. /\ Positions' = Positions /\ Older' = Older
      /\ \A i \in Positions : /\ commands'[i].request = commands[i].request
                              /\ Listed(i)' => Listed(i)
  BY DEF TableCloses, Positions, Listed, Pending, Older
<1>2. RowInv'
  BY <1>1 DEF RowInv, IInv, TableCloses
<1>3. BackupInv'
  <2>1. BackupInv /\ Len(commands) \in Nat /\ Older \in Nat
    BY Types DEF IInv
  <2>2. \A i \in 1..Older : i \in Positions
    BY <2>1 DEF BackupInv, Positions
  <2> QED
    BY <1>1, <2>1, <2>2 DEF BackupInv, TableCloses
<1>4. ASSUME NEW c, EntryOK(c), agentCred' = agentCred PROVE EntryOK(c)'
  BY <1>1, <1>4 DEF EntryOK
<1>5. EntryInv'
  <2> SUFFICES ASSUME Active' PROVE EntryInv!2'
    BY DEF EntryInv
  <2>1. /\ Active /\ agentCred' = agentCred /\ Entries' \subseteq Entries
        /\ pc' \in Handling => \A c \in todo' : command'.id <= c.id
    BY DEF Narrows
  <2>2. /\ \A c \in Entries : EntryOK(c)
        /\ \A c, d \in Entries : c.request = d.request => c.id = d.id
    BY <2>1 DEF IInv, EntryInv
  <2>3. \A c \in Entries' : EntryOK(c)'
    BY <1>4, <2>1, <2>2
  <2> QED
    BY <2>1, <2>2, <2>3
<1>6. LineInv'
  <2> SUFFICES ASSUME Active', NEW c \in Entries', c.id \in Positions', c.id > Older',
                      commands'[c.id].request = c.request,
                      NEW j \in 1..(c.id - 1), Listed(j)'
               PROVE  \E d \in Entries' : d.id = j
    BY DEF LineInv
  <2>1. Active /\ c \in Entries /\ \A d \in Entries \ Entries' : ~Listed(d.id)'
    BY DEF Narrows
  <2>2. c.id \in Positions /\ c.id > Older /\ commands[c.id].request = c.request
    BY <1>1
  <2>3. j \in Positions
    BY <2>2, Types DEF IInv, Positions
  <2>4. Listed(j)
    BY <1>1, <2>3
  <2>5. PICK d \in Entries : d.id = j
    BY <2>1, <2>2, <2>4 DEF IInv, LineInv
  <2> QED
    BY <2>1, <2>5
<1> QED
  BY <1>2, <1>3, <1>5, <1>6

\* Such a step that inserts no block and forgets no saved receipt.
LEMMA SpentStep ==
  ASSUME IInv, TypeOK', TableCloses, Narrows, aged \subseteq aged',
         UNCHANGED <<backup, requests, blocked>>,
         \A i \in Ids : saved[i] # "none" => saved'[i] # "none", Untried'
  PROVE  SpentInv'
<1>1. /\ Positions' = Positions /\ Older' = Older /\ Positions \subseteq Ids
      /\ \A i \in Positions : /\ commands'[i].request = commands[i].request
                              /\ Listed(i)' => Listed(i)
  BY Types DEF TableCloses, Positions, Listed, Pending, Older, IInv
<1>2. \A r \in Ids : blocked'[r] <= 1 /\ (blocked'[r] > 0 => r <= requests')
  BY DEF IInv, SpentInv
<1>3. ASSUME NEW i \in Positions', Listed(i)', blocked'[commands'[i].request] > 0
      PROVE  /\ saved'[i] # "none"
             /\ i > Older' => /\ \A j \in 1..(i - 1) : ~Listed(j)'
                              /\ Active' => \E c \in Entries' : c.id = i
  <2>1. i \in Positions /\ i \in Ids /\ Listed(i) /\ blocked[commands[i].request] > 0
    BY <1>1, <1>3
  <2>2. /\ saved[i] # "none"
        /\ i > Older => /\ \A j \in 1..(i - 1) : ~Listed(j)
                        /\ Active => \E c \in Entries : c.id = i
    BY <2>1 DEF IInv, SpentInv
  <2>3. \A j \in 1..(i - 1) : j \in Positions
    BY <2>1, Types DEF IInv, Positions
  <2>4. ASSUME Active', i > Older PROVE \E c \in Entries' : c.id = i
    <3>1. PICK c \in Entries : c.id = i
      BY <2>2, <2>4 DEF Narrows
    <3> QED
      BY <1>3, <2>4, <3>1 DEF Narrows
  <2> QED
    BY <1>1, <2>1, <2>2, <2>3, <2>4
<1>4. ASSUME NEW i \in 1..Older', backup'.commands[i].state = "pending", i \notin aged',
             blocked'[i] > 0
      PROVE  saved'[i] # "none"
  <2>1. i \in Ids
    BY <1>1, Types DEF IInv, BackupInv, Positions
  <2> QED
    BY <1>1, <1>4, <2>1 DEF IInv, SpentInv
<1>5. ASSUME Active', NEW c \in todo', c.request \notin aged', blocked'[c.request] > 0
      PROVE  saved'[c.id] # "none"
  <2>1. Active /\ c \in todo /\ c.id \in Ids
    BY <1>5, EntryTypes DEF Narrows, Entries
  <2> QED
    BY <1>5, <2>1 DEF IInv, SpentInv
<1> QED
  BY <1>2, <1>3, <1>4, <1>5 DEF SpentInv

\* A step that leaves the receipts alone and takes up no command.
LEMMA ReceiptStep ==
  ASSUME IInv, requests' >= requests, requests' \in Nat, UNCHANGED <<receipt, saved, command>>,
         pc = "asleep" => pc' = "asleep", pc' \in Handling => pc \in Handling,
         pc' \in {"execute", "acting", "executed"} =>
           pc \in {"execute", "acting", "executed"}
  PROVE  ReceiptInv'
<1>1. requests \in Nat
  BY Types DEF IInv
<1>2. \A i \in Ids :
        /\ saved'[i] # "none" => i <= requests' /\ (pc' # "asleep" => receipt'[i] # "none")
        /\ receipt'[i] # "none" => i <= requests'
  BY <1>1 DEF IInv, ReceiptInv, Ids
<1> QED
  BY <1>2 DEF IInv, ReceiptInv

\* The same of what is true before a restore, when nothing is said anew and no row
\* becomes pending.
LEMMA TruthStep ==
  ASSUME IInv, TableCloses, UNCHANGED <<restores, blocked, receipt, saved>>,
         \A i \in Ids : <<i, "blocked">> \in late' =>
           <<i, "blocked">> \in late \/ (restores = 0 => blocked[i] > 0),
         \A i \in Positions : Pending(i)' => cred' = cred,
         \A i \in Positions : commands'[i].result = "blocked" =>
           commands[i].result = "blocked" \/ (restores = 0 => blocked[i] > 0)
  PROVE  TruthInv'
<1>1. Positions' = Positions
  BY DEF TableCloses, Positions
<1> QED
  BY <1>1 DEF IInv, TruthInv, TableCloses

-----------------------------------------------------------------------------
(* The control plane's steps.                                              *)

LEMMA InitInv == Init => IInv
<1> SUFFICES ASSUME Init PROVE IInv
  OBVIOUS
<1> USE DEF Init
<1>1. /\ Positions = {} /\ Older = 0 /\ ~Active
  BY DEF Positions, Older, NoBackup, Active, Handling
<1>2. TypeOK
  <2>1. /\ NoReceipt \in [Ids -> Receipts] /\ 1 \in Credentials
        /\ 0 \in 0..MaxRequests /\ 0 \in 0..MaxRevokes /\ 0 \in 0..MaxRestores
        /\ 0 \in 0..MaxFaults
    BY BlockAssumption DEF NoReceipt, Receipts, Answers, Credentials
  <2>2. refused \in BOOLEAN
    OBVIOUS
  <2> QED
    BY <2>1, <2>2 DEF TypeOK, NoBackup, Steps
<1>3. AgeInv /\ RowInv /\ BackupInv /\ ReceiptInv
  BY <1>1 DEF AgeInv, RowInv, BackupInv, ReceiptInv, NoReceipt, Handling
<1>4. EntryInv /\ LineInv /\ SpentInv /\ TruthInv
  BY <1>1 DEF EntryInv, LineInv, SpentInv, Untried, TruthInv, NoReceipt
<1> QED
  BY <1>2, <1>3, <1>4 DEF IInv

\* A fresh request is less than MaxReceipts requests old: those after it are fresh too.
LEMMA FreshAreNear ==
  ASSUME TypeOK, AgeInv, FewAreFresh, NEW r \in 1..requests, r \notin aged
  PROVE  requests - r + 1 < MaxReceipts
<1>1. /\ requests \in Nat /\ MaxReceipts \in Nat
  BY Types
<1>2. r..requests \subseteq (1..requests) \ aged
  <2> SUFFICES ASSUME NEW k \in r..requests, k \in aged PROVE FALSE
    BY <1>1
  <2>1. 1..k \subseteq aged
    BY DEF AgeInv
  <2> QED
    BY <1>1, <2>1
<1>3. IsFiniteSet(1..requests) /\ IsFiniteSet((1..requests) \ aged)
  <2>1. IsFiniteSet(1..requests)
    BY <1>1, FS_Interval
  <2> QED
    BY <2>1, FS_Difference
<1>4. Cardinality(r..requests) <= Cardinality((1..requests) \ aged)
  BY <1>2, <1>3, FS_Subset
<1>5. Cardinality(r..requests) = requests - r + 1
  BY <1>1, FS_Interval
<1>6. Cardinality(r..requests) \in Nat /\ Cardinality((1..requests) \ aged) \in Nat
  BY <1>1, <1>3, FS_CardinalityType, FS_Interval
<1> QED
  BY <1>1, <1>4, <1>5, <1>6 DEF FewAreFresh

LEMMA QueueBlockInv == ASSUME IInv, NEW a \in Alerts, QueueBlock(a) PROVE IInv'
<1> DEFINE row == [request |-> requests', alert |-> a, under |-> cred,
                   state |-> "pending", result |-> "none"]
<1>1. /\ requests < MaxRequests /\ FewAreFresh /\ cred # 0 /\ requests' = requests + 1
      /\ commands' = Append(commands, row)
      /\ UNCHANGED <<cred, backup, aged, agentVars, blocked, late, countVars>>
  BY DEF QueueBlock
<1>2. /\ TypeOK /\ AgeInv /\ RowInv /\ BackupInv /\ EntryInv /\ LineInv /\ SpentInv /\ TruthInv
  BY DEF IInv
<1>3. /\ requests \in Nat /\ MaxRequests \in Nat /\ Len(commands) \in Nat /\ Older \in Nat
      /\ Positions \subseteq Ids /\ Len(commands) <= requests
  BY <1>2, Types DEF TypeOK
<1>4. row \in Rows /\ commands \in Seq(Rows)
  <2>1. requests' \in Ids /\ cred \in Credentials
    BY <1>1, <1>2, <1>3 DEF TypeOK, Ids
  <2> QED
    BY <1>2, <2>1 DEF Rows, Receipts, TypeOK
<1> HIDE DEF row
<1>5. /\ commands' \in Seq(Rows) /\ Len(commands') = Len(commands) + 1
      /\ \A i \in Positions : commands'[i] = commands[i]
      /\ commands'[Len(commands) + 1] = row
      /\ Positions' = Positions \cup {Len(commands) + 1}
      /\ \A i \in Positions : i <= Len(commands)
  BY <1>1, <1>3, <1>4 DEF Positions
<1>6. row.request = requests + 1 /\ row.state = "pending" /\ row.under = cred
      /\ row.result = "none"
  BY <1>1 DEF row
<1>7. /\ Older' = Older /\ Entries' = Entries /\ Active' = Active
      /\ \A i \in Positions : Listed(i)' = Listed(i)
  BY <1>1, <1>5 DEF agentVars, Older, Entries, Active, Listed, Pending
<1>8. \A i \in Positions : commands[i].request \in Ids /\ commands[i].request <= requests
  BY <1>2, Types DEF RowInv
<1>t. TypeOK'
  <2>1. requests' \in 0..MaxRequests /\ Len(commands') <= requests'
    BY <1>1, <1>3, <1>5
  <2>2. aged \in SUBSET (1..requests') /\ Len(backup.commands) <= requests'
    BY <1>1, <1>2, <1>3 DEF TypeOK, Older
  <2> QED
    BY <1>1, <1>2, <1>5, <2>1, <2>2 DEF TypeOK, agentVars, countVars
<1>a. AgeInv'
  <2>1. \A r \in 1..requests' : r \notin aged => requests' - r < MaxReceipts
    BY <1>1, <1>2, <1>3, FreshAreNear, BlockAssumption
  <2> QED
    BY <1>1, <1>2, <2>1 DEF AgeInv
<1>b. RowInv'
  <2>1. ASSUME NEW i \in Positions' PROVE commands'[i].request <= requests'
    <3>0. requests \in Nat /\ MaxRequests \in Nat /\ requests' = requests + 1
      BY <1>1, <1>3
    <3>1. CASE i \in Positions
      <4>1. commands'[i].request \in Ids /\ commands'[i].request <= requests
        BY <1>5, <1>8, <3>1
      <4> QED
        BY <3>0, <4>1 DEF Ids
    <3>2. CASE i = Len(commands) + 1
      BY <1>1, <1>3, <1>5, <1>6, <3>2
    <3> QED
      BY <1>5, <2>1, <3>1, <3>2
  <2>2. ASSUME NEW i \in Positions', NEW j \in Positions', i < j
        PROVE  commands'[i].request < commands'[j].request
    <3>1. i \in Positions
      BY <1>3, <1>5, <2>2 DEF Ids
    <3>2. CASE j \in Positions
      BY <1>2, <1>5, <2>2, <3>1, <3>2 DEF RowInv
    <3>3. CASE j = Len(commands) + 1
      BY <1>3, <1>5, <1>6, <1>8, <3>1, <3>3 DEF Ids
    <3> QED
      BY <1>5, <3>2, <3>3
  <2>3. restores' = 0 => /\ Len(commands') = requests'
                         /\ \A i \in Positions' : commands'[i].request = i
    BY <1>1, <1>2, <1>5, <1>6 DEF RowInv, countVars
  <2> QED
    BY <2>1, <2>2, <2>3 DEF RowInv
<1>c. BackupInv'
  <2>1. \A i \in 1..Older : i \in Positions
    BY <1>2, <1>3 DEF BackupInv, Positions
  <2> QED
    BY <1>1, <1>2, <1>3, <1>5, <1>7, <2>1 DEF BackupInv, countVars
<1>d. ReceiptInv'
  BY <1>1, <1>3, ReceiptStep DEF agentVars
<1>e. EntryInv'
  <2>1. ASSUME Active, NEW c \in Entries PROVE EntryOK(c)'
    <3>1. EntryOK(c) /\ c.id \in 1..requests /\ c.request \in 1..requests
      BY <2>1, EntryTypes
    <3>2. \A i \in Positions' : commands'[i].request = c.request => i = c.id
      BY <1>3, <1>5, <1>6, <3>1 DEF EntryOK
    <3>3. c.id <= requests' /\ c.request <= requests'
      BY <1>1, <1>3, <3>1
    <3>4. /\ c \in Listings /\ (c.request <= Older' => c.id = c.request)
          /\ restores' = 0 => c.under = agentCred'
      BY <1>1, <1>7, <3>1 DEF EntryOK, agentVars, countVars
    <3> QED
      BY <3>2, <3>3, <3>4 DEF EntryOK
  <2> QED
    BY <1>1, <1>2, <1>7, <2>1 DEF EntryInv, agentVars
<1>f. LineInv'
  <2> SUFFICES ASSUME Active, NEW c \in Entries, c.id \in Positions', c.id > Older,
                      commands'[c.id].request = c.request,
                      NEW j \in 1..(c.id - 1), Listed(j)'
               PROVE  \E d \in Entries : d.id = j
    BY <1>7 DEF LineInv
  <2>1. c.id \in Positions /\ commands[c.id].request = c.request
    BY <1>3, <1>5, <1>6, EntryTypes
  <2>2. j \in Positions
    BY <1>3, <2>1 DEF Positions
  <2> QED
    BY <1>2, <1>7, <2>1, <2>2 DEF LineInv
<1>g. SpentInv'
  <2>1. \A r \in Ids : blocked[r] <= 1 /\ (blocked[r] > 0 => r <= requests)
    BY <1>2 DEF SpentInv
  <2>2. requests + 1 \in Ids /\ blocked[requests + 1] \in Nat
    BY <1>1, <1>2, <1>3 DEF Ids, TypeOK
  <2>3. ASSUME NEW i \in Positions', Listed(i)', blocked'[commands'[i].request] > 0
        PROVE  i \in Positions /\ Listed(i) /\ blocked[commands[i].request] > 0
    <3>1. blocked'[commands'[i].request] = blocked[commands'[i].request]
      BY <1>1
    <3>2. i # Len(commands) + 1
      BY <1>1, <1>3, <1>5, <1>6, <2>1, <2>2, <2>3, <3>1
    <3>3. i \in Positions
      BY <1>5, <3>2
    <3> QED
      BY <1>5, <1>7, <2>3, <3>1, <3>3
  <2>4. \A i \in Positions : \A j \in 1..(i - 1) : j \in Positions
    BY <1>3 DEF Positions
  <2>5. \A i \in Positions' : Listed(i)' /\ blocked'[commands'[i].request] > 0 =>
          /\ saved'[i] # "none"
          /\ i > Older' => /\ \A j \in 1..(i - 1) : ~Listed(j)'
                           /\ Active' => \E c \in Entries' : c.id = i
    BY <1>1, <1>2, <1>7, <2>3, <2>4 DEF SpentInv, agentVars
  <2>6. \A r \in Ids : blocked'[r] <= 1 /\ (blocked'[r] > 0 => r <= requests')
    BY <1>1, <1>3, <2>1 DEF Ids
  <2> QED
    BY <1>1, <1>2, <1>7, <2>5, <2>6 DEF SpentInv, Untried, agentVars
<1>h. TruthInv'
  BY <1>1, <1>2, <1>5, <1>6 DEF TruthInv, agentVars, countVars, Pending
<1> QED
  BY <1>t, <1>a, <1>b, <1>c, <1>d, <1>e, <1>f, <1>g, <1>h DEF IInv

LEMMA AgeStepInv == ASSUME IInv, NEW r \in Ids, Age(r) PROVE IInv'
<1>1. /\ r \in 1..requests /\ 1..(r - 1) \subseteq aged /\ aged' = aged \cup {r}
      /\ UNCHANGED <<commands, cred, backup, requests, agentVars, blocked, late, countVars>>
  BY DEF Age
<1>2. TypeOK /\ AgeInv
  BY DEF IInv
<1>t. TypeOK'
  <2>1. aged' \in SUBSET (1..requests)
    BY <1>1, <1>2 DEF TypeOK
  <2> QED
    BY <1>1, <1>2, <2>1 DEF TypeOK, agentVars, countVars
<1>a. AgeInv'
  <2>1. \A k \in 1..r : k = r \/ k \in 1..(r - 1)
    BY DEF Ids
  <2> QED
    BY <1>1, <1>2, <2>1 DEF AgeInv
<1>3. TableCloses
  BY <1>1 DEF TableCloses, Pending
<1>4. Narrows
  <2>1. Active' = Active /\ Entries' = Entries
    BY <1>1 DEF Active, Entries, agentVars
  <2> QED
    BY <1>1, <2>1 DEF Narrows, agentVars, IInv, EntryInv
<1>b. RowInv' /\ BackupInv' /\ EntryInv' /\ LineInv'
  BY <1>t, <1>1, <1>3, <1>4, RowsStep DEF countVars
<1>c. SpentInv'
  <2>1. Untried'
    BY <1>1 DEF IInv, SpentInv, Untried, agentVars
  <2> QED
    BY <1>t, <1>1, <1>3, <1>4, <2>1, SpentStep DEF agentVars
<1>d. ReceiptInv'
  BY <1>1, Types, ReceiptStep DEF agentVars, IInv
<1>e. TruthInv'
  BY <1>1, TruthStep, <1>3 DEF agentVars, countVars
<1> QED
  BY <1>t, <1>a, <1>b, <1>c, <1>d, <1>e DEF IInv

\* The table with rows closed.
LEMMA MarkedRows ==
  ASSUME TypeOK, NEW rows, NEW state \in {"expired", "cancelled"},
         commands' = Marked(rows, state)
  PROVE  /\ commands' \in Seq(Rows) /\ TableCloses
         /\ \A i \in Positions : /\ commands'[i].result = commands[i].result
                                 /\ i \in rows => ~Pending(i)'
<1>1. Len(commands) \in Nat /\ \A i \in Positions : commands[i] \in Rows
  BY Types
<1>2. \A i \in Positions :
        IF i \in rows THEN commands'[i] = [commands[i] EXCEPT !.state = state]
                      ELSE commands'[i] = commands[i]
  BY DEF Marked
<1>3. ASSUME NEW i \in Positions
      PROVE  /\ commands'[i] \in Rows
             /\ commands'[i].request = commands[i].request
             /\ commands'[i].under = commands[i].under
             /\ commands'[i].result = commands[i].result
             /\ Pending(i)' => Pending(i)
             /\ i \in rows => ~Pending(i)'
  <2>1. commands[i] \in Rows
    BY <1>1, <1>3
  <2>2. CASE i \in rows
    <3>1. commands'[i] = [commands[i] EXCEPT !.state = state]
      BY <1>2, <2>2
    <3> QED
      BY <2>1, <3>1 DEF Rows, Pending
  <2>3. CASE i \notin rows
    BY <1>2, <2>1, <2>3 DEF Pending
  <2> QED
    BY <2>2, <2>3
<1>4. commands' \in [Positions -> Rows] /\ Len(commands') = Len(commands)
  <2>1. commands' = [i \in 1..Len(commands) |-> commands'[i]]
    BY DEF Marked, Positions
  <2> QED
    BY <1>1, <1>3, <2>1 DEF Positions
<1>5. commands' \in Seq(Rows)
  BY <1>1, <1>4 DEF Positions
<1> QED
  BY <1>3, <1>4, <1>5 DEF TableCloses

\* A step of the table alone: rows close, nothing is said anew.
LEMMA TableStep ==
  ASSUME IInv, commands' \in Seq(Rows), TableCloses, cred' \in Credentials \cup {0},
         UNCHANGED <<backup, requests, aged, agentCred, receipt, saved, pc, todo, command>>,
         UNCHANGED <<blocked, restores, faults>>, refused' \in BOOLEAN,
         late' \subseteq late, revokes' \in 0..MaxRevokes,
         \A i \in Positions : Pending(i)' => cred' = cred,
         \A i \in Positions : commands'[i].result = "blocked" =>
           commands[i].result = "blocked" \/ (restores = 0 => blocked[i] > 0)
  PROVE  IInv'
<1>t. TypeOK'
  BY DEF TypeOK, IInv, TableCloses
<1>a. AgeInv'
  BY DEF AgeInv, IInv
<1>4. Narrows
  <2>1. Active' = Active /\ Entries' = Entries
    BY DEF Active, Entries
  <2> QED
    BY <2>1 DEF Narrows, IInv, EntryInv
<1>b. RowInv' /\ BackupInv' /\ EntryInv' /\ LineInv'
  BY <1>t, <1>4, RowsStep
<1>c. SpentInv'
  <2>1. Untried'
    BY DEF IInv, SpentInv, Untried
  <2> QED
    BY <1>t, <1>4, <2>1, SpentStep
<1>d. ReceiptInv'
  BY Types, ReceiptStep DEF IInv
<1>e. TruthInv'
  BY TruthStep
<1> QED
  BY <1>t, <1>a, <1>b, <1>c, <1>d, <1>e DEF IInv

LEMMA ExpireInv == ASSUME IInv, Expire PROVE IInv'
<1> DEFINE old == {i \in Positions : Pending(i) /\ commands[i].request \in aged}
<1>1. /\ commands' = Marked(old, "expired")
      /\ UNCHANGED <<cred, backup, requests, aged, agentVars, blocked, late, countVars>>
  BY DEF Expire
<1> HIDE DEF old
<1>2. /\ commands' \in Seq(Rows) /\ TableCloses
      /\ \A i \in Positions : commands'[i].result = commands[i].result
  BY <1>1, MarkedRows DEF IInv
<1>3. cred' \in Credentials \cup {0} /\ revokes' \in 0..MaxRevokes /\ refused' \in BOOLEAN
  BY <1>1 DEF IInv, TypeOK, agentVars, countVars
<1> QED
  BY <1>1, <1>2, <1>3, TableStep DEF agentVars, countVars

LEMMA RevokeInv == ASSUME IInv, Revoke PROVE IInv'
<1> DEFINE open == {i \in Positions : Pending(i)}
<1>1. /\ commands' = Marked(open, "cancelled") /\ cred' = 0
      /\ revokes < MaxRevokes /\ revokes' = revokes + 1
      /\ UNCHANGED <<backup, requests, aged, agentVars, blocked, late, restores, faults>>
  BY DEF Revoke, Cancelled
<1>2. \A i \in Positions : Pending(i) => i \in open
  OBVIOUS
<1> HIDE DEF open
<1>3. /\ commands' \in Seq(Rows) /\ TableCloses
      /\ \A i \in Positions : /\ commands'[i].result = commands[i].result
                              /\ i \in open => ~Pending(i)'
  BY <1>1, MarkedRows DEF IInv
<1>4. \A i \in Positions : ~Pending(i)'
  BY <1>2, <1>3 DEF TableCloses
<1>5. revokes' \in 0..MaxRevokes /\ refused' \in BOOLEAN
  BY <1>1, BlockAssumption DEF IInv, TypeOK, agentVars
<1> QED
  BY <1>1, <1>3, <1>4, <1>5, TableStep DEF agentVars

LEMMA OutdateInv == ASSUME IInv, Outdate PROVE IInv'
<1>1. /\ refused' \in BOOLEAN
      /\ UNCHANGED <<serverVars, agentCred, receipt, saved, pc, todo, command, blocked, late,
                     countVars>>
  BY DEF Outdate
<1>2. TableCloses /\ commands' \in Seq(Rows)
  BY <1>1 DEF TableCloses, Pending, serverVars, IInv, TypeOK
<1>3. cred' \in Credentials \cup {0} /\ revokes' \in 0..MaxRevokes
  BY <1>1 DEF IInv, TypeOK, serverVars, countVars
<1> QED
  BY <1>1, <1>2, <1>3, TableStep DEF serverVars, countVars

\* What a receipt does to the table.
LEMMA Receives ==
  ASSUME TypeOK, NEW id \in Ids, NEW r \in Answers, Receive(id, r)
  PROVE  /\ commands' \in Seq(Rows) /\ TableCloses /\ (id \in Positions => ~Pending(id)')
         /\ \A i \in Positions : commands'[i].result = "blocked" =>
              commands[i].result = "blocked" \/ (i = id /\ r = "blocked")
<1>1. commands \in Seq(Rows)
  BY DEF TypeOK
<1>2. CASE ~Records(id)
  BY <1>1, <1>2 DEF Receive, Records, TableCloses, Pending
<1>3. CASE Records(id)
  <2> DEFINE row == [commands[id] EXCEPT !.state = "settled", !.result = r]
  <2>1. id \in Positions /\ commands[id] \in Rows
    BY <1>3, Types DEF Records
  <2>2. /\ row \in Rows /\ row.request = commands[id].request
        /\ row.under = commands[id].under /\ row.state = "settled" /\ row.result = r
    BY <2>1 DEF Rows, Receipts
  <2>3. commands' = [commands EXCEPT ![id] = row]
    BY <1>3 DEF Receive
  <2> HIDE DEF row
  <2>4. /\ commands' \in Seq(Rows) /\ Len(commands') = Len(commands)
        /\ \A i \in Positions : commands'[i] = IF i = id THEN row ELSE commands[i]
    BY <1>1, <2>1, <2>2, <2>3 DEF Positions
  <2> QED
    BY <2>1, <2>2, <2>4 DEF TableCloses, Pending
<1> QED
  BY <1>2, <1>3

LEMMA LateReceiptInv ==
  ASSUME IInv, NEW id \in Ids, NEW r \in Answers, LateReceipt(id, r) PROVE IInv'
<1>1. /\ <<id, r>> \in late /\ late' = late \ {<<id, r>>} /\ Receive(id, r)
      /\ UNCHANGED <<cred, backup, requests, aged, agentVars, blocked, countVars>>
  BY DEF LateReceipt
<1>2. /\ commands' \in Seq(Rows) /\ TableCloses
      /\ \A i \in Positions : commands'[i].result = "blocked" =>
           commands[i].result = "blocked" \/ (i = id /\ r = "blocked")
  BY <1>1, Receives DEF IInv
<1>3. restores = 0 /\ r = "blocked" => blocked[id] > 0
  <2>1. blocked[id] \in Nat
    BY DEF IInv, TypeOK
  <2> QED
    BY <1>1, <2>1 DEF IInv, TruthInv
<1>4. cred' \in Credentials \cup {0} /\ revokes' \in 0..MaxRevokes /\ refused' \in BOOLEAN
  BY <1>1 DEF IInv, TypeOK, agentVars, countVars
<1> QED
  BY <1>1, <1>2, <1>3, <1>4, TableStep DEF agentVars, countVars

LEMMA EnrollInv == ASSUME IInv, Enroll PROVE IInv'
<1>1. /\ cred = 0 /\ cred' = revokes + 1 /\ agentCred' = revokes + 1 /\ pc' = "asleep"
      /\ UNCHANGED <<commands, backup, requests, aged, refused, receipt, saved, todo,
                     command, blocked, late, countVars>>
  BY DEF Enroll
<1>t. TypeOK'
  <2>1. revokes + 1 \in Credentials /\ "asleep" \in Steps
    BY BlockAssumption DEF IInv, TypeOK, Credentials, Steps
  <2> QED
    BY <1>1, <2>1 DEF IInv, TypeOK, countVars
<1>a. AgeInv'
  BY <1>1 DEF AgeInv, IInv
<1>3. TableCloses /\ Narrows
  BY <1>1 DEF TableCloses, Pending, Narrows, Active, Handling
<1>b. RowInv' /\ BackupInv' /\ EntryInv' /\ LineInv'
  BY <1>t, <1>1, <1>3, RowsStep DEF countVars
<1>c. SpentInv'
  BY <1>t, <1>1, <1>3, SpentStep DEF Untried
<1>d. ReceiptInv'
  BY <1>1, Types, ReceiptStep DEF IInv, Handling
<1>e. TruthInv'
  <2>1. restores = 0 => \A i \in Positions : ~Pending(i)
    BY <1>1 DEF IInv, TruthInv
  <2> QED
    BY <1>1, <2>1 DEF IInv, TruthInv, countVars, Positions, Pending
<1> QED
  BY <1>t, <1>a, <1>b, <1>c, <1>d, <1>e DEF IInv

LEMMA BackupStepInv == ASSUME IInv, Backup PROVE IInv'
<1>1. /\ backup = NoBackup /\ cred # 0
      /\ backup' = [commands |-> commands, cred |-> cred]
      /\ UNCHANGED <<commands, cred, requests, aged, agentVars, blocked, late, countVars>>
  BY DEF Backup
<1>2. /\ TypeOK /\ RowInv /\ BackupInv /\ EntryInv /\ SpentInv
  BY DEF IInv
<1>3. /\ restores = 0 /\ Len(commands) = requests /\ requests \in Nat
      /\ \A i \in Positions : commands[i].request = i
  BY <1>1, <1>2, Types DEF BackupInv, RowInv
<1>4. /\ backup'.commands = commands /\ backup'.cred = cred /\ Older' = Len(commands)
      /\ backup' # NoBackup
  BY <1>1 DEF Older, NoBackup
<1>5. /\ Entries' = Entries /\ Active' = Active /\ Positions' = Positions
      /\ \A i \in Positions : Listed(i)' = Listed(i)
  BY <1>1 DEF agentVars, Entries, Active, Listed, Pending, Positions
<1>t. TypeOK'
  BY <1>1, <1>2, <1>4 DEF TypeOK, agentVars, countVars
<1>a. AgeInv' /\ RowInv'
  BY <1>1, <1>5 DEF AgeInv, RowInv, IInv, countVars
<1>b. BackupInv'
  <2>1. \A i \in 1..Len(commands) : i \in Positions
    BY DEF Positions
  <2> QED
    BY <1>1, <1>3, <1>4, <2>1 DEF BackupInv
<1>c. ReceiptInv'
  BY <1>1, <1>3, ReceiptStep DEF agentVars
<1>d. EntryInv'
  <2>1. ASSUME Active, NEW c \in Entries PROVE EntryOK(c)'
    <3>1. EntryOK(c) /\ c.request \in 1..requests
      BY <2>1, EntryTypes
    <3>2. c.request \in Positions
      BY <1>3, <3>1 DEF Positions
    <3>3. c.id = c.request
      BY <1>3, <3>1, <3>2 DEF EntryOK
    <3> QED
      BY <1>1, <1>5, <3>1, <3>3 DEF EntryOK, agentVars, countVars
  <2> QED
    BY <1>1, <1>2, <1>5, <2>1 DEF EntryInv, agentVars
<1>e. LineInv'
  <2>1. \A i \in Positions : ~(i > Older')
    BY <1>3, <1>4 DEF Positions
  <2> QED
    BY <1>5, <2>1 DEF LineInv
<1>f. SpentInv'
  <2>1. \A i \in Positions : ~(i > Older')
    BY <1>3, <1>4 DEF Positions
  <2>2. \A i \in Positions' : Listed(i)' /\ blocked'[commands'[i].request] > 0 =>
          saved'[i] # "none" /\ ~(i > Older')
    BY <1>1, <1>2, <1>5, <2>1 DEF SpentInv, agentVars
  <2>3. \A i \in 1..Older' :
          backup'.commands[i].state = "pending" /\ i \notin aged' /\ blocked'[i] > 0
          => saved'[i] # "none"
    BY <1>1, <1>2, <1>3, <1>4 DEF SpentInv, agentVars, Positions, Listed, Pending
  <2> QED
    BY <1>1, <1>2, <1>5, <2>2, <2>3 DEF SpentInv, Untried, agentVars
<1>g. TruthInv'
  BY <1>1, <1>5 DEF TruthInv, IInv, agentVars, countVars, Pending
<1> QED
  BY <1>t, <1>a, <1>b, <1>c, <1>d, <1>e, <1>f, <1>g DEF IInv

LEMMA RestoreInv == ASSUME IInv, Restore PROVE IInv'
<1>1. /\ backup # NoBackup /\ restores < MaxRestores /\ restores' = restores + 1
      /\ commands' = backup.commands /\ cred' = backup.cred
      /\ UNCHANGED <<backup, requests, aged, agentVars, blocked, late, revokes, faults>>
  BY DEF Restore
<1>2. /\ TypeOK /\ RowInv /\ BackupInv /\ EntryInv /\ SpentInv
  BY DEF IInv
<1>3. /\ restores' \in 0..MaxRestores /\ restores' # 0
  BY <1>1, <1>2, BlockAssumption DEF TypeOK
<1>4. /\ Older' = Older /\ Older \in Nat /\ Positions' = 1..Older /\ Len(commands') = Older
      /\ requests \in Nat /\ Older <= requests
      /\ \A i \in 1..Older : commands'[i].request = i /\ commands'[i] = backup.commands[i]
  BY <1>1, <1>2, Types DEF Older, Positions, BackupInv, TypeOK
<1>5. Entries' = Entries /\ Active' = Active
  BY <1>1 DEF agentVars, Entries, Active
<1>t. TypeOK'
  BY <1>1, <1>2, <1>3 DEF TypeOK, agentVars
<1>a. AgeInv' /\ RowInv' /\ BackupInv'
  <2>1. AgeInv'
    BY <1>1 DEF AgeInv, IInv
  <2>2. RowInv'
    BY <1>1, <1>3, <1>4 DEF RowInv
  <2>3. BackupInv'
    BY <1>1, <1>2, <1>3, <1>4 DEF BackupInv
  <2> QED
    BY <2>1, <2>2, <2>3
<1>c. ReceiptInv'
  BY <1>1, <1>4, ReceiptStep DEF agentVars
<1>d. EntryInv'
  <2>1. ASSUME Active, NEW c \in Entries PROVE EntryOK(c)'
    <3>1. EntryOK(c)
      BY <2>1, EntryTypes
    <3>2. \A i \in Positions' : commands'[i].request = c.request => i = c.id
      BY <1>4, <3>1 DEF EntryOK
    <3> QED
      BY <1>1, <1>3, <1>4, <3>1, <3>2 DEF EntryOK
  <2> QED
    BY <1>1, <1>2, <1>5, <2>1 DEF EntryInv, agentVars
<1>6. \A i \in Positions' : ~(i > Older')
  BY <1>4
<1>e. LineInv'
  BY <1>6 DEF LineInv
<1>f. SpentInv'
  <2>1. \A i \in Positions' : Listed(i)' /\ blocked'[commands'[i].request] > 0 =>
          saved'[i] # "none" /\ ~(i > Older')
    BY <1>1, <1>2, <1>4, <1>6 DEF SpentInv, agentVars, Listed, Pending
  <2> QED
    BY <1>1, <1>2, <1>4, <1>5, <2>1 DEF SpentInv, Untried, agentVars
<1>g. TruthInv'
  BY <1>3 DEF TruthInv
<1> QED
  BY <1>t, <1>a, <1>c, <1>d, <1>e, <1>f, <1>g DEF IInv

-----------------------------------------------------------------------------
(* The agent's steps.                                                      *)

\* The types of what an agent's step changes besides the table.
LEMMA AgentTypes ==
  ASSUME TypeOK, commands' \in Seq(Rows), Len(commands') = Len(commands),
         receipt' \in [Ids -> Receipts], saved' \in [Ids -> Receipts],
         pc' \in Steps, refused' \in BOOLEAN, todo' \in SUBSET Listings, command' \in Listings \cup {NoCommand},
         blocked' \in [Ids -> Nat], late' \in SUBSET (Ids \X Answers),
         faults' \in 0..MaxFaults,
         UNCHANGED <<cred, backup, requests, aged, agentCred, refused, revokes, restores>>
  PROVE  TypeOK'
<1> QED
  BY DEF TypeOK

\* A crash or a lost request leaves the count of them within its bound.
LEMMA Faults == ASSUME TypeOK, Fault PROVE faults' \in 0..MaxFaults
<1> QED
  BY BlockAssumption DEF TypeOK, Fault

LEMMA LoadInv == ASSUME IInv, Load PROVE IInv'
<1>1. /\ pc = "asleep" /\ receipt' = saved /\ todo' = {} /\ command' = NoCommand
      /\ pc' = "events"
      /\ UNCHANGED <<serverVars, agentCred, refused, saved, blocked, late, countVars>>
  BY DEF Load
<1>t. TypeOK'
  <2>1. "events" \in Steps
    BY DEF Steps
  <2> QED
    BY <1>1, <2>1 DEF IInv, TypeOK, serverVars, countVars
<1>a. AgeInv'
  BY <1>1 DEF AgeInv, IInv, serverVars
<1>3. TableCloses /\ Narrows
  BY <1>1 DEF TableCloses, Pending, Narrows, Active, Handling, serverVars
<1>b. RowInv' /\ BackupInv' /\ EntryInv' /\ LineInv'
  BY <1>t, <1>1, <1>3, RowsStep DEF countVars, serverVars
<1>c. SpentInv'
  BY <1>t, <1>1, <1>3, SpentStep DEF Untried, serverVars
<1>d. ReceiptInv'
  BY <1>1 DEF IInv, ReceiptInv, Handling, serverVars
<1>e. TruthInv'
  BY <1>1 DEF IInv, TruthInv, serverVars, countVars, Positions, Pending
<1> QED
  BY <1>t, <1>a, <1>b, <1>c, <1>d, <1>e DEF IInv

LEMMA SendEventsInv == ASSUME IInv, SendEvents PROVE IInv'
<1>1. /\ pc = "events" /\ pc' \in {"list", "asleep"} /\ (UNCHANGED faults \/ Fault)
      /\ UNCHANGED <<serverVars, agentCred, refused, receipt, saved, todo, command, blocked,
                     late, revokes, restores>>
  BY DEF SendEvents
<1>t. TypeOK'
  <2>1. pc' \in Steps /\ faults' \in 0..MaxFaults
    BY <1>1, Faults DEF Steps, IInv, TypeOK
  <2> QED
    BY <1>1, <2>1 DEF IInv, TypeOK, serverVars
<1>a. AgeInv'
  BY <1>1 DEF AgeInv, IInv, serverVars
<1>3. TableCloses /\ Narrows
  BY <1>1 DEF TableCloses, Pending, Narrows, Active, Handling, serverVars
<1>b. RowInv' /\ BackupInv' /\ EntryInv' /\ LineInv'
  BY <1>t, <1>1, <1>3, RowsStep DEF serverVars
<1>c. SpentInv'
  BY <1>t, <1>1, <1>3, SpentStep DEF Untried, serverVars
<1>d. ReceiptInv'
  BY <1>1, Types, ReceiptStep DEF serverVars, IInv, Handling
<1>e. TruthInv'
  BY <1>1 DEF IInv, TruthInv, serverVars, Positions, Pending
<1> QED
  BY <1>t, <1>a, <1>b, <1>c, <1>d, <1>e DEF IInv

\* What the listing holds: rows of the table, with every row listed before one of them,
\* and the first of all if there is one.
LEMMA Listing ==
  ASSUME TypeOK,
         NEW listed, listed = {i \in Positions : Listed(i)},
         NEW first, first = {i \in listed : Cardinality({k \in listed : k < i}) < ListLimit}
  PROVE  /\ first \subseteq listed
         /\ \A i \in first : \A j \in 1..(i - 1) : Listed(j) => j \in first
         /\ \A i \in listed : (\A j \in 1..(i - 1) : ~Listed(j)) => i \in first
<1> DEFINE Before(i) == {k \in listed : k < i}
<1>1. /\ Len(commands) \in Nat /\ listed \subseteq 1..Len(commands)
      /\ ListLimit \in Nat \ {0}
  BY Types, BlockAssumption DEF Positions
<1>2. \A i : IsFiniteSet(Before(i)) /\ Cardinality(Before(i)) \in Nat
  <2>1. IsFiniteSet(1..Len(commands))
    BY <1>1, FS_Interval
  <2>2. IsFiniteSet(listed)
    BY <1>1, <2>1, FS_Subset
  <2>3. \A i : Before(i) \subseteq listed
    OBVIOUS
  <2> HIDE DEF Before
  <2>4. \A i : IsFiniteSet(Before(i))
    BY <2>2, <2>3, FS_Subset
  <2> QED
    BY <2>4, FS_CardinalityType
<1>5. \A i : i \in first <=> i \in listed /\ Cardinality(Before(i)) < ListLimit
  OBVIOUS
<1>3. ASSUME NEW i \in first, NEW j \in 1..(i - 1), Listed(j) PROVE j \in first
  <2>1. i \in listed /\ j \in listed /\ j < i
    BY <1>1, <1>3 DEF Positions
  <2>2. Before(j) \subseteq Before(i)
    BY <1>1, <2>1
  <2> HIDE DEF Before
  <2>3. Cardinality(Before(j)) <= Cardinality(Before(i))
    BY <1>2, <2>2, FS_Subset
  <2>4. Cardinality(Before(i)) < ListLimit
    BY <1>3, <1>5
  <2> QED
    BY <1>1, <1>2, <1>5, <2>1, <2>3, <2>4
<1>4. ASSUME NEW i \in listed, \A j \in 1..(i - 1) : ~Listed(j) PROVE i \in first
  <2>1. Before(i) = {}
    <3> SUFFICES ASSUME NEW k \in listed, k < i PROVE FALSE
      OBVIOUS
    <3>1. k \in 1..(i - 1) /\ Listed(k)
      BY <1>1
    <3> QED
      BY <1>4, <3>1
  <2>2. Cardinality(Before(i)) = 0
    BY <2>1, FS_EmptySet
  <2> QED
    BY <1>1, <2>2
<1> QED
  BY <1>3, <1>4

LEMMA ListInv == ASSUME IInv, List PROVE IInv'
<1> DEFINE listed == {i \in Positions : Listed(i)}
           first == {i \in listed : Cardinality({k \in listed : k < i}) < ListLimit}
           Entry(i) == [id |-> i, request |-> commands[i].request,
                        alert |-> commands[i].alert, under |-> commands[i].under]
<1>1. /\ pc = "list"
      /\ UNCHANGED <<serverVars, agentCred, refused, receipt, saved, command, blocked,
                     late, revokes, restores>>
  BY DEF List
<1>2. \/ Served /\ todo' = {Entry(i) : i \in first} /\ pc' = "next" /\ UNCHANGED faults
      \/ pc' = "asleep" /\ UNCHANGED todo /\ (UNCHANGED faults \/ Fault)
  BY DEF List
<1>3. /\ first \subseteq listed
      /\ \A i \in first : \A j \in 1..(i - 1) : Listed(j) => j \in first
      /\ \A i \in listed : (\A j \in 1..(i - 1) : ~Listed(j)) => i \in first
  BY Listing DEF IInv
<1>4. ASSUME NEW i \in Positions
      PROVE  /\ Entry(i) \in Listings /\ Entry(i).id = i
             /\ Entry(i).request = commands[i].request /\ Entry(i).under = commands[i].under
  BY Types DEF IInv, Rows, Listings
<1>5. \A i \in first : i \in Positions /\ Listed(i)
  BY <1>3
<1> HIDE DEF first, listed, Entry
<1>6. /\ \A i \in first : Entry(i) \in Listings
      /\ todo' \subseteq Listings /\ faults' \in 0..MaxFaults /\ pc' \in Steps
  BY <1>2, <1>4, <1>5, Faults DEF IInv, TypeOK, Steps
<1>t. TypeOK'
  BY <1>1, <1>6 DEF IInv, TypeOK, serverVars
<1>7. /\ Positions' = Positions /\ Older' = Older
      /\ \A i \in Positions : Listed(i)' = Listed(i)
  BY <1>1 DEF serverVars, Positions, Older, Listed, Pending
<1>a. AgeInv' /\ RowInv' /\ BackupInv'
  BY <1>1, <1>7 DEF AgeInv, RowInv, BackupInv, IInv, serverVars
<1>b. ReceiptInv'
  BY <1>1, <1>2, Types, ReceiptStep DEF serverVars, IInv, Handling
<1>c. TruthInv'
  BY <1>1, <1>7 DEF IInv, TruthInv, serverVars, Pending
<1>8. CASE pc' = "asleep"
  <2>1. EntryInv' /\ LineInv'
    BY <1>8 DEF EntryInv, LineInv, Active, Handling
  <2>2. SpentInv'
    <3>1. ~Active' /\ Untried'
      BY <1>8 DEF Active, Handling, Untried
    <3>2. \A i \in Positions : \A j \in 1..(i - 1) : j \in Positions
      BY Types DEF IInv, Positions
    <3> QED
      BY <1>1, <1>7, <3>1, <3>2 DEF IInv, SpentInv, serverVars
  <2> QED
    BY <1>t, <1>a, <1>b, <1>c, <2>1, <2>2 DEF IInv
<1>9. CASE Served /\ todo' = {Entry(i) : i \in first} /\ pc' = "next"
  <2>1. Entries' = {Entry(i) : i \in first} /\ pc' \notin Handling
    BY <1>9 DEF Entries, Handling
  <2>2. /\ RowInv /\ BackupInv /\ SpentInv /\ TruthInv /\ cred # 0 /\ agentCred = cred
        /\ Len(commands) \in Nat /\ Older \in Nat /\ requests \in Nat
        /\ Len(commands) <= requests
    BY <1>9, Types DEF IInv, Served, TypeOK
  <2>3. ASSUME NEW i \in first, NEW c, c = Entry(i) PROVE EntryOK(c)'
    <3>1. /\ i \in Positions /\ Listed(i) /\ Entry(i) \in Listings /\ Entry(i).id = i
          /\ Entry(i).request = commands[i].request /\ Entry(i).under = commands[i].under
      BY <1>4, <1>5, <2>3
    <3>2. i <= requests /\ commands[i].request <= requests /\ commands[i].request \in Ids
      BY <2>2, <3>1, Types DEF RowInv, Positions, IInv
    <3>3. \A j \in Positions : commands[j].request = commands[i].request => j = i
      <4>1. \A j \in Positions : commands[j].request \in Ids
        BY Types DEF IInv
      <4> QED
        BY <2>2, <3>1, <4>1 DEF RowInv, Ids, Positions
    <3>4. commands[i].request <= Older => i = commands[i].request
      <4> SUFFICES ASSUME commands[i].request <= Older PROVE i = commands[i].request
        OBVIOUS
      <4>1. commands[i].request \in Positions /\ commands[i].request \in 1..Older
        BY <2>2, <3>2 DEF BackupInv, Positions, Ids
      <4> QED
        BY <2>2, <3>3, <4>1 DEF BackupInv
    <3>5. restores = 0 => commands[i].under = agentCred
      BY <2>2, <3>1 DEF TruthInv, Listed
    <3>6. /\ c \in Listings /\ c.id = i /\ c.request = commands[i].request
          /\ c.under = commands[i].under
      BY <2>3, <3>1
    <3> QED
      BY <1>1, <1>7, <3>2, <3>3, <3>4, <3>5, <3>6 DEF EntryOK, serverVars
  <2>4. EntryInv'
    <3>1. \A c \in Entries' : EntryOK(c)'
      BY <2>1, <2>3
    <3>2. \A i, j \in first : Entry(i).request = Entry(j).request => Entry(i).id = Entry(j).id
      <4>1. \A i \in first : i \in Positions /\ Entry(i).request = commands[i].request
        BY <1>4, <1>5
      <4>2. \A i \in Positions : commands[i].request \in Ids /\ i \in Ids
        BY Types DEF IInv
      <4>3. \A i, j \in Positions : commands[i].request = commands[j].request => i = j
        BY <2>2, <4>2 DEF RowInv, Ids
      <4> QED
        BY <4>1, <4>3
    <3> QED
      BY <2>1, <3>1, <3>2 DEF EntryInv
  <2>5. LineInv'
    <3> SUFFICES ASSUME NEW i \in first, NEW j \in 1..(Entry(i).id - 1), Listed(j)'
                 PROVE  \E d \in Entries' : d.id = j
      BY <2>1 DEF LineInv
    <3>1. i \in Positions /\ Entry(i).id = i
      BY <1>4, <1>5
    <3>2. j \in Positions
      BY <2>2, <3>1 DEF Positions
    <3>3. j \in first
      BY <1>3, <1>7, <3>1, <3>2
    <3>4. Entry(j).id = j
      BY <1>4, <3>2
    <3> QED
      BY <2>1, <3>3, <3>4
  <2>6. SpentInv'
    <3>1. ASSUME NEW i \in Positions, Listed(i), blocked[commands[i].request] > 0
          PROVE  /\ saved[i] # "none"
                 /\ i > Older => /\ \A j \in 1..(i - 1) : ~Listed(j)
                                 /\ \E c \in Entries' : c.id = i
      <4>1. /\ saved[i] # "none"
            /\ i > Older => \A j \in 1..(i - 1) : ~Listed(j)
        BY <2>2, <3>1 DEF SpentInv
      <4>2. i \in listed
        BY <3>1 DEF listed
      <4>3. ASSUME i > Older PROVE \E c \in Entries' : c.id = i
        <5>1. i \in first
          BY <1>3, <4>1, <4>2, <4>3
        <5> QED
          BY <1>4, <2>1, <3>1, <5>1
      <4> QED
        BY <4>1, <4>3
    <3>2. \A i \in Positions : \A j \in 1..(i - 1) : j \in Positions
      BY <2>2 DEF Positions
    <3>3. \A i \in Positions' : Listed(i)' /\ blocked'[commands'[i].request] > 0 =>
            /\ saved'[i] # "none"
            /\ i > Older' => /\ \A j \in 1..(i - 1) : ~Listed(j)'
                             /\ Active' => \E c \in Entries' : c.id = i
      BY <1>1, <1>7, <3>1, <3>2 DEF serverVars
    <3>4. \A c \in todo' : c.request \notin aged' /\ blocked'[c.request] > 0 => saved'[c.id] # "none"
      <4> SUFFICES ASSUME NEW i \in first, blocked[Entry(i).request] > 0
                   PROVE  saved[Entry(i).id] # "none"
        BY <1>1, <1>9
      <4> QED
        BY <1>4, <1>5, <3>1
    <3> QED
      BY <1>1, <1>7, <1>9, <2>2, <3>3, <3>4 DEF SpentInv, Untried, serverVars
  <2> QED
    BY <1>t, <1>a, <1>b, <1>c, <2>4, <2>5, <2>6 DEF IInv
<1> QED
  BY <1>2, <1>8, <1>9

\* A step within a pass that leaves the table and its times alone.
LEMMA PassStep ==
  ASSUME IInv, TypeOK', Narrows, UNCHANGED <<serverVars, restores>>
  PROVE  TableCloses /\ AgeInv' /\ RowInv' /\ BackupInv' /\ EntryInv' /\ LineInv'
<1>1. TableCloses
  BY DEF TableCloses, Pending, serverVars
<1>2. AgeInv'
  BY DEF AgeInv, IInv, serverVars
<1> QED
  BY <1>1, <1>2, RowsStep DEF serverVars

LEMMA TakeInv == ASSUME IInv, NEW c \in todo, Take(c) PROVE IInv'
<1>1. /\ pc = "next" /\ \A d \in todo : c.id <= d.id
      /\ todo' = todo \ {c} /\ command' = c
      /\ \/ receipt[c.id] = "none" /\ receipt' = [receipt EXCEPT ![c.id] = "error"]
            /\ pc' = "marked"
         \/ receipt[c.id] # "none" /\ pc' = "post" /\ UNCHANGED receipt
      /\ UNCHANGED <<serverVars, agentCred, refused, saved, blocked, late, countVars>>
  BY DEF Take, Mark, Known
<1>2. Active /\ Entries = todo /\ Active' /\ pc' \in Handling /\ Entries' = todo
  BY <1>1 DEF Active, Handling, Entries
<1>3. /\ EntryOK(c) /\ c \in Listings /\ c.id \in Ids /\ c.request \in Ids
      /\ c.id \in 1..requests
  BY <1>2, EntryTypes
<1>4. /\ receipt' \in [Ids -> Receipts] /\ receipt'[c.id] # "none"
      /\ \A i \in Ids : receipt'[i] = receipt[i] \/ (i = c.id /\ receipt'[i] = "error")
  BY <1>1, <1>3 DEF IInv, TypeOK, Receipts, Answers
<1>t. TypeOK'
  <2>1. pc' \in Steps
    BY <1>1 DEF Steps
  <2> QED
    BY <1>1, <1>3, <1>4, <2>1 DEF IInv, TypeOK, serverVars, countVars
<1>5. Narrows
  BY <1>1, <1>2 DEF Narrows
<1>a. TableCloses /\ AgeInv' /\ RowInv' /\ BackupInv' /\ EntryInv' /\ LineInv'
  BY <1>t, <1>1, <1>5, PassStep DEF countVars
<1>b. ReceiptInv'
  <2>1. \A i \in Ids : receipt[i] # "none" => i <= requests /\ receipt'[i] # "none"
    BY <1>4 DEF IInv, ReceiptInv
  <2>2. \A i \in Ids : receipt'[i] # "none" => i <= requests
    BY <1>3, <1>4, <2>1
  <2>3. \A i \in Ids : saved[i] # "none" => i <= requests /\ receipt[i] # "none"
    BY <1>1 DEF IInv, ReceiptInv
  <2> QED
    BY <1>1, <1>4, <2>1, <2>2, <2>3 DEF ReceiptInv, serverVars
<1>c. SpentInv'
  <2>1. pc' \in {"marked", "execute"} => c.request \in aged \/ blocked[c.request] = 0
    <3> SUFFICES ASSUME receipt[c.id] = "none", c.request \notin aged
                 PROVE  blocked[c.request] = 0
      BY <1>1
    <3>1. saved[c.id] = "none"
      BY <1>1, <1>3 DEF IInv, ReceiptInv
    <3>2. ~(blocked[c.request] > 0) /\ blocked[c.request] \in Nat
      BY <1>2, <1>3, <3>1 DEF IInv, SpentInv, TypeOK
    <3> QED
      BY <3>2
  <2> QED
    BY <1>t, <1>1, <1>5, <1>a, <2>1, SpentStep DEF Untried, serverVars
<1>d. TruthInv'
  BY <1>1, <1>4 DEF IInv, TruthInv, serverVars, countVars, Positions, Pending
<1> QED
  BY <1>t, <1>a, <1>b, <1>c, <1>d DEF IInv

\* The command in hand.
LEMMA InHand ==
  ASSUME IInv, pc \in Handling
  PROVE  /\ Active /\ command \in Entries /\ EntryOK(command)
         /\ command \in Listings /\ command.id \in 1..requests
         /\ command.id \in Ids /\ command.request \in Ids
         /\ restores = 0 => command.id = command.request
         /\ \A c \in todo : command.id <= c.id
<1>1. Active /\ command \in Entries
  BY DEF Active, Entries
<1>2. /\ EntryOK(command) /\ command \in Listings /\ command.id \in 1..requests
      /\ command.id \in Ids /\ command.request \in 1..requests /\ command.request \in Ids
  BY <1>1, EntryTypes
<1>3. ASSUME restores = 0 PROVE command.id = command.request
  <2>1. command.request \in Positions /\ commands[command.request].request = command.request
    BY <1>2, <1>3 DEF IInv, RowInv, Positions
  <2> QED
    BY <1>2, <2>1 DEF EntryOK
<1> QED
  BY <1>1, <1>2, <1>3 DEF IInv, EntryInv

\* A step from one point of a command to the next; which receipts are where is left open.
LEMMA OnwardStep ==
  ASSUME IInv, TypeOK', pc \in Handling, pc' \in Handling,
         UNCHANGED <<serverVars, agentCred, todo, command, restores>>
  PROVE  Narrows /\ TableCloses /\ AgeInv' /\ RowInv' /\ BackupInv' /\ EntryInv' /\ LineInv'
<1>1. Narrows
  <2>1. Active' /\ Entries' = Entries
    BY DEF Active, Entries
  <2> QED
    BY <2>1, InHand DEF Narrows
<1> QED
  BY <1>1, PassStep

LEMMA SaveMarkInv == ASSUME IInv, SaveMark PROVE IInv'
<1>1. /\ pc = "marked" /\ saved' = receipt /\ pc' = "execute"
      /\ UNCHANGED <<serverVars, agentCred, refused, receipt, todo, command, blocked, late,
                     countVars>>
  BY DEF SaveMark, CommitMark, SaveState
<1>t. TypeOK'
  <2>1. pc' \in Steps
    BY <1>1 DEF Steps
  <2> QED
    BY <1>1, <2>1 DEF IInv, TypeOK, serverVars, countVars
<1>a. Narrows /\ TableCloses /\ AgeInv' /\ RowInv' /\ BackupInv' /\ EntryInv' /\ LineInv'
  BY <1>t, <1>1, OnwardStep DEF Handling, countVars
<1>2. \A i \in Ids : saved[i] # "none" => saved'[i] # "none"
  BY <1>1 DEF IInv, ReceiptInv
<1>b. ReceiptInv'
  BY <1>1 DEF IInv, ReceiptInv, serverVars, Handling
<1>c. SpentInv'
  <2>1. Untried'
    BY <1>1 DEF IInv, SpentInv, Untried, serverVars
  <2> QED
    BY <1>t, <1>1, <1>2, <1>a, <2>1, SpentStep DEF serverVars
<1>d. TruthInv'
  BY <1>1 DEF IInv, TruthInv, serverVars, countVars, Positions, Pending
<1> QED
  BY <1>t, <1>a, <1>b, <1>c, <1>d DEF IInv

LEMMA SaveResultInv == ASSUME IInv, SaveResult PROVE IInv'
<1>1. /\ pc = "executed" /\ saved' = receipt /\ pc' = "post"
      /\ UNCHANGED <<serverVars, agentCred, refused, receipt, todo, command, blocked, late,
                     countVars>>
  BY DEF SaveResult, SaveState
<1>t. TypeOK'
  <2>1. pc' \in Steps
    BY <1>1 DEF Steps
  <2> QED
    BY <1>1, <2>1 DEF IInv, TypeOK, serverVars, countVars
<1>a. Narrows /\ TableCloses /\ AgeInv' /\ RowInv' /\ BackupInv' /\ EntryInv' /\ LineInv'
  BY <1>t, <1>1, OnwardStep DEF Handling, countVars
<1>2. \A i \in Ids : saved[i] # "none" => saved'[i] # "none"
  BY <1>1 DEF IInv, ReceiptInv
<1>b. ReceiptInv'
  BY <1>1 DEF IInv, ReceiptInv, serverVars, Handling
<1>c. SpentInv'
  BY <1>t, <1>1, <1>2, <1>a, SpentStep DEF Untried, serverVars
<1>d. TruthInv'
  BY <1>1 DEF IInv, TruthInv, serverVars, countVars, Positions, Pending
<1> QED
  BY <1>t, <1>a, <1>b, <1>c, <1>d DEF IInv

\* An insertion is the first for its request, and its command has a saved receipt and is
\* the first that could be listed.
LEMMA InsertStep ==
  ASSUME IInv, pc = "acting", Insert,
         UNCHANGED <<serverVars, agentCred, saved, todo, command>>,
         pc' \in {"executed", "asleep"}
  PROVE  /\ SpentInv' /\ blocked' \in [Ids -> Nat] /\ blocked'[command.request] > 0
         /\ \A r \in Ids : blocked'[r] = 0 => blocked[r] = 0
<1> DEFINE R == command.request
<1>1. /\ Active /\ command \in Entries /\ EntryOK(command)
      /\ command \in Listings /\ command.id \in 1..requests
      /\ command.id \in Ids /\ R \in Ids
      /\ \A c \in todo : command.id <= c.id
  BY InHand DEF Handling
<1>2. blocked[R] = 0 /\ saved[command.id] # "none"
  BY DEF IInv, SpentInv, Untried, ReceiptInv
<1>3. /\ blocked' \in [Ids -> Nat] /\ blocked'[R] = 1
      /\ \A r \in Ids : r # R => blocked'[r] = blocked[r]
  BY <1>1, <1>2 DEF Insert, IInv, TypeOK
<1> HIDE DEF R
<1>4. /\ Positions' = Positions /\ Older' = Older /\ Positions \subseteq Ids
      /\ \A i \in Positions : Listed(i)' = Listed(i) /\ commands[i].request \in Ids
      /\ Active' => Entries' = Entries
  BY Types DEF serverVars, Positions, Older, Listed, Pending, Active, Entries, Handling, IInv
<1>5. \A r \in Ids : blocked'[r] <= 1 /\ (blocked'[r] > 0 => r <= requests')
  <2>1. R <= requests
    BY <1>1 DEF EntryOK, R
  <2> QED
    BY <1>3, <2>1 DEF IInv, SpentInv, serverVars
<1>6. ASSUME NEW i \in Positions, Listed(i), blocked'[commands[i].request] > 0
      PROVE  /\ saved[i] # "none"
             /\ i > Older => /\ \A j \in 1..(i - 1) : ~Listed(j)
                             /\ Active' => \E c \in Entries' : c.id = i
  <2>1. CASE commands[i].request # R
    <3>1. blocked[commands[i].request] > 0
      BY <1>3, <1>4, <1>6, <2>1
    <3> QED
      BY <1>4, <1>1, <1>6, <3>1 DEF IInv, SpentInv
  <2>2. CASE commands[i].request = R
    <3>1. i = command.id
      BY <1>1, <1>6, <2>2 DEF EntryOK, R
    <3>2. ASSUME i > Older, NEW j \in 1..(i - 1), Listed(j) PROVE FALSE
      <4>1. PICK d \in Entries : d.id = j
        BY <1>1, <1>6, <2>2, <3>1, <3>2 DEF IInv, LineInv, R
      <4>2. d \in todo \/ d = command
        BY <4>1 DEF Entries
      <4> QED
        BY <1>1, <3>1, <4>1, <4>2
    <3> QED
      BY <1>1, <1>2, <1>4, <3>1, <3>2
  <2> QED
    BY <2>1, <2>2
<1>7. ASSUME NEW i \in 1..Older, backup.commands[i].state = "pending", i \notin aged,
             blocked'[i] > 0
      PROVE  saved[i] # "none"
  <2>1. i \in Ids
    BY <1>4, Types DEF IInv, BackupInv, Positions
  <2>2. CASE i = R
    <3>1. command.id = i
      BY <1>1, <2>2, Types DEF EntryOK, IInv, R
    <3> QED
      BY <1>2, <3>1
  <2>3. CASE i # R
    BY <1>3, <1>7, <2>1, <2>3 DEF IInv, SpentInv
  <2> QED
    BY <2>2, <2>3
<1>8. ASSUME NEW c \in todo, c.request \notin aged, blocked'[c.request] > 0
      PROVE  saved[c.id] # "none"
  <2>1. c \in Entries /\ c.request \in Ids
    BY <1>1, EntryTypes DEF Entries
  <2>2. CASE c.request = R
    <3>1. c.id = command.id
      BY <1>1, <2>1, <2>2 DEF IInv, EntryInv, R
    <3> QED
      BY <1>2, <3>1
  <2>3. CASE c.request # R
    BY <1>1, <1>3, <1>8, <2>1, <2>3 DEF IInv, SpentInv
  <2> QED
    BY <2>2, <2>3
<1>9. \A i \in Positions : \A j \in 1..(i - 1) : j \in Positions
  BY Types DEF IInv, Positions
<1>10. SpentInv'
  <2>1. \A i \in Positions' : Listed(i)' /\ blocked'[commands'[i].request] > 0 =>
          /\ saved'[i] # "none"
          /\ i > Older' => /\ \A j \in 1..(i - 1) : ~Listed(j)'
                           /\ Active' => \E c \in Entries' : c.id = i
    BY <1>4, <1>6, <1>9 DEF serverVars
  <2>2. \A i \in 1..Older' :
          backup'.commands[i].state = "pending" /\ i \notin aged' /\ blocked'[i] > 0
          => saved'[i] # "none"
    BY <1>4, <1>7 DEF serverVars
  <2>3. \A c \in todo' : c.request \notin aged' /\ blocked'[c.request] > 0 => saved'[c.id] # "none"
    BY <1>8 DEF serverVars
  <2> QED
    BY <1>5, <2>1, <2>2, <2>3 DEF SpentInv, Untried
<1> QED
  BY <1>3, <1>10, <1>2 DEF R

LEMMA DispatchInv == ASSUME IInv, Dispatch PROVE IInv'
<1>1. /\ pc = "execute"
      /\ UNCHANGED <<serverVars, agentCred, refused, saved, todo, command, blocked, late,
                     countVars>>
      /\ \/ receipt' = [receipt EXCEPT ![command.id] = "denied"] /\ pc' = "executed"
         \/ MayBlock /\ pc' = "acting" /\ UNCHANGED receipt
  BY DEF Dispatch
<1>2. command.id \in Ids /\ command.id \in 1..requests
  BY <1>1, InHand DEF Handling
<1>3. /\ receipt' \in [Ids -> Receipts]
      /\ \A i \in Ids : receipt'[i] = receipt[i] \/ (i = command.id /\ receipt'[i] = "denied")
  BY <1>1, <1>2 DEF IInv, TypeOK, Receipts, Answers
<1>t. TypeOK'
  <2>1. pc' \in Steps
    BY <1>1 DEF Steps
  <2> QED
    BY <1>1, <1>3, <2>1 DEF IInv, TypeOK, serverVars, countVars
<1>a. Narrows /\ TableCloses /\ AgeInv' /\ RowInv' /\ BackupInv' /\ EntryInv' /\ LineInv'
  BY <1>t, <1>1, OnwardStep DEF Handling, countVars
<1>b. ReceiptInv'
  <2>1. \A i \in Ids : /\ receipt'[i] # "none" => i <= requests
                       /\ receipt[i] # "none" => receipt'[i] # "none"
    BY <1>2, <1>3 DEF IInv, ReceiptInv
  <2> QED
    BY <1>1, <1>2, <2>1 DEF IInv, ReceiptInv, Handling, serverVars
<1>c. SpentInv'
  <2>1. Untried'
    BY <1>1 DEF IInv, SpentInv, Untried, MayBlock
  <2> QED
    BY <1>t, <1>1, <1>a, <2>1, SpentStep DEF serverVars
<1>d. TruthInv'
  BY <1>1, <1>3 DEF IInv, TruthInv, serverVars, countVars, Positions, Pending
<1> QED
  BY <1>t, <1>a, <1>b, <1>c, <1>d DEF IInv

LEMMA ExecuteInv == ASSUME IInv, Execute PROVE IInv'
<1>1. /\ pc = "acting" /\ pc' = "executed"
      /\ UNCHANGED <<serverVars, agentCred, refused, saved, todo, command, late, countVars>>
      /\ \/ receipt' = [receipt EXCEPT ![command.id] = "blocked"] /\ Insert
         \/ receipt' = [receipt EXCEPT ![command.id] = "error"] /\ (Insert \/ UNCHANGED blocked)
  BY DEF Execute
<1>2. /\ command.id \in Ids /\ command.id \in 1..requests
      /\ restores = 0 => command.id = command.request
  BY <1>1, InHand DEF Handling
<1>3. /\ receipt' \in [Ids -> Receipts] /\ receipt'[command.id] # "none"
      /\ \A i \in Ids : i # command.id => receipt'[i] = receipt[i]
      /\ receipt'[command.id] = "blocked" => Insert
  BY <1>1, <1>2 DEF IInv, TypeOK, Receipts, Answers
<1>5. /\ blocked' \in [Ids -> Nat] /\ \A i \in Ids : blocked'[i] = 0 => blocked[i] = 0
      /\ receipt'[command.id] = "blocked" => blocked'[command.request] > 0
  <2>1. CASE Insert
    BY <1>1, <2>1, InsertStep
  <2>2. CASE UNCHANGED blocked /\ ~Insert
    BY <1>3, <2>2 DEF IInv, TypeOK
  <2> QED
    BY <1>1, <2>1, <2>2
<1>t. TypeOK'
  <2>1. pc' \in Steps
    BY <1>1 DEF Steps
  <2> QED
    BY <1>1, <1>3, <1>5, <2>1 DEF IInv, TypeOK, serverVars, countVars
<1>a. Narrows /\ TableCloses /\ AgeInv' /\ RowInv' /\ BackupInv' /\ EntryInv' /\ LineInv'
  BY <1>t, <1>1, OnwardStep DEF Handling, countVars
<1>b. ReceiptInv'
  <2>1. \A i \in Ids : /\ receipt'[i] # "none" => i <= requests
                       /\ saved[i] # "none" => i <= requests /\ receipt'[i] # "none"
    BY <1>1, <1>2, <1>3 DEF IInv, ReceiptInv
  <2> QED
    BY <1>1, <1>3, <2>1 DEF IInv, ReceiptInv, serverVars
<1>c. SpentInv'
  <2>1. CASE Insert
    BY <1>1, <2>1, InsertStep
  <2>2. CASE UNCHANGED blocked
    BY <1>t, <1>1, <1>a, <2>2, SpentStep DEF Untried, serverVars
  <2> QED
    BY <1>1, <2>1, <2>2
<1>d. TruthInv'
  <2> SUFFICES ASSUME restores = 0 PROVE TruthInv!2'
    BY <1>1 DEF TruthInv, countVars
  <2>1. ASSUME NEW i \in Ids, blocked'[i] = 0 PROVE receipt'[i] # "blocked"
    <3>1. CASE i = command.id
      BY <1>2, <1>5, <2>1, <3>1
    <3>2. CASE i # command.id
      BY <1>3, <1>5, <2>1, <3>2 DEF IInv, TruthInv
    <3> QED
      BY <3>1, <3>2
  <2>2. \A i \in Positions : commands[i].result = "blocked" => blocked'[i] > 0
    <3>1. Positions \subseteq Ids
      BY Types DEF IInv
    <3>2. \A i \in Positions : blocked[i] \in Nat /\ blocked'[i] \in Nat
      BY <1>5, <3>1 DEF IInv, TypeOK
    <3> QED
      BY <1>5, <3>1, <3>2 DEF IInv, TruthInv
  <2> QED
    BY <1>1, <1>5, <2>1, <2>2 DEF IInv, TruthInv, serverVars, Positions, Pending
<1> QED
  BY <1>t, <1>a, <1>b, <1>c, <1>d DEF IInv

LEMMA CrashInv == ASSUME IInv, Crash PROVE IInv'
<1>1. /\ pc # "asleep" /\ Fault /\ pc' = "asleep"
      /\ UNCHANGED blocked \/ (pc = "acting" /\ Insert)
      /\ UNCHANGED <<serverVars, agentCred, refused, receipt, saved, todo, command, late,
                     revokes, restores>>
  BY DEF Crash
<1>2. Narrows /\ pc' \notin Handling
  BY <1>1 DEF Narrows, Active, Handling
<1>3. TableCloses
  BY <1>1 DEF TableCloses, Pending, serverVars
<1>4. /\ blocked' \in [Ids -> Nat] /\ \A i \in Ids : blocked'[i] = 0 => blocked[i] = 0
  <2>1. CASE UNCHANGED blocked
    BY <2>1 DEF IInv, TypeOK
  <2>2. CASE pc = "acting" /\ Insert
    BY <1>1, <2>2, InsertStep
  <2> QED
    BY <1>1, <2>1, <2>2
<1>t. TypeOK'
  <2>1. pc' \in Steps /\ faults' \in 0..MaxFaults
    BY <1>1, Faults DEF Steps, IInv
  <2> QED
    BY <1>1, <1>4, <2>1 DEF IInv, TypeOK, serverVars
<1>a. AgeInv' /\ RowInv' /\ BackupInv' /\ EntryInv' /\ LineInv'
  BY <1>t, <1>1, <1>2, PassStep
<1>b. ReceiptInv'
  BY <1>1, <1>2, Types, ReceiptStep DEF IInv, serverVars
<1>c. SpentInv'
  <2>1. CASE UNCHANGED blocked
    BY <1>t, <1>1, <1>2, <1>3, <2>1, SpentStep DEF Untried, serverVars
  <2>2. CASE pc = "acting" /\ Insert
    BY <1>1, <2>2, InsertStep
  <2> QED
    BY <1>1, <2>1, <2>2
<1>d. TruthInv'
  <2> SUFFICES ASSUME restores = 0 PROVE TruthInv!2'
    BY <1>1 DEF TruthInv
  <2>1. Positions \subseteq Ids
    BY Types DEF IInv
  <2>2. \A i \in Positions : blocked[i] \in Nat /\ blocked'[i] \in Nat
    BY <1>4, <2>1 DEF IInv, TypeOK
  <2>3. \A i \in Positions : commands[i].result = "blocked" => blocked'[i] > 0
    BY <1>4, <2>1, <2>2 DEF IInv, TruthInv
  <2> QED
    BY <1>1, <1>4, <2>3 DEF IInv, TruthInv, serverVars, Positions, Pending
<1> QED
  BY <1>t, <1>a, <1>b, <1>c, <1>d DEF IInv

LEMMA PostInv == ASSUME IInv, Post PROVE IInv'
<1> DEFINE id == command.id
           r == receipt[id]
<1>1. /\ pc = "post"
      /\ UNCHANGED <<cred, backup, requests, aged, agentCred, refused, receipt, saved,
                     todo, command, blocked, revokes, restores>>
      /\ \/ Accepts(id, r) /\ Receive(id, r) /\ pc' = "next" /\ UNCHANGED <<late, faults>>
         \/ pc' = "asleep" /\ UNCHANGED <<commands, late, faults>>
         \/ /\ Fault /\ pc' = "asleep"
            /\ \/ UNCHANGED commands /\ (UNCHANGED late \/ late' = late \cup {<<id, r>>})
               \/ Receive(id, r) /\ UNCHANGED late
  BY DEF Post
<1>2. /\ Active /\ command \in Entries /\ id \in Ids /\ id \in 1..requests /\ r # "none"
  BY <1>1, InHand DEF Handling, IInv, ReceiptInv
<1>3. r \in Answers /\ (restores = 0 /\ r = "blocked" => blocked[id] > 0)
  <2>1. r \in Receipts /\ blocked[id] \in Nat
    BY <1>2 DEF IInv, TypeOK
  <2>2. r \in Answers
    BY <1>2, <2>1 DEF Receipts
  <2>3. restores = 0 => (blocked[id] = 0 => r # "blocked")
    BY <1>2 DEF IInv, TruthInv
  <2> QED
    BY <2>1, <2>2, <2>3
<1>4. /\ todo' = todo /\ faults' \in 0..MaxFaults
      /\ late' \subseteq late \cup {<<id, r>>}
      /\ UNCHANGED commands \/ Receive(id, r)
  <2>1. faults \in 0..MaxFaults
    BY DEF IInv, TypeOK
  <2> HIDE DEF id, r
  <2> QED
    BY <1>1, <2>1, Faults DEF IInv
<1> HIDE DEF r
<1>5. /\ commands' \in Seq(Rows) /\ TableCloses
      /\ Receive(id, r) /\ id \in Positions => ~Pending(id)'
      /\ \A i \in Positions : commands'[i].result = "blocked" =>
           commands[i].result = "blocked" \/ (i = id /\ r = "blocked")
  <2>1. CASE UNCHANGED commands /\ ~Receive(id, r)
    BY <2>1 DEF IInv, TypeOK, TableCloses, Pending
  <2>2. CASE Receive(id, r)
    <3>1. TypeOK /\ r \in Answers /\ id \in Ids
      BY <1>2, <1>3 DEF IInv
    <3>2. \A k \in Ids : k = id =>
            /\ commands' \in Seq(Rows) /\ TableCloses /\ (k \in Positions => ~Pending(k)')
            /\ \A i \in Positions : commands'[i].result = "blocked" =>
                 commands[i].result = "blocked" \/ (i = k /\ r = "blocked")
      BY <2>2, <3>1, Receives
    <3> QED
      BY <1>1, <3>1, <3>2 DEF Pending
  <2> QED
    BY <1>4, <2>1, <2>2
<1>6. Narrows
  <2> SUFFICES ASSUME Active' PROVE Narrows!2
    BY DEF Narrows
  <2>1. pc' = "next" /\ Accepts(id, r) /\ Receive(id, r)
    BY <1>1 DEF Active, Handling, r
  <2>2. Entries' = todo /\ Entries = todo \cup {command} /\ pc' \notin Handling
    BY <1>1, <2>1 DEF Entries, Handling
  <2>3. ~Listed(id)'
    BY <1>5, <2>1 DEF Accepts, Records, Listed
  <2> QED
    BY <1>1, <1>2, <2>2, <2>3
<1>t. TypeOK'
  <2>1. /\ pc' \in Steps /\ late' \in SUBSET (Ids \X Answers) /\ faults' \in 0..MaxFaults
    BY <1>1, <1>2, <1>3, <1>4 DEF Steps, IInv, TypeOK
  <2>2. Len(commands') = Len(commands)
    BY <1>5 DEF TableCloses
  <2> QED
    BY <1>1, <1>5, <2>1, <2>2 DEF IInv, TypeOK
<1>a. AgeInv'
  BY <1>1 DEF AgeInv, IInv
<1>b. RowInv' /\ BackupInv' /\ EntryInv' /\ LineInv'
  BY <1>t, <1>1, <1>5, <1>6, RowsStep
<1>c. ReceiptInv'
  BY <1>1, Types, ReceiptStep DEF IInv, Handling
<1>d. SpentInv'
  <2>1. Untried'
    BY <1>1 DEF Untried
  <2> QED
    BY <1>t, <1>1, <1>5, <1>6, <2>1, SpentStep
<1>e. TruthInv'
  <2>1. \A i \in Ids : <<i, "blocked">> \in late' =>
          <<i, "blocked">> \in late \/ (restores = 0 => blocked[i] > 0)
    BY <1>3, <1>4
  <2>2. \A i \in Positions : commands'[i].result = "blocked" =>
          commands[i].result = "blocked" \/ (restores = 0 => blocked[i] > 0)
    BY <1>3, <1>5
  <2> QED
    BY <1>1, <1>5, <2>1, <2>2, TruthStep
<1> QED
  BY <1>t, <1>a, <1>b, <1>c, <1>d, <1>e DEF IInv

\* The receipts of fresh requests are among the ones that are kept.
LEMMA FreshAreKept ==
  ASSUME IInv, NEW i \in Ids, i <= requests, i \notin aged
  PROVE  i \in Kept
<1> DEFINE Above == {k \in Ids : k > i /\ receipt[k] # "none"}
<1>1. i \in 1..requests /\ requests \in Nat /\ MaxReceipts \in Nat
  BY Types DEF IInv, Ids
<1>2. requests - i < MaxReceipts
  BY <1>1 DEF IInv, AgeInv
<1>3. Above \subseteq (i + 1)..requests
  BY <1>1 DEF IInv, ReceiptInv, Ids
<1>4. /\ IsFiniteSet((i + 1)..requests)
      /\ Cardinality((i + 1)..requests) = requests - i
  BY <1>1, FS_Interval
<1>5. Cardinality(Above) <= requests - i /\ IsFiniteSet(Above)
  <2> HIDE DEF Above
  <2> QED
    BY <1>3, <1>4, FS_Subset
<1>6. Cardinality(Above) \in Nat
  <2> HIDE DEF Above
  <2> QED
    BY <1>5, FS_CardinalityType
<1>7. Cardinality(Above) < MaxReceipts
  <2> HIDE DEF Above
  <2> QED
    BY <1>1, <1>2, <1>5, <1>6
<1> QED
  BY <1>7 DEF Kept

LEMMA DoneInv == ASSUME IInv, Done PROVE IInv'
<1>1. /\ pc = "next" /\ todo = {} /\ pc' = "asleep" /\ saved' = receipt'
      /\ receipt' = [i \in Ids |-> IF i \in Kept THEN receipt[i] ELSE "none"]
      /\ UNCHANGED <<serverVars, agentCred, refused, todo, command, blocked, late, countVars>>
  BY DEF Done
<1>2. /\ \A i \in Ids : receipt'[i] = receipt[i] \/ receipt'[i] = "none"
      /\ \A i \in Ids : i <= requests /\ i \notin aged => receipt'[i] = receipt[i]
      /\ receipt' \in [Ids -> Receipts]
  BY <1>1, FreshAreKept DEF IInv, TypeOK, Receipts
<1>3. ~Active' /\ pc' \notin Handling /\ Entries = {} /\ Active
  BY <1>1 DEF Active, Handling, Entries
<1>t. TypeOK'
  <2>1. pc' \in Steps
    BY <1>1 DEF Steps
  <2> QED
    BY <1>1, <1>2, <2>1 DEF IInv, TypeOK, serverVars, countVars
<1>4. Narrows
  BY <1>3 DEF Narrows
<1>a. AgeInv' /\ RowInv' /\ BackupInv' /\ EntryInv' /\ LineInv'
  BY <1>t, <1>1, <1>4, PassStep DEF countVars
<1>b. ReceiptInv'
  BY <1>1, <1>2, <1>3 DEF IInv, ReceiptInv, serverVars
<1>5. ASSUME NEW i \in Ids, i \notin aged, i <= requests, saved[i] # "none"
      PROVE  saved'[i] # "none"
  BY <1>1, <1>2, <1>5 DEF IInv, ReceiptInv
<1>c. SpentInv'
  <2>1. /\ Positions' = Positions /\ Older' = Older /\ Older <= Len(commands)
        /\ Positions \subseteq Ids /\ Len(commands) <= requests
        /\ Older \in Nat /\ Len(commands) \in Nat /\ requests \in Nat
        /\ \A i \in Positions : Listed(i)' = Listed(i)
    BY <1>1, Types DEF serverVars, Positions, Older, Listed, Pending, IInv, BackupInv, TypeOK
  <2>2. ASSUME NEW i \in Positions, Listed(i), blocked[commands[i].request] > 0
        PROVE  saved'[i] # "none" /\ ~(i > Older)
    <3>1. saved[i] # "none" /\ ~(i > Older)
      BY <1>3, <2>2 DEF IInv, SpentInv
    <3>2. i \in 1..Older /\ commands[i].request = i
      BY <2>1, <3>1 DEF IInv, BackupInv, Positions
    <3> QED
      BY <1>5, <2>1, <2>2, <3>1, <3>2 DEF Listed
  <2>3. ASSUME NEW i \in 1..Older, backup.commands[i].state = "pending", i \notin aged,
               blocked[i] > 0
        PROVE  saved'[i] # "none"
    <3>1. i \in Ids /\ i <= requests
      BY <2>1 DEF Positions
    <3> QED
      BY <1>5, <2>3, <3>1 DEF IInv, SpentInv
  <2>4. \A i \in Positions' : Listed(i)' /\ blocked'[commands'[i].request] > 0 =>
          saved'[i] # "none" /\ ~(i > Older')
    BY <1>1, <2>1, <2>2 DEF serverVars
  <2> QED
    BY <1>1, <1>3, <2>1, <2>3, <2>4 DEF SpentInv, Untried, IInv, serverVars
<1>d. TruthInv'
  BY <1>1, <1>2 DEF IInv, TruthInv, serverVars, countVars, Positions, Pending
<1> QED
  BY <1>t, <1>a, <1>b, <1>c, <1>d DEF IInv

-----------------------------------------------------------------------------
(* The theorems.                                                           *)

LEMMA NextInv == ASSUME IInv, [Next]_vars PROVE IInv'
<1>1. CASE UNCHANGED vars
  <2>1. UNCHANGED <<serverVars, agentVars, blocked, late, countVars>>
    BY <1>1 DEF vars
  <2>2. TableCloses /\ commands' \in Seq(Rows)
    BY <2>1 DEF TableCloses, Pending, serverVars, IInv, TypeOK
  <2>3. cred' \in Credentials \cup {0} /\ revokes' \in 0..MaxRevokes /\ refused' \in BOOLEAN
    BY <2>1 DEF IInv, TypeOK, serverVars, agentVars, countVars
  <2> QED
    BY <2>1, <2>2, <2>3, TableStep DEF serverVars, agentVars, countVars
<1>2. CASE \E a \in Alerts : QueueBlock(a)
  BY <1>2, QueueBlockInv
<1>3. CASE \E r \in Ids : Age(r)
  BY <1>3, AgeStepInv
<1>4. CASE Expire
  BY <1>4, ExpireInv
<1>5. CASE Revoke
  BY <1>5, RevokeInv
<1>6. CASE Enroll \/ Outdate
  BY <1>6, EnrollInv, OutdateInv
<1>7. CASE Backup
  BY <1>7, BackupStepInv
<1>8. CASE Restore
  BY <1>8, RestoreInv
<1>9. CASE \E id \in Ids, r \in Answers : LateReceipt(id, r)
  BY <1>9, LateReceiptInv
<1>10. CASE AgentStep
  BY <1>10, LoadInv, SendEventsInv, ListInv, SaveMarkInv, DispatchInv, ExecuteInv,
     SaveResultInv, PostInv, DoneInv, TakeInv
     DEF AgentStep
<1>11. CASE Crash
  BY <1>11, CrashInv
<1> QED
  BY <1>1, <1>2, <1>3, <1>4, <1>5, <1>6, <1>7, <1>8, <1>9, <1>10, <1>11 DEF Next

\* In every reachable state the agent's receipts, its listing and the table fit together
\* as IInv says.
THEOREM Invariance == Spec => []IInv
<1>1. Init => IInv
  BY InitInv
<1>2. IInv /\ [Next]_vars => IInv'
  BY NextInv
<1> QED
  BY <1>1, <1>2, PTL DEF Spec

\* The variables keep their types: no row has an id out of range, no step of the agent or
\* of the control plane leaves a command without a request.
THEOREM TypeCorrect == Spec => []TypeOK
<1>1. IInv => TypeOK
  BY DEF IInv
<1> QED
  BY <1>1, Invariance, PTL

\* No request blocks twice (cycle and receipt), after any number of crashes, lost and late
\* requests, revocations and restored backups.
THEOREM BlocksAtMostOnce == Spec => []AtMostOnce
<1>1. IInv => AtMostOnce
  BY DEF IInv, SpentInv, AtMostOnce
<1> QED
  BY <1>1, Invariance, PTL

\* A command on record as blocked was blocked (cycle and receipt), until a backup is
\* restored.
THEOREM ReceiptsAreTrue == Spec => []ReceiptIsTrue
<1>1. IInv => ReceiptIsTrue
  BY DEF IInv, RowInv, TruthInv, ReceiptIsTrue
<1> QED
  BY <1>1, Invariance, PTL

\* The steps that insert a block.
LEMMA OnlyInserts ==
  ASSUME IInv, [Next]_vars, NEW r \in Ids, blocked'[r] # blocked[r]
  PROVE  pc = "acting" /\ r = command.request
<1>1. \/ blocked' = blocked
      \/ pc = "acting" /\ Insert
  BY DEF Next, vars, QueueBlock, Age, Expire, Revoke, Enroll, Outdate, Backup, Restore,
         LateReceipt, AgentStep, Load, SendEvents, List, SaveMark, Dispatch, Execute,
         SaveResult, Post, Done, Take, Crash
<1>2. Insert => r = command.request
  BY DEF Insert, IInv, TypeOK
<1> QED
  BY <1>1, <1>2

\* The only step that brings a request to its block takes no old one, and none else
\* changes what is in hand there.
LEMMA OnlyDispatches ==
  ASSUME IInv, [Next]_vars, pc' = "acting"
  PROVE  /\ command' = command
         /\ pc # "acting" => command.request \notin aged /\ UNCHANGED aged
<1> QED
  BY DEF Next, vars, serverVars, agentVars, QueueBlock, Age, Expire, Revoke, Enroll, Outdate,
         Backup, Restore, LateReceipt, AgentStep, Load, SendEvents, List, SaveMark, Dispatch,
         MayBlock, Execute, SaveResult, Post, Done, Take, Known, Crash

\* A request that has grown old before its block was started never blocks any more, nor,
\* before a restore, does one made under an earlier enrolment (respond and revoke).
THEOREM NoBlockIsStale == Spec => NoStaleBlock
<1> DEFINE Timely ==
      /\ \A r \in Stale : r \in Stale' /\ blocked'[r] = blocked[r]
      /\ \A r \in Ids : blocked'[r] # blocked[r] /\ restores = 0 =>
           command.under = agentCred
<1>1. IInv /\ [Next]_vars => [Timely]_vars
  <2> SUFFICES ASSUME IInv, [Next]_vars PROVE Timely
    OBVIOUS
  <2>1. ASSUME NEW r \in Stale PROVE r \in Stale' /\ blocked'[r] = blocked[r]
    <3>1. r \in aged /\ r \in Ids /\ r \in aged' /\ ~(pc = "acting" /\ command.request = r)
      <4>1. aged \subseteq aged'
        BY DEF Next, vars, serverVars, QueueBlock, Age, Expire, Revoke, Enroll, Outdate, Backup,
               Restore, LateReceipt, AgentStep, Load, SendEvents, List, SaveMark, Dispatch,
               Execute, SaveResult, Post, Done, Take, Crash
      <4> QED
        BY <2>1, <4>1, Types DEF Stale, IInv, TypeOK
    <3>2. blocked'[r] = blocked[r]
      BY <3>1, OnlyInserts
    <3>3. ~(pc' = "acting" /\ command'.request = r)
      BY <3>1, OnlyDispatches
    <3> QED
      BY <3>1, <3>2, <3>3 DEF Stale
  <2>2. ASSUME NEW r \in Ids, blocked'[r] # blocked[r], restores = 0
        PROVE  command.under = agentCred
    <3>1. pc = "acting"
      BY <2>2, OnlyInserts
    <3> QED
      BY <2>2, <3>1, InHand DEF Handling, EntryOK
  <2> QED
    BY <2>1, <2>2
<1> QED
  BY <1>1, Invariance, PTL DEF Spec, NoStaleBlock

\* Rows that are pending are of the present enrolment, now and in the backup.
PendingInv ==
  /\ \A i \in Positions : Pending(i) => cred # 0 /\ commands[i].under = cred
  /\ \A i \in 1..Older : backup.commands[i].state = "pending" =>
       backup.cred # 0 /\ backup.commands[i].under = backup.cred

\* A step that only closes rows keeps that, unless it changes the credential.
LEMMA PendingStep ==
  ASSUME TypeOK, PendingInv, TableCloses, UNCHANGED backup,
         \A i \in Positions : Pending(i)' => cred' = cred
  PROVE  PendingInv'
<1>1. Positions' = Positions /\ Older' = Older
  BY DEF TableCloses, Positions, Older
<1> QED
  BY <1>1 DEF PendingInv, TableCloses

LEMMA PendingNext == ASSUME IInv, PendingInv, [Next]_vars PROVE PendingInv'
<1> TypeOK
  BY DEF IInv
<1>1. CASE UNCHANGED <<commands, cred, backup>>
  BY <1>1, PendingStep DEF TableCloses, Pending
<1>2. ASSUME NEW a \in Alerts, QueueBlock(a) PROVE PendingInv'
  <2> DEFINE row == [request |-> requests', alert |-> a, under |-> cred,
                     state |-> "pending", result |-> "none"]
  <2>1. cred # 0 /\ commands' = Append(commands, row) /\ UNCHANGED <<cred, backup>>
    BY <1>2 DEF QueueBlock
  <2>2. row.under = cred
    OBVIOUS
  <2> HIDE DEF row
  <2>3. /\ \A i \in Positions : commands'[i] = commands[i]
        /\ commands'[Len(commands) + 1] = row
        /\ Positions' = Positions \cup {Len(commands) + 1}
    BY <2>1 DEF TypeOK, Positions
  <2> QED
    BY <2>1, <2>2, <2>3 DEF PendingInv, Pending, Older
<1>3. CASE Expire
  <2>1. PICK rows : commands' = Marked(rows, "expired")
    BY <1>3 DEF Expire
  <2> QED
    BY <1>3, <2>1, MarkedRows, PendingStep DEF Expire
<1>4. CASE Revoke
  <2>1. commands' = Marked({i \in Positions : Pending(i)}, "cancelled")
    BY <1>4 DEF Revoke, Cancelled
  <2>2. /\ TableCloses
        /\ \A i \in Positions : i \in {k \in Positions : Pending(k)} => ~Pending(i)'
    BY <2>1, MarkedRows
  <2>3. \A i \in Positions : ~Pending(i)'
    BY <2>2 DEF TableCloses
  <2> QED
    BY <1>4, <2>2, <2>3, PendingStep DEF Revoke
<1>5. CASE Enroll
  BY <1>5 DEF Enroll, PendingInv, Positions, Pending, Older
<1>6. CASE Backup
  BY <1>6 DEF Backup, PendingInv, Positions, Pending, Older
<1>7. CASE Restore
  BY <1>7 DEF Restore, PendingInv, Positions, Pending, Older
<1>8. ASSUME NEW id \in Ids, NEW r \in Answers, Receive(id, r), UNCHANGED <<cred, backup>>
      PROVE  PendingInv'
  BY <1>8, Receives, PendingStep
<1>9. CASE Post
  <2>1. UNCHANGED commands \/ Receive(command.id, receipt[command.id])
    BY <1>9 DEF Post
  <2>2. command.id \in Ids /\ receipt[command.id] # "none" /\ UNCHANGED <<cred, backup>>
    BY <1>9, InHand DEF Post, Handling, IInv, ReceiptInv
  <2>3. receipt[command.id] \in Answers
    BY <2>2 DEF IInv, TypeOK, Receipts
  <2> QED
    BY <1>1, <1>8, <2>1, <2>2, <2>3
<1>10. CASE \E id \in Ids, r \in Answers : LateReceipt(id, r)
  BY <1>8, <1>10 DEF LateReceipt
<1>11. Next \/ UNCHANGED vars => \/ UNCHANGED <<commands, cred, backup>>
                                 \/ \E a \in Alerts : QueueBlock(a)
                                 \/ Expire \/ Revoke \/ Enroll \/ Backup \/ Restore \/ Post
                                 \/ \E id \in Ids, r \in Answers : LateReceipt(id, r)
  BY DEF Next, vars, serverVars, Age, Outdate, AgentStep, Load, SendEvents, List, SaveMark,
         Dispatch, Execute, SaveResult, Done, Take, Crash
<1> QED
  BY <1>1, <1>2, <1>3, <1>4, <1>5, <1>6, <1>7, <1>9, <1>10, <1>11

\* What was answered, cancelled or has expired stays so, and no request made before a
\* revocation is pending after it (ingest, receipt, revoke), until a backup is restored.
THEOREM ClosedIsFinal == Spec => ClosedStaysClosed
<1> DEFINE Final == restores' = restores =>
              \A i \in Positions :
                /\ commands[i].state # "pending" => commands'[i] = commands[i]
                /\ commands'[i].state = "pending" => cred' = commands'[i].under
<1>1. Init => PendingInv
  BY DEF Init, PendingInv, Positions, Older, NoBackup
<1>2. IInv /\ PendingInv /\ [Next]_vars => PendingInv'
  BY PendingNext
<1>3. IInv /\ PendingInv /\ PendingInv' /\ [Next]_vars => [Final]_vars
  <2> SUFFICES ASSUME IInv, PendingInv, PendingInv', [Next]_vars, restores' = restores,
                      NEW i \in Positions
               PROVE  /\ commands[i].state # "pending" => commands'[i] = commands[i]
                      /\ commands'[i].state = "pending" => cred' = commands'[i].under
    OBVIOUS
  <2> DEFINE Stays == Len(commands') >= Len(commands) /\ (~Pending(i) => commands'[i] = commands[i])
  <2>1. Stays
    <3>1. commands \in Seq(Rows) /\ restores \in Nat
      BY DEF IInv, TypeOK
    <3>2. CASE UNCHANGED commands
      BY <3>1, <3>2
    <3>3. ASSUME NEW a \in Alerts, QueueBlock(a) PROVE Stays
      BY <3>1, <3>3 DEF QueueBlock, Positions
    <3>4. ASSUME NEW rows, rows \subseteq {k \in Positions : Pending(k)}, NEW state,
                 commands' = Marked(rows, state)
          PROVE  Stays
      BY <3>1, <3>4 DEF Marked, Positions
    <3>5. ASSUME NEW id, NEW r, Receive(id, r) PROVE Stays
      BY <3>1, <3>5 DEF Receive, Records, Positions, Pending
    <3>6. \/ UNCHANGED commands
          \/ \E a \in Alerts : QueueBlock(a)
          \/ commands' = Marked({k \in Positions : Pending(k) /\ commands[k].request \in aged},
                                "expired")
          \/ commands' = Marked({k \in Positions : Pending(k)}, "cancelled")
          \/ \E id, r : Receive(id, r)
      <4>1. \/ UNCHANGED commands
            \/ \E a \in Alerts : QueueBlock(a)
            \/ Expire \/ Revoke \/ Restore \/ Post
            \/ \E id \in Ids, r \in Answers : LateReceipt(id, r)
        BY DEF Next, vars, serverVars, Age, Enroll, Outdate, Backup, AgentStep, Load,
               SendEvents, List, SaveMark, Dispatch, Execute, SaveResult, Done, Take, Crash
      <4>2. ~Restore
        BY <3>1 DEF Restore
      <4>3. Post => UNCHANGED commands \/ \E id, r : Receive(id, r)
        BY DEF Post
      <4> QED
        BY <4>1, <4>2, <4>3 DEF Expire, Revoke, Cancelled, LateReceipt
    <3> QED
      BY <3>2, <3>3, <3>4, <3>5, <3>6
  <2>2. i \in Positions'
    BY <2>1, Types DEF Positions, IInv
  <2> QED
    BY <2>1, <2>2 DEF PendingInv, Pending
<1>4. Spec => []PendingInv
  BY <1>1, <1>2, Invariance, PTL DEF Spec
<1> QED
  BY <1>3, <1>4, Invariance, PTL DEF Spec, ClosedStaysClosed
=============================================================================
