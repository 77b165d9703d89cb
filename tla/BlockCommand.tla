----------------------------- MODULE BlockCommand -----------------------------
(***************************************************************************)
(* Temporary address blocks on one host: the commands table of the control *)
(* plane (service.py, store.py) and the agent that lists, executes and     *)
(* answers them (agent.py).  The agent may die at any step; a request may  *)
(* be lost before or after it was carried out, or be carried out late; the *)
(* host may be revoked and enrolled again, and the control plane's         *)
(* database may be replaced by a restored backup (maintenance.py).         *)
(* Before it lists commands the agent delivers its outbox, of which there  *)
(* is only whether its first batch is refused for good.                    *)
(*                                                                         *)
(* The id of a command is its position in the table, as SQLite gives out   *)
(* the largest rowid plus one.  A request is one time an operator asked    *)
(* for a block, whatever id its row got.  The statuses applied and failed  *)
(* are one state here, settled, with the receipt: blocked, denied (by the  *)
(* host's own policy) or error (failed, perhaps after the insertion).      *)
(* Server and host agree on the time.                                      *)
(*                                                                         *)
(* A definition standing before the one whose parameters it shares, and    *)
(* used nowhere, is a mutated form of it (PROJECT.json, "mutants").        *)
(***************************************************************************)
EXTENDS Naturals, Sequences, FiniteSets

CONSTANTS
  Alerts,       \* recent alerts with an address the server may block
  Permitted,    \* those whose address the host's own policy permits
  ListLimit,    \* commands in one listing
  MaxReceipts,  \* receipts the agent keeps
  MaxRequests,  \* bounds: requests of operators,
  MaxRevokes,   \* revocations of the host,
  MaxRestores,  \* restored backups,
  MaxFaults     \* and crashes and lost requests or answers

ASSUME BlockAssumption ==
  /\ Permitted \subseteq Alerts
  /\ ListLimit \in Nat \ {0} /\ MaxReceipts \in Nat \ {0}
  /\ MaxRequests \in Nat /\ MaxRevokes \in Nat
  /\ MaxRestores \in Nat /\ MaxFaults \in Nat

VARIABLES
  commands,   \* the commands table
  cred,       \* the credential of the host's enrolment, 0 when it is revoked
  backup,     \* both, as the last backup has them
  requests,   \* number of requests so far
  aged,       \* requests more than five minutes old
  agentCred,  \* the credential the agent is configured with
  refused,    \* its outbox begins with a batch that is refused for good
  receipt,    \* state["receipts"] in memory, by id
  saved,      \* the same in the state file
  pc,         \* where the agent is in cycle
  todo,       \* commands of the listing still to handle
  command,    \* the one being handled
  blocked,    \* how often the block of each request was inserted
  late,       \* receipts whose request timed out and may still arrive
  revokes, restores, faults

serverVars == <<commands, cred, backup, requests, aged>>
agentVars  == <<agentCred, refused, receipt, saved, pc, todo, command>>
countVars  == <<revokes, restores, faults>>
vars == <<serverVars, agentVars, blocked, late, countVars>>

Ids == 1..MaxRequests      \* identities of rows, and numbers of requests
Answers == {"blocked", "denied", "error"}
Receipts == Answers \cup {"none"}
Credentials == 1..(MaxRevokes + 1)
Rows == [request : Ids, alert : Alerts, under : Credentials,
         state : {"pending", "settled", "expired", "cancelled"},
         result : Receipts]
Listings == [id : Ids, request : Ids, alert : Alerts, under : Credentials]
NoBackup == [commands |-> <<>>, cred |-> 0]
NoCommand == [id |-> 0]
Steps == {"asleep", "events", "list", "next", "marked", "execute", "acting",
          "executed", "post"}

TypeOK ==
  /\ commands \in Seq(Rows) /\ Len(commands) <= requests
  /\ cred \in Credentials \cup {0} /\ agentCred \in Credentials
  /\ backup.commands \in Seq(Rows) /\ Len(backup.commands) <= requests
  /\ backup.cred \in Credentials \cup {0}
  /\ requests \in 0..MaxRequests /\ aged \in SUBSET (1..requests)
  /\ refused \in BOOLEAN
  /\ receipt \in [Ids -> Receipts] /\ saved \in [Ids -> Receipts]
  /\ pc \in Steps
  /\ todo \in SUBSET Listings /\ command \in Listings \cup {NoCommand}
  /\ blocked \in [Ids -> Nat]
  /\ late \in SUBSET (Ids \X Answers)
  /\ revokes \in 0..MaxRevokes /\ restores \in 0..MaxRestores
  /\ faults \in 0..MaxFaults

NoReceipt == [i \in Ids |-> "none"]

\* The host is enrolled and its agent configured.
Init ==
  /\ commands = <<>> /\ cred = 1 /\ backup = NoBackup
  /\ requests = 0 /\ aged = {}
  /\ agentCred = 1 /\ refused = FALSE /\ receipt = NoReceipt /\ saved = NoReceipt
  /\ pc = "asleep" /\ todo = {} /\ command = NoCommand
  /\ blocked = [i \in Ids |-> 0] /\ late = {}
  /\ revokes = 0 /\ restores = 0 /\ faults = 0

-----------------------------------------------------------------------------
(* The control plane.                                                      *)

Positions == 1..Len(commands)

\* Bounds the rate of requests: of the agent's receipts, the ones it prunes are
\* more than five minutes old (there are 1000 of them).
FewAreFresh == Cardinality((1..requests) \ aged) < MaxReceipts

\* queue_block, one BEGIN IMMEDIATE transaction that also sees the policies.
QueueBlock(a) ==
  /\ requests < MaxRequests /\ FewAreFresh
  /\ cred # 0
  /\ \A i \in Positions : commands[i].alert # a
  /\ requests' = requests + 1
  /\ commands' = Append(commands, [request |-> requests', alert |-> a, under |-> cred,
                                   state |-> "pending", result |-> "none"])
  /\ UNCHANGED <<cred, backup, aged, agentVars, blocked, late, countVars>>

\* Five minutes pass after a request, and have passed after the ones before it.
Age(r) ==
  /\ r \in (1..requests) \ aged /\ 1..(r - 1) \subseteq aged
  /\ aged' = aged \cup {r}
  /\ UNCHANGED <<commands, cred, backup, requests, agentVars, blocked, late,
                 countVars>>

Pending(i) == commands[i].state = "pending"

\* The table with a new state in some rows.
Marked(rows, state) ==
  [i \in Positions |-> IF i \in rows THEN [commands[i] EXCEPT !.state = state]
                                     ELSE commands[i]]

\* The end of ingest, of any host's events: old pending commands expire.
Expire ==
  LET old == {i \in Positions : Pending(i) /\ commands[i].request \in aged}
  IN /\ old # {}
     /\ commands' = Marked(old, "expired")
     /\ UNCHANGED <<cred, backup, requests, aged, agentVars, blocked, late, countVars>>

\* What a revocation leaves of the commands.
Cancelled == Marked({i \in Positions : Pending(i)}, "cancelled")

Revoke ==
  /\ cred # 0 /\ revokes < MaxRevokes
  /\ revokes' = revokes + 1
  /\ cred' = 0
  /\ commands' = Cancelled
  /\ UNCHANGED <<backup, requests, aged, agentVars, blocked, late, restores, faults>>

\* enrollment_token and enroll: the agent is started again with the new credential
\* and keeps its state file.
Enroll ==
  /\ cred = 0
  /\ cred' = revokes + 1 /\ agentCred' = revokes + 1
  /\ pc' = "asleep"
  /\ UNCHANGED <<commands, backup, requests, aged, refused, receipt, saved, todo,
                 command, blocked, late, countVars>>

\* Evidence at the head of the agent's outbox leaves the archive window during a long
\* outage: its batch is refused from now on (AgentDelivery has the outbox itself).
Outdate ==
  /\ ~refused
  /\ refused' = TRUE
  /\ UNCHANGED <<serverVars, agentCred, receipt, saved, pc, todo, command, blocked, late,
                 countVars>>

\* backup_database; one backup, of a time when the host is enrolled.
Backup ==
  /\ backup = NoBackup /\ restores < MaxRestores /\ cred # 0
  /\ backup' = [commands |-> commands, cred |-> cred]
  /\ UNCHANGED <<commands, cred, requests, aged, agentVars, blocked, late, countVars>>

\* restore_database, and the service is started on the restored file.
Restore ==
  /\ backup # NoBackup /\ restores < MaxRestores
  /\ restores' = restores + 1
  /\ commands' = backup.commands /\ cred' = backup.cred
  /\ UNCHANGED <<backup, requests, aged, agentVars, blocked, late, revokes, faults>>

\* Whether the receipt of id is recorded: its row awaits the first one.
Records(id) == id \in Positions /\ Pending(id)

\* Whether receipt answers 200: recorded now, or the same one was before.
Accepts(id, r) ==
  \/ Records(id)
  \/ id \in Positions /\ commands[id].state = "settled" /\ commands[id].result = r

\* receipt, one BEGIN IMMEDIATE transaction.
Receive(id, r) ==
  IF Records(id)
  THEN commands' = [commands EXCEPT ![id].state = "settled", ![id].result = r]
  ELSE UNCHANGED commands

\* A receipt whose request timed out at the agent is carried out.
LateReceipt(id, r) ==
  /\ <<id, r>> \in late
  /\ late' = late \ {<<id, r>>}
  /\ Receive(id, r)
  /\ UNCHANGED <<cred, backup, requests, aged, agentVars, blocked, countVars>>

-----------------------------------------------------------------------------
(* The agent.                                                              *)

Served == cred # 0 /\ cred = agentCred

Fault == faults < MaxFaults /\ faults' = faults + 1

\* main reloads the committed state before every cycle.
Load ==
  /\ pc = "asleep"
  /\ receipt' = saved /\ todo' = {} /\ command' = NoCommand
  /\ pc' = "events"
  /\ UNCHANGED <<serverVars, agentCred, refused, saved, blocked, late, countVars>>

\* cycle delivers the outbox, which has at least a heartbeat or is full, and raises
\* what refuses it.
SendEvents ==
  /\ pc = "events"
  /\ \/ Served /\ ~refused /\ pc' = "list" /\ UNCHANGED faults
     \/ ~(Served /\ ~refused) /\ pc' = "asleep" /\ UNCHANGED faults
     \/ Fault /\ pc' = "asleep"
  /\ UNCHANGED <<serverVars, agentCred, refused, receipt, saved, todo, command, blocked,
                 late, revokes, restores>>

Listed(i) == Pending(i) /\ commands[i].request \notin aged

\* GET /v1/commands: the oldest ones.
List ==
  LET listed == {i \in Positions : Listed(i)}
      first == {i \in listed : Cardinality({k \in listed : k < i}) < ListLimit}
  IN /\ pc = "list"
     /\ \/ /\ Served
           /\ todo' = {[id |-> i, request |-> commands[i].request,
                        alert |-> commands[i].alert,
                        under |-> commands[i].under] : i \in first}
           /\ pc' = "next" /\ UNCHANGED faults
        \/ ~Served /\ pc' = "asleep" /\ UNCHANGED <<todo, faults>>       \* 401
        \/ Fault /\ pc' = "asleep" /\ UNCHANGED todo
     /\ UNCHANGED <<serverVars, agentCred, refused, receipt, saved, command, blocked,
                    late, revokes, restores>>

MarksBlocked == "blocked"

\* The receipt a command has until its result is known.
Mark == "error"

Skipped == "next"

\* A command with a receipt is not carried out, but answered again.
Known == "post"

\* The next listed command: mark it unless there is a receipt under its id.
Take(c) ==
  /\ pc = "next" /\ c \in todo
  /\ \A d \in todo : c.id <= d.id
  /\ todo' = todo \ {c} /\ command' = c
  /\ IF receipt[c.id] = "none"
     THEN receipt' = [receipt EXCEPT ![c.id] = Mark] /\ pc' = "marked"
     ELSE pc' = Known /\ UNCHANGED receipt
  /\ UNCHANGED <<serverVars, agentCred, refused, saved, blocked, late, countVars>>

MarkInMemory == UNCHANGED saved

\* save_state: the state file is replaced at once, or not at all.
SaveState == saved' = receipt

\* "Record an uncertain attempt before mutation: never extend a block after a crash."
CommitMark == SaveState

SaveMark ==
  /\ pc = "marked"
  /\ CommitMark
  /\ pc' = "execute"
  /\ UNCHANGED <<serverVars, agentCred, refused, receipt, todo, command, blocked, late,
                 countVars>>

ChecksNoAge == command.alert \in Permitted

\* respond and allowed_ip: the command is recent and the address permitted here.
MayBlock == command.request \notin aged /\ command.alert \in Permitted

Insert == blocked' = [blocked EXCEPT ![command.request] = @ + 1]

\* respond: the command is refused here, or nft is started.
Dispatch ==
  /\ pc = "execute"
  /\ \/ /\ ~MayBlock
        /\ receipt' = [receipt EXCEPT ![command.id] = "denied"] /\ pc' = "executed"
     \/ MayBlock /\ pc' = "acting" /\ UNCHANGED receipt
  /\ UNCHANGED <<serverVars, agentCred, refused, saved, todo, command, blocked, late,
                 countVars>>

\* nft, at some moment after its start: it succeeds, fails, or times out when it may
\* have succeeded.
Execute ==
  /\ pc = "acting"
  /\ \/ receipt' = [receipt EXCEPT ![command.id] = "blocked"] /\ Insert
     \/ /\ receipt' = [receipt EXCEPT ![command.id] = "error"]
        /\ Insert \/ UNCHANGED blocked
  /\ pc' = "executed"
  /\ UNCHANGED <<serverVars, agentCred, refused, saved, todo, command, late, countVars>>

SaveResult ==
  /\ pc = "executed"
  /\ SaveState
  /\ pc' = "post"
  /\ UNCHANGED <<serverVars, agentCred, refused, receipt, todo, command, blocked, late,
                 countVars>>

\* POST of the receipt; a refusal (401, 404, 409) or a lost answer ends the cycle.
Post ==
  LET id == command.id
      r == receipt[id]
  IN /\ pc = "post"
     /\ \/ /\ Served /\ Accepts(id, r)
           /\ Receive(id, r)
           /\ pc' = "next" /\ UNCHANGED <<late, faults>>
        \/ /\ ~(Served /\ Accepts(id, r))
           /\ pc' = "asleep" /\ UNCHANGED <<commands, late, faults>>
        \/ /\ Fault /\ pc' = "asleep"
           /\ \/ UNCHANGED <<commands, late>>
              \/ Served /\ Receive(id, r) /\ UNCHANGED late
              \/ Served /\ late' = late \cup {<<id, r>>} /\ UNCHANGED commands
     /\ UNCHANGED <<cred, backup, requests, aged, agentCred, refused, receipt, saved,
                    todo, command, blocked, revokes, restores>>

\* The end of a pass: only the receipts of the largest ids are kept.
Kept == {i \in Ids : Cardinality({k \in Ids : k > i /\ receipt[k] # "none"}) < MaxReceipts}

Done ==
  /\ pc = "next" /\ todo = {}
  /\ receipt' = [i \in Ids |-> IF i \in Kept THEN receipt[i] ELSE "none"]
  /\ saved' = receipt'
  /\ pc' = "asleep"
  /\ UNCHANGED <<serverVars, agentCred, refused, todo, command, blocked, late, countVars>>

\* The agent dies, perhaps inside nft.
Crash ==
  /\ pc # "asleep" /\ Fault
  /\ pc' = "asleep"
  /\ \/ UNCHANGED blocked
     \/ pc = "acting" /\ Insert
  /\ UNCHANGED <<serverVars, agentCred, refused, receipt, saved, todo, command, late,
                 revokes, restores>>

AgentStep ==
  \/ Load \/ SendEvents \/ List \/ SaveMark \/ Dispatch \/ Execute \/ SaveResult
  \/ Post \/ Done
  \/ \E c \in todo : Take(c)

Next ==
  \/ \E a \in Alerts : QueueBlock(a)
  \/ \E r \in Ids : Age(r)
  \/ Expire \/ Revoke \/ Enroll \/ Outdate \/ Backup \/ Restore
  \/ \E id \in Ids, r \in Answers : LateReceipt(id, r)
  \/ AgentStep \/ Crash

Spec == Init /\ [][Next]_vars

\* main loops for ever and is restarted when it dies.
FairSpec == Spec /\ WF_vars(AgentStep)

-----------------------------------------------------------------------------
(* Properties.                                                             *)

\* "The agent does not repeat uncertain actions or extend their timeout on
\* restart": no request blocks twice, whatever is listed again, retried or
\* answered late, and even if a restored backup has it as pending again.
AtMostOnce == \A r \in Ids : blocked[r] <= 1

\* "An applied receipt reports successful rule insertion": a row on record as
\* blocked was blocked.  Not after a restore: ids are given out again, and the agent
\* answers for a new command with the receipt it keeps under its id.
ReceiptIsTrue ==
  restores = 0 =>
    \A i \in Positions :
      commands[i].result = "blocked" => blocked[commands[i].request] > 0

\* Requests that have grown old before nft was started for them.
Stale == {r \in aged : ~(pc = "acting" /\ command.request = r)}

\* "commands expire on the server after five minutes": what has grown old before its
\* block was started never blocks any more, however long the command was on its way, and
\* none that was requested under an earlier enrolment is still carried out.
NoStaleBlock ==
  [][/\ \A r \in Stale : r \in Stale' /\ blocked'[r] = blocked[r]
     /\ \A r \in Ids : blocked'[r] # blocked[r] /\ restores = 0 =>
          command.under = agentCred]_vars

\* What was answered, cancelled or has expired stays so, and what was requested
\* before a revocation is never pending after it.
ClosedStaysClosed ==
  [][restores' = restores =>
       \A i \in Positions :
         /\ commands[i].state # "pending" => commands'[i] = commands[i]
         /\ commands'[i].state = "pending" => cred' = commands'[i].under]_vars

\* A pending command is answered, unless it grows old or the host is revoked first, or
\* the agent's outbox is refused for good, which ends every cycle before the listing.
\* Nothing else stops the agent for good: no refused receipt, crash or lost request.
CommandIsAnswered ==
  \A i \in Ids :
    i \in Positions /\ Pending(i) ~>
      \/ i \notin Positions \/ ~Pending(i)
      \/ commands[i].request \in aged \/ cred # agentCred \/ refused
=============================================================================
