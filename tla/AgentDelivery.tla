---------------------------- MODULE AgentDelivery ----------------------------
(***************************************************************************)
(* One agent's evidence, from a log file to the control plane's events     *)
(* table: collect and collect_log read complete lines past a durable       *)
(* offset, cycle commits offset and outbox together and sends the outbox   *)
(* in batches (agent.py), ingest stores a batch in one transaction and     *)
(* skips the events it has (store.py).  The agent may die at any step; a   *)
(* request may be lost before or after it was carried out, or be carried   *)
(* out late; the log may be rotated or truncated under the agent.          *)
(*                                                                         *)
(* Only log lines and heartbeats are in the outbox here: the other sensors *)
(* commit their cursors and events in the same way.  Time is what makes an *)
(* event too old: horizon is the last event older than the archive window. *)
(*                                                                         *)
(* A definition standing before the one whose parameters it shares, and    *)
(* used nowhere, is a mutated form of it (PROJECT.json, "mutants").        *)
(***************************************************************************)
EXTENDS Naturals, SequencesExt, FiniteSets

CONSTANTS
  MaxLines,        \* bound: lines ever written to the log
  Limit,           \* outbox size at which collection pauses
  Capacity,        \* queue_capacity: Limit and the slots kept for health
  BatchSize,       \* events per request
  ReadFromStart,   \* read_from_start of the log source
  MaxResets,       \* bound: rotations of the log to a new file and
                   \* truncations in place (copytruncate)
  MaxStale,        \* bound: events that outlive the archive window unsent
  MaxFaults        \* bound: crashes and lost requests or answers

ASSUME DeliveryAssumption ==
  /\ MaxLines \in Nat /\ MaxResets \in Nat
  /\ MaxStale \in Nat /\ MaxFaults \in Nat
  /\ Limit \in Nat \ {0} /\ BatchSize \in Nat \ {0}
  /\ Capacity \in Nat /\ Limit < Capacity
  /\ ReadFromStart \in BOOLEAN

Lines  == 1..MaxLines
Beat   == [line |-> 0, id |-> 0]      \* a heartbeat; its identity is immaterial
Events == [line: Lines, id: Nat]

VARIABLES
  log,         \* lines of the log file, oldest first
  inode,       \* identity of the log file
  written,     \* number of lines written so far
  truncated,   \* number of truncations so far
  mem,         \* the agent's state dictionary
  disk,        \* the state file
  pc,          \* where the agent is in cycle
  recovering,  \* the local of that name in cycle
  issued,      \* number of event ids drawn so far
  horizon,     \* ids up to here are older than the archive window
  stored,      \* the events table
  recorded,    \* number of event rows of each line
  late,        \* batches whose request timed out and may still be carried out
  heard,       \* the control plane heard of the agent's health since the last
               \* collection
  faults       \* number of faults so far

fileVars   == <<log, inode, written, truncated>>
agentVars  == <<mem, disk, pc, recovering, issued>>
serverVars == <<horizon, stored, recorded, late>>
vars == <<fileVars, agentVars, serverVars, heard, faults>>

LinesOf(events) == {e.line : e \in events} \ {0}

State == [inode: Nat, pos: Nat, outbox: Seq(Events \cup {Beat}),
          status: {"none", "ok", "error"}, paused: BOOLEAN]

\* The slots between Limit and Capacity are for health events only.
Bounded(outbox) ==
  /\ Len(outbox) <= Capacity
  /\ \A i \in DOMAIN outbox : i > Limit => outbox[i] = Beat

TypeOK ==
  /\ log \in Seq(Lines) /\ inode \in Nat /\ written \in 0..MaxLines
  /\ truncated \in 0..MaxResets
  /\ mem \in State /\ disk \in State
  /\ Bounded(mem.outbox) /\ Bounded(disk.outbox)
  /\ pc \in {"asleep", "collect", "save", "health", "send", "sent", "recovered",
             "finish", "failed"}
  /\ recovering \in BOOLEAN
  /\ issued \in Nat /\ horizon \in 0..MaxStale
  /\ stored \in SUBSET Events
  /\ recorded \in [Lines -> Nat]
  /\ late \in SUBSET Seq(Events \cup {Beat})
  /\ heard \in BOOLEAN
  /\ faults \in 0..MaxFaults

Init ==
  /\ log = <<>> /\ inode = 1 /\ written = 0 /\ truncated = 0
  /\ disk = [inode |-> 0, pos |-> 0, outbox |-> <<>>, status |-> "none",
             paused |-> FALSE]
  /\ mem = disk
  /\ pc = "asleep" /\ recovering = FALSE /\ issued = 0
  /\ horizon = 0 /\ stored = {} /\ recorded = [l \in Lines |-> 0] /\ late = {}
  /\ heard = FALSE /\ faults = 0

-----------------------------------------------------------------------------
(* The monitored log.                                                      *)

WriteLine ==
  /\ written < MaxLines
  /\ written' = written + 1
  /\ log' = Append(log, written')
  /\ UNCHANGED <<inode, truncated, agentVars, serverVars, heard, faults>>

\* A rotation puts a new file in the log's place.
Rotate ==
  /\ (inode - 1) + truncated < MaxResets
  /\ inode' = inode + 1
  /\ log' = <<>>
  /\ UNCHANGED <<written, truncated, agentVars, serverVars, heard, faults>>

\* copytruncate empties the same file.
Truncate ==
  /\ (inode - 1) + truncated < MaxResets
  /\ truncated' = truncated + 1
  /\ log' = <<>>
  /\ UNCHANGED <<inode, written, agentVars, serverVars, heard, faults>>

-----------------------------------------------------------------------------
(* The control plane.                                                      *)

Stale(e) == e # Beat /\ e.id <= horizon

RefusesKnown(batch) == \A e \in ToSet(batch) : ~Stale(e) /\ e \notin stored

\* One event outside the archive window refuses its whole batch.
Acceptable(batch) == \A e \in ToSet(batch) : ~Stale(e)

RecordsAgain(e) == e # Beat

\* An event whose (host, event_id) the table does not have.
New(e) == e # Beat /\ e \notin stored

\* ingest, one BEGIN IMMEDIATE transaction.
Ingest(batch) ==
  LET new == {e \in ToSet(batch) : New(e)} IN
  /\ stored' = stored \cup new
  /\ recorded' = [l \in Lines |->
                    recorded[l] + Cardinality({e \in new : e.line = l})]

\* A request that timed out at the agent is carried out after all.
LateIngest ==
  \E batch \in late :
    /\ late' = late \ {batch}
    /\ IF Acceptable(batch) THEN Ingest(batch)
                            ELSE UNCHANGED <<stored, recorded>>
    /\ UNCHANGED <<fileVars, agentVars, horizon, heard, faults>>

\* An outage lasts longer than the archive window of some event.
Outlive ==
  /\ horizon < issued /\ horizon < MaxStale
  /\ horizon' = horizon + 1
  /\ UNCHANGED <<fileVars, agentVars, stored, recorded, late, heard, faults>>

-----------------------------------------------------------------------------
(* The agent: main and cycle.                                              *)

\* main reloads only committed state.
Load ==
  /\ pc = "asleep"
  /\ mem' = disk
  /\ pc' = "collect"
  /\ UNCHANGED <<fileVars, disk, recovering, issued, serverVars, heard, faults>>

\* Where collect_log starts to read: the offset if the file is the same and
\* not shorter, else its beginning; a new source starts at its end.
Position ==
  IF mem.inode = 0
  THEN IF ReadFromStart THEN 0 ELSE Len(log)
  ELSE IF mem.inode = inode /\ mem.pos <= Len(log) THEN mem.pos ELSE 0

Least(a, b) == IF a < b THEN a ELSE b

\* An outbox without its heartbeats.
Evidence(outbox) ==
  LET kept[n \in 0..Len(outbox)] ==
        IF n = 0 THEN <<>>
        ELSE IF outbox[n] = Beat THEN kept[n - 1]
        ELSE Append(kept[n - 1], outbox[n])
  IN kept[Len(outbox)]

EvictsForHealth(outbox) ==
  LET evidence == Evidence(outbox)
  IN  Append(IF Len(evidence) < Limit THEN evidence ELSE Tail(evidence), Beat)

\* Unsent heartbeats are coalesced into one, if there is room.
WithHeartbeat(outbox) ==
  LET evidence == Evidence(outbox)
  IN  IF Len(evidence) < Capacity THEN Append(evidence, Beat) ELSE evidence

Queued(outbox, new) == outbox \o new

\* collect: nothing at all when the outbox is full.
Collect ==
  LET room   == Limit - Len(mem.outbox)
      number == Least(room, Len(log) - Position)
      new    == [i \in 1..number |-> [line |-> log[Position + i], id |-> issued + i]]
      outbox == Queued(mem.outbox, new)
  IN
  /\ pc = "collect"
  /\ pc' = "save"
  /\ heard' = FALSE
  /\ IF Len(mem.outbox) >= Limit
     THEN /\ mem' = [mem EXCEPT !.paused = TRUE]
          /\ UNCHANGED issued
     ELSE /\ mem' = [mem EXCEPT !.inode = inode,
                                !.pos = Position + number,
                                !.paused = Len(outbox) >= Limit,
                                !.outbox = WithHeartbeat(outbox)]
          /\ issued' = issued + number
  /\ UNCHANGED <<fileVars, disk, recovering, serverVars, faults>>

HidesHealth(state) == FALSE

\* Whether this cycle must report on delivery itself first.
Recovering(state) == state.paused \/ state.status = "error"

\* save_state before any network activity: offsets and outbox together.
Save ==
  /\ pc = "save"
  /\ disk' = mem
  /\ recovering' = Recovering(mem)
  /\ pc' = IF recovering' THEN "health" ELSE "send"
  /\ UNCHANGED <<fileVars, mem, issued, serverVars, heard, faults>>

\* A request or its answer is lost, or the control plane is unavailable.
Lose ==
  /\ faults < MaxFaults
  /\ faults' = faults + 1
  /\ pc' = "failed"
  /\ mem' = [mem EXCEPT !.status = "error"]

\* The health events outside the outbox, before the batches.
SendHealth ==
  /\ pc = "health"
  /\ \/ heard' = TRUE /\ pc' = "send" /\ UNCHANGED <<mem, faults>>
     \/ Lose /\ heard' \in {heard, TRUE}
  /\ UNCHANGED <<fileVars, disk, recovering, issued, serverVars>>

NewestBatch ==
  LET n == Len(mem.outbox) IN SubSeq(mem.outbox, n + 1 - Least(BatchSize, n), n)

Batch == SubSeq(mem.outbox, 1, Least(BatchSize, Len(mem.outbox)))

Rest(outbox, batch) == SubSeq(outbox, Len(batch) + 1, Len(outbox))

\* One POST of the head of the outbox.
Send ==
  /\ pc = "send" /\ mem.outbox # <<>>
  /\ \/ /\ Acceptable(Batch)
        /\ Ingest(Batch)
        /\ heard' = TRUE
        /\ mem' = [mem EXCEPT !.outbox = Rest(mem.outbox, Batch), !.status = "ok"]
        /\ pc' = "sent"
        /\ UNCHANGED <<late, faults>>
     \/ /\ ~Acceptable(Batch)                          \* 422
        /\ mem' = [mem EXCEPT !.status = "error"]
        /\ pc' = "failed"
        /\ UNCHANGED <<stored, recorded, late, heard, faults>>
     \/ /\ Lose
        /\ \/ UNCHANGED <<stored, recorded, late, heard>>
           \/ Acceptable(Batch) /\ Ingest(Batch) /\ heard' = TRUE /\ UNCHANGED late
           \/ late' = late \cup {Batch} /\ UNCHANGED <<stored, recorded, heard>>
  /\ UNCHANGED <<fileVars, disk, recovering, issued, horizon>>

\* The acknowledged batch leaves the state file.
SaveSent ==
  /\ pc = "sent"
  /\ disk' = mem
  /\ pc' = "send"
  /\ UNCHANGED <<fileVars, mem, recovering, issued, serverVars, heard, faults>>

\* The outbox is empty: a recovering agent reports that delivery is back.
Drained ==
  /\ pc = "send" /\ mem.outbox = <<>>
  /\ IF recovering
     THEN /\ mem' = [mem EXCEPT !.paused = FALSE]
          /\ disk' = mem'
          /\ pc' = "recovered"
     ELSE pc' = "finish" /\ UNCHANGED <<mem, disk>>
  /\ UNCHANGED <<fileVars, recovering, issued, serverVars, heard, faults>>

SendRecovered ==
  /\ pc = "recovered"
  /\ \/ /\ heard' = TRUE
        /\ mem' = [mem EXCEPT !.status = "ok"]
        /\ pc' = "finish"
        /\ UNCHANGED faults
     \/ Lose /\ heard' \in {heard, TRUE}
  /\ UNCHANGED <<fileVars, disk, recovering, issued, serverVars>>

\* The save that ends a cycle, after success and after a failure.
Finish ==
  /\ pc \in {"finish", "failed"}
  /\ disk' = mem
  /\ pc' = "asleep"
  /\ UNCHANGED <<fileVars, mem, recovering, issued, serverVars, heard, faults>>

\* The process dies; the service manager starts it again.
Crash ==
  /\ pc # "asleep"
  /\ faults < MaxFaults
  /\ faults' = faults + 1
  /\ pc' = "asleep"
  /\ UNCHANGED <<fileVars, mem, disk, recovering, issued, serverVars, heard>>

AgentStep ==
  \/ Load \/ Collect \/ Save \/ SendHealth \/ Send \/ SaveSent \/ Drained
  \/ SendRecovered \/ Finish

Next ==
  \/ AgentStep \/ Crash
  \/ WriteLine \/ Rotate \/ Truncate
  \/ LateIngest \/ Outlive

Spec == Init /\ [][Next]_vars

\* main loops for ever; MaxFaults says that requests eventually succeed.
FairSpec == Spec /\ WF_vars(AgentStep)

-----------------------------------------------------------------------------
(* Properties.                                                             *)

\* The lines that a state of the agent answers for.
Taken(state) == LinesOf(ToSet(state.outbox)) \cup LinesOf(stored)

\* The lines before the offset of the current file are in the outbox or stored; a
\* source that starts at its end passes over the lines before its first.
OffsetHolds(state) ==
  state.inode = inode /\ state.pos <= Len(log) =>
    \A i \in 1..state.pos :
      \/ log[i] \in Taken(state)
      \/ ~ReadFromStart /\ \A k \in 1..i : log[k] \notin Taken(state)

\* README.md, "The local outbox commits log offsets ... and events together
\* before transmission": as long as no log is truncated in place, no line is
\* passed over, whatever crash or full outbox interrupts a collection.
OffsetsMeanCollected == truncated = 0 => OffsetHolds(disk)

\* "Unacknowledged events are retained by the agent": evidence leaves the
\* state file only once it is stored.
UnacknowledgedIsRetained ==
  [][\A e \in ToSet(disk.outbox) :
       e \in ToSet(disk'.outbox) \/ e \in stored' \/ e = Beat]_vars

\* Evidence is stored in the order of its collection: what is still unsent is
\* younger than everything stored, whatever was retried or came late.
StoredInOrder ==
  \A e \in stored, f \in ToSet(disk.outbox) :
    f # Beat /\ f \notin stored => e.id < f.id

\* Taken once, recorded once: retries, restarts and late requests never give a
\* line a second row, which would count twice against a detection threshold.
Channel == INSTANCE EvidenceChannel
             WITH taken <- Taken(disk)
ImplementsChannel == Channel!Spec

\* Every line in the durable outbox is eventually stored, and so is every line
\* of the log that is not rotated away unread, as long as no outage outlives the
\* archive window and no log is truncated in place: a full outbox, a lost answer
\* or a restart only delays.
EvidenceArrives ==
  \A l \in Lines :
    /\ l \in LinesOf(ToSet(disk.outbox)) ~> l \in LinesOf(stored) \/ horizon > 0
    /\ l \in ToSet(log) ~> \/ l \in LinesOf(stored) \/ l \notin ToSet(log)
                           \/ horizon > 0 \/ truncated > 0

\* cycle: "A full queue or invalid retained batch must not hide live
\* delivery/agent health": the control plane hears of the agent for ever, even
\* when the head of the outbox is refused for ever.
HealthIsHeard == []<>heard

-----------------------------------------------------------------------------
(* The inductive invariant.                                                *)

\* The states of the agent that count: the file, and memory while it runs.
Current == {disk} \cup IF pc = "asleep" THEN {} ELSE {mem}

\* The evidence that a state answers for.
Known(state) == (ToSet(state.outbox) \cup stored) \ {Beat}

\* A log is read in order, and holds nothing of an earlier log.
FileInv ==
  /\ inode > 0
  /\ \A i \in DOMAIN log : log[i] <= written
  /\ \A i, j \in DOMAIN log : i < j => log[i] < log[j]

\* Where the next collection of a state starts to read the file.
Reached(state) == IF state.inode = inode /\ state.pos <= Len(log) THEN state.pos ELSE 0

\* Events have numbers in the order of the outbox,
Ordered(outbox) ==
  \A i, j \in DOMAIN outbox :
    i < j /\ outbox[i] # Beat /\ outbox[j] # Beat => outbox[i].id < outbox[j].id

\* and each line has one event; what follows the offset has none yet.
OutboxInv(state) ==
  /\ Ordered(state.outbox)
  /\ \A e \in Known(state) : e.line <= written /\ e.id <= issued
  /\ \A e, f \in Known(state) : e.line = f.line => e = f
  /\ \A i \in DOMAIN log : i > Reached(state) => log[i] \notin Taken(state)

OffsetInv(state) ==
  /\ state.inode <= inode
  /\ truncated = 0 /\ state.inode = inode => state.pos <= Len(log)
  /\ truncated = 0 => OffsetHolds(state)

\* All older evidence of the outbox is stored with the events, or stored already.
Precedes(events, state) ==
  \A e \in events, f \in ToSet(state.outbox) :
    e # Beat /\ f # Beat /\ f.id <= e.id => f \in stored \cup events

\* What is stored, or may still be, comes from the outbox and in its order.
OrderInv(state) ==
  /\ Precedes(stored, state)
  /\ \A batch \in late :
       /\ Precedes(ToSet(batch), state)
       /\ ToSet(batch) \subseteq Known(state) \cup {Beat}

StateInv(state) == OutboxInv(state) /\ OffsetInv(state) /\ OrderInv(state)

\* Memory holds on to what is on disk until it is stored; what is sent is on disk.
AgentInv ==
  /\ pc # "asleep" => ToSet(disk.outbox) \subseteq Known(mem) \cup {Beat}
  /\ pc \in {"health", "send"} => mem.outbox = disk.outbox

RecordInv == \A l \in Lines : recorded[l] = IF l \in LinesOf(stored) THEN 1 ELSE 0

IInv ==
  /\ TypeOK /\ FileInv /\ AgentInv /\ RecordInv
  /\ \A state \in Current : StateInv(state)
=============================================================================
