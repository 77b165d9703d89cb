--------------------------- MODULE FindingLifecycle ---------------------------
(***************************************************************************)
(* The findings of one asset across its scans.  A scan task (tasks.py) runs *)
(* the collectors of its targets (orchestrator.py), reads the rows of the  *)
(* asset, plans what changed and commits (db.py); an enrichment task adds  *)
(* live threat intelligence to the rows later.  Celery delivers a task at  *)
(* least once, and several workers scan one asset at the same time.        *)
(*                                                                         *)
(* A finding is its fingerprint.  Of a row the model keeps the status,     *)
(* is_new, whether fixed_at is set, the scan execution its finding_id is   *)
(* from, and where its risk stands: as scored, at the escalation floor, or *)
(* suppressed by a VEX statement.  SQLAlchemy writes the columns that      *)
(* differ from what it loaded, and READ COMMITTED lets two transactions    *)
(* read the same rows.                                                     *)
(*                                                                         *)
(* A definition standing before the one whose parameters it shares, and    *)
(* used nowhere, is a mutated form of it (PROJECT.json, "mutants").        *)
(***************************************************************************)
EXTENDS Naturals, FiniteSets

CONSTANTS
  Fps,            \* fingerprints
  Tools,          \* collectors
  Covers,         \* what each collector can see: [Tools -> SUBSET Fps]
  TargetChoices,  \* the sets of collectors a request may configure
  VexChoices,     \* the findings the VEX documents of a request suppress
  Exploited,      \* what threat intelligence may report as exploited
  Marks,          \* the statuses analysts use
  Jobs,           \* scan tasks in the queue or at a worker at one time
  Ids,            \* identities of executions, enough for those in use
  None,
  MaxScans,       \* bounds: requests,
  MaxChanges,     \* vulnerabilities that appear or are remedied,
  MaxMisses,      \* failures of collectors, workers and the database,
  MaxMarks,       \* and analysts' decisions
  Endless         \* scans are requested for ever: no bound on requests

ASSUME FindingAssumption ==
  /\ Covers \in [Tools -> SUBSET Fps]
  /\ TargetChoices \subseteq SUBSET Tools /\ VexChoices \subseteq SUBSET Fps
  /\ Exploited \subseteq Fps /\ None \notin Ids
  /\ Marks \subseteq {"triaged", "false_positive", "accepted"}
  /\ MaxScans \in Nat /\ MaxChanges \in Nat /\ MaxMisses \in Nat
  /\ MaxMarks \in Nat /\ Endless \in BOOLEAN

VARIABLES
  present,  \* the vulnerabilities the asset has
  rows,     \* the findings table
  job,      \* the scan tasks
  tasks,    \* the enrichment tasks
  scans, changes, misses, marks

bounds == <<scans, changes, misses, marks>>
vars == <<present, rows, job, tasks, bounds>>

\* Statuses an analyst owns.
Protected == {"false_positive", "accepted"}
Statuses == {"open", "triaged", "fixed"} \cup Protected
Levels == {"scored", "floored", "suppressed"}
Rows == [status : Statuses, isNew : BOOLEAN, stamped : BOOLEAN, id : Ids,
         level : Levels]
NoRow == [status |-> "none"]
Tables == [Fps -> Rows \cup {NoRow}]

Working == {"looking", "writing", "ending"}
MaxRetries == 2
NoTable == [f \in Fps |-> NoRow]

TypeOK ==
  /\ present \in SUBSET Fps
  /\ rows \in Tables
  /\ job \in [Jobs -> [stage : {"idle", "queued"} \cup Working,
                       tries : 0..MaxRetries, tools : SUBSET Tools,
                       vex : SUBSET Fps, id : Ids \cup {None},
                       left : SUBSET Tools, found : SUBSET Fps,
                       silent : SUBSET Tools, table : Tables,
                       ok : BOOLEAN, steady : SUBSET Fps]]
  /\ tasks \in SUBSET [id : Ids, found : SUBSET Fps, vex : SUBSET Fps]
  /\ scans \in 0..MaxScans /\ changes \in 0..MaxChanges
  /\ misses \in 0..MaxMisses /\ marks \in 0..MaxMarks

\* A task that waits for a worker; "steady" is filled when it starts.
Waiting(stage, tries, tools, vex) ==
  [stage |-> stage, tries |-> tries, tools |-> tools, vex |-> vex,
   id |-> None, left |-> {}, found |-> {}, silent |-> {}, table |-> NoTable,
   ok |-> FALSE, steady |-> {}]

Init ==
  /\ present \in SUBSET Fps
  /\ rows = NoTable
  /\ job = [j \in Jobs |-> Waiting("idle", 0, {}, {})]
  /\ tasks = {}
  /\ scans = 0 /\ changes = 0 /\ misses = 0 /\ marks = 0

-----------------------------------------------------------------------------
(* What a scan makes of a row (reconcile_plan, reconcile_findings).        *)

Recorded(table) == {f \in Fps : table[f] # NoRow}

Insert(s) == s.found \ Recorded(s.table)
Update(s) == s.found \cap Recorded(s.table)
Reopen(s) == {f \in s.found : s.table[f].status = "fixed"}

ClosesMarked(s) ==
  {f \in Recorded(s.table) : f \notin s.found /\ s.table[f].status # "fixed"}

Close(s) ==
  {f \in Recorded(s.table) :
     f \notin s.found /\ s.table[f].status \notin {"fixed"} \cup Protected}

\* VEX is applied after the scoring.
Level(s, f) == IF f \in s.vex THEN "suppressed" ELSE "scored"

NewRow(s, f) ==
  [status |-> "open", isNew |-> TRUE, stamped |-> FALSE, id |-> s.id,
   level |-> Level(s, f)]

StaysNew(s, f) ==
  LET row == s.table[f]
      back == f \in Reopen(s)
  IN [row EXCEPT !.level = Level(s, f),
                 !.status = IF back THEN "open" ELSE @,
                 !.stamped = IF back THEN FALSE ELSE @]

SeenAgain(s, f) ==
  LET row == s.table[f]
      back == f \in Reopen(s)
  IN [row EXCEPT !.isNew = back, !.level = Level(s, f),
                 !.status = IF back THEN "open" ELSE @,
                 !.stamped = IF back THEN FALSE ELSE @]

\* The flush writes the columns that differ from what was loaded.
Column(loaded, wanted, stored) == IF wanted = loaded THEN stored ELSE wanted

Flush(loaded, wanted, stored) ==
  [status |-> Column(loaded.status, wanted.status, stored.status),
   isNew |-> Column(loaded.isNew, wanted.isNew, stored.isNew),
   stamped |-> Column(loaded.stamped, wanted.stamped, stored.stamped),
   id |-> stored.id,
   level |-> Column(loaded.level, wanted.level, stored.level)]

\* A plan closes rows it did not read as fixed, and the time is a new one: both
\* columns are written.
Closed(f) == [rows[f] EXCEPT !.status = "fixed", !.stamped = TRUE]

Reconciled(s, f) ==
  IF f \in Insert(s) THEN NewRow(s, f)
  ELSE IF f \in Update(s) THEN Flush(s.table[f], SeenAgain(s, f), rows[f])
  ELSE IF f \in Close(s) THEN Closed(f)
  ELSE rows[f]

-----------------------------------------------------------------------------
(* A scan task.                                                            *)

\* POST /scans: some collector must be configured.
Request(j, tools, vex) ==
  /\ job[j].stage = "idle"
  /\ tools # {}
  /\ \/ Endless /\ UNCHANGED scans
     \/ ~Endless /\ scans < MaxScans /\ scans' = scans + 1
  /\ job' = [job EXCEPT ![j] = Waiting("queued", 0, tools, vex)]
  /\ UNCHANGED <<present, rows, tasks, changes, misses, marks>>

InUse == {rows[f].id : f \in Recorded(rows)} \cup {job[j].id : j \in Jobs}
           \cup {t.id : t \in tasks}

\* uuid4; which of the unused identities it is makes no difference.
Fresh == CHOOSE i \in Ids : i \notin InUse

Start(j) ==
  /\ job[j].stage = "queued"
  /\ Ids \ InUse # {}
  /\ job' = [job EXCEPT ![j].stage = "looking", ![j].id = Fresh,
                        ![j].left = job[j].tools, ![j].steady = present]
  /\ UNCHANGED <<present, rows, tasks, bounds>>

\* An exception outside of the collectors: Celery retries the task.
Abort(j) ==
  /\ job[j].stage = "queued" /\ misses < MaxMisses
  /\ misses' = misses + 1
  /\ IF job[j].tries < MaxRetries
     THEN job' = [job EXCEPT ![j].tries = @ + 1]
     ELSE job' = [job EXCEPT ![j] = Waiting("idle", 0, {}, {})]
  /\ UNCHANGED <<present, rows, tasks, scans, changes, marks>>

LooksAlone(j, t) ==
  /\ job[j].stage = "looking" /\ t \in job[j].left
  /\ job' = [job EXCEPT ![j].left = @ \ {t}, ![j].found = Covers[t] \cap present]
  /\ UNCHANGED <<present, rows, tasks, bounds>>

\* A collector answers.
Look(j, t) ==
  /\ job[j].stage = "looking" /\ t \in job[j].left
  /\ job' = [job EXCEPT ![j].left = @ \ {t},
                        ![j].found = @ \cup (Covers[t] \cap present)]
  /\ UNCHANGED <<present, rows, tasks, bounds>>

\* A collector times out, crashes or answers with an error: no findings.
Miss(j, t) ==
  /\ job[j].stage = "looking" /\ t \in job[j].left /\ misses < MaxMisses
  /\ misses' = misses + 1
  /\ job' = [job EXCEPT ![j].left = @ \ {t}, ![j].silent = @ \cup {t}]
  /\ UNCHANGED <<present, rows, tasks, scans, changes, marks>>

\* The rows of the asset are loaded.
Read(j) ==
  /\ job[j].stage = "looking" /\ job[j].left = {}
  /\ job' = [job EXCEPT ![j].stage = "writing", ![j].table = rows]
  /\ UNCHANGED <<present, rows, tasks, bounds>>

\* How reconcile_findings ended; its exception becomes an entry of errors.
Persisted(j, ok) ==
  job' = [job EXCEPT ![j].stage = "ending", ![j].ok = ok, ![j].table = NoTable,
                     ![j].silent = {}, ![j].steady = {}]

\* Another scan inserted one of the new fingerprints: nothing is written.
Conflict(j) == Insert(job[j]) \cap Recorded(rows) # {}

Commit(j) ==
  /\ job[j].stage = "writing"
  /\ \/ /\ ~Conflict(j)
        /\ rows' = [f \in Fps |-> Reconciled(job[j], f)]
        /\ Persisted(j, TRUE)
     \/ /\ Conflict(j)
        /\ Persisted(j, FALSE) /\ UNCHANGED rows
  /\ UNCHANGED <<present, tasks, bounds>>

\* The database fails, or ends one of two transactions in a deadlock.
Rollback(j) ==
  /\ job[j].stage = "writing" /\ misses < MaxMisses
  /\ misses' = misses + 1
  /\ Persisted(j, FALSE)
  /\ UNCHANGED <<present, rows, tasks, scans, changes, marks>>

\* The findings are handed to an enrichment task, persisted or not, when the AI
\* features are on (Exploited is not empty).
Finish(j) ==
  /\ job[j].stage = "ending"
  /\ tasks' = IF Exploited # {} /\ job[j].found # {}
              THEN tasks \cup {[id |-> job[j].id, found |-> job[j].found,
                                vex |-> job[j].vex]}
              ELSE tasks
  /\ job' = [job EXCEPT ![j] = Waiting("idle", 0, {}, {})]
  /\ UNCHANGED <<present, rows, bounds>>

\* The worker dies: the task was not acknowledged and is delivered again.
Lose(j) ==
  /\ job[j].stage \in Working /\ misses < MaxMisses
  /\ misses' = misses + 1
  /\ job' = [job EXCEPT ![j] = Waiting("queued", @.tries, @.tools, @.vex)]
  /\ UNCHANGED <<present, rows, tasks, scans, changes, marks>>

-----------------------------------------------------------------------------
(* Enrichment, analysts and the asset.                                     *)

\* Annotated findings are written to the rows with their finding_id; a task
\* delivered again does so again.
Enrich(t, annotated, hit) ==
  /\ \/ tasks' = tasks \ {t}
     \/ UNCHANGED tasks
  /\ rows' = [f \in Fps |->
       IF rows[f] # NoRow /\ f \in annotated /\ rows[f].id = t.id
       THEN [rows[f] EXCEPT !.level = IF f \in hit THEN "floored"
                                      ELSE Level(t, f)]
       ELSE rows[f]]
  /\ UNCHANGED <<present, job, bounds>>

Analyst(f, status) ==
  /\ rows[f] # NoRow /\ rows[f].status \notin Protected /\ marks < MaxMarks
  /\ marks' = marks + 1
  /\ rows' = [rows EXCEPT ![f].status = status]
  /\ UNCHANGED <<present, job, tasks, scans, changes, misses>>

Appear(f) ==
  /\ f \notin present /\ changes < MaxChanges
  /\ changes' = changes + 1
  /\ present' = present \cup {f}
  /\ UNCHANGED <<rows, job, tasks, scans, misses, marks>>

Remedy(f) ==
  /\ f \in present /\ changes < MaxChanges
  /\ changes' = changes + 1
  /\ present' = present \ {f}
  /\ job' = [j \in Jobs |-> [job[j] EXCEPT !.steady = @ \ {f}]]
  /\ UNCHANGED <<rows, tasks, scans, misses, marks>>

Scan(j) ==
  \/ \E tools \in TargetChoices, vex \in VexChoices : Request(j, tools, vex)
  \/ Start(j) \/ Abort(j) \/ Read(j) \/ Commit(j) \/ Rollback(j)
  \/ Finish(j) \/ Lose(j)
  \/ \E t \in Tools : Look(j, t) \/ Miss(j, t)

Next ==
  \/ \E j \in Jobs : Scan(j)
  \/ \E t \in tasks : \E annotated \in SUBSET t.found :
       \E hit \in SUBSET (annotated \cap Exploited) : Enrich(t, annotated, hit)
  \/ \E f \in Fps, status \in Marks : Analyst(f, status)
  \/ \E f \in Fps : Appear(f) \/ Remedy(f)

Spec == Init /\ [][Next]_vars

\* Every collector answers or is given up after per_collector_timeout, Celery
\* delivers a queued task to a worker, and (Endless) scans are requested for ever.
FairSpec ==
  /\ Spec
  /\ \A j \in Jobs :
       /\ WF_vars(\E tools \in TargetChoices, vex \in VexChoices :
                    Request(j, tools, vex))
       /\ WF_vars(Start(j) \/ Read(j) \/ Commit(j) \/ Finish(j))
       /\ \A t \in Tools : WF_vars(Look(j, t))
  /\ WF_vars(\E t \in tasks : \E annotated \in SUBSET t.found :
               \E hit \in SUBSET (annotated \cap Exploited) :
                 Enrich(t, annotated, hit) /\ t \notin tasks')

-----------------------------------------------------------------------------
(* The inductive invariant.                                                *)

\* fixed_at and status go together in a table of rows.
Stamped(table) ==
  \A f \in Fps :
    /\ table[f].status = "fixed" => table[f].stamped
    /\ table[f].status = "open" => ~table[f].stamped

\* What a running scan knows: the collectors that answered have seen what was
\* there all along, and rows are never deleted under its plan.
ScanInv ==
  \A j \in Jobs :
    /\ job[j].steady \subseteq present
    /\ job[j].stage = "writing" => job[j].left = {}
    /\ job[j].stage \in {"looking", "writing"} =>
         \A t \in job[j].tools \ (job[j].left \cup job[j].silent) :
           Covers[t] \cap job[j].steady \subseteq job[j].found
    /\ Stamped(job[j].table)
    /\ Recorded(job[j].table) \subseteq Recorded(rows)
    /\ job[j].stage = "ending" /\ job[j].ok => job[j].found \subseteq Recorded(rows)
    /\ job[j].stage \in Working => job[j].id \in Ids

IInv == TypeOK /\ Stamped(rows) /\ ScanInv

-----------------------------------------------------------------------------
(* Properties.                                                             *)

\* A step of scan j commits its plan.
Commits(j) == job[j].stage = "writing" /\ job'[j].stage = "ending" /\ job'[j].ok

IsClosed(f) == rows[f] # NoRow /\ rows[f].status # "fixed" /\ rows'[f].status = "fixed"

\* A collector of scan j that can see f has answered.
Answered(j, f) == \E t \in job[j].tools \ job[j].silent : f \in Covers[t]

\* fixed_at says when a finding was closed: a fixed row has one and an open row
\* has none, whatever scans and analysts write to the row at the same time.
FixedIsStamped ==
  \A f \in Recorded(rows) :
    /\ rows[f].status = "fixed" => rows[f].stamped
    /\ rows[f].status = "open" => ~rows[f].stamped

\* A scan whose collectors of a finding answered closes it only if the asset was
\* rid of it at some moment of the scan: the plan compares what was found with
\* rows that other scans may have written since.
ClosedWasGone ==
  [][\A j \in Jobs, f \in Fps :
       Commits(j) /\ IsClosed(f) /\ Answered(j, f) => f \notin job[j].steady]_vars

\* "Statuses an analyst owns -- never auto-closed or reopened by a re-scan":
\* only a scan that read the row before the decision can overwrite it.
DecisionIsKept ==
  [][\A f \in Recorded(rows) :
       /\ rows[f].status \in Protected
       /\ rows'[f].status # rows[f].status
       => \E j \in Jobs : Commits(j) /\ job[j].table[f] # NoRow
                           /\ job[j].table[f].status \notin Protected]_vars

\* What a scan task reports as persisted has a row, although a concurrent scan
\* may have refused the whole transaction.
ReportedIsRecorded ==
  \A j \in Jobs :
    job[j].stage = "ending" /\ job[j].ok => job[j].found \subseteq Recorded(rows)

\* Once the asset no longer changes and the failures are over, repeated scans
\* make the rows agree with it, however the scans overlap: open exactly what is
\* there unless an analyst decided otherwise, and nothing is new any more.
Accurate ==
  \A f \in Fps :
    /\ f \in present => /\ rows[f] # NoRow
                         /\ rows[f].status \notin {"fixed"}
                         /\ ~rows[f].isNew
    /\ f \notin present /\ rows[f] # NoRow =>
         rows[f].status \in {"fixed"} \cup Protected
Converges == <>[]Accurate

\* _persist_evidence_updates: "so live-exploitation escalation survives into the
\* DB": a later scan that sees the finding again, and no VEX statement about it,
\* does not take its escalation back.
EscalationSurvives ==
  [][\A j \in Jobs, f \in Recorded(rows) :
       Commits(j) /\ rows[f].level = "floored" => rows'[f].level # "scored"]_vars
=============================================================================
