------------------------ MODULE FindingLifecycle_proofs ------------------------
(***************************************************************************)
(* Proofs about FindingLifecycle, for any fingerprints, collectors, scans, *)
(* analysts' decisions and failures.  A step changes a row in three ways:  *)
(* a commit, an enrichment or an analyst; the lemmas of the first part say *)
(* what each makes of the row.                                             *)
(***************************************************************************)
EXTENDS FindingLifecycle, TLAPS

USE FindingAssumption

Stages == {"idle", "queued"} \cup Working
Scans == [stage : Stages, tries : 0..MaxRetries, tools : SUBSET Tools,
          vex : SUBSET Fps, id : Ids \cup {None}, left : SUBSET Tools,
          found : SUBSET Fps, silent : SUBSET Tools, table : Tables,
          ok : BOOLEAN, steady : SUBSET Fps]
Enrichments == [id : Ids, found : SUBSET Fps, vex : SUBSET Fps]

\* The part of the invariant about one scan.
ScanOK(s) ==
  /\ s.steady \subseteq present
  /\ s.stage = "writing" => s.left = {}
  /\ s.stage \in {"looking", "writing"} =>
       \A t \in s.tools \ (s.left \cup s.silent) :
         Covers[t] \cap s.steady \subseteq s.found
  /\ Stamped(s.table)
  /\ Recorded(s.table) \subseteq Recorded(rows)
  /\ s.stage = "ending" /\ s.ok => s.found \subseteq Recorded(rows)
  /\ s.stage \in Working => s.id \in Ids

-----------------------------------------------------------------------------
(* Rows.                                                                   *)

\* A row is not the absence of one.
LEMMA RowIsNotAbsent ==
  /\ \A r \in Rows : r # NoRow
  /\ NoRow.status \notin {"open", "fixed"}
BY DEF Rows, NoRow, Statuses, Protected

LEMMA NoTableFacts ==
  /\ NoTable \in Tables
  /\ Stamped(NoTable)
  /\ Recorded(NoTable) = {}
BY DEF NoTable, Tables, Stamped, Recorded, NoRow

\* A flush writes only values of the two rows it was given.
LEMMA FlushOK ==
  ASSUME NEW loaded \in Rows, NEW wanted \in Rows, NEW stored \in Rows
  PROVE  Flush(loaded, wanted, stored) \in Rows
<1>1. /\ wanted.status \in Statuses /\ stored.status \in Statuses
      /\ wanted.isNew \in BOOLEAN /\ stored.isNew \in BOOLEAN
      /\ wanted.stamped \in BOOLEAN /\ stored.stamped \in BOOLEAN
      /\ stored.id \in Ids
      /\ wanted.level \in Levels /\ stored.level \in Levels
  BY DEF Rows
<1>2. /\ Column(loaded.status, wanted.status, stored.status) \in Statuses
      /\ Column(loaded.isNew, wanted.isNew, stored.isNew) \in BOOLEAN
      /\ Column(loaded.stamped, wanted.stamped, stored.stamped) \in BOOLEAN
      /\ Column(loaded.level, wanted.level, stored.level) \in Levels
  BY <1>1, Zenon DEF Column
<1> QED BY <1>1, <1>2 DEF Flush, Rows

\* What a scan makes of a row it sees again.
LEMMA SeenOK ==
  ASSUME NEW s \in Scans, NEW f \in Fps, s.table[f] \in Rows
  PROVE  /\ SeenAgain(s, f) \in Rows
         /\ SeenAgain(s, f).status =
              IF f \in Reopen(s) THEN "open" ELSE s.table[f].status
         /\ SeenAgain(s, f).stamped =
              IF f \in Reopen(s) THEN FALSE ELSE s.table[f].stamped
<1>1. Level(s, f) \in Levels
  BY DEF Level, Levels
<1>2. (f \in Reopen(s)) \in BOOLEAN
  BY DEF Reopen
<1> QED BY <1>1, <1>2 DEF SeenAgain, Rows, Statuses

\* The row an insert makes.
LEMMA NewRowOK ==
  ASSUME NEW s \in Scans, NEW f \in Fps, s.id \in Ids
  PROVE  /\ NewRow(s, f) \in Rows
         /\ NewRow(s, f).status = "open" /\ ~NewRow(s, f).stamped
BY DEF NewRow, Rows, Statuses, Level, Levels

\* A committed row: it exists if it did or was found, its status and stamp
\* agree, only the plan closes it, and a decision the scan read stays.
LEMMA ReconciledOK ==
  ASSUME NEW s \in Scans, s.id \in Ids, rows \in Tables, Stamped(rows),
         Stamped(s.table), Recorded(s.table) \subseteq Recorded(rows),
         Insert(s) \cap Recorded(rows) = {}, NEW f \in Fps
  PROVE  /\ Reconciled(s, f) \in Rows \cup {NoRow}
         /\ f \in s.found \/ rows[f] # NoRow => Reconciled(s, f) # NoRow
         /\ Reconciled(s, f).status = "fixed" => Reconciled(s, f).stamped
         /\ Reconciled(s, f).status = "open" => ~Reconciled(s, f).stamped
         /\ rows[f].status # "fixed" /\ Reconciled(s, f).status = "fixed" =>
              f \notin s.found
         /\ rows[f] # NoRow /\ Reconciled(s, f).status # rows[f].status =>
              s.table[f] # NoRow /\ s.table[f].status \notin Protected
<1> DEFINE row == Reconciled(s, f)
<1>1. /\ s.table \in Tables /\ s.found \in SUBSET Fps
      /\ s.table[f] \in Rows \cup {NoRow} /\ rows[f] \in Rows \cup {NoRow}
  BY DEF Scans, Tables
<1>a. /\ rows[f].status = "fixed" => rows[f].stamped
      /\ rows[f].status = "open" => ~rows[f].stamped
      /\ s.table[f].status = "fixed" => s.table[f].stamped
  BY DEF Stamped
<1>b. s.table[f] # NoRow => rows[f] # NoRow
  BY DEF Recorded
<1>2. CASE f \in Insert(s)
  <2>1. row = NewRow(s, f) /\ rows[f] = NoRow
    BY <1>2 DEF Reconciled, Recorded
  <2>2. f \in s.found
    BY <1>2 DEF Insert
  <2> QED BY <2>1, <2>2, NewRowOK, RowIsNotAbsent
<1>3. CASE f \in Update(s)
  <2>1. f \in s.found /\ s.table[f] \in Rows /\ s.table[f] # NoRow /\ f \notin Insert(s)
    BY <1>1, <1>3 DEF Update, Insert, Recorded
  <2>2. rows[f] \in Rows
    BY <1>1, <1>b, <2>1
  <2>3. row = Flush(s.table[f], SeenAgain(s, f), rows[f])
    BY <1>3, <2>1 DEF Reconciled
  <2>4. f \in Reopen(s) <=> s.table[f].status = "fixed"
    BY <2>1 DEF Reopen
  <2>5. row \in Rows /\ row # NoRow
    <3>1. SeenAgain(s, f) \in Rows
      BY <2>1, SeenOK
    <3> QED BY <2>1, <2>2, <2>3, <3>1, FlushOK, RowIsNotAbsent
  <2>8. /\ row.status = Column(s.table[f].status, SeenAgain(s, f).status, rows[f].status)
        /\ row.stamped = Column(s.table[f].stamped, SeenAgain(s, f).stamped, rows[f].stamped)
    BY <2>3 DEF Flush
  <2>6. CASE f \in Reopen(s)
    <3>1. row.status = "open" /\ ~row.stamped
      <4>1. s.table[f].status = "fixed" /\ s.table[f].stamped
        BY <1>a, <2>4, <2>6
      <4>2. SeenAgain(s, f).status = "open" /\ SeenAgain(s, f).stamped = FALSE
        BY <2>1, <2>6, SeenOK
      <4> QED BY <2>8, <4>1, <4>2 DEF Column
    <3>2. s.table[f].status \notin Protected
      BY <2>4, <2>6 DEF Protected
    <3> QED BY <2>1, <2>5, <3>1, <3>2
  <2>7. CASE f \notin Reopen(s)
    <3>1. row.status = rows[f].status /\ row.stamped = rows[f].stamped
      BY <2>1, <2>8, <2>7, SeenOK DEF Column
    <3> QED BY <1>a, <2>1, <2>2, <2>5, <3>1
  <2> QED BY <2>6, <2>7
<1>4. CASE f \in Close(s)
  <2>1. /\ f \notin s.found /\ s.table[f] \in Rows /\ s.table[f] # NoRow
        /\ s.table[f].status \notin {"fixed"} \cup Protected
        /\ f \notin Insert(s) /\ f \notin Update(s)
    BY <1>1, <1>4 DEF Close, Insert, Update, Recorded
  <2>2. rows[f] \in Rows
    BY <1>1, <1>b, <2>1
  <2>3. row = Closed(f)
    BY <1>4, <2>1 DEF Reconciled
  <2>4. row \in Rows /\ row.status = "fixed" /\ row.stamped
    BY <2>2, <2>3 DEF Closed, Rows, Statuses
  <2> QED BY <2>1, <2>4, RowIsNotAbsent
<1>5. CASE f \notin Insert(s) /\ f \notin Update(s) /\ f \notin Close(s)
  <2>1. row = rows[f]
    BY <1>5 DEF Reconciled
  <2>2. f \notin s.found
    BY <1>1, <1>5 DEF Insert, Update
  <2> QED BY <1>1, <1>a, <2>1, <2>2
<1> QED BY <1>2, <1>3, <1>4, <1>5

-----------------------------------------------------------------------------
(* Steps.                                                                  *)

\* What a step does to the table: rows are never deleted.
RowsStep ==
  /\ rows' \in Tables
  /\ Stamped(rows')
  /\ Recorded(rows) \subseteq Recorded(rows')

\* A scan task that only waits satisfies its part of the invariant.
LEMMA WaitingOK ==
  ASSUME NEW stage \in {"idle", "queued"}, NEW tries \in 0..MaxRetries,
         NEW tools \in SUBSET Tools, NEW vex \in SUBSET Fps
  PROVE  /\ Waiting(stage, tries, tools, vex) \in Scans
         /\ ScanOK(Waiting(stage, tries, tools, vex))
         /\ Waiting(stage, tries, tools, vex).stage = stage
<1>1. Waiting(stage, tries, tools, vex) \in Scans
  BY NoTableFacts DEF Waiting, Scans, Stages
<1>2. ScanOK(Waiting(stage, tries, tools, vex))
  BY NoTableFacts DEF Waiting, ScanOK, Working
<1> QED BY <1>1, <1>2 DEF Waiting

\* The invariant, told scan by scan.
ByScan ==
  /\ present \in SUBSET Fps
  /\ rows \in Tables
  /\ job \in [Jobs -> Scans]
  /\ tasks \in SUBSET Enrichments
  /\ scans \in 0..MaxScans /\ changes \in 0..MaxChanges
  /\ misses \in 0..MaxMisses /\ marks \in 0..MaxMarks
  /\ Stamped(rows)
  /\ \A j \in Jobs : ScanOK(job[j])

LEMMA IInvByScan == IInv <=> ByScan
BY DEF IInv, ByScan, TypeOK, ScanInv, ScanOK, Scans, Stages, Enrichments

\* A scan that a step leaves alone keeps its part of the invariant.
LEMMA UntouchedScan ==
  ASSUME NEW x \in Jobs, ScanOK(job[x]), job'[x] = job[x],
         present \subseteq present', Recorded(rows) \subseteq Recorded(rows')
  PROVE  ScanOK(job[x])'
BY DEF ScanOK, Stamped, Recorded

\* A step of one scan that leaves the table and the asset alone.
LEMMA OneScanSteps ==
  ASSUME ByScan, NEW j \in Jobs, NEW s \in Scans, ScanOK(s),
         job' = [job EXCEPT ![j] = s],
         UNCHANGED <<present, rows>>, tasks' \in SUBSET Enrichments,
         scans' \in 0..MaxScans, misses' \in 0..MaxMisses,
         UNCHANGED <<changes, marks>>
  PROVE  ByScan'
<1>1. job \in [Jobs -> Scans] /\ \A x \in Jobs : ScanOK(job[x])
  BY DEF ByScan
<1>2. job' \in [Jobs -> Scans]
  BY <1>1
<1>3. ASSUME NEW x \in Jobs PROVE ScanOK(job[x])'
  <2>1. CASE x = j
    <3>1. job'[x] = s
      BY <1>1, <2>1
    <3> QED BY <3>1 DEF ScanOK, Stamped, Recorded
  <2>2. CASE x # j
    BY <1>1, <2>2, UntouchedScan
  <2> QED BY <2>1, <2>2
<1>4. /\ present' \in SUBSET Fps /\ rows' \in Tables
      /\ changes' \in 0..MaxChanges /\ marks' \in 0..MaxMarks
      /\ Stamped(rows)'
  BY DEF ByScan, Stamped
<1> QED BY <1>2, <1>3, <1>4 DEF ByScan

LEMMA RequestStep ==
  ASSUME ByScan, NEW j \in Jobs, NEW tools \in TargetChoices,
         NEW vex \in VexChoices, Request(j, tools, vex)
  PROVE  ByScan'
<1>1. tools \in SUBSET Tools /\ vex \in SUBSET Fps
  OBVIOUS
<1>2. scans' \in 0..MaxScans /\ tasks' \in SUBSET Enrichments /\ misses' \in 0..MaxMisses
  BY DEF Request, ByScan
<1>3. 0 \in 0..MaxRetries
  BY DEF MaxRetries
<1> QED BY <1>1, <1>2, <1>3, WaitingOK, OneScanSteps DEF Request

LEMMA StartStep ==
  ASSUME ByScan, NEW j \in Jobs, Start(j)
  PROVE  ByScan'
<1>1. job[j] \in Scans /\ ScanOK(job[j]) /\ job \in [Jobs -> Scans]
  BY DEF ByScan
<1>2. Fresh \in Ids
  BY DEF Start, Fresh
<1> DEFINE s == [job[j] EXCEPT !.stage = "looking", !.id = Fresh,
                               !.left = job[j].tools, !.steady = present]
<1>3. s \in Scans
  BY <1>1, <1>2 DEF Scans, Stages, Working, ByScan
<1>4. ScanOK(s)
  BY <1>1, <1>2 DEF ScanOK, Scans, Stages, Working
<1>5. job' = [job EXCEPT ![j] = s]
  BY <1>1 DEF Start, Scans
<1> QED BY <1>3, <1>4, <1>5, OneScanSteps DEF Start, bounds, ByScan

LEMMA AbortStep ==
  ASSUME ByScan, NEW j \in Jobs, Abort(j)
  PROVE  ByScan'
<1>1. job[j] \in Scans /\ ScanOK(job[j]) /\ job \in [Jobs -> Scans]
  BY DEF ByScan
<1>2. misses' \in 0..MaxMisses
  BY DEF ByScan, Abort
<1>3. CASE job[j].tries < MaxRetries
  <2> DEFINE s == [job[j] EXCEPT !.tries = @ + 1]
  <2>1. s \in Scans
    <3>1. job[j].tries + 1 \in 0..MaxRetries
      BY <1>1, <1>3 DEF Scans, MaxRetries
    <3> QED BY <1>1, <3>1 DEF Scans
  <2>2. ScanOK(s)
    BY <1>1 DEF ScanOK, Scans
  <2>3. job' = [job EXCEPT ![j] = s]
    BY <1>1, <1>3 DEF Abort, Scans
  <2> QED BY <1>2, <2>1, <2>2, <2>3, OneScanSteps DEF Abort, ByScan
<1>4. CASE ~(job[j].tries < MaxRetries)
  BY <1>2, <1>4, WaitingOK, OneScanSteps DEF Abort, ByScan, MaxRetries
<1> QED BY <1>3, <1>4

\* A collector has answered or is given up: what the others saw stays.
LEMMA LookStep ==
  ASSUME ByScan, NEW j \in Jobs, NEW t \in Tools, Look(j, t)
  PROVE  ByScan'
<1>1. job[j] \in Scans /\ ScanOK(job[j]) /\ job \in [Jobs -> Scans]
  BY DEF ByScan
<1>a. Covers[t] \in SUBSET Fps
  OBVIOUS
<1> DEFINE s == [job[j] EXCEPT !.left = @ \ {t},
                               !.found = @ \cup (Covers[t] \cap present)]
<1>2. /\ s.left = job[j].left \ {t} /\ s.found = job[j].found \cup (Covers[t] \cap present)
      /\ s.stage = job[j].stage /\ s.silent = job[j].silent /\ s.tools = job[j].tools
      /\ s.steady = job[j].steady /\ s.table = job[j].table /\ s.id = job[j].id
  BY <1>1 DEF Scans
<1>3. s \in Scans
  BY <1>1, <1>a DEF Scans
<1>4. ScanOK(s)
  <2>1. job[j].stage = "looking"
    BY DEF Look
  <2>2. ASSUME NEW x \in s.tools \ (s.left \cup s.silent)
        PROVE  Covers[x] \cap s.steady \subseteq s.found
    <3>1. CASE x = t
      BY <1>1, <1>2, <3>1 DEF ScanOK
    <3>2. CASE x # t
      BY <1>1, <1>2, <2>1, <3>2 DEF ScanOK
    <3> QED BY <3>1, <3>2
  <2> QED BY <1>1, <1>2, <2>1, <2>2 DEF ScanOK
<1>5. job' = [job EXCEPT ![j] = s]
  BY <1>1 DEF Look, Scans
<1> QED BY <1>3, <1>4, <1>5, OneScanSteps DEF Look, bounds, ByScan

LEMMA MissStep ==
  ASSUME ByScan, NEW j \in Jobs, NEW t \in Tools, Miss(j, t)
  PROVE  ByScan'
<1>1. job[j] \in Scans /\ ScanOK(job[j]) /\ job \in [Jobs -> Scans]
  BY DEF ByScan
<1> DEFINE s == [job[j] EXCEPT !.left = @ \ {t}, !.silent = @ \cup {t}]
<1>3. s \in Scans
  BY <1>1 DEF Scans
<1>4. ScanOK(s)
  <2>1. job[j].stage = "looking"
    BY DEF Miss
  <2>2. /\ s.left = job[j].left \ {t} /\ s.silent = job[j].silent \cup {t}
        /\ s.stage = job[j].stage /\ s.found = job[j].found /\ s.tools = job[j].tools
        /\ s.steady = job[j].steady /\ s.table = job[j].table /\ s.id = job[j].id
    BY <1>1 DEF Scans
  <2>3. s.tools \ (s.left \cup s.silent) \subseteq job[j].tools \ (job[j].left \cup job[j].silent)
    BY <2>2
  <2> QED BY <1>1, <2>1, <2>2, <2>3 DEF ScanOK
<1>5. job' = [job EXCEPT ![j] = s]
  BY <1>1 DEF Miss, Scans
<1>6. misses' \in 0..MaxMisses
  BY DEF Miss, ByScan
<1> QED BY <1>3, <1>4, <1>5, <1>6, OneScanSteps DEF Miss, ByScan

LEMMA ReadStep ==
  ASSUME ByScan, NEW j \in Jobs, Read(j)
  PROVE  ByScan'
<1>1. job[j] \in Scans /\ ScanOK(job[j]) /\ job \in [Jobs -> Scans]
  BY DEF ByScan
<1> DEFINE s == [job[j] EXCEPT !.stage = "writing", !.table = rows]
<1>3. s \in Scans
  BY <1>1 DEF Scans, Stages, Working, ByScan
<1>4. ScanOK(s)
  BY <1>1 DEF ScanOK, Scans, Read, Working, ByScan
<1>5. job' = [job EXCEPT ![j] = s]
  BY <1>1 DEF Read, Scans
<1> QED BY <1>3, <1>4, <1>5, OneScanSteps DEF Read, bounds, ByScan

\* The record a scan is left with when reconcile_findings has ended.
LEMMA PersistedOK ==
  ASSUME ByScan, NEW j \in Jobs, NEW ok \in BOOLEAN, Persisted(j, ok),
         job[j].stage = "writing"
  PROVE  \E s \in Scans :
           /\ job' = [job EXCEPT ![j] = s]
           /\ ok \/ ScanOK(s)
           /\ s.stage = "ending" /\ s.ok = ok /\ s.table = NoTable
           /\ s.steady = {} /\ s.found = job[j].found /\ s.id = job[j].id /\ s.id \in Ids
<1>1. job[j] \in Scans /\ ScanOK(job[j]) /\ job \in [Jobs -> Scans]
  BY DEF ByScan
<1> DEFINE s == [job[j] EXCEPT !.stage = "ending", !.ok = ok, !.table = NoTable,
                               !.silent = {}, !.steady = {}]
<1>2. s \in Scans
  BY <1>1, NoTableFacts DEF Scans, Stages, Working
<1>3. /\ s.stage = "ending" /\ s.ok = ok /\ s.table = NoTable /\ s.steady = {}
      /\ s.found = job[j].found /\ s.id = job[j].id /\ s.id \in Ids
  BY <1>1 DEF Scans, ScanOK, Working
<1>4. ok \/ ScanOK(s)
  BY <1>3, NoTableFacts DEF ScanOK
<1>5. job' = [job EXCEPT ![j] = s]
  BY <1>1 DEF Persisted, Scans
<1> QED BY <1>2, <1>3, <1>4, <1>5

LEMMA RollbackStep ==
  ASSUME ByScan, NEW j \in Jobs, Rollback(j)
  PROVE  ByScan'
<1>1. misses' \in 0..MaxMisses
  BY DEF Rollback, ByScan
<1>2. PICK s \in Scans : job' = [job EXCEPT ![j] = s] /\ ScanOK(s)
  BY PersistedOK DEF Rollback
<1> QED BY <1>1, <1>2, OneScanSteps DEF Rollback, ByScan

LEMMA FinishStep ==
  ASSUME ByScan, NEW j \in Jobs, Finish(j)
  PROVE  ByScan'
<1>1. job[j] \in Scans /\ ScanOK(job[j])
  BY DEF ByScan
<1>2. [id |-> job[j].id, found |-> job[j].found, vex |-> job[j].vex] \in Enrichments
  BY <1>1 DEF Finish, ScanOK, Scans, Enrichments, Working
<1>3. tasks' \in SUBSET Enrichments
  BY <1>2 DEF Finish, ByScan
<1>4. Waiting("idle", 0, {}, {}) \in Scans /\ ScanOK(Waiting("idle", 0, {}, {}))
  BY WaitingOK DEF MaxRetries
<1> QED BY <1>3, <1>4, OneScanSteps DEF Finish, bounds, ByScan

LEMMA LoseStep ==
  ASSUME ByScan, NEW j \in Jobs, Lose(j)
  PROVE  ByScan'
<1>1. job[j] \in Scans /\ job \in [Jobs -> Scans]
  BY DEF ByScan
<1> DEFINE s == Waiting("queued", job[j].tries, job[j].tools, job[j].vex)
<1>a. /\ job[j].tries \in 0..MaxRetries /\ job[j].tools \in SUBSET Tools
      /\ job[j].vex \in SUBSET Fps /\ "queued" \in {"idle", "queued"}
  BY <1>1 DEF Scans
<1>2. s \in Scans /\ ScanOK(s)
  BY <1>a, WaitingOK
<1>3. job' = [job EXCEPT ![j] = s] /\ misses' \in 0..MaxMisses
  BY <1>1 DEF Lose, ByScan
<1> QED BY <1>2, <1>3, OneScanSteps DEF Lose, ByScan

\* A step of the table that deletes nothing keeps every scan as it was.
LEMMA TableSteps ==
  ASSUME ByScan, RowsStep, UNCHANGED <<present, job, scans, changes, misses>>,
         tasks' \in SUBSET Enrichments, marks' \in 0..MaxMarks
  PROVE  ByScan'
<1>1. \A x \in Jobs : ScanOK(job[x])'
  BY UntouchedScan DEF ByScan, RowsStep
<1> QED BY <1>1 DEF ByScan, RowsStep, Stamped

\* What a commit does to the table, and what the scan then knows.
LEMMA CommitRows ==
  ASSUME ByScan, NEW j \in Jobs, job[j].stage = "writing", ~Conflict(j),
         rows' = [f \in Fps |-> Reconciled(job[j], f)]
  PROVE  /\ RowsStep
         /\ job[j].found \subseteq Recorded(rows')
         /\ \A f \in Fps : /\ rows[f].status # "fixed" /\ rows'[f].status = "fixed" =>
                                f \notin job[j].found
                           /\ rows[f] # NoRow /\ rows'[f].status # rows[f].status =>
                                /\ job[j].table[f] # NoRow
                                /\ job[j].table[f].status \notin Protected
<1>1. /\ job[j] \in Scans /\ job[j].id \in Ids /\ rows \in Tables /\ Stamped(rows)
      /\ Stamped(job[j].table) /\ Recorded(job[j].table) \subseteq Recorded(rows)
      /\ Insert(job[j]) \cap Recorded(rows) = {}
  BY DEF ByScan, ScanOK, Working, Conflict
<1>2. \A f \in Fps : rows'[f] = Reconciled(job[j], f)
  OBVIOUS
<1>3. \A f \in Fps :
        /\ rows'[f] \in Rows \cup {NoRow}
        /\ f \in job[j].found \/ rows[f] # NoRow => rows'[f] # NoRow
        /\ rows'[f].status = "fixed" => rows'[f].stamped
        /\ rows'[f].status = "open" => ~rows'[f].stamped
        /\ rows[f].status # "fixed" /\ rows'[f].status = "fixed" => f \notin job[j].found
        /\ rows[f] # NoRow /\ rows'[f].status # rows[f].status =>
             job[j].table[f] # NoRow /\ job[j].table[f].status \notin Protected
  BY <1>1, <1>2, ReconciledOK
<1>4. rows' \in Tables /\ Stamped(rows')
  BY <1>3 DEF Tables, Stamped
<1>5. Recorded(rows) \subseteq Recorded(rows')
  BY <1>3 DEF Recorded
<1>6. job[j].found \subseteq Recorded(rows')
  BY <1>1, <1>3 DEF Recorded, Scans
<1> QED BY <1>3, <1>4, <1>5, <1>6 DEF RowsStep

LEMMA CommitStep ==
  ASSUME ByScan, NEW j \in Jobs, Commit(j)
  PROVE  ByScan'
<1>1. job[j].stage = "writing" /\ UNCHANGED <<present, tasks, bounds>>
  BY DEF Commit
<1>2. CASE ~Conflict(j) /\ rows' = [f \in Fps |-> Reconciled(job[j], f)] /\ Persisted(j, TRUE)
  <2>1. RowsStep /\ job[j].found \subseteq Recorded(rows')
    BY <1>1, <1>2, CommitRows
  <2>2. PICK s \in Scans :
          /\ job' = [job EXCEPT ![j] = s]
          /\ s.stage = "ending" /\ s.table = NoTable
          /\ s.steady = {} /\ s.found = job[j].found /\ s.id \in Ids
    BY <1>1, <1>2, PersistedOK
  <2>3. job \in [Jobs -> Scans] /\ \A x \in Jobs : ScanOK(job[x])
    BY DEF ByScan
  <2>4. ASSUME NEW x \in Jobs PROVE ScanOK(job[x])'
    <3>1. CASE x = j
      <4>1. job'[x] = s
        BY <2>2, <2>3, <3>1
      <4>2. s.steady \subseteq present' /\ Stamped(s.table) /\ Recorded(s.table) = {}
        BY <2>2, NoTableFacts
      <4> QED BY <2>1, <2>2, <4>1, <4>2 DEF ScanOK, Stamped, Recorded
    <3>2. CASE x # j
      <4>1. job'[x] = job[x]
        BY <2>2, <2>3, <3>2
      <4> QED BY <1>1, <2>1, <2>3, <4>1, UntouchedScan DEF RowsStep
    <3> QED BY <3>1, <3>2
  <2>5. job' \in [Jobs -> Scans]
    BY <2>2, <2>3
  <2>6. /\ present' \in SUBSET Fps /\ tasks' \in SUBSET Enrichments
        /\ scans' \in 0..MaxScans /\ changes' \in 0..MaxChanges
        /\ misses' \in 0..MaxMisses /\ marks' \in 0..MaxMarks
    BY <1>1 DEF ByScan, bounds
  <2> QED BY <2>1, <2>4, <2>5, <2>6 DEF ByScan, RowsStep, Stamped
<1>3. CASE Persisted(j, FALSE) /\ UNCHANGED rows
  <2>1. PICK s \in Scans : job' = [job EXCEPT ![j] = s] /\ ScanOK(s)
    BY <1>1, <1>3, PersistedOK
  <2> QED BY <1>1, <1>3, <2>1, OneScanSteps DEF bounds, ByScan
<1> QED BY <1>2, <1>3 DEF Commit

LEMMA EnrichStep ==
  ASSUME ByScan, NEW t \in tasks, NEW annotated, NEW hit, Enrich(t, annotated, hit)
  PROVE  ByScan'
<1>1. \A f \in Fps : rows'[f] \in Rows \cup {NoRow}
                     /\ (rows[f] # NoRow => rows'[f] # NoRow)
                     /\ (rows'[f] # NoRow => rows'[f].status = rows[f].status
                                             /\ rows'[f].stamped = rows[f].stamped)
  <2> SUFFICES ASSUME NEW f \in Fps
               PROVE  /\ rows'[f] \in Rows \cup {NoRow}
                      /\ rows[f] # NoRow => rows'[f] # NoRow
                      /\ rows'[f] # NoRow => rows'[f].status = rows[f].status
                                             /\ rows'[f].stamped = rows[f].stamped
    OBVIOUS
  <2>1. CASE rows[f] # NoRow /\ f \in annotated /\ rows[f].id = t.id
    <3>1. rows[f] \in Rows
      BY <2>1 DEF ByScan, Tables
    <3>2. (IF f \in hit THEN "floored" ELSE Level(t, f)) \in Levels
      BY DEF Level, Levels
    <3>3. rows'[f] = [rows[f] EXCEPT !.level = IF f \in hit THEN "floored" ELSE Level(t, f)]
      BY <2>1 DEF Enrich
    <3>4. /\ rows'[f] \in Rows /\ rows'[f].status = rows[f].status
          /\ rows'[f].stamped = rows[f].stamped
      BY <3>1, <3>2, <3>3 DEF Rows
    <3> QED BY <3>4, RowIsNotAbsent
  <2>2. CASE ~(rows[f] # NoRow /\ f \in annotated /\ rows[f].id = t.id)
    BY <2>2 DEF Enrich, ByScan, Tables
  <2> QED BY <2>1, <2>2
<1>2. rows' \in Tables
  BY <1>1 DEF Enrich, Tables
<1>3. Stamped(rows')
  BY <1>1, RowIsNotAbsent DEF Stamped, ByScan
<1>4. Recorded(rows) \subseteq Recorded(rows')
  BY <1>1 DEF Recorded
<1> QED BY <1>2, <1>3, <1>4, TableSteps DEF Enrich, RowsStep, bounds, ByScan

LEMMA AnalystStep ==
  ASSUME ByScan, NEW f \in Fps, NEW status \in Marks, Analyst(f, status)
  PROVE  ByScan'
<1>1. rows[f] \in Rows
  BY DEF Analyst, ByScan, Tables
<1>2. status \in Statuses /\ status \notin {"open", "fixed"}
  BY DEF Statuses, Protected
<1> DEFINE row == [rows[f] EXCEPT !.status = status]
<1>3. row \in Rows /\ row.status = status
  BY <1>1, <1>2 DEF Rows
<1>4. rows' = [rows EXCEPT ![f] = row] /\ rows \in Tables /\ Stamped(rows)
  BY <1>1 DEF Analyst, ByScan, Rows
<1>5. rows' \in Tables
  BY <1>3, <1>4 DEF Tables
<1>6. Stamped(rows')
  BY <1>2, <1>3, <1>4 DEF Stamped, Tables
<1>7. Recorded(rows) \subseteq Recorded(rows')
  BY <1>3, <1>4, RowIsNotAbsent DEF Recorded, Tables
<1>8. marks' \in 0..MaxMarks
  BY DEF Analyst, ByScan
<1> QED BY <1>5, <1>6, <1>7, <1>8, TableSteps DEF Analyst, RowsStep, ByScan

LEMMA AppearStep ==
  ASSUME ByScan, NEW f \in Fps, Appear(f)
  PROVE  ByScan'
<1>1. \A x \in Jobs : ScanOK(job[x])'
  BY UntouchedScan DEF ByScan, Appear
<1>2. present' \in SUBSET Fps /\ changes' \in 0..MaxChanges
  BY DEF ByScan, Appear
<1> QED BY <1>1, <1>2 DEF ByScan, Appear, Stamped

LEMMA RemedyStep ==
  ASSUME ByScan, NEW f \in Fps, Remedy(f)
  PROVE  ByScan'
<1>1. ASSUME NEW x \in Jobs
      PROVE  job'[x] \in Scans /\ ScanOK(job[x])'
  <2>1. job[x] \in Scans /\ ScanOK(job[x])
    BY DEF ByScan
  <2>2. job'[x] = [job[x] EXCEPT !.steady = @ \ {f}]
    BY DEF Remedy
  <2>3. job'[x] \in Scans
    BY <2>1, <2>2 DEF Scans
  <2>4. /\ job'[x].steady = job[x].steady \ {f} /\ job'[x].stage = job[x].stage
        /\ job'[x].left = job[x].left /\ job'[x].silent = job[x].silent
        /\ job'[x].tools = job[x].tools /\ job'[x].found = job[x].found
        /\ job'[x].table = job[x].table /\ job'[x].ok = job[x].ok
        /\ job'[x].id = job[x].id
    BY <2>1, <2>2 DEF Scans
  <2>5. present' = present \ {f} /\ rows' = rows
    BY DEF Remedy
  <2>6. \A t \in job[x].tools : Covers[t] \cap job'[x].steady \subseteq Covers[t] \cap job[x].steady
    BY <2>4
  <2>7. ScanOK(job[x])'
    BY <2>1, <2>4, <2>5, <2>6 DEF ScanOK, Stamped, Recorded
  <2> QED BY <2>3, <2>7
<1>2. job' \in [Jobs -> Scans]
  BY <1>1 DEF Remedy
<1>3. present' \in SUBSET Fps /\ changes' \in 0..MaxChanges
  BY DEF ByScan, Remedy
<1> QED BY <1>1, <1>2, <1>3 DEF ByScan, Remedy, Stamped

-----------------------------------------------------------------------------
(* The inductive invariant and what follows from it.                       *)

LEMMA InitEstablishes == Init => IInv
<1> SUFFICES ASSUME Init PROVE ByScan
  BY IInvByScan
<1>1. \A j \in Jobs : job[j] \in Scans /\ ScanOK(job[j])
  BY WaitingOK DEF Init, MaxRetries
<1>2. job \in [Jobs -> Scans]
  BY <1>1 DEF Init
<1> QED BY <1>1, <1>2, NoTableFacts DEF Init, ByScan

LEMMA NextPreserves == IInv /\ [Next]_vars => IInv'
<1>0. IInv' <=> ByScan'
  BY IInvByScan, PTL
<1> SUFFICES ASSUME ByScan, [Next]_vars PROVE ByScan'
  BY <1>0, IInvByScan
<1>1. CASE \E j \in Jobs : Scan(j)
  BY <1>1, RequestStep, StartStep, AbortStep, ReadStep, CommitStep,
     RollbackStep, FinishStep, LoseStep, LookStep, MissStep DEF Scan
<1>2. CASE \E t \in tasks : \E annotated \in SUBSET t.found :
             \E hit \in SUBSET (annotated \cap Exploited) : Enrich(t, annotated, hit)
  BY <1>2, EnrichStep
<1>3. CASE \E f \in Fps, status \in Marks : Analyst(f, status)
  BY <1>3, AnalystStep
<1>4. CASE \E f \in Fps : Appear(f) \/ Remedy(f)
  BY <1>4, AppearStep, RemedyStep
<1>5. CASE UNCHANGED vars
  BY <1>5 DEF vars, bounds, ByScan, ScanOK, Stamped, Recorded
<1> QED BY <1>1, <1>2, <1>3, <1>4, <1>5 DEF Next

\* The inductive invariant holds in every state: a scan that is running knows
\* what it says it knows, whatever the other scans, analysts and enrichments do.
THEOREM FindingInductive == Spec => []IInv
BY InitEstablishes, NextPreserves, PTL DEF Spec

\* Every variable keeps its type, whatever a flush makes of two rows.
THEOREM FindingTypeOK == Spec => []TypeOK
<1>1. IInv => TypeOK
  BY DEF IInv
<1> QED BY <1>1, FindingInductive, PTL

\* A fixed row has a fixed_at and an open row has none, although a flush writes
\* only some of the columns of a row that other scans wrote since it was read.
THEOREM FindingFixedIsStamped == Spec => []FixedIsStamped
<1>1. IInv => FixedIsStamped
  BY DEF IInv, FixedIsStamped, Stamped, Recorded
<1> QED BY <1>1, FindingInductive, PTL

\* What a scan task reports as persisted has a row.
THEOREM FindingReportedIsRecorded == Spec => []ReportedIsRecorded
<1>1. IInv => ReportedIsRecorded
  BY DEF IInv, ScanInv, ReportedIsRecorded
<1> QED BY <1>1, FindingInductive, PTL

\* Only a committing scan task leads a task from writing to a good ending.
LEMMA OnlyCommitCommits ==
  ASSUME IInv, [Next]_vars, NEW j \in Jobs, Commits(j)
  PROVE  /\ job[j].stage = "writing" /\ ~Conflict(j)
         /\ rows' = [f \in Fps |-> Reconciled(job[j], f)]
<1>1. /\ job \in [Jobs -> Scans] /\ job[j].stage = "writing"
      /\ job'[j].stage = "ending" /\ job'[j].ok
  BY IInvByScan DEF ByScan, Commits
<1>2. job'[j] # job[j]
  BY <1>1
<1>3. PICK x \in Jobs : Scan(x)
  <2>1. CASE \E f \in Fps : Remedy(f)
    BY <1>1, <2>1 DEF Remedy, Scans
  <2> QED BY <1>1, <1>2, <2>1 DEF Next, Enrich, Analyst, Appear, vars
<1>4. x = j
  <2> SUFFICES ASSUME x # j PROVE job'[j] = job[j]
    BY <1>2
  <2> QED BY <1>1, <1>3 DEF Scan, Request, Start, Abort, Read, Commit, Rollback,
            Finish, Lose, Look, Miss, Persisted
<1>a. ~Lose(j)
  BY <1>1 DEF Lose, Waiting
<1>b. /\ ~Start(j) /\ ~Abort(j) /\ ~Read(j) /\ ~Finish(j)
      /\ \A t \in Tools : ~Look(j, t) /\ ~Miss(j, t)
      /\ \A tools \in TargetChoices, vex \in VexChoices : ~Request(j, tools, vex)
  BY <1>1 DEF Start, Abort, Read, Finish, Look, Miss, Request
<1>5. Commit(j) \/ Rollback(j)
  BY <1>3, <1>4, <1>a, <1>b DEF Scan
<1>6. ASSUME Persisted(j, FALSE) PROVE FALSE
  BY <1>1, <1>6 DEF Persisted, Scans
<1>7. Commit(j) /\ ~Persisted(j, FALSE)
  BY <1>5, <1>6 DEF Rollback
<1> QED BY <1>1, <1>7 DEF Commit

\* A scan closes a finding that one of its collectors could have reported only
\* if the asset was rid of the vulnerability at some moment of the scan.
THEOREM FindingClosedWasGone == Spec => ClosedWasGone
<1>1. IInv /\ [Next]_vars =>
        \A j \in Jobs, f \in Fps :
          Commits(j) /\ IsClosed(f) /\ Answered(j, f) => f \notin job[j].steady
  <2> SUFFICES ASSUME IInv, [Next]_vars, NEW j \in Jobs, NEW f \in Fps,
                      Commits(j), IsClosed(f), Answered(j, f)
               PROVE  f \notin job[j].steady
    OBVIOUS
  <2>1. /\ job[j].stage = "writing" /\ ~Conflict(j)
        /\ rows' = [x \in Fps |-> Reconciled(job[j], x)]
    BY OnlyCommitCommits
  <2>2. f \notin job[j].found
    BY <2>1, CommitRows, IInvByScan DEF IsClosed
  <2>3. PICK t \in job[j].tools \ job[j].silent : f \in Covers[t]
    BY DEF Answered
  <2>4. Covers[t] \cap job[j].steady \subseteq job[j].found
    BY <2>1, <2>3, IInvByScan DEF ByScan, ScanOK
  <2> QED BY <2>2, <2>3, <2>4
<1> QED BY <1>1, FindingInductive, PTL DEF Spec, ClosedWasGone

\* A decision an analyst owns is undone by nothing but a scan that read the row
\* before the decision was made.
THEOREM FindingDecisionIsKept == Spec => DecisionIsKept
<1> DEFINE Kept == \A f \in Recorded(rows) :
       /\ rows[f].status \in Protected
       /\ rows'[f].status # rows[f].status
       => \E j \in Jobs : Commits(j) /\ job[j].table[f] # NoRow
                           /\ job[j].table[f].status \notin Protected
<1>1. IInv /\ [Next]_vars => Kept
  <2> SUFFICES ASSUME IInv, [Next]_vars, NEW f \in Recorded(rows),
                      rows[f].status \in Protected,
                      rows'[f].status # rows[f].status
               PROVE  \E j \in Jobs : Commits(j) /\ job[j].table[f] # NoRow
                           /\ job[j].table[f].status \notin Protected
    OBVIOUS
  <2>1. rows[f] \in Rows /\ f \in Fps /\ rows \in Tables /\ job \in [Jobs -> Scans]
    BY IInvByScan DEF ByScan, Recorded, Tables
  <2>2. CASE \E j \in Jobs : Commit(j)
    <3>1. PICK j \in Jobs : Commit(j)
      BY <2>2
    <3>2. /\ job[j].stage = "writing" /\ ~Conflict(j)
          /\ rows' = [x \in Fps |-> Reconciled(job[j], x)] /\ Persisted(j, TRUE)
      BY <3>1 DEF Commit
    <3>3. Commits(j)
      BY <2>1, <3>2 DEF Commits, Persisted, Scans
    <3>4. job[j].table[f] # NoRow /\ job[j].table[f].status \notin Protected
      BY <2>1, <3>2, CommitRows, IInvByScan DEF Recorded
    <3> QED BY <3>3, <3>4
  <2>3. CASE \E t \in tasks : \E annotated \in SUBSET t.found :
               \E hit \in SUBSET (annotated \cap Exploited) : Enrich(t, annotated, hit)
    BY <2>1, <2>3 DEF Enrich, Rows
  <2>4. CASE \E x \in Fps, status \in Marks : Analyst(x, status)
    BY <2>1, <2>4 DEF Analyst, Tables
  <2>5. CASE UNCHANGED rows
    BY <2>5
  <2> QED BY <2>2, <2>3, <2>4, <2>5, ZenonT(40) DEF Next, Scan, Request, Start, Abort, Read,
            Rollback, Finish, Lose, Look, Miss, Appear, Remedy, vars
<1> QED BY <1>1, FindingInductive, PTL DEF Spec, DecisionIsKept
=============================================================================
