----------------------------- MODULE ScanRun_proofs -----------------------------
(***************************************************************************)
(* Proofs about ScanRun and the Collectors in it, for any requests, tools, *)
(* slots, outputs and exit codes.                                          *)
(***************************************************************************)
EXTENDS ScanRun, FiniteSetTheorems, SequenceTheorems, TLAPS

USE CollectorsAssumption

-----------------------------------------------------------------------------
(* The collectors.                                                         *)

ToolNames ==
  {"trivy", "osv", "pip_audit", "semgrep", "bandit", "dockle", "kubescape", "gitleaks",
   "nuclei", "httpx", "zap", "trufflehog", "nmap", "testssl", "prowler_aws",
   "prowler_gcp", "prowler_azure", "checkov", "trivy_config", "syft", "cosign"}

LEMMA ToolsAre == Tools = ToolNames
BY DEF Tools, Adapter, ToolNames

\* A collector that is not lenient takes what it cannot read for an error.
LEMMA StrictTool ==
  ASSUME NEW t \in Tools \ Lenient
  PROVE  /\ Adapter[t].alien = "fails" /\ Adapter[t].unreadable = "fails"
         /\ Adapter[t].verdict = FALSE
<1> DEFINE Strict(a) == a.alien = "fails" /\ a.unreadable = "fails" /\ a.verdict = FALSE
<1>1. \A ok, limit : Strict(Single(ok, limit))
  BY DEF Single
<1>2. /\ Strict(Trivy) /\ Strict(OSVScanner) /\ Strict(PipAudit) /\ Strict(Semgrep)
      /\ Strict(Bandit) /\ Strict(Dockle) /\ Strict(Kubescape) /\ Strict(Gitleaks)
      /\ Strict(Nuclei) /\ Strict(Httpx) /\ Strict(ZAP)
  BY <1>1 DEF Trivy, OSVScanner, PipAudit, Semgrep, Bandit, Dockle, Kubescape, Gitleaks,
              Nuclei, Httpx, ZAP
<1>3. Strict(TrivyConfig) /\ Strict(Syft)
  BY DEF Single, TrivyConfig, Syft
<1>4. t \in {"trivy", "osv", "pip_audit", "semgrep", "bandit", "dockle", "kubescape",
             "gitleaks", "nuclei", "httpx", "zap", "trivy_config", "syft"}
  BY ToolsAre DEF ToolNames, Lenient
<1> HIDE DEF Strict
<1>5. Strict(Adapter[t])
  BY <1>2, <1>3, <1>4 DEF Adapter
<1> QED
  BY <1>5 DEF Strict

\* The calls of a request are of collectors, or say why there is none.
LEMMA CallsAreKnown ==
  ASSUME NEW kind \in Kinds, NEW offline \in BOOLEAN,
         NEW n \in DOMAIN CallsFor(kind, offline)
  PROVE  CallsFor(kind, offline)[n] \in Tools \cup {Skipped}
<1> USE DEF CallsFor, ToolNames
<1>1. kind = "repo" => CallsFor(kind, offline) \in Seq(ToolNames \cup {Skipped})
  OBVIOUS
<1>2. kind = "image" => CallsFor(kind, offline) \in Seq(ToolNames \cup {Skipped})
  OBVIOUS
<1>3. kind = "host" => CallsFor(kind, offline) \in Seq(ToolNames \cup {Skipped})
  OBVIOUS
<1>4. kind = "tls" => CallsFor(kind, offline) \in Seq(ToolNames \cup {Skipped})
  OBVIOUS
<1>5. kind = "azure" => CallsFor(kind, offline) \in Seq(ToolNames \cup {Skipped})
  OBVIOUS
<1>6. kind = "aws" => CallsFor(kind, offline) \in Seq(ToolNames \cup {Skipped})
  OBVIOUS
<1>7. kind = "gcp" => CallsFor(kind, offline) \in Seq(ToolNames \cup {Skipped})
  OBVIOUS
<1>8. kind = "iac" => CallsFor(kind, offline) \in Seq(ToolNames \cup {Skipped})
  OBVIOUS
<1>9. kind = "api_specs" => CallsFor(kind, offline) \in Seq(ToolNames \cup {Skipped})
  OBVIOUS
<1>10. kind = "kubernetes" => CallsFor(kind, offline) \in Seq(ToolNames \cup {Skipped})
  <2>1. CASE offline
    BY <2>1
  <2>2. CASE ~offline
    BY <2>2
  <2> QED
    BY <2>1, <2>2
<1>11. kind = "domains" => CallsFor(kind, offline) \in Seq(ToolNames \cup {Skipped})
  <2>1. CASE offline
    BY <2>1
  <2>2. CASE ~offline
    BY <2>2
  <2> QED
    BY <2>1, <2>2
<1>12. kind = "artifacts" => CallsFor(kind, offline) \in Seq(ToolNames \cup {Skipped})
  OBVIOUS
<1>13. kind = "sboms" => CallsFor(kind, offline) \in Seq(ToolNames \cup {Skipped})
  OBVIOUS
<1>14. kind = "dast" => CallsFor(kind, offline) \in Seq(ToolNames \cup {Skipped})
  <2>1. CASE offline
    BY <2>1
  <2>2. CASE ~offline
    BY <2>2
  <2> QED
    BY <2>1, <2>2
<1>15. CallsFor(kind, offline) \in Seq(ToolNames \cup {Skipped})
  BY <1>1, <1>2, <1>3, <1>4, <1>5, <1>6, <1>7, <1>8, <1>9, <1>10, <1>11, <1>12, <1>13, <1>14
<1> QED
  BY <1>15, ToolsAre

-----------------------------------------------------------------------------
(* A call moves.                                                           *)

LEMMA FiniteCalls ==
  ASSUME TypeOK
  PROVE  IsFiniteSet(DOMAIN call) /\ IsFiniteSet(Running)
<1>1. IsFiniteSet(CallIds)
  BY FS_Interval DEF CallIds
<1>2. DOMAIN call \subseteq CallIds /\ Running \subseteq DOMAIN call
  BY DEF TypeOK, Running
<1> QED
  BY <1>1, <1>2, FS_Subset

\* What becomes of the calls when one is replaced.
LEMMA ReplacedCall ==
  ASSUME TypeOK, NEW i \in DOMAIN call, NEW c \in CallRecord, Set(i, c)
  PROVE  /\ DOMAIN call' = DOMAIN call
         /\ call' \in [DOMAIN call' -> CallRecord]
         /\ call'[i] = c
         /\ \A k \in DOMAIN call : k # i => call'[k] = call[k]
BY DEF TypeOK, Set

\* The slots: a call begins to run only if it ran or a slot is free.
LEMMA SlotsKept ==
  ASSUME TypeOK, SlotInv, NEW i \in DOMAIN call, NEW c \in CallRecord, Set(i, c),
         c.stage = "running" =>
           call[i].stage = "running" \/ Cardinality(Running) < MaxParallel
  PROVE  SlotInv'
<1>1. /\ DOMAIN call' = DOMAIN call /\ call'[i] = c
      /\ \A k \in DOMAIN call : k # i => call'[k] = call[k]
  BY ReplacedCall
<1>2. IsFiniteSet(Running) /\ Cardinality(Running) \in Nat
  BY FiniteCalls, FS_CardinalityType
<1>3. CASE c.stage # "running" \/ call[i].stage = "running"
  <2>1. Running' \subseteq Running
    BY <1>1, <1>3 DEF Running
  <2>2. Cardinality(Running') <= Cardinality(Running) /\ Cardinality(Running') \in Nat
    BY <1>2, <2>1, FS_Subset, FS_CardinalityType
  <2> QED
    BY <1>2, <2>2 DEF SlotInv
<1>4. CASE c.stage = "running" /\ call[i].stage # "running"
  <2>1. Running' = Running \cup {i} /\ i \notin Running
    BY <1>1, <1>4 DEF Running
  <2>2. Cardinality(Running') = Cardinality(Running) + 1
    BY <1>2, <2>1, FS_AddElement
  <2> QED
    BY <1>2, <1>4, <2>2 DEF SlotInv
<1> QED
  BY <1>3, <1>4

\* The processes: those of other calls stay what they were.
LEMMA ProcsKept ==
  ASSUME TypeOK, ProcInv, NEW i \in DOMAIN call, NEW c \in CallRecord, Set(i, c),
         \A p \in procs' : p[1] # i => p \in procs,
         \A p \in procs' : p[1] = i =>
           p[2] = c.begun /\ (c.stage = "lost" \/ (c.stage = "running" /\ c.busy))
  PROVE  ProcInv'
BY ReplacedCall DEF ProcInv

\* What a step of a call must establish.
Moves(i, c) ==
  /\ Set(i, c) /\ c \in CallRecord /\ CallInv(c) /\ KeptInv(c)
  /\ call[i].stage \in {"waiting", "running"}
  /\ c.stage = "running" =>
       call[i].stage = "running" \/ Cardinality(Running) < MaxParallel
  /\ UNCHANGED run
  /\ procs' \in SUBSET (CallIds \X Targets)
  /\ \A p \in procs' : p[1] # i => p \in procs
  /\ \A p \in procs' : p[1] = i =>
       p[2] = c.begun /\ (c.stage = "lost" \/ (c.stage = "running" /\ c.busy))

LEMMA MoveKeeps ==
  ASSUME IInv, NEW i \in DOMAIN call, NEW c, Moves(i, c)
  PROVE  IInv'
<1> USE DEF IInv, Moves
<1>1. /\ DOMAIN call' = DOMAIN call /\ call'[i] = c
      /\ call' \in [DOMAIN call' -> CallRecord]
      /\ \A k \in DOMAIN call : k # i => call'[k] = call[k]
  BY ReplacedCall
<1>2. TypeOK'
  BY <1>1 DEF TypeOK
<1>3. SlotInv'
  BY SlotsKept
<1>4. ProcInv'
  BY ProcsKept
<1>5. ReportInv'
  BY DEF ReportInv, Ended
<1>6. \A k \in DOMAIN call' : CallInv(call'[k]) /\ KeptInv(call'[k])
  BY <1>1
<1> QED
  BY <1>2, <1>3, <1>4, <1>5, <1>6

\* No process is of a call that did not start one.
LEMMA NoProcess ==
  ASSUME IInv, NEW i \in DOMAIN call, ~Waits(i), call[i].stage # "lost"
  PROVE  \A p \in procs : p[1] # i
BY DEF IInv, ProcInv, Waits

\* What is known of a call before its step.
LEMMA KnownCall ==
  ASSUME IInv, NEW i \in DOMAIN call
  PROVE  /\ call[i] \in CallRecord /\ CallInv(call[i]) /\ KeptInv(call[i])
         /\ i \in CallIds /\ procs \in SUBSET (CallIds \X Targets)
BY DEF IInv, TypeOK

\* Without its process, nothing is left of a call that waited for one.
LEMMA WithoutProcess ==
  ASSUME IInv, NEW i \in DOMAIN call, procs' = procs \ {Process(i)}
  PROVE  /\ procs' \in SUBSET (CallIds \X Targets)
         /\ \A p \in procs' : p[1] # i /\ p \in procs
<1>1. \A p \in procs : p = <<p[1], p[2]>>
  BY DEF IInv, TypeOK
<1> QED
  BY <1>1 DEF IInv, TypeOK, ProcInv, Process

LEMMA EnterMoves ==
  ASSUME IInv, NEW i \in DOMAIN call, NEW given \in Targets, NEW ready \in BOOLEAN,
         Enter(i, given, ready)
  PROVE  \E c : Moves(i, c)
<1> DEFINE b == [call[i] EXCEPT !.stage = "running", !.given = given]
           d == [call[i] EXCEPT !.stage = "answered", !.failed = TRUE]
           c == IF ready /\ call[i].tool # Skipped THEN b ELSE d
<1>1. /\ call[i] \in CallRecord /\ CallInv(call[i]) /\ KeptInv(call[i])
      /\ procs \in SUBSET (CallIds \X Targets)
  BY KnownCall
<1>2. /\ call[i].stage = "waiting" /\ Cardinality(Running) < MaxParallel
      /\ Set(i, c) /\ UNCHANGED <<run, procs>>
  BY DEF Enter, Admits
<1>3. \A p \in procs' : p[1] # i
  BY <1>2, NoProcess DEF Waits
<1>4. d \in CallRecord /\ CallInv(d) /\ KeptInv(d) /\ d.stage = "answered"
  BY <1>1, <1>2 DEF CallRecord, CallInv, KeptInv
<1>5. ASSUME call[i].tool # Skipped
      PROVE  b \in CallRecord /\ CallInv(b) /\ KeptInv(b)
  <2>1. given \in 0..MaxTargets /\ call[i].begun <= given
    BY <1>1, <1>2 DEF CallRecord, CallInv, Targets
  <2>2. call[i].busy = FALSE
    BY <1>1, <1>2 DEF CallRecord, CallInv
  <2>3. b \in CallRecord
    BY <1>1, <2>1 DEF CallRecord
  <2>4. CallInv(b) /\ KeptInv(b)
    BY <1>1, <1>5, <2>1, <2>2 DEF CallRecord, CallInv, KeptInv
  <2> QED
    BY <2>3, <2>4
<1> HIDE DEF b, d
<1>6. Moves(i, c)
  BY <1>1, <1>2, <1>3, <1>4, <1>5 DEF Moves
<1> QED
  BY <1>6

LEMMA NotInstalledMoves ==
  ASSUME IInv, NEW i \in DOMAIN call, NotInstalled(i)
  PROVE  \E c : Moves(i, c)
<1> DEFINE c == [call[i] EXCEPT !.stage = "lost"]
<1>1. /\ call[i] \in CallRecord /\ CallInv(call[i]) /\ KeptInv(call[i])
      /\ procs \in SUBSET (CallIds \X Targets)
  BY KnownCall
<1>2. call[i].stage = "waiting" /\ Set(i, c) /\ UNCHANGED <<run, procs>>
  BY DEF NotInstalled, Admits
<1>3. \A p \in procs' : p[1] # i
  BY <1>2, NoProcess DEF Waits
<1>4. c \in CallRecord /\ CallInv(c) /\ KeptInv(c) /\ c.stage = "lost"
  BY <1>1, <1>2 DEF CallRecord, CallInv, KeptInv
<1> HIDE DEF c
<1>5. Moves(i, c)
  BY <1>1, <1>2, <1>3, <1>4 DEF Moves
<1> QED
  BY <1>5

LEMMA BeginMoves ==
  ASSUME IInv, NEW i \in DOMAIN call, Begin(i)
  PROVE  \E c : Moves(i, c)
<1> DEFINE n == call[i].begun + 1
           c == [call[i] EXCEPT !.busy = TRUE, !.begun = n]
<1>1. /\ call[i] \in CallRecord /\ CallInv(call[i]) /\ KeptInv(call[i])
      /\ i \in CallIds /\ procs \in SUBSET (CallIds \X Targets)
  BY KnownCall
<1>2. /\ call[i].stage = "running" /\ ~call[i].busy /\ call[i].begun < call[i].given
      /\ Set(i, c) /\ UNCHANGED run /\ procs' \subseteq procs \cup {<<i, n>>}
  BY DEF Begin
<1>3. \A p \in procs : p[1] # i
  BY <1>2, NoProcess DEF Waits
<1>4. n \in Targets /\ n \in 0..MaxTargets /\ n <= call[i].given /\ n > 0
  BY <1>1, <1>2 DEF CallRecord, Targets
<1> HIDE DEF n
<1>5. c \in CallRecord
  BY <1>1, <1>4 DEF CallRecord
<1>6. CallInv(c) /\ KeptInv(c) /\ c.stage = "running" /\ c.busy /\ c.begun = n
  BY <1>1, <1>2, <1>4 DEF CallRecord, CallInv, KeptInv
<1> HIDE DEF c
<1>7. Moves(i, c)
  BY <1>1, <1>2, <1>3, <1>4, <1>5, <1>6 DEF Moves
<1> QED
  BY <1>7

\* An error: as much as was begun is what was given, or the collector goes on.
LEMMA ErrsIsKnown ==
  ASSUME IInv, NEW i \in DOMAIN call, Waits(i)
  PROVE  /\ Errs(i) \in CallRecord /\ CallInv(Errs(i))
         /\ Errs(i).failed /\ Errs(i).stage = "running"
<1>1. call[i] \in CallRecord /\ CallInv(call[i]) /\ call[i].stage = "running"
  BY KnownCall DEF Waits
<1> DEFINE g == IF Adapter[call[i].tool].each THEN call[i].given ELSE call[i].begun
<1>2. g \in 0..MaxTargets /\ call[i].begun <= g
  BY <1>1 DEF CallRecord, CallInv
<1>3. Errs(i) = [call[i] EXCEPT !.busy = FALSE, !.failed = TRUE, !.given = g]
  BY DEF Errs
<1> DEFINE e == [call[i] EXCEPT !.busy = FALSE, !.failed = TRUE, !.given = g]
<1> HIDE DEF g
<1>4. /\ e.busy = FALSE /\ e.failed = TRUE /\ e.given = g /\ e.begun = call[i].begun
      /\ e.stage = call[i].stage /\ e.tool = call[i].tool /\ e.found = call[i].found
  BY <1>1 DEF CallRecord
<1>5. e \in CallRecord
  BY <1>1, <1>2 DEF CallRecord
<1> HIDE DEF e
<1>6. CallInv(e)
  BY <1>1, <1>2, <1>4 DEF CallInv
<1> QED
  BY <1>1, <1>3, <1>4, <1>5, <1>6 DEF e

LEMMA TimeOutMoves ==
  ASSUME IInv, NEW i \in DOMAIN call, TimeOut(i)
  PROVE  \E c : Moves(i, c)
<1>1. Waits(i) /\ Set(i, Errs(i)) /\ procs' = procs \ {Process(i)} /\ UNCHANGED run
  BY DEF TimeOut
<1>2. /\ Errs(i) \in CallRecord /\ CallInv(Errs(i)) /\ KeptInv(Errs(i))
      /\ call[i].stage = "running"
  BY <1>1, ErrsIsKnown DEF KeptInv, Waits
<1>3. Moves(i, Errs(i))
  BY <1>1, <1>2, WithoutProcess DEF Moves
<1> QED
  BY <1>3

LEMMA AnswerMoves ==
  ASSUME IInv, NEW i \in DOMAIN call, Answer(i)
  PROVE  \E c : Moves(i, c)
<1> DEFINE c == [call[i] EXCEPT !.stage = "answered"]
<1>1. /\ call[i] \in CallRecord /\ CallInv(call[i]) /\ KeptInv(call[i])
      /\ procs \in SUBSET (CallIds \X Targets)
  BY KnownCall
<1>2. /\ call[i].stage = "running" /\ ~call[i].busy
      /\ Set(i, c) /\ UNCHANGED <<run, procs>>
  BY DEF Answer
<1>3. \A p \in procs' : p[1] # i
  BY <1>2, NoProcess DEF Waits
<1>4. c \in CallRecord /\ CallInv(c) /\ KeptInv(c) /\ c.stage = "answered"
  BY <1>1, <1>2 DEF CallRecord, CallInv, KeptInv
<1> HIDE DEF c
<1>5. Moves(i, c)
  BY <1>1, <1>2, <1>3, <1>4 DEF Moves
<1> QED
  BY <1>5

\* A call that is cancelled leaves its process to itself.
LEMMA CancelMoves ==
  ASSUME IInv, NEW i \in DOMAIN call, Cancel(i)
  PROVE  \E c : Moves(i, c)
<1> DEFINE c == [call[i] EXCEPT !.stage = "lost", !.busy = FALSE]
<1>1. /\ call[i] \in CallRecord /\ CallInv(call[i]) /\ KeptInv(call[i])
      /\ procs \in SUBSET (CallIds \X Targets)
  BY KnownCall
<1>2. call[i].stage = "running" /\ Set(i, c) /\ UNCHANGED <<run, procs>>
  BY DEF Cancel, Waits
<1>3. \A p \in procs : p[1] = i => p[2] = call[i].begun
  BY DEF IInv, ProcInv
<1>4. /\ c \in CallRecord /\ CallInv(c) /\ KeptInv(c)
      /\ c.stage = "lost" /\ c.begun = call[i].begun
  BY <1>1, <1>2 DEF CallRecord, CallInv, KeptInv
<1> HIDE DEF c
<1>5. Moves(i, c)
  BY <1>1, <1>2, <1>3, <1>4 DEF Moves
<1> QED
  BY <1>5

-----------------------------------------------------------------------------
(* A tool ends.                                                            *)

\* What the collector makes of a tool's end: an error; or what the tool wrote, if it
\* is a collector that is not lenient; and at most that.
LEMMA ReadKeeps ==
  ASSUME IInv, NEW i \in DOMAIN call, Waits(i), NEW code \in Codes, NEW out \in Outputs
  PROVE  LET d == Read(i, code, out)
         IN \/ d = Errs(i)
            \/ \E S \in SUBSET (Records \cup {None}) :
                 /\ d = [call[i] EXCEPT !.busy = FALSE, !.found = @ \cup Of(i, S)]
                 /\ call[i].tool \notin Lenient =>
                      S = out.good /\ out.unreadable = {} /\ out.invalid = {}
<1> DEFINE a == Adapter[call[i].tool]
           with(S) == [call[i] EXCEPT !.busy = FALSE, !.found = @ \cup Of(i, S)]
           Fails == \/ code \notin a.ok
                    \/ (out.alien /\ a.alien = "fails")
                    \/ (out.unreadable # {} /\ a.unreadable = "fails")
           Omits == out.alien \/ (out.unreadable # {} /\ a.unreadable = "file")
<1>1. call[i].tool \in Tools
  BY KnownCall DEF Waits, CallInv, CallRecord
<1>2. call[i].tool \notin Lenient =>
        a.alien = "fails" /\ a.unreadable = "fails" /\ a.verdict = FALSE
  BY <1>1, StrictTool
<1>3. out.good \in SUBSET (Records \cup {None})
  BY DEF Outputs
<1>4. Read(i, code, out) =
        IF a.verdict THEN with(IF code = 0 THEN {} ELSE {None})
        ELSE IF Fails THEN Errs(i)
        ELSE IF Omits THEN with({})
        ELSE IF out.invalid # {} THEN Errs(i)
        ELSE with(out.good)
  BY DEF Read
<1>5. CASE a.verdict
  <2>1. call[i].tool \in Lenient
    BY <1>2, <1>5
  <2>2. PICK S \in SUBSET (Records \cup {None}) : Read(i, code, out) = with(S)
    <3>1. CASE code = 0
      BY <1>4, <1>5, <3>1
    <3>2. CASE code # 0
      BY <1>4, <1>5, <3>2
    <3> QED
      BY <3>1, <3>2
  <2> QED
    BY <2>1, <2>2
<1>6. CASE ~a.verdict /\ Fails
  BY <1>4, <1>6
<1>7. CASE ~a.verdict /\ ~Fails /\ Omits
  <2>1. PICK S \in SUBSET (Records \cup {None}) : Read(i, code, out) = with(S)
    BY <1>4, <1>7
  <2>2. call[i].tool \in Lenient
    BY <1>2, <1>7
  <2> QED
    BY <2>1, <2>2
<1>8. CASE ~a.verdict /\ ~Fails /\ ~Omits /\ out.invalid # {}
  BY <1>4, <1>8
<1>9. CASE ~a.verdict /\ ~Fails /\ ~Omits /\ out.invalid = {}
  <2>1. Read(i, code, out) = with(out.good)
    BY <1>4, <1>9
  <2>2. call[i].tool \notin Lenient => out.unreadable = {}
    BY <1>2, <1>9
  <2> QED
    BY <1>3, <1>9, <2>1, <2>2
<1> QED
  BY <1>5, <1>6, <1>7, <1>8, <1>9

\* Records of the target that was waited for are facts.
LEMMA OfIsFacts ==
  ASSUME IInv, NEW i \in DOMAIN call, Waits(i), NEW S \in SUBSET (Records \cup {None})
  PROVE  Of(i, S) \in SUBSET Facts
<1>1. call[i] \in CallRecord /\ CallInv(call[i])
  BY KnownCall
<1>2. call[i].begun \in Targets
  BY <1>1 DEF Waits, CallInv, CallRecord, Targets
<1> QED
  BY <1>2 DEF Of, Facts

LEMMA ExitMoves ==
  ASSUME IInv, NEW i \in DOMAIN call, NEW code \in Codes, NEW out \in Outputs,
         Exit(i, code, out)
  PROVE  \E c : Moves(i, c)
<1> DEFINE R == out.good \cup out.unreadable \cup out.invalid
           d == Read(i, code, out)
           c == [d EXCEPT !.wrote = @ \cup Of(i, R)]
<1>1. Waits(i) /\ Set(i, c) /\ procs' = procs \ {Process(i)} /\ UNCHANGED run
  BY DEF Exit
<1>2. /\ call[i] \in CallRecord /\ CallInv(call[i]) /\ KeptInv(call[i])
      /\ call[i].stage = "running"
  BY <1>1, KnownCall DEF Waits
<1>3. R \in SUBSET (Records \cup {None})
  BY DEF Outputs
<1>4. Of(i, R) \in SUBSET Facts
  BY <1>1, <1>3, OfIsFacts
<1>5. /\ procs' \in SUBSET (CallIds \X Targets)
      /\ \A p \in procs' : p[1] # i /\ p \in procs
  BY <1>1, WithoutProcess
<1>6. c \in CallRecord /\ CallInv(c) /\ KeptInv(c) /\ call[i].stage = "running"
  <2>1. CASE d = Errs(i)
    <3>1. d \in CallRecord /\ CallInv(d) /\ d.failed
      BY <1>1, <2>1, ErrsIsKnown
    <3> HIDE DEF d, R
    <3> QED
      BY <1>2, <1>4, <3>1 DEF CallRecord, CallInv, KeptInv
  <2>2. ASSUME NEW S \in SUBSET (Records \cup {None}),
               d = [call[i] EXCEPT !.busy = FALSE, !.found = @ \cup Of(i, S)],
               call[i].tool \notin Lenient =>
                 S = out.good /\ out.unreadable = {} /\ out.invalid = {}
        PROVE  c \in CallRecord /\ CallInv(c) /\ KeptInv(c)
    <3>1. Of(i, S) \in SUBSET Facts
      BY <1>1, OfIsFacts
    <3>2. call[i].tool \notin Lenient => R = S
      BY <2>2
    <3> HIDE DEF R, d
    <3>3. d \in CallRecord
      BY <1>2, <2>2, <3>1 DEF CallRecord
    <3>4. c \in CallRecord
      BY <1>4, <3>3 DEF CallRecord
    <3>5. CallInv(c)
      BY <1>2, <2>2 DEF CallInv, CallRecord
    <3>6. /\ c.tool = call[i].tool /\ c.failed = call[i].failed
          /\ c.wrote = call[i].wrote \cup Of(i, R)
          /\ c.found = call[i].found \cup Of(i, S)
      BY <1>2, <2>2 DEF CallRecord
    <3>7. KeptInv(c)
      BY <1>2, <3>2, <3>6 DEF KeptInv
    <3> QED
      BY <3>4, <3>5, <3>7
  <2>3. \/ d = Errs(i)
        \/ \E S \in SUBSET (Records \cup {None}) :
             /\ d = [call[i] EXCEPT !.busy = FALSE, !.found = @ \cup Of(i, S)]
             /\ call[i].tool \notin Lenient =>
                  S = out.good /\ out.unreadable = {} /\ out.invalid = {}
    BY <1>1, ReadKeeps
  <2> HIDE DEF d, c
  <2> QED
    BY <1>2, <2>1, <2>2, <2>3
<1> HIDE DEF c
<1>7. Moves(i, c)
  BY <1>1, <1>5, <1>6 DEF Moves
<1> QED
  BY <1>7

-----------------------------------------------------------------------------
(* The invariant.                                                          *)

LEMMA InitInv == Init => IInv
<1> SUFFICES ASSUME Init PROVE IInv
  OBVIOUS
<1> DEFINE calls == CallsFor(run.kind, run.offline)
<1>1. /\ run \in [kind : Kinds, offline : BOOLEAN, tries : {0}, stage : {"preparing"},
                  findings : {{}}, errors : {{}}]
      /\ procs = {}
  BY DEF Init
<1>2. PICK n \in 1..MaxCalls : \E at \in [1..n -> DOMAIN calls] :
        call = [i \in 1..n |-> Idle(calls[at[i]])]
  BY DEF Init
<1>3. PICK at \in [1..n -> DOMAIN calls] : call = [i \in 1..n |-> Idle(calls[at[i]])]
  BY <1>2
<1>4. \A i \in 1..n : calls[at[i]] \in Tools \cup {Skipped}
  BY <1>1, <1>3, CallsAreKnown
<1> HIDE DEF calls
<1>5. ASSUME NEW t \in Tools \cup {Skipped}
      PROVE  /\ Idle(t) \in CallRecord /\ CallInv(Idle(t)) /\ KeptInv(Idle(t))
             /\ Idle(t).stage = "waiting"
  BY DEF Idle, CallRecord, CallInv, KeptInv
<1>6. /\ DOMAIN call = 1..n /\ call \in [DOMAIN call -> CallRecord]
      /\ \A i \in DOMAIN call : /\ CallInv(call[i]) /\ KeptInv(call[i])
                                /\ call[i].stage = "waiting"
  BY <1>3, <1>4, <1>5
<1>7. TypeOK
  <2>1. run \in [kind : Kinds, offline : BOOLEAN, tries : 0..MaxRetries,
                 stage : {"preparing", "collecting", "reported", "gaveup"},
                 findings : SUBSET (CallIds \X Facts), errors : SUBSET CallIds]
    BY <1>1 DEF MaxRetries
  <2>2. DOMAIN call \subseteq CallIds
    BY <1>6 DEF CallIds
  <2> QED
    BY <1>1, <1>6, <2>1, <2>2 DEF TypeOK
<1>8. Running = {} /\ Cardinality({}) = 0
  BY <1>6, FS_EmptySet DEF Running
<1>9. SlotInv /\ ProcInv /\ ReportInv
  BY <1>1, <1>8 DEF SlotInv, ProcInv, ReportInv
<1> QED
  BY <1>6, <1>7, <1>9 DEF IInv

\* The report is of the calls as they ended.
LEMMA GatherKeeps == IInv /\ Gather => IInv'
<1> SUFFICES ASSUME IInv, Gather PROVE IInv'
  OBVIOUS
<1> DEFINE F == UNION {{i} \X call[i].found :
                        i \in {k \in DOMAIN call : call[k].stage = "answered"}}
           E == {i \in DOMAIN call : call[i].stage = "answered" /\ call[i].failed}
<1>1. /\ run' = [run EXCEPT !.stage = "reported", !.findings = F, !.errors = E]
      /\ Ended = DOMAIN call /\ UNCHANGED <<call, procs>>
  BY DEF Gather
<1>2. TypeOK
  BY DEF IInv
<1>3. \A i \in DOMAIN call : i \in CallIds /\ call[i].found \subseteq Facts
  BY <1>2 DEF TypeOK, CallRecord
<1>4. F \in SUBSET (CallIds \X Facts) /\ E \in SUBSET CallIds
  BY <1>3
<1>5. \A i \in DOMAIN call : call[i].stage = "answered" =>
        {i} \X call[i].found \subseteq F /\ (call[i].failed => i \in E)
  OBVIOUS
<1>6. \A p \in F : p[1] \in DOMAIN call /\ p[2] \in call[p[1]].found
  OBVIOUS
<1> HIDE DEF F, E
<1>7. run'.findings = F /\ run'.errors = E
  BY <1>1, <1>2 DEF TypeOK
<1>8. TypeOK'
  BY <1>1, <1>2, <1>4 DEF TypeOK
<1>9. ReportInv'
  BY <1>1, <1>5, <1>6, <1>7 DEF ReportInv, Ended
<1> QED
  BY <1>1, <1>8, <1>9 DEF IInv, SlotInv, Running, ProcInv

\* Nothing happens to the calls before and beside the run.
LEMMA TaskKeeps ==
  ASSUME IInv, Prepare \/ Fail \/ \E p \in Orphans : Reap(p)
  PROVE  IInv'
<1>1. CASE Prepare \/ Fail
  <2>1. TypeOK'
    BY <1>1 DEF IInv, TypeOK, Prepare, Fail, MaxRetries
  <2>2. run'.stage # "reported" /\ UNCHANGED <<call, procs>>
    BY <1>1 DEF IInv, TypeOK, Prepare, Fail
  <2> QED
    BY <2>1, <2>2 DEF IInv, SlotInv, Running, ProcInv, ReportInv
<1>2. CASE \E p \in Orphans : Reap(p)
  BY <1>2 DEF IInv, TypeOK, Reap, SlotInv, Running, ProcInv, ReportInv, Ended
<1> QED
  BY <1>1, <1>2

LEMMA StepInv == IInv /\ [Collect \/ Gather]_vars => IInv'
<1> SUFFICES ASSUME IInv, [Collect \/ Gather]_vars PROVE IInv'
  OBVIOUS
<1>1. ASSUME NEW i \in DOMAIN call, Call(i)
      PROVE  IInv'
  <2>1. \E c : Moves(i, c)
    BY <1>1, EnterMoves, NotInstalledMoves, BeginMoves, TimeOutMoves, AnswerMoves,
       CancelMoves, ExitMoves DEF Call
  <2> QED
    BY <2>1, MoveKeeps
<1>2. CASE UNCHANGED vars
  BY <1>2 DEF vars, IInv, TypeOK, SlotInv, Running, ProcInv, ReportInv, Ended
<1> QED
  BY <1>1, <1>2, GatherKeeps, TaskKeeps DEF Collect

\* The invariant of a run: slots, processes, records and the report, whatever tools
\* write, fail, exceed their limits or are cancelled.
THEOREM RunInductive == Spec => []IInv
BY InitInv, StepInv, PTL DEF Spec

\* ScanRun is a run of the collectors: merging and scoring, which come with the last
\* answer, take nothing from them.
THEOREM ScanIsARun == ScanSpec => Spec
<1>1. ScanInit => Init
  BY DEF ScanInit
<1>2. [ScanNext]_scanVars => [Collect \/ Gather]_vars
  BY DEF ScanNext, Report, scanVars, vars
<1> QED
  BY <1>1, <1>2, PTL DEF ScanSpec, Spec

\* The type invariant of a scan.
THEOREM ScanTypeOK == ScanSpec => []TypeOK
<1>1. IInv => TypeOK
  BY DEF IInv
<1> QED
  BY <1>1, RunInductive, ScanIsARun, PTL

-----------------------------------------------------------------------------
(* What follows.                                                           *)

\* NothingIsDroppedSilently: what a tool wrote is among the findings of the run or the
\* error of its collector in the report.
THEOREM NothingIsEverDropped == ScanSpec => []NothingIsDroppedSilently
<1>1. IInv => NothingIsDroppedSilently
  <2> SUFFICES ASSUME IInv, run.stage = "reported", NEW i \in DOMAIN call,
                      call[i].stage = "answered", call[i].tool \notin Lenient,
                      i \notin run.errors, NEW f \in call[i].wrote
               PROVE  <<i, f>> \in run.findings
    BY DEF NothingIsDroppedSilently
  <2>1. {i} \X call[i].found \subseteq run.findings /\ ~call[i].failed
    BY DEF IInv, ReportInv
  <2>2. f \in call[i].found
    BY <2>1 DEF IInv, KeptInv
  <2> QED
    BY <2>1, <2>2
<1> QED
  BY <1>1, RunInductive, ScanIsARun, PTL

\* Processes are as many as slots and cancelled calls, at most.
LEMMA ProcessesAreFew ==
  ASSUME IInv
  PROVE  Cardinality(procs) <=
           MaxParallel + Cardinality({i \in DOMAIN call : call[i].stage = "lost"})
<1> DEFINE L == {i \in DOMAIN call : call[i].stage = "lost"}
           h == [p \in procs |-> p[1]]
<1>1. TypeOK /\ SlotInv /\ ProcInv
  BY DEF IInv
<1>2. IsFiniteSet(Running) /\ IsFiniteSet(L)
  BY <1>1, FiniteCalls, FS_Subset
<1>3. /\ IsFiniteSet(Running \cup L)
      /\ Cardinality(Running \cup L) <= Cardinality(Running) + Cardinality(L)
      /\ Cardinality(Running) \in Nat /\ Cardinality(L) \in Nat
      /\ Cardinality(Running \cup L) \in Nat
  <2>1. Running \cap L = {}
    BY DEF Running
  <2> HIDE DEF L
  <2>2. /\ IsFiniteSet(Running \cup L)
        /\ Cardinality(Running \cup L)
             = Cardinality(Running) + Cardinality(L) - Cardinality(Running \cap L)
    BY <1>2, FS_Union
  <2>3. /\ Cardinality(Running) \in Nat /\ Cardinality(L) \in Nat
        /\ Cardinality(Running \cup L) \in Nat
    BY <1>2, <2>2, FS_CardinalityType
  <2>4. Cardinality(Running \cap L) = 0
    BY <2>1, FS_EmptySet
  <2> QED
    BY <2>2, <2>3, <2>4
<1>4. h \in Injection(procs, Running \cup L)
  <2>1. \A p \in procs : p = <<p[1], p[2]>> /\ p[2] = call[p[1]].begun
    BY <1>1 DEF TypeOK, ProcInv
  <2>2. \A p \in procs : p[1] \in Running \cup L
    BY <1>1 DEF ProcInv, Running
  <2>3. \A p, q \in procs : p[1] = q[1] => p = q
    BY <2>1
  <2> HIDE DEF L
  <2>4. h \in [procs -> Running \cup L] /\ \A p \in procs : h[p] = p[1]
    BY <2>2
  <2> HIDE DEF h
  <2> QED
    BY <2>3, <2>4 DEF Injection, IsInjective
<1>5. /\ IsFiniteSet(procs) /\ Cardinality(procs) \in Nat
      /\ Cardinality(procs) <= Cardinality(Running \cup L)
  <2> HIDE DEF h, L
  <2> QED
    BY <1>3, <1>4, FS_Injection, FS_CardinalityType
<1> HIDE DEF L, h
<1>6. Cardinality(Running) <= MaxParallel
  BY <1>1 DEF SlotInv
<1>7. Cardinality(procs) <= MaxParallel + Cardinality(L)
  BY <1>3, <1>5, <1>6
<1> QED
  BY <1>7 DEF L

\* ToolsAreBounded: tools run in the slots, or are left over from cancelled calls.
THEOREM ToolsAreAlwaysBounded == ScanSpec => []ToolsAreBounded
<1>1. ASSUME IInv, NEW p \in Orphans
      PROVE  call[p[1]].stage = "lost"
  <2>1. p \in procs /\ p = <<p[1], p[2]>>
    BY <1>1 DEF IInv, TypeOK, Orphans
  <2> QED
    BY <1>1, <2>1 DEF IInv, ProcInv, Orphans, Waits, Process
<1>2. IInv => ToolsAreBounded
  BY <1>1, ProcessesAreFew DEF ToolsAreBounded
<1> QED
  BY <1>2, RunInductive, ScanIsARun, PTL

-----------------------------------------------------------------------------
(* Sequences, and functions that are defined from one value to the next.    *)

\* What holds of 0 and of each successor holds up to n.
LEMMA UpTo ==
  ASSUME NEW n \in Nat, NEW S, 0 \in S,
         \A k \in 1..n : k - 1 \in S => k \in S
  PROVE  0..n \subseteq S
<1> DEFINE T == (0..n) \ S
<1>1. T \subseteq Nat
  OBVIOUS
<1> SUFFICES ASSUME T # {} PROVE FALSE
  OBVIOUS
<1>2. PICK m \in T : \A y \in T : ~(<<y, m>> \in OpToRel(<, Nat))
  <2> HIDE DEF T
  <2> QED
    BY <1>1, NatLessThanWellFounded, WFMin
<1>3. m \in T
  BY <1>2
<1>4. m \in 1..n /\ m - 1 \in Nat /\ m - 1 < m
  BY <1>3
<1>5. <<m - 1, m>> \in OpToRel(<, Nat)
  BY <1>4 DEF OpToRel
<1>6. m - 1 \notin T
  BY <1>2, <1>5
<1> QED
  BY <1>3, <1>4, <1>6

\* The values of a sequence.
LEMMA ValuesOf ==
  ASSUME NEW S, NEW s \in Seq(S)
  PROVE  /\ ToSet(s) \subseteq S /\ (ToSet(s) = {} <=> s = <<>>)
         /\ \A x : x \in ToSet(s) <=> \E i \in 1..Len(s) : s[i] = x
         /\ \A i \in 1..Len(s) : s[i] \in ToSet(s)
<1>1. DOMAIN s = 1..Len(s) /\ Len(s) \in Nat /\ \A i \in 1..Len(s) : s[i] \in S
  OBVIOUS
<1>2. s # <<>> => 1 \in 1..Len(s)
  OBVIOUS
<1>3. s = <<>> => 1..Len(s) = {}
  OBVIOUS
<1>4. \A x : x \in ToSet(s) <=> \E i \in 1..Len(s) : s[i] = x
  BY <1>1 DEF ToSet
<1>5. \A i \in 1..Len(s) : s[i] \in ToSet(s)
  BY <1>4
<1>6. ToSet(s) = {} => s = <<>>
  BY <1>2, <1>5
<1>7. s = <<>> => ToSet(s) = {}
  BY <1>3, <1>4
<1>8. ToSet(s) \subseteq S
  BY <1>1, <1>4
<1> QED
  BY <1>4, <1>5, <1>6, <1>7, <1>8
\* The values of a sequence that is one value longer.
LEMMA ValuesOfAppend ==
  ASSUME NEW S, NEW s \in Seq(S), NEW v \in S
  PROVE  ToSet(Append(s, v)) = ToSet(s) \cup {v}
<1> DEFINE r == Append(s, v)
<1>1. /\ r \in Seq(S) /\ Len(r) = Len(s) + 1 /\ Len(s) \in Nat
      /\ \A i \in 1..Len(s) : r[i] = s[i]
      /\ r[Len(s) + 1] = v
  OBVIOUS
<1> HIDE DEF r
<1>2. \A i \in 1..Len(r) : i \in 1..Len(s) \/ i = Len(s) + 1
  BY <1>1
<1>3. \A i \in 1..Len(s) : i \in 1..Len(r)
  BY <1>1
<1>4. Len(s) + 1 \in 1..Len(r)
  BY <1>1
<1>5. /\ \A x : x \in ToSet(s) <=> \E i \in 1..Len(s) : s[i] = x
      /\ \A x : x \in ToSet(r) <=> \E i \in 1..Len(r) : r[i] = x
  BY <1>1, ValuesOf
<1>6. ToSet(r) = ToSet(s) \cup {v}
  BY <1>1, <1>2, <1>3, <1>4, <1>5
<1> QED
  BY <1>6 DEF r

\* The values of two sequences, one after the other.
LEMMA ValuesOfBoth ==
  ASSUME NEW S, NEW s \in Seq(S), NEW t \in Seq(S)
  PROVE  ToSet(s \o t) = ToSet(s) \cup ToSet(t)
<1> DEFINE r == s \o t
<1>1. /\ r \in Seq(S) /\ Len(r) = Len(s) + Len(t) /\ Len(s) \in Nat /\ Len(t) \in Nat
      /\ \A i \in 1..Len(s) : r[i] = s[i]
      /\ \A i \in 1..Len(t) : r[Len(s) + i] = t[i]
  OBVIOUS
<1> HIDE DEF r
<1>2. ASSUME NEW i \in 1..Len(r), i \notin 1..Len(s)
      PROVE  \E j \in 1..Len(t) : i = Len(s) + j
  <2>1. i - Len(s) \in 1..Len(t) /\ i = Len(s) + (i - Len(s))
    BY <1>1, <1>2
  <2> QED
    BY <2>1
<1>3. /\ \A i \in 1..Len(s) : i \in 1..Len(r)
      /\ \A j \in 1..Len(t) : Len(s) + j \in 1..Len(r)
  BY <1>1
<1>4. /\ \A x : x \in ToSet(s) <=> \E i \in 1..Len(s) : s[i] = x
      /\ \A x : x \in ToSet(t) <=> \E i \in 1..Len(t) : t[i] = x
      /\ \A x : x \in ToSet(r) <=> \E i \in 1..Len(r) : r[i] = x
  BY <1>1, ValuesOf
<1>5. ASSUME NEW x \in ToSet(r) PROVE x \in ToSet(s) \cup ToSet(t)
  <2>1. PICK i \in 1..Len(r) : r[i] = x
    BY <1>4, <1>5
  <2>2. CASE i \in 1..Len(s)
    BY <1>1, <1>4, <2>1, <2>2
  <2>3. CASE i \notin 1..Len(s)
    <3>1. PICK j \in 1..Len(t) : i = Len(s) + j
      BY <1>2, <2>3
    <3>2. t[j] = x
      BY <1>1, <2>1, <3>1
    <3>3. x \in ToSet(t)
      BY <1>4, <3>2
    <3> QED
      BY <3>3
  <2> QED
    BY <2>2, <2>3
<1>6. ASSUME NEW x \in ToSet(s) \cup ToSet(t) PROVE x \in ToSet(r)
  BY SMTT(30), <1>1, <1>3, <1>4, <1>6
<1>7. ToSet(r) = ToSet(s) \cup ToSet(t)
  BY <1>5, <1>6
<1> QED
  BY <1>7 DEF r

\* A function on 0..N of which each value follows from the last.
Follows(f, N, X, first, step) ==
  /\ f \in [0..N -> X] /\ f[0] = first
  /\ \A n \in 1..N : f[n] = step[<<n, f[n - 1]>>]

\* A function is determined, from its first value, by how each follows from the last.
LEMMA Recursion ==
  ASSUME NEW N \in Nat, NEW X, NEW first \in X, NEW step,
         \A n \in 1..N, x \in X : step[<<n, x>>] \in X
  PROVE  \E f : Follows(f, N, X, first, step)
<1> DEFINE Keeps(f, m) == Follows(f, m, X, first, step)
           Built == {m \in 0..N : \E f : Keeps(f, m)}
<1>1. 0 \in Built
  <2>1. Keeps([n \in 0..0 |-> first], 0)
    BY DEF Follows
  <2> HIDE DEF Keeps
  <2> QED
    BY <2>1
<1>2. ASSUME NEW k \in 1..N, k - 1 \in Built PROVE k \in Built
  <2>1. PICK f : Keeps(f, k - 1)
    BY <1>2
  <2> DEFINE e == step[<<k, f[k - 1]>>]
             g == [n \in 0..k |-> IF n < k THEN f[n] ELSE e]
  <2>2. k - 1 \in 0..(k - 1) /\ e \in X
    <3>1. k - 1 \in 0..(k - 1)
      OBVIOUS
    <3>2. f[k - 1] \in X
      BY <2>1, <3>1 DEF Follows
    <3> QED
      BY <3>1, <3>2
  <2> HIDE DEF e
  <2>3. g \in [0..k -> X] /\ g[0] = first /\ g[k] = e
    BY <2>1, <2>2 DEF Follows
  <2>4. \A n \in 0..(k - 1) : g[n] = f[n]
    OBVIOUS
  <2> HIDE DEF g
  <2>5. ASSUME NEW n \in 1..k PROVE g[n] = step[<<n, g[n - 1]>>]
    <3>1. CASE n = k
      BY <2>2, <2>3, <2>4, <3>1 DEF e
    <3>2. CASE n # k
      <4>1. n \in 1..(k - 1) /\ n \in 0..(k - 1) /\ n - 1 \in 0..(k - 1)
        BY <3>2
      <4> QED
        BY <2>1, <2>4, <4>1 DEF Follows
    <3> QED
      BY <3>1, <3>2
  <2>6. Keeps(g, k)
    BY <2>3, <2>5 DEF Follows
  <2> HIDE DEF Keeps
  <2> QED
    BY <2>6
<1>3. N \in Built
  <2> HIDE DEF Built
  <2> QED
    BY <1>1, <1>2, UpTo
<1> QED
  BY <1>3

\* The values of both sequences, each once; the first of them stays the first.
LEMMA UnionOf ==
  ASSUME NEW S, NEW s \in Seq(S), NEW t \in Seq(S)
  PROVE  /\ Union(s, t) \in Seq(S) /\ ToSet(Union(s, t)) = ToSet(s) \cup ToSet(t)
         /\ s # <<>> => Union(s, t) # <<>> /\ Head(Union(s, t)) = Head(s)
         /\ s = <<>> /\ t # <<>> => Union(s, t) # <<>> /\ Head(Union(s, t)) = Head(t)
<1> DEFINE all == s \o t
           L == Len(all)
           Next1(f, n) == IF n = 0 THEN <<>>
                          ELSE IF all[n] \in ToSet(f[n - 1]) THEN f[n - 1]
                          ELSE Append(f[n - 1], all[n])
           out == CHOOSE f : f = [n \in 0..L |-> Next1(f, n)]
<1>1. all \in Seq(S) /\ L \in Nat /\ \A n \in 1..L : all[n] \in S
  OBVIOUS
<1>2. \E f : f = [n \in 0..L |-> Next1(f, n)]
  <2> DEFINE step == [p \in (1..L) \X Seq(S) |->
                        IF all[p[1]] \in ToSet(p[2]) THEN p[2] ELSE Append(p[2], all[p[1]])]
  <2> HIDE DEF all, L
  <2>1. step \in [(1..L) \X Seq(S) -> Seq(S)] /\ <<>> \in Seq(S)
    BY <1>1
  <2>2. \A n \in 1..L, q \in Seq(S) :
          step[<<n, q>>] = IF all[n] \in ToSet(q) THEN q ELSE Append(q, all[n])
    OBVIOUS
  <2> HIDE DEF step
  <2>3. PICK f \in [0..L -> Seq(S)] :
          f[0] = <<>> /\ \A n \in 1..L : f[n] = step[<<n, f[n - 1]>>]
    <3> DEFINE X == Seq(S)
               first == <<>>
    <3>1. first \in X /\ \A n \in 1..L, q \in X : step[<<n, q>>] \in X
      BY <2>1
    <3> HIDE DEF X, first
    <3>2. \E f : Follows(f, L, X, first, step)
      BY <1>1, <3>1, Recursion
    <3> QED
      BY <3>2 DEF X, first, Follows
  <2>4. ASSUME NEW n \in 0..L PROVE f[n] = Next1(f, n)
    <3>1. CASE n = 0
      BY <2>3, <3>1
    <3>2. CASE n # 0
      <4>1. n \in 1..L /\ n - 1 \in 0..L
        BY <1>1, <3>2
      <4> QED
        BY <2>2, <2>3, <3>2, <4>1
    <3> QED
      BY <3>1, <3>2
  <2> HIDE DEF Next1
  <2> QED
    BY <2>3, <2>4
<1>3. out = [n \in 0..L |-> Next1(out, n)]
  <2> HIDE DEF Next1, L
  <2> QED
    BY <1>2
<1>4. Union(s, t) = out[L]
  BY DEF Union
<1> HIDE DEF out
<1>5. \A n \in 0..L : out[n] = Next1(out, n)
  <2> HIDE DEF Next1
  <2> QED
    BY <1>3
<1> DEFINE Good(q, n) ==
             /\ q \in Seq(S) /\ ToSet(q) = {all[i] : i \in 1..n}
             /\ n > 0 => q # <<>> /\ Head(q) = all[1]
           Fine == {n \in 0..L : Good(out[n], n)}
<1> HIDE DEF all, L
<1>6. 0 \in Fine
  <2>1. out[0] = <<>> /\ 0 \in 0..L
    BY <1>1, <1>5
  <2>2. Good(<<>>, 0)
    BY DEF ToSet
  <2> HIDE DEF Good
  <2> QED
    BY <2>1, <2>2
<1>7. ASSUME NEW n \in 1..L, n - 1 \in Fine PROVE n \in Fine
  <2> DEFINE q == out[n - 1]
             v == all[n]
  <2>1. Good(q, n - 1) /\ v \in S
    BY <1>1, <1>7
  <2>2. out[n] = IF v \in ToSet(q) THEN q ELSE Append(q, v)
    BY <1>1, <1>5
  <2>3. {all[i] : i \in 1..n} = {all[i] : i \in 1..(n - 1)} \cup {v}
    <3>1. \A i : i \in 1..n <=> (i \in 1..(n - 1) \/ i = n)
      BY <1>1
    <3> QED
      BY <3>1
  <2>4. CASE v \in ToSet(q)
    <3>1. n - 1 > 0
      BY <2>1, <2>4, <1>1
    <3>2. Good(q, n)
      BY <2>1, <2>3, <2>4, <3>1
    <3> QED
      BY <2>2, <2>4, <3>2, <1>1
  <2>5. CASE v \notin ToSet(q)
    <3>1. Append(q, v) \in Seq(S) /\ Append(q, v) # <<>>
      <4>1. q \in Seq(S) /\ v \in S
        BY <2>1
      <4> HIDE DEF q, v
      <4> QED
        BY <4>1, AppendProperties
    <3>2. ToSet(Append(q, v)) = ToSet(q) \cup {v}
      <4>1. q \in Seq(S) /\ v \in S
        BY <2>1
      <4> HIDE DEF q, v
      <4> QED
        BY <4>1, ValuesOfAppend
    <3>3. Head(Append(q, v)) = all[1]
      <4>1. CASE q = <<>>
        <5>1. n = 1
          BY <2>1, <4>1, <1>1
        <5> QED
          BY <4>1, <5>1
      <4>2. CASE q # <<>>
        <5>1. ToSet(q) # {}
          <6>1. q \in Seq(S)
            BY <2>1
          <6> HIDE DEF q
          <6> QED
            BY <4>2, <6>1, ValuesOf
        <5>2. n - 1 > 0
          BY <5>1, <2>1, <1>1
        <5> QED
          BY <2>1, <4>2, <5>2
      <4> QED
        BY <4>1, <4>2
    <3> HIDE DEF q, v
    <3>4. Good(Append(q, v), n)
      BY <2>1, <2>3, <3>1, <3>2, <3>3
    <3> HIDE DEF Good
    <3>5. Good(out[n], n) /\ n \in 0..L
      BY <2>2, <2>5, <3>4, <1>1
    <3> QED
      BY <3>5
  <2> QED
    BY <2>4, <2>5
<1>8. Good(Union(s, t), L)
  <2>1. L \in Fine
    <3> HIDE DEF Fine
    <3>1. 0..L \subseteq Fine
      BY <1>1, <1>6, <1>7, UpTo
    <3> QED
      BY <3>1, <1>1
  <2> QED
    BY <2>1, <1>4
<1>9. /\ L = Len(s) + Len(t) /\ Len(s) \in Nat /\ Len(t) \in Nat
      /\ \A i \in 1..Len(s) : all[i] = s[i]
      /\ \A i \in 1..Len(t) : all[Len(s) + i] = t[i]
  BY DEF all, L
<1>10. {all[i] : i \in 1..L} = ToSet(s) \cup ToSet(t)
  <2>1. \A x : x \in ToSet(all) <=> \E i \in 1..L : all[i] = x
    BY <1>1, ValuesOf DEF L
  <2>2. ToSet(all) = ToSet(s) \cup ToSet(t)
    BY ValuesOfBoth DEF all
  <2> QED
    BY <2>1, <2>2
<1>11. /\ s # <<>> => 1 \in 1..Len(s) /\ Head(s) = s[1]
       /\ s = <<>> /\ t # <<>> => Len(s) = 0 /\ 1 \in 1..Len(t) /\ Head(t) = t[1]
  OBVIOUS
<1>12. /\ s # <<>> => L > 0 /\ all[1] = Head(s)
       /\ s = <<>> /\ t # <<>> => L > 0 /\ all[1] = Head(t)
  BY <1>9, <1>11
<1> QED
  BY <1>8, <1>10, <1>12

\* Sequences of a sequence, put together.
LEMMA FlattenOf ==
  ASSUME NEW S, NEW ss \in Seq(Seq(S))
  PROVE  /\ FlattenSeq(ss) \in Seq(S)
         /\ \A x : x \in ToSet(FlattenSeq(ss)) <=> \E i \in 1..Len(ss) : x \in ToSet(ss[i])
<1> DEFINE N == Len(ss)
           Next1(f, n) == IF n = 1 THEN ss[n] ELSE f[n - 1] \o ss[n]
           flat == CHOOSE f : f = [n \in 1..N |-> Next1(f, n)]
<1>1. N \in Nat /\ \A n \in 1..N : ss[n] \in Seq(S)
  OBVIOUS
<1>2. \E f : f = [n \in 1..N |-> Next1(f, n)]
  <2> DEFINE step == [p \in (1..N) \X Seq(S) |-> IF p[1] = 1 THEN ss[1] ELSE p[2] \o ss[p[1]]]
             X == Seq(S)
             first == <<>>
  <2> HIDE DEF N
  <2>1. \A n \in 1..N, q \in Seq(S) :
          step[<<n, q>>] = IF n = 1 THEN ss[n] ELSE q \o ss[n]
    OBVIOUS
  <2> HIDE DEF step
  <2>2. first \in X /\ \A n \in 1..N, q \in X : step[<<n, q>>] \in X
    <3>1. ASSUME NEW n \in 1..N, NEW q \in Seq(S) PROVE step[<<n, q>>] \in Seq(S)
      <4>1. ss[n] \in Seq(S) /\ q \o ss[n] \in Seq(S)
        BY <1>1, ConcatProperties
      <4> QED
        BY <2>1, <4>1
    <3> QED
      BY <3>1
  <2>3. PICK f : Follows(f, N, X, first, step)
    <3> HIDE DEF X, first
    <3> QED
      BY <1>1, <2>2, Recursion
  <2>4. f \in [0..N -> X] /\ \A n \in 1..N : f[n] = step[<<n, f[n - 1]>>]
    <3> HIDE DEF X, first
    <3> QED
      BY <2>3 DEF Follows
  <2> DEFINE g == [n \in 1..N |-> f[n]]
  <2>5. ASSUME NEW n \in 1..N PROVE g[n] = Next1(g, n)
    <3>1. n - 1 \in 0..N /\ f[n - 1] \in Seq(S) /\ g[n] = step[<<n, f[n - 1]>>]
      BY <1>1, <2>4
    <3>2. CASE n = 1
      BY <2>1, <3>1, <3>2
    <3>3. CASE n # 1
      <4>1. n - 1 \in 1..N
        BY <1>1, <3>3
      <4>2. g[n - 1] = f[n - 1]
        BY <4>1
      <4> HIDE DEF g
      <4> QED
        BY <2>1, <3>1, <3>3, <4>2
    <3> QED
      BY <3>2, <3>3
  <2>6. g = [n \in 1..N |-> g[n]]
    OBVIOUS
  <2> HIDE DEF Next1, g
  <2>7. g = [n \in 1..N |-> Next1(g, n)]
    BY <2>5, <2>6
  <2> QED
    BY <2>7
<1>3. flat = [n \in 1..N |-> Next1(flat, n)]
  <2> HIDE DEF Next1, N
  <2> QED
    BY <1>2
<1>4. FlattenSeq(ss) = IF N = 0 THEN ss ELSE flat[N]
  BY DEF FlattenSeq
<1> HIDE DEF flat
<1>5. \A n \in 1..N : flat[n] = Next1(flat, n)
  <2> HIDE DEF Next1, N
  <2> QED
    BY <1>3
<1> DEFINE Good(q, n) ==
             /\ q \in Seq(S)
             /\ \A x : x \in ToSet(q) <=> \E i \in 1..n : x \in ToSet(ss[i])
           Fine == {n \in 0..N : n > 0 => Good(flat[n], n)}
<1> HIDE DEF N
<1>6. 0 \in Fine
  BY <1>1
<1>7. ASSUME NEW n \in 1..N, n - 1 \in Fine PROVE n \in Fine
  <2>1. CASE n = 1
    <3>1. flat[n] = ss[n]
      BY <1>5, <2>1
    <3>2. \A i : i \in 1..n <=> i = n
      BY <2>1
    <3>3. Good(ss[n], n)
      BY <1>1, <3>2
    <3> HIDE DEF Good
    <3> QED
      BY <1>1, <3>1, <3>3
  <2>2. CASE n # 1
    <3> DEFINE q == flat[n - 1]
    <3>1. Good(q, n - 1)
      BY <1>1, <1>7, <2>2
    <3>2. flat[n] = q \o ss[n]
      BY <1>5, <2>2
    <3> HIDE DEF q
    <3>3. q \in Seq(S) /\ ss[n] \in Seq(S)
      BY <1>1, <3>1
    <3>4. ToSet(q \o ss[n]) = ToSet(q) \cup ToSet(ss[n]) /\ q \o ss[n] \in Seq(S)
      BY <3>3, ValuesOfBoth
    <3>5. \A i : i \in 1..n <=> (i \in 1..(n - 1) \/ i = n)
      BY <1>1
    <3>6. Good(q \o ss[n], n)
      BY <3>1, <3>4, <3>5
    <3> HIDE DEF Good
    <3>7. Good(flat[n], n) /\ n \in 0..N
      BY <1>1, <3>2, <3>6
    <3> QED
      BY <3>7
  <2> QED
    BY <2>1, <2>2
<1>8. N > 0 => Good(flat[N], N)
  <2>1. 0..N \subseteq Fine
    <3> HIDE DEF Fine
    <3> QED
      BY <1>1, <1>6, <1>7, UpTo
  <2> HIDE DEF Good
  <2> QED
    BY <2>1, <1>1
<1>9. CASE N = 0
  <2>1. ss = <<>>
    BY <1>9 DEF N
  <2> QED
    BY <1>4, <1>9, <2>1 DEF N, ToSet
<1>10. CASE N # 0
  BY <1>1, <1>4, <1>8, <1>10 DEF N
<1> QED
  BY <1>9, <1>10

-----------------------------------------------------------------------------
(* Findings.                                                               *)

\* The fields of a finding.
Fields ==
  {"tool", "module", "title", "cve", "cwe", "severity", "cvss", "fix", "file", "line",
   "pkg", "version", "advisory", "rule", "check", "family", "resource", "path",
   "component", "host", "port", "scheme", "mark", "artifact", "tools", "score", "bucket"}

\* Identifiers; the one that is written out here is one the provers must know of.
Word == STRING \cup {"CWE-798"}

\* What the collectors, and whatever handles findings after them, make sure of.
IsFinding(f) ==
  /\ DOMAIN f = Fields
  /\ f.cve \in Seq(Word) /\ f.cwe \in Seq(Word) /\ f.cvss \in Nat
  /\ f.severity \in Info..Critical /\ f.tool \in f.tools

\* What a finding must say to stand for another one.
Covers(m, f) ==
  /\ IsFinding(m) /\ Fingerprint(m) = Fingerprint(f) /\ f.tools \subseteq m.tools
  /\ ToSet(f.cve) \subseteq ToSet(m.cve) /\ f.cvss <= m.cvss

\* The first identifier of a finding that took over others is what its key had.
LEMMA FirstOfUnion ==
  ASSUME NEW S, NEW s \in Seq(S), NEW t \in Seq(S), NEW a, NEW b,
         FirstOf(s, a) = FirstOf(t, b)
  PROVE  FirstOf(Union(s, t), a) = FirstOf(s, a)
<1> DEFINE u == Union(s, t)
<1>0. /\ s # <<>> => u # <<>> /\ Head(u) = Head(s)
      /\ s = <<>> /\ t # <<>> => u # <<>> /\ Head(u) = Head(t)
  BY UnionOf
<1>1. CASE s # <<>>
  BY <1>0, <1>1 DEF FirstOf
<1>2. CASE s = <<>> /\ t # <<>>
  <2>1. Union(s, t) # <<>> /\ Head(Union(s, t)) = Head(t)
    BY <1>0, <1>2
  <2>2. a = Head(t)
    BY <1>2 DEF FirstOf
  <2> QED
    BY <1>2, <2>1, <2>2 DEF FirstOf
<1>3. CASE s = <<>> /\ t = <<>>
  <2>1. Union(s, t) \in Seq(S) /\ ToSet(Union(s, t)) = ToSet(s) \cup ToSet(t)
    BY UnionOf
  <2>2. ToSet(s) = {} /\ ToSet(t) = {}
    BY <1>3, ValuesOf
  <2>3. Union(s, t) = <<>>
    BY <2>1, <2>2, ValuesOf
  <2> QED
    BY <1>3, <2>3
<1> QED
  BY <1>1, <1>2, <1>3

\* A union is empty only of empty sequences.
LEMMA EmptyUnion ==
  ASSUME NEW S, NEW s \in Seq(S), NEW t \in Seq(S), Union(s, t) = <<>>
  PROVE  s = <<>>
BY UnionOf

\* Of a merge: the fields that change, and the others.
LEMMA MergedFields ==
  ASSUME NEW w, NEW l, IsFinding(w), IsFinding(l)
  PROVE  LET m == MergePair(w, l) IN
         /\ DOMAIN m = Fields
         /\ m.cve = Union(w.cve, l.cve) /\ m.cwe = Union(w.cwe, l.cwe)
         /\ m.cvss = Most(w.cvss, l.cvss) /\ m.tools = w.tools \cup l.tools
         /\ \A x \in Fields \ {"cve", "cwe", "cvss", "tools"} : m[x] = w[x]
BY DEF IsFinding, MergePair, Fields

\* What two findings are merged into is a finding.
LEMMA MergedIsFinding ==
  ASSUME NEW w, NEW l, IsFinding(w), IsFinding(l)
  PROVE  IsFinding(MergePair(w, l))
<1> DEFINE m == MergePair(w, l)
<1>1. /\ DOMAIN m = Fields
      /\ m.cve = Union(w.cve, l.cve) /\ m.cwe = Union(w.cwe, l.cwe)
      /\ m.cvss = Most(w.cvss, l.cvss) /\ m.tools = w.tools \cup l.tools
      /\ m.severity = w.severity /\ m.tool = w.tool
  BY MergedFields DEF Fields
<1> HIDE DEF m
<1>2. m.cve \in Seq(Word) /\ m.cwe \in Seq(Word)
  BY <1>1, UnionOf DEF IsFinding
<1>3. m.cvss \in Nat
  BY <1>1 DEF IsFinding, Most
<1>4. IsFinding(m)
  BY <1>1, <1>2, <1>3 DEF IsFinding
<1> QED
  BY <1>4 DEF m

\* The first word of a key tells the module.
LEMMA ModulesOfKeys ==
  ASSUME NEW f, NEW g, Key(f) = Key(g), Key(f) # <<>>
  PROVE  \/ f.module \in {"sca", "container"} /\ g.module \in {"sca", "container"}
         \/ f.module = g.module
BY DEF Key

\* Findings that are merged keep their key.
LEMMA MergedKey ==
  ASSUME NEW w, NEW l, IsFinding(w), IsFinding(l), Key(w) = Key(l), Key(w) # <<>>
  PROVE  Key(MergePair(w, l)) = Key(w)
<1> DEFINE m == MergePair(w, l)
<1>1. /\ m.cve = Union(w.cve, l.cve) /\ m.cwe = Union(w.cwe, l.cwe)
      /\ m.module = w.module /\ m.advisory = w.advisory /\ m.pkg = w.pkg
      /\ m.version = w.version /\ m.file = w.file /\ m.line = w.line
      /\ m.family = w.family /\ m.check = w.check /\ m.resource = w.resource
      /\ m.host = w.host /\ m.port = w.port /\ m.scheme = w.scheme
      /\ m.mark = w.mark /\ m.rule = w.rule /\ m.path = w.path
      /\ m.component = w.component /\ m.artifact = w.artifact
  BY MergedFields DEF Fields
<1>2. /\ w.cve \in Seq(Word) /\ l.cve \in Seq(Word)
      /\ w.cwe \in Seq(Word) /\ l.cwe \in Seq(Word)
  BY DEF IsFinding
<1> HIDE DEF m
<1>3. CASE w.module \in {"sca", "container"}
  <2>1. l.module \in {"sca", "container"}
    BY <1>3, ModulesOfKeys
  <2>2. /\ Key(w) = <<"sca", FirstOf(w.cve, w.advisory), w.pkg, w.version>>
        /\ ~(w.cve = <<>> /\ w.advisory = NoText /\ w.pkg = NoText)
    BY <1>3 DEF Key
  <2>3. Key(l) = <<"sca", FirstOf(l.cve, l.advisory), l.pkg, l.version>>
    BY <2>1 DEF Key
  <2>4. FirstOf(w.cve, w.advisory) = FirstOf(l.cve, l.advisory)
    <3>1. Key(w)[2] = FirstOf(w.cve, w.advisory)
      BY <2>2
    <3>2. Key(l)[2] = FirstOf(l.cve, l.advisory)
      BY <2>3
    <3> QED
      BY <3>1, <3>2
  <2>5. FirstOf(m.cve, m.advisory) = FirstOf(w.cve, w.advisory)
    BY <1>1, <1>2, <2>4, FirstOfUnion
  <2>6. m.cve = <<>> => w.cve = <<>>
    BY <1>1, <1>2, EmptyUnion
  <2>7. Key(m) = <<"sca", FirstOf(m.cve, m.advisory), m.pkg, m.version>>
    BY <1>1, <1>3, <2>2, <2>6 DEF Key
  <2> QED
    BY <1>1, <2>2, <2>5, <2>7 DEF m
<1>4. CASE w.module = "sast"
  <2>1. l.module = "sast"
    BY <1>4, ModulesOfKeys
  <2>2. Key(w) = <<"sast", w.file, w.line \div 5, FirstOf(w.cwe, "no-cwe")>>
    BY <1>4 DEF Key
  <2>3. Key(l) = <<"sast", l.file, l.line \div 5, FirstOf(l.cwe, "no-cwe")>>
    BY <2>1 DEF Key
  <2>4. FirstOf(w.cwe, "no-cwe") = FirstOf(l.cwe, "no-cwe")
    <3>1. Key(w)[4] = FirstOf(w.cwe, "no-cwe")
      BY <2>2
    <3>2. Key(l)[4] = FirstOf(l.cwe, "no-cwe")
      BY <2>3
    <3> QED
      BY <3>1, <3>2
  <2>5. FirstOf(m.cwe, "no-cwe") = FirstOf(w.cwe, "no-cwe")
    BY <1>1, <1>2, <2>4, FirstOfUnion
  <2>6. Key(m) = <<"sast", m.file, m.line \div 5, FirstOf(m.cwe, "no-cwe")>>
    BY <1>1, <1>4 DEF Key
  <2> QED
    BY <1>1, <2>2, <2>5, <2>6 DEF m
<1>5. CASE w.module = "supply_chain"
  <2>1. l.module = "supply_chain"
    BY <1>5, ModulesOfKeys
  <2>2. Key(w) = <<"supply_chain", FirstOf(w.cve, w.component), w.artifact>>
    BY <1>5 DEF Key
  <2>3. Key(l) = <<"supply_chain", FirstOf(l.cve, l.component), l.artifact>>
    BY <2>1 DEF Key
  <2>4. FirstOf(w.cve, w.component) = FirstOf(l.cve, l.component)
    <3>1. Key(w)[2] = FirstOf(w.cve, w.component)
      BY <2>2
    <3>2. Key(l)[2] = FirstOf(l.cve, l.component)
      BY <2>3
    <3> QED
      BY <3>1, <3>2
  <2>5. FirstOf(m.cve, m.component) = FirstOf(w.cve, w.component)
    BY <1>1, <1>2, <2>4, FirstOfUnion
  <2>6. Key(m) = <<"supply_chain", FirstOf(m.cve, m.component), m.artifact>>
    BY <1>1, <1>5 DEF Key
  <2> QED
    BY <1>1, <2>2, <2>5, <2>6 DEF m
<1>6. CASE w.module \notin {"sca", "container", "sast", "supply_chain"}
  BY <1>1, <1>6 DEF Key, m
<1> QED
  BY <1>3, <1>4, <1>5, <1>6

\* Merging loses nothing.
LEMMA MergedCovers ==
  ASSUME NEW w, NEW l, IsFinding(w), IsFinding(l), Key(w) = Key(l), Key(w) # <<>>
  PROVE  Covers(MergePair(w, l), w) /\ Covers(MergePair(w, l), l)
<1> DEFINE m == MergePair(w, l)
<1>1. IsFinding(m) /\ Key(m) = Key(w)
  BY MergedIsFinding, MergedKey
<1>2. /\ m.cve = Union(w.cve, l.cve) /\ m.cvss = Most(w.cvss, l.cvss)
      /\ m.tools = w.tools \cup l.tools
  BY MergedFields
<1> HIDE DEF m
<1>3. ToSet(m.cve) = ToSet(w.cve) \cup ToSet(l.cve)
  <2>1. w.cve \in Seq(Word) /\ l.cve \in Seq(Word)
    BY DEF IsFinding
  <2> QED
    BY <1>2, <2>1, UnionOf
<1>4. w.cvss <= m.cvss /\ l.cvss <= m.cvss
  BY <1>2 DEF IsFinding, Most
<1>5. Fingerprint(m) = Fingerprint(w) /\ Fingerprint(m) = Fingerprint(l)
  BY <1>1 DEF Fingerprint
<1>6. Covers(m, w) /\ Covers(m, l)
  BY <1>1, <1>2, <1>3, <1>4, <1>5 DEF Covers
<1> QED
  BY <1>6 DEF m

\* A finding stands for itself.
LEMMA CoversItself ==
  ASSUME NEW f, IsFinding(f)
  PROVE  Covers(f, f)
BY DEF Covers, IsFinding

\* What stands for a finding stands for those it stands for.
LEMMA CoversOn ==
  ASSUME NEW m, NEW g, NEW f, Covers(m, g), Covers(g, f), IsFinding(f)
  PROVE  Covers(m, f)
<1>1. m.cvss \in Nat /\ g.cvss \in Nat /\ f.cvss \in Nat
  BY DEF Covers, IsFinding
<1>2. f.cvss <= m.cvss
  BY <1>1 DEF Covers
<1> QED
  BY <1>2 DEF Covers

\* The order of a group is a strict one, of all of its members.
LEMMA BeforeOrders ==
  ASSUME NEW fs, NEW group \in SUBSET Nat, \A k \in group : IsFinding(fs[k])
  PROVE  /\ \A k \in group : ~Before(fs, k, k)
         /\ \A j, k \in group : j # k => Before(fs, j, k) \/ Before(fs, k, j)
         /\ \A i, j, k \in group : Before(fs, i, j) /\ Before(fs, j, k) => Before(fs, i, k)
<1> DEFINE c(k) == fs[k].cvss
           x(k) == IF fs[k].fix THEN 1 ELSE 0
           B(j, k) == \/ c(j) > c(k)
                      \/ (c(j) = c(k) /\ x(j) > x(k))
                      \/ (c(j) = c(k) /\ x(j) = x(k) /\ j < k)
<1>1. \A k \in group : c(k) \in Nat /\ x(k) \in Nat /\ k \in Nat
  BY DEF IsFinding
<1>2. \A j, k \in group : Before(fs, j, k) <=> B(j, k)
  <2> SUFFICES ASSUME NEW j \in group, NEW k \in group
               PROVE  Before(fs, j, k) <=> B(j, k)
    OBVIOUS
  <2>1. /\ MergeScore(fs[j])[1] = c(j) /\ MergeScore(fs[j])[2] = x(j)
        /\ MergeScore(fs[k])[1] = c(k) /\ MergeScore(fs[k])[2] = x(k)
    BY DEF MergeScore
  <2> HIDE DEF c, x
  <2> QED
    BY <1>1, <2>1 DEF Before, Above
<1> HIDE DEF c, x
<1>3. \A k \in group : ~B(k, k)
  BY <1>1
<1>4. \A j, k \in group : j # k => B(j, k) \/ B(k, j)
  BY <1>1
<1>5. \A i, j, k \in group : B(i, j) /\ B(j, k) => B(i, k)
  BY <1>1
<1> HIDE DEF B
<1> QED
  BY <1>2, <1>3, <1>4, <1>5

\* Sorting a group neither loses a member nor adds a finding.
LEMMA SortedOf ==
  ASSUME NEW fs, NEW group \in SUBSET Nat, IsFiniteSet(group), group # {},
         \A k \in group : IsFinding(fs[k])
  PROVE  /\ Cardinality(group) \in Nat \ {0}
         /\ DOMAIN Sorted(fs, group) = 1..Cardinality(group)
         /\ \A n \in 1..Cardinality(group) : \E k \in group : Sorted(fs, group)[n] = fs[k]
         /\ \A k \in group : \E n \in 1..Cardinality(group) : Sorted(fs, group)[n] = fs[k]
<1> DEFINE N == Cardinality(group)
           ahead(k) == {j \in group : Before(fs, j, k)}
           place(k) == Cardinality({j \in group : Before(fs, j, k)}) + 1
           p == [k \in group |-> place(k)]
<1>1. N \in Nat \ {0}
  BY FS_CardinalityType, FS_EmptySet
<1>2. /\ \A k \in group : ~Before(fs, k, k)
      /\ \A j, k \in group : j # k => Before(fs, j, k) \/ Before(fs, k, j)
      /\ \A i, j, k \in group : Before(fs, i, j) /\ Before(fs, j, k) => Before(fs, i, k)
  BY BeforeOrders
<1>3. \A k \in group : IsFiniteSet(ahead(k)) /\ Cardinality(ahead(k)) \in Nat
  <2> SUFFICES ASSUME NEW k \in group
               PROVE  IsFiniteSet(ahead(k)) /\ Cardinality(ahead(k)) \in Nat
    OBVIOUS
  <2>1. ahead(k) \in SUBSET group
    OBVIOUS
  <2> HIDE DEF ahead
  <2> QED
    BY <2>1, FS_Subset, FS_CardinalityType
<1>4. \A k \in group : Cardinality(ahead(k)) < N
  <2> SUFFICES ASSUME NEW k \in group PROVE Cardinality(ahead(k)) < N
    OBVIOUS
  <2>1. ahead(k) \in SUBSET group /\ k \notin ahead(k)
    BY <1>2
  <2>2. Cardinality(ahead(k)) \in Nat
    BY <1>3
  <2> HIDE DEF ahead
  <2>3. Cardinality(ahead(k)) <= N /\ (N = Cardinality(ahead(k)) => group = ahead(k))
    BY <2>1, FS_Subset
  <2> QED
    BY <1>1, <2>1, <2>2, <2>3
<1>5. ASSUME NEW j \in group, NEW k \in group, Before(fs, j, k)
      PROVE  Cardinality(ahead(j)) < Cardinality(ahead(k))
  <2>1. ahead(j) \in SUBSET ahead(k) /\ j \in ahead(k) /\ j \notin ahead(j)
    BY <1>2, <1>5
  <2>2. /\ Cardinality(ahead(j)) \in Nat /\ Cardinality(ahead(k)) \in Nat
        /\ IsFiniteSet(ahead(k))
    BY <1>3
  <2> HIDE DEF ahead
  <2>3. /\ Cardinality(ahead(j)) <= Cardinality(ahead(k))
        /\ Cardinality(ahead(k)) = Cardinality(ahead(j)) => ahead(k) = ahead(j)
    BY <2>1, <2>2, FS_Subset
  <2> QED
    BY <2>1, <2>2, <2>3
<1>6. \A k \in group : place(k) = Cardinality(ahead(k)) + 1
  OBVIOUS
<1> HIDE DEF N, ahead
<1>7. \A k \in group : place(k) \in 1..N
  <2> HIDE DEF place
  <2> QED
    BY <1>1, <1>3, <1>4, <1>6
<1>8. \A j, k \in group : place(j) = place(k) => j = k
  <2> SUFFICES ASSUME NEW j \in group, NEW k \in group, j # k
               PROVE  place(j) # place(k)
    OBVIOUS
  <2> HIDE DEF place
  <2>1. Before(fs, j, k) \/ Before(fs, k, j)
    BY <1>2
  <2>2. Cardinality(ahead(j)) \in Nat /\ Cardinality(ahead(k)) \in Nat
    BY <1>3
  <2>3. Cardinality(ahead(j)) # Cardinality(ahead(k))
    BY <1>5, <2>1, <2>2
  <2> QED
    BY <1>6, <2>2, <2>3
<1>9. \A n \in 1..N : \E k \in group : place(k) = n
  <2>1. p \in Injection(group, 1..N)
    <3> HIDE DEF place
    <3>1. p \in [group -> 1..N] /\ \A k \in group : p[k] = place(k)
      BY <1>7
    <3> HIDE DEF p
    <3> QED
      BY <1>8, <3>1 DEF Injection, IsInjective
  <2>2. IsFiniteSet(1..N) /\ Cardinality(1..N) = N
    BY <1>1, FS_Interval
  <2>3. p \in Surjection(group, 1..N)
    <3> HIDE DEF p
    <3> QED
      BY <2>1, <2>2, FS_Injection DEF N
  <2>4. ASSUME NEW n \in 1..N PROVE \E k \in group : p[k] = n
    <3> HIDE DEF p
    <3> QED
      BY <2>3 DEF Surjection
  <2>5. \A k \in group : p[k] = place(k)
    <3> HIDE DEF place
    <3> QED
      OBVIOUS
  <2> HIDE DEF p, place
  <2> QED
    BY <2>4, <2>5
<1>10. Sorted(fs, group) = [n \in 1..N |-> fs[CHOOSE k \in group : place(k) = n]]
  BY DEF Sorted, N
<1> HIDE DEF place
<1>11. ASSUME NEW n \in 1..N
       PROVE  \E k \in group : place(k) = n /\ Sorted(fs, group)[n] = fs[k]
  <2> DEFINE k == CHOOSE k \in group : place(k) = n
  <2>1. k \in group /\ place(k) = n
    BY <1>9
  <2>2. Sorted(fs, group)[n] = fs[k]
    BY <1>10
  <2> HIDE DEF k
  <2> QED
    BY <2>1, <2>2
<1>12. ASSUME NEW k \in group
       PROVE  \E n \in 1..N : Sorted(fs, group)[n] = fs[k]
  <2>1. PICK j \in group : place(j) = place(k) /\ Sorted(fs, group)[place(k)] = fs[j]
    BY <1>7, <1>11
  <2>2. j = k
    BY <1>8, <2>1
  <2> QED
    BY <1>7, <2>1, <2>2
<1>13. DOMAIN Sorted(fs, group) = 1..N
  BY <1>10
<1>14. \A n \in 1..N : \E k \in group : Sorted(fs, group)[n] = fs[k]
  BY <1>11
<1> QED
  BY <1>1, <1>12, <1>13, <1>14 DEF N

\* A group becomes a finding of its key that stands for each member.
LEMMA MergeOf ==
  ASSUME NEW fs, NEW group \in SUBSET Nat, IsFiniteSet(group), group # {}, NEW key,
         key # <<>>, \A k \in group : IsFinding(fs[k]) /\ Key(fs[k]) = key
  PROVE  \A k \in group : Covers(MergeGroup(fs, group), fs[k])
<1> DEFINE N == Cardinality(group)
           s == Sorted(fs, group)
           Next1(f, n) == IF n = 1 THEN s[1] ELSE MergePair(f[n - 1], s[n])
           Keeps(f, m) == f = [n \in 1..m |-> Next1(f, n)]
           Built == {m \in 0..N : \E f : Keeps(f, m)}
           merged == CHOOSE f : f = [n \in DOMAIN s |-> Next1(f, n)]
<1>1. /\ N \in Nat \ {0} /\ DOMAIN s = 1..N
      /\ \A n \in 1..N : \E k \in group : s[n] = fs[k]
      /\ \A k \in group : \E n \in 1..N : s[n] = fs[k]
  BY SortedOf
<1>2. MergeGroup(fs, group) = merged[N]
  BY DEF MergeGroup
<1> HIDE DEF N, s
<1>3. \A n \in 1..N : IsFinding(s[n]) /\ Key(s[n]) = key
  BY <1>1
<1>4. 0 \in Built
  <2>1. Keeps([n \in 1..0 |-> 0], 0)
    OBVIOUS
  <2> HIDE DEF Keeps
  <2> QED
    BY <1>1, <2>1
<1>5. ASSUME NEW m \in 1..N, m - 1 \in Built PROVE m \in Built
  <2>1. PICK f : Keeps(f, m - 1)
    BY <1>5
  <2> DEFINE e == Next1(f, m)
             g == [n \in 1..m |-> IF n < m THEN f[n] ELSE e]
  <2>2. \A n \in 1..(m - 1) : f[n] = Next1(f, n)
    <3> HIDE DEF Next1
    <3> QED
      BY <2>1
  <2> HIDE DEF e
  <2>3. \A n \in 1..(m - 1) : g[n] = f[n]
    BY <1>1
  <2>4. g[m] = e
    BY <1>1
  <2>5. g = [n \in 1..m |-> g[n]]
    OBVIOUS
  <2> HIDE DEF g
  <2>6. ASSUME NEW n \in 1..m PROVE g[n] = Next1(g, n)
    <3>1. n # 1 => n - 1 \in 1..(m - 1)
      BY <1>1
    <3>2. Next1(g, n) = Next1(f, n)
      BY <2>3, <3>1
    <3>3. n # m => n \in 1..(m - 1)
      BY <1>1
    <3> HIDE DEF Next1
    <3> QED
      BY <2>2, <2>3, <2>4, <3>2, <3>3 DEF e
  <2>7. Keeps(g, m)
    <3> HIDE DEF Next1
    <3> QED
      BY <2>5, <2>6
  <2> HIDE DEF Keeps
  <2> QED
    BY <1>1, <2>7
<1>6. N \in Built
  <2> HIDE DEF Built
  <2>1. 0..N \subseteq Built
    BY <1>1, <1>4, <1>5, UpTo
  <2> QED
    BY <1>1, <2>1
<1>7. merged = [n \in DOMAIN s |-> Next1(merged, n)]
  <2> HIDE DEF Next1
  <2>1. \E f : f = [n \in 1..N |-> Next1(f, n)]
    BY <1>6
  <2> QED
    BY <1>1, <2>1
<1> HIDE DEF merged
<1>8. \A n \in 1..N : merged[n] = Next1(merged, n)
  <2> HIDE DEF Next1
  <2> QED
    BY <1>1, <1>7
<1> DEFINE Good(m, n) == /\ IsFinding(m) /\ Key(m) = key
                         /\ \A j \in 1..n : Covers(m, s[j])
           Fine == {n \in 0..N : n > 0 => Good(merged[n], n)}
<1>9. 0 \in Fine
  BY <1>1
<1>10. ASSUME NEW n \in 1..N, n - 1 \in Fine PROVE n \in Fine
  <2>1. CASE n = 1
    <3>1. merged[n] = s[1] /\ IsFinding(s[1]) /\ Key(s[1]) = key
      BY <1>1, <1>3, <1>8, <2>1
    <3>2. Good(merged[n], n)
      BY <2>1, <3>1, CoversItself
    <3> HIDE DEF Good
    <3> QED
      BY <1>1, <3>2
  <2>2. CASE n # 1
    <3> DEFINE w == merged[n - 1]
               m == MergePair(w, s[n])
    <3>1. Good(w, n - 1)
      <4> HIDE DEF Good
      <4> QED
        BY <1>1, <1>10, <2>2
    <3>2. merged[n] = m
      BY <1>8, <2>2
    <3> HIDE DEF w
    <3>3. IsFinding(w) /\ Key(w) = key /\ IsFinding(s[n]) /\ Key(s[n]) = key
      BY <1>3, <3>1
    <3>4. IsFinding(m) /\ Key(m) = key /\ Covers(m, w) /\ Covers(m, s[n])
      BY <3>3, MergedIsFinding, MergedKey, MergedCovers
    <3> HIDE DEF m
    <3>5. ASSUME NEW j \in 1..n PROVE Covers(m, s[j])
      <4>1. CASE j = n
        BY <3>4, <4>1
      <4>2. CASE j # n
        <5>1. j \in 1..(n - 1) /\ j \in 1..N
          BY <1>1, <4>2
        <5>2. Covers(w, s[j]) /\ IsFinding(s[j])
          BY <1>3, <3>1, <5>1
        <5> QED
          BY <3>4, <5>2, CoversOn
      <4> QED
        BY <4>1, <4>2
    <3>6. Good(merged[n], n)
      BY <3>2, <3>4, <3>5
    <3> HIDE DEF Good
    <3> QED
      BY <1>1, <3>6
  <2> QED
    BY <2>1, <2>2
<1>11. Good(merged[N], N)
  <2> HIDE DEF Fine
  <2>1. 0..N \subseteq Fine
    BY <1>1, <1>9, <1>10, UpTo
  <2>2. N \in Fine /\ N > 0
    BY <1>1, <2>1
  <2> HIDE DEF Good
  <2> QED
    BY <2>2 DEF Fine
<1>12. \A k \in group : Covers(merged[N], fs[k])
  BY <1>1, <1>11
<1> QED
  BY <1>2, <1>12

\* Each finding is still there after merging, itself or in what it was merged into.
LEMMA DedupOf ==
  ASSUME NEW S, NEW fs \in Seq(S), \A f \in S : IsFinding(f), NEW f \in ToSet(fs)
  PROVE  \E m \in Dedup(fs) : Covers(m, f)
<1> DEFINE having(key) == {k \in DOMAIN fs : Key(fs[k]) = key}
<1>1. /\ DOMAIN fs = 1..Len(fs) /\ Len(fs) \in Nat
      /\ \A k \in 1..Len(fs) : IsFinding(fs[k])
  OBVIOUS
<1>2. PICK i \in DOMAIN fs : fs[i] = f
  BY DEF ToSet
<1>3. CASE Key(f) = <<>>
  <2>1. f \in Dedup(fs)
    BY <1>2, <1>3 DEF Dedup
  <2> QED
    BY <1>1, <1>2, <2>1, CoversItself
<1>4. CASE Key(f) # <<>>
  <2> DEFINE key == Key(f)
             group == having(key)
  <2>1. MergeGroup(fs, group) \in Dedup(fs)
    BY <1>2, <1>4 DEF Dedup
  <2>2. /\ group \in SUBSET Nat /\ i \in group
        /\ \A k \in group : IsFinding(fs[k]) /\ Key(fs[k]) = key
    BY <1>1, <1>2
  <2>3. IsFiniteSet(group)
    <3>1. IsFiniteSet(1..Len(fs)) /\ group \in SUBSET (1..Len(fs))
      BY <1>1, FS_Interval
    <3> HIDE DEF group
    <3> QED
      BY <3>1, FS_Subset
  <2> HIDE DEF group
  <2>4. Covers(MergeGroup(fs, group), fs[i])
    <3>1. key # <<>> /\ group # {}
      BY <1>4, <2>2
    <3> HIDE DEF key
    <3> QED
      BY <2>2, <2>3, <3>1, MergeOf
  <2> QED
    BY <1>2, <2>1, <2>4
<1> QED
  BY <1>3, <1>4

-----------------------------------------------------------------------------
(* Scores.                                                                 *)

\* A score is a number, whatever the feeds say, before they were loaded.
LEMMA ScoreIsNumber ==
  ASSUME NEW f, IsFinding(f), NEW asset \in [criticality : Nat, exposure : Nat], NEW epss
  PROVE  Score(f, asset, epss, {}) \in Nat
<1> DEFINE cvss == IF f.cvss = 0 THEN SeverityToCvss(f.severity) ELSE f.cvss
           e == EffectiveEpss(f, epss, {})
           known == {Get(epss, {}, f.cve[k]) : k \in DOMAIN f.cve} \cup {EpssFloor}
           product == cvss * e * asset.criticality * asset.exposure
<1>1. f.severity \in 0..4 /\ f.cvss \in Nat
  BY DEF IsFinding, Info, Critical
<1>2. SeverityToCvss(f.severity) \in Nat
  <2>1. f.severity \in {0, 1, 2, 3, 4}
    BY <1>1
  <2> QED
    BY <2>1 DEF SeverityToCvss
<1>3. cvss \in Nat
  BY <1>1, <1>2
<1>4. e \in Nat
  <2>1. \A x \in known : x = 0 \/ x = 5
    BY DEF Get, EpssFloor
  <2>2. 5 \in known
    BY DEF EpssFloor
  <2> HIDE DEF known
  <2>3. \E x \in known : \A y \in known : y <= x
    BY <2>1, <2>2
  <2>4. e = CHOOSE x \in known : \A y \in known : y <= x
    BY DEF EffectiveEpss, known
  <2>5. e \in known
    BY <2>3, <2>4
  <2> QED
    BY <2>1, <2>5
<1>5. asset.criticality \in Nat /\ asset.exposure \in Nat
  OBVIOUS
<1>6. Score(f, asset, epss, {}) = Least(product \div 50, 10000)
  BY DEF Score
<1> HIDE DEF cvss, e
<1>7. product \in Nat
  <2>1. cvss * e \in Nat
    BY <1>3, <1>4
  <2> DEFINE a == cvss * e
  <2> HIDE DEF a
  <2>2. a * asset.criticality \in Nat
    BY <1>5, <2>1 DEF a
  <2> DEFINE b == a * asset.criticality
  <2> HIDE DEF b
  <2>3. b * asset.exposure \in Nat
    BY <1>5, <2>2 DEF b
  <2> QED
    BY <2>3 DEF a, b
<1> HIDE DEF product
<1>8. product \div 50 \in Nat
  BY <1>7
<1> QED
  BY <1>6, <1>8 DEF Least

\* Scoring a finding changes its score and its bucket; a finding with a CVE that is
\* known to be exploited is urgent.
LEMMA EnrichedIs ==
  ASSUME NEW f, IsFinding(f), NEW asset \in [criticality : Nat, exposure : Nat],
         NEW epss, NEW kev
  PROVE  LET m == Enrich(f, asset, epss, {}, kev) IN
         /\ IsFinding(m) /\ \A x \in Fields \ {"score", "bucket"} : m[x] = f[x]
         /\ ToSet(f.cve) \cap kev # {} => m.bucket = "P0"
<1> DEFINE base == Score(f, asset, epss, {})
           listed == \E k \in DOMAIN f.cve : f.cve[k] \in kev
           score == IF listed THEN Most(base, 7000) ELSE base
           m == [f EXCEPT !.score = score, !.bucket = Bucket(score)]
<1>1. base \in Nat
  BY ScoreIsNumber
<1>2. Enrich(f, asset, epss, {}, kev) = m
  BY DEF Enrich
<1>3. ToSet(f.cve) \cap kev # {} => listed
  BY DEF ToSet
<1> HIDE DEF base, listed
<1>4. ToSet(f.cve) \cap kev # {} => Bucket(score) = "P0"
  <2>1. ToSet(f.cve) \cap kev # {} => score \in Nat /\ score >= 7000
    BY <1>1, <1>3 DEF Most
  <2> HIDE DEF score
  <2> QED
    BY <2>1 DEF Bucket
<1> HIDE DEF score
<1>5. /\ \A x \in Fields \ {"score", "bucket"} : m[x] = f[x]
      /\ DOMAIN m = Fields /\ m.bucket = Bucket(score)
  BY DEF IsFinding, Fields
<1> HIDE DEF m
<1>6. IsFinding(m)
  BY <1>5 DEF IsFinding, Fields
<1> QED
  BY <1>2, <1>4, <1>5, <1>6

\* A statement changes the severity, the score and the bucket, of a finding with a
\* CVE that the statement excuses.
LEMMA VexedIs ==
  ASSUME NEW f, IsFinding(f), NEW statuses
  PROVE  LET m == Vex(f, statuses) IN
         /\ IsFinding(m) /\ \A x \in Fields \ {"severity", "score", "bucket"} : m[x] = f[x]
         /\ \/ m = f
            \/ \E c \in ToSet(m.cve) \cap DOMAIN statuses : statuses[c] \in NotAffected
<1> DEFINE with == {k \in DOMAIN f.cve : f.cve[k] \in DOMAIN statuses}
           suppressed == \E k \in with : /\ \A j \in with : k <= j
                                         /\ statuses[f.cve[k]] \in NotAffected
           m == [f EXCEPT !.severity = Info, !.score = 0, !.bucket = "P4"]
<1>1. Vex(f, statuses) = IF suppressed THEN m ELSE f
  BY DEF Vex
<1>2. suppressed => \E c \in ToSet(f.cve) \cap DOMAIN statuses : statuses[c] \in NotAffected
  BY DEF ToSet
<1> HIDE DEF suppressed
<1>3. /\ \A x \in Fields \ {"severity", "score", "bucket"} : m[x] = f[x]
      /\ DOMAIN m = Fields /\ m.severity = Info
      /\ m.cve = f.cve /\ m.cwe = f.cwe /\ m.cvss = f.cvss /\ m.tool = f.tool
      /\ m.tools = f.tools
  BY DEF IsFinding, Fields
<1> HIDE DEF m
<1>4. IsFinding(m)
  BY <1>3 DEF IsFinding, Info, Critical
<1>5. CASE suppressed
  BY <1>1, <1>2, <1>3, <1>4, <1>5
<1>6. CASE ~suppressed
  BY <1>1, <1>6
<1> QED
  BY <1>5, <1>6

\* Scores and statements leave alone what tells findings apart.
LEMMA SameIdentity ==
  ASSUME NEW m, NEW f, IsFinding(m), IsFinding(f),
         \A x \in Fields \ {"severity", "score", "bucket"} : m[x] = f[x]
  PROVE  Covers(m, f)
<1>1. /\ m.cve = f.cve /\ m.cwe = f.cwe /\ m.cvss = f.cvss /\ m.tools = f.tools
      /\ m.tool = f.tool /\ m.title = f.title
      /\ m.module = f.module /\ m.advisory = f.advisory /\ m.pkg = f.pkg
      /\ m.version = f.version /\ m.file = f.file /\ m.line = f.line
      /\ m.family = f.family /\ m.check = f.check /\ m.resource = f.resource
      /\ m.host = f.host /\ m.port = f.port /\ m.scheme = f.scheme
      /\ m.mark = f.mark /\ m.rule = f.rule /\ m.path = f.path
      /\ m.component = f.component /\ m.artifact = f.artifact
  BY DEF Fields
<1>2. Key(m) = Key(f)
  BY <1>1 DEF Key
<1>3. Fingerprint(m) = Fingerprint(f)
  BY <1>1, <1>2 DEF Fingerprint
<1>4. f.cvss \in Nat
  BY DEF IsFinding
<1> QED
  BY <1>1, <1>3, <1>4 DEF Covers

\* A finding that has its tool, and not more.
IsBlank(f, tool) ==
  /\ DOMAIN f = Fields /\ f.cve = <<>> /\ f.cwe = <<>> /\ f.cvss = 0 /\ f.severity = Info
  /\ f.tool = tool /\ f.tools = {tool}

\* A finding before its collector fills it in.
LEMMA BlankIs == \A tool, module : IsBlank(Blank(tool, module), tool)
BY DEF IsBlank, Blank, Fields

\* What the bounds of an issue say of it.
LEMMA IssueIs ==
  ASSUME NEW i \in Issue
  PROVE  /\ i.cves \in Seq(Word) /\ i.cwes \in Seq(Word) /\ i.cvss \in Nat
         /\ i.severity \in {0, 1, 2, 3, 4}
<1>1. /\ i.cves \in Seq(STRING) /\ i.cwes \in Seq(STRING) /\ i.cvss \in Nat
      /\ i.severity \in 0..4
  BY DEF Issue, Info, Critical
<1>2. STRING \subseteq Word
  BY DEF Word
<1>3. i.cves \in Seq(Word) /\ i.cwes \in Seq(Word)
  <2> DEFINE S == STRING
  <2>1. i.cves \in Seq(S) /\ i.cwes \in Seq(S) /\ S \subseteq Word
    BY <1>1, <1>2
  <2> HIDE DEF S
  <2> QED
    BY <2>1, SeqMonotonic
<1> QED
  BY <1>1, <1>3

\* What the collectors make of an issue are findings.
LEMMA FindingsOfTools ==
  ASSUME NEW i \in Issue, NEW module, NEW tool
  PROVE  /\ IsFinding(TrivyFinding(i, module)) /\ IsFinding(OsvFinding(i))
         /\ IsFinding(PipAuditFinding(i)) /\ IsFinding(GitleaksFinding(i))
         /\ IsFinding(TruffleHogFinding(i)) /\ IsFinding(SemgrepFinding(i))
         /\ IsFinding(BanditFinding(i)) /\ IsFinding(NmapFinding(i))
         /\ IsFinding(TestSSLFinding(i)) /\ IsFinding(DockleFinding(i))
         /\ IsFinding(CheckovFinding(i, module)) /\ IsFinding(TrivyConfigFinding(i))
         /\ IsFinding(KubescapeFinding(i)) /\ IsFinding(ProwlerFinding(i, tool))
         /\ IsFinding(ZapFinding(i)) /\ IsFinding(NucleiFinding(i))
         /\ IsFinding(HttpxFinding(i)) /\ IsFinding(SyftFinding(i))
         /\ IsFinding(CosignFinding(module))
<1>1. /\ i.cves \in Seq(Word) /\ i.cwes \in Seq(Word) /\ i.cvss \in Nat
      /\ i.severity \in {0, 1, 2, 3, 4}
  BY IssueIs
<1>2. (IF HasCve(i) THEN <<Head(i.cves)>> ELSE <<>>) \in Seq(Word)
  <2>1. CASE i.cves = <<>>
    BY <2>1 DEF HasCve
  <2>2. CASE i.cves # <<>>
    <3>1. Head(i.cves) \in Word
      BY <1>1, <2>2
    <3> QED
      BY <3>1, <2>2 DEF HasCve
  <2> QED
    BY <2>1, <2>2
<1> DEFINE first == IF HasCve(i) THEN <<Head(i.cves)>> ELSE <<>>
           Filled(f, t) ==
      /\ DOMAIN f = Fields /\ f.tool = t /\ f.tools = {t}
      /\ (f.cve = <<>> \/ f.cve = i.cves \/ f.cve = first)
      /\ (f.cwe = <<>> \/ f.cwe = i.cwes \/ f.cwe = <<"CWE-798">>)
      /\ f.cvss \in {0, i.cvss} /\ f.severity \in {0, 1, 2, 3, 4}
<1>3. ASSUME NEW f, NEW t, Filled(f, t) PROVE IsFinding(f)
  <2>0. <<>> \in Seq(Word) /\ <<"CWE-798">> \in Seq(Word)
    <3>1. \A c \in Word : <<c>> \in Seq(Word)
      OBVIOUS
    <3>2. "CWE-798" \in Word
      BY DEF Word
    <3> QED
      BY <3>1, <3>2
  <2>1. f.cve \in Seq(Word)
    <3>1. f.cve = <<>> \/ f.cve = i.cves \/ f.cve = first
      BY <1>3
    <3> QED
      BY <1>1, <1>2, <2>0, <3>1
  <2>2. f.cwe \in Seq(Word)
    <3>1. f.cwe = <<>> \/ f.cwe = i.cwes \/ f.cwe = <<"CWE-798">>
      BY <1>3
    <3> QED
      BY <1>1, <2>0, <3>1
  <2>3. f.cvss \in Nat /\ f.severity \in Info..Critical
    BY <1>1, <1>3 DEF Info, Critical
  <2>4. DOMAIN f = Fields /\ f.tool \in f.tools
    BY <1>3
  <2> QED
    BY <2>1, <2>2, <2>3, <2>4 DEF IsFinding
<1> USE DEF Info, Low, Medium, High, Critical
<1>4. Filled(TrivyFinding(i, module), "trivy")
  <2> DEFINE b == Blank("trivy", module)
             f == [b EXCEPT !.title = i.advisory, !.cve = first, !.cwe = i.cwes,
                     !.cvss = i.cvss, !.severity = i.severity, !.file = i.file,
                     !.pkg = i.pkg, !.version = i.version, !.fix = i.fix]
  <2>1. TrivyFinding(i, module) = f
    BY DEF TrivyFinding
  <2> HIDE DEF b, first
  <2>2. DOMAIN b = Fields /\ b.tool = "trivy" /\ b.tools = {"trivy"}
    BY BlankIs DEF b, IsBlank
  <2>3. DOMAIN f = Fields /\ f.tool = "trivy" /\ f.tools = {"trivy"}
    BY <2>2 DEF Fields
  <2>4. f.cve = first /\ f.cwe = i.cwes
    BY <2>2 DEF Fields
  <2>5. f.cvss = i.cvss /\ f.severity = i.severity
    BY <2>2 DEF Fields
  <2> HIDE DEF f
  <2> QED
    BY <1>1, <2>1, <2>3, <2>4, <2>5
<1>5. Filled(OsvFinding(i), "osv-scanner")
  BY <1>1, BlankIs DEF OsvFinding, IsBlank, Fields
<1>6. Filled(PipAuditFinding(i), "pip-audit")
  BY <1>1, BlankIs DEF PipAuditFinding, IsBlank, Fields
<1>7. Filled(GitleaksFinding(i), "gitleaks")
  BY <1>1, BlankIs DEF GitleaksFinding, IsBlank, Fields
<1>8. Filled(TruffleHogFinding(i), "trufflehog")
  BY <1>1, BlankIs DEF TruffleHogFinding, IsBlank, Fields
<1>9. Filled(SemgrepFinding(i), "semgrep")
  BY <1>1, BlankIs DEF SemgrepFinding, IsBlank, Fields, Least
<1>10. Filled(BanditFinding(i), "bandit")
  BY <1>1, BlankIs DEF BanditFinding, IsBlank, Fields, Least, Most
<1>11. Filled(NmapFinding(i), "nmap")
  BY <1>1, BlankIs DEF NmapFinding, IsBlank, Fields
<1>12. Filled(TestSSLFinding(i), "testssl.sh")
  BY <1>1, BlankIs DEF TestSSLFinding, IsBlank, Fields
<1>13. Filled(DockleFinding(i), "dockle")
  BY <1>1, BlankIs DEF DockleFinding, IsBlank, Fields
<1>14. Filled(CheckovFinding(i, module), "checkov")
  BY <1>1, BlankIs DEF CheckovFinding, IsBlank, Fields
<1>15. Filled(TrivyConfigFinding(i), "trivy-config")
  BY <1>1, BlankIs DEF TrivyConfigFinding, IsBlank, Fields
<1>16. Filled(KubescapeFinding(i), "kubescape")
  BY <1>1, BlankIs DEF KubescapeFinding, IsBlank, Fields
<1>17. Filled(ProwlerFinding(i, tool), tool)
  BY <1>1, BlankIs DEF ProwlerFinding, IsBlank, Fields
<1>18. Filled(ZapFinding(i), "zap")
  BY <1>1, BlankIs DEF ZapFinding, IsBlank, Fields
<1>19. Filled(NucleiFinding(i), "nuclei")
  BY <1>1, BlankIs DEF NucleiFinding, IsBlank, Fields
<1>20. Filled(HttpxFinding(i), "httpx")
  BY <1>1, BlankIs DEF HttpxFinding, IsBlank, Fields
<1>21. Filled(SyftFinding(i), "syft")
  BY <1>1, BlankIs DEF SyftFinding, IsBlank, Fields
<1>22. Filled(CosignFinding(module), "cosign")
  BY <1>1, BlankIs DEF CosignFinding, IsBlank, Fields
<1> HIDE DEF Filled
<1> QED
  BY <1>3, <1>4, <1>5, <1>6, <1>7, <1>8, <1>9, <1>10, <1>11, <1>12, <1>13, <1>14, <1>15, <1>16, <1>17, <1>18, <1>19, <1>20, <1>21, <1>22

\* A finding that is moved to the module of the scan is still one.
LEMMA RewrittenIs ==
  ASSUME NEW f, IsFinding(f), NEW module, NEW patch
  PROVE  IsFinding(Rewritten(f, module, patch))
BY DEF IsFinding, Rewritten, Fields

\* No finding, or one.
OneFinding(s) == s = <<>> \/ \E f : s = <<f>> /\ IsFinding(f)

\* Every collector makes a finding of an issue, or leaves it out.
LEMMA OneFindingEach ==
  ASSUME NEW tool \in Tools, NEW kind, NEW artifact, NEW i \in Issue
  PROVE  OneFinding(FindingsOf(tool, kind, artifact, i))
<1> DEFINE s == FindingsOf(tool, kind, artifact, i)
<1>1. tool \in ToolNames
  BY ToolsAre
<1>2. CASE tool = "trivy"
  <2>1. \/ s = <<TrivyFinding(i, "sca")>> \/ s = <<TrivyFinding(i, "container")>>
        \/ s = <<Rewritten(TrivyFinding(i, "container"), "kubernetes", i.resource)>>
        \/ s = <<TrivyFinding(i, "supply_chain")>>
    BY <1>2 DEF FindingsOf
  <2> HIDE DEF s
  <2> QED
    BY <2>1, FindingsOfTools, RewrittenIs DEF OneFinding, s
<1>3. CASE tool \in {"nmap", "testssl"}
  <2>1. \/ s = <<NmapFinding(i)>> \/ s = <<TestSSLFinding(i)>>
        \/ s = <<Rewritten(NmapFinding(i), "asm", i.host)>>
        \/ s = <<Rewritten(TestSSLFinding(i), "asm", i.host)>>
    BY <1>3 DEF FindingsOf
  <2> HIDE DEF s
  <2> QED
    BY <2>1, FindingsOfTools, RewrittenIs DEF OneFinding, s
<1>4. CASE tool \in {"osv", "pip_audit", "gitleaks", "trufflehog", "semgrep", "bandit"}
  <2>1. \/ s = <<OsvFinding(i)>> \/ s = <<PipAuditFinding(i)>> \/ s = <<GitleaksFinding(i)>>
        \/ s = <<TruffleHogFinding(i)>> \/ s = <<SemgrepFinding(i)>>
        \/ s = <<BanditFinding(i)>>
    BY <1>4 DEF FindingsOf
  <2> HIDE DEF s
  <2> QED
    BY <2>1, FindingsOfTools DEF OneFinding, s
<1>5. CASE tool \in {"dockle", "checkov", "trivy_config", "kubescape"}
  <2>1. \/ s = <<DockleFinding(i)>> \/ s = <<TrivyConfigFinding(i)>>
        \/ s = <<KubescapeFinding(i)>> \/ \E module : s = <<CheckovFinding(i, module)>>
    BY <1>5 DEF FindingsOf
  <2> HIDE DEF s
  <2> QED
    BY <2>1, FindingsOfTools DEF OneFinding, s
<1>6. CASE tool \in {"prowler_aws", "prowler_azure", "prowler_gcp"}
  <2>1. s = <<ProwlerFinding(i, tool)>>
    BY <1>6 DEF FindingsOf
  <2> HIDE DEF s
  <2> QED
    BY <2>1, FindingsOfTools DEF OneFinding, s
<1>7. CASE tool \in {"zap", "nuclei", "httpx", "syft", "cosign"}
  <2>1. \/ s = <<ZapFinding(i)>> \/ s = <<NucleiFinding(i)>> \/ s = <<HttpxFinding(i)>>
        \/ s = <<SyftFinding(i)>> \/ s = <<>> \/ s = <<CosignFinding(artifact)>>
    BY <1>7 DEF FindingsOf
  <2> HIDE DEF s
  <2> QED
    BY <2>1, FindingsOfTools DEF OneFinding, s
<1> QED
  BY <1>1, <1>2, <1>3, <1>4, <1>5, <1>6, <1>7 DEF ToolNames

\* The one finding, if there is one.
LEMMA OneFindingIs ==
  ASSUME NEW s, OneFinding(s)
  PROVE  s \in Seq(ToSet(s)) /\ \A f \in ToSet(s) : IsFinding(f)
<1>1. CASE s = <<>>
  BY <1>1 DEF ToSet
<1>2. CASE \E f : s = <<f>> /\ IsFinding(f)
  <2>1. PICK f : s = <<f>> /\ IsFinding(f)
    BY <1>2
  <2>2. ToSet(s) = {f}
    BY <2>1 DEF ToSet
  <2> QED
    BY <2>1, <2>2
<1> QED
  BY <1>1, <1>2 DEF OneFinding

-----------------------------------------------------------------------------
(* The findings of a run.                                                  *)

\* A record of each call, target and issue, and one without an issue, has its place.
LEMMA PlacesAre ==
  /\ Places \in Seq(CallIds \X Facts)
  /\ \A p \in CallIds \X Facts : p \in ToSet(Places)
<1> DEFINE P == CallIds \X Facts
           L == Len(Issues) + 1
           record(i, t) == [n \in 1..L |-> <<i, <<t, IF n = 1 THEN None ELSE n - 1>>>>]
           target(i) == [t \in Targets |-> record(i, t)]
           all == [i \in CallIds |-> FlattenSeq(target(i))]
<1>1. /\ Len(Issues) \in Nat /\ Records = 1..Len(Issues) /\ L \in Nat
      /\ MaxCalls \in Nat /\ MaxTargets \in Nat
  BY ScanRunAssumption, CollectorsAssumption
<1>2. Places = FlattenSeq(all)
  BY DEF Places
<1>3. ASSUME NEW i \in CallIds, NEW t \in Targets
      PROVE  /\ record(i, t) \in Seq(P)
             /\ \A r \in Records \cup {None} : <<i, <<t, r>>>> \in ToSet(record(i, t))
  <2>1. ASSUME NEW n \in 1..L PROVE record(i, t)[n] \in P
    <3>1. n # 1 => n - 1 \in Records
      BY <1>1
    <3> QED
      BY <3>1 DEF Facts
  <2>2. record(i, t) \in Seq(P)
    <3>1. record(i, t) \in [1..L -> P]
      BY <2>1
    <3> HIDE DEF record, P, L
    <3> QED
      BY <1>1, <3>1
  <2>3. ASSUME NEW r \in Records \cup {None}
        PROVE  \E n \in 1..L : record(i, t)[n] = <<i, <<t, r>>>>
    <3>1. CASE r = None
      <4>1. 1 \in 1..L
        BY <1>1
      <4> QED
        BY <3>1, <4>1
    <3>2. CASE r \in Records
      <4>1. r + 1 \in 1..L /\ r + 1 # 1 /\ (r + 1) - 1 = r
        BY <1>1, <3>2
      <4> QED
        BY <4>1
    <3> QED
      BY <3>1, <3>2
  <2>4. DOMAIN record(i, t) = 1..L
    OBVIOUS
  <2> HIDE DEF record, L
  <2> QED
    BY <2>2, <2>3, <2>4 DEF ToSet
<1> HIDE DEF record
<1>4. ASSUME NEW i \in CallIds
      PROVE  /\ FlattenSeq(target(i)) \in Seq(P)
             /\ \A fact \in Facts : <<i, fact>> \in ToSet(FlattenSeq(target(i)))
  <2>1. target(i) \in Seq(Seq(P)) /\ Len(target(i)) = MaxTargets
    <3>1. target(i) \in [1..MaxTargets -> Seq(P)]
      BY <1>3 DEF Targets
    <3> HIDE DEF target, P
    <3> QED
      BY <1>1, <3>1
  <2>2. \A t \in 1..MaxTargets : target(i)[t] = record(i, t)
    BY DEF Targets
  <2> HIDE DEF target, P
  <2>3. /\ FlattenSeq(target(i)) \in Seq(P)
        /\ \A x : x \in ToSet(FlattenSeq(target(i)))
                    <=> \E t \in 1..Len(target(i)) : x \in ToSet(target(i)[t])
    BY <2>1, FlattenOf
  <2>4. ASSUME NEW fact \in Facts
        PROVE  <<i, fact>> \in ToSet(FlattenSeq(target(i)))
    <3>1. PICK t \in Targets, r \in Records \cup {None} : fact = <<t, r>>
      BY DEF Facts
    <3>2. <<i, <<t, r>>>> \in ToSet(record(i, t)) /\ t \in 1..MaxTargets
      BY <1>3, <3>1 DEF Targets
    <3> QED
      BY <2>1, <2>2, <2>3, <3>1, <3>2
  <2> QED
    BY <2>3, <2>4
<1> HIDE DEF target
<1>5. all \in Seq(Seq(P)) /\ Len(all) = MaxCalls
  <2>1. all \in [1..MaxCalls -> Seq(P)]
    BY <1>4 DEF CallIds
  <2> HIDE DEF all, P
  <2> QED
    BY <1>1, <2>1
<1>6. \A i \in 1..MaxCalls : all[i] = FlattenSeq(target(i))
  BY DEF CallIds
<1> HIDE DEF all
<1>7. /\ FlattenSeq(all) \in Seq(P)
      /\ \A x : x \in ToSet(FlattenSeq(all)) <=> \E i \in 1..Len(all) : x \in ToSet(all[i])
  <2> HIDE DEF P
  <2> QED
    BY <1>5, FlattenOf
<1>8. ASSUME NEW p \in P PROVE p \in ToSet(FlattenSeq(all))
  <2>1. PICK i \in CallIds, fact \in Facts : p = <<i, fact>>
    OBVIOUS
  <2>2. i \in 1..Len(all) /\ p \in ToSet(all[i])
    BY <1>4, <1>5, <1>6, <2>1 DEF CallIds
  <2> QED
    BY <1>7, <2>2
<1> QED
  BY <1>2, <1>7, <1>8

\* Of each fact there is, at most, one finding.
Usable(facts) ==
  /\ facts \subseteq CallIds \X Facts
  /\ \A p \in facts : OneFinding(Normalised(p[1], p[2]))

LEMMA RawOf ==
  ASSUME NEW facts, Usable(facts)
  PROVE  \E S : /\ Raw(facts) \in Seq(S) /\ \A f \in S : IsFinding(f)
                /\ \A p \in facts : ToSet(Normalised(p[1], p[2])) \subseteq ToSet(Raw(facts))
<1> DEFINE N == Len(Places)
           S == UNION {ToSet(Normalised(p[1], p[2])) : p \in facts}
           part(n) == IF Places[n] \in facts THEN Normalised(Places[n][1], Places[n][2])
                      ELSE <<>>
           ss == [n \in DOMAIN Places |-> part(n)]
<1>1. N \in Nat /\ DOMAIN Places = 1..N /\ \A n \in 1..N : Places[n] \in CallIds \X Facts
  BY PlacesAre
<1>2. ASSUME NEW p \in facts
      PROVE  /\ Normalised(p[1], p[2]) \in Seq(S)
             /\ \A f \in ToSet(Normalised(p[1], p[2])) : IsFinding(f)
  <2> DEFINE s == Normalised(p[1], p[2])
  <2>1. OneFinding(s)
    BY DEF Usable
  <2>2. ToSet(s) \subseteq S
    OBVIOUS
  <2> HIDE DEF s, S
  <2>3. s \in Seq(ToSet(s)) /\ \A f \in ToSet(s) : IsFinding(f)
    BY <2>1, OneFindingIs
  <2>4. s \in Seq(S)
    BY <2>2, <2>3, SeqMonotonic
  <2> QED
    BY <2>3, <2>4 DEF s
<1>3. \A f \in S : IsFinding(f)
  BY <1>2
<1>4. ss \in Seq(Seq(S)) /\ Len(ss) = N
  <2>1. ASSUME NEW n \in 1..N PROVE part(n) \in Seq(S)
    <3>1. CASE Places[n] \in facts
      <4> HIDE DEF S
      <4> QED
        BY <1>2, <3>1
    <3>2. CASE Places[n] \notin facts
      BY <3>2
    <3> QED
      BY <3>1, <3>2
  <2> HIDE DEF part
  <2>2. ss \in [1..N -> Seq(S)]
    BY <1>1, <2>1
  <2> HIDE DEF ss, S, N
  <2> QED
    BY <1>1, <2>2
<1>5. \A n \in 1..N : ss[n] = part(n)
  <2> HIDE DEF part
  <2> QED
    BY <1>1
<1>6. Raw(facts) = FlattenSeq(ss)
  BY DEF Raw
<1> HIDE DEF ss, S
<1>7. /\ FlattenSeq(ss) \in Seq(S)
      /\ \A x : x \in ToSet(FlattenSeq(ss)) <=> \E n \in 1..Len(ss) : x \in ToSet(ss[n])
  BY <1>4, FlattenOf
<1>8. ASSUME NEW p \in facts, NEW f \in ToSet(Normalised(p[1], p[2]))
      PROVE  f \in ToSet(Raw(facts))
  <2>1. p \in ToSet(Places)
    BY PlacesAre DEF Usable
  <2>2. PICK n \in 1..N : Places[n] = p
    BY <1>1, <2>1 DEF ToSet
  <2>3. part(n) = Normalised(p[1], p[2])
    BY <2>2
  <2> HIDE DEF part, N
  <2> QED
    BY <1>4, <1>5, <1>6, <1>7, <2>3
<1> QED
  BY <1>3, <1>6, <1>7, <1>8

\* A row for each finding, with what the catalogue and the statements say of it.
Told(m, f, kev, vex) ==
  /\ Covers(m, f)
  /\ ToSet(f.cve) \cap kev # {} =>
       \/ m.bucket = "P0"
       \/ \E c \in ToSet(m.cve) \cap DOMAIN vex : vex[c] \in NotAffected

LEMMA RowsOf ==
  ASSUME NEW facts, Usable(facts), NEW kev, NEW vex
  PROVE  /\ \A f \in ToSet(Raw(facts)) : \E m \in Rows(facts, kev, vex) : Told(m, f, kev, vex)
         /\ \A p \in facts : ToSet(Normalised(p[1], p[2])) \subseteq ToSet(Raw(facts))
<1>1. PICK S : /\ Raw(facts) \in Seq(S) /\ \A f \in S : IsFinding(f)
               /\ \A p \in facts : ToSet(Normalised(p[1], p[2])) \subseteq ToSet(Raw(facts))
  BY RawOf
<1>2. ASSUME NEW f \in ToSet(Raw(facts))
      PROVE  \E m \in Rows(facts, kev, vex) : Told(m, f, kev, vex)
  <2>1. IsFinding(f)
    BY <1>1, ValuesOf
  <2>2. PICK d \in Dedup(Raw(facts)) : Covers(d, f)
    <3> DEFINE r == Raw(facts)
    <3> HIDE DEF r
    <3>1. r \in Seq(S) /\ f \in ToSet(r)
      BY <1>1 DEF r
    <3>2. \E d \in Dedup(r) : Covers(d, f)
      BY <1>1, <3>1, DedupOf
    <3> QED
      BY <3>2 DEF r
  <2> DEFINE e == Enrich(d, Asset, Epss, {}, kev)
             m == Vex(e, vex)
  <2>3. m \in Rows(facts, kev, vex)
    BY DEF Rows, Warm
  <2>4. IsFinding(d) /\ Asset \in [criticality : Nat, exposure : Nat]
    BY <2>2, ScanRunAssumption DEF Covers
  <2>5. /\ IsFinding(e) /\ \A x \in Fields \ {"score", "bucket"} : e[x] = d[x]
        /\ ToSet(d.cve) \cap kev # {} => e.bucket = "P0"
    BY <2>4, EnrichedIs
  <2> HIDE DEF e
  <2>6. /\ IsFinding(m) /\ \A x \in Fields \ {"severity", "score", "bucket"} : m[x] = e[x]
        /\ \/ m = e
           \/ \E c \in ToSet(m.cve) \cap DOMAIN vex : vex[c] \in NotAffected
    BY <2>5, VexedIs
  <2> HIDE DEF m
  <2>7. \A x \in Fields \ {"severity", "score", "bucket"} : m[x] = d[x]
    BY <2>5, <2>6
  <2>8. Covers(m, f)
    BY <2>1, <2>2, <2>4, <2>6, <2>7, SameIdentity, CoversOn
  <2>9. ToSet(f.cve) \subseteq ToSet(d.cve)
    BY <2>2 DEF Covers
  <2>10. Told(m, f, kev, vex)
    BY <2>5, <2>6, <2>8, <2>9 DEF Told
  <2> QED
    BY <2>3, <2>10
<1> QED
  BY <1>1, <1>2

-----------------------------------------------------------------------------
(* The rows of a scan.                                                     *)

\* What is reported are facts of collectors that ran.
LEMMA ReportedFacts ==
  ASSUME IInv, run.stage = "reported"
  PROVE  Usable(run.findings)
<1>1. run.findings \subseteq CallIds \X Facts
  BY DEF IInv, TypeOK
<1>2. ASSUME NEW p \in run.findings
      PROVE  OneFinding(Normalised(p[1], p[2]))
  <2> DEFINE i == p[1]
             fact == p[2]
             issue == IF fact[2] = None THEN Head(Issues) ELSE Issues[fact[2]]
  <2>1. i \in DOMAIN call /\ fact \in call[i].found
    BY <1>2 DEF IInv, ReportInv
  <2>2. call[i] \in CallRecord /\ call[i].tool # Skipped
    BY <2>1 DEF IInv, TypeOK, CallInv
  <2>3. call[i].tool \in Tools /\ fact \in Facts
    BY <2>1, <2>2 DEF CallRecord
  <2>4. fact[2] \in Records \cup {None}
    BY <2>3 DEF Facts
  <2>5. issue \in Issue
    <3>1. Issues \in Seq(Issue) /\ Issues # <<>> /\ Records = DOMAIN Issues
      BY ScanRunAssumption
    <3>2. Head(Issues) \in Issue /\ \A n \in DOMAIN Issues : Issues[n] \in Issue
      BY <3>1
    <3> QED
      BY <2>4, <3>1, <3>2
  <2>6. Normalised(i, fact) = FindingsOf(call[i].tool, run.kind, Artifact(fact[1]), issue)
    BY DEF Normalised
  <2> HIDE DEF issue
  <2> QED
    BY <2>3, <2>5, <2>6, OneFindingEach
<1> QED
  BY <1>1, <1>2 DEF Usable

\* The rows come with the report, and nothing moves after it.
LEMMA RowsKeep == ScanInv /\ [ScanNext]_scanVars => ScanInv'
<1> SUFFICES ASSUME ScanInv, [ScanNext]_scanVars PROVE ScanInv'
  OBVIOUS
<1>1. IInv'
  BY StepInv DEF ScanInv, ScanNext, Report, scanVars, vars
<1>2. TypeOK /\ ReportInv
  BY DEF ScanInv, IInv
<1>3. ASSUME call' = call, run'.kind = run.kind, NEW facts, NEW kev, NEW vex
      PROVE  Rows(facts, kev, vex)' = Rows(facts, kev, vex)
  <2>1. ASSUME NEW i, NEW fact PROVE Normalised(i, fact)' = Normalised(i, fact)
    BY <1>3 DEF Normalised
  <2>2. Raw(facts)' = Raw(facts)
    BY <2>1 DEF Raw
  <2> QED
    BY <2>2 DEF Rows
<1> SUFFICES RowsInv'
  BY <1>1 DEF ScanInv
<1>4. CASE Report
  <2>1. call' = call /\ run'.kind = run.kind
    BY <1>2, <1>4 DEF Report, Gather, TypeOK
  <2> QED
    BY <1>3, <1>4, <2>1 DEF Report, RowsInv, Catalogues
<1>5. CASE UNCHANGED scanVars
  <2>1. UNCHANGED <<run, call, rows>>
    BY <1>5 DEF scanVars, vars
  <2> QED
    BY <1>3, <2>1 DEF RowsInv, Catalogues, ScanInv
<1>6. CASE Collect /\ UNCHANGED rows
  <2>1. CASE run.stage = "reported"
    <3>1. UNCHANGED <<run, call>>
      <4>1. ASSUME NEW i \in DOMAIN call, Call(i) PROVE FALSE
        <5>1. call[i].stage \in {"answered", "lost"}
          BY <1>2, <2>1 DEF ReportInv, Ended
        <5> QED
          BY <4>1, <5>1 DEF Call, Enter, NotInstalled, Admits, Begin, TimeOut, Answer,
             Cancel, Exit, Waits
      <4> QED
        BY <1>6, <2>1, <4>1 DEF Collect, Prepare, Fail, Reap
    <3> QED
      BY <1>3, <1>6, <3>1 DEF RowsInv, Catalogues, ScanInv
  <2>2. CASE run.stage # "reported"
    <3>1. run'.stage # "reported"
      BY <1>2, <1>6, <2>2 DEF TypeOK, Collect, Prepare, Fail, Reap, Call, Enter, NotInstalled,
         Begin, TimeOut, Answer, Cancel, Exit
    <3> QED
      BY <3>1 DEF RowsInv
  <2> QED
    BY <2>1, <2>2
<1> QED
  BY <1>4, <1>5, <1>6 DEF ScanNext

\* No rows before the report.
LEMMA RowsInit == ScanInit => ScanInv
BY InitInv DEF ScanInit, ScanInv, RowsInv, Init

\* The rows of a scan are those of its findings: each is merged, scored and excused
\* once, with the last answer, and what is reported does not change.
THEOREM ScanInductive == ScanSpec => []ScanInv
BY RowsInit, RowsKeep, PTL DEF ScanSpec

\* EveryRecordIsReported: whatever a collector that is not lenient saw is in a row, under
\* its identity and with its tool, its CVEs and its CVSS, or is an error of the run.
THEOREM EveryRecordReachesTheReport == ScanSpec => []EveryRecordIsReported
<1>1. ScanInv => EveryRecordIsReported
  <2> SUFFICES ASSUME ScanInv, run.stage = "reported", NEW i \in DOMAIN call,
                      call[i].stage = "answered", call[i].tool \notin Lenient,
                      i \notin run.errors,
                      NEW fact \in call[i].wrote, NEW f \in ToSet(Normalised(i, fact))
               PROVE  \E m \in rows.findings :
                        /\ Fingerprint(m) = Fingerprint(f) /\ f.tool \in m.tools
                        /\ ToSet(f.cve) \subseteq ToSet(m.cve) /\ f.cvss <= m.cvss
    BY DEF EveryRecordIsReported
  <2>1. IInv /\ RowsInv /\ Usable(run.findings)
    BY ReportedFacts DEF ScanInv
  <2>2. PICK kev, vex : rows.findings = Rows(run.findings, kev, vex)
    BY <2>1 DEF RowsInv
  <2> DEFINE p == <<i, fact>>
  <2>3. p \in run.findings
    <3>1. {i} \X call[i].found \subseteq run.findings /\ ~call[i].failed
      BY <2>1 DEF IInv, ReportInv
    <3>2. fact \in call[i].found
      BY <2>1, <3>1 DEF IInv, KeptInv
    <3> QED
      BY <3>1, <3>2
  <2>4. f \in ToSet(Normalised(p[1], p[2]))
    OBVIOUS
  <2> HIDE DEF p
  <2>5. f \in ToSet(Raw(run.findings))
    BY <2>1, <2>3, <2>4, RowsOf
  <2>6. PICK m \in rows.findings : Told(m, f, kev, vex)
    BY <2>1, <2>2, <2>5, RowsOf
  <2>7. f.tool \in f.tools
    <3>1. PICK S : Raw(run.findings) \in Seq(S) /\ \A g \in S : IsFinding(g)
      BY <2>1, RawOf
    <3>2. IsFinding(f)
      BY <2>5, <3>1, ValuesOf
    <3> QED
      BY <3>2 DEF IsFinding
  <2> QED
    BY <2>6, <2>7 DEF Told, Covers
<1> QED
  BY <1>1, ScanInductive, PTL

\* ExploitedIsUrgent: a finding with a CVE of the catalogue is in a row that is urgent,
\* or that a statement excuses.
THEOREM ExploitedIsAlwaysUrgent == ScanSpec => []ExploitedIsUrgent
<1>1. ScanInv => ExploitedIsUrgent
  <2> SUFFICES ASSUME ScanInv, run.stage = "reported",
                      NEW f \in ToSet(Raw(run.findings)), ToSet(f.cve) \cap rows.kev # {}
               PROVE  \E m \in rows.findings :
                        /\ Fingerprint(m) = Fingerprint(f)
                        /\ m.bucket = "P0" \/ Excused(m)
    BY DEF ExploitedIsUrgent
  <2>1. IInv /\ RowsInv /\ Usable(run.findings)
    BY ReportedFacts DEF ScanInv
  <2>2. rows.findings = Rows(run.findings, rows.kev, rows.vex)
    BY <2>1 DEF RowsInv
  <2>3. PICK m \in rows.findings : Told(m, f, rows.kev, rows.vex)
    BY <2>1, <2>2, RowsOf
  <2> QED
    BY <2>3 DEF Told, Covers, Excused
<1> QED
  BY <1>1, ScanInductive, PTL
=================================================================================
