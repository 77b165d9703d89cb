------------------------------ MODULE Collectors ------------------------------
(***************************************************************************)
(* One scan run: the collectors of a request (workers/tasks.py), run in    *)
(* parallel under a semaphore and a ceiling (core/orchestrator.py), each   *)
(* of which starts an external tool, waits for it, and reads what it wrote *)
(* (collectors/).                                                          *)
(*                                                                         *)
(* What the collectors differ in is a record each: the exit codes that do  *)
(* not count as an error, the tool's own time limit, whether one target    *)
(* that fails leaves the others alone, and what becomes of output that is  *)
(* not what was expected.  A tool writes records; a record is one the      *)
(* collector can use ("good"), one that cannot be read as JSON or XML      *)
(* ("unreadable"), or one that no Finding can be made of ("invalid").      *)
(* Empty output, and a report that was never written, count as no records  *)
(* in every collector.                                                     *)
(*                                                                         *)
(* A definition standing before the one whose parameters it shares, and    *)
(* used nowhere, is a mutated form of it (PROJECT.json, "mutants").        *)
(***************************************************************************)
EXTENDS Naturals, FiniteSets, Sequences

CONSTANTS
  Records,      \* what a tool can report about a target
  Codes,        \* exit codes of the tools
  MaxParallel,  \* max_parallel_collectors
  Ceiling,      \* per_collector_timeout, in seconds
  MaxCalls,     \* bound: how many of the run's collectors are followed
  MaxTargets,   \* bound: paths, documents or artifacts a collector is given
  Kinds,        \* bound: the kinds of targets a request may name
  None

ASSUME CollectorsAssumption ==
  /\ MaxParallel \in Nat \ {0} /\ Ceiling \in Nat /\ MaxCalls \in Nat
  /\ MaxTargets \in Nat \ {0} /\ Codes \subseteq Nat /\ None \notin Records
  /\ Kinds \subseteq {"repo", "image", "host", "tls", "azure", "aws", "gcp", "iac",
                      "api_specs", "kubernetes", "domains", "artifacts", "sboms",
                      "dast"}

-----------------------------------------------------------------------------
(* The collectors.                                                         *)

\* A collector of one target: an exception anywhere gives one error and no
\* findings.
Single(ok, limit) ==
  [ok |-> ok, limit |-> limit, each |-> FALSE, many |-> FALSE, alien |-> "fails",
   unreadable |-> "fails", verdict |-> FALSE]

Trivy == Single({0, 1}, 900)
OSVScanner == Single({0, 1}, 900)
PipAudit == Single({0, 1}, 600)
Semgrep == Single({0, 1}, 1800)
Bandit == Single({0, 1}, 900)
Dockle == Single({0, 1}, 600)
Kubescape == Single({0, 1}, 1800)
Gitleaks == Single({0, 1}, 600)
Nuclei == Single({0, 1}, 1200)
Httpx == Single({0}, 900)
ZAP == Single({0, 1, 2}, 1200)

\* Lines that are not JSON are skipped with a warning in the log.
TruffleHog == [Single({0}, 900) EXCEPT !.unreadable = "line"]

\* A document of another shape has no hosts, or no sections: no findings.
Nmap == [Single({0}, 3600) EXCEPT !.alien = "empty"]
TestSSL == [Single({0, 1, 2}, 1200) EXCEPT !.alien = "empty"]
ProwlerAWS == [Single({0, 3}, 3600) EXCEPT !.alien = "empty"]
ProwlerGCP == [Single({0, 3}, 3600) EXCEPT !.alien = "empty"]

\* A report file that cannot be parsed is logged and left out.
ProwlerAzure ==
  [Single({0, 3}, 3600) EXCEPT !.alien = "empty", !.unreadable = "file"]

\* One path after the other, each with its own error; a list of reports, which
\* checkov writes for several frameworks, counts as none.
Checkov ==
  [Single({0, 1}, 1800) EXCEPT !.each = TRUE, !.many = TRUE, !.alien = "empty"]
TrivyConfig == [Single({0, 1}, 1200) EXCEPT !.each = TRUE, !.many = TRUE]

\* Documents that are there already: no process and nothing to wait for.  The
\* first that cannot be used ends the scan and keeps the findings so far.
Syft == [Single(Codes, 0) EXCEPT !.many = TRUE]

\* The exit code is the finding: whatever cosign could not verify is unsigned.  The
\* pass over attestations follows a signature that verified.
Cosign ==
  [Single(Codes, 300) EXCEPT !.each = TRUE, !.many = TRUE, !.verdict = TRUE]

Adapter ==
  [trivy |-> Trivy, osv |-> OSVScanner, pip_audit |-> PipAudit,
   semgrep |-> Semgrep, bandit |-> Bandit, dockle |-> Dockle,
   kubescape |-> Kubescape, gitleaks |-> Gitleaks, nuclei |-> Nuclei,
   httpx |-> Httpx, zap |-> ZAP, trufflehog |-> TruffleHog, nmap |-> Nmap,
   testssl |-> TestSSL, prowler_aws |-> ProwlerAWS, prowler_gcp |-> ProwlerGCP,
   prowler_azure |-> ProwlerAzure, checkov |-> Checkov,
   trivy_config |-> TrivyConfig, syft |-> Syft, cosign |-> Cosign]

Tools == DOMAIN Adapter
Skipped == "skipped"  \* a call that only says why the collector did not run

\* The calls a kind of target stands for, in order.
CallsFor(kind, offline) ==
  CASE kind = "repo" -> <<"trivy", "pip_audit", "osv", "gitleaks", "trufflehog",
                          "semgrep", "bandit">>
    [] kind = "image" -> <<"trivy", "dockle">>
    [] kind = "host" -> <<"nmap">>
    [] kind = "tls" -> <<"testssl">>
    [] kind = "azure" -> <<"prowler_azure">>
    [] kind = "aws" -> <<"prowler_aws">>
    [] kind = "gcp" -> <<"prowler_gcp">>
    [] kind = "iac" -> <<"checkov", "trivy_config">>
    [] kind = "api_specs" -> <<"checkov">>
    [] kind = "kubernetes" -> IF offline THEN <<Skipped>>
                              ELSE <<"kubescape", "trivy">>
    [] kind = "domains" -> IF offline THEN <<Skipped>>
                           ELSE <<"httpx", "testssl", "nmap">>
    [] kind = "artifacts" -> <<"syft", "cosign", "trivy">>
    [] kind = "sboms" -> <<"syft", "trivy">>
    [] kind = "dast" -> IF offline THEN <<Skipped>> ELSE <<"zap", "nuclei">>

AllKinds == {"repo", "image", "host", "tls", "azure", "aws", "gcp", "iac",
             "api_specs", "kubernetes", "domains", "artifacts", "sboms", "dast"}

\* Workload images are listed, domains enumerated and SBOMs exported before the
\* first collector runs; only the listing has no time limit of its own.
Unlimited == {"kubernetes"}

VARIABLES
  run,    \* the task: its request, and how far it is
  call,   \* the collector calls of the run that are followed
  procs   \* the external processes that run, as <<call, target>>

vars == <<run, call, procs>>

MaxRetries == 2
CallIds == 1..MaxCalls
Targets == 1..MaxTargets
Facts == Targets \X (Records \cup {None})

Nothing == [alien |-> FALSE, good |-> {}, unreadable |-> {}, invalid |-> {}]
Outputs ==
  {out \in [alien : BOOLEAN, good : SUBSET Records, unreadable : SUBSET Records,
            invalid : SUBSET Records] :
     /\ out.good \cap (out.unreadable \cup out.invalid) = {}
     /\ out.unreadable \cap out.invalid = {}
     /\ out.alien => out.unreadable \cup out.invalid = {} /\ out.good # {}}

CallRecord ==
  [tool : Tools \cup {Skipped}, stage : {"waiting", "running", "answered", "lost"},
   given : 0..MaxTargets, begun : 0..MaxTargets, busy : BOOLEAN,
   found : SUBSET Facts, wrote : SUBSET Facts, failed : BOOLEAN]

TypeOK ==
  /\ run \in [kind : Kinds, offline : BOOLEAN, tries : 0..MaxRetries,
              stage : {"preparing", "collecting", "reported", "gaveup"},
              findings : SUBSET (CallIds \X Facts), errors : SUBSET CallIds]
  /\ call \in [DOMAIN call -> CallRecord] /\ DOMAIN call \subseteq CallIds
  /\ procs \in SUBSET (CallIds \X Targets)

\* A call that was not made yet: how many targets it was given and has begun with,
\* whether it waits for a tool, what it found and what its tools wrote.
Idle(tool) ==
  [tool |-> tool, stage |-> "waiting", given |-> 0, begun |-> 0, busy |-> FALSE,
   found |-> {}, wrote |-> {}, failed |-> FALSE]

\* A request with targets of one kind; some of its calls are followed.
Init ==
  /\ run \in [kind : Kinds, offline : BOOLEAN, tries : {0}, stage : {"preparing"},
              findings : {{}}, errors : {{}}]
  /\ LET calls == CallsFor(run.kind, run.offline)
     IN \E n \in 1..MaxCalls : \E at \in [1..n -> DOMAIN calls] :
          /\ \A i, k \in 1..n : i < k => at[i] < at[k]
          /\ call = [i \in 1..n |-> Idle(calls[at[i]])]
  /\ procs = {}

-----------------------------------------------------------------------------
(* The task around the run.                                                *)

Prepare ==
  /\ run.stage = "preparing"
  /\ run' = [run EXCEPT !.stage = "collecting"]
  /\ UNCHANGED <<call, procs>>

\* Whatever fails before the orchestrator runs -- a request that is refused, a
\* missing kubectl, an SBOM that cannot be exported -- fails the task, and Celery
\* tries it again.
Fail ==
  /\ run.stage = "preparing"
  /\ run' = IF run.tries < MaxRetries THEN [run EXCEPT !.tries = @ + 1]
            ELSE [run EXCEPT !.stage = "gaveup"]
  /\ UNCHANGED <<call, procs>>

\* The soft time limit of the task ends a preparation that waits for ever.
SoftLimit == run.kind \in Unlimited /\ Fail

-----------------------------------------------------------------------------
(* One collector call.                                                     *)

Set(i, c) == call' = [call EXCEPT ![i] = c]

Running == {i \in DOMAIN call : call[i].stage = "running"}
Ended == {i \in DOMAIN call : call[i].stage \in {"answered", "lost"}}

\* The semaphore lets the calls in, first come first served.
Admits(i) ==
  /\ run.stage = "collecting" /\ call[i].stage = "waiting"
  /\ Cardinality(Running) < MaxParallel
  /\ \A k \in DOMAIN call : k < i => call[k].stage # "waiting"

\* The collector is constructed and the scan begins.  Missing credentials or a
\* missing target are an error without a process, and so is a call that only says
\* why it was skipped.
Enter(i, given, ready) ==
  /\ Admits(i)
  /\ given > 1 => call[i].tool # Skipped /\ Adapter[call[i].tool].many
  /\ Set(i, IF ready /\ call[i].tool # Skipped
            THEN [call[i] EXCEPT !.stage = "running", !.given = given]
            ELSE [call[i] EXCEPT !.stage = "answered", !.failed = TRUE])
  /\ UNCHANGED <<run, procs>>

\* The tool is not installed: the constructor raises within the call.
NotInstalled(i) ==
  /\ Admits(i) /\ call[i].tool # Skipped
  /\ Set(i, [call[i] EXCEPT !.stage = "lost"])
  /\ UNCHANGED <<run, procs>>

Begin(i) ==
  /\ call[i].stage = "running" /\ ~call[i].busy /\ call[i].begun < call[i].given
  /\ Set(i, [call[i] EXCEPT !.busy = TRUE, !.begun = @ + 1])
  /\ procs' = IF Adapter[call[i].tool].limit = 0 THEN procs
              ELSE procs \cup {<<i, call[i].begun + 1>>}
  /\ UNCHANGED run

\* One error; a collector that does not go on after an error is done.
Errs(i) ==
  [call[i] EXCEPT !.busy = FALSE, !.failed = TRUE,
                  !.given = IF Adapter[call[i].tool].each THEN @ ELSE call[i].begun]

Of(i, records) == {<<call[i].begun, r>> : r \in records}

ReadsBlindly(i, code, out) ==
  IF code \notin Adapter[call[i].tool].ok THEN Errs(i)
  ELSE [call[i] EXCEPT !.busy = FALSE, !.found = @ \cup Of(i, out.good)]

\* What is made of the exit code and the output of the tool for one target.
Read(i, code, out) ==
  LET a == Adapter[call[i].tool]
      with(records) == [call[i] EXCEPT !.busy = FALSE, !.found = @ \cup Of(i, records)]
  IN IF a.verdict THEN with(IF code = 0 THEN {} ELSE {None})
     ELSE IF \/ code \notin a.ok
             \/ (out.alien /\ a.alien = "fails")
             \/ (out.unreadable # {} /\ a.unreadable = "fails")
          THEN Errs(i)
     ELSE IF out.alien \/ (out.unreadable # {} /\ a.unreadable = "file") THEN with({})
     ELSE IF out.invalid # {} THEN Errs(i)
     ELSE with(out.good)

Waits(i) == call[i].stage = "running" /\ call[i].busy
Process(i) == <<i, call[i].begun>>

\* The tool ends, with any code and any output.
Exit(i, code, out) ==
  /\ Waits(i)
  /\ Adapter[call[i].tool].verdict => out = Nothing
  /\ Set(i, [Read(i, code, out) EXCEPT
               !.wrote = @ \cup Of(i, out.good \cup out.unreadable \cup out.invalid)])
  /\ procs' = procs \ {Process(i)}
  /\ UNCHANGED run

LeavesProcess(i) ==
  /\ Waits(i) /\ Adapter[call[i].tool].limit > 0
  /\ Set(i, Errs(i))
  /\ UNCHANGED <<run, procs>>

\* The tool exceeds its own limit: it is killed, and waited for.
TimeOut(i) ==
  /\ Waits(i) /\ Adapter[call[i].tool].limit > 0
  /\ Set(i, Errs(i))
  /\ procs' = procs \ {Process(i)}
  /\ UNCHANGED run

Answer(i) ==
  /\ call[i].stage = "running" /\ ~call[i].busy /\ call[i].begun = call[i].given
  /\ Set(i, [call[i] EXCEPT !.stage = "answered"])
  /\ UNCHANGED <<run, procs>>

\* The ceiling of the orchestrator cancels the call where it waits for the tool;
\* no collector expects that, so the tool goes on.  A call reaches the ceiling when
\* the limits of the tools it has waited for do.
Cancel(i) ==
  /\ Waits(i)
  /\ Adapter[call[i].tool].limit * call[i].begun >= Ceiling
  /\ Set(i, [call[i] EXCEPT !.stage = "lost", !.busy = FALSE])
  /\ UNCHANGED <<run, procs>>

\* A tool nobody waits for ends by itself, or with the event loop of the task.
Orphans == {p \in procs : ~Waits(p[1]) \/ Process(p[1]) # p}

Reap(p) ==
  /\ p \in Orphans
  /\ procs' = procs \ {p}
  /\ UNCHANGED <<run, call>>

ForgetsErrors ==
  /\ run.stage = "collecting" /\ Ended = DOMAIN call
  /\ run' = [run EXCEPT !.stage = "reported",
               !.findings = UNION {{i} \X call[i].found : i \in DOMAIN call},
               !.errors = {i \in DOMAIN call : call[i].failed /\ call[i].found = {}}]
  /\ UNCHANGED <<call, procs>>

AwaitsAnswers ==
  /\ run.stage = "collecting" /\ \A i \in DOMAIN call : call[i].stage = "answered"
  /\ run' = [run EXCEPT !.stage = "reported",
               !.findings = UNION {{i} \X call[i].found : i \in DOMAIN call},
               !.errors = {i \in DOMAIN call : call[i].failed}]
  /\ UNCHANGED <<call, procs>>

\* The answers are put together; a call that was lost is left out.
Gather ==
  /\ run.stage = "collecting" /\ Ended = DOMAIN call
  /\ run' = [run EXCEPT !.stage = "reported",
               !.findings = UNION {{i} \X call[i].found : i \in
                              {k \in DOMAIN call : call[k].stage = "answered"}},
               !.errors = {i \in DOMAIN call : call[i].stage = "answered"
                                                /\ call[i].failed}]
  /\ UNCHANGED <<call, procs>>

Call(i) ==
  \/ \E given \in Targets, ready \in BOOLEAN : Enter(i, given, ready)
  \/ NotInstalled(i) \/ Begin(i) \/ TimeOut(i) \/ Answer(i) \/ Cancel(i)
  \/ \E code \in Codes, out \in Outputs : Exit(i, code, out)

Collect ==
  \/ Prepare \/ Fail
  \/ \E i \in DOMAIN call : Call(i)
  \/ \E p \in Orphans : Reap(p)

Spec == Init /\ [][Collect \/ Gather]_vars

\* What the event loop does whatever the tools do: reading a document that is there
\* needs no tool.
Proceed(i) ==
  /\ i \in DOMAIN call
  /\ \/ \E given \in Targets : Enter(i, given, TRUE)
     \/ Begin(i) \/ TimeOut(i) \/ Answer(i)
     \/ /\ Waits(i) /\ Adapter[call[i].tool].limit = 0
        /\ \E code \in Codes, out \in Outputs : Exit(i, code, out)

\* The event loop goes on; wait_for ends what does not answer; the soft time limit
\* ends a preparation that hangs.  Nothing makes an external tool end in time, nor
\* a preparation succeed.
Fairness ==
  /\ WF_vars(Gather) /\ WF_vars(SoftLimit)
  /\ WF_vars(run.kind \notin Unlimited /\ (Prepare \/ Fail))
  /\ \A i \in CallIds : WF_vars(Proceed(i))

FairSpec == Spec /\ Fairness

-----------------------------------------------------------------------------
(* Properties.                                                             *)

\* The collectors that leave out, without an error, what they cannot read.
Lenient == {"trufflehog", "prowler_azure", "nmap", "testssl", "checkov",
            "prowler_aws", "prowler_gcp", "cosign"}

\* The report closes what it does not list, so a record that a tool wrote must be
\* among the findings of the run or the error of its collector in the report: no
\* combination of targets that fail, time out or hold one bad record loses a
\* record without a trace.
NothingIsDroppedSilently ==
  run.stage = "reported" =>
    \A i \in DOMAIN call :
      call[i].stage = "answered" /\ call[i].tool \notin Lenient =>
        \/ \A f \in call[i].wrote : <<i, f>> \in run.findings
        \/ i \in run.errors

\* "max_parallel_collectors: one asset, N tools at once": more run only beside the
\* calls that the ceiling cancelled, whose tools nobody kills.
ToolsAreBounded ==
  /\ Cardinality(procs) <=
       MaxParallel + Cardinality({i \in DOMAIN call : call[i].stage = "lost"})
  /\ \A p \in Orphans : call[p[1]].stage = "lost"

\* A run ends whatever its tools do: each is given up after a time, and so is a
\* preparation that hangs.
RunEnds == <>(run.stage \in {"reported", "gaveup"})

-----------------------------------------------------------------------------
(* The inductive invariant.                                                *)

\* A call is given targets when it begins, and waits for the tool of one of them.
CallInv(c) ==
  /\ c.begun <= c.given /\ (c.stage = "waiting" => c.given = 0)
  /\ (c.stage = "running" \/ c.found # {}) => c.tool # Skipped
  /\ c.busy => c.stage = "running" /\ c.begun > 0

\* A collector that is not lenient has lost nothing without an error, so far.
KeptInv(c) == c.tool \notin Lenient => c.failed \/ c.wrote \subseteq c.found

SlotInv == Cardinality(Running) <= MaxParallel

\* A process is the last that its call started, which waits for it or was cancelled.
ProcInv ==
  \A p \in procs :
    /\ p[1] \in DOMAIN call /\ p[2] = call[p[1]].begun
    /\ call[p[1]].stage = "lost" \/ (call[p[1]].stage = "running" /\ call[p[1]].busy)

\* The report is made of calls that have ended, so it cannot be overtaken.
ReportInv ==
  run.stage = "reported" =>
    /\ Ended = DOMAIN call
    /\ \A i \in DOMAIN call : call[i].stage = "answered" =>
         /\ {i} \X call[i].found \subseteq run.findings
         /\ call[i].failed => i \in run.errors
    /\ \A p \in run.findings : p[1] \in DOMAIN call /\ p[2] \in call[p[1]].found
IInv ==
  /\ TypeOK /\ SlotInv /\ ProcInv /\ ReportInv
  /\ \A i \in DOMAIN call : CallInv(call[i]) /\ KeptInv(call[i])
==============================================================================
