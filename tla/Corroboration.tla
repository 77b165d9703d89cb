---------------------------- MODULE Corroboration ----------------------------
(***************************************************************************)
(* What becomes of the records of the tools: each collector makes findings *)
(* of them (collectors/, _normalize), findings of several tools that have  *)
(* one key are merged (core/dedup.py), scored (core/risk_engine.py),       *)
(* suppressed where a VEX statement says so (supply_chain/vex.py), and     *)
(* given the identity they keep across scans (core/fingerprint.py).        *)
(*                                                                         *)
(* An issue is what there is to be seen; what a tool tells of it, and how, *)
(* is its operator here.  Texts are left out, unless they are part of a    *)
(* key.  Severities are 0 (info) to 4 (critical), CVSS is in tenths, EPSS  *)
(* in percent, exposure in tenths, and scores are in thousandths.          *)
(*                                                                         *)
(* A definition standing before the one whose parameters it shares, and    *)
(* used nowhere, is a mutated form of it (PROJECT.json, "mutants").        *)
(***************************************************************************)
EXTENDS Naturals, Sequences, FiniteSets, SequencesExt

Info == 0
Low == 1
Medium == 2
High == 3
Critical == 4

NoText == "none"

\* A finding before its collector fills it in; title stands for what of the title
\* tells findings of one tool apart.
Blank(tool, module) ==
  [tool |-> tool, module |-> module, title |-> NoText, cve |-> <<>>, cwe |-> <<>>,
   severity |-> Info, cvss |-> 0, fix |-> FALSE, file |-> NoText, line |-> 0,
   pkg |-> NoText, version |-> NoText, advisory |-> NoText, rule |-> NoText,
   check |-> NoText, family |-> NoText, resource |-> NoText, path |-> NoText, component |-> NoText,
   host |-> NoText, port |-> NoText, scheme |-> NoText, mark |-> NoText,
   artifact |-> NoText, tools |-> {tool}, score |-> 0, bucket |-> "P4"]

HasCve(i) == i.cves # <<>>
Least(a, b) == IF a < b THEN a ELSE b
Most(a, b) == IF a > b THEN a ELSE b

-----------------------------------------------------------------------------
(* The collectors.                                                         *)

\* Only an identifier that is a CVE; no advisory, whatever the identifier is.
TrivyFinding(i, module) ==
  [Blank("trivy", module) EXCEPT
     !.title = i.advisory, !.cve = IF HasCve(i) THEN <<Head(i.cves)>> ELSE <<>>,
     !.cwe = i.cwes, !.cvss = i.cvss, !.severity = i.severity, !.file = i.file,
     !.pkg = i.pkg, !.version = i.version, !.fix = i.fix]

\* The CVSS vector is kept, its base score is not computed.
OsvFinding(i) ==
  [Blank("osv-scanner", "sca") EXCEPT
     !.title = i.advisory, !.cve = i.cves, !.pkg = i.pkg, !.version = i.version,
     !.severity = IF i.severity = Info THEN Medium ELSE i.severity,
     !.advisory = i.advisory, !.fix = i.fix, !.file = i.file]

PipAuditFinding(i) ==
  [Blank("pip-audit", "sca") EXCEPT
     !.title = i.advisory, !.cve = i.cves, !.pkg = i.pkg, !.version = i.version,
     !.severity = IF i.fix THEN Medium ELSE High,
     !.advisory = i.advisory, !.fix = i.fix]

GitleaksFinding(i) ==
  [Blank("gitleaks", "secrets") EXCEPT
     !.title = i.rule, !.cwe = <<"CWE-798">>, !.file = i.file, !.line = i.line,
     !.severity = IF i.severity = Critical THEN Critical ELSE High,
     !.family = i.family, !.rule = i.rule]

TruffleHogFinding(i) ==
  [Blank("trufflehog", "secrets") EXCEPT
     !.title = i.rule, !.cwe = <<"CWE-798">>, !.file = i.file, !.line = i.line,
     !.severity = IF i.sure THEN Critical ELSE High, !.family = i.family]

\* sure: confidence and impact are high.
SemgrepFinding(i) ==
  [Blank("semgrep", "sast") EXCEPT
     !.title = i.rule, !.cwe = i.cwes, !.file = i.file, !.line = i.line,
     !.severity = IF i.severity >= High /\ i.sure THEN Critical
                  ELSE Least(i.severity, High), !.check = i.rule]

\* sure: confidence is high, otherwise it is low.
BanditFinding(i) ==
  [Blank("bandit", "sast") EXCEPT
     !.title = i.rule, !.cwe = i.cwes, !.file = i.file, !.line = i.line,
     !.severity = LET base == Least(Most(i.severity, Low), High)
                  IN IF i.sure THEN base + 1 ELSE base - 1]

NmapFinding(i) ==
  [Blank("nmap", "network") EXCEPT
     !.title = i.port, !.severity = i.severity, !.host = i.host, !.port = i.port,
     !.scheme = "tcp"]

TestSSLFinding(i) ==
  [Blank("testssl.sh", "network") EXCEPT
     !.title = i.rule, !.cve = i.cves, !.severity = i.severity, !.port = i.port,
     !.mark = i.rule]

DockleFinding(i) ==
  [Blank("dockle", "container") EXCEPT !.title = i.rule, !.severity = i.severity]

CheckovFinding(i, module) ==
  [Blank("checkov", module) EXCEPT
     !.title = "CKV " \o i.rule, !.severity = i.severity, !.file = i.file,
     !.check = "CKV " \o i.rule, !.resource = i.resource]

TrivyConfigFinding(i) ==
  [Blank("trivy-config", "iac") EXCEPT
     !.title = "AVD " \o i.rule, !.severity = i.severity, !.file = i.file,
     !.check = "AVD " \o i.rule, !.resource = i.resource]

KubescapeFinding(i) ==
  [Blank("kubescape", "kubernetes") EXCEPT
     !.title = i.rule, !.severity = i.severity, !.check = i.rule,
     !.resource = i.resource]

\* An account or region is not among what tells findings apart.
ProwlerFinding(i, tool) ==
  [Blank(tool, "cloud") EXCEPT
     !.title = i.rule, !.severity = i.severity, !.check = i.rule,
     !.host = i.resource]

ZapFinding(i) ==
  [Blank("zap", "api_security") EXCEPT
     !.title = i.rule, !.cwe = i.cwes, !.severity = i.severity, !.rule = i.rule,
     !.path = i.resource, !.scheme = i.method]

NucleiFinding(i) ==
  [Blank("nuclei", "api_security") EXCEPT
     !.title = i.rule, !.cve = i.cves, !.cwe = i.cwes, !.severity = i.severity,
     !.rule = i.rule, !.path = i.resource, !.scheme = "http"]

HttpxFinding(i) ==
  [Blank("httpx", "asm") EXCEPT
     !.title = i.port, !.host = i.host, !.port = i.port, !.scheme = "https",
     !.severity = Low, !.mark = i.rule]

\* A component with a purl, but without a version; one without a purl has no artifact.
SyftFinding(i) ==
  [Blank("syft", "supply_chain") EXCEPT
     !.title = i.pkg, !.severity = Low, !.component = i.pkg,
     !.artifact = i.pkg]

CosignFinding(artifact) ==
  [Blank("cosign", "supply_chain") EXCEPT
     !.title = artifact, !.severity = High, !.artifact = artifact]

\* Findings about the image of a workload, or a host that was enumerated, are moved
\* to the module of the scan, with what the scan knows of the workload or the host.
Rewritten(f, module, patch) ==
  [f EXCEPT !.module = module,
            !.resource = IF module = "kubernetes" THEN patch ELSE @,
            !.host = IF module = "asm" THEN patch ELSE @]

\* What the collector of a call makes of a record about a target.
FindingsOf(tool, kind, artifact, i) ==
  CASE tool = "trivy" ->
         CASE kind = "repo" -> <<TrivyFinding(i, "sca")>>
           [] kind = "image" -> <<TrivyFinding(i, "container")>>
           [] kind = "kubernetes" ->
                <<Rewritten(TrivyFinding(i, "container"), "kubernetes", i.resource)>>
           [] OTHER -> <<TrivyFinding(i, "supply_chain")>>
    [] tool = "osv" -> <<OsvFinding(i)>>
    [] tool = "pip_audit" -> <<PipAuditFinding(i)>>
    [] tool = "gitleaks" -> <<GitleaksFinding(i)>>
    [] tool = "trufflehog" -> <<TruffleHogFinding(i)>>
    [] tool = "semgrep" -> <<SemgrepFinding(i)>>
    [] tool = "bandit" -> <<BanditFinding(i)>>
    [] tool = "nmap" -> <<IF kind = "domains" THEN Rewritten(NmapFinding(i), "asm", i.host)
                         ELSE NmapFinding(i)>>
    [] tool = "testssl" ->
         <<IF kind = "domains" THEN Rewritten(TestSSLFinding(i), "asm", i.host)
          ELSE TestSSLFinding(i)>>
    [] tool = "dockle" -> <<DockleFinding(i)>>
    [] tool = "checkov" ->
         <<CheckovFinding(i, IF kind = "api_specs" THEN "api_security" ELSE "iac")>>
    [] tool = "trivy_config" -> <<TrivyConfigFinding(i)>>
    [] tool = "kubescape" -> <<KubescapeFinding(i)>>
    [] tool \in {"prowler_aws", "prowler_azure", "prowler_gcp"} -> <<ProwlerFinding(i, tool)>>
    [] tool = "zap" -> <<ZapFinding(i)>>
    [] tool = "nuclei" -> <<NucleiFinding(i)>>
    [] tool = "httpx" -> <<HttpxFinding(i)>>
    [] tool = "syft" -> IF i.version = NoText THEN <<SyftFinding(i)>> ELSE <<>>
    [] tool = "cosign" -> <<CosignFinding(artifact)>>

-----------------------------------------------------------------------------
(* core/dedup.py and core/fingerprint.py                                   *)

FirstOf(s, otherwise) == IF s = <<>> THEN otherwise ELSE Head(s)

\* The key of a finding within its asset; none for the modules that are never merged.
Key(f) ==
  CASE f.module \in {"sca", "container"} ->
         IF f.cve = <<>> /\ f.advisory = NoText /\ f.pkg = NoText THEN <<>>
         ELSE <<"sca", FirstOf(f.cve, f.advisory), f.pkg, f.version>>
    [] f.module = "secrets" -> <<"secrets", f.file, f.line, f.family>>
    [] f.module = "sast" -> <<"sast", f.file, f.line \div 5, FirstOf(f.cwe, "no-cwe")>>
    [] f.module = "iac" -> <<"iac", f.check, f.file, f.resource>>
    [] f.module = "kubernetes" -> <<"kubernetes", f.check, f.resource>>
    [] f.module = "asm" -> <<"asm", f.host, f.port, f.scheme, f.mark>>
    [] f.module = "api_security" -> <<"api_security", f.rule, f.scheme, f.path>>
    [] f.module = "supply_chain" -> <<"supply_chain", FirstOf(f.cve, f.component), f.artifact>>
    [] OTHER -> <<>>

\* The identity of a finding across scans.
Fingerprint(f) ==
  IF Key(f) # <<>> THEN Key(f)
  ELSE <<"fallback", f.module, f.tool, f.file, f.line, FirstOf(f.cve, NoText),
         f.check, f.host, f.title>>

MergeScore(f) == <<f.cvss, IF f.fix THEN 1 ELSE 0>>
Above(s, t) == s[1] > t[1] \/ (s[1] = t[1] /\ s[2] > t[2])

\* The values of both, each once.
Union(s, t) ==
  LET all == s \o t
      out[n \in 0..Len(all)] ==
        IF n = 0 THEN <<>>
        ELSE IF all[n] \in ToSet(out[n - 1]) THEN out[n - 1]
        ELSE Append(out[n - 1], all[n])
  IN out[Len(all)]

KeepsItsOwn(winner, loser) ==
  [winner EXCEPT !.cvss = Most(winner.cvss, loser.cvss),
                 !.tools = @ \cup loser.tools]

\* The winner keeps its severity, title and place, and takes over the identifiers.
MergePair(winner, loser) ==
  [winner EXCEPT !.cve = Union(@, loser.cve), !.cwe = Union(@, loser.cwe),
                 !.cvss = Most(@, loser.cvss), !.tools = @ \cup loser.tools]

\* The best come first, findings that are as good stay in the order of the collectors.
Before(findings, j, k) ==
  LET s == MergeScore(findings[j])
      t == MergeScore(findings[k])
  IN Above(s, t) \/ (~Above(t, s) /\ j < k)

\* The findings of a group, which is a set of places in findings, in this order.
Sorted(findings, group) ==
  LET place(k) == Cardinality({j \in group : Before(findings, j, k)}) + 1
  IN [n \in 1..Cardinality(group) |-> findings[CHOOSE k \in group : place(k) = n]]

\* A group becomes one finding.
MergeGroup(findings, group) ==
  LET sorted == Sorted(findings, group)
      merged[n \in DOMAIN sorted] ==
        IF n = 1 THEN sorted[1] ELSE MergePair(merged[n - 1], sorted[n])
  IN merged[Cardinality(group)]

\* A sequence of findings, the unkeyed ones as they are.
Dedup(findings) ==
  LET having(key) == {k \in DOMAIN findings : Key(findings[k]) = key}
      keys == {Key(findings[k]) : k \in DOMAIN findings} \ {<<>>}
  IN {findings[k] : k \in having(<<>>)}
     \cup {MergeGroup(findings, having(key)) : key \in keys}

-----------------------------------------------------------------------------
(* core/risk_engine.py, core/epss_provider.py and supply_chain/vex.py       *)

EpssFloor == 5

\* The provider is asked within the running event loop, where it answers from what it
\* holds in the process; nothing was loaded into that before.
Get(epss, warm, cve) == IF cve \in warm THEN epss[cve] ELSE 0

EffectiveEpss(f, epss, warm) ==
  LET known == {Get(epss, warm, f.cve[k]) : k \in DOMAIN f.cve} \cup {EpssFloor}
  IN CHOOSE e \in known : \A d \in known : d <= e

SeverityToCvss(severity) == <<10, 30, 50, 75, 95>>[severity + 1]

\* cvss * epss * criticality / 5 * exposure
Score(f, asset, epss, warm) ==
  LET cvss == IF f.cvss = 0 THEN SeverityToCvss(f.severity) ELSE f.cvss
  IN Least((cvss * EffectiveEpss(f, epss, warm) * asset.criticality * asset.exposure)
             \div 50, 10000)

Bucket(score) ==
  IF score >= 7000 THEN "P0" ELSE IF score >= 4500 THEN "P1"
  ELSE IF score >= 2000 THEN "P2" ELSE IF score >= 500 THEN "P3" ELSE "P4"

LooksAtFirst(f, asset, epss, warm, kev) ==
  LET base == Score(f, asset, epss, warm)
      score == IF FirstOf(f.cve, NoText) \in kev THEN Most(base, 7000) ELSE base
  IN [f EXCEPT !.score = score, !.bucket = Bucket(score)]

\* The score, and the floor of what is known to be exploited.
Enrich(f, asset, epss, warm, kev) ==
  LET base == Score(f, asset, epss, warm)
      score == IF \E k \in DOMAIN f.cve : f.cve[k] \in kev THEN Most(base, 7000) ELSE base
  IN [f EXCEPT !.score = score, !.bucket = Bucket(score)]

NotAffected == {"not_affected", "resolved", "fixed"}

\* A VEX file gives CVEs a state; one that cannot be read gives none.  Of two files
\* about a CVE the later one counts.
Statuses(files) ==
  LET says(k, cve) == cve \in DOMAIN files[k]
      last(cve) == CHOOSE k \in DOMAIN files :
                     says(k, cve) /\ \A j \in DOMAIN files : says(j, cve) => j <= k
  IN [cve \in UNION {DOMAIN files[k] : k \in DOMAIN files} |-> files[last(cve)][cve]]

\* The statement about the first of its CVEs that has one decides.
Vex(f, statuses) ==
  LET with == {k \in DOMAIN f.cve : f.cve[k] \in DOMAIN statuses}
      suppressed == \E k \in with : /\ \A j \in with : k <= j
                                     /\ statuses[f.cve[k]] \in NotAffected
  IN IF suppressed THEN [f EXCEPT !.severity = Info, !.score = 0, !.bucket = "P4"] ELSE f
=============================================================================
