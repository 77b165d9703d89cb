------------------------------- MODULE ScanRun -------------------------------
(***************************************************************************)
(* A scan from its collectors to the rows it hands to reconciliation: the  *)
(* composition of Collectors and Corroboration that Orchestrator.run in    *)
(* core/orchestrator.py is.  What follows the last answer -- merging,      *)
(* scoring, suppression -- runs without an await, so it is one step.       *)
(*                                                                         *)
(* FindingLifecycle goes on from the rows.                                 *)
(***************************************************************************)
EXTENDS Collectors, Corroboration

CONSTANTS
  Issues,     \* what is there to be seen: a sequence, Records its indices
  Asset,      \* criticality and exposure of the scanned asset
  Epss,       \* the EPSS that the feed has of each CVE
  Exploited,  \* the CVEs of the KEV catalogue
  VexFiles    \* the sequences of VEX files that a request may come with

Issue ==
  [cves : Seq(STRING), advisory : STRING, pkg : STRING, version : STRING, fix : BOOLEAN,
   severity : Info..Critical, cvss : Nat, cwes : Seq(STRING), file : STRING, line : Nat,
   rule : STRING, family : STRING, sure : BOOLEAN, resource : STRING, host : STRING,
   port : STRING, method : STRING]

ASSUME ScanRunAssumption ==
  /\ Issues \in Seq(Issue) \ {<<>>} /\ Records = DOMAIN Issues
  /\ Asset \in [criticality : Nat, exposure : Nat]

VARIABLE rows  \* what the run hands over, and what it knew of CVEs

scanVars == <<vars, rows>>

ScanInit == Init /\ rows = [kev |-> {}, vex |-> <<>>, findings |-> {}]

\* All records there can be, in the order of calls, targets and output.
Places ==
  FlattenSeq([i \in CallIds |->
    FlattenSeq([t \in Targets |->
      [n \in 1..(Len(Issues) + 1) |-> <<i, <<t, IF n = 1 THEN None ELSE n - 1>>>>]])])

\* A record of a call as findings.
Artifact(t) == <<"first", "second", "third">>[t]
Normalised(i, fact) ==
  FindingsOf(call[i].tool, run.kind, Artifact(fact[1]),
             IF fact[2] = None THEN Head(Issues) ELSE Issues[fact[2]])

\* The findings of a run, put together in the order of its collectors.
Raw(facts) ==
  FlattenSeq([n \in DOMAIN Places |->
    IF Places[n] \in facts THEN Normalised(Places[n][1], Places[n][2]) ELSE <<>>])

\* No EPSS was loaded before it is asked for.
Warm == {}

Rows(facts, kev, vex) ==
  {Vex(Enrich(f, Asset, Epss, Warm, kev), vex) : f \in Dedup(Raw(facts))}

\* The catalogue of exploited CVEs, from a file, the cache or the feed; none if it is
\* out of reach.
Catalogues == {Exploited, {}}

Report ==
  /\ Gather
  /\ \E kev \in Catalogues, files \in VexFiles :
       LET vex == Statuses(files)
       IN rows' = [kev |-> kev, vex |-> vex, findings |-> Rows(run'.findings, kev, vex)]

ScanNext == Report \/ (Collect /\ UNCHANGED rows)

ScanSpec == ScanInit /\ [][ScanNext]_scanVars

\* Reporting takes the place of gathering.
ScanFairSpec == ScanSpec /\ Fairness

-----------------------------------------------------------------------------
(* Properties.                                                             *)

\* Whatever an answered collector's tool wrote is in the rows, or its collector is
\* among the errors: under the identity that its finding has, with its tool, all of
\* its CVEs and at least its CVSS, whoever else saw the same and won the merge.
EveryRecordIsReported ==
  run.stage = "reported" =>
    \A i \in DOMAIN call :
      call[i].stage = "answered" /\ call[i].tool \notin Lenient /\ i \notin run.errors =>
        \A fact \in call[i].wrote : \A f \in ToSet(Normalised(i, fact)) :
          \E m \in rows.findings :
            /\ Fingerprint(m) = Fingerprint(f) /\ f.tool \in m.tools
            /\ ToSet(f.cve) \subseteq ToSet(m.cve) /\ f.cvss <= m.cvss

Excused(m) ==
  \E c \in ToSet(m.cve) \cap DOMAIN rows.vex : rows.vex[c] \in NotAffected

\* "a KEV-listed or actively exploited finding cannot sit below P0": also if the CVE
\* came from a collector whose finding lost the merge, or is not its first.  Only a
\* VEX statement, about any CVE of the row, outranks the catalogue.
ExploitedIsUrgent ==
  run.stage = "reported" =>
    \A f \in ToSet(Raw(run.findings)) :
      ToSet(f.cve) \cap rows.kev # {} =>
        \E m \in rows.findings :
          /\ Fingerprint(m) = Fingerprint(f)
          /\ m.bucket = "P0" \/ Excused(m)

\* FEATURES.md: "CVSS x EPSS x business context produces ~50 actionable P0s": the
\* score of a row takes account of what the feed knows of its CVEs.
EpssIsUsed ==
  \A m \in rows.findings :
    ~Excused(m) => m.score >= Score(m, Asset, Epss, DOMAIN Epss)

-----------------------------------------------------------------------------
(* The inductive invariant.                                                *)

\* The rows are those of the findings of the run, by what was known of CVEs.
RowsInv ==
  run.stage = "reported" =>
    \E kev \in Catalogues, files \in VexFiles :
      rows = [kev |-> kev, vex |-> Statuses(files),
              findings |-> Rows(run.findings, kev, Statuses(files))]

ScanInv == IInv /\ RowsInv
=============================================================================
