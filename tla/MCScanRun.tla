------------------------------ MODULE MCScanRun ------------------------------
(* Small instances of ScanRun for TLC. *)
EXTENDS ScanRun

\* Two issues at neighbouring places of one file, package and resource, of which the
\* second is the worse one for the collectors that look at severity and the first for
\* those that look at CVSS.
TwoIssues ==
  <<[cves |-> <<"CVE-1", "CVE-2">>, advisory |-> "GHSA-1", pkg |-> "lib",
     version |-> "1.0", fix |-> TRUE, severity |-> High, cvss |-> 75,
     cwes |-> <<"CWE-89">>, file |-> "app.py", line |-> 10, rule |-> "rule",
     family |-> "aws", sure |-> TRUE, resource |-> "web", host |-> "www",
     port |-> "443", method |-> "GET"],
    [cves |-> <<"CVE-1">>, advisory |-> "GHSA-2", pkg |-> "lib", version |-> NoText,
     fix |-> FALSE, severity |-> Critical, cvss |-> 0, cwes |-> <<"CWE-89">>,
     file |-> "app.py", line |-> 12, rule |-> "rule", family |-> "aws",
     sure |-> FALSE, resource |-> "web", host |-> "www", port |-> "443",
     method |-> "GET"]>>

ProdAsset == [criticality |-> 5, exposure |-> 10]
Feed == ("CVE-1" :> 97 @@ "CVE-2" :> 3)

\* None, one, and one that a later file takes back.
Statements ==
  LET excused == ("CVE-1" :> "not_affected")
  IN {<<>>, <<excused>>, <<excused, ("CVE-1" :> "affected")>>}
=============================================================================
