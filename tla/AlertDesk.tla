------------------------------ MODULE AlertDesk ------------------------------
(***************************************************************************)
(* What becomes of alerts in the control plane: detections of store.ingest *)
(* and health alerts of maintenance.monitor_health, analysts who review    *)
(* and suppress them and work on an incident (operations_api.py), and      *)
(* maintenance.prune, which deletes what is old.                           *)
(*                                                                         *)
(* Alerts are numbered as they are made.  The id of a row is something     *)
(* else: SQLite gives out the largest one plus one, hence again an id      *)
(* whose alert was deleted.  A handler is one step unless its check stands *)
(* outside the transaction that writes.  Notifications are owed until they *)
(* are delivered, which Outbox has in detail.                              *)
(*                                                                         *)
(* A definition standing before the one whose parameters it shares, and    *)
(* used nowhere, is a mutated form of it (PROJECT.json, "mutants").        *)
(***************************************************************************)
EXTENDS Naturals, Sequences, FiniteSets, FiniteSetsExt, SequencesExt

CONSTANTS
  Watched,    \* what monitor_health watches: "agent", and sensors of the host
  Analysts,
  MaxAlerts,  \* bounds: alerts,
  MaxEdits,   \* the last version of the incident that is loaded for a change,
  MaxReviews  \* and reviews

ASSUME DeskAssumption ==
  /\ IsFiniteSet(Watched) /\ "agent" \in Watched
  /\ MaxAlerts \in Nat /\ MaxEdits \in Nat /\ MaxReviews \in Nat

VARIABLES
  alerts,    \* the alerts table, by id
  made,      \* number of alerts so far
  reviews,   \* alert_reviews, by id of the alert
  incident,  \* the incident: its version, alerts, and what each change was based on
  owed,      \* notifications that are not delivered yet
  page,      \* what each analyst has in hand
  health,    \* maintenance_health
  host,      \* the watched host: enrolment, which of Watched there are and are heard
  overtaken, \* whether a prune came between the check and the write of a review
  reported,  \* those whose present outage had its health alert
  reviewed

vars == <<alerts, made, reviews, incident, owed, page, health, host, overtaken,
          reported, reviewed>>

Ids == 1..MaxAlerts
NoAlert == [number |-> 0]
NoReview == [of |-> 0, verdict |-> "open"]
Blank == [at |-> "away", ref |-> 0, number |-> 0]
Exists(id) == alerts[id] # NoAlert

Init ==
  /\ alerts = [i \in Ids |-> NoAlert] /\ made = 0
  /\ reviews = [i \in Ids |-> NoReview]
  /\ incident = [version |-> 0, of |-> {}, basis |-> <<>>]
  /\ owed = {}
  /\ page = [a \in Analysts |-> Blank]
  /\ health = [k \in Watched |-> [id |-> 0, number |-> 0, active |-> FALSE]]
  /\ host = [enrolled |-> TRUE, young |-> FALSE, known |-> Watched, heard |-> Watched]
  /\ overtaken = FALSE /\ reported = {} /\ reviewed = 0

-----------------------------------------------------------------------------
(* New alerts.                                                             *)

\* The id of the n-th row that is inserted next.
NewId(n) == Max({0} \cup {i \in Ids : Exists(i)}) + n

\* record_operational_alert: a suppressed alert notifies nobody.  Suppressions are
\* made, revoked and expire at any time, so one may cover an alert or not.
Announcements(n) == SUBSET (1..n)

NewRow(m) == [id |-> NewId(m), number |-> made + m]

\* Inserts n alerts, with their notifications.
Insert(n) ==
  /\ made + n <= MaxAlerts
  /\ made' = made + n
  /\ alerts' = [i \in Ids |->
       IF i \in NewId(1)..NewId(n) THEN [number |-> made + i - NewId(0), old |-> FALSE]
                                   ELSE alerts[i]]
  /\ \E announced \in Announcements(n) :
       owed' = owed \cup {[about |-> "alert", row |-> NewRow(m)] : m \in announced}

\* ingest makes one alert of a kind in five minutes; whether five minutes have passed
\* since the last one is left open.
Detect ==
  /\ Insert(1)
  /\ UNCHANGED <<reviews, incident, page, health, host, overtaken, reported,
                 reviewed>>

\* The days of retention pass.
Age(i) ==
  /\ Exists(i) /\ ~alerts[i].old
  /\ alerts' = [alerts EXCEPT ![i].old = TRUE]
  /\ UNCHANGED <<made, reviews, incident, owed, page, health, host, overtaken,
                 reported, reviewed>>

\* deliver_pending: the webhook took it; one that it refused stays in the table.
Settle(t) ==
  /\ owed' = owed \ {t}
  /\ UNCHANGED <<alerts, made, reviews, incident, page, health, host,
                 overtaken, reported, reviewed>>

-----------------------------------------------------------------------------
(* The host and its health.                                                *)

Calm == <<alerts, made, reviews, incident, owed, page, health, overtaken,
          reviewed>>

\* Nothing is received for stale_seconds: of a sensor, or of the agent and with it
\* of all its sensors.
Silence(k) ==
  /\ host.enrolled /\ k \in host.heard
  /\ host' = [host EXCEPT !.heard = IF k = "agent" THEN {} ELSE @ \ {k}]
  /\ UNCHANGED <<Calm, reported>>

\* A batch of the host with an event that is recent, perhaps a sensor's status.
Telemetry(k) ==
  LET keys == {"agent", k}
  IN /\ host.enrolled /\ ~(keys \subseteq host.heard)
     /\ host' = [host EXCEPT !.heard = @ \cup keys, !.known = @ \cup keys]
     /\ reported' = reported \ keys
     /\ UNCHANGED Calm

Revoke ==
  /\ host.enrolled
  /\ host' = [host EXCEPT !.enrolled = FALSE, !.young = FALSE, !.heard = {}]
  /\ UNCHANGED <<Calm, reported>>

\* enrollment_token and enroll: nothing was heard from the host yet, and it has no
\* sensors until it reports them.
Enroll ==
  /\ ~host.enrolled
  /\ host' = [host EXCEPT !.enrolled = TRUE, !.young = TRUE, !.known = {"agent"}]
  /\ UNCHANGED <<Calm, reported>>

\* grace_seconds after the enrolment.
GrowUp ==
  /\ host.young
  /\ host' = [host EXCEPT !.young = FALSE]
  /\ UNCHANGED <<Calm, reported>>

Down ==
  IF host.enrolled /\ ~host.young THEN host.known \ host.heard ELSE {}

\* Those that have no health alert yet.
NewlyDown == {k \in Down : ~health[k].active}

NotDown == {k \in Watched : health[k].active /\ k \notin Down}

\* "Revocation is not recovery: only fresh observed telemetry clears visibility alerts."
Recovered ==
  {k \in Watched : /\ health[k].active /\ k \notin Down
                   /\ host.enrolled /\ {"agent", k} \subseteq host.heard}

\* Recovery decides what no analyst has decided.
ReviewsOnRecovery ==
  [i \in Ids |->
     IF \E k \in Recovered : health[k].id = i /\ reviews[i].verdict = "open"
     THEN [of |-> (CHOOSE h \in {health[k] : k \in Recovered} : h.id = i).number,
           verdict |-> "closed"]
     ELSE reviews[i]]

\* monitor_health, one transaction.
MonitorHealth ==
  /\ NewlyDown \cup Recovered # {}
  /\ LET new == SetToSeq(NewlyDown)
     IN /\ Insert(Len(new))
        /\ health' = [k \in Watched |->
             IF k \in NewlyDown
             THEN LET row == NewRow(CHOOSE n \in DOMAIN new : new[n] = k)
                  IN [id |-> row.id, number |-> row.number, active |-> TRUE]
             ELSE [health[k] EXCEPT !.active = @ /\ k \notin Recovered]]
  /\ reviews' = ReviewsOnRecovery
  /\ reported' = reported \cup NewlyDown
  /\ UNCHANGED <<incident, page, host, overtaken, reviewed>>

-----------------------------------------------------------------------------
(* Analysts.                                                               *)

\* review checks that the alert exists,
CheckReview(a, i) ==
  /\ page[a] = Blank /\ Exists(i) /\ reviewed < MaxReviews
  /\ reviewed' = reviewed + 1
  /\ page' = [page EXCEPT ![a] = [at |-> "review", ref |-> i, number |-> alerts[i].number]]
  /\ UNCHANGED <<alerts, made, reviews, incident, owed, health, host,
                 overtaken, reported>>

\* and then writes; the check stands before the transaction.
WriteReview(a) ==
  /\ page[a].at = "review"
  /\ \E v \in {"open", "closed"} :
       reviews' = [reviews EXCEPT ![page[a].ref] = [of |-> page[a].number, verdict |-> v]]
  /\ page' = [page EXCEPT ![a] = Blank]
  /\ UNCHANGED <<alerts, made, incident, owed, health, host, overtaken,
                 reported, reviewed>>

Announce(version) == owed' = owed \cup {[about |-> "incident", version |-> version]}

\* create_incident, one BEGIN IMMEDIATE transaction; one incident.
CreateIncident(ids) ==
  /\ incident.version = 0 /\ ids # {} /\ \A i \in ids : Exists(i)
  /\ incident' = [version |-> 1, basis |-> <<>>,
                  of |-> {[id |-> i, number |-> alerts[i].number] : i \in ids}]
  /\ Announce(1)
  /\ UNCHANGED <<alerts, made, reviews, page, health, host, overtaken,
                 reported, reviewed>>

\* incidents and timeline: an analyst loads the incident to work on it.
Load(a) ==
  /\ page[a] = Blank /\ incident.version \in 1..MaxEdits
  /\ page' = [page EXCEPT ![a] = [at |-> "incident", ref |-> incident.version, number |-> 0]]
  /\ UNCHANGED <<alerts, made, reviews, incident, owed, health, host,
                 overtaken, reported, reviewed>>

LastOneWins(a) == incident.version > 0

\* The version that was loaded is still the one in the table, or 409.
IsCurrent(a) == incident.version = page[a].ref

\* update_incident, one BEGIN IMMEDIATE transaction.
UpdateIncident(a) ==
  /\ page[a].at = "incident"
  /\ page' = [page EXCEPT ![a] = Blank]
  /\ IF IsCurrent(a)
     THEN /\ incident' = [incident EXCEPT !.version = @ + 1,
                                          !.basis = Append(@, page[a].ref)]
          /\ Announce(incident'.version)
     ELSE UNCHANGED <<incident, owed>>
  /\ UNCHANGED <<alerts, made, reviews, health, host, overtaken, reported,
                 reviewed>>

-----------------------------------------------------------------------------
(* maintenance.prune.                                                      *)

InIncident == {r.id : r \in incident.of}
InHealth == {health[k].id : k \in {k \in Watched : health[k].active}}

OwedAlerts == {t.row : t \in {t \in owed : t.about = "alert"}}
InNotices == {row.id : row \in OwedAlerts}

ProtectsNoNotices == InIncident \cup InHealth

\* protected_alerts, as far as these tables go.
Protected == InIncident \cup InHealth \cup InNotices

KeepsReviews(gone) == reviews

ReviewsAfter(gone) == [i \in Ids |-> IF i \in gone THEN NoReview ELSE reviews[i]]

\* One BEGIN IMMEDIATE transaction.
Prune ==
  LET gone == {i \in Ids : Exists(i) /\ alerts[i].old} \ Protected
  IN /\ gone # {}
     /\ alerts' = [i \in Ids |-> IF i \in gone THEN NoAlert ELSE alerts[i]]
     /\ reviews' = ReviewsAfter(gone)
     /\ overtaken' = (overtaken \/ \E a \in Analysts :
                        page[a].at = "review" /\ page[a].ref \in gone)
     /\ UNCHANGED <<made, incident, owed, page, health, host, reported,
                    reviewed>>

-----------------------------------------------------------------------------
Next ==
  \/ \E i \in Ids : Age(i)
  \/ \E k \in Watched : Silence(k) \/ Telemetry(k)
  \/ \E t \in owed : Settle(t)
  \/ Detect \/ Revoke \/ Enroll \/ GrowUp \/ MonitorHealth \/ Prune
  \/ \E a \in Analysts : \/ WriteReview(a) \/ Load(a) \/ UpdateIncident(a)
                         \/ \E i \in Ids : CheckReview(a, i)
  \/ \E ids \in SUBSET Ids : CreateIncident(ids)

Spec == Init /\ [][Next]_vars

-----------------------------------------------------------------------------
(* Properties.                                                             *)

Reference == [id : Ids, number : Nat \ {0}]

AlertsOK ==
  /\ made \in 0..MaxAlerts
  /\ alerts \in [Ids -> [number : Nat \ {0}, old : BOOLEAN] \cup {NoAlert}]
  /\ \A i \in Ids : Exists(i) => i <= made
ReviewsOK == reviews \in [Ids -> [of : Nat, verdict : {"open", "closed"}]]
IncidentOK == incident \in [version : Nat, of : SUBSET Reference, basis : Seq(Nat)]
OwedOK == \A t \in owed : t.about = "alert" => t.row \in Reference
PagesOK ==
  /\ page \in [Analysts -> [at : {"away", "review", "incident"}, ref : Nat, number : Nat]]
  /\ \A a \in Analysts : page[a].at = "review" => page[a].ref \in Ids
HealthOK ==
  /\ health \in [Watched -> [id : Nat, number : Nat, active : BOOLEAN]]
  /\ \A k \in Watched : health[k].active => health[k].id \in Ids /\ health[k].number # 0
HostOK ==
  host \in [enrolled : BOOLEAN, young : BOOLEAN, known : SUBSET Watched,
            heard : SUBSET Watched]

TypeOK ==
  /\ AlertsOK /\ ReviewsOK /\ IncidentOK /\ OwedOK /\ PagesOK /\ HealthOK /\ HostOK
  /\ overtaken \in BOOLEAN

\* "explicit maintenance protects incident-linked evidence": what the incident, an
\* active health alert or a notification that is still on its way refers to is in the
\* table, and is the alert it referred to and not a later one under the same id.
Refers(id, number) == alerts[id].number = number
EvidenceIsKept ==
  /\ \A r \in incident.of : Refers(r.id, r.number)
  /\ \A k \in Watched : health[k].active => Refers(health[k].id, health[k].number)
  /\ \A row \in OwedAlerts : Refers(row.id, row.number)

\* A verdict that the table has about an alert was given on that alert, although its
\* id may have been that of an earlier one.  Not if a review's check and its write
\* are on different sides of a prune.
VerdictIsOnThisAlert ==
  ~overtaken => \A i \in Ids : Exists(i) => reviews[i].of \in {0, alerts[i].number}

\* "incident was changed; reload before updating": no change of the incident is made
\* by somebody who had not seen the one before, whoever else is at it.
NoChangeIsLost ==
  /\ incident.version > 0 => incident.version = Len(incident.basis) + 1
  /\ \A n \in DOMAIN incident.basis : incident.basis[n] = n

\* However often the monitor runs, the host is revoked, enrolled again and still not
\* heard from, an outage is reported by one alert.
OneAlertPerOutage ==
  [][\A k \in Watched : health'[k].number # health[k].number => k \notin reported]_vars
=============================================================================
