--------------------------- MODULE Operations_proofs ---------------------------
(***************************************************************************)
(* Proofs about AlertDesk, for any sensors, analysts and bounds, and about *)
(* Outbox, for any workers, notifications and faults.                      *)
(***************************************************************************)
EXTENDS AlertDesk, Outbox, FiniteSetTheorems, TLAPS

(***************************************************************************)
(* AlertDesk.                                                              *)
(***************************************************************************)

\* Unless a prune overtook a review, verdicts are on the alerts that have their ids, and
\* so will be the ones that analysts are about to give.
VerdictInv ==
  ~overtaken =>
    /\ \A i \in Ids : reviews[i].of \in {0, alerts[i].number}
    /\ \A a \in Analysts : page[a].at = "review" =>
         page[a].number # 0 /\ alerts[page[a].ref].number = page[a].number

\* There is nothing to load before there is an incident.
EditInv ==
  /\ NoChangeIsLost
  /\ incident.version = 0 =>
       incident.basis = <<>> /\ \A a \in Analysts : page[a].at # "incident"

\* An outage that was reported has its active alert and was not heard to end.
OutageInv ==
  \A k \in reported : k \in Watched /\ health[k].active /\ k \notin host.heard

IInv == TypeOK /\ EvidenceIsKept /\ VerdictInv /\ EditInv /\ OutageInv

-----------------------------------------------------------------------------
(* Ids and numbers.                                                        *)

\* A bounded set of numbers that is not empty has a largest one.
LEMMA MaxOf ==
  ASSUME NEW n \in Nat, NEW S, S \subseteq 0..n, S # {}
  PROVE  Max(S) \in S /\ \A x \in S : x <= Max(S)
<1> DEFINE T == {n - x : x \in S}
<1>1. T \subseteq Nat /\ T # {}
  <2>1. \A x \in S : n - x \in Nat
    OBVIOUS
  <2> QED
    BY <2>1
<1>2. PICK m \in T : \A y \in T : ~(<<y, m>> \in OpToRel(<, Nat))
  <2> HIDE DEF T
  <2> QED
    BY <1>1, NatLessThanWellFounded, WFMin
<1>3. \A y \in T : y >= m
  <2> SUFFICES ASSUME NEW y \in T, y < m PROVE FALSE
    BY <1>1
  <2>1. <<y, m>> \in OpToRel(<, Nat)
    BY <1>1 DEF OpToRel
  <2> QED
    BY <1>2, <2>1
<1>4. PICK z \in S : m = n - z
  BY <1>2
<1>5. \A y \in S : z >= y
  BY <1>3, <1>4
<1> QED
  BY <1>4, <1>5 DEF Max

\* An id has an alert exactly if the number there is not zero.
LEMMA Numbers ==
  ASSUME AlertsOK, NEW i \in Ids
  PROVE  /\ alerts[i].number \in Nat /\ (Exists(i) <=> alerts[i].number # 0)
         /\ Exists(i) => alerts[i] \in [number : Nat \ {0}, old : BOOLEAN]
<1> QED
  BY DEF AlertsOK, Exists, NoAlert

\* The ids of alerts that come next.
LEMMA NewIds ==
  ASSUME AlertsOK
  PROVE  /\ NewId(0) \in 0..made /\ \A n \in Nat : NewId(n) = NewId(0) + n
         /\ \A i \in Ids : Exists(i) => i <= NewId(0)
<1> DEFINE S == {0} \cup {i \in Ids : Exists(i)}
<1>1. made \in Nat /\ S \subseteq 0..made /\ 0 \in S
  BY DeskAssumption DEF AlertsOK, Ids
<1> HIDE DEF S
<1>2. PICK top \in S : top = Max(S) /\ \A x \in S : x <= top
  BY <1>1, MaxOf
<1>3. \A n \in Nat : NewId(n) = top + n
  BY <1>2 DEF NewId, S
<1>4. \A i \in Ids : Exists(i) => i \in S
  BY DEF S
<1>5. top \in 0..made
  BY <1>1, <1>2
<1>6. NewId(0) = top
  BY <1>3, <1>5
<1> QED
  BY <1>2, <1>3, <1>4, <1>5, <1>6

\* What Insert leaves alone, and what it adds.
LEMMA Inserted ==
  ASSUME AlertsOK, OwedOK, NEW n \in Nat, Insert(n)
  PROVE  /\ AlertsOK' /\ OwedOK'
         /\ \A i \in Ids : Exists(i) => alerts'[i] = alerts[i]
         /\ \A m \in 1..n : NewRow(m) \in Reference
                            /\ alerts'[NewRow(m).id].number = NewRow(m).number
         /\ \A t \in owed' :
              t \in owed \/ \E m \in 1..n : t.about = "alert" /\ t.row = NewRow(m)
<1>1. /\ NewId(0) \in 0..made /\ \A m \in Nat : NewId(m) = NewId(0) + m
      /\ \A i \in Ids : Exists(i) => i <= NewId(0)
  BY NewIds
<1>2. /\ made' = made + n /\ made + n <= MaxAlerts
      /\ alerts' = [i \in Ids |->
           IF i \in NewId(1)..NewId(n)
           THEN [number |-> made + i - NewId(0), old |-> FALSE] ELSE alerts[i]]
      /\ \E announced \in Announcements(n) :
           owed' = owed \cup {[about |-> "alert", row |-> NewRow(m)] : m \in announced}
  BY DEF Insert
<1>3. made \in Nat /\ MaxAlerts \in Nat /\ NewId(1) = NewId(0) + 1 /\ NewId(n) = NewId(0) + n
  BY <1>1, DeskAssumption DEF AlertsOK
<1>4. \A i \in Ids : Exists(i) => alerts'[i] = alerts[i]
  BY <1>1, <1>2, <1>3 DEF Ids
<1>5. \A i \in Ids :
        /\ i \in NewId(1)..NewId(n) =>
             alerts'[i] \in [number : Nat \ {0}, old : BOOLEAN] /\ i <= made'
        /\ i \notin NewId(1)..NewId(n) => alerts'[i] = alerts[i]
  <2>1. \A i \in Ids : i \in NewId(1)..NewId(n) =>
          made + i - NewId(0) \in Nat \ {0} /\ i <= made + n
    BY <1>1, <1>3 DEF Ids
  <2> QED
    BY <1>2, <2>1
<1>6. AlertsOK'
  <2>1. made' \in 0..MaxAlerts
    BY <1>2, <1>3
  <2>2. alerts' \in [Ids -> [number : Nat \ {0}, old : BOOLEAN] \cup {NoAlert}]
    BY <1>2, <1>5 DEF AlertsOK
  <2>3. \A i \in Ids : alerts'[i] # NoAlert => i <= made'
    <3> SUFFICES ASSUME NEW i \in Ids, alerts'[i] # NoAlert PROVE i <= made'
      OBVIOUS
    <3>1. CASE i \in NewId(1)..NewId(n)
      BY <1>5, <3>1
    <3>2. CASE i \notin NewId(1)..NewId(n)
      <4>1. i <= made
        BY <1>5, <3>2 DEF AlertsOK, Exists
      <4> QED
        BY <1>2, <1>3, <4>1 DEF Ids
    <3> QED
      BY <3>1, <3>2
  <2> QED
    BY <2>1, <2>2, <2>3 DEF AlertsOK, Exists
<1>7. ASSUME NEW m \in 1..n
      PROVE  NewRow(m) \in Reference /\ alerts'[NewRow(m).id].number = NewRow(m).number
  <2>1. NewRow(m) = [id |-> NewId(0) + m, number |-> made + m]
    BY <1>1 DEF NewRow
  <2> DEFINE top == NewId(0)
  <2>a. top \in 0..made /\ NewId(1) = top + 1 /\ NewId(n) = top + n
    BY <1>1, <1>3
  <2> HIDE DEF top
  <2>b. top + m \in 1..MaxAlerts /\ top + m \in (top + 1)..(top + n)
    BY <1>2, <1>3, <2>a
  <2>2. NewId(0) + m \in Ids /\ NewId(0) + m \in NewId(1)..NewId(n)
    BY <2>a, <2>b DEF Ids, top
  <2>3. alerts'[NewId(0) + m].number = made + (NewId(0) + m) - NewId(0)
    BY <1>2, <2>2
  <2>4. made + (NewId(0) + m) - NewId(0) = made + m /\ made + m \in Nat \ {0}
    BY <1>1, <1>3
  <2> QED
    BY <2>1, <2>2, <2>3, <2>4 DEF Reference
<1>8. \A t \in owed' :
        t \in owed \/ \E m \in 1..n : t.about = "alert" /\ t.row = NewRow(m)
  BY <1>2 DEF Announcements
<1>9. OwedOK'
  BY <1>7, <1>8 DEF OwedOK
<1> QED
  BY <1>4, <1>6, <1>7, <1>8, <1>9

\* The new health alerts of MonitorHealth, in some order.
LEMMA Monitored ==
  ASSUME TypeOK, MonitorHealth
  PROVE  \E n \in Nat :
           /\ Insert(n)
           /\ \A k \in NewlyDown : \E m \in 1..n :
                health'[k] = [id |-> NewRow(m).id, number |-> NewRow(m).number,
                              active |-> TRUE]
           /\ DOMAIN health' = Watched
           /\ health' = [k \in Watched |-> health'[k]]
           /\ \A k \in Watched \ NewlyDown :
                /\ health'[k].id = health[k].id /\ health'[k].number = health[k].number
                /\ health'[k].active <=> health[k].active /\ k \notin Recovered
                /\ health'[k] \in [id : Nat, number : Nat, active : BOOLEAN]
<1> DEFINE new == SetToSeq(NewlyDown)
           n == Cardinality(NewlyDown)
           number(k) == CHOOSE m \in DOMAIN new : new[m] = k
           kept(k) == [health[k] EXCEPT !.active = @ /\ k \notin Recovered]
<1>1. NewlyDown \subseteq Watched
  BY DEF NewlyDown, Down, TypeOK, HostOK
<1>2. IsFiniteSet(NewlyDown)
  BY <1>1, DeskAssumption, FS_Subset
<1>3. n \in Nat /\ Bijection(1..n, NewlyDown) # {}
  BY <1>2, FS_CardinalityType DEF ExistsBijection
<1>4. \E f \in [1..n -> NewlyDown] : IsInjective(f)
  BY <1>3 DEF Bijection, Injection
<1>5. new \in [1..n -> NewlyDown] /\ IsInjective(new)
  BY <1>4 DEF SetToSeq
<1>6. new \in Injection(1..n, NewlyDown)
  BY <1>5 DEF Injection
<1> HIDE DEF new
<1>7. new \in Surjection(1..n, NewlyDown)
  <2>1. Cardinality(1..n) = n
    BY <1>3, FS_Interval
  <2> QED
    BY <1>2, <1>6, <2>1, FS_Injection
<1>8. DOMAIN new = 1..n /\ Len(new) = n
  BY <1>3, <1>5
<1>9. \A k \in NewlyDown : number(k) \in 1..n
  BY <1>7, <1>8 DEF Surjection
<1>10. /\ Insert(Len(new))
       /\ health' = [k \in Watched |->
            IF k \in NewlyDown
            THEN [id |-> NewRow(number(k)).id, number |-> NewRow(number(k)).number,
                  active |-> TRUE]
            ELSE kept(k)]
  BY DEF MonitorHealth, new
<1>11. \A k \in Watched :
         /\ kept(k) \in [id : Nat, number : Nat, active : BOOLEAN]
         /\ kept(k).id = health[k].id /\ kept(k).number = health[k].number
         /\ kept(k).active <=> health[k].active /\ k \notin Recovered
  <2> SUFFICES ASSUME NEW k \in Watched
               PROVE  /\ kept(k) \in [id : Nat, number : Nat, active : BOOLEAN]
                      /\ kept(k).id = health[k].id /\ kept(k).number = health[k].number
                      /\ kept(k).active <=> health[k].active /\ k \notin Recovered
    OBVIOUS
  <2>1. health[k] \in [id : Nat, number : Nat, active : BOOLEAN]
    BY DEF TypeOK, HealthOK
  <2>2. (health[k].active /\ k \notin Recovered) \in BOOLEAN
    BY <2>1
  <2> DEFINE b == health[k].active /\ k \notin Recovered
  <2>3. kept(k) = [health[k] EXCEPT !.active = b]
    OBVIOUS
  <2> HIDE DEF b, kept
  <2>4. b \in BOOLEAN
    BY <2>2 DEF b
  <2>5. /\ kept(k) \in [id : Nat, number : Nat, active : BOOLEAN]
        /\ kept(k).id = health[k].id /\ kept(k).number = health[k].number
        /\ kept(k).active = b
    BY <2>1, <2>3, <2>4
  <2> QED
    BY <2>5 DEF b
<1> HIDE DEF number, kept, n
<1>12. \A k \in NewlyDown : \E m \in 1..n :
         health'[k] = [id |-> NewRow(m).id, number |-> NewRow(m).number, active |-> TRUE]
  BY <1>1, <1>9, <1>10
<1>13. \A k \in Watched \ NewlyDown : health'[k] = kept(k)
  BY <1>10
<1>14. DOMAIN health' = Watched /\ health' = [k \in Watched |-> health'[k]]
  BY <1>10
<1> QED
  BY <1>3, <1>8, <1>10, <1>11, <1>12, <1>13, <1>14

-----------------------------------------------------------------------------
(* Types.                                                                  *)

LEMMA InitInv == Init => IInv
<1> SUFFICES ASSUME Init PROVE IInv
  OBVIOUS
<1>1. \A i \in Ids : alerts[i] = NoAlert /\ alerts[i].number = 0
  BY DEF Init, NoAlert
<1>2. AlertsOK
  BY <1>1, DeskAssumption DEF Init, AlertsOK, Exists
<1>3. ReviewsOK /\ IncidentOK /\ OwedOK /\ PagesOK /\ HealthOK /\ HostOK
  BY DEF Init, ReviewsOK, NoReview, IncidentOK, OwedOK, PagesOK, Blank, HealthOK, HostOK
<1>4. EvidenceIsKept
  BY DEF Init, EvidenceIsKept, OwedAlerts
<1>5. VerdictInv /\ OutageInv
  BY DEF Init, VerdictInv, OutageInv, NoReview, Blank
<1>6. EditInv
  BY DEF Init, EditInv, NoChangeIsLost, Blank
<1> QED
  BY <1>2, <1>3, <1>4, <1>5, <1>6 DEF Init, IInv, TypeOK

\* The ways in which the alerts table changes.
LEMMA AlertSteps ==
  ASSUME TypeOK, [Next]_vars
  PROVE  \/ UNCHANGED <<alerts, made>>
         \/ \E i \in Ids : Age(i)
         \/ \E n \in Nat : Insert(n)
         \/ Prune
<1>1. CASE Detect
  BY <1>1 DEF Detect
<1>2. CASE MonitorHealth
  BY <1>2, Monitored
<1>3. CASE [Next]_vars /\ ~Detect /\ ~MonitorHealth
  BY <1>3 DEF Next, vars, Silence, Telemetry, Settle, Revoke, Enroll, GrowUp, Calm,
              WriteReview, Load, UpdateIncident, CheckReview, CreateIncident
<1> QED
  BY <1>1, <1>2, <1>3

\* What pruning leaves.
LEMMA Pruned ==
  ASSUME AlertsOK, Prune
  PROVE  /\ AlertsOK'
         /\ \A i \in Ids : i \in Protected => alerts'[i] = alerts[i]
<1> DEFINE gone == {i \in Ids : Exists(i) /\ alerts[i].old} \ Protected
<1>1. alerts' = [i \in Ids |-> IF i \in gone THEN NoAlert ELSE alerts[i]] /\ made' = made
  BY DEF Prune
<1>2. \A i \in Ids : alerts'[i] = NoAlert \/ alerts'[i] = alerts[i]
  BY <1>1
<1>3. \A i \in Ids : i \in Protected => alerts'[i] = alerts[i]
  BY <1>1
<1> HIDE DEF gone
<1>4. AlertsOK'
  BY <1>1, <1>2 DEF AlertsOK, Exists
<1> QED
  BY <1>3, <1>4

\* An alert that gets old is the same alert.
LEMMA Aged ==
  ASSUME AlertsOK, NEW i \in Ids, Age(i)
  PROVE  /\ AlertsOK'
         /\ \A j \in Ids : alerts'[j].number = alerts[j].number
<1> DEFINE r == [alerts[i] EXCEPT !.old = TRUE]
<1>1. r \in [number : Nat \ {0}, old : BOOLEAN] /\ r.number = alerts[i].number
  BY Numbers DEF Age
<1>2. alerts' = [alerts EXCEPT ![i] = r] /\ made' = made /\ Exists(i)
  BY DEF Age
<1> HIDE DEF r
<1> QED
  BY <1>1, <1>2 DEF AlertsOK, Exists

LEMMA StepAlerts ==
  ASSUME TypeOK, [Next]_vars
  PROVE  AlertsOK'
<1>1. AlertsOK /\ OwedOK
  BY DEF TypeOK
<1>2. CASE UNCHANGED <<alerts, made>>
  BY <1>1, <1>2 DEF AlertsOK, Exists
<1> QED
  BY <1>1, <1>2, AlertSteps, Aged, Pruned, Inserted

\* A review that recovery writes.
LEMMA Recoveries ==
  ASSUME TypeOK, NEW i \in Ids
  PROVE  \/ ReviewsOnRecovery[i] = reviews[i]
         \/ \E k \in Watched :
              /\ health[k].active /\ health[k].id = i
              /\ ReviewsOnRecovery[i] = [of |-> health[k].number, verdict |-> "closed"]
<1> SUFFICES ASSUME \E k \in Recovered : health[k].id = i /\ reviews[i].verdict = "open"
             PROVE  \E k \in Watched :
                      /\ health[k].active /\ health[k].id = i
                      /\ ReviewsOnRecovery[i] = [of |-> health[k].number,
                                                 verdict |-> "closed"]
  BY DEF ReviewsOnRecovery
<1> DEFINE found == CHOOSE h \in {health[k] : k \in Recovered} : h.id = i
<1>1. found \in {health[k] : k \in Recovered} /\ found.id = i
  OBVIOUS
<1>2. ReviewsOnRecovery[i] = [of |-> found.number, verdict |-> "closed"]
  BY DEF ReviewsOnRecovery
<1> HIDE DEF found
<1>3. PICK k \in Recovered : found = health[k]
  BY <1>1
<1>4. k \in Watched /\ health[k].active
  BY DEF Recovered
<1> QED
  BY <1>1, <1>2, <1>3, <1>4

LEMMA StepReviews ==
  ASSUME TypeOK, [Next]_vars
  PROVE  ReviewsOK'
<1>1. ReviewsOK /\ PagesOK /\ HealthOK
  BY DEF TypeOK
<1>2. CASE UNCHANGED reviews
  BY <1>1, <1>2 DEF ReviewsOK
<1>3. CASE MonitorHealth
  <2>1. reviews' = ReviewsOnRecovery /\ DOMAIN reviews' = Ids
        /\ reviews' = [i \in Ids |-> reviews'[i]]
    BY <1>3 DEF MonitorHealth, ReviewsOnRecovery
  <2>2. ASSUME NEW i \in Ids
        PROVE  reviews'[i] \in [of : Nat, verdict : {"open", "closed"}]
    BY <1>1, <2>1, Recoveries DEF HealthOK, ReviewsOK
  <2> QED
    BY <2>1, <2>2 DEF ReviewsOK
<1>4. ASSUME NEW a \in Analysts, WriteReview(a)
      PROVE  ReviewsOK'
  BY <1>1, <1>4 DEF WriteReview, ReviewsOK, PagesOK
<1>5. CASE Prune
  BY <1>1, <1>5 DEF Prune, ReviewsAfter, ReviewsOK, NoReview
<1> QED
  BY <1>2, <1>3, <1>4, <1>5
  DEF Next, vars, Age, Silence, Telemetry, Settle, Detect, Revoke, Enroll, GrowUp, Calm,
      Load, UpdateIncident, CheckReview, CreateIncident

\* The change of an incident.
LEMMA Updated ==
  ASSUME IncidentOK, NEW a \in Analysts, UpdateIncident(a), PagesOK
  PROVE  \/ ~IsCurrent(a) /\ UNCHANGED <<incident, owed>>
         \/ /\ IsCurrent(a) /\ Announce(incident.version + 1)
            /\ incident' = [version |-> incident.version + 1, of |-> incident.of,
                            basis |-> Append(incident.basis, incident.version)]
<1>1. CASE ~IsCurrent(a)
  BY <1>1 DEF UpdateIncident
<1>2. CASE IsCurrent(a)
  <2>1. /\ incident' = [incident EXCEPT !.version = @ + 1,
                                        !.basis = Append(@, incident.version)]
        /\ Announce(incident'.version)
    BY <1>2 DEF UpdateIncident, IsCurrent
  <2>2. incident' = [version |-> incident.version + 1, of |-> incident.of,
                     basis |-> Append(incident.basis, incident.version)]
    BY <2>1 DEF IncidentOK
  <2> QED
    BY <1>2, <2>1, <2>2
<1> QED
  BY <1>1, <1>2

LEMMA StepIncident ==
  ASSUME TypeOK, [Next]_vars
  PROVE  IncidentOK'
<1>1. IncidentOK /\ PagesOK /\ AlertsOK
  BY DEF TypeOK
<1>2. CASE UNCHANGED incident
  BY <1>1, <1>2 DEF IncidentOK
<1>3. ASSUME NEW ids \in SUBSET Ids, CreateIncident(ids)
      PROVE  IncidentOK'
  <2>1. \A i \in ids : [id |-> i, number |-> alerts[i].number] \in Reference
    BY <1>1, <1>3, Numbers DEF CreateIncident, Reference
  <2> QED
    BY <1>3, <2>1 DEF CreateIncident, IncidentOK
<1>4. ASSUME NEW a \in Analysts, UpdateIncident(a)
      PROVE  IncidentOK'
  <2>1. /\ incident.version + 1 \in Nat /\ incident.of \in SUBSET Reference
        /\ Append(incident.basis, incident.version) \in Seq(Nat)
    BY <1>1 DEF IncidentOK
  <2>2. CASE UNCHANGED incident
    BY <1>2, <2>2
  <2>3. CASE incident' = [version |-> incident.version + 1, of |-> incident.of,
                          basis |-> Append(incident.basis, incident.version)]
    BY <2>1, <2>3 DEF IncidentOK
  <2> QED
    BY <1>1, <1>4, <2>2, <2>3, Updated
<1> QED
  BY <1>2, <1>3, <1>4
  DEF Next, vars, Age, Silence, Telemetry, Settle, Detect, Revoke, Enroll, GrowUp, Calm,
      MonitorHealth, WriteReview, Load, CheckReview, Prune

\* What is owed after a step that inserts no alert.
LEMMA OwedSteps ==
  ASSUME TypeOK, [Next]_vars
  PROVE  \/ \E n \in Nat : Insert(n)
         \/ \A t \in owed' : t \in owed \/ t.about = "incident"
<1>1. IncidentOK /\ PagesOK
  BY DEF TypeOK
<1>2. CASE Detect
  BY <1>2 DEF Detect
<1>3. CASE MonitorHealth
  BY <1>3, Monitored
<1>4. ASSUME NEW a \in Analysts, UpdateIncident(a)
      PROVE  \A t \in owed' : t \in owed \/ t.about = "incident"
  BY <1>1, <1>4, Updated DEF Announce
<1>5. ASSUME NEW ids \in SUBSET Ids, CreateIncident(ids)
      PROVE  \A t \in owed' : t \in owed \/ t.about = "incident"
  BY <1>5 DEF CreateIncident, Announce
<1>6. ASSUME owed' \subseteq owed
      PROVE  \A t \in owed' : t \in owed \/ t.about = "incident"
  BY <1>6
<1> QED
  BY <1>2, <1>3, <1>4, <1>5, <1>6
  DEF Next, vars, Age, Silence, Telemetry, Settle, Revoke, Enroll, GrowUp, Calm,
      WriteReview, Load, CheckReview, Prune

LEMMA StepOwed ==
  ASSUME TypeOK, [Next]_vars
  PROVE  OwedOK'
<1>1. AlertsOK /\ OwedOK
  BY DEF TypeOK
<1>2. CASE \A t \in owed' : t \in owed \/ t.about = "incident"
  BY <1>1, <1>2 DEF OwedOK
<1> QED
  BY <1>1, <1>2, OwedSteps, Inserted

LEMMA StepPages ==
  ASSUME TypeOK, [Next]_vars
  PROVE  PagesOK'
<1>1. PagesOK /\ IncidentOK /\ AlertsOK
  BY DEF TypeOK
<1>2. CASE UNCHANGED page
  BY <1>1, <1>2 DEF PagesOK
<1> DEFINE Page == [at : {"away", "review", "incident"}, ref : Nat, number : Nat]
<1>3. ASSUME NEW a \in Analysts, NEW r \in Page, r.at = "review" => r.ref \in Ids,
             page' = [page EXCEPT ![a] = r]
      PROVE  PagesOK'
  BY <1>1, <1>3 DEF PagesOK
<1>4. ASSUME NEW a \in Analysts, NEW i \in Ids, CheckReview(a, i)
      PROVE  PagesOK'
  <2> DEFINE r == [at |-> "review", ref |-> i, number |-> alerts[i].number]
  <2>1. r \in Page /\ r.ref \in Ids
    BY <1>1, Numbers DEF Ids
  <2>2. page' = [page EXCEPT ![a] = r]
    BY <1>4 DEF CheckReview
  <2> HIDE DEF r
  <2> QED
    BY <1>3, <2>1, <2>2
<1>5. ASSUME NEW a \in Analysts, WriteReview(a) \/ UpdateIncident(a)
      PROVE  PagesOK'
  <2>1. Blank \in Page /\ Blank.at = "away"
    BY DEF Blank
  <2>2. page' = [page EXCEPT ![a] = Blank]
    BY <1>5 DEF WriteReview, UpdateIncident
  <2> QED
    BY <1>3, <2>1, <2>2
<1>6. ASSUME NEW a \in Analysts, Load(a)
      PROVE  PagesOK'
  <2> DEFINE r == [at |-> "incident", ref |-> incident.version, number |-> 0]
  <2>1. r \in Page /\ r.at = "incident"
    BY <1>1 DEF IncidentOK
  <2>2. page' = [page EXCEPT ![a] = r]
    BY <1>6 DEF Load
  <2> HIDE DEF r
  <2> QED
    BY <1>3, <2>1, <2>2
<1> QED
  BY <1>2, <1>4, <1>5, <1>6
  DEF Next, vars, Age, Silence, Telemetry, Settle, Detect, Revoke, Enroll, GrowUp, Calm,
      MonitorHealth, CreateIncident, Prune

LEMMA StepHealth ==
  ASSUME TypeOK, [Next]_vars
  PROVE  HealthOK'
<1>1. AlertsOK /\ OwedOK /\ HealthOK
  BY DEF TypeOK
<1>2. CASE UNCHANGED health
  BY <1>1, <1>2 DEF HealthOK
<1>3. CASE MonitorHealth
  <2>1. PICK n \in Nat :
           /\ Insert(n)
           /\ \A k \in NewlyDown : \E m \in 1..n :
                health'[k] = [id |-> NewRow(m).id, number |-> NewRow(m).number,
                              active |-> TRUE]
           /\ DOMAIN health' = Watched
           /\ health' = [k \in Watched |-> health'[k]]
           /\ \A k \in Watched \ NewlyDown :
                /\ health'[k].id = health[k].id /\ health'[k].number = health[k].number
                /\ health'[k].active <=> health[k].active /\ k \notin Recovered
                /\ health'[k] \in [id : Nat, number : Nat, active : BOOLEAN]
    BY <1>3, Monitored
  <2>2. \A m \in 1..n : NewRow(m) \in Reference
    BY <1>1, <2>1, Inserted
  <2>3. ASSUME NEW k \in NewlyDown
        PROVE  /\ health'[k] \in [id : Nat, number : Nat, active : BOOLEAN]
               /\ health'[k].id \in Ids /\ health'[k].number # 0
    <3>1. PICK m \in 1..n : health'[k] = [id |-> NewRow(m).id, number |-> NewRow(m).number,
                                          active |-> TRUE]
      BY <2>1
    <3>2. NewRow(m).id \in Ids /\ NewRow(m).number \in Nat \ {0} /\ Ids \subseteq Nat
      BY <2>2 DEF Reference, Ids
    <3>3. ASSUME NEW x \in Ids, NEW y \in Nat \ {0},
                 health'[k] = [id |-> x, number |-> y, active |-> TRUE]
          PROVE  /\ health'[k] \in [id : Nat, number : Nat, active : BOOLEAN]
                 /\ health'[k].id \in Ids /\ health'[k].number # 0
      BY <3>2, <3>3
    <3> QED
      BY <3>1, <3>2, <3>3
  <2>4. ASSUME NEW k \in Watched \ NewlyDown
        PROVE  /\ health'[k] \in [id : Nat, number : Nat, active : BOOLEAN]
               /\ health'[k].active => health'[k].id \in Ids /\ health'[k].number # 0
    BY <1>1, <2>1 DEF HealthOK
  <2>5. health' \in [Watched -> [id : Nat, number : Nat, active : BOOLEAN]]
    BY <2>1, <2>3, <2>4
  <2> QED
    BY <2>3, <2>4, <2>5 DEF HealthOK
<1> QED
  BY <1>2, <1>3
  DEF Next, vars, Age, Silence, Telemetry, Settle, Detect, Revoke, Enroll, GrowUp, Calm,
      CheckReview, WriteReview, Load, UpdateIncident, CreateIncident, Prune

LEMMA StepHost ==
  ASSUME TypeOK, [Next]_vars
  PROVE  HostOK'
<1>1. HostOK
  BY DEF TypeOK
<1>2. CASE UNCHANGED host
  BY <1>1, <1>2 DEF HostOK
<1>3. ASSUME NEW k \in Watched, Silence(k) \/ Telemetry(k)
      PROVE  HostOK'
  <2>1. CASE Silence(k)
    BY <1>1, <2>1 DEF Silence, HostOK
  <2>2. CASE Telemetry(k)
    <3>1. host' = [host EXCEPT !.heard = @ \cup {"agent", k}, !.known = @ \cup {"agent", k}]
      BY <2>2 DEF Telemetry
    <3>2. /\ host.heard \cup {"agent", k} \in SUBSET Watched
          /\ host.known \cup {"agent", k} \in SUBSET Watched
      BY <1>1, DeskAssumption DEF HostOK
    <3> QED
      BY <1>1, <3>1, <3>2 DEF HostOK
  <2> QED
    BY <1>3, <2>1, <2>2
<1>4. CASE Revoke \/ Enroll \/ GrowUp
  BY <1>1, <1>4, DeskAssumption DEF Revoke, Enroll, GrowUp, HostOK
<1> QED
  BY <1>2, <1>3, <1>4
  DEF Next, vars, Age, Settle, Detect, MonitorHealth, CheckReview, WriteReview, Load,
      UpdateIncident, CreateIncident, Prune

LEMMA StepType == TypeOK /\ [Next]_vars => TypeOK'
<1> SUFFICES ASSUME TypeOK, [Next]_vars PROVE TypeOK'
  OBVIOUS
<1>1. overtaken' \in BOOLEAN
  BY DEF TypeOK, Next, vars, Age, Silence, Telemetry, Settle, Detect, Revoke, Enroll, GrowUp,
         Calm, MonitorHealth, CheckReview, WriteReview, Load, UpdateIncident,
         CreateIncident, Prune
<1> QED
  BY <1>1, StepAlerts, StepReviews, StepIncident, StepOwed, StepPages, StepHealth, StepHost
  DEF TypeOK

-----------------------------------------------------------------------------
(* Evidence.                                                               *)

\* An alert that somebody refers to is the same one after any step.
LEMMA Kept ==
  ASSUME TypeOK, [Next]_vars, NEW r \in Reference, r.id \in Protected,
         alerts[r.id].number = r.number
  PROVE  alerts'[r.id].number = r.number
<1>1. AlertsOK /\ OwedOK /\ r.id \in Ids /\ r.number # 0
  BY DEF TypeOK, Reference
<1>2. Exists(r.id)
  BY <1>1, Numbers
<1> QED
  BY <1>1, <1>2, AlertSteps, Aged, Inserted, Pruned

LEMMA StepEvidence ==
  ASSUME IInv, [Next]_vars
  PROVE  EvidenceIsKept'
<1>1. TypeOK /\ AlertsOK /\ OwedOK /\ IncidentOK /\ PagesOK /\ HealthOK /\ EvidenceIsKept
  BY DEF IInv, TypeOK
<1>2. ASSUME NEW r \in incident'.of
      PROVE  alerts'[r.id].number = r.number
  <2>1. CASE r \in incident.of
    <3>1. r \in Reference /\ r.id \in Protected /\ alerts[r.id].number = r.number
      BY <1>1, <2>1 DEF IncidentOK, Protected, InIncident, EvidenceIsKept, Refers
    <3> QED
      BY <1>1, <3>1, Kept
  <2>2. CASE r \notin incident.of
    <3>1. PICK ids \in SUBSET Ids : CreateIncident(ids)
      <4>1. \A a \in Analysts : UpdateIncident(a) => incident'.of = incident.of
        BY <1>1, Updated
      <4> QED
        BY <1>2, <2>2, <4>1
        DEF Next, vars, Age, Silence, Telemetry, Settle, Detect, Revoke, Enroll, GrowUp, Calm,
            MonitorHealth, WriteReview, Load, CheckReview, Prune
    <3>2. /\ r \in {[id |-> i, number |-> alerts[i].number] : i \in ids}
          /\ UNCHANGED alerts
      BY <1>2, <3>1 DEF CreateIncident
    <3> QED
      BY <3>2
  <2> QED
    BY <2>1, <2>2
<1>3. ASSUME NEW k \in Watched, health'[k].active
      PROVE  alerts'[health'[k].id].number = health'[k].number
  <2>1. CASE /\ health[k].active
             /\ health'[k].id = health[k].id /\ health'[k].number = health[k].number
    <3> DEFINE r == [id |-> health[k].id, number |-> health[k].number]
    <3>1. r \in Reference /\ r.id = health[k].id /\ r.number = health[k].number
      BY <1>1, <2>1 DEF HealthOK, Reference
    <3>2. r.id \in Protected /\ alerts[r.id].number = r.number
      BY <1>1, <2>1, <3>1 DEF Protected, InHealth, EvidenceIsKept, Refers
    <3> HIDE DEF r
    <3> QED
      BY <1>1, <2>1, <3>1, <3>2, Kept
  <2>2. CASE MonitorHealth
    <3>1. PICK n \in Nat :
             /\ Insert(n)
             /\ \A j \in NewlyDown : \E m \in 1..n :
                  health'[j] = [id |-> NewRow(m).id, number |-> NewRow(m).number,
                                active |-> TRUE]
             /\ \A j \in Watched \ NewlyDown :
                  /\ health'[j].id = health[j].id /\ health'[j].number = health[j].number
                  /\ health'[j].active <=> health[j].active /\ j \notin Recovered
      BY <1>1, <2>2, Monitored
    <3>2. CASE k \in NewlyDown
      <4>1. PICK m \in 1..n : health'[k] = [id |-> NewRow(m).id, number |-> NewRow(m).number,
                                            active |-> TRUE]
        BY <3>1, <3>2
      <4>2. alerts'[NewRow(m).id].number = NewRow(m).number
        BY <1>1, <3>1, Inserted
      <4> QED
        BY <4>1, <4>2
    <3>3. CASE k \notin NewlyDown
      BY <1>3, <2>1, <3>1, <3>3
    <3> QED
      BY <3>2, <3>3
  <2>3. CASE UNCHANGED health
    BY <1>3, <2>1, <2>3
  <2> QED
    BY <2>2, <2>3
    DEF Next, vars, Age, Silence, Telemetry, Settle, Detect, Revoke, Enroll, GrowUp, Calm,
        CheckReview, WriteReview, Load, UpdateIncident, CreateIncident, Prune
<1>4. ASSUME NEW t \in owed', t.about = "alert"
      PROVE  alerts'[t.row.id].number = t.row.number
  <2>1. CASE t \in owed
    <3>1. t.row \in Reference /\ t.row \in OwedAlerts
      BY <1>1, <1>4, <2>1 DEF OwedOK, OwedAlerts
    <3>2. t.row.id \in Protected /\ alerts[t.row.id].number = t.row.number
      BY <1>1, <3>1 DEF Protected, InNotices, EvidenceIsKept, Refers
    <3> QED
      BY <1>1, <3>1, <3>2, Kept
  <2>2. CASE t \notin owed
    <3>1. PICK n \in Nat : Insert(n)
      BY <1>1, <1>4, <2>2, OwedSteps
    <3>2. PICK m \in 1..n : t.row = NewRow(m)
      BY <1>1, <2>2, <3>1, Inserted
    <3> QED
      BY <1>1, <3>1, <3>2, Inserted
  <2> QED
    BY <2>1, <2>2
<1>5. \A row \in OwedAlerts' : alerts'[row.id].number = row.number
  BY <1>4 DEF OwedAlerts
<1> QED
  BY <1>2, <1>3, <1>5 DEF EvidenceIsKept, Refers

-----------------------------------------------------------------------------
(* Verdicts.                                                               *)

\* What a verdict is about keeps its number, or is pruned.
LEMMA Numbered ==
  ASSUME TypeOK, [Next]_vars, NEW i \in Ids
  PROVE  \/ alerts'[i].number = alerts[i].number
         \/ alerts[i].number = 0
         \/ Prune /\ alerts'[i].number = 0
<1>1. AlertsOK /\ OwedOK
  BY DEF TypeOK
<1>2. CASE Prune
  BY <1>2 DEF Prune, NoAlert
<1> QED
  BY <1>1, <1>2, AlertSteps, Aged, Inserted, Numbers

LEMMA StepVerdict ==
  ASSUME IInv, [Next]_vars
  PROVE  VerdictInv'
<1>1. TypeOK /\ AlertsOK /\ OwedOK /\ ReviewsOK /\ PagesOK /\ VerdictInv /\ EvidenceIsKept
  BY DEF IInv, TypeOK
<1>2. ASSUME UNCHANGED overtaken, ~overtaken,
             \A i \in Ids : reviews'[i].of \in {0, reviews[i].of, alerts[i].number},
             \A a \in Analysts : page'[a].at = "review" =>
               \/ page'[a] = page[a]
               \/ page'[a].number # 0 /\ alerts[page'[a].ref].number = page'[a].number,
             ~Prune
      PROVE  VerdictInv'
  <2>1. \A i \in Ids : reviews'[i].of \in {0, alerts[i].number}
    BY <1>1, <1>2 DEF VerdictInv
  <2>2. \A i \in Ids : reviews'[i].of \in {0, alerts'[i].number}
    BY <1>1, <1>2, <2>1, Numbered
  <2>3. PagesOK'
    BY <1>1, StepPages
  <2>4. \A a \in Analysts : page'[a].at = "review" =>
          page'[a].number # 0 /\ alerts[page'[a].ref].number = page'[a].number
    BY <1>1, <1>2 DEF VerdictInv
  <2>5. \A a \in Analysts : page'[a].at = "review" =>
          page'[a].number # 0 /\ alerts'[page'[a].ref].number = page'[a].number
    BY <1>1, <1>2, <2>3, <2>4, Numbered DEF PagesOK
  <2> QED
    BY <2>2, <2>5 DEF VerdictInv
<1>3. ASSUME UNCHANGED <<reviews, page, overtaken>>, ~Prune
      PROVE  VerdictInv'
  BY <1>2, <1>3 DEF VerdictInv
<1>4. CASE MonitorHealth /\ ~Prune
  <2>1. \A i \in Ids : reviews'[i].of \in {0, reviews[i].of, alerts[i].number}
    <3> SUFFICES ASSUME NEW i \in Ids
                 PROVE  reviews'[i].of \in {0, reviews[i].of, alerts[i].number}
      OBVIOUS
    <3>1. reviews' = ReviewsOnRecovery
      BY <1>4 DEF MonitorHealth
    <3>2. ASSUME NEW k \in Watched, health[k].active, health[k].id = i,
                 ReviewsOnRecovery[i] = [of |-> health[k].number, verdict |-> "closed"]
          PROVE  reviews'[i].of = alerts[i].number
      BY <1>1, <3>1, <3>2 DEF EvidenceIsKept, Refers
    <3> QED
      BY <1>1, <3>1, <3>2, Recoveries
  <2>2. UNCHANGED <<page, overtaken>>
    BY <1>4 DEF MonitorHealth
  <2> QED
    BY <1>2, <1>4, <2>1, <2>2 DEF VerdictInv
<1>5. ASSUME NEW a \in Analysts, NEW i \in Ids, CheckReview(a, i), ~Prune
      PROVE  VerdictInv'
  <2>1. /\ page' = [page EXCEPT ![a] = [at |-> "review", ref |-> i,
                                        number |-> alerts[i].number]]
        /\ Exists(i) /\ UNCHANGED <<reviews, overtaken>>
    BY <1>5 DEF CheckReview
  <2>2. alerts[i].number # 0
    BY <1>1, <2>1, Numbers
  <2>3. \A b \in Analysts : page'[b].at = "review" =>
          \/ page'[b] = page[b]
          \/ page'[b].number # 0 /\ alerts[page'[b].ref].number = page'[b].number
    BY <1>1, <2>1, <2>2 DEF PagesOK
  <2> QED
    BY <1>2, <1>5, <2>1, <2>3 DEF VerdictInv
<1>6. ASSUME NEW a \in Analysts, WriteReview(a), ~Prune, ~overtaken
      PROVE  VerdictInv'
  <2>1. PICK v \in {"open", "closed"} :
          /\ reviews' = [reviews EXCEPT ![page[a].ref] = [of |-> page[a].number, verdict |-> v]]
          /\ page' = [page EXCEPT ![a] = Blank] /\ UNCHANGED overtaken
    BY <1>6 DEF WriteReview
  <2>2. alerts[page[a].ref].number = page[a].number
    BY <1>1, <1>6 DEF WriteReview, VerdictInv
  <2>3. \A i \in Ids : reviews'[i].of \in {0, reviews[i].of, alerts[i].number}
    BY <1>1, <2>1, <2>2 DEF ReviewsOK
  <2>4. \A b \in Analysts : page'[b].at = "review" => page'[b] = page[b]
    BY <1>1, <2>1 DEF PagesOK, Blank
  <2> QED
    BY <1>2, <1>6, <2>1, <2>3, <2>4
<1>7. ASSUME NEW a \in Analysts, Load(a) \/ UpdateIncident(a), ~Prune
      PROVE  VerdictInv'
  <2>1. \A b \in Analysts : page'[b].at = "review" => page'[b] = page[b]
    BY <1>1, <1>7 DEF Load, UpdateIncident, PagesOK, Blank
  <2>2. UNCHANGED <<reviews, overtaken>>
    BY <1>7 DEF Load, UpdateIncident
  <2> QED
    BY <1>2, <1>7, <2>1, <2>2 DEF VerdictInv
<1>8. CASE Prune
  <2> SUFFICES ASSUME ~overtaken' PROVE VerdictInv'
    BY DEF VerdictInv
  <2> DEFINE gone == {i \in Ids : Exists(i) /\ alerts[i].old} \ Protected
  <2>1. /\ alerts' = [i \in Ids |-> IF i \in gone THEN NoAlert ELSE alerts[i]]
        /\ reviews' = [i \in Ids |-> IF i \in gone THEN NoReview ELSE reviews[i]]
        /\ ~overtaken /\ UNCHANGED page
        /\ \A a \in Analysts : page[a].at = "review" => page[a].ref \notin gone
    BY <1>8 DEF Prune, ReviewsAfter
  <2> HIDE DEF gone
  <2>2. \A i \in Ids : reviews'[i].of \in {0, alerts'[i].number}
    BY <1>1, <2>1 DEF VerdictInv, NoReview
  <2>3. \A a \in Analysts : page'[a].at = "review" =>
          page'[a].number # 0 /\ alerts'[page'[a].ref].number = page'[a].number
    BY <1>1, <2>1 DEF VerdictInv, PagesOK
  <2> QED
    BY <2>2, <2>3 DEF VerdictInv
<1>9. CASE overtaken /\ ~Prune
  BY <1>9 DEF VerdictInv, Next, vars, Age, Silence, Telemetry, Settle, Detect, Revoke, Enroll,
              GrowUp, Calm, MonitorHealth, CheckReview, WriteReview, Load, UpdateIncident,
              CreateIncident
<1> QED
  BY <1>3, <1>4, <1>5, <1>6, <1>7, <1>8, <1>9
  DEF Next, vars, Age, Silence, Telemetry, Settle, Detect, Revoke, Enroll, GrowUp, Calm,
      CreateIncident

-----------------------------------------------------------------------------
(* The incident and outages.                                               *)

LEMMA StepEdit ==
  ASSUME IInv, [Next]_vars
  PROVE  EditInv'
<1>1. IncidentOK /\ PagesOK /\ EditInv
  BY DEF IInv, TypeOK
<1>2. ASSUME UNCHANGED incident,
             \A a \in Analysts : page'[a].at = "incident" =>
               page[a].at = "incident" \/ incident.version # 0
      PROVE  EditInv'
  BY <1>1, <1>2 DEF EditInv, NoChangeIsLost
<1>3. ASSUME NEW ids \in SUBSET Ids, CreateIncident(ids)
      PROVE  EditInv'
  <2>1. incident'.version = 1 /\ incident'.basis = <<>>
    BY <1>3 DEF CreateIncident
  <2> QED
    BY <2>1 DEF EditInv, NoChangeIsLost
<1>4. ASSUME NEW a \in Analysts, UpdateIncident(a)
      PROVE  EditInv'
  <2>1. CASE UNCHANGED incident
    BY <1>1, <1>2, <1>4, <2>1 DEF UpdateIncident, PagesOK, Blank
  <2>2. CASE incident' = [version |-> incident.version + 1, of |-> incident.of,
                          basis |-> Append(incident.basis, incident.version)]
    <3> DEFINE v == incident.version
               s == incident.basis
    <3>1. v \in Nat /\ s \in Seq(Nat)
      BY <1>1 DEF IncidentOK
    <3>2. v # 0 /\ v = Len(s) + 1 /\ \A n \in DOMAIN s : s[n] = n
      BY <1>1, <1>4, <3>1 DEF EditInv, NoChangeIsLost, UpdateIncident
    <3>3. incident'.version = v + 1 /\ incident'.basis = Append(s, v)
      BY <2>2
    <3> HIDE DEF v, s
    <3>4. v + 1 = Len(Append(s, v)) + 1 /\ \A n \in DOMAIN Append(s, v) : Append(s, v)[n] = n
      BY <3>1, <3>2
    <3> QED
      BY <3>1, <3>3, <3>4 DEF EditInv, NoChangeIsLost
  <2> QED
    BY <1>1, <1>4, <2>1, <2>2, Updated
<1>5. ASSUME NEW a \in Analysts, Load(a)
      PROVE  EditInv'
  BY <1>1, <1>2, <1>5 DEF Load, PagesOK
<1>6. ASSUME NEW a \in Analysts, WriteReview(a)
      PROVE  EditInv'
  BY <1>1, <1>2, <1>6 DEF WriteReview, PagesOK, Blank
<1>7. ASSUME NEW a \in Analysts, NEW i \in Ids, CheckReview(a, i)
      PROVE  EditInv'
  BY <1>1, <1>2, <1>7 DEF CheckReview, PagesOK
<1>8. CASE UNCHANGED <<incident, page>>
  BY <1>2, <1>8
<1> QED
  BY <1>3, <1>4, <1>5, <1>6, <1>7, <1>8
  DEF Next, vars, Age, Silence, Telemetry, Settle, Detect, Revoke, Enroll, GrowUp, Calm,
      MonitorHealth, Prune

LEMMA StepOutage ==
  ASSUME IInv, [Next]_vars
  PROVE  OutageInv'
<1>1. TypeOK /\ HostOK /\ OutageInv
  BY DEF IInv, TypeOK
<1>2. CASE MonitorHealth
  <2>1. /\ \A k \in NewlyDown : health'[k].active
        /\ \A k \in Watched \ NewlyDown :
             health'[k].active <=> health[k].active /\ k \notin Recovered
    <3>1. \A k \in NewlyDown : \E r, s : health'[k] = [id |-> r, number |-> s, active |-> TRUE]
      BY <1>1, <1>2, Monitored, ZenonT(40)
    <3>2. ASSUME NEW k \in NewlyDown
          PROVE  health'[k].active
      <4>1. PICK r, s : health'[k] = [id |-> r, number |-> s, active |-> TRUE]
        BY <3>1
      <4>2. health'[k].active = TRUE
        BY <4>1
      <4> QED
        BY <4>2
    <3>3. \A k \in Watched \ NewlyDown :
            health'[k].active <=> health[k].active /\ k \notin Recovered
      BY <1>1, <1>2, Monitored
    <3> QED
      BY <3>2, <3>3
  <2>2. reported' = reported \cup NewlyDown /\ UNCHANGED host
    BY <1>2 DEF MonitorHealth
  <2>3. \A k \in NewlyDown : k \in Watched /\ k \notin host.heard
    BY <1>1 DEF NewlyDown, Down, HostOK
  <2>4. \A k \in Recovered : k \in host.heard
    BY DEF Recovered
  <2> QED
    BY <1>1, <2>1, <2>2, <2>3, <2>4 DEF OutageInv
<1>3. ASSUME UNCHANGED <<health, host, reported>>
      PROVE  OutageInv'
  BY <1>1, <1>3 DEF OutageInv
<1>4. ASSUME NEW k \in Watched, Silence(k)
      PROVE  OutageInv'
  BY <1>1, <1>4 DEF Silence, Calm, OutageInv, HostOK
<1>5. ASSUME NEW k \in Watched, Telemetry(k)
      PROVE  OutageInv'
  BY <1>1, <1>5 DEF Telemetry, Calm, OutageInv, HostOK
<1>6. CASE Revoke \/ Enroll \/ GrowUp
  BY <1>1, <1>6 DEF Revoke, Enroll, GrowUp, Calm, OutageInv, HostOK
<1> QED
  BY <1>2, <1>3, <1>4, <1>5, <1>6
  DEF Next, vars, Age, Settle, Detect, WriteReview, CheckReview, Load, UpdateIncident,
      CreateIncident, Prune

\* Types, references, verdicts, changes and outages are as they should be after every
\* step of the monitor, the analysts and the maintenance.
THEOREM DeskInvariant == Spec => []IInv
<1>1. IInv /\ [Next]_vars => IInv'
  <2> SUFFICES ASSUME IInv, [Next]_vars PROVE IInv'
    OBVIOUS
  <2>1. TypeOK'
    BY StepType DEF IInv
  <2> QED
    BY <2>1, StepEvidence, StepVerdict, StepEdit, StepOutage DEF IInv
<1> QED
  BY <1>1, InitInv, PTL DEF Spec

\* EvidenceIsKept: no prune, and no id that is given out again, takes an alert from
\* what refers to it.
THEOREM EvidenceIsAlwaysKept == Spec => []EvidenceIsKept
<1>1. IInv => EvidenceIsKept
  BY DEF IInv
<1> QED
  BY <1>1, DeskInvariant, PTL

\* VerdictIsOnThisAlert, but for a review whose check a prune overtakes.
THEOREM VerdictsAreOnTheirAlerts == Spec => []VerdictIsOnThisAlert
<1>1. IInv => VerdictIsOnThisAlert
  BY DEF IInv, VerdictInv, VerdictIsOnThisAlert
<1> QED
  BY <1>1, DeskInvariant, PTL

\* NoChangeIsLost, for any number of analysts.
THEOREM ChangesAreKept == Spec => []NoChangeIsLost
<1>1. IInv => NoChangeIsLost
  BY DEF IInv, EditInv
<1> QED
  BY <1>1, DeskInvariant, PTL

\* OneAlertPerOutage: what was reported stays active until it is heard again.
THEOREM OutagesAreReportedOnce == Spec => OneAlertPerOutage
<1> DEFINE Once ==
      \A k \in Watched : health'[k].number # health[k].number => k \notin reported
<1>1. ASSUME IInv, Next, NEW k \in Watched, health'[k].number # health[k].number
      PROVE  k \notin reported
  <2>1. MonitorHealth
    BY <1>1 DEF Next, Age, Silence, Telemetry, Settle, Detect, Revoke, Enroll, GrowUp, Calm,
                CheckReview, WriteReview, Load, UpdateIncident, CreateIncident, Prune
  <2>2. k \in NewlyDown
    BY <1>1, <2>1, Monitored DEF IInv
  <2> QED
    BY <1>1, <2>2 DEF NewlyDown, IInv, OutageInv
<1>2. IInv /\ [Next]_vars => [Once]_vars
  BY <1>1
<1> QED
  BY <1>2, DeskInvariant, PTL DEF Spec, OneAlertPerOutage

(***************************************************************************)
(* Outbox.                                                                 *)
(***************************************************************************)

\* A worker that has a row has a claim of it, which nobody else has; while it is the
\* last claim, the row is as that claim left it.
ClaimInv ==
  /\ \A w \in Workers : worker[w] # Idle =>
       /\ worker[w].row \in DOMAIN box
       /\ worker[w].claim \in 1..box[worker[w].row].claim
       /\ worker[w].claim = box[worker[w].row].claim =>
            box[worker[w].row].status = "sending"
  /\ \A v, w \in Workers :
       v # w /\ worker[v] # Idle /\ worker[w] # Idle /\ worker[v].row = worker[w].row
         => worker[v].claim # worker[w].claim

OutboxIInv == OutboxTypeOK /\ ClaimInv

-----------------------------------------------------------------------------
\* What becomes of the table when one row is replaced.
LEMMA ReplacedRow ==
  ASSUME NEW t \in Seq(Row), NEW d \in DOMAIN t, NEW r \in Row
  PROVE  /\ [t EXCEPT ![d] = r] \in Seq(Row)
         /\ DOMAIN [t EXCEPT ![d] = r] = DOMAIN t
         /\ \A e \in DOMAIN t : [t EXCEPT ![d] = r][e] = IF e = d THEN r ELSE t[e]
<1> QED
  OBVIOUS

\* A row with another status,
LEMMA SetStatus ==
  ASSUME OutboxTypeOK, NEW d \in DOMAIN box, NEW s \in Statuses,
         box' = [box EXCEPT ![d].status = s]
  PROVE  /\ box' \in Seq(Row) /\ DOMAIN box' = DOMAIN box
         /\ box'[d].status = s /\ box'[d].claim = box[d].claim
         /\ \A e \in DOMAIN box : e # d => box'[e] = box[e]
<1> DEFINE r == [box[d] EXCEPT !.status = s]
<1>1. box \in Seq(Row)
  BY DEF OutboxTypeOK
<1>2. box[d] \in Row
  BY <1>1
<1>3. r \in Row /\ r.status = s /\ r.claim = box[d].claim
  BY <1>2 DEF Row
<1>4. box' = [box EXCEPT ![d] = r]
  OBVIOUS
<1> HIDE DEF r
<1>5. box' \in Seq(Row) /\ DOMAIN box' = DOMAIN box
  BY <1>1, <1>3, <1>4, ReplacedRow
<1>6. \A e \in DOMAIN box : box'[e] = IF e = d THEN r ELSE box[e]
  BY <1>1, <1>3, <1>4, ReplacedRow
<1> QED
  BY <1>3, <1>5, <1>6

\* with its lease over,
LEMMA SetLapsed ==
  ASSUME OutboxTypeOK, NEW d \in DOMAIN box, box' = [box EXCEPT ![d].lapsed = TRUE]
  PROVE  /\ box' \in Seq(Row) /\ DOMAIN box' = DOMAIN box
         /\ box'[d].status = box[d].status /\ box'[d].claim = box[d].claim
         /\ \A e \in DOMAIN box : e # d => box'[e] = box[e]
<1> DEFINE r == [box[d] EXCEPT !.lapsed = TRUE]
<1>1. box \in Seq(Row)
  BY DEF OutboxTypeOK
<1>2. box[d] \in Row
  BY <1>1
<1>3. r \in Row /\ r.status = box[d].status /\ r.claim = box[d].claim
  BY <1>2 DEF Row
<1>4. box' = [box EXCEPT ![d] = r]
  OBVIOUS
<1> HIDE DEF r
<1>5. /\ [box EXCEPT ![d] = r] \in Seq(Row)
      /\ DOMAIN [box EXCEPT ![d] = r] = DOMAIN box
      /\ \A e \in DOMAIN box : [box EXCEPT ![d] = r][e] = IF e = d THEN r ELSE box[e]
  BY <1>1, <1>3, ReplacedRow
<1>6. /\ box' \in Seq(Row) /\ DOMAIN box' = DOMAIN box
      /\ \A e \in DOMAIN box : box'[e] = IF e = d THEN r ELSE box[e]
  BY <1>4, <1>5
<1> QED
  BY <1>3, <1>5, <1>6

\* or claimed.
LEMMA SetClaim ==
  ASSUME OutboxTypeOK, NEW d \in DOMAIN box, NEW w \in Workers, Claim(w, d)
  PROVE  /\ box' \in Seq(Row) /\ DOMAIN box' = DOMAIN box
         /\ box'[d].status = "sending" /\ box'[d].claim = box[d].claim + 1
         /\ \A e \in DOMAIN box : e # d => box'[e] = box[e]
<1> DEFINE r == [status |-> "sending", claim |-> box[d].claim + 1, lapsed |-> FALSE]
<1>1. box \in Seq(Row)
  BY DEF OutboxTypeOK
<1>2. box[d] \in Row
  BY <1>1
<1>3. r \in Row /\ r.status = "sending" /\ r.claim = box[d].claim + 1
  BY <1>2 DEF Row, Statuses
<1>4. box' = [box EXCEPT ![d] = r]
  BY DEF Claim
<1> HIDE DEF r
<1>5. box' \in Seq(Row) /\ DOMAIN box' = DOMAIN box
  BY <1>1, <1>3, <1>4, ReplacedRow
<1>6. \A e \in DOMAIN box : box'[e] = IF e = d THEN r ELSE box[e]
  BY <1>1, <1>3, <1>4, ReplacedRow
<1> QED
  BY <1>3, <1>5, <1>6

\* A row more.
LEMMA Queued ==
  ASSUME OutboxTypeOK, QueueNotification
  PROVE  /\ box' \in Seq(Row) /\ DOMAIN box \subseteq DOMAIN box'
         /\ \A e \in DOMAIN box : box'[e] = box[e]
<1>1. box \in Seq(Row) /\ [status |-> "pending", claim |-> 0, lapsed |-> FALSE] \in Row
  BY DEF OutboxTypeOK, Row, Statuses
<1> QED
  BY <1>1 DEF QueueNotification

\* A worker with its answer.
LEMMA Answered ==
  ASSUME OutboxTypeOK, NEW w \in Workers, Call(w)
  PROVE  /\ worker' \in [Workers -> [row : Nat, claim : Nat, answer : Answers \cup {"none"}]]
         /\ \A v \in Workers : /\ worker'[v].row = worker[v].row
                               /\ worker'[v].claim = worker[v].claim
                               /\ v # w => worker'[v] = worker[v]
         /\ worker'[w] # Idle
<1>1. PICK a \in Answers : worker' = [worker EXCEPT ![w].answer = a]
  BY DEF Call
<1> DEFINE r == [worker[w] EXCEPT !.answer = a]
<1>2. worker \in [Workers -> [row : Nat, claim : Nat, answer : Answers \cup {"none"}]]
  BY DEF OutboxTypeOK
<1>3. worker[w] \in [row : Nat, claim : Nat, answer : Answers \cup {"none"}]
  BY <1>2
<1>4. /\ r \in [row : Nat, claim : Nat, answer : Answers \cup {"none"}]
      /\ r.row = worker[w].row /\ r.claim = worker[w].claim /\ r.answer = a
  BY <1>3
<1>5. r # Idle
  BY <1>4 DEF Idle, Answers
<1>6. worker' = [worker EXCEPT ![w] = r]
  BY <1>1
<1> HIDE DEF r
<1> QED
  BY <1>2, <1>4, <1>5, <1>6

LEMMA OutboxInitInv == OutboxInit => OutboxIInv
<1> SUFFICES ASSUME OutboxInit PROVE OutboxIInv
  OBVIOUS
<1>1. OutboxTypeOK
  BY DEF OutboxInit, OutboxTypeOK, Row, Idle, Answers
<1>2. ClaimInv
  BY DEF OutboxInit, ClaimInv
<1> QED
  BY <1>1, <1>2 DEF OutboxIInv

\* The answer that is recorded is a status.
LEMMA Recorded ==
  ASSUME OutboxTypeOK, NEW w \in Workers, RecordAnswer(w)
  PROVE  /\ worker[w] # Idle /\ worker[w].row \in DOMAIN box
         /\ worker[w].answer \in Statuses
         /\ worker' = [worker EXCEPT ![w] = Idle] /\ UNCHANGED faults
<1>1. worker[w] # Idle
  BY DEF RecordAnswer, Idle
<1>2. worker[w] \in [row : Nat, claim : Nat, answer : Answers \cup {"none"}]
  BY DEF OutboxTypeOK
<1>3. worker[w].answer \in Answers
  BY <1>2 DEF RecordAnswer
<1> QED
  BY <1>1, <1>3 DEF RecordAnswer, OutboxTypeOK, Answers, Statuses

LEMMA OutboxStepType == OutboxIInv /\ [OutboxNext]_outboxVars => OutboxTypeOK'
<1> SUFFICES ASSUME OutboxIInv, [OutboxNext]_outboxVars PROVE OutboxTypeOK'
  OBVIOUS
<1> DEFINE W == [row : Nat, claim : Nat, answer : Answers \cup {"none"}]
<1>1. OutboxTypeOK /\ worker \in [Workers -> W] /\ faults \in Nat
  BY DEF OutboxIInv, OutboxTypeOK
<1>2. Fault => faults' \in Nat
  BY <1>1 DEF Fault
<1>3. Idle \in W
  BY DEF Idle
<1>a. ASSUME box' \in Seq(Row), DOMAIN box \subseteq DOMAIN box', faults' \in Nat,
             worker' \in [Workers -> W],
             \A w \in Workers : worker'[w] # Idle =>
               \/ worker[w] # Idle /\ worker'[w].row = worker[w].row
               \/ worker'[w].row \in DOMAIN box'
      PROVE  OutboxTypeOK'
  BY <1>a, <1>1 DEF OutboxTypeOK
<1> HIDE DEF W
<1>4. CASE QueueNotification
  BY <1>4, <1>1, <1>a, Queued DEF QueueNotification
<1>5. ASSUME NEW w \in Workers, Call(w)
      PROVE  OutboxTypeOK'
  <2>1. worker' \in [Workers -> W]
    BY <1>1, <1>5, Answered DEF W
  <2>2. \A v \in Workers : worker'[v] # Idle =>
          worker[v] # Idle /\ worker'[v].row = worker[v].row
    BY <1>1, <1>5, Answered DEF Call
  <2>3. UNCHANGED box /\ faults' \in Nat
    BY <1>1, <1>2, <1>5 DEF Call
  <2> QED
    BY <1>1, <1>a, <2>1, <2>2, <2>3 DEF OutboxTypeOK
<1>6. ASSUME NEW w \in Workers, RecordAnswer(w)
      PROVE  OutboxTypeOK'
  <2>1. box' \in Seq(Row) /\ DOMAIN box' = DOMAIN box
    <3>1. CASE Owns(w)
      BY <1>1, <1>6, <3>1, Recorded, SetStatus DEF RecordAnswer
    <3>2. CASE ~Owns(w)
      BY <1>1, <1>6, <3>2 DEF RecordAnswer, OutboxTypeOK
    <3> QED
      BY <3>1, <3>2
  <2> QED
    BY <1>1, <1>3, <1>6, <1>a, <2>1, Recorded
<1>7. ASSUME NEW w \in Workers, Die(w)
      PROVE  OutboxTypeOK'
  BY <1>1, <1>2, <1>3, <1>7, <1>a DEF Die, OutboxTypeOK
<1>8. ASSUME NEW d \in DOMAIN box, Discard(d) \/ Lapse(d) \/ Overrun(d)
      PROVE  OutboxTypeOK'
  <2>1. box' \in Seq(Row) /\ DOMAIN box' = DOMAIN box
    BY <1>1, <1>8, SetStatus, SetLapsed DEF Discard, Lapse, Overrun, Statuses
  <2>2. UNCHANGED worker /\ faults' \in Nat
    BY <1>1, <1>2, <1>8 DEF Discard, Lapse, Overrun
  <2> QED
    BY <1>1, <1>a, <2>1, <2>2
<1>9. ASSUME NEW w \in Workers, NEW d \in DOMAIN box, Claim(w, d)
      PROVE  OutboxTypeOK'
  <2> DEFINE r == [row |-> d, claim |-> box[d].claim + 1, answer |-> "none"]
  <2>1. box' \in Seq(Row) /\ DOMAIN box' = DOMAIN box
    BY <1>1, <1>9, SetClaim
  <2>2. box \in Seq(Row) /\ box[d] \in Row /\ d \in Nat
    BY <1>1 DEF OutboxTypeOK
  <2>3. r \in W /\ r.row = d
    BY <2>2 DEF W, Row
  <2>4. worker' = [worker EXCEPT ![w] = r] /\ UNCHANGED faults
    BY <1>9 DEF Claim
  <2> HIDE DEF r
  <2> QED
    BY <1>1, <1>a, <2>1, <2>3, <2>4
<1>10. CASE UNCHANGED outboxVars
  BY <1>1, <1>10 DEF outboxVars, OutboxTypeOK
<1> QED
  BY <1>4, <1>5, <1>6, <1>7, <1>8, <1>9, <1>10 DEF OutboxNext

\* A step without a claim: workers keep their rows or let them go, and a row that a
\* worker has the last claim of stays as it was.
LEMMA NoClaim ==
  ASSUME OutboxIInv, DOMAIN box \subseteq DOMAIN box',
         \A w \in Workers : worker'[w] # Idle =>
           /\ worker[w] # Idle
           /\ worker'[w].row = worker[w].row /\ worker'[w].claim = worker[w].claim,
         \A e \in DOMAIN box : box'[e].claim = box[e].claim,
         \A w \in Workers :
           worker'[w] # Idle /\ worker[w].claim = box[worker[w].row].claim
             => box'[worker[w].row].status = box[worker[w].row].status
  PROVE  ClaimInv'
<1>1. ASSUME NEW w \in Workers, worker'[w] # Idle
      PROVE  /\ worker'[w].row \in DOMAIN box'
             /\ worker'[w].claim \in 1..box'[worker'[w].row].claim
             /\ worker'[w].claim = box'[worker'[w].row].claim =>
                  box'[worker'[w].row].status = "sending"
  <2>1. /\ worker[w] # Idle
        /\ worker'[w].row = worker[w].row /\ worker'[w].claim = worker[w].claim
    BY <1>1
  <2>2. /\ worker[w].row \in DOMAIN box
        /\ worker[w].claim \in 1..box[worker[w].row].claim
        /\ worker[w].claim = box[worker[w].row].claim =>
             box[worker[w].row].status = "sending"
    BY <2>1 DEF OutboxIInv, ClaimInv
  <2>3. box'[worker[w].row].claim = box[worker[w].row].claim
    BY <2>2
  <2> QED
    BY <1>1, <2>1, <2>2, <2>3
<1>2. \A v, w \in Workers :
        v # w /\ worker'[v] # Idle /\ worker'[w] # Idle /\ worker'[v].row = worker'[w].row
          => worker'[v].claim # worker'[w].claim
  BY DEF OutboxIInv, ClaimInv
<1> QED
  BY <1>1, <1>2 DEF ClaimInv

LEMMA StepClaims == OutboxIInv /\ [OutboxNext]_outboxVars => ClaimInv'
<1> SUFFICES ASSUME OutboxIInv, [OutboxNext]_outboxVars PROVE ClaimInv'
  OBVIOUS
<1>1. /\ OutboxTypeOK
      /\ worker \in [Workers -> [row : Nat, claim : Nat, answer : Answers \cup {"none"}]]
  BY DEF OutboxIInv, OutboxTypeOK
<1>2. CASE QueueNotification
  <2>1. \A w \in Workers : worker[w] # Idle => worker[w].row \in DOMAIN box
    BY <1>1 DEF OutboxTypeOK
  <2>2. DOMAIN box \subseteq DOMAIN box' /\ \A e \in DOMAIN box : box'[e] = box[e]
    BY <1>1, <1>2, Queued
  <2>3. UNCHANGED worker
    BY <1>2 DEF QueueNotification
  <2> QED
    BY <2>1, <2>2, <2>3, NoClaim
<1>3. ASSUME NEW w \in Workers, Call(w)
      PROVE  ClaimInv'
  <2>1. \A v \in Workers : /\ worker'[v].row = worker[v].row
                           /\ worker'[v].claim = worker[v].claim
                           /\ worker'[v] # Idle => worker[v] # Idle
    BY <1>1, <1>3, Answered DEF Call
  <2>2. UNCHANGED box
    BY <1>3 DEF Call
  <2> QED
    BY <2>1, <2>2, NoClaim
<1>4. ASSUME NEW w \in Workers, RecordAnswer(w)
      PROVE  ClaimInv'
  <2>1. /\ worker[w] # Idle /\ worker[w].row \in DOMAIN box
        /\ worker[w].answer \in Statuses
        /\ worker' = [worker EXCEPT ![w] = Idle]
    BY <1>1, <1>4, Recorded
  <2>2. \A v \in Workers : worker'[v] # Idle =>
          v # w /\ worker[v] # Idle /\ worker'[v] = worker[v]
    BY <1>1, <2>1
  <2>3. CASE ~Owns(w)
    BY <1>4, <2>2, <2>3, NoClaim DEF RecordAnswer
  <2>4. CASE Owns(w)
    <3>1. box' = [box EXCEPT ![worker[w].row].status = worker[w].answer]
      BY <1>4, <2>4 DEF RecordAnswer
    <3>2. /\ DOMAIN box' = DOMAIN box
          /\ \A e \in DOMAIN box : box'[e].claim = box[e].claim
          /\ \A e \in DOMAIN box : e # worker[w].row => box'[e] = box[e]
      BY <1>1, <2>1, <3>1, SetStatus
    <3>3. worker[w].claim = box[worker[w].row].claim
      BY <2>4 DEF Owns
    <3>4. \A v \in Workers :
            worker'[v] # Idle /\ worker[v].claim = box[worker[v].row].claim
              => worker[v].row \in DOMAIN box /\ worker[v].row # worker[w].row
      BY <2>1, <2>2, <3>3 DEF OutboxIInv, ClaimInv
    <3> QED
      BY <2>2, <3>2, <3>4, NoClaim
  <2> QED
    BY <2>3, <2>4
<1>5. ASSUME NEW w \in Workers, Die(w)
      PROVE  ClaimInv'
  BY <1>1, <1>5, NoClaim DEF Die
<1>6. ASSUME NEW d \in DOMAIN box, Discard(d)
      PROVE  ClaimInv'
  <2>1. UNCHANGED worker /\ box[d].status = "delivered"
    BY <1>6 DEF Discard
  <2>2. /\ DOMAIN box' = DOMAIN box
        /\ \A e \in DOMAIN box : box'[e].claim = box[e].claim
        /\ \A e \in DOMAIN box : e # d => box'[e] = box[e]
    BY <1>1, <1>6, SetStatus DEF Discard, Statuses
  <2>3. \A v \in Workers :
          worker[v] # Idle /\ worker[v].claim = box[worker[v].row].claim
            => worker[v].row \in DOMAIN box /\ worker[v].row # d
    BY <2>1 DEF OutboxIInv, ClaimInv
  <2> QED
    BY <2>1, <2>2, <2>3, NoClaim
<1>7. ASSUME NEW d \in DOMAIN box, Lapse(d) \/ Overrun(d)
      PROVE  ClaimInv'
  <2>1. UNCHANGED worker /\ box' = [box EXCEPT ![d].lapsed = TRUE]
    BY <1>7 DEF Lapse, Overrun
  <2>2. /\ DOMAIN box' = DOMAIN box
        /\ \A e \in DOMAIN box : /\ box'[e].claim = box[e].claim
                                 /\ box'[e].status = box[e].status
    BY <1>1, <2>1, SetLapsed
  <2>3. \A v \in Workers : worker[v] # Idle => worker[v].row \in DOMAIN box
    BY DEF OutboxIInv, ClaimInv
  <2> QED
    BY <2>1, <2>2, <2>3, NoClaim
<1>8. ASSUME NEW w \in Workers, NEW d \in DOMAIN box, Claim(w, d)
      PROVE  ClaimInv'
  <2>1. box \in Seq(Row) /\ box[d] \in Row
    BY <1>1 DEF OutboxTypeOK
  <2>2. box[d].claim \in Nat
    BY <2>1 DEF Row
  <2>3. /\ worker'[w].row = d /\ worker'[w].claim = box[d].claim + 1
        /\ \A v \in Workers : v # w => worker'[v] = worker[v]
    BY <1>1, <1>8 DEF Claim
  <2>4. /\ DOMAIN box' = DOMAIN box
        /\ box'[d].status = "sending" /\ box'[d].claim = box[d].claim + 1
        /\ \A e \in DOMAIN box : e # d => box'[e] = box[e]
    BY <1>1, <1>8, SetClaim
  <2>5. ASSUME NEW v \in Workers, v # w, worker[v] # Idle
        PROVE  /\ worker[v].row \in DOMAIN box
               /\ worker[v].claim \in 1..box[worker[v].row].claim
               /\ worker[v].claim = box[worker[v].row].claim =>
                    box[worker[v].row].status = "sending"
    BY <2>5 DEF OutboxIInv, ClaimInv
  <2>6. ASSUME NEW v \in Workers, worker'[v] # Idle
        PROVE  /\ worker'[v].row \in DOMAIN box'
               /\ worker'[v].claim \in 1..box'[worker'[v].row].claim
               /\ worker'[v].claim = box'[worker'[v].row].claim =>
                    box'[worker'[v].row].status = "sending"
    <3>1. CASE v = w
      BY <2>2, <2>3, <2>4, <3>1
    <3>2. CASE v # w /\ worker[v].row = d
      BY <2>2, <2>3, <2>4, <2>5, <2>6, <3>2
    <3>3. CASE v # w /\ worker[v].row # d
      BY <2>3, <2>4, <2>5, <2>6, <3>3
    <3> QED
      BY <3>1, <3>2, <3>3
  <2>7. ASSUME NEW u \in Workers, NEW v \in Workers, u # v,
               worker'[u] # Idle, worker'[v] # Idle, worker'[u].row = worker'[v].row
        PROVE  worker'[u].claim # worker'[v].claim
    <3>1. CASE u # w /\ v # w
      BY <2>3, <2>7, <3>1 DEF OutboxIInv, ClaimInv
    <3>2. CASE u = w
      BY <2>2, <2>3, <2>5, <2>7, <3>2
    <3>3. CASE v = w
      BY <2>2, <2>3, <2>5, <2>7, <3>3
    <3> QED
      BY <3>1, <3>2, <3>3
  <2> QED
    BY <2>6, <2>7 DEF ClaimInv
<1>9. CASE UNCHANGED outboxVars
  BY <1>9 DEF outboxVars, OutboxIInv, ClaimInv
<1> QED
  BY <1>2, <1>3, <1>4, <1>5, <1>6, <1>7, <1>8, <1>9 DEF OutboxNext

\* Nobody shares a claim, and the row of the last claim waits for its answer,
\* whatever workers die, overrun their leases and come back late.
THEOREM ClaimsAreHeld == OutboxSpec => []OutboxIInv
<1>1. OutboxIInv /\ [OutboxNext]_outboxVars => OutboxIInv'
  BY OutboxStepType, StepClaims DEF OutboxIInv
<1> QED
  BY <1>1, OutboxInitInv, PTL DEF OutboxSpec

-----------------------------------------------------------------------------
\* A step in which a worker whose claim is the last one lets go of its row and nothing
\* fails is the one that records its answer.
LEMMA LettingGo ==
  ASSUME OutboxIInv, OutboxNext, NEW w \in Workers, worker[w] # Idle, worker'[w] = Idle,
         faults' = faults
  PROVE  RecordAnswer(w)
<1> USE DEF OutboxIInv, OutboxTypeOK, Idle, Fault
<1>1. CASE QueueNotification
  BY <1>1 DEF QueueNotification
<1>2. ASSUME NEW v \in Workers, Call(v)
      PROVE  FALSE
  BY <1>2 DEF Call, Answers
<1>3. ASSUME NEW v \in Workers, RecordAnswer(v)
      PROVE  v = w
  BY <1>3 DEF RecordAnswer
<1>4. ASSUME NEW v \in Workers, Die(v)
      PROVE  FALSE
  BY <1>4 DEF Die
<1>5. ASSUME NEW d \in DOMAIN box, Discard(d) \/ Lapse(d) \/ Overrun(d)
      PROVE  FALSE
  BY <1>5 DEF Discard, Lapse, Overrun
<1>6. ASSUME NEW v \in Workers, NEW d \in DOMAIN box, Claim(v, d)
      PROVE  FALSE
  BY <1>6 DEF Claim
<1> QED
  BY <1>1, <1>2, <1>3, <1>4, <1>5, <1>6 DEF OutboxNext

\* HolderIsBelieved: what the webhook answered the worker whose lease runs is what
\* gets on record.
THEOREM HolderIsAlwaysBelieved == OutboxSpec => HolderIsBelieved
<1> DEFINE Believed ==
      \A w \in Workers :
        LET d == worker[w].row
        IN /\ worker[w] # Idle /\ Holder(w, d) /\ ~box[d].lapsed
           /\ worker'[w] = Idle /\ faults' = faults
           => box'[d].status = worker[w].answer
<1>1. OutboxIInv /\ [OutboxNext]_outboxVars => [Believed]_outboxVars
  <2> SUFFICES ASSUME OutboxIInv, OutboxNext, NEW w \in Workers, worker[w] # Idle,
                      Holder(w, worker[w].row), worker'[w] = Idle, faults' = faults
               PROVE  box'[worker[w].row].status = worker[w].answer
    BY DEF Believed
  <2>1. RecordAnswer(w)
    BY LettingGo
  <2>2. Owns(w)
    BY DEF OutboxIInv, ClaimInv, Holder, Owns
  <2> QED
    BY <2>1, <2>2, Recorded, SetStatus DEF RecordAnswer, OutboxIInv
<1> QED
  BY <1>1, ClaimsAreHeld, PTL DEF OutboxSpec, HolderIsBelieved
================================================================================
