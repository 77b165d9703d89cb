------------------------------ MODULE HostAccess ------------------------------
(***************************************************************************)
(* Enrolled hosts of the control plane and the addresses they own          *)
(* (operations_api.py, operations_store.py): one-time tokens, revocation,  *)
(* rotation and policies, the seeding of hosts from the configuration when *)
(* the service starts, and the map from addresses to hosts that the        *)
(* service keeps in memory and that detection.lateral_rules correlates     *)
(* events by.                                                              *)
(*                                                                         *)
(* Handlers that are coroutines run on one event loop and do not await     *)
(* between their transaction and the end; the others run on threads of     *)
(* their own.  Every handler commits, reads the policies again and assigns *)
(* the map, with any other thread in between.                              *)
(*                                                                         *)
(* A definition standing before the one whose parameters it shares, and    *)
(* used nowhere, is a mutated form of it (PROJECT.json, "mutants").        *)
(***************************************************************************)
EXTENDS Naturals, Sequences, FiniteSets

CONSTANTS
  Hosts, Addresses,
  Loop,        \* the event loop
  Threads,     \* of handlers that are not coroutines
  Configs,     \* configurations: the addresses of the hosts they name, each of one
  Events,      \* signals on hosts and logins from addresses, with their times
  Nobody,
  MaxTokens,   \* bounds: enrolment tokens,
  MaxUpdates   \* policy updates, rotations and restarts

ASSUME AccessAssumption ==
  /\ Nobody \notin Hosts /\ Loop \notin Threads
  /\ MaxTokens \in Nat /\ MaxUpdates \in Nat
  /\ \A c \in Configs :
       /\ DOMAIN c \subseteq Hosts
       /\ \A h \in DOMAIN c : c[h] \subseteq Addresses
       /\ \A g, h \in DOMAIN c : g # h => c[g] \cap c[h] = {}
  /\ \A e \in Events : e.host \in Hosts /\ e.address \in Addresses

VARIABLES
  hosts,      \* the enrolled_hosts table
  tokens,     \* the enrollment_tokens table, by age
  map,        \* store.host_addresses
  handler,    \* handlers after their transaction
  events,     \* events that are stored
  alerts,     \* suspected_lateral_movement
  updates,
  imported,   \* hosts that came from a changed configuration
  overtaken   \* whether map was last assigned what was not true any more

countVars == <<updates, imported, overtaken>>
accessVars == <<hosts, tokens, map, handler, events, alerts, countVars>>

Processes == Threads \cup {Loop}
Statuses == {"unknown", "pending", "active", "revoked"}
Maps == [Addresses -> Hosts \cup {Nobody}]
Unknown == [status |-> "unknown", addresses |-> {}]
NoMap == [a \in Addresses |-> Nobody]
Idle == [at |-> "idle", map |-> NoMap]

AccessTypeOK ==
  /\ hosts \in [Hosts -> [status : Statuses, addresses : SUBSET Addresses]]
  /\ tokens \in Seq([host : Hosts, used : BOOLEAN, expired : BOOLEAN])
  /\ map \in Maps
  /\ handler \in [Processes -> [at : {"idle", "committed", "read"}, map : Maps]]
  /\ events \subseteq Events
  /\ alerts \subseteq [source : Hosts, target : Hosts, address : Addresses]
  /\ updates \in 0..MaxUpdates /\ imported \subseteq Hosts /\ overtaken \in BOOLEAN

Is(h, status) == hosts[h].status = status

\* host_policies and the comprehension in refresh_addresses, of a table; if two hosts
\* have the address, either.
OwnersIn(table) ==
  [a \in Addresses |->
     LET owners == {h \in Hosts : table[h].status = "active" /\ a \in table[h].addresses}
     IN IF owners = {} THEN Nobody ELSE CHOOSE h \in owners : TRUE]
Owners == OwnersIn(hosts)

\* seed_hosts: hosts that are in the table already keep what they have.
Seeded(table, config) ==
  [h \in Hosts |-> IF h \in DOMAIN config /\ table[h] = Unknown
                   THEN [status |-> "active", addresses |-> config[h]]
                   ELSE table[h]]

AccessInit ==
  /\ \E c \in Configs : hosts = Seeded([h \in Hosts |-> Unknown], c)
  /\ map = Owners
  /\ tokens = <<>>
  /\ handler = [p \in Processes |-> Idle]
  /\ events = {} /\ alerts = {}
  /\ updates = 0 /\ imported = {} /\ overtaken = FALSE

-----------------------------------------------------------------------------
(* Enrolment and policies.                                                 *)

OtherActive(h) == {g \in Hosts \ {h} : Is(g, "active")}

\* The hosts whose addresses another one cannot have.
Others(h) == {g \in Hosts \ {h} : ~Is(g, "revoked")}

\* addresses_available
Available(h, addresses) == \A g \in Others(h) : hosts[g].addresses \cap addresses = {}

UsedUp(h) ==
  [t \in DOMAIN tokens |-> IF tokens[t].host = h THEN [tokens[t] EXCEPT !.used = TRUE]
                                                 ELSE tokens[t]]

Commits(p) == handler' = [handler EXCEPT ![p] = [at |-> "committed", map |-> NoMap]]
Stays(p) == UNCHANGED handler

\* enrollment_token, one BEGIN IMMEDIATE transaction.
IssueToken(h, addresses) ==
  /\ handler[Loop] = Idle /\ Len(tokens) < MaxTokens
  /\ Is(h, "unknown") \/ Is(h, "revoked")
  /\ Available(h, addresses)
  /\ hosts' = [hosts EXCEPT ![h] = [status |-> "pending", addresses |-> addresses]]
  /\ tokens' = Append(UsedUp(h), [host |-> h, used |-> FALSE, expired |-> FALSE])
  /\ UNCHANGED <<map, handler, events, alerts, countVars>>

\* ttl_seconds pass.
Expire(t) ==
  /\ t \in DOMAIN tokens /\ ~tokens[t].expired
  /\ tokens' = [tokens EXCEPT ![t].expired = TRUE]
  /\ UNCHANGED <<hosts, map, handler, events, alerts, countVars>>

NotExpired(t) == ~tokens[t].expired

Redeemable(t) == ~tokens[t].used /\ ~tokens[t].expired

\* enroll, one BEGIN IMMEDIATE transaction; the refresh follows.
Enroll(t) ==
  /\ handler[Loop] = Idle
  /\ t \in DOMAIN tokens /\ Redeemable(t)
  /\ Is(tokens[t].host, "pending")
  /\ hosts' = [hosts EXCEPT ![tokens[t].host].status = "active"]
  /\ tokens' = [tokens EXCEPT ![t].used = TRUE]
  /\ Commits(Loop)
  /\ UNCHANGED <<map, events, alerts, countVars>>

\* revoke, on a thread.
Revoke(p, h) ==
  /\ p \in Threads /\ handler[p] = Idle
  /\ Is(h, "pending") \/ Is(h, "active")
  /\ hosts' = [hosts EXCEPT ![h].status = "revoked"]
  /\ tokens' = UsedUp(h)
  /\ Commits(p)
  /\ UNCHANGED <<map, events, alerts, countVars>>

Forgets(p) == Stays(p)
Refreshes(p) == Commits(p)

\* policy_update, one BEGIN IMMEDIATE transaction; the refresh follows.
UpdatePolicy(h, addresses) ==
  /\ handler[Loop] = Idle /\ updates < MaxUpdates
  /\ Is(h, "pending") \/ Is(h, "active")
  /\ Available(h, addresses)
  /\ updates' = updates + 1
  /\ hosts' = [hosts EXCEPT ![h].addresses = addresses]
  /\ Refreshes(Loop)
  /\ UNCHANGED <<tokens, map, events, alerts, imported, overtaken>>

\* refresh_addresses reads the policies,
ReadPolicies(p) ==
  /\ handler[p].at = "committed"
  /\ handler' = [handler EXCEPT ![p] = [at |-> "read", map |-> Owners]]
  /\ UNCHANGED <<hosts, tokens, map, events, alerts, countVars>>

\* and assigns the map.
AssignMap(p) ==
  /\ handler[p].at = "read"
  /\ map' = handler[p].map
  /\ overtaken' = (handler[p].map # Owners)
  /\ handler' = [handler EXCEPT ![p] = Idle]
  /\ UNCHANGED <<hosts, tokens, events, alerts, updates, imported>>

\* The service stops, whatever it was doing, and starts, perhaps with another
\* configuration; create_app checks only that no two of its hosts share an address.
Restart(config) ==
  /\ updates < MaxUpdates
  /\ updates' = updates + 1
  /\ hosts' = Seeded(hosts, config)
  /\ imported' = imported \cup {h \in Hosts : hosts'[h] # hosts[h]}
  /\ map' = OwnersIn(hosts')
  /\ handler' = [p \in Processes |-> Idle]
  /\ overtaken' = FALSE
  /\ UNCHANGED <<tokens, events, alerts>>

-----------------------------------------------------------------------------
(* Detection.                                                              *)

Signals(stored) == {e \in stored : e.kind = "signal"}
Logins(stored) == {e \in stored : e.kind = "login"}

\* A signal on a host and a later login elsewhere from an address of that host.
Movement(s, l, owners) ==
  /\ owners[l.address] = s.host /\ l.host # s.host /\ s.at <= l.at
Movements(signals, logins, owners) ==
  {[source |-> p[1].host, target |-> p[2].host, address |-> p[2].address] :
     p \in {p \in signals \X logins : Movement(p[1], p[2], owners)}}

SourceOfLogin(e) == IF e.kind = "login" THEN {map[e.address]} ELSE {}

\* The hosts that an event makes lateral_rules look at.
Sources(e) == {IF e.kind = "signal" THEN e.host ELSE map[e.address]}

LateralRules(e, stored) ==
  Movements({s \in Signals(stored) : s.host \in Sources(e)}, Logins(stored), map)

SameAlert(m, n) == m.target = n.target /\ m.address = n.address

\* ingest, of one recent event of an active host; its duplicates change nothing.  All
\* events come within five minutes, in which there is one alert of a kind.
Ingest(e) ==
  /\ handler[Loop] = Idle
  /\ e \in Events \ events /\ Is(e.host, "active")
  /\ events' = events \cup {e}
  /\ alerts' = alerts \cup {m \in LateralRules(e, events') :
                             \A n \in alerts : ~SameAlert(m, n)}
  /\ UNCHANGED <<hosts, tokens, map, handler, countVars>>

-----------------------------------------------------------------------------
AccessNext ==
  \/ \E h \in Hosts, addresses \in SUBSET Addresses :
       IssueToken(h, addresses) \/ UpdatePolicy(h, addresses)
  \/ \E t \in DOMAIN tokens : Expire(t) \/ Enroll(t)
  \/ \E p \in Threads, h \in Hosts : Revoke(p, h)
  \/ \E p \in Processes : ReadPolicies(p) \/ AssignMap(p)
  \/ \E c \in Configs : Restart(c)
  \/ \E e \in Events : Ingest(e)

AccessSpec == AccessInit /\ [][AccessNext]_accessVars

-----------------------------------------------------------------------------
(* Properties.                                                             *)

\* "Duplicate active address ownership is rejected", by every handler.  Not by the
\* import of a configuration.
AddressHasOneOwner ==
  \A g, h \in Hosts :
    /\ g # h /\ {g, h} \cap imported = {}
    /\ hosts[g].status \in {"pending", "active"} /\ hosts[h].status \in {"pending", "active"}
    => hosts[g].addresses \cap hosts[h].addresses = {}

\* When no handler is at it, the map that events are correlated by is that of the
\* active hosts' policies, unless a thread assigned last what it had read before
\* another handler's transaction.
MapIsCurrent ==
  (\A p \in Processes : handler[p] = Idle) /\ ~overtaken =>
    \A a \in Addresses :
      \/ map[a] = Owners[a]
      \/ map[a] \in imported \/ Owners[a] \in imported

\* A host is enrolled only by redeeming the token that was issued for it last: not by
\* one of an enrolment that was revoked, nor by one that was redeemed before.
LastTokenEnrols ==
  [][\A h \in Hosts :
       Is(h, "pending") /\ hosts'[h].status = "active" =>
         \E t \in DOMAIN tokens :
           /\ tokens[t].host = h /\ ~tokens[t].used /\ tokens'[t].used
           /\ \A u \in DOMAIN tokens : tokens[u].host = h => u <= t]_accessVars

\* "Check both sides for out-of-order delivery": a signal and a later login from an
\* address of its host are reported when the second of them arrives, whichever that
\* is, if the map is then as the policies have it; and nothing else is reported.
MovementIsSeen ==
  [][events' # events /\ map = Owners =>
       LET before == Movements(Signals(events), Logins(events), Owners)
           after == Movements(Signals(events'), Logins(events'), Owners)
       IN /\ \A m \in after \ before : \E n \in alerts' : SameAlert(m, n)
          /\ alerts' \ alerts \subseteq after]_accessVars
=============================================================================
