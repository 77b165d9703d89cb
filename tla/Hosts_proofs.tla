------------------------------ MODULE Hosts_proofs ------------------------------
(***************************************************************************)
(* Proofs about what the control plane keeps of hosts and does to their    *)
(* files: HostAccess, for any hosts, addresses, threads, configurations,   *)
(* events and bounds, and Quarantine, for any files and contents.          *)
(***************************************************************************)
EXTENDS HostAccess, Quarantine, SequenceTheorems, TLAPS

(***************************************************************************)
(* HostAccess.                                                             *)
(***************************************************************************)

Entry == [status : Statuses, addresses : SUBSET Addresses]
Token == [host : Hosts, used : BOOLEAN, expired : BOOLEAN]

\* Of the tokens of a host only the last one may be unused.
OldTokensAreUsed ==
  \A t, u \in DOMAIN tokens : t < u /\ tokens[t].host = tokens[u].host => tokens[t].used

\* A map that no handler is about to replace and that was not overtaken is the one of
\* the policies.
MapInv == (\A p \in Processes : handler[p] = Idle) /\ ~overtaken => map = Owners

AccessIInv == AccessTypeOK /\ AddressHasOneOwner /\ OldTokensAreUsed /\ MapInv

\* What the seeding of hosts leaves alone and what it makes of the rest.
LEMMA SeededTable ==
  ASSUME NEW table \in [Hosts -> Entry], NEW c \in Configs
  PROVE  /\ Seeded(table, c) \in [Hosts -> Entry]
         /\ \A h \in Hosts : table[h] # Unknown => Seeded(table, c)[h] = table[h]
<1>1. \A h \in DOMAIN c : c[h] \subseteq Addresses
  BY AccessAssumption
<1> QED
  BY <1>1 DEF Seeded, Entry, Statuses

LEMMA OwnersType == \A table : OwnersIn(table) \in Maps
<1> SUFFICES ASSUME NEW table, NEW a \in Addresses
             PROVE  OwnersIn(table)[a] \in Hosts \cup {Nobody}
  BY DEF OwnersIn, Maps
<1> DEFINE O == {h \in Hosts : table[h].status = "active" /\ a \in table[h].addresses}
<1>1. OwnersIn(table)[a] = IF O = {} THEN Nobody ELSE CHOOSE h \in O : TRUE
  BY DEF OwnersIn
<1>2. O # {} => (CHOOSE h \in O : TRUE) \in O
  OBVIOUS
<1> QED
  BY <1>1, <1>2

LEMMA UsedUpTokens ==
  ASSUME AccessTypeOK, NEW h \in Hosts
  PROVE  /\ UsedUp(h) \in Seq(Token) /\ DOMAIN UsedUp(h) = DOMAIN tokens
         /\ Len(UsedUp(h)) = Len(tokens)
         /\ \A t \in DOMAIN tokens :
              /\ UsedUp(h)[t].host = tokens[t].host
              /\ tokens[t].used \/ tokens[t].host = h => UsedUp(h)[t].used
<1>1. tokens \in Seq(Token)
  BY DEF AccessTypeOK, Token
<1>2. \A t \in DOMAIN tokens : tokens[t] \in Token
  BY <1>1
<1>3. \A t \in DOMAIN tokens : UsedUp(h)[t] \in Token
  BY <1>2 DEF UsedUp, Token
<1>4. /\ DOMAIN UsedUp(h) = DOMAIN tokens
      /\ \A t \in DOMAIN tokens :
           /\ UsedUp(h)[t].host = tokens[t].host
           /\ tokens[t].used \/ tokens[t].host = h => UsedUp(h)[t].used
  BY <1>2 DEF UsedUp, Token
<1>5. Len(tokens) \in Nat /\ DOMAIN tokens = 1..Len(tokens)
  BY <1>1
<1>6. UsedUp(h) \in [1..Len(tokens) -> Token]
  BY <1>3, <1>5 DEF UsedUp
<1>7. UsedUp(h) \in Seq(Token)
  BY <1>5, <1>6, SeqDef
<1>8. Len(UsedUp(h)) = Len(tokens)
  BY <1>4, <1>5, <1>7, LenProperties
<1> QED
  BY <1>4, <1>7, <1>8

\* One token that is changed.
LEMMA ChangedToken ==
  ASSUME NEW s \in Seq(Token), NEW t \in DOMAIN s, NEW r \in Token
  PROVE  /\ [s EXCEPT ![t] = r] \in Seq(Token)
         /\ DOMAIN [s EXCEPT ![t] = r] = DOMAIN s
         /\ \A u \in DOMAIN s : [s EXCEPT ![t] = r][u] = IF u = t THEN r ELSE s[u]
<1> QED
  OBVIOUS

\* What Enroll and Expire do to the tokens.
LEMMA TokenSteps ==
  ASSUME AccessTypeOK, NEW t \in DOMAIN tokens,
         \/ tokens' = [tokens EXCEPT ![t].used = TRUE]
         \/ tokens' = [tokens EXCEPT ![t].expired = TRUE]
  PROVE  /\ tokens' \in Seq(Token) /\ DOMAIN tokens' = DOMAIN tokens
         /\ \A u \in DOMAIN tokens : /\ tokens'[u].host = tokens[u].host
                                     /\ tokens[u].used => tokens'[u].used
<1>1. tokens \in Seq(Token)
  BY DEF AccessTypeOK, Token
<1>2. tokens[t] \in Token
  BY <1>1
<1>3. CASE tokens' = [tokens EXCEPT ![t].used = TRUE]
  <2> DEFINE r == [tokens[t] EXCEPT !.used = TRUE]
  <2>1. r \in Token /\ r.host = tokens[t].host /\ r.used
    BY <1>2 DEF Token
  <2>2. tokens' = [tokens EXCEPT ![t] = r]
    BY <1>3
  <2> HIDE DEF r
  <2>3. /\ tokens' \in Seq(Token) /\ DOMAIN tokens' = DOMAIN tokens
        /\ \A u \in DOMAIN tokens : tokens'[u] = IF u = t THEN r ELSE tokens[u]
    BY <1>1, <2>1, <2>2, ChangedToken
  <2> QED
    BY <2>1, <2>3
<1>4. CASE tokens' = [tokens EXCEPT ![t].expired = TRUE]
  <2> DEFINE r == [tokens[t] EXCEPT !.expired = TRUE]
  <2>1. r \in Token /\ r.host = tokens[t].host /\ r.used = tokens[t].used
    BY <1>2 DEF Token
  <2>2. tokens' = [tokens EXCEPT ![t] = r]
    BY <1>4
  <2> HIDE DEF r
  <2>3. /\ tokens' \in Seq(Token) /\ DOMAIN tokens' = DOMAIN tokens
        /\ \A u \in DOMAIN tokens : tokens'[u] = IF u = t THEN r ELSE tokens[u]
    BY <1>1, <2>1, <2>2, ChangedToken
  <2> QED
    BY <2>1, <2>3
<1> QED
  BY <1>3, <1>4

-----------------------------------------------------------------------------
LEMMA InitInv == AccessInit => AccessIInv
<1> SUFFICES ASSUME AccessInit PROVE AccessIInv
  OBVIOUS
<1>1. PICK c \in Configs : hosts = Seeded([h \in Hosts |-> Unknown], c)
  BY DEF AccessInit
<1>2. [h \in Hosts |-> Unknown] \in [Hosts -> Entry]
  BY DEF Unknown, Entry, Statuses
<1>3. hosts \in [Hosts -> Entry]
  BY <1>1, <1>2, SeededTable
<1>4. AccessTypeOK
  <2>1. map \in Maps
    BY OwnersType DEF AccessInit, Owners
  <2>2. handler \in [Processes -> [at : {"idle", "committed", "read"}, map : Maps]]
    BY DEF AccessInit, Idle, NoMap, Maps
  <2>3. tokens \in Seq(Token) /\ updates \in 0..MaxUpdates
    BY AccessAssumption DEF AccessInit
  <2> QED
    BY <1>3, <2>1, <2>2, <2>3 DEF AccessInit, AccessTypeOK, Entry, Token
<1>5. AddressHasOneOwner
  <2> SUFFICES ASSUME NEW g \in Hosts, NEW h \in Hosts, g # h
               PROVE  hosts[g].addresses \cap hosts[h].addresses = {}
    BY DEF AddressHasOneOwner
  <2>1. \A f \in Hosts : hosts[f].addresses = IF f \in DOMAIN c THEN c[f] ELSE {}
    BY <1>1 DEF Seeded, Unknown
  <2> QED
    BY <2>1, AccessAssumption
<1>6. OldTokensAreUsed
  BY DEF AccessInit, OldTokensAreUsed
<1>7. MapInv
  BY DEF AccessInit, MapInv
<1> QED
  BY <1>4, <1>5, <1>6, <1>7 DEF AccessIInv

LEMMA AccessStepType == AccessIInv /\ [AccessNext]_accessVars => AccessTypeOK'
<1> SUFFICES ASSUME AccessIInv, [AccessNext]_accessVars PROVE AccessTypeOK'
  OBVIOUS
<1> DEFINE H == [Processes -> [at : {"idle", "committed", "read"}, map : Maps]]
<1>1. AccessTypeOK /\ hosts \in [Hosts -> Entry] /\ handler \in H /\ tokens \in Seq(Token)
  BY DEF AccessIInv, AccessTypeOK, Entry, Token
<1>2. \A p \in Processes : Commits(p) => handler' \in H
  BY <1>1 DEF Commits, NoMap, Maps
<1>3. Owners \in Maps
  BY OwnersType DEF Owners
<1>4. Threads \subseteq Processes /\ Loop \in Processes
  BY DEF Processes
<1>t. ASSUME hosts' \in [Hosts -> Entry], tokens' \in Seq(Token), map' \in Maps,
             handler' \in H, events' \subseteq Events,
             alerts' \subseteq [source : Hosts, target : Hosts, address : Addresses],
             updates' \in 0..MaxUpdates, imported' \subseteq Hosts, overtaken' \in BOOLEAN
      PROVE  AccessTypeOK'
  BY <1>t DEF AccessTypeOK, Entry, Token
<1>u. /\ map \in Maps /\ events \subseteq Events
      /\ alerts \subseteq [source : Hosts, target : Hosts, address : Addresses]
      /\ updates \in 0..MaxUpdates /\ imported \subseteq Hosts /\ overtaken \in BOOLEAN
  BY <1>1 DEF AccessTypeOK
<1>v. updates < MaxUpdates => updates + 1 \in 0..MaxUpdates
  BY <1>u, AccessAssumption
<1> HIDE DEF H
<1>5. ASSUME NEW h \in Hosts, NEW addresses \in SUBSET Addresses, IssueToken(h, addresses)
      PROVE  AccessTypeOK'
  <2>1. hosts' \in [Hosts -> Entry]
    BY <1>1, <1>5 DEF IssueToken, Entry, Statuses
  <2>2. [host |-> h, used |-> FALSE, expired |-> FALSE] \in Token
    BY DEF Token
  <2>3. tokens' \in Seq(Token)
    BY <1>1, <1>5, <2>2, UsedUpTokens DEF IssueToken
  <2> QED
    BY <1>1, <1>5, <1>t, <1>u, <2>1, <2>3 DEF IssueToken, countVars
<1>6. ASSUME NEW h \in Hosts, NEW addresses \in SUBSET Addresses, UpdatePolicy(h, addresses)
      PROVE  AccessTypeOK'
  <2>1. hosts' \in [Hosts -> Entry]
    BY <1>1, <1>6 DEF UpdatePolicy, Entry
  <2>2. handler' \in H
    BY <1>2, <1>4, <1>6 DEF UpdatePolicy, Refreshes
  <2> QED
    BY <1>1, <1>6, <1>t, <1>u, <1>v, <2>1, <2>2 DEF UpdatePolicy
<1>7. ASSUME NEW t \in DOMAIN tokens, Expire(t)
      PROVE  AccessTypeOK'
  <2>1. tokens' \in Seq(Token)
    BY <1>1, <1>7, TokenSteps DEF Expire
  <2> QED
    BY <1>1, <1>7, <1>t, <1>u, <2>1 DEF Expire, countVars
<1>8. ASSUME NEW t \in DOMAIN tokens, Enroll(t)
      PROVE  AccessTypeOK'
  <2>1. tokens' \in Seq(Token)
    BY <1>1, <1>8, TokenSteps DEF Enroll
  <2>2. hosts' \in [Hosts -> Entry]
    BY <1>1, <1>8 DEF Enroll, Entry, Statuses
  <2> QED
    BY <1>1, <1>2, <1>4, <1>8, <1>t, <1>u, <2>1, <2>2 DEF Enroll, countVars
<1>9. ASSUME NEW p \in Threads, NEW h \in Hosts, Revoke(p, h)
      PROVE  AccessTypeOK'
  <2>1. tokens' \in Seq(Token)
    BY <1>1, <1>9, UsedUpTokens DEF Revoke
  <2>2. hosts' \in [Hosts -> Entry]
    BY <1>1, <1>9 DEF Revoke, Entry, Statuses
  <2> QED
    BY <1>1, <1>2, <1>4, <1>9, <1>t, <1>u, <2>1, <2>2 DEF Revoke, countVars
<1>10. ASSUME NEW p \in Processes, ReadPolicies(p)
       PROVE  AccessTypeOK'
  <2>1. handler' \in H
    BY <1>1, <1>3, <1>10 DEF ReadPolicies, H
  <2> QED
    BY <1>1, <1>10, <1>t, <1>u, <2>1 DEF ReadPolicies, countVars
<1>11. ASSUME NEW p \in Processes, AssignMap(p)
       PROVE  AccessTypeOK'
  <2>1. handler' \in H /\ map' \in Maps
    BY <1>1, <1>11 DEF AssignMap, H, Idle, NoMap, Maps
  <2>2. overtaken' \in BOOLEAN
    BY <1>11 DEF AssignMap
  <2> QED
    BY <1>1, <1>11, <1>t, <1>u, <2>1, <2>2 DEF AssignMap
<1>12. ASSUME NEW c \in Configs, Restart(c)
       PROVE  AccessTypeOK'
  <2>1. hosts' \in [Hosts -> Entry]
    BY <1>1, <1>12, SeededTable DEF Restart
  <2>2. map' \in Maps
    BY <1>12, OwnersType DEF Restart
  <2>3. handler' \in H
    BY <1>12 DEF Restart, H, Idle, NoMap, Maps
  <2>4. imported' \subseteq Hosts
    BY <1>12, <1>u DEF Restart
  <2> QED
    BY <1>1, <1>12, <1>t, <1>u, <1>v, <2>1, <2>2, <2>3, <2>4 DEF Restart
<1>13. ASSUME NEW e \in Events, Ingest(e)
       PROVE  AccessTypeOK'
  <2>1. events' \subseteq Events
    BY <1>13, <1>u DEF Ingest
  <2>2. LateralRules(e, events') \subseteq [source : Hosts, target : Hosts, address : Addresses]
    <3>1. \A f \in events' : f.host \in Hosts /\ f.address \in Addresses
      BY <2>1, AccessAssumption
    <3>2. \A S, T, owners : S \subseteq events' /\ T \subseteq events' =>
            Movements(S, T, owners) \subseteq
              [source : Hosts, target : Hosts, address : Addresses]
      BY <3>1 DEF Movements
    <3>3. {s \in Signals(events') : s.host \in Sources(e)} \subseteq events'
          /\ Logins(events') \subseteq events'
      BY DEF Signals, Logins
    <3> QED
      BY <3>2, <3>3 DEF LateralRules
  <2> QED
    BY <1>1, <1>13, <1>t, <1>u, <2>1, <2>2 DEF Ingest, countVars
<1>14. CASE UNCHANGED accessVars
  BY <1>1, <1>14, <1>t, <1>u DEF accessVars, countVars
<1> QED
  BY <1>5, <1>6, <1>7, <1>8, <1>9, <1>10, <1>11, <1>12, <1>13, <1>14 DEF AccessNext

LEMMA StepOwner == AccessIInv /\ [AccessNext]_accessVars => AddressHasOneOwner'
<1> SUFFICES ASSUME AccessIInv, [AccessNext]_accessVars,
                    NEW g \in Hosts, NEW h \in Hosts, g # h,
                    {g, h} \cap imported' = {},
                    hosts'[g].status \in {"pending", "active"},
                    hosts'[h].status \in {"pending", "active"}
             PROVE  hosts'[g].addresses \cap hosts'[h].addresses = {}
  BY DEF AddressHasOneOwner
<1>1. hosts \in [Hosts -> Entry]
  BY DEF AccessIInv, AccessTypeOK, Entry
<1>2. ASSUME UNCHANGED imported, {hosts'[g], hosts'[h]} = {hosts[g], hosts[h]},
             hosts'[g] = hosts[g]
      PROVE  hosts'[g].addresses \cap hosts'[h].addresses = {}
  BY <1>2 DEF AccessIInv, AddressHasOneOwner
<1>3. ASSUME NEW f \in Hosts, NEW addresses \in SUBSET Addresses, Available(f, addresses),
             \A k \in Hosts \ {f} : hosts'[k] = hosts[k], hosts'[f].addresses = addresses,
             UNCHANGED imported
      PROVE  hosts'[g].addresses \cap hosts'[h].addresses = {}
  <2>1. \A k \in Hosts \ {f} : hosts'[k].status \in {"pending", "active"} =>
          hosts'[k].addresses \cap addresses = {}
    BY <1>3 DEF Available, Others, Is
  <2>2. CASE f \notin {g, h}
    BY <1>3, <2>2 DEF AccessIInv, AddressHasOneOwner
  <2>3. CASE f = g
    BY <1>3, <2>1, <2>3
  <2>4. CASE f = h
    BY <1>3, <2>1, <2>4
  <2> QED
    BY <2>2, <2>3, <2>4
<1>4. ASSUME NEW f \in Hosts, NEW addresses \in SUBSET Addresses,
             IssueToken(f, addresses) \/ UpdatePolicy(f, addresses)
      PROVE  hosts'[g].addresses \cap hosts'[h].addresses = {}
  BY <1>1, <1>3, <1>4 DEF IssueToken, UpdatePolicy, countVars, Entry
<1>5. ASSUME \A k \in Hosts : /\ hosts'[k].addresses = hosts[k].addresses
                              /\ hosts'[k].status \in {"pending", "active"} =>
                                   hosts[k].status \in {"pending", "active"},
             UNCHANGED imported
      PROVE  hosts'[g].addresses \cap hosts'[h].addresses = {}
  BY <1>5 DEF AccessIInv, AddressHasOneOwner
<1>6. ASSUME NEW t \in DOMAIN tokens, Expire(t) \/ Enroll(t)
      PROVE  hosts'[g].addresses \cap hosts'[h].addresses = {}
  BY <1>1, <1>5, <1>6 DEF Expire, Enroll, Is, countVars, Entry
<1>7. ASSUME NEW p \in Threads, NEW k \in Hosts, Revoke(p, k)
      PROVE  hosts'[g].addresses \cap hosts'[h].addresses = {}
  BY <1>1, <1>5, <1>7 DEF Revoke, countVars, Entry
<1>8. ASSUME NEW p \in Processes, ReadPolicies(p) \/ AssignMap(p)
      PROVE  hosts'[g].addresses \cap hosts'[h].addresses = {}
  BY <1>5, <1>8 DEF ReadPolicies, AssignMap, countVars
<1>9. ASSUME NEW c \in Configs, Restart(c)
      PROVE  hosts'[g].addresses \cap hosts'[h].addresses = {}
  <2>1. hosts'[g] = hosts[g] /\ hosts'[h] = hosts[h] /\ {g, h} \cap imported = {}
    BY <1>9 DEF Restart
  <2> QED
    BY <2>1 DEF AccessIInv, AddressHasOneOwner
<1>10. ASSUME NEW e \in Events, Ingest(e)
       PROVE  hosts'[g].addresses \cap hosts'[h].addresses = {}
  BY <1>5, <1>10 DEF Ingest, countVars
<1>11. CASE UNCHANGED accessVars
  BY <1>5, <1>11 DEF accessVars, countVars
<1> QED
  BY <1>4, <1>6, <1>7, <1>8, <1>9, <1>10, <1>11 DEF AccessNext

LEMMA StepTokens == AccessIInv /\ [AccessNext]_accessVars => OldTokensAreUsed'
<1> SUFFICES ASSUME AccessIInv, [AccessNext]_accessVars PROVE OldTokensAreUsed'
  OBVIOUS
<1>1. AccessTypeOK /\ tokens \in Seq(Token) /\ OldTokensAreUsed
  BY DEF AccessIInv, AccessTypeOK, Token
<1>2. ASSUME DOMAIN tokens' = DOMAIN tokens,
             \A u \in DOMAIN tokens : /\ tokens'[u].host = tokens[u].host
                                      /\ tokens[u].used => tokens'[u].used
      PROVE  OldTokensAreUsed'
  BY <1>1, <1>2 DEF OldTokensAreUsed
<1>3. ASSUME NEW h \in Hosts, NEW addresses \in SUBSET Addresses, IssueToken(h, addresses)
      PROVE  OldTokensAreUsed'
  <2> DEFINE new == [host |-> h, used |-> FALSE, expired |-> FALSE]
             old == UsedUp(h)
  <2>1. /\ old \in Seq(Token) /\ Len(old) = Len(tokens) /\ DOMAIN old = DOMAIN tokens
        /\ \A t \in DOMAIN tokens :
             /\ old[t].host = tokens[t].host
             /\ tokens[t].used \/ tokens[t].host = h => old[t].used
    BY <1>1, UsedUpTokens
  <2>2. new \in Token /\ new.host = h
    BY DEF Token
  <2>3. tokens' = Append(old, new)
    BY <1>3 DEF IssueToken
  <2> HIDE DEF new, old
  <2>4. /\ DOMAIN tokens' = 1..(Len(tokens) + 1) /\ DOMAIN tokens = 1..Len(tokens)
        /\ \A t \in DOMAIN tokens : tokens'[t] = old[t]
        /\ tokens'[Len(tokens) + 1] = new
    BY <1>1, <2>1, <2>2, <2>3
  <2> SUFFICES ASSUME NEW t \in DOMAIN tokens', NEW u \in DOMAIN tokens', t < u,
                      tokens'[t].host = tokens'[u].host
               PROVE  tokens'[t].used
    BY DEF OldTokensAreUsed
  <2>5. t \in DOMAIN tokens
    BY <1>1, <2>4
  <2>6. CASE u \in DOMAIN tokens
    BY <1>1, <2>1, <2>4, <2>5, <2>6 DEF OldTokensAreUsed
  <2>7. CASE u \notin DOMAIN tokens
    <3>1. tokens'[u].host = h
      BY <1>1, <2>2, <2>4, <2>7
    <3> QED
      BY <2>1, <2>4, <2>5, <3>1
  <2> QED
    BY <2>6, <2>7
<1>4. ASSUME NEW t \in DOMAIN tokens, Expire(t) \/ Enroll(t)
      PROVE  OldTokensAreUsed'
  <2>1. \/ tokens' = [tokens EXCEPT ![t].used = TRUE]
        \/ tokens' = [tokens EXCEPT ![t].expired = TRUE]
    BY <1>4 DEF Expire, Enroll
  <2> QED
    BY <1>1, <1>2, <2>1, TokenSteps
<1>5. ASSUME NEW p \in Threads, NEW h \in Hosts, Revoke(p, h)
      PROVE  OldTokensAreUsed'
  BY <1>1, <1>2, <1>5, UsedUpTokens DEF Revoke
<1>6. ASSUME UNCHANGED tokens
      PROVE  OldTokensAreUsed'
  BY <1>2, <1>6
<1> QED
  BY <1>3, <1>4, <1>5, <1>6
  DEF AccessNext, accessVars, UpdatePolicy, ReadPolicies, AssignMap, Restart, Ingest

LEMMA StepMap == AccessIInv /\ [AccessNext]_accessVars => MapInv'
<1> SUFFICES ASSUME AccessIInv, [AccessNext]_accessVars, \A p \in Processes : handler'[p] = Idle, ~overtaken'
             PROVE  map' = Owners'
  BY DEF MapInv
<1>1. /\ hosts \in [Hosts -> Entry] /\ MapInv
      /\ handler \in [Processes -> [at : {"idle", "committed", "read"}, map : Maps]]
  BY DEF AccessIInv, AccessTypeOK, Entry
<1>2. ASSUME NEW p \in Processes, Commits(p)
      PROVE  FALSE
  <2>1. handler'[p] = [at |-> "committed", map |-> NoMap]
    BY <1>1, <1>2 DEF Commits
  <2> QED
    BY <2>1 DEF Idle
<1>3. Threads \subseteq Processes /\ Loop \in Processes
  BY DEF Processes
<1>4. ASSUME UNCHANGED <<hosts, map, handler, overtaken>>
      PROVE  map' = Owners'
  BY <1>1, <1>4 DEF MapInv, Owners
<1>5. ASSUME NEW h \in Hosts, NEW addresses \in SUBSET Addresses, IssueToken(h, addresses)
      PROVE  map' = Owners'
  <2>1. map = Owners /\ UNCHANGED map
    BY <1>1, <1>5 DEF IssueToken, countVars, MapInv
  <2>2. \A k \in Hosts : /\ hosts'[k].status = "active" <=> hosts[k].status = "active"
                         /\ hosts[k].status = "active" => hosts'[k] = hosts[k]
    BY <1>1, <1>5 DEF IssueToken, Is
  <2>3. \A a \in Addresses :
          {k \in Hosts : hosts'[k].status = "active" /\ a \in hosts'[k].addresses} =
          {k \in Hosts : hosts[k].status = "active" /\ a \in hosts[k].addresses}
    BY <2>2
  <2> DEFINE O(table, a) ==
               {k \in Hosts : table[k].status = "active" /\ a \in table[k].addresses}
             Any(S) == IF S = {} THEN Nobody ELSE CHOOSE k \in S : TRUE
  <2>4. /\ Owners = [a \in Addresses |-> Any(O(hosts, a))]
        /\ Owners' = [a \in Addresses |-> Any(O(hosts', a))]
    BY DEF Owners, OwnersIn
  <2>5. \A a \in Addresses : O(hosts', a) = O(hosts, a)
    BY <2>3
  <2> HIDE DEF O, Any
  <2>6. Owners' = Owners
    BY <2>4, <2>5
  <2> QED
    BY <2>1, <2>6
<1>6. ASSUME NEW h \in Hosts, NEW addresses \in SUBSET Addresses, UpdatePolicy(h, addresses)
      PROVE  FALSE
  BY <1>2, <1>3, <1>6 DEF UpdatePolicy, Refreshes
<1>7. ASSUME NEW t \in DOMAIN tokens, Enroll(t)
      PROVE  FALSE
  BY <1>2, <1>3, <1>7 DEF Enroll
<1>8. ASSUME NEW p \in Threads, NEW h \in Hosts, Revoke(p, h)
      PROVE  FALSE
  BY <1>2, <1>3, <1>8 DEF Revoke
<1>9. ASSUME NEW p \in Processes, ReadPolicies(p)
      PROVE  FALSE
  <2>1. handler'[p].at = "read"
    BY <1>1, <1>9 DEF ReadPolicies
  <2> QED
    BY <2>1 DEF Idle
<1>10. ASSUME NEW p \in Processes, AssignMap(p)
       PROVE  map' = Owners'
  BY <1>10 DEF AssignMap, Owners
<1>11. ASSUME NEW c \in Configs, Restart(c)
       PROVE  map' = Owners'
  BY <1>11 DEF Restart, Owners
<1>12. ASSUME NEW t \in DOMAIN tokens, Expire(t)
       PROVE  map' = Owners'
  BY <1>4, <1>12 DEF Expire, countVars
<1>13. ASSUME NEW e \in Events, Ingest(e)
       PROVE  map' = Owners'
  BY <1>4, <1>13 DEF Ingest, countVars
<1>14. CASE UNCHANGED accessVars
  BY <1>4, <1>14 DEF accessVars, countVars
<1> QED
  BY <1>5, <1>6, <1>7, <1>8, <1>9, <1>10, <1>11, <1>12, <1>13, <1>14 DEF AccessNext

LEMMA StepInv == AccessIInv /\ [AccessNext]_accessVars => AccessIInv'
<1> QED
  BY AccessStepType, StepOwner, StepTokens, StepMap DEF AccessIInv

\* The addresses, the tokens and the map are as they should be whatever the handlers
\* interleave.
THEOREM AccessInvariant == AccessSpec => []AccessIInv
<1> QED
  BY InitInv, StepInv, PTL DEF AccessSpec

\* AddressHasOneOwner, for any hosts, handlers and restarts.
THEOREM OneOwner == AccessSpec => []AddressHasOneOwner
<1>1. AccessIInv => AddressHasOneOwner
  BY DEF AccessIInv
<1> QED
  BY <1>1, AccessInvariant, PTL

\* MapIsCurrent, with any number of threads between a transaction and its refresh.
THEOREM MapIsAlwaysCurrent == AccessSpec => []MapIsCurrent
<1>1. AccessIInv => MapIsCurrent
  BY DEF AccessIInv, MapInv, MapIsCurrent
<1> QED
  BY <1>1, AccessInvariant, PTL

-----------------------------------------------------------------------------
\* LastTokenEnrols: an older token is used by the time the next one is issued.
THEOREM OnlyLastTokenEnrols == AccessSpec => LastTokenEnrols
<1> DEFINE ByLast ==
      \A h \in Hosts :
        Is(h, "pending") /\ hosts'[h].status = "active" =>
          \E t \in DOMAIN tokens :
            /\ tokens[t].host = h /\ ~tokens[t].used /\ tokens'[t].used
            /\ \A u \in DOMAIN tokens : tokens[u].host = h => u <= t
<1>1. ASSUME AccessIInv, AccessNext, NEW h \in Hosts, Is(h, "pending"), hosts'[h].status = "active"
      PROVE  \E t \in DOMAIN tokens :
               /\ tokens[t].host = h /\ ~tokens[t].used /\ tokens'[t].used
               /\ \A u \in DOMAIN tokens : tokens[u].host = h => u <= t
  <2>1. hosts \in [Hosts -> Entry] /\ tokens \in Seq(Token)
    BY <1>1 DEF AccessIInv, AccessTypeOK, Entry, Token
  <2>2. hosts' # hosts /\ hosts[h].status = "pending"
    BY <1>1 DEF Is
  <2>3. PICK t \in DOMAIN tokens : Enroll(t) /\ tokens[t].host = h
    <3>1. ASSUME NEW f \in Hosts, NEW addresses \in SUBSET Addresses,
                 IssueToken(f, addresses) \/ UpdatePolicy(f, addresses)
          PROVE  FALSE
      <4>1. CASE IssueToken(f, addresses)
        BY <1>1, <2>1, <2>2, <4>1 DEF IssueToken
      <4>2. CASE UpdatePolicy(f, addresses)
        <5>1. hosts'[h].status = hosts[h].status
          BY <2>1, <4>2 DEF UpdatePolicy, Entry
        <5> QED
          BY <1>1, <2>2, <5>1
      <4> QED
        BY <3>1, <4>1, <4>2
    <3>2. ASSUME NEW p \in Threads, NEW k \in Hosts, Revoke(p, k)
          PROVE  FALSE
      BY <1>1, <2>1, <2>2, <3>2 DEF Revoke, Entry
    <3>3. ASSUME NEW c \in Configs, Restart(c)
          PROVE  FALSE
      <4>1. hosts[h] # Unknown
        BY <2>2 DEF Unknown
      <4>2. hosts'[h] = hosts[h]
        BY <2>1, <3>3, <4>1, SeededTable DEF Restart
      <4> QED
        BY <1>1, <2>2, <4>2
    <3>4. ASSUME NEW t \in DOMAIN tokens, Enroll(t)
          PROVE  tokens[t].host = h
      BY <1>1, <2>1, <2>2, <3>4 DEF Enroll, Entry
    <3> QED
      BY <1>1, <2>2, <3>1, <3>2, <3>3, <3>4
      DEF AccessNext, Expire, ReadPolicies, AssignMap, Ingest
  <2>4. ~tokens[t].used /\ tokens'[t].used
    <3>1. tokens' = [tokens EXCEPT ![t].used = TRUE] /\ ~tokens[t].used
      BY <2>3 DEF Enroll, Redeemable
    <3>2. tokens[t] \in Token
      BY <2>1
    <3> QED
      BY <2>1, <3>1, <3>2 DEF Token
  <2>5. \A u \in DOMAIN tokens : tokens[u].host = h => u <= t
    BY <1>1, <2>1, <2>3, <2>4 DEF AccessIInv, OldTokensAreUsed
  <2> QED
    BY <2>3, <2>4, <2>5
<1>2. AccessIInv /\ [AccessNext]_accessVars => [ByLast]_accessVars
  BY <1>1
<1> QED
  BY <1>2, AccessInvariant, PTL DEF AccessSpec, LastTokenEnrols

\* MovementIsSeen: whichever of the two comes last, the rule looks at the other.
THEOREM MovementIsAlwaysSeen == AccessSpec => MovementIsSeen
<1> DEFINE Seen ==
      events' # events /\ map = Owners =>
        LET before == Movements(Signals(events), Logins(events), Owners)
            after == Movements(Signals(events'), Logins(events'), Owners)
        IN /\ \A m \in after \ before : \E n \in alerts' : SameAlert(m, n)
           /\ alerts' \ alerts \subseteq after
<1>1. ASSUME AccessNext, events' # events, map = Owners
      PROVE  Seen
  <2>1. PICK e \in Events : Ingest(e)
    BY <1>1 DEF AccessNext, IssueToken, UpdatePolicy, Expire, Enroll, Revoke, ReadPolicies,
                AssignMap, Restart
  <2> DEFINE before == Movements(Signals(events), Logins(events), Owners)
             after == Movements(Signals(events'), Logins(events'), Owners)
             looked == {s \in Signals(events') : s.host \in Sources(e)}
  <2>2. events' = events \cup {e}
    BY <2>1 DEF Ingest
  <2>3. LateralRules(e, events') = Movements(looked, Logins(events'), Owners)
    BY <1>1 DEF LateralRules
  <2>4. ASSUME NEW m \in after \ before
        PROVE  m \in LateralRules(e, events')
    <3>1. PICK p \in Signals(events') \X Logins(events') :
            /\ Movement(p[1], p[2], Owners)
            /\ m = [source |-> p[1].host, target |-> p[2].host, address |-> p[2].address]
      BY <2>4 DEF Movements
    <3>2. p[1] \in Signals(events') /\ p[2] \in Logins(events') /\ p = <<p[1], p[2]>>
      BY <3>1
    <3>3. p[1] = e \/ p[2] = e
      <4>1. SUFFICES ASSUME p[1] # e, p[2] # e PROVE FALSE
        OBVIOUS
      <4>2. p[1] \in Signals(events) /\ p[2] \in Logins(events)
        BY <2>2, <3>2, <4>1 DEF Signals, Logins
      <4>3. p \in Signals(events) \X Logins(events)
        BY <3>2, <4>2
      <4> QED
        BY <2>4, <3>1, <4>3 DEF Movements
    <3>4. p[1].host \in Sources(e)
      <4>1. CASE p[1] = e
        BY <3>2, <4>1 DEF Sources, Signals
      <4>2. CASE p[2] = e
        BY <1>1, <3>1, <3>2, <4>2 DEF Sources, Logins, Movement
      <4> QED
        BY <3>3, <4>1, <4>2
    <3>5. p \in looked \X Logins(events')
      BY <3>2, <3>4
    <3> QED
      BY <2>3, <3>1, <3>5 DEF Movements
  <2>5. LateralRules(e, events') \subseteq after
    BY <2>3 DEF Movements
  <2>6. alerts' = alerts \cup {m \in LateralRules(e, events') :
                                \A n \in alerts : ~SameAlert(m, n)}
    BY <2>1 DEF Ingest
  <2>7. \A m \in after \ before : \E n \in alerts' : SameAlert(m, n)
    BY <2>4, <2>6 DEF SameAlert
  <2>8. alerts' \ alerts \subseteq after
    BY <2>5, <2>6
  <2> QED
    BY <2>7, <2>8
<1>2. [AccessNext]_accessVars => [Seen]_accessVars
  BY <1>1
<1> QED
  BY <1>2, PTL DEF AccessSpec, MovementIsSeen

(***************************************************************************)
(* Quarantine.                                                             *)
(***************************************************************************)

\* The calls one by one, grouped by what they may change.
Looking == Recheck \/ Open \/ Rehash \/ Find \/ Check
Recording == Prepare \/ Changed \/ Finish \/ Close
Moving == Move \/ Compare \/ Unlock \/ Return
OtherSteps == Remove \/ \E f \in Files, c \in Contents : Write(f, c) \/ Replace(f, c)

-----------------------------------------------------------------------------
(* Types.                                                                  *)

LEMMA LookingType == IInv /\ Looking => TypeOK'
<1> SUFFICES ASSUME IInv, Looking PROVE TypeOK'
  OBVIOUS
<1> USE DEF IInv, TypeOK, GoTo, End, Refuse, Give, Verify, hostVars
<1>1. CASE Recheck
  BY <1>1 DEF Recheck, Quarantining
<1>2. CASE Open
  BY <1>2 DEF Open, Quarantining
<1>3. CASE Rehash
  BY <1>3 DEF Rehash, IfChanged, Quarantining
<1>4. CASE Find
  BY <1>4 DEF Find, Restoring
<1>5. CASE Check
  BY <1>5 DEF Check, Restoring
<1> QED
  BY <1>1, <1>2, <1>3, <1>4, <1>5 DEF Looking

LEMMA RecordingType == IInv /\ Recording => TypeOK'
<1> SUFFICES ASSUME IInv, Recording PROVE TypeOK'
  OBVIOUS
<1>1. ASSUME NEW state \in {"quarantined", "evidence_changed", "restored"},
             State \notin {"none", "restored"}, Record(state)
      PROVE  manifest' \in Manifests
  BY <1>1 DEF IInv, TypeOK, Record, State, NoManifest, Manifests
<1> USE DEF IInv, TypeOK, GoTo, End, Refuse, hostVars
<1>2. CASE Prepare
  <2>1. source \in Files
    BY <1>2 DEF CallInv, Prepare
  <2> QED
    BY <1>2, <2>1 DEF Prepare, Describe, Manifests, Quarantining
<1>3. CASE Changed
  BY <1>1, <1>3 DEF Changed, CallInv
<1>4. CASE Finish
  BY <1>1, <1>4 DEF Finish, CallInv
<1>5. CASE Close
  BY <1>1, <1>5 DEF Close, CallInv
<1> QED
  BY <1>2, <1>3, <1>4, <1>5 DEF Recording

LEMMA MovingType == IInv /\ Moving => TypeOK'
<1> SUFFICES ASSUME IInv, Moving PROVE TypeOK'
  OBVIOUS
<1> USE DEF IInv, TypeOK, GoTo, End, Refuse, Give, MoveIn, MoveOut, hostVars
<1>1. CASE Move
  BY <1>1 DEF Move, Quarantining
<1>2. CASE Compare
  BY <1>2 DEF Compare, Quarantining
<1>3. CASE Unlock
  <2>1. RestoredMode \in {"original", "locked"}
    BY <1>3 DEF Unlock, CallInv, State, NoManifest, RestoredMode, Manifests
  <2> QED
    BY <1>3, <2>1 DEF Unlock, Restoring
<1>4. CASE Return
  BY <1>4 DEF Return, Restoring
<1> QED
  BY <1>1, <1>2, <1>3, <1>4 DEF Moving

LEMMA StepType == IInv /\ [Next]_vars => TypeOK'
<1> SUFFICES ASSUME IInv, [Next]_vars PROVE TypeOK'
  OBVIOUS
<1> USE DEF IInv, TypeOK, GoTo, End, Refuse, Give, hostVars
<1>1. CASE Quarantine
  BY <1>1 DEF Quarantine, Quarantining
<1>2. CASE Restore
  BY <1>2 DEF Restore, Restoring
<1>3. CASE Crash
  BY <1>3, QuarantineAssumption DEF Crash
<1>4. CASE Remove
  BY <1>4, QuarantineAssumption DEF Remove, Touch
<1>5. ASSUME NEW f \in Files, NEW c \in Contents, Write(f, c) \/ Replace(f, c)
      PROVE  TypeOK'
  BY <1>5, QuarantineAssumption DEF Write, Replace, Touch
<1>6. CASE UNCHANGED vars
  BY <1>6 DEF vars
<1> QED
  BY <1>1, <1>2, <1>3, <1>4, <1>5, <1>6, LookingType, RecordingType, MovingType
  DEF Next, Call, Looking, Recording, Moving

-----------------------------------------------------------------------------
(* The steps of a call.                                                    *)

\* Reading a file changes no file, and goes on only with the evidence.
LEMMA LookingKeeps == IInv /\ Looking => CallInv' /\ PlaceInv' /\ AloneInv'
<1> SUFFICES ASSUME IInv, Looking PROVE CallInv' /\ PlaceInv' /\ AloneInv'
  OBVIOUS
<1> USE DEF IInv, GoTo, End, Refuse, Give, Verify, hostVars, State
<1>1. CASE Recheck
  <2>1. CallInv'
    BY <1>1 DEF Recheck, TypeOK, CallInv
  <2>2. PlaceInv'
    BY <1>1 DEF Recheck, TypeOK, CallInv, PlaceInv
  <2>3. AloneInv'
    BY <1>1 DEF Recheck, AloneInv
  <2> QED
    BY <2>1, <2>2, <2>3
<1>2. CASE Open
  <2>1. CallInv'
    BY <1>2 DEF Open, TypeOK, CallInv, PlaceInv
  <2>2. PlaceInv'
    BY <1>2 DEF Open, TypeOK, PlaceInv
  <2>3. AloneInv'
    BY <1>2 DEF Open, AloneInv
  <2> QED
    BY <2>1, <2>2, <2>3
<1>3. CASE Rehash
  <2>1. CallInv'
    BY <1>3 DEF Rehash, IfChanged, TypeOK, CallInv
  <2>2. PlaceInv'
    BY <1>3 DEF Rehash, IfChanged, PlaceInv
  <2>3. AloneInv'
    BY <1>3 DEF Rehash, IfChanged, CallInv, AloneInv
  <2> QED
    BY <2>1, <2>2, <2>3
<1>4. CASE Find
  <2>1. CallInv'
    BY <1>4 DEF Find, CallInv
  <2>2. PlaceInv'
    BY <1>4 DEF Find, PlaceInv
  <2>3. AloneInv'
    BY <1>4, QuarantineAssumption DEF Find, Returned, CallInv, AloneInv
  <2> QED
    BY <2>1, <2>2, <2>3
<1>5. CASE Check
  <2>1. CallInv'
    BY <1>5 DEF Check, CallInv
  <2>2. PlaceInv'
    BY <1>5 DEF Check, PlaceInv
  <2>3. AloneInv'
    BY <1>5 DEF Check, CallInv, AloneInv
  <2> QED
    BY <2>1, <2>2, <2>3
<1> QED
  BY <1>1, <1>2, <1>3, <1>4, <1>5 DEF Looking

\* Writing the manifest.
LEMMA RecordingKeeps == IInv /\ Recording => CallInv' /\ PlaceInv' /\ AloneInv'
<1> SUFFICES ASSUME IInv, Recording PROVE CallInv' /\ PlaceInv' /\ AloneInv'
  OBVIOUS
<1>1. ASSUME NEW state \in {"quarantined", "evidence_changed", "restored"},
             State \notin {"none", "restored"}, Record(state)
      PROVE  /\ manifest'.inode = manifest.inode /\ manifest'.mode = manifest.mode
             /\ State' = state
  <2>1. manifest \in Manifests
    BY <1>1 DEF IInv, TypeOK, State, NoManifest
  <2> QED
    BY <1>1, <2>1 DEF Record, State, Manifests
<1> USE DEF IInv, GoTo, End, Refuse, hostVars
<1>2. CASE Prepare
  <2>1. State' = "prepared" /\ manifest'.inode = source /\ manifest'.mode = mode[source]
    BY <1>2 DEF Prepare, Describe, State
  <2>2. CallInv'
    BY <1>2, <2>1 DEF Prepare, CallInv
  <2>3. PlaceInv'
    BY <1>2, <2>1 DEF Prepare, CallInv, PlaceInv
  <2>4. AloneInv'
    BY <1>2, <2>1, QuarantineAssumption DEF Prepare, CallInv, AloneInv
  <2> QED
    BY <2>2, <2>3, <2>4
<1>3. CASE Changed
  <2>1. /\ manifest'.inode = manifest.inode /\ manifest'.mode = manifest.mode
        /\ State' = "evidence_changed"
    BY <1>1, <1>3 DEF Changed, CallInv
  <2>2. CallInv'
    BY <1>3, <2>1 DEF Changed, CallInv
  <2>3. PlaceInv'
    BY <1>3, <2>1 DEF Changed, CallInv, PlaceInv
  <2>4. AloneInv'
    BY <1>3 DEF Changed, AloneInv
  <2> QED
    BY <2>2, <2>3, <2>4
<1>4. CASE Finish
  <2>1. /\ manifest'.inode = manifest.inode /\ manifest'.mode = manifest.mode
        /\ State' = "quarantined"
    BY <1>1, <1>4 DEF Finish, CallInv
  <2>2. CallInv'
    BY <1>4, <2>1 DEF Finish, CallInv
  <2>3. PlaceInv'
    BY <1>4, <2>1 DEF Finish, CallInv, PlaceInv
  <2>4. AloneInv'
    BY <1>4, <2>1 DEF Finish, CallInv, AloneInv
  <2> QED
    BY <2>2, <2>3, <2>4
<1>5. CASE Close
  <2>1. /\ manifest'.inode = manifest.inode /\ manifest'.mode = manifest.mode
        /\ State' = "restored"
    BY <1>1, <1>5 DEF Close, CallInv
  <2>2. CallInv'
    BY <1>5, <2>1 DEF Close, CallInv
  <2>3. PlaceInv'
    BY <1>5, <2>1 DEF Close, CallInv, PlaceInv
  <2>4. AloneInv'
    BY <1>5, <2>1 DEF Close, CallInv, AloneInv
  <2> QED
    BY <2>2, <2>3, <2>4
<1> QED
  BY <1>2, <1>3, <1>4, <1>5 DEF Recording

\* Moving the file and setting its mode.
LEMMA MovingKeeps == IInv /\ Moving => CallInv' /\ PlaceInv' /\ AloneInv'
<1> SUFFICES ASSUME IInv, Moving PROVE CallInv' /\ PlaceInv' /\ AloneInv'
  OBVIOUS
<1> USE DEF IInv, GoTo, End, Refuse, Give, MoveIn, MoveOut, hostVars, State
<1>1. CASE Move
  <2>1. CallInv'
    BY <1>1 DEF Move, CallInv, PlaceInv
  <2>2. PlaceInv'
    BY <1>1 DEF Move, CallInv, PlaceInv
  <2>3. AloneInv'
    BY <1>1, QuarantineAssumption DEF Move, AloneInv
  <2> QED
    BY <2>1, <2>2, <2>3
<1>2. CASE Compare
  <2>1. CallInv'
    BY <1>2 DEF Compare, CallInv
  <2>2. PlaceInv'
    BY <1>2 DEF Compare, TypeOK, CallInv, PlaceInv
  <2>3. AloneInv'
    BY <1>2, QuarantineAssumption DEF Compare, CallInv, AloneInv
  <2> QED
    BY <2>1, <2>2, <2>3
<1>3. CASE Unlock
  <2>1. RestoredMode = "original" /\ vault \in Files
    BY <1>3 DEF Unlock, RestoredMode, CallInv, PlaceInv, TypeOK
  <2>2. CallInv'
    BY <1>3, <2>1 DEF Unlock, TypeOK, CallInv
  <2>3. PlaceInv'
    BY <1>3, <2>1 DEF Unlock, TypeOK, PlaceInv
  <2>4. AloneInv'
    BY <1>3 DEF Unlock, AloneInv
  <2> QED
    BY <2>2, <2>3, <2>4
<1>4. CASE Return
  <2>1. CallInv'
    BY <1>4 DEF Return, CallInv
  <2>2. PlaceInv'
    <3>1. CASE MoveOut /\ UNCHANGED mode
      BY <1>4, <3>1 DEF Return, CallInv, PlaceInv
    <3>2. CASE UNCHANGED <<at, vault>> /\ mode' = [mode EXCEPT ![vault] = "locked"]
      BY <1>4, <3>2 DEF Return, TypeOK, CallInv, PlaceInv
    <3> QED
      BY <1>4, <3>1, <3>2 DEF Return
  <2>3. AloneInv'
    BY <1>4, QuarantineAssumption DEF Return, CallInv, AloneInv
  <2> QED
    BY <2>1, <2>2, <2>3
<1> QED
  BY <1>1, <1>2, <1>3, <1>4 DEF Moving

-----------------------------------------------------------------------------
(* The beginning of a call, its death and the other programs.              *)

LEMMA BeginKeeps ==
  IInv /\ (Quarantine \/ Restore) => CallInv' /\ PlaceInv' /\ AloneInv'
<1> SUFFICES ASSUME IInv, Quarantine \/ Restore PROVE CallInv' /\ PlaceInv' /\ AloneInv'
  OBVIOUS
<1> USE DEF IInv, End, Refuse, Give, hostVars, State
<1>1. CallInv'
  BY DEF Quarantine, Restore, CallInv, PlaceInv
<1>2. PlaceInv'
  BY DEF Quarantine, Restore, PlaceInv
<1>3. AloneInv'
  BY DEF Quarantine, Restore, AloneInv
<1> QED
  BY <1>1, <1>2, <1>3

LEMMA CrashKeeps == IInv /\ Crash => CallInv' /\ PlaceInv' /\ AloneInv'
BY DEF IInv, End, hostVars, State, Crash, CallInv, PlaceInv, AloneInv

LEMMA OtherStepsKeep == IInv /\ OtherSteps => CallInv' /\ PlaceInv' /\ AloneInv'
<1> SUFFICES ASSUME IInv, OtherSteps PROVE CallInv' /\ PlaceInv' /\ AloneInv'
  OBVIOUS
<1> USE DEF IInv, State
<1>1. touches \in Nat /\ touches' = touches + 1
  BY QuarantineAssumption DEF OtherSteps, Remove, Write, Replace, Touch, TypeOK
<1>2. AloneInv'
  BY <1>1 DEF AloneInv
<1>3. CASE Remove
  BY <1>2, <1>3 DEF Remove, CallInv, PlaceInv
<1>4. ASSUME NEW f \in Files, NEW c \in Contents, Write(f, c)
      PROVE  CallInv' /\ PlaceInv'
  <2>1. CallInv'
    BY <1>4 DEF Write, TypeOK, CallInv
  <2>2. PlaceInv'
    BY <1>4 DEF Write, TypeOK, PlaceInv
  <2> QED
    BY <2>1, <2>2
<1>5. ASSUME NEW f \in Files, NEW c \in Contents, Replace(f, c)
      PROVE  CallInv' /\ PlaceInv'
  <2>1. f # vault /\ mode[f] = "original"
    BY <1>5, QuarantineAssumption DEF Replace, PlaceInv
  <2>2. CallInv'
    BY <1>5, <2>1 DEF Replace, TypeOK, CallInv
  <2>3. PlaceInv'
    BY <1>5, <2>1 DEF Replace, TypeOK, PlaceInv
  <2> QED
    BY <2>2, <2>3
<1> QED
  BY <1>2, <1>3, <1>4, <1>5 DEF OtherSteps

-----------------------------------------------------------------------------
(* The theorems.                                                           *)

\* The invariant is inductive.
LEMMA StepIInv == IInv /\ [Next]_vars => IInv'
<1> SUFFICES ASSUME IInv, [Next]_vars PROVE IInv'
  OBVIOUS
<1>1. TypeOK'
  BY StepType
<1>2. CASE UNCHANGED vars
  BY <1>1, <1>2 DEF IInv, vars, hostVars, State, CallInv, PlaceInv, AloneInv
<1> QED
  BY <1>1, <1>2, BeginKeeps, LookingKeeps, RecordingKeeps, MovingKeeps, CrashKeeps,
     OtherStepsKeep
  DEF IInv, Next, Call, Looking, Recording, Moving, OtherSteps

LEMMA InitIInv == Init => IInv
BY QuarantineAssumption
DEF Init, IInv, TypeOK, Contents, NoManifest, State, CallInv, PlaceInv, AloneInv

\* The inductive invariant holds in every reachable state of the executor and the
\* host (playbooks.py).
THEOREM QuarantineInductive == Spec => []IInv
BY InitIInv, StepIInv, PTL DEF Spec

\* Files, record and calls are of their kind.
THEOREM QuarantineTypeOK == Spec => []TypeOK
<1>1. IInv => TypeOK
  BY DEF IInv
<1> QED
  BY <1>1, QuarantineInductive, PTL

\* Whatever is in the vault, a manifest says where it came from.
THEOREM QuarantineDescribed == Spec => []VaultIsDescribed
<1>1. IInv => VaultIsDescribed
  BY DEF IInv, PlaceInv, VaultIsDescribed
<1> QED
  BY <1>1, QuarantineInductive, PTL

\* A receipt of success is true.
THEOREM QuarantineSuccessIsReal == Spec => []SuccessIsReal
<1>1. IInv => SuccessIsReal
  BY DEF IInv, PlaceInv, SuccessIsReal
<1> QED
  BY <1>1, QuarantineInductive, PTL

\* Whatever is at the path has its own mode.
THEOREM QuarantinePathMode == Spec => []PathKeepsMode
<1>1. IInv => PathKeepsMode
  BY DEF IInv, PlaceInv, PathKeepsMode
<1> QED
  BY <1>1, QuarantineInductive, PTL

\* When nothing else touches the file, a restore undoes any interrupted quarantine.
THEOREM QuarantineRestoreRecovers == Spec => []RestoreRecovers
<1>1. IInv => RestoreRecovers
  BY DEF IInv, AloneInv, State, NoManifest, TypeOK, Manifests, RestoreRecovers
<1> QED
  BY <1>1, QuarantineInductive, PTL

\* What is reported as quarantined is the approved evidence.
THEOREM QuarantineEvidence == Spec => QuarantinedIsEvidence
<1>1. ASSUME IInv, Next, outcome' = "applied", outcome # "applied"
      PROVE  content[vault'] = "evidence" \/ vault' \in unread
  <2>1. Finish
    BY <1>1 DEF Next, Call, Quarantine, Recheck, Open, Prepare, Move, Compare, Rehash,
                Changed, Restore, Find, Check, Unlock, Return, Close, Crash, Remove,
                Write, Replace, Verify, GoTo, End, Refuse, Give
  <2> QED
    BY <1>1, <2>1 DEF Finish, IInv, CallInv, hostVars
<1>2. IInv /\ [Next]_vars =>
        [outcome' = "applied" /\ outcome # "applied" =>
           content[vault'] = "evidence" \/ vault' \in unread]_vars
  BY <1>1
<1> QED
  BY <1>2, QuarantineInductive, PTL DEF Spec, QuarantinedIsEvidence

\* No step of the executor makes a file disappear.
THEOREM QuarantineNothingLost == Spec => NothingIsLost
<1>1. ASSUME IInv, Next, touches' = touches
      PROVE  {at, vault} \ {None} \subseteq {at', vault'}
  <2>1. ~OtherSteps
    BY <1>1, QuarantineAssumption
    DEF IInv, TypeOK, OtherSteps, Remove, Write, Replace, Touch
  <2>2. CASE Move \/ Compare \/ Return
    BY <2>2 DEF Move, Compare, Return, MoveIn, MoveOut
  <2>3. CASE ~(Move \/ Compare \/ Return)
    <3>1. UNCHANGED <<at, vault>>
      BY <1>1, <2>1, <2>3
      DEF OtherSteps, Next, Call, Quarantine, Recheck, Open, Prepare, Rehash, Changed, Finish,
          Restore, Find, Check, Unlock, Close, Crash, hostVars
    <3> QED
      BY <3>1
  <2> QED
    BY <2>2, <2>3
<1>2. IInv /\ [Next]_vars =>
        [touches' = touches => {at, vault} \ {None} \subseteq {at', vault'}]_vars
  BY <1>1
<1> QED
  BY <1>2, QuarantineInductive, PTL DEF Spec, NothingIsLost
=================================================================================
