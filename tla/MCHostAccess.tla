---------------------------- MODULE MCHostAccess ----------------------------
(* A small instance of HostAccess for TLC. *)
EXTENDS HostAccess, TLC

CONSTANTS h1, h2, a

\* Two configurations, of one host each: starting with the one and then with the
\* other imports a host with an address that another host may have.
TwoConfigs == {(h1 :> {a}), (h2 :> {a})}

Signal(h, t) == [kind |-> "signal", host |-> h, address |-> a, at |-> t]
Login(h, t) == [kind |-> "login", host |-> h, address |-> a, at |-> t]

\* Either host has a signal and is logged in to; one signal comes after a login.
SomeEvents == {Signal(h1, 1), Login(h2, 2), Signal(h2, 3), Login(h1, 4)}
=============================================================================
