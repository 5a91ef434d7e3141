--------------------------- MODULE MCSubscription ---------------------------
(* Subscription on a small catalog: the origin between two locations in    *)
(* the order of names.                                                     *)
EXTENDS Subscription, TLC

MCLocation == [n \in 1..3 |-> IF n = 1 THEN "de" ELSE IF n = 2 THEN "" ELSE "us"]
MCPings == {-1, 40}

Scope(mode) == [mode |-> mode, countries |-> {}]
US == [mode |-> "country", countries |-> {"us"}]
UserWith(protocols, scope, cap) ==
    [active |-> TRUE, protocols |-> protocols, scope |-> scope, cap |-> cap]

\* Every scope and cap with all protocols, and a narrowed set.
MCUsers == {UserWith(PROTOCOLS, scope, cap) :
               scope \in {Scope("all"), Scope("multi"), Scope("origin"), US}, cap \in Caps}
           \cup {UserWith({"vless", "anytls"}, Scope("all"), 0)}

Measured(de, own, us) ==
    [n \in 1..3 |-> [enabled |-> TRUE,
                     latency |-> IF n = 1 THEN de ELSE IF n = 2 THEN own ELSE us]]

\* The far node fastest; the origin and one location failed; the
\* only US node failed.
MCCatalogs == {Measured(Null, Null, 40), Measured(-1, -1, Null), Measured(40, Null, -1)}

Asking(target, node, scope) == [target |-> target, node |-> node, scope |-> scope]
Smart == {Asking("auto", Null, Null), Asking("auto", 2, Null), Asking("clash", Null, Null),
          Asking("xray", Null, Null), Asking("vless", Null, Scope("multi"))}
=============================================================================
