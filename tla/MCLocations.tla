---------------------------- MODULE MCLocations ----------------------------
(* Locations on a small instance: two countries; one address the databases *)
(* place elsewhere than its location says, one they place where it does,   *)
(* and one only the pool has.                                              *)
EXTENDS Locations, TLC

CONSTANTS us, ca, a1, a2, a3

MCCountryOf == a1 :> us @@ a2 :> us @@ a3 :> ca
Def(place, kind, own, hosted) == [place |-> place, kind |-> kind, own |-> own, hosted |-> hosted]
MCStored == {Def(ca, "ip", {a1}, TRUE)}
MCOffers == {Def(us, "ip", {}, TRUE), Def(ca, "domain", {}, TRUE)}
MCPacks == << <<Def(us, "ip", {a2}, TRUE), Def(ca, "ip", {a1}, FALSE)>> >>
=============================================================================
