---------------------------- MODULE ClientAddress ----------------------------
(***************************************************************************)
(* Whose request is this?  app/core/clientip.py: the address the login     *)
(* throttle and the audit log key on, worked out from the socket peer, the *)
(* X-Forwarded-For chain and Cloudflare's CF-Connecting-IP.                *)
(*                                                                         *)
(* An address is a model value and a range is the set of the addresses in  *)
(* it: parsing is left out, and with it the tokens the parser drops.  The  *)
(* fields that only explain the answer to the admin are left out too.      *)
(***************************************************************************)
EXTENDS Naturals, Sequences

CONSTANTS
    Callers,   \* addresses people come from
    Proxies,   \* DEFAULT_TRUSTED: private and loopback ranges
    Relays,    \* public reverse proxies of the operator
    Edges,     \* CLOUDFLARE: Cloudflare's own ranges
    None

Hosts == Callers \cup Proxies \cup Relays \cup Edges

ASSUME HostsAreApart ==
    /\ Callers \cap (Proxies \cup Relays \cup Edges) = {}
    /\ Edges \cap (Proxies \cup Relays) = {}
    /\ None \notin Hosts

\* The default ranges, and those the operator added.
trusted_networks(extra) == Proxies \cup extra

Outside(chain, networks) == {i \in DOMAIN chain : chain[i] \notin networks}
LastOf(S) == CHOOSE i \in S : \A j \in S : j <= i

(***************************************************************************)
(* resolve: Cloudflare's header when the peer is Cloudflare; else, behind  *)
(* a trusted peer, the first hop from the right that is not one of ours,   *)
(* the leftmost when all of them are; else the peer.                       *)
(***************************************************************************)
\* Mutant: the hop the client wrote itself is believed.
ResolveLeftmost(request, extra, trust) ==
    IF trust /\ request.peer \in trusted_networks(extra) /\ request.forwarded # <<>>
    THEN request.forwarded[1] ELSE request.peer
resolve(request, extra, trust) ==
    LET networks == trusted_networks(extra)
        chain == request.forwarded
        others == Outside(chain, networks)
    IN  IF ~trust THEN request.peer
        ELSE IF request.peer \in Edges /\ request.cf # None THEN request.cf
        ELSE IF request.peer \notin networks \/ chain = <<>> THEN request.peer
        ELSE IF others # {} THEN chain[LastOf(others)] ELSE chain[1]

(***************************************************************************)
(* The network (external).  A route is the hosts a request really went     *)
(* through, the caller first and the socket peer last.  A caller writes    *)
(* what it likes into both headers; every hop appends the address that     *)
(* dialled it, and Cloudflare overwrites its own header with it.           *)
(***************************************************************************)
Before(route) == SubSeq(route, 1, Len(route) - 1)
Arrives(route, claim, cf) ==
    LET peer == route[Len(route)]
    IN  [peer |-> peer,
         forwarded |-> claim \o Before(route),
         cf |-> IF peer \in Edges /\ Len(route) > 1 THEN route[Len(route) - 1] ELSE cf]

(***************************************************************************)
(* What the address stands for: the last host on the real route that this  *)
(* deployment was not told to trust, or the one that dialled Cloudflare    *)
(* when Cloudflare dials us.  No header of the caller's occurs in it.      *)
(***************************************************************************)
Nearest(route, extra, trust) ==
    IF ~trust THEN route[Len(route)]
    ELSE IF route[Len(route)] \in Edges /\ Len(route) > 1 THEN route[Len(route) - 1]
    ELSE route[LastOf(Outside(route, trusted_networks(extra)))]
=============================================================================
