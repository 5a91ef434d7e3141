------------------------------ MODULE MCLimiter ------------------------------
(* Two people who come directly, through Cloudflare, or through a relay of *)
(* the operator's and the platform's proxy, and who write an               *)
(* X-Forwarded-For of their own.                                           *)
EXTENDS Limiter, TLC

CONSTANTS ali, sara, proxy, relay, edge

MCRoutes == {<<>>, <<edge>>, <<relay, proxy>>}
MCClaims == {<<>>, <<ali>>, <<sara>>}
Sym == Permutations(Handlers) \cup Permutations(Callers)
=============================================================================
