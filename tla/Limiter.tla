------------------------------ MODULE Limiter ------------------------------
(***************************************************************************)
(* The limiters in front of the two calls anyone can make: LoginThrottle   *)
(* (app/core/security.py), POST /api/login and POST /api/feedback          *)
(* (app/main.py), and the rule that says whose call it is.                 *)
(*                                                                         *)
(* Both handlers are coroutines of one event loop that check the limiter,  *)
(* await the request's body and count the try after it, so calls overlap   *)
(* there and nowhere else.  Each call has a limiter object of its own; a   *)
(* behaviour follows one of them.  It lives in memory, the rule in the     *)
(* settings table.  Time is counted in ticks.                              *)
(***************************************************************************)
EXTENDS ClientAddress, FiniteSets

CONSTANTS
    Handlers,   \* calls the event loop is in the middle of
    Routes,     \* the ways a caller reaches the panel: hosts after the caller
    Claims,     \* X-Forwarded-For values a caller sends along
    Limit,      \* tries in a window
    Window,     \* ticks a try is remembered
    MaxKeys,    \* LoginThrottle.MAX_KEYS
    MaxTime, MaxCalls, MaxSaves, MaxCrashes  \* bounds

ASSUME LimitsAreNat == {Limit, Window, MaxKeys} \subseteq Nat \ {0}
ASSUME RoutesStayOutside == Routes \subseteq Seq(Hosts \ Callers)
ASSUME ClaimsAreChains == Claims \subseteq Seq(Hosts)
ASSUME HandlersAreFinite == IsFiniteSet(Handlers)
ASSUME BoundsAreNat == {MaxTime, MaxCalls, MaxSaves, MaxCrashes} \subseteq Nat

VARIABLES
    serves,    \* which call this limiter is for
    trust, extra, \* settings trust_client_ip and trusted_proxy_cidrs
    hits,      \* _hits; a key that is not there and an empty list are one
    calls,     \* what each handler awaits the body of
    now,
    failed,    \* history: counted tries still in their window
    begun, saves, crashes

rule == <<trust, extra>>
vars == <<serves, rule, hits, calls, now, failed, begun, saves, crashes>>

Idle == [from |-> None, via |-> <<>>, key |-> None, near |-> None, fresh |-> TRUE]
Waiting(h) == calls[h] # Idle
Free(h) == calls' = [calls EXCEPT ![h] = Idle]

-----------------------------------------------------------------------------
(* LoginThrottle.                                                          *)

Keys == {k \in Hosts : hits[k] # <<>>}
\* _prune: tries are appended as time passes, so those that left the window come first.
Recent(times) ==
    LET gone == {i \in DOMAIN times : now - times[i] >= Window}
    IN  SubSeq(times, Cardinality(gone) + 1, Len(times))
Newest(k) == hits[k][Len(hits[k])]
Live == {k \in Keys : now - Newest(k) < Window}

\* blocked: what left the window does not count.
\* Mutant: the calls being read are let through.
BlockedLate(k) == Len(Recent(hits[k])) >= Limit + Cardinality(Handlers)
Blocked(k) == Len(Recent(hits[k])) >= Limit

\* _sweep: the keys that may be left.  Nothing happens up to the cap; above it
\* the expired go, then those whose newest try is oldest.
\* Mutant: only the expired go.
SweptExpired == IF Cardinality(Keys) <= MaxKeys THEN {Keys} ELSE {Live}
Swept ==
    IF Cardinality(Keys) <= MaxKeys THEN {Keys}
    ELSE {kept \in SUBSET Live :
            /\ Cardinality(kept) = IF Cardinality(Live) > MaxKeys THEN MaxKeys ELSE Cardinality(Live)
            /\ \A k \in kept : \A other \in Live \ kept : Newest(other) <= Newest(k)}

\* The counted tries: a limiter that forgets a key starts anew with it.
Try(call) ==
    LET like == {f \in failed : f.from = call.from /\ f.via = call.via /\ f.key = call.key /\ f.at = now}
    IN  [from |-> call.from, via |-> call.via, key |-> call.key, at |-> now, nth |-> Cardinality(like) + 1]

\* fail: sweep, prune, append.
fail(call) ==
    \E kept \in Swept :
        /\ hits' = [k \in Hosts |->
              IF k = call.key THEN Append(Recent(IF k \in kept THEN hits[k] ELSE <<>>), now)
              ELSE IF k \in kept THEN hits[k] ELSE <<>>]
        /\ failed' = {f \in failed : f.key \in kept \/ f.key \notin Keys}
                       \cup (IF call.fresh THEN {Try(call)} ELSE {})

-----------------------------------------------------------------------------
(* The two handlers.                                                       *)

\* The check that comes before the body is read; it forgets old tries.
Arrive(h) ==
    /\ ~Waiting(h) /\ begun < MaxCalls
    /\ begun' = begun + 1
    /\ \E from \in Callers, via \in Routes, claim \in Claims :
        LET route == <<from>> \o via
            key == resolve(Arrives(route, claim, None), extra, trust)
        IN  /\ hits' = [hits EXCEPT ![key] = Recent(@)]
            /\ calls' = IF Blocked(key) THEN calls
                        ELSE [calls EXCEPT ![h] =
                                [from |-> from, via |-> via, key |-> key,
                                 near |-> Nearest(route, extra, trust), fresh |-> TRUE]]
    /\ UNCHANGED <<serves, rule, now, failed, saves, crashes>>

\* A wrong password; a note, stored or refused for its text.
Counts(h) ==
    /\ Waiting(h)
    /\ fail(calls[h])
    /\ Free(h)
    /\ UNCHANGED <<serves, rule, now, begun, saves, crashes>>

\* The right password: the limiter forgets the key.
LoginAccepted(h) ==
    /\ serves = "login" /\ Waiting(h)
    /\ hits' = [hits EXCEPT ![calls[h].key] = <<>>]
    /\ failed' = {f \in failed : f.key # calls[h].key}
    /\ Free(h)
    /\ UNCHANGED <<serves, rule, now, begun, saves, crashes>>

\* A note whose token nobody has is not counted.
FeedbackUnknown(h) ==
    /\ serves = "feedback" /\ Waiting(h)
    /\ Free(h)
    /\ UNCHANGED <<serves, rule, hits, now, failed, begun, saves, crashes>>

(***************************************************************************)
(* POST /api/net/client-ip: the switch is stored before the ranges are     *)
(* checked, so a refused call may have changed it.  The tries that were    *)
(* counted under other keys no longer bound anything.                      *)
(***************************************************************************)
SaveClientIp ==
    /\ saves < MaxSaves
    /\ trust' \in BOOLEAN
    /\ extra' \in SUBSET (Relays \cup Edges)
    /\ saves' = saves + 1
    /\ failed' = {}
    /\ calls' = [h \in Handlers |-> [calls[h] EXCEPT !.fresh = calls[h] = Idle]]
    /\ UNCHANGED <<serves, hits, now, begun, crashes>>

Restart ==
    /\ crashes < MaxCrashes
    /\ crashes' = crashes + 1
    /\ hits' = [k \in Hosts |-> <<>>] /\ failed' = {}
    /\ calls' = [h \in Handlers |-> Idle]
    /\ UNCHANGED <<serves, rule, now, begun, saves>>

Tick ==
    /\ now < MaxTime
    /\ now' = now + 1
    /\ failed' = {f \in failed : now' - f.at < Window}
    /\ UNCHANGED <<serves, rule, hits, calls, begun, saves, crashes>>

Init ==
    /\ serves \in {"login", "feedback"}
    /\ trust = TRUE /\ extra = {}
    /\ hits = [k \in Hosts |-> <<>>]
    /\ calls = [h \in Handlers |-> Idle]
    /\ now = 0 /\ failed = {}
    /\ begun = 0 /\ saves = 0 /\ crashes = 0

Next ==
    \/ \E h \in Handlers : Arrive(h) \/ Counts(h) \/ LoginAccepted(h) \/ FeedbackUnknown(h)
    \/ SaveClientIp \/ Restart \/ Tick

Spec == Init /\ [][Next]_vars

-----------------------------------------------------------------------------
(* Properties.                                                             *)

\* A caller's tries are counted whatever it writes into its headers, and calls
\* that overlap their check add no more than one each: in a window a caller gets
\* one try short of the limit and one per handler, as long as nobody behind the
\* same address signed in and the limiter was not restarted, crowded out or told
\* to read addresses differently (main.py:480-490 and 1122-1131: check, await,
\* count).
TriesBounded ==
    \A from \in Callers, via \in Routes :
        Cardinality({f \in failed : f.from = from /\ f.via = via}) <= Limit - 1 + Cardinality(Handlers)

\* The key of a call is the nearest host on its real route that this deployment
\* does not trust (clientip.resolve), whatever the route, the header the caller
\* sent and the rule the admin chose.
KeyIsNearest == \A h \in Handlers : Waiting(h) => calls[h].key = calls[h].near

\* The memory of a limiter is bounded although anyone can call (security.py:86-93,
\* "bounded on purpose"): by the cap and, since the sweep comes before the write,
\* one more.
MapBounded == Cardinality(Keys) <= MaxKeys + 1
=============================================================================
