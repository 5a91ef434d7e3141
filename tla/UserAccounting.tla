--------------------------- MODULE UserAccounting ---------------------------
(***************************************************************************)
(* Who pays for which byte: the users table (app/users/service.py and the  *)
(* request handlers of app/main.py that write it) and the pass that meters *)
(* Xray's own per-user counters into it (xray.sync_traffic_stats).         *)
(*                                                                         *)
(* The handlers are plain functions and run in a thread pool, and every    *)
(* SQL statement is a transaction of its own, so any of them may run       *)
(* between two statements of the pass.  A step of this module is one       *)
(* statement (with the reads that decide it when nobody else writes what   *)
(* they read).  Amounts are counted in bytes; the division by 10^9 is      *)
(* left out.                                                               *)
(***************************************************************************)
EXTENDS Integers, FiniteSets

CONSTANTS
    Users,      \* user names
    Quotas,     \* values of limit_gb an admin uses
    None,       \* SQL NULL, and "no row"
    MaxBytes,   \* bound: bytes a user moves through the engine in a behaviour
    MaxWrites,  \* bound: handler writes (create, delete, update, reset, track)
    MaxRestarts,\* bound: engine restarts
    MaxFaults   \* bound: passes cut short by an exception

ASSUME QuotasAreNat == Quotas \subseteq Nat
ASSUME NoneIsNoNumber == None \notin Int
ASSUME BoundsAreNat ==
    MaxBytes \in Nat /\ MaxWrites \in Nat /\ MaxRestarts \in Nat /\ MaxFaults \in Nat

VARIABLES
    row,        \* the users table: one row per existing user
    baseline,   \* settings 'xray_total:<user>', None before the first sample
    counter,    \* the running engine's uplink+downlink counter of each user
    clients,    \* the users the running engine has in its config
    pc,         \* where sync_traffic_stats is
    totals,     \* ... what statsquery answered (None: no counter for that user)
    snap,       \* ... the (used_gb, limit_gb) its SELECT returned
    todo,       \* ... the rows its loop has not reached yet
    cur,        \* ... the user it is at
    delta,      \* ... the bytes to charge to that user
    tracking,   \* users whose track() passed its check and has yet to add
    real,       \* history: bytes the user really moved through the engine
    mark,       \* history: `real` when statsquery answered
    asOf,       \* history: `restarts` when statsquery answered
    charged,    \* history: bytes the pass ever charged to the user
    tracked,    \* history: bytes POST /api/traffic ever added for the user
    first,      \* history: the counter value of the user's first sample; None before
                \* it, and again once the engine restarted, a pass failed or the row went
    over,       \* history: charges to an active user already at the quota
    touched,    \* history: rows a handler rewrote since the pass read them
    writes, restarts, faults

tableVars == <<row, baseline>>
engineVars == <<counter, clients, real>>
passVars == <<pc, totals, snap, todo, cur, delta, mark, asOf>>
ghostVars == <<charged, tracked, first, over>>
bounds == <<writes, restarts, faults>>
vars == <<tableVars, engineVars, passVars, ghostVars, tracking, touched, bounds>>

Exists(u) == row[u] # None
Active == {u \in Users : Exists(u) /\ row[u].active}

(***************************************************************************)
(* allowed(): may this user have a subscription right now?  (The expiry    *)
(* and request parts of it are left out: no write here reads them.)       *)
(***************************************************************************)
AtQuota(used, limit) == limit # None /\ used >= limit

Row == [active : BOOLEAN, used : Nat, life : Nat, limit : Quotas \cup {None}]
ASSUME NoneIsNoRow == None \notin Row
Snap == [used : Nat, limit : Quotas \cup {None}]
PerUser(S) == [Users -> S]

TypeOK ==
    /\ row \in PerUser(Row \cup {None})
    /\ baseline \in PerUser(Nat \cup {None})
    /\ counter \in PerUser(Nat) /\ clients \subseteq Users
    /\ pc \in {"idle", "rows", "users", "charge", "disable"}
    /\ totals \in PerUser(Nat \cup {None})
    /\ snap \in PerUser(Snap)
    /\ todo \subseteq Users
    /\ cur \in Users \cup {None}
    /\ pc \in {"charge", "disable"} => cur \in Users
    /\ delta \in Nat
    /\ tracking \subseteq Users /\ touched \subseteq Users
    /\ real \in PerUser(Nat) /\ mark \in PerUser(Nat)
    /\ charged \in PerUser(Nat) /\ tracked \in PerUser(Nat)
    /\ first \in PerUser(Nat \cup {None}) /\ over \in PerUser(Nat)
    /\ asOf \in Nat /\ writes \in Nat /\ restarts \in Nat /\ faults \in Nat

Zero == [u \in Users |-> 0]

\* A fresh deployment: no users, an engine without clients.
Init ==
    /\ row = [u \in Users |-> None]
    /\ baseline = [u \in Users |-> None]
    /\ counter = Zero /\ clients = {}
    /\ pc = "idle"
    /\ totals = [u \in Users |-> None]
    /\ snap = [u \in Users |-> [used |-> 0, limit |-> None]]
    /\ todo = {} /\ cur = None /\ delta = 0
    /\ tracking = {} /\ touched = {}
    /\ real = Zero /\ mark = Zero /\ charged = Zero /\ tracked = Zero
    /\ first = [u \in Users |-> None] /\ over = Zero
    /\ asOf = 0 /\ writes = 0 /\ restarts = 0 /\ faults = 0

(***************************************************************************)
(* The engine (external to this module: XraySupervisor restarts it).       *)
(***************************************************************************)
Transfer(u) ==
    /\ u \in clients
    /\ real[u] < MaxBytes
    /\ counter' = [counter EXCEPT ![u] = @ + 1]
    /\ real' = [real EXCEPT ![u] = @ + 1]
    /\ UNCHANGED <<tableVars, clients, passVars, ghostVars, tracking, touched, bounds>>

\* A restarted engine counts from zero and knows the users active by then.
EngineRestart ==
    /\ restarts < MaxRestarts
    /\ restarts' = restarts + 1
    /\ counter' = Zero
    /\ clients' = Active
    /\ first' = [u \in Users |-> None]
    /\ UNCHANGED <<tableVars, real, passVars, charged, tracked, over, tracking, touched, writes, faults>>

(***************************************************************************)
(* sync_traffic_stats.                                                     *)
(***************************************************************************)

\* statsquery answers; a user that moved nothing may have no counter.
Query ==
    /\ pc = "idle"
    /\ \E seen \in SUBSET Users :
        /\ \A u \in Users \ seen : counter[u] = 0
        /\ totals' = [u \in Users |-> IF u \in seen THEN counter[u] ELSE None]
    /\ mark' = real /\ asOf' = restarts
    /\ pc' = "rows"
    /\ UNCHANGED <<tableVars, engineVars, snap, todo, cur, delta, ghostVars, tracking, touched, bounds>>

\* SELECT ... WHERE is_active=1, after the await on the answer.
ReadRows ==
    /\ pc = "rows"
    /\ snap' = [u \in Users |->
          IF u \in Active THEN [used |-> row[u].used, limit |-> row[u].limit] ELSE snap[u]]
    /\ todo' = {u \in Active : totals[u] # None}
    /\ touched' = {}
    /\ pc' = "users"
    /\ UNCHANGED <<tableVars, engineVars, totals, cur, delta, mark, asOf, ghostVars, tracking, bounds>>

\* Mutants: a counter that went back is charged the wrong way round; the first
\* sample is charged whole.
DeltaAbsolute(u) ==
    IF baseline[u] = None THEN 0
    ELSE IF totals[u] < baseline[u] THEN baseline[u] - totals[u] ELSE totals[u] - baseline[u]
DeltaWhole(u) ==
    IF baseline[u] = None THEN totals[u]
    ELSE IF totals[u] < baseline[u] THEN 0 ELSE totals[u] - baseline[u]

\* The bytes since the last sample; without one, or after the counter went
\* back, the sample itself becomes the baseline and nothing is charged.
Delta(u) ==
    LET old == IF baseline[u] = None \/ totals[u] < baseline[u] THEN totals[u] ELSE baseline[u]
    IN  totals[u] - old

\* The baseline moves first, in a transaction of its own.
Sample(u) ==
    /\ pc = "users"
    /\ u \in todo
    /\ todo' = todo \ {u}
    /\ baseline' = [baseline EXCEPT ![u] = totals[u]]
    /\ first' = IF baseline[u] = None /\ asOf = restarts THEN [first EXCEPT ![u] = totals[u]] ELSE first
    /\ cur' = u
    /\ delta' = Delta(u)
    /\ pc' = IF Delta(u) > 0 THEN "charge" ELSE "users"
    /\ UNCHANGED <<row, engineVars, totals, snap, mark, asOf, charged, tracked, over, tracking, touched, bounds>>

\* Mutant: the lifetime counter is forgotten.
AddUsedOnly(u, n) == [row EXCEPT ![u].used = @ + n]

\* UPDATE users SET used_gb=used_gb+?, lifetime_used_gb=lifetime_used_gb+?
Add(u, n) == [row EXCEPT ![u].used = @ + n, ![u].life = @ + n]

\* Mutants: the quota is never enforced; it is compared with the raw counter.
ReachesQuotaNever(u) == u \notin Users
ReachesQuotaByCounter(u) == AtQuota(totals[u], snap[u].limit)

\* u.used_gb + gb >= u.limit_gb, with the values the SELECT returned.
ReachesQuota(u) == AtQuota(snap[u].used + delta, snap[u].limit)

Charge ==
    /\ pc = "charge"
    /\ IF Exists(cur)
       THEN /\ row' = Add(cur, delta)
            /\ charged' = [charged EXCEPT ![cur] = @ + delta]
            /\ over' = IF row[cur].active /\ AtQuota(row[cur].used, row[cur].limit)
                       THEN [over EXCEPT ![cur] = @ + 1] ELSE over
       ELSE UNCHANGED <<row, charged, over>>
    /\ pc' = IF ReachesQuota(cur) THEN "disable" ELSE "users"
    /\ UNCHANGED <<baseline, engineVars, totals, snap, todo, cur, delta, mark, asOf, tracked, first,
                   tracking, touched, bounds>>

\* UPDATE users SET is_active=0: the quota decision was taken on the SELECT's values.
Disable ==
    /\ pc = "disable"
    /\ row' = IF Exists(cur) THEN [row EXCEPT ![cur].active = FALSE] ELSE row
    /\ pc' = "users"
    /\ UNCHANGED <<baseline, engineVars, totals, snap, todo, cur, delta, mark, asOf, ghostVars,
                   tracking, touched, bounds>>

PassDone ==
    /\ pc = "users"
    /\ todo = {}
    /\ pc' = "idle"
    /\ UNCHANGED <<tableVars, engineVars, totals, snap, todo, cur, delta, mark, asOf, ghostVars,
                   tracking, touched, bounds>>

\* A statement raises (`except Exception: return`), or the control plane goes down
\* between two of them: what the pass still had to do is never done.
PassFails ==
    /\ pc # "idle"
    /\ faults < MaxFaults
    /\ faults' = faults + 1
    /\ pc' = "idle"
    /\ first' = [u \in Users |-> None]
    /\ UNCHANGED <<tableVars, engineVars, totals, snap, todo, cur, delta, mark, asOf, charged, tracked,
                   over, tracking, touched, writes, restarts>>

(***************************************************************************)
(* The handlers.                                                           *)
(***************************************************************************)
Write ==
    /\ writes < MaxWrites
    /\ writes' = writes + 1
    /\ UNCHANGED <<baseline, engineVars, passVars, charged, restarts, faults>>

\* A handler rewrote the user's row: the pass's copy of it is stale.
Rewrite(u, r) ==
    /\ row' = [row EXCEPT ![u] = r]
    /\ touched' = touched \cup {u}
    /\ over' = [over EXCEPT ![u] = 0]
    /\ UNCHANGED <<tracking, tracked>>

\* POST /api/users (the INSERT fails for a name that is taken).
CreateUser(u, limit) ==
    /\ Write
    /\ ~Exists(u)
    /\ Rewrite(u, [active |-> TRUE, used |-> 0, life |-> 0, limit |-> limit])
    /\ UNCHANGED first

\* DELETE /api/users/{username}: the row goes, the settings key stays.
DeleteUser(u) ==
    /\ Write
    /\ Exists(u)
    /\ Rewrite(u, None)
    /\ first' = [first EXCEPT ![u] = None]

\* PUT /api/users/{username} with toggle_only.
ToggleUser(u) ==
    /\ Write
    /\ Exists(u)
    /\ Rewrite(u, [row[u] EXCEPT !.active = ~@])
    /\ UNCHANGED first

\* ... with reset_action=volume, or reset_due() on a scheduled reset: the quota
\* starts again, lifetime_used_gb and is_active stay.
ResetVolume(u) ==
    /\ Write
    /\ Exists(u)
    /\ Rewrite(u, [row[u] EXCEPT !.used = 0])
    /\ UNCHANGED first

\* ... with a new limit_gb.
SetLimit(u, limit) ==
    /\ Write
    /\ Exists(u)
    /\ Rewrite(u, [row[u] EXCEPT !.limit = limit])
    /\ UNCHANGED first

\* POST /api/traffic/{username}: track() reads the row and drops a disabled user...
TrackCheck(u) ==
    /\ u \in Active \ tracking
    /\ Write
    /\ tracking' = tracking \cup {u}
    /\ UNCHANGED <<row, first, tracked, over, touched>>

\* ... then adds, to whatever row the name has by now.  It never disables.
TrackAdd(u) ==
    /\ u \in tracking
    /\ tracking' = tracking \ {u}
    /\ IF Exists(u)
       THEN /\ row' = Add(u, 1)
            /\ tracked' = [tracked EXCEPT ![u] = @ + 1]
       ELSE UNCHANGED <<row, tracked>>
    /\ UNCHANGED <<baseline, engineVars, passVars, charged, first, over, touched, bounds>>

Pass == Query \/ ReadRows \/ (\E u \in Users : Sample(u)) \/ Charge \/ Disable \/ PassDone

Handler ==
    \E u \in Users :
        \/ \E limit \in Quotas \cup {None} : CreateUser(u, limit) \/ SetLimit(u, limit)
        \/ DeleteUser(u) \/ ToggleUser(u) \/ ResetVolume(u)
        \/ TrackCheck(u) \/ TrackAdd(u)

Next ==
    \/ \E u \in Users : Transfer(u)
    \/ EngineRestart
    \/ Pass
    \/ PassFails
    \/ Handler

Spec == Init /\ [][Next]_vars

(***************************************************************************)
(* What the accounting promises.                                           *)
(***************************************************************************)

\* No byte is billed twice, and none that never moved: whatever restarts, failing
\* passes and concurrent handlers do, the pass never charges a user more than the
\* engine carried for that name.
NeverOvercharged == \A u \in Users : charged[u] <= real[u]

\* The quota counter is part of the lifetime counter, and both only hold what was
\* charged or tracked: a reset, a re-creation or a late UPDATE never invents usage.
UsedAccounted ==
    \A u \in Users : Exists(u) =>
        /\ row[u].used <= row[u].life
        /\ row[u].life <= charged[u] + tracked[u]

\* On an engine that did not restart since the first sample, between passes, exactly
\* what the counter gained since that sample was charged: no pass loses a byte.
SteadyStateExact ==
    \A u \in Users :
        pc \in {"idle", "rows"} /\ first[u] # None => charged[u] = baseline[u] - first[u]

\* A user is charged at most twice while already at the quota (once by the pass that
\* took its decision on a stale row, once by the next) per failed pass and overall:
\* after that the pass has disabled the user.
OverQuotaBounded == \A u \in Users : over[u] <= 2 + faults

\* The pass never disables a user who is under the quota, unless a handler rewrote
\* that user's row after the pass had read it.
DisableJustified ==
    [][ \A u \in Users :
          (pc = "disable" /\ cur = u /\ Exists(u) /\ row'[u] # row[u] /\ u \notin touched)
              => AtQuota(row[u].used, row[u].limit) ]_vars
=============================================================================
