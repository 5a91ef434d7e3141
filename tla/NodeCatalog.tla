----------------------------- MODULE NodeCatalog -----------------------------
(***************************************************************************)
(* The Node Catalog, app/nodes.py, app/edge/sources.py and their handlers: *)
(* which scanned addresses a subscription may contain.  A rebuild (sync)   *)
(* parks every edge node, then re-publishes the ones an admin had picked;  *)
(* a ping takes seconds and writes back the whole metadata it read; select *)
(* publishes or parks by hand.  Every SQL statement is a transaction of    *)
(* its own.                                                                *)
(*                                                                         *)
(* Coroutines only give way at an await, and sync() and select() have      *)
(* none; but two handlers (DELETE of an address, DELETE of a location) are *)
(* plain functions and run sync() in a pool thread, between any two        *)
(* statements of the others.  A step of this module is one statement.      *)
(*                                                                         *)
(* Data abstraction.  A scanned node's name is its location's id (or the   *)
(* default catalog's), the country the location's addresses measure, and   *)
(* the rank of its address in the location: the address behind a name      *)
(* changes with the ranking, and all names of a location change with its   *)
(* country.  Latencies are left out, and of the metadata only `candidate`  *)
(* is kept.  The deployment's own node, nodes made by hand, clean domains  *)
(* and samples are left out: no statement of a rebuild but ensure_origin   *)
(* touches them, or their names never change.                              *)
(***************************************************************************)
EXTENDS Naturals, Sequences

CONSTANTS
    Sources,    \* the locations an admin may switch on
    Default,    \* the source-less catalog (cloudflare-NN)
    Countries,  \* what a location's addresses may measure (or it is declared to be)
    Addresses,  \* clean IPs
    Home,       \* the country the locations are declared to be in
    Seeded,     \* the ranking the pool is seeded with
    MaxNodes,   \* nodes per location (the source's `max`)
    Loop,       \* the event loop: catalog_loop() and every async handler that syncs
    Threads,    \* pool threads, for the handlers that are plain functions
    None,
    Overlap,    \* whether the threads really interleave with the event loop
    MaxChanges, \* bound: admin decisions
    MaxScans,   \* bound: changes of a ranking, a measured country or the front
    MaxPings,   \* bound: nodes pinged
    MaxCrashes  \* bound: restarts of the process

Owners == Sources \cup {Default}
Names == Owners \X Countries \X (1..MaxNodes)
Syncers == {Loop} \cup Threads

ASSUME DefaultIsNoSource == Default \notin Sources
ASSUME LoopIsNoThread == Loop \notin Threads
ASSUME OverlapIsBoolean == Overlap \in BOOLEAN
ASSUME BoundsAreNat ==
    MaxNodes \in Nat /\ MaxChanges \in Nat /\ MaxScans \in Nat /\ MaxPings \in Nat /\ MaxCrashes \in Nat

VARIABLES
    node,     \* the nodes table: one row per name, or None
    on,       \* settings: the locations that exist and are enabled
    auto,     \* settings edge_auto_publish
    fronted,  \* a Worker host, or NodeCatalog.edge_cache: what the default catalog needs
    label,    \* the country in the names of each location (the default has none: a constant)
    pool,     \* the addresses each location (and the default) lists, best first
    job,      \* one suspended (or idle) sync() per syncer
    half,     \* select() between its two statements: what it switched, or None
    ping,     \* the row each ping read and has yet to write back, or None
    picked,   \* history: names whose last decision, by hand or by auto-publish, was yes
    kept,     \* history: those of them that were planned ever since
    changes, scans, pings, crashes

bounds == <<changes, scans, pings, crashes>>
env == <<on, fronted, label, pool>>
vars == <<node, env, auto, job, half, ping, picked, kept, bounds>>

Row == [server : Addresses, enabled : BOOLEAN, candidate : BOOLEAN]
Distinct(r) == \A i, j \in DOMAIN r : r[i] = r[j] => i = j
Rankings == UNION {{r \in [1..k -> Addresses] : Distinct(r)} : k \in 0..MaxNodes}
ASSUME SeedAssumption == Home \in Countries /\ Seeded \in Rankings
ASSUME NoneIsNew == None \notin Addresses \cup Row \cup (Names \X BOOLEAN)

Job == [pc : {"idle", "disable", "plan", "upsert", "enable", "mark"},
        before : SUBSET Names, auto : BOOLEAN, plan : [Names -> Addresses \cup {None}],
        todo : SUBSET Names, cur : Names \cup {None}]
IdleJob == [pc |-> "idle", before |-> {}, auto |-> FALSE, plan |-> [n \in Names |-> None],
            todo |-> {}, cur |-> None]

Exists(n) == node[n] # None
Published == {n \in Names : Exists(n) /\ node[n].enabled}

TypeOK ==
    /\ node \in [Names -> Row \cup {None}]
    /\ on \subseteq Sources /\ auto \in BOOLEAN
    /\ fronted \in BOOLEAN /\ label \in [Owners -> Countries]
    /\ pool \in [Owners -> Rankings]
    /\ job \in [Syncers -> Job]
    /\ half \in (Names \X BOOLEAN) \cup {None}
    /\ ping \in [Names -> Row \cup {None}]
    /\ picked \subseteq Names /\ kept \subseteq Names
    /\ changes \in 0..MaxChanges /\ scans \in 0..MaxScans
    /\ pings \in 0..MaxPings /\ crashes \in 0..MaxCrashes

\* A fresh deployment with its pool seeded: no rebuild yet, nothing known to front it.
Init ==
    /\ node = [n \in Names |-> None]
    /\ on \in SUBSET Sources
    /\ auto = FALSE
    /\ fronted = FALSE
    /\ label = [o \in Owners |-> Home]
    /\ pool = [o \in Owners |-> Seeded]
    /\ job = [y \in Syncers |-> IdleJob]
    /\ half = None
    /\ ping = [n \in Names |-> None]
    /\ picked = {} /\ kept = {}
    /\ changes = 0 /\ scans = 0 /\ pings = 0 /\ crashes = 0

(***************************************************************************)
(* edge_sources.plan(): one group of nodes per enabled location; if they   *)
(* yield none, the default group, provided there is a host to front it.    *)
(***************************************************************************)
Groups ==
    IF \E s \in on : pool[s] # <<>> THEN on
    ELSE IF fronted THEN {Default} ELSE {}

Planned(n) == n[1] \in Groups /\ n[2] = label[n[1]] /\ n[3] \in DOMAIN pool[n[1]]
PlanNow == [n \in Names |-> IF Planned(n) THEN pool[n[1]][n[3]] ELSE None]

\* History: of the names S, those the plan has after this step too.
Keeps(S) == kept' = {n \in S : Planned(n)'}

(***************************************************************************)
(* sync().                                                                 *)
(***************************************************************************)

\* The event loop is in the middle of a sync() or of a select().
LoopBusy == job[Loop].pc # "idle" \/ half # None
Quiet == ~LoopBusy /\ \A y \in Threads : job[y].pc = "idle"

\* Coroutines wait for each other's statements, a thread waits for nobody.
LoopFree == ~LoopBusy /\ (Overlap \/ Quiet)
ThreadFree(y) == y \in Threads /\ job[y].pc = "idle" /\ (Overlap \/ Quiet)

\* Mutant: the rebuild takes every scanned node for published.
BeforeAll == {n \in Names : Exists(n)}

\* Which edge nodes are published, captured before the rebuild disables them.
Before == Published

Captured == [IdleJob EXCEPT !.pc = "disable", !.before = Before, !.auto = auto]

\* catalog_loop(), and every handler that only asks for a rebuild.
Rebuild ==
    /\ LoopFree
    /\ job' = [job EXCEPT ![Loop] = Captured]
    /\ UNCHANGED <<node, env, auto, half, ping, picked, kept, bounds>>

\* UPDATE nodes SET enabled=0 for every row a rebuild owns.
DisableAll(y) ==
    /\ job[y].pc = "disable"
    /\ node' = [n \in Names |-> IF Exists(n) THEN [node[n] EXCEPT !.enabled = FALSE] ELSE None]
    /\ job' = [job EXCEPT ![y].pc = "plan"]
    /\ UNCHANGED <<env, auto, half, ping, picked, kept, bounds>>

\* plan() reads the locations, their countries and addresses.
Plan(y) ==
    /\ job[y].pc = "plan"
    /\ job' = [job EXCEPT ![y].pc = "upsert", ![y].plan = PlanNow,
                          ![y].todo = {n \in Names : Planned(n)}]
    /\ UNCHANGED <<node, env, auto, half, ping, picked, kept, bounds>>

\* upsert(): a new row is enabled by the column's default; an existing one keeps
\* `enabled`, and its metadata is replaced.
Upsert(y, n) ==
    /\ job[y].pc = "upsert"
    /\ n \in job[y].todo /\ \A m \in job[y].todo : m[1] = n[1] => n[3] <= m[3]
    /\ node' = [node EXCEPT ![n] =
          IF Exists(n) THEN [node[n] EXCEPT !.server = job[y].plan[n], !.candidate = FALSE]
          ELSE [server |-> job[y].plan[n], enabled |-> TRUE, candidate |-> FALSE]]
    /\ job' = [job EXCEPT ![y].pc = "enable", ![y].cur = n,
                          ![y].todo = job[y].todo \ {n}]
    /\ UNCHANGED <<env, auto, half, ping, picked, kept, bounds>>

Publish(y) == job[y].auto \/ job[y].cur \in job[y].before

\* UPDATE nodes SET enabled=? (a row deleted meanwhile stays deleted).
Enable(y) ==
    /\ job[y].pc = "enable"
    /\ job' = [job EXCEPT ![y].pc = "mark"]
    /\ UNCHANGED <<env, auto, half, ping, bounds>>
    /\ LET n == job[y].cur
           chosen == IF job[y].auto /\ Exists(n) THEN {n} ELSE {}
       IN  /\ node' = IF Exists(n) THEN [node EXCEPT ![n].enabled = Publish(y)] ELSE node
           /\ picked' = picked \cup chosen
           /\ Keeps(kept \cup chosen)

\* _mark_candidate(name, not publish)
Mark(y) ==
    /\ job[y].pc = "mark"
    /\ LET n == job[y].cur IN
       node' = IF Exists(n) THEN [node EXCEPT ![n].candidate = ~Publish(y)] ELSE node
    /\ job' = [job EXCEPT ![y].pc = "upsert", ![y].cur = None]
    /\ UNCHANGED <<env, auto, half, ping, picked, kept, bounds>>

\* Mutant: nodes of a location that is gone stay.
OrphansNone(y) == {}

\* cleanup_orphans(): a location's node outside the plan goes, the default catalog stays.
Orphans(y) == {n \in Names : Exists(n) /\ n[1] # Default /\ job[y].plan[n] = None}

Cleanup(y) ==
    /\ job[y].pc = "upsert"
    /\ job[y].todo = {}
    /\ node' = [n \in Names |-> IF n \in Orphans(y) THEN None ELSE node[n]]
    /\ job' = [job EXCEPT ![y] = IdleJob]
    /\ UNCHANGED <<env, auto, half, ping, picked, kept, bounds>>

SyncStep(y) ==
    \/ DisableAll(y) \/ Plan(y) \/ (\E n \in Names : Upsert(y, n))
    \/ Enable(y) \/ Mark(y) \/ Cleanup(y)

(***************************************************************************)
(* ping().                                                                 *)
(***************************************************************************)

\* The row is read; the handshake takes seconds.  The loop pings what is published,
\* an explicit request pings candidates as well.
PingRead(n) ==
    /\ LoopFree
    /\ Exists(n) /\ ping[n] = None
    /\ pings < MaxPings
    /\ pings' = pings + 1
    /\ ping' = [ping EXCEPT ![n] = node[n]]
    /\ UNCHANGED <<node, env, auto, job, half, picked, kept, changes, scans, crashes>>

\* mark(): the verdict, together with the metadata that was read.
PingWrite(n) ==
    /\ LoopFree
    /\ ping[n] # None
    /\ node' = IF Exists(n)
               THEN [node EXCEPT ![n].candidate = ping[n].candidate] ELSE node
    /\ ping' = [ping EXCEPT ![n] = None]
    /\ UNCHANGED <<env, auto, job, half, picked, kept, bounds>>

(***************************************************************************)
(* The admin.                                                              *)
(***************************************************************************)
Decide ==
    /\ changes < MaxChanges
    /\ changes' = changes + 1
    /\ UNCHANGED <<ping, scans, pings, crashes>>

\* Somebody decides that the names S are published, or that they are not.
Pick(S) == picked' = picked \cup S /\ Keeps(kept \cup S)
Unpick(S) == picked' = picked \ S /\ Keeps(kept \ S)

\* POST /api/nodes/select: the switch first...
Select(n, publish) ==
    /\ LoopFree
    /\ Decide
    /\ Exists(n)
    /\ node' = [node EXCEPT ![n].enabled = publish]
    /\ half' = <<n, publish>>
    /\ UNCHANGED <<env, auto, job>>
    /\ IF publish THEN Pick({n}) ELSE Unpick({n})

\* ... then the candidate tag of what was switched.
SelectMark ==
    /\ half # None
    /\ LET n == half[1] IN
       node' = IF Exists(n) THEN [node EXCEPT ![n].candidate = ~half[2]] ELSE node
    /\ half' = None
    /\ UNCHANGED <<env, auto, job, ping, picked, kept, bounds>>

\* PUT /api/nodes/{name}: the switch alone.
UpdateNode(n) ==
    /\ LoopFree
    /\ Decide
    /\ Exists(n)
    /\ node' = [node EXCEPT ![n].enabled = ~node[n].enabled]
    /\ UNCHANGED <<env, auto, job, half>>
    /\ IF node[n].enabled THEN Unpick({n}) ELSE Pick({n})

\* DELETE /api/nodes/{name}, in a thread.
DeleteNode(y, n) ==
    /\ ThreadFree(y)
    /\ Decide
    /\ Exists(n)
    /\ node' = [node EXCEPT ![n] = None]
    /\ UNCHANGED <<env, auto, job, half>>
    /\ Unpick({n})

Candidates == {n \in Names : Exists(n) /\ ~node[n].enabled /\ node[n].candidate}

\* POST /api/nodes/selection: the switch, and with it everything waiting (one step: in
\* what it reads and writes it is a select() of every candidate).
SwitchAuto ==
    /\ LoopFree
    /\ Decide
    /\ auto' = ~auto
    /\ UNCHANGED <<env, job, half>>
    /\ LET taken == IF auto' THEN Candidates ELSE {} IN
        /\ node' = [n \in Names |-> IF n \in taken
                        THEN [node[n] EXCEPT !.enabled = TRUE, !.candidate = FALSE] ELSE node[n]]
        /\ Pick(taken)

\* POST /api/edge/sources/{id}/toggle, which rebuilds before it answers.
SwitchSource(s) ==
    /\ LoopFree
    /\ Decide
    /\ on' = IF s \in on THEN on \ {s} ELSE on \cup {s}
    /\ job' = [job EXCEPT ![Loop] = Captured]
    /\ UNCHANGED <<node, auto, fronted, label, pool, half, picked>>
    /\ Keeps(kept)

\* DELETE /api/edge/sources/{id}, in a thread: the location, its nodes, then a rebuild.
DeleteSource(y, s) ==
    /\ ThreadFree(y)
    /\ Decide
    /\ s \in on
    /\ on' = on \ {s}
    /\ node' = [n \in Names |-> IF n[1] = s THEN None ELSE node[n]]
    /\ job' = [job EXCEPT ![y] = [Captured EXCEPT !.before = {n \in Before : n[1] # s}]]
    /\ UNCHANGED <<auto, fronted, label, pool, half>>
    /\ Unpick({n \in Names : n[1] = s})

\* A ranking without one of its addresses.
WithoutRank(r, i) == [j \in 1..(Len(r) - 1) |-> IF j < i THEN r[j] ELSE r[j + 1]]
Without(r, a) ==
    IF \E i \in DOMAIN r : r[i] = a THEN WithoutRank(r, CHOOSE i \in DOMAIN r : r[i] = a) ELSE r

\* DELETE /api/edge/ips/{ip}, in a thread: one address leaves the pool, then a rebuild.
DeleteAddress(y) ==
    /\ ThreadFree(y)
    /\ Decide
    /\ \E a \in Addresses : pool' = [o \in Owners |-> Without(pool[o], a)]
    /\ job' = [job EXCEPT ![y] = Captured]
    /\ UNCHANGED <<node, on, fronted, label, auto, half, picked>>
    /\ Keeps(kept)

(***************************************************************************)
(* What is measured.                                                       *)
(***************************************************************************)
Measured ==
    /\ scans < MaxScans
    /\ scans' = scans + 1
    /\ UNCHANGED <<node, on, auto, job, half, ping, picked, changes, pings, crashes>>

\* probe_all(), scan() and add_ips() change which addresses rank where.
Scan ==
    /\ LoopFree
    /\ Measured
    /\ \E r \in Rankings, o \in Owners : pool' = [pool EXCEPT ![o] = r] /\ pool' # pool
    /\ UNCHANGED <<fronted, label>>
    /\ Keeps(kept)

\* The lookups of a pool thread (or an admin, or align_labels()) give a location another
\* country; an address that measures elsewhere is left out of it.
Relabel(s) ==
    /\ Measured
    /\ \E c \in Countries \ {label[s]} : label' = [label EXCEPT ![s] = c]
    /\ pool' = pool \/ \E a \in Addresses : pool' = [pool EXCEPT ![s] = Without(pool[s], a)]
    /\ UNCHANGED fronted
    /\ Keeps(kept)

\* detect_edge() finds a fronted domain or fails to; an admin sets a Worker or drops it.
Front ==
    /\ LoopFree
    /\ Measured
    /\ fronted' = ~fronted
    /\ UNCHANGED <<label, pool>>
    /\ Keeps(kept)

\* The process goes down between two statements; the tables are what they are, what
\* detect_edge() remembered is gone.
Crash ==
    /\ crashes < MaxCrashes
    /\ crashes' = crashes + 1
    /\ job' = [y \in Syncers |-> IdleJob]
    /\ half' = None
    /\ ping' = [n \in Names |-> None]
    /\ fronted' \in {FALSE, fronted}
    /\ UNCHANGED <<node, on, label, auto, pool, picked, changes, scans, pings>>
    /\ Keeps(kept)

Next ==
    \/ Rebuild
    \/ \E y \in Syncers : SyncStep(y)
    \/ \E n \in Names : PingRead(n) \/ PingWrite(n) \/ UpdateNode(n)
    \/ \E n \in Names, publish \in BOOLEAN : Select(n, publish)
    \/ SelectMark \/ SwitchAuto
    \/ \E s \in Sources : SwitchSource(s) \/ Relabel(s)
    \/ \E y \in Threads :
        \/ \E n \in Names : DeleteNode(y, n)
        \/ \E s \in Sources : DeleteSource(y, s)
        \/ DeleteAddress(y)
    \/ Scan \/ Front
    \/ Crash

\* catalog_loop() rebuilds every ten minutes, threads and coroutines run to their end.
Fairness ==
    /\ WF_vars(Rebuild)
    /\ \A y \in Syncers : WF_vars(SyncStep(y))
    /\ WF_vars(SelectMark)
    /\ SF_vars(\E n \in Names : PingWrite(n))

Spec == Init /\ [][Next]_vars
FairSpec == Spec /\ Fairness

(***************************************************************************)
(* What the catalog promises.                                              *)
(***************************************************************************)

\* sync() captures, parks and publishes again in many statements, a new row starts out
\* enabled, and rankings, countries, fronts and decisions change in between.  As long
\* as the process lives, users see between rebuilds every node that was picked and
\* whose name the plan never lost since, and no node that nobody picked.
PublishedIsPicked == crashes = 0 /\ Quiet => kept \subseteq Published /\ Published \subseteq picked

\* Once admin, pool and pings come to rest the catalog is, after every rebuild, the
\* plan: each planned node has its planned address and is published or listed as a
\* candidate, no node outside it is published, no node of a location that is gone is
\* left.  A crash inside a rebuild and a ping's stale answer are repaired.
Settles ==
    <>[](Quiet => \A n \in Names :
            IF Planned(n)
            THEN /\ Exists(n) /\ node[n].server = pool[n[1]][n[3]]
                 /\ node[n].enabled \/ node[n].candidate
            ELSE (n[1] = Default \/ ~Exists(n)) /\ n \notin Published)
=============================================================================
