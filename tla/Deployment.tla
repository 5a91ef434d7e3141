------------------------------ MODULE Deployment ------------------------------
(***************************************************************************)
(* The TCP proxies of a deployment on Railway, the ports the panel learns  *)
(* from them, and the update it asks for: app/autoconfig.py, app/ports.py, *)
(* app/railway.py and app/self_update.py.                                  *)
(*                                                                         *)
(* A raw port is reachable there only through a TCP proxy, which is        *)
(* created over Railway's API and is active after the next deployment.  The *)
(* moment one exists Railway hands the service that proxy's application    *)
(* port as PORT, so the pass stores PORT as a variable of the service      *)
(* before it asks for the deployment.  The pass runs inside the lifespan,  *)
(* before anything is served, and in a pool thread for the panel's card;   *)
(* an update is a plain handler, in a thread too.                          *)
(*                                                                         *)
(* A call of the API is answered, refused, or carried out although its     *)
(* answer is lost (the client gives up after 20 seconds): the code treats  *)
(* the last two alike.  The old container stops when the new one starts.   *)
(* A capability and the port it listens on are one thing here, a user is   *)
(* its UUID, and the counts of nodes and settings are left out.            *)
(***************************************************************************)
EXTENDS Naturals, FiniteSets

CONSTANTS
    Caps,        \* ports.CATALOG: the ranks of its rows
    Always,      \* the capabilities without a switch (Reality)
    Passers,     \* pool threads of POST /api/system/autoconfig
    Updaters,    \* pool threads of POST /api/system/update
    Boot,        \* the pass of the lifespan
    Users,
    None, Http,  \* Http: the port the HTTP edge is meant to serve on
    MaxProxies,  \* proxies Railway creates; it refuses further ones
    MaxFaults,   \* bound: calls refused or with their answer lost
    MaxEdits,    \* bound: switches set, users added or removed, proxies deleted by hand
    MaxStops     \* bound: containers that stop by themselves

Runners == Passers \cup {Boot}
Proxy == [port : Caps, public : 1..MaxProxies]

ASSUME CapsAreRanks == Caps \subseteq Nat
ASSUME SwitchlessAreCaps == Always \subseteq Caps
ASSUME HttpIsApart == Http \notin Caps /\ None \notin Caps \cup {Http}
ASSUME NoneIsNoGuard == None \notin [users : SUBSET Users, restarted : BOOLEAN]
ASSUME BootIsApart == Boot \notin Passers
ASSUME BoundsAreNat == {MaxProxies, MaxFaults, MaxEdits, MaxStops} \subseteq Nat

VARIABLES
    token, durable, \* the environment: an API token, storage that outlives the container
    auto,      \* settings auto_configure
    proxies,   \* Railway: the TCP proxies of the service
    pinned,    \* Railway: the stored variable PORT, or None
    pending,   \* Railway: a deployment was asked for
    issued,    \* Railway: public ports handed out so far
    edge,      \* the PORT this container was started with
    enabled,   \* settings: the capabilities whose switch is on
    stored,    \* settings tcp_public_ports: application port -> public port
    done,      \* settings tcp_proxies_done
    log,       \* settings tcp_proxies_log
    users,
    guard,     \* settings panel_update_guard
    pass, update,
    edits, faults, stops,
    mishap,    \* history: a proxy was left without a pin, as only a lost answer, a refused
               \* pin or a stop between the two leaves it
    promise    \* history: what each updater's last request came to

railway == <<proxies, pinned, pending, issued>>
settings == <<enabled, stored, done, log, guard>>
environment == <<token, durable>>
vars == <<environment, auto, railway, edge, settings, users, pass, update, edits, faults, stops, mishap, promise>>

-----------------------------------------------------------------------------
Serving == edge = Http /\ pass[Boot].at = "idle"

Idle == [at |-> "idle", rounds |-> 0, rows |-> {}, items |-> <<>>, todo |-> {}, cap |-> None, made |-> {}]
To(c, where) == pass' = [pass EXCEPT ![c].at = where]

\* A call of the API: `carried` out, and what the client makes of it.
Outcomes == {[carried |-> TRUE, answered |-> TRUE]} \cup
            (IF faults < MaxFaults THEN [carried : BOOLEAN, answered : {FALSE}] ELSE {})
Counted(o) == faults' = IF o.answered THEN faults ELSE faults + 1

Ports(rows) == {r.port : r \in rows}
\* ports.merge: the rows win over what was known, and nothing known is dropped
Merged(items, rows) ==
    [p \in DOMAIN items \cup Ports(rows) |->
        IF p \in Ports(rows) THEN (CHOOSE r \in rows : r.port = p).public ELSE items[p]]

\* ports.catalog: what is worth a proxy, the capabilities that are switched on
Catalog == enabled
\* ports.proxied
Proxied(p) == p \in DOMAIN stored

\* Nothing is left of this railway_ports(): the next one of the request, or the end.
EndRound(c) ==
    pass' = [pass EXCEPT ![c] = IF pass[c].rounds > 1 THEN [Idle EXCEPT !.at = "list", !.rounds = 1] ELSE Idle]

-----------------------------------------------------------------------------
(* One pass of railway_ports().                                            *)

\* action railway is one pass, action all runs a second one inside apply()
RunAutoconfig(c) ==
    /\ Serving /\ pass[c].at = "idle" /\ token
    /\ \E rounds \in {1} \cup (IF auto THEN {2} ELSE {}) :
          pass' = [pass EXCEPT ![c] = [Idle EXCEPT !.at = "list", !.rounds = rounds]]
    /\ UNCHANGED <<environment, auto, railway, edge, settings, users, update, edits, faults, stops, mishap, promise>>

\* Mutant: the pass does not ask what Railway has.
ListNothing(c) ==
    /\ pass[c].at = "list"
    /\ pass' = [pass EXCEPT ![c].at = "read", ![c].rows = {}, ![c].cap = None, ![c].todo = Catalog]
    /\ UNCHANGED <<environment, auto, railway, edge, settings, users, update, edits, faults, stops, mishap, promise>>
\* railway.proxies(); without an answer the pass ends, unmarked
List(c) ==
    /\ pass[c].at = "list"
    /\ \E o \in Outcomes :
          /\ Counted(o)
          /\ IF o.answered
             THEN pass' = [pass EXCEPT ![c].at = "read", ![c].rows = proxies]
             ELSE EndRound(c)
    /\ UNCHANGED <<environment, auto, railway, edge, settings, users, update, edits, stops, mishap, promise>>

\* ports.merge reads the mapping and writes it back whole, if the rows change it
MergeRead(c) ==
    /\ pass[c].at = "read"
    /\ pass' = [pass EXCEPT ![c].at = "write", ![c].items = stored]
    /\ UNCHANGED <<environment, auto, railway, edge, settings, users, update, edits, faults, stops, mishap, promise>>

\* The catalog is read once, after the first merge; cap = None until then.
MergeWrite(c) ==
    /\ pass[c].at = "write"
    /\ stored' = LET merged == Merged(pass[c].items, pass[c].rows)
                 IN  IF merged = pass[c].items THEN stored ELSE merged
    /\ pass' = [pass EXCEPT ![c].at = "loop", ![c].cap = None, ![c].rows = {}, ![c].items = <<>>,
                            ![c].todo = IF pass[c].cap = None THEN Catalog ELSE @,
                            ![c].made = IF pass[c].cap = None THEN @ ELSE @ \cup {pass[c].cap}]
    /\ UNCHANGED <<environment, auto, railway, edge, enabled, done, log, guard, users, update, edits, faults, stops, mishap, promise>>

\* The next capability of the catalog: one that has an entry is skipped.
Select(c) ==
    /\ pass[c].at = "loop" /\ pass[c].todo # {}
    /\ \E p \in pass[c].todo : (\A q \in pass[c].todo : p <= q) /\
          pass' = [pass EXCEPT ![c].todo = @ \ {p}, ![c].at = IF Proxied(p) THEN "loop" ELSE "create",
                               ![c].cap = IF Proxied(p) THEN None ELSE p]
    /\ UNCHANGED <<environment, auto, railway, edge, settings, users, update, edits, faults, stops, mishap, promise>>

\* railway.create: a failure is noted and the pass goes on with the next one
Refusal == [carried |-> FALSE, answered |-> FALSE]
Create(c) ==
    /\ pass[c].at = "create"
    /\ \E o \in IF issued < MaxProxies THEN Outcomes ELSE {Refusal} :
          LET proxy == [port |-> pass[c].cap, public |-> issued + 1] IN
          /\ IF issued < MaxProxies THEN Counted(o) ELSE UNCHANGED faults
          /\ IF o.carried THEN issued' = issued + 1 /\ proxies' = proxies \cup {proxy}
             ELSE UNCHANGED <<issued, proxies>>
          /\ mishap' = (mishap \/ (pinned = None /\ o.carried /\ ~o.answered))
          /\ pass' = IF o.answered THEN [pass EXCEPT ![c].at = "read", ![c].rows = {proxy}]
                     ELSE [pass EXCEPT ![c].at = "loop", ![c].cap = None]
    /\ UNCHANGED <<environment, auto, pinned, pending, edge, settings, users, update, edits, stops, promise>>

\* Mutant: the deployment is asked for without a pin.
AfterMarkUnpinned(c) == IF pass[c].made = {} THEN "log" ELSE "redeploy"
AfterMark(c) == IF pass[c].made = {} THEN "log" ELSE "pin"
\* the marker goes down whatever failed
Mark(c) ==
    /\ pass[c].at = "loop" /\ pass[c].todo = {}
    /\ done' = TRUE
    /\ To(c, AfterMark(c))
    /\ UNCHANGED <<environment, auto, railway, edge, enabled, stored, log, guard, users, update, edits, faults, stops, mishap, promise>>

\* railway.pin_http_port: the port of this container becomes a stored variable
Pin(c) ==
    /\ pass[c].at = "pin"
    /\ \E o \in Outcomes :
          /\ Counted(o)
          /\ pinned' = IF o.carried THEN edge ELSE pinned
          /\ mishap' = (mishap \/ (pinned = None /\ ~o.carried))
    /\ To(c, "redeploy")
    /\ UNCHANGED <<environment, auto, proxies, pending, issued, edge, settings, users, update, edits, stops, promise>>

Redeploy(c) ==
    /\ pass[c].at = "redeploy"
    /\ \E o \in Outcomes : Counted(o) /\ pending' = (pending \/ o.carried)
    /\ To(c, "log")
    /\ UNCHANGED <<environment, auto, proxies, pinned, issued, edge, settings, users, update, edits, stops, mishap, promise>>

\* The log is folded in: read, then written.
LogRead(c) ==
    /\ pass[c].at = "log"
    /\ pass' = [pass EXCEPT ![c].at = "logged", ![c].made = @ \cup log]
    /\ UNCHANGED <<environment, auto, railway, edge, settings, users, update, edits, faults, stops, mishap, promise>>
LogWrite(c) ==
    /\ pass[c].at = "logged"
    /\ log' = pass[c].made
    /\ EndRound(c)
    /\ UNCHANGED <<environment, auto, railway, edge, enabled, stored, done, guard, users, update, edits, faults, stops, mishap, promise>>

PassStep(c) == \/ List(c) \/ MergeRead(c) \/ MergeWrite(c) \/ Select(c) \/ Create(c)
               \/ Mark(c) \/ Pin(c) \/ Redeploy(c) \/ LogRead(c) \/ LogWrite(c)

-----------------------------------------------------------------------------
(* The update: back up, arm the guard, ask for the deployment.             *)

\* Mutant: storage that goes with the container is not looked at.
SafeAnywhere == token
\* status(): refused without storage that survives, a provider and a commit to go to
Safe == durable /\ token
StartUpdate(u) ==
    /\ Serving /\ update[u].at = "idle" /\ Safe
    /\ update' = [update EXCEPT ![u].at = "backup"]
    /\ UNCHANGED <<environment, auto, railway, edge, settings, users, pass, edits, faults, stops, mishap, promise>>

\* A request that has counted the users, and waits for Railway's answer.
Asked == [accepted |-> FALSE, edited |-> FALSE, replaced |-> FALSE]

\* _identity: a digest over every id and UUID
Identity == users
\* _backup, then the identity; an unwritable volume ends the request
BackUp(u) ==
    /\ update[u].at = "backup"
    /\ \/ /\ update' = [update EXCEPT ![u] = [at |-> "arm", users |-> Identity]]
          /\ promise' = [promise EXCEPT ![u] = Asked]
          /\ UNCHANGED faults
       \/ /\ faults < MaxFaults /\ faults' = faults + 1
          /\ update' = [update EXCEPT ![u].at = "idle"]
          /\ UNCHANGED promise
    /\ UNCHANGED <<environment, auto, railway, edge, settings, users, pass, edits, stops, mishap>>

Arm(u) ==
    /\ update[u].at = "arm"
    /\ guard' = [users |-> update[u].users, restarted |-> FALSE]
    /\ update' = [update EXCEPT ![u] = [at |-> "trigger", users |-> {}]]
    /\ UNCHANGED <<environment, auto, railway, edge, enabled, stored, done, log, users, pass, edits, faults, stops, mishap, promise>>

\* _trigger; without an answer the guard is taken away again
Trigger(u) ==
    /\ update[u].at = "trigger"
    /\ \E o \in Outcomes :
          /\ Counted(o)
          /\ pending' = (pending \/ o.carried)
          /\ update' = [update EXCEPT ![u].at = IF o.answered THEN "idle" ELSE "disarm"]
          /\ promise' = [promise EXCEPT ![u].accepted = o.answered]
    /\ UNCHANGED <<environment, auto, proxies, pinned, issued, edge, settings, users, pass, edits, stops, mishap>>
Disarm(u) ==
    /\ update[u].at = "disarm"
    /\ guard' = None
    /\ update' = [update EXCEPT ![u].at = "idle"]
    /\ UNCHANGED <<environment, auto, railway, edge, enabled, stored, done, log, users, pass, edits, faults, stops, mishap, promise>>

UpdateStep(u) == BackUp(u) \/ Arm(u) \/ Trigger(u) \/ Disarm(u)

-----------------------------------------------------------------------------
(* The admin, Railway's dashboard and the container.                       *)

Edit == edits < MaxEdits /\ edits' = edits + 1
SetSwitch == /\ Serving /\ Edit
             /\ \E p \in Caps \ Always :
                   enabled' = IF p \in enabled THEN enabled \ {p} ELSE enabled \cup {p}
             /\ UNCHANGED <<environment, auto, railway, edge, stored, done, log, guard, users,
                            pass, update, faults, stops, mishap, promise>>
EditUsers == /\ Serving /\ Edit
             /\ \E u \in Users : users' = IF u \in users THEN users \ {u} ELSE users \cup {u}
             /\ promise' = [u \in Updaters |-> [promise[u] EXCEPT !.edited = TRUE]]
             /\ UNCHANGED <<environment, auto, railway, edge, settings, pass, update, faults, stops, mishap>>
RemoveProxy == /\ Edit
               /\ \E r \in proxies : proxies' = proxies \ {r}
               /\ UNCHANGED <<environment, auto, pinned, pending, issued, edge, settings, users,
                              pass, update, faults, stops, mishap, promise>>

\* What Railway hands the next container as PORT
Handed == IF pinned # None THEN {pinned} ELSE IF proxies = {} THEN {Http} ELSE Ports(proxies)

\* A pass that made a proxy and still has its pin before it.
Pinning(p) ==
    \/ p.at \in {"read", "write"} /\ p.cap # None
    \/ p.at \in {"loop", "create", "pin"} /\ p.made # {}

\* A stop now leaves a proxy that no PORT was ever stored for.
CutShort == pinned = None /\ \E c \in Runners : Pinning(pass[c])

\* The container is replaced: for a deployment, because it stopped, or because its
\* port is one that Xray listens on.  What was not kept is the schema's defaults.
BootPass(a, d) == IF token /\ a /\ ~d THEN [Idle EXCEPT !.at = "list", !.rounds = 1] ELSE Idle
Restart ==
    /\ \/ pending /\ UNCHANGED stops
       \/ stops < MaxStops /\ stops' = stops + 1
       \/ edge # Http /\ pass[Boot].at = "idle" /\ UNCHANGED stops
    /\ pending' = FALSE
    /\ edge' \in Handed
    /\ mishap' = (mishap \/ CutShort)
    /\ update' = [u \in Updaters |-> [at |-> "idle", users |-> {}]]
    /\ IF durable
       THEN /\ guard' = IF guard = None THEN None ELSE [guard EXCEPT !.restarted = TRUE]
            /\ UNCHANGED <<auto, enabled, stored, done, log, users>>
       ELSE /\ guard' = None /\ auto' = TRUE /\ enabled' = Always /\ stored' = <<>>
            /\ done' = FALSE /\ log' = {} /\ users' = {}
    /\ pass' = [c \in Runners |-> IF c = Boot THEN BootPass(auto', done') ELSE Idle]
    /\ promise' = [u \in Updaters |-> [promise[u] EXCEPT !.replaced = TRUE]]
    /\ UNCHANGED <<environment, proxies, pinned, issued, edits, faults>>

-----------------------------------------------------------------------------
Init ==
    /\ token \in BOOLEAN /\ durable \in BOOLEAN /\ auto \in BOOLEAN
    /\ proxies = {} /\ pinned = None /\ pending = FALSE /\ issued = 0
    /\ edge = Http /\ enabled = Always /\ stored = <<>> /\ done = FALSE /\ log = {}
    /\ users \in SUBSET Users /\ guard = None
    /\ pass = [c \in Runners |-> IF c = Boot THEN BootPass(auto, FALSE) ELSE Idle]
    /\ update = [u \in Updaters |-> [at |-> "idle", users |-> {}]]
    /\ edits = 0 /\ faults = 0 /\ stops = 0 /\ mishap = FALSE
    /\ promise = [u \in Updaters |-> Asked]

Next ==
    \/ \E c \in Passers : RunAutoconfig(c)
    \/ \E c \in Runners : PassStep(c)
    \/ \E u \in Updaters : StartUpdate(u) \/ UpdateStep(u)
    \/ SetSwitch \/ EditUsers \/ RemoveProxy \/ Restart

Spec == Init /\ [][Next]_vars

-----------------------------------------------------------------------------
Mapping == UNION {[S -> 1..MaxProxies] : S \in SUBSET Caps}
Fields == [at : {"idle", "list", "read", "write", "loop", "create", "pin", "redeploy", "log", "logged"},
           rounds : 0..2, rows : SUBSET Proxy, items : Mapping,
           todo : SUBSET Caps, cap : Caps \cup {None}, made : SUBSET Caps]
Pass == {p \in Fields : p.at = "create" => p.cap # None}

\* Settings, passes and Railway's records keep their shapes through lost answers and restarts.
TypeOK ==
    /\ token \in BOOLEAN /\ durable \in BOOLEAN /\ auto \in BOOLEAN
    /\ pending \in BOOLEAN /\ done \in BOOLEAN /\ mishap \in BOOLEAN
    /\ proxies \subseteq Proxy /\ pinned \in Caps \cup {None, Http} /\ issued \in 0..MaxProxies
    /\ edge \in Caps \cup {Http} /\ Always \subseteq enabled /\ enabled \subseteq Caps
    /\ stored \in Mapping /\ log \subseteq Caps /\ users \subseteq Users
    /\ guard \in [users : SUBSET Users, restarted : BOOLEAN] \cup {None}
    /\ pass \in [Runners -> Pass]
    /\ update \in [Updaters -> [at : {"idle", "backup", "arm", "trigger", "disarm"}, users : SUBSET Users]]
    /\ promise \in [Updaters -> [accepted : BOOLEAN, edited : BOOLEAN, replaced : BOOLEAN]]
    /\ edits \in 0..MaxEdits /\ faults \in 0..MaxFaults /\ stops \in 0..MaxStops

\* No port gets a second proxy: not after a create whose answer was lost, nor after
\* a pass cut short or a database that was reset (autoconfig.py, railway_ports: what
\* Railway has is merged before anything is created).
OneProxyPerPort == \A r, s \in proxies : r.port = s.port => r = s

\* The HTTP edge of a new container gets its own port and not one of the raw
\* listeners', however the deployment, a later stop and an update follow each other
\* (autoconfig.py, railway_ports; railway.py, pin_http_port).  Excused is only a proxy
\* that was left without any pin: its create's answer was lost, the pin was refused, or
\* the container stopped between the two.
EdgeServes == ~mishap => edge = Http

\* _guard(): every user the guard counted is there with its UUID, and no other.
LinksPreserved == Identity = guard.users

\* Who was told that an update is on its way finds the guard in whichever container
\* answers.  It says `restarted` once the container was replaced, and that the links are
\* preserved, unless a user was created or removed since they were counted
\* (self_update.py, apply and _guard): true whoever asked for the restart, whichever of
\* backup, guard and request it came between, and after an earlier update's guard.
UpdateIsVerified ==
    \A u \in Updaters : promise[u].accepted =>
        /\ guard # None
        /\ guard.restarted = promise[u].replaced
        /\ LinksPreserved \/ promise[u].edited

=============================================================================
