# NEXUS in TLA+

A verification development of NEXUS (FastAPI panel + Xray control plane): TLA+
modules for its concurrent core, TLC configurations that model-check them on
small instances, and proofs checked by TLAPS for what matters most.

## 1. The system

One Python process: an asyncio event loop, a thread pool for handlers that are
plain functions, one database (SQLite or Postgres). `app/db.py` gives every
`row`/`rows`/`execute` a connection and a transaction of its own, so two
statements are never one atomic step. `lifespan()` (`app/main.py` 349-391)
runs the automatic configuration, makes the first forced calls of each supervisor,
then starts one background task per component; at shutdown it cancels them and stops
the engines. No supervisor holds a lock: request handlers and background tasks await
the same coroutines.

| component | state it keeps | operations | who else touches it |
|---|---|---|---|
| Xray supervisor `app/xray.py` | `_proc`, `_last_hash`, `_last_served`, `_last_warning`, one config file, Reality keys in settings | `start_or_reload`, `_stop`, the candidate ladder, `ensure_reality_keys`, `loop` | handlers for WARP, obfuscation, Telegram, key rotation; subscriptions read what is served |
| metering and users `app/users/service.py`, `xray.sync_traffic_stats` | `users` rows, `xray_total:<user>` baselines, the engine's counters | create, update, toggle, reset, delete, track, the metering pass | handlers in pool threads; the engine restarts |
| second engines `app/cores` | per engine a process, digest, hosted profiles; `_published` | `sync`, `start_or_reload`, `_stop`, `_refresh`, `save`, `stop_all` | handlers, users table, ports |
| node catalog `app/nodes.py` | `nodes`, `cf_ips` | `sync` (rebuild), `ping`, `select`, update, delete, address edits | catalog loop, ping loop, probe loop, pool threads |
| locations, packs, geography `app/edge` | `edge_sources`: one JSON list; `geo` answers: one JSON map | save, toggle, delete, ping, import, install and remove a pack, measure, align | `cloudflare/monitor.py`, handlers, pool threads; the catalog is rebuilt from it |
| Telegram `app/telegram` | two processes with their hashes, four settings sections | `sync`, `save`, `reconcile`, rotation; two byte pumps | its loop, handlers; restarts Xray |
| Railway ports `app/ports.py`, `app/autoconfig.py`, `app/railway.py` | the port mapping, marker and log in settings; proxies and `PORT` at Railway | `merge`, `railway_ports`, `apply` | boot, a handler's thread |
| self update `app/self_update.py` | a guard in settings | `apply` (backup, arm, trigger), the next boot's verdict | handlers' threads; restarts the container |
| subscriptions `app/subscriptions` | what Xray serves (`_served_profiles`); reads the rest | `subscription()` → `active_nodes`, `available_profiles`, `entry_pairs`, `node_address`, a format | clients; written meanwhile by everyone above |
| access `app/core` | the password, `jwt_secret` and `bootstrap_complete` rows; failure windows of the limiters; the trust rule | login, logout everywhere, change of password, one-time setup, `resolve` | public |
| HTTP API, WebSocket bridge `app/main.py`, `app/api_extra.py` | per tunnel two sockets and two copiers | `_bridge_ws`, `_pump` | clients and engines |
| worker panel `worker-panel/src` | D1 users, one settings document in KV | relay, metering, panel API | requests on any isolate |
| WARP, settings, backup, audit, feedback | single rows | one statement each | handlers |
| panel UI, front Workers, scripts | copies and forwarders | - | - |

Hard behaviours: calls that overlap at an await; globals read again after an
await; a config file written, tested and run by three processes; an engine
that refuses part of a config; a port still held by the process that is leaving;
counters that restart from zero; decisions taken on rows that changed since;
catalog rebuilds of many statements in a thread; whole lists and maps read, patched
and written back by several writers; calls to Railway whose answer is lost; restarts between
two statements of an update; headers that anyone can write; sockets whose other end vanished.
`PROJECT.json` lists each at its line under "hazards".

What makes each component correct:

* Xray: links exist only for inbounds the engine has; a refused option costs
  only itself; no engine is lost or left behind; a disabled user leaves every client list, and a
  rotated Shadowsocks key locks out who had the old one.
* Metering: nobody pays for a byte that did not move, none is lost while the
  engine is steady, a quota is enforced and never on stale grounds alone.
* Second engines: what is published listens; a bad config never costs a running
  listener; the switches are eventually obeyed.
* Subscriptions: an entry exists only for a listener that is served, within the
  scope, fastest node first, all of them or as many as the cap.
* Catalog: a pick survives every re-scan, nothing unpicked is published, and the
  table settles to the plan. (The first two hold only within limits: see "Seen while modelling".)
* Locations: no two of them publish one name, a pack is whole or not there, a pinned
  country stays, and every other label settles to what was measured.
* Ports and update: one proxy per port, no public port forgotten, no container starts
  on a raw listener's port, and who was promised an update is told by the guard whether every user survived it.
* Access: tries are counted per real caller and the limiter's memory is bounded; a
  setup call does what it answers; signing out ends exactly the sessions there were.
* Bridge: an end receives a prefix of what the other sent; a tunnel whose end is gone
  is torn down.

## 2. Modules

`XraySupervisor` — the code of `app/xray.py` between two awaits is one step of a
caller: `Enter`/`Begin`, the Reality keys in their thread (`KeyGen`, `KeySave`,
`KeysEnsured`), the ladder (`RungRefused`, `RungAccepted`, `LadderExhausted`),
`_stop` (`BeginStop`, `StopDone`, `StopTimeout`), `Spawn`, `Settle`. A config is
its inbound tags, the users of its client lists in the order of their rows, a key for each Shadowsocks
cipher and the Reality key pair; its digest is the config itself. The rows come from a SELECT without
ORDER BY, and an UPDATE may put a row anywhere (`Rewrite`, in `ToggleUser` and `MeterUser`). A Shadowsocks inbound has no
client list, only a key that `RotateShadowsocks` replaces; `left` remembers when a user was disabled. `file` is what the test process and the engine read when they get
to it. The engine (external) boots from the file, dies if it refuses it or if the
ports are taken. `SaveAndReload` is a handler that stores a switch and reloads,
`ThreadWrites` what pool threads store meanwhile, `Shutdown` the end of
`lifespan()`. `_last_warning` and the answer texts are left out.

`UserAccounting` — the users table, the baselines and the metering pass, one
statement per step (`Query`, `ReadRows`, `Sample`, `Charge`, `Disable`, `PassDone`,
`PassFails`), interleaved with traffic (`Transfer`), `EngineRestart` and every
handler that writes a row. Amounts are bytes; dividing by 10^9 is left out, so
floating-point rounding is not modelled. The variables `real`, `charged`,
`tracked`, `mark`, `asOf`, `first`, `over` and `touched` are history.

`CoresSupervisor` — `sync()` of `app/cores/service.py` with a position in the
sequence of engines; between two engines without an await the call keeps the event
loop (`HasLoop`). `Publication` is the abstract promise: the published set, when
it is written, is a subset of what listens.

`NodeCatalog` — `sync()` statement by statement (`Rebuild`, `DisableAll`, `Plan`,
`Upsert`, `Enable`, `Mark`, `Cleanup`), the two halves of a ping and of a select,
and the admin's other decisions. Coroutines are atomic where the code has no
await; handlers that are plain functions run `sync()` in a pool thread. A name is a
location, the country its addresses measure and a rank in its list of addresses, so `Relabel` renames the nodes of a
location; `Front` is the domain or Worker without which the default catalog plans nothing. Two variables are history and no
statement of a rebuild trims the first: `picked` are the names whose last decision, by an admin or by auto-publish, was yes; `kept`
those of them that the plan never lost since.

`Locations` — where those nodes come from. The setting `edge_sources` is one JSON
list that every change reads and stores whole: the monitor and the handlers between two of
their awaits, `DeleteSource` and `RemoveIp` in a pool thread between any two statements of
theirs. A request becomes a `job`: the statements it still has to do (`Work`) on the
items it read. A measurement copies the remembered answers of the geo databases, looks addresses
up for seconds and stores its copy (`look`), then aligns the labels. A finished
change publishes the `catalog`. The rebuild is one step here; how it interleaves with
everything else is `NodeCatalog`'s. The databases are external and answer `CountryOf` or fail.

`TelegramSupervisors` — `app/telegram`: one pass (`mtproto.sync()`, then `webrelay.sync()`)
per caller, started by the loop (`Begin`) or by a request of the card (`Reload`,
`Rotate`, `Save`). The MTProto half is `SyncMtproto`, `CheckMtg`, `StopMtg`,
`StopMtgDone`, `SpawnMtg`, `SettleMtg`; the WEB relay's two processes are stopped from a
snapshot (`StopWeb`, `StopHalf`, `HalfGone`) and launched one after the other
(`SpawnHalf`, `SettleHalf`). A secret is a number that grows with each one issued. Both
binaries are taken as installed, `cores_enabled` as true and the relay's domain as
known; whether the MTProto port is dialable is `forwarded`. Which unused process
identity a launch gets is fixed by CHOOSE: identities carry no meaning. The Xray reload at the
end of `reconcile()` is `XraySupervisor`'s.

`Subscription` — one request of `GET /sub/{token}` in its pool thread. What it reads:
the `user` row, the `nodes` table, the platform, the `forwarded` ports, the switches,
what Xray `served` and the second engines `published`. `Begin` reads the row and checks
`allowed()`, `ReadNodes` is `_sub_nodes()`, `ReadProfiles` the profiles of the target,
`Compose` is `entry_pairs()`, `Render` the addresses; between them `EditUser`, `EditNode`,
`Toggle`, `LearnPort`, `Serve` and `Publish` change one of those things. Six profiles
stand for the catalog, one for each way a decision treats a profile. An address is a
host and the listener its port leads to. The origin's row is taken to exist, Reality
keys to be stored; `direct_host` set by hand, `RAILWAY_TCP_PROXY_*`, WARP, the `json` format and the layout of
the others are left out. The statements inside one of the steps are read together.

`Deployment` — the TCP proxies of Railway, the ports the panel learns from them
and the update it asks for. A pass of `railway_ports` (`list`, `read`, `write`, `loop`,
`create`, `pin`, `redeploy`, `log`) is run by the lifespan (`Boot`) and by an admin
(`RunAutoconfig`); an update is `backup`, `arm`, `trigger`, `disarm`. Railway (external) keeps
`proxies`, the stored variable `pinned` and the deployment that is `pending`; a call is
answered, refused or carried out with its answer lost. `Restart` starts the next container
at any statement, with the `PORT` Railway hands it. The guard holds the users it counted and whether the container was
replaced; `LinksPreserved` is its comparison with the users there are. `promise` is history: whether an updater's last request was accepted, and
whether the container was replaced or a user created or removed since it counted them; so is `mishap`, a
proxy left without any pin. Capabilities are the ranks of the catalog's rows, which a pass visits in that order.
`SetSwitch`, `EditUsers` and `RemoveProxy` are what an admin does meanwhile.

`ClientAddress` — `resolve()` of `app/core/clientip.py` as an operator over a request, and
the network (external) as the operator `Arrives`: what a route through real hosts makes
of the headers a caller invented. `Limiter` extends it with `LoginThrottle` and the two
handlers that use one: `Arrive` checks before the body is awaited, `Counts`,
`LoginAccepted` and `FeedbackUnknown` come after it. The rule may be saved
(`SaveClientIp`) and the process restarted between the two. Each call has a limiter of its own, so a
behaviour follows one.

`Account` — the password, the one-time setup and the sessions. Login, setup and the
change of the password await the request's body after their first check; setup writes the
password and closes itself in two statements (`SetupSaves`, `SetupCloses`); `Boot` is bootstrap(), which adds a password only where the configuration
has none (`Initial`); `RotateSession`
runs in a pool thread; `Crash` and `Boot` come between any two. A token is told by the secret
that signed it.

`Bridge` — one tunnel of one of three kinds: the edge's `_bridge_ws`, the web.telegram.org
forwarder and the WEB relay, which share `_pump`. The handler is `Arrive`, `Dialled`,
`DialFails`, `Leave`, `Finish`; each copier `Take`s a message, `Give`s it to the other side or
`SeesEnd`. The ends are external: they send, close, or vanish so that only a ping or an
idle timer tells. Tunnels share no state.

`MC...` modules give the model checker its constants. `XraySupervisorProofs`,
`UserAccountingProofs`, `CoresProofs`, `NodeCatalogProofs`, `DeploymentProofs`, `RequestProofs` (`Limiter`,
`Account`, `Subscription`), `TelegramProofs` (with those about `Bridge`) and `LocationsProofs` hold the theorems.

How they compose. `Limiter` extends `ClientAddress`; `CoresSupervisor` is shown to implement
`Publication` under a refinement mapping; `Subscription` takes what the supervisors serve and
publish as an input that changes at any moment, which is all they promise it; `Locations`
takes a rebuild as a step and `NodeCatalog` takes the locations as a switch each. The port pass and
the update share one module because they share the restart.

`PROJECT.json` "map" ties every definition to the lines it stands for.

## 3. Runs

| run | instance | properties | shows |
|---|---|---|---|
| `XraySerial` | a loop and a handler, one at a time; 2 process identities; all 4 optional inbounds, or the advanced and Telegram alone, stored at boot; a build that refuses the advanced one and a build that refuses everything; 2 users whose rows change places at any moment, 1 cipher; 2 changes at any await, 1 crash | `PublishedExists` `PlainRealitySurvives` `NoEngineAfterShutdown` `KeysStable` `NoSpuriousRestart` `DisabledRevoked` `RotationRevokes` | published inbounds exist; only the refused option is dropped; key pair stable; nothing left after shutdown; no engine is replaced by the text it runs; a disabled user leaves every client list; a new key locks the user out of Shadowsocks |
| `XrayRace` | the same two callers overlapping, 3 process identities, 1 user, a build that refuses the Shadowsocks inbound and one that refuses nothing | `EveryCallReturns` | every request's reload returns |
| `Accounting` | 1 user, quota 2, 4 bytes, 3 handler writes, 2 restarts, 1 failed pass | `NeverOvercharged` `UsedAccounted` `SteadyStateExact` `OverQuotaBounded` `DisableJustified` | no overcharge, no loss when steady, quota enforced, decisions justified |
| `Cores` | 2 engines, 2 profiles, 2 ports (one undialable), 3 process identities, 1 change, 1 fault | `NoEngineAfterShutdown` `PublishesListening` `Converges` | implements `Publication`; converges; nothing left after shutdown |
| `Nodes` | default catalog + 1 location, 2 countries, 2 addresses, 2 nodes each, 1 thread, 2 decisions, 1 re-ranking, relabelling or change of the front, 1 ping, 1 crash | `PublishedIsPicked` `Settles` | what was picked and stayed in the plan is published, and nothing else that was not picked; the table settles to the plan |
| `Telegram` | a loop and one card handler, one pass at a time, 4 process identities, 2 changes, 1 fault | `TypeOK` `CleanBoot` `RotationRevokes` `Converges` | a replaced secret stops working; launches never collide; links handed out converge to the switches |
| `Subscription` | origin and two locations, 3 catalogs (one slice all failed), users of 4 scopes × 2 caps and a narrowed set, both platforms with every set of forwarded ports and switches, 1 change at any point | `TypeOK` `OnlyPublished` `ScopeHonoured` `FastestFirstAndWhole` | only what was served; scope kept; fastest first; complete up to the cap |
| `Locations` | 2 countries, 3 addresses (one measured elsewhere than labelled), the monitor, a handler and a thread, 1 pack of two, 2 addresses a measurement, 2 edits, 1 failed or cut-short lookup or scan | `TypeOK` `NamesDistinct` `PackWhole` `AlignKeepsPins` `FlagsAgree` | names stay apart, packs are whole, pins hold while nobody deletes single locations, labels settle to what is measured |
| `Deployment` | Reality and 1 switched capability, boot pass and one admin's pass, 1 updater, 2 users, 2 proxies, 1 fault, 2 edits, 1 stop | `OneProxyPerPort` `EdgeServes` `UpdateIsVerified` | one proxy per port, the edge's own port, a promised update is judged by a guard that tells the truth |
| `Limiter` | 2 people over 3 routes with 3 invented headers, 2 overlapping calls of 4, limit 2, window 2 ticks, 1 key kept, 1 save, 1 restart; handlers and callers symmetric | `TriesBounded` `KeyIsNearest` `MapBounded` | tries bounded per real route, keys right, memory bounded |
| `Bridge` | each kind, 2 messages each way | `Faithful` `ClientReleases` `EngineReleases` | nothing reordered, invented or (on the edge) lost; tunnels of gone ends are torn down |
| `AccountSetup` | 2 handlers, 3 passwords, 3 secrets, 2 crashes, the configuration's default password | `SetupTakesEffect` | violation: setup answers success and the old password still signs in (see "findings") |

Why the bounds are enough. Every race here is between two actors over one
resource, so two callers (or a loop and a thread) with one user or location meet
every order of their steps; a third caller repeats them. One cipher gives the
ladder one rung of each kind. In `XraySerial` two process identities cover a
leaving and a starting engine; the overlapping run takes three so that an orphan,
a leaving and a new one coexist. Two users have an order, and two changes disable one and rotate the
key, or put a second change into the reload of the first; the handler switches WARP, the advanced half and Telegram, a pool thread
learns the raw endpoint, so two settings to boot from lead to most others. In `Nodes` two decisions pick and unpick, or switch a location off and on, around a measurement and a crash;
with two ranks a rebuild has more than one node to put back, and an address that is deleted or ranked anew changes the one behind a name. Quota 2 of 4 bytes is crossed inside a pass, between
passes and by `track()`; two restarts allow a counter to fall below its baseline
and climb past it again. In `Telegram` four identities are the three processes of
both services and one still leaving; two changes put a second one (a rotation, a
refused field) into the wake of the first, and one fault kills either half or fails
either launch. In `Subscription` one change is enough for
a stale read, since a request is one pass over the data and reads each thing once or twice; the
cap of 2 falls inside a node's entries and inside the extras. In `Locations` two edits put
a deletion or a pin into another request's measurement, and two locations of one country come from
a pack and an admin, or from a measurement that relabels one of them. In `Deployment` two edits create or remove a user before and after the guard has counted, one fault loses or refuses any
call of a pass, and one stop comes between any two statements; two proxies
are what the capabilities need, so a third is noticed by `OneProxyPerPort` before Railway's limit
is. In `Limiter` a limit of 2 lets two overlapping calls both pass at one try short of it, two ticks
expire a window, and two callers for one key make every sweep choose. Two messages each way make an
order and a tail that can be lost. `Overlap = FALSE` states that a supervisor's calls do not
interleave: those runs show what the code guarantees when they do not; what it does not
guarantee when they do is described under "Seen while modelling".

Assumptions about the environment. A quarter (0.3) second is enough for an engine to
have read its config and bound its ports. A port is bound once: a second
process dies. Which inbounds a build refuses does not change while it runs. A
terminated process exits, or is killed after five seconds. Railway applies a stored variable and
a new proxy with the next deployment, and stops the old container then. The geo databases
answer the same for an address whenever they answer.

Fairness. The event loop runs every ready coroutine, threads run to their end and the
background loops never end (`WF` on the loop's `Begin`, on every caller's steps, on a
`Rebuild`, and on the monitor's `Wake` in `Locations`, where time passes too); engine
processes boot and exit (`WF`); a ping that was read gets the loop between two rebuilds sooner or
later (`SF`, since every rebuild disables it for a while). In `Bridge` the loop runs what can run, a
dial ends by its timeout, uvicorn pings a client that vanished, Xray's idle timer closes its side and a relay that was
switched off is stopped; the two ends owe nothing. Nothing is assumed of the admin, of crashes or of
handlers starting. `Accounting`, `Subscription`, `Deployment`, `Limiter` and `AccountSetup` check safety only and assume no fairness.

`CHECK_DEADLOCK FALSE` is used where the system really stops. `Deployment`: once the passes are done and the edits, faults and stops are used up, the service just serves. `Limiter`: its time is bounded.
`Bridge`: a tunnel that has returned is over. Every other run checks for deadlock.

## 4. Proofs

All theorems hold for any values of the constants that satisfy the modules' named
ASSUMEs. Each rests on an inductive invariant: a strengthening that the initial states satisfy, that every
action preserves and that implies the property.

`UserAccountingProofs`: `TypeCorrect`, `NoOvercharge` (`NeverOvercharged`), `ColumnsAccounted`
(`UsedAccounted`). That `charged <= real` survives the next
charge depends on the baseline the pass compares with. The inductive invariant
`IInv` adds: what was charged plus what the counter still holds above the baseline is covered by
what moved (`CounterCovered`), an answer of `statsquery` taken since the last restart is not ahead of
the counter (`AnswerCurrent`), and the answer being worked on is covered even if
the engine restarted since (`AnswerCovered`). It holds because the baseline is
stored before the usage: in the opposite order a failing pass would break it. Then
`NoByteLost` (`SteadyStateExact`): on an engine that does not restart what a pass charged and has still to charge is
exactly the baseline less the first sample (`Gained`), the answer being worked on is ahead of the baseline (`AnswerAhead`) and the
counter of this engine (`AnswerThisEngine`), and a baseline without a sample has charged nothing (`Unsampled`), all in
`Steady`. `QuotaOvershootBounded` (`OverQuotaBounded`): while a user is active and was charged over the quota, the quota is still
reached, the pass that saw it is about to disable the user, and without such a pass the user has been charged over it at most once (`Bounded`);
a handler that rewrites the row starts the count anew. `NoUserDisabledEarly` (`DisableJustified`): since the pass read a row that
no handler rewrote, its usage only grew and its quota stayed (`Justified`).

`XraySupervisorProofs`: `TypeCorrect`, overlapping calls or not; with `Overlap = FALSE`
`PublishedLinksExist` (`PublishedExists`), `ShutdownIsClean` (`NoEngineAfterShutdown`), `KeyPairStable`
(`KeysStable`), `LoopLeavesEngineAlone` (`NoSpuriousRestart`), `PlainRealityStays` (`PlainRealitySurvives`). The invariant `Orderly` says what one call at a time keeps in
step: at most one call is under way (`Serial`); the file on disk is its candidate and,
once accepted, `served` its inbounds (`CandidateOnDisk`); every live process is `_proc`
(`Owned`); an engine that is up runs the config behind `_last_hash`, and between reloads
nothing is published that is not in it (`Remembered`); the key halves are saved in order
(`KeysInOrder`); and who may run in each phase of the lifespan (`Lifespan`). None of it
survives two overlapping calls. For `PlainRealitySurvives` the ladder itself is reasoned about: each rung holds
less than the one before (`LeanIsSmaller`), so where only the advanced transports are refused the first or the second is accepted
(`LadderStops`), and `Rendered` carries what that rung keeps to the moment it is published.

`CoresProofs`: `TypeCorrect`; with `Overlap = FALSE` `ShutdownIsClean` (`NoEngineAfterShutdown`) and
`PublishingIsHonest` (`PublishesListening`, the refinement of `Publication`: `Init` maps to its `Init`, each action to a
publication or a stutter). `Orderly`: one `sync()` at a time (`Serial`), who runs while the process closes
(`Closing`), every live process is the one its engine has in `_procs` (`Owned`), what a suspended call still holds is the file it left on the disk (`Candidate`), and the digest
kept for an engine is the config its process runs, with everything it is said to host in it (`Remembered`).
TLC checked it as an invariant of the `Cores` instance first.

`NodeCatalogProofs`: `TypeCorrect`; with `Overlap = FALSE` `PicksArePublished` (`PublishedIsPicked`). Between rebuilds what is
published lies between `kept` and `picked` (`Resting`); inside one the same is true of what is already put back together with what it captured and has still to put
back (`Rebuilding`), whatever is relabelled, ranked or decided meanwhile, since a name that leaves the plan leaves `kept` (`KeptPlanned`). It needs the process to live:
`crashes = 0` is in the property. The first country and the first ranking are constants of the theorem.

`DeploymentProofs`: `TypeCorrect`; under `OneUpdater` (one admin asks for updates at a time) `UpdatesAreVerified` (`UpdateIsVerified`, from
`Guarded`: a guard or an update on its way means storage that outlives the container (`Kept`), and from the moment an updater has counted the users its count, in the request or in the guard, is
that of the users unless its promise says they were edited, with `restarted` as its promise says (`Awaited`));
`EdgesServe` (`EdgeServes`, from `EdgeKept`: as long as there was no mishap, either there is no proxy, or the port is pinned, or a
pass is on its way to pin it), also when two passes overlap; under `OnePasser` (an admin has one pass at
a time) `OneProxyEach` (`OneProxyPerPort`): one pass runs, what it will
create no proxy has, and what it read of the mapping is still there (`Alone`, `Fresh`, `Known`, in `Orderly`).

`RequestProofs`: `ResolveIsNearest`, for every route, header and rule the address `resolve` answers is the
nearest host on the real route that the deployment does not trust; and from it `KeyStaysNearest` (`KeyIsNearest`).
`MapStaysBounded` (`MapBounded`) needs only that a sweep that is still over the cap drops the excess (`FewKeys`). `TriesStayBounded` (`TriesBounded`) joins four parts: the lists are in
time order and not ahead of the clock (`Lists`), so that pruning, which drops the tries that left the window, drops them from the front; a list
and the calls under way for its key never exceed the limit and the other handlers (`Share`), because a call waits only if it passed the check; every try of
a caller is keyed on the nearest host of its route (`Known`, from `ResolveIsNearest`); and a list is at least as long as the tries
remembered since any moment of the window (`Counted`). `SigningOutIsExact`, about `Account`: a session is refused if and
only if it was there at the last rotation (`SignOutExact`; proved only, no run checks it). Every secret in a browser was issued, and the
newest is the stored one (`Issued`).

In the same module, about `Subscription`: `SubscriptionTyped` (`TypeOK`), `NothingUnserved` (`OnlyPublished`), `ScopeIsHonoured`
(`ScopeHonoured`) and `WholeAndFastestFirst` (`FastestFirstAndWhole`), for any nodes table, pings, scopes and caps. ORDER BY and
the comprehensions are stated by what they return, an element's rank being its place (`Ranked`, `Only`), so that no induction
over lists is needed: in a finite total order each place is taken by one element (`RankIsPlace`), and a part of a list has its elements
that belong, each once, in the list's order (`OnlyLists`). `SoonerOrders` shows that the four sort keys order any catalog
totally, `ProductLists` that node and profile of an entry are quotient and remainder of its place, `EntriesAre` that entry_pairs()
has exactly what belongs, each once and in the order of the nodes, `CapIsPrefix` that the cap cuts its tail. Then the state: lengths
bounded by the tables (`Sized`); while a request is under way what stands was seen, and every name it holds was (`Vouched`);
what it holds fits the scope it began with (`InScope`); and as long as nothing changed, each step worked out what the present
state says (`Agreed`), so that the links can be compared with `Due` although five steps lie between: a bijection from the
places of the list onto the pairs that are due counts them. TLC checked the four as invariants of the `Subscription` instance first.

`LocationsProofs`: `TypeCorrect` (`TypeOK`). `NamesAreDistinct` (`NamesDistinct`), under `Long = {}`: what is published is one rebuild's, or
what deletions left of it, and a name tells the id of its location (`NameTellsId`), also when it was relabelled. `PacksAreWhole` (`PackWhole`) and
`PinsAreKept` (`AlignKeepsPins`) rest on `Tally`, which holds as long as nobody deleted a location by itself: there is one job at most, and
the list it is about to store is the list in the settings with that one step applied (`Stores`); what is left of the job is
either harmless to the packs, or the rest of an installation, which has as many definitions as the pack
lacks, a host for each of them and a free name (`Installing`), or the rest of a removal, whose steps are the pack's remaining members (`Removing`);
all other packs are whole (`WholeBut`). TLC checked `Tally` as an invariant first, also with four edits.

`TelegramProofs`: `TypeCorrect` (`TypeOK`), overlapping calls or not; with `Overlap = FALSE` `NoLaunchInVain` (`CleanBoot`).
A launched process comes up because the file it boots from is still the one the binary accepted, the pass that launched it waiting for it
(`Bootable`), and because no other process of its part is left: there is one at a time (`Alone`), which the module holds or the pass is waiting
for (`Held`), so a part whose variable is empty has none. The latter needs what a pass knows at each await (`Place`): mtproto clears `_proc`
only after the process it waited for is gone, and the halves webrelay has yet to visit are those it still holds (`Snapshot`).
TLC checked the whole as an invariant of the `Telegram` instance first.
In the same module, about `Bridge`: `TunnelTypeCorrect`, `TunnelIsFaithful` (`Faithful`). What an end got, the message its copier holds and what
waits to be read are together a run of the numbers the other end sent (`Ordered`); nothing is
missing from it while that can still matter (`Complete`), and an edge copier that ended by itself left
nothing behind (`Drained`).

Assumptions the proofs made explicit: a row, a job or a measurement is never the value that stands for none (`NoneIsNoRow`,
`NoneIsNoRecord`), the handlers of a limiter are finitely many (`HandlersAreFinite`), so are the rows of the nodes table
(`OriginIsANode`), rows and requests have the columns and parameters the code declares (`RowsAreTyped`, `RequestsAreTyped`), no cipher's inbound is an optional one
(`CiphersAreNoOptions`), builds refuse inbounds there are and the settings at boot are on offer (`BuildsAssumption`, `StoredAssumption`), a
location is declared in a country and seeded with a ranking of its addresses (`SeedAssumption`), a country's name is no id, countries are finitely many and each has room for one
location (`CountriesAreNames`, `PlacesHaveRoom`), and a pack is not empty (`Definitions`; `packs.py` ships none).

Only model-checked: liveness (`DisabledRevoked`, `EveryCallReturns`, both `Converges`,
both `RotationRevokes`, `Settles`, `FlagsAgree`, `ClientReleases`, `EngineReleases`), which is out of the prover's
reach. Every safety property that a passing run checks is also a theorem.

## 5. Seen while modelling

Disagreements and weak spots that have no run of their own. Each was met while translating the line named.

Overlapping calls (the runs with `Overlap = FALSE` exclude these):

* two overlapping `start_or_reload` leave an engine nobody owns, and a user who was disabled since
  keeps being served by it (`app/xray.py:426` against `app/main.py:1953`): with `Overlap = TRUE`
  `DisabledRevoked` fails;
* the same in `app/telegram/mtproto.py:325`: an orphan keeps the port and `Converges` fails;
* passes of two admin requests may create two proxies for a port, hence `OnePasser`; and `ports.merge` (`app/ports.py:131`) stores the
  whole mapping it read before the other pass stored its own, so a port that was learned is dropped, against its docstring
  ("without dropping known-good ones", 125);
* a rebuild in a pool thread (`app/main.py:1517`, 1579) that captures between the capture and the parking of another's nodes finds
  nothing published (`app/nodes.py:288`): the picks are gone, against the comment 286-287 ("without ever dropping a node the admin already chose");
  with `Overlap = TRUE` `PublishedIsPicked` fails;
* a second update request that Railway refuses clears the guard of the accepted one (`app/self_update.py:253`), and the restart is verified by
  nothing, against 16-17: hence `OneUpdater`; with two updaters `UpdateIsVerified` fails.

Partial failure:

* a refused Telegram inbound costs WARP and Reality too (`app/xray.py:313` against the comment 315-317):
  the ladder drops what comes before it;
* a rejected Telegram save is half applied (`app/telegram/service.py:157` against the docstring 140-142), so is
  `PUT /api/users` (`app/main.py:747`) and the trust switch, stored before its ranges are validated
  (`app/api_extra.py:664`);
* a core profile the engine refuses freezes the user list of its old process (`app/cores/service.py:257`);
  certificate and key are stored in two statements (175);
* a pin that fails is recorded and the pass redeploys all the same (`app/autoconfig.py:155`, 161 against the
  docstring 33-38): the next container starts on a raw listener's port. `mishap` excuses it in `EdgeServes`;
* the pass marks itself done although a create failed (146); a stale mapping keeps a proxy that was
  deleted by hand from being created again (`app/ports.py:127`); a create whose answer was lost is never pinned;
* a scanned node is inserted with `enabled` at its default of 1 (`app/db.py:50`) and parked by a later statement (`app/nodes.py:302`): a stop
  between the two publishes it, and every later rebuild takes it for a pick, against the comment 304 ("no scanned node is
  published by a rebuild"). Without `crashes = 0` `PublishedIsPicked` fails;
* a stop between arm and trigger makes the next container report an update as `verified` that nobody asked Railway for
  (`app/self_update.py:249`); a user created or removed between the count and the restart makes it report links that
  are not preserved (164): `UpdateIsVerified` excuses that by name.

Data:

* the docstring of `sync()` says that "an admin's hand-pick survives every re-scan" (`app/nodes.py:270-271`), but a pick is found again by the
  node's name and the name carries the measured country (`app/edge/sources.py:729`): a location that measures another country gets
  candidates under new names and its picked nodes are deleted as orphans. `PublishedIsPicked` promises a pick only for
  as long as the plan has its name (`kept`); that whoever was picked stays published while its location is on and has an
  address of that rank fails after one pick and one relabelling;
* on PostgreSQL every UPDATE may move a row, the clients are listed in the order of the rows (`app/xray.py:39`) and the digest is of
  the text (423): the loop may replace an engine that serves the very same users after a metering pass. `NoSpuriousRestart` therefore compares
  configs, order included; with the order left out of the comparison it fails;
* `_slug` cuts a name to 24 characters after the suffix that made the id unique (`app/edge/sources.py:412`, 503):
  two locations of a long name publish the same node names, although 731-735 rules it out. The run has
  `Long = {}`; a place in `Long` breaks `NamesDistinct`;
* a pinned location still publishes the measured country (703 against 515-518); overlapping lookups overwrite each
  other's answers (`app/edge/geo.py:208`); installing a pack twice makes two (`app/edge/packs.py:168`); a location
  deleted in a thread rewrites the list it read (`app/main.py:1580`) and may bring back the label an admin had corrected and pinned meanwhile:
  hence `~single` in `AlignKeepsPins`, which fails without it when three edits are allowed;
* a hosted protocol's link joins the host of the Reality proxy with its own port
  (`app/subscriptions/transports.py:550` against `app/cores/service.py:95`); the status window offers the Hysteria2 link that
  `profiles_for()` refuses (`app/subscriptions/generator.py:730`);
* `expiry_days = 0` expires a user at once (`app/users/service.py:6`) while `track()` (49) and the preset's summary
  (`app/main.py:521`) take it for no expiry; editing it never moves `expires_at` (739).

Tunnels:

* the edge keeps the other side after one ended (`app/main.py:948`); the pumps cancel the other copier, so the tail of an answer
  can be lost; an end of Telegram Web that vanishes is noticed when the client leaves, and switching the feature off
  leaves open tunnels; `_dial_relay` connects with a blocking call inside the event loop.

## 6. Not modelled

* Rendering: configs, links, subscription formats and pages, flags, parsing of headers and ranges. No property of several
  steps depends on it; where a decision does (which profile, which address) the decision is modelled.
* User life cycle beyond quota and switches: expiry, first connection, request quota, the keys inside the metadata.
* The WARP peer, settings, backup, audit, feedback texts, runtime detection and database helpers: single statements.
* The worker panel (`worker-panel/src`): a second implementation in JavaScript for another host, sharing no state
  with the panel. Of all left out it has the most behaviour; it needs modules of its own.
* The panel's UI (a copy of what the API answers), the front Workers (stateless forwarders), operator scripts.
* A stop of the process between the statements that save the Reality keys; two second engines that swap
  their ports (`Converges` meets a protocol that moves to the other engine, which contends for its port).
* Nodes made by hand, clean domains and samples in the catalog: no statement of a rebuild touches the first and the last, and a
  clean domain is one node under a name that never changes.
* Callers from inside the trusted ranges: `Arrives` keeps the hosts apart from them. The run leaves out the route through
  Cloudflare and the platform's proxy together; the theorems about `Limiter` hold for every route.
* A client that stops reading: back-pressure of a tunnel is not in `Bridge`.
* Floating-point rounding of amounts; the two halves of a transaction of one statement.
