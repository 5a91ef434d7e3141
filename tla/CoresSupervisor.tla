-------------------------- MODULE CoresSupervisor --------------------------
(***************************************************************************)
(* The supervisor of the second engines, app/cores/service.py: per engine  *)
(* one process, one config file, one digest and one list of hosted         *)
(* profiles, and one coroutine, sync(), that brings every engine in turn   *)
(* to what the settings ask for and then publishes what is really up.      *)
(* lifespan(), loop() and two request handlers await it, without a lock.   *)
(*                                                                         *)
(* A step is the code between two awaits; where sync() goes from one       *)
(* engine to the next without one, the call keeps the event loop (pc       *)
(* "next") and no other coroutine runs.  Users are switched by handlers in *)
(* a thread pool, at any moment.                                           *)
(*                                                                         *)
(* Data abstraction.  A config is the set of its listeners, each a         *)
(* profile, its port and the users it authenticates; its digest is the     *)
(* config itself.  A port is only ever contended between two processes     *)
(* that host the same profile (AnyTLS is TCP, TUIC is UDP).                *)
(***************************************************************************)
EXTENDS Naturals, Sequences, FiniteSets

CONSTANTS
    Engines,     \* profiles.ENGINES, a sequence
    Profiles,    \* profiles.PROFILE_IDS
    Ports,       \* ports an admin may choose
    Users,       \* users an admin may enable and disable
    Installed,   \* engines whose binary exists
    Dialable,    \* <<profile, port>> pairs for which reachable() answers True
    Refusable,   \* profiles a build may refuse: `refused` is some subset of them
    Loop,        \* the background task: lifespan()'s first sync, then loop()
    Handlers,    \* request handlers that await sync(force=True)
    Procs,       \* identities of engine processes (bound: processes alive at once)
    None,        \* Python's None
    Overlap,     \* may a sync start while another is suspended at an await?
    MaxChanges,  \* bound: admin changes in a behaviour
    MaxFaults    \* bound: engine crashes and failed launches in a behaviour

EngineSet == {Engines[i] : i \in 1..Len(Engines)}
Callers == Handlers \cup {Loop}

ASSUME EnginesIsSeq == Engines \in Seq(STRING)
ASSUME InstalledAssumption == Installed \subseteq EngineSet
ASSUME DialableAssumption == Dialable \subseteq Profiles \X Ports
ASSUME RefusableIsProfiles == Refusable \subseteq Profiles
ASSUME NoneIsNothingElse == None \notin Procs \cup EngineSet
ASSUME NoneIsNoProtocols == \A S \in SUBSET Profiles : S # None
ASSUME LoopIsTheTask == Loop \notin Handlers
ASSUME OverlapIsFlag == Overlap \in BOOLEAN
ASSUME BoundsAreNatural == MaxChanges \in Nat /\ MaxFaults \in Nat

VARIABLES
    setting,    \* settings core_<id>_enabled, _port, _engine
    active,     \* users table: the rows with is_active = 1
    refused,    \* profiles the installed builds refuse (never changes)
    file,       \* the config file of each engine
    procs,      \* service._procs
    hashes,     \* service._hashes
    hosted,     \* service._state[engine]['profiles']
    published,  \* service._published
    engine,     \* the engine processes themselves
    call,       \* one suspended (or idle) sync() per caller
    phase,      \* lifespan: "boot", "running", "closing", "stopped"
    changes,    \* admin changes so far
    faults      \* crashes and failed launches so far

settingsVars == <<setting, active, refused>>
moduleVars == <<procs, hashes, hosted, published>>
vars == <<settingsVars, file, moduleVars, engine, call, phase, changes, faults>>

Setting == [on : BOOLEAN, port : Ports, engine : EngineSet]
Listener == [id : Profiles, port : Ports, users : SUBSET Users]
Config == SUBSET Listener
Ids(config) == {l.id : l \in config}

(***************************************************************************)
(* What the settings ask for.                                              *)
(***************************************************************************)
Wanted == {setting[p].engine : p \in {q \in Profiles : setting[q].on}}

\* listeners(engine): the enabled profiles it hosts, unless nobody could log in.
Listeners(e) ==
    IF active = {} THEN {}
    ELSE {[id |-> p, port |-> setting[p].port, users |-> active] :
             p \in {q \in Profiles : setting[q].on /\ setting[q].engine = e}}

Reachable(p) == <<p, setting[p].port>> \in Dialable

\* What the engine says of a config, when it checks it and when it boots from it.
Accepts(config) == Ids(config) \cap refused = {}

Alive(p) == p # None /\ engine[p].st \in {"starting", "up", "term"}
Free(p) ==
    /\ engine[p].st = "dead"
    /\ \A e \in EngineSet : procs[e] # p
    /\ \A c \in Callers : call[c].waits # p

(***************************************************************************)
(* Types and the initial state.                                            *)
(***************************************************************************)
Pcs == {"idle", "next", "off", "validate", "stop", "spawn", "settle"}

\* The locals of one sync(): the engine it is at, the engines that were wanted when
\* it began, the config it rendered, the process it waits for.
Call == [pc : Pcs, force : BOOLEAN, at : 1..(Len(Engines) + 1), wanted : SUBSET EngineSet,
         cand : Config, waits : Procs \cup {None}]
IdleCall == [pc |-> "idle", force |-> FALSE, at |-> 1, wanted |-> {}, cand |-> {}, waits |-> None]

Process == [st : {"dead", "starting", "up", "term"}, of : EngineSet \cup {None}, cfg : Config]
Dead == [st |-> "dead", of |-> None, cfg |-> {}]

TypeOK ==
    /\ setting \in [Profiles -> Setting]
    /\ active \subseteq Users
    /\ refused \subseteq Profiles
    /\ file \in [EngineSet -> Config]
    /\ procs \in [EngineSet -> Procs \cup {None}]
    /\ hashes \in [EngineSet -> Config \cup {None}]
    /\ hosted \in [EngineSet -> SUBSET Profiles]
    /\ published \in (SUBSET Profiles) \cup {None}
    /\ engine \in [Procs -> Process]
    /\ call \in [Callers -> Call]
    /\ phase \in {"boot", "running", "closing", "stopped"}
    /\ changes \in 0..MaxChanges
    /\ faults \in 0..MaxFaults

Init ==
    /\ setting \in [Profiles -> Setting]
    /\ active = Users
    /\ refused \in SUBSET Refusable
    /\ file = [e \in EngineSet |-> {}]
    /\ procs = [e \in EngineSet |-> None]
    /\ hashes = [e \in EngineSet |-> None]
    /\ hosted = [e \in EngineSet |-> {}]
    /\ published = None
    /\ engine = [p \in Procs |-> Dead]
    /\ call = [c \in Callers |-> IdleCall]
    /\ phase = "boot"
    /\ changes = 0
    /\ faults = 0

(***************************************************************************)
(* sync(), between its awaits.                                             *)
(***************************************************************************)
EngineAt(c) == Engines[call[c].at]

\* No other coroutine is running.
HasLoop(c) == \A d \in Callers \ {c} : call[d].pc # "next"

CanBegin(c) ==
    /\ call[c].pc = "idle"
    /\ phase = "running" \/ (phase = "boot" /\ c = Loop)
    /\ HasLoop(c)
    /\ Overlap \/ \A d \in Callers : call[d].pc = "idle"

BeginWith(c, wanted) ==
    call' = [call EXCEPT ![c] = [IdleCall EXCEPT
                !.pc = "next", !.force = (c # Loop \/ phase = "boot"), !.wanted = wanted]]

\* lifespan(), loop() and POST /api/cores/reload.
Begin(c) ==
    /\ CanBegin(c)
    /\ BeginWith(c, Wanted)
    /\ UNCHANGED <<settingsVars, file, moduleVars, engine, phase, changes, faults>>

\* POST /api/cores: save() stores one profile's switch, port and engine, and sync()
\* begins before anything else runs on the event loop.
SaveCores(h) ==
    /\ CanBegin(h)
    /\ changes < MaxChanges
    /\ changes' = changes + 1
    /\ \E p \in Profiles, s \in Setting :
        /\ s # setting[p]
        /\ setting' = [setting EXCEPT ![p] = s]
    /\ BeginWith(h, Wanted')
    /\ UNCHANGED <<active, refused, file, moduleVars, engine, phase, faults>>

\* The call goes on to the next engine without an await.
Onward(c) == [call[c] EXCEPT !.pc = "next", !.at = @ + 1, !.cand = {}, !.waits = None]

\* _stop(engine) up to its await; without a live process there is none.
StopAt(e) ==
    /\ procs' = [procs EXCEPT ![e] = None]
    /\ engine' = IF Alive(procs[e]) THEN [engine EXCEPT ![procs[e]].st = "term"] ELSE engine

AwaitExit(c, pc) == call' = [call EXCEPT ![c].pc = pc, ![c].waits = procs[EngineAt(c)]]

\* Nothing to host here: not wanted, not installed, or nobody to authenticate.
NothingToHost(c) ==
    EngineAt(c) \notin call[c].wanted \cap Installed \/ Listeners(EngineAt(c)) = {}

TurnOff(c) ==
    /\ call[c].pc = "next" /\ call[c].at <= Len(Engines)
    /\ NothingToHost(c)
    /\ StopAt(EngineAt(c))
    /\ IF Alive(procs[EngineAt(c)])
       THEN AwaitExit(c, "off") /\ UNCHANGED hosted
       ELSE /\ call' = [call EXCEPT ![c] = Onward(c)]
            /\ hosted' = [hosted EXCEPT ![EngineAt(c)] = {}]
    /\ UNCHANGED <<settingsVars, file, hashes, published, phase, changes, faults>>

\* The process is gone (SIGKILL after five seconds sees to that).
OffDone(c) ==
    /\ call[c].pc = "off" /\ HasLoop(c)
    /\ ~Alive(call[c].waits)
    /\ IF phase = "closing"
       THEN call' = [call EXCEPT ![c] = IdleCall] /\ UNCHANGED hosted
       ELSE /\ call' = [call EXCEPT ![c] = Onward(c)]
            /\ hosted' = [hosted EXCEPT ![EngineAt(c)] = {}]
    /\ UNCHANGED <<settingsVars, file, procs, hashes, published, engine, phase, changes, faults>>

\* Mutant: the digest is trusted without looking at the process.
UnchangedIfHashed(c) == ~call[c].force /\ hashes[EngineAt(c)] = Listeners(EngineAt(c))

Unchanged(c) ==
    /\ ~call[c].force
    /\ Alive(procs[EngineAt(c)])
    /\ hashes[EngineAt(c)] = Listeners(EngineAt(c))

\* start_or_reload() up to its first await: keep the engine, or write and validate.
Render(c) ==
    /\ call[c].pc = "next" /\ call[c].at <= Len(Engines)
    /\ ~NothingToHost(c)
    /\ IF Unchanged(c)
       THEN /\ hosted' = [hosted EXCEPT ![EngineAt(c)] = Ids(Listeners(EngineAt(c)))]
            /\ call' = [call EXCEPT ![c] = Onward(c)]
            /\ UNCHANGED file
       ELSE /\ file' = [file EXCEPT ![EngineAt(c)] = Listeners(EngineAt(c))]
            /\ call' = [call EXCEPT ![c].pc = "validate", ![c].cand = Listeners(EngineAt(c))]
            /\ UNCHANGED hosted
    /\ UNCHANGED <<settingsVars, procs, hashes, published, engine, phase, changes, faults>>

\* The verdict is about the file as it is when the engine checks it.
Valid(c) == Accepts(file[EngineAt(c)])

\* A refused config leaves the old process, and what it hosts, as they are.
Refused(c) ==
    /\ call[c].pc = "validate" /\ HasLoop(c)
    /\ ~Valid(c)
    /\ call' = [call EXCEPT ![c] = Onward(c)]
    /\ UNCHANGED <<settingsVars, file, moduleVars, engine, phase, changes, faults>>

\* Mutant: the old process is left running.
AcceptedWithoutStop(c) ==
    /\ call[c].pc = "validate" /\ HasLoop(c)
    /\ Valid(c)
    /\ call' = [call EXCEPT ![c].pc = "spawn"]
    /\ UNCHANGED <<settingsVars, file, moduleVars, engine, phase, changes, faults>>

Accepted(c) ==
    /\ call[c].pc = "validate" /\ HasLoop(c)
    /\ Valid(c)
    /\ StopAt(EngineAt(c))
    /\ IF Alive(procs[EngineAt(c)])
       THEN AwaitExit(c, "stop")
       ELSE call' = [call EXCEPT ![c].pc = "spawn"]
    /\ UNCHANGED <<settingsVars, file, hashes, hosted, published, phase, changes, faults>>

StopDone(c) ==
    /\ call[c].pc = "stop" /\ HasLoop(c)
    /\ ~Alive(call[c].waits)
    /\ call' = [call EXCEPT ![c].pc = "spawn", ![c].waits = None]
    /\ UNCHANGED <<settingsVars, file, moduleVars, engine, phase, changes, faults>>

Spawn(c) ==
    /\ call[c].pc = "spawn" /\ HasLoop(c)
    /\ \E p \in Procs :
        /\ Free(p)
        /\ engine' = [engine EXCEPT ![p] = [Dead EXCEPT !.st = "starting", !.of = EngineAt(c)]]
        /\ procs' = [procs EXCEPT ![EngineAt(c)] = p]
        /\ call' = [call EXCEPT ![c].pc = "settle", ![c].waits = p]
    /\ hashes' = [hashes EXCEPT ![EngineAt(c)] = call[c].cand]
    /\ UNCHANGED <<settingsVars, file, hosted, published, phase, changes, faults>>

\* The launch raises: sync() is abandoned before it published anything.
SpawnFails(c) ==
    /\ call[c].pc = "spawn" /\ HasLoop(c) /\ phase = "running"
    /\ faults < MaxFaults
    /\ faults' = faults + 1
    /\ call' = [call EXCEPT ![c] = IdleCall]
    /\ UNCHANGED <<settingsVars, file, moduleVars, engine, phase, changes>>

\* 0.3 s later (timing assumption: long enough for the process to have read its
\* config and bound its ports) the call looks whether its own process is alive.
Settle(c) ==
    /\ call[c].pc = "settle" /\ HasLoop(c)
    /\ engine[call[c].waits].st # "starting"
    /\ hosted' = [hosted EXCEPT ![EngineAt(c)] =
                    IF Alive(call[c].waits) THEN Ids(call[c].cand) ELSE {}]
    /\ call' = [call EXCEPT ![c] = Onward(c)]
    /\ UNCHANGED <<settingsVars, file, procs, hashes, published, engine, phase, changes, faults>>

\* Mutant: what was hosted is published, whether or not its engine still runs.
LiveByState == {p \in UNION {hosted[e] : e \in EngineSet} : Reachable(p)}

\* _refresh(): a running engine and a reachable port.
Live == {p \in UNION {hosted[e] : e \in {f \in EngineSet : Alive(procs[f])}} : Reachable(p)}

Finish(c) ==
    /\ call[c].pc = "next" /\ call[c].at = Len(Engines) + 1
    /\ published' = Live
    /\ call' = [call EXCEPT ![c] = IdleCall]
    /\ phase' = IF phase = "boot" THEN "running" ELSE phase
    /\ UNCHANGED <<settingsVars, file, procs, hashes, hosted, engine, changes, faults>>

Step(c) ==
    \/ TurnOff(c) \/ OffDone(c) \/ Render(c) \/ Refused(c) \/ Accepted(c)
    \/ StopDone(c) \/ Spawn(c) \/ Settle(c) \/ Finish(c)

(***************************************************************************)
(* The engine processes (external): one boots from its file as it is then, *)
(* and exits if it refuses it or another process has one of its ports.     *)
(***************************************************************************)
Binds(config) == {<<l.id, l.port>> : l \in config}
Contended(p, config) ==
    \E q \in Procs \ {p} : Binds(engine[q].cfg) \cap Binds(config) # {}

EngineBoot(p) ==
    /\ engine[p].st = "starting"
    /\ LET config == file[engine[p].of] IN
       engine' = [engine EXCEPT ![p] =
           IF Accepts(config) /\ ~Contended(p, config)
           THEN [@ EXCEPT !.st = "up", !.cfg = config] ELSE Dead]
    /\ UNCHANGED <<settingsVars, file, moduleVars, call, phase, changes, faults>>

EngineExit(p) ==
    /\ engine[p].st = "term"
    /\ engine' = [engine EXCEPT ![p] = Dead]
    /\ UNCHANGED <<settingsVars, file, moduleVars, call, phase, changes, faults>>

EngineCrash(p) ==
    /\ engine[p].st = "up"
    /\ faults < MaxFaults
    /\ faults' = faults + 1
    /\ engine' = [engine EXCEPT ![p] = Dead]
    /\ UNCHANGED <<settingsVars, file, moduleVars, call, phase, changes>>

(***************************************************************************)
(* The users table and the lifespan.                                       *)
(***************************************************************************)

\* PUT /api/users/{username} with toggle_only, in a thread: sync() is not called.
ToggleUser(u) ==
    /\ phase = "running"
    /\ changes < MaxChanges
    /\ changes' = changes + 1
    /\ active' = IF u \in active THEN active \ {u} ELSE active \cup {u}
    /\ UNCHANGED <<setting, refused, file, moduleVars, engine, call, phase, faults>>

\* The requests are drained, the loop is cancelled at its await, stop_all() begins.
Shutdown ==
    /\ phase = "running"
    /\ \A h \in Handlers : call[h].pc = "idle"
    /\ call[Loop].pc # "next"
    /\ call' = [call EXCEPT ![Loop] = IdleCall]
    /\ phase' = "closing"
    /\ UNCHANGED <<settingsVars, file, moduleVars, engine, changes, faults>>

StopAll ==
    /\ phase = "closing" /\ call[Loop].pc = "idle"
    /\ \E e \in EngineSet :
        /\ procs[e] # None
        /\ StopAt(e)
        /\ call' = IF Alive(procs[e])
                   THEN [call EXCEPT ![Loop] =
                            [IdleCall EXCEPT !.pc = "off", !.waits = procs[e]]]
                   ELSE call
    /\ UNCHANGED <<settingsVars, file, hashes, hosted, published, phase, changes, faults>>

Stopped ==
    /\ phase = "closing" /\ call[Loop].pc = "idle"
    /\ \A e \in EngineSet : procs[e] = None
    /\ phase' = "stopped"
    /\ UNCHANGED <<settingsVars, file, moduleVars, engine, call, changes, faults>>

Terminated == phase = "stopped" /\ UNCHANGED vars

Next ==
    \/ \E c \in Callers : Begin(c) \/ Step(c) \/ SpawnFails(c)
    \/ \E h \in Handlers : SaveCores(h)
    \/ \E p \in Procs : EngineBoot(p) \/ EngineExit(p) \/ EngineCrash(p)
    \/ \E u \in Users : ToggleUser(u)
    \/ Shutdown \/ StopAll \/ Stopped
    \/ Terminated

\* loop() never ends and the event loop runs every ready coroutine; a terminated
\* process exits (it is killed after five seconds) and a launched one boots.
Fairness ==
    /\ WF_vars(Begin(Loop))
    /\ \A c \in Callers : WF_vars(Step(c))
    /\ \A p \in Procs : WF_vars(EngineBoot(p) \/ EngineExit(p))

Spec == Init /\ [][Next]_vars
FairSpec == Spec /\ Fairness

(***************************************************************************)
(* What the supervisor promises.                                           *)
(***************************************************************************)
Listening == UNION {Ids(engine[p].cfg) : p \in Procs}

\* sync() answers the panel's question honestly: whenever it publishes, it publishes
\* only protocols that an engine process is serving at that moment (Publication).
Honest == INSTANCE Publication
              WITH Protocols <- Profiles, Unknown <- None, listening <- Listening
PublishesListening == Honest!Spec

\* When the lifespan has ended every engine process has been told to go, also the one
\* a sync() cancelled at its await was starting or replacing (main.py:384-391; stop_all).
NoEngineAfterShutdown ==
    phase = "stopped" => \A p \in Procs : engine[p].st \in {"dead", "term"}

Servable(p) ==
    /\ setting[p].on /\ active # {}
    /\ setting[p].engine \in Installed
    /\ Reachable(p)

\* Once the admin and the faults come to rest, what is published is exactly what is
\* switched on, hosted by an installed engine and reachable, whatever profile moved
\* between engines or died in between; unless an engine refuses its config.
Converges ==
    <>[]( \/ phase # "running"
          \/ \E e \in EngineSet : ~Accepts(Listeners(e))
          \/ published = {p \in Profiles : Servable(p)} )
=============================================================================
