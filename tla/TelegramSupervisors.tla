------------------------ MODULE TelegramSupervisors ------------------------
(***************************************************************************)
(* The Telegram proxies that own processes, app/telegram: mtproto.py (one  *)
(* process, mtg) and webrelay.py (two, the data plane `core` and `relay`), *)
(* brought in step with their settings by service.loop() and by reconcile, *)
(* which the lifespan and every change on the card await.  No lock.        *)
(*                                                                         *)
(* A step is the code between two awaits; where a call passes from one     *)
(* part to the next without one it keeps the event loop (pcs of Running).  *)
(*                                                                         *)
(* Data abstraction.  A config is its secret, a number that grows with     *)
(* every secret issued, and whether the binary accepts it; its digest is   *)
(* the config itself.  The Xray reload at the end of reconcile() is        *)
(* XraySupervisor's.                                                       *)
(***************************************************************************)
EXTENDS Naturals, Sequences, FiniteSets

CONSTANTS
    Loop,        \* the background task: lifespan()'s first reconcile, then loop()
    Handlers,    \* POST /api/telegram
    Procs,       \* identities of processes (bound: processes alive at once)
    None,        \* Python's None
    Overlap,     \* may a call start while another is suspended at an await?
    MaxChanges,  \* bound: admin changes in a behaviour
    MaxFaults    \* bound: crashes and failed launches in a behaviour

ASSUME NoneIsNoProc == None \notin Procs
ASSUME LoopIsNoHandler == Loop \notin Handlers
ASSUME OverlapIsBool == Overlap \in BOOLEAN
ASSUME BoundsAreNat == MaxChanges \in Nat /\ MaxFaults \in Nat

Callers == Handlers \cup {Loop}
Services == {"mtproto", "webrelay"}
Parts == {"mtg", "core", "relay"}
Owner == [part \in Parts |-> IF part = "mtg" THEN "mtproto" ELSE "webrelay"]

VARIABLES
    setting,   \* settings tg_*_enabled, _secret, and the fields mtg may refuse
    forwarded, \* is the MTProto port reachable from outside?
    file,      \* the config file of each service
    procs,     \* mtproto._proc and webrelay._procs
    hash,      \* mtproto._hash and webrelay._hash
    engine,    \* the processes themselves
    call,      \* one suspended (or idle) pass per caller
    phase,     \* lifespan: "boot", "running", "closing", "stopped"
    changes, faults

settingsVars == <<setting, forwarded>>
moduleVars == <<file, procs, hash>>
vars == <<settingsVars, moduleVars, engine, call, phase, changes, faults>>

Config == [secret : 0..MaxChanges, ok : BOOLEAN]
Setting == [on : BOOLEAN, secret : 0..MaxChanges, ok : BOOLEAN]

\* Mutant: the digest covers the whole section, the switch included.
ConfigOfSection(s) == setting[s]

\* config_text()
ConfigOf(s) == [secret |-> setting[s].secret, ok |-> setting[s].ok]

\* Switched on, installed and dialable from outside.
Wanted(s) == setting[s].on /\ (s = "mtproto" => forwarded)

Alive(p) == p # None /\ engine[p].st \in {"starting", "up", "term"}
PartsOf(s) == {part \in Parts : Owner[part] = s}

\* running(): every process of the service is there.
Runs(s) == \A part \in PartsOf(s) : Alive(procs[part])

\* published(): the condition under which a user is handed a link.
Published(s) == Wanted(s) /\ Runs(s)

Free(p) ==
    /\ engine[p].st = "dead"
    /\ \A part \in Parts : procs[part] # p
    /\ \A c \in Callers : call[c].waits # p /\ \A i \in DOMAIN call[c].left : call[c].left[i][2] # p

(***************************************************************************)
(* Types and the initial state.                                            *)
(***************************************************************************)
\* At these the call holds the event loop: entering a sync, stopping the next half.
Running == {"mtproto", "webrelay", "halves"}
Pcs == {"idle", "check mtg", "stop mtg", "spawn mtg", "settle mtg",
        "check web", "stop half", "spawn core", "settle core", "spawn relay", "settle relay"}
       \cup Running

\* The locals of one pass: the config it rendered, the process it waits for, the
\* halves _stop() has yet to visit, and where to go on after a _stop().
Call == [pc : Pcs, force : BOOLEAN, cand : Config \cup {None}, waits : Procs \cup {None},
         left : Seq({"core", "relay"} \X (Procs \cup {None})),
         then : {"mtproto", "webrelay", "spawn mtg", "spawn core", "idle"}]
IdleCall == [pc |-> "idle", force |-> FALSE, cand |-> None, waits |-> None, left |-> <<>>, then |-> "idle"]

Process == [st : {"dead", "starting", "up", "term"}, of : Parts \cup {None}, cfg : Config \cup {None}]
Dead == [st |-> "dead", of |-> None, cfg |-> None]

TypeOK ==
    /\ setting \in [Services -> Setting]
    /\ forwarded \in BOOLEAN
    /\ file \in [Services -> Config \cup {None}]
    /\ procs \in [Parts -> Procs \cup {None}]
    /\ hash \in [Services -> Config \cup {None}]
    /\ engine \in [Procs -> Process]
    /\ call \in [Callers -> Call]
    /\ phase \in {"boot", "running", "closing", "stopped"}
    /\ changes \in 0..MaxChanges
    /\ faults \in 0..MaxFaults

Init ==
    /\ setting \in [Services -> {s \in Setting : s.secret = 0}]
    /\ forwarded \in BOOLEAN
    /\ file = [s \in Services |-> None]
    /\ procs = [part \in Parts |-> None]
    /\ hash = [s \in Services |-> None]
    /\ engine = [p \in Procs |-> Dead]
    /\ call = [c \in Callers |-> IdleCall]
    /\ phase = "boot"
    /\ changes = 0 /\ faults = 0

(***************************************************************************)
(* A pass: mtproto.sync(), then webrelay.sync().                           *)
(***************************************************************************)
HasLoop(c) == \A d \in Callers \ {c} : call[d].pc \notin Running

CanBegin(c) ==
    /\ call[c].pc = "idle"
    /\ phase = "running" \/ (phase = "boot" /\ c = Loop)
    /\ HasLoop(c)
    /\ Overlap \/ \A d \in Callers : call[d].pc = "idle"

Enter(c) == call' = [call EXCEPT ![c] = [IdleCall EXCEPT !.pc = "mtproto", !.force = (c # Loop)]]

\* lifespan() and loop().
Begin ==
    /\ CanBegin(Loop)
    /\ Enter(Loop)
    /\ UNCHANGED <<settingsVars, moduleVars, engine, phase, changes, faults>>

Change ==
    /\ changes < MaxChanges
    /\ changes' = changes + 1
    /\ UNCHANGED <<forwarded, moduleVars, engine, phase, faults>>

\* Action "reload" of the card.
Reload(h) ==
    /\ CanBegin(h)
    /\ Change
    /\ Enter(h)
    /\ UNCHANGED setting

\* rotate_secret(): the new secret is stored whatever becomes of it.
Rotate(h, s) ==
    /\ CanBegin(h)
    /\ Change
    /\ setting' = [setting EXCEPT ![s].secret = changes']
    /\ Enter(h)

\* A section switches, changes a field the binary may refuse, or (the fronting name
\* is inside mtg's secret) reissues the secret.
Edits(s) ==
    {[on |-> on, ok |-> ok, secret |-> secret] :
        on \in BOOLEAN, ok \in BOOLEAN,
        secret \in {setting[s].secret} \cup (IF s = "mtproto" THEN {changes + 1} ELSE {})}
    \ {setting[s]}

\* save(): one section of the body is stored; a section after it is valid, and the
\* reconcile follows, or it is not, and the answer is 400 without one.
Save(h, s) ==
    /\ CanBegin(h)
    /\ Change
    /\ \E edit \in Edits(s) : setting' = [setting EXCEPT ![s] = edit]
    /\ Enter(h) \/ UNCHANGED call

Goto(c, pc) == [call[c] EXCEPT !.pc = pc, !.waits = None, !.left = <<>>]

\* The end of a pass (or an exception that leaves it).
Return(c) ==
    /\ call' = [call EXCEPT ![c] = IdleCall]
    /\ phase' = IF phase = "boot" THEN "running" ELSE phase

\* Mutants: any live process is kept; the digest is trusted without one.
KeepsAny(c, s) == ~call[c].force /\ Runs(s)
KeepsByHash(c, s) == ~call[c].force /\ hash[s] = ConfigOf(s)

\* The service already runs what the settings ask for.
Keeps(c, s) == ~call[c].force /\ Runs(s) /\ hash[s] = ConfigOf(s)

\* mtproto._stop(): the process is kept in a local, _proc cleared after the await.
StopMtg(c, then) ==
    IF Alive(procs["mtg"])
    THEN /\ engine' = [engine EXCEPT ![procs["mtg"]].st = "term"]
         /\ call' = [call EXCEPT ![c] = [Goto(c, "stop mtg") EXCEPT !.waits = procs["mtg"], !.then = then]]
         /\ UNCHANGED procs
    ELSE /\ procs' = [procs EXCEPT !["mtg"] = None]
         /\ call' = [call EXCEPT ![c] = Goto(c, then)]
         /\ UNCHANGED engine

SyncMtproto(c) ==
    /\ call[c].pc = "mtproto"
    /\ IF ~Wanted("mtproto")
       THEN StopMtg(c, "webrelay") /\ UNCHANGED file
       ELSE IF Keeps(c, "mtproto")
       THEN call' = [call EXCEPT ![c] = Goto(c, "webrelay")] /\ UNCHANGED <<file, procs, engine>>
       ELSE /\ file' = [file EXCEPT !["mtproto"] = ConfigOf("mtproto")]
            /\ call' = [call EXCEPT ![c] = [Goto(c, "check mtg") EXCEPT !.cand = ConfigOf("mtproto")]]
            /\ UNCHANGED <<procs, engine>>
    /\ UNCHANGED <<settingsVars, hash, phase, changes, faults>>

\* Mutant: the old process is left to exit by itself.
CheckMtgNoStop(c) ==
    /\ call[c].pc = "check mtg" /\ HasLoop(c)
    /\ call' = [call EXCEPT ![c] = Goto(c, IF file["mtproto"].ok THEN "spawn mtg" ELSE "webrelay")]
    /\ UNCHANGED <<settingsVars, moduleVars, engine, phase, changes, faults>>

\* mtg's verdict on the file; a refused config costs the running process nothing.
CheckMtg(c) ==
    /\ call[c].pc = "check mtg" /\ HasLoop(c)
    /\ IF file["mtproto"].ok
       THEN StopMtg(c, "spawn mtg")
       ELSE call' = [call EXCEPT ![c] = Goto(c, "webrelay")] /\ UNCHANGED <<procs, engine>>
    /\ UNCHANGED <<settingsVars, file, hash, phase, changes, faults>>

\* The awaited process is gone (killed after five seconds); _proc is cleared.
StopMtgDone(c) ==
    /\ call[c].pc = "stop mtg" /\ HasLoop(c)
    /\ ~Alive(call[c].waits)
    /\ procs' = [procs EXCEPT !["mtg"] = None]
    /\ call' = [call EXCEPT ![c] = Goto(c, call[c].then)]
    /\ UNCHANGED <<settingsVars, file, hash, engine, phase, changes, faults>>

\* Which unused identity a process gets does not matter.
Launch(c, part) ==
    /\ \E p \in Procs : Free(p)
    /\ LET p == CHOOSE q \in Procs : Free(q) IN
        /\ engine' = [engine EXCEPT ![p] = [Dead EXCEPT !.st = "starting", !.of = part]]
        /\ procs' = [procs EXCEPT ![part] = p]
        /\ call' = [call EXCEPT ![c] = [Goto(c, IF part = "mtg" THEN "settle mtg"
                                                ELSE IF part = "core" THEN "settle core"
                                                ELSE "settle relay") EXCEPT !.waits = p]]

SpawnMtg(c) ==
    /\ call[c].pc = "spawn mtg" /\ HasLoop(c)
    /\ Launch(c, "mtg")
    /\ hash' = [hash EXCEPT !["mtproto"] = call[c].cand]
    /\ UNCHANGED <<settingsVars, file, phase, changes, faults>>

\* 0.3 s later _proc is read again: None (another call's _stop) raises.
SettleMtg(c) ==
    /\ call[c].pc = "settle mtg" /\ HasLoop(c)
    /\ engine[call[c].waits].st # "starting"
    /\ IF procs["mtg"] = None
       THEN Return(c)
       ELSE call' = [call EXCEPT ![c] = Goto(c, "webrelay")] /\ UNCHANGED phase
    /\ UNCHANGED <<settingsVars, moduleVars, engine, changes, faults>>

\* webrelay._stop(): a snapshot of both halves, visited one after the other.
Halves == << <<"core", procs["core"]>>, <<"relay", procs["relay"]>> >>
StopWeb(c, then) ==
    call' = [call EXCEPT ![c] = [Goto(c, "halves") EXCEPT !.left = Halves, !.then = then]]

SyncWebrelay(c) ==
    /\ call[c].pc = "webrelay"
    /\ IF ~Wanted("webrelay")
       THEN StopWeb(c, "idle") /\ UNCHANGED <<file, phase>>
       ELSE IF Keeps(c, "webrelay")
       THEN Return(c) /\ UNCHANGED file
       ELSE /\ file' = [file EXCEPT !["webrelay"] = ConfigOf("webrelay")]
            /\ call' = [call EXCEPT ![c] = [Goto(c, "check web") EXCEPT !.cand = ConfigOf("webrelay")]]
            /\ UNCHANGED phase
    /\ UNCHANGED <<settingsVars, procs, hash, engine, changes, faults>>

CheckWeb(c) ==
    /\ call[c].pc = "check web" /\ HasLoop(c)
    /\ IF file["webrelay"].ok THEN StopWeb(c, "spawn core") /\ UNCHANGED phase ELSE Return(c)
    /\ UNCHANGED <<settingsVars, moduleVars, engine, changes, faults>>

\* The next half of the snapshot: forgotten, and if it lives terminated and awaited.
StopHalf(c) ==
    /\ call[c].pc = "halves" /\ call[c].left # <<>>
    /\ LET half == Head(call[c].left) IN
        /\ procs' = [procs EXCEPT ![half[1]] = None]
        /\ IF Alive(half[2])
           THEN /\ engine' = [engine EXCEPT ![half[2]].st = "term"]
                /\ call' = [call EXCEPT ![c].pc = "stop half", ![c].waits = half[2],
                                        ![c].left = Tail(call[c].left)]
           ELSE /\ call' = [call EXCEPT ![c].left = Tail(call[c].left)]
                /\ UNCHANGED engine
    /\ UNCHANGED <<settingsVars, file, hash, phase, changes, faults>>

HalfGone(c) ==
    /\ call[c].pc = "stop half" /\ HasLoop(c)
    /\ ~Alive(call[c].waits)
    /\ call' = [call EXCEPT ![c].pc = "halves", ![c].waits = None]
    /\ UNCHANGED <<settingsVars, moduleVars, engine, phase, changes, faults>>

StoppedHalves(c) ==
    /\ call[c].pc = "halves" /\ call[c].left = <<>>
    /\ IF call[c].then = "idle" THEN Return(c)
       ELSE call' = [call EXCEPT ![c] = Goto(c, call[c].then)] /\ UNCHANGED phase
    /\ UNCHANGED <<settingsVars, moduleVars, engine, changes, faults>>

SpawnHalf(c, part) ==
    /\ \/ part = "core" /\ call[c].pc = "spawn core"
       \/ part = "relay" /\ call[c].pc = "spawn relay"
    /\ HasLoop(c)
    /\ Launch(c, part)
    /\ UNCHANGED <<settingsVars, file, hash, phase, changes, faults>>

\* 0.3 s later: a half that died takes the other one down with it; the second half up
\* completes the pass, and only now the digest counts.
SettleHalf(c) ==
    /\ call[c].pc \in {"settle core", "settle relay"} /\ HasLoop(c)
    /\ engine[call[c].waits].st # "starting"
    /\ IF ~Alive(call[c].waits)
       THEN StopWeb(c, "idle") /\ UNCHANGED <<hash, phase>>
       ELSE IF call[c].pc = "settle core"
       THEN call' = [call EXCEPT ![c] = Goto(c, "spawn relay")] /\ UNCHANGED <<hash, phase>>
       ELSE hash' = [hash EXCEPT !["webrelay"] = call[c].cand] /\ Return(c)
    /\ UNCHANGED <<settingsVars, file, procs, engine, changes, faults>>

\* The exec raises: mtproto reports it and the pass goes on, webrelay stops both halves.
SpawnFails(c) ==
    /\ call[c].pc \in {"spawn mtg", "spawn core", "spawn relay"} /\ HasLoop(c)
    /\ faults < MaxFaults
    /\ faults' = faults + 1
    /\ IF call[c].pc = "spawn mtg"
       THEN call' = [call EXCEPT ![c] = Goto(c, "webrelay")]
       ELSE StopWeb(c, "idle")
    /\ UNCHANGED <<settingsVars, moduleVars, engine, phase, changes>>

Step(c) ==
    \/ SyncMtproto(c) \/ CheckMtg(c) \/ StopMtgDone(c) \/ SpawnMtg(c) \/ SettleMtg(c)
    \/ SyncWebrelay(c) \/ CheckWeb(c) \/ StopHalf(c) \/ HalfGone(c) \/ StoppedHalves(c)
    \/ SpawnHalf(c, "core") \/ SpawnHalf(c, "relay") \/ SettleHalf(c)

(***************************************************************************)
(* The processes (external): one boots from its service's file, and exits  *)
(* if it refuses it or another process has its port.                       *)
(***************************************************************************)
Contended(p) == \E q \in Procs : engine[q].of = engine[p].of /\ engine[q].cfg # None

EngineBoot(p) ==
    /\ engine[p].st = "starting"
    /\ LET config == file[Owner[engine[p].of]] IN
       engine' = [engine EXCEPT ![p] =
           IF config.ok /\ ~Contended(p) THEN [engine[p] EXCEPT !.st = "up", !.cfg = config] ELSE Dead]
    /\ UNCHANGED <<settingsVars, moduleVars, call, phase, changes, faults>>

EngineExit(p) ==
    /\ engine[p].st = "term"
    /\ engine' = [engine EXCEPT ![p] = Dead]
    /\ UNCHANGED <<settingsVars, moduleVars, call, phase, changes, faults>>

EngineCrash(p) ==
    /\ engine[p].st = "up"
    /\ faults < MaxFaults
    /\ faults' = faults + 1
    /\ engine' = [engine EXCEPT ![p] = Dead]
    /\ UNCHANGED <<settingsVars, moduleVars, call, phase, changes>>

(***************************************************************************)
(* A port learnt in a pool thread (app/ports.py), and the lifespan's end.  *)
(***************************************************************************)
LearnPort ==
    /\ phase = "running" /\ ~forwarded
    /\ forwarded' = TRUE
    /\ UNCHANGED <<setting, moduleVars, engine, call, phase, changes, faults>>

\* The requests are drained and the loop is cancelled at its await; stop_all() begins.
Shutdown ==
    /\ phase = "running"
    /\ \A h \in Handlers : call[h].pc = "idle"
    /\ call[Loop].pc \notin Running
    /\ call' = [call EXCEPT ![Loop] = IdleCall]
    /\ phase' = "closing"
    /\ UNCHANGED <<settingsVars, moduleVars, engine, changes, faults>>

StopAll ==
    /\ phase = "closing"
    /\ engine' = [p \in Procs |->
          IF Alive(p) /\ \E part \in Parts : procs[part] = p
          THEN [engine[p] EXCEPT !.st = "term"] ELSE engine[p]]
    /\ procs' = [part \in Parts |-> None]
    /\ phase' = "stopped"
    /\ UNCHANGED <<settingsVars, file, hash, call, changes, faults>>

Terminated == phase = "stopped" /\ UNCHANGED vars

Next ==
    \/ Begin
    \/ \E c \in Callers : Step(c) \/ SpawnFails(c)
    \/ \E h \in Handlers : Reload(h) \/ \E s \in Services : Rotate(h, s) \/ Save(h, s)
    \/ \E p \in Procs : EngineBoot(p) \/ EngineExit(p) \/ EngineCrash(p)
    \/ LearnPort \/ Shutdown \/ StopAll
    \/ Terminated

\* loop() never ends, the event loop runs every ready coroutine, a launched process
\* boots and a terminated one exits (it is killed after five seconds).
Fairness ==
    /\ WF_vars(Begin)
    /\ \A c \in Callers : WF_vars(Step(c))
    /\ \A p \in Procs : WF_vars(EngineBoot(p) \/ EngineExit(p))

Spec == Init /\ [][Next]_vars
FairSpec == Spec /\ Fairness

(***************************************************************************)
(* What the supervisors promise.                                           *)
(***************************************************************************)

\* A config is validated and the old process awaited before a new one is launched, so
\* no launch ever meets a taken port or a refused config.
CleanBoot ==
    [][ \A p \in Procs : engine[p].st = "starting" => engine'[p].st # "dead" ]_vars

Serving(s) == {engine[p].cfg.secret : p \in {q \in Procs :
                  engine[q].cfg # None /\ Owner[engine[q].of] = s}}

\* "Every link handed out before it stops working": sooner or later no process accepts
\* a secret that was replaced, however the replacement was interrupted, as long as
\* the binary accepts the config that carries the new one.
RotationRevokes ==
    \A s \in Services :
        (Serving(s) \ {setting[s].secret} # {}) ~>
            \/ Serving(s) \subseteq {setting[s].secret}
            \/ ~setting[s].ok
            \/ phase # "running"

\* "Keep the proxy in step with the settings without a restart" of the panel: once
\* changes and faults come to rest, what users are handed is exactly what is wanted,
\* and every half of it serves the stored secret.
Converges ==
    <>[]( \/ phase # "running"
          \/ \A s \in Services :
               \/ Wanted(s) /\ ~setting[s].ok
               \/ /\ Published(s) <=> Wanted(s)
                  /\ Wanted(s) => \A part \in PartsOf(s) : engine[procs[part]].cfg = ConfigOf(s)
                  /\ ~Wanted(s) => Serving(s) = {} )

=============================================================================
