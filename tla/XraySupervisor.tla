--------------------------- MODULE XraySupervisor ---------------------------
(***************************************************************************)
(* The Xray-core supervisor, app/xray.py: one engine process, one config   *)
(* file, four module globals (_proc, _last_hash, _last_served/_served_     *)
(* profiles, _last_warning) and one coroutine, start_or_reload, that the   *)
(* background loop and several request handlers await with no lock between *)
(* them.  A step of this module is the code between two awaits.            *)
(*                                                                         *)
(* Data abstraction.  A config is the inbound tags it contains, the users  *)
(* its client lists name and their order, the Shadowsocks keys and the     *)
(* Reality key pair; its digest is the config itself.  The client lists    *)
(* are those of a SELECT without an ORDER BY, so their order is that of    *)
(* the rows in the table, which PostgreSQL changes with every UPDATE; a    *)
(* Shadowsocks inbound has no client list, whoever holds its key is        *)
(* served.  All the SELECTs of one rung are one read.  The engine build    *)
(* refuses a config exactly when it holds an inbound of Refused ("Xray     *)
(* validates the whole file at once").                                     *)
(***************************************************************************)
EXTENDS Naturals, Sequences, FiniteSets

CONSTANTS
    Loop,        \* the background task of lifespan(): boot, then xray.loop()
    Handlers,    \* request handlers that await start_or_reload(force=True)
    Users,       \* users an admin may enable and disable
    Procs,       \* identities of engine processes (bound: processes alive at once)
    Ciphers,     \* the Shadowsocks ciphers of tp.SS_CIPHERS, a sequence of tags
    Offered,     \* the optional inbounds this deployment's admin may ever switch on
    Stored,      \* what the settings may hold at boot: `wanted` starts as one of these
    Builds,      \* the engine builds: `refused` is one of these sets of inbounds
    None,        \* Python's None
    Overlap,     \* may a call start while another call is suspended at an await?
    MaxChanges,  \* bound: admin changes in a behaviour
    MaxCrashes   \* bound: engine crashes in a behaviour

ASSUME LoopIsNoHandler == Loop \notin Handlers
ASSUME NoneIsNoProcess == None \notin Procs
ASSUME NoneIsNoCaller  == None \notin Handlers \cup {Loop}
ASSUME CiphersIsSeq    == Ciphers \in Seq(STRING)
ASSUME OfferedAssumption == Offered \subseteq {"warp", "direct", "adv", "tg"}
ASSUME StoredAssumption == Stored \subseteq SUBSET Offered
ASSUME OverlapIsBool   == Overlap \in BOOLEAN
ASSUME BoundsAreNat    == MaxChanges \in Nat /\ MaxCrashes \in Nat

Callers == Handlers \cup {Loop}

VARIABLES
    wanted,    \* settings: which optional inbounds an admin switched on
    active,    \* users table: the rows with is_active = 1
    before,    \* users table: <<u, v>> when a SELECT lists u before v
    psk,       \* settings ss_psk:<method>: the change each cipher's key dates from
    left,      \* history: the change that last disabled a user
    keys,      \* settings reality_private / reality_public, each None or its author
    refused,   \* inbounds the installed engine build does not accept (never changes)
    file,      \* the content of settings.xray_config
    served,    \* transports._served_profiles and xray._last_served
    proc,      \* xray._proc: the process the module believes it owns
    lastHash,  \* xray._last_hash
    engine,    \* the engine processes themselves
    call,      \* one suspended (or idle) start_or_reload per caller
    phase,     \* lifespan: "boot", "running", "closing", "stopped"
    changes,   \* admin changes so far (also the version of the settings)
    crashes    \* engine crashes so far

userVars == <<active, before, left>>
settingsVars == <<wanted, userVars, psk, changes>>
vars == <<wanted, userVars, psk, keys, refused, file, served, proc, lastHash, engine,
          call, phase, changes, crashes>>

Optional == {"warp", "direct", "adv", "tg"}
CipherTags(n) == {Ciphers[i] : i \in 1..n}
AllTags == {"core"} \cup CipherTags(Len(Ciphers)) \cup Optional

ASSUME CiphersAreNoOptions == CipherTags(Len(Ciphers)) \cap Optional = {}
ASSUME BuildsAssumption == Builds \subseteq SUBSET AllTags

LastRung == 4 + Len(Ciphers)
KeyPair == [priv : Callers \cup {None}, pub : Callers \cup {None}]
AllCiphers == CipherTags(Len(Ciphers))
Psks == [AllCiphers -> 0..MaxChanges]
Config == [tags : SUBSET AllTags, users : SUBSET Users, order : SUBSET (Users \X Users),
           psk : Psks, key : KeyPair]
NoKeys == [priv |-> None, pub |-> None]

(***************************************************************************)
(* The candidate ladder.  Each rung is rendered from the settings as they  *)
(* are when the generator reaches it.                                      *)
(***************************************************************************)

\* tp.reality_keys(): both halves are stored.
HaveKeys == keys.priv # None /\ keys.pub # None

\* direct_inbounds() yields anything only with an endpoint and a key pair.
DirectTags(advanced) ==
    IF "direct" \in wanted /\ HaveKeys
    THEN {"direct"} \cup (IF advanced THEN wanted \cap {"adv"} ELSE {})
    ELSE {}

\* webproxy.xray_inbounds(): a proxy that could authenticate nobody is left out.
TelegramTags == IF active = {} THEN {} ELSE wanted \cap {"tg"}

\* Ciphers kept by a rung: all of them down to `plain`, then one less per rung.
Keep(r) == IF r <= 4 THEN Len(Ciphers) ELSE Len(Ciphers) - (r - 4)

\* _candidate_configs(): 1 full, 2 lean, 3 trimmed, 4 plain, then the SS rungs.
RungTags(r) ==
    {"core"} \cup CipherTags(Keep(r))
        \cup (IF r <= 2 THEN (wanted \cap {"warp"}) \cup DirectTags(r = 1) ELSE {})
        \cup (IF r <= 3 THEN TelegramTags ELSE {})

\* Mutant: the key of a cipher is read once and remembered by the process.
RungWithOldKeys(r) ==
    LET tags == RungTags(r)
    IN  [tags |-> tags, users |-> active, order |-> before \cap (active \X active),
         psk |-> [s \in AllCiphers |-> 0],
         key |-> IF "direct" \in tags THEN keys ELSE NoKeys]

\* What a rung renders: per-user clients in the order of the rows, one key per cipher.
Rung(r) ==
    LET tags == RungTags(r)
    IN  [tags |-> tags,
         users |-> active,
         order |-> before \cap (active \X active),
         psk |-> [s \in AllCiphers |-> IF s \in tags THEN psk[s] ELSE 0],
         key |-> IF "direct" \in tags THEN keys ELSE NoKeys]

\* What the engine says of a config, when it tests it and when it boots from it.
Accepts(config) == config.tags \cap refused = {}

Alive(p) == p # None /\ engine[p].st \in {"starting", "up", "term"}
Free(p) ==
    /\ engine[p].st = "dead"
    /\ p # proc
    /\ \A c \in Callers : call[c].waits # p

(***************************************************************************)
(* Types and the initial state: lifespan() is about to make its forced     *)
(* first call, and nothing was started in this process yet.                *)
(***************************************************************************)
Pcs == {"idle", "saved", "keygen", "keysave", "test", "stop", "spawn", "settle"}

\* The locals of one start_or_reload: the candidate just written, its rung, the
\* process it waits for, and the settings version the call began with.
Call == [pc : Pcs, force : BOOLEAN, rung : 0..LastRung, cand : Config \cup {None},
         waits : Procs \cup {None}, since : 0..MaxChanges]
IdleCall == [pc |-> "idle", force |-> FALSE, rung |-> 0, cand |-> None,
             waits |-> None, since |-> 0]

EngineState == [st : {"dead", "starting", "up", "term"}, cfg : Config \cup {None}]

TypeOK ==
    /\ wanted \subseteq Offered
    /\ active \subseteq Users
    /\ before \subseteq Users \X Users
    /\ left \in [Users -> 0..MaxChanges]
    /\ psk \in Psks
    /\ keys \in KeyPair
    /\ refused \subseteq AllTags
    /\ file \in Config \cup {None}
    /\ served \in (SUBSET AllTags) \cup {None}
    /\ proc \in Procs \cup {None}
    /\ lastHash \in Config \cup {None}
    /\ engine \in [Procs -> EngineState]
    /\ call \in [Callers -> Call]
    /\ phase \in {"boot", "running", "closing", "stopped"}
    /\ changes \in 0..MaxChanges
    /\ crashes \in 0..MaxCrashes

\* The rows of a table have some order.
Listings ==
    {order \in SUBSET (Users \X Users) :
        \A u, v, w \in Users :
            /\ <<u, u>> \notin order
            /\ u # v => (<<u, v>> \in order <=> <<v, u>> \notin order)
            /\ <<u, v>> \in order /\ <<v, w>> \in order => <<u, w>> \in order}

Init ==
    /\ wanted \in Stored
    /\ active = Users
    /\ before \in Listings
    /\ left = [u \in Users |-> 0]
    /\ psk = [s \in AllCiphers |-> 0]
    /\ keys = NoKeys
    /\ refused \in Builds
    /\ file = None
    /\ served = None
    /\ proc = None
    /\ lastHash = None
    /\ engine = [p \in Procs |-> [st |-> "dead", cfg |-> None]]
    /\ call = [c \in Callers |-> IdleCall]
    /\ phase = "boot"
    /\ changes = 0
    /\ crashes = 0

(***************************************************************************)
(* start_or_reload, between its awaits.                                    *)
(***************************************************************************)

\* The coroutine returns (or raises: the loop swallows it, a handler answers 500).
Return(c) ==
    /\ call' = [call EXCEPT ![c] = IdleCall]
    /\ phase' = IF phase = "boot" THEN "running" ELSE phase

\* write_config(candidate), then the -test process is spawned and awaited.
WriteRung(c, r, started) ==
    /\ file' = Rung(r)
    /\ call' = [call EXCEPT ![c] = [started EXCEPT !.pc = "test", !.rung = r, !.cand = Rung(r)]]

CanBegin(c) ==
    /\ call[c].pc = "idle"
    /\ phase = "running" \/ (phase = "boot" /\ c = Loop)
    /\ Overlap \/ \A other \in Callers : call[other].pc = "idle"

\* Entry: with a raw endpoint the Reality keys are ensured in a thread first.
Enter(c) ==
    LET started == [IdleCall EXCEPT !.force = (c # Loop \/ phase = "boot"), !.since = changes]
    IN  /\ IF "direct" \in wanted
           THEN /\ call' = [call EXCEPT ![c] = [started EXCEPT !.pc = "keygen"]]
                /\ UNCHANGED file
           ELSE WriteRung(c, 1, started)
        /\ UNCHANGED <<settingsVars, keys, refused, served, proc, lastHash, engine, phase, crashes>>

\* lifespan(), the loop, and the handlers that reload whatever they stored before.
Begin(c) == CanBegin(c) /\ Enter(c)

\* POST /api/warp, /api/obfuscation and /api/telegram: the switch is stored, and the
\* reload follows (for Telegram after its own two listeners were brought in step).
SaveAndReload(h) ==
    /\ CanBegin(h)
    /\ changes < MaxChanges
    /\ changes' = changes + 1
    /\ \E o \in Offered \cap {"warp", "adv", "tg"} :
           wanted' = IF o \in wanted THEN wanted \ {o} ELSE wanted \cup {o}
    /\ call' = [call EXCEPT ![h].pc = "saved"]
    /\ UNCHANGED <<userVars, psk, keys, refused, file, served, proc, lastHash, engine, phase, crashes>>

\* POST /api/settings/rotate-shadowsocks: rotate_ss_keys() stores a new key for each
\* cipher whose statement does not fail, and a forced reload follows.
RotateShadowsocks(h) ==
    /\ CanBegin(h)
    /\ changes < MaxChanges
    /\ changes' = changes + 1
    /\ \E rotated \in SUBSET AllCiphers :
           psk' = [s \in AllCiphers |-> IF s \in rotated THEN changes + 1 ELSE psk[s]]
    /\ call' = [call EXCEPT ![h].pc = "saved"]
    /\ UNCHANGED <<wanted, userVars, keys, refused, file, served, proc, lastHash, engine, phase, crashes>>

Resume(h) == call[h].pc = "saved" /\ Enter(h)

\* Mutant: a pair is generated without looking for a saved one.
KeyGenAlways(c) ==
    /\ call[c].pc = "keygen"
    /\ keys' = [keys EXCEPT !.priv = c]
    /\ call' = [call EXCEPT ![c].pc = "keysave"]
    /\ UNCHANGED <<settingsVars, refused, file, served, proc, lastHash, engine, phase, crashes>>

\* ensure_reality_keys() in its thread finds no pair, generates one and saves the private half.
KeyGen(c) ==
    /\ call[c].pc = "keygen"
    /\ ~HaveKeys
    /\ keys' = [keys EXCEPT !.priv = c]
    /\ call' = [call EXCEPT ![c].pc = "keysave"]
    /\ UNCHANGED <<settingsVars, refused, file, served, proc, lastHash, engine, phase, crashes>>

\* ... and, in a statement of its own, the public half.
KeySave(c) ==
    /\ call[c].pc = "keysave"
    /\ keys' = [keys EXCEPT !.pub = c]
    /\ call' = [call EXCEPT ![c].pc = "keygen"]
    /\ UNCHANGED <<settingsVars, refused, file, served, proc, lastHash, engine, phase, crashes>>

\* The thread is done (the pair exists, or x25519 failed): the ladder starts.
KeysEnsured(c) ==
    /\ call[c].pc = "keygen"
    /\ WriteRung(c, 1, call[c])
    /\ UNCHANGED <<settingsVars, keys, refused, served, proc, lastHash, engine, phase, crashes>>

\* Mutant: the ladder has no `lean` rung.
NextRungWithoutLean(c) == IF call[c].rung = 1 THEN 3 ELSE call[c].rung + 1

\* The rung after this one; `lean` is offered only if it drops an inbound.
NextRung(c) ==
    IF call[c].rung = 1 /\ Cardinality(RungTags(2)) >= Cardinality(call[c].cand.tags)
    THEN 3
    ELSE call[c].rung + 1

\* The verdict is about the file as it is when the test process reads it.
RungRefused(c) ==
    /\ call[c].pc = "test"
    /\ ~Accepts(file)
    /\ call[c].rung < LastRung
    /\ WriteRung(c, NextRung(c), call[c])
    /\ UNCHANGED <<settingsVars, keys, refused, served, proc, lastHash, engine, phase, crashes>>

\* Even the smallest config is refused: publish nothing, leave the old engine alone.
LadderExhausted(c) ==
    /\ call[c].pc = "test"
    /\ ~Accepts(file)
    /\ call[c].rung = LastRung
    /\ served' = {}
    /\ Return(c)
    /\ UNCHANGED <<settingsVars, keys, refused, file, proc, lastHash, engine, crashes>>

\* _stop() up to its await; without a live process it goes straight on to spawn.
BeginStop(c) ==
    IF Alive(proc)
    THEN /\ engine' = [engine EXCEPT ![proc].st = "term"]
         /\ call' = [call EXCEPT ![c].pc = "stop", ![c].waits = proc]
         /\ UNCHANGED proc
    ELSE /\ proc' = None
         /\ call' = [call EXCEPT ![c].pc = "spawn"]
         /\ UNCHANGED engine

\* Mutants: any live engine is kept, whatever it runs; no engine is ever kept.
UnchangedIgnoresHash(c) == ~call[c].force /\ Alive(proc)
UnchangedNever(c) == call[c].force /\ ~Alive(proc)

Unchanged(c) == ~call[c].force /\ call[c].cand = lastHash /\ Alive(proc)

\* The rung passed: its inbounds are published, then the engine is kept or replaced.
RungAccepted(c) ==
    /\ call[c].pc = "test"
    /\ Accepts(file)
    /\ served' = call[c].cand.tags
    /\ IF Unchanged(c)
       THEN Return(c) /\ UNCHANGED <<proc, engine>>
       ELSE BeginStop(c) /\ UNCHANGED phase
    /\ UNCHANGED <<settingsVars, keys, refused, file, lastHash, crashes>>

\* Mutants: _stop() does not await the process it terminated; it awaits _proc, read again.
StopDoneAtOnce(c) ==
    /\ call[c].pc = "stop"
    /\ proc' = None
    /\ IF phase = "closing"
       THEN /\ call' = [call EXCEPT ![c] = IdleCall]
            /\ phase' = "stopped"
       ELSE /\ call' = [call EXCEPT ![c].pc = "spawn", ![c].waits = None]
            /\ UNCHANGED phase
    /\ UNCHANGED <<settingsVars, keys, refused, file, served, lastHash, engine, crashes>>
StopDoneRereads(c) == proc # None /\ ~Alive(proc) /\ StopDoneAtOnce(c)

\* The awaited process is gone; _stop() clears whatever _proc now is.
StopDone(c) ==
    /\ call[c].pc = "stop"
    /\ ~Alive(call[c].waits)
    /\ proc' = None
    /\ IF phase = "closing"
       THEN /\ call' = [call EXCEPT ![c] = IdleCall]
            /\ phase' = "stopped"
       ELSE /\ call' = [call EXCEPT ![c].pc = "spawn", ![c].waits = None]
            /\ UNCHANGED phase
    /\ UNCHANGED <<settingsVars, keys, refused, file, served, lastHash, engine, crashes>>

\* Five seconds went by: _proc, read again, is killed; if it is None or dead by now, kill() raises.
StopTimeout(c) ==
    /\ call[c].pc = "stop"
    /\ Alive(call[c].waits)
    /\ IF Alive(proc)
       THEN /\ engine' = [engine EXCEPT ![proc] = [st |-> "dead", cfg |-> None]]
            /\ call' = [call EXCEPT ![c].waits = proc]
            /\ UNCHANGED phase
       ELSE /\ call' = [call EXCEPT ![c] = IdleCall]
            /\ phase' = IF phase = "closing" THEN "stopped" ELSE phase
            /\ UNCHANGED engine
    /\ UNCHANGED <<settingsVars, keys, refused, file, served, proc, lastHash, crashes>>

\* create_subprocess_exec, then _proc and _last_hash are assigned.
Spawn(c) ==
    /\ call[c].pc = "spawn"
    /\ \E p \in Procs :
        /\ Free(p)
        /\ engine' = [engine EXCEPT ![p].st = "starting"]
        /\ proc' = p
        /\ call' = [call EXCEPT ![c].pc = "settle", ![c].waits = p]
    /\ lastHash' = call[c].cand
    /\ UNCHANGED <<settingsVars, keys, refused, file, served, phase, crashes>>

\* The quarter second is over (timing assumption: long enough for the new process
\* to have read its config); only the answer to the caller depends on what it sees.
Settle(c) ==
    /\ call[c].pc = "settle"
    /\ engine[call[c].waits].st # "starting"
    /\ Return(c)
    /\ UNCHANGED <<settingsVars, keys, refused, file, served, proc, lastHash, engine, crashes>>

Step(c) ==
    \/ Resume(c)
    \/ KeyGen(c) \/ KeySave(c) \/ KeysEnsured(c)
    \/ RungRefused(c) \/ LadderExhausted(c) \/ RungAccepted(c)
    \/ StopDone(c) \/ StopTimeout(c)
    \/ Spawn(c) \/ Settle(c)

(***************************************************************************)
(* The engine processes (external): one boots from the file as it is then, *)
(* and dies if the build refuses it or another process has the ports.      *)
(***************************************************************************)
Listening(p) == engine[p].cfg # None

EngineBoot(p) ==
    /\ engine[p].st = "starting"
    /\ engine' = [engine EXCEPT ![p] =
          IF Accepts(file) /\ \A q \in Procs : ~Listening(q)
          THEN [st |-> "up", cfg |-> file]
          ELSE [st |-> "dead", cfg |-> None]]
    /\ UNCHANGED <<settingsVars, keys, refused, file, served, proc, lastHash, call, phase, crashes>>

EngineExit(p) ==
    /\ engine[p].st = "term"
    /\ engine' = [engine EXCEPT ![p] = [st |-> "dead", cfg |-> None]]
    /\ UNCHANGED <<settingsVars, keys, refused, file, served, proc, lastHash, call, phase, crashes>>

EngineCrash(p) ==
    /\ engine[p].st = "up"
    /\ crashes < MaxCrashes
    /\ crashes' = crashes + 1
    /\ engine' = [engine EXCEPT ![p] = [st |-> "dead", cfg |-> None]]
    /\ UNCHANGED <<settingsVars, keys, refused, file, served, proc, lastHash, call, phase>>

(***************************************************************************)
(* The admin and the lifespan.                                             *)
(***************************************************************************)
\* What a pool thread writes at any moment, leaving the reload to the loop: the raw
\* endpoint railway_ports() learns (ports.merge drops none), or a user's is_active.
LearnEndpoint ==
    /\ "direct" \in Offered \ wanted
    /\ wanted' = wanted \cup {"direct"}
    /\ UNCHANGED userVars

\* An UPDATE of the user's row writes it anew, behind any of the others.
Rewrite(u) ==
    \E ahead \in SUBSET (Users \ {u}) :
        LET after == Users \ (ahead \cup {u}) IN
        /\ \A v \in ahead, w \in after : <<v, w>> \in before
        /\ before' = {pair \in before : u \notin {pair[1], pair[2]}}
                        \cup (ahead \X {u}) \cup ({u} \X after)

ToggleUser(u) ==
    /\ active' = IF u \in active THEN active \ {u} ELSE active \cup {u}
    /\ left' = IF u \in active THEN [left EXCEPT ![u] = changes + 1] ELSE left
    /\ Rewrite(u)
    /\ UNCHANGED wanted

ThreadWrites ==
    /\ phase = "running"
    /\ changes < MaxChanges
    /\ changes' = changes + 1
    /\ LearnEndpoint \/ \E u \in Users : ToggleUser(u)
    /\ UNCHANGED <<psk, keys, refused, file, served, proc, lastHash, engine, call, phase, crashes>>

\* The metering pass, track() and every edit of a user write other columns of the row.
MeterUser(u) ==
    /\ phase = "running"
    /\ Rewrite(u)
    /\ UNCHANGED <<wanted, active, left, psk, changes, keys, refused, file, served, proc,
                   lastHash, engine, call, phase, crashes>>

\* Shutdown: the server has drained its requests, the loop is cancelled at its
\* await (an executor thread is left to finish first), then _stop() is awaited.
Shutdown ==
    /\ phase = "running"
    /\ \A h \in Handlers : call[h].pc = "idle"
    /\ call[Loop].pc \notin {"keygen", "keysave"}
    /\ IF Alive(proc)
       THEN /\ engine' = [engine EXCEPT ![proc].st = "term"]
            /\ call' = [call EXCEPT ![Loop] = [IdleCall EXCEPT !.pc = "stop", !.waits = proc]]
            /\ phase' = "closing"
            /\ UNCHANGED proc
       ELSE /\ proc' = None
            /\ call' = [call EXCEPT ![Loop] = IdleCall]
            /\ phase' = "stopped"
            /\ UNCHANGED engine
    /\ UNCHANGED <<settingsVars, keys, refused, file, served, lastHash, crashes>>

Terminated == phase = "stopped" /\ UNCHANGED vars

Next ==
    \/ \E c \in Callers : Begin(c) \/ Step(c)
    \/ \E p \in Procs : EngineBoot(p) \/ EngineExit(p) \/ EngineCrash(p)
    \/ \E h \in Handlers : SaveAndReload(h) \/ RotateShadowsocks(h)
    \/ \E u \in Users : MeterUser(u)
    \/ ThreadWrites
    \/ Shutdown
    \/ Terminated

\* The event loop runs every ready coroutine and xray.loop() never ends; engine
\* processes get scheduled.  Nothing is assumed of the admin, crashes or handlers.
Fairness ==
    /\ WF_vars(Begin(Loop))
    /\ \A c \in Callers : WF_vars(Step(c))
    /\ \A p \in Procs : WF_vars(EngineBoot(p) \/ EngineExit(p))

Spec == Init /\ [][Next]_vars
FairSpec == Spec /\ Fairness

(***************************************************************************)
(* What the supervisor promises.                                           *)
(***************************************************************************)
Quiet == \A c \in Callers : call[c].pc = "idle"

\* While no reload is in progress and the engine the module owns is up, every
\* published inbound exists in it ("links are only generated for inbounds that
\* really exist").
PublishedExists ==
    Quiet /\ proc # None /\ engine[proc].st = "up"
        => served \subseteq engine[proc].cfg.tags

\* The settings have not changed since this call began and its rung passed.
Published(c) ==
    /\ call[c].pc \in {"stop", "spawn", "settle"}
    /\ call[c].cand # None
    /\ call[c].since = changes

RefusedWanted == refused \cap ((AllTags \ Optional) \cup wanted)

\* A refused advanced transport never costs the plain Reality node, WARP or the
\* Telegram proxies there are users for: only the advanced half is dropped.
PlainRealitySurvives ==
    \A c \in Callers :
        Published(c) /\ HaveKeys /\ RefusedWanted = {"adv"}
            => (wanted \cap {"warp", "direct"}) \cup TelegramTags \subseteq served

\* Once a complete Reality key pair is saved it is never replaced ("cached in
\* settings so links stay stable"): a link handed out keeps its public key.
KeysStable == [][ HaveKeys => keys' = keys ]_keys

\* After the lifespan ended no engine process is left behind.
NoEngineAfterShutdown == phase = "stopped" => \A p \in Procs : ~Alive(p)

\* The periodic pass leaves an engine alone that already runs the file it would
\* install: it only ever terminates one whose config differs in what it serves or, as
\* the digest is of the text, in the order of the users alone (shutdown aside).
NoSpuriousRestart ==
    [][ \A p \in Procs :
          (engine[p].st = "up" /\ engine'[p].st = "term" /\ phase' = "running"
             /\ call'[Loop].pc = "stop" /\ call'[Loop].waits = p /\ call[Loop].pc = "test")
          => engine[p].cfg # call[Loop].cand ]_vars

\* The credential of a disabled user is revoked ("every other protocol keeps its
\* per-user credential and is therefore revoked simply by disabling the user"): sooner
\* or later no engine lists the user as a client, unless the admin enabled the user
\* again or the service ended.
DisabledRevoked ==
    \A u \in Users :
        (u \notin active) ~>
            \/ u \in active
            \/ phase # "running"
            \/ \A p \in Procs : Listening(p) => u \notin engine[p].cfg.users

\* A Shadowsocks inbound has no client list, so only rotating its key locks a disabled
\* user out ("rotating is the only way to revoke access"): once a cipher's key dates
\* from after the user was disabled, sooner or later every engine that serves the
\* cipher authenticates a key the user was never handed.
RotationRevokes ==
    \A u \in Users, s \in AllCiphers :
        (u \notin active /\ psk[s] > left[u]) ~>
            \/ u \in active
            \/ phase # "running"
            \/ \A p \in Procs :
                   Listening(p) /\ s \in engine[p].cfg.tags => engine[p].cfg.psk[s] > left[u]

\* Every request's reload comes to an end, whatever the other calls do to _proc.
EveryCallReturns ==
    \A h \in Handlers : (call[h].pc # "idle") ~> (call[h].pc = "idle")
=============================================================================
