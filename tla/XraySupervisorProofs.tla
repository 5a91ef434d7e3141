------------------------ MODULE XraySupervisorProofs ------------------------
(***************************************************************************)
(* Proofs about XraySupervisor, for every set of handlers, users, engine   *)
(* processes and ciphers and every bound: the state is well typed, and as  *)
(* long as calls do not overlap at an await (Overlap = FALSE) the safety   *)
(* promises of the supervisor hold.  Orderly is the invariant of the       *)
(* engine, the keys and the file; Rendered, at the end, that of the        *)
(* candidate ladder.                                                       *)
(***************************************************************************)
EXTENDS XraySupervisor, Integers, FiniteSetTheorems, TLAPS

\* A candidate that is being tested was rendered.
Types == TypeOK /\ \A c \in Callers : call[c].pc = "test" => call[c].cand \in Config

-----------------------------------------------------------------------------
(* The invariant of a supervisor whose calls do not overlap.               *)

\* At most one call is in progress.
Serial == \A c, d \in Callers : call[c].pc # "idle" /\ call[d].pc # "idle" => c = d

\* The private half is saved first, and whoever saves the public half found none.
KeysInOrder ==
    /\ keys.pub # None => keys.priv # None
    /\ \A c \in Callers : call[c].pc = "keysave" => keys.priv # None /\ keys.pub = None

\* Before the lifespan's first call returned no handler runs; while it ends only its
\* own _stop() does; the loop forces its first call alone.
Lifespan ==
    /\ phase = "boot" => \A h \in Handlers : call[h].pc = "idle"
    /\ phase = "closing" => \A c \in Callers : call[c].pc \in {"idle", "stop"}
    /\ phase = "stopped" => Quiet /\ proc = None
    /\ phase # "boot" => ~call[Loop].force

\* The reload that _stop() or the spawn belongs to (at shutdown there is none).
Replacing(c) == call[c].pc = "spawn" \/ (call[c].pc = "stop" /\ phase # "closing")

\* The file on disk is the candidate of the call in progress, and what is published
\* its inbounds once it was accepted.
CandidateOnDisk ==
    \A c \in Callers :
        /\ call[c].pc = "test" \/ Replacing(c) => call[c].cand \in Config /\ file = call[c].cand
        /\ Replacing(c) => served = call[c].cand.tags
        /\ call[c].pc = "settle" => file = lastHash

\* Every process that lives is the one in _proc.
Owned ==
    /\ \A p \in Procs : Alive(p) => p = proc
    /\ \A c \in Callers :
        /\ call[c].pc = "stop" => call[c].waits = proc
        /\ call[c].pc = "spawn" => proc = None
        /\ call[c].pc = "settle" => proc # None /\ call[c].waits = proc

\* An engine that is up runs the config whose digest the module remembers.
Remembered ==
    /\ \A p \in Procs : engine[p].st = "starting" => \E c \in Callers : call[c].pc = "settle"
    /\ \A p \in Procs : engine[p].st = "up" => engine[p].cfg = lastHash
    /\ proc # None => lastHash \in Config
    /\ proc # None /\ (\A c \in Callers : call[c].pc # "stop") =>
           served \subseteq lastHash.tags

Orderly == Serial /\ KeysInOrder /\ Lifespan /\ CandidateOnDisk /\ Owned /\ Remembered

-----------------------------------------------------------------------------
(* Types.                                                                  *)

\* What an admin may switch on are inbounds of the ladder.
LEMMA OptionalTags == Offered \subseteq Optional /\ Optional \subseteq AllTags
  BY OfferedAssumption DEF Optional, AllTags

\* Whatever rung the ladder is at, what it renders is a config.
LEMMA RungIsConfig ==
    ASSUME TypeOK, NEW r \in 0..LastRung
    PROVE  Rung(r) \in Config
  <1>1. Len(Ciphers) \in Nat /\ r \in Int
    BY CiphersIsSeq DEF LastRung
  <1>2. Keep(r) \in Int /\ Keep(r) <= Len(Ciphers)
    BY <1>1 DEF Keep
  <1>3. CipherTags(Keep(r)) \subseteq AllTags
    BY <1>1, <1>2 DEF CipherTags, AllTags
  <1>4. wanted \subseteq AllTags /\ DirectTags(r = 1) \subseteq AllTags
    BY OptionalTags DEF TypeOK, DirectTags, AllTags, Optional
  <1>5. RungTags(r) \subseteq AllTags
    BY <1>3, <1>4 DEF RungTags, TelegramTags, AllTags
  <1>6. (IF "direct" \in RungTags(r) THEN keys ELSE NoKeys) \in KeyPair
    BY DEF TypeOK, NoKeys, KeyPair
  <1>7. [s \in AllCiphers |-> IF s \in RungTags(r) THEN psk[s] ELSE 0] \in Psks
    BY BoundsAreNat DEF TypeOK, Psks
  <1>8. before \cap (active \X active) \in SUBSET (Users \X Users) /\ active \in SUBSET Users
    BY DEF TypeOK
  <1>9. QED
    BY <1>5, <1>6, <1>7, <1>8 DEF Rung, Config

\* The fields of a call can be set one by one.
LEMMA CallFields ==
    ASSUME NEW k \in Call, NEW pc \in Pcs, NEW r \in 0..LastRung,
           NEW config \in Config, NEW p \in Procs \cup {None}, NEW b \in BOOLEAN,
           NEW v \in 0..MaxChanges
    PROVE  /\ [k EXCEPT !.pc = pc] \in Call
           /\ [k EXCEPT !.waits = p] \in Call
           /\ [k EXCEPT !.pc = pc, !.waits = p] \in Call
           /\ [k EXCEPT !.pc = pc, !.rung = r, !.cand = config] \in Call
           /\ [k EXCEPT !.force = b, !.since = v] \in Call
  BY DEF Call

\* A call that has not begun.
LEMMA IdleIsCall == IdleCall \in Call
  BY CiphersIsSeq, BoundsAreNat DEF IdleCall, Call, Pcs, LastRung

\* Before the first call.
LEMMA TypesInit == Init => Types
  <1> SUFFICES ASSUME Init PROVE Types
    OBVIOUS
  <1>1. refused \subseteq AllTags /\ wanted \subseteq Offered
    BY BuildsAssumption, StoredAssumption DEF Init
  <1>2. call \in [Callers -> Call]
    BY IdleIsCall DEF Init
  <1>3. before \subseteq Users \X Users
    BY DEF Init, Listings
  <1>4. left \in [Users -> 0..MaxChanges] /\ psk \in Psks
    BY BoundsAreNat DEF Init, Psks
  <1>5. TypeOK
    BY <1>1, <1>2, <1>3, <1>4, BoundsAreNat DEF Init, TypeOK, NoKeys, KeyPair, EngineState
  <1>6. QED
    BY <1>5 DEF Init, Types, IdleCall

\* A call that writes the next candidate goes on to test what it wrote.
LEMMA WriteRungTypes ==
    ASSUME TypeOK, NEW c \in Callers, NEW r \in 0..LastRung, NEW started \in Call,
           WriteRung(c, r, started)
    PROVE  /\ file' \in Config /\ call' \in [Callers -> Call]
           /\ \A d \in Callers \ {c} : call'[d] = call[d]
           /\ call'[c].pc = "test" /\ call'[c].cand = file' /\ call'[c].force = started.force
  <1> DEFINE k == [started EXCEPT !.pc = "test", !.rung = r, !.cand = Rung(r)]
  <1>1. Rung(r) \in Config
    BY RungIsConfig
  <1>2. k \in Call /\ k.pc = "test" /\ k.cand = Rung(r) /\ k.force = started.force
    BY <1>1 DEF Call, Pcs
  <1>3. call' = [call EXCEPT ![c] = k] /\ file' = Rung(r) /\ call \in [Callers -> Call]
    BY DEF WriteRung, TypeOK
  <1>4. QED
    BY <1>1, <1>2, <1>3

\* A call that returns is idle again.
LEMMA ReturnTypes ==
    ASSUME TypeOK, NEW c \in Callers, Return(c)
    PROVE  /\ call' \in [Callers -> Call] /\ phase' \in {"boot", "running", "closing", "stopped"}
           /\ \A d \in Callers \ {c} : call'[d] = call[d]
           /\ call'[c].pc = "idle" /\ ~call'[c].force
  <1>1. IdleCall \in Call /\ IdleCall.pc = "idle" /\ ~IdleCall.force
    BY IdleIsCall DEF IdleCall
  <1>2. QED
    BY <1>1 DEF Return, TypeOK

\* A call that enters start_or_reload ensures the keys or tests the first rung.
LEMMA EnterTypes ==
    ASSUME TypeOK, NEW c \in Callers, Enter(c)
    PROVE  /\ file' \in Config \cup {None} /\ call' \in [Callers -> Call]
           /\ \A d \in Callers \ {c} : call'[d] = call[d]
           /\ call'[c].force = (c # Loop \/ phase = "boot")
           /\ \/ call'[c].pc = "keygen" /\ file' = file
              \/ call'[c].pc = "test" /\ file' \in Config /\ call'[c].cand = file'
  <1> DEFINE force == (c # Loop \/ phase = "boot")
             started == [IdleCall EXCEPT !.force = force, !.since = changes]
  <1>1. started \in Call /\ started.force = force
    <2>1. force \in BOOLEAN /\ changes \in 0..MaxChanges
      BY DEF TypeOK
    <2> HIDE DEF force
    <2>2. QED
      BY <2>1, IdleIsCall DEF Call
  <1> HIDE DEF force
  <1>2. CASE "direct" \in wanted
    <2>1. [started EXCEPT !.pc = "keygen"] \in Call
      BY <1>1 DEF Call, Pcs
    <2>2. call' = [call EXCEPT ![c] = [started EXCEPT !.pc = "keygen"]] /\ file' = file
      BY <1>2 DEF Enter, force
    <2>3. [started EXCEPT !.pc = "keygen"].pc = "keygen" /\ [started EXCEPT !.pc = "keygen"].force = force
      BY <1>1 DEF Call
    <2> HIDE DEF started
    <2>4. QED
      BY <2>1, <2>2, <2>3 DEF TypeOK, force
  <1>3. CASE "direct" \notin wanted
    <2>1. 1 \in 0..LastRung
      BY CiphersIsSeq DEF LastRung
    <2>2. WriteRung(c, 1, started)
      BY <1>3 DEF Enter, force
    <2> HIDE DEF started
    <2>3. QED
      BY <1>1, <2>1, <2>2, WriteRungTypes DEF force
  <1>4. QED
    BY <1>2, <1>3

\* _stop() either waits for the process it terminated or found none alive.
LEMMA BeginStopTypes ==
    ASSUME TypeOK, NEW c \in Callers, BeginStop(c)
    PROVE  /\ proc' \in Procs \cup {None}
           /\ engine' \in [Procs -> EngineState]
           /\ call' \in [Callers -> Call]
           /\ \A d \in Callers \ {c} : call'[d] = call[d]
           /\ call'[c].cand = call[c].cand /\ call'[c].force = call[c].force
           /\ \/ /\ Alive(proc) /\ proc \in Procs /\ proc' = proc
                 /\ call'[c].pc = "stop" /\ call'[c].waits = proc
                 /\ engine'[proc].st = "term"
                 /\ \A p \in Procs \ {proc} : engine'[p] = engine[p]
              \/ ~Alive(proc) /\ proc' = None /\ call'[c].pc = "spawn" /\ engine' = engine
  <1>0. call \in [Callers -> Call] /\ call[c] \in Call /\ engine \in [Procs -> EngineState]
    BY DEF TypeOK
  <1>1. CASE Alive(proc)
    <2> DEFINE k == [call[c] EXCEPT !.pc = "stop", !.waits = proc]
               e == [engine[proc] EXCEPT !.st = "term"]
    <2>1. proc \in Procs /\ proc' = proc
      BY <1>1 DEF BeginStop, Alive, TypeOK
    <2>2. e \in EngineState /\ e.st = "term"
      BY <1>0, <2>1 DEF EngineState
    <2>3. /\ k \in Call /\ k.pc = "stop" /\ k.waits = proc
          /\ k.cand = call[c].cand /\ k.force = call[c].force
      BY <1>0, <2>1 DEF Call, Pcs
    <2>4. call' = [call EXCEPT ![c] = k] /\ engine' = [engine EXCEPT ![proc] = e]
      BY <1>0, <1>1 DEF BeginStop
    <2> HIDE DEF k, e
    <2>5. QED
      BY <1>0, <1>1, <2>1, <2>2, <2>3, <2>4
  <1>2. CASE ~Alive(proc)
    <2> DEFINE k == [call[c] EXCEPT !.pc = "spawn"]
    <2>1. k \in Call /\ k.pc = "spawn" /\ k.cand = call[c].cand /\ k.force = call[c].force
      BY <1>0 DEF Call, Pcs
    <2>2. call' = [call EXCEPT ![c] = k] /\ engine' = engine /\ proc' = None
      BY <1>0, <1>2 DEF BeginStop
    <2> HIDE DEF k
    <2>3. QED
      BY <1>0, <1>2, <2>1, <2>2
  <1>3. QED
    BY <1>1, <1>2

\* A row that is rewritten stays a row.
LEMMA RewriteTypes ==
    ASSUME TypeOK, NEW u \in Users, Rewrite(u)
    PROVE  before' \subseteq Users \X Users
  BY DEF Rewrite, TypeOK

\* Every step of a call keeps the state well typed.
LEMMA TypesStep ==
    ASSUME TypeOK, NEW c \in Callers, Step(c),
           call[c].pc = "test" => call[c].cand \in Config
    PROVE  TypeOK'
  <1> USE DEF settingsVars, userVars
  <1>0. call[c] \in Call
    BY DEF TypeOK
  <1>1. CASE Resume(c)
    BY <1>1, EnterTypes DEF Resume, Enter, TypeOK
  <1>2. CASE KeyGen(c)
    <2>1. [call[c] EXCEPT !.pc = "keysave"] \in Call
      BY <1>0 DEF Call, Pcs
    <2>2. [keys EXCEPT !.priv = c] \in KeyPair
      BY DEF TypeOK, KeyPair
    <2>3. QED
      BY <1>2, <2>1, <2>2 DEF KeyGen, TypeOK
  <1>3. CASE KeySave(c)
    <2>1. [call[c] EXCEPT !.pc = "keygen"] \in Call
      BY <1>0 DEF Call, Pcs
    <2>2. [keys EXCEPT !.pub = c] \in KeyPair
      BY DEF TypeOK, KeyPair
    <2>3. QED
      BY <1>3, <2>1, <2>2 DEF KeySave, TypeOK
  <1>4. CASE KeysEnsured(c)
    <2>1. 1 \in 0..LastRung
      BY CiphersIsSeq DEF LastRung
    <2>2. file' \in Config /\ call' \in [Callers -> Call]
      BY <1>0, <1>4, <2>1, WriteRungTypes DEF KeysEnsured
    <2>3. QED
      BY <1>4, <2>2 DEF KeysEnsured, TypeOK
  <1>5. CASE RungRefused(c)
    <2>1. NextRung(c) \in 0..LastRung
      BY <1>0, <1>5, CiphersIsSeq DEF RungRefused, NextRung, LastRung, Call
    <2>2. file' \in Config /\ call' \in [Callers -> Call]
      BY <1>0, <1>5, <2>1, WriteRungTypes DEF RungRefused
    <2>3. QED
      BY <1>5, <2>2 DEF RungRefused, TypeOK
  <1>6. CASE LadderExhausted(c)
    <2>1. call' \in [Callers -> Call] /\ phase' \in {"boot", "running", "closing", "stopped"}
      BY <1>6, ReturnTypes DEF LadderExhausted
    <2>2. QED
      BY <1>6, <2>1 DEF LadderExhausted, TypeOK
  <1>7. CASE RungAccepted(c)
    <2>1. served' \in (SUBSET AllTags) \cup {None}
      BY <1>7 DEF RungAccepted, Config
    <2>2. CASE Unchanged(c)
      BY <1>7, <2>1, <2>2, ReturnTypes DEF RungAccepted, TypeOK
    <2>3. CASE ~Unchanged(c)
      BY <1>7, <2>1, <2>3, BeginStopTypes DEF RungAccepted, TypeOK
    <2>4. QED
      BY <2>2, <2>3
  <1>8. CASE StopDone(c)
    <2>1. [call[c] EXCEPT !.pc = "spawn", !.waits = None] \in Call
      BY <1>0 DEF Call, Pcs
    <2>2. call' \in [Callers -> Call]
      BY <1>8, <2>1, IdleIsCall DEF StopDone, TypeOK
    <2>3. QED
      BY <1>8, <2>2 DEF StopDone, TypeOK
  <1>9. CASE StopTimeout(c)
    <2>1. CASE Alive(proc)
      <3>1. proc \in Procs
        BY <2>1 DEF Alive, TypeOK
      <3>2. [call[c] EXCEPT !.waits = proc] \in Call
        BY <1>0, <3>1 DEF Call
      <3>3. [st |-> "dead", cfg |-> None] \in EngineState
        BY DEF EngineState
      <3>4. QED
        BY <1>9, <2>1, <3>1, <3>2, <3>3 DEF StopTimeout, TypeOK
    <2>2. CASE ~Alive(proc)
      BY <1>9, <2>2, IdleIsCall DEF StopTimeout, TypeOK
    <2>3. QED
      BY <2>1, <2>2
  <1>10. CASE Spawn(c)
    <2>1. PICK p \in Procs : /\ engine' = [engine EXCEPT ![p].st = "starting"]
                             /\ proc' = p
                             /\ call' = [call EXCEPT ![c].pc = "settle", ![c].waits = p]
      BY <1>10 DEF Spawn
    <2>2. [engine[p] EXCEPT !.st = "starting"] \in EngineState
      BY DEF TypeOK, EngineState
    <2>3. [call[c] EXCEPT !.pc = "settle", !.waits = p] \in Call
      BY <1>0 DEF Call, Pcs
    <2>4. call' = [call EXCEPT ![c] = [call[c] EXCEPT !.pc = "settle", !.waits = p]]
      BY <2>1 DEF TypeOK
    <2>5. lastHash' \in Config \cup {None}
      BY <1>0, <1>10 DEF Spawn, Call
    <2>6. QED
      BY <1>10, <2>1, <2>2, <2>3, <2>4, <2>5 DEF Spawn, TypeOK
  <1>11. CASE Settle(c)
    <2>1. call' \in [Callers -> Call] /\ phase' \in {"boot", "running", "closing", "stopped"}
      BY <1>11, ReturnTypes DEF Settle
    <2>2. QED
      BY <1>11, <2>1 DEF Settle, TypeOK
  <1>12. QED
    BY <1>1, <1>2, <1>3, <1>4, <1>5, <1>6, <1>7, <1>8, <1>9, <1>10, <1>11 DEF Step
\* ... as does everything else that happens.
LEMMA TypesNext ==
    ASSUME Types, [Next]_vars
    PROVE  TypeOK'
  <1> USE DEF settingsVars, userVars
  <1>0. TypeOK
    BY DEF Types
  <1>1. ASSUME NEW c \in Callers, Begin(c)
        PROVE  TypeOK'
    BY <1>0, <1>1, EnterTypes DEF Begin, Enter, TypeOK
  <1>2. ASSUME NEW c \in Callers, Step(c)
        PROVE  TypeOK'
    BY <1>0, <1>2, TypesStep DEF Types
  <1>3. ASSUME NEW p \in Procs, EngineBoot(p) \/ EngineExit(p) \/ EngineCrash(p)
        PROVE  TypeOK'
    <2>1. [st |-> "dead", cfg |-> None] \in EngineState
      BY DEF EngineState
    <2>3. CASE EngineBoot(p)
      <3>1. [st |-> "up", cfg |-> file] \in EngineState
        BY <1>0 DEF EngineState, TypeOK
      <3>2. QED
        BY <1>0, <2>1, <2>3, <3>1 DEF EngineBoot, TypeOK
    <2>4. CASE EngineExit(p)
      BY <1>0, <2>1, <2>4 DEF EngineExit, TypeOK
    <2>5. CASE EngineCrash(p)
      BY <1>0, <2>1, <2>5, BoundsAreNat DEF EngineCrash, TypeOK
    <2>6. QED
      BY <1>3, <2>3, <2>4, <2>5
  <1>4. ASSUME NEW h \in Handlers, SaveAndReload(h)
        PROVE  TypeOK'
    <2>1. h \in Callers /\ [call[h] EXCEPT !.pc = "saved"] \in Call
      BY <1>0 DEF TypeOK, Call, Pcs, Callers
    <2>2. changes' \in 0..MaxChanges
      BY <1>0, <1>4, BoundsAreNat DEF SaveAndReload, TypeOK
    <2>3. QED
      BY <1>0, <1>4, <2>1, <2>2 DEF SaveAndReload, TypeOK
  <1>5. CASE ThreadWrites
    <2>1. changes' \in 0..MaxChanges /\ changes' = changes + 1
      BY <1>0, <1>5, BoundsAreNat DEF ThreadWrites, TypeOK
    <2>2. wanted' \subseteq Offered /\ active' \subseteq Users
      BY <1>0, <1>5 DEF ThreadWrites, LearnEndpoint, ToggleUser, TypeOK
    <2>3. before' \subseteq Users \X Users
      BY <1>0, <1>5, RewriteTypes DEF ThreadWrites, LearnEndpoint, ToggleUser, userVars, TypeOK
    <2>4. left' \in [Users -> 0..MaxChanges]
      BY <1>0, <1>5, <2>1 DEF ThreadWrites, LearnEndpoint, ToggleUser, userVars, TypeOK
    <2>5. QED
      BY <1>0, <1>5, <2>1, <2>2, <2>3, <2>4 DEF ThreadWrites, TypeOK
  <1>6. CASE Shutdown
    <2>1. CASE Alive(proc)
      <3>1. proc \in Procs
        BY <1>0, <2>1 DEF Alive, TypeOK
      <3>2. [engine[proc] EXCEPT !.st = "term"] \in EngineState
        BY <1>0, <3>1 DEF TypeOK, EngineState
      <3>3. [IdleCall EXCEPT !.pc = "stop", !.waits = proc] \in Call
        BY <3>1, IdleIsCall DEF Call, Pcs
      <3>4. QED
        BY <1>0, <1>6, <2>1, <3>1, <3>2, <3>3 DEF Shutdown, TypeOK
    <2>2. CASE ~Alive(proc)
      BY <1>0, <1>6, <2>2, IdleIsCall DEF Shutdown, TypeOK
    <2>3. QED
      BY <2>1, <2>2
  <1>7. CASE UNCHANGED vars
    BY <1>0, <1>7 DEF vars, TypeOK
  <1>8. ASSUME NEW h \in Handlers, RotateShadowsocks(h)
        PROVE  TypeOK'
    <2>1. h \in Callers /\ [call[h] EXCEPT !.pc = "saved"] \in Call
      BY <1>0 DEF TypeOK, Call, Pcs, Callers
    <2>2. changes' \in 0..MaxChanges /\ changes' = changes + 1
      BY <1>0, <1>8, BoundsAreNat DEF RotateShadowsocks, TypeOK
    <2>3. psk' \in Psks
      BY <1>0, <1>8, <2>2 DEF RotateShadowsocks, Psks, TypeOK
    <2>4. QED
      BY <1>0, <1>8, <2>1, <2>2, <2>3 DEF RotateShadowsocks, TypeOK
  <1>9. ASSUME NEW u \in Users, MeterUser(u)
        PROVE  TypeOK'
    BY <1>0, <1>9, RewriteTypes DEF MeterUser, TypeOK
  <1>10. QED
    BY <1>1, <1>2, <1>3, <1>4, <1>5, <1>6, <1>7, <1>8, <1>9 DEF Next, Terminated

\* A call that comes to a test comes with a rendered candidate.
LEMMA CandidateNext ==
    ASSUME Types, [Next]_vars, NEW d \in Callers, call'[d].pc = "test"
    PROVE  call'[d].cand \in Config
  <1> USE DEF settingsVars, userVars
  <1>0. TypeOK /\ call \in [Callers -> Call]
    BY DEF Types, TypeOK
  <1>1. CASE call'[d] = call[d]
    BY <1>1 DEF Types
  <1>2. ASSUME NEW c \in Callers, Enter(c)
        PROVE  call'[d].cand \in Config
    BY <1>0, <1>1, <1>2, EnterTypes
  <1>3. ASSUME NEW c \in Callers, NEW r \in 0..LastRung, WriteRung(c, r, call[c])
        PROVE  call'[d].cand \in Config
    BY <1>0, <1>1, <1>3, WriteRungTypes
  <1>4. ASSUME NEW c \in Callers, Return(c)
        PROVE  call'[d].cand \in Config
    BY <1>0, <1>1, <1>4, ReturnTypes
  <1>5. ASSUME NEW c \in Callers, Step(c)
        PROVE  call'[d].cand \in Config
    <2>0. call[c] \in Call
      BY <1>0
    <2>1. CASE Resume(c)
      BY <1>2, <2>1 DEF Resume
    <2>2. CASE KeyGen(c) \/ KeySave(c)
      BY <1>0, <1>1, <2>0, <2>2 DEF KeyGen, KeySave, Call
    <2>3. CASE KeysEnsured(c)
      BY <1>3, <2>3, CiphersIsSeq DEF KeysEnsured, LastRung
    <2>4. CASE RungRefused(c)
      <3>1. NextRung(c) \in 0..LastRung
        BY <2>0, <2>4, CiphersIsSeq DEF RungRefused, NextRung, LastRung, Call
      <3>2. QED
        BY <1>3, <2>4, <3>1 DEF RungRefused
    <2>5. CASE LadderExhausted(c) \/ Settle(c)
      BY <1>4, <2>5 DEF LadderExhausted, Settle
    <2>6. CASE RungAccepted(c)
      BY <1>0, <1>1, <1>4, <2>6, BeginStopTypes DEF RungAccepted
    <2>7. CASE StopDone(c)
      BY <1>0, <1>1, <2>0, <2>7 DEF StopDone, IdleCall, Call
    <2>8. CASE StopTimeout(c)
      BY <1>0, <1>1, <2>0, <2>8 DEF StopTimeout, IdleCall, Call
    <2>9. CASE Spawn(c)
      BY <1>0, <1>1, <2>0, <2>9 DEF Spawn, Call
    <2>10. QED
      BY <1>5, <2>1, <2>2, <2>3, <2>4, <2>5, <2>6, <2>7, <2>8, <2>9 DEF Step
  <1>6. CASE \E h \in Handlers : SaveAndReload(h) \/ RotateShadowsocks(h)
    BY <1>0, <1>1, <1>6 DEF SaveAndReload, RotateShadowsocks, Call, Callers
  <1>7. CASE Shutdown
    <2> DEFINE k == [IdleCall EXCEPT !.pc = "stop", !.waits = proc]
    <2>1. IdleCall.pc = "idle" /\ k.pc = "stop" /\ Loop \in Callers
      BY DEF IdleCall, Callers
    <2>2. call' = [call EXCEPT ![Loop] = k] \/ call' = [call EXCEPT ![Loop] = IdleCall]
      BY <1>7 DEF Shutdown
    <2> HIDE DEF k
    <2>3. QED
      BY <1>0, <1>1, <2>1, <2>2
  <1>8. CASE UNCHANGED call
    BY <1>1, <1>8
  <1>9. QED
    BY <1>2, <1>5, <1>6, <1>7, <1>8
       DEF Next, vars, Begin, EngineBoot, EngineExit, EngineCrash, ThreadWrites, MeterUser,
           Terminated

-----------------------------------------------------------------------------
(* Calls that do not overlap.                                              *)

\* While one call is in progress all others are idle; so they stay in its step.
LEMMA OthersIdle ==
    ASSUME Serial, NEW c \in Callers, call[c].pc # "idle"
    PROVE  \A d \in Callers \ {c} : call[d].pc = "idle"
  BY DEF Serial

\* No call is in progress, and no engine was started.
LEMMA OrderlyInit == Init => Orderly
  BY DEF Init, Orderly, Serial, KeysInOrder, Lifespan, CandidateOnDisk, Owned, Remembered,
         IdleCall, NoKeys, Alive, Quiet, Callers, Replacing

\* A call enters start_or_reload: first the keys, or the first rung.
LEMMA OrderlyEnter ==
    ASSUME TypeOK, Orderly, NEW c \in Callers, Enter(c),
           call[c].pc \in {"idle", "saved"},
           \A d \in Callers \ {c} : call[d].pc = "idle",
           phase = "running" \/ (phase = "boot" /\ c = Loop)
    PROVE  Orderly'
  <1>1. /\ \A d \in Callers \ {c} : call'[d].pc = "idle" /\ call'[d] = call[d]
        /\ call'[c].force = (c # Loop \/ phase = "boot")
        /\ \/ call'[c].pc = "keygen" /\ file' = file
           \/ call'[c].pc = "test" /\ file' \in Config /\ call'[c].cand = file'
    BY EnterTypes
  <1>2. UNCHANGED <<keys, served, proc, lastHash, engine, phase>>
    BY DEF Enter
  <1>3. Serial'
    BY <1>1 DEF Serial
  <1>4. KeysInOrder'
    BY <1>1, <1>2 DEF Orderly, KeysInOrder
  <1>5. Lifespan'
    BY <1>1, <1>2, LoopIsNoHandler DEF Orderly, Lifespan, Callers, Quiet
  <1>6. CandidateOnDisk'
    BY <1>1, <1>2 DEF Orderly, CandidateOnDisk, Replacing
  <1>7. Owned'
    BY <1>1, <1>2 DEF Orderly, Owned, Alive
  <1>8. Remembered'
    BY <1>1, <1>2 DEF Orderly, Remembered
  <1>9. QED
    BY <1>3, <1>4, <1>5, <1>6, <1>7, <1>8 DEF Orderly
\* A step of the one call in progress.
LEMMA OrderlyStep ==
    ASSUME TypeOK, Orderly, NEW c \in Callers, Step(c)
    PROVE  Orderly'
  <1> USE DEF settingsVars, userVars
  <1>0. call \in [Callers -> Call] /\ call[c] \in Call /\ keys \in KeyPair
    BY DEF TypeOK
  <1>a. call[c].pc # "idle"
    BY DEF Step, Resume, KeyGen, KeySave, KeysEnsured, RungRefused, LadderExhausted,
           RungAccepted, StopDone, StopTimeout, Spawn, Settle
  <1>b. \A d \in Callers \ {c} : call[d].pc = "idle"
    BY <1>a, OthersIdle DEF Orderly
  <1>1. CASE Resume(c)
    <2>1. phase = "running" \/ (phase = "boot" /\ c = Loop)
      BY <1>1 DEF Resume, Orderly, Lifespan, Quiet, TypeOK, Callers
    <2>2. QED
      BY <1>1, <1>b, <2>1, OrderlyEnter DEF Resume
  <1>2. CASE KeyGen(c)
    <2>1. /\ \A d \in Callers \ {c} : call'[d].pc = "idle" /\ call'[d] = call[d]
          /\ call'[c].pc = "keysave" /\ call'[c].force = call[c].force
      BY <1>0, <1>b, <1>2 DEF KeyGen, Call
    <2>2. keys'.priv = c /\ keys'.pub = keys.pub /\ ~HaveKeys /\ call[c].pc = "keygen"
      BY <1>0, <1>2 DEF KeyGen, KeyPair
    <2>3. UNCHANGED <<file, served, proc, lastHash, engine, phase>>
      BY <1>2 DEF KeyGen
    <2>6. QED
      BY <1>b, <2>1, <2>2, <2>3, NoneIsNoCaller
         DEF Orderly, Serial, KeysInOrder, HaveKeys, Callers,
             Lifespan, Quiet, CandidateOnDisk, Replacing, Owned, Alive, Remembered
  <1>3. CASE KeySave(c)
    <2>1. /\ \A d \in Callers \ {c} : call'[d].pc = "idle" /\ call'[d] = call[d]
          /\ call'[c].pc = "keygen" /\ call'[c].force = call[c].force
      BY <1>0, <1>b, <1>3 DEF KeySave, Call
    <2>2. keys'.priv = keys.priv /\ call[c].pc = "keysave"
      BY <1>0, <1>3 DEF KeySave, KeyPair
    <2>3. UNCHANGED <<file, served, proc, lastHash, engine, phase>>
      BY <1>3 DEF KeySave
    <2>6. QED
      BY <1>b, <2>1, <2>2, <2>3
         DEF Orderly, Serial, KeysInOrder, HaveKeys, Lifespan,
             Callers, Quiet, CandidateOnDisk, Replacing, Owned, Alive, Remembered
  <1>4. CASE KeysEnsured(c) \/ RungRefused(c)
    <2>1. PICK r \in 0..LastRung : WriteRung(c, r, call[c])
      <3>1. 1 \in 0..LastRung
        BY CiphersIsSeq DEF LastRung
      <3>2. RungRefused(c) => NextRung(c) \in 0..LastRung
        BY <1>0, CiphersIsSeq DEF RungRefused, NextRung, LastRung, Call
      <3>3. QED
        BY <1>4, <3>1, <3>2 DEF KeysEnsured, RungRefused
    <2>2. /\ file' \in Config
          /\ \A d \in Callers \ {c} : call'[d].pc = "idle" /\ call'[d] = call[d]
          /\ call'[c].pc = "test" /\ call'[c].cand = file' /\ call'[c].force = call[c].force
      BY <1>0, <1>b, <2>1, WriteRungTypes
    <2>3. UNCHANGED <<keys, served, proc, lastHash, engine, phase>> /\ call[c].pc \in {"keygen", "test"}
      BY <1>4 DEF KeysEnsured, RungRefused
    <2>6. QED
      BY <1>b, <2>2, <2>3
         DEF Orderly, Serial, KeysInOrder, HaveKeys, Lifespan,
             Callers, Quiet, CandidateOnDisk, Replacing, Owned, Alive, Remembered
  <1>5. CASE LadderExhausted(c) \/ Settle(c)
    <2>1. Return(c) /\ (served' = {} \/ served' = served) /\ call[c].pc \in {"test", "settle"}
      BY <1>5 DEF LadderExhausted, Settle
    <2>2. /\ \A d \in Callers \ {c} : call'[d].pc = "idle" /\ call'[d] = call[d]
          /\ call'[c].pc = "idle" /\ ~call'[c].force
          /\ phase' = IF phase = "boot" THEN "running" ELSE phase
      BY <1>b, <2>1, ReturnTypes DEF Return
    <2>3. UNCHANGED <<keys, file, proc, lastHash, engine>>
      BY <1>5 DEF LadderExhausted, Settle
    <2>4. call[c].pc = "settle" => \A p \in Procs : engine[p].st # "starting"
      BY <1>5, NoneIsNoProcess DEF Settle, LadderExhausted, Orderly, Owned, Alive
    <2>6. QED
      BY <1>b, <2>1, <2>2, <2>3, <2>4
         DEF Orderly, Serial, KeysInOrder, HaveKeys, Lifespan,
             Callers, Quiet, CandidateOnDisk, Replacing, Owned, Alive, Remembered
  <1>6. CASE RungAccepted(c)
    <2>1. /\ call[c].pc = "test" /\ call[c].cand \in Config /\ file = call[c].cand
          /\ served' = call[c].cand.tags /\ phase # "closing"
          /\ UNCHANGED <<keys, file, lastHash>>
      BY <1>6 DEF RungAccepted, Orderly, CandidateOnDisk, Lifespan
    <2>2. \A p \in Procs : engine[p].st # "starting"
      BY <1>b, <2>1 DEF Orderly, Remembered
    <2>3. CASE Unchanged(c)
      <3>1. /\ \A d \in Callers \ {c} : call'[d].pc = "idle" /\ call'[d] = call[d]
            /\ call'[c].pc = "idle" /\ ~call'[c].force
            /\ phase' = IF phase = "boot" THEN "running" ELSE phase
        BY <1>b, <1>6, <2>3, ReturnTypes DEF RungAccepted, Return
      <3>2. UNCHANGED <<proc, engine>> /\ lastHash = call[c].cand
        BY <1>6, <2>3 DEF RungAccepted, Unchanged
      <3>6. QED
        BY <1>b, <2>1, <2>2, <3>1, <3>2
           DEF Orderly, Serial, KeysInOrder, HaveKeys, Lifespan,
               Callers, Quiet, CandidateOnDisk, Replacing, Owned, Alive, Remembered
    <2>4. CASE ~Unchanged(c)
      <3>1. BeginStop(c) /\ UNCHANGED phase
        BY <1>6, <2>4 DEF RungAccepted
      <3>2. /\ \A d \in Callers \ {c} : call'[d].pc = "idle" /\ call'[d] = call[d]
            /\ call'[c].cand = call[c].cand /\ call'[c].force = call[c].force
            /\ \/ /\ Alive(proc) /\ proc \in Procs /\ proc' = proc
                  /\ call'[c].pc = "stop" /\ call'[c].waits = proc
                  /\ engine'[proc].st = "term"
                  /\ \A p \in Procs \ {proc} : engine'[p] = engine[p]
               \/ ~Alive(proc) /\ proc' = None /\ call'[c].pc = "spawn" /\ engine' = engine
        BY <1>b, <3>1, BeginStopTypes
      <3>6. QED
        BY <1>b, <2>1, <2>2, <3>1, <3>2, NoneIsNoProcess
           DEF Orderly, Serial, KeysInOrder, HaveKeys, Lifespan,
               Callers, Quiet, CandidateOnDisk, Replacing, Owned, Alive, Remembered
    <2>5. QED
      BY <2>3, <2>4
  <1>7. CASE StopDone(c)
    <2>1. /\ call[c].pc = "stop" /\ proc' = None
          /\ UNCHANGED <<keys, file, served, lastHash, engine>>
      BY <1>7 DEF StopDone
    <2>2. \A p \in Procs : ~Alive(p)
      BY <1>7 DEF StopDone, Orderly, Owned
    <2>3. CASE phase = "closing"
      <3>1. /\ \A d \in Callers \ {c} : call'[d].pc = "idle" /\ call'[d] = call[d]
            /\ call'[c].pc = "idle" /\ ~call'[c].force /\ phase' = "stopped"
        BY <1>0, <1>b, <1>7, <2>3 DEF StopDone, IdleCall
      <3>6. QED
        BY <1>b, <2>1, <2>2, <2>3, <3>1, NoneIsNoProcess
           DEF Orderly, Serial, KeysInOrder, HaveKeys, Lifespan,
               Callers, Quiet, CandidateOnDisk, Replacing, Owned, Alive, Remembered
    <2>4. CASE phase # "closing"
      <3>1. /\ \A d \in Callers \ {c} : call'[d].pc = "idle" /\ call'[d] = call[d]
            /\ call'[c].pc = "spawn" /\ call'[c].cand = call[c].cand
            /\ call'[c].force = call[c].force /\ UNCHANGED phase
        BY <1>0, <1>b, <1>7, <2>4 DEF StopDone, Call
      <3>6. QED
        BY <1>b, <2>1, <2>2, <2>4, <3>1, NoneIsNoProcess
           DEF Orderly, Serial, KeysInOrder, HaveKeys, Lifespan,
               Callers, Quiet, CandidateOnDisk, Replacing, Owned, Alive, Remembered
    <2>5. QED
      BY <2>3, <2>4
  <1>8. CASE StopTimeout(c)
    <2>1. /\ call[c].pc = "stop" /\ call[c].waits = proc /\ Alive(proc) /\ proc \in Procs
          /\ UNCHANGED <<keys, file, served, proc, lastHash, phase>>
      BY <1>8 DEF StopTimeout, Orderly, Owned, Alive, TypeOK
    <2>2. /\ \A d \in Callers \ {c} : call'[d].pc = "idle" /\ call'[d] = call[d]
          /\ call'[c].pc = "stop" /\ call'[c].cand = call[c].cand
          /\ call'[c].waits = proc /\ call'[c].force = call[c].force
      BY <1>0, <1>b, <1>8, <2>1 DEF StopTimeout, Call
    <2>3. engine'[proc].st = "dead" /\ \A p \in Procs \ {proc} : engine'[p] = engine[p]
      BY <1>8, <2>1 DEF StopTimeout, TypeOK
    <2>6. QED
      BY <1>b, <2>1, <2>2, <2>3
         DEF Orderly, Serial, KeysInOrder, HaveKeys, Lifespan,
             Callers, Quiet, CandidateOnDisk, Replacing, Owned, Alive, Remembered
  <1>9. CASE Spawn(c)
    <2>1. PICK p \in Procs : /\ engine' = [engine EXCEPT ![p].st = "starting"]
                             /\ proc' = p
                             /\ call' = [call EXCEPT ![c].pc = "settle", ![c].waits = p]
      BY <1>9 DEF Spawn
    <2>2. /\ \A d \in Callers \ {c} : call'[d].pc = "idle" /\ call'[d] = call[d]
          /\ call'[c].pc = "settle" /\ call'[c].waits = p /\ call'[c].force = call[c].force
      BY <1>0, <1>b, <2>1 DEF Call
    <2>3. engine'[p].st = "starting" /\ \A q \in Procs \ {p} : engine'[q] = engine[q]
      BY <2>1 DEF TypeOK, EngineState
    <2>4. /\ call[c].pc = "spawn" /\ lastHash' = call[c].cand
          /\ UNCHANGED <<keys, file, served, phase>>
      BY <1>9 DEF Spawn
    <2>5. \A q \in Procs : ~Alive(q)
      BY <2>4, NoneIsNoProcess DEF Orderly, Owned, Alive
    <2>6. Serial' /\ KeysInOrder' /\ Lifespan'
      BY <1>b, <2>1, <2>2, <2>4 DEF Orderly, Serial, KeysInOrder, HaveKeys, Lifespan, Callers, Quiet
    <2>7. CandidateOnDisk'
      BY <1>b, <2>1, <2>2, <2>4 DEF Orderly, CandidateOnDisk, Replacing, Callers
    <2>8. Owned'
      BY <1>b, <2>1, <2>2, <2>3, <2>5, NoneIsNoProcess DEF Orderly, Owned, Alive, Callers
    <2>9. Remembered'
      BY <1>b, <2>1, <2>2, <2>3, <2>4, <2>5, NoneIsNoProcess
         DEF Orderly, CandidateOnDisk, Replacing, Owned, Alive, Remembered, Callers
    <2>10. QED
      BY <2>6, <2>7, <2>8, <2>9 DEF Orderly
  <1>10. QED
    BY <1>1, <1>2, <1>3, <1>4, <1>5, <1>6, <1>7, <1>8, <1>9 DEF Step
\* Every step of the system, as long as calls begin one at a time.
LEMMA OrderlyNext ==
    ASSUME ~Overlap, Types, Orderly, [Next]_vars
    PROVE  Orderly'
  <1> USE DEF settingsVars, userVars
  <1>0. TypeOK /\ call \in [Callers -> Call] /\ engine \in [Procs -> EngineState]
    BY DEF Types, TypeOK
  <1>1. ASSUME NEW c \in Callers, Begin(c)
        PROVE  Orderly'
    BY <1>0, <1>1, OrderlyEnter DEF Begin, CanBegin
  <1>2. ASSUME NEW c \in Callers, Step(c)
        PROVE  Orderly'
    BY <1>0, <1>2, OrderlyStep
  <1>3. ASSUME NEW p \in Procs, EngineBoot(p)
        PROVE  Orderly'
    <2>1. /\ UNCHANGED <<keys, file, served, proc, lastHash, call, phase>>
          /\ engine[p].st = "starting"
          /\ \A q \in Procs \ {p} : engine'[q] = engine[q]
          /\ engine'[p] = [st |-> "up", cfg |-> file] \/ engine'[p] = [st |-> "dead", cfg |-> None]
      BY <1>0, <1>3 DEF EngineBoot
    <2>2. file = lastHash
      BY <2>1 DEF Orderly, Remembered, CandidateOnDisk
    <2>6. QED
      BY <2>1, <2>2
         DEF Orderly, Serial, KeysInOrder, HaveKeys, Lifespan,
             Callers, Quiet, CandidateOnDisk, Replacing, Owned, Alive, Remembered
  <1>4. ASSUME NEW p \in Procs, EngineExit(p) \/ EngineCrash(p)
        PROVE  Orderly'
    <2>1. /\ UNCHANGED <<keys, file, served, proc, lastHash, call, phase>>
          /\ \A q \in Procs \ {p} : engine'[q] = engine[q]
          /\ engine'[p] = [st |-> "dead", cfg |-> None]
      BY <1>0, <1>4 DEF EngineExit, EngineCrash
    <2>6. QED
      BY <2>1
         DEF Orderly, Serial, KeysInOrder, HaveKeys, Lifespan,
             Callers, Quiet, CandidateOnDisk, Replacing, Owned, Alive, Remembered
  <1>5. ASSUME NEW h \in Handlers, SaveAndReload(h) \/ RotateShadowsocks(h)
        PROVE  Orderly'
    <2>1. /\ h \in Callers /\ h # Loop /\ phase = "running"
          /\ \A d \in Callers : call[d].pc = "idle"
      BY <1>5, LoopIsNoHandler DEF SaveAndReload, RotateShadowsocks, CanBegin, Callers
    <2>2. /\ \A d \in Callers \ {h} : call'[d] = call[d] /\ call'[d].pc = "idle"
          /\ call'[h].pc = "saved"
          /\ UNCHANGED <<keys, file, served, proc, lastHash, engine, phase>>
      BY <1>0, <1>5, <2>1 DEF SaveAndReload, RotateShadowsocks, Call
    <2>6. QED
      BY <2>1, <2>2
         DEF Orderly, Serial, KeysInOrder, HaveKeys, Lifespan,
             Callers, Quiet, CandidateOnDisk, Replacing, Owned, Alive, Remembered
  <1>6. CASE ThreadWrites \/ \E u \in Users : MeterUser(u)
    <2>1. UNCHANGED <<keys, file, served, proc, lastHash, engine, call, phase>>
      BY <1>6 DEF ThreadWrites, MeterUser
    <2>6. QED
      BY <2>1
         DEF Orderly, Serial, KeysInOrder, HaveKeys, Lifespan,
             Callers, Quiet, CandidateOnDisk, Replacing, Owned, Alive, Remembered
  <1>7. CASE Shutdown
    <2>1. /\ \A d \in Callers \ {Loop} : call'[d] = call[d] /\ call'[d].pc = "idle"
          /\ ~call'[Loop].force /\ Loop \in Callers
          /\ UNCHANGED <<keys, file, served, lastHash>>
      <3> DEFINE k == [IdleCall EXCEPT !.pc = "stop", !.waits = proc]
      <3>1. ~IdleCall.force /\ ~k.force
        BY DEF IdleCall
      <3>2. /\ UNCHANGED <<keys, file, served, lastHash>>
            /\ \A d \in Callers \ {Loop} : call[d].pc = "idle"
            /\ call' = [call EXCEPT ![Loop] = k] \/ call' = [call EXCEPT ![Loop] = IdleCall]
        BY <1>7 DEF Shutdown, Callers
      <3> HIDE DEF k
      <3>3. QED
        BY <1>0, <3>1, <3>2 DEF Callers
    <2>2. CASE Alive(proc)
      <3>1. /\ call'[Loop].pc = "stop" /\ call'[Loop].waits = proc
            /\ phase' = "closing" /\ proc' = proc /\ proc \in Procs
        BY <1>0, <1>7, <2>1, <2>2 DEF Shutdown, IdleCall, Alive, TypeOK
      <3>2. engine'[proc].st = "term" /\ \A p \in Procs \ {proc} : engine'[p] = engine[p]
        BY <1>0, <1>7, <2>2, <3>1 DEF Shutdown, EngineState
      <3>6. QED
        BY <2>1, <3>1, <3>2, <2>2, NoneIsNoProcess
           DEF Orderly, Serial, KeysInOrder, HaveKeys, Lifespan,
               Callers, Quiet, CandidateOnDisk, Replacing, Owned, Alive, Remembered
    <2>3. CASE ~Alive(proc)
      <3>1. /\ call'[Loop].pc = "idle" /\ phase' = "stopped" /\ proc' = None
            /\ UNCHANGED engine
        BY <1>0, <1>7, <2>1, <2>3 DEF Shutdown, IdleCall
      <3>2. \A p \in Procs : ~Alive(p)
        BY <2>3 DEF Orderly, Owned
      <3>6. QED
        BY <2>1, <3>1, <3>2, NoneIsNoProcess
           DEF Orderly, Serial, KeysInOrder, HaveKeys, Lifespan,
               Callers, Quiet, CandidateOnDisk, Replacing, Owned, Alive, Remembered
    <2>4. QED
      BY <2>2, <2>3
  <1>8. CASE UNCHANGED vars
    <2>1. UNCHANGED <<keys, file, served, proc, lastHash, engine, call, phase>>
      BY <1>8 DEF vars
    <2>6. QED
      BY <2>1
         DEF Orderly, Serial, KeysInOrder, HaveKeys, Lifespan,
             Callers, Quiet, CandidateOnDisk, Replacing, Owned, Alive, Remembered
  <1>9. QED
    BY <1>1, <1>2, <1>3, <1>4, <1>5, <1>6, <1>7, <1>8 DEF Next, Terminated
-----------------------------------------------------------------------------
(* The theorems.                                                           *)

\* Typing needs no assumption on how calls interleave; the rest of the invariant holds
\* as long as they do not overlap.
Invariant == Types /\ (~Overlap => Orderly)

\* The invariant of every reachable state.
LEMMA InvariantHolds == Spec => []Invariant
  <1>1. Init => Invariant
    BY TypesInit, OrderlyInit DEF Invariant
  <1>2. Invariant /\ [Next]_vars => Invariant'
    <2> SUFFICES ASSUME Invariant, [Next]_vars PROVE Invariant'
      OBVIOUS
    <2>1. Types'
      BY TypesNext, CandidateNext DEF Invariant, Types
    <2>2. ~Overlap => Orderly'
      BY OrderlyNext DEF Invariant
    <2>3. QED
      BY <2>1, <2>2 DEF Invariant
  <1>3. QED
    BY <1>1, <1>2, PTL DEF Spec

\* Every reachable state has the declared types, overlapping calls or not: the globals
\* of app/xray.py, the suspended calls and the engines.
THEOREM TypeCorrect == Spec => []TypeOK
  <1>1. Invariant => TypeOK
    BY DEF Invariant, Types
  <1>2. QED
    BY <1>1, InvariantHolds, PTL

\* Links are only generated for inbounds that really exist: between reloads whatever
\* is published is in the config the engine runs.
THEOREM PublishedLinksExist == ASSUME ~Overlap PROVE Spec => []PublishedExists
  <1>1. Invariant => PublishedExists
    BY DEF Invariant, Types, TypeOK, Orderly, Remembered, PublishedExists, Quiet
  <1>2. QED
    BY <1>1, InvariantHolds, PTL

\* The lifespan leaves no engine process behind, at whatever await the loop was
\* cancelled.
THEOREM ShutdownIsClean == ASSUME ~Overlap PROVE Spec => []NoEngineAfterShutdown
  <1>1. Invariant => NoEngineAfterShutdown
    BY NoneIsNoProcess DEF Invariant, Orderly, Lifespan, Owned, Alive, NoEngineAfterShutdown
  <1>2. QED
    BY <1>1, InvariantHolds, PTL

\* A link handed out keeps its public key: no step replaces a key pair that is
\* complete, since only the call that found none saves one.
THEOREM KeyPairStable == ASSUME ~Overlap PROVE Spec => KeysStable
  <1>1. Invariant /\ [Next]_vars => [HaveKeys => keys' = keys]_keys
    <2> SUFFICES ASSUME Invariant, [Next]_vars, HaveKeys PROVE keys' = keys
      OBVIOUS
    <2>1. ASSUME NEW c \in Callers, KeySave(c)
          PROVE  FALSE
      BY <2>1 DEF Invariant, Orderly, KeysInOrder, KeySave, HaveKeys
    <2>2. ASSUME NEW c \in Callers, Step(c)
          PROVE  keys' = keys
      BY <2>1, <2>2 DEF Step, Resume, Enter, KeyGen, KeysEnsured, RungRefused,
                       LadderExhausted, RungAccepted, StopDone, StopTimeout, Spawn, Settle
    <2>3. QED
      BY <2>2 DEF Next, vars, Begin, Enter, EngineBoot, EngineExit, EngineCrash,
                  SaveAndReload, RotateShadowsocks, MeterUser, ThreadWrites, Shutdown, Terminated
  <1>2. QED
    BY <1>1, InvariantHolds, PTL DEF Spec, KeysStable

\* The periodic pass never terminates an engine that already runs what the pass would
\* install, the order of the users and the Shadowsocks keys included.
THEOREM LoopLeavesEngineAlone == ASSUME ~Overlap PROVE Spec => NoSpuriousRestart
  <1> DEFINE Harmless ==
          \A p \in Procs :
             (engine[p].st = "up" /\ engine'[p].st = "term" /\ phase' = "running"
                /\ call'[Loop].pc = "stop" /\ call'[Loop].waits = p /\ call[Loop].pc = "test")
             => engine[p].cfg # call[Loop].cand
  <1>1. Invariant /\ [Next]_vars => [Harmless]_vars
    <2> SUFFICES ASSUME Invariant, [Next]_vars,
                        NEW p \in Procs,
                        engine[p].st = "up", engine'[p].st = "term", phase' = "running",
                        call'[Loop].pc = "stop", call'[Loop].waits = p, call[Loop].pc = "test"
                 PROVE  engine[p].cfg # call[Loop].cand
      OBVIOUS
    <2>0. TypeOK /\ Orderly /\ Loop \in Callers
      BY DEF Invariant, Types, Callers
    <2>1. \A c \in Callers \ {Loop} : call[c].pc = "idle"
      BY <2>0, OthersIdle DEF Orderly
    <2>2. RungAccepted(Loop)
      <3>1. ASSUME NEW c \in Callers, Step(c)
            PROVE  RungAccepted(Loop)
        <4>1. call[c].pc # "idle"
          BY <3>1 DEF Step, Resume, KeyGen, KeySave, KeysEnsured, RungRefused, LadderExhausted,
                     RungAccepted, StopDone, StopTimeout, Spawn, Settle
        <4>2. c = Loop
          BY <2>1, <4>1
        <4>3. ~RungRefused(Loop) /\ ~LadderExhausted(Loop)
          <5>1. RungRefused(Loop) => NextRung(Loop) \in 0..LastRung /\ call[Loop] \in Call
            BY <2>0, CiphersIsSeq DEF RungRefused, NextRung, LastRung, Call, TypeOK
          <5>2. QED
            BY <2>0, <5>1, WriteRungTypes, ReturnTypes DEF RungRefused, LadderExhausted
        <4>4. QED
          BY <3>1, <4>2, <4>3 DEF Step, Resume, KeyGen, KeySave, KeysEnsured, StopDone,
                                  StopTimeout, Spawn, Settle
      <3>2. ASSUME NEW c \in Callers, Begin(c)
            PROVE  FALSE
        BY <2>0, <3>2 DEF Begin, CanBegin
      <3>3. ASSUME NEW h \in Handlers, SaveAndReload(h) \/ RotateShadowsocks(h)
            PROVE  FALSE
        BY <2>0, <3>3 DEF SaveAndReload, RotateShadowsocks, CanBegin
      <3>4. ~Shutdown
        BY DEF Shutdown
      <3>5. call' # call
        OBVIOUS
      <3>6. QED
        BY <3>1, <3>2, <3>3, <3>4, <3>5
           DEF Next, vars, EngineBoot, EngineExit, EngineCrash, ThreadWrites, MeterUser,
               Terminated
    <2>3. BeginStop(Loop) /\ phase' = phase /\ ~Unchanged(Loop)
      <3>1. ~Unchanged(Loop)
        BY <2>0, <2>2, ReturnTypes DEF RungAccepted
      <3>2. QED
        BY <2>2, <3>1 DEF RungAccepted
    <2>4. proc = p /\ Alive(proc)
      BY <2>0, <2>3, BeginStopTypes
    <2>5. ~call[Loop].force
      BY <2>0, <2>3 DEF Orderly, Lifespan
    <2>6. engine[p].cfg = lastHash
      BY <2>0 DEF Orderly, Remembered
    <2>7. QED
      BY <2>3, <2>4, <2>5, <2>6 DEF Unchanged
  <1>2. QED
    BY <1>1, InvariantHolds, PTL DEF Spec, NoSpuriousRestart
-----------------------------------------------------------------------------
(***************************************************************************)
(* A build that refuses the advanced transport and nothing else.  The      *)
(* ladder then ends at its second rung at the latest: the first contains   *)
(* the transport or passes, and the second, lean, is offered because it is *)
(* smaller, and passes.                                                    *)
(***************************************************************************)
OnlyAdvanced == HaveKeys /\ RefusedWanted = {"adv"}
Spared == (wanted \cap {"warp", "direct"}) \cup TelegramTags

RenderedFor(c) ==
    /\ call[c].since <= changes
    /\ call[c].pc = "test" /\ call[c].since = changes =>
          /\ call[c].cand.tags = RungTags(call[c].rung)
          /\ OnlyAdvanced => call[c].rung \in {1, 2}
    /\ Published(c) /\ OnlyAdvanced => Spared \subseteq served

Rendered == \A c \in Callers : RenderedFor(c)

\* What a rung holds is the core, ciphers and inbounds that are switched on.
LEMMA RungHolds ==
    ASSUME TypeOK, NEW r \in 0..LastRung
    PROVE  RungTags(r) \subseteq (AllTags \ Optional) \cup wanted
  <1>1. Len(Ciphers) \in Nat /\ r \in Int
    BY CiphersIsSeq DEF LastRung
  <1>2. Keep(r) \in Int /\ Keep(r) <= Len(Ciphers)
    BY <1>1 DEF Keep
  <1>3. CipherTags(Keep(r)) \subseteq CipherTags(Len(Ciphers))
    BY <1>1, <1>2 DEF CipherTags
  <1>4. CipherTags(Keep(r)) \subseteq AllTags \ Optional
    BY <1>3, CiphersAreNoOptions DEF AllTags
  <1>5. "core" \in AllTags \ Optional
    BY DEF AllTags, Optional
  <1>6. QED
    BY <1>4, <1>5 DEF RungTags, DirectTags, TelegramTags

\* A sequence has finitely many ciphers.
LEMMA CiphersFinite == ASSUME NEW n \in Nat PROVE IsFiniteSet(CipherTags(n))
  <1> DEFINE f == [i \in 1..n |-> Ciphers[i]]
  <1>1. f \in Surjection(1..n, CipherTags(n))
    BY DEF Surjection, CipherTags
  <1>2. IsFiniteSet(1..n)
    BY FS_Interval
  <1>3. QED
    BY <1>1, <1>2, FS_Surjection

\* Without the advanced transport the full rung is larger than the lean one.
LEMMA LeanIsSmaller ==
    ASSUME "adv" \in RungTags(1)
    PROVE  ~(Cardinality(RungTags(2)) >= Cardinality(RungTags(1))) /\ "adv" \notin RungTags(2)
  <1> DEFINE ciphers == CipherTags(Len(Ciphers))
  <1>1. Keep(1) = Len(Ciphers) /\ Keep(2) = Len(Ciphers) /\ Len(Ciphers) \in Nat
    BY CiphersIsSeq DEF Keep
  <1>2. "adv" \notin ciphers
    BY CiphersAreNoOptions DEF Optional
  <1>3. IsFiniteSet(ciphers)
    BY <1>1, CiphersFinite
  <1> HIDE DEF ciphers
  <1>4. /\ RungTags(1) = {"core"} \cup ciphers \cup (wanted \cap {"warp"}) \cup DirectTags(TRUE) \cup TelegramTags
        /\ RungTags(2) = {"core"} \cup ciphers \cup (wanted \cap {"warp"}) \cup DirectTags(FALSE) \cup TelegramTags
    BY <1>1 DEF RungTags, DirectTags, ciphers
  <1>5. /\ DirectTags(FALSE) \subseteq DirectTags(TRUE) /\ DirectTags(TRUE) \subseteq {"direct", "adv"}
        /\ DirectTags(FALSE) \subseteq {"direct"} /\ TelegramTags \subseteq {"tg"}
    BY DEF DirectTags, TelegramTags
  <1>6. RungTags(2) \subseteq RungTags(1) /\ "adv" \notin RungTags(2)
    BY <1>2, <1>4, <1>5
  <1>7. IsFiniteSet(RungTags(1))
    <2>1. \A S, x : IsFiniteSet(S) => IsFiniteSet(S \cup {x})
      BY FS_AddElement
    <2>2. IsFiniteSet(ciphers \cup {"core"} \cup {"warp"} \cup {"direct"} \cup {"adv"} \cup {"tg"})
      BY <1>3, <2>1
    <2>3. RungTags(1) \subseteq ciphers \cup {"core"} \cup {"warp"} \cup {"direct"} \cup {"adv"} \cup {"tg"}
      BY <1>4, <1>5
    <2>4. QED
      BY <2>2, <2>3, FS_Subset
  <1>8. /\ Cardinality(RungTags(2)) <= Cardinality(RungTags(1))
        /\ Cardinality(RungTags(2)) # Cardinality(RungTags(1))
        /\ Cardinality(RungTags(2)) \in Nat /\ Cardinality(RungTags(1)) \in Nat
    BY <1>6, <1>7, FS_Subset, FS_CardinalityType
  <1>9. QED
    BY <1>6, <1>8

\* The ladder stops before the rung that drops the whole raw endpoint.
LEMMA LadderStops ==
    ASSUME TypeOK, NEW c \in Callers, OnlyAdvanced, ~Accepts(file), file = call[c].cand,
           call[c].cand.tags = RungTags(call[c].rung), call[c].rung \in {1, 2}
    PROVE  call[c].rung = 1 /\ NextRung(c) = 2
  <1>1. {1, 2} \subseteq 0..LastRung
    BY CiphersIsSeq DEF LastRung
  <1>2. \A r \in {1, 2} : RungTags(r) \cap refused \subseteq {"adv"}
    BY <1>1, RungHolds DEF OnlyAdvanced, RefusedWanted
  <1>3. "adv" \in RungTags(call[c].rung)
    BY <1>2 DEF Accepts
  <1>4. call[c].rung = 1
    <2>1. "adv" \notin RungTags(2)
      BY CiphersIsSeq, CiphersAreNoOptions DEF RungTags, Keep, DirectTags, TelegramTags, Optional
    <2>2. QED
      BY <1>3, <2>1
  <1>5. ~(Cardinality(RungTags(2)) >= Cardinality(call[c].cand.tags))
    BY <1>3, <1>4, LeanIsSmaller
  <1>6. QED
    BY <1>4, <1>5 DEF NextRung

(***************************************************************************)
(* What a step keeps of it.                                                *)
(***************************************************************************)
\* The settings, the keys and the build are what the ladder is rendered from.
LEMMA SameLadder ==
    ASSUME UNCHANGED <<wanted, active, keys, refused>>
    PROVE  /\ \A r : RungTags(r)' = RungTags(r)
           /\ OnlyAdvanced' = OnlyAdvanced /\ Spared' = Spared
  <1>1. HaveKeys' = HaveKeys /\ TelegramTags' = TelegramTags
    BY DEF HaveKeys, TelegramTags
  <1>2. DirectTags(TRUE)' = DirectTags(TRUE) /\ DirectTags(FALSE)' = DirectTags(FALSE)
    BY <1>1 DEF DirectTags
  <1>3. \A r : RungTags(r)' = RungTags(r)
    BY <1>1 DEF RungTags, DirectTags, Keep, CipherTags
  <1>4. OnlyAdvanced' = OnlyAdvanced /\ Spared' = Spared
    BY <1>1 DEF OnlyAdvanced, RefusedWanted, Spared
  <1>5. QED
    BY <1>3, <1>4

\* A call that renders a rung from the settings as they are.
LEMMA WriteRungLocals ==
    ASSUME TypeOK, NEW c \in Callers, NEW r \in 0..LastRung, NEW started \in Call,
           WriteRung(c, r, started)
    PROVE  /\ call'[c].pc = "test" /\ call'[c].rung = r /\ call'[c].since = started.since
           /\ call'[c].cand.tags = RungTags(r)
  <1>1. call' = [call EXCEPT ![c] = [started EXCEPT !.pc = "test", !.rung = r, !.cand = Rung(r)]]
    BY DEF WriteRung
  <1> DEFINE config == Rung(r)
             k == [started EXCEPT !.pc = "test", !.rung = r, !.cand = config]
  <1>2. config.tags = RungTags(r)
    BY DEF Rung
  <1> HIDE DEF config
  <1>3. k.pc = "test" /\ k.rung = r /\ k.since = started.since /\ k.cand = config
    BY DEF Call
  <1>4. call'[c] = k
    BY <1>1 DEF TypeOK, config
  <1> HIDE DEF k
  <1>5. QED
    BY <1>2, <1>3, <1>4

\* A call that is not in progress promises nothing.
LEMMA IdleRendered ==
    ASSUME TypeOK, TypeOK', Rendered, NEW c \in Callers, changes <= changes', call'[c].since = call[c].since,
           call'[c].pc \notin {"test", "stop", "spawn", "settle"}
    PROVE  RenderedFor(c)'
  <1>1. call[c] \in Call /\ changes \in Nat /\ changes' \in Nat /\ call[c].since \in Nat
    BY BoundsAreNat DEF TypeOK, Call
  <1>2. call[c].since <= changes
    BY DEF Rendered, RenderedFor
  <1>3. (call[c].since <= changes')
    BY <1>1, <1>2
  <1>4. QED
    BY <1>3 DEF RenderedFor, Published

\* The first rung, of a call that enters.
LEMMA RenderedFirst ==
    ASSUME TypeOK, NEW c \in Callers, NEW started \in Call, WriteRung(c, 1, started),
           started.since <= changes,
           UNCHANGED <<wanted, active, keys, refused, changes>>
    PROVE  RenderedFor(c)'
  <1>1. 1 \in 0..LastRung
    BY CiphersIsSeq DEF LastRung
  <1>2. /\ call'[c].pc = "test" /\ call'[c].rung = 1 /\ call'[c].since = started.since
        /\ call'[c].cand.tags = RungTags(1)
    BY <1>1, WriteRungLocals
  <1>3. RungTags(1)' = RungTags(1)
    BY SameLadder
  <1>4. QED
    BY <1>2, <1>3 DEF RenderedFor, Published

\* A call that begins renders its candidate anew.
LEMMA RenderedEnter ==
    ASSUME TypeOK, TypeOK', Rendered, NEW c \in Callers, Enter(c)
    PROVE  RenderedFor(c)'
  <1> DEFINE force == (c # Loop \/ phase = "boot")
             started == [IdleCall EXCEPT !.force = force, !.since = changes]
  <1>1. started \in Call /\ started.since = changes /\ changes <= changes
    <2>1. force \in BOOLEAN /\ changes \in 0..MaxChanges /\ changes \in Int
      BY BoundsAreNat DEF TypeOK
    <2> HIDE DEF force
    <2>2. started \in Call /\ started.since = changes
      BY <2>1, IdleIsCall DEF Call
    <2>3. QED
      BY <2>1, <2>2
  <1>2. UNCHANGED <<wanted, active, keys, refused, changes>>
    BY DEF Enter, settingsVars, userVars
  <1>3. CASE "direct" \in wanted
    <2>1. call' = [call EXCEPT ![c] = [started EXCEPT !.pc = "keygen"]]
      BY <1>3 DEF Enter
    <2> DEFINE k == [started EXCEPT !.pc = "keygen"]
    <2>2. k.pc = "keygen" /\ k.since = changes
      BY <1>1 DEF Call
    <2> HIDE DEF started, k
    <2>3. call'[c] = k
      BY <2>1 DEF TypeOK, k
    <2>4. QED
      BY <1>1, <1>2, <2>2, <2>3 DEF RenderedFor, Published
  <1>4. CASE "direct" \notin wanted
    <2>1. WriteRung(c, 1, started)
      BY <1>4 DEF Enter
    <2> HIDE DEF started
    <2>2. QED
      BY <1>1, <1>2, <2>1, RenderedFirst
  <1>5. QED
    BY <1>3, <1>4

\* A call that returns promises nothing any more.
LEMMA ReturnRendered ==
    ASSUME TypeOK, NEW c \in Callers, Return(c), changes' = changes
    PROVE  RenderedFor(c)'
  <1>1. call'[c] = IdleCall
    BY DEF Return, TypeOK
  <1>2. call'[c].pc = "idle" /\ call'[c].since = 0 /\ changes \in Nat
    BY <1>1, BoundsAreNat DEF IdleCall, TypeOK
  <1>3. QED
    BY <1>2 DEF RenderedFor, Published

\* The step of the call in progress, for that call.
LEMMA RenderedStep ==
    ASSUME TypeOK, TypeOK', Orderly, Rendered, NEW c \in Callers, Step(c)
    PROVE  RenderedFor(c)'
  <1>0. call \in [Callers -> Call] /\ call[c] \in Call /\ RenderedFor(c) /\ changes <= changes
    <2>1. changes \in Nat
      BY BoundsAreNat DEF TypeOK
    <2>2. QED
      BY <2>1 DEF TypeOK, Rendered
  <1>1. CASE Resume(c)
    BY <1>1, RenderedEnter DEF Resume
  <1>2. CASE KeyGen(c) \/ KeySave(c)
    <2>1. call'[c].pc \in {"keygen", "keysave"} /\ call'[c].since = call[c].since /\ changes' = changes
      BY <1>0, <1>2 DEF KeyGen, KeySave, Call, settingsVars, userVars
    <2>2. QED
      BY <1>0, <2>1, IdleRendered
  <1>3. CASE KeysEnsured(c)
    <2>1. WriteRung(c, 1, call[c]) /\ UNCHANGED <<wanted, active, keys, refused, changes>>
      BY <1>3 DEF KeysEnsured, settingsVars, userVars
    <2>2. QED
      BY <1>0, <2>1, RenderedFirst DEF RenderedFor
  <1>4. CASE RungRefused(c)
    <2>1. /\ WriteRung(c, NextRung(c), call[c]) /\ call[c].pc = "test" /\ ~Accepts(file)
          /\ UNCHANGED <<wanted, active, keys, refused, changes>>
      BY <1>4 DEF RungRefused, settingsVars, userVars
    <2>2. NextRung(c) \in 0..LastRung
      BY <1>0, <1>4, CiphersIsSeq DEF RungRefused, NextRung, LastRung, Call
    <2>3. PICK next \in 0..LastRung : next = NextRung(c)
      BY <2>2
    <2>4. /\ call'[c].pc = "test" /\ call'[c].rung = next /\ call'[c].since = call[c].since
          /\ call'[c].cand.tags = RungTags(next)
      BY <1>0, <2>1, <2>3, WriteRungLocals
    <2>5. file = call[c].cand
      BY <2>1 DEF Orderly, CandidateOnDisk
    <2>6. call[c].since = changes /\ OnlyAdvanced => next \in {1, 2}
      BY <1>0, <2>1, <2>3, <2>5, LadderStops DEF RenderedFor
    <2>7. RungTags(next)' = RungTags(next) /\ OnlyAdvanced' = OnlyAdvanced
      BY <2>1, SameLadder
    <2>8. RungTags(call[c].rung)' = RungTags(next)
      BY <2>4, <2>7
    <2>9. QED
      BY <1>0, <2>1, <2>4, <2>6, <2>7, <2>8 DEF RenderedFor, Published
  <1>5. CASE LadderExhausted(c) \/ Settle(c)
    <2>1. Return(c) /\ changes' = changes
      BY <1>5 DEF LadderExhausted, Settle, settingsVars, userVars
    <2>2. QED
      BY <1>0, <2>1, ReturnRendered
  <1>6. CASE RungAccepted(c)
    <2>1. /\ call[c].pc = "test" /\ served' = call[c].cand.tags
          /\ UNCHANGED <<wanted, active, keys, refused, changes>>
      BY <1>6 DEF RungAccepted, settingsVars, userVars
    <2>2. CASE Unchanged(c)
      <3>1. Return(c)
        BY <1>6, <2>2 DEF RungAccepted
      <3>2. QED
        BY <1>0, <2>1, <3>1, ReturnRendered
    <2>3. CASE ~Unchanged(c)
      <3>1. BeginStop(c)
        BY <1>6, <2>3 DEF RungAccepted
      <3>2. call'[c].pc \in {"stop", "spawn"} /\ call'[c].since = call[c].since
        BY <1>0, <3>1 DEF BeginStop, Call
      <3>3. ASSUME call[c].since = changes, OnlyAdvanced PROVE Spared \subseteq served'
        <4>1. call[c].rung \in {1, 2} /\ served' = RungTags(call[c].rung)
          BY <1>0, <2>1, <3>3 DEF RenderedFor
        <4>2. \A r \in {1, 2} : Spared \subseteq RungTags(r)
          BY <3>3 DEF OnlyAdvanced, Spared, RungTags, DirectTags
        <4>3. QED
          BY <4>1, <4>2
      <3>4. OnlyAdvanced' = OnlyAdvanced /\ Spared' = Spared
        BY <2>1, SameLadder
      <3>5. QED
        BY <1>0, <2>1, <3>2, <3>3, <3>4 DEF RenderedFor, Published
    <2>4. QED
      BY <2>2, <2>3
  <1>7. CASE StopDone(c) \/ StopTimeout(c) \/ Spawn(c)
    <2>1. /\ UNCHANGED <<wanted, active, keys, refused, changes, served>>
          /\ call[c].pc \in {"stop", "spawn"}
      BY <1>7 DEF StopDone, StopTimeout, Spawn, settingsVars, userVars
    <2>2. \/ call'[c] = IdleCall
          \/ /\ call'[c].pc \in {"stop", "spawn", "settle"}
             /\ call'[c].since = call[c].since /\ call'[c].cand = call[c].cand
      BY <1>0, <1>7 DEF StopDone, StopTimeout, Spawn, Call
    <2>3. OnlyAdvanced' = OnlyAdvanced /\ Spared' = Spared
      BY <2>1, SameLadder
    <2>4. CASE call'[c] = IdleCall
      BY <1>0, <2>1, <2>4, BoundsAreNat DEF IdleCall, RenderedFor, Published, TypeOK
    <2>5. CASE /\ call'[c].pc \in {"stop", "spawn", "settle"}
               /\ call'[c].since = call[c].since /\ call'[c].cand = call[c].cand
      BY <1>0, <2>1, <2>3, <2>5 DEF RenderedFor, Published
    <2>6. QED
      BY <2>2, <2>4, <2>5
  <1>8. QED
    BY <1>1, <1>2, <1>3, <1>4, <1>5, <1>6, <1>7 DEF Step

\* A step of a call touches no other call.
LEMMA StepIsOwn ==
    ASSUME TypeOK, NEW c \in Callers, Step(c)
    PROVE  \A d \in Callers \ {c} : call'[d] = call[d]
  <1>0. call \in [Callers -> Call]
    BY DEF TypeOK
  <1>1. CASE Resume(c)
    BY <1>1, EnterTypes DEF Resume
  <1>2. CASE KeyGen(c) \/ KeySave(c)
    BY <1>0, <1>2 DEF KeyGen, KeySave
  <1>3. CASE KeysEnsured(c) \/ RungRefused(c)
    BY <1>0, <1>3 DEF KeysEnsured, RungRefused, WriteRung
  <1>4. CASE LadderExhausted(c) \/ Settle(c)
    BY <1>0, <1>4 DEF LadderExhausted, Settle, Return
  <1>5. CASE RungAccepted(c)
    BY <1>0, <1>5, BeginStopTypes DEF RungAccepted, Return
  <1>6. CASE StopDone(c) \/ StopTimeout(c) \/ Spawn(c)
    BY <1>0, <1>6 DEF StopDone, StopTimeout, Spawn
  <1>7. QED
    BY <1>1, <1>2, <1>3, <1>4, <1>5, <1>6 DEF Step

\* What it says is about the calls, the settings and what is published alone.
LEMMA RenderedSame ==
    ASSUME Rendered, UNCHANGED <<call, wanted, active, keys, refused, changes, served>>
    PROVE  Rendered'
  <1>1. /\ \A r : RungTags(r)' = RungTags(r)
        /\ OnlyAdvanced' = OnlyAdvanced /\ Spared' = Spared
    BY SameLadder
  <1>2. \A c \in Callers : RenderedFor(c)'
    BY <1>1 DEF Rendered, RenderedFor, Published
  <1>3. QED
    BY <1>2 DEF Rendered

\* Every step keeps what is rendered true to the settings it was rendered from.
LEMMA RenderedNext ==
    ASSUME ~Overlap, Types, Types', Orderly, Rendered, [Next]_vars
    PROVE  Rendered'
  <1>0. /\ TypeOK /\ TypeOK' /\ call \in [Callers -> Call]
        /\ changes \in Nat /\ changes <= changes /\ changes <= changes + 1
    BY BoundsAreNat DEF Types, TypeOK
  <1>a. Handlers \subseteq Callers /\ Loop \in Callers
    BY DEF Callers
  <1>1. ASSUME NEW c \in Callers, Begin(c)
        PROVE  Rendered'
    <2>1. \A d \in Callers : call[d].pc = "idle"
      BY <1>1 DEF Begin, CanBegin
    <2>2. \A d \in Callers \ {c} : call'[d] = call[d]
      BY <1>0, <1>1, EnterTypes DEF Begin
    <2>3. RenderedFor(c)'
      BY <1>0, <1>1, RenderedEnter DEF Begin
    <2>4. changes' = changes
      BY <1>1 DEF Begin, Enter, settingsVars, userVars
    <2>5. \A d \in Callers \ {c} : RenderedFor(d)'
      BY <1>0, <2>1, <2>2, <2>4, IdleRendered
    <2>6. QED
      BY <2>3, <2>5 DEF Rendered
  <1>2. ASSUME NEW c \in Callers, Step(c)
        PROVE  Rendered'
    <2>1. call[c].pc # "idle"
      BY <1>2 DEF Step, Resume, KeyGen, KeySave, KeysEnsured, RungRefused, LadderExhausted,
                  RungAccepted, StopDone, StopTimeout, Spawn, Settle
    <2>2. \A d \in Callers \ {c} : call[d].pc = "idle"
      BY <2>1, OthersIdle DEF Orderly
    <2>3. RenderedFor(c)' /\ changes' = changes
      <3>1. RenderedFor(c)'
        BY <1>0, <1>2, RenderedStep
      <3>2. changes' = changes
        BY <1>2 DEF Step, Resume, Enter, KeyGen, KeySave, KeysEnsured, RungRefused, LadderExhausted,
                    RungAccepted, StopDone, StopTimeout, Spawn, Settle, settingsVars, userVars
      <3>3. QED
        BY <3>1, <3>2
    <2>4. \A d \in Callers \ {c} : call'[d] = call[d]
      BY <1>0, <1>2, StepIsOwn
    <2>5. \A d \in Callers \ {c} : RenderedFor(d)'
      BY <1>0, <2>2, <2>3, <2>4, IdleRendered
    <2>6. QED
      BY <2>3, <2>5 DEF Rendered
  <1>3. ASSUME NEW p \in Procs, EngineBoot(p) \/ EngineExit(p) \/ EngineCrash(p)
        PROVE  Rendered'
    <2>1. UNCHANGED <<call, wanted, active, keys, refused, changes, served>>
      BY <1>3 DEF EngineBoot, EngineExit, EngineCrash, settingsVars, userVars
    <2>2. QED
      BY <2>1, RenderedSame
  <1>4. ASSUME NEW h \in Handlers, SaveAndReload(h) \/ RotateShadowsocks(h)
        PROVE  Rendered'
    <2>1. \A d \in Callers : call[d].pc = "idle"
      BY <1>4 DEF SaveAndReload, RotateShadowsocks, CanBegin
    <2>2. \A d \in Callers : call'[d].pc \in {"idle", "saved"} /\ call'[d].since = call[d].since
      <3>1. call' = [call EXCEPT ![h] = [call[h] EXCEPT !.pc = "saved"]]
        BY <1>4 DEF SaveAndReload, RotateShadowsocks
      <3> DEFINE k == [call[h] EXCEPT !.pc = "saved"]
      <3>2. k.pc = "saved" /\ k.since = call[h].since
        BY <1>0, <1>a DEF Call
      <3> HIDE DEF k
      <3>3. QED
        BY <1>0, <2>1, <3>1, <3>2 DEF k
    <2>3. changes' = changes + 1
      BY <1>4 DEF SaveAndReload, RotateShadowsocks
    <2>4. \A d \in Callers : RenderedFor(d)'
      BY <1>0, <2>2, <2>3, IdleRendered
    <2>5. QED
      BY <2>4 DEF Rendered
  <1>5. CASE ThreadWrites
    <2>1. changes' = changes + 1 /\ call' = call
      BY <1>5 DEF ThreadWrites
    <2>2. \A d \in Callers : call[d].since <= changes /\ call[d].since \in Nat
      BY <1>0, BoundsAreNat DEF Rendered, RenderedFor, Call
    <2>3. \A d \in Callers : call'[d].since <= changes' /\ call'[d].since # changes'
      BY <1>0, <2>1, <2>2
    <2>4. QED
      BY <2>3 DEF Rendered, RenderedFor, Published
  <1>6. CASE Shutdown
    <2>1. changes' = changes
      BY <1>6 DEF Shutdown, settingsVars, userVars
    <2>2. /\ call'[Loop].cand = None /\ call'[Loop].since = 0 /\ call'[Loop].pc \in {"idle", "stop"}
          /\ \A h \in Callers \ {Loop} : call'[h] = call[h]
      <3> DEFINE k == [IdleCall EXCEPT !.pc = "stop", !.waits = proc]
      <3>1. k.cand = None /\ k.since = 0 /\ k.pc = "stop"
        BY DEF IdleCall
      <3>2. IdleCall.cand = None /\ IdleCall.since = 0 /\ IdleCall.pc = "idle"
        BY DEF IdleCall
      <3>3. \/ call' = [call EXCEPT ![Loop] = k]
            \/ call' = [call EXCEPT ![Loop] = IdleCall]
        BY <1>6 DEF Shutdown
      <3> HIDE DEF k
      <3>4. QED
        BY <1>0, <1>a, <3>1, <3>2, <3>3
    <2>3. RenderedFor(Loop)'
      BY <1>0, <2>1, <2>2 DEF RenderedFor, Published
    <2>4. \A h \in Handlers : call'[h] = call[h] /\ call[h].pc = "idle"
      BY <1>a, <1>6, <2>2, LoopIsNoHandler DEF Shutdown
    <2>5. \A h \in Handlers : RenderedFor(h)'
      BY <1>0, <1>a, <2>1, <2>4, IdleRendered
    <2>6. QED
      BY <2>3, <2>5 DEF Rendered, Callers
  <1>7. CASE UNCHANGED vars
    <2>1. UNCHANGED <<call, wanted, active, keys, refused, changes, served>>
      BY <1>7 DEF vars, settingsVars, userVars
    <2>2. QED
      BY <2>1, RenderedSame
  <1>8. ASSUME NEW u \in Users, MeterUser(u)
        PROVE  Rendered'
    BY <1>8, RenderedSame DEF MeterUser
  <1>9. QED
    BY <1>1, <1>2, <1>3, <1>4, <1>5, <1>6, <1>7, <1>8 DEF Next, Terminated

\* A refused advanced transport never costs the plain Reality node, WARP or the Telegram
\* proxies: the ladder of xray._candidate_configs() drops the advanced half alone.
THEOREM PlainRealityStays == ASSUME ~Overlap PROVE Spec => []PlainRealitySurvives
  <1>1. Init => Rendered
    <2> SUFFICES ASSUME Init PROVE Rendered
      OBVIOUS
    <2>1. \A c \in Callers : call[c].pc = "idle" /\ call[c].since = 0 /\ changes = 0
      BY DEF Init, IdleCall
    <2>2. QED
      BY <2>1 DEF Rendered, RenderedFor, Published
  <1>2. Invariant /\ Invariant' /\ Rendered /\ [Next]_vars => Rendered'
    BY RenderedNext DEF Invariant
  <1>3. Rendered => PlainRealitySurvives
    BY DEF Rendered, RenderedFor, PlainRealitySurvives, OnlyAdvanced, Spared
  <1>4. QED
    BY <1>1, <1>2, <1>3, InvariantHolds, PTL DEF Spec
=============================================================================
