---------------------------- MODULE CoresProofs ----------------------------
(***************************************************************************)
(* Proofs about CoresSupervisor, for any engines, profiles, users, callers *)
(* and bounds: the shape of its state; and, while the calls of sync() do   *)
(* not overlap, that what is published is being served and that no engine  *)
(* outlives the lifespan.                                                  *)
(***************************************************************************)
EXTENDS CoresSupervisor, Integers, TLAPS

(***************************************************************************)
(* The types.                                                              *)
(***************************************************************************)

\* A call that is suspended is at an engine, and a process that boots is some engine's.
Types ==
    /\ TypeOK
    /\ \A c \in Callers : call[c].pc \notin {"idle", "next"} => call[c].at <= Len(Engines)
    /\ \A p \in Procs : engine[p].st = "starting" => engine[p].of # None

(***************************************************************************)
(* What holds while the calls do not overlap.                              *)
(***************************************************************************)

Serial == \A c, d \in Callers : c # d => call[c].pc = "idle" \/ call[d].pc = "idle"

\* The lifespan is over: only stop_all() is still at work.
Over == phase \in {"closing", "stopped"}
Closing ==
    /\ Over => \A c \in Callers : call[c].pc \in {"idle", "off"}
    /\ Over => \A h \in Handlers : call[h].pc = "idle"
    /\ phase = "stopped" =>
        (\A e \in EngineSet : procs[e] = None) /\ (\A c \in Callers : call[c].pc = "idle")

\* _procs knows every process that is not on its way out, each once, and no other.
Owned ==
    /\ \A e, f \in EngineSet : procs[e] # None /\ procs[e] = procs[f] => e = f
    /\ \A e \in EngineSet : procs[e] # None => engine[procs[e]].st # "term"
    /\ \A p \in Procs : engine[p].st \in {"starting", "up"} => \E e \in EngineSet : procs[e] = p
    /\ \A e \in EngineSet :
        procs[e] # None /\ engine[procs[e]].st = "starting" => engine[procs[e]].of = e

\* What a suspended start_or_reload() still holds is what it left on the disk.
Candidate(c) ==
    /\ call[c].pc \in {"validate", "stop", "spawn"} => call[c].cand = file[EngineAt(c)]
    /\ call[c].pc \in {"stop", "spawn"} => procs[EngineAt(c)] = None
    /\ call[c].pc = "settle" =>
        /\ call[c].waits = procs[EngineAt(c)] /\ call[c].waits # None
        /\ call[c].cand = hashes[EngineAt(c)]

Settling(e) == \E c \in Callers : call[c].pc = "settle" /\ EngineAt(c) = e

\* The digest of an engine is the config its process runs, and what it is said to host
\* is in that config, except while the process is still being waited for.
Remembered(e) ==
    /\ procs[e] # None /\ engine[procs[e]].st = "starting" =>
        file[e] = hashes[e] /\ (Over \/ Settling(e))
    /\ procs[e] # None /\ engine[procs[e]].st = "up" =>
        /\ engine[procs[e]].cfg = hashes[e]
        /\ Over \/ Settling(e) \/ hosted[e] \subseteq Ids(engine[procs[e]].cfg)

Orderly ==
    /\ Serial
    /\ Closing
    /\ Owned
    /\ \A c \in Callers : Candidate(c)
    /\ \A e \in EngineSet : Remembered(e)

\* What the operators return.
LEMMA Operators ==
    ASSUME Types
    PROVE  /\ Len(Engines) \in Nat
           /\ \A i \in 1..Len(Engines) : Engines[i] \in EngineSet
           /\ \A e \in EngineSet : Listeners(e) \in Config
           /\ \A config \in Config : Ids(config) \in SUBSET Profiles
           /\ Wanted \in SUBSET EngineSet
           /\ Live \in SUBSET Profiles
           /\ Dead \in Process
  <1>1. Len(Engines) \in Nat
    BY EnginesIsSeq
  <1>2. \A e \in EngineSet : Listeners(e) \in Config
    <2>1. SUFFICES ASSUME NEW e \in EngineSet PROVE Listeners(e) \subseteq Listener
      BY DEF Config
    <2>2. \A p \in Profiles : [id |-> p, port |-> setting[p].port, users |-> active] \in Listener
      BY DEF Types, TypeOK, Setting, Listener
    <2>3. QED
      BY <2>2 DEF Listeners
  <1>3. \A config \in Config : Ids(config) \in SUBSET Profiles
    BY DEF Config, Listener, Ids
  <1>4. Wanted \in SUBSET EngineSet
    BY DEF Types, TypeOK, Setting, Wanted
  <1>5. Live \in SUBSET Profiles
    BY DEF Types, TypeOK, Live
  <1>6. Dead \in Process
    BY DEF Dead, Process, Config
  <1>7. QED
    BY <1>1, <1>2, <1>3, <1>4, <1>5, <1>6 DEF EngineSet

\* The engine a suspended call is at.
LEMMA AtAnEngine ==
    ASSUME Types, NEW c \in Callers, call[c].at <= Len(Engines)
    PROVE  EngineAt(c) \in EngineSet
  <1>1. call[c].at \in 1..(Len(Engines) + 1)
    BY DEF Types, TypeOK, Call
  <1>2. call[c].at \in 1..Len(Engines)
    BY <1>1, Operators
  <1>3. QED
    BY <1>2, Operators DEF EngineAt

\* The forms in which a call is left.
LEMMA CallForms ==
    ASSUME Types, NEW c \in Callers
    PROVE  /\ IdleCall \in Call /\ IdleCall.pc = "idle"
           /\ \A w \in SUBSET EngineSet, b \in BOOLEAN :
                [IdleCall EXCEPT !.pc = "next", !.force = b, !.wanted = w] \in Call
           /\ call[c].at <= Len(Engines) => Onward(c) \in Call /\ Onward(c).pc = "next"
           /\ Callers # {} /\ call[c] \in Call
  <1>1. 1 \in 1..(Len(Engines) + 1)
    BY Operators
  <1>2. IdleCall \in Call /\ IdleCall.pc = "idle"
    BY <1>1 DEF IdleCall, Call, Pcs, Config
  <1>3. \A w \in SUBSET EngineSet, b \in BOOLEAN :
            [IdleCall EXCEPT !.pc = "next", !.force = b, !.wanted = w] \in Call
    BY <1>2 DEF IdleCall, Call, Pcs
  <1>4. call[c] \in Call
    BY DEF Types, TypeOK
  <1>5. ASSUME call[c].at <= Len(Engines) PROVE Onward(c) \in Call /\ Onward(c).pc = "next"
    <2>1. call[c].at + 1 \in 1..(Len(Engines) + 1)
      BY <1>4, <1>5, Operators DEF Call
    <2>2. {} \in Config
      BY DEF Config
    <2>3. QED
      BY <1>4, <2>1, <2>2 DEF Onward, Call, Pcs
  <1>6. QED
    BY <1>2, <1>3, <1>4, <1>5

\* What is known of the calls.
CallTypes ==
    /\ call \in [Callers -> Call]
    /\ \A c \in Callers : call[c].pc \notin {"idle", "next"} => call[c].at <= Len(Engines)

\* What is known of the processes.
ProcessTypes ==
    /\ engine \in [Procs -> Process]
    /\ \A p \in Procs : engine[p].st = "starting" => engine[p].of # None

\* The rest.
ModuleTypes ==
    /\ setting \in [Profiles -> Setting]
    /\ active \subseteq Users
    /\ refused \subseteq Profiles
    /\ file \in [EngineSet -> Config]
    /\ procs \in [EngineSet -> Procs \cup {None}]
    /\ hashes \in [EngineSet -> Config \cup {None}]
    /\ hosted \in [EngineSet -> SUBSET Profiles]
    /\ published \in (SUBSET Profiles) \cup {None}
    /\ phase \in {"boot", "running", "closing", "stopped"}
    /\ changes \in 0..MaxChanges
    /\ faults \in 0..MaxFaults

\* The types, one part after the other.
LEMMA TypeParts ==
    /\ Types <=> CallTypes /\ ProcessTypes /\ ModuleTypes
    /\ Types' <=> CallTypes' /\ ProcessTypes' /\ ModuleTypes'
  BY DEF Types, TypeOK, CallTypes, ProcessTypes, ModuleTypes

\* No engine runs at first.
LEMMA TypesInit == Init => Types
  <1> SUFFICES ASSUME Init PROVE Types
    OBVIOUS
  <1>2. Len(Engines) \in Nat
    BY EnginesIsSeq
  <1>3. IdleCall \in Call /\ IdleCall.pc = "idle"
    BY <1>2 DEF IdleCall, Call, Pcs, Config
  <1>4. CallTypes
    <2>1. call = [c \in Callers |-> IdleCall]
      BY DEF Init
    <2>2. QED
      BY <1>3, <2>1 DEF CallTypes
  <1>5. Dead \in Process /\ Dead.st = "dead"
    BY DEF Dead, Process, Config
  <1>6. ProcessTypes
    <2>1. engine = [p \in Procs |-> Dead]
      BY DEF Init
    <2>2. QED
      BY <1>5, <2>1 DEF ProcessTypes
  <1>7. ModuleTypes
    <2>1. {} \in Config
      BY DEF Config
    <2>2. file \in [EngineSet -> Config] /\ procs \in [EngineSet -> Procs \cup {None}]
          /\ hashes \in [EngineSet -> Config \cup {None}]
          /\ hosted \in [EngineSet -> SUBSET Profiles]
      BY <2>1 DEF Init
    <2>3. refused \subseteq Profiles /\ active \subseteq Users /\ published = None
          /\ changes \in 0..MaxChanges /\ faults \in 0..MaxFaults
          /\ phase \in {"boot", "running", "closing", "stopped"}
          /\ setting \in [Profiles -> Setting]
      BY BoundsAreNatural, RefusableIsProfiles DEF Init
    <2>4. QED
      BY <2>2, <2>3 DEF ModuleTypes
  <1>8. QED
    BY <1>4, <1>6, <1>7, TypeParts

\* One call is left in a form of its type.
LEMMA CallKept ==
    ASSUME Types, NEW c \in Callers, NEW r \in Call,
           call' = [call EXCEPT ![c] = r],
           r.pc \notin {"idle", "next"} => r.at <= Len(Engines)
    PROVE  CallTypes'
  BY DEF Types, TypeOK, CallTypes

\* Stopping an engine keeps the types.
LEMMA StopType ==
    ASSUME Types, NEW e \in EngineSet, StopAt(e)
    PROVE  /\ ProcessTypes'
           /\ procs' \in [EngineSet -> Procs \cup {None}]
  <1>1. CASE Alive(procs[e])
    <2>1. procs[e] \in Procs
      BY <1>1 DEF Types, TypeOK, Alive
    <2>2. [engine[procs[e]] EXCEPT !.st = "term"] \in Process
      BY <2>1 DEF Types, TypeOK, Process
    <2>3. engine' = [engine EXCEPT ![procs[e]] = [engine[procs[e]] EXCEPT !.st = "term"]]
      BY <1>1 DEF StopAt
    <2>4. QED
      BY <2>1, <2>2, <2>3 DEF StopAt, Types, TypeOK, ProcessTypes, Process
  <1>2. CASE ~Alive(procs[e])
    BY <1>2 DEF StopAt, Types, TypeOK, ProcessTypes
  <1>3. QED
    BY <1>1, <1>2

\* The steps of a call.
LEMMA CallStepTypes ==
    ASSUME Types, NEW c \in Callers, Begin(c) \/ Step(c) \/ SpawnFails(c)
    PROVE  Types'
  <1> DEFINE n == Len(Engines)
  <1>1. n \in Nat /\ call[c] \in Call /\ call \in [Callers -> Call]
    BY Operators DEF Types, TypeOK
  <1>2. call[c].at \in 1..(n + 1)
    BY <1>1 DEF Call
  <1>3. ProcessTypes /\ ModuleTypes
    BY TypeParts
  <1>4. call[c].pc \notin {"idle", "next"} => call[c].at <= n
    BY DEF Types
  <1>5. IdleCall \in Call /\ IdleCall.pc = "idle"
    BY CallForms
  <1>6. call[c].at <= n => Onward(c) \in Call /\ Onward(c).pc = "next" /\ EngineAt(c) \in EngineSet
    BY CallForms, AtAnEngine
  <1>7. CASE Begin(c)
    <2>1. PICK b \in BOOLEAN : call' = [call EXCEPT ![c] =
            [IdleCall EXCEPT !.pc = "next", !.force = b, !.wanted = Wanted]]
      BY <1>7 DEF Begin, BeginWith
    <2>2. [IdleCall EXCEPT !.pc = "next", !.force = b, !.wanted = Wanted] \in Call
      BY Operators, CallForms
    <2>3. CallTypes'
      BY <2>1, <2>2, CallKept, <1>5 DEF IdleCall
    <2>4. ProcessTypes' /\ ModuleTypes'
      BY <1>3, <1>7 DEF Begin, ProcessTypes, ModuleTypes, settingsVars, moduleVars
    <2>5. QED
      BY <2>3, <2>4, TypeParts
  <1>8. CASE TurnOff(c)
    <2>1. EngineAt(c) \in EngineSet /\ call[c].at <= n
      BY <1>6, <1>8 DEF TurnOff
    <2>2. ProcessTypes' /\ procs' \in [EngineSet -> Procs \cup {None}]
      BY <2>1, <1>8, StopType DEF TurnOff
    <2>3. CallTypes'
      <3>1. CASE Alive(procs[EngineAt(c)])
        <4>1. procs[EngineAt(c)] \in Procs
          BY <2>1, <3>1 DEF Types, TypeOK, Alive
        <4>2. call' = [call EXCEPT ![c] = [call[c] EXCEPT !.pc = "off", !.waits = procs[EngineAt(c)]]]
          BY <1>8, <3>1, <1>1 DEF TurnOff, AwaitExit
        <4>3. [call[c] EXCEPT !.pc = "off", !.waits = procs[EngineAt(c)]] \in Call
          BY <4>1, <1>1 DEF Call, Pcs
        <4>4. [call[c] EXCEPT !.pc = "off", !.waits = procs[EngineAt(c)]].at <= n
          BY <2>1, <1>1 DEF Call
        <4>5. QED
          BY <4>2, <4>3, <4>4, CallKept
      <3>2. CASE ~Alive(procs[EngineAt(c)])
        BY <1>8, <3>2, <1>6, <2>1, CallKept DEF TurnOff
      <3>3. QED
        BY <3>1, <3>2
    <2>4. hosted' \in [EngineSet -> SUBSET Profiles]
      BY <1>8, <1>3 DEF TurnOff, ModuleTypes
    <2>5. ModuleTypes'
      BY <1>3, <1>8, <2>2, <2>4 DEF TurnOff, ModuleTypes, settingsVars
    <2>6. QED
      BY <2>2, <2>3, <2>5, TypeParts
  <1>9. CASE OffDone(c)
    <2>1. EngineAt(c) \in EngineSet /\ call[c].at <= n
      BY <1>4, <1>6, <1>9 DEF OffDone
    <2>2. CallTypes'
      BY <1>9, <1>5, <1>6, <2>1, CallKept DEF OffDone
    <2>3. hosted' \in [EngineSet -> SUBSET Profiles]
      BY <1>9, <1>3 DEF OffDone, ModuleTypes
    <2>4. ProcessTypes' /\ ModuleTypes'
      BY <1>3, <1>9, <2>3 DEF OffDone, ProcessTypes, ModuleTypes, settingsVars
    <2>5. QED
      BY <2>2, <2>4, TypeParts
  <1>10. CASE Render(c)
    <2>1. EngineAt(c) \in EngineSet /\ call[c].at <= n
      BY <1>6, <1>10 DEF Render
    <2>2. Listeners(EngineAt(c)) \in Config /\ Ids(Listeners(EngineAt(c))) \in SUBSET Profiles
      BY <2>1, Operators
    <2>3. CallTypes'
      <3>1. CASE Unchanged(c)
        BY <1>10, <3>1, <1>6, <2>1, CallKept DEF Render
      <3>2. CASE ~Unchanged(c)
        <4> DEFINE r == [call[c] EXCEPT !.pc = "validate", !.cand = Listeners(EngineAt(c))]
        <4>1. call' = [call EXCEPT ![c] = r]
          BY <1>10, <3>2, <1>1 DEF Render
        <4>2. r \in Call /\ r.at <= n
          BY <2>1, <2>2, <1>1 DEF Call, Pcs
        <4>3. QED
          BY <4>1, <4>2, CallKept
      <3>3. QED
        BY <3>1, <3>2
    <2>4. hosted' \in [EngineSet -> SUBSET Profiles] /\ file' \in [EngineSet -> Config]
      BY <1>10, <1>3, <2>2 DEF Render, ModuleTypes
    <2>5. ProcessTypes' /\ ModuleTypes'
      BY <1>3, <1>10, <2>4 DEF Render, ProcessTypes, ModuleTypes, settingsVars
    <2>6. QED
      BY <2>3, <2>5, TypeParts
  <1>11. CASE Refused(c)
    <2>1. CallTypes'
      BY <1>11, <1>4, <1>6, CallKept DEF Refused
    <2>2. ProcessTypes' /\ ModuleTypes'
      BY <1>3, <1>11 DEF Refused, ProcessTypes, ModuleTypes, settingsVars, moduleVars
    <2>3. QED
      BY <2>1, <2>2, TypeParts
  <1>12. CASE Accepted(c)
    <2>1. EngineAt(c) \in EngineSet /\ call[c].at <= n
      BY <1>4, <1>6, <1>12 DEF Accepted
    <2>2. ProcessTypes' /\ procs' \in [EngineSet -> Procs \cup {None}]
      BY <2>1, <1>12, StopType DEF Accepted
    <2>3. CallTypes'
      <3>1. CASE Alive(procs[EngineAt(c)])
        <4> DEFINE r == [call[c] EXCEPT !.pc = "stop", !.waits = procs[EngineAt(c)]]
        <4>1. procs[EngineAt(c)] \in Procs
          BY <2>1, <3>1 DEF Types, TypeOK, Alive
        <4>2. call' = [call EXCEPT ![c] = r]
          BY <1>12, <3>1, <1>1 DEF Accepted, AwaitExit
        <4>3. r \in Call /\ r.at <= n
          BY <4>1, <2>1, <1>1 DEF Call, Pcs
        <4>4. QED
          BY <4>2, <4>3, CallKept
      <3>2. CASE ~Alive(procs[EngineAt(c)])
        <4> DEFINE r == [call[c] EXCEPT !.pc = "spawn"]
        <4>1. call' = [call EXCEPT ![c] = r]
          BY <1>12, <3>2, <1>1 DEF Accepted
        <4>2. r \in Call /\ r.at <= n
          BY <2>1, <1>1 DEF Call, Pcs
        <4>3. QED
          BY <4>1, <4>2, CallKept
      <3>3. QED
        BY <3>1, <3>2
    <2>4. ModuleTypes'
      BY <1>3, <1>12, <2>2 DEF Accepted, ModuleTypes, settingsVars
    <2>5. QED
      BY <2>2, <2>3, <2>4, TypeParts
  <1>13. CASE StopDone(c)
    <2> DEFINE r == [call[c] EXCEPT !.pc = "spawn", !.waits = None]
    <2>1. call' = [call EXCEPT ![c] = r]
      BY <1>13, <1>1 DEF StopDone
    <2>2. r \in Call /\ r.at <= n
      BY <1>13, <1>1, <1>4 DEF StopDone, Call, Pcs
    <2>3. CallTypes'
      BY <2>1, <2>2, CallKept
    <2>4. ProcessTypes' /\ ModuleTypes'
      BY <1>3, <1>13 DEF StopDone, ProcessTypes, ModuleTypes, settingsVars, moduleVars
    <2>5. QED
      BY <2>3, <2>4, TypeParts
  <1>14. CASE Spawn(c)
    <2>1. EngineAt(c) \in EngineSet /\ call[c].at <= n
      BY <1>4, <1>6, <1>14 DEF Spawn
    <2>2. PICK p \in Procs :
            /\ engine' = [engine EXCEPT ![p] = [Dead EXCEPT !.st = "starting", !.of = EngineAt(c)]]
            /\ procs' = [procs EXCEPT ![EngineAt(c)] = p]
            /\ call' = [call EXCEPT ![c].pc = "settle", ![c].waits = p]
      BY <1>14 DEF Spawn
    <2> DEFINE r == [call[c] EXCEPT !.pc = "settle", !.waits = p]
               q == [Dead EXCEPT !.st = "starting", !.of = EngineAt(c)]
    <2>3. call' = [call EXCEPT ![c] = r]
      BY <2>2, <1>1
    <2>4. r \in Call /\ r.at <= n
      BY <1>1, <2>1 DEF Call, Pcs
    <2>5. CallTypes'
      BY <2>3, <2>4, CallKept
    <2>6. q \in Process /\ q.of # None
      BY <2>1, NoneIsNothingElse DEF Dead, Process, Config
    <2>7. ProcessTypes'
      BY <2>2, <2>6, <1>3 DEF ProcessTypes
    <2>8. procs' \in [EngineSet -> Procs \cup {None}]
      BY <2>2, <1>3 DEF ModuleTypes
    <2>9. hashes' \in [EngineSet -> Config \cup {None}]
      BY <1>14, <1>1, <1>3 DEF Spawn, ModuleTypes, Call
    <2>10. ModuleTypes'
      BY <1>3, <1>14, <2>8, <2>9 DEF Spawn, ModuleTypes, settingsVars
    <2>11. QED
      BY <2>5, <2>7, <2>10, TypeParts
  <1>15. CASE SpawnFails(c)
    <2>1. CallTypes'
      BY <1>15, <1>5, CallKept DEF SpawnFails
    <2>2. faults' \in 0..MaxFaults
      BY <1>15, <1>3, BoundsAreNatural DEF SpawnFails, ModuleTypes
    <2>3. ProcessTypes' /\ ModuleTypes'
      BY <1>3, <1>15, <2>2 DEF SpawnFails, ProcessTypes, ModuleTypes, settingsVars, moduleVars
    <2>4. QED
      BY <2>1, <2>3, TypeParts
  <1>16. CASE Settle(c)
    <2>1. EngineAt(c) \in EngineSet /\ call[c].at <= n
      BY <1>4, <1>6, <1>16 DEF Settle
    <2>2. CallTypes'
      BY <1>16, <1>6, <2>1, CallKept DEF Settle
    <2>3. Ids(call[c].cand) \in SUBSET Profiles
      BY <1>1, Operators DEF Call
    <2>4. hosted' \in [EngineSet -> SUBSET Profiles]
      BY <1>16, <1>3, <2>3 DEF Settle, ModuleTypes
    <2>5. ProcessTypes' /\ ModuleTypes'
      BY <1>3, <1>16, <2>4 DEF Settle, ProcessTypes, ModuleTypes, settingsVars
    <2>6. QED
      BY <2>2, <2>5, TypeParts
  <1>17. CASE Finish(c)
    <2>1. CallTypes'
      BY <1>17, <1>5, CallKept DEF Finish
    <2>2. ProcessTypes' /\ ModuleTypes'
      BY <1>3, <1>17, Operators DEF Finish, ProcessTypes, ModuleTypes, settingsVars
    <2>3. QED
      BY <2>1, <2>2, TypeParts
  <1>18. QED
    BY <1>7, <1>8, <1>9, <1>10, <1>11, <1>12, <1>13, <1>14, <1>15, <1>16, <1>17 DEF Step

\* The steps of everything else.
LEMMA OtherStepTypes ==
    ASSUME Types,
           \/ \E h \in Handlers : SaveCores(h)
           \/ \E p \in Procs : EngineBoot(p) \/ EngineExit(p) \/ EngineCrash(p)
           \/ \E u \in Users : ToggleUser(u)
           \/ Shutdown \/ StopAll \/ Stopped \/ Terminated \/ UNCHANGED vars
    PROVE  Types'
  <1>1. CallTypes /\ ProcessTypes /\ ModuleTypes
    BY TypeParts
  <1>2. Loop \in Callers /\ Handlers \subseteq Callers
    BY DEF Callers
  <1>3. ASSUME NEW h \in Handlers, SaveCores(h) PROVE Types'
    <2>1. setting' \in [Profiles -> Setting]
      BY <1>1, <1>3 DEF SaveCores, ModuleTypes
    <2>2. Wanted' \in SUBSET EngineSet
      BY <2>1 DEF Wanted, Setting
    <2>3. PICK b \in BOOLEAN : call' = [call EXCEPT ![h] =
            [IdleCall EXCEPT !.pc = "next", !.force = b, !.wanted = Wanted']]
      BY <1>3 DEF SaveCores, BeginWith
    <2> DEFINE w == Wanted'
    <2> HIDE DEF w
    <2>4. w \in SUBSET EngineSet /\ h \in Callers
      BY <2>2, <1>2 DEF w
    <2>5. [IdleCall EXCEPT !.pc = "next", !.force = b, !.wanted = w] \in Call
      BY <2>4, CallForms
    <2>6. call' = [call EXCEPT ![h] = [IdleCall EXCEPT !.pc = "next", !.force = b, !.wanted = w]]
      BY <2>3 DEF w
    <2>7. CallTypes'
      BY <2>4, <2>5, <2>6, CallKept DEF IdleCall
    <2>8. changes' \in 0..MaxChanges
      BY <1>1, <1>3, BoundsAreNatural DEF SaveCores, ModuleTypes
    <2>9. ProcessTypes' /\ ModuleTypes'
      BY <1>1, <1>3, <2>1, <2>8 DEF SaveCores, ProcessTypes, ModuleTypes, moduleVars
    <2>10. QED
      BY <2>7, <2>9, TypeParts
  <1>4. ASSUME NEW p \in Procs, EngineBoot(p) PROVE Types'
    <2>1. engine[p] \in Process /\ engine[p].of \in EngineSet
      BY <1>1, <1>4 DEF EngineBoot, ProcessTypes, Process
    <2>2. file[engine[p].of] \in Config
      BY <1>1, <2>1 DEF ModuleTypes
    <2>3. [engine[p] EXCEPT !.st = "up", !.cfg = file[engine[p].of]] \in Process
      BY <2>1, <2>2 DEF Process
    <2>4. Dead \in Process /\ Dead.st = "dead"
      BY Operators DEF Dead
    <2>5. engine' = [engine EXCEPT ![p] = [engine[p] EXCEPT !.st = "up", !.cfg = file[engine[p].of]]]
          \/ engine' = [engine EXCEPT ![p] = Dead]
      BY <1>4 DEF EngineBoot
    <2>6. [engine[p] EXCEPT !.st = "up", !.cfg = file[engine[p].of]].st = "up"
      BY <2>1 DEF Process
    <2>7. ProcessTypes'
      BY <1>1, <2>3, <2>4, <2>5, <2>6 DEF ProcessTypes
    <2>8. CallTypes' /\ ModuleTypes'
      BY <1>1, <1>4 DEF EngineBoot, CallTypes, ModuleTypes, settingsVars, moduleVars
    <2>9. QED
      BY <2>7, <2>8, TypeParts
  <1>5. ASSUME NEW p \in Procs, EngineExit(p) \/ EngineCrash(p) PROVE Types'
    <2>1. Dead \in Process /\ Dead.st = "dead"
      BY Operators DEF Dead
    <2>2. ProcessTypes'
      BY <1>1, <1>5, <2>1 DEF EngineExit, EngineCrash, ProcessTypes
    <2>3. faults' \in 0..MaxFaults
      BY <1>1, <1>5, BoundsAreNatural DEF EngineExit, EngineCrash, ModuleTypes
    <2>4. CallTypes' /\ ModuleTypes'
      BY <1>1, <1>5, <2>3 DEF EngineExit, EngineCrash, CallTypes, ModuleTypes, settingsVars, moduleVars
    <2>5. QED
      BY <2>2, <2>4, TypeParts
  <1>6. ASSUME NEW u \in Users, ToggleUser(u) PROVE Types'
    <2>1. changes' \in 0..MaxChanges /\ active' \subseteq Users
      BY <1>1, <1>6, BoundsAreNatural DEF ToggleUser, ModuleTypes
    <2>2. CallTypes' /\ ProcessTypes' /\ ModuleTypes'
      BY <1>1, <1>6, <2>1 DEF ToggleUser, CallTypes, ProcessTypes, ModuleTypes, moduleVars
    <2>3. QED
      BY <2>2, TypeParts
  <1>7. CASE Shutdown
    <2>1. CallTypes'
      BY <1>2, <1>7, CallForms, CallKept DEF Shutdown
    <2>2. ProcessTypes' /\ ModuleTypes'
      BY <1>1, <1>7 DEF Shutdown, ProcessTypes, ModuleTypes, settingsVars, moduleVars
    <2>3. QED
      BY <2>1, <2>2, TypeParts
  <1>8. CASE StopAll
    <2>1. PICK e \in EngineSet :
            /\ procs[e] # None
            /\ StopAt(e)
            /\ call' = IF Alive(procs[e])
                       THEN [call EXCEPT ![Loop] =
                                [IdleCall EXCEPT !.pc = "off", !.waits = procs[e]]]
                       ELSE call
      BY <1>8 DEF StopAll
    <2>2. ProcessTypes' /\ procs' \in [EngineSet -> Procs \cup {None}]
      BY <2>1, StopType
    <2>3. CallTypes'
      <3>1. CASE Alive(procs[e])
        <4> DEFINE r == [IdleCall EXCEPT !.pc = "off", !.waits = procs[e]]
        <4>1. procs[e] \in Procs
          BY <2>1, <1>1 DEF ModuleTypes
        <4>2. call' = [call EXCEPT ![Loop] = r]
          BY <2>1, <3>1
        <4>3. 1 <= Len(Engines)
          BY EnginesIsSeq DEF EngineSet
        <4>4. IdleCall \in Call
          BY <1>2, CallForms
        <4>5. r \in Call /\ r.at <= Len(Engines)
          BY <4>1, <4>3, <4>4 DEF IdleCall, Call, Pcs
        <4>6. QED
          BY <4>2, <4>5, <1>2, CallKept
      <3>2. CASE ~Alive(procs[e])
        BY <3>2, <2>1, <1>1 DEF CallTypes
      <3>3. QED
        BY <3>1, <3>2
    <2>4. ModuleTypes'
      BY <1>1, <1>8, <2>2 DEF StopAll, ModuleTypes, settingsVars
    <2>5. QED
      BY <2>2, <2>3, <2>4, TypeParts
  <1>9. CASE Stopped
    <2>1. CallTypes' /\ ProcessTypes' /\ ModuleTypes'
      BY <1>1, <1>9 DEF Stopped, CallTypes, ProcessTypes, ModuleTypes, settingsVars, moduleVars
    <2>2. QED
      BY <2>1, TypeParts
  <1>10. CASE UNCHANGED vars
    <2>1. CallTypes' /\ ProcessTypes' /\ ModuleTypes'
      BY <1>1, <1>10 DEF vars, CallTypes, ProcessTypes, ModuleTypes, settingsVars, moduleVars
    <2>2. QED
      BY <2>1, TypeParts
  <1>11. QED
    BY <1>3, <1>4, <1>5, <1>6, <1>7, <1>8, <1>9, <1>10 DEF Terminated

\* The state of the supervisor keeps its shape.
THEOREM TypeCorrect == Spec => []TypeOK
  <1>1. Types /\ [Next]_vars => Types'
    BY CallStepTypes, OtherStepTypes DEF Next
  <1>2. Types => TypeOK
    BY DEF Types
  <1>3. QED
    BY TypesInit, <1>1, <1>2, PTL DEF Spec

(***************************************************************************)
(* Order, while the calls do not overlap.                                  *)
(***************************************************************************)

\* Nothing is running, nothing remembered.
LEMMA OrderlyInit == Init => Orderly
  <1> SUFFICES ASSUME Init PROVE Orderly
    OBVIOUS
  <1>1. \A c \in Callers : call[c].pc = "idle"
    BY DEF Init, IdleCall
  <1>2. (\A e \in EngineSet : procs[e] = None) /\ (\A p \in Procs : engine[p].st = "dead") /\ ~Over
    BY DEF Init, Dead, Over
  <1>3. Serial /\ Closing /\ Owned
    BY <1>1, <1>2 DEF Serial, Closing, Owned, Over
  <1>4. (\A c \in Callers : Candidate(c)) /\ (\A e \in EngineSet : Remembered(e))
    BY <1>1, <1>2 DEF Candidate, Remembered
  <1>5. QED
    BY <1>3, <1>4 DEF Orderly

\* A call that runs is the only one that is not idle, and before the lifespan ends it
\* runs outside stop_all(); if it is not waiting for a process, nobody is.
LEMMA Alone ==
    ASSUME Orderly, NEW c \in Callers, call[c].pc # "idle"
    PROVE  /\ \A d \in Callers : d # c => call[d].pc = "idle"
           /\ call[c].pc # "off" => ~Over
           /\ call[c].pc # "settle" => \A e \in EngineSet : ~Settling(e)
           /\ call[c].pc \notin {"off", "settle"} => \A e \in EngineSet :
                procs[e] # None /\ engine[procs[e]].st \in {"starting", "up"} =>
                    /\ engine[procs[e]].st = "up"
                    /\ engine[procs[e]].cfg = hashes[e]
                    /\ hosted[e] \subseteq Ids(engine[procs[e]].cfg)
  <1>1. \A d \in Callers : d # c => call[d].pc = "idle"
    BY DEF Orderly, Serial
  <1>2. call[c].pc # "off" => ~Over
    BY DEF Orderly, Closing
  <1>3. call[c].pc # "settle" => \A e \in EngineSet : ~Settling(e)
    BY <1>1 DEF Settling
  <1>4. QED
    BY <1>1, <1>2, <1>3 DEF Orderly, Remembered

\* A step that leaves the processes and what is known of them alone.
LEMMA QuietStep ==
    ASSUME Types, Orderly, Serial', Closing', NEW c \in Callers,
           UNCHANGED <<file, procs, hashes, engine>>,
           \A e \in EngineSet : hosted'[e] \subseteq hosted[e],
           Over => Over',
           \A d \in Callers : d # c => call'[d] = call[d],
           call'[c] = call[c] \/ call'[c].pc \in {"idle", "next"},
           call'[c] = call[c] \/ call[c].pc # "settle" \/ Over'
    PROVE  Orderly'
  <1>1. Owned'
    BY DEF Orderly, Owned
  <1>2. \A d \in Callers : Candidate(d)'
    BY DEF Orderly, Candidate, EngineAt
  <1>3. ASSUME NEW e \in EngineSet PROVE Remembered(e)'
    <2>1. Settling(e) => Settling(e)' \/ Over'
      BY DEF Settling, EngineAt
    <2>2. Remembered(e)
      BY DEF Orderly
    <2>3. QED
      BY <2>1, <2>2 DEF Remembered, Ids
  <1>4. QED
    BY <1>1, <1>2, <1>3 DEF Orderly

\* _stop() removes one process and makes it go.
LEMMA StopKeeps ==
    ASSUME Types, Owned, NEW e \in EngineSet, StopAt(e)
    PROVE  /\ Owned'
           /\ procs'[e] = None
           /\ \A f \in EngineSet : f # e =>
                /\ procs'[f] = procs[f]
                /\ procs[f] # None => engine'[procs[f]] = engine[procs[f]]
  <1>1. procs \in [EngineSet -> Procs \cup {None}] /\ engine \in [Procs -> Process]
    BY DEF Types, TypeOK
  <1>2. procs'[e] = None /\ \A f \in EngineSet : f # e => procs'[f] = procs[f]
    BY <1>1 DEF StopAt
  <1>3. \A p \in Procs : p # procs[e] => engine'[p] = engine[p]
    BY <1>1 DEF StopAt
  <1>4. \A f \in EngineSet : f # e /\ procs[f] # None => procs[f] # procs[e] /\ procs[f] \in Procs
    BY <1>1 DEF Owned
  <1>5. ASSUME procs[e] \in Procs PROVE engine'[procs[e]].st \in {"dead", "term"}
    <2>1. CASE Alive(procs[e])
      <3>1. engine' = [engine EXCEPT ![procs[e]] = [engine[procs[e]] EXCEPT !.st = "term"]]
        BY <2>1 DEF StopAt
      <3>2. engine[procs[e]] \in Process
        BY <1>1, <1>5
      <3>3. QED
        BY <1>1, <1>5, <3>1, <3>2 DEF Process
    <2>2. CASE ~Alive(procs[e])
      <3>1. engine[procs[e]].st = "dead"
        BY <1>1, <1>5, <2>2, NoneIsNothingElse DEF Alive, Process
      <3>2. engine' = engine
        BY <2>2 DEF StopAt
      <3>3. QED
        BY <3>1, <3>2
    <2>3. QED
      BY <2>1, <2>2
  <1>6. \A f, g \in EngineSet : procs'[f] # None /\ procs'[f] = procs'[g] => f = g
    BY <1>2 DEF Owned
  <1>7. \A f \in EngineSet : procs'[f] # None =>
            engine'[procs'[f]].st # "term"
            /\ (engine'[procs'[f]].st = "starting" => engine'[procs'[f]].of = f)
    BY <1>2, <1>3, <1>4 DEF Owned
  <1>8. ASSUME NEW p \in Procs, engine'[p].st \in {"starting", "up"}
        PROVE  \E f \in EngineSet : procs'[f] = p
    <2>1. p # procs[e]
      BY <1>5, <1>8
    <2>2. PICK f \in EngineSet : procs[f] = p
      BY <1>3, <1>8, <2>1 DEF Owned
    <2>3. QED
      BY <1>2, <2>1, <2>2
  <1>9. Owned'
    BY <1>6, <1>7, <1>8 DEF Owned
  <1>10. QED
    BY <1>2, <1>3, <1>4, <1>9

\* A step that stops one engine and does not let a call wait for a process.
LEMMA StopStep ==
    ASSUME Types, Orderly, Serial', Closing', NEW e \in EngineSet, StopAt(e),
           UNCHANGED <<file, hashes>>,
           \A f \in EngineSet : f # e => hosted'[f] = hosted[f],
           Over => Over',
           \A f \in EngineSet : ~Settling(f) \/ Over,
           \A d \in Callers : Candidate(d)'
    PROVE  Orderly'
  <1>1. /\ Owned'
        /\ procs'[e] = None
        /\ \A f \in EngineSet : f # e =>
             /\ procs'[f] = procs[f]
             /\ procs[f] # None => engine'[procs[f]] = engine[procs[f]]
    BY StopKeeps DEF Orderly
  <1>2. ASSUME NEW f \in EngineSet PROVE Remembered(f)'
    <2>1. CASE f = e
      BY <1>1, <2>1 DEF Remembered
    <2>2. CASE f # e
      <3>1. Remembered(f)
        BY DEF Orderly
      <3>2. QED
        BY <1>1, <2>2, <3>1 DEF Remembered, Ids
    <2>3. QED
      BY <2>1, <2>2
  <1>3. QED
    BY <1>1, <1>2 DEF Orderly

\* What a step of a call does to the calls.
LEMMA OneCall ==
    ASSUME Types, NEW c \in Callers, Step(c) \/ SpawnFails(c)
    PROVE  /\ call[c].pc # "idle"
           /\ \A d \in Callers : d # c => call'[d] = call[d]
           /\ call \in [Callers -> Call]
           /\ call[c].pc # "next" => call[c].at <= Len(Engines)
  <1>1. call \in [Callers -> Call]
    BY DEF Types, TypeOK
  <1>2. call[c].pc # "idle"
    BY DEF Step, SpawnFails, TurnOff, OffDone, Render, Refused, Accepted, StopDone, Spawn, Settle, Finish
  <1>3. TurnOff(c) \/ OffDone(c) \/ Render(c) \/ Refused(c) =>
            \A d \in Callers : d # c => call'[d] = call[d]
    BY <1>1 DEF TurnOff, OffDone, Render, Refused, AwaitExit
  <1>4. Accepted(c) \/ StopDone(c) \/ Spawn(c) \/ SpawnFails(c) =>
            \A d \in Callers : d # c => call'[d] = call[d]
    BY <1>1 DEF Accepted, StopDone, Spawn, SpawnFails, AwaitExit
  <1>5. Settle(c) \/ Finish(c) => \A d \in Callers : d # c => call'[d] = call[d]
    BY <1>1 DEF Settle, Finish
  <1>6. QED
    BY <1>1, <1>2, <1>3, <1>4, <1>5 DEF Step, Types

\* A step of a running call keeps the calls apart.
LEMMA StillSerial ==
    ASSUME Types, Orderly, NEW c \in Callers, Step(c) \/ SpawnFails(c)
    PROVE  /\ Serial'
           /\ phase' = phase /\ (Over => call'[c].pc = "idle") /\ procs' = procs => Closing'
           /\ ~Over' => Closing'
  <1>1. \A d \in Callers : d # c => call'[d].pc = "idle"
    BY OneCall, Alone
  <1>2. Serial'
    BY <1>1 DEF Serial
  <1>3. c \in Handlers => ~Over
    BY OneCall DEF Orderly, Closing
  <1>4. Handlers \subseteq Callers
    BY DEF Callers
  <1>5. ASSUME phase' = phase, Over => call'[c].pc = "idle", procs' = procs PROVE Closing'
    BY <1>1, <1>3, <1>4, <1>5 DEF Orderly, Closing, Over
  <1>6. ~Over' => Closing'
    BY DEF Closing, Over
  <1>7. QED
    BY <1>2, <1>5, <1>6

\* The steps of a call.
LEMMA OrderlyCallStep ==
    ASSUME Types, Orderly, NEW c \in Callers, Step(c) \/ SpawnFails(c)
    PROVE  Orderly'
  <1>1. /\ call[c].pc # "idle"
        /\ \A d \in Callers : d # c => call'[d] = call[d] /\ call[d].pc = "idle"
        /\ call \in [Callers -> Call]
    BY OneCall, Alone
  <1>2. procs \in [EngineSet -> Procs \cup {None}] /\ engine \in [Procs -> Process]
        /\ hosted \in [EngineSet -> SUBSET Profiles] /\ file \in [EngineSet -> Config]
        /\ hashes \in [EngineSet -> Config \cup {None}]
    BY DEF Types, TypeOK
  <1>3. call[c].pc # "next" => EngineAt(c) \in EngineSet
    BY OneCall, AtAnEngine
  <1>4. ASSUME NEW d \in Callers, d # c PROVE Candidate(d)'
    BY <1>1, <1>4 DEF Candidate
  <1>5. call[c].at <= Len(Engines) => Onward(c).pc = "next"
    BY CallForms
  <1>6. CASE TurnOff(c)
    <2>1. EngineAt(c) \in EngineSet /\ call[c].pc = "next" /\ StopAt(EngineAt(c))
      BY <1>6, AtAnEngine DEF TurnOff
    <2>2. ~Over /\ \A e \in EngineSet : ~Settling(e)
      BY <2>1, Alone
    <2>3. call'[c].pc \in {"off", "next"}
      <3>1. CASE Alive(procs[EngineAt(c)])
        BY <1>1, <1>6, <3>1 DEF TurnOff, AwaitExit, Call
      <3>2. CASE ~Alive(procs[EngineAt(c)])
        BY <1>1, <1>5, <1>6, <3>2 DEF TurnOff
      <3>3. QED
        BY <3>1, <3>2
    <2>4. Serial' /\ Closing'
      BY <2>2, <1>6, StillSerial DEF TurnOff, Over, Step
    <2>5. Candidate(c)'
      BY <2>3 DEF Candidate
    <2>6. \A f \in EngineSet : f # EngineAt(c) => hosted'[f] = hosted[f]
      BY <1>2, <1>6 DEF TurnOff
    <2>7. QED
      BY <2>1, <2>2, <2>4, <2>5, <2>6, <1>4, <1>6, StopStep DEF TurnOff
  <1>7. CASE OffDone(c)
    <2>1. call'[c].pc \in {"idle", "next"} /\ (phase = "closing" => call'[c].pc = "idle")
      BY <1>1, <1>5, <1>7, OneCall DEF OffDone, IdleCall, Step
    <2>2. phase # "stopped"
      BY <1>1 DEF Orderly, Closing
    <2>3. Serial' /\ Closing'
      BY <2>1, <2>2, <1>7, StillSerial DEF OffDone, Over, Step
    <2>4. \A e \in EngineSet : hosted'[e] \subseteq hosted[e]
      BY <1>2, <1>7 DEF OffDone
    <2>5. QED
      BY <2>1, <2>3, <2>4, <1>1, <1>7, QuietStep DEF OffDone, Over
  <1>8. CASE Refused(c) \/ SpawnFails(c) \/ Finish(c)
    <2>1. call'[c].pc \in {"idle", "next"} /\ call[c].pc \notin {"off", "settle"}
      BY <1>1, <1>5, <1>8, OneCall DEF Refused, SpawnFails, Finish, IdleCall, Step
    <2>2. ~Over /\ ~Over'
      BY <2>1, <1>8, Alone DEF Refused, SpawnFails, Finish, Over
    <2>3. Serial' /\ Closing'
      BY <2>2, <1>8, StillSerial DEF Step
    <2>4. UNCHANGED <<file, procs, hashes, engine, hosted>>
      BY <1>8 DEF Refused, SpawnFails, Finish, moduleVars
    <2>5. QED
      BY <2>1, <2>2, <2>3, <2>4, <1>1, QuietStep
  <1>9. CASE Render(c)
    <2>1. EngineAt(c) \in EngineSet /\ call[c].pc = "next"
      BY <1>9, AtAnEngine DEF Render
    <2>2. ~Over /\ (\A e \in EngineSet : ~Settling(e)) /\ phase' = phase
      BY <2>1, <1>9, Alone DEF Render
    <2>3. Serial' /\ Closing'
      BY <2>2, <1>9, StillSerial DEF Over, Step
    <2>4. \A e \in EngineSet : procs[e] # None /\ engine[procs[e]].st \in {"starting", "up"} =>
            /\ engine[procs[e]].st = "up"
            /\ engine[procs[e]].cfg = hashes[e]
            /\ hosted[e] \subseteq Ids(engine[procs[e]].cfg)
      BY <2>1, <1>1, Alone
    <2>5. Owned'
      BY <1>9 DEF Orderly, Owned, Render
    <2>6. CASE Unchanged(c)
      <3>1. call'[c].pc = "next"
        BY <1>1, <1>5, <1>9, <2>6 DEF Render
      <3>2. Candidate(c)'
        BY <3>1 DEF Candidate
      <3>3. hashes[EngineAt(c)] = Listeners(EngineAt(c))
        BY <2>6 DEF Unchanged
      <3>4. hosted' = [hosted EXCEPT ![EngineAt(c)] = Ids(hashes[EngineAt(c)])]
        BY <1>9, <2>6, <3>3 DEF Render
      <3>5. ASSUME NEW e \in EngineSet PROVE Remembered(e)'
        <4>1. procs[e] # None /\ engine[procs[e]].st \in {"starting", "up"} =>
                hosted'[e] \subseteq Ids(engine[procs[e]].cfg)
          BY <1>2, <2>4, <3>4
        <4>2. QED
          BY <1>9, <2>4, <4>1 DEF Render, Remembered, Ids
      <3>6. QED
        BY <2>3, <2>5, <3>2, <3>5, <1>4 DEF Orderly
    <2>7. CASE ~Unchanged(c)
      <3>1. /\ file' = [file EXCEPT ![EngineAt(c)] = Listeners(EngineAt(c))]
            /\ call' = [call EXCEPT ![c].pc = "validate", ![c].cand = Listeners(EngineAt(c))]
            /\ UNCHANGED <<procs, hashes, hosted, engine>>
        BY <1>9, <2>7 DEF Render
      <3>2. call'[c].pc = "validate" /\ call'[c].at = call[c].at
            /\ call'[c].cand = Listeners(EngineAt(c))
        BY <1>1, <3>1, CallForms DEF Call
      <3>3. Candidate(c)'
        BY <1>2, <2>1, <3>1, <3>2 DEF Candidate, EngineAt
      <3>4. ASSUME NEW e \in EngineSet PROVE Remembered(e)'
        BY <2>4, <3>1 DEF Remembered, Ids
      <3>5. QED
        BY <2>3, <2>5, <3>3, <3>4, <1>4 DEF Orderly
    <2>8. QED
      BY <2>6, <2>7
  <1>10. CASE Accepted(c)
    <2>1. EngineAt(c) \in EngineSet /\ call[c].pc = "validate" /\ StopAt(EngineAt(c))
      BY <1>3, <1>10 DEF Accepted
    <2>2. ~Over /\ (\A e \in EngineSet : ~Settling(e)) /\ phase' = phase
      BY <2>1, <1>10, Alone DEF Accepted
    <2>3. call[c].cand = file[EngineAt(c)]
      BY <2>1 DEF Orderly, Candidate
    <2>4. call'[c].pc \in {"stop", "spawn"} /\ call'[c].at = call[c].at /\ call'[c].cand = call[c].cand
      <3>1. CASE Alive(procs[EngineAt(c)])
        <4>1. call' = [call EXCEPT ![c].pc = "stop", ![c].waits = procs[EngineAt(c)]]
          BY <1>10, <3>1 DEF Accepted, AwaitExit
        <4>2. QED
          BY <1>1, <4>1, CallForms DEF Call
      <3>2. CASE ~Alive(procs[EngineAt(c)])
        <4>1. call' = [call EXCEPT ![c].pc = "spawn"]
          BY <1>10, <3>2 DEF Accepted
        <4>2. QED
          BY <1>1, <4>1, CallForms DEF Call
      <3>3. QED
        BY <3>1, <3>2
    <2>5. procs'[EngineAt(c)] = None
      BY <1>2, <2>1 DEF StopAt
    <2>6. Candidate(c)'
      BY <1>10, <2>3, <2>4, <2>5 DEF Accepted, Candidate, EngineAt
    <2>7. Serial' /\ Closing'
      BY <2>2, <1>10, StillSerial DEF Over, Step
    <2>8. QED
      BY <2>1, <2>2, <2>6, <2>7, <1>4, <1>10, StopStep DEF Accepted
  <1>11. CASE StopDone(c)
    <2>1. EngineAt(c) \in EngineSet /\ call[c].pc = "stop"
      BY <1>3, <1>11 DEF StopDone
    <2>2. ~Over /\ (\A e \in EngineSet : ~Settling(e)) /\ phase' = phase
      BY <2>1, <1>11, Alone DEF StopDone
    <2>3. call'[c].pc = "spawn" /\ call'[c].at = call[c].at /\ call'[c].cand = call[c].cand
      BY <1>1, <1>11, CallForms DEF StopDone, Call
    <2>4. UNCHANGED <<file, procs, hashes, hosted, engine>>
      BY <1>11 DEF StopDone, moduleVars
    <2>5. Candidate(c)'
      BY <2>1, <2>3, <2>4 DEF Orderly, Candidate, EngineAt
    <2>6. Owned'
      BY <2>4 DEF Orderly, Owned
    <2>7. ASSUME NEW e \in EngineSet PROVE Remembered(e)'
      BY <2>2, <2>4 DEF Orderly, Remembered, Ids
    <2>8. Serial' /\ Closing'
      BY <2>2, <1>11, StillSerial DEF Over, Step
    <2>9. QED
      BY <2>5, <2>6, <2>7, <2>8, <1>4 DEF Orderly
  <1>12. CASE Spawn(c)
    <2> DEFINE e0 == EngineAt(c)
    <2>1. e0 \in EngineSet /\ call[c].pc = "spawn"
      BY <1>3, <1>12 DEF Spawn
    <2>2. ~Over /\ (\A e \in EngineSet : ~Settling(e)) /\ phase' = phase
      BY <2>1, <1>12, Alone DEF Spawn
    <2>3. PICK p \in Procs :
            /\ Free(p)
            /\ engine' = [engine EXCEPT ![p] = [Dead EXCEPT !.st = "starting", !.of = e0]]
            /\ procs' = [procs EXCEPT ![e0] = p]
            /\ call' = [call EXCEPT ![c].pc = "settle", ![c].waits = p]
      BY <1>12 DEF Spawn
    <2>4. hashes' = [hashes EXCEPT ![e0] = call[c].cand] /\ hosted' = hosted /\ file' = file
      BY <1>12 DEF Spawn
    <2>5. call[c].cand = file[e0] /\ procs[e0] = None
      BY <2>1 DEF Orderly, Candidate
    <2>6. call'[c].pc = "settle" /\ call'[c].at = call[c].at /\ call'[c].cand = call[c].cand
          /\ call'[c].waits = p
      BY <1>1, <2>3, CallForms DEF Call
    <2>7. engine'[p].st = "starting" /\ engine'[p].of = e0 /\ p # None
      BY <1>2, <2>3, NoneIsNothingElse DEF Dead
    <2>8. procs'[e0] = p /\ hashes'[e0] = file[e0]
      BY <1>2, <2>1, <2>3, <2>4, <2>5
    <2>9. \A e \in EngineSet : e # e0 =>
            /\ procs'[e] = procs[e] /\ hashes'[e] = hashes[e] /\ procs[e] # p
            /\ procs[e] # None => engine'[procs[e]] = engine[procs[e]]
      BY <1>2, <2>1, <2>3, <2>4 DEF Free
    <2>10. \A q \in Procs : q # p => engine'[q] = engine[q]
      BY <1>2, <2>3
    <2>11. Owned'
      <3>1. \A e, f \in EngineSet : procs'[e] # None /\ procs'[e] = procs'[f] => e = f
        BY <2>8, <2>9 DEF Orderly, Owned
      <3>2. \A e \in EngineSet : procs'[e] # None =>
                /\ engine'[procs'[e]].st # "term"
                /\ engine'[procs'[e]].st = "starting" => engine'[procs'[e]].of = e
        BY <2>7, <2>8, <2>9 DEF Orderly, Owned
      <3>3. \A q \in Procs : engine'[q].st \in {"starting", "up"} => \E e \in EngineSet : procs'[e] = q
        <4>1. SUFFICES ASSUME NEW q \in Procs, engine'[q].st \in {"starting", "up"}
                       PROVE  \E e \in EngineSet : procs'[e] = q
          OBVIOUS
        <4>2. CASE q = p
          BY <2>1, <2>8, <4>2
        <4>3. CASE q # p
          <5>1. PICK e \in EngineSet : procs[e] = q
            BY <2>10, <4>1, <4>3 DEF Orderly, Owned
          <5>2. e # e0
            BY <2>5, <5>1, NoneIsNothingElse
          <5>3. QED
            BY <2>9, <5>1, <5>2
        <4>4. QED
          BY <4>2, <4>3
      <3>4. QED
        BY <3>1, <3>2, <3>3 DEF Owned
    <2>12. Candidate(c)'
      BY <2>5, <2>6, <2>7, <2>8 DEF Candidate, EngineAt
    <2>13. \A e \in EngineSet : e = e0 => Settling(e)'
      BY <2>6 DEF Settling, EngineAt
    <2>14. ASSUME NEW e \in EngineSet PROVE Remembered(e)'
      <3>1. CASE e = e0
        <4>1. file'[e] = hashes'[e] /\ procs'[e] = p /\ Settling(e)'
          BY <3>1, <2>4, <2>8, <2>13
        <4>2. engine'[procs'[e]].st = "starting"
          BY <2>7, <4>1
        <4>3. QED
          BY <4>1, <4>2 DEF Remembered
      <3>2. CASE e # e0
        <4>1. Remembered(e) /\ ~Settling(e)
          BY <2>2 DEF Orderly
        <4>2. QED
          BY <2>2, <2>4, <2>9, <3>2, <4>1 DEF Remembered, Ids
      <3>3. QED
        BY <3>1, <3>2
    <2>15. Serial' /\ Closing'
      BY <2>2, <1>12, StillSerial DEF Over, Step
    <2>16. QED
      BY <2>11, <2>12, <2>14, <2>15, <1>4 DEF Orderly
  <1>13. CASE Settle(c)
    <2> DEFINE e0 == EngineAt(c)
    <2>1. e0 \in EngineSet /\ call[c].pc = "settle" /\ call[c].at <= Len(Engines)
      BY <1>3, <1>13, OneCall DEF Settle, Step
    <2>2. ~Over /\ phase' = phase /\ UNCHANGED <<file, procs, hashes, engine>>
      BY <2>1, <1>13, Alone DEF Settle
    <2>3. call[c].waits = procs[e0] /\ procs[e0] # None /\ call[c].cand = hashes[e0]
      BY <2>1 DEF Orderly, Candidate
    <2>4. call'[c].pc = "next"
      BY <1>1, <1>5, <1>13, <2>1 DEF Settle
    <2>5. Candidate(c)'
      BY <2>4 DEF Candidate
    <2>6. \A e \in EngineSet : e # e0 => ~Settling(e)
      BY <1>1 DEF Settling
    <2>7. engine[procs[e0]].st # "starting"
      BY <2>3, <1>13 DEF Settle
    <2>8. hosted' = [hosted EXCEPT ![e0] = IF Alive(procs[e0]) THEN Ids(hashes[e0]) ELSE {}]
      BY <2>3, <1>13 DEF Settle
    <2>9. ASSUME NEW e \in EngineSet PROVE Remembered(e)'
      <3>1. Remembered(e)
        BY DEF Orderly
      <3>2. CASE e = e0
        <4>1. engine[procs[e]].st = "up" => hosted'[e] = Ids(engine[procs[e]].cfg)
          <5>1. SUFFICES ASSUME engine[procs[e]].st = "up" PROVE hosted'[e] = Ids(engine[procs[e]].cfg)
            OBVIOUS
          <5>2. Alive(procs[e0])
            BY <2>3, <3>2, <5>1 DEF Alive
          <5>3. engine[procs[e]].cfg = hashes[e0]
            BY <2>3, <3>1, <3>2, <5>1 DEF Remembered
          <5>4. hosted'[e] = Ids(hashes[e0])
            BY <1>2, <2>1, <2>8, <3>2, <5>2
          <5>5. QED
            BY <5>3, <5>4
        <4>2. QED
          BY <2>2, <2>7, <3>1, <3>2, <4>1 DEF Remembered, Ids
      <3>3. CASE e # e0
        <4>1. hosted'[e] = hosted[e] /\ ~Settling(e)
          BY <1>2, <2>6, <2>8, <3>3
        <4>2. QED
          BY <2>2, <3>1, <4>1 DEF Remembered, Ids
      <3>4. QED
        BY <3>2, <3>3
    <2>10. Owned'
      BY <2>2 DEF Orderly, Owned
    <2>11. Serial' /\ Closing'
      BY <2>2, <1>13, StillSerial DEF Over, Step
    <2>12. QED
      BY <2>5, <2>9, <2>10, <2>11, <1>4 DEF Orderly
  <1>14. QED
    BY <1>6, <1>7, <1>8, <1>9, <1>10, <1>11, <1>12, <1>13 DEF Step

\* A call begins.
LEMMA OrderlyBegin ==
    ASSUME Types, Orderly, Overlap = FALSE, NEW c \in Callers,
           Begin(c) \/ (c \in Handlers /\ SaveCores(c))
    PROVE  Orderly'
  <1>1. call \in [Callers -> Call] /\ CanBegin(c)
    BY DEF Types, TypeOK, Begin, SaveCores
  <1>2. \A d \in Callers : call[d].pc = "idle"
    BY <1>1 DEF CanBegin
  <1>3. ~Over /\ UNCHANGED <<file, procs, hashes, hosted, engine, phase>>
    BY <1>1 DEF CanBegin, Over, Begin, SaveCores, moduleVars
  <1>4. \A d \in Callers : d # c => call'[d] = call[d]
    BY <1>1 DEF Begin, SaveCores, BeginWith
  <1>5. call'[c].pc = "next"
    BY <1>1 DEF Begin, SaveCores, BeginWith, IdleCall
  <1>6. Serial' /\ Closing'
    BY <1>2, <1>3, <1>4 DEF Serial, Closing, Over
  <1>7. QED
    BY <1>2, <1>3, <1>4, <1>5, <1>6, QuietStep

\* The engine processes: one boots from the file it was started with, one ends.
LEMMA OrderlyEngines ==
    ASSUME Types, Orderly, NEW p \in Procs, EngineBoot(p) \/ EngineExit(p) \/ EngineCrash(p)
    PROVE  Orderly'
  <1>1. procs \in [EngineSet -> Procs \cup {None}] /\ engine \in [Procs -> Process]
    BY DEF Types, TypeOK
  <1>2. UNCHANGED <<file, procs, hashes, hosted, call, phase>>
    BY DEF EngineBoot, EngineExit, EngineCrash, moduleVars
  <1>3. \A q \in Procs : q # p => engine'[q] = engine[q]
    BY <1>1 DEF EngineBoot, EngineExit, EngineCrash
  <1>4. \/ engine'[p] = Dead
        \/ /\ engine[p].st = "starting" /\ engine'[p].st = "up"
           /\ engine'[p].cfg = file[engine[p].of]
    <2>1. CASE EngineBoot(p)
      <3>1. engine'[p] = Dead \/ engine'[p] = [engine[p] EXCEPT !.st = "up", !.cfg = file[engine[p].of]]
        BY <1>1, <2>1 DEF EngineBoot
      <3>2. [engine[p] EXCEPT !.st = "up", !.cfg = file[engine[p].of]].st = "up"
            /\ [engine[p] EXCEPT !.st = "up", !.cfg = file[engine[p].of]].cfg = file[engine[p].of]
        BY <1>1 DEF Process
      <3>3. QED
        BY <2>1, <3>1, <3>2 DEF EngineBoot
    <2>2. CASE EngineExit(p) \/ EngineCrash(p)
      BY <1>1, <2>2 DEF EngineExit, EngineCrash
    <2>3. QED
      BY <2>1, <2>2
  <1>5. engine'[p].st \in {"dead", "up"} /\ (engine'[p].st = "up" => engine[p].st = "starting")
    BY <1>4 DEF Dead
  <1>6. Owned'
    <2>1. \A e \in EngineSet : procs[e] # None => procs[e] \in Procs
      BY <1>1
    <2>2. \A e \in EngineSet : procs'[e] # None =>
            /\ engine'[procs'[e]].st # "term"
            /\ engine'[procs'[e]].st = "starting" => engine'[procs'[e]].of = e
      BY <1>2, <1>3, <1>5, <2>1 DEF Orderly, Owned
    <2>3. \A q \in Procs : engine'[q].st \in {"starting", "up"} => \E e \in EngineSet : procs'[e] = q
      BY <1>2, <1>3, <1>5 DEF Orderly, Owned
    <2>4. QED
      BY <1>2, <2>2, <2>3 DEF Orderly, Owned
  <1>7. \A d \in Callers : Candidate(d)'
    BY <1>2 DEF Orderly, Candidate, EngineAt
  <1>8. ASSUME NEW e \in EngineSet PROVE Remembered(e)'
    <2>1. Settling(e)' <=> Settling(e)
      BY <1>2 DEF Settling, EngineAt
    <2>2. Over' <=> Over
      BY <1>2 DEF Over
    <2>3. CASE procs[e] = p
      <3>1. engine'[p].st = "up" => engine'[p].cfg = hashes[e] /\ (Over \/ Settling(e))
        <4>1. SUFFICES ASSUME engine'[p].st = "up"
                       PROVE  engine'[p].cfg = hashes[e] /\ (Over \/ Settling(e))
          OBVIOUS
        <4>2. engine[p].st = "starting" /\ engine'[p].cfg = file[engine[p].of] /\ p # None
          BY <1>4, <4>1, NoneIsNothingElse DEF Dead
        <4>3. engine[p].of = e
          BY <2>3, <4>2 DEF Orderly, Owned
        <4>4. QED
          BY <2>3, <4>2, <4>3 DEF Orderly, Remembered
      <3>2. QED
        BY <1>2, <1>5, <2>1, <2>2, <2>3, <3>1 DEF Remembered
    <2>4. CASE procs[e] # p
      <3>1. procs[e] # None => engine'[procs[e]] = engine[procs[e]]
        BY <1>1, <1>3, <2>4
      <3>2. QED
        BY <1>2, <2>1, <2>2, <3>1 DEF Orderly, Remembered, Ids
    <2>5. QED
      BY <2>3, <2>4
  <1>9. Serial' /\ Closing'
    BY <1>2 DEF Orderly, Serial, Closing, Over
  <1>10. QED
    BY <1>6, <1>7, <1>8, <1>9 DEF Orderly

\* The users table and the end of the lifespan.
LEMMA OrderlyLifespan ==
    ASSUME Types, Orderly,
           \/ \E u \in Users : ToggleUser(u)
           \/ Shutdown \/ StopAll \/ Stopped \/ UNCHANGED vars
    PROVE  Orderly'
  <1>1. call \in [Callers -> Call] /\ Loop \in Callers /\ Loop \notin Handlers
        /\ Callers = Handlers \cup {Loop}
    BY LoopIsTheTask DEF Types, TypeOK, Callers
  <1>2. CASE (\E u \in Users : ToggleUser(u)) \/ UNCHANGED vars
    <2>1. UNCHANGED <<file, procs, hashes, hosted, engine, call, phase>>
      BY <1>2 DEF ToggleUser, vars, moduleVars
    <2>2. Serial' /\ Closing'
      BY <2>1 DEF Orderly, Serial, Closing, Over
    <2>3. QED
      BY <1>1, <2>1, <2>2, QuietStep DEF Over
  <1>3. CASE Shutdown
    <2>1. UNCHANGED <<file, procs, hashes, hosted, engine>> /\ phase' = "closing"
      BY <1>3 DEF Shutdown, moduleVars
    <2>2. call'[Loop].pc = "idle" /\ \A d \in Callers : d # Loop => call'[d] = call[d] /\ call[d].pc = "idle"
      BY <1>1, <1>3 DEF Shutdown, IdleCall
    <2>3. Serial' /\ Closing'
      BY <1>1, <2>1, <2>2 DEF Serial, Closing, Over
    <2>4. QED
      BY <1>1, <2>1, <2>2, <2>3, QuietStep DEF Over
  <1>4. CASE Stopped
    <2>1. UNCHANGED <<file, procs, hashes, hosted, engine, call>> /\ phase' = "stopped" /\ Over
      BY <1>4 DEF Stopped, Over, moduleVars
    <2>2. \A d \in Callers : call[d].pc = "idle"
      BY <1>1, <1>4, <2>1 DEF Stopped, Orderly, Closing
    <2>3. Serial' /\ Closing'
      BY <1>1, <1>4, <2>1, <2>2 DEF Stopped, Serial, Closing
    <2>4. QED
      BY <1>1, <2>1, <2>3, QuietStep DEF Over
  <1>5. CASE StopAll
    <2>1. PICK e \in EngineSet :
            /\ StopAt(e)
            /\ call' = IF Alive(procs[e])
                       THEN [call EXCEPT ![Loop] =
                                [IdleCall EXCEPT !.pc = "off", !.waits = procs[e]]]
                       ELSE call
      BY <1>5 DEF StopAll
    <2>2. phase' = "closing" /\ phase = "closing" /\ UNCHANGED <<file, hashes, hosted>>
      BY <1>5 DEF StopAll
    <2>3. \A d \in Callers : call[d].pc = "idle"
      BY <1>1, <1>5, <2>2 DEF StopAll, Orderly, Closing, Over
    <2>4. call'[Loop].pc \in {"idle", "off"} /\ \A d \in Callers : d # Loop => call'[d].pc = "idle"
      BY <1>1, <2>1, <2>3 DEF IdleCall
    <2>5. Serial' /\ Closing'
      BY <1>1, <2>2, <2>4 DEF Serial, Closing, Over
    <2>6. \A d \in Callers : Candidate(d)'
      BY <2>4 DEF Candidate
    <2>7. QED
      BY <2>1, <2>2, <2>5, <2>6, StopStep DEF Over
  <1>6. QED
    BY <1>2, <1>3, <1>4, <1>5

\* Every action of the model keeps the order.
LEMMA OrderlyStep ==
    ASSUME Types, Orderly, Overlap = FALSE, [Next]_vars
    PROVE  Orderly'
  <1>1. Handlers \subseteq Callers
    BY DEF Callers
  <1>2. QED
    BY <1>1, OrderlyBegin, OrderlyCallStep, OrderlyEngines, OrderlyLifespan DEF Next, Terminated

\* The supervisor stays orderly.
LEMMA StaysOrderly == ASSUME Overlap = FALSE PROVE Spec => [](Types /\ Orderly)
  <1>1. Types /\ Orderly /\ [Next]_vars => (Types /\ Orderly)'
    BY CallStepTypes, OtherStepTypes, OrderlyStep DEF Next
  <1>2. QED
    BY TypesInit, OrderlyInit, <1>1, PTL DEF Spec

\* No engine outlives the lifespan, the one a cancelled sync() was starting included.
THEOREM ShutdownIsClean == ASSUME Overlap = FALSE PROVE Spec => []NoEngineAfterShutdown
  <1>1. Types /\ Orderly => NoEngineAfterShutdown
    <2> SUFFICES ASSUME Types, Orderly, phase = "stopped", NEW p \in Procs
                 PROVE  engine[p].st \in {"dead", "term"}
      BY DEF NoEngineAfterShutdown
    <2>1. engine[p].st \in {"dead", "starting", "up", "term"}
      BY DEF Types, TypeOK, Process
    <2>2. ~ \E e \in EngineSet : procs[e] = p
      BY NoneIsNothingElse DEF Orderly, Closing
    <2>3. QED
      BY <2>1, <2>2 DEF Orderly, Owned
  <1>2. QED
    BY <1>1, StaysOrderly, PTL

(***************************************************************************)
(* What is published (Publication).                                        *)
(***************************************************************************)

\* At the end of a sync() every engine that is alive serves what it is said to host.
LEMMA LiveIsListening ==
    ASSUME Types, Orderly, NEW c \in Callers, Finish(c)
    PROVE  Live \subseteq Listening
  <1>1. call[c].pc = "next"
    BY DEF Finish
  <1>2. ASSUME NEW e \in EngineSet, Alive(procs[e]) PROVE hosted[e] \subseteq Listening
    <2>1. procs[e] \in Procs
      BY <1>2 DEF Types, TypeOK, Alive
    <2>2. engine[procs[e]].st \in {"starting", "up"}
      BY <1>2 DEF Orderly, Owned, Alive
    <2>3. hosted[e] \subseteq Ids(engine[procs[e]].cfg)
      BY <1>1, <1>2, <2>2, Alone DEF Alive
    <2>4. QED
      BY <2>1, <2>3 DEF Listening
  <1>3. QED
    BY <1>2 DEF Live

\* What listens is some of the profiles.
LEMMA ListeningType == Types' => Listening' \in SUBSET Profiles
  BY DEF Types, TypeOK, Process, Listening, Config, Listener, Ids

\* A sync() publishes only protocols an engine process serves at that moment; nothing
\* else touches what is published.
THEOREM PublishingIsHonest == ASSUME Overlap = FALSE PROVE Spec => PublishesListening
  <1>1. Init => Honest!Init
    <2> SUFFICES ASSUME Init PROVE published = None /\ Listening = {}
      BY DEF Honest!Init
    <2>1. \A p \in Procs : Ids(engine[p].cfg) = {}
      BY DEF Init, Dead, Ids
    <2>2. QED
      BY <2>1 DEF Init, Listening
  <1>2. (Types /\ Orderly) /\ (Types /\ Orderly)' /\ [Next]_vars
            => [Honest!Next]_<<Listening, published>>
    <2> SUFFICES ASSUME Types, Orderly, Types', [Next]_vars
                 PROVE  [Honest!Next]_<<Listening, published>>
      OBVIOUS
    <2>1. Listening' \in SUBSET Profiles
      BY ListeningType
    <2>2. ASSUME NEW c \in Callers, Finish(c) PROVE Honest!Publish
      <3>1. published' = Live /\ engine' = engine
        BY <2>2 DEF Finish
      <3>2. Live \subseteq Listening /\ Live \in SUBSET Profiles
        BY <2>2, LiveIsListening, Operators
      <3>3. Listening' = Listening
        BY <3>1 DEF Listening, Ids
      <3>4. QED
        BY <3>1, <3>2, <3>3, NoneIsNoProtocols DEF Honest!Publish
    <2>3. ASSUME published' = published PROVE Honest!World
      BY <2>1, <2>3 DEF Honest!World
    <2>4. (\E c \in Callers : Finish(c)) \/ published' = published
      <3>1. ASSUME NEW c \in Callers, Begin(c) \/ Step(c) \/ SpawnFails(c)
            PROVE  Finish(c) \/ published' = published
        BY <3>1 DEF Step, Begin, TurnOff, OffDone, Render, Refused, Accepted, StopDone, Spawn,
                    SpawnFails, Settle, moduleVars
      <3>2. QED
        BY <3>1 DEF Next, SaveCores, EngineBoot, EngineExit, EngineCrash, ToggleUser, Shutdown,
                    StopAll, Stopped, Terminated, vars, moduleVars
    <2>5. QED
      BY <2>2, <2>3, <2>4 DEF Honest!Next
  <1>3. QED
    BY <1>1, <1>2, StaysOrderly, PTL DEF Spec, PublishesListening, Honest!Spec
=============================================================================
